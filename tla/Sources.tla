------------------------------- MODULE Sources -------------------------------
(***************************************************************************)
(* Outbound requests (packages/sources): what a call ends with, as a       *)
(* function of what the network answers.                                   *)
(***************************************************************************)
EXTENDS Naturals, Sequences

CONSTANTS
  MaxRedirects,  \* hops safeFetch follows
  Gateways,      \* configured IPFS gateways
  Max429         \* times a catalog page is asked for again

ASSUME SourcesAssumption == {MaxRedirects, Gateways, Max429} \subseteq Nat

\* One hop: whether its URL is http(s) and all its addresses are public, and what
\* comes back.
Hop == [public : BOOLEAN,
        back   : {"nothing", "redirect", "oversized", "garbled", "json"},
        status : {"ok", "limited", "error"}]

\* safeFetch: every hop is checked again; a request that fails or times out, a body
\* over the ceiling or no JSON, and a redirect too many throw.
SafeFetch(hops) ==
  LET from[k \in 1..Len(hops)] ==
        CASE ~hops[k].public \/ hops[k].back \in {"nothing", "oversized", "garbled"} -> "thrown"
          [] hops[k].public /\ hops[k].back = "json" -> hops[k].status
          [] hops[k].public /\ hops[k].back = "redirect" ->
               IF k = Len(hops) THEN "thrown" ELSE from[k + 1]
  IN from[1]

Replies == {SafeFetch(hops) : hops \in [1..MaxRedirects + 1 -> Hop]}

\* resolveForFetch: how many URLs there are to try for a kind of URI.
Candidates(uri) ==
  CASE uri = "ipfs" -> Gateways [] uri \in {"ar", "https"} -> 1 [] OTHER -> 0

\* fetchNftMetadata: a data: URI holds its document, any other is asked for at one
\* candidate after the other until one has it.
FetchNftMetadata(uri, replies) ==
  IF \E k \in 1..Candidates(uri) : replies[k] = "ok" THEN "ok" ELSE "thrown"

FetchOutcomes(uri) ==
  IF uri = "data" THEN {"ok", "thrown"}
  ELSE {FetchNftMetadata(uri, replies) : replies \in [1..Candidates(uri) -> Replies]}

\* Bithomp getPage: a 429 is waited out a few times, all else that is no success throws.
GetPage(replies) ==
  LET try[k \in 1..Len(replies)] ==
        CASE replies[k] = "limited" /\ k < Len(replies) -> try[k + 1]
          [] replies[k] = "ok" -> "ok"
          [] OTHER -> "thrown"
  IN try[1]

PageOutcomes == {GetPage(replies) : replies \in [1..Max429 + 1 -> Replies]}

\* xrplmeta and xrpl.to getJson: whatever goes wrong, null.
GetJson(reply) == IF reply = "ok" THEN "ok" ELSE "null"

JsonOutcomes == {GetJson(reply) : reply \in Replies}
==============================================================================
