----------------------------- MODULE TokenEnrich -----------------------------
(***************************************************************************)
(* Token metadata and statistics (packages/enrich).  A catalog job reads   *)
(* the provider's whole token list into token_meta, a scan enqueues one    *)
(* lookup for each token it left out, and the rollup copies the newest     *)
(* metric points into token_stats.                                         *)
(***************************************************************************)
EXTENDS Sources, FiniteSets

CONSTANTS
  Tokens,
  Early,       \* the tokens indexed before the enrichment starts
  Listing,     \* the provider's list: sequence of [token, known, trust]
  Known,       \* the tokens whose lookup finds something
  TokenAnswers, \* what a provider may answer of one: set of [known, trust]
  PageSize, FlushEvery,
  TokenBatch,  \* rows the scan takes
  MaxHeld,     \* bound: holders of a token, trust lines of a token
  MaxLookups,  \* bound: waiting token.metadata jobs of one token
  Traded,      \* bound: the tokens whose metrics change
  MaxMoves,    \* bound: metric points written
  MaxTokenFaults  \* bound: pages that fail, crashed or lost jobs

TokenFields == {"name", "domain"}
Item == [token : Tokens, known : SUBSET TokenFields, trust : Nat]

ASSUME TokenAssumption ==
  /\ Early \subseteq Tokens /\ Known \subseteq Tokens /\ Traded \subseteq Tokens
  /\ Listing \in Seq(Item)
  /\ TokenAnswers \subseteq [known : SUBSET TokenFields, trust : Nat]
  /\ {PageSize, FlushEvery, TokenBatch, MaxHeld, MaxLookups, MaxMoves, MaxTokenFaults} \subseteq Nat

VARIABLES
  exists,   \* the tokens in the token table
  tokenMeta, \* token -> its token_meta row
  pos,      \* the catalog job: the next list item, 0 when it does not run
  index,    \* the tokens it looks for
  buf,      \* its rows that wait for a flush, by token
  lookups,  \* token -> token.metadata jobs that wait
  held,     \* token -> its newest token_holders point, 0 when none
  lines,    \* token -> its newest token_trustlines point, 0 when none
  stats,    \* token -> holders in token_stats, or NoStats
  moves, tokenFaults

catalogVars == <<pos, index, buf>>
metricVars  == <<held, lines, stats, moves>>
tokenVars == <<exists, tokenMeta, catalogVars, lookups, metricVars, tokenFaults>>

\* An error is due when fetched_at lies more than retryH back.
MetaRow == [known : SUBSET TokenFields, trust : Nat, error : {"none", "recent", "due"}, row : BOOLEAN]
NoTokenMeta == [known |-> {}, trust |-> 0, error |-> "none", row |-> FALSE]
NoStats == MaxHeld + 1
NoRows == [t \in {} |-> NoTokenMeta]

TokenInit ==
  /\ exists = Early
  /\ tokenMeta = [t \in Tokens |-> NoTokenMeta]
  /\ pos = 0 /\ index = {} /\ buf = NoRows
  /\ lookups = [t \in Tokens |-> 0]
  /\ held = [t \in Tokens |-> 0] /\ lines = [t \in Tokens |-> 0]
  /\ stats = [t \in Tokens |-> NoStats]
  /\ moves = 0 /\ tokenFaults = 0

------------------------------------------------------------------------------
(* The indexer inserts tokens and metric points. *)

CreateToken(t) ==
  /\ t \notin exists
  /\ exists' = exists \cup {t}
  /\ UNCHANGED <<tokenMeta, catalogVars, lookups, metricVars, tokenFaults>>

MetricPoint(t) ==
  /\ t \in exists \cap Traded /\ moves < MaxMoves
  /\ \/ lines' = lines /\ \E n \in 0..MaxHeld \ {held[t]} : held' = [held EXCEPT ![t] = n]
     \/ held' = held /\ \E n \in 0..MaxHeld \ {lines[t]} : lines' = [lines EXCEPT ![t] = n]
  /\ moves' = moves + 1
  /\ UNCHANGED <<exists, tokenMeta, catalogVars, lookups, stats, tokenFaults>>

------------------------------------------------------------------------------
(* Both writers of token_meta keep what they bring nothing for. *)

(* Mutant: the newer trust level replaces the older one. *)
Newer(x, y) == x

Greater(x, y) == IF x > y THEN x ELSE y

TokenStored(old, new, error) ==
  [known |-> new.known \cup old.known, trust |-> Greater(new.trust, old.trust),
   error |-> error, row |-> TRUE]

(* Mutant: the catalog leaves an error that is set, too. *)
CatalogErrorKept(old, new) == TokenStored(old, new, old.error)

\* token.catalog clears the error; token.metadata leaves one that is set, but with a
\* new fetched_at.
CatalogStored(old, new) == TokenStored(old, new, "none")
LookupStored(old, new)  == TokenStored(old, new, IF old.error = "none" THEN "none" ELSE "recent")

(* Mutant: a lookup that finds nothing writes nothing. *)
Unrecorded(old) == old

Missed(old) == [old EXCEPT !.error = "recent", !.row = TRUE]

------------------------------------------------------------------------------
(* token.catalog *)

Flushed(rows) ==
  [t \in Tokens |-> IF t \in DOMAIN rows THEN CatalogStored(tokenMeta[t], rows[t]) ELSE tokenMeta[t]]

StartCatalog ==
  /\ pos = 0
  /\ pos' = 1 /\ index' = exists /\ buf' = NoRows
  /\ UNCHANGED <<exists, tokenMeta, lookups, metricVars, tokenFaults>>

\* The buffer is keyed by token: of two items for one token the later one counts.
Buffered(item) ==
  IF item.token \notin index THEN buf
  ELSE [t \in DOMAIN buf \cup {item.token} |-> IF t = item.token THEN item ELSE buf[t]]

CatalogItem ==
  /\ pos \in DOMAIN Listing
  /\ LET rows == Buffered(Listing[pos])
         full == Cardinality(DOMAIN rows) >= FlushEvery
     IN /\ tokenMeta' = IF full THEN Flushed(rows) ELSE tokenMeta
        /\ buf' = IF full THEN NoRows ELSE rows
  /\ pos' = pos + 1
  /\ UNCHANGED <<exists, index, lookups, metricVars, tokenFaults>>

\* The list ends at a page that is empty or short, or that could not be read.
PageFails == pos % PageSize = 1 % PageSize /\ "null" \in JsonOutcomes /\ tokenFaults < MaxTokenFaults

EndCatalog ==
  /\ pos > 0
  /\ \/ pos = Len(Listing) + 1 /\ tokenFaults' = tokenFaults
     \/ PageFails /\ tokenFaults' = tokenFaults + 1
  /\ tokenMeta' = Flushed(buf)
  /\ pos' = 0 /\ index' = {} /\ buf' = NoRows
  /\ UNCHANGED <<exists, lookups, metricVars>>

CrashCatalog ==
  /\ pos > 0 /\ tokenFaults < MaxTokenFaults
  /\ tokenFaults' = tokenFaults + 1
  /\ pos' = 0 /\ index' = {} /\ buf' = NoRows
  /\ UNCHANGED <<exists, tokenMeta, lookups, metricVars>>

------------------------------------------------------------------------------
(* token.metadata *)

UntriedTokens == {t \in exists : ~tokenMeta[t].row}
DueTokens == {t \in exists : tokenMeta[t].error = "due"}

\* A LIMIT without an order.
TokenLimit(S) ==
  {T \in SUBSET S :
     Cardinality(T) = IF Cardinality(S) < TokenBatch THEN Cardinality(S) ELSE TokenBatch}

\* The singleton key holds back a job that waits, until it is taken.
ScanTokens ==
  /\ UNCHANGED <<exists, tokenMeta, catalogVars, metricVars, tokenFaults>>
  /\ \E batch \in TokenLimit(UntriedTokens \cup DueTokens) : \E unnoticed \in SUBSET batch :
       lookups' = [t \in Tokens |->
                     IF lookups[t] < MaxLookups /\ t \in batch /\ (lookups[t] = 0 \/ t \in unnoticed)
                       THEN lookups[t] + 1 ELSE lookups[t]]

\* retryH after its fetched_at an error row is due.
TokenFallsDue(t) ==
  /\ tokenMeta[t].error = "recent"
  /\ tokenMeta' = [tokenMeta EXCEPT ![t].error = "due"]
  /\ UNCHANGED <<exists, catalogVars, lookups, metricVars, tokenFaults>>

\* The first provider's answer, or the second's when only that one has a name.
Best(first, second) ==
  IF first = {} \/ ("name" \in UNION {a.known : a \in second}
                    /\ "name" \notin UNION {a.known : a \in first})
    THEN IF second = {} THEN first ELSE second
    ELSE first

\* At most one answer, none when the request failed or found nothing.
Replied(t) == {{}} \cup (IF t \in Known /\ "ok" \in JsonOutcomes THEN {{a} : a \in TokenAnswers} ELSE {})

RunLookup(t) ==
  /\ UNCHANGED <<exists, catalogVars, metricVars, tokenFaults>>
  /\ lookups[t] > 0
  /\ \E first, second \in Replied(t) :
       LET best == Best(first, second) IN
       tokenMeta' = [tokenMeta EXCEPT ![t] =
                       IF best = {} THEN Missed(@) ELSE LookupStored(@, CHOOSE a \in best : TRUE)]
  /\ lookups' = [lookups EXCEPT ![t] = @ - 1]

LoseLookup(t) ==
  /\ lookups[t] > 0 /\ tokenFaults < MaxTokenFaults
  /\ lookups' = [lookups EXCEPT ![t] = @ - 1]
  /\ tokenFaults' = tokenFaults + 1
  /\ UNCHANGED <<exists, tokenMeta, catalogVars, metricVars>>

------------------------------------------------------------------------------
(* stats.rollup *)

Described(t) == tokenMeta[t].row /\ tokenMeta[t].error = "none"

(* Mutant: a token needs both holders and metadata. *)
HeldAndKnown(t) == t \in exists /\ held[t] > 0 /\ Described(t)

Candidate(t) == t \in exists /\ (held[t] > 0 \/ lines[t] > 0 \/ Described(t))

Rollup ==
  /\ stats' = [t \in Tokens |-> IF Candidate(t) THEN held[t] ELSE stats[t]]
  /\ UNCHANGED <<exists, tokenMeta, catalogVars, lookups, held, lines, moves, tokenFaults>>

------------------------------------------------------------------------------
Catalog == StartCatalog \/ CatalogItem \/ EndCatalog

TokenNext ==
  \/ \E t \in Tokens : CreateToken(t) \/ MetricPoint(t)
  \/ \E t \in Tokens : RunLookup(t) \/ LoseLookup(t) \/ TokenFallsDue(t)
  \/ StartCatalog \/ CatalogItem \/ EndCatalog \/ CrashCatalog
  \/ ScanTokens \/ Rollup

TokenSpec == TokenInit /\ [][TokenNext]_tokenVars

\* The crons fire, workers take jobs and requests come back.  Metadata without an
\* error stays so until a retry hours or days later, long enough for a rollup.
TokenFairSpec ==
  /\ TokenSpec
  /\ WF_tokenVars(Catalog) /\ WF_tokenVars(ScanTokens) /\ SF_tokenVars(Rollup)
  /\ \A t \in Tokens : WF_tokenVars(RunLookup(t))

------------------------------------------------------------------------------
TokenTypeOK ==
  /\ exists \subseteq Tokens
  /\ tokenMeta \in [Tokens -> MetaRow]
  /\ pos \in 0..(Len(Listing) + 1)
  /\ index \subseteq exists /\ DOMAIN buf \subseteq index
  /\ lookups \in [Tokens -> 0..MaxLookups]
  /\ held \in [Tokens -> 0..MaxHeld] /\ lines \in [Tokens -> 0..MaxHeld]
  /\ stats \in [Tokens -> 0..NoStats]
  /\ moves \in 0..MaxMoves /\ tokenFaults \in 0..MaxTokenFaults

\* No answer, miss, repeated job or partial catalog takes anything back that is
\* known of a token, and its trust level never falls (token-catalog.ts:107-126,
\* token-metadata.ts:47-76).
TokenKept ==
  \A t \in Tokens : /\ tokenMeta[t].known \subseteq tokenMeta'[t].known
                    /\ tokenMeta[t].trust <= tokenMeta'[t].trust
                    /\ tokenMeta[t].row => tokenMeta'[t].row
TokenDataKept == [][TokenKept]_tokenVars

\* Error rows that are due may fill the scan, which takes its rows in no order.
TokensCrowded == Cardinality(DueTokens) >= TokenBatch

\* Every token gets a metadata row, from the catalog or from a lookup, be it one that
\* records the miss, unless rows to be tried again fill the scans: again and again
\* there is no untried token or the scan is crowded (discovery.ts:119-135,
\* token-metadata.ts:34-46).
EveryTokenTried == []<>(TokensCrowded \/ UntriedTokens = {})

\* A token the provider lists gets out of the error state again and again: a stale
\* lookup may put it back, but no miss is final (token-catalog.ts:120).
ListedRecovers ==
  \A t \in {Listing[k].token : k \in DOMAIN Listing} : []<>(t \in exists => Described(t))

\* When the metrics rest the statistics come to rest at the newest point, of each
\* token with a holder, a line or metadata without an error: a token that loses its
\* last line and has none of them keeps the numbers it had (rollup.ts:31-86).
StatsSettle ==
  <>[](\A t \in exists : held[t] > 0 \/ lines[t] > 0 \/ Described(t) => stats[t] = held[t])
==============================================================================
