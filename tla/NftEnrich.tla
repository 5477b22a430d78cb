------------------------------ MODULE NftEnrich ------------------------------
(***************************************************************************)
(* NFT metadata (packages/enrich, packages/jobs, packages/sources).  A     *)
(* periodic scan enqueues one catalog pull per issuer and, for what the    *)
(* pulls left without metadata, one fetch per NFT; workers run these jobs  *)
(* beside the indexer, which writes the same nft table.                    *)
(***************************************************************************)
EXTENDS Sources, FiniteSets

CONSTANTS
  Issuers,
  Nfts, IssuerOf,
  UriOf,        \* NFT -> the kind of its URI
  Listed,       \* issuer -> the NFTs the catalog provider lists, in page order
  BurnedThere,  \* the NFTs the provider reports as burned
  Starts,       \* the nft table to begin with, and the NFTs the indexer meets from then on
  Answers,      \* the sets of fields a document may have
  Failing,      \* issuers whose pull fails every time
  Reach,        \* how many NFTs of one issuer a pull reads: 200 pages
  IssuerBatch, NftBatch,
  MaxCopies,    \* bound: waiting nft.metadata jobs of one NFT
  MaxFaults     \* bound: jobs that fail, expire or get lost

\* What is known of an NFT; "image" is the image its metadata document names.
Fields   == {"name", "image", "mediaType"}
NftState == {"none", "bare", "stub", "full", "gone"}

ASSUME Assumption ==
  /\ IssuerOf \in [Nfts -> Issuers]
  /\ Listed \in [Issuers -> Seq(Nfts)]
  /\ \A i \in Issuers : \A k \in DOMAIN Listed[i] : IssuerOf[Listed[i][k]] = i
  /\ BurnedThere \subseteq Nfts
  /\ Starts \subseteq [rows : [Nfts -> NftState], coming : SUBSET Nfts]
  /\ Answers \subseteq SUBSET Fields /\ Failing \subseteq Issuers
  /\ {Reach, IssuerBatch, NftBatch, MaxCopies, MaxFaults} \subseteq Nat

VARIABLES
  coming,   \* the NFTs the indexer may meet
  nft,      \* NFT -> none | bare (no URI) | stub (no owner) | full | gone (not live)
  meta,     \* NFT -> its nft_meta row: the fields known and whether error is set, as
            \* of less than a day ago (recent) or of before that (due)
  catalog,  \* issuer -> issuer_catalog: never pulled | fresh (< 1h) | graced | old (> 72h)
  queued,   \* issuers with an nft.collection job that waits
  pull,     \* <<issuer, run>> -> the next NFT to write, 0 when no such run
  copies,   \* NFT -> nft.metadata jobs that wait
  faults

vars == <<coming, nft, meta, catalog, queued, pull, copies, faults>>

Runs     == {"job", "late"}  \* "late": expired for the queue, yet still running
NoMeta   == [known |-> {}, error |-> "none", row |-> FALSE]
Meta     == [known : SUBSET Fields, error : {"none", "recent", "due"}, row : BOOLEAN]
CatalogState == {"never", "fresh", "graced", "old"}

Init ==
  /\ \E start \in Starts : nft = start.rows /\ coming = start.coming
  /\ meta = [n \in Nfts |-> NoMeta]
  /\ catalog = [i \in Issuers |-> "never"]
  /\ queued = {}
  /\ pull = [p \in Issuers \X Runs |-> 0]
  /\ copies = [n \in Nfts |-> 0]
  /\ faults = 0

------------------------------------------------------------------------------
(* The indexer's side of the nft table. *)

\* A mint or a move: the row gets its URI and its owner.
IndexFull(n) ==
  /\ nft[n] \in {"none", "bare", "stub"}
  /\ nft' = [nft EXCEPT ![n] = "full"]
  /\ UNCHANGED <<coming, meta, catalog, queued, pull, copies, faults>>

\* An offer for an NFT not seen yet: a row without a URI.
IndexBare(n) ==
  /\ nft[n] = "none"
  /\ nft' = [nft EXCEPT ![n] = "bare"]
  /\ UNCHANGED <<coming, meta, catalog, queued, pull, copies, faults>>

IndexBurn(n) ==
  /\ nft[n] # "gone"
  /\ nft' = [nft EXCEPT ![n] = "gone"]
  /\ UNCHANGED <<coming, meta, catalog, queued, pull, copies, faults>>

------------------------------------------------------------------------------
(* Discovery.  What it selects waits in a queue anyway, so that the time between *)
(* the select and the enqueue is part of that wait.                              *)

\* A LIMIT without an order: any of the rows, as many as there are up to the limit.
Limit(S, max) == {T \in SUBSET S : Cardinality(T) = IF Cardinality(S) < max THEN Cardinality(S) ELSE max}

Met(i) == \E n \in Nfts : IssuerOf[n] = i /\ nft[n] # "none"
(* Mutant: an issuer that was never pulled has no catalog row to be selected by. *)
PulledBefore == {i \in Issuers : Met(i) /\ catalog[i] = "old"}

ToPull == {i \in Issuers : Met(i) /\ catalog[i] \in {"never", "old"}}

\* send() with a singleton key on a stately queue: no second job waits for the issuer.
ScanIssuers ==
  /\ UNCHANGED <<coming, nft, meta, catalog, pull, copies, faults>>
  /\ \E batch \in Limit(ToPull, IssuerBatch) : queued' = queued \cup batch

(* Mutant: the fallback waits for the age at which a catalog is pulled again. *)
GatedWhenOld(n) == nft[n] \in {"stub", "full"} /\ catalog[IssuerOf[n]] = "old"

\* A live NFT with a URI, whose issuer was pulled more than an hour ago.
Gated(n) == nft[n] \in {"stub", "full"} /\ catalog[IssuerOf[n]] \in {"graced", "old"}

Untried == {n \in Nfts : Gated(n) /\ ~meta[n].row}
Retries == {n \in Nfts : Gated(n) /\ meta[n].error = "due"}

\* The bulk insert() may or may not notice that an NFT has a job already.
ScanNfts ==
  /\ UNCHANGED <<coming, nft, meta, catalog, queued, pull, faults>>
  /\ \E batch \in Limit(Untried \cup Retries, NftBatch) : \E unnoticed \in SUBSET batch :
       copies' = [n \in Nfts |->
                    IF n \in batch /\ copies[n] < MaxCopies /\ (copies[n] = 0 \/ n \in unnoticed)
                      THEN copies[n] + 1 ELSE copies[n]]

------------------------------------------------------------------------------
(* nft.collection: the pull of one issuer's catalog. *)

Last(i) == IF Len(Listed[i]) < Reach THEN Len(Listed[i]) ELSE Reach

\* A stately queue runs one job per key at a time.
StartPull(i) ==
  /\ i \in queued /\ pull[<<i, "job">>] = 0
  /\ queued' = queued \ {i}
  /\ pull' = [pull EXCEPT ![<<i, "job">>] = 1]
  /\ UNCHANGED <<coming, nft, meta, catalog, copies, faults>>

(* Mutant: a second write replaces every column. *)
Replaced(old, new) == new

\* The columns a second write keeps when it brings none; media_type is always
\* classified and so always replaced.
Coalesced(old, new) == new \cup (old \ {"mediaType"})
Row(known)          == [known |-> known, error |-> "none", row |-> TRUE]
Fetched(m, new)     == Row(Coalesced(m.known, new))
\* A catalog entry whose metadata names no image brings the token's own URI in its
\* place (mapNft), so that an image known before does not survive a pull.
Pulled(m, new)      == Row(Coalesced(m.known \ {"image"}, new))
FetchError(m)       == [m EXCEPT !.error = "recent", !.row = TRUE]

\* The row the pull inserts unless there is one.
StubOf(n) == IF nft[n] # "none" THEN nft[n] ELSE IF n \in BurnedThere THEN "gone" ELSE "stub"

\* One NFT of the catalog, with whatever metadata the provider has for it.
PullNft(i, r) ==
  LET k == pull[<<i, r>>]
      n == Listed[i][k]
  IN /\ k \in 1..Last(i) /\ i \notin Failing
     /\ nft' = [nft EXCEPT ![n] = StubOf(n)]
     /\ \E known \in Answers : meta' = [meta EXCEPT ![n] = Pulled(@, known)]
     /\ pull' = [pull EXCEPT ![<<i, r>>] = k + 1]
     /\ UNCHANGED <<coming, catalog, queued, copies, faults>>

\* Only a pull that read the whole catalog is recorded in issuer_catalog.
FinishPull(i, r) ==
  /\ pull[<<i, r>>] = Last(i) + 1 /\ i \notin Failing
  /\ catalog' = [catalog EXCEPT ![i] = "fresh"]
  /\ pull' = [pull EXCEPT ![<<i, r>>] = 0]
  /\ UNCHANGED <<coming, nft, meta, queued, copies, faults>>

(* Mutant: a page that fails is taken for the end of the catalog. *)
EndPull(i, r) ==
  /\ pull[<<i, r>>] # 0
  /\ IF i \in Failing THEN faults' = faults ELSE faults < MaxFaults /\ faults' = faults + 1
  /\ pull' = [pull EXCEPT ![<<i, r>>] = 0]
  /\ catalog' = [catalog EXCEPT ![i] = "fresh"]
  /\ UNCHANGED <<coming, nft, meta, queued, copies>>

\* A page throws (rate limit, status, parse), or a statement, or the worker dies,
\* possibly between the two inserts of an NFT: what was written stays; the job is
\* queued again unless its retries are used up.
FailPull(i, r) ==
  /\ pull[<<i, r>>] # 0 /\ "thrown" \in PageOutcomes
  /\ \/ UNCHANGED nft
     \/ /\ pull[<<i, r>>] \in 1..Last(i) /\ i \notin Failing
        /\ LET n == Listed[i][pull[<<i, r>>]] IN nft' = [nft EXCEPT ![n] = StubOf(n)]
  /\ IF i \in Failing THEN faults' = faults ELSE faults < MaxFaults /\ faults' = faults + 1
  /\ pull' = [pull EXCEPT ![<<i, r>>] = 0]
  /\ queued' \in IF r = "job" THEN {queued, queued \cup {i}} ELSE {queued}
  /\ UNCHANGED <<coming, meta, catalog, copies>>

\* expireInSeconds: the queue gives the job up, its handler goes on.
ExpirePull(i) ==
  /\ pull[<<i, "job">>] # 0 /\ pull[<<i, "late">>] = 0 /\ i \notin Failing
  /\ faults < MaxFaults /\ faults' = faults + 1
  /\ pull' = [pull EXCEPT ![<<i, "late">>] = pull[<<i, "job">>], ![<<i, "job">>] = 0]
  /\ queued' \in {queued, queued \cup {i}}
  /\ UNCHANGED <<coming, nft, meta, catalog, copies>>

------------------------------------------------------------------------------
(* nft.metadata: the fetch of one NFT's metadata document. *)

\* The document was found at one of the gateways, or at none.
RunFetch(n) ==
  /\ copies[n] > 0
  /\ \/ /\ "ok" \in FetchOutcomes(UriOf[n])
        /\ \E known \in Answers : meta' = [meta EXCEPT ![n] = Fetched(@, known)]
     \/ /\ "thrown" \in FetchOutcomes(UriOf[n])
        /\ meta' = [meta EXCEPT ![n] = FetchError(@)]
  /\ copies' = [copies EXCEPT ![n] = @ - 1]
  /\ UNCHANGED <<coming, nft, catalog, queued, pull, faults>>

LoseFetch(n) ==
  /\ copies[n] > 0 /\ faults < MaxFaults
  /\ copies' = [copies EXCEPT ![n] = @ - 1]
  /\ faults' = faults + 1
  /\ UNCHANGED <<coming, nft, meta, catalog, queued, pull>>

------------------------------------------------------------------------------
Grace(i) ==
  /\ catalog[i] = "fresh"
  /\ catalog' = [catalog EXCEPT ![i] = "graced"]
  /\ UNCHANGED <<coming, nft, meta, queued, pull, copies, faults>>

Outdate(i) ==
  /\ catalog[i] = "graced"
  /\ catalog' = [catalog EXCEPT ![i] = "old"]
  /\ UNCHANGED <<coming, nft, meta, queued, pull, copies, faults>>

\* retryH after its fetched_at an error row is due.
FallDue(n) ==
  /\ meta[n].error = "recent"
  /\ meta' = [meta EXCEPT ![n].error = "due"]
  /\ UNCHANGED <<coming, nft, catalog, queued, pull, copies, faults>>

Advance(i, r) == PullNft(i, r) \/ FinishPull(i, r)

Next ==
  \/ \E n \in coming : IndexFull(n) \/ IndexBare(n) \/ IndexBurn(n)
  \/ ScanIssuers \/ ScanNfts
  \/ \E i \in Issuers : StartPull(i) \/ ExpirePull(i) \/ Grace(i) \/ Outdate(i)
  \/ \E i \in Issuers, r \in Runs : Advance(i, r) \/ FailPull(i, r)
  \/ \E n \in Nfts : RunFetch(n) \/ LoseFetch(n) \/ FallDue(n)

Spec == Init /\ [][Next]_vars

\* The crons fire, workers take jobs, requests come back and clocks run.  A catalog
\* is between one and 72 hours old for long enough that a scan comes by.
FairSpec ==
  /\ Spec
  /\ WF_vars(ScanIssuers) /\ SF_vars(ScanNfts /\ Untried # {})
  /\ \A i \in Issuers : /\ WF_vars(StartPull(i)) /\ WF_vars(Grace(i))
                        /\ \A r \in Runs : WF_vars(Advance(i, r) \/ (i \in Failing /\ FailPull(i, r)))
  /\ \A n \in Nfts : WF_vars(RunFetch(n))

------------------------------------------------------------------------------
TypeOK ==
  /\ coming \subseteq Nfts
  /\ nft \in [Nfts -> NftState]
  /\ meta \in [Nfts -> Meta]
  /\ catalog \in [Issuers -> CatalogState]
  /\ queued \subseteq Issuers
  /\ pull \in [Issuers \X Runs -> Nat]
  /\ copies \in [Nfts -> 0..MaxCopies]
  /\ faults \in 0..MaxFaults

\* issuer_catalog is the scan's only evidence that an issuer's NFTs are covered:
\* once it has a row, every listed NFT within reach has its nft row and its
\* metadata row, however many pulls failed, expired or overlapped on the way
\* (nft-collection.ts handleNftCollection, discovery.ts:86-93).
CatalogCovers ==
  \A i \in Issuers : catalog[i] # "never" =>
    \A k \in 1..Last(i) : nft[Listed[i][k]] # "none" /\ meta[Listed[i][k]].row

\* What is known of an NFT is not lost to a poorer answer, a late job or an error:
\* no field disappears but media_type, and the image only in a step by which a pull
\* writes this NFT; a row the indexer completed never falls back to a stub, and a
\* burned NFT stays burned ("don't regress good data", nft-metadata.ts:46; "never
\* regress rows the indexer wrote", nft-collection.ts:51).
WrittenByPull(n) == \E i \in Issuers, r \in Runs :
  /\ pull[<<i, r>>] \in 1..Last(i) /\ Listed[i][pull[<<i, r>>]] = n
  /\ pull'[<<i, r>>] = pull[<<i, r>>] + 1
Kept ==
  \A n \in Nfts :
    /\ meta[n].known \ {"image", "mediaType"} \subseteq meta'[n].known
    /\ "image" \in meta[n].known \ meta'[n].known => WrittenByPull(n)
    /\ meta[n].row => meta'[n].row
    /\ nft[n] = "full" => nft'[n] \in {"full", "gone"}
    /\ nft[n] = "gone" => nft'[n] = "gone"
DataKept == [][Kept]_vars

\* The scans' limits take rows in no order, so the rows that come up again and again
\* may fill them: issuers whose pull fails for ever or is repeated after 72 hours,
\* and error rows that are due.
IssuersCrowded ==
  Cardinality({i \in ToPull : i \in Failing \/ catalog[i] = "old"}) >= IssuerBatch
NftsCrowded == Cardinality(Retries) >= NftBatch

\* Every issuer the indexer met gets its catalog pulled in the end, whatever fails,
\* unless what comes up again fills the scans: again and again none is left that was
\* never pulled, or they are crowded (discovery.ts:64-81).
EveryIssuerPulled ==
  []<>(IssuersCrowded \/ \A i \in Issuers \ Failing : Met(i) => catalog[i] # "never")

\* Every live NFT with a URI gets a metadata row in the end, from the catalog or from
\* its own fetch, unless its issuer's catalog can never be pulled or what comes up
\* again fills the scans (discovery.ts:83-112).
EveryNftTried ==
  []<>(\/ IssuersCrowded \/ NftsCrowded
       \/ \A n \in Nfts : IssuerOf[n] \notin Failing /\ nft[n] \in {"stub", "full"} => meta[n].row)
==============================================================================
