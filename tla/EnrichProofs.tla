----------------------------- MODULE EnrichProofs -----------------------------
(***************************************************************************)
(* What issuer_catalog promises, and that nothing known of an NFT or of a  *)
(* token is lost, for every set of issuers, NFTs and tokens, every catalog *)
(* and every bound.                                                        *)
(***************************************************************************)
EXTENDS NftEnrich, TokenEnrich, TLAPS

Covered(n) == nft[n] # "none" /\ meta[n].row

\* A pull has covered the NFTs before the one it writes next.
PullsCover ==
  \A i \in Issuers, r \in Runs : \A k \in 1..Last(i) :
    k < pull[<<i, r>>] => Covered(Listed[i][k])

IndInv == TypeOK /\ PullsCover /\ CatalogCovers

LEMMA Bounds == MaxCopies \in Nat /\ MaxFaults \in Nat /\ Reach \in Nat
  BY Assumption DEF Assumption

LEMMA LastType == \A i \in Issuers : Last(i) \in Nat /\ Last(i) <= Len(Listed[i])
  BY Assumption DEF Assumption, Last

LEMMA ListedType == \A i \in Issuers : \A k \in 1..Last(i) : Listed[i][k] \in Nfts
  BY LastType, Assumption DEF Assumption

\* What a second write of a metadata row keeps of what the first one knew.
LEMMA StoredKeeps ==
  ASSUME NEW m \in Meta, NEW new \in Answers
  PROVE  /\ Fetched(m, new) \in Meta /\ Fetched(m, new).row
         /\ m.known \ {"mediaType"} \subseteq Fetched(m, new).known
         /\ Pulled(m, new) \in Meta /\ Pulled(m, new).row
         /\ m.known \ {"image", "mediaType"} \subseteq Pulled(m, new).known
  <1>1. m.known \in SUBSET Fields
    BY DEF Meta
  <1>2. new \in SUBSET Fields
    BY Assumption DEF Assumption
  <1>3. Coalesced(m.known, new) \in SUBSET Fields /\ Coalesced(m.known \ {"image"}, new) \in SUBSET Fields
    BY <1>1, <1>2 DEF Coalesced
  <1> QED
    BY <1>3 DEF Fetched, Pulled, Row, Meta, Coalesced

LEMMA ErrorKeeps ==
  ASSUME NEW m \in Meta
  PROVE  FetchError(m) \in Meta /\ FetchError(m).row /\ FetchError(m).known = m.known
  BY DEF FetchError, Meta

\* What is covered stays covered.
CoverKept == \A n \in Nfts : Covered(n) => Covered(n)'

LEMMA InitInv == Init => IndInv
  <1> SUFFICES ASSUME Init PROVE IndInv
    OBVIOUS
  <1>1. TypeOK
    <2>1. nft \in [Nfts -> NftState] /\ coming \subseteq Nfts
      BY Assumption DEF Init, Assumption
    <2>2. meta \in [Nfts -> Meta]
      BY DEF Init, Meta, NoMeta
    <2> QED
      BY <2>1, <2>2, Bounds DEF Init, TypeOK, CatalogState
  <1>2. PullsCover /\ CatalogCovers
    BY DEF Init, PullsCover, CatalogCovers
  <1> QED
    BY <1>1, <1>2 DEF IndInv

\* The two conjuncts beside the type follow when nothing covered is lost, and the
\* pulls and the catalogs stay as they were.
LEMMA Unmoved ==
  ASSUME IndInv, CoverKept, UNCHANGED <<pull, catalog>>
  PROVE  PullsCover' /\ CatalogCovers'
  BY ListedType DEF IndInv, CoverKept, PullsCover, CatalogCovers, Covered, Last

LEMMA IndexStep ==
  ASSUME IndInv, NEW n \in coming, IndexFull(n) \/ IndexBare(n) \/ IndexBurn(n)
  PROVE  IndInv' /\ Kept
  <1>0. n \in Nfts
    BY DEF IndInv, TypeOK
  <1>1. nft' \in [Nfts -> NftState] /\ UNCHANGED <<coming, meta, catalog, queued, pull, copies, faults>>
    BY <1>0 DEF IndInv, TypeOK, IndexFull, IndexBare, IndexBurn, NftState
  <1>2. \A x \in Nfts : /\ nft[x] # "none" => nft'[x] # "none"
                        /\ nft[x] = "full" => nft'[x] \in {"full", "gone"}
                        /\ nft[x] = "gone" => nft'[x] = "gone"
    BY <1>0 DEF IndInv, TypeOK, IndexFull, IndexBare, IndexBurn
  <1>3. TypeOK'
    BY <1>1 DEF IndInv, TypeOK
  <1>4. CoverKept /\ Kept
    BY <1>1, <1>2 DEF CoverKept, Covered, Kept
  <1> QED
    BY <1>1, <1>3, <1>4, Unmoved DEF IndInv

LEMMA ScanStep ==
  ASSUME IndInv, ScanIssuers \/ ScanNfts
  PROVE  IndInv' /\ Kept
  <1>1. UNCHANGED <<coming, nft, meta, catalog, pull, faults>>
    BY DEF ScanIssuers, ScanNfts
  <1>2. queued' \subseteq Issuers
    BY DEF IndInv, TypeOK, ScanIssuers, ScanNfts, Limit, ToPull
  <1>3. copies' \in [Nfts -> 0..MaxCopies]
    <2>1. CASE ScanIssuers
      BY <2>1 DEF ScanIssuers, IndInv, TypeOK
    <2>2. CASE ScanNfts
      <3>1. PICK batch \in Limit(Untried \cup Retries, NftBatch) : \E unnoticed \in SUBSET batch :
              copies' = [n \in Nfts |->
                           IF n \in batch /\ copies[n] < MaxCopies /\ (copies[n] = 0 \/ n \in unnoticed)
                             THEN copies[n] + 1 ELSE copies[n]]
        BY <2>2 DEF ScanNfts
      <3>2. PICK unnoticed \in SUBSET batch :
              copies' = [n \in Nfts |->
                           IF n \in batch /\ copies[n] < MaxCopies /\ (copies[n] = 0 \/ n \in unnoticed)
                             THEN copies[n] + 1 ELSE copies[n]]
        BY <3>1
      <3>3. \A n \in Nfts : copies[n] < MaxCopies => copies[n] + 1 \in 0..MaxCopies
        BY Bounds DEF IndInv, TypeOK
      <3>4. \A n \in Nfts : copies[n] \in 0..MaxCopies
        BY DEF IndInv, TypeOK
      <3> QED
        BY <3>2, <3>3, <3>4
    <2> QED
      BY <2>1, <2>2
  <1>4. TypeOK'
    BY <1>1, <1>2, <1>3 DEF IndInv, TypeOK
  <1>5. CoverKept /\ Kept
    BY <1>1 DEF CoverKept, Covered, Kept
  <1> QED
    BY <1>1, <1>4, <1>5, Unmoved DEF IndInv

LEMMA StartStep ==
  ASSUME IndInv, NEW i \in Issuers, StartPull(i)
  PROVE  IndInv' /\ Kept
  <1>1. TypeOK'
    BY DEF IndInv, TypeOK, StartPull, Runs
  <1>2. Kept
    BY DEF StartPull, Kept
  <1>3. CatalogCovers'
    BY DEF IndInv, CatalogCovers, StartPull, Last
  <1>4. PullsCover'
    <2> SUFFICES ASSUME NEW j \in Issuers, NEW r \in Runs, NEW k \in 1..Last(j), k < pull'[<<j, r>>]
                 PROVE  Covered(Listed[j][k])'
      BY DEF PullsCover, Last
    <2>1. pull'[<<j, r>>] = 1 \/ pull'[<<j, r>>] = pull[<<j, r>>]
      BY DEF IndInv, TypeOK, StartPull
    <2>2. k < pull[<<j, r>>]
      BY <2>1, LastType
    <2> QED
      BY <2>2 DEF IndInv, PullsCover, Covered, StartPull
  <1> QED
    BY <1>1, <1>2, <1>3, <1>4 DEF IndInv

\* A run that ends, whatever becomes of its job, and one that is continued as a
\* late one leave no run that claims more than before.
LEMMA StopStep ==
  ASSUME IndInv, NEW i \in Issuers, (\E r \in Runs : FailPull(i, r)) \/ ExpirePull(i)
  PROVE  IndInv' /\ Kept
  <1>1. UNCHANGED <<coming, meta, catalog, copies>>
    BY DEF FailPull, ExpirePull
  <1>d. /\ nft' \in [Nfts -> NftState]
        /\ \A x \in Nfts : nft[x] # "none" => nft'[x] = nft[x]
    <2>1. CASE nft' = nft
      BY <2>1 DEF IndInv, TypeOK
    <2>2. CASE \E r \in Runs : LET n == Listed[i][pull[<<i, r>>]] IN
                 pull[<<i, r>>] \in 1..Last(i) /\ nft' = [nft EXCEPT ![n] = StubOf(n)]
      <3>1. PICK n \in Nfts : nft' = [nft EXCEPT ![n] = StubOf(n)]
        BY <2>2, ListedType
      <3> QED
        BY <3>1 DEF StubOf, IndInv, TypeOK, NftState
    <2> QED
      BY <2>1, <2>2 DEF FailPull, ExpirePull
  <1> DEFINE job  == <<i, "job">>
             late == <<i, "late">>
  <1>a. job \in Issuers \X Runs /\ late \in Issuers \X Runs
    BY DEF Runs
  <1>b. \/ \E r \in Runs : pull' = [pull EXCEPT ![<<i, r>>] = 0]
        \/ pull' = [pull EXCEPT ![late] = pull[job], ![job] = 0]
    BY DEF FailPull, ExpirePull
  <1>c. pull \in [Issuers \X Runs -> Nat] /\ pull[job] \in Nat
    BY <1>a DEF IndInv, TypeOK
  <1>2. pull' \in [Issuers \X Runs -> Nat]
    <2>1. CASE \E r \in Runs : pull' = [pull EXCEPT ![<<i, r>>] = 0]
      BY <2>1, <1>c
    <2>2. CASE pull' = [pull EXCEPT ![late] = pull[job], ![job] = 0]
      BY <2>2, <1>c
    <2> QED
      BY <2>1, <2>2, <1>b
  <1>3. queued' \subseteq Issuers
    BY DEF IndInv, TypeOK, FailPull, ExpirePull
  <1>4. faults' \in 0..MaxFaults
    <2>1. faults' = faults \/ (faults < MaxFaults /\ faults' = faults + 1)
      BY DEF FailPull, ExpirePull
    <2> QED
      BY <2>1, Bounds DEF IndInv, TypeOK
  <1>5. TypeOK'
    BY <1>1, <1>d, <1>2, <1>3, <1>4 DEF IndInv, TypeOK
  <1>6. Kept /\ CatalogCovers'
    BY <1>1, <1>d, ListedType DEF Kept, IndInv, CatalogCovers, Last
  <1>7. PullsCover'
    <2> SUFFICES ASSUME NEW j \in Issuers, NEW r \in Runs, NEW k \in 1..Last(j), k < pull'[<<j, r>>]
                 PROVE  Covered(Listed[j][k])'
      BY DEF PullsCover, Last
    <2>1. \E s \in Runs : k < pull[<<j, s>>]
      <3>1. <<j, r>> \in Issuers \X Runs /\ ~(k < 0) /\ "job" \in Runs
        BY LastType DEF Runs
      <3>2. \/ pull'[<<j, r>>] = 0 \/ pull'[<<j, r>>] = pull[<<j, r>>]
            \/ j = i /\ pull'[<<j, r>>] = pull[job]
        <4>1. CASE \E s \in Runs : pull' = [pull EXCEPT ![<<i, s>>] = 0]
          BY <4>1, <3>1, <1>c
        <4>2. CASE pull' = [pull EXCEPT ![late] = pull[job], ![job] = 0]
          BY <4>2, <3>1, <1>c
        <4> QED
          BY <4>1, <4>2, <1>b
      <3> QED
        BY <3>1, <3>2
    <2> QED
      BY <1>1, <1>d, <2>1, ListedType DEF IndInv, PullsCover, Covered
  <1> QED
    BY <1>5, <1>6, <1>7 DEF IndInv

LEMMA PullStep ==
  ASSUME IndInv, NEW i \in Issuers, NEW r \in Runs, PullNft(i, r)
  PROVE  IndInv' /\ Kept
  <1>0. PICK at \in 1..Last(i) : at = pull[<<i, r>>]
    BY DEF PullNft
  <1>1. PICK n \in Nfts : n = Listed[i][at]
    BY ListedType
  <1>2. PICK known \in Answers : meta' = [meta EXCEPT ![n] = Pulled(@, known)]
    BY <1>0, <1>1 DEF PullNft
  <1>3. /\ meta[n] \in Meta
        /\ meta' = [meta EXCEPT ![n] = Pulled(meta[n], known)]
    BY <1>1, <1>2 DEF IndInv, TypeOK
  <1>4. /\ meta' \in [Nfts -> Meta] /\ meta'[n].row
        /\ \A x \in Nfts : /\ meta[x].row => meta'[x].row
                           /\ meta[x].known \ {"image", "mediaType"} \subseteq meta'[x].known
                           /\ x # n => meta'[x] = meta[x]
    BY <1>1, <1>3, StoredKeeps DEF IndInv, TypeOK
  <1>5. /\ nft' = [nft EXCEPT ![n] = StubOf(n)]
        /\ pull' = [pull EXCEPT ![<<i, r>>] = at + 1]
        /\ UNCHANGED <<coming, catalog, queued, copies, faults>>
    BY <1>0, <1>1 DEF PullNft
  <1>6. /\ StubOf(n) \in NftState /\ StubOf(n) # "none"
        /\ nft[n] # "none" => StubOf(n) = nft[n]
    BY <1>1 DEF StubOf, IndInv, TypeOK, NftState
  <1>7. /\ nft' \in [Nfts -> NftState] /\ nft'[n] # "none"
        /\ \A x \in Nfts : nft[x] # "none" => nft'[x] = nft[x]
    BY <1>1, <1>5, <1>6 DEF IndInv, TypeOK
  <1>8. TypeOK'
    <2>1. pull' \in [Issuers \X Runs -> Nat]
      <3>1. at + 1 \in Nat
        BY LastType
      <3> QED
        BY <3>1, <1>5 DEF IndInv, TypeOK
    <2> QED
      BY <2>1, <1>4, <1>5, <1>7 DEF IndInv, TypeOK
  <1>9. CoverKept /\ Kept /\ Covered(n)'
    <2>1. WrittenByPull(n)
      BY <1>0, <1>1, <1>5 DEF WrittenByPull, IndInv, TypeOK
    <2> QED
      BY <1>4, <1>7, <2>1 DEF CoverKept, Covered, Kept
  <1>10. CatalogCovers'
    BY <1>5, <1>9, ListedType DEF IndInv, CatalogCovers, CoverKept, Covered, Last
  <1>11. PullsCover'
    <2> SUFFICES ASSUME NEW j \in Issuers, NEW s \in Runs, NEW k \in 1..Last(j), k < pull'[<<j, s>>]
                 PROVE  Covered(Listed[j][k])'
      BY DEF PullsCover, Last
    <2>1. CASE <<j, s>> = <<i, r>> /\ k = at
      BY <2>1, <1>1, <1>9
    <2>2. CASE ~(<<j, s>> = <<i, r>> /\ k = at)
      <3>1. k < pull[<<j, s>>]
        <4>1. <<j, s>> \in Issuers \X Runs
          OBVIOUS
        <4>2. CASE <<j, s>> = <<i, r>>
          BY <4>1, <4>2, <2>2, <1>0, <1>5, LastType DEF IndInv, TypeOK
        <4>3. CASE <<j, s>> # <<i, r>>
          BY <4>1, <4>3, <1>5 DEF IndInv, TypeOK
        <4> QED
          BY <4>2, <4>3
      <3>2. Covered(Listed[j][k]) /\ Listed[j][k] \in Nfts
        BY <3>1, ListedType DEF IndInv, PullsCover
      <3> QED
        BY <3>2, <1>9 DEF CoverKept
    <2> QED
      BY <2>1, <2>2
  <1> QED
    BY <1>8, <1>9, <1>10, <1>11 DEF IndInv

\* The one step that records a catalog: its run is past the last NFT.
LEMMA FinishStep ==
  ASSUME IndInv, NEW i \in Issuers, NEW r \in Runs, FinishPull(i, r)
  PROVE  IndInv' /\ Kept
  <1>1. UNCHANGED <<coming, nft, meta, queued, copies, faults>>
    BY DEF FinishPull
  <1>2. TypeOK'
    BY <1>1 DEF IndInv, TypeOK, FinishPull, CatalogState
  <1>3. Kept
    BY <1>1 DEF Kept
  <1>4. \A k \in 1..Last(i) : Covered(Listed[i][k])
    BY LastType DEF IndInv, PullsCover, FinishPull
  <1>5. CatalogCovers'
    BY <1>1, <1>4 DEF IndInv, TypeOK, CatalogCovers, Covered, FinishPull, Last
  <1>6. PullsCover'
    BY <1>1, LastType DEF IndInv, TypeOK, PullsCover, Covered, FinishPull, Last
  <1> QED
    BY <1>2, <1>3, <1>5, <1>6 DEF IndInv

LEMMA FetchStep ==
  ASSUME IndInv, NEW n \in Nfts, RunFetch(n) \/ LoseFetch(n) \/ FallDue(n)
  PROVE  IndInv' /\ Kept
  <1>1. UNCHANGED <<coming, nft, catalog, queued, pull>>
    BY DEF RunFetch, LoseFetch, FallDue
  <1>2. copies' \in [Nfts -> 0..MaxCopies] /\ faults' \in 0..MaxFaults
    <2>1. /\ copies[n] \in 0..MaxCopies
          /\ copies' = copies \/ (copies[n] > 0 /\ copies' = [copies EXCEPT ![n] = copies[n] - 1])
      BY DEF IndInv, TypeOK, RunFetch, LoseFetch, FallDue
    <2>2. copies[n] > 0 => copies[n] - 1 \in 0..MaxCopies
      BY <2>1, Bounds
    <2>3. faults' = faults \/ (faults < MaxFaults /\ faults' = faults + 1)
      BY DEF RunFetch, LoseFetch, FallDue
    <2>4. faults' \in 0..MaxFaults
      BY <2>3, Bounds DEF IndInv, TypeOK
    <2> QED
      BY <2>1, <2>2, <2>4 DEF IndInv, TypeOK
  <1>3. meta[n] \in Meta
    BY DEF IndInv, TypeOK
  <1>4. \/ \E known \in Answers : meta' = [meta EXCEPT ![n] = Fetched(meta[n], known)]
        \/ meta' = [meta EXCEPT ![n] = FetchError(meta[n])]
        \/ meta' = [meta EXCEPT ![n] = [meta[n] EXCEPT !.error = "due"]]
        \/ meta' = meta
    BY DEF RunFetch, LoseFetch, FallDue, IndInv, TypeOK
  <1>8. /\ [meta[n] EXCEPT !.error = "due"] \in Meta
        /\ [meta[n] EXCEPT !.error = "due"].row = meta[n].row
        /\ [meta[n] EXCEPT !.error = "due"].known = meta[n].known
    BY <1>3 DEF Meta
  <1>5. /\ meta' \in [Nfts -> Meta]
        /\ \A x \in Nfts : /\ meta[x].row => meta'[x].row
                           /\ meta[x].known \ {"mediaType"} \subseteq meta'[x].known
    <2>1. ASSUME NEW m \in Meta, meta' = [meta EXCEPT ![n] = m], meta[n].row => m.row,
                 meta[n].known \ {"mediaType"} \subseteq m.known
          PROVE  /\ meta' \in [Nfts -> Meta]
                 /\ \A x \in Nfts : /\ meta[x].row => meta'[x].row
                                    /\ meta[x].known \ {"mediaType"} \subseteq meta'[x].known
      BY <2>1 DEF IndInv, TypeOK
    <2>2. CASE \E known \in Answers : meta' = [meta EXCEPT ![n] = Fetched(meta[n], known)]
      BY <1>3, <2>1, <2>2, StoredKeeps
    <2>3. CASE meta' = [meta EXCEPT ![n] = FetchError(meta[n])]
      BY <1>3, <2>1, <2>3, ErrorKeeps
    <2>4. CASE meta' = [meta EXCEPT ![n] = [meta[n] EXCEPT !.error = "due"]]
      BY <1>8, <2>1, <2>4
    <2>5. CASE meta' = meta
      BY <2>5 DEF IndInv, TypeOK
    <2> QED
      BY <1>4, <2>2, <2>3, <2>4, <2>5
  <1>6. TypeOK'
    BY <1>1, <1>2, <1>5 DEF IndInv, TypeOK
  <1>7. CoverKept /\ Kept
    BY <1>1, <1>5 DEF CoverKept, Covered, Kept
  <1> QED
    BY <1>1, <1>6, <1>7, Unmoved DEF IndInv

LEMMA AgeStep ==
  ASSUME IndInv, NEW i \in Issuers, Grace(i) \/ Outdate(i)
  PROVE  IndInv' /\ Kept
  <1>1. UNCHANGED <<coming, nft, meta, queued, pull, copies, faults>>
    BY DEF Grace, Outdate
  <1>2. catalog' \in [Issuers -> CatalogState]
    BY DEF IndInv, TypeOK, Grace, Outdate, CatalogState
  <1>3. \A j \in Issuers : catalog'[j] # "never" => catalog[j] # "never"
    BY DEF IndInv, TypeOK, Grace, Outdate
  <1>4. TypeOK'
    BY <1>1, <1>2 DEF IndInv, TypeOK
  <1>5. CatalogCovers' /\ PullsCover'
    BY <1>1, <1>3 DEF IndInv, CatalogCovers, PullsCover, Covered, Last
  <1>6. Kept
    BY <1>1 DEF Kept
  <1> QED
    BY <1>4, <1>5, <1>6 DEF IndInv

\* One step of Next keeps the invariant and loses nothing.
LEMMA NextInv == ASSUME IndInv, [Next]_vars PROVE IndInv' /\ (Kept \/ UNCHANGED vars)
  <1>1. CASE \E n \in coming : IndexFull(n) \/ IndexBare(n) \/ IndexBurn(n)
    BY <1>1, IndexStep
  <1>2. CASE ScanIssuers \/ ScanNfts
    BY <1>2, ScanStep
  <1>3. CASE \E i \in Issuers : StartPull(i)
    BY <1>3, StartStep
  <1>4. CASE \E i \in Issuers : (\E r \in Runs : FailPull(i, r)) \/ ExpirePull(i)
    BY <1>4, StopStep
  <1>5. CASE \E i \in Issuers, r \in Runs : Advance(i, r)
    BY <1>5, PullStep, FinishStep DEF Advance
  <1>6. CASE \E n \in Nfts : RunFetch(n) \/ LoseFetch(n) \/ FallDue(n)
    BY <1>6, FetchStep
  <1>7. CASE \E i \in Issuers : Grace(i) \/ Outdate(i)
    BY <1>7, AgeStep
  <1>8. CASE UNCHANGED vars
    <2>1. TypeOK'
      BY <1>8 DEF vars, IndInv, TypeOK
    <2>2. CoverKept
      BY <1>8 DEF vars, CoverKept, Covered
    <2> QED
      BY <1>8, <2>1, <2>2, Unmoved DEF vars, IndInv
  <1> QED
    BY <1>1, <1>2, <1>3, <1>4, <1>5, <1>6, <1>7, <1>8 DEF Next

\* The inductive invariant of the NFT enrichment: the types, what the runs of the
\* pulls have covered, and what issuer_catalog promises.
THEOREM EnrichInvariance == Spec => []IndInv
  <1>1. IndInv /\ [Next]_vars => IndInv'
    BY NextInv
  <1> QED
    BY <1>1, InitInv, PTL DEF Spec

\* An issuer with a catalog row has every listed NFT within reach covered, for any
\* number of failed, expired or overlapping pulls (nft-collection.ts).
THEOREM CatalogIsCovered == Spec => []CatalogCovers
  BY EnrichInvariance, PTL DEF IndInv

\* No step takes a field back from an NFT's metadata, but for its media type, and for
\* its image in the steps by which a pull writes that NFT; and none takes back what the
\* indexer wrote: the upserts of nft-collection.ts and nft-metadata.ts, in any order.
THEOREM NothingLost == Spec => DataKept
  <1>1. IndInv /\ [Next]_vars => [Kept]_vars
    BY NextInv DEF vars
  <1> QED
    BY <1>1, EnrichInvariance, PTL DEF DataKept, Spec

------------------------------------------------------------------------------
(* Nothing known of a token is lost: TokenEnrich, the other half of the enrichment. *)

NewItem == [known : SUBSET TokenFields, trust : Nat]

\* What the steps need: well-formed rows in the table and in the job's buffer.
TokenRows ==
  /\ tokenMeta \in [Tokens -> MetaRow]
  /\ DOMAIN buf \subseteq Tokens
  /\ \A t \in DOMAIN buf : buf[t] \in Item

LEMMA UpsertsKeep ==
  ASSUME NEW old \in MetaRow, NEW new, new.known \in SUBSET TokenFields, new.trust \in Nat
  PROVE  /\ CatalogStored(old, new) \in MetaRow
         /\ LookupStored(old, new) \in MetaRow
         /\ \A s \in {CatalogStored(old, new), LookupStored(old, new)} :
              old.known \subseteq s.known /\ old.trust <= s.trust /\ s.row
  <1>1. old.known \in SUBSET TokenFields /\ old.trust \in Nat /\ old.error \in {"none", "recent", "due"}
    BY DEF MetaRow
  <1>2. Greater(new.trust, old.trust) \in Nat /\ old.trust <= Greater(new.trust, old.trust)
    BY <1>1 DEF Greater
  <1> DEFINE known == new.known \cup old.known
             trust == Greater(new.trust, old.trust)
  <1>3. CatalogStored(old, new) = [known |-> known, trust |-> trust, error |-> "none", row |-> TRUE]
    BY DEF CatalogStored, TokenStored
  <1>4. LookupStored(old, new) = [known |-> known, trust |-> trust, row |-> TRUE,
                                  error |-> IF old.error = "none" THEN "none" ELSE "recent"]
    BY DEF LookupStored, TokenStored
  <1> QED
    BY <1>1, <1>2, <1>3, <1>4 DEF MetaRow

LEMMA MissedKeeps ==
  ASSUME NEW old \in MetaRow
  PROVE  /\ Missed(old) \in MetaRow /\ Missed(old).row
         /\ Missed(old).known = old.known /\ Missed(old).trust = old.trust
  BY DEF Missed, MetaRow

LEMMA TrustReflexive == \A r \in MetaRow : r.trust <= r.trust
  BY DEF MetaRow

\* Of two replies of at most one answer each, at most one is taken.
LEMMA BestType ==
  ASSUME NEW t \in Tokens, NEW first \in Replied(t), NEW second \in Replied(t)
  PROVE  Best(first, second) = {} \/ \E a \in NewItem : Best(first, second) = {a}
  <1>1. Best(first, second) \in {first, second}
    BY DEF Best
  <1>2. \A r \in Replied(t) : r = {} \/ \E a \in NewItem : r = {a}
    BY TokenAssumption DEF Replied, NewItem
  <1> QED
    BY <1>1, <1>2

LEMMA FlushKeeps ==
  ASSUME TokenRows, NEW rows, \A t \in DOMAIN rows : rows[t] \in Item,
         tokenMeta' = Flushed(rows)
  PROVE  tokenMeta' \in [Tokens -> MetaRow] /\ TokenKept
  <1>1. ASSUME NEW t \in Tokens
        PROVE  /\ tokenMeta'[t] \in MetaRow
               /\ tokenMeta[t].known \subseteq tokenMeta'[t].known
               /\ tokenMeta[t].trust <= tokenMeta'[t].trust
               /\ tokenMeta[t].row => tokenMeta'[t].row
    <2>1. tokenMeta[t] \in MetaRow
      BY DEF TokenRows
    <2>2. tokenMeta'[t] = IF t \in DOMAIN rows THEN CatalogStored(tokenMeta[t], rows[t]) ELSE tokenMeta[t]
      BY DEF Flushed
    <2>3. CASE t \in DOMAIN rows
      <3>1. rows[t].known \in SUBSET TokenFields /\ rows[t].trust \in Nat
        BY <2>3 DEF Item
      <3> QED
        BY <2>1, <2>2, <2>3, <3>1, UpsertsKeep
    <2>4. CASE t \notin DOMAIN rows
      BY <2>1, <2>2, <2>4, TrustReflexive
    <2> QED
      BY <2>3, <2>4
  <1>2. tokenMeta' = [t \in Tokens |-> tokenMeta'[t]]
    BY DEF Flushed
  <1> QED
    BY <1>1, <1>2 DEF TokenKept

LEMMA MetaUntouched ==
  ASSUME TokenRows, tokenMeta' = tokenMeta
  PROVE  tokenMeta' \in [Tokens -> MetaRow] /\ TokenKept
  BY TrustReflexive DEF TokenRows, TokenKept

LEMMA ItemStep ==
  ASSUME TokenRows, CatalogItem
  PROVE  TokenRows' /\ TokenKept
  <1> DEFINE item == Listing[pos]
             rows == Buffered(item)
             full == Cardinality(DOMAIN rows) >= FlushEvery
  <1>1. item \in Item
    BY TokenAssumption DEF CatalogItem
  <1>2. DOMAIN rows \subseteq Tokens /\ \A t \in DOMAIN rows : rows[t] \in Item
    BY <1>1 DEF Buffered, TokenRows, Item
  <1>3. tokenMeta' = (IF full THEN Flushed(rows) ELSE tokenMeta) /\ buf' = (IF full THEN NoRows ELSE rows)
    BY DEF CatalogItem
  <1> HIDE DEF item, rows, full
  <1>4. CASE full
    BY <1>2, <1>3, <1>4, FlushKeeps DEF TokenRows, NoRows
  <1>5. CASE ~full
    BY <1>2, <1>3, <1>5, MetaUntouched DEF TokenRows
  <1> QED
    BY <1>4, <1>5

LEMMA EndStep == ASSUME TokenRows, EndCatalog PROVE TokenRows' /\ TokenKept
  <1>1. tokenMeta' = Flushed(buf) /\ buf' = NoRows
    BY DEF EndCatalog
  <1>2. \A t \in DOMAIN buf : buf[t] \in Item
    BY DEF TokenRows
  <1>3. tokenMeta' \in [Tokens -> MetaRow] /\ TokenKept
    BY <1>1, <1>2, FlushKeeps
  <1> QED
    BY <1>1, <1>3 DEF TokenRows, NoRows

LEMMA LookupStep ==
  ASSUME TokenRows, NEW t \in Tokens, RunLookup(t)
  PROVE  TokenRows' /\ TokenKept
  <1>1. PICK first \in Replied(t), second \in Replied(t) :
          tokenMeta' = [tokenMeta EXCEPT ![t] =
                     IF Best(first, second) = {} THEN Missed(@)
                     ELSE LookupStored(@, CHOOSE a \in Best(first, second) : TRUE)]
    BY DEF RunLookup
  <1> DEFINE best == Best(first, second)
             new  == CHOOSE a \in best : TRUE
             row  == IF best = {} THEN Missed(tokenMeta[t]) ELSE LookupStored(tokenMeta[t], new)
  <1>2. tokenMeta[t] \in MetaRow
    BY DEF TokenRows
  <1>3. tokenMeta' = [tokenMeta EXCEPT ![t] = row]
    BY <1>1, <1>2 DEF TokenRows
  <1>4. /\ row \in MetaRow /\ row.row
        /\ tokenMeta[t].known \subseteq row.known /\ tokenMeta[t].trust <= row.trust
    <2>1. CASE best = {}
      <3>1. row = Missed(tokenMeta[t])
        BY <2>1
      <3> QED
        BY <1>2, <3>1, MissedKeeps, TrustReflexive
    <2>2. CASE best # {}
      <3>1. new \in NewItem
        BY <2>2, BestType
      <3>2. new.known \in SUBSET TokenFields /\ new.trust \in Nat
        BY <3>1 DEF NewItem
      <3>3. row = LookupStored(tokenMeta[t], new)
        BY <2>2
      <3> HIDE DEF new, row, best
      <3> QED
        BY <1>2, <3>2, <3>3, UpsertsKeep
    <2> QED
      BY <2>1, <2>2
  <1> HIDE DEF row
  <1>5. tokenMeta' \in [Tokens -> MetaRow] /\ TokenKept
    BY <1>3, <1>4, TrustReflexive DEF TokenRows, TokenKept
  <1>6. buf' = buf
    BY DEF RunLookup, catalogVars
  <1> QED
    BY <1>5, <1>6 DEF TokenRows

LEMMA DueStep ==
  ASSUME TokenRows, NEW t \in Tokens, TokenFallsDue(t)
  PROVE  TokenRows' /\ TokenKept
  <1>1. tokenMeta' = [tokenMeta EXCEPT ![t].error = "due"] /\ buf' = buf
    BY DEF TokenFallsDue, catalogVars
  <1>2. tokenMeta[t] \in MetaRow
    BY DEF TokenRows
  <1>3. [tokenMeta[t] EXCEPT !.error = "due"] \in MetaRow
    BY <1>2 DEF MetaRow
  <1>4. tokenMeta' \in [Tokens -> MetaRow]
    BY <1>1, <1>3 DEF TokenRows
  <1>5. TokenKept
    <2>1. ASSUME NEW u \in Tokens
          PROVE  /\ tokenMeta'[u].known = tokenMeta[u].known
                 /\ tokenMeta'[u].trust = tokenMeta[u].trust
                 /\ tokenMeta'[u].row = tokenMeta[u].row
      BY <1>1, <1>2 DEF TokenRows, MetaRow
    <2> QED
      BY <2>1, TrustReflexive DEF TokenRows, TokenKept
  <1> QED
    BY <1>1, <1>4, <1>5 DEF TokenRows

\* Every other step leaves token_meta alone and at most empties the buffer.
LEMMA OtherStep ==
  ASSUME TokenRows, tokenMeta' = tokenMeta, buf' = buf \/ buf' = NoRows
  PROVE  TokenRows' /\ TokenKept
  BY MetaUntouched DEF TokenRows, NoRows

LEMMA TokenStep ==
  ASSUME TokenRows, [TokenNext]_tokenVars
  PROVE  TokenRows' /\ TokenKept
  <1>1. CASE \E t \in Tokens : RunLookup(t)
    BY <1>1, LookupStep
  <1>2. CASE CatalogItem
    BY <1>2, ItemStep
  <1>3. CASE EndCatalog
    BY <1>3, EndStep
  <1>8. CASE \E t \in Tokens : TokenFallsDue(t)
    BY <1>8, DueStep
  <1>4. CASE \E t \in Tokens : CreateToken(t) \/ MetricPoint(t) \/ LoseLookup(t)
    BY <1>4, OtherStep DEF CreateToken, MetricPoint, LoseLookup, catalogVars
  <1>5. CASE StartCatalog \/ CrashCatalog
    BY <1>5, OtherStep DEF StartCatalog, CrashCatalog
  <1>6. CASE ScanTokens \/ Rollup
    BY <1>6, OtherStep DEF ScanTokens, Rollup, catalogVars
  <1>7. CASE UNCHANGED tokenVars
    BY <1>7, OtherStep DEF tokenVars, catalogVars
  <1> QED
    BY <1>1, <1>2, <1>3, <1>4, <1>5, <1>6, <1>7, <1>8 DEF TokenNext

\* The columns and the bounds.
LEMMA TokenTypeStep ==
  ASSUME TokenTypeOK, TokenRows', [TokenNext]_tokenVars
  PROVE  TokenTypeOK'
  <1>0. /\ Len(Listing) \in Nat /\ DOMAIN Listing = 1..Len(Listing)
        /\ MaxHeld \in Nat /\ MaxLookups \in Nat /\ MaxMoves \in Nat /\ MaxTokenFaults \in Nat
    BY TokenAssumption
  <1>1. /\ exists \subseteq Tokens /\ index \subseteq exists /\ DOMAIN buf \subseteq index
        /\ pos \in 0..(Len(Listing) + 1) /\ lookups \in [Tokens -> 0..MaxLookups]
        /\ held \in [Tokens -> 0..MaxHeld] /\ lines \in [Tokens -> 0..MaxHeld]
        /\ stats \in [Tokens -> 0..(MaxHeld + 1)]
        /\ moves \in 0..MaxMoves /\ tokenFaults \in 0..MaxTokenFaults
    BY DEF TokenTypeOK, NoStats
  <1>2. tokenMeta' \in [Tokens -> MetaRow]
    BY DEF TokenRows
  <1>3. exists' \subseteq Tokens /\ exists \subseteq exists'
    BY <1>1 DEF TokenNext, tokenVars, CreateToken, MetricPoint, RunLookup, LoseLookup,
         TokenFallsDue, StartCatalog, CatalogItem, EndCatalog, CrashCatalog, ScanTokens, Rollup
  <1>4. pos' \in 0..(Len(Listing) + 1) /\ index' \subseteq exists' /\ DOMAIN buf' \subseteq index'
    <2>1. CASE CatalogItem
      <3>1. pos' = pos + 1 /\ index' = index /\ pos \in 1..Len(Listing)
        BY <1>0, <2>1 DEF CatalogItem
      <3>2. buf' = NoRows \/ buf' = Buffered(Listing[pos])
        BY <2>1 DEF CatalogItem
      <3>3. DOMAIN Buffered(Listing[pos]) \subseteq index /\ DOMAIN NoRows = {}
        BY <1>1 DEF Buffered, NoRows
      <3> QED
        BY <1>0, <1>1, <1>3, <3>1, <3>2, <3>3
    <2>2. CASE StartCatalog \/ EndCatalog \/ CrashCatalog
      <3>1. pos' \in {0, 1} /\ index' \in {exists, {}} /\ DOMAIN buf' = {}
        BY <2>2 DEF StartCatalog, EndCatalog, CrashCatalog, NoRows
      <3> QED
        BY <1>0, <1>3, <3>1
    <2>3. CASE UNCHANGED catalogVars
      BY <1>1, <1>3, <2>3 DEF catalogVars
    <2> QED
      BY <2>1, <2>2, <2>3 DEF TokenNext, tokenVars, CreateToken, MetricPoint, RunLookup,
           LoseLookup, TokenFallsDue, ScanTokens, Rollup
  <1>5. lookups' \in [Tokens -> 0..MaxLookups]
    <2>1. ASSUME NEW t \in Tokens, RunLookup(t) \/ LoseLookup(t) PROVE lookups' \in [Tokens -> 0..MaxLookups]
      <3>1. lookups[t] > 0 /\ lookups' = [lookups EXCEPT ![t] = lookups[t] - 1]
        BY <1>1, <2>1 DEF RunLookup, LoseLookup
      <3>2. lookups[t] - 1 \in 0..MaxLookups
        BY <1>0, <1>1, <3>1
      <3> QED
        BY <1>1, <3>1, <3>2
    <2>2. CASE ScanTokens
      <3>1. PICK batch \in TokenLimit(UntriedTokens \cup DueTokens) : \E unnoticed \in SUBSET batch :
              lookups' = [t \in Tokens |->
                IF lookups[t] < MaxLookups /\ t \in batch /\ (lookups[t] = 0 \/ t \in unnoticed)
                  THEN lookups[t] + 1 ELSE lookups[t]]
        BY <2>2 DEF ScanTokens
      <3>2. \A t \in Tokens : lookups[t] \in 0..MaxLookups
        BY <1>1
      <3>3. \A t \in Tokens : lookups[t] < MaxLookups => lookups[t] + 1 \in 0..MaxLookups
        BY <1>0, <3>2
      <3> QED
        BY <3>1, <3>2, <3>3
    <2>3. CASE lookups' = lookups
      BY <1>1, <2>3
    <2> QED
      BY <2>1, <2>2, <2>3 DEF TokenNext, tokenVars, CreateToken, MetricPoint, TokenFallsDue, StartCatalog,
           CatalogItem, EndCatalog, CrashCatalog, Rollup
  <1>6. /\ held' \in [Tokens -> 0..MaxHeld] /\ lines' \in [Tokens -> 0..MaxHeld]
        /\ moves' \in 0..MaxMoves
    <2>1. ASSUME NEW t \in Tokens, MetricPoint(t)
          PROVE  /\ held' \in [Tokens -> 0..MaxHeld] /\ lines' \in [Tokens -> 0..MaxHeld]
                 /\ moves' \in 0..MaxMoves
      <3>1. moves < MaxMoves /\ moves' = moves + 1
        BY <2>1 DEF MetricPoint
      <3>2. CASE lines' = lines /\ \E n \in 0..MaxHeld : held' = [held EXCEPT ![t] = n]
        BY <1>0, <1>1, <3>1, <3>2
      <3>3. CASE held' = held /\ \E n \in 0..MaxHeld : lines' = [lines EXCEPT ![t] = n]
        BY <1>0, <1>1, <3>1, <3>3
      <3> QED
        BY <2>1, <3>2, <3>3 DEF MetricPoint
    <2>2. CASE held' = held /\ lines' = lines /\ moves' = moves
      BY <1>1, <2>2
    <2> QED
      BY <2>1, <2>2 DEF TokenNext, tokenVars, metricVars, CreateToken, RunLookup,
           LoseLookup, TokenFallsDue, StartCatalog, CatalogItem, EndCatalog, CrashCatalog,
           ScanTokens, Rollup
  <1>7. stats' \in [Tokens -> 0..(MaxHeld + 1)]
    <2>1. CASE Rollup
      <3>1. stats' = [t \in Tokens |-> IF Candidate(t) THEN held[t] ELSE stats[t]]
        BY <2>1 DEF Rollup
      <3>2. \A t \in Tokens : held[t] \in 0..(MaxHeld + 1) /\ stats[t] \in 0..(MaxHeld + 1)
        BY <1>0, <1>1
      <3> QED
        BY <3>1, <3>2
    <2>2. CASE stats' = stats
      BY <1>1, <2>2
    <2> QED
      BY <2>1, <2>2 DEF TokenNext, tokenVars, metricVars, CreateToken, MetricPoint,
           RunLookup, LoseLookup, TokenFallsDue, StartCatalog, CatalogItem, EndCatalog,
           CrashCatalog, ScanTokens
  <1>8. tokenFaults' \in 0..MaxTokenFaults
    <2>1. tokenFaults' = tokenFaults \/ (tokenFaults < MaxTokenFaults /\ tokenFaults' = tokenFaults + 1)
      BY DEF TokenNext, tokenVars, CreateToken, MetricPoint, RunLookup, LoseLookup,
           TokenFallsDue, StartCatalog, CatalogItem, EndCatalog, CrashCatalog, PageFails,
           ScanTokens, Rollup
    <2> QED
      BY <1>0, <1>1, <2>1
  <1> QED
    BY <1>2, <1>3, <1>4, <1>5, <1>6, <1>7, <1>8 DEF TokenTypeOK, NoStats

LEMMA TokenInitHolds ==
  ASSUME TokenInit
  PROVE  TokenRows /\ TokenTypeOK
  <1>1. TokenRows
    BY DEF TokenInit, TokenRows, NoTokenMeta, MetaRow, NoRows
  <1>2. TokenTypeOK
    BY <1>1, TokenAssumption DEF TokenRows, TokenInit, TokenTypeOK, NoStats, NoRows
  <1> QED
    BY <1>1, <1>2

\* The table, the buffer and the counters of the token jobs are what they should be.
THEOREM TokenTypes == TokenSpec => []TokenTypeOK
  <1>1. TokenInit => TokenRows /\ TokenTypeOK
    BY TokenInitHolds
  <1>2. TokenRows /\ TokenTypeOK /\ [TokenNext]_tokenVars => (TokenRows /\ TokenTypeOK)'
    BY TokenStep, TokenTypeStep
  <1> QED
    BY <1>1, <1>2, PTL DEF TokenSpec

\* No step of the enrichment takes back a field or a level of trust of a token: the
\* upserts of token-catalog.ts and token-metadata.ts, in any order.
THEOREM TokenNothingLost == TokenSpec => TokenDataKept
  <1>1. TokenInit => TokenRows
    BY TokenInitHolds
  <1>2. TokenRows /\ [TokenNext]_tokenVars => TokenRows'
    BY TokenStep
  <1>3. TokenRows /\ [TokenNext]_tokenVars => [TokenKept]_tokenVars
    BY TokenStep
  <1> QED
    BY <1>1, <1>2, <1>3, PTL DEF TokenSpec, TokenDataKept
==============================================================================
