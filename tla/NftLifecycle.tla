---------------------------- MODULE NftLifecycle ----------------------------
(***************************************************************************)
(* The tables nft, nft_offer and nft_exchange: what handleNft and the      *)
(* snapshot derive from the ledger's NFT pages and offers (NftLedger), in  *)
(* the order LedgerOrder allows.  No ledger is given up here.              *)
(***************************************************************************)
EXTENDS LedgerOrder, NftLedger

CONSTANT Null

ASSUME NullAssumption == Null \notin Owners \cup Nat

VARIABLES
  nft,    \* NFT -> [owner, mint, burn, live]
  offer,  \* offer -> [created, closed], the ledgers
  sales   \* <<ledger, transaction, index>> -> [nft, seller, buyer]

vars == <<chain, nft, offer, sales, orderVars>>

\* f, and g where f is not defined.
OrElse(f, g) == [x \in DOMAIN f \cup DOMAIN g |-> IF x \in DOMAIN f THEN f[x] ELSE g[x]]

Init == LedgerInit /\ OrderInit /\ nft = <<>> /\ offer = <<>> /\ sales = <<>>

-----------------------------------------------------------------------------
(* What the handlers put into the batch: patches of rows, keyed by NFT.  A   *)
(* field that is set replaces an earlier one of the batch even if undefined. *)

Full(owner, isMint, seq) ==
  [owner |-> owner, mint |-> IF isMint THEN seq ELSE Null, live |-> TRUE]
Stub == [live |-> TRUE]

Gone(seq) == [burn |-> seq, live |-> FALSE]

\* Mutant: the first patch of an NFT in a batch wins.
MergeKeepsFirst(batch, patches) ==
  [n \in DOMAIN batch \cup DOMAIN patches |->
     IF n \notin DOMAIN patches THEN batch[n]
     ELSE IF n \in DOMAIN batch THEN OrElse(batch[n], patches[n]) ELSE patches[n]]

Merge(batch, patches) ==
  [n \in DOMAIN batch \cup DOMAIN patches |->
     IF n \notin DOMAIN patches THEN batch[n]
     ELSE IF n \in DOMAIN batch THEN OrElse(patches[n], batch[n]) ELSE patches[n]]

\* Mutant: the NFTs that leave a page are marked in every transaction.
PagePatchesAnyTx(page, type, seq) ==
  LET arrived == page.after \ page.before
      left    == page.before \ page.after
  IN [n \in arrived \cup left |->
        IF n \in arrived THEN Full(page.owner, type = "NFTokenMint", seq) ELSE Gone(seq)]

\* The diff of one page: arrivals are upserted with the page's owner; departures
\* count only in a burn, the receiving page handles the others.
PagePatches(page, type, seq) ==
  LET arrived == page.after \ page.before
      left    == IF type = "NFTokenBurn" THEN page.before \ page.after ELSE {}
  IN [n \in arrived \cup left |->
        IF n \in arrived THEN Full(page.owner, type = "NFTokenMint", seq) ELSE Gone(seq)]

\* handleNft: the pages of the transaction, then a stub per offer.
TxPatches(tx, seq) ==
  [i \in DOMAIN tx.pages |-> PagePatches(tx.pages[i], tx.type, seq)]
    \o [i \in DOMAIN tx.offers |-> [n \in {tx.offers[i].offer[1]} |-> Stub]]

MergeAll(batch, list) ==
  LET merged[i \in 0..Len(list)] == IF i = 0 THEN batch ELSE Merge(merged[i - 1], list[i])
  IN merged[Len(list)]

NftBatch(txs, seq) ==
  LET batch[i \in 0..Len(txs)] == IF i = 0 THEN <<>> ELSE MergeAll(batch[i - 1], TxPatches(txs[i], seq))
  IN batch[Len(txs)]

OfferNodes(txs) == UNION {ToSet(txs[i].offers) : i \in DOMAIN txs}

OfferBatch(txs, seq) ==
  [o \in {x.offer : x \in OfferNodes(txs)} |->
     [created |-> seq, closed |-> IF Node(o, "deleted") \in OfferNodes(txs) THEN seq ELSE Null]]

\* Mutant: the taker of a sell offer counts as the seller.
SaleSwapped(o, taker) == [nft |-> o[1], seller |-> taker, buyer |-> o[2]]

\* The offer's owner sells by a sell offer and buys by a buy offer.
Sale(o, taker) ==
  [nft |-> o[1], seller |-> IF o[3] THEN o[2] ELSE taker, buyer |-> IF o[3] THEN taker ELSE o[2]]

\* One row per offer an NFTokenAcceptOffer deletes.
SaleBatch(txs, seq) ==
  LET accepts == {i \in DOMAIN txs : txs[i].type = "NFTokenAcceptOffer"}
      keys    == UNION {{<<seq, i, k>> : k \in DOMAIN txs[i].offers} : i \in accepts}
  IN [x \in keys |-> Sale(txs[x[2]].offers[x[3]].offer, txs[x[2]].taker)]

-----------------------------------------------------------------------------
(* LedgerBatch.flush.                                                        *)

Row(patch) == OrElse(patch, [owner |-> Null, mint |-> Null, burn |-> Null, live |-> TRUE])
Rows(batch) == [n \in DOMAIN batch |-> Row(batch[n])]
Coalesce(a, b) == IF a # Null THEN a ELSE b

Upsert(old, new) ==
  [owner |-> Coalesce(new.owner, old.owner), mint |-> Coalesce(old.mint, new.mint),
   burn |-> Coalesce(new.burn, old.burn), live |-> old.live /\ new.live]

UpsertNfts(batch) ==
  [n \in DOMAIN nft \cup DOMAIN batch |->
     IF n \notin DOMAIN batch THEN nft[n]
     ELSE IF n \in DOMAIN nft THEN Upsert(nft[n], Row(batch[n])) ELSE Row(batch[n])]
UpsertOffers(batch) ==
  [o \in DOMAIN offer \cup DOMAIN batch |->
     IF o \notin DOMAIN batch THEN offer[o]
     ELSE IF o \in DOMAIN offer
       THEN [offer[o] EXCEPT !.closed = Coalesce(batch[o].closed, @)] ELSE batch[o]]

\* processLedger in live mode; exchanges are DO NOTHING in every mode.
LiveLedger(seq) ==
  LET txs == chain[seq].txs IN
  /\ tip = 0 => seq = Newest
  /\ LiveAt(seq)
  /\ nft' = UpsertNfts(NftBatch(txs, seq))
  /\ offer' = UpsertOffers(OfferBatch(txs, seq))
  /\ sales' = OrElse(sales, SaleBatch(txs, seq))
  /\ UNCHANGED chain

\* Mutant: a backfilled row replaces the one that is there.
BackfillRegresses(seq) ==
  LET txs == chain[seq].txs IN
  /\ BackfillAt(seq)
  /\ nft' = OrElse(Rows(NftBatch(txs, seq)), nft)
  /\ offer' = OrElse(OfferBatch(txs, seq), offer)
  /\ sales' = OrElse(sales, SaleBatch(txs, seq))
  /\ UNCHANGED chain

\* The same in backfill mode: what is there stays, ON CONFLICT DO NOTHING.
BackfillLedger(seq) ==
  LET txs == chain[seq].txs IN
  /\ BackfillAt(seq)
  /\ nft' = OrElse(nft, Rows(NftBatch(txs, seq)))
  /\ offer' = OrElse(offer, OfferBatch(txs, seq))
  /\ sales' = OrElse(sales, SaleBatch(txs, seq))
  /\ UNCHANGED chain

\* runSnapshot, walk 1: the pages and open offers of one ledger, by ledger index,
\* flushed every FLUSH_EVERY entries with DO NOTHING.  An NFT one of whose offers
\* comes in an earlier flush than its page keeps the stub.
Snapshot ==
  LET seq  == IF tip # 0 THEN tip ELSE Newest
      s    == chain[seq].post
      held == DOMAIN s.held
  IN /\ SnapshotAt(seq)
     /\ \E stubs \in SUBSET {o[1] : o \in s.open} :
          nft' = OrElse(nft, Rows([n \in held \cup stubs |->
                                     IF n \in stubs THEN Stub ELSE Full(s.held[n][1], FALSE, seq)]))
     /\ offer' = OrElse(offer, [o \in s.open |-> [created |-> seq, closed |-> Null]])
     /\ UNCHANGED <<chain, sales>>

Close == LedgerCloses /\ UNCHANGED <<nft, offer, sales, orderVars>>

Next ==
  \/ Close
  \/ Snapshot
  \/ \E seq \in 1..Newest : LiveLedger(seq) \/ BackfillLedger(seq)

Spec == Init /\ [][Next]_vars

-----------------------------------------------------------------------------
(* What the tables promise. *)

Held(k)     == chain[k].post.held
Ever(k)     == DOMAIN Held(k) \cup chain[k].post.burned
Minted(n, k) == k > 1 /\ n \in Ever(k) \ Ever(k - 1)
Burned(n, k) == k > 1 /\ n \in chain[k].post.burned \ chain[k - 1].post.burned
HeldAlone(n, k) == On(Held(k), Held(k)[n]) = {n}

\* In ledger k an owner's pages were split or merged.  NFTs that only moved to
\* another page, or whose page got another neighbour, then count as minted or burned.
Reorganised(k) ==
  k > 1 /\ \E o \in Owners : LET before == UsedPages(Held(k - 1), o)
                                after  == UsedPages(Held(k), o)
                            IN before # {} /\ after # {} /\ before # after

\* The ledgers whose transactions have been processed: the ledger of a snapshot
\* on an empty database is not among them.
Replayed == IF low = 0 THEN {} ELSE (low..tip) \ (IF fresh THEN {snapSeq} ELSE {})

TypeOK ==
  /\ \A n \in DOMAIN nft :
       /\ n \in Nfts /\ nft[n].owner \in Owners \cup {Null} /\ nft[n].live \in BOOLEAN
       /\ {nft[n].mint, nft[n].burn} \subseteq (low..tip) \cup {Null}
  /\ \A o \in DOMAIN offer :
       /\ o \in Offers /\ o[1] \in DOMAIN nft  \* a foreign key
       /\ offer[o].created \in low..tip /\ offer[o].closed \in (low..tip) \cup {Null}
  /\ \A x \in DOMAIN sales :
       /\ x[1] \in low..tip
       /\ sales[x].nft \in DOMAIN nft  \* a foreign key
       /\ {sales[x].seller, sales[x].buyer} \subseteq Owners
  /\ low \in 0..tip /\ tip \in 0..Newest /\ snapSeq \in 0..tip /\ fresh \in BOOLEAN
  /\ waived = {}

\* Of an NFT that exists at the top of the indexed range the table knows either no
\* owner or the right one, however often it moved, was reorganised between pages
\* or was backfilled below; after a snapshot every such NFT has a row, and one that
\* moved since has its owner (nft.ts handleNft, batch.ts flush).
OwnerCorrect ==
  low # 0 =>
    /\ \A n \in DOMAIN nft \cap DOMAIN Held(tip) : nft[n].owner \in {Null, Held(tip)[n][1]}
    /\ snapSeq # 0 =>
         \A n \in DOMAIN Held(tip) :
           /\ n \in DOMAIN nft
           /\ nft[n].owner = Null =>
                n \in DOMAIN Held(snapSeq) /\ Held(snapSeq)[n][1] = Held(tip)[n][1]

\* The offers open in the table are the ones open in the top ledger; only an offer
\* closed in the ledger of a fresh snapshot, whose transactions nobody replays,
\* may stay open (nft.ts:85-96, batch.ts:162-170).
OffersExact ==
  LET known(o) == snapSeq # 0 \/ o \notin chain[IF low = 1 THEN 1 ELSE low - 1].post.open
      lost(o)  == fresh /\ snapSeq > 1 /\ o \in chain[snapSeq].post.done \ chain[snapSeq - 1].post.done
  IN low # 0 =>
       \A o \in Offers :
         LET open == o \in DOMAIN offer /\ offer[o].closed = Null IN
         /\ open => o \in chain[tip].post.open \/ lost(o)
         /\ o \in chain[tip].post.open /\ known(o) => open

\* In a ledger with one transaction: an accepted offer leaves sales that lead from
\* the NFT's holder before to its holder after, one per offer, and nothing else
\* leaves any, whichever writer processed the ledger (nft.ts:97-110).
SalesExact ==
  /\ \A x \in DOMAIN sales : x[1] \in Replayed
  /\ \A k \in Replayed : Len(chain[k].txs) = 1 =>
       LET tx   == chain[k].txs[1]
           rows == {sales[x] : x \in {y \in DOMAIN sales : y[1] = k}}
           sellers == {r.seller : r \in rows}
           buyers  == {r.buyer : r \in rows}
       IN IF tx.type # "NFTokenAcceptOffer" THEN rows = {}
          ELSE LET n == tx.offers[1].offer[1] IN
               /\ Cardinality(rows) = Len(tx.offers) /\ \A r \in rows : r.nft = n
               /\ sellers \ buyers = {Held(k - 1)[n][1]}
               /\ buyers \ sellers = {Held(k)[n][1]}

\* In a ledger of one transaction: an NFT is marked as burned, or not live, only if it
\* was burned then, or a page was reorganised; a burn that is replayed is recorded,
\* unless the NFT was alone on its page, and ends the NFT's life, unless it had offers.
\* A mint ledger that is set is that of the NFT's mint, or one in which a page was
\* reorganised, and the right one is set once live sync has processed the mint above a
\* fresh snapshot (nft.ts:55-66, batch.ts:156).
LifeExact ==
  LET Single(k)  == Len(chain[k].txs) = 1
      Unclear(k) == Reorganised(k) \/ ~Single(k)
  IN /\ \A n \in DOMAIN nft :
          /\ nft[n].mint # Null => Minted(n, nft[n].mint) \/ Unclear(nft[n].mint)
          /\ nft[n].burn # Null => Burned(n, nft[n].burn) \/ Unclear(nft[n].burn)
          /\ ~nft[n].live => nft[n].burn # Null
     /\ \A k \in Replayed : Single(k) => \A n \in Nfts :
          /\ Burned(n, k) /\ ~HeldAlone(n, k - 1) =>
               /\ nft[n].burn = k
               /\ nft[n].live => \E o \in chain[k - 1].post.open : o[1] = n
          /\ fresh /\ k > snapSeq /\ Minted(n, k) => nft[n].mint = k
=============================================================================
