----------------------------- MODULE NftLedger ------------------------------
(***************************************************************************)
(* The NFTs of the ledger and the metadata of the transactions about them, *)
(* as far as handleNft reads it: the environment of NftLifecycle.          *)
(*                                                                         *)
(* An owner is a number and keeps its NFTs on pages <<owner, number>>; the *)
(* ledger splits a page that is full and merges neighbours that fit in     *)
(* one, so an NFT may change its page in a transaction about another one.  *)
(* An offer is <<nft, account, is it a sell offer>>.  A state of the       *)
(* ledger is [held, burned, open, done]: the page of each NFT that exists, *)
(* the NFTs burned, the offers open and the ones that were.                *)
(***************************************************************************)
EXTENDS Integers, FiniteSets, SequencesExt

CONSTANTS
  Nfts,     \* NFTs that may ever exist
  Owners,   \* accounts
  PageSeq,  \* pages <<owner, number>> by ledger index; one page is never reorganised
  StartPages, \* bound: pages of NFTs before the first ledger
  Offers,   \* offers that may be made
  MaxHead,  \* bound on the ledgers the network closes
  MaxTxs    \* bound on the transactions of all ledgers

ASSUME NftAssumption ==
  /\ Owners \subseteq Nat \ {0}
  /\ PageSeq \in Seq(Owners \X (Nat \ {0}))
  /\ \A i, j \in DOMAIN PageSeq : i < j =>
       LET p == PageSeq[i]
           q == PageSeq[j]
       IN p[1] < q[1] \/ (p[1] = q[1] /\ p[2] < q[2])
  /\ StartPages \subseteq ToSet(PageSeq)
  /\ \A o \in Owners : \E p \in ToSet(PageSeq) : p[1] = o
  /\ Offers \subseteq Nfts \X Owners \X BOOLEAN /\ IsFiniteSet(Offers)
  /\ MaxHead \in Nat \ {0} /\ MaxTxs \in Nat \ {0}

Pages == ToSet(PageSeq)
PagesOf(o) == {p \in Pages : p[1] = o}
LastPage(o) == CHOOSE p \in PagesOf(o) : \A q \in PagesOf(o) : q[2] <= p[2]

VARIABLE chain  \* the validated ledgers: [txs, post], the transactions and the state after

Newest == Len(chain)

On(held, p)    == {n \in DOMAIN held : held[n] = p}
UsedPages(held, o) == {p \in PagesOf(o) : On(held, p) # {}}

\* Into a page the owner has; the last one, if it has none.
Placed(held, n, o) ==
  {[m \in DOMAIN held \cup {n} |-> IF m = n THEN p ELSE held[m]] :
     p \in IF UsedPages(held, o) = {} THEN {LastPage(o)} ELSE UsedPages(held, o)}

\* A full page is split, some of its NFTs going to a new page below it.
Split(held, p) ==
  UNION {{[m \in DOMAIN held |-> IF m \in moved THEN q ELSE held[m]] :
            moved \in (SUBSET On(held, p)) \ {{}, On(held, p)}} :
           q \in {q \in PagesOf(p[1]) \ UsedPages(held, p[1]) : q[2] < p[2]}}

PutOn(held, n, o) == Placed(held, n, o) \cup UNION {Split(h, h[n]) : h \in Placed(held, n, o)}

\* Two neighbours become one page, the higher of the two.
Joined(held, p, q) ==
  LET from == IF q[2] < p[2] THEN q ELSE p
      to   == IF q[2] < p[2] THEN p ELSE q
  IN [m \in DOMAIN held |-> IF held[m] = from THEN to ELSE held[m]]

Without(held, n) == [m \in DOMAIN held \ {n} |-> held[m]]

\* What is left on the page may be merged with a neighbour.
TakeOff(held, n) ==
  LET rest == Without(held, n)
      page == held[n]
  IN {rest} \cup IF On(rest, page) = {} THEN {}
                 ELSE {Joined(rest, page, q) : q \in UsedPages(rest, page[1]) \ {page}}

\* The NFTokenPage nodes of a transaction about n, by ledger index: pages whose
\* NFTs changed, and the neighbours of pages created or deleted, whose links did.
\* PreviousFields lists the NFTs only if the page was changed before it was stored
\* or erased: not if the last NFT left it, nor if it was merged away untouched.
\* A page that is not among the nodes has an entry that says nothing.
ComesOrGoes(held, next, q) == (On(held, q) = {}) # (On(next, q) = {})
Linked(held, next, p) ==
  /\ On(next, p) # {} /\ On(held, p) = On(next, p)
  /\ \E q \in PagesOf(p[1]) : ComesOrGoes(held, next, q)

PageNode(held, next, n, p) ==
  LET before  == On(held, p)
      after   == On(next, p)
      changed == before # after
      silent  == after = {} /\ before \ {n} \in {{}, before}
  IN [owner  |-> p[1],
      before |-> IF changed /\ ~silent THEN before ELSE {},
      after  |-> IF changed \/ Linked(held, next, p) THEN after ELSE {}]

PageNodes(held, next, n) == [i \in DOMAIN PageSeq |-> PageNode(held, next, n, PageSeq[i])]

\* Outcomes of one transaction on state s: [tx, post].
Tx(type, taker, pages, offers) == [type |-> type, taker |-> taker, pages |-> pages, offers |-> offers]
Node(o, change) == [offer |-> o, change |-> change]

Mint(s, n, o, h) ==
  [tx   |-> Tx("NFTokenMint", o, PageNodes(s.held, h, n), <<>>),
   post |-> [s EXCEPT !.held = h]]
Mints(s) ==
  UNION {UNION {{Mint(s, n, o, h) : h \in PutOn(s.held, n, o)} : o \in Owners} :
           n \in Nfts \ (DOMAIN s.held \cup s.burned)}

\* A burn deletes the offers for the NFT.
Burn(s, n, h) ==
  LET gone == {o \in s.open : o[1] = n} IN
  [tx   |-> Tx("NFTokenBurn", s.held[n][1], PageNodes(s.held, h, n),
               SetToSeq({Node(o, "deleted") : o \in gone})),
   post |-> [s EXCEPT !.held = h, !.burned = @ \cup {n},
                      !.open = @ \ gone, !.done = @ \cup gone]]
Burns(s) == UNION {{Burn(s, n, h) : h \in TakeOff(s.held, n)} : n \in DOMAIN s.held}

Creates(s) ==
  {[tx   |-> Tx("NFTokenCreateOffer", o[2], <<>>, <<Node(o, "created")>>),
    post |-> [s EXCEPT !.open = @ \cup {o}]] :
     o \in {o \in Offers \ (s.open \cup s.done) :
              o[1] \in DOMAIN s.held /\ (o[3] <=> s.held[o[1]][1] = o[2])}}

Cancels(s) ==
  {[tx   |-> Tx("NFTokenCancelOffer", o[2], <<>>, <<Node(o, "deleted")>>),
    post |-> [s EXCEPT !.open = @ \ {o}, !.done = @ \cup {o}]] : o \in s.open}

\* The ways in which n may go from its holder to b.
Moves(s, n, b) == UNION {PutOn(h, n, b) : h \in TakeOff(s.held, n)}
Accept(s, taker, taken, h) ==
  [tx   |-> Tx("NFTokenAcceptOffer", taker, PageNodes(s.held, h, taken[1][1]),
               [i \in DOMAIN taken |-> Node(taken[i], "deleted")]),
   post |-> [s EXCEPT !.held = h, !.open = @ \ ToSet(taken), !.done = @ \cup ToSet(taken)]]

\* A sell offer counts while its owner holds the NFT, a buy offer while not.
Sells(s) == {o \in s.open : o[3] /\ o[2] = s.held[o[1]][1]}
Buys(s)  == {o \in s.open : ~o[3] /\ o[2] # s.held[o[1]][1]}

\* The taker buys from a sell offer, sells to a buy offer, or brokers the two.
Bought(s) ==
  UNION {UNION {{Accept(s, b, <<o>>, h) : h \in Moves(s, o[1], b)} : b \in Owners \ {o[2]}} : o \in Sells(s)}
Sold(s) ==
  UNION {{Accept(s, s.held[o[1]][1], <<o>>, h) : h \in Moves(s, o[1], o[2])} : o \in Buys(s)}
Brokered(s) ==
  UNION {UNION {UNION {{Accept(s, t, <<o, p>>, h) : h \in Moves(s, o[1], p[2])} : t \in Owners \ {o[2], p[2]}} :
                  p \in {q \in Buys(s) : q[1] = o[1]}} : o \in Sells(s)}

Outcomes(s) ==
  Mints(s) \cup Burns(s) \cup Creates(s) \cup Cancels(s) \cup Bought(s) \cup Sold(s) \cup Brokered(s)

LedgerInit ==
  \E old \in SUBSET Nfts : \E held \in [old -> StartPages], open \in SUBSET {o \in Offers : o[1] \in old} :
    /\ \A o \in open : o[3] <=> held[o[1]][1] = o[2]
    /\ chain = <<[txs  |-> <<>>,
                  post |-> [held |-> held, burned |-> {}, open |-> open, done |-> {}]]>>

\* A ledger of one or more transactions, each on the outcome of the one before.
TxsClosed == FoldLeft(LAMBDA n, closed : n + Len(closed.txs), 0, chain)
LedgerCloses ==
  LET run[k \in 0..MaxTxs] ==
        IF k = 0 THEN {[txs |-> <<>>, post |-> chain[Newest].post]}
        ELSE UNION {{[txs |-> Append(r.txs, x.tx), post |-> x.post] : x \in Outcomes(r.post)} :
                      r \in run[k - 1]}
  IN /\ Newest < MaxHead
     /\ \E k \in 1..MaxTxs :
          /\ TxsClosed + k <= MaxTxs
          /\ \E closed \in run[k] : chain' = Append(chain, closed)
=============================================================================
