------------------------- MODULE NftLifecycleProofs -------------------------
(***************************************************************************)
(* What the tables nft, nft_offer and nft_exchange say is true, for every  *)
(* value of the constants of NftLifecycle.                                 *)
(*                                                                         *)
(* From the bottom up: what a change of the pages shows in the nodes of a  *)
(* transaction (NodesOk), what a transaction does to the ledger (TxOk),    *)
(* what its patches do to a batch (TxEffect), what the batch of a ledger   *)
(* says of the ledger (BatchOk, OfferBatchOk, LifeOk), and what each       *)
(* writer does with the batch (StepIs).  Each table has an invariant of    *)
(* its own (OwnerInv, OfferInv, SalesKnown, LifeInv, TypeInv).             *)
(***************************************************************************)
EXTENDS NftLifecycle, FiniteSetTheorems, WellFoundedInduction, TLAPS

\* A set of naturals has a least element: induction, as the proofs below use it.
LEMMA LeastNat ==
  ASSUME NEW T \in SUBSET Nat, T # {}
  PROVE  \E x \in T : \A y \in T : x <= y
  <1> DEFINE R == {ss \in Nat \X Nat : ss[1] < ss[2]}
  <1>0. OpToRel(<, Nat) = R
    BY Zenon DEF OpToRel
  <1>1. \E x \in T : \A y \in T : ~(<<y, x>> \in R)
    <2>1. IsWellFoundedOn(R, Nat)
      BY <1>0, NatLessThanWellFounded, Zenon
    <2> HIDE DEF R
    <2> QED
      BY <2>1, WFMin, Zenon
  <1>2. PICK x \in T : \A y \in T : ~(<<y, x>> \in R)
    BY <1>1
  <1>3. ASSUME NEW y \in T PROVE x <= y
    <2>1. <<y, x>> \in Nat \X Nat /\ <<y, x>> \notin R
      BY <1>2
    <2> QED
      BY <2>1
  <1> QED
    BY <1>3

-----------------------------------------------------------------------------
(* Pages. *)

Holdings == UNION {[X -> Pages] : X \in SUBSET Nfts}

LEMMA HoldingIs ==
  ASSUME NEW h
  PROVE  h \in Holdings <=> /\ h = [m \in DOMAIN h |-> h[m]] /\ DOMAIN h \subseteq Nfts
                            /\ \A m \in DOMAIN h : h[m] \in Pages
  <1>1. ASSUME h \in Holdings
        PROVE  /\ h = [m \in DOMAIN h |-> h[m]] /\ DOMAIN h \subseteq Nfts
               /\ \A m \in DOMAIN h : h[m] \in Pages
    <2>1. PICK X \in SUBSET Nfts : h \in [X -> Pages]
      BY <1>1 DEF Holdings
    <2> QED
      BY <2>1
  <1>2. ASSUME h = [m \in DOMAIN h |-> h[m]], DOMAIN h \subseteq Nfts, \A m \in DOMAIN h : h[m] \in Pages
        PROVE  h \in Holdings
    <2>1. h \in [DOMAIN h -> Pages]
      BY <1>2
    <2> QED
      BY <1>2, <2>1 DEF Holdings
  <1> QED
    BY <1>1, <1>2

LEMMA PageIs ==
  ASSUME NEW p \in Pages
  PROVE  /\ p[1] \in Owners /\ p[2] \in Nat
         /\ \E i \in 1..Len(PageSeq) : PageSeq[i] = p
  <1>1. PageSeq \in Seq(Owners \X (Nat \ {0}))
    BY NftAssumption
  <1>2. DOMAIN PageSeq = 1..Len(PageSeq) /\ \A i \in 1..Len(PageSeq) : PageSeq[i] \in Owners \X (Nat \ {0})
    BY <1>1
  <1>3. PICK i \in 1..Len(PageSeq) : PageSeq[i] = p
    BY <1>2 DEF Pages, ToSet
  <1> QED
    BY <1>2, <1>3

LEMMA PagesAre ==
  /\ Len(PageSeq) \in Nat /\ DOMAIN PageSeq = 1..Len(PageSeq)
  /\ \A i \in 1..Len(PageSeq) : PageSeq[i] \in Pages
  <1>1. PageSeq \in Seq(Owners \X (Nat \ {0}))
    BY NftAssumption
  <1> QED
    BY <1>1 DEF Pages, ToSet

\* Every owner has a last page.
LEMMA LastPageIs ==
  ASSUME NEW o \in Owners
  PROVE  LastPage(o) \in Pages /\ LastPage(o)[1] = o
  <1> DEFINE n == Len(PageSeq)
             T == {n - i : i \in {j \in 1..n : PageSeq[j][1] = o}}
  <1>1. n \in Nat
    BY PagesAre
  <1>2. T \in SUBSET Nat /\ T # {}
    <2>1. PICK p \in ToSet(PageSeq) : p[1] = o
      BY NftAssumption
    <2>2. PICK i \in 1..n : PageSeq[i] = p
      BY <2>1, PageIs DEF Pages
    <2>3. n - i \in T
      BY <2>1, <2>2
    <2>4. \A k \in 1..n : n - k \in Nat
      BY <1>1
    <2> HIDE DEF n
    <2> QED
      BY <2>3, <2>4
  <1>3. PICK x \in T : \A y \in T : x <= y
    <2> HIDE DEF T
    <2> QED
      BY <1>2, LeastNat
  <1>4. PICK i \in 1..n : PageSeq[i][1] = o /\ x = n - i
    BY <1>3
  <1>5. ASSUME NEW q \in PagesOf(o) PROVE q[2] <= PageSeq[i][2]
    <2>1. PICK j \in 1..n : PageSeq[j] = q
      BY PageIs DEF PagesOf
    <2>2. n - j \in T
      BY <2>1 DEF PagesOf
    <2>3. j <= i
      <3> HIDE DEF T
      <3>1. n - i <= n - j
        BY <1>3, <1>4, <2>2
      <3> HIDE DEF n
      <3> QED
        BY <1>1, <1>4, <2>1, <3>1
    <2>4. q[2] \in Nat /\ PageSeq[i][2] \in Nat
      BY <1>4, PageIs, PagesAre DEF PagesOf
    <2>5. CASE j < i
      <3>1. \A k, l \in 1..n : k < l =>
              PageSeq[k][1] < PageSeq[l][1] \/ (PageSeq[k][1] = PageSeq[l][1] /\ PageSeq[k][2] < PageSeq[l][2])
        <4>1. \A k, l \in DOMAIN PageSeq : k < l =>
              PageSeq[k][1] < PageSeq[l][1] \/ (PageSeq[k][1] = PageSeq[l][1] /\ PageSeq[k][2] < PageSeq[l][2])
          BY Zenon, NftAssumption
        <4> QED
          BY <4>1, PagesAre
      <3>3. q[2] < PageSeq[i][2] \/ q[1] < PageSeq[i][1]
        BY <1>4, <2>1, <2>5, <3>1
      <3>2. q[1] = o /\ o \in Nat
        BY NftAssumption DEF PagesOf
      <3> QED
        BY <1>4, <2>4, <3>2, <3>3
    <2> QED
      BY <1>4, <2>1, <2>3, <2>4, <2>5
  <1>6. PageSeq[i] \in PagesOf(o)
    BY <1>4, PagesAre DEF PagesOf
  <1>7. LastPage(o) \in PagesOf(o)
    BY <1>5, <1>6 DEF LastPage
  <1> QED
    BY <1>7 DEF PagesOf

IsPlaced(held, n, o, next) ==
  /\ next \in Holdings /\ DOMAIN next = DOMAIN held \cup {n}
  /\ next[n] \in PagesOf(o)
  /\ \A m \in DOMAIN held : next[m] = held[m]

LEMMA PlacedIs ==
  ASSUME NEW held \in Holdings, NEW n \in Nfts, n \notin DOMAIN held, NEW o \in Owners,
         NEW next \in Placed(held, n, o)
  PROVE  IsPlaced(held, n, o, next)
  <1>1. PICK p \in IF UsedPages(held, o) = {} THEN {LastPage(o)} ELSE UsedPages(held, o) :
          next = [m \in DOMAIN held \cup {n} |-> IF m = n THEN p ELSE held[m]]
    BY DEF Placed
  <1>2. p \in PagesOf(o) /\ p \in Pages
    BY LastPageIs DEF UsedPages, PagesOf
  <1>3. DOMAIN held \subseteq Nfts /\ \A m \in DOMAIN held : held[m] \in Pages
    BY HoldingIs
  <1>4. DOMAIN next = DOMAIN held \cup {n} /\ \A m \in DOMAIN next : next[m] = IF m = n THEN p ELSE held[m]
    BY <1>1
  <1>5. next = [m \in DOMAIN next |-> next[m]]
    BY <1>1
  <1>6. next \in Holdings
    BY <1>2, <1>3, <1>4, <1>5, HoldingIs
  <1> QED
    BY <1>2, <1>4, <1>6 DEF IsPlaced

\* What a split moves goes to a page that had none, what a merge moves leaves one that has
\* none.
IsPut(held, n, o, next) ==
  /\ next \in Holdings /\ DOMAIN next = DOMAIN held \cup {n} /\ next[n][1] = o
  /\ \A m \in DOMAIN held : /\ next[m][1] = held[m][1]
                            /\ next[m] # held[m] => On(held, next[m]) = {}

IsTaken(held, n, next) ==
  /\ next \in Holdings /\ DOMAIN next = DOMAIN held \ {n}
  /\ \A m \in DOMAIN next : /\ next[m][1] = held[m][1]
                            /\ next[m] # held[m] => On(next, held[m]) = {}

IsMoved(held, n, o, next) ==
  /\ next \in Holdings /\ DOMAIN next = DOMAIN held /\ next[n][1] = o
  /\ \A m \in DOMAIN held : m # n => next[m][1] = held[m][1]

\* A split moves NFTs to a page that had none.
LEMMA SplitIs ==
  ASSUME NEW held \in Holdings, NEW p \in Pages, NEW next \in Split(held, p)
  PROVE  /\ next \in Holdings /\ DOMAIN next = DOMAIN held
         /\ \A m \in DOMAIN held : /\ next[m][1] = held[m][1]
                                   /\ next[m] # held[m] => On(held, next[m]) = {}
  <1>1. PICK q \in {q \in PagesOf(p[1]) \ UsedPages(held, p[1]) : q[2] < p[2]} :
          next \in {[m \in DOMAIN held |-> IF m \in moved THEN q ELSE held[m]] :
                      moved \in (SUBSET On(held, p)) \ {{}, On(held, p)}}
    BY DEF Split
  <1>2. PICK moved \in (SUBSET On(held, p)) \ {{}, On(held, p)} :
          next = [m \in DOMAIN held |-> IF m \in moved THEN q ELSE held[m]]
    BY <1>1
  <1>3. q \in Pages /\ q[1] = p[1] /\ On(held, q) = {}
    BY <1>1 DEF PagesOf, UsedPages
  <1>4. DOMAIN held \subseteq Nfts /\ \A m \in DOMAIN held : held[m] \in Pages
    BY HoldingIs
  <1>5. DOMAIN next = DOMAIN held /\ \A m \in DOMAIN held : next[m] = IF m \in moved THEN q ELSE held[m]
    BY <1>2
  <1>6. next = [m \in DOMAIN next |-> next[m]]
    BY <1>2
  <1>7. \A m \in moved : held[m] = p
    BY <1>2 DEF On
  <1>8. next \in Holdings
    BY <1>3, <1>4, <1>5, <1>6, HoldingIs
  <1> QED
    BY <1>3, <1>5, <1>7, <1>8

LEMMA PutOnIs ==
  ASSUME NEW held \in Holdings, NEW n \in Nfts, n \notin DOMAIN held, NEW o \in Owners,
         NEW next \in PutOn(held, n, o)
  PROVE  IsPut(held, n, o, next)
  <1>1. CASE next \in Placed(held, n, o)
    <2>1. IsPlaced(held, n, o, next)
      BY <1>1, PlacedIs
    <2> QED
      BY <2>1 DEF PagesOf, IsPlaced, IsPut
  <1>2. ASSUME NEW h \in Placed(held, n, o), next \in Split(h, h[n])
        PROVE  IsPut(held, n, o, next)
    <2>0. IsPlaced(held, n, o, h)
      BY PlacedIs
    <2>1. /\ h \in Holdings /\ DOMAIN h = DOMAIN held \cup {n} /\ h[n] \in PagesOf(o)
          /\ \A m \in DOMAIN held : h[m] = held[m]
      BY <2>0 DEF IsPlaced
    <2>2. h[n] \in Pages /\ h[n][1] = o
      BY <2>1 DEF PagesOf
    <2>3. /\ next \in Holdings /\ DOMAIN next = DOMAIN h
          /\ \A m \in DOMAIN h : next[m][1] = h[m][1] /\ (next[m] # h[m] => On(h, next[m]) = {})
      BY <1>2, <2>1, <2>2, SplitIs
    <2>4. \A p : On(held, p) \subseteq On(h, p)
      BY <2>1 DEF On
    <2> QED
      BY <2>1, <2>2, <2>3, <2>4 DEF IsPut
  <1> QED
    BY <1>1, <1>2 DEF PutOn

LEMMA TakeOffIs ==
  ASSUME NEW held \in Holdings, NEW n \in DOMAIN held, NEW next \in TakeOff(held, n)
  PROVE  IsTaken(held, n, next)
  <1> DEFINE rest == Without(held, n)
             page == held[n]
  <1>1. /\ DOMAIN rest = DOMAIN held \ {n} /\ \A m \in DOMAIN rest : rest[m] = held[m]
        /\ rest = [m \in DOMAIN rest |-> rest[m]]
    BY DEF Without
  <1>2. DOMAIN held \subseteq Nfts /\ \A m \in DOMAIN held : held[m] \in Pages
    BY HoldingIs
  <1>3. rest \in Holdings
    <2> HIDE DEF rest
    <2> QED
      BY <1>1, <1>2, HoldingIs
  <1>4. CASE next = rest
    BY <1>1, <1>3, <1>4 DEF IsTaken
  <1>5. ASSUME NEW q \in UsedPages(rest, page[1]) \ {page}, next = Joined(rest, page, q)
        PROVE  IsTaken(held, n, next)
    <2> DEFINE from == IF q[2] < page[2] THEN q ELSE page
               to == IF q[2] < page[2] THEN page ELSE q
    <2>1. q \in Pages /\ q[1] = page[1] /\ q # page /\ page \in Pages
      BY <1>2, <1>5 DEF UsedPages, PagesOf
    <2>2. from \in Pages /\ to \in Pages /\ from[1] = to[1] /\ from # to
      BY <2>1
    <2>3. next = [m \in DOMAIN rest |-> IF rest[m] = from THEN to ELSE rest[m]]
      BY <1>5 DEF Joined
    <2> HIDE DEF from, to, rest, page
    <2>4. DOMAIN next = DOMAIN rest /\ \A m \in DOMAIN rest : next[m] = IF rest[m] = from THEN to ELSE rest[m]
      BY <2>3
    <2>5. next = [m \in DOMAIN next |-> next[m]]
      BY <2>3
    <2>6. next \in Holdings
      BY <1>1, <1>2, <2>2, <2>4, <2>5, HoldingIs
    <2>7. On(next, from) = {}
      BY <2>2, <2>4 DEF On
    <2> QED
      BY <1>1, <2>2, <2>4, <2>6, <2>7 DEF IsTaken
  <1> QED
    BY <1>4, <1>5 DEF TakeOff

LEMMA MovesIs ==
  ASSUME NEW s, s.held \in Holdings, NEW n \in DOMAIN s.held, NEW b \in Owners, NEW next \in Moves(s, n, b)
  PROVE  IsMoved(s.held, n, b, next)
  <1>1. PICK h \in TakeOff(s.held, n) : next \in PutOn(h, n, b)
    BY DEF Moves
  <1>5. IsTaken(s.held, n, h)
    BY TakeOffIs
  <1>2. h \in Holdings /\ DOMAIN h = DOMAIN s.held \ {n} /\ \A m \in DOMAIN h : h[m][1] = s.held[m][1]
    BY <1>5 DEF IsTaken
  <1>3. n \in Nfts /\ n \notin DOMAIN h
    BY <1>2, HoldingIs
  <1>6. IsPut(h, n, b, next)
    BY <1>1, <1>2, <1>3, PutOnIs
  <1>4. /\ next \in Holdings /\ DOMAIN next = DOMAIN h \cup {n} /\ next[n][1] = b
        /\ \A m \in DOMAIN h : next[m][1] = h[m][1]
    BY <1>6 DEF IsPut
  <1> QED
    BY <1>2, <1>4 DEF IsMoved

\* What the page nodes of a transaction say.
ArrivesIn(pages, m) == \E i \in 1..Len(pages) : m \in pages[i].after /\ m \notin pages[i].before

NodesOk(held, next, pages) ==
  /\ Len(pages) \in Nat /\ DOMAIN pages = 1..Len(pages)
  /\ \A i \in 1..Len(pages) :
       /\ pages[i].owner \in Owners
       /\ \A m \in pages[i].after : m \in DOMAIN next /\ next[m][1] = pages[i].owner
       /\ \A m \in pages[i].before : m \in DOMAIN held
  /\ \A m \in DOMAIN next : m \notin DOMAIN held \/ next[m] # held[m] => ArrivesIn(pages, m)

LEMMA PageNodesLength ==
  ASSUME NEW held, NEW next, NEW n
  PROVE  /\ Len(PageNodes(held, next, n)) = Len(PageSeq)
         /\ DOMAIN PageNodes(held, next, n) = 1..Len(PageSeq)
         /\ \A i \in 1..Len(PageSeq) : PageNodes(held, next, n)[i] = PageNode(held, next, n, PageSeq[i])
  <1> DEFINE T == {PageNode(held, next, n, PageSeq[i]) : i \in 1..Len(PageSeq)}
             N == PageNodes(held, next, n)
  <1>1. Len(PageSeq) \in Nat /\ DOMAIN PageSeq = 1..Len(PageSeq)
    BY PagesAre
  <1>2. N = [i \in 1..Len(PageSeq) |-> PageNode(held, next, n, PageSeq[i])]
    BY <1>1 DEF PageNodes
  <1>3. \A i \in 1..Len(PageSeq) : PageNode(held, next, n, PageSeq[i]) \in T
    OBVIOUS
  <1> HIDE DEF T, N
  <1>4. N \in Seq(T) /\ Len(N) = Len(PageSeq)
    BY <1>1, <1>2, <1>3
  <1> QED
    BY <1>2, <1>4 DEF N

LEMMA NodesAre ==
  ASSUME NEW held \in Holdings, NEW next \in Holdings, NEW n
  PROVE  NodesOk(held, next, PageNodes(held, next, n))
  <1> DEFINE N == PageNodes(held, next, n)
  <1>1. Len(PageSeq) \in Nat /\ \A i \in 1..Len(PageSeq) : PageSeq[i] \in Pages
    BY PagesAre
  <1>2. /\ Len(N) = Len(PageSeq) /\ DOMAIN N = 1..Len(PageSeq)
        /\ \A i \in 1..Len(PageSeq) : N[i] = PageNode(held, next, n, PageSeq[i])
    BY PageNodesLength
  <1>3. ASSUME NEW i \in 1..Len(PageSeq)
        PROVE  /\ N[i].owner = PageSeq[i][1] /\ N[i].owner \in Owners
               /\ N[i].after \subseteq On(next, PageSeq[i]) /\ N[i].before \subseteq On(held, PageSeq[i])
    <2>1. N[i] = PageNode(held, next, n, PageSeq[i])
      BY <1>2
    <2>2. PageSeq[i][1] \in Owners
      BY <1>1, PageIs
    <2> QED
      BY <2>1, <2>2 DEF PageNode
  <1>4. ASSUME NEW m \in DOMAIN next, m \notin DOMAIN held \/ next[m] # held[m] PROVE ArrivesIn(N, m)
    <2>1. PICK i \in 1..Len(PageSeq) : PageSeq[i] = next[m]
      BY HoldingIs, PageIs
    <2>2. m \in On(next, PageSeq[i]) /\ m \notin On(held, PageSeq[i])
      BY <1>4, <2>1 DEF On
    <2>3. N[i].after = On(next, PageSeq[i])
      BY <1>2, <2>2 DEF PageNode
    <2>4. m \notin N[i].before
      BY <1>3, <2>2
    <2> QED
      BY <1>2, <2>2, <2>3, <2>4 DEF ArrivesIn
  <1> HIDE DEF N
  <1>5. \A i \in 1..Len(N) :
          /\ N[i].owner \in Owners
          /\ \A m \in N[i].after : m \in DOMAIN next /\ next[m][1] = N[i].owner
          /\ \A m \in N[i].before : m \in DOMAIN held
    BY <1>2, <1>3 DEF On
  <1>6. NodesOk(held, next, N)
    BY <1>1, <1>2, <1>4, <1>5 DEF NodesOk
  <1> QED
    BY <1>6 DEF N

-----------------------------------------------------------------------------
(* Transactions. *)

States == [held : Holdings, burned : SUBSET Nfts, open : SUBSET Offers, done : SUBSET Offers]

StateOk(s) ==
  /\ s \in States
  /\ s.burned \cap DOMAIN s.held = {} /\ s.open \cap s.done = {}
  /\ \A o \in s.open : o[1] \in DOMAIN s.held

\* An offer node is about an offer that was made or that ended.
OfferNodeOk(s, x, t) ==
  /\ x.offer \in Offers /\ x.offer[1] \in DOMAIN s.held
  /\ \/ x = Node(x.offer, "created") /\ x.offer \in t.open /\ x.offer \notin s.open \cup s.done
     \/ x = Node(x.offer, "deleted") /\ x.offer \in s.open /\ x.offer \in t.done

OffersOk(s, offers, t) ==
  /\ Len(offers) \in Nat /\ DOMAIN offers = 1..Len(offers)
  /\ \A i \in 1..Len(offers) : OfferNodeOk(s, offers[i], t)
  /\ s.done \subseteq t.done /\ s.open \subseteq t.open \cup t.done
  /\ \A o \in t.open : o \notin s.open => \E i \in 1..Len(offers) : offers[i] = Node(o, "created")
  /\ \A o \in t.done : o \notin s.done => \E i \in 1..Len(offers) : offers[i] = Node(o, "deleted")

\* From state s, transaction tx leads to t.
TxOk(s, tx, t) ==
  /\ StateOk(t)
  /\ s.burned \subseteq t.burned /\ t.burned \subseteq s.burned \cup DOMAIN s.held
  /\ DOMAIN s.held \subseteq DOMAIN t.held \cup t.burned
  /\ NodesOk(s.held, t.held, tx.pages)
  /\ OffersOk(s, tx.offers, t)

LEMMA NoNodes ==
  ASSUME NEW held \in Holdings
  PROVE  NodesOk(held, held, <<>>)
  BY DEF NodesOk

LEMMA NoOffers ==
  ASSUME NEW s, NEW t, s.open = t.open, s.done = t.done
  PROVE  OffersOk(s, <<>>, t)
  BY DEF OffersOk

LEMMA OneOffer ==
  ASSUME NEW s, NEW t, NEW x, OfferNodeOk(s, x, t),
         s.done \subseteq t.done, s.open \subseteq t.open \cup t.done,
         \A o \in t.open : o \notin s.open => x = Node(o, "created"),
         \A o \in t.done : o \notin s.done => x = Node(o, "deleted")
  PROVE  OffersOk(s, <<x>>, t)
  <1> DEFINE offers == <<x>>
  <1>1. Len(offers) = 1 /\ DOMAIN offers = 1..1 /\ offers[1] = x
    OBVIOUS
  <1> HIDE DEF offers
  <1>2. OffersOk(s, offers, t)
    BY <1>1 DEF OffersOk
  <1> QED
    BY <1>2 DEF offers

LEMMA MintOk ==
  ASSUME NEW s, StateOk(s), NEW n \in Nfts \ (DOMAIN s.held \cup s.burned), NEW o \in Owners,
         NEW h \in PutOn(s.held, n, o)
  PROVE  TxOk(s, Mint(s, n, o, h).tx, Mint(s, n, o, h).post)
  <1> DEFINE t == Mint(s, n, o, h).post
             tx == Mint(s, n, o, h).tx
  <1>1. s.held \in Holdings
    BY DEF StateOk, States
  <1>2. IsPut(s.held, n, o, h)
    BY <1>1, PutOnIs
  <1>3. t = [s EXCEPT !.held = h] /\ tx.pages = PageNodes(s.held, h, n) /\ tx.offers = <<>>
    BY DEF Mint, Tx
  <1> HIDE DEF t, tx
  <1>4. t.held = h /\ t.burned = s.burned /\ t.open = s.open /\ t.done = s.done /\ t \in States
    BY <1>2, <1>3 DEF StateOk, States, IsPut
  <1>5. StateOk(t)
    BY <1>2, <1>4 DEF StateOk, IsPut
  <1>6. NodesOk(s.held, t.held, tx.pages)
    BY <1>1, <1>2, <1>3, <1>4, NodesAre DEF IsPut
  <1>7. OffersOk(s, tx.offers, t)
    BY <1>3, <1>4, NoOffers
  <1>8. TxOk(s, tx, t)
    BY <1>2, <1>4, <1>5, <1>6, <1>7 DEF TxOk, IsPut
  <1> QED
    BY <1>8 DEF t, tx

\* A finite set as a sequence.
LEMMA SequenceOf ==
  ASSUME NEW S, IsFiniteSet(S)
  PROVE  /\ SetToSeq(S) \in Seq(S) /\ Len(SetToSeq(S)) = Cardinality(S)
         /\ \A x \in S : \E i \in 1..Len(SetToSeq(S)) : SetToSeq(S)[i] = x
  <1> DEFINE n == Cardinality(S)
             q == SetToSeq(S)
  <1>1. n \in Nat
    BY FS_CardinalityType
  <1>2. \E f \in [1..n -> S] : IsInjective(f)
    <2>1. PICK f : f \in Bijection(1..n, S)
      BY FS_CardinalityType DEF ExistsBijection
    <2>2. f \in [1..n -> S] /\ \A i, j \in 1..n : f[i] = f[j] => i = j
      BY <2>1 DEF Bijection, Injection, IsInjective
    <2> QED
      BY <2>2 DEF IsInjective
  <1>3. q \in [1..n -> S] /\ IsInjective(q)
    BY <1>2 DEF SetToSeq
  <1> HIDE DEF q
  <1>4. q \in Seq(S) /\ Len(q) = n
    BY <1>1, <1>3
  <1>5. q \in Surjection(1..n, S)
    <2>1. IsFiniteSet(1..n) /\ Cardinality(1..n) = n
      BY <1>1, FS_Interval
    <2>2. q \in Injection(1..n, S)
      BY <1>3 DEF Injection, IsInjective
    <2> QED
      BY <2>1, <2>2, FS_Injection
  <1> QED
    BY <1>4, <1>5 DEF Surjection, q

LEMMA BurnOk ==
  ASSUME NEW s, StateOk(s), NEW n \in DOMAIN s.held, NEW h \in TakeOff(s.held, n)
  PROVE  TxOk(s, Burn(s, n, h).tx, Burn(s, n, h).post)
  <1> DEFINE t == Burn(s, n, h).post
             tx == Burn(s, n, h).tx
             gone == {o \in s.open : o[1] = n}
             nodes == {Node(o, "deleted") : o \in gone}
  <1>1. s.held \in Holdings
    BY DEF StateOk, States
  <1>2. IsTaken(s.held, n, h)
    BY <1>1, TakeOffIs
  <1>3. /\ t = [s EXCEPT !.held = h, !.burned = s.burned \cup {n}, !.open = s.open \ gone, !.done = s.done \cup gone]
        /\ tx.pages = PageNodes(s.held, h, n) /\ tx.offers = SetToSeq(nodes)
    BY DEF Burn, Tx
  <1>4. IsFiniteSet(nodes)
    <2>1. gone \subseteq Offers /\ IsFiniteSet(Offers)
      BY NftAssumption DEF StateOk, States
    <2>2. IsFiniteSet(gone)
      BY <2>1, FS_Subset
    <2> DEFINE f == [o \in gone |-> Node(o, "deleted")]
    <2>3. f \in Surjection(gone, nodes)
      <3> HIDE DEF gone
      <3> QED
        BY DEF Surjection
    <2> HIDE DEF gone, nodes, f
    <2> QED
      BY <2>2, <2>3, FS_Surjection
  <1>5. n \in Nfts
    BY <1>1, HoldingIs
  <1> HIDE DEF t, tx, nodes
  <1>6. /\ t.held = h /\ t.burned = s.burned \cup {n} /\ t.open = s.open \ gone /\ t.done = s.done \cup gone
        /\ t \in States
    BY <1>2, <1>3, <1>5 DEF StateOk, States, IsTaken
  <1>7. StateOk(t)
    BY <1>2, <1>6 DEF StateOk, IsTaken
  <1>8. NodesOk(s.held, t.held, tx.pages)
    BY <1>1, <1>2, <1>3, <1>6, NodesAre DEF IsTaken
  <1>9. OffersOk(s, tx.offers, t)
    <2>1. /\ tx.offers \in Seq(nodes) /\ \A x \in nodes : \E i \in 1..Len(tx.offers) : tx.offers[i] = x
      BY <1>3, <1>4, SequenceOf
    <2>2. Len(tx.offers) \in Nat /\ DOMAIN tx.offers = 1..Len(tx.offers)
          /\ \A i \in 1..Len(tx.offers) : tx.offers[i] \in nodes
      BY <2>1
    <2>3. \A x \in nodes : OfferNodeOk(s, x, t)
      <3> SUFFICES ASSUME NEW o \in gone PROVE OfferNodeOk(s, Node(o, "deleted"), t)
        BY DEF nodes
      <3>1. o \in Offers /\ o \in s.open /\ o \in t.done /\ o[1] \in DOMAIN s.held
        BY <1>6 DEF StateOk, States
      <3> QED
        BY <3>1 DEF OfferNodeOk, Node
    <2>4. \A o \in t.done : o \notin s.done => Node(o, "deleted") \in nodes
      BY <1>6 DEF nodes
    <2>5. s.done \subseteq t.done /\ s.open \subseteq t.open \cup t.done /\ t.open \subseteq s.open
      BY <1>6
    <2> QED
      BY <2>1, <2>2, <2>3, <2>4, <2>5 DEF OffersOk
  <1>10. TxOk(s, tx, t)
    BY <1>2, <1>6, <1>7, <1>8, <1>9 DEF TxOk, IsTaken
  <1> QED
    BY <1>10 DEF t, tx

LEMMA AcceptOk ==
  ASSUME NEW s, StateOk(s), NEW taker, NEW taken, taken \in Seq(s.open), Len(taken) >= 1, NEW b \in Owners,
         NEW h \in Moves(s, taken[1][1], b)
  PROVE  TxOk(s, Accept(s, taker, taken, h).tx, Accept(s, taker, taken, h).post)
  <1> DEFINE t == Accept(s, taker, taken, h).post
             tx == Accept(s, taker, taken, h).tx
             n == taken[1][1]
             ends == ToSet(taken)
             nodes == {Node(o, "deleted") : o \in s.open}
  <1>1. s.held \in Holdings
    BY DEF StateOk, States
  <1>2. Len(taken) \in Nat /\ DOMAIN taken = 1..Len(taken) /\ \A i \in 1..Len(taken) : taken[i] \in s.open
    OBVIOUS
  <1>3. n \in DOMAIN s.held /\ ends \subseteq s.open
    BY <1>2 DEF StateOk, ToSet
  <1>4. IsMoved(s.held, n, b, h)
    BY <1>1, <1>3, MovesIs
  <1>5. /\ t = [s EXCEPT !.held = h, !.open = s.open \ ends, !.done = s.done \cup ends]
        /\ tx.pages = PageNodes(s.held, h, n) /\ tx.offers = [i \in 1..Len(taken) |-> Node(taken[i], "deleted")]
    BY <1>2 DEF Accept, Tx
  <1> HIDE DEF t, tx, nodes
  <1>6. t.held = h /\ t.burned = s.burned /\ t.open = s.open \ ends /\ t.done = s.done \cup ends /\ t \in States
    BY <1>3, <1>4, <1>5 DEF StateOk, States, IsMoved
  <1>7. StateOk(t)
    BY <1>3, <1>4, <1>6 DEF StateOk, IsMoved
  <1>8. NodesOk(s.held, t.held, tx.pages)
    BY <1>1, <1>4, <1>5, <1>6, NodesAre DEF IsMoved
  <1>9. OffersOk(s, tx.offers, t)
    <2>1. \A i \in 1..Len(taken) : Node(taken[i], "deleted") \in nodes
      BY <1>2 DEF nodes
    <2>2. tx.offers \in Seq(nodes) /\ Len(tx.offers) = Len(taken) /\ DOMAIN tx.offers = 1..Len(taken)
          /\ \A i \in 1..Len(taken) : tx.offers[i] = Node(taken[i], "deleted")
      BY <1>2, <1>5, <2>1
    <2>3. ASSUME NEW i \in 1..Len(taken) PROVE OfferNodeOk(s, tx.offers[i], t)
      <3>1. PICK o : o = taken[i] /\ o \in s.open /\ o \in ends
        BY <1>2 DEF ToSet
      <3>2. o \in Offers /\ o[1] \in DOMAIN s.held /\ o \in t.done
        BY <1>6, <3>1 DEF StateOk, States
      <3> QED
        <4>1. tx.offers[i] = Node(o, "deleted")
          BY <2>2, <3>1
        <4>2. OfferNodeOk(s, Node(o, "deleted"), t)
          BY <3>1, <3>2 DEF OfferNodeOk, Node
        <4> QED
          BY <4>1, <4>2
    <2>4. \A o \in t.done : o \notin s.done => \E i \in 1..Len(taken) : o = taken[i]
      BY <1>2, <1>6 DEF ToSet
    <2>5. s.done \subseteq t.done /\ s.open \subseteq t.open \cup t.done /\ t.open \subseteq s.open
      BY <1>6
    <2> QED
      BY <1>2, <2>2, <2>3, <2>4, <2>5 DEF OffersOk
  <1>10. TxOk(s, tx, t)
    BY <1>4, <1>6, <1>7, <1>8, <1>9 DEF TxOk, IsMoved
  <1> QED
    BY <1>10 DEF t, tx

\* Offers taken with the NFT moving to b, whichever way they were accepted.
Taken(s, taken, b, h) ==
  taken \in Seq(s.open) /\ Len(taken) >= 1 /\ b \in Owners /\ h \in Moves(s, taken[1][1], b)
Accepted(s, x) ==
  \E taker \in Owners : \E taken, b, h : Taken(s, taken, b, h) /\ x = Accept(s, taker, taken, h)

LEMMA AcceptedIs ==
  ASSUME NEW s, StateOk(s), NEW x \in Bought(s) \cup Sold(s) \cup Brokered(s)
  PROVE  Accepted(s, x)
  <1>1. ASSUME NEW o \in s.open, NEW taker \in Owners, NEW b \in Owners, NEW h \in Moves(s, o[1], b),
               x = Accept(s, taker, <<o>>, h)
        PROVE  Accepted(s, x)
    <2> DEFINE taken == <<o>>
    <2>1. taken \in Seq(s.open) /\ Len(taken) >= 1 /\ taken[1] = o
      <3> DEFINE T == s.open
      <3>1. o \in T
        BY DEF T
      <3> HIDE DEF T
      <3>2. taken \in Seq(T) /\ Len(taken) = 1 /\ taken[1] = o
        BY <3>1
      <3> QED
        BY <3>2 DEF T
    <2> HIDE DEF taken
    <2>2. x = Accept(s, taker, taken, h)
      BY <1>1 DEF taken
    <2> QED
      BY <1>1, <2>1, <2>2 DEF Accepted, Taken
  <1>2. ASSUME NEW o \in s.open, NEW p \in s.open, NEW taker \in Owners, NEW b \in Owners, NEW h \in Moves(s, o[1], b),
               x = Accept(s, taker, <<o, p>>, h)
        PROVE  Accepted(s, x)
    <2> DEFINE taken == <<o, p>>
    <2>1. taken \in Seq(s.open) /\ Len(taken) >= 1 /\ taken[1] = o
      <3> DEFINE T == s.open
      <3>1. o \in T /\ p \in T
        BY <1>2 DEF T
      <3> HIDE DEF T
      <3>2. taken \in Seq(T) /\ Len(taken) = 2 /\ taken[1] = o
        BY <3>1
      <3> QED
        BY <3>2 DEF T
    <2> HIDE DEF taken
    <2>2. x = Accept(s, taker, taken, h)
      BY <1>2 DEF taken
    <2> QED
      BY <1>2, <2>1, <2>2 DEF Accepted, Taken
  <1>3. Sells(s) \subseteq s.open /\ Buys(s) \subseteq s.open /\ \A o \in s.open : o[2] \in Owners
    BY NftAssumption DEF Sells, Buys, StateOk, States
  <1>4. CASE x \in Bought(s)
    <2>1. PICK o \in Sells(s) : x \in UNION {{Accept(s, b, <<o>>, h) : h \in Moves(s, o[1], b)} : b \in Owners \ {o[2]}}
      BY <1>4 DEF Bought
    <2>2. PICK b \in Owners \ {o[2]} : x \in {Accept(s, b, <<o>>, h) : h \in Moves(s, o[1], b)}
      BY <2>1
    <2>3. PICK h \in Moves(s, o[1], b) : x = Accept(s, b, <<o>>, h)
      BY <2>2
    <2>4. o \in s.open /\ b \in Owners
      BY <1>3
    <2> QED
      BY <1>1, <2>3, <2>4
  <1>5. CASE x \in Sold(s)
    <2>1. PICK o \in Buys(s) : x \in {Accept(s, s.held[o[1]][1], <<o>>, h) : h \in Moves(s, o[1], o[2])}
      BY <1>5 DEF Sold
    <2>2. PICK h \in Moves(s, o[1], o[2]) : x = Accept(s, s.held[o[1]][1], <<o>>, h)
      BY <2>1
    <2>3. o \in s.open /\ o[2] \in Owners /\ s.held[o[1]][1] \in Owners
      <3>1. o \in s.open /\ o[1] \in DOMAIN s.held /\ s.held \in Holdings
        BY <1>3 DEF StateOk, States
      <3> QED
        BY <1>3, <3>1, HoldingIs, PageIs
    <2> QED
      BY <1>1, <2>2, <2>3
  <1>6. CASE x \in Brokered(s)
    <2>1. PICK o \in Sells(s) :
            x \in UNION {UNION {{Accept(s, t, <<o, p>>, h) : h \in Moves(s, o[1], p[2])} :
                                  t \in Owners \ {o[2], p[2]}} :
                           p \in {q \in Buys(s) : q[1] = o[1]}}
      BY <1>6 DEF Brokered
    <2>2. PICK p \in {q \in Buys(s) : q[1] = o[1]} :
            x \in UNION {{Accept(s, t, <<o, p>>, h) : h \in Moves(s, o[1], p[2])} : t \in Owners \ {o[2], p[2]}}
      BY <2>1
    <2>3. PICK t \in Owners \ {o[2], p[2]} : x \in {Accept(s, t, <<o, p>>, h) : h \in Moves(s, o[1], p[2])}
      BY <2>2
    <2>4. PICK h \in Moves(s, o[1], p[2]) : x = Accept(s, t, <<o, p>>, h)
      BY <2>3
    <2>5. o \in s.open /\ p \in s.open /\ p[2] \in Owners
      BY <1>3
    <2> QED
      BY <1>2, <2>4, <2>5
  <1> QED
    BY <1>4, <1>5, <1>6

LEMMA OutcomeOk ==
  ASSUME NEW s, StateOk(s), NEW x \in Outcomes(s)
  PROVE  TxOk(s, x.tx, x.post)
  <1>1. CASE x \in Mints(s)
    BY <1>1, MintOk DEF Mints
  <1>2. CASE x \in Burns(s)
    BY <1>2, BurnOk DEF Burns
  <1>3. CASE x \in Creates(s)
    <2>1. PICK o \in Offers \ (s.open \cup s.done) :
            /\ o[1] \in DOMAIN s.held
            /\ x = [tx   |-> Tx("NFTokenCreateOffer", o[2], <<>>, <<Node(o, "created")>>),
                    post |-> [s EXCEPT !.open = s.open \cup {o}]]
      BY <1>3 DEF Creates
    <2> DEFINE t == x.post
               tx == x.tx
    <2>2. t = [s EXCEPT !.open = s.open \cup {o}] /\ tx.pages = <<>> /\ tx.offers = <<Node(o, "created")>>
      BY <2>1 DEF Tx
    <2> HIDE DEF t, tx
    <2>3. t.held = s.held /\ t.burned = s.burned /\ t.open = s.open \cup {o} /\ t.done = s.done /\ t \in States
      BY <2>2 DEF StateOk, States
    <2>4. StateOk(t)
      BY <2>1, <2>3 DEF StateOk
    <2>5. NodesOk(s.held, t.held, tx.pages)
      BY <2>2, <2>3, NoNodes DEF StateOk, States
    <2>6. OffersOk(s, tx.offers, t)
      <3>1. OfferNodeOk(s, Node(o, "created"), t)
        BY <2>1, <2>3 DEF OfferNodeOk, Node
      <3> DEFINE y == Node(o, "created")
      <3>2. /\ s.done \subseteq t.done /\ s.open \subseteq t.open \cup t.done
            /\ \A q \in t.open : q \notin s.open => y = Node(q, "created")
            /\ \A q \in t.done : q \notin s.done => y = Node(q, "deleted")
        BY <2>3
      <3> HIDE DEF y
      <3>3. OfferNodeOk(s, y, t)
        BY <3>1 DEF y
      <3>4. OffersOk(s, <<y>>, t)
        BY <3>2, <3>3, OneOffer
      <3> QED
        BY <2>2, <3>4 DEF y
    <2>7. TxOk(s, tx, t)
      BY <2>3, <2>4, <2>5, <2>6 DEF TxOk
    <2> QED
      BY <2>7 DEF t, tx
  <1>4. CASE x \in Cancels(s)
    <2>1. PICK o \in s.open :
            x = [tx   |-> Tx("NFTokenCancelOffer", o[2], <<>>, <<Node(o, "deleted")>>),
                 post |-> [s EXCEPT !.open = s.open \ {o}, !.done = s.done \cup {o}]]
      BY <1>4 DEF Cancels
    <2> DEFINE t == x.post
               tx == x.tx
    <2>2. /\ t = [s EXCEPT !.open = s.open \ {o}, !.done = s.done \cup {o}]
          /\ tx.pages = <<>> /\ tx.offers = <<Node(o, "deleted")>>
      BY <2>1 DEF Tx
    <2> HIDE DEF t, tx
    <2>3. /\ t.held = s.held /\ t.burned = s.burned /\ t.open = s.open \ {o} /\ t.done = s.done \cup {o}
          /\ t \in States
      BY <2>2 DEF StateOk, States
    <2>4. StateOk(t)
      BY <2>1, <2>3 DEF StateOk
    <2>5. NodesOk(s.held, t.held, tx.pages)
      BY <2>2, <2>3, NoNodes DEF StateOk, States
    <2>6. OffersOk(s, tx.offers, t)
      <3>1. OfferNodeOk(s, Node(o, "deleted"), t)
        BY <2>1, <2>3 DEF OfferNodeOk, Node, StateOk, States
      <3>2. t.open \subseteq s.open /\ \A p \in t.done : p \notin s.done => p = o
        BY <2>3
      <3> DEFINE y == Node(o, "deleted")
      <3>3. /\ s.done \subseteq t.done /\ s.open \subseteq t.open \cup t.done
            /\ \A q \in t.open : q \notin s.open => y = Node(q, "created")
            /\ \A q \in t.done : q \notin s.done => y = Node(q, "deleted")
        BY <2>3, <3>2
      <3> HIDE DEF y
      <3>4. OfferNodeOk(s, y, t)
        BY <3>1 DEF y
      <3>5. OffersOk(s, <<y>>, t)
        BY <3>3, <3>4, OneOffer
      <3> QED
        BY <2>2, <3>5 DEF y
    <2>7. TxOk(s, tx, t)
      BY <2>3, <2>4, <2>5, <2>6 DEF TxOk
    <2> QED
      BY <2>7 DEF t, tx
  <1>5. CASE x \in Bought(s) \cup Sold(s) \cup Brokered(s)
    BY <1>5, AcceptedIs, AcceptOk DEF Accepted, Taken
  <1> QED
    BY <1>1, <1>2, <1>3, <1>4, <1>5 DEF Outcomes

-----------------------------------------------------------------------------
(* Ledgers. *)

IsSeq(q) == Len(q) \in Nat /\ q = [i \in 1..Len(q) |-> q[i]]

LEMMA AppendIs ==
  ASSUME NEW q, IsSeq(q), NEW x
  PROVE  /\ IsSeq(Append(q, x)) /\ Len(Append(q, x)) = Len(q) + 1
         /\ \A i \in 1..Len(q) : Append(q, x)[i] = q[i]
         /\ Append(q, x)[Len(q) + 1] = x
  <1> DEFINE T == {q[i] : i \in 1..Len(q)} \cup {x}
  <1>1. Len(q) \in Nat /\ \A i \in 1..Len(q) : q[i] \in T
    BY DEF IsSeq
  <1>2. x \in T
    OBVIOUS
  <1> HIDE DEF T
  <1>3. q \in Seq(T)
    BY <1>1 DEF IsSeq
  <1> DEFINE r == Append(q, x)
  <1>4. /\ r \in Seq(T) /\ Len(r) = Len(q) + 1 /\ \A i \in 1..Len(q) : r[i] = q[i]
        /\ r[Len(q) + 1] = x
    BY <1>1, <1>2, <1>3
  <1> HIDE DEF r
  <1>5. Len(r) \in Nat /\ r = [i \in 1..Len(r) |-> r[i]]
    BY <1>4
  <1> QED
    BY <1>4, <1>5 DEF IsSeq, r

\* The states between the transactions of a ledger.
Through(s, txs, t, st) ==
  /\ st[0] = s /\ st[Len(txs)] = t
  /\ \A i \in 0..Len(txs) : StateOk(st[i])
  /\ \A i \in 1..Len(txs) : \E x \in Outcomes(st[i - 1]) : txs[i] = x.tx /\ st[i] = x.post

Follows(s, txs, t) == IsSeq(txs) /\ \E st : Through(s, txs, t, st)

NoRun(s) == {[txs |-> <<>>, post |-> s]}

LongerRuns(F) == UNION {{[txs |-> Append(r.txs, x.tx), post |-> x.post] : x \in Outcomes(r.post)} : r \in F}

RunTo(s, n, f) == [k \in 0..n |-> IF k = 0 THEN NoRun(s) ELSE LongerRuns(f[k - 1])]

LEMMA RunExists ==
  ASSUME NEW s, NEW n \in Nat
  PROVE  \E f : f = RunTo(s, n, f)
  <1> DEFINE bad == {m \in Nat : ~\E f : f = RunTo(s, m, f)}
  <1>1. ASSUME NEW m \in bad, \A y \in bad : m <= y PROVE FALSE
    <2>1. CASE m = 0
      <3> DEFINE f == [i \in 0..0 |-> NoRun(s)]
      <3>1. f = RunTo(s, 0, f)
        BY DEF RunTo
      <3> QED
        BY <2>1, <3>1
    <2>2. CASE m # 0
      <3>1. m - 1 \in Nat /\ m - 1 \notin bad
        BY <1>1, <2>2
      <3>2. PICK g : g = RunTo(s, m - 1, g)
        BY <3>1
      <3>3. \A i \in 0..(m - 1) : g[i] = IF i = 0 THEN NoRun(s) ELSE LongerRuns(g[i - 1])
        BY <3>2 DEF RunTo
      <3> DEFINE f == [i \in 0..m |-> IF i < m THEN g[i] ELSE LongerRuns(g[m - 1])]
      <3>4. \A i \in 0..m : f[i] = IF i = 0 THEN NoRun(s) ELSE LongerRuns(f[i - 1])
        BY <2>2, <3>1, <3>3
      <3>5. f = [i \in 0..m |-> f[i]]
        OBVIOUS
      <3> HIDE DEF f
      <3>6. f = RunTo(s, m, f)
        BY <3>4, <3>5 DEF RunTo
      <3> QED
        BY <3>6
    <2> QED
      BY <2>1, <2>2
  <1>2. bad = {}
    <2> HIDE DEF bad
    <2>1. bad \in SUBSET Nat
      BY DEF bad
    <2> QED
      BY <1>1, <2>1, LeastNat
  <1> QED
    BY <1>2

LEMMA OneMore ==
  ASSUME NEW s, NEW r, Follows(s, r.txs, r.post), NEW x \in Outcomes(r.post)
  PROVE  Follows(s, Append(r.txs, x.tx), x.post)
  <1> DEFINE n == Len(r.txs)
             more == Append(r.txs, x.tx)
  <1>1. PICK st : Through(s, r.txs, r.post, st)
    BY DEF Follows
  <1>2. /\ IsSeq(more) /\ Len(more) = n + 1 /\ n \in Nat /\ more[n + 1] = x.tx
        /\ \A i \in 1..n : more[i] = r.txs[i]
    BY AppendIs DEF Follows, IsSeq
  <1> DEFINE su == [i \in 0..(n + 1) |-> IF i = n + 1 THEN x.post ELSE st[i]]
  <1>3. su[n + 1] = x.post /\ \A i \in 0..n : su[i] = st[i]
    BY <1>2
  <1> HIDE DEF su, n, more
  <1>4. /\ st[0] = s /\ st[n] = r.post /\ \A i \in 0..n : StateOk(st[i])
        /\ \A i \in 1..n : \E y \in Outcomes(st[i - 1]) : r.txs[i] = y.tx /\ st[i] = y.post
    BY <1>1 DEF Through, n
  <1>5. StateOk(x.post)
    <2>1. StateOk(r.post)
      BY <1>2, <1>4
    <2>2. TxOk(r.post, x.tx, x.post)
      BY <2>1, OutcomeOk
    <2> QED
      BY <2>2 DEF TxOk
  <1>6. \A i \in 0..(n + 1) : i = n + 1 \/ i \in 0..n
    BY <1>2
  <1>7. ASSUME NEW i \in 1..(n + 1) PROVE \E y \in Outcomes(su[i - 1]) : more[i] = y.tx /\ su[i] = y.post
    <2>1. CASE i = n + 1
      <3>1. su[i - 1] = r.post
        BY <1>2, <1>3, <1>4, <2>1
      <3> QED
        BY <1>2, <1>3, <2>1, <3>1
    <2>2. CASE i # n + 1
      <3>1. i \in 1..n /\ i - 1 \in 0..n /\ i \in 0..n
        BY <1>2, <2>2
      <3>2. su[i - 1] = st[i - 1] /\ su[i] = st[i] /\ more[i] = r.txs[i]
        BY <1>2, <1>3, <3>1
      <3> QED
        BY <1>4, <3>1, <3>2
    <2> QED
      BY <2>1, <2>2
  <1>8. su[0] = s
    BY <1>2, <1>3, <1>4
  <1>9. Through(s, more, x.post, su)
    BY <1>2, <1>3, <1>4, <1>5, <1>6, <1>7, <1>8 DEF Through
  <1>10. Follows(s, more, x.post)
    BY <1>2, <1>9 DEF Follows
  <1> QED
    BY <1>10 DEF more

LEMMA RunsFollow ==
  ASSUME NEW s, StateOk(s), NEW n \in Nat, NEW f, f = RunTo(s, n, f), NEW k \in 0..n, NEW r \in f[k]
  PROVE  Follows(s, r.txs, r.post)
  <1>1. /\ f[0] = NoRun(s)
        /\ \A i \in 1..n : f[i] = LongerRuns(f[i - 1])
    BY DEF RunTo
  <1> DEFINE Good(i) == \A q \in f[i] : Follows(s, q.txs, q.post)
             bad == {i \in 0..n : ~Good(i)}
  <1>2. ASSUME NEW m \in bad, \A y \in bad : m <= y PROVE FALSE
    <2>1. Good(0)
      <3> SUFFICES ASSUME NEW q \in f[0] PROVE Follows(s, q.txs, q.post)
        OBVIOUS
      <3>1. q.txs = <<>> /\ q.post = s
        BY <1>1 DEF NoRun
      <3> DEFINE none == <<>>
                 st == [i \in 0..0 |-> s]
      <3>2. IsSeq(none) /\ Len(none) = 0
        BY DEF IsSeq
      <3>3. st[0] = s
        OBVIOUS
      <3> HIDE DEF none, st
      <3>4. Through(s, none, s, st)
        BY <3>2, <3>3 DEF Through
      <3> QED
        BY <3>1, <3>2, <3>4 DEF Follows, none
    <2>2. m # 0
      BY <2>1
    <2>3. m - 1 \in 0..n /\ m \in 1..n /\ m - 1 \notin bad
      BY <1>2, <2>2
    <2>4. Good(m - 1)
      BY <2>3
    <2>5. ASSUME NEW q \in f[m] PROVE Follows(s, q.txs, q.post)
      <3>1. q \in LongerRuns(f[m - 1])
        BY <1>1, <2>3
      <3>2. PICK p \in f[m - 1] : q \in {[txs |-> Append(p.txs, x.tx), post |-> x.post] : x \in Outcomes(p.post)}
        BY <3>1 DEF LongerRuns
      <3>3. PICK x \in Outcomes(p.post) : q = [txs |-> Append(p.txs, x.tx), post |-> x.post]
        BY <3>2
      <3>4. Follows(s, p.txs, p.post)
        BY <2>4
      <3>5. Follows(s, Append(p.txs, x.tx), x.post)
        BY <3>4, OneMore
      <3> QED
        BY <3>3, <3>5
    <2> QED
      BY <2>5
  <1>3. bad = {}
    <2> HIDE DEF bad
    <2>1. bad \in SUBSET Nat
      BY DEF bad
    <2> QED
      BY <1>2, <2>1, LeastNat
  <1> QED
    BY <1>3

ChainInv ==
  /\ IsSeq(chain) /\ Newest >= 1
  /\ chain[1].txs = <<>> /\ chain[1].post.burned = {} /\ chain[1].post.done = {}
  /\ \A k \in 1..Newest : StateOk(chain[k].post) /\ IsSeq(chain[k].txs)
  /\ \A k \in 2..Newest : Follows(chain[k - 1].post, chain[k].txs, chain[k].post)

\* What a step never changes in the ledgers there are.
Kept == Newest' \in Nat /\ Newest' >= Newest /\ \A k \in 1..Newest : chain'[k] = chain[k]

LEMMA ChainInit == Init => ChainInv
  <1> SUFFICES ASSUME Init PROVE ChainInv
    OBVIOUS
  <1>1. PICK old \in SUBSET Nfts : \E held \in [old -> StartPages], open \in SUBSET {o \in Offers : o[1] \in old} :
          chain = <<[txs  |-> <<>>, post |-> [held |-> held, burned |-> {}, open |-> open, done |-> {}]]>>
    BY DEF Init, LedgerInit
  <1>2. PICK held \in [old -> StartPages], open \in SUBSET {o \in Offers : o[1] \in old} :
          chain = <<[txs  |-> <<>>, post |-> [held |-> held, burned |-> {}, open |-> open, done |-> {}]]>>
    BY <1>1
  <1> DEFINE s == [held |-> held, burned |-> {}, open |-> open, done |-> {}]
             r == [txs |-> <<>>, post |-> s]
  <1>3. held \in [old -> Pages]
    BY NftAssumption DEF Pages
  <1>4. held \in Holdings /\ DOMAIN held = old
    BY <1>3 DEF Holdings
  <1>5. s \in States
    BY <1>4 DEF States
  <1>6. StateOk(s) /\ s.burned = {} /\ s.done = {}
    BY <1>4, <1>5 DEF StateOk
  <1> HIDE DEF s
  <1>7. r.txs = <<>> /\ r.post = s
    OBVIOUS
  <1>8. chain = <<r>>
    BY <1>2 DEF s
  <1> HIDE DEF r
  <1>9. Len(chain) = 1 /\ chain[1] = r /\ IsSeq(chain)
    BY <1>8 DEF IsSeq
  <1>10. IsSeq(<<>>)
    BY DEF IsSeq
  <1>11. Newest = 1 /\ \A k \in 1..Newest : k = 1
    BY <1>9 DEF Newest
  <1>12. \A k \in 2..Newest : FALSE
    BY <1>11
  <1> QED
    BY <1>6, <1>7, <1>9, <1>10, <1>11, <1>12 DEF ChainInv

LEMMA LedgerStep ==
  ASSUME ChainInv, LedgerCloses
  PROVE  ChainInv' /\ Kept
  <1> DEFINE s == chain[Newest].post
             f == CHOOSE f : f = RunTo(s, MaxTxs, f)
  <1>1. MaxTxs \in Nat
    BY NftAssumption
  <1>2. f = RunTo(s, MaxTxs, f)
    BY <1>1, RunExists
  <1>3. PICK k \in 1..MaxTxs : \E closed \in f[k] : chain' = Append(chain, closed)
    BY DEF LedgerCloses, RunTo, LongerRuns, NoRun
  <1>4. PICK closed \in f[k] : chain' = Append(chain, closed)
    BY <1>3
  <1> HIDE DEF f
  <1>5. Newest \in Nat /\ Newest >= 1 /\ Newest \in 1..Newest /\ IsSeq(chain)
    BY DEF ChainInv, IsSeq, Newest
  <1>6. StateOk(s)
    BY <1>5 DEF ChainInv
  <1>7. Follows(s, closed.txs, closed.post)
    <2> HIDE DEF s
    <2>1. k \in 0..MaxTxs
      BY <1>1
    <2> QED
      BY <1>1, <1>2, <1>4, <1>6, <2>1, RunsFollow
  <1>8. IsSeq(closed.txs) /\ StateOk(closed.post)
    <2>1. PICK st : Through(s, closed.txs, closed.post, st)
      BY <1>7 DEF Follows
    <2>2. Len(closed.txs) \in Nat
      BY <1>7 DEF Follows, IsSeq
    <2> QED
      BY <1>7, <2>1, <2>2 DEF Follows, Through
  <1>9. /\ IsSeq(chain') /\ Newest' = Newest + 1 /\ chain'[Newest + 1] = closed
        /\ \A i \in 1..Newest : chain'[i] = chain[i]
    BY <1>4, <1>5, AppendIs DEF Newest
  <1>10. ASSUME NEW i \in 1..(Newest + 1) PROVE StateOk(chain'[i].post) /\ IsSeq(chain'[i].txs)
    <2>1. CASE i = Newest + 1
      BY <1>8, <1>9, <2>1
    <2>2. CASE i # Newest + 1
      <3>1. i \in 1..Newest
        BY <1>5, <2>2
      <3> QED
        BY <1>9, <3>1 DEF ChainInv
    <2> QED
      BY <2>1, <2>2
  <1>11. ASSUME NEW i \in 2..(Newest + 1) PROVE Follows(chain'[i - 1].post, chain'[i].txs, chain'[i].post)
    <2>1. CASE i = Newest + 1
      <3>1. i - 1 = Newest
        BY <1>5, <2>1
      <3>2. chain'[i - 1] = chain[Newest]
        BY <1>5, <1>9, <3>1
      <3> QED
        BY <1>7, <1>9, <2>1, <3>2
    <2>2. CASE i # Newest + 1
      <3>1. i \in 2..Newest /\ i \in 1..Newest /\ i - 1 \in 1..Newest
        BY <1>5, <2>2
      <3> QED
        BY <1>9, <3>1 DEF ChainInv
    <2> QED
      BY <2>1, <2>2
  <1>12. chain'[1] = chain[1]
    BY <1>5, <1>9
  <1> HIDE DEF s
  <1>13. ChainInv'
    BY <1>5, <1>9, <1>10, <1>11, <1>12 DEF ChainInv
  <1> QED
    BY <1>5, <1>9, <1>13 DEF Kept

LEMMA ChainStep ==
  ASSUME ChainInv, [Next]_vars
  PROVE  ChainInv' /\ Kept
  <1>1. CASE UNCHANGED chain
    <2>1. Newest' = Newest /\ Newest \in Nat
      BY <1>1 DEF Newest, ChainInv, IsSeq
    <2> QED
      BY <1>1, <2>1 DEF ChainInv, Kept
  <1>2. CASE Close
    BY <1>2, LedgerStep DEF Close
  <1>3. CASE Snapshot
    BY <1>1, <1>3 DEF Snapshot
  <1>4. ASSUME NEW seq, LiveLedger(seq) \/ BackfillLedger(seq) PROVE UNCHANGED chain
    BY <1>4 DEF LiveLedger, BackfillLedger
  <1> QED
    BY <1>1, <1>2, <1>3, <1>4 DEF Next, vars


-----------------------------------------------------------------------------
(* Batches. *)

Has(b, n, f) == n \in DOMAIN b /\ f \in DOMAIN b[n]

LEMMA OrElseIs ==
  ASSUME NEW f, NEW g
  PROVE  /\ DOMAIN OrElse(f, g) = DOMAIN f \cup DOMAIN g
         /\ \A x \in DOMAIN f : OrElse(f, g)[x] = f[x]
         /\ \A x \in DOMAIN g : x \notin DOMAIN f => OrElse(f, g)[x] = g[x]
  BY DEF OrElse

MergeOf(b, p, m) ==
  /\ DOMAIN m = DOMAIN b \cup DOMAIN p
  /\ \A n, f : /\ Has(m, n, f) <=> Has(b, n, f) \/ Has(p, n, f)
               /\ Has(p, n, f) => m[n][f] = p[n][f]
               /\ Has(b, n, f) /\ ~Has(p, n, f) => m[n][f] = b[n][f]

LEMMA MergeIs ==
  ASSUME NEW b, NEW p
  PROVE  MergeOf(b, p, Merge(b, p))
  <1> DEFINE m == Merge(b, p)
  <1>1. /\ DOMAIN m = DOMAIN b \cup DOMAIN p
        /\ \A n \in DOMAIN m : m[n] = IF n \notin DOMAIN p THEN b[n]
                                      ELSE IF n \in DOMAIN b THEN OrElse(p[n], b[n]) ELSE p[n]
    BY DEF Merge
  <1> HIDE DEF m
  <1>2. ASSUME NEW n, NEW f
        PROVE  /\ Has(m, n, f) <=> Has(b, n, f) \/ Has(p, n, f)
               /\ Has(p, n, f) => m[n][f] = p[n][f]
               /\ Has(b, n, f) /\ ~Has(p, n, f) => m[n][f] = b[n][f]
    <2>1. CASE n \in DOMAIN p /\ n \in DOMAIN b
      <3>1. m[n] = OrElse(p[n], b[n])
        BY <1>1, <2>1
      <3>2. /\ DOMAIN m[n] = DOMAIN p[n] \cup DOMAIN b[n]
            /\ \A x \in DOMAIN p[n] : m[n][x] = p[n][x]
            /\ \A x \in DOMAIN b[n] : x \notin DOMAIN p[n] => m[n][x] = b[n][x]
        <4> DEFINE pn == p[n]
                   bn == b[n]
                   mn == m[n]
        <4>1. mn = OrElse(pn, bn)
          BY <3>1
        <4> HIDE DEF pn, bn, mn
        <4>2. /\ DOMAIN mn = DOMAIN pn \cup DOMAIN bn
              /\ \A x \in DOMAIN pn : mn[x] = pn[x]
              /\ \A x \in DOMAIN bn : x \notin DOMAIN pn => mn[x] = bn[x]
          BY <4>1 DEF OrElse
        <4> QED
          BY <4>2 DEF pn, bn, mn
      <3> QED
        BY <1>1, <2>1, <3>2 DEF Has
    <2>2. CASE n \in DOMAIN p /\ n \notin DOMAIN b
      BY <1>1, <2>2 DEF Has
    <2>3. CASE n \notin DOMAIN p
      BY <1>1, <2>3 DEF Has
    <2> QED
      BY <2>1, <2>2, <2>3
  <1>3. MergeOf(b, p, m)
    BY <1>1, <1>2 DEF MergeOf
  <1> QED
    BY <1>3 DEF m

MergeTo(b, list, n, f) == [i \in 0..n |-> IF i = 0 THEN b ELSE Merge(f[i - 1], list[i])]

LEMMA MergeExists ==
  ASSUME NEW b, NEW list, NEW n \in Nat
  PROVE  \E f : f = MergeTo(b, list, n, f)
  <1> DEFINE bad == {m \in Nat : ~\E f : f = MergeTo(b, list, m, f)}
  <1>1. ASSUME NEW m \in bad, \A y \in bad : m <= y PROVE FALSE
    <2>1. CASE m = 0
      <3> DEFINE f == [i \in 0..0 |-> b]
      <3>1. f = MergeTo(b, list, 0, f)
        BY DEF MergeTo
      <3> QED
        BY <2>1, <3>1
    <2>2. CASE m # 0
      <3>1. m - 1 \in Nat /\ m - 1 \notin bad
        BY <1>1, <2>2
      <3>2. PICK g : g = MergeTo(b, list, m - 1, g)
        BY <3>1
      <3>3. \A i \in 0..(m - 1) : g[i] = IF i = 0 THEN b ELSE Merge(g[i - 1], list[i])
        BY <3>2 DEF MergeTo
      <3> DEFINE f == [i \in 0..m |-> IF i < m THEN g[i] ELSE Merge(g[m - 1], list[m])]
      <3>4. \A i \in 0..m : f[i] = IF i = 0 THEN b ELSE Merge(f[i - 1], list[i])
        BY <2>2, <3>1, <3>3
      <3>5. f = [i \in 0..m |-> f[i]]
        OBVIOUS
      <3> HIDE DEF f
      <3>6. f = MergeTo(b, list, m, f)
        BY <3>4, <3>5 DEF MergeTo
      <3> QED
        BY <3>6
    <2> QED
      BY <2>1, <2>2
  <1>2. bad = {}
    <2> HIDE DEF bad
    <2>1. bad \in SUBSET Nat
      BY DEF bad
    <2> QED
      BY <1>1, <2>1, LeastNat
  <1> QED
    BY <1>2

\* m is b with the first k patches of list: a field has the value of one of those that
\* set it, or that of b if none does.
Merged(b, list, k, m) ==
  /\ \A n : n \in DOMAIN m <=> n \in DOMAIN b \/ \E i \in 1..k : n \in DOMAIN list[i]
  /\ \A n, f : Has(m, n, f) <=> Has(b, n, f) \/ \E i \in 1..k : Has(list[i], n, f)
  /\ \A n, f : Has(m, n, f) =>
       \/ \E i \in 1..k : Has(list[i], n, f) /\ m[n][f] = list[i][n][f]
       \/ Has(b, n, f) /\ m[n][f] = b[n][f] /\ \A i \in 1..k : ~Has(list[i], n, f)

LEMMA MergedMore ==
  ASSUME NEW b, NEW list, NEW k \in Nat \ {0}, NEW m, Merged(b, list, k - 1, m)
  PROVE  Merged(b, list, k, Merge(m, list[k]))
  <1> DEFINE r == Merge(m, list[k])
             p == list[k]
  <1>1. MergeOf(m, p, r)
    BY MergeIs
  <1> HIDE DEF r
  <1>2. /\ DOMAIN r = DOMAIN m \cup DOMAIN p
        /\ \A n, f : /\ Has(r, n, f) <=> Has(m, n, f) \/ Has(p, n, f)
                     /\ Has(p, n, f) => r[n][f] = p[n][f]
                     /\ Has(m, n, f) /\ ~Has(p, n, f) => r[n][f] = m[n][f]
    BY <1>1 DEF MergeOf
  <1>3. k \in 1..k /\ \A i : i \in 1..k <=> i \in 1..(k - 1) \/ i = k
    OBVIOUS
  <1>4. ASSUME NEW n PROVE n \in DOMAIN r <=> n \in DOMAIN b \/ \E i \in 1..k : n \in DOMAIN list[i]
    BY <1>2, <1>3 DEF Merged
  <1>5. ASSUME NEW n, NEW f
        PROVE  /\ Has(r, n, f) <=> Has(b, n, f) \/ \E i \in 1..k : Has(list[i], n, f)
               /\ Has(r, n, f) =>
                    \/ \E i \in 1..k : Has(list[i], n, f) /\ r[n][f] = list[i][n][f]
                    \/ Has(b, n, f) /\ r[n][f] = b[n][f] /\ \A i \in 1..k : ~Has(list[i], n, f)
    <2>1. Has(m, n, f) <=> Has(b, n, f) \/ \E i \in 1..(k - 1) : Has(list[i], n, f)
      BY DEF Merged
    <2>2. Has(r, n, f) <=> Has(b, n, f) \/ \E i \in 1..k : Has(list[i], n, f)
      BY <1>2, <1>3, <2>1
    <2>3. CASE Has(p, n, f)
      BY <1>2, <1>3, <2>2, <2>3
    <2>4. CASE Has(m, n, f) /\ ~Has(p, n, f)
      <3>1. r[n][f] = m[n][f]
        BY <1>2, <2>4
      <3>2. \/ \E i \in 1..(k - 1) : Has(list[i], n, f) /\ m[n][f] = list[i][n][f]
            \/ Has(b, n, f) /\ m[n][f] = b[n][f] /\ \A i \in 1..(k - 1) : ~Has(list[i], n, f)
        BY <2>4 DEF Merged
      <3> QED
        BY <1>3, <2>2, <2>4, <3>1, <3>2
    <2> QED
      BY <1>2, <2>2, <2>3, <2>4
  <1>6. Merged(b, list, k, r)
    BY <1>4, <1>5 DEF Merged
  <1> QED
    BY <1>6 DEF r

LEMMA MergeAllIs ==
  ASSUME NEW b, NEW list, Len(list) \in Nat
  PROVE  Merged(b, list, Len(list), MergeAll(b, list))
  <1> DEFINE N == Len(list)
             f == CHOOSE f : f = MergeTo(b, list, N, f)
  <1>1. f = MergeTo(b, list, N, f)
    BY MergeExists
  <1>2. MergeAll(b, list) = f[N]
    BY DEF MergeAll, MergeTo
  <1> HIDE DEF f, N
  <1>3. f[0] = b /\ \A i \in 1..N : f[i] = Merge(f[i - 1], list[i])
    BY <1>1 DEF MergeTo, N
  <1> DEFINE bad == {i \in 0..N : ~Merged(b, list, i, f[i])}
  <1>4. ASSUME NEW m \in bad, \A y \in bad : m <= y PROVE FALSE
    <2>1. Merged(b, list, 0, f[0])
      BY <1>3 DEF Merged
    <2>2. m # 0
      BY <2>1
    <2>a. N \in Nat /\ m \in 0..N
      BY DEF N
    <2>b. m - 1 \in 0..N /\ m \in 1..N /\ m \in Nat \ {0}
      BY <2>2, <2>a
    <2>3. m - 1 \in 0..N /\ m \in 1..N /\ m \in Nat \ {0} /\ m - 1 \notin bad
      <3> HIDE DEF bad
      <3>1. ~(m <= m - 1)
        BY <2>a
      <3> QED
        BY <1>4, <2>b, <3>1
    <2>4. Merged(b, list, m - 1, f[m - 1])
      BY <2>3
    <2>5. Merged(b, list, m, Merge(f[m - 1], list[m]))
      BY <2>3, <2>4, MergedMore
    <2> QED
      BY <1>3, <2>3, <2>5
  <1>5. bad = {}
    <2> HIDE DEF bad
    <2>1. bad \in SUBSET Nat
      BY DEF bad
    <2> QED
      BY <1>4, <2>1, LeastNat
  <1>6. N \in 0..N
    BY DEF N
  <1>7. Merged(b, list, N, f[N])
    BY <1>5, <1>6
  <1> QED
    BY <1>2, <1>7 DEF N

Concat(q, r, c) ==
  /\ Len(c) = Len(q) + Len(r)
  /\ \A i \in 1..Len(q) : c[i] = q[i]
  /\ \A i \in 1..Len(r) : c[Len(q) + i] = r[i]

LEMMA ConcatIs ==
  ASSUME NEW q, IsSeq(q), NEW r, IsSeq(r)
  PROVE  Concat(q, r, q \o r)
  <1> DEFINE T == {q[i] : i \in 1..Len(q)} \cup {r[i] : i \in 1..Len(r)}
  <1>1. \A i \in 1..Len(q) : q[i] \in T
    OBVIOUS
  <1>2. \A i \in 1..Len(r) : r[i] \in T
    OBVIOUS
  <1> HIDE DEF T
  <1>3. q \in Seq(T) /\ r \in Seq(T)
    BY <1>1, <1>2 DEF IsSeq
  <1> QED
    BY <1>3 DEF Concat


-----------------------------------------------------------------------------
(* What one transaction puts into a batch. *)

ArrivesAt(tx, i, n) == n \in tx.pages[i].after /\ n \notin tx.pages[i].before
LeavesAt(tx, i, n) ==
  tx.type = "NFTokenBurn" /\ n \in tx.pages[i].before /\ n \notin tx.pages[i].after
Arrives(tx, n) == \E i \in 1..Len(tx.pages) : ArrivesAt(tx, i, n)
Leaves(tx, n) == \E i \in 1..Len(tx.pages) : LeavesAt(tx, i, n)
Offered(tx, n) == \E i \in 1..Len(tx.offers) : tx.offers[i].offer[1] = n

MintOf(tx, seq) == IF tx.type = "NFTokenMint" THEN seq ELSE Null

PatchAt(tx, seq, i, p) ==
  /\ \A n : n \in DOMAIN p <=> ArrivesAt(tx, i, n) \/ LeavesAt(tx, i, n)
  /\ \A n : ArrivesAt(tx, i, n) =>
       /\ DOMAIN p[n] = {"owner", "mint", "live"}
       /\ p[n]["owner"] = tx.pages[i].owner /\ p[n]["mint"] = MintOf(tx, seq) /\ p[n]["live"] = TRUE
  /\ \A n : LeavesAt(tx, i, n) =>
       DOMAIN p[n] = {"burn", "live"} /\ p[n]["burn"] = seq /\ p[n]["live"] = FALSE

LEMMA PatchIs ==
  ASSUME NEW tx, NEW seq, NEW i
  PROVE  PatchAt(tx, seq, i, PagePatches(tx.pages[i], tx.type, seq))
  <1> DEFINE page == tx.pages[i]
             p == PagePatches(page, tx.type, seq)
             arrived == page.after \ page.before
             left == IF tx.type = "NFTokenBurn" THEN page.before \ page.after ELSE {}
  <1>1. p = [n \in arrived \cup left |->
               IF n \in arrived THEN Full(page.owner, tx.type = "NFTokenMint", seq) ELSE Gone(seq)]
    BY DEF PagePatches
  <1>2. \A n : n \in arrived <=> ArrivesAt(tx, i, n)
    BY DEF ArrivesAt
  <1>3. \A n : n \in left <=> LeavesAt(tx, i, n)
    BY DEF LeavesAt
  <1>4. \A n : ~(n \in arrived /\ n \in left)
    OBVIOUS
  <1> HIDE DEF p, arrived, left
  <1>5. \A n : n \in DOMAIN p <=> ArrivesAt(tx, i, n) \/ LeavesAt(tx, i, n)
    BY <1>1, <1>2, <1>3
  <1>6. ASSUME NEW n, ArrivesAt(tx, i, n)
        PROVE  /\ DOMAIN p[n] = {"owner", "mint", "live"}
               /\ p[n]["owner"] = tx.pages[i].owner /\ p[n]["mint"] = MintOf(tx, seq) /\ p[n]["live"] = TRUE
    <2>1. p[n] = Full(page.owner, tx.type = "NFTokenMint", seq)
      BY <1>1, <1>2, <1>6
    <2> QED
      BY <2>1 DEF Full, MintOf
  <1>7. ASSUME NEW n, LeavesAt(tx, i, n)
        PROVE  DOMAIN p[n] = {"burn", "live"} /\ p[n]["burn"] = seq /\ p[n]["live"] = FALSE
    <2>1. p[n] = Gone(seq)
      BY <1>1, <1>2, <1>3, <1>4, <1>7
    <2> QED
      BY <2>1 DEF Gone
  <1>8. PatchAt(tx, seq, i, p)
    BY <1>5, <1>6, <1>7 DEF PatchAt
  <1> QED
    BY <1>8 DEF p

StubAt(tx, j, p) ==
  \A n : /\ n \in DOMAIN p <=> tx.offers[j].offer[1] = n
         /\ n \in DOMAIN p => DOMAIN p[n] = {"live"} /\ p[n]["live"] = TRUE

ListsOk(tx) ==
  /\ Len(tx.pages) \in Nat /\ DOMAIN tx.pages = 1..Len(tx.pages)
  /\ Len(tx.offers) \in Nat /\ DOMAIN tx.offers = 1..Len(tx.offers)

TxPatched(tx, seq, list) ==
  /\ Len(list) = Len(tx.pages) + Len(tx.offers)
  /\ \A i \in 1..Len(tx.pages) : PatchAt(tx, seq, i, list[i])
  /\ \A j \in 1..Len(tx.offers) : StubAt(tx, j, list[Len(tx.pages) + j])

LEMMA FunctionSeq ==
  ASSUME NEW N \in Nat, NEW f, f = [i \in 1..N |-> f[i]]
  PROVE  IsSeq(f) /\ Len(f) = N
  <1> DEFINE T == {f[i] : i \in 1..N}
  <1>1. \A i \in 1..N : f[i] \in T
    OBVIOUS
  <1> HIDE DEF T
  <1>2. f \in Seq(T) /\ Len(f) = N
    BY <1>1
  <1> QED
    BY <1>2 DEF IsSeq

LEMMA TxPatchesAre ==
  ASSUME NEW tx, ListsOk(tx), NEW seq
  PROVE  TxPatched(tx, seq, TxPatches(tx, seq))
  <1> DEFINE P == Len(tx.pages)
             O == Len(tx.offers)
             q == [i \in DOMAIN tx.pages |-> PagePatches(tx.pages[i], tx.type, seq)]
             r == [i \in DOMAIN tx.offers |-> [n \in {tx.offers[i].offer[1]} |-> Stub]]
  <1>1. P \in Nat /\ O \in Nat /\ DOMAIN q = 1..P /\ DOMAIN r = 1..O
    BY DEF ListsOk
  <1>2. \A i \in 1..P : q[i] = PagePatches(tx.pages[i], tx.type, seq)
    BY <1>1
  <1>3. \A i \in 1..O : r[i] = [n \in {tx.offers[i].offer[1]} |-> Stub]
    BY <1>1
  <1>4. q = [i \in 1..P |-> q[i]] /\ r = [i \in 1..O |-> r[i]]
    BY <1>1
  <1>5. TxPatches(tx, seq) = q \o r
    BY DEF TxPatches
  <1> HIDE DEF q, r
  <1>6. IsSeq(q) /\ Len(q) = P /\ IsSeq(r) /\ Len(r) = O
    BY <1>1, <1>4, FunctionSeq
  <1> DEFINE list == q \o r
  <1>7. Len(list) = P + O /\ (\A i \in 1..P : list[i] = q[i]) /\ (\A i \in 1..O : list[P + i] = r[i])
    <2>1. Concat(q, r, list)
      BY <1>6, ConcatIs
    <2> HIDE DEF list
    <2> QED
      BY <1>6, <2>1 DEF Concat
  <1> HIDE DEF list
  <1>8. \A i \in 1..P : PatchAt(tx, seq, i, list[i])
    BY <1>2, <1>7, PatchIs
  <1>9. ASSUME NEW i \in 1..O PROVE StubAt(tx, i, list[P + i])
    <2>1. list[P + i] = [n \in {tx.offers[i].offer[1]} |-> Stub]
      BY <1>3, <1>7
    <2> QED
      BY <2>1 DEF StubAt, Stub
  <1>10. TxPatched(tx, seq, list)
    BY <1>7, <1>8, <1>9 DEF TxPatched
  <1> QED
    BY <1>5, <1>10 DEF list

\* The batch b becomes m by transaction tx.
SameField(b, m, n, f) == (Has(m, n, f) <=> Has(b, n, f)) /\ (Has(b, n, f) => m[n][f] = b[n][f])

OwnersSet(tx, b, m, seq) ==
  \A n : IF Arrives(tx, n)
         THEN /\ Has(m, n, "owner") /\ Has(m, n, "mint") /\ m[n]["mint"] = MintOf(tx, seq)
              /\ \E i \in 1..Len(tx.pages) : ArrivesAt(tx, i, n) /\ m[n]["owner"] = tx.pages[i].owner
         ELSE SameField(b, m, n, "owner") /\ SameField(b, m, n, "mint")

BurnsSet(tx, b, m, seq) ==
  \A n : IF Leaves(tx, n) THEN Has(m, n, "burn") /\ m[n]["burn"] = seq ELSE SameField(b, m, n, "burn")

LivesSet(tx, b, m) ==
  /\ \A n : Has(m, n, "live") =>
       \/ m[n]["live"] = TRUE
       \/ m[n]["live"] = FALSE /\ Leaves(tx, n)
       \/ Has(b, n, "live") /\ m[n]["live"] = b[n]["live"]
  /\ \A n : Leaves(tx, n) /\ ~Arrives(tx, n) /\ ~Offered(tx, n) =>
       Has(m, n, "live") /\ m[n]["live"] = FALSE

KeysSet(tx, b, m) ==
  \A n : n \in DOMAIN m <=> n \in DOMAIN b \/ Arrives(tx, n) \/ Leaves(tx, n) \/ Offered(tx, n)

TxEffect(tx, b, m, seq) ==
  /\ KeysSet(tx, b, m)
  /\ OwnersSet(tx, b, m, seq)
  /\ BurnsSet(tx, b, m, seq)
  /\ LivesSet(tx, b, m)

LEMMA TxEffectIs ==
  ASSUME NEW tx, ListsOk(tx), NEW seq, NEW b
  PROVE  TxEffect(tx, b, MergeAll(b, TxPatches(tx, seq)), seq)
  <1> DEFINE list == TxPatches(tx, seq)
             m == MergeAll(b, list)
             P == Len(tx.pages)
             O == Len(tx.offers)
             N == P + O
  <1>0. TxPatched(tx, seq, list)
    BY TxPatchesAre
  <1>1. /\ P \in Nat /\ O \in Nat /\ Len(list) = N
        /\ \A i \in 1..P : PatchAt(tx, seq, i, list[i])
        /\ \A j \in 1..O : StubAt(tx, j, list[P + j])
    BY <1>0 DEF TxPatched, ListsOk
  <1>2. Merged(b, list, N, m)
    <2>0. P \in Nat /\ O \in Nat /\ Len(list) = N
      BY <1>1
    <2>1. Len(list) \in Nat
      <3> HIDE DEF list, P, O
      <3> QED
        BY <2>0
    <2>2. Merged(b, list, Len(list), m)
      BY <2>1, MergeAllIs
    <2> QED
      BY <1>1, <2>2
  <1> HIDE DEF list, m, P, O
  <1>3. \A i : i \in 1..N <=> i \in 1..P \/ \E j \in 1..O : i = P + j
    <2>a. P \in Nat /\ O \in Nat
      BY <1>1
    <2> SUFFICES ASSUME NEW i, i \in 1..N, i \notin 1..P PROVE \E j \in 1..O : i = P + j
      BY <2>a
    <2>0. P \in Nat /\ O \in Nat
      BY <1>1
    <2>1. i - P \in 1..O /\ i = P + (i - P)
      BY <2>0
    <2> QED
      BY <2>1
  <1>4. ASSUME NEW i \in 1..P, NEW n
        PROVE  /\ n \in DOMAIN list[i] <=> ArrivesAt(tx, i, n) \/ LeavesAt(tx, i, n)
               /\ Has(list[i], n, "owner") <=> ArrivesAt(tx, i, n)
               /\ Has(list[i], n, "mint") <=> ArrivesAt(tx, i, n)
               /\ Has(list[i], n, "burn") <=> LeavesAt(tx, i, n)
               /\ Has(list[i], n, "live") <=> ArrivesAt(tx, i, n) \/ LeavesAt(tx, i, n)
               /\ ArrivesAt(tx, i, n) => /\ list[i][n]["owner"] = tx.pages[i].owner
                                         /\ list[i][n]["mint"] = MintOf(tx, seq)
                                         /\ list[i][n]["live"] = TRUE
               /\ LeavesAt(tx, i, n) => list[i][n]["burn"] = seq /\ list[i][n]["live"] = FALSE
    <2>1. PatchAt(tx, seq, i, list[i])
      BY <1>1
    <2>2. ~(ArrivesAt(tx, i, n) /\ LeavesAt(tx, i, n))
      BY DEF ArrivesAt, LeavesAt
    <2> QED
      BY <2>1, <2>2 DEF PatchAt, Has
  <1>5. ASSUME NEW j \in 1..O, NEW n
        PROVE  /\ n \in DOMAIN list[P + j] <=> tx.offers[j].offer[1] = n
               /\ ~Has(list[P + j], n, "owner") /\ ~Has(list[P + j], n, "mint") /\ ~Has(list[P + j], n, "burn")
               /\ Has(list[P + j], n, "live") <=> tx.offers[j].offer[1] = n
               /\ Has(list[P + j], n, "live") => list[P + j][n]["live"] = TRUE
    <2>1. StubAt(tx, j, list[P + j])
      BY <1>1
    <2> QED
      BY <2>1 DEF StubAt, Has
  <1>6. /\ \A n : Arrives(tx, n) <=> \E i \in 1..P : ArrivesAt(tx, i, n)
        /\ \A n : Leaves(tx, n) <=> \E i \in 1..P : LeavesAt(tx, i, n)
        /\ \A n : Offered(tx, n) <=> \E j \in 1..O : tx.offers[j].offer[1] = n
    BY DEF Arrives, Leaves, Offered, P, O
  <1>7. ASSUME NEW n
        PROVE  n \in DOMAIN m <=> n \in DOMAIN b \/ Arrives(tx, n) \/ Leaves(tx, n) \/ Offered(tx, n)
    <2>1. n \in DOMAIN m <=> n \in DOMAIN b \/ \E i \in 1..N : n \in DOMAIN list[i]
      BY <1>2 DEF Merged
    <2>2. (\E i \in 1..N : n \in DOMAIN list[i]) <=>
            (\E i \in 1..P : n \in DOMAIN list[i]) \/ (\E j \in 1..O : n \in DOMAIN list[P + j])
      BY <1>3
    <2>3. (\E i \in 1..P : n \in DOMAIN list[i]) <=> Arrives(tx, n) \/ Leaves(tx, n)
      BY <1>4, <1>6
    <2>4. (\E j \in 1..O : n \in DOMAIN list[P + j]) <=> Offered(tx, n)
      BY <1>5, <1>6
    <2> QED
      BY <2>1, <2>2, <2>3, <2>4
  <1>8. ASSUME NEW n, NEW f
        PROVE  /\ Has(m, n, f) <=> \/ Has(b, n, f) \/ (\E i \in 1..P : Has(list[i], n, f))
                                   \/ (\E j \in 1..O : Has(list[P + j], n, f))
               /\ Has(m, n, f) =>
                    \/ \E i \in 1..P : Has(list[i], n, f) /\ m[n][f] = list[i][n][f]
                    \/ \E j \in 1..O : Has(list[P + j], n, f) /\ m[n][f] = list[P + j][n][f]
                    \/ /\ Has(b, n, f) /\ m[n][f] = b[n][f]
                       /\ \A i \in 1..P : ~Has(list[i], n, f)
                       /\ \A j \in 1..O : ~Has(list[P + j], n, f)
    <2>1. /\ Has(m, n, f) <=> Has(b, n, f) \/ \E i \in 1..N : Has(list[i], n, f)
          /\ Has(m, n, f) =>
               \/ \E i \in 1..N : Has(list[i], n, f) /\ m[n][f] = list[i][n][f]
               \/ Has(b, n, f) /\ m[n][f] = b[n][f] /\ \A i \in 1..N : ~Has(list[i], n, f)
      BY <1>2 DEF Merged
    <2> QED
      BY <1>3, <2>1
  <1>9. OwnersSet(tx, b, m, seq)
    <2> SUFFICES ASSUME NEW n
                 PROVE  IF Arrives(tx, n)
                        THEN /\ Has(m, n, "owner") /\ Has(m, n, "mint") /\ m[n]["mint"] = MintOf(tx, seq)
                             /\ \E i \in 1..P : ArrivesAt(tx, i, n) /\ m[n]["owner"] = tx.pages[i].owner
                        ELSE SameField(b, m, n, "owner") /\ SameField(b, m, n, "mint")
      BY DEF OwnersSet, P
    <2>1. CASE Arrives(tx, n)
      <3>1. PICK i \in 1..P : ArrivesAt(tx, i, n)
        BY <1>6, <2>1
      <3>2. Has(m, n, "owner") /\ Has(m, n, "mint")
        BY <1>4, <1>8, <3>1
      <3>3. \E k \in 1..P : ArrivesAt(tx, k, n) /\ m[n]["owner"] = tx.pages[k].owner
        <4>1. \E k \in 1..P : Has(list[k], n, "owner") /\ m[n]["owner"] = list[k][n]["owner"]
          BY <1>4, <1>5, <1>8, <3>1, <3>2
        <4> QED
          BY <1>4, <4>1
      <3>4. m[n]["mint"] = MintOf(tx, seq)
        <4>1. \E k \in 1..P : Has(list[k], n, "mint") /\ m[n]["mint"] = list[k][n]["mint"]
          BY <1>4, <1>5, <1>8, <3>1, <3>2
        <4> QED
          BY <1>4, <4>1
      <3> QED
        BY <2>1, <3>2, <3>3, <3>4
    <2>2. CASE ~Arrives(tx, n)
      <3>1. \A i \in 1..P : ~Has(list[i], n, "owner") /\ ~Has(list[i], n, "mint")
        BY <1>4, <1>6, <2>2
      <3>2. SameField(b, m, n, "owner")
        BY <1>5, <1>8, <3>1 DEF SameField
      <3>3. SameField(b, m, n, "mint")
        BY <1>5, <1>8, <3>1 DEF SameField
      <3> QED
        BY <2>2, <3>2, <3>3
    <2> QED
      BY <2>1, <2>2
  <1>10. BurnsSet(tx, b, m, seq)
    <2> SUFFICES ASSUME NEW n
                 PROVE  IF Leaves(tx, n) THEN Has(m, n, "burn") /\ m[n]["burn"] = seq
                        ELSE SameField(b, m, n, "burn")
      BY DEF BurnsSet
    <2>1. CASE Leaves(tx, n)
      <3>1. PICK i \in 1..P : LeavesAt(tx, i, n)
        BY <1>6, <2>1
      <3>2. Has(m, n, "burn")
        BY <1>4, <1>8, <3>1
      <3>3. \E k \in 1..P : Has(list[k], n, "burn") /\ m[n]["burn"] = list[k][n]["burn"]
        BY <1>4, <1>5, <1>8, <3>1, <3>2
      <3>4. m[n]["burn"] = seq
        BY <1>4, <3>3
      <3> QED
        BY <2>1, <3>2, <3>4
    <2>2. CASE ~Leaves(tx, n)
      <3>1. \A i \in 1..P : ~Has(list[i], n, "burn")
        BY <1>4, <1>6, <2>2
      <3>2. SameField(b, m, n, "burn")
        BY <1>5, <1>8, <3>1 DEF SameField
      <3> QED
        BY <2>2, <3>2
    <2> QED
      BY <2>1, <2>2
  <1>11. LivesSet(tx, b, m)
    <2>1. ASSUME NEW n, Has(m, n, "live")
          PROVE  \/ m[n]["live"] = TRUE
                 \/ m[n]["live"] = FALSE /\ Leaves(tx, n)
                 \/ Has(b, n, "live") /\ m[n]["live"] = b[n]["live"]
      <3>1. CASE \E i \in 1..P : Has(list[i], n, "live") /\ m[n]["live"] = list[i][n]["live"]
        BY <1>4, <1>6, <3>1
      <3>2. CASE \E j \in 1..O : Has(list[P + j], n, "live") /\ m[n]["live"] = list[P + j][n]["live"]
        BY <1>5, <3>2
      <3> QED
        BY <1>8, <2>1, <3>1, <3>2
    <2>2. ASSUME NEW n, Leaves(tx, n), ~Arrives(tx, n), ~Offered(tx, n)
          PROVE  Has(m, n, "live") /\ m[n]["live"] = FALSE
      <3>1. PICK i \in 1..P : LeavesAt(tx, i, n)
        BY <1>6, <2>2
      <3>2. Has(m, n, "live") /\ Has(list[i], n, "live")
        BY <1>4, <1>8, <3>1
      <3>3. \A j \in 1..O : ~Has(list[P + j], n, "live")
        BY <1>5, <1>6, <2>2
      <3>4. \E k \in 1..P : Has(list[k], n, "live") /\ m[n]["live"] = list[k][n]["live"]
        BY <1>8, <3>2, <3>3
      <3>5. \A k \in 1..P : ~ArrivesAt(tx, k, n)
        BY <1>6, <2>2
      <3> QED
        BY <1>4, <3>2, <3>4, <3>5
    <2> QED
      BY <2>1, <2>2 DEF LivesSet
  <1>12. TxEffect(tx, b, m, seq)
    BY <1>7, <1>9, <1>10, <1>11 DEF TxEffect, KeysSet
  <1> QED
    BY <1>12 DEF m, list


-----------------------------------------------------------------------------
(* What the transactions of one ledger put into its batch. *)

\* By transactions that lead from s to t.
OwnersOk(s, t, b) ==
  \A n \in DOMAIN t.held :
    IF Has(b, n, "owner") THEN b[n]["owner"] = t.held[n][1]
    ELSE n \in DOMAIN s.held /\ s.held[n][1] = t.held[n][1]

KeysOk(s, t, b) == \A n \in DOMAIN b : n \in DOMAIN t.held \cup t.burned /\ n \notin s.burned

FieldsOk(b, seq) ==
  \A n : /\ Has(b, n, "owner") => b[n]["owner"] \in Owners
         /\ Has(b, n, "mint") => b[n]["mint"] \in {Null, seq}
         /\ Has(b, n, "burn") => b[n]["burn"] = seq
         /\ Has(b, n, "live") => b[n]["live"] = TRUE \/ (b[n]["live"] = FALSE /\ Has(b, n, "burn"))

Grows(s, t) ==
  /\ s.burned \subseteq t.burned /\ DOMAIN s.held \subseteq DOMAIN t.held \cup t.burned
  /\ s.done \subseteq t.done /\ s.open \subseteq t.open \cup t.done

BatchOk(s, t, b, seq) == Grows(s, t) /\ OwnersOk(s, t, b) /\ KeysOk(s, t, b) /\ FieldsOk(b, seq)

LEMMA TxBatch ==
  ASSUME NEW s, NEW u, NEW t, NEW b, NEW m, NEW tx, NEW seq,
         BatchOk(s, u, b, seq), StateOk(u), TxOk(u, tx, t), TxEffect(tx, b, m, seq)
  PROVE  BatchOk(s, t, m, seq)
  <1>1. /\ u.burned \subseteq t.burned /\ DOMAIN u.held \subseteq DOMAIN t.held \cup t.burned
        /\ u.done \subseteq t.done /\ u.open \subseteq t.open \cup t.done
        /\ t.burned \cap DOMAIN t.held = {} /\ u.burned \cap DOMAIN u.held = {}
    BY DEF TxOk, OffersOk, StateOk
  <1>2. Grows(s, t)
    BY <1>1 DEF BatchOk, Grows
  <1>3. /\ \A n : Arrives(tx, n) => n \in DOMAIN t.held
        /\ \A n \in DOMAIN t.held : ~Arrives(tx, n) => n \in DOMAIN u.held /\ t.held[n] = u.held[n]
        /\ \A i \in 1..Len(tx.pages) : /\ tx.pages[i].owner \in Owners
                                       /\ \A n : ArrivesAt(tx, i, n) => t.held[n][1] = tx.pages[i].owner
        /\ \A n : Leaves(tx, n) => n \in DOMAIN u.held
    BY DEF TxOk, NodesOk, ArrivesIn, Arrives, ArrivesAt, Leaves, LeavesAt
  <1>4. \A n : Offered(tx, n) => n \in DOMAIN u.held
    BY DEF TxOk, OffersOk, OfferNodeOk, Offered
  <1>5. KeysSet(tx, b, m) /\ OwnersSet(tx, b, m, seq) /\ BurnsSet(tx, b, m, seq) /\ LivesSet(tx, b, m)
    BY DEF TxEffect
  <1>6. OwnersOk(s, t, m)
    <2> SUFFICES ASSUME NEW n \in DOMAIN t.held
                 PROVE  IF Has(m, n, "owner") THEN m[n]["owner"] = t.held[n][1]
                        ELSE n \in DOMAIN s.held /\ s.held[n][1] = t.held[n][1]
      BY DEF OwnersOk
    <2>1. CASE Arrives(tx, n)
      <3>1. /\ Has(m, n, "owner")
            /\ \E i \in 1..Len(tx.pages) : ArrivesAt(tx, i, n) /\ m[n]["owner"] = tx.pages[i].owner
        BY <1>5, <2>1 DEF OwnersSet
      <3> QED
        BY <1>3, <3>1
    <2>2. CASE ~Arrives(tx, n)
      <3>1. SameField(b, m, n, "owner")
        BY <1>5, <2>2 DEF OwnersSet
      <3>2. n \in DOMAIN u.held /\ t.held[n] = u.held[n]
        BY <1>3, <2>2
      <3>3. IF Has(b, n, "owner") THEN b[n]["owner"] = u.held[n][1]
            ELSE n \in DOMAIN s.held /\ s.held[n][1] = u.held[n][1]
        BY <3>2 DEF BatchOk, OwnersOk
      <3> QED
        BY <3>1, <3>2, <3>3 DEF SameField
    <2> QED
      BY <2>1, <2>2
  <1>7. KeysOk(s, t, m)
    <2> SUFFICES ASSUME NEW n \in DOMAIN m PROVE n \in DOMAIN t.held \cup t.burned /\ n \notin s.burned
      BY DEF KeysOk
    <2>1. n \in DOMAIN b \/ Arrives(tx, n) \/ Leaves(tx, n) \/ Offered(tx, n)
      BY <1>5 DEF KeysSet
    <2>2. s.burned \subseteq u.burned
      BY DEF BatchOk, Grows
    <2>3. CASE n \in DOMAIN b
      BY <1>1, <2>3 DEF BatchOk, KeysOk
    <2> QED
      BY <1>1, <1>3, <1>4, <2>1, <2>2, <2>3
  <1>8. FieldsOk(m, seq)
    <2> SUFFICES ASSUME NEW n
                 PROVE  /\ Has(m, n, "owner") => m[n]["owner"] \in Owners
                        /\ Has(m, n, "mint") => m[n]["mint"] \in {Null, seq}
                        /\ Has(m, n, "burn") => m[n]["burn"] = seq
                        /\ Has(m, n, "live") => \/ m[n]["live"] = TRUE
                                                \/ m[n]["live"] = FALSE /\ Has(m, n, "burn")
      BY DEF FieldsOk
    <2>0. /\ Has(b, n, "owner") => b[n]["owner"] \in Owners
          /\ Has(b, n, "mint") => b[n]["mint"] \in {Null, seq}
          /\ Has(b, n, "burn") => b[n]["burn"] = seq
          /\ Has(b, n, "live") => \/ b[n]["live"] = TRUE
                                  \/ b[n]["live"] = FALSE /\ Has(b, n, "burn")
      BY DEF BatchOk, FieldsOk
    <2>1. (Has(m, n, "owner") => m[n]["owner"] \in Owners) /\ (Has(m, n, "mint") => m[n]["mint"] \in {Null, seq})
      <3>1. CASE Arrives(tx, n)
        <4>1. /\ m[n]["mint"] = MintOf(tx, seq)
              /\ \E i \in 1..Len(tx.pages) : ArrivesAt(tx, i, n) /\ m[n]["owner"] = tx.pages[i].owner
          BY <1>5, <3>1 DEF OwnersSet
        <4> QED
          BY <1>3, <4>1 DEF MintOf
      <3>2. CASE ~Arrives(tx, n)
        <4>1. SameField(b, m, n, "owner") /\ SameField(b, m, n, "mint")
          BY <1>5, <3>2 DEF OwnersSet
        <4> QED
          BY <2>0, <4>1 DEF SameField
      <3> QED
        BY <3>1, <3>2
    <2>2. (Has(m, n, "burn") => m[n]["burn"] = seq) /\ (Leaves(tx, n) => Has(m, n, "burn"))
          /\ (Has(b, n, "burn") => Has(m, n, "burn"))
      <3>1. IF Leaves(tx, n) THEN Has(m, n, "burn") /\ m[n]["burn"] = seq ELSE SameField(b, m, n, "burn")
        BY <1>5 DEF BurnsSet
      <3> QED
        BY <2>0, <3>1 DEF SameField
    <2>3. Has(m, n, "live") => \/ m[n]["live"] = TRUE
                               \/ m[n]["live"] = FALSE /\ Leaves(tx, n)
                               \/ Has(b, n, "live") /\ m[n]["live"] = b[n]["live"]
      BY <1>5 DEF LivesSet
    <2> QED
      BY <2>0, <2>1, <2>2, <2>3
  <1> QED
    BY <1>2, <1>6, <1>7, <1>8 DEF BatchOk

NftBatchTo(txs, seq, n, f) ==
  [i \in 0..n |-> IF i = 0 THEN <<>> ELSE MergeAll(f[i - 1], TxPatches(txs[i], seq))]

LEMMA NftBatchExists ==
  ASSUME NEW txs, NEW seq, NEW n \in Nat
  PROVE  \E f : f = NftBatchTo(txs, seq, n, f)
  <1> DEFINE bad == {m \in Nat : ~\E f : f = NftBatchTo(txs, seq, m, f)}
  <1>1. ASSUME NEW m \in bad, \A y \in bad : m <= y PROVE FALSE
    <2>1. CASE m = 0
      <3> DEFINE f == [i \in 0..0 |-> <<>>]
      <3>1. f = NftBatchTo(txs, seq, 0, f)
        BY DEF NftBatchTo
      <3> QED
        BY <2>1, <3>1
    <2>2. CASE m # 0
      <3>1. m - 1 \in Nat /\ m - 1 \notin bad
        BY <1>1, <2>2
      <3>2. PICK g : g = NftBatchTo(txs, seq, m - 1, g)
        BY <3>1
      <3>3. \A i \in 0..(m - 1) : g[i] = IF i = 0 THEN <<>> ELSE MergeAll(g[i - 1], TxPatches(txs[i], seq))
        BY <3>2 DEF NftBatchTo
      <3> DEFINE f == [i \in 0..m |-> IF i < m THEN g[i] ELSE MergeAll(g[m - 1], TxPatches(txs[m], seq))]
      <3>4. \A i \in 0..m : f[i] = IF i = 0 THEN <<>> ELSE MergeAll(f[i - 1], TxPatches(txs[i], seq))
        BY <2>2, <3>1, <3>3
      <3>5. f = [i \in 0..m |-> f[i]]
        OBVIOUS
      <3> HIDE DEF f
      <3>6. f = NftBatchTo(txs, seq, m, f)
        BY <3>4, <3>5 DEF NftBatchTo
      <3> QED
        BY <3>6
    <2> QED
      BY <2>1, <2>2
  <1>2. bad = {}
    <2> HIDE DEF bad
    <2>1. bad \in SUBSET Nat
      BY DEF bad
    <2> QED
      BY <1>1, <2>1, LeastNat
  <1> QED
    BY <1>2

LEMMA TxListsOk ==
  ASSUME NEW s, NEW tx, NEW t, TxOk(s, tx, t)
  PROVE  ListsOk(tx)
  BY DEF TxOk, NodesOk, OffersOk, ListsOk

\* The batches between the transactions.
Batches(txs, seq, f) ==
  /\ f[0] = <<>> /\ NftBatch(txs, seq) = f[Len(txs)]
  /\ \A i \in 1..Len(txs) : f[i] = MergeAll(f[i - 1], TxPatches(txs[i], seq))

LEMMA Batching ==
  ASSUME NEW txs, Len(txs) \in Nat, NEW seq
  PROVE  \E f : Batches(txs, seq, f)
  <1> DEFINE N == Len(txs)
             f == CHOOSE f : f = NftBatchTo(txs, seq, N, f)
  <1>1. f = NftBatchTo(txs, seq, N, f)
    BY NftBatchExists
  <1>2. NftBatch(txs, seq) = f[N]
    BY DEF NftBatch, NftBatchTo
  <1> HIDE DEF f
  <1>3. f[0] = <<>> /\ \A i \in 1..N : f[i] = MergeAll(f[i - 1], TxPatches(txs[i], seq))
    BY <1>1 DEF NftBatchTo
  <1>4. Batches(txs, seq, f)
    BY <1>2, <1>3 DEF Batches
  <1> QED
    BY <1>4

LEMMA StepOk ==
  ASSUME NEW s, NEW txs, NEW t, NEW st, Through(s, txs, t, st), NEW i \in 1..Len(txs), Len(txs) \in Nat
  PROVE  StateOk(st[i - 1]) /\ TxOk(st[i - 1], txs[i], st[i])
  <1>1. i - 1 \in 0..Len(txs)
    OBVIOUS
  <1>2. StateOk(st[i - 1])
    BY <1>1 DEF Through
  <1>3. PICK x \in Outcomes(st[i - 1]) : txs[i] = x.tx /\ st[i] = x.post
    BY DEF Through
  <1>4. TxOk(st[i - 1], x.tx, x.post)
    BY <1>2, OutcomeOk
  <1> QED
    BY <1>2, <1>3, <1>4

LEMMA BatchIs ==
  ASSUME NEW s, NEW txs, NEW t, Follows(s, txs, t), NEW seq
  PROVE  BatchOk(s, t, NftBatch(txs, seq), seq)
  <1> DEFINE N == Len(txs)
  <1>1. N \in Nat
    BY DEF Follows, IsSeq
  <1>2. PICK st : Through(s, txs, t, st)
    BY DEF Follows
  <1>3. PICK f : Batches(txs, seq, f)
    BY <1>1, Batching
  <1>4. /\ f[0] = <<>> /\ NftBatch(txs, seq) = f[N] /\ st[0] = s /\ st[N] = t
        /\ \A i \in 1..N : f[i] = MergeAll(f[i - 1], TxPatches(txs[i], seq))
    BY <1>2, <1>3 DEF Batches, Through
  <1> DEFINE bad == {i \in 0..N : ~BatchOk(s, st[i], f[i], seq)}
  <1>5. ASSUME NEW m \in bad, \A y \in bad : m <= y PROVE FALSE
    <2>1. BatchOk(s, st[0], f[0], seq)
      <3>1. BatchOk(s, s, <<>>, seq)
        BY DEF BatchOk, Grows, OwnersOk, KeysOk, FieldsOk, Has
      <3> QED
        BY <1>4, <3>1
    <2>2. m # 0
      BY <2>1
    <2>3. m - 1 \in 0..N /\ m \in 1..N /\ m - 1 \notin bad
      <3>1. m \in 0..N
        OBVIOUS
      <3> HIDE DEF bad, N
      <3>2. ~(m <= m - 1)
        BY <1>1, <3>1
      <3> QED
        BY <1>1, <1>5, <2>2, <3>1, <3>2
    <2>4. BatchOk(s, st[m - 1], f[m - 1], seq)
      BY <2>3
    <2>5. StateOk(st[m - 1]) /\ TxOk(st[m - 1], txs[m], st[m])
      BY <1>1, <1>2, <2>3, StepOk
    <2>6. TxEffect(txs[m], f[m - 1], f[m], seq)
      <3>1. ListsOk(txs[m])
        BY <2>5, TxListsOk
      <3>2. TxEffect(txs[m], f[m - 1], MergeAll(f[m - 1], TxPatches(txs[m], seq)), seq)
        BY <3>1, TxEffectIs
      <3> QED
        BY <1>4, <2>3, <3>2
    <2>7. BatchOk(s, st[m], f[m], seq)
      BY <2>4, <2>5, <2>6, TxBatch
    <2> QED
      BY <2>7
  <1>6. bad = {}
    <2> HIDE DEF bad
    <2>1. bad \in SUBSET Nat
      BY DEF bad
    <2> QED
      BY <1>5, <2>1, LeastNat
  <1>7. N \in 0..N
    BY <1>1
  <1>8. BatchOk(s, st[N], f[N], seq)
    BY <1>6, <1>7
  <1> QED
    BY <1>4, <1>8


-----------------------------------------------------------------------------
(* What they put into it about offers. *)

LEMMA GrowsBetween ==
  ASSUME NEW s, NEW txs, NEW t, NEW st, Through(s, txs, t, st), Len(txs) \in Nat,
         NEW i \in 0..Len(txs), NEW j \in i..Len(txs)
  PROVE  Grows(st[i], st[j])
  <1> DEFINE N == Len(txs)
             bad == {k \in i..N : ~Grows(st[i], st[k])}
  <1>1. ASSUME NEW m \in bad, \A y \in bad : m <= y PROVE FALSE
    <2>0. N \in Nat /\ i \in Nat /\ m \in i..N
      OBVIOUS
    <2>1. Grows(st[i], st[i])
      BY DEF Grows
    <2>2. m # i
      BY <2>1
    <2>3. m - 1 \in i..N /\ m \in 1..N /\ m - 1 \notin bad
      <3> HIDE DEF bad, N
      <3>1. ~(m <= m - 1)
        BY <2>0
      <3> QED
        BY <1>1, <2>0, <2>2, <3>1
    <2>4. Grows(st[i], st[m - 1])
      BY <2>3
    <2>5. TxOk(st[m - 1], txs[m], st[m])
      BY <2>0, <2>3, StepOk
    <2>6. Grows(st[m - 1], st[m])
      BY <2>5 DEF TxOk, OffersOk, Grows
    <2>7. Grows(st[i], st[m])
      BY <2>4, <2>6 DEF Grows
    <2> QED
      BY <2>7
  <1>2. bad = {}
    <2> HIDE DEF bad
    <2>1. bad \in SUBSET Nat
      BY DEF bad
    <2> QED
      BY <1>1, <2>1, LeastNat
  <1> QED
    BY <1>2

NodeIn(txs, x) == \E i \in 1..Len(txs) : \E j \in 1..Len(txs[i].offers) : txs[i].offers[j] = x

OfferBatchOk(s, t, b, seq) ==
  /\ \A o \in DOMAIN b :
       /\ o \in Offers /\ o \notin s.done /\ o \in t.open \cup t.done
       /\ b[o] = [created |-> seq, closed |-> IF o \in t.done THEN seq ELSE Null]
  /\ \A o \in t.done : o \notin s.done => o \in DOMAIN b
  /\ \A o \in t.open : o \notin s.open => o \in DOMAIN b

LEMMA OfferBatchIs ==
  ASSUME NEW s, NEW txs, NEW t, Follows(s, txs, t), NEW seq
  PROVE  OfferBatchOk(s, t, OfferBatch(txs, seq), seq)
  <1> DEFINE N == Len(txs)
             b == OfferBatch(txs, seq)
  <1>1. N \in Nat /\ DOMAIN txs = 1..N
    BY DEF Follows, IsSeq
  <1>2. PICK st : Through(s, txs, t, st)
    BY DEF Follows
  <1>3. st[0] = s /\ st[N] = t /\ 0 \in 0..N /\ N \in 0..N
    BY <1>1, <1>2 DEF Through
  <1>4. \A i \in 1..N : StateOk(st[i - 1]) /\ TxOk(st[i - 1], txs[i], st[i])
    BY <1>1, <1>2, StepOk
  <1>5. \A i \in 0..N : Grows(s, st[i]) /\ Grows(st[i], t)
    <2> SUFFICES ASSUME NEW i \in 0..N PROVE Grows(s, st[i]) /\ Grows(st[i], t)
      OBVIOUS
    <2>1. i \in 0..N /\ 0 \in 0..N /\ N \in i..N
      BY <1>1
    <2>2. Grows(st[0], st[i])
      BY <1>1, <1>2, <2>1, GrowsBetween
    <2>3. Grows(st[i], st[N])
      BY <1>1, <1>2, <2>1, GrowsBetween
    <2> QED
      BY <1>3, <2>2, <2>3
  <1>6. \A x : x \in OfferNodes(txs) <=> NodeIn(txs, x)
    <2>1. \A i \in 1..N : DOMAIN txs[i].offers = 1..Len(txs[i].offers)
      BY <1>4 DEF TxOk, OffersOk
    <2> SUFFICES ASSUME NEW x PROVE x \in OfferNodes(txs) <=> NodeIn(txs, x)
      OBVIOUS
    <2>2. x \in OfferNodes(txs) <=> \E i \in 1..N : x \in ToSet(txs[i].offers)
      BY <1>1 DEF OfferNodes
    <2> QED
      BY <2>1, <2>2 DEF ToSet, NodeIn
  <1>7. ASSUME NEW x, NodeIn(txs, x)
        PROVE  /\ x.offer \in Offers /\ x.offer \notin s.done /\ x.offer \in t.open \cup t.done
               /\ x = Node(x.offer, "deleted") => x.offer \in t.done
    <2>1. PICK i \in 1..N : \E j \in 1..Len(txs[i].offers) : txs[i].offers[j] = x
      BY <1>7 DEF NodeIn
    <2>2. OfferNodeOk(st[i - 1], x, st[i])
      BY <1>4, <2>1 DEF TxOk, OffersOk
    <2>3. i - 1 \in 0..N /\ i \in 0..N
      BY <1>1
    <2>4. Grows(s, st[i - 1]) /\ Grows(st[i], t)
      BY <1>5, <2>3
    <2>5. st[i - 1].open \cap st[i - 1].done = {}
      BY <1>4 DEF StateOk
    <2>6. x = Node(x.offer, "deleted") => x # Node(x.offer, "created")
      BY DEF Node
    <2> QED
      BY <2>2, <2>4, <2>5, <2>6 DEF OfferNodeOk, Grows
  <1>8. ASSUME NEW o \in t.done, o \notin s.done PROVE NodeIn(txs, Node(o, "deleted"))
    <2> DEFINE T == {i \in 0..N : o \in st[i].done}
    <2>1. PICK i \in T : \A y \in T : i <= y
      <3>1. N \in T
        BY <1>3
      <3>2. T \in SUBSET Nat
        OBVIOUS
      <3> HIDE DEF T
      <3> QED
        BY <3>1, <3>2, LeastNat
    <2>2. i # 0
      BY <1>3, <1>8
    <2>3. i \in 1..N /\ i - 1 \in 0..N /\ i - 1 \notin T
      <3>0. i \in 0..N
        OBVIOUS
      <3> HIDE DEF T, N
      <3>1. ~(i <= i - 1)
        BY <1>1, <3>0
      <3> QED
        BY <1>1, <2>1, <2>2, <3>0, <3>1
    <2>4. o \in st[i].done /\ o \notin st[i - 1].done
      BY <2>3
    <2>5. TxOk(st[i - 1], txs[i], st[i])
      BY <1>4, <2>3
    <2>6. \E j \in 1..Len(txs[i].offers) : txs[i].offers[j] = Node(o, "deleted")
      BY <2>4, <2>5 DEF TxOk, OffersOk
    <2> QED
      BY <2>3, <2>6 DEF NodeIn
  <1>9. ASSUME NEW o \in t.open, o \notin s.open PROVE NodeIn(txs, Node(o, "created"))
    <2> DEFINE T == {i \in 0..N : o \in st[i].open}
    <2>1. PICK i \in T : \A y \in T : i <= y
      <3>1. N \in T
        BY <1>3
      <3>2. T \in SUBSET Nat
        OBVIOUS
      <3> HIDE DEF T
      <3> QED
        BY <3>1, <3>2, LeastNat
    <2>2. i # 0
      BY <1>3, <1>9
    <2>3. i \in 1..N /\ i - 1 \in 0..N /\ i - 1 \notin T
      <3>0. i \in 0..N
        OBVIOUS
      <3> HIDE DEF T, N
      <3>1. ~(i <= i - 1)
        BY <1>1, <3>0
      <3> QED
        BY <1>1, <2>1, <2>2, <3>0, <3>1
    <2>4. o \in st[i].open /\ o \notin st[i - 1].open
      BY <2>3
    <2>5. TxOk(st[i - 1], txs[i], st[i])
      BY <1>4, <2>3
    <2>6. \E j \in 1..Len(txs[i].offers) : txs[i].offers[j] = Node(o, "created")
      BY <2>4, <2>5 DEF TxOk, OffersOk
    <2> QED
      BY <2>3, <2>6 DEF NodeIn
  <1>10. /\ DOMAIN b = {x.offer : x \in OfferNodes(txs)}
         /\ \A o \in DOMAIN b : b[o] = [created |-> seq,
                                        closed |-> IF Node(o, "deleted") \in OfferNodes(txs) THEN seq ELSE Null]
    BY DEF OfferBatch
  <1> HIDE DEF b
  <1>11. \A o : Node(o, "deleted").offer = o /\ Node(o, "created").offer = o
    BY DEF Node
  <1>12. ASSUME NEW o \in DOMAIN b
         PROVE  /\ o \in Offers /\ o \notin s.done /\ o \in t.open \cup t.done
                /\ b[o] = [created |-> seq, closed |-> IF o \in t.done THEN seq ELSE Null]
    <2>1. PICK x \in OfferNodes(txs) : o = x.offer
      BY <1>10
    <2>2. o \in Offers /\ o \notin s.done /\ o \in t.open \cup t.done
      BY <1>6, <1>7, <2>1
    <2>3. Node(o, "deleted") \in OfferNodes(txs) <=> o \in t.done
      <3>1. NodeIn(txs, Node(o, "deleted")) => o \in t.done
        <4> DEFINE y == Node(o, "deleted")
        <4>1. y.offer = o /\ y = Node(y.offer, "deleted")
          BY <1>11
        <4> HIDE DEF y
        <4>2. NodeIn(txs, y) => o \in t.done
          BY <1>7, <4>1
        <4> QED
          BY <4>2 DEF y
      <3> QED
        BY <1>6, <1>8, <2>2, <3>1
    <2> QED
      BY <1>10, <2>2, <2>3
  <1>13. ASSUME NEW o, \/ NodeIn(txs, Node(o, "deleted")) \/ NodeIn(txs, Node(o, "created")) PROVE o \in DOMAIN b
    BY <1>6, <1>10, <1>11, <1>13
  <1>14. OfferBatchOk(s, t, b, seq)
    BY <1>8, <1>9, <1>12, <1>13 DEF OfferBatchOk
  <1> QED
    BY <1>14 DEF b


-----------------------------------------------------------------------------
(* The ledgers taken so far. *)

\* The ledger before k; nothing happens in the first one.
Base(k) == IF k = 1 THEN 1 ELSE k - 1

LEMMA LedgerFollows ==
  ASSUME ChainInv, NEW k \in 1..Newest
  PROVE  Follows(chain[Base(k)].post, chain[k].txs, chain[k].post)
  <1>0. Newest \in Nat
    BY DEF ChainInv, IsSeq, Newest
  <1>1. CASE k = 1
    <2> DEFINE s == chain[1].post
               st == [i \in 0..0 |-> s]
               none == <<>>
    <2>1. none = chain[k].txs /\ StateOk(s) /\ Base(k) = 1
      BY <1>1 DEF ChainInv, Base
    <2>2. Len(none) = 0 /\ IsSeq(none)
      BY DEF IsSeq
    <2>3. st[0] = s
      OBVIOUS
    <2> HIDE DEF st, s, none
    <2>4. Through(s, none, s, st)
      BY <2>1, <2>2, <2>3 DEF Through
    <2>5. Follows(s, none, s)
      BY <2>2, <2>4 DEF Follows
    <2> QED
      BY <1>1, <2>1, <2>5 DEF s
  <1>2. CASE k # 1
    <2>1. k \in 2..Newest /\ Base(k) = k - 1
      BY <1>0, <1>2 DEF Base
    <2> QED
      BY <2>1 DEF ChainInv
  <1> QED
    BY <1>1, <1>2

LEMMA LedgersGrow ==
  ASSUME ChainInv, NEW i \in 1..Newest, NEW j \in i..Newest
  PROVE  Grows(chain[i].post, chain[j].post)
  <1> DEFINE bad == {k \in i..Newest : ~Grows(chain[i].post, chain[k].post)}
  <1>0. Newest \in Nat /\ i \in Nat /\ i >= 1
    BY DEF ChainInv, IsSeq, Newest
  <1>1. ASSUME NEW m \in bad, \A y \in bad : m <= y PROVE FALSE
    <2>0. m \in i..Newest
      OBVIOUS
    <2>1. Grows(chain[i].post, chain[i].post)
      BY DEF Grows
    <2>2. m # i
      BY <2>1
    <2>3. m - 1 \in i..Newest /\ m \in 1..Newest /\ m # 1 /\ m - 1 \notin bad
      <3> HIDE DEF bad
      <3>1. ~(m <= m - 1)
        BY <1>0, <2>0
      <3> QED
        BY <1>0, <1>1, <2>0, <2>2, <3>1
    <2>4. Grows(chain[i].post, chain[m - 1].post)
      BY <2>3
    <2>5. Grows(chain[m - 1].post, chain[m].post)
      <3>1. Follows(chain[m - 1].post, chain[m].txs, chain[m].post)
        BY <2>3, LedgerFollows DEF Base
      <3>2. BatchOk(chain[m - 1].post, chain[m].post, NftBatch(chain[m].txs, m), m)
        BY <3>1, BatchIs
      <3> QED
        BY <3>2 DEF BatchOk
    <2>6. Grows(chain[i].post, chain[m].post)
      BY <2>4, <2>5 DEF Grows
    <2> QED
      BY <2>6
  <1>2. bad = {}
    <2> HIDE DEF bad
    <2>1. bad \in SUBSET Nat
      BY <1>0 DEF bad
    <2> QED
      BY <1>1, <2>1, LeastNat
  <1> QED
    BY <1>2

OrderInv ==
  /\ low \in Nat /\ tip \in 0..Newest /\ low <= tip /\ (low = 0 <=> tip = 0)
  /\ snapSeq \in 0..tip /\ fresh \in BOOLEAN /\ waived = {}
  /\ snapSeq # 0 => low <= snapSeq
  /\ fresh => snapSeq # 0
  /\ low = 0 => nft = <<>> /\ offer = <<>> /\ sales = <<>>

LiveMoves(seq) ==
  /\ tip' = seq /\ UNCHANGED <<snapSeq, fresh, waived>>
  /\ \/ tip = 0 /\ low = 0 /\ low' = seq /\ snapSeq = 0 /\ ~fresh
     \/ tip # 0 /\ low # 0 /\ low' = low /\ tip = Base(seq) /\ tip = seq - 1
     \/ tip # 0 /\ low # 0 /\ low' = low /\ tip = seq /\ tip # snapSeq

BackMoves(seq) ==
  /\ low = seq + 1 /\ Base(low) = seq /\ low # 0 /\ low' = seq
  /\ UNCHANGED <<tip, snapSeq, fresh, waived>>

SnapMoves(seq) ==
  /\ seq \in 1..Newest /\ snapSeq = 0 /\ ~fresh
  /\ tip' = seq /\ snapSeq' = seq /\ UNCHANGED waived
  /\ \/ tip = 0 /\ low = 0 /\ low' = seq /\ fresh' = TRUE
     \/ tip = seq /\ low # 0 /\ low' = low /\ fresh' = FALSE

NewestIs == Newest \in Nat /\ Newest >= 1

LEMMA LiveOrder ==
  ASSUME NewestIs, OrderInv, NEW seq \in 1..Newest, LiveLedger(seq)
  PROVE  LiveMoves(seq)
  <1>1. CASE tip = 0
    BY <1>1 DEF OrderInv, LiveLedger, LiveAt, LiveMoves
  <1>2. CASE tip # 0
    BY <1>2 DEF NewestIs, OrderInv, LiveLedger, LiveAt, LiveMoves, Base
  <1> QED
    BY <1>1, <1>2

LEMMA BackOrder ==
  ASSUME NewestIs, OrderInv, NEW seq \in 1..Newest, BackfillLedger(seq)
  PROVE  BackMoves(seq)
  <1>1. seq = low - 1 /\ low \in Nat /\ waived = {} /\ BackfillAt(seq)
    BY DEF OrderInv, BackfillLedger, BackfillAt
  <1> QED
    BY <1>1 DEF BackfillAt, BackMoves, Base

SnapOf == IF tip # 0 THEN tip ELSE Newest

LEMMA SnapOrder ==
  ASSUME NewestIs, OrderInv, SnapshotAt(SnapOf)
  PROVE  SnapMoves(SnapOf)
  <1>1. CASE tip = 0
    <2>1. SnapOf = Newest /\ Newest \in 1..Newest /\ low = 0
      BY <1>1 DEF NewestIs, OrderInv, SnapOf
    <2>2. snapSeq = 0 /\ low' = Newest /\ tip' = Newest /\ snapSeq' = Newest /\ UNCHANGED waived
      BY <1>1, <2>1 DEF SnapshotAt
    <2>3. fresh' = TRUE
      BY <1>1 DEF SnapshotAt
    <2>4. ~fresh
      BY <2>2 DEF OrderInv
    <2> QED
      BY <1>1, <2>1, <2>2, <2>3, <2>4 DEF SnapMoves
  <1>2. CASE tip # 0
    <2>1. fresh' = FALSE
      BY <1>2 DEF SnapshotAt
    <2> QED
      BY <1>2, <2>1 DEF NewestIs, OrderInv, SnapshotAt, SnapMoves, SnapOf
  <1> QED
    BY <1>1, <1>2

-----------------------------------------------------------------------------
(* What a step writes. *)

RowIs(b, n, row) ==
  /\ row.owner = IF Has(b, n, "owner") THEN b[n]["owner"] ELSE Null
  /\ row.mint = IF Has(b, n, "mint") THEN b[n]["mint"] ELSE Null
  /\ row.burn = IF Has(b, n, "burn") THEN b[n]["burn"] ELSE Null
  /\ row.live = IF Has(b, n, "live") THEN b[n]["live"] ELSE TRUE

LEMMA RowsAre ==
  ASSUME NEW b, NEW n \in DOMAIN b
  PROVE  RowIs(b, n, Row(b[n]))
  <1> DEFINE p == b[n]
             d == [owner |-> Null, mint |-> Null, burn |-> Null, live |-> TRUE]
             r == OrElse(p, d)
  <1>1. \A f : Has(b, n, f) <=> f \in DOMAIN p
    BY DEF Has
  <1>2. \A f \in {"owner", "mint", "burn", "live"} : r[f] = IF f \in DOMAIN p THEN p[f] ELSE d[f]
    BY DEF OrElse
  <1>3. Row(b[n]) = r
    BY DEF Row
  <1> HIDE DEF r, p
  <1>4. /\ r.owner = IF "owner" \in DOMAIN p THEN p["owner"] ELSE Null
        /\ r.mint = IF "mint" \in DOMAIN p THEN p["mint"] ELSE Null
        /\ r.burn = IF "burn" \in DOMAIN p THEN p["burn"] ELSE Null
        /\ r.live = IF "live" \in DOMAIN p THEN p["live"] ELSE TRUE
    BY <1>2
  <1> QED
    BY <1>1, <1>3, <1>4 DEF RowIs, p

\* The batch b is upserted: what it sets replaces what is there, a mint ledger excepted.
Upserted(b) ==
  /\ DOMAIN nft' = DOMAIN nft \cup DOMAIN b
  /\ \A n \in DOMAIN nft : n \notin DOMAIN b => nft'[n] = nft[n]
  /\ \A n \in DOMAIN b : \E row :
       /\ RowIs(b, n, row)
       /\ n \notin DOMAIN nft => nft'[n] = row
       /\ n \in DOMAIN nft => /\ nft'[n].owner = Coalesce(row.owner, nft[n].owner)
                              /\ nft'[n].mint = Coalesce(nft[n].mint, row.mint)
                              /\ nft'[n].burn = Coalesce(row.burn, nft[n].burn)
                              /\ nft'[n].live = (nft[n].live /\ row.live)

LEMMA UpsertIs ==
  ASSUME NEW b, nft' = UpsertNfts(b)
  PROVE  Upserted(b)
  <1>1. /\ DOMAIN nft' = DOMAIN nft \cup DOMAIN b
        /\ \A n \in DOMAIN nft' : nft'[n] = IF n \notin DOMAIN b THEN nft[n]
                                            ELSE IF n \in DOMAIN nft THEN Upsert(nft[n], Row(b[n])) ELSE Row(b[n])
    BY DEF UpsertNfts
  <1>2. ASSUME NEW n \in DOMAIN b
        PROVE  \E row :
                 /\ RowIs(b, n, row)
                 /\ n \notin DOMAIN nft => nft'[n] = row
                 /\ n \in DOMAIN nft => /\ nft'[n].owner = Coalesce(row.owner, nft[n].owner)
                                        /\ nft'[n].mint = Coalesce(nft[n].mint, row.mint)
                                        /\ nft'[n].burn = Coalesce(row.burn, nft[n].burn)
                                        /\ nft'[n].live = (nft[n].live /\ row.live)
    <2>1. RowIs(b, n, Row(b[n]))
      BY RowsAre
    <2>2. n \notin DOMAIN nft => nft'[n] = Row(b[n])
      BY <1>1
    <2>3. ASSUME n \in DOMAIN nft
          PROVE  /\ nft'[n].owner = Coalesce(Row(b[n]).owner, nft[n].owner)
                 /\ nft'[n].mint = Coalesce(nft[n].mint, Row(b[n]).mint)
                 /\ nft'[n].burn = Coalesce(Row(b[n]).burn, nft[n].burn)
                 /\ nft'[n].live = (nft[n].live /\ Row(b[n]).live)
      <3>1. nft'[n] = Upsert(nft[n], Row(b[n]))
        BY <1>1, <2>3
      <3> QED
        BY <3>1 DEF Upsert
    <2> QED
      BY <2>1, <2>2, <2>3
  <1> QED
    BY <1>1, <1>2 DEF Upserted

\* The batch b is inserted where nothing is.
Inserted(b) ==
  /\ DOMAIN nft' = DOMAIN nft \cup DOMAIN b
  /\ \A n \in DOMAIN nft : nft'[n] = nft[n]
  /\ \A n \in DOMAIN b : n \notin DOMAIN nft => RowIs(b, n, nft'[n])

LEMMA InsertIs ==
  ASSUME NEW b, nft' = OrElse(nft, Rows(b))
  PROVE  Inserted(b)
  <1> DEFINE rows == Rows(b)
  <1>1. DOMAIN rows = DOMAIN b /\ \A n \in DOMAIN b : rows[n] = Row(b[n])
    BY DEF Rows
  <1> HIDE DEF rows
  <1>2. /\ DOMAIN nft' = DOMAIN nft \cup DOMAIN rows
        /\ \A n \in DOMAIN nft : nft'[n] = nft[n]
        /\ \A n \in DOMAIN rows : n \notin DOMAIN nft => nft'[n] = rows[n]
    <2>1. nft' = OrElse(nft, rows)
      BY DEF rows
    <2> QED
      BY <2>1 DEF OrElse
  <1> QED
    BY <1>1, <1>2, RowsAre DEF Inserted

\* The NFTs of ledger seq are inserted where nothing is.
Walked(seq) ==
  /\ DOMAIN nft' = DOMAIN nft \cup DOMAIN Held(seq)
  /\ \A n \in DOMAIN nft : nft'[n] = nft[n]
  /\ \A n \in DOMAIN Held(seq) : n \notin DOMAIN nft =>
       /\ nft'[n].owner \in {Null, Held(seq)[n][1]}
       /\ nft'[n].mint = Null /\ nft'[n].burn = Null /\ nft'[n].live = TRUE

LEMMA WalkIs ==
  ASSUME NEW seq, StateOk(chain[seq].post),
         NEW stubs \in SUBSET {o[1] : o \in chain[seq].post.open},
         nft' = OrElse(nft, Rows([n \in DOMAIN Held(seq) \cup stubs |->
                                    IF n \in stubs THEN Stub ELSE Full(Held(seq)[n][1], FALSE, seq)]))
  PROVE  Walked(seq)
  <1> DEFINE h == Held(seq)
             b == [n \in DOMAIN h \cup stubs |-> IF n \in stubs THEN Stub ELSE Full(h[n][1], FALSE, seq)]
  <1>1. stubs \subseteq DOMAIN h
    BY DEF StateOk, Held
  <1>2. DOMAIN b = DOMAIN h /\ \A n \in DOMAIN h : b[n] = IF n \in stubs THEN Stub ELSE Full(h[n][1], FALSE, seq)
    BY <1>1
  <1>3. nft' = OrElse(nft, Rows(b))
    OBVIOUS
  <1> HIDE DEF b, h
  <1>4. Inserted(b)
    BY <1>3, InsertIs
  <1>5. ASSUME NEW n \in DOMAIN h, n \notin DOMAIN nft
        PROVE  /\ nft'[n].owner \in {Null, h[n][1]}
               /\ nft'[n].mint = Null /\ nft'[n].burn = Null /\ nft'[n].live = TRUE
    <2>1. RowIs(b, n, nft'[n])
      BY <1>2, <1>4, <1>5 DEF Inserted
    <2>2. CASE n \in stubs
      <3>1. b[n] = Stub
        BY <1>2, <2>2
      <3>2. ~Has(b, n, "owner") /\ ~Has(b, n, "mint") /\ ~Has(b, n, "burn") /\ (Has(b, n, "live") => b[n]["live"] = TRUE)
        BY <3>1 DEF Has, Stub
      <3> QED
        BY <2>1, <3>2 DEF RowIs
    <2>3. CASE n \notin stubs
      <3>1. b[n] = Full(h[n][1], FALSE, seq)
        BY <1>2, <2>3
      <3>2. /\ (Has(b, n, "owner") => b[n]["owner"] = h[n][1]) /\ (Has(b, n, "mint") => b[n]["mint"] = Null)
            /\ ~Has(b, n, "burn") /\ (Has(b, n, "live") => b[n]["live"] = TRUE)
        BY <3>1 DEF Has, Full
      <3> QED
        BY <2>1, <3>2 DEF RowIs
    <2> QED
      BY <2>2, <2>3
  <1>6. /\ DOMAIN nft' = DOMAIN nft \cup DOMAIN h
        /\ \A n \in DOMAIN nft : nft'[n] = nft[n]
    BY <1>2, <1>4 DEF Inserted
  <1> QED
    BY <1>5, <1>6 DEF Walked, h


-----------------------------------------------------------------------------
(* The steps of the writers. *)

BatchAt(seq) == NftBatch(chain[seq].txs, seq)
OffersAt(seq) == OfferBatch(chain[seq].txs, seq)

LedgerOk(seq) ==
  /\ StateOk(chain[seq].post)
  /\ BatchOk(chain[Base(seq)].post, chain[seq].post, BatchAt(seq), seq)
  /\ OfferBatchOk(chain[Base(seq)].post, chain[seq].post, OffersAt(seq), seq)

LEMMA LedgersOk ==
  ASSUME ChainInv, NEW seq \in 1..Newest
  PROVE  LedgerOk(seq)
  <1>1. Follows(chain[Base(seq)].post, chain[seq].txs, chain[seq].post)
    BY LedgerFollows
  <1> QED
    BY <1>1, BatchIs, OfferBatchIs DEF LedgerOk, BatchAt, OffersAt, ChainInv

OffersUpserted(b) ==
  /\ DOMAIN offer' = DOMAIN offer \cup DOMAIN b
  /\ \A o \in DOMAIN offer : o \notin DOMAIN b => offer'[o] = offer[o]
  /\ \A o \in DOMAIN b : o \notin DOMAIN offer => offer'[o] = b[o]
  /\ \A o \in DOMAIN b : o \in DOMAIN offer =>
       offer'[o] = [offer[o] EXCEPT !.closed = Coalesce(b[o].closed, offer[o].closed)]

OffersInserted(b) ==
  /\ DOMAIN offer' = DOMAIN offer \cup DOMAIN b
  /\ \A o \in DOMAIN offer : offer'[o] = offer[o]
  /\ \A o \in DOMAIN b : o \notin DOMAIN offer => offer'[o] = b[o]

OffersWalked(seq) ==
  /\ DOMAIN offer' = DOMAIN offer \cup chain[seq].post.open
  /\ \A o \in DOMAIN offer : offer'[o] = offer[o]
  /\ \A o \in chain[seq].post.open : o \notin DOMAIN offer => offer'[o] = [created |-> seq, closed |-> Null]

SalesInserted(seq) == sales' = OrElse(sales, SaleBatch(chain[seq].txs, seq))

LiveStep(seq) ==
  /\ seq \in 1..Newest /\ LiveMoves(seq) /\ UNCHANGED chain /\ LedgerOk(seq)
  /\ Upserted(BatchAt(seq)) /\ OffersUpserted(OffersAt(seq)) /\ SalesInserted(seq)

BackStep(seq) ==
  /\ seq \in 1..Newest /\ BackMoves(seq) /\ UNCHANGED chain /\ LedgerOk(seq)
  /\ Inserted(BatchAt(seq)) /\ OffersInserted(OffersAt(seq)) /\ SalesInserted(seq)

SnapStep(seq) ==
  /\ SnapMoves(seq) /\ UNCHANGED <<chain, sales>> /\ StateOk(chain[seq].post)
  /\ Walked(seq) /\ OffersWalked(seq)

QuietStep == Kept /\ UNCHANGED <<nft, offer, sales, orderVars>>

LEMMA LiveIs ==
  ASSUME ChainInv, OrderInv, NEW seq \in 1..Newest, LiveLedger(seq)
  PROVE  LiveStep(seq)
  <1>1. NewestIs
    BY DEF ChainInv, IsSeq, Newest, NewestIs
  <1>2. LiveMoves(seq) /\ LedgerOk(seq)
    BY <1>1, LiveOrder, LedgersOk
  <1>3. UNCHANGED chain /\ nft' = UpsertNfts(BatchAt(seq)) /\ offer' = UpsertOffers(OffersAt(seq)) /\ SalesInserted(seq)
    BY DEF LiveLedger, BatchAt, OffersAt, SalesInserted
  <1>4. Upserted(BatchAt(seq))
    BY <1>3, UpsertIs
  <1>5. OffersUpserted(OffersAt(seq))
    <2> DEFINE b == OffersAt(seq)
    <2>1. offer' = UpsertOffers(b)
      BY <1>3
    <2> HIDE DEF b
    <2>2. OffersUpserted(b)
      BY <2>1 DEF UpsertOffers, OffersUpserted
    <2> QED
      BY <2>2 DEF b
  <1> QED
    BY <1>2, <1>3, <1>4, <1>5 DEF LiveStep

LEMMA BackIs ==
  ASSUME ChainInv, OrderInv, NEW seq \in 1..Newest, BackfillLedger(seq)
  PROVE  BackStep(seq)
  <1>1. NewestIs
    BY DEF ChainInv, IsSeq, Newest, NewestIs
  <1>2. BackMoves(seq) /\ LedgerOk(seq)
    BY <1>1, BackOrder, LedgersOk
  <1>3. UNCHANGED chain /\ nft' = OrElse(nft, Rows(BatchAt(seq))) /\ offer' = OrElse(offer, OffersAt(seq)) /\ SalesInserted(seq)
    BY DEF BackfillLedger, BatchAt, OffersAt, SalesInserted
  <1>4. Inserted(BatchAt(seq))
    BY <1>3, InsertIs
  <1>5. OffersInserted(OffersAt(seq))
    <2> DEFINE b == OffersAt(seq)
    <2>1. offer' = OrElse(offer, b)
      BY <1>3
    <2> HIDE DEF b
    <2>2. OffersInserted(b)
      BY <2>1 DEF OrElse, OffersInserted
    <2> QED
      BY <2>2 DEF b
  <1> QED
    BY <1>2, <1>3, <1>4, <1>5 DEF BackStep

LEMMA SnapIs ==
  ASSUME ChainInv, OrderInv, Snapshot
  PROVE  SnapStep(SnapOf)
  <1>1. NewestIs
    BY DEF ChainInv, IsSeq, Newest, NewestIs
  <1>2. SnapshotAt(SnapOf) /\ UNCHANGED <<chain, sales>>
    BY DEF Snapshot, SnapOf
  <1>3. SnapMoves(SnapOf)
    BY <1>1, <1>2, SnapOrder
  <1>4. SnapOf \in 1..Newest /\ StateOk(chain[SnapOf].post)
    BY <1>3 DEF SnapMoves, ChainInv
  <1>5. PICK stubs \in SUBSET {o[1] : o \in chain[SnapOf].post.open} :
          nft' = OrElse(nft, Rows([n \in DOMAIN Held(SnapOf) \cup stubs |->
                                     IF n \in stubs THEN Stub ELSE Full(Held(SnapOf)[n][1], FALSE, SnapOf)]))
    BY Zenon DEF Snapshot, SnapOf, Held
  <1>6. Walked(SnapOf)
    BY <1>4, <1>5, WalkIs
  <1>7. OffersWalked(SnapOf)
    <2> DEFINE b == [o \in chain[SnapOf].post.open |-> [created |-> SnapOf, closed |-> Null]]
    <2>1. offer' = OrElse(offer, b)
      BY DEF Snapshot, SnapOf
    <2>2. DOMAIN b = chain[SnapOf].post.open /\ \A o \in DOMAIN b : b[o] = [created |-> SnapOf, closed |-> Null]
      OBVIOUS
    <2> HIDE DEF b
    <2>3. OffersInserted(b)
      BY <2>1 DEF OrElse, OffersInserted
    <2> QED
      BY <2>2, <2>3 DEF OffersInserted, OffersWalked
  <1> QED
    BY <1>2, <1>3, <1>4, <1>6, <1>7 DEF SnapStep

LEMMA StepIs ==
  ASSUME ChainInv, OrderInv, [Next]_vars
  PROVE  QuietStep \/ SnapStep(SnapOf) \/ \E seq : LiveStep(seq) \/ BackStep(seq)
  <1>1. CASE UNCHANGED vars
    BY <1>1, ChainStep DEF vars, QuietStep
  <1>2. CASE Close
    BY <1>2, ChainStep DEF Close, QuietStep
  <1>3. CASE Snapshot
    BY <1>3, SnapIs
  <1>4. CASE \E seq \in 1..Newest : LiveLedger(seq) \/ BackfillLedger(seq)
    BY <1>4, LiveIs, BackIs
  <1> QED
    BY <1>1, <1>2, <1>3, <1>4 DEF Next

LEMMA OrderStep ==
  ASSUME NewestIs, OrderInv,
         QuietStep \/ SnapStep(SnapOf) \/ \E seq : LiveStep(seq) \/ BackStep(seq)
  PROVE  OrderInv'
  <1>1. CASE QuietStep
    BY <1>1 DEF OrderInv, QuietStep, Kept, orderVars, NewestIs
  <1>2. CASE SnapStep(SnapOf)
    <2>1. Newest' = Newest /\ SnapMoves(SnapOf)
      BY <1>2 DEF SnapStep, Newest
    <2> DEFINE seq == SnapOf
    <2>2. /\ seq \in 1..Newest /\ tip' = seq /\ snapSeq' = seq /\ waived' = waived
          /\ (low = 0 /\ low' = seq /\ fresh' = TRUE) \/ (tip = seq /\ low # 0 /\ low' = low /\ fresh' = FALSE)
      BY <2>1 DEF SnapMoves
    <2> HIDE DEF seq
    <2>3. CASE low = 0 /\ low' = seq /\ fresh' = TRUE
      BY <2>1, <2>2, <2>3 DEF OrderInv, NewestIs
    <2>4. CASE tip = seq /\ low # 0 /\ low' = low /\ fresh' = FALSE
      <3>1. /\ low' \in Nat /\ tip' \in 0..Newest /\ low' <= tip' /\ low' # 0 /\ tip' # 0
            /\ snapSeq' \in 0..tip' /\ low' <= snapSeq'
        BY <2>2, <2>4 DEF OrderInv, NewestIs
      <3>2. fresh' \in BOOLEAN /\ ~fresh'
        BY <2>4
      <3>3. waived' = {}
        BY <2>2 DEF OrderInv
      <3> QED
        BY <2>1, <3>1, <3>2, <3>3 DEF OrderInv
    <2> QED
      BY <2>2, <2>3, <2>4
  <1>3. ASSUME NEW seq, LiveStep(seq) PROVE OrderInv'
    <2>1. Newest' = Newest /\ LiveMoves(seq) /\ seq \in 1..Newest
      BY <1>3 DEF LiveStep, Newest
    <2> QED
      BY <2>1 DEF OrderInv, LiveMoves, NewestIs
  <1>4. ASSUME NEW seq, BackStep(seq) PROVE OrderInv'
    <2>1. Newest' = Newest /\ BackMoves(seq) /\ seq \in 1..Newest
      BY <1>4 DEF BackStep, Newest
    <2> QED
      BY <2>1 DEF OrderInv, BackMoves, NewestIs
  <1> QED
    BY <1>1, <1>2, <1>3, <1>4

-----------------------------------------------------------------------------
(* Owners. *)

\* A row says nothing of an NFT's owner or what is true at the top.  An NFT of the top
\* ledger that has no row kept its owner since the ledger below the ones taken, and after
\* a snapshot each has one, which says nothing only if the owner is that of the snapshot.
OwnersKnown ==
  \A n \in DOMAIN nft : n \in DOMAIN Held(tip) => nft[n].owner \in {Null, Held(tip)[n][1]}
UnknownKept ==
  \A n \in DOMAIN Held(tip) : n \notin DOMAIN nft =>
    snapSeq = 0 /\ n \in DOMAIN Held(Base(low)) /\ Held(Base(low))[n][1] = Held(tip)[n][1]
SnapshotKept ==
  snapSeq # 0 => \A n \in DOMAIN Held(tip) :
    n \in DOMAIN nft /\ (nft[n].owner = Null => n \in DOMAIN Held(snapSeq) /\ Held(snapSeq)[n][1] = Held(tip)[n][1])

OwnerInv == low # 0 => OwnersKnown /\ UnknownKept /\ SnapshotKept

LEMMA OwnerQuiet ==
  ASSUME NewestIs, OrderInv, OwnerInv, QuietStep
  PROVE  OwnerInv'
  <1> SUFFICES ASSUME low # 0 PROVE OwnersKnown' /\ UnknownKept' /\ SnapshotKept'
    BY DEF OwnerInv, QuietStep, orderVars
  <1>1. UNCHANGED <<nft, low, tip, snapSeq>>
    BY DEF QuietStep, orderVars
  <1>2. tip \in 1..Newest /\ Base(low) \in 1..Newest /\ (snapSeq # 0 => snapSeq \in 1..Newest)
    BY DEF OrderInv, NewestIs, Base
  <1>3. Held(tip)' = Held(tip) /\ Held(Base(low))' = Held(Base(low)) /\ (snapSeq # 0 => Held(snapSeq)' = Held(snapSeq))
    BY <1>1, <1>2 DEF QuietStep, Kept, Held, Base
  <1>4. OwnersKnown /\ UnknownKept /\ SnapshotKept
    BY DEF OwnerInv
  <1>5. OwnersKnown'
    BY <1>1, <1>3, <1>4 DEF OwnersKnown
  <1>6. UnknownKept'
    BY <1>1, <1>3, <1>4 DEF UnknownKept
  <1>7. SnapshotKept'
    BY <1>1, <1>3, <1>4 DEF SnapshotKept
  <1> QED
    BY <1>5, <1>6, <1>7

LEMMA OwnerSnap ==
  ASSUME NewestIs, OrderInv, OwnerInv, NEW seq, SnapStep(seq)
  PROVE  OwnerInv'
  <1> DEFINE h == Held(seq)
  <1>1. Held(tip)' = h /\ Held(snapSeq)' = h
    BY DEF SnapStep, SnapMoves, Held
  <1>2. /\ DOMAIN nft' = DOMAIN nft \cup DOMAIN h
        /\ \A n \in DOMAIN nft : nft'[n] = nft[n]
        /\ \A n \in DOMAIN h : n \notin DOMAIN nft => nft'[n].owner \in {Null, h[n][1]}
    BY DEF SnapStep, Walked
  <1>3. \A n \in DOMAIN nft : n \in DOMAIN h => nft[n].owner \in {Null, h[n][1]}
    <2>1. CASE tip = 0
      BY <2>1 DEF OrderInv
    <2>2. CASE tip # 0
      BY <2>2 DEF OwnerInv, OwnersKnown, SnapStep, SnapMoves, OrderInv
    <2> QED
      BY <2>1, <2>2
  <1>4. OwnersKnown'
    BY <1>1, <1>2, <1>3 DEF OwnersKnown
  <1>5. UnknownKept' /\ SnapshotKept'
    BY <1>1, <1>2 DEF UnknownKept, SnapshotKept
  <1> QED
    BY <1>4, <1>5 DEF OwnerInv

LEMMA OwnerOfHeld ==
  ASSUME NEW s, StateOk(s), NEW n \in DOMAIN s.held
  PROVE  s.held[n][1] \in Owners /\ s.held[n][1] # Null
  <1>1. s.held[n] \in Pages
    BY HoldingIs DEF StateOk, States
  <1> QED
    BY <1>1, PageIs, NullAssumption

LEMMA OwnerLive ==
  ASSUME NewestIs, OrderInv, OwnerInv, NEW seq, LiveStep(seq)
  PROVE  OwnerInv'
  <1> DEFINE h == Held(seq)
             b == BatchAt(seq)
             hb == Held(Base(seq))
  <1>1. Held(tip)' = h
    BY DEF LiveStep, LiveMoves, Held
  <1>2. StateOk(chain[seq].post) /\ Upserted(b) /\ LiveMoves(seq) /\ UNCHANGED chain
    BY DEF LiveStep, LedgerOk
  <1>3. \A n \in DOMAIN h : IF Has(b, n, "owner") THEN b[n]["owner"] = h[n][1]
                            ELSE n \in DOMAIN hb /\ hb[n][1] = h[n][1]
    BY DEF LiveStep, LedgerOk, BatchOk, OwnersOk, Held
  <1>4. \A n \in DOMAIN h : h[n][1] # Null
    BY <1>2, OwnerOfHeld DEF Held
  <1> HIDE DEF h, b, hb
  <1>5. DOMAIN nft' = DOMAIN nft \cup DOMAIN b /\ \A n : Has(b, n, "owner") => n \in DOMAIN b
    BY <1>2 DEF Upserted, Has
  <1>6. ASSUME NEW n \in DOMAIN nft', n \in DOMAIN h
        PROVE  nft'[n].owner = IF Has(b, n, "owner") THEN h[n][1]
                               ELSE IF n \in DOMAIN nft THEN nft[n].owner ELSE Null
    <2>1. CASE n \in DOMAIN b
      <3>1. PICK row : /\ RowIs(b, n, row)
                       /\ n \notin DOMAIN nft => nft'[n] = row
                       /\ n \in DOMAIN nft => nft'[n].owner = Coalesce(row.owner, nft[n].owner)
        BY <1>2, <2>1 DEF Upserted
      <3>2. row.owner = IF Has(b, n, "owner") THEN h[n][1] ELSE Null
        BY <1>3, <1>6, <3>1 DEF RowIs
      <3> QED
        BY <1>4, <1>6, <3>1, <3>2 DEF Coalesce
    <2>2. CASE n \notin DOMAIN b
      BY <1>2, <1>5, <2>2 DEF Upserted
    <2> QED
      BY <2>1, <2>2
  <1>7. CASE tip = 0
    <2>1. DOMAIN nft = {} /\ snapSeq' = 0 /\ Held(Base(low))' = hb
      BY <1>2, <1>7 DEF OrderInv, LiveMoves, hb, Held, Base
    <2>2. OwnersKnown'
      BY <1>1, <1>6, <2>1 DEF OwnersKnown
    <2>3. UnknownKept'
      BY <1>1, <1>3, <1>5, <2>1 DEF UnknownKept
    <2>4. SnapshotKept'
      BY <2>1 DEF SnapshotKept
    <2> QED
      BY <2>2, <2>3, <2>4 DEF OwnerInv
  <1>8. CASE tip # 0
    <2>0. OwnersKnown /\ UnknownKept /\ SnapshotKept
      BY <1>8 DEF OwnerInv, OrderInv
    <2>1. /\ low' = low /\ snapSeq' = snapSeq
          /\ Held(Base(low))' = Held(Base(low)) /\ Held(snapSeq)' = Held(snapSeq)
      BY <1>2, <1>8 DEF OrderInv, LiveMoves, Held, Base
    <2>2. ASSUME NEW n \in DOMAIN h, ~Has(b, n, "owner")
          PROVE  n \in DOMAIN Held(tip) /\ Held(tip)[n][1] = h[n][1]
      <3>1. tip = Base(seq) \/ tip = seq
        BY <1>2, <1>8 DEF LiveMoves
      <3> QED
        BY <1>3, <2>2, <3>1 DEF h, hb
    <2>3. OwnersKnown'
      BY <1>1, <1>6, <2>0, <2>2 DEF OwnersKnown
    <2>4. UnknownKept'
      BY <1>1, <1>5, <2>0, <2>1, <2>2 DEF UnknownKept
    <2>5. SnapshotKept'
      <3> SUFFICES ASSUME snapSeq # 0, NEW n \in DOMAIN h
                   PROVE  /\ n \in DOMAIN nft'
                          /\ nft'[n].owner = Null =>
                               n \in DOMAIN Held(snapSeq) /\ Held(snapSeq)[n][1] = h[n][1]
        BY <1>1, <2>1 DEF SnapshotKept
      <3>1. CASE Has(b, n, "owner")
        BY <1>4, <1>5, <1>6, <3>1
      <3>2. CASE ~Has(b, n, "owner")
        <4>1. n \in DOMAIN Held(tip) /\ Held(tip)[n][1] = h[n][1]
          BY <2>2, <3>2
        <4>2. n \in DOMAIN nft /\ (nft[n].owner = Null => n \in DOMAIN Held(snapSeq) /\ Held(snapSeq)[n][1] = h[n][1])
          BY <2>0, <4>1 DEF SnapshotKept
        <4>3. n \in DOMAIN nft' /\ nft'[n].owner = nft[n].owner
          BY <1>5, <1>6, <3>2, <4>2
        <4> QED
          BY <4>2, <4>3
      <3> QED
        BY <3>1, <3>2
    <2> QED
      BY <2>3, <2>4, <2>5 DEF OwnerInv
  <1> QED
    BY <1>7, <1>8

LEMMA OwnerBack ==
  ASSUME NewestIs, OrderInv, OwnerInv, NEW seq, BackStep(seq)
  PROVE  OwnerInv'
  <1> DEFINE h == Held(seq)
             b == BatchAt(seq)
             hb == Held(Base(seq))
             top == Held(tip)
  <1>1. Inserted(b) /\ BackMoves(seq) /\ UNCHANGED chain
    BY DEF BackStep
  <1>2. Held(tip)' = top /\ Held(snapSeq)' = Held(snapSeq) /\ snapSeq' = snapSeq /\ Held(Base(low))' = hb
    BY <1>1 DEF BackMoves, Held, Base
  <1>3. \A n \in DOMAIN h : IF Has(b, n, "owner") THEN b[n]["owner"] = h[n][1]
                            ELSE n \in DOMAIN hb /\ hb[n][1] = h[n][1]
    BY DEF BackStep, LedgerOk, BatchOk, OwnersOk, Held
  <1>4. OwnersKnown /\ UnknownKept /\ SnapshotKept
    BY <1>1 DEF OwnerInv, BackMoves
  <1>5. \A n \in DOMAIN top : n \notin DOMAIN nft => snapSeq = 0 /\ n \in DOMAIN h /\ h[n][1] = top[n][1]
    BY <1>1, <1>4 DEF BackMoves, UnknownKept
  <1> HIDE DEF h, b, hb
  <1>6. /\ DOMAIN nft' = DOMAIN nft \cup DOMAIN b
        /\ \A n \in DOMAIN nft : nft'[n] = nft[n]
        /\ \A n \in DOMAIN b : n \notin DOMAIN nft => RowIs(b, n, nft'[n])
    BY <1>1 DEF Inserted
  <1>7. OwnersKnown'
    <2> SUFFICES ASSUME NEW n \in DOMAIN nft', n \in DOMAIN top PROVE nft'[n].owner \in {Null, top[n][1]}
      BY <1>2 DEF OwnersKnown
    <2>1. CASE n \in DOMAIN nft
      BY <1>4, <1>6, <2>1 DEF OwnersKnown
    <2>2. CASE n \notin DOMAIN nft
      <3>1. RowIs(b, n, nft'[n])
        BY <1>6, <2>2
      <3> QED
        BY <1>3, <1>5, <2>2, <3>1 DEF RowIs
    <2> QED
      BY <2>1, <2>2
  <1>8. UnknownKept'
    <2> SUFFICES ASSUME NEW n \in DOMAIN top, n \notin DOMAIN nft'
                 PROVE  snapSeq = 0 /\ n \in DOMAIN hb /\ hb[n][1] = top[n][1]
      BY <1>2 DEF UnknownKept
    <2>1. n \notin DOMAIN nft /\ ~Has(b, n, "owner")
      BY <1>6 DEF Has
    <2> QED
      BY <1>3, <1>5, <2>1
  <1>9. SnapshotKept'
    BY <1>2, <1>4, <1>6 DEF SnapshotKept
  <1> QED
    BY <1>7, <1>8, <1>9 DEF OwnerInv

LEMMA OwnerStep ==
  ASSUME NewestIs, OrderInv, OwnerInv,
         QuietStep \/ SnapStep(SnapOf) \/ \E seq : LiveStep(seq) \/ BackStep(seq)
  PROVE  OwnerInv'
  BY OwnerQuiet, OwnerSnap, OwnerLive, OwnerBack

LEMMA OwnerIsCorrect == OrderInv /\ OwnerInv => OwnerCorrect
  <1> SUFFICES ASSUME OrderInv, low # 0, OwnersKnown, UnknownKept, SnapshotKept PROVE OwnerCorrect
    BY DEF OwnerInv, OwnerCorrect
  <1> QED
    BY DEF OwnersKnown, SnapshotKept, OwnerCorrect


-----------------------------------------------------------------------------
(* Offers. *)

Post(k) == chain[k].post

\* Closed in the ledger of a fresh snapshot, whose transactions nobody replays.
Lost(o) == fresh /\ snapSeq > 1 /\ o \in Post(snapSeq).done /\ o \notin Post(snapSeq - 1).done

ClosedDone == \A o \in DOMAIN offer : offer[o].closed # Null => o \in Post(tip).done
OpenRows == \A o \in DOMAIN offer : offer[o].closed = Null => o \in Post(tip).open \/ Lost(o)
OpenKnown == \A o \in Post(tip).open : o \notin DOMAIN offer => snapSeq = 0 /\ o \in Post(Base(low)).open
DoneKnown == \A o \in Post(tip).done : o \notin DOMAIN offer => o \in Post(Base(low)).done \/ Lost(o)

OfferRows == \A o \in DOMAIN offer : "closed" \in DOMAIN offer[o]

OfferInv == low # 0 => ClosedDone /\ OpenRows /\ OpenKnown /\ DoneKnown /\ OfferRows

LEMMA OfferQuiet ==
  ASSUME NewestIs, OrderInv, OfferInv, QuietStep
  PROVE  OfferInv'
  <1> SUFFICES ASSUME low # 0 PROVE (ClosedDone /\ OpenRows /\ OpenKnown /\ DoneKnown /\ OfferRows)'
    BY DEF OfferInv, QuietStep, orderVars
  <1>1. UNCHANGED <<offer, low, tip, snapSeq, fresh>>
    BY DEF QuietStep, orderVars
  <1>2. tip \in 1..Newest /\ Base(low) \in 1..Newest /\ (snapSeq > 1 => snapSeq \in 1..Newest /\ snapSeq - 1 \in 1..Newest)
    BY DEF OrderInv, NewestIs, Base
  <1>3. /\ Post(tip)' = Post(tip) /\ Post(Base(low))' = Post(Base(low))
        /\ snapSeq > 1 => Post(snapSeq)' = Post(snapSeq) /\ Post(snapSeq - 1)' = Post(snapSeq - 1)
    BY <1>1, <1>2 DEF QuietStep, Kept, Post, Base
  <1>4. \A o : Lost(o)' <=> Lost(o)
    BY <1>1, <1>3 DEF Lost
  <1>5. ClosedDone /\ OpenRows /\ OpenKnown /\ DoneKnown /\ OfferRows
    BY DEF OfferInv
  <1> QED
    BY <1>1, <1>3, <1>4, <1>5 DEF ClosedDone, OpenRows, OpenKnown, DoneKnown, OfferRows

LEMMA OfferSnap ==
  ASSUME NewestIs, OrderInv, OfferInv, NEW seq, SnapStep(seq)
  PROVE  OfferInv'
  <1> DEFINE t == Post(seq)
  <1>1. SnapMoves(seq) /\ OffersWalked(seq) /\ UNCHANGED chain /\ Post(tip)' = t /\ Post(snapSeq)' = t
    BY DEF SnapStep, SnapMoves, Post
  <1>2. /\ DOMAIN offer' = DOMAIN offer \cup t.open
        /\ \A o \in DOMAIN offer : offer'[o] = offer[o]
        /\ \A o \in t.open : o \notin DOMAIN offer => offer'[o].closed = Null /\ "closed" \in DOMAIN offer'[o]
    BY <1>1 DEF OffersWalked, Post
  <1>6. OfferRows'
    <2>1. OfferRows
      BY DEF OfferInv, OrderInv, OfferRows
    <2> QED
      BY <1>2, <2>1 DEF OfferRows
  <1>3. OpenKnown'
    BY <1>1, <1>2 DEF OpenKnown
  <1>4. CASE low = 0
    <2>1. DOMAIN offer = {} /\ low' = seq /\ snapSeq' = seq /\ fresh' = TRUE /\ seq \in Nat /\ seq >= 1
      BY <1>1, <1>4 DEF OrderInv, SnapMoves, NewestIs
    <2>2. ClosedDone' /\ OpenRows'
      BY <1>1, <1>2, <2>1 DEF ClosedDone, OpenRows
    <2>3. DoneKnown'
      <3>1. CASE seq = 1
        <4>1. Post(Base(low))' = t
          BY <1>1, <2>1, <3>1 DEF Base, Post
        <4> QED
          BY <1>1, <4>1 DEF DoneKnown
      <3>2. CASE seq # 1
        <4>1. Post(Base(low))' = Post(seq - 1) /\ Post(snapSeq - 1)' = Post(seq - 1) /\ (snapSeq > 1)'
          BY <1>1, <2>1, <3>2 DEF Base, Post
        <4> QED
          BY <1>1, <2>1, <4>1 DEF DoneKnown, Lost
      <3> QED
        BY <3>1, <3>2
    <2> QED
      BY <1>3, <1>6, <2>2, <2>3 DEF OfferInv
  <1>5. CASE low # 0
    <2>1. tip = seq /\ low' = low /\ ~fresh /\ Post(tip) = t /\ Post(Base(low))' = Post(Base(low))
      BY <1>1, <1>5 DEF OrderInv, SnapMoves, Post, Base
    <2>2. ClosedDone /\ OpenRows /\ DoneKnown
      BY <1>5 DEF OfferInv
    <2>3. ClosedDone'
      BY <1>1, <1>2, <2>1, <2>2 DEF ClosedDone
    <2>4. OpenRows'
      BY <1>1, <1>2, <2>1, <2>2 DEF OpenRows, Lost
    <2>5. DoneKnown'
      BY <1>1, <1>2, <2>1, <2>2 DEF DoneKnown, Lost
    <2> QED
      BY <1>3, <1>6, <2>3, <2>4, <2>5 DEF OfferInv
  <1> QED
    BY <1>4, <1>5

LEMMA OfferLive ==
  ASSUME ChainInv, NewestIs, OrderInv, OfferInv, NEW seq, LiveStep(seq)
  PROVE  OfferInv'
  <1> DEFINE t == Post(seq)
             s == Post(Base(seq))
             b == OffersAt(seq)
  <1>1. LiveMoves(seq) /\ OffersUpserted(b) /\ UNCHANGED chain /\ seq \in Nat
    BY DEF LiveStep
  <1>2. /\ \A o \in DOMAIN b : /\ o \in t.open \cup t.done
                               /\ b[o].closed = IF o \in t.done THEN seq ELSE Null
        /\ \A o \in t.done : o \notin s.done => o \in DOMAIN b
        /\ \A o \in t.open : o \notin s.open => o \in DOMAIN b
    BY DEF LiveStep, LedgerOk, OfferBatchOk, Post
  <1>3. seq # Null
    BY <1>1, NullAssumption
  <1>4. Grows(s, t) /\ t.open \cap t.done = {}
    BY DEF LiveStep, LedgerOk, BatchOk, StateOk, Post
  <1>5. /\ Post(tip)' = t /\ snapSeq' = snapSeq
    BY <1>1 DEF LiveMoves, Post
  <1> HIDE DEF t, s, b
  <1>6. /\ DOMAIN offer' = DOMAIN offer \cup DOMAIN b
        /\ \A o \in DOMAIN offer : o \notin DOMAIN b => offer'[o] = offer[o]
        /\ \A o \in DOMAIN b : o \notin DOMAIN offer => offer'[o] = b[o]
    BY <1>1 DEF OffersUpserted
  <1>7. OfferRows /\ \A o \in DOMAIN b : "closed" \in DOMAIN b[o]
    <2>1. \A o \in DOMAIN b : b[o] = [created |-> seq, closed |-> IF o \in t.done THEN seq ELSE Null]
      BY DEF LiveStep, LedgerOk, OfferBatchOk, Post, t, b
    <2> QED
      BY <2>1 DEF OfferInv, OrderInv, OfferRows
  <1>8. ASSUME NEW o \in DOMAIN b, o \in DOMAIN offer
        PROVE  /\ offer'[o].closed = IF o \in t.done THEN seq ELSE offer[o].closed
               /\ "closed" \in DOMAIN offer'[o]
    <2>1. offer'[o] = [offer[o] EXCEPT !.closed = Coalesce(b[o].closed, offer[o].closed)]
      BY <1>1, <1>8 DEF OffersUpserted
    <2>2. "closed" \in DOMAIN offer[o]
      BY <1>7, <1>8 DEF OfferRows
    <2>3. offer'[o].closed = Coalesce(b[o].closed, offer[o].closed) /\ "closed" \in DOMAIN offer'[o]
      BY <2>1, <2>2
    <2> QED
      BY <1>2, <1>3, <2>3 DEF Coalesce
  <1>9. OfferRows'
    BY <1>6, <1>7, <1>8 DEF OfferRows
  <1>10. CASE low = 0
    <2>1. DOMAIN offer = {} /\ snapSeq' = 0 /\ Post(Base(low))' = s
      BY <1>1, <1>10 DEF OrderInv, LiveMoves, s, Post, Base
    <2>2. ClosedDone' /\ OpenRows'
      BY <1>2, <1>3, <1>5, <1>6, <2>1 DEF ClosedDone, OpenRows
    <2>3. OpenKnown' /\ DoneKnown'
      BY <1>2, <1>5, <1>6, <2>1 DEF OpenKnown, DoneKnown
    <2> QED
      BY <1>9, <2>2, <2>3 DEF OfferInv
  <1>11. CASE low # 0
    <2>1. ClosedDone /\ OpenRows /\ OpenKnown /\ DoneKnown
      BY <1>11 DEF OfferInv
    <2>2. /\ Post(Base(low))' = Post(Base(low))
          /\ \A o : Lost(o)' <=> Lost(o)
      BY <1>1, <1>11 DEF OrderInv, LiveMoves, Post, Base, Lost
    <2>3. /\ \A o \in Post(tip).done : o \in t.done
          /\ \A o \in Post(tip).open : o \in t.open \cup t.done
          /\ \A o \in t.done : o \notin Post(tip).done => o \in DOMAIN b
          /\ \A o \in t.open : o \notin Post(tip).open => o \in DOMAIN b
          /\ \A o \in Post(tip).open : o \notin Post(tip).done
      <3>1. tip = Base(seq) \/ tip = seq
        BY <1>1, <1>11 DEF LiveMoves, OrderInv
      <3>2. CASE tip = seq
        BY <1>4, <3>2 DEF t
      <3>3. CASE tip = Base(seq)
        <4>1. StateOk(s)
          <5>1. tip \in 1..Newest
            BY <1>11 DEF OrderInv, NewestIs
          <5> QED
            BY <3>3, <5>1 DEF ChainInv, s, Post
        <4> QED
          BY <1>2, <1>4, <3>3, <4>1 DEF s, Grows, StateOk
      <3> QED
        BY <3>1, <3>2, <3>3
    <2>4. ClosedDone'
      BY <1>2, <1>5, <1>6, <1>8, <2>1, <2>3 DEF ClosedDone
    <2>5. OpenRows'
      BY <1>2, <1>3, <1>5, <1>6, <1>8, <2>1, <2>2, <2>3 DEF OpenRows
    <2>6. OpenKnown'
      BY <1>5, <1>6, <2>1, <2>2, <2>3 DEF OpenKnown
    <2>7. DoneKnown'
      BY <1>5, <1>6, <2>1, <2>2, <2>3 DEF DoneKnown
    <2> QED
      BY <1>9, <2>4, <2>5, <2>6, <2>7 DEF OfferInv
  <1> QED
    BY <1>10, <1>11

LEMMA OfferBack ==
  ASSUME ChainInv, NewestIs, OrderInv, OfferInv, NEW seq, BackStep(seq)
  PROVE  OfferInv'
  <1> DEFINE t == Post(seq)
             s == Post(Base(seq))
             b == OffersAt(seq)
             top == Post(tip)
  <1>1. BackMoves(seq) /\ OffersInserted(b) /\ UNCHANGED chain /\ seq \in 1..Newest
    BY DEF BackStep
  <1>2. /\ \A o \in DOMAIN b : /\ o \in t.open \cup t.done
                               /\ b[o] = [created |-> seq, closed |-> IF o \in t.done THEN seq ELSE Null]
        /\ \A o \in t.done : o \notin s.done => o \in DOMAIN b
        /\ \A o \in t.open : o \notin s.open => o \in DOMAIN b
    BY DEF BackStep, LedgerOk, OfferBatchOk, Post
  <1>3. seq # Null
    BY <1>1, NullAssumption
  <1>4. Grows(t, top)
    <2>1. tip \in seq..Newest
      BY <1>1 DEF BackMoves, OrderInv, NewestIs
    <2> QED
      BY <1>1, <2>1, LedgersGrow DEF Post
  <1>5. /\ Post(tip)' = top /\ snapSeq' = snapSeq /\ Post(Base(low))' = s /\ Post(Base(low)) = t
        /\ \A o : Lost(o)' <=> Lost(o)
    BY <1>1 DEF BackMoves, Post, Base, Lost
  <1>6. ClosedDone /\ OpenRows /\ OpenKnown /\ DoneKnown /\ OfferRows
    BY <1>1 DEF OfferInv, BackMoves
  <1> HIDE DEF t, s, b, top
  <1>7. /\ DOMAIN offer' = DOMAIN offer \cup DOMAIN b
        /\ \A o \in DOMAIN offer : offer'[o] = offer[o]
        /\ \A o \in DOMAIN b : o \notin DOMAIN offer =>
             offer'[o].closed = (IF o \in t.done THEN seq ELSE Null) /\ "closed" \in DOMAIN offer'[o]
    BY <1>1, <1>2 DEF OffersInserted
  <1>8. OfferRows'
    BY <1>6, <1>7 DEF OfferRows
  <1>9. ClosedDone'
    <2>1. t.done \subseteq top.done
      BY <1>4 DEF Grows
    <2> QED
      BY <1>5, <1>6, <1>7, <2>1 DEF ClosedDone, top
  <1>10. OpenRows'
    <2> SUFFICES ASSUME NEW o \in DOMAIN offer', offer'[o].closed = Null PROVE o \in top.open \/ Lost(o)
      BY <1>5 DEF OpenRows
    <2>1. CASE o \in DOMAIN offer
      BY <1>6, <1>7, <2>1 DEF OpenRows, top
    <2>2. CASE o \notin DOMAIN offer
      <3>1. o \in t.open /\ o \notin t.done
        BY <1>2, <1>3, <1>7, <2>2
      <3>2. o \in top.open \/ o \in top.done
        BY <1>4, <3>1 DEF Grows
      <3> QED
        BY <1>5, <1>6, <2>2, <3>1, <3>2 DEF DoneKnown, top
    <2> QED
      BY <2>1, <2>2
  <1>11. OpenKnown'
    BY <1>2, <1>5, <1>6, <1>7 DEF OpenKnown, top
  <1>12. DoneKnown'
    BY <1>2, <1>5, <1>6, <1>7 DEF DoneKnown, top
  <1> QED
    BY <1>8, <1>9, <1>10, <1>11, <1>12 DEF OfferInv

LEMMA OfferStep ==
  ASSUME ChainInv, NewestIs, OrderInv, OfferInv,
         QuietStep \/ SnapStep(SnapOf) \/ \E seq : LiveStep(seq) \/ BackStep(seq)
  PROVE  OfferInv'
  BY OfferQuiet, OfferSnap, OfferLive, OfferBack

LEMMA OffersAreExact == ChainInv /\ NewestIs /\ OrderInv /\ OfferInv => OffersExact
  <1> SUFFICES ASSUME ChainInv, NewestIs, OrderInv, low # 0, ClosedDone, OpenRows, OpenKnown PROVE OffersExact
    BY DEF OfferInv, OffersExact
  <1>1. tip \in 1..Newest
    BY DEF OrderInv, NewestIs
  <1>2. Post(tip).open \cap Post(tip).done = {}
    BY <1>1 DEF ChainInv, StateOk, Post
  <1> QED
    BY <1>2 DEF ClosedDone, OpenRows, OpenKnown, OffersExact, Lost, Post, Base


-----------------------------------------------------------------------------
(* Sales. *)

SalesAt(k) == SaleBatch(chain[k].txs, k)

\* The table holds what the ledgers replayed say, no more and no less.
SalesKnown ==
  /\ \A x \in DOMAIN sales : \E k \in Replayed : x \in DOMAIN SalesAt(k) /\ sales[x] = SalesAt(k)[x]
  /\ \A k \in Replayed : DOMAIN SalesAt(k) \subseteq DOMAIN sales

LEMMA ReplayedLive ==
  ASSUME OrderInv, NEW seq, seq \in Nat, seq >= 1, LiveMoves(seq)
  PROVE  Replayed' = Replayed \cup {seq}
  <1>1. CASE tip = 0
    <2>1. Replayed = {} /\ low' = seq /\ tip' = seq /\ fresh' = FALSE
      BY <1>1 DEF OrderInv, LiveMoves, Replayed
    <2>2. Replayed' = seq..seq
      BY <2>1 DEF Replayed
    <2> QED
      BY <2>1, <2>2
  <1>2. CASE tip # 0
    <2>1. low # 0 /\ low' = low /\ tip' = seq /\ snapSeq' = snapSeq /\ fresh' = fresh /\ low \in Nat /\ low <= seq
      BY <1>2 DEF OrderInv, LiveMoves
    <2> DEFINE gap == IF fresh THEN {snapSeq} ELSE {}
    <2>2. Replayed = (low..tip) \ gap /\ Replayed' = (low..seq) \ gap
      BY <2>1 DEF Replayed
    <2>3. low..seq = (low..tip) \cup {seq}
      BY <1>2, <2>1 DEF OrderInv, LiveMoves
    <2>4. seq \notin gap
      BY <1>2 DEF OrderInv, LiveMoves
    <2> QED
      BY <2>2, <2>3, <2>4
  <1> QED
    BY <1>1, <1>2

LEMMA ReplayedBack ==
  ASSUME OrderInv, NEW seq, seq \in Nat, seq >= 1, BackMoves(seq)
  PROVE  Replayed' = Replayed \cup {seq}
  <1>1. low # 0 /\ low = seq + 1 /\ low' = seq /\ tip' = tip /\ snapSeq' = snapSeq /\ fresh' = fresh
    BY DEF BackMoves
  <1> DEFINE gap == IF fresh THEN {snapSeq} ELSE {}
  <1>2. Replayed = (low..tip) \ gap /\ Replayed' = (seq..tip) \ gap
    BY <1>1 DEF Replayed
  <1>3. seq..tip = (low..tip) \cup {seq}
    BY <1>1 DEF OrderInv
  <1>4. seq \notin gap
    BY <1>1 DEF OrderInv
  <1> QED
    BY <1>2, <1>3, <1>4

LEMMA ReplayedSnap ==
  ASSUME NewestIs, OrderInv, NEW seq, SnapMoves(seq)
  PROVE  Replayed' = Replayed
  <1>1. CASE low = 0
    <2>1. low' = seq /\ tip' = seq /\ snapSeq' = seq /\ fresh' = TRUE /\ seq \in Nat
      BY <1>1 DEF OrderInv, SnapMoves, NewestIs
    <2>2. Replayed = {} /\ Replayed' = (IF seq = 0 THEN {} ELSE (seq..seq) \ {seq})
      BY <1>1, <2>1 DEF Replayed
    <2> QED
      BY <2>1, <2>2
  <1>2. CASE low # 0
    <2>1. low' = low /\ tip' = tip /\ fresh = FALSE /\ fresh' = FALSE
      BY <1>2 DEF OrderInv, SnapMoves
    <2> QED
      BY <2>1 DEF Replayed
  <1> QED
    BY <1>1, <1>2

LEMMA ReplayedIn ==
  ASSUME NewestIs, OrderInv, NEW k \in Replayed
  PROVE  low # 0 /\ k \in low..tip /\ k \in 1..Newest
  BY DEF NewestIs, OrderInv, Replayed

LEMMA SaleKeys ==
  ASSUME NEW txs, NEW k, NEW x \in DOMAIN SaleBatch(txs, k)
  PROVE  x[1] = k
  <1>1. PICK i \in {i \in DOMAIN txs : txs[i].type = "NFTokenAcceptOffer"} : x \in {<<k, i, j>> : j \in DOMAIN txs[i].offers}
    BY DEF SaleBatch
  <1> QED
    BY <1>1

LEMMA SalesStep ==
  ASSUME NewestIs, OrderInv, SalesKnown,
         QuietStep \/ SnapStep(SnapOf) \/ \E seq : LiveStep(seq) \/ BackStep(seq)
  PROVE  SalesKnown'
  <1>1. CASE QuietStep
    <2>1. sales' = sales /\ Replayed' = Replayed
      BY <1>1 DEF QuietStep, orderVars, Replayed
    <2>2. \A k \in Replayed : SalesAt(k)' = SalesAt(k)
      BY <1>1, ReplayedIn DEF QuietStep, Kept, SalesAt
    <2> QED
      BY <2>1, <2>2 DEF SalesKnown
  <1>2. CASE SnapStep(SnapOf)
    <2>1. sales' = sales /\ chain' = chain /\ Replayed' = Replayed
      BY <1>2, ReplayedSnap DEF SnapStep
    <2> QED
      BY <2>1 DEF SalesKnown, SalesAt
  <1>3. ASSUME NEW seq, LiveStep(seq) \/ BackStep(seq) PROVE SalesKnown'
    <2>1. seq \in 1..Newest /\ chain' = chain /\ sales' = OrElse(sales, SalesAt(seq))
      BY <1>3 DEF LiveStep, BackStep, SalesInserted, SalesAt
    <2>2. Replayed' = Replayed \cup {seq}
      <3>1. seq \in Nat /\ seq >= 1
        BY <2>1
      <3> QED
        BY <1>3, <3>1, ReplayedLive, ReplayedBack DEF LiveStep, BackStep
    <2>3. /\ DOMAIN sales' = DOMAIN sales \cup DOMAIN SalesAt(seq)
          /\ \A x \in DOMAIN sales : sales'[x] = sales[x]
          /\ \A x \in DOMAIN SalesAt(seq) : x \notin DOMAIN sales => sales'[x] = SalesAt(seq)[x]
      <3> DEFINE f == SalesAt(seq)
      <3>1. sales' = OrElse(sales, f)
        BY <2>1
      <3> HIDE DEF f
      <3>2. /\ DOMAIN sales' = DOMAIN sales \cup DOMAIN f
            /\ \A x \in DOMAIN sales : sales'[x] = sales[x]
            /\ \A x \in DOMAIN f : x \notin DOMAIN sales => sales'[x] = f[x]
        BY <3>1 DEF OrElse
      <3> QED
        BY <3>2 DEF f
    <2>4. \A k : SalesAt(k)' = SalesAt(k)
      BY <2>1 DEF SalesAt
    <2> QED
      BY <2>2, <2>3, <2>4 DEF SalesKnown
  <1> QED
    BY <1>1, <1>2, <1>3

LEMMA SingleTx ==
  ASSUME ChainInv, NEW k \in 1..Newest, Len(chain[k].txs) = 1
  PROVE  /\ k \in 2..Newest /\ k - 1 \in 1..Newest /\ Base(k) = k - 1
         /\ StateOk(Post(k - 1)) /\ StateOk(Post(k))
         /\ \E x \in Outcomes(Post(k - 1)) : chain[k].txs[1] = x.tx /\ Post(k) = x.post
  <1>1. k # 1
    BY DEF ChainInv
  <1>2. k \in 2..Newest /\ k - 1 \in 1..Newest /\ Base(k) = k - 1
    BY <1>1 DEF Base, ChainInv, IsSeq, Newest
  <1>3. Follows(Post(k - 1), chain[k].txs, Post(k))
    BY <1>2 DEF ChainInv, Post
  <1>4. PICK st : Through(Post(k - 1), chain[k].txs, Post(k), st)
    BY <1>3 DEF Follows
  <1>5. st[0] = Post(k - 1) /\ st[1] = Post(k) /\ \E x \in Outcomes(st[0]) : chain[k].txs[1] = x.tx /\ st[1] = x.post
    <2>1. 1 \in 1..Len(chain[k].txs) /\ 1 - 1 = 0
      OBVIOUS
    <2>2. \E x \in Outcomes(st[1 - 1]) : chain[k].txs[1] = x.tx /\ st[1] = x.post
      BY <1>4, <2>1 DEF Through
    <2> QED
      BY <1>4, <2>1, <2>2 DEF Through
  <1> QED
    BY <1>2, <1>5 DEF ChainInv, Post

SaleOfTx(tx) == {Sale(tx.offers[j].offer, tx.taker) : j \in DOMAIN tx.offers}

\* The rows of a ledger of one transaction.
LEMMA SaleRows ==
  ASSUME NEW txs, DOMAIN txs = {1}, NEW k
  PROVE  LET b == SaleBatch(txs, k)
         IN {b[x] : x \in DOMAIN b} = IF txs[1].type = "NFTokenAcceptOffer" THEN SaleOfTx(txs[1]) ELSE {}
  <1> DEFINE b == SaleBatch(txs, k)
             accepts == {i \in DOMAIN txs : txs[i].type = "NFTokenAcceptOffer"}
             keys == UNION {{<<k, i, j>> : j \in DOMAIN txs[i].offers} : i \in accepts}
             tx == txs[1]
  <1>1. DOMAIN b = keys /\ \A x \in keys : b[x] = Sale(txs[x[2]].offers[x[3]].offer, txs[x[2]].taker)
    BY DEF SaleBatch
  <1>2. accepts = IF tx.type = "NFTokenAcceptOffer" THEN {1} ELSE {}
    OBVIOUS
  <1> HIDE DEF b, tx
  <1>3. CASE tx.type = "NFTokenAcceptOffer"
    <2>1. \A x : x \in keys <=> \E j \in DOMAIN tx.offers : x = <<k, 1, j>>
      BY <1>2, <1>3 DEF tx
    <2> HIDE DEF keys, accepts
    <2>2. \A j \in DOMAIN tx.offers : <<k, 1, j>> \in keys /\ b[<<k, 1, j>>] = Sale(tx.offers[j].offer, tx.taker)
      BY <1>1, <2>1 DEF tx
    <2>3. {b[x] : x \in DOMAIN b} = SaleOfTx(tx)
      <3> DEFINE R == SaleOfTx(tx)
      <3>1. \A y : y \in R <=> \E j \in DOMAIN tx.offers : y = Sale(tx.offers[j].offer, tx.taker)
        BY DEF SaleOfTx
      <3> HIDE DEF R
      <3>2. \A x \in DOMAIN b : b[x] \in R
        BY <1>1, <2>1, <2>2, <3>1
      <3>3. ASSUME NEW y \in R PROVE \E x \in DOMAIN b : y = b[x]
        <4>1. PICK j \in DOMAIN tx.offers : y = Sale(tx.offers[j].offer, tx.taker)
          BY <3>1
        <4>2. <<k, 1, j>> \in DOMAIN b /\ b[<<k, 1, j>>] = y
          BY <1>1, <2>2, <4>1
        <4> QED
          BY <4>2
      <3>4. {b[x] : x \in DOMAIN b} = R
        BY <3>2, <3>3
      <3> QED
        BY <3>4 DEF R
    <2> QED
      BY <1>3, <2>3 DEF tx, b
  <1>4. CASE tx.type # "NFTokenAcceptOffer"
    <2>1. keys = {}
      BY <1>2, <1>4
    <2>2. {b[x] : x \in DOMAIN b} = {}
      BY <1>1, <2>1
    <2> QED
      BY <1>4, <2>2 DEF tx, b
  <1> QED
    BY <1>3, <1>4

\* The rows of an accepted offer lead from the holder before to the one after.
SalesLead(rows, tx, before, after) ==
  LET n == tx.offers[1].offer[1] IN
  /\ Cardinality(rows) = Len(tx.offers) /\ \A r \in rows : r.nft = n
  /\ {r.seller : r \in rows} \ {r.buyer : r \in rows} = {before.held[n][1]}
  /\ {r.buyer : r \in rows} \ {r.seller : r \in rows} = {after.held[n][1]}

LEMMA OneSale ==
  ASSUME NEW s, NEW t, NEW tx, NEW o, NEW taker, DOMAIN tx.offers = {1}, Len(tx.offers) = 1,
         tx.offers[1].offer = o, tx.taker = taker,
         LET r == Sale(o, taker) IN r.seller = s.held[o[1]][1] /\ r.buyer = t.held[o[1]][1] /\ r.seller # r.buyer
  PROVE  SalesLead(SaleOfTx(tx), tx, s, t)
  <1> DEFINE r == Sale(o, taker)
             rows == SaleOfTx(tx)
  <1>1. rows = {r}
    BY DEF SaleOfTx
  <1>2. r.nft = o[1]
    BY DEF Sale
  <1>3. r.seller = s.held[o[1]][1] /\ r.buyer = t.held[o[1]][1] /\ r.seller # r.buyer
    OBVIOUS
  <1> HIDE DEF r, rows
  <1>4. Cardinality(rows) = 1
    BY <1>1, FS_Singleton
  <1>5. {q.seller : q \in rows} = {r.seller} /\ {q.buyer : q \in rows} = {r.buyer}
    BY <1>1
  <1>6. SalesLead(rows, tx, s, t)
    BY <1>1, <1>2, <1>3, <1>4, <1>5 DEF SalesLead
  <1> QED
    BY <1>6 DEF rows

LEMMA TwoSales ==
  ASSUME NEW s, NEW t, NEW tx, NEW o, NEW p, DOMAIN tx.offers = {1, 2}, Len(tx.offers) = 2,
         tx.offers[1].offer = o, tx.offers[2].offer = p, o[1] = p[1], o[3], ~p[3],
         o[2] = s.held[o[1]][1], p[2] = t.held[o[1]][1], o[2] # p[2], tx.taker \notin {o[2], p[2]}
  PROVE  SalesLead(SaleOfTx(tx), tx, s, t)
  <1> DEFINE q == Sale(o, tx.taker)
             r == Sale(p, tx.taker)
             rows == SaleOfTx(tx)
  <1>1. rows = {q, r}
    BY DEF SaleOfTx
  <1>2. q.nft = o[1] /\ q.seller = o[2] /\ q.buyer = tx.taker
    BY DEF Sale
  <1>3. r.nft = o[1] /\ r.seller = tx.taker /\ r.buyer = p[2]
    BY DEF Sale
  <1> HIDE DEF q, r, rows
  <1>4. q # r
    BY <1>2, <1>3
  <1>5. Cardinality(rows) = 2
    <2>1. IsFiniteSet({q}) /\ Cardinality({q}) = 1
      BY FS_Singleton
    <2>2. Cardinality({q} \cup {r}) = Cardinality({q}) + 1
      BY <1>4, <2>1, FS_AddElement
    <2>3. {q} \cup {r} = rows
      BY <1>1
    <2> QED
      BY <2>1, <2>2, <2>3
  <1>6. {x.seller : x \in rows} = {o[2], tx.taker} /\ {x.buyer : x \in rows} = {tx.taker, p[2]}
    BY <1>1, <1>2, <1>3
  <1>7. SalesLead(rows, tx, s, t)
    BY <1>1, <1>2, <1>3, <1>5, <1>6 DEF SalesLead
  <1> QED
    BY <1>7 DEF rows


\* Accepting <<o>> moves its NFT from seller to buyer, which are not the same.
LEMMA AcceptOne ==
  ASSUME NEW s, StateOk(s), NEW o \in s.open, NEW taker, NEW b \in Owners, NEW h \in Moves(s, o[1], b),
         LET r == Sale(o, taker) IN r.seller = s.held[o[1]][1] /\ r.buyer = b /\ r.seller # r.buyer
  PROVE  LET x == Accept(s, taker, <<o>>, h) IN SalesLead(SaleOfTx(x.tx), x.tx, s, x.post)
  <1> DEFINE x == Accept(s, taker, <<o>>, h)
             tx == x.tx
             t == x.post
  <1>1. s.held \in Holdings /\ o[1] \in DOMAIN s.held
    BY DEF StateOk, States
  <1>2. IsMoved(s.held, o[1], b, h)
    BY <1>1, MovesIs
  <1>3. tx.taker = taker /\ tx.offers = [i \in DOMAIN <<o>> |-> Node(<<o>>[i], "deleted")]
    BY DEF Accept, Tx
  <1>4. t.held = h
    <2>1. t = [s EXCEPT !.held = h, !.open = s.open \ ToSet(<<o>>), !.done = s.done \cup ToSet(<<o>>)]
      BY DEF Accept
    <2>2. "held" \in DOMAIN s
      BY DEF StateOk, States
    <2> HIDE DEF t
    <2> QED
      BY <2>1, <2>2
  <1> HIDE DEF x, t, tx
  <1>5. tx.offers = <<Node(o, "deleted")>>
    BY <1>3
  <1>6. DOMAIN tx.offers = {1} /\ Len(tx.offers) = 1 /\ tx.offers[1].offer = o
    BY <1>5 DEF Node
  <1>7. t.held[o[1]][1] = b
    BY <1>2, <1>4 DEF IsMoved
  <1>8. SalesLead(SaleOfTx(tx), tx, s, t)
    BY <1>3, <1>6, <1>7, OneSale
  <1> QED
    BY <1>8 DEF x, tx, t

LEMMA AcceptTwo ==
  ASSUME NEW s, StateOk(s), NEW o \in s.open, NEW p \in s.open, NEW taker, p[2] \in Owners,
         NEW h \in Moves(s, o[1], p[2]),
         o[1] = p[1], o[3], ~p[3], o[2] = s.held[o[1]][1], o[2] # p[2], taker \notin {o[2], p[2]}
  PROVE  LET x == Accept(s, taker, <<o, p>>, h) IN SalesLead(SaleOfTx(x.tx), x.tx, s, x.post)
  <1> DEFINE x == Accept(s, taker, <<o, p>>, h)
             tx == x.tx
             t == x.post
  <1>1. s.held \in Holdings /\ o[1] \in DOMAIN s.held
    BY DEF StateOk, States
  <1>2. IsMoved(s.held, o[1], p[2], h)
    BY <1>1, MovesIs
  <1>3. tx.taker = taker /\ tx.offers = [i \in DOMAIN <<o, p>> |-> Node(<<o, p>>[i], "deleted")]
    BY DEF Accept, Tx
  <1>4. t.held = h
    <2>1. t = [s EXCEPT !.held = h, !.open = s.open \ ToSet(<<o, p>>), !.done = s.done \cup ToSet(<<o, p>>)]
      BY DEF Accept
    <2>2. "held" \in DOMAIN s
      BY DEF StateOk, States
    <2> HIDE DEF t
    <2> QED
      BY <2>1, <2>2
  <1> HIDE DEF x, t, tx
  <1>5. tx.offers = <<Node(o, "deleted"), Node(p, "deleted")>>
    BY <1>3
  <1>6. DOMAIN tx.offers = {1, 2} /\ Len(tx.offers) = 2 /\ tx.offers[1].offer = o /\ tx.offers[2].offer = p
    BY <1>5 DEF Node
  <1>7. t.held[o[1]][1] = p[2]
    BY <1>2, <1>4 DEF IsMoved
  <1>8. SalesLead(SaleOfTx(tx), tx, s, t)
    BY <1>3, <1>6, <1>7, TwoSales
  <1> QED
    BY <1>8 DEF x, tx, t

LEMMA AcceptLeads ==
  ASSUME NEW s, StateOk(s), NEW x \in Outcomes(s), x.tx.type = "NFTokenAcceptOffer"
  PROVE  SalesLead(SaleOfTx(x.tx), x.tx, s, x.post)
  <1>0. \A o \in s.open : o[2] \in Owners /\ s.held[o[1]][1] \in Owners
    <2>1. \A o \in s.open : o[2] \in Owners /\ o[1] \in DOMAIN s.held
      BY NftAssumption DEF StateOk, States
    <2> QED
      BY <2>1, OwnerOfHeld
  <1>1. CASE x \in Mints(s)
    <2>1. x.tx.type = "NFTokenMint"
      BY <1>1 DEF Mints, Mint, Tx
    <2> QED
      BY <2>1
  <1>2. CASE x \in Burns(s)
    <2>1. PICK n \in DOMAIN s.held : x \in {Burn(s, n, h) : h \in TakeOff(s.held, n)}
      BY <1>2 DEF Burns
    <2>2. PICK h \in TakeOff(s.held, n) : x = Burn(s, n, h)
      BY <2>1
    <2>3. x.tx.type = "NFTokenBurn"
      BY <2>2 DEF Burn, Tx
    <2> QED
      BY <2>3
  <1>3. CASE x \in Creates(s)
    <2>1. x.tx.type = "NFTokenCreateOffer"
      BY <1>3 DEF Creates, Tx
    <2> QED
      BY <2>1
  <1>4. CASE x \in Cancels(s)
    <2>1. PICK o \in s.open :
            x = [tx   |-> Tx("NFTokenCancelOffer", o[2], <<>>, <<Node(o, "deleted")>>),
                 post |-> [s EXCEPT !.open = @ \ {o}, !.done = @ \cup {o}]]
      BY <1>4 DEF Cancels
    <2>2. x.tx.type = "NFTokenCancelOffer"
      BY <2>1 DEF Tx
    <2> QED
      BY <2>2
  <1>5. CASE x \in Bought(s)
    <2>1. PICK o \in Sells(s) : x \in UNION {{Accept(s, b, <<o>>, h) : h \in Moves(s, o[1], b)} : b \in Owners \ {o[2]}}
      BY <1>5 DEF Bought
    <2>2. PICK b \in Owners \ {o[2]} : x \in {Accept(s, b, <<o>>, h) : h \in Moves(s, o[1], b)}
      BY <2>1
    <2>3. PICK h \in Moves(s, o[1], b) : x = Accept(s, b, <<o>>, h)
      BY <2>2
    <2>4. o \in s.open /\ o[3] /\ o[2] = s.held[o[1]][1]
      BY DEF Sells
    <2>5. LET r == Sale(o, b) IN r.seller = s.held[o[1]][1] /\ r.buyer = b /\ r.seller # r.buyer
      BY <2>4 DEF Sale
    <2> QED
      BY <2>3, <2>4, <2>5, AcceptOne
  <1>6. CASE x \in Sold(s)
    <2>1. PICK o \in Buys(s) : x \in {Accept(s, s.held[o[1]][1], <<o>>, h) : h \in Moves(s, o[1], o[2])}
      BY <1>6 DEF Sold
    <2>2. PICK h \in Moves(s, o[1], o[2]) : x = Accept(s, s.held[o[1]][1], <<o>>, h)
      BY <2>1
    <2>3. o \in s.open /\ ~o[3] /\ o[2] # s.held[o[1]][1]
      BY DEF Buys
    <2>4. LET r == Sale(o, s.held[o[1]][1]) IN r.seller = s.held[o[1]][1] /\ r.buyer = o[2] /\ r.seller # r.buyer
      BY <2>3 DEF Sale
    <2> QED
      BY <1>0, <2>2, <2>3, <2>4, AcceptOne
  <1>7. CASE x \in Brokered(s)
    <2>1. PICK o \in Sells(s) :
            x \in UNION {UNION {{Accept(s, t, <<o, p>>, h) : h \in Moves(s, o[1], p[2])} :
                                  t \in Owners \ {o[2], p[2]}} :
                           p \in {q \in Buys(s) : q[1] = o[1]}}
      BY <1>7 DEF Brokered
    <2>2. PICK p \in {q \in Buys(s) : q[1] = o[1]} :
            x \in UNION {{Accept(s, t, <<o, p>>, h) : h \in Moves(s, o[1], p[2])} : t \in Owners \ {o[2], p[2]}}
      BY <2>1
    <2>3. PICK t \in Owners \ {o[2], p[2]} : x \in {Accept(s, t, <<o, p>>, h) : h \in Moves(s, o[1], p[2])}
      BY <2>2
    <2>4. PICK h \in Moves(s, o[1], p[2]) : x = Accept(s, t, <<o, p>>, h)
      BY <2>3
    <2>5. o \in s.open /\ o[3] /\ o[2] = s.held[o[1]][1]
      BY DEF Sells
    <2>6. p \in s.open /\ ~p[3] /\ p[1] = o[1] /\ p[2] # s.held[o[1]][1]
      BY DEF Buys
    <2> QED
      BY <1>0, <2>3, <2>4, <2>5, <2>6, AcceptTwo
  <1> QED
    BY <1>1, <1>2, <1>3, <1>4, <1>5, <1>6, <1>7 DEF Outcomes

LEMMA SalesAreExact == ChainInv /\ NewestIs /\ OrderInv /\ SalesKnown => SalesExact
  <1> SUFFICES ASSUME ChainInv, NewestIs, OrderInv, SalesKnown PROVE SalesExact
    OBVIOUS
  <1>1. ASSUME NEW x \in DOMAIN sales PROVE x[1] \in Replayed /\ x \in DOMAIN SalesAt(x[1]) /\ sales[x] = SalesAt(x[1])[x]
    <2>1. PICK k \in Replayed : x \in DOMAIN SalesAt(k) /\ sales[x] = SalesAt(k)[x]
      BY DEF SalesKnown
    <2>2. x[1] = k
      BY <2>1, SaleKeys DEF SalesAt
    <2> QED
      BY <2>1, <2>2
  <1>2. ASSUME NEW k \in Replayed, Len(chain[k].txs) = 1
        PROVE  LET tx   == chain[k].txs[1]
                   rows == {sales[x] : x \in {y \in DOMAIN sales : y[1] = k}}
                   sellers == {r.seller : r \in rows}
                   buyers  == {r.buyer : r \in rows}
               IN IF tx.type # "NFTokenAcceptOffer" THEN rows = {}
                  ELSE LET n == tx.offers[1].offer[1] IN
                       /\ Cardinality(rows) = Len(tx.offers) /\ \A r \in rows : r.nft = n
                       /\ sellers \ buyers = {Held(k - 1)[n][1]}
                       /\ buyers \ sellers = {Held(k)[n][1]}
    <2> DEFINE tx == chain[k].txs[1]
               rows == {sales[x] : x \in {y \in DOMAIN sales : y[1] = k}}
               b == SalesAt(k)
    <2>1. k \in 1..Newest
      BY ReplayedIn
    <2>2. \A x : (x \in DOMAIN sales /\ x[1] = k) <=> x \in DOMAIN b
      <3>1. \A x \in DOMAIN b : x[1] = k
        BY SaleKeys DEF SalesAt
      <3>2. DOMAIN b \subseteq DOMAIN sales
        BY DEF SalesKnown
      <3> QED
        BY <1>1, <3>1, <3>2
    <2>3. \A x \in DOMAIN b : sales[x] = b[x]
      BY <1>1, <2>2
    <2>4. rows = {b[x] : x \in DOMAIN b}
      <3> HIDE DEF b
      <3> QED
        BY <2>2, <2>3
    <2>5. rows = IF tx.type = "NFTokenAcceptOffer" THEN SaleOfTx(tx) ELSE {}
      <3>1. DOMAIN chain[k].txs = {1}
        <4>1. IsSeq(chain[k].txs)
          BY <2>1 DEF ChainInv
        <4> QED
          BY <1>2, <4>1 DEF IsSeq
      <3>2. {b[x] : x \in DOMAIN b} = IF tx.type = "NFTokenAcceptOffer" THEN SaleOfTx(tx) ELSE {}
        BY <3>1, SaleRows DEF SalesAt
      <3> HIDE DEF rows, b, tx
      <3> QED
        BY <2>4, <3>2
    <2>6. PICK y \in Outcomes(Post(k - 1)) : tx = y.tx /\ Post(k) = y.post
      BY <1>2, <2>1, SingleTx
    <2>7. StateOk(Post(k - 1))
      BY <1>2, <2>1, SingleTx
    <2> HIDE DEF rows, b, tx
    <2>8. CASE tx.type = "NFTokenAcceptOffer"
      <3>1. SalesLead(SaleOfTx(tx), tx, Post(k - 1), Post(k))
        BY <2>6, <2>7, <2>8, AcceptLeads
      <3>2. SalesLead(rows, tx, Post(k - 1), Post(k))
        BY <2>5, <2>8, <3>1
      <3> QED
        BY <2>8, <3>2 DEF SalesLead, Post, Held, tx, rows
    <2>9. CASE tx.type # "NFTokenAcceptOffer"
      BY <2>5, <2>9 DEF tx, rows
    <2> QED
      BY <2>8, <2>9
  <1> QED
    BY <1>1, <1>2 DEF SalesExact



-----------------------------------------------------------------------------
(* Births and deaths of one transaction. *)

\* An owner has NFTs before and after, on other pages.
Regrouped(held, next) ==
  \E o \in Owners : UsedPages(held, o) # {} /\ UsedPages(next, o) # {} /\ UsedPages(held, o) # UsedPages(next, o)

LEMMA RegroupedIs ==
  ASSUME NEW held \in Holdings, NEW next \in Holdings, NEW n \in DOMAIN held, NEW m \in DOMAIN next,
         held[n][1] = next[m][1],
         NEW q \in PagesOf(held[n][1]), ComesOrGoes(held, next, q)
  PROVE  Regrouped(held, next)
  <1> DEFINE o == held[n][1]
  <1>1. held[n] \in Pages /\ next[m] \in Pages /\ o \in Owners
    BY HoldingIs, PageIs
  <1>2. held[n] \in UsedPages(held, o) /\ next[m] \in UsedPages(next, o)
    BY <1>1 DEF UsedPages, PagesOf, On
  <1>3. UsedPages(held, o) # UsedPages(next, o)
    BY DEF UsedPages, ComesOrGoes
  <1> QED
    BY <1>1, <1>2, <1>3 DEF Regrouped

\* The nodes of a transaction about n, page by page.
LEMMA NodeAt ==
  ASSUME NEW held, NEW next, NEW n, NEW i \in 1..Len(PageNodes(held, next, n))
  PROVE  PageSeq[i] \in Pages /\ PageNodes(held, next, n)[i] = PageNode(held, next, n, PageSeq[i])
  BY PageNodesLength, PagesAre

\* An NFT that arrives on a page by the mint of another one has had its pages regrouped.
LEMMA MintArrives ==
  ASSUME NEW held \in Holdings, NEW n, NEW o, NEW next, IsPut(held, n, o, next),
         NEW m, m # n, ArrivesIn(PageNodes(held, next, n), m)
  PROVE  Regrouped(held, next)
  <1>1. PICK i \in 1..Len(PageNodes(held, next, n)) :
          m \in PageNodes(held, next, n)[i].after /\ m \notin PageNodes(held, next, n)[i].before
    BY DEF ArrivesIn
  <1> DEFINE p == PageSeq[i]
  <1>2. p \in Pages /\ m \in PageNode(held, next, n, p).after /\ m \notin PageNode(held, next, n, p).before
    BY <1>1, NodeAt
  <1> HIDE DEF p
  <1>3. m \in On(next, p) /\ (On(held, p) # On(next, p) \/ Linked(held, next, p))
    BY <1>2 DEF PageNode
  <1>4. next \in Holdings /\ m \in DOMAIN held /\ m \in DOMAIN next /\ next[m] = p /\ next[m][1] = held[m][1]
    BY <1>3 DEF On, IsPut
  <1>5. CASE held[m] = p
    <2>1. On(held, p) = On(next, p)
      <3>1. m \in On(held, p)
        BY <1>4, <1>5 DEF On
      <3> QED
        BY <1>2, <1>3, <3>1 DEF PageNode
    <2>2. PICK q \in PagesOf(p[1]) : ComesOrGoes(held, next, q)
      BY <1>3, <2>1 DEF Linked
    <2> QED
      BY <1>4, <1>5, <2>2, RegroupedIs
  <1>6. CASE held[m] # p
    <2>1. On(held, p) = {} /\ p \in PagesOf(held[m][1])
      BY <1>2, <1>4, <1>6 DEF IsPut, PagesOf
    <2>2. ComesOrGoes(held, next, p)
      BY <1>3, <2>1 DEF ComesOrGoes
    <2> QED
      BY <1>4, <2>1, <2>2, RegroupedIs
  <1> QED
    BY <1>5, <1>6

\* An NFT that leaves a page by the burn of another one has had its pages regrouped.
LEMMA BurnLeaves ==
  ASSUME NEW held \in Holdings, NEW n, NEW next, IsTaken(held, n, next),
         NEW m, m # n, NEW i \in 1..Len(PageNodes(held, next, n)),
         m \in PageNodes(held, next, n)[i].before, m \notin PageNodes(held, next, n)[i].after
  PROVE  Regrouped(held, next)
  <1> DEFINE p == PageSeq[i]
  <1>2. p \in Pages /\ m \in PageNode(held, next, n, p).before /\ m \notin PageNode(held, next, n, p).after
    BY NodeAt
  <1> HIDE DEF p
  <1>3. m \in On(held, p) /\ m \notin On(next, p)
    BY <1>2 DEF PageNode
  <1>4. next \in Holdings /\ m \in DOMAIN held /\ m \in DOMAIN next /\ held[m] = p /\ next[m] # p
        /\ next[m][1] = held[m][1]
    BY <1>3 DEF On, IsTaken
  <1>5. On(next, p) = {} /\ p \in PagesOf(held[m][1])
    BY <1>2, <1>4 DEF IsTaken, PagesOf
  <1>6. ComesOrGoes(held, next, p)
    BY <1>3, <1>5 DEF ComesOrGoes
  <1> QED
    BY <1>4, <1>5, <1>6, RegroupedIs

\* The nodes of a burn show it, unless the NFT was alone on its page.
LEMMA BurnSeen ==
  ASSUME NEW held \in Holdings, NEW n \in DOMAIN held, NEW next, IsTaken(held, n, next),
         On(held, held[n]) # {n}
  PROVE  \E i \in 1..Len(PageNodes(held, next, n)) :
           n \in PageNodes(held, next, n)[i].before /\ n \notin PageNodes(held, next, n)[i].after
  <1>1. PICK i \in 1..Len(PageSeq) : PageSeq[i] = held[n]
    BY HoldingIs, PageIs
  <1> DEFINE p == held[n]
  <1>2. i \in 1..Len(PageNodes(held, next, n)) /\ PageNodes(held, next, n)[i] = PageNode(held, next, n, p)
    BY <1>1, PageNodesLength
  <1>3. n \in On(held, p) /\ n \notin On(next, p)
    BY DEF On, IsTaken
  <1>4. On(held, p) \ {n} # {} /\ On(held, p) \ {n} # On(held, p)
    BY <1>3
  <1> HIDE DEF p
  <1>5. PageNode(held, next, n, p).before = On(held, p) /\ PageNode(held, next, n, p).after = On(next, p)
    BY <1>3, <1>4 DEF PageNode
  <1> QED
    BY <1>2, <1>3, <1>5

\* What a transaction from s to t tells about the NFTs that came and went.
ArrivalsTell(s, tx, t) ==
  tx.type = "NFTokenMint" =>
    \A n : Arrives(tx, n) => (n \in DOMAIN t.held /\ n \notin DOMAIN s.held \cup s.burned) \/ Regrouped(s.held, t.held)
LeavesTell(s, tx, t) ==
  \A n : Leaves(tx, n) => (n \in t.burned /\ n \notin s.burned) \/ Regrouped(s.held, t.held)
BurnsSeen(s, tx, t) ==
  \A n \in t.burned : n \notin s.burned /\ On(s.held, s.held[n]) # {n} =>
    Leaves(tx, n) /\ (Offered(tx, n) => \E o \in s.open : o[1] = n)
OnlyMints(s, tx, t) == \A n \in DOMAIN t.held : n \notin DOMAIN s.held => tx.type = "NFTokenMint"

TxTells(s, tx, t) ==
  ArrivalsTell(s, tx, t) /\ LeavesTell(s, tx, t) /\ BurnsSeen(s, tx, t) /\ OnlyMints(s, tx, t)

LEMMA OthersTell ==
  ASSUME NEW s, NEW tx, NEW t, tx.type \notin {"NFTokenMint", "NFTokenBurn"},
         t.burned = s.burned, DOMAIN t.held \subseteq DOMAIN s.held
  PROVE  TxTells(s, tx, t)
  BY DEF TxTells, ArrivalsTell, LeavesTell, BurnsSeen, OnlyMints, Leaves, LeavesAt

LEMMA MintTells ==
  ASSUME NEW s, StateOk(s), NEW n \in Nfts \ (DOMAIN s.held \cup s.burned), NEW o \in Owners,
         NEW h \in PutOn(s.held, n, o)
  PROVE  TxTells(s, Mint(s, n, o, h).tx, Mint(s, n, o, h).post)
  <1> DEFINE t == Mint(s, n, o, h).post
             tx == Mint(s, n, o, h).tx
  <1>1. s.held \in Holdings
    BY DEF StateOk, States
  <1>2. IsPut(s.held, n, o, h)
    BY <1>1, PutOnIs
  <1>3. t = [s EXCEPT !.held = h] /\ tx.pages = PageNodes(s.held, h, n) /\ tx.type = "NFTokenMint"
    BY DEF Mint, Tx
  <1> HIDE DEF t, tx
  <1>4. t.held = h /\ t.burned = s.burned
    BY <1>3 DEF StateOk, States
  <1>5. ArrivalsTell(s, tx, t)
    <2> SUFFICES ASSUME NEW m, Arrives(tx, m)
                 PROVE  (m \in DOMAIN h /\ m \notin DOMAIN s.held \cup s.burned) \/ Regrouped(s.held, h)
      BY <1>4 DEF ArrivalsTell
    <2>1. ArrivesIn(PageNodes(s.held, h, n), m)
      BY <1>3 DEF Arrives, ArrivesAt, ArrivesIn
    <2>2. CASE m # n
      BY <1>1, <1>2, <2>1, <2>2, MintArrives
    <2>3. CASE m = n
      BY <1>2, <2>3 DEF IsPut
    <2> QED
      BY <2>2, <2>3
  <1>6. LeavesTell(s, tx, t) /\ BurnsSeen(s, tx, t) /\ OnlyMints(s, tx, t)
    BY <1>3, <1>4 DEF LeavesTell, Leaves, LeavesAt, BurnsSeen, OnlyMints
  <1>7. TxTells(s, tx, t)
    BY <1>5, <1>6 DEF TxTells
  <1> QED
    BY <1>7 DEF t, tx

LEMMA BurnTells ==
  ASSUME NEW s, StateOk(s), NEW n \in DOMAIN s.held, NEW h \in TakeOff(s.held, n)
  PROVE  TxTells(s, Burn(s, n, h).tx, Burn(s, n, h).post)
  <1> DEFINE t == Burn(s, n, h).post
             tx == Burn(s, n, h).tx
             gone == {o \in s.open : o[1] = n}
  <1>1. s.held \in Holdings
    BY DEF StateOk, States
  <1>2. IsTaken(s.held, n, h)
    BY <1>1, TakeOffIs
  <1>3. /\ t = [s EXCEPT !.held = h, !.burned = s.burned \cup {n}, !.open = s.open \ gone, !.done = s.done \cup gone]
        /\ tx.pages = PageNodes(s.held, h, n) /\ tx.type = "NFTokenBurn"
    BY DEF Burn, Tx
  <1>0. TxOk(s, tx, t) /\ n \notin s.burned
    BY BurnOk DEF StateOk
  <1> HIDE DEF t, tx
  <1>4. t.held = h /\ t.burned = s.burned \cup {n} /\ t.open = s.open \ gone
    BY <1>3 DEF StateOk, States
  <1>5. LeavesTell(s, tx, t)
    <2> SUFFICES ASSUME NEW m, Leaves(tx, m) PROVE (m \in t.burned /\ m \notin s.burned) \/ Regrouped(s.held, h)
      BY <1>4 DEF LeavesTell
    <2>1. PICK i \in 1..Len(PageNodes(s.held, h, n)) :
            m \in PageNodes(s.held, h, n)[i].before /\ m \notin PageNodes(s.held, h, n)[i].after
      BY <1>3 DEF Leaves, LeavesAt
    <2>2. CASE m # n
      BY <1>1, <1>2, <2>1, <2>2, BurnLeaves
    <2>3. CASE m = n
      BY <1>0, <1>4, <2>3
    <2> QED
      BY <2>2, <2>3
  <1>6. BurnsSeen(s, tx, t)
    <2> SUFFICES ASSUME On(s.held, s.held[n]) # {n} PROVE Leaves(tx, n) /\ (Offered(tx, n) => \E o \in s.open : o[1] = n)
      BY <1>4 DEF BurnsSeen
    <2>1. Leaves(tx, n)
      BY <1>1, <1>2, <1>3, BurnSeen DEF Leaves, LeavesAt
    <2>2. ASSUME Offered(tx, n) PROVE \E o \in s.open : o[1] = n
      <3>1. PICK i \in 1..Len(tx.offers) : tx.offers[i].offer[1] = n
        BY <2>2 DEF Offered
      <3>2. OfferNodeOk(s, tx.offers[i], t)
        BY <1>0 DEF TxOk, OffersOk
      <3>3. tx.offers[i].offer \in s.open
        BY <1>4, <3>2 DEF OfferNodeOk
      <3> QED
        BY <3>1, <3>3
    <2> QED
      BY <2>1, <2>2
  <1>7. ArrivalsTell(s, tx, t) /\ OnlyMints(s, tx, t)
    BY <1>2, <1>3, <1>4 DEF ArrivalsTell, OnlyMints, IsTaken
  <1>8. TxTells(s, tx, t)
    BY <1>5, <1>6, <1>7 DEF TxTells
  <1> QED
    BY <1>8 DEF t, tx

LEMMA AcceptTells ==
  ASSUME NEW s, StateOk(s), NEW taker, NEW taken, NEW b, NEW h, Taken(s, taken, b, h)
  PROVE  TxTells(s, Accept(s, taker, taken, h).tx, Accept(s, taker, taken, h).post)
  <1> DEFINE t == Accept(s, taker, taken, h).post
             tx == Accept(s, taker, taken, h).tx
             n == taken[1][1]
             ends == ToSet(taken)
  <1>1. s.held \in Holdings
    BY DEF StateOk, States
  <1>2. n \in DOMAIN s.held
    BY DEF StateOk, Taken
  <1>3. IsMoved(s.held, n, b, h)
    BY <1>1, <1>2, MovesIs DEF Taken
  <1>4. t = [s EXCEPT !.held = h, !.open = s.open \ ends, !.done = s.done \cup ends] /\ tx.type = "NFTokenAcceptOffer"
    BY DEF Accept, Tx
  <1> HIDE DEF t, tx
  <1>5. t.held = h /\ t.burned = s.burned
    BY <1>4 DEF StateOk, States
  <1>6. TxTells(s, tx, t)
    BY <1>3, <1>4, <1>5, OthersTell DEF IsMoved
  <1> QED
    BY <1>6 DEF t, tx

LEMMA OutcomeTells ==
  ASSUME NEW s, StateOk(s), NEW x \in Outcomes(s)
  PROVE  TxTells(s, x.tx, x.post)
  <1>1. CASE x \in Mints(s)
    BY <1>1, MintTells DEF Mints
  <1>2. CASE x \in Burns(s)
    BY <1>2, BurnTells DEF Burns
  <1>3. CASE x \in Creates(s)
    <2>1. PICK o \in Offers \ (s.open \cup s.done) :
            x = [tx   |-> Tx("NFTokenCreateOffer", o[2], <<>>, <<Node(o, "created")>>),
                 post |-> [s EXCEPT !.open = s.open \cup {o}]]
      BY <1>3 DEF Creates
    <2>2. x.post.held = s.held /\ x.post.burned = s.burned /\ x.tx.type = "NFTokenCreateOffer"
      BY <2>1 DEF StateOk, States, Tx
    <2> QED
      BY <2>2, OthersTell
  <1>4. CASE x \in Cancels(s)
    <2>1. PICK o \in s.open :
            x = [tx   |-> Tx("NFTokenCancelOffer", o[2], <<>>, <<Node(o, "deleted")>>),
                 post |-> [s EXCEPT !.open = s.open \ {o}, !.done = s.done \cup {o}]]
      BY <1>4 DEF Cancels
    <2>2. x.post.held = s.held /\ x.post.burned = s.burned /\ x.tx.type = "NFTokenCancelOffer"
      BY <2>1 DEF StateOk, States, Tx
    <2> QED
      BY <2>2, OthersTell
  <1>5. CASE x \in Bought(s) \cup Sold(s) \cup Brokered(s)
    BY <1>5, AcceptedIs, AcceptTells DEF Accepted
  <1> QED
    BY <1>1, <1>2, <1>3, <1>4, <1>5 DEF Outcomes


-----------------------------------------------------------------------------
(* Lives. *)

Unclear(k) == Reorganised(k) \/ Len(chain[k].txs) # 1

\* What the batch of a ledger says of the NFTs that came and went in it.
MintsTrue(b, k) == \A n : Has(b, n, "mint") /\ b[n]["mint"] # Null => Minted(n, k) \/ Unclear(k)
BurnsTrue(b, k) == \A n : Has(b, n, "burn") => Burned(n, k) \/ Unclear(k)
BurnsTold(b, k) ==
  Len(chain[k].txs) = 1 =>
    \A n : Burned(n, k) /\ ~HeldAlone(n, k - 1) =>
      /\ Has(b, n, "burn") /\ b[n]["burn"] = k
      /\ (Has(b, n, "live") /\ b[n]["live"] = FALSE) \/ \E o \in chain[k - 1].post.open : o[1] = n
MintsTold(b, k) ==
  Len(chain[k].txs) = 1 => \A n : Minted(n, k) => Has(b, n, "mint") /\ b[n]["mint"] = k

LifeOk(b, k) == MintsTrue(b, k) /\ BurnsTrue(b, k) /\ BurnsTold(b, k) /\ MintsTold(b, k)

LEMMA SingleBatch ==
  ASSUME NEW k \in 1..Newest, Len(chain[k].txs) = 1, ListsOk(chain[k].txs[1])
  PROVE  TxEffect(chain[k].txs[1], <<>>, BatchAt(k), k)
  <1> DEFINE txs == chain[k].txs
  <1>1. Len(txs) \in Nat /\ Len(txs) = 1
    OBVIOUS
  <1> HIDE DEF txs
  <1>2. PICK f : Batches(txs, k, f)
    BY <1>1, Batching
  <1>3. f[0] = <<>> /\ NftBatch(txs, k) = f[1] /\ f[1] = MergeAll(f[0], TxPatches(txs[1], k))
    <2>1. 1 \in 1..Len(txs) /\ 1 - 1 = 0
      BY <1>1
    <2>2. f[1] = MergeAll(f[1 - 1], TxPatches(txs[1], k))
      BY <1>2, <2>1 DEF Batches
    <2> QED
      BY <1>1, <1>2, <2>1, <2>2 DEF Batches
  <1>4. NftBatch(txs, k) = MergeAll(<<>>, TxPatches(txs[1], k))
    BY <1>3
  <1> QED
    BY <1>4, TxEffectIs DEF BatchAt, txs

LEMMA LedgerTells ==
  ASSUME ChainInv, NEW k \in 1..Newest
  PROVE  LifeOk(BatchAt(k), k)
  <1>1. CASE Len(chain[k].txs) # 1
    BY <1>1 DEF LifeOk, MintsTrue, BurnsTrue, BurnsTold, MintsTold, Unclear
  <1>2. CASE Len(chain[k].txs) = 1
    <2> DEFINE s == Post(k - 1)
               t == Post(k)
               tx == chain[k].txs[1]
               b == BatchAt(k)
    <2>1. /\ k \in 2..Newest /\ StateOk(s) /\ StateOk(t)
          /\ \E x \in Outcomes(s) : tx = x.tx /\ t = x.post
      BY <1>2, SingleTx
    <2>2. TxOk(s, tx, t) /\ TxTells(s, tx, t)
      BY <2>1, OutcomeOk, OutcomeTells
    <2>3. TxEffect(tx, <<>>, b, k)
      BY <1>2, <2>2, TxListsOk, SingleBatch
    <2>4. /\ \A n : Minted(n, k) <=> (n \in DOMAIN t.held \/ n \in t.burned) /\ n \notin DOMAIN s.held /\ n \notin s.burned
          /\ \A n : Burned(n, k) <=> n \in t.burned /\ n \notin s.burned
          /\ \A n : HeldAlone(n, k - 1) <=> On(s.held, s.held[n]) = {n}
          /\ Reorganised(k) <=> Regrouped(s.held, t.held)
      BY <2>1 DEF Minted, Burned, Ever, HeldAlone, Reorganised, Regrouped, Held, Post
    <2>5. /\ s.burned \subseteq t.burned /\ t.burned \subseteq s.burned \cup DOMAIN s.held
          /\ t.burned \cap DOMAIN t.held = {}
          /\ \A n \in DOMAIN t.held : n \notin DOMAIN s.held => Arrives(tx, n)
          /\ \A n : Arrives(tx, n) => n \in DOMAIN t.held
      BY <2>1, <2>2 DEF TxOk, StateOk, NodesOk, ArrivesIn, Arrives, ArrivesAt
    <2>6. /\ \A n : Has(b, n, "mint") => Arrives(tx, n)
          /\ \A n : Arrives(tx, n) => Has(b, n, "mint") /\ b[n]["mint"] = MintOf(tx, k)
          /\ \A n : Has(b, n, "burn") <=> Leaves(tx, n)
          /\ \A n : Leaves(tx, n) => b[n]["burn"] = k
          /\ \A n : Leaves(tx, n) /\ ~Arrives(tx, n) /\ ~Offered(tx, n) => Has(b, n, "live") /\ b[n]["live"] = FALSE
      <3>1. \A n, f : ~Has(<<>>, n, f)
        BY DEF Has
      <3> QED
        BY <2>3, <3>1 DEF TxEffect, OwnersSet, BurnsSet, LivesSet, SameField
    <2> HIDE DEF s, t, tx, b
    <2>7. MintsTrue(b, k)
      BY <2>2, <2>4, <2>6 DEF MintsTrue, MintOf, TxTells, ArrivalsTell, Unclear
    <2>8. BurnsTrue(b, k)
      BY <2>2, <2>4, <2>6 DEF BurnsTrue, TxTells, LeavesTell, Unclear
    <2>9. BurnsTold(b, k)
      <3> SUFFICES ASSUME NEW n, Burned(n, k), ~HeldAlone(n, k - 1)
                   PROVE  /\ Has(b, n, "burn") /\ b[n]["burn"] = k
                          /\ (Has(b, n, "live") /\ b[n]["live"] = FALSE) \/ \E o \in s.open : o[1] = n
        BY DEF BurnsTold, s, Post
      <3>1. Leaves(tx, n) /\ (Offered(tx, n) => \E o \in s.open : o[1] = n)
        BY <2>2, <2>4 DEF TxTells, BurnsSeen
      <3>2. ~Arrives(tx, n)
        BY <2>4, <2>5
      <3> QED
        BY <2>6, <3>1, <3>2
    <2>10. MintsTold(b, k)
      BY <2>2, <2>4, <2>5, <2>6 DEF MintsTold, MintOf, TxTells, OnlyMints
    <2> QED
      BY <2>7, <2>8, <2>9, <2>10 DEF LifeOk, b
  <1> QED
    BY <1>1, <1>2


\* Rows are of NFTs that existed, none of which was burned before the range; what they
\* say of a life is true; and the births and deaths replayed are there.
RowsAlive == \A n \in DOMAIN nft : n \in Ever(tip) /\ n \notin Post(Base(low)).burned
MintsRight ==
  \A n \in DOMAIN nft : nft[n].mint # Null =>
    nft[n].mint \in 1..tip /\ (Minted(n, nft[n].mint) \/ Unclear(nft[n].mint))
BurnsRight ==
  \A n \in DOMAIN nft : nft[n].burn # Null =>
    nft[n].burn \in 1..tip /\ (Burned(n, nft[n].burn) \/ Unclear(nft[n].burn))
DeadBurned == \A n \in DOMAIN nft : ~nft[n].live => nft[n].burn # Null
DeathTold(n, k) ==
  n \in DOMAIN nft /\ nft[n].burn = k /\ (nft[n].live => \E o \in chain[k - 1].post.open : o[1] = n)
DeathsTold ==
  \A k \in Replayed : Len(chain[k].txs) = 1 => \A n : Burned(n, k) /\ ~HeldAlone(n, k - 1) => DeathTold(n, k)
BirthsTold ==
  \A k \in Replayed : Len(chain[k].txs) = 1 /\ fresh /\ k > snapSeq =>
    \A n : Minted(n, k) => n \in DOMAIN nft /\ nft[n].mint = k

LifeInv == low # 0 => RowsAlive /\ MintsRight /\ BurnsRight /\ DeadBurned /\ DeathsTold /\ BirthsTold

\* The facts about a ledger stay when others follow.
LEMMA LedgersStay ==
  ASSUME Newest \in Nat, Kept, NEW k \in 1..Newest
  PROVE  /\ chain'[k] = chain[k] /\ Reorganised(k)' = Reorganised(k) /\ Unclear(k)' = Unclear(k)
         /\ \A n : /\ Minted(n, k)' = Minted(n, k) /\ Burned(n, k)' = Burned(n, k)
                   /\ k > 1 => HeldAlone(n, k - 1)' = HeldAlone(n, k - 1)
                   /\ k > 1 => chain'[k - 1] = chain[k - 1]
  <1>1. chain'[k] = chain[k] /\ (k > 1 => chain'[k - 1] = chain[k - 1])
    BY DEF Kept
  <1>2. /\ Reorganised(k)' = Reorganised(k)
        /\ \A n : /\ Minted(n, k)' = Minted(n, k) /\ Burned(n, k)' = Burned(n, k)
                  /\ k > 1 => HeldAlone(n, k - 1)' = HeldAlone(n, k - 1)
    BY <1>1 DEF Reorganised, Minted, Burned, HeldAlone, Ever, Held
  <1> QED
    BY <1>1, <1>2 DEF Unclear

LEMMA LifeQuiet ==
  ASSUME NewestIs, OrderInv, LifeInv, QuietStep
  PROVE  LifeInv'
  <1> SUFFICES ASSUME low # 0
               PROVE  (RowsAlive /\ MintsRight /\ BurnsRight /\ DeadBurned /\ DeathsTold /\ BirthsTold)'
    BY DEF LifeInv, QuietStep, orderVars
  <1>1. UNCHANGED <<nft, low, tip, snapSeq, fresh>> /\ Replayed' = Replayed /\ Kept
    BY DEF QuietStep, orderVars, Replayed
  <1>2. tip \in 1..Newest /\ Base(low) \in 1..Newest
    BY DEF OrderInv, NewestIs, Base
  <1>3. Ever(tip)' = Ever(tip) /\ Post(Base(low))' = Post(Base(low))
    BY <1>1, <1>2 DEF Kept, Ever, Held, Post, Base
  <1>4. RowsAlive /\ MintsRight /\ BurnsRight /\ DeadBurned /\ DeathsTold /\ BirthsTold
    BY DEF LifeInv
  <1>5. RowsAlive' /\ DeadBurned'
    BY <1>1, <1>3, <1>4 DEF RowsAlive, DeadBurned
  <1>6. \A k \in 1..tip : k \in 1..Newest
    BY <1>2 DEF NewestIs
  <1>7. \A k \in 1..Newest : /\ Unclear(k)' = Unclear(k)
                             /\ \A n : Minted(n, k)' = Minted(n, k) /\ Burned(n, k)' = Burned(n, k)
    BY <1>1, LedgersStay DEF NewestIs
  <1>8. MintsRight'
    BY <1>1, <1>4, <1>6, <1>7 DEF MintsRight
  <1>9. BurnsRight'
    BY <1>1, <1>4, <1>6, <1>7 DEF BurnsRight
  <1>10. DeathsTold'
    <2> SUFFICES ASSUME NEW k \in Replayed, Len(chain'[k].txs) = 1, NEW n, Burned(n, k)', ~HeldAlone(n, k - 1)'
                 PROVE  DeathTold(n, k)'
      BY <1>1 DEF DeathsTold
    <2>1. k \in 1..Newest
      BY ReplayedIn
    <2>2. chain'[k] = chain[k] /\ Burned(n, k)
      BY <1>1, <2>1, LedgersStay DEF NewestIs
    <2>3. k > 1
      BY <2>2 DEF Burned
    <2>4. ~HeldAlone(n, k - 1) /\ chain'[k - 1] = chain[k - 1]
      BY <1>1, <2>1, <2>3, LedgersStay DEF NewestIs
    <2>5. DeathTold(n, k)
      BY <1>4, <2>2, <2>4 DEF DeathsTold
    <2> QED
      BY <1>1, <2>4, <2>5 DEF DeathTold
  <1>11. BirthsTold'
    <2>1. \A k \in Replayed : k \in 1..Newest
      BY ReplayedIn
    <2>2. \A k \in Replayed : chain'[k] = chain[k]
      BY <1>1, <2>1 DEF Kept
    <2> QED
      BY <1>1, <1>4, <1>7, <2>1, <2>2 DEF BirthsTold
  <1> QED
    BY <1>5, <1>8, <1>9, <1>10, <1>11

\* In a step that adds no ledger the facts about the ledgers stay.
LEMMA SameChain ==
  ASSUME UNCHANGED chain
  PROVE  \A k : /\ Unclear(k)' = Unclear(k) /\ Ever(k)' = Ever(k) /\ Post(k)' = Post(k)
                /\ \A n : /\ Minted(n, k)' = Minted(n, k) /\ Burned(n, k)' = Burned(n, k)
                          /\ HeldAlone(n, k)' = HeldAlone(n, k)
  BY DEF Unclear, Reorganised, Minted, Burned, HeldAlone, Ever, Held, Post

LEMMA LifeSnap ==
  ASSUME ChainInv, NewestIs, OrderInv, LifeInv, NEW seq, SnapStep(seq)
  PROVE  LifeInv'
  <1>1. /\ seq \in 1..Newest /\ tip' = seq /\ Replayed' = Replayed /\ UNCHANGED chain
        /\ low = 0 => low' = seq /\ nft = <<>> /\ Replayed = {}
        /\ low # 0 => low' = low /\ low \in 1..seq /\ tip = seq /\ fresh' = FALSE
    <2>1. SnapMoves(seq) /\ UNCHANGED chain /\ Replayed' = Replayed
      BY ReplayedSnap DEF SnapStep
    <2>2. seq \in 1..Newest /\ seq \in Nat /\ tip' = seq
      BY <2>1 DEF SnapMoves, NewestIs
    <2>3. low = 0 => low' = seq /\ nft = <<>> /\ Replayed = {}
      BY <2>1 DEF SnapMoves, OrderInv, Replayed
    <2>4. low # 0 => low' = low /\ low \in 1..seq /\ tip = seq /\ fresh' = FALSE
      BY <2>1, <2>2 DEF SnapMoves, OrderInv
    <2> QED
      BY <2>1, <2>2, <2>3, <2>4
  <1>2. /\ DOMAIN nft' = DOMAIN nft \cup DOMAIN Held(seq)
        /\ \A n \in DOMAIN nft : nft'[n] = nft[n]
        /\ \A n \in DOMAIN Held(seq) : n \notin DOMAIN nft =>
             nft'[n].mint = Null /\ nft'[n].burn = Null /\ nft'[n].live = TRUE
    BY DEF SnapStep, Walked
  <1>3. low # 0 => RowsAlive /\ MintsRight /\ BurnsRight /\ DeadBurned /\ DeathsTold
    BY DEF LifeInv
  <1>4. Base(low') \in 1..seq
    BY <1>1 DEF Base
  <1>5. \A n \in DOMAIN Held(seq) : n \notin Post(Base(low')).burned
    <2>1. Grows(Post(Base(low')), Post(seq))
      <3>1. Base(low') \in 1..Newest /\ seq \in Base(low')..Newest
        BY <1>1, <1>4 DEF NewestIs
      <3> QED
        BY <3>1, LedgersGrow DEF Post
    <2>2. Post(seq).burned \cap DOMAIN Held(seq) = {}
      BY DEF SnapStep, StateOk, Held, Post
    <2> QED
      BY <2>1, <2>2 DEF Grows
  <1>6. RowsAlive'
    <2> SUFFICES ASSUME NEW n \in DOMAIN nft' PROVE n \in Ever(seq) /\ n \notin Post(Base(low')).burned
      BY <1>1, SameChain DEF RowsAlive, Base, Ever, Held, Post
    <2>1. CASE n \in DOMAIN Held(seq)
      BY <1>5, <2>1 DEF Ever
    <2>2. CASE n \in DOMAIN nft
      BY <1>1, <1>3, <2>2 DEF RowsAlive
    <2> QED
      BY <1>2, <2>1, <2>2
  <1>7. MintsRight'
    BY <1>1, <1>2, <1>3, SameChain DEF MintsRight
  <1>8. BurnsRight'
    BY <1>1, <1>2, <1>3, SameChain DEF BurnsRight
  <1>9. DeadBurned'
    BY <1>1, <1>2, <1>3 DEF DeadBurned
  <1>10. DeathsTold'
    <2> SUFFICES ASSUME NEW k \in Replayed', Len(chain'[k].txs) = 1, NEW n, Burned(n, k)', ~HeldAlone(n, k - 1)'
                 PROVE  DeathTold(n, k)'
      BY DEF DeathsTold
    <2>1. low # 0 /\ k \in Replayed /\ Len(chain[k].txs) = 1
      BY <1>1
    <2>2. Burned(n, k) /\ ~HeldAlone(n, k - 1)
      BY <1>1, SameChain
    <2>3. DeathTold(n, k)
      BY <1>3, <2>1, <2>2 DEF DeathsTold
    <2> QED
      BY <1>1, <1>2, <2>3 DEF DeathTold
  <1>11. BirthsTold'
    BY <1>1 DEF BirthsTold
  <1> QED
    BY <1>6, <1>7, <1>8, <1>9, <1>10, <1>11 DEF LifeInv


\* A row after a step, from the row before and the batch.
Bv(b, n, f) == IF Has(b, n, f) THEN b[n][f] ELSE Null
Dies(b, n) == Has(b, n, "live") /\ b[n]["live"] = FALSE

LEMMA UpsertedRow ==
  ASSUME NEW b, NEW seq, FieldsOk(b, seq), Upserted(b), NEW n \in DOMAIN b
  PROVE  /\ n \in DOMAIN nft'
         /\ n \notin DOMAIN nft => /\ nft'[n].mint = Bv(b, n, "mint") /\ nft'[n].burn = Bv(b, n, "burn")
                                   /\ nft'[n].live <=> ~Dies(b, n)
         /\ n \in DOMAIN nft => /\ nft'[n].mint = Coalesce(nft[n].mint, Bv(b, n, "mint"))
                                /\ nft'[n].burn = Coalesce(Bv(b, n, "burn"), nft[n].burn)
                                /\ nft'[n].live <=> nft[n].live /\ ~Dies(b, n)
  <1>1. PICK row : /\ RowIs(b, n, row)
                   /\ n \notin DOMAIN nft => nft'[n] = row
                   /\ n \in DOMAIN nft => /\ nft'[n].mint = Coalesce(nft[n].mint, row.mint)
                                          /\ nft'[n].burn = Coalesce(row.burn, nft[n].burn)
                                          /\ nft'[n].live = (nft[n].live /\ row.live)
    BY DEF Upserted
  <1>2. row.mint = Bv(b, n, "mint") /\ row.burn = Bv(b, n, "burn")
    BY <1>1 DEF RowIs, Bv
  <1>3. row.live = IF Has(b, n, "live") THEN b[n]["live"] ELSE TRUE
    BY <1>1 DEF RowIs
  <1>4. row.live = TRUE \/ row.live = FALSE
    BY <1>3 DEF FieldsOk
  <1>5. row.live <=> ~Dies(b, n)
    BY <1>3, <1>4 DEF Dies, FieldsOk
  <1>6. n \in DOMAIN nft'
    BY DEF Upserted
  <1> QED
    BY <1>1, <1>2, <1>5, <1>6

LEMMA LifeLive ==
  ASSUME ChainInv, NewestIs, OrderInv, LifeInv, NEW seq, LiveStep(seq)
  PROVE  LifeInv'
  <1> DEFINE b == BatchAt(seq)
  <1>0. seq \in 1..Newest /\ seq \in Nat /\ seq >= 1 /\ seq # Null /\ UNCHANGED chain /\ LiveMoves(seq)
    BY NullAssumption DEF LiveStep, NewestIs
  <1>1. Replayed' = Replayed \cup {seq} /\ tip' = seq
    BY <1>0, ReplayedLive DEF LiveMoves
  <1>2. low = 0 => low' = seq /\ DOMAIN nft = {} /\ Replayed = {} /\ fresh' = FALSE
    BY <1>0 DEF LiveMoves, OrderInv, Replayed
  <1>3. low # 0 => /\ low' = low /\ snapSeq' = snapSeq /\ fresh' = fresh /\ low \in 1..tip /\ tip \in 1..seq
                   /\ tip = seq \/ (tip = Base(seq) /\ tip = seq - 1)
    <2>1. low # 0 => low' = low /\ snapSeq' = snapSeq /\ fresh' = fresh /\ (tip = seq \/ (tip = Base(seq) /\ tip = seq - 1))
      BY <1>0 DEF LiveMoves, OrderInv
    <2>2. low # 0 => low \in 1..tip /\ tip \in Nat /\ tip >= 1
      BY DEF OrderInv
    <2> QED
      BY <1>0, <2>1, <2>2
  <1>4. FieldsOk(b, seq) /\ Upserted(b) /\ LifeOk(b, seq)
    BY <1>0, LedgerTells DEF LiveStep, LedgerOk, BatchOk
  <1>5. \A n \in DOMAIN b : n \in Ever(seq) /\ n \notin Post(Base(seq)).burned
    BY DEF LiveStep, LedgerOk, BatchOk, KeysOk, Ever, Held, Post
  <1>6. low # 0 => RowsAlive /\ MintsRight /\ BurnsRight /\ DeadBurned /\ DeathsTold /\ BirthsTold
    BY DEF LifeInv
  <1> HIDE DEF b
  <1>7. /\ DOMAIN nft' = DOMAIN nft \cup DOMAIN b
        /\ \A n \in DOMAIN nft : n \notin DOMAIN b => nft'[n] = nft[n]
    BY <1>4 DEF Upserted
  <1>8. \A n, f : Has(b, n, f) => n \in DOMAIN b
    BY DEF Has
  <1>9. RowsAlive'
    <2> SUFFICES ASSUME NEW n \in DOMAIN nft' PROVE n \in Ever(seq) /\ n \notin Post(Base(low')).burned
      BY <1>0, <1>1, SameChain DEF RowsAlive, Base, Ever, Held, Post
    <2>1. CASE n \in DOMAIN b
      <3>1. low' \in 1..seq
        BY <1>0, <1>2, <1>3
      <3>2. Base(low') \in 1..Newest /\ Base(seq) \in Base(low')..Newest
        <4>1. \A l \in 1..seq : Base(l) \in 1..Newest /\ Base(seq) \in Base(l)..Newest
          <5> SUFFICES ASSUME NEW l \in 1..seq PROVE Base(l) \in 1..Newest /\ Base(seq) \in Base(l)..Newest
            OBVIOUS
          <5>1. l \in Nat /\ Newest \in Nat /\ l <= seq /\ seq <= Newest /\ l >= 1
            BY <1>0 DEF NewestIs
          <5>2. Base(l) \in Nat /\ Base(l) >= 1 /\ Base(l) <= l /\ Base(seq) \in Nat /\ Base(seq) <= seq
            BY <1>0, <5>1 DEF Base
          <5>3. Base(l) <= Base(seq)
            BY <1>0, <5>1 DEF Base
          <5> QED
            BY <1>0, <5>1, <5>2, <5>3
        <4> QED
          BY <3>1, <4>1
      <3>3. Post(Base(low')).burned \subseteq Post(Base(seq)).burned
        BY <3>2, LedgersGrow DEF Grows, Post
      <3> QED
        BY <1>5, <2>1, <3>3
    <2>2. CASE n \in DOMAIN nft
      <3>1. low # 0 /\ tip \in 1..Newest /\ seq \in tip..Newest
        BY <1>0, <1>2, <1>3, <2>2 DEF NewestIs
      <3>2. Grows(Post(tip), Post(seq))
        BY <3>1, LedgersGrow DEF Post
      <3>3. n \in Ever(tip) /\ n \notin Post(Base(low)).burned
        BY <1>6, <2>2, <3>1 DEF RowsAlive
      <3> QED
        BY <1>3, <3>1, <3>2, <3>3 DEF Grows, Ever, Held, Post
    <2> QED
      BY <1>7, <2>1, <2>2
  <1>10. MintsRight'
    <2> SUFFICES ASSUME NEW n \in DOMAIN nft', nft'[n].mint # Null
                 PROVE  nft'[n].mint \in 1..seq /\ (Minted(n, nft'[n].mint) \/ Unclear(nft'[n].mint))
      BY <1>0, <1>1, SameChain DEF MintsRight
    <2>1. CASE n \in DOMAIN nft /\ nft'[n].mint = nft[n].mint
      <3>1. low # 0 /\ tip \in 1..seq
        BY <1>2, <1>3, <2>1
      <3>2. nft[n].mint \in 1..tip /\ (Minted(n, nft[n].mint) \/ Unclear(nft[n].mint))
        BY <1>6, <2>1, <3>1 DEF MintsRight
      <3>3. nft[n].mint \in 1..seq
        BY <1>0, <3>1, <3>2
      <3> QED
        BY <2>1, <3>2, <3>3
    <2>2. CASE nft'[n].mint = Bv(b, n, "mint")
      <3>1. Has(b, n, "mint") /\ nft'[n].mint = b[n]["mint"] /\ b[n]["mint"] = seq
        BY <1>4, <2>2 DEF Bv, FieldsOk
      <3> QED
        BY <1>0, <1>4, <3>1 DEF LifeOk, MintsTrue
    <2>3. n \notin DOMAIN b => n \in DOMAIN nft /\ nft'[n].mint = nft[n].mint
      BY <1>7
    <2>4. n \in DOMAIN b => nft'[n].mint = Bv(b, n, "mint") \/ (n \in DOMAIN nft /\ nft'[n].mint = nft[n].mint)
      BY <1>4, UpsertedRow DEF Coalesce
    <2> QED
      BY <2>1, <2>2, <2>3, <2>4
  <1>11. BurnsRight'
    <2> SUFFICES ASSUME NEW n \in DOMAIN nft', nft'[n].burn # Null
                 PROVE  nft'[n].burn \in 1..seq /\ (Burned(n, nft'[n].burn) \/ Unclear(nft'[n].burn))
      BY <1>0, <1>1, SameChain DEF BurnsRight
    <2>1. CASE n \in DOMAIN nft /\ nft'[n].burn = nft[n].burn
      <3>1. low # 0 /\ tip \in 1..seq
        BY <1>2, <1>3, <2>1
      <3>2. nft[n].burn \in 1..tip /\ (Burned(n, nft[n].burn) \/ Unclear(nft[n].burn))
        BY <1>6, <2>1, <3>1 DEF BurnsRight
      <3>3. nft[n].burn \in 1..seq
        BY <1>0, <3>1, <3>2
      <3> QED
        BY <2>1, <3>2, <3>3
    <2>2. CASE nft'[n].burn = Bv(b, n, "burn")
      <3>1. Has(b, n, "burn") /\ nft'[n].burn = b[n]["burn"] /\ b[n]["burn"] = seq
        BY <1>4, <2>2 DEF Bv, FieldsOk
      <3> QED
        BY <1>0, <1>4, <3>1 DEF LifeOk, BurnsTrue
    <2>3. n \notin DOMAIN b => n \in DOMAIN nft /\ nft'[n].burn = nft[n].burn
      BY <1>7
    <2>4. n \in DOMAIN b => nft'[n].burn = Bv(b, n, "burn") \/ (n \in DOMAIN nft /\ nft'[n].burn = nft[n].burn)
      BY <1>4, UpsertedRow DEF Coalesce
    <2> QED
      BY <2>1, <2>2, <2>3, <2>4
  <1>12. DeadBurned'
    <2> SUFFICES ASSUME NEW n \in DOMAIN nft', ~nft'[n].live PROVE nft'[n].burn # Null
      BY DEF DeadBurned
    <2>1. CASE n \notin DOMAIN b
      BY <1>2, <1>6, <1>7, <2>1 DEF DeadBurned
    <2>2. CASE n \in DOMAIN b
      <3>1. Dies(b, n) => Bv(b, n, "burn") = seq
        BY <1>4 DEF Dies, Bv, FieldsOk
      <3>2. CASE Dies(b, n)
        BY <1>0, <1>4, <2>2, <3>1, <3>2, UpsertedRow DEF Coalesce
      <3>3. CASE ~Dies(b, n)
        <4>1. n \in DOMAIN nft /\ ~nft[n].live /\ nft'[n].burn = Coalesce(Bv(b, n, "burn"), nft[n].burn)
          BY <1>4, <2>2, <3>3, UpsertedRow
        <4>2. nft[n].burn # Null
          BY <1>2, <1>6, <4>1 DEF DeadBurned
        <4> QED
          BY <4>1, <4>2 DEF Coalesce
      <3> QED
        BY <3>2, <3>3
    <2> QED
      BY <2>1, <2>2
  <1>13. DeathsTold'
    <2> SUFFICES ASSUME NEW k \in Replayed', Len(chain'[k].txs) = 1, NEW n, Burned(n, k)', ~HeldAlone(n, k - 1)'
                 PROVE  DeathTold(n, k)'
      BY DEF DeathsTold
    <2>1. Len(chain[k].txs) = 1 /\ Burned(n, k) /\ ~HeldAlone(n, k - 1)
      BY <1>0, SameChain
    <2>2. CASE k = seq
      <3>1. /\ Has(b, n, "burn") /\ b[n]["burn"] = k
            /\ Dies(b, n) \/ \E o \in chain[k - 1].post.open : o[1] = n
        BY <1>4, <2>1, <2>2 DEF LifeOk, BurnsTold, Dies
      <3>2. Bv(b, n, "burn") = k /\ k # Null /\ n \in DOMAIN b
        BY <1>0, <1>8, <2>2, <3>1 DEF Bv
      <3>3. n \in DOMAIN nft' /\ nft'[n].burn = k /\ (nft'[n].live => ~Dies(b, n))
        BY <1>4, <3>2, UpsertedRow DEF Coalesce
      <3> QED
        BY <1>0, <3>1, <3>3 DEF DeathTold
    <2>3. CASE k # seq
      <3>1. k \in Replayed /\ low # 0 /\ k \in low..tip /\ k \in 1..Newest
        BY <1>1, <2>3, ReplayedIn
      <3>2. DeathTold(n, k)
        BY <1>6, <2>1, <3>1 DEF DeathsTold
      <3>3. Base(seq) \in k..Newest
        BY <1>0, <1>3, <2>3, <3>1 DEF Base, NewestIs
      <3>4. n \in Post(Base(seq)).burned
        BY <2>1, <3>1, <3>3, LedgersGrow DEF Grows, Post, Burned
      <3>5. nft'[n] = nft[n] /\ n \in DOMAIN nft'
        BY <1>5, <1>7, <3>2, <3>4 DEF DeathTold
      <3> QED
        BY <1>0, <3>2, <3>5 DEF DeathTold
    <2> QED
      BY <2>2, <2>3
  <1>14. BirthsTold'
    <2> SUFFICES ASSUME NEW k \in Replayed', Len(chain'[k].txs) = 1, fresh', k > snapSeq', NEW n, Minted(n, k)'
                 PROVE  n \in DOMAIN nft' /\ nft'[n].mint = k
      BY DEF BirthsTold
    <2>1. low # 0 /\ fresh /\ k > snapSeq /\ Len(chain[k].txs) = 1 /\ Minted(n, k)
      BY <1>0, <1>2, <1>3, SameChain
    <2>2. CASE k \in Replayed
      <3>1. n \in DOMAIN nft /\ nft[n].mint = k /\ k # Null
        <4>1. k \in 1..Newest
          BY <2>2, ReplayedIn
        <4>2. k # Null
          BY <4>1, NullAssumption DEF NewestIs
        <4> QED
          BY <1>6, <2>1, <2>2, <4>2 DEF BirthsTold
      <3>2. n \in DOMAIN b => nft'[n].mint = k
        BY <1>4, <3>1, UpsertedRow DEF Coalesce
      <3> QED
        BY <1>7, <3>1, <3>2
    <2>3. CASE k \notin Replayed
      <3>1. k = seq /\ tip = seq - 1
        <4>1. k = seq
          BY <1>1, <2>3
        <4>2. tip # seq
          <5>1. tip = seq => seq \in Replayed
            BY <1>0, <1>3, <2>1, <4>1 DEF Replayed, OrderInv
          <5> QED
            BY <2>3, <4>1, <5>1
        <4> QED
          BY <1>3, <2>1, <4>1, <4>2
      <3>2. n \notin DOMAIN nft
        BY <1>6, <2>1, <3>1 DEF RowsAlive, Minted
      <3>3. Has(b, n, "mint") /\ b[n]["mint"] = k
        BY <1>4, <2>1, <3>1 DEF LifeOk, MintsTold
      <3>4. n \in DOMAIN b /\ Bv(b, n, "mint") = k
        BY <1>8, <3>3 DEF Bv
      <3> QED
        BY <1>4, <3>2, <3>4, UpsertedRow
    <2> QED
      BY <2>2, <2>3
  <1> QED
    BY <1>9, <1>10, <1>11, <1>12, <1>13, <1>14 DEF LifeInv


LEMMA LifeBack ==
  ASSUME ChainInv, NewestIs, OrderInv, LifeInv, NEW seq, BackStep(seq)
  PROVE  LifeInv'
  <1> DEFINE b == BatchAt(seq)
  <1>0. seq \in 1..Newest /\ seq \in Nat /\ seq >= 1 /\ seq # Null /\ UNCHANGED chain /\ BackMoves(seq)
    BY NullAssumption DEF BackStep, NewestIs
  <1>1. Replayed' = Replayed \cup {seq}
    BY <1>0, ReplayedBack
  <1>2. /\ low # 0 /\ low' = seq /\ low = seq + 1 /\ Base(low) = seq
        /\ tip' = tip /\ snapSeq' = snapSeq /\ fresh' = fresh
    BY <1>0 DEF BackMoves
  <1>3. tip \in 1..Newest /\ seq \in 1..tip /\ tip \in seq..Newest /\ (fresh => seq < snapSeq)
    BY <1>0, <1>2 DEF OrderInv, NewestIs
  <1>4. Inserted(b) /\ FieldsOk(b, seq) /\ LifeOk(b, seq)
    BY <1>0, LedgerTells DEF BackStep, LedgerOk, BatchOk
  <1>5. \A n \in DOMAIN b : n \in Ever(seq) /\ n \notin Post(Base(seq)).burned
    BY DEF BackStep, LedgerOk, BatchOk, KeysOk, Ever, Held, Post
  <1>6. RowsAlive /\ MintsRight /\ BurnsRight /\ DeadBurned /\ DeathsTold /\ BirthsTold
    BY <1>2 DEF LifeInv
  <1> HIDE DEF b
  <1>7. DOMAIN nft' = DOMAIN nft \cup DOMAIN b /\ \A n \in DOMAIN nft : nft'[n] = nft[n]
    BY <1>4 DEF Inserted
  <1>8. \A n \in DOMAIN b : n \notin DOMAIN nft =>
          /\ nft'[n].mint = Bv(b, n, "mint") /\ nft'[n].burn = Bv(b, n, "burn")
          /\ nft'[n].live = IF Has(b, n, "live") THEN b[n]["live"] ELSE TRUE
    BY <1>4 DEF Inserted, RowIs, Bv
  <1>9. RowsAlive'
    <2> SUFFICES ASSUME NEW n \in DOMAIN nft' PROVE n \in Ever(tip) /\ n \notin Post(Base(seq)).burned
      BY <1>0, <1>2, SameChain DEF RowsAlive, Base, Ever, Held, Post
    <2>1. CASE n \in DOMAIN b
      <3>1. Grows(Post(seq), Post(tip))
        BY <1>0, <1>3, LedgersGrow DEF Post
      <3> QED
        BY <1>5, <2>1, <3>1 DEF Grows, Ever, Held, Post
    <2>2. CASE n \in DOMAIN nft
      <3>1. Base(seq) \in 1..Newest /\ seq \in Base(seq)..Newest
        BY <1>0 DEF Base, NewestIs
      <3>2. Grows(Post(Base(seq)), Post(seq))
        BY <3>1, LedgersGrow DEF Post
      <3>3. n \in Ever(tip) /\ n \notin Post(seq).burned
        BY <1>2, <1>6, <2>2 DEF RowsAlive
      <3> QED
        BY <3>2, <3>3 DEF Grows
    <2> QED
      BY <1>7, <2>1, <2>2
  <1>10. MintsRight'
    <2> SUFFICES ASSUME NEW n \in DOMAIN nft', nft'[n].mint # Null
                 PROVE  nft'[n].mint \in 1..tip /\ (Minted(n, nft'[n].mint) \/ Unclear(nft'[n].mint))
      BY <1>0, <1>2, SameChain DEF MintsRight
    <2>1. CASE n \in DOMAIN nft
      BY <1>6, <1>7, <2>1 DEF MintsRight
    <2>2. CASE n \notin DOMAIN nft
      <3>1. Has(b, n, "mint") /\ nft'[n].mint = b[n]["mint"] /\ b[n]["mint"] = seq
        BY <1>4, <1>7, <1>8, <2>2 DEF Bv, FieldsOk
      <3> QED
        BY <1>0, <1>3, <1>4, <3>1 DEF LifeOk, MintsTrue
    <2> QED
      BY <2>1, <2>2
  <1>11. BurnsRight'
    <2> SUFFICES ASSUME NEW n \in DOMAIN nft', nft'[n].burn # Null
                 PROVE  nft'[n].burn \in 1..tip /\ (Burned(n, nft'[n].burn) \/ Unclear(nft'[n].burn))
      BY <1>0, <1>2, SameChain DEF BurnsRight
    <2>1. CASE n \in DOMAIN nft
      BY <1>6, <1>7, <2>1 DEF BurnsRight
    <2>2. CASE n \notin DOMAIN nft
      <3>1. Has(b, n, "burn") /\ nft'[n].burn = b[n]["burn"] /\ b[n]["burn"] = seq
        BY <1>4, <1>7, <1>8, <2>2 DEF Bv, FieldsOk
      <3> QED
        BY <1>0, <1>3, <1>4, <3>1 DEF LifeOk, BurnsTrue
    <2> QED
      BY <2>1, <2>2
  <1>12. DeadBurned'
    <2> SUFFICES ASSUME NEW n \in DOMAIN nft', ~nft'[n].live PROVE nft'[n].burn # Null
      BY DEF DeadBurned
    <2>1. CASE n \in DOMAIN nft
      BY <1>6, <1>7, <2>1 DEF DeadBurned
    <2>2. CASE n \notin DOMAIN nft
      <3>1. Has(b, n, "live") /\ ~b[n]["live"] /\ nft'[n].burn = Bv(b, n, "burn")
        BY <1>7, <1>8, <2>2
      <3> QED
        BY <1>0, <1>4, <3>1 DEF Bv, FieldsOk
    <2> QED
      BY <2>1, <2>2
  <1>13. DeathsTold'
    <2> SUFFICES ASSUME NEW k \in Replayed', Len(chain'[k].txs) = 1, NEW n, Burned(n, k)', ~HeldAlone(n, k - 1)'
                 PROVE  DeathTold(n, k)'
      BY DEF DeathsTold
    <2>1. Len(chain[k].txs) = 1 /\ Burned(n, k) /\ ~HeldAlone(n, k - 1)
      BY <1>0, SameChain
    <2>2. CASE k = seq
      <3>1. /\ Has(b, n, "burn") /\ b[n]["burn"] = k
            /\ Dies(b, n) \/ \E o \in chain[k - 1].post.open : o[1] = n
        BY <1>4, <2>1, <2>2 DEF LifeOk, BurnsTold, Dies
      <3>2. n \notin DOMAIN nft
        BY <1>2, <1>6, <2>1, <2>2 DEF RowsAlive, Burned, Post
      <3>3. n \in DOMAIN b /\ nft'[n].burn = k /\ (Dies(b, n) => nft'[n].live = FALSE)
        BY <1>8, <3>1, <3>2 DEF Has, Bv, Dies
      <3> QED
        BY <1>0, <1>7, <3>1, <3>3 DEF DeathTold
    <2>3. CASE k # seq
      <3>1. DeathTold(n, k)
        BY <1>1, <1>6, <2>1, <2>3 DEF DeathsTold
      <3> QED
        BY <1>0, <1>7, <3>1 DEF DeathTold
    <2> QED
      BY <2>2, <2>3
  <1>14. BirthsTold'
    <2> SUFFICES ASSUME NEW k \in Replayed', Len(chain'[k].txs) = 1, fresh, k > snapSeq, NEW n, Minted(n, k)'
                 PROVE  n \in DOMAIN nft' /\ nft'[n].mint = k
      BY <1>2 DEF BirthsTold
    <2>1. k # seq
      BY <1>0, <1>3 DEF OrderInv
    <2>2. Len(chain[k].txs) = 1 /\ Minted(n, k)
      BY <1>0, SameChain
    <2>3. n \in DOMAIN nft /\ nft[n].mint = k
      BY <1>1, <1>6, <2>1, <2>2 DEF BirthsTold
    <2> QED
      BY <1>7, <2>3
  <1> QED
    BY <1>9, <1>10, <1>11, <1>12, <1>13, <1>14 DEF LifeInv

LEMMA LifeStep ==
  ASSUME ChainInv, NewestIs, OrderInv, LifeInv,
         QuietStep \/ SnapStep(SnapOf) \/ \E seq : LiveStep(seq) \/ BackStep(seq)
  PROVE  LifeInv'
  BY LifeQuiet, LifeSnap, LifeLive, LifeBack

LEMMA LivesAreExact == NewestIs /\ OrderInv /\ LifeInv => LifeExact
  <1> SUFFICES ASSUME NewestIs, OrderInv, LifeInv PROVE LifeExact
    OBVIOUS
  <1>1. CASE low = 0
    <2>1. DOMAIN nft = {} /\ Replayed = {}
      BY <1>1 DEF OrderInv, Replayed
    <2> QED
      BY <2>1 DEF LifeExact
  <1>2. CASE low # 0
    <2>1. MintsRight /\ BurnsRight /\ DeadBurned /\ DeathsTold /\ BirthsTold
      BY <1>2 DEF LifeInv
    <2>2. \A n \in DOMAIN nft :
            /\ nft[n].mint # Null => Minted(n, nft[n].mint) \/ Unclear(nft[n].mint)
            /\ nft[n].burn # Null => Burned(n, nft[n].burn) \/ Unclear(nft[n].burn)
            /\ ~nft[n].live => nft[n].burn # Null
      BY <2>1 DEF MintsRight, BurnsRight, DeadBurned
    <2>3. \A k \in Replayed : Len(chain[k].txs) = 1 => \A n \in Nfts :
            /\ Burned(n, k) /\ ~HeldAlone(n, k - 1) =>
                 /\ nft[n].burn = k
                 /\ nft[n].live => \E o \in chain[k - 1].post.open : o[1] = n
            /\ fresh /\ k > snapSeq /\ Minted(n, k) => nft[n].mint = k
      BY <2>1 DEF DeathsTold, DeathTold, BirthsTold
    <2> QED
      BY <2>2, <2>3 DEF LifeExact, Unclear
  <1> QED
    BY <1>1, <1>2

-----------------------------------------------------------------------------
(* Types, and rows that refer to rows. *)

LEMMA TakerIs ==
  ASSUME NEW s, StateOk(s), NEW x \in Outcomes(s)
  PROVE  x.tx.taker \in Owners
  <1>0. \A n \in DOMAIN s.held : s.held[n][1] \in Owners
    BY OwnerOfHeld
  <1>1. \A o \in Offers : o[2] \in Owners
    BY NftAssumption
  <1>2. CASE x \in Mints(s)
    <2>1. PICK n \in Nfts \ (DOMAIN s.held \cup s.burned) :
            x \in UNION {{Mint(s, n, o, h) : h \in PutOn(s.held, n, o)} : o \in Owners}
      BY <1>2 DEF Mints
    <2>2. PICK o \in Owners : x \in {Mint(s, n, o, h) : h \in PutOn(s.held, n, o)}
      BY <2>1
    <2>3. PICK h \in PutOn(s.held, n, o) : x = Mint(s, n, o, h)
      BY <2>2
    <2> QED
      BY <2>3 DEF Mint, Tx
  <1>3. CASE x \in Burns(s)
    <2>1. PICK n \in DOMAIN s.held : x \in {Burn(s, n, h) : h \in TakeOff(s.held, n)}
      BY <1>3 DEF Burns
    <2>2. PICK h \in TakeOff(s.held, n) : x = Burn(s, n, h)
      BY <2>1
    <2> QED
      BY <1>0, <2>2 DEF Burn, Tx
  <1>4. CASE x \in Creates(s)
    <2>1. PICK o \in Offers :
            x = [tx   |-> Tx("NFTokenCreateOffer", o[2], <<>>, <<Node(o, "created")>>),
                 post |-> [s EXCEPT !.open = s.open \cup {o}]]
      BY <1>4 DEF Creates
    <2> QED
      BY <1>1, <2>1 DEF Tx
  <1>5. CASE x \in Cancels(s)
    <2>1. PICK o \in s.open :
            x = [tx   |-> Tx("NFTokenCancelOffer", o[2], <<>>, <<Node(o, "deleted")>>),
                 post |-> [s EXCEPT !.open = s.open \ {o}, !.done = s.done \cup {o}]]
      BY <1>5 DEF Cancels
    <2> QED
      BY <1>1, <2>1 DEF Tx, StateOk, States
  <1>6. CASE x \in Bought(s) \cup Sold(s) \cup Brokered(s)
    <2>1. PICK taker \in Owners : \E taken, b, h : x = Accept(s, taker, taken, h)
      BY <1>6, AcceptedIs DEF Accepted
    <2> QED
      BY <2>1 DEF Accept, Tx
  <1> QED
    BY <1>2, <1>3, <1>4, <1>5, <1>6 DEF Outcomes

\* The batch of a ledger has a patch, if only a stub, for every NFT with an offer in it.
LEMMA BatchCovers ==
  ASSUME NEW s, NEW txs, NEW t, Follows(s, txs, t), NEW seq
  PROVE  \A i \in 1..Len(txs) : \A n : Offered(txs[i], n) => n \in DOMAIN NftBatch(txs, seq)
  <1> DEFINE N == Len(txs)
  <1>1. N \in Nat
    BY DEF Follows, IsSeq
  <1>2. PICK st : Through(s, txs, t, st)
    BY DEF Follows
  <1>3. PICK f : Batches(txs, seq, f)
    BY <1>1, Batching
  <1>4. \A k \in 1..N : KeysSet(txs[k], f[k - 1], f[k])
    <2> SUFFICES ASSUME NEW k \in 1..N PROVE KeysSet(txs[k], f[k - 1], f[k])
      OBVIOUS
    <2>1. ListsOk(txs[k])
      BY <1>1, <1>2, StepOk, TxListsOk
    <2>2. TxEffect(txs[k], f[k - 1], f[k], seq)
      BY <1>3, <2>1, TxEffectIs DEF Batches
    <2> QED
      BY <2>2 DEF TxEffect
  <1> DEFINE Covers(k) == \A i \in 1..k : \A n : Offered(txs[i], n) => n \in DOMAIN f[k]
             bad == {k \in 0..N : ~Covers(k)}
  <1>5. ASSUME NEW m \in bad, \A y \in bad : m <= y PROVE FALSE
    <2>1. m \in 0..N /\ ~Covers(m)
      OBVIOUS
    <2>2. Covers(0)
      OBVIOUS
    <2>3. m \in 1..N /\ m - 1 \in 0..N
      BY <1>1, <2>1, <2>2
    <2>4. Covers(m - 1)
      <3>1. m - 1 \notin bad
        <4> HIDE DEF bad
        <4>1. ~(m <= m - 1)
          BY <2>3
        <4> QED
          BY <1>5, <4>1
      <3> HIDE DEF Covers
      <3> QED
        BY <2>3, <3>1
    <2>5. \A n : n \in DOMAIN f[m - 1] \/ Offered(txs[m], n) => n \in DOMAIN f[m]
      BY <1>4, <2>3 DEF KeysSet
    <2>6. \A i \in 1..m : i = m \/ i \in 1..(m - 1)
      BY <2>3
    <2>7. Covers(m)
      BY <2>4, <2>5, <2>6
    <2> QED
      BY <2>1, <2>7
  <1>6. bad = {}
    <2> HIDE DEF bad
    <2>1. bad \in SUBSET Nat
      BY <1>1 DEF bad
    <2> QED
      BY <1>5, <2>1, LeastNat
  <1>7. Covers(N)
    <2> HIDE DEF Covers
    <2> QED
      BY <1>1, <1>6
  <1> QED
    BY <1>3, <1>7 DEF Batches

\* The offers of a ledger, and the sales.
OffersFit(b, c, seq) ==
  \A o \in DOMAIN c : /\ o \in Offers /\ o[1] \in DOMAIN b
                      /\ c[o] = [created |-> seq, closed |-> seq] \/ c[o] = [created |-> seq, closed |-> Null]
SalesFit(b, c) == \A x \in DOMAIN c : c[x].nft \in DOMAIN b /\ c[x].seller \in Owners /\ c[x].buyer \in Owners

LEMMA LedgerFits ==
  ASSUME ChainInv, NEW seq \in 1..Newest
  PROVE  OffersFit(BatchAt(seq), OffersAt(seq), seq) /\ SalesFit(BatchAt(seq), SalesAt(seq))
  <1> DEFINE txs == chain[seq].txs
             s == chain[Base(seq)].post
             t == chain[seq].post
             b == BatchAt(seq)
  <1>1. Follows(s, txs, t)
    BY LedgerFollows
  <1>2. IsSeq(txs) /\ DOMAIN txs = 1..Len(txs) /\ Len(txs) \in Nat
    BY <1>1 DEF Follows, IsSeq
  <1>3. PICK st : Through(s, txs, t, st)
    BY <1>1 DEF Follows
  <1>4. \A i \in 1..Len(txs) : \A n : Offered(txs[i], n) => n \in DOMAIN b
    BY <1>1, BatchCovers DEF BatchAt
  <1> HIDE DEF txs, s, t, b
  <1>5. ASSUME NEW i \in 1..Len(txs)
        PROVE  /\ txs[i].taker \in Owners /\ DOMAIN txs[i].offers = 1..Len(txs[i].offers)
               /\ \A j \in DOMAIN txs[i].offers : /\ txs[i].offers[j].offer \in Offers
                                                  /\ txs[i].offers[j].offer[1] \in DOMAIN b
    <2>1. StateOk(st[i - 1]) /\ TxOk(st[i - 1], txs[i], st[i])
      BY <1>2, <1>3, StepOk
    <2>2. PICK x \in Outcomes(st[i - 1]) : txs[i] = x.tx
      BY <1>3 DEF Through
    <2>3. txs[i].taker \in Owners
      BY <2>1, <2>2, TakerIs
    <2>4. /\ DOMAIN txs[i].offers = 1..Len(txs[i].offers)
          /\ \A j \in 1..Len(txs[i].offers) : txs[i].offers[j].offer \in Offers
      BY <2>1 DEF TxOk, OffersOk, OfferNodeOk
    <2> QED
      BY <1>4, <2>3, <2>4 DEF Offered
  <1>6. OffersFit(b, OffersAt(seq), seq)
    <2> DEFINE c == OffersAt(seq)
    <2>1. /\ DOMAIN c = {x.offer : x \in OfferNodes(txs)}
          /\ \A o \in DOMAIN c : c[o] = [created |-> seq,
                                         closed |-> IF Node(o, "deleted") \in OfferNodes(txs) THEN seq ELSE Null]
      BY DEF OffersAt, OfferBatch, txs
    <2>2. ASSUME NEW x \in OfferNodes(txs) PROVE x.offer \in Offers /\ x.offer[1] \in DOMAIN b
      <3>1. PICK i \in DOMAIN txs : x \in ToSet(txs[i].offers)
        BY DEF OfferNodes
      <3>2. PICK j \in DOMAIN txs[i].offers : x = txs[i].offers[j]
        BY <3>1 DEF ToSet
      <3> QED
        BY <1>2, <1>5, <3>2
    <2> HIDE DEF c
    <2>3. OffersFit(b, c, seq)
      BY <2>1, <2>2 DEF OffersFit
    <2> QED
      BY <2>3 DEF c
  <1>7. SalesFit(b, SalesAt(seq))
    <2> SUFFICES ASSUME NEW x \in DOMAIN SalesAt(seq)
                 PROVE  /\ SalesAt(seq)[x].nft \in DOMAIN b
                        /\ SalesAt(seq)[x].seller \in Owners /\ SalesAt(seq)[x].buyer \in Owners
      BY DEF SalesFit
    <2>1. PICK i \in {i \in DOMAIN txs : txs[i].type = "NFTokenAcceptOffer"} : x \in {<<seq, i, j>> : j \in DOMAIN txs[i].offers}
      BY DEF SalesAt, SaleBatch, txs
    <2>2. PICK j \in DOMAIN txs[i].offers : x = <<seq, i, j>>
      BY <2>1
    <2>3. SalesAt(seq)[x] = Sale(txs[x[2]].offers[x[3]].offer, txs[x[2]].taker)
      BY DEF SalesAt, SaleBatch, txs
    <2>4. SalesAt(seq)[x] = Sale(txs[i].offers[j].offer, txs[i].taker)
      BY <2>2, <2>3
    <2>5. /\ txs[i].offers[j].offer \in Offers /\ txs[i].offers[j].offer[1] \in DOMAIN b
          /\ txs[i].taker \in Owners
      BY <1>2, <1>5
    <2>6. txs[i].offers[j].offer[2] \in Owners
      BY <2>5, NftAssumption
    <2> QED
      BY <2>4, <2>5, <2>6 DEF Sale
  <1> QED
    BY <1>6, <1>7 DEF b

\* A row, and an offer, of the range lo..hi.
RowFits(r, lo, hi) ==
  /\ r.owner \in Owners \cup {Null} /\ r.live \in BOOLEAN
  /\ r.mint \in (lo..hi) \cup {Null} /\ r.burn \in (lo..hi) \cup {Null}
OfferFits(r, lo, hi) ==
  /\ "created" \in DOMAIN r /\ "closed" \in DOMAIN r
  /\ r.created \in lo..hi /\ r.closed \in (lo..hi) \cup {Null}

NftTypes == \A n \in DOMAIN nft : RowFits(nft[n], low, tip)
OfferTypes == \A o \in DOMAIN offer : o \in Offers /\ o[1] \in DOMAIN nft /\ OfferFits(offer[o], low, tip)
SaleTypes ==
  \A x \in DOMAIN sales : sales[x].nft \in DOMAIN nft /\ sales[x].seller \in Owners /\ sales[x].buyer \in Owners
TypeInv == NftTypes /\ OfferTypes /\ SaleTypes

LEMMA RowWidens ==
  ASSUME NEW lo \in Nat, NEW hi \in Nat, NEW r, low \in Nat, tip \in Nat, lo <= low, tip <= hi
  PROVE  /\ RowFits(r, low, tip) => RowFits(r, lo, hi)
         /\ OfferFits(r, low, tip) => OfferFits(r, lo, hi)
  <1>1. \A k \in low..tip : k \in lo..hi
    OBVIOUS
  <1> QED
    BY <1>1 DEF RowFits, OfferFits

LEMMA RowOfBatch ==
  ASSUME NEW b, NEW seq, FieldsOk(b, seq), NEW lo \in Nat, NEW hi \in Nat, seq \in lo..hi,
         NEW n, NEW row, RowIs(b, n, row)
  PROVE  RowFits(row, lo, hi)
  <1>1. row.owner \in Owners \cup {Null}
    BY DEF RowIs, FieldsOk
  <1>2. row.live \in BOOLEAN
    <2>1. row.live = TRUE \/ row.live = FALSE
      BY DEF RowIs, FieldsOk
    <2> QED
      BY <2>1
  <1>3. row.mint \in {Null, seq} /\ row.burn \in {Null, seq}
    BY DEF RowIs, FieldsOk
  <1> QED
    BY <1>1, <1>2, <1>3 DEF RowFits

\* What a step does to the three tables, as far as their types go.
TablesFit(lo, hi) ==
  /\ DOMAIN nft \subseteq DOMAIN nft' /\ \A n \in DOMAIN nft' : RowFits(nft'[n], lo, hi)
  /\ \A o \in DOMAIN offer' : o \in Offers /\ o[1] \in DOMAIN nft' /\ OfferFits(offer'[o], lo, hi)

LEMMA TypesOf ==
  ASSUME NEW lo, NEW hi, low' = lo, tip' = hi, TablesFit(lo, hi), SaleTypes'
  PROVE  TypeInv'
  BY DEF TablesFit, TypeInv, NftTypes, OfferTypes

\* The sales of a ledger are put in with its batch.
LEMMA SalesFitStep ==
  ASSUME NEW seq, SalesInserted(seq), SaleTypes, SalesFit(BatchAt(seq), SalesAt(seq)),
         DOMAIN nft' = DOMAIN nft \cup DOMAIN BatchAt(seq)
  PROVE  SaleTypes'
  <1> DEFINE c == SalesAt(seq)
             b == BatchAt(seq)
  <1>1. sales' = OrElse(sales, c)
    BY DEF SalesInserted, SalesAt
  <1>2. \A x \in DOMAIN c : c[x].nft \in DOMAIN b /\ c[x].seller \in Owners /\ c[x].buyer \in Owners
    BY DEF SalesFit
  <1>3. DOMAIN nft' = DOMAIN nft \cup DOMAIN b
    OBVIOUS
  <1> HIDE DEF b, c
  <1>4. DOMAIN sales' = DOMAIN sales \cup DOMAIN c
        /\ \A x \in DOMAIN sales' : sales'[x] = IF x \in DOMAIN sales THEN sales[x] ELSE c[x]
    BY <1>1 DEF OrElse
  <1> QED
    BY <1>2, <1>3, <1>4 DEF SaleTypes

LEMMA TypeStep ==
  ASSUME ChainInv, NewestIs, OrderInv, TypeInv,
         QuietStep \/ SnapStep(SnapOf) \/ \E seq : LiveStep(seq) \/ BackStep(seq)
  PROVE  TypeInv'
  <1>0. low \in Nat /\ tip \in Nat /\ low <= tip
    BY DEF OrderInv, NewestIs
  <1>1. NftTypes /\ OfferTypes /\ SaleTypes
    BY DEF TypeInv
  <1>2. low = 0 => DOMAIN nft = {} /\ DOMAIN offer = {} /\ DOMAIN sales = {}
    BY DEF OrderInv
  <1>3. CASE QuietStep
    BY <1>1, <1>3 DEF QuietStep, orderVars, TypeInv, NftTypes, OfferTypes, SaleTypes
  <1>4. ASSUME NEW lo \in Nat, NEW hi \in Nat, low # 0 => lo <= low /\ tip <= hi
        PROVE  /\ \A n \in DOMAIN nft : RowFits(nft[n], lo, hi)
               /\ \A o \in DOMAIN offer : o \in Offers /\ o[1] \in DOMAIN nft /\ OfferFits(offer[o], lo, hi)
    BY <1>0, <1>1, <1>2, <1>4, RowWidens DEF NftTypes, OfferTypes
  <1>5. ASSUME NEW seq, SnapStep(seq) PROVE TypeInv'
    <2> DEFINE lo == IF low = 0 THEN seq ELSE low
    <2>1. seq \in 1..Newest /\ low' = lo /\ tip' = seq /\ (low # 0 => tip = seq)
      BY <1>5 DEF SnapStep, SnapMoves
    <2>2. lo \in Nat /\ seq \in Nat /\ seq \in lo..seq /\ (low # 0 => lo <= low /\ tip <= seq)
      BY <1>0, <2>1 DEF NewestIs
    <2> HIDE DEF lo
    <2>3. /\ \A n \in DOMAIN nft : RowFits(nft[n], lo, seq)
          /\ \A o \in DOMAIN offer : o \in Offers /\ o[1] \in DOMAIN nft /\ OfferFits(offer[o], lo, seq)
      BY <1>4, <2>2
    <2>4. StateOk(Post(seq)) /\ Walked(seq) /\ OffersWalked(seq) /\ sales' = sales
      BY <1>5 DEF SnapStep, Post
    <2>5. \A n \in DOMAIN Held(seq) : Held(seq)[n][1] \in Owners
      BY <2>4, OwnerOfHeld DEF Held, Post
    <2>6. ASSUME NEW n \in DOMAIN nft' PROVE RowFits(nft'[n], lo, seq)
      BY <2>3, <2>4, <2>5 DEF Walked, RowFits
    <2>7. ASSUME NEW o \in DOMAIN offer'
          PROVE  o \in Offers /\ o[1] \in DOMAIN nft' /\ OfferFits(offer'[o], lo, seq)
      <3>1. CASE o \in DOMAIN offer
        BY <2>3, <2>4, <3>1 DEF Walked, OffersWalked
      <3>2. CASE o \in Post(seq).open /\ o \notin DOMAIN offer
        <4>1. offer'[o] = [created |-> seq, closed |-> Null]
          BY <2>4, <3>2 DEF OffersWalked, Post
        <4>2. o \in Offers /\ o[1] \in DOMAIN Held(seq)
          BY <2>4, <3>2 DEF StateOk, States, Held, Post
        <4> QED
          BY <2>2, <2>4, <4>1, <4>2 DEF Walked, OfferFits
      <3> QED
        BY <2>4, <3>1, <3>2 DEF OffersWalked, Post
    <2>8. TablesFit(lo, seq)
      BY <2>4, <2>6, <2>7 DEF TablesFit, Walked
    <2>9. SaleTypes'
      BY <1>1, <2>4 DEF SaleTypes, Walked
    <2> QED
      BY <2>1, <2>8, <2>9, TypesOf
  <1>6. ASSUME NEW seq, LiveStep(seq) PROVE TypeInv'
    <2> DEFINE lo == IF low = 0 THEN seq ELSE low
               b == BatchAt(seq)
               c == OffersAt(seq)
    <2>1. seq \in 1..Newest /\ low' = lo /\ tip' = seq /\ (low # 0 => tip = seq \/ tip = seq - 1)
      BY <1>6 DEF LiveStep, LiveMoves
    <2>2. lo \in Nat /\ seq \in Nat /\ seq \in lo..seq /\ (low # 0 => lo <= low /\ tip <= seq)
      BY <1>0, <2>1 DEF NewestIs
    <2> HIDE DEF lo
    <2>3. /\ \A n \in DOMAIN nft : RowFits(nft[n], lo, seq)
          /\ \A o \in DOMAIN offer : o \in Offers /\ o[1] \in DOMAIN nft /\ OfferFits(offer[o], lo, seq)
      BY <1>4, <2>2
    <2>4. Upserted(b) /\ OffersUpserted(c) /\ SalesInserted(seq) /\ FieldsOk(b, seq)
      BY <1>6 DEF LiveStep, LedgerOk, BatchOk
    <2>5. OffersFit(b, c, seq) /\ SalesFit(b, SalesAt(seq))
      BY <2>1, LedgerFits
    <2>6. DOMAIN nft' = DOMAIN nft \cup DOMAIN b
      BY <2>4 DEF Upserted
    <2>7. SaleTypes'
      BY <1>1, <2>4, <2>5, <2>6, SalesFitStep
    <2> HIDE DEF b, c
    <2>8. ASSUME NEW n \in DOMAIN nft' PROVE RowFits(nft'[n], lo, seq)
      <3>1. CASE n \notin DOMAIN b
        BY <2>3, <2>4, <2>6, <3>1 DEF Upserted
      <3>2. CASE n \in DOMAIN b
        <4>1. PICK row : /\ RowIs(b, n, row)
                         /\ n \notin DOMAIN nft => nft'[n] = row
                         /\ n \in DOMAIN nft => /\ nft'[n].owner = Coalesce(row.owner, nft[n].owner)
                                                /\ nft'[n].mint = Coalesce(nft[n].mint, row.mint)
                                                /\ nft'[n].burn = Coalesce(row.burn, nft[n].burn)
                                                /\ nft'[n].live = (nft[n].live /\ row.live)
          BY <2>4, <3>2 DEF Upserted
        <4>2. RowFits(row, lo, seq)
          BY <2>2, <2>4, <4>1, RowOfBatch
        <4>3. ASSUME n \in DOMAIN nft PROVE RowFits(nft'[n], lo, seq)
          <5>1. RowFits(nft[n], lo, seq)
            BY <2>3, <4>3
          <5>2. nft'[n].live \in BOOLEAN
            BY <4>1, <4>3
          <5>3. /\ nft'[n].owner = Coalesce(row.owner, nft[n].owner)
                /\ nft'[n].mint = Coalesce(nft[n].mint, row.mint)
                /\ nft'[n].burn = Coalesce(row.burn, nft[n].burn)
            BY <4>1, <4>3
          <5> QED
            BY <4>2, <5>1, <5>2, <5>3 DEF RowFits, Coalesce
        <4> QED
          BY <4>1, <4>2, <4>3
      <3> QED
        BY <3>1, <3>2
    <2>9. ASSUME NEW o \in DOMAIN offer'
          PROVE  o \in Offers /\ o[1] \in DOMAIN nft' /\ OfferFits(offer'[o], lo, seq)
      <3>1. CASE o \notin DOMAIN c
        BY <2>3, <2>4, <2>6, <3>1 DEF OffersUpserted
      <3>2. CASE o \in DOMAIN c
        <4>1. /\ o \in Offers /\ o[1] \in DOMAIN b
              /\ "created" \in DOMAIN c[o] /\ "closed" \in DOMAIN c[o] /\ c[o].created = seq /\ c[o].closed \in {seq, Null}
          BY <2>5, <3>2 DEF OffersFit
        <4>2. OfferFits(c[o], lo, seq)
          BY <2>2, <4>1 DEF OfferFits
        <4>3. CASE o \notin DOMAIN offer
          BY <2>4, <2>6, <3>2, <4>1, <4>2, <4>3 DEF OffersUpserted
        <4>4. CASE o \in DOMAIN offer
          <5>1. OfferFits(offer[o], lo, seq)
            BY <2>3, <4>4
          <5>2. offer'[o] = [offer[o] EXCEPT !.closed = Coalesce(c[o].closed, offer[o].closed)]
            BY <2>4, <3>2, <4>4 DEF OffersUpserted
          <5> DEFINE r == offer'[o]
                     q == offer[o]
                     v == Coalesce(c[o].closed, offer[o].closed)
          <5>3. r = [q EXCEPT !.closed = v] /\ "created" \in DOMAIN q /\ "closed" \in DOMAIN q
            BY <5>1, <5>2 DEF OfferFits
          <5> HIDE DEF r, q, v
          <5>4. "created" \in DOMAIN r /\ "closed" \in DOMAIN r /\ r.created = q.created /\ r.closed = v
            BY <5>3
          <5>5. v \in {c[o].closed, q.closed}
            BY DEF v, q, Coalesce
          <5>6. OfferFits(r, lo, seq)
            BY <4>2, <5>1, <5>4, <5>5 DEF OfferFits, q
          <5> QED
            BY <2>3, <2>6, <4>4, <5>6 DEF r
        <4> QED
          BY <4>3, <4>4
      <3> QED
        BY <3>1, <3>2
    <2>10. TablesFit(lo, seq)
      BY <2>6, <2>8, <2>9 DEF TablesFit
    <2> QED
      BY <2>1, <2>7, <2>10, TypesOf
  <1>7. ASSUME NEW seq, BackStep(seq) PROVE TypeInv'
    <2> DEFINE b == BatchAt(seq)
               c == OffersAt(seq)
    <2>1. seq \in 1..Newest /\ low' = seq /\ tip' = tip /\ low = seq + 1
      BY <1>7 DEF BackStep, BackMoves
    <2>2. seq \in Nat /\ seq \in seq..tip /\ seq <= low
      BY <1>0, <2>1 DEF NewestIs
    <2>3. /\ \A n \in DOMAIN nft : RowFits(nft[n], seq, tip)
          /\ \A o \in DOMAIN offer : o \in Offers /\ o[1] \in DOMAIN nft /\ OfferFits(offer[o], seq, tip)
      BY <1>0, <1>4, <2>2
    <2>4. Inserted(b) /\ OffersInserted(c) /\ SalesInserted(seq) /\ FieldsOk(b, seq)
      BY <1>7 DEF BackStep, LedgerOk, BatchOk
    <2>5. OffersFit(b, c, seq) /\ SalesFit(b, SalesAt(seq))
      BY <2>1, LedgerFits
    <2>6. DOMAIN nft' = DOMAIN nft \cup DOMAIN b
      BY <2>4 DEF Inserted
    <2>7. SaleTypes'
      BY <1>1, <2>4, <2>5, <2>6, SalesFitStep
    <2> HIDE DEF b, c
    <2>8. ASSUME NEW n \in DOMAIN nft' PROVE RowFits(nft'[n], seq, tip)
      <3>1. CASE n \in DOMAIN nft
        BY <2>3, <2>4, <3>1 DEF Inserted
      <3>2. CASE n \notin DOMAIN nft
        <4>1. RowIs(b, n, nft'[n])
          BY <2>4, <2>6, <3>2 DEF Inserted
        <4> QED
          BY <1>0, <2>2, <2>4, <4>1, RowOfBatch
      <3> QED
        BY <3>1, <3>2
    <2>9. ASSUME NEW o \in DOMAIN offer'
          PROVE  o \in Offers /\ o[1] \in DOMAIN nft' /\ OfferFits(offer'[o], seq, tip)
      <3>1. CASE o \in DOMAIN offer
        BY <2>3, <2>4, <2>6, <3>1 DEF OffersInserted
      <3>2. CASE o \in DOMAIN c /\ o \notin DOMAIN offer
        <4>1. /\ o \in Offers /\ o[1] \in DOMAIN b
              /\ "created" \in DOMAIN c[o] /\ "closed" \in DOMAIN c[o] /\ c[o].created = seq /\ c[o].closed \in {seq, Null}
          BY <2>5, <3>2 DEF OffersFit
        <4>2. OfferFits(c[o], seq, tip)
          BY <2>2, <4>1 DEF OfferFits
        <4> QED
          BY <2>4, <2>6, <3>2, <4>1, <4>2 DEF OffersInserted
      <3> QED
        BY <2>4, <3>1, <3>2 DEF OffersInserted
    <2>10. TablesFit(seq, tip)
      BY <2>6, <2>8, <2>9 DEF TablesFit
    <2> QED
      BY <2>1, <2>7, <2>10, TypesOf
  <1> QED
    BY <1>3, <1>5, <1>6, <1>7

LEMMA TypesAreOk == NewestIs /\ OrderInv /\ SalesKnown /\ LifeInv /\ ChainInv /\ TypeInv => TypeOK
  <1> SUFFICES ASSUME NewestIs, OrderInv, SalesKnown, LifeInv, ChainInv, TypeInv PROVE TypeOK
    OBVIOUS
  <1>1. NftTypes /\ OfferTypes /\ SaleTypes
    BY DEF TypeInv
  <1>2. \A n \in DOMAIN nft : n \in Nfts
    <2>1. CASE low = 0
      BY <2>1 DEF OrderInv
    <2>2. CASE low # 0
      <3>1. tip \in 1..Newest
        BY <2>2 DEF OrderInv, NewestIs
      <3>2. DOMAIN Held(tip) \subseteq Nfts /\ chain[tip].post.burned \subseteq Nfts
        BY <3>1, HoldingIs DEF ChainInv, StateOk, States, Held
      <3> QED
        BY <2>2, <3>2 DEF LifeInv, RowsAlive, Ever
    <2> QED
      BY <2>1, <2>2
  <1>3. \A x \in DOMAIN sales : x[1] \in low..tip
    <2> SUFFICES ASSUME NEW x \in DOMAIN sales PROVE x[1] \in low..tip
      OBVIOUS
    <2>1. PICK k \in Replayed : x \in DOMAIN SalesAt(k)
      BY DEF SalesKnown
    <2> QED
      BY <2>1, SaleKeys, ReplayedIn DEF SalesAt
  <1>4. low \in 0..tip /\ tip \in 0..Newest /\ snapSeq \in 0..tip /\ fresh \in BOOLEAN /\ waived = {}
    BY DEF OrderInv, NewestIs
  <1>5. \A n \in DOMAIN nft : /\ nft[n].owner \in Owners \cup {Null} /\ nft[n].live \in BOOLEAN
                              /\ {nft[n].mint, nft[n].burn} \subseteq (low..tip) \cup {Null}
    BY <1>1 DEF NftTypes, RowFits
  <1>6. \A o \in DOMAIN offer : /\ o \in Offers /\ o[1] \in DOMAIN nft
                                /\ offer[o].created \in low..tip /\ offer[o].closed \in (low..tip) \cup {Null}
    BY <1>1 DEF OfferTypes, OfferFits
  <1>7. \A x \in DOMAIN sales : sales[x].nft \in DOMAIN nft /\ {sales[x].seller, sales[x].buyer} \subseteq Owners
    BY <1>1 DEF SaleTypes
  <1> QED
    BY <1>2, <1>3, <1>4, <1>5, <1>6, <1>7 DEF TypeOK

-----------------------------------------------------------------------------
(* The invariant and what follows from it. *)

IndInv == ChainInv /\ OrderInv /\ OwnerInv /\ OfferInv /\ SalesKnown /\ LifeInv /\ TypeInv

LEMMA InitIs == Init => IndInv
  <1> SUFFICES ASSUME Init PROVE IndInv
    OBVIOUS
  <1>1. ChainInv
    BY ChainInit
  <1>2. Newest \in Nat
    BY <1>1 DEF ChainInv, IsSeq, Newest
  <1>3. low = 0 /\ tip = 0 /\ snapSeq = 0 /\ fresh = FALSE /\ waived = {} /\ nft = <<>> /\ offer = <<>> /\ sales = <<>>
    BY DEF Init, OrderInit
  <1>4. OrderInv
    <2>1. tip \in 0..Newest /\ snapSeq \in 0..tip /\ low \in Nat /\ low <= tip
      BY <1>2, <1>3
    <2>2. fresh \in BOOLEAN /\ ~fresh
      BY <1>3
    <2> QED
      BY <1>3, <2>1, <2>2 DEF OrderInv
  <1>5. SalesKnown
    BY <1>3 DEF SalesKnown, Replayed
  <1>6. TypeInv
    BY <1>3 DEF TypeInv, NftTypes, OfferTypes, SaleTypes
  <1> QED
    BY <1>1, <1>3, <1>4, <1>5, <1>6 DEF IndInv, OwnerInv, OfferInv, LifeInv

LEMMA StepHolds == IndInv /\ [Next]_vars => IndInv'
  <1> SUFFICES ASSUME IndInv, [Next]_vars PROVE IndInv'
    OBVIOUS
  <1>1. ChainInv /\ OrderInv /\ OwnerInv /\ OfferInv /\ SalesKnown /\ LifeInv /\ TypeInv
    BY DEF IndInv
  <1>2. NewestIs
    BY <1>1 DEF ChainInv, IsSeq, Newest, NewestIs
  <1>3. QuietStep \/ SnapStep(SnapOf) \/ \E seq : LiveStep(seq) \/ BackStep(seq)
    BY <1>1, StepIs
  <1>4. ChainInv'
    BY <1>1, ChainStep
  <1>5. OrderInv'
    BY <1>1, <1>2, <1>3, OrderStep
  <1>6. OwnerInv'
    BY <1>1, <1>2, <1>3, OwnerStep
  <1>7. OfferInv'
    BY <1>1, <1>2, <1>3, OfferStep
  <1>8. SalesKnown'
    BY <1>1, <1>2, <1>3, SalesStep
  <1>9. LifeInv'
    BY <1>1, <1>2, <1>3, LifeStep
  <1>10. TypeInv'
    BY <1>1, <1>2, <1>3, TypeStep
  <1> QED
    BY <1>4, <1>5, <1>6, <1>7, <1>8, <1>9, <1>10 DEF IndInv

LEMMA InvGives == IndInv => TypeOK /\ OwnerCorrect /\ OffersExact /\ SalesExact /\ LifeExact
  <1> SUFFICES ASSUME IndInv PROVE TypeOK /\ OwnerCorrect /\ OffersExact /\ SalesExact /\ LifeExact
    OBVIOUS
  <1>1. ChainInv /\ OrderInv /\ OwnerInv /\ OfferInv /\ SalesKnown /\ LifeInv /\ TypeInv
    BY DEF IndInv
  <1>2. NewestIs
    BY <1>1 DEF ChainInv, IsSeq, Newest, NewestIs
  <1> QED
    BY <1>1, <1>2, TypesAreOk, OwnerIsCorrect, OffersAreExact, SalesAreExact, LivesAreExact

\* In every state the ledgers are those of a history of transactions, the range taken is
\* where the writers put it, and the three tables hold of each ledger taken what its
\* transactions say (processLedger, runSnapshot, LedgerBatch.flush).
THEOREM NftInvariance == Spec => []IndInv
  BY InitIs, StepHolds, PTL DEF Spec

\* The rows are typed, lie in the range taken, and refer to rows that are there: the
\* foreign keys of nft_offer and nft_exchange hold (batch.ts flush).
THEOREM NftTypesOk == Spec => []TypeOK
  BY NftInvariance, InvGives, PTL

\* Of an NFT that exists the table nft knows no owner or the right one, whoever wrote the
\* row and however pages were split, merged or filled in (nft.ts handleNft, batch.ts flush).
THEOREM OwnersCorrect == Spec => []OwnerCorrect
  BY NftInvariance, InvGives, PTL

\* The offers open in the table are those open in the ledger, but for the ones closed in
\* the ledger of a fresh snapshot (nft.ts:85-96, batch.ts:162-170).
THEOREM OffersCorrect == Spec => []OffersExact
  BY NftInvariance, InvGives, PTL

\* An accepted offer leaves sales from the NFT's holder before to the one after, and
\* nothing else leaves any (nft.ts:97-110).
THEOREM SalesCorrect == Spec => []SalesExact
  BY NftInvariance, InvGives, PTL

\* An NFT is marked as minted or burned in the ledger of its mint or burn, or in one in
\* which pages were reorganised; a replayed burn ends its life (nft.ts:55-66, batch.ts:156).
THEOREM LivesCorrect == Spec => []LifeExact
  BY NftInvariance, InvGives, PTL
=============================================================================
