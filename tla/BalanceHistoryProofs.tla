------------------------ MODULE BalanceHistoryProofs ------------------------
(***************************************************************************)
(* What account_balance and the metric tables say is true, for every value *)
(* of the constants of BalanceHistory.                                     *)
(*                                                                         *)
(* The argument goes key by key.  A balance is read off one object of the  *)
(* ledger (SourceIsOne); in one ledger, an account's row is what it holds  *)
(* after the ledger, and without a row nothing changed, unless something   *)
(* happened that the handlers do not see (Bad).  What holds between two    *)
(* rows follows from ledger to ledger, upwards from the lowest one.        *)
(*                                                                         *)
(* The second half is about the metric tables.  The supply is a sum,       *)
(* written in the code as a select and in the model with the library's     *)
(* folds; sums are reasoned about by the smallest set for which a claim    *)
(* would be wrong.                                                         *)
(***************************************************************************)
EXTENDS BalanceHistory, FiniteSetTheorems, WellFoundedInduction, TLAPS

(* Numbers. *)

\* A set of naturals has a least element: induction, as the proofs below use it.
LEMMA LeastNat ==
  ASSUME NEW T \in SUBSET Nat, T # {}
  PROVE  \E x \in T : \A y \in T : x <= y
  <1> DEFINE R == {ss \in Nat \X Nat : ss[1] < ss[2]}
  <1>0. OpToRel(<, Nat) = R
    BY Zenon DEF OpToRel
  <1>1. \E x \in T : \A y \in T : ~(<<y, x>> \in R)
    <2>1. IsWellFoundedOn(R, Nat)
      BY <1>0, NatLessThanWellFounded, Zenon
    <2> HIDE DEF R
    <2> QED
      BY <2>1, WFMin, Zenon
  <1>2. PICK x \in T : \A y \in T : ~(<<y, x>> \in R)
    BY <1>1
  <1>3. ASSUME NEW y \in T PROVE x <= y
    <2>1. <<y, x>> \in Nat \X Nat /\ <<y, x>> \notin R
      BY <1>2
    <2> QED
      BY <2>1
  <1> QED
    BY <1>3

\* Max is the greatest element, where there is one.
LEMMA MaxIs ==
  ASSUME NEW S, S \subseteq Int, NEW m \in S, \A x \in S : x <= m
  PROVE  Max(S) = m
  <1>1. m \in S /\ \A x \in S : m >= x
    OBVIOUS
  <1>2. \A n \in S : (\A x \in S : n >= x) => n = m
    OBVIOUS
  <1> QED
    BY <1>1, <1>2 DEF Max

\* A bounded set of naturals has one.
LEMMA GreatestNat ==
  ASSUME NEW T \in SUBSET Nat, T # {}, NEW b \in Nat, \A y \in T : y <= b
  PROVE  Max(T) \in T /\ \A y \in T : y <= Max(T)
  <1> DEFINE D == {b - y : y \in T}
  <1>1. D \in SUBSET Nat /\ D # {}
    <2>1. \A y \in T : b - y \in Nat
      OBVIOUS
    <2> QED
      BY <2>1
  <1>2. PICK x \in D : \A y \in D : x <= y
    BY <1>1, LeastNat
  <1>3. PICK m \in T : x = b - m
    BY <1>2
  <1>4. \A y \in T : y <= m
    BY <1>2, <1>3
  <1>5. T \subseteq Int
    OBVIOUS
  <1>6. Max(T) = m
    BY <1>3, <1>4, <1>5, MaxIs
  <1> QED
    BY <1>3, <1>4, <1>6

-----------------------------------------------------------------------------
(* One object: what its ends hold, and what its handler writes. *)

Amt(s) == IF s = Absent THEN 0 ELSE s

\* What account a holds through object o in state s.
HoldOf(o, a, s) ==
  IF o[1] = "mptoken" THEN Amt(s)
  ELSE IF o[1] = "issuance" THEN 0 - Amt(s)
  ELSE IF a = o[2] THEN IF Amt(s) > 0 THEN Amt(s) ELSE 0
  ELSE IF Amt(s) < 0 THEN 0 - Amt(s) ELSE 0

\* An object as ObjectsAssumption has it.
IsObject(o) ==
  /\ o \in {"line", "issuance", "mptoken"} \X Nat \X Nat
  /\ o[1] = "line" => o[2] < o[3]
  /\ Amounts(o) \subseteq Int /\ Absent \notin Amounts(o)
  /\ o[1] # "line" => Amounts(o) \subseteq Nat

\* The keys under which o is the source of a balance.
IsKey(o, a, t) ==
  IF o[1] = "line" THEN <<a, t>> \in {<<o[2], o[3]>>, <<o[3], o[2]>>} ELSE a = o[2] /\ t = o[3]

\* Nothing is held of what does not exist or is zero.
LEMMA NothingHeld ==
  ASSUME NEW o, NEW a, NEW s, s \in {0, Absent}
  PROVE  HoldOf(o, a, s) = 0
  <1>1. Amt(s) = 0
    BY DEF Amt
  <1> QED
    BY <1>1 DEF HoldOf

LEMMA HoldOfIsInt ==
  ASSUME NEW o, IsObject(o), NEW a, NEW s \in States(o)
  PROVE  HoldOf(o, a, s) \in Int
  BY DEF IsObject, States, HoldOf, Amt

\* What a node writes is what its account holds after it; an MPToken emptied is
\* written with its old amount.
LEMMA NodeWrites ==
  ASSUME NEW o, IsObject(o), NEW from \in States(o), NEW to \in States(o), MayBecome(o, from, to),
         NEW r \in Handle(o, to = Absent, Field(Node(o, from, to)))
  PROVE  /\ r.key = <<r.key[1], r.key[2]>> /\ IsKey(o, r.key[1], r.key[2])
         /\ r.balance \in Int
         /\ \/ r.balance = HoldOf(o, r.key[1], to)
            \/ HoldOf(o, r.key[1], to) = 0 /\ Unseen(Node(o, from, to), r.key[1])
  <1> USE DEF IsObject, States, HoldOf, Amt, IsKey, MayBecome, Node, Field
  <1>1. CASE o[1] = "line"
    <2>1. r = LineRow(o, IF to = Absent THEN 0 ELSE to)
      BY <1>1 DEF Handle, RippleState
    <2> QED
      BY <1>1, <2>1 DEF LineRow
  <1>2. CASE o[1] = "mptoken"
    <2>1. r = [key |-> <<o[2], o[3]>>,
               balance |-> IF to = Absent \/ Field(Node(o, from, to)) = Absent THEN 0
                           ELSE Field(Node(o, from, to))]
      BY <1>2 DEF Handle, MpToken
    <2> QED
      BY <1>2, <2>1 DEF Unseen, Empties
  <1>3. CASE o[1] = "issuance"
    <2>1. PICK amount \in IF to = Absent THEN {0} ELSE {Field(Node(o, from, to))} \ {Absent} :
            r = [key |-> <<o[2], o[3]>>, balance |-> -amount]
      BY <1>3 DEF Handle, MptIssuance
    <2> QED
      BY <1>3, <2>1
  <1> QED
    BY <1>1, <1>2, <1>3

\* Where a node of the source writes nothing for an account, the account holds
\* nothing after it, nor did before, unless that change is an unseen one.
LEMMA NodeSilent ==
  ASSUME NEW o, IsObject(o), NEW from \in States(o), NEW to \in States(o), MayBecome(o, from, to),
         NEW a, NEW t, IsKey(o, a, t),
         \A r \in Handle(o, to = Absent, Field(Node(o, from, to))) : r.key # <<a, t>>
  PROVE  /\ HoldOf(o, a, to) = 0
         /\ HoldOf(o, a, from) = 0 \/ Unseen(Node(o, from, to), a)
  <1> USE DEF IsObject, States, HoldOf, Amt, IsKey, MayBecome, Node, Field
  <1>1. CASE o[1] = "line"
    <2>1. LineRow(o, IF to = Absent THEN 0 ELSE to).key # <<a, t>>
      BY <1>1 DEF Handle, RippleState
    <2> QED
      BY <1>1, <2>1 DEF LineRow, Unseen
  <1>2. CASE o[1] = "mptoken"
    BY <1>2 DEF Handle, MpToken
  <1>3. CASE o[1] = "issuance"
    <2> DEFINE amounts == IF to = Absent THEN {0} ELSE {Field(Node(o, from, to))} \ {Absent}
    <2>1. \A x \in amounts : [key |-> <<o[2], o[3]>>, balance |-> -x] \in Handle(o, to = Absent, Field(Node(o, from, to)))
      BY <1>3 DEF Handle, MptIssuance
    <2>2. amounts = {}
      BY <1>3, <2>1
    <2>3. to = 0 /\ from = Absent /\ to # Absent
      BY <1>3, <2>2
    <2> QED
      BY <2>3, NothingHeld
  <1> QED
    BY <1>1, <1>2, <1>3

\* The snapshot writes what the account holds,
LEMMA WalkWrites ==
  ASSUME NEW o, IsObject(o), NEW s \in States(o), s # Absent, NEW r \in Handle(o, FALSE, s)
  PROVE  /\ r.key = <<r.key[1], r.key[2]>> /\ IsKey(o, r.key[1], r.key[2])
         /\ r.balance \in Int
         /\ r.balance = HoldOf(o, r.key[1], s)
  <1> USE DEF IsObject, States, HoldOf, Amt, IsKey
  <1>1. CASE o[1] = "line"
    BY <1>1 DEF Handle, RippleState, LineRow
  <1>2. CASE o[1] = "mptoken"
    BY <1>2 DEF Handle, MpToken
  <1>3. CASE o[1] = "issuance"
    BY <1>3 DEF Handle, MptIssuance
  <1> QED
    BY <1>1, <1>2, <1>3

\* and leaves out only who holds nothing.
LEMMA WalkSilent ==
  ASSUME NEW o, IsObject(o), NEW s \in States(o), NEW a, NEW t, IsKey(o, a, t),
         s # Absent => \A r \in Handle(o, FALSE, s) : r.key # <<a, t>>
  PROVE  /\ HoldOf(o, a, s) = 0
         /\ o[1] # "line" => s = Absent
         /\ o[1] = "line" /\ a = o[2] => s = Absent \/ s < 0
         /\ o[1] = "line" /\ a = o[3] => s = Absent \/ s >= 0
  <1> USE DEF IsObject, States, HoldOf, Amt, IsKey
  <1>1. CASE o[1] = "line"
    <2>1. s # Absent => LineRow(o, s).key # <<a, t>>
      BY <1>1 DEF Handle, RippleState
    <2> QED
      BY <1>1, <2>1 DEF LineRow
  <1>2. CASE o[1] = "mptoken"
    BY <1>2 DEF Handle, MpToken
  <1>3. CASE o[1] = "issuance"
    <2>1. s # Absent => [key |-> <<o[2], o[3]>>, balance |-> -s] \in Handle(o, FALSE, s)
      BY <1>3 DEF Handle, MptIssuance
    <2>2. s = Absent
      BY <1>3, <2>1
    <2>3. HoldOf(o, a, s) = 0
      BY <2>2, NothingHeld
    <2> QED
      BY <1>3, <2>2, <2>3
  <1> QED
    BY <1>1, <1>2, <1>3

\* One row per node.
LEMMA OneRow ==
  ASSUME NEW o, IsObject(o), NEW d \in BOOLEAN, NEW v, NEW r \in Handle(o, d, v), NEW q \in Handle(o, d, v)
  PROVE  r = q
  <1>1. CASE o[1] = "line"
    BY <1>1 DEF Handle, RippleState
  <1>2. CASE o[1] = "mptoken"
    BY <1>2 DEF Handle, MpToken
  <1>3. CASE o[1] = "issuance"
    BY <1>3 DEF Handle, MptIssuance
  <1> QED
    BY <1>1, <1>2, <1>3 DEF IsObject

-----------------------------------------------------------------------------
(* The ledgers. *)

\* Node i of a ledger takes o from one state to the next, if it is about o.
LinkedBy(nodes, i, o, from, to) ==
  IF i \in DOMAIN nodes /\ nodes[i].of = o
    THEN nodes[i] = Node(o, from, to) /\ MayBecome(o, from, to)
    ELSE to = from

AllStates == UNION {States(o) : o \in Objects}
Ledgers == [nodes : Seq([of : Objects, from : AllStates, to : AllStates]), post : [Objects -> AllStates]]

\* A ledger's nodes, two at most, lead from the ledger before to it.
ChainInv ==
  /\ Objects \in Worlds
  /\ chain \in Seq(Ledgers) /\ chain # <<>>
  /\ chain[1].nodes = <<>>
  /\ \A n \in 1..Newest :
       /\ \A o \in Objects : chain[n].post[o] \in States(o)
       /\ Conserved(chain[n].post)
       /\ Len(chain[n].nodes) <= 2
  /\ \A n \in 2..Newest : \A o \in Objects : \E mid \in States(o) :
       /\ LinkedBy(chain[n].nodes, 1, o, chain[n - 1].post[o], mid)
       /\ LinkedBy(chain[n].nodes, 2, o, mid, chain[n].post[o])

\* In ledger n, account a lost all it held, in a way that the handlers do not see.
Bad(a, t, n) ==
  /\ Holding(a, t, n) = 0
  /\ \E x \in Range(chain[n].nodes) : x.of \in Sources(a, t) /\ Unseen(x, a)

LEMMA ObjectsAre ==
  ASSUME Objects \in Worlds
  PROVE  /\ \A o \in Objects : IsObject(o)
         /\ \A o \in Objects : \A a, t : o \in Sources(a, t) <=> IsKey(o, a, t)
  <1>1. \A o \in Objects : IsObject(o)
    BY ObjectsAssumption DEF IsObject
  <1>2. ASSUME NEW o \in Objects, NEW a, NEW t PROVE o \in Sources(a, t) <=> IsKey(o, a, t)
    <2>1. o = <<o[1], o[2], o[3]>> /\ o[1] \in {"line", "issuance", "mptoken"} /\ o[2] \in Nat /\ o[3] \in Nat
      BY <1>1 DEF IsObject
    <2> QED
      BY <2>1 DEF Sources, IsKey
  <1> QED
    BY <1>1, <1>2

\* A balance has one source.
LEMMA SourceIsOne ==
  ASSUME Objects \in Worlds, NEW a, NEW t, NEW o \in Sources(a, t), NEW p \in Sources(a, t)
  PROVE  o = p
  <1>1. o \in Objects /\ p \in Objects
    BY DEF Sources
  <1>2. {o[2], o[3]} = {a, t} /\ {p[2], p[3]} = {a, t}
    BY DEF Sources
  <1> QED
    BY <1>1, <1>2, KeysAssumption

\* What an account holds is read off that source.
LEMMA HoldingIs ==
  ASSUME ChainInv, NEW a, NEW t, NEW o \in Sources(a, t), NEW n \in 1..Newest
  PROVE  Holding(a, t, n) = HoldOf(o, a, chain[n].post[o]) /\ Holding(a, t, n) \in Int
  <1> DEFINE post == chain[n].post
             v == post[o]
  <1>1. Objects \in Worlds /\ o \in Objects /\ v \in States(o) /\ DOMAIN post = Objects
    <2>1. chain[n] \in Ledgers
      BY DEF ChainInv, Newest
    <2> QED
      BY <2>1 DEF ChainInv, Sources, Ledgers
  <1>2. IsObject(o) /\ IsKey(o, a, t)
    BY <1>1, ObjectsAre
  <1>3. \A p \in Sources(a, t) : p = o
    BY <1>1, SourceIsOne
  <1>4. Amount(o, post) = Amt(v)
    BY <1>1 DEF Amount, Amt
  <1>5. Amt(v) \in Int
    BY <1>1, <1>2 DEF Amt, IsObject, States
  <1>6. CASE o[1] = "mptoken"
    <2>1. o = <<"mptoken", a, t>>
      BY <1>2, <1>6 DEF IsKey, IsObject
    <2>0. <<"issuance", a, t>> \notin Objects
      BY <1>3, <2>1 DEF Sources
    <2>2. Holding(a, t, n) = Amt(v)
      BY <1>1, <1>4, <2>0, <2>1 DEF Holding
    <2> QED
      BY <1>5, <1>6, <2>2 DEF HoldOf
  <1>7. CASE o[1] = "issuance"
    <2>1. o = <<"issuance", a, t>>
      BY <1>2, <1>7 DEF IsKey, IsObject
    <2>2. <<"mptoken", a, t>> \notin Objects
      BY <1>3, <2>1 DEF Sources
    <2>3. Holding(a, t, n) = -Amt(v)
      BY <1>1, <1>4, <2>1, <2>2 DEF Holding
    <2> DEFINE w == Amt(v)
    <2>4. w \in Int /\ Holding(a, t, n) = -w /\ HoldOf(o, a, v) = 0 - w
      BY <1>5, <1>7, <2>3 DEF HoldOf
    <2> HIDE DEF w
    <2> QED
      BY <2>4
  <1>8. CASE o[1] = "line"
    <2>1. <<"mptoken", a, t>> \notin Objects /\ <<"issuance", a, t>> \notin Objects
      BY <1>3, <1>8 DEF Sources
    <2>2. a \in Nat /\ t \in Nat /\ a # t
      BY <1>2, <1>8 DEF IsKey, IsObject
    <2>3. o = <<"line", a, t>> \/ o = <<"line", t, a>>
      BY <1>2, <1>8 DEF IsKey, IsObject
    <2> DEFINE x == Amount(<<"line", a, t>>, post)
               y == -Amount(<<"line", t, a>>, post)
    <2>4. Holding(a, t, n) = Max({0, x, y})
      BY <2>1 DEF Holding
    <2>5. CASE o = <<"line", a, t>>
      <3>1. <<"line", t, a>> \notin Objects
        BY <1>3, <2>2, <2>5 DEF Sources
      <3>2. x = Amt(v) /\ Amount(<<"line", t, a>>, post) = 0
        BY <1>1, <1>4, <2>5, <3>1 DEF Amount
      <3>3. {0, x, y} \subseteq Int /\ y = 0
        <4> DEFINE z == Amount(<<"line", t, a>>, post)
        <4>1. z \in Int
          BY <3>2
        <4> HIDE DEF z
        <4>2. -z = 0 - z
          BY <4>1
        <4> QED
          BY <1>5, <3>2, <4>2 DEF z
      <3> HIDE DEF x, y
      <3>4. Max({0, x, y}) = IF Amt(v) > 0 THEN Amt(v) ELSE 0
        <4>1. CASE Amt(v) > 0
          BY <1>5, <3>2, <3>3, <4>1, MaxIs
        <4>2. CASE ~(Amt(v) > 0)
          BY <1>5, <3>2, <3>3, <4>2, MaxIs
        <4> QED
          BY <4>1, <4>2
      <3> QED
        BY <1>5, <1>8, <2>4, <2>5, <3>4 DEF HoldOf
    <2>6. CASE o = <<"line", t, a>>
      <3>1. <<"line", a, t>> \notin Objects
        BY <1>3, <2>2, <2>6 DEF Sources
      <3>2. x = 0 /\ Amount(<<"line", t, a>>, post) = Amt(v)
        BY <1>1, <1>4, <2>6, <3>1 DEF Amount
      <3>3. {0, x, y} \subseteq Int /\ y = 0 - Amt(v)
        <4> DEFINE z == Amount(<<"line", t, a>>, post)
        <4>1. z \in Int
          BY <1>5, <3>2
        <4> HIDE DEF z
        <4>2. -z = 0 - z
          BY <4>1
        <4> QED
          BY <1>5, <3>2, <4>2 DEF z
      <3> HIDE DEF x, y
      <3>4. Max({0, x, y}) = IF Amt(v) < 0 THEN 0 - Amt(v) ELSE 0
        <4>1. CASE Amt(v) < 0
          BY <1>5, <3>2, <3>3, <4>1, MaxIs
        <4>2. CASE ~(Amt(v) < 0)
          BY <1>5, <3>2, <3>3, <4>2, MaxIs
        <4> QED
          BY <4>1, <4>2
      <3> QED
        BY <1>5, <1>8, <2>2, <2>4, <2>6, <3>4 DEF HoldOf
    <2> QED
      BY <2>3, <2>5, <2>6
  <1> QED
    BY <1>2, <1>6, <1>7, <1>8 DEF IsObject

WriteOf(x) == Handle(x.of, x.to = Absent, Field(x))

LEMMA NodesAre ==
  ASSUME ChainInv, NEW n \in 1..Newest, NEW i \in DOMAIN chain[n].nodes
  PROVE  /\ n > 1 /\ i \in {1, 2}
         /\ \E o \in Objects : \E from, to \in States(o) :
              chain[n].nodes[i] = Node(o, from, to) /\ MayBecome(o, from, to)
  <1> DEFINE nodes == chain[n].nodes
             o == nodes[i].of
  <1>1. chain[n] \in Ledgers
    BY DEF ChainInv, Newest
  <1> DEFINE Nodes == [of : Objects, from : AllStates, to : AllStates]
  <1>2. nodes \in Seq(Nodes)
    BY <1>1 DEF Ledgers
  <1>3. i \in 1..Len(nodes) /\ Len(nodes) \in Nat /\ Len(nodes) <= 2 /\ o \in Objects
    <2>1. Len(nodes) <= 2
      BY DEF ChainInv
    <2>2. Len(nodes) \in Nat /\ DOMAIN nodes = 1..Len(nodes) /\ nodes[i] \in Nodes
      <3> HIDE DEF Nodes
      <3> QED
        BY <1>2
    <2> QED
      BY <2>1, <2>2
  <1>4. n > 1 /\ n \in 2..Newest
    <2>1. chain[1].nodes = <<>> /\ Newest \in Nat
      BY DEF ChainInv, Newest
    <2>2. n # 1
      BY <1>3, <2>1
    <2> QED
      BY <2>1, <2>2
  <1>5. PICK mid \in States(o) :
          /\ LinkedBy(chain[n].nodes, 1, o, chain[n - 1].post[o], mid)
          /\ LinkedBy(chain[n].nodes, 2, o, mid, chain[n].post[o])
    BY <1>3, <1>4 DEF ChainInv
  <1>6. chain[n - 1].post[o] \in States(o) /\ chain[n].post[o] \in States(o)
    <2>1. n - 1 \in 1..Newest
      BY <1>4 DEF Newest
    <2> QED
      BY <1>3, <2>1 DEF ChainInv
  <1>7. i \in {1, 2}
    BY <1>3
  <1>8. CASE i = 1
    <2>1. nodes[1] = Node(o, chain[n - 1].post[o], mid) /\ MayBecome(o, chain[n - 1].post[o], mid)
      BY <1>5, <1>8 DEF LinkedBy
    <2> HIDE DEF o
    <2>2. \E from, to \in States(o) : nodes[i] = Node(o, from, to) /\ MayBecome(o, from, to)
      BY <1>6, <1>8, <2>1
    <2> QED
      BY <1>3, <1>4, <1>7, <2>2
  <1>9. CASE i = 2
    <2>1. nodes[2] = Node(o, mid, chain[n].post[o]) /\ MayBecome(o, mid, chain[n].post[o])
      BY <1>5, <1>9 DEF LinkedBy
    <2> HIDE DEF o
    <2>2. \E from, to \in States(o) : nodes[i] = Node(o, from, to) /\ MayBecome(o, from, to)
      BY <1>6, <1>9, <2>1
    <2> QED
      BY <1>3, <1>4, <1>7, <2>2
  <1> QED
    BY <1>4, <1>7, <1>8, <1>9

\* The nodes that write a key are nodes of its source.
LEMMA WritersAre ==
  ASSUME ChainInv, NEW n \in 1..Newest, NEW i \in DOMAIN chain[n].nodes,
         NEW r \in WriteOf(chain[n].nodes[i])
  PROVE  /\ r.key = <<r.key[1], r.key[2]>> /\ r.balance \in Int
         /\ chain[n].nodes[i].of \in Sources(r.key[1], r.key[2])
         /\ \A q \in WriteOf(chain[n].nodes[i]) : q = r
  <1>0. PICK o \in Objects : \E from, to \in States(o) :
          chain[n].nodes[i] = Node(o, from, to) /\ MayBecome(o, from, to)
    BY NodesAre
  <1>1. PICK from \in States(o), to \in States(o) :
          chain[n].nodes[i] = Node(o, from, to) /\ MayBecome(o, from, to)
    BY <1>0
  <1>2. IsObject(o)
    BY ObjectsAre DEF ChainInv
  <1>3. WriteOf(chain[n].nodes[i]) = Handle(o, to = Absent, Field(Node(o, from, to)))
    BY <1>1 DEF WriteOf, Node
  <1>4. r.key = <<r.key[1], r.key[2]>> /\ r.balance \in Int /\ IsKey(o, r.key[1], r.key[2])
    BY <1>1, <1>2, <1>3, NodeWrites
  <1>5. chain[n].nodes[i].of = o
    BY <1>1 DEF Node
  <1>6. \A q \in WriteOf(chain[n].nodes[i]) : q = r
    <2> DEFINE d == to = Absent
               v == Field(Node(o, from, to))
    <2>1. d \in BOOLEAN
      OBVIOUS
    <2>2. WriteOf(chain[n].nodes[i]) = Handle(o, d, v)
      BY <1>3
    <2> HIDE DEF d, v
    <2>3. ASSUME NEW q \in Handle(o, d, v) PROVE q = r
      BY <1>2, <2>1, <2>2, <2>3, OneRow
    <2> QED
      BY <2>2, <2>3
  <1> QED
    BY <1>4, <1>5, <1>6, ObjectsAre DEF ChainInv

\* The nodes of a ledger that write an account's row.
Writers(a, t, n) ==
  {i \in DOMAIN chain[n].nodes : \E r \in WriteOf(chain[n].nodes[i]) : r.key = <<a, t>>}

\* What the batch of a ledger has for a key: what the last node wrote.
LEMMA BatchIs ==
  ASSUME ChainInv, NEW n \in 1..Newest, NEW a, NEW t
  PROVE  /\ <<a, t, n>> \in DOMAIN Batch(chain[n].nodes, n) <=> Writers(a, t, n) # {}
         /\ <<a, t, n>> \in DOMAIN Batch(chain[n].nodes, n) =>
              \A m \in Writers(a, t, n) : m = Max(Writers(a, t, n)) =>
                \A r \in WriteOf(chain[n].nodes[m]) : Batch(chain[n].nodes, n)[<<a, t, n>>] = r.balance
  <1> DEFINE nodes   == chain[n].nodes
             batch   == Batch(nodes, n)
             writers == Writers(a, t, n)
             k       == <<a, t, n>>
             written == Written(nodes)
             Of      == {i \in DOMAIN nodes : \E r \in written[i] : <<r.key[1], r.key[2], n>> = k}
             keys    == {<<r.key[1], r.key[2], n>> : r \in UNION {written[i] : i \in DOMAIN nodes}}
  <1>1. \A i \in DOMAIN nodes : written[i] = WriteOf(nodes[i])
    BY DEF Written, WriteOf
  <1>2. \A i \in DOMAIN nodes : \A r \in WriteOf(nodes[i]) :
          r.key = <<a, t>> <=> <<r.key[1], r.key[2], n>> = k
    BY WritersAre
  <1>3. Of = writers
    BY <1>1, <1>2 DEF Writers
  <1>4. DOMAIN batch = keys
    BY DEF Batch
  <1>5. k \in keys <=> Of # {}
    OBVIOUS
  <1>6. ASSUME k \in keys, NEW r \in WriteOf(nodes[Max(writers)]), Max(writers) \in writers
        PROVE  batch[k] = r.balance
    <2>1. batch[k] = (CHOOSE q \in written[Max(Of)] : TRUE).balance
      BY <1>6 DEF Batch
    <2>2. (CHOOSE q \in written[Max(Of)] : TRUE) \in WriteOf(nodes[Max(writers)])
      BY <1>1, <1>3, <1>6
    <2>3. (CHOOSE q \in written[Max(Of)] : TRUE) = r
      BY <1>6, <2>2, WritersAre DEF Writers
    <2> QED
      BY <2>1, <2>3
  <1> QED
    BY <1>3, <1>4, <1>5, <1>6

\* The states of a key's source in one ledger: before, between the two nodes, after.
LEMMA SourceSteps ==
  ASSUME ChainInv, NEW n \in 2..Newest, NEW o \in Objects
  PROVE  \E mid \in States(o) :
           /\ chain[n - 1].post[o] \in States(o) /\ chain[n].post[o] \in States(o)
           /\ LinkedBy(chain[n].nodes, 1, o, chain[n - 1].post[o], mid)
           /\ LinkedBy(chain[n].nodes, 2, o, mid, chain[n].post[o])
  BY DEF ChainInv, Newest

\* What one node of the source does to what is held, and writes.
LEMMA NodeEffect ==
  ASSUME Objects \in Worlds, NEW o \in Objects, NEW a, NEW t, o \in Sources(a, t),
         NEW from \in States(o), NEW to \in States(o), MayBecome(o, from, to)
  PROVE  LET x == Node(o, from, to) IN
         /\ \A r \in WriteOf(x) : r.key = <<a, t>> =>
              r.balance = HoldOf(o, a, to) \/ (HoldOf(o, a, to) = 0 /\ Unseen(x, a))
         /\ (\A r \in WriteOf(x) : r.key # <<a, t>>) =>
              HoldOf(o, a, to) = 0 /\ (HoldOf(o, a, from) = 0 \/ Unseen(x, a))
  <1> DEFINE x == Node(o, from, to)
  <1>1. IsObject(o) /\ IsKey(o, a, t)
    BY ObjectsAre
  <1>2. WriteOf(x) = Handle(o, to = Absent, Field(x))
    BY DEF WriteOf, Node
  <1>3. ASSUME NEW r \in WriteOf(x), r.key = <<a, t>>
        PROVE  r.balance = HoldOf(o, a, to) \/ (HoldOf(o, a, to) = 0 /\ Unseen(x, a))
    <2>1. r.key[1] = a
      BY <1>3
    <2> QED
      BY <1>1, <1>2, <1>3, <2>1, NodeWrites
  <1>4. ASSUME \A r \in WriteOf(x) : r.key # <<a, t>>
        PROVE  HoldOf(o, a, to) = 0 /\ (HoldOf(o, a, from) = 0 \/ Unseen(x, a))
    BY <1>1, <1>2, <1>4, NodeSilent
  <1> QED
    BY <1>3, <1>4

\* An account's row of a ledger is what it holds after it.
LEMMA WrittenHolds ==
  ASSUME ChainInv, NEW n \in 1..Newest, NEW a, NEW t,
         <<a, t, n>> \in DOMAIN Batch(chain[n].nodes, n)
  PROVE  LET value == Batch(chain[n].nodes, n)[<<a, t, n>>]
         IN /\ Sources(a, t) # {} /\ value \in Int
            /\ value = Holding(a, t, n) \/ Bad(a, t, n)
  <1> DEFINE nodes   == chain[n].nodes
             value   == Batch(nodes, n)[<<a, t, n>>]
             Writes(i) == \E r \in WriteOf(nodes[i]) : r.key = <<a, t>>
             writers == {i \in DOMAIN nodes : Writes(i)}
             m       == Max(writers)
  <1>0. writers = Writers(a, t, n)
    BY DEF Writers
  <1>1. writers # {}
    BY <1>0, BatchIs
  <1>2. n > 1 /\ writers \subseteq {1, 2}
    BY <1>1, NodesAre
  <1>3. m \in writers /\ \A i \in writers : i <= m
    <2>1. writers \in SUBSET Nat /\ \A i \in writers : i <= 2
      BY <1>2
    <2> HIDE DEF writers
    <2> QED
      BY <1>1, <2>1, GreatestNat
  <1>4. PICK r \in WriteOf(nodes[m]) : r.key = <<a, t>>
    BY <1>3
  <1>5. value = r.balance
    <2>1. m \in Writers(a, t, n) /\ m = Max(Writers(a, t, n))
      BY <1>0, <1>3
    <2> HIDE DEF m
    <2> QED
      BY <2>1, BatchIs
  <1> DEFINE o == nodes[m].of
  <1>6. o \in Sources(a, t) /\ r.balance \in Int
    <2>1. m \in DOMAIN nodes
      BY <1>3
    <2>2. r.key[1] = a /\ r.key[2] = t
      BY <1>4
    <2> QED
      BY <1>4, <2>1, <2>2, WritersAre
  <1>7. o \in Objects /\ Objects \in Worlds
    BY <1>6 DEF Sources, ChainInv
  <1>8. PICK mid \in States(o) :
           /\ chain[n - 1].post[o] \in States(o) /\ chain[n].post[o] \in States(o)
           /\ LinkedBy(nodes, 1, o, chain[n - 1].post[o], mid)
           /\ LinkedBy(nodes, 2, o, mid, chain[n].post[o])
    <2>1. n \in 2..Newest
      BY <1>2 DEF Newest
    <2> QED
      BY <1>7, <2>1, SourceSteps
  <1> DEFINE pre == chain[n - 1].post[o]
             post == chain[n].post[o]
  <1>9. Holding(a, t, n) = HoldOf(o, a, post)
    BY <1>6, HoldingIs
  <1>10. \A i \in DOMAIN nodes : nodes[i].of = o /\ Unseen(nodes[i], a) /\ HoldOf(o, a, post) = 0 => Bad(a, t, n)
    BY <1>6, <1>9 DEF Bad, Range
  <1>11. CASE m = 2
    <2>1. nodes[2] = Node(o, mid, post) /\ MayBecome(o, mid, post)
      BY <1>3, <1>8, <1>11 DEF LinkedBy
    <2>2. r.balance = HoldOf(o, a, post) \/ (HoldOf(o, a, post) = 0 /\ Unseen(nodes[2], a))
      BY <1>4, <1>6, <1>7, <1>8, <1>11, <2>1, NodeEffect
    <2> QED
      BY <1>3, <1>5, <1>6, <1>9, <1>10, <1>11, <2>2
  <1>12. CASE m = 1
    <2>1. nodes[1] = Node(o, pre, mid) /\ MayBecome(o, pre, mid)
      BY <1>3, <1>8, <1>12 DEF LinkedBy
    <2>2. r.balance = HoldOf(o, a, mid) \/ (HoldOf(o, a, mid) = 0 /\ Unseen(nodes[1], a))
      BY <1>4, <1>6, <1>7, <1>8, <1>12, <2>1, NodeEffect
    <2>3. CASE 2 \in DOMAIN nodes /\ nodes[2].of = o
      <3>1. nodes[2] = Node(o, mid, post) /\ MayBecome(o, mid, post)
        BY <1>8, <2>3 DEF LinkedBy
      <3>2. \A q \in WriteOf(nodes[2]) : q.key # <<a, t>>
        <4>1. ~(2 <= m)
          BY <1>12
        <4>2. 2 \notin writers
          BY <1>3, <4>1
        <4> QED
          BY <2>3, <4>2
      <3>3. HoldOf(o, a, post) = 0 /\ (HoldOf(o, a, mid) = 0 \/ Unseen(nodes[2], a))
        BY <1>6, <1>7, <1>8, <3>1, <3>2, NodeEffect
      <3> QED
        BY <1>3, <1>5, <1>6, <1>9, <1>10, <1>12, <2>2, <2>3, <3>3
    <2>4. CASE ~(2 \in DOMAIN nodes /\ nodes[2].of = o)
      <3>1. post = mid
        BY <1>8, <2>4 DEF LinkedBy
      <3> QED
        BY <1>3, <1>5, <1>6, <1>9, <1>10, <1>12, <2>2, <3>1
    <2> QED
      BY <2>3, <2>4
  <1> QED
    BY <1>2, <1>3, <1>11, <1>12

\* Without one, it holds what it held before.
LEMMA UnwrittenHolds ==
  ASSUME ChainInv, NEW n \in 2..Newest, NEW a, NEW t, Sources(a, t) # {},
         <<a, t, n>> \notin DOMAIN Batch(chain[n].nodes, n)
  PROVE  Holding(a, t, n) = Holding(a, t, n - 1) \/ Bad(a, t, n)
  <1> DEFINE nodes == chain[n].nodes
  <1>1. PICK o \in Sources(a, t) : TRUE
    OBVIOUS
  <1>2. o \in Objects /\ Objects \in Worlds /\ n \in 1..Newest /\ n - 1 \in 1..Newest
    BY DEF Sources, ChainInv, Newest
  <1>3. PICK mid \in States(o) :
           /\ chain[n - 1].post[o] \in States(o) /\ chain[n].post[o] \in States(o)
           /\ LinkedBy(nodes, 1, o, chain[n - 1].post[o], mid)
           /\ LinkedBy(nodes, 2, o, mid, chain[n].post[o])
    BY <1>2, SourceSteps
  <1> DEFINE pre == chain[n - 1].post[o]
             post == chain[n].post[o]
  <1>4. Holding(a, t, n) = HoldOf(o, a, post) /\ Holding(a, t, n - 1) = HoldOf(o, a, pre)
    BY <1>2, HoldingIs
  <1>5. \A i \in DOMAIN nodes : nodes[i].of = o /\ Unseen(nodes[i], a) /\ HoldOf(o, a, post) = 0 => Bad(a, t, n)
    BY <1>4 DEF Bad, Range
  <1>6. \A i \in DOMAIN nodes : \A r \in WriteOf(nodes[i]) : r.key # <<a, t>>
    BY <1>2, BatchIs DEF Writers
  <1>7. mid = pre \/ (/\ 1 \in DOMAIN nodes /\ nodes[1].of = o
                      /\ HoldOf(o, a, mid) = 0 /\ (HoldOf(o, a, pre) = 0 \/ Unseen(nodes[1], a)))
    <2>1. CASE 1 \in DOMAIN nodes /\ nodes[1].of = o
      <3>1. nodes[1] = Node(o, pre, mid) /\ MayBecome(o, pre, mid)
        BY <1>3, <2>1 DEF LinkedBy
      <3>2. \A r \in WriteOf(nodes[1]) : r.key # <<a, t>>
        BY <1>6, <2>1
      <3>3. HoldOf(o, a, mid) = 0 /\ (HoldOf(o, a, pre) = 0 \/ Unseen(nodes[1], a))
        BY <1>2, <1>3, <3>1, <3>2, NodeEffect
      <3> QED
        BY <2>1, <3>3
    <2> QED
      BY <1>3, <2>1 DEF LinkedBy
  <1>8. post = mid \/ (/\ 2 \in DOMAIN nodes /\ nodes[2].of = o
                       /\ HoldOf(o, a, post) = 0 /\ (HoldOf(o, a, mid) = 0 \/ Unseen(nodes[2], a)))
    <2>1. CASE 2 \in DOMAIN nodes /\ nodes[2].of = o
      <3>1. nodes[2] = Node(o, mid, post) /\ MayBecome(o, mid, post)
        BY <1>3, <2>1 DEF LinkedBy
      <3>2. \A r \in WriteOf(nodes[2]) : r.key # <<a, t>>
        BY <1>6, <2>1
      <3>3. HoldOf(o, a, post) = 0 /\ (HoldOf(o, a, mid) = 0 \/ Unseen(nodes[2], a))
        BY <1>2, <1>3, <3>1, <3>2, NodeEffect
      <3> QED
        BY <2>1, <3>3
    <2> QED
      BY <1>3, <2>1 DEF LinkedBy
  <1> QED
    BY <1>4, <1>5, <1>7, <1>8

Found(n) == UNION {Handle(o, FALSE, chain[n].post[o]) : o \in {o \in Objects : chain[n].post[o] # Absent}}

LEMMA FoundAre ==
  ASSUME ChainInv, NEW n \in 1..Newest, NEW a, NEW t, NEW r \in Found(n), r.key = <<a, t>>
  PROVE  Sources(a, t) # {} /\ r.balance \in Int /\ r.balance = Holding(a, t, n)
  <1>1. PICK o \in Objects : chain[n].post[o] # Absent /\ r \in Handle(o, FALSE, chain[n].post[o])
    BY DEF Found
  <1>2. IsObject(o) /\ chain[n].post[o] \in States(o) /\ Objects \in Worlds
    BY ObjectsAre DEF ChainInv
  <1>3. r.key[1] = a /\ r.key[2] = t
    OBVIOUS
  <1>4. IsKey(o, a, t) /\ r.balance \in Int /\ r.balance = HoldOf(o, a, chain[n].post[o])
    BY <1>1, <1>2, <1>3, WalkWrites
  <1>5. o \in Sources(a, t)
    BY <1>2, <1>4, ObjectsAre
  <1> QED
    BY <1>4, <1>5, HoldingIs

LEMMA FoundKeys ==
  ASSUME ChainInv, NEW n \in 1..Newest, NEW r \in Found(n)
  PROVE  r.key = <<r.key[1], r.key[2]>>
  <1>1. PICK o \in Objects : chain[n].post[o] # Absent /\ r \in Handle(o, FALSE, chain[n].post[o])
    BY DEF Found
  <1>2. IsObject(o) /\ chain[n].post[o] \in States(o)
    BY ObjectsAre DEF ChainInv
  <1> QED
    BY <1>1, <1>2, WalkWrites

\* The snapshot's rows are exact.
LEMMA WalkedHolds ==
  ASSUME ChainInv, NEW n \in 1..Newest, NEW a, NEW t, <<a, t, n>> \in DOMAIN Walked(n)
  PROVE  /\ Sources(a, t) # {} /\ Walked(n)[<<a, t, n>>] \in Int
         /\ Walked(n)[<<a, t, n>>] = Holding(a, t, n)
  <1> DEFINE k == <<a, t, n>>
  <1>1. k \in {<<r.key[1], r.key[2], n>> : r \in Found(n)}
    BY DEF Walked, Found
  <1>2. PICK r \in Found(n) : r.key = <<a, t>>
    <2>1. PICK r \in Found(n) : k = <<r.key[1], r.key[2], n>>
      BY <1>1
    <2> QED
      BY <2>1, FoundKeys
  <1>3. Walked(n)[k] = (CHOOSE q \in Found(n) : q.key = <<a, t>>).balance
    BY <1>1 DEF Walked, Found
  <1> DEFINE q == CHOOSE q \in Found(n) : q.key = <<a, t>>
  <1>4. q \in Found(n) /\ q.key = <<a, t>>
    BY <1>2
  <1> HIDE DEF q
  <1> QED
    BY <1>3, <1>4, FoundAre DEF q

\* Who has none holds nothing.
LEMMA UnwalkedHolds ==
  ASSUME ChainInv, NEW n \in 1..Newest, NEW a, NEW t, NEW o \in Sources(a, t),
         <<a, t, n>> \notin DOMAIN Walked(n)
  PROVE  LET s == chain[n].post[o] IN
         /\ Holding(a, t, n) = 0
         /\ o[1] # "line" => s = Absent
         /\ o[1] = "line" /\ a = o[2] => s = Absent \/ s < 0
         /\ o[1] = "line" /\ a = o[3] => s = Absent \/ s >= 0
  <1> DEFINE s == chain[n].post[o]
  <1>1. o \in Objects /\ Objects \in Worlds
    BY DEF Sources, ChainInv
  <1>2. IsObject(o) /\ s \in States(o) /\ IsKey(o, a, t)
    BY <1>1, ObjectsAre DEF ChainInv
  <1>3. ASSUME s # Absent, NEW r \in Handle(o, FALSE, s), r.key = <<a, t>> PROVE FALSE
    <2>1. r \in Found(n)
      BY <1>1, <1>3 DEF Found
    <2>2. <<r.key[1], r.key[2], n>> \in DOMAIN Walked(n)
      BY <2>1 DEF Walked, Found
    <2> QED
      BY <1>3, <2>2
  <1>4. Holding(a, t, n) = HoldOf(o, a, s)
    BY HoldingIs
  <1> HIDE DEF s
  <1>5. s # Absent => \A r \in Handle(o, FALSE, s) : r.key # <<a, t>>
    BY <1>3
  <1> QED
    BY <1>2, <1>4, <1>5, WalkSilent DEF s

\* Nor did it before the ledger of the snapshot, or it lost it there in a way that
\* the handlers do not see, unless its object is lost in that ledger.
LEMMA UnwalkedBefore ==
  ASSUME ChainInv, NEW n \in 2..Newest, NEW a, NEW t, NEW o \in Sources(a, t),
         <<a, t, n>> \notin DOMAIN Walked(n),
         \A x \in Range(chain[n].nodes) :
           x.of = o => ~(x.to = Absent \/ (x.to = 0 /\ Amount(o, chain[n].post) < 0))
  PROVE  Holding(a, t, n) = 0 /\ (Holding(a, t, n - 1) = 0 \/ Bad(a, t, n))
  <1> DEFINE nodes == chain[n].nodes
             pre == chain[n - 1].post[o]
             post == chain[n].post[o]
  <1>1. o \in Objects /\ Objects \in Worlds /\ n \in 1..Newest /\ n - 1 \in 1..Newest
    BY DEF Sources, ChainInv, Newest
  <1>2. IsObject(o) /\ IsKey(o, a, t)
    BY <1>1, ObjectsAre
  <1>3. PICK mid \in States(o) :
           /\ pre \in States(o) /\ post \in States(o)
           /\ LinkedBy(nodes, 1, o, pre, mid)
           /\ LinkedBy(nodes, 2, o, mid, post)
    BY <1>1, SourceSteps
  <1>4. /\ Holding(a, t, n) = 0 /\ Holding(a, t, n) = HoldOf(o, a, post)
        /\ Holding(a, t, n - 1) = HoldOf(o, a, pre)
        /\ o[1] # "line" => post = Absent
        /\ o[1] = "line" /\ a = o[2] => post = Absent \/ post < 0
        /\ o[1] = "line" /\ a = o[3] => post = Absent \/ post >= 0
    BY <1>1, HoldingIs, UnwalkedHolds
  <1>5. Amount(o, chain[n].post) = Amt(post)
    <2>1. DOMAIN chain[n].post = Objects
      <3>1. chain[n] \in Ledgers
        BY <1>1 DEF ChainInv, Newest
      <3> QED
        BY <3>1 DEF Ledgers
    <2> QED
      BY <1>1, <2>1 DEF Amount, Amt
  <1>6. \A i \in DOMAIN nodes : nodes[i].of = o =>
          /\ nodes[i].to # Absent /\ (nodes[i].to = 0 => ~(Amt(post) < 0))
          /\ Unseen(nodes[i], a) => Bad(a, t, n)
    BY <1>4, <1>5 DEF Bad, Range
  <1> HIDE DEF pre, post
  <1>7. mid = pre \/ (/\ 1 \in DOMAIN nodes /\ nodes[1].of = o /\ nodes[1] = Node(o, pre, mid)
                      /\ mid # Absent /\ (mid = 0 => ~(Amt(post) < 0)))
    <2>1. CASE 1 \in DOMAIN nodes /\ nodes[1].of = o
      <3>1. nodes[1] = Node(o, pre, mid)
        BY <1>3, <2>1 DEF LinkedBy
      <3> QED
        BY <1>6, <2>1, <3>1 DEF Node
    <2> QED
      BY <1>3, <2>1 DEF LinkedBy
  <1>8. post = mid \/ (2 \in DOMAIN nodes /\ nodes[2].of = o /\ nodes[2] = Node(o, mid, post) /\ post # Absent)
    <2>1. CASE 2 \in DOMAIN nodes /\ nodes[2].of = o
      <3>1. nodes[2] = Node(o, mid, post)
        BY <1>3, <2>1 DEF LinkedBy
      <3> QED
        BY <1>6, <2>1, <3>1 DEF Node
    <2> QED
      BY <1>3, <2>1 DEF LinkedBy
  <1>9. CASE post = Absent
    <2>1. post = pre
      BY <1>7, <1>8, <1>9
    <2> QED
      BY <1>4, <2>1
  <1>10. CASE post # Absent
    <2>1. o[1] = "line" /\ (a = o[2] \/ a = o[3]) /\ o[2] # o[3]
      BY <1>2, <1>4, <1>10 DEF IsKey, IsObject
    <2>2. Amt(pre) \in Int /\ Amt(mid) \in Int /\ post \in Int /\ Amt(post) = post
      BY <1>2, <1>3, <1>10 DEF IsObject, States, Amt
    <2>3. CASE a = o[2]
      <3>1. post < 0
        BY <1>4, <1>10, <2>1, <2>3
      <3>2. Amt(pre) > 0 => pre # Absent /\ pre > 0
        BY DEF Amt
      <3>3. Amt(pre) > 0 => Bad(a, t, n)
        <4> SUFFICES ASSUME Amt(pre) > 0 PROVE Bad(a, t, n)
          OBVIOUS
        <4>1. mid # pre => nodes[1] = Node(o, pre, mid) /\ 1 \in DOMAIN nodes /\ nodes[1].of = o /\ mid # Absent /\ mid # 0
          BY <1>7, <2>2, <3>1
        <4>2. mid # Absent /\ mid \in Int
          BY <1>3, <1>7, <2>2, <3>2 DEF Amt
        <4>3. CASE mid < 0
          <5>1. Unseen(nodes[1], a)
            BY <2>1, <2>3, <3>2, <4>1, <4>2, <4>3 DEF Unseen, Node
          <5>2. mid # pre
            BY <3>2, <4>2, <4>3
          <5> QED
            BY <1>6, <4>1, <5>1, <5>2
        <4>4. CASE ~(mid < 0)
          <5>1. mid > 0
            BY <3>2, <4>1, <4>2, <4>4
          <5>a. mid # post
            BY <2>2, <3>1, <5>1
          <5>2. nodes[2] = Node(o, mid, post) /\ 2 \in DOMAIN nodes /\ nodes[2].of = o
            BY <1>8, <5>a
          <5>3. Unseen(nodes[2], a)
            BY <1>10, <2>1, <2>3, <3>1, <4>2, <5>1, <5>2 DEF Unseen, Node
          <5> QED
            BY <1>6, <5>2, <5>3
        <4> QED
          BY <4>3, <4>4
      <3> QED
        BY <1>4, <2>1, <2>2, <2>3, <3>3 DEF HoldOf
    <2>4. CASE a = o[3]
      <3>1. post >= 0
        BY <1>4, <1>10, <2>1, <2>4
      <3>2. Amt(pre) < 0 => pre # Absent /\ pre < 0
        BY DEF Amt
      <3>3. Amt(pre) < 0 => Bad(a, t, n)
        <4> SUFFICES ASSUME Amt(pre) < 0 PROVE Bad(a, t, n)
          OBVIOUS
        <4>1. mid # Absent /\ mid \in Int
          BY <1>3, <1>7, <2>2, <3>2 DEF Amt
        <4>2. CASE mid >= 0
          <5>a. mid # pre
            BY <3>2, <4>1, <4>2
          <5>1. nodes[1] = Node(o, pre, mid) /\ 1 \in DOMAIN nodes /\ nodes[1].of = o
            BY <1>7, <5>a
          <5>2. Unseen(nodes[1], a)
            BY <2>1, <2>4, <3>2, <4>1, <4>2, <5>1 DEF Unseen, Node
          <5> QED
            BY <1>6, <5>1, <5>2
        <4>3. CASE ~(mid >= 0)
          <5>1. mid < 0
            BY <4>1, <4>3
          <5>a. mid # post
            BY <2>2, <3>1, <5>1
          <5>2. nodes[2] = Node(o, mid, post) /\ 2 \in DOMAIN nodes /\ nodes[2].of = o
            BY <1>8, <5>a
          <5>3. Unseen(nodes[2], a)
            BY <1>10, <2>1, <2>4, <3>1, <4>1, <5>1, <5>2 DEF Unseen, Node
          <5> QED
            BY <1>6, <5>2, <5>3
        <4> QED
          BY <4>2, <4>3
      <3> QED
        BY <1>4, <2>1, <2>2, <2>4, <3>3 DEF HoldOf
    <2> QED
      BY <2>1, <2>3, <2>4
  <1> QED
    BY <1>9, <1>10

-----------------------------------------------------------------------------
(* The network only adds ledgers. *)

LEMMA ChainFacts ==
  ASSUME ChainInv
  PROVE  /\ Newest \in Nat /\ Newest >= 1 /\ DOMAIN chain = 1..Newest
         /\ \A n \in 1..Newest : /\ chain[n] \in Ledgers /\ DOMAIN chain[n].post = Objects
                                 /\ \A o \in Objects : chain[n].post[o] \in States(o)
  <1> HIDE DEF Ledgers
  <1>1. chain \in Seq(Ledgers) /\ chain # <<>>
    BY DEF ChainInv
  <1>2. Newest \in Nat /\ Newest >= 1 /\ DOMAIN chain = 1..Newest
    BY <1>1 DEF Newest
  <1>3. \A n \in 1..Newest : chain[n] \in Ledgers
    BY <1>1 DEF Newest
  <1>4. \A n \in 1..Newest : DOMAIN chain[n].post = Objects
    BY <1>3 DEF Ledgers
  <1> QED
    BY <1>2, <1>3, <1>4 DEF ChainInv

Appends(nodes, post) == chain' = Append(chain, [nodes |-> nodes, post |-> post])

\* A ledger that links every object to the one before may be added.
LEMMA ChainGrows ==
  ASSUME ChainInv, NEW nodes \in Seq([of : Objects, from : AllStates, to : AllStates]), NEW post \in [Objects -> AllStates],
         Appends(nodes, post),
         Len(nodes) <= 2, Conserved(post), \A o \in Objects : post[o] \in States(o),
         \A o \in Objects : \E mid \in States(o) :
           /\ LinkedBy(nodes, 1, o, chain[Newest].post[o], mid)
           /\ LinkedBy(nodes, 2, o, mid, post[o])
  PROVE  ChainInv'
  <1> DEFINE r == [nodes |-> nodes, post |-> post]
  <1>1. Newest \in Nat /\ Newest >= 1 /\ chain \in Seq(Ledgers)
    BY ChainFacts DEF ChainInv
  <1>2. r \in Ledgers
    BY DEF Ledgers
  <1> HIDE DEF Ledgers
  <1>3. /\ chain' \in Seq(Ledgers) /\ Newest' = Newest + 1 /\ chain' # <<>>
        /\ \A n \in 1..Newest : chain'[n] = chain[n]
        /\ chain'[Newest + 1] = r
    <2> HIDE DEF r
    <2> QED
      BY <1>1, <1>2 DEF Newest, r, Appends
  <1>9. chain'[Newest + 1].post = post /\ chain'[Newest + 1].nodes = nodes
    BY <1>3
  <1>4. Objects' = Objects
    BY <1>1, <1>3 DEF Objects
  <1>5. Ledgers' = Ledgers
    BY <1>4 DEF Ledgers, AllStates
  <1>6. Objects' \in Worlds /\ chain' \in Seq(Ledgers') /\ chain' # <<>> /\ chain'[1].nodes = <<>>
    BY <1>1, <1>3, <1>4, <1>5 DEF ChainInv
  <1>7. ASSUME NEW n \in 1..(Newest + 1)
        PROVE  /\ \A o \in Objects : chain'[n].post[o] \in States(o)
               /\ Conserved(chain'[n].post)
               /\ Len(chain'[n].nodes) <= 2
    <2>1. CASE n = Newest + 1
      <3>1. chain'[n].post = post /\ chain'[n].nodes = nodes
        BY <1>9, <2>1
      <3> QED
        BY <3>1
    <2>2. CASE n \in 1..Newest
      BY <1>3, <2>2 DEF ChainInv
    <2>3. n = Newest + 1 \/ n \in 1..Newest
      BY <1>1
    <2> QED
      BY <2>1, <2>2, <2>3
  <1>8. ASSUME NEW n \in 2..(Newest + 1), NEW o \in Objects
        PROVE  \E mid \in States(o) :
                 /\ LinkedBy(chain'[n].nodes, 1, o, chain'[n - 1].post[o], mid)
                 /\ LinkedBy(chain'[n].nodes, 2, o, mid, chain'[n].post[o])
    <2>1. CASE n = Newest + 1
      <3>1. n - 1 = Newest /\ Newest \in 1..Newest
        BY <1>1, <2>1
      <3>2. chain'[n - 1] = chain[Newest] /\ chain'[n].post = post /\ chain'[n].nodes = nodes
        BY <1>3, <1>9, <2>1, <3>1
      <3> QED
        BY <3>2
    <2>2. CASE n \in 2..Newest
      <3>0. n \in 1..Newest /\ n - 1 \in 1..Newest
        BY <1>1, <2>2
      <3>1. chain'[n - 1] = chain[n - 1] /\ chain'[n] = chain[n]
        BY <1>3, <3>0
      <3> QED
        BY <2>2, <3>1 DEF ChainInv
    <2>3. n = Newest + 1 \/ n \in 2..Newest
      BY <1>1
    <2> QED
      BY <2>1, <2>2, <2>3
  <1> QED
    BY <1>3, <1>4, <1>6, <1>7, <1>8 DEF ChainInv

\* What a step never changes in the ledgers there are.
Kept ==
  /\ Newest' \in Nat /\ Newest' >= Newest
  /\ Objects' = Objects
  /\ \A n \in 1..Newest : chain'[n] = chain[n]

LEMMA ChainInit == Init => ChainInv
  <1> SUFFICES ASSUME Init PROVE ChainInv
    OBVIOUS
  <1>1. PICK world \in Worlds : \E post \in [world -> UNION {States(o) : o \in world}] :
       /\ \A o \in world : post[o] \in States(o)
       /\ Conserved(post)
       /\ chain = <<[nodes |-> <<>>, post |-> post]>>
    BY DEF Init
  <1>2. PICK post \in [world -> UNION {States(o) : o \in world}] :
       /\ \A o \in world : post[o] \in States(o)
       /\ Conserved(post)
       /\ chain = <<[nodes |-> <<>>, post |-> post]>>
    BY <1>1
  <1>3. Objects = world
    BY <1>2 DEF Objects
  <1> DEFINE r == [nodes |-> <<>>, post |-> post]
  <1>4. r \in Ledgers
    BY <1>2, <1>3 DEF Ledgers, AllStates
  <1> HIDE DEF Ledgers
  <1>5. chain \in Seq(Ledgers) /\ chain # <<>> /\ Newest = 1 /\ chain[1] = r
    <2>1. chain = <<r>>
      BY <1>2
    <2> HIDE DEF r
    <2> QED
      BY <1>4, <2>1 DEF Newest
  <1>6. \A n \in 1..Newest : n = 1
    BY <1>5
  <1>7. \A n \in 2..Newest : FALSE
    BY <1>5
  <1> QED
    BY <1>2, <1>3, <1>5, <1>6, <1>7 DEF ChainInv

LEMMA ChainStep ==
  ASSUME ChainInv, [Next]_vars
  PROVE  ChainInv' /\ Kept
  <1> DEFINE old == chain[Newest].post
  <1>1. /\ Newest \in 1..Newest /\ Newest \in Nat /\ Newest >= 1
        /\ old \in [Objects -> AllStates] /\ \A o \in Objects : old[o] \in States(o)
        /\ chain \in Seq(Ledgers)
    BY ChainFacts DEF ChainInv, Ledgers
  <1>2. CASE UNCHANGED chain
    <2>1. ChainInv'
      <3>1. Objects' = Objects /\ Newest' = Newest
        BY <1>2 DEF Objects, Newest
      <3>2. Ledgers' = Ledgers
        BY <3>1 DEF Ledgers, AllStates
      <3> HIDE DEF Ledgers
      <3> QED
        BY <1>2, <3>1, <3>2 DEF ChainInv
    <2> QED
      BY <1>1, <1>2, <2>1 DEF Kept, Objects, Newest
  <1>3. ASSUME NEW nodes, NEW post, CloseLedger(nodes, post) PROVE Kept
    <2> DEFINE r == [nodes |-> nodes, post |-> post]
    <2>1. chain' = Append(chain, r)
      BY <1>3 DEF CloseLedger
    <2> HIDE DEF r, Ledgers
    <2>2. Newest' = Newest + 1 /\ \A n \in 1..Newest : chain'[n] = chain[n]
      BY <1>1, <2>1 DEF Newest
    <2> QED
      BY <1>1, <2>2 DEF Kept, Objects
  <1>4. CASE Quiet
    <2>1. CloseLedger(<<>>, old)
      BY <1>4 DEF Quiet
    <2>2. Appends(<<>>, old) /\ Conserved(old)
      BY <2>1 DEF CloseLedger, Appends
    <2>3. \A o \in Objects : LinkedBy(<<>>, 1, o, old[o], old[o]) /\ LinkedBy(<<>>, 2, o, old[o], old[o])
      BY DEF LinkedBy
    <2> DEFINE none == <<>>
    <2>4. none \in Seq([of : Objects, from : AllStates, to : AllStates]) /\ Len(none) <= 2
      OBVIOUS
    <2> HIDE DEF none
    <2>5. \A o \in Objects : \E mid \in States(o) : LinkedBy(none, 1, o, old[o], mid) /\ LinkedBy(none, 2, o, mid, old[o])
      BY <1>1, <2>3 DEF none
    <2>6. Appends(none, old)
      BY <2>2 DEF none
    <2>7. ChainInv'
      BY <1>1, <2>2, <2>4, <2>5, <2>6, ChainGrows
    <2> QED
      BY <1>3, <2>1, <2>7
  <1>5. ASSUME NEW o \in Objects, NEW a \in States(o), OneChange(o, a) PROVE ChainInv' /\ Kept
    <2> DEFINE nodes == <<Node(o, old[o], a)>>
               post == [old EXCEPT ![o] = a]
    <2>1. CloseLedger(nodes, post) /\ MayBecome(o, old[o], a)
      BY <1>5 DEF OneChange
    <2>2. Appends(nodes, post) /\ Conserved(post)
      BY <2>1 DEF CloseLedger, Appends
    <2>3. a \in AllStates /\ old[o] \in AllStates
      BY <1>1 DEF AllStates
    <2>4. nodes \in Seq([of : Objects, from : AllStates, to : AllStates]) /\ Len(nodes) <= 2
      <3>1. Node(o, old[o], a) \in [of : Objects, from : AllStates, to : AllStates]
        BY <2>3 DEF Node
      <3> QED
        BY <3>1
    <2>5. post \in [Objects -> AllStates] /\ \A q \in Objects : post[q] \in States(q)
      BY <1>1, <2>3
    <2>6. \A q \in Objects : LinkedBy(nodes, 1, q, old[q], post[q]) /\ LinkedBy(nodes, 2, q, post[q], post[q])
      <3>1. nodes[1] = Node(o, old[o], a) /\ DOMAIN nodes = {1} /\ nodes[1].of = o
        BY DEF Node
      <3> QED
        BY <1>1, <2>1, <3>1 DEF LinkedBy
    <2>7. ChainInv'
      BY <2>2, <2>4, <2>5, <2>6, ChainGrows
    <2> QED
      BY <1>3, <2>1, <2>7
  <1>6. ASSUME NEW o \in Objects, NEW p \in Objects, NEW a \in States(o), NEW b \in States(p), TwoChanges(o, a, p, b)
        PROVE  ChainInv' /\ Kept
    <2> DEFINE mid == [old EXCEPT ![o] = a]
               nodes == <<Node(o, old[o], a), Node(p, mid[p], b)>>
               post == [mid EXCEPT ![p] = b]
    <2>1. CloseLedger(nodes, post) /\ MayBecome(o, old[o], a) /\ MayBecome(p, mid[p], b)
      BY <1>6 DEF TwoChanges
    <2>2. Appends(nodes, post) /\ Conserved(post)
      BY <2>1 DEF CloseLedger, Appends
    <2>3. a \in AllStates /\ b \in AllStates /\ old[o] \in AllStates
      BY <1>1 DEF AllStates
    <2>4. mid \in [Objects -> AllStates] /\ \A q \in Objects : mid[q] \in States(q) /\ mid[q] = IF q = o THEN a ELSE old[q]
      BY <1>1, <2>3
    <2> HIDE DEF mid
    <2>5. post \in [Objects -> AllStates]
          /\ \A q \in Objects : post[q] \in States(q) /\ post[q] = IF q = p THEN b ELSE mid[q]
      BY <2>3, <2>4
    <2>6. nodes \in Seq([of : Objects, from : AllStates, to : AllStates]) /\ Len(nodes) <= 2
      <3>1. /\ Node(o, old[o], a) \in [of : Objects, from : AllStates, to : AllStates]
            /\ Node(p, mid[p], b) \in [of : Objects, from : AllStates, to : AllStates]
        BY <2>3, <2>4 DEF Node
      <3> QED
        BY <3>1
    <2>7. \A q \in Objects : LinkedBy(nodes, 1, q, old[q], mid[q]) /\ LinkedBy(nodes, 2, q, mid[q], post[q])
      <3>1. /\ nodes[1] = Node(o, old[o], a) /\ nodes[2] = Node(p, mid[p], b) /\ DOMAIN nodes = {1, 2}
            /\ nodes[1].of = o /\ nodes[2].of = p
        BY DEF Node
      <3> HIDE DEF nodes, post
      <3> QED
        BY <1>1, <2>1, <2>4, <2>5, <3>1 DEF LinkedBy
    <2> HIDE DEF nodes, post
    <2>8. ChainInv'
      BY <2>2, <2>4, <2>5, <2>6, <2>7, ChainGrows
    <2> QED
      BY <1>3, <2>1, <2>8
  <1>7. CASE Snapshot
    BY <1>2, <1>7 DEF Snapshot
  <1>8. ASSUME NEW seq, LiveLedger(seq) \/ BackfillLedger(seq) \/ BackfillSkip(seq) PROVE UNCHANGED chain
    BY <1>8 DEF LiveLedger, BackfillLedger, BackfillSkip
  <1> QED
    BY <1>2, <1>4, <1>5, <1>6, <1>7, <1>8 DEF Next, vars

LEMMA ReadsKept ==
  ASSUME ChainInv, Kept, NEW n \in 1..Newest
  PROVE  /\ Batch(chain'[n].nodes, n) = Batch(chain[n].nodes, n)
         /\ Walked(n)' = Walked(n)
         /\ \A a, t : /\ Sources(a, t)' = Sources(a, t)
                      /\ Holding(a, t, n)' = Holding(a, t, n)
                      /\ Bad(a, t, n)' <=> Bad(a, t, n)
  <1>1. chain'[n] = chain[n] /\ Objects' = Objects
    BY DEF Kept
  <1>2. \A a, t : Sources(a, t)' = Sources(a, t) /\ Holding(a, t, n)' = Holding(a, t, n)
    BY <1>1 DEF Sources, Holding
  <1>3. \A a, t : Bad(a, t, n)' <=> Bad(a, t, n)
    BY <1>1, <1>2 DEF Bad
  <1>4. Walked(n)' = Walked(n)
    BY <1>1 DEF Walked
  <1> QED
    BY <1>1, <1>2, <1>3, <1>4

-----------------------------------------------------------------------------
(* The tables. *)

\* Which ledgers are taken.
OrderInv ==
  /\ low \in Nat /\ tip \in Nat /\ snapSeq \in Nat /\ skips \in Nat /\ fresh \in BOOLEAN
  /\ low <= tip /\ tip <= Newest /\ (low = 0 <=> tip = 0)
  /\ snapSeq # 0 => low <= snapSeq /\ snapSeq <= tip
  /\ fresh => snapSeq # 0
  /\ waived \subseteq low..tip /\ 0 \notin waived
  /\ skips = 0 => waived = {}

RowOk(k, value) ==
  /\ k = <<k[1], k[2], k[3]>> /\ Sources(k[1], k[2]) # {} /\ k[3] \in 1..Newest
  /\ value \in Int
  /\ value = Holding(k[1], k[2], k[3]) \/ Bad(k[1], k[2], k[3])

RowsInv == \A k \in DOMAIN rows : RowOk(k, rows[k]) /\ low <= k[3] /\ k[3] <= tip

\* All rows of a taken ledger are there,
CoverInv ==
  \A n \in low..tip : n # 0 /\ n \notin waived /\ ~(fresh /\ n = snapSeq) =>
    DOMAIN Batch(chain[n].nodes, n) \subseteq DOMAIN rows

\* and those of the snapshot.
WalkInv == snapSeq # 0 => DOMAIN Walked(snapSeq) \subseteq DOMAIN rows

\* A token with points has rows.
PointsInv ==
  \A k \in DOMAIN points :
    /\ k = <<k[1], k[2], k[3]>> /\ k[1] \in Metrics /\ k[3] \in 1..tip
    /\ \E r \in DOMAIN rows : r[2] = k[2]

IndInv == ChainInv /\ OrderInv /\ RowsInv /\ CoverInv /\ WalkInv /\ PointsInv

LEMMA OrElseIs ==
  ASSUME NEW f, NEW g
  PROVE  /\ DOMAIN OrElse(f, g) = DOMAIN f \cup DOMAIN g
         /\ \A x \in DOMAIN f : OrElse(f, g)[x] = f[x]
         /\ \A x \in DOMAIN g : x \notin DOMAIN f => OrElse(f, g)[x] = g[x]
  BY DEF OrElse

LEMMA BatchRows ==
  ASSUME ChainInv, NEW n \in 1..Newest, NEW k \in DOMAIN Batch(chain[n].nodes, n)
  PROVE  k[3] = n /\ RowOk(k, Batch(chain[n].nodes, n)[k])
  <1>1. PICK r \in UNION {Written(chain[n].nodes)[i] : i \in DOMAIN chain[n].nodes} : k = <<r.key[1], r.key[2], n>>
    BY DEF Batch
  <1> DEFINE a == r.key[1]
             t == r.key[2]
  <1>2. k = <<a, t, n>>
    BY <1>1
  <1> HIDE DEF a, t
  <1> QED
    BY <1>2, WrittenHolds DEF RowOk

LEMMA WalkRows ==
  ASSUME ChainInv, NEW n \in 1..Newest, NEW k \in DOMAIN Walked(n)
  PROVE  k[3] = n /\ RowOk(k, Walked(n)[k])
  <1>1. PICK r \in Found(n) : k = <<r.key[1], r.key[2], n>>
    BY DEF Walked, Found
  <1> DEFINE a == r.key[1]
             t == r.key[2]
  <1>2. k = <<a, t, n>>
    BY <1>1
  <1> HIDE DEF a, t
  <1> QED
    BY <1>2, WalkedHolds DEF RowOk

LEMMA RowOkKept ==
  ASSUME ChainInv, Kept, NEW k, NEW value, RowOk(k, value)
  PROVE  RowOk(k, value)'
  <1>1. k[3] \in 1..Newest /\ k[3] \in 1..Newest'
    <2>1. k[3] \in 1..Newest /\ Newest \in Nat /\ Newest' \in Nat /\ Newest' >= Newest
      BY ChainFacts DEF RowOk, Kept
    <2> QED
      BY <2>1
  <1> QED
    BY <1>1, ReadsKept DEF RowOk

\* The rows a writer adds or replaces.
LEMMA RowsJoin ==
  ASSUME ChainInv, Kept, RowsInv, NEW n \in 1..Newest, NEW more,
         low' \in Nat, tip' \in Nat, low \in Nat, tip \in Nat,
         \A k \in DOMAIN more : k[3] = n /\ RowOk(k, more[k]),
         rows' = OrElse(more, rows) \/ rows' = OrElse(rows, more),
         low' <= n, n <= tip', DOMAIN rows = {} \/ (low' <= low /\ tip <= tip')
  PROVE  RowsInv' /\ DOMAIN rows' = DOMAIN rows \cup DOMAIN more
  <1>1. PICK old : old = rows
    OBVIOUS
  <1>2. PICK new : new = rows'
    OBVIOUS
  <1>3. new = OrElse(more, old) \/ new = OrElse(old, more)
    BY <1>1, <1>2
  <1>4. /\ DOMAIN new = DOMAIN old \cup DOMAIN more
        /\ \A x \in DOMAIN new : (x \in DOMAIN old /\ new[x] = old[x]) \/ (x \in DOMAIN more /\ new[x] = more[x])
    <2>1. CASE new = OrElse(more, old)
      BY <2>1 DEF OrElse
    <2>2. CASE new = OrElse(old, more)
      BY <2>2 DEF OrElse
    <2> QED
      BY <1>3, <2>1, <2>2
  <1>5. ASSUME NEW k \in DOMAIN new PROVE RowOk(k, new[k])' /\ low' <= k[3] /\ k[3] <= tip'
    <2>1. \/ k \in DOMAIN old /\ new[k] = old[k]
          \/ k \in DOMAIN more /\ new[k] = more[k]
      BY <1>4
    <2>2. CASE k \in DOMAIN old /\ new[k] = old[k]
      <3>1. RowOk(k, new[k]) /\ low <= k[3] /\ k[3] <= tip
        BY <1>1, <2>2 DEF RowsInv
      <3>2. RowOk(k, new[k])' /\ k[3] \in Nat
        <4>1. k[3] \in 1..Newest
          BY <3>1 DEF RowOk
        <4> QED
          BY <3>1, <4>1, RowOkKept
      <3>3. DOMAIN rows # {}
        BY <1>1, <2>2
      <3> QED
        BY <3>1, <3>2, <3>3
    <2>3. CASE k \in DOMAIN more /\ new[k] = more[k]
      <3>1. RowOk(k, new[k]) /\ k[3] = n
        BY <2>3
      <3>2. RowOk(k, new[k])'
        BY <3>1, RowOkKept
      <3> QED
        BY <3>1, <3>2
    <2> QED
      BY <2>1, <2>2, <2>3
  <1>6. \A k \in DOMAIN rows' : rows'[k] = new[k] /\ k \in DOMAIN new
    BY <1>2
  <1> QED
    BY <1>1, <1>2, <1>4, <1>5, <1>6 DEF RowsInv

LEMMA InitInv == Init => IndInv
  <1> SUFFICES ASSUME Init PROVE IndInv
    OBVIOUS
  <1>1. ChainInv
    BY ChainInit
  <1>2. DOMAIN rows = {} /\ DOMAIN points = {}
    BY DEF Init
  <1>3. low = 0 /\ tip = 0 /\ snapSeq = 0 /\ fresh = FALSE /\ waived = {} /\ skips = 0
    BY DEF Init, OrderInit
  <1>4. OrderInv
    <2>1. Newest \in Nat /\ Newest >= 1
      BY <1>1, ChainFacts
    <2>2. fresh \in BOOLEAN /\ ~fresh
      BY <1>3
    <2>3. waived \subseteq low..tip /\ 0 \notin waived
      BY <1>3
    <2> QED
      BY <1>3, <2>1, <2>2, <2>3 DEF OrderInv
  <1>5. CoverInv
    BY <1>3 DEF CoverInv
  <1> QED
    BY <1>1, <1>2, <1>3, <1>4, <1>5 DEF IndInv, RowsInv, WalkInv, PointsInv

\* Rows only come; what covered a ledger still does.
LEMMA CoverKept ==
  ASSUME IndInv, Kept, DOMAIN rows \subseteq DOMAIN rows', NEW n \in low..tip,
         n # 0, n \notin waived, ~(fresh /\ n = snapSeq)
  PROVE  (DOMAIN Batch(chain[n].nodes, n) \subseteq DOMAIN rows)'
  <1>1. n \in 1..Newest
    BY ChainFacts DEF IndInv, OrderInv
  <1>2. Batch(chain'[n].nodes, n) = Batch(chain[n].nodes, n)
    BY <1>1, ReadsKept DEF IndInv
  <1> QED
    BY <1>2 DEF IndInv, CoverInv

LEMMA WalkKept ==
  ASSUME IndInv, Kept, DOMAIN rows \subseteq DOMAIN rows', snapSeq' = snapSeq
  PROVE  WalkInv'
  <1>1. snapSeq # 0 => snapSeq \in 1..Newest
    BY ChainFacts DEF IndInv, OrderInv
  <1>2. PICK n : n = snapSeq
    OBVIOUS
  <1>3. snapSeq # 0 => Walked(n)' = Walked(n)
    BY <1>1, <1>2, ReadsKept DEF IndInv
  <1> QED
    BY <1>2, <1>3 DEF IndInv, WalkInv

\* Steps of the network, and none at all.
LEMMA NetworkStep ==
  ASSUME IndInv, ChainInv', Kept, UNCHANGED <<rows, points, skips, orderVars>>
  PROVE  IndInv'
  <1>1. /\ low' = low /\ tip' = tip /\ snapSeq' = snapSeq /\ fresh' = fresh /\ waived' = waived
        /\ rows' = rows /\ points' = points /\ skips' = skips
    BY DEF orderVars
  <1>2. OrderInv'
    BY <1>1, ChainFacts DEF IndInv, OrderInv, Kept
  <1>3. RowsInv'
    <2>1. PICK old : old = rows
      OBVIOUS
    <2>2. ASSUME NEW k \in DOMAIN old PROVE RowOk(k, old[k])'
      <3>1. RowOk(k, old[k])
        BY <2>1, <2>2 DEF IndInv, RowsInv
      <3> QED
        BY <3>1, RowOkKept DEF IndInv
    <2> QED
      BY <1>1, <2>1, <2>2 DEF IndInv, RowsInv
  <1>4. CoverInv'
    BY <1>1, CoverKept DEF CoverInv
  <1>5. WalkInv'
    BY <1>1, WalkKept
  <1>6. PointsInv'
    BY <1>1 DEF IndInv, PointsInv
  <1> QED
    BY <1>2, <1>3, <1>4, <1>5, <1>6 DEF IndInv

LEMMA PointsJoin ==
  ASSUME PointsInv, NEW more, NEW n, n \in 1..tip', tip \in Nat, tip' \in Nat,
         tip <= tip', DOMAIN rows \subseteq DOMAIN rows',
         points' = OrElse(more, points),
         \A k \in DOMAIN more : /\ k = <<k[1], k[2], n>> /\ k[1] \in Metrics
                                /\ \E r \in DOMAIN rows' : r[2] = k[2]
  PROVE  PointsInv'
  <1>1. DOMAIN points' = DOMAIN more \cup DOMAIN points
    BY OrElseIs
  <1>2. ASSUME NEW k \in DOMAIN more
        PROVE  /\ k = <<k[1], k[2], k[3]>> /\ k[1] \in Metrics /\ k[3] \in 1..tip'
               /\ \E r \in DOMAIN rows' : r[2] = k[2]
    BY <1>2
  <1>3. ASSUME NEW k \in DOMAIN points
        PROVE  /\ k = <<k[1], k[2], k[3]>> /\ k[1] \in Metrics /\ k[3] \in 1..tip'
               /\ \E r \in DOMAIN rows' : r[2] = k[2]
    BY <1>3 DEF PointsInv
  <1> QED
    BY <1>1, <1>2, <1>3 DEF PointsInv

LEMMA SnapshotStep ==
  ASSUME IndInv, ChainInv', Kept, Snapshot
  PROVE  IndInv'
  <1> DEFINE seq0 == IF tip # 0 THEN tip ELSE Newest
             all0 == OrElse(rows, Walked(seq0))
  <1>1. /\ SnapshotAt(seq0) /\ rows' = all0 /\ points' = OrElse(Recomputed(all0, seq0), points)
        /\ chain' = chain /\ skips' = skips
    BY DEF Snapshot
  <1>2. PICK seq : seq = seq0
    OBVIOUS
  <1>3. PICK walked : walked = Walked(seq)
    OBVIOUS
  <1>4. /\ snapSeq = 0 /\ seq # 0 /\ IF tip = 0 THEN low' = seq ELSE tip = seq /\ low' = low
        /\ fresh' = (tip = 0) /\ tip' = seq /\ snapSeq' = seq /\ waived' = waived
    BY <1>1, <1>2 DEF SnapshotAt
  <1>5. seq \in 1..Newest /\ Newest' = Newest /\ seq \in Nat /\ Newest \in Nat
    <2>1. Newest' = Newest
      BY <1>1 DEF Newest
    <2>2. Newest \in Nat /\ Newest >= 1 /\ tip \in Nat /\ tip <= Newest
      BY ChainFacts DEF IndInv, OrderInv
    <2> QED
      BY <1>2, <2>1, <2>2
  <1>6. OrderInv'
    BY <1>1, <1>4, <1>5 DEF IndInv, OrderInv
  <1>7. tip = 0 => DOMAIN rows = {}
    <2> SUFFICES ASSUME tip = 0, NEW k \in DOMAIN rows PROVE FALSE
      OBVIOUS
    <2>1. k[3] \in 1..Newest /\ k[3] <= tip
      BY DEF IndInv, RowsInv, RowOk
    <2> QED
      BY <2>1
  <1>8. RowsInv' /\ DOMAIN rows' = DOMAIN rows \cup DOMAIN walked
    <2>1. \A k \in DOMAIN walked : k[3] = seq /\ RowOk(k, walked[k])
      BY <1>3, <1>5, WalkRows DEF IndInv
    <2>2. low' \in Nat /\ tip' \in Nat /\ low \in Nat /\ tip \in Nat /\ low' <= seq /\ seq <= tip'
      BY <1>4, <1>5 DEF IndInv, OrderInv
    <2>3. DOMAIN rows = {} \/ (low' <= low /\ tip <= tip')
      BY <1>4, <1>5, <1>7, <2>2
    <2>4. rows' = OrElse(rows, walked)
      BY <1>1, <1>2, <1>3
    <2> QED
      BY <1>5, <2>1, <2>2, <2>3, <2>4, RowsJoin DEF IndInv
  <1>9. CoverInv'
    <2>1. ~fresh
      BY <1>4 DEF IndInv, OrderInv
    <2>2. CASE tip = 0
      <3>0. low' = seq /\ tip' = seq /\ snapSeq' = seq
        BY <1>4, <2>2
      <3>a. fresh'
        BY <1>4, <2>2
      <3>1. \A n \in low'..tip' : n = snapSeq' /\ fresh'
        BY <1>5, <3>0, <3>a
      <3> QED
        BY <3>1 DEF CoverInv
    <2>3. CASE tip # 0
      BY <1>4, <1>8, <2>1, <2>3, CoverKept DEF CoverInv
    <2> QED
      BY <2>2, <2>3
  <1>10. WalkInv'
    BY <1>3, <1>4, <1>5, <1>8, ReadsKept DEF IndInv, WalkInv
  <1>11. PointsInv'
    <2>1. PICK all : all = all0
      OBVIOUS
    <2>2. PICK more : more = Recomputed(all, seq)
      OBVIOUS
    <2>3. DOMAIN more = Metrics \X {k[2] : k \in DOMAIN all} \X {seq}
      BY <2>2 DEF Recomputed
    <2>4. all = rows' /\ points' = OrElse(more, points)
      BY <1>1, <1>2, <2>1, <2>2
    <2>5. \A k \in DOMAIN more : /\ k = <<k[1], k[2], seq>> /\ k[1] \in Metrics
                                 /\ \E r \in DOMAIN rows' : r[2] = k[2]
      BY <2>3, <2>4
    <2>6. tip \in Nat /\ tip' \in Nat /\ tip <= tip' /\ seq \in 1..tip'
      BY <1>4, <1>5 DEF IndInv, OrderInv
    <2> QED
      BY <1>8, <2>4, <2>5, <2>6, PointsJoin DEF IndInv
  <1> QED
    BY <1>6, <1>8, <1>9, <1>10, <1>11 DEF IndInv

LEMMA LiveStep ==
  ASSUME IndInv, ChainInv', Kept, NEW seq \in 1..MaxHead, LiveLedger(seq)
  PROVE  IndInv'
  <1>1. PICK batch : batch = Batch(chain[seq].nodes, seq)
    OBVIOUS
  <1>2. PICK more : more = MetricPoints(OrElse(batch, rows), Touched(batch), seq)
    OBVIOUS
  <1>3. /\ seq <= Newest /\ rows' = OrElse(batch, rows) /\ points' = OrElse(more, points)
        /\ chain' = chain /\ skips' = skips
    BY <1>1, <1>2 DEF LiveLedger, Apply
  <1>4. /\ snapSeq' = snapSeq /\ fresh' = fresh /\ waived' = waived /\ tip' = seq
        /\ IF tip = 0 THEN low' = seq ELSE low' = low /\ (seq = tip + 1 \/ (seq = tip /\ tip # snapSeq))
    BY DEF LiveLedger, LiveAt
  <1>5. seq \in 1..Newest /\ seq \in Nat /\ seq # 0 /\ Newest' = Newest /\ Newest \in Nat
    <2>1. seq \in Nat /\ seq # 0 /\ seq >= 1
      BY BoundsAssumption
    <2>2. Newest' = Newest
      BY <1>3 DEF Newest
    <2>3. Newest \in Nat
      BY ChainFacts DEF IndInv
    <2> QED
      BY <1>3, <2>1, <2>2, <2>3
  <1>6. OrderInv'
    BY <1>3, <1>4, <1>5 DEF IndInv, OrderInv
  <1>7. tip = 0 => DOMAIN rows = {}
    <2> SUFFICES ASSUME tip = 0, NEW k \in DOMAIN rows PROVE FALSE
      OBVIOUS
    <2>1. k[3] \in 1..Newest /\ k[3] <= tip
      BY DEF IndInv, RowsInv, RowOk
    <2> QED
      BY <2>1
  <1>8. RowsInv' /\ DOMAIN rows' = DOMAIN rows \cup DOMAIN batch
    <2>1. \A k \in DOMAIN batch : k[3] = seq /\ RowOk(k, batch[k])
      BY <1>1, <1>5, BatchRows DEF IndInv
    <2>2. low' \in Nat /\ tip' \in Nat /\ low \in Nat /\ tip \in Nat /\ low' <= seq /\ seq <= tip'
      BY <1>4, <1>5 DEF IndInv, OrderInv
    <2>3. DOMAIN rows = {} \/ (low' <= low /\ tip <= tip')
      BY <1>4, <1>5, <1>7, <2>2
    <2> QED
      BY <1>3, <1>5, <2>1, <2>2, <2>3, RowsJoin DEF IndInv
  <1>9. CoverInv'
    <2> SUFFICES ASSUME NEW n \in low'..tip', n # 0, n \notin waived, ~(fresh /\ n = snapSeq)
                 PROVE  (DOMAIN Batch(chain[n].nodes, n) \subseteq DOMAIN rows)'
      BY <1>4 DEF CoverInv
    <2>1. CASE n = seq
      BY <1>1, <1>3, <1>8, <2>1
    <2>2. CASE n # seq
      <3>1. n \in low..tip
        BY <1>4, <1>5, <2>2 DEF IndInv, OrderInv
      <3> QED
        BY <1>8, <3>1, CoverKept
    <2> QED
      BY <2>1, <2>2
  <1>10. WalkInv'
    BY <1>4, <1>8, WalkKept
  <1>11. PointsInv'
    <2>1. DOMAIN more \subseteq Metrics \X Touched(batch) \X {seq}
      BY <1>2 DEF MetricPoints, Restrict
    <2>2. Touched(batch) = {k[2] : k \in DOMAIN batch}
      BY DEF Touched
    <2>3. \A k \in DOMAIN more : /\ k = <<k[1], k[2], seq>> /\ k[1] \in Metrics
                                 /\ \E r \in DOMAIN rows' : r[2] = k[2]
      BY <1>8, <2>1, <2>2
    <2>4. tip \in Nat /\ tip' \in Nat /\ tip <= tip' /\ seq \in 1..tip'
      BY <1>4, <1>5 DEF IndInv, OrderInv
    <2> QED
      BY <1>3, <1>8, <2>3, <2>4, PointsJoin DEF IndInv
  <1> QED
    BY <1>6, <1>8, <1>9, <1>10, <1>11 DEF IndInv

LEMMA BackfillStep ==
  ASSUME IndInv, ChainInv', Kept, NEW seq \in 1..MaxHead, BackfillLedger(seq)
  PROVE  IndInv'
  <1>1. PICK batch : batch = Batch(chain[seq].nodes, seq)
    OBVIOUS
  <1>2. /\ rows' = OrElse(rows, batch) /\ points' = points /\ chain' = chain /\ skips' = skips
    BY <1>1 DEF BackfillLedger
  <1>3. /\ seq \in waived \cup {low - 1} /\ seq > 0
        /\ low' = (IF seq < low THEN seq ELSE low) /\ waived' = waived \ {seq}
        /\ tip' = tip /\ snapSeq' = snapSeq /\ fresh' = fresh
    BY DEF BackfillLedger, BackfillAt
  <1>4. seq \in 1..Newest /\ seq \in Nat /\ seq <= tip /\ low' <= seq /\ low' <= low /\ low' \in Nat /\ low # 0
    <2>1. low \in Nat /\ tip \in Nat /\ Newest \in Nat /\ low <= tip /\ tip <= Newest /\ waived \subseteq low..tip
      BY ChainFacts DEF IndInv, OrderInv
    <2>2. seq = low - 1 \/ (seq >= low /\ seq <= tip /\ seq \in Int)
      BY <1>3, <2>1
    <2>3. seq \in Nat /\ seq <= tip
      BY <1>3, <2>1, <2>2
    <2>4. low # 0
      BY <1>3, <2>1, <2>2 DEF IndInv, OrderInv
    <2> QED
      BY <1>3, <2>1, <2>3, <2>4
  <1>5. OrderInv'
    <2>1. Newest' = Newest
      BY <1>2 DEF Newest
    <2> QED
      BY <1>2, <1>3, <1>4, <2>1 DEF IndInv, OrderInv
  <1>6. RowsInv' /\ DOMAIN rows' = DOMAIN rows \cup DOMAIN batch
    <2>1. \A k \in DOMAIN batch : k[3] = seq /\ RowOk(k, batch[k])
      BY <1>1, <1>4, BatchRows DEF IndInv
    <2>2. low' \in Nat /\ tip' \in Nat /\ low \in Nat /\ tip \in Nat /\ tip <= tip' /\ low' <= low /\ low' <= seq /\ seq <= tip'
      BY <1>3, <1>4 DEF IndInv, OrderInv
    <2> QED
      BY <1>2, <1>4, <2>1, <2>2, RowsJoin DEF IndInv
  <1>7. CoverInv'
    <2> SUFFICES ASSUME NEW n \in low'..tip', n # 0, n \notin waived', ~(fresh /\ n = snapSeq)
                 PROVE  (DOMAIN Batch(chain[n].nodes, n) \subseteq DOMAIN rows)'
      BY <1>3 DEF CoverInv
    <2>1. CASE n = seq
      BY <1>1, <1>2, <1>6, <2>1
    <2>2. CASE n # seq
      <3>1. n \in low..tip /\ n \notin waived
        BY <1>3, <1>4, <2>2 DEF IndInv, OrderInv
      <3> QED
        BY <1>6, <3>1, CoverKept
    <2> QED
      BY <2>1, <2>2
  <1>8. WalkInv'
    BY <1>3, <1>6, WalkKept
  <1>9. PointsInv'
    BY <1>2, <1>3, <1>6 DEF IndInv, PointsInv
  <1> QED
    BY <1>5, <1>6, <1>7, <1>8, <1>9 DEF IndInv

LEMMA SkipStep ==
  ASSUME IndInv, ChainInv', Kept, NEW seq \in 1..MaxHead, BackfillSkip(seq)
  PROVE  IndInv'
  <1>1. /\ rows' = rows /\ points' = points /\ chain' = chain /\ skips' = skips + 1
        /\ seq = low - 1 /\ seq > 0 /\ low' = seq /\ waived' = waived \cup {seq}
        /\ tip' = tip /\ snapSeq' = snapSeq /\ fresh' = fresh
    BY DEF BackfillSkip, WaiveAt
  <1>2. OrderInv'
    <2>1. Newest' = Newest
      BY <1>1 DEF Newest
    <2> QED
      BY <1>1, <2>1 DEF IndInv, OrderInv
  <1>3. RowsInv'
    <2>1. PICK old : old = rows
      OBVIOUS
    <2>2. ASSUME NEW k \in DOMAIN old PROVE RowOk(k, old[k])' /\ low' <= k[3] /\ k[3] <= tip'
      <3>1. RowOk(k, old[k]) /\ low <= k[3] /\ k[3] <= tip /\ k[3] \in 1..Newest
        BY <2>1, <2>2 DEF IndInv, RowsInv, RowOk
      <3>2. RowOk(k, old[k])'
        BY <3>1, RowOkKept DEF IndInv
      <3> QED
        BY <1>1, <3>1, <3>2 DEF IndInv, OrderInv
    <2> QED
      BY <1>1, <2>1, <2>2 DEF IndInv, RowsInv
  <1>4. CoverInv'
    <2> SUFFICES ASSUME NEW n \in low'..tip', n # 0, n \notin waived', ~(fresh /\ n = snapSeq)
                 PROVE  (DOMAIN Batch(chain[n].nodes, n) \subseteq DOMAIN rows)'
      BY <1>1 DEF CoverInv
    <2>1. n \in low..tip /\ n \notin waived
      BY <1>1 DEF IndInv, OrderInv
    <2> QED
      BY <1>1, <2>1, CoverKept
  <1>5. WalkInv'
    BY <1>1, WalkKept
  <1>6. PointsInv'
    BY <1>1 DEF IndInv, PointsInv
  <1> QED
    BY <1>2, <1>3, <1>4, <1>5, <1>6 DEF IndInv

LEMMA StepInv == IndInv /\ [Next]_vars => IndInv'
  <1> SUFFICES ASSUME IndInv, [Next]_vars PROVE IndInv'
    OBVIOUS
  <1>1. ChainInv' /\ Kept
    BY ChainStep DEF IndInv
  <1>2. ASSUME NEW nodes, NEW post, CloseLedger(nodes, post) PROVE IndInv'
    BY <1>1, <1>2, NetworkStep DEF CloseLedger
  <1>3. CASE Quiet
    BY <1>2, <1>3 DEF Quiet
  <1>4. ASSUME NEW o, NEW a, OneChange(o, a) PROVE IndInv'
    BY <1>2, <1>4 DEF OneChange
  <1>5. ASSUME NEW o, NEW p, NEW a, NEW b, TwoChanges(o, a, p, b) PROVE IndInv'
    BY <1>2, <1>5 DEF TwoChanges
  <1>6. CASE Snapshot
    BY <1>1, <1>6, SnapshotStep
  <1>7. ASSUME NEW seq \in 1..MaxHead, LiveLedger(seq) PROVE IndInv'
    BY <1>1, <1>7, LiveStep
  <1>8. ASSUME NEW seq \in 1..MaxHead, BackfillLedger(seq) PROVE IndInv'
    BY <1>1, <1>8, BackfillStep
  <1>9. ASSUME NEW seq \in 1..MaxHead, BackfillSkip(seq) PROVE IndInv'
    BY <1>1, <1>9, SkipStep
  <1>10. CASE UNCHANGED vars
    BY <1>1, <1>10, NetworkStep DEF vars
  <1> QED
    BY <1>3, <1>4, <1>5, <1>6, <1>7, <1>8, <1>9, <1>10 DEF Next

\* IndInv holds throughout: the ledgers' nodes lead from one to the next, the rows
\* of every taken ledger and of the snapshot are there, and each is what was held.
THEOREM BalanceInvariance == Spec => []IndInv
  <1>1. Init => IndInv
    BY InitInv
  <1>2. IndInv /\ [Next]_vars => IndInv'
    BY StepInv
  <1> QED
    BY <1>1, <1>2, PTL DEF Spec

\* A row is what its account held in the row's own ledger, whichever writer put it
\* there (trustline.ts, mpt.ts, batch.ts).
THEOREM RowsAreExact == Spec => []RowsExact
  <1>1. IndInv => RowsExact
    BY DEF IndInv, RowsInv, RowOk, Bad, RowsExact
  <1> QED
    BY <1>1, BalanceInvariance, PTL

-----------------------------------------------------------------------------
(* Lookups as of a ledger. *)

In(a, t, n) == <<a, t, n>> \in DOMAIN rows

\* Since a change that the handlers do not see, a has held nothing.
Blind(a, t, n) == \E m \in low..n : Bad(a, t, m) /\ \A j \in m..n : ~(Holding(a, t, j) > 0)

\* The latest row is right, and where there is none, nothing is held.
Right(a, t, n) ==
  /\ \A m \in low..n : In(a, t, m) /\ (\A j \in (m + 1)..n : ~In(a, t, j)) =>
       rows[<<a, t, m>>] = Holding(a, t, n)
  /\ (\A m \in low..n : ~In(a, t, m)) /\ snapSeq # 0 /\ n >= snapSeq => Holding(a, t, n) = 0

\* What a row says of its own ledger, and what it means that there is none.
LEMMA RowHere ==
  ASSUME IndInv, low # 0, waived = {}, NEW a, NEW t, Sources(a, t) # {}, Known(a, t), NEW n \in low..tip
  PROVE  /\ Holding(a, t, n) \in Int
         /\ In(a, t, n) => rows[<<a, t, n>>] = Holding(a, t, n) \/ Bad(a, t, n)
         /\ ~In(a, t, n) /\ n = snapSeq => Holding(a, t, n) = 0
         /\ ~In(a, t, n) /\ n > low =>
              \/ Bad(a, t, n)
              \/ Holding(a, t, n) = Holding(a, t, n - 1)
              \/ fresh /\ n = snapSeq /\ Holding(a, t, n - 1) = 0
  <1>1. n \in 1..Newest /\ n \in Nat /\ n # 0 /\ low \in Nat /\ low >= 1 /\ Newest \in Nat
    BY ChainFacts DEF IndInv, OrderInv
  <1>2. PICK o \in Sources(a, t) : TRUE
    OBVIOUS
  <1>3. Holding(a, t, n) \in Int
    BY <1>1, <1>2, HoldingIs DEF IndInv
  <1>4. In(a, t, n) => rows[<<a, t, n>>] = Holding(a, t, n) \/ Bad(a, t, n)
    <2> DEFINE k == <<a, t, n>>
    <2>1. k[1] = a /\ k[2] = t /\ k[3] = n
      OBVIOUS
    <2>2. In(a, t, n) => RowOk(k, rows[k])
      BY DEF In, IndInv, RowsInv
    <2> HIDE DEF k
    <2>3. In(a, t, n) => rows[k] = Holding(a, t, n) \/ Bad(a, t, n)
      BY <2>1, <2>2 DEF RowOk
    <2> QED
      BY <2>3 DEF k
  <1>5. ASSUME ~In(a, t, n), n = snapSeq
        PROVE  <<a, t, n>> \notin DOMAIN Walked(n) /\ Holding(a, t, n) = 0
    <2>1. <<a, t, n>> \notin DOMAIN Walked(n)
      BY <1>1, <1>5 DEF In, IndInv, WalkInv
    <2> QED
      BY <1>1, <1>2, <2>1, UnwalkedHolds DEF IndInv
  <1>6. ASSUME ~In(a, t, n), n > low, ~(fresh /\ n = snapSeq)
        PROVE  Bad(a, t, n) \/ Holding(a, t, n) = Holding(a, t, n - 1)
    <2>1. <<a, t, n>> \notin DOMAIN Batch(chain[n].nodes, n)
      BY <1>1, <1>6 DEF In, IndInv, CoverInv
    <2>2. n \in 2..Newest
      BY <1>1, <1>6
    <2> QED
      BY <2>1, <2>2, UnwrittenHolds DEF IndInv
  <1>7. ASSUME ~In(a, t, n), n > low, fresh, n = snapSeq
        PROVE  Bad(a, t, n) \/ Holding(a, t, n - 1) = 0
    <2>1. n \in 2..Newest
      BY <1>1, <1>7
    <2>2. \A x \in Range(chain[n].nodes) :
            x.of = o => ~(x.to = Absent \/ (x.to = 0 /\ Amount(o, chain[n].post) < 0))
      BY <1>2, <1>7 DEF Known, LostAtSnapshot
    <2> QED
      BY <1>2, <1>5, <1>7, <2>1, <2>2, UnwalkedBefore DEF IndInv
  <1> QED
    BY <1>3, <1>4, <1>5, <1>6, <1>7

\* From ledger to ledger, upwards: a lookup is right, or blind.
LEMMA RightUpwards ==
  ASSUME IndInv, low # 0, waived = {}, NEW a, NEW t, Sources(a, t) # {}, Known(a, t)
  PROVE  \A n \in low..tip : Blind(a, t, n) \/ Right(a, t, n)
  <1> DEFINE wrong == {n \in low..tip : ~(Blind(a, t, n) \/ Right(a, t, n))}
  <1>1. low \in Nat /\ tip \in Nat /\ low >= 1
    BY DEF IndInv, OrderInv
  <1>2. wrong \in SUBSET Nat
    BY <1>1
  <1>3. ASSUME NEW n \in low..tip, Bad(a, t, n) PROVE Blind(a, t, n)
    <2>1. n \in low..n /\ \A j \in n..n : j = n
      BY <1>1
    <2>2. Holding(a, t, n) = 0
      BY <1>3 DEF Bad
    <2> QED
      BY <1>3, <2>1, <2>2 DEF Blind
  <1>4. ASSUME NEW n \in wrong, \A y \in wrong : n <= y PROVE FALSE
    <2>1. n \in low..tip /\ n \in Nat /\ ~Blind(a, t, n) /\ ~Right(a, t, n)
      BY <1>1
    <2>2. ~Bad(a, t, n)
      BY <1>3, <2>1
    <2>3. CASE In(a, t, n)
      <3>1. rows[<<a, t, n>>] = Holding(a, t, n)
        BY <2>1, <2>2, <2>3, RowHere
      <3>2. ASSUME NEW m \in low..n, \A j \in (m + 1)..n : ~In(a, t, j) PROVE m = n
        BY <1>1, <2>1, <2>3, <3>2
      <3>3. n \in low..n
        BY <1>1, <2>1
      <3> QED
        BY <2>1, <2>3, <3>1, <3>2, <3>3 DEF Right
    <2>4. CASE ~In(a, t, n) /\ n = low
      <3>1. \A m \in low..n : ~In(a, t, m)
        BY <1>1, <2>4
      <3>2. snapSeq # 0 /\ n >= snapSeq => n = snapSeq
        BY <1>1, <2>4 DEF IndInv, OrderInv
      <3>3. snapSeq # 0 /\ n >= snapSeq => Holding(a, t, n) = 0
        BY <2>1, <2>4, <3>2, RowHere
      <3> QED
        BY <2>1, <3>1, <3>3 DEF Right
    <2>5. CASE ~In(a, t, n) /\ n # low
      <3>1. n > low /\ n - 1 \in low..tip /\ n - 1 < n /\ n - 1 \in Nat
        BY <1>1, <2>1, <2>5
      <3>2. n - 1 \notin wrong
        BY <1>4, <2>1, <3>1
      <3>3. Blind(a, t, n - 1) \/ Right(a, t, n - 1)
        BY <3>1, <3>2
      <3>4. \A m : m \in low..n <=> m \in low..(n - 1) \/ m = n
        BY <1>1, <2>1, <3>1
      <3>5. CASE Holding(a, t, n) = Holding(a, t, n - 1)
        <4>1. ~Blind(a, t, n - 1)
          <5> SUFFICES ASSUME NEW m \in low..(n - 1), Bad(a, t, m),
                              \A j \in m..(n - 1) : ~(Holding(a, t, j) > 0)
                       PROVE  FALSE
            BY DEF Blind
          <5>1. \A j \in m..n : j \in m..(n - 1) \/ j = n
            BY <1>1, <2>1, <3>1
          <5>2. n - 1 \in m..(n - 1)
            BY <1>1, <3>1
          <5>3. \A j \in m..n : ~(Holding(a, t, j) > 0)
            BY <3>5, <5>1, <5>2
          <5> QED
            BY <2>1, <3>4, <5>3 DEF Blind
        <4>2. Right(a, t, n - 1)
          BY <3>3, <4>1
        <4>3. ASSUME NEW m \in low..n, In(a, t, m), \A j \in (m + 1)..n : ~In(a, t, j)
              PROVE  rows[<<a, t, m>>] = Holding(a, t, n)
          <5>1. m \in low..(n - 1)
            BY <2>5, <3>4, <4>3
          <5>2. \A j \in (m + 1)..(n - 1) : j \in (m + 1)..n
            BY <1>1, <2>1, <5>1
          <5> QED
            BY <3>5, <4>2, <4>3, <5>1, <5>2 DEF Right
        <4>4. ASSUME \A m \in low..n : ~In(a, t, m), snapSeq # 0, n >= snapSeq
              PROVE  Holding(a, t, n) = 0
          <5>1. CASE n = snapSeq
            BY <2>1, <2>5, <5>1, RowHere
          <5>2. CASE n # snapSeq
            <6>1. n - 1 >= snapSeq
              BY <2>1, <4>4, <5>2 DEF IndInv, OrderInv
            <6> QED
              BY <3>4, <3>5, <4>2, <4>4, <6>1 DEF Right
          <5> QED
            BY <5>1, <5>2
        <4> QED
          BY <2>1, <4>3, <4>4 DEF Right
      <3>6. CASE fresh /\ n = snapSeq /\ Holding(a, t, n - 1) = 0
        <4>1. Holding(a, t, n) = 0
          BY <2>1, <2>5, <3>6, RowHere
        <4> QED
          BY <3>5, <3>6, <4>1
      <3> QED
        BY <2>1, <2>2, <2>5, <3>1, <3>5, <3>6, RowHere
    <2> QED
      BY <2>3, <2>4, <2>5
  <1>5. wrong = {}
    <2> HIDE DEF wrong
    <2> QED
      BY <1>2, <1>4, LeastNat
  <1> QED
    BY <1>5

\* Who has held something since is not blind.
LEMMA SeenIsRight ==
  ASSUME IndInv, low # 0, waived = {}, NEW a, NEW t, Sources(a, t) # {}, Known(a, t),
         NEW n \in low..tip, Seen(a, t, n)
  PROVE  Right(a, t, n)
  <1>1. low \in Nat /\ tip \in Nat /\ low >= 1 /\ n \in Nat
    BY DEF IndInv, OrderInv
  <1>2. ~Blind(a, t, n)
    <2> SUFFICES ASSUME NEW m \in low..n, Bad(a, t, m), \A j \in m..n : ~(Holding(a, t, j) > 0)
                 PROVE  FALSE
      BY DEF Blind
    <2>1. m \in 1..n
      BY <1>1
    <2> QED
      BY <2>1 DEF Bad, Seen
  <1> QED
    BY <1>2, RightUpwards

LEMMA AsOfRight == IndInv => AsOfCorrect
  <1> SUFFICES ASSUME IndInv, low # 0, waived = {}, NEW t \in Parties, NEW a \in Involved(t), NEW n \in low..tip,
                      Known(a, t), Seen(a, t, n)
               PROVE  IF AsOf(a, t, n) # {} THEN rows[<<a, t, Max(AsOf(a, t, n))>>] = Holding(a, t, n)
                      ELSE snapSeq # 0 /\ n >= snapSeq => Holding(a, t, n) = 0
    BY DEF AsOfCorrect
  <1>1. Right(a, t, n)
    BY SeenIsRight DEF Involved
  <1>2. low \in Nat /\ tip \in Nat /\ n \in Nat /\ low <= n /\ tip <= Newest /\ Newest \in Nat
    BY ChainFacts DEF IndInv, OrderInv
  <1>3. \A m : m \in AsOf(a, t, n) <=> m \in low..n /\ In(a, t, m)
    <2>1. ASSUME NEW m, In(a, t, m) PROVE m \in 1..Newest /\ low <= m
      <3> DEFINE k == <<a, t, m>>
      <3>1. RowOk(k, rows[k]) /\ low <= k[3]
        BY <2>1 DEF In, IndInv, RowsInv
      <3> QED
        BY <3>1 DEF RowOk
    <2> QED
      BY <1>2, <2>1 DEF AsOf, History, In
  <1> DEFINE T == AsOf(a, t, n)
  <1>4. T \in SUBSET Nat /\ \A y \in T : y <= n
    BY <1>2, <1>3
  <1>5. CASE T # {}
    <2>1. Max(T) \in T /\ \A y \in T : y <= Max(T)
      <3> HIDE DEF T
      <3> QED
        BY <1>2, <1>4, <1>5, GreatestNat
    <2>2. PICK m : m = Max(T)
      OBVIOUS
    <2>3. m \in low..n /\ In(a, t, m)
      BY <1>3, <2>1, <2>2
    <2>4. ASSUME NEW j \in (m + 1)..n PROVE ~In(a, t, j)
      <3>1. ~(j <= m) /\ j \in low..n
        BY <1>2, <2>3
      <3> QED
        BY <1>3, <2>1, <2>2, <3>1
    <2> QED
      BY <1>1, <1>5, <2>2, <2>3, <2>4 DEF Right
  <1>6. CASE T = {}
    BY <1>1, <1>3, <1>6 DEF Right
  <1> QED
    BY <1>5, <1>6

\* While no ledger is given up, a point-in-time lookup never returns a wrong balance
\* (tokens.ts, batch.ts flush).
THEOREM AsOfIsCorrect == Spec => []AsOfCorrect
  BY AsOfRight, BalanceInvariance, PTL

-----------------------------------------------------------------------------
(* Sums over finite sets. *)

Pick(s) == CHOOSE x \in s : TRUE
SumBody(f, S, h) == [s \in SUBSET S |-> IF s = {} THEN 0 ELSE f[Pick(s)] + h[s \ {Pick(s)}]]
Total(f, S) == (CHOOSE h : h = SumBody(f, S, h))[S]

\* What a set is summed in the order of.
LEMMA PickIs == \A s : s # {} => Pick(s) \in s
  BY DEF Pick

\* Among subsets of a finite set, there is one than which no other is smaller.
LEMMA SmallestSet ==
  ASSUME NEW S, IsFiniteSet(S), NEW B \in SUBSET (SUBSET S), B # {}
  PROVE  \E U \in B : /\ IsFiniteSet(U)
                      /\ \A x \in U : U \ {x} \notin B
                      /\ \A V \in SUBSET U : V # U => V \notin B
  <1> DEFINE sizes == {Cardinality(U) : U \in B}
  <1>1. \A U \in SUBSET S : IsFiniteSet(U) /\ Cardinality(U) \in Nat
    BY FS_Subset, FS_CardinalityType
  <1>2. sizes \in SUBSET Nat /\ sizes # {}
    BY <1>1
  <1>3. PICK n \in sizes : \A m \in sizes : n <= m
    BY <1>2, LeastNat
  <1>4. PICK U \in B : n = Cardinality(U)
    BY <1>3
  <1>5. \A V \in B : Cardinality(U) <= Cardinality(V)
    BY <1>3, <1>4
  <1>6. IsFiniteSet(U)
    BY <1>1
  <1>7. ASSUME NEW V \in SUBSET U, V # U, V \in B PROVE FALSE
    <2>1. Cardinality(V) <= Cardinality(U) /\ (Cardinality(U) = Cardinality(V) => U = V)
      BY <1>6, FS_Subset
    <2>2. Cardinality(U) <= Cardinality(V)
      BY <1>5, <1>7
    <2>3. Cardinality(U) \in Nat /\ Cardinality(V) \in Nat
      BY <1>1
    <2> QED
      BY <1>7, <2>1, <2>2, <2>3
  <1> QED
    BY <1>6, <1>7

LEMMA SumUnique ==
  ASSUME NEW f, NEW A, NEW B, NEW g, NEW h, IsFiniteSet(A),
         g = SumBody(f, A, g), h = SumBody(f, B, h), NEW X \in SUBSET (A \cap B)
  PROVE  g[X] = h[X]
  <1> DEFINE bad == {U \in SUBSET (A \cap B) : g[U] # h[U]}
  <1>1. IsFiniteSet(A \cap B)
    BY FS_Intersection
  <1>2. ASSUME NEW U \in bad, \A V \in SUBSET U : V # U => V \notin bad PROVE FALSE
    <2>1. g[U] = IF U = {} THEN 0 ELSE f[Pick(U)] + g[U \ {Pick(U)}]
      <3>1. U \in SUBSET A
        OBVIOUS
      <3> QED
        BY <3>1 DEF SumBody
    <2>2. h[U] = IF U = {} THEN 0 ELSE f[Pick(U)] + h[U \ {Pick(U)}]
      <3>1. U \in SUBSET B
        OBVIOUS
      <3> QED
        BY <3>1 DEF SumBody
    <2>3. U # {} => g[U \ {Pick(U)}] = h[U \ {Pick(U)}]
      BY <1>2, PickIs
    <2> QED
      BY <2>1, <2>2, <2>3
  <1>3. bad = {}
    <2>1. bad \in SUBSET SUBSET (A \cap B)
      OBVIOUS
    <2> HIDE DEF bad
    <2> QED
      BY <1>1, <1>2, <2>1, SmallestSet
  <1> QED
    BY <1>3

LEMMA SumExists ==
  ASSUME NEW f, NEW S, IsFiniteSet(S)
  PROVE  \E h : h = SumBody(f, S, h)
  <1> DEFINE bad == {U \in SUBSET S : ~(\E h : h = SumBody(f, U, h))}
  <1>1. ASSUME NEW U \in bad, IsFiniteSet(U), \A V \in SUBSET U : V # U => V \notin bad PROVE FALSE
    <2> DEFINE H(V) == CHOOSE h : h = SumBody(f, V, h)
               k == [W \in SUBSET U |-> IF W = {} THEN 0 ELSE f[Pick(W)] + Total(f, W \ {Pick(W)})]
    <2>1. ASSUME NEW V \in SUBSET U, V # U PROVE H(V) = SumBody(f, V, H(V)) /\ Total(f, V) = H(V)[V] /\ IsFiniteSet(V)
      <3>1. V \notin bad /\ V \in SUBSET S
        BY <1>1, <2>1
      <3>2. \E h : h = SumBody(f, V, h)
        BY <3>1
      <3>3. IsFiniteSet(V)
        BY <1>1, FS_Subset
      <3> QED
        BY <3>2, <3>3 DEF Total
    <2> HIDE DEF H
    <2>2. ASSUME NEW W \in SUBSET U, W # U PROVE k[W] = Total(f, W)
      <3>1. H(W)[W] = IF W = {} THEN 0 ELSE f[Pick(W)] + H(W)[W \ {Pick(W)}]
        <4>1. H(W) = SumBody(f, W, H(W))
          BY <2>1, <2>2
        <4>2. W \in SUBSET W
          OBVIOUS
        <4> QED
          BY <4>1, <4>2 DEF SumBody
      <3>2. W # {} => H(W)[W \ {Pick(W)}] = Total(f, W \ {Pick(W)})
        <4> SUFFICES ASSUME W # {} PROVE H(W)[W \ {Pick(W)}] = Total(f, W \ {Pick(W)})
          OBVIOUS
        <4> DEFINE V == W \ {Pick(W)}
        <4>1. V \in SUBSET U /\ V # U
          BY <2>2, PickIs
        <4>2. H(V) = SumBody(f, V, H(V)) /\ Total(f, V) = H(V)[V] /\ H(W) = SumBody(f, W, H(W)) /\ IsFiniteSet(W)
          BY <2>1, <2>2, <4>1
        <4>3. V \in SUBSET (W \cap V)
          OBVIOUS
        <4> HIDE DEF V
        <4> QED
          BY <4>2, <4>3, SumUnique DEF V
      <3> QED
        BY <2>1, <2>2, <3>1, <3>2
    <2>3. ASSUME NEW W \in SUBSET U
          PROVE  k[W] = IF W = {} THEN 0 ELSE f[Pick(W)] + k[W \ {Pick(W)}]
      <3>1. W # {} => W \ {Pick(W)} \in SUBSET U /\ W \ {Pick(W)} # U
        BY PickIs
      <3> QED
        BY <2>2, <3>1
    <2>4. k = SumBody(f, U, k)
      <3>1. DOMAIN k = SUBSET U
        OBVIOUS
      <3>2. k = [W \in SUBSET U |-> k[W]]
        OBVIOUS
      <3> HIDE DEF k
      <3> QED
        BY <2>3, <3>2 DEF SumBody
    <2> QED
      BY <2>4
  <1>2. bad = {}
    <2>1. bad \in SUBSET SUBSET S
      OBVIOUS
    <2> HIDE DEF bad
    <2> QED
      BY <1>1, <2>1, SmallestSet
  <1> QED
    BY <1>2

LEMMA SumUnfold ==
  ASSUME NEW f, NEW S, IsFiniteSet(S)
  PROVE  Total(f, S) = IF S = {} THEN 0 ELSE f[Pick(S)] + Total(f, S \ {Pick(S)})
  <1> DEFINE H(V) == CHOOSE h : h = SumBody(f, V, h)
             V == S \ {Pick(S)}
  <1>1. \A T : IsFiniteSet(T) => H(T) = SumBody(f, T, H(T))
    BY SumExists
  <1>2. \A T : Total(f, T) = H(T)[T]
    BY DEF Total
  <1> HIDE DEF H
  <1>3. IsFiniteSet(V)
    BY FS_RemoveElement
  <1>4. H(S) = SumBody(f, S, H(S)) /\ H(V) = SumBody(f, V, H(V))
    BY <1>1, <1>3
  <1>5. H(S)[S] = IF S = {} THEN 0 ELSE f[Pick(S)] + H(S)[V]
    <2>1. S \in SUBSET S
      OBVIOUS
    <2> QED
      BY <1>4, <2>1 DEF SumBody
  <1>6. H(S)[V] = H(V)[V]
    <2>1. V \in SUBSET (S \cap V)
      OBVIOUS
    <2> HIDE DEF V
    <2> QED
      BY <1>4, <2>1, SumUnique
  <1> QED
    BY <1>2, <1>5, <1>6

LEMMA SumInt ==
  ASSUME NEW f, NEW S, IsFiniteSet(S), \A x \in S : f[x] \in Int
  PROVE  Total(f, S) \in Int /\ ((\A x \in S : f[x] >= 0) => Total(f, S) \in Nat)
  <1> DEFINE Fine(U) == Total(f, U) \in Int /\ ((\A x \in S : f[x] >= 0) => Total(f, U) \in Nat)
             bad == {U \in SUBSET S : ~Fine(U)}
  <1>1. ASSUME NEW U \in bad, IsFiniteSet(U), \A V \in SUBSET U : V # U => V \notin bad PROVE FALSE
    <2>1. CASE U = {}
      <3>1. Total(f, {}) = 0
        BY FS_EmptySet, SumUnfold
      <3> QED
        BY <1>1, <2>1, <3>1
    <2>2. CASE U # {}
      <3>1. Pick(U) \in U /\ Pick(U) \in S
        BY <2>2, PickIs
      <3>2. Fine(U \ {Pick(U)})
        BY <1>1, <3>1
      <3>3. Total(f, U) = f[Pick(U)] + Total(f, U \ {Pick(U)})
        BY <1>1, <2>2, SumUnfold
      <3> QED
        BY <3>1, <3>2, <3>3
    <2> QED
      BY <2>1, <2>2
  <1>2. bad = {}
    <2>1. bad \in SUBSET SUBSET S
      OBVIOUS
    <2> HIDE DEF bad
    <2> QED
      BY <1>1, <2>1, SmallestSet
  <1> QED
    BY <1>2

\* Any element may be taken out first.
LEMMA SumTakeOut ==
  ASSUME NEW f, NEW S, IsFiniteSet(S), \A x \in S : f[x] \in Int, NEW x \in S
  PROVE  Total(f, S) = f[x] + Total(f, S \ {x})
  <1> DEFINE bad == {U \in SUBSET S : \E y \in U : Total(f, U) # f[y] + Total(f, U \ {y})}
  <1>1. ASSUME NEW U \in bad, IsFiniteSet(U), \A V \in SUBSET U : V # U => V \notin bad PROVE FALSE
    <2>1. PICK y \in U : Total(f, U) # f[y] + Total(f, U \ {y})
      OBVIOUS
    <2> DEFINE c == Pick(U)
               A == U \ {c}
               B == U \ {y}
               C == A \ {y}
    <2>2. c \in U /\ Total(f, U) = f[c] + Total(f, A)
      BY <1>1, <2>1, PickIs, SumUnfold
    <2>3. y # c
      BY <2>1, <2>2
    <2>4. Total(f, A) = f[y] + Total(f, C)
      <3>1. A \in SUBSET U /\ A # U /\ A \in SUBSET S /\ y \in A
        BY <2>2, <2>3
      <3>2. A \notin bad
        BY <1>1, <3>1
      <3> QED
        BY <3>1, <3>2
    <2>5. Total(f, B) = f[c] + Total(f, C)
      <3>1. B \in SUBSET U /\ B # U /\ B \in SUBSET S /\ c \in B /\ B \ {c} = C
        BY <2>2, <2>3
      <3>2. B \notin bad
        BY <1>1, <3>1
      <3>3. Total(f, B) = f[c] + Total(f, B \ {c})
        BY <3>1, <3>2
      <3> QED
        BY <3>1, <3>3
    <2>6. f[c] \in Int /\ f[y] \in Int /\ Total(f, C) \in Int
      <3>1. C \in SUBSET S
        OBVIOUS
      <3>2. IsFiniteSet(C) /\ \A z \in C : f[z] \in Int
        BY <3>1, FS_Subset
      <3> HIDE DEF C
      <3>3. Total(f, C) \in Int
        BY <3>2, SumInt
      <3> QED
        BY <2>2, <3>3
    <2> HIDE DEF c, A, C
    <2> QED
      BY <2>1, <2>2, <2>4, <2>5, <2>6
  <1>2. bad = {}
    <2>1. bad \in SUBSET SUBSET S
      OBVIOUS
    <2> HIDE DEF bad
    <2> QED
      BY <1>1, <2>1, SmallestSet
  <1> QED
    BY <1>2

\* Equal values, equal sums.
LEMMA SumCong ==
  ASSUME NEW f, NEW g, NEW S, \A x \in S : f[x] = g[x]
  PROVE  Total(f, S) = Total(g, S)
  <1>1. \A h : SumBody(f, S, h) = SumBody(g, S, h)
    BY PickIs DEF SumBody
  <1> QED
    BY <1>1 DEF Total

\* Summing over objects is summing over their images, those that have zero left out.
LEMMA SumReindex ==
  ASSUME NEW M, IsFiniteSet(M), NEW g, NEW f, NEW p,
         \A h \in M : g[h] \in Nat /\ f[p[h]] = g[h],
         \A h, i \in M : p[h] = p[i] => h = i
  PROVE  Total(g, M) = Total(f, {p[h] : h \in {h \in M : g[h] > 0}})
  <1> DEFINE Image(U) == {p[h] : h \in {h \in U : g[h] > 0}}
             bad == {U \in SUBSET M : Total(g, U) # Total(f, Image(U))}
  <1>1. ASSUME NEW U \in bad, IsFiniteSet(U), \A V \in SUBSET U : V # U => V \notin bad PROVE FALSE
    <2>1. CASE U = {}
      <3>1. Image(U) = {}
        BY <2>1
      <3>2. Total(g, {}) = 0 /\ Total(f, {}) = 0
        BY FS_EmptySet, SumUnfold
      <3> QED
        BY <2>1, <3>1, <3>2
    <2>2. CASE U # {}
      <3> DEFINE c == Pick(U)
                 V == U \ {c}
      <3>1. c \in U /\ V \in SUBSET U /\ V # U
        BY <2>2, PickIs
      <3>2. Total(g, U) = g[c] + Total(g, V)
        BY <1>1, <2>2, SumUnfold
      <3>3. Total(g, V) = Total(f, Image(V))
        BY <1>1, <3>1
      <3>4. g[c] \in Nat /\ f[p[c]] = g[c]
        BY <3>1
      <3> HIDE DEF c
      <3>5. CASE g[c] > 0
        <4>1. p[c] \in Image(U) /\ Image(U) \ {p[c]} = Image(V)
          BY <3>1, <3>5
        <4>2. IsFiniteSet(Image(U))
          <5>1. IsFiniteSet({h \in U : g[h] > 0})
            BY <1>1, FS_Subset
          <5> DEFINE D == {h \in U : g[h] > 0}
                     q == [h \in D |-> p[h]]
          <5>2. q \in Surjection(D, Image(U))
            BY DEF Surjection
          <5> QED
            BY <5>1, <5>2, FS_Surjection
        <4>3. \A x \in Image(U) : f[x] \in Int
          OBVIOUS
        <4>4. PICK I : I = Image(U)
          OBVIOUS
        <4>5. Total(f, I) = f[p[c]] + Total(f, I \ {p[c]})
          <5>1. IsFiniteSet(I) /\ p[c] \in I /\ \A x \in I : f[x] \in Int
            BY <4>1, <4>2, <4>3, <4>4
          <5> QED
            BY <5>1, SumTakeOut
        <4> QED
          BY <3>2, <3>3, <3>4, <4>1, <4>4, <4>5
      <3>6. CASE ~(g[c] > 0)
        <4>1. g[c] = 0
          BY <3>4, <3>6
        <4>2. Image(U) = Image(V)
          BY <3>1, <3>6
        <4>3. Total(g, V) \in Int
          <5>1. IsFiniteSet(V) /\ \A x \in V : g[x] \in Int
            BY <1>1, <3>1, FS_Subset
          <5> QED
            BY <5>1, SumInt
        <4> QED
          BY <3>2, <3>3, <4>1, <4>2, <4>3
      <3> QED
        BY <3>5, <3>6
    <2> QED
      BY <2>1, <2>2
  <1>2. bad = {}
    <2>1. bad \in SUBSET SUBSET M
      OBVIOUS
    <2> HIDE DEF bad
    <2> QED
      BY <1>1, <2>1, SmallestSet
  <1> QED
    BY <1>2

\* What the model's sums are.
LEMMA SumIs ==
  ASSUME NEW f, NEW S
  PROVE  SumFunctionOnSet(f, S) = Total(f, S)
  BY DEF SumFunctionOnSet, FoldFunctionOnSet, MapThenFoldSet, Total, SumBody, Pick

LEMMA HoldingsAre ==
  ASSUME NEW t, NEW n, NEW S
  PROVE  MapThenSumSet(LAMBDA a : Holding(a, t, n), S) = Total([a \in S |-> Holding(a, t, n)], S)
  <1> DEFINE f == [a \in S |-> Holding(a, t, n)]
             Body(h) == [s \in SUBSET S |-> IF s = {} THEN 0
                           ELSE Holding(CHOOSE x \in s : TRUE, t, n) + h[s \ {CHOOSE x \in s : TRUE}]]
  <1>1. MapThenSumSet(LAMBDA a : Holding(a, t, n), S) = (CHOOSE h : h = Body(h))[S]
    BY DEF MapThenSumSet, MapThenFoldSet
  <1>2. \A h : Body(h) = SumBody(f, S, h)
    <2>1. \A s \in SUBSET S : s # {} => f[Pick(s)] = Holding(CHOOSE x \in s : TRUE, t, n)
      BY PickIs DEF Pick
    <2> HIDE DEF f
    <2> QED
      BY <2>1 DEF SumBody, Pick
  <1> HIDE DEF Body
  <1> QED
    BY <1>1, <1>2 DEF Total

LEMMA AmountsAre ==
  ASSUME NEW post, NEW S
  PROVE  MapThenSumSet(LAMBDA h : Amount(h, post), S) = Total([h \in S |-> Amount(h, post)], S)
  <1> DEFINE f == [h \in S |-> Amount(h, post)]
             Body(h) == [s \in SUBSET S |-> IF s = {} THEN 0
                           ELSE Amount(CHOOSE x \in s : TRUE, post) + h[s \ {CHOOSE x \in s : TRUE}]]
  <1>1. MapThenSumSet(LAMBDA h : Amount(h, post), S) = (CHOOSE h : h = Body(h))[S]
    BY DEF MapThenSumSet, MapThenFoldSet
  <1>2. \A h : Body(h) = SumBody(f, S, h)
    <2>1. \A s \in SUBSET S : s # {} => f[Pick(s)] = Amount(CHOOSE x \in s : TRUE, post)
      BY PickIs DEF Pick
    <2> HIDE DEF f
    <2> QED
      BY <2>1 DEF SumBody, Pick
  <1> HIDE DEF Body
  <1> QED
    BY <1>1, <1>2 DEF Total

-----------------------------------------------------------------------------
(* The aggregates over the latest rows are the true ones. *)

\* Nothing was given up or lost before the history begins.
Complete == snapSeq # 0 /\ skips = 0 /\ LostAtSnapshot = {}
AllSeen(t, n) == \A a \in Involved(t) : Seen(a, t, n)

LEMMA CompleteIs ==
  ASSUME IndInv, Complete
  PROVE  /\ low \in Nat /\ low # 0 /\ waived = {} /\ snapSeq \in low..tip /\ tip \in 1..Newest
         /\ \A a, t : Known(a, t)
  <1>1. Newest \in Nat
    BY ChainFacts DEF IndInv
  <1> QED
    BY <1>1 DEF Complete, Known, IndInv, OrderInv

\* The latest row of an account is what it holds at the top.
LEMMA LatestIs ==
  ASSUME IndInv, Complete, NEW t \in Parties, AllSeen(t, tip), NEW a \in Parties
  PROVE  LatestRow(rows, a, t) = IF a \in Involved(t) THEN Holding(a, t, tip) ELSE 0
  <1>1. /\ low \in Nat /\ low # 0 /\ waived = {} /\ snapSeq \in low..tip /\ tip \in 1..Newest
        /\ Known(a, t) /\ Newest \in Nat
    BY CompleteIs, ChainFacts DEF IndInv
  <1>2. \A m \in History(rows, a, t) : m \in low..tip /\ a \in Involved(t)
    <2> SUFFICES ASSUME NEW m \in History(rows, a, t) PROVE m \in low..tip /\ a \in Involved(t)
      OBVIOUS
    <2> DEFINE k == <<a, t, m>>
    <2>1. k \in DOMAIN rows /\ m \in 1..Newest
      BY DEF History
    <2>2. RowOk(k, rows[k]) /\ low <= k[3] /\ k[3] <= tip
      BY <2>1 DEF IndInv, RowsInv
    <2> QED
      BY <1>1, <2>1, <2>2 DEF RowOk, Involved
  <1>3. CASE a \notin Involved(t)
    BY <1>2, <1>3 DEF LatestRow
  <1>4. CASE a \in Involved(t)
    <2>1. AsOf(a, t, tip) = History(rows, a, t)
      BY <1>1, <1>2 DEF AsOf
    <2>2. tip \in low..tip /\ Seen(a, t, tip)
      BY <1>1, <1>4 DEF AllSeen
    <2>3. IF AsOf(a, t, tip) # {} THEN rows[<<a, t, Max(AsOf(a, t, tip))>>] = Holding(a, t, tip)
          ELSE snapSeq # 0 /\ tip >= snapSeq => Holding(a, t, tip) = 0
      BY <1>1, <1>4, <2>2, AsOfRight DEF AsOfCorrect
    <2> QED
      BY <1>1, <1>4, <2>1, <2>3 DEF LatestRow
  <1> QED
    BY <1>3, <1>4

\* The holders and trust lines with a balance that the aggregates count.
LEMMA CountedAre ==
  ASSUME IndInv, Complete, NEW t \in Parties, AllSeen(t, tip)
  PROVE  /\ {a \in Parties : LatestRow(rows, a, t) > 0} = {a \in Involved(t) : Holding(a, t, tip) > 0}
         /\ {a \in Parties : LatestRow(rows, a, t) # 0} = {a \in Involved(t) : Holding(a, t, tip) # 0}
  <1>1. \A a \in Parties : LatestRow(rows, a, t) = IF a \in Involved(t) THEN Holding(a, t, tip) ELSE 0
    BY LatestIs
  <1>2. Involved(t) \subseteq Parties
    BY DEF Involved
  <1> QED
    BY <1>1, <1>2

\* The ends of the objects there are, finitely many.
LEMMA PartiesFinite ==
  ASSUME Objects \in Worlds
  PROVE  IsFiniteSet(Objects) /\ IsFiniteSet(Parties)
  <1>1. IsFiniteSet(Objects)
    BY ObjectsAssumption
  <1> DEFINE ends(i) == {o[i] : o \in Objects}
             p == [o \in Objects |-> o[2]]
             q == [o \in Objects |-> o[3]]
  <1>2. p \in Surjection(Objects, ends(2)) /\ q \in Surjection(Objects, ends(3))
    BY DEF Surjection
  <1>3. IsFiniteSet(ends(2)) /\ IsFiniteSet(ends(3))
    BY <1>1, <1>2, FS_Surjection
  <1>4. Parties = ends(2) \cup ends(3)
    BY DEF Parties
  <1> QED
    BY <1>1, <1>3, <1>4, FS_Union

\* What is outstanding of an MPT is the sum of what its holders hold.
LEMMA OutstandingIs ==
  ASSUME ChainInv, NEW n \in 1..Newest, NEW o \in Objects, o[1] = "issuance"
  PROVE  LET holders == {a \in Involved(o[3]) : Holding(a, o[3], n) > 0}
         IN Amount(o, chain[n].post) = Total([a \in holders |-> Holding(a, o[3], n)], holders)
  <1>1. PICK t, post : t = o[3] /\ post = chain[n].post
    OBVIOUS
  <1> DEFINE holders == {a \in Involved(t) : Holding(a, t, n) > 0}
             M == {h \in Objects : h[1] = "mptoken" /\ h[3] = t}
             g == [h \in M |-> Amount(h, post)]
             f == [a \in Parties |-> Holding(a, t, n)]
             p == [h \in M |-> h[2]]
  <1>2. /\ DOMAIN post = Objects /\ \A x \in Objects : post[x] \in States(x)
        /\ Conserved(post) /\ Objects \in Worlds
    BY <1>1, ChainFacts DEF ChainInv
  <1>3. Amount(o, post) = Total(g, M)
    <2>1. Amount(o, post) = MapThenSumSet(LAMBDA h : Amount(h, post),
                                          {h \in DOMAIN post : h[1] = "mptoken" /\ h[3] = o[3]})
      BY <1>2 DEF Conserved
    <2>2. {h \in DOMAIN post : h[1] = "mptoken" /\ h[3] = o[3]} = M
      BY <1>1, <1>2
    <2>3. MapThenSumSet(LAMBDA h : Amount(h, post), M) = Total(g, M)
      BY AmountsAre
    <2> HIDE DEF M, g
    <2> QED
      BY <2>1, <2>2, <2>3
  <1>4. ASSUME NEW h \in M
        PROVE  /\ h = <<"mptoken", h[2], t>> /\ h \in Sources(h[2], t) /\ h[2] \in Parties
               /\ g[h] \in Nat /\ f[p[h]] = g[h] /\ Holding(h[2], t, n) = g[h]
    <2>1. IsObject(h)
      BY <1>2, ObjectsAre
    <2>2. h = <<"mptoken", h[2], t>>
      BY <2>1 DEF IsObject
    <2>3. h \in Sources(h[2], t) /\ h[2] \in Parties
      BY <2>2 DEF Sources, Parties
    <2>4. Holding(h[2], t, n) = HoldOf(h, h[2], post[h])
      BY <1>1, <2>3, HoldingIs
    <2>5. post[h] \in States(h) /\ Amounts(h) \subseteq Nat /\ Absent \notin Amounts(h)
      BY <1>2, <2>1 DEF IsObject
    <2>6. Holding(h[2], t, n) = Amount(h, post) /\ Amount(h, post) \in Nat
      BY <1>2, <2>4, <2>5 DEF HoldOf, Amt, Amount, States
    <2> QED
      BY <2>2, <2>3, <2>6
  <1>5. holders = {p[h] : h \in {h \in M : g[h] > 0}}
    <2>1. ASSUME NEW a \in holders PROVE \E h \in M : p[h] = a /\ g[h] > 0
      <3>1. PICK s \in Sources(a, t) : TRUE
        BY DEF Involved
      <3>2. s \in Objects /\ IsObject(s) /\ IsKey(s, a, t)
        BY <1>2, <3>1, ObjectsAre DEF Sources
      <3>3. Holding(a, t, n) = HoldOf(s, a, post[s]) /\ post[s] \in States(s)
        BY <1>1, <1>2, <3>1, <3>2, HoldingIs
      <3>4. s[1] # "line"
        <4>1. t \in {s[2], s[3]} => s[1] # "line"
          BY <1>1, <1>2, <3>2, KeysAssumption
        <4>2. s[1] = "line" => t \in {s[2], s[3]}
          BY <3>2 DEF IsKey
        <4> QED
          BY <4>1, <4>2
      <3>5. s[1] # "issuance"
        <4> SUFFICES ASSUME s[1] = "issuance" PROVE FALSE
          OBVIOUS
        <4>1. Amt(post[s]) \in Nat
          BY <3>2, <3>3 DEF IsObject, States, Amt
        <4>2. Holding(a, t, n) = 0 - Amt(post[s])
          BY <3>3 DEF HoldOf
        <4> QED
          BY <4>1, <4>2
      <3>6. s[1] = "mptoken" /\ s[2] = a /\ s[3] = t
        BY <3>2, <3>4, <3>5 DEF IsObject, IsKey
      <3>7. s \in M
        BY <3>2, <3>6
      <3> QED
        BY <1>4, <3>6, <3>7
    <2>2. ASSUME NEW h \in M, g[h] > 0 PROVE p[h] \in holders
      BY <1>4, <2>2 DEF Involved
    <2> HIDE DEF M, g
    <2> QED
      BY <2>1, <2>2
  <1>6. IsFiniteSet(M)
    BY <1>2, PartiesFinite, FS_Subset
  <1>7. \A h, i \in M : p[h] = p[i] => h = i
    BY <1>4
  <1>8. Total(g, M) = Total(f, holders)
    <2> HIDE DEF M, g, f, p, holders
    <2> QED
      BY <1>4, <1>5, <1>6, <1>7, SumReindex
  <1>9. Total(f, holders) = Total([a \in holders |-> Holding(a, t, n)], holders)
    <2>1. holders \subseteq Parties
      BY DEF Involved
    <2>2. \A a \in holders : f[a] = [b \in holders |-> Holding(b, t, n)][a]
      BY <2>1
    <2> HIDE DEF f, holders
    <2> QED
      BY <2>2, SumCong
  <1> QED
    BY <1>1, <1>3, <1>8, <1>9

\* The aggregates over the latest rows are true.
LEMMA AggregateIsTrue ==
  ASSUME IndInv, Complete, NEW t \in Parties, AllSeen(t, tip), NEW m \in Metrics
  PROVE  Aggregate(m, rows, t) = TrueMetric(m, t, tip)
  <1> DEFINE balance == [a \in Parties |-> LatestRow(rows, a, t)]
             positive == {a \in Parties : balance[a] > 0}
             holders == {a \in Involved(t) : Holding(a, t, tip) > 0}
             issuances == {o \in Objects : o[1] = "issuance" /\ o[3] = t}
  <1>1. /\ positive = holders
        /\ {a \in Parties : balance[a] # 0} = {a \in Involved(t) : Holding(a, t, tip) # 0}
    BY CountedAre
  <1>2. tip \in 1..Newest
    BY CompleteIs
  <1>3. SumFunctionOnSet(balance, positive) = Total([a \in holders |-> Holding(a, t, tip)], holders)
    <2>1. \A a \in holders : balance[a] = [b \in holders |-> Holding(b, t, tip)][a]
      BY LatestIs DEF Involved
    <2> HIDE DEF balance, positive, holders
    <2> QED
      BY <1>1, <2>1, SumIs, SumCong
  <1>4. CASE m = "holders"
    BY <1>1, <1>4 DEF Aggregate, TrueMetric
  <1>5. CASE m = "trustlines"
    BY <1>1, <1>5 DEF Aggregate, TrueMetric
  <1>6. CASE m = "supply" /\ issuances = {}
    <2>1. TrueMetric(m, t, tip) = MapThenSumSet(LAMBDA a : Holding(a, t, tip), holders)
      BY <1>6 DEF TrueMetric
    <2>2. Aggregate(m, rows, t) = SumFunctionOnSet(balance, positive)
      BY <1>6 DEF Aggregate
    <2> QED
      BY <1>3, <2>1, <2>2, HoldingsAre
  <1>7. CASE m = "supply" /\ issuances # {}
    <2> DEFINE o == CHOOSE o \in issuances : TRUE
    <2>1. o \in issuances
      BY <1>7
    <2>2. TrueMetric(m, t, tip) = Amount(o, chain[tip].post)
      BY <1>7 DEF TrueMetric
    <2>3. Aggregate(m, rows, t) = SumFunctionOnSet(balance, positive)
      BY <1>7 DEF Aggregate
    <2>4. Amount(o, chain[tip].post) = Total([a \in holders |-> Holding(a, t, tip)], holders)
      <3>1. PICK q : q = o
        OBVIOUS
      <3>2. q \in Objects /\ q[1] = "issuance" /\ q[3] = t
        BY <2>1, <3>1
      <3> HIDE DEF o
      <3> QED
        BY <1>2, <3>1, <3>2, OutstandingIs DEF IndInv
    <2> QED
      BY <1>3, <2>2, <2>3, <2>4
  <1> QED
    BY <1>4, <1>5, <1>6, <1>7 DEF Metrics

-----------------------------------------------------------------------------
(* The metric points. *)

\* TrueMetric, with the sum written as a total.
TrueValue(m, t, n) ==
  LET issuances == {o \in Objects : o[1] = "issuance" /\ o[3] = t}
      holders   == {a \in Involved(t) : Holding(a, t, n) > 0}
  IN CASE m = "holders"    -> Cardinality(holders)
       [] m = "trustlines" -> Cardinality({a \in Involved(t) : Holding(a, t, n) # 0})
       [] m = "supply" -> IF issuances # {}
                            THEN Amount(CHOOSE o \in issuances : TRUE, chain[n].post)
                            ELSE Total([a \in holders |-> Holding(a, t, n)], holders)

ValuesAreTrue == \A t, n : \A m \in Metrics : TrueMetric(m, t, n) = TrueValue(m, t, n)

LEMMA TrueMetricIs == ValuesAreTrue
  <1> SUFFICES ASSUME NEW t, NEW n, NEW m \in Metrics PROVE TrueMetric(m, t, n) = TrueValue(m, t, n)
    BY DEF ValuesAreTrue
  <1> DEFINE holders == {a \in Involved(t) : Holding(a, t, n) > 0}
             issuances == {o \in Objects : o[1] = "issuance" /\ o[3] = t}
             f == [a \in holders |-> Holding(a, t, n)]
  <1>1. MapThenSumSet(LAMBDA a : Holding(a, t, n), holders) = Total(f, holders)
    BY HoldingsAre
  <1>2. CASE m = "holders"
    BY <1>2 DEF TrueMetric, TrueValue
  <1>3. CASE m = "trustlines"
    BY <1>3 DEF TrueMetric, TrueValue
  <1>4. CASE m = "supply" /\ issuances # {}
    BY <1>4 DEF TrueMetric, TrueValue
  <1>5. CASE m = "supply" /\ issuances = {}
    <2>1. TrueMetric(m, t, n) = MapThenSumSet(LAMBDA a : Holding(a, t, n), holders)
      BY <1>5 DEF TrueMetric
    <2>2. TrueValue(m, t, n) = Total(f, holders)
      BY <1>5 DEF TrueValue
    <2> QED
      BY <1>1, <2>1, <2>2
  <1> QED
    BY <1>2, <1>3, <1>4, <1>5 DEF Metrics

\* What was true of a ledger stays so.
LEMMA TruthKept ==
  ASSUME ChainInv, Kept, NEW n \in 1..Newest
  PROVE  \A t : /\ Involved(t)' = Involved(t)
                /\ AllSeen(t, n)' <=> AllSeen(t, n)
                /\ \A m \in Metrics : TrueMetric(m, t, n)' = TrueMetric(m, t, n)
  <1> SUFFICES ASSUME NEW t
               PROVE  /\ Involved(t)' = Involved(t)
                      /\ AllSeen(t, n)' <=> AllSeen(t, n)
                      /\ \A m \in Metrics : TrueMetric(m, t, n)' = TrueMetric(m, t, n)
    OBVIOUS
  <1>1. Objects' = Objects /\ Parties' = Parties /\ Newest \in Nat
    BY ChainFacts DEF Kept, Parties
  <1>2. \A j \in 1..n : /\ chain'[j] = chain[j]
                        /\ \A a : Sources(a, t)' = Sources(a, t) /\ Holding(a, t, j)' = Holding(a, t, j)
    <2>1. \A j \in 1..n : j \in 1..Newest
      BY <1>1
    <2> QED
      BY <2>1, ReadsKept DEF Kept
  <1>3. n \in 1..n /\ \A m \in 1..n : \A j \in m..n : j \in 1..n
    BY <1>1
  <1>4. Involved(t)' = Involved(t)
    BY <1>1, <1>2, <1>3 DEF Involved
  <1>5. \A a : Seen(a, t, n)' <=> Seen(a, t, n)
    BY <1>2, <1>3 DEF Seen
  <1>6. ASSUME NEW m \in Metrics PROVE TrueMetric(m, t, n)' = TrueMetric(m, t, n)
    <2>1. PICK ledger : ledger = chain[n]
      OBVIOUS
    <2>2. chain[n] = ledger /\ chain'[n] = ledger /\ \A a : Holding(a, t, n)' = Holding(a, t, n)
      BY <1>2, <1>3, <2>1
    <2>3. TrueMetric(m, t, n) = TrueValue(m, t, n)
      BY TrueMetricIs DEF ValuesAreTrue
    <2>4. (TrueMetric(m, t, n) = TrueValue(m, t, n))'
      <3>1. ValuesAreTrue'
        BY TrueMetricIs, PTL
      <3> QED
        BY <3>1 DEF ValuesAreTrue, Metrics
    <2> DEFINE holders == {a \in Involved(t) : Holding(a, t, n) > 0}
               lines == {a \in Involved(t) : Holding(a, t, n) # 0}
               issuances == {o \in Objects : o[1] = "issuance" /\ o[3] = t}
               f == [a \in holders |-> Holding(a, t, n)]
    <2>5. holders' = holders /\ lines' = lines /\ issuances' = issuances
      BY <1>1, <1>4, <2>2
    <2>6. f' = f
      BY <2>2, <2>5
    <2>7. \A o : Amount(o, chain[n].post)' = Amount(o, chain[n].post)
      BY <2>2 DEF Amount
    <2>8. TrueValue(m, t, n)' = TrueValue(m, t, n)
      <3>1. CASE m = "holders"
        BY <2>5, <3>1 DEF TrueValue
      <3>2. CASE m = "trustlines"
        BY <2>5, <3>2 DEF TrueValue
      <3>3. CASE m = "supply" /\ issuances # {}
        BY <2>5, <2>7, <3>3 DEF TrueValue
      <3>4. CASE m = "supply" /\ issuances = {}
        BY <2>5, <2>6, <3>4 DEF TrueValue
      <3> QED
        BY <3>1, <3>2, <3>3, <3>4 DEF Metrics
    <2> QED
      BY <2>3, <2>4, <2>8
  <1> QED
    BY <1>4, <1>5, <1>6 DEF AllSeen

\* The latest point up to a ledger.
LEMMA LatestPoint ==
  ASSUME NEW m, NEW t, NEW n \in Nat, PointsUpTo(m, t, n) # {}
  PROVE  LET last == Max(PointsUpTo(m, t, n))
         IN last \in 1..n /\ <<m, t, last>> \in DOMAIN points /\ \A j \in PointsUpTo(m, t, n) : j <= last
  <1> DEFINE h == PointsUpTo(m, t, n)
  <1>1. h \in SUBSET Nat /\ (\A j \in h : j <= n) /\ \A j \in h : j \in 1..n /\ <<m, t, j>> \in DOMAIN points
    BY DEF PointsUpTo
  <1> HIDE DEF h
  <1>2. Max(h) \in h /\ \A j \in h : j <= Max(h)
    <2>1. h # {}
      BY DEF h
    <2> QED
      BY <1>1, <2>1, GreatestNat
  <1> QED
    BY <1>1, <1>2 DEF h

\* The series of token t have the true value as of ledger n.
Charted(t, n) == \A m \in Metrics : MetricAsOf(m, t, n) = TrueMetric(m, t, n)

LEMMA MetricsAre ==
  MetricsCorrect <=>
    (Complete => \A t \in Parties : \A n \in snapSeq..tip : AllSeen(t, n) => Charted(t, n))
  BY DEF MetricsCorrect, Complete, AllSeen, Charted

\* Points of later ledgers, or of other tokens, do not matter.
LEMMA ChartKept ==
  ASSUME ChainInv, Kept, NEW n \in 1..Newest, NEW t, Charted(t, n),
         \A m \in Metrics : \A j \in 1..n :
           /\ <<m, t, j>> \in DOMAIN points' <=> <<m, t, j>> \in DOMAIN points
           /\ <<m, t, j>> \in DOMAIN points => points'[<<m, t, j>>] = points[<<m, t, j>>]
  PROVE  Charted(t, n)'
  <1> SUFFICES ASSUME NEW m \in Metrics PROVE MetricAsOf(m, t, n)' = TrueMetric(m, t, n)'
    BY DEF Charted, Metrics
  <1>1. TrueMetric(m, t, n)' = TrueMetric(m, t, n)
    BY TruthKept
  <1>2. PointsUpTo(m, t, n)' = PointsUpTo(m, t, n)
    BY DEF PointsUpTo
  <1>3. PointsUpTo(m, t, n) # {} =>
          Max(PointsUpTo(m, t, n)) \in 1..n /\ <<m, t, Max(PointsUpTo(m, t, n))>> \in DOMAIN points
    <2>1. n \in Nat
      BY ChainFacts
    <2> QED
      BY <2>1, LatestPoint
  <1>4. MetricAsOf(m, t, n)' = MetricAsOf(m, t, n)
    <2>1. PICK h : h = PointsUpTo(m, t, n)
      OBVIOUS
    <2> QED
      BY <1>2, <1>3, <2>1 DEF MetricAsOf
  <1> QED
    BY <1>1, <1>4 DEF Charted

LEMMA CompleteKept ==
  ASSUME IndInv, Kept, snapSeq' = snapSeq, fresh' = fresh, skips' = skips
  PROVE  Complete' <=> Complete
  <1>1. fresh => snapSeq \in 1..Newest
    BY ChainFacts DEF IndInv, OrderInv
  <1>2. LostAtSnapshot' = LostAtSnapshot
    <2>1. CASE fresh
      <3>1. PICK ledger : ledger = chain[snapSeq]
        OBVIOUS
      <3>2. chain'[snapSeq'] = ledger /\ chain[snapSeq] = ledger
        BY <1>1, <2>1, <3>1 DEF Kept
      <3> QED
        BY <2>1, <3>2 DEF LostAtSnapshot, Amount
    <2>2. CASE ~fresh
      BY <2>2 DEF LostAtSnapshot
    <2> QED
      BY <2>1, <2>2
  <1> QED
    BY <1>2 DEF Complete

\* Steps that add no point.
LEMMA NoNewPoint ==
  ASSUME IndInv, Kept, UNCHANGED <<points, skips, snapSeq, fresh, tip>>, MetricsCorrect, SparsePoints
  PROVE  MetricsCorrect' /\ SparsePoints'
  <1>1. Complete' <=> Complete
    BY CompleteKept
  <1>2. \A n \in 1..tip : n \in 1..Newest
    BY ChainFacts DEF IndInv, OrderInv
  <1>3. Complete => snapSeq \in Nat /\ snapSeq >= 1
    BY CompleteIs DEF Complete, IndInv, OrderInv
  <1>4. Parties' = Parties
    BY DEF Kept, Parties
  <1>5. MetricsCorrect'
    <2>1. ASSUME Complete', NEW t \in Parties', NEW n \in snapSeq..tip, AllSeen(t, n)' PROVE Charted(t, n)'
      <3>1. n \in 1..tip /\ n \in 1..Newest
        BY <1>1, <1>2, <1>3, <2>1 DEF IndInv, OrderInv
      <3>2. AllSeen(t, n)
        BY <2>1, <3>1, TruthKept DEF IndInv
      <3>3. Charted(t, n)
        BY <1>1, <1>4, <2>1, <3>2, MetricsAre
      <3> QED
        BY <3>1, <3>3, ChartKept DEF IndInv
    <2>2. (MetricsCorrect <=>
             (Complete => \A t \in Parties : \A n \in snapSeq..tip : AllSeen(t, n) => Charted(t, n)))'
      BY MetricsAre, PTL
    <2> QED
      BY <2>1, <2>2
  <1>6. SparsePoints'
    <2> SUFFICES ASSUME Complete', NEW k \in DOMAIN points, NEW j \in DOMAIN points,
                        snapSeq <= k[3], k[1] = j[1], k[2] = j[2], k[3] < j[3], points[k] = points[j],
                        AllSeen(j[2], j[3])'
                 PROVE  \E i \in DOMAIN points : i[1] = k[1] /\ i[2] = k[2] /\ k[3] < i[3] /\ i[3] < j[3]
      BY DEF SparsePoints, Complete, AllSeen
    <2>1. j[3] \in 1..Newest
      BY <1>2 DEF IndInv, PointsInv
    <2>2. AllSeen(j[2], j[3])
      BY <2>1, TruthKept DEF IndInv
    <2> QED
      BY <1>1, <2>2 DEF SparsePoints, Complete, AllSeen
  <1> QED
    BY <1>5, <1>6

\* What is selected from the rows at the top is true, before a step and after it.
SelectsTruth ==
  Complete => \A t \in Parties : AllSeen(t, tip) =>
    \A m \in Metrics : Aggregate(m, rows, t) = TrueMetric(m, t, tip)

LEMMA SelectsAreTrue == IndInv => SelectsTruth
  BY AggregateIsTrue DEF SelectsTruth

LEMMA SelectedAfter ==
  ASSUME IndInv', UNCHANGED chain, Complete', NEW t \in Parties, AllSeen(t, tip)', NEW m \in Metrics
  PROVE  Aggregate(m, rows', t) = TrueMetric(m, t, tip)'
  <1>1. SelectsTruth'
    BY SelectsAreTrue, PTL
  <1>2. Parties' = Parties /\ Newest' = Newest
    BY DEF Parties, Objects, Newest
  <1>3. Aggregate(m, rows, t)' = TrueMetric(m, t, tip)'
    BY <1>1, <1>2 DEF SelectsTruth, Metrics
  <1>4. Aggregate(m, rows, t)' = Aggregate(m, rows', t)
    <2>1. \A a : LatestRow(rows, a, t)' = LatestRow(rows', a, t)
      BY <1>2 DEF LatestRow, History
    <2> DEFINE B(table) == [a \in Parties |-> LatestRow(table, a, t)]
               N(table) == {a \in Parties : B(table)[a] > 0}
               L(table) == {a \in Parties : B(table)[a] # 0}
    <2>2. B(rows)' = B(rows') /\ N(rows)' = N(rows') /\ L(rows)' = L(rows')
      BY <1>2, <2>1
    <2>3. CASE m = "holders"
      BY <2>2, <2>3 DEF Aggregate
    <2>4. CASE m = "trustlines"
      BY <2>2, <2>4 DEF Aggregate
    <2>5. CASE m = "supply"
      BY <2>2, <2>5 DEF Aggregate
    <2> QED
      BY <2>3, <2>4, <2>5 DEF Metrics
  <1> QED
    BY <1>3, <1>4

\* Live sync: the new points of a touched token.
LEMMA LivePoints ==
  ASSUME IndInv, IndInv', NEW seq \in 1..MaxHead, LiveLedger(seq), snapSeq # 0
  PROVE  LET batch == Batch(chain[seq].nodes, seq)
             values(m, t) == Aggregate(m, rows', t)
             new(k) == k \in Metrics \X Touched(batch) \X {seq} /\ ~IsCurrent(k[1], k[2], seq, values(k[1], k[2]))
         IN /\ tip # 0 /\ (seq = tip + 1 \/ seq = tip) /\ tip' = seq /\ seq \in 1..Newest
            /\ UNCHANGED <<chain, skips, snapSeq, fresh>>
            /\ \A k : k \in DOMAIN points' <=> k \in DOMAIN points \/ new(k)
            /\ \A k : new(k) => points'[k] = values(k[1], k[2])
            /\ \A k \in DOMAIN points : ~new(k) => points'[k] = points[k]
  <1>1. PICK batch, table : batch = Batch(chain[seq].nodes, seq) /\ table = OrElse(batch, rows)
    OBVIOUS
  <1>2. PICK more : more = MetricPoints(table, Touched(batch), seq)
    OBVIOUS
  <1>3. /\ seq <= Newest /\ rows' = table /\ points' = OrElse(more, points)
        /\ chain' = chain /\ skips' = skips
    BY <1>1, <1>2 DEF LiveLedger, Apply
  <1>4. /\ tip # 0 /\ snapSeq' = snapSeq /\ fresh' = fresh /\ tip' = seq
        /\ seq = tip + 1 \/ seq = tip
    BY DEF LiveLedger, LiveAt, IndInv, OrderInv
  <1>5. seq \in 1..Newest
    BY <1>3, ChainFacts, BoundsAssumption DEF IndInv
  <1> DEFINE K == Metrics \X Touched(batch) \X {seq}
             new(k) == k \in K /\ ~IsCurrent(k[1], k[2], seq, Aggregate(k[1], table, k[2]))
  <1>6. /\ \A k : k \in DOMAIN more <=> new(k)
        /\ \A k \in DOMAIN more : more[k] = Aggregate(k[1], table, k[2])
    <2> DEFINE v == [k \in K |-> Aggregate(k[1], table, k[2])]
               kept == {k \in DOMAIN v : ~IsCurrent(k[1], k[2], seq, v[k])}
    <2>1. more = Restrict(v, kept)
      BY <1>2 DEF MetricPoints
    <2>2. \A k : k \in kept <=> new(k)
      OBVIOUS
    <2>3. kept \subseteq K
      OBVIOUS
    <2>4. DOMAIN more = kept /\ \A k \in kept : more[k] = v[k]
      <3> HIDE DEF kept, v
      <3> QED
        BY <2>1 DEF Restrict
    <2>5. \A k \in kept : more[k] = Aggregate(k[1], table, k[2])
      <3> HIDE DEF kept
      <3> QED
        BY <2>3, <2>4
    <2> QED
      BY <2>2, <2>4, <2>5
  <1> HIDE DEF K
  <1>7. /\ \A k : k \in DOMAIN points' <=> k \in DOMAIN points \/ new(k)
        /\ \A k : new(k) => points'[k] = Aggregate(k[1], table, k[2])
        /\ \A k \in DOMAIN points : ~new(k) => points'[k] = points[k]
    <2> HIDE DEF new
    <2>1. PICK old : old = points
      OBVIOUS
    <2>2. /\ DOMAIN points' = DOMAIN more \cup DOMAIN old
          /\ \A k \in DOMAIN more : points'[k] = more[k]
          /\ \A k \in DOMAIN old : k \notin DOMAIN more => points'[k] = old[k]
      <3> DEFINE all == OrElse(more, old)
      <3>1. /\ DOMAIN all = DOMAIN more \cup DOMAIN old
            /\ \A k \in DOMAIN more : all[k] = more[k]
            /\ \A k \in DOMAIN old : k \notin DOMAIN more => all[k] = old[k]
        BY OrElseIs
      <3>2. points' = all
        BY <1>3, <2>1
      <3> HIDE DEF all
      <3> QED
        BY <3>1, <3>2
    <2> QED
      BY <1>6, <2>1, <2>2
  <1> QED
    BY <1>1, <1>3, <1>4, <1>5, <1>7 DEF K

\* What was held before a ledger that has no row of the token, and was seen.
LEMMA UntouchedToken ==
  ASSUME IndInv, NEW n \in 2..Newest, NEW t, AllSeen(t, n),
         t \notin Touched(Batch(chain[n].nodes, n))
  PROVE  /\ AllSeen(t, n - 1)
         /\ \A a \in Involved(t) : Holding(a, t, n) = Holding(a, t, n - 1)
  <1>1. n \in Nat /\ n - 1 \in Nat /\ Newest \in Nat
    BY ChainFacts DEF IndInv
  <1>2. ASSUME NEW a \in Involved(t) PROVE Holding(a, t, n) = Holding(a, t, n - 1)
    <2>1. <<a, t, n>> \notin DOMAIN Batch(chain[n].nodes, n)
      <3> DEFINE k == <<a, t, n>>
      <3>1. k[2] = t
        OBVIOUS
      <3> HIDE DEF k
      <3> QED
        BY <3>1 DEF Touched, k
    <2>2. ~Bad(a, t, n)
      <3>1. n \in 1..n /\ \A j \in n..n : j = n
        BY <1>1
      <3>2. Seen(a, t, n)
        BY DEF AllSeen
      <3> QED
        BY <3>1, <3>2 DEF Bad, Seen
    <2> QED
      BY <2>1, <2>2, UnwrittenHolds DEF IndInv, Involved
  <1>3. ASSUME NEW a \in Involved(t) PROVE Seen(a, t, n - 1)
    <2> SUFFICES ASSUME NEW m \in 1..(n - 1), \E x \in Range(chain[m].nodes) : x.of \in Sources(a, t) /\ Unseen(x, a)
                 PROVE  \E j \in m..(n - 1) : Holding(a, t, j) > 0
      BY DEF Seen
    <2>1. m \in 1..n /\ n - 1 \in m..(n - 1)
      BY <1>1
    <2>2. PICK j \in m..n : Holding(a, t, j) > 0
      BY <2>1 DEF AllSeen, Seen
    <2>3. CASE j = n
      BY <1>2, <2>1, <2>2, <2>3
    <2>4. CASE j # n
      BY <1>1, <2>2, <2>4
    <2> QED
      BY <2>3, <2>4
  <1> QED
    BY <1>2, <1>3 DEF AllSeen

\* Metrics are read off what is held.
LEMMA SameHoldings ==
  ASSUME IndInv, NEW n \in 1..Newest, NEW j \in 1..Newest, NEW t,
         \A a \in Involved(t) : Holding(a, t, n) = Holding(a, t, j), NEW m \in Metrics
  PROVE  TrueMetric(m, t, n) = TrueMetric(m, t, j)
  <1> DEFINE holders(i) == {a \in Involved(t) : Holding(a, t, i) > 0}
             lines(i) == {a \in Involved(t) : Holding(a, t, i) # 0}
             f(i) == [a \in holders(i) |-> Holding(a, t, i)]
             issuances == {o \in Objects : o[1] = "issuance" /\ o[3] = t}
             o == CHOOSE o \in issuances : TRUE
  <1>1. holders(n) = holders(j) /\ lines(n) = lines(j)
    OBVIOUS
  <1>2. f(n) = f(j)
    <2>1. \A a \in holders(n) : Holding(a, t, n) = Holding(a, t, j)
      OBVIOUS
    <2> HIDE DEF holders
    <2> QED
      BY <1>1, <2>1
  <1>3. issuances # {} => Amount(o, chain[n].post) = Amount(o, chain[j].post)
    <2> SUFFICES ASSUME issuances # {} PROVE Amount(o, chain[n].post) = Amount(o, chain[j].post)
      OBVIOUS
    <2>1. PICK q : q = o
      OBVIOUS
    <2>2. q \in Objects /\ q[1] = "issuance" /\ q[3] = t
      BY <2>1
    <2>3. q = <<"issuance", q[2], t>> /\ q \in Sources(q[2], t) /\ q[2] \in Involved(t)
      <3>1. IsObject(q)
        BY <2>2, ObjectsAre DEF IndInv, ChainInv
      <3>2. q = <<"issuance", q[2], t>>
        BY <2>2, <3>1 DEF IsObject
      <3> QED
        BY <2>2, <3>2 DEF Sources, Involved, Parties
    <2>4. \A i \in {n, j} : /\ Holding(q[2], t, i) = 0 - Amount(q, chain[i].post)
                            /\ Amount(q, chain[i].post) \in Int
      <3> SUFFICES ASSUME NEW i \in {n, j}
                   PROVE  /\ Holding(q[2], t, i) = 0 - Amount(q, chain[i].post)
                          /\ Amount(q, chain[i].post) \in Int
        OBVIOUS
      <3>1. Holding(q[2], t, i) = HoldOf(q, q[2], chain[i].post[q])
        BY <2>3, HoldingIs DEF IndInv
      <3>2. chain[i].post[q] \in States(q) /\ DOMAIN chain[i].post = Objects
        BY <2>2, ChainFacts DEF IndInv
      <3>3. IsObject(q)
        BY <2>2, ObjectsAre DEF IndInv, ChainInv
      <3>4. Amount(q, chain[i].post) = Amt(chain[i].post[q]) /\ Amt(chain[i].post[q]) \in Int
        BY <2>2, <3>2, <3>3 DEF Amount, Amt, States, IsObject
      <3> QED
        BY <2>2, <3>1, <3>4 DEF HoldOf
    <2>5. Holding(q[2], t, n) = Holding(q[2], t, j)
      BY <2>3
    <2>6. Amount(q, chain[n].post) = Amount(q, chain[j].post)
      BY <2>4, <2>5
    <2> HIDE DEF o
    <2> QED
      BY <2>1, <2>6
  <1>4. TrueValue(m, t, n) = TrueValue(m, t, j)
    <2>1. CASE m = "holders"
      BY <1>1, <2>1 DEF TrueValue
    <2>2. CASE m = "trustlines"
      BY <1>1, <2>2 DEF TrueValue
    <2>3. CASE m = "supply" /\ issuances # {}
      BY <1>3, <2>3 DEF TrueValue
    <2>4. CASE m = "supply" /\ issuances = {}
      BY <1>1, <1>2, <2>4 DEF TrueValue
    <2> QED
      BY <2>1, <2>2, <2>3, <2>4 DEF Metrics
  <1> QED
    BY <1>4, TrueMetricIs DEF ValuesAreTrue

LEMMA LiveMetrics ==
  ASSUME IndInv, IndInv', Kept, NEW seq \in 1..MaxHead, LiveLedger(seq), MetricsCorrect
  PROVE  MetricsCorrect'
  <1>0. (MetricsCorrect <=>
           (Complete => \A t \in Parties : \A n \in snapSeq..tip : AllSeen(t, n) => Charted(t, n)))'
    BY MetricsAre, PTL
  <1>1. SUFFICES ASSUME Complete', NEW t \in Parties', NEW n \in snapSeq'..tip', AllSeen(t, n)'
                 PROVE  Charted(t, n)'
    BY <1>0
  <1>2. snapSeq # 0
    <2>1. snapSeq' = snapSeq
      BY DEF LiveLedger, LiveAt
    <2> QED
      BY <1>1, <2>1 DEF Complete
  <1> DEFINE batch == Batch(chain[seq].nodes, seq)
             new(k) == /\ k \in Metrics \X Touched(batch) \X {seq}
                       /\ ~IsCurrent(k[1], k[2], seq, Aggregate(k[1], rows', k[2]))
  <1>3. /\ tip # 0 /\ (seq = tip + 1 \/ seq = tip) /\ tip' = seq /\ seq \in 1..Newest
        /\ UNCHANGED <<chain, skips, snapSeq, fresh>>
        /\ \A k : k \in DOMAIN points' <=> k \in DOMAIN points \/ new(k)
        /\ \A k : new(k) => points'[k] = Aggregate(k[1], rows', k[2])
        /\ \A k \in DOMAIN points : ~new(k) => points'[k] = points[k]
    BY <1>2, LivePoints
  <1>4. /\ Complete /\ Parties' = Parties /\ t \in Parties
        /\ tip \in Nat /\ tip \in 1..Newest /\ n \in 1..Newest /\ n \in snapSeq..seq /\ snapSeq \in 1..tip
    <2>1. Parties' = Parties
      BY DEF Kept, Parties
    <2>2. Complete
      BY <1>1, <1>3, CompleteKept
    <2>3. low \in Nat /\ low # 0 /\ snapSeq \in low..tip /\ tip \in 1..Newest /\ Newest \in Nat
      BY <2>2, CompleteIs, ChainFacts DEF IndInv
    <2> QED
      BY <1>3, <2>1, <2>2, <2>3
  <1>5. AllSeen(t, n)
    BY <1>1, <1>4, TruthKept DEF IndInv
  <1>6. ASSUME \A m \in Metrics : \A j \in 1..n : ~new(<<m, t, j>>), Charted(t, n) PROVE Charted(t, n)'
    <2>1. \A m \in Metrics : \A j \in 1..n :
            /\ <<m, t, j>> \in DOMAIN points' <=> <<m, t, j>> \in DOMAIN points
            /\ <<m, t, j>> \in DOMAIN points => points'[<<m, t, j>>] = points[<<m, t, j>>]
      <3> HIDE DEF new
      <3> QED
        BY <1>3, <1>6
    <2> QED
      BY <1>4, <1>6, <2>1, ChartKept DEF IndInv
  <1>7. CASE n < seq
    <2>1. n \in snapSeq..tip
      BY <1>3, <1>4, <1>7
    <2>2. Charted(t, n)
      BY <1>4, <1>5, <2>1, MetricsAre
    <2>3. \A m \in Metrics : \A j \in 1..n : ~new(<<m, t, j>>)
      BY <1>3, <1>4, <1>7
    <2> QED
      BY <1>6, <2>2, <2>3
  <1>8. CASE n = seq /\ t \notin Touched(batch)
    <2>1. Charted(t, n)
      <3>1. CASE seq = tip
        BY <1>4, <1>5, <1>8, <3>1, MetricsAre
      <3>2. CASE seq = tip + 1
        <4>1. n \in 2..Newest /\ n - 1 = tip /\ tip \in snapSeq..tip /\ n \in Nat
          BY <1>3, <1>4, <1>8, <3>2
        <4>2. AllSeen(t, tip) /\ \A a \in Involved(t) : Holding(a, t, n) = Holding(a, t, tip)
          BY <1>5, <1>8, <4>1, UntouchedToken
        <4>3. Charted(t, tip)
          BY <1>4, <4>1, <4>2, MetricsAre
        <4> SUFFICES ASSUME NEW m \in Metrics PROVE MetricAsOf(m, t, n) = TrueMetric(m, t, n)
          BY DEF Charted
        <4>4. TrueMetric(m, t, n) = TrueMetric(m, t, tip)
          BY <1>4, <4>2, SameHoldings
        <4>5. <<m, t, n>> \notin DOMAIN points
          <5> DEFINE k == <<m, t, n>>
          <5>1. k \in DOMAIN points => k[3] \in 1..tip
            BY DEF IndInv, PointsInv
          <5> QED
            BY <4>1, <5>1
        <4>6. PointsUpTo(m, t, n) = PointsUpTo(m, t, tip)
          <5>1. \A j : j \in 1..n <=> j \in 1..tip \/ j = n
            BY <4>1
          <5> QED
            BY <4>5, <5>1 DEF PointsUpTo
        <4> QED
          BY <4>3, <4>4, <4>6 DEF Charted, MetricAsOf
      <3> QED
        BY <1>3, <3>1, <3>2
    <2>2. \A m \in Metrics : \A j \in 1..n : ~new(<<m, t, j>>)
      BY <1>8
    <2> QED
      BY <1>6, <2>1, <2>2
  <1>9. CASE n = seq /\ t \in Touched(batch)
    <2> SUFFICES ASSUME NEW m \in Metrics PROVE MetricAsOf(m, t, n)' = TrueMetric(m, t, n)'
      BY DEF Charted, Metrics
    <2>1. PICK value : value = Aggregate(m, rows', t)
      OBVIOUS
    <2>2. value = TrueMetric(m, t, n)'
      BY <1>1, <1>3, <1>4, <1>9, <2>1, SelectedAfter
    <2> DEFINE k == <<m, t, n>>
               h == PointsUpTo(m, t, n)
    <2>3. new(k) <=> ~IsCurrent(m, t, n, value)
      BY <1>9, <2>1
    <2>4. \A j : j \in PointsUpTo(m, t, n)' <=> j \in h \/ (j = n /\ new(k))
      <3>1. \A j \in 1..n : new(<<m, t, j>>) => j = n
        BY <1>9
      <3>2. n \in 1..n
        BY <1>4
      <3> HIDE DEF new
      <3> QED
        BY <1>3, <3>1, <3>2 DEF PointsUpTo
    <2>5. CASE new(k)
      <3>1. points'[k] = value
        <4> HIDE DEF new
        <4>1. k[1] = m /\ k[2] = t
          OBVIOUS
        <4> QED
          BY <1>3, <2>1, <2>5, <4>1
      <3>2. \A j \in PointsUpTo(m, t, n)' : j \in 1..n /\ j <= n
        BY <1>4 DEF PointsUpTo
      <3>3. n \in PointsUpTo(m, t, n)'
        BY <2>4, <2>5
      <3>4. Max(PointsUpTo(m, t, n)') = n
        <4>1. PICK T : T = PointsUpTo(m, t, n)'
          OBVIOUS
        <4>2. T \subseteq Int /\ n \in T /\ \A j \in T : j <= n
          BY <3>2, <3>3, <4>1
        <4> QED
          BY <4>1, <4>2, MaxIs
      <3> QED
        BY <2>2, <3>1, <3>3, <3>4 DEF MetricAsOf
    <2>6. CASE ~new(k)
      <3>1. h # {} /\ points[<<m, t, Max(h)>>] = value
        BY <2>3, <2>6 DEF IsCurrent
      <3>2. PointsUpTo(m, t, n)' = h
        BY <2>4, <2>6
      <3>3. PICK last : last = Max(h)
        OBVIOUS
      <3>4. <<m, t, last>> \in DOMAIN points
        BY <1>4, <3>1, <3>3, LatestPoint
      <3>5. ~new(<<m, t, last>>)
        BY <1>9, <2>6
      <3>6. points'[<<m, t, last>>] = value
        <4> HIDE DEF new, h
        <4> QED
          BY <1>3, <3>1, <3>3, <3>4, <3>5
      <3> QED
        BY <2>2, <3>1, <3>2, <3>3, <3>6 DEF MetricAsOf
    <2> QED
      BY <2>5, <2>6
  <1> QED
    BY <1>4, <1>7, <1>8, <1>9

LEMMA LiveSparse ==
  ASSUME IndInv, IndInv', Kept, NEW seq \in 1..MaxHead, LiveLedger(seq), MetricsCorrect, SparsePoints
  PROVE  SparsePoints'
  <1> SUFFICES ASSUME Complete', NEW k \in DOMAIN points', NEW j \in DOMAIN points',
                      snapSeq' <= k[3], k[1] = j[1], k[2] = j[2], k[3] < j[3], points'[k] = points'[j],
                      AllSeen(j[2], j[3])'
               PROVE  \E i \in DOMAIN points' : i[1] = k[1] /\ i[2] = k[2] /\ k[3] < i[3] /\ i[3] < j[3]
    BY DEF SparsePoints, Complete, AllSeen
  <1>2. snapSeq # 0
    <2>1. snapSeq' = snapSeq
      BY DEF LiveLedger, LiveAt
    <2> QED
      BY <2>1 DEF Complete
  <1> DEFINE batch == Batch(chain[seq].nodes, seq)
             new(i) == /\ i \in Metrics \X Touched(batch) \X {seq}
                       /\ ~IsCurrent(i[1], i[2], seq, Aggregate(i[1], rows', i[2]))
  <1>3. /\ tip # 0 /\ (seq = tip + 1 \/ seq = tip) /\ tip' = seq /\ seq \in 1..Newest
        /\ UNCHANGED <<chain, skips, snapSeq, fresh>>
        /\ \A i : i \in DOMAIN points' <=> i \in DOMAIN points \/ new(i)
        /\ \A i : new(i) => points'[i] = Aggregate(i[1], rows', i[2])
        /\ \A i \in DOMAIN points : ~new(i) => points'[i] = points[i]
    BY <1>2, LivePoints
  <1>4. /\ Complete /\ Parties' = Parties
        /\ tip \in Nat /\ tip \in 1..Newest /\ snapSeq \in 1..tip /\ snapSeq' = snapSeq /\ Newest \in Nat
    <2>1. Parties' = Parties
      BY DEF Kept, Parties
    <2>2. Complete
      BY <1>3, CompleteKept
    <2>3. low \in Nat /\ low # 0 /\ snapSeq \in low..tip /\ tip \in 1..Newest /\ Newest \in Nat
      BY <2>2, CompleteIs, ChainFacts DEF IndInv
    <2> QED
      BY <1>3, <2>1, <2>2, <2>3
  <1>5. PICK m, t, n, b : m = k[1] /\ t = k[2] /\ b = k[3] /\ n = j[3]
    OBVIOUS
  <1>6. /\ k = <<m, t, b>> /\ j = <<m, t, n>> /\ m \in Metrics /\ b \in 1..seq /\ n \in 1..seq /\ b < n
        /\ t \in Parties
    <2>1. PointsInv' /\ RowsInv'
      BY DEF IndInv
    <2>2. /\ k = <<k[1], k[2], k[3]>> /\ k[1] \in Metrics /\ k[3] \in 1..tip'
          /\ j = <<j[1], j[2], j[3]>> /\ j[3] \in 1..tip'
          /\ \E r \in DOMAIN rows' : r[2] = k[2]
      BY <2>1 DEF PointsInv, Metrics
    <2>3. PICK r \in DOMAIN rows' : r[2] = t
      BY <1>5, <2>2
    <2>4. RowOk(r, rows[r])'
      BY <2>1, <2>3 DEF RowsInv
    <2>5. PICK o : o \in Sources(r[1], r[2])'
      BY <2>4 DEF RowOk
    <2>6. o \in Objects' /\ IsKey(o, r[1], r[2])
      <3>1. o \in Objects /\ o \in Sources(r[1], r[2])
        BY <1>3, <2>5 DEF Sources, Objects
      <3>2. Objects' = Objects
        BY DEF Kept
      <3> QED
        BY <3>1, <3>2, ObjectsAre DEF IndInv, ChainInv
    <2>7. t \in Parties
      BY <1>4, <2>3, <2>6 DEF IsKey, Parties
    <2> QED
      BY <1>3, <1>5, <2>2, <2>7
  <1>7. ~new(k) /\ k \in DOMAIN points /\ points'[k] = points[k]
    <2>1. ~new(k)
      BY <1>3, <1>5, <1>6
    <2> HIDE DEF new
    <2> QED
      BY <1>3, <2>1
  <1>8. CASE ~new(j)
    <2>1. j \in DOMAIN points /\ points[k] = points[j]
      <3> HIDE DEF new
      <3> QED
        BY <1>3, <1>7, <1>8
    <2>2. AllSeen(j[2], j[3])
      <3>1. n \in 1..Newest
        BY <1>3, <1>4, <1>6
      <3>2. AllSeen(t, n)' <=> AllSeen(t, n)
        BY <3>1, TruthKept DEF IndInv
      <3> HIDE DEF new
      <3> QED
        BY <1>5, <3>2
    <2>3. PICK i \in DOMAIN points : i[1] = k[1] /\ i[2] = k[2] /\ k[3] < i[3] /\ i[3] < j[3]
      <3>1. snapSeq <= k[3]
        BY <1>4
      <3>2. \A a \in Involved(j[2]) : Seen(a, j[2], j[3])
        BY <2>2 DEF AllSeen
      <3> HIDE DEF new
      <3> QED
        BY <1>4, <1>7, <2>1, <3>1, <3>2 DEF SparsePoints, Complete
    <2>4. i \in DOMAIN points'
      <3> HIDE DEF new
      <3> QED
        BY <1>3, <2>3
    <2> QED
      BY <2>3, <2>4
  <1>9. CASE new(j)
    <2> DEFINE h == PointsUpTo(m, t, n)
    <2>1. PICK value : value = Aggregate(m, rows', t)
      OBVIOUS
    <2>2. n = seq /\ ~IsCurrent(m, t, n, value) /\ points'[j] = value
      <3>1. n = seq /\ ~IsCurrent(m, t, n, value)
        BY <1>6, <1>9, <2>1
      <3>2. points'[j] = Aggregate(j[1], rows', j[2])
        <4> HIDE DEF new
        <4> QED
          BY <1>3, <1>9
      <3> QED
        BY <1>6, <2>1, <3>1, <3>2
    <2>3. b \in h
      BY <1>6, <1>7 DEF PointsUpTo
    <2>4. PICK last : last = Max(h)
      OBVIOUS
    <2>5. last \in 1..n /\ <<m, t, last>> \in DOMAIN points /\ b <= last
      BY <1>6, <2>3, <2>4, LatestPoint
    <2>6. points[<<m, t, last>>] # value
      BY <2>2, <2>3, <2>4 DEF IsCurrent
    <2>7. last # b
      BY <1>6, <1>7, <2>2, <2>6
    <2>8. last # n
      <3> SUFFICES ASSUME last = n PROVE FALSE
        OBVIOUS
      <3>1. n = tip
        <4> DEFINE i == <<m, t, last>>
        <4>1. i[3] \in 1..tip
          BY <2>5 DEF IndInv, PointsInv
        <4> QED
          BY <1>3, <1>4, <2>2, <4>1
      <3>2. AllSeen(t, tip)
        BY <1>4, <1>5, <1>6, <3>1, TruthKept DEF IndInv
      <3>3. MetricAsOf(m, t, tip) = TrueMetric(m, t, tip)
        BY <1>4, <1>6, <3>2, MetricsAre DEF Charted
      <3>4. MetricAsOf(m, t, tip) = points[<<m, t, last>>]
        BY <2>3, <2>4, <3>1 DEF MetricAsOf
      <3>5. TrueMetric(m, t, tip)' = TrueMetric(m, t, tip)
        <4>1. TrueMetric(m, t, n)' = TrueMetric(m, t, n)
          BY <1>3, <1>6, <2>2, TruthKept DEF IndInv
        <4> QED
          BY <1>3, <2>2, <3>1, <4>1
      <3>6. value = TrueMetric(m, t, tip)'
        BY <1>3, <1>5, <1>6, <2>1, <2>2, SelectedAfter
      <3> QED
        BY <2>6, <3>3, <3>4, <3>5, <3>6
    <2>9. <<m, t, last>> \in DOMAIN points' /\ b < last /\ last < n
      <3>1. b < last /\ last < n
        BY <1>6, <2>5, <2>7, <2>8
      <3> HIDE DEF new
      <3> QED
        BY <1>3, <2>5, <3>1
    <2> DEFINE i == <<m, t, last>>
    <2>10. i[1] = k[1] /\ i[2] = k[2] /\ i[3] = last
      BY <1>5
    <2> QED
      BY <1>5, <2>9, <2>10
  <1> QED
    BY <1>8, <1>9

\* The snapshot's own ledger is the only one there is to look at.
LEMMA SnapshotMetrics ==
  ASSUME IndInv, IndInv', Kept, Snapshot
  PROVE  MetricsCorrect' /\ SparsePoints'
  <1>1. PICK seq, table : seq = (IF tip # 0 THEN tip ELSE Newest) /\ table = OrElse(rows, Walked(seq))
    OBVIOUS
  <1>2. PICK more : more = Recomputed(table, seq)
    OBVIOUS
  <1>3. /\ rows' = table /\ points' = OrElse(more, points) /\ chain' = chain
        /\ snapSeq' = seq /\ tip' = seq
    BY <1>1, <1>2 DEF Snapshot, SnapshotAt
  <1>4. seq \in Nat /\ seq \in 1..Newest /\ Parties' = Parties /\ Newest' = Newest
    <2>1. Parties' = Parties /\ Newest' = Newest
      BY <1>3 DEF Kept, Parties, Newest
    <2>2. Newest \in Nat /\ Newest >= 1 /\ tip \in Nat /\ tip <= Newest
      BY ChainFacts DEF IndInv, OrderInv
    <2> QED
      BY <1>1, <2>1, <2>2
  <1>5. SparsePoints'
    <2> SUFFICES ASSUME NEW k \in DOMAIN points', NEW j \in DOMAIN points', snapSeq' <= k[3], k[3] < j[3]
                 PROVE  FALSE
      BY DEF SparsePoints
    <2>1. PointsInv'
      BY DEF IndInv
    <2>2. k[3] \in 1..tip' /\ j[3] \in 1..tip'
      BY <2>1 DEF PointsInv
    <2> QED
      BY <1>3, <1>4, <2>2
  <1>6. (MetricsCorrect <=>
           (Complete => \A t \in Parties : \A n \in snapSeq..tip : AllSeen(t, n) => Charted(t, n)))'
    BY MetricsAre, PTL
  <1>7. MetricsCorrect'
    <2> SUFFICES ASSUME Complete', NEW t \in Parties', NEW n \in snapSeq'..tip', AllSeen(t, n)',
                        NEW m \in Metrics
                 PROVE  MetricAsOf(m, t, n)' = TrueMetric(m, t, n)'
      BY <1>6 DEF Charted, Metrics
    <2>1. n = seq /\ t \in Parties
      BY <1>3, <1>4
    <2>2. PICK value : value = Aggregate(m, table, t)
      OBVIOUS
    <2>3. value = TrueMetric(m, t, n)'
      BY <1>3, <2>1, <2>2, SelectedAfter
    <2>4. PointsUpTo(m, t, n)' \in SUBSET (1..n)
      BY DEF PointsUpTo
    <2>5. CASE \E r \in DOMAIN table : r[2] = t
      <3> DEFINE k == <<m, t, seq>>
                 K == Metrics \X {r[2] : r \in DOMAIN table} \X {seq}
      <3>1. more = [i \in K |-> Aggregate(i[1], table, i[2])]
        BY <1>2 DEF Recomputed
      <3>2. k \in K /\ k[1] = m /\ k[2] = t
        BY <2>5
      <3> HIDE DEF K, k
      <3>3. k \in DOMAIN more /\ more[k] = value
        BY <2>2, <3>1, <3>2
      <3>4. k \in DOMAIN points' /\ points'[k] = value
        <4> DEFINE all == OrElse(more, points)
        <4>0. DOMAIN all = DOMAIN more \cup DOMAIN points /\ \A x \in DOMAIN more : all[x] = more[x]
          BY OrElseIs
        <4>1. k \in DOMAIN all /\ all[k] = value
          BY <3>3, <4>0
        <4> HIDE DEF all
        <4>2. points' = all
          BY <1>3 DEF all
        <4> QED
          BY <4>1, <4>2
      <3>5. n \in PointsUpTo(m, t, n)'
        BY <1>4, <2>1, <3>4 DEF PointsUpTo, k
      <3>6. Max(PointsUpTo(m, t, n)') = n
        <4>1. PICK T : T = PointsUpTo(m, t, n)'
          OBVIOUS
        <4>2. T \subseteq Int /\ n \in T /\ \A j \in T : j <= n
          BY <1>4, <2>1, <2>4, <3>5, <4>1
        <4> QED
          BY <4>1, <4>2, MaxIs
      <3> QED
        BY <2>1, <2>3, <3>4, <3>5, <3>6 DEF MetricAsOf, k
    <2>6. CASE ~\E r \in DOMAIN table : r[2] = t
      <3>1. PointsUpTo(m, t, n)' = {}
        <4> SUFFICES ASSUME NEW j \in PointsUpTo(m, t, n)' PROVE FALSE
          OBVIOUS
        <4> DEFINE k == <<m, t, j>>
        <4>1. k \in DOMAIN points' /\ k[2] = t
          BY DEF PointsUpTo
        <4>2. PointsInv'
          BY DEF IndInv
        <4>3. \E r \in DOMAIN rows' : r[2] = t
          BY <4>1, <4>2 DEF PointsInv
        <4> QED
          BY <1>3, <2>6, <4>3
      <3>2. \A a : LatestRow(table, a, t) = 0
        <4> SUFFICES ASSUME NEW a PROVE History(table, a, t) = {}
          BY DEF LatestRow
        <4>1. \A j : <<a, t, j>>[2] = t
          OBVIOUS
        <4> QED
          BY <2>6, <4>1 DEF History
      <3>3. value = 0
        <4> DEFINE B == [a \in Parties |-> LatestRow(table, a, t)]
        <4>1. {a \in Parties : B[a] > 0} = {} /\ {a \in Parties : B[a] # 0} = {}
          BY <3>2
        <4>2. Cardinality({}) = 0 /\ SumFunctionOnSet(B, {}) = 0
          <5>1. Total(B, {}) = 0
            BY FS_EmptySet, SumUnfold
          <5> QED
            BY <5>1, FS_EmptySet, SumIs
        <4>3. CASE m = "holders"
          BY <2>2, <4>1, <4>2, <4>3 DEF Aggregate
        <4>4. CASE m = "trustlines"
          BY <2>2, <4>1, <4>2, <4>4 DEF Aggregate
        <4>5. CASE m = "supply"
          BY <2>2, <4>1, <4>2, <4>5 DEF Aggregate
        <4> QED
          BY <4>3, <4>4, <4>5 DEF Metrics
      <3> QED
        BY <2>3, <3>1, <3>3 DEF MetricAsOf
    <2> QED
      BY <2>5, <2>6
  <1> QED
    BY <1>5, <1>7

MetricsInv == MetricsCorrect /\ SparsePoints

LEMMA MetricsStep == IndInv /\ IndInv' /\ MetricsInv /\ [Next]_vars => MetricsInv'
  <1> SUFFICES ASSUME IndInv, IndInv', MetricsInv, [Next]_vars PROVE MetricsInv'
    OBVIOUS
  <1>1. Kept
    BY ChainStep DEF IndInv
  <1>2. ASSUME UNCHANGED <<points, skips, snapSeq, fresh, tip>> PROVE MetricsInv'
    BY <1>1, <1>2, NoNewPoint DEF MetricsInv
  <1>3. ASSUME NEW nodes, NEW post, CloseLedger(nodes, post) PROVE MetricsInv'
    BY <1>2, <1>3 DEF CloseLedger, orderVars
  <1>4. CASE Quiet
    BY <1>3, <1>4 DEF Quiet
  <1>5. ASSUME NEW o, NEW a, OneChange(o, a) PROVE MetricsInv'
    BY <1>3, <1>5 DEF OneChange
  <1>6. ASSUME NEW o, NEW p, NEW a, NEW b, TwoChanges(o, a, p, b) PROVE MetricsInv'
    BY <1>3, <1>6 DEF TwoChanges
  <1>7. CASE Snapshot
    BY <1>1, <1>7, SnapshotMetrics DEF MetricsInv
  <1>8. ASSUME NEW seq \in 1..MaxHead, LiveLedger(seq) PROVE MetricsInv'
    BY <1>1, <1>8, LiveMetrics, LiveSparse DEF MetricsInv
  <1>9. ASSUME NEW seq \in 1..MaxHead, BackfillLedger(seq) PROVE MetricsInv'
    BY <1>2, <1>9 DEF BackfillLedger, BackfillAt
  <1>10. ASSUME NEW seq \in 1..MaxHead, BackfillSkip(seq) PROVE MetricsInv'
    <2>1. skips' # 0
      BY <1>10 DEF BackfillSkip, IndInv, OrderInv
    <2> QED
      BY <2>1 DEF MetricsInv, MetricsCorrect, SparsePoints
  <1>11. CASE UNCHANGED vars
    BY <1>2, <1>11 DEF vars, orderVars
  <1> QED
    BY <1>4, <1>5, <1>6, <1>7, <1>8, <1>9, <1>10, <1>11 DEF Next

LEMMA MetricsHold == Spec => []MetricsInv
  <1>1. Init => MetricsInv
    BY DEF Init, OrderInit, MetricsInv, MetricsCorrect, SparsePoints
  <1> QED
    BY <1>1, MetricsStep, BalanceInvariance, PTL DEF Spec

\* While no ledger was given up, the metric tables give the true holders, trust lines
\* and supply, as of every ledger from the snapshot's on (batch.ts writeMetricPoints,
\* snapshot.ts recomputeAllMetrics, common.ts metricAsOf).
THEOREM MetricsAreCorrect == Spec => []MetricsCorrect
  BY MetricsHold, PTL DEF MetricsInv

\* From the snapshot's ledger on, points that follow each other in a series differ
\* (metrics.ts, batch.ts appendMetricPoint).
THEOREM PointsAreSparse == Spec => []SparsePoints
  BY MetricsHold, PTL DEF MetricsInv

-----------------------------------------------------------------------------
(* Types. *)

LEMMA AggregateIsNat ==
  ASSUME Objects \in Worlds, Newest \in Nat, NEW table, \A k \in DOMAIN table : table[k] \in Int,
         NEW m \in Metrics, NEW t
  PROVE  Aggregate(m, table, t) \in Nat
  <1> DEFINE B == [a \in Parties |-> LatestRow(table, a, t)]
             N == {a \in Parties : B[a] > 0}
             L == {a \in Parties : B[a] # 0}
  <1>1. \A a \in Parties : B[a] \in Int
    <2> SUFFICES ASSUME NEW a \in Parties PROVE LatestRow(table, a, t) \in Int
      OBVIOUS
    <2> DEFINE h == History(table, a, t)
    <2>1. h \in SUBSET Nat /\ \A j \in h : j <= Newest /\ <<a, t, j>> \in DOMAIN table
      BY DEF History
    <2>2. h # {} => Max(h) \in h
      <3> HIDE DEF h
      <3> QED
        BY <2>1, GreatestNat
    <2>3. h # {} => table[<<a, t, Max(h)>>] \in Int
      BY <2>1, <2>2
    <2> QED
      BY <2>3 DEF LatestRow
  <1>2. IsFiniteSet(N) /\ IsFiniteSet(L)
    BY PartiesFinite, FS_Subset
  <1>3. Cardinality(N) \in Nat /\ Cardinality(L) \in Nat
    BY <1>2, FS_CardinalityType
  <1>4. SumFunctionOnSet(B, N) \in Nat
    <2>1. \A a \in N : B[a] \in Int /\ B[a] >= 0
      BY <1>1
    <2> HIDE DEF B, N
    <2> QED
      BY <1>2, <2>1, SumInt, SumIs
  <1>5. CASE m = "holders"
    BY <1>3, <1>5 DEF Aggregate
  <1>6. CASE m = "trustlines"
    BY <1>3, <1>6 DEF Aggregate
  <1>7. CASE m = "supply"
    BY <1>4, <1>7 DEF Aggregate
  <1> QED
    BY <1>5, <1>6, <1>7 DEF Metrics

\* What the points and the count of ledgers given up need besides IndInv.
CountsInv == (\A k \in DOMAIN points : points[k] \in Nat) /\ skips \in 0..MaxSkips

LEMMA CountsStep == IndInv /\ IndInv' /\ CountsInv /\ [Next]_vars => CountsInv'
  <1> SUFFICES ASSUME IndInv, IndInv', CountsInv, [Next]_vars PROVE CountsInv'
    OBVIOUS
  <1>1. ASSUME UNCHANGED <<points, skips>> PROVE CountsInv'
    BY <1>1 DEF CountsInv
  <1>2. ASSUME NEW nodes, NEW post, CloseLedger(nodes, post) PROVE CountsInv'
    BY <1>1, <1>2 DEF CloseLedger
  <1>3. \A m \in Metrics : \A t : Aggregate(m, rows', t) \in Nat
    <2>1. \A k \in DOMAIN rows' : rows'[k] \in Int
      BY DEF IndInv, RowsInv, RowOk
    <2>2. Newest \in Nat /\ Objects \in Worlds
      BY ChainFacts DEF IndInv, ChainInv
    <2>3. PICK table : table = rows'
      OBVIOUS
    <2>4. \A m \in Metrics : \A t : Aggregate(m, table, t) \in Nat
      BY <2>1, <2>2, <2>3, AggregateIsNat
    <2> QED
      BY <2>3, <2>4
  <1>4. ASSUME NEW more, points' = OrElse(more, points), skips' = skips, \A k \in DOMAIN more : more[k] \in Nat
        PROVE  CountsInv'
    <2>1. PICK old : old = points
      OBVIOUS
    <2> DEFINE all == OrElse(more, old)
    <2>2. \A k \in DOMAIN all : all[k] \in Nat
      <3>1. \A k \in DOMAIN old : old[k] \in Nat
        BY <2>1 DEF CountsInv
      <3>2. /\ DOMAIN all = DOMAIN more \cup DOMAIN old
            /\ \A k \in DOMAIN more : all[k] = more[k]
            /\ \A k \in DOMAIN old : k \notin DOMAIN more => all[k] = old[k]
        BY OrElseIs
      <3> HIDE DEF all
      <3> QED
        BY <1>4, <3>1, <3>2
    <2>3. points' = all
      BY <1>4, <2>1
    <2> HIDE DEF all
    <2> QED
      BY <1>4, <2>2, <2>3 DEF CountsInv
  <1>5. CASE Snapshot
    <2>1. PICK seq, table : /\ rows' = table /\ points' = OrElse(Recomputed(table, seq), points)
                            /\ skips' = skips
      BY <1>5 DEF Snapshot
    <2> DEFINE more == Recomputed(table, seq)
    <2>2. \A k \in DOMAIN more : k[1] \in Metrics /\ more[k] = Aggregate(k[1], table, k[2])
      BY DEF Recomputed
    <2>3. \A k \in DOMAIN more : more[k] \in Nat
      <3> HIDE DEF more
      <3> QED
        BY <1>3, <2>1, <2>2
    <2> QED
      BY <1>4, <2>1, <2>3
  <1>6. ASSUME NEW seq \in 1..MaxHead, LiveLedger(seq) PROVE CountsInv'
    <2>1. PICK table, batch : /\ rows' = table /\ skips' = skips
                              /\ points' = OrElse(MetricPoints(table, Touched(batch), seq), points)
      BY <1>6 DEF LiveLedger, Apply
    <2> DEFINE K == Metrics \X Touched(batch) \X {seq}
               v == [k \in K |-> Aggregate(k[1], table, k[2])]
               kept == {k \in DOMAIN v : ~IsCurrent(k[1], k[2], seq, v[k])}
               more == Restrict(v, kept)
    <2>2. kept \subseteq K /\ \A k \in K : k[1] \in Metrics /\ v[k] = Aggregate(k[1], table, k[2])
      OBVIOUS
    <2>3. points' = OrElse(more, points)
      BY <2>1 DEF MetricPoints
    <2>4. DOMAIN more = kept /\ \A k \in kept : more[k] = v[k]
      <3> HIDE DEF kept, v
      <3> QED
        BY DEF Restrict
    <2> HIDE DEF kept, v, more, K
    <2>5. \A k \in DOMAIN more : more[k] \in Nat
      BY <1>3, <2>1, <2>2, <2>4
    <2> QED
      BY <1>4, <2>1, <2>3, <2>5
  <1>7. ASSUME NEW seq, BackfillLedger(seq) PROVE CountsInv'
    BY <1>1, <1>7 DEF BackfillLedger
  <1>8. ASSUME NEW seq, BackfillSkip(seq) PROVE CountsInv'
    BY <1>8, BoundsAssumption DEF BackfillSkip, CountsInv
  <1>9. CASE UNCHANGED vars
    BY <1>1, <1>9 DEF vars
  <1>10. CASE Quiet
    BY <1>2, <1>10 DEF Quiet
  <1>11. ASSUME NEW o, NEW a, OneChange(o, a) PROVE CountsInv'
    BY <1>2, <1>11 DEF OneChange
  <1>12. ASSUME NEW o, NEW p, NEW a, NEW b, TwoChanges(o, a, p, b) PROVE CountsInv'
    BY <1>2, <1>12 DEF TwoChanges
  <1> QED
    BY <1>5, <1>6, <1>7, <1>8, <1>9, <1>10, <1>11, <1>12 DEF Next

LEMMA TypesAre == IndInv /\ CountsInv => TypeOK
  <1> SUFFICES ASSUME IndInv, CountsInv PROVE TypeOK
    OBVIOUS
  <1>1. /\ Newest \in Nat /\ DOMAIN chain = 1..Newest
        /\ \A n \in 1..Newest : \A o \in Objects : chain[n].post[o] \in States(o)
    BY ChainFacts DEF IndInv
  <1>2. ASSUME NEW n \in 1..Newest, NEW x \in Range(chain[n].nodes)
        PROVE  x.of \in Objects /\ {x.from, x.to} \subseteq States(x.of)
    <2>1. PICK i \in DOMAIN chain[n].nodes : x = chain[n].nodes[i]
      BY DEF Range
    <2>2. PICK o \in Objects : \E from, to \in States(o) :
            chain[n].nodes[i] = Node(o, from, to) /\ MayBecome(o, from, to)
      BY NodesAre DEF IndInv
    <2> QED
      BY <2>1, <2>2 DEF Node
  <1>3. ASSUME NEW k \in DOMAIN rows
        PROVE  k \in Parties \X Parties \X (1..Newest) /\ rows[k] \in Int
    <2>1. RowOk(k, rows[k])
      BY DEF IndInv, RowsInv
    <2>2. PICK o : o \in Sources(k[1], k[2])
      BY <2>1 DEF RowOk
    <2>3. o \in Objects /\ IsKey(o, k[1], k[2])
      BY <2>2, ObjectsAre DEF IndInv, ChainInv, Sources
    <2>4. k[1] \in Parties /\ k[2] \in Parties
      BY <2>3 DEF IsKey, Parties
    <2> QED
      BY <2>1, <2>4 DEF RowOk
  <1>4. ASSUME NEW k \in DOMAIN points PROVE k \in Metrics \X Parties \X (1..Newest)
    <2>1. k = <<k[1], k[2], k[3]>> /\ k[1] \in Metrics /\ k[3] \in 1..tip /\ \E r \in DOMAIN rows : r[2] = k[2]
      BY DEF IndInv, PointsInv
    <2>2. PICK r \in DOMAIN rows : r[2] = k[2]
      BY <2>1
    <2>3. r[2] \in Parties
      BY <1>3
    <2>4. k[3] \in 1..Newest
      BY <1>1, <2>1 DEF IndInv, OrderInv
    <2> QED
      BY <2>1, <2>2, <2>3, <2>4
  <1> QED
    BY <1>1, <1>2, <1>3, <1>4 DEF TypeOK, IndInv, OrderInv, CountsInv

\* Every table has the keys and values its columns allow.
THEOREM BalanceTypes == Spec => []TypeOK
  <1>1. Init => CountsInv
    BY BoundsAssumption DEF Init, CountsInv
  <1> QED
    BY <1>1, CountsStep, TypesAre, BalanceInvariance, PTL DEF Spec
=============================================================================
