------------------------- MODULE AccountRootProofs -------------------------
(***************************************************************************)
(* What handleAccountRoot writes, for every value of the constants.  Of    *)
(* an account, AccountState: the row of an account that was seen is that   *)
(* of the top ledger, but for what a removal leaves.  Of a pool's reserve, *)
(* PoolReserves: a row is the balance at the end of its ledger and stays.  *)
(***************************************************************************)
EXTENDS AccountState, PoolReserves, FiniteSetTheorems, WellFoundedInduction, TLAPS

\* A set of naturals has a least element: induction, as the proofs below use it.
LEMMA LeastNat ==
  ASSUME NEW T \in SUBSET Nat, T # {}
  PROVE  \E x \in T : \A y \in T : x <= y
  <1> DEFINE R == {ss \in Nat \X Nat : ss[1] < ss[2]}
  <1>0. OpToRel(<, Nat) = R
    BY Zenon DEF OpToRel
  <1>1. \E x \in T : \A y \in T : ~(<<y, x>> \in R)
    <2>1. IsWellFoundedOn(R, Nat)
      BY <1>0, NatLessThanWellFounded, Zenon
    <2> HIDE DEF R
    <2> QED
      BY <2>1, WFMin, Zenon
  <1>2. PICK x \in T : \A y \in T : ~(<<y, x>> \in R)
    BY <1>1
  <1>3. ASSUME NEW y \in T PROVE x <= y
    <2>1. <<y, x>> \in Nat \X Nat /\ <<y, x>> \notin R
      BY <1>2
    <2> QED
      BY <2>1
  <1> QED
    BY <1>3

States  == Roots \cup {Null}
Default == [disabled |-> FALSE, key |-> FALSE, domain |-> Null]
NoRow   == [flags |-> FALSE, blackholed |-> FALSE, domain |-> Null]
RowType == [flags : BOOLEAN, blackholed : BOOLEAN, domain : Domains \cup {Null}]

IsSeq(q) == Len(q) \in Nat /\ q = [i \in 1..Len(q) |-> q[i]]

\* A ledger: nodes of changes of the account, the last one to what it is in the end;
\* if none deletes it, the last one modifies it, or is the only one and creates it.
IsNode(x, t) == \E s \in States : t \in Successors(s) /\ x = NodeOf(s, t)
Deletes(l)   == \E i \in 1..Len(l.nodes) : l.nodes[i].change = "deleted"
EndsModified(l) == Len(l.nodes) # 0 /\ l.nodes[Len(l.nodes)].change = "modified"

LedgerOk(pre, l) ==
  /\ IsSeq(l.nodes) /\ l.post \in States
  /\ \A i \in 1..Len(l.nodes) : \E t \in States : IsNode(l.nodes[i], t)
  /\ IF Len(l.nodes) = 0 THEN l.post = pre ELSE IsNode(l.nodes[Len(l.nodes)], l.post)
  /\ \/ Deletes(l) \/ Len(l.nodes) = 0 \/ EndsModified(l)
     \/ Len(l.nodes) = 1 /\ l.nodes[1].change = "created" /\ pre = Null

ChainInv ==
  /\ IsSeq(chain) /\ Newest # 0
  /\ Len(chain[1].nodes) = 0 /\ LedgerOk(chain[1].post, chain[1])
  /\ \A k \in 2..Newest : LedgerOk(chain[k - 1].post, chain[k])

OrderInv ==
  /\ low \in 0..tip /\ tip \in 0..Newest /\ snapSeq \in 0..tip /\ fresh \in BOOLEAN /\ waived = {}
  /\ low = 0 <=> tip = 0
  /\ snapSeq = 0 => ~fresh

\* A row of an account that does not exist, or was not seen, has its defaults.
DefaultInv == ~backfilled /\ ~Reborn /\ (tip = 0 \/ Current = Null \/ ~Seen) => row = NoRow

IndInv == ChainInv /\ OrderInv /\ row \in RowType /\ backfilled \in BOOLEAN /\ DefaultInv /\ RowCurrent

-----------------------------------------------------------------------------
(* Sequences, nodes and patches. *)

LEMMA AppendIs ==
  ASSUME NEW q, IsSeq(q), NEW x
  PROVE  /\ IsSeq(Append(q, x)) /\ Len(Append(q, x)) = Len(q) + 1
         /\ \A i \in 1..Len(q) : Append(q, x)[i] = q[i]
         /\ Append(q, x)[Len(q) + 1] = x
  <1> DEFINE T == {q[i] : i \in 1..Len(q)} \cup {x}
  <1>1. Len(q) \in Nat /\ \A i \in 1..Len(q) : q[i] \in T
    BY DEF IsSeq
  <1>2. x \in T
    OBVIOUS
  <1> HIDE DEF T
  <1>3. q \in Seq(T)
    BY <1>1 DEF IsSeq
  <1> DEFINE r == Append(q, x)
  <1>4. /\ r \in Seq(T) /\ Len(r) = Len(q) + 1 /\ \A i \in 1..Len(q) : r[i] = q[i]
        /\ r[Len(q) + 1] = x
    BY <1>1, <1>2, <1>3
  <1> HIDE DEF r
  <1>5. Len(r) \in Nat /\ r = [i \in 1..Len(r) |-> r[i]]
    BY <1>4
  <1> QED
    BY <1>4, <1>5 DEF IsSeq, r

\* What a node of a change from s to t says: which of the three it is, what the
\* handler takes for the fields of the account, and what it leaves out.
LEMMA NodeSays ==
  ASSUME NEW s \in States, NEW t \in Successors(s)
  PROVE  LET x == NodeOf(s, t)
             f == Final(x)
         IN /\ t \in States
            /\ x.change = "created" => s = Null /\ t = Default /\ f = NoFields
            /\ x.change = "deleted" => t = Null
            /\ x.change \in {"created", "deleted", "modified"}
            /\ DOMAIN f \subseteq {"Flags", "RegularKey", "Domain"}
            /\ "Flags" \in DOMAIN f => f["Flags"] \in BOOLEAN
            /\ "Domain" \in DOMAIN f => f["Domain"] \in Domains
            /\ x.change = "modified" =>
                 /\ t \in Roots /\ "Flags" \in DOMAIN f /\ f["Flags"] = t.disabled
                 /\ t.domain # Null => "Domain" \in DOMAIN f /\ f["Domain"] = t.domain
                 /\ t.key => "RegularKey" \in DOMAIN f
                 /\ "RegularKey" \in DOMAIN f =>
                      t.key \/ ("RegularKey" \in DOMAIN x.prev /\ "RegularKey" \notin DOMAIN x.final)
  <1> DEFINE x == NodeOf(s, t)
             f == Final(x)
  <1>0. Null \notin Roots /\ Null \notin Domains
    BY AccountAssumption
  <1>1. CASE s = Null
    <2>1. t = Default /\ Default \in Roots
      BY <1>1, <1>0 DEF Successors, Default, Roots
    <2>2. x = [change |-> "created", prev |-> NoFields, final |-> NoFields]
      BY <1>1 DEF NodeOf
    <2>3. f = NoFields /\ DOMAIN f = {}
      BY <2>2 DEF Final, NoFields
    <2> QED
      BY <1>1, <2>1, <2>2, <2>3 DEF States
  <1>2. ASSUME NEW r \in Roots
        PROVE  /\ DOMAIN Fields(r) \subseteq {"Flags", "RegularKey", "Domain"}
               /\ "Flags" \in DOMAIN Fields(r) /\ Fields(r)["Flags"] = r.disabled /\ r.disabled \in BOOLEAN
               /\ "RegularKey" \in DOMAIN Fields(r) <=> r.key
               /\ "Domain" \in DOMAIN Fields(r) <=> r.domain # Null
               /\ r.domain # Null => Fields(r)["Domain"] = r.domain /\ r.domain \in Domains
    BY DEF Roots, Fields
  <1>3. CASE s # Null
    <2>1. s \in Roots /\ t \in Roots \cup {Null}
      BY <1>3 DEF States, Successors
    <2>2. CASE t = Null
      <3>1. x = [change |-> "deleted", prev |-> NoFields, final |-> Fields(s)]
        BY <1>3, <2>2 DEF NodeOf
      <3>2. f = Fields(s)
        BY <3>1 DEF Final
      <3> QED
        BY <1>2, <2>1, <2>2, <3>1, <3>2 DEF States
    <2>3. CASE t # Null
      <3> DEFINE p == Previous(s, t)
      <3>0. t \in Roots
        BY <2>1, <2>3
      <3>1. x = [change |-> "modified", prev |-> p, final |-> Fields(t)]
        BY <1>3, <2>3 DEF NodeOf
      <3>2. f = OrElse(Fields(t), p)
        BY <3>1 DEF Final
      <3>3. DOMAIN p \subseteq DOMAIN Fields(s) /\ \A c \in DOMAIN p : p[c] = Fields(s)[c]
        BY DEF Previous
      <3>4. /\ DOMAIN f = DOMAIN Fields(t) \cup DOMAIN p
            /\ \A c \in DOMAIN f : f[c] = IF c \in DOMAIN Fields(t) THEN Fields(t)[c] ELSE p[c]
        BY <3>2 DEF OrElse
      <3>5. x.change = "modified" /\ x.prev = p /\ x.final = Fields(t)
        BY <3>1
      <3> HIDE DEF x, f, p
      <3>6. /\ DOMAIN f \subseteq {"Flags", "RegularKey", "Domain"}
            /\ "Flags" \in DOMAIN f /\ f["Flags"] = t.disabled /\ f["Flags"] \in BOOLEAN
        BY <1>2, <2>1, <3>0, <3>3, <3>4
      <3>7. /\ "Domain" \in DOMAIN f => f["Domain"] \in Domains
            /\ t.domain # Null => "Domain" \in DOMAIN f /\ f["Domain"] = t.domain
        BY <1>2, <2>1, <3>0, <3>3, <3>4
      <3>8. /\ t.key => "RegularKey" \in DOMAIN f
            /\ "RegularKey" \in DOMAIN f => t.key \/ ("RegularKey" \in DOMAIN p /\ "RegularKey" \notin DOMAIN Fields(t))
        BY <1>2, <3>0, <3>4
      <3>9. t \in States
        BY <3>0 DEF States
      <3> QED
        BY <3>0, <3>5, <3>6, <3>7, <3>8, <3>9 DEF x, f
    <2> QED
      BY <2>2, <2>3
  <1> QED
    BY <1>1, <1>3

\* What a patch may hold, and a row.
PatchOk(p) ==
  /\ DOMAIN p \subseteq {"flags", "blackholed", "domain"}
  /\ "flags" \in DOMAIN p => p["flags"] \in BOOLEAN
  /\ "blackholed" \in DOMAIN p => p["blackholed"] \in BOOLEAN
  /\ "domain" \in DOMAIN p => p["domain"] \in Domains \cup {Null}

LEMMA PatchIs ==
  ASSUME NEW f
  PROVE  /\ "flags" \in DOMAIN Patch(f) <=> "Flags" \in DOMAIN f
         /\ "blackholed" \in DOMAIN Patch(f) <=> "Flags" \in DOMAIN f
         /\ "domain" \in DOMAIN Patch(f) <=> "Domain" \in DOMAIN f
         /\ DOMAIN Patch(f) \subseteq {"flags", "blackholed", "domain"}
         /\ "Flags" \in DOMAIN f =>
              /\ Patch(f)["flags"] = f["Flags"]
              /\ Patch(f)["blackholed"] = (f["Flags"] /\ "RegularKey" \notin DOMAIN f)
         /\ "Domain" \in DOMAIN f => Patch(f)["domain"] = f["Domain"]
  BY DEF Patch, Columns

LEMMA RowIs ==
  ASSUME NEW r
  PROVE  r \in RowType <=> /\ r = [c \in DOMAIN r |-> r[c]]
                           /\ DOMAIN r = {"flags", "blackholed", "domain"} /\ PatchOk(r)
  <1>1. ASSUME r \in RowType
        PROVE  r = [c \in DOMAIN r |-> r[c]] /\ DOMAIN r = {"flags", "blackholed", "domain"} /\ PatchOk(r)
    BY <1>1 DEF RowType, PatchOk
  <1>2. ASSUME r = [c \in DOMAIN r |-> r[c]], DOMAIN r = {"flags", "blackholed", "domain"}, PatchOk(r)
        PROVE  r \in RowType
    <2>1. r = [flags |-> r["flags"], blackholed |-> r["blackholed"], domain |-> r["domain"]]
      BY <1>2
    <2>2. r["flags"] \in BOOLEAN /\ r["blackholed"] \in BOOLEAN /\ r["domain"] \in Domains \cup {Null}
      BY <1>2 DEF PatchOk
    <2> QED
      BY <2>1, <2>2 DEF RowType
  <1> QED
    BY <1>1, <1>2

\* A patch over a row is a row.
LEMMA PatchedRow ==
  ASSUME NEW p, PatchOk(p), NEW r \in RowType
  PROVE  /\ OrElse(p, r) \in RowType
         /\ DOMAIN p = {} => OrElse(p, r) = r
  <1>1. r = [c \in DOMAIN r |-> r[c]] /\ DOMAIN r = {"flags", "blackholed", "domain"} /\ PatchOk(r)
    BY RowIs
  <1> DEFINE q == OrElse(p, r)
  <1>2. /\ DOMAIN q = DOMAIN p \cup DOMAIN r /\ q = [c \in DOMAIN q |-> q[c]]
        /\ \A c \in DOMAIN p : q[c] = p[c]
        /\ \A c \in DOMAIN r \ DOMAIN p : q[c] = r[c]
    BY DEF OrElse
  <1> HIDE DEF q
  <1>3. DOMAIN q = {"flags", "blackholed", "domain"}
    BY <1>1, <1>2 DEF PatchOk
  <1>4. PatchOk(q)
    <2>1. ASSUME NEW c \in DOMAIN q PROVE q[c] = IF c \in DOMAIN p THEN p[c] ELSE r[c]
      BY <1>2, <2>1
    <2> QED
      BY <1>1, <1>3, <2>1 DEF PatchOk
  <1>5. q \in RowType
    BY <1>2, <1>3, <1>4, RowIs
  <1>6. ASSUME DOMAIN p = {} PROVE q = r
    <2>1. DOMAIN q = DOMAIN r /\ \A c \in DOMAIN r : q[c] = r[c]
      BY <1>2, <1>6
    <2> QED
      BY <1>1, <1>2, <2>1
  <1> QED
    BY <1>5, <1>6 DEF q

\* The patches of a ledger, node by node.
PatchTo(nodes, n, f) ==
  [i \in 0..n |-> IF i = 0 THEN NoFields ELSE OrElse(Patch(Final(nodes[i])), f[i - 1])]

LEMMA PatchesExist ==
  ASSUME NEW nodes, NEW n \in Nat
  PROVE  \E f : f = PatchTo(nodes, n, f)
  <1> DEFINE bad == {m \in Nat : ~\E f : f = PatchTo(nodes, m, f)}
  <1>1. ASSUME NEW m \in bad, \A y \in bad : m <= y PROVE FALSE
    <2>1. CASE m = 0
      <3> DEFINE f == [i \in 0..0 |-> NoFields]
      <3>1. f = PatchTo(nodes, 0, f)
        BY DEF PatchTo
      <3> QED
        BY <2>1, <3>1
    <2>2. CASE m # 0
      <3>1. m - 1 \in Nat /\ m - 1 \notin bad
        BY <1>1, <2>2
      <3>2. PICK g : g = PatchTo(nodes, m - 1, g)
        BY <3>1
      <3>3. \A i \in 0..(m - 1) : g[i] = IF i = 0 THEN NoFields ELSE OrElse(Patch(Final(nodes[i])), g[i - 1])
        BY <3>2 DEF PatchTo
      <3> DEFINE f == [i \in 0..m |-> IF i < m THEN g[i] ELSE OrElse(Patch(Final(nodes[m])), g[m - 1])]
      <3>4. \A i \in 0..m : f[i] = IF i = 0 THEN NoFields ELSE OrElse(Patch(Final(nodes[i])), f[i - 1])
        BY <2>2, <3>1, <3>3
      <3>5. f = [i \in 0..m |-> f[i]]
        OBVIOUS
      <3> HIDE DEF f
      <3>6. f = PatchTo(nodes, m, f)
        BY <3>4, <3>5 DEF PatchTo
      <3> QED
        BY <3>6
    <2> QED
      BY <2>1, <2>2
  <1>2. bad = {}
    <2> HIDE DEF bad
    <2>1. bad \in SUBSET Nat
      BY DEF bad
    <2> QED
      BY <1>1, <2>1, LeastNat
  <1> QED
    BY <1>2

\* What the nodes of one ledger do to the row: nothing if there are none or one that
\* creates the account; if the last one modifies it, what that one says.
LEMMA AppliedIs ==
  ASSUME NEW pre, NEW l, LedgerOk(pre, l), row \in RowType
  PROVE  LET new == Applied(l.nodes)
             t   == l.post
             x   == l.nodes[Len(l.nodes)]
         IN /\ new \in RowType
            /\ Len(l.nodes) = 0 \/ (Len(l.nodes) = 1 /\ l.nodes[1].change = "created") => new = row
            /\ EndsModified(l) =>
                 /\ t \in Roots /\ new.flags = t.disabled
                 /\ new.domain = t.domain \/ t.domain = Null
                 /\ new.blackholed => t.disabled /\ ~t.key
                 /\ t.disabled /\ ~t.key /\ ~new.blackholed =>
                      "RegularKey" \in DOMAIN x.prev /\ "RegularKey" \notin DOMAIN x.final
  <1> DEFINE nodes == l.nodes
             n == Len(nodes)
             new == Applied(nodes)
             t == l.post
             x == nodes[n]
  <1>1. n \in Nat
    BY DEF LedgerOk, IsSeq
  <1>2. PICK p : p = PatchTo(nodes, n, p) /\ new = OrElse(p[n], row)
    <2>1. \E f : f = PatchTo(nodes, n, f)
      BY <1>1, PatchesExist
    <2>2. new = OrElse((CHOOSE f : f = PatchTo(nodes, n, f))[n], row)
      BY DEF Applied, PatchTo
    <2> QED
      BY <2>1, <2>2
  <1>3. /\ p[0] = NoFields
        /\ \A i \in 1..n : p[i] = OrElse(Patch(Final(nodes[i])), p[i - 1])
    <2>1. p = PatchTo(nodes, n, p)
      BY <1>2
    <2> HIDE DEF nodes, n
    <2>2. \A i \in 0..n : p[i] = IF i = 0 THEN NoFields ELSE OrElse(Patch(Final(nodes[i])), p[i - 1])
      BY <2>1 DEF PatchTo
    <2> QED
      BY <1>1, <2>2
  <1>4. ASSUME NEW i \in 1..n
        PROVE  PatchOk(Patch(Final(nodes[i])))
    <2>1. PICK u \in States, s \in States : u \in Successors(s) /\ nodes[i] = NodeOf(s, u)
      BY DEF LedgerOk, IsNode
    <2> DEFINE f == Final(nodes[i])
    <2>2. /\ "Flags" \in DOMAIN f => f["Flags"] \in BOOLEAN
          /\ "Domain" \in DOMAIN f => f["Domain"] \in Domains
      BY <2>1, NodeSays
    <2> HIDE DEF f
    <2> QED
      BY <2>2, PatchIs DEF PatchOk, f
  <1>5. \A i \in 0..n : PatchOk(p[i])
    <2> DEFINE bad == {i \in 0..n : ~PatchOk(p[i])}
    <2>1. ASSUME NEW m \in bad, \A y \in bad : m <= y PROVE FALSE
      <3>1. PatchOk(NoFields)
        BY DEF PatchOk, NoFields
      <3>2. m # 0
        BY <1>3, <2>1, <3>1
      <3>3. m \in 1..n /\ m - 1 \in 0..n /\ m - 1 \notin bad
        BY <1>1, <2>1, <3>2
      <3>4. PatchOk(p[m - 1]) /\ PatchOk(Patch(Final(nodes[m])))
        BY <1>4, <3>3
      <3> DEFINE q == Patch(Final(nodes[m]))
                 r == p[m - 1]
      <3>5. /\ DOMAIN p[m] = DOMAIN q \cup DOMAIN r
            /\ \A c \in DOMAIN q : p[m][c] = q[c]
            /\ \A c \in DOMAIN r \ DOMAIN q : p[m][c] = r[c]
        BY <1>3, <3>3 DEF OrElse
      <3> HIDE DEF q, r
      <3>6. PatchOk(p[m])
        BY <3>4, <3>5 DEF PatchOk, q, r
      <3> QED
        BY <2>1, <3>6
    <2>2. bad = {}
      <3> HIDE DEF bad
      <3>1. bad \in SUBSET Nat
        BY DEF bad
      <3> QED
        BY <2>1, <3>1, LeastNat
    <2> QED
      BY <2>2
  <1>6. new \in RowType
    BY <1>1, <1>2, <1>5, PatchedRow
  <1>7. ASSUME n = 0 \/ (n = 1 /\ nodes[1].change = "created") PROVE new = row
    <2>1. DOMAIN p[n] = {}
      <3>1. CASE n = 0
        BY <1>3, <3>1 DEF NoFields
      <3>2. CASE n = 1
        <4>1. PICK u \in States, s \in States : u \in Successors(s) /\ nodes[1] = NodeOf(s, u)
          BY <3>2 DEF LedgerOk, IsNode
        <4>2. Final(nodes[1]) = NoFields
          BY <1>7, <3>2, <4>1, NodeSays
        <4>3. DOMAIN Patch(NoFields) = {}
          BY PatchIs DEF NoFields, Patch, Columns
        <4>4. DOMAIN p[1] = DOMAIN Patch(NoFields) \cup DOMAIN p[0]
          BY <1>3, <3>2, <4>2 DEF OrElse
        <4>5. DOMAIN p[0] = {}
          BY <1>3 DEF NoFields
        <4> QED
          BY <3>2, <4>3, <4>4, <4>5
      <3> QED
        BY <1>7, <3>1, <3>2
    <2>2. PatchOk(p[n])
      BY <1>1, <1>5
    <2> QED
      BY <1>2, <2>1, <2>2, PatchedRow
  <1>8. ASSUME EndsModified(l)
        PROVE  /\ t \in Roots /\ new.flags = t.disabled
               /\ new.domain = t.domain \/ t.domain = Null
               /\ new.blackholed => t.disabled /\ ~t.key
               /\ t.disabled /\ ~t.key /\ ~new.blackholed =>
                    "RegularKey" \in DOMAIN x.prev /\ "RegularKey" \notin DOMAIN x.final
    <2>1. n # 0 /\ x.change = "modified" /\ n \in 1..n
      BY <1>1, <1>8 DEF EndsModified
    <2>2. PICK s \in States : t \in Successors(s) /\ x = NodeOf(s, t)
      BY <2>1 DEF LedgerOk, IsNode
    <2> DEFINE f == Final(x)
    <2>3. /\ t \in Roots /\ "Flags" \in DOMAIN f /\ f["Flags"] = t.disabled
          /\ t.domain # Null => "Domain" \in DOMAIN f /\ f["Domain"] = t.domain
          /\ t.key => "RegularKey" \in DOMAIN f
          /\ "RegularKey" \in DOMAIN f =>
               t.key \/ ("RegularKey" \in DOMAIN x.prev /\ "RegularKey" \notin DOMAIN x.final)
      BY <2>1, <2>2, NodeSays
    <2> HIDE DEF f, x
    <2> DEFINE q == Patch(f)
    <2>4. /\ "flags" \in DOMAIN q /\ q["flags"] = t.disabled
          /\ "blackholed" \in DOMAIN q /\ q["blackholed"] = (t.disabled /\ "RegularKey" \notin DOMAIN f)
          /\ t.domain # Null => "domain" \in DOMAIN q /\ q["domain"] = t.domain
      BY <2>3, PatchIs
    <2> HIDE DEF q
    <2>5. DOMAIN p[n] = DOMAIN q \cup DOMAIN p[n - 1] /\ \A c \in DOMAIN q : p[n][c] = q[c]
      BY <1>3, <2>1 DEF OrElse, q, f, x
    <2>6. \A c \in DOMAIN q : new[c] = q[c]
      <3>1. \A c \in DOMAIN p[n] : new[c] = p[n][c]
        BY <1>2 DEF OrElse
      <3> QED
        BY <2>5, <3>1
    <2>7. new.flags = t.disabled /\ new.blackholed = (t.disabled /\ "RegularKey" \notin DOMAIN f)
      BY <2>4, <2>6
    <2>8. new.domain = t.domain \/ t.domain = Null
      BY <2>4, <2>6
    <2> QED
      BY <2>3, <2>7, <2>8
  <1> QED
    BY <1>6, <1>7, <1>8

-----------------------------------------------------------------------------
(* The ledgers the network closes. *)

None(pre) == {[nodes |-> <<>>, post |-> pre]}
Longer(F) ==
  F \cup UNION {{[nodes |-> Append(r.nodes, NodeOf(r.post, t)), post |-> t] : t \in Successors(r.post)} : r \in F}
RunTo(pre, n, f) == [k \in 0..n |-> IF k = 0 THEN None(pre) ELSE Longer(f[k - 1])]

LEMMA RunExists ==
  ASSUME NEW pre, NEW n \in Nat
  PROVE  \E f : f = RunTo(pre, n, f)
  <1> DEFINE bad == {m \in Nat : ~\E f : f = RunTo(pre, m, f)}
  <1>1. ASSUME NEW m \in bad, \A y \in bad : m <= y PROVE FALSE
    <2>1. CASE m = 0
      <3> DEFINE f == [i \in 0..0 |-> None(pre)]
      <3>1. f = RunTo(pre, 0, f)
        BY DEF RunTo
      <3> QED
        BY <2>1, <3>1
    <2>2. CASE m # 0
      <3>1. m - 1 \in Nat /\ m - 1 \notin bad
        BY <1>1, <2>2
      <3>2. PICK g : g = RunTo(pre, m - 1, g)
        BY <3>1
      <3>3. \A i \in 0..(m - 1) : g[i] = IF i = 0 THEN None(pre) ELSE Longer(g[i - 1])
        BY <3>2 DEF RunTo
      <3> DEFINE f == [i \in 0..m |-> IF i < m THEN g[i] ELSE Longer(g[m - 1])]
      <3>4. \A i \in 0..m : f[i] = IF i = 0 THEN None(pre) ELSE Longer(f[i - 1])
        BY <2>2, <3>1, <3>3
      <3>5. f = [i \in 0..m |-> f[i]]
        OBVIOUS
      <3> HIDE DEF f
      <3>6. f = RunTo(pre, m, f)
        BY <3>4, <3>5 DEF RunTo
      <3> QED
        BY <3>6
    <2> QED
      BY <2>1, <2>2
  <1>2. bad = {}
    <2> HIDE DEF bad
    <2>1. bad \in SUBSET Nat
      BY DEF bad
    <2> QED
      BY <1>1, <2>1, LeastNat
  <1> QED
    BY <1>2

LEMMA NothingOk ==
  ASSUME NEW pre \in States, NEW l, l.nodes = <<>>, l.post = pre
  PROVE  LedgerOk(pre, l) /\ Len(l.nodes) = 0
  BY DEF LedgerOk, IsSeq

\* One more transaction.
LEMMA OneMore ==
  ASSUME NEW pre \in States, NEW r, LedgerOk(pre, r), NEW t \in Successors(r.post),
         NEW l, l.nodes = Append(r.nodes, NodeOf(r.post, t)), l.post = t
  PROVE  LedgerOk(pre, l)
  <1> DEFINE x == NodeOf(r.post, t)
             n == Len(r.nodes)
  <1>1. /\ IsSeq(l.nodes) /\ Len(l.nodes) = n + 1 /\ n \in Nat /\ l.nodes[n + 1] = x
        /\ \A i \in 1..n : l.nodes[i] = r.nodes[i]
    BY AppendIs DEF LedgerOk, IsSeq
  <1>2. /\ t \in States /\ x.change \in {"created", "deleted", "modified"}
        /\ x.change = "created" => r.post = Null
    BY NodeSays DEF LedgerOk
  <1>3. IsNode(x, t)
    BY DEF LedgerOk, IsNode
  <1> HIDE DEF x
  <1>4. \A i \in 1..(n + 1) : i = n + 1 \/ i \in 1..n
    BY <1>1
  <1>5. \A i \in 1..Len(l.nodes) : \E u \in States : IsNode(l.nodes[i], u)
    BY <1>1, <1>2, <1>3, <1>4 DEF LedgerOk
  <1>6. CASE x.change = "created" /\ ~Deletes(l)
    <2>1. ~Deletes(r)
      BY <1>1, <1>6 DEF Deletes
    <2>2. n = 0
      <3>1. ASSUME n # 0 PROVE FALSE
        <4>1. n \in 1..n /\ IsNode(r.nodes[n], Null)
          BY <1>1, <1>2, <1>6, <3>1 DEF LedgerOk
        <4>2. PICK s \in States : Null \in Successors(s) /\ r.nodes[n] = NodeOf(s, Null)
          BY <4>1 DEF IsNode
        <4>3. r.nodes[n].change # "created" /\ r.nodes[n].change # "modified"
          <5>1. Null \notin Roots /\ Null # Default
            <6>1. Default \in Roots
              BY DEF Roots, Default
            <6> QED
              BY <6>1, AccountAssumption
          <5> QED
            BY <4>2, <5>1, NodeSays
        <4>4. r.nodes[n].change = "deleted"
          BY <4>2, <4>3, NodeSays
        <4> QED
          BY <2>1, <4>1, <4>4 DEF Deletes
      <3> QED
        BY <3>1
    <2>3. pre = Null
      BY <1>2, <1>6, <2>2 DEF LedgerOk
    <2> QED
      BY <1>1, <1>2, <1>3, <1>5, <1>6, <2>2, <2>3 DEF LedgerOk
  <1>7. CASE x.change = "modified"
    BY <1>1, <1>2, <1>3, <1>5, <1>7 DEF LedgerOk, EndsModified
  <1>8. CASE Deletes(l) \/ x.change = "deleted"
    <2>1. Deletes(l)
      BY <1>1, <1>8 DEF Deletes
    <2> QED
      BY <1>1, <1>2, <1>3, <1>5, <2>1 DEF LedgerOk
  <1> QED
    BY <1>2, <1>6, <1>7, <1>8

LEMMA RunsOk ==
  ASSUME NEW pre \in States, NEW n \in Nat, NEW f, f = RunTo(pre, n, f), NEW k \in 0..n, NEW l \in f[k]
  PROVE  LedgerOk(pre, l)
  <1>1. f[0] = None(pre) /\ \A i \in 1..n : f[i] = Longer(f[i - 1])
    BY DEF RunTo
  <1> DEFINE Good(i) == \A q \in f[i] : LedgerOk(pre, q)
             bad == {i \in 0..n : ~Good(i)}
  <1>2. ASSUME NEW m \in bad, \A y \in bad : m <= y PROVE FALSE
    <2>1. Good(0)
      BY <1>1, NothingOk DEF None
    <2>2. m - 1 \in 0..n /\ m \in 1..n /\ m - 1 \notin bad
      BY <1>2, <2>1
    <2>3. Good(m - 1)
      BY <2>2
    <2>4. ASSUME NEW q \in f[m] PROVE LedgerOk(pre, q)
      <3>1. q \in Longer(f[m - 1])
        BY <1>1, <2>2
      <3>2. CASE q \in f[m - 1]
        BY <2>3, <3>2
      <3>3. CASE q \notin f[m - 1]
        <4>1. PICK r \in f[m - 1] :
                q \in {[nodes |-> Append(r.nodes, NodeOf(r.post, t)), post |-> t] : t \in Successors(r.post)}
          BY <3>1, <3>3 DEF Longer
        <4>2. PICK t \in Successors(r.post) : q = [nodes |-> Append(r.nodes, NodeOf(r.post, t)), post |-> t]
          BY <4>1
        <4> QED
          <5>1. q.nodes = Append(r.nodes, NodeOf(r.post, t)) /\ q.post = t
            BY <4>2
          <5>2. LedgerOk(pre, r)
            BY <2>3
          <5> QED
            BY <5>1, <5>2, OneMore
      <3> QED
        BY <3>2, <3>3
    <2> QED
      BY <2>4
  <1>3. bad = {}
    <2> HIDE DEF bad
    <2>1. bad \in SUBSET Nat
      BY DEF bad
    <2> QED
      BY <1>2, <2>1, LeastNat
  <1> QED
    BY <1>3

LEMMA ChainInit == Init => ChainInv
  <1> SUFFICES ASSUME Init PROVE ChainInv
    OBVIOUS
  <1>1. PICK s \in States : chain = <<[nodes |-> <<>>, post |-> s]>>
    BY DEF Init, States
  <1> DEFINE l == [nodes |-> <<>>, post |-> s]
  <1>2. l.nodes = <<>> /\ l.post = s
    OBVIOUS
  <1> HIDE DEF l
  <1>3. chain = <<l>>
    BY <1>1 DEF l
  <1>4. Len(chain) = 1 /\ chain[1] = l /\ IsSeq(chain)
    BY <1>3 DEF IsSeq
  <1>5. LedgerOk(s, l) /\ Len(l.nodes) = 0
    BY <1>2, NothingOk
  <1>6. \A k \in 2..Newest : FALSE
    BY <1>4 DEF Newest
  <1> QED
    BY <1>2, <1>4, <1>5, <1>6 DEF ChainInv, Newest

\* What no step changes in the ledgers there are.
Kept == Newest' \in Nat /\ Newest' >= Newest /\ \A k \in 1..Newest : chain'[k] = chain[k]

LEMMA ChainCloses ==
  ASSUME ChainInv, LedgerCloses
  PROVE  ChainInv' /\ Kept
  <1> DEFINE pre == chain[Newest].post
  <1>1. Newest \in Nat /\ Newest # 0 /\ LedgerOk(chain[1].post, chain[1])
    BY DEF ChainInv, IsSeq, Newest
  <1>2. pre \in States
    <2>1. Newest = 1 \/ Newest \in 2..Newest
      BY <1>1
    <2> QED
      BY <1>1, <2>1 DEF ChainInv, LedgerOk
  <1>3. PICK l : LedgerOk(pre, l) /\ chain' = Append(chain, l)
    <2>1. MaxTx \in Nat
      BY AccountAssumption
    <2>2. PICK f : f = RunTo(pre, MaxTx, f) /\ \E l \in f[MaxTx] : chain' = Append(chain, l)
      <3>1. \E f : f = RunTo(pre, MaxTx, f)
        BY <2>1, RunExists
      <3>2. \E l \in (CHOOSE f : f = RunTo(pre, MaxTx, f))[MaxTx] : chain' = Append(chain, l)
        BY DEF LedgerCloses, RunTo, None, Longer
      <3> QED
        BY <3>1, <3>2
    <2> QED
      BY <1>2, <2>1, <2>2, RunsOk
  <1>4. /\ IsSeq(chain') /\ Newest' = Newest + 1 /\ chain'[Newest + 1] = l
        /\ \A k \in 1..Newest : chain'[k] = chain[k]
    BY <1>3, AppendIs DEF ChainInv, Newest
  <1>5. ASSUME NEW k \in 2..Newest' PROVE LedgerOk(chain'[k - 1].post, chain'[k])
    <2>1. CASE k = Newest + 1
      <3>1. k - 1 = Newest /\ Newest \in 1..Newest
        BY <1>1, <2>1
      <3> QED
        BY <1>3, <1>4, <2>1, <3>1
    <2>2. CASE k # Newest + 1
      <3>1. k \in 1..Newest /\ k - 1 \in 1..Newest /\ k \in 2..Newest
        BY <1>1, <1>4, <2>2
      <3> QED
        BY <1>4, <3>1 DEF ChainInv
    <2> QED
      BY <2>1, <2>2
  <1>6. chain'[1] = chain[1] /\ Newest' # 0
    BY <1>1, <1>4
  <1>7. ChainInv'
    BY <1>4, <1>5, <1>6 DEF ChainInv
  <1>8. Kept
    BY <1>1, <1>4 DEF Kept
  <1> QED
    BY <1>7, <1>8

LEMMA ChainKept ==
  ASSUME ChainInv, chain' = chain
  PROVE  ChainInv' /\ Kept
  <1>1. Newest' = Newest /\ Newest \in Nat
    BY DEF ChainInv, IsSeq, Newest
  <1> QED
    BY <1>1 DEF ChainInv, Kept

\* The ledger before one of the chain, the first one's being itself.
Before(k) == IF k = 1 THEN chain[1].post ELSE chain[k - 1].post

LEMMA LedgerIs ==
  ASSUME ChainInv, NEW k \in 1..Newest
  PROVE  /\ LedgerOk(Before(k), chain[k]) /\ chain[k].post \in States
         /\ DOMAIN chain[k].nodes = 1..Len(chain[k].nodes) /\ Len(chain[k].nodes) \in Nat
         /\ \A x : x \in Nodes(k) <=> \E i \in 1..Len(chain[k].nodes) : x = chain[k].nodes[i]
  <1>1. Newest \in Nat
    BY DEF ChainInv, IsSeq, Newest
  <1>2. LedgerOk(Before(k), chain[k])
    <2>1. k = 1 \/ k \in 2..Newest
      BY <1>1
    <2> QED
      BY <2>1 DEF ChainInv, Before
  <1>3. DOMAIN chain[k].nodes = 1..Len(chain[k].nodes) /\ Len(chain[k].nodes) \in Nat
    <2> DEFINE q == chain[k].nodes
    <2>1. q = [i \in 1..Len(q) |-> q[i]] /\ Len(q) \in Nat
      BY <1>2 DEF LedgerOk, IsSeq
    <2> HIDE DEF q
    <2>2. DOMAIN q = 1..Len(q)
      BY <2>1
    <2> QED
      BY <2>1, <2>2 DEF q
  <1> QED
    BY <1>2, <1>3 DEF LedgerOk, Nodes, ToSet

-----------------------------------------------------------------------------
(* The steps. *)

Removal(x) == x.change = "modified" /\ "RegularKey" \in DOMAIN x.prev /\ "RegularKey" \notin DOMAIN x.final

\* What RowCurrent says of the row.
RowSays ==
  /\ row.flags = Current.disabled
  /\ row.domain = Current.domain \/ Current.domain = Null
  /\ row.blackholed => Current.disabled /\ ~Current.key
  /\ Current.disabled /\ ~Current.key /\ ~row.blackholed => \E k \in Replayed : \E x \in Nodes(k) : Removal(x)

\* The ledgers that count stay, and so does what they say.
LEMMA SameLedgers ==
  ASSUME Kept, ChainInv, OrderInv
  PROVE  /\ Replayed \subseteq 1..Newest
         /\ \A k \in 1..Newest : Nodes(k)' = Nodes(k) /\ Touched(k)' = Touched(k)
         /\ tip # 0 => chain'[tip].post = Current /\ Current \in States /\ tip \in 1..Newest
  <1>1. Newest \in Nat
    BY DEF ChainInv, IsSeq, Newest
  <1>2. Replayed \subseteq 1..Newest
    BY <1>1 DEF OrderInv, Replayed
  <1>3. \A k \in 1..Newest : Nodes(k)' = Nodes(k) /\ Touched(k)' = Touched(k)
    BY DEF Kept, Nodes, Touched
  <1>4. ASSUME tip # 0 PROVE chain'[tip].post = Current /\ Current \in States /\ tip \in 1..Newest
    <2>1. tip \in 1..Newest
      BY <1>1, <1>4 DEF OrderInv
    <2> QED
      BY <2>1, LedgerIs DEF Kept, Current
  <1> QED
    BY <1>2, <1>3, <1>4

\* The row, and the order of the writers, stay as they are.
LEMMA RowStays ==
  ASSUME IndInv, Kept, ChainInv', UNCHANGED <<row, orderVars>>, backfilled' = backfilled
  PROVE  IndInv'
  <1>1. OrderInv'
    BY DEF IndInv, OrderInv, orderVars, Kept, ChainInv, IsSeq, Newest
  <1>2. Replayed' = Replayed /\ tip' = tip /\ row' = row
    BY DEF Replayed, orderVars
  <1>3. Seen' = Seen /\ Reborn' = Reborn
    BY <1>2, SameLedgers DEF IndInv, Seen, Reborn, orderVars
  <1>4. tip # 0 => Current' = Current
    BY <1>2, SameLedgers DEF IndInv, Current
  <1>5. DefaultInv'
    BY <1>2, <1>3, <1>4 DEF IndInv, DefaultInv
  <1>6. tip = 0 => ~Seen
    BY DEF IndInv, OrderInv, Seen, Replayed
  <1>7. RowCurrent'
    <2>1. CASE tip = 0
      BY <1>3, <1>6, <2>1 DEF RowCurrent
    <2>2. CASE tip # 0
      <3>1. ASSUME ~backfilled, Seen, Current # Null, ~Reborn
            PROVE RowSays'
        <4>1. RowSays
          BY <3>1 DEF IndInv, RowCurrent, RowSays, Removal
        <4>2. Replayed' = Replayed /\ Replayed \subseteq 1..Newest /\ \A k \in Replayed : Nodes(k)' = Nodes(k)
          BY <1>2, SameLedgers DEF IndInv
        <4> QED
          BY <1>2, <1>4, <2>2, <4>1, <4>2 DEF RowSays
      <3> QED
        BY <1>3, <1>4, <2>2, <3>1 DEF RowCurrent, RowSays, Removal
    <2> QED
      BY <2>1, <2>2
  <1> QED
    BY <1>1, <1>2, <1>5, <1>7 DEF IndInv

\* What a live ledger adds to the ledgers replayed.
LEMMA LiveOrder ==
  ASSUME IndInv, NEW seq \in 1..Newest, LiveLedger(seq)
  PROVE  /\ OrderInv' /\ tip' = seq /\ snapSeq' = snapSeq /\ chain' = chain /\ backfilled' = backfilled
         /\ Replayed' = Replayed \cup {seq}
         /\ tip = 0 => Replayed = {} /\ snapSeq = 0
         /\ tip # 0 /\ seq # tip => seq = tip + 1
         /\ tip # 0 /\ seq = tip => UNCHANGED orderVars
  <1>1. /\ IF tip = 0 THEN seq # 0 /\ low' = seq
                      ELSE low' = low /\ (seq = tip + 1 \/ (seq = tip /\ tip # snapSeq))
        /\ tip' = seq /\ snapSeq' = snapSeq /\ fresh' = fresh /\ waived' = waived
        /\ chain' = chain /\ backfilled' = backfilled
    BY DEF LiveLedger, LiveAt
  <1>2. Newest \in Nat /\ Newest' = Newest
    BY <1>1 DEF IndInv, ChainInv, IsSeq, Newest
  <1>3. OrderInv
    BY DEF IndInv
  <1>4. OrderInv'
    BY <1>1, <1>2, <1>3 DEF OrderInv
  <1>5. tip = 0 => Replayed = {} /\ snapSeq = 0
    BY <1>3 DEF OrderInv, Replayed
  <1>6. Replayed' = Replayed \cup {seq}
    <2>1. CASE tip = 0
      <3>1. ~fresh /\ low' = seq /\ seq # 0
        BY <1>1, <1>3, <2>1 DEF OrderInv
      <3>2. Replayed' = seq..seq
        BY <1>1, <3>1 DEF Replayed
      <3> QED
        BY <1>5, <2>1, <3>2
    <2>2. CASE tip # 0 /\ seq = tip + 1
      <3>1. seq # snapSeq /\ low \in 1..tip /\ tip \in Nat
        BY <1>2, <1>3, <2>2 DEF OrderInv
      <3>2. low..seq = (low..tip) \cup {seq}
        BY <2>2, <3>1
      <3> QED
        BY <1>1, <2>2, <3>1, <3>2 DEF Replayed
    <2>3. CASE tip # 0 /\ seq = tip
      <3>1. tip \in Replayed
        BY <1>1, <1>3, <2>3 DEF OrderInv, Replayed
      <3>2. Replayed' = Replayed
        BY <1>1, <2>3 DEF Replayed
      <3> QED
        BY <2>3, <3>1, <3>2
    <2> QED
      BY <1>1, <2>1, <2>2, <2>3
  <1> QED
    BY <1>1, <1>4, <1>5, <1>6 DEF orderVars

LEMMA LiveStep ==
  ASSUME IndInv, NEW seq \in 1..Newest, LiveLedger(seq)
  PROVE  IndInv'
  <1> DEFINE l == chain[seq]
             n == Len(l.nodes)
  <1>1. ChainInv' /\ Kept
    BY ChainKept DEF IndInv, LiveLedger
  <1>2. /\ OrderInv' /\ tip' = seq /\ snapSeq' = snapSeq /\ chain' = chain /\ backfilled' = backfilled
        /\ Replayed' = Replayed \cup {seq}
        /\ tip = 0 => Replayed = {} /\ snapSeq = 0
        /\ tip # 0 /\ seq # tip => seq = tip + 1
        /\ tip # 0 /\ seq = tip => UNCHANGED orderVars
    BY LiveOrder
  <1>3. row' = Applied(l.nodes)
    BY DEF LiveLedger
  <1>4. /\ LedgerOk(Before(seq), l) /\ n \in Nat
        /\ \A x : x \in Nodes(seq) <=> \E i \in 1..n : x = l.nodes[i]
    BY LedgerIs DEF IndInv
  <1>5. row' \in RowType
    BY <1>3, <1>4, AppliedIs DEF IndInv
  <1>6. Current' = l.post /\ l.post \in States /\ seq # 0
    BY <1>2, LedgerIs DEF Current, IndInv
  <1>7. \A k \in Replayed' : Nodes(k)' = Nodes(k) /\ Touched(k)' = Touched(k)
    BY <1>2 DEF Nodes, Touched
  <1>8. /\ Reborn' <=> Reborn \/ Deletes(l)
        /\ Seen' <=> Seen \/ Touched(seq)
    <2>1. Deletes(l) <=> \E x \in Nodes(seq) : x.change = "deleted"
      BY <1>4 DEF Deletes
    <2> QED
      BY <1>2, <1>7, <2>1 DEF Reborn, Seen
  <1>9. CASE EndsModified(l)
    <2>1. /\ l.post \in Roots /\ row'.flags = l.post.disabled
          /\ row'.domain = l.post.domain \/ l.post.domain = Null
          /\ row'.blackholed => l.post.disabled /\ ~l.post.key
          /\ l.post.disabled /\ ~l.post.key /\ ~row'.blackholed =>
               "RegularKey" \in DOMAIN l.nodes[n].prev /\ "RegularKey" \notin DOMAIN l.nodes[n].final
      BY <1>3, <1>4, <1>9, AppliedIs DEF IndInv
    <2>2. l.nodes[n] \in Nodes(seq) /\ l.nodes[n].change = "modified"
      BY <1>4, <1>9 DEF EndsModified
    <2>3. Seen' /\ Current' # Null /\ tip' # 0
      BY <1>2, <1>6, <1>8, <2>1, <2>2, AccountAssumption DEF Touched
    <2>4. RowSays'
      <3>1. l.post.disabled /\ ~l.post.key /\ ~row'.blackholed =>
              \E k \in Replayed' : \E x \in Nodes(k)' : Removal(x)
        BY <1>2, <1>7, <2>1, <2>2 DEF Removal
      <3> QED
        BY <1>6, <2>1, <3>1 DEF RowSays
    <2>5. DefaultInv' /\ RowCurrent'
      BY <2>3, <2>4 DEF DefaultInv, RowCurrent, RowSays, Removal
    <2> QED
      BY <1>1, <1>2, <1>5, <2>5 DEF IndInv
  <1>10. CASE Deletes(l)
    <2>1. DefaultInv' /\ RowCurrent'
      BY <1>8, <1>10 DEF DefaultInv, RowCurrent
    <2> QED
      BY <1>1, <1>2, <1>5, <2>1 DEF IndInv
  <1>11. CASE ~Deletes(l) /\ (n = 0 \/ (n = 1 /\ l.nodes[1].change = "created" /\ Before(seq) = Null))
    <2>1. row' = row
      BY <1>3, <1>4, <1>11, AppliedIs DEF IndInv
    <2>2. ~Touched(seq)
      BY <1>4, <1>11 DEF Touched
    <2>3. CASE tip # 0 /\ seq = tip
      <3>1. UNCHANGED <<row, orderVars>>
        BY <1>2, <2>1, <2>3
      <3> QED
        BY <1>1, <1>2, <3>1, RowStays
    <2>4. CASE tip = 0
      <3>1. ~Seen /\ ~Seen'
        BY <1>2, <1>8, <2>2, <2>4 DEF Seen
      <3>2. ~backfilled' /\ ~Reborn' => row' = NoRow
        BY <1>2, <1>8, <2>1, <2>4 DEF IndInv, DefaultInv
      <3>3. DefaultInv' /\ RowCurrent'
        BY <3>1, <3>2 DEF DefaultInv, RowCurrent
      <3> QED
        BY <1>1, <1>2, <1>5, <3>3 DEF IndInv
    <2>5. CASE tip # 0 /\ seq # tip
      <3>1. seq = tip + 1 /\ tip \in Nat /\ seq # 1
        BY <1>2, <2>5 DEF IndInv, OrderInv
      <3>2. Before(seq) = Current
        BY <3>1 DEF Before, Current
      <3>3. Seen' <=> Seen
        BY <1>8, <2>2
      <3>4. Reborn' <=> Reborn
        BY <1>8, <1>11
      <3>5. CASE n = 0
        <4>1. Current' = Current
          BY <1>4, <1>6, <3>2, <3>5 DEF LedgerOk
        <4>2. DefaultInv'
          BY <1>2, <2>1, <2>5, <3>3, <3>4, <4>1, <1>6 DEF DefaultInv, IndInv
        <4>3. ASSUME ~backfilled, Seen, Current # Null, ~Reborn PROVE RowSays'
          <5>1. RowSays
            BY <4>3 DEF IndInv, RowCurrent, RowSays, Removal
          <5>2. \A k \in Replayed : k \in Replayed' /\ Nodes(k)' = Nodes(k)
            BY <1>2, <1>7
          <5> QED
            BY <2>1, <4>1, <5>1, <5>2 DEF RowSays
        <4>4. RowCurrent'
          BY <1>2, <3>3, <3>4, <4>1, <4>3 DEF RowCurrent, RowSays, Removal
        <4> QED
          BY <1>1, <1>2, <1>5, <4>2, <4>4 DEF IndInv
      <3>6. CASE n # 0
        <4>1. Current = Null /\ n = 1 /\ l.nodes[1].change = "created"
          BY <1>11, <3>2, <3>6
        <4>2. l.post = Default
          <5>1. IsNode(l.nodes[1], l.post)
            BY <1>4, <4>1 DEF LedgerOk
          <5>2. PICK s \in States : l.post \in Successors(s) /\ l.nodes[1] = NodeOf(s, l.post)
            BY <5>1 DEF IsNode
          <5> QED
            BY <4>1, <5>2, NodeSays
        <4>3. ~backfilled' /\ ~Reborn' => row' = NoRow
          BY <1>2, <2>1, <3>4, <4>1 DEF IndInv, DefaultInv
        <4>4. ~backfilled' /\ ~Reborn' => RowSays'
          <5>1. Current'.disabled = FALSE /\ Current'.key = FALSE /\ Current'.domain = Null
            BY <1>6, <4>2 DEF Default
          <5>2. ASSUME row' = NoRow PROVE RowSays'
            <6>1. row'.flags = FALSE /\ row'.blackholed = FALSE /\ row'.domain = Null
              BY <5>2 DEF NoRow
            <6> QED
              BY <5>1, <6>1 DEF RowSays
          <5> QED
            BY <4>3, <5>2
        <4>5. DefaultInv' /\ RowCurrent'
          BY <4>3, <4>4 DEF DefaultInv, RowCurrent, RowSays, Removal
        <4> QED
          BY <1>1, <1>2, <1>5, <4>5 DEF IndInv
      <3> QED
        BY <3>5, <3>6
    <2> QED
      BY <2>3, <2>4, <2>5
  <1> QED
    BY <1>4, <1>9, <1>10, <1>11 DEF LedgerOk

\* After a backfilled ledger neither invariant of the row says anything.
LEMMA BackfillStep ==
  ASSUME IndInv, NEW seq \in 1..Newest, BackfillLedger(seq)
  PROVE  IndInv'
  <1>1. ChainInv' /\ Kept
    BY ChainKept DEF IndInv, BackfillLedger
  <1>2. /\ seq = low - 1 /\ seq > 0 /\ low' = seq /\ waived' = {} /\ backfilled'
        /\ tip' = tip /\ snapSeq' = snapSeq /\ fresh' = fresh
    BY DEF BackfillLedger, BackfillAt, IndInv, OrderInv
  <1>3. OrderInv'
    <2>1. low \in 0..tip /\ tip \in 0..Newest /\ Newest \in Nat /\ Newest' \in Nat /\ Newest' >= Newest
      BY <1>1 DEF IndInv, OrderInv, ChainInv, IsSeq, Newest, Kept
    <2> QED
      BY <1>2, <2>1 DEF IndInv, OrderInv
  <1>4. row' \in RowType
    <2>1. LedgerOk(Before(seq), chain[seq])
      BY LedgerIs DEF IndInv
    <2> QED
      BY <2>1, AppliedIs DEF BackfillLedger, IndInv
  <1>5. DefaultInv' /\ RowCurrent'
    BY <1>2 DEF DefaultInv, RowCurrent
  <1> QED
    BY <1>1, <1>2, <1>3, <1>4, <1>5 DEF IndInv

LEMMA SnapshotStep == ASSUME IndInv, Snapshot PROVE IndInv'
  <1> DEFINE seq == IF tip # 0 THEN tip ELSE Newest
             s   == chain[seq].post
  <1>1. ChainInv' /\ Kept
    BY ChainKept DEF IndInv, Snapshot
  <1>2. /\ snapSeq = 0 /\ seq # 0 /\ (IF tip = 0 THEN low' = seq ELSE low' = low)
        /\ fresh' = (tip = 0) /\ tip' = seq /\ snapSeq' = seq /\ waived' = waived
        /\ row' = (IF s = Null THEN row ELSE OrElse(Patch(Fields(s)), row))
        /\ chain' = chain /\ backfilled' = backfilled
    BY DEF Snapshot, SnapshotAt
  <1>3. seq \in 1..Newest /\ Newest' = Newest /\ Newest \in Nat
    BY <1>2 DEF IndInv, ChainInv, IsSeq, Newest, OrderInv
  <1> HIDE DEF seq
  <1>4. OrderInv'
    <2>1. tip # 0 => seq = tip
      BY DEF seq
    <2> QED
      BY <1>2, <1>3, <2>1 DEF IndInv, OrderInv
  <1>5. Replayed' = Replayed
    <2>1. CASE tip = 0
      <3>1. Replayed' = (seq..seq) \ {seq}
        BY <1>2, <2>1 DEF Replayed
      <3>2. Replayed = {}
        BY <2>1 DEF IndInv, OrderInv, Replayed
      <3> QED
        BY <1>3, <3>1, <3>2
    <2>2. CASE tip # 0
      <3>1. ~fresh /\ ~fresh' /\ tip' = tip /\ low' = low
        BY <1>2, <2>2 DEF IndInv, OrderInv, seq
      <3> QED
        BY <3>1 DEF Replayed
    <2> QED
      BY <2>1, <2>2
  <1>6. Reborn' = Reborn
    BY <1>2, <1>5 DEF Reborn, Nodes
  <1>7. Current' = s /\ s \in States /\ Seen' /\ tip' # 0
    BY <1>2, <1>3, LedgerIs DEF IndInv, Current, Seen
  <1>8. CASE s = Null
    <2>1. row' = row /\ row \in RowType
      BY <1>2, <1>8 DEF IndInv
    <2>2. tip = 0 \/ Current = Null
      BY <1>8 DEF Current, seq
    <2>3. DefaultInv' /\ RowCurrent'
      BY <1>2, <1>6, <1>7, <1>8, <2>1, <2>2 DEF IndInv, DefaultInv, RowCurrent
    <2> QED
      BY <1>1, <1>2, <1>4, <2>1, <2>3 DEF IndInv
  <1>9. CASE s # Null
    <2>1. s \in Roots
      BY <1>7, <1>9 DEF States
    <2> DEFINE f == Fields(s)
               q == Patch(f)
    <2>2. /\ "Flags" \in DOMAIN f /\ f["Flags"] = s.disabled /\ s.disabled \in BOOLEAN
          /\ "RegularKey" \in DOMAIN f <=> s.key
          /\ "Domain" \in DOMAIN f <=> s.domain # Null
          /\ s.domain # Null => f["Domain"] = s.domain /\ s.domain \in Domains
      BY <2>1 DEF Roots, Fields
    <2> HIDE DEF f
    <2>3. /\ "flags" \in DOMAIN q /\ q["flags"] = s.disabled
          /\ "blackholed" \in DOMAIN q /\ q["blackholed"] = (s.disabled /\ ~s.key)
          /\ s.domain # Null => "domain" \in DOMAIN q /\ q["domain"] = s.domain
          /\ PatchOk(q)
      BY <2>2, PatchIs DEF PatchOk
    <2> HIDE DEF q
    <2>4. row' = OrElse(q, row) /\ row' \in RowType
      BY <1>2, <1>9, <2>3, PatchedRow DEF IndInv, q, f
    <2>5. \A c \in DOMAIN q : row'[c] = q[c]
      BY <2>4 DEF OrElse
    <2>6. RowSays'
      BY <1>7, <2>3, <2>5 DEF RowSays
    <2>7. DefaultInv' /\ RowCurrent'
      BY <1>7, <1>9, <2>6 DEF DefaultInv, RowCurrent, RowSays, Removal
    <2> QED
      BY <1>1, <1>2, <1>4, <2>4, <2>7 DEF IndInv
  <1> QED
    BY <1>8, <1>9

LEMMA InitInv == Init => IndInv
  <1> SUFFICES ASSUME Init PROVE IndInv
    OBVIOUS
  <1>1. ChainInv
    BY ChainInit
  <1>2. low = 0 /\ tip = 0 /\ snapSeq = 0 /\ fresh = FALSE /\ waived = {} /\ row = NoRow /\ backfilled = FALSE
    BY DEF Init, OrderInit, NoRow
  <1>3. OrderInv
    <2>1. Newest \in Nat
      BY <1>1 DEF ChainInv, IsSeq, Newest
    <2> QED
      <3>1. 0 \in 0..0 /\ 0 \in 0..Newest
        BY <2>1
      <3> QED
        BY <1>2, <3>1 DEF OrderInv
  <1>4. Replayed = {} /\ ~Seen
    BY <1>2 DEF Replayed, Seen
  <1> QED
    BY <1>1, <1>2, <1>3, <1>4 DEF IndInv, DefaultInv, RowCurrent, NoRow, RowType

LEMMA NextInv == ASSUME IndInv, [Next]_vars PROVE IndInv'
  <1>1. CASE LedgerCloses
    <2>1. UNCHANGED <<row, orderVars>> /\ backfilled' = backfilled
      BY <1>1 DEF LedgerCloses
    <2> QED
      BY <1>1, <2>1, ChainCloses, RowStays DEF IndInv
  <1>2. CASE \E seq \in 1..Newest : LiveLedger(seq)
    BY <1>2, LiveStep
  <1>3. CASE \E seq \in 1..Newest : BackfillLedger(seq)
    BY <1>3, BackfillStep
  <1>4. CASE Snapshot
    BY <1>4, SnapshotStep
  <1>5. CASE UNCHANGED vars
    <2>1. chain' = chain /\ UNCHANGED <<row, orderVars>> /\ backfilled' = backfilled
      BY <1>5 DEF vars
    <2> QED
      BY <2>1, ChainKept, RowStays DEF IndInv
  <1> QED
    BY <1>1, <1>2, <1>3, <1>4, <1>5 DEF Next

-----------------------------------------------------------------------------
(* The theorems about AccountState. *)

\* The inductive invariant: the chain of ledgers, the order of the writers and the
\* row (account.ts:13-54).
THEOREM AccountInvariance == Spec => []IndInv
  BY InitInv, NextInv, PTL DEF Spec

\* The columns and the bounds of the order.
THEOREM AccountTypes == Spec => []TypeOK
  <1>1. IndInv => TypeOK
    <2> SUFFICES ASSUME IndInv PROVE TypeOK
      OBVIOUS
    <2>1. Newest \in Nat /\ (tip # 0 => tip \in 1..Newest)
      BY DEF IndInv, ChainInv, IsSeq, Newest, OrderInv
    <2>2. tip # 0 => Current \in Roots \cup {Null}
      BY <2>1, LedgerIs DEF IndInv, Current, States
    <2> QED
      BY <2>2 DEF IndInv, OrderInv, RowType, TypeOK
  <1> QED
    BY <1>1, AccountInvariance, PTL

\* Without a backfill the row of an account that was seen is that of the top ledger,
\* but for what a removal leaves (account.ts:39-52, batch.ts patchAccount and flush).
THEOREM RowIsCurrent == Spec => []RowCurrent
  <1>1. IndInv => RowCurrent
    BY DEF IndInv
  <1> QED
    BY <1>1, AccountInvariance, PTL

\* A live ledger that leaves the account modified sets the row right, whatever a
\* backfilled one wrote before (ledger.ts:56-63).
THEOREM LiveSetsRight == Spec => LiveCorrects
  <1> DEFINE Corrects ==
        LET nodes == chain[tip'].nodes
            now   == chain[tip'].post
        IN tip' > tip /\ snapSeq' = snapSeq /\ nodes # <<>> /\ Last(nodes).change = "modified" =>
             /\ row'.flags = now.disabled
             /\ row'.blackholed => now.disabled /\ ~now.key
             /\ now.domain # Null => row'.domain = now.domain
  <1>1. ASSUME IndInv, Next PROVE Corrects
    <2>1. tip \in Nat /\ snapSeq \in Nat
      BY <1>1 DEF IndInv, OrderInv, ChainInv, IsSeq, Newest
    <2>2. CASE LedgerCloses
      <3>1. tip' = tip
        BY <2>2 DEF LedgerCloses, orderVars
      <3> QED
        BY <2>1, <3>1
    <2>3. CASE Snapshot
      <3>1. snapSeq' # snapSeq
        BY <2>3 DEF Snapshot, SnapshotAt
      <3> QED
        BY <3>1
    <2>4. CASE \E seq \in 1..Newest : BackfillLedger(seq)
      <3>1. tip' = tip
        BY <2>4 DEF BackfillLedger, BackfillAt
      <3> QED
        BY <2>1, <3>1
    <2>5. ASSUME NEW seq \in 1..Newest, LiveLedger(seq) PROVE Corrects
      <3> DEFINE l == chain[seq]
                 nodes == l.nodes
      <3>1. tip' = seq /\ row' = Applied(nodes)
        BY <2>5 DEF LiveLedger, LiveAt
      <3>2. LedgerOk(Before(seq), l) /\ Len(nodes) \in Nat /\ IsSeq(nodes) /\ row \in RowType
        BY <1>1, LedgerIs DEF IndInv, LedgerOk
      <3>3. ASSUME nodes # <<>>, Last(nodes).change = "modified" PROVE EndsModified(l)
        <4>1. Len(nodes) # 0
          <5>1. ASSUME Len(nodes) = 0 PROVE FALSE
            <6>1. nodes = [i \in 1..0 |-> nodes[i]]
              BY <3>2, <5>1 DEF IsSeq
            <6> HIDE DEF nodes
            <6>2. nodes = <<>>
              BY <6>1
            <6> QED
              BY <3>3, <6>2
          <5> QED
            BY <5>1
        <4> QED
          BY <3>3, <4>1 DEF Last, EndsModified
      <3>4. EndsModified(l) =>
              /\ row'.flags = l.post.disabled
              /\ row'.domain = l.post.domain \/ l.post.domain = Null
              /\ row'.blackholed => l.post.disabled /\ ~l.post.key
        BY <3>1, <3>2, AppliedIs
      <3> QED
        BY <3>1, <3>3, <3>4
    <2> QED
      BY <1>1, <2>2, <2>3, <2>4, <2>5 DEF Next
  <1>2. ASSUME IndInv, [Next]_vars PROVE [Corrects]_vars
    BY <1>1, <1>2
  <1> QED
    BY <1>2, AccountInvariance, PTL DEF Spec, LiveCorrects

-----------------------------------------------------------------------------
(* The reserve of a pool: PoolReserves, the other part of handleAccountRoot. *)

\* The node of an account that is there, the last such node up to the n-th, and what
\* the nodes of a transaction or of a ledger say: if there is such a node, the pool's
\* balance in the end, unless the pool is gone by then.
Rooted(x) == x.type = "AccountRoot" /\ x.change # "deleted"
LastIn(nodes, n, d) ==
  \E i \in 1..n : Rooted(nodes[i]) /\ nodes[i].drops = d /\ \A j \in (i + 1)..n : ~Rooted(nodes[j])

PoolNodes(l) ==
  /\ IsSeq(l.nodes) /\ l.post \in Drops \cup {NoXrp}
  /\ \A i \in 1..Len(l.nodes) : /\ l.nodes[i].type \in {"AMM", "AccountRoot"}
                                /\ Rooted(l.nodes[i]) => l.nodes[i].drops \in Drops
  /\ \A d : LastIn(l.nodes, Len(l.nodes), d) => d = l.post \/ l.post = NoXrp

PoolChain == IsSeq(history) /\ Latest # 0 /\ \A k \in 1..Latest : PoolNodes(history[k])

PoolOrder ==
  /\ low \in 0..tip /\ tip \in 0..Latest /\ snapSeq \in 0..tip /\ fresh \in BOOLEAN /\ waived = {}
  /\ low = 0 <=> tip = 0

\* The rows are those of ledgers taken. The top one, which live sync may take again
\* unless it is the snapshot's, is from the last node of the account.
RowsInv ==
  /\ rows = [k \in DOMAIN rows |-> rows[k]]
  /\ \A k \in DOMAIN rows : k \in low..tip /\ k # 0 /\ rows[k] \in Drops
  /\ tip \in DOMAIN rows /\ tip # snapSeq => LastIn(history[tip].nodes, Len(history[tip].nodes), rows[tip])

Ids == {Number(Pool), Text(Pool)}

PoolInv ==
  /\ PoolChain /\ PoolOrder /\ RowsInv /\ ReserveExact
  /\ marked \in BOOLEAN /\ known \in [Processes -> SUBSET Ids]

Joins(p, q, r) ==
  /\ IsSeq(r) /\ Len(r) = Len(p) + Len(q)
  /\ \A i \in 1..Len(p) : r[i] = p[i]
  /\ \A i \in 1..Len(q) : r[Len(p) + i] = q[i]

LEMMA ConcatIs ==
  ASSUME NEW p, IsSeq(p), NEW q, IsSeq(q)
  PROVE  Joins(p, q, p \o q)
  <1> DEFINE T == {p[i] : i \in 1..Len(p)} \cup {q[i] : i \in 1..Len(q)}
  <1>1. /\ Len(p) \in Nat /\ \A i \in 1..Len(p) : p[i] \in T
        /\ Len(q) \in Nat /\ \A i \in 1..Len(q) : q[i] \in T
    BY DEF IsSeq
  <1> HIDE DEF T
  <1>2. p \in Seq(T) /\ q \in Seq(T)
    BY <1>1 DEF IsSeq
  <1> DEFINE r == p \o q
  <1>3. /\ r \in Seq(T) /\ Len(r) = Len(p) + Len(q)
        /\ \A i \in 1..Len(p) : r[i] = p[i]
        /\ \A i \in 1..Len(q) : r[Len(p) + i] = q[i]
    BY <1>1, <1>2
  <1> HIDE DEF r
  <1>4. Len(r) \in Nat /\ r = [i \in 1..Len(r) |-> r[i]]
    BY <1>3
  <1>5. Joins(p, q, r)
    BY <1>3, <1>4 DEF IsSeq, Joins
  <1> QED
    BY <1>5 DEF r

LEMMA OneLast ==
  ASSUME NEW nodes, NEW n \in Nat, NEW d, NEW e, LastIn(nodes, n, d), LastIn(nodes, n, e)
  PROVE  d = e
  <1>1. PICK i \in 1..n : Rooted(nodes[i]) /\ nodes[i].drops = d /\ \A j \in (i + 1)..n : ~Rooted(nodes[j])
    BY DEF LastIn
  <1>2. PICK k \in 1..n : Rooted(nodes[k]) /\ nodes[k].drops = e /\ \A j \in (k + 1)..n : ~Rooted(nodes[j])
    BY DEF LastIn
  <1>3. i = k
    <2>1. i < k \/ k < i \/ i = k
      OBVIOUS
    <2>2. i < k => k \in (i + 1)..n
      OBVIOUS
    <2>3. k < i => i \in (k + 1)..n
      OBVIOUS
    <2> QED
      BY <1>1, <1>2, <2>1, <2>2, <2>3
  <1> QED
    BY <1>1, <1>2, <1>3

\* One transaction: a trade on the AMM's reserve of tokens alone leaves the balance.
TxSays(xrp, x) ==
  /\ PoolNodes(x)
  /\ x.post = xrp \/ x.post = NoXrp \/ \E i \in 1..Len(x.nodes) : Rooted(x.nodes[i])

LEMMA TwoNodes ==
  ASSUME NEW a, NEW b, NEW nodes, nodes = <<a, b>>
  PROVE  IsSeq(nodes) /\ Len(nodes) = 2 /\ nodes[1] = a /\ nodes[2] = b
  BY DEF IsSeq

LEMMA OneNode ==
  ASSUME NEW a, NEW nodes, nodes = <<a>>
  PROVE  IsSeq(nodes) /\ Len(nodes) = 1 /\ nodes[1] = a
  BY DEF IsSeq

LEMMA TransactionSays ==
  ASSUME NEW xrp \in Drops \cup {NoXrp}, NEW x \in Transactions(xrp)
  PROVE  TxSays(xrp, x)
  <1>1. ASSUME NEW c \in {"created", "modified"}, NEW c2, NEW d \in Drops
        PROVE  Rooted(Root(c, d)) /\ Root(c, d).drops = d /\ Root(c, d).type = "AccountRoot"
               /\ ~Rooted(Amm(c2)) /\ Amm(c2).type = "AMM"
    BY DEF Rooted, Root, Amm
  <1>2. ~Rooted(Root("deleted", 0)) /\ Root("deleted", 0).type = "AccountRoot"
    BY DEF Rooted, Root
  <1>3. \A c : ~Rooted(Amm(c)) /\ Amm(c).type = "AMM"
    BY DEF Rooted, Amm
  <1>4. \A i \in 1..1 : i = 1
    OBVIOUS
  <1>5. \A i \in 1..2 : i = 1 \/ i = 2
    OBVIOUS
  <1>6. ASSUME NEW c \in {"created", "modified"}, NEW d \in Drops, x.post = d,
               \/ x.nodes = <<Root(c, d)>>
               \/ x.nodes = <<Root(c, d), Amm(c)>> \/ x.nodes = <<Amm(c), Root(c, d)>>
        PROVE  TxSays(xrp, x)
    <2>1. CASE x.nodes = <<Root(c, d)>>
      <3>1. IsSeq(x.nodes) /\ Len(x.nodes) = 1 /\ x.nodes[1] = Root(c, d)
        BY <2>1, OneNode
      <3>2. \A e : LastIn(x.nodes, 1, e) => e = d
        BY <1>1, <1>4, <3>1 DEF LastIn
      <3>3. /\ x.post = d /\ x.post \in Drops /\ Rooted(x.nodes[1]) /\ 1 \in 1..1
            /\ \A i \in 1..1 : x.nodes[i].type = "AccountRoot" /\ x.nodes[i].drops = d
        BY <1>1, <1>4, <1>6, <3>1
      <3> QED
        BY <3>1, <3>2, <3>3 DEF TxSays, PoolNodes
    <2>2. CASE x.nodes = <<Root(c, d), Amm(c)>>
      <3>1. IsSeq(x.nodes) /\ Len(x.nodes) = 2 /\ x.nodes[1] = Root(c, d) /\ x.nodes[2] = Amm(c)
        BY <2>2, TwoNodes
      <3>2. \A e : LastIn(x.nodes, 2, e) => e = d
        BY <1>1, <1>5, <3>1 DEF LastIn
      <3> QED
        BY <1>1, <1>5, <1>6, <3>1, <3>2 DEF TxSays, PoolNodes
    <2>3. CASE x.nodes = <<Amm(c), Root(c, d)>>
      <3>1. IsSeq(x.nodes) /\ Len(x.nodes) = 2 /\ x.nodes[1] = Amm(c) /\ x.nodes[2] = Root(c, d)
        BY <2>3, TwoNodes
      <3>2. \A e : LastIn(x.nodes, 2, e) => e = d
        BY <1>1, <1>5, <3>1 DEF LastIn
      <3> QED
        BY <1>1, <1>5, <1>6, <3>1, <3>2 DEF TxSays, PoolNodes
    <2> QED
      BY <1>6, <2>1, <2>2, <2>3
  <1>7. ASSUME x.post = xrp, x.nodes = <<Amm("modified")>> PROVE TxSays(xrp, x)
    <2>1. IsSeq(x.nodes) /\ Len(x.nodes) = 1 /\ x.nodes[1] = Amm("modified")
      BY <1>7, OneNode
    <2>2. \A e : ~LastIn(x.nodes, 1, e)
      BY <1>3, <1>4, <2>1 DEF LastIn
    <2> QED
      BY <1>3, <1>4, <1>7, <2>1, <2>2 DEF TxSays, PoolNodes
  <1>8. ASSUME x.post = NoXrp,
               \/ x.nodes = <<Root("deleted", 0), Amm("deleted")>>
               \/ x.nodes = <<Amm("deleted"), Root("deleted", 0)>>
        PROVE  TxSays(xrp, x)
    <2>1. /\ IsSeq(x.nodes) /\ Len(x.nodes) = 2
          /\ \A i \in 1..2 : x.nodes[i].type \in {"AMM", "AccountRoot"} /\ ~Rooted(x.nodes[i])
      BY <1>2, <1>3, <1>5, <1>8, TwoNodes
    <2> QED
      BY <1>8, <2>1 DEF TxSays, PoolNodes
  <1>9. \A c, d : Both(Root(c, d), Amm(c)) \in {<<Root(c, d), Amm(c)>>, <<Amm(c), Root(c, d)>>}
    BY DEF Both
  <1>10. CASE xrp = NoXrp
    <2>1. PICK d \in Drops : x = [nodes |-> Both(Root("created", d), Amm("created")), post |-> d]
      BY <1>10 DEF Transactions
    <2>2. x.post = d /\ x.nodes = Both(Root("created", d), Amm("created"))
      BY <2>1
    <2> QED
      BY <1>6, <1>9, <2>2
  <1>11. CASE xrp # NoXrp
    <2>1. \/ \E d \in Drops : \/ x = [nodes |-> <<Root("modified", d)>>, post |-> d]
                              \/ x = [nodes |-> Both(Root("modified", d), Amm("modified")), post |-> d]
          \/ x = [nodes |-> <<Amm("modified")>>, post |-> xrp]
          \/ x = [nodes |-> Both(Root("deleted", 0), Amm("deleted")), post |-> NoXrp]
      <3> DEFINE P(d) == {[nodes |-> <<Root("modified", d)>>, post |-> d],
                          [nodes |-> Both(Root("modified", d), Amm("modified")), post |-> d]}
                 A == {P(d) : d \in Drops \ {xrp}}
                 B == {[nodes |-> <<Amm("modified")>>, post |-> xrp],
                       [nodes |-> Both(Root("deleted", 0), Amm("deleted")), post |-> NoXrp]}
      <3>1. Transactions(xrp) = (UNION A) \cup B
        BY <1>11 DEF Transactions
      <3>2. CASE x \in B
        BY <3>2
      <3>3. CASE x \in UNION A
        <4>1. PICK d \in Drops : x \in P(d)
          BY <3>3
        <4> QED
          BY <4>1
      <3> HIDE DEF A, B
      <3> QED
        BY <3>1, <3>2, <3>3
    <2>2. ASSUME NEW d \in Drops, x = [nodes |-> <<Root("modified", d)>>, post |-> d] PROVE TxSays(xrp, x)
      <3>1. x.post = d /\ x.nodes = <<Root("modified", d)>>
        BY <2>2
      <3> QED
        BY <1>6, <3>1
    <2>3. ASSUME NEW d \in Drops, x = [nodes |-> Both(Root("modified", d), Amm("modified")), post |-> d]
          PROVE  TxSays(xrp, x)
      <3>1. x.post = d /\ x.nodes = Both(Root("modified", d), Amm("modified"))
        BY <2>3
      <3> QED
        BY <1>6, <1>9, <3>1
    <2>4. CASE x = [nodes |-> <<Amm("modified")>>, post |-> xrp]
      <3>1. x.post = xrp /\ x.nodes = <<Amm("modified")>>
        BY <2>4
      <3> QED
        BY <1>7, <3>1
    <2>5. CASE x = [nodes |-> Both(Root("deleted", 0), Amm("deleted")), post |-> NoXrp]
      <3>1. x.post = NoXrp /\ x.nodes = Both(Root("deleted", 0), Amm("deleted"))
        BY <2>5
      <3> QED
        BY <1>8, <1>9, <3>1
    <2> QED
      BY <2>1, <2>2, <2>3, <2>4, <2>5
  <1> QED
    BY <1>10, <1>11

LEMMA TwoSay ==
  ASSUME NEW xrp, NEW x, TxSays(xrp, x), x.post # NoXrp, NEW y, TxSays(x.post, y),
         NEW l, l.nodes = x.nodes \o y.nodes, l.post = y.post
  PROVE  PoolNodes(l)
  <1> DEFINE m == Len(x.nodes)
             n == Len(y.nodes)
  <1>1. /\ IsSeq(l.nodes) /\ Len(l.nodes) = m + n /\ m \in Nat /\ n \in Nat
        /\ \A i \in 1..m : l.nodes[i] = x.nodes[i]
        /\ \A i \in 1..n : l.nodes[m + i] = y.nodes[i]
    <2>1. IsSeq(x.nodes) /\ IsSeq(y.nodes)
      BY DEF TxSays, PoolNodes
    <2>2. m \in Nat /\ n \in Nat
      BY <2>1 DEF IsSeq
    <2> QED
      <3> HIDE DEF m, n
      <3>1. /\ IsSeq(l.nodes) /\ Len(l.nodes) = Len(x.nodes) + Len(y.nodes)
            /\ \A i \in 1..Len(x.nodes) : l.nodes[i] = x.nodes[i]
            /\ \A i \in 1..Len(y.nodes) : l.nodes[Len(x.nodes) + i] = y.nodes[i]
        <4>1. Joins(x.nodes, y.nodes, x.nodes \o y.nodes)
          BY <2>1, ConcatIs
        <4>2. Joins(x.nodes, y.nodes, l.nodes)
          BY <4>1
        <4> QED
          BY <4>2 DEF Joins
      <3> QED
        BY <2>2, <3>1 DEF m, n
  <1>0. m = Len(x.nodes) /\ n = Len(y.nodes)
    OBVIOUS
  <1> HIDE DEF m, n
  <1>2. \A i \in 1..(m + n) : i \in 1..m \/ (i - m \in 1..n /\ i = m + (i - m))
    BY <1>1
  <1>3. \A i \in 1..Len(l.nodes) : /\ l.nodes[i].type \in {"AMM", "AccountRoot"}
                                   /\ Rooted(l.nodes[i]) => l.nodes[i].drops \in Drops
    <2> SUFFICES ASSUME NEW i \in 1..(m + n)
                 PROVE  /\ l.nodes[i].type \in {"AMM", "AccountRoot"}
                        /\ Rooted(l.nodes[i]) => l.nodes[i].drops \in Drops
      BY <1>1
    <2>1. CASE i \in 1..m
      BY <1>0, <1>1, <2>1 DEF TxSays, PoolNodes
    <2>2. CASE i - m \in 1..n /\ i = m + (i - m)
      BY <1>0, <1>1, <2>2 DEF TxSays, PoolNodes
    <2> QED
      BY <1>2, <2>1, <2>2
  <1>4. ASSUME NEW d, LastIn(l.nodes, m + n, d) PROVE d = y.post \/ y.post = NoXrp
    <2>1. PICK i \in 1..(m + n) : /\ Rooted(l.nodes[i]) /\ l.nodes[i].drops = d
                                  /\ \A j \in (i + 1)..(m + n) : ~Rooted(l.nodes[j])
      BY <1>4 DEF LastIn
    <2>2. CASE i \in 1..m
      <3>1. ASSUME NEW j \in (i + 1)..m PROVE ~Rooted(x.nodes[j])
        <4>1. j \in 1..m /\ j \in (i + 1)..(m + n)
          BY <1>1, <2>2
        <4> QED
          BY <1>1, <2>1, <4>1
      <3>2. LastIn(x.nodes, m, d)
        BY <1>1, <2>1, <2>2, <3>1 DEF LastIn
      <3>3. d = x.post
        BY <1>0, <3>2 DEF TxSays, PoolNodes
      <3>4. ASSUME NEW k \in 1..n PROVE ~Rooted(y.nodes[k])
        <4>1. m + k \in (i + 1)..(m + n)
          BY <1>1, <2>2
        <4> QED
          BY <1>1, <2>1, <4>1
      <3> QED
        BY <1>0, <3>3, <3>4 DEF TxSays
    <2>3. CASE i - m \in 1..n /\ i = m + (i - m)
      <3> DEFINE k == i - m
      <3>1. l.nodes[i] = y.nodes[k] /\ k \in 1..n
        BY <1>1, <2>3
      <3>2. ASSUME NEW j \in (k + 1)..n PROVE ~Rooted(y.nodes[j])
        <4>1. m + j \in (i + 1)..(m + n) /\ j \in 1..n
          BY <1>1, <2>3
        <4> QED
          BY <1>1, <2>1, <4>1
      <3> HIDE DEF k
      <3>3. LastIn(y.nodes, n, d)
        BY <2>1, <3>1, <3>2 DEF LastIn
      <3> QED
        BY <1>0, <3>3 DEF TxSays, PoolNodes
    <2> QED
      BY <1>2, <2>2, <2>3
  <1> QED
    BY <1>1, <1>3, <1>4 DEF PoolNodes, TxSays

\* What the nodes of one ledger leave: a Registry, a flag, and a balance only if the
\* pool was known at the last node of the account.
AfterTo(nodes, n, ids, f) ==
  [i \in 0..n |->
     IF i = 0 THEN [known |-> ids, marked |-> marked, row |-> NoXrp]
     ELSE IF nodes[i].type = "AMM" THEN AmmObject(nodes[i], f[i - 1])
     ELSE AccountRoot(nodes[i], f[i - 1])]

LEMMA AftersExist ==
  ASSUME NEW nodes, NEW n \in Nat, NEW ids
  PROVE  \E f : f = AfterTo(nodes, n, ids, f)
  <1> DEFINE bad == {m \in Nat : ~\E f : f = AfterTo(nodes, m, ids, f)}
             Zero == [known |-> ids, marked |-> marked, row |-> NoXrp]
             Step(m, s) == IF nodes[m].type = "AMM" THEN AmmObject(nodes[m], s)
                           ELSE AccountRoot(nodes[m], s)
  <1>0. \A m, f : AfterTo(nodes, m, ids, f) = [i \in 0..m |-> IF i = 0 THEN Zero ELSE Step(i, f[i - 1])]
    BY DEF AfterTo
  <1> HIDE DEF Zero, Step
  <1>1. ASSUME NEW m \in bad, \A y \in bad : m <= y PROVE FALSE
    <2>1. CASE m = 0
      <3> DEFINE f == [i \in 0..0 |-> Zero]
      <3>1. f = AfterTo(nodes, 0, ids, f)
        BY <1>0
      <3> QED
        BY <2>1, <3>1
    <2>2. CASE m # 0
      <3>1. m - 1 \in Nat /\ m - 1 \notin bad
        BY <1>1, <2>2
      <3>2. PICK g : g = AfterTo(nodes, m - 1, ids, g)
        BY <3>1
      <3>3. \A i \in 0..(m - 1) : g[i] = IF i = 0 THEN Zero ELSE Step(i, g[i - 1])
        BY <1>0, <3>2
      <3> DEFINE f == [i \in 0..m |-> IF i < m THEN g[i] ELSE Step(m, g[m - 1])]
      <3>4. \A i \in 0..m : f[i] = IF i = 0 THEN Zero ELSE Step(i, f[i - 1])
        BY <2>2, <3>1, <3>3
      <3>5. f = [i \in 0..m |-> f[i]]
        OBVIOUS
      <3> HIDE DEF f
      <3>6. f = [i \in 0..m |-> IF i = 0 THEN Zero ELSE Step(i, f[i - 1])]
        BY <3>4, <3>5, Zenon
      <3>7. f = AfterTo(nodes, m, ids, f)
        BY <1>0, <3>6, Zenon
      <3> QED
        BY <3>7
    <2> QED
      BY <2>1, <2>2
  <1>2. bad = {}
    <2> HIDE DEF bad
    <2>1. bad \in SUBSET Nat
      BY DEF bad
    <2> QED
      BY <1>1, <2>1, LeastNat
  <1> QED
    BY <1>2

Outcome == [known : SUBSET Ids, marked : BOOLEAN, row : Drops \cup {NoXrp}]
OutcomeOk(s, nodes, n) ==
  /\ s \in Outcome
  /\ s.row # NoXrp => Number(Pool) \in s.known /\ LastIn(nodes, n, s.row)

LEMMA ProcessIs ==
  ASSUME marked \in BOOLEAN, NEW seq, PoolNodes(history[seq]), NEW ids \in SUBSET Ids
  PROVE  OutcomeOk(Process(seq, ids), history[seq].nodes, Len(history[seq].nodes))
  <1> DEFINE nodes == history[seq].nodes
             n == Len(nodes)
             new == Process(seq, ids)
             id == Number(Pool)
  <1>1. /\ n \in Nat
        /\ \A i \in 1..n : /\ nodes[i].type \in {"AMM", "AccountRoot"}
                           /\ Rooted(nodes[i]) => nodes[i].drops \in Drops
    BY DEF PoolNodes, IsSeq
  <1>2. PICK f : f = AfterTo(nodes, n, ids, f) /\ new = f[n]
    <2>1. \E f : f = AfterTo(nodes, n, ids, f)
      BY <1>1, AftersExist
    <2>2. new = (CHOOSE f : f = AfterTo(nodes, n, ids, f))[n]
      BY DEF Process, AfterTo
    <2> QED
      BY <2>1, <2>2
  <1> HIDE DEF nodes, n, new
  <1>3. /\ f[0] = [known |-> ids, marked |-> marked, row |-> NoXrp]
        /\ \A i \in 1..n : f[i] = IF nodes[i].type = "AMM" THEN AmmObject(nodes[i], f[i - 1])
                                  ELSE AccountRoot(nodes[i], f[i - 1])
    <2>1. \A i \in 0..n : f[i] = IF i = 0 THEN [known |-> ids, marked |-> marked, row |-> NoXrp]
                                 ELSE IF nodes[i].type = "AMM" THEN AmmObject(nodes[i], f[i - 1])
                                 ELSE AccountRoot(nodes[i], f[i - 1])
      BY <1>2 DEF AfterTo
    <2>2. 0 \in 0..n /\ \A i \in 1..n : i \in 0..n /\ i # 0
      BY <1>1
    <2> QED
      BY <2>1, <2>2
  <1>4. ASSUME NEW i \in 1..n, OutcomeOk(f[i - 1], nodes, i - 1) PROVE OutcomeOk(f[i], nodes, i)
    <2> DEFINE s == f[i - 1]
               x == nodes[i]
    <2>1. s \in Outcome /\ (s.row # NoXrp => id \in s.known /\ LastIn(nodes, i - 1, s.row))
      BY <1>4 DEF OutcomeOk
    <2>2. ASSUME ~Rooted(x), NEW d, LastIn(nodes, i - 1, d) PROVE LastIn(nodes, i, d)
      <3>1. PICK k \in 1..(i - 1) : Rooted(nodes[k]) /\ nodes[k].drops = d /\ \A j \in (k + 1)..(i - 1) : ~Rooted(nodes[j])
        BY <2>2 DEF LastIn
      <3>2. k \in 1..i /\ \A j \in (k + 1)..i : j = i \/ j \in (k + 1)..(i - 1)
        BY <1>1
      <3>3. \A j \in (k + 1)..i : ~Rooted(nodes[j])
        BY <2>2, <3>1, <3>2
      <3> QED
        BY <3>1, <3>2, <3>3 DEF LastIn
    <2>3. CASE x.type = "AMM"
      <3>1. f[i] = IF x.change = "deleted" THEN s ELSE [s EXCEPT !.known = @ \cup {id}, !.marked = TRUE]
        BY <1>3, <2>3 DEF AmmObject
      <3>2. ~Rooted(x) /\ id \in Ids
        BY <2>3 DEF Rooted, Ids
      <3> HIDE DEF s, x, id
      <3>3. f[i] \in Outcome /\ f[i].row = s.row /\ s.known \subseteq f[i].known
        <4>1. CASE x.change = "deleted"
          BY <2>1, <3>1, <4>1
        <4>2. CASE x.change # "deleted"
          <5> DEFINE t == f[i]
          <5>1. t = [s EXCEPT !.known = s.known \cup {id}, !.marked = TRUE]
            BY <3>1, <4>2
          <5>2. s = [known |-> s.known, marked |-> s.marked, row |-> s.row]
                /\ s.known \cup {id} \in SUBSET Ids /\ s.row \in Drops \cup {NoXrp}
            BY <2>1, <3>2 DEF Outcome
          <5> HIDE DEF t
          <5>3. t = [known |-> s.known \cup {id}, marked |-> TRUE, row |-> s.row]
            BY <5>1, <5>2
          <5>4. t \in Outcome /\ t.row = s.row /\ s.known \subseteq t.known
            BY <5>2, <5>3 DEF Outcome
          <5> QED
            BY <5>4 DEF t
        <4> QED
          BY <4>1, <4>2
      <3> QED
        BY <2>1, <2>2, <3>2, <3>3 DEF OutcomeOk, id
    <2>4. CASE x.type # "AMM"
      <3>0. x.type = "AccountRoot"
        BY <1>1, <2>4
      <3>1. f[i] = IF x.change # "deleted" /\ id \in s.known THEN [s EXCEPT !.row = x.drops] ELSE s
        BY <1>3, <2>4 DEF AccountRoot
      <3>2. CASE x.change = "deleted"
        <4>1. ~Rooted(x) /\ f[i] = s
          BY <3>1, <3>2 DEF Rooted
        <4> QED
          BY <2>1, <2>2, <4>1 DEF OutcomeOk
      <3>3. CASE x.change # "deleted" /\ id \notin s.known
        <4>1. f[i] = s /\ s.row = NoXrp
          BY <2>1, <3>1, <3>3
        <4> QED
          BY <2>1, <4>1 DEF OutcomeOk
      <3>4. CASE x.change # "deleted" /\ id \in s.known
        <4>1. Rooted(x) /\ x.drops \in Drops
          BY <1>1, <3>0, <3>4 DEF Rooted
        <4>2. LastIn(nodes, i, x.drops)
          <5>1. i \in 1..i /\ \A j \in (i + 1)..i : FALSE
            BY <1>1
          <5> QED
            BY <4>1, <5>1 DEF LastIn
        <4>3. f[i] = [s EXCEPT !.row = x.drops]
          BY <3>1, <3>4
        <4> HIDE DEF s, x, id
        <4>4. f[i] \in Outcome /\ f[i].row = x.drops /\ f[i].known = s.known
          BY <2>1, <4>1, <4>3 DEF Outcome
        <4> QED
          BY <3>4, <4>2, <4>4 DEF OutcomeOk, id
      <3> QED
        BY <3>2, <3>3, <3>4
    <2> QED
      BY <2>3, <2>4
  <1>5. OutcomeOk(f[0], nodes, 0)
    BY <1>3 DEF OutcomeOk, Outcome
  <1>6. \A i \in 0..n : OutcomeOk(f[i], nodes, i)
    <2> DEFINE bad == {i \in 0..n : ~OutcomeOk(f[i], nodes, i)}
    <2>1. ASSUME NEW m \in bad, \A y \in bad : m <= y PROVE FALSE
      <3>1. m # 0
        BY <1>5, <2>1
      <3>2. m \in 1..n /\ m - 1 \in 0..n /\ ~(m <= m - 1)
        BY <1>1, <2>1, <3>1
      <3>3. m - 1 \notin bad
        BY <2>1, <3>2
      <3> QED
        BY <1>4, <2>1, <3>2, <3>3
    <2>2. bad = {}
      <3>1. bad \in SUBSET Nat
        BY <1>1
      <3> HIDE DEF bad
      <3> QED
        BY <2>1, <3>1, LeastNat
    <2> QED
      BY <2>2
  <1>7. OutcomeOk(new, nodes, n)
    BY <1>1, <1>2, <1>6
  <1> QED
    BY <1>7 DEF nodes, n, new

-----------------------------------------------------------------------------
(* The steps. *)

\* The chain, and what was said of its ledgers, stay.
PoolStays == /\ PoolChain' /\ Latest \in Nat /\ Latest' \in Nat /\ Latest' >= Latest
             /\ \A k \in 1..Latest : history'[k] = history[k]

LEMMA PoolChainKept == ASSUME PoolChain, history' = history PROVE PoolStays
  <1>1. PoolChain' /\ Latest' = Latest
    <2>1. Latest' = Latest /\ IsSeq(history') /\ Latest' # 0 /\ \A k \in 1..Latest' : PoolNodes(history'[k])
      BY DEF PoolChain, Latest
    <2> QED
      BY <2>1 DEF PoolChain, PoolNodes
  <1>2. Latest \in Nat
    BY DEF PoolChain, IsSeq, Latest
  <1> QED
    BY <1>1, <1>2 DEF PoolStays

LEMMA PoolCloses == ASSUME PoolChain, PoolLedgerCloses PROVE PoolStays
  <1>0. IsSeq(history) /\ Latest \in Nat /\ Latest # 0 /\ \A k \in 1..Latest : PoolNodes(history[k])
    BY DEF PoolChain, IsSeq, Latest
  <1> DEFINE xrp == history[Latest].post
  <1>1. xrp \in Drops \cup {NoXrp}
    BY <1>0 DEF PoolNodes
  <1>2. \E x \in Transactions(xrp) :
          \/ history' = Append(history, [nodes |-> x.nodes, post |-> x.post])
          \/ x.post # NoXrp /\ \E y \in Transactions(x.post) :
               history' = Append(history, [nodes |-> x.nodes \o y.nodes, post |-> y.post])
    BY DEF PoolLedgerCloses, Latest
  <1>3. PICK l : history' = Append(history, l) /\ PoolNodes(l)
    <2>1. PICK x \in Transactions(xrp) :
            \/ history' = Append(history, [nodes |-> x.nodes, post |-> x.post])
            \/ x.post # NoXrp /\ \E y \in Transactions(x.post) :
                 history' = Append(history, [nodes |-> x.nodes \o y.nodes, post |-> y.post])
      BY <1>2
    <2> HIDE DEF xrp
    <2>2. TxSays(xrp, x)
      BY <1>1, TransactionSays
    <2>3. CASE history' = Append(history, [nodes |-> x.nodes, post |-> x.post])
      <3> DEFINE l == [nodes |-> x.nodes, post |-> x.post]
      <3>1. l.nodes = x.nodes /\ l.post = x.post /\ history' = Append(history, l)
        BY <2>3
      <3> HIDE DEF l
      <3>2. PoolNodes(l)
        BY <2>2, <3>1 DEF TxSays, PoolNodes
      <3> QED
        BY <3>1, <3>2
    <2>4. ASSUME x.post # NoXrp, NEW y \in Transactions(x.post),
                 history' = Append(history, [nodes |-> x.nodes \o y.nodes, post |-> y.post])
          PROVE  \E l : history' = Append(history, l) /\ PoolNodes(l)
      <3> DEFINE l == [nodes |-> x.nodes \o y.nodes, post |-> y.post]
      <3>1. l.nodes = x.nodes \o y.nodes /\ l.post = y.post /\ history' = Append(history, l)
        BY <2>4
      <3> HIDE DEF l
      <3>2. x.post \in Drops \cup {NoXrp}
        BY <2>2 DEF TxSays, PoolNodes
      <3>3. TxSays(x.post, y)
        BY <3>2, TransactionSays
      <3>4. PoolNodes(l)
        BY <2>2, <2>4, <3>1, <3>3, TwoSay
      <3> QED
        BY <3>1, <3>4
    <2> QED
      BY <2>1, <2>3, <2>4
  <1>4. /\ IsSeq(history') /\ Latest' = Latest + 1 /\ history'[Latest + 1] = l
        /\ \A k \in 1..Latest : history'[k] = history[k]
    BY <1>0, <1>3, AppendIs DEF Latest
  <1>5. \A k \in 1..Latest' : PoolNodes(history'[k])
    <2>1. \A k \in 1..(Latest + 1) : k \in 1..Latest \/ k = Latest + 1
      BY <1>0
    <2> QED
      BY <1>0, <1>3, <1>4, <2>1
  <1>6. Latest' \in Nat /\ Latest' # 0 /\ Latest' >= Latest
    BY <1>0, <1>4
  <1>7. PoolChain'
    BY <1>4, <1>5, <1>6 DEF PoolChain, PoolNodes
  <1> QED
    BY <1>0, <1>4, <1>6, <1>7 DEF PoolStays

\* Where neither the rows nor the order change, the rest stays true.
LEMMA RowsStay ==
  ASSUME PoolInv, PoolStays, rows' = rows, UNCHANGED orderVars,
         marked' \in BOOLEAN, known' \in [Processes -> SUBSET Ids]
  PROVE  PoolInv'
  <1>1. low' = low /\ tip' = tip /\ snapSeq' = snapSeq /\ fresh' = fresh /\ waived' = waived
    BY DEF orderVars
  <1>2. PoolOrder' /\ tip \in 0..Latest /\ low \in 0..tip
    BY <1>1 DEF PoolInv, PoolOrder, PoolStays
  <1>3. \A k \in DOMAIN rows : k \in 1..Latest
    BY <1>2 DEF PoolInv, RowsInv, PoolStays
  <1>4. RowsInv'
    <2>1. tip \in DOMAIN rows => history'[tip] = history[tip]
      BY <1>3 DEF PoolStays
    <2> QED
      <3>1. /\ rows' = [k \in DOMAIN rows' |-> rows'[k]]
            /\ \A k \in DOMAIN rows' : k \in low'..tip' /\ k # 0 /\ rows'[k] \in Drops
        BY <1>1 DEF PoolInv, RowsInv
      <3>2. tip' \in DOMAIN rows' /\ tip' # snapSeq' =>
              LastIn(history'[tip'].nodes, Len(history'[tip'].nodes), rows'[tip'])
        BY <1>1, <2>1 DEF PoolInv, RowsInv
      <3> QED
        BY <3>1, <3>2 DEF RowsInv, LastIn, Rooted
  <1>6. ReserveExact'
    BY <1>3 DEF PoolInv, PoolStays, ReserveExact
  <1>5. Ids' = Ids /\ Processes' = Processes
    BY DEF Ids, Processes, Number, Text
  <1> QED
    BY <1>2, <1>4, <1>5, <1>6 DEF PoolInv, PoolStays

\* The handlers keep the Registries and the flag typed.
LEMMA Registered ==
  ASSUME PoolInv, NEW p \in Processes, NEW s \in Outcome,
         known' = [known EXCEPT ![p] = s.known], marked' = s.marked
  PROVE  known' \in [Processes -> SUBSET Ids] /\ marked' \in BOOLEAN
  BY DEF PoolInv, Outcome

\* A ledger taken by live sync: one above the top, or the top one again, with the
\* same last balance.
LiveRows ==
  /\ \A k \in DOMAIN rows : k \in DOMAIN rows' /\ rows'[k] = rows[k]
  /\ PoolInv'

LEMMA LiveReserve ==
  ASSUME PoolInv, NEW seq \in 1..Latest, LivePool(seq)
  PROVE  LiveRows
  <1> DEFINE s == Process(seq, known["live"])
             nodes == history[seq].nodes
  <1>1. PoolStays /\ history' = history /\ Latest' = Latest
    BY PoolChainKept DEF PoolInv, LivePool, Latest
  <1>2. /\ IF tip = 0 THEN low' = seq ELSE low' = low /\ (seq = tip + 1 \/ (seq = tip /\ tip # snapSeq))
        /\ tip' = seq /\ snapSeq' = snapSeq /\ fresh' = fresh /\ waived' = waived
        /\ known' = [known EXCEPT !["live"] = s.known] /\ marked' = s.marked
        /\ rows' = Upserted(seq, s.row)
    BY DEF LivePool, LiveAt
  <1>3. OutcomeOk(s, nodes, Len(nodes)) /\ PoolNodes(history[seq])
    <2>1. PoolNodes(history[seq]) /\ known["live"] \in SUBSET Ids /\ marked \in BOOLEAN
      BY DEF PoolInv, PoolChain, Processes
    <2> QED
      BY <2>1, ProcessIs
  <1> HIDE DEF s
  <1>4. s \in Outcome /\ s.row \in Drops \cup {NoXrp} /\ (s.row # NoXrp => LastIn(nodes, Len(nodes), s.row))
    BY <1>3 DEF OutcomeOk, Outcome
  <1>5. /\ rows' = [k \in DOMAIN rows' |-> rows'[k]]
        /\ DOMAIN rows' = DOMAIN rows \cup (IF s.row = NoXrp THEN {} ELSE {seq})
        /\ s.row # NoXrp => rows'[seq] = s.row
        /\ \A k \in DOMAIN rows : k # seq \/ s.row = NoXrp => rows'[k] = rows[k]
    BY <1>2 DEF Upserted
  <1>6. /\ low \in 0..tip /\ tip \in 0..Latest /\ snapSeq \in 0..tip /\ (low = 0 <=> tip = 0) /\ Latest \in Nat
        /\ \A k \in DOMAIN rows : k \in low..tip /\ k # 0 /\ rows[k] \in Drops
    BY <1>1 DEF PoolInv, PoolOrder, RowsInv, PoolStays
  <1>7. seq \in DOMAIN rows => tip # 0 /\ seq = tip /\ tip # snapSeq
    BY <1>2, <1>6
  <1>8. seq \in DOMAIN rows => LastIn(nodes, Len(nodes), rows[seq])
    BY <1>7 DEF PoolInv, RowsInv
  <1>9. \A k \in DOMAIN rows : k \in DOMAIN rows' /\ rows'[k] = rows[k]
    <2>1. ASSUME seq \in DOMAIN rows, s.row # NoXrp PROVE rows'[seq] = rows[seq]
      <3>1. Len(nodes) \in Nat
        BY <1>3 DEF PoolNodes, IsSeq
      <3> HIDE DEF nodes
      <3>2. s.row = rows[seq]
        BY <1>4, <1>8, <2>1, <3>1, OneLast
      <3> QED
        BY <1>5, <2>1, <3>2
    <2> QED
      BY <1>5, <2>1
  <1>10. PoolOrder'
    BY <1>1, <1>2, <1>6 DEF PoolInv, PoolOrder
  <1>11. RowsInv'
    <2>1. \A k \in DOMAIN rows' : k \in low'..tip' /\ k # 0 /\ rows'[k] \in Drops
      <3>1. ASSUME NEW k \in DOMAIN rows PROVE k \in low'..tip' /\ k # 0 /\ rows'[k] \in Drops
        <4>1. tip # 0 /\ low' = low /\ tip' >= tip
          BY <1>2, <1>6
        <4> QED
          BY <1>2, <1>6, <1>9, <4>1
      <3>2. ASSUME s.row # NoXrp PROVE seq \in low'..tip' /\ seq # 0 /\ rows'[seq] \in Drops
        <4>1. low' <= seq
          BY <1>2, <1>6
        <4> QED
          BY <1>2, <1>4, <1>5, <1>6, <3>2, <4>1
      <3> QED
        BY <1>5, <3>1, <3>2
    <2>2. seq \in DOMAIN rows' => LastIn(nodes, Len(nodes), rows'[seq])
      BY <1>4, <1>5, <1>8, <1>9
    <2> QED
      BY <1>1, <1>2, <1>5, <2>1, <2>2 DEF RowsInv, LastIn, Rooted
  <1>12. ReserveExact'
    <2>1. s.row # NoXrp => s.row = history[seq].post \/ history[seq].post = NoXrp
      BY <1>3, <1>4 DEF PoolNodes
    <2>2. \A k \in DOMAIN rows' : rows'[k] = history[k].post \/ history[k].post = NoXrp
      BY <1>5, <1>9, <2>1 DEF PoolInv, ReserveExact
    <2> QED
      BY <1>1, <2>2 DEF ReserveExact
  <1>13. known' \in [Processes -> SUBSET Ids] /\ marked' \in BOOLEAN
    <2>1. "live" \in Processes
      BY DEF Processes
    <2> QED
      BY <1>2, <1>4, <2>1, Registered
  <1>14. Ids' = Ids /\ Processes' = Processes
    BY DEF Ids, Processes, Number, Text
  <1> QED
    BY <1>1, <1>9, <1>10, <1>11, <1>12, <1>13, <1>14 DEF LiveRows, PoolInv, PoolStays

\* A balance inserted below the bottom, or at the snapshot's ledger.
LEMMA InsertReserve ==
  ASSUME PoolInv, PoolStays, history' = history, NEW seq \in 1..Latest, NEW b \in Drops \cup {NoXrp},
         b # NoXrp => b = history[seq].post \/ history[seq].post = NoXrp,
         rows' = Inserted(seq, b),
         PoolOrder', low' <= seq, seq <= tip', tip = 0 \/ (tip' = tip /\ low' <= low),
         seq # tip' \/ tip' = snapSeq', snapSeq' = snapSeq \/ snapSeq' = tip',
         known' \in [Processes -> SUBSET Ids], marked' \in BOOLEAN
  PROVE  LiveRows
  <1>1. /\ rows' = [k \in DOMAIN rows' |-> rows'[k]]
        /\ DOMAIN rows' = DOMAIN rows \cup (IF b = NoXrp THEN {} ELSE {seq})
        /\ seq \notin DOMAIN rows /\ b # NoXrp => rows'[seq] = b
        /\ \A k \in DOMAIN rows : rows'[k] = rows[k]
    BY DEF Inserted
  <1>2. /\ low \in 0..tip /\ tip \in 0..Latest /\ (low = 0 <=> tip = 0) /\ Latest \in Nat /\ Latest' = Latest
        /\ \A k \in DOMAIN rows : k \in low..tip /\ k # 0 /\ rows[k] \in Drops
        /\ low' \in Int /\ tip' \in Int
    BY DEF PoolInv, PoolOrder, RowsInv, PoolStays, Latest
  <1>3. RowsInv'
    <2>1. \A k \in DOMAIN rows' : k \in low'..tip' /\ k # 0 /\ rows'[k] \in Drops
      <3>1. ASSUME NEW k \in DOMAIN rows PROVE k \in low'..tip' /\ k # 0 /\ rows'[k] \in Drops
        <4>1. tip # 0 /\ k \in low..tip
          BY <1>2
        <4> QED
          BY <1>1, <1>2, <4>1
      <3>2. ASSUME b # NoXrp, seq \notin DOMAIN rows PROVE seq \in low'..tip' /\ seq # 0 /\ rows'[seq] \in Drops
        BY <1>1, <1>2, <3>2
      <3> QED
        BY <1>1, <3>1, <3>2
    <2>2. ASSUME tip' \in DOMAIN rows', tip' # snapSeq'
          PROVE  LastIn(history[tip'].nodes, Len(history[tip'].nodes), rows'[tip'])
      <3>1. tip' \in DOMAIN rows /\ snapSeq' = snapSeq
        BY <1>1, <2>2
      <3>2. tip' = tip
        BY <1>2, <3>1
      <3> QED
        BY <1>1, <2>2, <3>1, <3>2 DEF PoolInv, RowsInv
    <2> QED
      BY <1>1, <2>1, <2>2 DEF RowsInv, LastIn, Rooted
  <1>4. ReserveExact'
    <2>1. \A k \in DOMAIN rows' : rows'[k] = history[k].post \/ history[k].post = NoXrp
      BY <1>1 DEF PoolInv, ReserveExact
    <2> QED
      BY <2>1 DEF ReserveExact
  <1>5. Ids' = Ids /\ Processes' = Processes
    BY DEF Ids, Processes, Number, Text
  <1> QED
    BY <1>1, <1>3, <1>4, <1>5 DEF LiveRows, PoolInv, PoolStays

LEMMA BackfillReserve ==
  ASSUME PoolInv, NEW seq \in 1..Latest, BackfillPool(seq)
  PROVE  LiveRows
  <1> DEFINE s == Process(seq, known["backfill"])
             nodes == history[seq].nodes
  <1>1. PoolStays /\ history' = history /\ Latest' = Latest
    BY PoolChainKept DEF PoolInv, BackfillPool, Latest
  <1>2. /\ seq \in waived \cup {low - 1} /\ seq > 0 /\ low' = (IF seq < low THEN seq ELSE low)
        /\ waived' = waived \ {seq} /\ tip' = tip /\ snapSeq' = snapSeq /\ fresh' = fresh
        /\ known' = [known EXCEPT !["backfill"] = s.known] /\ marked' = s.marked
        /\ rows' = Inserted(seq, s.row)
    BY DEF BackfillPool, BackfillAt
  <1>3. OutcomeOk(s, nodes, Len(nodes)) /\ PoolNodes(history[seq])
    <2>1. PoolNodes(history[seq]) /\ known["backfill"] \in SUBSET Ids /\ marked \in BOOLEAN
      BY DEF PoolInv, PoolChain, Processes
    <2> QED
      BY <2>1, ProcessIs
  <1> HIDE DEF s
  <1>4. s \in Outcome /\ s.row \in Drops \cup {NoXrp} /\ (s.row # NoXrp => LastIn(nodes, Len(nodes), s.row))
    BY <1>3 DEF OutcomeOk, Outcome
  <1>5. s.row # NoXrp => s.row = history[seq].post \/ history[seq].post = NoXrp
    BY <1>3, <1>4 DEF PoolNodes
  <1>6. /\ low \in 0..tip /\ tip \in 0..Latest /\ snapSeq \in 0..tip /\ (low = 0 <=> tip = 0) /\ Latest \in Nat
        /\ waived = {} /\ fresh \in BOOLEAN
    BY <1>1 DEF PoolInv, PoolOrder, PoolStays
  <1>7. seq = low - 1 /\ low' = seq /\ seq < tip /\ tip # 0 /\ waived' = {}
    BY <1>2, <1>6
  <1>8. PoolOrder'
    BY <1>1, <1>2, <1>6, <1>7 DEF PoolOrder
  <1>9. known' \in [Processes -> SUBSET Ids] /\ marked' \in BOOLEAN
    <2>1. "backfill" \in Processes
      BY DEF Processes
    <2> QED
      BY <1>2, <1>4, <2>1, Registered
  <1>10. low' <= seq /\ seq <= tip' /\ tip' = tip /\ low' <= low /\ seq # tip'
    BY <1>2, <1>6, <1>7
  <1> QED
    BY <1>1, <1>2, <1>4, <1>5, <1>8, <1>9, <1>10, InsertReserve

LEMMA SnapshotReserve == ASSUME PoolInv, SnapshotPool PROVE LiveRows
  <1> DEFINE seq == IF tip # 0 THEN tip ELSE Latest
             xrp == history[seq].post
  <1>1. PoolStays /\ history' = history /\ Latest' = Latest
    BY PoolChainKept DEF PoolInv, SnapshotPool, Latest
  <1>2. /\ snapSeq = 0 /\ seq # 0 /\ (IF tip = 0 THEN low' = seq ELSE tip = seq /\ low' = low)
        /\ fresh' = (tip = 0) /\ tip' = seq /\ snapSeq' = seq /\ waived' = waived
        /\ rows' = Inserted(seq, xrp) /\ known' = known /\ marked' = (marked \/ xrp # NoXrp)
    BY DEF SnapshotPool, SnapshotAt, Latest
  <1>3. /\ low \in 0..tip /\ tip \in 0..Latest /\ snapSeq \in 0..tip /\ (low = 0 <=> tip = 0) /\ Latest \in Nat
        /\ waived = {} /\ Latest # 0
    BY <1>1 DEF PoolInv, PoolOrder, PoolStays, PoolChain
  <1>4. seq \in 1..Latest
    BY <1>3
  <1>5. xrp \in Drops \cup {NoXrp}
    <2> HIDE DEF seq
    <2> QED
      BY <1>4 DEF PoolInv, PoolChain, PoolNodes
  <1> HIDE DEF seq, xrp
  <1>6. PoolOrder'
    BY <1>1, <1>2, <1>3, <1>4 DEF PoolOrder
  <1>7. known' \in [Processes -> SUBSET Ids] /\ marked' \in BOOLEAN
    BY <1>2 DEF PoolInv
  <1>8. low' <= seq /\ seq <= tip' /\ (tip = 0 \/ (tip' = tip /\ low' <= low)) /\ tip' = snapSeq'
    BY <1>2, <1>3, <1>4
  <1>9. xrp # NoXrp => xrp = history[seq].post
    BY DEF xrp
  <1> QED
    BY <1>1, <1>2, <1>4, <1>5, <1>6, <1>7, <1>8, <1>9, InsertReserve

LEMMA StayReserve ==
  ASSUME PoolInv,
         \/ PoolLedgerCloses
         \/ \E p \in Processes : Restart(p)
         \/ UNCHANGED poolVars
  PROVE  LiveRows
  <1>1. rows' = rows /\ UNCHANGED orderVars /\ marked' = marked
    BY DEF PoolLedgerCloses, Restart, poolVars, orderVars
  <1>2. PoolStays
    <2>1. CASE PoolLedgerCloses
      BY <2>1, PoolCloses DEF PoolInv
    <2>2. CASE history' = history
      BY <2>2, PoolChainKept DEF PoolInv
    <2> QED
      BY <2>1, <2>2 DEF Restart, poolVars
  <1>3. known' \in [Processes -> SUBSET Ids]
    <2>1. CASE known' = known
      BY <2>1 DEF PoolInv
    <2>2. CASE \E p \in Processes : known' = [known EXCEPT ![p] = Loaded]
      <3>1. Loaded \in SUBSET Ids
        BY DEF Loaded, Ids
      <3> QED
        BY <2>2, <3>1 DEF PoolInv
    <2> QED
      BY <2>1, <2>2 DEF PoolLedgerCloses, Restart, poolVars
  <1>4. PoolInv'
    BY <1>1, <1>2, <1>3, RowsStay DEF PoolInv
  <1> QED
    BY <1>1, <1>4 DEF LiveRows

LEMMA ReserveStep == ASSUME PoolInv, [PoolNext]_poolVars PROVE LiveRows
  <1>1. CASE PoolLedgerCloses \/ UNCHANGED poolVars
    BY <1>1, StayReserve
  <1>2. CASE LiveStart \/ BackfillStart
    <2>1. \E p \in Processes : Restart(p)
      BY <1>2 DEF LiveStart, BackfillStart, Processes
    <2> QED
      BY <2>1, StayReserve
  <1>3. CASE SnapshotPool
    BY <1>3, SnapshotReserve
  <1>4. ASSUME NEW seq \in 1..Latest, LivePool(seq) \/ BackfillPool(seq) PROVE LiveRows
    BY <1>4, LiveReserve, BackfillReserve
  <1> QED
    BY <1>1, <1>2, <1>3, <1>4 DEF PoolNext, Latest

LEMMA ReserveInit == ASSUME PoolInit PROVE PoolInv
  <1>1. PICK xrp \in Drops \cup {NoXrp} : history = <<[nodes |-> <<>>, post |-> xrp]>>
    BY DEF PoolInit
  <1> DEFINE l == [nodes |-> <<>>, post |-> xrp]
  <1>2. l.nodes = <<>> /\ l.post = xrp /\ history = <<l>>
    BY <1>1
  <1>3. IsSeq(l.nodes) /\ Len(l.nodes) = 0
    BY <1>2 DEF IsSeq
  <1> HIDE DEF l
  <1>4. PoolNodes(l)
    BY <1>2, <1>3 DEF PoolNodes, LastIn
  <1>5. IsSeq(history) /\ Latest = 1 /\ history[1] = l
    BY <1>2, OneNode DEF Latest
  <1>6. PoolChain
    <2>1. \A k \in 1..1 : k = 1
      OBVIOUS
    <2> QED
      BY <1>4, <1>5, <2>1 DEF PoolChain
  <1>7. low = 0 /\ tip = 0 /\ snapSeq = 0 /\ fresh = FALSE /\ waived = {}
    BY DEF PoolInit, OrderInit
  <1>8. PoolOrder
    <2>1. 0 \in 0..0 /\ 0 \in 0..1
      OBVIOUS
    <2> QED
      BY <1>5, <1>7, <2>1 DEF PoolOrder
  <1>9. rows = [k \in DOMAIN rows |-> rows[k]] /\ DOMAIN rows = {}
    BY DEF PoolInit
  <1>10. RowsInv /\ ReserveExact
    BY <1>9 DEF RowsInv, ReserveExact
  <1>11. marked \in BOOLEAN /\ known \in [Processes -> SUBSET Ids]
    BY DEF PoolInit
  <1> QED
    BY <1>6, <1>8, <1>10, <1>11 DEF PoolInv

-----------------------------------------------------------------------------
(* The theorems about PoolReserves. *)

\* The inductive invariant: the chain, the order of the writers, the rows and the
\* Registries (account.ts:29-36, amm.ts handleAmm, registry.ts init).
THEOREM PoolInvariance == PoolSpec => []PoolInv
  <1>1. PoolInit => PoolInv
    BY ReserveInit
  <1>2. PoolInv /\ [PoolNext]_poolVars => PoolInv'
    BY ReserveStep DEF LiveRows
  <1> QED
    BY <1>1, <1>2, PTL DEF PoolSpec

\* The flag, the Registries and the rows are what they should be.
THEOREM PoolTypes == PoolSpec => []PoolTypeOK
  <1>1. PoolInv => PoolTypeOK
    BY DEF PoolInv, PoolOrder, RowsInv, Ids, PoolTypeOK, Latest
  <1> QED
    BY <1>1, PoolInvariance, PTL

\* Every row is the pool's XRP at the end of its ledger, unless that ledger deleted the
\* pool, whichever writer put it there and whenever the pool became known
\* (account.ts:29-36, batch.ts balance).
THEOREM ReservesAreExact == PoolSpec => []ReserveExact
  <1>1. PoolInv => ReserveExact
    BY DEF PoolInv
  <1> QED
    BY <1>1, PoolInvariance, PTL

\* No row is changed or removed: a replay of the top ledger finds the same balance,
\* the other writers insert (batch.ts:131-139).
THEOREM ReserveRowsKept == PoolSpec => RowsKept
  <1>1. PoolInv /\ [PoolNext]_poolVars =>
          [\A k \in DOMAIN rows : k \in DOMAIN rows' /\ rows'[k] = rows[k]]_poolVars
    BY ReserveStep DEF LiveRows
  <1> QED
    BY <1>1, PoolInvariance, PTL DEF PoolSpec, RowsKept
=============================================================================
