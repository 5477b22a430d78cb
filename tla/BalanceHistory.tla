--------------------------- MODULE BalanceHistory ---------------------------
(***************************************************************************)
(* account_balance and the sparse metric tables: what the state snapshot,  *)
(* live sync (upwards, upserting) and backfill (downwards, DO NOTHING)     *)
(* derive from the trust lines and MPTs of the ledgers they process.       *)
(*                                                                         *)
(* The order in which ledgers are processed is LedgerOrder's.  Each is one *)
(* database transaction (process/ledger.ts), hence one action.  An account *)
(* is a number, ordered as rippled orders the two ends of a line; there is *)
(* one currency, so an IOU token is its issuer; an MPT is a number too.    *)
(* Ledger objects: <<"line", low, high>>, <<"issuance", issuer, mpt>> and  *)
(* <<"mptoken", holder, mpt>>.                                             *)
(***************************************************************************)
EXTENDS LedgerOrder, Sequences, FiniteSets, FiniteSetsExt, Functions

CONSTANTS
  Worlds,     \* sets of ledger objects that may exist; a history has one of them
  Amounts(_), \* balances an object may have, a line's signed from the low account's side
  MaxHead,    \* bound on the ledgers the network closes
  MaxChanges, \* bound on the changes of lines and MPTokens in all ledgers
  MaxSkips,   \* bound on the ledgers given up
  Absent      \* the state of an object that does not exist, the value of a field that is not there

ASSUME ObjectsAssumption ==
  \A world \in Worlds : IsFiniteSet(world) /\ \A o \in world :
    /\ o \in {"line", "issuance", "mptoken"} \X Nat \X Nat
    /\ o[1] = "line" => o[2] < o[3]
    /\ Amounts(o) \subseteq Int /\ Absent \notin Amounts(o)
    /\ o[1] # "line" => Amounts(o) \subseteq Nat
\* Two accounts share one line; an MPT is no account, has one issuer, who holds none of it.
ASSUME KeysAssumption ==
  \A world \in Worlds : \A o, p \in world :
    /\ {o[2], o[3]} = {p[2], p[3]} => o = p
    /\ o[1] # "line" /\ o[3] \in {p[2], p[3]} => p[1] # "line" /\ o[3] = p[3]
    /\ o[1] = "issuance" /\ p[1] = "issuance" /\ o[3] = p[3] => o = p
ASSUME BoundsAssumption ==
  /\ MaxHead \in Nat \ {0}
  /\ MaxChanges \in Nat
  /\ MaxSkips \in Nat

VARIABLES
  chain,    \* the validated ledgers: [nodes, post], what changed and the objects after
  rows,     \* table account_balance: <<account, token, ledger>> -> balance
  points,   \* the metric tables: <<metric, token, ledger>> -> value
  skips     \* how many times the backfill has given up a ledger

vars == <<chain, rows, points, skips, orderVars>>

Objects == DOMAIN chain[1].post
Parties == UNION {{o[2], o[3]} : o \in Objects}  \* accounts and tokens
Metrics == {"holders", "trustlines", "supply"}
States(o) == Amounts(o) \cup {Absent}
Newest  == Len(chain)

TypeOK ==
  /\ \A n \in DOMAIN chain :
       /\ \A o \in Objects : chain[n].post[o] \in States(o)
       /\ \A x \in Range(chain[n].nodes) : x.of \in Objects /\ {x.from, x.to} \subseteq States(x.of)
  /\ DOMAIN rows \subseteq Parties \X Parties \X (1..Newest)
  /\ \A k \in DOMAIN rows : rows[k] \in Int
  /\ DOMAIN points \subseteq Metrics \X Parties \X (1..Newest)
  /\ \A k \in DOMAIN points : points[k] \in Nat
  /\ low \in 0..tip /\ tip \in 0..Newest /\ snapSeq \in 0..tip /\ fresh \in BOOLEAN
  /\ waived \subseteq low..tip
  /\ skips \in 0..MaxSkips

\* f, and g where f has no value.
OrElse(f, g) == [x \in DOMAIN f \cup DOMAIN g |-> IF x \in DOMAIN f THEN f[x] ELSE g[x]]

-----------------------------------------------------------------------------
(* The network. *)

\* An object is created, changes its balance or something else, or is deleted;
\* an MPToken or an issuance only when its amount is 0.  Changes of their settings
\* are left out.
MayBecome(o, from, to) ==
  /\ from = Absent => to # Absent
  /\ o[1] # "line" /\ to = Absent => from = 0
  /\ o[1] # "line" => from # to

Amount(o, post) == IF o \notin DOMAIN post \/ post[o] = Absent THEN 0 ELSE post[o]

\* What is outstanding of an MPT is what its holders hold.
Conserved(post) ==
  \A o \in DOMAIN post : o[1] = "issuance" =>
    Amount(o, post) = MapThenSumSet(LAMBDA h : Amount(h, post),
                                    {h \in DOMAIN post : h[1] = "mptoken" /\ h[3] = o[3]})

Init ==
  /\ \E world \in Worlds : \E post \in [world -> UNION {States(o) : o \in world}] :
       /\ \A o \in world : post[o] \in States(o)
       /\ Conserved(post)
       /\ chain = <<[nodes |-> <<>>, post |-> post]>>
  /\ rows = <<>>
  /\ points = <<>>
  /\ skips = 0
  /\ OrderInit

\* An issuance that changes along with an MPToken does not count.
Weight(nodes) ==
  LET holdings == {i \in DOMAIN nodes : nodes[i].of[1] # "issuance"}
  IN IF holdings = {} THEN Len(nodes) ELSE Cardinality(holdings)
Changes == MapThenSumSet(LAMBDA n : Weight(chain[n].nodes), DOMAIN chain)

CloseLedger(nodes, post) ==
  /\ Newest < MaxHead
  /\ Changes + Weight(nodes) <= MaxChanges
  /\ Conserved(post)
  /\ chain' = Append(chain, [nodes |-> nodes, post |-> post])
  /\ UNCHANGED <<rows, points, skips, orderVars>>

Quiet == CloseLedger(<<>>, chain[Newest].post)

Node(o, from, to) == [of |-> o, from |-> from, to |-> to]

OneChange(o, a) ==
  LET post == chain[Newest].post IN
  /\ MayBecome(o, post[o], a)
  /\ CloseLedger(<<Node(o, post[o], a)>>, [post EXCEPT ![o] = a])

\* Two transactions, or one that changes two objects.
TwoChanges(o, a, p, b) ==
  LET post == chain[Newest].post
      mid  == [post EXCEPT ![o] = a]
  IN /\ o[2] <= p[2]  \* changes of two objects commute
     /\ o = p => Conserved(mid)
     /\ MayBecome(o, post[o], a)
     /\ MayBecome(p, mid[p], b)
     /\ CloseLedger(<<Node(o, post[o], a), Node(p, mid[p], b)>>, [mid EXCEPT ![p] = b])

-----------------------------------------------------------------------------
(* normalizeAffectedNodes, the handlers and LedgerBatch.                     *)

\* The balance field of a normalised node.  A zero MPTAmount is left out of the
\* metadata, so what is found is the one of PreviousFields, if that has it; a new
\* issuance has no OutstandingAmount.
Field(node) ==
  IF node.to # 0 \/ node.of[1] = "line" THEN node.to
  ELSE IF node.of[1] = "mptoken" THEN IF node.from = 0 THEN Absent ELSE node.from
  ELSE IF node.from = Absent THEN Absent ELSE 0

LineRow(o, raw) ==
  IF raw < 0 THEN [key |-> <<o[3], o[2]>>, balance |-> -raw]
             ELSE [key |-> <<o[2], o[3]>>, balance |-> raw]

\* handleRippleState: the sign says which end holds, a deleted line counts as zero.
RippleState(o, deleted, value) == {LineRow(o, IF deleted THEN 0 ELSE value)}

\* handleMpToken: a missing amount is zero.
MpToken(o, deleted, value) ==
  {[key |-> <<o[2], o[3]>>, balance |-> IF deleted \/ value = Absent THEN 0 ELSE value]}

\* handleMptIssuance: the issuer holds the negative of what is outstanding.
MptIssuance(o, deleted, value) ==
  {[key |-> <<o[2], o[3]>>, balance |-> -amount] :
     amount \in IF deleted THEN {0} ELSE {value} \ {Absent}}

\* Mutant: the balance of a deleted object is not set to zero.
HandleStale(o, deleted, value) ==
  CASE o[1] = "line"     -> RippleState(o, FALSE, IF deleted THEN 1 ELSE value)
    [] o[1] = "mptoken"  -> MpToken(o, FALSE, IF deleted THEN 1 ELSE value)
    [] o[1] = "issuance" -> MptIssuance(o, deleted, value)

\* The rows a handler writes for one node, none or one.
Handle(o, deleted, value) ==
  CASE o[1] = "line"     -> RippleState(o, deleted, value)
    [] o[1] = "mptoken"  -> MpToken(o, deleted, value)
    [] o[1] = "issuance" -> MptIssuance(o, deleted, value)

Written(nodes) == [i \in DOMAIN nodes |-> Handle(nodes[i].of, nodes[i].to = Absent, Field(nodes[i]))]

\* Mutant: within a ledger the first write for a key wins.
BatchFirstWins(nodes, seq) ==
  LET written == Written(nodes)
      Of(k)    == {i \in DOMAIN nodes : \E r \in written[i] : <<r.key[1], r.key[2], seq>> = k}
      Row(i)   == CHOOSE r \in written[i] : TRUE
      keys     == {<<r.key[1], r.key[2], seq>> : r \in UNION {written[i] : i \in DOMAIN nodes}}
  IN [k \in keys |-> Row(Min(Of(k))).balance]

\* The batch of one ledger: within it, later writes for the same key win.
Batch(nodes, seq) ==
  LET written == Written(nodes)
      Of(k)    == {i \in DOMAIN nodes : \E r \in written[i] : <<r.key[1], r.key[2], seq>> = k}
      Row(i)   == CHOOSE r \in written[i] : TRUE
      keys     == {<<r.key[1], r.key[2], seq>> : r \in UNION {written[i] : i \in DOMAIN nodes}}
  IN [k \in keys |-> Row(Max(Of(k))).balance]

Touched(batch) == {k[2] : k \in DOMAIN batch}

\* select distinct on (account_id) ... order by account_id, ledger_seq desc
History(table, a, t) == {n \in 1..Newest : <<a, t, n>> \in DOMAIN table}
LatestRow(table, a, t) ==
  LET h == History(table, a, t) IN IF h = {} THEN 0 ELSE table[<<a, t, Max(h)>>]

\* The three aggregates writeMetricPoints and recomputeAllMetrics select.
Aggregate(m, table, t) ==
  LET balance  == [a \in Parties |-> LatestRow(table, a, t)]
      positive == {a \in Parties : balance[a] > 0}
  IN CASE m = "holders"    -> Cardinality(positive)
       [] m = "trustlines" -> Cardinality({a \in Parties : balance[a] # 0})
       [] m = "supply"     -> SumFunctionOnSet(balance, positive)

\* appendMetricPoint: nothing is written if the value as of this ledger is the same.
PointsUpTo(m, t, seq) == {n \in 1..seq : <<m, t, n>> \in DOMAIN points}
IsCurrent(m, t, seq, value) ==
  LET h == PointsUpTo(m, t, seq) IN h # {} /\ points[<<m, t, Max(h)>>] = value

\* Mutant: a point is appended whether or not the value moved.
MetricPointsAlways(table, touched, seq) ==
  [k \in Metrics \X touched \X {seq} |-> Aggregate(k[1], table, k[2])]

MetricPoints(table, touched, seq) ==
  LET values == [k \in Metrics \X touched \X {seq} |-> Aggregate(k[1], table, k[2])]
  IN Restrict(values, {k \in DOMAIN values : ~IsCurrent(k[1], k[2], seq, values[k])})

-----------------------------------------------------------------------------
(* The writers. *)

\* The rows of the walk over all objects, each as a "created" node.
Walked(seq) ==
  LET post  == chain[seq].post
      found == UNION {Handle(o, FALSE, post[o]) : o \in {o \in Objects : post[o] # Absent}}
  IN [k \in {<<r.key[1], r.key[2], seq>> : r \in found} |->
        (CHOOSE r \in found : r.key = <<k[1], k[2]>>).balance]

\* recomputeAllMetrics: a point for every token with a row.
Recomputed(table, seq) ==
  [k \in Metrics \X {k[2] : k \in DOMAIN table} \X {seq} |-> Aggregate(k[1], table, k[2])]

\* runSnapshot, DO NOTHING on conflict.  Its ledger is the checkpoint, or on a
\* fresh database the validated ledger.
Snapshot ==
  LET seq == IF tip # 0 THEN tip ELSE Newest
      all == OrElse(rows, Walked(seq))
  IN /\ SnapshotAt(seq)
     /\ rows' = all
     /\ points' = OrElse(Recomputed(all, seq), points)
     /\ UNCHANGED <<chain, skips>>

\* Mutant: the metrics are recomputed before the balances are written.
ApplyMetricsFirst(seq) ==
  LET batch == Batch(chain[seq].nodes, seq)
  IN /\ rows' = OrElse(batch, rows)
     /\ points' = OrElse(MetricPoints(rows, Touched(batch), seq), points)

\* processLedger in live mode: rows are upserted, then the touched tokens'
\* metrics are recomputed from the latest rows.
Apply(seq) ==
  LET batch == Batch(chain[seq].nodes, seq)
      all   == OrElse(batch, rows)
  IN /\ rows' = all
     /\ points' = OrElse(MetricPoints(all, Touched(batch), seq), points)

LiveLedger(seq) ==
  /\ seq <= Newest
  /\ tip = 0 => seq = Newest
  /\ LiveAt(seq)
  /\ Apply(seq)
  /\ UNCHANGED <<chain, skips>>

\* processLedger in backfill mode: DO NOTHING on conflict, no metric points.
BackfillLedger(seq) ==
  /\ BackfillAt(seq)
  /\ rows' = OrElse(rows, Batch(chain[seq].nodes, seq))
  /\ UNCHANGED <<chain, points, skips>>

\* The ledger failed twice.
BackfillSkip(seq) ==
  /\ skips < MaxSkips
  /\ skips' = skips + 1
  /\ WaiveAt(seq)
  /\ UNCHANGED <<chain, rows, points>>

Next ==
  \/ Quiet
  \/ /\ Newest < MaxHead /\ Changes < MaxChanges
     /\ \/ \E o \in Objects : \E a \in States(o) : OneChange(o, a)
        \/ \E o, p \in Objects : \E a \in States(o), b \in States(p) : TwoChanges(o, a, p, b)
  \/ Snapshot
  \/ \E seq \in 1..MaxHead : LiveLedger(seq) \/ BackfillLedger(seq) \/ BackfillSkip(seq)

Spec == Init /\ [][Next]_vars

-----------------------------------------------------------------------------
(* What the tables promise. *)

\* What account a holds of token t in ledger n; the issuer of an MPT, the negative
\* of what is outstanding.
Holding(a, t, n) ==
  LET Held(kind, x, y) == Amount(<<kind, x, y>>, chain[n].post)
  IN CASE <<"mptoken", a, t>> \in Objects  -> Held("mptoken", a, t)
       [] <<"issuance", a, t>> \in Objects -> -Held("issuance", a, t)
       [] OTHER -> Max({0, Held("line", a, t), -Held("line", t, a)})

\* "Balance of account X as of ledger N" (tokens.ts, account_balance_asof_idx).
AsOf(a, t, n) == {m \in History(rows, a, t) : m <= n}

\* Objects deleted in the very ledger a fresh snapshot is taken at, and lines its low
\* end emptied there before the high end became the holder.  The snapshot does not
\* see that, and the backfill starts one ledger below, so nothing ever records
\* it: the backfill then brings an old balance back.
LostAtSnapshot ==
  IF fresh
    THEN {x.of : x \in {x \in Range(chain[snapSeq].nodes) :
            x.to = Absent \/ (x.to = 0 /\ Amount(x.of, chain[snapSeq].post) < 0)}}
    ELSE {}

\* The balance of a holds is read off these objects.
Sources(a, t) ==
  {<<"line", a, t>>, <<"line", t, a>>, <<"mptoken", a, t>>, <<"issuance", a, t>>} \cap Objects

Involved(t) == {a \in Parties : Sources(a, t) # {}}

\* Changes the handlers do not see: the holder of a line at its high end loses
\* all of it, either end becomes the issuer, or an MPToken is emptied.
Empties(x) == x.of[1] = "mptoken" /\ x.from \notin {0, Absent} /\ x.to = 0
Unseen(x, a) ==
  \/ Empties(x)
  \/ /\ x.of[1] = "line" /\ x.from # Absent
     /\ \/ a = x.of[3] /\ x.from < 0 /\ (x.to = Absent \/ x.to >= 0)
        \/ a = x.of[2] /\ x.from > 0 /\ x.to # Absent /\ x.to < 0

\* Since the last such change up to ledger n, a has held something again.
Seen(a, t, n) ==
  \A m \in 1..n :
    (\E x \in Range(chain[m].nodes) : x.of \in Sources(a, t) /\ Unseen(x, a)) =>
      \E j \in m..n : Holding(a, t, j) > 0

Known(a, t) == LostAtSnapshot \cap Sources(a, t) = {}

\* A row is what its account held in the row's own ledger, whichever writer put
\* it there, in whatever order and whatever was skipped, but for changes of that
\* ledger which the handlers do not see (trustline.ts, mpt.ts, batch.ts).
RowsExact ==
  \A k \in DOMAIN rows :
    \/ rows[k] = Holding(k[1], k[2], k[3])
    \/ \E x \in Range(chain[k[3]].nodes) : x.of \in Sources(k[1], k[2]) /\ Unseen(x, k[1])

\* While no ledger is given up, a point-in-time lookup never returns a wrong
\* balance, at any ledger of the indexed range and in the middle of a backfill;
\* from the snapshot's ledger on it finds a balance for everyone who holds one
\* (tokens.ts, batch.ts flush).
AsOfCorrect ==
  low # 0 /\ waived = {} => \A t \in Parties : \A a \in Involved(t) : \A n \in low..tip :
    Known(a, t) /\ Seen(a, t, n) =>
      IF AsOf(a, t, n) # {} THEN rows[<<a, t, Max(AsOf(a, t, n))>>] = Holding(a, t, n)
      ELSE snapSeq # 0 /\ n >= snapSeq => Holding(a, t, n) = 0

\* While no ledger was given up, the metric tables give the true holders, trust
\* lines with a balance, and supply, as of every ledger from the snapshot's on
\* (batch.ts writeMetricPoints, snapshot.ts recomputeAllMetrics, common.ts
\* metricAsOf).  The issuer of an MPT in circulation counts as a trust line; the
\* supply of an MPT is what the ledger has as outstanding.
TrueMetric(m, t, n) ==
  LET issuances == {o \in Objects : o[1] = "issuance" /\ o[3] = t}
      holders   == {a \in Involved(t) : Holding(a, t, n) > 0}
  IN CASE m = "holders"    -> Cardinality(holders)
       [] m = "trustlines" -> Cardinality({a \in Involved(t) : Holding(a, t, n) # 0})
       [] m = "supply" -> IF issuances # {}
                            THEN Amount(CHOOSE o \in issuances : TRUE, chain[n].post)
                            ELSE MapThenSumSet(LAMBDA a : Holding(a, t, n), holders)
MetricAsOf(m, t, n) ==
  LET h == PointsUpTo(m, t, n) IN IF h = {} THEN 0 ELSE points[<<m, t, Max(h)>>]
MetricsCorrect ==
  snapSeq # 0 /\ skips = 0 /\ LostAtSnapshot = {} =>
    \A t \in Parties : \A n \in snapSeq..tip :
      (\A a \in Involved(t) : Seen(a, t, n)) =>
        \A m \in Metrics : MetricAsOf(m, t, n) = TrueMetric(m, t, n)

\* Points that follow each other in a series differ (metrics.ts: "a row is
\* written only when the value differs from the previous one"), from the snapshot's
\* ledger on.  The top ledger, taken again after a lost answer, may see balances
\* that the backfill has added: before a snapshot, below a ledger given up, or of an
\* account of which a change was not seen; then two points may be equal.
SparsePoints ==
  snapSeq # 0 /\ skips = 0 /\ LostAtSnapshot = {} =>
    \A k, j \in DOMAIN points :
      (/\ snapSeq <= k[3] /\ k[1] = j[1] /\ k[2] = j[2] /\ k[3] < j[3] /\ points[k] = points[j]
       /\ \A a \in Involved(j[2]) : Seen(a, j[2], j[3])) =>
        \E i \in DOMAIN points : i[1] = k[1] /\ i[2] = k[2] /\ k[3] < i[3] /\ i[3] < j[3]

\* Once a ledger that deleted a line is processed and is the top one, both ends
\* of the line hold nothing of it: trustline.ts says "the trustline is gone ->
\* holder balance is zero".
DeletedLineIsZero ==
  tip # 0 => \A o \in Objects :
    o[1] = "line" /\ chain[tip].post[o] = Absent /\ o \notin LostAtSnapshot =>
      LatestRow(rows, o[2], o[3]) = 0 /\ LatestRow(rows, o[3], o[2]) = 0
=============================================================================
