---------------------------- MODULE PoolReserves ----------------------------
(***************************************************************************)
(* The XRP reserve of one AMM pool: handleAccountRoot writes a balance row *)
(* for a pool's pseudo-account if the process's Registry knows it as one,  *)
(* handleAmm makes it known.  Each process, the snapshot's run too, has a  *)
(* Registry of its own.  INDEXER_TRACK_XRP_BALANCES is off, the default.   *)
(***************************************************************************)
EXTENDS LedgerOrder, Sequences

CONSTANTS
  Pool,         \* the account id, a number
  Drops,        \* XRP balances
  MaxLedgers,   \* bound on the ledgers the network closes
  MaxRestarts,  \* bound on the restarts of the two processes
  NoXrp

ASSUME PoolAssumption ==
  /\ Pool \in Nat /\ Drops \subseteq Nat /\ NoXrp \notin Nat
  /\ MaxLedgers \in Nat \ {0} /\ MaxRestarts \in Nat

VARIABLES
  rootFirst, \* the AccountRoot's index is below the AMM object's
  history,   \* the validated ledgers: [nodes, post], post the pool's XRP or NoXrp
  marked,   \* account.pseudo in the database
  known,    \* process -> the ids in its Registry's pseudo set
  rows,     \* account_balance of the pool and XRP: ledger -> balance
  restarts

poolVars == <<rootFirst, history, marked, known, rows, restarts, orderVars>>

Processes == {"live", "backfill"}
\* A JavaScript value: an id as a number or as text.
Number(id) == <<"number", id>>
Text(id)   == <<"text", id>>
Latest == Len(history)

-----------------------------------------------------------------------------
(* The network: the nodes of one transaction about the pool.                 *)

Root(change, drops) == [type |-> "AccountRoot", change |-> change, drops |-> drops]
Amm(change) == [type |-> "AMM", change |-> change, drops |-> NoXrp]
Both(root, amm) == IF rootFirst THEN <<root, amm>> ELSE <<amm, root>>

\* A pool is created; a trade or a deposit of XRP changes its balance, a deposit
\* its AMM object too; its last deposit is withdrawn, which deletes it.
Transactions(xrp) ==
  IF xrp = NoXrp THEN {[nodes |-> Both(Root("created", d), Amm("created")), post |-> d] : d \in Drops}
  ELSE (UNION {{[nodes |-> <<Root("modified", d)>>, post |-> d],
                [nodes |-> Both(Root("modified", d), Amm("modified")), post |-> d]} : d \in Drops \ {xrp}})
       \cup {[nodes |-> <<Amm("modified")>>, post |-> xrp],
             [nodes |-> Both(Root("deleted", 0), Amm("deleted")), post |-> NoXrp]}

PoolInit ==
  /\ \E xrp \in Drops \cup {NoXrp} : history = <<[nodes |-> <<>>, post |-> xrp]>>
  /\ rootFirst \in BOOLEAN
  /\ marked = FALSE /\ known = [p \in Processes |-> {}] /\ rows = [k \in {} |-> NoXrp] /\ restarts = 0
  /\ OrderInit

\* One transaction about the pool, or two; a deleted pool's account never returns.
PoolLedgerCloses ==
  LET close(nodes, post) == history' = Append(history, [nodes |-> nodes, post |-> post]) IN
  /\ Latest < MaxLedgers
  /\ history[Latest].post = NoXrp => \A k \in DOMAIN history : history[k].post = NoXrp
  /\ \E x \in Transactions(history[Latest].post) :
       \/ close(x.nodes, x.post)
       \/ x.post # NoXrp /\ \E y \in Transactions(x.post) : close(x.nodes \o y.nodes, y.post)
  /\ UNCHANGED <<rootFirst, marked, known, rows, restarts, orderVars>>

-----------------------------------------------------------------------------
(* The handlers: [known, marked, row], the Registry's set, the account's     *)
(* flag and the batch's balance row.                                         *)

\* Mutant: the first balance of the ledger is kept.
RootKeepsFirst(node, s) ==
  IF node.change # "deleted" /\ Number(Pool) \in s.known /\ s.row = NoXrp THEN [s EXCEPT !.row = node.drops] ELSE s

\* handleAccountRoot, as to balances.
AccountRoot(node, s) ==
  IF node.change # "deleted" /\ Number(Pool) \in s.known THEN [s EXCEPT !.row = node.drops] ELSE s

\* handleAmm, of a pool whose assets have an id; nothing is marked of one without (amm.ts:40).
AmmObject(node, s) ==
  IF node.change = "deleted" THEN s ELSE [s EXCEPT !.known = @ \cup {Number(Pool)}, !.marked = TRUE]

\* processLedger: the nodes in their order.
Process(seq, ids) ==
  LET nodes == history[seq].nodes
      after[i \in 0..Len(nodes)] ==
        IF i = 0 THEN [known |-> ids, marked |-> marked, row |-> NoXrp]
        ELSE IF nodes[i].type = "AMM" THEN AmmObject(nodes[i], after[i - 1])
        ELSE AccountRoot(nodes[i], after[i - 1])
  IN after[Len(nodes)]

\* The rows with one at seq, unless there is no balance; DO NOTHING where there is one.
Upserted(seq, balance) ==
  [k \in DOMAIN rows \cup (IF balance = NoXrp THEN {} ELSE {seq}) |->
     IF k = seq /\ balance # NoXrp THEN balance ELSE rows[k]]
Inserted(seq, balance) ==
  [k \in DOMAIN rows \cup (IF balance = NoXrp THEN {} ELSE {seq}) |->
     IF k \in DOMAIN rows THEN rows[k] ELSE balance]

LivePool(seq) ==
  LET s == Process(seq, known["live"]) IN
  /\ tip = 0 => seq = Latest
  /\ LiveAt(seq)
  /\ known' = [known EXCEPT !["live"] = s.known]
  /\ marked' = s.marked
  /\ rows' = Upserted(seq, s.row)
  /\ UNCHANGED <<rootFirst, history, restarts>>

\* Mutant: the balance is dated with the top ledger.
BackfillDatesTip(seq) ==
  LET s == Process(seq, known["backfill"]) IN
  /\ BackfillAt(seq)
  /\ known' = [known EXCEPT !["backfill"] = s.known]
  /\ marked' = s.marked
  /\ rows' = Upserted(tip, s.row)
  /\ UNCHANGED <<rootFirst, history, restarts>>

BackfillPool(seq) ==
  LET s == Process(seq, known["backfill"]) IN
  /\ BackfillAt(seq)
  /\ known' = [known EXCEPT !["backfill"] = s.known]
  /\ marked' = s.marked
  /\ rows' = Inserted(seq, s.row)
  /\ UNCHANGED <<rootFirst, history, restarts>>

\* runSnapshot, not killed: walk 1 meets the AMM object, walk 2 the AccountRoot.
\* Its Registry is dropped with it.
SnapshotPool ==
  LET seq == IF tip # 0 THEN tip ELSE Latest
      xrp == history[seq].post
  IN /\ SnapshotAt(seq)
     /\ marked' = (marked \/ xrp # NoXrp)
     /\ rows' = Inserted(seq, xrp)
     /\ UNCHANGED <<rootFirst, history, known, restarts>>

\* Registry.init reads the ids of the marked accounts with a raw query, which gives
\* a bigint as text; the set is asked for numbers.
Loaded == IF marked THEN {Text(Pool)} ELSE {}

Restart(p) ==
  /\ restarts < MaxRestarts
  /\ restarts' = restarts + 1
  /\ known' = [known EXCEPT ![p] = Loaded]
  /\ UNCHANGED <<rootFirst, history, marked, rows, orderVars>>

\* main starts the sync, and its Registry is loaded, after the snapshot.
LiveStart == Restart("live")
BackfillStart == Restart("backfill")

PoolNext ==
  \/ PoolLedgerCloses \/ SnapshotPool \/ LiveStart \/ BackfillStart
  \/ \E seq \in 1..Latest : LivePool(seq) \/ BackfillPool(seq)

PoolSpec == PoolInit /\ [][PoolNext]_poolVars

-----------------------------------------------------------------------------
(* What the tables promise. *)

PoolTypeOK ==
  /\ marked \in BOOLEAN /\ known \in [Processes -> SUBSET {Number(Pool), Text(Pool)}]
  /\ DOMAIN rows \subseteq low..tip /\ \A k \in DOMAIN rows : rows[k] \in Drops
  /\ low \in 0..tip /\ tip \in 0..Latest /\ snapSeq \in 0..tip /\ fresh \in BOOLEAN /\ waived = {}

\* A row is the pool's XRP at the end of its ledger, or the pool was deleted later
\* in that ledger: whichever writer put it there, and even if the pool became known
\* in the middle of the ledger (account.ts:29-36, batch.ts balance).
ReserveExact == \A k \in DOMAIN rows : rows[k] = history[k].post \/ history[k].post = NoXrp

\* No ledger's row is ever changed or removed: not by a replay, though the process
\* may know more by then, nor by the backfill (batch.ts:131-139).
RowsKept == [][\A k \in DOMAIN rows : k \in DOMAIN rows' /\ rows'[k] = rows[k]]_poolVars
=============================================================================
