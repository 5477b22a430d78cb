----------------------------- MODULE LedgerOrder -----------------------------
(***************************************************************************)
(* The order in which the three writers take ledgers, as the modules about *)
(* a ledger's content need it; LedgerIngest implements it.                 *)
(*                                                                         *)
(* Live sync takes the next ledger above the top, or the top one again     *)
(* when the answer to its commit was lost; backfill takes the next one     *)
(* below the bottom, gives it up, or takes one it gave up earlier in the   *)
(* same chunk; the snapshot takes the state of one ledger, once.           *)
(***************************************************************************)
EXTENDS Integers

VARIABLES
  low, tip,  \* lowest and highest ledger taken; 0: none yet
  snapSeq,   \* ledger of the snapshot; 0: none
  fresh,     \* the snapshot took the first ledger of all
  waived     \* ledgers given up

orderVars == <<low, tip, snapSeq, fresh, waived>>

OrderInit == low = 0 /\ tip = 0 /\ snapSeq = 0 /\ fresh = FALSE /\ waived = {}

\* The snapshot's ledger is the checkpoint; on an empty database, any.
SnapshotAt(seq) ==
  /\ snapSeq = 0
  /\ seq # 0
  /\ IF tip = 0 THEN low' = seq ELSE tip = seq /\ UNCHANGED low
  /\ fresh' = (tip = 0)
  /\ tip' = seq
  /\ snapSeq' = seq
  /\ UNCHANGED waived

\* The snapshot's own ledger is not taken any more: live sync goes on one above it.
LiveAt(seq) ==
  /\ IF tip = 0 THEN seq # 0 /\ low' = seq
                ELSE UNCHANGED low /\ (seq = tip + 1 \/ (seq = tip /\ tip # snapSeq))
  /\ tip' = seq
  /\ UNCHANGED <<snapSeq, fresh, waived>>

BackfillAt(seq) ==
  /\ seq \in waived \cup {low - 1} /\ seq > 0
  /\ low' = IF seq < low THEN seq ELSE low
  /\ waived' = waived \ {seq}
  /\ UNCHANGED <<tip, snapSeq, fresh>>

WaiveAt(seq) ==
  /\ seq = low - 1 /\ seq > 0
  /\ low' = seq
  /\ waived' = waived \cup {seq}
  /\ UNCHANGED <<tip, snapSeq, fresh>>

OrderNext ==
  \/ \E seq \in {tip', low', tip, snapSeq'} : SnapshotAt(seq) \/ LiveAt(seq)
  \/ \E seq \in waived \cup {low - 1} : BackfillAt(seq) \/ WaiveAt(seq)

OrderSpec == OrderInit /\ [][OrderNext]_orderVars
=============================================================================
