------------------------- MODULE LedgerIngestProofs -------------------------
(***************************************************************************)
(* Machine-checked proofs about LedgerIngest, for every value of its       *)
(* constants.                                                              *)
(***************************************************************************)
EXTENDS LedgerIngest, TLAPS

-----------------------------------------------------------------------------
(* Rows of ledger_gap: updates of one field, appending one row. *)

LEMMA GapRow == ASSUME NEW g \in Gap, NEW n \in Nat, NEW st \in {"running", "done"}
                PROVE  /\ g.start \in Nat /\ g.end \in Nat /\ g.state \in {"running", "done"}
                       /\ [g EXCEPT !.end = n] \in Gap
                       /\ [g EXCEPT !.state = st] \in Gap
                       /\ [g EXCEPT !.state = st, !.end = n] \in Gap
  BY DEF Gap

LEMMA NewGapRow == ASSUME NEW m \in Nat, NEW n \in Nat
                   PROVE  [start |-> m, end |-> n, state |-> "running"] \in Gap
  BY DEF Gap

LEMMA SeqUpdate ==
  ASSUME NEW S, NEW q \in Seq(S), NEW i \in DOMAIN q, NEW e \in S
  PROVE  /\ q[i] \in S
         /\ [q EXCEPT ![i] = e] \in Seq(S)
         /\ DOMAIN [q EXCEPT ![i] = e] = DOMAIN q
         /\ \A j \in DOMAIN q : [q EXCEPT ![i] = e][j] = IF j = i THEN e ELSE q[j]
  OBVIOUS

LEMMA SeqAppend ==
  ASSUME NEW S, NEW q \in Seq(S), NEW e \in S
  PROVE  /\ Append(q, e) \in Seq(S)
         /\ DOMAIN Append(q, e) = DOMAIN q \cup {Len(q) + 1}
         /\ Len(q) + 1 \in Nat
         /\ Len(q) + 1 \notin DOMAIN q
         /\ Append(q, e)[Len(q) + 1] = e
         /\ \A j \in DOMAIN q : Append(q, e)[j] = q[j]
  OBVIOUS

LEMMA GapRowTyped ==
  ASSUME TypeOK, NEW i \in DOMAIN gaps
  PROVE  /\ gaps[i] \in Gap
         /\ gaps[i].start \in Nat
         /\ gaps[i].end \in Nat
  <1>1. gaps \in Seq(Gap)
    BY DEF TypeOK
  <1>2. gaps[i] \in Gap
    BY <1>1
  <1>3. QED
    BY <1>2, GapRow

-----------------------------------------------------------------------------
(* Type correctness. *)

LEMMA TypeInit == Init => TypeOK
  BY HeadAssumption DEF HeadAssumption, Init, TypeOK, LiveStages, BfStages

\* Each action keeps every variable in its type, given that a backfill at work
\* holds a claimed range whose bounds are those of its row.
LEMMA TypeStep == TypeOK /\ BackfillInv /\ GapInv /\ [Next]_vars => TypeOK'
  <1> SUFFICES ASSUME TypeOK, BackfillInv, GapInv, [Next]_vars PROVE TypeOK'
    OBVIOUS
  <1> USE HeadAssumption, ConfigAssumption
      DEF HeadAssumption, ConfigAssumption, TypeOK, LiveStages, BfStages,
          env, dbVars, liveVars, drainVars, bfVars
  <1>1. CASE LedgerCloses
    BY <1>1 DEF LedgerCloses
  <1>2. CASE LiveBoot
    BY <1>2 DEF LiveBoot
  <1>3. CASE SnapshotChoose
    BY <1>3 DEF SnapshotChoose, SnapshotLedger
  <1>4. CASE SnapshotWalked
    BY <1>4 DEF SnapshotWalked
  <1>5. CASE SnapshotInsertRow
    BY <1>5 DEF SnapshotInsertRow
  <1>6. CASE SnapshotSeedCheckpoint
    BY <1>6 DEF SnapshotSeedCheckpoint
  <1>7. CASE SnapshotMarkDone
    BY <1>7 DEF SnapshotMarkDone
  <1>8. CASE LiveResolve
    BY <1>8 DEF LiveResolve, ResolveStart
  <1>9. CASE LiveKick
    BY <1>9 DEF LiveKick, DrainUpTo
  <1>10. ASSUME NEW t \in 1..head, LiveNotify(t) PROVE TypeOK'
    BY <1>10 DEF LiveNotify, DrainUpTo
  <1>11. CASE DrainExit
    BY <1>11 DEF DrainExit
  <1>12. CASE DrainFetch
    BY <1>12 DEF DrainFetch
  <1>13. CASE DrainCommit
    BY <1>13 DEF DrainCommit
  <1>14. CASE DrainAck
    BY <1>14 DEF DrainAck
  <1>15. CASE DrainFail
    BY <1>15 DEF DrainFail
  <1>16. CASE LiveStop
    BY <1>16 DEF LiveStop
  <1>17. CASE LiveExit
    BY <1>17 DEF LiveExit, LiveGone
  <1>18. CASE LiveCrash
    BY <1>18 DEF LiveCrash, LiveGone
  <1>19. CASE BfStart
    BY <1>19 DEF BfStart
  <1>20. CASE BfClaimOpen
    <2>1. PICK i \in OpenGaps : gaps' = [gaps EXCEPT ![i].state = "running"]
                                /\ StartGap(i, gaps[i].end)
      BY <1>20 DEF BfClaimOpen
    <2>2. i \in DOMAIN gaps /\ i \in Nat /\ gaps[i] \in Gap
      BY DEF OpenGaps
    <2> DEFINE row == [gaps[i] EXCEPT !.state = "running"]
    <2>3. gaps' \in Seq(Gap)
      <3>1. row \in Gap
        BY <2>2, GapRow
      <3>2. gaps' = [gaps EXCEPT ![i] = row]
        BY <2>1, <2>2
      <3> HIDE DEF row
      <3>3. QED
        BY <2>2, <3>1, <3>2, SeqUpdate
    <2>4. gaps[i].end \in Nat
      BY <2>2, GapRow
    <2>5. QED
      BY <1>20, <2>1, <2>2, <2>3, <2>4 DEF BfClaimOpen, StartGap
  <1>21. CASE BfOpenGap
    <2>1. PICK f \in ledger :
            /\ f - 1 >= floor
            /\ gaps' = Append(gaps, [start |-> floor, end |-> f - 1, state |-> "running"])
            /\ StartGap(Len(gaps) + 1, f - 1)
      BY <1>21 DEF BfOpenGap
    <2>2. f - 1 \in Nat
      BY <2>1
    <2>3. gaps' \in Seq(Gap) /\ Len(gaps) + 1 \in Nat
      BY <2>1, <2>2, NewGapRow, SeqAppend
    <2>4. QED
      BY <1>21, <2>1, <2>2, <2>3 DEF BfOpenGap, StartGap
  <1>22. CASE BfChunk
    <2>1. gapId \in DOMAIN gaps /\ gaps[gapId] \in Gap
      BY <1>22 DEF BfChunk, BackfillInv, OpenGaps
    <2>2. gaps[gapId].start \in Nat
      BY <2>1, GapRow
    <2>3. lo' \in Nat
      BY <1>22, <2>2 DEF BfChunk, ChunkLow
    <2>4. QED
      BY <1>22, <2>3 DEF BfChunk
  <1>23. ASSUME NEW s \in todo, BfLedgerOk(s) PROVE TypeOK'
    BY <1>23 DEF BfLedgerOk
  <1>24. ASSUME NEW s \in todo, NEW committed \in BOOLEAN, BfLedgerFails(s, committed)
         PROVE TypeOK'
    BY <1>24 DEF BfLedgerFails
  <1>25. CASE BfAdvance
    <2>1. gapId \in DOMAIN gaps /\ gaps[gapId] \in Gap
      BY <1>25 DEF BfAdvance, BackfillInv, OpenGaps
    <2>2. gaps[gapId].start \in Nat /\ gaps[gapId].start >= 1 /\ gaps[gapId].start <= lo
      BY <1>25, <2>1, GapRow DEF BfAdvance, BackfillInv, GapInv
    <2>3. lo - 1 \in Nat /\ gaps[gapId].start - 1 \in Nat
      BY <2>2
    <2> DEFINE end == IF lo - 1 > gaps[gapId].start - 1 THEN lo - 1 ELSE gaps[gapId].start - 1
               row == [gaps[gapId] EXCEPT !.end = end]
    <2>4. gaps' \in Seq(Gap)
      <3>1. end \in Nat
        BY <2>3
      <3>2. row \in Gap
        BY <2>1, <3>1, GapRow
      <3>3. gaps' = [gaps EXCEPT ![gapId] = row]
        BY <1>25, <2>1 DEF BfAdvance
      <3> HIDE DEF row
      <3>4. QED
        BY <2>1, <3>2, <3>3, SeqUpdate
    <2>5. QED
      BY <1>25, <2>3, <2>4 DEF BfAdvance
  <1>26. CASE BfFinish
    <2>1. gapId \in DOMAIN gaps /\ gaps[gapId] \in Gap
      BY <1>26 DEF BfFinish, BackfillInv, OpenGaps
    <2>2. gaps[gapId].start \in Nat /\ gaps[gapId].start >= 1
      BY <2>1, GapRow DEF GapInv
    <2> DEFINE row == [gaps[gapId] EXCEPT !.state = "done", !.end = gaps[gapId].start - 1]
    <2>3. gaps' \in Seq(Gap)
      <3>1. gaps[gapId].start - 1 \in Nat
        BY <2>2
      <3>2. row \in Gap
        BY <2>1, <3>1, GapRow
      <3>3. gaps' = [gaps EXCEPT ![gapId] = row]
        BY <1>26, <2>1 DEF BfFinish
      <3> HIDE DEF row
      <3>4. QED
        BY <2>1, <3>2, <3>3, SeqUpdate
    <2>4. QED
      BY <1>26, <2>3 DEF BfFinish
  <1>27. CASE BfQueryFails
    BY <1>27 DEF BfQueryFails
  <1>28. CASE BfCrash
    BY <1>28 DEF BfCrash, BfGone
  <1>31. CASE \E s \in todo : BfPrefetchFails(s)
    BY <1>31 DEF BfPrefetchFails, BfGone
  <1>29. CASE UNCHANGED vars
    BY <1>29 DEF vars
  <1>30. QED
    BY <1>1, <1>2, <1>3, <1>4, <1>5, <1>6, <1>7, <1>8, <1>9, <1>10, <1>11, <1>12, <1>13, <1>14, <1>15, <1>16, <1>17, <1>18, <1>19, <1>20, <1>21, <1>22, <1>23, <1>24, <1>25, <1>26, <1>27, <1>28, <1>31, <1>29
       DEF Next, LiveNext, BfNext

-----------------------------------------------------------------------------
(* The inductive invariant.  Its parts that speak of the index (TipInv,      *)
(* GapInv) and of the backfill's position are disturbed by few actions; the  *)
(* next lemmas carry them over the others.                                   *)

DataInv == TipInv /\ GapInv /\ BackfillInv

\* A step that touches neither the index nor the backfill.
LEMMA IndexUntouched ==
  ASSUME DataInv, UNCHANGED <<ledger, checkpoint, gaps, skipped, bfVars>>, Tip' = Tip
  PROVE  DataInv'
  BY DEF DataInv, TipInv, GapInv, BackfillInv, OneOpenGap, OpenGaps, Accounted, bfVars

\* The index, the tip and the accounted ledgers only grow, the new tip is
\* joined to the old one, and the ranges are left alone.
LEMMA GapsKept ==
  ASSUME TypeOK, TypeOK', GapInv, UNCHANGED gaps, Tip \in Nat, Tip' \in Nat,
         Accounted \subseteq Accounted', Tip <= Tip', Tip + 1..Tip' \subseteq Accounted'
  PROVE  GapInv'
  <1>1. ASSUME NEW i \in DOMAIN gaps
        PROVE  /\ gaps'[i].end < Tip'
               /\ gaps'[i].end + 1..Tip' \subseteq Accounted'
    <2>2. gaps[i].end \in Nat
      BY GapRowTyped
    <2>3. gaps[i].end < Tip /\ gaps[i].end + 1..Tip \subseteq Accounted
      BY DEF GapInv
    <2>4. QED
      BY <2>2, <2>3
  <1>2. QED
    BY <1>1 DEF GapInv, OneOpenGap, OpenGaps

LEMMA TipIsNat == ASSUME TypeOK PROVE Tip \in Nat
  BY DEF Tip, TypeOK

\* The snapshot's row: the first row of the table, or a row it already has.
LEMMA InsertRowStep ==
  ASSUME TypeOK, TypeOK', SnapshotInv, DataInv, SnapshotInsertRow
  PROVE  DataInv'
  <1> USE DEF SnapshotInsertRow, bfVars
  <1>1. snapSeq # 0 /\ snapSeq \in Nat /\ checkpoint \in {0, snapSeq}
    BY DEF SnapshotInv, TypeOK
  <1>2. CASE ledger = {}
    <2>1. ledger' = {snapSeq} /\ Tip' = snapSeq /\ skipped' = {} /\ gaps' = <<>>
      BY <1>1, <1>2 DEF DataInv, TipInv, Tip
    <2>2. TipInv'
      BY <1>1, <2>1 DEF TipInv, Accounted
    <2>3. GapInv'
      BY <2>1 DEF GapInv, OneOpenGap, OpenGaps
    <2>4. bfPc \notin {"chunk", "ledger"}
      BY <1>2 DEF DataInv, TipInv, BackfillInv, OpenGaps
    <2>5. BackfillInv'
      BY <2>4 DEF DataInv, BackfillInv
    <2>6. QED
      BY <2>2, <2>3, <2>5 DEF DataInv
  <1>3. CASE ledger # {}
    <2>1. Tip = snapSeq
      BY <1>1, <1>3 DEF Tip
    <2>2. snapSeq \in ledger
      BY <1>3, <2>1 DEF DataInv, TipInv
    <2>3. ledger' = ledger /\ Tip' = Tip
      BY <2>2 DEF Tip
    <2>4. QED
      BY <2>3, IndexUntouched
  <1>4. QED
    BY <1>2, <1>3

\* Seeding the checkpoint leaves the tip where the snapshot's row put it.
LEMMA SeedCheckpointStep ==
  ASSUME TypeOK, SnapshotInv, DataInv, SnapshotSeedCheckpoint
  PROVE  DataInv'
  <1> USE DEF SnapshotSeedCheckpoint, bfVars
  <1>1. snapSeq # 0 /\ snapSeq \in ledger /\ checkpoint \in {0, snapSeq}
    BY DEF SnapshotInv
  <1>2. Tip = snapSeq /\ Tip' = snapSeq
    BY <1>1 DEF Tip
  <1>3. ledger # {} /\ ledger' = ledger /\ skipped' = skipped /\ gaps' = gaps
    BY <1>1
  <1>4. TipInv'
    BY <1>2, <1>3 DEF DataInv, TipInv, Accounted
  <1>5. GapInv'
    BY <1>2, <1>3 DEF DataInv, GapInv, OneOpenGap, OpenGaps, Accounted
  <1>6. BackfillInv'
    BY <1>3 DEF DataInv, BackfillInv, OpenGaps, Accounted
  <1>7. QED
    BY <1>4, <1>5, <1>6 DEF DataInv

\* Choosing the snapshot's ledger: if some row exists before the checkpoint
\* does, the ledger was chosen before and is chosen again.
LEMMA ChooseStep ==
  ASSUME TypeOK, SnapshotInv, DataInv, SnapshotChoose
  PROVE  DataInv'
  <1> USE DEF SnapshotChoose, bfVars
  <1>1. Tip' = Tip
    <2>1. CASE checkpoint # 0 \/ ledger = {}
      BY <2>1 DEF Tip
    <2>2. CASE checkpoint = 0 /\ ledger # {}
      <3>1. snapSeq # 0
        BY <2>2 DEF DataInv, TipInv, Tip
      <3>2. snapSeq' = snapSeq
        BY <3>1 DEF SnapshotLedger
      <3>3. QED
        BY <3>2 DEF Tip
    <2>3. QED
      BY <2>1, <2>2
  <1>2. QED
    BY <1>1, IndexUntouched

\* The live transaction writes the first row of all, the tip once more, or the
\* ledger above the tip.
LEMMA CommitCases ==
  ASSUME TypeOK, SnapshotInv, LiveInv, DataInv, DrainCommit
  PROVE  /\ nextSeq # 0
         /\ \/ ledger = {} /\ checkpoint = 0
            \/ checkpoint # 0 /\ nextSeq = checkpoint
            \/ checkpoint # 0 /\ nextSeq = checkpoint + 1
  <1>1. Running /\ nextSeq # 0
    BY DEF DrainCommit, LiveInv
  <1>2. CASE checkpoint # 0
    BY <1>1, <1>2 DEF LiveInv
  <1>3. CASE checkpoint = 0
    <2>1. snapSeq = 0
      BY <1>1, <1>3 DEF SnapshotInv
    <2>2. ledger = {}
      BY <1>3, <2>1 DEF DataInv, TipInv, Tip
    <2>3. QED
      BY <1>1, <1>3, <2>2
  <1>4. QED
    BY <1>2, <1>3

LEMMA CommitStep ==
  ASSUME TypeOK, TypeOK', SnapshotInv, LiveInv, DataInv, DrainCommit
  PROVE  DataInv'
  <1> USE DEF DrainCommit, bfVars
  <1>1. CASE ledger = {} /\ checkpoint = 0
    <2>1. nextSeq # 0 /\ nextSeq \in Nat
      BY CommitCases DEF TypeOK
    <2>2. ledger' = {nextSeq} /\ checkpoint' = nextSeq /\ skipped' = {} /\ gaps' = <<>>
      BY <1>1, <2>1 DEF DataInv, TipInv
    <2>3. Tip' = nextSeq
      BY <2>1, <2>2 DEF Tip
    <2>4. TipInv'
      BY <2>1, <2>2, <2>3 DEF TipInv, Accounted
    <2>5. GapInv'
      BY <2>2 DEF GapInv, OneOpenGap, OpenGaps
    <2>6. bfPc \notin {"chunk", "ledger"}
      BY <1>1 DEF DataInv, TipInv, BackfillInv, OpenGaps
    <2>7. BackfillInv'
      BY <2>6 DEF DataInv, BackfillInv
    <2>8. QED
      BY <2>4, <2>5, <2>7 DEF DataInv
  <1>2. CASE checkpoint # 0 /\ nextSeq = checkpoint
    <2>1. Tip = checkpoint /\ checkpoint \in ledger
      BY <1>2 DEF DataInv, TipInv, Tip
    <2>2. UNCHANGED <<ledger, skipped, checkpoint>>
      BY <1>2, <2>1 DEF DataInv, TipInv
    <2>3. Tip' = Tip
      BY <2>2 DEF Tip
    <2>4. QED
      BY <2>2, <2>3, IndexUntouched
  <1>3. CASE checkpoint # 0 /\ nextSeq = checkpoint + 1
    <2>1. Tip = checkpoint /\ checkpoint \in Nat /\ checkpoint \in ledger /\ Tip \in Nat
      BY <1>3 DEF DataInv, TipInv, Tip, TypeOK
    <2>2. checkpoint' = nextSeq /\ Tip' = Tip + 1 /\ nextSeq = Tip + 1
      <3>1. checkpoint' = checkpoint + 1 /\ checkpoint' # 0
        BY <1>3, <2>1
      <3>2. Tip' = checkpoint'
        BY <3>1 DEF Tip
      <3>3. QED
        BY <1>3, <2>1, <3>1, <3>2
    <2>3. nextSeq \notin skipped /\ skipped' = skipped /\ ledger' = ledger \cup {Tip + 1}
      BY <2>1, <2>2 DEF DataInv, TipInv, TypeOK
    <2>4. Accounted' = Accounted \cup {Tip + 1}
      BY <2>3 DEF Accounted
    <2>5. \A low \in Accounted' : low..Tip' \subseteq Accounted'
      <3>1. SUFFICES ASSUME NEW low \in Accounted', NEW s \in low..Tip' PROVE s \in Accounted'
        OBVIOUS
      <3>2. CASE s = Tip + 1
        BY <3>2, <2>4
      <3>3. CASE s # Tip + 1
        <4>1. Accounted \subseteq Nat
          BY DEF Accounted, TypeOK
        <4>2. low \in Nat /\ s \in Nat /\ s <= Tip
          BY <3>3, <4>1, <2>1, <2>2, <2>4
        <4>3. low \in Accounted
          BY <4>2, <2>1, <2>4
        <4>4. QED
          BY <4>2, <4>3, <2>1, <2>4 DEF DataInv, TipInv
      <3>4. QED
        BY <3>2, <3>3
    <2>6. TipInv'
      <3>1. \A s \in ledger' : s <= Tip'
        BY <2>1, <2>2, <2>3 DEF DataInv, TipInv, TypeOK
      <3>2. \A s \in skipped' : s < Tip'
        BY <2>1, <2>2, <2>3 DEF DataInv, TipInv, TypeOK
      <3>3. ledger' # {} /\ Tip' # 0 /\ Tip' \in ledger' /\ ledger' \cap skipped' = {}
        BY <2>1, <2>2, <2>3 DEF DataInv, TipInv
      <3>4. QED
        BY <3>1, <3>2, <3>3, <2>5 DEF TipInv
    <2>7. GapInv'
      <3>1. Tip' \in Nat /\ Tip <= Tip' /\ Tip + 1..Tip' \subseteq Accounted'
        BY <2>1, <2>2, <2>4
      <3>2. QED
        BY <2>1, <2>4, <3>1, GapsKept DEF DataInv
    <2>8. BackfillInv'
      BY <2>4 DEF DataInv, BackfillInv, OpenGaps
    <2>9. QED
      BY <2>6, <2>7, <2>8 DEF DataInv
  <1>4. QED
    BY <1>1, <1>2, <1>3, CommitCases

-----------------------------------------------------------------------------
(* The steps of the backfill. *)

LEMMA ClaimOpenStep ==
  ASSUME TypeOK, TypeOK', DataInv, BfClaimOpen
  PROVE  DataInv'
  <1>1. PICK i \in OpenGaps : gaps' = [gaps EXCEPT ![i].state = "running"]
                              /\ StartGap(i, gaps[i].end)
    BY DEF BfClaimOpen
  <1>2. i \in DOMAIN gaps /\ gaps[i] \in Gap /\ gaps[i].state # "done"
    BY GapRowTyped DEF OpenGaps
  <1>3. gaps[i].state = "running"
    BY <1>2, GapRow
  <1>4. /\ DOMAIN gaps' = DOMAIN gaps
        /\ \A j \in DOMAIN gaps : /\ gaps'[j].start = gaps[j].start
                                  /\ gaps'[j].end = gaps[j].end
                                  /\ gaps'[j].state = gaps[j].state
    BY <1>1, <1>2, <1>3 DEF Gap
  <1>5. UNCHANGED <<ledger, checkpoint, skipped, snapSeq>> /\ Tip' = Tip /\ Accounted' = Accounted
    BY DEF BfClaimOpen, Tip, Accounted
  <1>6. OpenGaps' = OpenGaps
    BY <1>4 DEF OpenGaps
  <1>7. TipInv'
    BY <1>2, <1>4, <1>5 DEF DataInv, TipInv
  <1>8. GapInv'
    BY <1>4, <1>5, <1>6 DEF DataInv, GapInv, OneOpenGap
  <1>9. BackfillInv'
    BY <1>1, <1>4, <1>6 DEF DataInv, BackfillInv, BfClaimOpen, StartGap, OpenGaps
  <1>10. QED
    BY <1>7, <1>8, <1>9 DEF DataInv

\* A new range ends just below the lowest row, so all above it is accounted for.
LEMMA OpenGapStep ==
  ASSUME TypeOK, TypeOK', DataInv, BfOpenGap
  PROVE  DataInv'
  <1>1. PICK f \in ledger :
          /\ f - 1 >= floor
          /\ gaps' = Append(gaps, [start |-> floor, end |-> f - 1, state |-> "running"])
          /\ StartGap(Len(gaps) + 1, f - 1)
    BY DEF BfOpenGap
  <1> DEFINE row == [start |-> floor, end |-> f - 1, state |-> "running"]
             new == Len(gaps) + 1
  <1>2. floor \in Nat /\ floor # 0 /\ f \in Nat /\ f - 1 \in Nat /\ gaps \in Seq(Gap)
    BY <1>1 DEF TypeOK, DataInv, BackfillInv, BfOpenGap
  <1>3. row \in Gap
    BY <1>2, NewGapRow
  <1>4. /\ DOMAIN gaps' = DOMAIN gaps \cup {new}
        /\ new \notin DOMAIN gaps
        /\ gaps'[new] = row
        /\ \A j \in DOMAIN gaps : gaps'[j] = gaps[j]
    <2> HIDE DEF row
    <2>1. gaps' = Append(gaps, row)
      BY <1>1 DEF row
    <2>2. QED
      BY <1>2, <1>3, <2>1, SeqAppend
  <1>5. UNCHANGED <<ledger, checkpoint, skipped, snapSeq>> /\ Tip' = Tip /\ Accounted' = Accounted
    BY DEF BfOpenGap, Tip, Accounted
  <1>6. f \in Accounted /\ f <= Tip /\ f..Tip \subseteq Accounted
    BY DEF Accounted, DataInv, TipInv
  <1>7. TipInv'
    BY <1>1, <1>5 DEF DataInv, TipInv
  <1>8. OpenGaps' = {new}
    BY <1>4 DEF BfOpenGap, OpenGaps
  <1>9. GapInv'
    <2>1. /\ 1 <= gaps'[new].start
          /\ gaps'[new].start <= gaps'[new].end + 1
          /\ gaps'[new].end < Tip'
          /\ gaps'[new].end + 1..Tip' \subseteq Accounted'
      BY <1>1, <1>2, <1>4, <1>5, <1>6, TipIsNat
    <2>2. QED
      BY <2>1, <1>4, <1>5, <1>8 DEF DataInv, GapInv, OneOpenGap
  <1>10. BackfillInv'
    BY <1>1, <1>4, <1>8 DEF DataInv, BackfillInv, BfOpenGap, StartGap
  <1>11. QED
    BY <1>7, <1>9, <1>10 DEF DataInv

LEMMA ChunkStep ==
  ASSUME TypeOK, TypeOK', DataInv, BfChunk
  PROVE  DataInv'
  <1> USE ConfigAssumption DEF ConfigAssumption
  <1>1. gapId \in OpenGaps /\ gapId \in DOMAIN gaps /\ gaps[gapId].start \in Nat
    BY GapRowTyped DEF DataInv, BackfillInv, BfChunk, OpenGaps
  <1>2. gaps[gapId].start <= lo' /\ lo' <= cursor /\ lo' \in Nat /\ cursor \in Nat
    <2>1. cursor \in Nat /\ lo' \in Nat /\ Chunk \in Nat /\ Chunk >= 1
      BY DEF TypeOK
    <2>2. lo' = ChunkLow(gaps[gapId].start) /\ cursor >= gaps[gapId].start
      BY DEF BfChunk
    <2>3. QED
      BY <1>1, <2>1, <2>2 DEF ChunkLow
  <1>3. todo' \subseteq lo'..cursor /\ lo'..cursor \subseteq Accounted \cup todo'
    BY DEF BfChunk, Accounted
  <1>4. UNCHANGED <<ledger, checkpoint, skipped, snapSeq, gaps, cursor, gapId, floor>>
        /\ Tip' = Tip /\ Accounted' = Accounted /\ OpenGaps' = OpenGaps
    BY DEF BfChunk, dbVars, Tip, Accounted, OpenGaps
  <1>5. TipInv' /\ GapInv'
    BY <1>4 DEF DataInv, TipInv, GapInv, OneOpenGap
  <1>6. BackfillInv'
    BY <1>1, <1>2, <1>3, <1>4 DEF DataInv, BackfillInv, BfChunk
  <1>7. QED
    BY <1>5, <1>6 DEF DataInv

\* The highest ledger left of a chunk lies below the tip, and everything
\* between the two is accounted for.
LEMMA AboveNext ==
  ASSUME TypeOK, DataInv, bfPc = "ledger", NEW s \in todo, IsNext(s)
  PROVE  s \in Nat /\ s < Tip /\ s + 1..Tip \subseteq Accounted
  <1>1. gapId \in DOMAIN gaps /\ cursor = gaps[gapId].end
        /\ lo \in Nat /\ cursor \in Nat /\ Tip \in Nat /\ s \in lo..cursor
    BY TipIsNat DEF DataInv, BackfillInv, OpenGaps, TypeOK
  <1>2. cursor < Tip /\ cursor + 1..Tip \subseteq Accounted
    BY <1>1 DEF DataInv, GapInv
  <1>3. ASSUME NEW t \in s + 1..Tip PROVE t \in Accounted
    <2>1. s \in Int /\ t \in Int /\ s < t
      BY <1>1
    <2>2. CASE t <= cursor
      <3>1. t \in lo..cursor
        BY <1>1, <2>1, <2>2
      <3>2. t \notin todo
        BY <2>1 DEF IsNext
      <3>3. QED
        BY <3>1, <3>2 DEF DataInv, BackfillInv
    <2>3. CASE ~(t <= cursor)
      BY <1>1, <1>2, <2>1, <2>3
    <2>4. QED
      BY <2>2, <2>3
  <1>4. QED
    BY <1>1, <1>2, <1>3

\* One ledger of the chunk was attempted.  It is the highest one left, so all
\* above it is accounted for, and it is accounted for once it leaves todo.
LEMMA AttemptStep ==
  ASSUME TypeOK, TypeOK', DataInv, bfPc = "ledger", NEW s \in todo, IsNext(s),
         UNCHANGED <<checkpoint, snapSeq, gaps, bfPc, floor, gapId, cursor, lo>>,
         ledger' \in {ledger, ledger \cup {s}},
         skipped' \subseteq skipped \cup {s},
         ledger' \cap skipped' = {},
         Accounted \subseteq Accounted',
         todo' = todo \/ (todo' = todo \ {s} /\ s \in Accounted')
  PROVE  DataInv'
  <1>1. gapId \in OpenGaps /\ gapId \in DOMAIN gaps /\ cursor = gaps[gapId].end
        /\ lo \in Nat /\ cursor \in Nat /\ Tip \in Nat /\ s \in lo..cursor
    BY TipIsNat DEF DataInv, BackfillInv, OpenGaps, TypeOK
  <1>2. cursor < Tip /\ cursor + 1..Tip \subseteq Accounted
    BY <1>1 DEF DataInv, GapInv
  <1>3. ledger # {} /\ Tip \in ledger /\ Tip # 0
    BY <1>1 DEF DataInv, TipInv
  <1>4. Tip' = Tip /\ ledger' # {} /\ Tip' \in ledger'
    BY <1>3 DEF Tip
  <1>5. Accounted' \subseteq Accounted \cup {s}
    BY DEF Accounted
  <1>6. s + 1..Tip \subseteq Accounted
    BY AboveNext
  <1>7. \A low \in Accounted' : low..Tip \subseteq Accounted'
    <2>1. SUFFICES ASSUME NEW low \in Accounted', NEW t \in low..Tip PROVE t \in Accounted'
      OBVIOUS
    <2>2. CASE low \in Accounted
      BY <2>2 DEF DataInv, TipInv
    <2>3. CASE low \notin Accounted
      <3>1. low = s /\ s \in Accounted'
        BY <1>5, <2>3
      <3>2. t = s \/ t \in s + 1..Tip
        BY <1>1, <3>1
      <3>3. QED
        BY <1>6, <3>1, <3>2
    <2>4. QED
      BY <2>2, <2>3
  <1>8. TipInv'
    <2>1. s <= Tip /\ s < Tip
      BY <1>1, <1>2
    <2>2. QED
      BY <1>4, <1>7, <2>1 DEF DataInv, TipInv
  <1>9. GapInv'
    <2>1. \A i \in DOMAIN gaps : gaps[i].end + 1..Tip \subseteq Accounted'
      BY DEF DataInv, GapInv
    <2>2. QED
      BY <1>4, <2>1 DEF DataInv, GapInv, OneOpenGap, OpenGaps
  <1>10. BackfillInv'
    <2>1. todo' \subseteq lo..cursor /\ lo..cursor \subseteq Accounted' \cup todo'
      BY DEF DataInv, BackfillInv
    <2>2. QED
      BY <1>1, <2>1 DEF DataInv, BackfillInv, OpenGaps
  <1>11. QED
    BY <1>8, <1>9, <1>10 DEF DataInv

LEMMA LedgerOkStep ==
  ASSUME TypeOK, TypeOK', DataInv, NEW s \in todo, BfLedgerOk(s)
  PROVE  DataInv'
  <1>1. Accounted' = Accounted \cup {s} /\ ledger' \cap skipped' = {}
    BY DEF BfLedgerOk, Accounted, DataInv, TipInv
  <1>2. QED
    BY <1>1, AttemptStep DEF BfLedgerOk

LEMMA LedgerFailsStep ==
  ASSUME TypeOK, TypeOK', DataInv, NEW s \in todo, NEW committed \in BOOLEAN,
         BfLedgerFails(s, committed)
  PROVE  DataInv'
  <1> USE DEF BfLedgerFails
  <1>1. ledger \cap skipped = {}
    BY DEF DataInv, TipInv
  <1>2. ledger' \in {ledger, ledger \cup {s}}
    OBVIOUS
  <1>3. CASE s \in ledger'
    <2>1. skipped' = skipped \ {s}
      BY <1>3
    <2>2. ledger' \cap skipped' = {} /\ Accounted \subseteq Accounted' /\ s \in Accounted'
      BY <1>1, <1>2, <1>3, <2>1 DEF Accounted
    <2>3. QED
      BY <1>2, <2>1, <2>2, AttemptStep
  <1>4. CASE s \notin ledger'
    <2>1. ledger' = ledger /\ skipped' \in {skipped, skipped \cup {s}}
      BY <1>2, <1>4
    <2>2. attempt = 2 => s \in skipped'
      BY <1>4
    <2>3. ledger' \cap skipped' = {} /\ Accounted \subseteq Accounted'
          /\ (attempt = 2 => s \in Accounted')
      BY <1>1, <1>4, <2>1, <2>2 DEF Accounted
    <2>4. todo' = todo \/ (todo' = todo \ {s} /\ s \in Accounted')
      BY <2>3
    <2>5. QED
      BY <1>2, <2>1, <2>3, <2>4, AttemptStep
  <1>5. QED
    BY <1>3, <1>4

\* A claimed range's row is rewritten with a lower range_end that everything
\* accounted for reaches down to, and stays open or is closed.
LEMMA RangeEndStep ==
  ASSUME TypeOK, TypeOK', DataInv, gapId \in OpenGaps,
         NEW e \in Nat, NEW st \in {"running", "done"},
         gaps' = [gaps EXCEPT ![gapId] = [gaps[gapId] EXCEPT !.state = st, !.end = e]],
         UNCHANGED <<ledger, checkpoint, snapSeq, skipped, gapId>>,
         gaps[gapId].start <= e + 1, e <= gaps[gapId].end,
         e + 1..gaps[gapId].end \subseteq Accounted
  PROVE  /\ TipInv' /\ GapInv'
         /\ gaps'[gapId].end = e /\ gaps'[gapId].state = st
         /\ gaps'[gapId].start = gaps[gapId].start
  <1>1. gapId \in DOMAIN gaps /\ gaps[gapId] \in Gap /\ gaps[gapId].end \in Nat
        /\ gaps[gapId].start \in Nat /\ gaps \in Seq(Gap) /\ Tip \in Nat
    BY GapRowTyped, TipIsNat DEF OpenGaps, TypeOK
  <1> DEFINE row == [gaps[gapId] EXCEPT !.state = st, !.end = e]
  <1>2. row \in Gap /\ row.start = gaps[gapId].start /\ row.end = e /\ row.state = st
    BY <1>1 DEF Gap
  <1>3. /\ DOMAIN gaps' = DOMAIN gaps
        /\ gaps'[gapId] = row
        /\ \A j \in DOMAIN gaps : j # gapId => gaps'[j] = gaps[j]
    <2>1. gaps' = [gaps EXCEPT ![gapId] = row]
      OBVIOUS
    <2> HIDE DEF row
    <2>2. QED
      BY <1>1, <1>2, <2>1, SeqUpdate
  <1> HIDE DEF row
  <1>4. Tip' = Tip /\ Accounted' = Accounted
    BY DEF Tip, Accounted
  <1>5. TipInv'
    BY <1>1, <1>3, <1>4 DEF DataInv, TipInv
  <1>6. gaps[gapId].end < Tip /\ gaps[gapId].end + 1..Tip \subseteq Accounted
        /\ 1 <= gaps[gapId].start
    BY <1>1 DEF DataInv, GapInv
  <1>7. e < Tip /\ e + 1..Tip \subseteq Accounted
    <2>1. \A t \in e + 1..Tip : t \in e + 1..gaps[gapId].end \/ t \in gaps[gapId].end + 1..Tip
      BY <1>1
    <2>2. QED
      BY <1>1, <1>6, <2>1
  <1>8. OpenGaps' \subseteq OpenGaps
    BY <1>3 DEF OpenGaps
  <1>9. GapInv'
    <2>1. ASSUME NEW i \in DOMAIN gaps'
          PROVE  /\ 1 <= gaps'[i].start
                 /\ gaps'[i].start <= gaps'[i].end + 1
                 /\ gaps'[i].end < Tip'
                 /\ gaps'[i].end + 1..Tip' \subseteq Accounted'
      <3>1. CASE i = gapId
        BY <3>1, <1>2, <1>3, <1>4, <1>6, <1>7
      <3>2. CASE i # gapId
        BY <3>2, <1>3, <1>4 DEF DataInv, GapInv
      <3>3. QED
        BY <3>1, <3>2
    <2>2. OneOpenGap'
      BY <1>8 DEF DataInv, GapInv, OneOpenGap
    <2>3. QED
      BY <2>1, <2>2 DEF GapInv
  <1>10. QED
    BY <1>2, <1>3, <1>5, <1>9

LEMMA AdvanceStep ==
  ASSUME TypeOK, TypeOK', DataInv, BfAdvance
  PROVE  DataInv'
  <1> USE DEF BfAdvance
  <1>1. /\ gapId \in OpenGaps /\ gapId \in DOMAIN gaps /\ gaps[gapId] \in Gap
        /\ cursor = gaps[gapId].end /\ gaps[gapId].state = "running"
        /\ gaps[gapId].start \in Nat /\ gaps[gapId].start >= 1
        /\ gaps[gapId].start <= lo /\ lo <= cursor /\ lo \in Nat /\ cursor \in Nat
        /\ lo..cursor \subseteq Accounted
    <2>1. gapId \in OpenGaps /\ gapId \in DOMAIN gaps /\ gaps[gapId] \in Gap
      BY GapRowTyped DEF DataInv, BackfillInv, OpenGaps
    <2>2. gaps[gapId].state = "running" /\ gaps[gapId].start \in Nat
      BY <2>1, GapRow DEF OpenGaps
    <2>3. QED
      BY <2>1, <2>2 DEF DataInv, BackfillInv, GapInv, TypeOK
  <1> DEFINE e == lo - 1
  <1>2. e \in Nat /\ e + 1 = lo /\ e <= gaps[gapId].end /\ gaps[gapId].start <= e + 1
    BY <1>1
  <1>3. gaps' = [gaps EXCEPT ![gapId] = [gaps[gapId] EXCEPT !.state = "running", !.end = e]]
    <2>1. (IF lo - 1 > gaps[gapId].start - 1 THEN lo - 1 ELSE gaps[gapId].start - 1) = e
      BY <1>1
    <2>2. [gaps[gapId] EXCEPT !.end = e] = [gaps[gapId] EXCEPT !.state = "running", !.end = e]
      BY <1>1 DEF Gap
    <2>3. gaps' = [gaps EXCEPT ![gapId] = [gaps[gapId] EXCEPT !.end = e]]
      BY <2>1
    <2>4. QED
      BY <2>2, <2>3
  <1>4. e + 1..gaps[gapId].end \subseteq Accounted
    BY <1>1, <1>2
  <1> HIDE DEF e
  <1>5. TipInv' /\ GapInv' /\ gaps'[gapId].end = e /\ gaps'[gapId].state = "running"
    BY <1>1, <1>2, <1>3, <1>4, RangeEndStep
  <1>6. cursor' = gaps'[gapId].end /\ gapId \in OpenGaps'
    <2>1. DOMAIN gaps' = DOMAIN gaps
      OBVIOUS
    <2>2. QED
      BY <1>1, <1>5, <2>1 DEF e, OpenGaps
  <1>7. BackfillInv'
    BY <1>6 DEF DataInv, BackfillInv
  <1>8. QED
    BY <1>5, <1>7 DEF DataInv

LEMMA FinishStep ==
  ASSUME TypeOK, TypeOK', DataInv, BfFinish
  PROVE  DataInv'
  <1> USE DEF BfFinish
  <1>1. /\ gapId \in OpenGaps /\ gapId \in DOMAIN gaps
        /\ cursor = gaps[gapId].end
        /\ gaps[gapId].start \in Nat /\ gaps[gapId].end \in Nat
        /\ gaps[gapId].start >= 1
        /\ gaps[gapId].start <= gaps[gapId].end + 1
    <2>1. gapId \in OpenGaps /\ gapId \in DOMAIN gaps /\ cursor = gaps[gapId].end
      BY DEF DataInv, BackfillInv, OpenGaps
    <2>2. QED
      BY <2>1, GapRowTyped DEF DataInv, GapInv
  <1> DEFINE e == gaps[gapId].start - 1
  <1>2. e \in Nat /\ e <= gaps[gapId].end /\ gaps[gapId].start <= e + 1
    BY <1>1
  <1>3. gaps' = [gaps EXCEPT ![gapId] = [gaps[gapId] EXCEPT !.state = "done", !.end = e]]
    BY <1>1
  <1>4. e + 1..gaps[gapId].end \subseteq Accounted
    BY <1>1
  <1> HIDE DEF e
  <1>5. TipInv' /\ GapInv'
    BY <1>1, <1>2, <1>3, <1>4, RangeEndStep
  <1>6. BackfillInv'
    BY DEF DataInv, BackfillInv
  <1>7. QED
    BY <1>5, <1>6 DEF DataInv

-----------------------------------------------------------------------------
(* The parts of the invariant about the live process.                        *)

\* An unfinished snapshot keeps live sync from running, so only the snapshot
\* itself seeds the checkpoint until it is done.
LEMMA SnapshotStep ==
  ASSUME TypeOK, SnapshotInv, LiveInv, [Next]_vars
  PROVE  SnapshotInv'
  <1> USE HeadAssumption, ConfigAssumption
      DEF SnapshotInv, HeadAssumption, ConfigAssumption, TypeOK, LiveStages, Running,
          env, dbVars, liveVars, drainVars
  <1>1. CASE LedgerCloses
    BY <1>1 DEF LedgerCloses, dbVars, liveVars
  <1>2. CASE LiveBoot
    BY <1>2 DEF LiveBoot
  <1>3. CASE SnapshotChoose
    BY <1>3 DEF SnapshotChoose, SnapshotLedger
  <1>4. CASE SnapshotWalked
    BY <1>4 DEF SnapshotWalked
  <1>5. CASE SnapshotInsertRow
    BY <1>5 DEF SnapshotInsertRow
  <1>6. CASE SnapshotSeedCheckpoint
    BY <1>6 DEF SnapshotSeedCheckpoint
  <1>7. CASE SnapshotMarkDone
    BY <1>7 DEF SnapshotMarkDone
  <1>8. CASE LiveResolve
    BY <1>8 DEF LiveResolve, ResolveStart
  <1>9. CASE LiveKick
    BY <1>9 DEF LiveKick, DrainUpTo
  <1>10. ASSUME NEW t \in 1..head, LiveNotify(t) PROVE SnapshotInv'
    BY <1>10 DEF LiveNotify, DrainUpTo
  <1>11. CASE DrainExit
    BY <1>11 DEF DrainExit
  <1>12. CASE DrainFetch
    BY <1>12 DEF DrainFetch
  <1>13. CASE DrainCommit
    BY <1>13 DEF DrainCommit, LiveInv
  <1>14. CASE DrainAck
    BY <1>14 DEF DrainAck
  <1>15. CASE DrainFail
    BY <1>15 DEF DrainFail, DrainGoesOn
  <1>16. CASE LiveStop
    BY <1>16 DEF LiveStop
  <1>17. CASE LiveExit
    BY <1>17 DEF LiveExit, LiveGone
  <1>18. CASE LiveCrash
    BY <1>18 DEF LiveCrash, LiveGone
  <1>19. CASE BfStart
    BY <1>19 DEF BfStart, dbVars, liveVars
  <1>20. CASE BfClaimOpen
    BY <1>20 DEF BfClaimOpen, dbVars, liveVars
  <1>21. CASE BfOpenGap
    BY <1>21 DEF BfOpenGap, dbVars, liveVars
  <1>22. CASE BfChunk
    BY <1>22 DEF BfChunk, dbVars, liveVars
  <1>23. ASSUME NEW s \in todo, BfLedgerOk(s) PROVE SnapshotInv'
    BY <1>23 DEF BfLedgerOk, dbVars, liveVars
  <1>24. ASSUME NEW s \in todo, NEW committed \in BOOLEAN, BfLedgerFails(s, committed)
         PROVE SnapshotInv'
    BY <1>24 DEF BfLedgerFails, dbVars, liveVars
  <1>25. CASE BfAdvance
    BY <1>25 DEF BfAdvance, dbVars, liveVars
  <1>26. CASE BfFinish
    BY <1>26 DEF BfFinish, dbVars, liveVars
  <1>27. CASE BfQueryFails
    BY <1>27 DEF BfQueryFails, dbVars, liveVars
  <1>28. CASE BfCrash
    BY <1>28 DEF BfCrash, BfGone, dbVars, liveVars
  <1>31. CASE \E s \in todo : BfPrefetchFails(s)
    BY <1>31 DEF BfPrefetchFails, BfGone, dbVars, liveVars
  <1>29. CASE UNCHANGED vars
    BY <1>29 DEF vars
  <1>30. QED
    BY <1>1, <1>2, <1>3, <1>4, <1>5, <1>6, <1>7, <1>8, <1>9, <1>10, <1>11, <1>12,
       <1>13, <1>14, <1>15, <1>16, <1>17, <1>18, <1>19, <1>20, <1>21, <1>22, <1>23,
       <1>24, <1>25, <1>26, <1>27, <1>28, <1>31, <1>29
       DEF Next, LiveNext, BfNext

\* What live sync is about to write is the tip or the ledger above it.
LEMMA LiveStep ==
  ASSUME TypeOK, SnapshotInv, LiveInv, [Next]_vars
  PROVE  LiveInv'
  <1> USE HeadAssumption, ConfigAssumption
      DEF LiveInv, HeadAssumption, ConfigAssumption, TypeOK, LiveStages, Running,
          env, dbVars, liveVars, drainVars
  <1>1. CASE LedgerCloses
    BY <1>1 DEF LedgerCloses, dbVars, liveVars
  <1>2. CASE LiveBoot
    BY <1>2 DEF LiveBoot
  <1>3. CASE SnapshotChoose
    BY <1>3 DEF SnapshotChoose, SnapshotLedger
  <1>4. CASE SnapshotWalked
    BY <1>4 DEF SnapshotWalked
  <1>5. CASE SnapshotInsertRow
    BY <1>5 DEF SnapshotInsertRow
  <1>6. CASE SnapshotSeedCheckpoint
    BY <1>6 DEF SnapshotSeedCheckpoint
  <1>7. CASE SnapshotMarkDone
    BY <1>7 DEF SnapshotMarkDone
  <1>8. CASE LiveResolve
    BY <1>8 DEF LiveResolve, ResolveStart
  <1>9. CASE LiveKick
    BY <1>9 DEF LiveKick, DrainUpTo
  <1>10. ASSUME NEW t \in 1..head, LiveNotify(t) PROVE LiveInv'
    BY <1>10 DEF LiveNotify, DrainUpTo
  <1>11. CASE DrainExit
    BY <1>11 DEF DrainExit
  <1>12. CASE DrainFetch
    BY <1>12 DEF DrainFetch
  <1>13. CASE DrainCommit
    BY <1>13 DEF DrainCommit
  <1>14. CASE DrainAck
    BY <1>14 DEF DrainAck
  <1>15. CASE DrainFail
    BY <1>15 DEF DrainFail, DrainGoesOn
  <1>16. CASE LiveStop
    BY <1>16 DEF LiveStop
  <1>17. CASE LiveExit
    BY <1>17 DEF LiveExit, LiveGone
  <1>18. CASE LiveCrash
    BY <1>18 DEF LiveCrash, LiveGone
  <1>19. CASE BfStart
    BY <1>19 DEF BfStart, dbVars, liveVars
  <1>20. CASE BfClaimOpen
    BY <1>20 DEF BfClaimOpen, dbVars, liveVars
  <1>21. CASE BfOpenGap
    BY <1>21 DEF BfOpenGap, dbVars, liveVars
  <1>22. CASE BfChunk
    BY <1>22 DEF BfChunk, dbVars, liveVars
  <1>23. ASSUME NEW s \in todo, BfLedgerOk(s) PROVE LiveInv'
    BY <1>23 DEF BfLedgerOk, dbVars, liveVars
  <1>24. ASSUME NEW s \in todo, NEW committed \in BOOLEAN, BfLedgerFails(s, committed)
         PROVE LiveInv'
    BY <1>24 DEF BfLedgerFails, dbVars, liveVars
  <1>25. CASE BfAdvance
    BY <1>25 DEF BfAdvance, dbVars, liveVars
  <1>26. CASE BfFinish
    BY <1>26 DEF BfFinish, dbVars, liveVars
  <1>27. CASE BfQueryFails
    BY <1>27 DEF BfQueryFails, dbVars, liveVars
  <1>28. CASE BfCrash
    BY <1>28 DEF BfCrash, BfGone, dbVars, liveVars
  <1>31. CASE \E s \in todo : BfPrefetchFails(s)
    BY <1>31 DEF BfPrefetchFails, BfGone, dbVars, liveVars
  <1>29. CASE UNCHANGED vars
    BY <1>29 DEF vars
  <1>30. QED
    BY <1>1, <1>2, <1>3, <1>4, <1>5, <1>6, <1>7, <1>8, <1>9, <1>10, <1>11, <1>12,
       <1>13, <1>14, <1>15, <1>16, <1>17, <1>18, <1>19, <1>20, <1>21, <1>22, <1>23,
       <1>24, <1>25, <1>26, <1>27, <1>28, <1>31, <1>29
       DEF Next, LiveNext, BfNext

\* One step of either process keeps the index, the ranges and the backfill's
\* position consistent.
LEMMA DataStep ==
  ASSUME TypeOK, TypeOK', SnapshotInv, LiveInv, DataInv, [Next]_vars
  PROVE  DataInv'
  <1> USE DEF dbVars, liveVars, drainVars
  <1>1. CASE LedgerCloses
    BY <1>1, IndexUntouched DEF LedgerCloses, Tip
  <1>2. CASE LiveBoot
    BY <1>2, IndexUntouched DEF LiveBoot, Tip
  <1>3. CASE SnapshotChoose
    BY <1>3, ChooseStep
  <1>4. CASE SnapshotWalked
    BY <1>4, IndexUntouched DEF SnapshotWalked, Tip
  <1>5. CASE SnapshotInsertRow
    BY <1>5, InsertRowStep
  <1>6. CASE SnapshotSeedCheckpoint
    BY <1>6, SeedCheckpointStep
  <1>7. CASE SnapshotMarkDone
    BY <1>7, IndexUntouched DEF SnapshotMarkDone, Tip
  <1>8. CASE LiveResolve
    BY <1>8, IndexUntouched DEF LiveResolve, Tip
  <1>9. CASE LiveKick
    BY <1>9, IndexUntouched DEF LiveKick, Tip
  <1>10. ASSUME NEW t \in 1..head, LiveNotify(t) PROVE DataInv'
    BY <1>10, IndexUntouched DEF LiveNotify, Tip
  <1>11. CASE DrainExit
    BY <1>11, IndexUntouched DEF DrainExit, Tip
  <1>12. CASE DrainFetch
    BY <1>12, IndexUntouched DEF DrainFetch, Tip
  <1>13. CASE DrainCommit
    BY <1>13, CommitStep
  <1>14. CASE DrainAck
    BY <1>14, IndexUntouched DEF DrainAck, Tip
  <1>15. CASE DrainFail
    BY <1>15, IndexUntouched DEF DrainFail, Tip
  <1>16. CASE LiveStop
    BY <1>16, IndexUntouched DEF LiveStop, Tip
  <1>17. CASE LiveExit
    BY <1>17, IndexUntouched DEF LiveExit, LiveGone, Tip
  <1>18. CASE LiveCrash
    BY <1>18, IndexUntouched DEF LiveCrash, LiveGone, Tip
  <1>19. CASE BfStart
    BY <1>19, ConfigAssumption DEF ConfigAssumption, BfStart, DataInv, TipInv, GapInv, BackfillInv, OneOpenGap, OpenGaps, Accounted, Tip
  <1>20. CASE BfClaimOpen
    BY <1>20, ClaimOpenStep
  <1>21. CASE BfOpenGap
    BY <1>21, OpenGapStep
  <1>22. CASE BfChunk
    BY <1>22, ChunkStep
  <1>23. ASSUME NEW s \in todo, BfLedgerOk(s) PROVE DataInv'
    BY <1>23, LedgerOkStep
  <1>24. ASSUME NEW s \in todo, NEW committed \in BOOLEAN, BfLedgerFails(s, committed)
         PROVE DataInv'
    BY <1>24, LedgerFailsStep
  <1>25. CASE BfAdvance
    BY <1>25, AdvanceStep
  <1>26. CASE BfFinish
    BY <1>26, FinishStep
  <1>27. CASE BfQueryFails
    BY <1>27 DEF BfQueryFails, DataInv, TipInv, GapInv, BackfillInv, OneOpenGap, OpenGaps, Accounted, Tip
  <1>28. CASE BfCrash
    BY <1>28 DEF BfCrash, BfGone, DataInv, TipInv, GapInv, BackfillInv, OneOpenGap, OpenGaps, Accounted, Tip
  <1>31. CASE \E s \in todo : BfPrefetchFails(s)
    BY <1>31 DEF BfPrefetchFails, BfGone, DataInv, TipInv, GapInv, BackfillInv, OneOpenGap, OpenGaps, Accounted, Tip
  <1>29. CASE UNCHANGED vars
    BY <1>29, IndexUntouched DEF vars, Tip
  <1>30. QED
    BY <1>1, <1>2, <1>3, <1>4, <1>5, <1>6, <1>7, <1>8, <1>9, <1>10, <1>11, <1>12,
       <1>13, <1>14, <1>15, <1>16, <1>17, <1>18, <1>19, <1>20, <1>21, <1>22, <1>23,
       <1>24, <1>25, <1>26, <1>27, <1>28, <1>31, <1>29
       DEF Next, LiveNext, BfNext

-----------------------------------------------------------------------------
(* The theorems. *)

LEMMA InvInit == Init => IndInv
  <1> SUFFICES ASSUME Init PROVE IndInv
    OBVIOUS
  <1> USE DEF Init
  <1>1. TypeOK
    BY TypeInit
  <1>2. SnapshotInv /\ LiveInv
    BY DEF SnapshotInv, LiveInv, Running
  <1>3. TipInv /\ GapInv /\ BackfillInv
    BY DEF TipInv, GapInv, BackfillInv, OneOpenGap, OpenGaps, Accounted, Tip
  <1>4. QED
    BY <1>1, <1>2, <1>3 DEF IndInv

LEMMA InvStep == IndInv /\ [Next]_vars => IndInv'
  <1> SUFFICES ASSUME IndInv, [Next]_vars PROVE IndInv'
    OBVIOUS
  <1>1. TypeOK /\ SnapshotInv /\ LiveInv /\ DataInv /\ GapInv /\ BackfillInv
    BY DEF IndInv, DataInv
  <1>2. TypeOK'
    BY <1>1, TypeStep
  <1>3. SnapshotInv'
    BY <1>1, SnapshotStep
  <1>4. LiveInv'
    BY <1>1, LiveStep
  <1>5. DataInv'
    BY <1>1, <1>2, DataStep
  <1>6. QED
    BY <1>2, <1>3, <1>4, <1>5 DEF IndInv, DataInv

\* The inductive invariant holds in every reachable state, for every depth of
\* history, window, floor, chunk size and number of crashes.
THEOREM Invariance == Spec => []IndInv
  BY InvInit, InvStep, PTL DEF Spec

\* Every variable of both processes and of the database keeps its type.
THEOREM TypeCorrect == Spec => []TypeOK
  <1>1. IndInv => TypeOK
    BY DEF IndInv
  <1>2. QED
    BY <1>1, Invariance, PTL

\* No ledger between the lowest row and the checkpoint is missing unless the
\* backfill gave it up (sync.ts resolveStart, snapshot.ts, backfill.ts runGap).
THEOREM NoHole == Spec => []NoUnexplainedHole
  <1>1. IndInv => NoUnexplainedHole
    <2>1. SUFFICES ASSUME IndInv, NEW low \in ledger, NEW s \in low..checkpoint
                   PROVE  s \in Accounted
      BY DEF NoUnexplainedHole, Accounted
    <2>2. TypeOK /\ TipInv
      BY <2>1 DEF IndInv
    <2>3. checkpoint \in Nat /\ low \in Nat /\ low <= Tip /\ Tip \in Nat
      BY <2>2, TipIsNat DEF TypeOK, TipInv
    <2>4. s \in low..Tip
      BY <2>3 DEF Tip
    <2>5. QED
      BY <2>2, <2>4 DEF TipInv, Accounted
  <1>2. QED
    BY <1>1, Invariance, PTL

\* range_end never claims a ledger that was neither written nor given up, so a
\* backfill that resumes from it after a crash leaves nothing behind it.
THEOREM CursorIsTruthful == Spec => []CursorTruthful
  <1>1. IndInv => CursorTruthful
    <2>1. SUFFICES ASSUME IndInv, NEW i \in DOMAIN gaps, NEW s \in gaps[i].end + 1..checkpoint
                   PROVE  s \in Accounted
      BY DEF CursorTruthful, Accounted
    <2>2. TypeOK /\ GapInv
      BY <2>1 DEF IndInv
    <2>3. checkpoint \in Nat /\ gaps[i].end \in Nat /\ Tip \in Nat
      BY <2>2, TipIsNat, GapRowTyped DEF TypeOK
    <2>4. s \in gaps[i].end + 1..Tip
      BY <2>3 DEF Tip
    <2>5. QED
      BY <2>2, <2>4 DEF GapInv
  <1>2. QED
    BY <1>1, Invariance, PTL

\* At most one range is open, whatever crashes interrupted claiming it.
THEOREM AtMostOneOpenGap == Spec => []OneOpenGap
  <1>1. IndInv => OneOpenGap
    BY DEF IndInv, GapInv
  <1>2. QED
    BY <1>1, Invariance, PTL

\* The checkpoint is the highest row and live sync never moves past the ledger
\* above it: a restart neither skips a ledger nor falls back.
THEOREM CheckpointAtTip == Spec => []CheckpointIsTip
  <1>1. IndInv => CheckpointIsTip
    <2>1. SUFFICES ASSUME IndInv, checkpoint # 0
                   PROVE  /\ checkpoint \in ledger
                          /\ \A s \in ledger : s <= checkpoint
                          /\ Running => nextSeq \in {checkpoint, checkpoint + 1}
      BY DEF CheckpointIsTip
    <2>2. Tip = checkpoint
      BY <2>1 DEF Tip
    <2>3. ledger # {}
      BY <2>1 DEF IndInv, TipInv
    <2>4. QED
      BY <2>1, <2>2, <2>3 DEF IndInv, TipInv, LiveInv
  <1>2. QED
    BY <1>1, Invariance, PTL

\* Live sync and backfill never hold the same ledger: their writes for one
\* ledger cannot interleave.
THEOREM WritersStayApart == Spec => []WritersApart
  <1>1. IndInv => WritersApart
    <2>1. SUFFICES ASSUME IndInv PROVE WritersApart
      OBVIOUS
    <2>2. TypeOK /\ SnapshotInv /\ LiveInv /\ TipInv /\ GapInv /\ BackfillInv
      BY <2>1 DEF IndInv
    <2>3. ASSUME Running PROVE \A i \in DOMAIN gaps : gaps[i].end < nextSeq
      <3>1. SUFFICES ASSUME NEW i \in DOMAIN gaps PROVE gaps[i].end < nextSeq
        OBVIOUS
      <3>2. ledger # {} /\ gaps[i].end < Tip /\ gaps[i].end \in Nat
        BY <2>2, GapRowTyped DEF TipInv, GapInv
      <3>3. checkpoint # 0
        <4>1. SUFFICES ASSUME checkpoint = 0 PROVE FALSE
          OBVIOUS
        <4>2. snapSeq = 0
          BY <2>2, <2>3, <4>1 DEF SnapshotInv
        <4>3. QED
          BY <2>2, <3>2, <4>1, <4>2 DEF TipInv, Tip
      <3>4. Tip = checkpoint /\ checkpoint \in Nat /\ nextSeq \in {checkpoint, checkpoint + 1}
        BY <2>2, <2>3, <3>3 DEF Tip, LiveInv, TypeOK
      <3>5. QED
        BY <3>2, <3>4
    <2>4. ASSUME drain \in {"commit", "ack"}, NEW s \in todo PROVE s < nextSeq
      <3>1. Running
        BY <2>2, <2>4 DEF LiveInv
      <3>2. gapId \in DOMAIN gaps /\ s \in lo..gaps[gapId].end
        BY <2>2 DEF BackfillInv, OpenGaps
      <3>3. lo \in Nat /\ gaps[gapId].end \in Nat /\ nextSeq \in Nat
        BY <2>2, <3>2, GapRowTyped DEF TypeOK
      <3>4. QED
        BY <2>3, <3>1, <3>2, <3>3
    <2>5. QED
      BY <2>3, <2>4 DEF WritersApart
  <1>2. QED
    BY <1>1, Invariance, PTL

-----------------------------------------------------------------------------
(* The snapshot's ledger is not replayed. *)

\* The snapshot's ledger is at or below the checkpoint, and indexed as soon as
\* anything is: live sync starts above it, and no chunk takes it.
ReplayInv ==
  /\ snapSeq # 0 /\ checkpoint # 0 => snapSeq <= checkpoint
  /\ snapSeq # 0 /\ ledger # {} => snapSeq \in ledger
  /\ SnapshotNotReplayed

\* What the backfill has in hand is above 0 and below the tip.
LEMMA InHandBelowTip ==
  ASSUME IndInv
  PROVE  \A s \in todo : s # 0 /\ s < Tip
  <1>1. SUFFICES ASSUME NEW s \in todo PROVE s # 0 /\ s < Tip
    OBVIOUS
  <1>2. TypeOK /\ BackfillInv /\ GapInv
    BY DEF IndInv
  <1>3. bfPc = "ledger" /\ gapId \in DOMAIN gaps /\ cursor = gaps[gapId].end
    BY <1>1, <1>2 DEF BackfillInv, OpenGaps
  <1>4. gaps[gapId].start \in Nat /\ gaps[gapId].end \in Nat /\ Tip \in Nat /\ lo \in Nat /\ s \in Nat
    BY <1>1, <1>2, <1>3, GapRowTyped, TipIsNat DEF TypeOK
  <1>5. s \in lo..cursor /\ gaps[gapId].start <= lo /\ 1 <= gaps[gapId].start /\ gaps[gapId].end < Tip
    BY <1>1, <1>2, <1>3 DEF BackfillInv, GapInv
  <1>6. QED
    BY <1>3, <1>4, <1>5

\* The three steps that move one side of the comparison.
LEMMA ReplayChoose == IndInv /\ ReplayInv /\ SnapshotChoose => ReplayInv'
  <1> SUFFICES ASSUME IndInv, ReplayInv, SnapshotChoose PROVE ReplayInv'
    OBVIOUS
  <1>1. TypeOK /\ SnapshotInv /\ TipInv /\ Tip \in Nat
    BY TipIsNat DEF IndInv
  <1>2. UNCHANGED <<ledger, checkpoint, todo>> /\ ~Running' /\ snapSeq' = SnapshotLedger
    BY DEF SnapshotChoose, env, drainVars, bfVars, Running
  <1>3. CASE snapSeq # 0
    BY <1>2, <1>3 DEF ReplayInv, SnapshotNotReplayed, SnapshotLedger
  <1>4. CASE snapSeq = 0 /\ checkpoint # 0
    <2>1. snapSeq' = checkpoint /\ Tip = checkpoint /\ checkpoint \in ledger /\ checkpoint \in Nat
      BY <1>1, <1>2, <1>4 DEF SnapshotLedger, Tip, TipInv, TypeOK
    <2>2. \A s \in todo : s # checkpoint
      <3>1. SUFFICES ASSUME NEW s \in todo, s = checkpoint PROVE FALSE
        OBVIOUS
      <3>2. s < Tip
        BY InHandBelowTip
      <3>3. QED
        BY <2>1, <3>1, <3>2
    <2>3. QED
      BY <1>2, <2>1, <2>2 DEF ReplayInv, SnapshotNotReplayed
  <1>5. CASE snapSeq = 0 /\ checkpoint = 0
    <2>1. ledger = {} /\ Tip = 0
      BY <1>1, <1>5 DEF Tip, TipInv
    <2>2. todo = {}
      BY <1>1, <2>1, InHandBelowTip DEF TypeOK
    <2>3. QED
      BY <1>2, <1>5, <2>1, <2>2 DEF ReplayInv, SnapshotNotReplayed
  <1>6. QED
    BY <1>3, <1>4, <1>5

LEMMA ReplayResolve == IndInv /\ ReplayInv /\ LiveResolve => ReplayInv'
  <1> SUFFICES ASSUME IndInv, ReplayInv, LiveResolve PROVE ReplayInv'
    OBVIOUS
  <1>1. TypeOK /\ SnapshotInv
    BY DEF IndInv
  <1>2. UNCHANGED <<ledger, checkpoint, snapSeq, todo>> /\ nextSeq' = ResolveStart
    BY DEF LiveResolve, dbVars, bfVars
  <1>3. snapSeq \in Nat /\ checkpoint \in Nat /\ head \in Nat \ {0} /\ StartLedger \in Nat
    BY <1>1, HeadAssumption, ConfigAssumption DEF TypeOK, HeadAssumption, ConfigAssumption
  <1>4. checkpoint = 0 => snapSeq = 0
    BY <1>1 DEF SnapshotInv, LiveResolve
  <1>5. ResolveStart > snapSeq
    BY <1>3, <1>4 DEF ResolveStart, ReplayInv
  <1>6. QED
    BY <1>2, <1>5 DEF ReplayInv, SnapshotNotReplayed

LEMMA ReplayChunk == IndInv /\ ReplayInv /\ BfChunk => ReplayInv'
  <1> SUFFICES ASSUME IndInv, ReplayInv, BfChunk PROVE ReplayInv'
    OBVIOUS
  <1>1. TypeOK /\ BackfillInv /\ GapInv /\ TipInv
    BY DEF IndInv
  <1>2. UNCHANGED <<ledger, checkpoint, snapSeq, nextSeq, livePc>>
    BY DEF BfChunk, dbVars, liveVars, drainVars
  <1>3. gapId \in DOMAIN gaps
    BY <1>1 DEF BfChunk, BackfillInv, OpenGaps
  <1>4. ledger # {}
    BY <1>1, <1>3 DEF TipInv
  <1>5. lo' \in Nat \ {0}
    <2>1. gaps[gapId].start \in Nat /\ 1 <= gaps[gapId].start
      BY <1>1, <1>3, GapRowTyped DEF GapInv
    <2>2. QED
      BY <1>1, <2>1, ConfigAssumption DEF BfChunk, ChunkLow, TypeOK, ConfigAssumption
  <1>6. \A s \in todo' : s # snapSeq
    BY <1>1, <1>4, <1>5 DEF BfChunk, ReplayInv, TypeOK
  <1>7. QED
    BY <1>2, <1>6 DEF ReplayInv, SnapshotNotReplayed, Running

LEMMA ReplayStep == IndInv /\ ReplayInv /\ [Next]_vars => ReplayInv'
  <1> SUFFICES ASSUME IndInv, ReplayInv, [Next]_vars PROVE ReplayInv'
    OBVIOUS
  <1>1. TypeOK /\ SnapshotInv /\ LiveInv /\ TipInv
    BY DEF IndInv
  <1>2. snapSeq \in Nat /\ checkpoint \in Nat /\ nextSeq \in Nat
    BY <1>1 DEF TypeOK
  <1> USE DEF ReplayInv, SnapshotNotReplayed, Running, env, dbVars, liveVars, drainVars, bfVars
  <1>3. CASE SnapshotChoose
    BY <1>3, ReplayChoose
  <1>4. CASE LiveResolve
    BY <1>4, ReplayResolve
  <1>5. CASE BfChunk
    BY <1>5, ReplayChunk
  <1>6. CASE LiveBoot
    BY <1>6 DEF LiveBoot
  <1>7. CASE SnapshotWalked
    BY <1>7 DEF SnapshotWalked
  <1>8. CASE SnapshotInsertRow
    BY <1>8 DEF SnapshotInsertRow
  <1>9. CASE SnapshotSeedCheckpoint
    BY <1>2, <1>9 DEF SnapshotSeedCheckpoint
  <1>10. CASE SnapshotMarkDone
    BY <1>10 DEF SnapshotMarkDone
  <1>11. CASE LiveKick \/ DrainExit \/ DrainFetch \/ DrainFail \/ LedgerCloses
    BY <1>11 DEF LiveKick, DrainUpTo, DrainExit, DrainFetch, DrainFail, LedgerCloses
  <1>12. ASSUME NEW t \in 1..head, LiveNotify(t) PROVE ReplayInv'
    BY <1>12 DEF LiveNotify, DrainUpTo
  <1>13. CASE DrainCommit
    <2>1. Running
      BY <1>1, <1>13 DEF LiveInv, DrainCommit
    <2>2. snapSeq # 0 => checkpoint # 0
      BY <1>1, <2>1 DEF SnapshotInv
    <2>3. snapSeq # 0 => ledger # {}
      BY <1>1, <2>2 DEF TipInv
    <2>4. QED
      BY <1>2, <1>13, <2>2, <2>3 DEF DrainCommit
  <1>14. CASE DrainAck
    BY <1>2, <1>14 DEF DrainAck
  <1>15. CASE LiveStop \/ LiveExit \/ LiveCrash
    BY <1>15 DEF LiveStop, LiveExit, LiveCrash, LiveGone
  <1>16. CASE BfStart \/ BfClaimOpen \/ BfOpenGap \/ BfAdvance \/ BfFinish \/ BfQueryFails \/ BfCrash
             \/ \E s \in todo : BfPrefetchFails(s)
    BY <1>16 DEF BfStart, BfClaimOpen, BfOpenGap, StartGap, BfAdvance, BfFinish, BfQueryFails, BfCrash,
             BfPrefetchFails, BfGone
  <1>17. ASSUME NEW s \in todo, BfLedgerOk(s) PROVE ReplayInv'
    <2>1. ledger # {}
      BY <1>1, <1>17 DEF IndInv, BackfillInv, OpenGaps, TipInv, BfLedgerOk
    <2>2. QED
      BY <1>17, <2>1 DEF BfLedgerOk
  <1>18. ASSUME NEW s \in todo, NEW c \in BOOLEAN, BfLedgerFails(s, c) PROVE ReplayInv'
    <2>1. ledger # {}
      BY <1>1, <1>18 DEF IndInv, BackfillInv, OpenGaps, TipInv, BfLedgerFails
    <2>2. QED
      BY <1>18, <2>1 DEF BfLedgerFails
  <1>19. CASE UNCHANGED vars
    BY <1>19 DEF vars
  <1>20. QED
    BY <1>3, <1>4, <1>5, <1>6, <1>7, <1>8, <1>9, <1>10, <1>11, <1>12, <1>13, <1>14, <1>15,
       <1>16, <1>17, <1>18, <1>19 DEF Next, LiveNext, BfNext

\* Once a snapshot has taken a ledger's state, neither live sync nor the backfill
\* processes that ledger, whatever was killed on the way (snapshot.ts, sync.ts
\* resolveStart, backfill.ts).
THEOREM NotReplayed == Spec => []SnapshotNotReplayed
  <1>1. Init => ReplayInv
    BY DEF Init, ReplayInv, SnapshotNotReplayed, Running
  <1>2. ReplayInv => SnapshotNotReplayed
    BY DEF ReplayInv
  <1>3. QED
    BY <1>1, <1>2, ReplayStep, Invariance, PTL DEF Spec

-----------------------------------------------------------------------------
(* The refinement of LedgerIndex. *)

\* A ledger that was neither written nor given up is the one just below the
\* lowest that was.
LEMMA NextIsBelow ==
  ASSUME TypeOK, DataInv, bfPc = "ledger", NEW s \in todo, IsNext(s), s \notin Accounted
  PROVE  \E low \in ledger \cup skipped : Index!IsLowest(low) /\ low - 1 = s
  <1>1. s \in Nat /\ s < Tip /\ s + 1 \in Accounted /\ Tip \in Nat
    BY AboveNext, TipIsNat
  <1>2. ASSUME NEW t \in Accounted PROVE s + 1 <= t
    <2>1. t \in Nat
      BY DEF Accounted, TypeOK
    <2>2. t..Tip \subseteq Accounted
      BY DEF DataInv, TipInv
    <2>3. s \notin t..Tip
      BY <2>2
    <2>4. QED
      BY <1>1, <2>1, <2>3
  <1> DEFINE low == s + 1
  <1>3. low \in Accounted /\ (\A t \in Accounted : low <= t) /\ low - 1 = s
    BY <1>1, <1>2
  <1> HIDE DEF low
  <1>4. QED
    BY <1>3, Zenon DEF Accounted, Index!IsLowest

LEMMA IndexCommit ==
  ASSUME TypeOK, TypeOK', SnapshotInv, LiveInv, DataInv, DrainCommit
  PROVE  [Index!Next]_<<ledger, skipped>>
  <1> USE DEF DrainCommit, Index!Next
  <1>1. CASE ledger = {} /\ checkpoint = 0
    <2>1. ledger' = {nextSeq} /\ skipped' = skipped /\ nextSeq \in Nat
      BY <1>1 DEF DataInv, TipInv, TypeOK
    <2>2. QED
      BY <1>1, <2>1 DEF Index!Seed
  <1>2. CASE checkpoint # 0 /\ nextSeq = checkpoint
    BY <1>2 DEF DataInv, TipInv, Tip
  <1>3. CASE checkpoint # 0 /\ nextSeq = checkpoint + 1
    <2>1. Tip = checkpoint /\ checkpoint \in ledger /\ Index!IsHighest(checkpoint)
      BY <1>3 DEF DataInv, TipInv, Tip, Index!IsHighest
    <2>2. nextSeq \notin skipped
      BY <1>3, <2>1 DEF DataInv, TipInv, TypeOK
    <2>3. QED
      BY <1>3, <2>1, <2>2 DEF Index!ExtendUp
  <1>4. QED
    BY <1>1, <1>2, <1>3, CommitCases

LEMMA IndexAttempt ==
  ASSUME TypeOK, DataInv, bfPc = "ledger", NEW s \in todo, IsNext(s),
         \/ ledger' = ledger \cup {s} /\ skipped' = skipped \ {s}
         \/ ledger' = ledger /\ s \notin ledger /\ skipped' = skipped \cup {s}
  PROVE  [Index!Next]_<<ledger, skipped>>
  <1> USE DEF Index!Next
  <1>1. ledger \cap skipped = {}
    BY DEF DataInv, TipInv
  <1>2. CASE s \in ledger
    BY <1>1, <1>2
  <1>3. CASE s \in skipped
    BY <1>1, <1>3 DEF Index!FillWaived
  <1>4. CASE s \notin Accounted
    <2>1. PICK low \in ledger \cup skipped : Index!IsLowest(low) /\ low - 1 = s
      BY <1>4, NextIsBelow
    <2>2. CASE ledger' = ledger \cup {s} /\ skipped' = skipped \ {s}
      <3>1. skipped' = skipped
        BY <1>4, <2>2 DEF Accounted
      <3>2. QED
        BY <2>1, <2>2, <3>1, Zenon DEF Index!ExtendDown
    <2>3. CASE ledger' = ledger /\ skipped' = skipped \cup {s}
      BY <2>1, <2>3, Zenon DEF Index!WaiveDown
    <2>4. QED
      BY <2>2, <2>3
  <1>5. QED
    BY <1>2, <1>3, <1>4 DEF Accounted

\* Every step of the pipeline is a step of the index, or leaves it alone.
LEMMA IndexStep == IndInv /\ IndInv' /\ [Next]_vars => [Index!Next]_<<ledger, skipped>>
  <1> SUFFICES ASSUME IndInv, IndInv', [Next]_vars PROVE [Index!Next]_<<ledger, skipped>>
    OBVIOUS
  <1> USE DEF dbVars, liveVars, drainVars
  <1>0. TypeOK /\ TypeOK' /\ SnapshotInv /\ LiveInv /\ DataInv
    BY DEF IndInv, DataInv
  <1>1. CASE LedgerCloses
    BY <1>1 DEF LedgerCloses
  <1>2. CASE LiveBoot
    BY <1>2 DEF LiveBoot
  <1>3. CASE SnapshotChoose
    BY <1>3 DEF SnapshotChoose
  <1>4. CASE SnapshotWalked
    BY <1>4 DEF SnapshotWalked
  <1>5. CASE SnapshotInsertRow
    <2>1. snapSeq # 0 /\ snapSeq \in Nat /\ checkpoint \in {0, snapSeq}
      BY <1>0, <1>5 DEF SnapshotInsertRow, SnapshotInv, TypeOK
    <2>2. ledger' = ledger \cup {snapSeq} /\ skipped' = skipped
      BY <1>5 DEF SnapshotInsertRow
    <2>3. CASE ledger = {}
      BY <2>1, <2>2, <2>3 DEF Index!Next, Index!Seed
    <2>4. CASE ledger # {}
      BY <1>0, <2>1, <2>2, <2>4 DEF DataInv, TipInv, Tip
    <2>5. QED
      BY <2>3, <2>4
  <1>6. CASE SnapshotSeedCheckpoint
    BY <1>6 DEF SnapshotSeedCheckpoint
  <1>7. CASE SnapshotMarkDone
    BY <1>7 DEF SnapshotMarkDone
  <1>8. CASE LiveResolve
    BY <1>8 DEF LiveResolve
  <1>9. CASE LiveKick
    BY <1>9 DEF LiveKick
  <1>10. ASSUME NEW t \in 1..head, LiveNotify(t) PROVE [Index!Next]_<<ledger, skipped>>
    BY <1>10 DEF LiveNotify
  <1>11. CASE DrainExit
    BY <1>11 DEF DrainExit
  <1>12. CASE DrainFetch
    BY <1>12 DEF DrainFetch
  <1>13. CASE DrainCommit
    BY <1>0, <1>13, IndexCommit
  <1>14. CASE DrainAck
    BY <1>14 DEF DrainAck
  <1>15. CASE DrainFail
    BY <1>15 DEF DrainFail
  <1>16. CASE LiveStop
    BY <1>16 DEF LiveStop
  <1>17. CASE LiveExit
    BY <1>17 DEF LiveExit, LiveGone
  <1>18. CASE LiveCrash
    BY <1>18 DEF LiveCrash, LiveGone
  <1>19. CASE BfStart
    BY <1>19 DEF BfStart
  <1>20. CASE BfClaimOpen
    BY <1>20 DEF BfClaimOpen
  <1>21. CASE BfOpenGap
    BY <1>21 DEF BfOpenGap
  <1>22. CASE BfChunk
    BY <1>22 DEF BfChunk
  <1>23. ASSUME NEW s \in todo, BfLedgerOk(s) PROVE [Index!Next]_<<ledger, skipped>>
    BY <1>0, <1>23, IndexAttempt DEF BfLedgerOk
  <1>24. ASSUME NEW s \in todo, NEW committed \in BOOLEAN, BfLedgerFails(s, committed)
         PROVE [Index!Next]_<<ledger, skipped>>
    <2>1. ledger' \in {ledger, ledger \cup {s}} /\ bfPc = "ledger" /\ IsNext(s)
      BY <1>24 DEF BfLedgerFails
    <2>2. CASE s \in ledger'
      <3>1. ledger' = ledger \cup {s} /\ skipped' = skipped \ {s}
        BY <1>24, <2>1, <2>2 DEF BfLedgerFails
      <3>2. QED
        BY <1>0, <2>1, <3>1, IndexAttempt
    <2>3. CASE s \notin ledger'
      <3>1. ledger' = ledger /\ s \notin ledger
            /\ (skipped' = skipped \/ skipped' = skipped \cup {s})
        BY <1>24, <2>1, <2>3 DEF BfLedgerFails
      <3>2. QED
        BY <1>0, <2>1, <3>1, IndexAttempt
    <2>4. QED
      BY <2>2, <2>3
  <1>25. CASE BfAdvance
    BY <1>25 DEF BfAdvance
  <1>26. CASE BfFinish
    BY <1>26 DEF BfFinish
  <1>27. CASE BfQueryFails
    BY <1>27 DEF BfQueryFails
  <1>28. CASE BfCrash
    BY <1>28 DEF BfCrash, BfGone
  <1>31. CASE \E s \in todo : BfPrefetchFails(s)
    BY <1>31 DEF BfPrefetchFails, BfGone
  <1>29. CASE UNCHANGED vars
    BY <1>29 DEF vars
  <1>30. QED
    BY <1>1, <1>2, <1>3, <1>4, <1>5, <1>6, <1>7, <1>8, <1>9, <1>10, <1>11, <1>12,
       <1>13, <1>14, <1>15, <1>16, <1>17, <1>18, <1>19, <1>20, <1>21, <1>22, <1>23,
       <1>24, <1>25, <1>26, <1>27, <1>28, <1>31, <1>29
       DEF Next, LiveNext, BfNext

\* The two processes together implement LedgerIndex: the index starts with one
\* ledger, grows at its two ends by the next ledger, and never loses one.
THEOREM Refinement == Spec => ImplementsIndex
  <1>1. Init => Index!Init
    BY DEF Init, Index!Init
  <1>2. Index!indexVars = <<ledger, skipped>>
    BY DEF Index!indexVars
  <1>3. QED
    BY <1>1, <1>2, IndexStep, Invariance, PTL DEF Spec, ImplementsIndex, Index!Spec, Index!indexVars

-----------------------------------------------------------------------------
(* The order in which ledgers are taken: what the modules about the        *)
(* contents of ledgers rest on.                                            *)

\* What LedgerOrder calls snapSeq and fresh.
TakenSnap == IF snapSeq \in ledger THEN snapSeq ELSE 0
TakenFirst == snapSeq \in ledger /\ snapshotOn = "empty"

\* There is a lowest ledger, none is 0; a snapshot turned on at an empty index is
\* chosen before anything is indexed, one turned on later finds something indexed.
OrderInv ==
  /\ 0 \notin Accounted
  /\ Accounted # {} => Lowest \in Accounted /\ \A t \in Accounted : Lowest <= t
  /\ snapStatus # "none" => snapSeq # 0
  /\ snapshotOn = "empty" /\ snapSeq = 0 => ledger = {}
  /\ snapshotOn = "filled" => ledger # {}

WholeInv == IndInv /\ ReplayInv /\ OrderInv

\* A set of ledgers has one least element at most.
LEMMA LeastIsOne ==
  ASSUME NEW S \in SUBSET Nat, NEW x \in S, \A t \in S : x <= t
  PROVE  (CHOOSE s \in S : \A t \in S : s <= t) = x
  <1>1. \A y \in S : (\A t \in S : y <= t) => y = x
    OBVIOUS
  <1> QED
    BY <1>1

LEMMA LowestNow ==
  ASSUME TypeOK, NEW x \in Accounted, \A t \in Accounted : x <= t
  PROVE  Lowest = x
  <1>1. Accounted \in SUBSET Nat
    BY DEF Accounted, TypeOK
  <1> QED
    BY <1>1, LeastIsOne DEF Lowest

LEMMA LowestNext ==
  ASSUME TypeOK', NEW x \in Accounted', \A t \in Accounted' : x <= t
  PROVE  Lowest' = x
  <1>1. Accounted' \in SUBSET Nat
    BY DEF Accounted, TypeOK
  <1> QED
    BY <1>1, LeastIsOne DEF Lowest

------------------------------------------------------------------------------
(* The steps of LedgerOrder, by what they do to the five values. *)

Same == Lowest' = Lowest /\ Tip' = Tip /\ TakenSnap' = TakenSnap /\ (TakenFirst' <=> TakenFirst)
        /\ skipped' = skipped

LEMMA SameStep == Same => [Order!OrderNext]_(Order!orderVars)
  BY DEF Same, Order!orderVars, TakenSnap, TakenFirst

LEMMA SnapStep ==
  ASSUME NEW seq, seq # 0, TakenSnap = 0, TakenSnap' = seq, Tip' = seq, skipped' = skipped,
         TakenFirst' <=> (Tip = 0),
         IF Tip = 0 THEN Lowest' = seq ELSE Tip = seq /\ Lowest' = Lowest
  PROVE  Order!OrderNext
  <1>1. Order!SnapshotAt(seq)
    BY DEF Order!SnapshotAt, TakenSnap, TakenFirst
  <1> QED
    BY <1>1 DEF Order!OrderNext

LEMMA LiveTakes ==
  ASSUME NEW seq, Tip' = seq, TakenSnap' = TakenSnap, TakenFirst' <=> TakenFirst, skipped' = skipped,
         IF Tip = 0 THEN seq # 0 /\ Lowest' = seq ELSE seq = Tip + 1 /\ Lowest' = Lowest
  PROVE  Order!OrderNext
  <1>1. Order!LiveAt(seq)
    BY DEF Order!LiveAt, TakenSnap, TakenFirst
  <1> QED
    BY <1>1 DEF Order!OrderNext

LEMMA BackfillTakes ==
  ASSUME NEW seq \in skipped \cup {Lowest - 1}, seq > 0, skipped' = skipped \ {seq},
         Lowest' = (IF seq < Lowest THEN seq ELSE Lowest),
         Tip' = Tip, TakenSnap' = TakenSnap, TakenFirst' <=> TakenFirst
  PROVE  Order!OrderNext
  <1>1. Order!BackfillAt(seq)
    BY DEF Order!BackfillAt, TakenSnap, TakenFirst
  <1> QED
    BY <1>1 DEF Order!OrderNext

LEMMA BackfillGivesUp ==
  ASSUME NEW seq, seq = Lowest - 1, seq > 0, skipped' = skipped \cup {seq}, Lowest' = seq,
         Tip' = Tip, TakenSnap' = TakenSnap, TakenFirst' <=> TakenFirst
  PROVE  Order!OrderNext
  <1>1. Order!WaiveAt(seq)
    BY DEF Order!WaiveAt, TakenSnap, TakenFirst
  <1> QED
    BY <1>1 DEF Order!OrderNext

------------------------------------------------------------------------------
(* The steps of the pipeline. *)

OrderStep == OrderInv' /\ [Order!OrderNext]_(Order!orderVars)

\* Steps that touch neither the index nor the snapshot's choice.
LEMMA Untouched ==
  ASSUME OrderInv, UNCHANGED <<ledger, skipped, checkpoint, snapSeq, snapStatus, snapshotOn>>
  PROVE  OrderStep
  <1>1. Same /\ OrderInv'
    BY DEF Same, OrderInv, Accounted, Lowest, Tip, TakenSnap, TakenFirst
  <1> QED
    BY <1>1, SameStep DEF OrderStep

LEMMA BootStep == ASSUME WholeInv, LiveBoot PROVE OrderStep
  <1>1. UNCHANGED <<ledger, skipped, checkpoint, snapSeq, snapStatus>>
    BY DEF LiveBoot, dbVars
  <1>2. 0 \notin ledger
    BY DEF WholeInv, OrderInv, Accounted
  <1>3. snapshotOn = "off" => snapSeq = 0
    BY DEF WholeInv, IndInv, SnapshotInv
  <1>4. snapshotOn' = snapshotOn \/ (snapshotOn = "off" /\ snapshotOn' = IF ledger = {} THEN "empty" ELSE "filled")
    BY DEF LiveBoot
  <1>5. Same
    BY <1>1, <1>2, <1>3, <1>4 DEF Same, Accounted, Lowest, Tip, TakenSnap, TakenFirst
  <1>6. OrderInv'
    BY <1>1, <1>4 DEF WholeInv, OrderInv, Accounted, Lowest
  <1> QED
    BY <1>5, <1>6, SameStep DEF OrderStep

LEMMA ChooseOrder == ASSUME WholeInv, SnapshotChoose PROVE OrderStep
  <1>1. UNCHANGED <<ledger, skipped, checkpoint, snapshotOn>> /\ snapSeq' = SnapshotLedger
    BY DEF SnapshotChoose, env
  <1>2. TypeOK /\ TipInv /\ SnapshotInv /\ 0 \notin ledger
    BY DEF WholeInv, IndInv, OrderInv, Accounted
  <1>9. head # 0
    BY <1>2, HeadAssumption DEF HeadAssumption, TypeOK
  <1>3. snapSeq' # 0
    BY <1>1, <1>9 DEF SnapshotLedger
  <1>4. OrderInv'
    BY <1>1, <1>3 DEF WholeInv, OrderInv, Accounted, Lowest
  <1>5. Lowest' = Lowest
    BY <1>1 DEF Lowest, Accounted
  <1>6. CASE snapSeq # 0
    BY <1>1, <1>4, <1>5, <1>6, SameStep DEF SnapshotLedger, Same, Tip, TakenSnap, TakenFirst, OrderStep
  <1>7. CASE snapSeq = 0 /\ checkpoint # 0
    <2>1. snapSeq' = checkpoint /\ Tip = checkpoint /\ checkpoint \in ledger /\ Tip' = checkpoint
      BY <1>1, <1>2, <1>7 DEF SnapshotLedger, Tip, TipInv
    <2>2. TakenSnap = 0 /\ TakenSnap' = checkpoint
      BY <1>1, <1>2, <1>7, <2>1 DEF TakenSnap
    <2>3. ~TakenFirst'
      BY <1>1, <1>7, <2>1 DEF TakenFirst, WholeInv, OrderInv
    <2>4. Order!OrderNext
      BY <1>1, <1>5, <1>7, <2>1, <2>2, <2>3, SnapStep
    <2> QED
      BY <1>4, <2>4 DEF OrderStep
  <1>8. CASE snapSeq = 0 /\ checkpoint = 0
    <2>1. ledger = {}
      BY <1>2, <1>8 DEF TipInv, Tip
    <2>2. Same
      BY <1>1, <1>5, <1>8, <2>1 DEF Same, Tip, TakenSnap, TakenFirst
    <2> QED
      BY <1>4, <2>2, SameStep DEF OrderStep
  <1> QED
    BY <1>6, <1>7, <1>8

LEMMA InsertOrder == ASSUME WholeInv, TypeOK', SnapshotInsertRow PROVE OrderStep
  <1>1. UNCHANGED <<skipped, checkpoint, snapSeq, snapStatus, snapshotOn>> /\ ledger' = ledger \cup {snapSeq}
    BY DEF SnapshotInsertRow, env
  <1>2. TypeOK /\ TipInv /\ SnapshotInv /\ OrderInv
    BY DEF WholeInv, IndInv
  <1>3. snapSeq # 0 /\ snapSeq \in Nat /\ checkpoint \in {0, snapSeq} /\ snapshotOn # "off"
    BY <1>2 DEF SnapshotInsertRow, SnapshotInv, TypeOK
  <1>4. CASE ledger # {}
    <2>1. ledger' = ledger
      BY <1>1, <1>3, <1>4 DEF WholeInv, ReplayInv
    <2> QED
      BY <1>1, <1>2, <2>1, Untouched
  <1>5. CASE ledger = {}
    <2>1. Tip = 0 /\ Tip' = snapSeq /\ skipped = {} /\ Accounted' = {snapSeq}
      BY <1>1, <1>2, <1>5 DEF Tip, TipInv, Accounted
    <2>2. Lowest' = snapSeq
      BY <1>3, <2>1, LowestNext
    <2>3. TakenSnap = 0 /\ TakenSnap' = snapSeq
      BY <1>1, <1>5 DEF TakenSnap
    <2>4. snapshotOn = "empty"
      BY <1>2, <1>3, <1>5 DEF OrderInv, TypeOK
    <2>5. TakenFirst'
      BY <1>1, <2>4 DEF TakenFirst
    <2>6. Order!OrderNext
      BY <1>1, <1>3, <2>1, <2>2, <2>3, <2>5, SnapStep
    <2>7. OrderInv'
      BY <1>1, <1>2, <1>3, <2>1, <2>2 DEF OrderInv
    <2> QED
      BY <2>6, <2>7 DEF OrderStep
  <1> QED
    BY <1>4, <1>5

LEMMA SeedOrder == ASSUME WholeInv, SnapshotSeedCheckpoint PROVE OrderStep
  <1>1. UNCHANGED <<ledger, skipped, snapSeq, snapStatus, snapshotOn>>
    BY DEF SnapshotSeedCheckpoint, env
  <1>2. snapSeq \in ledger /\ checkpoint' = IF checkpoint = 0 THEN snapSeq ELSE checkpoint
    BY DEF SnapshotSeedCheckpoint, WholeInv, IndInv, SnapshotInv
  <1>3. Same
    BY <1>1, <1>2 DEF Same, Accounted, Lowest, Tip, TakenSnap, TakenFirst, WholeInv, OrderInv
  <1>4. OrderInv'
    BY <1>1 DEF WholeInv, OrderInv, Accounted, Lowest
  <1> QED
    BY <1>3, <1>4, SameStep DEF OrderStep

LEMMA CommitOrder == ASSUME WholeInv, TypeOK', DrainCommit PROVE OrderStep
  <1>1. UNCHANGED <<snapSeq, snapStatus, snapshotOn>>
    BY DEF DrainCommit, env
  <1>2. TypeOK /\ SnapshotInv /\ LiveInv /\ TipInv /\ OrderInv /\ DataInv
    BY DEF WholeInv, IndInv, DataInv
  <1>3. ledger' = ledger \cup {nextSeq} /\ skipped' = skipped \ {nextSeq} /\ nextSeq \in Nat /\ checkpoint \in Nat
        /\ checkpoint' = IF nextSeq > checkpoint THEN nextSeq ELSE checkpoint
    BY <1>2 DEF DrainCommit, TypeOK
  <1>4. nextSeq # 0 /\ nextSeq > snapSeq /\ snapSeq \in Nat
    BY <1>2 DEF DrainCommit, LiveInv, WholeInv, ReplayInv, SnapshotNotReplayed, TypeOK
  <1>5. TakenSnap' = TakenSnap /\ (TakenFirst' <=> TakenFirst)
    BY <1>1, <1>3, <1>4 DEF TakenSnap, TakenFirst
  <1>6. CASE ledger = {} /\ checkpoint = 0
    <2>1. Tip = 0 /\ Tip' = nextSeq /\ skipped = {} /\ skipped' = skipped /\ Accounted' = {nextSeq}
      BY <1>2, <1>3, <1>4, <1>6 DEF Tip, TipInv, Accounted
    <2>2. Lowest' = nextSeq
      BY <1>3, <2>1, LowestNext
    <2>3. Order!OrderNext
      BY <1>4, <1>5, <2>1, <2>2, LiveTakes
    <2>4. snapshotOn = "empty" => snapSeq # 0
      <3>1. snapshotOn = "off" \/ snapStatus = "done"
        BY <1>2 DEF DrainCommit, LiveInv, SnapshotInv
      <3> QED
        BY <1>2, <3>1 DEF OrderInv
    <2>5. OrderInv'
      BY <1>1, <1>2, <1>3, <1>4, <2>1, <2>2, <2>4 DEF OrderInv
    <2> QED
      BY <2>3, <2>5 DEF OrderStep
  <1>7. CASE checkpoint # 0 /\ nextSeq = checkpoint
    <2>1. ledger' = ledger /\ skipped' = skipped /\ checkpoint' = checkpoint
      BY <1>2, <1>3, <1>7 DEF TipInv, Tip
    <2> QED
      BY <1>1, <1>2, <2>1, Untouched
  <1>8. CASE checkpoint # 0 /\ nextSeq = checkpoint + 1
    <2>1. Tip = checkpoint /\ Tip' = nextSeq /\ checkpoint \in ledger
      <3>1. checkpoint' = nextSeq /\ nextSeq # 0
        BY <1>3, <1>4, <1>8
      <3>2. Tip = checkpoint /\ Tip' = nextSeq
        BY <1>8, <3>1 DEF Tip
      <3>3. ledger # {}
        BY <1>2, <1>8 DEF TipInv
      <3> QED
        BY <1>2, <3>2, <3>3 DEF TipInv
    <2>2. skipped' = skipped /\ Accounted' = Accounted \cup {nextSeq}
      <3>1. \A t \in skipped : t \in Nat /\ t < checkpoint
        BY <1>2, <2>1 DEF TipInv, TypeOK
      <3>2. nextSeq \notin skipped
        BY <1>3, <1>8, <3>1
      <3> QED
        BY <1>3, <3>2 DEF Accounted
    <2>3. Lowest \in Accounted /\ (\A t \in Accounted : Lowest <= t) /\ Lowest \in Nat
      BY <1>2, <2>1 DEF OrderInv, Accounted, TypeOK
    <2>4. Lowest \in Accounted' /\ \A t \in Accounted' : Lowest <= t
      <3>1. Lowest <= checkpoint
        BY <2>1, <2>3 DEF Accounted
      <3> QED
        BY <1>3, <1>8, <2>2, <2>3, <3>1
    <2>5. Lowest' = Lowest
      BY <2>4, LowestNext
    <2>6. Order!OrderNext
      BY <1>5, <1>8, <2>1, <2>2, <2>5, LiveTakes
    <2>7. snapshotOn = "empty" => snapSeq # 0
      BY <1>2, <2>1 DEF OrderInv
    <2>8. OrderInv'
      BY <1>1, <1>2, <1>3, <1>4, <2>2, <2>4, <2>5, <2>7 DEF OrderInv
    <2> QED
      BY <2>6, <2>8 DEF OrderStep
  <1> QED
    BY <1>2, <1>6, <1>7, <1>8, CommitCases

\* An attempt of the backfill at the next ledger of its chunk: it is written, or given up.
LEMMA AttemptOrder ==
  ASSUME WholeInv, TypeOK', bfPc = "ledger", NEW s \in todo, IsNext(s),
         UNCHANGED <<checkpoint, snapSeq, snapStatus, snapshotOn>>,
         \/ ledger' = ledger \cup {s} /\ skipped' = skipped \ {s}
         \/ ledger' = ledger /\ s \notin ledger /\ skipped' = skipped \cup {s}
  PROVE  OrderStep
  <1>1. TypeOK /\ TipInv /\ OrderInv /\ DataInv /\ Tip \in Nat
    BY TipIsNat DEF WholeInv, IndInv, DataInv
  <1>2. s # 0 /\ s < Tip /\ s \in Nat /\ s # snapSeq
    BY <1>1, InHandBelowTip DEF WholeInv, ReplayInv, SnapshotNotReplayed, TypeOK
  <1>3. ledger # {} /\ Tip' = Tip
    <2>1. ledger # {}
      BY <1>1, <1>2 DEF TipInv, Tip
    <2> QED
      BY <2>1 DEF Tip
  <1>4. TakenSnap' = TakenSnap /\ (TakenFirst' <=> TakenFirst)
    BY <1>2 DEF TakenSnap, TakenFirst
  <1>5. Lowest \in Accounted /\ (\A t \in Accounted : Lowest <= t) /\ Lowest \in Nat
    BY <1>1, <1>3 DEF OrderInv, Accounted, TypeOK
  <1>6. Accounted' = Accounted \cup {s}
    BY DEF Accounted
  <1>7. ledger \cap skipped = {}
    BY <1>1 DEF TipInv
  <1>8. ASSUME Lowest' \in Accounted', \A t \in Accounted' : Lowest' <= t
        PROVE  OrderInv'
    BY <1>1, <1>2, <1>3, <1>6, <1>8 DEF OrderInv
  <1>9. CASE s \in Accounted
    <2>1. Accounted' = Accounted
      BY <1>6, <1>9
    <2>2. Lowest' = Lowest
      BY <2>1 DEF Lowest
    <2>3. OrderInv'
      BY <1>5, <1>8, <2>1, <2>2
    <2>4. CASE s \in ledger
      <3>1. ledger' = ledger /\ skipped' = skipped
        BY <1>7, <2>4
      <3> QED
        BY <1>1, <3>1, Untouched
    <2>5. CASE s \in skipped /\ ledger' = ledger /\ skipped' = skipped \cup {s}
      BY <1>1, <2>5, Untouched
    <2>6. CASE s \in skipped /\ skipped' = skipped \ {s}
      <3>1. Lowest' = IF s < Lowest THEN s ELSE Lowest
        BY <1>2, <1>5, <1>9, <2>2
      <3>2. Order!OrderNext
        BY <1>2, <1>3, <1>4, <2>6, <3>1, BackfillTakes
      <3> QED
        BY <2>3, <3>2 DEF OrderStep
    <2> QED
      BY <1>9, <2>4, <2>5, <2>6 DEF Accounted
  <1>10. CASE s \notin Accounted
    <2>1. s = Lowest - 1
      <3>1. PICK low \in ledger \cup skipped : Index!IsLowest(low) /\ low - 1 = s
        BY <1>1, <1>10, NextIsBelow
      <3>2. low \in Accounted /\ \A t \in Accounted : low <= t
        BY <3>1 DEF Index!IsLowest, Accounted
      <3>3. Lowest = low
        BY <1>1, <3>2, LowestNow
      <3> QED
        BY <3>1, <3>3
    <2>2. s \in Accounted' /\ \A t \in Accounted' : s <= t
      <3>1. \A t \in Accounted : t \in Nat
        BY <1>1 DEF Accounted, TypeOK
      <3> QED
        BY <1>2, <1>5, <1>6, <2>1, <3>1
    <2>3. Lowest' = s
      BY <2>2, LowestNext
    <2>4. OrderInv'
      BY <1>8, <2>2, <2>3
    <2>5. CASE ledger' = ledger \cup {s} /\ skipped' = skipped \ {s}
      <3>1. Lowest' = IF s < Lowest THEN s ELSE Lowest
        BY <1>2, <1>5, <2>1, <2>3
      <3>2. s \in skipped \cup {Lowest - 1}
        BY <2>1
      <3>3. s > 0
        BY <1>2
      <3>4. Order!OrderNext
        BY <1>3, <1>4, <2>5, <3>1, <3>2, <3>3, BackfillTakes
      <3> QED
        BY <2>4, <3>4 DEF OrderStep
    <2>6. CASE ledger' = ledger /\ skipped' = skipped \cup {s}
      <3>1. s > 0 /\ skipped' = skipped \cup {s} /\ Tip' = Tip
        BY <1>2, <1>3, <2>6
      <3>2. Order!OrderNext
        BY <1>4, <2>1, <2>3, <3>1, BackfillGivesUp
      <3> QED
        BY <2>4, <3>2 DEF OrderStep
    <2> QED
      BY <2>5, <2>6
  <1> QED
    BY <1>9, <1>10

LEMMA FailOrder ==
  ASSUME WholeInv, TypeOK', NEW s \in todo, NEW committed \in BOOLEAN, BfLedgerFails(s, committed)
  PROVE  OrderStep
  <1>1. UNCHANGED <<checkpoint, snapSeq, snapStatus, snapshotOn>> /\ bfPc = "ledger" /\ IsNext(s)
    BY DEF BfLedgerFails, env
  <1>2. ledger' \in {ledger, ledger \cup {s}}
    BY DEF BfLedgerFails
  <1>3. CASE s \in ledger'
    <2>1. ledger' = ledger \cup {s} /\ skipped' = skipped \ {s}
      BY <1>2, <1>3 DEF BfLedgerFails
    <2> QED
      BY <1>1, <2>1, AttemptOrder
  <1>4. CASE s \notin ledger'
    <2>1. ledger' = ledger /\ s \notin ledger /\ (skipped' = skipped \/ skipped' = skipped \cup {s})
      BY <1>2, <1>4 DEF BfLedgerFails
    <2>2. CASE skipped' = skipped
      BY <1>1, <2>1, <2>2, Untouched DEF WholeInv
    <2>3. CASE skipped' = skipped \cup {s}
      BY <1>1, <2>1, <2>3, AttemptOrder
    <2> QED
      BY <2>1, <2>2, <2>3
  <1> QED
    BY <1>3, <1>4

LEMMA MarkOrder == ASSUME WholeInv, SnapshotMarkDone PROVE OrderStep
  <1>1. UNCHANGED <<ledger, skipped, checkpoint, snapSeq, snapshotOn>>
    BY DEF SnapshotMarkDone, env
  <1>2. snapSeq # 0
    BY DEF SnapshotMarkDone, WholeInv, IndInv, SnapshotInv
  <1>3. Same /\ OrderInv'
    BY <1>1, <1>2 DEF Same, WholeInv, OrderInv, Accounted, Lowest, Tip, TakenSnap, TakenFirst
  <1> QED
    BY <1>3, SameStep DEF OrderStep

\* Every step of the pipeline is one that LedgerOrder allows, or none.
LEMMA NextOrder == WholeInv /\ TypeOK' /\ [Next]_vars => OrderStep
  <1> SUFFICES ASSUME WholeInv, TypeOK', [Next]_vars PROVE OrderStep
    OBVIOUS
  <1> USE DEF env, dbVars, liveVars, drainVars, bfVars
  <1>0. OrderInv
    BY DEF WholeInv
  <1>1. CASE LiveBoot
    BY <1>1, BootStep
  <1>2. CASE SnapshotChoose
    BY <1>2, ChooseOrder
  <1>3. CASE SnapshotInsertRow
    BY <1>3, InsertOrder
  <1>4. CASE SnapshotSeedCheckpoint
    BY <1>4, SeedOrder
  <1>5. CASE DrainCommit
    BY <1>5, CommitOrder
  <1>6. ASSUME NEW s \in todo, BfLedgerOk(s) PROVE OrderStep
    BY <1>6, AttemptOrder DEF BfLedgerOk
  <1>7. ASSUME NEW s \in todo, NEW committed \in BOOLEAN, BfLedgerFails(s, committed) PROVE OrderStep
    BY <1>7, FailOrder
  <1>8. CASE LedgerCloses
    BY <1>0, <1>8, Untouched DEF LedgerCloses
  <1>9. CASE SnapshotMarkDone
    BY <1>9, MarkOrder
  <1>10. CASE SnapshotWalked \/ LiveResolve \/ LiveKick
    BY <1>0, <1>10, Untouched DEF SnapshotWalked, LiveResolve, LiveKick
  <1>11. ASSUME NEW t \in 1..head, LiveNotify(t) PROVE OrderStep
    BY <1>0, <1>11, Untouched DEF LiveNotify
  <1>12. CASE DrainExit \/ DrainFetch \/ DrainAck \/ DrainFail
    BY <1>0, <1>12, Untouched DEF DrainExit, DrainFetch, DrainAck, DrainFail
  <1>13. CASE LiveStop \/ LiveExit \/ LiveCrash
    BY <1>0, <1>13, Untouched DEF LiveStop, LiveExit, LiveCrash, LiveGone
  <1>14. CASE BfStart \/ BfClaimOpen \/ BfOpenGap \/ BfChunk
    BY <1>0, <1>14, Untouched DEF BfStart, BfClaimOpen, BfOpenGap, BfChunk
  <1>15. CASE BfAdvance \/ BfFinish \/ BfQueryFails \/ BfCrash
             \/ \E s \in todo : BfPrefetchFails(s)
    BY <1>0, <1>15, Untouched DEF BfAdvance, BfFinish, BfQueryFails, BfCrash,
             BfPrefetchFails, BfGone
  <1>16. CASE UNCHANGED vars
    BY <1>0, <1>16, Untouched DEF vars
  <1> QED
    BY <1>1, <1>2, <1>3, <1>4, <1>5, <1>6, <1>7, <1>8, <1>9, <1>10, <1>11, <1>12, <1>13,
       <1>14, <1>15, <1>16 DEF Next, LiveNext, BfNext

\* Live sync, backfill and snapshot take ledgers in the order LedgerOrder allows,
\* whatever crashes, restarts, lost answers and failures interrupt them (main.ts,
\* sync.ts, backfill.ts, snapshot.ts).
THEOREM OrderRefinement == Spec => ImplementsOrder
  <1>1. Init => ReplayInv /\ OrderInv
    BY DEF Init, ReplayInv, SnapshotNotReplayed, Running, OrderInv, Accounted
  <1>2. Init => Order!OrderInit
    BY DEF Init, Order!OrderInit, Lowest, Tip, Accounted
  <1>3. IndInv => TypeOK
    BY DEF IndInv
  <1>4. WholeInv /\ [Next]_vars => WholeInv' /\ [Order!OrderNext]_(Order!orderVars)
    <2> SUFFICES ASSUME WholeInv, [Next]_vars PROVE WholeInv' /\ [Order!OrderNext]_(Order!orderVars)
      OBVIOUS
    <2>1. IndInv'
      BY InvStep DEF WholeInv
    <2>2. ReplayInv'
      BY ReplayStep DEF WholeInv
    <2>3. TypeOK'
      BY <2>1 DEF IndInv
    <2>4. OrderStep
      BY <2>3, NextOrder
    <2> QED
      BY <2>1, <2>2, <2>4 DEF WholeInv, OrderStep
  <1>5. Init => WholeInv
    BY <1>1, InvInit DEF WholeInv
  <1> QED
    BY <1>2, <1>4, <1>5, PTL DEF Spec, ImplementsOrder, Order!OrderSpec
================================================================================
