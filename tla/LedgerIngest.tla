---------------------------- MODULE LedgerIngest ----------------------------
(***************************************************************************)
(* The ledger pipeline of apps/indexer.  Two operating-system processes    *)
(* share one Postgres database:                                            *)
(*                                                                         *)
(*   live      main.ts in "live" mode: an optional state snapshot, then    *)
(*             the syncer of sync.ts, which drains validated ledgers in    *)
(*             ascending order and moves indexer_checkpoint;               *)
(*   backfill  main.ts in "backfill" mode: backfill.ts, which claims a     *)
(*             ledger_gap row and walks it downward.                       *)
(*                                                                         *)
(* Both run processLedger (process/ledger.ts), whose database effect is    *)
(* one transaction.  What a ledger writes besides its own row is the       *)
(* subject of other modules; here a processed ledger is its row.           *)
(* A database transaction is one action; its commit and the caller's       *)
(* learning of it are two.                                                 *)
(***************************************************************************)
EXTENDS Integers, Sequences, FiniteSets

CONSTANTS
  FirstHead,       \* newest validated ledger when the system is deployed
  MaxHead,         \* bound: the network stops closing ledgers here
  Window,          \* how many ledgers the sync node retains
  StartLedger,     \* INDEXER_START_LEDGER; 0 stands for "current"
  Floors,          \* values of INDEXER_BACKFILL_FLOOR across restarts
  Concurrency,     \* INDEXER_BACKFILL_CONCURRENCY: fetches ahead of the ledger in hand
  Chunk,           \* 4 * Concurrency in the code; a small one has more chunks
  MaxFaults        \* bound on crashes, restarts and failed backfill queries

ASSUME HeadAssumption ==
  /\ FirstHead \in Nat \ {0}
  /\ MaxHead \in Nat
  /\ FirstHead <= MaxHead
ASSUME ConfigAssumption ==
  /\ Window \in Nat
  /\ StartLedger \in Nat
  /\ Floors \subseteq Nat \ {0}
  /\ Concurrency \in Nat \ {0}
  /\ Chunk \in Nat \ {0}
ASSUME FaultAssumption == MaxFaults \in Nat

VARIABLES
  head,        \* newest validated ledger of the network
  snapshotOn,  \* INDEXER_SNAPSHOT_ON_START: "off", or set when the index was
               \* "empty" or "filled"
  (* the database *)
  ledger,      \* sequences that have a row in table ledger
  checkpoint,  \* indexer_checkpoint.last_ledger_seq; 0: no row
  gaps,        \* table ledger_gap; the id of a row is its position
  snapStatus,  \* snapshot_state.status
  snapSeq,     \* snapshot_state.snapshot_ledger; 0: null
  (* the live process *)
  livePc,      \* where main() and start() are; "stop" is the stopped flag
  nextSeq,     \* the syncer's nextSeq
  target,      \* argument of the running drainUpTo
  drain,       \* "idle" iff the draining flag is false, else the loop's step
  failures,    \* consecutive failures of drainUpTo, 2 standing for 2 or more
  (* the backfill process *)
  bfPc,        \* where runBackfill and runGap are
  floor,       \* its INDEXER_BACKFILL_FLOOR
  gapId,       \* id of the claimed ledger_gap row
  cursor,      \* runGap's cursor
  lo,          \* low end of the current chunk
  todo,        \* ledgers of the current chunk still to process
  attempt,     \* which of its two attempts the ledger in hand is in
  (* auxiliary *)
  skipped,     \* ledgers given up after two failures that have no row
  faults       \* crashes, restarts and failed backfill queries so far

env      == <<head, snapshotOn>>
dbVars   == <<ledger, checkpoint, gaps, snapStatus, snapSeq>>
drainVars == <<nextSeq, target, drain, failures>>
liveVars == <<livePc, drainVars>>
bfVars   == <<bfPc, floor, gapId, cursor, lo, todo, attempt>>
vars     == <<env, dbVars, liveVars, bfVars, skipped, faults>>

Gap == [start : Nat, end : Nat, state : {"running", "done"}]

\* Stages of main() in live mode.  "row", "seed" and "mark" are the last three
\* statements of runSnapshot; "kick" is start() between subscribing and the
\* answer to its own query for the validated ledger.
LiveStages == {"down", "boot", "walk", "row", "seed", "mark", "resolve", "kick", "run", "stop"}
BfStages   == {"down", "claim", "chunk", "ledger"}

TypeOK ==
  /\ head \in FirstHead..MaxHead
  /\ snapshotOn \in {"off", "empty", "filled"}
  /\ ledger \subseteq Nat
  /\ checkpoint \in Nat
  /\ gaps \in Seq(Gap)
  /\ snapStatus \in {"none", "running", "done"}
  /\ snapSeq \in Nat
  /\ livePc \in LiveStages
  /\ nextSeq \in Nat
  /\ target \in Nat
  /\ drain \in {"idle", "fetch", "commit", "ack"}
  /\ failures \in 0..2
  /\ bfPc \in BfStages
  /\ floor \in Nat
  /\ gapId \in Nat
  /\ cursor \in Nat
  /\ lo \in Nat
  /\ todo \subseteq Nat
  /\ attempt \in 1..2
  /\ skipped \subseteq Nat
  /\ faults \in Nat

Init ==
  /\ head = FirstHead
  /\ snapshotOn = "off"
  /\ ledger = {}
  /\ checkpoint = 0
  /\ gaps = <<>>
  /\ snapStatus = "none"
  /\ snapSeq = 0
  /\ livePc = "down"
  /\ nextSeq = 0
  /\ target = 0
  /\ drain = "idle"
  /\ failures = 0
  /\ bfPc = "down"
  /\ floor = 0
  /\ gapId = 0
  /\ cursor = 0
  /\ lo = 0
  /\ todo = {}
  /\ attempt = 1
  /\ skipped = {}
  /\ faults = 0

\* The stream handler is registered.
Running == livePc \in {"kick", "run", "stop"}

-----------------------------------------------------------------------------
(* The network. *)

LedgerCloses ==
  /\ head < MaxHead
  /\ head' = head + 1
  /\ UNCHANGED <<snapshotOn, dbVars, liveVars, bfVars, skipped, faults>>

-----------------------------------------------------------------------------
(* The live process: boot and snapshot. *)

\* main(): a snapshot that never completed runs before live sync.  The setting
\* may be turned on at any start; it is not turned off again.
LiveBoot ==
  /\ livePc = "down"
  /\ IF snapshotOn = "off"
       THEN snapshotOn' \in {"off", IF ledger = {} THEN "empty" ELSE "filled"}
       ELSE UNCHANGED snapshotOn
  /\ livePc' = IF snapshotOn' # "off" /\ snapStatus # "done" THEN "boot" ELSE "resolve"
  /\ UNCHANGED <<head, dbVars, drainVars, bfVars, skipped, faults>>

\* runSnapshot fixes its ledger: the stored one, else the checkpoint, else the
\* validated ledger; and stores it before it walks.
SnapshotLedger ==
  IF snapSeq # 0 THEN snapSeq ELSE IF checkpoint # 0 THEN checkpoint ELSE head

SnapshotChoose ==
  /\ livePc = "boot"
  /\ snapSeq' = SnapshotLedger
  /\ snapStatus' = "running"
  /\ livePc' = "walk"
  /\ UNCHANGED <<env, ledger, checkpoint, gaps, drainVars, bfVars, skipped, faults>>

\* Both walks and the metric recompute are over.
SnapshotWalked ==
  /\ livePc = "walk"
  /\ livePc' = "row"
  /\ UNCHANGED <<env, dbVars, drainVars, bfVars, skipped, faults>>

SnapshotInsertRow ==
  /\ livePc = "row"
  /\ ledger' = ledger \cup {snapSeq}
  /\ livePc' = "seed"
  /\ UNCHANGED <<env, checkpoint, gaps, snapStatus, snapSeq, drainVars,
                 bfVars, skipped, faults>>

SnapshotSeedCheckpoint ==
  /\ livePc = "seed"
  /\ checkpoint' = IF checkpoint = 0 THEN snapSeq ELSE checkpoint
  /\ livePc' = "mark"
  /\ UNCHANGED <<env, ledger, gaps, snapStatus, snapSeq, drainVars,
                 bfVars, skipped, faults>>

SnapshotMarkDone ==
  /\ livePc = "mark"
  /\ snapStatus' = "done"
  /\ livePc' = "resolve"
  /\ UNCHANGED <<env, ledger, checkpoint, gaps, snapSeq, drainVars,
                 bfVars, skipped, faults>>

-----------------------------------------------------------------------------
(* The live process: the syncer. *)

\* Mutant: the last ledger is done again.
ResolveStartOverlap ==
  IF checkpoint # 0 THEN checkpoint - 1 ELSE IF StartLedger # 0 THEN StartLedger ELSE head

ResolveStart ==
  IF checkpoint # 0 THEN checkpoint + 1
  ELSE IF StartLedger # 0 THEN StartLedger ELSE head

\* start(): resolve the first ledger, then register the stream handler.
LiveResolve ==
  /\ livePc = "resolve"
  /\ nextSeq' = ResolveStart
  /\ livePc' = "kick"
  /\ UNCHANGED <<env, dbVars, target, drain, failures, bfVars, skipped, faults>>

\* drainUpTo(t) as its callers see it: a call made while another one drains
\* returns at once, and its target is lost.
DrainUpTo(t) ==
  IF drain = "idle"
    THEN drain' = "fetch" /\ target' = t /\ failures' = 0
    ELSE UNCHANGED <<drain, target, failures>>

\* A ledger-stream event.  Events may be late or repeated (the stream is
\* re-subscribed on every reconnect), so any validated ledger may be announced.
LiveNotify(t) ==
  /\ Running
  /\ DrainUpTo(t)
  /\ UNCHANGED <<env, dbVars, livePc, nextSeq, bfVars, skipped, faults>>

\* start() drains once by itself in case the stream is quiet.
LiveKick ==
  /\ livePc = "kick"
  /\ DrainUpTo(head)
  /\ livePc' = "run"
  /\ UNCHANGED <<env, dbVars, nextSeq, bfVars, skipped, faults>>

DrainGoesOn == livePc # "stop" /\ nextSeq <= target

DrainExit ==
  /\ drain = "fetch"
  /\ ~DrainGoesOn
  /\ drain' = "idle"
  /\ UNCHANGED <<env, dbVars, livePc, nextSeq, target, failures,
                 bfVars, skipped, faults>>

\* Mutant: no full-history fallback.
ServedByWindowOnly(s) == s > head - Window

\* The sync node serves its retained window; after two failures the request
\* goes to the full-history endpoints.
Served(s) == failures >= 2 \/ s > head - Window

DrainFetch ==
  /\ drain = "fetch"
  /\ DrainGoesOn
  /\ Served(nextSeq)
  /\ drain' = "commit"
  /\ UNCHANGED <<env, dbVars, livePc, nextSeq, target, failures,
                 bfVars, skipped, faults>>

\* Mutant: the checkpoint is not part of the transaction.
DrainCommitRowOnly ==
  /\ drain = "commit"
  /\ ledger' = ledger \cup {nextSeq}
  /\ skipped' = skipped \ {nextSeq}
  /\ drain' = "ack"
  /\ UNCHANGED <<env, checkpoint, gaps, snapStatus, snapSeq, livePc, nextSeq, target,
                 failures, bfVars, faults>>

\* The transaction of processLedger in live mode.
DrainCommit ==
  /\ drain = "commit"
  /\ ledger' = ledger \cup {nextSeq}
  /\ checkpoint' = IF nextSeq > checkpoint THEN nextSeq ELSE checkpoint
  /\ skipped' = skipped \ {nextSeq}
  /\ drain' = "ack"
  /\ UNCHANGED <<env, gaps, snapStatus, snapSeq, livePc, nextSeq, target,
                 failures, bfVars, faults>>

DrainAck ==
  /\ drain = "ack"
  /\ nextSeq' = nextSeq + 1
  /\ failures' = 0
  /\ drain' = "fetch"
  /\ UNCHANGED <<env, dbVars, livePc, target, bfVars, skipped, faults>>

\* The loop's catch: the fetch failed, the transaction was rolled back (four
\* times over, if it was a serialization failure), or it committed and the
\* answer was lost.
DrainFail ==
  /\ drain \in {"fetch", "commit", "ack"}
  /\ drain = "fetch" => DrainGoesOn
  /\ failures' = IF failures < 2 THEN failures + 1 ELSE 2
  /\ drain' = "fetch"
  /\ UNCHANGED <<env, dbVars, livePc, nextSeq, target, bfVars, skipped, faults>>

\* SIGTERM, once main() has installed its handler; a signal before that kills.
LiveStop ==
  /\ livePc = "run"
  /\ faults < MaxFaults
  /\ livePc' = "stop"
  /\ faults' = faults + 1
  /\ UNCHANGED <<env, dbVars, drainVars, bfVars, skipped>>

LiveGone ==
  /\ livePc' = "down"
  /\ nextSeq' = 0
  /\ target' = 0
  /\ drain' = "idle"
  /\ failures' = 0

LiveExit ==
  /\ livePc = "stop"
  /\ LiveGone
  /\ UNCHANGED <<env, dbVars, bfVars, skipped, faults>>

\* A crash, or an error that main() reports before it exits.
LiveCrash ==
  /\ livePc # "down"
  /\ faults < MaxFaults
  /\ LiveGone
  /\ faults' = faults + 1
  /\ UNCHANGED <<env, dbVars, bfVars, skipped>>

-----------------------------------------------------------------------------
(* The backfill process. *)

BfStart ==
  /\ bfPc = "down"
  /\ floor' \in Floors
  /\ bfPc' = "claim"
  /\ UNCHANGED <<env, dbVars, liveVars, gapId, cursor, lo, todo, attempt, skipped, faults>>

OpenGaps == {i \in DOMAIN gaps : gaps[i].state # "done"}

StartGap(i, end) ==
  /\ gapId' = i
  /\ cursor' = end
  /\ bfPc' = "chunk"

\* claimOrCreateGap resumes the open range with the highest range_end ...
BfClaimOpen ==
  /\ bfPc = "claim"
  /\ \E i \in OpenGaps :
       /\ \A j \in OpenGaps : gaps[j].end <= gaps[i].end
       /\ gaps' = [gaps EXCEPT ![i].state = "running"]
       /\ StartGap(i, gaps[i].end)
  /\ UNCHANGED <<env, ledger, checkpoint, snapStatus, snapSeq, liveVars, floor, lo,
                 todo, attempt, skipped, faults>>

\* Mutants: one ledger too low or too high; an open range does not keep a new
\* one from being opened.
OpenGapEndingAt(frontier, end) ==
  /\ frontier \in ledger
  /\ \A s \in ledger : frontier <= s
  /\ end >= floor
  /\ gaps' = Append(gaps, [start |-> floor, end |-> end, state |-> "running"])
  /\ StartGap(Len(gaps) + 1, end)
  /\ UNCHANGED <<env, ledger, checkpoint, snapStatus, snapSeq, liveVars, floor, lo,
                 todo, attempt, skipped, faults>>
OpenGapTooLow ==
  /\ bfPc = "claim" /\ OpenGaps = {}
  /\ \A i \in DOMAIN gaps : gaps[i].start > floor
  /\ \E f \in ledger : OpenGapEndingAt(f, f - 2)
OpenGapTooHigh ==
  /\ bfPc = "claim" /\ OpenGaps = {}
  /\ \A i \in DOMAIN gaps : gaps[i].start > floor
  /\ \E f \in ledger : OpenGapEndingAt(f, f)

\* ... or opens one below the lowest indexed ledger, unless some range was
\* already opened down to this floor.
BfOpenGap ==
  /\ bfPc = "claim"
  /\ OpenGaps = {}
  /\ \A i \in DOMAIN gaps : gaps[i].start > floor
  /\ \E frontier \in ledger :
       /\ \A s \in ledger : frontier <= s
       /\ frontier - 1 >= floor
       /\ gaps' = Append(gaps, [start |-> floor, end |-> frontier - 1, state |-> "running"])
       /\ StartGap(Len(gaps) + 1, frontier - 1)
  /\ UNCHANGED <<env, ledger, checkpoint, snapStatus, snapSeq, liveVars, floor, lo,
                 todo, attempt, skipped, faults>>

ChunkLow(start) == IF cursor - Chunk + 1 > start THEN cursor - Chunk + 1 ELSE start

\* One turn of runGap's loop: read which ledgers of the chunk are present.
BfChunk ==
  /\ bfPc = "chunk"
  /\ cursor >= gaps[gapId].start
  /\ lo' = ChunkLow(gaps[gapId].start)
  /\ todo' = (lo'..cursor) \ ledger
  /\ attempt' = 1
  /\ bfPc' = "ledger"
  /\ UNCHANGED <<env, dbVars, liveVars, floor, gapId, cursor, skipped, faults>>

\* Mutant: the chunk is processed in ascending order.
IsLowestLeft(s) == s \in todo /\ \A t \in todo : t >= s

\* processDescending: the next ledger is the highest one left.
IsNext(s) == s \in todo /\ \A t \in todo : t <= s

BfLedgerOk(s) ==
  /\ bfPc = "ledger"
  /\ IsNext(s)
  /\ ledger' = ledger \cup {s}
  /\ skipped' = skipped \ {s}
  /\ todo' = todo \ {s}
  /\ attempt' = 1
  /\ UNCHANGED <<env, checkpoint, gaps, snapStatus, snapSeq, liveVars, bfPc, floor,
                 gapId, cursor, lo, faults>>

\* Mutant: a failing ledger is retried for ever.
BfLedgerRetries(s, committed) ==
  /\ bfPc = "ledger"
  /\ IsNext(s)
  /\ ledger' = IF committed THEN ledger \cup {s} ELSE ledger
  /\ skipped' = IF s \in ledger' THEN skipped \ {s} ELSE skipped
  /\ attempt' = 3 - attempt
  /\ UNCHANGED <<env, checkpoint, gaps, snapStatus, snapSeq, liveVars, bfPc, floor,
                 gapId, cursor, lo, todo, faults>>

\* It failed: retried once, then skipped.  committed: the failure is a lost
\* answer to a transaction that did commit.
BfLedgerFails(s, committed) ==
  /\ bfPc = "ledger"
  /\ IsNext(s)
  /\ ledger' = IF committed THEN ledger \cup {s} ELSE ledger
  /\ attempt' = 3 - attempt
  /\ todo' = IF attempt = 2 THEN todo \ {s} ELSE todo
  /\ skipped' = IF s \in ledger' THEN skipped \ {s}
                ELSE IF attempt = 2 THEN skipped \cup {s} ELSE skipped
  /\ UNCHANGED <<env, checkpoint, gaps, snapStatus, snapSeq, liveVars, bfPc, floor,
                 gapId, cursor, lo, faults>>

\* Mutant: range_end is moved before the chunk's ledgers are written.
BfAdvanceEarly ==
  /\ bfPc = "ledger"
  /\ cursor' = lo - 1
  /\ gaps' = [gaps EXCEPT ![gapId].end = lo - 1]
  /\ bfPc' = "chunk"
  /\ UNCHANGED <<env, ledger, checkpoint, snapStatus, snapSeq, liveVars, floor, gapId,
                 lo, todo, attempt, skipped, faults>>

\* The chunk is over: walk range_end below it.
BfAdvance ==
  /\ bfPc = "ledger"
  /\ todo = {}
  /\ cursor' = lo - 1
  /\ gaps' = [gaps EXCEPT ![gapId].end =
                IF lo - 1 > gaps[gapId].start - 1 THEN lo - 1 ELSE gaps[gapId].start - 1]
  /\ bfPc' = "chunk"
  /\ UNCHANGED <<env, ledger, checkpoint, snapStatus, snapSeq, liveVars, floor, gapId,
                 lo, todo, attempt, skipped, faults>>

BfFinish ==
  /\ bfPc = "chunk"
  /\ cursor < gaps[gapId].start
  /\ gaps' = [gaps EXCEPT ![gapId].state = "done", ![gapId].end = gaps[gapId].start - 1]
  /\ bfPc' = "claim"
  /\ UNCHANGED <<env, ledger, checkpoint, snapStatus, snapSeq, liveVars, floor, gapId,
                 cursor, lo, todo, attempt, skipped, faults>>

\* A query of runGap itself fails: runBackfill backs off and claims again.
BfQueryFails ==
  /\ bfPc = "chunk" \/ (bfPc = "ledger" /\ todo = {})
  /\ faults < MaxFaults
  /\ bfPc' = "claim"
  /\ faults' = faults + 1
  /\ UNCHANGED <<env, dbVars, liveVars, floor, gapId, cursor, lo, todo, attempt, skipped>>

BfGone ==
  /\ bfPc' = "down"
  /\ floor' = 0
  /\ gapId' = 0
  /\ cursor' = 0
  /\ lo' = 0
  /\ todo' = {}
  /\ attempt' = 1

BfCrash ==
  /\ bfPc # "down"
  /\ faults < MaxFaults
  /\ BfGone
  /\ faults' = faults + 1
  /\ UNCHANGED <<env, dbVars, liveVars, skipped>>

\* The ledgers kick() is fetching while another one is in hand: the next ones
\* down.
Prefetched ==
  {s \in todo : Cardinality({t \in todo : t > s}) \in 1..Concurrency}

\* One of them cannot be fetched, and nobody awaits it yet: the rejection is
\* unhandled, which ends the process.  Nothing says that the ledger failed, so
\* the next process asks for it again; this may happen any number of times.
BfPrefetchFails(s) ==
  /\ bfPc = "ledger"
  /\ s \in Prefetched
  /\ BfGone
  /\ UNCHANGED <<env, dbVars, liveVars, skipped, faults>>

-----------------------------------------------------------------------------
LiveNext ==
  \/ LiveBoot \/ SnapshotChoose \/ SnapshotWalked \/ SnapshotInsertRow
  \/ SnapshotSeedCheckpoint \/ SnapshotMarkDone
  \/ LiveResolve \/ LiveKick
  \/ \E t \in 1..head : LiveNotify(t)
  \/ DrainExit \/ DrainFetch \/ DrainCommit \/ DrainAck \/ DrainFail
  \/ LiveStop \/ LiveExit \/ LiveCrash

BfNext ==
  \/ BfStart \/ BfClaimOpen \/ BfOpenGap \/ BfChunk
  \/ \E s \in todo : BfLedgerOk(s)
  \/ \E s \in todo, committed \in BOOLEAN : BfLedgerFails(s, committed)
  \/ \E s \in todo : BfPrefetchFails(s)
  \/ BfAdvance \/ BfFinish \/ BfQueryFails \/ BfCrash

Next == LedgerCloses \/ LiveNext \/ BfNext

Spec == Init /\ [][Next]_vars

\* PM2 restarts both processes and the loops keep turning.  A fetch, a commit
\* and its answer do not fail for ever, and the ledger stream never falls
\* silent for good while the syncer is idle.
Fairness ==
  /\ WF_vars(LedgerCloses)
  /\ WF_vars(LiveBoot) /\ WF_vars(SnapshotChoose) /\ WF_vars(SnapshotWalked)
  /\ WF_vars(SnapshotInsertRow) /\ WF_vars(SnapshotSeedCheckpoint)
  /\ WF_vars(SnapshotMarkDone) /\ WF_vars(LiveResolve) /\ WF_vars(LiveKick)
  /\ WF_vars(LiveExit)
  /\ WF_vars(DrainExit \/ DrainFetch \/ DrainCommit \/ DrainAck \/ DrainFail)
  /\ SF_vars(DrainFetch) /\ SF_vars(DrainCommit) /\ SF_vars(DrainAck)
  /\ SF_vars(LiveNotify(head))
  /\ WF_vars(BfStart) /\ WF_vars(BfClaimOpen) /\ WF_vars(BfOpenGap) /\ WF_vars(BfChunk)
  /\ WF_vars(BfAdvance) /\ WF_vars(BfFinish)
  /\ WF_vars(\E s \in todo : \/ BfLedgerOk(s)
                             \/ \E committed \in BOOLEAN : BfLedgerFails(s, committed))

FairSpec == Spec /\ Fairness

-----------------------------------------------------------------------------
(* What the pipeline promises. *)

\* Every ledger between the lowest indexed one and the checkpoint has its row,
\* or was given up by the backfill after two failures: neither a restart, a
\* snapshot, a lost commit answer nor the meeting of the two processes' ranges
\* leaves a hole (sync.ts resolveStart, snapshot.ts seeding, backfill.ts).
NoUnexplainedHole ==
  \A low \in ledger : low..checkpoint \subseteq ledger \cup skipped

\* The persisted cursor never claims more than what was done: everything above
\* a range's range_end, up to the checkpoint, is indexed or was given up, so
\* resuming from range_end after a crash loses nothing (backfill.ts runGap).
\* This is also what state 'done' of a range means.
CursorTruthful ==
  \A i \in DOMAIN gaps : gaps[i].end + 1..checkpoint \subseteq ledger \cup skipped

\* The two processes never hold the same ledger: what backfill has in hand or
\* may still claim lies below what live sync works on, so the two pipelines'
\* writes for one ledger cannot interleave (batch.ts, ledger.ts comments).
WritersApart ==
  /\ drain \in {"commit", "ack"} => \A s \in todo : s < nextSeq
  /\ \A i \in DOMAIN gaps : Running => gaps[i].end < nextSeq

\* The checkpoint is the highest row, and live sync is about to write the
\* ledger above it or, when the answer to a commit is outstanding or was lost,
\* that ledger once more: a restart neither skips a ledger nor falls back
\* (sync.ts resolveStart and drainUpTo against ledger.ts's checkpoint upsert).
CheckpointIsTip ==
  checkpoint # 0 =>
    /\ checkpoint \in ledger
    /\ \A s \in ledger : s <= checkpoint
    /\ Running => nextSeq \in {checkpoint, checkpoint + 1}

\* At most one range is open, so 'resume any unfinished range' is unambiguous.
OneOpenGap == \A i, j \in OpenGaps : i = j

\* The index as LedgerIndex describes it: it starts with one ledger, grows at the
\* top by exactly the next ledger and at the bottom by exactly the next one down
\* that was not given up, and loses nothing.
Index == INSTANCE LedgerIndex WITH indexed <- ledger, waived <- skipped
ImplementsIndex == Index!Spec

\* Once a snapshot has taken a ledger's state, that ledger is not processed any
\* more, neither by live sync nor by the backfill: what it changed is already in
\* the state that was walked (snapshot.ts inserts its row, sync.ts resolveStart, backfill.ts).
SnapshotNotReplayed ==
  /\ Running => nextSeq > snapSeq
  /\ \A s \in todo : s # snapSeq

\* Every ledger the network validates is passed by the checkpoint in the end:
\* no crash, pruned window, lost answer or dropped stream event stalls live sync.
LiveCatchesUp == \A s \in 1..MaxHead : head >= s ~> checkpoint >= s

\* Every range the backfill opens is finished in the end, whatever else fails,
\* provided failing prefetches stop ending the process some day.  The code does
\* not see to that: a ledger that is always refused before the one above it is
\* written ends every process at the same place, and its two attempts are never
\* made (backfill.ts processDescending).
PrefetchesSettle == <>[][\A s \in todo : ~BfPrefetchFails(s)]_vars
BackfillFinishes ==
  PrefetchesSettle =>
    \A f \in Floors :
      (\E i \in DOMAIN gaps : gaps[i].start = f)
        ~> (\E i \in DOMAIN gaps : gaps[i].start = f /\ gaps[i].state = "done")

Accounted == ledger \cup skipped

\* The highest row: the checkpoint or, before it is seeded, the snapshot's row.
Tip == IF checkpoint # 0 THEN checkpoint ELSE IF ledger # {} THEN snapSeq ELSE 0
Lowest == IF Accounted = {} THEN 0 ELSE CHOOSE s \in Accounted : \A t \in Accounted : s <= t

\* The ledgers are taken in the order LedgerOrder allows, on which the modules
\* about their content (BalanceHistory and others) rely.
Order == INSTANCE LedgerOrder WITH
  fresh <- (snapSeq \in ledger /\ snapshotOn = "empty"), low <- Lowest, tip <- Tip,
  snapSeq <- (IF snapSeq \in ledger THEN snapSeq ELSE 0), waived <- skipped
ImplementsOrder == Order!OrderSpec

-----------------------------------------------------------------------------
(* The inductive invariant behind the safety properties above. *)

\* While a snapshot is unfinished live sync does not run, so the checkpoint is
\* absent or is the snapshot's ledger.
SnapshotInv ==
  /\ snapStatus # "done" /\ snapSeq # 0 => checkpoint \in {0, snapSeq}
  /\ snapStatus = "done" => checkpoint # 0
  /\ livePc \in {"walk", "row", "seed", "mark"} => snapSeq # 0
  /\ livePc = "seed" => snapSeq \in ledger
  /\ livePc = "mark" => checkpoint # 0
  /\ livePc \in {"boot", "walk", "row", "seed", "mark"} => snapshotOn # "off" /\ snapStatus # "done"
  /\ livePc = "resolve" \/ Running => snapshotOn = "off" \/ snapStatus = "done"
  /\ snapshotOn = "off" => snapSeq = 0

TipInv ==
  /\ ledger = {} => checkpoint = 0 /\ gaps = <<>> /\ skipped = {}
  /\ ledger # {} => Tip # 0 /\ Tip \in ledger
  /\ \A s \in ledger : s <= Tip
  /\ \A s \in skipped : s < Tip
  /\ ledger \cap skipped = {}
  /\ \A low \in Accounted : low..Tip \subseteq Accounted

LiveInv ==
  /\ drain # "idle" => Running
  /\ Running => nextSeq # 0
  /\ Running /\ checkpoint # 0 => nextSeq \in {checkpoint, checkpoint + 1}
  /\ drain = "ack" => checkpoint = nextSeq

GapInv ==
  /\ \A i \in DOMAIN gaps :
       /\ 1 <= gaps[i].start
       /\ gaps[i].start <= gaps[i].end + 1
       /\ gaps[i].end < Tip
       /\ gaps[i].end + 1..Tip \subseteq Accounted
  /\ OneOpenGap

BackfillInv ==
  /\ bfPc # "down" => floor # 0
  /\ bfPc \in {"chunk", "ledger"} =>
       gapId \in OpenGaps /\ cursor = gaps[gapId].end
  /\ bfPc = "ledger" =>
       /\ gaps[gapId].start <= lo
       /\ lo <= cursor
       /\ todo \subseteq lo..cursor
       /\ lo..cursor \subseteq Accounted \cup todo
  /\ bfPc # "ledger" => todo = {}

IndInv ==
  TypeOK /\ SnapshotInv /\ TipInv /\ LiveInv /\ GapInv /\ BackfillInv
=============================================================================
