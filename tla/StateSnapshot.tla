---------------------------- MODULE StateSnapshot ----------------------------
(***************************************************************************)
(* runSnapshot: two walks over the objects of one ledger, page by page,    *)
(* with the progress kept in snapshot_state, killed and restarted anywhere.*)
(*                                                                         *)
(* An object is <<"line", i, h>>, a trust line (standing for everything    *)
(* walk 1 keeps) of holder h for issuer i's token, or <<"root", i, i>>,    *)
(* the AccountRoot of i, which walk 2 keeps if i issues a token (or is a   *)
(* pool, for which see PoolReserves).                                      *)
(***************************************************************************)
EXTENDS Integers, FiniteSets, SequencesExt

CONSTANTS
  Objects,    \* the objects of the snapshot ledger
  PageLimit,  \* objects per page of ledger_data
  FlushEvery, \* objects kept before a flush
  FlushPages, \* pages before a flush
  MayPrune,   \* TRUE: the sync node may drop the snapshot ledger
  MaxCrashes, \* bound on the kills
  Null

ASSUME SnapshotAssumption ==
  /\ Objects \subseteq {"line", "root"} \X (Nat \ {0}) \X (Nat \ {0}) /\ IsFiniteSet(Objects)
  /\ PageLimit \in Nat \ {0} /\ FlushEvery \in Nat \ {0} /\ FlushPages \in Nat \ {0}
  /\ MayPrune \in BOOLEAN /\ MaxCrashes \in Nat
  /\ Null \notin Nat \cup {"walk1", "walk2"}

VARIABLES
  keyspace,  \* the objects in the order of their keys
  stored,    \* objects whose rows or patches are in the database
  tokens,    \* issuers that have a row in the table token
  state,     \* the row of snapshot_state: [status, pass, marker, completed]
  pc,        \* the process: "down", "choose", "fetch", "flush", "mark", "complete", "finish"
  walk, at,  \* the walk, and the marker to fetch from
  batch,     \* objects dispatched since the last flush
  pages,     \* pages taken since the last flush
  ended,     \* the last page had no marker
  cached,    \* accounts in the registry's cache
  issuers,   \* issuerIds, as read when walk 2 starts
  history,   \* the full-history endpoints are others, and have the snapshot ledger
  pruned,    \* the sync node does not have it any more
  source,    \* the endpoints the process walks on: "sync" or "history"
  cut,       \* auxiliary: a walk got an empty page for its ledger was gone
  crashes

disk == <<stored, tokens, state>>
nodes == <<keyspace, history, pruned>>
vars == <<nodes, disk, pc, walk, at, batch, pages, ended, cached, issuers, source, cut, crashes>>

Walks == <<"walk1", "walk2">>
Issuer(x) == x[2]
Ends(x) == {x[2], x[3]}

\* ledger_data: the node goes through the next PageLimit keys; a filter by type leaves
\* objects out of the page, it does not make the page reach further.
Page(from) == {keyspace[k] : k \in (from..(from + PageLimit - 1)) \cap DOMAIN keyspace}

Wanted(w, x) ==
  IF w = "walk1" THEN x[1] = "line" ELSE x[1] = "root" /\ Issuer(x) \in cached \cap issuers

Init ==
  /\ keyspace \in SetToSeqs(Objects)
  /\ stored = {} /\ tokens = {}
  /\ state = [status |-> "none", pass |-> Null, marker |-> Null, completed |-> {}]
  /\ pc = "down" /\ walk = Null /\ at = 1 /\ batch = {} /\ pages = 0 /\ ended = FALSE
  /\ cached = {} /\ issuers = {} /\ crashes = 0
  /\ history \in BOOLEAN /\ pruned = FALSE /\ source = "sync" /\ cut = FALSE

\* The sync node's retained window moves past the snapshot ledger.  (A page asked
\* for before that and taken after it is as good as one taken before.)
Prune ==
  /\ MayPrune /\ ~pruned
  /\ pruned' = TRUE
  /\ UNCHANGED <<keyspace, history, disk, pc, walk, at, batch, pages, ended, cached, issuers,
                 source, cut, crashes>>

\* A process starts with an empty Registry.  It probes the snapshot ledger: on the
\* sync node, else on the full-history endpoints if they are others.
Start ==
  /\ pc = "down" /\ state.status # "done"
  /\ pruned => history
  /\ source' = IF pruned THEN "history" ELSE "sync"
  /\ state' = [state EXCEPT !.status = "running"]
  /\ pc' = "choose" /\ cached' = {}
  /\ UNCHANGED <<nodes, stored, tokens, walk, at, batch, pages, ended, issuers, cut, crashes>>

\* Nobody has it: runSnapshot throws, and all it leaves is its row.
StartThrows ==
  /\ pc = "down" /\ state.status # "done"
  /\ pruned /\ ~history
  /\ state' = [state EXCEPT !.status = "running"]
  /\ UNCHANGED <<nodes, stored, tokens, pc, walk, at, batch, pages, ended, cached, issuers,
                 source, cut, crashes>>

\* Mutant: the marker is not used.
ResumeNever(w) == 1

\* Where a walk begins: at the marker, if it belongs to this walk.
Resume(w) == IF state.pass = w /\ state.marker # Null THEN state.marker ELSE 1

\* Mutant: each walk has a Registry of its own.
BeginWalkAnew ==
  /\ pc = "choose"
  /\ \E i \in DOMAIN Walks :
       /\ Walks[i] \notin state.completed
       /\ \A j \in 1..(i - 1) : Walks[j] \in state.completed
       /\ walk' = Walks[i]
       /\ at' = Resume(Walks[i])
  /\ issuers' = tokens /\ cached' = {}
  /\ batch' = {} /\ pages' = 0 /\ ended' = FALSE /\ pc' = "fetch"
  /\ UNCHANGED <<nodes, disk, source, cut, crashes>>

\* The next walk that is not completed.
BeginWalk ==
  /\ pc = "choose"
  /\ \E i \in DOMAIN Walks :
       /\ Walks[i] \notin state.completed
       /\ \A j \in 1..(i - 1) : Walks[j] \in state.completed
       /\ walk' = Walks[i]
       /\ at' = Resume(Walks[i])
       /\ issuers' = IF Walks[i] = "walk2" THEN tokens ELSE issuers
  /\ batch' = {} /\ pages' = 0 /\ ended' = FALSE /\ pc' = "fetch"
  /\ UNCHANGED <<nodes, disk, cached, source, cut, crashes>>

WalksDone ==
  /\ pc = "choose" /\ state.completed = ToSet(Walks)
  /\ pc' = "finish"
  /\ UNCHANGED <<nodes, disk, walk, at, batch, pages, ended, cached, issuers, source, cut, crashes>>

\* Dispatch of a page.  In walk 1 its accounts are resolved, that is cached, and
\* its tokens get their rows, ahead of the flush.
TakePage(objects, next) ==
  LET keep == {x \in objects : Wanted(walk, x)} IN
  /\ batch' = batch \cup keep
  /\ IF walk = "walk1"
       THEN cached' = cached \cup UNION {Ends(x) : x \in keep} /\ tokens' = tokens \cup {Issuer(x) : x \in keep}
       ELSE UNCHANGED <<cached, tokens>>
  /\ pages' = pages + 1
  /\ at' = next
  /\ ended' = (next > Len(keyspace))
  /\ pc' = IF ended' \/ Cardinality(batch') >= FlushEvery \/ pages' >= FlushPages THEN "flush" ELSE "fetch"

\* The ledger walked is gone from the node it is walked on.
Gone == pruned /\ source = "sync"

FetchPage ==
  /\ pc = "fetch" /\ ~Gone
  /\ TakePage(Page(at), at + PageLimit)
  /\ UNCHANGED <<nodes, stored, state, walk, issuers, source, cut, crashes>>

\* lgrNotFound: ledgerData returns an empty page without a marker, and the walk
\* looks at nothing but the marker.
EmptyPage ==
  /\ pc = "fetch" /\ Gone
  /\ cut' = TRUE
  /\ TakePage({}, Len(keyspace) + 1)
  /\ UNCHANGED <<nodes, stored, state, walk, issuers, source, crashes>>

\* batch.flush outside of any transaction; every insert is DO NOTHING.
Flush ==
  /\ pc = "flush"
  /\ stored' = stored \cup batch
  /\ batch' = {} /\ pages' = 0
  /\ pc' = "mark"
  /\ UNCHANGED <<nodes, tokens, state, walk, at, ended, cached, issuers, source, cut, crashes>>

\* Mutant: the marker saved is the one the prefetched page will return.
SaveMarkerAhead ==
  /\ pc = "mark"
  /\ state' = [state EXCEPT !.pass = walk, !.marker = IF ended THEN Null ELSE at + PageLimit]
  /\ pc' = IF ended THEN "complete" ELSE "fetch"
  /\ UNCHANGED <<nodes, stored, tokens, walk, at, batch, pages, ended, cached, issuers, source, cut, crashes>>

SaveMarker ==
  /\ pc = "mark"
  /\ state' = [state EXCEPT !.pass = walk, !.marker = IF ended THEN Null ELSE at]
  /\ pc' = IF ended THEN "complete" ELSE "fetch"
  /\ UNCHANGED <<nodes, stored, tokens, walk, at, batch, pages, ended, cached, issuers, source, cut, crashes>>

\* Mutant: the walk does not become a completed pass.
CompleteForgets ==
  /\ pc = "complete"
  /\ state' = [state EXCEPT !.pass = Null, !.marker = Null]
  /\ pc' = "choose"
  /\ UNCHANGED <<nodes, stored, tokens, walk, at, batch, pages, ended, cached, issuers, source, cut, crashes>>

CompleteWalk ==
  /\ pc = "complete"
  /\ state' = [state EXCEPT !.completed = @ \cup {walk}, !.pass = Null, !.marker = Null]
  /\ pc' = "choose"
  /\ UNCHANGED <<nodes, stored, tokens, walk, at, batch, pages, ended, cached, issuers, source, cut, crashes>>

\* The metrics, the ledger row and the checkpoint (BalanceHistory, LedgerIngest).
Finish ==
  /\ pc = "finish"
  /\ state' = [state EXCEPT !.status = "done"]
  /\ pc' = "down"
  /\ UNCHANGED <<nodes, stored, tokens, walk, at, batch, pages, ended, cached, issuers, source, cut, crashes>>

\* A kill, or any error: it ends the process.
Crash ==
  /\ pc # "down" /\ crashes < MaxCrashes
  /\ crashes' = crashes + 1
  /\ pc' = "down" /\ batch' = {} /\ pages' = 0 /\ cached' = {}
  /\ UNCHANGED <<nodes, disk, walk, at, ended, issuers, source, cut>>

Step ==
  \/ Start \/ StartThrows \/ BeginWalk \/ WalksDone \/ FetchPage \/ EmptyPage
  \/ Flush \/ SaveMarker \/ CompleteWalk \/ Finish
Next == Step \/ Prune \/ Crash

Spec == Init /\ [][Next]_vars
\* The process manager restarts the process, which does nothing but go on.
FairSpec == Spec /\ WF_vars(Step)

-----------------------------------------------------------------------------
(* What the snapshot promises. *)

Lines == {x \in Objects : x[1] = "line"}
\* What a complete snapshot holds: the lines and the AccountRoots of their issuers.
Due(w) == IF w = "walk1" THEN Lines
          ELSE {x \in Objects : x[1] = "root" /\ \E y \in Lines : Issuer(y) = Issuer(x)}

TypeOK ==
  /\ stored \subseteq Objects /\ batch \subseteq Objects
  /\ state \in [status : {"none", "running", "done"}, pass : ToSet(Walks) \cup {Null},
                marker : (1..(Len(keyspace) + 1)) \cup {Null}, completed : SUBSET ToSet(Walks)]
  /\ pc \in {"down", "choose", "fetch", "flush", "mark", "complete", "finish"}
  /\ walk \in ToSet(Walks) \cup {Null} /\ at \in Nat \ {0}
  /\ {ended, history, pruned, cut} \subseteq BOOLEAN /\ source \in {"sync", "history"}
  /\ crashes \in 0..MaxCrashes
  /\ cached \cup issuers \cup tokens \subseteq UNION {Ends(x) : x \in Objects}

\* Wherever the process is killed, what lies before the saved marker of walk 1 is
\* in the database, and so is the whole walk once it is a completed pass: a resumed
\* walk skips nothing (snapshot.ts:132-136 and 194-222).  The one exception is a
\* walk the node cut short by dropping the ledger: it counts as complete.
MarkerIsBehind ==
  ~cut =>
    /\ state.pass = "walk1" /\ state.marker # Null =>
         \A k \in DOMAIN keyspace : k < state.marker /\ keyspace[k] \in Lines => keyspace[k] \in stored
    /\ "walk1" \in state.completed => Lines \subseteq stored

\* A process that was never killed also patches the AccountRoot of every issuer,
\* wherever it lies between the lines (snapshot.ts:138-147 and 170-176).
UnkilledIsComplete ==
  state.status = "done" /\ crashes = 0 /\ ~cut => Due("walk2") \subseteq stored

\* A completed walk is not walked again, and a walk's marker only moves on while it
\* is being walked (snapshot.ts:131, 194-222).
Progress ==
  [][ /\ state.completed \subseteq state'.completed
      /\ pc' = "fetch" /\ pc = "choose" => walk' \notin state.completed
      /\ state'.pass = state.pass /\ state.marker # Null /\ state'.marker # Null =>
           state.marker <= state'.marker ]_vars

\* However often it is killed, as long as that ends, the snapshot gets done, or the
\* process is down and no node has the ledger of the walk it would resume: then
\* every restart throws (snapshot.ts:87-107), for ever.
Stranded == pc = "down" /\ state.status # "done" /\ pruned /\ ~history
EventuallyDone == <>(state.status = "done" \/ Stranded)

-----------------------------------------------------------------------------
(* What a comment says that the code does not do. *)

\* snapshot.ts:53: "idempotent + resumable: safe to kill and restart".
KillIsSafe == state.status = "done" /\ ~cut => Due("walk2") \subseteq stored
=============================================================================
