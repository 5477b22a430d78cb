---------------------------- MODULE XrplPoolProofs ----------------------------
(***************************************************************************)
(* XrplPool: for every number of endpoints, callers, clients and faults,   *)
(* at most the current client carries the stream, and a dialer is at work  *)
(* whenever it does not.                                                   *)
(***************************************************************************)
EXTENDS XrplPool, TLAPS

(* Which client a waiting task means, and what is known of it.  A rotation
   that is no longer about the current client has nothing to wait for; while
   there is one, the current client was made in the same turn and is not
   connected yet; a subscription on another client is refused. *)
HeldBy(t) ==
  /\ pc[t] = "rotating" => link[on[t]] \in {"none", "closing"}
  /\ pc[t] = "rotating" /\ on[t] # client =>
       link[on[t]] = "none" /\ link[client] \in {"none", "dialing"}
  /\ pc[t] = "subscribing" /\ on[t] # client => link[on[t]] \in {"none", "dialing"}
  /\ pc[t] # "idle" /\ pc[t] # "sleeping" => on[t] \in Clients
  /\ t \in Dialers => pc[t] \notin {"sent", "retry"}

Held == \A t \in Tasks : HeldBy(t)

SubLive == \A c \in sub : c = client /\ link[c] \in {"open", "closing"}

PoolInv == TypeOK /\ Held /\ SubLive /\ Watched

-----------------------------------------------------------------------------
LEMMA InitInv == Init => PoolInv
<1> SUFFICES ASSUME Init PROVE PoolInv
  OBVIOUS
<1>1. TypeOK
  <2>1. 0 \in 0 .. N - 1 /\ 0 \in Clients /\ 0 \in 0 .. MaxFaults
    BY PoolAssumption DEF PoolAssumption, Clients
  <2> QED
    BY <2>1 DEF Init, TypeOK
<1>2. Held
  BY DEF Held, HeldBy, Init, Tasks, Dialers, Boot, Loop
<1>3. SubLive
  BY DEF SubLive, Init
<1>4. Watched
  BY DEF Watched, Init, Tasks, Dialers, Boot, Loop
<1> QED
  BY <1>1, <1>2, <1>3, <1>4 DEF PoolInv

-----------------------------------------------------------------------------
(* Each action on its own. *)

LEMMA FinishRotateInv ==
  ASSUME PoolInv, NEW t \in Tasks, FinishRotate(t)
  PROVE  PoolInv'
<1> USE DEF PoolInv
<1>1. PICK c \in Spare(t) :
        /\ client' = c
        /\ url' = [url EXCEPT ![c] = NextIdx]
        /\ sub' = sub \ {c}
        /\ IF t = Loop /\ attempt[t] = N - 1
           THEN Awaits(t, NextRound, None) /\ link' = [link EXCEPT ![c] = "none"]
           ELSE Awaits(t, "dialing", c) /\ link' = [link EXCEPT ![c] = "dialing"]
  BY DEF FinishRotate
<1>2. c \in Clients /\ c # client /\ \A u \in Tasks \ {t} : on[u] # c
  BY DEF Spare, Unheld
<1>3. pc[t] = "rotating" /\ link[on[t]] = "none" /\ on[t] \in Clients
  BY DEF FinishRotate, Held, HeldBy
<1>4. link[client] \in {"none", "dialing"}
  BY <1>3 DEF Held, HeldBy, TypeOK
<1>5. sub = {}
  BY <1>4 DEF SubLive
<1>6. TypeOK'
  <2>1. NextIdx \in 0 .. N - 1
    BY PoolAssumption DEF PoolAssumption, NextIdx, TypeOK
  <2>2. attempt' \in [Dialers -> 0 .. N - 1]
    BY PoolAssumption DEF PoolAssumption, TypeOK, FinishRotate
  <2>3. /\ pc' \in [Tasks -> {"idle", "sent", "rotating", "dialing", "subscribing",
                              "retry", "sleeping"}]
        /\ on' \in [Tasks -> Clients \cup {None}]
        /\ link' \in [Clients -> {"none", "dialing", "open", "closing"}]
    BY <1>1, <1>2 DEF TypeOK, Awaits, NextRound
  <2> QED
    BY <1>1, <1>2, <2>1, <2>2, <2>3 DEF TypeOK, FinishRotate
<1>7. Held'
  <2> SUFFICES ASSUME NEW u \in Tasks PROVE HeldBy(u)'
    BY DEF Held
  <2>1. CASE u = t
    BY <1>1, <1>2, <2>1 DEF Awaits, NextRound, HeldBy, TypeOK
  <2>2. CASE u # t
    <3>1. pc'[u] = pc[u] /\ on'[u] = on[u] /\ on[u] # c
      BY <1>1, <1>2, <2>2 DEF Awaits, TypeOK
    <3>2. \A d \in Clients \ {c} : link'[d] = link[d]
      BY <1>1 DEF TypeOK
    <3>3. link'[c] \in {"none", "dialing"}
      BY <1>1, <1>2 DEF TypeOK
    <3>4. pc[u] = "rotating" => link[on[u]] = "none" /\ on[u] \in Clients
      BY <1>4 DEF Held, HeldBy
    <3> QED
      BY <1>1, <1>4, <3>1, <3>2, <3>3, <3>4 DEF Held, HeldBy
  <2> QED
    BY <2>1, <2>2
<1>8. SubLive'
  BY <1>1, <1>5 DEF SubLive
<1>9. Watched'
  <2> SUFFICES ASSUME ~closing PROVE \E d \in Dialers : pc'[d] # "idle"
    BY DEF Watched, FinishRotate
  <2>1. CASE t \in Dialers
    BY <1>1, <2>1 DEF Awaits, NextRound, TypeOK
  <2>2. CASE t \notin Dialers
    <3>1. PICK d \in Dialers : pc[d] # "idle"
      BY <1>4 DEF Watched, Live
    <3>2. pc'[d] = pc[d]
      BY <1>1, <2>2 DEF Awaits, TypeOK, Tasks
    <3> QED
      BY <3>1, <3>2
  <2> QED
    BY <2>1, <2>2
<1> QED
  BY <1>6, <1>7, <1>8, <1>9


LEMMA RestartInv == PoolInv /\ Restart => PoolInv'
<1> SUFFICES ASSUME PoolInv, Restart PROVE PoolInv'
  OBVIOUS
<1>1. TypeOK'
  <2>1. 0 \in 0 .. N - 1 /\ 0 \in Clients
    BY PoolAssumption DEF PoolAssumption, Clients
  <2> QED
    BY <2>1 DEF PoolInv, Restart, TypeOK
<1>2. Held'
  BY DEF Held, HeldBy, Restart, Tasks, Dialers, Boot, Loop
<1>3. SubLive'
  BY DEF SubLive, Restart
<1>4. Watched'
  BY DEF Watched, Restart, Tasks, Dialers, Boot, Loop
<1> QED
  BY <1>1, <1>2, <1>3, <1>4 DEF PoolInv

LEMMA DialInv ==
  ASSUME PoolInv, NEW d \in Dialers, Dial(d)
  PROVE  PoolInv'
<1> USE DEF PoolInv
<1>1. client \in Clients /\ d \in Tasks
  BY DEF TypeOK, Tasks
<1>2. \A t \in Tasks : pc[t] = "rotating" => on[t] = client /\ link[client] = "closing"
  BY DEF Dial, Settled, Runnable, Held, HeldBy
<1>3. \A c \in Clients : \/ link'[c] = link[c]
                         \/ c = client /\ link[c] = "none" /\ link'[c] = "dialing"
  BY DEF Dial, Dialed, TypeOK
<1>4. TypeOK'
  BY <1>1 DEF TypeOK, Dial, Awaits, Dialed
<1>5. Held'
  <2> SUFFICES ASSUME NEW u \in Tasks PROVE HeldBy(u)'
    BY DEF Held
  <2>1. CASE u = d
    BY <1>1, <2>1 DEF HeldBy, Dial, Awaits, TypeOK
  <2>2. CASE u # d
    <3>1. pc'[u] = pc[u] /\ on'[u] = on[u] /\ client' = client
      BY <2>2 DEF Dial, Awaits, TypeOK
    <3> QED
      BY <1>2, <1>3, <3>1 DEF Held, HeldBy
  <2> QED
    BY <2>1, <2>2
<1>6. SubLive'
  BY <1>3 DEF SubLive, Dial, TypeOK
<1>7. Watched'
  BY DEF Watched, Dial, Awaits, TypeOK, Tasks
<1> QED
  BY <1>4, <1>5, <1>6, <1>7

LEMMA SendInv ==
  ASSUME PoolInv, NEW r \in Requests, Send(r)
  PROVE  PoolInv'
<1> USE DEF PoolInv
<1>1. r \in Tasks /\ r \notin Dialers /\ client \in Clients
  BY PoolAssumption DEF PoolAssumption, Tasks, TypeOK
<1>2. TypeOK'
  BY <1>1 DEF TypeOK, Send, Awaits
<1>3. Held'
  BY <1>1 DEF Held, HeldBy, Send, Awaits, TypeOK
<1>4. SubLive'
  BY DEF SubLive, Send
<1>5. Watched'
  BY <1>1 DEF Watched, Live, Send, Awaits, TypeOK, Tasks
<1> QED
  BY <1>2, <1>3, <1>4, <1>5

LEMMA SubscribeInv ==
  ASSUME PoolInv, NEW t \in Tasks, Subscribe(t)
  PROVE  PoolInv'
<1> USE DEF PoolInv
<1>1. TypeOK'
  BY DEF TypeOK, Subscribe, Awaits
<1>2. Held'
  BY DEF Held, HeldBy, Subscribe, Awaits, TypeOK
<1>3. SubLive'
  BY DEF SubLive, Subscribe
<1>4. Watched'
  BY DEF Watched, Live, Subscribe, Awaits, TypeOK, Tasks
<1> QED
  BY <1>1, <1>2, <1>3, <1>4

(* What a rejection and a refusal do. *)
LEMMA FailsInv ==
  ASSUME PoolInv, NEW t \in Tasks, pc[t] # "idle", pc[t] # "rotating", Fails(t),
         faults' \in 0 .. MaxFaults,
         UNCHANGED <<idx, client, url, sub, attempt, closing, down>>
  PROVE  PoolInv'
<1> USE DEF PoolInv
<1>1. client \in Clients
  BY DEF TypeOK
<1>2. CASE t \in Dialers \/ pc[t] = "sent"
  <2>1. Awaits(t, "rotating", client) /\ link' = Hangup(client)
    BY <1>2 DEF Fails, StartRotate
  <2>2. \A c \in Clients :
          \/ link'[c] = link[c] /\ (c = client => link[c] \in {"none", "closing"})
          \/ c = client /\ link[c] = "open" /\ link'[c] = "closing"
          \/ c = client /\ link[c] = "dialing" /\ link'[c] = "none"
    BY <2>1 DEF Hangup, TypeOK
  <2>3. TypeOK'
    BY <1>1, <2>1 DEF TypeOK, Awaits, Hangup
  <2>4. Held'
    <3> SUFFICES ASSUME NEW u \in Tasks PROVE HeldBy(u)'
      BY DEF Held
    <3>1. CASE u = t
      BY <1>1, <2>1, <2>2, <3>1 DEF HeldBy, Awaits, TypeOK
    <3>2. CASE u # t
      <4>1. pc'[u] = pc[u] /\ on'[u] = on[u] /\ client' = client
        BY <2>1, <3>2 DEF Awaits, TypeOK
      <4> QED
        BY <1>1, <2>2, <4>1 DEF Held, HeldBy
    <3> QED
      BY <3>1, <3>2
  <2>5. SubLive'
    BY <2>2 DEF SubLive, TypeOK
  <2>6. Watched'
    BY <1>1, <1>2, <2>1, <2>2 DEF Watched, Live, Awaits, TypeOK, Tasks
  <2> QED
    BY <2>3, <2>4, <2>5, <2>6
<1>3. CASE t \notin Dialers /\ pc[t] # "sent"
  <2>1. Awaits(t, "idle", None) /\ UNCHANGED link
    BY <1>3 DEF Fails
  <2>2. TypeOK'
    BY <2>1 DEF TypeOK, Awaits
  <2>3. Held'
    BY <2>1 DEF Held, HeldBy, Awaits, TypeOK
  <2>4. SubLive'
    BY <2>1 DEF SubLive
  <2>5. Watched'
    BY <1>3, <2>1 DEF Watched, Live, Awaits, TypeOK, Tasks
  <2> QED
    BY <2>2, <2>3, <2>4, <2>5
<1> QED
  BY <1>2, <1>3

LEMMA AnsweredInv ==
  ASSUME PoolInv, NEW t \in Tasks, Answered(t)
  PROVE  PoolInv'
<1> USE DEF PoolInv
<1>1. CASE pc[t] = "subscribing"
  <2>1. on[t] = client /\ link[client] = "open" /\ client \in Clients
    BY <1>1 DEF Answered, Held, HeldBy, TypeOK
  <2>2. sub' = sub \cup {client} /\ UNCHANGED <<client, link, closing>>
    BY <1>1, <2>1 DEF Answered
  <2>3. \E what \in {"idle", "retry"}, c \in {client, None} :
          Awaits(t, what, c) /\ (what = "retry" => c = client /\ t \notin Dialers)
    BY <1>1 DEF Answered
  <2>4. attempt' \in [Dialers -> 0 .. N - 1]
    BY <1>1, PoolAssumption DEF PoolAssumption, Answered, TypeOK
  <2>5. TypeOK'
    BY <2>1, <2>2, <2>3, <2>4 DEF TypeOK, Awaits, Answered
  <2>6. Held'
    <3> SUFFICES ASSUME NEW u \in Tasks PROVE HeldBy(u)'
      BY DEF Held
    <3>1. CASE u = t
      BY <2>1, <2>2, <2>3, <3>1 DEF HeldBy, Awaits, TypeOK
    <3>2. CASE u # t
      BY <2>2, <2>3, <3>2 DEF Held, HeldBy, Awaits, TypeOK
    <3> QED
      BY <3>1, <3>2
  <2>7. SubLive' /\ Watched'
    BY <2>1, <2>2 DEF SubLive, Watched, Live
  <2> QED
    BY <2>5, <2>6, <2>7
<1>2. CASE pc[t] # "subscribing"
  <2>1. Awaits(t, "idle", None) /\ UNCHANGED <<idx, client, url, link, sub, attempt, closing, down, faults>>
    BY <1>2 DEF Answered
  <2>2. TypeOK'
    BY <2>1 DEF TypeOK, Awaits
  <2>3. Held'
    BY <2>1 DEF Held, HeldBy, Awaits, TypeOK
  <2>4. SubLive'
    BY <2>1 DEF SubLive
  <2>5. t \notin Dialers
    BY <1>2 DEF Answered, Held, HeldBy
  <2>6. Watched'
    BY <2>1, <2>5 DEF Watched, Live, Awaits, TypeOK, Tasks
  <2> QED
    BY <2>2, <2>3, <2>4, <2>6
<1> QED
  BY <1>1, <1>2

LEMMA OpenedInv ==
  ASSUME PoolInv, NEW c \in Clients, Opened(c)
  PROVE  PoolInv'
<1> USE DEF PoolInv
<1>1. \A t \in Tasks :
        /\ pc[t] = "rotating" => on[t] = client /\ link[client] = "closing"
        /\ pc[t] = "subscribing" => on[t] = client
  BY DEF Opened, Settled, Runnable, Held, HeldBy
<1>2. TypeOK'
  BY DEF TypeOK, Opened
<1>3. Held'
  BY <1>1 DEF Held, HeldBy, Opened, TypeOK
<1>4. SubLive'
  BY DEF SubLive, Opened, TypeOK
<1>5. Watched'
  BY DEF Watched, Live, SubLive, Opened, TypeOK
<1> QED
  BY <1>2, <1>3, <1>4, <1>5

LEMMA DialFailsInv ==
  ASSUME PoolInv, NEW c \in Clients, DialFails(c)
  PROVE  PoolInv'
<1> USE DEF PoolInv
<1>1. TypeOK'
  BY PoolAssumption DEF PoolAssumption, TypeOK, DialFails, Fault
<1>2. Held'
  BY DEF Held, HeldBy, DialFails, TypeOK
<1>3. SubLive'
  BY DEF SubLive, DialFails, TypeOK
<1>4. Watched'
  BY DEF Watched, Live, SubLive, DialFails, TypeOK
<1> QED
  BY <1>1, <1>2, <1>3, <1>4

LEMMA ClosedInv ==
  ASSUME PoolInv, NEW c \in Clients, Closed(c)
  PROVE  PoolInv'
<1> USE DEF PoolInv
<1>1. /\ link[c] \in {"open", "closing"}
      /\ link' = [link EXCEPT ![c] = "none"]
      /\ sub' = sub \ {c}
      /\ UNCHANGED <<client, on, closing>>
  BY DEF Closed
<1>2. /\ Loop \in Tasks
      /\ pc' = pc \/ (pc' = [pc EXCEPT ![Loop] = "sleeping"] /\ pc[Loop] = "idle")
      /\ ~closing /\ pc[Loop] = "idle" => pc' = [pc EXCEPT ![Loop] = "sleeping"]
  <2>1. pc' = IF ~closing /\ pc[Loop] = "idle" THEN [pc EXCEPT ![Loop] = "sleeping"] ELSE pc
    BY DEF Closed, Disconnected
  <2> QED
    BY <2>1, Zenon DEF Tasks, Dialers
<1>3. TypeOK'
  <2>1. faults' \in 0 .. MaxFaults
    BY PoolAssumption DEF PoolAssumption, TypeOK, Closed, Fault
  <2>2. pc' \in [Tasks -> {"idle", "sent", "rotating", "dialing", "subscribing",
                           "retry", "sleeping"}]
    BY <1>2 DEF TypeOK
  <2> QED
    BY <1>1, <2>1, <2>2 DEF TypeOK, Closed
<1>4. \A t \in Tasks : pc[t] = "rotating" => on[t] = client
  BY DEF Closed, Settled, Runnable, Held, HeldBy
<1>5. Held'
  <2> SUFFICES ASSUME NEW u \in Tasks PROVE HeldBy(u)'
    BY DEF Held
  <2>1. pc'[u] = pc[u] \/ (pc[u] = "idle" /\ pc'[u] = "sleeping")
    BY <1>2 DEF TypeOK
  <2>2. \A d \in Clients : link'[d] = link[d] \/ link'[d] = "none"
    BY <1>1 DEF TypeOK
  <2> QED
    BY <1>1, <1>4, <2>1, <2>2 DEF Held, HeldBy, TypeOK
<1>6. SubLive'
  BY <1>1 DEF SubLive, TypeOK
<1>7. Watched'
  <2> SUFFICES ASSUME ~closing PROVE \E d \in Dialers : pc'[d] # "idle"
    BY <1>1 DEF Watched
  <2>1. Loop \in Tasks /\ Loop \in Dialers
    BY DEF Tasks, Dialers
  <2>2. pc'[Loop] # "idle"
    BY <1>2, <2>1 DEF TypeOK
  <2> QED
    BY <2>1, <2>2
<1> QED
  BY <1>3, <1>5, <1>6, <1>7

LEMMA BreakInv ==
  ASSUME PoolInv, NEW e \in Breakable, Break(e)
  PROVE  PoolInv'
BY PoolAssumption DEF PoolAssumption, PoolInv, TypeOK, Held, HeldBy, SubLive, Watched,
   Live, Break, Fault

LEMMA ShutdownInv == PoolInv /\ Shutdown => PoolInv'
<1> SUFFICES ASSUME PoolInv, Shutdown PROVE PoolInv'
  OBVIOUS
<1> USE DEF PoolInv
<1>1. \A c \in Clients : \/ link'[c] = link[c]
                         \/ c = client /\ link[c] = "open" /\ link'[c] = "closing"
                         \/ c = client /\ link[c] = "dialing" /\ link'[c] = "none"
  BY DEF Shutdown, Hangup, TypeOK
<1>2. TypeOK'
  BY DEF TypeOK, Shutdown, Hangup
<1>3. Held'
  BY <1>1 DEF Held, HeldBy, Shutdown, TypeOK
<1>4. SubLive'
  BY <1>1 DEF SubLive, Shutdown, TypeOK
<1>5. Watched'
  BY DEF Watched, Shutdown
<1> QED
  BY <1>2, <1>3, <1>4, <1>5

-----------------------------------------------------------------------------
LEMMA NextInv == PoolInv /\ [Next]_vars => PoolInv'
<1> SUFFICES ASSUME PoolInv, [Next]_vars PROVE PoolInv'
  OBVIOUS
<1>1. ASSUME NEW t \in Tasks, Runs(t) PROVE PoolInv'
  <2>1. CASE FinishRotate(t)
    BY <2>1, FinishRotateInv
  <2>2. CASE Subscribe(t)
    BY <2>2, SubscribeInv
  <2>3. CASE Rejected(t)
    <3>1. /\ pc[t] # "idle" /\ pc[t] # "rotating" /\ Fails(t)
          /\ UNCHANGED <<idx, client, url, sub, attempt, closing, down, faults>>
      BY <2>3 DEF Rejected
    <3>2. faults' \in 0 .. MaxFaults
      BY <3>1 DEF PoolInv, TypeOK
    <3> QED
      BY <3>1, <3>2, FailsInv
  <2> QED
    BY <1>1, <2>1, <2>2, <2>3 DEF Runs
<1>2. CASE Restart
  BY <1>2, RestartInv
<1>3. ASSUME NEW t \in Tasks, Answered(t) \/ Refused(t) PROVE PoolInv'
  <2>1. CASE Answered(t)
    BY <2>1, AnsweredInv
  <2>2. CASE Refused(t)
    <3>1. /\ pc[t] # "idle" /\ pc[t] # "rotating" /\ Fails(t)
          /\ UNCHANGED <<idx, client, url, sub, attempt, closing, down>>
      BY <2>2 DEF Refused
    <3>2. faults' \in 0 .. MaxFaults
      BY <2>2, PoolAssumption DEF PoolAssumption, Refused, Fault, PoolInv, TypeOK
    <3> QED
      BY <3>1, <3>2, FailsInv
  <2> QED
    BY <1>3, <2>1, <2>2
<1>4. ASSUME NEW d \in Dialers, Dial(d) PROVE PoolInv'
  BY <1>4, DialInv
<1>5. ASSUME NEW r \in Requests, Send(r) PROVE PoolInv'
  BY <1>5, SendInv
<1>6. ASSUME NEW c \in Clients, Opened(c) \/ DialFails(c) \/ Closed(c) PROVE PoolInv'
  BY <1>6, OpenedInv, DialFailsInv, ClosedInv
<1>7. ASSUME NEW e \in Breakable, Break(e) PROVE PoolInv'
  BY <1>7, BreakInv
<1>8. CASE Shutdown
  BY <1>8, ShutdownInv
<1>9. CASE UNCHANGED vars
  BY <1>9 DEF vars, PoolInv, TypeOK, Held, HeldBy, SubLive, Watched, Live
<1> QED
  BY <1>1, <1>2, <1>3, <1>4, <1>5, <1>6, <1>7, <1>8, <1>9 DEF Next

(* The invariant holds for every number of endpoints, callers and faults. *)
THEOREM PoolInvariance == Spec => []PoolInv
  BY InitInv, NextInv, PTL DEF Spec

(* A stream that is down is being repaired (pool.ts:52-56, 89-140). *)
THEOREM StreamIsWatched == Spec => []Watched
<1>1. PoolInv => Watched
  BY DEF PoolInv
<1> QED
  BY <1>1, PoolInvariance, PTL

(* No ledger is announced twice by the pool (pool.ts:46-51, 91-95). *)
THEOREM StreamIsOne == Spec => []OneStream
<1>1. PoolInv => OneStream
  BY DEF PoolInv, SubLive, OneStream
<1> QED
  BY <1>1, PoolInvariance, PTL
=============================================================================
