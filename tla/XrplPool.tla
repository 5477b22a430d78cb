------------------------------- MODULE XrplPool -------------------------------
(***************************************************************************)
(* The connection pool of the indexer (packages/xrpl-client/src/pool.ts):  *)
(* one current client at a time out of those makeClient ever made, the     *)
(* requests of live sync, backfill and snapshot, which rotate the endpoint *)
(* and retry once, and the one reconnect loop that the "disconnected"      *)
(* handlers start.  JavaScript runs one task at a time: whatever an event  *)
(* of the network resolves or rejects runs before the next event (Settled).*)
(***************************************************************************)
EXTENDS Naturals

CONSTANTS
  N,          \* endpoints; number 0 is tried first
  Breakable,  \* endpoints that may go down for good
  Requests,   \* callers of request(), each with one request at a time
  MaxClients, \* names for the client objects alive at the same time
  MaxFaults   \* bound on error answers, lost connections and broken endpoints

Clients == 0 .. MaxClients - 1
None == MaxClients        \* no client: the task waits for none
Boot == "connect"         \* the call of connect() at the start of the process
Loop == "reconnect"       \* the body of reconnecting
Dialers == {Boot, Loop}
Tasks == Requests \cup Dialers

ASSUME PoolAssumption ==
  /\ N \in Nat \ {0}
  /\ Breakable \subseteq 0 .. N - 1
  /\ Requests \cap Dialers = {}
  /\ MaxClients \in Nat \ {0}
  /\ MaxFaults \in Nat

VARIABLES
  idx,      \* endpointIdx
  client,   \* this.client
  url,      \* url[c]: the endpoint client c was made for
  link,     \* link[c]: the websocket of c; "none" before it is dialed and after it closed
  sub,      \* clients whose connection carries the ledger subscription
  pc,       \* pc[t]: what task t awaits
  on,       \* on[t]: the client whose promise it awaits
  attempt,  \* attempt[d]: the for loop of connectWithFailover
  closing,
  down,     \* endpoints that are down
  faults

vars == <<idx, client, url, link, sub, pc, on, attempt, closing, down, faults>>

TypeOK ==
  /\ idx \in 0 .. N - 1
  /\ client \in Clients
  /\ url \in [Clients -> 0 .. N - 1]
  /\ link \in [Clients -> {"none", "dialing", "open", "closing"}]
  /\ sub \subseteq Clients
  /\ pc \in [Tasks -> {"idle", "sent", "rotating", "dialing", "subscribing",
                       "retry", "sleeping"}]
  /\ on \in [Tasks -> Clients \cup {None}]
  /\ attempt \in [Dialers -> 0 .. N - 1]
  /\ closing \in BOOLEAN
  /\ down \subseteq Breakable
  /\ faults \in 0 .. MaxFaults

(* A task has something to run: what it awaits was resolved or rejected. *)
Runnable(t) ==
  \/ pc[t] \in {"sent", "subscribing", "retry"} /\ link[on[t]] \in {"none", "dialing"}
  \/ pc[t] = "rotating" /\ link[on[t]] = "none"
  \/ pc[t] = "dialing" /\ link[on[t]] # "dialing"

Settled == \A t \in Tasks : ~Runnable(t)

Fault == faults < MaxFaults /\ faults' = faults + 1

-----------------------------------------------------------------------------
(* What the code calls on a client; xrpl.js is external.                   *)

(* client.disconnect(): closes an open socket, gives up one being dialed. *)
Hangup(c) == [link EXCEPT ![c] = CASE @ = "open"    -> "closing"
                                   [] @ = "dialing" -> "none"
                                   [] OTHER         -> @]

(* The names that task t may give to a new client: nobody else holds the old
   one.  An open connection that nobody holds is a leak of two rotations at the
   same time; it is followed until its name is needed. *)
Unheld(t) == {c \in Clients : c # client /\ \A u \in Tasks \ {t} : on[u] # c}
Spare(t) == LET closed == {c \in Unheld(t) : link[c] = "none"}
            IN  IF closed # {} THEN closed ELSE Unheld(t)

(* Where a task goes on with `await x.connect()`: xrpl.js resolves at once
   if the socket is open, joins a dial in progress, and rejects while the old
   socket is closing, which Runnable sees at its next turn. *)
Dialed(c) == [link EXCEPT ![c] = IF @ = "none" THEN "dialing" ELSE @]

(* The "disconnected" handler: one reconnect at a time, none when closing. *)
Disconnected(p) == IF ~closing /\ p[Loop] = "idle"
                   THEN [p EXCEPT ![Loop] = "sleeping"] ELSE p

-----------------------------------------------------------------------------
Awaits(t, what, c) == pc' = [pc EXCEPT ![t] = what] /\ on' = [on EXCEPT ![t] = c]

(* rotateEndpoint, up to its await. *)
StartRotate(t) ==
  /\ Awaits(t, "rotating", client)
  /\ link' = Hangup(client)

(* Mutant: the new client is made for the endpoint that has just failed. *)
SameIdx == idx

NextIdx == (idx + 1) % N

(* Mutant: a reconnect that failed on every endpoint is the last one. *)
OneRoundOnly == "idle"

NextRound == IF closing THEN "idle" ELSE "sleeping"

(* The rest of rotateEndpoint and what its caller does next: a request dials
   the new client, so does the next round of connectWithFailover.  After the
   last round the error goes to the reconnect loop, which sleeps again unless
   the pool is closing. *)
FinishRotate(t) ==
  /\ pc[t] = "rotating" /\ link[on[t]] = "none"
  /\ ~(t = Boot /\ attempt[t] = N - 1)
  /\ idx' = NextIdx
  /\ \E c \in Spare(t) :
       /\ \A d \in Spare(t) : c <= d
       /\ client' = c
       /\ url' = [url EXCEPT ![c] = NextIdx]
       /\ sub' = sub \ {c}
       /\ IF t = Loop /\ attempt[t] = N - 1
          THEN /\ Awaits(t, NextRound, None)
               /\ link' = [link EXCEPT ![c] = "none"]
          ELSE /\ Awaits(t, "dialing", c)
               /\ link' = [link EXCEPT ![c] = "dialing"]
  /\ attempt' = [d \in Dialers |-> IF d = t THEN (attempt[d] + 1) % N ELSE attempt[d]]
  /\ UNCHANGED <<closing, down, faults>>

(* connect() has failed on every endpoint: the process ends, is started again,
   and what is in its memory is as in the beginning. *)
Restart ==
  /\ pc[Boot] = "rotating" /\ link[on[Boot]] = "none" /\ attempt[Boot] = N - 1
  /\ idx' = 0 /\ client' = 0 /\ sub' = {}
  /\ url' = [c \in Clients |-> 0]
  /\ link' = [c \in Clients |-> "none"]
  /\ pc' = [t \in Tasks |-> IF t = Boot THEN "sleeping" ELSE "idle"]
  /\ on' = [t \in Tasks |-> None]
  /\ attempt' = [d \in Dialers |-> 0]
  /\ UNCHANGED <<closing, down, faults>>

(* connect() and each round of the reconnect loop start connectWithFailover;
   the loop ends when the pool is closing, which it looks at before its sleep
   only, so a sleep that has begun is followed by a round. *)
Dial(d) ==
  /\ pc[d] = "sleeping" /\ Settled
  /\ Awaits(d, "dialing", client)
  /\ link' = Dialed(client)
  /\ UNCHANGED <<idx, client, url, sub, attempt, closing, down, faults>>

(* A request goes to the current client, connected or not. *)
Send(r) ==
  /\ pc[r] = "idle" /\ pc[Boot] = "idle" /\ ~closing /\ Settled
  /\ Awaits(r, "sent", client)
  /\ UNCHANGED <<idx, client, url, link, sub, attempt, closing, down, faults>>

(* Mutant: the client that was dialed is subscribed, current or not. *)
SubscribeDialed(t) ==
  /\ pc[t] = "dialing" /\ link[on[t]] = "open"
  /\ Awaits(t, "subscribing", on[t])
  /\ UNCHANGED <<idx, client, url, link, sub, attempt, closing, down, faults>>

(* connect() resolved: `this.client` is read again for the subscription. *)
Subscribe(t) ==
  /\ pc[t] = "dialing" /\ link[on[t]] = "open"
  /\ Awaits(t, "subscribing", client)
  /\ UNCHANGED <<idx, client, url, link, sub, attempt, closing, down, faults>>

(* What a rejection leads to: dialers rotate, and so does the first try of a
   request; the rest of a request has no catch, its caller gets the error. *)
Fails(t) ==
  IF t \in Dialers \/ pc[t] = "sent" THEN StartRotate(t)
  ELSE Awaits(t, "idle", None) /\ UNCHANGED link

(* A call on a client without connection, or one whose connection is gone. *)
Rejected(t) ==
  /\ \/ pc[t] \in {"sent", "subscribing", "retry"} /\ link[on[t]] \in {"none", "dialing"}
     \/ pc[t] = "dialing" /\ link[on[t]] \in {"none", "closing"}
  /\ Fails(t)
  /\ UNCHANGED <<idx, client, url, sub, attempt, closing, down, faults>>

-----------------------------------------------------------------------------
(* The network.                                                            *)

(* A node answers; a successful subscription ends a dialer, the promise of
   the loop is cleared, and a request is sent for the second time. *)
Answered(t) ==
  /\ pc[t] \in {"sent", "subscribing", "retry"} /\ link[on[t]] = "open" /\ Settled
  /\ url[on[t]] \notin down
  /\ IF pc[t] = "subscribing"
     THEN /\ sub' = sub \cup {on[t]}
          /\ IF t \in Dialers THEN Awaits(t, "idle", None) ELSE Awaits(t, "retry", client)
          /\ attempt' = [d \in Dialers |-> IF d = t THEN 0 ELSE attempt[d]]
     ELSE Awaits(t, "idle", None) /\ UNCHANGED <<sub, attempt>>
  /\ UNCHANGED <<idx, client, url, link, closing, down, faults>>

(* It answers with an error (lgrNotFound, overload), or not in time. *)
Refused(t) ==
  /\ pc[t] \in {"sent", "subscribing", "retry"} /\ link[on[t]] = "open" /\ Settled
  /\ Fault
  /\ Fails(t)
  /\ UNCHANGED <<idx, client, url, sub, attempt, closing, down>>

(* A dial succeeds, fails, or is given up after connectionTimeoutMs. *)
Opened(c) ==
  /\ link[c] = "dialing" /\ url[c] \notin down /\ Settled
  /\ link' = [link EXCEPT ![c] = "open"]
  /\ UNCHANGED <<idx, client, url, sub, pc, on, attempt, closing, down, faults>>

DialFails(c) ==
  /\ link[c] = "dialing" /\ Settled
  /\ IF url[c] \in down THEN UNCHANGED faults ELSE Fault
  /\ link' = [link EXCEPT ![c] = "none"]
  /\ UNCHANGED <<idx, client, url, sub, pc, on, attempt, closing, down>>

(* A socket is closed, on request or because the node or the network went
   away: "disconnected" is emitted, on clients that are no longer current too. *)
Closed(c) ==
  /\ Settled
  /\ \/ link[c] = "closing" /\ UNCHANGED faults
     \/ link[c] = "open" /\ url[c] \in down /\ UNCHANGED faults
     \/ link[c] = "open" /\ Fault
  /\ link' = [link EXCEPT ![c] = "none"]
  /\ sub' = sub \ {c}
  /\ pc' = Disconnected(pc)
  /\ UNCHANGED <<idx, client, url, on, attempt, closing, down>>

Break(e) ==
  /\ Settled /\ e \notin down /\ Fault
  /\ down' = down \cup {e}
  /\ UNCHANGED <<idx, client, url, link, sub, pc, on, attempt, closing>>

(* disconnect(), called when the process is told to stop. *)
Shutdown ==
  /\ Settled /\ ~closing /\ pc[Boot] = "idle"
  /\ closing' = TRUE
  /\ link' = Hangup(client)
  /\ UNCHANGED <<idx, client, url, sub, pc, on, attempt, down, faults>>

-----------------------------------------------------------------------------
Init ==
  /\ idx = 0 /\ client = 0 /\ sub = {}
  /\ url = [c \in Clients |-> 0]
  /\ link = [c \in Clients |-> "none"]
  /\ pc = [t \in Tasks |-> IF t = Boot THEN "sleeping" ELSE "idle"]
  /\ on = [t \in Tasks |-> None]
  /\ attempt = [d \in Dialers |-> 0]
  /\ closing = FALSE /\ down = {} /\ faults = 0

Runs(t) == FinishRotate(t) \/ Subscribe(t) \/ Rejected(t)

Next ==
  \/ \E t \in Tasks : Runs(t)
  \/ Restart
  \/ \E t \in Tasks : Answered(t) \/ Refused(t)
  \/ \E d \in Dialers : Dial(d)
  \/ \E r \in Requests : Send(r)
  \/ \E c \in Clients : Opened(c) \/ DialFails(c) \/ Closed(c)
  \/ \E e \in Breakable : Break(e)
  \/ Shutdown

Spec == Init /\ [][Next]_vars

(* Tasks run; nodes that are up answer, sockets and timers do what they are
   told to.  Faults and requests need not happen. *)
Fairness ==
  /\ \A t \in Tasks : WF_vars(Runs(t)) /\ WF_vars(Answered(t))
  /\ \A d \in Dialers : WF_vars(Dial(d))
  /\ WF_vars(Restart)
  /\ \A c \in Clients : /\ WF_vars(Opened(c))
                        /\ WF_vars(link[c] = "closing" /\ Closed(c))
                        /\ WF_vars(url[c] \in down /\ (DialFails(c) \/ Closed(c)))

FairSpec == Spec /\ Fairness

-----------------------------------------------------------------------------
(* The pool is of use: its current client delivers the ledger stream. *)
Live == link[client] = "open" /\ client \in sub

(* Whenever the current client does not deliver the stream, and no close event
   that repairs it is about to come, connect() or the reconnect loop is at work,
   unless the pool was shut down: no request that gave up on its second try, no
   two that rotate together and no rotation during a reconnect leave a silent
   stream that nobody repairs (pool.ts:52-56, 89-140). *)
Watched ==
  ~closing => \/ Live \/ link[client] = "closing"
              \/ \E d \in Dialers : pc[d] # "idle"

(* At most one connection carries the stream, the current one's: nobody is told
   of a ledger twice, although concurrent rotations may leave connections open
   that nobody uses (pool.ts:46-51, 91-95). *)
OneStream == sub \subseteq {client}

(* As long as one endpoint works, the stream comes back after every failure,
   rotation and race, or the pool is shut down (pool.ts:73-119).  This needs the
   callers to pause: a request sent in every round of the reconnect loop rotates
   once and makes the loop rotate once more, and with two endpoints the two of
   them can skip the one that works for ever. *)
Recovers == <>[](\A r \in Requests : pc[r] = "idle") => []<>(Live \/ closing)

=============================================================================
