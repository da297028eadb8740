--------------------------- MODULE AgentDispatcher ---------------------------
(***************************************************************************)
(* The scheduler in front of the agent platform (dispatch/dispatcher.py):  *)
(* producers hand in events, events of one session are queued, merged by   *)
(* type and sent as agent turns by one drainer per session.                *)
(*                                                                         *)
(* The code is asyncio: what runs between two awaits is one action.  The   *)
(* drainer awaits in send_turn only, so a drainer that has the loop and    *)
(* has not reached send_turn ("loop") excludes every other action.         *)
(*                                                                         *)
(* An element of Event stands for a call of dispatch(); once its outcome   *)
(* is known and the dispatcher holds it no more it can be used again, so   *)
(* a finite Event models an endless stream of calls.                       *)
(***************************************************************************)
EXTENDS Naturals, FiniteSets

CONSTANTS
  Event,        \* dispatch() calls
  Session,      \* session keys
  Task,         \* slots for drainer tasks
  Route,        \* Event -> Session, the session of the event's type
  Kind,         \* Event -> the event's type
  Priority,     \* Event -> Nat, priority of its type, small is urgent
  Intra,        \* Event -> Nat, priority within the type, small is urgent
  MaxQueue,     \* dispatcher.max_queue
  TTL,          \* dispatcher.message_ttl_sec in clock ticks, 0 switches it off
  MaxTurns      \* bound: turns the platform is modelled to run in a session

ASSUME RouteAssumption ==
  /\ Route \in [Event -> Session]
  /\ Priority \in [Event -> Nat]
  /\ Intra \in [Event -> Nat]
  /\ \A d, e \in Event : Kind[d] = Kind[e] => /\ Route[d] = Route[e]
                                              /\ Priority[d] = Priority[e]
ASSUME SessionAssumption == Session # {}
ASSUME BoundAssumption ==
  /\ MaxQueue \in Nat
  /\ TTL \in Nat
  /\ MaxTurns \in Nat

VARIABLES
  fut,          \* the event's delivered future (_QueuedEvent.delivered)
  queued,       \* events in _queues, of every session
  older,        \* pairs <<d, e>> of queued events, d was enqueued before e
  age,          \* clock ticks since the event was enqueued
  draining,     \* _draining
  pc,           \* where a drainer task is
  sess,         \* the session a drainer task serves
  batch,        \* the events a drainer task is sending
  mode,         \* "open", "stopping" (stop() is in gather) or "stopped"
  orphans,      \* turns the platform runs that no drainer waits for
  reached       \* events whose turn the platform started

vars == <<fut, queued, older, age, draining, pc, sess, batch, mode, orphans, reached>>

taskVars == <<draining, pc, sess, batch>>

NoSession == CHOOSE s \in Session : TRUE      \* what a free slot holds

Outcome == {"delivered", "undelivered"}

Live == {t \in Task : pc[t] # "free"}
InBatch == UNION {batch[t] : t \in Live}
Held == queued \cup InBatch             \* events the dispatcher holds
LoopFree == \A t \in Task : pc[t] # "loop"
Closed == mode # "open"

(***************************************************************************)
(* Queue discipline.                                                       *)
(***************************************************************************)

QueueOf(s) == {e \in queued : Route[e] = s}

\* MUTANTS of Expired: expiry one tick late; expiry switched off
LateExpired(e, a) == TTL > 0 /\ a[e] > TTL + 1
NeverExpired(e, a) == FALSE

\* _drop_expired: queued for more than TTL, unless TTL is 0
Expired(e, a) == TTL > 0 /\ a[e] > TTL

\* MUTANT of Outlasts: among equals the newest goes first
NewestFirst(d, e, ord) ==
  \/ Priority[d] < Priority[e]
  \/ Priority[d] = Priority[e] /\ Intra[d] < Intra[e]
  \/ Priority[d] = Priority[e] /\ Intra[d] = Intra[e] /\ <<d, e>> \in ord

\* _enforce_cap evicts the largest (priority, intra_priority, age): d outlasts
\* e when e goes first
Outlasts(d, e, ord) ==
  \/ Priority[d] < Priority[e]
  \/ Priority[d] = Priority[e] /\ Intra[d] < Intra[e]
  \/ Priority[d] = Priority[e] /\ Intra[d] = Intra[e] /\ <<e, d>> \in ord

\* what _enforce_cap leaves of the queue q
WithinCap(q, ord) ==
  {e \in q : Cardinality({d \in q : Outlasts(d, e, ord)}) < MaxQueue}

\* the types _take_batch may pick: any event of least priority number
MostUrgent(q) == {e \in q : \A d \in q : Priority[e] <= Priority[d]}

\* _take_batch picks the first of these that was enqueued
Picked(q) == {e \in MostUrgent(q) : \A d \in MostUrgent(q) \ {e} : <<e, d>> \in older}

\* the batch: all queued events of the picked type
BatchOf(q, p) == {e \in q : Kind[e] = Kind[p]}

\* MUTANT of Resolve: a future is set though it is done
ResolveAgain(f, E, v) == [e \in Event |-> IF e \in E THEN v ELSE f[e]]

\* _resolve_delivered: a future that is done already stays as it is
Resolve(f, E, v) ==
  [e \in Event |-> IF e \in E /\ f[e] = "pending" THEN v ELSE f[e]]

\* MUTANT of Among: entries of the order outlive their events
AllPairs(ord, Q) == ord

\* the enqueue order of the events that remain queued
Among(ord, Q) == ord \cap (Q \X Q)

\* MUTANT of Dequeue: the batch is copied, not taken
CopyOut(D) == UNCHANGED <<queued, older, age>>

\* the events of D leave their queue
Dequeue(D) ==
  /\ queued' = queued \ D
  /\ older' = Among(older, queued')
  /\ age' = [e \in Event |-> IF e \in queued' THEN age[e] ELSE 0]

(***************************************************************************)
(* Drainer tasks.                                                          *)
(***************************************************************************)

\* MUTANT of Kick: every dispatch() starts a drainer
KickAlways(s) ==
  \E t \in Task \ Live :
    /\ draining' = draining \cup {s}
    /\ pc' = [pc EXCEPT ![t] = "new"]
    /\ sess' = [sess EXCEPT ![t] = s]
    /\ batch' = [batch EXCEPT ![t] = {}]

\* _kick on a dispatcher that is open: no second drainer for a session
Kick(s) ==
  IF s \in draining
  THEN UNCHANGED taskVars
  ELSE \E t \in Task \ Live :
         /\ draining' = draining \cup {s}
         /\ pc' = [pc EXCEPT ![t] = "new"]
         /\ sess' = [sess EXCEPT ![t] = s]
         /\ batch' = [batch EXCEPT ![t] = {}]

\* MUTANT of DrainExit: the second kick is missing
ExitQuietly(t, Q) ==
  /\ draining' = draining \ {sess[t]}
  /\ pc' = [pc EXCEPT ![t] = "free"]
  /\ sess' = [sess EXCEPT ![t] = NoSession]
  /\ batch' = [batch EXCEPT ![t] = {}]

\* the finally of _drain: leave _draining, and kick again when events are
\* still queued and the dispatcher is open; Q is what is queued by then
DrainExit(t, Q) ==
  LET again == mode = "open" /\ \E e \in Q : Route[e] = sess[t]
  IN  /\ draining' = IF again THEN draining ELSE draining \ {sess[t]}
      /\ pc' = [pc EXCEPT ![t] = IF again THEN "new" ELSE "free"]
      /\ sess' = [sess EXCEPT ![t] = IF again THEN @ ELSE NoSession]
      /\ batch' = [batch EXCEPT ![t] = {}]

(***************************************************************************)
(* dispatch(): queue the event, drop what has expired, evict what exceeds  *)
(* the cap (the new event included), kick the session's drainer.  A closed *)
(* dispatcher resolves the future at once.                                 *)
(***************************************************************************)

Enqueue(e) ==
  LET s == Route[e]
      a == [age EXCEPT ![e] = 0]
      ord == older \cup (QueueOf(s) \X {e})
      arrived == QueueOf(s) \cup {e}
      kept == WithinCap({d \in arrived : ~Expired(d, a)}, ord)
      f == [fut EXCEPT ![e] = "pending"]
  IN  /\ queued' = (queued \ arrived) \cup kept
      /\ older' = Among(ord, queued')
      /\ age' = [d \in Event |-> IF d \in queued' THEN a[d] ELSE 0]
      /\ fut' = Resolve(f, arrived \ kept, "undelivered")
      /\ Kick(s)
      /\ UNCHANGED <<mode, orphans>>

Refuse(e) ==
  /\ fut' = [fut EXCEPT ![e] = "undelivered"]
  /\ UNCHANGED <<queued, older, age, taskVars, mode, orphans>>

Dispatch(e) ==
  /\ LoopFree
  /\ e \notin Held
  /\ reached' = reached \ {e}
  /\ IF Closed THEN Refuse(e) ELSE Enqueue(e)

\* asyncio.wait_for in the caller ran out: the future is cancelled, the event
\* stays where it is
GiveUp(e) ==
  /\ LoopFree
  /\ fut[e] = "pending"
  /\ fut' = [fut EXCEPT ![e] = "cancelled"]
  /\ UNCHANGED <<queued, older, age, taskVars, mode, orphans, reached>>

(***************************************************************************)
(* _drain: one round of its loop.  The expired are dropped; an empty queue *)
(* ends the task; otherwise all events of the picked type leave the queue  *)
(* and go to the builder, which may have nothing to send (or raise), and   *)
(* the loop goes on at once.                                               *)
(***************************************************************************)
TakeBatch(t) ==
  LET q == QueueOf(sess[t])
      expired == {e \in q : Expired(e, age)}
      f == Resolve(fut, expired, "undelivered")
  IN  /\ \/ pc[t] = "loop"
         \/ pc[t] = "new" /\ LoopFree /\ mode = "open"
      /\ \/ /\ q \ expired = {}
            /\ Dequeue(expired)
            /\ fut' = f
            /\ DrainExit(t, queued')
         \/ \E p \in Picked(q \ expired) :
              LET B == BatchOf(q \ expired, p)
              IN  /\ Dequeue(expired \cup B)
                  /\ \/ /\ pc' = [pc EXCEPT ![t] = "loop"]
                        /\ fut' = Resolve(f, B, "undelivered")
                        /\ batch' = batch
                     \/ /\ pc' = [pc EXCEPT ![t] = "sending"]
                        /\ fut' = f
                        /\ batch' = [batch EXCEPT ![t] = B]
                  /\ UNCHANGED <<draining, sess>>
      /\ UNCHANGED <<mode, orphans, reached>>

(***************************************************************************)
(* _send_batch: send_turn and what each of its ends does to the futures.   *)
(***************************************************************************)

\* the platform takes the turn
PlatformStarts(t) ==
  /\ LoopFree
  /\ pc[t] = "sending"
  /\ pc' = [pc EXCEPT ![t] = "running"]
  /\ reached' = reached \cup batch[t]
  /\ UNCHANGED <<fut, queued, older, age, draining, sess, batch, mode, orphans>>

\* the turn of task t goes on without its drainer
Orphan(t) ==
  IF pc[t] = "running" /\ orphans[sess[t]] < MaxTurns
  THEN orphans' = [orphans EXCEPT ![sess[t]] = @ + 1]
  ELSE UNCHANGED orphans

\* the batch is resolved and the drainer's loop goes on
BatchDone(t, v) ==
  /\ fut' = Resolve(fut, batch[t], v)
  /\ pc' = [pc EXCEPT ![t] = "loop"]
  /\ batch' = [batch EXCEPT ![t] = {}]
  /\ UNCHANGED <<queued, older, age, draining, sess, mode, reached>>

Sending(t) == mode = "open" /\ LoopFree /\ pc[t] \in {"sending", "running"}

\* status "ok", and status "error" of a turn that failed
TurnEnds(t) ==
  /\ Sending(t) /\ pc[t] = "running"
  /\ \E v \in Outcome : BatchDone(t, v)
  /\ UNCHANGED orphans

\* status "timeout": the platform goes on with the turn, the batch counts as
\* delivered
TurnTimesOut(t) ==
  /\ Sending(t) /\ pc[t] = "running"
  /\ BatchDone(t, "delivered")
  /\ Orphan(t)

\* AdapterTransportError (the request or its response is lost), and the
\* status "no-channel" or "error" of a turn that never began
SendFails(t) ==
  /\ Sending(t)
  /\ BatchDone(t, "undelivered")
  /\ Orphan(t)

\* any other exception leaves _send_batch and ends the task
DrainDies(t) ==
  /\ Sending(t)
  /\ fut' = Resolve(fut, batch[t], "undelivered")
  /\ DrainExit(t, queued)
  /\ Orphan(t)
  /\ UNCHANGED <<queued, older, age, mode, reached>>

\* a turn that was left behind ends on the platform
OrphanEnds(s) ==
  /\ LoopFree
  /\ orphans[s] > 0
  /\ orphans' = [orphans EXCEPT ![s] = @ - 1]
  /\ UNCHANGED <<fut, queued, older, age, taskVars, mode, reached>>

(***************************************************************************)
(* stop() and start().                                                     *)
(***************************************************************************)

\* MUTANT of ClearQueues: the futures of the queued are forgotten
ForgetQueues ==
  /\ draining' = {} /\ queued' = {} /\ older' = {}
  /\ age' = [e \in Event |-> 0]
  /\ mode' = "stopped"
  /\ UNCHANGED <<fut, pc, sess, batch, orphans, reached>>

\* what stop() does once every drainer is gone
ClearQueues ==
  /\ draining' = {}
  /\ fut' = Resolve(fut, queued, "undelivered")
  /\ queued' = {}
  /\ older' = {}
  /\ age' = [e \in Event |-> 0]
  /\ mode' = "stopped"
  /\ UNCHANGED <<pc, sess, batch, orphans, reached>>

\* closed, every drainer cancelled; without a drainer there is no await
Stop ==
  /\ LoopFree
  /\ mode = "open"
  /\ IF Live = {}
     THEN ClearQueues
     ELSE /\ mode' = "stopping"
          /\ UNCHANGED <<fut, queued, older, age, taskVars, orphans, reached>>

\* MUTANT of Unwind: the batch of a cancelled drainer is not resolved
UnwindQuietly(t) ==
  /\ mode = "stopping"
  /\ pc[t] # "free"
  /\ draining' = IF pc[t] = "new" THEN draining ELSE draining \ {sess[t]}
  /\ pc' = [pc EXCEPT ![t] = "free"]
  /\ sess' = [sess EXCEPT ![t] = NoSession]
  /\ batch' = [batch EXCEPT ![t] = {}]
  /\ Orphan(t)
  /\ UNCHANGED <<fut, queued, older, age, mode, reached>>

\* CancelledError in a drainer: the finally of _send_batch and of _drain; a
\* task that never ran has entered neither
Unwind(t) ==
  /\ mode = "stopping"
  /\ pc[t] # "free"
  /\ fut' = Resolve(fut, batch[t], "undelivered")
  /\ draining' = IF pc[t] = "new" THEN draining ELSE draining \ {sess[t]}
  /\ pc' = [pc EXCEPT ![t] = "free"]
  /\ sess' = [sess EXCEPT ![t] = NoSession]
  /\ batch' = [batch EXCEPT ![t] = {}]
  /\ Orphan(t)
  /\ UNCHANGED <<queued, older, age, mode, reached>>

FinishStop ==
  /\ mode = "stopping"
  /\ Live = {}
  /\ ClearQueues

Start ==
  /\ mode = "stopped"
  /\ mode' = "open"
  /\ UNCHANGED <<fut, queued, older, age, taskVars, orphans, reached>>

\* time.monotonic() moves on; an age above TTL is as good as any
Tick ==
  /\ LoopFree
  /\ \E e \in queued : age[e] <= TTL
  /\ age' = [e \in Event |-> IF e \in queued /\ age[e] <= TTL THEN age[e] + 1 ELSE age[e]]
  /\ UNCHANGED <<fut, queued, older, taskVars, mode, orphans, reached>>

Init ==
  /\ fut = [e \in Event |-> "idle"]
  /\ queued = {}
  /\ older = {}
  /\ age = [e \in Event |-> 0]
  /\ draining = {}
  /\ pc = [t \in Task |-> "free"]
  /\ sess = [t \in Task |-> NoSession]
  /\ batch = [t \in Task |-> {}]
  /\ mode = "open"
  /\ orphans = [s \in Session |-> 0]
  /\ reached = {}

Next ==
  \/ \E e \in Event : Dispatch(e) \/ GiveUp(e)
  \/ \E t \in Task : \/ TakeBatch(t) \/ PlatformStarts(t) \/ TurnEnds(t)
                     \/ TurnTimesOut(t) \/ SendFails(t) \/ DrainDies(t) \/ Unwind(t)
  \/ \E s \in Session : OrphanEnds(s)
  \/ Stop \/ FinishStop \/ Start \/ Tick

Spec == Init /\ [][Next]_vars

\* The event loop runs ready tasks in the order they became ready, so none is
\* passed over for ever (strong: another drainer may hold the loop in
\* between); send_turn has a time limit; time passes.
Fairness ==
  /\ \A t \in Task :
       /\ SF_vars(TakeBatch(t))
       /\ SF_vars(TurnEnds(t) \/ TurnTimesOut(t) \/ SendFails(t) \/ DrainDies(t))
       /\ WF_vars(Unwind(t))
  /\ WF_vars(FinishStop)
  /\ SF_vars(Tick)

FairSpec == Spec /\ Fairness

-----------------------------------------------------------------------------
(***************************************************************************)
(* Properties.                                                             *)
(***************************************************************************)

\* Every variable has its type.
TypeOK ==
  /\ fut \in [Event -> {"idle", "pending", "delivered", "undelivered", "cancelled"}]
  /\ queued \subseteq Event
  /\ older \subseteq queued \X queued
  /\ age \in [Event -> 0 .. TTL + 1]
  /\ draining \subseteq Session
  /\ pc \in [Task -> {"free", "new", "loop", "sending", "running"}]
  /\ sess \in [Task -> Session]
  /\ batch \in [Task -> SUBSET Event]
  /\ mode \in {"open", "stopping", "stopped"}
  /\ orphans \in [Session -> 0 .. MaxTurns]
  /\ reached \subseteq Event

\* A delivered future never hangs: as long as it is pending its event is in a
\* queue or in the batch of a live drainer (the promise of _QueuedEvent on
\* every path that drops or sends an event).
NoDanglingFuture == \A e \in Event : fut[e] = "pending" => e \in Held

\* _kick is single-flight: no session ever has two drainers.
SingleFlight ==
  \A t, u \in Live : sess[t] = sess[u] => t = u

\* No lost wakeup: while the dispatcher is open, a session with queued events
\* has a drainer (the second kick in the finally of _drain).
QueueIsServed ==
  mode = "open" => \A e \in queued : \E t \in Live : sess[t] = Route[e]

\* An event is in one place: not queued while it is sent, not in two batches.
HeldOnce ==
  \A t \in Live : /\ batch[t] \cap queued = {}
                  /\ \A u \in Live \ {t} : batch[t] \cap batch[u] = {}

\* The delivered future is true only of an event whose turn the platform took.
DeliveredWasReached == \A e \in Event : fut[e] = "delivered" => e \in reached

\* stop() leaves nothing behind: no drainer, no queued event, no open future.
StoppedIsClean ==
  mode = "stopped" => /\ Live = {} /\ draining = {} /\ queued = {}
                      /\ \A e \in Event : fut[e] # "pending"

\* A turn never carries an event that had outlived its TTL when the batch was
\* taken, however long it queued behind other turns.
NoZombieSent ==
  [][\A t \in Task : \A e \in batch'[t] \ batch[t] : TTL > 0 => age[e] <= TTL]_vars

\* Who makes room when the cap is exceeded: whatever dispatch() drops before
\* its time was no more urgent than any event it keeps in that session, and
\* among equals it was the one enqueued first.
EvictsLeastUrgent ==
  [][\A e \in Event : Dispatch(e) /\ ~Closed =>
       \A d \in (queued \cup {e}) \ queued', k \in queued' :
         Route[k] = Route[d] =>
           \/ Expired(d, age)
           \/ Priority[d] > Priority[k]
           \/ Priority[d] = Priority[k] /\ Intra[d] > Intra[k]
           \/ /\ Priority[d] = Priority[k] /\ Intra[d] = Intra[k]
              /\ k = e \/ <<d, k>> \in older]_vars

\* Every call gets an answer, the least urgent type of a busy session included:
\* the TTL ends what priority would starve.
EveryFutureResolves == \A e \in Event : fut[e] = "pending" ~> fut[e] # "pending"

\* The module's promise to producers: one turn in flight per session on the
\* platform side (the docstring of dispatcher.py).
PlatformSingleFlight ==
  \A s \in Session :
    orphans[s] + Cardinality({t \in Task : pc[t] = "running" /\ sess[t] = s}) <= 1

\* what a producer sees of the drainers: the events each session is sending
Turns ==
  [s \in Session |->
    UNION {batch[t] : t \in {u \in Task : pc[u] \in {"sending", "running"} /\ sess[u] = s}}]

\* The dispatcher seen by a producer: an abstract mailbox.
Mailbox == INSTANCE SessionMailbox WITH fate <- fut, waiting <- queued, turn <- Turns

\* Every step of the dispatcher is one of the mailbox or invisible to it.
ImplementsMailbox == Mailbox!Spec
=============================================================================
