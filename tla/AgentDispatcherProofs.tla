------------------------ MODULE AgentDispatcherProofs ------------------------
(***************************************************************************)
(* Theorems about AgentDispatcher for every set of events, sessions and    *)
(* tasks, every route, cap and TTL.                                        *)
(***************************************************************************)
EXTENDS AgentDispatcher, FiniteSetTheorems, TLAPS

-----------------------------------------------------------------------------
(* The inductive invariant. *)

\* A drainer outside _send_batch carries no batch.
BatchesIdle == \A t \in Task : pc[t] \notin {"sending", "running"} => batch[t] = {}

\* A drainer waiting for the platform's answer has had its events taken there.
RunningReached == \A t \in Task : pc[t] = "running" => batch[t] \subseteq reached

\* _draining names the session of every drainer ...
DrainersRegistered == \A t \in Live : sess[t] \in draining

\* ... and, until stop() is called, no other.
DrainingIsLive ==
  mode = "open" => \A s \in draining : \E t \in Live : sess[t] = s

IInv ==
  /\ TypeOK
  /\ BatchesIdle
  /\ RunningReached
  /\ DrainersRegistered
  /\ DrainingIsLive
  /\ SingleFlight
  /\ HeldOnce
  /\ NoDanglingFuture
  /\ QueueIsServed
  /\ DeliveredWasReached
  /\ StoppedIsClean

-----------------------------------------------------------------------------
(* Facts about the helpers. *)

LEMMA NoSessionType == NoSession \in Session
BY SessionAssumption DEF NoSession

\* A resolved future map has the type of one, differs from the old one in the
\* pending futures of E only, and leaves none of those pending.
LEMMA ResolveFacts ==
  ASSUME NEW f \in [Event -> {"idle", "pending", "delivered", "undelivered", "cancelled"}],
         NEW E, NEW v \in Outcome
  PROVE  /\ Resolve(f, E, v) \in [Event -> {"idle", "pending", "delivered", "undelivered", "cancelled"}]
         /\ \A e \in Event : Resolve(f, E, v)[e] = "pending" <=> f[e] = "pending" /\ e \notin E
         /\ \A e \in Event : Resolve(f, E, v)[e] = "delivered"
                               => f[e] = "delivered" \/ (v = "delivered" /\ e \in E)
BY DEF Resolve, Outcome

LEMMA ResolveUndelivered ==
  ASSUME NEW f \in [Event -> {"idle", "pending", "delivered", "undelivered", "cancelled"}], NEW E
  PROVE  /\ Resolve(f, E, "undelivered") \in [Event -> {"idle", "pending", "delivered", "undelivered", "cancelled"}]
         /\ \A e \in Event : Resolve(f, E, "undelivered")[e] = "pending" <=> f[e] = "pending" /\ e \notin E
         /\ \A e \in Event : Resolve(f, E, "undelivered")[e] = "delivered" => f[e] = "delivered"
BY ResolveFacts DEF Outcome

-----------------------------------------------------------------------------
(* Type correctness. *)

LEMMA DequeueType ==
  ASSUME TypeOK, NEW D, Dequeue(D)
  PROVE  /\ queued' \subseteq queued
         /\ older' \subseteq queued' \X queued'
         /\ age' \in [Event -> 0 .. TTL + 1]
BY BoundAssumption DEF TypeOK, Dequeue, Among

LEMMA KickType ==
  ASSUME TypeOK, NEW s \in Session, Kick(s)
  PROVE  /\ draining' \subseteq Session
         /\ pc' \in [Task -> {"free", "new", "loop", "sending", "running"}]
         /\ sess' \in [Task -> Session]
         /\ batch' \in [Task -> SUBSET Event]
BY DEF TypeOK, Kick, taskVars

LEMMA DrainExitType ==
  ASSUME TypeOK, NEW t \in Task, NEW Q, DrainExit(t, Q)
  PROVE  /\ draining' \subseteq Session
         /\ pc' \in [Task -> {"free", "new", "loop", "sending", "running"}]
         /\ sess' \in [Task -> Session]
         /\ batch' \in [Task -> SUBSET Event]
BY NoSessionType DEF TypeOK, DrainExit

LEMMA OrphanType ==
  ASSUME TypeOK, NEW t \in Task, Orphan(t)
  PROVE  orphans' \in [Session -> 0 .. MaxTurns]
BY BoundAssumption DEF TypeOK, Orphan

LEMMA BatchDoneType ==
  ASSUME TypeOK, NEW t \in Task, NEW v \in Outcome, BatchDone(t, v),
         orphans' \in [Session -> 0 .. MaxTurns]
  PROVE  TypeOK'
<1>1. fut' \in [Event -> {"idle", "pending", "delivered", "undelivered", "cancelled"}]
  BY ResolveFacts DEF TypeOK, BatchDone
<1>. QED
  BY <1>1 DEF TypeOK, BatchDone

LEMMA EnqueueType ==
  ASSUME TypeOK, NEW e \in Event, Enqueue(e)
  PROVE  /\ queued' \subseteq Event
         /\ older' \subseteq queued' \X queued'
         /\ age' \in [Event -> 0 .. TTL + 1]
         /\ fut' \in [Event -> {"idle", "pending", "delivered", "undelivered", "cancelled"}]
<1> DEFINE a == [age EXCEPT ![e] = 0]
           ord == older \cup (QueueOf(Route[e]) \X {e})
           arrived == QueueOf(Route[e]) \cup {e}
           kept == WithinCap({d \in arrived : ~Expired(d, a)}, ord)
           f == [fut EXCEPT ![e] = "pending"]
<1>1. kept \subseteq arrived /\ arrived \subseteq Event
  BY DEF WithinCap, QueueOf, TypeOK
<1>2. queued' = (queued \ arrived) \cup kept
  BY DEF Enqueue
<1>3. queued' \subseteq Event
  BY <1>1, <1>2 DEF TypeOK
<1>4. older' \subseteq queued' \X queued'
  BY DEF Enqueue, Among
<1>5. a \in [Event -> 0 .. TTL + 1]
  BY BoundAssumption DEF TypeOK
<1>6. age' = [d \in Event |-> IF d \in queued' THEN a[d] ELSE 0]
  BY DEF Enqueue
<1>7. age' \in [Event -> 0 .. TTL + 1]
  BY <1>5, <1>6, BoundAssumption
<1>8. f \in [Event -> {"idle", "pending", "delivered", "undelivered", "cancelled"}]
  BY DEF TypeOK
<1>9. fut' = Resolve(f, arrived \ kept, "undelivered")
  BY DEF Enqueue
<1>10. fut' \in [Event -> {"idle", "pending", "delivered", "undelivered", "cancelled"}]
  <2>. HIDE DEF f, arrived, kept
  <2>. QED  BY <1>8, <1>9, ResolveUndelivered
<1>. QED
  BY <1>3, <1>4, <1>7, <1>10

LEMMA TakeBatchType ==
  ASSUME TypeOK, NEW t \in Task, TakeBatch(t)
  PROVE  TypeOK'
<1> DEFINE q == QueueOf(sess[t])
           expired == {e \in q : Expired(e, age)}
           f == Resolve(fut, expired, "undelivered")
<1>1. f \in [Event -> {"idle", "pending", "delivered", "undelivered", "cancelled"}]
  BY ResolveUndelivered DEF TypeOK
<1>2. UNCHANGED <<mode, orphans, reached>>
  BY DEF TakeBatch
<1>3. CASE Dequeue(expired) /\ fut' = f /\ DrainExit(t, queued')
  <2>. DEFINE Q == queued'
  <2>1. DrainExit(t, Q)
    BY <1>3
  <2>. QED
    BY <1>1, <1>2, <1>3, <2>1, DequeueType, DrainExitType DEF TypeOK
<1>4. ASSUME NEW p \in Picked(q \ expired),
             Dequeue(expired \cup BatchOf(q \ expired, p)),
             \/ /\ pc' = [pc EXCEPT ![t] = "loop"]
                /\ fut' = Resolve(f, BatchOf(q \ expired, p), "undelivered")
                /\ batch' = batch
             \/ /\ pc' = [pc EXCEPT ![t] = "sending"]
                /\ fut' = f
                /\ batch' = [batch EXCEPT ![t] = BatchOf(q \ expired, p)],
             UNCHANGED <<draining, sess>>
      PROVE  TypeOK'
  <2>1. BatchOf(q \ expired, p) \subseteq Event
    BY DEF BatchOf, QueueOf, TypeOK
  <2>2. fut' \in [Event -> {"idle", "pending", "delivered", "undelivered", "cancelled"}]
    BY <1>1, <1>4, ResolveUndelivered
  <2>. QED
    BY <1>2, <1>4, <2>1, <2>2, DequeueType DEF TypeOK
<1>. QED
  BY <1>3, <1>4 DEF TakeBatch

LEMMA TypeInit == Init => TypeOK
BY NoSessionType, BoundAssumption DEF Init, TypeOK

LEMMA TypeStep == TypeOK /\ [Next]_vars => TypeOK'
<1>. SUFFICES ASSUME TypeOK, [Next]_vars PROVE TypeOK'
  OBVIOUS
<1>1. ASSUME NEW e \in Event, Dispatch(e)
      PROVE  TypeOK'
  <2>1. CASE Enqueue(e)
    <3>1. Route[e] \in Session
      BY RouteAssumption
    <3>2. Kick(Route[e]) /\ UNCHANGED <<mode, orphans>> /\ reached' = reached \ {e}
      BY <1>1, <2>1 DEF Enqueue, Dispatch
    <3>. QED
      BY <2>1, <3>1, <3>2, EnqueueType, KickType DEF TypeOK
  <2>2. CASE Refuse(e)
    BY <1>1, <2>2 DEF Dispatch, Refuse, TypeOK, taskVars
  <2>. QED
    BY <1>1, <2>1, <2>2 DEF Dispatch
<1>2. ASSUME NEW e \in Event, GiveUp(e)
      PROVE  TypeOK'
  BY <1>2 DEF GiveUp, TypeOK, taskVars
<1>3. ASSUME NEW t \in Task, TakeBatch(t)
      PROVE  TypeOK'
  BY <1>3, TakeBatchType
<1>4. ASSUME NEW t \in Task, PlatformStarts(t)
      PROVE  TypeOK'
  BY <1>4 DEF PlatformStarts, TypeOK
<1>5. ASSUME NEW t \in Task, TurnEnds(t)
      PROVE  TypeOK'
  BY <1>5, BatchDoneType DEF TurnEnds, TypeOK
<1>6. ASSUME NEW t \in Task, TurnTimesOut(t)
      PROVE  TypeOK'
  BY <1>6, BatchDoneType, OrphanType DEF TurnTimesOut, Outcome
<1>7. ASSUME NEW t \in Task, SendFails(t)
      PROVE  TypeOK'
  BY <1>7, BatchDoneType, OrphanType DEF SendFails, Outcome
<1>8. ASSUME NEW t \in Task, DrainDies(t)
      PROVE  TypeOK'
  <2>1. fut' \in [Event -> {"idle", "pending", "delivered", "undelivered", "cancelled"}]
    BY <1>8, ResolveUndelivered DEF DrainDies, TypeOK
  <2>. QED
    BY <1>8, <2>1, DrainExitType, OrphanType DEF DrainDies, TypeOK
<1>9. ASSUME NEW t \in Task, Unwind(t)
      PROVE  TypeOK'
  <2>1. fut' \in [Event -> {"idle", "pending", "delivered", "undelivered", "cancelled"}]
    BY <1>9, ResolveUndelivered DEF Unwind, TypeOK
  <2>. QED
    BY <1>9, <2>1, OrphanType, NoSessionType DEF Unwind, TypeOK
<1>10. ASSUME NEW s \in Session, OrphanEnds(s)
       PROVE  TypeOK'
  BY <1>10, BoundAssumption DEF OrphanEnds, TypeOK, taskVars
<1>11. ASSUME ClearQueues
       PROVE  TypeOK'
  <2>1. fut' \in [Event -> {"idle", "pending", "delivered", "undelivered", "cancelled"}]
    BY <1>11, ResolveUndelivered DEF ClearQueues, TypeOK
  <2>. QED
    BY <1>11, <2>1, BoundAssumption DEF ClearQueues, TypeOK
<1>12. CASE Stop
  BY <1>11, <1>12 DEF Stop, TypeOK, taskVars
<1>13. CASE FinishStop
  BY <1>11, <1>13 DEF FinishStop
<1>14. CASE Start
  BY <1>14 DEF Start, TypeOK, taskVars
<1>15. CASE Tick
  BY <1>15, BoundAssumption DEF Tick, TypeOK, taskVars
<1>16. CASE UNCHANGED vars
  BY <1>16 DEF TypeOK, vars
<1>. QED
  BY <1>1, <1>2, <1>3, <1>4, <1>5, <1>6, <1>7, <1>8, <1>9, <1>10,
     <1>12, <1>13, <1>14, <1>15, <1>16 DEF Next

\* Every variable keeps its type, whatever the events, sessions and limits.
THEOREM TypeCorrect == Spec => []TypeOK
BY TypeInit, TypeStep, PTL DEF Spec

-----------------------------------------------------------------------------
(* Drainers: which steps keep _draining in step with the tasks.            *)

DrainInv == BatchesIdle /\ DrainersRegistered /\ DrainingIsLive /\ SingleFlight

\* A kick keeps every drainer known and alone in its session, and the kicked
\* session has one afterwards.
LEMMA KickDrain ==
  ASSUME TypeOK, DrainInv, NEW s \in Session, mode = "open", Kick(s), UNCHANGED mode
  PROVE  /\ DrainInv'
         /\ Live \subseteq Live'
         /\ \A t \in Live : sess'[t] = sess[t] /\ batch'[t] = batch[t] /\ pc'[t] = pc[t]
         /\ \A t \in Live' \ Live : batch'[t] = {} /\ pc'[t] = "new"
         /\ \E t \in Live' : sess'[t] = s
<1>1. CASE s \in draining
  BY <1>1 DEF Kick, taskVars, DrainInv, BatchesIdle, DrainersRegistered, DrainingIsLive, SingleFlight, Live
<1>2. CASE s \notin draining
  <2>1. PICK t \in Task \ Live : /\ draining' = draining \cup {s}
                                 /\ pc' = [pc EXCEPT ![t] = "new"]
                                 /\ sess' = [sess EXCEPT ![t] = s]
                                 /\ batch' = [batch EXCEPT ![t] = {}]
    BY <1>2 DEF Kick
  <2>2. Live' = Live \cup {t}
    BY <2>1 DEF Live, TypeOK
  <2>3. \A u \in Live : sess'[u] = sess[u] /\ batch'[u] = batch[u] /\ pc'[u] = pc[u]
    BY <2>1 DEF Live, TypeOK
  <2>4. sess'[t] = s /\ batch'[t] = {} /\ pc'[t] = "new"
    BY <2>1 DEF TypeOK
  <2>5. BatchesIdle'
    BY <2>1 DEF DrainInv, BatchesIdle, TypeOK
  <2>6. DrainersRegistered'
    BY <2>1, <2>2, <2>3, <2>4 DEF DrainInv, DrainersRegistered
  <2>7. DrainingIsLive'
    BY <2>1, <2>2, <2>3, <2>4 DEF DrainInv, DrainingIsLive
  <2>8. SingleFlight'
    BY <1>2, <2>2, <2>3, <2>4 DEF DrainInv, DrainersRegistered, SingleFlight
  <2>. QED
    BY <2>2, <2>3, <2>4, <2>5, <2>6, <2>7, <2>8 DEF DrainInv
<1>. QED
  BY <1>1, <1>2

\* A drainer that ends gives its session up, or is succeeded at once when the
\* dispatcher is open and events of the session remain.
LEMMA ExitDrain ==
  ASSUME TypeOK, DrainInv, NEW t \in Live, NEW Q, DrainExit(t, Q), UNCHANGED mode
  PROVE  /\ DrainInv'
         /\ Live' \subseteq Live
         /\ \A u \in Live \ {t} : u \in Live' /\ sess'[u] = sess[u] /\ batch'[u] = batch[u] /\ pc'[u] = pc[u]
         /\ batch'[t] = {} /\ pc'[t] \in {"new", "free"}
         /\ mode = "open" /\ (\E e \in Q : Route[e] = sess[t]) => t \in Live' /\ sess'[t] = sess[t]
<1>1. CASE mode = "open" /\ \E e \in Q : Route[e] = sess[t]
  <2>1. /\ draining' = draining
        /\ pc' = [pc EXCEPT ![t] = "new"]
        /\ sess' = [sess EXCEPT ![t] = sess[t]]
        /\ batch' = [batch EXCEPT ![t] = {}]
    BY <1>1 DEF DrainExit
  <2>2. Live' = Live /\ sess' = sess
    BY <2>1 DEF Live, TypeOK
  <2>3. DrainInv'
    BY <2>1, <2>2 DEF DrainInv, BatchesIdle, DrainersRegistered, DrainingIsLive, SingleFlight, TypeOK, Live
  <2>. QED
    BY <2>1, <2>2, <2>3 DEF Live, TypeOK
<1>2. CASE ~(mode = "open" /\ \E e \in Q : Route[e] = sess[t])
  <2>1. /\ draining' = draining \ {sess[t]}
        /\ pc' = [pc EXCEPT ![t] = "free"]
        /\ sess' = [sess EXCEPT ![t] = NoSession]
        /\ batch' = [batch EXCEPT ![t] = {}]
    BY <1>2 DEF DrainExit
  <2>2. Live' = Live \ {t}
    BY <2>1 DEF Live, TypeOK
  <2>3. \A u \in Live \ {t} : sess'[u] = sess[u] /\ batch'[u] = batch[u] /\ pc'[u] = pc[u]
    BY <2>1 DEF Live, TypeOK
  <2>4. BatchesIdle'
    BY <2>1 DEF DrainInv, BatchesIdle, TypeOK
  <2>5. DrainersRegistered'
    BY <2>1, <2>2, <2>3 DEF DrainInv, DrainersRegistered, SingleFlight
  <2>6. DrainingIsLive'
    BY <2>1, <2>2, <2>3 DEF DrainInv, DrainingIsLive
  <2>7. SingleFlight'
    BY <2>2, <2>3 DEF DrainInv, SingleFlight
  <2>. QED
    BY <1>2, <2>1, <2>2, <2>3, <2>4, <2>5, <2>6, <2>7 DEF DrainInv, TypeOK, Live
<1>. QED
  BY <1>1, <1>2

\* A task that stays where it is, or moves on inside the loop of _drain, keeps
\* its session.
LEMMA MoveDrain ==
  ASSUME TypeOK, DrainInv, NEW t \in Live, NEW l \in {"loop", "sending", "running"},
         NEW B, l = "loop" => B = {},
         pc' = [pc EXCEPT ![t] = l], batch' = [batch EXCEPT ![t] = B],
         UNCHANGED <<draining, sess, mode>>
  PROVE  DrainInv' /\ Live' = Live
<1>1. Live' = Live
  BY DEF Live, TypeOK
<1>. QED
  BY <1>1 DEF DrainInv, BatchesIdle, DrainersRegistered, DrainingIsLive, SingleFlight, TypeOK

-----------------------------------------------------------------------------
(* The steps of dispatch().                                                *)

LEMMA EnqueueStep ==
  ASSUME IInv, TypeOK', NEW e \in Event, e \notin Held, mode = "open",
         reached' = reached \ {e}, Enqueue(e)
  PROVE  IInv'
<1> DEFINE s == Route[e]
           a == [age EXCEPT ![e] = 0]
           ord == older \cup (QueueOf(s) \X {e})
           arrived == QueueOf(s) \cup {e}
           kept == WithinCap({d \in arrived : ~Expired(d, a)}, ord)
           f == [fut EXCEPT ![e] = "pending"]
<1>1. s \in Session /\ TypeOK /\ DrainInv /\ Kick(s) /\ UNCHANGED mode
  BY RouteAssumption DEF IInv, DrainInv, Enqueue
<1>2. /\ DrainInv'
      /\ Live \subseteq Live'
      /\ \A t \in Live : sess'[t] = sess[t] /\ batch'[t] = batch[t] /\ pc'[t] = pc[t]
      /\ \A t \in Live' \ Live : batch'[t] = {} /\ pc'[t] = "new"
      /\ \E t \in Live' : sess'[t] = s
  <2>. HIDE DEF s
  <2>. QED  BY <1>1, KickDrain
<1>3. kept \subseteq arrived
  BY DEF WithinCap
<1>4. queued' = (queued \ arrived) \cup kept
  BY DEF Enqueue
<1>5. InBatch' = InBatch
  BY <1>2 DEF InBatch
<1>6. e \notin queued /\ \A t \in Live : e \notin batch[t]
  BY DEF Held, InBatch
<1>7. \A d \in Event : /\ fut'[d] = "pending" <=> f[d] = "pending" /\ d \notin arrived \ kept
                       /\ fut'[d] = "delivered" => f[d] = "delivered"
  <2>1. f \in [Event -> {"idle", "pending", "delivered", "undelivered", "cancelled"}]
    BY <1>1 DEF TypeOK
  <2>2. fut' = Resolve(f, arrived \ kept, "undelivered")
    BY DEF Enqueue
  <2>. HIDE DEF f, arrived, kept
  <2>. QED  BY <2>1, <2>2, ResolveUndelivered
<1>8. fut \in [Event -> {"idle", "pending", "delivered", "undelivered", "cancelled"}]
  BY <1>1 DEF TypeOK
<1>9. HeldOnce'
  <2>1. queued' \subseteq queued \cup {e}
    BY <1>3, <1>4 DEF QueueOf
  <2>. QED  BY <1>2, <1>6, <2>1 DEF HeldOnce, IInv
<1>10. NoDanglingFuture'
  <2>. SUFFICES ASSUME NEW d \in Event, fut'[d] = "pending" PROVE d \in Held'
    BY DEF NoDanglingFuture
  <2>1. d \notin arrived \ kept /\ f[d] = "pending"
    BY <1>7
  <2>2. CASE d = e
    <3>1. d \in arrived
      BY <2>2
    <3>. HIDE DEF f, arrived, kept
    <3>. QED  BY <1>4, <2>1, <3>1 DEF Held
  <2>3. CASE d # e
    <3>1. fut[d] = "pending"
      BY <1>8, <2>1, <2>3
    <3>2. d \in queued \/ d \in InBatch
      BY <3>1 DEF IInv, NoDanglingFuture, Held
    <3>. HIDE DEF f, arrived, kept
    <3>. QED  BY <1>4, <1>5, <2>1, <3>2 DEF Held
  <2>. QED  BY <2>2, <2>3
<1>11. RunningReached'
  BY <1>1, <1>2, <1>6 DEF RunningReached, IInv, Live, TypeOK
<1>12. DeliveredWasReached'
  <2>. SUFFICES ASSUME NEW d \in Event, fut'[d] = "delivered" PROVE d \in reached'
    BY DEF DeliveredWasReached
  <2>1. d # e /\ fut[d] = "delivered"
    BY <1>7, <1>8
  <2>. QED  BY <2>1 DEF DeliveredWasReached, IInv
<1>13. QueueIsServed'
  <2>. SUFFICES ASSUME NEW d \in queued' PROVE \E t \in Live' : sess'[t] = Route[d]
    BY DEF QueueIsServed
  <2>1. CASE Route[d] = s
    BY <1>2, <2>1
  <2>2. CASE Route[d] # s
    <3>1. d \in queued
      BY <1>3, <1>4, <2>2 DEF QueueOf
    <3>. QED  BY <1>2, <3>1 DEF IInv, QueueIsServed
  <2>. QED  BY <2>1, <2>2
<1>14. StoppedIsClean'
  BY <1>1 DEF StoppedIsClean
<1>. QED
  BY <1>2, <1>9, <1>10, <1>11, <1>12, <1>13, <1>14 DEF IInv, DrainInv

LEMMA RefuseStep ==
  ASSUME IInv, TypeOK', NEW e \in Event, e \notin Held, Closed,
         reached' = reached \ {e}, Refuse(e)
  PROVE  IInv'
<1>1. UNCHANGED <<queued, draining, pc, sess, batch, mode>>
  BY DEF Refuse, taskVars
<1>2. Live' = Live /\ Held' = Held
  BY <1>1 DEF Live, Held, InBatch
<1>3. fut' = [fut EXCEPT ![e] = "undelivered"] /\ TypeOK
  BY DEF Refuse, IInv
<1>4. RunningReached'
  <2>1. \A t \in Task : pc[t] = "running" => e \notin batch[t]
    BY DEF Held, InBatch, Live
  <2>. QED  BY <1>1, <2>1 DEF IInv, RunningReached
<1>5. NoDanglingFuture' /\ DeliveredWasReached' /\ StoppedIsClean'
  BY <1>1, <1>2, <1>3 DEF IInv, TypeOK, NoDanglingFuture, DeliveredWasReached, StoppedIsClean
<1>6. BatchesIdle' /\ DrainersRegistered' /\ DrainingIsLive' /\ SingleFlight' /\ HeldOnce' /\ QueueIsServed'
  BY <1>1, <1>2 DEF IInv, BatchesIdle, DrainersRegistered, DrainingIsLive, SingleFlight, HeldOnce, QueueIsServed
<1>. QED
  BY <1>4, <1>5, <1>6 DEF IInv

-----------------------------------------------------------------------------
(* The steps of a drainer.                                                 *)

\* Events leave the queue only, the batch goes to what the drainer sends or
\* is resolved.
LEMMA TakeBatchStep ==
  ASSUME IInv, TypeOK', NEW t \in Task, TakeBatch(t)
  PROVE  IInv'
<1> DEFINE q == QueueOf(sess[t])
           expired == {e \in q : Expired(e, age)}
           f == Resolve(fut, expired, "undelivered")
<1>1. TypeOK /\ DrainInv /\ t \in Live /\ UNCHANGED <<mode, orphans, reached>>
  BY DEF IInv, DrainInv, TakeBatch, Live
<1>2. /\ f \in [Event -> {"idle", "pending", "delivered", "undelivered", "cancelled"}]
      /\ \A e \in Event : f[e] = "pending" <=> fut[e] = "pending" /\ e \notin expired
      /\ \A e \in Event : f[e] = "delivered" => fut[e] = "delivered"
  BY <1>1, ResolveUndelivered DEF TypeOK
<1>3. mode # "stopped"
  BY <1>1 DEF IInv, StoppedIsClean
<1>4. batch[t] = {}
  BY <1>1 DEF TakeBatch, DrainInv, BatchesIdle
<1>5. ASSUME NEW D, Dequeue(D)
      PROVE  queued' = queued \ D
  BY <1>5 DEF Dequeue
<1>6. CASE q \ expired = {} /\ Dequeue(expired) /\ fut' = f /\ DrainExit(t, queued')
  <2> DEFINE Q == queued'
  <2>1. /\ DrainInv'
        /\ Live' \subseteq Live
        /\ \A u \in Live \ {t} : u \in Live' /\ sess'[u] = sess[u] /\ batch'[u] = batch[u] /\ pc'[u] = pc[u]
        /\ batch'[t] = {} /\ pc'[t] \in {"new", "free"}
    <3>1. DrainExit(t, Q)
      BY <1>6
    <3>. HIDE DEF Q
    <3>. QED  BY <1>1, <3>1, ExitDrain
  <2>2. queued' = queued \ expired
    BY <1>5, <1>6
  <2>3. InBatch' = InBatch
    BY <1>1, <1>4, <2>1 DEF InBatch
  <2>4. HeldOnce'
    BY <2>1, <2>2 DEF IInv, HeldOnce
  <2>5. NoDanglingFuture'
    BY <1>2, <1>6, <2>2, <2>3 DEF IInv, NoDanglingFuture, Held
  <2>6. RunningReached'
    BY <1>1, <2>1 DEF IInv, RunningReached, Live, TypeOK
  <2>7. DeliveredWasReached'
    BY <1>1, <1>2, <1>6 DEF IInv, DeliveredWasReached
  <2>8. QueueIsServed'
    <3>. SUFFICES ASSUME mode = "open", NEW d \in queued' PROVE \E u \in Live' : sess'[u] = Route[d]
      BY <1>1 DEF QueueIsServed
    <3>1. PICK u \in Live : sess[u] = Route[d]
      BY <2>2 DEF IInv, QueueIsServed
    <3>2. u # t
      BY <1>6, <2>2, <3>1 DEF QueueOf
    <3>. QED  BY <2>1, <3>1, <3>2
  <2>. QED
    BY <1>1, <1>3, <2>1, <2>4, <2>5, <2>6, <2>7, <2>8 DEF IInv, DrainInv, StoppedIsClean
<1>7. ASSUME NEW p \in Picked(q \ expired),
             Dequeue(expired \cup BatchOf(q \ expired, p)),
             \/ /\ pc' = [pc EXCEPT ![t] = "loop"]
                /\ fut' = Resolve(f, BatchOf(q \ expired, p), "undelivered")
                /\ batch' = batch
             \/ /\ pc' = [pc EXCEPT ![t] = "sending"]
                /\ fut' = f
                /\ batch' = [batch EXCEPT ![t] = BatchOf(q \ expired, p)],
             UNCHANGED <<draining, sess>>
      PROVE  IInv'
  <2> DEFINE B == BatchOf(q \ expired, p)
  <2>1. B \subseteq queued
    BY DEF BatchOf, QueueOf
  <2>2. queued' = queued \ (expired \cup B)
    BY <1>5, <1>7
  <2>3. ASSUME NEW l \in {"loop", "sending"}, NEW C \in SUBSET B,
               l = "loop" => C = {},
               pc' = [pc EXCEPT ![t] = l], batch' = [batch EXCEPT ![t] = C],
               \A e \in Event : /\ fut'[e] = "pending" => fut[e] = "pending" /\ e \notin expired /\ e \notin (B \ C)
                                /\ fut'[e] = "delivered" => fut[e] = "delivered"
        PROVE  IInv'
    <3>1. DrainInv' /\ Live' = Live
      BY <1>1, <1>7, <2>3, MoveDrain
    <3>2. \A u \in Task : batch'[u] = IF u = t THEN C ELSE batch[u]
      BY <1>1, <2>3 DEF TypeOK
    <3>3. HeldOnce'
      BY <1>1, <2>1, <2>2, <2>3, <3>1, <3>2 DEF IInv, HeldOnce, Live
    <3>4. NoDanglingFuture'
      <4>. SUFFICES ASSUME NEW e \in Event, fut'[e] = "pending" PROVE e \in Held'
        BY DEF NoDanglingFuture
      <4>0. e \notin expired /\ e \notin B \ C /\ fut[e] = "pending"
        <5>. HIDE DEF expired, B
        <5>. QED  BY <2>3
      <4>1. CASE e \in queued
        <5>. HIDE DEF expired, B
        <5>1. CASE e \in C
          BY <1>1, <3>1, <3>2, <5>1 DEF Held, InBatch, Live
        <5>2. CASE e \notin C
          BY <2>2, <4>0, <4>1, <5>2 DEF Held
        <5>. QED  BY <5>1, <5>2
      <4>2. CASE e \in InBatch
        <5>1. PICK u \in Live : e \in batch[u]
          BY <4>2 DEF InBatch
        <5>2. u # t
          BY <1>4, <5>1
        <5>. QED  BY <3>1, <3>2, <5>1, <5>2 DEF Held, InBatch, Live
      <4>3. e \in Held
        BY <4>0 DEF IInv, NoDanglingFuture
      <4>. QED  BY <4>1, <4>2, <4>3 DEF Held
    <3>5. RunningReached'
      BY <1>1, <2>3, <3>2 DEF IInv, RunningReached, TypeOK
    <3>6. DeliveredWasReached'
      BY <1>1, <2>3 DEF IInv, DeliveredWasReached
    <3>7. QueueIsServed'
      BY <1>1, <1>7, <2>2, <3>1 DEF IInv, QueueIsServed
    <3>. QED
      BY <1>1, <1>3, <3>1, <3>3, <3>4, <3>5, <3>6, <3>7 DEF IInv, DrainInv, StoppedIsClean
  <2>4. CASE /\ pc' = [pc EXCEPT ![t] = "loop"]
             /\ fut' = Resolve(f, B, "undelivered")
             /\ batch' = batch
    <3>1. \A e \in Event : /\ fut'[e] = "pending" <=> f[e] = "pending" /\ e \notin B
                           /\ fut'[e] = "delivered" => f[e] = "delivered"
      <4>. HIDE DEF f, B
      <4>. QED  BY <1>2, <2>4, ResolveUndelivered
    <3>2. batch' = [batch EXCEPT ![t] = {}]
      BY <1>1, <1>4, <2>4 DEF TypeOK
    <3>. DEFINE C == {}
    <3>3. C \in SUBSET B /\ batch' = [batch EXCEPT ![t] = C]
      BY <3>2
    <3>4. \A e \in Event : /\ fut'[e] = "pending" => fut[e] = "pending" /\ e \notin expired /\ e \notin (B \ C)
                           /\ fut'[e] = "delivered" => fut[e] = "delivered"
      <4>. HIDE DEF f, B, expired, C
      <4>. TAKE e \in Event
      <4>1. fut'[e] = "pending" => fut[e] = "pending" /\ e \notin expired /\ e \notin (B \ C)
        BY <1>2, <3>1
      <4>2. fut'[e] = "delivered" => fut[e] = "delivered"
        BY <1>2, <3>1
      <4>. QED  BY <4>1, <4>2
    <3>5. C = {}
      OBVIOUS
    <3>. HIDE DEF f, B, expired, C
    <3>. QED  BY <2>3, <2>4, <3>3, <3>4, <3>5
  <2>5. CASE /\ pc' = [pc EXCEPT ![t] = "sending"]
             /\ fut' = f
             /\ batch' = [batch EXCEPT ![t] = B]
    <3>. DEFINE C == B
    <3>1. \A e \in Event : /\ fut'[e] = "pending" => fut[e] = "pending" /\ e \notin expired /\ e \notin (B \ C)
                           /\ fut'[e] = "delivered" => fut[e] = "delivered"
      <4>. HIDE DEF f, B, expired
      <4>. QED  BY <1>2, <2>5
    <3>2. C \in SUBSET B /\ batch' = [batch EXCEPT ![t] = C]
      BY <2>5
    <3>. HIDE DEF f, B, expired, C
    <3>. QED  BY <2>3, <2>5, <3>1, <3>2
  <2>. QED
    BY <1>7, <2>4, <2>5
<1>. QED
  BY <1>6, <1>7 DEF TakeBatch

LEMMA PlatformStartsStep ==
  ASSUME IInv, TypeOK', NEW t \in Task, PlatformStarts(t)
  PROVE  IInv'
<1>1. /\ TypeOK /\ DrainInv /\ t \in Live
      /\ pc' = [pc EXCEPT ![t] = "running"]
      /\ reached' = reached \cup batch[t]
      /\ UNCHANGED <<fut, queued, draining, sess, batch, mode>>
  BY DEF IInv, DrainInv, PlatformStarts, Live
<1>2. DrainInv' /\ Live' = Live
  <2>. DEFINE l == "running"
              B == batch[t]
  <2>1. batch' = [batch EXCEPT ![t] = B] /\ l \in {"loop", "sending", "running"}
    BY <1>1 DEF TypeOK
  <2>2. l = "loop" => B = {}
    OBVIOUS
  <2>3. pc' = [pc EXCEPT ![t] = l]
    BY <1>1
  <2>. HIDE DEF l, B
  <2>. QED  BY <1>1, <2>1, <2>2, <2>3, MoveDrain
<1>3. Held' = Held
  BY <1>1, <1>2 DEF Held, InBatch
<1>4. NoDanglingFuture' /\ DeliveredWasReached' /\ QueueIsServed' /\ HeldOnce' /\ StoppedIsClean'
  BY <1>1, <1>2, <1>3
     DEF IInv, NoDanglingFuture, DeliveredWasReached, QueueIsServed, HeldOnce, StoppedIsClean
<1>5. RunningReached'
  BY <1>1 DEF IInv, RunningReached, TypeOK
<1>. QED
  BY <1>2, <1>4, <1>5 DEF IInv, DrainInv

\* The events of a drainer's batch are nowhere else, so when they leave it
\* resolved no future is left behind; S is the set of drainers afterwards.
LEMMA BatchLeaves ==
  ASSUME IInv, NEW t \in Live, NEW v \in Outcome, v = "delivered" => batch[t] \subseteq reached,
         fut' = Resolve(fut, batch[t], v), UNCHANGED <<queued, reached>>,
         \A u \in Live \ {t} : u \in Live' /\ batch'[u] = batch[u],
         Live' \subseteq Live, t \in Live' => batch'[t] = {}
  PROVE  NoDanglingFuture' /\ DeliveredWasReached' /\ HeldOnce'
<1>1. /\ \A e \in Event : fut'[e] = "pending" <=> fut[e] = "pending" /\ e \notin batch[t]
      /\ \A e \in Event : fut'[e] = "delivered" => fut[e] = "delivered" \/ (v = "delivered" /\ e \in batch[t])
  BY ResolveFacts DEF IInv, TypeOK
<1>2. NoDanglingFuture'
  <2>. SUFFICES ASSUME NEW e \in Event, fut'[e] = "pending" PROVE e \in Held'
    BY DEF NoDanglingFuture
  <2>1. e \notin batch[t] /\ (e \in queued \/ \E u \in Live : e \in batch[u])
    BY <1>1 DEF IInv, NoDanglingFuture, Held, InBatch
  <2>. QED  BY <2>1 DEF Held, InBatch
<1>3. DeliveredWasReached'
  BY <1>1 DEF IInv, DeliveredWasReached
<1>4. HeldOnce'
  BY DEF IInv, HeldOnce
<1>. QED
  BY <1>2, <1>3, <1>4

LEMMA BatchDoneStep ==
  ASSUME IInv, TypeOK', NEW t \in Task, Sending(t), NEW v \in Outcome,
         v = "delivered" => batch[t] \subseteq reached, BatchDone(t, v)
  PROVE  IInv'
<1>1. /\ TypeOK /\ DrainInv /\ t \in Live /\ mode = "open"
      /\ pc' = [pc EXCEPT ![t] = "loop"] /\ batch' = [batch EXCEPT ![t] = {}]
      /\ fut' = Resolve(fut, batch[t], v)
      /\ UNCHANGED <<queued, draining, sess, mode, reached>>
  BY DEF IInv, DrainInv, Sending, BatchDone, Live
<1>2. DrainInv' /\ Live' = Live
  <2>. DEFINE l == "loop"
              B == {}
  <2>1. B = {} /\ l \in {"loop", "sending", "running"}
    OBVIOUS
  <2>2. pc' = [pc EXCEPT ![t] = l] /\ batch' = [batch EXCEPT ![t] = B]
    BY <1>1
  <2>. HIDE DEF l, B
  <2>. QED  BY <1>1, <2>1, <2>2, MoveDrain
<1>3. \A u \in Task : batch'[u] = IF u = t THEN {} ELSE batch[u]
  BY <1>1 DEF TypeOK
<1>4. NoDanglingFuture' /\ DeliveredWasReached' /\ HeldOnce'
  BY <1>1, <1>2, <1>3, BatchLeaves DEF Live
<1>5. QueueIsServed' /\ StoppedIsClean'
  BY <1>1, <1>2 DEF IInv, QueueIsServed, StoppedIsClean
<1>6. RunningReached'
  BY <1>1, <1>3 DEF IInv, RunningReached, TypeOK
<1>. QED
  BY <1>2, <1>4, <1>5, <1>6 DEF IInv, DrainInv

LEMMA DrainDiesStep ==
  ASSUME IInv, TypeOK', NEW t \in Task, DrainDies(t)
  PROVE  IInv'
<1>1. /\ TypeOK /\ DrainInv /\ t \in Live /\ mode = "open"
      /\ DrainExit(t, queued)
      /\ fut' = Resolve(fut, batch[t], "undelivered")
      /\ UNCHANGED <<queued, mode, reached>>
  BY DEF IInv, DrainInv, DrainDies, Sending, Live
<1>2. /\ DrainInv'
      /\ Live' \subseteq Live
      /\ \A u \in Live \ {t} : u \in Live' /\ sess'[u] = sess[u] /\ batch'[u] = batch[u] /\ pc'[u] = pc[u]
      /\ batch'[t] = {} /\ pc'[t] \in {"new", "free"}
      /\ (\E e \in queued : Route[e] = sess[t]) => t \in Live' /\ sess'[t] = sess[t]
  BY <1>1, ExitDrain
<1>3. NoDanglingFuture' /\ DeliveredWasReached' /\ HeldOnce'
  <2>. DEFINE v == "undelivered"
  <2>1. v \in Outcome /\ v # "delivered" /\ fut' = Resolve(fut, batch[t], v)
    BY <1>1 DEF Outcome
  <2>. HIDE DEF v
  <2>. QED  BY <1>1, <1>2, <2>1, BatchLeaves
<1>4. QueueIsServed'
  BY <1>1, <1>2 DEF IInv, QueueIsServed
<1>5. RunningReached'
  BY <1>1, <1>2 DEF IInv, RunningReached, Live, TypeOK
<1>6. StoppedIsClean'
  BY <1>1 DEF StoppedIsClean
<1>. QED
  BY <1>2, <1>3, <1>4, <1>5, <1>6 DEF IInv, DrainInv

LEMMA UnwindStep ==
  ASSUME IInv, TypeOK', NEW t \in Task, Unwind(t)
  PROVE  IInv'
<1>1. /\ TypeOK /\ t \in Live /\ mode = "stopping"
      /\ fut' = Resolve(fut, batch[t], "undelivered")
      /\ draining' = draining \/ draining' = draining \ {sess[t]}
      /\ pc' = [pc EXCEPT ![t] = "free"]
      /\ sess' = [sess EXCEPT ![t] = NoSession]
      /\ batch' = [batch EXCEPT ![t] = {}]
      /\ UNCHANGED <<queued, mode, reached>>
  BY DEF IInv, Unwind, Live
<1>2. Live' = Live \ {t}
  BY <1>1 DEF Live, TypeOK
<1>3. \A u \in Live \ {t} : sess'[u] = sess[u] /\ batch'[u] = batch[u] /\ pc'[u] = pc[u]
  BY <1>1 DEF Live, TypeOK
<1>4. NoDanglingFuture' /\ DeliveredWasReached' /\ HeldOnce'
  <2>. DEFINE v == "undelivered"
  <2>1. v \in Outcome /\ v # "delivered" /\ fut' = Resolve(fut, batch[t], v)
    BY <1>1 DEF Outcome
  <2>. HIDE DEF v
  <2>. QED  BY <1>1, <1>2, <1>3, <2>1, BatchLeaves
<1>5. DrainersRegistered' /\ SingleFlight'
  BY <1>1, <1>2, <1>3 DEF IInv, DrainersRegistered, SingleFlight
<1>6. BatchesIdle' /\ RunningReached'
  BY <1>1 DEF IInv, BatchesIdle, RunningReached, TypeOK
<1>7. DrainingIsLive' /\ QueueIsServed' /\ StoppedIsClean'
  BY <1>1 DEF DrainingIsLive, QueueIsServed, StoppedIsClean
<1>. QED
  BY <1>4, <1>5, <1>6, <1>7 DEF IInv

-----------------------------------------------------------------------------
(* The other steps.                                                        *)

LEMMA GiveUpStep ==
  ASSUME IInv, TypeOK', NEW e \in Event, GiveUp(e)
  PROVE  IInv'
<1>1. /\ fut' = [fut EXCEPT ![e] = "cancelled"] /\ TypeOK
      /\ UNCHANGED <<queued, draining, pc, sess, batch, mode, reached>>
  BY DEF GiveUp, taskVars, IInv
<1>2. Live' = Live /\ Held' = Held
  BY <1>1 DEF Live, Held, InBatch
<1>3. NoDanglingFuture' /\ DeliveredWasReached' /\ StoppedIsClean'
  BY <1>1, <1>2 DEF IInv, TypeOK, NoDanglingFuture, DeliveredWasReached, StoppedIsClean
<1>4. BatchesIdle' /\ RunningReached' /\ DrainersRegistered' /\ DrainingIsLive'
  BY <1>1, <1>2 DEF IInv, BatchesIdle, RunningReached, DrainersRegistered, DrainingIsLive
<1>5. SingleFlight' /\ HeldOnce' /\ QueueIsServed'
  BY <1>1, <1>2 DEF IInv, SingleFlight, HeldOnce, QueueIsServed
<1>. QED
  BY <1>3, <1>4, <1>5 DEF IInv

LEMMA ClearStep ==
  ASSUME IInv, TypeOK', Live = {}, ClearQueues
  PROVE  IInv'
<1>1. /\ TypeOK /\ draining' = {} /\ queued' = {} /\ mode' = "stopped"
      /\ fut' = Resolve(fut, queued, "undelivered")
      /\ UNCHANGED <<pc, sess, batch, reached>>
  BY DEF IInv, ClearQueues
<1>2. Live' = {}
  BY <1>1 DEF Live
<1>3. /\ \A d \in Event : fut'[d] = "pending" <=> fut[d] = "pending" /\ d \notin queued
      /\ \A d \in Event : fut'[d] = "delivered" => fut[d] = "delivered"
  BY <1>1, ResolveUndelivered DEF TypeOK
<1>4. \A d \in Event : fut'[d] # "pending"
  BY <1>3 DEF IInv, NoDanglingFuture, Held, InBatch
<1>5. NoDanglingFuture' /\ StoppedIsClean' /\ DeliveredWasReached'
  BY <1>1, <1>2, <1>3, <1>4 DEF IInv, NoDanglingFuture, StoppedIsClean, DeliveredWasReached
<1>6. BatchesIdle' /\ RunningReached'
  BY <1>1 DEF IInv, BatchesIdle, RunningReached
<1>7. DrainersRegistered' /\ DrainingIsLive' /\ SingleFlight' /\ HeldOnce' /\ QueueIsServed'
  BY <1>1, <1>2 DEF DrainersRegistered, DrainingIsLive, SingleFlight, HeldOnce, QueueIsServed
<1>. QED
  BY <1>5, <1>6, <1>7 DEF IInv

\* A step that moves the clock or the platform only, or the mode between
\* "stopped" and its neighbours.
LEMMA ModeStep ==
  ASSUME IInv, TypeOK', UNCHANGED <<fut, queued, draining, pc, sess, batch, reached>>,
         \/ mode' = mode
         \/ mode = "open" /\ mode' = "stopping"
         \/ mode = "stopped" /\ mode' = "open"
  PROVE  IInv'
<1>1. Live' = Live /\ Held' = Held
  BY DEF Live, Held, InBatch
<1>2. NoDanglingFuture' /\ DeliveredWasReached' /\ StoppedIsClean'
  BY <1>1 DEF IInv, NoDanglingFuture, DeliveredWasReached, StoppedIsClean
<1>3. BatchesIdle' /\ RunningReached' /\ DrainersRegistered'
  BY <1>1 DEF IInv, BatchesIdle, RunningReached, DrainersRegistered
<1>4. DrainingIsLive' /\ QueueIsServed'
  BY <1>1 DEF IInv, StoppedIsClean, DrainingIsLive, QueueIsServed
<1>5. SingleFlight' /\ HeldOnce'
  BY <1>1 DEF IInv, SingleFlight, HeldOnce
<1>. QED
  BY <1>2, <1>3, <1>4, <1>5 DEF IInv

-----------------------------------------------------------------------------
(* The inductive invariant, and what follows from it.                      *)

LEMMA InvInit == Init => IInv
<1>. SUFFICES ASSUME Init PROVE IInv
  OBVIOUS
<1>1. TypeOK /\ Live = {} /\ queued = {} /\ draining = {} /\ mode = "open"
  BY TypeInit DEF Init, Live
<1>2. \A e \in Event : fut[e] = "idle"
  BY DEF Init
<1>3. \A t \in Task : pc[t] = "free" /\ batch[t] = {}
  BY DEF Init
<1>. QED
  BY <1>1, <1>2, <1>3
     DEF IInv, BatchesIdle, RunningReached, DrainersRegistered, DrainingIsLive, SingleFlight,
         HeldOnce, NoDanglingFuture, QueueIsServed, DeliveredWasReached, StoppedIsClean

LEMMA InvStep == IInv /\ [Next]_vars => IInv'
<1>. SUFFICES ASSUME IInv, [Next]_vars PROVE IInv'
  OBVIOUS
<1>1. TypeOK'
  BY TypeStep DEF IInv
<1>2. ASSUME NEW e \in Event, Dispatch(e)
      PROVE  IInv'
  <2>1. CASE Closed
    BY <1>1, <1>2, <2>1, RefuseStep DEF Dispatch
  <2>2. CASE ~Closed
    BY <1>1, <1>2, <2>2, EnqueueStep DEF Dispatch, Closed
  <2>. QED  BY <2>1, <2>2
<1>3. ASSUME NEW e \in Event, GiveUp(e)
      PROVE  IInv'
  BY <1>1, <1>3, GiveUpStep
<1>4. ASSUME NEW t \in Task, TakeBatch(t)
      PROVE  IInv'
  BY <1>1, <1>4, TakeBatchStep
<1>5. ASSUME NEW t \in Task, PlatformStarts(t)
      PROVE  IInv'
  BY <1>1, <1>5, PlatformStartsStep
<1>6. ASSUME NEW t \in Task, pc[t] = "running"
      PROVE  batch[t] \subseteq reached
  BY <1>6 DEF IInv, RunningReached
<1>7. ASSUME NEW t \in Task, TurnEnds(t)
      PROVE  IInv'
  BY <1>1, <1>6, <1>7, BatchDoneStep DEF TurnEnds
<1>8. ASSUME NEW t \in Task, TurnTimesOut(t)
      PROVE  IInv'
  <2>. DEFINE v == "delivered"
  <2>1. v \in Outcome /\ BatchDone(t, v) /\ Sending(t) /\ batch[t] \subseteq reached
    BY <1>6, <1>8 DEF TurnTimesOut, Outcome
  <2>. HIDE DEF v
  <2>. QED  BY <1>1, <1>8, <2>1, BatchDoneStep
<1>9. ASSUME NEW t \in Task, SendFails(t)
      PROVE  IInv'
  <2>. DEFINE v == "undelivered"
  <2>1. v \in Outcome /\ BatchDone(t, v) /\ Sending(t) /\ v # "delivered"
    BY <1>9 DEF SendFails, Outcome
  <2>. HIDE DEF v
  <2>. QED  BY <1>1, <1>9, <2>1, BatchDoneStep
<1>10. ASSUME NEW t \in Task, DrainDies(t)
       PROVE  IInv'
  BY <1>1, <1>10, DrainDiesStep
<1>11. ASSUME NEW t \in Task, Unwind(t)
       PROVE  IInv'
  BY <1>1, <1>11, UnwindStep
<1>12. ASSUME NEW s \in Session, OrphanEnds(s)
       PROVE  IInv'
  BY <1>1, <1>12, ModeStep DEF OrphanEnds, taskVars
<1>13. CASE Stop
  BY <1>1, <1>13, ClearStep, ModeStep DEF Stop, taskVars
<1>14. CASE FinishStop
  BY <1>1, <1>14, ClearStep DEF FinishStop
<1>15. CASE Start
  BY <1>1, <1>15, ModeStep DEF Start, taskVars
<1>16. CASE Tick
  BY <1>1, <1>16, ModeStep DEF Tick, taskVars
<1>17. CASE UNCHANGED vars
  BY <1>1, <1>17, ModeStep DEF vars
<1>. QED
  BY <1>2, <1>3, <1>4, <1>5, <1>7, <1>8, <1>9, <1>10, <1>11, <1>12,
     <1>13, <1>14, <1>15, <1>16, <1>17 DEF Next

\* The inductive invariant holds in every reachable state.
THEOREM Invariance == Spec => []IInv
BY InvInit, InvStep, PTL DEF Spec

\* A session never has two drainers.
THEOREM DrainersAreSingle == Spec => []SingleFlight
<1>1. IInv => SingleFlight
  BY DEF IInv
<1>. QED  BY <1>1, Invariance, PTL

\* A pending future always belongs to an event the dispatcher holds.
THEOREM FuturesAreHeld == Spec => []NoDanglingFuture
<1>1. IInv => NoDanglingFuture
  BY DEF IInv
<1>. QED  BY <1>1, Invariance, PTL

\* No event is queued twice, sent twice at once, or queued while it is sent.
THEOREM EventsAreHeldOnce == Spec => []HeldOnce
<1>1. IInv => HeldOnce
  BY DEF IInv
<1>. QED  BY <1>1, Invariance, PTL

\* While the dispatcher is open a queued event has a drainer on its way.
THEOREM NoLostWakeup == Spec => []QueueIsServed
<1>1. IInv => QueueIsServed
  BY DEF IInv
<1>. QED  BY <1>1, Invariance, PTL

\* Only what the platform took is reported delivered.
THEOREM DeliveryIsReal == Spec => []DeliveredWasReached
<1>1. IInv => DeliveredWasReached
  BY DEF IInv
<1>. QED  BY <1>1, Invariance, PTL

\* stop() leaves no drainer, no queued event and no open future.
THEOREM StopIsClean == Spec => []StoppedIsClean
<1>1. IInv => StoppedIsClean
  BY DEF IInv
<1>. QED  BY <1>1, Invariance, PTL

-----------------------------------------------------------------------------
(* The dispatcher implements the mailbox.                                  *)

\* The turn of a session is the batch of its drainer.
LEMMA TurnOfSession ==
  ASSUME TypeOK, BatchesIdle
  PROVE  Turns = [s \in Session |-> {e \in Event : \E t \in Task : sess[t] = s /\ e \in batch[t]}]
<1>1. ASSUME NEW s \in Session
      PROVE  UNION {batch[t] : t \in {u \in Task : pc[u] \in {"sending", "running"} /\ sess[u] = s}}
               = {e \in Event : \E t \in Task : sess[t] = s /\ e \in batch[t]}
  BY DEF TypeOK, BatchesIdle
<1>. QED
  BY <1>1 DEF Turns

LEMMA TurnOfSessionNext ==
  ASSUME TypeOK', BatchesIdle'
  PROVE  Turns' = [s \in Session |-> {e \in Event : \E t \in Task : sess'[t] = s /\ e \in batch'[t]}]
<1>1. ASSUME NEW s \in Session
      PROVE  UNION {batch'[t] : t \in {u \in Task : pc'[u] \in {"sending", "running"} /\ sess'[u] = s}}
               = {e \in Event : \E t \in Task : sess'[t] = s /\ e \in batch'[t]}
  BY DEF TypeOK, BatchesIdle
<1>. QED
  BY <1>1 DEF Turns

LEMMA TurnOfDrainer ==
  ASSUME TypeOK, DrainInv, NEW t \in Live
  PROVE  sess[t] \in Session /\ Turns[sess[t]] = batch[t]
<1>1. \A u \in Task : sess[u] = sess[t] /\ batch[u] # {} => u = t
  BY DEF DrainInv, BatchesIdle, SingleFlight, Live
<1>2. t \in Task /\ sess[t] \in Session /\ batch[t] \subseteq Event
  BY DEF Live, TypeOK
<1>3. {e \in Event : \E u \in Task : sess[u] = sess[t] /\ e \in batch[u]} = batch[t]
  BY <1>1, <1>2
<1>. QED
  BY <1>2, <1>3, TurnOfSession DEF DrainInv

\* Nothing a producer sees changes with a drainer that carries no batch.
LEMMA TurnsStay ==
  ASSUME TypeOK, TypeOK', BatchesIdle, BatchesIdle',
         \A t \in Task : batch'[t] = batch[t] /\ (batch[t] # {} => sess'[t] = sess[t])
  PROVE  Turns' = Turns
<1>1. Turns = [s \in Session |-> {e \in Event : \E t \in Task : sess[t] = s /\ e \in batch[t]}]
  BY TurnOfSession
<1>2. Turns' = [s \in Session |-> {e \in Event : \E t \in Task : sess'[t] = s /\ e \in batch'[t]}]
  BY TurnOfSessionNext
<1>. QED
  BY <1>1, <1>2

LEMMA TurnChanges ==
  ASSUME TypeOK, TypeOK', DrainInv, BatchesIdle', NEW t \in Live, NEW B \in SUBSET Event,
         batch'[t] = B, B # {} => sess'[t] = sess[t],
         \A u \in Task \ {t} : batch'[u] = batch[u] /\ (batch[u] # {} => sess'[u] = sess[u])
  PROVE  Turns' = [Turns EXCEPT ![sess[t]] = B]
<1> DEFINE Old(s) == {e \in Event : \E u \in Task : sess[u] = s /\ e \in batch[u]}
           New(s) == {e \in Event : \E u \in Task : sess'[u] = s /\ e \in batch'[u]}
<1>1. Turns = [s \in Session |-> Old(s)] /\ Turns' = [s \in Session |-> New(s)]
  BY TurnOfSession, TurnOfSessionNext DEF DrainInv
<1>2. \A u \in Task : sess[u] = sess[t] /\ batch[u] # {} => u = t
  BY DEF DrainInv, BatchesIdle, SingleFlight, Live
<1>3. t \in Task /\ sess[t] \in Session
  BY DEF Live, TypeOK
<1>4. New(sess[t]) = B
  BY <1>2, <1>3
<1>5. ASSUME NEW s \in Session, s # sess[t]
      PROVE  New(s) = Old(s)
  BY <1>3, <1>5
<1>6. \A s \in Session : New(s) = IF s = sess[t] THEN B ELSE Old(s)
  BY <1>4, <1>5
<1>. HIDE DEF Old, New
<1>. QED
  BY <1>1, <1>3, <1>6

-----------------------------------------------------------------------------
(* Every step of the dispatcher is a step of the mailbox, or unseen.       *)

\* _resolve_delivered is how the mailbox tells producers.
LEMMA ResolveIsTell == \A f, D, v : Resolve(f, D, v) = Mailbox!Tell(f, D, v)
BY DEF Resolve, Mailbox!Tell

\* What no producer sees: queue, batches and futures as they were.
LEMMA Unseen ==
  ASSUME IInv, IInv', UNCHANGED <<fut, queued>>,
         \A t \in Task : batch'[t] = batch[t] /\ (batch[t] # {} => sess'[t] = sess[t])
  PROVE  UNCHANGED Mailbox!vars
BY TurnsStay DEF IInv, Mailbox!vars

\* dispatch() hands an event in.
LEMMA DispatchMaps ==
  ASSUME IInv, IInv', NEW e \in Event, Dispatch(e)
  PROVE  Mailbox!Next
<1>1. ~Mailbox!Known(e)
  BY DEF Dispatch, Held, InBatch, Mailbox!Known, Turns, Live
<1>2. Turns' = Turns
  <2>1. CASE Refuse(e)
    BY <2>1, TurnsStay DEF Refuse, taskVars, IInv
  <2>2. CASE Enqueue(e)
    <3>1. Kick(Route[e])
      BY <2>2 DEF Enqueue
    <3>2. \A t \in Task : batch'[t] = batch[t] /\ (batch[t] # {} => sess'[t] = sess[t])
      BY <3>1 DEF Kick, taskVars, IInv, TypeOK, BatchesIdle, Live
    <3>. QED  BY <3>2, TurnsStay DEF IInv
  <2>. QED  BY <2>1, <2>2 DEF Dispatch
<1>3. PICK D \in SUBSET (queued \cup {e}) :
        /\ queued' = (queued \cup {e}) \ D
        /\ fut' = Resolve([fut EXCEPT ![e] = "pending"], D, "undelivered")
  <2>1. CASE Refuse(e)
    <3>1. queued' = (queued \cup {e}) \ {e}
      BY <2>1 DEF Refuse, Dispatch, Held
    <3>2. fut' = Resolve([fut EXCEPT ![e] = "pending"], {e}, "undelivered")
      BY <2>1 DEF Refuse, Resolve, IInv, TypeOK
    <3>. QED  BY <3>1, <3>2
  <2>2. CASE Enqueue(e)
    <3> DEFINE arrived == QueueOf(Route[e]) \cup {e}
               kept == WithinCap({d \in arrived : ~Expired(d, [age EXCEPT ![e] = 0])},
                                 older \cup (QueueOf(Route[e]) \X {e}))
               D == arrived \ kept
    <3>1. kept \subseteq arrived /\ arrived \subseteq queued \cup {e} /\ e \in arrived
      BY DEF WithinCap, QueueOf
    <3>2. queued' = (queued \ arrived) \cup kept
      BY <2>2 DEF Enqueue
    <3>3. fut' = Resolve([fut EXCEPT ![e] = "pending"], arrived \ kept, "undelivered")
      BY <2>2 DEF Enqueue
    <3>. HIDE DEF arrived, kept
    <3>. QED  BY <3>1, <3>2, <3>3
  <2>. QED  BY <2>1, <2>2 DEF Dispatch
<1>4. Mailbox!Submit(e, D)
  BY <1>1, <1>2, <1>3, ResolveIsTell DEF Mailbox!Submit
<1>. QED
  BY <1>3, <1>4 DEF Mailbox!Next

\* A round of _drain drops events, or begins a turn.
LEMMA TakeBatchMaps ==
  ASSUME IInv, IInv', NEW t \in Task, TakeBatch(t)
  PROVE  [Mailbox!Next]_(Mailbox!vars)
<1> DEFINE q == QueueOf(sess[t])
           expired == {e \in q : Expired(e, age)}
           f == Resolve(fut, expired, "undelivered")
<1>0. t \in Live /\ batch[t] = {} /\ q \subseteq queued /\ expired \subseteq q
  BY DEF TakeBatch, Live, IInv, BatchesIdle, QueueOf
<1>1. ASSUME NEW D \in SUBSET queued, queued' = queued \ D,
             fut' = Resolve(fut, D, "undelivered"), Turns' = Turns
      PROVE  [Mailbox!Next]_(Mailbox!vars)
  <2>1. CASE D = {}
    <3>1. fut' = fut /\ queued' = queued
      BY <1>1, <2>1 DEF Resolve, IInv, TypeOK
    <3>. QED  BY <1>1, <3>1 DEF Mailbox!vars
  <2>2. CASE D # {}
    BY <1>1, <2>2, ResolveIsTell DEF Mailbox!Drop, Mailbox!Next
  <2>. QED  BY <2>1, <2>2
<1>2. CASE Dequeue(expired) /\ fut' = f /\ DrainExit(t, queued')
  <2>1. \A u \in Task : batch'[u] = batch[u] /\ (batch[u] # {} => sess'[u] = sess[u])
    BY <1>0, <1>2 DEF DrainExit, IInv, TypeOK
  <2>2. Turns' = Turns
    BY <2>1, TurnsStay DEF IInv
  <2>. HIDE DEF expired, q
  <2>. QED  BY <1>0, <1>1, <1>2, <2>2 DEF Dequeue
<1>3. ASSUME NEW p \in Picked(q \ expired),
             Dequeue(expired \cup BatchOf(q \ expired, p)),
             pc' = [pc EXCEPT ![t] = "loop"],
             fut' = Resolve(f, BatchOf(q \ expired, p), "undelivered"),
             UNCHANGED <<batch, draining, sess>>
      PROVE  [Mailbox!Next]_(Mailbox!vars)
  <2> DEFINE D == expired \cup BatchOf(q \ expired, p)
  <2>1. D \subseteq queued
    BY <1>0 DEF BatchOf
  <2>2. fut' = Resolve(fut, D, "undelivered")
    BY <1>3 DEF Resolve
  <2>3. Turns' = Turns
    BY <1>3, TurnsStay DEF IInv
  <2>4. queued' = queued \ D
    BY <1>3 DEF Dequeue
  <2>. HIDE DEF D
  <2>. QED  BY <1>1, <2>1, <2>2, <2>3, <2>4
<1>4. ASSUME NEW p \in Picked(q \ expired),
             Dequeue(expired \cup BatchOf(q \ expired, p)),
             pc' = [pc EXCEPT ![t] = "sending"],
             fut' = f,
             batch' = [batch EXCEPT ![t] = BatchOf(q \ expired, p)],
             UNCHANGED <<draining, sess>>
      PROVE  [Mailbox!Next]_(Mailbox!vars)
  <2> DEFINE B == BatchOf(q \ expired, p)
  <2>1. B \in SUBSET queued /\ expired \in SUBSET (queued \ B) /\ B # {}
    BY <1>0 DEF BatchOf, Picked, MostUrgent
  <2>2. \A d, e \in B : Route[e] = sess[t] /\ Kind[d] = Kind[e]
    BY DEF BatchOf, QueueOf
  <2>3. sess[t] \in Session /\ Turns[sess[t]] = {}
    BY <1>0, TurnOfDrainer DEF IInv, DrainInv
  <2>4. Turns' = [Turns EXCEPT ![sess[t]] = B]
    <3>1. B \in SUBSET Event
      BY <2>1 DEF IInv, TypeOK
    <3>2. batch'[t] = B /\ \A u \in Task \ {t} : batch'[u] = batch[u]
      BY <1>4 DEF IInv, TypeOK
    <3>3. UNCHANGED sess
      BY <1>4
    <3>4. TypeOK /\ TypeOK' /\ DrainInv /\ BatchesIdle'
      BY DEF IInv, DrainInv
    <3>. HIDE DEF B
    <3>. QED  BY <1>0, <3>1, <3>2, <3>3, <3>4, TurnChanges
  <2>5. queued' = queued \ (B \cup expired)
    BY <1>4 DEF Dequeue
  <2>. HIDE DEF B, expired
  <2>6. Mailbox!Begin(sess[t], B, expired)
    BY <1>4, <2>1, <2>2, <2>3, <2>4, <2>5, ResolveIsTell DEF Mailbox!Begin
  <2>. QED  BY <2>1, <2>3, <2>6 DEF Mailbox!Next
<1>. QED
  BY <1>2, <1>3, <1>4 DEF TakeBatch

\* A batch that leaves its drainer, resolved, ends the session's turn; a
\* drainer cancelled or ended without one is not noticed.
LEMMA BatchEndMaps ==
  ASSUME IInv, IInv', NEW t \in Live, NEW v \in Outcome,
         fut' = Resolve(fut, batch[t], v), UNCHANGED queued, batch'[t] = {},
         \A u \in Task \ {t} : batch'[u] = batch[u] /\ (batch[u] # {} => sess'[u] = sess[u])
  PROVE  [Mailbox!Next]_(Mailbox!vars)
<1>1. sess[t] \in Session /\ Turns[sess[t]] = batch[t]
  BY TurnOfDrainer DEF IInv, DrainInv
<1>2. Turns' = [Turns EXCEPT ![sess[t]] = {}]
  <2>. DEFINE B == {}
  <2>1. B \in SUBSET Event /\ batch'[t] = B /\ (B # {} => sess'[t] = sess[t])
    OBVIOUS
  <2>2. TypeOK /\ TypeOK' /\ DrainInv /\ BatchesIdle'
    BY DEF IInv, DrainInv
  <2>. HIDE DEF B
  <2>3. Turns' = [Turns EXCEPT ![sess[t]] = B]
    BY <2>1, <2>2, TurnChanges
  <2>. QED  BY <2>3 DEF B
<1>3. CASE batch[t] = {}
  <2>1. Turns' = Turns
    BY <1>1, <1>2, <1>3 DEF Turns
  <2>2. fut' = fut
    BY <1>3 DEF Resolve, IInv, TypeOK
  <2>. QED  BY <2>1, <2>2 DEF Mailbox!vars
<1>4. CASE batch[t] # {}
  <2>1. Mailbox!End(sess[t], v)
    BY <1>1, <1>2, <1>4, ResolveIsTell DEF Mailbox!End
  <2>. QED  BY <1>1, <2>1 DEF Mailbox!Next, Outcome
<1>. QED
  BY <1>3, <1>4

LEMMA BatchDoneMaps ==
  ASSUME IInv, IInv', NEW t \in Task, Sending(t), NEW v \in Outcome, BatchDone(t, v)
  PROVE  [Mailbox!Next]_(Mailbox!vars)
<1>1. /\ t \in Live
      /\ fut' = Resolve(fut, batch[t], v)
      /\ batch' = [batch EXCEPT ![t] = {}]
      /\ UNCHANGED <<queued, sess>>
  BY DEF Sending, Live, BatchDone
<1>2. batch'[t] = {} /\ \A u \in Task \ {t} : batch'[u] = batch[u] /\ sess'[u] = sess[u]
  BY <1>1 DEF IInv, TypeOK, Live
<1>. QED
  BY <1>1, <1>2, BatchEndMaps

\* DrainDies, and Unwind in stop().
LEMMA DrainEndMaps ==
  ASSUME IInv, IInv', NEW t \in Task, DrainDies(t) \/ Unwind(t)
  PROVE  [Mailbox!Next]_(Mailbox!vars)
<1> DEFINE v == "undelivered"
<1>1. v \in Outcome /\ t \in Live /\ fut' = Resolve(fut, batch[t], v) /\ UNCHANGED queued
  BY DEF DrainDies, Unwind, Sending, Live, Outcome
<1>2. batch'[t] = {} /\ \A u \in Task \ {t} : batch'[u] = batch[u] /\ sess'[u] = sess[u]
  BY DEF DrainDies, Unwind, DrainExit, IInv, TypeOK
<1>. HIDE DEF v
<1>. QED
  BY <1>1, <1>2, BatchEndMaps

\* What stop() does with the queues drops whatever waits.
LEMMA ClearMaps ==
  ASSUME IInv, IInv', ClearQueues
  PROVE  [Mailbox!Next]_(Mailbox!vars)
<1>1. Turns' = Turns
  BY TurnsStay DEF ClearQueues, IInv
<1>2. CASE queued = {}
  <2>1. fut' = fut /\ queued' = queued
    BY <1>2 DEF ClearQueues, Resolve, IInv, TypeOK
  <2>. QED  BY <1>1, <2>1 DEF Mailbox!vars
<1>3. CASE queued # {}
  <2>. DEFINE D == queued
  <2>1. D # {} /\ D \in SUBSET queued /\ queued' = queued \ D
        /\ fut' = Resolve(fut, D, "undelivered")
    BY <1>3 DEF ClearQueues
  <2>. HIDE DEF D
  <2>. QED  BY <1>1, <2>1, ResolveIsTell DEF Mailbox!Drop, Mailbox!Next
<1>. QED
  BY <1>2, <1>3

LEMMA MailboxInit == Init => Mailbox!Init
<1>. SUFFICES ASSUME Init PROVE Mailbox!Init
  OBVIOUS
<1>1. Turns = [s \in Session |-> {}]
  BY DEF Init, Turns
<1>. QED
  BY <1>1 DEF Init, Mailbox!Init

LEMMA MailboxStep == IInv /\ IInv' /\ [Next]_vars => [Mailbox!Next]_(Mailbox!vars)
<1>. SUFFICES ASSUME IInv, IInv', [Next]_vars PROVE [Mailbox!Next]_(Mailbox!vars)
  OBVIOUS
<1>1. ASSUME UNCHANGED <<fut, queued, sess, batch>>
      PROVE  [Mailbox!Next]_(Mailbox!vars)
  BY <1>1, Unseen
<1>2. ASSUME NEW e \in Event, Dispatch(e)
      PROVE  [Mailbox!Next]_(Mailbox!vars)
  BY <1>2, DispatchMaps
<1>3. ASSUME NEW e \in Event, GiveUp(e)
      PROVE  [Mailbox!Next]_(Mailbox!vars)
  <2>1. Turns' = Turns
    BY <1>3, TurnsStay DEF GiveUp, taskVars, IInv
  <2>2. Mailbox!GiveUp(e)
    BY <1>3, <2>1 DEF GiveUp, Mailbox!GiveUp
  <2>. QED  BY <2>2 DEF Mailbox!Next
<1>4. ASSUME NEW t \in Task, TakeBatch(t)
      PROVE  [Mailbox!Next]_(Mailbox!vars)
  BY <1>4, TakeBatchMaps
<1>5. ASSUME NEW t \in Task, PlatformStarts(t)
      PROVE  [Mailbox!Next]_(Mailbox!vars)
  BY <1>1, <1>5 DEF PlatformStarts
<1>6. ASSUME NEW t \in Task, TurnEnds(t)
      PROVE  [Mailbox!Next]_(Mailbox!vars)
  BY <1>6, BatchDoneMaps DEF TurnEnds
<1>7. ASSUME NEW t \in Task, NEW v \in Outcome, Sending(t), BatchDone(t, v)
      PROVE  [Mailbox!Next]_(Mailbox!vars)
  BY <1>7, BatchDoneMaps
<1>8. ASSUME NEW t \in Task, TurnTimesOut(t) \/ SendFails(t)
      PROVE  [Mailbox!Next]_(Mailbox!vars)
  BY <1>7, <1>8 DEF TurnTimesOut, SendFails, Outcome
<1>9. ASSUME NEW t \in Task, DrainDies(t) \/ Unwind(t)
      PROVE  [Mailbox!Next]_(Mailbox!vars)
  BY <1>9, DrainEndMaps
<1>10. CASE Stop
  BY <1>1, <1>10, ClearMaps DEF Stop, taskVars
<1>11. CASE FinishStop
  BY <1>11, ClearMaps DEF FinishStop
<1>12. CASE Start \/ Tick \/ (\E s \in Session : OrphanEnds(s)) \/ UNCHANGED vars
  BY <1>1, <1>12 DEF Start, Tick, OrphanEnds, vars, taskVars
<1>. QED
  BY <1>2, <1>3, <1>4, <1>5, <1>6, <1>8, <1>9, <1>10, <1>11, <1>12 DEF Next

\* The dispatcher is a mailbox: whatever happens to its queue, its drainers and
\* the platform, an event waits, goes into at most one turn, meets one fate.
THEOREM Refinement == Spec => ImplementsMailbox
BY MailboxInit, MailboxStep, Invariance, PTL DEF Spec, ImplementsMailbox, Mailbox!Spec

-----------------------------------------------------------------------------
(* Expiry: what a drainer takes has not outlived its TTL.                  *)

\* No turn carries an event whose TTL had run out when the batch was taken.
THEOREM NothingStaleIsSent == Spec => NoZombieSent
<1> DEFINE Fresh == \A t \in Task : \A e \in batch'[t] \ batch[t] : TTL > 0 => age[e] <= TTL
<1>1. IInv /\ [Next]_vars => Fresh
  <2>. SUFFICES ASSUME IInv, [Next]_vars, NEW t \in Task, NEW e \in batch'[t] \ batch[t], TTL > 0
                PROVE  age[e] <= TTL
    OBVIOUS
  <2>0. TypeOK
    BY DEF IInv
  <2>1. ASSUME NEW u \in Task, TakeBatch(u)
        PROVE  age[e] <= TTL
    <3> DEFINE q == QueueOf(sess[u])
               expired == {x \in q : Expired(x, age)}
    <3>1. CASE DrainExit(u, queued')
      BY <2>0, <3>1 DEF DrainExit, TypeOK
    <3>2. CASE batch' = batch
      BY <3>2
    <3>3. ASSUME NEW p \in Picked(q \ expired),
                 batch' = [batch EXCEPT ![u] = BatchOf(q \ expired, p)]
          PROVE  age[e] <= TTL
      <4>1. e \in q /\ ~Expired(e, age)
        BY <2>0, <3>3 DEF BatchOf, TypeOK
      <4>2. age[e] \in Nat /\ TTL \in Nat
        BY <2>0, <4>1, BoundAssumption DEF QueueOf, TypeOK
      <4>. QED  BY <4>1, <4>2 DEF Expired
    <3>. QED  BY <2>1, <3>1, <3>2, <3>3 DEF TakeBatch
  <2>2. CASE \E s \in Session : Kick(s)
    BY <2>0, <2>2 DEF Kick, taskVars, TypeOK
  <2>3. CASE batch' = batch
    BY <2>3
  <2>4. ASSUME NEW u \in Task, batch' = [batch EXCEPT ![u] = {}]
        PROVE  age[e] <= TTL
    BY <2>0, <2>4 DEF TypeOK
  <2>5. ASSUME NEW d \in Event, Dispatch(d)
        PROVE  age[e] <= TTL
    BY <2>2, <2>3, <2>5, RouteAssumption DEF Dispatch, Enqueue, Refuse, taskVars
  <2>6. ASSUME NEW u \in Task,
               PlatformStarts(u) \/ TurnEnds(u) \/ TurnTimesOut(u) \/ SendFails(u) \/ DrainDies(u) \/ Unwind(u)
        PROVE  age[e] <= TTL
    BY <2>3, <2>4, <2>6
       DEF PlatformStarts, TurnEnds, TurnTimesOut, SendFails, BatchDone, DrainDies, DrainExit, Unwind
  <2>7. CASE \/ \E d \in Event : GiveUp(d)
             \/ \E s \in Session : OrphanEnds(s)
             \/ Stop \/ FinishStop \/ Start \/ Tick \/ UNCHANGED vars
    BY <2>3, <2>7 DEF GiveUp, OrphanEnds, Stop, FinishStop, ClearQueues, Start, Tick, taskVars, vars
  <2>. QED  BY <2>1, <2>5, <2>6, <2>7 DEF Next
<1>. QED
  BY <1>1, Invariance, PTL DEF Spec, NoZombieSent

-----------------------------------------------------------------------------
(* Eviction: the enqueue order is a strict order of each session's queue.  *)

IsOrder(Q, ord) ==
  /\ IsFiniteSet(Q)
  /\ \A d, e \in Q : <<d, e>> \in ord => d # e /\ Route[d] = Route[e]
  /\ \A d, e \in Q : d # e /\ Route[d] = Route[e] => <<d, e>> \in ord \/ <<e, d>> \in ord
  /\ \A d, e, f \in Q : <<d, e>> \in ord /\ <<e, f>> \in ord => <<d, f>> \in ord

OrderInv == IsOrder(queued, older)

LEMMA OrderRestricts ==
  ASSUME NEW Q, NEW ord, NEW R \in SUBSET Q, IsOrder(Q, ord)
  PROVE  IsOrder(R, Among(ord, R))
<1>1. IsFiniteSet(R)
  BY FS_Subset DEF IsOrder
<1>. QED
  BY <1>1 DEF IsOrder, Among

\* An event that arrives is the youngest of its session.
LEMMA OrderGrows ==
  ASSUME TypeOK, OrderInv, NEW e \in Event, e \notin queued
  PROVE  IsOrder(queued \cup {e}, older \cup (QueueOf(Route[e]) \X {e}))
<1>1. IsFiniteSet(queued \cup {e})
  BY FS_AddElement DEF OrderInv, IsOrder
<1>. QED
  BY <1>1 DEF OrderInv, IsOrder, TypeOK, QueueOf

LEMMA OrderStep == TypeOK /\ OrderInv /\ [Next]_vars => OrderInv'
<1>. SUFFICES ASSUME TypeOK, OrderInv, [Next]_vars PROVE OrderInv'
  OBVIOUS
<1>1. ASSUME queued' \subseteq queued, older' = Among(older, queued')
      PROVE  OrderInv'
  BY <1>1, OrderRestricts DEF OrderInv
<1>2. ASSUME UNCHANGED <<queued, older>>
      PROVE  OrderInv'
  BY <1>2 DEF OrderInv
<1>3. ASSUME NEW e \in Event, Dispatch(e)
      PROVE  OrderInv'
  <2>1. CASE Refuse(e)
    BY <1>2, <2>1 DEF Refuse
  <2>2. CASE Enqueue(e)
    <3>1. e \notin queued
      BY <1>3 DEF Dispatch, Held
    <3>2. queued' \subseteq queued \cup {e}
      BY <2>2 DEF Enqueue, WithinCap, QueueOf
    <3>3. older' = Among(older \cup (QueueOf(Route[e]) \X {e}), queued')
      BY <2>2 DEF Enqueue
    <3>. DEFINE Q == queued \cup {e}
                ord == older \cup (QueueOf(Route[e]) \X {e})
    <3>4. IsOrder(Q, ord) /\ queued' \in SUBSET Q /\ older' = Among(ord, queued')
      BY <3>1, <3>2, <3>3, OrderGrows
    <3>. HIDE DEF Q, ord
    <3>. QED  BY <3>4, OrderRestricts DEF OrderInv
  <2>. QED  BY <1>3, <2>1, <2>2 DEF Dispatch
<1>4. ASSUME NEW t \in Task, TakeBatch(t)
      PROVE  OrderInv'
  <2>1. PICK D : Dequeue(D)
    BY <1>4 DEF TakeBatch
  <2>. QED  BY <1>1, <2>1 DEF Dequeue
<1>5. CASE ClearQueues
  BY <1>1, <1>5 DEF ClearQueues, Among
<1>6. ASSUME NEW t \in Task,
             PlatformStarts(t) \/ TurnEnds(t) \/ TurnTimesOut(t) \/ SendFails(t) \/ DrainDies(t) \/ Unwind(t)
      PROVE  OrderInv'
  BY <1>2, <1>6 DEF PlatformStarts, TurnEnds, TurnTimesOut, SendFails, BatchDone, DrainDies, Unwind
<1>7. CASE \/ \E e \in Event : GiveUp(e)
           \/ \E s \in Session : OrphanEnds(s)
           \/ Stop \/ FinishStop \/ Start \/ Tick \/ UNCHANGED vars
  BY <1>2, <1>5, <1>7 DEF GiveUp, OrphanEnds, Stop, FinishStop, Start, Tick, taskVars, vars
<1>. QED
  BY <1>3, <1>4, <1>6, <1>7 DEF Next

LEMMA OrderIsInvariant == Spec => []OrderInv
<1>1. Init => OrderInv
  BY FS_EmptySet DEF Init, OrderInv, IsOrder
<1>. QED
  BY <1>1, OrderStep, TypeCorrect, PTL DEF Spec

\* The cap keeps an event only if it keeps every more urgent one: whatever
\* outlasts d outlasts k too when d outlasts k.
LEMMA CapIsFair ==
  ASSUME NEW q \in SUBSET Event, NEW ord, IsOrder(q, ord), \A x, y \in q : Route[x] = Route[y],
         NEW d \in q \ WithinCap(q, ord), NEW k \in WithinCap(q, ord)
  PROVE  ~Outlasts(d, k, ord)
<1>. SUFFICES ASSUME Outlasts(d, k, ord) PROVE FALSE
  OBVIOUS
<1> DEFINE Above(e) == {x \in q : Outlasts(x, e, ord)}
<1>1. k \in q
  BY DEF WithinCap
<1>2. Above(d) \subseteq Above(k)
  <2>. SUFFICES ASSUME NEW x \in q, Outlasts(x, d, ord) PROVE Outlasts(x, k, ord)
    OBVIOUS
  <2>1. /\ Priority[x] \in Nat /\ Priority[d] \in Nat /\ Priority[k] \in Nat
        /\ Intra[x] \in Nat /\ Intra[d] \in Nat /\ Intra[k] \in Nat
    BY <1>1, RouteAssumption
  <2>2. <<k, d>> \in ord /\ <<d, x>> \in ord => <<k, x>> \in ord
    BY <1>1 DEF IsOrder
  <2>. QED  BY <2>1, <2>2 DEF Outlasts
<1>3. IsFiniteSet(Above(k)) /\ IsFiniteSet(Above(d))
  <2>1. Above(k) \subseteq q /\ Above(d) \subseteq q
    OBVIOUS
  <2>. HIDE DEF Above
  <2>. QED  BY <2>1, FS_Subset DEF IsOrder
<1>4. Cardinality(Above(d)) <= Cardinality(Above(k))
  <2>. HIDE DEF Above
  <2>. QED  BY <1>2, <1>3, FS_Subset
<1>5. Cardinality(Above(d)) \in Nat /\ Cardinality(Above(k)) \in Nat
  <2>. HIDE DEF Above
  <2>. QED  BY <1>3, FS_CardinalityType
<1>6. Cardinality(Above(k)) < MaxQueue /\ ~(Cardinality(Above(d)) < MaxQueue)
  BY <1>1 DEF WithinCap
<1>. HIDE DEF Above
<1>. QED
  BY <1>4, <1>5, <1>6, BoundAssumption

\* Room is made at the expense of the least urgent and, among equals, of the
\* oldest.
THEOREM EvictionIsFair == Spec => EvictsLeastUrgent
<1> DEFINE Fair ==
      \A e \in Event : Dispatch(e) /\ ~Closed =>
        \A d \in (queued \cup {e}) \ queued', k \in queued' :
          Route[k] = Route[d] =>
            \/ Expired(d, age)
            \/ Priority[d] > Priority[k]
            \/ Priority[d] = Priority[k] /\ Intra[d] > Intra[k]
            \/ /\ Priority[d] = Priority[k] /\ Intra[d] = Intra[k]
               /\ k = e \/ <<d, k>> \in older
<1>1. TypeOK /\ OrderInv => Fair
  <2>. SUFFICES ASSUME TypeOK, OrderInv, NEW e \in Event, Dispatch(e), ~Closed,
                       NEW d \in (queued \cup {e}) \ queued', NEW k \in queued',
                       Route[k] = Route[d], ~Expired(d, age)
                PROVE  \/ Priority[d] > Priority[k]
                       \/ Priority[d] = Priority[k] /\ Intra[d] > Intra[k]
                       \/ /\ Priority[d] = Priority[k] /\ Intra[d] = Intra[k]
                          /\ k = e \/ <<d, k>> \in older
    OBVIOUS
  <2> DEFINE s == Route[e]
             a == [age EXCEPT ![e] = 0]
             ord == older \cup (QueueOf(s) \X {e})
             arrived == QueueOf(s) \cup {e}
             q == {x \in arrived : ~Expired(x, a)}
             kept == WithinCap(q, ord)
  <2>1. e \notin queued /\ Enqueue(e)
    BY DEF Dispatch, Held
  <2>2. queued' = (queued \ arrived) \cup kept /\ kept \subseteq q
    BY <2>1 DEF Enqueue, WithinCap
  <2>3. queued \subseteq Event /\ age \in [Event -> 0 .. TTL + 1]
    BY DEF TypeOK
  <2>4. d \in arrived /\ d \notin kept
    <3>. HIDE DEF kept, arrived
    <3>. QED  BY <2>2 DEF arrived
  <2>5. Route[d] = s
    BY <2>4 DEF QueueOf
  <2>6. k \in kept
    <3>1. k \in arrived \/ k \notin queued
      BY <2>5 DEF QueueOf
    <3>. HIDE DEF kept, arrived
    <3>. QED  BY <2>2, <3>1
  <2>7. d \in q
    <3>1. ~Expired(d, a)
      BY <2>3, BoundAssumption DEF Expired
    <3>. QED  BY <2>4, <3>1
  <2>8. IsOrder(q, ord)
    <3>1. IsOrder(queued \cup {e}, ord)
      BY <2>1, OrderGrows
    <3>2. q \subseteq queued \cup {e}
      BY DEF QueueOf
    <3>. HIDE DEF q, ord
    <3>3. IsOrder(q, Among(ord, q))
      BY <3>1, <3>2, OrderRestricts
    <3>. QED  BY <3>1, <3>2, <3>3 DEF IsOrder
  <2>9. ~Outlasts(d, k, ord)
    <3>1. q \in SUBSET Event /\ \A x, y \in q : Route[x] = Route[y]
      BY <2>3 DEF QueueOf
    <3>2. d \in q \ WithinCap(q, ord) /\ k \in WithinCap(q, ord)
      BY <2>4, <2>6, <2>7
    <3>. HIDE DEF q, ord
    <3>. QED  BY <2>8, <3>1, <3>2, CapIsFair
  <2>10. k \in q /\ k # d /\ k \in Event /\ d \in Event
    <3>1. k \in q /\ k # d
      BY <2>2, <2>4, <2>6
    <3>. QED  BY <2>3, <2>7, <3>1 DEF QueueOf
  <2>11. <<d, k>> \in ord \/ <<k, d>> \in ord
    <3>. HIDE DEF q, ord
    <3>. QED  BY <2>7, <2>8, <2>10 DEF IsOrder
  <2>12. /\ Priority[d] \in Nat /\ Priority[k] \in Nat
         /\ Intra[d] \in Nat /\ Intra[k] \in Nat
    BY <2>10, RouteAssumption
  <2>13. <<d, k>> \in ord => k = e \/ <<d, k>> \in older
    OBVIOUS
  <2>. HIDE DEF ord
  <2>. QED  BY <2>9, <2>11, <2>12, <2>13 DEF Outlasts
<1>. QED
  BY <1>1, TypeCorrect, OrderIsInvariant, PTL DEF EvictsLeastUrgent
=============================================================================
