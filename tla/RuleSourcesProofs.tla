--------------------------- MODULE RuleSourcesProofs ---------------------------
(***************************************************************************)
(* Theorems about the three sources of conditions, IotSource, Milestone    *)
(* and CameraSession, for all values of their constants, and about the     *)
(* run that takes them together.                                           *)
(***************************************************************************)
EXTENDS MCRuleSources, Integers, TLAPS

(***************************************************************************)
(* The conditions on devices                                               *)
(***************************************************************************)

-----------------------------------------------------------------------------
(* The inductive invariant: a rule that is out of date is found by its     *)
(* reminder only because the index follows the rules.                      *)

IndexFollows == Running => index = IndexOf(watch)

IInv == TypeOK /\ IndexFollows /\ NoStaleRule /\ DiagnosesCurrent

\* What changes the tree says nothing new of a device it leaves alone.
LEMMA VerdictFrame ==
  ASSUME NEW d, online'[d] = online[d], prop'[d] = prop[d]
  PROVE  Verdict(d)' = Verdict(d)
BY DEF Verdict

LEMMA VerdictType ==
  ASSUME TypeOK, NEW d \in Did
  PROVE  Verdict(d) \in {"true", "false", "path_missing", "device_offline", "eval_failed"}
<1>1. online[d] \in BOOLEAN \cup {None} /\ prop[d] \in Reading \cup {None}
  BY DEF TypeOK
<1>2. CASE online[d] = None
  BY <1>2 DEF Verdict
<1>3. CASE online[d] # None /\ online[d] = FALSE
  BY <1>3 DEF Verdict
<1>4. CASE online[d] # None /\ online[d] = TRUE
  BY <1>1, <1>4 DEF Verdict, Reading
<1>. QED
  BY <1>1, <1>2, <1>3, <1>4

LEMMA KnownType ==
  ASSUME NEW v
  PROVE  Known(v) \in {"true", "false", "unknown"}
BY DEF Known

LEMMA InvInit == Init => IInv
BY DEF Init, IInv, TypeOK, IndexFollows, NoStaleRule, DiagnosesCurrent, Running

-----------------------------------------------------------------------------
(* A write that changes devices announces each of them. *)

LEMMA WriteStep ==
  ASSUME IInv, NEW D \in SUBSET Did, NEW changed \in SUBSET (Did \X Kind),
         \A d \in Did \ D : online'[d] = online[d] /\ prop'[d] = prop[d],
         \A d \in D : \E k \in Kind : <<d, k>> \in changed,
         Enqueue(changed),
         online' \in [Did -> BOOLEAN \cup {None}], prop' \in [Did -> Reading \cup {None}],
         UNCHANGED <<phase, rules, index, pending, wake, batch, diag, seen>>
  PROVE  IInv'
<1>. USE DEF IInv, rules
<1>1. queue' \subseteq Did \X Kind
  BY DEF Enqueue, TypeOK
<1>2. TypeOK'
  BY <1>1 DEF TypeOK
<1>3. IndexFollows'
  BY DEF IndexFollows, Running, IndexOf
<1>4. ASSUME Running, NEW r \in Rule, watch[r] # None
      PROVE  \/ Reminded(r)'
             \/ Verdict(watch[r])' = Verdict(watch[r])
  <2>1. watch[r] \in Did
    BY <1>4 DEF TypeOK
  <2>2. CASE watch[r] \in D
    BY <1>4, <2>2 DEF Reminded, Enqueue
  <2>3. CASE watch[r] \notin D
    BY <2>1, <2>3, VerdictFrame
  <2>. QED
    BY <2>2, <2>3
<1>5. ASSUME Running, NEW r \in Rule, Reminded(r)
      PROVE  Reminded(r)'
  BY <1>5 DEF Reminded, Enqueue
<1>6. NoStaleRule'
  <2>. SUFFICES ASSUME Running, NEW r \in Rule, watch[r] # None, active[r], seen[r] # Truth(r)'
                PROVE  Reminded(r)'
    BY DEF NoStaleRule, Running
  <2>1. CASE Verdict(watch[r])' = Verdict(watch[r])
    BY <2>1, <1>5 DEF NoStaleRule, Truth, Known
  <2>. QED
    BY <2>1, <1>4
<1>7. DiagnosesCurrent'
  <2>. SUFFICES ASSUME Running, NEW r \in Rule, diag[r] # "none"
                PROVE  watch[r] # None /\ (diag[r] # Verdict(watch[r])' => Reminded(r)')
    BY DEF DiagnosesCurrent, Running
  <2>1. watch[r] # None /\ (diag[r] # Verdict(watch[r]) => Reminded(r))
    BY DEF DiagnosesCurrent
  <2>. QED
    BY <2>1, <1>4, <1>5
<1>. QED
  BY <1>2, <1>3, <1>6, <1>7

LEMMA Writes ==
  ASSUME IInv, Write
  PROVE  IInv'
<1>1. ASSUME NEW d \in Did, NEW v \in BOOLEAN, WriteOnline(d, v)
      PROVE  IInv'
  <2>1. online' \in [Did -> BOOLEAN \cup {None}] /\ prop' \in [Did -> Reading \cup {None}]
    BY <1>1 DEF IInv, TypeOK, WriteOnline
  <2>2. \A e \in Did \ {d} : online'[e] = online[e] /\ prop'[e] = prop[e]
    BY <1>1 DEF IInv, TypeOK, WriteOnline
  <2>3. {<<d, "online">>} \in SUBSET (Did \X Kind) /\ {d} \in SUBSET Did
    BY DEF Kind
  <2>4. \A e \in {d} : \E k \in Kind : <<e, k>> \in {<<d, "online">>}
    BY DEF Kind
  <2>. QED
    BY <1>1, <2>1, <2>2, <2>3, <2>4, WriteStep DEF WriteOnline
<1>2. ASSUME NEW d \in Did, NEW v \in Reading \cup {None}, WriteProp(d, v)
      PROVE  IInv'
  <2>1. online' \in [Did -> BOOLEAN \cup {None}] /\ prop' \in [Did -> Reading \cup {None}]
    BY <1>2 DEF IInv, TypeOK, WriteProp
  <2>2. \A e \in Did \ {d} : online'[e] = online[e] /\ prop'[e] = prop[e]
    BY <1>2 DEF IInv, TypeOK, WriteProp
  <2>3. {<<d, "prop">>} \in SUBSET (Did \X Kind) /\ {d} \in SUBSET Did
    BY DEF Kind
  <2>4. \A e \in {d} : \E k \in Kind : <<e, k>> \in {<<d, "prop">>}
    BY DEF Kind
  <2>. QED
    BY <1>2, <2>1, <2>2, <2>3, <2>4, WriteStep DEF WriteProp
<1>3. ASSUME NEW D \in SUBSET Did, Drop(D)
      PROVE  IInv'
  <2> DEFINE L == {d \in D : online[d] # None \/ prop[d] # None}
  <2>1. online' \in [Did -> BOOLEAN \cup {None}] /\ prop' \in [Did -> Reading \cup {None}]
    BY <1>3 DEF IInv, TypeOK, Drop
  <2>2. \A e \in Did \ L : online'[e] = online[e] /\ prop'[e] = prop[e]
    BY <1>3 DEF IInv, TypeOK, Drop
  <2>3. Lost(D) \in SUBSET (Did \X Kind) /\ L \in SUBSET Did
    BY DEF Lost
  <2>4. \A e \in L : \E k \in Kind : <<e, k>> \in Lost(D)
    <3>. SUFFICES ASSUME NEW e \in L PROVE \E k \in Kind : <<e, k>> \in Lost(D)
      OBVIOUS
    <3>1. CASE online[e] # None
      BY <3>1 DEF Lost, Kind
    <3>2. CASE prop[e] # None
      BY <3>2 DEF Lost, Kind
    <3>. QED
      BY <3>1, <3>2
  <2>. HIDE DEF L
  <2>. QED
    BY <1>3, <2>1, <2>2, <2>3, <2>4, WriteStep DEF Drop
<1>4. {{d} : d \in Did} \cup {Did} \subseteq SUBSET Did
  OBVIOUS
<1>. QED
  BY <1>1, <1>2, <1>3, <1>4 DEF Write

-----------------------------------------------------------------------------
(* Everything else leaves the tree alone. *)

LEMMA DeliverStep ==
  ASSUME IInv, NEW c \in Did \X Kind, Deliver(c)
  PROVE  IInv'
<1>. USE DEF IInv
<1>1. \A r \in Rule : Verdict(watch[r])' = Verdict(watch[r])
  BY DEF Deliver, tree, rules, Verdict
<1>2. TypeOK'
  BY DEF TypeOK, Deliver, Seed, tree, rules
<1>3. IndexFollows'
  BY DEF IndexFollows, Deliver, Running, IndexOf, rules
<1>4. ASSUME Running, NEW r \in Rule, Reminded(r), watch[r] # None
      PROVE  Reminded(r)'
  <2>0. watch' = watch /\ batch' = batch /\ queue' = queue \ {c} /\ watch[r] \in Did
    BY <1>4 DEF Deliver, rules, TypeOK
  <2>1. CASE r \in pending \cup batch
    BY <2>0, <2>1 DEF Reminded, Deliver, Seed
  <2>2. CASE \E k \in Kind : <<watch[r], k>> \in queue /\ <<watch[r], k>> # c
    BY <2>0, <2>2 DEF Reminded
  <2>3. CASE \E k \in Kind : <<watch[r], k>> = c
    <3>1. c[1] = watch[r]
      BY <2>3
    <3>2. r \in index[c[1]]
      BY <2>0, <3>1, <1>4 DEF IndexFollows, IndexOf
    <3>. QED
      BY <3>2, <1>4 DEF Deliver, Seed, Reminded
  <2>. QED
    BY <1>4, <2>1, <2>2, <2>3 DEF Reminded
<1>5. NoStaleRule'
  BY <1>1, <1>4 DEF NoStaleRule, Truth, Known, Running, Deliver, rules
<1>6. DiagnosesCurrent'
  BY <1>1, <1>4 DEF DiagnosesCurrent, Running, Deliver, rules
<1>. QED
  BY <1>2, <1>3, <1>5, <1>6

LEMMA TakeBatchStep ==
  ASSUME IInv, TakeBatch
  PROVE  IInv'
<1>. USE DEF IInv
<1>1. \A r \in Rule : Verdict(watch[r])' = Verdict(watch[r])
  BY DEF TakeBatch, tree, rules, Verdict
<1>2. TypeOK'
  BY DEF TypeOK, TakeBatch, tree, rules
<1>3. IndexFollows'
  BY DEF IndexFollows, TakeBatch, Running, IndexOf, rules
<1>4. \A r \in Rule : Reminded(r) => Reminded(r)'
  BY DEF Reminded, TakeBatch, rules
<1>5. NoStaleRule'
  BY <1>1, <1>4 DEF NoStaleRule, Truth, Known, Running, TakeBatch, rules
<1>6. DiagnosesCurrent'
  BY <1>1, <1>4 DEF DiagnosesCurrent, Running, TakeBatch, rules
<1>. QED
  BY <1>2, <1>3, <1>5, <1>6

LEMMA EvaluateOneStep ==
  ASSUME IInv, NEW r \in Rule, EvaluateOne(r)
  PROVE  IInv'
<1>. USE DEF IInv
<1>1. \A q \in Rule : Verdict(watch[q])' = Verdict(watch[q])
  BY DEF EvaluateOne, tree, rules, Verdict
<1>2. TypeOK'
  <2>1. CASE watch[r] = None
    BY <2>1 DEF TypeOK, EvaluateOne, tree, rules
  <2>2. CASE watch[r] # None
    <3>1. watch[r] \in Did
      BY <2>2 DEF TypeOK
    <3>2. /\ Verdict(watch[r]) \in {"true", "false", "path_missing", "device_offline", "eval_failed"}
          /\ Known(Verdict(watch[r])) \in {"true", "false", "unknown"}
      BY <3>1, VerdictType, KnownType
    <3>. QED
      BY <2>2, <3>2 DEF TypeOK, EvaluateOne, tree, rules
  <2>. QED
    BY <2>1, <2>2
<1>3. IndexFollows'
  BY DEF IndexFollows, EvaluateOne, Running, IndexOf, rules
<1>4. \A q \in Rule \ {r} : Reminded(q) => Reminded(q)'
  BY DEF Reminded, EvaluateOne, rules
<1>5. \A q \in Rule \ {r} : seen'[q] = seen[q] /\ diag'[q] = diag[q]
  BY DEF EvaluateOne, TypeOK
<1>6. watch[r] # None => /\ diag'[r] = Verdict(watch[r])
                         /\ active[r] => seen'[r] = Known(Verdict(watch[r]))
  BY DEF EvaluateOne, TypeOK
<1>7. watch[r] = None => diag'[r] = diag[r]
  BY DEF EvaluateOne
<1>8. NoStaleRule'
  BY <1>1, <1>4, <1>5, <1>6 DEF NoStaleRule, Truth, Known, Running, EvaluateOne, rules
<1>9. DiagnosesCurrent'
  BY <1>1, <1>4, <1>5, <1>6, <1>7 DEF DiagnosesCurrent, Running, EvaluateOne, rules
<1>. QED
  BY <1>2, <1>3, <1>8, <1>9

\* A configuration call touches one rule, and leaves it reminded, out of judgement or gone.
LEMMA ConfigureStep ==
  ASSUME IInv, NEW r \in Rule, Running,
         UNCHANGED <<tree, queue, phase, batch>>,
         TypeOK', IndexFollows',
         pending \subseteq pending',
         \A q \in Rule \ {r} : watch'[q] = watch[q] /\ active'[q] = active[q] /\ seen'[q] = seen[q],
         \A q \in Rule : diag'[q] = diag[q] \/ diag'[q] = "none",
         watch'[r] = None => diag'[r] = "none",
         watch'[r] # None => Reminded(r)' \/ (watch'[r] = watch[r] /\ ~active'[r])
  PROVE  IInv'
<1>. USE DEF IInv
<1>1. \A d : Verdict(d)' = Verdict(d)
  BY DEF tree, Verdict
<1>2. \A q \in Rule : watch'[q] = watch[q] /\ Reminded(q) => Reminded(q)'
  BY DEF Reminded
<1>3. NoStaleRule'
  <2>. SUFFICES ASSUME NEW q \in Rule, watch'[q] # None, active'[q], seen'[q] # Truth(q)'
                PROVE  Reminded(q)'
    BY DEF NoStaleRule
  <2>1. CASE q = r
    BY <2>1
  <2>2. CASE q # r
    BY <2>2, <1>1, <1>2 DEF NoStaleRule, Truth, Known
  <2>. QED
    BY <2>1, <2>2
<1>4. DiagnosesCurrent'
  <2>. SUFFICES ASSUME NEW q \in Rule, diag'[q] # "none"
                PROVE  watch'[q] # None /\ (diag'[q] # Verdict(watch[q])' => Reminded(q)')
    BY DEF DiagnosesCurrent
  <2>1. diag'[q] = diag[q] /\ watch[q] # None /\ (diag[q] # Verdict(watch[q]) => Reminded(q))
    BY DEF DiagnosesCurrent
  <2>2. CASE q = r
    BY <2>1, <2>2, <1>1, <1>2
  <2>3. CASE q # r
    BY <2>1, <2>3, <1>1, <1>2
  <2>. QED
    BY <2>2, <2>3
<1>. QED
  BY <1>3, <1>4

LEMMA Configures ==
  ASSUME IInv, Configure
  PROVE  IInv'
<1>. PICK r \in Rule :
       \/ \E d \in Did, en \in BOOLEAN, reset \in BOOLEAN : ConfigureRule(r, d, en, reset)
       \/ RemoveRule(r) \/ PauseTask(r) \/ ResumeTask(r)
  BY DEF Configure
<1>. USE DEF IInv
<1>1. ASSUME NEW d \in Did, NEW en \in BOOLEAN, NEW reset \in BOOLEAN,
             ConfigureRule(r, d, en, reset)
      PROVE  IInv'
  <2>1. TypeOK'
    BY <1>1 DEF TypeOK, ConfigureRule, RebuildIndex, IndexOf, Seed, tree
  <2>2. IndexFollows'
    BY <1>1 DEF IndexFollows, ConfigureRule, RebuildIndex
  <2>3. Reminded(r)' /\ pending \subseteq pending' /\ watch'[r] = d
    BY <1>1 DEF Reminded, ConfigureRule, Seed, TypeOK
  <2>4. \A q \in Rule : diag'[q] = diag[q] \/ diag'[q] = "none"
    BY <1>1 DEF ConfigureRule, RebuildIndex
  <2>5. \A q \in Rule \ {r} : watch'[q] = watch[q] /\ active'[q] = active[q] /\ seen'[q] = seen[q]
    BY <1>1 DEF ConfigureRule, TypeOK
  <2>6. d # None
    BY NoneAssumption
  <2>7. Running /\ UNCHANGED <<tree, queue, phase, batch>>
    BY <1>1 DEF ConfigureRule
  <2>. QED
    BY <2>1, <2>2, <2>3, <2>4, <2>5, <2>6, <2>7, ConfigureStep
<1>2. ASSUME RemoveRule(r)
      PROVE  IInv'
  <2>1. TypeOK'
    BY <1>2 DEF TypeOK, RemoveRule, RebuildIndex, IndexOf, tree
  <2>2. IndexFollows'
    BY <1>2 DEF IndexFollows, RemoveRule, RebuildIndex
  <2>3. watch'[r] = None /\ diag'[r] = "none"
    BY <1>2 DEF RemoveRule, RebuildIndex, TypeOK
  <2>4. \A q \in Rule : diag'[q] = diag[q] \/ diag'[q] = "none"
    BY <1>2 DEF RemoveRule, RebuildIndex
  <2>5. \A q \in Rule \ {r} : watch'[q] = watch[q] /\ active'[q] = active[q] /\ seen'[q] = seen[q]
    BY <1>2 DEF RemoveRule, TypeOK
  <2>6. Running /\ UNCHANGED <<tree, queue, phase, batch>> /\ pending \subseteq pending'
    BY <1>2 DEF RemoveRule
  <2>. QED
    BY <2>1, <2>2, <2>3, <2>4, <2>5, <2>6, ConfigureStep
<1>3. ASSUME PauseTask(r)
      PROVE  IInv'
  <2>1. TypeOK'
    BY <1>3 DEF TypeOK, PauseTask, tree
  <2>2. IndexFollows'
    BY <1>3 DEF IndexFollows, PauseTask, Running, IndexOf
  <2>3. watch' = watch /\ watch[r] # None /\ ~active'[r] /\ diag' = diag
    BY <1>3 DEF PauseTask, TypeOK
  <2>5. \A q \in Rule \ {r} : watch'[q] = watch[q] /\ active'[q] = active[q] /\ seen'[q] = seen[q]
    BY <1>3 DEF PauseTask, TypeOK
  <2>6. Running /\ UNCHANGED <<tree, queue, phase, batch>> /\ pending \subseteq pending'
    BY <1>3 DEF PauseTask
  <2>. QED
    BY <2>1, <2>2, <2>3, <2>5, <2>6, ConfigureStep
<1>4. ASSUME ResumeTask(r)
      PROVE  IInv'
  <2>1. TypeOK'
    BY <1>4 DEF TypeOK, ResumeTask, RebuildIndex, IndexOf, Seed, tree
  <2>2. IndexFollows'
    BY <1>4 DEF IndexFollows, ResumeTask, RebuildIndex, IndexOf
  <2>3. Reminded(r)' /\ pending \subseteq pending' /\ watch' = watch /\ watch[r] # None
    BY <1>4 DEF Reminded, ResumeTask, Seed
  <2>4. \A q \in Rule : diag'[q] = diag[q] \/ diag'[q] = "none"
    BY <1>4 DEF ResumeTask, RebuildIndex
  <2>5. \A q \in Rule \ {r} : watch'[q] = watch[q] /\ active'[q] = active[q] /\ seen'[q] = seen[q]
    BY <1>4 DEF ResumeTask, TypeOK
  <2>7. Running /\ UNCHANGED <<tree, queue, phase, batch>>
    BY <1>4 DEF ResumeTask
  <2>. QED
    BY <2>1, <2>2, <2>3, <2>4, <2>5, <2>7, ConfigureStep
<1>. QED
  BY <1>1, <1>2, <1>3, <1>4

LEMMA LifeStep ==
  ASSUME IInv, Life
  PROVE  IInv'
<1>. USE DEF IInv, tree, rules
<1>1. CASE StartSource
  <2>1. TypeOK'
    BY <1>1 DEF TypeOK, StartSource, RebuildIndex, IndexOf, Seed
  <2>2. IndexFollows'
    BY <1>1 DEF IndexFollows, StartSource, RebuildIndex, IndexOf
  <2>3. \A r \in Rule : watch'[r] # None => Reminded(r)'
    BY <1>1 DEF StartSource, Seed, Reminded
  <2>4. \A r \in Rule : watch'[r] = None => diag'[r] = "none"
    BY <1>1 DEF StartSource, RebuildIndex
  <2>5. NoStaleRule'
    BY <2>3 DEF NoStaleRule
  <2>6. DiagnosesCurrent'
    BY <2>3, <2>4 DEF DiagnosesCurrent
  <2>. QED
    BY <2>1, <2>2, <2>5, <2>6
<1>2. CASE StartStore \/ StopSource \/ StopStore \/ Restart
  <2>1. TypeOK'
    <3>1. CASE StartStore
      BY <3>1 DEF TypeOK, StartStore
    <3>2. CASE StopSource
      BY <3>2 DEF TypeOK, StopSource
    <3>3. CASE StopStore
      BY <3>3 DEF TypeOK, StopStore
    <3>4. CASE Restart
      BY <3>4 DEF TypeOK, Restart
    <3>. QED
      BY <1>2, <3>1, <3>2, <3>3, <3>4
  <2>2. phase' # "running"
    BY <1>2 DEF StartStore, StopSource, StopStore, Restart
  <2>. QED
    BY <2>1, <2>2 DEF IndexFollows, NoStaleRule, DiagnosesCurrent, Running
<1>. QED
  BY <1>1, <1>2 DEF Life

LEMMA InvNext == IInv /\ [Next]_vars => IInv'
<1>. SUFFICES ASSUME IInv, [Next]_vars
              PROVE  IInv'
  OBVIOUS
<1>1. CASE UNCHANGED vars
  BY <1>1 DEF IInv, vars, tree, rules, TypeOK, IndexFollows, NoStaleRule, DiagnosesCurrent,
     Running, IndexOf, Truth, Known, Verdict, Reminded
<1>2. CASE Next
  BY <1>2, Writes, Configures, LifeStep, TakeBatchStep, DeliverStep, EvaluateOneStep DEF Next
<1>. QED
  BY <1>1, <1>2

-----------------------------------------------------------------------------
(* The theorems. *)

\* The inductive invariant holds of every state of every behaviour.
THEOREM Invariance == Spec => []IInv
BY InvInit, InvNext, PTL DEF Spec

\* Every variable keeps its type.
THEOREM TypeCorrect == Spec => []TypeOK
<1>1. IInv => TypeOK
  BY DEF IInv
<1>. QED
  BY <1>1, Invariance, PTL

\* A rule that is judged knows the present value of its condition, or somebody is
\* still going to judge it (rule/iot_source.py:247).
THEOREM NoRuleStale == Spec => []NoStaleRule
<1>1. IInv => NoStaleRule
  BY DEF IInv
<1>. QED
  BY <1>1, Invariance, PTL

\* A diagnosis speaks of a rule that exists, and is current or about to be replaced
\* (rule/iot_source.py:284).
THEOREM NoDiagnosisStale == Spec => []DiagnosesCurrent
<1>1. IInv => DiagnosesCurrent
  BY DEF IInv
<1>. QED
  BY <1>1, Invariance, PTL

-----------------------------------------------------------------------------
(* The source implements the safety of RuleView: every step of it is a     *)
(* step of the view.                                                       *)

\* A step after which some rules have forgotten and none was told anything.
LEMMA Forgets ==
  ASSUME TypeOK, TypeOK', \A r \in Rule : seen'[r] = seen[r] \/ seen'[r] = "unknown"
  PROVE  View!Move
<1> DEFINE F == {r \in Rule : seen'[r] # seen[r]}
<1>1. F \in SUBSET Rule
  OBVIOUS
<1>2. seen' = [r \in Rule |-> IF r \in F THEN "unknown" ELSE seen[r]]
  BY DEF TypeOK
<1>. HIDE DEF F
<1>. QED
  BY <1>1, <1>2 DEF View!Move

LEMMA EvaluateOneObserves ==
  ASSUME IInv, IInv', NEW r \in Rule, EvaluateOne(r)
  PROVE  View!Next
<1>1. TypeOK /\ TypeOK'
  BY DEF IInv
<1>2. \A q \in Rule \ {r} : seen'[q] = seen[q]
  BY <1>1 DEF EvaluateOne, TypeOK
<1>3. CASE seen'[r] = seen[r] \/ seen'[r] = "unknown"
  BY <1>1, <1>2, <1>3, Forgets DEF View!Next
<1>4. CASE seen'[r] # seen[r] /\ seen'[r] # "unknown"
  <2>1. watch[r] # None /\ active[r] /\ seen' = [seen EXCEPT ![r] = Truth(r)]
    BY <1>1, <1>4 DEF EvaluateOne, TypeOK, Truth
  <2>2. Running /\ Running'
    BY DEF EvaluateOne, Running
  <2>3. UNCHANGED <<online, prop, watch, active>>
    BY DEF EvaluateOne, tree, rules
  <2>4. \A q \in Rule : Truth(q)' = Truth(q)
    BY <2>3 DEF Truth, Known, Verdict
  <2>5. [q \in Rule |-> Truth(q)]' = [q \in Rule |-> Truth(q)]
    BY <2>4
  <2>6. seen[r] # Truth(r)
    BY <1>1, <1>4, <2>1 DEF TypeOK
  <2>7. View!Observe(r)
    BY <2>1, <2>2, <2>3, <2>5, <2>6 DEF View!Observe
  <2>. QED
    BY <2>7 DEF View!Next
<1>. QED
  BY <1>3, <1>4

LEMMA StepOfView ==
  ASSUME IInv, IInv', [Next]_vars
  PROVE  [View!Next]_(View!vars)
<1>1. TypeOK /\ TypeOK'
  BY DEF IInv
<1>2. ASSUME NEW r \in Rule, EvaluateOne(r)
      PROVE  View!Next
  BY <1>2, EvaluateOneObserves
<1>3. ASSUME ~ \E r \in Rule : EvaluateOne(r)
      PROVE  \A q \in Rule : seen'[q] = seen[q] \/ seen'[q] = "unknown"
  <2>1. CASE Write
    BY <1>1, <2>1 DEF Write, WriteOnline, WriteProp, Drop
  <2>2. CASE Configure
    <3>. PICK r \in Rule :
           \/ \E d \in Did, en \in BOOLEAN, reset \in BOOLEAN : ConfigureRule(r, d, en, reset)
           \/ RemoveRule(r) \/ PauseTask(r) \/ ResumeTask(r)
      BY <2>2 DEF Configure
    <3>1. seen' = seen \/ seen' = [seen EXCEPT ![r] = "unknown"]
      BY DEF ConfigureRule, RemoveRule, PauseTask, ResumeTask
    <3>. QED
      BY <1>1, <3>1 DEF TypeOK
  <2>3. CASE Life
    BY <1>1, <2>3 DEF TypeOK, Life, StartStore, StartSource, StopSource, StopStore, Restart
  <2>4. CASE TakeBatch \/ \E c \in Did \X Kind : Deliver(c)
    BY <2>4 DEF TakeBatch, Deliver
  <2>5. CASE UNCHANGED vars
    BY <2>5 DEF vars
  <2>. QED
    BY <1>3, <2>1, <2>2, <2>3, <2>4, <2>5 DEF Next
<1>. QED
  BY <1>1, <1>2, <1>3, Forgets DEF View!Next

\* No rule is ever told anything but the present value of its condition: each step
\* of the source is one of RuleView or changes nothing of it (rule/iot_source.py:225).
THEOREM TellsOnlyTheTruth == Spec => View!Init /\ [][View!Next]_(View!vars)
<1>1. Init => View!Init
  BY DEF Init, View!Init, Running
<1>2. IInv /\ IInv' /\ [Next]_vars => [View!Next]_(View!vars)
  BY StepOfView
<1>. QED
  BY <1>1, <1>2, Invariance, PTL DEF Spec

(***************************************************************************)
(* The milestone of a task                                                 *)
(***************************************************************************)

\* The targets are minutes, zero is none; the bounds are numbers.
GoalParameters == Targets \subseteq Nat \ {0} /\ MaxWork \in Nat /\ MaxBack \in Nat

\* The minutes of a day are in its bounds, and a closed session has none.
WithinDay == done + run <= MaxWork /\ (~open => run = 0)

\* The state machine is on for tasks that are not paused.
OnIsActive == on => ~paused

\* What was told of a milestone that still exists, and was not forgotten, is carried by
\* its condition. A paused task has none: resuming it must seed.
ToldIsCarried == told /\ ~forgot /\ ~paused /\ target # Goal!NoTarget => cond

\* The inductive invariant.
GoalInv ==
  /\ Goal!TypeOK /\ WithinDay /\ OnIsActive
  /\ Goal!TimersFollowSession
  /\ ToldIsCarried /\ Goal!ToldOnce

\* What arms keeps its type.
LEMMA ArmTypes ==
  ASSUME NEW A \in SUBSET Goal!Arms, NEW t, NEW b \in BOOLEAN
  PROVE  Goal!Void(A) \in SUBSET Goal!Arms /\ Goal!Armed(A, t, b) \in SUBSET Goal!Arms
<1>1. ASSUME NEW a \in A PROVE [a EXCEPT !.live = FALSE] \in Goal!Arms
  BY DEF Goal!Arms
<1>2. Goal!Fresh(b) \in Goal!Arms
  BY DEF Goal!Fresh, Goal!Arms
<1>. QED BY <1>1, <1>2 DEF Goal!Void, Goal!Armed

\* A fresh round is live, a void one is not.
LEMMA ArmLives ==
  ASSUME NEW A \in SUBSET Goal!Arms, NEW t, NEW b \in BOOLEAN
  PROVE  /\ \A a \in Goal!Void(A) : ~a.live
         /\ t # Goal!NoTarget => \E a \in Goal!Armed(A, t, b) : a.live
         /\ \A a \in Goal!Armed(A, t, b) : a \in A \/ a.night = b
<1>1. \A a \in Goal!Void(A) : ~a.live
  BY DEF Goal!Void, Goal!Arms
<1>2. t # Goal!NoTarget => \E a \in Goal!Armed(A, t, b) : a.live
  <2>. Goal!Fresh(b).live BY DEF Goal!Fresh
  <2>. QED BY DEF Goal!Armed
<1>3. \A a \in Goal!Armed(A, t, b) : a \in A \/ a.night = b
  BY DEF Goal!Armed, Goal!Fresh
<1>. QED BY <1>1, <1>2, <1>3

\* Feeding true keeps the types, carries what it tells, and tells once.
LEMMA FeedStep ==
  ASSUME Goal!TypeOK, ToldIsCarried, Goal!ToldOnce, target # Goal!NoTarget, Goal!FeedTrue(on),
         UNCHANGED <<paused, target>>
  PROVE  /\ cond' \in BOOLEAN /\ log' \in {"none", "writing", "today"}
         /\ told' \in BOOLEAN /\ twice' \in BOOLEAN /\ forgot' \in BOOLEAN
         /\ seeded' \in BOOLEAN /\ eve' \in BOOLEAN
         /\ ToldIsCarried' /\ Goal!ToldOnce'
         /\ cond \/ ~paused => cond'
<1>1. cond' \in BOOLEAN /\ log' \in {"none", "writing", "today"}
  BY DEF Goal!TypeOK, Goal!FeedTrue, Goal!Tell
<1>2. told' \in BOOLEAN /\ twice' \in BOOLEAN /\ forgot' \in BOOLEAN
  BY Zenon DEF Goal!TypeOK, Goal!FeedTrue, Goal!Tell, Goal!Told
<1>3. seeded' \in BOOLEAN /\ eve' \in BOOLEAN
  BY DEF Goal!TypeOK, Goal!FeedTrue
<1>4. cond \/ ~paused => cond'
  BY DEF Goal!FeedTrue
<1>5. ToldIsCarried'
  BY <1>4 DEF ToldIsCarried
<1>6. Goal!ToldOnce'
  BY DEF Goal!ToldOnce, ToldIsCarried, Goal!FeedTrue, Goal!Tell, Goal!Told
<1>. QED BY <1>1, <1>2, <1>3, <1>4, <1>5, <1>6

\* What is reached has a target.
LEMMA ReachedHasTarget == Goal!Reached => target # Goal!NoTarget
BY DEF Goal!Reached, Goal!Reaches

-------------------------------------------------------------------------------

\* Arm of a task that stays on, disarm of one that is off.
LEMMA ArmHolds ==
  ASSUME Goal!TypeOK, Goal!TimersFollowSession, Goal!Arm, on', target' = target
  PROVE  /\ arming' \in SUBSET Goal!Arms /\ timer' \in Goal!Arms \cup {Goal!NoTimer}
         /\ Goal!TimersFollowSession'
BY ArmTypes, ArmLives DEF Goal!TypeOK, Goal!Arm, Goal!TimersFollowSession

LEMMA DisarmHolds ==
  ASSUME Goal!TypeOK, Goal!Disarm, ~on'
  PROVE  /\ arming' \in SUBSET Goal!Arms /\ timer' \in Goal!Arms \cup {Goal!NoTimer}
         /\ Goal!TimersFollowSession'
BY ArmTypes, ArmLives DEF Goal!TypeOK, Goal!Disarm, Goal!TimersFollowSession, Goal!NoTimer

\* A step that leaves source, state machine and condition alone, or makes it true.
LEMMA SourceKept ==
  ASSUME Goal!TypeOK, Goal!TimersFollowSession, UNCHANGED Goal!source, cond => cond',
         on' => on, target' = target, on => on' \/ UNCHANGED on
  PROVE  /\ arming' \in SUBSET Goal!Arms /\ timer' \in Goal!Arms \cup {Goal!NoTimer}
         /\ Goal!TimersFollowSession'
BY DEF Goal!TypeOK, Goal!source, Goal!TimersFollowSession

\* A round that still counts finds the target reached or sets the timer.
LEMMA ReckonHolds ==
  ASSUME GoalInv, NEW a \in Goal!Arms, a.live, ~on => a.night, Goal!Reckon(a),
         arming' \subseteq arming, UNCHANGED <<Goal!machine, Goal!record, Goal!night>>
  PROVE  GoalInv'
<1>. USE DEF GoalInv
<1>u. on' = on /\ paused' = paused /\ target' = target
  BY DEF Goal!machine, Goal!record
<1>m. WithinDay' /\ OnIsActive'
  BY DEF Goal!machine, Goal!record, WithinDay, OnIsActive
<1>1. CASE Goal!Reached
  <2>1. timer' = Goal!NoTimer /\ Goal!FeedTrue(on)
    BY <1>1 DEF Goal!Reckon
  <2>2. target # Goal!NoTarget
    BY <1>1, ReachedHasTarget
  <2>3. /\ cond' \in BOOLEAN /\ log' \in {"none", "writing", "today"}
        /\ told' \in BOOLEAN /\ twice' \in BOOLEAN /\ forgot' \in BOOLEAN
        /\ seeded' \in BOOLEAN /\ eve' \in BOOLEAN
        /\ ToldIsCarried' /\ Goal!ToldOnce'
        /\ cond \/ ~paused => cond'
    BY <2>1, <2>2, <1>u, FeedStep
  <2>4. Goal!TypeOK'
    BY <2>1, <2>3 DEF Goal!TypeOK, Goal!machine, Goal!record, Goal!night
  <2>5. on' => cond'
    BY <2>3, <1>u DEF OnIsActive
  <2>6. Goal!TimersFollowSession'
    BY <2>1, <2>5, <1>u DEF Goal!TimersFollowSession, Goal!NoTimer
  <2>. QED BY <2>3, <2>4, <2>6, <1>m
<1>2. CASE ~Goal!Reached
  <2>1. timer' = a /\ UNCHANGED <<cond, log, Goal!history>>
    BY <1>2 DEF Goal!Reckon
  <2>2. Goal!TypeOK'
    BY <2>1 DEF Goal!TypeOK, Goal!machine, Goal!record, Goal!night, Goal!history
  <2>3. a.set
    BY DEF Goal!Arms
  <2>4. Goal!TimersFollowSession'
    BY <2>1, <2>3, <1>u DEF Goal!TimersFollowSession
  <2>5. ToldIsCarried' /\ Goal!ToldOnce'
    BY <2>1, <1>u DEF ToldIsCarried, Goal!ToldOnce, Goal!history
  <2>. QED BY <2>2, <2>4, <2>5, <1>m
<1>. QED BY <1>1, <1>2

\* A coroutine of arm.
LEMMA ArmOneStep == GoalInv /\ (\E a \in arming : Goal!ArmOne(a)) => GoalInv'
<1>. SUFFICES ASSUME GoalInv, NEW a \in arming, Goal!ArmOne(a) PROVE GoalInv'
  OBVIOUS
<1>a. a \in Goal!Arms
  BY DEF GoalInv, Goal!TypeOK
<1>1. CASE Goal!RoundIsOver(a)
  <2>1. UNCHANGED <<timer, cond, log, Goal!history>> /\ arming' = arming \ {a}
    BY <1>1 DEF Goal!ArmOne
  <2>2. UNCHANGED <<Goal!machine, Goal!record, Goal!night>>
    BY DEF Goal!ArmOne
  <2>3. Goal!TypeOK'
    BY <2>1, <2>2 DEF GoalInv, Goal!TypeOK, Goal!machine, Goal!record, Goal!night, Goal!history
  <2>4. Goal!TimersFollowSession'
    BY <2>1, <2>2, <1>1 DEF GoalInv, Goal!TimersFollowSession, Goal!RoundIsOver, Goal!machine, Goal!record
  <2>. QED BY <2>1, <2>2, <2>3, <2>4
    DEF GoalInv, WithinDay, OnIsActive, ToldIsCarried, Goal!ToldOnce, Goal!machine, Goal!record, Goal!history
<1>2. CASE ~Goal!RoundIsOver(a)
  <2>1. Goal!Reckon(a) /\ arming' = arming \ {a} /\ UNCHANGED <<Goal!machine, Goal!record, Goal!night>>
    BY <1>2 DEF Goal!ArmOne
  <2>2. a.live /\ (~on => a.night)
    BY <1>2 DEF Goal!RoundIsOver, GoalInv, Goal!TimersFollowSession
  <2>. QED BY <2>1, <2>2, <1>a, ReckonHolds
<1>. QED BY <1>1, <1>2

\* The timer.
LEMMA TimerStep == GoalInv /\ Goal!TimerDue => GoalInv'
<1>. SUFFICES ASSUME GoalInv, Goal!TimerDue PROVE GoalInv'
  OBVIOUS
<1>a. timer \in Goal!Arms
  BY DEF GoalInv, Goal!TypeOK, Goal!TimerDue, Goal!NoTimer
<1>u. timer.set /\ UNCHANGED <<Goal!machine, Goal!record, Goal!night, arming>>
  BY DEF Goal!TimerDue
<1>1. CASE Goal!RoundIsOver(timer)
  <2>1. timer' = Goal!NoTimer /\ UNCHANGED <<cond, log, Goal!history>>
    BY <1>1 DEF Goal!TimerDue
  <2>3. Goal!TypeOK'
    BY <2>1, <1>u DEF GoalInv, Goal!TypeOK, Goal!machine, Goal!record, Goal!night, Goal!history
  <2>4. Goal!TimersFollowSession'
    BY <2>1, <1>u, <1>1
    DEF GoalInv, Goal!TimersFollowSession, Goal!RoundIsOver, Goal!machine, Goal!record, Goal!NoTimer
  <2>. QED BY <2>1, <1>u, <2>3, <2>4
    DEF GoalInv, WithinDay, OnIsActive, ToldIsCarried, Goal!ToldOnce, Goal!machine, Goal!record, Goal!history
<1>2. CASE ~Goal!RoundIsOver(timer)
  <2>1. Goal!Reckon(timer)
    BY <1>2 DEF Goal!TimerDue
  <2>2. timer.live /\ (~on => timer.night)
    BY <1>2, <1>u DEF Goal!RoundIsOver, GoalInv, Goal!TimersFollowSession
  <2>. QED BY <2>1, <2>2, <1>a, <1>u, ReckonHolds
<1>. QED BY <1>1, <1>2

-------------------------------------------------------------------------------

\* The task enters.
LEMMA EnterStep == GoalInv /\ Goal!Enter => GoalInv'
<1>. SUFFICES ASSUME GoalInv, Goal!Enter PROVE GoalInv'
  OBVIOUS
<1>. USE DEF GoalInv
<1>1. /\ ~paused /\ on' = TRUE /\ Goal!Arm /\ target' = target
      /\ UNCHANGED <<paused, Goal!record, cond, Goal!night, log, Goal!history>>
  BY DEF Goal!Enter, Goal!record
<1>2. /\ arming' \in SUBSET Goal!Arms /\ timer' \in Goal!Arms \cup {Goal!NoTimer}
      /\ Goal!TimersFollowSession'
  BY <1>1, ArmHolds
<1>3. Goal!TypeOK'
  BY <1>1, <1>2 DEF Goal!TypeOK, Goal!record, Goal!night, Goal!history
<1>. QED BY <1>1, <1>2, <1>3
  DEF WithinDay, OnIsActive, ToldIsCarried, Goal!ToldOnce, Goal!record, Goal!history

\* Settling keeps the types, carries what it tells, and tells once.
LEMMA SettleStep ==
  ASSUME Goal!TypeOK, ToldIsCarried, Goal!ToldOnce, Goal!Settle, UNCHANGED <<paused, target>>
  PROVE  /\ cond' \in BOOLEAN /\ log' \in {"none", "writing", "today"}
         /\ told' \in BOOLEAN /\ twice' \in BOOLEAN /\ forgot' \in BOOLEAN
         /\ seeded' \in BOOLEAN /\ eve' \in BOOLEAN
         /\ ToldIsCarried' /\ Goal!ToldOnce' /\ (cond => cond')
<1>1. CASE Goal!Reached
  BY <1>1, FeedStep, ReachedHasTarget DEF Goal!Settle
<1>2. CASE ~Goal!Reached
  <2>1. UNCHANGED <<cond, log, Goal!history>>
    BY <1>2 DEF Goal!Settle
  <2>. QED BY <2>1 DEF Goal!TypeOK, ToldIsCarried, Goal!ToldOnce, Goal!history
<1>. QED BY <1>1, <1>2

\* The task leaves.
LEMMA ExitStep == GoalInv /\ Goal!Exit => GoalInv'
<1>. SUFFICES ASSUME GoalInv, Goal!Exit PROVE GoalInv'
  OBVIOUS
<1>. USE DEF GoalInv
<1>1. /\ ~paused /\ on' = FALSE /\ UNCHANGED <<paused, Goal!record, Goal!night>> /\ target' = target
      /\ IF on THEN Goal!Disarm ELSE UNCHANGED Goal!source
      /\ Goal!Settle
  BY DEF Goal!Exit, Goal!record
<1>2. /\ cond' \in BOOLEAN /\ log' \in {"none", "writing", "today"}
      /\ told' \in BOOLEAN /\ twice' \in BOOLEAN /\ forgot' \in BOOLEAN
      /\ seeded' \in BOOLEAN /\ eve' \in BOOLEAN
      /\ ToldIsCarried' /\ Goal!ToldOnce' /\ (cond => cond')
  BY <1>1, SettleStep
<1>3. /\ arming' \in SUBSET Goal!Arms /\ timer' \in Goal!Arms \cup {Goal!NoTimer}
      /\ Goal!TimersFollowSession'
  <2>1. CASE on
    BY <2>1, <1>1, DisarmHolds
  <2>2. CASE ~on
    BY <2>2, <1>1 DEF Goal!TypeOK, Goal!source, Goal!TimersFollowSession
  <2>. QED BY <2>1, <2>2 DEF Goal!TypeOK
<1>4. Goal!TypeOK'
  BY <1>1, <1>2, <1>3 DEF Goal!TypeOK, Goal!record, Goal!night
<1>. QED BY <1>1, <1>2, <1>3, <1>4 DEF WithinDay, OnIsActive, Goal!record

\* The task would leave and is held.
LEMMA StillHeldStep == GoalInv /\ Goal!StillHeld => GoalInv'
<1>. SUFFICES ASSUME GoalInv, Goal!StillHeld PROVE GoalInv'
  OBVIOUS
<1>. USE DEF GoalInv
<1>1. UNCHANGED <<Goal!machine, Goal!record, Goal!source, Goal!night>> /\ Goal!Settle /\ target' = target
  BY DEF Goal!StillHeld, Goal!record
<1>2. /\ cond' \in BOOLEAN /\ log' \in {"none", "writing", "today"}
      /\ told' \in BOOLEAN /\ twice' \in BOOLEAN /\ forgot' \in BOOLEAN
      /\ seeded' \in BOOLEAN /\ eve' \in BOOLEAN
      /\ ToldIsCarried' /\ Goal!ToldOnce' /\ (cond => cond')
  BY <1>1, SettleStep DEF Goal!machine
<1>3. Goal!TimersFollowSession'
  BY <1>1, <1>2 DEF Goal!TimersFollowSession, Goal!machine, Goal!source
<1>4. Goal!TypeOK'
  BY <1>1, <1>2 DEF Goal!TypeOK, Goal!machine, Goal!record, Goal!source, Goal!night
<1>. QED BY <1>1, <1>2, <1>3, <1>4 DEF WithinDay, OnIsActive, Goal!machine, Goal!record

\* The target is set, changed or taken away.
LEMMA ReconfigureStep ==
  ASSUME GoalInv, NEW t \in Targets \cup {Goal!NoTarget}, NEW stay \in BOOLEAN,
         Goal!Reconfigure(t, stay)
  PROVE  GoalInv'
<1>. USE DEF GoalInv
<1>1. /\ target' = t /\ on' = (on /\ stay) /\ Goal!Reconcile(t)
      /\ UNCHANGED <<paused, done, open, run, Goal!night, log, told, twice, eve>>
  BY DEF Goal!Reconfigure
<1>2. /\ cond' \in BOOLEAN /\ seeded' \in BOOLEAN /\ forgot' \in BOOLEAN
      /\ ToldIsCarried' /\ Goal!ToldOnce'
  <2>1. CASE t = Goal!NoTarget
    BY <2>1, <1>1 DEF Goal!Reconcile, Goal!TypeOK, ToldIsCarried, Goal!ToldOnce
  <2>2. CASE t # Goal!NoTarget /\ target = Goal!NoTarget
    <3>1. /\ cond' = (log = "today") /\ seeded' = (cond' /\ ~told)
          /\ forgot' = (forgot \/ (told /\ log # "today"))
      BY <2>2, <1>1 DEF Goal!Reconcile
    <3>2. ToldIsCarried' /\ Goal!ToldOnce'
      BY <3>1, <1>1 DEF ToldIsCarried, Goal!ToldOnce
    <3>3. cond' \in BOOLEAN /\ seeded' \in BOOLEAN /\ forgot' \in BOOLEAN
      BY <3>1, Zenon
    <3>. QED BY <3>2, <3>3
  <2>3. CASE t # Goal!NoTarget /\ target # Goal!NoTarget
    <3>1. UNCHANGED <<cond, seeded, forgot>>
      BY <2>3, <1>1 DEF Goal!Reconcile
    <3>. QED BY <2>3, <3>1, <1>1 DEF Goal!TypeOK, ToldIsCarried, Goal!ToldOnce
  <2>. QED BY <2>1, <2>2, <2>3
<1>3. /\ arming' \in SUBSET Goal!Arms /\ timer' \in Goal!Arms \cup {Goal!NoTimer}
      /\ Goal!TimersFollowSession'
  <2>1. CASE t = Goal!NoTarget
    <3>1. arming' = {} /\ timer' = Goal!NoTimer
      BY <2>1 DEF Goal!Reconfigure
    <3>. QED BY <2>1, <3>1, <1>1 DEF Goal!TimersFollowSession, Goal!NoTimer
  <2>2. CASE t # Goal!NoTarget /\ on /\ ~stay
    <3>1. Goal!Disarm
      BY <2>2 DEF Goal!Reconfigure
    <3>. QED BY <2>2, <3>1, <1>1, DisarmHolds
  <2>3. CASE t # Goal!NoTarget /\ on /\ stay
    <3>1. arming' = Goal!Armed(arming, t, FALSE) /\ timer' = timer
      BY <2>3 DEF Goal!Reconfigure
    <3>2. arming \in SUBSET Goal!Arms
      BY DEF Goal!TypeOK
    <3>3. arming' \in SUBSET Goal!Arms /\ \E a \in arming' : a.live
      BY <2>3, <3>1, <3>2, ArmTypes, ArmLives
    <3>. QED BY <2>3, <3>1, <3>3, <1>1 DEF Goal!TimersFollowSession, Goal!TypeOK
  <2>4. CASE t # Goal!NoTarget /\ ~on
    <3>1. UNCHANGED Goal!source
      BY <2>4 DEF Goal!Reconfigure
    <3>. QED BY <2>4, <3>1, <1>1 DEF Goal!source, Goal!TimersFollowSession, Goal!TypeOK
  <2>. QED BY <2>1, <2>2, <2>3, <2>4
<1>4. on' \in BOOLEAN
  BY <1>1, Zenon
<1>5. Goal!TypeOK'
  BY <1>1, <1>2, <1>3, <1>4 DEF Goal!TypeOK, Goal!night
<1>. QED BY <1>1, <1>2, <1>3, <1>5 DEF WithinDay, OnIsActive

\* Pausing: the round is over, the condition goes and is not asked for.
LEMMA PauseStep == GoalParameters /\ GoalInv /\ Goal!Pause => GoalInv'
<1>. SUFFICES ASSUME GoalParameters, GoalInv, Goal!Pause PROVE GoalInv'
  OBVIOUS
<1>. USE DEF GoalInv
<1>1. /\ paused' = TRUE /\ on' = FALSE /\ cond' = FALSE /\ seeded' = FALSE /\ Goal!Disarm
      /\ done' = done + run /\ open' = FALSE /\ run' = 0
      /\ UNCHANGED <<target, Goal!night, log, told, twice, forgot, eve>>
  BY DEF Goal!Pause
<1>2. /\ arming' \in SUBSET Goal!Arms /\ timer' \in Goal!Arms \cup {Goal!NoTimer}
      /\ Goal!TimersFollowSession'
  BY <1>1, DisarmHolds
<1>3. done' \in 0..MaxWork /\ run' \in 0..MaxWork /\ WithinDay'
  BY <1>1 DEF GoalParameters, Goal!TypeOK, WithinDay
<1>4. Goal!TypeOK'
  BY <1>1, <1>2, <1>3 DEF Goal!TypeOK, Goal!night
<1>. QED BY <1>1, <1>2, <1>3, <1>4 DEF OnIsActive, ToldIsCarried, Goal!ToldOnce

\* Resuming: a target that is reached is seeded, one that is not was forgotten.
LEMMA ResumeStep == ASSUME GoalInv, NEW stay \in BOOLEAN, Goal!Resume(stay) PROVE GoalInv'
<1>. USE DEF GoalInv
<1>1. /\ paused' = FALSE /\ on' = (on /\ stay)
      /\ cond' = (cond \/ Goal!Reached)
      /\ seeded' = (seeded \/ (Goal!Reached /\ ~cond /\ ~told))
      /\ forgot' = (forgot \/ (told /\ ~cond /\ ~Goal!Reached))
      /\ target' = target /\ UNCHANGED <<Goal!record, Goal!night, log, told, twice, eve>>
  BY DEF Goal!Resume, Goal!record
<1>2. /\ arming' \in SUBSET Goal!Arms /\ timer' \in Goal!Arms \cup {Goal!NoTimer}
      /\ Goal!TimersFollowSession'
  <2>1. CASE on /\ stay
    <3>1. Goal!Arm
      BY <2>1 DEF Goal!Resume
    <3>. QED BY <2>1, <3>1, <1>1, ArmHolds
  <2>2. CASE on /\ ~stay
    <3>1. Goal!Disarm
      BY <2>2 DEF Goal!Resume
    <3>. QED BY <2>2, <3>1, <1>1, DisarmHolds
  <2>3. CASE ~on
    <3>1. UNCHANGED Goal!source
      BY <2>3 DEF Goal!Resume
    <3>. QED BY <2>3, <3>1, <1>1 DEF Goal!source, Goal!TimersFollowSession, Goal!TypeOK
  <2>. QED BY <2>1, <2>2, <2>3
<1>3. on' \in BOOLEAN /\ paused' \in BOOLEAN
  BY <1>1, Zenon
<1>4. cond' \in BOOLEAN /\ seeded' \in BOOLEAN /\ forgot' \in BOOLEAN
  BY <1>1, Zenon
<1>5. Goal!TypeOK'
  BY <1>1, <1>2, <1>3, <1>4 DEF Goal!TypeOK, Goal!record, Goal!night
<1>6. ToldIsCarried'
  BY <1>1 DEF ToldIsCarried
<1>. QED BY <1>1, <1>2, <1>5, <1>6 DEF WithinDay, OnIsActive, Goal!ToldOnce, Goal!record

\* A restart loses the condition and seeds it from the record.
LEMMA RestartStep ==
  ASSUME GoalParameters, GoalInv, NEW down \in {0, 1}, Goal!Restart(down) PROVE GoalInv'
<1>. USE DEF GoalInv
<1>1. /\ done + run + down <= MaxWork
      /\ run' = IF open THEN run + down ELSE run
      /\ on' = FALSE /\ arming' = {} /\ timer' = Goal!NoTimer
      /\ stage' = "idle" /\ pre' = FALSE
      /\ told' = (told /\ stage # "committed")
      /\ cond' = Goal!Reaches(target, done + run')
      /\ seeded' = (cond' /\ ~told')
      /\ forgot' = (told' /\ (forgot \/ ~cond'))
      /\ log' = IF log = "writing" THEN "none" ELSE log
      /\ UNCHANGED <<paused, target, done, open, late, twice, eve>>
  BY DEF Goal!Restart
<1>2. run' \in 0..MaxWork /\ WithinDay'
  BY <1>1 DEF GoalParameters, Goal!TypeOK, WithinDay
<1>3. cond' \in BOOLEAN
  BY <1>1, Zenon DEF Goal!Reaches
<1>4. told' \in BOOLEAN
  BY <1>1, Zenon
<1>5. seeded' \in BOOLEAN /\ forgot' \in BOOLEAN
  BY <1>1, Zenon
<1>6. Goal!TypeOK'
  BY <1>1, <1>2, <1>3, <1>4, <1>5 DEF Goal!TypeOK
<1>7. Goal!TimersFollowSession'
  BY <1>1 DEF Goal!TimersFollowSession, Goal!NoTimer
<1>8. ToldIsCarried'
  BY <1>1 DEF ToldIsCarried
<1>. QED BY <1>1, <1>2, <1>6, <1>7, <1>8 DEF OnIsActive, Goal!ToldOnce

\* The record moves, its task does not.
LEMMA RecordStep == GoalParameters /\ GoalInv /\ Goal!Record => GoalInv'
<1>. SUFFICES ASSUME GoalParameters, GoalInv, Goal!Record PROVE GoalInv'
  OBVIOUS
<1>. USE DEF GoalInv
<1>1. UNCHANGED <<Goal!machine, target, cond, Goal!source, Goal!night, log, Goal!history>>
  BY DEF Goal!Record, Goal!Minute, Goal!SessionStart, Goal!SessionEnd
<1>. DEFINE Minutes ==
       done \in 0..MaxWork /\ open \in BOOLEAN /\ run \in 0..MaxWork /\ WithinDay
<1>2. Minutes'
  <2>1. ASSUME Goal!Minute PROVE Minutes'
    BY <2>1 DEF Goal!Minute, GoalParameters, Goal!TypeOK, WithinDay
  <2>2. ASSUME NEW back \in 0..MaxBack, Goal!SessionStart(back) PROVE Minutes'
    BY <2>2 DEF Goal!SessionStart, GoalParameters, Goal!TypeOK, WithinDay
  <2>3. ASSUME NEW at \in 0..MaxWork, Goal!SessionEnd(at) PROVE Minutes'
    <3>1. at <= run /\ done' = done + at /\ open' = FALSE /\ run' = 0
      BY <2>3 DEF Goal!SessionEnd
    <3>2. done \in Nat /\ run \in Nat /\ at \in Nat /\ MaxWork \in Nat
      BY DEF GoalParameters, Goal!TypeOK
    <3>3. done' \in 0..MaxWork /\ run' \in 0..MaxWork /\ done' + run' <= MaxWork
      BY <3>1, <3>2 DEF WithinDay
    <3>. QED BY <3>1, <3>3 DEF WithinDay
  <2>. QED BY <2>1, <2>2, <2>3 DEF Goal!Record
<1>3. Goal!TypeOK'
  BY <1>1, <1>2 DEF Goal!TypeOK, Goal!machine, Goal!source, Goal!night, Goal!history
<1>. QED BY <1>1, <1>2, <1>3
  DEF Goal!TimersFollowSession, OnIsActive, ToldIsCarried, Goal!ToldOnce, Goal!machine, Goal!source, Goal!history

-------------------------------------------------------------------------------

\* The steps of a rollover before the source hears of it.
LEMMA NightStep ==
  GoalParameters /\ GoalInv /\ (Goal!Midnight \/ Goal!RollRead \/ Goal!RollCommit \/ Goal!FireEnds) => GoalInv'
<1>. SUFFICES ASSUME GoalParameters, GoalInv, Goal!Midnight \/ Goal!RollRead \/ Goal!RollCommit \/ Goal!FireEnds
              PROVE  GoalInv'
  OBVIOUS
<1>. USE DEF GoalInv
<1>1. UNCHANGED <<Goal!machine, target, open, cond, Goal!source, told, twice, forgot, seeded>>
  BY DEF Goal!Midnight, Goal!RollRead, Goal!RollCommit, Goal!FireEnds, Goal!record, Goal!history
<1>2. done' \in 0..MaxWork /\ run' \in 0..MaxWork /\ WithinDay'
  BY DEF Goal!Midnight, Goal!RollRead, Goal!RollCommit, Goal!FireEnds, Goal!record, GoalParameters, Goal!TypeOK, WithinDay
<1>3. Goal!Reached \in BOOLEAN
  BY DEF Goal!Reached, Goal!Reaches
<1>4. stage' \in {"idle", "read", "committed"} /\ pre' \in BOOLEAN /\ late' \in BOOLEAN
  BY <1>3 DEF Goal!Midnight, Goal!RollRead, Goal!RollCommit, Goal!FireEnds, Goal!night, Goal!TypeOK
<1>5. log' \in {"none", "writing", "today"} /\ eve' \in BOOLEAN
  BY DEF Goal!Midnight, Goal!RollRead, Goal!RollCommit, Goal!FireEnds, Goal!history, Goal!TypeOK
<1>6. Goal!TypeOK'
  BY <1>1, <1>2, <1>4, <1>5 DEF Goal!TypeOK, Goal!machine, Goal!source
<1>. QED BY <1>1, <1>2, <1>6
  DEF Goal!TimersFollowSession, OnIsActive, ToldIsCarried, Goal!ToldOnce, Goal!machine, Goal!source

\* The source hears of a rollover: nobody is told of the new day yet.
LEMMA RollOverStep == GoalInv /\ Goal!RollOver => GoalInv'
<1>. SUFFICES ASSUME GoalInv, Goal!RollOver PROVE GoalInv'
  OBVIOUS
<1>. USE DEF GoalInv
<1>1. /\ stage' = "idle" /\ pre' = FALSE
      /\ Goal!Tell(Goal!ToldOfTheEve) /\ eve' = (told \/ Goal!ToldOfTheEve)
      /\ told' = FALSE /\ forgot' = FALSE /\ seeded' = FALSE
      /\ cond' = (cond /\ paused)
      /\ arming' = Goal!Armed(Goal!Void(arming), target, ~on) /\ timer' = Goal!NoTimer
      /\ UNCHANGED <<Goal!machine, Goal!record, late>>
  BY DEF Goal!RollOver
<1>2. arming \in SUBSET Goal!Arms /\ (~on) \in BOOLEAN
  <2>1. arming \in SUBSET Goal!Arms
    BY DEF Goal!TypeOK
  <2>. QED BY <2>1, Zenon
<1>3. arming' \in SUBSET Goal!Arms /\ Goal!Void(arming) \in SUBSET Goal!Arms
  BY <1>1, <1>2, ArmTypes
<1>4. Goal!TimersFollowSession'
  <2>1. /\ target # Goal!NoTarget => \E a \in arming' : a.live
        /\ \A a \in arming' : a.live => a.night = ~on
    BY <1>1, <1>2, <1>3, ArmLives
  <2>. QED BY <2>1, <1>1 DEF Goal!TimersFollowSession, Goal!NoTimer, Goal!machine, Goal!record
<1>5. Goal!ToldOnce'
  BY <1>1 DEF Goal!Tell, Goal!ToldOfTheEve, Goal!Told, Goal!ToldOnce, ToldIsCarried
<1>6. twice' \in BOOLEAN /\ eve' \in BOOLEAN
  BY <1>1, Zenon DEF Goal!Tell
<1>7. cond' \in BOOLEAN
  BY <1>1, Zenon
<1>8. log' \in {"none", "writing", "today"}
  BY <1>1 DEF Goal!Tell, Goal!TypeOK
<1>9. Goal!TypeOK'
  BY <1>1, <1>3, <1>6, <1>7, <1>8 DEF Goal!TypeOK, Goal!machine, Goal!record
<1>. QED BY <1>1, <1>4, <1>5, <1>9 DEF WithinDay, OnIsActive, ToldIsCarried, Goal!machine, Goal!record

-------------------------------------------------------------------------------

LEMMA InitHolds == GoalParameters /\ Goal!Init => GoalInv
<1>. SUFFICES ASSUME GoalParameters, Goal!Init PROVE GoalInv
  OBVIOUS
<1>1. Goal!TypeOK
  <2>1. done \in 0..MaxWork /\ run \in 0..MaxWork
    BY DEF GoalParameters, Goal!Init
  <2>. QED BY <2>1 DEF Goal!Init, Goal!TypeOK
<1>2. WithinDay /\ OnIsActive /\ ToldIsCarried /\ Goal!ToldOnce
  BY DEF GoalParameters, Goal!Init, WithinDay, OnIsActive, ToldIsCarried, Goal!ToldOnce
<1>3. Goal!TimersFollowSession
  BY DEF Goal!Init, Goal!TimersFollowSession, Goal!NoTimer
<1>. QED BY <1>1, <1>2, <1>3 DEF GoalInv

LEMMA NextHolds == GoalParameters /\ GoalInv /\ [Goal!Next]_(Goal!vars) => GoalInv'
<1>. SUFFICES ASSUME GoalParameters, GoalInv, [Goal!Next]_(Goal!vars) PROVE GoalInv'
  OBVIOUS
<1>1. ASSUME Goal!Task PROVE GoalInv'
  BY <1>1, EnterStep, ExitStep, StillHeldStep, PauseStep, ResumeStep, ReconfigureStep DEF Goal!Task
<1>2. ASSUME Goal!Record PROVE GoalInv'
  BY <1>2, RecordStep
<1>3. ASSUME Goal!TimerDue \/ \E a \in arming : Goal!ArmOne(a) PROVE GoalInv'
  BY <1>3, TimerStep, ArmOneStep
<1>4. ASSUME NEW down \in {0, 1}, Goal!Restart(down) PROVE GoalInv'
  BY <1>4, RestartStep
<1>5. ASSUME Goal!Midnight \/ Goal!RollRead \/ Goal!RollCommit \/ Goal!FireEnds \/ Goal!RollOver PROVE GoalInv'
  BY <1>5, NightStep, RollOverStep
<1>6. ASSUME UNCHANGED Goal!vars PROVE GoalInv'
  BY <1>6 DEF Goal!vars, Goal!machine, Goal!record, Goal!source, Goal!night, Goal!history, GoalInv, Goal!TypeOK, WithinDay,
    OnIsActive, Goal!TimersFollowSession, ToldIsCarried, Goal!ToldOnce
<1>. QED BY <1>1, <1>2, <1>3, <1>4, <1>5, <1>6 DEF Goal!Next

\* The invariant, for any targets and any length of a day (rule/record_source.py:132).
THEOREM GoalInvariance == ASSUME GoalParameters PROVE Goal!Spec => []GoalInv
<1>1. Goal!Init => GoalInv
  BY InitHolds
<1>2. GoalInv /\ [Goal!Next]_(Goal!vars) => GoalInv'
  BY NextHolds
<1>. QED BY <1>1, <1>2, PTL DEF Goal!Spec

\* Every variable keeps its type, and a day its minutes (task_record/service.py:338).
THEOREM GoalTypeCorrect == ASSUME GoalParameters PROVE Goal!Spec => []Goal!TypeOK
<1>1. GoalInv => Goal!TypeOK
  BY DEF GoalInv
<1>. QED BY <1>1, GoalInvariance, PTL

\* A session that has a target and was not told of it is timed, and no timer of a
\* session survives it (rule/record_source.py:151).
THEOREM SessionsAreTimed == ASSUME GoalParameters PROVE Goal!Spec => []Goal!TimersFollowSession
<1>1. GoalInv => Goal!TimersFollowSession
  BY DEF GoalInv
<1>. QED BY <1>1, GoalInvariance, PTL

\* Nobody is told twice in a day of what the code could still know
\* (rule/service.py:657).
THEOREM NobodyToldTwice == ASSUME GoalParameters PROVE Goal!Spec => []Goal!ToldOnce
<1>1. GoalInv => Goal!ToldOnce
  BY DEF GoalInv
<1>. QED BY <1>1, GoalInvariance, PTL

\* Who reaches the target in a session is told when the session or the day ends, unless
\* the condition was true (rule/record_source.py:170).
THEOREM SettledInTime == ASSUME GoalParameters PROVE Goal!Spec => Goal!ReachIsTold
<1>1. GoalInv /\ [Goal!Next]_(Goal!vars) =>
        [/\ on /\ (Goal!Exit \/ Goal!StillHeld) /\ Goal!Reached => cond \/ told'
         /\ on /\ Goal!RollOver /\ pre /\ target # Goal!NoTarget => cond \/ eve']_(Goal!vars)
  <2>. SUFFICES ASSUME GoalInv
                PROVE  /\ on /\ (Goal!Exit \/ Goal!StillHeld) /\ Goal!Reached => cond \/ told'
                       /\ on /\ Goal!RollOver /\ pre /\ target # Goal!NoTarget => cond \/ eve'
    OBVIOUS
  <2>1. on /\ (Goal!Exit \/ Goal!StillHeld) /\ Goal!Reached => cond \/ told'
    BY DEF Goal!Exit, Goal!StillHeld, Goal!Settle, Goal!FeedTrue, Goal!Told
  <2>2. on /\ Goal!RollOver /\ pre /\ target # Goal!NoTarget => cond \/ eve'
    BY DEF Goal!RollOver, Goal!ToldOfTheEve, Goal!Told, GoalInv, OnIsActive
  <2>. QED BY <2>1, <2>2
<1>. QED BY <1>1, GoalInvariance, PTL DEF Goal!Spec, Goal!ReachIsTold

(***************************************************************************)
(* The session of a camera                                                 *)
(***************************************************************************)

\* The bounds of changes and failures are numbers.
CameraParameters == MaxMoves \in Nat /\ MaxFaults \in Nat

\* Without a session there are no callbacks.
TableIsOfSession == session = "none" => DOMAIN calls = {}

\* Perception has one callback at most, under its number, and has given the number back
\* while its session is rebuilt.
EyeHasOne ==
  /\ \A i \in DOMAIN calls : calls[i] = "eye" => i = eye
  /\ sync \in {"rebuild", "resubscribe"} => eye = 0

\* Perception's number is its callback, or a refresh or another's number took it.
EyeHolds == eye # 0 /\ "eye" \notin severed => eye \in DOMAIN calls /\ calls[eye] = "eye"

\* The entry of the channel is its callback, except while a rebuild is under way; then it
\* is not yet the number of anybody else.
ChannelHolds ==
  reg > 0 /\ "live" \notin severed =>
    /\ reg \in DOMAIN calls => calls[reg] = "live"
    /\ sync \notin {"rebuild", "resubscribe"} => reg \in DOMAIN calls

\* Other callbacks of the channel are left behind by a second registration; without
\* viewers there is no entry.
ChannelHasOne ==
  /\ \A i \in DOMAIN calls : calls[i] = "live" => i \in spare \/ i = reg
  /\ viewers = {} <=> reg = 0

\* The inductive invariant.
Held == TableIsOfSession /\ EyeHasOne /\ EyeHolds /\ ChannelHolds /\ ChannelHasOne
CameraInv == Camera!TypeOK /\ Held /\ Camera!NobodyIsRobbed

\* An empty table has no numbers.
LEMMA EmptyTable == DOMAIN << >> = {}
  OBVIOUS

\* What registering does to the table.
LEMMA RegisterStep ==
  ASSUME Camera!TypeOK, NEW who \in {"eye", "live"}, NEW ids \in {1, 2}, Camera!Register(who, ids)
  PROVE  /\ next \in Nat /\ next > 0 /\ next \notin DOMAIN calls
         /\ DOMAIN calls' = DOMAIN calls \cup {next}
         /\ calls'[next] = who
         /\ \A i \in DOMAIN calls : calls'[i] = calls[i]
         /\ next' \in Nat \ {0} /\ DOMAIN calls' \subseteq 1 .. next' - 1
         /\ \A i \in DOMAIN calls' : calls'[i] \in {"eye", "live"}
         /\ severed' = severed \ {who} /\ severed' \subseteq {"eye", "live"}
<1>1. next \in Nat /\ next > 0 /\ DOMAIN calls \subseteq 1 .. next - 1
  BY DEF Camera!TypeOK
<1>2. DOMAIN calls' = DOMAIN calls \cup {next} /\ next \notin DOMAIN calls
  BY <1>1 DEF Camera!Register, Camera!With
<1>3. calls'[next] = who /\ \A i \in DOMAIN calls : calls'[i] = calls[i]
  BY <1>1, <1>2 DEF Camera!Register, Camera!With
<1>4. \A i \in DOMAIN calls' : calls'[i] \in {"eye", "live"}
  BY <1>2, <1>3 DEF Camera!TypeOK
<1>5. next' = next + ids /\ severed' = severed \ {who} /\ severed' \subseteq {"eye", "live"}
  BY DEF Camera!Register, Camera!TypeOK
<1>. QED BY <1>1, <1>2, <1>3, <1>4, <1>5

\* What giving a number back does to the table: the number is gone, and who held it, if
\* somebody else, is severed.
LEMMA UnregisterStep ==
  ASSUME Camera!TypeOK, Held, Camera!NobodyIsRobbed, NEW who \in {"eye", "live"}, NEW id \in Nat,
         Camera!Unregister(who, id),
         id \in DOMAIN calls /\ calls[id] # who => who \in severed
  PROVE  /\ DOMAIN calls' = DOMAIN calls \ {id}
         /\ \A i \in DOMAIN calls' : calls'[i] = calls[i]
         /\ \A w \in {"eye", "live"} \ {who} :
              w \notin severed' => w \notin severed /\ ~(id \in DOMAIN calls /\ calls[id] = w)
         /\ severed' \subseteq {"eye", "live"} /\ who \notin severed'
         /\ robbers' = {} /\ spare' = spare \ {id} /\ spare' \subseteq DOMAIN calls'
<1>1. session = "none" => DOMAIN calls = {}
  BY DEF Held, TableIsOfSession
<1>2. DOMAIN calls' = DOMAIN calls \ {id} /\ \A i \in DOMAIN calls' : calls'[i] = calls[i]
  BY <1>1 DEF Camera!Unregister, Camera!Without
<1>3. spare' = spare \ {id} /\ spare' \subseteq DOMAIN calls'
  BY <1>2 DEF Camera!Unregister, Camera!TypeOK
<1>4. CASE session # "none" /\ id \in DOMAIN calls
  <2>1. severed' = (severed \cup ({calls[id]} \ {who})) \ {who} /\ calls[id] \in {"eye", "live"}
    BY <1>4 DEF Camera!Unregister, Camera!TypeOK
  <2>2. robbers' = {}
    BY <1>4 DEF Camera!Unregister, Camera!NobodyIsRobbed
  <2>. QED BY <1>2, <1>3, <2>1, <2>2 DEF Camera!TypeOK
<1>5. CASE ~(session # "none" /\ id \in DOMAIN calls)
  <2>1. severed' = severed \ {who} /\ robbers' = {}
    BY <1>5 DEF Camera!Unregister, Camera!NobodyIsRobbed
  <2>2. id \notin DOMAIN calls
    BY <1>1, <1>5
  <2>. QED BY <1>2, <1>3, <2>1, <2>2 DEF Camera!TypeOK
<1>. QED BY <1>4, <1>5

\* The steps that leave the table and the numbers alone, or only say how the session is.
LEMMA QuietStep ==
  ASSUME CameraParameters, CameraInv,
         \/ Camera!RefreshDestroy \/ Camera!Round \/ Camera!Rebuild \/ Camera!NoDemand \/ Camera!Change \/ Camera!FallSilent
         \/ \E v \in Watcher : Camera!Close(v)
  PROVE  CameraInv'
<1>. USE DEF CameraInv, Held, TableIsOfSession, EyeHasOne, EyeHolds, ChannelHolds, ChannelHasOne,
             Camera!NobodyIsRobbed, Camera!table, Camera!adapter, Camera!channel, Camera!history
<1>1. CASE Camera!RefreshDestroy
  BY <1>1 DEF Camera!RefreshDestroy, Camera!TypeOK
<1>2. CASE Camera!Round
  BY <1>2 DEF Camera!Round, Camera!TypeOK
<1>3. CASE Camera!Rebuild
  BY <1>3 DEF Camera!Rebuild, Camera!TypeOK
<1>4. CASE Camera!NoDemand
  BY <1>4 DEF Camera!NoDemand, Camera!TypeOK
<1>5. CASE Camera!Change
  BY <1>5 DEF Camera!Change, Camera!TypeOK, CameraParameters
<1>6. CASE Camera!FallSilent
  BY <1>6 DEF Camera!FallSilent, Camera!TypeOK, CameraParameters
<1>7. CASE \E v \in Watcher : Camera!Close(v)
  BY <1>7 DEF Camera!Close, Camera!TypeOK
<1>. QED BY <1>1, <1>2, <1>3, <1>4, <1>5, <1>6, <1>7

\* A new table is empty, and so is what a second registration left behind.
LEMMA CreatedStep ==
  ASSUME CameraParameters, Camera!TypeOK, Camera!Created
  PROVE  /\ DOMAIN calls' = {} /\ spare' = {}
         /\ session' \in {"live", "none"} /\ next' \in Nat \ {0} /\ faults' \in 0 .. MaxFaults
BY EmptyTable DEF Camera!Created, Camera!TypeOK, CameraParameters

\* The steps that make a session or have destroyed one: whoever holds a number of the old
\* one has given it back, is registered again by the rebuild, or is severed.
LEMMA SessionStep ==
  ASSUME CameraParameters, CameraInv,
         Camera!RefreshCreate \/ Camera!RefreshDestroyed \/ Camera!RebuildCreate \/ Camera!Demand
  PROVE  CameraInv'
<1>. USE DEF CameraInv, Held, TableIsOfSession, EyeHasOne, EyeHolds, ChannelHolds, ChannelHasOne,
             Camera!NobodyIsRobbed, Camera!table, Camera!adapter, Camera!channel, Camera!history
<1>1. CASE Camera!RefreshCreate
  BY <1>1, CreatedStep DEF Camera!RefreshCreate, Camera!TypeOK
<1>2. CASE Camera!RefreshDestroyed
  <2>1. CASE /\ session' = "none" /\ calls' = << >> /\ spare' = {} /\ UNCHANGED faults
             /\ severed' = severed \cup (IF eye # 0 THEN {"eye"} ELSE {})
                                   \cup (IF reg > 0 THEN {"live"} ELSE {})
    <3>1. DOMAIN calls' = {}
      BY <2>1, EmptyTable
    <3>2. severed' \subseteq {"eye", "live"} /\ (eye # 0 => "eye" \in severed')
                                           /\ (reg > 0 => "live" \in severed')
      BY <2>1 DEF Camera!TypeOK
    <3>3. Camera!TypeOK'
      BY <1>2, <2>1, <3>1, <3>2 DEF Camera!RefreshDestroyed, Camera!TypeOK
    <3>4. Held' /\ Camera!NobodyIsRobbed'
      BY <1>2, <2>1, <3>1, <3>2 DEF Camera!RefreshDestroyed, Camera!TypeOK
    <3>. QED BY <3>3, <3>4
  <2>2. CASE /\ faults < MaxFaults /\ faults' = faults + 1
             /\ session' = "dead" /\ UNCHANGED <<calls, severed, spare>>
    BY <1>2, <2>2 DEF Camera!RefreshDestroyed, Camera!TypeOK, CameraParameters
  <2>. QED BY <1>2, <2>1, <2>2 DEF Camera!RefreshDestroyed
<1>3. CASE Camera!RebuildCreate
  BY <1>3, CreatedStep DEF Camera!RebuildCreate, Camera!TypeOK
<1>4. CASE Camera!Demand
  BY <1>4, CreatedStep DEF Camera!Demand, Camera!TypeOK
<1>. QED BY <1>1, <1>2, <1>3, <1>4

\* Perception gives its number back; if it is the channel's by now, a refresh had taken
\* it from perception.
LEMMA GivenBack ==
  ASSUME CameraInv, Camera!Unregister("eye", eye), eye' = 0,
         \/ sync' = "rebuild"
         \/ sync = "connect" /\ sync' = "idle",
         UNCHANGED <<world, session, next, killer, viewers, reg, closing, moves, faults>>
  PROVE  CameraInv'
<1>. USE DEF CameraInv, Held, TableIsOfSession, EyeHasOne, EyeHolds, ChannelHolds, ChannelHasOne,
             Camera!NobodyIsRobbed
<1>1. eye \in Nat /\ (eye \in DOMAIN calls /\ calls[eye] # "eye" => "eye" \in severed)
  BY DEF Camera!TypeOK
<1>2. /\ DOMAIN calls' = DOMAIN calls \ {eye}
      /\ \A i \in DOMAIN calls' : calls'[i] = calls[i]
      /\ "live" \notin severed' => "live" \notin severed
                                   /\ ~(eye \in DOMAIN calls /\ calls[eye] = "live")
      /\ severed' \subseteq {"eye", "live"}
      /\ robbers' = {} /\ spare' = spare \ {eye} /\ spare' \subseteq DOMAIN calls'
  BY <1>1, UnregisterStep
<1>3. Camera!TypeOK'
  BY <1>2 DEF Camera!TypeOK
<1>4. EyeHasOne' /\ EyeHolds' /\ TableIsOfSession' /\ Camera!NobodyIsRobbed'
  BY <1>2 DEF Camera!TypeOK
<1>5. ChannelHolds'
  <2>1. reg > 0 /\ reg \in DOMAIN calls /\ calls[reg] = "live" /\ "live" \notin severed'
          => reg # eye
    BY <1>2
  <2>. QED BY <1>2, <2>1 DEF Camera!TypeOK
<1>6. ChannelHasOne'
  BY <1>2 DEF Camera!TypeOK
<1>. QED BY <1>3, <1>4, <1>5, <1>6

\* Perception disconnects, before a rebuild or because the camera sleeps.
LEMMA EyeStep ==
  ASSUME CameraParameters, CameraInv, Camera!RoundStalled \/ Camera!Connect
  PROVE  CameraInv'
<1>. USE DEF CameraInv, Held, TableIsOfSession, EyeHasOne, EyeHolds, ChannelHolds, ChannelHasOne,
             Camera!NobodyIsRobbed, Camera!table, Camera!adapter, Camera!channel, Camera!history
<1>1. CASE Camera!RoundStalled
  <2>1. Camera!Unregister("eye", eye) /\ eye' = 0 /\ sync' = "rebuild"
        /\ UNCHANGED <<world, session, next, killer, viewers, reg, closing, moves, faults>>
    BY <1>1 DEF Camera!RoundStalled
  <2>. QED BY <2>1, GivenBack
<1>2. CASE Camera!Connect
  <2>1. CASE session # "none" /\ eye = 0 /\ Camera!Register("eye", 2) /\ eye' = next
             /\ UNCHANGED <<robbers, spare>>
    <3>1. /\ next \in Nat /\ next > 0 /\ next \notin DOMAIN calls
          /\ DOMAIN calls' = DOMAIN calls \cup {next}
          /\ calls'[next] = "eye"
          /\ \A i \in DOMAIN calls : calls'[i] = calls[i]
          /\ next' \in Nat \ {0} /\ DOMAIN calls' \subseteq 1 .. next' - 1
          /\ \A i \in DOMAIN calls' : calls'[i] \in {"eye", "live"}
          /\ severed' = severed \ {"eye"} /\ severed' \subseteq {"eye", "live"}
      BY <2>1, RegisterStep
    <3>2. sync = "connect" /\ sync' = "idle"
          /\ UNCHANGED <<world, session, killer, viewers, reg, closing, moves, faults>>
      BY <1>2 DEF Camera!Connect
    <3>3. Camera!TypeOK'
      BY <2>1, <3>1, <3>2 DEF Camera!TypeOK
    <3>4. EyeHasOne' /\ EyeHolds' /\ TableIsOfSession' /\ Camera!NobodyIsRobbed'
      BY <2>1, <3>1, <3>2 DEF Camera!TypeOK
    <3>5. ChannelHolds' /\ ChannelHasOne'
      BY <2>1, <3>1, <3>2 DEF Camera!TypeOK
    <3>. QED BY <3>3, <3>4, <3>5
  <2>2. CASE Camera!Unregister("eye", eye) /\ eye' = 0 /\ UNCHANGED next
    <3>1. UNCHANGED <<world, session, killer, viewers, reg, closing, moves, faults>>
          /\ sync = "connect" /\ sync' = "idle"
      BY <1>2 DEF Camera!Connect
    <3>. QED BY <2>2, <3>1, GivenBack
  <2>3. CASE UNCHANGED <<calls, next, eye, Camera!history>>
    BY <1>2, <2>3 DEF Camera!Connect, Camera!TypeOK
  <2>. QED BY <1>2, <2>1, <2>2, <2>3 DEF Camera!Connect
<1>. QED BY <1>1, <1>2

\* Whoever leaves, the last one gives the number of the channel back; if it is
\* perception's by now, a refresh had taken it from the channel.
LEMMA TeardownStep ==
  ASSUME CameraParameters, CameraInv, NEW left \in SUBSET viewers, Camera!Teardown(left),
         closing' \subseteq left,
         UNCHANGED <<world, session, next, killer, eye, sync, moves, faults>>
  PROVE  CameraInv'
<1>. USE DEF CameraInv, Held, TableIsOfSession, EyeHasOne, EyeHolds, ChannelHolds, ChannelHasOne,
             Camera!NobodyIsRobbed, Camera!history
<1>1. CASE left = {} /\ reg > 0 /\ Camera!Unregister("live", reg) /\ reg' = 0 /\ viewers' = left
  <2>1. reg \in Nat /\ (reg \in DOMAIN calls /\ calls[reg] # "live" => "live" \in severed)
    BY <1>1 DEF Camera!TypeOK
  <2>2. /\ DOMAIN calls' = DOMAIN calls \ {reg}
        /\ \A i \in DOMAIN calls' : calls'[i] = calls[i]
        /\ "eye" \notin severed' => "eye" \notin severed
                                    /\ ~(reg \in DOMAIN calls /\ calls[reg] = "eye")
        /\ severed' \subseteq {"eye", "live"}
        /\ robbers' = {} /\ spare' = spare \ {reg} /\ spare' \subseteq DOMAIN calls'
    BY <1>1, <2>1, UnregisterStep
  <2>3. Camera!TypeOK'
    BY <1>1, <2>2 DEF Camera!TypeOK
  <2>4. EyeHasOne' /\ EyeHolds'
    BY <2>2 DEF Camera!TypeOK
  <2>5. ChannelHolds' /\ ChannelHasOne' /\ TableIsOfSession' /\ Camera!NobodyIsRobbed'
    BY <1>1, <2>2 DEF Camera!TypeOK
  <2>. QED BY <2>3, <2>4, <2>5
<1>2. CASE left = {} /\ reg <= 0 /\ reg' = 0 /\ viewers' = left /\ UNCHANGED <<calls, Camera!history>>
  BY <1>2 DEF Camera!TypeOK
<1>3. CASE left # {} /\ viewers' = left /\ UNCHANGED <<calls, reg, Camera!history>>
  <2>1. viewers # {}
    BY <1>3
  <2>. QED BY <1>3, <2>1 DEF Camera!TypeOK
<1>. QED BY <1>1, <1>2, <1>3 DEF Camera!Teardown

\* The channel registers, again after a rebuild, and gives back.
LEMMA ChannelStep ==
  ASSUME CameraParameters, CameraInv,
         \/ Camera!Resubscribe \/ Camera!Closed
         \/ \E v \in Camera!Viewer : Camera!Open(v)
         \/ \E v \in Recorder : Camera!EndRecording(v)
  PROVE  CameraInv'
<1>. USE DEF CameraInv, Held, TableIsOfSession, EyeHasOne, EyeHolds, ChannelHolds, ChannelHasOne,
             Camera!NobodyIsRobbed, Camera!table, Camera!adapter, Camera!channel, Camera!history
<1>1. CASE Camera!Resubscribe
  <2>0. sync = "resubscribe" /\ sync' = "demand" /\ closing = {}
        /\ UNCHANGED <<world, session, killer, eye, viewers, closing, robbers, moves, faults>>
    BY <1>1 DEF Camera!Resubscribe
  <2>1. CASE (reg = 0 \/ viewers = {}) /\ UNCHANGED <<calls, next, reg, severed, spare>>
    BY <2>0, <2>1 DEF Camera!TypeOK
  <2>2. CASE reg # 0 /\ viewers # {} /\ session # "none"
             /\ Camera!Register("live", 1) /\ reg' = next /\ spare' = spare \cup Camera!Of("live")
    <3>1. /\ next \in Nat /\ next > 0 /\ next \notin DOMAIN calls
          /\ DOMAIN calls' = DOMAIN calls \cup {next}
          /\ calls'[next] = "live"
          /\ \A i \in DOMAIN calls : calls'[i] = calls[i]
          /\ next' \in Nat \ {0} /\ DOMAIN calls' \subseteq 1 .. next' - 1
          /\ \A i \in DOMAIN calls' : calls'[i] \in {"eye", "live"}
          /\ severed' = severed \ {"live"} /\ severed' \subseteq {"eye", "live"}
      BY <2>2, RegisterStep
    <3>2. spare' \subseteq DOMAIN calls /\ spare \subseteq spare'
          /\ \A i \in DOMAIN calls : calls[i] = "live" => i \in spare'
      BY <2>2 DEF Camera!Of, Camera!TypeOK
    <3>3. Camera!TypeOK'
      BY <2>0, <2>2, <3>1, <3>2 DEF Camera!TypeOK
    <3>4. EyeHasOne' /\ EyeHolds' /\ TableIsOfSession' /\ Camera!NobodyIsRobbed'
      BY <2>0, <2>2, <3>1 DEF Camera!TypeOK
    <3>5. ChannelHolds' /\ ChannelHasOne'
      BY <2>0, <2>2, <3>1, <3>2 DEF Camera!TypeOK
    <3>. QED BY <3>3, <3>4, <3>5
  <2>3. CASE reg # 0 /\ viewers # {} /\ session = "none" /\ Camera!Refused
    BY <2>0, <2>3 DEF Camera!Refused, Camera!TypeOK
  <2>. QED BY <1>1, <2>1, <2>2, <2>3 DEF Camera!Resubscribe
<1>2. ASSUME NEW v \in Camera!Viewer, Camera!Open(v) PROVE CameraInv'
  <2>0. closing = {} /\ viewers' = viewers \cup {v}
        /\ UNCHANGED <<world, session, killer, eye, sync, closing, robbers, spare, moves, faults>>
    BY <1>2 DEF Camera!Open
  <2>1. CASE viewers = {} /\ session # "none" /\ Camera!Register("live", 1) /\ reg' = next
    <3>1. /\ next \in Nat /\ next > 0 /\ next \notin DOMAIN calls
          /\ DOMAIN calls' = DOMAIN calls \cup {next}
          /\ calls'[next] = "live"
          /\ \A i \in DOMAIN calls : calls'[i] = calls[i]
          /\ next' \in Nat \ {0} /\ DOMAIN calls' \subseteq 1 .. next' - 1
          /\ \A i \in DOMAIN calls' : calls'[i] \in {"eye", "live"}
          /\ severed' = severed \ {"live"} /\ severed' \subseteq {"eye", "live"}
      BY <2>1, RegisterStep
    <3>2. Camera!TypeOK'
      BY <2>0, <2>1, <3>1 DEF Camera!TypeOK
    <3>3. EyeHasOne' /\ EyeHolds' /\ TableIsOfSession' /\ Camera!NobodyIsRobbed'
      BY <2>0, <2>1, <3>1 DEF Camera!TypeOK
    <3>4. ChannelHolds' /\ ChannelHasOne'
      BY <2>0, <2>1, <3>1 DEF Camera!TypeOK
    <3>. QED BY <3>2, <3>3, <3>4
  <2>2. CASE viewers # {} /\ UNCHANGED <<calls, next, reg, severed>>
    BY <2>0, <2>2 DEF Camera!TypeOK
  <2>. QED BY <1>2, <2>1, <2>2 DEF Camera!Open
<1>3. CASE Camera!Closed
  BY <1>3, TeardownStep DEF Camera!Closed, Camera!TypeOK, Camera!adapter
<1>4. ASSUME NEW v \in Recorder, Camera!EndRecording(v) PROVE CameraInv'
  BY <1>4, TeardownStep DEF Camera!EndRecording, Camera!TypeOK, Camera!adapter
<1>. QED BY <1>1, <1>2, <1>3, <1>4

\* The inductive invariant: tables of sessions, numbers and who holds them.
THEOREM CameraInvariance == ASSUME CameraParameters PROVE Camera!Spec => []CameraInv
<1>1. Camera!Init => CameraInv
  BY EmptyTable DEF Camera!Init, CameraInv, Camera!TypeOK, Held, TableIsOfSession, EyeHasOne, EyeHolds,
     ChannelHolds, ChannelHasOne, Camera!NobodyIsRobbed, CameraParameters
<1>2. CameraInv /\ [Camera!Next]_(Camera!vars) => CameraInv'
  <2>. SUFFICES ASSUME CameraInv, [Camera!Next]_(Camera!vars) PROVE CameraInv' OBVIOUS
  <2>1. CASE UNCHANGED Camera!vars
    BY <2>1 DEF Camera!vars, Camera!table, Camera!adapter, Camera!channel, Camera!history, CameraInv, Camera!TypeOK, Held, TableIsOfSession,
       EyeHasOne, EyeHolds, ChannelHolds, ChannelHasOne, Camera!NobodyIsRobbed
  <2>2. CASE Camera!Next
    BY <2>2, QuietStep, SessionStep, EyeStep, ChannelStep DEF Camera!Next, Camera!Refresh, Camera!Sync, Camera!View
  <2>. QED BY <2>1, <2>2
<1>. QED BY <1>1, <1>2, PTL DEF Camera!Spec

\* Every variable keeps its type, a number of the table is one that was given, and what
\* was left behind is in the table (miot/camera.py:303 of the SDK).
THEOREM CameraTypeCorrect == ASSUME CameraParameters PROVE Camera!Spec => []Camera!TypeOK
<1>1. CameraInv => Camera!TypeOK
  BY DEF CameraInv
<1>. QED BY <1>1, CameraInvariance, PTL

\* A listener gives back only what is its own, unless a refresh replaced the session
\* beneath it (miot/ws.py:523).
THEOREM NobodyRobbed == ASSUME CameraParameters PROVE Camera!Spec => []Camera!NobodyIsRobbed
<1>1. CameraInv => Camera!NobodyIsRobbed
  BY DEF CameraInv
<1>. QED BY <1>1, CameraInvariance, PTL

\* Outside a rebuild the numbers of the channel and of perception are their callbacks in
\* the session there is, and nothing else of the channel is in it but what a second
\* registration left behind (miot/ws.py:602).
THEOREM NumbersAreHeld == ASSUME CameraParameters PROVE Camera!Spec => []Camera!NumbersAreCallbacks
<1>1. CameraInv => Camera!NumbersAreCallbacks
  BY DEF CameraInv, Camera!TypeOK, Held, EyeHolds, ChannelHolds, ChannelHasOne, Camera!NumbersAreCallbacks, Camera!Of
<1>. QED BY <1>1, CameraInvariance, PTL

(***************************************************************************)
(* The three of them in one run                                            *)
(***************************************************************************)

\* A step of the run is a step of the part that moves, and the others stand still.
LEMMA PartsMove ==
  ASSUME [SourcesNext]_<<part, vars, goalVars, cameraVars>>
  PROVE  [Next]_vars /\ [Goal!Next]_(Goal!vars) /\ [Camera!Next]_(Camera!vars)
<1>1. UNCHANGED goalVars => UNCHANGED Goal!vars
  BY DEF goalVars, Goal!vars, Goal!machine, Goal!record, Goal!source, Goal!night, Goal!history
<1>2. UNCHANGED cameraVars => UNCHANGED Camera!vars
  BY DEF cameraVars, Camera!vars, Camera!table, Camera!adapter, Camera!channel, Camera!history
<1>. QED BY <1>1, <1>2 DEF SourcesNext

\* The run is a behaviour of each of the three (rule/iot_source.py:142,
\* rule/record_source.py:60, camera_adapter.py:439).
THEOREM SourcesAreParts == SourcesSpec => Spec /\ Goal!Spec /\ Camera!Spec
<1>1. SourcesInit => Init /\ Goal!Init /\ Camera!Init
  BY DEF SourcesInit
<1>. QED BY <1>1, PartsMove, PTL DEF SourcesSpec, Spec, Goal!Spec, Camera!Spec

\* What is armed follows the session, and nobody is told twice, in the run as well
\* (rule/record_source.py:132).
THEOREM MilestoneStaysInStep == ASSUME GoalParameters PROVE SourcesSpec => []MilestoneInStep
BY SourcesAreParts, SessionsAreTimed, NobodyToldTwice, PTL DEF MilestoneInStep

\* A target that was reached is told when the session ends or the day does, in the run as
\* well (rule/record_source.py:295).
THEOREM RunReachIsTold == ASSUME GoalParameters PROVE SourcesSpec => ReachIsTold
BY SourcesAreParts, SettledInTime, PTL DEF ReachIsTold

\* Nobody gives back what is another's, and outside a rebuild the numbers are held, in
\* the run as well (miot/ws.py:523).
THEOREM NumbersStayOwn == ASSUME CameraParameters PROVE SourcesSpec => []NumbersAreOwn
BY SourcesAreParts, NobodyRobbed, NumbersAreHeld, PTL DEF NumbersAreOwn
================================================================================
