------------------------------ MODULE IotSource ------------------------------
(***************************************************************************)
(* From the state store to a rule: state/store.py (set, delete, clear,     *)
(* subscriptions, delivery), rule/iot_source.py (index, seeds, consumer)   *)
(* and the part of rule/runner.py and rule/service.py that configures iot  *)
(* rules.                                                                  *)
(*                                                                         *)
(* The store commits a write and queues its delivery in one step; the loop *)
(* delivers it later; the subscriber only notes which rules to judge; a    *)
(* consumer task judges them one by one from what the store holds then.    *)
(* Everything runs on the loop, the writers of the device tree too, so an  *)
(* action is what happens between two awaits.                              *)
(*                                                                         *)
(* A device has one property here, and a rule compares that property: a    *)
(* reading is what the comparison makes of a value.  Not here: the tree    *)
(* and the delivery of the store in detail (StateStore), and the pull      *)
(* after a reconnection, which writes to the store (DeviceState).          *)
(***************************************************************************)
EXTENDS FiniteSets

CONSTANTS
  Did, Rule,
  None            \* no leaf in the store; no condition on a device

Reading == {"true", "false", "odd"}    \* "odd": compare() raises EvalFailed
Kind == {"online", "prop"}

ASSUME NoneAssumption == None \notin Did /\ None \notin Reading /\ None \notin BOOLEAN

VARIABLES
  online, prop,   \* the leaves iot/device/<did>/status/online and /prop/<iid>
  queue,          \* changes on their way to the subscribers
  phase,          \* where the process is, from StateStore.start to its stop
  watch, active,  \* the rules: the device each compares, effectively enabled
  index,          \* _index and _by_device
  pending, wake,  \* _pending, _wake
  batch,          \* what is left of the set the consumer took
  diag,           \* _diagnostics
  seen            \* the runner's last_bool of each rule

tree == <<online, prop>>
rules == <<watch, active>>
vars == <<tree, queue, phase, rules, index, pending, wake, batch, diag, seen>>

Running == phase = "running"

(***************************************************************************)
(* The store                                                               *)
(***************************************************************************)

\* a committed change is queued for those who are subscribed at that moment
Enqueue(changed) == queue' = IF Running THEN queue \cup changed ELSE queue

WriteOnline(d, v) ==
  /\ online[d] # v
  /\ online' = [online EXCEPT ![d] = v]
  /\ Enqueue({<<d, "online">>})
  /\ UNCHANGED <<prop, phase, rules, index, pending, wake, batch, diag, seen>>

\* one leaf, or the subtree of properties as alignment writes it, without that leaf
WriteProp(d, v) ==
  /\ prop[d] # v
  /\ prop' = [prop EXCEPT ![d] = v]
  /\ Enqueue({<<d, "prop">>})
  /\ UNCHANGED <<online, phase, rules, index, pending, wake, batch, diag, seen>>

\* what disappears with the devices in D
Lost(D) == {c \in D \X Kind : IF c[2] = "online" THEN online[c[1]] # None
                                                  ELSE prop[c[1]] # None}

\* delete() of a device, clear() for all of them
Drop(D) ==
  /\ Lost(D) # {}
  /\ online' = [d \in Did |-> IF d \in D THEN None ELSE online[d]]
  /\ prop' = [d \in Did |-> IF d \in D THEN None ELSE prop[d]]
  /\ Enqueue(Lost(D))
  /\ UNCHANGED <<phase, rules, index, pending, wake, batch, diag, seen>>

Write ==
  \/ \E d \in Did : \E v \in BOOLEAN : WriteOnline(d, v)
  \/ \E d \in Did : \E v \in Reading \cup {None} : WriteProp(d, v)
  \/ \E D \in {{d} : d \in Did} \cup {Did} : Drop(D)

(***************************************************************************)
(* Judging a rule                                                          *)
(***************************************************************************)

\* _evaluate: the reason, or the value when there is one
Verdict(d) ==
  CASE online[d] = None -> "path_missing"
    [] online[d] = FALSE -> "device_offline"
    [] online[d] = TRUE /\ prop[d] = None -> "path_missing"
    [] online[d] = TRUE /\ prop[d] = "odd" -> "eval_failed"
    [] OTHER -> prop[d]

\* what the runner is told of it
Known(v) == IF v \in {"true", "false"} THEN v ELSE "unknown"

Seed(R) == pending' = pending \cup R /\ wake' = TRUE

IndexOf(w) == [d \in Did |-> {r \in Rule : w[r] = d}]

\* MUTANT of RebuildIndex: the diagnoses stay
RebuildIndexOnly(w) == index' = IndexOf(w) /\ UNCHANGED diag

\* rebuild_index: the index, and no diagnosis of a rule that is gone
RebuildIndex(w) ==
  /\ index' = IndexOf(w)
  /\ diag' = [r \in Rule |-> IF w[r] = None THEN "none" ELSE diag[r]]

\* MUTANT of Deliver: _on_online_change only looks at devices that came up
DeliverUpOnly(c) ==
  /\ c \in queue
  /\ queue' = queue \ {c}
  /\ IF Running /\ index[c[1]] # {} /\ (c[2] = "prop" \/ online[c[1]] = TRUE)
     THEN Seed(index[c[1]]) ELSE UNCHANGED <<pending, wake>>
  /\ UNCHANGED <<tree, phase, rules, index, batch, diag, seen>>

\* _dispatch of a change to _on_prop_change or _on_online_change
Deliver(c) ==
  /\ c \in queue
  /\ queue' = queue \ {c}
  /\ IF Running /\ index[c[1]] # {} THEN Seed(index[c[1]]) ELSE UNCHANGED <<pending, wake>>
  /\ UNCHANGED <<tree, phase, rules, index, batch, diag, seen>>

\* the consumer wakes and swaps the set
TakeBatch ==
  /\ Running /\ wake /\ batch = {}
  /\ wake' = FALSE /\ batch' = pending /\ pending' = {}
  /\ UNCHANGED <<tree, queue, phase, rules, index, diag, seen>>

\* _evaluate_one up to the point where feed() may wait
EvaluateOne(r) ==
  /\ Running /\ r \in batch
  /\ batch' = batch \ {r}
  /\ IF watch[r] = None
     THEN UNCHANGED <<diag, seen>>
     ELSE LET v == Verdict(watch[r])
          IN /\ diag' = [diag EXCEPT ![r] = v]
             /\ seen' = IF active[r] \/ Known(v) = "unknown"
                        THEN [seen EXCEPT ![r] = Known(v)] ELSE seen
  /\ UNCHANGED <<tree, queue, phase, rules, index, pending, wake>>

(***************************************************************************)
(* Configuration: synchronous from the runner's change to the seed         *)
(***************************************************************************)

\* create_rule, update_rule, patch_rule; add_rule resets what the runner knows when
\* the condition changed (its device, or only its value) or the rule was switched
ConfigureRule(r, d, on, reset) ==
  /\ Running
  /\ watch' = [watch EXCEPT ![r] = d] /\ active' = [active EXCEPT ![r] = on]
  /\ seen' = IF reset \/ watch[r] # d \/ active[r] # on
             THEN [seen EXCEPT ![r] = "unknown"] ELSE seen
  /\ RebuildIndex(watch')
  /\ Seed({r})
  /\ UNCHANGED <<tree, queue, phase, batch>>

\* delete_rule
RemoveRule(r) ==
  /\ Running /\ watch[r] # None
  /\ watch' = [watch EXCEPT ![r] = None] /\ UNCHANGED active
  /\ seen' = [seen EXCEPT ![r] = "unknown"]
  /\ RebuildIndex(watch')
  /\ UNCHANGED <<tree, queue, phase, pending, wake, batch>>

\* apply_task_status for the task of r
PauseTask(r) ==
  /\ Running /\ watch[r] # None /\ active[r]
  /\ active' = [active EXCEPT ![r] = FALSE]
  /\ seen' = [seen EXCEPT ![r] = "unknown"]
  /\ UNCHANGED <<tree, queue, phase, watch, index, pending, wake, batch, diag>>

\* MUTANT of ResumeTask: no seed, the next change will do
ResumeTaskSilently(r) ==
  /\ Running /\ watch[r] # None /\ ~active[r]
  /\ active' = [active EXCEPT ![r] = TRUE]
  /\ UNCHANGED <<tree, queue, phase, watch, index, pending, wake, batch, diag, seen>>

ResumeTask(r) ==
  /\ Running /\ watch[r] # None /\ ~active[r]
  /\ active' = [active EXCEPT ![r] = TRUE]
  /\ RebuildIndex(watch) /\ Seed({r})
  /\ UNCHANGED <<tree, queue, phase, watch, batch, seen>>

Configure ==
  \E r \in Rule :
    \/ \E d \in Did, on, reset \in BOOLEAN : ConfigureRule(r, d, on, reset)
    \/ RemoveRule(r) \/ PauseTask(r) \/ ResumeTask(r)

(***************************************************************************)
(* Life                                                                    *)
(***************************************************************************)

Init ==
  /\ online = [d \in Did |-> None] /\ prop = [d \in Did |-> None]
  /\ queue = {} /\ phase = "down"
  /\ watch \in [Rule -> Did \cup {None}] /\ active \in [Rule -> BOOLEAN]
  /\ index = [d \in Did |-> {}] /\ pending = {} /\ wake = FALSE /\ batch = {}
  /\ diag = [r \in Rule |-> "none"] /\ seen = [r \in Rule |-> "unknown"]

StartStore ==
  /\ phase = "down" /\ phase' = "started"
  /\ UNCHANGED <<tree, queue, rules, index, pending, wake, batch, diag, seen>>

\* IotSource.start: index, subscriptions, every rule to be judged, the consumer
StartSource ==
  /\ phase = "started" /\ phase' = "running"
  /\ RebuildIndex(watch)
  /\ Seed({r \in Rule : watch[r] # None})
  /\ UNCHANGED <<tree, queue, rules, batch, seen>>

\* IotSource.stop: unsubscribe, cancel the consumer where it waits
StopSource ==
  /\ Running /\ phase' = "stopping"
  /\ batch' = {}
  /\ UNCHANGED <<tree, queue, rules, index, pending, wake, diag, seen>>

\* StateStore.stop: what is queued is of an old generation
StopStore ==
  /\ phase = "stopping" /\ phase' = "stopped"
  /\ queue' = {}
  /\ UNCHANGED <<tree, rules, index, pending, wake, batch, diag, seen>>

\* the process starts again with the rules of the database
Restart ==
  /\ phase = "stopped" /\ phase' = "down"
  /\ online' = [d \in Did |-> None] /\ prop' = [d \in Did |-> None]
  /\ index' = [d \in Did |-> {}] /\ pending' = {} /\ wake' = FALSE
  /\ diag' = [r \in Rule |-> "none"] /\ seen' = [r \in Rule |-> "unknown"]
  /\ UNCHANGED <<queue, rules, batch>>

Life == StartStore \/ StartSource \/ StopSource \/ StopStore \/ Restart

Next ==
  \/ Write \/ Configure \/ Life \/ TakeBatch
  \/ \E c \in Did \X Kind : Deliver(c)
  \/ \E r \in Rule : EvaluateOne(r)

Spec == Init /\ [][Next]_vars

\* the loop runs what is ready
Fairness ==
  /\ WF_vars(TakeBatch)
  /\ \A c \in Did \X Kind : WF_vars(Deliver(c))
  /\ \A r \in Rule : WF_vars(EvaluateOne(r))

FairSpec == Spec /\ Fairness

(***************************************************************************)
(* Properties                                                              *)
(***************************************************************************)

TypeOK ==
  /\ online \in [Did -> BOOLEAN \cup {None}] /\ prop \in [Did -> Reading \cup {None}]
  /\ queue \subseteq Did \X Kind
  /\ phase \in {"down", "started", "running", "stopping", "stopped"}
  /\ watch \in [Rule -> Did \cup {None}] /\ active \in [Rule -> BOOLEAN]
  /\ index \in [Did -> SUBSET Rule]
  /\ pending \in SUBSET Rule /\ wake \in BOOLEAN /\ batch \in SUBSET Rule
  /\ diag \in [Rule -> {"none", "true", "false", "path_missing", "device_offline", "eval_failed"}]
  /\ seen \in [Rule -> {"true", "false", "unknown"}]

\* the value of a rule's condition
Truth(r) == IF watch[r] = None THEN "unknown" ELSE Known(Verdict(watch[r]))

\* somebody will still judge r: the consumer, or a change that is on its way
Reminded(r) == r \in pending \cup batch \/ \E k \in Kind : <<watch[r], k>> \in queue

\* A rule that is judged knows the present value of its condition, or it is still
\* going to be judged: no order of writes, deliveries, judging and configuration
\* leaves a rule on an old value with nobody to tell it (rule/iot_source.py:247).
NoStaleRule ==
  Running => \A r \in Rule :
    watch[r] # None /\ active[r] /\ seen[r] # Truth(r) => Reminded(r)

\* A diagnosis speaks of a rule that exists, and one that is out of date is still
\* going to be replaced (rule/runner.py:424, rule/iot_source.py:284).
DiagnosesCurrent ==
  Running => \A r \in Rule :
    diag[r] # "none" =>
      watch[r] # None /\ (diag[r] # Verdict(watch[r]) => Reminded(r))

View == INSTANCE RuleView WITH
  truth <- [r \in Rule |-> Truth(r)],
  live <- IF Running THEN {r \in Rule : watch[r] # None /\ active[r]} ELSE {}

\* The source implements what it promises a rule: told only the present value, and
\* told in the end (rule/iot_source.py:225).
ViewSpec == View!Spec
===============================================================================
