----------------------------- MODULE MCRuleTasks -----------------------------
(***************************************************************************)
(* Two tasks for one run, which have nothing to do with each other: one    *)
(* with any rules it may have, and one on a device, with a daily record    *)
(* and the debug trigger; and the actions a task dispatches, on their way  *)
(* to the home.  The initial state says which of the three moves.          *)
(***************************************************************************)
EXTENDS MCRuleTask

CONSTANTS MaxFires, Attempts

VARIABLES
  moves,     \* what moves, "any", "iot" or "actions"
  rules2, enabled2, paused2, timed2, val2, pexit2, penter2, base2, leaving2,
  window2, fired2, topo2, on2, owing2,
  kind, shared, active, made, fires, home, heard, cooling, settled, excuse

vars2 == <<rules2, enabled2, paused2, timed2, val2, pexit2, penter2, base2, leaving2,
           window2, fired2, topo2, on2, owing2>>
actionVars == <<kind, shared, active, made, fires, home, heard, cooling, settled, excuse>>

IotDirection == [r \in {stay, door} |-> IF r = stay THEN "session" ELSE "guard"]
IotSource == [r \in {stay, door} |-> IF r = stay THEN {lamp} ELSE {lock}]

\* a session and a guard on two devices, with the theorems about them
Iot == INSTANCE RuleTaskProofs WITH
  Rule <- {stay, door}, Did <- {lamp, lock}, Direction <- IotDirection, Source <- IotSource,
  Steady <- {stay, door}, MayTime <- {}, WithRollover <- TRUE, WithTrigger <- TRUE,
  rules <- rules2, enabled <- enabled2, paused <- paused2, timed <- timed2, val <- val2,
  pexit <- pexit2, penter <- penter2, base <- base2, leaving <- leaving2,
  window <- window2, fired <- fired2, topo <- topo2, on <- on2, owing <- owing2

Actions == INSTANCE TaskActions WITH on <- active

\* the bound of the first task: nobody changes from a session rule to separate
\* enter and exit rules while rules of the other kind are there
OneFamily == stay \notin rules \/ {come, go} \cap rules = {}

\* a part that does not move begins in one state
MCInit ==
  /\ Init /\ Iot!Init /\ Actions!Init /\ moves \in {"any", "iot", "actions"}
  /\ moves # "actions" => ~shared /\ \A s \in Actions!Slot : kind[s] = "none"

MCNext ==
  /\ moves' = moves
  /\ \/ moves = "any" /\ Next /\ OneFamily' /\ UNCHANGED <<vars2, actionVars>>
     \/ moves = "iot" /\ Iot!Next /\ UNCHANGED <<vars, actionVars>>
     \/ moves = "actions" /\ Actions!Next /\ UNCHANGED <<vars, vars2>>

MCSpec == MCInit /\ [][MCNext]_<<moves, vars, vars2, actionVars>> /\ Fairness

\* LeavingIsFalse of the second task: cross-day resets and triggers do not leave an
\* exit debounce running on a condition that is not known to be false
\* (rule/runner.py:500).
IotLeavingIsFalse == Iot!LeavingIsFalse

\* What becomes of dispatched actions, stated and explained in TaskActions
\* (rule/runner.py:1499).
HomeFollowsTask == Actions!TypeOK /\ Actions!HomeFollowsTask
=============================================================================
