------------------------------- MODULE RuleTask -------------------------------
(***************************************************************************)
(* One task and its rules: the condition layer of rule/runner.py, which    *)
(* turns frames into confirmed edges, the task state machine of            *)
(* task/state_machine.py, which turns edges into runtime state and         *)
(* boundary actions, and the configuration calls of rule/service.py that   *)
(* change both while they run.                                             *)
(*                                                                         *)
(* Everything runs on one event loop.  update_state and the configuration  *)
(* calls do not suspend, so each is one action; the only thing in between  *)
(* is the exit debounce, a task that sleeps.                               *)
(*                                                                         *)
(* Milestone rules and the record source that feeds them are not here.     *)
(***************************************************************************)
EXTENDS Naturals, Sequences, FiniteSets

CONSTANTS
  Rule,           \* rule ids
  Did,            \* source ids: a camera, or the device of an iot rule
  Direction,      \* Rule -> "session", "enter", "exit" or "guard"
  Source,         \* Rule -> the sources of its condition
  Steady,         \* iot rules: their source does not flicker and may be unknown
  MayTime,        \* rules whose duration_seconds may be set
  MaxLen,         \* samples in the duration window
  Need,           \* samples that must be true: duration_ratio * MaxLen
  WithRollover,   \* the task has a daily record: force_cross_day_reset happens
  WithTrigger     \* the debug call trigger_rule is used

ASSUME RuleAssumption ==
  /\ Direction \in [Rule -> {"session", "enter", "exit", "guard"}]
  /\ Source \in [Rule -> SUBSET Did]
  /\ Steady \subseteq Rule
  /\ \A r \in Steady : \A s, d \in Source[r] : s = d
  /\ MayTime \subseteq {r \in Rule : Direction[r] # "guard"}
ASSUME WindowAssumption == MaxLen \in Nat \ {0} /\ Need \in 1 .. MaxLen
ASSUME UseAssumption == WithRollover \in BOOLEAN /\ WithTrigger \in BOOLEAN

VARIABLES
  rules,          \* the task's rules, in the database and in the runner
  enabled,        \* those with rule.enabled
  paused,         \* the task is in _paused_tasks
  timed,          \* rules with duration_seconds
  val,            \* PerSourceState.last_bool: "T", "F", "U" unknown, "no" entry
  pexit,          \* <<rule, source>> with pending_exit
  penter,         \* <<rule, source>> with pending_enter
  base,           \* rules with last_rule_state true
  leaving,        \* rules whose exit debounce task sleeps
  window,         \* duration_window, <<>> when there is none
  fired,          \* rules with state_duration_fired
  topo,           \* TaskTopology: the rules the state machine knows
  on,             \* runtime_state is ON
  owing           \* on_enter was dispatched, its on_exit was not

vars == <<rules, enabled, paused, timed, val, pexit, penter, base, leaving,
          window, fired, topo, on, owing>>

config == <<rules, enabled, paused, timed, topo>>
flicker == <<val, pexit, penter>>
duration == <<window, fired>>
condition == <<val, pexit, penter, base, leaving, window, fired>>
state == <<on, owing>>

(***************************************************************************)
(* Conditions and topology.                                                *)
(***************************************************************************)

\* MUTANT of Or3: unknown counts as false
OrBlind(B) == IF "T" \in B THEN "T" ELSE IF B = {} THEN "U" ELSE "F"

\* or3 over the last_bool of a rule's sources
Or3(B) == IF "T" \in B THEN "T" ELSE IF B = {} \/ "U" \in B THEN "U" ELSE "F"

\* is_condition_satisfied
Satisfied(r, v) == Or3({v[r][s] : s \in Did} \ {"no"})

Holding(T) == {r \in T : Direction[r] = "session"}       \* holding_rule_ids
ExitSide(T) == {r \in T : Direction[r] \in {"session", "exit"}}
Guards(T) == {r \in T : Direction[r] = "guard"}
SessionType(T) == ExitSide(T) # {}                       \* is_session_type

Live == rules \cap enabled                               \* _live_topology

\* task_rule_set_error: the directions that may stand together in one task
RuleSetOK(R) ==
  LET triggers == {r \in R : Direction[r] # "guard"}
  IN  triggers # {} =>
        /\ (\E r \in triggers : Direction[r] = "session") => Cardinality(triggers) = 1
        /\ \E r \in triggers : Direction[r] \in {"session", "enter"}

\* _validate_task_rule_set: a set that was wrong before is let through
MayBecome(R) == RuleSetOK(R) \/ ~RuleSetOK(rules)

\* update_state listens to the rules that are effectively enabled
Listening(r) == r \in Live /\ ~paused

(***************************************************************************)
(* The state machine: submit an edge of rule r.  v is the condition layer  *)
(* it asks back.  The outcome is Fires(r, v): the caller runs the action.  *)
(***************************************************************************)

\* _handle_enter
EnterPasses(r, v) ==
  /\ r \in topo
  /\ ~(SessionType(topo) /\ on)
  /\ \A g \in Guards(topo) : Satisfied(g, v) = "T"
  /\ \A x \in ExitSide(topo) \ {r} : Satisfied(x, v) # "T"

\* _handle_exit
ExitPasses(r, v) ==
  /\ r \in topo
  /\ on
  /\ \A h \in Holding(topo) \ {r} : Satisfied(h, v) # "T"

\* ENTERED: the slot is on_exit for an exit rule, none for a guard
Entered(r, v) ==
  LET enters == Direction[r] \in {"session", "enter"} /\ EnterPasses(r, v)
      exits == Direction[r] = "exit" /\ ExitPasses(r, v)
      opens == enters /\ SessionType(topo)
  IN  /\ on' = ((on \/ opens) /\ ~exits)
      /\ owing' = ((owing \/ opens) /\ ~exits)

\* MUTANT of Exited: on_exit runs, the state stays
ExitedUnmarked(r) ==
  /\ on' = on
  /\ owing' = (owing /\ ~ExitPasses(r, val))

\* EXITED, of a session rule only
Exited(r) ==
  /\ on' = (on /\ ~ExitPasses(r, val))
  /\ owing' = (owing /\ ~ExitPasses(r, val))

\* _should_stay_on
StaysOn(T, v) ==
  IF Holding(T) # {}
  THEN \E r \in Holding(T) : Satisfied(r, v) # "F"
  ELSE ExitSide(T) # {} /\ \A r \in ExitSide(T) : Satisfied(r, v) # "T"

\* MUTANT of Reconfigure: runtime state is cleared, no on_exit is dispatched
ReconfigureSilently(T, v) ==
  /\ topo' = T
  /\ on' = (on /\ StaysOn(T, v))
  /\ owing' = owing

\* reconfigure_task: the new topology; a task that was on and has nothing left
\* to hold it runs on_exit
Reconfigure(T, v) ==
  /\ topo' = T
  /\ on' = (on /\ StaysOn(T, v))
  /\ owing' = (owing /\ (on => StaysOn(T, v)))

(***************************************************************************)
(* A frame: update_state(rule, source, bool).                              *)
(***************************************************************************)

\* the last MaxLen samples of w
Recent(w) == IF Len(w) <= MaxLen THEN w ELSE SubSeq(w, Len(w) - MaxLen + 1, Len(w))

Trues(w) == Cardinality({i \in DOMAIN w : w[i] = 1})

\* the window after a sample, gap rounds without a sample before it
Sampled(w, b, gap) ==
  IF w = <<>> \/ gap >= MaxLen
  THEN <<IF b THEN 1 ELSE 0>>
  ELSE Recent(Append(w \o [i \in 1 .. gap |-> 0], IF b THEN 1 ELSE 0))

\* _evaluate_duration in a round that has no sample yet.  When the window is
\* full and true enough the edge goes to the state machine, and only an edge it
\* takes marks a session rule as fired and empties the window of another
Evaluate(r, b, gap) ==
  LET w == Sampled(window[r], b, gap)
      met == Len(w) = MaxLen /\ Trues(w) >= Need
      session == Direction[r] = "session"
      fires == met /\ IF Direction[r] = "exit" THEN ExitPasses(r, val) ELSE EnterPasses(r, val)
  IN  /\ window' = [window EXCEPT ![r] = IF fires /\ ~session THEN <<>> ELSE w]
      /\ fired' = IF fires /\ session THEN fired \cup {r} ELSE fired
      /\ IF met THEN Entered(r, val) ELSE UNCHANGED state

\* a timed rule samples once a round, a session that has fired not at all
Sample(r, s, b) ==
  LET seen == b \/ \E d \in Did \ {s} : val[r][d] = "T"
  IN  IF r \notin timed \/ (Direction[r] = "session" /\ r \in fired)
      THEN UNCHANGED duration /\ UNCHANGED state
      ELSE \/ \E gap \in 0 .. MaxLen : Evaluate(r, seen, gap)
           \/ window[r] # <<>> /\ UNCHANGED duration /\ UNCHANGED state

Fresh(x) == IF x = "no" THEN "F" ELSE x                  \* _ensure_source

\* the two-frame filter absorbs the frame: a first false after true, its
\* retraction, and during an exit debounce a first true and its retraction
Absorb(r, s, b) ==
  LET prev == val[r][s] = "T"
      p == <<r, s>>
  IN  /\ r \notin Steady
      /\ \/ prev /\ ~b /\ p \notin pexit /\ pexit' = pexit \cup {p} /\ UNCHANGED penter
         \/ prev /\ b /\ p \in pexit /\ pexit' = pexit \ {p} /\ UNCHANGED penter
         \/ /\ ~prev /\ r \in leaving /\ b /\ p \notin penter
            /\ penter' = penter \cup {p} /\ UNCHANGED pexit
         \/ /\ ~prev /\ r \in leaving /\ ~b /\ p \in penter
            /\ penter' = penter \ {p} /\ UNCHANGED pexit
      /\ val' = [val EXCEPT ![r][s] = Fresh(@)]
      /\ UNCHANGED <<base, leaving>>

\* the frames Absorb stands for
Absorbs(r, s, b) ==
  /\ r \notin Steady
  /\ \/ val[r][s] = "T" /\ (b <=> <<r, s>> \in pexit)
     \/ val[r][s] # "T" /\ r \in leaving /\ (b <=> <<r, s>> \notin penter)

Cleared(P, r) == {p \in P : p[1] # r}                    \* _clear_pending_source_enter

\* MUTANT of Edge: a re-entry leaves the pending exit in place
EdgeKeepsExit(r, v, P) ==
  /\ base' = CASE Satisfied(r, v) = "T" -> base \cup {r}
               [] Satisfied(r, v) = "F" -> base \ {r}
               [] OTHER -> base
  /\ leaving' = IF Satisfied(r, v) = "F" /\ r \in base /\ Direction[r] = "session"
                   /\ (r \in timed => r \in fired')
                THEN leaving \cup {r} ELSE leaving
  /\ penter' = P

\* the diff of update_state and _dispatch_event for the condition layer: v is
\* the new val, P the new penter.  An unknown aggregate is no edge.  A confirmed
\* entry calls a pending exit off; a confirmed exit of a session rule starts the
\* debounce, unless it is timed and never fired
Edge(r, v, P) ==
  LET enters == Satisfied(r, v) = "T" /\ r \notin base
      exits == Satisfied(r, v) = "F" /\ r \in base
      leaves == exits /\ Direction[r] = "session" /\ (r \in timed => r \in fired')
  IN  /\ base' = IF enters THEN base \cup {r} ELSE IF exits THEN base \ {r} ELSE base
      /\ leaving' = IF enters THEN leaving \ {r} ELSE IF leaves THEN leaving \cup {r} ELSE leaving
      /\ penter' = IF enters \/ leaves THEN Cleared(P, r) ELSE P

\* an entry edge asks the state machine unless it only called off an exit; a
\* timed rule asks from _evaluate_duration
Asks(r, v) == Satisfied(r, v) = "T" /\ r \notin base /\ r \notin leaving /\ r \notin timed

Frame(r, s, b) ==
  /\ Listening(r) /\ s \in Source[r]
  /\ IF Absorbs(r, s, b)
     THEN Sample(r, s, b) /\ Absorb(r, s, b)
     ELSE LET v == [val EXCEPT ![r][s] = IF b THEN "T" ELSE "F"]
          IN  /\ val' = v
              /\ pexit' = pexit \ {<<r, s>>}
              /\ IF Asks(r, v)
                 THEN Entered(r, v) /\ UNCHANGED duration
                 ELSE Sample(r, s, b)
              /\ Edge(r, v, penter \ {<<r, s>>})
  /\ UNCHANGED config

\* MUTANT of MarkUnknown: the exit debounce sleeps on
MarkUnknownOnly(r, s) ==
  /\ r \in rules \cap Steady /\ s \in Source[r]
  /\ val' = [val EXCEPT ![r][s] = "U"]
  /\ UNCHANGED <<config, pexit, penter, base, leaving, duration, state>>

\* mark_source_unknown: the device of an iot rule is offline or its value gone.
\* A pending exit is called off and last_rule_state goes back to true
MarkUnknown(r, s) ==
  /\ r \in rules \cap Steady /\ s \in Source[r]
  /\ val' = [val EXCEPT ![r][s] = "U"]
  /\ pexit' = pexit \ {<<r, s>>}
  /\ penter' = Cleared(penter, r)
  /\ base' = IF r \in leaving THEN base \cup {r} ELSE base
  /\ leaving' = leaving \ {r}
  /\ UNCHANGED <<config, duration, state>>

\* _debounced_exit wakes up: the window of a timed rule starts anew, the task
\* exits when nothing else holds it.  (Its own check for an unknown condition
\* finds none: MarkUnknown ends the debounce.)
DebounceEnds(r) ==
  /\ r \in leaving
  /\ leaving' = leaving \ {r}
  /\ penter' = Cleared(penter, r)
  /\ fired' = fired \ (timed \cap {r})
  /\ window' = IF r \in timed THEN [window EXCEPT ![r] = <<>>] ELSE window
  /\ Exited(r)
  /\ UNCHANGED <<config, val, pexit, base>>

(***************************************************************************)
(* Configuration.                                                          *)
(***************************************************************************)

\* MUTANT of Reset: the baseline is not carried over
ResetAll(R, C, T) ==
  /\ val' = [r \in Rule |-> IF r \in R THEN [s \in Did |-> "no"] ELSE val[r]]
  /\ pexit' = {p \in pexit : p[1] \notin R}
  /\ penter' = {p \in penter : p[1] \notin R}
  /\ base' = base \ R
  /\ leaving' = leaving \ R
  /\ window' = [r \in Rule |-> IF r \in R THEN <<>> ELSE window[r]]
  /\ fired' = fired \ R

\* _reset_runtime_state of the rules R; those of C keep an entered baseline
\* (_carry_entered_baseline), as fired ones when they are among the timed T
Reset(R, C, T) ==
  /\ val' = [r \in Rule |-> IF r \in R THEN [s \in Did |-> "no"] ELSE val[r]]
  /\ pexit' = {p \in pexit : p[1] \notin R}
  /\ penter' = {p \in penter : p[1] \notin R}
  /\ base' = (base \ R) \cup C
  /\ leaving' = leaving \ R
  /\ window' = [r \in Rule |-> IF r \in R THEN <<>> ELSE window[r]]
  /\ fired' = (fired \ R) \cup (C \cap T)

\* _has_dispatched_enter
HasDispatchedEnter(r) ==
  \/ r \in leaving
  \/ IF r \in timed THEN r \in fired ELSE r \in base

CreateRule(r) ==
  /\ r \notin rules /\ MayBecome(rules \cup {r})
  /\ rules' = rules \cup {r}
  /\ enabled' = enabled \cup {r}
  /\ timed' \in {timed, timed \cup (MayTime \cap {r})}
  /\ Reconfigure(Live \cup {r}, val)
  /\ UNCHANGED <<paused, condition>>

\* MUTANT of DeleteRule: reconfigure_task runs before the rule is gone
DeleteRuleStale(r) ==
  /\ r \in rules
  /\ rules' = rules \ {r}
  /\ enabled' = enabled \ {r}
  /\ timed' = timed \ {r}
  /\ Reconfigure(Live, val)
  /\ Reset({r}, {}, {})
  /\ UNCHANGED paused

DeleteRule(r) ==
  /\ r \in rules
  /\ rules' = rules \ {r}
  /\ enabled' = enabled \ {r}
  /\ timed' = timed \ {r}
  /\ Reconfigure(Live \ {r}, val)
  /\ Reset({r}, {}, {})
  /\ UNCHANGED paused

\* rule enable and rule disable: a PATCH of rule.enabled
Toggle(r) ==
  /\ r \in rules
  /\ enabled' = IF r \in enabled THEN enabled \ {r} ELSE enabled \cup {r}
  /\ Reset({r}, {}, {})
  /\ Reconfigure(rules \cap enabled', val')
  /\ UNCHANGED <<rules, paused, timed>>

\* PUT or PATCH of the condition or the duration
Reshape(r) ==
  /\ r \in rules
  /\ timed' \in {timed \ {r}, timed \cup (MayTime \cap {r})}
  /\ Reset({r}, {q \in {r} : HasDispatchedEnter(q)}, timed')
  /\ Reconfigure(Live, val')
  /\ UNCHANGED <<rules, enabled, paused>>

\* PATCH of anything else (name, debounce, actions), notify_record_changed
Touch ==
  /\ rules # {}
  /\ Reconfigure(Live, val)
  /\ UNCHANGED <<rules, enabled, paused, timed, condition>>

\* MUTANT of Pause: the condition layer freezes at what it last saw
PauseFrozen ==
  /\ paused' = TRUE
  /\ on' = FALSE /\ owing' = FALSE
  /\ UNCHANGED <<rules, enabled, timed, topo, condition>>

\* apply_task_status(active = False): observation stops, on_exit does not run
Pause ==
  /\ paused' = TRUE
  /\ Reset(rules, {}, {})
  /\ on' = FALSE /\ owing' = FALSE
  /\ UNCHANGED <<rules, enabled, timed, topo>>

\* apply_task_status(active = True)
Resume ==
  /\ paused' = FALSE
  /\ Reconfigure(Live, val)
  /\ UNCHANGED <<rules, enabled, timed, condition>>

\* delete_task: rows, runner state, topology and runtime state go
DeleteTask ==
  /\ rules # {}
  /\ rules' = {} /\ enabled' = {} /\ timed' = {} /\ paused' = FALSE
  /\ Reset(rules, {}, {})
  /\ topo' = {} /\ on' = FALSE /\ owing' = FALSE

\* the process restarts: attach_task_state_machine registers from the database
Restart ==
  /\ Reset(rules, {}, {})
  /\ topo' = Live /\ on' = FALSE /\ owing' = FALSE
  /\ UNCHANGED <<rules, enabled, paused, timed>>

(***************************************************************************)
(* Actions that pass the state machine by.                                 *)
(***************************************************************************)

\* force_cross_day_reset: on_exit and on_enter for every session rule whose
\* condition is true, a timed one counts anew
CrossDay ==
  LET affected == {r \in rules : Direction[r] = "session" /\ r \in base}
  IN  /\ WithRollover
      /\ affected # {}
      /\ leaving' = leaving \ affected
      /\ fired' = fired \ (affected \cap timed)
      /\ window' = [r \in Rule |-> IF r \in affected \cap timed THEN <<>> ELSE window[r]]
      /\ owing' = TRUE
      /\ UNCHANGED <<config, flicker, base, on>>

\* trigger_rule: on_enter (or what an exit rule's entry edge means) at once
TriggerRule(r, s) ==
  /\ WithTrigger /\ Listening(r) /\ s \in Source[r]
  /\ val' = [val EXCEPT ![r][s] = "T"]
  /\ base' = base \cup {r}
  /\ leaving' = leaving \ {r}
  /\ penter' = Cleared(penter, r)
  /\ owing' = CASE ~SessionType(topo) -> owing
                [] Direction[r] = "exit" -> FALSE
                [] Direction[r] = "guard" -> owing
                [] OTHER -> TRUE
  /\ UNCHANGED <<config, pexit, duration, on>>

Init ==
  /\ rules = {} /\ enabled = {} /\ timed = {} /\ topo = {}
  /\ paused = FALSE
  /\ val = [r \in Rule |-> [s \in Did |-> "no"]]
  /\ pexit = {} /\ penter = {} /\ base = {} /\ leaving = {} /\ fired = {}
  /\ window = [r \in Rule |-> <<>>]
  /\ on = FALSE /\ owing = FALSE

Next ==
  \/ \E r \in Rule, s \in Did : \/ \E b \in BOOLEAN : Frame(r, s, b)
                                \/ MarkUnknown(r, s)
                                \/ TriggerRule(r, s)
  \/ \E r \in Rule : \/ DebounceEnds(r) \/ CreateRule(r) \/ DeleteRule(r)
                     \/ Toggle(r) \/ Reshape(r)
  \/ Touch \/ Pause \/ Resume \/ DeleteTask \/ Restart \/ CrossDay

Spec == Init /\ [][Next]_vars

\* The perception client reports every source of an enabled rule each cycle, and
\* the event loop wakes a debounce whose delay has passed.
Fairness ==
  /\ \A r \in Rule, s \in Did : WF_vars(Frame(r, s, FALSE))
  /\ \A r \in Rule : WF_vars(DebounceEnds(r))

FairSpec == Spec /\ Fairness
-----------------------------------------------------------------------------
(***************************************************************************)
(* Properties.                                                             *)
(***************************************************************************)

\* Every variable has its type.
TypeOK ==
  /\ rules \subseteq Rule /\ enabled \subseteq rules /\ topo \subseteq rules
  /\ timed \subseteq rules \cap MayTime
  /\ paused \in BOOLEAN /\ on \in BOOLEAN /\ owing \in BOOLEAN
  /\ val \in [Rule -> [Did -> {"T", "F", "U", "no"}]]
  /\ pexit \subseteq Rule \X Did /\ penter \subseteq Rule \X Did
  /\ base \subseteq Rule /\ leaving \subseteq Rule /\ fired \subseteq timed
  /\ window \in [Rule -> UNION {[1 .. n -> {0, 1}] : n \in 0 .. MaxLen}]

\* on_exit never rests on ignorance: while a rule's exit debounce runs, each of
\* its sources was last seen false, and the rule is one that listens (the
\* promise of mark_source_unknown and of the resets).
LeavingIsFalse ==
  \A r \in leaving : /\ Listening(r) /\ Direction[r] = "session"
                     /\ r \notin base /\ Satisfied(r, val) = "F"

\* An on_enter that ran is owed its on_exit exactly as long as the task is on:
\* every way out but a pause, a restart and the task's end runs on_exit, once.
Paired == on <=> owing

\* A task that is on can end.  Its rules contain a way out, and a session rule
\* among them is in a state from which false frames lead to on_exit: entered (a
\* timed one: fired), or already leaving.
OnCanEnd ==
  on => /\ ~paused /\ SessionType(topo)
        /\ \A r \in Holding(topo) :
             r \in leaving \/ (r \in base /\ (r \in timed => r \in fired))

\* the rule holds its session, as far as the condition layer knows
Held(r) ==
  /\ Listening(r) /\ Direction[r] = "session" /\ Guards(topo) = {}
  /\ r \in leaving \/ (IF r \in timed THEN r \in fired ELSE r \in base)

\* The two layers agree: a session rule that thinks it is in (and whose entry no
\* guard could have stopped) belongs to a task that is on.
SessionHeldIsOn == \A r \in Rule : Held(r) => on

\* The only step that parts the two layers is a reconfiguration that hits a
\* pending exit: pause and resume, new conditions, devices that go and come back
\* never leave a session rule in and its task off.  (The last guard going leaves
\* an entry it has refused without a second chance.)
LayersStayTogether ==
  [][SessionHeldIsOn => \/ SessionHeldIsOn'
                        \/ on /\ ~on' /\ leaving # {} /\ UNCHANGED leaving
                        \/ Guards(topo) # {} /\ Guards(topo') = {}]_vars

\* Once frames say nothing but false and nothing is reconfigured, a task with a
\* session rule goes off for good: neither the filters nor the debounce keep a
\* session alive.
AbsenceEnds ==
  <>[][\E r \in Rule : DebounceEnds(r) \/ \E s \in Did : Frame(r, s, FALSE)]_vars
    => <>[](Holding(topo) # {} => ~on)

\* A task is on under a known exit condition only when that condition came out of
\* ignorance (a reset, a device that was away) while the task was on: no step
\* enters under one, and one that is seen to come true ends the session.
ExitSlipsOnlyFromUnknown ==
  [][\A x \in topo' \ timed' :
       Direction[x] = "exit" /\ on' /\ Satisfied(x, val') = "T"
         => on /\ Satisfied(x, val) # "F"]_vars

=============================================================================
