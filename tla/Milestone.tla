------------------------------- MODULE Milestone -------------------------------
(***************************************************************************)
(* "You have done your twenty minutes today": rule/record_source.py, with  *)
(* the daily duration record it reads (task_record/service.py and          *)
(* rollover.py), the milestone rule that rule/service.py derives from it,  *)
(* and what rule/runner.py and task/state_machine.py do with its           *)
(* condition, for one task that has a target notification.                 *)
(*                                                                         *)
(* Nothing stores that the user was told today: the condition carries it,  *)
(* which stays true until the day is over, so that no second edge comes.   *)
(* Reads, settling and feeding do not suspend, so each of the source's     *)
(* coroutines is one step; what interleaves is the arming in the           *)
(* background, the timers, the agent's calls on the record, the user's on  *)
(* the task, and the rollover, which works in a thread.                    *)
(*                                                                         *)
(* The clock of a timer is not kept: it may come late, and it may come     *)
(* early against a record whose session was closed meanwhile.  Not here: a *)
(* read that fails, a task without on_target action, and what turns the    *)
(* task on and off (RuleTask), which are Enter, Exit and a reconfiguration *)
(* here.                                                                   *)
(***************************************************************************)
EXTENDS Naturals

CONSTANTS
  Targets,                \* target_minutes that a user may set
  MaxWork, MaxBack        \* bounds: minutes of a day, minutes a start is reported late

NoTarget == 0
NoTimer == [live |-> FALSE, night |-> FALSE, set |-> FALSE]

VARIABLES
  on, paused,             \* the state machine's runtime state; the task's status
  target,                 \* target_minutes; with one, there is a milestone rule
  done, open, run,        \* minutes of closed sessions, an open one and its minutes
  cond,                   \* the milestone rule's last_rule_state
  arming, timer,          \* _arming and _timers; live: of the present _arm_round
  stage, pre,             \* the rollover: "idle", "read", "committed"; old day reached
  late,                   \* midnight has passed and the record is still the old day's
  log,                    \* RuleLog of today: "none", "today" or still "writing"
  \* history
  told, twice,            \* the notification was dispatched in this day; once too often
  forgot, seeded,         \* the code could not know that; it took for granted that it was
  eve                     \* told, of the day that a rollover has just ended

machine == <<on, paused>>
record == <<target, done, open, run>>
source == <<arming, timer>>
night == <<stage, pre, late>>
history == <<told, twice, forgot, seeded, eve>>
vars == <<machine, record, cond, source, night, log, history>>

(***************************************************************************)
(* The record and the condition                                            *)
(***************************************************************************)

\* read_duration_target_state, compared; false without a target
Reaches(t, minutes) == t # NoTarget /\ minutes >= t
Reached == Reaches(target, done + run)

\* _handle_milestone lets a true edge pass only while the task is on
Told(isOn) == ~paused /\ ~cond /\ isOn

\* the dispatch of on_target, and its history
Tell(now) ==
  /\ log' = IF now THEN (IF log = "today" THEN log ELSE "writing") ELSE log
  /\ twice' = (twice \/ (now /\ told /\ ~forgot))

\* _feed_record TRUE through update_state; isOn: what the state machine says then
FeedTrue(isOn) ==
  /\ cond' = (cond \/ ~paused)
  /\ Tell(Told(isOn))
  /\ told' = (told \/ Told(isOn)) /\ forgot' = (forgot /\ ~Told(isOn))
  /\ UNCHANGED <<seeded, eve>>

(***************************************************************************)
(* RecordSource: arm, disarm, the background and the timer                 *)
(***************************************************************************)

Fresh(isNight) == [live |-> TRUE, night |-> isNight, set |-> TRUE]
Void(A) == {[a EXCEPT !.live = FALSE] : a \in A}

\* arm: a coroutine for the rule, if there is one
Armed(A, t, isNight) == IF t = NoTarget THEN A ELSE A \cup {Fresh(isNight)}

Arm == arming' = Armed(arming, target, FALSE) /\ UNCHANGED timer
Disarm == arming' = Void(arming) /\ timer' = NoTimer

\* MUTANT of RoundIsOver: no rounds
RoundNeverOver(a) == FALSE

RoundIsOver(a) == ~a.live

\* _arm_one from the reading of the record on: the timer, or it is reached already
Reckon(a) ==
  IF Reached
  THEN timer' = NoTimer /\ FeedTrue(on)
  ELSE timer' = a /\ UNCHANGED <<cond, log, history>>

\* a coroutine of arm runs
ArmOne(a) ==
  /\ a \in arming /\ arming' = arming \ {a}
  /\ IF RoundIsOver(a) THEN UNCHANGED <<timer, cond, log, history>> ELSE Reckon(a)
  /\ UNCHANGED <<machine, record, night>>

\* _feed_after wakes
TimerDue ==
  /\ timer.set
  /\ IF RoundIsOver(timer)
     THEN timer' = NoTimer /\ UNCHANGED <<cond, log, history>>
     ELSE Reckon(timer)
  /\ UNCHANGED <<machine, record, night, arming>>

(***************************************************************************)
(* The task enters and leaves                                              *)
(***************************************************************************)

Enter ==
  /\ ~paused /\ ~on
  /\ on' = TRUE
  /\ Arm
  /\ UNCHANGED <<paused, record, cond, night, log, history>>

\* settle: feed true if the target is reached
Settle == IF Reached THEN FeedTrue(on) ELSE UNCHANGED <<cond, log, history>>

\* MUTANT of Exit: the state machine first, then the settlement
ExitThenSettle ==
  /\ ~paused
  /\ on' = FALSE
  /\ IF Reached THEN FeedTrue(FALSE) ELSE UNCHANGED <<cond, log, history>>
  /\ IF on THEN Disarm ELSE UNCHANGED source
  /\ UNCHANGED <<paused, record, night>>

\* an edge that ends the session, or finds it ended: settle, then the state machine
Exit ==
  /\ ~paused
  /\ Settle
  /\ on' = FALSE
  /\ IF on THEN Disarm ELSE UNCHANGED source
  /\ UNCHANGED <<paused, record, night>>

\* an edge whose exit another rule holds back (STILL_HELD): settled, not disarmed
StillHeld ==
  /\ ~paused /\ on
  /\ Settle
  /\ UNCHANGED <<machine, record, source, night>>

\* reconcile_milestone_rule: the rule goes with its target and comes back with a seed
Reconcile(t) ==
  CASE t = NoTarget ->
         cond' = FALSE /\ seeded' = FALSE /\ UNCHANGED forgot
    [] t # NoTarget /\ target = NoTarget ->
         /\ cond' = (log = "today") /\ seeded' = (cond' /\ ~told)
         /\ forgot' = (forgot \/ (told /\ log # "today"))
    [] OTHER -> UNCHANGED <<cond, seeded, forgot>>

\* patch_record and its reconfigure_task, or any other reconfiguration; stay: the
\* state machine finds that the task stays on
Reconfigure(t, stay) ==
  /\ target' = t
  /\ Reconcile(t)
  /\ on' = (on /\ stay)
  /\ CASE t = NoTarget -> arming' = {} /\ timer' = NoTimer
       [] t # NoTarget /\ on /\ ~stay -> Disarm
       [] t # NoTarget /\ on /\ stay ->
            arming' = Armed(arming, t, FALSE) /\ UNCHANGED timer
       [] OTHER -> UNCHANGED source
  /\ UNCHANGED <<paused, done, open, run, night, log, told, twice, eve>>

(***************************************************************************)
(* Pause, resume, restart                                                  *)
(***************************************************************************)

\* apply_task_status(FALSE): reset of the condition, disarm, the session is closed
Pause ==
  /\ paused' = TRUE /\ on' = FALSE
  /\ cond' = FALSE /\ seeded' = FALSE
  /\ Disarm
  /\ done' = done + run /\ open' = FALSE /\ run' = 0
  /\ UNCHANGED <<target, night, log, told, twice, forgot, eve>>

\* apply_task_status(TRUE), of a task that may be active: reconfigure, then the seed
Resume(stay) ==
  /\ paused' = FALSE /\ on' = (on /\ stay)
  /\ CASE on /\ stay -> Arm [] on /\ ~stay -> Disarm [] OTHER -> UNCHANGED source
  /\ cond' = (cond \/ Reached)
  /\ seeded' = (seeded \/ (Reached /\ ~cond /\ ~told))
  /\ forgot' = (forgot \/ (told /\ ~cond /\ ~Reached))
  /\ UNCHANGED <<record, night, log, told, twice, eve>>

\* the process is down for some minutes; _seed_reached_targets when it starts
Restart(down) ==
  /\ done + run + down <= MaxWork
  /\ run' = IF open THEN run + down ELSE run
  /\ on' = FALSE /\ arming' = {} /\ timer' = NoTimer
  /\ stage' = "idle" /\ pre' = FALSE
  /\ told' = (told /\ stage # "committed")
  /\ cond' = Reaches(target, done + run')
  /\ seeded' = (cond' /\ ~told')
  /\ forgot' = (told' /\ (forgot \/ ~cond'))
  /\ log' = IF log = "writing" THEN "none" ELSE log
  /\ UNCHANGED <<paused, target, done, open, late, twice, eve>>

(***************************************************************************)
(* The record: the agent's calls and the passing of time                   *)
(***************************************************************************)

\* session_start, at a moment "back" minutes ago
SessionStart(back) ==
  /\ ~paused /\ ~open
  /\ back > 0 => stage = "idle"
  /\ done + back <= MaxWork
  /\ open' = TRUE /\ run' = back
  /\ UNCHANGED <<machine, target, done, cond, source, night, log, history>>

\* session_end, at a moment when the session was "at" minutes long
SessionEnd(at) ==
  /\ ~paused /\ open /\ at <= run
  /\ done' = done + at /\ open' = FALSE /\ run' = 0
  /\ UNCHANGED <<machine, target, cond, source, night, log, history>>

\* a minute; the steps of a rollover take less
Minute ==
  /\ stage = "idle" /\ open /\ done + run < MaxWork
  /\ run' = run + 1
  /\ UNCHANGED <<machine, target, done, open, cond, source, night, log, history>>

\* _fire is through: the notification is in the log
FireEnds ==
  /\ log = "writing" /\ log' = "today"
  /\ UNCHANGED <<machine, record, cond, source, night, history>>

(***************************************************************************)
(* The night                                                               *)
(***************************************************************************)

\* the log's day ends at midnight, the record's with the rollover
Midnight ==
  /\ ~late /\ stage = "idle"
  /\ late' = TRUE /\ log' = "none"
  /\ UNCHANGED <<machine, record, cond, source, stage, pre, history>>

\* rollover_daily_job, in a thread: the snapshot
RollRead ==
  /\ late /\ stage = "idle"
  /\ stage' = "read" /\ pre' = Reached /\ eve' = FALSE
  /\ UNCHANGED <<machine, record, cond, source, late, log, told, twice, forgot, seeded>>

\* rollover_one: archive, and a new row that goes on with an open session
RollCommit ==
  /\ stage = "read" /\ stage' = "committed" /\ late' = FALSE
  /\ done' = 0 /\ run' = 0
  /\ UNCHANGED <<machine, target, open, cond, source, pre, log, history>>

\* whether roll_over tells of the day that is over
ToldOfTheEve == pre /\ target # NoTarget /\ Told(on)

\* roll_over on the loop: settle by the snapshot, reset, arm - also while the task is
\* off; a paused task takes no value
RollOver ==
  /\ stage = "committed" /\ stage' = "idle" /\ pre' = FALSE
  /\ Tell(ToldOfTheEve) /\ eve' = (told \/ ToldOfTheEve)
  /\ told' = FALSE /\ forgot' = FALSE /\ seeded' = FALSE
  /\ cond' = (cond /\ paused)
  /\ arming' = Armed(Void(arming), target, ~on) /\ timer' = NoTimer
  /\ UNCHANGED <<machine, record, late>>

-------------------------------------------------------------------------------

Init ==
  /\ on = FALSE /\ paused \in BOOLEAN
  /\ target \in Targets \cup {NoTarget}
  /\ done = 0 /\ open = FALSE /\ run = 0
  /\ cond = FALSE /\ arming = {} /\ timer = NoTimer
  /\ stage = "idle" /\ pre = FALSE /\ late = FALSE /\ log = "none"
  /\ told = FALSE /\ twice = FALSE /\ forgot = FALSE /\ seeded = FALSE /\ eve = FALSE

Task ==
  \/ Enter \/ Exit \/ StillHeld \/ Pause
  \/ \E stay \in BOOLEAN : Resume(stay)
  \/ \E t \in Targets \cup {NoTarget}, stay \in BOOLEAN : Reconfigure(t, stay)

Record ==
  \/ Minute
  \/ \E back \in 0..MaxBack : SessionStart(back)
  \/ \E at \in 0..MaxWork : SessionEnd(at)

Next ==
  \/ Task \/ Record
  \/ TimerDue \/ FireEnds
  \/ \E a \in arming : ArmOne(a)
  \/ \E down \in {0, 1} : Restart(down)
  \/ Midnight \/ RollRead \/ RollCommit \/ RollOver

Spec == Init /\ [][Next]_vars

(***************************************************************************)
(* Properties                                                              *)
(***************************************************************************)

Arms == [live : BOOLEAN, night : BOOLEAN, set : {TRUE}]

\* The types of the variables (rule/record_source.py:145); a day has at most MaxWork
\* minutes.
TypeOK ==
  /\ on \in BOOLEAN /\ paused \in BOOLEAN
  /\ target \in Targets \cup {NoTarget}
  /\ done \in 0..MaxWork /\ open \in BOOLEAN /\ run \in 0..MaxWork
  /\ cond \in BOOLEAN
  /\ arming \in SUBSET Arms /\ timer \in Arms \cup {NoTimer}
  /\ stage \in {"idle", "read", "committed"} /\ pre \in BOOLEAN /\ late \in BOOLEAN
  /\ log \in {"none", "writing", "today"}
  /\ told \in BOOLEAN /\ twice \in BOOLEAN /\ forgot \in BOOLEAN
  /\ seeded \in BOOLEAN /\ eve \in BOOLEAN

\* A session that has a target and was not told of it is timed, or about to be; and
\* what a session armed does not survive it: whatever waits while the task is off was
\* armed by a rollover (rule/record_source.py:151, rule/record_source.py:207).
TimersFollowSession ==
  /\ on /\ target # NoTarget /\ ~cond =>
       (timer.set /\ timer.live) \/ \E a \in arming : a.live
  /\ ~on => (timer.set => timer.night) /\ \A a \in arming : a.live => a.night

\* The user is told once a day, although nothing keeps that he was: twice only where
\* the condition went and neither the record nor the log could tell
\* (rule/service.py:657, rule/service.py:1759).
ToldOnce == ~twice

\* Who reaches the target in a session is told when the session ends or the day does,
\* unless the condition was true already (rule/record_source.py:170,
\* rule/record_source.py:224).
ReachIsTold ==
  [][/\ on /\ (Exit \/ StillHeld) /\ Reached => cond \/ told'
     /\ on /\ RollOver /\ pre /\ target # NoTarget => cond \/ eve']_vars

\* While the condition is true the user was told today, or the code says that it takes
\* that for granted: "条件此刻为真就说明已经通知过了" (rule/record_source.py:244).
TrueMeansTold == cond => told \/ seeded
===============================================================================
