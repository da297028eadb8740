----------------------------- MODULE CronSchedule -----------------------------
(***************************************************************************)
(* Scheduled messages: schedule/runner.py, the rows it keeps in the table  *)
(* "cron" (schedule/repo.py), and the calls of schedule/router.py and      *)
(* task/service.py that create, delete, enable and disable them.           *)
(*                                                                         *)
(* A row of kind "at" is sent once: its main job runs at its time, a       *)
(* failed turn leaves a ":retry" job, a finished one deletes the row.  The *)
(* jobs live in APScheduler's memory and are rebuilt from the rows when    *)
(* the process starts.  A row of kind "cron" or "every" comes again.       *)
(*                                                                         *)
(* A status that _fire does not know, or an exception that escapes it, is  *)
(* only logged: an "at" then stays behind, enabled, without a job, until   *)
(* it is enabled again or the process starts.  The properties name this    *)
(* exception; the history variable unknown tells where it happened.        *)
(*                                                                         *)
(* Not here: rows of an external owner (no job), the kill switch, the      *)
(* branches on fired_at, which no code sets, and errors of the database.   *)
(***************************************************************************)
EXTENDS Naturals, FiniteSets

CONSTANTS
  At, Periodic,   \* rows of kind "at", rows of kind "cron" and "every"
  Delays,         \* what _resolve_max_delay gives, in ticks, 0 for no limit
  RetryDelay,     \* _RETRY_DELAY_MS in ticks
  Period,         \* a periodic row runs at the multiples of Period
  MaxDue,         \* bound: the time of a new row
  MaxTime,        \* bound: the clock stops here
  MaxAttempt      \* bound: turns that end with "error"

Cron == At \cup Periodic
Job == {"main", "retry"}
NoTurn == MaxAttempt + 1

ASSUME CronAssumption == At \cap Periodic = {} /\ Delays \subseteq Nat /\ Delays # {}
ASSUME TimeAssumption ==
  /\ RetryDelay \in Nat \ {0} /\ Period \in Nat \ {0}
  /\ MaxDue \in Nat /\ MaxTime \in Nat \ {0} /\ MaxDue <= MaxTime /\ MaxAttempt \in Nat

VARIABLES
  now,            \* now_ms, in ticks from 1
  row,            \* the row: "unborn", "enabled", "disabled" or "gone"
  due,            \* at_ms of a row of kind "at"
  delay,          \* _resolve_max_delay of a row
  attempt,        \* retry_attempt
  job,            \* the time of a scheduled job, 0 when there is none
  turn,           \* the attempt in the key of a job's turn under way, or NoTurn
  refused,        \* history: attempts a turn answered with "error"
  unknown         \* history: "at" rows whose last turn ended with an unknown status
                  \* and that were not scheduled anew since

vars == <<now, row, due, delay, attempt, job, turn, refused, unknown>>

\* the jobs of a row: id cron_id, and id cron_id:retry
Jobs(m, r) == [j \in Job |-> IF j = "main" THEN m ELSE r]

Exists(c) == row[c] \in {"enabled", "disabled"}
Limited(c) == delay[c] # 0
Overdue(c, t) == Limited(c) /\ t > due[c] + delay[c]

\* the run after t of a periodic row
NextRun(t) == (t \div Period + 1) * Period

\* a new row: an "at" lies in the future, only an "at" may have no limit
Create(c) ==
  /\ row[c] = "unborn"
  /\ \E d \in Delays : (c \in Periodic => d # 0) /\ delay' = [delay EXCEPT ![c] = d]
  /\ \/ /\ c \in At
        /\ \E t \in now + 1 .. MaxDue :
             /\ due' = [due EXCEPT ![c] = t]
             /\ job' = [job EXCEPT ![c]["main"] = t]
     \/ /\ c \in Periodic
        /\ job' = [job EXCEPT ![c]["main"] = NextRun(now)]
        /\ UNCHANGED due
  /\ row' = [row EXCEPT ![c] = "enabled"]
  /\ UNCHANGED <<now, attempt, turn, refused, unknown>>

\* delete_cron, and delete_task, whose cascade takes the row
Delete(c) ==
  /\ Exists(c)
  /\ row' = [row EXCEPT ![c] = "gone"]
  /\ job' = [job EXCEPT ![c] = Jobs(0, 0)]
  /\ UNCHANGED <<now, due, delay, attempt, turn, refused, unknown>>

\* apply_enabled_state after set_enabled: the main job of an "at" has its own
\* time again, past or not; disabling leaves a ":retry" where it is
Enable(c) ==
  /\ Exists(c)
  /\ row' = [row EXCEPT ![c] = "enabled"]
  /\ job' = [job EXCEPT ![c]["main"] = IF c \in At THEN due[c] ELSE NextRun(now)]
  /\ unknown' = unknown \ {c}
  /\ UNCHANGED <<now, due, delay, attempt, turn, refused>>

Disable(c) ==
  /\ Exists(c)
  /\ row' = [row EXCEPT ![c] = "disabled"]
  /\ job' = [job EXCEPT ![c]["main"] = 0]
  /\ UNCHANGED <<now, due, delay, attempt, turn, refused, unknown>>

\* the row of an "at" is deleted with its ":retry", its main job M stays
GiveUp(c, M) ==
  /\ row' = [row EXCEPT ![c] = "gone"]
  /\ job' = [job EXCEPT ![c] = Jobs(M, 0)]

\* MUTANT of RetryOrGiveUp: past the window nothing is scheduled, the row stays
RetryOrNothing(c) ==
  IF Overdue(c, now + RetryDelay)
  THEN UNCHANGED <<row, job>>
  ELSE /\ job' = [job EXCEPT ![c]["retry"] = now + RetryDelay]
       /\ UNCHANGED row

\* _handle_at_failure, _schedule_at_retry
RetryOrGiveUp(c) ==
  IF Overdue(c, now + RetryDelay)
  THEN GiveUp(c, job[c]["main"])
  ELSE /\ job' = [job EXCEPT ![c]["retry"] = now + RetryDelay]
       /\ UNCHANGED row

(***************************************************************************)
(* APScheduler runs a job whose time has come.                             *)
(***************************************************************************)

\* the jobs of c once j has run: a date does not come again
JobsAfter(c, j) ==
  [job[c] EXCEPT ![j] = IF c \in Periodic /\ j = "main" THEN NextRun(now) ELSE 0]

\* MUTANT of Fire: the window is left to misfire_grace_time
FireLate(c, j) ==
  \/ /\ row[c] # "enabled"
     /\ job' = [job EXCEPT ![c] = Jobs(0, 0)]
     /\ UNCHANGED <<row, turn>>
  \/ /\ row[c] = "enabled"
     /\ turn' = [turn EXCEPT ![c][j] = attempt[c]]
     /\ job' = [job EXCEPT ![c] = JobsAfter(c, j)]
     /\ UNCHANGED row

\* _fire up to run_agent_turn: the row is read again
Fire(c, j) ==
  \/ /\ row[c] # "enabled"
     /\ job' = [job EXCEPT ![c] = Jobs(0, 0)]
     /\ UNCHANGED <<row, turn>>
  \/ /\ row[c] = "enabled" /\ c \in At /\ Overdue(c, now)
     /\ GiveUp(c, JobsAfter(c, j)["main"])
     /\ UNCHANGED turn
  \/ /\ row[c] = "enabled" /\ ~(c \in At /\ Overdue(c, now))
     /\ turn' = [turn EXCEPT ![c][j] = attempt[c]]
     /\ job' = [job EXCEPT ![c] = JobsAfter(c, j)]
     /\ UNCHANGED row

\* the run time misfire_grace_time counts from: runs that piled up are coalesced
\* into the last one
RunTime(c, j) == IF c \in Periodic THEN (now \div Period) * Period ELSE job[c][j]

Late(c, j) == Limited(c) /\ now > RunTime(c, j) + delay[c]

\* the job is skipped while its last run is under way (max_instances)
Skip(c, j) ==
  /\ turn[c][j] # NoTurn
  /\ job' = [job EXCEPT ![c] = JobsAfter(c, j)]
  /\ UNCHANGED <<row, turn>>

\* _on_missed: it comes later than misfire_grace_time allows
Missed(c, j) ==
  /\ turn[c][j] = NoTurn /\ Late(c, j)
  /\ IF c \in At /\ Exists(c)
     THEN GiveUp(c, JobsAfter(c, j)["main"])
     ELSE job' = [job EXCEPT ![c] = JobsAfter(c, j)] /\ UNCHANGED row
  /\ UNCHANGED turn

Run(c, j) ==
  /\ job[c][j] # 0 /\ now >= job[c][j]
  /\ \/ Skip(c, j)
     \/ Missed(c, j)
     \/ turn[c][j] = NoTurn /\ ~Late(c, j) /\ Fire(c, j)
  /\ UNCHANGED <<now, due, delay, attempt, refused, unknown>>

(***************************************************************************)
(* The rest of _fire, by the outcome of run_agent_turn.                    *)
(***************************************************************************)

Over(c, j) == turn[c][j] # NoTurn /\ turn' = [turn EXCEPT ![c][j] = NoTurn]

\* status "ok" (mark_fired_and_delete) and "no-channel"
TurnOver(c, j) ==
  /\ Over(c, j)
  /\ IF c \in At
     THEN GiveUp(c, job[c]["main"])
     ELSE UNCHANGED <<row, job>>
  /\ unknown' = unknown \ {c}
  /\ UNCHANGED <<now, due, delay, attempt, refused>>

\* status "timeout" and AgentWebhookException: the attempt is not counted, so
\* the next turn repeats the key of this one
TurnLost(c, j) ==
  /\ Over(c, j)
  /\ IF c \in At /\ Exists(c) THEN RetryOrGiveUp(c) ELSE UNCHANGED <<row, job>>
  /\ unknown' = unknown \ {c}
  /\ UNCHANGED <<now, due, delay, attempt, refused>>

\* MUTANT of TurnFailed: the attempt is not counted
TurnFailedSameKey(c, j) ==
  /\ attempt[c] < MaxAttempt
  /\ Over(c, j)
  /\ refused' = [refused EXCEPT ![c] = @ \cup {turn[c][j]}]
  /\ IF c \in At /\ Exists(c) THEN RetryOrGiveUp(c) ELSE UNCHANGED <<row, job>>
  /\ unknown' = unknown \ {c}
  /\ UNCHANGED <<now, due, delay, attempt>>

\* MUTANT of TurnFailed: every kind of row is retried
TurnFailedAnyKind(c, j) ==
  /\ attempt[c] < MaxAttempt
  /\ Over(c, j)
  /\ refused' = [refused EXCEPT ![c] = @ \cup {turn[c][j]}]
  /\ IF Exists(c)
     THEN attempt' = [attempt EXCEPT ![c] = @ + 1] /\ RetryOrGiveUp(c)
     ELSE UNCHANGED <<row, job, attempt>>
  /\ unknown' = unknown \ {c}
  /\ UNCHANGED <<now, due, delay>>

\* status "error"
TurnFailed(c, j) ==
  /\ attempt[c] < MaxAttempt
  /\ Over(c, j)
  /\ refused' = [refused EXCEPT ![c] = @ \cup {turn[c][j]}]
  /\ IF c \in At /\ Exists(c)
     THEN attempt' = [attempt EXCEPT ![c] = @ + 1] /\ RetryOrGiveUp(c)
     ELSE UNCHANGED <<row, job, attempt>>
  /\ unknown' = unknown \ {c}
  /\ UNCHANGED <<now, due, delay>>

\* any other status (run_agent_turn passes on what the platform answers), and an
\* exception that is not AgentWebhookException (_on_error): logged, nothing else
TurnUnknown(c, j) ==
  /\ Over(c, j)
  /\ unknown' = unknown \cup ({c} \cap At)
  /\ UNCHANGED <<row, job, now, due, delay, attempt, refused>>

\* MUTANT of Rebuilt: a row in its retry chain waits for its retry
RebuiltMain(c) ==
  IF row[c] # "enabled" \/ (c \in At /\ attempt[c] > 0) THEN Jobs(0, 0)
  ELSE Jobs(IF c \in At THEN due[c] ELSE NextRun(now), 0)

\* the jobs rebuild_from_db gives a row: a row in its retry chain only ":retry"
Rebuilt(c) ==
  IF row[c] # "enabled" THEN Jobs(0, 0)
  ELSE IF c \in Periodic THEN Jobs(NextRun(now), 0)
  ELSE IF attempt[c] > 0 THEN Jobs(0, now + RetryDelay)
  ELSE Jobs(due[c], 0)

\* the process dies, with the answers of its turns, and comes back: rows past
\* their window go (a row in its retry chain if its retry would be)
Restart ==
  LET expired == {c \in At : /\ Exists(c)
                             /\ \/ Overdue(c, now)
                                \/ /\ row[c] = "enabled" /\ attempt[c] > 0
                                   /\ Overdue(c, now + RetryDelay)}
  IN  /\ row' = [c \in Cron |-> IF c \in expired THEN "gone" ELSE row[c]]
      /\ job' = [c \in Cron |-> IF c \in expired THEN Jobs(0, 0) ELSE Rebuilt(c)]
      /\ turn' = [c \in Cron |-> [j \in Job |-> NoTurn]]
      /\ unknown' = {}
      /\ UNCHANGED <<now, due, delay, attempt, refused>>

Tick ==
  /\ now < MaxTime /\ now' = now + 1
  /\ UNCHANGED <<row, due, delay, attempt, job, turn, refused, unknown>>

Init ==
  /\ now = 1
  /\ row = [c \in Cron |-> "unborn"]
  /\ due = [c \in Cron |-> 0]
  /\ delay = [c \in Cron |-> 0]
  /\ attempt = [c \in Cron |-> 0]
  /\ job = [c \in Cron |-> Jobs(0, 0)]
  /\ turn = [c \in Cron |-> [j \in Job |-> NoTurn]]
  /\ refused = [c \in Cron |-> {}]
  /\ unknown = {}

Next ==
  \/ \E c \in Cron : Create(c) \/ Delete(c) \/ Enable(c) \/ Disable(c)
  \/ \E c \in Cron, j \in Job :
       \/ Run(c, j)
       \/ TurnOver(c, j) \/ TurnLost(c, j) \/ TurnFailed(c, j) \/ TurnUnknown(c, j)
  \/ Restart
  \/ Tick

Spec == Init /\ [][Next]_vars

\* time goes on, APScheduler wakes, and a turn ends one way or another within
\* wait_timeout_ms
Fairness ==
  /\ WF_vars(Tick)
  /\ \A c \in Cron, j \in Job :
       /\ WF_vars(Run(c, j))
       /\ WF_vars(TurnOver(c, j) \/ TurnLost(c, j) \/ TurnFailed(c, j) \/ TurnUnknown(c, j))

FairSpec == Spec /\ Fairness
-----------------------------------------------------------------------------
(***************************************************************************)
(* Properties.                                                             *)
(***************************************************************************)

\* Every variable has its type, and only an "at" has a retry chain.
TypeOK ==
  /\ now \in 1 .. MaxTime
  /\ row \in [Cron -> {"unborn", "enabled", "disabled", "gone"}]
  /\ due \in [Cron -> 0 .. MaxTime]
  /\ attempt \in [Cron -> 0 .. MaxAttempt]
  /\ job \in [Cron -> [Job -> Nat]]
  /\ turn \in [Cron -> [Job -> 0 .. NoTurn]]
  /\ refused \in [Cron -> SUBSET (0 .. MaxAttempt)]
  /\ delay \in [Cron -> Delays \cup {0}]
  /\ unknown \subseteq At
  /\ \A c \in Periodic : attempt[c] = 0 /\ job[c]["retry"] = 0 /\ turn[c]["retry"] = NoTurn

Alive(c) == \E j \in Job : job[c][j] # 0 \/ turn[c][j] # NoTurn

\* An enabled row is not forgotten: a job will run it or a turn is under way.  Skipped,
\* missed and refused runs, disabling in the middle of a turn and a restart in the retry
\* chain all keep this; only an "at" whose last turn ended with a status that _fire
\* does not know (runner.py:331) is left without, and neither enabling it nor a
\* restart leaves it so.
EnabledIsAlive ==
  \A c \in Cron : row[c] = "enabled" => Alive(c) \/ c \in unknown

\* No turn of an "at" starts before its time or after its window, however late
\* the job wakes and however the row got its job.
TurnsStartInWindow ==
  [][\A c \in At, j \in Job :
       turn[c][j] = NoTurn /\ turn'[c][j] # NoTurn => now >= due[c] /\ ~Overdue(c, now)]_vars

\* After an answer "error" the next turn has a key of its own, or the platform
\* would take it for the one it refused; that survives restarts and parallel turns.
NewKeyAfterError ==
  [][\A c \in At, j \in Job :
       turn[c][j] = NoTurn /\ turn'[c][j] # NoTurn => turn'[c][j] \notin refused[c]]_vars

\* An "at" with a window comes to an end, it is sent, given up or taken away, or it is
\* left without a job by a status that _fire does not know.
AtEnds ==
  \A c \in At : Limited(c) /\ row[c] = "enabled"
                  ~> row[c] # "enabled" \/ (c \in unknown /\ ~Alive(c))

\* The main job and the retry of an "at" do not run at the same time (the reason
\* rebuild_from_db gives for skipping the main job).
OneTurnAtATime ==
  \A c \in At : \E j \in Job : turn[c][j] = NoTurn
=============================================================================
