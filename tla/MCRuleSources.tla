---------------------------- MODULE MCRuleSources ----------------------------
(***************************************************************************)
(* The three sources of conditions, for one run: two rules on one device,  *)
(* the milestone of a task, and the camera whose frames perception judges. *)
(* They do not meet; the initial state says which of them moves.           *)
(***************************************************************************)
EXTENDS IotSource

CONSTANTS
  Targets, MaxWork, MaxBack,
  Watcher, Recorder, MaxMoves, MaxFaults, MaxIds

VARIABLES
  part,      \* "iot", "milestone" or "camera"
  on, paused, target, done, open, run, cond, arming, timer, stage, pre, late, log,
  told, twice, forgot, seeded, eve,
  world, session, calls, next, killer, eye, sync, viewers, reg, closing,
  severed, robbers, spare, moves, faults

goalVars == <<on, paused, target, done, open, run, cond, arming, timer, stage, pre, late,
              log, told, twice, forgot, seeded, eve>>
cameraVars == <<world, session, calls, next, killer, eye, sync, viewers, reg, closing,
                severed, robbers, spare, moves, faults>>

Goal == INSTANCE Milestone
Camera == INSTANCE CameraSession

\* a part that does not move begins in one state
SourcesInit ==
  /\ Init /\ Goal!Init /\ Camera!Init /\ part \in {"iot", "milestone", "camera"}
  /\ part # "milestone" => target = Goal!NoTarget /\ ~paused
  /\ part # "iot" => \A r \in Rule : watch[r] = None /\ ~active[r]
  /\ part # "camera" => world = "up"

SourcesNext ==
  /\ part' = part
  /\ \/ part = "iot" /\ Next /\ UNCHANGED <<goalVars, cameraVars>>
     \/ part = "milestone" /\ Goal!Next /\ UNCHANGED <<vars, cameraVars>>
     \/ part = "camera" /\ Camera!Next /\ UNCHANGED <<vars, goalVars>>

\* the fairness of the camera, while it moves
CameraFairness ==
  /\ WF_cameraVars(part = "camera" /\ Camera!Sync)
  /\ WF_cameraVars(part = "camera" /\ Camera!RefreshDestroyed)
  /\ WF_cameraVars(part = "camera" /\ Camera!Closed)
  /\ SF_cameraVars(part = "camera" /\ (Camera!RoundStalled \/ Camera!Resubscribe \/ Camera!Demand))

SourcesSpec ==
  /\ SourcesInit /\ [][SourcesNext]_<<part, vars, goalVars, cameraVars>>
  /\ Fairness /\ CameraFairness

\* The properties of the milestone, stated and explained in Milestone: what is armed
\* follows the session, and nobody is told twice (rule/record_source.py:132).
MilestoneInStep == Goal!TimersFollowSession /\ Goal!ToldOnce
ReachIsTold == Goal!ReachIsTold

\* The properties of the camera, stated and explained in CameraSession: whose number it
\* is in the table of the session (miot/ws.py:523), and the frames of perception
\* (camera_adapter.py:439).
NumbersAreOwn == Camera!NobodyIsRobbed /\ Camera!NumbersAreCallbacks
PerceptionIsFed == <>[](part = "camera" /\ Camera!Active => Camera!Fed)
==============================================================================
