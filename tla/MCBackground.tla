---------------------------- MODULE MCBackground ----------------------------
(***************************************************************************)
(* Two parts of the backend that work on their own, for one run: the rows  *)
(* of the schedule and the windows of perception, these once for one       *)
(* camera and the disturbances, and once for two cameras without.  They    *)
(* do not meet; the initial state says which of them moves.                *)
(***************************************************************************)
EXTENDS MCCronSchedule

CONSTANTS hall, yard

VARIABLES
  part,      \* "rows", "hall" or "cameras"
  win, count, known, moved, limit, limiter, left, shown, slipped, upsets

windowVars == <<win, count, known, moved, limit, limiter, left, shown, slipped, upsets>>

\* one camera with three windows and room for two requests, where things go wrong once;
\* two cameras with three windows between them and a limit that is lowered
Hall == INSTANCE WindowsProofs WITH
  Camera <- {hall}, Limits <- {2}, MaxWaiting <- 2, MaxWaitingPerCamera <- 1,
  MaxPayload <- 2, MaxWindows <- 3, MaxTotal <- 3, MaxUpsets <- 1

Cameras == INSTANCE WindowsProofs WITH
  Camera <- {hall, yard}, Limits <- {1, 2}, MaxWaiting <- 2, MaxWaitingPerCamera <- 1,
  MaxPayload <- 2, MaxWindows <- 2, MaxTotal <- 3, MaxUpsets <- 1

\* a part that does not move begins in one state
BackgroundInit ==
  /\ Init /\ part \in {"rows", "hall", "cameras"}
  /\ IF part = "cameras" THEN Cameras!Init ELSE Hall!Init
  /\ limit = 2

\* the bound of the two cameras: nothing but the limit changes, and no window is too old
OnlyLimit == (limit = 2 => upsets = 0) /\ \A w \in Cameras!Window : ~win[w].old

BackgroundNext ==
  /\ part' = part
  /\ \/ part = "rows" /\ Next /\ UNCHANGED windowVars
     \/ part = "hall" /\ Hall!Next /\ UNCHANGED vars
     \/ part = "cameras" /\ Cameras!Next /\ OnlyLimit' /\ UNCHANGED vars

\* the fairness of the rows, and of the windows of the one camera, while they move
BackgroundFairness ==
  /\ WF_vars(part = "rows" /\ Tick)
  /\ \A c \in Cron, j \in Job :
       /\ WF_vars(part = "rows" /\ Run(c, j))
       /\ WF_vars(/\ part = "rows"
                  /\ \/ TurnOver(c, j) \/ TurnLost(c, j)
                     \/ TurnFailed(c, j) \/ TurnUnknown(c, j))
  /\ WF_windowVars(part = "hall" /\ Hall!Goes)

BackgroundSpec ==
  /\ BackgroundInit /\ [][BackgroundNext]_<<part, vars, windowVars>>
  /\ BackgroundFairness

\* The trackers, the lines of the limiter, and the types of the windows, stated and
\* explained in Windows (engine/api.py:975, window_runtime.py:256).
WindowsAreOrderly ==
  /\ part # "cameras" => Hall!TypeOK /\ Hall!TrackerAlone /\ Hall!LinesAreServed
  /\ part = "cameras" => Cameras!TypeOK /\ Cameras!TrackerAlone /\ Cameras!LinesAreServed

\* No effect of a window comes after one of a later window, but for the exception that
\* Windows explains (window_runtime.py:3).
EffectsInOrder ==
  [][/\ part = "hall" => Hall!InOrder
     /\ part = "cameras" => Cameras!InOrder]_<<part, windowVars>>

\* Every window ends, whatever the model answers, if it does, and leaves nothing behind (window_runtime.py:329).
WindowsEnd == <>[](part = "hall" => Hall!AtRest)
=============================================================================
