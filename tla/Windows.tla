-------------------------------- MODULE Windows --------------------------------
(***************************************************************************)
(* Several windows of a camera at once: PerceptionRunner._tick_concurrent  *)
(* admits them, PerceptionEngineProxy and the engine prepare them one      *)
(* after the other and ask the model side by side, and                     *)
(* window_runtime.WindowJob puts their results in order again.             *)
(*                                                                         *)
(* A window is two activities: its task on the main loop (task), which     *)
(* also has the effects on the rules, and its coroutine on the loop of the *)
(* inference worker (work).  Cancelling the task ends it at once and only  *)
(* asks the coroutine to stop; a thread in which the coroutine analyses    *)
(* frames is not stopped at all.  Each camera has one lock, held while a   *)
(* window is prepared and again while its result is written, and           *)
(* RequestLimiter gives out permits for the model, camera by camera.       *)
(*                                                                         *)
(* What a model answers is not here: a result that rests on an answer may  *)
(* have something to do or not.  An age is one Boolean, over               *)
(* MAX_WINDOW_AGE_SECONDS or not, and windows get there in order; a clock  *)
(* that is set is left out.  Payloads have the size one.  Any camera may   *)
(* be next in the round of the tick.  Not here: a limit of one with no     *)
(* window under way, when the cycle takes all cameras together and holds   *)
(* no lock; the questions of the user, which wait until the windows that   *)
(* are under way have left; a change of model that is taken back; the mark *)
(* inflight of a track.                                                    *)
(***************************************************************************)
EXTENDS Naturals, FiniteSets, Sequences, SequencesExt

CONSTANTS
  Camera,
  Limits,                  \* values of model.omni.concurrency
  MaxWaiting,              \* MAX_WAITING
  MaxWaitingPerCamera,     \* MAX_WAITING_PER_CAMERA
  MaxPayload,              \* MAX_PAYLOAD_BYTES, in payloads
  MaxWindows,              \* bound: windows of one camera
  MaxTotal,                \* bound: windows of all cameras
  MaxUpsets                \* bound: reconnections, restarts, new models, new limits

Window == Camera \X (1 .. MaxWindows)

VARIABLES
  win,         \* the WindowJob of each window, its task and its coroutine
  count,       \* _window_sequence of a camera
  known,       \* cameras with a _last_window
  moved,       \* cameras whose source_generation is not that of their _last_window
  limit,       \* concurrency()
  limiter,     \* RequestLimiter: who waits in which line, whose turn it is, who has a permit
  left,        \* windows that are over, with frames of theirs still in a thread
  \* history
  shown,       \* the window of a camera that last had an effect
  slipped,     \* windows that were over before their turn, with their predecessor still to come
  upsets

round == <<count, known, moved>>
history == <<shown, slipped>>
vars == <<win, round, limit, limiter, left, history, upsets>>

(***************************************************************************)
(* One window                                                              *)
(***************************************************************************)

Unborn ==
  [task |-> "none", work |-> "none", answered |-> FALSE, linked |-> FALSE, valid |-> TRUE,
   old |-> FALSE, completed |-> FALSE, owns |-> FALSE, bytes |-> FALSE]

\* a window whose task and whose coroutine are over
Gone == [Unborn EXCEPT !.task = "over", !.work = "over", !.completed = TRUE]

Of(c) == {w \in Window : w[1] = c}
Live == {w \in Window : win[w].task \in {"perceive", "effects"}}
Before(w) == <<w[1], w[2] - 1>>
Free(c) == \A w \in Of(c) : ~win[w].owns
Actionable(w) == win[w].valid /\ ~win[w].old
Prepared(w) == win[w].completed \/ win[w].work \notin {"lock", "prepare"}

Place(w, place) == win[w].task = "perceive" /\ win[w].work = place
Holds(w) == win[w].work \in {"queue", "http"}

\* finish: the mark that others wait for; the bytes that were kept until then
Finished(r) ==
  [r EXCEPT !.completed = TRUE, !.linked = FALSE,
            !.bytes = @ /\ r.work \in {"queue", "http"}]

\* the task is cancelled, or over its time: the coroutine is asked to stop
Cancelled(r) ==
  IF r.work = "over" THEN Gone ELSE [Finished(r) EXCEPT !.task = "over", !.valid = FALSE]

\* the task is over: w may leave a predecessor behind that its successor does not know
End(w) ==
  /\ win' = [win EXCEPT ![w] = Gone]
  /\ slipped' = slipped \cup
       IF win[w].linked /\ ~win[Before(w)].completed THEN {w} ELSE {}

(***************************************************************************)
(* The limiter                                                             *)
(***************************************************************************)

Waiting(l) == UNION {ToSet(l.line[c]) : c \in Camera}

\* the camera that is first gives its first, and goes to the end
Grant(l) ==
  LET c == Head(l.turns) IN
  [line |-> [l.line EXCEPT ![c] = Tail(@)],
   turns |-> Tail(l.turns) \o IF Len(l.line[c]) > 1 THEN <<c>> ELSE <<>>,
   granted |-> l.granted \cup {Head(l.line[c])}]

\* n permits, one after the other
Grants(l, n) ==
  LET after[i \in 0 .. n] == IF i = 0 THEN l ELSE Grant(after[i - 1]) IN after[n]

Pump(l) ==
  LET room == {n \in 1 .. Cardinality(Waiting(l)) : Cardinality(l.granted) + n <= limit} IN
  Grants(l, Cardinality(room))

Join(l, w) ==
  [l EXCEPT !.line[w[1]] = Append(@, w),
            !.turns = IF l.line[w[1]] = <<>> THEN Append(@, w[1]) ELSE @]

Leave(l, w) ==
  IF w \in l.granted THEN [l EXCEPT !.granted = @ \ {w}]
  ELSE LET rest == RemoveFirst(l.line[w[1]], w) IN
       [l EXCEPT !.line[w[1]] = rest,
                 !.turns = IF rest = <<>> THEN RemoveFirst(@, w[1]) ELSE @]

Payload == Cardinality({w \in Window : win[w].bytes})

Rejected(w) ==
  \/ Payload >= MaxPayload
  \/ /\ Cardinality(limiter.granted) >= limit
     /\ \/ Cardinality(Waiting(limiter)) >= MaxWaiting
        \/ Len(limiter.line[w[1]]) >= MaxWaitingPerCamera

\* the end of slot(): the bytes of a permit are kept until the window is finished
Exit(w) == limiter' = Pump(Leave(limiter, w))
Kept(w) == w \in limiter.granted /\ ~win[w].completed

(***************************************************************************)
(* The main loop                                                           *)
(***************************************************************************)

\* _tick_concurrent: a window with another generation cancels the older ones
Admit(c) ==
  /\ limit > 1 \/ Live # {}
  /\ \A w \in Live : Prepared(w)
  /\ Cardinality(Live) < limit + MaxWaiting
  /\ Cardinality(Live \cap Of(c))
       < (limit + Cardinality(Camera) - 1) \div Cardinality(Camera) + MaxWaitingPerCamera
  /\ count[c] < MaxWindows
  /\ Cardinality({w \in Window : w[2] <= count[w[1]]}) < MaxTotal
  /\ LET new == <<c, count[c] + 1>>
         broken == c \in known /\ c \in moved IN
     win' = [w \in Window |->
       IF w = new
       THEN [Unborn EXCEPT !.task = "perceive", !.work = "lock",
                           !.linked = c \in known /\ ~broken /\ ~win[Before(w)].completed]
       ELSE IF broken /\ w \in Live \cap Of(c) THEN Cancelled(win[w])
       ELSE win[w]]
  /\ count' = [count EXCEPT ![c] = @ + 1]
  /\ known' = known \cup {c}
  /\ moved' = moved \ {c}
  /\ UNCHANGED <<limit, limiter, left, history, upsets>>

\* realtime_perceive: no engine, no frames, or an exception on the way to the worker
Fail(w) ==
  /\ Place(w, "lock")
  /\ End(w)
  /\ UNCHANGED <<round, limit, limiter, left, shown, upsets>>

\* the result is back, there is nothing to do or it is too late
Nothing(w) ==
  /\ Place(w, "over")
  /\ End(w)
  /\ UNCHANGED <<round, limit, limiter, left, shown, upsets>>

\* the result is back and the rules are told
Effects(w) ==
  /\ Place(w, "over") /\ win[w].answered /\ Actionable(w)
  /\ win' = [win EXCEPT ![w].task = "effects"]
  /\ UNCHANGED <<round, limit, limiter, left, history, upsets>>

\* one rule is told, if the window still counts
Effect(w) ==
  /\ win[w].task = "effects" /\ Actionable(w)
  /\ shown' = [shown EXCEPT ![w[1]] = w[2]]
  /\ UNCHANGED <<win, round, limit, limiter, left, slipped, upsets>>

EffectsEnd(w) ==
  /\ win[w].task = "effects"
  /\ End(w)
  /\ UNCHANGED <<round, limit, limiter, left, shown, upsets>>

\* asyncio.timeout(remaining)
Deadline(w) ==
  /\ w \in Live /\ win[w].old
  /\ win' = [win EXCEPT ![w] = Cancelled(@)]
  /\ UNCHANGED <<round, limit, limiter, left, history, upsets>>

(***************************************************************************)
(* The loop of the worker                                                  *)
(***************************************************************************)

\* the lock of the camera, the check of valid, and the frames go to a thread
Prepare(w) ==
  /\ Place(w, "lock") /\ Free(w[1]) /\ win[w].valid
  /\ win' = [win EXCEPT ![w].work = "prepare", ![w].owns = TRUE]
  /\ UNCHANGED <<round, limit, limiter, left, history, upsets>>

\* no input is left without the sound, or the window is not valid: no turn is taken
NothingToSee(w) ==
  /\ Place(w, "lock") /\ Free(w[1])
  /\ win' = [win EXCEPT ![w].work = "over"]
  /\ UNCHANGED <<round, limit, limiter, left, history, upsets>>

\* the gate is shut, the breaker open, the limiter full, the window too old: on to its turn
NoRequest(w) ==
  /\ Place(w, "prepare")
  /\ win' = [win EXCEPT ![w].work = "turn", ![w].owns = FALSE]
  /\ UNCHANGED <<round, limit, limiter, left, history, upsets>>

\* model_request: the frames and the lock are given up for a place in the line
Request(w) ==
  /\ Place(w, "prepare") /\ Actionable(w) /\ ~Rejected(w)
  /\ win' = [win EXCEPT ![w].work = "queue", ![w].owns = FALSE, ![w].bytes = TRUE]
  /\ limiter' = Pump(Join(limiter, w))
  /\ UNCHANGED <<round, limit, left, history, upsets>>

\* the permit is there, and the window may be too old for it
Start(w) ==
  /\ Place(w, "queue") /\ w \in limiter.granted
  /\ IF Actionable(w)
     THEN win' = [win EXCEPT ![w].work = "http"] /\ UNCHANGED limiter
     ELSE win' = [win EXCEPT ![w].work = "turn", ![w].bytes = Kept(w)] /\ Exit(w)
  /\ UNCHANGED <<round, limit, left, history, upsets>>

\* an answer, or none; a request that failed or was cancelled (Stop) also takes the
\* mark inflight off its tracks, on the worker's loop and without the lock: not here
Answer(w) ==
  /\ Place(w, "http")
  /\ win' = [win EXCEPT ![w].work = "turn", ![w].answered = TRUE, ![w].bytes = Kept(w)]
  /\ Exit(w)
  /\ UNCHANGED <<round, limit, left, history, upsets>>

\* MUTANT of Turn: nobody waits for the predecessor
TurnAtOnce(w) ==
  /\ Place(w, "turn")
  /\ win' = [win EXCEPT ![w].work = "again"]
  /\ UNCHANGED <<round, limit, limiter, left, history, upsets>>

\* begin_commit: the predecessor is completed, or gets no more time and is
Turn(w) ==
  /\ Place(w, "turn")
  /\ win[w].linked => win[Before(w)].completed \/ win[Before(w)].old
  /\ win' = [v \in Window |->
       IF v = w THEN [win[v] EXCEPT !.work = "again"]
       ELSE IF win[w].linked /\ v = Before(w) /\ ~win[v].completed
            THEN [Finished(win[v]) EXCEPT !.valid = FALSE]
       ELSE win[v]]
  /\ UNCHANGED <<round, limit, limiter, left, history, upsets>>

\* MUTANT of Commit: the turn is enough, the lock is not taken again
CommitUnlocked(w) ==
  /\ Place(w, "again")
  /\ win' = [win EXCEPT ![w].work = "commit"]
  /\ UNCHANGED <<round, limit, limiter, left, history, upsets>>

\* the lock once more, to write the result
Commit(w) ==
  /\ Place(w, "again") /\ Free(w[1])
  /\ win' = [win EXCEPT ![w].work = "commit", ![w].owns = TRUE]
  /\ UNCHANGED <<round, limit, limiter, left, history, upsets>>

\* what was answered about identities is told, the result is merged, or put aside as
\* history
Merge(w) ==
  /\ Place(w, "commit")
  /\ win' = [win EXCEPT ![w].work = "over", ![w].owns = FALSE]
  /\ UNCHANGED <<round, limit, limiter, left, history, upsets>>

\* MUTANT of Stop: a coroutine that is cancelled in slot() keeps its place
StopHolding(w) ==
  /\ win[w].task = "over" /\ win[w].work # "over"
  /\ win' = [win EXCEPT ![w] = Gone]
  /\ left' = left \cup IF win[w].work = "prepare" THEN {w} ELSE {}
  /\ UNCHANGED <<round, limit, limiter, history, upsets>>

\* CancelledError, wherever the coroutine waits; a thread goes on
Stop(w) ==
  /\ win[w].task = "over" /\ win[w].work # "over"
  /\ win' = [win EXCEPT ![w] = Gone]
  /\ left' = left \cup IF win[w].work = "prepare" THEN {w} ELSE {}
  /\ IF Holds(w) THEN Exit(w) ELSE UNCHANGED limiter
  /\ UNCHANGED <<round, limit, history, upsets>>

\* the thread of a window that is over comes to its end
Analysed(w) ==
  /\ w \in left /\ left' = left \ {w}
  /\ UNCHANGED <<win, round, limit, limiter, history, upsets>>

(***************************************************************************)
(* The world                                                               *)
(***************************************************************************)

\* MAX_WINDOW_AGE_SECONDS after its end
Age(w) ==
  /\ w \in Live /\ ~win[w].old
  /\ \A v \in Live \cap Of(w[1]) : v[2] < w[2] => win[v].old
  /\ win' = [win EXCEPT ![w].old = TRUE]
  /\ UNCHANGED <<round, limit, limiter, left, history, upsets>>

Upset == upsets < MaxUpsets /\ upsets' = upsets + 1

Reconnect(c) ==
  /\ Upset /\ c \in known \ moved
  /\ moved' = moved \cup {c}
  /\ UNCHANGED <<win, count, known, limit, limiter, left, history>>

\* stop and start: every window is cancelled, the locks are new
Restart ==
  /\ Upset /\ Live # {}
  /\ win' = [w \in Window |->
       [(IF w \in Live THEN Cancelled(win[w]) ELSE win[w]) EXCEPT !.owns = FALSE]]
  /\ known' = {}
  /\ UNCHANGED <<count, moved, limit, limiter, left, history>>

\* another model: what was encoded for the old one no longer counts
SwitchModel ==
  /\ Upset
  /\ win' = [w \in Window |->
       [win[w] EXCEPT !.valid = @ /\ ~(w \in Live /\ win[w].work \notin {"lock", "prepare"})]]
  /\ win' # win
  /\ UNCHANGED <<round, limit, limiter, left, history>>

SetLimit ==
  /\ Upset /\ limit' \in Limits \ {limit}
  /\ UNCHANGED <<win, round, limiter, left, history>>

\* no camera has a window to give
Silence == Live = {} /\ UNCHANGED vars

Init ==
  /\ win = [w \in Window |-> Unborn]
  /\ count = [c \in Camera |-> 0] /\ known = {} /\ moved = {}
  /\ limit \in Limits
  /\ limiter = [line |-> [c \in Camera |-> <<>>], turns |-> <<>>, granted |-> {}]
  /\ left = {}
  /\ shown = [c \in Camera |-> 0] /\ slipped = {} /\ upsets = 0

Main(w) == Fail(w) \/ Nothing(w) \/ Effects(w) \/ EffectsEnd(w) \/ Deadline(w)
Worker(w) ==
  \/ Prepare(w) \/ NothingToSee(w) \/ NoRequest(w) \/ Request(w) \/ Start(w)
  \/ Turn(w) \/ Commit(w) \/ Merge(w) \/ Stop(w) \/ Analysed(w)

Next ==
  \/ \E c \in Camera : Admit(c) \/ Reconnect(c)
  \/ \E w \in Window : Main(w) \/ Worker(w) \/ Effect(w) \/ Answer(w) \/ Age(w)
  \/ Restart \/ SwitchModel \/ SetLimit \/ Silence

Spec == Init /\ [][Next]_vars

\* loops and threads go on and time passes; nobody promises an answer
Goes == \E w \in Window : Main(w) \/ Worker(w) \/ Age(w)
Fairness == WF_vars(Goes)
FairSpec == Spec /\ Fairness
-----------------------------------------------------------------------------
(***************************************************************************)
(* Properties.                                                             *)
(***************************************************************************)

TypeOK ==
  /\ win \in [Window -> [
       task : {"none", "perceive", "effects", "over"},
       work : {"none", "lock", "prepare", "queue", "http", "turn", "again", "commit", "over"},
       answered : BOOLEAN, linked : BOOLEAN, valid : BOOLEAN, old : BOOLEAN,
       completed : BOOLEAN, owns : BOOLEAN, bytes : BOOLEAN]]
  /\ count \in [Camera -> 0 .. MaxWindows] /\ known \subseteq Camera /\ moved \subseteq Camera
  /\ limit \in Limits /\ left \subseteq Window
  /\ limiter.turns \in Seq(Camera) /\ limiter.granted \subseteq Window
  /\ shown \in [Camera -> 0 .. MaxWindows] /\ slipped \subseteq Window

\* One window of a camera uses its tracker and its memory of the last results at a time,
\* however often the lock changes hands (engine/api.py:975); a cancelled window, and the
\* frames it left in a thread, do not count.
TrackerAlone ==
  \A c \in Camera : Cardinality({w \in Of(c) : Place(w, "prepare") \/ Place(w, "commit")}) <= 1

\* A request that waits has a permit in use whose end will serve it, and its camera has a
\* turn; who left the line, however it ended, has neither place nor permit
\* (window_runtime.py:256).
LinesAreServed ==
  /\ \A c \in Camera : limiter.line[c] # <<>> <=> c \in ToSet(limiter.turns)
  /\ Len(limiter.turns) = Cardinality(ToSet(limiter.turns))
  /\ limiter.turns # <<>> => limiter.granted # {}
  /\ \A w \in Window : w \in limiter.granted \cup Waiting(limiter) <=> Holds(w)

\* Once a window of a camera had an effect no earlier one has (window_runtime.py:3), but
\* where a window between the two was over before its turn: the next one takes it for a
\* predecessor that is completed.
InOrder ==
  \A c \in Camera : shown'[c] < shown[c] =>
    \E w \in slipped : w[1] = c /\ w[2] \in shown'[c] + 1 .. shown[c] - 1

\* Every window is over, and left no lock, permit, byte or thread behind
\* (window_runtime.py:329); this must come whatever the model answers, if it does.
AtRest ==
  /\ limiter.granted = {} /\ limiter.turns = <<>> /\ left = {}
  /\ \A w \in Window : win[w] \in {Unborn, Gone}
================================================================================
