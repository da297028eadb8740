----------------------------- MODULE CameraSession -----------------------------
(***************************************************************************)
(* The native session of one camera with one channel, and who listens to   *)
(* it: refresh_cameras and reconnect_camera in miot/client.py make and     *)
(* destroy it, the camera adapter (perception/collect/camera_adapter.py    *)
(* and base.py, with miot_camera_source.py) listens for perception, and    *)
(* MIoTVideoStreamManager in miot/ws.py for watchers and recorders.        *)
(*                                                                         *)
(* Listening is a number in the session's table of callbacks               *)
(* (miot/camera.py of the SDK).  The numbers begin at 1 in every session,  *)
(* and whoever gives a number back is not asked whether it is his.  A      *)
(* session may be replaced while a listener holds a number of the old one, *)
(* and nobody tells him, except that a rebuild of the adapter's registers  *)
(* the watchers again.                                                     *)
(*                                                                         *)
(* Registering and unregistering do not suspend.  What does is a native    *)
(* destruction, which keeps the session in the table of managers under     *)
(* _refresh_cameras_lock, and closing a watcher's socket, under the lock   *)
(* of the channel.  What the cloud, the scope and the lens say is one      *)
(* value, which changes at any time; frames and their ages are not kept.   *)
(* Not here: sound, whose numbers only move the counter on, the JPEG       *)
(* callback of the session's own handler, the cap, a second lens, and a    *)
(* start_async that raises.                                                *)
(***************************************************************************)
EXTENDS Integers

CONSTANTS
  Watcher, Recorder,           \* connections of the channel: sockets and recordings
  MaxMoves,                    \* bound: changes of the world
  MaxFaults,                   \* bound: sessions that cannot be made or destroyed
  MaxIds                       \* bound: numbers of a session given to watchers

Viewer == Watcher \cup Recorder
Worlds == {"up", "unseen", "asleep", "offline"}

VARIABLES
  world,       \* "up"; "unseen" on the LAN and not connected; "asleep" or out of scope; "offline"
  session,     \* "none", "live", "mute" (connected without frames), "dying", "dead"
  calls, next, \* decode_video_frame's callbacks, number to listener; _next_reg_id
  killer,      \* who destroys: "refresh", "rebuild" or "none"; holds _refresh_cameras_lock
  eye,         \* the adapter's video_registration_id, 0 when it is not connected
  sync,        \* where the adapter's round is
  viewers,     \* _camera_connect_map and _camera_recorders
  reg,         \* _camera_reg_id, 0 when there is no entry
  closing,     \* whose _close_ws holds the lock of the channel
  \* history
  severed,     \* listeners that lost their callback and were not told
  robbers,     \* who took another's callback without that excuse
  spare,       \* callbacks that a second registration left behind
  moves, faults

table == <<session, calls, next, killer>>
adapter == <<eye, sync>>
channel == <<viewers, reg, closing>>
history == <<severed, robbers, spare>>
vars == <<world, table, adapter, channel, history, moves, faults>>

(***************************************************************************)
(* The table of callbacks                                                  *)
(***************************************************************************)

Without(id) == [i \in DOMAIN calls \ {id} |-> calls[i]]
With(id, who) == [i \in DOMAIN calls \cup {id} |-> IF i = id THEN who ELSE calls[i]]
Of(who) == {i \in DOMAIN calls : calls[i] = who}

\* start_camera_decode_video_stream; the number is next, sound takes one more
Register(who, ids) ==
  /\ calls' = With(next, who)
  /\ next' = next + ids
  /\ severed' = severed \ {who}

\* stop_camera_decode_video_stream: nothing without a manager, else the number goes,
\* whoever's it is; afterwards the one who gave it back holds none
Unregister(who, id) ==
  LET victims == IF session # "none" /\ id \in DOMAIN calls THEN {calls[id]} \ {who} ELSE {}
  IN /\ calls' = IF session # "none" THEN Without(id) ELSE calls
     /\ severed' = (severed \cup victims) \ {who}
     /\ robbers' = IF victims # {} /\ who \notin severed THEN robbers \cup {who} ELSE robbers
     /\ spare' = spare \ {id}

\* _create_camera_img_manager, after the old instance was freed with its table; the
\* numbers begin again.  It may fail and leave none
Created ==
  /\ calls' = << >> /\ spare' = {}
  /\ \/ session' = "live" /\ next' = 1 /\ UNCHANGED faults
     \/ session' = "none" /\ faults < MaxFaults /\ faults' = faults + 1 /\ UNCHANGED next

(***************************************************************************)
(* refresh_cameras, from the lock on                                       *)
(***************************************************************************)

Active == world = "up"

\* an active camera without a manager gets one, one with a manager keeps it
RefreshCreate ==
  /\ killer = "none" /\ Active /\ session = "none"
  /\ Created
  /\ UNCHANGED <<world, killer, adapter, channel, severed, robbers, moves>>

\* the manager stays in the table until the native part has stopped
RefreshDestroy ==
  /\ killer = "none" /\ ~Active /\ session \in {"live", "mute", "dead"}
  /\ session' = "dying" /\ killer' = "refresh"
  /\ UNCHANGED <<world, calls, next, adapter, channel, history, moves, faults>>

\* who listened is not told; a failure leaves a dead manager for the next refresh
RefreshDestroyed ==
  /\ killer = "refresh" /\ killer' = "none"
  /\ \/ /\ session' = "none" /\ calls' = << >> /\ spare' = {}
        /\ severed' = severed \cup (IF eye # 0 THEN {"eye"} ELSE {})
                              \cup (IF reg > 0 THEN {"live"} ELSE {})
        /\ UNCHANGED faults
     \/ /\ faults < MaxFaults /\ faults' = faults + 1
        /\ session' = "dead"
        /\ UNCHANGED <<calls, severed, spare>>
  /\ UNCHANGED <<world, next, adapter, channel, robbers, moves>>

(***************************************************************************)
(* The adapter's round: the silence check with its rebuild, the refresh on *)
(* demand, then connect or disconnect                                      *)
(***************************************************************************)

Fed == session = "live" /\ eye \in DOMAIN calls /\ calls[eye] = "eye"

\* _check_stalled_cameras finds nothing: frames came, or the thresholds or the cooldown
\* have not passed; a hot-plug round does not look
Round ==
  /\ sync = "idle" /\ sync' = "demand"
  /\ UNCHANGED <<world, table, eye, channel, history, moves, faults>>

\* MUTANT of Overdue: only a camera that gave a frame can fall silent
OverdueAfterFrame == eye # 0 /\ ~(Active /\ Fed) /\ world # "offline" /\ session # "dead"

\* no frame since the last one or since it was connected, and online
Overdue == eye # 0 /\ ~(Active /\ Fed) /\ world # "offline"

\* _reconnect_stalled begins with disconnect_device
RoundStalled ==
  /\ sync = "idle" /\ Overdue
  /\ Unregister("eye", eye)
  /\ eye' = 0 /\ sync' = "rebuild"
  /\ UNCHANGED <<world, session, next, killer, channel, moves, faults>>

\* reconnect_camera has the lock and destroys the old session
Rebuild ==
  /\ sync = "rebuild" /\ killer = "none" /\ session # "none"
  /\ session' = "dying" /\ killer' = "rebuild"
  /\ UNCHANGED <<world, calls, next, adapter, channel, history, moves, faults>>

\* destroyed or not, the manager goes, and a new one comes whatever the scope says; then
\* resubscribe_camera, if the channel has an entry now
RebuildCreate ==
  /\ sync = "rebuild"
  /\ killer = "rebuild" \/ (killer = "none" /\ session = "none")
  /\ Created /\ killer' = "none"
  /\ sync' = IF reg # 0 THEN "resubscribe" ELSE "demand"
  /\ UNCHANGED <<world, eye, channel, severed, robbers, moves>>

\* MUTANT of Refused: the old number is kept
RefusedKept == UNCHANGED <<reg, calls, next, severed, spare>>

\* the new session gives no number, and the old one is nobody's any more
Refused == reg' = -1 /\ UNCHANGED <<calls, next, severed, spare>>

\* resubscribe_camera, once it has the lock of the channel: the entry may have gone
Resubscribe ==
  /\ sync = "resubscribe" /\ closing = {}
  /\ sync' = "demand"
  /\ \/ /\ reg = 0 \/ viewers = {}
        /\ UNCHANGED <<calls, next, reg, severed, spare>>
     \/ /\ reg # 0 /\ viewers # {} /\ session # "none"
        /\ Register("live", 1) /\ reg' = next /\ spare' = spare \cup Of("live")
     \/ reg # 0 /\ viewers # {} /\ session = "none" /\ Refused
  /\ UNCHANGED <<world, session, killer, eye, viewers, closing, robbers, moves, faults>>

\* refresh_if_needed makes what refresh_cameras would make
Demand ==
  /\ sync = "demand" /\ killer = "none" /\ Active /\ eye = 0
  /\ IF session = "none" THEN Created ELSE UNCHANGED <<session, calls, next, spare, faults>>
  /\ sync' = "connect"
  /\ UNCHANGED <<world, killer, eye, channel, severed, robbers, moves>>

\* all that is expected is connected, or the last refresh is too recent
NoDemand ==
  /\ sync = "demand" /\ sync' = "connect"
  /\ UNCHANGED <<world, table, eye, channel, history, moves, faults>>

\* sync_devices: a camera that is only unseen on the LAN is retained
Connect ==
  /\ sync = "connect" /\ sync' = "idle"
  /\ \/ /\ Active /\ eye = 0 /\ session # "none"
        /\ Register("eye", 2) /\ eye' = next
        /\ UNCHANGED <<robbers, spare>>
     \/ /\ world \in {"asleep", "offline"} /\ eye # 0
        /\ Unregister("eye", eye) /\ eye' = 0
        /\ UNCHANGED next
     \/ /\ (eye = 0 /\ (~Active \/ session = "none")) \/ (eye # 0 /\ world \in {"up", "unseen"})
        /\ UNCHANGED <<calls, next, eye, history>>
  /\ UNCHANGED <<world, session, killer, channel, moves, faults>>

(***************************************************************************)
(* Watchers and recordings                                                 *)
(***************************************************************************)

\* new_connection and register_recorder: the first registers, and is turned away when
\* there is no manager
Open(v) ==
  /\ closing = {} /\ v \notin viewers
  /\ \/ /\ viewers = {} /\ session # "none" /\ next <= MaxIds
        /\ Register("live", 1) /\ reg' = next
     \/ viewers # {} /\ UNCHANGED <<calls, next, reg, severed>>
  /\ viewers' = viewers \cup {v}
  /\ UNCHANGED <<world, session, killer, adapter, closing, robbers, spare, moves, faults>>

\* _teardown_if_idle
Teardown(left) ==
  /\ viewers' = left
  /\ \/ /\ left = {} /\ reg > 0
        /\ Unregister("live", reg) /\ reg' = 0
     \/ /\ left = {} /\ reg <= 0
        /\ reg' = 0 /\ UNCHANGED <<calls, history>>
     \/ left # {} /\ UNCHANGED <<calls, reg, history>>

\* close_connection keeps the lock while the socket closes
Close(v) ==
  /\ closing = {} /\ v \in viewers /\ closing' = {v}
  /\ UNCHANGED <<world, table, adapter, viewers, reg, history, moves, faults>>

Closed ==
  /\ closing # {} /\ closing' = {}
  /\ Teardown(viewers \ closing)
  /\ UNCHANGED <<world, session, next, killer, adapter, moves, faults>>

\* unregister_recorder does not wait for anything
EndRecording(v) ==
  /\ closing = {} /\ v \in viewers
  /\ Teardown(viewers \ {v})
  /\ UNCHANGED <<world, session, next, killer, adapter, closing, moves, faults>>

(***************************************************************************)
(* The world                                                               *)
(***************************************************************************)

Change ==
  /\ moves < MaxMoves /\ moves' = moves + 1
  /\ world' \in Worlds \ {world}
  /\ UNCHANGED <<table, adapter, channel, history, faults>>

\* connected, and not a frame more: only a new session helps
FallSilent ==
  /\ moves < MaxMoves /\ moves' = moves + 1
  /\ session = "live" /\ session' = "mute"
  /\ UNCHANGED <<world, calls, next, killer, adapter, channel, history, faults>>

Init ==
  /\ world \in Worlds /\ session = "none" /\ calls = << >> /\ next = 1 /\ killer = "none"
  /\ eye = 0 /\ sync = "idle"
  /\ viewers = {} /\ reg = 0 /\ closing = {}
  /\ severed = {} /\ robbers = {} /\ spare = {} /\ moves = 0 /\ faults = 0

Refresh == RefreshCreate \/ RefreshDestroy \/ RefreshDestroyed
Sync ==
  \/ Round \/ RoundStalled \/ Rebuild \/ RebuildCreate \/ Resubscribe
  \/ Demand \/ NoDemand \/ Connect
View ==
  \/ \E v \in Viewer : Open(v)
  \/ \E v \in Watcher : Close(v)
  \/ Closed
  \/ \E v \in Recorder : EndRecording(v)

Next == Refresh \/ Sync \/ View \/ Change \/ FallSilent

(***************************************************************************)
(* The adapter's loop runs for ever (Runner), what holds a lock gives it   *)
(* back after at most five seconds, and an asyncio.Lock is handed over in  *)
(* the order of asking, so that the rebuild gets the one of the channel    *)
(* however many watchers come and go.  The thresholds of silence, the      *)
(* cooldown of a rebuild and the interval of refreshes on demand are       *)
(* finite, so a round that finds them passed comes again and again.        *)
(* Hence strong fairness: one of three steps comes if one of them is       *)
(* possible again and again, which is less than the code gives.            *)
(***************************************************************************)
Fairness ==
  /\ WF_vars(Sync) /\ WF_vars(RefreshDestroyed) /\ WF_vars(Closed)
  /\ SF_vars(RoundStalled \/ Resubscribe \/ Demand)

Spec == Init /\ [][Next]_vars
FairSpec == Spec /\ Fairness

TypeOK ==
  /\ world \in Worlds /\ session \in {"none", "live", "mute", "dying", "dead"}
  /\ next \in Nat \ {0}
  /\ DOMAIN calls \subseteq 1 .. next - 1
  /\ \A i \in DOMAIN calls : calls[i] \in {"eye", "live"}
  /\ killer \in {"none", "refresh", "rebuild"}
  /\ eye \in Nat /\ sync \in {"idle", "rebuild", "resubscribe", "demand", "connect"}
  /\ viewers \subseteq Viewer /\ reg \in Nat \cup {-1} /\ closing \subseteq viewers
  /\ severed \subseteq {"eye", "live"} /\ robbers \subseteq {"eye", "live"}
  /\ spare \subseteq DOMAIN calls
  /\ moves \in 0 .. MaxMoves /\ faults \in 0 .. MaxFaults

(***************************************************************************)
(* Properties                                                              *)
(***************************************************************************)

\* A listener gives back only what is its own, unless a refresh replaced the session
\* beneath it: a rebuild leaves no number of the old session with anybody, also when it
\* fails, is overtaken by the last watcher's leaving, or waits for his socket
\* (miot/ws.py:523-539; what a refresh does is in the README).
NobodyIsRobbed == robbers = {}

\* While no rebuild is under way and no socket closes, the channel's entry and the
\* adapter's number are callbacks of the session, theirs, and without watchers the session
\* has no callback of the channel, but for one that a rebuild registered twice
\* (miot/ws.py:571, miot/ws.py:602, miot_camera_source.py:122).
NumbersAreCallbacks ==
  closing = {} /\ sync \notin {"rebuild", "resubscribe"} =>
    /\ eye # 0 /\ "eye" \notin severed => eye \in Of("eye")
    /\ reg > 0 /\ "live" \notin severed => reg \in Of("live")
    /\ Of("live") \ spare \subseteq {reg}
    /\ viewers = {} <=> reg = 0

\* Once the world stands still, a camera that is in scope, online and awake gives
\* perception its frames, whatever refreshes, rebuilds, failures and watchers did before
\* (camera_adapter.py:428, camera_adapter.py:494).
PerceptionIsFed == <>[](Active => Fed)
==============================================================================
