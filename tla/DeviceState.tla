----------------------------- MODULE DeviceState -----------------------------
(***************************************************************************)
(* How the device leaves of the state store follow the cloud: the pushes   *)
(* of miot/state_push.py, the alignment of miot/state_align.py with its    *)
(* driver in manager.py, refresh_devices of miot/client.py, the top-up of  *)
(* a device that comes up, the pull after a reconnection, and the switch   *)
(* of the home in miot/service.py.                                         *)
(*                                                                         *)
(* All of it runs on one loop; what interleaves are the calls to the cloud *)
(* of the refresh, the alignment, the top-up and the pull, the pushes that *)
(* arrive meanwhile, and a switch of the home that begins a new scope.     *)
(*                                                                         *)
(* A device has one property; the cloud keeps what it last reported.  The  *)
(* homes belong to one account.  excuse is a history variable: for each    *)
(* device, the events after which the code no longer follows the cloud.    *)
(***************************************************************************)
EXTENDS Integers, Sequences

CONSTANTS
  Did, Home, Value,
  None,             \* no leaf, nothing read: not in Value
  MaxTopUps,        \* TOP_UP_MAX_ATTEMPTS
  MaxRounds,        \* ALIGN_MAX_ATTEMPTS
  MaxScope, MaxPushes, MaxMoves   \* bounds: switches, pushes on their way, moves of the cloud

Cause == {"overtaken", "ghost", "movedIn", "unread", "unheard", "dropped", "masked"}
Caller == {"connect", "meta", "switch", "user"}

VARIABLES
  where, up, report,       \* the cloud: home, online, last reported value
  linked, pushes,          \* the MQTT connection, what it still has to deliver
  home, alive,             \* _device_info_dict: home_id and online
  online, prop,            \* iot/device/<did>/status/online and /prop/<iid>
  enabled,                 \* the enabled home (KV)
  scope, alignedScope,     \* _scope, _aligned_scope
  resets, rebuilding,      \* scheduled _reset_state_scope calls; one inside rebuild()
  waiting, refresh,        \* refresh_devices: who waits for the lock, who has it
  failed,                  \* history: the last refresh failed
  align,                   \* the alignment task
  timers, topUp,           \* PropTopUpListener; the top-up of a device under way
  used, wanted,            \* _top_up_attempts, _top_up_pending
  pull, again, fresh,      \* the pull, its rerun flag, leaves reported since it asked
  excuse,
  moves                    \* moves the cloud may still make

cloud == <<where, up, report>>
link == <<linked, pushes>>
cache == <<home, alive>>
tree == <<online, prop>>
scopes == <<enabled, scope, alignedScope, resets, rebuilding>>
refreshing == <<waiting, refresh, failed>>
topping == <<timers, topUp, used, wanted>>
pulling == <<pull, again, fresh>>
vars == <<cloud, link, cache, tree, scopes, refreshing, align, topping, pulling, excuse, moves>>

Aligned == alignedScope = scope
Here(d) == home[d] = enabled          \* devices_in_current_home()

NoRefresh == [who |-> "nobody"]
NoAlign == [at |-> "off"]
NoTopUp == [at |-> "off", by |-> "nobody"]
NoPull == [at |-> "off"]

Blame(D, why) == D \X {why}

\* a property leaf gets value v: it may be up to date again
Reported(d, v) ==
  /\ prop' = [prop EXCEPT ![d] = v]
  /\ fresh' = fresh \cup {d}

Cleared(d, v) == excuse \ (Blame({d}, "movedIn") \cup Blame({d}, "unheard")
                           \cup IF v = report[d] THEN {d} \X {"dropped", "unread", "masked"} ELSE {})

PullRuns(d) == pull.at \in {"asked", "got"} /\ pull.did = d

\* an older value is written while the pull waits for its answer
Masking(d) == IF PullRuns(d) THEN Blame({d}, "masked") ELSE {}

\* a leaf is deleted while an answer that may be older is awaited
Bereft(D) == Blame({d \in D : topUp[d].at # "off" \/ PullRuns(d)}, "masked")

(***************************************************************************)
(* The cloud and the connection                                            *)
(***************************************************************************)

\* a push goes out, if there is a connection to go out on
Push(m) == pushes' = IF linked THEN Append(pushes, m) ELSE pushes

Moves == moves > 0 /\ moves' = moves - 1 /\ Len(pushes) < MaxPushes

Report(d, v) ==
  /\ Moves /\ up[d] /\ report[d] # v
  /\ report' = [report EXCEPT ![d] = v]
  /\ Push(<<"prop", d, v>>)
  /\ UNCHANGED <<where, up, linked, cache, tree, scopes, refreshing, align, topping, pulling, excuse>>

Flip(d) ==
  /\ Moves
  /\ up' = [up EXCEPT ![d] = ~up[d]]
  /\ Push(<<"state", d, ~up[d]>>)
  /\ UNCHANGED <<where, report, linked, cache, tree, scopes, refreshing, align, topping, pulling, excuse>>

MoveHome(d, h) ==
  /\ Moves /\ where[d] # h
  /\ where' = [where EXCEPT ![d] = h]
  /\ Push(<<"meta", d, h>>)
  /\ UNCHANGED <<up, report, linked, cache, tree, scopes, refreshing, align, topping, pulling, excuse>>

\* what was on its way is lost
Disconnect ==
  /\ linked /\ moves > 0 /\ moves' = moves - 1
  /\ linked' = FALSE /\ pushes' = <<>>
  /\ UNCHANGED <<cloud, cache, tree, scopes, refreshing, align, topping, pulling, excuse>>

\* _on_mips_connected
Reconnect ==
  /\ ~linked
  /\ linked' = TRUE
  /\ waiting' = waiting \cup {"connect"}
  /\ UNCHANGED <<cloud, pushes, cache, tree, scopes, refresh, failed, align, topping, pulling, excuse, moves>>

(***************************************************************************)
(* Pushes                                                                  *)
(***************************************************************************)

Arrives(kind) == linked /\ pushes # <<>> /\ Head(pushes)[1] = kind /\ pushes' = Tail(pushes)

\* _on_device_state_changed_event, then IotPushWriter.on_device_state and the top-up timer
OnDeviceState ==
  /\ Arrives("state")
  /\ LET d == Head(pushes)[2]
         v == Head(pushes)[3]
     IN /\ alive' = [alive EXCEPT ![d] = v]
        /\ online' = IF Here(d) THEN [online EXCEPT ![d] = v] ELSE online
        /\ timers' = IF v THEN timers \cup {d} ELSE timers
        /\ refresh' = IF refresh.who # "nobody" /\ refresh.at = "answered"
                      THEN [refresh EXCEPT !.behind = @ \cup {d}] ELSE refresh
        /\ excuse' = excuse \ Blame({d}, "overtaken")
  /\ UNCHANGED <<cloud, linked, home, prop, scopes, waiting, failed, align,
                 topUp, used, wanted, pulling, moves>>

\* IotPushWriter.on_device_props
OnDeviceProps ==
  /\ Arrives("prop")
  /\ LET d == Head(pushes)[2]
         v == Head(pushes)[3]
     IN IF Aligned /\ Here(d)
        THEN Reported(d, v) /\ excuse' = Cleared(d, v)
        ELSE excuse' = excuse \cup Blame({d}, "dropped") /\ UNCHANGED <<prop, fresh>>
  /\ UNCHANGED <<cloud, linked, cache, online, scopes, refreshing, align, topping,
                 pull, again, moves>>

\* a bind or meta listener: the list of devices is refreshed when its debounce ends
OnDeviceMeta ==
  /\ Arrives("meta")
  /\ waiting' = waiting \cup {"meta"}
  /\ UNCHANGED <<cloud, linked, cache, tree, scopes, refresh, failed, align, topping,
                 pulling, excuse, moves>>

(***************************************************************************)
(* refresh_devices: one at a time, under a lock                            *)
(***************************************************************************)

UserRefresh ==
  /\ moves > 0 /\ moves' = moves - 1
  /\ waiting' = waiting \cup {"user"}
  /\ UNCHANGED <<cloud, link, cache, tree, scopes, refresh, failed, align, topping, pulling, excuse>>

RefreshAsk ==
  /\ refresh = NoRefresh
  /\ \E w \in waiting :
       /\ waiting' = waiting \ {w}
       /\ refresh' = [who |-> w, at |-> "asked", scope |-> scope]
  /\ UNCHANGED <<cloud, link, cache, tree, scopes, failed, align, topping, pulling, excuse, moves>>

\* the cloud makes its answer
RefreshAnswer ==
  /\ refresh # NoRefresh /\ refresh.at = "asked"
  /\ refresh' = [who |-> refresh.who, at |-> "answered", scope |-> refresh.scope,
                 where |-> where, up |-> up, behind |-> {}]
  /\ UNCHANGED <<cloud, link, cache, tree, scopes, waiting, failed, align, topping, pulling, excuse, moves>>

\* the connect listeners run after their refresh, on_mips_connect of the iot source among them
Listeners ==
  IF refresh.who # "connect" THEN UNCHANGED <<pull, again>>
  ELSE IF pull = NoPull THEN pull' = [at |-> "delay"] /\ again' = FALSE
  ELSE again' = TRUE /\ UNCHANGED pull

\* _reconcile_iot_deletions: the devices that are not in the enabled home any more
Reconcile(h) == prop' = [d \in Did |-> IF h[d] = enabled THEN prop[d] ELSE None]

\* _sync_iot_online_flags, after the deletions
SyncOnline(h, a) == online' = [d \in Did |-> IF h[d] = enabled THEN a[d] ELSE None]

RefreshApply ==
  /\ refresh # NoRefresh /\ refresh.at = "answered"
  /\ refresh' = NoRefresh /\ failed' = FALSE
  /\ home' = refresh.where /\ alive' = refresh.up
  /\ IF refresh.scope = scope
     THEN Reconcile(home') /\ SyncOnline(home', alive')
     ELSE UNCHANGED tree
  /\ excuse' = (excuse \ (Blame(Did, "overtaken") \cup Blame(Did, "ghost")))
               \cup Blame(refresh.behind, "overtaken")
               \cup Blame({d \in Did : ~alive[d] /\ alive'[d]}, "unheard")
               \cup Blame({d \in Did : ~Here(d) /\ home'[d] = enabled}, "movedIn")
               \cup Bereft({d \in Did : home'[d] # enabled})
  /\ Listeners
  /\ UNCHANGED <<cloud, link, scopes, waiting, align, topping, fresh, moves>>

\* the cloud cannot be reached, or its list shrank and is set aside for one round
RefreshFail ==
  /\ refresh # NoRefresh /\ refresh.at = "asked"
  /\ refresh' = NoRefresh /\ failed' = TRUE
  /\ Listeners
  /\ UNCHANGED <<cloud, link, cache, tree, scopes, waiting, align, topping, fresh, excuse, moves>>

(***************************************************************************)
(* A switch of the home                                                    *)
(***************************************************************************)

\* switch_home: the KV row now, the rest in the background
SwitchHome(h) ==
  /\ moves > 0 /\ moves' = moves - 1
  /\ h # enabled /\ scope + resets < MaxScope
  /\ enabled' = h /\ resets' = resets + 1
  /\ UNCHANGED <<cloud, link, cache, tree, scope, alignedScope, rebuilding, refreshing, align,
                 topping, pulling, excuse>>

\* _cancel_running_alignment: with it ends the top-up it may be draining
CancelAlign ==
  /\ align' = NoAlign
  /\ topUp' = [d \in Did |-> IF topUp[d].by = "drain" THEN NoTopUp ELSE topUp[d]]

\* _reset_state_scope up to rebuild(): nothing that runs meanwhile outlives the clear
ResetBegin ==
  /\ resets > 0 /\ ~rebuilding
  /\ resets' = resets - 1 /\ rebuilding' = TRUE
  /\ scope' = scope + 1
  /\ used' = [d \in Did |-> 0] /\ wanted' = {}
  /\ CancelAlign
  /\ online' = [d \in Did |-> None] /\ prop' = [d \in Did |-> None]
  /\ waiting' = waiting \cup {"switch"}
  /\ excuse' = {e \in excuse : e[2] = "overtaken"} \cup Bereft(Did)
  /\ UNCHANGED <<cloud, link, cache, enabled, alignedScope, refresh, failed, timers, pulling, moves>>

NewAlign(round) == [at |-> "start", round |-> round, scope |-> scope]

\* the caches are rebuilt: start_state_alignment
ResetEnd ==
  /\ rebuilding /\ "switch" \notin waiting /\ refresh.who # "switch"
  /\ rebuilding' = FALSE
  /\ align' = NewAlign(1)
  /\ UNCHANGED <<cloud, link, cache, tree, enabled, scope, alignedScope, resets, refreshing,
                 topping, pulling, excuse, moves>>

(***************************************************************************)
(* The alignment                                                           *)
(***************************************************************************)

At(place) == align # NoAlign /\ align.at = place
MovedOn == align.scope # scope

\* a round that failed is tried again, a scope that moved on is not
AlignFail ==
  /\ At("start")
  /\ align' = IF align.round < MaxRounds /\ ~MovedOn THEN NewAlign(align.round + 1) ELSE NoAlign
  /\ UNCHANGED <<cloud, link, cache, tree, scopes, refreshing, topping, pulling, excuse, moves>>

\* _collect_params: who is here and who of them is online; specs are asked for meanwhile
AlignCollect ==
  /\ At("start") /\ ~MovedOn
  /\ LET meta == {d \in Did : Here(d)}
     IN /\ align' = [at |-> "spec", scope |-> align.scope, meta |-> meta,
                     ask |-> {d \in meta : alive[d]}]
        /\ excuse' = excuse \ Blame({d \in meta : alive[d]}, "movedIn")
  /\ UNCHANGED <<cloud, link, cache, tree, scopes, refreshing, topping, pulling, moves>>

\* _write_online_flags takes the devices that are still here
AlignLive ==
  /\ At("spec")
  /\ align' = [at |-> "flags", scope |-> align.scope, meta |-> align.meta, ask |-> align.ask,
               live |-> {d \in align.meta : Here(d)}, todo |-> align.meta]
  /\ UNCHANGED <<cloud, link, cache, tree, scopes, refreshing, topping, pulling, excuse, moves>>

\* written for a device that is not here
Haunted(d) == IF Here(d) THEN {} ELSE Blame({d}, "ghost")

\* MUTANT of AlignFlag: the flag as it was when the devices were collected
AlignFlagOld(d) ==
  /\ At("flags") /\ d \in align.todo /\ ~MovedOn
  /\ online' = [online EXCEPT ![d] = d \in align.ask]
  /\ align' = [align EXCEPT !.todo = @ \ {d}]
  /\ excuse' = excuse \cup Haunted(d) \cup Blame({d} \ align.live, "ghost")
  /\ UNCHANGED <<cloud, link, cache, prop, scopes, refreshing, topping, pulling, moves>>

\* the flag as it is now, or as it was collected when the device has gone
AlignFlag(d) ==
  /\ At("flags") /\ d \in align.todo /\ ~MovedOn
  /\ online' = [online EXCEPT ![d] = IF d \in align.live THEN alive[d] ELSE d \in align.ask]
  /\ align' = [align EXCEPT !.todo = @ \ {d}]
  /\ excuse' = excuse \cup Haunted(d) \cup Blame({d} \ align.live, "ghost")
  /\ UNCHANGED <<cloud, link, cache, prop, scopes, refreshing, topping, pulling, moves>>

\* _read_values; a chunk that fails leaves its devices out
AlignRead(D) ==
  /\ At("flags") /\ align.todo = {} /\ D \subseteq align.ask
  /\ align' = [at |-> "props", scope |-> align.scope, todo |-> D, got |-> report]
  /\ excuse' = excuse \cup Blame(align.ask \ D, "unread")
  /\ UNCHANGED <<cloud, link, cache, tree, scopes, refreshing, topping, pulling, moves>>

\* _write_device: the whole subtree of properties
AlignWrite(d) ==
  /\ At("props") /\ d \in align.todo /\ ~MovedOn
  /\ Reported(d, align.got[d])
  /\ align' = [align EXCEPT !.todo = @ \ {d}]
  /\ excuse' = Cleared(d, align.got[d]) \cup Haunted(d) \cup Masking(d)
  /\ UNCHANGED <<cloud, link, cache, online, scopes, refreshing, topping, pull, again, moves>>

\* mark_scope_aligned, and the top-ups that were wanted meanwhile are taken over
AlignDone ==
  /\ At("props") /\ align.todo = {} /\ ~MovedOn
  /\ alignedScope' = scope
  /\ align' = [at |-> "drain", scope |-> align.scope, todo |-> wanted]
  /\ wanted' = {}
  /\ UNCHANGED <<cloud, link, cache, tree, enabled, scope, resets, rebuilding, refreshing,
                 timers, topUp, used, pulling, excuse, moves>>

AlignEnd ==
  /\ At("drain") /\ align.todo = {}
  /\ \A d \in Did : topUp[d].by # "drain"
  /\ align' = NoAlign
  /\ UNCHANGED <<cloud, link, cache, tree, scopes, refreshing, topping, pulling, excuse, moves>>

(***************************************************************************)
(* The top-up                                                              *)
(***************************************************************************)

\* the scope is not aligned: _top_up_pending keeps it
Wanted(d) == wanted' = wanted \cup {d}

\* the device is here and online, has attempts left and lacks a leaf
MayTopUp(d) == Here(d) /\ alive[d] /\ used[d] < MaxTopUps /\ prop[d] = None

\* _top_up_props and read_missing_props up to the call of the cloud
TopUpBegin(d, by) ==
  /\ topUp[d] = NoTopUp
  /\ IF ~Aligned THEN Wanted(d) /\ UNCHANGED topUp
     ELSE /\ topUp' = IF MayTopUp(d)
                      THEN [topUp EXCEPT ![d] = [at |-> "asked", by |-> by, scope |-> scope, used |-> used[d]]]
                      ELSE topUp
          /\ UNCHANGED wanted

TopUpTimer(d) ==
  /\ d \in timers /\ timers' = timers \ {d}
  /\ TopUpBegin(d, "timer")
  /\ UNCHANGED <<cloud, link, cache, tree, scopes, refreshing, align, used, pulling, excuse, moves>>

\* _drain_pending_top_ups
TopUpDrain(d) ==
  /\ At("drain") /\ d \in align.todo
  /\ \A e \in Did : topUp[e].by # "drain"
  /\ align' = [align EXCEPT !.todo = @ \ {d}]
  /\ TopUpBegin(d, "drain")
  /\ UNCHANGED <<cloud, link, cache, tree, scopes, refreshing, timers, used, pulling, excuse, moves>>

TopUpAnswer(d, read) ==
  /\ topUp[d].at = "asked"
  /\ topUp' = [topUp EXCEPT ![d] = [at |-> "got", by |-> topUp[d].by, scope |-> topUp[d].scope,
                                     used |-> topUp[d].used, val |-> IF read THEN report[d] ELSE None]]
  /\ excuse' = IF read THEN excuse ELSE excuse \cup Blame({d}, "unread")
  /\ UNCHANGED <<cloud, link, cache, tree, scopes, refreshing, align, timers, used, wanted, pulling, moves>>

\* write_pulled_props: both gates, and never over a leaf that is there
TopUpLands(d) == Aligned /\ Here(d) /\ prop[d] = None

TopUpEnd(d) ==
  /\ topUp[d].at = "got"
  /\ topUp' = [topUp EXCEPT ![d] = NoTopUp]
  /\ used' = IF topUp[d].scope = scope THEN [used EXCEPT ![d] = topUp[d].used + 1] ELSE used
  /\ LET v == topUp[d].val
     IN IF v # None /\ TopUpLands(d)
        THEN Reported(d, v) /\ excuse' = Cleared(d, v) \cup Masking(d)
        ELSE UNCHANGED <<prop, fresh, excuse>>
  /\ UNCHANGED <<cloud, link, cache, online, scopes, refreshing, align, timers, wanted, pull, again, moves>>

(***************************************************************************)
(* The pull after a reconnection                                           *)
(***************************************************************************)

\* the delay is over: the devices of the iot rules, all of them here
PullWake ==
  /\ pull.at = "delay"
  /\ pull' = [at |-> "next", todo |-> Did]
  /\ UNCHANGED <<cloud, link, cache, tree, scopes, refreshing, align, topping, again, fresh, excuse, moves>>

PullAsk(d) ==
  /\ pull.at = "next" /\ d \in pull.todo
  /\ pull' = [at |-> "asked", did |-> d, todo |-> pull.todo \ {d}]
  /\ fresh' = {}
  /\ UNCHANGED <<cloud, link, cache, tree, scopes, refreshing, align, topping, again, excuse, moves>>

PullAnswer(read) ==
  /\ pull.at = "asked"
  /\ pull' = IF read THEN [at |-> "got", did |-> pull.did, todo |-> pull.todo, val |-> report[pull.did]]
             ELSE [at |-> "next", todo |-> pull.todo]
  /\ excuse' = IF read THEN excuse ELSE excuse \cup Blame({pull.did}, "unread")
  /\ UNCHANGED <<cloud, link, cache, tree, scopes, refreshing, align, topping, again, fresh, moves>>

\* a leaf reported since the pull asked is newer than its answer
Kept(d) == prop[d] # None /\ d \in fresh

PullWrite ==
  /\ pull.at = "got"
  /\ pull' = [at |-> "next", todo |-> pull.todo]
  /\ LET d == pull.did
     IN CASE ~(Aligned /\ Here(d)) -> excuse' = excuse \cup Blame({d}, "dropped") /\ UNCHANGED <<prop, fresh>>
          [] Aligned /\ Here(d) /\ Kept(d) -> UNCHANGED <<prop, fresh, excuse>>
          [] OTHER -> Reported(d, pull.val) /\ excuse' = Cleared(d, pull.val)
  /\ UNCHANGED <<cloud, link, cache, online, scopes, refreshing, align, topping, again, moves>>

PullEnd ==
  /\ pull.at = "next" /\ pull.todo = {}
  /\ pull' = IF again THEN [at |-> "delay"] ELSE NoPull
  /\ again' = FALSE
  /\ UNCHANGED <<cloud, link, cache, tree, scopes, refreshing, align, topping, fresh, excuse, moves>>

(***************************************************************************)
(* The specification                                                       *)
(***************************************************************************)

\* started, the cache filled, the first alignment about to run on an empty store
Init ==
  /\ where \in [Did -> Home] /\ up \in [Did -> BOOLEAN] /\ report \in [Did -> Value]
  /\ linked = TRUE /\ pushes = <<>>
  /\ home = where /\ alive = up
  /\ online = [d \in Did |-> None] /\ prop = [d \in Did |-> None]
  /\ enabled \in Home
  /\ scope = 0 /\ alignedScope = -1 /\ resets = 0 /\ rebuilding = FALSE
  /\ waiting = {} /\ refresh = NoRefresh /\ failed = TRUE
  /\ align = NewAlign(1)
  /\ timers = {} /\ topUp = [d \in Did |-> NoTopUp] /\ used = [d \in Did |-> 0] /\ wanted = {}
  /\ pull = NoPull /\ again = FALSE /\ fresh = {}
  /\ excuse = {} /\ moves = MaxMoves

Move ==
  \/ \E d \in Did, v \in Value : Report(d, v)
  \/ \E d \in Did : Flip(d)
  \/ \E d \in Did, h \in Home : MoveHome(d, h)
  \/ Disconnect
  \/ UserRefresh
  \/ \E h \in Home : SwitchHome(h)

Arrive == OnDeviceState \/ OnDeviceProps \/ OnDeviceMeta
Refresh == RefreshAsk \/ RefreshAnswer \/ RefreshApply
Reset == ResetBegin \/ ResetEnd
Align == AlignCollect \/ AlignLive \/ (\E d \in Did : AlignFlag(d)) \/ (\E D \in SUBSET Did : AlignRead(D))
         \/ (\E d \in Did : AlignWrite(d)) \/ AlignDone \/ AlignEnd
TopUp == \E d \in Did : TopUpTimer(d) \/ TopUpDrain(d) \/ (\E read \in BOOLEAN : TopUpAnswer(d, read)) \/ TopUpEnd(d)
Pull == PullWake \/ (\E d \in Did : PullAsk(d)) \/ (\E read \in BOOLEAN : PullAnswer(read)) \/ PullWrite \/ PullEnd

Next == Move \/ Reconnect \/ Arrive \/ Refresh \/ RefreshFail \/ Reset \/ AlignFail \/ Align \/ TopUp \/ Pull

Spec == Init /\ [][Next]_vars

\* the SDK reconnects, delivers and answers; tasks and timers run
Fairness == /\ WF_vars(Reconnect) /\ WF_vars(Arrive) /\ WF_vars(Refresh) /\ WF_vars(Reset)
            /\ WF_vars(Align) /\ WF_vars(TopUp) /\ WF_vars(Pull)

(***************************************************************************)
(* Properties                                                              *)
(***************************************************************************)

\* nothing is under way
AtRest ==
  /\ linked /\ pushes = <<>>
  /\ waiting = {} /\ refresh = NoRefresh
  /\ resets = 0 /\ ~rebuilding
  /\ align = NoAlign
  /\ timers = {} /\ \A d \in Did : topUp[d] = NoTopUp
  /\ pull = NoPull

Excused(d, why) == \E w \in why : <<d, w>> \in excuse

\* Types (manager.py:300, miot/client.py:1264, rule/iot_source.py:503).
TypeOK ==
  /\ where \in [Did -> Home] /\ up \in [Did -> BOOLEAN] /\ report \in [Did -> Value]
  /\ linked \in BOOLEAN /\ Len(pushes) <= MaxPushes
  /\ home \in [Did -> Home] /\ alive \in [Did -> BOOLEAN]
  /\ online \in [Did -> BOOLEAN \cup {None}] /\ prop \in [Did -> Value \cup {None}]
  /\ enabled \in Home /\ scope \in 0..MaxScope /\ alignedScope \in -1..scope
  /\ resets \in 0..MaxScope /\ rebuilding \in BOOLEAN
  /\ waiting \subseteq Caller /\ refresh.who \in Caller \cup {"nobody"} /\ failed \in BOOLEAN
  /\ timers \subseteq Did /\ wanted \subseteq Did /\ used \in [Did -> 0..MaxTopUps]
  /\ again \in BOOLEAN /\ fresh \subseteq Did
  /\ excuse \subseteq Did \X Cause /\ moves \in 0..MaxMoves

\* At rest, after a refresh that went through, each device of the enabled home has
\* the online flag of the cloud and the others have no leaf, unless the answer of
\* the last refresh was older than a push, or the alignment wrote a device that left
\* (miot/client.py:1294, miot/state_push.py:145).
OnlineFollows ==
  AtRest /\ ~failed =>
    \A d \in Did :
      IF where[d] = enabled THEN online[d] = up[d] \/ Excused(d, {"overtaken", "ghost"})
      ELSE {online[d], prop[d]} = {None} \/ Excused(d, {"ghost"})

\* At rest, aligned or not, a property leaf holds what the device last reported,
\* unless its push met a closed gate, a read failed, or a read from before a
\* reconnection hid the pulled value (miot/state_push.py:156, rule/iot_source.py:536).
PropFollows ==
  AtRest => \A d \in Did :
    prop[d] \in {None, report[d]} \/ Excused(d, {"dropped", "unread", "masked"})

\* At rest in an aligned scope, a device of the home that is online has its property
\* leaves, unless it moved in later, nobody heard it come up, a read failed, or its
\* top-ups are used up (manager.py:342).
NobodyForgotten ==
  AtRest /\ Aligned /\ ~failed =>
    \A d \in Did : where[d] = enabled /\ up[d] /\ prop[d] = None =>
      Excused(d, {"movedIn", "unheard", "unread", "overtaken"}) \/ used[d] = MaxTopUps
=============================================================================
