--------------------------- MODULE SubscriptionSync ---------------------------
(***************************************************************************)
(* Which devices are listened to: the mirror that miot/client.py keeps of  *)
(* the subscriptions, the set the SDK keeps (miot/client.py of the SDK)    *)
(* and the topics of its connection (mips_cloud.py), under bind and unbind *)
(* events, refreshes, reconnections and a rebuilt connection.              *)
(*                                                                         *)
(* One of the four kinds of subscription is kept: they meet only in the    *)
(* generation and in the loop, which waits for all of them.  direct says   *)
(* which: one that bind events subscribe at once (device state, device     *)
(* meta) or one that only the rounds do (device properties, home scenes).  *)
(* Not here: on a bind the code subscribes to the meta when the wait for   *)
(* the SUBACK of the state is over; here each is subscribed at the event.  *)
(*                                                                         *)
(* excuse is a history variable: the devices whose subscription failed in  *)
(* the last round ("missed"), that a thrown away round subscribed or       *)
(* unsubscribed, or a bind subscribed again before the round forgot it     *)
(* ("torn"), that a bind subscribed when no refresh was to come any more   *)
(* ("late"), of which one SUBSCRIBE was taken and another rejected         *)
(* ("split").                                                              *)
(***************************************************************************)
EXTENDS Integers, Sequences

CONSTANTS
  Did,
  MaxMoves, MaxEvents     \* bounds: moves of the world, events on their way

VARIABLES
  direct,
  bound,                  \* the cloud: devices of the account
  link, events,           \* mips: "up", "down" or "none"; bind events to deliver
  cache,                  \* keys of _device_info_dict
  due, refresh, failed,   \* a refresh is due, what the one under way brings; history: the last failed
  mirror, gen,            \* _subscribed_*_dids, _sub_intent_generation
  running, rerun, before, \* the sync loop: its flags, gen_before
  round,                  \* its round
  sdk, topics,            \* _*_sub_dids of the SDK, _subs of the connection
  flying,                 \* SUBSCRIBEs that wait for their SUBACK
  rebuild,                \* _setup_mips_async
  excuse, moves

world == <<direct, bound, link, events>>
listing == <<cache, due, refresh, failed>>
intent == <<mirror, gen>>
loop == <<running, rerun, before, round>>
wire == <<sdk, topics, flying>>
vars == <<world, listing, intent, loop, wire, rebuild, excuse, moves>>

NoRefresh == [at |-> "none"]
NoRound == [at |-> "done"]
NoRebuild == [at |-> "none"]

Blame(D, why) == D \X {why}

Moves == moves > 0 /\ moves' = moves - 1

(***************************************************************************)
(* The world                                                               *)
(***************************************************************************)

\* a push, if there is a connection to go out on
Push(e) == events' = IF link = "up" THEN Append(events, e) ELSE events

Bind(d) ==
  /\ Moves /\ d \notin bound /\ Len(events) < MaxEvents
  /\ bound' = bound \cup {d} /\ Push(<<"bind", d>>)
  /\ UNCHANGED <<direct, link, listing, intent, loop, wire, rebuild, excuse>>

Unbind(d) ==
  /\ Moves /\ d \in bound /\ Len(events) < MaxEvents
  /\ bound' = bound \ {d} /\ Push(<<"unbind", d>>)
  /\ UNCHANGED <<direct, link, listing, intent, loop, wire, rebuild, excuse>>

\* no SUBACK comes any more
Lost == flying' = {[f EXCEPT !.lost = TRUE] : f \in flying}

Disconnect ==
  /\ Moves /\ link = "up"
  /\ link' = "down" /\ events' = <<>> /\ Lost
  /\ UNCHANGED <<direct, bound, listing, intent, loop, sdk, topics, rebuild, excuse>>

\* _on_connect issues the topics again; _on_mips_connected
Reconnect ==
  /\ link = "down"
  /\ link' = "up" /\ due' = TRUE
  /\ UNCHANGED <<direct, bound, events, cache, refresh, failed, intent, loop, wire, rebuild, excuse, moves>>

(***************************************************************************)
(* The SDK: subscribe and unsubscribe                                      *)
(***************************************************************************)

Flight(who, d) == [who |-> who, did |-> d, lost |-> FALSE]

\* the topic is recorded before the SUBSCRIBE goes out
Subscribe(who, d) ==
  /\ link = "up" /\ d \notin sdk
  /\ topics' = topics \cup {d}
  /\ flying' = flying \cup {Flight(who, d)}

Unavailable(d) == link # "up" /\ d \notin sdk

\* the SUBACK is good, and the topic was not unsubscribed meanwhile
Acked(f) ==
  /\ ~f.lost /\ f.did \in topics
  /\ sdk' = sdk \cup {f.did}
  /\ UNCHANGED topics

\* superseded or timed out
Refused(f) == UNCHANGED <<sdk, topics>>

\* rejected for good, as a device of nobody is: the topic is given up
Rejected(f) ==
  /\ ~f.lost /\ f.did \notin bound
  /\ topics' = topics \ {f.did}
  /\ UNCHANGED sdk

Split(f) == Blame({f.did} \cap sdk, "split")

Unsubscribe(d) == sdk' = sdk \ {d} /\ topics' = topics \ {d}

(***************************************************************************)
(* Bind events                                                             *)
(***************************************************************************)

\* the debounce of the listener is armed, then the device is subscribed
OnBind ==
  /\ events # <<>> /\ Head(events)[1] = "bind"
  /\ events' = Tail(events) /\ due' = TRUE
  /\ LET d == Head(events)[2]
     IN \/ direct /\ Subscribe("bind", d) /\ UNCHANGED <<mirror, sdk>>
        \/ direct /\ d \in sdk /\ mirror' = mirror \cup {d} /\ UNCHANGED wire
        \/ (~direct \/ Unavailable(d)) /\ UNCHANGED <<mirror, wire>>
  /\ UNCHANGED <<direct, bound, link, cache, refresh, failed, gen, loop, rebuild, excuse, moves>>

BindEnd(f) ==
  /\ f \in flying /\ f.who = "bind" /\ flying' = flying \ {f}
  /\ \/ /\ Acked(f)
        /\ mirror' = mirror \cup {f.did}
        /\ excuse' = excuse \cup IF due \/ refresh # NoRefresh THEN {} ELSE Blame({f.did}, "late")
     \/ Refused(f) /\ UNCHANGED <<mirror, excuse>>
     \/ Rejected(f) /\ excuse' = excuse \cup Split(f) /\ UNCHANGED mirror
  /\ UNCHANGED <<world, listing, gen, loop, rebuild, moves>>

\* the mirror forgets the device, results of rounds under way are void
OnUnbind ==
  /\ events # <<>> /\ Head(events)[1] = "unbind"
  /\ events' = Tail(events) /\ due' = TRUE
  /\ LET d == Head(events)[2]
     IN IF direct THEN mirror' = mirror \ {d} /\ Unsubscribe(d)
        ELSE UNCHANGED <<mirror, sdk, topics>>
  /\ gen' = gen + 1
  /\ UNCHANGED <<direct, bound, link, cache, refresh, failed, loop, flying, rebuild, excuse, moves>>

(***************************************************************************)
(* refresh_devices                                                         *)
(***************************************************************************)

UserRefresh ==
  /\ Moves /\ due' = TRUE
  /\ UNCHANGED <<world, cache, refresh, failed, intent, loop, wire, rebuild, excuse>>

\* the cloud makes its answer
RefreshAsk ==
  /\ due /\ refresh = NoRefresh
  /\ due' = FALSE /\ refresh' = [at |-> "answered", dids |-> bound]
  /\ UNCHANGED <<world, cache, failed, intent, loop, wire, rebuild, excuse, moves>>

\* _spawn_subscription_sync
Spawn == running' = TRUE /\ rerun' = running

RefreshApply ==
  /\ refresh # NoRefresh
  /\ refresh' = NoRefresh /\ failed' = FALSE
  /\ cache' = refresh.dids /\ excuse' = excuse \ Blame(Did, "late")
  /\ Spawn
  /\ UNCHANGED <<world, due, intent, before, round, wire, rebuild, moves>>

RefreshFail ==
  /\ refresh # NoRefresh
  /\ refresh' = NoRefresh /\ failed' = TRUE
  /\ UNCHANGED <<world, cache, due, intent, loop, wire, rebuild, excuse, moves>>

(***************************************************************************)
(* The sync loop                                                           *)
(***************************************************************************)

Doing == round.at = "run"

\* the difference; before is -1 while the loop waits for its turn
RoundBegin ==
  /\ running /\ before = -1
  /\ rerun' = FALSE /\ before' = gen
  /\ round' = IF mirror = cache THEN NoRound
              ELSE [at |-> "run", adds |-> cache \ mirror, removes |-> mirror \ cache,
                    added |-> {}, removed |-> {}, gen |-> gen]
  /\ excuse' = excuse \ Blame(Did, "missed")
  /\ UNCHANGED <<world, listing, intent, running, wire, rebuild, moves>>

InFlight(who) == {f.did : f \in {g \in flying : g.who = who}}

Added(d) ==
  /\ round' = [round EXCEPT !.adds = @ \ {d}, !.added = @ \cup {d}]
  /\ UNCHANGED excuse

NotAdded(d, why) ==
  /\ round' = [round EXCEPT !.adds = @ \ {d}]
  /\ excuse' = excuse \cup Blame({d}, "missed") \cup why

\* _sub up to the SUBSCRIBE
RoundSub(d) ==
  /\ Doing /\ d \in round.adds \ InFlight("round")
  /\ \/ Subscribe("round", d) /\ UNCHANGED <<round, sdk, excuse>>
     \/ d \in sdk /\ Added(d) /\ UNCHANGED wire
     \/ Unavailable(d) /\ NotAdded(d, {}) /\ UNCHANGED wire
  /\ UNCHANGED <<world, listing, intent, running, rerun, before, rebuild, moves>>

RoundSubEnd(f) ==
  /\ f \in flying /\ f.who = "round" /\ flying' = flying \ {f}
  /\ \/ Acked(f) /\ Added(f.did)
     \/ Refused(f) /\ NotAdded(f.did, {})
     \/ Rejected(f) /\ NotAdded(f.did, Split(f))
  /\ UNCHANGED <<world, listing, intent, running, rerun, before, rebuild, moves>>

\* the devices to remove have their turn when those to add are through
RoundUnsub(d) ==
  /\ Doing /\ round.adds = {} /\ d \in round.removes
  /\ round' = [round EXCEPT !.removes = @ \ {d}, !.removed = @ \cup {d}]
  /\ Unsubscribe(d)
  /\ UNCHANGED <<world, listing, intent, running, rerun, before, flying, rebuild, excuse, moves>>

\* MUTANT of Valid: the generation is not looked at
ValidAlways == TRUE

\* nobody else changed the mirror meanwhile
Valid == gen = round.gen

RoundCommit ==
  /\ Doing /\ round.adds = {} /\ round.removes = {}
  /\ round' = NoRound
  /\ mirror' = IF Valid THEN (mirror \cup round.added) \ round.removed ELSE mirror
  /\ excuse' = excuse \cup Blame(IF Valid THEN round.removed \cap sdk
                                 ELSE round.added \cup round.removed, "torn")
  /\ UNCHANGED <<world, listing, gen, running, rerun, before, wire, rebuild, moves>>

\* MUTANT of Again: the generation is remembered when the loop is created, not by each round
AgainSinceStart == rerun \/ gen # 0

\* one more round was asked for, or results may have been thrown away
Again == rerun \/ gen # before

LoopTurn ==
  /\ running /\ ~Doing /\ before # -1
  /\ before' = -1 /\ running' = Again
  /\ UNCHANGED <<world, listing, intent, rerun, round, wire, rebuild, excuse, moves>>

(***************************************************************************)
(* A new connection: _setup_mips_async                                     *)
(***************************************************************************)

\* the old one is taken down
RebuildBegin ==
  /\ Moves /\ rebuild = NoRebuild
  /\ rebuild' = [at |-> "connect"]
  /\ link' = "none" /\ events' = <<>> /\ Lost
  /\ topics' = {}
  /\ UNCHANGED <<direct, bound, listing, intent, loop, sdk, excuse>>

\* _on_subscription_reset
Reset == mirror' = sdk' /\ gen' = gen + 1 /\ excuse' = excuse \ Blame(Did, "torn")

RebuildFail ==
  /\ rebuild.at = "connect"
  /\ rebuild' = NoRebuild
  /\ sdk' = {} /\ Reset
  /\ UNCHANGED <<world, listing, loop, topics, flying, moves>>

\* connected; the kinds before this one are replayed
RebuildUp ==
  /\ rebuild.at = "connect"
  /\ rebuild' = [at |-> "others"] /\ link' = "up"
  /\ UNCHANGED <<direct, bound, events, listing, intent, loop, wire, excuse, moves>>

ReplayBegin ==
  /\ rebuild.at = "others"
  /\ rebuild' = [at |-> "replay", todo |-> sdk] /\ sdk' = {}
  /\ UNCHANGED <<world, listing, intent, loop, topics, flying, excuse, moves>>

Replay(d) ==
  /\ rebuild.at = "replay" /\ d \in rebuild.todo
  /\ rebuild' = [rebuild EXCEPT !.todo = @ \ {d}]
  /\ \/ Subscribe("replay", d) /\ UNCHANGED sdk
     \/ (d \in sdk \/ Unavailable(d)) /\ UNCHANGED wire
  /\ UNCHANGED <<world, listing, intent, loop, excuse, moves>>

ReplayEnd(f) ==
  /\ f \in flying /\ f.who = "replay" /\ flying' = flying \ {f}
  /\ \/ (Acked(f) \/ Refused(f)) /\ UNCHANGED excuse
     \/ Rejected(f) /\ excuse' = excuse \cup Split(f)
  /\ UNCHANGED <<world, listing, intent, loop, rebuild, moves>>

\* the kinds after this one too: the mirror becomes what the SDK has
RebuildEnd ==
  /\ rebuild.at = "replay" /\ rebuild.todo = {} /\ InFlight("replay") = {}
  /\ rebuild' = NoRebuild /\ due' = TRUE
  /\ UNCHANGED sdk /\ Reset
  /\ UNCHANGED <<world, cache, refresh, failed, loop, topics, flying, moves>>

(***************************************************************************)
(* The specification                                                       *)
(***************************************************************************)

\* started and in step
Init ==
  /\ direct \in BOOLEAN /\ bound \in SUBSET Did /\ link = "up" /\ events = <<>>
  /\ cache = bound /\ due = FALSE /\ refresh = NoRefresh /\ failed = FALSE
  /\ mirror = bound /\ gen = 0
  /\ running = FALSE /\ rerun = FALSE /\ before = -1 /\ round = NoRound
  /\ sdk = mirror /\ topics = mirror /\ flying = {}
  /\ rebuild = NoRebuild /\ excuse = {}
  /\ moves = MaxMoves

World == \/ \E d \in Did : Bind(d) \/ Unbind(d)
         \/ Disconnect \/ UserRefresh \/ RebuildBegin
Events == OnBind \/ OnUnbind \/ \E f \in flying : BindEnd(f)
Refresh == RefreshAsk \/ RefreshApply
Sync == \/ RoundBegin \/ RoundCommit \/ LoopTurn
        \/ \E d \in Did : RoundSub(d) \/ RoundUnsub(d)
        \/ \E f \in flying : RoundSubEnd(f)
Rebuild == \/ RebuildUp \/ ReplayBegin \/ RebuildEnd
           \/ (\E d \in Did : Replay(d)) \/ (\E f \in flying : ReplayEnd(f))

Next == World \/ Reconnect \/ Events \/ Refresh \/ RefreshFail \/ Sync \/ Rebuild \/ RebuildFail

Spec == Init /\ [][Next]_vars

\* the SDK reconnects, delivers and answers; tasks of the loop run
Fairness == /\ WF_vars(Reconnect) /\ WF_vars(Events) /\ WF_vars(Refresh)
            /\ WF_vars(Sync) /\ WF_vars(Rebuild)

(***************************************************************************)
(* Properties                                                              *)
(***************************************************************************)

AtRest ==
  /\ link # "down" /\ events = <<>> /\ ~due /\ refresh = NoRefresh
  /\ ~running /\ flying = {} /\ rebuild = NoRebuild

\* at rest on a live connection, after a refresh that went through
Settled == AtRest /\ link = "up" /\ ~failed
Excused(d, why) == \E w \in why : <<d, w>> \in excuse

\* Types; a generation never comes back (miot/client.py:84, miot/client.py:1670).
TypeOK ==
  /\ bound \subseteq Did /\ cache \subseteq Did
  /\ link \in {"up", "down", "none"} /\ Len(events) <= MaxEvents
  /\ {direct, due, failed, running, rerun} \subseteq BOOLEAN
  /\ mirror \subseteq Did /\ sdk \subseteq Did /\ topics \subseteq Did
  /\ gen \in 0..MaxMoves /\ before \in -1..gen /\ (Doing => round.gen \in 0..gen)
  /\ excuse \subseteq Did \X {"missed", "torn", "late", "split"} /\ moves \in 0..MaxMoves

\* Settled, the mirror is the devices of the account, except those whose subscription
\* failed in the last round, or whose bind was answered too late for a refresh
\* (miot/client.py:425, miot/client.py:1385).
MirrorFollowsAccount ==
  Settled => \A d \in Did :
    /\ d \in mirror \ bound => Excused(d, {"late"})
    /\ d \in bound \ mirror => Excused(d, {"missed"})

\* Settled, the mirror is what the SDK has, except for devices of a round that was
\* thrown away or crossed by a bind (miot/client.py:110, miot/client.py:1670).
MirrorFollowsSdk ==
  Settled => \A d \in Did : (d \in mirror) = (d \in sdk) \/ Excused(d, {"torn"})

\* What the SDK counts as subscribed is a topic of its connection, so a reconnection
\* subscribes it again (mips_cloud.py:577).
SurvivesReconnect ==
  link # "none" /\ rebuild = NoRebuild => \A d \in sdk \ topics : Excused(d, {"split"})

=============================================================================
