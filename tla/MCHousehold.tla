----------------------------- MODULE MCHousehold -----------------------------
(***************************************************************************)
(* Four parts of the backend that keep up with a household, for one run:   *)
(* the invitation of a new family, the greeting of a device that arrives,  *)
(* the state of the devices and their subscriptions.  They do not meet;    *)
(* each is explored apart from the others and the initial state says which *)
(* one moves.                                                              *)
(***************************************************************************)
EXTENDS Invitation

CONSTANTS
  Managed, Foreign, Debounce, MaxSkew, MaxFire, MaxTrips,
  Did, Homes, Value, None, MaxTopUps, MaxRounds, MaxScope, MaxPushes,
  MaxEvents, MaxMoves,
  bulb, mine, other, v0, v1

VARIABLES
  part,      \* "invitation", "arrivals", "devices" or "subscriptions"
  home, cached, wire, timer, pending, fires, recent, moves, arrived, quiet, greeted, excuse,
  where, online, report, linked, pushes, homeOf, alive, flag, prop, enabled, scope,
  alignedScope, resets, rebuilding, asking, refresh, failed, align, timers, topUp, used,
  wanted, pull, again, fresh, doubt, deviceMoves,
  direct, bound, net, events, known, due, coming, missing, mirror, gen,
  syncing, rerun, before, round, sdk, topics, flying, rebuild, blame, subMoves

arrivalsVars == <<home, cached, wire, timer, pending, fires, recent, moves, arrived, quiet,
                  greeted, excuse>>
deviceVars == <<where, online, report, linked, pushes, homeOf, alive, flag, prop, enabled,
                scope, alignedScope, resets, rebuilding, asking, refresh, failed, align,
                timers, topUp, used, wanted, pull, again, fresh, doubt, deviceMoves>>
subVars == <<direct, bound, net, events, known, due, coming, missing, mirror, gen,
             syncing, rerun, before, round, sdk, topics, flying, rebuild, blame, subMoves>>

Greet == INSTANCE Arrivals WITH MaxMoves <- MaxTrips

\* the cloud's flag of a device is online, the leaf of the store is flag
Device == INSTANCE DeviceStateProofs WITH
  Home <- Homes, up <- online, online <- flag, home <- homeOf, waiting <- asking,
  excuse <- doubt, moves <- deviceMoves

Subs == INSTANCE SubscriptionSync WITH
  link <- net, cache <- known, refresh <- coming, failed <- missing, running <- syncing,
  excuse <- blame, moves <- subMoves

\* a part that does not move begins in one state; values and homes are alike, so
\* it is enough to begin with one of each, and a device that is away begins online
HouseholdInit ==
  /\ Init /\ Greet!Init /\ Device!Init /\ Subs!Init
  /\ part \in {"invitation", "arrivals", "devices", "subscriptions"}
  /\ report = [d \in Did |-> v0] /\ enabled = mine
  /\ part # "arrivals" => home = "away"
  /\ part # "devices" => where = [d \in Did |-> mine] /\ online = [d \in Did |-> TRUE]
  /\ \A d \in Did : where[d] = mine \/ online[d]
  /\ part # "subscriptions" => direct /\ bound = {}

HouseholdNext ==
  /\ part' = part
  /\ \/ /\ part = "invitation" /\ Next
        /\ UNCHANGED <<arrivalsVars, deviceVars, subVars>>
     \/ /\ part = "arrivals" /\ Greet!Next
        /\ UNCHANGED <<vars, deviceVars, subVars>>
     \/ /\ part = "devices" /\ Device!Next
        /\ UNCHANGED <<vars, arrivalsVars, subVars>>
     \/ /\ part = "subscriptions" /\ Subs!Next
        /\ UNCHANGED <<vars, arrivalsVars, deviceVars>>

\* the two parts that come to rest go on, each while it moves: whichever of its steps
HouseholdFairness ==
  /\ WF_deviceVars(/\ part = "devices"
                   /\ \/ Device!Reconnect \/ Device!Arrive \/ Device!Refresh \/ Device!Reset
                      \/ Device!Align \/ Device!TopUp \/ Device!Pull)
  /\ WF_subVars(/\ part = "subscriptions"
                /\ \/ Subs!Reconnect \/ Subs!Events \/ Subs!Refresh \/ Subs!Sync
                   \/ Subs!Rebuild)

HouseholdSpec ==
  /\ HouseholdInit
  /\ [][HouseholdNext]_<<part, vars, arrivalsVars, deviceVars, subVars>>
  /\ HouseholdFairness

\* Who arrives is greeted, and once; the two parts are explained in Arrivals
\* (miot/welcome_service.py:68).
ArrivalsGreeted == Greet!TypeOK /\ Greet!ArrivalsGreeted

\* At rest the leaves of each device are what the cloud says, and no device is without
\* (miot/state_push.py:5); the three parts are explained in DeviceState.
LeavesFollow ==
  /\ Device!TypeOK
  /\ Device!OnlineFollows /\ Device!PropFollows /\ Device!NobodyForgotten

\* Settled, account, mirror, SDK and connection have one set of subscriptions
\* (miot/client.py:84); the three parts are explained in SubscriptionSync.
SubscriptionsFollow ==
  /\ Subs!TypeOK
  /\ Subs!MirrorFollowsAccount /\ Subs!MirrorFollowsSdk /\ Subs!SurvivesReconnect

\* Devices and subscriptions come to rest once their world stands still
\* (manager.py:471, miot/client.py:425, miot/client.py:448).
AllRest ==
  <>[]((part = "devices" => Device!AtRest) /\ (part = "subscriptions" => Subs!AtRest))
=============================================================================
