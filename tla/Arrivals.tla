------------------------------ MODULE Arrivals ------------------------------
(***************************************************************************)
(* The greeting of a device that arrives in a managed home: it is bound to *)
(* the account or moves in from another home.  The cloud pushes bind       *)
(* events and changes of home; two listeners, each with a trailing         *)
(* debounce of its own, refresh the list of devices when their pushes have *)
(* settled and then ask the welcome service to greet, which remembers for  *)
(* a while whom it greeted.  One device.                                   *)
(*                                                                         *)
(* Bounds: MaxSkew, how long a push is on its way, less than Debounce;     *)
(* MaxFire, how long a settled listener works; MaxMoves moves of the       *)
(* device and renames.                                                     *)
(***************************************************************************)
EXTENDS Integers

CONSTANTS Managed, Foreign, Debounce, MaxSkew, MaxFire, MaxMoves

VARIABLES
  home,       \* where the device is, "away" when it is not in the account
  cached,     \* where the list of devices says it is
  wire,       \* kind of push -> how long one is on its way, Off when none is
  timer,      \* chain -> time to its end, Off when it does not run
  pending,    \* the device is to be greeted when the meta timer ends
  fires,      \* listeners at work: chain, stage, age, answer, greet
  recent,     \* time since the last greeting, Window when it is forgotten
  moves,
  \* history
  arrived,    \* the device has arrived in a managed home and is there
  quiet,      \* nothing was going on when it arrived
  greeted,    \* greetings since it arrived
  excuse      \* what went wrong since it arrived

vars == <<home, cached, wire, timer, pending, fires, recent, moves, arrived, quiet,
          greeted, excuse>>

world == <<home, moves, arrived, quiet>>

Off == -1
Chain == {"bind", "meta"}
Push == {"bind", "movein", "rename"}
Home == Managed \cup Foreign

Window == 2 * Debounce

\* a listener that works longer than this may greet when the other greeting is forgotten
Slack == Debounce

Fire == [chain : Chain, stage : {"asked", "answered", "listed"}, age : 0 .. MaxFire,
         got : Home \cup {"away"}, greet : BOOLEAN]

\* a device that is in a managed home may have been greeted just now
Init ==
  /\ home \in Home \cup {"away"} /\ cached = home
  /\ wire = [p \in Push |-> Off] /\ timer = [c \in Chain |-> Off]
  /\ pending = FALSE /\ fires = {} /\ moves = 0
  /\ recent \in IF home \in Managed THEN {0, Window} ELSE {Window}
  /\ arrived = FALSE /\ quiet = TRUE /\ greeted = 0 /\ excuse = {}

-----------------------------------------------------------------------------
(***************************************************************************)
(* The device and the cloud.                                               *)
(***************************************************************************)

\* the flag of a push about a change of home, old and new home in its payload
MovesIn(old, new) == new \in Managed /\ old \notin Managed

Still == /\ \A p \in Push : wire[p] = Off
         /\ \A c \in Chain : timer[c] = Off
         /\ fires = {}

\* the device goes to h and the cloud pushes the kinds P
Goes(h, P) ==
  /\ moves < MaxMoves /\ moves' = moves + 1
  /\ \A p \in P : wire[p] = Off
  /\ home' = h
  /\ wire' = [p \in Push |-> IF p \in P THEN 0 ELSE wire[p]]
  /\ IF h \in Managed /\ home \in Managed
     THEN UNCHANGED <<arrived, quiet, greeted, excuse>>
     ELSE /\ arrived' = (h \in Managed)
          /\ quiet' = (Still /\ recent = Window)
          /\ greeted' = 0 /\ excuse' = {}
  /\ UNCHANGED <<cached, timer, pending, fires, recent>>

Bound ==
  /\ home = "away"
  /\ \E h \in Home, both \in BOOLEAN :
       Goes(h, IF both /\ h \in Managed THEN {"bind", "movein"} ELSE {"bind"})

Unbound == home # "away" /\ Goes("away", {"bind"})

\* from home to home, by an hr_change push and, when it arrives, perhaps a bind push too
Moved ==
  /\ home # "away"
  /\ \E h \in Home \ {home} :
       IF MovesIn(home, h)
       THEN \E P \in {{"movein"}, {"movein", "bind"}} : Goes(h, P)
       ELSE Goes(h, {"rename"})

Renamed == home # "away" /\ Goes(home, {"rename"})

-----------------------------------------------------------------------------
(***************************************************************************)
(* The listeners.                                                          *)
(***************************************************************************)

\* MUTANT of Armed: a listener at work is not started again
ArmedIdle(c) ==
  IF \E f \in fires : f.chain = c THEN timer ELSE [timer EXCEPT ![c] = Debounce]

\* the timer of c starts, or starts again, also while the listener works
Armed(c) == [timer EXCEPT ![c] = Debounce]

\* a push comes
Arrives(p) ==
  LET c == IF p = "bind" THEN "bind" ELSE "meta" IN
  /\ wire[p] # Off
  /\ wire' = [wire EXCEPT ![p] = Off]
  /\ timer' = Armed(c)
  /\ pending' = (pending \/ p = "movein")
  /\ excuse' = IF timer[c] # Off THEN excuse \cup {"burst"} ELSE excuse
  /\ UNCHANGED <<cached, fires, recent, greeted, world>>

\* the pushes have settled: the listener takes the flag and asks for the list of devices
Settles(c) ==
  /\ timer[c] = 0
  /\ timer' = [timer EXCEPT ![c] = Off]
  /\ fires' = fires \cup {[chain |-> c, stage |-> "asked", age |-> 0, got |-> "away",
                           greet |-> c = "bind" \/ pending]}
  /\ pending' = (pending /\ c # "meta")
  /\ UNCHANGED <<cached, wire, recent, greeted, excuse, world>>

\* f becomes g, or is over
Becomes(f, g) == fires' = (fires \ {f}) \cup {g}
Over(f) == fires' = fires \ {f}

\* the cloud answers with where the device is; one refresh at a time
Answered(f) ==
  /\ f.stage = "asked" /\ \A g \in fires : g.stage # "answered"
  /\ Becomes(f, [f EXCEPT !.stage = "answered", !.got = home])
  /\ UNCHANGED <<cached, wire, timer, pending, recent, greeted, excuse, world>>

\* refresh_devices swallows its failure: the listener goes on with the list of before
RefreshFails(f) ==
  /\ f.stage = "asked" /\ \A g \in fires : g.stage # "answered"
  /\ Becomes(f, [f EXCEPT !.stage = "listed"])
  /\ excuse' = excuse \cup {"failed"}
  /\ UNCHANGED <<cached, wire, timer, pending, recent, greeted, world>>

\* the list is there; cameras and scenes are refreshed next, a failure is only logged
Listed(f) ==
  /\ f.stage = "answered"
  /\ cached' = f.got
  /\ Becomes(f, [f EXCEPT !.stage = "listed", !.got = "away"])
  /\ UNCHANGED <<wire, timer, pending, recent, greeted, excuse, world>>

\* welcome: the device is there, in a managed home and was not greeted lately
Greets(f) == f.greet /\ cached \in Managed /\ recent >= Window

\* the listener comes to its end; the dispatcher may turn the greeting away
Finishes(f) ==
  /\ f.stage = "listed"
  /\ Over(f)
  /\ \E taken \in BOOLEAN :
       /\ taken => Greets(f)
       /\ recent' = IF taken THEN 0 ELSE recent
       /\ greeted' = IF taken /\ greeted < 2 THEN greeted + 1 ELSE greeted
       /\ excuse' = excuse
            \cup (IF f.age > Slack THEN {"slow"} ELSE {})
            \cup (IF Greets(f) /\ ~taken THEN {"refused"} ELSE {})
            \cup (IF f.greet /\ cached \in Managed /\ ~Greets(f) /\ greeted = 0
                  THEN {"lately"} ELSE {})
  /\ UNCHANGED <<cached, wire, timer, pending, world>>

\* time passes while no timer is due and no push or listener is late
Tick ==
  /\ \A p \in Push : wire[p] < MaxSkew
  /\ \A c \in Chain : timer[c] # 0
  /\ \A f \in fires : f.age < MaxFire
  /\ wire' = [p \in Push |-> IF wire[p] = Off THEN Off ELSE wire[p] + 1]
  /\ timer' = [c \in Chain |-> IF timer[c] = Off THEN Off ELSE timer[c] - 1]
  /\ fires' = {[f EXCEPT !.age = f.age + 1] : f \in fires}
  /\ recent' = IF recent < Window THEN recent + 1 ELSE recent
  /\ UNCHANGED <<cached, pending, greeted, excuse, world>>

Next ==
  \/ Bound \/ Unbound \/ Moved \/ Renamed \/ Tick
  \/ \E p \in Push : Arrives(p)
  \/ \E c \in Chain : Settles(c)
  \/ \E f \in fires : \/ Answered(f) \/ RefreshFails(f) \/ Listed(f) \/ Finishes(f)

Spec == Init /\ [][Next]_vars

-----------------------------------------------------------------------------
(***************************************************************************)
(* Properties.                                                             *)
(***************************************************************************)

\* Every variable has its type, and one refresh is being taken over at a time
\* (miot/mips_listeners.py:159).
TypeOK ==
  /\ home \in Home \cup {"away"} /\ cached \in Home \cup {"away"}
  /\ wire \in [Push -> Off .. MaxSkew] /\ timer \in [Chain -> Off .. Debounce]
  /\ pending \in BOOLEAN /\ fires \subseteq Fire /\ recent \in 0 .. Window
  /\ moves \in 0 .. MaxMoves /\ arrived \in BOOLEAN /\ quiet \in BOOLEAN
  /\ greeted \in 0 .. 2 /\ excuse \subseteq {"burst", "failed", "slow", "refused", "lately"}
  /\ \A f, g \in fires : f.stage = "answered" /\ g.stage = "answered" => f = g
  /\ pending => wire["movein"] # Off \/ timer["meta"] # Off

\* A device is greeted as often as it arrives.  An arrival that a bind push and a change
\* of home both announce is greeted once, if things were quiet before, no timer was
\* restarted and no listener took longer than Slack: the two listeners greet less than
\* Window apart (miot/welcome_service.py:14, 34).  One that was renamed or moves from one
\* managed home to another is not greeted (miot/mips_listeners.py:289, miot/client.py:1529);
\* one that leaves may be, while its greeting is on its way, or because a refresh failed
\* and the list of before is still there.
GreetedAsArrived ==
  quiet =>
    /\ excuse \cap {"burst", "slow"} = {} => greeted <= 1
    /\ ~arrived /\ "failed" \notin excuse => greeted = 0

\* When all pushes have settled, a device that arrived in a managed home was greeted,
\* unless a refresh failed, the dispatcher turned the greeting away, or the device had
\* been greeted shortly before: no push is lost to a listener already at work
\* (miot/mips_listeners.py:289).
NoArrivalLost ==
  Still /\ arrived => greeted > 0 \/ excuse \cap {"failed", "refused", "lately"} # {}

\* Who arrives is greeted, and once (miot/welcome_service.py:68).
ArrivalsGreeted == GreetedAsArrived /\ NoArrivalLost
=============================================================================
