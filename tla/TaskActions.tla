------------------------------ MODULE TaskActions ------------------------------
(***************************************************************************)
(* What becomes of the actions a task dispatches (rule/runner.py).  Each   *)
(* on_enter and on_exit is a task of the event loop, a "fire": it looks    *)
(* at the device and commands it, or hands a prompt to the dispatcher,     *)
(* with retries.  Two of them may be under way at once.                    *)
(*                                                                         *)
(* One task with one action in each of the two slots.  A static action     *)
(* brings the home to the state its slot stands for.                       *)
(***************************************************************************)
EXTENDS Naturals, Sequences

CONSTANTS
  MaxFires,   \* bound: actions dispatched
  Attempts    \* _AGENT_CALLBACK_MAX_RETRIES + 1

Slot == {"on_enter", "on_exit"}

\* an empty slot; a property that is compared first; a scene, a speech or another action
\* with a cooldown; a prompt for the agent
Kind == {"none", "compared", "limited", "prompt"}

VARIABLES
  kind,      \* [Slot -> Kind], the snapshot of the task's actions
  shared,    \* the two slots name the same (did, iid)
  on,        \* runtime_state of the task
  made,      \* fires so far
  fires,     \* those under way
  home,      \* the slot whose command the home obeyed last
  heard,     \* the slot whose prompt the dispatcher accepted last
  cooling,   \* action_cooldown
  settled,   \* the last fire has found the home as it wants it, or made it so
  excuse     \* why the last fire may not have the last word

row == <<kind, shared>>
vars == <<kind, shared, on, made, fires, home, heard, cooling, settled, excuse>>

Stage == {"new", "woken", "asking", "answered", "sent", "obeyed", "lost", "waiting"}
Fire == [n : 1 .. MaxFires, slot : Slot, stage : Stage, got : Slot \cup {"unknown"},
         tries : 0 .. Attempts]
Cause == {"refused", "cooled", "overtaken", "retried", "ahead", "meddled"}

Init ==
  /\ kind \in [Slot -> Kind]
  /\ shared \in BOOLEAN /\ (shared => kind["on_enter"] = "limited" /\ kind["on_exit"] = "limited")
  /\ on = FALSE /\ made = 0 /\ fires = {}
  /\ home = "on_exit" /\ heard = "on_exit" /\ cooling = {}
  /\ settled = TRUE /\ excuse = {}

-----------------------------------------------------------------------------
(* Helpers. *)

Key(s) == IF shared THEN "on_enter" ELSE s

Put(f, g) == fires' = (fires \ {f}) \cup {g}
Gone(f) == fires' = fires \ {f}
To(f, stage) == Put(f, [f EXCEPT !.stage = stage])

\* f has its way; c is the cause if an earlier fire comes after the last one had its way
Acts(f, c) == /\ settled' = (settled \/ f.n = made)
              /\ excuse' = excuse \cup (IF settled /\ f.n # made THEN {c} ELSE {})
Fails(f, c) == /\ excuse' = excuse \cup (IF f.n = made THEN {c} ELSE {})
               /\ UNCHANGED settled

\* dispatch_event: accepted, or rejected by the cap or a dispatcher that is not there
Offers(f) ==
  \/ /\ heard' = f.slot /\ Gone(f)
     /\ Acts(f, IF f.tries > 0 THEN "retried" ELSE "ahead")
  \/ /\ f.tries + 1 < Attempts
     /\ Put(f, [f EXCEPT !.stage = "waiting", !.tries = f.tries + 1])
     /\ UNCHANGED <<heard, settled, excuse>>
  \/ /\ f.tries + 1 = Attempts
     /\ Gone(f) /\ Fails(f, "refused") /\ UNCHANGED heard

\* _fire up to its first await
Begins(f) ==
  \/ /\ kind[f.slot] = "none"
     /\ Gone(f) /\ UNCHANGED <<heard, settled, excuse>>
  \/ /\ kind[f.slot] = "compared"
     /\ To(f, "asking") /\ UNCHANGED <<heard, settled, excuse>>
  \/ /\ kind[f.slot] = "limited" /\ Key(f.slot) \in cooling
     /\ Gone(f) /\ Fails(f, "cooled") /\ UNCHANGED heard
  \/ /\ kind[f.slot] = "limited" /\ Key(f.slot) \notin cooling
     /\ To(f, "sent") /\ UNCHANGED <<heard, settled, excuse>>
  \/ /\ kind[f.slot] = "prompt"
     /\ Offers(f)

NewFire(n, s) == [n |-> n, slot |-> s, stage |-> "new", got |-> "unknown", tries |-> 0]

\* fires of the slots of ss, created in this order
Spawns(ss) ==
  /\ made + Len(ss) <= MaxFires
  /\ made' = made + Len(ss)
  /\ fires' = fires \cup {NewFire(made + i, ss[i]) : i \in 1 .. Len(ss)}
  /\ settled' = FALSE /\ excuse' = {}

-----------------------------------------------------------------------------
(* What the state machine dispatches. *)

Enters ==
  /\ ~on /\ on' = TRUE
  /\ Spawns(<<"on_enter">>)
  /\ UNCHANGED <<row, home, heard, cooling>>

\* an exit rule, or a reconfiguration that ends the session
Exits ==
  /\ on /\ on' = FALSE
  /\ Spawns(<<"on_exit">>)
  /\ UNCHANGED <<row, home, heard, cooling>>

\* the debounce is over: its own task goes on as the fire, without a pause
DebouncedExit ==
  /\ on /\ on' = FALSE
  /\ made < MaxFires /\ made' = made + 1
  /\ fires' = fires \cup {[NewFire(made + 1, "on_exit") EXCEPT !.stage = "woken"]}
  /\ settled' = FALSE /\ excuse' = {}
  /\ UNCHANGED <<row, home, heard, cooling>>

\* MUTANT of CrossDay: the new day is begun before the old one is ended
CrossDayBackwards ==
  /\ on
  /\ Spawns(<<"on_enter", "on_exit">>)
  /\ UNCHANGED <<row, on, home, heard, cooling>>

\* the daily record rolls over while the session goes on
CrossDay ==
  /\ on
  /\ Spawns(<<"on_exit", "on_enter">>)
  /\ UNCHANGED <<row, on, home, heard, cooling>>

-----------------------------------------------------------------------------
(* The life of a fire. *)

\* the event loop is inside the debounce's task
Busy == \E f \in fires : f.stage = "woken"

\* tasks of the event loop begin in the order they were created in
Starts(f) ==
  /\ \/ f.stage = "woken"
     \/ f.stage = "new" /\ ~Busy /\ \A g \in fires : g.stage = "new" => f.n <= g.n
  /\ Begins(f)
  /\ UNCHANGED <<row, on, made, home, cooling>>

\* the next attempt, after the pause
Retries(f) ==
  /\ f.stage = "waiting" /\ Offers(f)
  /\ UNCHANGED <<row, on, made, home, cooling>>

\* the cloud looks at the property, or cannot; who sees the value it wants will not act
Looks(f) ==
  /\ f.stage = "asking"
  /\ \E g \in {home, "unknown"} :
       /\ Put(f, [f EXCEPT !.stage = "answered", !.got = g])
       /\ IF g = f.slot THEN Acts(f, "overtaken") ELSE UNCHANGED <<settled, excuse>>
  /\ UNCHANGED <<row, on, made, home, heard, cooling>>

Compares(f) ==
  /\ f.stage = "answered"
  /\ IF f.got = f.slot THEN Gone(f) ELSE To(f, "sent")
  /\ UNCHANGED <<row, on, made, home, heard, cooling, settled, excuse>>

\* the home does what it is told, also when nobody waits for its answer any more
Obeys(f) ==
  /\ f.stage \in {"sent", "lost"}
  /\ home' = f.slot /\ Acts(f, "overtaken")
  /\ IF f.stage = "sent" THEN To(f, "obeyed") ELSE Gone(f)
  /\ UNCHANGED <<row, on, made, heard, cooling>>

\* the answer: only a confirmed action starts the cooldown
Confirmed(f) ==
  /\ f.stage = "obeyed" /\ Gone(f)
  /\ cooling' = IF kind[f.slot] = "limited" THEN cooling \cup {Key(f.slot)} ELSE cooling
  /\ UNCHANGED <<row, on, made, home, heard, settled, excuse>>

\* the answer does not come
Unconfirmed(f) ==
  /\ f.stage = "obeyed" /\ Gone(f)
  /\ UNCHANGED <<row, on, made, home, heard, cooling, settled, excuse>>

\* the device is offline or refuses
Refused(f) ==
  /\ f.stage \in {"sent", "lost"} /\ Gone(f) /\ Fails(f, "refused")
  /\ UNCHANGED <<row, on, made, home, heard, cooling>>

\* the call ends by its time limit, and the command may still come through
TimesOut(f) ==
  /\ f.stage = "sent" /\ To(f, "lost")
  /\ UNCHANGED <<row, on, made, home, heard, cooling, settled, excuse>>

\* cooldown_minutes have passed
Cools(s) ==
  /\ s \in cooling /\ cooling' = cooling \ {s}
  /\ UNCHANGED <<row, on, made, fires, home, heard, settled, excuse>>

\* somebody uses the switch
Meddles(s) ==
  /\ s # home /\ home' = s /\ excuse' = excuse \cup {"meddled"}
  /\ UNCHANGED <<row, on, made, fires, heard, cooling, settled>>

Idle ==
  \/ Enters \/ Exits \/ DebouncedExit \/ CrossDay
  \/ \E f \in fires : \/ Retries(f) \/ Looks(f) \/ Compares(f) \/ Obeys(f)
                      \/ Confirmed(f) \/ Unconfirmed(f) \/ Refused(f) \/ TimesOut(f)
  \/ \E s \in Slot : Cools(s) \/ Meddles(s)

Next == (\E f \in fires : Starts(f)) \/ (~Busy /\ Idle)

Spec == Init /\ [][Next]_vars

-----------------------------------------------------------------------------
(* Properties. *)

TypeOK ==
  /\ kind \in [Slot -> Kind] /\ shared \in BOOLEAN /\ on \in BOOLEAN
  /\ made \in 0 .. MaxFires /\ fires \subseteq Fire
  /\ \A f, g \in fires : f.n = g.n => f = g
  /\ home \in Slot /\ heard \in Slot /\ cooling \subseteq Slot
  /\ settled \in BOOLEAN /\ excuse \subseteq Cause

\* the slot that was dispatched last
Due == IF on THEN "on_enter" ELSE "on_exit"

\* When nothing is under way, the home is as the state of the task wants it, or the agent
\* was told so last.  A fire that failed, a cooldown, somebody at the switch, an earlier
\* command that arrives after the last one had its way, an earlier prompt that had to be
\* offered again or an exit that fired from its own debounce are the causes why not; a
\* prompt is never late for what commands do, nor a stale look at the device or a time
\* limit a cause by itself (rule/runner.py:1499, 1606).
HomeFollowsTask ==
  fires = {} /\ made > 0 =>
    /\ kind[Due] \in {"compared", "limited"} =>
         home = Due \/ excuse \cap {"refused", "cooled", "overtaken", "meddled"} # {}
    /\ kind[Due] = "prompt" =>
         heard = Due \/ excuse \cap {"refused", "retried", "ahead"} # {}
=============================================================================
