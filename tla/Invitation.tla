----------------------------- MODULE Invitation -----------------------------
(***************************************************************************)
(* The invitation of a newly installed family to introduce itself: at the  *)
(* start of the process and after an authorization maybe_trigger looks     *)
(* whether the family is still unknown, hands one event to the dispatcher  *)
(* and waits, for a time, to hear that it was delivered; only then is the  *)
(* lifelong mark written.  The session of the event serves other turns     *)
(* too.  The process may die anywhere; the mark survives it.               *)
(*                                                                         *)
(* Bounds: MaxBoots starts of the process, MaxAhead turns of others that   *)
(* wait in the session.                                                    *)
(***************************************************************************)
EXTENDS Naturals

CONSTANTS Attempt, Attempts, Margin, TTL, MaxBoots, MaxAhead

VARIABLES
  up, boots,  \* the process runs; how often it was started
  mark,       \* the lifelong mark in the key-value store
  fired,      \* this process invites no more
  family,     \* "unready", "unknown" (ready to be invited) or "known"
  holder,     \* the caller that holds the lock and waits for the future
  waiting,    \* callers that wait for the lock
  event,      \* "none", "queued" or "sending"
  fut,        \* what the holder hears: "pending", "sent" or "unsent"
  age,        \* time since the event was handed in
  running,    \* the turn the session is sending: "idle", "other", "invitation"
  ahead,      \* turns of others in the queue of the session
  turnAge,    \* time since that turn began
  reached,    \* the platform has the turn of this event
  \* history
  invited,    \* some invitation has reached the family
  behind,     \* this event was not taken at once
  slip,       \* this process forgot an invitation: "none", "write" or "guard"
  cause       \* why an invitation may be repeated

vars == <<up, boots, mark, fired, family, holder, waiting, event, fut, age, running,
          ahead, turnAge, reached, invited, behind, slip, cause>>

session == <<running, ahead, turnAge, reached, invited>>
process == <<up, boots, mark, fired, family>>
history == <<slip, cause>>

\* the longest a turn may take, all its attempts together
Worst == Attempts * Attempt

\* MUTANT of Guard: the guard covers one attempt, not the repetitions
GuardOnce == Attempt + Margin

Guard == Worst + Margin

Horizon == IF Guard > TTL THEN Guard ELSE TTL + 1

Caller == {"start", "authorize"}

Init ==
  /\ up = FALSE /\ boots = 0 /\ mark = FALSE /\ fired = FALSE /\ family = "unready"
  /\ holder = "none" /\ waiting = {} /\ event = "none" /\ fut = "pending" /\ age = 0
  /\ running = "idle" /\ ahead = 0 /\ turnAge = 0 /\ reached = FALSE
  /\ invited = FALSE /\ behind = FALSE /\ slip = "none" /\ cause = "none"

-----------------------------------------------------------------------------
(***************************************************************************)
(* maybe_trigger.                                                          *)
(***************************************************************************)

\* MUTANT of MayInvite: what other callers did is not looked at again
MayInviteBlind == family = "unknown"

MayInvite == ~fired /\ ~mark /\ family = "unknown"

\* c has the lock: nothing to do, a check that raises, a dispatcher that
\* refuses, or the event is in the queue and c waits for its fate
Enter(c) ==
  \/ UNCHANGED <<holder, event, fut, age, behind, reached, history>>
  \/ /\ MayInvite
     /\ holder' = c
     /\ event' = "queued" /\ fut' = "pending" /\ age' = 0 /\ reached' = FALSE
     /\ behind' = (running # "idle" \/ ahead > 0)
     /\ UNCHANGED history

Call(c) ==
  IF holder = "none" /\ waiting = {}
  THEN Enter(c) /\ UNCHANGED waiting
  ELSE /\ waiting' = waiting \cup {c}
       /\ UNCHANGED <<holder, event, fut, age, behind, reached, history>>

Locked ==
  \E c \in waiting :
    /\ up /\ holder = "none"
    /\ waiting' = waiting \ {c}
    /\ Enter(c)
    /\ UNCHANGED <<process, running, ahead, turnAge, invited>>

Boot ==
  /\ ~up /\ boots < MaxBoots
  /\ up' = TRUE /\ boots' = boots + 1
  /\ Call("start")
  /\ UNCHANGED <<mark, fired, family, running, ahead, turnAge, invited>>

\* somebody authorizes; the check is started when the home has been chosen
Authorize ==
  /\ up /\ "authorize" \notin waiting \cup {holder}
  /\ Call("authorize")
  /\ UNCHANGED <<process, running, ahead, turnAge, invited>>

\* a home is chosen or given up, a person or an entry of the profile comes or goes
FamilyChanges ==
  /\ up
  /\ \E f \in {"unready", "unknown", "known"} \ {family} : family' = f
  /\ UNCHANGED <<up, boots, mark, fired, holder, waiting, event, fut, age, session,
                 behind, history>>
  /\ UNCHANGED reached

\* the guard of wait_for: the future is cancelled, whatever becomes of the event
GuardFires ==
  /\ holder # "none" /\ fut = "pending" /\ age >= Guard
  /\ fired' = TRUE /\ holder' = "none" /\ slip' = "guard"
  /\ UNCHANGED <<up, boots, mark, family, waiting, event, fut, age, session, behind, cause>>

Mark(ok) == mark' = (mark \/ (fut = "sent" /\ ok))

\* the holder hears the fate of its event; the write of the mark may fail
Hear ==
  /\ holder # "none" /\ fut # "pending"
  /\ holder' = "none"
  /\ fired' = (fired \/ fut = "sent")
  /\ \E ok \in BOOLEAN :
       /\ Mark(ok)
       /\ slip' = IF fut = "sent" /\ ~ok THEN "write" ELSE slip
  /\ UNCHANGED <<up, boots, family, waiting, event, fut, age, session, behind, cause>>

-----------------------------------------------------------------------------
(***************************************************************************)
(* The dispatcher and the platform, as the holder sees them.               *)
(***************************************************************************)

\* the event leaves the queue or its turn, its future is told v
Leaves(v) ==
  /\ event' = "none"
  /\ fut' = IF holder # "none" THEN v ELSE fut

Expired == event = "queued" /\ age > TTL

\* another event of the session: expired ones go first, then the queue may
\* have too many and the invitation may be the one to go
OtherEvent ==
  /\ up /\ ahead < MaxAhead
  /\ ahead' = ahead + 1
  /\ \/ event = "queued" /\ Leaves("unsent")
     \/ ~Expired /\ UNCHANGED <<event, fut>>
  /\ UNCHANGED <<process, holder, waiting, age, running, turnAge, reached, invited, behind,
                 history>>

TakeOther ==
  /\ up /\ running = "idle" /\ ahead > 0
  /\ ahead' = ahead - 1 /\ running' = "other" /\ turnAge' = 0
  /\ IF Expired THEN Leaves("unsent") ELSE UNCHANGED <<event, fut>>
  /\ behind' = TRUE
  /\ UNCHANGED <<process, holder, waiting, age, reached, invited, history>>

TakeInvitation ==
  /\ running = "idle" /\ event = "queued"
  /\ IF Expired THEN Leaves("unsent") /\ UNCHANGED <<running, turnAge>>
                ELSE /\ event' = "sending" /\ running' = "invitation" /\ turnAge' = 0
                     /\ UNCHANGED fut
  /\ UNCHANGED <<process, holder, waiting, age, ahead, reached, invited, behind, history>>

OtherEnds ==
  /\ running = "other" /\ running' = "idle"
  /\ UNCHANGED <<process, holder, waiting, event, fut, age, ahead, turnAge, reached, invited,
                 behind, history>>

\* the platform takes the turn; repetitions carry its key and are the same turn
PlatformStarts ==
  /\ running = "invitation" /\ ~reached
  /\ reached' = TRUE /\ invited' = TRUE /\ cause' = "none"
  /\ UNCHANGED <<process, holder, waiting, event, fut, age, running, ahead, turnAge, behind,
                 slip>>

\* ok or timeout; or no channel, all attempts failed, an error, a lost answer
SendEnds ==
  /\ running = "invitation" /\ running' = "idle"
  /\ \/ reached /\ Leaves("sent") /\ UNCHANGED cause
     \/ Leaves("unsent") /\ cause' = IF reached THEN "answer" ELSE cause
  /\ UNCHANGED <<process, holder, waiting, age, ahead, turnAge, reached, invited, behind, slip>>

\* the process dies; a request on its way may still arrive
Crash ==
  /\ up /\ up' = FALSE
  /\ fired' = FALSE /\ holder' = "none" /\ waiting' = {} /\ event' = "none"
  /\ fut' = "pending" /\ age' = 0 /\ running' = "idle" /\ ahead' = 0 /\ turnAge' = 0
  /\ reached' = FALSE /\ behind' = FALSE /\ slip' = "none"
  /\ \E arrives \in BOOLEAN :
       /\ invited' = (invited \/ (running = "invitation" /\ arrives))
       /\ cause' = CASE slip # "none" -> slip
                     [] holder # "none" /\ (reached \/ (running = "invitation" /\ arrives))
                          -> "crash"
                     [] OTHER -> cause
  /\ UNCHANGED <<boots, mark, family>>

\* time passes while nothing is due
Tick ==
  /\ ~(up /\ running = "idle" /\ (ahead > 0 \/ event = "queued"))
  /\ holder = "none" => waiting = {}
  /\ holder # "none" => fut = "pending" /\ age < Guard
  /\ running # "idle" => turnAge < Worst
  /\ turnAge' = IF running # "idle" THEN turnAge + 1 ELSE turnAge
  /\ age' = IF event # "none" /\ age < Horizon THEN age + 1 ELSE age
  /\ UNCHANGED <<process, holder, waiting, event, fut, running, ahead, reached, invited,
                 behind, history>>

Next ==
  \/ Locked \/ Boot \/ Authorize \/ FamilyChanges \/ GuardFires \/ Hear
  \/ OtherEvent \/ TakeOther \/ TakeInvitation \/ OtherEnds \/ PlatformStarts \/ SendEnds
  \/ Crash \/ Tick

Spec == Init /\ [][Next]_vars

-----------------------------------------------------------------------------
(***************************************************************************)
(* Properties.                                                             *)
(***************************************************************************)

\* Every variable has its type, and only a running process holds the lock, has
\* an event or a turn (home_profile/onboarding_trigger.py:101).
TypeOK ==
  /\ up \in BOOLEAN /\ boots \in 0 .. MaxBoots /\ mark \in BOOLEAN /\ fired \in BOOLEAN
  /\ family \in {"unready", "unknown", "known"}
  /\ holder \in Caller \cup {"none"} /\ waiting \subseteq Caller
  /\ event \in {"none", "queued", "sending"} /\ fut \in {"pending", "sent", "unsent"}
  /\ age \in 0 .. Horizon /\ running \in {"idle", "other", "invitation"}
  /\ ahead \in 0 .. MaxAhead /\ turnAge \in 0 .. Worst
  /\ reached \in BOOLEAN /\ invited \in BOOLEAN /\ behind \in BOOLEAN
  /\ slip \in {"none", "write", "guard"}
  /\ cause \in {"none", "write", "guard", "crash", "answer"}
  /\ ~up => holder = "none" /\ waiting = {} /\ event = "none" /\ running = "idle"
  /\ running = "invitation" <=> event = "sending"

\* The family that was invited is not invited again, by this process or a later one,
\* unless the process died before it had written the mark, the write failed, the
\* guard gave up waiting, or the answer of the platform was lost
\* (onboarding_trigger.py:99: the lock makes check, send and mark one).
InvitedOnce ==
  [][event = "none" /\ event' = "queued" /\ invited => cause # "none"]_vars

\* The mark, which silences the invitation for ever, is only there when an
\* invitation reached the family (onboarding_trigger.py:18: written after a real
\* delivery only).
MarkIsTrue == mark => invited

\* An event that is taken at once is never given up by the guard, however many
\* attempts its turn needs (onboarding_trigger.py:51: the guard exceeds the worst
\* case from taking the batch to resolving).  One that had to wait may be.
GuardOnlyBehind == [][slip' = "guard" /\ slip # "guard" => behind]_vars
=============================================================================
