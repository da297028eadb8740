---------------------------- MODULE HouseholdProofs ----------------------------
(***************************************************************************)
(* Theorems about Invitation, Arrivals and SubscriptionSync, for all       *)
(* values of their constants, and about the run that takes them together   *)
(* with the devices.                                                       *)
(***************************************************************************)
EXTENDS MCHousehold, Integers, Sequences, TLAPS

(***************************************************************************)
(* The invitation of a new family                                          *)
(***************************************************************************)

InvitationParameters ==
  /\ Attempt \in Nat \ {0} /\ Attempts \in Nat \ {0} /\ Margin \in Nat \ {0}
  /\ TTL \in Nat /\ MaxBoots \in Nat /\ MaxAhead \in Nat

-----------------------------------------------------------------------------
(* The inductive invariant. *)

\* who waits for an answer has an event or the answer
Waits == holder # "none" => (event # "none" <=> fut = "pending")

\* nobody listens to an event that the guard gave up
Abandoned == event # "none" /\ holder = "none" => fired /\ slip = "guard"

\* what is called sent was taken by the platform, and that is an invitation
Sent == (holder # "none" /\ fut = "sent" => reached) /\ (reached => invited)

\* an invitation that nothing excuses and no mark records is one this process knows of:
\* it has said so, or its caller is about to
Remembered ==
  invited /\ cause = "none" /\ ~mark =>
    /\ up
    /\ \/ fired /\ slip # "none"
       \/ holder # "none" /\ reached /\ (event = "sending" \/ fut = "sent")

\* an event that did not have to wait is not older than its turn
Prompt ==
  holder # "none" /\ fut = "pending" /\ ~behind =>
    \/ up /\ event = "queued" /\ running = "idle" /\ age = 0
    \/ event = "sending" /\ age <= turnAge

InvitationInv == TypeOK /\ Waits /\ Abandoned /\ Sent /\ Remembered /\ Prompt /\ MarkIsTrue

LEMMA Numbers ==
  ASSUME InvitationParameters
  PROVE  Worst \in Nat /\ Guard \in Nat /\ Guard > Worst /\ Horizon \in Nat /\ Horizon >= Guard
<1>1. Worst \in Nat
  BY DEF InvitationParameters, Worst
<1>2. Guard \in Nat /\ Guard > Worst
  BY <1>1 DEF InvitationParameters, Guard
<1>. QED
  BY <1>1, <1>2 DEF InvitationParameters, Horizon

LEMMA InvInit == ASSUME InvitationParameters, Init PROVE InvitationInv
<1>1. MaxBoots \in Nat /\ MaxAhead \in Nat /\ Worst \in Nat /\ Horizon \in Nat
  BY Numbers DEF InvitationParameters
<1>2. /\ boots \in 0 .. MaxBoots /\ age \in 0 .. Horizon /\ ahead \in 0 .. MaxAhead
      /\ turnAge \in 0 .. Worst
  BY <1>1 DEF Init
<1>3. TypeOK
  BY <1>2, Zenon DEF Init, TypeOK
<1>. QED
  BY <1>3 DEF Init, InvitationInv, Waits, Abandoned, Sent, Remembered, Prompt, MarkIsTrue

-----------------------------------------------------------------------------
(* maybe_trigger. *)

\* What the invariant says beyond types.
Meaning == Waits /\ Abandoned /\ Sent /\ Remembered /\ Prompt /\ MarkIsTrue

\* A caller enters: whoever may invite finds no event, and no invitation without excuse.
LEMMA EnterStep ==
  ASSUME InvitationParameters, InvitationInv, NEW c \in Caller, Enter(c), holder = "none", up',
         UNCHANGED <<mark, fired, running, ahead, turnAge, invited>>
  PROVE  Meaning'
<1>. USE DEF InvitationInv, Meaning
<1>1. CASE UNCHANGED <<holder, event, fut, age, behind, reached, history>>
  BY <1>1 DEF TypeOK, Waits, Abandoned, Sent, Remembered, Prompt, MarkIsTrue, history
<1>2. CASE MayInvite /\ Enter(c) /\ ~UNCHANGED <<holder, event, fut, age, behind, reached, history>>
  <2>1. ~invited \/ cause # "none"
    BY <1>2 DEF Remembered, MayInvite
  <2>2. c # "none"
    BY DEF Caller
  <2>. QED
    BY <1>2, <2>1, <2>2
    DEF Enter, MayInvite, TypeOK, Waits, Abandoned, Sent, Remembered, Prompt, MarkIsTrue, history
<1>. QED
  BY <1>1, <1>2 DEF Enter

LEMMA EnterTypes ==
  ASSUME InvitationParameters, TypeOK, NEW c \in Caller, Enter(c), holder = "none"
  PROVE  /\ holder' \in Caller \cup {"none"} /\ event' \in {"none", "queued", "sending"}
         /\ fut' \in {"pending", "sent", "unsent"} /\ age' \in 0 .. Horizon
         /\ reached' \in BOOLEAN /\ behind' \in BOOLEAN
         /\ slip' = slip /\ cause' = cause
         /\ event' # event => event' = "queued" /\ MayInvite
<1>1. 0 \in 0 .. Horizon
  BY Numbers
<1>2. CASE UNCHANGED <<holder, event, fut, age, behind, reached, history>>
  BY <1>2 DEF TypeOK, history
<1>3. CASE ~UNCHANGED <<holder, event, fut, age, behind, reached, history>>
  <2>1. /\ MayInvite /\ holder' = c /\ event' = "queued" /\ fut' = "pending" /\ age' = 0
        /\ reached' = FALSE /\ behind' = (running # "idle" \/ ahead > 0)
        /\ UNCHANGED <<slip, cause>>
    BY <1>3 DEF Enter, history
  <2>2. behind' \in BOOLEAN
    BY <2>1, Zenon
  <2>. QED
    BY <1>1, <2>1, <2>2
<1>. QED
  BY <1>2, <1>3

LEMMA CallStep ==
  ASSUME InvitationParameters, InvitationInv, NEW c \in Caller, Call(c), up',
         UNCHANGED <<mark, fired, running, ahead, turnAge, invited>>
  PROVE  Meaning'
<1>1. CASE holder = "none" /\ waiting = {}
  <2>1. Enter(c)
    BY <1>1 DEF Call
  <2>. QED
    BY <1>1, <2>1, EnterStep DEF InvitationInv
<1>2. CASE ~(holder = "none" /\ waiting = {})
  BY <1>2 DEF Call, InvitationInv, Meaning, TypeOK, Waits, Abandoned, Sent, Remembered, Prompt,
              MarkIsTrue, history
<1>. QED
  BY <1>1, <1>2

LEMMA MeaningStep ==
  ASSUME InvitationParameters, InvitationInv, Next
  PROVE  Meaning'
<1>. USE DEF process, session, history
<1>1. CASE Locked
  BY <1>1, EnterStep DEF Locked, InvitationInv, TypeOK
<1>2. CASE Boot
  BY <1>2, CallStep DEF Boot, Caller
<1>3. CASE Authorize
  BY <1>3, CallStep DEF Authorize, Caller
<1>4. CASE FamilyChanges
  BY <1>4 DEF FamilyChanges, InvitationInv, Meaning, Waits, Abandoned, Sent, Remembered, Prompt, MarkIsTrue
<1>5. CASE GuardFires
  BY <1>5 DEF GuardFires, InvitationInv, Meaning, TypeOK, Waits, Abandoned, Sent, Remembered, Prompt, MarkIsTrue
<1>6. CASE Hear
  BY <1>6 DEF Hear, Mark, InvitationInv, Meaning, TypeOK, Waits, Abandoned, Sent, Remembered, Prompt, MarkIsTrue
<1>7. CASE OtherEvent
  BY <1>7 DEF OtherEvent, Leaves, InvitationInv, Meaning, TypeOK, Waits, Abandoned, Sent, Remembered, Prompt, MarkIsTrue
<1>8. CASE TakeOther
  BY <1>8 DEF TakeOther, Leaves, Expired, InvitationInv, Meaning, TypeOK, Waits, Abandoned, Sent, Remembered, Prompt, MarkIsTrue
<1>9. CASE TakeInvitation
  BY <1>9 DEF TakeInvitation, Leaves, Expired, InvitationInv, Meaning, TypeOK, Waits, Abandoned, Sent, Remembered, Prompt, MarkIsTrue
<1>10. CASE OtherEnds
  BY <1>10 DEF OtherEnds, InvitationInv, Meaning, TypeOK, Waits, Abandoned, Sent, Remembered, Prompt, MarkIsTrue
<1>11. CASE PlatformStarts
  BY <1>11 DEF PlatformStarts, InvitationInv, Meaning, TypeOK, Waits, Abandoned, Sent, Remembered, Prompt, MarkIsTrue
<1>12. CASE SendEnds
  BY <1>12 DEF SendEnds, Leaves, InvitationInv, Meaning, TypeOK, Waits, Abandoned, Sent, Remembered, Prompt, MarkIsTrue
<1>13. CASE Crash
  BY <1>13 DEF Crash, InvitationInv, Meaning, TypeOK, Waits, Abandoned, Sent, Remembered, Prompt, MarkIsTrue
<1>14. CASE Tick
  BY <1>14, Numbers DEF Tick, InvitationInv, Meaning, TypeOK, Waits, Abandoned, Sent, Remembered, Prompt, MarkIsTrue
<1>. QED
  BY <1>1, <1>2, <1>3, <1>4, <1>5, <1>6, <1>7, <1>8, <1>9, <1>10, <1>11, <1>12, <1>13, <1>14
  DEF Next

-----------------------------------------------------------------------------
(* Types. *)

\* What a call changes keeps its type, and takes no turn away.
LEMMA CallTypes ==
  ASSUME InvitationParameters, InvitationInv, NEW c \in Caller, Call(c) \/ (Enter(c) /\ holder = "none")
  PROVE  /\ holder' \in Caller \cup {"none"} /\ event' \in {"none", "queued", "sending"}
         /\ fut' \in {"pending", "sent", "unsent"} /\ age' \in 0 .. Horizon
         /\ reached' \in BOOLEAN /\ behind' \in BOOLEAN
         /\ slip' = slip /\ cause' = cause
         /\ event' = "sending" <=> event = "sending"
<1>1. CASE Enter(c) /\ holder = "none"
  <2>1. event' # event => event # "sending" /\ event' # "sending"
    BY <1>1, EnterTypes DEF InvitationInv, Abandoned, MayInvite
  <2>. QED
    BY <1>1, <2>1, EnterTypes DEF InvitationInv
<1>2. CASE Call(c) /\ ~(Enter(c) /\ holder = "none")
  BY <1>2 DEF Call, InvitationInv, TypeOK, history
<1>. QED
  BY <1>1, <1>2

LEMMA TypesStep ==
  ASSUME InvitationParameters, InvitationInv, Next
  PROVE  TypeOK'
<1>. USE DEF process, session, history
<1>0. /\ Worst \in Nat /\ Horizon \in Nat /\ MaxBoots \in Nat /\ MaxAhead \in Nat
      /\ 0 \in 0 .. Horizon /\ 0 \in 0 .. Worst /\ 0 \in 0 .. MaxAhead
  BY Numbers DEF InvitationParameters
<1>. TypeOK
  BY DEF InvitationInv
<1>1. CASE Locked
  BY <1>1, CallTypes DEF Locked, TypeOK
<1>2. CASE Boot
  <2>1. boots' \in 0 .. MaxBoots
    BY <1>0, <1>2 DEF Boot, TypeOK
  <2>2. "start" \in Caller /\ Call("start") /\ up'
    BY <1>2 DEF Boot, Caller
  <2>3. waiting' \subseteq Caller
    BY <2>2 DEF Call, TypeOK
  <2>. QED
    BY <1>2, <2>1, <2>2, <2>3, CallTypes DEF Boot, TypeOK
<1>3. CASE Authorize
  <2>1. "authorize" \in Caller /\ Call("authorize") /\ up' /\ waiting' \subseteq Caller
    BY <1>3 DEF Authorize, Call, Caller, TypeOK
  <2>. QED
    BY <1>3, <2>1, CallTypes DEF Authorize, TypeOK
<1>4. CASE FamilyChanges
  BY <1>4 DEF FamilyChanges, TypeOK
<1>5. CASE GuardFires
  BY <1>5 DEF GuardFires, TypeOK
<1>6. CASE Hear
  <2>1. mark' \in BOOLEAN /\ fired' \in BOOLEAN
    BY <1>6, Zenon DEF Hear, Mark
  <2>. QED
    BY <1>6, <2>1 DEF Hear, TypeOK
<1>7. CASE OtherEvent
  BY <1>0, <1>7 DEF OtherEvent, Leaves, TypeOK
<1>8. CASE TakeOther
  BY <1>0, <1>8 DEF TakeOther, Leaves, Expired, TypeOK
<1>9. CASE TakeInvitation
  BY <1>0, <1>9 DEF TakeInvitation, Leaves, Expired, TypeOK
<1>10. CASE OtherEnds
  BY <1>10 DEF OtherEnds, TypeOK
<1>11. CASE PlatformStarts
  BY <1>11 DEF PlatformStarts, TypeOK
<1>12. CASE SendEnds
  BY <1>12 DEF SendEnds, Leaves, TypeOK
<1>13. CASE Crash
  <2>1. invited' \in BOOLEAN
    BY <1>13, Zenon DEF Crash
  <2>2. cause' \in {"none", "write", "guard", "crash", "answer"}
    BY <1>13 DEF Crash, TypeOK
  <2>. QED
    BY <1>0, <1>13, <2>1, <2>2 DEF Crash, TypeOK
<1>14. CASE Tick
  BY <1>0, <1>14 DEF Tick, TypeOK
<1>. QED
  BY <1>1, <1>2, <1>3, <1>4, <1>5, <1>6, <1>7, <1>8, <1>9, <1>10, <1>11, <1>12, <1>13, <1>14
  DEF Next

LEMMA InvNext ==
  ASSUME InvitationParameters, InvitationInv, [Next]_vars
  PROVE  InvitationInv'
<1>1. CASE Next
  BY <1>1, MeaningStep, TypesStep DEF InvitationInv, Meaning
<1>2. CASE UNCHANGED vars
  BY <1>2 DEF vars, InvitationInv, TypeOK, Waits, Abandoned, Sent, Remembered, Prompt, MarkIsTrue
<1>. QED
  BY <1>1, <1>2

-----------------------------------------------------------------------------
(***************************************************************************)
(* The theorems.                                                           *)
(***************************************************************************)

\* The inductive invariant (onboarding_trigger.py:115: maybe_trigger).
THEOREM InvitationInvariance == ASSUME InvitationParameters PROVE Spec => []InvitationInv
<1>1. Init => InvitationInv
  BY InvInit
<1>2. InvitationInv /\ [Next]_vars => InvitationInv'
  BY InvNext
<1>. QED
  BY <1>1, <1>2, PTL DEF Spec

\* Every variable keeps its type.
THEOREM InvitationTypeCorrect == ASSUME InvitationParameters PROVE Spec => []TypeOK
<1>1. InvitationInv => TypeOK
  BY DEF InvitationInv
<1>. QED
  BY <1>1, InvitationInvariance, PTL

\* The mark is only there when an invitation reached the family.
THEOREM MarkTellsTheTruth == ASSUME InvitationParameters PROVE Spec => []MarkIsTrue
<1>1. InvitationInv => MarkIsTrue
  BY DEF InvitationInv
<1>. QED
  BY <1>1, InvitationInvariance, PTL

\* No second invitation without one of the four causes: who may hand one in is the
\* only caller, has not fired and finds no mark, so an earlier one is excused.
THEOREM NoSecondInvitation == ASSUME InvitationParameters PROVE Spec => InvitedOnce
<1>1. ASSUME InvitationInv, [Next]_vars, event = "none", event' = "queued", invited
      PROVE  cause # "none"
  <2>1. Locked \/ Boot \/ Authorize
    BY <1>1
    DEF Next, vars, FamilyChanges, GuardFires, Hear, OtherEvent, TakeOther, TakeInvitation,
        OtherEnds, PlatformStarts, SendEnds, Crash, Tick, Leaves
  <2>2. ASSUME NEW c, Call(c) PROVE Enter(c) /\ holder = "none"
    BY <1>1, <2>2 DEF Call
  <2>3. \E c : Enter(c) /\ holder = "none"
    BY <2>1, <2>2 DEF Locked, Boot, Authorize
  <2>4. MayInvite /\ holder = "none"
    BY <1>1, <2>3 DEF Enter
  <2>. QED
    BY <1>1, <2>4 DEF InvitationInv, Remembered, MayInvite
<1>2. InvitationInv /\ [Next]_vars => [event = "none" /\ event' = "queued" /\ invited => cause # "none"]_vars
  BY <1>1
<1>. QED
  BY <1>2, InvitationInvariance, PTL DEF Spec, InvitedOnce

\* The guard does not give up an event that was taken at once, whatever the lengths of
\* attempts and margin: such an event is no older than its turn, which ends by Worst.
THEOREM GuardIsLongEnough == ASSUME InvitationParameters PROVE Spec => GuardOnlyBehind
<1>1. ASSUME InvitationInv, [Next]_vars, slip' = "guard", slip # "guard"
      PROVE  behind
  <2>1. GuardFires
    <3>1. ASSUME NEW c \in Caller, Enter(c) \/ Call(c) PROVE slip' = slip
      BY <3>1 DEF Enter, Call, history
    <3>2. ~(Locked \/ Boot \/ Authorize)
      BY <1>1, <3>1 DEF Locked, Boot, Authorize, Caller, InvitationInv, TypeOK
    <3>. QED
      BY <1>1, <3>2
      DEF Next, vars, FamilyChanges, Hear, OtherEvent, TakeOther, TakeInvitation, OtherEnds,
          PlatformStarts, SendEnds, Crash, Tick, history
  <2>2. SUFFICES ASSUME ~behind PROVE FALSE
    BY DEF InvitationInv, TypeOK
  <2>3. age \in Nat /\ turnAge \in Nat /\ turnAge <= Worst
    BY <1>1, Numbers DEF InvitationInv, TypeOK
  <2>4. age <= Worst
    BY <1>1, <2>1, <2>2, <2>3, Numbers DEF GuardFires, InvitationInv, Prompt
  <2>. QED
    BY <2>1, <2>3, <2>4, Numbers DEF GuardFires
<1>2. InvitationInv /\ [Next]_vars => [slip' = "guard" /\ slip # "guard" => behind]_vars
  BY <1>1
<1>. QED
  BY <1>2, InvitationInvariance, PTL DEF Spec, GuardOnlyBehind

(***************************************************************************)
(* The greeting of a device that arrives                                   *)
(***************************************************************************)

\* Durations and bounds are numbers, a push is on its way for less than a debounce, and
\* a device without a home is in no managed one.
GreetParameters ==
  /\ Debounce \in Nat \ {0} /\ MaxSkew \in Nat /\ MaxSkew < Debounce
  /\ MaxFire \in Nat /\ MaxTrips \in Nat
  /\ "away" \notin Managed

\* Nothing that excuses a missed greeting has happened since the device arrived.
Unexcused == excuse \cap {"failed", "refused", "lately"} = {}

\* A listener that will greet: it has not asked yet, or got an answer made after the
\* device arrived; and nobody else is about to overwrite the list with an older one.
WillGreet(f) ==
  /\ f.greet
  /\ \/ f.stage = "asked"
     \/ f.stage = "answered" /\ f.got \in Managed
     \/ /\ f.stage = "listed" /\ cached \in Managed
        /\ \A g \in fires : g.stage = "answered" => g.got \in Managed

\* Something is on its way that will greet the device.
UnderWay ==
  \/ wire["bind"] # Greet!Off \/ wire["movein"] # Greet!Off
  \/ timer["bind"] # Greet!Off \/ pending
  \/ \E f \in fires : WillGreet(f)

\* An arrival that was not greeted yet is on its way to a greeting.
Owed == arrived /\ greeted = 0 /\ Unexcused => UnderWay

GreetInv == Greet!TypeOK /\ (arrived => home \in Managed) /\ Owed

-----------------------------------------------------------------------------
(* Type correctness. *)

LEMMA TypeInit == ASSUME GreetParameters PROVE Greet!Init => Greet!TypeOK
<1>. SUFFICES ASSUME Greet!Init PROVE Greet!TypeOK
  OBVIOUS
<1>1. wire \in [Greet!Push -> Greet!Off .. MaxSkew] /\ timer \in [Greet!Chain -> Greet!Off .. Debounce]
  BY DEF Greet!Init, GreetParameters, Greet!Off
<1>2. recent \in 0 .. Greet!Window /\ moves \in 0 .. MaxTrips
  BY DEF Greet!Init, GreetParameters, Greet!Window
<1>3. fires \subseteq Greet!Fire /\ \A f, g \in fires : f.stage = "answered" /\ g.stage = "answered" => f = g
  BY DEF Greet!Init
<1>4. home \in Greet!Home \cup {"away"} /\ cached \in Greet!Home \cup {"away"} /\ greeted \in 0 .. 2
  BY DEF Greet!Init
<1>5. pending = FALSE /\ arrived = FALSE /\ quiet = TRUE /\ excuse = {}
  BY DEF Greet!Init
<1>. QED
  BY <1>1, <1>2, <1>3, <1>4, <1>5 DEF Greet!TypeOK

LEMMA GoesType ==
  ASSUME GreetParameters, Greet!TypeOK, NEW h \in Greet!Home \cup {"away"}, NEW P \in SUBSET Greet!Push, Greet!Goes(h, P)
  PROVE  Greet!TypeOK'
<1>1. /\ UNCHANGED <<cached, timer, pending, fires, recent>>
      /\ home' = h /\ moves' \in 0 .. MaxTrips
      /\ wire' = [p \in Greet!Push |-> IF p \in P THEN 0 ELSE wire[p]]
      /\ arrived' \in BOOLEAN /\ quiet' \in BOOLEAN /\ greeted' \in 0 .. 2
      /\ excuse' \subseteq {"burst", "failed", "slow", "refused", "lately"}
  <2>1. moves' \in 0 .. MaxTrips
    BY DEF Greet!Goes, Greet!TypeOK, GreetParameters
  <2>2. UNCHANGED <<arrived, quiet, greeted, excuse>>
          \/ (arrived' \in BOOLEAN /\ quiet' \in BOOLEAN /\ greeted' = 0 /\ excuse' = {})
    <3>1. CASE h \in Managed /\ home \in Managed
      BY <3>1 DEF Greet!Goes
    <3>2. CASE ~(h \in Managed /\ home \in Managed)
      <4> DEFINE a == h \in Managed
                 b == Greet!Still /\ recent = Greet!Window
      <4>1. a \in BOOLEAN /\ b \in BOOLEAN
        OBVIOUS
      <4>2. arrived' = a /\ quiet' = b /\ greeted' = 0 /\ excuse' = {}
        BY <3>2 DEF Greet!Goes
      <4>. HIDE DEF a, b
      <4>. QED  BY <4>1, <4>2
    <3>. QED  BY <3>1, <3>2
  <2>3. arrived' \in BOOLEAN /\ quiet' \in BOOLEAN /\ greeted' \in 0 .. 2
    BY <2>2 DEF Greet!TypeOK
  <2>. QED  BY <2>1, <2>2, <2>3 DEF Greet!Goes, Greet!TypeOK
<1>2. wire' \in [Greet!Push -> Greet!Off .. MaxSkew]
  BY <1>1 DEF Greet!TypeOK, GreetParameters, Greet!Off
<1>3. wire["movein"] # Greet!Off => wire'["movein"] # Greet!Off
  BY <1>1 DEF Greet!Off, Greet!Push
<1>. QED
  BY <1>1, <1>2, <1>3 DEF Greet!TypeOK

LEMMA ArrivesType ==
  ASSUME GreetParameters, Greet!TypeOK, NEW p \in Greet!Push, Greet!Arrives(p)
  PROVE  Greet!TypeOK'
<1> DEFINE c == IF p = "bind" THEN "bind" ELSE "meta"
<1>1. /\ wire' = [wire EXCEPT ![p] = Greet!Off]
      /\ timer' = [timer EXCEPT ![c] = Debounce]
      /\ pending' = (pending \/ p = "movein")
      /\ excuse' \subseteq excuse \cup {"burst"}
      /\ UNCHANGED <<cached, fires, recent, greeted, Greet!world>>
  BY DEF Greet!Arrives, Greet!Armed
<1>2. wire' \in [Greet!Push -> Greet!Off .. MaxSkew] /\ timer' \in [Greet!Chain -> Greet!Off .. Debounce]
  BY <1>1 DEF Greet!TypeOK, GreetParameters, Greet!Off, Greet!Chain, Greet!Push
<1>3. pending' => wire'["movein"] # Greet!Off \/ timer'["meta"] # Greet!Off
  <2>1. CASE p = "movein"
    BY <1>1, <2>1 DEF Greet!TypeOK, GreetParameters, Greet!Off, Greet!Chain
  <2>2. CASE p # "movein"
    BY <1>1, <2>2 DEF Greet!TypeOK, GreetParameters, Greet!Off, Greet!Chain, Greet!Push
  <2>. QED  BY <2>1, <2>2
<1>. QED
  BY <1>1, <1>2, <1>3 DEF Greet!TypeOK, Greet!world

LEMMA SettlesType ==
  ASSUME GreetParameters, Greet!TypeOK, NEW c \in Greet!Chain, Greet!Settles(c)
  PROVE  Greet!TypeOK'
<1> DEFINE f == [chain |-> c, stage |-> "asked", age |-> 0, got |-> "away",
                 greet |-> c = "bind" \/ pending]
<1>1. /\ timer' = [timer EXCEPT ![c] = Greet!Off]
      /\ fires' = fires \cup {f}
      /\ pending' = (pending /\ c # "meta")
      /\ UNCHANGED <<cached, wire, recent, greeted, excuse, Greet!world>>
  BY DEF Greet!Settles
<1>2. f \in Greet!Fire /\ f.stage = "asked"
  BY DEF Greet!Fire, Greet!TypeOK, GreetParameters
<1>. HIDE DEF f
<1>3. timer' \in [Greet!Chain -> Greet!Off .. Debounce]
  BY <1>1 DEF Greet!TypeOK, GreetParameters, Greet!Off
<1>4. pending' => wire'["movein"] # Greet!Off \/ timer'["meta"] # Greet!Off
  BY <1>1 DEF Greet!TypeOK, Greet!Chain
<1>. QED
  BY <1>1, <1>2, <1>3, <1>4 DEF Greet!TypeOK, Greet!world

\* A listener goes on: it keeps its type, and only one is between answer and list.
LEMMA FireType ==
  ASSUME GreetParameters, Greet!TypeOK, NEW f \in fires,
         Greet!Answered(f) \/ Greet!RefreshFails(f) \/ Greet!Listed(f) \/ Greet!Finishes(f)
  PROVE  Greet!TypeOK'
<1>1. f \in Greet!Fire
  BY DEF Greet!TypeOK
<1>2. ASSUME NEW g \in Greet!Fire, fires' = (fires \ {f}) \cup {g},
             g.stage = "answered" => \A x \in fires : x.stage # "answered"
      PROVE  /\ fires' \subseteq Greet!Fire
             /\ \A x, y \in fires' : x.stage = "answered" /\ y.stage = "answered" => x = y
  BY <1>2 DEF Greet!TypeOK
<1>3. CASE Greet!Answered(f)
  <2> DEFINE g == [f EXCEPT !.stage = "answered", !.got = home]
  <2>1. g \in Greet!Fire
    BY <1>1 DEF Greet!Fire, Greet!TypeOK
  <2>. HIDE DEF g
  <2>2. fires' = (fires \ {f}) \cup {g} /\ \A x \in fires : x.stage # "answered"
    BY <1>3 DEF Greet!Answered, Greet!Becomes, g
  <2>. QED
    BY <1>2, <1>3, <2>1, <2>2 DEF Greet!Answered, Greet!TypeOK, Greet!world
<1>4. CASE Greet!RefreshFails(f)
  <2> DEFINE g == [f EXCEPT !.stage = "listed"]
  <2>1. g \in Greet!Fire /\ g.stage = "listed"
    BY <1>1 DEF Greet!Fire
  <2>. HIDE DEF g
  <2>2. fires' = (fires \ {f}) \cup {g}
    BY <1>4 DEF Greet!RefreshFails, Greet!Becomes, g
  <2>. QED
    BY <1>2, <1>4, <2>1, <2>2 DEF Greet!RefreshFails, Greet!TypeOK, Greet!world
<1>5. CASE Greet!Listed(f)
  <2> DEFINE g == [f EXCEPT !.stage = "listed", !.got = "away"]
  <2>1. g \in Greet!Fire /\ g.stage = "listed" /\ f.got \in Greet!Home \cup {"away"}
    BY <1>1 DEF Greet!Fire
  <2>. HIDE DEF g
  <2>2. fires' = (fires \ {f}) \cup {g}
    BY <1>5 DEF Greet!Listed, Greet!Becomes, g
  <2>. QED
    BY <1>2, <1>5, <2>1, <2>2 DEF Greet!Listed, Greet!TypeOK, Greet!world
<1>6. CASE Greet!Finishes(f)
  <2>1. recent' \in {recent, 0} /\ greeted' \in {greeted, greeted + 1} /\ greeted' \in 0 .. 2
    BY <1>6 DEF Greet!Finishes, Greet!TypeOK
  <2>2. excuse' \subseteq {"burst", "failed", "slow", "refused", "lately"}
    BY <1>6 DEF Greet!Finishes, Greet!TypeOK
  <2>3. recent' \in 0 .. Greet!Window
    BY <2>1 DEF Greet!TypeOK, Greet!Window, GreetParameters
  <2>4. fires' \subseteq fires /\ UNCHANGED <<cached, wire, timer, pending, Greet!world>>
    BY <1>6 DEF Greet!Finishes, Greet!Over
  <2>. QED
    BY <2>1, <2>2, <2>3, <2>4 DEF Greet!TypeOK, Greet!world
<1>. QED
  BY <1>3, <1>4, <1>5, <1>6

LEMMA TickType ==
  ASSUME GreetParameters, Greet!TypeOK, Greet!Tick
  PROVE  Greet!TypeOK'
<1>1. wire' \in [Greet!Push -> Greet!Off .. MaxSkew]
  <2>1. \A p \in Greet!Push : wire[p] < MaxSkew /\ wire[p] \in Greet!Off .. MaxSkew
    BY DEF Greet!Tick, Greet!TypeOK
  <2>. QED  BY <2>1 DEF Greet!Tick, GreetParameters, Greet!Off
<1>2. timer' \in [Greet!Chain -> Greet!Off .. Debounce]
  <2>1. \A c \in Greet!Chain : timer[c] # 0 /\ timer[c] \in Greet!Off .. Debounce
    BY DEF Greet!Tick, Greet!TypeOK
  <2>. QED  BY <2>1 DEF Greet!Tick, GreetParameters, Greet!Off
<1>3. fires' \subseteq Greet!Fire
  <2>. SUFFICES ASSUME NEW f \in fires PROVE [f EXCEPT !.age = f.age + 1] \in Greet!Fire
    BY DEF Greet!Tick
  <2>1. f \in Greet!Fire /\ f.age < MaxFire
    BY DEF Greet!Tick, Greet!TypeOK
  <2>2. f.age + 1 \in 0 .. MaxFire
    BY <2>1 DEF Greet!Fire, GreetParameters
  <2>. QED  BY <2>1, <2>2 DEF Greet!Fire
<1>4. \A x, y \in fires' : x.stage = "answered" /\ y.stage = "answered" => x = y
  <2> DEFINE Aged(f) == [f EXCEPT !.age = f.age + 1]
  <2>1. \A f \in fires : Aged(f).stage = f.stage
    BY DEF Greet!TypeOK, Greet!Fire
  <2>2. \A f, g \in fires : f.stage = "answered" /\ g.stage = "answered" => f = g
    BY DEF Greet!TypeOK
  <2>3. fires' = {Aged(f) : f \in fires}
    BY DEF Greet!Tick
  <2>. HIDE DEF Aged
  <2>. QED  BY <2>1, <2>2, <2>3
<1>5. recent' \in 0 .. Greet!Window
  BY DEF Greet!Tick, Greet!TypeOK, Greet!Window, GreetParameters
<1>6. pending' => wire'["movein"] # Greet!Off \/ timer'["meta"] # Greet!Off
  BY DEF Greet!Tick, Greet!TypeOK, Greet!Off, Greet!Push, Greet!Chain
<1>. QED
  BY <1>1, <1>2, <1>3, <1>4, <1>5, <1>6 DEF Greet!Tick, Greet!TypeOK, Greet!world

\* What the device does: it goes to h, and P is pushed.  An arrival is pushed by bind or
\* by a move in, and neither is pushed of a device that stays in managed homes.
LEMMA MovesAreGoes ==
  ASSUME GreetParameters, Greet!Bound \/ Greet!Unbound \/ Greet!Moved \/ Greet!Renamed, Greet!TypeOK
  PROVE  \E h \in Greet!Home \cup {"away"}, P \in SUBSET Greet!Push :
           /\ Greet!Goes(h, P)
           /\ h \in Managed /\ home \notin Managed => "bind" \in P \/ "movein" \in P \/ h = home
           /\ h \in Managed /\ home \in Managed => "bind" \notin P /\ "movein" \notin P
<1>1. CASE Greet!Bound
  BY <1>1 DEF Greet!Bound, Greet!Push, GreetParameters
<1>2. CASE Greet!Unbound
  BY <1>2 DEF Greet!Unbound, Greet!Push, GreetParameters
<1>3. CASE Greet!Moved
  BY <1>3 DEF Greet!Moved, Greet!MovesIn, Greet!Push
<1>4. CASE Greet!Renamed
  <2>1. Greet!Goes(home, {"rename"}) /\ home \in Greet!Home \cup {"away"} /\ {"rename"} \in SUBSET Greet!Push
    BY <1>4 DEF Greet!Renamed, Greet!Push, Greet!TypeOK
  <2>. QED  BY <2>1
<1>. QED
  BY <1>1, <1>2, <1>3, <1>4

LEMMA TypeStep == ASSUME GreetParameters PROVE Greet!TypeOK /\ [Greet!Next]_(Greet!vars) => Greet!TypeOK'
<1>. SUFFICES ASSUME Greet!TypeOK, [Greet!Next]_(Greet!vars) PROVE Greet!TypeOK'
  OBVIOUS
<1>1. CASE Greet!Bound \/ Greet!Unbound \/ Greet!Moved \/ Greet!Renamed
  BY <1>1, MovesAreGoes, GoesType
<1>2. ASSUME NEW p \in Greet!Push, Greet!Arrives(p)
      PROVE  Greet!TypeOK'
  BY <1>2, ArrivesType
<1>3. ASSUME NEW c \in Greet!Chain, Greet!Settles(c)
      PROVE  Greet!TypeOK'
  BY <1>3, SettlesType
<1>4. ASSUME NEW f \in fires, Greet!Answered(f) \/ Greet!RefreshFails(f) \/ Greet!Listed(f) \/ Greet!Finishes(f)
      PROVE  Greet!TypeOK'
  BY <1>4, FireType
<1>5. CASE Greet!Tick
  BY <1>5, TickType
<1>6. CASE UNCHANGED Greet!vars
  BY <1>6 DEF Greet!vars, Greet!world, Greet!TypeOK
<1>. QED
  BY <1>1, <1>2, <1>3, <1>4, <1>5, <1>6 DEF Greet!Next

\* Every variable keeps its type, and one refresh at a time is taken over
\* (miot/mips_listeners.py:159).
THEOREM GreetTypeCorrect == ASSUME GreetParameters PROVE Greet!Spec => []Greet!TypeOK
BY TypeInit, TypeStep, PTL DEF Greet!Spec

-----------------------------------------------------------------------------
(* No arrival is lost. *)

\* A step of the world: an arrival is on the wire, what was under way stays so.
LEMMA GoesStep ==
  ASSUME GreetParameters, GreetInv, NEW h \in Greet!Home \cup {"away"}, NEW P \in SUBSET Greet!Push, Greet!Goes(h, P),
         h \in Managed /\ home \notin Managed => "bind" \in P \/ "movein" \in P \/ h = home
  PROVE  (arrived' => home' \in Managed) /\ Owed'
<1>1. /\ wire' = [p \in Greet!Push |-> IF p \in P THEN 0 ELSE wire[p]]
      /\ UNCHANGED <<cached, timer, pending, fires>> /\ home' = h
  BY DEF Greet!Goes
<1>2. CASE h \in Managed /\ home \in Managed
  <2>1. UNCHANGED <<arrived, greeted, excuse>>
    BY <1>2 DEF Greet!Goes
  <2>2. ASSUME UnderWay PROVE UnderWay'
    BY <1>1, <2>2 DEF UnderWay, WillGreet, Greet!Off, Greet!Push
  <2>. QED  BY <1>1, <1>2, <2>1, <2>2 DEF GreetInv, Owed, Unexcused
<1>3. CASE ~(h \in Managed /\ home \in Managed)
  <2>1. arrived' = (h \in Managed)
    BY <1>3 DEF Greet!Goes
  <2>2. h \in Managed => UnderWay'
    BY <1>1, <1>3 DEF UnderWay, Greet!Off, Greet!Push
  <2>. QED  BY <1>1, <2>1, <2>2 DEF Owed
<1>. QED
  BY <1>2, <1>3

\* A push starts a timer, a timer starts a listener.
LEMMA ChainStep ==
  ASSUME GreetParameters, GreetInv,
         (\E p \in Greet!Push : Greet!Arrives(p)) \/ (\E c \in Greet!Chain : Greet!Settles(c))
  PROVE  (arrived' => home' \in Managed) /\ Owed'
<1>1. ASSUME NEW p \in Greet!Push, Greet!Arrives(p)
      PROVE  (arrived' => home' \in Managed) /\ Owed'
  <2> DEFINE c == IF p = "bind" THEN "bind" ELSE "meta"
  <2>1. /\ wire' = [wire EXCEPT ![p] = Greet!Off] /\ timer' = [timer EXCEPT ![c] = Debounce]
        /\ pending' = (pending \/ p = "movein")
        /\ excuse' \in {excuse, excuse \cup {"burst"}}
        /\ UNCHANGED <<cached, fires, greeted, home, arrived>>
    BY <1>1 DEF Greet!Arrives, Greet!Armed, Greet!world
  <2>2. ASSUME UnderWay PROVE UnderWay'
    <3>1. CASE wire["bind"] # Greet!Off \/ timer["bind"] # Greet!Off
      BY <2>1, <3>1 DEF UnderWay, GreetInv, Greet!TypeOK, Greet!Push, Greet!Chain, GreetParameters, Greet!Off
    <3>2. CASE wire["movein"] # Greet!Off \/ pending
      BY <2>1, <3>2 DEF UnderWay, GreetInv, Greet!TypeOK, Greet!Push
    <3>3. CASE \E f \in fires : WillGreet(f)
      BY <2>1, <3>3 DEF UnderWay, WillGreet
    <3>. QED  BY <2>2, <3>1, <3>2, <3>3 DEF UnderWay
  <2>. QED  BY <2>1, <2>2 DEF GreetInv, Owed, Unexcused
<1>2. ASSUME NEW c \in Greet!Chain, Greet!Settles(c)
      PROVE  (arrived' => home' \in Managed) /\ Owed'
  <2> DEFINE g == [chain |-> c, stage |-> "asked", age |-> 0, got |-> "away",
                   greet |-> c = "bind" \/ pending]
  <2>1. /\ timer' = [timer EXCEPT ![c] = Greet!Off] /\ fires' = fires \cup {g}
        /\ pending' = (pending /\ c # "meta")
        /\ UNCHANGED <<cached, wire, greeted, excuse, home, arrived>>
    BY <1>2 DEF Greet!Settles, Greet!world
  <2>2. ASSUME UnderWay PROVE UnderWay'
    <3>1. CASE wire["bind"] # Greet!Off \/ wire["movein"] # Greet!Off
      BY <2>1, <3>1 DEF UnderWay
    <3>2. CASE (timer["bind"] # Greet!Off /\ c = "bind") \/ (pending /\ c = "meta")
      <4>1. g.greet /\ g.stage = "asked" /\ g \in fires'
        BY <2>1, <3>2
      <4>. HIDE DEF g
      <4>. QED  BY <4>1 DEF UnderWay, WillGreet
    <3>3. CASE (timer["bind"] # Greet!Off /\ c # "bind") \/ (pending /\ c # "meta")
      BY <2>1, <3>3 DEF UnderWay, GreetInv, Greet!TypeOK, Greet!Chain
    <3>4. CASE \E f \in fires : WillGreet(f)
      <4>1. g.stage = "asked"
        OBVIOUS
      <4>. HIDE DEF g
      <4>. QED  BY <2>1, <3>4, <4>1 DEF UnderWay, WillGreet
    <3>. QED  BY <2>2, <3>1, <3>2, <3>3, <3>4 DEF UnderWay
  <2>. QED  BY <2>1, <2>2 DEF GreetInv, Owed, Unexcused
<1>. QED
  BY <1>1, <1>2

\* The answer of the cloud that comes after the arrival has the device at home.
LEMMA AnsweredStep ==
  ASSUME GreetInv, NEW f \in fires, Greet!Answered(f)
  PROVE  Owed'
<1> DEFINE g == [f EXCEPT !.stage = "answered", !.got = home]
<1>1. g.stage = "answered" /\ g.got = home /\ g.greet = f.greet /\ f.stage = "asked"
  BY DEF GreetInv, Greet!TypeOK, Greet!Fire, Greet!Answered
<1>2. /\ fires' = (fires \ {f}) \cup {g} /\ \A x \in fires : x.stage # "answered"
      /\ UNCHANGED <<cached, wire, timer, pending, greeted, excuse, home, arrived>>
  BY DEF Greet!Answered, Greet!Becomes, Greet!world
<1>. HIDE DEF g
<1>3. ASSUME arrived, \E x \in fires : WillGreet(x) PROVE \E x \in fires' : WillGreet(x)'
  <2>1. PICK x \in fires : WillGreet(x)
    BY <1>3
  <2>2. home \in Managed
    BY <1>3 DEF GreetInv
  <2>3. CASE x = f
    BY <1>1, <1>2, <2>1, <2>2, <2>3 DEF WillGreet
  <2>4. CASE x # f
    BY <1>1, <1>2, <2>1, <2>2, <2>4 DEF WillGreet
  <2>. QED  BY <2>3, <2>4
<1>. QED
  BY <1>2, <1>3 DEF GreetInv, Owed, UnderWay, Unexcused

\* The list becomes what was answered, and only one answer is taken over at a time.
LEMMA ListedStep ==
  ASSUME GreetInv, NEW f \in fires, Greet!Listed(f)
  PROVE  Owed'
<1> DEFINE g == [f EXCEPT !.stage = "listed", !.got = "away"]
<1>1. g.stage = "listed" /\ g.greet = f.greet /\ f.stage = "answered"
  BY DEF GreetInv, Greet!TypeOK, Greet!Fire, Greet!Listed
<1>2. /\ fires' = (fires \ {f}) \cup {g} /\ cached' = f.got
      /\ UNCHANGED <<wire, timer, pending, greeted, excuse, home, arrived>>
  BY DEF Greet!Listed, Greet!Becomes, Greet!world
<1>. HIDE DEF g
<1>3. \A x \in fires' : x.stage # "answered"
  BY <1>1, <1>2 DEF GreetInv, Greet!TypeOK
<1>4. ASSUME \E x \in fires : WillGreet(x) PROVE \E x \in fires' : WillGreet(x)'
  <2>1. PICK x \in fires : WillGreet(x)
    BY <1>4
  <2>2. CASE x = f
    BY <1>1, <1>2, <1>3, <2>1, <2>2 DEF WillGreet
  <2>3. CASE x # f
    <3>1. x \in fires' /\ x.stage \in {"asked", "listed"}
      BY <1>1, <1>2, <2>1, <2>3 DEF GreetInv, Greet!TypeOK, WillGreet
    <3>2. x.stage = "listed" => f.got \in Managed
      BY <1>1, <2>1, <3>1 DEF WillGreet
    <3>. QED  BY <1>2, <1>3, <2>1, <3>1, <3>2 DEF WillGreet
  <2>. QED  BY <2>2, <2>3
<1>. QED
  BY <1>2, <1>4 DEF GreetInv, Owed, UnderWay, Unexcused

\* A listener that ends has greeted, or leaves the reason, or was not the one.
LEMMA FinishesStep ==
  ASSUME GreetInv, NEW f \in fires, Greet!Finishes(f)
  PROVE  Owed'
<1>. SUFFICES ASSUME arrived', greeted' = 0, Unexcused' PROVE UnderWay'
  BY DEF Owed
<1>1. PICK taken \in BOOLEAN :
        /\ taken => Greet!Greets(f)
        /\ greeted' = IF taken /\ greeted < 2 THEN greeted + 1 ELSE greeted
        /\ excuse' = excuse
             \cup (IF f.age > Greet!Slack THEN {"slow"} ELSE {})
             \cup (IF Greet!Greets(f) /\ ~taken THEN {"refused"} ELSE {})
             \cup (IF f.greet /\ cached \in Managed /\ ~Greet!Greets(f) /\ greeted = 0
                   THEN {"lately"} ELSE {})
  BY DEF Greet!Finishes
<1>2. /\ f.stage = "listed" /\ fires' = fires \ {f}
      /\ UNCHANGED <<cached, wire, timer, pending, home, arrived>>
  BY DEF Greet!Finishes, Greet!Over, Greet!world
<1>3. ~taken /\ greeted = 0
  BY <1>1 DEF GreetInv, Greet!TypeOK
<1>4. ~Greet!Greets(f) /\ ~(f.greet /\ cached \in Managed) /\ Unexcused
  BY <1>1, <1>3 DEF Unexcused
<1>5. UnderWay /\ ~WillGreet(f)
  BY <1>2, <1>3, <1>4 DEF GreetInv, Owed, WillGreet
<1>. QED
  BY <1>2, <1>5 DEF UnderWay, WillGreet

LEMMA TickStep ==
  ASSUME GreetInv, Greet!Tick
  PROVE  Owed'
<1> DEFINE Aged(f) == [f EXCEPT !.age = f.age + 1]
<1>1. \A f \in fires : /\ Aged(f).stage = f.stage /\ Aged(f).got = f.got
                       /\ Aged(f).greet = f.greet
  BY DEF GreetInv, Greet!TypeOK, Greet!Fire
<1>2. /\ fires' = {Aged(f) : f \in fires}
      /\ UNCHANGED <<cached, pending, greeted, excuse, home, arrived>>
  BY DEF Greet!Tick, Greet!world
<1>3. /\ \A p \in Greet!Push : wire[p] # Greet!Off => wire'[p] # Greet!Off
      /\ \A c \in Greet!Chain : timer[c] # Greet!Off => timer'[c] # Greet!Off
  BY DEF Greet!Tick, GreetInv, Greet!TypeOK, Greet!Off
<1>. HIDE DEF Aged
<1>4. \A f \in fires : WillGreet(f) => WillGreet(Aged(f))'
  BY <1>1, <1>2 DEF WillGreet
<1>. QED
  BY <1>2, <1>3, <1>4 DEF GreetInv, Owed, UnderWay, Unexcused, Greet!Push, Greet!Chain

LEMMA InvStep == ASSUME GreetParameters PROVE GreetInv /\ [Greet!Next]_(Greet!vars) => GreetInv'
<1>. SUFFICES ASSUME GreetInv, [Greet!Next]_(Greet!vars) PROVE GreetInv'
  OBVIOUS
<1>1. Greet!TypeOK'
  BY TypeStep DEF GreetInv
<1>2. CASE Greet!Bound \/ Greet!Unbound \/ Greet!Moved \/ Greet!Renamed
  BY <1>1, <1>2, MovesAreGoes, GoesStep DEF GreetInv
<1>3. CASE (\E p \in Greet!Push : Greet!Arrives(p)) \/ (\E c \in Greet!Chain : Greet!Settles(c))
  BY <1>1, <1>3, ChainStep DEF GreetInv
<1>4. ASSUME NEW f \in fires, Greet!Answered(f) \/ Greet!Listed(f) \/ Greet!Finishes(f)
      PROVE  GreetInv'
  <2>1. UNCHANGED <<home, arrived>>
    BY <1>4 DEF Greet!Answered, Greet!Listed, Greet!Finishes, Greet!world
  <2>. QED  BY <1>1, <1>4, <2>1, AnsweredStep, ListedStep, FinishesStep DEF GreetInv
<1>5. ASSUME NEW f \in fires, Greet!RefreshFails(f)
      PROVE  GreetInv'
  <2>1. UNCHANGED <<home, arrived>> /\ "failed" \in excuse'
    BY <1>5 DEF Greet!RefreshFails, Greet!world
  <2>. QED  BY <1>1, <2>1 DEF GreetInv, Owed, Unexcused
<1>6. CASE Greet!Tick
  BY <1>1, <1>6, TickStep DEF GreetInv, Greet!Tick, Greet!world
<1>7. CASE UNCHANGED Greet!vars
  BY <1>1, <1>7 DEF Greet!vars, Greet!world, GreetInv, Owed, Unexcused, UnderWay, WillGreet
<1>. QED
  BY <1>2, <1>3, <1>4, <1>5, <1>6, <1>7 DEF Greet!Next

\* When everything has settled, a device that arrived was greeted or there is a reason:
\* no push is lost to a listener already at work, and no older answer undoes a newer one
\* before the greeting (miot/mips_listeners.py:289).
THEOREM ArrivalsAreKept == ASSUME GreetParameters PROVE Greet!Spec => []Greet!NoArrivalLost
<1>1. Greet!Init => GreetInv
  BY TypeInit DEF Greet!Init, GreetInv, Owed
<1>2. GreetInv => Greet!NoArrivalLost
  <2>. SUFFICES ASSUME GreetInv, Greet!Still, arrived, greeted = 0, Unexcused PROVE FALSE
    BY DEF Greet!NoArrivalLost, Unexcused, GreetInv, Greet!TypeOK
  <2>1. UnderWay
    BY DEF GreetInv, Owed
  <2>. QED  BY <2>1 DEF UnderWay, Greet!Still, GreetInv, Greet!TypeOK, Greet!Push, Greet!Chain
<1>. QED
  BY <1>1, <1>2, InvStep, PTL DEF Greet!Spec

-----------------------------------------------------------------------------
(* Nobody is greeted twice.  The argument has a clock: e is the time since *)
(* the arrival, and everything that may still greet shows it, within the   *)
(* delay of a push.                                                        *)

\* What is under way shows the time e, and a greeting was at least a debounce after
\* the arrival.
Shows(e) ==
  /\ \A p \in {"bind", "movein"} : wire[p] # Greet!Off => wire[p] = e
  /\ timer["bind"] # Greet!Off => Debounce <= timer["bind"] + e /\ timer["bind"] + e <= MaxSkew + Debounce
  /\ pending => /\ timer["meta"] # Greet!Off
                /\ Debounce <= timer["meta"] + e /\ timer["meta"] + e <= MaxSkew + Debounce
  /\ \A f \in fires : f.greet => Debounce + f.age <= e /\ e <= MaxSkew + Debounce + f.age
  /\ greeted > 0 => recent + Debounce <= e
  /\ greeted <= 1

Calm == quiet /\ excuse \cap {"burst", "slow"} = {}
Timely == Calm => \E e \in Nat : Shows(e)

\* A device that is not in a managed home is not in the list, where a listener has read
\* it; one that was there from the beginning is not announced.
Unannounced ==
  quiet /\ ~arrived /\ "failed" \notin excuse =>
    /\ greeted = 0
    /\ \/ /\ home \notin Managed
          /\ \A f \in fires : /\ f.stage = "answered" => f.got \notin Managed
                              /\ f.stage = "listed" => cached \notin Managed
       \/ /\ wire["bind"] = Greet!Off /\ wire["movein"] = Greet!Off /\ timer["bind"] = Greet!Off /\ ~pending
          /\ \A f \in fires : ~f.greet

Once == Timely /\ Unannounced

LEMMA GoesOnce ==
  ASSUME GreetParameters, Greet!TypeOK, Once,
         NEW h \in Greet!Home \cup {"away"}, NEW P \in SUBSET Greet!Push, Greet!Goes(h, P),
         h \in Managed /\ home \in Managed => "bind" \notin P /\ "movein" \notin P
  PROVE  Once'
<1>1. /\ wire' = [p \in Greet!Push |-> IF p \in P THEN 0 ELSE wire[p]]
      /\ UNCHANGED <<cached, timer, pending, fires, recent>> /\ home' = h
  BY DEF Greet!Goes
<1>2. CASE h \in Managed /\ home \in Managed
  <2>1. UNCHANGED <<arrived, quiet, greeted, excuse>>
    BY <1>2 DEF Greet!Goes
  <2>2. wire'["bind"] = wire["bind"] /\ wire'["movein"] = wire["movein"]
    BY <1>1, <1>2 DEF Greet!Push
  <2>3. Timely'
    BY <1>1, <2>1, <2>2 DEF Once, Timely, Calm, Shows
  <2>. QED  BY <1>1, <1>2, <2>1, <2>2, <2>3 DEF Once, Unannounced
<1>3. CASE ~(h \in Managed /\ home \in Managed)
  <2>1. /\ arrived' = (h \in Managed) /\ quiet' = (Greet!Still /\ recent = Greet!Window)
        /\ greeted' = 0 /\ excuse' = {}
    BY <1>3 DEF Greet!Goes
  <2>2. CASE Greet!Still
    <3>1. /\ fires' = {} /\ timer'["bind"] = Greet!Off /\ ~pending'
          /\ \A p \in {"bind", "movein"} : wire'[p] \in {0, Greet!Off}
      BY <1>1, <2>2 DEF Greet!Still, Greet!TypeOK, Greet!Push, Greet!Chain
    <3>2. Shows(0)'
      BY <2>1, <3>1 DEF Shows
    <3>3. 0 \in Nat
      OBVIOUS
    <3>. QED  BY <1>1, <2>1, <3>1, <3>2, <3>3 DEF Once, Timely, Unannounced
  <2>3. CASE ~Greet!Still
    BY <2>1, <2>3 DEF Once, Timely, Calm, Unannounced
  <2>. QED  BY <2>2, <2>3
<1>. QED
  BY <1>2, <1>3

\* A push that arrives shows the time less exactly: the timer knows only that the push
\* took no longer than MaxSkew.
LEMMA ArrivesOnce ==
  ASSUME GreetParameters, Greet!TypeOK, Once, NEW p \in Greet!Push, Greet!Arrives(p)
  PROVE  Once'
<1> DEFINE c == IF p = "bind" THEN "bind" ELSE "meta"
<1>1. /\ wire' = [wire EXCEPT ![p] = Greet!Off] /\ timer' = [timer EXCEPT ![c] = Debounce]
      /\ pending' = (pending \/ p = "movein") /\ wire[p] # Greet!Off
      /\ excuse' = IF timer[c] # Greet!Off THEN excuse \cup {"burst"} ELSE excuse
      /\ UNCHANGED <<cached, fires, recent, greeted, home, arrived, quiet>>
  BY DEF Greet!Arrives, Greet!Armed, Greet!world
<1>2. Timely'
  <2>. SUFFICES ASSUME Calm' PROVE \E e \in Nat : Shows(e)'
    BY DEF Timely
  <2>1. Calm /\ timer[c] = Greet!Off /\ excuse' = excuse
    BY <1>1 DEF Calm
  <2>2. PICK e \in Nat : Shows(e)
    BY <2>1 DEF Once, Timely
  <2>3. \A q \in {"bind", "movein"} : wire'[q] # Greet!Off => wire'[q] = e
    BY <1>1, <2>2 DEF Shows, Greet!TypeOK, Greet!Push
  <2>4. p \in {"bind", "movein"} => e \in 0 .. MaxSkew
    BY <1>1, <2>2 DEF Shows, Greet!TypeOK, Greet!Off, GreetParameters
  <2>5. timer'["bind"] # Greet!Off =>
          Debounce <= timer'["bind"] + e /\ timer'["bind"] + e <= MaxSkew + Debounce
    BY <1>1, <2>2, <2>4 DEF Shows, Greet!TypeOK, Greet!Chain, Greet!Push, GreetParameters
  <2>6. pending' => /\ timer'["meta"] # Greet!Off /\ Debounce <= timer'["meta"] + e
                    /\ timer'["meta"] + e <= MaxSkew + Debounce
    <3>1. CASE p = "movein"
      BY <1>1, <2>4, <3>1 DEF Greet!TypeOK, Greet!Chain, GreetParameters, Greet!Off
    <3>2. CASE p # "movein"
      BY <1>1, <2>1, <2>2, <3>2 DEF Shows, Greet!TypeOK, Greet!Chain, Greet!Push
    <3>. QED  BY <3>1, <3>2
  <2>7. Shows(e)'
    BY <1>1, <2>2, <2>3, <2>5, <2>6 DEF Shows
  <2>. QED  BY <2>7
<1>3. Unannounced'
  BY <1>1 DEF Once, Unannounced, Greet!TypeOK, Greet!Push, Greet!Chain
<1>. QED
  BY <1>2, <1>3 DEF Once

LEMMA SettlesOnce ==
  ASSUME GreetParameters, Greet!TypeOK, Once, NEW c \in Greet!Chain, Greet!Settles(c)
  PROVE  Once'
<1> DEFINE g == [chain |-> c, stage |-> "asked", age |-> 0, got |-> "away",
                 greet |-> c = "bind" \/ pending]
<1>1. /\ timer[c] = 0 /\ timer' = [timer EXCEPT ![c] = Greet!Off] /\ fires' = fires \cup {g}
      /\ pending' = (pending /\ c # "meta")
      /\ UNCHANGED <<cached, wire, recent, greeted, excuse, home, arrived, quiet>>
  BY DEF Greet!Settles, Greet!world
<1>2. g.age = 0 /\ g.stage = "asked" /\ (g.greet <=> c = "bind" \/ pending)
  OBVIOUS
<1>. HIDE DEF g
<1>3. Timely'
  <2>. SUFFICES ASSUME Calm' PROVE \E e \in Nat : Shows(e)'
    BY DEF Timely
  <2>1. PICK e \in Nat : Shows(e)
    BY <1>1 DEF Once, Timely, Calm
  <2>2. g.greet => Debounce + g.age <= e /\ e <= MaxSkew + Debounce + g.age
    <3>1. CASE c = "bind"
      BY <1>1, <1>2, <2>1, <3>1 DEF Shows, Greet!Off, GreetParameters
    <3>2. CASE c = "meta"
      BY <1>1, <1>2, <2>1, <3>2 DEF Shows, Greet!Off, GreetParameters
    <3>. QED  BY <3>1, <3>2 DEF Greet!Chain
  <2>3. timer'["bind"] # Greet!Off => timer'["bind"] = timer["bind"]
    BY <1>1 DEF Greet!TypeOK, Greet!Chain
  <2>4. pending' => pending /\ timer'["meta"] = timer["meta"]
    BY <1>1 DEF Greet!TypeOK, Greet!Chain
  <2>5. Shows(e)'
    BY <1>1, <2>1, <2>2, <2>3, <2>4 DEF Shows
  <2>. QED  BY <2>5
<1>4. Unannounced'
  <2>1. CASE c = "bind"
    BY <1>1, <1>2, <2>1 DEF Once, Unannounced, Greet!TypeOK, Greet!Chain, Greet!Off
  <2>2. CASE c = "meta"
    BY <1>1, <1>2, <2>2 DEF Once, Unannounced, Greet!TypeOK, Greet!Chain, Greet!Off
  <2>. QED  BY <2>1, <2>2 DEF Greet!Chain
<1>. QED
  BY <1>3, <1>4 DEF Once

\* A listener that goes on keeps its age and its purpose.
LEMMA GoesOnOnce ==
  ASSUME Greet!TypeOK, Once, NEW f \in fires, Greet!Answered(f) \/ Greet!RefreshFails(f) \/ Greet!Listed(f)
  PROVE  Once'
<1>1. ASSUME NEW g, g.age = f.age, g.greet = f.greet, fires' = (fires \ {f}) \cup {g},
             UNCHANGED <<wire, timer, pending, recent, greeted, home, arrived, quiet>>,
             excuse' \in {excuse, excuse \cup {"failed"}}
      PROVE  Timely'
  <2>1. Calm' => Calm
    BY <1>1 DEF Calm
  <2>2. ASSUME NEW e \in Nat, Shows(e) PROVE Shows(e)'
    BY <1>1, <2>2 DEF Shows
  <2>. QED  BY <2>1, <2>2 DEF Once, Timely
<1>2. CASE Greet!Answered(f)
  <2> DEFINE g == [f EXCEPT !.stage = "answered", !.got = home]
  <2>1. g.stage = "answered" /\ g.got = home /\ g.greet = f.greet /\ g.age = f.age
    BY DEF Greet!TypeOK, Greet!Fire
  <2>2. /\ fires' = (fires \ {f}) \cup {g}
        /\ UNCHANGED <<cached, wire, timer, pending, recent, greeted, excuse, home, arrived, quiet>>
    BY <1>2 DEF Greet!Answered, Greet!Becomes, Greet!world
  <2>. HIDE DEF g
  <2>3. Unannounced'
    BY <2>1, <2>2 DEF Once, Unannounced
  <2>. QED  BY <1>1, <2>1, <2>2, <2>3 DEF Once
<1>3. CASE Greet!RefreshFails(f)
  <2> DEFINE g == [f EXCEPT !.stage = "listed"]
  <2>1. g.greet = f.greet /\ g.age = f.age
    BY DEF Greet!TypeOK, Greet!Fire
  <2>2. /\ fires' = (fires \ {f}) \cup {g} /\ excuse' = excuse \cup {"failed"}
        /\ UNCHANGED <<cached, wire, timer, pending, recent, greeted, home, arrived, quiet>>
    BY <1>3 DEF Greet!RefreshFails, Greet!Becomes, Greet!world
  <2>. HIDE DEF g
  <2>3. Unannounced'
    BY <2>2 DEF Unannounced
  <2>. QED  BY <1>1, <2>1, <2>2, <2>3 DEF Once
<1>4. CASE Greet!Listed(f)
  <2> DEFINE g == [f EXCEPT !.stage = "listed", !.got = "away"]
  <2>1. g.stage = "listed" /\ g.greet = f.greet /\ g.age = f.age /\ f.stage = "answered"
    BY <1>4 DEF Greet!TypeOK, Greet!Fire, Greet!Listed
  <2>2. /\ fires' = (fires \ {f}) \cup {g} /\ cached' = f.got
        /\ UNCHANGED <<wire, timer, pending, recent, greeted, excuse, home, arrived, quiet>>
    BY <1>4 DEF Greet!Listed, Greet!Becomes, Greet!world
  <2>. HIDE DEF g
  <2>3. Unannounced'
    BY <2>1, <2>2 DEF Once, Unannounced
  <2>. QED  BY <1>1, <2>1, <2>2, <2>3 DEF Once
<1>. QED
  BY <1>2, <1>3, <1>4

\* A second greeting would be less than Window after the first, unless its listener
\* was slow.
LEMMA FinishesOnce ==
  ASSUME GreetParameters, Greet!TypeOK, Once, NEW f \in fires, Greet!Finishes(f)
  PROVE  Once'
<1>1. PICK taken \in BOOLEAN :
        /\ taken => Greet!Greets(f)
        /\ recent' = IF taken THEN 0 ELSE recent
        /\ greeted' = IF taken /\ greeted < 2 THEN greeted + 1 ELSE greeted
        /\ excuse' = excuse
             \cup (IF f.age > Greet!Slack THEN {"slow"} ELSE {})
             \cup (IF Greet!Greets(f) /\ ~taken THEN {"refused"} ELSE {})
             \cup (IF f.greet /\ cached \in Managed /\ ~Greet!Greets(f) /\ greeted = 0
                   THEN {"lately"} ELSE {})
  BY DEF Greet!Finishes
<1>2. /\ f.stage = "listed" /\ fires' = fires \ {f}
      /\ UNCHANGED <<cached, wire, timer, pending, home, arrived, quiet>>
  BY DEF Greet!Finishes, Greet!Over, Greet!world
<1>3. f.age \in Nat /\ recent \in Nat /\ greeted \in 0 .. 2
  BY DEF Greet!TypeOK, Greet!Fire, Greet!Window, GreetParameters
<1>4. Timely'
  <2>. SUFFICES ASSUME Calm' PROVE \E e \in Nat : Shows(e)'
    BY DEF Timely
  <2>1. Calm /\ f.age <= Greet!Slack
    BY <1>1, <1>2, <1>3 DEF Calm, Greet!Slack, GreetParameters
  <2>2. PICK e \in Nat : Shows(e)
    BY <2>1 DEF Once, Timely
  <2>3. taken => f.greet /\ recent >= 2 * Debounce
    BY <1>1 DEF Greet!Greets, Greet!Window
  <2>4. taken => Debounce <= e /\ greeted = 0
    BY <1>3, <2>1, <2>2, <2>3 DEF Shows, Greet!Slack, GreetParameters
  <2>5. (greeted' > 0 => recent' + Debounce <= e) /\ greeted' <= 1
    BY <1>1, <1>3, <2>2, <2>4 DEF Shows, GreetParameters
  <2>6. Shows(e)'
    BY <1>2, <2>2, <2>5 DEF Shows
  <2>. QED  BY <2>6
<1>5. Unannounced'
  <2>. SUFFICES ASSUME quiet, ~arrived, "failed" \notin excuse
                PROVE  Unannounced'
    BY <1>1, <1>2 DEF Unannounced
  <2>1. ~taken
    BY <1>1, <1>2 DEF Once, Unannounced, Greet!Greets
  <2>. QED  BY <1>1, <1>2, <2>1 DEF Once, Unannounced
<1>. QED
  BY <1>4, <1>5 DEF Once

LEMMA TickOnce ==
  ASSUME GreetParameters, Greet!TypeOK, Once, Greet!Tick
  PROVE  Once'
<1> DEFINE Aged(f) == [f EXCEPT !.age = f.age + 1]
<1>1. \A f \in fires : /\ Aged(f).stage = f.stage /\ Aged(f).got = f.got
                       /\ Aged(f).greet = f.greet /\ Aged(f).age = f.age + 1
                       /\ f.age \in Nat
  BY DEF Greet!TypeOK, Greet!Fire
<1>2. /\ fires' = {Aged(f) : f \in fires}
      /\ recent' \in {recent, recent + 1} /\ recent \in Nat
      /\ UNCHANGED <<cached, pending, greeted, excuse, home, arrived, quiet>>
  BY DEF Greet!Tick, Greet!world, Greet!TypeOK, Greet!Window, GreetParameters
<1>3. /\ \A p \in Greet!Push : wire[p] \in Int /\ wire'[p] = IF wire[p] = Greet!Off THEN Greet!Off ELSE wire[p] + 1
      /\ \A c \in Greet!Chain : /\ timer[c] \in Int /\ timer[c] # 0
                           /\ timer'[c] = IF timer[c] = Greet!Off THEN Greet!Off ELSE timer[c] - 1
  BY DEF Greet!Tick, Greet!TypeOK, Greet!Off, GreetParameters
<1>. HIDE DEF Aged
<1>4. Timely'
  <2>. SUFFICES ASSUME Calm' PROVE \E e \in Nat : Shows(e)'
    BY DEF Timely
  <2>1. PICK e \in Nat : Shows(e)
    BY <1>2 DEF Once, Timely, Calm
  <2>2. \A p \in {"bind", "movein"} : wire'[p] # Greet!Off => wire'[p] = e + 1
    BY <1>3, <2>1 DEF Shows, Greet!Push
  <2>3. timer'["bind"] # Greet!Off => /\ Debounce <= timer'["bind"] + (e + 1)
                                /\ timer'["bind"] + (e + 1) <= MaxSkew + Debounce
    BY <1>3, <2>1 DEF Shows, Greet!Chain, GreetParameters
  <2>4. pending' => /\ timer'["meta"] # Greet!Off /\ Debounce <= timer'["meta"] + (e + 1)
                    /\ timer'["meta"] + (e + 1) <= MaxSkew + Debounce
    BY <1>2, <1>3, <2>1 DEF Shows, Greet!Chain, GreetParameters, Greet!Off, Greet!TypeOK
  <2>5. \A f \in fires' : f.greet => /\ Debounce + f.age <= e + 1
                                     /\ e + 1 <= MaxSkew + Debounce + f.age
    BY <1>1, <1>2, <2>1 DEF Shows, GreetParameters
  <2>6. (greeted' > 0 => recent' + Debounce <= e + 1) /\ greeted' <= 1
    <3>1. greeted' = greeted /\ (greeted > 0 => recent + Debounce <= e) /\ greeted <= 1
      BY <1>2, <2>1 DEF Shows
    <3>2. Debounce \in Nat /\ recent \in Nat /\ e \in Nat
      BY <1>2, <2>1 DEF GreetParameters
    <3>3. recent + Debounce <= e => recent' + Debounce <= e + 1
      <4>1. CASE recent' = recent
        BY <3>2, <4>1
      <4>2. CASE recent' = recent + 1
        BY <3>2, <4>2
      <4>. QED  BY <1>2, <4>1, <4>2
    <3>4. greeted \in 0 .. 2
      BY DEF Greet!TypeOK
    <3>. QED  BY <3>1, <3>3, <3>4
  <2>7. PICK n \in Nat : n = e + 1
    BY <2>1
  <2>8. Shows(n)'
    BY <2>2, <2>3, <2>4, <2>5, <2>6, <2>7 DEF Shows
  <2>. QED  BY <2>8
<1>5. Unannounced'
  BY <1>1, <1>2, <1>3 DEF Once, Unannounced, Greet!Push, Greet!Chain
<1>. QED
  BY <1>4, <1>5 DEF Once

LEMMA OnceInit == ASSUME GreetParameters PROVE Greet!Init => Once
<1>. SUFFICES ASSUME Greet!Init PROVE Once
  OBVIOUS
<1>1. Shows(0) /\ 0 \in Nat
  BY DEF Greet!Init, Shows, Greet!Push, Greet!Chain
<1>2. Unannounced
  BY DEF Greet!Init, Unannounced, Greet!Push, Greet!Chain
<1>. QED
  BY <1>1, <1>2 DEF Once, Timely

LEMMA OnceStep == ASSUME GreetParameters PROVE Greet!TypeOK /\ Once /\ [Greet!Next]_(Greet!vars) => Once'
<1>. SUFFICES ASSUME Greet!TypeOK, Once, [Greet!Next]_(Greet!vars) PROVE Once'
  OBVIOUS
<1>1. CASE Greet!Bound \/ Greet!Unbound \/ Greet!Moved \/ Greet!Renamed
  BY <1>1, MovesAreGoes, GoesOnce
<1>2. CASE UNCHANGED Greet!vars
  <2>1. UNCHANGED <<home, cached, wire, timer, pending, fires, recent, arrived, quiet, greeted, excuse>>
    BY <1>2 DEF Greet!vars
  <2>2. Timely'
    BY <2>1 DEF Once, Timely, Calm, Shows
  <2>. QED  BY <2>1, <2>2 DEF Once, Unannounced
<1>. QED
  BY <1>1, <1>2, ArrivesOnce, SettlesOnce, GoesOnOnce, FinishesOnce, TickOnce DEF Greet!Next

\* Who arrives is greeted unless something excuses it, and greeted once unless pushes came
\* in a burst or a listener was slow (miot/welcome_service.py:14, 68).
THEOREM GreetedOnce == ASSUME GreetParameters PROVE Greet!Spec => []Greet!ArrivalsGreeted
<1>1. Once => Greet!GreetedAsArrived
  <2>. SUFFICES ASSUME Once, quiet PROVE Greet!GreetedAsArrived
    BY DEF Greet!GreetedAsArrived
  <2>1. excuse \cap {"burst", "slow"} = {} => greeted <= 1
    BY DEF Once, Timely, Calm, Shows
  <2>2. ~arrived /\ "failed" \notin excuse => greeted = 0
    BY DEF Once, Unannounced
  <2>. QED  BY <2>1, <2>2 DEF Greet!GreetedAsArrived
<1>2. Greet!GreetedAsArrived /\ Greet!NoArrivalLost => Greet!ArrivalsGreeted
  BY DEF Greet!ArrivalsGreeted
<1>. QED
  BY <1>1, <1>2, OnceInit, OnceStep, GreetTypeCorrect, ArrivalsAreKept, PTL DEF Greet!Spec

(***************************************************************************)
(* The subscriptions                                                       *)
(***************************************************************************)

\* The bounds are numbers.
SubsParameters == MaxMoves \in Nat /\ MaxEvents \in Nat

(* The invariant. *)

RoundType == [at : {"run"}, adds : SUBSET Did, removes : SUBSET Did, added : SUBSET Did,
              removed : SUBSET Did, gen : Nat]
FlightType == [who : {"bind", "round", "replay"}, did : Did, lost : BOOLEAN]

Event == {"bind", "unbind"} \X Did

\* What the types leave open.  A generation costs a move of the world: each event and
\* each rebuild that still has to raise it was one.
Shape ==
  /\ events \in Seq(Event)
  /\ coming \in {Subs!NoRefresh} \cup [at : {"answered"}, dids : SUBSET Did]
  /\ round \in {Subs!NoRound} \cup RoundType
  /\ flying \subseteq FlightType
  /\ rebuild \in {Subs!NoRebuild, [at |-> "connect"], [at |-> "others"]}
                 \cup [at : {"replay"}, todo : SUBSET Did]
  /\ gen + Len(events) + subMoves + (IF rebuild = Subs!NoRebuild THEN 0 ELSE 1) <= MaxMoves

\* A round belongs to the loop and to the generation it began with.  Unless the list has
\* changed since, it adds what is listed and removes what is not.
LoopShape ==
  /\ Subs!Doing => syncing /\ before # -1 /\ round.gen = before
  /\ ~syncing => before = -1
  /\ Subs!Doing => (round.adds \cup round.added) \cap (round.removes \cup round.removed) = {}
  /\ Subs!Doing /\ ~rerun => /\ round.adds \cup round.added \subseteq known
                             /\ (round.removes \cup round.removed) \cap known = {}

\* Who waits for a SUBACK: without a connection in vain, a round for one of its devices,
\* once for each, a replay while it replays.
Flights ==
  /\ net # "up" => \A f \in flying : f.lost
  /\ rebuild.at = "connect" => net = "none"
  /\ \A f \in flying : /\ f.who = "round" => Subs!Doing /\ f.did \in round.adds
                       /\ f.who = "replay" => rebuild.at = "replay"
  /\ \A f, g \in flying : f.who = "round" /\ g.who = "round" /\ f.did = g.did => f = g

\* What counts as subscribed is a topic, but while a connection is replaced.
TopicsHeld ==
  rebuild.at \in {"none", "replay"} => \A d \in sdk \ topics : <<d, "split">> \in blame

\* What a round added is subscribed as long as its result is valid.
AddedHeld == Subs!Doing /\ gen = round.gen /\ rebuild = Subs!NoRebuild => round.added \subseteq sdk

\* Mirror and SDK agree on each device the round under way has not come through with.
Same ==
  rebuild = Subs!NoRebuild => \A d \in Did :
    \/ d \in mirror <=> d \in sdk
    \/ <<d, "torn">> \in blame
    \/ Subs!Doing /\ d \in round.added \cup round.removed

\* A refresh is due or will be.
ToCome == due \/ events # <<>> \/ net # "up" \/ rebuild # Subs!NoRebuild

\* The list is the account's, or will be.
Known ==
  \/ ToCome
  \/ coming # Subs!NoRefresh /\ coming.dids = bound
  \/ coming = Subs!NoRefresh /\ (missing \/ known = bound)

\* Another round begins after this one.
LoopAgain == syncing /\ (before = -1 \/ Subs!Again)

\* Mirror and list differ by what the round under way still has to bring.
RoundRight ==
  \A d \in Did :
    /\ d \in known \ mirror =>
         <<d, "missed">> \in blame \/ (Subs!Doing /\ d \in round.adds \cup round.added)
    /\ d \in mirror \ known =>
         <<d, "late">> \in blame \/ (Subs!Doing /\ d \in round.removes \cup round.removed)

\* The mirror is the list, or will be.
Follows == ToCome \/ coming # Subs!NoRefresh \/ missing \/ LoopAgain \/ RoundRight

SubsInv ==
  /\ Subs!TypeOK /\ Shape /\ LoopShape /\ Flights /\ TopicsHeld /\ AddedHeld /\ Same /\ Known
  /\ Follows

(* What the helpers do. *)

LEMMA NewFlight ==
  ASSUME NEW d \in Did, NEW who \in {"bind", "round", "replay"}
  PROVE  /\ Subs!Flight(who, d) \in FlightType
         /\ Subs!Flight(who, d).who = who /\ Subs!Flight(who, d).did = d
BY DEF Subs!Flight, FlightType

\* A round of which a device to add is through.
LEMMA AddedFields ==
  ASSUME round \in RoundType, NEW d \in Did, Subs!Added(d)
  PROVE  /\ round' \in RoundType /\ round'.at = "run" /\ round'.gen = round.gen
         /\ round'.adds = round.adds \ {d} /\ round'.added = round.added \cup {d}
         /\ round'.removes = round.removes /\ round'.removed = round.removed
         /\ blame' = blame
BY DEF Subs!Added, RoundType

\* And one that could not be added.
LEMMA NotAddedFields ==
  ASSUME round \in RoundType, NEW d \in Did, NEW why, Subs!NotAdded(d, why)
  PROVE  /\ round' \in RoundType /\ round'.at = "run" /\ round'.gen = round.gen
         /\ round'.adds = round.adds \ {d} /\ round'.added = round.added
         /\ round'.removes = round.removes /\ round'.removed = round.removed
         /\ blame' = blame \cup {<<d, "missed">>} \cup why
BY DEF Subs!NotAdded, RoundType, Subs!Blame

\* What a round does with a device to add.
LEMMA RoundSubFacts ==
  ASSUME SubsInv, NEW d \in Did, Subs!RoundSub(d)
  PROVE  /\ Subs!Doing /\ Subs!Doing' /\ {round, round'} \subseteq RoundType /\ d \in round.adds
         /\ round'.removes = round.removes /\ round'.removed = round.removed
         /\ round'.gen = round.gen /\ d \notin Subs!InFlight("round")
         /\ sdk' = sdk
         /\ \/ /\ net = "up" /\ d \notin sdk /\ topics' = topics \cup {d}
               /\ flying' = flying \cup {Subs!Flight("round", d)}
               /\ round' = round /\ blame' = blame
            \/ /\ d \in sdk /\ topics' = topics /\ flying' = flying /\ blame' = blame
               /\ round'.adds = round.adds \ {d} /\ round'.added = round.added \cup {d}
            \/ /\ topics' = topics /\ flying' = flying /\ blame' = blame \cup {<<d, "missed">>}
               /\ round'.adds = round.adds \ {d} /\ round'.added = round.added
<1>1. Subs!Doing /\ round \in RoundType /\ d \in round.adds /\ d \notin Subs!InFlight("round")
  BY DEF Subs!RoundSub, Subs!Doing, SubsInv, Shape, Subs!NoRound
<1>2. CASE Subs!Subscribe("round", d) /\ UNCHANGED <<round, sdk, blame>>
  BY <1>1, <1>2 DEF Subs!Subscribe, Subs!Doing
<1>3. CASE d \in sdk /\ Subs!Added(d) /\ UNCHANGED Subs!wire
  BY <1>1, <1>3, AddedFields DEF Subs!wire, Subs!Doing
<1>4. CASE Subs!NotAdded(d, {}) /\ UNCHANGED Subs!wire
  BY <1>1, <1>4, NotAddedFields DEF Subs!wire, Subs!Doing
<1>. QED BY <1>2, <1>3, <1>4 DEF Subs!RoundSub

\* What becomes of it with the SUBACK.
LEMMA RoundSubEndFacts ==
  ASSUME SubsInv, NEW f \in flying, Subs!RoundSubEnd(f)
  PROVE  /\ Subs!Doing /\ Subs!Doing' /\ {round, round'} \subseteq RoundType /\ f.did \in round.adds
         /\ round'.removes = round.removes /\ round'.removed = round.removed
         /\ round'.gen = round.gen /\ flying' = flying \ {f} /\ f.who = "round"
         /\ f.did \in Did
         /\ \/ /\ ~f.lost /\ f.did \in topics /\ sdk' = sdk \cup {f.did}
               /\ topics' = topics /\ blame' = blame
               /\ round'.adds = round.adds \ {f.did} /\ round'.added = round.added \cup {f.did}
            \/ /\ sdk' = sdk
               /\ topics' = topics \/ topics' = topics \ {f.did}
               /\ f.did \in topics /\ f.did \notin topics' /\ f.did \in sdk =>
                    <<f.did, "split">> \in blame'
               /\ blame \subseteq blame' /\ blame' \subseteq Did \X {"missed", "split"} \cup blame
               /\ <<f.did, "missed">> \in blame'
               /\ round'.adds = round.adds \ {f.did} /\ round'.added = round.added
<1>1. /\ f.who = "round" /\ flying' = flying \ {f} /\ Subs!Doing /\ f.did \in round.adds
      /\ f.did \in Did /\ round \in RoundType
  BY DEF Subs!RoundSubEnd, SubsInv, Shape, Flights, FlightType, Subs!Doing, Subs!NoRound
<1>2. CASE Subs!Acked(f) /\ Subs!Added(f.did)
  BY <1>1, <1>2, AddedFields DEF Subs!Acked, Subs!Doing
<1>3. CASE Subs!Refused(f) /\ Subs!NotAdded(f.did, {})
  BY <1>1, <1>3, NotAddedFields DEF Subs!Refused, Subs!Doing
<1>4. CASE Subs!Rejected(f) /\ Subs!NotAdded(f.did, Subs!Split(f))
  BY <1>1, <1>4, NotAddedFields DEF Subs!Rejected, Subs!Split, Subs!Blame, Subs!Doing
<1>. QED BY <1>2, <1>3, <1>4 DEF Subs!RoundSubEnd

\* What a round does with a device to remove.
LEMMA RoundUnsubFacts ==
  ASSUME SubsInv, NEW d \in Did, Subs!RoundUnsub(d)
  PROVE  /\ Subs!Doing /\ Subs!Doing' /\ {round, round'} \subseteq RoundType /\ d \in round.removes
         /\ round'.adds = round.adds /\ round'.added = round.added
         /\ round'.removes = round.removes \ {d} /\ round'.removed = round.removed \cup {d}
         /\ round'.gen = round.gen
         /\ sdk' = sdk \ {d} /\ topics' = topics \ {d} /\ flying' = flying /\ blame' = blame
<1>1. Subs!Doing /\ round \in RoundType /\ d \in round.removes
  BY DEF Subs!RoundUnsub, Subs!Doing, SubsInv, Shape, Subs!NoRound
<1>2. round' = [round EXCEPT !.removes = round.removes \ {d}, !.removed = round.removed \cup {d}]
  BY DEF Subs!RoundUnsub
<1>3. /\ round' \in RoundType /\ round'.at = "run" /\ round'.gen = round.gen
      /\ round'.adds = round.adds /\ round'.added = round.added
      /\ round'.removes = round.removes \ {d} /\ round'.removed = round.removed \cup {d}
  BY <1>1, <1>2 DEF RoundType
<1>. QED BY <1>1, <1>3 DEF Subs!RoundUnsub, Subs!Unsubscribe, Subs!Doing

\* No SUBACK comes any more.
LEMMA LostFacts ==
  ASSUME flying \subseteq FlightType, Subs!Lost
  PROVE  /\ flying' \subseteq FlightType /\ \A f \in flying' : f.lost
         /\ \A f \in flying' : \E g \in flying : f = [g EXCEPT !.lost = TRUE]
                                                 /\ f.who = g.who /\ f.did = g.did
BY DEF Subs!Lost, FlightType

\* The queue of events.
LEMMA PushFacts ==
  ASSUME events \in Seq(Event), NEW e \in Event, Subs!Push(e)
  PROVE  /\ events' \in Seq(Event) /\ Len(events') \in Nat /\ Len(events) \in Nat
         /\ Len(events') <= Len(events) + 1
         /\ net = "up" => events' # <<>>
BY DEF Subs!Push

LEMMA TailFacts ==
  ASSUME events \in Seq(Event), events # <<>>, events' = Tail(events)
  PROVE  /\ events' \in Seq(Event) /\ Len(events') = Len(events) - 1 /\ Len(events) \in Nat
         /\ Head(events) \in Event /\ Head(events)[2] \in Did
BY DEF Event

(* Each conjunct of the invariant is kept by every action. *)

LEMMA SubsTypeStep ==
  ASSUME SubsParameters, SubsInv, Subs!Next
  PROVE  Subs!TypeOK'
<1>1. ASSUME NEW d \in Did, Subs!Bind(d)
      PROVE  Subs!TypeOK'
  BY <1>1 DEF Subs!Bind, Subs!Moves, Subs!Push, Subs!listing, Subs!intent, Subs!loop, Subs!wire,
       Subs!TypeOK, Subs!Doing, SubsInv, SubsParameters, Shape, Subs!Blame, Subs!NoRebuild,
       Subs!NoRefresh, Subs!NoRound, RoundType, FlightType, Subs!Flight, Subs!Again
<1>2. ASSUME NEW d \in Did, Subs!Unbind(d)
      PROVE  Subs!TypeOK'
  BY <1>2 DEF Subs!Unbind, Subs!Moves, Subs!Push, Subs!listing, Subs!intent, Subs!loop,
       Subs!wire, Subs!TypeOK, Subs!Doing, SubsInv, SubsParameters, Shape, Subs!Blame,
       Subs!NoRebuild, Subs!NoRefresh, Subs!NoRound, RoundType, FlightType, Subs!Flight,
       Subs!Again
<1>3. CASE Subs!Disconnect
  BY <1>3 DEF Subs!Disconnect, Subs!Moves, Subs!Lost, Subs!listing, Subs!intent, Subs!loop,
       Subs!TypeOK, Subs!Doing, SubsInv, SubsParameters, Shape, Subs!Blame, Subs!NoRebuild,
       Subs!NoRefresh, Subs!NoRound, RoundType, FlightType, Subs!Flight, Subs!Again
<1>4. CASE Subs!UserRefresh
  BY <1>4 DEF Subs!UserRefresh, Subs!Moves, Subs!world, Subs!intent, Subs!loop, Subs!wire,
       Subs!TypeOK, Subs!Doing, SubsInv, SubsParameters, Shape, Subs!Blame, Subs!NoRebuild,
       Subs!NoRefresh, Subs!NoRound, RoundType, FlightType, Subs!Flight, Subs!Again
<1>5. CASE Subs!RebuildBegin
  BY <1>5 DEF Subs!RebuildBegin, Subs!Moves, Subs!NoRebuild, Subs!Lost, Subs!listing,
       Subs!intent, Subs!loop, Subs!TypeOK, Subs!Doing, SubsInv, SubsParameters, Shape,
       Subs!Blame, Subs!NoRefresh, Subs!NoRound, RoundType, FlightType, Subs!Flight, Subs!Again
<1>6. CASE Subs!Reconnect
  BY <1>6 DEF Subs!Reconnect, Subs!intent, Subs!loop, Subs!wire, Subs!TypeOK, Subs!Doing,
       SubsInv, SubsParameters, Shape, Subs!Blame, Subs!NoRound, RoundType, FlightType
<1>7. CASE Subs!OnBind
  <2>1. /\ Head(events)[2] \in Did /\ Len(events') = Len(events) - 1 /\ Len(events) \in Nat
    BY <1>7, TailFacts DEF Subs!OnBind, SubsInv, Shape
  <2>2. {mirror', sdk', topics'} \subseteq SUBSET Did
    BY <1>7, <2>1 DEF Subs!OnBind, Subs!Subscribe, Subs!wire, SubsInv, Subs!TypeOK
  <2>3. /\ UNCHANGED <<direct, bound, net, known, missing, gen, blame, subMoves>>
        /\ UNCHANGED <<syncing, rerun, before, round>> /\ due' = TRUE
    BY <1>7 DEF Subs!OnBind, Subs!loop
  <2>4. {direct', due', missing', syncing', rerun'} \subseteq BOOLEAN
    BY <2>3 DEF SubsInv, Subs!TypeOK
  <2>5. Len(events') <= MaxEvents /\ (Subs!Doing' => round'.gen \in 0 .. gen')
    BY <2>1, <2>3 DEF SubsInv, Subs!TypeOK, Subs!Doing, SubsParameters
  <2>. QED BY <2>2, <2>3, <2>4, <2>5 DEF SubsInv, Subs!TypeOK
<1>8. CASE Subs!OnUnbind
  BY <1>8 DEF Subs!OnUnbind, Subs!Unsubscribe, Subs!loop, Subs!TypeOK, Subs!Doing, SubsInv,
       SubsParameters, Shape, Subs!Blame, Subs!NoRound, RoundType, FlightType
<1>9. ASSUME NEW f \in flying, Subs!BindEnd(f)
      PROVE  Subs!TypeOK'
  BY <1>9 DEF Subs!BindEnd, Subs!Acked, Subs!Blame, Subs!Refused, Subs!Rejected, Subs!Split,
       Subs!world, Subs!listing, Subs!loop, Subs!TypeOK, Subs!Doing, SubsInv, SubsParameters,
       Shape, Subs!NoRound, RoundType, FlightType
<1>10. CASE Subs!RefreshAsk
  BY <1>10 DEF Subs!RefreshAsk, Subs!world, Subs!intent, Subs!loop, Subs!wire, Subs!TypeOK,
       Subs!Doing, SubsInv, SubsParameters, Shape, Subs!Blame, Subs!NoRound, RoundType,
       FlightType
<1>11. CASE Subs!RefreshApply
  BY <1>11 DEF Subs!RefreshApply, Subs!Blame, Subs!Spawn, Subs!world, Subs!intent, Subs!wire,
       Subs!TypeOK, Subs!Doing, SubsInv, SubsParameters, Shape, Subs!NoRound, RoundType,
       FlightType
<1>12. CASE Subs!RefreshFail
  BY <1>12 DEF Subs!RefreshFail, Subs!world, Subs!intent, Subs!loop, Subs!wire, Subs!TypeOK,
       Subs!Doing, SubsInv, SubsParameters, Shape, Subs!Blame, Subs!NoRound, RoundType,
       FlightType
<1>13. CASE Subs!RoundBegin
  <2>1. /\ gen \in Nat /\ gen' = gen /\ before' = gen /\ blame' \subseteq blame
        /\ round' = Subs!NoRound \/ round'.gen = gen
    BY <1>13 DEF Subs!RoundBegin, Subs!Blame, Subs!intent, SubsInv, Subs!TypeOK
  <2>2. Subs!Doing' => round'.gen \in 0 .. gen'
    BY <2>1 DEF Subs!Doing, Subs!NoRound
  <2>3. /\ UNCHANGED <<bound, known, net, events, direct, due, missing, syncing>>
        /\ UNCHANGED <<mirror, sdk, topics, subMoves>> /\ rerun' = FALSE
    BY <1>13 DEF Subs!RoundBegin, Subs!world, Subs!listing, Subs!intent, Subs!wire
  <2>4. before' \in -1 .. gen' /\ gen' \in 0 .. MaxMoves
    BY <2>1 DEF SubsInv, Subs!TypeOK
  <2>. QED BY <2>1, <2>2, <2>3, <2>4 DEF SubsInv, Subs!TypeOK
<1>14. CASE Subs!RoundCommit
  BY <1>14 DEF Subs!RoundCommit, Subs!Doing, Subs!NoRound, Subs!Valid, Subs!Blame, Subs!world,
       Subs!listing, Subs!wire, Subs!TypeOK, SubsInv, SubsParameters, Shape, RoundType,
       FlightType
<1>15. CASE Subs!LoopTurn
  BY <1>15 DEF Subs!LoopTurn, Subs!Doing, Subs!Again, Subs!world, Subs!listing, Subs!intent,
       Subs!wire, Subs!TypeOK, SubsInv, SubsParameters, Shape, Subs!Blame, Subs!NoRebuild,
       Subs!NoRefresh, Subs!NoRound, RoundType, FlightType, Subs!Moves, Subs!Flight
<1>16. ASSUME NEW d \in Did, Subs!RoundSub(d)
      PROVE  Subs!TypeOK'
  BY <1>16, RoundSubFacts DEF Subs!RoundSub, Subs!world, Subs!listing, Subs!intent, SubsInv,
       Subs!TypeOK
<1>17. ASSUME NEW d \in Did, Subs!RoundUnsub(d)
      PROVE  Subs!TypeOK'
  BY <1>17, RoundUnsubFacts DEF Subs!RoundUnsub, Subs!world, Subs!listing, Subs!intent, SubsInv,
       Subs!TypeOK
<1>18. ASSUME NEW f \in flying, Subs!RoundSubEnd(f)
      PROVE  Subs!TypeOK'
  <2>1. /\ f.did \in Did /\ Subs!Doing' /\ round'.gen = round.gen /\ Subs!Doing
        /\ sdk' \in {sdk, sdk \cup {f.did}} /\ topics' \in {topics, topics \ {f.did}}
        /\ blame' \subseteq Did \X {"missed", "split"} \cup blame
    BY <1>18, RoundSubEndFacts
  <2>2. UNCHANGED <<direct, bound, net, events, known, due, missing, coming, mirror, gen,
                    syncing, rerun, before, rebuild, subMoves>>
    BY <1>18 DEF Subs!RoundSubEnd, Subs!world, Subs!listing, Subs!intent
  <2>3. Subs!TypeOK /\ sdk' \subseteq Did /\ topics' \subseteq Did
    BY <2>1 DEF SubsInv, Subs!TypeOK
  <2>4. blame' \subseteq Did \X {"missed", "torn", "late", "split"}
    BY <2>1, <2>3 DEF Subs!TypeOK
  <2>. QED BY <2>1, <2>2, <2>3, <2>4 DEF Subs!TypeOK
<1>19. CASE Subs!RebuildUp
  BY <1>19 DEF Subs!RebuildUp, Subs!listing, Subs!intent, Subs!loop, Subs!wire, Subs!TypeOK,
       Subs!Doing, SubsInv, SubsParameters, Shape, Subs!Blame, Subs!NoRound, RoundType,
       FlightType
<1>20. CASE Subs!ReplayBegin
  BY <1>20 DEF Subs!ReplayBegin, Subs!world, Subs!listing, Subs!intent, Subs!loop, Subs!TypeOK,
       Subs!Doing, SubsInv, SubsParameters, Shape, Subs!Blame, Subs!NoRound, RoundType,
       FlightType
<1>21. CASE Subs!RebuildEnd
  BY <1>21 DEF Subs!RebuildEnd, Subs!NoRebuild, Subs!Reset, Subs!world, Subs!loop, Subs!Blame,
       Subs!TypeOK, Subs!Doing, SubsInv, SubsParameters, Shape, Subs!NoRefresh, Subs!NoRound,
       RoundType, FlightType, Subs!Moves, Subs!Flight, Subs!Again
<1>22. ASSUME NEW d \in Did, Subs!Replay(d)
      PROVE  Subs!TypeOK'
  BY <1>22 DEF Subs!Replay, Subs!Subscribe, Subs!Unavailable, Subs!wire, Subs!world,
       Subs!listing, Subs!intent, Subs!loop, Subs!TypeOK, Subs!Doing, SubsInv, SubsParameters,
       Shape, Subs!Blame, Subs!NoRound, RoundType, FlightType
<1>23. ASSUME NEW f \in flying, Subs!ReplayEnd(f)
      PROVE  Subs!TypeOK'
  BY <1>23 DEF Subs!ReplayEnd, Subs!Acked, Subs!Refused, Subs!Rejected, Subs!Split, Subs!world,
       Subs!listing, Subs!intent, Subs!loop, Subs!Blame, Subs!TypeOK, Subs!Doing, SubsInv,
       SubsParameters, Shape, Subs!NoRound, RoundType, FlightType
<1>24. CASE Subs!RebuildFail
  BY <1>24 DEF Subs!RebuildFail, Subs!NoRebuild, Subs!Reset, Subs!world, Subs!listing,
       Subs!loop, Subs!Blame, Subs!TypeOK, Subs!Doing, SubsInv, SubsParameters, Shape,
       Subs!NoRefresh, Subs!NoRound, RoundType, FlightType, Subs!Moves, Subs!Flight, Subs!Again
<1>. QED BY <1>1, <1>2, <1>3, <1>4, <1>5, <1>6, <1>7, <1>8, <1>9, <1>10, <1>11, <1>12,
         <1>13, <1>14, <1>15, <1>16, <1>17, <1>18, <1>19, <1>20, <1>21, <1>22, <1>23,
         <1>24, Zenon DEF Subs!Next, Subs!World, Subs!Events, Subs!Refresh, Subs!Sync, Subs!Rebuild

LEMMA ShapeStep ==
  ASSUME SubsParameters, SubsInv, Subs!Next
  PROVE  Shape'
<1>1. ASSUME NEW d \in Did, Subs!Bind(d)
      PROVE  Shape'
  <2>1. <<"bind", d>> \in Event
    BY DEF Event
  <2>2. /\ events' \in Seq(Event) /\ Len(events') \in Nat /\ Len(events) \in Nat
        /\ Len(events') <= Len(events) + 1
    BY <1>1, <2>1, PushFacts DEF Subs!Bind, SubsInv, Shape
  <2>. QED BY <1>1, <2>2 DEF Subs!Bind, Subs!Moves, Subs!listing, Subs!intent, Subs!loop,
       Subs!wire, SubsInv, Subs!TypeOK, Shape, SubsParameters
<1>2. ASSUME NEW d \in Did, Subs!Unbind(d)
      PROVE  Shape'
  <2>1. <<"unbind", d>> \in Event
    BY DEF Event
  <2>2. /\ events' \in Seq(Event) /\ Len(events') \in Nat /\ Len(events) \in Nat
        /\ Len(events') <= Len(events) + 1
    BY <1>2, <2>1, PushFacts DEF Subs!Unbind, SubsInv, Shape
  <2>. QED BY <1>2, <2>2 DEF Subs!Unbind, Subs!Moves, Subs!listing, Subs!intent, Subs!loop,
       Subs!wire, SubsInv, Subs!TypeOK, Shape, SubsParameters
<1>3. CASE Subs!Disconnect
  <2>1. flying' \subseteq FlightType
    BY <1>3, LostFacts DEF Subs!Disconnect, SubsInv, Shape
  <2>2. events' \in Seq(Event) /\ Len(events') = 0 /\ Len(events) \in Nat
    BY <1>3 DEF Subs!Disconnect, SubsInv, Shape
  <2>. QED BY <1>3, <2>1, <2>2 DEF Subs!Disconnect, Subs!Moves, Subs!listing, Subs!intent,
       Subs!loop, Subs!NoRebuild, SubsInv, Subs!TypeOK, Shape, SubsParameters
<1>4. CASE Subs!UserRefresh
  BY <1>4 DEF Subs!UserRefresh, Subs!Moves, Subs!world, Subs!intent, Subs!loop, Subs!wire,
       Shape, Event, Subs!NoRefresh, Subs!NoRound, RoundType, FlightType, Subs!NoRebuild,
       SubsInv, Subs!TypeOK, SubsParameters, Subs!Flight, Subs!Doing
<1>5. CASE Subs!RebuildBegin
  <2>1. flying' \subseteq FlightType
    BY <1>5, LostFacts DEF Subs!RebuildBegin, SubsInv, Shape
  <2>2. events' \in Seq(Event) /\ Len(events') = 0 /\ Len(events) \in Nat
    BY <1>5 DEF Subs!RebuildBegin, SubsInv, Shape
  <2>. QED BY <1>5, <2>1, <2>2 DEF Subs!RebuildBegin, Subs!Moves, Subs!listing, Subs!intent,
       Subs!loop, Subs!NoRebuild, SubsInv, Subs!TypeOK, Shape, SubsParameters
<1>6. CASE Subs!Reconnect
  BY <1>6 DEF Subs!Reconnect, Subs!intent, Subs!loop, Subs!wire, Shape, Event, SubsInv
<1>7. CASE Subs!OnBind
  <2>1. /\ events' \in Seq(Event) /\ Len(events') = Len(events) - 1 /\ Len(events) \in Nat
        /\ Head(events)[2] \in Did
    BY <1>7, TailFacts DEF Subs!OnBind, SubsInv, Shape
  <2>2. flying' = flying \/ flying' = flying \cup {Subs!Flight("bind", Head(events)[2])}
    BY <1>7 DEF Subs!OnBind, Subs!Subscribe, Subs!wire
  <2>3. flying' \subseteq FlightType
    BY <2>1, <2>2, NewFlight DEF SubsInv, Shape
  <2>. QED BY <1>7, <2>1, <2>3 DEF Subs!OnBind, Subs!loop, SubsInv, Subs!TypeOK, Shape,
       SubsParameters
<1>8. CASE Subs!OnUnbind
  <2>1. /\ events' \in Seq(Event) /\ Len(events') = Len(events) - 1 /\ Len(events) \in Nat
        /\ Head(events)[2] \in Did
    BY <1>8, TailFacts DEF Subs!OnUnbind, SubsInv, Shape
  <2>2. flying' = flying \/ flying' = flying \cup {Subs!Flight("bind", Head(events)[2])}
    BY <1>8 DEF Subs!OnUnbind, Subs!Subscribe, Subs!wire
  <2>3. flying' \subseteq FlightType
    BY <2>1, <2>2, NewFlight DEF SubsInv, Shape
  <2>. QED BY <1>8, <2>1, <2>3 DEF Subs!OnUnbind, Subs!loop, SubsInv, Subs!TypeOK, Shape,
       SubsParameters
<1>9. ASSUME NEW f \in flying, Subs!BindEnd(f)
      PROVE  Shape'
  BY <1>9 DEF Subs!BindEnd, Subs!Acked, Subs!Refused, Subs!Rejected, Subs!Split, Subs!world,
       Subs!listing, Subs!loop, Shape, Event, SubsInv
<1>10. CASE Subs!RefreshAsk
  BY <1>10 DEF Subs!RefreshAsk, Subs!NoRefresh, Subs!world, Subs!intent, Subs!loop, Subs!wire,
       Shape, Event, Subs!NoRound, RoundType, FlightType, Subs!NoRebuild, SubsInv, Subs!TypeOK,
       SubsParameters, Subs!Moves, Subs!Flight, Subs!Doing
<1>11. CASE Subs!RefreshApply
  BY <1>11 DEF Subs!RefreshApply, Subs!Spawn, Subs!world, Subs!intent, Subs!wire, Shape, Event,
       SubsInv
<1>12. CASE Subs!RefreshFail
  BY <1>12 DEF Subs!RefreshFail, Subs!world, Subs!intent, Subs!loop, Subs!wire, Shape, Event,
       SubsInv
<1>13. CASE Subs!RoundBegin
  BY <1>13 DEF Subs!RoundBegin, Subs!NoRound, Subs!world, Subs!listing, Subs!intent, Subs!wire,
       Shape, Event, Subs!NoRefresh, RoundType, FlightType, Subs!NoRebuild, SubsInv,
       Subs!TypeOK, SubsParameters, Subs!Moves, Subs!Flight, Subs!Doing
<1>14. CASE Subs!RoundCommit
  BY <1>14 DEF Subs!RoundCommit, Subs!Valid, Subs!world, Subs!listing, Subs!wire, Shape, Event,
       SubsInv
<1>15. CASE Subs!LoopTurn
  BY <1>15 DEF Subs!LoopTurn, Subs!world, Subs!listing, Subs!intent, Subs!wire, Shape, Event,
       SubsInv
<1>16. ASSUME NEW d \in Did, Subs!RoundSub(d)
      PROVE  Shape'
  <2>1. flying' \subseteq FlightType
    BY RoundSubFacts, NewFlight, <1>16 DEF SubsInv, Shape
  <2>. QED BY <1>16, <2>1, RoundSubFacts DEF Subs!RoundSub, Subs!world, Subs!listing,
       Subs!intent, SubsInv, Shape
<1>17. ASSUME NEW d \in Did, Subs!RoundUnsub(d)
      PROVE  Shape'
  BY <1>17, RoundUnsubFacts DEF Subs!RoundUnsub, Subs!world, Subs!listing, Subs!intent, SubsInv,
       Shape
<1>18. ASSUME NEW f \in flying, Subs!RoundSubEnd(f)
      PROVE  Shape'
  BY <1>18, RoundSubEndFacts DEF Subs!RoundSubEnd, Subs!world, Subs!listing, Subs!intent,
       SubsInv, Shape
<1>19. CASE Subs!RebuildUp
  BY <1>19 DEF Subs!RebuildUp, Subs!listing, Subs!intent, Subs!loop, Subs!wire, Shape, Event,
       Subs!NoRefresh, Subs!NoRound, Subs!NoRebuild, SubsInv
<1>20. CASE Subs!ReplayBegin
  BY <1>20 DEF Subs!ReplayBegin, Subs!world, Subs!listing, Subs!intent, Subs!loop, Shape, Event,
       Subs!NoRefresh, Subs!NoRound, RoundType, FlightType, Subs!NoRebuild, SubsInv,
       Subs!TypeOK, SubsParameters, Subs!Moves, Subs!Flight, Subs!Doing
<1>21. CASE Subs!RebuildEnd
  BY <1>21 DEF Subs!RebuildEnd, Subs!NoRebuild, Subs!Reset, Subs!world, Subs!loop, Shape, Event,
       Subs!NoRefresh, Subs!NoRound, RoundType, FlightType, SubsInv, Subs!TypeOK,
       SubsParameters, Subs!Moves, Subs!Flight, Subs!Doing
<1>22. ASSUME NEW d \in Did, Subs!Replay(d)
      PROVE  Shape'
  <2>1. flying' \subseteq FlightType
    BY <1>22, NewFlight DEF Subs!Replay, Subs!Subscribe, Subs!wire, SubsInv, Shape
  <2>2. /\ rebuild' \in [at : {"replay"}, todo : SUBSET Did]
        /\ rebuild' # Subs!NoRebuild /\ rebuild # Subs!NoRebuild
    BY <1>22 DEF Subs!Replay, SubsInv, Shape, Subs!NoRebuild
  <2>. QED BY <1>22, <2>1, <2>2 DEF Subs!Replay, Subs!world, Subs!listing, Subs!intent,
       Subs!loop, SubsInv, Shape
<1>23. ASSUME NEW f \in flying, Subs!ReplayEnd(f)
      PROVE  Shape'
  BY <1>23 DEF Subs!ReplayEnd, Subs!Acked, Subs!Refused, Subs!Rejected, Subs!Split, Subs!world,
       Subs!listing, Subs!intent, Subs!loop, Shape, Event, SubsInv
<1>24. CASE Subs!RebuildFail
  BY <1>24 DEF Subs!RebuildFail, Subs!NoRebuild, Subs!Reset, Subs!world, Subs!listing,
       Subs!loop, Shape, Event, Subs!NoRefresh, Subs!NoRound, RoundType, FlightType, SubsInv,
       Subs!TypeOK, SubsParameters, Subs!Moves, Subs!Flight, Subs!Doing
<1>. QED BY <1>1, <1>2, <1>3, <1>4, <1>5, <1>6, <1>7, <1>8, <1>9, <1>10, <1>11, <1>12,
         <1>13, <1>14, <1>15, <1>16, <1>17, <1>18, <1>19, <1>20, <1>21, <1>22, <1>23,
         <1>24, Zenon DEF Subs!Next, Subs!World, Subs!Events, Subs!Refresh, Subs!Sync, Subs!Rebuild

LEMMA LoopShapeStep ==
  ASSUME SubsParameters, SubsInv, Subs!Next
  PROVE  LoopShape'
<1>1. ASSUME NEW d \in Did, Subs!Bind(d)
      PROVE  LoopShape'
  BY <1>1 DEF Subs!Bind, Subs!Push, Subs!listing, Subs!intent, Subs!loop, Subs!wire, LoopShape,
       Subs!Doing, SubsInv
<1>2. ASSUME NEW d \in Did, Subs!Unbind(d)
      PROVE  LoopShape'
  BY <1>2 DEF Subs!Unbind, Subs!Push, Subs!listing, Subs!intent, Subs!loop, Subs!wire,
       LoopShape, Subs!Doing, SubsInv
<1>3. CASE Subs!Disconnect
  BY <1>3 DEF Subs!Disconnect, Subs!Lost, Subs!listing, Subs!intent, Subs!loop, LoopShape,
       Subs!Doing, SubsInv
<1>4. CASE Subs!UserRefresh
  BY <1>4 DEF Subs!UserRefresh, Subs!world, Subs!intent, Subs!loop, Subs!wire, LoopShape,
       Subs!Doing, SubsInv
<1>5. CASE Subs!RebuildBegin
  BY <1>5 DEF Subs!RebuildBegin, Subs!Lost, Subs!listing, Subs!intent, Subs!loop, LoopShape,
       Subs!Doing, SubsInv
<1>6. CASE Subs!Reconnect
  BY <1>6 DEF Subs!Reconnect, Subs!intent, Subs!loop, Subs!wire, LoopShape, Subs!Doing, SubsInv
<1>7. CASE Subs!OnBind
  BY <1>7 DEF Subs!OnBind, Subs!Subscribe, Subs!wire, Subs!Unavailable, Subs!loop, LoopShape,
       Subs!Doing, SubsInv
<1>8. CASE Subs!OnUnbind
  BY <1>8 DEF Subs!OnUnbind, Subs!Unsubscribe, Subs!loop, LoopShape, Subs!Doing, SubsInv
<1>9. ASSUME NEW f \in flying, Subs!BindEnd(f)
      PROVE  LoopShape'
  BY <1>9 DEF Subs!BindEnd, Subs!Acked, Subs!Refused, Subs!Rejected, Subs!Split, Subs!world,
       Subs!listing, Subs!loop, LoopShape, Subs!Doing, SubsInv
<1>10. CASE Subs!RefreshAsk
  BY <1>10 DEF Subs!RefreshAsk, Subs!world, Subs!intent, Subs!loop, Subs!wire, LoopShape,
       Subs!Doing, SubsInv
<1>11. CASE Subs!RefreshApply
  BY <1>11 DEF Subs!RefreshApply, Subs!Spawn, Subs!world, Subs!intent, Subs!wire, LoopShape,
       Subs!Doing, SubsInv
<1>12. CASE Subs!RefreshFail
  BY <1>12 DEF Subs!RefreshFail, Subs!world, Subs!intent, Subs!loop, Subs!wire, LoopShape,
       Subs!Doing, SubsInv
<1>13. CASE Subs!RoundBegin
  BY <1>13 DEF Subs!RoundBegin, Subs!NoRound, Subs!world, Subs!listing, Subs!intent, Subs!wire,
       LoopShape, Subs!Doing, SubsInv, Subs!Again, Subs!TypeOK, Shape, RoundType
<1>14. CASE Subs!RoundCommit
  BY <1>14 DEF Subs!RoundCommit, Subs!Doing, Subs!NoRound, Subs!Valid, Subs!world, Subs!listing,
       Subs!wire, LoopShape, SubsInv, Subs!Again
<1>15. CASE Subs!LoopTurn
  BY <1>15 DEF Subs!LoopTurn, Subs!Doing, Subs!world, Subs!listing, Subs!intent, Subs!wire,
       LoopShape, SubsInv
<1>16. ASSUME NEW d \in Did, Subs!RoundSub(d)
      PROVE  LoopShape'
  BY <1>16, RoundSubFacts DEF Subs!RoundSub, Subs!world, Subs!listing, Subs!intent, SubsInv,
       LoopShape
<1>17. ASSUME NEW d \in Did, Subs!RoundUnsub(d)
      PROVE  LoopShape'
  <2>1. /\ Subs!Doing /\ round'.gen = round.gen /\ round'.adds = round.adds
        /\ round'.added = round.added
        /\ round'.removes \cup round'.removed = round.removes \cup round.removed
    BY <1>17, RoundUnsubFacts
  <2>2. UNCHANGED <<known, syncing, rerun, before>>
    BY <1>17 DEF Subs!RoundUnsub, Subs!listing
  <2>. QED BY <2>1, <2>2 DEF SubsInv, LoopShape
<1>18. ASSUME NEW f \in flying, Subs!RoundSubEnd(f)
      PROVE  LoopShape'
  <2>1. /\ Subs!Doing /\ round'.removes = round.removes /\ round'.removed = round.removed
        /\ round'.gen = round.gen /\ round'.adds \cup round'.added \subseteq round.adds \cup round.added
    BY <1>18, RoundSubEndFacts
  <2>2. syncing' = syncing /\ before' = before /\ rerun' = rerun /\ known' = known
    BY <1>18 DEF Subs!RoundSubEnd, Subs!listing
  <2>. QED BY <2>1, <2>2 DEF SubsInv, LoopShape
<1>19. CASE Subs!RebuildUp
  BY <1>19 DEF Subs!RebuildUp, Subs!listing, Subs!intent, Subs!loop, Subs!wire, LoopShape,
       Subs!Doing, SubsInv
<1>20. CASE Subs!ReplayBegin
  BY <1>20 DEF Subs!ReplayBegin, Subs!world, Subs!listing, Subs!intent, Subs!loop, LoopShape,
       Subs!Doing, SubsInv
<1>21. CASE Subs!RebuildEnd
  BY <1>21 DEF Subs!RebuildEnd, Subs!Reset, Subs!world, Subs!loop, LoopShape, Subs!Doing, SubsInv
<1>22. ASSUME NEW d \in Did, Subs!Replay(d)
      PROVE  LoopShape'
  BY <1>22 DEF Subs!Replay, Subs!Subscribe, Subs!Unavailable, Subs!wire, Subs!world,
       Subs!listing, Subs!intent, Subs!loop, LoopShape, Subs!Doing, SubsInv
<1>23. ASSUME NEW f \in flying, Subs!ReplayEnd(f)
      PROVE  LoopShape'
  BY <1>23 DEF Subs!ReplayEnd, Subs!Acked, Subs!Refused, Subs!Rejected, Subs!Split, Subs!world,
       Subs!listing, Subs!intent, Subs!loop, LoopShape, Subs!Doing, SubsInv
<1>24. CASE Subs!RebuildFail
  BY <1>24 DEF Subs!RebuildFail, Subs!Reset, Subs!world, Subs!listing, Subs!loop, LoopShape,
       Subs!Doing, SubsInv
<1>. QED BY <1>1, <1>2, <1>3, <1>4, <1>5, <1>6, <1>7, <1>8, <1>9, <1>10, <1>11, <1>12,
         <1>13, <1>14, <1>15, <1>16, <1>17, <1>18, <1>19, <1>20, <1>21, <1>22, <1>23,
         <1>24, Zenon DEF Subs!Next, Subs!World, Subs!Events, Subs!Refresh, Subs!Sync, Subs!Rebuild

LEMMA FlightsStep ==
  ASSUME SubsParameters, SubsInv, Subs!Next
  PROVE  Flights'
<1>1. ASSUME NEW d \in Did, Subs!Bind(d)
      PROVE  Flights'
  BY <1>1 DEF Subs!Bind, Subs!Push, Subs!listing, Subs!intent, Subs!loop, Subs!wire, Flights,
       Subs!Doing, SubsInv
<1>2. ASSUME NEW d \in Did, Subs!Unbind(d)
      PROVE  Flights'
  BY <1>2 DEF Subs!Unbind, Subs!Push, Subs!listing, Subs!intent, Subs!loop, Subs!wire, Flights,
       Subs!Doing, SubsInv
<1>3. CASE Subs!Disconnect
  <2>1. /\ \A f \in flying' : f.lost
        /\ \A f \in flying' : \E g \in flying : f = [g EXCEPT !.lost = TRUE]
                                               /\ f.who = g.who /\ f.did = g.did
    BY <1>3, LostFacts DEF Subs!Disconnect, SubsInv, Shape
  <2>2. \A f, g \in flying' : f.who = "round" /\ g.who = "round" /\ f.did = g.did => f = g
    <3>. SUFFICES ASSUME NEW f \in flying', NEW g \in flying',
                         f.who = "round", g.who = "round", f.did = g.did
                  PROVE  f = g
      OBVIOUS
    <3>1. PICK a \in flying : f = [a EXCEPT !.lost = TRUE] /\ f.who = a.who /\ f.did = a.did
      BY <2>1
    <3>2. PICK b \in flying : g = [b EXCEPT !.lost = TRUE] /\ g.who = b.who /\ g.did = b.did
      BY <2>1
    <3>3. a = b
      BY <3>1, <3>2 DEF SubsInv, Flights
    <3>. QED BY <3>1, <3>2, <3>3
  <2>. QED BY <1>3, <2>1, <2>2 DEF Subs!Disconnect, Subs!loop, SubsInv, Flights, Subs!Doing
<1>4. CASE Subs!UserRefresh
  BY <1>4 DEF Subs!UserRefresh, Subs!world, Subs!intent, Subs!loop, Subs!wire, Flights,
       Subs!Doing, SubsInv
<1>5. CASE Subs!RebuildBegin
  <2>1. /\ \A f \in flying' : f.lost
        /\ \A f \in flying' : \E g \in flying : f = [g EXCEPT !.lost = TRUE]
                                               /\ f.who = g.who /\ f.did = g.did
    BY <1>5, LostFacts DEF Subs!RebuildBegin, SubsInv, Shape
  <2>2. \A f, g \in flying' : f.who = "round" /\ g.who = "round" /\ f.did = g.did => f = g
    <3>. SUFFICES ASSUME NEW f \in flying', NEW g \in flying',
                         f.who = "round", g.who = "round", f.did = g.did
                  PROVE  f = g
      OBVIOUS
    <3>1. PICK a \in flying : f = [a EXCEPT !.lost = TRUE] /\ f.who = a.who /\ f.did = a.did
      BY <2>1
    <3>2. PICK b \in flying : g = [b EXCEPT !.lost = TRUE] /\ g.who = b.who /\ g.did = b.did
      BY <2>1
    <3>3. a = b
      BY <3>1, <3>2 DEF SubsInv, Flights
    <3>. QED BY <3>1, <3>2, <3>3
  <2>. QED BY <1>5, <2>1, <2>2 DEF Subs!RebuildBegin, Subs!loop, Subs!NoRebuild, SubsInv,
       Flights, Subs!Doing
<1>6. CASE Subs!Reconnect
  BY <1>6 DEF Subs!Reconnect, Subs!intent, Subs!loop, Subs!wire, Flights, Subs!Doing, SubsInv
<1>7. CASE Subs!OnBind
  BY <1>7 DEF Subs!OnBind, Subs!Subscribe, Subs!wire, Subs!Unavailable, Subs!loop, Subs!Flight,
       Flights, Subs!Doing, SubsInv, Subs!NoRebuild, Subs!NoRound, Subs!InFlight
<1>8. CASE Subs!OnUnbind
  BY <1>8 DEF Subs!OnUnbind, Subs!Unsubscribe, Subs!loop, Flights, Subs!Doing, SubsInv
<1>9. ASSUME NEW f \in flying, Subs!BindEnd(f)
      PROVE  Flights'
  BY <1>9 DEF Subs!BindEnd, Subs!Acked, Subs!Refused, Subs!Rejected, Subs!Split, Subs!world,
       Subs!listing, Subs!loop, Flights, Subs!Doing, SubsInv
<1>10. CASE Subs!RefreshAsk
  BY <1>10 DEF Subs!RefreshAsk, Subs!world, Subs!intent, Subs!loop, Subs!wire, Flights,
       Subs!Doing, SubsInv
<1>11. CASE Subs!RefreshApply
  BY <1>11 DEF Subs!RefreshApply, Subs!Spawn, Subs!world, Subs!intent, Subs!wire, Flights,
       Subs!Doing, SubsInv
<1>12. CASE Subs!RefreshFail
  BY <1>12 DEF Subs!RefreshFail, Subs!world, Subs!intent, Subs!loop, Subs!wire, Flights,
       Subs!Doing, SubsInv
<1>13. CASE Subs!RoundBegin
  BY <1>13 DEF Subs!RoundBegin, Subs!NoRound, Subs!world, Subs!listing, Subs!intent, Subs!wire,
       Flights, Subs!Doing, SubsInv, LoopShape, Subs!TypeOK, Shape, RoundType, FlightType,
       Subs!Flight, Subs!NoRebuild, Subs!InFlight
<1>14. CASE Subs!RoundCommit
  BY <1>14 DEF Subs!RoundCommit, Subs!Doing, Subs!Valid, Subs!world, Subs!listing, Subs!wire,
       Flights, SubsInv
<1>15. CASE Subs!LoopTurn
  BY <1>15 DEF Subs!LoopTurn, Subs!Doing, Subs!world, Subs!listing, Subs!intent, Subs!wire,
       Flights, SubsInv
<1>16. ASSUME NEW d \in Did, Subs!RoundSub(d)
      PROVE  Flights'
  <2>1. \A g \in flying : g.who = "round" => g.did # d
    BY <1>16, RoundSubFacts DEF Subs!InFlight
  <2>2. Subs!Flight("round", d) = [who |-> "round", did |-> d, lost |-> FALSE]
    BY DEF Subs!Flight
  <2>. QED BY <1>16, <2>1, <2>2, RoundSubFacts DEF Subs!RoundSub, Subs!world, SubsInv, Flights
<1>17. ASSUME NEW d \in Did, Subs!RoundUnsub(d)
      PROVE  Flights'
  BY <1>17, RoundUnsubFacts DEF Subs!RoundUnsub, Subs!world, SubsInv, Flights
<1>18. ASSUME NEW f \in flying, Subs!RoundSubEnd(f)
      PROVE  Flights'
  BY <1>18, RoundSubEndFacts DEF Subs!RoundSubEnd, Subs!world, SubsInv, Flights
<1>19. CASE Subs!RebuildUp
  BY <1>19 DEF Subs!RebuildUp, Subs!listing, Subs!intent, Subs!loop, Subs!wire, Flights,
       Subs!Doing, SubsInv
<1>20. CASE Subs!ReplayBegin
  BY <1>20 DEF Subs!ReplayBegin, Subs!world, Subs!listing, Subs!intent, Subs!loop, Flights,
       Subs!Doing, SubsInv
<1>21. CASE Subs!RebuildEnd
  BY <1>21 DEF Subs!RebuildEnd, Subs!NoRebuild, Subs!Reset, Subs!world, Subs!loop, Flights,
       Subs!Doing, SubsInv, Subs!NoRound, Subs!InFlight, Subs!Flight
<1>22. ASSUME NEW d \in Did, Subs!Replay(d)
      PROVE  Flights'
  <2>1. rebuild'.at = "replay" /\ rebuild.at = "replay"
    BY <1>22 DEF Subs!Replay, SubsInv, Shape, Subs!NoRebuild
  <2>2. Subs!Flight("replay", d) = [who |-> "replay", did |-> d, lost |-> FALSE]
    BY DEF Subs!Flight
  <2>. QED BY <1>22, <2>1, <2>2 DEF Subs!Replay, Subs!Subscribe, Subs!wire, Subs!world,
       Subs!loop, SubsInv, Flights, Subs!Doing
<1>23. ASSUME NEW f \in flying, Subs!ReplayEnd(f)
      PROVE  Flights'
  BY <1>23 DEF Subs!ReplayEnd, Subs!Acked, Subs!Refused, Subs!Rejected, Subs!Split, Subs!world,
       Subs!listing, Subs!intent, Subs!loop, Flights, Subs!Doing, SubsInv
<1>24. CASE Subs!RebuildFail
  BY <1>24 DEF Subs!RebuildFail, Subs!Reset, Subs!world, Subs!listing, Subs!loop, Flights,
       Subs!Doing, SubsInv
<1>. QED BY <1>1, <1>2, <1>3, <1>4, <1>5, <1>6, <1>7, <1>8, <1>9, <1>10, <1>11, <1>12,
         <1>13, <1>14, <1>15, <1>16, <1>17, <1>18, <1>19, <1>20, <1>21, <1>22, <1>23,
         <1>24, Zenon DEF Subs!Next, Subs!World, Subs!Events, Subs!Refresh, Subs!Sync, Subs!Rebuild

LEMMA TopicsHeldStep ==
  ASSUME SubsParameters, SubsInv, Subs!Next
  PROVE  TopicsHeld'
<1>1. ASSUME NEW d \in Did, Subs!Bind(d)
      PROVE  TopicsHeld'
  BY <1>1 DEF Subs!Bind, Subs!Push, Subs!listing, Subs!intent, Subs!loop, Subs!wire, TopicsHeld,
       SubsInv
<1>2. ASSUME NEW d \in Did, Subs!Unbind(d)
      PROVE  TopicsHeld'
  BY <1>2 DEF Subs!Unbind, Subs!Push, Subs!listing, Subs!intent, Subs!loop, Subs!wire,
       TopicsHeld, SubsInv
<1>3. CASE Subs!Disconnect
  BY <1>3 DEF Subs!Disconnect, Subs!Lost, Subs!listing, Subs!intent, Subs!loop, TopicsHeld,
       SubsInv
<1>4. CASE Subs!UserRefresh
  BY <1>4 DEF Subs!UserRefresh, Subs!world, Subs!intent, Subs!loop, Subs!wire, TopicsHeld, SubsInv
<1>5. CASE Subs!RebuildBegin
  BY <1>5 DEF Subs!RebuildBegin, Subs!Lost, Subs!listing, Subs!intent, Subs!loop, TopicsHeld,
       SubsInv
<1>6. CASE Subs!Reconnect
  BY <1>6 DEF Subs!Reconnect, Subs!intent, Subs!loop, Subs!wire, TopicsHeld, SubsInv
<1>7. CASE Subs!OnBind
  BY <1>7 DEF Subs!OnBind, Subs!Subscribe, Subs!wire, Subs!Unavailable, Subs!loop, TopicsHeld,
       SubsInv
<1>8. CASE Subs!OnUnbind
  BY <1>8 DEF Subs!OnUnbind, Subs!Unsubscribe, Subs!loop, TopicsHeld, SubsInv
<1>9. ASSUME NEW f \in flying, Subs!BindEnd(f)
      PROVE  TopicsHeld'
  BY <1>9 DEF Subs!BindEnd, Subs!Acked, Subs!Blame, Subs!Refused, Subs!Rejected, Subs!Split,
       Subs!world, Subs!listing, Subs!loop, TopicsHeld, SubsInv
<1>10. CASE Subs!RefreshAsk
  BY <1>10 DEF Subs!RefreshAsk, Subs!world, Subs!intent, Subs!loop, Subs!wire, TopicsHeld, SubsInv
<1>11. CASE Subs!RefreshApply
  BY <1>11 DEF Subs!RefreshApply, Subs!Blame, Subs!Spawn, Subs!world, Subs!intent, Subs!wire,
       TopicsHeld, SubsInv
<1>12. CASE Subs!RefreshFail
  BY <1>12 DEF Subs!RefreshFail, Subs!world, Subs!intent, Subs!loop, Subs!wire, TopicsHeld,
       SubsInv
<1>13. CASE Subs!RoundBegin
  BY <1>13 DEF Subs!RoundBegin, Subs!Blame, Subs!world, Subs!listing, Subs!intent, Subs!wire,
       TopicsHeld, SubsInv
<1>14. CASE Subs!RoundCommit
  BY <1>14 DEF Subs!RoundCommit, Subs!Valid, Subs!world, Subs!listing, Subs!wire, TopicsHeld,
       SubsInv
<1>15. CASE Subs!LoopTurn
  BY <1>15 DEF Subs!LoopTurn, Subs!world, Subs!listing, Subs!intent, Subs!wire, TopicsHeld,
       SubsInv
<1>16. ASSUME NEW d \in Did, Subs!RoundSub(d)
      PROVE  TopicsHeld'
  <2>1. sdk' = sdk /\ topics \subseteq topics' /\ blame \subseteq blame'
    BY <1>16, RoundSubFacts
  <2>2. rebuild' = rebuild
    BY <1>16 DEF Subs!RoundSub
  <2>. QED BY <2>1, <2>2 DEF SubsInv, TopicsHeld
<1>17. ASSUME NEW d \in Did, Subs!RoundUnsub(d)
      PROVE  TopicsHeld'
  BY <1>17, RoundUnsubFacts DEF Subs!RoundUnsub, SubsInv, TopicsHeld
<1>18. ASSUME NEW f \in flying, Subs!RoundSubEnd(f)
      PROVE  TopicsHeld'
  <2>1. /\ f.did \in Did /\ blame \subseteq blame'
        /\ \/ sdk' = sdk \cup {f.did} /\ f.did \in topics /\ topics' = topics
           \/ /\ sdk' = sdk /\ topics' \in {topics, topics \ {f.did}}
              /\ f.did \in topics /\ f.did \notin topics' /\ f.did \in sdk =>
                   <<f.did, "split">> \in blame'
    BY <1>18, RoundSubEndFacts
  <2>2. rebuild' = rebuild
    BY <1>18 DEF Subs!RoundSubEnd
  <2>3. ASSUME rebuild.at \in {"none", "replay"}, NEW d \in sdk' \ topics'
        PROVE  <<d, "split">> \in blame'
    <3>1. CASE d \in sdk \ topics
      BY <2>1, <2>3, <3>1 DEF SubsInv, TopicsHeld
    <3>2. CASE d \notin sdk \ topics
      BY <2>1, <2>3, <3>2
    <3>. QED BY <3>1, <3>2
  <2>. QED BY <2>2, <2>3 DEF TopicsHeld
<1>19. CASE Subs!RebuildUp
  BY <1>19 DEF Subs!RebuildUp, Subs!listing, Subs!intent, Subs!loop, Subs!wire, TopicsHeld,
       SubsInv
<1>20. CASE Subs!ReplayBegin
  BY <1>20 DEF Subs!ReplayBegin, Subs!world, Subs!listing, Subs!intent, Subs!loop, TopicsHeld,
       SubsInv
<1>21. CASE Subs!RebuildEnd
  BY <1>21 DEF Subs!RebuildEnd, Subs!Reset, Subs!world, Subs!loop, Subs!Blame, TopicsHeld, SubsInv
<1>22. ASSUME NEW d \in Did, Subs!Replay(d)
      PROVE  TopicsHeld'
  BY <1>22 DEF Subs!Replay, Subs!Subscribe, Subs!Unavailable, Subs!wire, Subs!world,
       Subs!listing, Subs!intent, Subs!loop, TopicsHeld, SubsInv
<1>23. ASSUME NEW f \in flying, Subs!ReplayEnd(f)
      PROVE  TopicsHeld'
  BY <1>23 DEF Subs!ReplayEnd, Subs!Acked, Subs!Refused, Subs!Rejected, Subs!Split, Subs!world,
       Subs!listing, Subs!intent, Subs!loop, Subs!Blame, TopicsHeld, SubsInv
<1>24. CASE Subs!RebuildFail
  BY <1>24 DEF Subs!RebuildFail, Subs!Reset, Subs!world, Subs!listing, Subs!loop, TopicsHeld,
       SubsInv
<1>. QED BY <1>1, <1>2, <1>3, <1>4, <1>5, <1>6, <1>7, <1>8, <1>9, <1>10, <1>11, <1>12,
         <1>13, <1>14, <1>15, <1>16, <1>17, <1>18, <1>19, <1>20, <1>21, <1>22, <1>23,
         <1>24, Zenon DEF Subs!Next, Subs!World, Subs!Events, Subs!Refresh, Subs!Sync, Subs!Rebuild

LEMMA AddedHeldStep ==
  ASSUME SubsParameters, SubsInv, Subs!Next
  PROVE  AddedHeld'
<1>1. ASSUME NEW d \in Did, Subs!Bind(d)
      PROVE  AddedHeld'
  BY <1>1 DEF Subs!Bind, Subs!Push, Subs!listing, Subs!intent, Subs!loop, Subs!wire, AddedHeld,
       Subs!Doing, SubsInv
<1>2. ASSUME NEW d \in Did, Subs!Unbind(d)
      PROVE  AddedHeld'
  BY <1>2 DEF Subs!Unbind, Subs!Push, Subs!listing, Subs!intent, Subs!loop, Subs!wire,
       AddedHeld, Subs!Doing, SubsInv
<1>3. CASE Subs!Disconnect
  BY <1>3 DEF Subs!Disconnect, Subs!Lost, Subs!listing, Subs!intent, Subs!loop, AddedHeld,
       Subs!Doing, SubsInv
<1>4. CASE Subs!UserRefresh
  BY <1>4 DEF Subs!UserRefresh, Subs!world, Subs!intent, Subs!loop, Subs!wire, AddedHeld,
       Subs!Doing, SubsInv
<1>5. CASE Subs!RebuildBegin
  BY <1>5 DEF Subs!RebuildBegin, Subs!Lost, Subs!listing, Subs!intent, Subs!loop, AddedHeld,
       Subs!Doing, SubsInv
<1>6. CASE Subs!Reconnect
  BY <1>6 DEF Subs!Reconnect, Subs!intent, Subs!loop, Subs!wire, AddedHeld, Subs!Doing, SubsInv
<1>7. CASE Subs!OnBind
  BY <1>7 DEF Subs!OnBind, Subs!Subscribe, Subs!wire, Subs!Unavailable, Subs!loop, AddedHeld,
       Subs!Doing, SubsInv
<1>8. CASE Subs!OnUnbind
  BY <1>8 DEF Subs!OnUnbind, Subs!Unsubscribe, Subs!loop, AddedHeld, Subs!Doing, Subs!NoRebuild,
       SubsInv, Subs!NoRound, LoopShape, Subs!TypeOK
<1>9. ASSUME NEW f \in flying, Subs!BindEnd(f)
      PROVE  AddedHeld'
  BY <1>9 DEF Subs!BindEnd, Subs!Acked, Subs!Refused, Subs!Rejected, Subs!Split, Subs!world,
       Subs!listing, Subs!loop, AddedHeld, Subs!Doing, SubsInv
<1>10. CASE Subs!RefreshAsk
  BY <1>10 DEF Subs!RefreshAsk, Subs!world, Subs!intent, Subs!loop, Subs!wire, AddedHeld,
       Subs!Doing, SubsInv
<1>11. CASE Subs!RefreshApply
  BY <1>11 DEF Subs!RefreshApply, Subs!Spawn, Subs!world, Subs!intent, Subs!wire, AddedHeld,
       Subs!Doing, SubsInv
<1>12. CASE Subs!RefreshFail
  BY <1>12 DEF Subs!RefreshFail, Subs!world, Subs!intent, Subs!loop, Subs!wire, AddedHeld,
       Subs!Doing, SubsInv
<1>13. CASE Subs!RoundBegin
  BY <1>13 DEF Subs!RoundBegin, Subs!NoRound, Subs!world, Subs!listing, Subs!intent, Subs!wire,
       AddedHeld, Subs!Doing, Subs!NoRebuild, SubsInv
<1>14. CASE Subs!RoundCommit
  BY <1>14 DEF Subs!RoundCommit, Subs!Doing, Subs!NoRound, Subs!Valid, Subs!world, Subs!listing,
       Subs!wire, AddedHeld, Subs!NoRebuild, SubsInv
<1>15. CASE Subs!LoopTurn
  BY <1>15 DEF Subs!LoopTurn, Subs!Doing, Subs!world, Subs!listing, Subs!intent, Subs!wire,
       AddedHeld, SubsInv
<1>16. ASSUME NEW d \in Did, Subs!RoundSub(d)
      PROVE  AddedHeld'
  BY <1>16, RoundSubFacts DEF Subs!RoundSub, Subs!intent, SubsInv, AddedHeld
<1>17. ASSUME NEW d \in Did, Subs!RoundUnsub(d)
      PROVE  AddedHeld'
  BY <1>17, RoundUnsubFacts DEF Subs!RoundUnsub, Subs!intent, SubsInv, AddedHeld, LoopShape
<1>18. ASSUME NEW f \in flying, Subs!RoundSubEnd(f)
      PROVE  AddedHeld'
  BY <1>18, RoundSubEndFacts DEF Subs!RoundSubEnd, Subs!intent, SubsInv, AddedHeld
<1>19. CASE Subs!RebuildUp
  BY <1>19 DEF Subs!RebuildUp, Subs!listing, Subs!intent, Subs!loop, Subs!wire, AddedHeld,
       Subs!Doing, Subs!NoRebuild, SubsInv, Subs!NoRound
<1>20. CASE Subs!ReplayBegin
  BY <1>20 DEF Subs!ReplayBegin, Subs!world, Subs!listing, Subs!intent, Subs!loop, AddedHeld,
       Subs!Doing, Subs!NoRebuild, SubsInv, Subs!NoRound
<1>21. CASE Subs!RebuildEnd
  BY <1>21 DEF Subs!RebuildEnd, Subs!NoRebuild, Subs!Reset, Subs!world, Subs!loop, AddedHeld,
       Subs!Doing, SubsInv, Subs!NoRound, LoopShape, Subs!TypeOK
<1>22. ASSUME NEW d \in Did, Subs!Replay(d)
      PROVE  AddedHeld'
  BY <1>22 DEF Subs!Replay, Subs!Subscribe, Subs!Unavailable, Subs!wire, Subs!world,
       Subs!listing, Subs!intent, Subs!loop, AddedHeld, Subs!Doing, Subs!NoRebuild, SubsInv,
       Subs!NoRound
<1>23. ASSUME NEW f \in flying, Subs!ReplayEnd(f)
      PROVE  AddedHeld'
  BY <1>23 DEF Subs!ReplayEnd, Subs!Acked, Subs!Refused, Subs!Rejected, Subs!Split, Subs!world,
       Subs!listing, Subs!intent, Subs!loop, AddedHeld, Subs!Doing, SubsInv
<1>24. CASE Subs!RebuildFail
  BY <1>24 DEF Subs!RebuildFail, Subs!NoRebuild, Subs!Reset, Subs!world, Subs!listing,
       Subs!loop, AddedHeld, Subs!Doing, SubsInv, Subs!NoRound, LoopShape, Subs!TypeOK
<1>. QED BY <1>1, <1>2, <1>3, <1>4, <1>5, <1>6, <1>7, <1>8, <1>9, <1>10, <1>11, <1>12,
         <1>13, <1>14, <1>15, <1>16, <1>17, <1>18, <1>19, <1>20, <1>21, <1>22, <1>23,
         <1>24, Zenon DEF Subs!Next, Subs!World, Subs!Events, Subs!Refresh, Subs!Sync, Subs!Rebuild

LEMMA SameStep ==
  ASSUME SubsParameters, SubsInv, Subs!Next
  PROVE  Same'
<1>1. ASSUME NEW d \in Did, Subs!Bind(d)
      PROVE  Same'
  BY <1>1 DEF Subs!Bind, Subs!Push, Subs!listing, Subs!intent, Subs!loop, Subs!wire, Same,
       Subs!Doing, SubsInv
<1>2. ASSUME NEW d \in Did, Subs!Unbind(d)
      PROVE  Same'
  BY <1>2 DEF Subs!Unbind, Subs!Push, Subs!listing, Subs!intent, Subs!loop, Subs!wire, Same,
       Subs!Doing, SubsInv
<1>3. CASE Subs!Disconnect
  BY <1>3 DEF Subs!Disconnect, Subs!Lost, Subs!listing, Subs!intent, Subs!loop, Same,
       Subs!Doing, SubsInv
<1>4. CASE Subs!UserRefresh
  BY <1>4 DEF Subs!UserRefresh, Subs!world, Subs!intent, Subs!loop, Subs!wire, Same, Subs!Doing,
       SubsInv
<1>5. CASE Subs!RebuildBegin
  BY <1>5 DEF Subs!RebuildBegin, Subs!Lost, Subs!listing, Subs!intent, Subs!loop, Same,
       Subs!Doing, SubsInv
<1>6. CASE Subs!Reconnect
  BY <1>6 DEF Subs!Reconnect, Subs!intent, Subs!loop, Subs!wire, Same, Subs!Doing, SubsInv
<1>7. CASE Subs!OnBind
  <2>1. /\ rebuild' = rebuild /\ round' = round /\ blame' = blame
        /\ \/ mirror' = mirror /\ sdk' = sdk
           \/ Head(events)[2] \in sdk /\ mirror' = mirror \cup {Head(events)[2]} /\ sdk' = sdk
    BY <1>7 DEF Subs!OnBind, Subs!loop, Subs!wire
  <2>. QED BY <2>1 DEF SubsInv, Same, Subs!Doing
<1>8. CASE Subs!OnUnbind
  BY <1>8 DEF Subs!OnUnbind, Subs!Unsubscribe, Subs!loop, Same, Subs!Doing, SubsInv
<1>9. ASSUME NEW f \in flying, Subs!BindEnd(f)
      PROVE  Same'
  BY <1>9 DEF Subs!BindEnd, Subs!Acked, Subs!Refused, Subs!Rejected, Subs!Split, Subs!world,
       Subs!listing, Subs!loop, Same, Subs!Doing, SubsInv
<1>10. CASE Subs!RefreshAsk
  BY <1>10 DEF Subs!RefreshAsk, Subs!world, Subs!intent, Subs!loop, Subs!wire, Same, Subs!Doing,
       SubsInv
<1>11. CASE Subs!RefreshApply
  BY <1>11 DEF Subs!RefreshApply, Subs!Blame, Subs!Spawn, Subs!world, Subs!intent, Subs!wire,
       Same, Subs!NoRebuild, Subs!Doing, SubsInv
<1>12. CASE Subs!RefreshFail
  BY <1>12 DEF Subs!RefreshFail, Subs!world, Subs!intent, Subs!loop, Subs!wire, Same,
       Subs!Doing, SubsInv
<1>13. CASE Subs!RoundBegin
  BY <1>13 DEF Subs!RoundBegin, Subs!NoRound, Subs!Blame, Subs!world, Subs!listing, Subs!intent,
       Subs!wire, Same, Subs!NoRebuild, Subs!Doing, SubsInv, AddedHeld, Shape, LoopShape,
       RoundType
<1>14. CASE Subs!RoundCommit
  <2>1. /\ Subs!Doing /\ ~Subs!Doing' /\ round \in RoundType /\ rebuild' = rebuild /\ sdk' = sdk
        /\ round.added \cap round.removed = {}
    BY <1>14 DEF Subs!RoundCommit, Subs!wire, SubsInv, Shape, LoopShape, Subs!Doing, Subs!NoRound
  <2>2. CASE Subs!Valid
    <3>1. /\ mirror' = (mirror \cup round.added) \ round.removed
          /\ blame' = blame \cup Subs!Blame(round.removed \cap sdk, "torn")
      BY <1>14, <2>2 DEF Subs!RoundCommit
    <3>. QED BY <2>1, <2>2, <3>1 DEF SubsInv, Same, AddedHeld, Subs!Valid, Subs!Blame
  <2>3. CASE ~Subs!Valid
    <3>1. /\ mirror' = mirror
          /\ blame' = blame \cup Subs!Blame(round.added \cup round.removed, "torn")
      BY <1>14, <2>3 DEF Subs!RoundCommit
    <3>. QED BY <2>1, <3>1 DEF SubsInv, Same, Subs!Blame
  <2>. QED BY <2>2, <2>3
<1>15. CASE Subs!LoopTurn
  BY <1>15 DEF Subs!LoopTurn, Subs!Doing, Subs!world, Subs!listing, Subs!intent, Subs!wire,
       Same, SubsInv
<1>16. ASSUME NEW d \in Did, Subs!RoundSub(d)
      PROVE  Same'
  BY <1>16, RoundSubFacts DEF Subs!RoundSub, Subs!intent, SubsInv, Same
<1>17. ASSUME NEW d \in Did, Subs!RoundUnsub(d)
      PROVE  Same'
  BY <1>17, RoundUnsubFacts DEF Subs!RoundUnsub, Subs!intent, SubsInv, Same
<1>18. ASSUME NEW f \in flying, Subs!RoundSubEnd(f)
      PROVE  Same'
  BY <1>18, RoundSubEndFacts DEF Subs!RoundSubEnd, Subs!intent, SubsInv, Same
<1>19. CASE Subs!RebuildUp
  BY <1>19 DEF Subs!RebuildUp, Subs!listing, Subs!intent, Subs!loop, Subs!wire, Same,
       Subs!NoRebuild, Subs!Doing, SubsInv, Subs!Blame
<1>20. CASE Subs!ReplayBegin
  BY <1>20 DEF Subs!ReplayBegin, Subs!world, Subs!listing, Subs!intent, Subs!loop, Same,
       Subs!NoRebuild, Subs!Doing, SubsInv, Subs!Blame
<1>21. CASE Subs!RebuildEnd
  BY <1>21 DEF Subs!RebuildEnd, Subs!Reset, Subs!world, Subs!loop, Same, Subs!Doing, SubsInv
<1>22. ASSUME NEW d \in Did, Subs!Replay(d)
      PROVE  Same'
  BY <1>22 DEF Subs!Replay, Subs!Subscribe, Subs!Unavailable, Subs!wire, Subs!world,
       Subs!listing, Subs!intent, Subs!loop, Same, Subs!NoRebuild, Subs!Doing, SubsInv,
       Subs!Blame
<1>23. ASSUME NEW f \in flying, Subs!ReplayEnd(f)
      PROVE  Same'
  <2>1. rebuild' = rebuild /\ rebuild.at = "replay"
    BY <1>23 DEF Subs!ReplayEnd, SubsInv, Flights
  <2>. QED BY <2>1 DEF Same, Subs!NoRebuild
<1>24. CASE Subs!RebuildFail
  BY <1>24 DEF Subs!RebuildFail, Subs!Reset, Subs!world, Subs!listing, Subs!loop, Same,
       Subs!Doing, SubsInv
<1>. QED BY <1>1, <1>2, <1>3, <1>4, <1>5, <1>6, <1>7, <1>8, <1>9, <1>10, <1>11, <1>12,
         <1>13, <1>14, <1>15, <1>16, <1>17, <1>18, <1>19, <1>20, <1>21, <1>22, <1>23,
         <1>24, Zenon DEF Subs!Next, Subs!World, Subs!Events, Subs!Refresh, Subs!Sync, Subs!Rebuild

LEMMA KnownStep ==
  ASSUME SubsParameters, SubsInv, Subs!Next
  PROVE  Known'
<1>1. ASSUME NEW d \in Did, Subs!Bind(d)
      PROVE  Known'
  <2>1. net = "up" => events' # <<>>
    BY <1>1 DEF Subs!Bind, Subs!Push, SubsInv, Shape
  <2>. QED BY <1>1, <2>1 DEF Subs!Bind, Known, ToCome
<1>2. ASSUME NEW d \in Did, Subs!Unbind(d)
      PROVE  Known'
  <2>1. net = "up" => events' # <<>>
    BY <1>2 DEF Subs!Unbind, Subs!Push, SubsInv, Shape
  <2>. QED BY <1>2, <2>1 DEF Subs!Unbind, Known, ToCome
<1>3. CASE Subs!Disconnect
  BY <1>3 DEF Subs!Disconnect, Subs!Lost, Subs!listing, Subs!intent, Subs!loop, Known, ToCome,
       SubsInv
<1>4. CASE Subs!UserRefresh
  BY <1>4 DEF Subs!UserRefresh, Subs!world, Subs!intent, Subs!loop, Subs!wire, Known, ToCome,
       SubsInv
<1>5. CASE Subs!RebuildBegin
  BY <1>5 DEF Subs!RebuildBegin, Subs!Lost, Subs!listing, Subs!intent, Subs!loop, Known, ToCome,
       SubsInv
<1>6. CASE Subs!Reconnect
  BY <1>6 DEF Subs!Reconnect, Subs!intent, Subs!loop, Subs!wire, Known, ToCome, SubsInv
<1>7. CASE Subs!OnBind
  BY <1>7 DEF Subs!OnBind, Subs!Subscribe, Subs!wire, Subs!Unavailable, Subs!loop, Known,
       ToCome, SubsInv
<1>8. CASE Subs!OnUnbind
  BY <1>8 DEF Subs!OnUnbind, Subs!Unsubscribe, Subs!loop, Known, ToCome, SubsInv
<1>9. ASSUME NEW f \in flying, Subs!BindEnd(f)
      PROVE  Known'
  BY <1>9 DEF Subs!BindEnd, Subs!Acked, Subs!Refused, Subs!Rejected, Subs!Split, Subs!world,
       Subs!listing, Subs!loop, Known, ToCome, SubsInv
<1>10. CASE Subs!RefreshAsk
  BY <1>10 DEF Subs!RefreshAsk, Subs!NoRefresh, Subs!world, Subs!intent, Subs!loop, Subs!wire,
       Known, ToCome, Subs!NoRebuild, SubsInv
<1>11. CASE Subs!RefreshApply
  BY <1>11 DEF Subs!RefreshApply, Subs!Spawn, Subs!world, Subs!intent, Subs!wire, Known, ToCome,
       SubsInv
<1>12. CASE Subs!RefreshFail
  BY <1>12 DEF Subs!RefreshFail, Subs!world, Subs!intent, Subs!loop, Subs!wire, Known, ToCome,
       SubsInv
<1>13. CASE Subs!RoundBegin
  BY <1>13 DEF Subs!RoundBegin, Subs!world, Subs!listing, Subs!intent, Subs!wire, Known, ToCome,
       SubsInv
<1>14. CASE Subs!RoundCommit
  BY <1>14 DEF Subs!RoundCommit, Subs!Valid, Subs!world, Subs!listing, Subs!wire, Known, ToCome,
       SubsInv
<1>15. CASE Subs!LoopTurn
  BY <1>15 DEF Subs!LoopTurn, Subs!world, Subs!listing, Subs!intent, Subs!wire, Known, ToCome,
       SubsInv
<1>16. ASSUME NEW d \in Did, Subs!RoundSub(d)
      PROVE  Known'
  BY <1>16, RoundSubFacts DEF Subs!RoundSub, Subs!world, Subs!listing, SubsInv, Known, ToCome
<1>17. ASSUME NEW d \in Did, Subs!RoundUnsub(d)
      PROVE  Known'
  BY <1>17 DEF Subs!RoundUnsub, Subs!Unsubscribe, Subs!world, Subs!listing, Subs!intent, Known,
       ToCome, SubsInv
<1>18. ASSUME NEW f \in flying, Subs!RoundSubEnd(f)
      PROVE  Known'
  BY <1>18, RoundSubEndFacts DEF Subs!RoundSubEnd, Subs!world, Subs!listing, SubsInv, Known,
       ToCome
<1>19. CASE Subs!RebuildUp
  BY <1>19 DEF Subs!RebuildUp, Subs!listing, Subs!intent, Subs!loop, Subs!wire, Known, ToCome,
       Subs!NoRefresh, Subs!NoRebuild, SubsInv
<1>20. CASE Subs!ReplayBegin
  BY <1>20 DEF Subs!ReplayBegin, Subs!world, Subs!listing, Subs!intent, Subs!loop, Known,
       ToCome, Subs!NoRefresh, Subs!NoRebuild, SubsInv
<1>21. CASE Subs!RebuildEnd
  BY <1>21 DEF Subs!RebuildEnd, Subs!Reset, Subs!world, Subs!loop, Known, ToCome, SubsInv
<1>22. ASSUME NEW d \in Did, Subs!Replay(d)
      PROVE  Known'
  BY <1>22 DEF Subs!Replay, Subs!Subscribe, Subs!Unavailable, Subs!wire, Subs!world,
       Subs!listing, Subs!intent, Subs!loop, Known, ToCome, Subs!NoRefresh, Subs!NoRebuild,
       SubsInv
<1>23. ASSUME NEW f \in flying, Subs!ReplayEnd(f)
      PROVE  Known'
  BY <1>23 DEF Subs!ReplayEnd, Subs!Acked, Subs!Refused, Subs!Rejected, Subs!Split, Subs!world,
       Subs!listing, Subs!intent, Subs!loop, Known, ToCome, SubsInv
<1>24. CASE Subs!RebuildFail
  BY <1>24 DEF Subs!RebuildFail, Subs!NoRebuild, Subs!Reset, Subs!world, Subs!listing,
       Subs!loop, Known, ToCome, Subs!NoRefresh, SubsInv, Flights, Subs!Moves
<1>. QED BY <1>1, <1>2, <1>3, <1>4, <1>5, <1>6, <1>7, <1>8, <1>9, <1>10, <1>11, <1>12,
         <1>13, <1>14, <1>15, <1>16, <1>17, <1>18, <1>19, <1>20, <1>21, <1>22, <1>23,
         <1>24, Zenon DEF Subs!Next, Subs!World, Subs!Events, Subs!Refresh, Subs!Sync, Subs!Rebuild

LEMMA FollowsStep ==
  ASSUME SubsParameters, SubsInv, Subs!Next
  PROVE  Follows'
<1>1. ASSUME NEW d \in Did, Subs!Bind(d)
      PROVE  Follows'
  <2>1. net = "up" => events' # <<>>
    BY <1>1 DEF Subs!Bind, Subs!Push, SubsInv, Shape
  <2>. QED BY <1>1, <2>1 DEF Subs!Bind, Follows, ToCome
<1>2. ASSUME NEW d \in Did, Subs!Unbind(d)
      PROVE  Follows'
  <2>1. net = "up" => events' # <<>>
    BY <1>2 DEF Subs!Unbind, Subs!Push, SubsInv, Shape
  <2>. QED BY <1>2, <2>1 DEF Subs!Unbind, Follows, ToCome
<1>3. CASE Subs!Disconnect
  BY <1>3 DEF Subs!Disconnect, Subs!Lost, Subs!listing, Subs!intent, Subs!loop, Follows, ToCome,
       LoopAgain, RoundRight, Subs!Doing, SubsInv
<1>4. CASE Subs!UserRefresh
  BY <1>4 DEF Subs!UserRefresh, Subs!world, Subs!intent, Subs!loop, Subs!wire, Follows, ToCome,
       LoopAgain, RoundRight, Subs!Doing, SubsInv
<1>5. CASE Subs!RebuildBegin
  BY <1>5 DEF Subs!RebuildBegin, Subs!Lost, Subs!listing, Subs!intent, Subs!loop, Follows,
       ToCome, LoopAgain, RoundRight, Subs!Doing, SubsInv
<1>6. CASE Subs!Reconnect
  BY <1>6 DEF Subs!Reconnect, Subs!intent, Subs!loop, Subs!wire, Follows, ToCome, LoopAgain,
       RoundRight, Subs!Doing, SubsInv
<1>7. CASE Subs!OnBind
  BY <1>7 DEF Subs!OnBind, Subs!Subscribe, Subs!wire, Subs!Unavailable, Subs!loop, Follows,
       ToCome, LoopAgain, RoundRight, Subs!Doing, SubsInv
<1>8. CASE Subs!OnUnbind
  BY <1>8 DEF Subs!OnUnbind, Subs!Unsubscribe, Subs!loop, Follows, ToCome, LoopAgain,
       RoundRight, Subs!Doing, SubsInv
<1>9. ASSUME NEW f \in flying, Subs!BindEnd(f)
      PROVE  Follows'
  BY <1>9 DEF Subs!BindEnd, Subs!Acked, Subs!NoRefresh, Subs!Blame, Subs!Refused, Subs!Rejected,
       Subs!Split, Subs!world, Subs!listing, Subs!loop, Follows, ToCome, LoopAgain, RoundRight,
       Subs!NoRebuild, Subs!Again, Subs!Doing, SubsInv
<1>10. CASE Subs!RefreshAsk
  BY <1>10 DEF Subs!RefreshAsk, Subs!NoRefresh, Subs!world, Subs!intent, Subs!loop, Subs!wire,
       Follows, ToCome, LoopAgain, RoundRight, Subs!NoRebuild, Subs!Again, Subs!Doing, SubsInv,
       Subs!Blame
<1>11. CASE Subs!RefreshApply
  BY <1>11 DEF Subs!RefreshApply, Subs!NoRefresh, Subs!Blame, Subs!Spawn, Subs!world,
       Subs!intent, Subs!wire, Follows, ToCome, LoopAgain, RoundRight, Subs!NoRebuild,
       Subs!Again, Subs!Doing, SubsInv, LoopShape, Subs!NoRound
<1>12. CASE Subs!RefreshFail
  BY <1>12 DEF Subs!RefreshFail, Subs!world, Subs!intent, Subs!loop, Subs!wire, Follows, ToCome,
       LoopAgain, RoundRight, Subs!Doing, SubsInv
<1>13. CASE Subs!RoundBegin
  BY <1>13 DEF Subs!RoundBegin, Subs!world, Subs!listing, Subs!intent, Subs!wire, Follows,
       ToCome, LoopAgain, RoundRight, Subs!Doing, SubsInv
<1>14. CASE Subs!RoundCommit
  BY <1>14 DEF Subs!RoundCommit, Subs!Doing, Subs!NoRound, Subs!Valid, Subs!Blame, Subs!world,
       Subs!listing, Subs!wire, Follows, ToCome, Subs!NoRefresh, LoopAgain, RoundRight,
       Subs!NoRebuild, Subs!Again, SubsInv, LoopShape
<1>15. CASE Subs!LoopTurn
  BY <1>15 DEF Subs!LoopTurn, Subs!Doing, Subs!world, Subs!listing, Subs!intent, Subs!wire,
       Follows, ToCome, LoopAgain, RoundRight, SubsInv
<1>16. ASSUME NEW d \in Did, Subs!RoundSub(d)
      PROVE  Follows'
  <2>2. CASE ToCome \/ coming # Subs!NoRefresh \/ missing \/ LoopAgain
    BY <1>16, <2>2 DEF Subs!RoundSub, Subs!world, Subs!listing, Subs!intent, Follows, ToCome,
         LoopAgain, Subs!Again
  <2>3. CASE RoundRight
    BY <1>16, <2>3, RoundSubFacts DEF Subs!RoundSub, Subs!world, Subs!listing, Subs!intent,
         Follows, RoundRight
  <2>. QED BY <2>2, <2>3 DEF SubsInv, Follows
<1>17. ASSUME NEW d \in Did, Subs!RoundUnsub(d)
      PROVE  Follows'
  <2>2. CASE ToCome \/ coming # Subs!NoRefresh \/ missing \/ LoopAgain
    BY <1>17, <2>2 DEF Subs!RoundUnsub, Subs!world, Subs!listing, Subs!intent, Follows, ToCome,
         LoopAgain, Subs!Again
  <2>3. CASE RoundRight
    BY <1>17, <2>3, RoundUnsubFacts DEF Subs!RoundUnsub, Subs!world, Subs!listing, Subs!intent,
         Follows, RoundRight
  <2>. QED BY <2>2, <2>3 DEF SubsInv, Follows
<1>18. ASSUME NEW f \in flying, Subs!RoundSubEnd(f)
      PROVE  Follows'
  <2>2. CASE ToCome \/ coming # Subs!NoRefresh \/ missing \/ LoopAgain
    BY <1>18, <2>2 DEF Subs!RoundSubEnd, Subs!world, Subs!listing, Subs!intent, Follows, ToCome,
         LoopAgain, Subs!Again
  <2>3. CASE RoundRight
    BY <1>18, <2>3, RoundSubEndFacts DEF Subs!RoundSubEnd, Subs!world, Subs!listing,
         Subs!intent, Follows, RoundRight
  <2>. QED BY <2>2, <2>3 DEF SubsInv, Follows
<1>19. CASE Subs!RebuildUp
  BY <1>19 DEF Subs!RebuildUp, Subs!listing, Subs!intent, Subs!loop, Subs!wire, Follows, ToCome,
       Subs!NoRefresh, LoopAgain, RoundRight, Subs!NoRebuild, Subs!Again, Subs!Doing, SubsInv,
       Subs!Blame
<1>20. CASE Subs!ReplayBegin
  BY <1>20 DEF Subs!ReplayBegin, Subs!world, Subs!listing, Subs!intent, Subs!loop, Follows,
       ToCome, Subs!NoRefresh, LoopAgain, RoundRight, Subs!NoRebuild, Subs!Again, Subs!Doing,
       SubsInv, Subs!Blame
<1>21. CASE Subs!RebuildEnd
  BY <1>21 DEF Subs!RebuildEnd, Subs!Reset, Subs!world, Subs!loop, Follows, ToCome, LoopAgain,
       RoundRight, Subs!Doing, SubsInv
<1>22. ASSUME NEW d \in Did, Subs!Replay(d)
      PROVE  Follows'
  BY <1>22 DEF Subs!Replay, Subs!Subscribe, Subs!Unavailable, Subs!wire, Subs!world,
       Subs!listing, Subs!intent, Subs!loop, Follows, ToCome, Subs!NoRefresh, LoopAgain,
       RoundRight, Subs!NoRebuild, Subs!Again, Subs!Doing, SubsInv, Subs!Blame
<1>23. ASSUME NEW f \in flying, Subs!ReplayEnd(f)
      PROVE  Follows'
  BY <1>23 DEF Subs!ReplayEnd, Subs!Acked, Subs!Refused, Subs!Rejected, Subs!Split, Subs!world,
       Subs!listing, Subs!intent, Subs!loop, Subs!Blame, Follows, ToCome, Subs!NoRefresh,
       LoopAgain, RoundRight, Subs!NoRebuild, Subs!Again, Subs!Doing, SubsInv
<1>24. CASE Subs!RebuildFail
  BY <1>24 DEF Subs!RebuildFail, Subs!NoRebuild, Subs!Reset, Subs!world, Subs!listing,
       Subs!loop, Subs!Blame, Follows, ToCome, Subs!NoRefresh, LoopAgain, RoundRight,
       Subs!Again, Subs!Doing, SubsInv, Known, Flights, LoopShape, Shape, Subs!TypeOK,
       Subs!NoRound, RoundType
<1>. QED BY <1>1, <1>2, <1>3, <1>4, <1>5, <1>6, <1>7, <1>8, <1>9, <1>10, <1>11, <1>12,
         <1>13, <1>14, <1>15, <1>16, <1>17, <1>18, <1>19, <1>20, <1>21, <1>22, <1>23,
         <1>24, Zenon DEF Subs!Next, Subs!World, Subs!Events, Subs!Refresh, Subs!Sync, Subs!Rebuild

(* The theorems. *)

\* A step that changes nothing.
LEMMA SubsStutterStep ==
  ASSUME SubsInv, UNCHANGED Subs!vars
  PROVE  SubsInv'
<1>1. /\ UNCHANGED <<direct, bound, net, events, known, due, coming, missing, mirror, gen>>
      /\ UNCHANGED <<syncing, rerun, before, round, sdk, topics, flying, rebuild, blame, subMoves>>
  BY DEF Subs!vars, Subs!world, Subs!listing, Subs!intent, Subs!loop, Subs!wire
<1>2. Subs!TypeOK' /\ Shape' /\ LoopShape'
  BY <1>1 DEF SubsInv, Subs!TypeOK, Shape, LoopShape, Subs!Doing
<1>3. Flights' /\ TopicsHeld' /\ AddedHeld' /\ Same'
  BY <1>1 DEF SubsInv, Flights, TopicsHeld, AddedHeld, Same, Subs!Doing
<1>4. Known' /\ Follows'
  BY <1>1 DEF SubsInv, Known, Follows, ToCome, LoopAgain, Subs!Again, RoundRight, Subs!Doing
<1>. QED BY <1>2, <1>3, <1>4 DEF SubsInv

LEMMA SubsInitInv ==
  ASSUME SubsParameters, Subs!Init
  PROVE  SubsInv
<1>1. Subs!TypeOK
  <2>1. /\ Len(events) <= MaxEvents /\ gen \in 0 .. MaxMoves /\ before \in -1 .. gen
        /\ subMoves \in 0 .. MaxMoves
    BY DEF SubsParameters, Subs!Init
  <2>2. ~Subs!Doing
    BY DEF Subs!Init, Subs!Doing, Subs!NoRound
  <2>3. {direct, due, missing, syncing, rerun} \subseteq BOOLEAN
    BY DEF Subs!Init
  <2>. QED BY <2>1, <2>2, <2>3 DEF Subs!Init, Subs!TypeOK
<1>2. Shape
  BY DEF SubsParameters, Subs!Init, Shape, Subs!NoRebuild, Subs!NoRefresh, Subs!NoRound
<1>3. LoopShape /\ Flights /\ TopicsHeld /\ AddedHeld
  BY DEF Subs!Init, LoopShape, Flights, TopicsHeld, AddedHeld, Subs!Doing, Subs!NoRound,
       Subs!NoRebuild
<1>4. Same /\ Known /\ Follows
  BY DEF Subs!Init, Same, Known, Follows, RoundRight
<1>. QED BY <1>1, <1>2, <1>3, <1>4 DEF SubsInv

\* The inductive invariant holds.
THEOREM SubsInvariance == ASSUME SubsParameters PROVE Subs!Spec => []SubsInv
<1>1. Subs!Init => SubsInv
  BY SubsInitInv
<1>2. SubsInv /\ [Subs!Next]_(Subs!vars) => SubsInv'
  <2>1. CASE SubsInv /\ Subs!Next
    BY <2>1, SubsTypeStep, ShapeStep, LoopShapeStep, FlightsStep, TopicsHeldStep, AddedHeldStep,
       SameStep, KnownStep, FollowsStep DEF SubsInv
  <2>2. CASE SubsInv /\ UNCHANGED Subs!vars
    BY <2>2, SubsStutterStep
  <2>. QED BY <2>1, <2>2
<1>. QED BY <1>1, <1>2, PTL DEF Subs!Spec

\* Every variable has its type, a generation never comes back (miot/client.py:84).
THEOREM SubsTypeCorrect == ASSUME SubsParameters PROVE Subs!Spec => []Subs!TypeOK
<1>1. SubsInv => Subs!TypeOK
  BY DEF SubsInv
<1>. QED BY <1>1, SubsInvariance, PTL

\* Settled, the mirror is the devices of the account (miot/client.py:425).
THEOREM AccountIsMirrored == ASSUME SubsParameters PROVE Subs!Spec => []Subs!MirrorFollowsAccount
<1>1. SubsInv => Subs!MirrorFollowsAccount
  <2>. SUFFICES ASSUME SubsInv, Subs!Settled, NEW d \in Did
                PROVE  /\ d \in mirror \ bound => Subs!Excused(d, {"late"})
                       /\ d \in bound \ mirror => Subs!Excused(d, {"missed"})
    BY DEF Subs!MirrorFollowsAccount
  <2>1. ~ToCome /\ coming = Subs!NoRefresh /\ ~missing /\ ~syncing
    BY DEF Subs!Settled, Subs!AtRest, ToCome
  <2>2. known = bound
    BY <2>1 DEF SubsInv, Known
  <2>3. ~Subs!Doing /\ RoundRight
    BY <2>1 DEF SubsInv, Follows, LoopAgain, LoopShape
  <2>. QED BY <2>2, <2>3 DEF RoundRight, Subs!Excused
<1>. QED BY <1>1, SubsInvariance, PTL

\* Settled, the mirror is what the SDK has (miot/client.py:110).
THEOREM SdkIsMirrored == ASSUME SubsParameters PROVE Subs!Spec => []Subs!MirrorFollowsSdk
<1>1. SubsInv => Subs!MirrorFollowsSdk
  <2>. SUFFICES ASSUME SubsInv, Subs!Settled, NEW d \in Did
                PROVE  (d \in mirror) = (d \in sdk) \/ Subs!Excused(d, {"torn"})
    BY DEF Subs!MirrorFollowsSdk
  <2>1. ~Subs!Doing /\ rebuild = Subs!NoRebuild
    BY DEF SubsInv, LoopShape, Subs!Settled, Subs!AtRest
  <2>. QED BY <2>1 DEF SubsInv, Same, Subs!Excused
<1>. QED BY <1>1, SubsInvariance, PTL

\* What counts as subscribed comes back with the connection (mips_cloud.py:577).
THEOREM TopicsAreKept == ASSUME SubsParameters PROVE Subs!Spec => []Subs!SurvivesReconnect
<1>1. SubsInv => Subs!SurvivesReconnect
  <2>1. Subs!NoRebuild.at = "none"
    BY DEF Subs!NoRebuild
  <2>. QED BY <2>1 DEF SubsInv, TopicsHeld, Subs!SurvivesReconnect, Subs!Excused
<1>. QED BY <1>1, SubsInvariance, PTL

(***************************************************************************)
(* The four of them in one run                                             *)
(***************************************************************************)

\* A step of the run is a step of the part that moves, and the others stand still.
LEMMA PartsMove ==
  ASSUME [HouseholdNext]_<<part, vars, arrivalsVars, deviceVars, subVars>>
  PROVE  /\ [Next]_vars /\ [Greet!Next]_(Greet!vars)
         /\ [Device!Next]_(Device!vars) /\ [Subs!Next]_(Subs!vars)
<1>1. UNCHANGED arrivalsVars => UNCHANGED Greet!vars
  BY DEF arrivalsVars, Greet!vars
<1>2. UNCHANGED deviceVars => UNCHANGED Device!vars
  BY DEF deviceVars, Device!vars, Device!cloud, Device!link, Device!cache, Device!tree,
     Device!scopes, Device!refreshing, Device!topping, Device!pulling
<1>3. UNCHANGED subVars => UNCHANGED Subs!vars
  BY DEF subVars, Subs!vars, Subs!world, Subs!listing, Subs!intent, Subs!loop, Subs!wire
<1>. QED BY <1>1, <1>2, <1>3, Zenon DEF HouseholdNext

\* The run is a behaviour of each of the four (onboarding_trigger.py:155,
\* miot/welcome_service.py:68, miot/state_push.py:5, miot/client.py:84).
THEOREM HouseholdAreParts == HouseholdSpec => Spec /\ Greet!Spec /\ Device!Spec /\ Subs!Spec
<1>1. HouseholdInit => Init /\ Greet!Init /\ Device!Init /\ Subs!Init
  BY DEF HouseholdInit
<1>. QED BY <1>1, PartsMove, PTL DEF HouseholdSpec, Spec, Greet!Spec, Device!Spec, Subs!Spec

\* Who arrives is greeted, and once, in the run as well (miot/welcome_service.py:68).
THEOREM RunArrivalsGreeted == ASSUME GreetParameters PROVE HouseholdSpec => []ArrivalsGreeted
BY HouseholdAreParts, GreetTypeCorrect, GreetedOnce, PTL DEF ArrivalsGreeted

\* At rest the leaves of each device are what the cloud says, and no device is without, in
\* the run as well (miot/state_push.py:5).
THEOREM RunLeavesFollow == ASSUME Device!Parameters PROVE HouseholdSpec => []LeavesFollow
BY HouseholdAreParts, Device!TypeCorrect, Device!OnlineIsFollowed, Device!PropIsFollowed,
   Device!NobodyIsForgotten, PTL DEF LeavesFollow

\* Settled, account, mirror, SDK and connection have one set of subscriptions, in the run
\* as well (miot/client.py:84).
THEOREM RunSubscriptionsFollow ==
  ASSUME SubsParameters PROVE HouseholdSpec => []SubscriptionsFollow
BY HouseholdAreParts, SubsTypeCorrect, AccountIsMirrored, SdkIsMirrored,
   TopicsAreKept, PTL DEF SubscriptionsFollow
================================================================================
