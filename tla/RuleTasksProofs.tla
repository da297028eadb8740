---------------------------- MODULE RuleTasksProofs ----------------------------
(***************************************************************************)
(* Theorems about TaskActions, for every number of fires and attempts, and *)
(* about the run that takes a task, a task on a device and the actions of  *)
(* a task together.                                                        *)
(***************************************************************************)
EXTENDS MCRuleTasks, Integers, TLAPS

(***************************************************************************)
(* What becomes of the actions a task dispatches                           *)
(***************************************************************************)

\* The bounds are numbers.
ActionsParameters == MaxFires \in Nat /\ Attempts \in Nat

\* A fire is one that was dispatched, and the last one has the slot of the state.
Numbered == \A f \in fires : f.n <= made /\ (f.n = made => f.slot = Actions!Due)

\* Each kind of action has its own way.
OnTheWay ==
  \A f \in fires :
    /\ f.stage \in {"asking", "answered"} => kind[f.slot] = "compared"
    /\ f.stage \in {"sent", "obeyed", "lost"} => kind[f.slot] \in {"compared", "limited"}
    /\ f.stage = "waiting" => kind[f.slot] = "prompt"

\* A last fire that has had its way is known by it.
Decided ==
  \A f \in fires : f.n = made =>
    /\ f.stage = "obeyed" => settled
    /\ f.stage = "answered" /\ f.got = f.slot => settled

\* Unless there is a cause why not, the last fire is on its way or has had its way, and
\* then nobody undid it.
CommandCounts ==
  made > 0 /\ kind[Actions!Due] \in {"compared", "limited"}
  /\ excuse \cap {"refused", "cooled", "overtaken", "meddled"} = {} =>
       IF settled THEN home = Actions!Due ELSE \E f \in fires : f.n = made

PromptCounts ==
  made > 0 /\ kind[Actions!Due] = "prompt" /\ excuse \cap {"refused", "retried", "ahead"} = {} =>
    IF settled THEN heard = Actions!Due ELSE \E f \in fires : f.n = made

ActionsInv == Actions!TypeOK /\ Numbered /\ OnTheWay /\ Decided /\ CommandCounts /\ PromptCounts

\* A fire that is replaced by itself at another stage.
LEMMA PutStep ==
  ASSUME Actions!TypeOK, Numbered, NEW f \in fires, NEW g \in Actions!Fire, g.n = f.n, g.slot = f.slot, Actions!Put(f, g)
  PROVE  /\ fires' \subseteq Actions!Fire /\ g \in fires'
         /\ \A h, i \in fires' : h.n = i.n => h = i
         /\ \A h \in fires' : h = g \/ (h \in fires /\ h.n # f.n)
         /\ \A h \in fires : h = f \/ h \in fires'
BY DEF Actions!Put, Actions!TypeOK

LEMMA GoneStep ==
  ASSUME Actions!TypeOK, NEW f \in fires, Actions!Gone(f)
  PROVE  /\ fires' \subseteq Actions!Fire
         /\ \A h, i \in fires' : h.n = i.n => h = i
         /\ \A h \in fires' : h \in fires /\ h.n # f.n
         /\ \A h \in fires : h = f \/ h \in fires'
BY DEF Actions!Gone, Actions!TypeOK

LEMMA StageType ==
  ASSUME NEW f \in Actions!Fire, NEW s \in Actions!Stage
  PROVE  /\ [f EXCEPT !.stage = s] \in Actions!Fire
         /\ [f EXCEPT !.stage = s].n = f.n /\ [f EXCEPT !.stage = s].slot = f.slot
         /\ [f EXCEPT !.stage = s].stage = s /\ [f EXCEPT !.stage = s].got = f.got
BY DEF Actions!Fire

\* What a new fire does: it is the last one.
LEMMA SpawnStep ==
  ASSUME ActionsParameters, ActionsInv, NEW ss \in Seq(Actions!Slot), Len(ss) \in {1, 2}, Actions!Spawns(ss),
         active' \in BOOLEAN, ss[Len(ss)] = Actions!Due',
         UNCHANGED <<Actions!row, home, heard, cooling>>
  PROVE  ActionsInv'
<1>1. /\ made' \in Nat /\ made' > made /\ made' <= MaxFires /\ made' = made + Len(ss)
      /\ settled' = FALSE /\ excuse' = {} /\ made \in Nat
  <2>1. made \in Nat
    BY DEF ActionsParameters, ActionsInv, Actions!TypeOK
  <2>2. PICK k \in {1, 2} : k = Len(ss)
    OBVIOUS
  <2>3. /\ made' = made + k /\ made + k <= MaxFires
        /\ settled' = FALSE /\ excuse' = {}
    BY <2>2 DEF Actions!Spawns
  <2>4. made + k \in Nat /\ made + k > made
    BY <2>1
  <2>. QED BY <2>1, <2>2, <2>3, <2>4
<1>2. \A h \in fires' : h \in fires \/ \E i \in 1 .. Len(ss) : h = Actions!NewFire(made + i, ss[i])
  BY DEF Actions!Spawns
<1>3. \A i \in 1 .. Len(ss) : /\ Actions!NewFire(made + i, ss[i]) \in Actions!Fire
                              /\ Actions!NewFire(made + i, ss[i]) \in fires'
                              /\ Actions!NewFire(made + i, ss[i]).n = made + i
                              /\ Actions!NewFire(made + i, ss[i]).slot = ss[i]
                              /\ Actions!NewFire(made + i, ss[i]).stage = "new"
  BY <1>1 DEF Actions!Spawns, Actions!NewFire, Actions!Fire, Actions!Stage, ActionsParameters
<1>4. \A h \in fires : h \in Actions!Fire /\ h.n \in Nat /\ h.n <= made
  BY DEF ActionsInv, Actions!TypeOK, Numbered, Actions!Fire
<1>5. Actions!TypeOK'
  <2>1. fires' \subseteq Actions!Fire
    BY <1>2, <1>3, <1>4
  <2>2. \A f, g \in fires' : f.n = g.n => f = g
    BY <1>1, <1>2, <1>3, <1>4 DEF ActionsInv, Actions!TypeOK
  <2>3. /\ kind' = kind /\ shared' = shared /\ home' = home /\ heard' = heard /\ cooling' = cooling
        /\ made' \in 0 .. MaxFires
    BY <1>1 DEF Actions!row, ActionsParameters
  <2>. QED BY <1>1, <2>1, <2>2, <2>3 DEF ActionsInv, Actions!TypeOK
<1>6. Numbered'
  BY <1>1, <1>2, <1>3, <1>4 DEF Numbered
<1>7. OnTheWay'
  BY <1>2, <1>3 DEF ActionsInv, OnTheWay, Actions!row
<1>8. Decided'
  BY <1>1, <1>2, <1>3, <1>4 DEF Decided
<1>9. \E f \in fires' : f.n = made'
  BY <1>1, <1>3
<1>. QED BY <1>1, <1>5, <1>6, <1>7, <1>8, <1>9 DEF ActionsInv, CommandCounts, PromptCounts

\* What the state machine dispatches.
LEMMA DispatchStep ==
  ASSUME ActionsParameters, ActionsInv, Actions!Enters \/ Actions!Exits \/ Actions!DebouncedExit \/ Actions!CrossDay
  PROVE  ActionsInv'
<1>0. /\ <<"on_enter">> \in Seq(Actions!Slot) /\ Len(<<"on_enter">>) = 1 /\ <<"on_enter">>[1] = "on_enter"
      /\ <<"on_exit">> \in Seq(Actions!Slot) /\ Len(<<"on_exit">>) = 1 /\ <<"on_exit">>[1] = "on_exit"
      /\ <<"on_exit", "on_enter">> \in Seq(Actions!Slot) /\ Len(<<"on_exit", "on_enter">>) = 2
      /\ <<"on_exit", "on_enter">>[2] = "on_enter" /\ 1 \in {1, 2} /\ 2 \in {1, 2}
  BY DEF Actions!Slot
<1>1. CASE Actions!Enters
  <2>1. active' \in BOOLEAN /\ Actions!Due' = "on_enter"
    BY <1>1 DEF Actions!Enters, Actions!Due
  <2>. QED BY <1>0, <1>1, <2>1, SpawnStep, Zenon DEF Actions!Enters
<1>2. CASE Actions!Exits
  <2>1. active' \in BOOLEAN /\ Actions!Due' = "on_exit"
    BY <1>2 DEF Actions!Exits, Actions!Due
  <2>. QED BY <1>0, <1>2, <2>1, SpawnStep, Zenon DEF Actions!Exits
<1>3. CASE Actions!CrossDay
  <2>1. active' \in BOOLEAN /\ Actions!Due' = "on_enter"
    BY <1>3 DEF Actions!CrossDay, Actions!Due, ActionsInv, Actions!TypeOK
  <2>. QED BY <1>0, <1>3, <2>1, SpawnStep, Zenon DEF Actions!CrossDay
<1>4. CASE Actions!DebouncedExit
  <2>. DEFINE new == [Actions!NewFire(made + 1, "on_exit") EXCEPT !.stage = "woken"]
  <2>1. /\ made' = made + 1 /\ made \in Nat /\ made' <= MaxFires /\ settled' = FALSE /\ excuse' = {}
        /\ active' = FALSE /\ Actions!Due' = "on_exit" /\ UNCHANGED <<Actions!row, home, heard, cooling>>
        /\ fires' = fires \cup {new}
    BY <1>4 DEF Actions!DebouncedExit, Actions!Due, ActionsParameters, ActionsInv, Actions!TypeOK
  <2>2. new \in Actions!Fire /\ new.n = made + 1 /\ new.slot = "on_exit" /\ new.stage = "woken"
    BY <2>1 DEF Actions!NewFire, Actions!Fire, Actions!Slot, Actions!Stage, ActionsParameters
  <2>3. \A h \in fires : h \in Actions!Fire /\ h.n \in Nat /\ h.n <= made
    BY DEF ActionsInv, Actions!TypeOK, Numbered, Actions!Fire
  <2>. HIDE DEF new
  <2>4. Actions!TypeOK'
    <3>1. /\ kind' = kind /\ shared' = shared /\ home' = home /\ heard' = heard
          /\ cooling' = cooling /\ made' \in 0 .. MaxFires
      BY <2>1 DEF Actions!row, ActionsParameters
    <3>2. fires' \subseteq Actions!Fire /\ \A f, g \in fires' : f.n = g.n => f = g
      BY <2>1, <2>2, <2>3 DEF ActionsInv, Actions!TypeOK
    <3>. QED BY <2>1, <3>1, <3>2 DEF ActionsInv, Actions!TypeOK
  <2>5. Numbered' /\ Decided'
    BY <2>1, <2>2, <2>3 DEF Numbered, Decided
  <2>6. OnTheWay'
    BY <2>1, <2>2 DEF ActionsInv, OnTheWay, Actions!row
  <2>7. \E f \in fires' : f.n = made'
    BY <2>1, <2>2
  <2>. QED BY <2>1, <2>4, <2>5, <2>6, <2>7 DEF ActionsInv, CommandCounts, PromptCounts
<1>. QED BY <1>1, <1>2, <1>3, <1>4

\* The causes are known.
LEMMA CauseType ==
  ASSUME Actions!TypeOK, NEW f \in fires, NEW c \in Actions!Cause, Actions!Acts(f, c) \/ Actions!Fails(f, c)
  PROVE  settled' \in BOOLEAN /\ excuse' \subseteq Actions!Cause /\ excuse \subseteq excuse'
BY DEF Actions!Acts, Actions!Fails, Actions!TypeOK

\* A step in the life of a fire f that keeps or replaces it and lets nobody have a way: the
\* last fire is still there, or was not there before.
LEMMA LifeStep ==
  ASSUME ActionsInv, NEW f \in fires, NEW g \in Actions!Fire, g.n = f.n, g.slot = f.slot,
         Actions!Put(f, g), UNCHANGED <<Actions!row, active, made>>,
         home' \in Actions!Slot, heard' \in Actions!Slot, cooling' \subseteq Actions!Slot,
         settled' \in BOOLEAN, excuse' \subseteq Actions!Cause, excuse \subseteq excuse',
         settled => settled',
         g.stage \in {"asking", "answered"} => kind[g.slot] = "compared",
         g.stage \in {"sent", "obeyed", "lost"} => kind[g.slot] \in {"compared", "limited"},
         g.stage = "waiting" => kind[g.slot] = "prompt",
         g.n = made /\ (g.stage = "obeyed" \/ (g.stage = "answered" /\ g.got = g.slot)) => settled'
  PROVE  /\ Actions!TypeOK' /\ Numbered' /\ OnTheWay' /\ Decided' /\ Actions!Due' = Actions!Due
         /\ (\E h \in fires : h.n = made) => \E h \in fires' : h.n = made'
<1>1. /\ fires' \subseteq Actions!Fire /\ g \in fires'
      /\ \A h, i \in fires' : h.n = i.n => h = i
      /\ \A h \in fires' : h = g \/ (h \in fires /\ h.n # f.n)
      /\ \A h \in fires : h = f \/ h \in fires'
  BY PutStep DEF ActionsInv
<1>2. kind' = kind /\ shared' = shared /\ active' = active /\ made' = made /\ Actions!Due' = Actions!Due
  BY DEF Actions!row, Actions!Due
<1>3. Actions!TypeOK'
  BY <1>1, <1>2 DEF ActionsInv, Actions!TypeOK
<1>4. Numbered'
  BY <1>1, <1>2 DEF ActionsInv, Numbered
<1>5. OnTheWay'
  BY <1>1, <1>2 DEF ActionsInv, OnTheWay
<1>6. Decided'
  BY <1>1, <1>2 DEF ActionsInv, Decided
<1>. QED BY <1>1, <1>2, <1>3, <1>4, <1>5, <1>6

LEMMA EndStep ==
  ASSUME ActionsInv, NEW f \in fires, Actions!Gone(f), UNCHANGED <<Actions!row, active, made>>,
         home' \in Actions!Slot, heard' \in Actions!Slot, cooling' \subseteq Actions!Slot,
         settled' \in BOOLEAN, excuse' \subseteq Actions!Cause, excuse \subseteq excuse',
         settled => settled'
  PROVE  /\ Actions!TypeOK' /\ Numbered' /\ OnTheWay' /\ Decided' /\ Actions!Due' = Actions!Due
         /\ (\E h \in fires : h.n = made) => f.n = made \/ \E h \in fires' : h.n = made'
<1>1. /\ fires' \subseteq Actions!Fire
      /\ \A h, i \in fires' : h.n = i.n => h = i
      /\ \A h \in fires' : h \in fires /\ h.n # f.n
      /\ \A h \in fires : h = f \/ h \in fires'
  BY GoneStep DEF ActionsInv
<1>2. kind' = kind /\ shared' = shared /\ active' = active /\ made' = made /\ Actions!Due' = Actions!Due
  BY DEF Actions!row, Actions!Due
<1>3. Actions!TypeOK'
  BY <1>1, <1>2 DEF ActionsInv, Actions!TypeOK
<1>4. Numbered' /\ OnTheWay' /\ Decided'
  BY <1>1, <1>2 DEF ActionsInv, Numbered, OnTheWay, Decided
<1>. QED BY <1>1, <1>2, <1>3, <1>4

\* What is known of a fire under way.
LEMMA FireFacts ==
  ASSUME ActionsInv, NEW f \in fires
  PROVE  /\ f \in Actions!Fire /\ f.slot \in Actions!Slot /\ f.slot # "unknown" /\ f.n \in Nat
         /\ f.tries \in 0 .. Attempts /\ (f.n = made => f.slot = Actions!Due)
BY DEF ActionsInv, Actions!TypeOK, Numbered, Actions!Fire, Actions!Slot

\* A fire goes on without a way.
LEMMA GoesOn ==
  ASSUME ActionsInv, NEW f \in fires, NEW s \in Actions!Stage, Actions!To(f, s),
         UNCHANGED <<Actions!row, active, made, home, heard, cooling, settled, excuse>>,
         s \notin {"answered", "obeyed"},
         s = "asking" => kind[f.slot] = "compared",
         s \in {"sent", "lost"} => kind[f.slot] \in {"compared", "limited"},
         s = "waiting" => kind[f.slot] = "prompt"
  PROVE  ActionsInv'
<1>. DEFINE g == [f EXCEPT !.stage = s]
<1>1. g \in Actions!Fire /\ g.n = f.n /\ g.slot = f.slot /\ g.stage = s /\ Actions!Put(f, g)
  BY StageType, FireFacts DEF Actions!To
<1>2. UNCHANGED <<Actions!row, active, made>> /\ UNCHANGED <<home, heard, cooling, settled, excuse>>
  OBVIOUS
<1>. HIDE DEF g
<1>3. /\ home' \in Actions!Slot /\ heard' \in Actions!Slot /\ cooling' \subseteq Actions!Slot
      /\ settled' \in BOOLEAN /\ excuse' \subseteq Actions!Cause /\ excuse \subseteq excuse'
      /\ settled => settled'
  BY <1>2 DEF ActionsInv, Actions!TypeOK
<1>4. /\ Actions!TypeOK' /\ Numbered' /\ OnTheWay' /\ Decided' /\ Actions!Due' = Actions!Due
      /\ (\E h \in fires : h.n = made) => \E h \in fires' : h.n = made'
  <2>1. /\ g.stage \in {"asking", "answered"} => kind[g.slot] = "compared"
        /\ g.stage \in {"sent", "obeyed", "lost"} => kind[g.slot] \in {"compared", "limited"}
        /\ g.stage = "waiting" => kind[g.slot] = "prompt"
        /\ g.stage # "obeyed" /\ g.stage # "answered"
    BY <1>1
  <2>. QED BY <1>1, <1>2, <1>3, <2>1, LifeStep
<1>5. CommandCounts' /\ PromptCounts'
  BY <1>2, <1>4 DEF ActionsInv, CommandCounts, PromptCounts, Actions!row
<1>. QED BY <1>4, <1>5 DEF ActionsInv

\* A prompt is offered.
LEMMA OfferStep ==
  ASSUME ActionsParameters, ActionsInv, NEW f \in fires, kind[f.slot] = "prompt", Actions!Offers(f),
         UNCHANGED <<Actions!row, active, made, home, cooling>>
  PROVE  ActionsInv'
<1>1. /\ kind' = kind /\ active' = active /\ made' = made /\ home' = home /\ cooling' = cooling
      /\ UNCHANGED <<Actions!row, active, made>> /\ Actions!Due' = Actions!Due
  BY DEF Actions!row, Actions!Due
<1>2. home' \in Actions!Slot /\ cooling' \subseteq Actions!Slot /\ settled \in BOOLEAN
  BY <1>1 DEF ActionsInv, Actions!TypeOK
<1>3. CASE heard' = f.slot /\ Actions!Gone(f) /\ Actions!Acts(f, IF f.tries > 0 THEN "retried" ELSE "ahead")
  <2>1. PICK c \in {"retried", "ahead"} : Actions!Acts(f, c)
    BY <1>3
  <2>2. c \in Actions!Cause
    BY DEF Actions!Cause
  <2>3. settled' \in BOOLEAN /\ excuse' \subseteq Actions!Cause /\ excuse \subseteq excuse'
    BY <2>1, <2>2, CauseType DEF ActionsInv
  <2>4. settled => settled'
    BY <2>1 DEF Actions!Acts
  <2>5. heard' \in Actions!Slot
    BY <1>3, FireFacts
  <2>6. /\ Actions!TypeOK' /\ Numbered' /\ OnTheWay' /\ Decided' /\ Actions!Due' = Actions!Due
        /\ (\E h \in fires : h.n = made) => f.n = made \/ \E h \in fires' : h.n = made'
    BY <1>1, <1>2, <1>3, <2>3, <2>4, <2>5, EndStep
  <2>7. CommandCounts'
    <3>1. CASE f.n = made
      BY <1>1, <3>1, FireFacts DEF CommandCounts
    <3>2. CASE f.n # made
      BY <1>1, <2>1, <2>3, <2>6, <3>2 DEF ActionsInv, CommandCounts, Actions!Acts
    <3>. QED BY <3>1, <3>2
  <2>8. PromptCounts'
    <3>1. CASE f.n = made
      BY <1>1, <1>3, <2>1, <3>1, FireFacts DEF PromptCounts, Actions!Acts
    <3>2. CASE f.n # made /\ settled
      BY <2>1, <3>2 DEF PromptCounts, Actions!Acts
    <3>3. CASE f.n # made /\ ~settled
      BY <1>1, <2>1, <2>3, <2>6, <3>3 DEF ActionsInv, PromptCounts, Actions!Acts
    <3>. QED BY <3>1, <3>2, <3>3
  <2>. QED BY <2>6, <2>7, <2>8 DEF ActionsInv
<1>4. CASE /\ f.tries + 1 < Attempts
           /\ Actions!Put(f, [f EXCEPT !.stage = "waiting", !.tries = f.tries + 1])
           /\ UNCHANGED <<heard, settled, excuse>>
  <2>. DEFINE g == [f EXCEPT !.stage = "waiting", !.tries = f.tries + 1]
  <2>1. /\ g \in Actions!Fire /\ g.n = f.n /\ g.slot = f.slot /\ g.stage = "waiting"
        /\ Actions!Put(f, g) /\ UNCHANGED <<heard, settled, excuse>>
    <3>1. f \in Actions!Fire /\ f.tries + 1 \in 0 .. Attempts
      BY <1>4, FireFacts DEF ActionsParameters
    <3>. QED BY <1>4, <3>1 DEF Actions!Fire, Actions!Stage
  <2>. HIDE DEF g
  <2>2. /\ heard' \in Actions!Slot /\ settled' \in BOOLEAN /\ excuse' \subseteq Actions!Cause
        /\ excuse \subseteq excuse' /\ settled => settled'
    BY <2>1 DEF ActionsInv, Actions!TypeOK
  <2>3. /\ Actions!TypeOK' /\ Numbered' /\ OnTheWay' /\ Decided' /\ Actions!Due' = Actions!Due
        /\ (\E h \in fires : h.n = made) => \E h \in fires' : h.n = made'
    <3>1. /\ g.stage \in {"asking", "answered"} => kind[g.slot] = "compared"
          /\ g.stage \in {"sent", "obeyed", "lost"} => kind[g.slot] \in {"compared", "limited"}
          /\ g.stage = "waiting" => kind[g.slot] = "prompt"
          /\ g.stage # "obeyed" /\ g.stage # "answered"
      BY <2>1
    <3>. QED BY <1>1, <1>2, <2>1, <2>2, <3>1, LifeStep
  <2>4. CommandCounts' /\ PromptCounts'
    BY <1>1, <2>1, <2>3 DEF ActionsInv, CommandCounts, PromptCounts
  <2>. QED BY <2>3, <2>4 DEF ActionsInv
<1>5. CASE Actions!Gone(f) /\ Actions!Fails(f, "refused") /\ heard' = heard
  <2>1. "refused" \in Actions!Cause
    BY DEF Actions!Cause
  <2>2. /\ settled' \in BOOLEAN /\ excuse' \subseteq Actions!Cause /\ excuse \subseteq excuse'
        /\ settled' = settled /\ heard' \in Actions!Slot
    BY <1>5, <2>1, CauseType DEF ActionsInv, Actions!TypeOK, Actions!Fails
  <2>3. /\ Actions!TypeOK' /\ Numbered' /\ OnTheWay' /\ Decided' /\ Actions!Due' = Actions!Due
        /\ (\E h \in fires : h.n = made) => f.n = made \/ \E h \in fires' : h.n = made'
    BY <1>1, <1>2, <1>5, <2>2, EndStep
  <2>4. CASE f.n = made
    BY <1>5, <2>3, <2>4 DEF ActionsInv, CommandCounts, PromptCounts, Actions!Fails
  <2>5. CASE f.n # made
    BY <1>1, <1>5, <2>2, <2>3, <2>5 DEF ActionsInv, CommandCounts, PromptCounts
  <2>. QED BY <2>4, <2>5
<1>. QED BY <1>3, <1>4, <1>5 DEF Actions!Offers

\* A fire ends without a way, because of c if it is the last one.
LEMMA FailStep ==
  ASSUME ActionsInv, NEW f \in fires, NEW c \in {"refused", "cooled"}, Actions!Gone(f), Actions!Fails(f, c),
         kind[f.slot] # "prompt", UNCHANGED <<Actions!row, active, made, home, heard, cooling>>
  PROVE  ActionsInv'
<1>1. /\ kind' = kind /\ active' = active /\ made' = made /\ home' = home /\ heard' = heard
      /\ cooling' = cooling /\ UNCHANGED <<Actions!row, active, made>>
  BY DEF Actions!row
<1>2. c \in Actions!Cause
  BY DEF Actions!Cause
<1>3. /\ settled' \in BOOLEAN /\ excuse' \subseteq Actions!Cause /\ excuse \subseteq excuse'
      /\ settled' = settled /\ home' \in Actions!Slot /\ heard' \in Actions!Slot /\ cooling' \subseteq Actions!Slot
  BY <1>1, <1>2, CauseType DEF ActionsInv, Actions!TypeOK, Actions!Fails
<1>4. /\ Actions!TypeOK' /\ Numbered' /\ OnTheWay' /\ Decided' /\ Actions!Due' = Actions!Due
      /\ (\E h \in fires : h.n = made) => f.n = made \/ \E h \in fires' : h.n = made'
  BY <1>1, <1>3, EndStep
<1>5. CASE f.n = made
  BY <1>1, <1>4, <1>5, FireFacts DEF ActionsInv, CommandCounts, PromptCounts, Actions!Fails
<1>6. CASE f.n # made
  BY <1>1, <1>3, <1>4, <1>6 DEF ActionsInv, CommandCounts, PromptCounts
<1>. QED BY <1>5, <1>6

\* A fire that is not the last one ends, or the last one has had its way.
LEMMA FinalStep ==
  ASSUME ActionsInv, NEW f \in fires, Actions!Gone(f), cooling' \subseteq Actions!Slot,
         UNCHANGED <<Actions!row, active, made, home, heard, settled, excuse>>,
         f.n = made => settled \/ kind[f.slot] = "none"
  PROVE  ActionsInv'
<1>1. /\ kind' = kind /\ active' = active /\ made' = made /\ home' = home /\ heard' = heard
      /\ settled' = settled /\ excuse' = excuse /\ UNCHANGED <<Actions!row, active, made>>
  BY DEF Actions!row
<1>2. /\ settled' \in BOOLEAN /\ excuse' \subseteq Actions!Cause /\ excuse \subseteq excuse'
      /\ home' \in Actions!Slot /\ heard' \in Actions!Slot
  BY <1>1 DEF ActionsInv, Actions!TypeOK
<1>3. /\ Actions!TypeOK' /\ Numbered' /\ OnTheWay' /\ Decided' /\ Actions!Due' = Actions!Due
      /\ (\E h \in fires : h.n = made) => f.n = made \/ \E h \in fires' : h.n = made'
  BY <1>1, <1>2, EndStep
<1>4. CASE f.n = made
  BY <1>1, <1>3, <1>4, FireFacts DEF ActionsInv, CommandCounts, PromptCounts
<1>5. CASE f.n # made
  BY <1>1, <1>3, <1>5 DEF ActionsInv, CommandCounts, PromptCounts
<1>. QED BY <1>4, <1>5

\* A fire begins.
LEMMA FireStarts ==
  ASSUME ActionsParameters, ActionsInv, NEW f \in fires, Actions!Starts(f)
  PROVE  ActionsInv'
<1>. USE FireFacts
<1>0. Actions!Begins(f) /\ UNCHANGED <<Actions!row, active, made, home, cooling>>
  BY DEF Actions!Starts
<1>1. CASE kind[f.slot] = "none" /\ Actions!Gone(f) /\ UNCHANGED <<heard, settled, excuse>>
  <2>1. cooling' \subseteq Actions!Slot
    BY <1>0 DEF ActionsInv, Actions!TypeOK
  <2>. QED BY <1>0, <1>1, <2>1, FinalStep
<1>2. CASE kind[f.slot] = "compared" /\ Actions!To(f, "asking") /\ UNCHANGED <<heard, settled, excuse>>
  <2>1. "asking" \in Actions!Stage
    BY DEF Actions!Stage
  <2>. QED BY <1>0, <1>2, <2>1, GoesOn
<1>3. CASE kind[f.slot] = "limited" /\ Actions!Gone(f) /\ Actions!Fails(f, "cooled") /\ UNCHANGED heard
  BY <1>0, <1>3, FailStep
<1>4. CASE kind[f.slot] = "limited" /\ Actions!To(f, "sent") /\ UNCHANGED <<heard, settled, excuse>>
  <2>1. "sent" \in Actions!Stage
    BY DEF Actions!Stage
  <2>. QED BY <1>0, <1>4, <2>1, GoesOn
<1>5. CASE kind[f.slot] = "prompt" /\ Actions!Offers(f)
  BY <1>0, <1>5, OfferStep
<1>. QED BY <1>0, <1>1, <1>2, <1>3, <1>4, <1>5 DEF Actions!Begins

\* The cloud looks, or cannot.
LEMMA LookStep ==
  ASSUME ActionsInv, NEW f \in fires, Actions!Looks(f)
  PROVE  ActionsInv'
<1>1. PICK a \in {home, "unknown"} :
        /\ Actions!Put(f, [f EXCEPT !.stage = "answered", !.got = a])
        /\ IF a = f.slot THEN Actions!Acts(f, "overtaken") ELSE UNCHANGED <<settled, excuse>>
  BY DEF Actions!Looks
<1>. DEFINE g == [f EXCEPT !.stage = "answered", !.got = a]
<1>2. /\ g \in Actions!Fire /\ g.n = f.n /\ g.slot = f.slot /\ g.stage = "answered" /\ g.got = a
      /\ Actions!Put(f, g)
  BY <1>1, FireFacts DEF ActionsInv, Actions!TypeOK, Actions!Fire, Actions!Stage
<1>. HIDE DEF g
<1>3. /\ kind' = kind /\ active' = active /\ made' = made /\ home' = home /\ heard' = heard
      /\ cooling' = cooling /\ UNCHANGED <<Actions!row, active, made>>
  BY DEF Actions!Looks, Actions!row
<1>4. kind[f.slot] = "compared"
  BY DEF Actions!Looks, ActionsInv, OnTheWay
<1>5. "overtaken" \in Actions!Cause
  BY DEF Actions!Cause
<1>6. /\ {settled, settled'} \subseteq BOOLEAN /\ excuse' \subseteq Actions!Cause
      /\ excuse \subseteq excuse' /\ home' \in Actions!Slot /\ heard' \in Actions!Slot
      /\ cooling' \subseteq Actions!Slot /\ (settled => settled')
  BY <1>1, <1>3, <1>5, CauseType DEF ActionsInv, Actions!TypeOK, Actions!Acts
<1>7. g.n = made /\ g.got = g.slot => settled'
  BY <1>1, <1>2 DEF Actions!Acts
<1>8. /\ Actions!TypeOK' /\ Numbered' /\ OnTheWay' /\ Decided' /\ Actions!Due' = Actions!Due
      /\ (\E h \in fires : h.n = made) => \E h \in fires' : h.n = made'
  <2>1. /\ g.stage \in {"asking", "answered"} => kind[g.slot] = "compared"
        /\ g.stage \in {"sent", "obeyed", "lost"} => kind[g.slot] \in {"compared", "limited"}
        /\ g.stage = "waiting" => kind[g.slot] = "prompt"
        /\ g.n = made /\ (g.stage = "obeyed" \/ (g.stage = "answered" /\ g.got = g.slot)) => settled'
    BY <1>2, <1>4, <1>7
  <2>2. UNCHANGED <<Actions!row, active, made>> /\ g \in Actions!Fire /\ g.n = f.n /\ g.slot = f.slot /\ Actions!Put(f, g)
    BY <1>2, <1>3
  <2>. QED BY <1>6, <2>1, <2>2, LifeStep
<1>9. CASE a # f.slot
  BY <1>1, <1>3, <1>8, <1>9 DEF ActionsInv, CommandCounts, PromptCounts
<1>10. CASE a = f.slot /\ f.n = made
  BY <1>1, <1>3, <1>4, <1>8, <1>10, FireFacts DEF ActionsInv, CommandCounts, PromptCounts, Actions!Acts
<1>11. CASE a = f.slot /\ f.n # made
  <2>1. settled' = settled /\ (settled => "overtaken" \in excuse')
    BY <1>1, <1>6, <1>11 DEF Actions!Acts, ActionsInv, Actions!TypeOK
  <2>2. CommandCounts'
    BY <1>3, <1>6, <1>8, <2>1 DEF ActionsInv, CommandCounts
  <2>3. PromptCounts'
    BY <1>3, <1>6, <1>8, <2>1 DEF ActionsInv, PromptCounts
  <2>. QED BY <1>8, <2>2, <2>3 DEF ActionsInv
<1>. QED BY <1>9, <1>10, <1>11

\* The home obeys.
LEMMA ObeyStep ==
  ASSUME ActionsInv, NEW f \in fires, Actions!Obeys(f)
  PROVE  ActionsInv'
<1>. DEFINE g == [f EXCEPT !.stage = "obeyed"]
<1>1. /\ g \in Actions!Fire /\ g.n = f.n /\ g.slot = f.slot /\ g.stage = "obeyed"
  BY StageType, FireFacts DEF Actions!Stage
<1>2. Actions!Put(f, g) \/ Actions!Gone(f)
  BY DEF Actions!Obeys, Actions!To
<1>. HIDE DEF g
<1>3. /\ kind' = kind /\ active' = active /\ made' = made /\ home' = f.slot /\ heard' = heard
      /\ cooling' = cooling /\ UNCHANGED <<Actions!row, active, made>> /\ Actions!Acts(f, "overtaken")
  BY DEF Actions!Obeys, Actions!row
<1>4. kind[f.slot] \in {"compared", "limited"}
  BY DEF Actions!Obeys, ActionsInv, OnTheWay
<1>5. "overtaken" \in Actions!Cause
  BY DEF Actions!Cause
<1>6. /\ {settled, settled'} \subseteq BOOLEAN /\ excuse' \subseteq Actions!Cause
      /\ excuse \subseteq excuse' /\ home' \in Actions!Slot /\ heard' \in Actions!Slot
      /\ cooling' \subseteq Actions!Slot /\ (settled => settled')
  BY <1>3, <1>5, CauseType, FireFacts DEF ActionsInv, Actions!TypeOK, Actions!Acts
<1>7. g.n = made => settled'
  BY <1>1, <1>3 DEF Actions!Acts
<1>8. /\ Actions!TypeOK' /\ Numbered' /\ OnTheWay' /\ Decided' /\ Actions!Due' = Actions!Due
      /\ (\E h \in fires : h.n = made) => f.n = made \/ \E h \in fires' : h.n = made'
  <2>1. CASE Actions!Put(f, g)
    <3>1. /\ g.stage \in {"asking", "answered"} => kind[g.slot] = "compared"
          /\ g.stage \in {"sent", "obeyed", "lost"} => kind[g.slot] \in {"compared", "limited"}
          /\ g.stage = "waiting" => kind[g.slot] = "prompt"
          /\ g.n = made /\ (g.stage = "obeyed" \/ (g.stage = "answered" /\ g.got = g.slot))
             => settled'
      BY <1>1, <1>4, <1>7
    <3>2. UNCHANGED <<Actions!row, active, made>> /\ g \in Actions!Fire /\ g.n = f.n /\ g.slot = f.slot
      BY <1>1, <1>3
    <3>. QED BY <1>6, <2>1, <3>1, <3>2, LifeStep
  <2>2. CASE Actions!Gone(f)
    <3>1. UNCHANGED <<Actions!row, active, made>>
      BY <1>3
    <3>. QED BY <1>6, <2>2, <3>1, EndStep
  <2>. QED BY <1>2, <2>1, <2>2
<1>9. CASE f.n = made
  BY <1>3, <1>4, <1>8, <1>9, FireFacts DEF ActionsInv, CommandCounts, PromptCounts, Actions!Acts
<1>10. CASE f.n # made
  <2>1. settled' = settled /\ (settled => "overtaken" \in excuse')
    BY <1>3, <1>6, <1>10 DEF Actions!Acts, ActionsInv, Actions!TypeOK
  <2>2. CommandCounts'
    BY <1>3, <1>6, <1>8, <1>10, <2>1 DEF ActionsInv, CommandCounts
  <2>3. PromptCounts'
    BY <1>3, <1>6, <1>8, <1>10, <2>1 DEF ActionsInv, PromptCounts
  <2>. QED BY <1>8, <2>2, <2>3 DEF ActionsInv
<1>. QED BY <1>9, <1>10

\* The answers to a fire.
LEMMA AnswerStep ==
  ASSUME ActionsInv, NEW f \in fires,
         Actions!Compares(f) \/ Actions!Confirmed(f) \/ Actions!Unconfirmed(f) \/ Actions!Refused(f) \/ Actions!TimesOut(f)
  PROVE  ActionsInv'
<1>0. /\ cooling \subseteq Actions!Slot /\ f.slot \in Actions!Slot
      /\ f.stage \in {"answered", "sent", "obeyed", "lost"} => kind[f.slot] \in {"compared", "limited"}
      /\ "sent" \in Actions!Stage /\ "lost" \in Actions!Stage
  BY FireFacts DEF ActionsInv, Actions!TypeOK, OnTheWay, Actions!Stage
<1>1. CASE Actions!Compares(f) /\ f.got = f.slot
  <2>1. f.n = made => settled
    BY <1>1 DEF ActionsInv, Decided, Actions!Compares
  <2>. QED BY <1>0, <1>1, <2>1, FinalStep DEF Actions!Compares
<1>2. CASE Actions!Compares(f) /\ f.got # f.slot
  BY <1>0, <1>2, GoesOn DEF Actions!Compares
<1>3. CASE Actions!Confirmed(f) \/ Actions!Unconfirmed(f)
  <2>1. f.n = made => settled
    BY <1>3 DEF ActionsInv, Decided, Actions!Confirmed, Actions!Unconfirmed
  <2>2. cooling' \subseteq Actions!Slot
    BY <1>0, <1>3 DEF Actions!Confirmed, Actions!Unconfirmed, Actions!Key, Actions!Slot
  <2>. QED BY <1>3, <2>1, <2>2, FinalStep DEF Actions!Confirmed, Actions!Unconfirmed
<1>4. CASE Actions!Refused(f)
  BY <1>0, <1>4, FailStep DEF Actions!Refused
<1>5. CASE Actions!TimesOut(f)
  BY <1>0, <1>5, GoesOn DEF Actions!TimesOut
<1>. QED BY <1>1, <1>2, <1>3, <1>4, <1>5

\* What happens in the home.
LEMMA HomeStep ==
  ASSUME ActionsInv, NEW s \in Actions!Slot, Actions!Cools(s) \/ Actions!Meddles(s)
  PROVE  ActionsInv'
<1>1. /\ kind' = kind /\ shared' = shared /\ active' = active /\ made' = made /\ fires' = fires
      /\ heard' = heard /\ settled' = settled /\ Actions!Due' = Actions!Due
  BY DEF Actions!Cools, Actions!Meddles, Actions!row, Actions!Due
<1>2. /\ home' \in Actions!Slot /\ cooling' \subseteq Actions!Slot /\ excuse' \subseteq Actions!Cause
      /\ excuse \subseteq excuse' /\ (home' = home \/ "meddled" \in excuse')
  BY DEF Actions!Cools, Actions!Meddles, ActionsInv, Actions!TypeOK, Actions!Cause
<1>3. Actions!TypeOK'
  BY <1>1, <1>2 DEF ActionsInv, Actions!TypeOK
<1>4. Numbered' /\ OnTheWay' /\ Decided'
  BY <1>1 DEF ActionsInv, Numbered, OnTheWay, Decided
<1>5. CommandCounts' /\ PromptCounts'
  BY <1>1, <1>2 DEF ActionsInv, CommandCounts, PromptCounts
<1>. QED BY <1>3, <1>4, <1>5 DEF ActionsInv

LEMMA ActionsStep ==
  ASSUME ActionsParameters, ActionsInv, Actions!Next
  PROVE  ActionsInv'
<1>1. CASE Actions!Enters \/ Actions!Exits \/ Actions!DebouncedExit \/ Actions!CrossDay
  BY <1>1, DispatchStep
<1>2. ASSUME NEW f \in fires, Actions!Starts(f)
      PROVE  ActionsInv'
  BY <1>2, FireStarts
<1>3. ASSUME NEW f \in fires, Actions!Retries(f)
      PROVE  ActionsInv'
  <2>1. kind[f.slot] = "prompt"
    BY <1>3 DEF Actions!Retries, ActionsInv, OnTheWay
  <2>. QED BY <1>3, <2>1, OfferStep DEF Actions!Retries
<1>4. ASSUME NEW f \in fires, Actions!Looks(f)
      PROVE  ActionsInv'
  BY <1>4, LookStep
<1>5. ASSUME NEW f \in fires, Actions!Obeys(f)
      PROVE  ActionsInv'
  BY <1>5, ObeyStep
<1>6. ASSUME NEW f \in fires,
             Actions!Compares(f) \/ Actions!Confirmed(f) \/ Actions!Unconfirmed(f) \/ Actions!Refused(f) \/ Actions!TimesOut(f)
      PROVE  ActionsInv'
  BY <1>6, AnswerStep
<1>7. ASSUME NEW s \in Actions!Slot, Actions!Cools(s) \/ Actions!Meddles(s)
      PROVE  ActionsInv'
  BY <1>7, HomeStep
<1>. QED BY <1>1, <1>2, <1>3, <1>4, <1>5, <1>6, <1>7, Zenon DEF Actions!Next, Actions!Idle

\* The home is as the invariant wants it at every step.
THEOREM ActionsInvariance == ActionsParameters => (Actions!Spec => []ActionsInv)
<1>. SUFFICES ASSUME ActionsParameters PROVE Actions!Spec => []ActionsInv
  OBVIOUS
<1>1. Actions!Init => ActionsInv
  <2>. SUFFICES ASSUME Actions!Init PROVE ActionsInv
    OBVIOUS
  <2>1. Actions!TypeOK
    <3>1. made \in 0 .. MaxFires /\ home \in Actions!Slot /\ heard \in Actions!Slot
      BY DEF Actions!Init, ActionsParameters, Actions!Slot
    <3>. QED BY <3>1 DEF Actions!Init, Actions!TypeOK
  <2>2. Numbered /\ OnTheWay /\ Decided /\ CommandCounts /\ PromptCounts
    BY DEF Actions!Init, Numbered, OnTheWay, Decided, CommandCounts, PromptCounts
  <2>. QED BY <2>1, <2>2 DEF ActionsInv
<1>2. ActionsInv /\ [Actions!Next]_(Actions!vars) => ActionsInv'
  <2>1. CASE ActionsInv /\ Actions!Next
    BY <2>1, ActionsStep
  <2>2. CASE ActionsInv /\ UNCHANGED Actions!vars
    BY <2>2 DEF ActionsInv, Actions!TypeOK, Numbered, OnTheWay, Decided, CommandCounts, PromptCounts, Actions!vars, Actions!row, Actions!Due
  <2>. QED BY <2>1, <2>2
<1>. QED BY <1>1, <1>2, PTL DEF Actions!Spec

\* When nothing is under way the home follows the task, unless there is a cause why not
\* (rule/runner.py:1499).
THEOREM ActionsSettle == ActionsParameters => (Actions!Spec => [](Actions!TypeOK /\ Actions!HomeFollowsTask))
<1>. SUFFICES ASSUME ActionsParameters PROVE Actions!Spec => [](Actions!TypeOK /\ Actions!HomeFollowsTask)
  OBVIOUS
<1>1. ActionsInv => Actions!TypeOK /\ Actions!HomeFollowsTask
  BY DEF ActionsInv, Actions!HomeFollowsTask, CommandCounts, PromptCounts
<1>. QED BY <1>1, ActionsInvariance, PTL

(***************************************************************************)
(* The run that takes them together                                        *)
(***************************************************************************)

\* A step of the run is a step of the part that moves, and the others stand still.
LEMMA PartsMove ==
  ASSUME [MCNext]_<<moves, vars, vars2, actionVars>>
  PROVE  [Next]_vars /\ [Iot!Next]_(Iot!vars) /\ [Actions!Next]_(Actions!vars)
<1>1. UNCHANGED vars2 => UNCHANGED Iot!vars
  BY DEF vars2, Iot!vars
<1>2. UNCHANGED actionVars => UNCHANGED Actions!vars
  BY DEF actionVars, Actions!vars
<1>. QED BY <1>1, <1>2 DEF MCNext

\* The run is a behaviour of each of the three (rule/runner.py:500, rule/runner.py:1499).
THEOREM TasksAreParts == MCSpec => Spec /\ Iot!Spec /\ Actions!Spec
<1>1. MCInit => Init /\ Iot!Init /\ Actions!Init
  BY DEF MCInit
<1>. QED BY <1>1, PartsMove, PTL DEF MCSpec, Spec, Iot!Spec, Actions!Spec

\* What is dispatched comes to the home, in the run as well (rule/runner.py:1499).
THEOREM RunActionsSettle == ASSUME ActionsParameters PROVE MCSpec => []HomeFollowsTask
BY TasksAreParts, ActionsSettle, PTL DEF HomeFollowsTask

\* The debounce of the task on a device rests on a condition that is known to be false
\* (rule/runner.py:500).
THEOREM IotExitsRestOnKnowledge == MCSpec => []IotLeavingIsFalse
<1>1. /\ IotDirection \in [{stay, door} -> {"session", "enter", "exit", "guard"}]
      /\ IotSource \in [{stay, door} -> SUBSET {lamp, lock}]
      /\ \A r \in {stay, door} : \A s, d \in IotSource[r] : s = d
  BY DEF IotDirection, IotSource
<1>2. Iot!Spec => []Iot!LeavingIsFalse
  BY <1>1, WindowAssumption, Iot!ExitsRestOnKnowledge
<1>. QED BY <1>2, TasksAreParts, PTL DEF IotLeavingIsFalse
================================================================================
