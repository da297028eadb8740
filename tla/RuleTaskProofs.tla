---------------------------- MODULE RuleTaskProofs ----------------------------
(***************************************************************************)
(* Theorems about RuleTask, for every set of rules and sources, every      *)
(* assignment of directions and every duration window.                     *)
(***************************************************************************)
EXTENDS RuleTask, SequenceTheorems, FiniteSetTheorems, TLAPS

Bit == {0, 1}
Windows == UNION {[1 .. n -> {0, 1}] : n \in 0 .. MaxLen}

\* A duration window is a sequence of at most MaxLen samples.
LEMMA WindowIsSeq ==
  \A w : w \in Windows <=> w \in Seq(Bit) /\ Len(w) <= MaxLen
<1>1. ASSUME NEW n \in 0 .. MaxLen, NEW w \in [1 .. n -> {0, 1}]
      PROVE  w \in Seq(Bit) /\ Len(w) <= MaxLen
  BY WindowAssumption DEF Bit
<1>2. ASSUME NEW w \in Seq(Bit), Len(w) <= MaxLen
      PROVE  w \in Windows
  <2>1. Len(w) \in 0 .. MaxLen /\ w \in [1 .. Len(w) -> {0, 1}]
    BY <1>2, WindowAssumption, LenProperties DEF Bit
  <2>. QED
    BY <2>1 DEF Windows
<1>3. ASSUME NEW w \in Windows
      PROVE  w \in Seq(Bit) /\ Len(w) <= MaxLen
  <2>1. PICK n \in 0 .. MaxLen : w \in [1 .. n -> {0, 1}]
    BY DEF Windows
  <2>. QED
    BY <1>1, <2>1
<1>. QED
  BY <1>2, <1>3

LEMMA EmptyWindow == <<>> \in Windows
<1>1. <<>> \in Seq(Bit) /\ Len(<<>>) = 0
  BY EmptySeq
<1>2. Len(<<>>) <= MaxLen
  BY <1>1, WindowAssumption
<1>. QED
  BY <1>1, <1>2, WindowIsSeq, Zenon

\* Whatever the window and the number of missed rounds, a sample leaves a window.
LEMMA SampledIsWindow ==
  ASSUME NEW w \in Windows, NEW b \in BOOLEAN, NEW gap \in 0 .. MaxLen
  PROVE  Sampled(w, b, gap) \in Windows
<1> DEFINE x == IF b THEN 1 ELSE 0
           z == [i \in 1 .. gap |-> 0]
           u == Append(w \o z, x)
<1>1. x \in Bit /\ gap \in Nat /\ MaxLen \in Nat /\ MaxLen >= 1
  BY WindowAssumption DEF Bit
<1>2. <<x>> \in Windows
  <2>. HIDE DEF x
  <2>1. <<x>> \in Seq(Bit) /\ Len(<<x>>) = 1
    BY <1>1
  <2>. QED
    BY <1>1, <2>1, WindowIsSeq
<1>3. w \in Seq(Bit)
  BY WindowIsSeq
<1>4. z \in Seq(Bit)
  BY <1>1 DEF Bit
<1>5. w \o z \in Seq(Bit)
  <2>. HIDE DEF z
  <2>. QED
    BY <1>3, <1>4, ConcatProperties
<1>6. u \in Seq(Bit)
  <2>. HIDE DEF x, z
  <2>. QED
    BY <1>1, <1>5
<1>7. Recent(u) \in Windows
  <2>. HIDE DEF u
  <2>1. CASE Len(u) <= MaxLen
    BY <1>6, <2>1, WindowIsSeq DEF Recent
  <2>2. CASE ~(Len(u) <= MaxLen)
    <3> DEFINE m == Len(u) - MaxLen + 1
               n == Len(u)
    <3>1. Len(u) \in Nat
      BY <1>6, LenProperties
    <3>2. m \in Int /\ n \in Int /\ m >= 1 /\ n - m + 1 = MaxLen /\ m <= n
      BY <1>1, <2>2, <3>1
    <3>3. \A i \in m .. n : u[i] \in Bit
      BY <1>6, <3>1, <3>2, ElementOfSeq
    <3>. HIDE DEF m, n
    <3>4. SubSeq(u, m, n) \in Seq(Bit) /\ Len(SubSeq(u, m, n)) = MaxLen
      BY <3>2, <3>3, SubSeqProperties
    <3>5. Recent(u) = SubSeq(u, m, n)
      BY <2>2 DEF Recent, m, n
    <3>6. Recent(u) \in Seq(Bit) /\ Len(Recent(u)) = MaxLen
      BY <3>4, <3>5
    <3>. QED
      BY <1>1, <3>6, WindowIsSeq
  <2>. QED
    BY <2>1, <2>2
<1>. QED
  BY <1>2, <1>7, Zenon DEF Sampled

-----------------------------------------------------------------------------
(* What the helpers leave behind. *)

IInv == TypeOK /\ LeavingIsFalse

Last == {"T", "F", "U", "no"}

\* A condition is known to be false when a source was seen false and no source
\* is true or unknown.
LEMMA KnownFalse ==
  ASSUME NEW r \in Rule, NEW v, v[r] \in [Did -> Last]
  PROVE  Satisfied(r, v) = "F" <=> /\ \E s \in Did : v[r][s] = "F"
                                   /\ \A s \in Did : v[r][s] \in {"F", "no"}
BY DEF Satisfied, Or3, Last

\* A source seen true makes the condition true.
LEMMA SeenTrue ==
  ASSUME NEW r \in Rule, NEW s \in Did, NEW v, v[r] \in [Did -> Last], v[r][s] = "T"
  PROVE  Satisfied(r, v) = "T"
BY DEF Satisfied, Or3

\* A condition depends on its rule's sources only.
LEMMA SatisfiedIsLocal ==
  ASSUME NEW r \in Rule, NEW u, NEW v, u[r] = v[r]
  PROVE  Satisfied(r, u) = Satisfied(r, v)
BY DEF Satisfied

\* Another source seen false leaves a false condition false.
LEMMA StillFalse ==
  ASSUME NEW r \in Rule, NEW u, NEW v, u[r] \in [Did -> Last], v[r] \in [Did -> Last],
         Satisfied(r, u) = "F", \A d \in Did : v[r][d] \in {u[r][d], "F"}
  PROVE  Satisfied(r, v) = "F"
<1>1. (\E d \in Did : u[r][d] = "F") /\ \A d \in Did : u[r][d] \in {"F", "no"}
  BY KnownFalse
<1>. QED
  BY <1>1, KnownFalse

\* The state machine's steps: an answer to an edge, or a new topology.
StateStep ==
  \/ UNCHANGED state
  \/ \E r \in Rule, v \in [Rule -> [Did -> Last]] : Entered(r, v)
  \/ \E r \in Rule : Exited(r)
  \/ \E T \in SUBSET Rule, v \in [Rule -> [Did -> Last]] : Reconfigure(T, v)
  \/ on' = FALSE /\ owing' = FALSE

\* Whatever the state machine is told, on_enter stays paired with on_exit.
LEMMA StateStepFacts ==
  ASSUME on \in BOOLEAN, owing \in BOOLEAN, StateStep
  PROVE  /\ on' \in BOOLEAN /\ owing' \in BOOLEAN
         /\ Paired => Paired'
<1>1. CASE UNCHANGED state
  BY <1>1 DEF state, Paired
<1>2. ASSUME NEW r \in Rule, NEW v \in [Rule -> [Did -> Last]], Entered(r, v)
      PROVE  on' \in BOOLEAN /\ owing' \in BOOLEAN /\ (Paired => Paired')
  <2> DEFINE opens == (Direction[r] \in {"session", "enter"} /\ EnterPasses(r, v)) /\ SessionType(topo)
             exits == Direction[r] = "exit" /\ ExitPasses(r, v)
  <2>1. on' = ((on \/ opens) /\ ~exits) /\ owing' = ((owing \/ opens) /\ ~exits)
    BY <1>2 DEF Entered
  <2>. HIDE DEF opens, exits
  <2>. QED
    BY <2>1 DEF Paired
<1>3. ASSUME NEW r \in Rule, Exited(r)
      PROVE  on' \in BOOLEAN /\ owing' \in BOOLEAN /\ (Paired => Paired')
  BY <1>3 DEF Exited, Paired
<1>4. ASSUME NEW T \in SUBSET Rule, NEW v \in [Rule -> [Did -> Last]], Reconfigure(T, v)
      PROVE  on' \in BOOLEAN /\ owing' \in BOOLEAN /\ (Paired => Paired')
  BY <1>4 DEF Reconfigure, Paired
<1>5. CASE on' = FALSE /\ owing' = FALSE
  BY <1>5 DEF Paired
<1>. QED
  BY <1>1, <1>2, <1>3, <1>4, <1>5 DEF StateStep

\* A sample keeps the types of the window, and only a timed rule is fired.
LEMMA SampleStep ==
  ASSUME TypeOK, NEW r \in Rule, NEW s \in Did, NEW b \in BOOLEAN, Sample(r, s, b)
  PROVE  /\ window' \in [Rule -> Windows] /\ fired' \subseteq timed
         /\ StateStep
<1>0. /\ window \in [Rule -> Windows] /\ fired \subseteq timed
      /\ val \in [Rule -> [Did -> Last]]
  BY DEF TypeOK, Windows, Last
<1>1. CASE UNCHANGED duration /\ UNCHANGED state
  BY <1>0, <1>1 DEF duration, StateStep
<1>2. ASSUME r \in timed, NEW gap \in 0 .. MaxLen, NEW c \in BOOLEAN, Evaluate(r, c, gap)
      PROVE  window' \in [Rule -> Windows] /\ fired' \subseteq timed /\ StateStep
  <2> DEFINE w == Sampled(window[r], c, gap)
  <2>1. w \in Windows
    BY <1>0, SampledIsWindow
  <2>2. /\ window' = [window EXCEPT ![r] = <<>>] \/ window' = [window EXCEPT ![r] = w]
        /\ fired' = fired \cup {r} \/ fired' = fired
        /\ Entered(r, val) \/ UNCHANGED state
    BY <1>2 DEF Evaluate
  <2>. HIDE DEF w
  <2>. QED
    BY <1>0, <1>2, <2>1, <2>2, EmptyWindow DEF StateStep
<1>. QED
  <2> DEFINE seen == b \/ \E d \in Did \ {s} : val[r][d] = "T"
  <2>1. seen \in BOOLEAN
    OBVIOUS
  <2>2. \/ UNCHANGED duration /\ UNCHANGED state
        \/ r \in timed /\ \E gap \in 0 .. MaxLen : Evaluate(r, seen, gap)
    BY DEF Sample
  <2>. HIDE DEF seen
  <2>. QED
    BY <1>1, <1>2, <2>1, <2>2

\* A step that takes nothing into the debounce and does not touch the rules that
\* stay in it keeps LeavingIsFalse.
LEMMA LeavingKept ==
  ASSUME IInv, leaving' \subseteq leaving,
         \A r \in leaving' : /\ val'[r] = val[r] /\ r \notin base'
                             /\ r \in rules' /\ r \in enabled' /\ ~paused'
  PROVE  LeavingIsFalse'
<1>. SUFFICES ASSUME NEW r \in leaving'
              PROVE  /\ Listening(r)' /\ Direction[r] = "session"
                     /\ r \notin base' /\ Satisfied(r, val') = "F"
  BY DEF LeavingIsFalse
<1>1. r \in leaving /\ r \in Rule
  BY DEF IInv, TypeOK
<1>2. Satisfied(r, val) = "F" /\ Direction[r] = "session"
  BY <1>1 DEF IInv, LeavingIsFalse
<1>3. Satisfied(r, val') = "F"
  BY <1>1, <1>2, SatisfiedIsLocal
<1>. QED
  BY <1>2, <1>3 DEF Listening, Live

\* What stands before a step, in the forms the actions need.
LEMMA Facts ==
  ASSUME IInv
  PROVE  /\ val \in [Rule -> [Did -> Last]] /\ window \in [Rule -> Windows]
         /\ on \in BOOLEAN /\ owing \in BOOLEAN /\ paused \in BOOLEAN
         /\ rules \subseteq Rule /\ enabled \subseteq rules /\ topo \subseteq rules
         /\ timed \subseteq rules \cap MayTime
         /\ pexit \subseteq Rule \X Did /\ penter \subseteq Rule \X Did
         /\ base \subseteq Rule /\ leaving \subseteq Rule /\ fired \subseteq timed
         /\ leaving \subseteq Live /\ leaving \cap base = {} /\ (paused => leaving = {})
<1>1. \A r \in leaving : r \in Live /\ ~paused /\ r \notin base
  BY DEF IInv, LeavingIsFalse, Listening
<1>. QED
  BY <1>1 DEF IInv, TypeOK, Windows, Last

\* After _reset_runtime_state a rule knows nothing and leaves nothing.
LEMMA ResetStep ==
  ASSUME IInv, NEW R \in SUBSET Rule, NEW C \in SUBSET R, NEW T, Reset(R, C, T)
  PROVE  /\ val' \in [Rule -> [Did -> Last]] /\ window' \in [Rule -> Windows]
         /\ pexit' \subseteq Rule \X Did /\ penter' \subseteq Rule \X Did
         /\ base' \subseteq Rule /\ leaving' = leaving \ R
         /\ fired' = (fired \ R) \cup (C \cap T)
         /\ \A r \in leaving' : val'[r] = val[r] /\ r \notin base'
<1>1. /\ val' = [r \in Rule |-> IF r \in R THEN [s \in Did |-> "no"] ELSE val[r]]
      /\ window' = [r \in Rule |-> IF r \in R THEN <<>> ELSE window[r]]
      /\ pexit' \subseteq pexit /\ penter' \subseteq penter
      /\ base' = (base \ R) \cup C /\ leaving' = leaving \ R
      /\ fired' = (fired \ R) \cup (C \cap T)
  BY DEF Reset
<1>2. val' \in [Rule -> [Did -> Last]]
  BY <1>1, Facts DEF Last
<1>3. window' \in [Rule -> Windows]
  BY <1>1, Facts, EmptyWindow
<1>. QED
  BY <1>1, <1>2, <1>3, Facts

LEMMA ClearStep ==
  ASSUME IInv, NEW R \in SUBSET Rule, Reset(R, {}, {})
  PROVE  /\ val' \in [Rule -> [Did -> Last]] /\ window' \in [Rule -> Windows]
         /\ pexit' \subseteq Rule \X Did /\ penter' \subseteq Rule \X Did
         /\ base' \subseteq Rule /\ leaving' = leaving \ R
         /\ fired' = fired \ R
         /\ \A r \in leaving' : val'[r] = val[r] /\ r \notin base'
<1> DEFINE none == {}
<1>1. none \in SUBSET R /\ Reset(R, none, none)
  OBVIOUS
<1>2. (fired \ R) \cup (none \cap none) = fired \ R
  OBVIOUS
<1>. HIDE DEF none
<1>. QED
  BY <1>1, <1>2, ResetStep

\* A step of the configuration: the condition layer keeps or resets its rules,
\* the state machine steps.
LEMMA Compose ==
  ASSUME IInv, StateStep,
         rules' \subseteq Rule, enabled' \subseteq rules', topo' \subseteq rules',
         timed' \subseteq rules' \cap MayTime, paused' \in BOOLEAN,
         val' \in [Rule -> [Did -> Last]], window' \in [Rule -> Windows],
         pexit' \subseteq Rule \X Did, penter' \subseteq Rule \X Did,
         base' \subseteq Rule, leaving' \subseteq Rule, fired' \subseteq timed'
  PROVE  TypeOK' /\ (Paired => Paired')
<1>1. on' \in BOOLEAN /\ owing' \in BOOLEAN /\ (Paired => Paired')
  BY Facts, StateStepFacts
<1>. QED
  BY <1>1 DEF TypeOK, Windows, Last

-----------------------------------------------------------------------------
(* One lemma per action. *)

LEMMA InvInit == Init => IInv /\ Paired
<1>. SUFFICES ASSUME Init
              PROVE  IInv /\ Paired
  OBVIOUS
<1>1. window \in [Rule -> Windows]
  BY EmptyWindow DEF Init
<1>2. TypeOK
  BY <1>1 DEF Init, TypeOK, Windows
<1>. QED
  BY <1>2 DEF Init, IInv, LeavingIsFalse, Paired

LEMMA CreateRuleStep ==
  ASSUME IInv, NEW r \in Rule, CreateRule(r)
  PROVE  IInv' /\ (Paired => Paired')
<1>1. /\ rules' = rules \cup {r} /\ enabled' = enabled \cup {r}
      /\ timed' \in {timed, timed \cup (MayTime \cap {r})}
      /\ Reconfigure(Live \cup {r}, val) /\ UNCHANGED <<paused, condition>>
  BY DEF CreateRule
<1>2. topo' = Live \cup {r} /\ StateStep
  <2>1. Live \cup {r} \in SUBSET Rule
    BY Facts DEF Live
  <2>. QED
    BY <1>1, <2>1, Facts DEF Reconfigure, StateStep
<1>3. TypeOK' /\ (Paired => Paired')
  BY <1>1, <1>2, Facts, Compose DEF Live, condition
<1>4. LeavingIsFalse'
  BY <1>1, Facts, LeavingKept DEF Live, condition
<1>. QED
  BY <1>3, <1>4 DEF IInv

LEMMA DeleteRuleStep ==
  ASSUME IInv, NEW r \in Rule, DeleteRule(r)
  PROVE  IInv' /\ (Paired => Paired')
<1>0. {r} \in SUBSET Rule
  OBVIOUS
<1>1. /\ rules' = rules \ {r} /\ enabled' = enabled \ {r} /\ timed' = timed \ {r}
      /\ Reconfigure(Live \ {r}, val) /\ Reset({r}, {}, {}) /\ UNCHANGED paused
  BY DEF DeleteRule
<1>2. topo' = Live \ {r} /\ StateStep
  <2>1. Live \ {r} \in SUBSET Rule
    BY Facts DEF Live
  <2>. QED
    BY <1>1, <2>1, Facts DEF Reconfigure, StateStep
<1>3. /\ val' \in [Rule -> [Did -> Last]] /\ window' \in [Rule -> Windows]
      /\ pexit' \subseteq Rule \X Did /\ penter' \subseteq Rule \X Did
      /\ base' \subseteq Rule /\ leaving' = leaving \ {r} /\ fired' = fired \ {r}
      /\ \A q \in leaving' : val'[q] = val[q] /\ q \notin base'
  BY <1>1, <1>0, ClearStep
<1>4. TypeOK' /\ (Paired => Paired')
  BY <1>1, <1>2, <1>3, Facts, Compose DEF Live
<1>5. LeavingIsFalse'
  BY <1>1, <1>3, Facts, LeavingKept DEF Live
<1>. QED
  BY <1>4, <1>5 DEF IInv

LEMMA ToggleStep ==
  ASSUME IInv, NEW r \in Rule, Toggle(r)
  PROVE  IInv' /\ (Paired => Paired')
<1>0. {r} \in SUBSET Rule
  OBVIOUS
<1>1. /\ r \in rules
      /\ enabled' = enabled \ {r} \/ enabled' = enabled \cup {r}
      /\ Reset({r}, {}, {}) /\ Reconfigure(rules \cap enabled', val')
      /\ UNCHANGED <<rules, paused, timed>>
  BY DEF Toggle
<1>2. /\ val' \in [Rule -> [Did -> Last]] /\ window' \in [Rule -> Windows]
      /\ pexit' \subseteq Rule \X Did /\ penter' \subseteq Rule \X Did
      /\ base' \subseteq Rule /\ leaving' = leaving \ {r} /\ fired' = fired \ {r}
      /\ \A q \in leaving' : val'[q] = val[q] /\ q \notin base'
  BY <1>1, <1>0, ClearStep
<1>3. topo' = rules \cap enabled' /\ StateStep
  <2>1. rules \cap enabled' \in SUBSET Rule
    BY Facts
  <2>. QED
    BY <1>1, <1>2, <2>1 DEF Reconfigure, StateStep
<1>4. TypeOK' /\ (Paired => Paired')
  BY <1>1, <1>2, <1>3, Facts, Compose
<1>5. LeavingIsFalse'
  BY <1>1, <1>2, Facts, LeavingKept DEF Live
<1>. QED
  BY <1>4, <1>5 DEF IInv

LEMMA ReshapeStep ==
  ASSUME IInv, NEW r \in Rule, Reshape(r)
  PROVE  IInv' /\ (Paired => Paired')
<1> DEFINE C == {q \in {r} : HasDispatchedEnter(q)}
<1>1. /\ r \in rules
      /\ timed' \in {timed \ {r}, timed \cup (MayTime \cap {r})}
      /\ Reset({r}, C, timed') /\ Reconfigure(Live, val')
      /\ UNCHANGED <<rules, enabled, paused>>
      /\ C \in SUBSET {r}
  BY DEF Reshape
<1>. HIDE DEF C
<1>2. /\ val' \in [Rule -> [Did -> Last]] /\ window' \in [Rule -> Windows]
      /\ pexit' \subseteq Rule \X Did /\ penter' \subseteq Rule \X Did
      /\ base' \subseteq Rule /\ leaving' = leaving \ {r}
      /\ fired' = (fired \ {r}) \cup (C \cap timed')
      /\ \A q \in leaving' : val'[q] = val[q] /\ q \notin base'
  BY <1>1, ResetStep
<1>3. topo' = Live /\ StateStep
  <2>1. Live \in SUBSET Rule
    BY Facts DEF Live
  <2>. QED
    BY <1>1, <1>2, <2>1 DEF Reconfigure, StateStep
<1>4. TypeOK' /\ (Paired => Paired')
  BY <1>1, <1>2, <1>3, Facts, Compose DEF Live
<1>5. LeavingIsFalse'
  BY <1>1, <1>2, Facts, LeavingKept DEF Live
<1>. QED
  BY <1>4, <1>5 DEF IInv

\* Touch, Resume: the state machine is told its topology again.
LEMMA AgainStep ==
  ASSUME IInv, Touch \/ Resume
  PROVE  IInv' /\ (Paired => Paired')
<1>1. /\ Reconfigure(Live, val) /\ UNCHANGED <<rules, enabled, timed, condition>>
      /\ paused' = paused \/ paused' = FALSE
  BY DEF Touch, Resume
<1>2. topo' = Live /\ StateStep
  <2>1. Live \in SUBSET Rule
    BY Facts DEF Live
  <2>. QED
    BY <1>1, <2>1, Facts DEF Reconfigure, StateStep
<1>3. TypeOK' /\ (Paired => Paired')
  BY <1>1, <1>2, Facts, Compose DEF Live, condition
<1>4. LeavingIsFalse'
  BY <1>1, Facts, LeavingKept DEF Live, condition
<1>. QED
  BY <1>3, <1>4 DEF IInv

\* Pause, DeleteTask, Restart: nothing is known and the task is off.
LEMMA CleanStep ==
  ASSUME IInv, Pause \/ DeleteTask \/ Restart
  PROVE  IInv' /\ (Paired => Paired')
<1>0. rules \in SUBSET Rule
  BY Facts
<1>1. Reset(rules, {}, {}) /\ on' = FALSE /\ owing' = FALSE
  BY DEF Pause, DeleteTask, Restart
<1>2. /\ val' \in [Rule -> [Did -> Last]] /\ window' \in [Rule -> Windows]
      /\ pexit' \subseteq Rule \X Did /\ penter' \subseteq Rule \X Did
      /\ base' \subseteq Rule /\ leaving' = leaving \ rules /\ fired' = fired \ rules
  BY <1>1, <1>0, ClearStep
<1>3. leaving' = {} /\ fired' = {}
  BY <1>2, Facts DEF Live
<1>4. /\ rules' \subseteq Rule /\ enabled' \subseteq rules' /\ topo' \subseteq rules'
      /\ timed' \subseteq rules' \cap MayTime /\ paused' \in BOOLEAN
  BY Facts DEF Pause, DeleteTask, Restart, Live
<1>5. TypeOK' /\ (Paired => Paired')
  BY <1>1, <1>2, <1>3, <1>4, Compose DEF StateStep
<1>6. LeavingIsFalse'
  BY <1>3 DEF LeavingIsFalse
<1>. QED
  BY <1>5, <1>6 DEF IInv

LEMMA MarkUnknownStep ==
  ASSUME IInv, NEW r \in Rule, NEW s \in Did, MarkUnknown(r, s)
  PROVE  IInv' /\ (Paired => Paired')
<1>1. /\ r \in rules /\ val' = [val EXCEPT ![r][s] = "U"]
      /\ pexit' \subseteq pexit /\ penter' \subseteq penter
      /\ base' \subseteq base \cup {r} /\ leaving' = leaving \ {r}
      /\ (r \notin leaving => base' = base)
      /\ UNCHANGED <<config, duration, state>>
  BY DEF MarkUnknown, Cleared
<1>2. val' \in [Rule -> [Did -> Last]]
  BY <1>1, Facts DEF Last
<1>3. TypeOK' /\ (Paired => Paired')
  BY <1>1, <1>2, Facts, Compose DEF config, duration, StateStep
<1>4. \A q \in leaving' : val'[q] = val[q] /\ q \notin base'
  BY <1>1, Facts
<1>5. LeavingIsFalse'
  BY <1>1, <1>4, Facts, LeavingKept DEF Live, config
<1>. QED
  BY <1>3, <1>5 DEF IInv

LEMMA DebounceEndsStep ==
  ASSUME IInv, NEW r \in Rule, DebounceEnds(r)
  PROVE  IInv' /\ (Paired => Paired')
<1>1. /\ leaving' \subseteq leaving /\ penter' \subseteq penter /\ fired' \subseteq fired
      /\ window' = window \/ window' = [window EXCEPT ![r] = <<>>]
      /\ Exited(r) /\ UNCHANGED <<config, val, pexit, base>>
  BY DEF DebounceEnds, Cleared
<1>2. window' \in [Rule -> Windows] /\ StateStep
  BY <1>1, Facts, EmptyWindow DEF StateStep
<1>3. TypeOK' /\ (Paired => Paired')
  BY <1>1, <1>2, Facts, Compose DEF config
<1>4. LeavingIsFalse'
  BY <1>1, Facts, LeavingKept DEF Live, config
<1>. QED
  BY <1>3, <1>4 DEF IInv

LEMMA CrossDayStep ==
  ASSUME IInv, CrossDay
  PROVE  IInv' /\ WithRollover
<1>1. /\ WithRollover /\ leaving' \subseteq leaving /\ fired' \subseteq fired
      /\ \A r \in Rule : window'[r] \in {<<>>, window[r]}
      /\ DOMAIN window' = Rule /\ window' = [r \in Rule |-> window'[r]]
      /\ owing' = TRUE /\ UNCHANGED <<config, flicker, base, on>>
  BY DEF CrossDay
<1>2. window' \in [Rule -> Windows]
  BY <1>1, Facts, EmptyWindow
<1>3. TypeOK'
  BY <1>1, <1>2, Facts DEF TypeOK, Windows, Last, config, flicker
<1>4. LeavingIsFalse'
  BY <1>1, Facts, LeavingKept DEF Live, config, flicker
<1>. QED
  BY <1>1, <1>3, <1>4 DEF IInv

LEMMA TriggerRuleStep ==
  ASSUME IInv, NEW r \in Rule, NEW s \in Did, TriggerRule(r, s)
  PROVE  IInv' /\ WithTrigger
<1>1. /\ WithTrigger /\ val' = [val EXCEPT ![r][s] = "T"]
      /\ base' = base \cup {r} /\ leaving' = leaving \ {r} /\ penter' \subseteq penter
      /\ UNCHANGED <<config, pexit, duration, on>>
  BY DEF TriggerRule, Cleared
<1>2. owing' \in BOOLEAN
  BY Facts DEF TriggerRule
<1>3. val' \in [Rule -> [Did -> Last]]
  BY <1>1, Facts DEF Last
<1>4. TypeOK'
  BY <1>1, <1>2, <1>3, Facts DEF TypeOK, Windows, Last, config, duration
<1>5. \A q \in leaving' : val'[q] = val[q] /\ q \notin base'
  BY <1>1, Facts
<1>6. LeavingIsFalse'
  BY <1>1, <1>5, Facts, LeavingKept DEF Live, config
<1>. QED
  BY <1>1, <1>4, <1>6 DEF IInv

\* A frame the filter absorbs: the condition keeps its value.
LEMMA AbsorbedStep ==
  ASSUME IInv, NEW r \in Rule, NEW s \in Did, NEW b \in BOOLEAN,
         Sample(r, s, b), Absorb(r, s, b), UNCHANGED config
  PROVE  IInv' /\ (Paired => Paired')
<1>1. /\ val' = [val EXCEPT ![r][s] = Fresh(val[r][s])] /\ UNCHANGED <<base, leaving>>
      /\ pexit' \subseteq pexit \cup {<<r, s>>} /\ penter' \subseteq penter \cup {<<r, s>>}
  BY Facts DEF Absorb
<1>2. val' \in [Rule -> [Did -> Last]]
  BY <1>1, Facts DEF Last, Fresh
<1>3. window' \in [Rule -> Windows] /\ fired' \subseteq timed /\ StateStep
  BY SampleStep DEF IInv
<1>4. TypeOK' /\ (Paired => Paired')
  BY <1>1, <1>2, <1>3, Facts, Compose DEF config
<1>5. ASSUME NEW q \in leaving
      PROVE  Satisfied(q, val') = "F"
  <2>1. q \in Rule /\ Satisfied(q, val) = "F" /\ val[q] \in [Did -> Last] /\ val'[q] \in [Did -> Last]
    BY <1>2, Facts DEF IInv, LeavingIsFalse
  <2>2. CASE q # r
    BY <1>1, <2>1, <2>2, Facts, SatisfiedIsLocal
  <2>3. CASE q = r
    <3>1. \A d \in Did : val'[q][d] \in {val[q][d], "F"}
      BY <1>1, <2>3, Facts DEF Fresh
    <3>. QED
      BY <2>1, <3>1, StillFalse
  <2>. QED
    BY <2>2, <2>3
<1>6. LeavingIsFalse'
  BY <1>1, <1>5 DEF IInv, LeavingIsFalse, Listening, Live, config
<1>. QED
  BY <1>4, <1>6 DEF IInv

\* A frame that counts: the condition may change, and the debounce starts or is
\* called off.
LEMMA CountedStep ==
  ASSUME IInv, NEW r \in Rule, NEW s \in Did, NEW b \in BOOLEAN,
         Listening(r), UNCHANGED config,
         val' = [val EXCEPT ![r][s] = IF b THEN "T" ELSE "F"],
         pexit' \subseteq pexit,
         NEW P \in SUBSET penter, Edge(r, val', P),
         window' \in [Rule -> Windows], fired' \subseteq timed, StateStep
  PROVE  IInv' /\ (Paired => Paired')
<1>1. val' \in [Rule -> [Did -> Last]]
  BY Facts DEF Last
<1> DEFINE enters == Satisfied(r, val') = "T" /\ r \notin base
           exits == Satisfied(r, val') = "F" /\ r \in base
           leaves == exits /\ Direction[r] = "session" /\ (r \in timed => r \in fired')
<1>2. /\ base' = IF enters THEN base \cup {r} ELSE IF exits THEN base \ {r} ELSE base
      /\ leaving' = IF enters THEN leaving \ {r} ELSE IF leaves THEN leaving \cup {r} ELSE leaving
      /\ penter' \subseteq P
  BY DEF Edge, Cleared
<1>3. TypeOK' /\ (Paired => Paired')
  <2>1. base' \subseteq Rule /\ leaving' \subseteq Rule
    BY <1>2, Facts
  <2>. HIDE DEF enters, exits, leaves
  <2>. QED
    BY <1>1, <1>2, <2>1, Facts, Compose DEF config
<1>4. LeavingIsFalse'
  <2>. SUFFICES ASSUME NEW q \in leaving'
                PROVE  /\ Listening(q)' /\ Direction[q] = "session"
                       /\ q \notin base' /\ Satisfied(q, val') = "F"
    BY DEF LeavingIsFalse
  <2>1. Listening(q)' <=> Listening(q)
    BY DEF Listening, Live, config
  <2>2. CASE q # r
    <3>1. q \in leaving /\ q \in Rule /\ val'[q] = val[q] /\ (q \in base' <=> q \in base)
      BY <1>2, <2>2, Facts
    <3>2. Satisfied(q, val') = Satisfied(q, val)
      BY <3>1, SatisfiedIsLocal
    <3>3. Listening(q) /\ Direction[q] = "session" /\ q \notin base /\ Satisfied(q, val) = "F"
      BY <3>1 DEF IInv, LeavingIsFalse
    <3>. QED
      BY <2>1, <3>1, <3>2, <3>3
  <2>3. CASE q = r /\ r \in leaving
    <3>1. /\ Satisfied(r, val) = "F" /\ r \notin base /\ Direction[r] = "session"
      BY <2>3 DEF IInv, LeavingIsFalse
    <3>2. val[r] \in [Did -> Last] /\ val'[r] \in [Did -> Last]
      BY <1>1, Facts
    <3>3. b => Satisfied(r, val') = "T"
      <4>1. b => val'[r][s] = "T"
        BY Facts
      <4>. QED
        BY <3>2, <4>1, SeenTrue
    <3>4. ~b
      BY <1>2, <2>3, <3>1, <3>3
    <3>5. \A d \in Did : val'[r][d] \in {val[r][d], "F"}
      BY <3>4, Facts
    <3>6. Satisfied(r, val') = "F"
      BY <3>1, <3>2, <3>5, StillFalse, Zenon
    <3>. QED
      BY <1>2, <2>1, <2>3, <3>1, <3>6
  <2>4. CASE q = r /\ r \notin leaving
    <3>1. leaves /\ ~enters
      BY <1>2, <2>4
    <3>. QED
      BY <1>2, <2>1, <2>4, <3>1
  <2>. QED
    BY <2>2, <2>3, <2>4
<1>. QED
  BY <1>3, <1>4 DEF IInv

LEMMA FrameStep ==
  ASSUME IInv, NEW r \in Rule, NEW s \in Did, NEW b \in BOOLEAN, Frame(r, s, b)
  PROVE  IInv' /\ (Paired => Paired')
<1>1. CASE Absorbs(r, s, b)
  BY <1>1, AbsorbedStep DEF Frame
<1>2. CASE ~Absorbs(r, s, b)
  <2> DEFINE P == penter \ {<<r, s>>}
  <2>1. /\ Listening(r) /\ UNCHANGED config
        /\ val' = [val EXCEPT ![r][s] = IF b THEN "T" ELSE "F"]
        /\ pexit' \subseteq pexit /\ P \in SUBSET penter /\ Edge(r, val', P)
        /\ (Entered(r, val') /\ UNCHANGED duration) \/ Sample(r, s, b)
    BY <1>2 DEF Frame
  <2>. HIDE DEF P
  <2>2. val' \in [Rule -> [Did -> Last]]
    BY <2>1, Facts DEF Last
  <2>3. window' \in [Rule -> Windows] /\ fired' \subseteq timed /\ StateStep
    <3>1. CASE Entered(r, val') /\ UNCHANGED duration
      BY <2>2, <3>1, Facts DEF StateStep, duration
    <3>2. CASE Sample(r, s, b)
      BY <3>2, SampleStep DEF IInv
    <3>. QED
      BY <2>1, <3>1, <3>2
  <2>. QED
    BY <2>1, <2>3, CountedStep
<1>. QED
  BY <1>1, <1>2

\* Every step keeps the invariant, and pairing unless it goes round the state
\* machine.
LEMMA InvStep ==
  ASSUME IInv, [Next]_vars
  PROVE  IInv' /\ (Paired /\ ~WithRollover /\ ~WithTrigger => Paired')
<1>1. ASSUME NEW r \in Rule, NEW s \in Did,
             \/ \E b \in BOOLEAN : Frame(r, s, b)
             \/ MarkUnknown(r, s)
             \/ TriggerRule(r, s)
      PROVE  IInv' /\ (Paired /\ ~WithRollover /\ ~WithTrigger => Paired')
  BY <1>1, FrameStep, MarkUnknownStep, TriggerRuleStep
<1>2. ASSUME NEW r \in Rule,
             \/ DebounceEnds(r) \/ CreateRule(r) \/ DeleteRule(r)
             \/ Toggle(r) \/ Reshape(r)
      PROVE  IInv' /\ (Paired => Paired')
  BY <1>2, DebounceEndsStep, CreateRuleStep, DeleteRuleStep, ToggleStep, ReshapeStep
<1>3. CASE Touch \/ Resume
  BY <1>3, AgainStep
<1>4. CASE Pause \/ DeleteTask \/ Restart
  BY <1>4, CleanStep
<1>5. CASE CrossDay
  BY <1>5, CrossDayStep
<1>6. CASE UNCHANGED vars
  <2>1. TypeOK'
    BY <1>6 DEF vars, IInv, TypeOK
  <2>2. LeavingIsFalse'
    BY <1>6 DEF vars, IInv, LeavingIsFalse, Listening, Live
  <2>. QED
    BY <1>6, <2>1, <2>2 DEF vars, IInv, Paired
<1>. QED
  BY <1>1, <1>2, <1>3, <1>4, <1>5, <1>6 DEF Next

-----------------------------------------------------------------------------
(* The theorems. *)

\* Every variable keeps its type.
THEOREM TypeCorrect == Spec => []TypeOK
<1>1. Init => IInv
  BY InvInit
<1>2. IInv /\ [Next]_vars => IInv'
  BY InvStep
<1>3. IInv => TypeOK
  BY DEF IInv
<1>. QED
  BY <1>1, <1>2, <1>3, PTL DEF Spec

\* on_exit never rests on ignorance: a rule whose exit debounce sleeps listens,
\* and its condition was last seen false, whatever was reconfigured meanwhile.
THEOREM ExitsRestOnKnowledge == Spec => []LeavingIsFalse
<1>1. Init => IInv
  BY InvInit
<1>2. IInv /\ [Next]_vars => IInv'
  BY InvStep
<1>3. IInv => LeavingIsFalse
  BY DEF IInv
<1>. QED
  BY <1>1, <1>2, <1>3, PTL DEF Spec

\* In a task without a daily record, and without the debug call, an on_enter that
\* ran is owed its on_exit exactly as long as the task is on.
THEOREM EnterIsPaidBack ==
  ASSUME ~WithRollover, ~WithTrigger
  PROVE  Spec => []Paired
<1>1. Init => IInv /\ Paired
  BY InvInit
<1>2. (IInv /\ Paired) /\ [Next]_vars => (IInv /\ Paired)'
  BY InvStep
<1>. QED
  BY <1>1, <1>2, PTL DEF Spec

-----------------------------------------------------------------------------
(* Exit rules.  The state machine knows the live rules, and a condition known to *)
(* be false has no entered baseline, so that its next frame is an edge.          *)

TopoIsLive == topo = Live

FalseIsOut == \A r \in base : Satisfied(r, val) # "F"

LEMMA TopoStep ==
  ASSUME IInv, TopoIsLive, [Next]_vars
  PROVE  TopoIsLive'
<1>1. UNCHANGED config => TopoIsLive'
  BY DEF config, TopoIsLive, Live
<1>2. ASSUME NEW r \in Rule, NEW s \in Did,
             \/ \E b \in BOOLEAN : Frame(r, s, b)
             \/ MarkUnknown(r, s)
             \/ TriggerRule(r, s)
      PROVE  TopoIsLive'
  <2>1. UNCHANGED config
    BY <1>2 DEF Frame, MarkUnknown, TriggerRule
  <2>. QED
    BY <1>1, <2>1
<1>3. ASSUME NEW r \in Rule, DebounceEnds(r)
      PROVE  TopoIsLive'
  BY <1>1, <1>3 DEF DebounceEnds
<1>4. ASSUME NEW r \in Rule, CreateRule(r) \/ DeleteRule(r) \/ Toggle(r) \/ Reshape(r)
      PROVE  TopoIsLive'
  BY <1>4, Facts DEF TopoIsLive, Live, CreateRule, DeleteRule, Toggle, Reshape, Reconfigure
<1>5. CASE Touch \/ Resume \/ Pause \/ DeleteTask \/ Restart
  BY <1>5 DEF TopoIsLive, Live, Touch, Resume, Pause, DeleteTask, Restart, Reconfigure
<1>6. CASE CrossDay \/ UNCHANGED vars
  BY <1>1, <1>6 DEF CrossDay, vars, config
<1>. QED
  BY <1>2, <1>3, <1>4, <1>5, <1>6 DEF Next

\* A reset condition is not known to be false.
LEMMA ResetIsUnknown ==
  ASSUME IInv, FalseIsOut, NEW R \in SUBSET Rule, NEW C \in SUBSET R, NEW T, Reset(R, C, T)
  PROVE  FalseIsOut'
<1>1. /\ val' = [r \in Rule |-> IF r \in R THEN [s \in Did |-> "no"] ELSE val[r]]
      /\ base' = (base \ R) \cup C
  BY DEF Reset
<1>2. val' \in [Rule -> [Did -> Last]]
  BY <1>1, Facts DEF Last
<1>. SUFFICES ASSUME NEW r \in base'
              PROVE  Satisfied(r, val') # "F"
  BY DEF FalseIsOut
<1>3. r \in Rule
  BY <1>1, Facts
<1>4. CASE r \in R
  <2>1. \A d \in Did : val'[r][d] # "F"
    BY <1>1, <1>3, <1>4
  <2>2. val'[r] \in [Did -> Last]
    BY <1>2, <1>3
  <2>. QED
    BY <1>3, <2>1, <2>2, KnownFalse
<1>5. CASE r \notin R
  <2>1. val'[r] = val[r] /\ r \in base
    BY <1>1, <1>3, <1>5
  <2>. QED
    BY <1>3, <2>1, SatisfiedIsLocal DEF FalseIsOut
<1>. QED
  BY <1>4, <1>5

\* A step on one rule: the others keep their conditions and baselines.
LEMMA OneRuleOut ==
  ASSUME IInv, FalseIsOut, NEW r \in Rule,
         base' \subseteq Rule, \A q \in base' \ {r} : q \in base /\ val'[q] = val[q],
         r \in base' => Satisfied(r, val') # "F"
  PROVE  FalseIsOut'
<1>. SUFFICES ASSUME NEW q \in base', q # r
              PROVE  Satisfied(q, val') # "F"
  BY DEF FalseIsOut
<1>1. q \in Rule /\ q \in base /\ val'[q] = val[q]
  OBVIOUS
<1>. QED
  BY <1>1, SatisfiedIsLocal DEF FalseIsOut

LEMMA OutStep ==
  ASSUME IInv, FalseIsOut, [Next]_vars
  PROVE  FalseIsOut'
<1>1. ASSUME NEW r \in Rule, NEW s \in Did, NEW b \in BOOLEAN, Frame(r, s, b)
      PROVE  FalseIsOut'
  <2>1. base' \subseteq Rule /\ val' \in [Rule -> [Did -> Last]]
    BY <1>1, FrameStep DEF IInv, TypeOK, Last
  <2>2. val'[r] \in [Did -> Last] /\ val[r] \in [Did -> Last]
    BY <2>1, Facts
  <2>3. CASE Absorbs(r, s, b)
    <3>1. val' = [val EXCEPT ![r][s] = Fresh(val[r][s])] /\ base' = base
      BY <1>1, <2>3, Facts DEF Frame, Absorb
    <3>2. \A q \in base' \ {r} : q \in base /\ val'[q] = val[q]
      BY <3>1, Facts
    <3>3. val'[r][s] = Fresh(val[r][s]) /\ \A d \in Did \ {s} : val'[r][d] = val[r][d]
      BY <3>1, Facts
    <3>4. r \in base => Satisfied(r, val') # "F"
      <4>. SUFFICES ASSUME r \in base, Satisfied(r, val') = "F"
                    PROVE  FALSE
        OBVIOUS
      <4>1. \A d \in Did : val[r][d] \in {"F", "no"}
        BY <2>2, <3>3, KnownFalse DEF Fresh
      <4>2. \A d \in Did : val[r][d] # "F"
        BY <2>2, <4>1, KnownFalse DEF FalseIsOut
      <4>3. r \notin Steady /\ (b <=> <<r, s>> \notin penter) /\ r \in leaving
        BY <2>3, <4>1 DEF Absorbs
      <4>. QED
        BY <4>3, Facts
    <3>. QED
      BY <2>1, <3>1, <3>2, <3>4, OneRuleOut
  <2>4. CASE ~Absorbs(r, s, b)
    <3>1. /\ val' = [val EXCEPT ![r][s] = IF b THEN "T" ELSE "F"]
          /\ Edge(r, val', penter \ {<<r, s>>})
      BY <1>1, <2>4 DEF Frame
    <3>2. \A q \in base' \ {r} : q \in base /\ val'[q] = val[q]
      BY <2>1, <3>1, Facts DEF Edge
    <3>3. r \in base' => Satisfied(r, val') # "F"
      BY <3>1 DEF Edge
    <3>. QED
      BY <2>1, <3>2, <3>3, OneRuleOut
  <2>. QED
    BY <2>3, <2>4
<1>2. ASSUME NEW r \in Rule, NEW s \in Did, MarkUnknown(r, s)
      PROVE  FalseIsOut'
  <2>1. /\ val' = [val EXCEPT ![r][s] = "U"] /\ base' \subseteq base \cup {r}
    BY <1>2 DEF MarkUnknown
  <2>2. val'[r] \in [Did -> Last] /\ val'[r][s] = "U"
    BY <2>1, Facts DEF Last
  <2>3. Satisfied(r, val') # "F"
    BY <2>2, KnownFalse
  <2>4. base' \subseteq Rule /\ \A q \in base' \ {r} : q \in base /\ val'[q] = val[q]
    BY <2>1, Facts
  <2>. QED
    BY <2>3, <2>4, OneRuleOut
<1>3. ASSUME NEW r \in Rule, NEW s \in Did, TriggerRule(r, s)
      PROVE  FalseIsOut'
  <2>1. /\ val' = [val EXCEPT ![r][s] = "T"] /\ base' = base \cup {r}
    BY <1>3 DEF TriggerRule
  <2>2. val'[r] \in [Did -> Last] /\ val'[r][s] = "T"
    BY <2>1, Facts DEF Last
  <2>3. Satisfied(r, val') # "F"
    BY <2>2, SeenTrue
  <2>4. base' \subseteq Rule /\ \A q \in base' \ {r} : q \in base /\ val'[q] = val[q]
    BY <2>1, Facts
  <2>. QED
    BY <2>3, <2>4, OneRuleOut
<1>4. ASSUME NEW r \in Rule, DeleteRule(r) \/ Toggle(r) \/ Reshape(r)
      PROVE  FalseIsOut'
  <2>1. \E C \in SUBSET {r}, T \in {{}, timed'} : Reset({r}, C, T)
    BY <1>4 DEF DeleteRule, Toggle, Reshape
  <2>. QED
    BY <2>1, ResetIsUnknown
<1>5. CASE Pause \/ DeleteTask \/ Restart
  <2>1. \E C \in SUBSET rules : Reset(rules, C, {})
    BY <1>5 DEF Pause, DeleteTask, Restart
  <2>2. rules \in SUBSET Rule
    BY Facts
  <2>. QED
    BY <2>1, <2>2, ResetIsUnknown
<1>6. UNCHANGED <<val, base>> => FalseIsOut'
  BY DEF FalseIsOut, Satisfied, Or3
<1>7. ASSUME NEW r \in Rule, DebounceEnds(r) \/ CreateRule(r)
      PROVE  FalseIsOut'
  BY <1>6, <1>7 DEF DebounceEnds, CreateRule, condition
<1>8. CASE Touch \/ Resume \/ CrossDay \/ UNCHANGED vars
  BY <1>6, <1>8 DEF Touch, Resume, CrossDay, condition, flicker, vars
<1>. QED
  BY <1>1, <1>2, <1>3, <1>4, <1>5, <1>7, <1>8 DEF Next

\* A true condition has a source seen true.
LEMMA TrueIsSeen ==
  ASSUME NEW r \in Rule, NEW v, Satisfied(r, v) = "T"
  PROVE  \E d \in Did : v[r][d] = "T"
BY DEF Satisfied, Or3

\* The goal of this section: x is an untimed exit rule of a task that stays on or
\* comes on while the condition of x is true.
Slips(x) ==
  /\ x \in topo' \ timed'
  /\ Direction[x] = "exit" /\ on' /\ Satisfied(x, val') = "T"

\* Without session rules an exit rule is all a reconfiguration asks, and it ends
\* a task whose exit condition is true.
LEMMA ReconfigureEnds ==
  ASSUME \A r \in Rule : Direction[r] # "session",
         NEW T \in SUBSET Rule, NEW v, Reconfigure(T, v), on',
         NEW x \in T, Direction[x] = "exit"
  PROVE  Satisfied(x, v) # "T"
<1>1. StaysOn(T, v)
  BY DEF Reconfigure
<1>2. Holding(T) = {} /\ x \in ExitSide(T)
  BY DEF Holding, ExitSide
<1>. QED
  BY <1>1, <1>2 DEF StaysOn

\* A frame of another rule enters only while the exit condition is not true.
LEMMA EnteredUnder ==
  ASSUME NEW r \in Rule, NEW v, Entered(r, v), on', NEW x \in topo, x # r, Direction[x] = "exit",
         Satisfied(x, v) = "T"
  PROVE  on
<1>1. x \in ExitSide(topo) \ {r}
  BY DEF ExitSide
<1>2. ~EnterPasses(r, v)
  BY <1>1 DEF EnterPasses
<1>. QED
  BY <1>2 DEF Entered

LEMMA FrameHeard ==
  ASSUME \A r \in Rule : Direction[r] # "session",
         IInv, FalseIsOut, NEW r \in Rule, NEW s \in Did, NEW b \in BOOLEAN, Frame(r, s, b),
         NEW x \in Rule, Slips(x)
  PROVE  on /\ Satisfied(x, val) # "F"
<1>0. /\ UNCHANGED config /\ x \in topo /\ x \notin timed
      /\ Direction[x] = "exit" /\ on' /\ Satisfied(x, val') = "T" /\ r \notin leaving
  BY DEF Frame, Slips, config, IInv, LeavingIsFalse
<1>1. ASSUME Sample(r, s, b)
      PROVE  UNCHANGED state \/ (r \in timed /\ Entered(r, val))
  BY <1>1 DEF Sample, Evaluate
<1>2. CASE x # r
  <2>1. val'[x] = val[x]
    BY <1>2, Facts DEF Frame, Absorb
  <2>2. Satisfied(x, val) = "T"
    BY <1>0, <2>1, SatisfiedIsLocal
  <2>3. UNCHANGED state \/ Entered(r, val) \/ Entered(r, val')
    BY <1>1 DEF Frame
  <2>4. on
    BY <1>0, <1>2, <2>2, <2>3, EnteredUnder DEF state
  <2>. QED
    BY <2>2, <2>4
<1>3. CASE x = r /\ Absorbs(r, s, b)
  <2>1. val' = [val EXCEPT ![r][s] = Fresh(val[r][s])] /\ UNCHANGED state
    BY <1>0, <1>1, <1>3 DEF Frame, Absorb
  <2>2. PICK d \in Did : val'[x][d] = "T"
    BY <1>0, TrueIsSeen
  <2>3. val[x][d] = "T"
    BY <1>3, <2>1, <2>2, Facts DEF Fresh
  <2>4. Satisfied(x, val) = "T"
    BY <2>3, Facts, SeenTrue
  <2>. QED
    BY <1>0, <2>1, <2>4 DEF state
<1>4. CASE x = r /\ ~Absorbs(r, s, b) /\ Asks(r, val')
  <2>1. Entered(r, val')
    BY <1>4 DEF Frame
  <2>2. ~ExitPasses(r, val')
    BY <1>0, <1>4, <2>1 DEF Entered
  <2>3. Holding(topo) = {}
    BY Facts DEF Holding
  <2>4. ~on
    BY <1>0, <1>4, <2>2, <2>3 DEF ExitPasses
  <2>. QED
    BY <1>0, <1>4, <2>1, <2>4 DEF Entered
<1>5. CASE x = r /\ ~Absorbs(r, s, b) /\ ~Asks(r, val')
  <2>1. UNCHANGED state
    BY <1>0, <1>1, <1>5 DEF Frame
  <2>2. r \in base
    BY <1>0, <1>5 DEF Asks
  <2>. QED
    BY <1>0, <1>5, <2>1, <2>2 DEF state, FalseIsOut
<1>. QED
  BY <1>2, <1>3, <1>4, <1>5

LEMMA ExitHeard ==
  ASSUME \A r \in Rule : Direction[r] # "session", ~WithTrigger,
         IInv, FalseIsOut, [Next]_vars, NEW x \in Rule, Slips(x)
  PROVE  on /\ Satisfied(x, val) # "F"
<1>0. Direction[x] = "exit" /\ on' /\ Satisfied(x, val') = "T" /\ x \in topo' /\ leaving = {}
  BY Facts DEF Slips, IInv, LeavingIsFalse
<1>1. ASSUME NEW r \in Rule, NEW s \in Did, MarkUnknown(r, s)
      PROVE  on /\ Satisfied(x, val) # "F"
  <2>1. val' = [val EXCEPT ![r][s] = "U"] /\ on' = on
    BY <1>1 DEF MarkUnknown, state
  <2>2. PICK d \in Did : val'[x][d] = "T"
    BY <1>0, TrueIsSeen
  <2>3. val[x][d] = "T"
    BY <2>1, <2>2, Facts
  <2>4. Satisfied(x, val) = "T"
    BY <2>3, Facts, SeenTrue
  <2>. QED
    BY <1>0, <2>1, <2>4
<1>2. ASSUME NEW r \in Rule, CreateRule(r) \/ DeleteRule(r) \/ Toggle(r) \/ Reshape(r)
      PROVE  FALSE
  <2>1. ASSUME NEW T, NEW v, Reconfigure(T, v), T \subseteq Rule
        PROVE  x \in T /\ Satisfied(x, v) # "T"
    <3>1. x \in T
      BY <1>0, <2>1 DEF Reconfigure
    <3>. QED
      BY <1>0, <2>1, <3>1, ReconfigureEnds
  <2>2. CASE CreateRule(r)
    <3>1. Reconfigure(Live \cup {r}, val) /\ val' = val /\ Live \cup {r} \subseteq Rule
      BY <2>2, Facts DEF CreateRule, Live, condition
    <3>. QED
      BY <1>0, <2>1, <3>1
  <2>3. CASE DeleteRule(r)
    <3>1. Reconfigure(Live \ {r}, val) /\ Live \ {r} \subseteq Rule
      BY <2>3, Facts DEF DeleteRule, Live
    <3>2. x \in Live \ {r} /\ Satisfied(x, val) # "T"
      BY <2>1, <3>1
    <3>3. val'[x] = val[x]
      BY <2>3, <3>2 DEF DeleteRule, Reset
    <3>. QED
      BY <1>0, <3>2, <3>3, SatisfiedIsLocal
  <2>4. CASE Toggle(r)
    <3>1. Reconfigure(rules \cap enabled', val') /\ rules \cap enabled' \subseteq Rule
      BY <2>4, Facts DEF Toggle
    <3>. QED
      BY <1>0, <2>1, <3>1
  <2>5. CASE Reshape(r)
    <3>1. Reconfigure(Live, val') /\ Live \subseteq Rule
      BY <2>5, Facts DEF Reshape, Live
    <3>. QED
      BY <1>0, <2>1, <3>1
  <2>. QED
    BY <1>2, <2>2, <2>3, <2>4, <2>5
<1>3. CASE Touch \/ Resume
  <2>1. Reconfigure(Live, val) /\ val' = val /\ Live \in SUBSET Rule
    BY <1>3, Facts DEF Touch, Resume, Live, condition
  <2>2. x \in Live
    BY <1>0, <2>1 DEF Reconfigure
  <2>. QED
    BY <1>0, <2>1, <2>2, ReconfigureEnds
<1>4. CASE Pause \/ DeleteTask \/ Restart
  BY <1>0, <1>4 DEF Pause, DeleteTask, Restart
<1>5. CASE CrossDay \/ UNCHANGED vars
  <2>1. val' = val /\ on' = on
    BY <1>5 DEF CrossDay, flicker, vars
  <2>. QED
    BY <1>0, <2>1
<1>6. ASSUME NEW r \in Rule
      PROVE  ~DebounceEnds(r)
  BY <1>0 DEF DebounceEnds
<1>7. ASSUME NEW r \in Rule, NEW s \in Did
      PROVE  ~TriggerRule(r, s)
  BY DEF TriggerRule
<1>. QED
  BY <1>1, <1>2, <1>3, <1>4, <1>5, <1>6, <1>7, FrameHeard DEF Next

\* The state machine acts on the enabled rules of the database and on no other,
\* through every creation, change, pause and restart.
THEOREM TopologyFollows == Spec => []TopoIsLive
<1> DEFINE J == IInv /\ TopoIsLive
<1>1. Init => J
  BY InvInit DEF Init, TopoIsLive, Live
<1>2. J /\ [Next]_vars => J'
  BY InvStep, TopoStep
<1>3. J => TopoIsLive
  OBVIOUS
<1>. HIDE DEF J
<1>. QED
  BY <1>1, <1>2, <1>3, PTL DEF Spec

\* In a task whose rules are enter and exit rules, a true exit condition that was
\* known to be false ends the session, and no step enters under one.
THEOREM ExitIsHeard ==
  ASSUME \A r \in Rule : Direction[r] # "session", ~WithTrigger
  PROVE  Spec => ExitSlipsOnlyFromUnknown
<1> DEFINE J == IInv /\ FalseIsOut
<1>1. Init => J
  BY InvInit DEF Init, FalseIsOut
<1>2. J /\ [Next]_vars => J'
  BY InvStep, OutStep
<1>3. J /\ J' /\ [Next]_vars =>
        [\A x \in topo' \ timed' :
           Direction[x] = "exit" /\ on' /\ Satisfied(x, val') = "T"
             => on /\ Satisfied(x, val) # "F"]_vars
  <2>. SUFFICES ASSUME J, J', [Next]_vars, NEW x \in topo' \ timed',
                       Direction[x] = "exit", on', Satisfied(x, val') = "T"
                PROVE  on /\ Satisfied(x, val) # "F"
    OBVIOUS
  <2>1. x \in Rule
    BY DEF IInv, TypeOK
  <2>. QED
    BY <2>1, ExitHeard DEF Slips
<1>. HIDE DEF J
<1>. QED
  BY <1>1, <1>2, <1>3, PTL DEF Spec, ExitSlipsOnlyFromUnknown

-----------------------------------------------------------------------------
(* Tasks with one session rule can end.  A rule whose condition is true is in,   *)
(* one that leaves after a duration was fired, and with a ratio of one a window  *)
(* that is full ends with a true sample, so that who fires is in.                *)

\* A task has a session rule and guards, or enter, exit and guard rules.
OneFamily == \A r, q \in Rule : Direction[r] = "session" => Direction[q] \in {"session", "guard"}

SessionAlone == \A r, q \in Holding(rules) : r = q
TrueIsIn == \A r \in Rule : Satisfied(r, val) = "T" => r \in base
LeavingFired == leaving \cap timed \subseteq fired

\* r is where false frames lead to on_exit
Ready(r) == r \in leaving \/ (r \in base /\ (r \in timed => r \in fired))

Ends == IInv /\ TopoIsLive /\ SessionAlone /\ TrueIsIn /\ LeavingFired /\ OnCanEnd

\* With a ratio of one a full window ends with a true sample.
LEMMA LastIsTrue ==
  ASSUME NEW w \in Windows, NEW b \in BOOLEAN, NEW gap \in 0 .. MaxLen, Need = MaxLen,
         Len(Sampled(w, b, gap)) = MaxLen, Trues(Sampled(w, b, gap)) >= Need
  PROVE  b
<1> DEFINE S == Sampled(w, b, gap)
           x == IF b THEN 1 ELSE 0
           z == [i \in 1 .. gap |-> 0]
           u == Append(w \o z, x)
           X == {i \in DOMAIN S : S[i] = 1}
<1>1. MaxLen \in Nat /\ MaxLen >= 1 /\ gap \in Nat
  BY WindowAssumption
<1>2. S \in Seq(Bit) /\ Len(S) = MaxLen /\ Cardinality(X) >= MaxLen
  <2>1. S \in Windows
    BY SampledIsWindow
  <2>. QED
    BY <2>1, WindowIsSeq DEF Trues
<1>3. S[MaxLen] = 1
  <2>. HIDE DEF S
  <2>1. DOMAIN S = 1 .. MaxLen
    BY <1>2, LenProperties
  <2>2. IsFiniteSet(1 .. MaxLen) /\ Cardinality(1 .. MaxLen) = MaxLen
    BY <1>1, FS_Interval
  <2>3. X \subseteq 1 .. MaxLen
    BY <2>1
  <2>. HIDE DEF X
  <2>4. X = 1 .. MaxLen
    <3>1. IsFiniteSet(X) /\ Cardinality(X) \in Nat /\ Cardinality(X) <= MaxLen
          /\ (Cardinality(X) = Cardinality(1 .. MaxLen) => X = 1 .. MaxLen)
      BY <2>2, <2>3, FS_Subset, FS_CardinalityType
    <3>. QED
      BY <1>1, <1>2, <2>2, <3>1
  <2>. QED
    BY <1>1, <2>4 DEF X
<1>4. S[MaxLen] = x
  <2>1. CASE w = <<>> \/ gap >= MaxLen
    <3>1. S = <<x>>
      BY <2>1 DEF Sampled
    <3>. HIDE DEF S, x
    <3>2. Len(<<x>>) = 1 /\ <<x>>[1] = x
      OBVIOUS
    <3>. QED
      BY <1>2, <3>1, <3>2
  <2>2. CASE ~(w = <<>> \/ gap >= MaxLen)
    <3>1. S = Recent(u)
      BY <2>2 DEF Sampled
    <3>2. w \o z \in Seq(Bit) /\ x \in Bit
      <4>1. w \in Seq(Bit) /\ z \in Seq(Bit) /\ x \in Bit
        BY <1>1, WindowIsSeq DEF Bit
      <4>. HIDE DEF z, x
      <4>. QED
        BY <4>1, ConcatProperties
    <3>3. u \in Seq(Bit) /\ Len(u) \in Nat /\ u[Len(u)] = x
      <4>. HIDE DEF z, x
      <4>. QED
        BY <3>2, LenProperties
    <3>. HIDE DEF u, x, S
    <3>4. CASE Len(u) <= MaxLen
      BY <1>2, <3>1, <3>3, <3>4 DEF Recent
    <3>5. CASE ~(Len(u) <= MaxLen)
      <4> DEFINE m == Len(u) - MaxLen + 1
      <4>1. S = SubSeq(u, m, Len(u))
        BY <3>1, <3>5 DEF Recent
      <4>2. m \in Int /\ m >= 1 /\ m <= Len(u) /\ Len(u) - m + 1 = MaxLen
        BY <1>1, <3>3, <3>5
      <4>3. \A i \in m .. Len(u) : u[i] \in Bit
        BY <3>3, <4>2, ElementOfSeq
      <4>4. m + MaxLen - 1 = Len(u)
        BY <1>1, <3>3
      <4>. HIDE DEF m
      <4>5. \A i \in 1 .. MaxLen : SubSeq(u, m, Len(u))[i] = u[m + i - 1]
        BY <1>1, <3>3, <4>2, <4>3, SubSeqProperties
      <4>6. S[MaxLen] = u[m + MaxLen - 1]
        <5>1. MaxLen \in 1 .. MaxLen
          BY <1>1
        <5>. QED
          BY <4>1, <4>5, <5>1, Zenon
      <4>. QED
        BY <4>4, <4>6, <3>3
    <3>. QED
      BY <3>4, <3>5
  <2>. QED
    BY <2>1, <2>2
<1>. QED
  BY <1>3, <1>4

\* A second session rule is refused by the check of the rule set.
LEMMA AloneStep ==
  ASSUME OneFamily, IInv, SessionAlone, [Next]_vars
  PROVE  SessionAlone'
<1>1. rules' \subseteq rules => SessionAlone'
  BY DEF SessionAlone, Holding
<1>2. ASSUME NEW r \in Rule, CreateRule(r)
      PROVE  SessionAlone'
  <2>1. rules' = rules \cup {r} /\ r \notin rules /\ MayBecome(rules \cup {r}) /\ rules \subseteq Rule
    BY <1>2, Facts DEF CreateRule
  <2>2. CASE Direction[r] # "session"
    BY <2>1, <2>2 DEF SessionAlone, Holding
  <2>3. CASE Direction[r] = "session"
    <3>1. \A q \in Rule : Direction[q] = "session" <=> Direction[q] # "guard"
      BY <2>3 DEF OneFamily
    <3>2. CASE Holding(rules) = {}
      BY <2>1, <3>2 DEF SessionAlone, Holding
    <3>3. ASSUME NEW h \in Holding(rules)
          PROVE  FALSE
      <4>1. h \in rules /\ Direction[h] = "session" /\ h # r
        BY <2>1 DEF Holding
      <4>2. {q \in rules : Direction[q] # "guard"} = {h}
        BY <2>1, <3>1, <4>1 DEF SessionAlone, Holding
      <4>3. {q \in rules \cup {r} : Direction[q] # "guard"} = {h, r}
        BY <2>1, <2>3, <3>1, <4>1, <4>2
      <4>4. Cardinality({h}) = 1
        BY FS_Singleton
      <4>5. Cardinality({h, r}) # 1
        <5>1. IsFiniteSet({h}) /\ r \notin {h} /\ {h} \cup {r} = {h, r}
          BY <4>1, FS_Singleton
        <5>2. Cardinality({h} \cup {r}) = Cardinality({h}) + 1
          BY <5>1, FS_AddElement
        <5>. QED
          BY <4>4, <5>1, <5>2
      <4>6. RuleSetOK(rules)
        BY <4>1, <4>2, <4>4 DEF RuleSetOK
      <4>7. ~RuleSetOK(rules \cup {r})
        BY <4>1, <4>3, <4>5 DEF RuleSetOK
      <4>. QED
        BY <2>1, <4>6, <4>7 DEF MayBecome
    <3>. QED
      BY <3>2, <3>3
  <2>. QED
    BY <2>2, <2>3
<1>3. ASSUME NEW r \in Rule, NEW s \in Did,
             \/ \E b \in BOOLEAN : Frame(r, s, b)
             \/ MarkUnknown(r, s)
             \/ TriggerRule(r, s)
      PROVE  SessionAlone'
  BY <1>1, <1>3 DEF Frame, MarkUnknown, TriggerRule, config
<1>4. ASSUME NEW r \in Rule, DebounceEnds(r) \/ DeleteRule(r) \/ Toggle(r) \/ Reshape(r)
      PROVE  SessionAlone'
  BY <1>1, <1>4 DEF DebounceEnds, DeleteRule, Toggle, Reshape, config
<1>5. CASE Touch \/ Pause \/ Resume \/ DeleteTask \/ Restart \/ CrossDay \/ UNCHANGED vars
  BY <1>1, <1>5 DEF Touch, Pause, Resume, DeleteTask, Restart, CrossDay, config, vars
<1>. QED
  BY <1>2, <1>3, <1>4, <1>5 DEF Next

\* A step on one rule: the others keep their conditions and stay in.
LEMMA OneRuleIn ==
  ASSUME TrueIsIn, NEW r \in Rule,
         \A q \in Rule \ {r} : val'[q] = val[q] /\ (q \in base => q \in base'),
         Satisfied(r, val') = "T" => r \in base'
  PROVE  TrueIsIn'
<1>. SUFFICES ASSUME NEW q \in Rule, q # r, Satisfied(q, val') = "T"
              PROVE  q \in base'
  BY DEF TrueIsIn
<1>1. Satisfied(q, val) = "T"
  BY SatisfiedIsLocal
<1>. QED
  BY <1>1 DEF TrueIsIn

\* A frame that is absorbed, and news that a device is away, make nothing true.
LEMMA NothingNew ==
  ASSUME IInv, TrueIsIn, NEW r \in Rule, NEW s \in Did, NEW x \in Last \ {"T"},
         val' = [val EXCEPT ![r][s] = x], Satisfied(r, val') = "T"
  PROVE  r \in base
<1>1. PICK d \in Did : val'[r][d] = "T"
  BY TrueIsSeen
<1>2. val[r][d] = "T"
  BY <1>1, Facts
<1>3. Satisfied(r, val) = "T"
  BY <1>2, Facts, SeenTrue
<1>. QED
  BY <1>3 DEF TrueIsIn

LEMMA ResetIsNotTrue ==
  ASSUME IInv, TrueIsIn, NEW R \in SUBSET Rule, NEW C \in SUBSET R, NEW T, Reset(R, C, T)
  PROVE  TrueIsIn'
<1>1. /\ val' = [r \in Rule |-> IF r \in R THEN [s \in Did |-> "no"] ELSE val[r]]
      /\ base' = (base \ R) \cup C
  BY DEF Reset
<1>. SUFFICES ASSUME NEW r \in Rule, Satisfied(r, val') = "T"
              PROVE  r \in base'
  BY DEF TrueIsIn
<1>2. PICK d \in Did : val'[r][d] = "T"
  BY TrueIsSeen
<1>3. r \notin R
  BY <1>1, <1>2
<1>4. val'[r] = val[r]
  BY <1>1, <1>3
<1>5. r \in base
  BY <1>4, SatisfiedIsLocal DEF TrueIsIn
<1>. QED
  BY <1>1, <1>3, <1>5

LEMMA InStep ==
  ASSUME IInv, TrueIsIn, [Next]_vars
  PROVE  TrueIsIn'
<1>1. ASSUME NEW r \in Rule, NEW s \in Did, NEW b \in BOOLEAN, Frame(r, s, b)
      PROVE  TrueIsIn'
  <2>1. CASE Absorbs(r, s, b)
    <3>1. val' = [val EXCEPT ![r][s] = Fresh(val[r][s])] /\ base' = base
      BY <1>1, <2>1, Facts DEF Frame, Absorb
    <3>2. \A q \in Rule \ {r} : val'[q] = val[q] /\ (q \in base => q \in base')
      BY <3>1, Facts
    <3>3. Satisfied(r, val') = "T" => r \in base'
      <4>1. CASE Fresh(val[r][s]) # "T"
        <5>1. Fresh(val[r][s]) \in Last \ {"T"}
          BY <4>1, Facts DEF Fresh, Last
        <5>. QED
          BY <3>1, <5>1, NothingNew
      <4>2. CASE Fresh(val[r][s]) = "T"
        <5>1. val[r][s] = "T"
          BY <4>2 DEF Fresh
        <5>2. Satisfied(r, val) = "T"
          BY <5>1, Facts, SeenTrue
        <5>. QED
          BY <3>1, <5>2 DEF TrueIsIn
      <4>. QED
        BY <4>1, <4>2
    <3>. QED
      BY <3>2, <3>3, OneRuleIn
  <2>2. CASE ~Absorbs(r, s, b)
    <3>1. /\ val' = [val EXCEPT ![r][s] = IF b THEN "T" ELSE "F"]
          /\ Edge(r, val', penter \ {<<r, s>>})
      BY <1>1, <2>2 DEF Frame
    <3>2. \A q \in Rule \ {r} : val'[q] = val[q] /\ (q \in base => q \in base')
      BY <3>1, Facts DEF Edge
    <3>3. Satisfied(r, val') = "T" => r \in base'
      BY <3>1 DEF Edge
    <3>. QED
      BY <3>2, <3>3, OneRuleIn
  <2>. QED
    BY <2>1, <2>2
<1>2. ASSUME NEW r \in Rule, NEW s \in Did, MarkUnknown(r, s)
      PROVE  TrueIsIn'
  <2>1. val' = [val EXCEPT ![r][s] = "U"] /\ base \subseteq base' /\ "U" \in Last \ {"T"}
    BY <1>2 DEF MarkUnknown, Last
  <2>2. \A q \in Rule \ {r} : val'[q] = val[q] /\ (q \in base => q \in base')
    BY <2>1, Facts
  <2>3. Satisfied(r, val') = "T" => r \in base'
    BY <2>1, NothingNew
  <2>. QED
    BY <2>2, <2>3, OneRuleIn
<1>3. ASSUME NEW r \in Rule, NEW s \in Did, TriggerRule(r, s)
      PROVE  TrueIsIn'
  <2>1. val' = [val EXCEPT ![r][s] = "T"] /\ base' = base \cup {r}
    BY <1>3 DEF TriggerRule
  <2>2. \A q \in Rule \ {r} : val'[q] = val[q] /\ (q \in base => q \in base')
    BY <2>1, Facts
  <2>. QED
    BY <2>1, <2>2, OneRuleIn
<1>4. ASSUME NEW r \in Rule, DeleteRule(r) \/ Toggle(r) \/ Reshape(r)
      PROVE  TrueIsIn'
  <2>1. \E C \in SUBSET {r}, T \in {{}, timed'} : Reset({r}, C, T)
    BY <1>4 DEF DeleteRule, Toggle, Reshape
  <2>. QED
    BY <2>1, ResetIsNotTrue
<1>5. CASE Pause \/ DeleteTask \/ Restart
  <2>1. \E C \in SUBSET rules : Reset(rules, C, {})
    BY <1>5 DEF Pause, DeleteTask, Restart
  <2>2. rules \in SUBSET Rule
    BY Facts
  <2>. QED
    BY <2>1, <2>2, ResetIsNotTrue
<1>6. UNCHANGED <<val, base>> => TrueIsIn'
  BY DEF TrueIsIn, Satisfied, Or3
<1>7. ASSUME NEW r \in Rule, DebounceEnds(r) \/ CreateRule(r)
      PROVE  TrueIsIn'
  BY <1>6, <1>7 DEF DebounceEnds, CreateRule, condition
<1>8. CASE Touch \/ Resume \/ CrossDay \/ UNCHANGED vars
  BY <1>6, <1>8 DEF Touch, Resume, CrossDay, condition, flicker, vars
<1>. QED
  BY <1>1, <1>2, <1>3, <1>4, <1>5, <1>7, <1>8 DEF Next

\* A rule that leaves was fired, if it waits for a duration.
LEMMA LeavingFiredStep ==
  ASSUME IInv, LeavingFired, ~WithRollover, [Next]_vars
  PROVE  LeavingFired'
<1>0. leaving \cap timed \subseteq fired /\ leaving \subseteq rules
  BY Facts DEF LeavingFired, Live
<1>1. ASSUME NEW r \in Rule, NEW s \in Did, NEW b \in BOOLEAN, Frame(r, s, b)
      PROVE  LeavingFired'
  <2>1. timed' = timed /\ fired \subseteq fired'
    BY <1>1 DEF Frame, config, Sample, Evaluate, duration
  <2>2. leaving' \subseteq leaving \cup {r} /\ (r \in leaving' \ leaving => (r \in timed => r \in fired'))
    BY <1>1 DEF Frame, Absorb, Edge
  <2>. QED
    BY <1>0, <2>1, <2>2 DEF LeavingFired
<1>2. ASSUME NEW r \in Rule, NEW s \in Did, MarkUnknown(r, s)
      PROVE  LeavingFired'
  BY <1>0, <1>2 DEF MarkUnknown, config, duration, LeavingFired
<1>3. ASSUME NEW r \in Rule, NEW s \in Did, TriggerRule(r, s)
      PROVE  LeavingFired'
  BY <1>0, <1>3 DEF TriggerRule, config, duration, LeavingFired
<1>4. ASSUME NEW r \in Rule, DebounceEnds(r)
      PROVE  LeavingFired'
  BY <1>0, <1>4 DEF DebounceEnds, config, LeavingFired
<1>5. ASSUME NEW r \in Rule, CreateRule(r)
      PROVE  LeavingFired'
  BY <1>0, <1>5 DEF CreateRule, condition, LeavingFired
<1>6. ASSUME NEW r \in Rule, DeleteRule(r) \/ Toggle(r) \/ Reshape(r)
      PROVE  LeavingFired'
  <2>1. leaving' = leaving \ {r} /\ fired \ {r} \subseteq fired' /\ timed' \subseteq timed \cup {r}
    BY <1>6 DEF DeleteRule, Toggle, Reshape, Reset
  <2>. QED
    BY <1>0, <2>1 DEF LeavingFired
<1>7. CASE Pause \/ DeleteTask \/ Restart
  BY <1>0, <1>7 DEF Pause, DeleteTask, Restart, Reset, LeavingFired
<1>8. CASE Touch \/ Resume \/ CrossDay \/ UNCHANGED vars
  BY <1>0, <1>8 DEF Touch, Resume, CrossDay, condition, vars, LeavingFired
<1>. QED
  BY <1>1, <1>2, <1>3, <1>4, <1>5, <1>6, <1>7, <1>8 DEF Next

\* An edge leaves a session rule where false frames lead out: entered again, its
\* exit called off, or leaving.
LEMMA EdgeIsReady ==
  ASSUME IInv, LeavingFired, NEW r \in Rule, NEW v, NEW P, Edge(r, v, P),
         Direction[r] = "session", timed' = timed, fired \subseteq fired', Ready(r)
  PROVE  Ready(r)'
<1>1. ~(r \in leaving /\ r \in base) /\ (r \in leaving /\ r \in timed => r \in fired)
  BY Facts DEF LeavingFired
<1>. QED
  BY <1>1 DEF Edge, Ready

\* A timed rule asks with a condition that is true.
LEMMA FiresWhenTrue ==
  ASSUME IInv, Need = MaxLen, NEW r \in Rule, NEW s \in Did, NEW b \in BOOLEAN, Sample(r, s, b)
  PROVE  \/ UNCHANGED <<state, fired>>
         \/ /\ r \in timed /\ Entered(r, val)
            /\ Direction[r] = "session" /\ EnterPasses(r, val) => r \in fired'
            /\ b \/ \E d \in Did \ {s} : val[r][d] = "T"
<1> DEFINE seen == b \/ \E d \in Did \ {s} : val[r][d] = "T"
<1>1. seen \in BOOLEAN
  OBVIOUS
<1>2. ASSUME NEW gap \in 0 .. MaxLen, Evaluate(r, seen, gap), r \in timed
      PROVE  \/ UNCHANGED <<state, fired>>
             \/ /\ Entered(r, val) /\ seen
                /\ Direction[r] = "session" /\ EnterPasses(r, val) => r \in fired'
  <2> DEFINE w == Sampled(window[r], seen, gap)
             met == Len(w) = MaxLen /\ Trues(w) >= Need
  <2>1. CASE ~met
    BY <1>2, <2>1 DEF Evaluate, state
  <2>2. CASE met
    <3>1. window[r] \in Windows
      BY Facts
    <3>2. seen
      BY <1>1, <2>2, <3>1, LastIsTrue
    <3>. QED
      BY <1>2, <2>2, <3>2 DEF Evaluate
  <2>. QED
    BY <2>1, <2>2
<1>3. \/ UNCHANGED duration /\ UNCHANGED state
      \/ r \in timed /\ \E gap \in 0 .. MaxLen : Evaluate(r, seen, gap)
  BY DEF Sample
<1>. HIDE DEF seen
<1>4. UNCHANGED duration => UNCHANGED fired
  BY DEF duration
<1>5. UNCHANGED <<state, fired>> \/ (r \in timed /\ Entered(r, val) /\ seen
        /\ (Direction[r] = "session" /\ EnterPasses(r, val) => r \in fired'))
  BY <1>2, <1>3, <1>4
<1>. QED
  BY <1>5 DEF seen

\* The one session rule of a task that is on is known to the state machine.
LEMMA OnIsReady ==
  ASSUME OneFamily, Ends, on, NEW q \in rules, Direction[q] = "session"
  PROVE  q \in topo /\ Ready(q)
<1>1. PICK x \in ExitSide(topo) : TRUE
  BY DEF Ends, OnCanEnd, SessionType
<1>2. q \in Rule /\ x \in Rule /\ x \in rules /\ x \in topo
  BY <1>1, Facts DEF Ends, ExitSide
<1>3. Direction[x] = "session"
  BY <1>1, <1>2 DEF OneFamily, ExitSide
<1>4. x = q
  BY <1>2, <1>3 DEF Ends, SessionAlone, Holding
<1>. QED
  BY <1>2, <1>4 DEF Ends, OnCanEnd, Holding, Ready

\* A frame opens a session only for a rule that is in, and fired if it is timed.
LEMMA FrameCanEnd ==
  ASSUME OneFamily, Need = MaxLen, Ends,
         NEW r \in Rule, NEW s \in Did, NEW b \in BOOLEAN, Frame(r, s, b)
  PROVE  OnCanEnd'
<1>1. /\ UNCHANGED config /\ ~paused /\ r \in topo /\ s \in Source[r]
      /\ fired \subseteq fired'
  BY DEF Frame, Listening, Ends, TopoIsLive, Sample, Evaluate, duration
<1>2. topo' = topo /\ paused' = paused /\ timed' = timed
  BY <1>1 DEF config
<1>3. on' => on \/ SessionType(topo)
  BY DEF Frame, Sample, Evaluate, Entered, state
<1>4. on' => SessionType(topo)
  BY <1>3 DEF Ends, OnCanEnd
<1>5. ASSUME NEW h \in Holding(topo), on'
      PROVE  Ready(h)'
  <2>1. h \in Rule /\ h \in rules /\ Direction[h] = "session"
    BY Facts DEF Ends, Holding
  <2>2. CASE h # r
    <3>1. h \in base' <=> h \in base
      BY <2>2 DEF Frame, Absorb, Edge
    <3>2. h \in leaving' <=> h \in leaving
      BY <2>2 DEF Frame, Absorb, Edge
    <3>3. Direction[r] = "guard"
      <4>1. Direction[r] \in {"session", "guard"}
        BY <2>1 DEF OneFamily
      <4>2. r \in rules
        BY <1>1, Facts DEF Ends
      <4>3. Direction[r] # "session"
        BY <2>1, <2>2, <4>2 DEF Ends, SessionAlone, Holding
      <4>. QED
        BY <4>1, <4>3
    <3>4. on
      BY <1>5, <3>3 DEF Frame, Sample, Evaluate, Entered, state
    <3>. QED
      BY <1>1, <1>2, <2>1, <3>1, <3>2, <3>4, OnIsReady DEF Ready
  <2>3. CASE h = r /\ on
    <3>1. Ready(r)
      BY <2>1, <2>3, OnIsReady
    <3>2. CASE Absorbs(r, s, b)
      BY <1>1, <1>2, <2>3, <3>1, <3>2 DEF Frame, Absorb, Ready
    <3>3. CASE ~Absorbs(r, s, b)
      <4>1. Edge(r, val', penter \ {<<r, s>>})
        BY <3>3 DEF Frame
      <4>. QED
        BY <1>1, <1>2, <2>1, <2>3, <3>1, <4>1, EdgeIsReady DEF Ends
    <3>. QED
      BY <3>2, <3>3
  <2>4. CASE h = r /\ ~on /\ Absorbs(r, s, b)
    <3>1. Sample(r, s, b) /\ Absorb(r, s, b)
      BY <2>4 DEF Frame
    <3>2. /\ r \in timed /\ Entered(r, val)
          /\ Direction[r] = "session" /\ EnterPasses(r, val) => r \in fired'
          /\ b \/ \E d \in Did \ {s} : val[r][d] = "T"
      BY <1>5, <2>4, <3>1, FiresWhenTrue DEF Ends, state
    <3>3. r \in fired'
      BY <1>5, <2>1, <2>4, <3>2 DEF Entered
    <3>4. r \in leaving \/ \E d \in Did : val[r][d] = "T"
      BY <2>4, <3>2 DEF Absorbs
    <3>5. r \in leaving \/ r \in base
      BY <3>4, Facts, SeenTrue DEF Ends, TrueIsIn
    <3>. QED
      BY <2>4, <3>1, <3>3, <3>5 DEF Absorb, Ready
  <2>5. CASE h = r /\ ~on /\ ~Absorbs(r, s, b)
    <3>1. /\ val' = [val EXCEPT ![r][s] = IF b THEN "T" ELSE "F"]
          /\ Edge(r, val', penter \ {<<r, s>>})
          /\ IF Asks(r, val') THEN Entered(r, val') ELSE Sample(r, s, b)
      BY <2>5 DEF Frame
    <3>2. Satisfied(r, val') = "T" => r \in base'
      BY <3>1 DEF Edge
    <3>3. CASE Asks(r, val')
      BY <1>2, <2>5, <3>2, <3>3 DEF Asks, Ready
    <3>4. CASE ~Asks(r, val')
      <4>1. /\ Entered(r, val)
            /\ Direction[r] = "session" /\ EnterPasses(r, val) => r \in fired'
            /\ b \/ \E d \in Did \ {s} : val[r][d] = "T"
        BY <1>5, <2>5, <3>1, <3>4, FiresWhenTrue DEF Ends, state
      <4>2. r \in fired'
        BY <1>5, <2>1, <2>5, <4>1 DEF Entered
      <4>3. val' \in [Rule -> [Did -> Last]] /\ \E d \in Did : val'[r][d] = "T"
        BY <3>1, <4>1, Facts DEF Ends, Last
      <4>4. r \in base'
        BY <3>2, <4>3, SeenTrue
      <4>. QED
        BY <2>5, <4>2, <4>4 DEF Ready
    <3>. QED
      BY <3>3, <3>4
  <2>. QED
    BY <2>2, <2>3, <2>4, <2>5
<1>6. on' => ~paused' /\ SessionType(topo') /\ \A h \in Holding(topo') : Ready(h)'
  BY <1>1, <1>2, <1>4, <1>5
<1>. QED
  BY <1>6 DEF OnCanEnd, Ready

\* A reconfiguration opens nothing, and what stays on has something to end it.
LEMMA ReconfigureCanEnd ==
  ASSUME Ends, NEW T, NEW v, Reconfigure(T, v), on => ~paused',
         on => \A q \in Holding(T) : Ready(q)'
  PROVE  OnCanEnd'
<1>. SUFFICES ASSUME on'
              PROVE  ~paused' /\ SessionType(topo') /\ \A q \in Holding(topo') : Ready(q)'
  BY DEF OnCanEnd, Ready
<1>1. on /\ StaysOn(T, v) /\ topo' = T
  BY DEF Reconfigure
<1>2. Holding(T) \subseteq ExitSide(T)
  BY DEF Holding, ExitSide
<1>. QED
  BY <1>1, <1>2 DEF StaysOn, SessionType

LEMMA ConfigureCanEnd ==
  ASSUME OneFamily, Ends, SessionAlone',
         NEW r \in Rule, CreateRule(r) \/ DeleteRule(r) \/ Toggle(r) \/ Reshape(r)
  PROVE  OnCanEnd'
<1>1. on => ~paused
  BY DEF Ends, OnCanEnd
<1>2. topo = Live /\ IInv
  BY DEF Ends, TopoIsLive
<1>3. ASSUME on, NEW q \in rules, Direction[q] = "session"
      PROVE  q \in topo /\ Ready(q)
  BY <1>3, OnIsReady
<1>4. CASE CreateRule(r)
  <2>1. /\ Reconfigure(Live \cup {r}, val) /\ paused' = paused
        /\ rules' = rules \cup {r} /\ r \notin rules
        /\ base' = base /\ leaving' = leaving /\ fired' = fired
        /\ timed \subseteq timed' /\ timed' \subseteq timed \cup {r}
    BY <1>4 DEF CreateRule, condition
  <2>2. ASSUME on, NEW q \in Holding(Live \cup {r})
        PROVE  Ready(q)'
    <3>1. q \in rules' /\ Direction[q] = "session"
      BY <2>1 DEF Holding, Live
    <3>2. CASE q = r
      <4>1. PICK x \in ExitSide(topo) : TRUE
        BY <2>2 DEF Ends, OnCanEnd, SessionType
      <4>2. x \in rules /\ x \in Rule /\ Direction[x] = "session"
        BY <3>1, <3>2, <4>1, <1>2, Facts DEF OneFamily, ExitSide
      <4>. QED
        BY <2>1, <3>1, <3>2, <4>2 DEF SessionAlone, Holding
    <3>3. CASE q # r
      <4>1. Ready(q)
        BY <1>3, <2>1, <2>2, <3>1, <3>3
      <4>. QED
        BY <2>1, <3>3, <4>1 DEF Ready
    <3>. QED
      BY <3>2, <3>3
  <2>. QED
    BY <1>1, <2>1, <2>2, ReconfigureCanEnd
<1>5. CASE DeleteRule(r)
  <2>1. /\ Reconfigure(Live \ {r}, val) /\ paused' = paused /\ timed' = timed \ {r}
        /\ base' = base \ {r} /\ leaving' = leaving \ {r} /\ fired' = fired \ {r}
    BY <1>5 DEF DeleteRule, Reset
  <2>2. ASSUME on, NEW q \in Holding(Live \ {r})
        PROVE  Ready(q)'
    <3>1. q \in rules /\ Direction[q] = "session" /\ q # r
      BY DEF Holding, Live
    <3>. QED
      BY <1>3, <2>1, <2>2, <3>1 DEF Ready
  <2>. QED
    BY <1>1, <2>1, <2>2, ReconfigureCanEnd
<1>6. CASE Toggle(r)
  <2>1. /\ Reconfigure(rules \cap enabled', val') /\ paused' = paused /\ timed' = timed
        /\ base' = base \ {r} /\ leaving' = leaving \ {r} /\ fired' = fired \ {r}
        /\ r \in enabled => r \notin enabled'
    BY <1>6 DEF Toggle, Reset
  <2>2. ASSUME on, NEW q \in Holding(rules \cap enabled')
        PROVE  Ready(q)'
    <3>1. q \in rules /\ Direction[q] = "session" /\ q \in enabled'
      BY DEF Holding
    <3>2. q \in topo /\ Ready(q)
      BY <1>3, <2>2, <3>1
    <3>3. q # r
      BY <1>2, <2>1, <3>1, <3>2 DEF Live
    <3>. QED
      BY <2>1, <3>2, <3>3 DEF Ready
  <2>. QED
    BY <1>1, <2>1, <2>2, ReconfigureCanEnd
<1>7. CASE Reshape(r)
  <2>1. /\ Reconfigure(Live, val') /\ paused' = paused
        /\ timed' \ {r} = timed \ {r}
        /\ base' = (base \ {r}) \cup {q \in {r} : HasDispatchedEnter(q)}
        /\ leaving' = leaving \ {r}
        /\ fired' = (fired \ {r}) \cup ({q \in {r} : HasDispatchedEnter(q)} \cap timed')
    BY <1>7 DEF Reshape, Reset
  <2>2. ASSUME on, NEW q \in Holding(Live)
        PROVE  Ready(q)'
    <3>1. q \in rules /\ Direction[q] = "session"
      BY DEF Holding, Live
    <3>2. Ready(q)
      BY <1>3, <2>2, <3>1
    <3>3. CASE q = r
      <4>1. HasDispatchedEnter(r)
        BY <3>2, <3>3 DEF HasDispatchedEnter, Ready
      <4>. QED
        BY <2>1, <3>3, <4>1 DEF Ready
    <3>4. CASE q # r
      BY <2>1, <3>2, <3>4 DEF Ready
    <3>. QED
      BY <3>3, <3>4
  <2>. QED
    BY <1>1, <2>1, <2>2, ReconfigureCanEnd
<1>. QED
  BY <1>4, <1>5, <1>6, <1>7

LEMMA CanEndStep ==
  ASSUME OneFamily, ~WithRollover, ~WithTrigger, Need = MaxLen, Ends, SessionAlone', [Next]_vars
  PROVE  OnCanEnd'
<1>1. ASSUME NEW r \in Rule, NEW s \in Did, MarkUnknown(r, s)
      PROVE  OnCanEnd'
  <2>1. /\ on' = on /\ topo' = topo /\ paused' = paused /\ timed' = timed /\ fired' = fired
        /\ base' = IF r \in leaving THEN base \cup {r} ELSE base
        /\ leaving' = leaving \ {r}
    BY <1>1 DEF MarkUnknown, config, duration, state
  <2>2. \A h \in Rule : Ready(h) => Ready(h)'
    BY <2>1 DEF Ready, Ends, LeavingFired
  <2>3. Holding(topo) \subseteq Rule
    BY Facts DEF Holding, Ends
  <2>4. on => \A h \in Holding(topo) : Ready(h)
    BY DEF Ends, OnCanEnd, Ready
  <2>5. on' => ~paused' /\ SessionType(topo') /\ \A h \in Holding(topo') : Ready(h)'
    BY <2>1, <2>2, <2>3, <2>4 DEF Ends, OnCanEnd
  <2>. QED
    BY <2>5 DEF OnCanEnd, Ready
<1>2. ASSUME NEW r \in Rule, DebounceEnds(r)
      PROVE  OnCanEnd'
  <2>1. r \in topo /\ r \in rules /\ Direction[r] = "session"
    BY <1>2, Facts DEF DebounceEnds, Ends, TopoIsLive, IInv, LeavingIsFalse
  <2>2. Holding(topo) \ {r} = {}
    BY <2>1, Facts DEF Ends, SessionAlone, Holding
  <2>3. ~on'
    BY <1>2, <2>1, <2>2 DEF DebounceEnds, Exited, ExitPasses
  <2>. QED
    BY <2>3 DEF OnCanEnd
<1>3. CASE Touch \/ Resume
  <2>1. /\ Reconfigure(Live, val) /\ paused' \in {paused, FALSE} /\ timed' = timed
        /\ base' = base /\ leaving' = leaving /\ fired' = fired
    BY <1>3 DEF Touch, Resume, condition
  <2>2. on => ~paused' /\ \A q \in Holding(Live) : Ready(q)'
    BY <2>1 DEF Ends, OnCanEnd, TopoIsLive, Ready
  <2>. QED
    BY <2>1, <2>2, ReconfigureCanEnd
<1>4. CASE Pause \/ DeleteTask \/ Restart
  BY <1>4 DEF Pause, DeleteTask, Restart, OnCanEnd
<1>5. CASE UNCHANGED vars
  BY <1>5 DEF vars, Ends, OnCanEnd
<1>6. ~CrossDay /\ \A r \in Rule, s \in Did : ~TriggerRule(r, s)
  BY DEF CrossDay, TriggerRule
<1>. QED
  BY <1>1, <1>2, <1>3, <1>4, <1>5, <1>6, FrameCanEnd, ConfigureCanEnd DEF Next

\* In a task of one family of rules, without a daily record and the debug call,
\* whose durations ask for nothing but true samples, a session that is open can
\* be closed: its rules contain a way out, and the session rule among them is in a
\* state from which false frames lead to on_exit, however frames, devices that
\* come and go and configuration calls follow each other.
THEOREM TaskCanEnd ==
  ASSUME OneFamily, ~WithRollover, ~WithTrigger, Need = MaxLen
  PROVE  Spec => []OnCanEnd
<1>1. Init => Ends
  BY InvInit DEF Init, Ends, TopoIsLive, Live, SessionAlone, Holding, TrueIsIn, Satisfied, Or3,
                 LeavingFired, OnCanEnd
<1>2. Ends /\ [Next]_vars => Ends'
  <2>. SUFFICES ASSUME Ends, [Next]_vars
                PROVE  Ends'
    OBVIOUS
  <2>1. IInv' /\ TopoIsLive'
    BY InvStep, TopoStep DEF Ends
  <2>2. SessionAlone' /\ TrueIsIn' /\ LeavingFired'
    BY AloneStep, InStep, LeavingFiredStep DEF Ends
  <2>3. OnCanEnd'
    BY <2>2, CanEndStep
  <2>. QED
    BY <2>1, <2>2, <2>3 DEF Ends
<1>3. Ends => OnCanEnd
  BY DEF Ends
<1>. QED
  BY <1>1, <1>2, <1>3, PTL DEF Spec

-----------------------------------------------------------------------------
(* The two layers.  What is in, or was fired, listens; a session rule that was   *)
(* fired is in or leaving.  So a reconfiguration that asks the condition layer   *)
(* what holds the task gets "false" of a held rule only while that rule leaves.  *)

InListens == \A r \in base \cup fired : Listening(r)
FiredIsIn == \A r \in fired : Direction[r] = "session" => r \in base \/ r \in leaving

Layers ==
  /\ IInv /\ TopoIsLive /\ SessionAlone /\ TrueIsIn /\ FalseIsOut
  /\ InListens /\ FiredIsIn

\* What a frame does to the rule it is about, and that it leaves the others alone.
LEMMA FrameIsLocal ==
  ASSUME NEW r \in Rule, NEW s \in Did, NEW b \in BOOLEAN, Frame(r, s, b)
  PROVE  /\ UNCHANGED config /\ Listening(r)
         /\ base \ {r} = base' \ {r} /\ leaving \ {r} = leaving' \ {r}
         /\ fired \subseteq fired' /\ fired' \subseteq fired \cup {r}
         /\ r \in fired' \ fired => Direction[r] = "session" /\ EnterPasses(r, val) /\ Entered(r, val)
<1>1. UNCHANGED config /\ Listening(r)
  BY DEF Frame
<1>2. base \ {r} = base' \ {r} /\ leaving \ {r} = leaving' \ {r}
  BY DEF Frame, Absorb, Edge
<1>3. UNCHANGED fired \/ (Sample(r, s, b) /\ ~UNCHANGED fired)
  BY DEF Frame, duration
<1>4. ASSUME Sample(r, s, b)
      PROVE  /\ fired \subseteq fired' /\ fired' \subseteq fired \cup {r}
             /\ r \in fired' \ fired => Direction[r] = "session" /\ EnterPasses(r, val) /\ Entered(r, val)
  BY <1>4 DEF Sample, Evaluate, duration
<1>. QED
  BY <1>1, <1>2, <1>3, <1>4

LEMMA InListensStep ==
  ASSUME IInv, InListens, [Next]_vars
  PROVE  InListens'
<1>0. /\ \A r \in base \cup fired \cup leaving : r \in rules /\ r \in enabled /\ ~paused
      /\ enabled \subseteq rules
  BY Facts DEF InListens, IInv, LeavingIsFalse, Listening, Live
<1>. SUFFICES ASSUME NEW q \in base' \cup fired'
              PROVE  q \in rules' /\ q \in enabled' /\ ~paused'
  BY DEF InListens, Listening, Live
<1>1. ASSUME NEW r \in Rule, NEW s \in Did, NEW b \in BOOLEAN, Frame(r, s, b)
      PROVE  q \in rules' /\ q \in enabled' /\ ~paused'
  BY <1>0, <1>1, FrameIsLocal DEF Listening, Live, config
<1>2. ASSUME NEW r \in Rule, NEW s \in Did, MarkUnknown(r, s) \/ TriggerRule(r, s)
      PROVE  q \in rules' /\ q \in enabled' /\ ~paused'
  <2>1. UNCHANGED config /\ UNCHANGED fired
    BY <1>2 DEF MarkUnknown, TriggerRule, duration
  <2>2. base' = base \/ (base' = base \cup {r} /\ (r \in leaving \/ Listening(r)))
    BY <1>2 DEF MarkUnknown, TriggerRule
  <2>. QED
    BY <1>0, <2>1, <2>2 DEF Listening, Live, config
<1>3. ASSUME NEW r \in Rule, DebounceEnds(r) \/ CreateRule(r)
      PROVE  q \in rules' /\ q \in enabled' /\ ~paused'
  BY <1>0, <1>3 DEF DebounceEnds, CreateRule, config, condition
<1>4. ASSUME NEW r \in Rule, DeleteRule(r) \/ Toggle(r)
      PROVE  q \in rules' /\ q \in enabled' /\ ~paused'
  BY <1>0, <1>4 DEF DeleteRule, Toggle, Reset
<1>5. ASSUME NEW r \in Rule, Reshape(r)
      PROVE  q \in rules' /\ q \in enabled' /\ ~paused'
  BY <1>0, <1>5 DEF Reshape, Reset, HasDispatchedEnter
<1>6. CASE Pause \/ DeleteTask \/ Restart
  BY <1>0, <1>6 DEF Pause, DeleteTask, Restart, Reset
<1>7. CASE Touch \/ Resume \/ CrossDay \/ UNCHANGED vars
  BY <1>0, <1>7 DEF Touch, Resume, CrossDay, condition, config, vars
<1>. QED
  BY <1>1, <1>2, <1>3, <1>4, <1>5, <1>6, <1>7 DEF Next

LEMMA FiredIsInStep ==
  ASSUME Need = MaxLen, IInv, TrueIsIn, FiredIsIn, [Next]_vars
  PROVE  FiredIsIn'
<1>. SUFFICES ASSUME NEW q \in fired', Direction[q] = "session"
              PROVE  q \in base' \/ q \in leaving'
  BY DEF FiredIsIn
<1>0. q \in fired => q \in base \/ q \in leaving
  BY DEF FiredIsIn
<1>1. ASSUME NEW r \in Rule, NEW s \in Did, NEW b \in BOOLEAN, Frame(r, s, b)
      PROVE  q \in base' \/ q \in leaving'
  <2>1. CASE q # r
    BY <1>0, <1>1, <2>1, FrameIsLocal
  <2>2. CASE q = r /\ r \in fired
    <3>1. CASE Absorbs(r, s, b)
      BY <1>0, <1>1, <2>2, <3>1 DEF Frame, Absorb
    <3>2. CASE ~Absorbs(r, s, b)
      BY <1>0, <1>1, <2>2, <3>2 DEF Frame, Edge
    <3>. QED
      BY <3>1, <3>2
  <2>3. CASE q = r /\ r \notin fired
    <3>1. Sample(r, s, b)
      BY <1>1, <2>3 DEF Frame, duration
    <3>2. b \/ \E d \in Did \ {s} : val[r][d] = "T"
      BY <2>3, <3>1, FiresWhenTrue
    <3>3. CASE Absorbs(r, s, b)
      <4>1. r \in leaving \/ \E d \in Did : val[r][d] = "T"
        BY <3>2, <3>3 DEF Absorbs
      <4>2. r \in leaving \/ r \in base
        BY <4>1, Facts, SeenTrue DEF TrueIsIn
      <4>. QED
        BY <1>1, <2>3, <3>3, <4>2 DEF Frame, Absorb
    <3>4. CASE ~Absorbs(r, s, b)
      <4>1. /\ val' = [val EXCEPT ![r][s] = IF b THEN "T" ELSE "F"]
            /\ Satisfied(r, val') = "T" => r \in base'
        BY <1>1, <3>4 DEF Frame, Edge
      <4>2. val' \in [Rule -> [Did -> Last]] /\ \E d \in Did : val'[r][d] = "T"
        BY <3>2, <4>1, Facts DEF Last
      <4>. QED
        BY <2>3, <4>1, <4>2, SeenTrue
    <3>. QED
      BY <3>3, <3>4
  <2>. QED
    BY <2>1, <2>2, <2>3
<1>2. ASSUME NEW r \in Rule, NEW s \in Did, MarkUnknown(r, s) \/ TriggerRule(r, s)
      PROVE  q \in base' \/ q \in leaving'
  BY <1>0, <1>2 DEF MarkUnknown, TriggerRule, duration
<1>3. ASSUME NEW r \in Rule, DebounceEnds(r)
      PROVE  q \in base' \/ q \in leaving'
  BY <1>0, <1>3, Facts DEF DebounceEnds
<1>4. ASSUME NEW r \in Rule, CreateRule(r)
      PROVE  q \in base' \/ q \in leaving'
  BY <1>0, <1>4 DEF CreateRule, condition
<1>5. ASSUME NEW r \in Rule, DeleteRule(r) \/ Toggle(r) \/ Reshape(r)
      PROVE  q \in base' \/ q \in leaving'
  BY <1>0, <1>5 DEF DeleteRule, Toggle, Reshape, Reset
<1>6. CASE Pause \/ DeleteTask \/ Restart
  BY <1>0, <1>6 DEF Pause, DeleteTask, Restart, Reset
<1>7. CASE Touch \/ Resume \/ CrossDay \/ UNCHANGED vars
  BY <1>0, <1>7 DEF Touch, Resume, CrossDay, condition, vars
<1>. QED
  BY <1>1, <1>2, <1>3, <1>4, <1>5, <1>6, <1>7 DEF Next

\* A frame that makes a session rule held turns the task on.
LEMMA FrameLayers ==
  ASSUME OneFamily, Layers, NEW r \in Rule, NEW s \in Did, NEW b \in BOOLEAN, Frame(r, s, b),
         NEW q \in Rule, Held(q)', Held(q) => on
  PROVE  on'
<1>1. /\ UNCHANGED config /\ Listening(r) /\ r \in topo /\ r \in rules
      /\ base \ {r} = base' \ {r} /\ leaving \ {r} = leaving' \ {r}
      /\ fired \subseteq fired' /\ fired' \subseteq fired \cup {r}
      /\ r \in fired' \ fired => Direction[r] = "session" /\ EnterPasses(r, val) /\ Entered(r, val)
  BY FrameIsLocal DEF Layers, TopoIsLive, Listening, Live
<1>2. /\ Direction[q] = "session" /\ Listening(q) /\ Guards(topo) = {} /\ q \in rules
      /\ q \in leaving' \/ (IF q \in timed THEN q \in fired' ELSE q \in base')
  BY <1>1 DEF Held, Listening, Live, config, Guards
<1>3. q = r
  <2>1. Direction[r] # "guard"
    BY <1>1, <1>2 DEF Guards
  <2>2. Direction[r] = "session"
    BY <1>2, <2>1 DEF OneFamily
  <2>. QED
    BY <1>1, <1>2, <2>2 DEF Layers, SessionAlone, Holding
<1>4. CASE on
  BY <1>2, <1>3, <1>4 DEF Frame, Sample, Evaluate, Entered, state
<1>5. CASE ~on
  <2>1. r \notin leaving /\ (r \in timed => r \notin fired) /\ (r \notin timed => r \notin base)
    BY <1>2, <1>3, <1>5 DEF Held
  <2>2. SessionType(topo)
    BY <1>1, <1>2, <1>3 DEF SessionType, ExitSide
  <2>3. \A v : EnterPasses(r, v)
    <3>1. ExitSide(topo) \ {r} = {}
      <4>1. \A x \in topo : x \in Rule /\ x \in rules
        BY Facts DEF Layers
      <4>2. \A x \in ExitSide(topo) : Direction[x] = "session"
        BY <1>2, <4>1 DEF OneFamily, ExitSide
      <4>. QED
        BY <1>2, <1>3, <4>1, <4>2 DEF Layers, SessionAlone, Holding, ExitSide
    <3>. QED
      BY <1>1, <1>2, <1>5, <3>1 DEF EnterPasses
  <2>4. ASSUME NEW v, Entered(r, v)
        PROVE  on'
    BY <1>2, <1>3, <2>2, <2>3, <2>4 DEF Entered
  <2>5. CASE r \in timed
    <3>1. r \in fired'
      <4>1. r \in leaving' => r \in fired'
        BY <2>1, <2>5 DEF Frame, Absorb, Edge
      <4>. QED
        BY <1>2, <1>3, <2>5, <4>1
    <3>. QED
      BY <1>1, <2>1, <2>4, <2>5, <3>1
  <2>6. CASE r \notin timed
    <3>1. ~Absorbs(r, s, b)
      BY <1>2, <1>3, <2>1, <2>6 DEF Frame, Absorb
    <3>2. Edge(r, val', penter \ {<<r, s>>}) /\ (Asks(r, val') => Entered(r, val'))
      BY <3>1 DEF Frame
    <3>3. Asks(r, val')
      BY <1>2, <1>3, <2>1, <2>6, <3>2 DEF Edge, Asks
    <3>. QED
      BY <2>4, <3>2, <3>3
  <2>. QED
    BY <2>5, <2>6
<1>. QED
  BY <1>4, <1>5

\* A reconfiguration ends the task of a held rule only while that rule leaves.
LEMMA HeldEnds ==
  ASSUME FalseIsOut', FiredIsIn', NEW T, NEW v, Reconfigure(T, v), on, ~on',
         NEW q \in T, Held(q)', Satisfied(q, v) = Satisfied(q, val')
  PROVE  q \in leaving'
<1>1. Direction[q] = "session" /\ q \in Holding(T)
  BY DEF Held, Holding
<1>2. Satisfied(q, val') = "F"
  BY <1>1 DEF Reconfigure, StaysOn
<1>3. q \notin base'
  BY <1>2 DEF FalseIsOut
<1>. QED
  BY <1>1, <1>3 DEF Held, FiredIsIn

\* A configuration call that resets no rule but r, and holds none that was not.
LEMMA ConfigureLayers ==
  ASSUME Layers, Layers', NEW r \in Rule, CreateRule(r) \/ DeleteRule(r) \/ Toggle(r) \/ Reshape(r),
         NEW q \in Rule, Held(q)', Guards(topo) = {}, Held(q) => on, ~on'
  PROVE  on /\ leaving # {} /\ UNCHANGED leaving
<1>1. /\ q \in rules' /\ q \in enabled' /\ ~paused' /\ q \in topo' /\ Direction[q] = "session"
      /\ q \in leaving' \/ (IF q \in timed' THEN q \in fired' ELSE q \in base')
  BY DEF Held, Listening, Live, Layers, TopoIsLive
<1>2. \A x \in base \cup fired \cup leaving : x \in rules /\ Listening(x)
  BY DEF Layers, InListens, IInv, LeavingIsFalse, Listening, Live
<1>3. Held(q)
  <2>1. CASE CreateRule(r)
    <3>1. /\ r \notin rules /\ rules' = rules \cup {r} /\ enabled' = enabled \cup {r}
          /\ paused' = paused /\ timed \subseteq timed' /\ timed' \subseteq timed \cup {r}
          /\ base' = base /\ leaving' = leaving /\ fired' = fired
      BY <2>1 DEF CreateRule, condition
    <3>2. q # r
      BY <1>1, <1>2, <3>1
    <3>. QED
      BY <1>1, <3>1, <3>2 DEF Held, Listening, Live
  <2>2. CASE DeleteRule(r) \/ Toggle(r)
    <3>1. /\ base' = base \ {r} /\ leaving' = leaving \ {r} /\ fired' = fired \ {r}
          /\ rules' \subseteq rules /\ enabled' \subseteq enabled \cup {r} /\ paused' = paused
          /\ timed' \ {r} = timed \ {r}
      BY <2>2 DEF DeleteRule, Toggle, Reset
    <3>2. q # r
      BY <1>1, <3>1
    <3>. QED
      BY <1>1, <3>1, <3>2 DEF Held, Listening, Live
  <2>3. CASE Reshape(r)
    <3>1. /\ base' = (base \ {r}) \cup {x \in {r} : HasDispatchedEnter(x)}
          /\ leaving' = leaving \ {r}
          /\ fired' = (fired \ {r}) \cup ({x \in {r} : HasDispatchedEnter(x)} \cap timed')
          /\ rules' = rules /\ enabled' = enabled /\ paused' = paused
          /\ timed' \ {r} = timed \ {r}
      BY <2>3 DEF Reshape, Reset
    <3>2. q = r => HasDispatchedEnter(r)
      BY <1>1, <3>1
    <3>3. Listening(q)
      BY <1>1, <3>1 DEF Listening, Live
    <3>. QED
      BY <1>1, <3>1, <3>2, <3>3 DEF Held, HasDispatchedEnter
  <2>. QED
    BY <2>1, <2>2, <2>3
<1>4. on
  BY <1>3
<1>5. q \in leaving'
  <2>1. PICK T, v : Reconfigure(T, v) /\ q \in T /\ Satisfied(q, v) = Satisfied(q, val')
    <3>1. CASE CreateRule(r)
      BY <1>1, <3>1 DEF CreateRule, condition, Reconfigure
    <3>2. CASE DeleteRule(r)
      <4>1. Reconfigure(Live \ {r}, val) /\ q \in Live \ {r}
        BY <1>1, <3>2 DEF DeleteRule, Reconfigure
      <4>2. val'[q] = val[q]
        BY <3>2, <4>1 DEF DeleteRule, Reset
      <4>. QED
        BY <4>1, <4>2, SatisfiedIsLocal
    <3>3. CASE Toggle(r)
      BY <1>1, <3>3 DEF Toggle, Reconfigure
    <3>4. CASE Reshape(r)
      BY <1>1, <3>4 DEF Reshape, Reconfigure
    <3>. QED
      BY <3>1, <3>2, <3>3, <3>4
  <2>. QED
    BY <1>4, <2>1, HeldEnds DEF Layers
<1>6. leaving' = leaving \/ leaving' = leaving \ {r}
  BY DEF CreateRule, DeleteRule, Toggle, Reshape, Reset, condition
<1>7. \A x \in leaving : x = q
  BY <1>1, <1>2, <1>5, <1>6 DEF Layers, SessionAlone, Holding, IInv, LeavingIsFalse
<1>. QED
  BY <1>4, <1>5, <1>6, <1>7

LEMMA LayersStep ==
  ASSUME OneFamily, ~WithTrigger, Layers, Layers', Next, NEW q \in Rule, Held(q)',
         Guards(topo) = {}, Held(q) => on, ~on'
  PROVE  on /\ leaving # {} /\ UNCHANGED leaving
<1>1. /\ q \in rules' /\ q \in enabled' /\ ~paused' /\ q \in topo' /\ Direction[q] = "session"
      /\ q \in leaving' \/ (IF q \in timed' THEN q \in fired' ELSE q \in base')
  BY DEF Held, Listening, Live, Layers, TopoIsLive
<1>2. \A x \in base \cup fired \cup leaving : x \in rules /\ Listening(x)
  BY DEF Layers, InListens, IInv, LeavingIsFalse, Listening, Live
<1>3. ASSUME NEW r \in Rule, NEW s \in Did, MarkUnknown(r, s)
      PROVE  FALSE
  <2>1. /\ on' = on /\ rules' = rules /\ enabled' = enabled /\ paused' = paused
        /\ timed' = timed /\ fired' = fired
        /\ base' = IF r \in leaving THEN base \cup {r} ELSE base
        /\ leaving' = leaving \ {r}
    BY <1>3 DEF MarkUnknown, config, duration, state
  <2>2. Held(q)
    BY <1>1, <2>1 DEF Held, Listening, Live
  <2>. QED
    BY <2>1, <2>2
<1>4. ASSUME NEW r \in Rule, DebounceEnds(r)
      PROVE  FALSE
  <2>1. /\ r \in leaving /\ leaving' = leaving \ {r} /\ fired' = fired \ (timed \cap {r})
        /\ rules' = rules /\ timed' = timed /\ base' = base /\ r \notin base
    BY <1>4, Facts DEF DebounceEnds, config, Layers
  <2>2. q = r
    BY <1>1, <1>2, <2>1 DEF Layers, SessionAlone, Holding, IInv, LeavingIsFalse
  <2>. QED
    BY <1>1, <2>1, <2>2
<1>5. CASE Touch \/ Resume
  <2>1. /\ Reconfigure(Live, val) /\ val' = val /\ timed' = timed
        /\ rules' = rules /\ enabled' = enabled
        /\ base' = base /\ leaving' = leaving /\ fired' = fired
    BY <1>5 DEF Touch, Resume, condition
  <2>2. Held(q)
    BY <1>1, <1>2, <2>1 DEF Held, Listening, Live
  <2>3. q \in leaving'
    BY <1>1, <2>1, <2>2, HeldEnds DEF Layers, Reconfigure
  <2>. QED
    BY <2>1, <2>2, <2>3
<1>6. CASE Pause \/ DeleteTask \/ Restart
  BY <1>1, <1>2, <1>6 DEF Pause, DeleteTask, Restart, Reset
<1>7. CASE CrossDay
  <2>1. /\ on' = on /\ rules' = rules /\ enabled' = enabled /\ paused' = paused
        /\ timed' = timed /\ fired' \subseteq fired /\ base' = base /\ leaving' \subseteq leaving
    BY <1>7 DEF CrossDay, config
  <2>2. Held(q)
    BY <1>1, <2>1 DEF Held, Listening, Live
  <2>. QED
    BY <2>1, <2>2
<1>8. \A r \in Rule, s \in Did : ~TriggerRule(r, s)
  BY DEF TriggerRule
<1>. QED
  BY <1>3, <1>4, <1>5, <1>6, <1>7, <1>8, FrameLayers, ConfigureLayers DEF Next

\* In a task of one family of rules, without the debug call, whose durations ask
\* for nothing but true samples, a session rule that is in belongs to a task that is
\* on, and only a reconfiguration that hits a pending exit, or the last guard going,
\* parts the two.
THEOREM HeldStaysOn ==
  ASSUME OneFamily, ~WithTrigger, Need = MaxLen
  PROVE  Spec => LayersStayTogether
<1>1. Init => Layers
  BY InvInit DEF Init, Layers, TopoIsLive, Live, SessionAlone, Holding, TrueIsIn, FalseIsOut,
                 Satisfied, Or3, InListens, FiredIsIn
<1>2. Layers /\ [Next]_vars => Layers'
  BY InvStep, TopoStep, AloneStep, InStep, OutStep, InListensStep, FiredIsInStep DEF Layers
<1>3. Layers /\ Layers' /\ [Next]_vars =>
        [SessionHeldIsOn => \/ SessionHeldIsOn'
                            \/ on /\ ~on' /\ leaving # {} /\ UNCHANGED leaving
                            \/ Guards(topo) # {} /\ Guards(topo') = {}]_vars
  <2>. SUFFICES ASSUME Layers, Layers', Next, SessionHeldIsOn, NEW q \in Rule, Held(q)', ~on',
                       ~(Guards(topo) # {} /\ Guards(topo') = {})
                PROVE  on /\ leaving # {} /\ UNCHANGED leaving
    BY DEF SessionHeldIsOn
  <2>1. Guards(topo) = {}
    BY DEF Held, Guards
  <2>2. Held(q) => on
    BY DEF SessionHeldIsOn
  <2>. QED
    BY <2>1, <2>2, LayersStep
<1>. QED
  BY <1>1, <1>2, <1>3, PTL DEF Spec, LayersStayTogether

=============================================================================
