----------------------------- MODULE WindowsProofs -----------------------------
(***************************************************************************)
(* Theorems about Windows, for every finite set of cameras, every number   *)
(* of windows and every set of limits.                                     *)
(***************************************************************************)
EXTENDS Windows, FiniteSetTheorems, SequenceTheorems, WellFoundedInduction, TLAPS

\* A limit lets somebody in (concurrency() is at least one).
Parameters == IsFiniteSet(Camera) /\ Limits \subseteq Nat \ {0} /\ MaxWindows \in Nat

(***************************************************************************)
(* Induction, in the form of sets.                                         *)
(***************************************************************************)

LEMMA LeastNumber ==
  ASSUME NEW S \in SUBSET Nat, S # {}
  PROVE  \E n \in S : \A m \in S : n <= m
<1> DEFINE R == OpToRel(<, Nat)
<1>1. IsWellFoundedOn(R, Nat)
  BY NatLessThanWellFounded, Zenon
<1>2. \A m, n \in Nat : m < n => <<m, n>> \in R
  BY DEF OpToRel
<1> HIDE DEF R
<1>3. PICK n \in S : \A m \in S : ~(<<m, n>> \in R)
  BY <1>1, WFMin, Zenon
<1>4. \A m \in S : ~(m < n)
  BY <1>2, <1>3, Zenon
<1>. QED BY <1>4

LEMMA SetInduction ==
  ASSUME NEW S, 0 \in S, \A n \in Nat : n \in S => n + 1 \in S
  PROVE  Nat \subseteq S
<1>1. SUFFICES ASSUME Nat \ S # {} PROVE FALSE
  OBVIOUS
<1>2. PICK n \in Nat \ S : \A m \in Nat \ S : n <= m
  BY <1>1, LeastNumber
<1>3. n = 0 \/ (n - 1 \in Nat /\ n - 1 \notin S)
  BY <1>2
<1>. QED BY <1>2, <1>3

(***************************************************************************)
(* Sequences without repetition.                                           *)
(***************************************************************************)

Once(s) == \A i, j \in 1 .. Len(s) : s[i] = s[j] => i = j

LEMMA InToSet ==
  ASSUME NEW S, NEW s \in Seq(S)
  PROVE  \A x : x \in ToSet(s) <=> \E i \in 1 .. Len(s) : s[i] = x
BY DEF ToSet

LEMMA EmptyToSet ==
  ASSUME NEW S, NEW s \in Seq(S)
  PROVE  s = <<>> <=> ToSet(s) = {}
BY DEF ToSet

LEMMA AppendOnce ==
  ASSUME NEW S, NEW s \in Seq(S), Once(s), NEW e \in S, e \notin ToSet(s)
  PROVE  /\ Append(s, e) \in Seq(S) /\ Once(Append(s, e)) /\ Append(s, e) # <<>>
         /\ ToSet(Append(s, e)) = ToSet(s) \cup {e}
<1> DEFINE t == Append(s, e)
<1>1. /\ t \in Seq(S) /\ Len(t) = Len(s) + 1 /\ t[Len(s) + 1] = e /\ Len(s) \in Nat
      /\ \A i \in 1 .. Len(s) : t[i] = s[i]
      /\ DOMAIN s = 1 .. Len(s) /\ DOMAIN t = 1 .. Len(t)
  OBVIOUS
<1> HIDE DEF t
<1>2. \A i \in 1 .. Len(t) : i \in 1 .. Len(s) \/ i = Len(s) + 1
  BY <1>1
<1>3. \A i \in 1 .. Len(s) : s[i] # e
  BY <1>1 DEF ToSet
<1>4. Once(t)
  BY <1>1, <1>2, <1>3 DEF Once
<1>5. ToSet(t) = ToSet(s) \cup {e}
  BY <1>1, <1>2 DEF ToSet
<1>. QED BY <1>1, <1>4, <1>5 DEF t

LEMMA TailOnce ==
  ASSUME NEW S, NEW s \in Seq(S), Once(s), s # <<>>
  PROVE  /\ Tail(s) \in Seq(S) /\ Once(Tail(s)) /\ Head(s) \in S /\ Head(s) \in ToSet(s)
         /\ ToSet(Tail(s)) = ToSet(s) \ {Head(s)} /\ Len(s) \in Nat
         /\ (Len(s) > 1 <=> Tail(s) # <<>>)
<1> DEFINE t == Tail(s)
<1>1. /\ t \in Seq(S) /\ Len(t) = Len(s) - 1 /\ Len(s) \in Nat /\ Len(s) > 0 /\ Head(s) = s[1]
      /\ s[1] \in S /\ \A i \in 1 .. Len(t) : t[i] = s[i + 1] /\ i + 1 \in 1 .. Len(s)
      /\ DOMAIN s = 1 .. Len(s) /\ DOMAIN t = 1 .. Len(t) /\ 1 \in 1 .. Len(s)
  OBVIOUS
<1>2. Len(s) > 1 <=> t # <<>>
  <2> HIDE DEF t
  <2>1. t = <<>> => Len(t) = 0
    BY EmptySeq
  <2>2. t # <<>> => Len(t) > 0
    BY <1>1
  <2>. QED BY <1>1, <2>1, <2>2
<1> HIDE DEF t
<1>3. \A i \in 1 .. Len(s) : i = 1 \/ (i - 1 \in 1 .. Len(t) /\ t[i - 1] = s[i])
  BY <1>1
<1>4. Once(t)
  BY <1>1 DEF Once
<1>5. \A i \in 1 .. Len(t) : t[i] # s[1]
  BY <1>1 DEF Once
<1>6. ToSet(t) = ToSet(s) \ {s[1]}
  <2>1. /\ \A x : x \in ToSet(s) <=> \E i \in 1 .. Len(s) : s[i] = x
        /\ \A x : x \in ToSet(t) <=> \E i \in 1 .. Len(t) : t[i] = x
    BY <1>1, InToSet
  <2>2. \A x : x \in ToSet(t) => x \in ToSet(s) \ {s[1]}
    BY <1>1, <1>5, <2>1
  <2>3. \A x : x \in ToSet(s) \ {s[1]} => x \in ToSet(t)
    BY <1>3, <2>1
  <2>. QED BY <2>2, <2>3
<1>7. s[1] \in ToSet(s)
  BY <1>1 DEF ToSet
<1>. QED BY <1>1, <1>2, <1>4, <1>6, <1>7 DEF t

\* Without its k-th element a sequence moves up behind it.
LEMMA RemoveAtFacts ==
  ASSUME NEW S, NEW s \in Seq(S), NEW k \in 1 .. Len(s)
  PROVE  /\ RemoveAt(s, k) \in Seq(S) /\ Len(RemoveAt(s, k)) = Len(s) - 1
         /\ \A i \in 1 .. Len(s) - 1 : RemoveAt(s, k)[i] = IF i < k THEN s[i] ELSE s[i + 1]
<1> DEFINE a == SubSeq(s, 1, k - 1)
           b == SubSeq(s, k + 1, Len(s))
           t == a \o b
<1>1. /\ a \in Seq(S) /\ Len(a) = k - 1 /\ \A i \in 1 .. k - 1 : a[i] = s[i]
  OBVIOUS
<1>2. /\ b \in Seq(S) /\ Len(b) = Len(s) - k /\ \A i \in 1 .. Len(s) - k : b[i] = s[k + i]
  OBVIOUS
<1>3. Len(s) \in Nat /\ k \in Nat /\ k <= Len(s)
  OBVIOUS
<1>4. RemoveAt(s, k) = t
  BY DEF RemoveAt
<1> HIDE DEF a, b
<1>5. /\ t \in Seq(S) /\ Len(t) = Len(a) + Len(b)
      /\ \A i \in 1 .. Len(a) + Len(b) : t[i] = IF i <= Len(a) THEN a[i] ELSE b[i - Len(a)]
  BY <1>1, <1>2, ConcatProperties, Zenon
<1> HIDE DEF t
<1>6. Len(t) = Len(s) - 1
  BY <1>1, <1>2, <1>3, <1>5
<1>7. ASSUME NEW i \in 1 .. Len(s) - 1
      PROVE  t[i] = IF i < k THEN s[i] ELSE s[i + 1]
  <2>1. CASE i < k
    <3>1. i \in 1 .. k - 1 /\ i \in 1 .. Len(a) + Len(b) /\ i <= Len(a)
      BY <1>1, <1>2, <1>3, <2>1
    <3>2. t[i] = a[i]
      BY <1>5, <3>1, Zenon
    <3>3. a[i] = s[i]
      BY <1>1, <3>1, Zenon
    <3>. QED BY <2>1, <3>2, <3>3, Zenon
  <2>2. CASE i >= k
    <3>1. PICK j \in 1 .. Len(s) - k : j = i - Len(a) /\ k + j = i + 1
      BY <1>1, <1>2, <1>3, <2>2
    <3>2. t[i] = b[j]
      BY <1>1, <1>2, <1>3, <1>5, <2>2, <3>1
    <3>3. b[j] = s[k + j]
      BY <1>2, Zenon
    <3>4. s[k + j] = s[i + 1] /\ ~(i < k)
      BY <1>3, <2>2, <3>1
    <3>. QED BY <3>2, <3>3, <3>4, Zenon
  <2>. QED BY <1>3, <2>1, <2>2
<1>. QED BY <1>4, <1>5, <1>6, <1>7

LEMMA RemoveOnce ==
  ASSUME NEW S, NEW s \in Seq(S), Once(s), NEW e
  PROVE  /\ RemoveFirst(s, e) \in Seq(S) /\ Once(RemoveFirst(s, e))
         /\ ToSet(RemoveFirst(s, e)) = ToSet(s) \ {e}
<1>1. CASE e \notin ToSet(s)
  <2>1. RemoveFirst(s, e) = s
    BY <1>1 DEF RemoveFirst, ToSet
  <2>. QED BY <1>1, <2>1
<1>2. CASE e \in ToSet(s)
  <2>1. PICK k \in 1 .. Len(s) : s[k] = e
    BY <1>2 DEF ToSet
  <2>2. {i \in 1 .. Len(s) : s[i] = e} = {k}
    BY <2>1 DEF Once
  <2>3. SelectInSeq(s, LAMBDA v : v = e) = k
    BY <2>1, <2>2 DEF SelectInSeq, Min
  <2>4. RemoveFirst(s, e) = RemoveAt(s, k)
    BY <2>1, <2>3 DEF RemoveFirst
  <2> DEFINE t == RemoveAt(s, k)
  <2>5. /\ t \in Seq(S) /\ Len(t) = Len(s) - 1 /\ Len(s) \in Nat
        /\ \A i \in 1 .. Len(t) : t[i] = IF i < k THEN s[i] ELSE s[i + 1]
        /\ DOMAIN s = 1 .. Len(s) /\ DOMAIN t = 1 .. Len(t)
    BY RemoveAtFacts
  <2> HIDE DEF t
  <2>6. Once(t)
    BY <2>1, <2>5 DEF Once
  <2>7. \A i \in 1 .. Len(t) : t[i] # e /\ \E j \in 1 .. Len(s) : t[i] = s[j]
    BY <2>1, <2>5 DEF Once
  <2>8. \A j \in 1 .. Len(s) : s[j] = e \/ \E i \in 1 .. Len(t) : t[i] = s[j]
    <3>1. SUFFICES ASSUME NEW j \in 1 .. Len(s), s[j] # e
                   PROVE  \E i \in 1 .. Len(t) : t[i] = s[j]
      OBVIOUS
    <3>2. CASE j < k
      <4>1. j \in 1 .. Len(t) /\ t[j] = s[j]
        BY <2>1, <2>5, <3>2
      <4>. QED BY <4>1
    <3>3. CASE j > k
      <4>1. j - 1 \in 1 .. Len(t) /\ t[j - 1] = s[j]
        BY <2>1, <2>5, <3>3
      <4>. QED BY <4>1
    <3>. QED BY <2>1, <3>1, <3>2, <3>3
  <2>9. ToSet(t) = ToSet(s) \ {e}
    <3>1. /\ \A x : x \in ToSet(s) <=> \E i \in 1 .. Len(s) : s[i] = x
          /\ \A x : x \in ToSet(t) <=> \E i \in 1 .. Len(t) : t[i] = x
      BY <2>5, InToSet
    <3>2. \A x : x \in ToSet(t) => x \in ToSet(s) \ {e}
      BY <2>7, <3>1
    <3>3. \A x : x \in ToSet(s) \ {e} => x \in ToSet(t)
      BY <2>8, <3>1
    <3>. QED BY <3>2, <3>3
  <2>. QED BY <2>4, <2>5, <2>6, <2>9 DEF t
<1>. QED BY <1>1, <1>2

\* Without repetition there are as many elements as places.
LEMMA OnceCounts ==
  ASSUME NEW S, NEW s \in Seq(S), Once(s)
  PROVE  IsFiniteSet(ToSet(s)) /\ Len(s) = Cardinality(ToSet(s))
<1>1. Len(s) \in Nat /\ DOMAIN s = 1 .. Len(s)
  OBVIOUS
<1>2. s \in Bijection(1 .. Len(s), ToSet(s))
  <2>1. s \in [1 .. Len(s) -> ToSet(s)]
    BY <1>1 DEF ToSet
  <2>2. s \in Injection(1 .. Len(s), ToSet(s))
    BY <2>1 DEF Injection, IsInjective, Once
  <2>3. s \in Surjection(1 .. Len(s), ToSet(s))
    BY <1>1, <2>1 DEF Surjection, ToSet
  <2>. QED BY <2>2, <2>3 DEF Bijection
<1>3. IsFiniteSet(1 .. Len(s)) /\ Cardinality(1 .. Len(s)) = Len(s)
  <2>1. 1 \in Int /\ Len(s) \in Int /\ (IF 1 > Len(s) THEN 0 ELSE Len(s) - 1 + 1) = Len(s)
    BY <1>1
  <2>. QED BY <2>1, FS_Interval
<1>4. ExistsBijection(1 .. Len(s), ToSet(s))
  BY <1>2 DEF ExistsBijection
<1>. QED BY <1>3, <1>4, FS_Bijection

(***************************************************************************)
(* The limiter.                                                            *)
(***************************************************************************)

\* Each camera has its own windows in its line, each once and none with a permit, and one
\* turn as long as somebody waits.
LineOK(l, c) ==
  /\ Once(l.line[c]) /\ ToSet(l.line[c]) \subseteq Of(c) \ l.granted
  /\ l.line[c] # <<>> <=> c \in ToSet(l.turns)
Limiter == [line : [Camera -> Seq(Window)], turns : Seq(Camera), granted : SUBSET Window]
LimiterOK(l) == l \in Limiter /\ Once(l.turns) /\ \A c \in Camera : LineOK(l, c)

LEMMA WaitingIs ==
  ASSUME NEW l, LimiterOK(l)
  PROVE  /\ \A w : w \in Waiting(l) <=> \E c \in Camera : w \in ToSet(l.line[c])
         /\ \A w \in Window : w \in Waiting(l) <=> w \in ToSet(l.line[w[1]])
         /\ Waiting(l) \subseteq Window /\ Waiting(l) \cap l.granted = {}
         /\ l.turns # <<>> <=> Waiting(l) # {}
<1>1. \A w : w \in Waiting(l) <=> \E c \in Camera : w \in ToSet(l.line[c])
  BY DEF Waiting
<1>2. \A c \in Camera : \A w \in ToSet(l.line[c]) : w \in Window /\ w[1] = c /\ w \notin l.granted
  BY DEF LimiterOK, LineOK, Of
<1>3. \A w \in Window : w[1] \in Camera
  BY DEF Window
<1>4. l.turns # <<>> <=> Waiting(l) # {}
  <2>1. l.turns \in Seq(Camera) /\ \A c \in Camera : l.line[c] \in Seq(Window)
    BY DEF LimiterOK, Limiter
  <2>2. l.turns # <<>> <=> \E c \in Camera : c \in ToSet(l.turns)
    <3>1. ToSet(l.turns) \subseteq Camera
      BY <2>1, InToSet
    <3>. QED BY <2>1, <3>1, EmptyToSet
  <2>3. \A c \in Camera : l.line[c] # <<>> <=> \E w : w \in ToSet(l.line[c])
    BY <2>1, EmptyToSet
  <2>4. \A c \in Camera : l.line[c] # <<>> <=> c \in ToSet(l.turns)
    BY DEF LimiterOK, LineOK
  <2>. QED BY <1>1, <2>2, <2>3, <2>4
<1>. QED BY <1>1, <1>2, <1>3, <1>4

\* A permit goes to one who waits.
LEMMA GrantStep ==
  ASSUME NEW l, LimiterOK(l), l.turns # <<>>
  PROVE  /\ LimiterOK(Grant(l))
         /\ \E w \in Waiting(l) : /\ Grant(l).granted = l.granted \cup {w}
                                  /\ Waiting(Grant(l)) = Waiting(l) \ {w}
<1>1. PICK c \in Camera : c = Head(l.turns)
  BY DEF LimiterOK, Limiter
<1> DEFINE s == l.line[c]
           w == Head(s)
           k == Grant(l)
<1>2. /\ Tail(l.turns) \in Seq(Camera) /\ Once(Tail(l.turns)) /\ c \in ToSet(l.turns)
      /\ ToSet(Tail(l.turns)) = ToSet(l.turns) \ {c}
  BY <1>1, TailOnce DEF LimiterOK, Limiter
<1>3. /\ Tail(s) \in Seq(Window) /\ Once(Tail(s)) /\ w \in Window /\ w \in ToSet(s)
      /\ ToSet(Tail(s)) = ToSet(s) \ {w} /\ (Len(s) > 1 <=> Tail(s) # <<>>)
  <2>1. s \in Seq(Window) /\ Once(s) /\ s # <<>>
    BY <1>2 DEF LimiterOK, Limiter, LineOK
  <2> HIDE DEF s
  <2>. QED BY <2>1, TailOnce
<1>4. k = [line |-> [l.line EXCEPT ![c] = Tail(s)],
           turns |-> Tail(l.turns) \o (IF Len(s) > 1 THEN <<c>> ELSE <<>>),
           granted |-> l.granted \cup {w}]
  BY <1>1 DEF Grant
<1> HIDE DEF k
<1>12. /\ k.turns = Tail(l.turns) \o (IF Len(s) > 1 THEN <<c>> ELSE <<>>)
       /\ k.granted = l.granted \cup {w} /\ k.line = [l.line EXCEPT ![c] = Tail(s)]
  BY <1>4
<1>5. /\ k.turns \in Seq(Camera) /\ Once(k.turns)
      /\ ToSet(k.turns) = (ToSet(l.turns) \ {c}) \cup IF Tail(s) # <<>> THEN {c} ELSE {}
  <2>1. CASE Len(s) > 1
    <3>1. k.turns = Append(Tail(l.turns), c)
      <4>1. k.turns = Tail(l.turns) \o <<c>>
        BY <1>12, <2>1
      <4>2. \A t \in Seq(Camera) : t \o <<c>> = Append(t, c)
        OBVIOUS
      <4>. QED BY <1>2, <4>1, <4>2, Zenon
    <3>2. c \notin ToSet(Tail(l.turns))
      BY <1>2
    <3>3. /\ Append(Tail(l.turns), c) \in Seq(Camera) /\ Once(Append(Tail(l.turns), c))
          /\ ToSet(Append(Tail(l.turns), c)) = ToSet(Tail(l.turns)) \cup {c}
      <4>1. \A t \in Seq(Camera) : Once(t) /\ c \notin ToSet(t) =>
              /\ Append(t, c) \in Seq(Camera) /\ Once(Append(t, c))
              /\ ToSet(Append(t, c)) = ToSet(t) \cup {c}
        BY AppendOnce
      <4>. QED BY <1>2, <3>2, <4>1, Zenon
    <3>4. Tail(s) # <<>>
      BY <1>3, <2>1, Zenon
    <3> HIDE DEF s
    <3>. QED BY <1>2, <3>1, <3>3, <3>4
  <2>2. CASE ~(Len(s) > 1)
    <3>1. k.turns = Tail(l.turns)
      <4>1. k.turns = Tail(l.turns) \o <<>>
        BY <1>12, <2>2
      <4>2. \A t \in Seq(Camera) : t \o <<>> = t
        BY ConcatEmptySeq, Zenon
      <4>. QED BY <1>2, <4>1, <4>2, Zenon
    <3>2. Tail(s) = <<>>
      BY <1>3, <2>2, Zenon
    <3> HIDE DEF s
    <3>. QED BY <1>2, <3>1, <3>2
  <2>. QED BY <2>1, <2>2
<1>6. /\ k.granted = l.granted \cup {w} /\ k.line[c] = Tail(s)
      /\ \A d \in Camera : d # c => k.line[d] = l.line[d]
      /\ k.line \in [Camera -> Seq(Window)]
  BY <1>3, <1>12 DEF LimiterOK, Limiter
<1>7. w[1] = c /\ w \notin l.granted
  BY <1>3 DEF LimiterOK, LineOK, Of
<1>8. k \in Limiter
  <2>1. k = [line |-> k.line, turns |-> k.turns, granted |-> k.granted]
    BY <1>4, <1>12
  <2>2. k.granted \in SUBSET Window
    BY <1>3, <1>6 DEF LimiterOK, Limiter
  <2>. QED BY <1>5, <1>6, <2>1, <2>2 DEF Limiter
<1> HIDE DEF w
<1>9. ASSUME NEW d \in Camera PROVE LineOK(k, d)
  <2>1. CASE d = c
    <3>1. ToSet(Tail(s)) \subseteq Of(c) \ k.granted
      BY <1>3, <1>6 DEF LimiterOK, LineOK
    <3>. QED BY <1>3, <1>5, <1>6, <2>1, <3>1 DEF LineOK
  <2>2. CASE d # c
    <3>1. w \notin Of(d)
      BY <1>7, <2>2 DEF Of
    <3>2. ToSet(l.line[d]) \subseteq Of(d) \ k.granted
      BY <1>6, <3>1 DEF LimiterOK, LineOK
    <3>3. Once(l.line[d]) /\ (l.line[d] # <<>> <=> d \in ToSet(l.turns)) /\ k.line[d] = l.line[d]
      BY <1>6, <2>2 DEF LimiterOK, LineOK
    <3>. QED BY <1>5, <2>2, <3>2, <3>3 DEF LineOK
  <2>. QED BY <2>1, <2>2
<1>10. LimiterOK(k)
  BY <1>5, <1>8, <1>9 DEF LimiterOK
<1>11. w \in Waiting(l) /\ Waiting(k) = Waiting(l) \ {w}
  <2>1. \A v : v \in Waiting(l) <=> \E d \in Camera : v \in ToSet(l.line[d])
    BY WaitingIs
  <2>2. \A v : v \in Waiting(k) <=> \E d \in Camera : v \in ToSet(k.line[d])
    BY <1>10, WaitingIs
  <2>3. w \in Waiting(l)
    BY <1>3, <2>1
  <2>4. \A d \in Camera : ToSet(k.line[d]) = ToSet(l.line[d]) \ {w}
    <3>1. ASSUME NEW d \in Camera, d # c PROVE w \notin ToSet(l.line[d])
      BY <1>7, <3>1 DEF LimiterOK, LineOK, Of
    <3>. QED BY <1>3, <1>6, <3>1
  <2>5. \A v : v \in Waiting(k) <=> v \in Waiting(l) /\ v # w
    <3>1. ASSUME NEW v, v \in Waiting(k) PROVE v \in Waiting(l) /\ v # w
      <4>1. PICK d \in Camera : v \in ToSet(k.line[d])
        BY <2>2, <3>1, Zenon
      <4>2. v \in ToSet(l.line[d]) /\ v # w
        BY <2>4, <4>1
      <4>. QED BY <2>1, <4>2, Zenon
    <3>2. ASSUME NEW v, v \in Waiting(l), v # w PROVE v \in Waiting(k)
      <4>1. PICK d \in Camera : v \in ToSet(l.line[d])
        BY <2>1, <3>2, Zenon
      <4>2. v \in ToSet(k.line[d])
        BY <2>4, <3>2, <4>1
      <4>. QED BY <2>2, <4>2, Zenon
    <3>. QED BY <3>1, <3>2, Zenon
  <2>. QED BY <2>3, <2>5
<1>. QED BY <1>6, <1>10, <1>11 DEF k

\* The permits one after the other, as a function that is given by its own values.
LEMMA GrantsAreSteps ==
  ASSUME NEW l, NEW n \in Nat
  PROVE  \E after : /\ after = [i \in 0 .. n |-> IF i = 0 THEN l ELSE Grant(after[i - 1])]
                    /\ Grants(l, n) = after[n]
<1> DEFINE Good(f, j) == f = [i \in 0 .. j |-> IF i = 0 THEN l ELSE Grant(f[i - 1])]
           S == {j \in Nat : \E f : Good(f, j)}
<1>1. 0 \in S
  <2>1. Good([i \in 0 .. 0 |-> l], 0)
    OBVIOUS
  <2>. QED BY <2>1
<1>2. ASSUME NEW j \in Nat, j \in S PROVE j + 1 \in S
  <2>1. PICK f : Good(f, j)
    BY <1>2
  <2> DEFINE h == [i \in 0 .. j + 1 |-> IF i = j + 1 THEN Grant(f[j]) ELSE f[i]]
  <2>2. Good(h, j + 1)
    <3>1. \A i \in 0 .. j : f[i] = IF i = 0 THEN l ELSE Grant(f[i - 1])
      BY <2>1
    <3>. QED BY <3>1
  <2> HIDE DEF h
  <2>. QED BY <2>2
<1>3. n \in S
  <2> HIDE DEF S
  <2>. QED BY <1>1, <1>2, SetInduction
<1> DEFINE after == CHOOSE f : Good(f, n)
<1>4. Good(after, n)
  BY <1>3
<1>5. Grants(l, n) = after[n]
  BY DEF Grants
<1> HIDE DEF after
<1>. QED BY <1>4, <1>5

\* As many permits as fit, each to another one who waits.
LEMMA GrantsGive ==
  ASSUME NEW l, LimiterOK(l), IsFiniteSet(Waiting(l)), NEW n \in Nat,
         n <= Cardinality(Waiting(l))
  PROVE  /\ LimiterOK(Grants(l, n))
         /\ Grants(l, n).granted \cup Waiting(Grants(l, n)) = l.granted \cup Waiting(l)
         /\ l.granted \subseteq Grants(l, n).granted
         /\ n > 0 => Grants(l, n).granted # {}
         /\ n = Cardinality(Waiting(l)) => Waiting(Grants(l, n)) = {}
<1> DEFINE N == Cardinality(Waiting(l))
<1>1. PICK after : /\ after = [i \in 0 .. n |-> IF i = 0 THEN l ELSE Grant(after[i - 1])]
                   /\ Grants(l, n) = after[n]
  BY GrantsAreSteps
<1>2. after[0] = l /\ \A i \in Nat : i + 1 <= n => after[i + 1] = Grant(after[i])
  BY <1>1
<1>3. N \in Nat
  BY FS_CardinalityType
<1> DEFINE P(k, i) ==
      /\ LimiterOK(k) /\ k.granted \cup Waiting(k) = l.granted \cup Waiting(l)
      /\ l.granted \subseteq k.granted /\ (i > 0 => k.granted # {})
      /\ IsFiniteSet(Waiting(k)) /\ Cardinality(Waiting(k)) = N - i
<1> DEFINE S == {i \in Nat : i <= n => P(after[i], i)}
<1>4. 0 \in S
  BY <1>2, <1>3
<1>5. ASSUME NEW i \in Nat, i \in S PROVE i + 1 \in S
  <2>1. SUFFICES ASSUME i + 1 <= n PROVE P(after[i + 1], i + 1)
    OBVIOUS
  <2>2. P(after[i], i) /\ after[i + 1] = Grant(after[i])
    BY <1>2, <1>5, <2>1
  <2>3. PICK k : k = after[i]
    OBVIOUS
  <2>4. LimiterOK(k) /\ IsFiniteSet(Waiting(k)) /\ Cardinality(Waiting(k)) = N - i
    BY <2>2, <2>3
  <2>5. Waiting(k) # {}
    BY <1>3, <2>1, <2>4, FS_EmptySet
  <2>6. PICK w \in Waiting(k) : /\ Grant(k).granted = k.granted \cup {w} /\ LimiterOK(Grant(k))
                                /\ Waiting(Grant(k)) = Waiting(k) \ {w}
    BY <2>4, <2>5, WaitingIs, GrantStep
  <2>7. /\ IsFiniteSet(Waiting(Grant(k)))
        /\ Cardinality(Waiting(Grant(k))) = Cardinality(Waiting(k)) - 1
    BY <2>4, <2>6, FS_RemoveElement
  <2>8. Cardinality(Waiting(Grant(k))) = N - (i + 1)
    BY <1>3, <2>4, <2>7
  <2>9. /\ Grant(k).granted \cup Waiting(Grant(k)) = k.granted \cup Waiting(k)
        /\ k.granted \subseteq Grant(k).granted /\ Grant(k).granted # {}
    BY <2>6
  <2>. QED BY <2>2, <2>3, <2>6, <2>7, <2>8, <2>9
<1>6. n \in S
  <2> HIDE DEF S
  <2>. QED BY <1>4, <1>5, SetInduction
<1>7. P(Grants(l, n), n)
  BY <1>1, <1>6
<1>8. n = N => Waiting(Grants(l, n)) = {}
  BY <1>3, <1>7, FS_EmptySet
<1>. QED BY <1>7, <1>8

\* Nobody is lost, and who still waits then waits for somebody.
LEMMA PumpStep ==
  ASSUME NEW l, LimiterOK(l), IsFiniteSet(Window), limit \in Nat \ {0}
  PROVE  /\ LimiterOK(Pump(l))
         /\ Pump(l).granted \cup Waiting(Pump(l)) = l.granted \cup Waiting(l)
         /\ Pump(l).turns # <<>> => Pump(l).granted # {}
<1> DEFINE N == Cardinality(Waiting(l))
           room == {n \in 1 .. N : Cardinality(l.granted) + n <= limit}
<1>1. /\ IsFiniteSet(Waiting(l)) /\ IsFiniteSet(l.granted)
  <2>1. Waiting(l) \in SUBSET Window /\ l.granted \in SUBSET Window
    BY WaitingIs DEF LimiterOK, Limiter
  <2>. QED BY <2>1, FS_Subset
<1>2. N \in Nat /\ Cardinality(l.granted) \in Nat
  BY <1>1, FS_CardinalityType
<1>3. /\ IsFiniteSet(room) /\ Cardinality(room) \in Nat /\ Cardinality(room) <= N
      /\ (Cardinality(room) = 0 => room = {})
  <2>1. IsFiniteSet(1 .. N) /\ Cardinality(1 .. N) = N
    <3>1. 1 \in Int /\ N \in Int /\ (IF 1 > N THEN 0 ELSE N - 1 + 1) = N
      BY <1>2
    <3>. QED BY <3>1, FS_Interval
  <2>2. room \in SUBSET (1 .. N)
    OBVIOUS
  <2> HIDE DEF N, room
  <2>3. IsFiniteSet(room) /\ Cardinality(room) <= N
    BY <2>1, <2>2, FS_Subset
  <2>4. Cardinality(room) \in Nat /\ (Cardinality(room) = 0 => room = {})
    BY <2>3, FS_CardinalityType, FS_EmptySet
  <2>. QED BY <2>3, <2>4
<1> DEFINE n == Cardinality(room)
           k == Grants(l, n)
<1>4. Pump(l) = k
  BY DEF Pump
<1>5. /\ LimiterOK(k) /\ k.granted \cup Waiting(k) = l.granted \cup Waiting(l)
      /\ l.granted \subseteq k.granted /\ (n > 0 => k.granted # {})
      /\ n = N => Waiting(k) = {}
  BY <1>1, <1>3, GrantsGive
<1>6. ASSUME k.turns # <<>> PROVE k.granted # {}
  <2>1. n # N
    BY <1>5, <1>6, WaitingIs
  <2>2. CASE n > 0
    BY <1>5, <2>2
  <2>3. CASE n = 0
    <3>1. room = {} /\ N > 0
      BY <1>2, <1>3, <2>1, <2>3
    <3>2. 1 \in 1 .. N /\ ~(Cardinality(l.granted) + 1 <= limit)
      BY <1>2, <3>1
    <3>3. Cardinality(l.granted) # 0
      BY <1>2, <3>2
    <3>4. l.granted # {}
      BY <3>3, FS_EmptySet
    <3>. QED BY <1>5, <3>4
  <2>. QED BY <1>3, <2>2, <2>3
<1>. QED BY <1>4, <1>5, <1>6

\* Who joins waits, behind the others of the camera.
LEMMA JoinStep ==
  ASSUME NEW l, LimiterOK(l), NEW w \in Window, w \notin l.granted \cup Waiting(l)
  PROVE  /\ LimiterOK(Join(l, w)) /\ Join(l, w).granted = l.granted
         /\ Waiting(Join(l, w)) = Waiting(l) \cup {w}
<1> DEFINE c == w[1]
           k == Join(l, w)
<1>1. c \in Camera /\ w \in Of(c)
  BY DEF Window, Of
<1>2. /\ l.line[c] \in Seq(Window) /\ Once(l.line[c]) /\ w \notin ToSet(l.line[c])
      /\ l.turns \in Seq(Camera) /\ Once(l.turns)
  BY <1>1, WaitingIs DEF LimiterOK, Limiter, LineOK
<1> DEFINE s == Append(l.line[c], w)
           t == IF l.line[c] = <<>> THEN Append(l.turns, c) ELSE l.turns
<1>3. s \in Seq(Window) /\ Once(s) /\ s # <<>> /\ ToSet(s) = ToSet(l.line[c]) \cup {w}
  <2>1. \A r \in Seq(Window) : Once(r) /\ w \notin ToSet(r) =>
          /\ Append(r, w) \in Seq(Window) /\ Once(Append(r, w)) /\ Append(r, w) # <<>>
          /\ ToSet(Append(r, w)) = ToSet(r) \cup {w}
    BY AppendOnce
  <2>. QED BY <1>2, <2>1, Zenon
<1>4. t \in Seq(Camera) /\ Once(t) /\ ToSet(t) = ToSet(l.turns) \cup {c}
  <2>1. CASE l.line[c] = <<>>
    <3>1. c \notin ToSet(l.turns)
      BY <1>1, <2>1 DEF LimiterOK, LineOK
    <3>2. \A r \in Seq(Camera) : Once(r) /\ c \notin ToSet(r) =>
            /\ Append(r, c) \in Seq(Camera) /\ Once(Append(r, c))
            /\ ToSet(Append(r, c)) = ToSet(r) \cup {c}
      BY <1>1, AppendOnce
    <3>3. t = Append(l.turns, c)
      BY <2>1
    <3>. QED BY <1>2, <3>1, <3>2, <3>3, Zenon
  <2>2. CASE l.line[c] # <<>>
    <3>1. c \in ToSet(l.turns) /\ t = l.turns
      BY <1>1, <2>2 DEF LimiterOK, LineOK
    <3> HIDE DEF t, c
    <3>. QED BY <1>2, <3>1
  <2>. QED BY <2>1, <2>2
<1>12. k = [l EXCEPT !.line[c] = s, !.turns = t]
  BY DEF Join
<1> HIDE DEF k, s, t
<1>5. k = [line |-> [l.line EXCEPT ![c] = s], turns |-> t, granted |-> l.granted]
  BY <1>12 DEF LimiterOK, Limiter
<1>6. /\ k.granted = l.granted /\ k.turns = t /\ k.line = [l.line EXCEPT ![c] = s]
  BY <1>5
<1>7. /\ k.line \in [Camera -> Seq(Window)] /\ k.line[c] = s
      /\ \A d \in Camera : d # c => k.line[d] = l.line[d]
  BY <1>1, <1>3, <1>6 DEF LimiterOK, Limiter
<1>8. k \in Limiter
  <2>1. k = [line |-> k.line, turns |-> k.turns, granted |-> k.granted]
    BY <1>5, <1>6
  <2>2. k.granted \in SUBSET Window
    BY <1>6 DEF LimiterOK, Limiter
  <2>. QED BY <1>4, <1>6, <1>7, <2>1, <2>2 DEF Limiter
<1>9. ASSUME NEW d \in Camera PROVE LineOK(k, d)
  <2>1. LineOK(l, d)
    BY DEF LimiterOK
  <2>2. CASE d = c
    <3>1. ToSet(s) \subseteq Of(c) \ k.granted
      BY <1>1, <1>3, <1>6, <2>1, <2>2 DEF LineOK
    <3>. QED BY <1>3, <1>4, <1>6, <1>7, <2>2, <3>1 DEF LineOK
  <2>3. CASE d # c
    BY <1>4, <1>6, <1>7, <2>1, <2>3 DEF LineOK
  <2>. QED BY <2>2, <2>3
<1>10. LimiterOK(k)
  BY <1>4, <1>6, <1>8, <1>9 DEF LimiterOK
<1>11. Waiting(k) = Waiting(l) \cup {w}
  <2>1. \A v : v \in Waiting(l) <=> \E d \in Camera : v \in ToSet(l.line[d])
    BY WaitingIs
  <2>2. \A v : v \in Waiting(k) <=> \E d \in Camera : v \in ToSet(k.line[d])
    BY <1>10, WaitingIs
  <2>3. ASSUME NEW v, v \in Waiting(k) PROVE v \in Waiting(l) \cup {w}
    <3>1. PICK d \in Camera : v \in ToSet(k.line[d])
      BY <2>2, <2>3, Zenon
    <3>. QED BY <1>1, <1>3, <1>7, <2>1, <3>1
  <2>4. ASSUME NEW v, v \in Waiting(l) \cup {w} PROVE v \in Waiting(k)
    <3>1. CASE v = w
      BY <1>1, <1>3, <1>7, <2>2, <3>1
    <3>2. CASE v # w
      <4>1. PICK d \in Camera : v \in ToSet(l.line[d])
        BY <2>1, <2>4, <3>2
      <4>. QED BY <1>3, <1>7, <2>2, <4>1
    <3>. QED BY <3>1, <3>2
  <2>. QED BY <2>3, <2>4
<1>. QED BY <1>6, <1>10, <1>11 DEF k

\* Who leaves has neither place nor permit.
LEMMA LeaveStep ==
  ASSUME NEW l, LimiterOK(l), NEW w \in Window
  PROVE  /\ LimiterOK(Leave(l, w))
         /\ Leave(l, w).granted \cup Waiting(Leave(l, w)) = (l.granted \cup Waiting(l)) \ {w}
<1> DEFINE c == w[1]
           k == Leave(l, w)
<1>1. c \in Camera /\ w \in Of(c)
  BY DEF Window, Of
<1>2. CASE w \in l.granted
  <2>1. k = [l EXCEPT !.granted = @ \ {w}]
    BY <1>2 DEF Leave
  <2> HIDE DEF k
  <2>2. /\ k \in Limiter /\ k.line = l.line /\ k.turns = l.turns /\ k.granted = l.granted \ {w}
    BY <2>1 DEF LimiterOK, Limiter
  <2>3. LimiterOK(k)
    BY <2>2 DEF LimiterOK, LineOK
  <2>4. Waiting(k) = Waiting(l) /\ w \notin Waiting(l)
    BY <1>2, <2>2, WaitingIs DEF Waiting
  <2>. QED BY <2>2, <2>3, <2>4 DEF k
<1>3. CASE w \notin l.granted
  <2> DEFINE s == RemoveFirst(l.line[c], w)
             t == IF s = <<>> THEN RemoveFirst(l.turns, c) ELSE l.turns
  <2>1. k = [l EXCEPT !.line[c] = s, !.turns = t]
    BY <1>3 DEF Leave
  <2>2. /\ l.line[c] \in Seq(Window) /\ Once(l.line[c])
        /\ l.turns \in Seq(Camera) /\ Once(l.turns)
    BY <1>1 DEF LimiterOK, Limiter, LineOK
  <2>3. s \in Seq(Window) /\ Once(s) /\ ToSet(s) = ToSet(l.line[c]) \ {w}
    BY <2>2, RemoveOnce
  <2>4. /\ t \in Seq(Camera) /\ Once(t)
        /\ ToSet(t) = ToSet(l.turns) \ IF s = <<>> THEN {c} ELSE {}
    <3>1. CASE s = <<>>
      <4>1. t = RemoveFirst(l.turns, c)
        BY <3>1
      <4>2. \A r \in Seq(Camera) : Once(r) =>
              /\ RemoveFirst(r, c) \in Seq(Camera) /\ Once(RemoveFirst(r, c))
              /\ ToSet(RemoveFirst(r, c)) = ToSet(r) \ {c}
        BY RemoveOnce
      <4> HIDE DEF t, s
      <4>. QED BY <2>2, <3>1, <4>1, <4>2
    <3>2. CASE s # <<>>
      <4>1. t = l.turns
        BY <3>2
      <4> HIDE DEF t, s
      <4>. QED BY <2>2, <3>2, <4>1
    <3>. QED BY <3>1, <3>2
  <2> HIDE DEF k, s, t
  <2>5. k = [line |-> [l.line EXCEPT ![c] = s], turns |-> t, granted |-> l.granted]
    BY <2>1 DEF LimiterOK, Limiter
  <2>6. k.granted = l.granted /\ k.turns = t /\ k.line = [l.line EXCEPT ![c] = s]
    BY <2>5
  <2>7. /\ k.line \in [Camera -> Seq(Window)] /\ k.line[c] = s
        /\ \A d \in Camera : d # c => k.line[d] = l.line[d]
    BY <1>1, <2>3, <2>6 DEF LimiterOK, Limiter
  <2>8. k \in Limiter
    <3>1. k = [line |-> k.line, turns |-> k.turns, granted |-> k.granted]
      BY <2>5, <2>6
    <3>2. k.granted \in SUBSET Window
      BY <2>6 DEF LimiterOK, Limiter
    <3>. QED BY <2>4, <2>6, <2>7, <3>1, <3>2 DEF Limiter
  <2>9. ASSUME NEW d \in Camera PROVE LineOK(k, d)
    <3>1. LineOK(l, d)
      BY DEF LimiterOK
    <3>2. CASE d = c
      <4>1. ToSet(s) \subseteq Of(c) \ k.granted
        BY <2>3, <2>6, <3>1, <3>2 DEF LineOK
      <4>2. s # <<>> => l.line[c] # <<>>
        BY <2>2, <2>3, EmptyToSet
      <4>. QED BY <2>3, <2>4, <2>6, <2>7, <3>1, <3>2, <4>1, <4>2 DEF LineOK
    <3>3. CASE d # c
      BY <2>4, <2>6, <2>7, <3>1, <3>3 DEF LineOK
    <3>. QED BY <3>2, <3>3
  <2>10. LimiterOK(k)
    BY <2>4, <2>6, <2>8, <2>9 DEF LimiterOK
  <2>11. \A v : v \in Waiting(k) <=> v \in Waiting(l) /\ v # w
    <3>1. \A v : v \in Waiting(l) <=> \E d \in Camera : v \in ToSet(l.line[d])
      BY WaitingIs
    <3>2. \A v : v \in Waiting(k) <=> \E d \in Camera : v \in ToSet(k.line[d])
      BY <2>10, WaitingIs
    <3>3. \A d \in Camera : ToSet(k.line[d]) = ToSet(l.line[d]) \ {w}
      <4>1. ASSUME NEW d \in Camera, d # c PROVE w \notin ToSet(l.line[d])
        BY <1>1, <4>1 DEF LimiterOK, LineOK, Of
      <4>. QED BY <2>3, <2>7, <4>1
    <3>4. ASSUME NEW v, v \in Waiting(k) PROVE v \in Waiting(l) /\ v # w
      <4>1. PICK d \in Camera : v \in ToSet(k.line[d])
        BY <3>2, <3>4, Zenon
      <4>2. v \in ToSet(l.line[d]) /\ v # w
        BY <3>3, <4>1
      <4>. QED BY <3>1, <4>2, Zenon
    <3>5. ASSUME NEW v, v \in Waiting(l), v # w PROVE v \in Waiting(k)
      <4>1. PICK d \in Camera : v \in ToSet(l.line[d])
        BY <3>1, <3>5, Zenon
      <4>2. v \in ToSet(k.line[d])
        BY <3>3, <3>5, <4>1
      <4>. QED BY <3>2, <4>2, Zenon
    <3>. QED BY <3>4, <3>5, Zenon
  <2>12. \A v : v \in k.granted \cup Waiting(k) <=> v \in (l.granted \cup Waiting(l)) \ {w}
    BY <1>3, <2>6, <2>11
  <2>. QED BY <2>10, <2>12 DEF k
<1>. QED BY <1>2, <1>3

(***************************************************************************)
(* The invariant.                                                          *)
(***************************************************************************)

\* Who waits or has a permit is in the limiter, and who waits waits for somebody.
LinesOK ==
  /\ LimiterOK(limiter) /\ (limiter.turns # <<>> => limiter.granted # {})
  /\ \A w \in Window : w \in limiter.granted \cup Waiting(limiter) <=> Holds(w)

\* How far a window is, by its marks.
StageOK(w) ==
  /\ win[w].task = "none" <=> w[2] > count[w[1]]
  /\ win[w].task = "none" => win[w] = Unborn
  /\ win[w].task = "over" => win[w].completed
  /\ win[w].completed => win[w].task = "over" \/ ~win[w].valid
  /\ win[w].linked => w[2] > 1 /\ ~win[w].completed
  /\ win[w].task = "effects" => win[w].work = "over" /\ win[w].answered
  /\ win[w].answered => win[w].work \in {"turn", "again", "commit", "over"}
  /\ win[w].task = "perceive" /\ win[w].work \in {"prepare", "commit"} => win[w].owns

\* The lock of a camera has one owner.
OwnsAlone ==
  \A v, w \in Window : v[1] = w[1] /\ win[v].owns /\ win[w].owns => v = w

\* Of a window that is dead no rule is told any more.
Dead(w) == win[w].completed \/ win[w].old \/ ~win[w].valid
Earlier(u, w) == u[1] = w[1] /\ u[2] < w[2]

\* A window has had its turn, and then its predecessor is completed.
HadTurn(w) == \/ win[w].work \in {"again", "commit"}
              \/ win[w].work = "over" /\ win[w].answered
FirstOrAfter(w) == w[2] = 1 \/ win[Before(w)].completed
TurnsOK(w) ==
  win[w].task # "none" /\ ~win[w].completed /\ (HadTurn(w) \/ ~win[w].linked) => FirstOrAfter(w)

\* Windows get old in order.
AgesOK(w) == win[w].old => \A u \in Window : Earlier(u, w) => Dead(u)

\* Before a completed window all are dead, but for those behind one that slipped.
Covered(u, c, n) == Dead(u) \/ \E s \in slipped : s[1] = c /\ u[2] < s[2] /\ s[2] <= n
DoneOK(w) ==
  win[w].completed => \A u \in Window : Earlier(u, w) => Covered(u, w[1], w[2])

\* The same of the last window that had an effect.
ShownOK ==
  \A u \in Window : u[2] < shown[u[1]] => Covered(u, u[1], shown[u[1]] - 1)

\* A camera whose last window is not known has none under way.
KnownOK ==
  /\ \A c \in known : count[c] > 0
  /\ \A w \in Window : w[1] \notin known /\ win[w].task # "none" => win[w].completed

OrderOK == KnownOK /\ ShownOK /\ \A w \in Window : TurnsOK(w) /\ AgesOK(w) /\ DoneOK(w)

Job ==
  [task : {"none", "perceive", "effects", "over"},
   work : {"none", "lock", "prepare", "queue", "http", "turn", "again", "commit", "over"},
   answered : BOOLEAN, linked : BOOLEAN, valid : BOOLEAN, old : BOOLEAN,
   completed : BOOLEAN, owns : BOOLEAN, bytes : BOOLEAN]
Marks ==
  /\ count \in [Camera -> 0 .. MaxWindows] /\ known \subseteq Camera /\ moved \subseteq Camera
  /\ limit \in Limits /\ left \subseteq Window
  /\ shown \in [Camera -> 0 .. MaxWindows] /\ slipped \subseteq Window
Stages == \A w \in Window : StageOK(w)

IInv == TypeOK /\ LinesOK /\ OwnsAlone /\ Stages /\ OrderOK

LEMMA Windowed ==
  ASSUME Parameters
  PROVE  /\ IsFiniteSet(Window) /\ MaxWindows \in Nat
         /\ \A w \in Window : w[1] \in Camera /\ w[2] \in 1 .. MaxWindows /\ w = <<w[1], w[2]>>
         /\ \A w \in Window : w[2] > 1 => Before(w) \in Window /\ Earlier(Before(w), w)
         /\ \A v, w \in Window : v[1] = w[1] /\ v[2] = w[2] => v = w
<1>1. MaxWindows \in Nat /\ IsFiniteSet(Camera)
  BY DEF Parameters
<1>2. IsFiniteSet(1 .. MaxWindows)
  <2>1. 1 \in Int /\ MaxWindows \in Int
    BY <1>1
  <2>. QED BY <2>1, FS_Interval
<1>3. IsFiniteSet(Window)
  BY <1>1, <1>2, FS_Product DEF Window
<1>4. \A w \in Window : w[1] \in Camera /\ w[2] \in 1 .. MaxWindows /\ w = <<w[1], w[2]>>
  BY DEF Window
<1>5. ASSUME NEW w \in Window, w[2] > 1 PROVE Before(w) \in Window /\ Earlier(Before(w), w)
  BY <1>1, <1>4, <1>5 DEF Window, Before, Earlier
<1>6. ASSUME NEW v \in Window, NEW w \in Window, v[1] = w[1], v[2] = w[2] PROVE v = w
  BY <1>4, <1>6
<1>. QED BY <1>1, <1>3, <1>4, <1>5, <1>6

LEMMA Parts ==
  /\ IInv <=> /\ win \in [Window -> Job] /\ Marks /\ LinesOK /\ OwnsAlone /\ Stages /\ OrderOK
  /\ IInv' <=> /\ win' \in [Window -> Job] /\ Marks' /\ LinesOK' /\ OwnsAlone' /\ Stages'
               /\ OrderOK'
<1>1. ASSUME LinesOK PROVE limiter.turns \in Seq(Camera) /\ limiter.granted \subseteq Window
  BY <1>1 DEF LinesOK, LimiterOK, Limiter
<1>2. TypeOK <=> /\ win \in [Window -> Job] /\ Marks
                 /\ limiter.turns \in Seq(Camera) /\ limiter.granted \subseteq Window
  BY DEF TypeOK, Job, Marks
<1>3. ASSUME LinesOK' PROVE limiter'.turns \in Seq(Camera) /\ limiter'.granted \subseteq Window
  BY <1>3 DEF LinesOK, LimiterOK, Limiter
<1>4. TypeOK' <=> /\ win' \in [Window -> Job] /\ Marks'
                  /\ limiter'.turns \in Seq(Camera) /\ limiter'.granted \subseteq Window
  BY DEF TypeOK, Job, Marks
<1>. QED BY <1>1, <1>2, <1>3, <1>4 DEF IInv

\* What becomes of the record of a window.
LEMMA Records ==
  /\ Unborn \in Job /\ Gone \in Job
  /\ \A r \in Job : Finished(r) \in Job /\ Cancelled(r) \in Job
  /\ Unborn.task = "none" /\ Unborn.work = "none" /\ ~Unborn.completed /\ ~Unborn.owns
  /\ Unborn.valid /\ ~Unborn.old /\ ~Unborn.linked /\ ~Unborn.answered
  /\ Gone.task = "over" /\ Gone.work = "over" /\ Gone.completed /\ ~Gone.owns
  /\ Gone.valid /\ ~Gone.old /\ ~Gone.linked /\ ~Gone.answered
<1>1. /\ Unborn.task = "none" /\ Unborn.work = "none" /\ ~Unborn.completed /\ ~Unborn.owns
      /\ Unborn.valid /\ ~Unborn.old /\ ~Unborn.linked /\ ~Unborn.answered
      /\ Unborn \in Job
  BY DEF Unborn, Job
<1>2. /\ Gone.task = "over" /\ Gone.work = "over" /\ Gone.completed /\ ~Gone.owns
      /\ Gone.valid /\ ~Gone.old /\ ~Gone.linked /\ ~Gone.answered
      /\ Gone \in Job
  BY DEF Unborn, Gone, Job
<1>3. ASSUME NEW r \in Job PROVE Finished(r) \in Job
  BY DEF Finished, Job
<1>4. ASSUME NEW r \in Job PROVE Cancelled(r) \in Job
  <2>1. CASE r.work = "over"
    BY <1>2, <2>1 DEF Cancelled
  <2>2. CASE r.work # "over"
    <3>1. Cancelled(r) = [Finished(r) EXCEPT !.task = "over", !.valid = FALSE]
      BY <2>2 DEF Cancelled
    <3>. QED BY <1>3, <3>1 DEF Job
  <2>. QED BY <2>1, <2>2
<1>. QED BY <1>1, <1>2, <1>3, <1>4

LEMMA FinishedIs ==
  ASSUME NEW r \in Job
  PROVE  /\ Finished(r).task = r.task /\ Finished(r).work = r.work
         /\ Finished(r).answered = r.answered /\ Finished(r).valid = r.valid
         /\ Finished(r).old = r.old /\ Finished(r).owns = r.owns
         /\ Finished(r).completed /\ ~Finished(r).linked
BY DEF Finished, Job

LEMMA CancelledIs ==
  ASSUME NEW r \in Job
  PROVE  /\ Cancelled(r).task = "over" /\ Cancelled(r).work = r.work
         /\ Cancelled(r).completed /\ ~Cancelled(r).linked
         /\ Cancelled(r).answered => r.answered /\ r.work # "over"
         /\ Cancelled(r).old => r.old
         /\ Cancelled(r).owns => r.owns
<1>1. CASE r.work = "over"
  <2>1. Cancelled(r) = Gone
    BY <1>1 DEF Cancelled
  <2>. QED BY <1>1, <2>1, Records
<1>2. CASE r.work # "over"
  <2>1. Cancelled(r) = [Finished(r) EXCEPT !.task = "over", !.valid = FALSE]
    BY <1>2 DEF Cancelled
  <2>2. Finished(r) \in Job
    BY Records
  <2>. QED BY <1>2, <2>1, <2>2, FinishedIs DEF Job
<1>. QED BY <1>1, <1>2

(***************************************************************************)
(* What a step must keep.                                                  *)
(***************************************************************************)

LEMMA LinesKept ==
  ASSUME LinesOK, limiter' = limiter, \A v \in Window : Holds(v)' <=> Holds(v)
  PROVE  LinesOK'
BY DEF LinesOK

LEMMA LinesJoin ==
  ASSUME Parameters, Marks, LinesOK, NEW w \in Window, limiter' = Pump(Join(limiter, w)),
         ~Holds(w), Holds(w)', \A v \in Window : v # w => (Holds(v)' <=> Holds(v))
  PROVE  LinesOK'
<1>1. limit \in Nat \ {0} /\ IsFiniteSet(Window)
  BY Windowed DEF Parameters, Marks
<1>2. LimiterOK(limiter) /\ w \notin limiter.granted \cup Waiting(limiter)
  BY DEF LinesOK
<1>3. PICK l : l = Join(limiter, w)
  OBVIOUS
<1>4. LimiterOK(l) /\ l.granted = limiter.granted /\ Waiting(l) = Waiting(limiter) \cup {w}
  BY <1>2, <1>3, JoinStep
<1>5. PICK k : k = Pump(l)
  OBVIOUS
<1>6. /\ LimiterOK(k) /\ k.granted \cup Waiting(k) = l.granted \cup Waiting(l)
      /\ k.turns # <<>> => k.granted # {}
  BY <1>1, <1>4, <1>5, PumpStep
<1>7. limiter' = k
  BY <1>3, <1>5
<1>8. \A v \in Window : v \in k.granted \cup Waiting(k) <=> Holds(v)'
  BY <1>2, <1>4, <1>6 DEF LinesOK
<1>. QED BY <1>6, <1>7, <1>8 DEF LinesOK

LEMMA LinesLeave ==
  ASSUME Parameters, Marks, LinesOK, NEW w \in Window, limiter' = Pump(Leave(limiter, w)),
         ~Holds(w)', \A v \in Window : v # w => (Holds(v)' <=> Holds(v))
  PROVE  LinesOK'
<1>1. limit \in Nat \ {0} /\ IsFiniteSet(Window)
  BY Windowed DEF Parameters, Marks
<1>2. LimiterOK(limiter)
  BY DEF LinesOK
<1>3. PICK l : l = Leave(limiter, w)
  OBVIOUS
<1>4. /\ LimiterOK(l)
      /\ l.granted \cup Waiting(l) = (limiter.granted \cup Waiting(limiter)) \ {w}
  BY <1>2, <1>3, LeaveStep
<1>5. PICK k : k = Pump(l)
  OBVIOUS
<1>6. /\ LimiterOK(k) /\ k.granted \cup Waiting(k) = l.granted \cup Waiting(l)
      /\ k.turns # <<>> => k.granted # {}
  BY <1>1, <1>4, <1>5, PumpStep
<1>7. limiter' = k
  BY <1>3, <1>5
<1>8. \A v \in Window : v \in k.granted \cup Waiting(k) <=> Holds(v)'
  BY <1>4, <1>6 DEF LinesOK
<1>. QED BY <1>6, <1>7, <1>8 DEF LinesOK

\* What is dead stays dead, and what slipped is remembered; so the order is kept if each
\* window that is new to a mark meets it.
LEMMA OrderKept ==
  ASSUME Parameters, OrderOK, KnownOK', ShownOK',
         \A v \in Window : win[v].completed => win'[v].completed,
         \A v \in Window : Dead(v) => Dead(v)',
         slipped \subseteq slipped',
         \A v \in Window :
           win'[v].task # "none" /\ ~win'[v].completed /\ (HadTurn(v)' \/ ~win'[v].linked) =>
             \/ win[v].task # "none" /\ (HadTurn(v) \/ ~win[v].linked)
             \/ FirstOrAfter(v)',
         \A v \in Window : win'[v].old => win[v].old \/ \A u \in Window : Earlier(u, v) => Dead(u)',
         \A v \in Window : win'[v].completed =>
           win[v].completed \/ \A u \in Window : Earlier(u, v) => Covered(u, v[1], v[2])'
  PROVE  OrderOK'
<1>1. \A u \in Window : \A c, n : Covered(u, c, n) => Covered(u, c, n)'
  BY DEF Covered
<1>2. \A v \in Window : FirstOrAfter(v) => FirstOrAfter(v)'
  <2>1. \A v \in Window : v[2] # 1 => Before(v) \in Window
    <3>1. \A v \in Window : v[2] # 1 => v[2] > 1
      BY Windowed
    <3>. QED BY <3>1, Windowed
  <2>. QED BY <2>1 DEF FirstOrAfter, Before
<1>3. ASSUME NEW v \in Window PROVE TurnsOK(v)'
  BY <1>2 DEF OrderOK, TurnsOK
<1>4. ASSUME NEW v \in Window PROVE AgesOK(v)'
  BY DEF OrderOK, AgesOK
<1>5. ASSUME NEW v \in Window PROVE DoneOK(v)'
  BY <1>1 DEF OrderOK, DoneOK
<1>. QED BY <1>3, <1>4, <1>5 DEF OrderOK

LEMMA ShownKept ==
  ASSUME OrderOK, shown' = shown, \A v \in Window : Dead(v) => Dead(v)', slipped \subseteq slipped'
  PROVE  ShownOK'
<1>1. \A u \in Window : \A c, n : Covered(u, c, n) => Covered(u, c, n)'
  BY DEF Covered
<1>. QED BY <1>1 DEF OrderOK, ShownOK

LEMMA KnownKept ==
  ASSUME OrderOK, count' = count, known' = known,
         \A v \in Window : win[v].completed => win'[v].completed,
         \A v \in Window : win'[v].task # "none" => win[v].task # "none"
  PROVE  KnownOK'
BY DEF OrderOK, KnownOK

(***************************************************************************)
(* The worker.                                                             *)
(***************************************************************************)

\* A window goes on with its work and keeps its marks.
Works(w, r) ==
  /\ r \in Job /\ win[w].task = "perceive" /\ r.task \in {"perceive", "effects"}
  /\ r.linked = win[w].linked /\ r.valid = win[w].valid /\ r.old = win[w].old
  /\ r.completed = win[w].completed
  /\ r.task = "effects" => r.work = "over" /\ r.answered
  /\ r.answered => r.work \in {"turn", "again", "commit", "over"}
  /\ r.task = "perceive" /\ r.work \in {"prepare", "commit"} => r.owns
  /\ r.work \in {"again", "commit"} \/ (r.work = "over" /\ r.answered) =>
       HadTurn(w) \/ win[w].completed \/ FirstOrAfter(w)

LEMMA WorkStep ==
  ASSUME Parameters, IInv, NEW w \in Window, NEW r, win' = [win EXCEPT ![w] = r],
         UNCHANGED <<round, history>>, Works(w, r)
  PROVE  /\ win' \in [Window -> Job] /\ Stages' /\ OrderOK'
         /\ win'[w] = r /\ \A v \in Window : v # w => win'[v] = win[v]
<1>1. win \in [Window -> Job] /\ Stages /\ OrderOK
  BY Parts
<1>8. /\ count' = count /\ known' = known /\ shown' = shown /\ slipped' = slipped
  BY DEF round, history
<1>2. win' \in [Window -> Job] /\ win'[w] = r /\ \A v \in Window : v # w => win'[v] = win[v]
  BY <1>1 DEF Works
<1>3. /\ \A v \in Window : win'[v].completed = win[v].completed
      /\ \A v \in Window : Dead(v)' <=> Dead(v)
      /\ \A v \in Window : win'[v].task # "none" <=> win[v].task # "none"
      /\ \A v \in Window : win'[v].linked = win[v].linked /\ win'[v].old = win[v].old
  BY <1>2 DEF Dead, Works
<1>4. Stages'
  <2>1. StageOK(w)'
    BY <1>1, <1>2, <1>8 DEF Stages, StageOK, Works
  <2>2. ASSUME NEW v \in Window, v # w PROVE StageOK(v)'
    BY <1>1, <1>2, <1>8, <2>2 DEF Stages, StageOK
  <2>. QED BY <2>1, <2>2 DEF Stages
<1>5. KnownOK' /\ ShownOK'
  BY <1>1, <1>3, <1>8, KnownKept, ShownKept
<1>6. ASSUME NEW v \in Window, win'[v].task # "none", ~win'[v].completed,
             HadTurn(v)' \/ ~win'[v].linked
      PROVE  (win[v].task # "none" /\ (HadTurn(v) \/ ~win[v].linked)) \/ FirstOrAfter(v)'
  <2>1. FirstOrAfter(v) => FirstOrAfter(v)'
    <3>1. v[2] # 1 => Before(v) \in Window
      BY Windowed
    <3>. QED BY <1>3, <3>1 DEF FirstOrAfter, Before
  <2>2. HadTurn(v)' => HadTurn(v) \/ FirstOrAfter(v)
    <3>1. CASE v = w
      BY <1>2, <1>3, <1>6, <3>1 DEF HadTurn, Works
    <3>2. CASE v # w
      BY <1>2, <3>2 DEF HadTurn
    <3>. QED BY <3>1, <3>2
  <2>. QED BY <1>3, <1>6, <2>1, <2>2
<1>7. OrderOK'
  BY <1>1, <1>3, <1>5, <1>6, <1>8, OrderKept
<1>. QED BY <1>2, <1>4, <1>7

LEMMA OwnsKept ==
  ASSUME OwnsAlone, \A v \in Window : win'[v].owns => win[v].owns
  PROVE  OwnsAlone'
BY DEF OwnsAlone

LEMMA OwnsTaken ==
  ASSUME OwnsAlone, NEW w \in Window, Free(w[1]),
         \A v \in Window : v # w => win'[v].owns = win[v].owns
  PROVE  OwnsAlone'
<1>1. \A v \in Window : v[1] = w[1] => ~win[v].owns
  BY DEF Free, Of
<1>. QED BY <1>1 DEF OwnsAlone

LEMMA MarksKept ==
  ASSUME Marks, count' = count, known' = known, moved' = moved, limit' = limit, left' = left,
         shown' = shown, slipped' = slipped
  PROVE  Marks'
BY DEF Marks

LEMMA HoldsAt ==
  ASSUME win \in [Window -> Job], NEW w \in Window, NEW r, win' = [win EXCEPT ![w] = r]
  PROVE  /\ Holds(w)' <=> r.work \in {"queue", "http"}
         /\ \A v \in Window : v # w => (Holds(v)' <=> Holds(v))
BY DEF Holds

LEMMA WorkOn ==
  ASSUME Parameters, IInv, NEW w \in Window, NEW r, win' = [win EXCEPT ![w] = r],
         UNCHANGED <<round, limit, left, history>>, Works(w, r),
         r.owns => win[w].owns \/ Free(w[1]), LinesOK'
  PROVE  IInv'
<1>1. OwnsAlone /\ Marks
  BY Parts
<1>2. /\ win' \in [Window -> Job] /\ Stages' /\ OrderOK'
      /\ win'[w] = r /\ \A v \in Window : v # w => win'[v] = win[v]
  BY WorkStep
<1>3. OwnsAlone'
  <2>1. CASE r.owns /\ ~win[w].owns
    BY <1>1, <1>2, <2>1, OwnsTaken
  <2>2. CASE ~r.owns \/ win[w].owns
    <3>1. \A v \in Window : win'[v].owns => win[v].owns
      BY <1>2, <2>2
    <3>. QED BY <1>1, <3>1, OwnsKept
  <2>. QED BY <2>1, <2>2
<1>4. Marks'
  BY <1>1, MarksKept DEF round, history
<1>. QED BY <1>2, <1>3, <1>4, Parts

\* The same, where the limiter is not asked.
LEMMA WorkAlone ==
  ASSUME Parameters, IInv, NEW w \in Window, NEW r, win' = [win EXCEPT ![w] = r],
         UNCHANGED <<round, limit, limiter, left, history>>, Works(w, r),
         r.owns => win[w].owns \/ Free(w[1]),
         win[w].work \notin {"queue", "http"}, r.work \notin {"queue", "http"}
  PROVE  IInv'
<1>1. win \in [Window -> Job] /\ LinesOK
  BY Parts
<1>2. \A v \in Window : Holds(v)' <=> Holds(v)
  <2>1. ~Holds(w) /\ ~Holds(w)'
    BY <1>1, HoldsAt DEF Holds
  <2>2. \A v \in Window : v # w => (Holds(v)' <=> Holds(v))
    BY <1>1, HoldsAt
  <2>. QED BY <2>1, <2>2
<1>3. LinesOK'
  BY <1>1, <1>2, LinesKept
<1>. QED BY <1>3, WorkOn

LEMMA PrepareStep ==
  ASSUME Parameters, IInv, NEW w \in Window, Prepare(w)
  PROVE  IInv'
<1> DEFINE r == [win[w] EXCEPT !.work = "prepare", !.owns = TRUE]
<1>1. win[w].task = "perceive" /\ win[w].work = "lock" /\ Free(w[1])
  BY DEF Prepare, Place
<1>2. win \in [Window -> Job] /\ StageOK(w) /\ TurnsOK(w)
  BY Parts DEF Stages, OrderOK
<1>3. /\ r \in Job /\ r.linked = win[w].linked /\ r.valid = win[w].valid
      /\ r.old = win[w].old /\ r.completed = win[w].completed
      /\ r.task = win[w].task /\ r.answered = win[w].answered /\ r.work = "prepare" /\ r.owns
  BY <1>2 DEF Job
<1>4. win' = [win EXCEPT ![w] = r]
  BY <1>1, <1>2 DEF Prepare
<1>5. UNCHANGED <<round, limit, limiter, left, history>>
  BY DEF Prepare
<1> HIDE DEF r
<1>6. Works(w, r)
  BY <1>1, <1>2, <1>3 DEF Works, StageOK
<1>. QED BY <1>1, <1>3, <1>4, <1>5, <1>6, WorkAlone

LEMMA NothingToSeeStep ==
  ASSUME Parameters, IInv, NEW w \in Window, NothingToSee(w)
  PROVE  IInv'
<1> DEFINE r == [win[w] EXCEPT !.work = "over"]
<1>1. win[w].task = "perceive" /\ win[w].work = "lock"
  BY DEF NothingToSee, Place
<1>2. win \in [Window -> Job] /\ StageOK(w) /\ TurnsOK(w)
  BY Parts DEF Stages, OrderOK
<1>3. /\ r \in Job /\ r.linked = win[w].linked /\ r.valid = win[w].valid
      /\ r.old = win[w].old /\ r.completed = win[w].completed
      /\ r.task = win[w].task /\ r.answered = win[w].answered /\ r.work = "over"
      /\ r.owns = win[w].owns
  BY <1>2 DEF Job
<1>4. win' = [win EXCEPT ![w] = r]
  BY <1>1, <1>2 DEF NothingToSee
<1>5. UNCHANGED <<round, limit, limiter, left, history>>
  BY DEF NothingToSee
<1> HIDE DEF r
<1>6. Works(w, r)
  BY <1>1, <1>2, <1>3 DEF Works, StageOK
<1>. QED BY <1>1, <1>3, <1>4, <1>5, <1>6, WorkAlone

LEMMA NoRequestStep ==
  ASSUME Parameters, IInv, NEW w \in Window, NoRequest(w)
  PROVE  IInv'
<1> DEFINE r == [win[w] EXCEPT !.work = "turn", !.owns = FALSE]
<1>1. win[w].task = "perceive" /\ win[w].work = "prepare"
  BY DEF NoRequest, Place
<1>2. win \in [Window -> Job] /\ StageOK(w) /\ TurnsOK(w)
  BY Parts DEF Stages, OrderOK
<1>3. /\ r \in Job /\ r.linked = win[w].linked /\ r.valid = win[w].valid
      /\ r.old = win[w].old /\ r.completed = win[w].completed
      /\ r.task = win[w].task /\ r.answered = win[w].answered /\ r.work = "turn" /\ ~r.owns
  BY <1>2 DEF Job
<1>4. win' = [win EXCEPT ![w] = r]
  BY <1>1, <1>2 DEF NoRequest
<1>5. UNCHANGED <<round, limit, limiter, left, history>>
  BY DEF NoRequest
<1> HIDE DEF r
<1>6. Works(w, r)
  BY <1>1, <1>2, <1>3 DEF Works, StageOK
<1>. QED BY <1>1, <1>3, <1>4, <1>5, <1>6, WorkAlone

LEMMA CommitStep ==
  ASSUME Parameters, IInv, NEW w \in Window, Commit(w)
  PROVE  IInv'
<1> DEFINE r == [win[w] EXCEPT !.work = "commit", !.owns = TRUE]
<1>1. win[w].task = "perceive" /\ win[w].work = "again" /\ Free(w[1])
  BY DEF Commit, Place
<1>2. win \in [Window -> Job] /\ StageOK(w) /\ TurnsOK(w)
  BY Parts DEF Stages, OrderOK
<1>3. /\ r \in Job /\ r.linked = win[w].linked /\ r.valid = win[w].valid
      /\ r.old = win[w].old /\ r.completed = win[w].completed
      /\ r.task = win[w].task /\ r.answered = win[w].answered /\ r.work = "commit" /\ r.owns
  BY <1>2 DEF Job
<1>4. win' = [win EXCEPT ![w] = r]
  BY <1>1, <1>2 DEF Commit
<1>5. UNCHANGED <<round, limit, limiter, left, history>>
  BY DEF Commit
<1> HIDE DEF r
<1>6. Works(w, r)
  BY <1>1, <1>2, <1>3 DEF Works, StageOK, HadTurn
<1>. QED BY <1>1, <1>3, <1>4, <1>5, <1>6, WorkAlone

LEMMA MergeStep ==
  ASSUME Parameters, IInv, NEW w \in Window, Merge(w)
  PROVE  IInv'
<1> DEFINE r == [win[w] EXCEPT !.work = "over", !.owns = FALSE]
<1>1. win[w].task = "perceive" /\ win[w].work = "commit"
  BY DEF Merge, Place
<1>2. win \in [Window -> Job] /\ StageOK(w) /\ TurnsOK(w)
  BY Parts DEF Stages, OrderOK
<1>3. /\ r \in Job /\ r.linked = win[w].linked /\ r.valid = win[w].valid
      /\ r.old = win[w].old /\ r.completed = win[w].completed
      /\ r.task = win[w].task /\ r.answered = win[w].answered /\ r.work = "over" /\ ~r.owns
  BY <1>2 DEF Job
<1>4. win' = [win EXCEPT ![w] = r]
  BY <1>1, <1>2 DEF Merge
<1>5. UNCHANGED <<round, limit, limiter, left, history>>
  BY DEF Merge
<1> HIDE DEF r
<1>6. Works(w, r)
  BY <1>1, <1>2, <1>3 DEF Works, StageOK, HadTurn
<1>. QED BY <1>1, <1>3, <1>4, <1>5, <1>6, WorkAlone

LEMMA EffectsStep ==
  ASSUME Parameters, IInv, NEW w \in Window, Effects(w)
  PROVE  IInv'
<1> DEFINE r == [win[w] EXCEPT !.task = "effects"]
<1>1. win[w].task = "perceive" /\ win[w].work = "over" /\ win[w].answered
  BY DEF Effects, Place
<1>2. win \in [Window -> Job] /\ StageOK(w) /\ TurnsOK(w)
  BY Parts DEF Stages, OrderOK
<1>3. /\ r \in Job /\ r.linked = win[w].linked /\ r.valid = win[w].valid
      /\ r.old = win[w].old /\ r.completed = win[w].completed
      /\ r.task = "effects" /\ r.answered = win[w].answered /\ r.work = win[w].work
      /\ r.owns = win[w].owns
  BY <1>2 DEF Job
<1>4. win' = [win EXCEPT ![w] = r]
  BY <1>1, <1>2 DEF Effects
<1>5. UNCHANGED <<round, limit, limiter, left, history>>
  BY DEF Effects
<1> HIDE DEF r
<1>6. Works(w, r)
  BY <1>1, <1>2, <1>3 DEF Works, StageOK, HadTurn
<1>. QED BY <1>1, <1>3, <1>4, <1>5, <1>6, WorkAlone

LEMMA RequestStep ==
  ASSUME Parameters, IInv, NEW w \in Window, Request(w)
  PROVE  IInv'
<1> DEFINE r == [win[w] EXCEPT !.work = "queue", !.owns = FALSE, !.bytes = TRUE]
<1>1. /\ win[w].task = "perceive" /\ win[w].work = "prepare"
      /\ limiter' = Pump(Join(limiter, w))
  BY DEF Request, Place
<1>2. win \in [Window -> Job] /\ StageOK(w) /\ LinesOK /\ Marks
  BY Parts DEF Stages
<1>3. /\ r \in Job /\ r.linked = win[w].linked /\ r.valid = win[w].valid
      /\ r.old = win[w].old /\ r.completed = win[w].completed
      /\ r.task = win[w].task /\ r.answered = win[w].answered /\ r.work = "queue" /\ ~r.owns
  BY <1>2 DEF Job
<1>4. win' = [win EXCEPT ![w] = r]
  BY <1>1, <1>2 DEF Request
<1>5. UNCHANGED <<round, limit, left, history>>
  BY DEF Request
<1> HIDE DEF r
<1>6. Works(w, r)
  BY <1>1, <1>2, <1>3 DEF Works, StageOK
<1>7. LinesOK'
  <2>1. ~Holds(w) /\ Holds(w)' /\ \A v \in Window : v # w => (Holds(v)' <=> Holds(v))
    <3>1. r.work \in {"queue", "http"} /\ ~Holds(w)
      BY <1>1, <1>3 DEF Holds
    <3>. QED BY <1>2, <1>4, <3>1, HoldsAt
  <2>. QED BY <1>1, <1>2, <2>1, LinesJoin
<1>. QED BY <1>3, <1>4, <1>5, <1>6, <1>7, WorkOn

\* Who has a permit or a place in the line gives it back and goes on to his turn.
LEMMA ToTurn ==
  ASSUME Parameters, IInv, NEW w \in Window, NEW r \in Job, win' = [win EXCEPT ![w] = r],
         win[w].task = "perceive", win[w].work \in {"queue", "http"}, Exit(w),
         UNCHANGED <<round, limit, left, history>>,
         r.linked = win[w].linked, r.valid = win[w].valid, r.old = win[w].old,
         r.completed = win[w].completed, r.task = win[w].task, r.work = "turn",
         r.owns = win[w].owns
  PROVE  IInv'
<1>1. win \in [Window -> Job] /\ LinesOK /\ Marks
  BY Parts
<1>2. Works(w, r)
  BY DEF Works
<1>3. LinesOK'
  <2>1. ~Holds(w)' /\ \A v \in Window : v # w => (Holds(v)' <=> Holds(v))
    BY <1>1, HoldsAt
  <2>. QED BY <1>1, <2>1, LinesLeave DEF Exit
<1>. QED BY <1>2, <1>3, WorkOn

LEMMA KeptIs == \A w \in Window : Kept(w) \in BOOLEAN
BY DEF Kept

LEMMA AnswerStep ==
  ASSUME Parameters, IInv, NEW w \in Window, Answer(w)
  PROVE  IInv'
<1> DEFINE r == [win[w] EXCEPT !.work = "turn", !.answered = TRUE, !.bytes = Kept(w)]
<1>1. win[w].task = "perceive" /\ win[w].work = "http" /\ Exit(w)
  BY DEF Answer, Place
<1>2. win \in [Window -> Job]
  BY Parts
<1>3. /\ r \in Job /\ r.linked = win[w].linked /\ r.valid = win[w].valid
      /\ r.old = win[w].old /\ r.completed = win[w].completed
      /\ r.task = win[w].task /\ r.work = "turn" /\ r.owns = win[w].owns
  BY <1>2, KeptIs DEF Job
<1>4. win' = [win EXCEPT ![w] = r]
  BY <1>1, <1>2 DEF Answer
<1>5. UNCHANGED <<round, limit, left, history>>
  BY DEF Answer
<1> HIDE DEF r
<1>. QED BY <1>1, <1>3, <1>4, <1>5, ToTurn

LEMMA StartStep ==
  ASSUME Parameters, IInv, NEW w \in Window, Start(w)
  PROVE  IInv'
<1>1. win[w].task = "perceive" /\ win[w].work = "queue"
  BY DEF Start, Place
<1>2. win \in [Window -> Job] /\ StageOK(w) /\ LinesOK
  BY Parts DEF Stages
<1>3. UNCHANGED <<round, limit, left, history>>
  BY DEF Start
<1>4. CASE Actionable(w)
  <2> DEFINE r == [win[w] EXCEPT !.work = "http"]
  <2>1. win' = [win EXCEPT ![w] = r] /\ limiter' = limiter
    BY <1>2, <1>4 DEF Start
  <2>2. /\ r \in Job /\ r.linked = win[w].linked /\ r.valid = win[w].valid
        /\ r.old = win[w].old /\ r.completed = win[w].completed
        /\ r.task = win[w].task /\ r.work = "http" /\ r.owns = win[w].owns
        /\ r.answered = win[w].answered
    BY <1>2 DEF Job
  <2> HIDE DEF r
  <2>3. Works(w, r)
    BY <1>1, <1>2, <2>2 DEF Works, StageOK
  <2>4. LinesOK'
    <3>1. \A v \in Window : Holds(v)' <=> Holds(v)
      <4>1. Holds(w) /\ Holds(w)'
        <5>1. r.work \in {"queue", "http"} /\ Holds(w)
          BY <1>1, <2>2 DEF Holds
        <5>. QED BY <1>2, <2>1, <5>1, HoldsAt
      <4>2. \A v \in Window : v # w => (Holds(v)' <=> Holds(v))
        BY <1>2, <2>1, HoldsAt
      <4>. QED BY <4>1, <4>2
    <3>. QED BY <1>2, <2>1, <3>1, LinesKept
  <2>. QED BY <1>3, <2>1, <2>2, <2>3, <2>4, WorkOn
<1>5. CASE ~Actionable(w)
  <2> DEFINE r == [win[w] EXCEPT !.work = "turn", !.bytes = Kept(w)]
  <2>1. win' = [win EXCEPT ![w] = r] /\ Exit(w)
    BY <1>2, <1>5 DEF Start
  <2>2. /\ r \in Job /\ r.linked = win[w].linked /\ r.valid = win[w].valid
        /\ r.old = win[w].old /\ r.completed = win[w].completed
        /\ r.task = win[w].task /\ r.work = "turn" /\ r.owns = win[w].owns
    BY <1>2, KeptIs DEF Job
  <2> HIDE DEF r
  <2>. QED BY <1>1, <1>3, <2>1, <2>2, ToTurn
<1>. QED BY <1>4, <1>5

\* A window that has its turn is behind a completed one, if need be one that it has
\* completed itself; all before that are dead, since it was old.
LEMMA TurnStep ==
  ASSUME Parameters, IInv, NEW w \in Window, Turn(w)
  PROVE  IInv'
<1> DEFINE b == Before(w)
           Ends == win[w].linked /\ ~win[b].completed
<1>1. /\ win[w].task = "perceive" /\ win[w].work = "turn"
      /\ win[w].linked => win[b].completed \/ win[b].old
      /\ win' = [v \in Window |->
           IF v = w THEN [win[v] EXCEPT !.work = "again"]
           ELSE IF Ends /\ v = b THEN [Finished(win[v]) EXCEPT !.valid = FALSE] ELSE win[v]]
      /\ UNCHANGED <<round, limit, limiter, left, history, upsets>>
  <2>1. win' = [v \in Window |->
           IF v = w THEN [win[v] EXCEPT !.work = "again"]
           ELSE IF Ends /\ v = b THEN [Finished(win[v]) EXCEPT !.valid = FALSE] ELSE win[v]]
    BY DEF Turn
  <2>. QED BY <2>1 DEF Turn, Place
<1>2. win \in [Window -> Job] /\ Stages /\ OrderOK /\ LinesOK /\ OwnsAlone /\ Marks
  BY Parts
<1>3. Ends => b \in Window /\ b # w /\ Earlier(b, w) /\ win[b].old
  <2>1. Ends => w[2] > 1
    BY <1>2 DEF Stages, StageOK
  <2>. QED BY <1>1, <2>1, Windowed DEF Earlier
<1>4. /\ win'[w] \in Job /\ win'[w].work = "again" /\ win'[w].task = "perceive"
      /\ win'[w].linked = win[w].linked /\ win'[w].valid = win[w].valid
      /\ win'[w].old = win[w].old /\ win'[w].completed = win[w].completed
      /\ win'[w].answered = win[w].answered /\ win'[w].owns = win[w].owns
  <2>1. win'[w] = [win[w] EXCEPT !.work = "again"]
    BY <1>1
  <2>. QED BY <1>1, <1>2, <2>1 DEF Job
<1>5. ASSUME Ends
      PROVE  /\ win'[b] \in Job /\ win'[b].task = win[b].task /\ win'[b].work = win[b].work
             /\ win'[b].answered = win[b].answered /\ ~win'[b].linked /\ ~win'[b].valid
             /\ win'[b].old = win[b].old /\ win'[b].owns = win[b].owns /\ win'[b].completed
  <2>1. win'[b] = [Finished(win[b]) EXCEPT !.valid = FALSE]
    BY <1>1, <1>3, <1>5
  <2>2. Finished(win[b]) \in Job /\ win[b] \in Job
    BY <1>2, <1>3, <1>5, Records
  <2>3. PICK f : f = Finished(win[b])
    OBVIOUS
  <2>4. /\ f.task = win[b].task /\ f.work = win[b].work /\ f.answered = win[b].answered
        /\ ~f.linked /\ f.old = win[b].old /\ f.owns = win[b].owns /\ f.completed
    BY <2>2, <2>3, FinishedIs
  <2>5. /\ win'[b] \in Job /\ win'[b].task = f.task /\ win'[b].work = f.work
        /\ win'[b].answered = f.answered /\ win'[b].linked = f.linked /\ ~win'[b].valid
        /\ win'[b].old = f.old /\ win'[b].owns = f.owns /\ win'[b].completed = f.completed
    BY <2>1, <2>2, <2>3 DEF Job
  <2>. QED BY <2>4, <2>5
<1>6. \A v \in Window : v # w /\ ~(Ends /\ v = b) => win'[v] = win[v]
  BY <1>1
<1> HIDE DEF b
<1>7. win' \in [Window -> Job]
  <2>1. \A v \in Window : win'[v] \in Job
    BY <1>2, <1>4, <1>5, <1>6
  <2>2. win' = [v \in Window |-> win'[v]]
    BY <1>1
  <2>. QED BY <2>1, <2>2
<1>8. /\ \A v \in Window : win[v].completed => win'[v].completed
      /\ \A v \in Window : win'[v].task = win[v].task
      /\ \A v \in Window : win'[v].owns = win[v].owns
      /\ \A v \in Window : win'[v].old = win[v].old
      /\ \A v \in Window : win'[v].answered = win[v].answered
      /\ \A v \in Window : v # w => win'[v].work = win[v].work
      /\ \A v \in Window : win'[v].linked => win[v].linked
      /\ \A v \in Window : win'[v].valid => win[v].valid
      /\ \A v \in Window : ~win'[v].completed => win'[v].linked = win[v].linked
      /\ \A v \in Window : win'[v].completed => win[v].completed \/ (Ends /\ v = b)
  <2> HIDE DEF Ends
  <2>1. ASSUME NEW v \in Window
        PROVE  /\ win[v].completed => win'[v].completed
               /\ win'[v].task = win[v].task /\ win'[v].owns = win[v].owns
               /\ win'[v].old = win[v].old /\ win'[v].answered = win[v].answered
               /\ v # w => win'[v].work = win[v].work
               /\ win'[v].linked => win[v].linked
               /\ win'[v].valid => win[v].valid
               /\ ~win'[v].completed => win'[v].linked = win[v].linked
               /\ win'[v].completed => win[v].completed \/ (Ends /\ v = b)
    <3>1. CASE v = w
      BY <1>1, <1>4, <3>1
    <3>2. CASE Ends /\ v = b
      BY <1>5, <3>2
    <3>3. CASE v # w /\ ~(Ends /\ v = b)
      BY <1>6, <3>3
    <3>. QED BY <3>1, <3>2, <3>3
  <2>. QED BY <2>1
<1>9. \A v \in Window : Dead(v) => Dead(v)'
  BY <1>8 DEF Dead
<1>10. Stages'
  <2>1. ASSUME NEW v \in Window PROVE StageOK(v)'
    <3>1. StageOK(v) /\ count' = count
      BY <1>1, <1>2 DEF Stages, round
    <3>2. CASE v = w
      BY <1>1, <1>4, <3>1, <3>2 DEF StageOK
    <3>3. CASE Ends /\ v = b
      <4>1. win[v].task # "none"
        BY <1>3, <3>1, <3>3, Records DEF StageOK
      <4>. QED BY <1>5, <3>1, <3>3, <4>1 DEF StageOK
    <3>4. CASE v # w /\ ~(Ends /\ v = b)
      BY <1>6, <3>1, <3>4 DEF StageOK
    <3>. QED BY <3>2, <3>3, <3>4
  <2>. QED BY <2>1 DEF Stages
<1>11. OrderOK'
  <2>1. KnownOK' /\ ShownOK'
    BY <1>1, <1>2, <1>8, <1>9, KnownKept, ShownKept DEF round, history
  <2>2. FirstOrAfter(w)' \/ win[w].completed
    <3>1. CASE win[w].linked
      BY <1>3, <1>5, <1>8, <3>1, Windowed DEF FirstOrAfter, Before, b, Stages, StageOK
    <3>2. CASE ~win[w].linked /\ ~win[w].completed
      <4>1. FirstOrAfter(w)
        BY <1>1, <1>2, <3>2 DEF OrderOK, TurnsOK
      <4>2. w[2] # 1 => b \in Window
        BY Windowed DEF b
      <4>. QED BY <1>8, <4>1, <4>2 DEF FirstOrAfter, Before, b
    <3>. QED BY <3>1, <3>2
  <2>3. ASSUME NEW v \in Window, win'[v].task # "none", ~win'[v].completed,
               HadTurn(v)' \/ ~win'[v].linked
        PROVE  (win[v].task # "none" /\ (HadTurn(v) \/ ~win[v].linked)) \/ FirstOrAfter(v)'
    <3>1. CASE v = w
      BY <1>8, <2>2, <2>3, <3>1
    <3>2. CASE v # w
      BY <1>8, <2>3, <3>2 DEF HadTurn
    <3>. QED BY <3>1, <3>2
  <2>4. ASSUME NEW v \in Window, win'[v].completed
        PROVE  win[v].completed \/ \A u \in Window : Earlier(u, v) => Covered(u, v[1], v[2])'
    <3>1. CASE Ends /\ v = b
      <4>1. \A u \in Window : Earlier(u, v) => Dead(u)
        BY <1>2, <1>3, <3>1 DEF OrderOK, AgesOK
      <4>. QED BY <1>9, <4>1 DEF Covered
    <3>2. CASE ~(Ends /\ v = b)
      BY <1>8, <2>4, <3>2
    <3>. QED BY <3>1, <3>2
  <2>5. slipped' = slipped
    BY <1>1 DEF history
  <2> HIDE DEF Ends
  <2>. QED BY <1>2, <1>8, <1>9, <2>1, <2>3, <2>4, <2>5, OrderKept
<1>12. LinesOK'
  <2>1. \A v \in Window : Holds(v)' <=> Holds(v)
    BY <1>1, <1>4, <1>8 DEF Holds
  <2>. QED BY <1>1, <1>2, <2>1, LinesKept
<1>13. OwnsAlone'
  BY <1>2, <1>8, OwnsKept
<1>14. Marks'
  BY <1>1, <1>2, MarksKept DEF round, history
<1>. QED BY <1>7, <1>10, <1>11, <1>12, <1>13, <1>14, Parts

(***************************************************************************)
(* The main loop.                                                          *)
(***************************************************************************)

\* Behind a completed predecessor all is well.
LEMMA CoveredBehind ==
  ASSUME Parameters, OrderOK, NEW w \in Window, FirstOrAfter(w)
  PROVE  \A u \in Window : Earlier(u, w) => Covered(u, w[1], w[2] - 1)
<1>1. SUFFICES ASSUME NEW u \in Window, Earlier(u, w) PROVE Covered(u, w[1], w[2] - 1)
  OBVIOUS
<1>2. /\ u[1] = w[1] /\ u[2] < w[2] /\ u[2] \in Nat \ {0} /\ w[2] \in Nat \ {0}
  <2>1. \A v \in Window : v[2] \in Nat \ {0}
    BY Windowed
  <2>. QED BY <1>1, <2>1 DEF Earlier
<1>3. w[2] > 1 /\ w[2] # 1
  BY <1>2
<1> DEFINE b == Before(w)
<1>4. b \in Window /\ win[b].completed /\ b[1] = w[1] /\ b[2] = w[2] - 1
  BY <1>3, Windowed DEF FirstOrAfter, Before
<1>5. CASE u[2] = w[2] - 1
  <2>1. u = b
    BY <1>2, <1>4, <1>5, Windowed
  <2>. QED BY <1>4, <2>1 DEF Covered, Dead
<1>6. CASE u[2] < w[2] - 1
  <2>1. Earlier(u, b)
    BY <1>2, <1>4, <1>6 DEF Earlier
  <2>2. Covered(u, b[1], b[2])
    BY <1>4, <2>1 DEF OrderOK, DoneOK
  <2>. QED BY <1>4, <2>2
<1>. QED BY <1>2, <1>5, <1>6

LEMMA CoveredGrows ==
  ASSUME NEW u \in Window, NEW c, NEW n \in Nat, Covered(u, c, n - 1), Parameters,
         slipped \subseteq Window, slipped \subseteq slipped', Dead(u) => Dead(u)'
  PROVE  Covered(u, c, n)'
<1>1. \A s \in slipped : s[2] \in Nat /\ (s[2] <= n - 1 => s[2] <= n)
  BY Windowed
<1>. QED BY <1>1 DEF Covered

\* A window that is over is completed; if its predecessor was not, it slipped.
LEMMA GoneStep ==
  ASSUME Parameters, IInv, NEW w \in Window, win[w].task # "none",
         win' = [win EXCEPT ![w] = Gone], UNCHANGED <<round, shown>>, slipped \subseteq slipped',
         win[w].completed \/ (win[w].linked /\ ~win[Before(w)].completed => w \in slipped')
  PROVE  win' \in [Window -> Job] /\ Stages' /\ OwnsAlone' /\ OrderOK'
<1>1. win \in [Window -> Job] /\ Stages /\ OrderOK /\ OwnsAlone /\ slipped \subseteq Window
  BY Parts DEF Marks
<1>2. /\ win' \in [Window -> Job] /\ win'[w] = Gone
      /\ \A v \in Window : v # w => win'[v] = win[v]
  BY <1>1, Records
<1>3. /\ win'[w].task = "over" /\ win'[w].work = "over" /\ win'[w].completed /\ ~win'[w].owns
      /\ win'[w].valid /\ ~win'[w].old /\ ~win'[w].linked /\ ~win'[w].answered
  BY <1>2, Records
<1>4. Stages'
  <2>1. ASSUME NEW v \in Window PROVE StageOK(v)'
    <3>1. StageOK(v) /\ count' = count
      BY <1>1 DEF Stages, round
    <3>2. CASE v = w
      BY <1>3, <3>1, <3>2 DEF StageOK
    <3>3. CASE v # w
      BY <1>2, <3>1, <3>3 DEF StageOK
    <3>. QED BY <3>2, <3>3
  <2>. QED BY <2>1 DEF Stages
<1>5. OwnsAlone'
  <2>1. \A v \in Window : win'[v].owns => win[v].owns
    BY <1>2, <1>3
  <2>. QED BY <1>1, <2>1, OwnsKept
<1>6. /\ \A v \in Window : win[v].completed => win'[v].completed
      /\ \A v \in Window : Dead(v) => Dead(v)'
      /\ \A v \in Window : win'[v].task # "none" => win[v].task # "none"
      /\ \A v \in Window : win'[v].old => win[v].old
  <2>1. ASSUME NEW v \in Window
        PROVE  /\ win[v].completed => win'[v].completed
               /\ Dead(v) => Dead(v)'
               /\ win'[v].task # "none" => win[v].task # "none"
               /\ win'[v].old => win[v].old
    <3>1. CASE v = w
      BY <1>3, <3>1 DEF Dead
    <3>2. CASE v # w
      BY <1>2, <3>2 DEF Dead
    <3>. QED BY <3>1, <3>2
  <2>. QED BY <2>1
<1>7. KnownOK' /\ ShownOK'
  BY <1>1, <1>6, KnownKept, ShownKept DEF round
<1>8. ASSUME NEW v \in Window, win'[v].task # "none", ~win'[v].completed,
             HadTurn(v)' \/ ~win'[v].linked
      PROVE  win[v].task # "none" /\ (HadTurn(v) \/ ~win[v].linked)
  <2>1. v # w
    BY <1>3, <1>8
  <2>. QED BY <1>2, <1>8, <2>1 DEF HadTurn
<1>9. ASSUME NEW v \in Window, win'[v].completed, ~win[v].completed
      PROVE  \A u \in Window : Earlier(u, v) => Covered(u, v[1], v[2])'
  <2>1. v = w
    BY <1>2, <1>9
  <2>2. CASE w \in slipped'
    BY <1>1, <2>1, <2>2, Windowed DEF Covered, Earlier
  <2>3. CASE w \notin slipped'
    <3>1. FirstOrAfter(w)
      <4>1. CASE win[w].linked
        BY <1>9, <2>1, <2>3, <4>1 DEF FirstOrAfter
      <4>2. CASE ~win[w].linked
        BY <1>1, <1>9, <2>1, <4>2 DEF OrderOK, TurnsOK
      <4>. QED BY <4>1, <4>2
    <3>2. ASSUME NEW u \in Window, Earlier(u, w) PROVE Covered(u, w[1], w[2])'
      <4>1. Covered(u, w[1], w[2] - 1)
        BY <1>1, <3>1, <3>2, CoveredBehind
      <4>2. w[2] \in Nat
        BY Windowed
      <4>. QED BY <1>1, <1>6, <4>1, <4>2, CoveredGrows
    <3>. QED BY <2>1, <3>2
  <2>. QED BY <2>2, <2>3
<1>10. OrderOK'
  BY <1>1, <1>6, <1>7, <1>8, <1>9, OrderKept
<1>. QED BY <1>2, <1>4, <1>5, <1>10

\* A task ends when its coroutine is over, or has only waited for the lock.
LEMMA EndStep ==
  ASSUME Parameters, IInv, NEW w \in Window, win[w].task # "none", ~Holds(w), End(w),
         UNCHANGED <<round, limit, limiter, left, shown>>
  PROVE  IInv'
<1>1. win \in [Window -> Job] /\ LinesOK /\ Marks
  BY Parts
<1>2. /\ win' = [win EXCEPT ![w] = Gone] /\ slipped \subseteq slipped'
      /\ slipped' \subseteq slipped \cup {w}
      /\ win[w].linked /\ ~win[Before(w)].completed => w \in slipped'
  BY DEF End
<1>3. win' \in [Window -> Job] /\ Stages' /\ OwnsAlone' /\ OrderOK'
  BY <1>2, GoneStep
<1>4. LinesOK'
  <2>1. ~Holds(w)'
    BY <1>1, <1>2, HoldsAt, Records
  <2>2. \A v \in Window : Holds(v)' <=> Holds(v)
    BY <1>1, <1>2, <2>1, HoldsAt
  <2>. QED BY <1>1, <2>2, LinesKept
<1>5. Marks'
  BY <1>1, <1>2 DEF Marks, round
<1>. QED BY <1>3, <1>4, <1>5, Parts

LEMMA OverStep ==
  ASSUME Parameters, IInv, NEW w \in Window, Fail(w) \/ Nothing(w) \/ EffectsEnd(w)
  PROVE  IInv'
<1>1. StageOK(w)
  BY Parts DEF Stages
<1>2. CASE Fail(w) \/ Nothing(w)
  BY <1>2, EndStep DEF Fail, Nothing, Place, Holds
<1>3. CASE EffectsEnd(w)
  <2>1. win[w].task = "effects" /\ ~Holds(w)
    BY <1>1, <1>3 DEF EffectsEnd, StageOK, Holds
  <2>. QED BY <1>3, <2>1, EndStep DEF EffectsEnd
<1>. QED BY <1>2, <1>3

LEMMA StopStep ==
  ASSUME Parameters, IInv, NEW w \in Window, Stop(w)
  PROVE  IInv'
<1>1. /\ win \in [Window -> Job] /\ LinesOK /\ Marks /\ StageOK(w)
  BY Parts DEF Stages
<1>2. /\ win[w].task = "over" /\ win' = [win EXCEPT ![w] = Gone]
      /\ left' = left \cup IF win[w].work = "prepare" THEN {w} ELSE {}
      /\ IF Holds(w) THEN Exit(w) ELSE limiter' = limiter
      /\ UNCHANGED <<round, limit, history>>
  BY DEF Stop
<1>3. win' \in [Window -> Job] /\ Stages' /\ OwnsAlone' /\ OrderOK'
  BY <1>1, <1>2, GoneStep DEF StageOK, history
<1>4. LinesOK'
  <2>1. ~Holds(w)' /\ \A v \in Window : v # w => (Holds(v)' <=> Holds(v))
    BY <1>1, <1>2, HoldsAt, Records
  <2>2. CASE Holds(w)
    BY <1>1, <1>2, <2>1, <2>2, LinesLeave DEF Exit
  <2>3. CASE ~Holds(w)
    <3>1. \A v \in Window : Holds(v)' <=> Holds(v)
      BY <2>1, <2>3
    <3>. QED BY <1>1, <1>2, <2>3, <3>1, LinesKept
  <2>. QED BY <2>2, <2>3
<1>5. Marks'
  BY <1>1, <1>2 DEF Marks, round, history
<1>. QED BY <1>3, <1>4, <1>5, Parts

\* A rule is told of a window only when all windows before it are dead or behind one that
\* slipped.
LEMMA EffectStep ==
  ASSUME Parameters, IInv, NEW w \in Window, Effect(w)
  PROVE  IInv'
<1>1. /\ win[w].task = "effects" /\ Actionable(w) /\ shown' = [shown EXCEPT ![w[1]] = w[2]]
      /\ UNCHANGED <<win, round, limit, limiter, left, slipped, upsets>>
  BY DEF Effect
<1>2. /\ win \in [Window -> Job] /\ LinesOK /\ Marks /\ StageOK(w) /\ Stages /\ OwnsAlone
      /\ OrderOK
  BY Parts DEF Stages
<1>3. FirstOrAfter(w)
  BY <1>1, <1>2 DEF StageOK, Actionable, OrderOK, TurnsOK, HadTurn
<1>4. \A u \in Window : Earlier(u, w) => Covered(u, w[1], w[2] - 1)
  BY <1>2, <1>3, CoveredBehind
<1>5. w[1] \in Camera /\ w[2] \in 0 .. MaxWindows
  BY Windowed
<1>6. Marks'
  BY <1>1, <1>2, <1>5 DEF Marks, round
<1>7. \A u \in Window : \A c, n : Covered(u, c, n)' <=> Covered(u, c, n)
  BY <1>1 DEF Covered, Dead
<1>8. ShownOK'
  <2>1. SUFFICES ASSUME NEW u \in Window, u[2] < shown'[u[1]]
                 PROVE  Covered(u, u[1], shown'[u[1]] - 1)
    BY <1>7 DEF ShownOK
  <2>2. u[1] \in Camera /\ shown \in [Camera -> 0 .. MaxWindows]
    BY <1>2, Windowed DEF Marks
  <2>3. CASE u[1] = w[1]
    <3>1. shown'[u[1]] = w[2]
      BY <1>1, <2>2, <2>3
    <3>. QED BY <1>4, <2>1, <2>3, <3>1 DEF Earlier
  <2>4. CASE u[1] # w[1]
    <3>1. shown'[u[1]] = shown[u[1]]
      BY <1>1, <2>2, <2>4
    <3>. QED BY <1>2, <2>1, <3>1 DEF OrderOK, ShownOK
  <2>. QED BY <2>3, <2>4
<1>9. OrderOK'
  BY <1>1, <1>2, <1>7, <1>8 DEF OrderOK, KnownOK, TurnsOK, HadTurn, FirstOrAfter, AgesOK, DoneOK, Dead,
        round
<1>10. LinesOK' /\ OwnsAlone' /\ Stages'
  BY <1>1, <1>2 DEF LinesOK, OwnsAlone, Stages, StageOK, Holds, round
<1>. QED BY <1>1, <1>2, <1>6, <1>9, <1>10, Parts

(***************************************************************************)
(* Windows that are cancelled, and the world.                              *)
(***************************************************************************)

LEMMA Born ==
  ASSUME Stages, NEW w \in Window
  PROVE  /\ win[w].task # "none" <=> ~(w[2] > count[w[1]])
         /\ win[w].task = "over" => win[w].completed
BY DEF Stages, StageOK

\* An earlier window than one under way is under way as well, or over and completed.
LEMMA EarlierIsBorn ==
  ASSUME Parameters, IInv, NEW w \in Live, NEW u \in Window, Earlier(u, w), u \notin Live
  PROVE  win[u].completed
<1>1. Stages /\ w \in Window /\ win[w].task # "none" /\ win \in [Window -> Job]
  BY Parts DEF Live
<1>2. u[1] = w[1] /\ ~(u[2] > count[u[1]])
  <2>1. ~(w[2] > count[w[1]]) /\ u[2] < w[2] /\ u[1] = w[1]
    BY <1>1, Born DEF Earlier
  <2>2. u[2] \in Nat /\ w[2] \in Nat /\ w[1] \in Camera
    BY <1>1, Windowed
  <2>3. count[w[1]] \in Nat
    BY <2>2, Windowed, Parts DEF Marks
  <2>. QED BY <2>1, <2>2, <2>3
<1>3. win[u].task = "over"
  <2>1. win[u].task # "none"
    BY <1>1, <1>2, Born
  <2>2. win[u].task \in {"none", "perceive", "effects", "over"}
    BY <1>1 DEF Job
  <2>. QED BY <2>1, <2>2 DEF Live
<1>. QED BY <1>1, <1>3, Born

\* w is asked to stop.
Dropped(w) ==
  /\ win'[w] \in Job /\ win'[w].task = "over" /\ win'[w].work = win[w].work
  /\ win'[w].completed /\ ~win'[w].linked
  /\ win'[w].answered => win[w].answered /\ win[w].work # "over"
  /\ win'[w].old => win[w].old
  /\ win'[w].owns => win[w].owns

LEMMA CancelledDrops ==
  ASSUME win \in [Window -> Job], NEW w \in Window, win'[w] = Cancelled(win[w])
  PROVE  Dropped(w)
<1>1. win[w] \in Job
  OBVIOUS
<1>. QED BY <1>1, CancelledIs, Records DEF Dropped

LEMMA DroppedStage ==
  ASSUME NEW w \in Window, Dropped(w), StageOK(w), ~(w[2] > count'[w[1]])
  PROVE  StageOK(w)'
BY DEF Dropped, StageOK

\* Some windows that are under way are cancelled: the one that is too old, or all of a
\* camera.
LEMMA CancelStep ==
  ASSUME Parameters, IInv, NEW X \in SUBSET Live, \A w \in X : Dropped(w),
         \A w \in Window \ X : /\ win'[w] \in Job /\ win'[w].task = win[w].task
                               /\ win'[w].work = win[w].work
                               /\ win'[w].answered = win[w].answered
                               /\ win'[w].linked = win[w].linked
                               /\ win'[w].valid = win[w].valid /\ win'[w].old = win[w].old
                               /\ win'[w].completed = win[w].completed
                               /\ win'[w].owns = win[w].owns \/ (~win'[w].owns /\ w \notin Live)
                               /\ win[w].task = "none" => win'[w] = win[w],
         win' = [w \in Window |-> win'[w]],
         UNCHANGED <<count, moved, limit, limiter, left, history>>,
         known' = known \/ (known' = {} /\ X = Live),
         \A w \in X : win[w].old \/ \A u \in Window : Earlier(u, w) => win'[u].completed
  PROVE  IInv'
<1>1. /\ win \in [Window -> Job] /\ LinesOK /\ Marks /\ Stages /\ OwnsAlone /\ OrderOK
  BY Parts
<1>2. win' \in [Window -> Job]
  BY DEF Dropped, Live
<1>3. /\ \A w \in Window : win[w].completed => win'[w].completed
      /\ \A w \in Window : Dead(w) => Dead(w)'
      /\ \A w \in Window : win'[w].task # "none" <=> win[w].task # "none"
      /\ \A w \in Window : win'[w].old => win[w].old
      /\ \A w \in Window : win'[w].owns => win[w].owns
      /\ \A w \in Window : win'[w].work = win[w].work
  <2>1. ASSUME NEW w \in Window
        PROVE  /\ win[w].completed => win'[w].completed
               /\ Dead(w) => Dead(w)'
               /\ win'[w].task # "none" <=> win[w].task # "none"
               /\ win'[w].old => win[w].old
               /\ win'[w].owns => win[w].owns
               /\ win'[w].work = win[w].work
    <3>1. CASE w \in X
      BY <3>1 DEF Dropped, Dead, Live
    <3>2. CASE w \notin X
      BY <3>2 DEF Dead
    <3>. QED BY <3>1, <3>2
  <2>. QED BY <2>1
<1>4. Stages'
  <2>1. ASSUME NEW w \in Window PROVE StageOK(w)'
    <3>1. StageOK(w)
      BY <1>1 DEF Stages
    <3>2. CASE w \in X
      <4>1. ~(w[2] > count'[w[1]])
        BY <1>1, <3>2, Born DEF Live
      <4>. QED BY <3>1, <3>2, <4>1, DroppedStage
    <3>3. CASE w \notin X
      BY <3>1, <3>3 DEF StageOK, Live
    <3>. QED BY <3>2, <3>3
  <2>. QED BY <2>1 DEF Stages
<1>5. OwnsAlone'
  BY <1>1, <1>3, OwnsKept
<1>6. LinesOK'
  <2>1. \A v \in Window : Holds(v)' <=> Holds(v)
    BY <1>3 DEF Holds
  <2>. QED BY <1>1, <2>1, LinesKept
<1>7. Marks'
  BY <1>1 DEF Marks, history
<1>8. ShownOK'
  BY <1>1, <1>3, ShownKept DEF history
<1>9. KnownOK'
  <2>1. CASE known' = known
    BY <1>1, <1>3, <2>1, KnownKept
  <2>2. CASE known' = {} /\ X = Live
    <3>1. ASSUME NEW w \in Window, win'[w].task # "none" PROVE win'[w].completed
      <4>1. CASE w \in X
        BY <4>1 DEF Dropped
      <4>2. CASE w \notin X
        <5>1. win[w].task \in {"none", "perceive", "effects", "over"}
          BY <1>1 DEF Job
        <5>2. win[w].task = "over"
          BY <1>3, <2>2, <3>1, <4>2, <5>1 DEF Live
        <5>. QED BY <1>1, <1>3, <5>2, Born
      <4>. QED BY <4>1, <4>2
    <3>. QED BY <2>2, <3>1 DEF KnownOK
  <2>. QED BY <2>1, <2>2
<1>10. ASSUME NEW v \in Window, win'[v].task # "none", ~win'[v].completed,
              HadTurn(v)' \/ ~win'[v].linked
       PROVE  win[v].task # "none" /\ (HadTurn(v) \/ ~win[v].linked)
  <2>1. v \notin X
    BY <1>10 DEF Dropped
  <2>. QED BY <1>10, <2>1 DEF HadTurn
<1>11. ASSUME NEW v \in Window, win'[v].completed, ~win[v].completed
       PROVE  \A u \in Window : Earlier(u, v) => Covered(u, v[1], v[2])'
  <2>1. v \in X
    BY <1>11
  <2>2. CASE win[v].old
    <3>1. \A u \in Window : Earlier(u, v) => Dead(u)
      BY <1>1, <2>2 DEF OrderOK, AgesOK
    <3>. QED BY <1>3, <3>1 DEF Covered
  <2>3. CASE ~win[v].old
    BY <2>1, <2>3 DEF Covered, Dead
  <2>. QED BY <2>2, <2>3
<1>12. slipped' = slipped
  BY DEF history
<1>13. OrderOK'
  BY <1>1, <1>3, <1>8, <1>9, <1>10, <1>11, <1>12, OrderKept
<1>. QED BY <1>2, <1>4, <1>5, <1>6, <1>7, <1>13, Parts

LEMMA DeadlineStep ==
  ASSUME Parameters, IInv, NEW w \in Window, Deadline(w)
  PROVE  IInv'
<1>1. win \in [Window -> Job]
  BY Parts
<1>2. /\ w \in Live /\ win[w].old /\ win' = [win EXCEPT ![w] = Cancelled(win[w])]
      /\ UNCHANGED <<count, moved, limit, limiter, left, history>> /\ known' = known
  BY <1>1 DEF Deadline, round
<1>3. win'[w] = Cancelled(win[w]) /\ \A v \in Window : v # w => win'[v] = win[v]
  BY <1>1, <1>2
<1>4. Dropped(w) /\ {w} \in SUBSET Live /\ win' = [v \in Window |-> win'[v]]
  BY <1>1, <1>2, <1>3, CancelledDrops
<1> DEFINE X == {w}
<1>5. \A v \in X : v = w /\ Dropped(v) /\ win[v].old
  BY <1>2, <1>4
<1>6. \A v \in Window \ X : win'[v] = win[v] /\ win'[v] \in Job
  BY <1>1, <1>3
<1> HIDE DEF X
<1>7. X \in SUBSET Live
  BY <1>4 DEF X
<1>. QED BY <1>2, <1>4, <1>5, <1>6, <1>7, CancelStep

LEMMA RestartStep ==
  ASSUME Parameters, IInv, Restart
  PROVE  IInv'
<1>1. win \in [Window -> Job]
  BY Parts
<1>2. /\ win' = [w \in Window |->
           [(IF w \in Live THEN Cancelled(win[w]) ELSE win[w]) EXCEPT !.owns = FALSE]]
      /\ UNCHANGED <<count, moved, limit, limiter, left, history>> /\ known' = {}
  BY DEF Restart
<1>3. ASSUME NEW w \in Live PROVE Dropped(w)
  <2>1. w \in Window /\ win'[w] = [Cancelled(win[w]) EXCEPT !.owns = FALSE]
    BY <1>2 DEF Live
  <2>2. Cancelled(win[w]) \in Job /\ win[w] \in Job
    BY <1>1, <2>1, Records
  <2>3. /\ win'[w].task = Cancelled(win[w]).task /\ win'[w].work = Cancelled(win[w]).work
        /\ win'[w].completed = Cancelled(win[w]).completed
        /\ win'[w].linked = Cancelled(win[w]).linked
        /\ win'[w].answered = Cancelled(win[w]).answered
        /\ win'[w].old = Cancelled(win[w]).old /\ ~win'[w].owns /\ win'[w] \in Job
    BY <2>1, <2>2 DEF Job
  <2>. QED BY <2>2, <2>3, CancelledIs DEF Dropped
<1>4. ASSUME NEW w \in Window \ Live
      PROVE  /\ win'[w] \in Job /\ win'[w].task = win[w].task /\ win'[w].work = win[w].work
             /\ win'[w].answered = win[w].answered /\ win'[w].linked = win[w].linked
             /\ win'[w].valid = win[w].valid /\ win'[w].old = win[w].old
             /\ win'[w].completed = win[w].completed /\ ~win'[w].owns
             /\ win[w].task = "none" => win'[w] = win[w]
  <2>1. win'[w] = [win[w] EXCEPT !.owns = FALSE] /\ win[w] \in Job
    BY <1>1, <1>2
  <2>2. win[w].task = "none" => win'[w] = win[w]
    <3>1. ASSUME win[w].task = "none" PROVE win'[w] = win[w]
      <4>1. win[w] = Unborn
        BY <3>1, Parts DEF Stages, StageOK
      <4>2. ASSUME NEW r \in Job, r.owns = FALSE PROVE [r EXCEPT !.owns = FALSE] = r
        BY <4>2 DEF Job
      <4>3. Unborn \in Job /\ Unborn.owns = FALSE
        BY Records DEF Unborn
      <4>. QED BY <2>1, <4>1, <4>2, <4>3
    <3>. QED BY <3>1
  <2>. QED BY <2>1, <2>2 DEF Job
<1>5. win' = [w \in Window |-> win'[w]]
  BY <1>2
<1>6. ASSUME NEW w \in Live, NEW u \in Window, Earlier(u, w) PROVE win'[u].completed
  <2>1. CASE u \in Live
    BY <1>3, <2>1 DEF Dropped
  <2>2. CASE u \notin Live
    <3>1. win[u].completed
      BY <1>6, <2>2, EarlierIsBorn
    <3>. QED BY <1>4, <2>2, <3>1
  <2>. QED BY <2>1, <2>2
<1>7. PICK X \in SUBSET Live : X = Live
  OBVIOUS
<1>8. \A w \in X : Dropped(w)
  BY <1>3, <1>7
<1>9. \A w \in Window \ X :
        /\ win'[w] \in Job /\ win'[w].task = win[w].task /\ win'[w].work = win[w].work
        /\ win'[w].answered = win[w].answered /\ win'[w].linked = win[w].linked
        /\ win'[w].valid = win[w].valid /\ win'[w].old = win[w].old
        /\ win'[w].completed = win[w].completed
        /\ win'[w].owns = win[w].owns \/ (~win'[w].owns /\ w \notin Live)
        /\ win[w].task = "none" => win'[w] = win[w]
  BY <1>4, <1>7
<1>10. \A w \in X : win[w].old \/ \A u \in Window : Earlier(u, w) => win'[u].completed
  BY <1>6, <1>7
<1>11. known' = known \/ (known' = {} /\ X = Live)
  BY <1>2, <1>7
<1>12. UNCHANGED <<count, moved, limit, limiter, left, history>>
  BY <1>2
<1>. QED BY <1>5, <1>7, <1>8, <1>9, <1>10, <1>11, <1>12, CancelStep

\* Windows get old, or no longer count.
Fades(w) ==
  /\ win'[w] \in Job /\ win'[w].task = win[w].task /\ win'[w].work = win[w].work
  /\ win'[w].answered = win[w].answered /\ win'[w].linked = win[w].linked
  /\ win'[w].valid => win[w].valid
  /\ win[w].old => win'[w].old
  /\ win'[w].completed = win[w].completed /\ win'[w].owns = win[w].owns
  /\ win[w].task = "none" => win'[w] = win[w]
  /\ win'[w].old => win[w].old \/ \A u \in Window : Earlier(u, w) => Dead(u)

LEMMA FadeStep ==
  ASSUME Parameters, IInv, \A w \in Window : Fades(w), win' = [w \in Window |-> win'[w]],
         UNCHANGED <<round, limit, limiter, left, history>>
  PROVE  IInv'
<1>1. /\ win \in [Window -> Job] /\ LinesOK /\ Marks /\ Stages /\ OwnsAlone /\ OrderOK
  BY Parts
<1>2. win' \in [Window -> Job]
  BY DEF Fades
<1>3. /\ count' = count /\ known' = known /\ slipped' = slipped /\ shown' = shown
  BY DEF round, history
<1>4. /\ \A w \in Window : win[w].completed => win'[w].completed
      /\ \A w \in Window : Dead(w) => Dead(w)'
      /\ \A w \in Window : win'[w].task # "none" => win[w].task # "none"
      /\ \A w \in Window : win'[w].owns => win[w].owns
  BY DEF Fades, Dead
<1>5. Stages'
  <2>1. ASSUME NEW w \in Window PROVE StageOK(w)'
    BY <1>1, <1>3 DEF Stages, StageOK, Fades
  <2>. QED BY <2>1 DEF Stages
<1>6. OwnsAlone'
  BY <1>1, <1>4, OwnsKept
<1>7. LinesOK'
  <2>1. \A v \in Window : Holds(v)' <=> Holds(v)
    BY DEF Holds, Fades
  <2>. QED BY <1>1, <2>1, LinesKept
<1>8. Marks'
  BY <1>1, MarksKept DEF round, history
<1>9. KnownOK' /\ ShownOK'
  BY <1>1, <1>3, <1>4, KnownKept, ShownKept
<1>10. ASSUME NEW v \in Window, win'[v].task # "none", HadTurn(v)' \/ ~win'[v].linked
       PROVE  win[v].task # "none" /\ (HadTurn(v) \/ ~win[v].linked)
  BY <1>10 DEF Fades, HadTurn
<1>11. ASSUME NEW v \in Window, win'[v].old
       PROVE  win[v].old \/ \A u \in Window : Earlier(u, v) => Dead(u)'
  BY <1>4, <1>11 DEF Fades
<1>12. \A v \in Window : win'[v].completed => win[v].completed
  BY DEF Fades
<1>13. OrderOK'
  BY <1>1, <1>3, <1>4, <1>9, <1>10, <1>11, <1>12, OrderKept
<1>. QED BY <1>2, <1>5, <1>6, <1>7, <1>8, <1>13, Parts

LEMMA AgeStep ==
  ASSUME Parameters, IInv, NEW w \in Window, Age(w)
  PROVE  IInv'
<1>1. win \in [Window -> Job]
  BY Parts
<1>2. /\ w \in Live /\ \A v \in Live \cap Of(w[1]) : v[2] < w[2] => win[v].old
      /\ win' = [win EXCEPT ![w].old = TRUE]
      /\ UNCHANGED <<round, limit, limiter, left, history>>
  BY DEF Age
<1>3. \A u \in Window : Earlier(u, w) => Dead(u)
  <2>1. ASSUME NEW u \in Window, Earlier(u, w) PROVE Dead(u)
    <3>1. CASE u \in Live
      BY <1>2, <2>1, <3>1 DEF Of, Earlier, Dead
    <3>2. CASE u \notin Live
      BY <1>2, <2>1, <3>2, EarlierIsBorn DEF Dead
    <3>. QED BY <3>1, <3>2
  <2>. QED BY <2>1
<1>4. ASSUME NEW v \in Window PROVE Fades(v)
  <2>1. CASE v = w
    <3>1. win[w] \in Job /\ win[w].task # "none" /\ win'[w] = [win[w] EXCEPT !.old = TRUE]
      BY <1>1, <1>2 DEF Live
    <3>2. PICK q \in Job : q = win[w]
      BY <3>1
    <3>3. PICK n : n = [q EXCEPT !.old = TRUE]
      OBVIOUS
    <3>4. /\ n \in Job /\ n.task = q.task /\ n.work = q.work /\ n.answered = q.answered
          /\ n.linked = q.linked /\ n.valid = q.valid /\ n.old
          /\ n.completed = q.completed /\ n.owns = q.owns
      BY <3>3 DEF Job
    <3>5. /\ win'[w] \in Job /\ win'[w].task = win[w].task /\ win'[w].work = win[w].work
          /\ win'[w].answered = win[w].answered /\ win'[w].linked = win[w].linked
          /\ win'[w].valid = win[w].valid /\ win'[w].old
          /\ win'[w].completed = win[w].completed /\ win'[w].owns = win[w].owns
      BY <3>1, <3>2, <3>3, <3>4, Zenon
    <3>. QED BY <1>3, <2>1, <3>1, <3>5 DEF Fades
  <2>2. CASE v # w
    BY <1>1, <1>2, <2>2 DEF Fades
  <2>. QED BY <2>1, <2>2
<1>5. win' = [v \in Window |-> win'[v]]
  BY <1>1, <1>2
<1>. QED BY <1>2, <1>4, <1>5, FadeStep

LEMMA SwitchModelStep ==
  ASSUME Parameters, IInv, SwitchModel
  PROVE  IInv'
<1>1. win \in [Window -> Job]
  BY Parts
<1>2. /\ win' = [w \in Window |-> [win[w] EXCEPT !.valid =
           @ /\ ~(w \in Live /\ win[w].work \notin {"lock", "prepare"})]]
      /\ UNCHANGED <<round, limit, limiter, left, history>>
  BY DEF SwitchModel
<1>3. ASSUME NEW v \in Window PROVE Fades(v)
  <2>1. CASE v \in Live /\ win[v].work \notin {"lock", "prepare"}
    <3>1. win'[v] = [win[v] EXCEPT !.valid = FALSE] /\ win[v].task # "none" /\ win[v] \in Job
      BY <1>1, <1>2, <2>1 DEF Live
    <3>. QED BY <3>1 DEF Fades, Job
  <2>2. CASE ~(v \in Live /\ win[v].work \notin {"lock", "prepare"})
    <3>1. win'[v] = [win[v] EXCEPT !.valid = @] /\ win[v] \in Job
      BY <1>1, <1>2, <2>2 DEF Job
    <3>2. win'[v] = win[v]
      BY <3>1 DEF Job
    <3>. QED BY <3>1, <3>2 DEF Fades
  <2>. QED BY <2>1, <2>2
<1>4. win' = [v \in Window |-> win'[v]]
  BY <1>2
<1>. QED BY <1>2, <1>3, <1>4, FadeStep

LEMMA Elsewhere ==
  ASSUME IInv, UNCHANGED <<win, count, known, limiter, history>>,
         moved' \subseteq Camera, limit' \in Limits, left' \subseteq Window
  PROVE  IInv'
<1>1. /\ win \in [Window -> Job] /\ LinesOK /\ Marks /\ Stages /\ OwnsAlone /\ OrderOK
  BY Parts
<1>2. shown' = shown /\ slipped' = slipped
  BY DEF history
<1>3. Marks'
  BY <1>1, <1>2 DEF Marks
<1>4. LinesOK' /\ OwnsAlone' /\ Stages'
  BY <1>1 DEF LinesOK, OwnsAlone, Stages, StageOK, Holds
<1>5. OrderOK'
  BY <1>1, <1>2 DEF OrderOK, KnownOK, ShownOK, Covered, TurnsOK, HadTurn, FirstOrAfter, AgesOK, DoneOK, Dead
<1>. QED BY <1>1, <1>3, <1>4, <1>5, Parts

LEMMA WorldStep ==
  ASSUME IInv, \/ \E c \in Camera : Reconnect(c)
               \/ SetLimit \/ Silence
               \/ \E w \in Window : Analysed(w)
  PROVE  IInv'
<1>1. Marks
  BY Parts
<1>2. ASSUME NEW c \in Camera, Reconnect(c) PROVE IInv'
  BY <1>1, <1>2, Elsewhere DEF Reconnect, Marks
<1>3. CASE SetLimit
  BY <1>1, <1>3, Elsewhere DEF SetLimit, Marks, round
<1>4. CASE Silence
  BY <1>1, <1>4, Elsewhere DEF Silence, vars, Marks, round
<1>5. ASSUME NEW w \in Window, Analysed(w) PROVE IInv'
  BY <1>1, <1>5, Elsewhere DEF Analysed, Marks, round
<1>. QED BY <1>2, <1>3, <1>4, <1>5

\* A new window follows the last one of its camera, unless that is completed, or is not
\* known any more; and then nothing of the camera is under way.
LEMMA AdmitStep ==
  ASSUME Parameters, IInv, NEW c \in Camera, Admit(c)
  PROVE  IInv'
<1>30. PICK new : new = <<c, count[c] + 1>>
  OBVIOUS
<1>31. PICK broken \in BOOLEAN : broken <=> c \in known /\ c \in moved
  OBVIOUS
<1>32. PICK link \in BOOLEAN : link <=> c \in known /\ ~broken /\ ~win[Before(new)].completed
  OBVIOUS
<1>33. PICK first :
         first = [Unborn EXCEPT !.task = "perceive", !.work = "lock", !.linked = link]
  OBVIOUS
<1>34. PICK X : X = IF broken THEN Live \cap Of(c) ELSE {}
  OBVIOUS
<1>1. /\ win \in [Window -> Job] /\ LinesOK /\ Marks /\ Stages /\ OwnsAlone /\ OrderOK
  BY Parts
<1>2. /\ count[c] < MaxWindows
      /\ win' = [w \in Window |-> IF w = new THEN first
                                  ELSE IF w \in X THEN Cancelled(win[w]) ELSE win[w]]
      /\ count' = [count EXCEPT ![c] = @ + 1]
      /\ known' = known \cup {c} /\ moved' = moved \ {c}
      /\ UNCHANGED <<limit, limiter, left, history>>
  <2>1. (c \in known /\ ~(c \in known /\ c \in moved)
          /\ ~win[Before(<<c, count[c] + 1>>)].completed) = link
    BY <1>30, <1>31, <1>32
  <2>2. \A w : w \in X <=> (c \in known /\ c \in moved) /\ w \in Live \cap Of(c)
    BY <1>31, <1>34
  <2>3. win' = [w \in Window |-> IF w = new THEN first
                                ELSE IF w \in X THEN Cancelled(win[w]) ELSE win[w]]
    BY <1>30, <1>33, <2>1, <2>2 DEF Admit
  <2>. QED BY <2>3 DEF Admit
<1>3. /\ count[c] \in Nat /\ count[c] + 1 \in 1 .. MaxWindows /\ new \in Window
      /\ new[1] = c /\ new[2] = count[c] + 1
  <2>1. count[c] \in 0 .. MaxWindows /\ MaxWindows \in Nat
    BY <1>1, Windowed DEF Marks
  <2>. QED BY <1>2, <1>30, <2>1 DEF Window
<1>4. win[new] = Unborn /\ new \notin X
  <2>1. win[new].task = "none" /\ win[new] = Unborn
    BY <1>1, <1>3 DEF Stages, StageOK
  <2>. QED BY <1>34, <2>1 DEF Live
<1>5. link \in BOOLEAN /\ (link => c \in known /\ ~broken /\ ~win[Before(new)].completed)
  BY <1>32
<1>6. /\ first \in Job /\ first.task = "perceive" /\ first.work = "lock" /\ ~first.completed
      /\ ~first.owns /\ first.valid /\ ~first.old /\ first.linked = link /\ ~first.answered
  <2>1. Unborn \in Job
    BY Records
  <2>. QED BY <1>33, <2>1, Records DEF Job
<1>7. /\ win'[new] = first
      /\ \A w \in X : w \in Window /\ win'[w] = Cancelled(win[w])
      /\ \A w \in Window : w # new /\ w \notin X => win'[w] = win[w]
  BY <1>2, <1>3, <1>4, <1>34 DEF Live
<1>8. \A w \in X : Dropped(w) /\ w \in Live /\ w[1] = c /\ broken
  BY <1>1, <1>7, <1>34, CancelledDrops DEF Of
<1>9. win' \in [Window -> Job]
  <2>1. \A w \in Window : win'[w] \in Job
    BY <1>1, <1>6, <1>7, <1>8 DEF Dropped
  <2>2. win' = [w \in Window |-> win'[w]]
    BY <1>2
  <2>. QED BY <2>1, <2>2
<1>10. \A w \in Window : w # new => (w[2] > count'[w[1]] <=> w[2] > count[w[1]])
  <2>1. ASSUME NEW w \in Window, w # new PROVE w[2] > count'[w[1]] <=> w[2] > count[w[1]]
    <3>1. w[1] \in Camera /\ w[2] \in Nat /\ count \in [Camera -> 0 .. MaxWindows]
      BY <1>1, Windowed DEF Marks
    <3>2. CASE w[1] = c
      <4>1. w[2] # count[c] + 1
        BY <1>3, <2>1, <3>2, Windowed
      <4>2. count'[w[1]] = count[c] + 1
        BY <1>2, <3>1, <3>2
      <4>. QED BY <1>3, <3>1, <3>2, <4>1, <4>2
    <3>3. CASE w[1] # c
      BY <1>2, <3>1, <3>3
    <3>. QED BY <3>2, <3>3
  <2>. QED BY <2>1
<1>11. count'[c] = count[c] + 1 /\ \A d \in Camera : d # c => count'[d] = count[d]
  BY <1>1, <1>2 DEF Marks
<1>12. /\ \A w \in Window : win[w].completed => win'[w].completed
       /\ \A w \in Window : Dead(w) => Dead(w)'
       /\ \A w \in Window : w # new => (win'[w].task # "none" => win[w].task # "none")
       /\ \A w \in Window : win'[w].old => win[w].old
       /\ \A w \in Window : win'[w].owns => win[w].owns
       /\ \A w \in Window : w # new => win'[w].work = win[w].work
  <2>1. ASSUME NEW w \in Window
        PROVE  /\ win[w].completed => win'[w].completed
               /\ Dead(w) => Dead(w)'
               /\ w # new => (win'[w].task # "none" => win[w].task # "none")
               /\ win'[w].old => win[w].old
               /\ win'[w].owns => win[w].owns
               /\ w # new => win'[w].work = win[w].work
    <3>1. CASE w = new
      BY <1>4, <1>6, <1>7, <3>1, Records DEF Dead
    <3>2. CASE w \in X
      <4>1. Dropped(w) /\ win[w].task # "none"
        BY <1>8, <3>2 DEF Live
      <4>. QED BY <4>1 DEF Dropped, Dead
    <3>3. CASE w # new /\ w \notin X
      BY <1>7, <3>3 DEF Dead
    <3>. QED BY <3>1, <3>2, <3>3
  <2>. QED BY <2>1
\* what of the camera is born is completed if the last one is not known or not the same
<1>13. ASSUME c \notin known \/ broken, NEW w \in Window, w[1] = c, w # new, win'[w].task # "none"
       PROVE  win'[w].completed
  <2>1. win[w].task # "none"
    BY <1>12, <1>13
  <2>2. CASE c \notin known
    BY <1>1, <1>12, <1>13, <2>1, <2>2 DEF OrderOK, KnownOK
  <2>3. CASE broken
    <3>1. CASE w \in Live
      <4>1. w \in X
        BY <1>13, <1>34, <2>3, <3>1 DEF Of
      <4>. QED BY <1>8, <4>1 DEF Dropped
    <3>2. CASE w \notin Live
      <4>1. win[w].task \in {"none", "perceive", "effects", "over"}
        BY <1>1 DEF Job
      <4>2. win[w].task = "over"
        BY <2>1, <3>2, <4>1 DEF Live
      <4>. QED BY <1>1, <1>12, <4>2, Born
    <3>. QED BY <3>1, <3>2
  <2>. QED BY <1>13, <2>2, <2>3
<1>14. \A w \in Window : w[1] = c /\ w # new /\ ~(w[2] > count[c]) => win'[w].task # "none"
  <2>1. ASSUME NEW w \in Window, w[1] = c, w # new, ~(w[2] > count[c])
        PROVE  win'[w].task # "none"
    <3>1. win[w].task # "none"
      BY <1>1, <2>1, Born
    <3>2. CASE w \in X
      BY <1>8, <3>2 DEF Dropped
    <3>3. CASE w \notin X
      BY <1>7, <2>1, <3>1, <3>3
    <3>. QED BY <3>2, <3>3
  <2>. QED BY <2>1
<1>15. c \in known => count[c] > 0
  BY <1>1 DEF OrderOK, KnownOK
<1>16. ~link => FirstOrAfter(new)'
  <2>1. SUFFICES ASSUME ~link, new[2] # 1 PROVE win'[Before(new)].completed
    BY DEF FirstOrAfter, Before
  <2>5. PICK b : b = Before(new)
    OBVIOUS
  <2>2. b \in Window /\ b[1] = c /\ b[2] = count[c] /\ b # new
    <3>1. new[2] > 1
      BY <1>3, <2>1
    <3>2. b \in Window /\ Earlier(b, new)
      BY <1>3, <2>5, <3>1, Windowed
    <3>. QED BY <1>3, <2>5, <3>2 DEF Before, Earlier
  <2>3. CASE c \notin known \/ broken
    <3>1. win'[b].task # "none"
      BY <1>3, <1>14, <2>2
    <3>. QED BY <1>13, <2>2, <2>3, <2>5, <3>1
  <2>4. CASE c \in known /\ ~broken
    <3>1. win[b].completed
      BY <1>32, <2>1, <2>4, <2>5
    <3>. QED BY <1>12, <2>2, <2>5, <3>1
  <2>. QED BY <2>3, <2>4
<1>17. Stages'
  <2>1. ASSUME NEW w \in Window PROVE StageOK(w)'
    <3>1. StageOK(w)
      BY <1>1 DEF Stages
    <3>2. CASE w = new
      <4>1. ~(w[2] > count'[w[1]])
        BY <1>3, <1>11, <3>2
      <4>2. link => w[2] > 1
        BY <1>3, <1>5, <1>15, <3>2
      <4>. QED BY <1>6, <1>7, <3>2, <4>1, <4>2 DEF StageOK
    <3>3. CASE w \in X
      <4>1. Dropped(w) /\ win[w].task # "none" /\ w # new
        BY <1>4, <1>8, <3>3 DEF Live
      <4>2. ~(w[2] > count'[w[1]])
        BY <1>1, <1>10, <4>1, Born
      <4>. QED BY <3>1, <4>1, <4>2, DroppedStage
    <3>4. CASE w # new /\ w \notin X
      BY <1>7, <1>10, <3>1, <3>4 DEF StageOK
    <3>. QED BY <3>2, <3>3, <3>4
  <2>. QED BY <2>1 DEF Stages
<1>18. OwnsAlone'
  BY <1>1, <1>12, OwnsKept
<1>19. LinesOK'
  <2>1. \A v \in Window : Holds(v)' <=> Holds(v)
    <3>1. ~Holds(new) /\ ~Holds(new)'
      BY <1>4, <1>6, <1>7, Records DEF Holds
    <3>. QED BY <1>12, <3>1 DEF Holds
  <2>. QED BY <1>1, <1>2, <2>1, LinesKept
<1>20. Marks'
  <2>1. count' \in [Camera -> 0 .. MaxWindows]
    BY <1>1, <1>2, <1>3 DEF Marks
  <2>. QED BY <1>1, <1>2, <2>1 DEF Marks, history
<1>21. KnownOK'
  <2>1. \A d \in known' : count'[d] > 0
    <3>1. \A d \in known : d \in Camera /\ count[d] > 0
      BY <1>1 DEF Marks, OrderOK, KnownOK
    <3>2. ASSUME NEW d \in known' PROVE count'[d] > 0
      <4>1. CASE d = c
        BY <1>3, <1>11, <4>1
      <4>2. CASE d # c
        BY <1>2, <1>11, <3>1, <3>2, <4>2
      <4>. QED BY <4>1, <4>2
    <3>. QED BY <3>2
  <2>2. ASSUME NEW w \in Window, w[1] \notin known', win'[w].task # "none"
        PROVE  win'[w].completed
    <3>1. w # new /\ w[1] \notin known
      BY <1>2, <1>3, <2>2
    <3>. QED BY <1>1, <1>12, <2>2, <3>1 DEF OrderOK, KnownOK
  <2>. QED BY <2>1, <2>2 DEF KnownOK
<1>22. ShownOK'
  BY <1>1, <1>2, <1>12, ShownKept DEF history
<1>23. ASSUME NEW v \in Window, win'[v].task # "none", ~win'[v].completed,
              HadTurn(v)' \/ ~win'[v].linked
       PROVE  (win[v].task # "none" /\ (HadTurn(v) \/ ~win[v].linked)) \/ FirstOrAfter(v)'
  <2>1. CASE v = new
    <3>1. ~link
      <4>. QED BY <1>6, <1>7, <1>23, <2>1 DEF HadTurn
    <3>. QED BY <1>16, <2>1, <3>1
  <2>2. CASE v # new
    <3>1. v \notin X
      BY <1>8, <1>23 DEF Dropped
    <3>. QED BY <1>7, <1>23, <2>2, <3>1 DEF HadTurn
  <2>. QED BY <2>1, <2>2
<1>24. ASSUME NEW v \in Window, win'[v].completed, ~win[v].completed
       PROVE  \A u \in Window : Earlier(u, v) => Covered(u, v[1], v[2])'
  <2>1. v \in X
    BY <1>6, <1>7, <1>24
  <2>2. v[1] = c /\ broken /\ v \in Window /\ win[v].task # "none" /\ v # new
    BY <1>4, <1>8, <2>1 DEF Live
  <2>3. ASSUME NEW u \in Window, Earlier(u, v) PROVE win'[u].completed
    <3>1. u[1] = c /\ ~(u[2] > count[c]) /\ u # new
      <4>1. ~(v[2] > count[c]) /\ u[2] < v[2] /\ u[1] = c
        BY <1>1, <2>2, <2>3, Born DEF Earlier
      <4>2. u[2] \in Nat /\ v[2] \in Nat
        BY Windowed
      <4>. QED BY <1>3, <4>1, <4>2
    <3>2. win'[u].task # "none"
      BY <1>14, <3>1
    <3>. QED BY <1>13, <2>2, <3>1, <3>2
  <2>. QED BY <2>3 DEF Covered, Dead
<1>25. slipped' = slipped
  BY <1>2 DEF history
<1>26. OrderOK'
  BY <1>1, <1>12, <1>21, <1>22, <1>23, <1>24, <1>25, OrderKept
<1>. QED BY <1>9, <1>17, <1>18, <1>19, <1>20, <1>26, Parts

\* Nothing but an effect touches what was last shown.
LEMMA NextStep ==
  ASSUME Parameters, IInv, [Next]_vars
  PROVE  IInv' /\ (shown' = shown \/ \E w \in Window : Effect(w))
<1>1. CASE UNCHANGED vars
  <2>1. Marks
    BY Parts
  <2>2. UNCHANGED <<win, count, known, moved, limit, limiter, left, shown, slipped>>
    BY <1>1 DEF vars, round, history
  <2>3. UNCHANGED <<win, count, known, limiter, history>>
    BY <2>2 DEF history
  <2>. QED BY <2>1, <2>2, <2>3, Elsewhere DEF Marks
<1>2. ASSUME NEW c \in Camera, Admit(c) PROVE IInv' /\ shown' = shown
  BY <1>2, AdmitStep DEF Admit, history
<1>3. ASSUME NEW c \in Camera, Reconnect(c) PROVE IInv' /\ shown' = shown
  BY <1>3, WorldStep DEF Reconnect, history
<1>4. ASSUME NEW w \in Window, Main(w) PROVE IInv' /\ shown' = shown
  <2>1. CASE Fail(w) \/ Nothing(w) \/ EffectsEnd(w)
    BY <2>1, OverStep DEF Fail, Nothing, EffectsEnd
  <2>2. CASE Effects(w)
    BY <2>2, EffectsStep DEF Effects, history
  <2>3. CASE Deadline(w)
    BY <2>3, DeadlineStep DEF Deadline, history
  <2>. QED BY <1>4, <2>1, <2>2, <2>3 DEF Main
<1>5. ASSUME NEW w \in Window, Worker(w) PROVE IInv' /\ shown' = shown
  <2>1. CASE Prepare(w)
    BY <2>1, PrepareStep DEF Prepare, history
  <2>2. CASE NothingToSee(w)
    BY <2>2, NothingToSeeStep DEF NothingToSee, history
  <2>3. CASE NoRequest(w)
    BY <2>3, NoRequestStep DEF NoRequest, history
  <2>4. CASE Request(w)
    BY <2>4, RequestStep DEF Request, history
  <2>5. CASE Start(w)
    BY <2>5, StartStep DEF Start, history
  <2>6. CASE Turn(w)
    BY <2>6, TurnStep DEF Turn, history
  <2>7. CASE Commit(w)
    BY <2>7, CommitStep DEF Commit, history
  <2>8. CASE Merge(w)
    BY <2>8, MergeStep DEF Merge, history
  <2>9. CASE Stop(w)
    BY <2>9, StopStep DEF Stop, history
  <2>10. CASE Analysed(w)
    BY <2>10, WorldStep DEF Analysed, history
  <2>. QED BY <1>5, <2>1, <2>2, <2>3, <2>4, <2>5, <2>6, <2>7, <2>8, <2>9, <2>10 DEF Worker
<1>6. ASSUME NEW w \in Window, Effect(w) PROVE IInv'
  BY <1>6, EffectStep
<1>7. ASSUME NEW w \in Window, Answer(w) PROVE IInv' /\ shown' = shown
  BY <1>7, AnswerStep DEF Answer, history
<1>8. ASSUME NEW w \in Window, Age(w) PROVE IInv' /\ shown' = shown
  BY <1>8, AgeStep DEF Age, history
<1>9. CASE Restart
  BY <1>9, RestartStep DEF Restart, history
<1>10. CASE SwitchModel
  BY <1>10, SwitchModelStep DEF SwitchModel, history
<1>11. CASE SetLimit
  BY <1>11, WorldStep DEF SetLimit, history
<1>12. CASE Silence
  BY <1>12, WorldStep DEF Silence, vars, history
<1>13. UNCHANGED vars => shown' = shown
  BY DEF vars, history
<1>. QED
  BY <1>1, <1>2, <1>3, <1>4, <1>5, <1>6, <1>7, <1>8, <1>9, <1>10, <1>11, <1>12, <1>13, Zenon DEF Next

LEMMA InitHolds ==
  ASSUME Parameters, Init
  PROVE  IInv
<1>1. /\ \A w \in Window : win[w] = Unborn
      /\ count = [c \in Camera |-> 0] /\ known = {} /\ moved = {} /\ left = {}
      /\ shown = [c \in Camera |-> 0] /\ slipped = {} /\ limit \in Limits
      /\ limiter = [line |-> [c \in Camera |-> <<>>], turns |-> <<>>, granted |-> {}]
  BY DEF Init
<1>2. win \in [Window -> Job]
  BY Records DEF Init
<1>3. Marks
  BY <1>1, Windowed DEF Marks
<1>4. Stages
  <2>1. ASSUME NEW w \in Window PROVE StageOK(w)
    <3>1. w[2] > count[w[1]]
      BY <1>1, Windowed
    <3>. QED BY <1>1, <3>1, Records DEF StageOK
  <2>. QED BY <2>1 DEF Stages
<1>5. OwnsAlone
  BY <1>1, Records DEF OwnsAlone
<1>6. OrderOK
  <2>1. KnownOK
    BY <1>1, Records DEF KnownOK
  <2>2. ShownOK
    <3>1. ASSUME NEW u \in Window PROVE ~(u[2] < shown[u[1]])
      BY <1>1, Windowed
    <3>. QED BY <3>1 DEF ShownOK
  <2>3. ASSUME NEW w \in Window PROVE TurnsOK(w) /\ AgesOK(w) /\ DoneOK(w)
    BY <1>1, Records DEF TurnsOK, AgesOK, DoneOK
  <2>. QED BY <2>1, <2>2, <2>3 DEF OrderOK
<1>7. LinesOK
  <2>1. /\ limiter.line = [c \in Camera |-> <<>>] /\ limiter.turns = <<>> /\ limiter.granted = {}
        /\ limiter \in Limiter
    BY <1>1 DEF Limiter
  <2>2. ToSet(<<>>) = {}
    BY DEF ToSet
  <2>3. LimiterOK(limiter)
    BY <2>1, <2>2 DEF LimiterOK, LineOK, Once
  <2>4. \A v : v \notin Waiting(limiter)
    BY <2>1, <2>2 DEF Waiting
  <2>5. \A w \in Window : ~Holds(w)
    BY <1>1, Records DEF Holds
  <2>. QED BY <2>1, <2>3, <2>4, <2>5 DEF LinesOK
<1>. QED BY <1>2, <1>3, <1>4, <1>5, <1>6, <1>7, Parts

(***************************************************************************)
(* The theorems.                                                           *)
(***************************************************************************)

\* The inductive invariant: the limiter, the locks, and the order of the windows of a camera
\* (window_runtime.py:3, 256, engine/api.py:975).
THEOREM Invariance == ASSUME Parameters PROVE Spec => []IInv
BY InitHolds, NextStep, PTL DEF Spec

\* The types of the windows, of the limiter and of the marks (window_runtime.py:49).
THEOREM TypeCorrect == ASSUME Parameters PROVE Spec => []TypeOK
<1>1. IInv => TypeOK
  BY DEF IInv
<1>. QED BY <1>1, Invariance, PTL

\* One window of a camera uses its tracker and its memory of the last results at a time
\* (engine/api.py:975).
THEOREM TrackersAreAlone == ASSUME Parameters PROVE Spec => []TrackerAlone
<1>1. ASSUME IInv PROVE TrackerAlone
  <2>1. OwnsAlone /\ Stages
    BY <1>1 DEF IInv
  <2>2. ASSUME NEW c \in Camera,
               NEW S, S = {w \in Of(c) : Place(w, "prepare") \/ Place(w, "commit")}
        PROVE  Cardinality(S) <= 1
    <3>1. ASSUME NEW v \in S, NEW w \in S PROVE v = w
      <4>1. /\ v \in Window /\ w \in Window /\ v[1] = w[1]
            /\ Place(v, "prepare") \/ Place(v, "commit")
            /\ Place(w, "prepare") \/ Place(w, "commit")
        BY <2>2, <3>1 DEF Of
      <4>2. win[v].owns /\ win[w].owns
        BY <2>1, <4>1 DEF Stages, StageOK, Place
      <4>. QED BY <2>1, <4>1, <4>2 DEF OwnsAlone
    <3>2. CASE S = {}
      BY <3>2, FS_EmptySet
    <3>3. CASE S # {}
      <4>1. PICK w : w \in S
        BY <3>3
      <4>2. S = {w}
        BY <3>1, <4>1
      <4>. QED BY <4>2, FS_Singleton
    <3>. QED BY <3>2, <3>3
  <2>. QED BY <2>2 DEF TrackerAlone
<1>. QED BY <1>1, Invariance, PTL

\* A request that waits will be served by the end of another; who left has neither place nor
\* permit (window_runtime.py:256).
THEOREM LinesAreKept == ASSUME Parameters PROVE Spec => []LinesAreServed
<1>1. ASSUME IInv PROVE LinesAreServed
  <2>1. LinesOK
    BY <1>1 DEF IInv
  <2>2. LimiterOK(limiter)
    BY <2>1 DEF LinesOK
  <2>3. ASSUME NEW c \in Camera PROVE limiter.line[c] # <<>> <=> c \in ToSet(limiter.turns)
    BY <2>2 DEF LimiterOK, LineOK
  <2>4. Len(limiter.turns) = Cardinality(ToSet(limiter.turns))
    BY <2>2, OnceCounts DEF LimiterOK, Limiter
  <2>. QED BY <2>1, <2>3, <2>4 DEF LinesOK, LinesAreServed
<1>. QED BY <1>1, Invariance, PTL

\* Once a window of a camera had an effect no earlier one has, but where a window between the
\* two was over before its turn (window_runtime.py:3).
THEOREM EffectsKeepOrder == ASSUME Parameters PROVE Spec => [][InOrder]_vars
<1>1. ASSUME IInv, [Next]_vars PROVE InOrder
  <2>1. Marks /\ Stages /\ OrderOK
    BY <1>1, Parts
  <2>2. SUFFICES ASSUME NEW c \in Camera, shown'[c] < shown[c]
        PROVE  \E s \in slipped : s[1] = c /\ s[2] \in shown'[c] + 1 .. shown[c] - 1
    BY DEF InOrder
  <2>3. shown \in [Camera -> 0 .. MaxWindows] /\ MaxWindows \in Nat
    BY <2>1, Windowed DEF Marks
  <2>4. shown[c] \in Nat
    BY <2>3
  <2>5. shown' # shown
    BY <2>2, <2>4
  <2>6. PICK w \in Window : Effect(w)
    BY <1>1, <2>5, NextStep
  <2>7. w[1] = c /\ shown'[c] = w[2] /\ w[2] \in Nat
    <3>1. shown' = [shown EXCEPT ![w[1]] = w[2]] /\ w[1] \in Camera /\ w[2] \in Nat
      BY <2>6, Windowed DEF Effect
    <3>2. w[1] = c
      BY <2>2, <2>3, <2>4, <3>1
    <3>. QED BY <2>3, <3>1, <3>2
  <2>8. ~Dead(w)
    BY <2>1, <2>6 DEF Effect, Actionable, Dead, Stages, StageOK
  <2>9. Covered(w, c, shown[c] - 1)
    BY <2>1, <2>2, <2>7 DEF OrderOK, ShownOK
  <2>10. PICK s \in slipped : s[1] = c /\ w[2] < s[2] /\ s[2] <= shown[c] - 1
    BY <2>8, <2>9 DEF Covered
  <2>11. s[2] \in Nat
    BY <2>1, Windowed DEF Marks
  <2>12. s[2] \in shown'[c] + 1 .. shown[c] - 1
    BY <2>4, <2>7, <2>10, <2>11
  <2>. QED BY <2>10, <2>12
<1>. QED BY <1>1, Invariance, PTL DEF Spec
================================================================================
