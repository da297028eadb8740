-------------------------- MODULE DeviceStateProofs --------------------------
(***************************************************************************)
(* Theorems about DeviceState, for every set of devices, homes and values, *)
(* every limit of top-ups and rounds, and every bound on the moves of the  *)
(* cloud, the switches of the home and the pushes on their way.            *)
(***************************************************************************)
EXTENDS DeviceState, TLAPS

\* The bounds are numbers, and no value is taken for a missing leaf.
Parameters ==
  /\ MaxTopUps \in Nat /\ MaxScope \in Nat /\ MaxPushes \in Nat /\ MaxMoves \in Nat
  /\ None \notin Value

(***************************************************************************)
(* The invariant.                                                          *)
(***************************************************************************)

Message == ({"state"} \X Did \X BOOLEAN) \cup ({"prop"} \X Did \X Value)
           \cup ({"meta"} \X Did \X Home)

RefreshAsked == [who : Caller, at : {"asked"}, scope : Nat]
RefreshAnswered == [who : Caller, at : {"answered"}, scope : Nat, where : [Did -> Home],
                    up : [Did -> BOOLEAN], behind : SUBSET Did]

AlignStart == [at : {"start"}, round : Nat, scope : Nat]
AlignSpec == [at : {"spec"}, scope : Nat, meta : SUBSET Did, ask : SUBSET Did]
AlignFlags == [at : {"flags"}, scope : Nat, meta : SUBSET Did, ask : SUBSET Did,
               live : SUBSET Did, todo : SUBSET Did]
AlignProps == [at : {"props"}, scope : Nat, todo : SUBSET Did, got : [Did -> Value]]
AlignDrain == [at : {"drain"}, scope : Nat, todo : SUBSET Did]

TopUpAsked == [at : {"asked"}, by : {"timer", "drain"}, scope : Nat, used : Nat]
TopUpGot == [at : {"got"}, by : {"timer", "drain"}, scope : Nat, used : Nat,
             val : Value \cup {None}]

PullDelay == [at |-> "delay"]
PullNext == [at : {"next"}, todo : SUBSET Did]
PullAsked == [at : {"asked"}, did : Did, todo : SUBSET Did]
PullGot == [at : {"got"}, did : Did, todo : SUBSET Did, val : Value]

\* What the types leave open.
Shape ==
  /\ pushes \in Seq(Message)
  /\ refresh \in {NoRefresh} \cup RefreshAsked \cup RefreshAnswered
  /\ align \in {NoAlign} \cup AlignStart \cup AlignSpec \cup AlignFlags \cup AlignProps
               \cup AlignDrain
  /\ topUp \in [Did -> {NoTopUp} \cup TopUpAsked \cup TopUpGot]
  /\ pull \in {NoPull, PullDelay} \cup PullNext \cup PullAsked \cup PullGot

\* A top-up of the scope counts from what was used when it began.
Counted ==
  \A d \in Did : topUp[d] # NoTopUp =>
    /\ topUp[d].used < MaxTopUps /\ topUp[d].scope <= scope
    /\ topUp[d].scope = scope => used[d] = topUp[d].used

\* The pushes of a device that are on their way, by kind.
OnWay == {<<pushes[i][1], pushes[i][2]>> : i \in 1 .. Len(pushes)}

\* Without a connection nothing is on its way, and the last push of a kind is the truth.
QueueRight ==
  /\ linked \/ pushes = <<>>
  /\ \A i \in 1 .. Len(pushes) :
       (\A j \in (i + 1) .. Len(pushes) :
          <<pushes[j][1], pushes[j][2]>> # <<pushes[i][1], pushes[i][2]>>) =>
       /\ pushes[i][1] = "state" => pushes[i][3] = up[pushes[i][2]]
       /\ pushes[i][1] = "prop" => pushes[i][3] = report[pushes[i][2]]

\* The alignment under way is the scope's, which is aligned when it has come through, and
\* a refresh from before a switch is followed by the one the switch asks for.
Scopes ==
  /\ align # NoAlign => align.scope = scope
  /\ align.at \in {"start", "spec", "flags", "props"} => alignedScope < scope
  /\ align.at = "drain" => alignedScope = scope
  /\ rebuilding => align = NoAlign /\ alignedScope < scope
  /\ refresh # NoRefresh => refresh.scope = scope \/ waiting # {}
  /\ scope + resets <= MaxScope

\* A refresh follows.
Soon == ~linked \/ waiting # {} \/ \E d \in Did : <<"meta", d>> \in OnWay

\* The answer of the refresh, or the cache, has the homes of the cloud.
HomeKnown ==
  \/ Soon
  \/ refresh # NoRefresh /\ (refresh.at = "answered" => refresh.where = where)
  \/ refresh = NoRefresh /\ (failed \/ home = where)

\* And who is online, but for a push that overtook the answer.
AliveAt(d) ==
  \/ ~linked \/ waiting # {} \/ <<"state", d>> \in OnWay
  \/ /\ refresh # NoRefresh
     /\ refresh.at = "answered" => refresh.up[d] = up[d] \/ d \in refresh.behind
  \/ refresh = NoRefresh /\ (failed \/ alive[d] = up[d] \/ <<d, "overtaken">> \in excuse)

\* The leaves are those of the cache.
Stored(d) == IF Here(d) THEN online[d] = alive[d] ELSE online[d] = None /\ prop[d] = None
TreeAt(d) ==
  waiting # {} \/ refresh # NoRefresh \/ failed \/ resets > 0 \/ <<d, "ghost">> \in excuse
  \/ Stored(d)

\* Another pull comes after the one under way.
PullAgain == ~linked \/ "connect" \in waiting \/ refresh.who = "connect" \/ again

\* The pull under way has yet to write the device.
Asks(d) == \/ pull.at = "delay"
           \/ pull.at \in {"next", "asked", "got"} /\ d \in pull.todo
           \/ PullRuns(d)

Late(d) == <<d, "dropped">> \in excuse \/ <<d, "unread">> \in excuse \/ <<d, "masked">> \in excuse

\* The leaf is right, or will be, or has its excuse.
Coming(d) == <<"prop", d>> \in OnWay \/ Late(d) \/ PullAgain
PropAt(d) == Coming(d) \/ Asks(d) \/ prop[d] \in {None, report[d]}

\* What the pull of a device has read is right, or what was reported since it asked.
FreshAt(d) ==
  PullRuns(d) =>
    \/ Coming(d)
    \/ /\ d \in fresh => prop[d] \in {None, report[d]}
       /\ pull.at = "got" => Kept(d) \/ pull.val = report[d]

\* What a top-up or the alignment has read is right.
GotAt(d) ==
  \/ Coming(d) \/ Asks(d)
  \/ /\ topUp[d].at = "got" /\ prop[d] = None => topUp[d].val \in {None, report[d]}
     /\ align.at = "props" /\ d \in align.todo => align.got[d] = report[d]

\* Somebody takes care of a device that is here, online and without its leaf.
Missed(d) ==
  <<d, "movedIn">> \in excuse \/ <<d, "unheard">> \in excuse \/ <<d, "unread">> \in excuse
Later(d) == Missed(d) \/ d \in timers \/ d \in wanted
CoveredAt(d) ==
  resets = 0 /\ Here(d) /\ alive[d] =>
    /\ align.at \in {"spec", "flags"} => d \in align.ask \/ Later(d)
    /\ align.at = "props" /\ prop[d] = None => d \in align.todo \/ Later(d)
    /\ Aligned /\ prop[d] = None =>
         \/ Missed(d) \/ d \in timers \/ used[d] = MaxTopUps
         \/ align.at = "drain" /\ d \in align.todo
         \/ topUp[d].at = "asked"
         \/ topUp[d].at = "got" /\ topUp[d].val # None

\* A rerun is asked of a pull under way.
PullIdle == pull = NoPull => ~again

IInv ==
  /\ TypeOK /\ Shape /\ Counted /\ QueueRight /\ Scopes /\ HomeKnown /\ PullIdle
  /\ \A d \in Did : /\ AliveAt(d) /\ TreeAt(d) /\ PropAt(d) /\ FreshAt(d) /\ GotAt(d)
                    /\ CoveredAt(d)

(***************************************************************************)
(* What the pushes on their way become.                                    *)
(***************************************************************************)

LEMMA WayKept ==
  ASSUME pushes' = pushes
  PROVE  OnWay' = OnWay
BY DEF OnWay

\* A push that goes out is on its way, and the truth if its kind and device say so now.
LEMMA WayGrows ==
  ASSUME pushes \in Seq(Message), QueueRight, NEW m \in Message, Push(m), linked' = linked,
         up' = up \/ (m[1] = "state" /\ \A e \in Did \ {m[2]} : up'[e] = up[e]),
         report' = report \/ (m[1] = "prop" /\ \A e \in Did \ {m[2]} : report'[e] = report[e]),
         m[1] = "state" => m[3] = up'[m[2]],
         m[1] = "prop" => m[3] = report'[m[2]]
  PROVE  /\ pushes' \in Seq(Message) /\ Len(pushes') <= Len(pushes) + 1
         /\ OnWay' = IF linked THEN OnWay \cup {<<m[1], m[2]>>} ELSE OnWay
         /\ QueueRight'
<1>1. CASE ~linked
  <2>1. pushes = <<>> /\ pushes' = <<>> /\ Len(pushes') = 0 /\ Len(pushes) = 0
    BY <1>1 DEF Push, QueueRight
  <2>. QED BY <1>1, <2>1 DEF OnWay, QueueRight
<1>2. CASE linked
  <2>1. /\ pushes' \in Seq(Message) /\ Len(pushes') = Len(pushes) + 1 /\ Len(pushes) \in Nat
        /\ \A i \in 1 .. Len(pushes) : pushes'[i] = pushes[i] /\ pushes[i] \in Message
        /\ pushes'[Len(pushes) + 1] = m
    BY <1>2 DEF Push
  <2>2. OnWay' = OnWay \cup {<<m[1], m[2]>>}
    <3>1. OnWay' = {<<pushes'[i][1], pushes'[i][2]>> : i \in 1 .. Len(pushes')}
      BY DEF OnWay
    <3>2. 1 .. Len(pushes') = 1 .. Len(pushes) \cup {Len(pushes) + 1}
      BY <2>1
    <3>3. \A i \in 1 .. Len(pushes) : <<pushes'[i][1], pushes'[i][2]>> = <<pushes[i][1], pushes[i][2]>>
      BY <2>1
    <3>. QED BY <2>1, <3>1, <3>2, <3>3 DEF OnWay
  <2>3. QueueRight'
    <3>1. SUFFICES ASSUME NEW i \in 1 .. Len(pushes'),
                          \A j \in (i + 1) .. Len(pushes') :
                            <<pushes'[j][1], pushes'[j][2]>> # <<pushes'[i][1], pushes'[i][2]>>
                   PROVE  /\ pushes'[i][1] = "state" => pushes'[i][3] = up'[pushes'[i][2]]
                          /\ pushes'[i][1] = "prop" => pushes'[i][3] = report'[pushes'[i][2]]
      BY <1>2 DEF QueueRight
    <3>2. CASE i = Len(pushes) + 1
      BY <2>1, <3>2
    <3>3. CASE i \in 1 .. Len(pushes)
      <4>1. /\ pushes'[i] = pushes[i] /\ pushes[i] \in Message
            /\ <<m[1], m[2]>> # <<pushes[i][1], pushes[i][2]>>
        BY <2>1, <3>1, <3>3
      <4>2. \A j \in (i + 1) .. Len(pushes) : pushes'[j] = pushes[j] /\ j \in (i + 1) .. Len(pushes')
        BY <2>1, <3>3
      <4>3. \A j \in (i + 1) .. Len(pushes) :
              <<pushes[j][1], pushes[j][2]>> # <<pushes[i][1], pushes[i][2]>>
        BY <3>1, <4>1, <4>2
      <4>4. /\ pushes[i][1] = "state" => pushes[i][3] = up[pushes[i][2]]
            /\ pushes[i][1] = "prop" => pushes[i][3] = report[pushes[i][2]]
        BY <3>3, <4>3 DEF QueueRight
      <4>5. pushes[i][2] \in Did
        BY <4>1 DEF Message
      <4>. QED BY <4>1, <4>4, <4>5
    <3>. QED BY <2>1, <3>2, <3>3
  <2>. QED BY <1>2, <2>1, <2>2, <2>3
<1>. QED BY <1>1, <1>2

\* A push that arrives is the truth, or another one of its kind and device follows it.
LEMMA WayShrinks ==
  ASSUME pushes \in Seq(Message), QueueRight, NEW kind, Arrives(kind)
  PROVE  /\ Head(pushes) \in Message /\ Head(pushes)[1] = kind /\ Head(pushes)[2] \in Did
         /\ kind = "state" => Head(pushes)[3] \in BOOLEAN
         /\ kind = "prop" => Head(pushes)[3] \in Value
         /\ linked /\ pushes' \in Seq(Message) /\ Len(pushes') + 1 = Len(pushes)
         /\ OnWay' \subseteq OnWay /\ OnWay \subseteq OnWay' \cup {<<kind, Head(pushes)[2]>>}
         /\ \/ <<kind, Head(pushes)[2]>> \in OnWay'
            \/ /\ kind = "state" => Head(pushes)[3] = up[Head(pushes)[2]]
               /\ kind = "prop" => Head(pushes)[3] = report[Head(pushes)[2]]
         /\ linked' = linked /\ up' = up /\ report' = report => QueueRight'
<1>1. /\ linked /\ pushes # <<>> /\ Head(pushes)[1] = kind /\ pushes' = Tail(pushes)
      /\ Len(pushes) \in Nat \ {0} /\ Head(pushes) = pushes[1] /\ pushes[1] \in Message
      /\ pushes' \in Seq(Message) /\ Len(pushes') + 1 = Len(pushes)
      /\ \A i \in 1 .. Len(pushes') : pushes'[i] = pushes[i + 1] /\ i + 1 \in 1 .. Len(pushes)
  BY DEF Arrives
<1>2. /\ Head(pushes)[2] \in Did /\ (kind = "state" => Head(pushes)[3] \in BOOLEAN)
      /\ (kind = "prop" => Head(pushes)[3] \in Value)
  BY <1>1 DEF Message
<1>3. OnWay' = {<<pushes'[i][1], pushes'[i][2]>> : i \in 1 .. Len(pushes')}
  BY DEF OnWay
<1>4. OnWay' \subseteq OnWay
  BY <1>1, <1>3 DEF OnWay
<1>5. \A i \in 2 .. Len(pushes) : i - 1 \in 1 .. Len(pushes') /\ pushes'[i - 1] = pushes[i]
  BY <1>1
<1>6. \A i \in 2 .. Len(pushes) : <<pushes[i][1], pushes[i][2]>> \in OnWay'
  BY <1>3, <1>5
<1>7. OnWay \subseteq OnWay' \cup {<<kind, Head(pushes)[2]>>}
  <2>1. \A i \in 1 .. Len(pushes) : i = 1 \/ i \in 2 .. Len(pushes)
    BY <1>1
  <2>2. \A i \in 1 .. Len(pushes) :
          <<pushes[i][1], pushes[i][2]>> \in OnWay' \cup {<<kind, Head(pushes)[2]>>}
    BY <1>1, <1>6, <2>1
  <2>. QED BY <2>2 DEF OnWay
<1>8. \/ <<kind, Head(pushes)[2]>> \in OnWay'
      \/ /\ kind = "state" => Head(pushes)[3] = up[Head(pushes)[2]]
         /\ kind = "prop" => Head(pushes)[3] = report[Head(pushes)[2]]
  <2>1. SUFFICES ASSUME <<kind, Head(pushes)[2]>> \notin OnWay'
                 PROVE  /\ kind = "state" => Head(pushes)[3] = up[Head(pushes)[2]]
                        /\ kind = "prop" => Head(pushes)[3] = report[Head(pushes)[2]]
    OBVIOUS
  <2>2. \A j \in (1 + 1) .. Len(pushes) :
          <<pushes[j][1], pushes[j][2]>> # <<pushes[1][1], pushes[1][2]>>
    BY <1>1, <1>6, <2>1
  <2>. QED BY <1>1, <2>2 DEF QueueRight
<1>9. ASSUME linked' = linked, up' = up, report' = report
      PROVE  QueueRight'
  <2>1. SUFFICES ASSUME NEW i \in 1 .. Len(pushes'),
                        \A j \in (i + 1) .. Len(pushes') :
                          <<pushes'[j][1], pushes'[j][2]>> # <<pushes'[i][1], pushes'[i][2]>>
                 PROVE  /\ pushes'[i][1] = "state" => pushes'[i][3] = up[pushes'[i][2]]
                        /\ pushes'[i][1] = "prop" => pushes'[i][3] = report[pushes'[i][2]]
    BY <1>1, <1>9 DEF QueueRight
  <2>2. \A j \in (i + 1 + 1) .. Len(pushes) : j - 1 \in (i + 1) .. Len(pushes') /\ j \in 2 .. Len(pushes)
    BY <1>1
  <2>3. \A j \in (i + 1 + 1) .. Len(pushes) :
          <<pushes[j][1], pushes[j][2]>> # <<pushes[i + 1][1], pushes[i + 1][2]>>
    BY <1>1, <1>5, <2>1, <2>2
  <2>. QED BY <1>1, <2>3 DEF QueueRight
<1>. QED BY <1>1, <1>2, <1>4, <1>7, <1>8, <1>9

\* A push that goes out of the cloud.
LEMMA ReportFacts ==
  ASSUME Parameters, IInv, NEW d \in Did, NEW v \in Value, Report(d, v)
  PROVE  /\ pushes' \in Seq(Message) /\ Len(pushes') <= MaxPushes /\ QueueRight'
         /\ OnWay' = IF linked THEN OnWay \cup {<<"prop", d>>} ELSE OnWay
         /\ report' \in [Did -> Value] /\ \A e \in Did \ {d} : report'[e] = report[e]
<1>. DEFINE m == <<"prop", d, v>>
<1>1. m \in Message /\ m[1] = "prop" /\ m[2] = d /\ m[3] = v
  BY DEF Message
<1>2. /\ report' \in [Did -> Value] /\ report'[d] = v /\ \A e \in Did \ {d} : report'[e] = report[e]
  BY DEF Report, IInv, TypeOK
<1>3. /\ pushes \in Seq(Message) /\ QueueRight /\ Push(m) /\ linked' = linked /\ up' = up
      /\ Len(pushes) < MaxPushes
  BY DEF Report, Moves, IInv, Shape
<1>. HIDE DEF m
<1>4. /\ pushes' \in Seq(Message) /\ Len(pushes') <= Len(pushes) + 1 /\ QueueRight'
      /\ OnWay' = IF linked THEN OnWay \cup {<<m[1], m[2]>>} ELSE OnWay
  BY <1>1, <1>2, <1>3, WayGrows
<1>5. Len(pushes) \in Nat /\ Len(pushes') \in Nat /\ MaxPushes \in Nat
  BY <1>3, <1>4 DEF Parameters
<1>. QED BY <1>1, <1>2, <1>3, <1>4, <1>5

LEMMA FlipFacts ==
  ASSUME Parameters, IInv, NEW d \in Did, Flip(d)
  PROVE  /\ pushes' \in Seq(Message) /\ Len(pushes') <= MaxPushes /\ QueueRight'
         /\ OnWay' = IF linked THEN OnWay \cup {<<"state", d>>} ELSE OnWay
         /\ up' \in [Did -> BOOLEAN] /\ \A e \in Did \ {d} : up'[e] = up[e]
<1>. DEFINE m == <<"state", d, ~up[d]>>
<1>0. (~up[d]) \in BOOLEAN /\ up \in [Did -> BOOLEAN]
  <2>1. up \in [Did -> BOOLEAN]
    BY DEF IInv, TypeOK
  <2>2. (~up[d]) \in BOOLEAN
    OBVIOUS
  <2>. QED BY <2>1, <2>2
<1>1. m \in Message /\ m[1] = "state" /\ m[2] = d /\ m[3] = ~up[d]
  BY <1>0 DEF Message
<1>2. /\ up' \in [Did -> BOOLEAN] /\ up'[d] = ~up[d] /\ \A e \in Did \ {d} : up'[e] = up[e]
  BY <1>0 DEF Flip
<1>3. /\ pushes \in Seq(Message) /\ QueueRight /\ Push(m) /\ linked' = linked /\ report' = report
      /\ Len(pushes) < MaxPushes
  BY DEF Flip, Moves, IInv, Shape
<1>. HIDE DEF m
<1>4. m[3] = up'[m[2]]
  BY <1>1, <1>2
<1>5. /\ pushes' \in Seq(Message) /\ Len(pushes') <= Len(pushes) + 1 /\ QueueRight'
      /\ OnWay' = IF linked THEN OnWay \cup {<<m[1], m[2]>>} ELSE OnWay
  BY <1>1, <1>2, <1>3, <1>4, WayGrows
<1>6. Len(pushes) \in Nat /\ Len(pushes') \in Nat /\ MaxPushes \in Nat
  BY <1>3, <1>5 DEF Parameters
<1>. QED BY <1>1, <1>2, <1>3, <1>5, <1>6

LEMMA MoveHomeFacts ==
  ASSUME Parameters, IInv, NEW d \in Did, NEW h \in Home, MoveHome(d, h)
  PROVE  /\ pushes' \in Seq(Message) /\ Len(pushes') <= MaxPushes /\ QueueRight'
         /\ OnWay' = IF linked THEN OnWay \cup {<<"meta", d>>} ELSE OnWay
         /\ where' \in [Did -> Home]
<1>. DEFINE m == <<"meta", d, h>>
<1>1. m \in Message /\ m[1] = "meta" /\ m[2] = d
  BY DEF Message
<1>2. where' \in [Did -> Home]
  BY DEF MoveHome, IInv, TypeOK
<1>3. /\ pushes \in Seq(Message) /\ QueueRight /\ Push(m) /\ linked' = linked /\ report' = report
      /\ up' = up /\ Len(pushes) < MaxPushes
  BY DEF MoveHome, Moves, IInv, Shape
<1>. HIDE DEF m
<1>4. /\ pushes' \in Seq(Message) /\ Len(pushes') <= Len(pushes) + 1 /\ QueueRight'
      /\ OnWay' = IF linked THEN OnWay \cup {<<m[1], m[2]>>} ELSE OnWay
  BY <1>1, <1>3, WayGrows
<1>5. Len(pushes) \in Nat /\ Len(pushes') \in Nat /\ MaxPushes \in Nat
  BY <1>3, <1>4 DEF Parameters
<1>. QED BY <1>1, <1>2, <1>3, <1>4, <1>5

\* What was on its way is lost.
LEMMA DisconnectFacts ==
  ASSUME Disconnect
  PROVE  pushes' \in Seq(Message) /\ Len(pushes') = 0 /\ QueueRight' /\ OnWay' = {} /\ ~linked'
<1>1. pushes' = <<>> /\ linked' = FALSE /\ Len(pushes') = 0
  BY DEF Disconnect
<1>. QED BY <1>1 DEF OnWay, QueueRight

\* The push that arrives.
LEMMA StateFacts ==
  ASSUME Parameters, IInv, OnDeviceState
  PROVE  LET d == Head(pushes)[2]
             v == Head(pushes)[3]
         IN /\ d \in Did /\ v \in BOOLEAN /\ linked
            /\ pushes' \in Seq(Message) /\ Len(pushes') <= MaxPushes /\ QueueRight'
            /\ OnWay' \subseteq OnWay /\ OnWay \subseteq OnWay' \cup {<<"state", d>>}
            /\ <<"state", d>> \in OnWay' \/ v = up[d]
            /\ alive' \in [Did -> BOOLEAN] /\ alive'[d] = v
            /\ \A e \in Did \ {d} : alive'[e] = alive[e]
            /\ online' \in [Did -> BOOLEAN \cup {None}] /\ (Here(d) => online'[d] = v)
            /\ ~Here(d) => online' = online
            /\ \A e \in Did \ {d} : online'[e] = online[e]
            /\ timers' = IF v THEN timers \cup {d} ELSE timers
            /\ excuse' = excuse \ {<<d, "overtaken">>}
            /\ refresh' \in {NoRefresh} \cup RefreshAsked \cup RefreshAnswered
            /\ refresh'.who = refresh.who /\ (refresh' = NoRefresh <=> refresh = NoRefresh)
            /\ refresh # NoRefresh => /\ refresh'.at = refresh.at /\ refresh'.scope = refresh.scope
                                      /\ refresh.at = "answered" =>
                                           /\ refresh'.where = refresh.where /\ refresh'.up = refresh.up
                                           /\ refresh'.behind = refresh.behind \cup {d}
<1>. DEFINE d == Head(pushes)[2]
            v == Head(pushes)[3]
<1>1. /\ d \in Did /\ v \in BOOLEAN /\ linked
      /\ pushes' \in Seq(Message) /\ Len(pushes') + 1 = Len(pushes) /\ QueueRight'
      /\ OnWay' \subseteq OnWay /\ OnWay \subseteq OnWay' \cup {<<"state", d>>}
      /\ <<"state", d>> \in OnWay' \/ v = up[d]
  <2>1. Arrives("state") /\ linked' = linked /\ up' = up /\ report' = report
    BY DEF OnDeviceState, cloud
  <2>. QED BY <2>1, WayShrinks DEF IInv, Shape
<1>2. Len(pushes') <= MaxPushes
  <2>1. Len(pushes) \in Nat /\ Len(pushes') \in Nat /\ MaxPushes \in Nat /\ Len(pushes) <= MaxPushes
    BY <1>1 DEF IInv, Shape, TypeOK, Parameters
  <2>. QED BY <1>1, <2>1
<1>3. /\ alive' = [alive EXCEPT ![d] = v]
      /\ online' = IF Here(d) THEN [online EXCEPT ![d] = v] ELSE online
      /\ timers' = IF v THEN timers \cup {d} ELSE timers
      /\ refresh' = IF refresh.who # "nobody" /\ refresh.at = "answered"
                    THEN [refresh EXCEPT !.behind = @ \cup {d}] ELSE refresh
      /\ excuse' = excuse \ {<<d, "overtaken">>}
  BY DEF OnDeviceState, Blame
<1>. HIDE DEF d, v
<1>4. /\ alive' \in [Did -> BOOLEAN] /\ alive'[d] = v /\ \A e \in Did \ {d} : alive'[e] = alive[e]
  BY <1>1, <1>3 DEF IInv, TypeOK
<1>5. /\ online' \in [Did -> BOOLEAN \cup {None}] /\ (Here(d) => online'[d] = v)
      /\ \A e \in Did \ {d} : online'[e] = online[e]
      /\ ~Here(d) => online' = online
  BY <1>1, <1>3 DEF IInv, TypeOK
<1>6. /\ refresh' \in {NoRefresh} \cup RefreshAsked \cup RefreshAnswered
      /\ refresh'.who = refresh.who /\ (refresh' = NoRefresh <=> refresh = NoRefresh)
      /\ refresh # NoRefresh => /\ refresh'.at = refresh.at /\ refresh'.scope = refresh.scope
                                /\ refresh.at = "answered" =>
                                     /\ refresh'.where = refresh.where /\ refresh'.up = refresh.up
                                     /\ refresh'.behind = refresh.behind \cup {d}
  <2>1. CASE refresh \in RefreshAnswered
    <3>1. refresh.who # "nobody" /\ refresh.at = "answered" /\ refresh # NoRefresh
      BY <2>1 DEF RefreshAnswered, Caller, NoRefresh
    <3>2. refresh' = [refresh EXCEPT !.behind = refresh.behind \cup {d}]
      BY <1>3, <3>1
    <3>3. /\ refresh' \in RefreshAnswered /\ refresh'.who = refresh.who /\ refresh'.at = refresh.at
          /\ refresh'.scope = refresh.scope /\ refresh'.where = refresh.where
          /\ refresh'.up = refresh.up /\ refresh'.behind = refresh.behind \cup {d}
      BY <1>1, <2>1, <3>2 DEF RefreshAnswered
    <3>. QED BY <3>1, <3>3 DEF NoRefresh
  <2>2. CASE refresh = NoRefresh \/ refresh \in RefreshAsked
    <3>1. ~(refresh.who # "nobody" /\ refresh.at = "answered")
      BY <2>2 DEF RefreshAsked, NoRefresh
    <3>2. refresh' = refresh /\ (refresh # NoRefresh => refresh.at # "answered")
      BY <1>3, <2>2, <3>1 DEF RefreshAsked
    <3>. QED BY <2>2, <3>2
  <2>. QED BY <2>1, <2>2 DEF IInv, Shape
<1>. QED BY <1>1, <1>2, <1>3, <1>4, <1>5, <1>6 DEF d, v

LEMMA PropsFacts ==
  ASSUME Parameters, IInv, OnDeviceProps
  PROVE  LET d == Head(pushes)[2]
             v == Head(pushes)[3]
         IN /\ d \in Did /\ v \in Value /\ linked
            /\ pushes' \in Seq(Message) /\ Len(pushes') <= MaxPushes /\ QueueRight'
            /\ OnWay' \subseteq OnWay /\ OnWay \subseteq OnWay' \cup {<<"prop", d>>}
            /\ <<"prop", d>> \in OnWay' \/ v = report[d]
            /\ \/ /\ Aligned /\ Here(d) /\ Reported(d, v) /\ excuse' = Cleared(d, v)
               \/ /\ prop' = prop /\ fresh' = fresh /\ excuse' = excuse \cup {<<d, "dropped">>}
<1>. DEFINE d == Head(pushes)[2]
            v == Head(pushes)[3]
<1>1. /\ d \in Did /\ v \in Value /\ linked
      /\ pushes' \in Seq(Message) /\ Len(pushes') + 1 = Len(pushes) /\ QueueRight'
      /\ OnWay' \subseteq OnWay /\ OnWay \subseteq OnWay' \cup {<<"prop", d>>}
      /\ <<"prop", d>> \in OnWay' \/ v = report[d]
  <2>1. Arrives("prop") /\ linked' = linked /\ up' = up /\ report' = report
    BY DEF OnDeviceProps, cloud
  <2>. QED BY <2>1, WayShrinks DEF IInv, Shape
<1>2. Len(pushes') <= MaxPushes
  <2>1. Len(pushes) \in Nat /\ Len(pushes') \in Nat /\ MaxPushes \in Nat /\ Len(pushes) <= MaxPushes
    BY <1>1 DEF IInv, Shape, TypeOK, Parameters
  <2>. QED BY <1>1, <2>1
<1>3. \/ /\ Aligned /\ Here(d) /\ Reported(d, v) /\ excuse' = Cleared(d, v)
      \/ /\ prop' = prop /\ fresh' = fresh /\ excuse' = excuse \cup {<<d, "dropped">>}
  BY DEF OnDeviceProps, Blame
<1>. QED BY <1>1, <1>2, <1>3

LEMMA MetaFacts ==
  ASSUME Parameters, IInv, OnDeviceMeta
  PROVE  /\ linked /\ pushes' \in Seq(Message) /\ Len(pushes') <= MaxPushes /\ QueueRight'
         /\ OnWay' \subseteq OnWay /\ \A e \in Did : /\ <<"state", e>> \in OnWay => <<"state", e>> \in OnWay'
                                                     /\ <<"prop", e>> \in OnWay => <<"prop", e>> \in OnWay'
<1>1. Arrives("meta") /\ linked' = linked /\ up' = up /\ report' = report
  BY DEF OnDeviceMeta, cloud
<1>2. /\ linked /\ pushes' \in Seq(Message) /\ Len(pushes') + 1 = Len(pushes) /\ QueueRight'
      /\ OnWay' \subseteq OnWay /\ OnWay \subseteq OnWay' \cup {<<"meta", Head(pushes)[2]>>}
  BY <1>1, WayShrinks DEF IInv, Shape
<1>3. Len(pushes) \in Nat /\ Len(pushes') \in Nat /\ MaxPushes \in Nat /\ Len(pushes) <= MaxPushes
  BY <1>2 DEF IInv, Shape, TypeOK, Parameters
<1>. QED BY <1>2, <1>3

(***************************************************************************)
(* What the steps do to leaves, excuses and tasks.                         *)
(***************************************************************************)

\* What is known of a record from where it stands.
LEMMA Places ==
  ASSUME Shape
  PROVE  /\ (refresh = NoRefresh <=> refresh.who = "nobody")
         /\ refresh # NoRefresh /\ refresh.at = "asked" => refresh \in RefreshAsked
         /\ refresh # NoRefresh /\ refresh.at = "answered" => refresh \in RefreshAnswered
         /\ refresh # NoRefresh => refresh.at \in {"asked", "answered"} /\ refresh.who \in Caller
         /\ align.at \in {"off", "start", "spec", "flags", "props", "drain"}
         /\ (align = NoAlign <=> align.at = "off")
         /\ align.at = "start" => align \in AlignStart
         /\ align.at = "spec" => align \in AlignSpec
         /\ align.at = "flags" => align \in AlignFlags
         /\ align.at = "props" => align \in AlignProps
         /\ align.at = "drain" => align \in AlignDrain
         /\ pull.at \in {"off", "delay", "next", "asked", "got"}
         /\ (pull = NoPull <=> pull.at = "off")
         /\ pull.at = "delay" => pull = PullDelay
         /\ pull.at = "next" => pull \in PullNext
         /\ pull.at = "asked" => pull \in PullAsked
         /\ pull.at = "got" => pull \in PullGot
<1>1. /\ (refresh = NoRefresh <=> refresh.who = "nobody")
      /\ refresh # NoRefresh /\ refresh.at = "asked" => refresh \in RefreshAsked
      /\ refresh # NoRefresh /\ refresh.at = "answered" => refresh \in RefreshAnswered
      /\ refresh # NoRefresh => refresh.at \in {"asked", "answered"} /\ refresh.who \in Caller
  BY DEF Shape, NoRefresh, RefreshAsked, RefreshAnswered, Caller
<1>2. /\ align.at \in {"off", "start", "spec", "flags", "props", "drain"}
      /\ (align = NoAlign <=> align.at = "off")
      /\ align.at = "start" => align \in AlignStart
      /\ align.at = "spec" => align \in AlignSpec
      /\ align.at = "flags" => align \in AlignFlags
      /\ align.at = "props" => align \in AlignProps
      /\ align.at = "drain" => align \in AlignDrain
  BY DEF Shape, NoAlign, AlignStart, AlignSpec, AlignFlags, AlignProps, AlignDrain
<1>3. /\ pull.at \in {"off", "delay", "next", "asked", "got"}
      /\ (pull = NoPull <=> pull.at = "off")
      /\ pull.at = "delay" => pull = PullDelay
      /\ pull.at = "next" => pull \in PullNext
      /\ pull.at = "asked" => pull \in PullAsked
      /\ pull.at = "got" => pull \in PullGot
  BY DEF Shape, NoPull, PullDelay, PullNext, PullAsked, PullGot
<1>. QED BY <1>1, <1>2, <1>3

\* And of a top-up.
LEMMA TopUpPlaces ==
  ASSUME Shape, NEW d \in Did
  PROVE  /\ topUp[d].at \in {"off", "asked", "got"}
         /\ (topUp[d] = NoTopUp <=> topUp[d].at = "off")
         /\ topUp[d].at = "asked" => topUp[d] \in TopUpAsked
         /\ topUp[d].at = "got" => topUp[d] \in TopUpGot
BY DEF Shape, NoTopUp, TopUpAsked, TopUpGot

\* A property leaf gets a value.
LEMMA Landed ==
  ASSUME TypeOK, NEW d \in Did, NEW v \in Value, Reported(d, v)
  PROVE  /\ prop' \in [Did -> Value \cup {None}] /\ prop'[d] = v
         /\ \A e \in Did \ {d} : prop'[e] = prop[e]
         /\ fresh' = fresh \cup {d} /\ fresh' \subseteq Did
BY DEF TypeOK, Reported

LEMMA ClearedFacts ==
  ASSUME TypeOK, NEW d \in Did, NEW v
  PROVE  /\ Cleared(d, v) \subseteq excuse
         /\ \A e \in Did \ {d}, c \in Cause : <<e, c>> \in excuse => <<e, c>> \in Cleared(d, v)
         /\ \A c \in {"overtaken", "ghost"} : <<d, c>> \in excuse => <<d, c>> \in Cleared(d, v)
         /\ v # report[d] => \A c \in {"dropped", "unread", "masked"} :
                               <<d, c>> \in excuse => <<d, c>> \in Cleared(d, v)
BY DEF Cleared, Blame

LEMMA MaskingFacts ==
  ASSUME NEW d \in Did
  PROVE  /\ Masking(d) \subseteq {<<d, "masked">>} /\ Masking(d) \subseteq Did \X Cause
         /\ PullRuns(d) => <<d, "masked">> \in Masking(d)
BY DEF Masking, Blame, Cause

LEMMA HauntedFacts ==
  ASSUME NEW d \in Did
  PROVE  /\ Haunted(d) \subseteq {<<d, "ghost">>} /\ Haunted(d) \subseteq Did \X Cause
         /\ ~Here(d) => <<d, "ghost">> \in Haunted(d)
BY DEF Haunted, Blame, Cause

LEMMA BereftFacts ==
  ASSUME NEW D \in SUBSET Did
  PROVE  /\ Bereft(D) \subseteq Did \X {"masked"} /\ Bereft(D) \subseteq Did \X Cause
         /\ \A d \in D : topUp[d].at # "off" \/ PullRuns(d) => <<d, "masked">> \in Bereft(D)
BY DEF Bereft, Blame, Cause

\* The devices are listed anew.
LEMMA ApplyFacts ==
  ASSUME IInv, RefreshApply
  PROVE  /\ refresh \in RefreshAnswered /\ refresh' = NoRefresh /\ failed' = FALSE
         /\ home' = refresh.where /\ alive' = refresh.up
         /\ online' \in [Did -> BOOLEAN \cup {None}] /\ prop' \in [Did -> Value \cup {None}]
         /\ \/ /\ refresh.scope = scope
               /\ \A d \in Did : IF home'[d] = enabled
                                 THEN prop'[d] = prop[d] /\ online'[d] = alive'[d]
                                 ELSE prop'[d] = None /\ online'[d] = None
            \/ refresh.scope # scope /\ prop' = prop /\ online' = online
         /\ excuse' \subseteq Did \X Cause
         /\ \A d \in refresh.behind : <<d, "overtaken">> \in excuse'
         /\ \A d \in Did, c \in Cause \ {"overtaken", "ghost"} :
              <<d, c>> \in excuse => <<d, c>> \in excuse'
         /\ \A d \in Did : /\ ~alive[d] /\ alive'[d] => <<d, "unheard">> \in excuse'
                           /\ ~Here(d) /\ home'[d] = enabled => <<d, "movedIn">> \in excuse'
                           /\ home'[d] # enabled /\ (topUp[d].at # "off" \/ PullRuns(d)) =>
                                <<d, "masked">> \in excuse'
         /\ Listeners
         /\ UNCHANGED <<cloud, link, scopes, waiting, align, topping, fresh, moves>>
<1>1. /\ refresh \in RefreshAnswered
      /\ refresh' = NoRefresh /\ failed' = FALSE /\ home' = refresh.where /\ alive' = refresh.up
      /\ IF refresh.scope = scope THEN Reconcile(home') /\ SyncOnline(home', alive') ELSE UNCHANGED tree
      /\ Listeners
      /\ UNCHANGED <<cloud, link, scopes, waiting, align, topping, fresh, moves>>
  BY Places DEF RefreshApply, IInv
<1>2. home' \in [Did -> Home] /\ alive' \in [Did -> BOOLEAN] /\ refresh.behind \subseteq Did
  BY <1>1 DEF RefreshAnswered
<1>3. /\ online' \in [Did -> BOOLEAN \cup {None}] /\ prop' \in [Did -> Value \cup {None}]
      /\ \/ /\ refresh.scope = scope
            /\ \A d \in Did : IF home'[d] = enabled
                              THEN prop'[d] = prop[d] /\ online'[d] = alive'[d]
                              ELSE prop'[d] = None /\ online'[d] = None
         \/ refresh.scope # scope /\ prop' = prop /\ online' = online
  BY <1>1, <1>2 DEF Reconcile, SyncOnline, tree, IInv, TypeOK
<1>. DEFINE gone == {d \in Did : home'[d] # enabled}
<1>4. excuse' = (excuse \ (Blame(Did, "overtaken") \cup Blame(Did, "ghost")))
                \cup Blame(refresh.behind, "overtaken")
                \cup Blame({d \in Did : ~alive[d] /\ alive'[d]}, "unheard")
                \cup Blame({d \in Did : ~Here(d) /\ home'[d] = enabled}, "movedIn")
                \cup Bereft(gone)
  BY DEF RefreshApply
<1>5. /\ gone \in SUBSET Did /\ Bereft(gone) \subseteq Did \X Cause
      /\ \A d \in gone : topUp[d].at # "off" \/ PullRuns(d) => <<d, "masked">> \in Bereft(gone)
  BY BereftFacts
<1>6. excuse \subseteq Did \X Cause
  BY DEF IInv, TypeOK
<1>. HIDE DEF gone
<1>7. excuse' \subseteq Did \X Cause
  BY <1>2, <1>4, <1>5, <1>6 DEF Blame, Cause
<1>8. /\ \A d \in refresh.behind : <<d, "overtaken">> \in excuse'
      /\ \A d \in Did, c \in Cause \ {"overtaken", "ghost"} :
           <<d, c>> \in excuse => <<d, c>> \in excuse'
      /\ \A d \in Did : /\ ~alive[d] /\ alive'[d] => <<d, "unheard">> \in excuse'
                        /\ ~Here(d) /\ home'[d] = enabled => <<d, "movedIn">> \in excuse'
      /\ Bereft(gone) \subseteq excuse'
  BY <1>4 DEF Blame
<1>9. \A d \in Did : home'[d] # enabled /\ (topUp[d].at # "off" \/ PullRuns(d)) =>
        <<d, "masked">> \in excuse'
  BY <1>5, <1>8 DEF gone
<1>. QED BY <1>1, <1>3, <1>7, <1>8, <1>9

\* The store is emptied for a new scope.
LEMMA ResetFacts ==
  ASSUME IInv, ResetBegin
  PROVE  /\ \A d \in Did : online'[d] = None /\ prop'[d] = None /\ used'[d] = 0
         /\ online' \in [Did -> BOOLEAN \cup {None}] /\ prop' \in [Did -> Value \cup {None}]
         /\ topUp' \in [Did -> {NoTopUp} \cup TopUpAsked \cup TopUpGot]
         /\ \A d \in Did : topUp'[d] \in {NoTopUp, topUp[d]}
         /\ excuse' \subseteq Did \X Cause
         /\ \A d \in Did : /\ <<d, "overtaken">> \in excuse => <<d, "overtaken">> \in excuse'
                           /\ topUp[d].at # "off" \/ PullRuns(d) => <<d, "masked">> \in excuse'
<1>1. /\ \A d \in Did : online'[d] = None /\ prop'[d] = None /\ used'[d] = 0
      /\ online' \in [Did -> BOOLEAN \cup {None}] /\ prop' \in [Did -> Value \cup {None}]
  BY DEF ResetBegin
<1>2. /\ topUp' \in [Did -> {NoTopUp} \cup TopUpAsked \cup TopUpGot]
      /\ \A d \in Did : topUp'[d] \in {NoTopUp, topUp[d]}
  BY DEF ResetBegin, CancelAlign, IInv, Shape
<1>3. /\ excuse' = {x \in excuse : x[2] = "overtaken"} \cup Bereft(Did)
      /\ excuse \subseteq Did \X Cause
  BY DEF ResetBegin, IInv, TypeOK
<1>4. excuse' \subseteq Did \X Cause
  BY <1>3, BereftFacts
<1>5. \A d \in Did : /\ <<d, "overtaken">> \in excuse => <<d, "overtaken">> \in excuse'
                     /\ topUp[d].at # "off" \/ PullRuns(d) => <<d, "masked">> \in excuse'
  BY <1>3, BereftFacts, Zenon
<1>. QED BY <1>1, <1>2, <1>4, <1>5

\* The alignment writes a device.
LEMMA WriteFacts ==
  ASSUME IInv, NEW d \in Did, AlignWrite(d)
  PROVE  /\ align \in AlignProps /\ align' \in AlignProps /\ d \in align.todo
         /\ align'.scope = align.scope /\ align'.todo = align.todo \ {d} /\ align'.got = align.got
         /\ align.got[d] \in Value /\ Reported(d, align.got[d])
         /\ excuse' = Cleared(d, align.got[d]) \cup Haunted(d) \cup Masking(d)
<1>1. align \in AlignProps /\ d \in align.todo
  BY Places DEF AlignWrite, At, IInv
<1>2. align' = [align EXCEPT !.todo = align.todo \ {d}]
  BY DEF AlignWrite
<1>3. /\ align' \in AlignProps /\ align.got[d] \in Value
      /\ align'.scope = align.scope /\ align'.todo = align.todo \ {d} /\ align'.got = align.got
  BY <1>1, <1>2 DEF AlignProps
<1>. QED BY <1>1, <1>3 DEF AlignWrite

\* And its online flag before that.
LEMMA FlagFacts ==
  ASSUME IInv, NEW d \in Did, AlignFlag(d)
  PROVE  /\ align \in AlignFlags /\ align' \in AlignFlags /\ d \in align.todo
         /\ align'.scope = align.scope /\ align'.ask = align.ask
         /\ align'.todo = align.todo \ {d}
         /\ online' \in [Did -> BOOLEAN \cup {None}] /\ \A e \in Did \ {d} : online'[e] = online[e]
         /\ online'[d] = alive[d] \/ <<d, "ghost">> \in excuse'
         /\ Here(d) \/ <<d, "ghost">> \in excuse'
         /\ excuse \subseteq excuse' /\ excuse' \subseteq Did \X Cause
<1>1. align \in AlignFlags /\ d \in align.todo
  BY Places DEF AlignFlag, At, IInv
<1>2. /\ align' = [align EXCEPT !.todo = align.todo \ {d}]
      /\ online' = [online EXCEPT ![d] = IF d \in align.live THEN alive[d] ELSE d \in align.ask]
      /\ excuse' = excuse \cup Haunted(d) \cup Blame({d} \ align.live, "ghost")
  BY DEF AlignFlag
<1>3. /\ align' \in AlignFlags /\ align'.scope = align.scope /\ align'.ask = align.ask
      /\ align'.todo = align.todo \ {d}
  BY <1>1, <1>2 DEF AlignFlags
<1>4. /\ online \in [Did -> BOOLEAN \cup {None}] /\ alive[d] \in BOOLEAN
      /\ excuse \subseteq Did \X Cause
  BY DEF IInv, TypeOK
<1>5. online' \in [Did -> BOOLEAN \cup {None}] /\ \A e \in Did \ {d} : online'[e] = online[e]
  <2>1. (d \in align.ask) \in BOOLEAN
    OBVIOUS
  <2>. QED BY <1>2, <1>4, <2>1
<1>6. d \notin align.live => <<d, "ghost">> \in excuse'
  BY <1>2 DEF Blame
<1>7. d \in align.live => online'[d] = alive[d]
  BY <1>2, <1>4
<1>8. /\ Here(d) \/ <<d, "ghost">> \in excuse'
      /\ excuse \subseteq excuse' /\ excuse' \subseteq Did \X Cause
  BY <1>2, <1>4, HauntedFacts DEF Blame, Cause
<1>. QED BY <1>1, <1>3, <1>5, <1>6, <1>7, <1>8

\* A top-up ends.
LEMMA EndFacts ==
  ASSUME Parameters, IInv, NEW d \in Did, TopUpEnd(d)
  PROVE  /\ topUp[d] \in TopUpGot
         /\ topUp' \in [Did -> {NoTopUp} \cup TopUpAsked \cup TopUpGot] /\ topUp'[d] = NoTopUp
         /\ \A e \in Did \ {d} : topUp'[e] = topUp[e] /\ used'[e] = used[e]
         /\ IF topUp[d].scope = scope THEN used'[d] = topUp[d].used + 1 ELSE used'[d] = used[d]
         /\ used' \in [Did -> 0 .. MaxTopUps]
         /\ \/ /\ topUp[d].val \in Value /\ topUp[d].val # None /\ TopUpLands(d)
               /\ Reported(d, topUp[d].val) /\ excuse' = Cleared(d, topUp[d].val) \cup Masking(d)
            \/ /\ topUp[d].val = None \/ ~TopUpLands(d)
               /\ UNCHANGED <<prop, fresh, excuse>>
<1>1. topUp[d] \in TopUpGot /\ topUp[d] # NoTopUp
  BY TopUpPlaces DEF TopUpEnd, IInv
<1>2. /\ topUp' \in [Did -> {NoTopUp} \cup TopUpAsked \cup TopUpGot] /\ topUp'[d] = NoTopUp
      /\ \A e \in Did \ {d} : topUp'[e] = topUp[e]
  BY DEF TopUpEnd, IInv, Shape
<1>3. topUp[d].used \in Nat /\ topUp[d].used < MaxTopUps /\ topUp[d].val \in Value \cup {None}
  BY <1>1 DEF TopUpGot, IInv, Counted
<1>4. used' = IF topUp[d].scope = scope THEN [used EXCEPT ![d] = topUp[d].used + 1] ELSE used
  BY DEF TopUpEnd
<1>5. used \in [Did -> 0 .. MaxTopUps]
  BY DEF IInv, TypeOK
<1>6. topUp[d].used + 1 \in 0 .. MaxTopUps
  BY <1>3 DEF Parameters
<1>7. /\ used' \in [Did -> 0 .. MaxTopUps] /\ \A e \in Did \ {d} : used'[e] = used[e]
      /\ IF topUp[d].scope = scope THEN used'[d] = topUp[d].used + 1 ELSE used'[d] = used[d]
  BY <1>4, <1>5, <1>6
<1>8. \/ /\ topUp[d].val \in Value /\ topUp[d].val # None /\ TopUpLands(d)
         /\ Reported(d, topUp[d].val) /\ excuse' = Cleared(d, topUp[d].val) \cup Masking(d)
      \/ /\ topUp[d].val = None \/ ~TopUpLands(d)
         /\ UNCHANGED <<prop, fresh, excuse>>
  BY <1>3 DEF TopUpEnd
<1>. QED BY <1>1, <1>2, <1>7, <1>8

\* The pull writes what it has read.
LEMMA PullWriteFacts ==
  ASSUME IInv, PullWrite
  PROVE  LET d == pull.did
         IN /\ pull \in PullGot /\ d \in Did /\ PullRuns(d)
            /\ pull' \in PullNext /\ pull'.todo = pull.todo /\ again' = again
            /\ \/ /\ ~(Aligned /\ Here(d)) /\ prop' = prop /\ fresh' = fresh
                  /\ excuse' = excuse \cup {<<d, "dropped">>}
               \/ Aligned /\ Here(d) /\ Kept(d) /\ UNCHANGED <<prop, fresh, excuse>>
               \/ /\ Aligned /\ Here(d) /\ ~Kept(d)
                  /\ pull.val \in Value /\ Reported(d, pull.val) /\ excuse' = Cleared(d, pull.val)
<1>1. pull \in PullGot /\ pull.at = "got"
  BY Places DEF PullWrite, IInv
<1>2. pull.did \in Did /\ PullRuns(pull.did) /\ pull.val \in Value /\ pull.todo \subseteq Did
  BY <1>1 DEF PullGot, PullRuns
<1>3. pull' = [at |-> "next", todo |-> pull.todo]
  BY DEF PullWrite
<1>4. pull' \in PullNext /\ pull'.todo = pull.todo
  BY <1>2, <1>3 DEF PullNext
<1>. QED BY <1>1, <1>2, <1>4 DEF PullWrite, Blame

\* A top-up begins, is kept for later or is not needed.
LEMMA BeginFacts ==
  ASSUME Parameters, IInv, NEW d \in Did, NEW by \in {"timer", "drain"}, TopUpBegin(d, by)
  PROVE  /\ topUp[d] = NoTopUp
         /\ topUp' \in [Did -> {NoTopUp} \cup TopUpAsked \cup TopUpGot]
         /\ \A e \in Did \ {d} : topUp'[e] = topUp[e]
         /\ wanted' \subseteq Did
         /\ \/ ~Aligned /\ wanted' = wanted \cup {d} /\ topUp' = topUp
            \/ /\ Aligned /\ MayTopUp(d) /\ wanted' = wanted /\ topUp'[d] \in TopUpAsked
               /\ topUp'[d].scope = scope /\ topUp'[d].used = used[d] /\ used[d] < MaxTopUps
            \/ Aligned /\ ~MayTopUp(d) /\ wanted' = wanted /\ topUp' = topUp
<1>1. /\ topUp \in [Did -> {NoTopUp} \cup TopUpAsked \cup TopUpGot]
      /\ used[d] \in Nat /\ scope \in Nat /\ wanted \subseteq Did
  BY DEF IInv, Shape, TypeOK, Parameters
<1>2. CASE ~Aligned
  BY <1>1, <1>2 DEF TopUpBegin, Wanted
<1>3. CASE Aligned /\ MayTopUp(d)
  <2>. DEFINE t == [at |-> "asked", by |-> by, scope |-> scope, used |-> used[d]]
  <2>1. t \in TopUpAsked /\ t.scope = scope /\ t.used = used[d]
    BY <1>1 DEF TopUpAsked
  <2>2. topUp' = [topUp EXCEPT ![d] = t] /\ wanted' = wanted /\ topUp[d] = NoTopUp
    BY <1>3 DEF TopUpBegin
  <2>. HIDE DEF t
  <2>3. /\ topUp'[d] = t /\ \A e \in Did \ {d} : topUp'[e] = topUp[e]
        /\ topUp' \in [Did -> {NoTopUp} \cup TopUpAsked \cup TopUpGot]
    BY <1>1, <2>1, <2>2
  <2>. QED BY <1>1, <1>3, <2>1, <2>2, <2>3 DEF MayTopUp
<1>4. CASE Aligned /\ ~MayTopUp(d)
  BY <1>1, <1>4 DEF TopUpBegin
<1>. QED BY <1>2, <1>3, <1>4

LEMMA TimerFacts ==
  ASSUME Parameters, IInv, NEW d \in Did, TopUpTimer(d)
  PROVE  TopUpBegin(d, "timer") /\ d \in timers /\ timers' = timers \ {d}
BY DEF TopUpTimer

LEMMA DrainFacts ==
  ASSUME Parameters, IInv, NEW d \in Did, TopUpDrain(d)
  PROVE  /\ TopUpBegin(d, "drain") /\ align \in AlignDrain /\ d \in align.todo
         /\ align' \in AlignDrain /\ align'.scope = align.scope /\ align'.todo = align.todo \ {d}
<1>1. align \in AlignDrain /\ d \in align.todo
  BY Places DEF TopUpDrain, At, IInv
<1>2. align' = [align EXCEPT !.todo = align.todo \ {d}]
  BY DEF TopUpDrain
<1>3. align' \in AlignDrain /\ align'.scope = align.scope /\ align'.todo = align.todo \ {d}
  BY <1>1, <1>2 DEF AlignDrain
<1>. QED BY <1>1, <1>3 DEF TopUpDrain

\* A value that is written excuses a device only of what it does not put right.
LEMMA LandedLate ==
  ASSUME TypeOK, NEW d \in Did, NEW v \in Value, Reported(d, v), Cleared(d, v) \subseteq excuse',
         NEW e \in Did
  PROVE  /\ Late(e) => Late(e)' \/ (e = d /\ v = report[d])
         /\ Missed(e) => Missed(e)' \/ e = d
         /\ prop'[e] = IF e = d THEN v ELSE prop[e]
         /\ fresh' = fresh \cup {d}
<1>1. prop'[e] = (IF e = d THEN v ELSE prop[e]) /\ fresh' = fresh \cup {d}
  BY Landed
<1>2. Late(e) => Late(e)' \/ (e = d /\ v = report[d])
  BY ClearedFacts DEF Late, Cause
<1>3. Missed(e) => Missed(e)' \/ e = d
  BY ClearedFacts DEF Missed, Cause
<1>. QED BY <1>1, <1>2, <1>3


LEMMA TypeOKStep ==
  ASSUME Parameters, IInv, Next
  PROVE  TypeOK'
<1>1. ASSUME NEW d \in Did, NEW v \in Value, Report(d, v) PROVE TypeOK'
  <2>1. Len(pushes') <= MaxPushes /\ report' \in [Did -> Value]
    BY <1>1, ReportFacts DEF Report
  <2>2. moves' \in 0 .. MaxMoves
    BY <1>1 DEF Report, Moves, Parameters, IInv, TypeOK
  <2>3. UNCHANGED <<where, up, linked, cache, tree, scopes, refreshing, topping, pulling, excuse>>
    BY <1>1 DEF Report
  <2>. QED BY <2>1, <2>2, <2>3 DEF cache, tree, scopes, refreshing, topping, pulling, IInv, TypeOK
<1>2. ASSUME NEW d \in Did, Flip(d) PROVE TypeOK'
  <2>1. Len(pushes') <= MaxPushes /\ up' \in [Did -> BOOLEAN]
    BY <1>2, FlipFacts DEF Flip
  <2>2. moves' \in 0 .. MaxMoves
    BY <1>2 DEF Flip, Moves, Parameters, IInv, TypeOK
  <2>3. UNCHANGED <<where, report, linked, cache, tree, scopes, refreshing, topping, pulling, excuse>>
    BY <1>2 DEF Flip
  <2>. QED BY <2>1, <2>2, <2>3 DEF cache, tree, scopes, refreshing, topping, pulling, IInv, TypeOK
<1>3. ASSUME NEW d \in Did, NEW h \in Home, MoveHome(d, h) PROVE TypeOK'
  <2>1. Len(pushes') <= MaxPushes /\ where' \in [Did -> Home]
    BY <1>3, MoveHomeFacts DEF MoveHome
  <2>2. moves' \in 0 .. MaxMoves
    BY <1>3 DEF MoveHome, Moves, Parameters, IInv, TypeOK
  <2>3. UNCHANGED <<up, report, linked, cache, tree, scopes, refreshing, topping, pulling, excuse>>
    BY <1>3 DEF MoveHome
  <2>. QED BY <2>1, <2>2, <2>3 DEF cache, tree, scopes, refreshing, topping, pulling, IInv, TypeOK
<1>4. CASE Disconnect
  <2>1. Len(pushes') <= MaxPushes /\ linked' = FALSE /\ moves' \in 0 .. MaxMoves
    BY <1>4, DisconnectFacts DEF Disconnect, Parameters, IInv, TypeOK
  <2>. QED BY <1>4, <2>1 DEF Disconnect, cloud, cache, tree, scopes, refreshing, topping, pulling,
          IInv, TypeOK
<1>5. CASE UserRefresh
  BY <1>5 DEF UserRefresh, cloud, link, cache, tree, scopes, topping, pulling, TypeOK,
     Caller, Cause, IInv, Parameters, Moves
<1>6. ASSUME NEW h \in Home, SwitchHome(h) PROVE TypeOK'
  BY <1>6 DEF SwitchHome, cloud, link, cache, tree, refreshing, topping, pulling, TypeOK,
     Caller, Cause, IInv, Parameters, Moves
<1>7. CASE Reconnect
  BY <1>7 DEF Reconnect, cloud, cache, tree, scopes, topping, pulling, TypeOK, Caller,
     Cause, IInv, Parameters, Moves
<1>8. CASE OnDeviceState
  BY <1>8, StateFacts DEF OnDeviceState, Here, Blame, cloud, scopes, pulling, TypeOK, IInv
<1>9. CASE OnDeviceProps
  <2>0. /\ TypeOK /\ excuse \subseteq Did \X Cause /\ prop \in [Did -> Value \cup {None}]
        /\ fresh \subseteq Did
    BY DEF IInv, TypeOK
  <2>1. Len(pushes') <= MaxPushes
    BY <1>9, PropsFacts
  <2>2. /\ prop' \in [Did -> Value \cup {None}] /\ fresh' \subseteq Did
        /\ excuse' \subseteq Did \X Cause
    <3>1. PICK d \in Did, v \in Value :
            \/ Reported(d, v) /\ excuse' = Cleared(d, v)
            \/ prop' = prop /\ fresh' = fresh /\ excuse' = excuse \cup {<<d, "dropped">>}
      BY <1>9, PropsFacts
    <3>2. CASE Reported(d, v) /\ excuse' = Cleared(d, v)
      BY <2>0, <3>2, Landed, ClearedFacts
    <3>3. CASE prop' = prop /\ fresh' = fresh /\ excuse' = excuse \cup {<<d, "dropped">>}
      BY <2>0, <3>3 DEF Cause
    <3>. QED BY <3>1, <3>2, <3>3
  <2>. QED BY <1>9, <2>1, <2>2 DEF OnDeviceProps, cloud, cache, scopes, refreshing, topping, IInv,
          TypeOK
<1>10. CASE OnDeviceMeta
  BY <1>10, MetaFacts DEF OnDeviceMeta, cloud, cache, tree, scopes, topping, pulling,
     TypeOK, Caller, Cause, IInv, Parameters, Moves
<1>11. CASE RefreshAsk
  BY <1>11 DEF RefreshAsk, cloud, link, cache, tree, scopes, topping, pulling, TypeOK, IInv
<1>12. CASE RefreshAnswer
  BY <1>12 DEF RefreshAnswer, cloud, link, cache, tree, scopes, topping, pulling, TypeOK,
     IInv
<1>13. CASE RefreshApply
  <2>1. home' \in [Did -> Home] /\ alive' \in [Did -> BOOLEAN]
    BY <1>13, ApplyFacts DEF RefreshAnswered
  <2>2. refresh'.who = "nobody" /\ again' \in BOOLEAN
    BY <1>13 DEF RefreshApply, NoRefresh, Listeners, IInv, TypeOK
  <2>. QED BY <1>13, <2>1, <2>2, ApplyFacts DEF cloud, link, scopes, topping, IInv, TypeOK
<1>14. CASE RefreshFail
  BY <1>14 DEF RefreshFail, NoRefresh, Listeners, cloud, link, cache, tree, scopes, topping,
     NoPull, TypeOK, Caller, Cause, IInv, Shape, Parameters, Moves, NoAlign, NoTopUp
<1>15. CASE ResetBegin
  <2>1. /\ scope' \in 0 .. MaxScope /\ alignedScope' \in -1 .. scope' /\ resets' \in 0 .. MaxScope
        /\ used' \in [Did -> 0 .. MaxTopUps] /\ waiting' \subseteq Caller
    BY <1>15 DEF ResetBegin, Parameters, Caller, IInv, TypeOK, Scopes
  <2>. QED BY <1>15, <2>1, ResetFacts DEF ResetBegin, cloud, link, cache, pulling, IInv, TypeOK
<1>16. CASE ResetEnd
  BY <1>16 DEF ResetEnd, NewAlign, cloud, link, cache, tree, refreshing, topping, pulling,
     TypeOK, IInv
<1>17. CASE AlignFail
  BY <1>17 DEF AlignFail, At, MovedOn, NewAlign, cloud, link, cache, tree, scopes,
     refreshing, topping, pulling, TypeOK, IInv
<1>18. CASE AlignCollect
  BY <1>18 DEF AlignCollect, At, MovedOn, Here, Blame, cloud, link, cache, tree, scopes,
     refreshing, topping, pulling, TypeOK, IInv
<1>19. CASE AlignLive
  BY <1>19 DEF AlignLive, At, Here, cloud, link, cache, tree, scopes, refreshing, topping,
     pulling, TypeOK, IInv
<1>20. ASSUME NEW d \in Did, AlignFlag(d) PROVE TypeOK'
  BY <1>20, FlagFacts DEF AlignFlag, cloud, link, cache, scopes, refreshing, topping, pulling,
     IInv, TypeOK
<1>21. ASSUME NEW D \in SUBSET Did, AlignRead(D) PROVE TypeOK'
  BY <1>21 DEF AlignRead, At, Blame, cloud, link, cache, tree, scopes, refreshing, topping,
     pulling, NoAlign, TypeOK, Caller, Cause, IInv, Shape, Counted, Scopes, Parameters,
     Moves, NoRefresh, NoTopUp, NoPull, RefreshAsked, RefreshAnswered, AlignStart,
     AlignSpec, AlignFlags, AlignProps, AlignDrain, TopUpAsked, TopUpGot, PullDelay,
     PullNext, PullAsked, PullGot, Message
<1>22. ASSUME NEW d \in Did, AlignWrite(d) PROVE TypeOK'
  <2>0. /\ TypeOK /\ excuse \subseteq Did \X Cause /\ prop \in [Did -> Value \cup {None}]
        /\ fresh \subseteq Did
    BY DEF IInv, TypeOK
  <2>1. /\ prop' \in [Did -> Value \cup {None}] /\ fresh' \subseteq Did
        /\ excuse' \subseteq Did \X Cause
    BY <1>22, <2>0, WriteFacts, Landed, ClearedFacts, HauntedFacts, MaskingFacts
  <2>. QED BY <1>22, <2>1 DEF AlignWrite, cloud, link, cache, scopes, refreshing, topping, IInv, TypeOK
<1>23. CASE AlignDone
  BY <1>23 DEF AlignDone, At, MovedOn, cloud, link, cache, tree, refreshing, pulling,
     TypeOK, IInv
<1>24. CASE AlignEnd
  BY <1>24 DEF AlignEnd, At, cloud, link, cache, tree, scopes, refreshing, topping, pulling,
     TypeOK, IInv
<1>25. ASSUME NEW d \in Did, TopUpTimer(d) PROVE TypeOK'
  BY <1>25, TimerFacts, BeginFacts DEF TopUpTimer, cloud, link, cache, tree, scopes,
     refreshing, pulling, TypeOK, IInv
<1>26. ASSUME NEW d \in Did, TopUpDrain(d) PROVE TypeOK'
  BY <1>26, DrainFacts, BeginFacts DEF TopUpDrain, At, cloud, link, cache, tree, scopes,
     refreshing, pulling, TypeOK, IInv
<1>27. ASSUME NEW d \in Did, NEW read \in BOOLEAN, TopUpAnswer(d, read) PROVE TypeOK'
  BY <1>27 DEF TopUpAnswer, Blame, cloud, link, cache, tree, scopes, refreshing, pulling,
     TypeOK, Caller, Cause, IInv, Parameters, Moves
<1>28. ASSUME NEW d \in Did, TopUpEnd(d) PROVE TypeOK'
  <2>0. /\ TypeOK /\ excuse \subseteq Did \X Cause /\ prop \in [Did -> Value \cup {None}]
        /\ fresh \subseteq Did
    BY DEF IInv, TypeOK
  <2>1. /\ prop' \in [Did -> Value \cup {None}] /\ fresh' \subseteq Did
        /\ excuse' \subseteq Did \X Cause
    <3>1. \/ \E v \in Value : Reported(d, v) /\ excuse' = Cleared(d, v) \cup Masking(d)
          \/ prop' = prop /\ fresh' = fresh /\ excuse' = excuse
      BY <1>28, EndFacts
    <3>2. ASSUME NEW v \in Value, Reported(d, v), excuse' = Cleared(d, v) \cup Masking(d)
          PROVE  /\ prop' \in [Did -> Value \cup {None}] /\ fresh' \subseteq Did
                 /\ excuse' \subseteq Did \X Cause
      BY <2>0, <3>2, Landed, ClearedFacts, MaskingFacts
    <3>. QED BY <2>0, <3>1, <3>2
  <2>2. used' \in [Did -> 0 .. MaxTopUps]
    BY <1>28, EndFacts
  <2>. QED BY <1>28, <2>1, <2>2 DEF TopUpEnd, cloud, link, cache, scopes, refreshing, IInv, TypeOK
<1>29. CASE PullWake
  BY <1>29 DEF PullWake, cloud, link, cache, tree, scopes, refreshing, topping, TypeOK, IInv
<1>30. ASSUME NEW d \in Did, PullAsk(d) PROVE TypeOK'
  BY <1>30 DEF PullAsk, cloud, link, cache, tree, scopes, refreshing, topping, TypeOK, IInv
<1>31. ASSUME NEW read \in BOOLEAN, PullAnswer(read) PROVE TypeOK'
  BY <1>31 DEF PullAnswer, Blame, cloud, link, cache, tree, scopes, refreshing, topping,
     TypeOK, Caller, Cause, IInv, Shape, Counted, Scopes, Parameters, Moves, NoRefresh,
     NoAlign, NoTopUp, NoPull, RefreshAsked, RefreshAnswered, AlignStart, AlignSpec,
     AlignFlags, AlignProps, AlignDrain, TopUpAsked, TopUpGot, PullDelay, PullNext,
     PullAsked, PullGot, Message
<1>32. CASE PullWrite
  <2>0. /\ TypeOK /\ excuse \subseteq Did \X Cause /\ prop \in [Did -> Value \cup {None}]
        /\ fresh \subseteq Did
    BY DEF IInv, TypeOK
  <2>1. /\ prop' \in [Did -> Value \cup {None}] /\ fresh' \subseteq Did
        /\ excuse' \subseteq Did \X Cause
    <3>1. PICK d \in Did, v \in Value :
            \/ Reported(d, v) /\ excuse' = Cleared(d, v)
            \/ prop' = prop /\ fresh' = fresh /\ excuse' = excuse \cup {<<d, "dropped">>}
            \/ prop' = prop /\ fresh' = fresh /\ excuse' = excuse
      BY <1>32, PullWriteFacts DEF PullGot
    <3>2. CASE Reported(d, v) /\ excuse' = Cleared(d, v)
      BY <2>0, <3>2, Landed, ClearedFacts
    <3>3. CASE prop' = prop /\ fresh' = fresh /\ excuse' = excuse \cup {<<d, "dropped">>}
      BY <2>0, <3>3 DEF Cause
    <3>. QED BY <2>0, <3>1, <3>2, <3>3
  <2>. QED BY <1>32, <2>1 DEF PullWrite, cloud, link, cache, scopes, refreshing, topping, IInv, TypeOK
<1>33. CASE PullEnd
  BY <1>33 DEF PullEnd, cloud, link, cache, tree, scopes, refreshing, topping, TypeOK, IInv
<1>. QED BY <1>1, <1>2, <1>3, <1>4, <1>5, <1>6, <1>7, <1>8, <1>9, <1>10, <1>11, <1>12,
         <1>13, <1>14, <1>15, <1>16, <1>17, <1>18, <1>19, <1>20, <1>21, <1>22, <1>23,
         <1>24, <1>25, <1>26, <1>27, <1>28, <1>29, <1>30, <1>31, <1>32, <1>33, Zenon
         DEF Next, Move, Arrive, Refresh, Reset, Align, TopUp, Pull

LEMMA ShapeStep ==
  ASSUME Parameters, IInv, Next
  PROVE  Shape'
<1>1. ASSUME NEW d \in Did, NEW v \in Value, Report(d, v) PROVE Shape'
  BY <1>1, ReportFacts DEF Report, cache, tree, scopes, refreshing, topping, pulling, Shape,
     IInv
<1>2. ASSUME NEW d \in Did, Flip(d) PROVE Shape'
  BY <1>2, FlipFacts DEF Flip, cache, tree, scopes, refreshing, topping, pulling, Shape,
     IInv
<1>3. ASSUME NEW d \in Did, NEW h \in Home, MoveHome(d, h) PROVE Shape'
  BY <1>3, MoveHomeFacts DEF MoveHome, cache, tree, scopes, refreshing, topping, pulling,
     Shape, IInv
<1>4. CASE Disconnect
  BY <1>4, DisconnectFacts DEF Disconnect, cloud, cache, tree, scopes, refreshing, topping,
     pulling, Shape, IInv
<1>5. CASE UserRefresh
  BY <1>5, Places DEF UserRefresh, cloud, link, cache, tree, scopes, topping, pulling,
     Shape, IInv
<1>6. ASSUME NEW h \in Home, SwitchHome(h) PROVE Shape'
  BY <1>6, Places DEF SwitchHome, cloud, link, cache, tree, refreshing, topping, pulling,
     Shape, IInv
<1>7. CASE Reconnect
  BY <1>7, Places DEF Reconnect, cloud, cache, tree, scopes, topping, pulling, Shape, IInv
<1>8. CASE OnDeviceState
  BY <1>8, StateFacts DEF OnDeviceState, Here, Blame, cloud, scopes, pulling, Shape, IInv
<1>9. CASE OnDeviceProps
  BY <1>9, PropsFacts DEF OnDeviceProps, Aligned, Here, Reported, Cleared, Blame, cloud,
     cache, scopes, refreshing, topping, Shape, IInv
<1>10. CASE OnDeviceMeta
  BY <1>10, MetaFacts DEF OnDeviceMeta, cloud, cache, tree, scopes, topping, pulling, Shape,
     IInv
<1>11. CASE RefreshAsk
  BY <1>11, Places DEF RefreshAsk, NoRefresh, cloud, link, cache, tree, scopes, topping,
     pulling, Shape, Message, RefreshAsked, RefreshAnswered, NoAlign, AlignStart, AlignSpec,
     AlignFlags, AlignProps, AlignDrain, NoTopUp, TopUpAsked, TopUpGot, NoPull, PullDelay,
     PullNext, PullAsked, PullGot, IInv, TypeOK
<1>12. CASE RefreshAnswer
  BY <1>12, Places DEF RefreshAnswer, NoRefresh, cloud, link, cache, tree, scopes, topping,
     pulling, Shape, Message, RefreshAsked, RefreshAnswered, NoAlign, AlignStart, AlignSpec,
     AlignFlags, AlignProps, AlignDrain, NoTopUp, TopUpAsked, TopUpGot, NoPull, PullDelay,
     PullNext, PullAsked, PullGot, IInv, TypeOK
<1>13. CASE RefreshApply
  BY <1>13, ApplyFacts DEF RefreshApply, NoRefresh, Reconcile, SyncOnline, tree, Blame,
     Here, Bereft, Listeners, cloud, link, scopes, topping, PullRuns, NoPull, Shape,
     Message, RefreshAsked, RefreshAnswered, NoAlign, AlignStart, AlignSpec, AlignFlags,
     AlignProps, AlignDrain, NoTopUp, TopUpAsked, TopUpGot, PullDelay, PullNext, PullAsked,
     PullGot, IInv, TypeOK
<1>14. CASE RefreshFail
  BY <1>14, Places DEF RefreshFail, NoRefresh, Listeners, cloud, link, cache, tree, scopes,
     topping, NoPull, Shape, Message, RefreshAsked, RefreshAnswered, NoAlign, AlignStart,
     AlignSpec, AlignFlags, AlignProps, AlignDrain, NoTopUp, TopUpAsked, TopUpGot,
     PullDelay, PullNext, PullAsked, PullGot, IInv, TypeOK
<1>15. CASE ResetBegin
  BY <1>15, ResetFacts DEF ResetBegin, CancelAlign, Bereft, cloud, link, cache, pulling,
     Blame, PullRuns, Shape, IInv
<1>16. CASE ResetEnd
  BY <1>16, Places DEF ResetEnd, NewAlign, cloud, link, cache, tree, refreshing, topping,
     pulling, Shape, Message, NoRefresh, RefreshAsked, RefreshAnswered, NoAlign, AlignStart,
     AlignSpec, AlignFlags, AlignProps, AlignDrain, NoTopUp, TopUpAsked, TopUpGot, NoPull,
     PullDelay, PullNext, PullAsked, PullGot, IInv, TypeOK
<1>17. CASE AlignFail
  BY <1>17, Places DEF AlignFail, At, MovedOn, NewAlign, NoAlign, cloud, link, cache, tree,
     scopes, refreshing, topping, pulling, Shape, Message, NoRefresh, RefreshAsked,
     RefreshAnswered, AlignStart, AlignSpec, AlignFlags, AlignProps, AlignDrain, NoTopUp,
     TopUpAsked, TopUpGot, NoPull, PullDelay, PullNext, PullAsked, PullGot, IInv, TypeOK
<1>18. CASE AlignCollect
  BY <1>18, Places DEF AlignCollect, At, MovedOn, Here, Blame, cloud, link, cache, tree,
     scopes, refreshing, topping, pulling, NoAlign, Shape, Message, NoRefresh, RefreshAsked,
     RefreshAnswered, AlignStart, AlignSpec, AlignFlags, AlignProps, AlignDrain, NoTopUp,
     TopUpAsked, TopUpGot, NoPull, PullDelay, PullNext, PullAsked, PullGot, IInv, TypeOK
<1>19. CASE AlignLive
  BY <1>19, Places DEF AlignLive, At, Here, cloud, link, cache, tree, scopes, refreshing,
     topping, pulling, NoAlign, Shape, Message, NoRefresh, RefreshAsked, RefreshAnswered,
     AlignStart, AlignSpec, AlignFlags, AlignProps, AlignDrain, NoTopUp, TopUpAsked,
     TopUpGot, NoPull, PullDelay, PullNext, PullAsked, PullGot, IInv, TypeOK
<1>20. ASSUME NEW d \in Did, AlignFlag(d) PROVE Shape'
  BY <1>20, FlagFacts DEF AlignFlag, At, MovedOn, Haunted, Blame, cloud, link, cache,
     scopes, refreshing, topping, pulling, Here, Shape, IInv
<1>21. ASSUME NEW D \in SUBSET Did, AlignRead(D) PROVE Shape'
  BY <1>21, Places DEF AlignRead, At, Blame, cloud, link, cache, tree, scopes, refreshing,
     topping, pulling, NoAlign, Shape, Message, NoRefresh, RefreshAsked, RefreshAnswered,
     AlignStart, AlignSpec, AlignFlags, AlignProps, AlignDrain, NoTopUp, TopUpAsked,
     TopUpGot, NoPull, PullDelay, PullNext, PullAsked, PullGot, IInv, TypeOK
<1>22. ASSUME NEW d \in Did, AlignWrite(d) PROVE Shape'
  BY <1>22, WriteFacts DEF AlignWrite, At, MovedOn, Reported, Cleared, Haunted, Masking,
     cloud, link, cache, scopes, refreshing, topping, Blame, Here, PullRuns, Shape, IInv
<1>23. CASE AlignDone
  BY <1>23, Places DEF AlignDone, At, MovedOn, cloud, link, cache, tree, refreshing,
     pulling, NoAlign, Shape, Message, NoRefresh, RefreshAsked, RefreshAnswered, AlignStart,
     AlignSpec, AlignFlags, AlignProps, AlignDrain, NoTopUp, TopUpAsked, TopUpGot, NoPull,
     PullDelay, PullNext, PullAsked, PullGot, IInv, TypeOK
<1>24. CASE AlignEnd
  BY <1>24, Places DEF AlignEnd, At, cloud, link, cache, tree, scopes, refreshing, topping,
     pulling, Shape, IInv
<1>25. ASSUME NEW d \in Did, TopUpTimer(d) PROVE Shape'
  BY <1>25, TimerFacts, BeginFacts DEF TopUpTimer, cloud, link, cache, tree, scopes,
     refreshing, pulling, Shape, IInv
<1>26. ASSUME NEW d \in Did, TopUpDrain(d) PROVE Shape'
  BY <1>26, DrainFacts, BeginFacts DEF TopUpDrain, At, cloud, link, cache, tree, scopes,
     refreshing, pulling, Shape, IInv
<1>27. ASSUME NEW d \in Did, NEW read \in BOOLEAN, TopUpAnswer(d, read) PROVE Shape'
  <2>1. topUp[d] \in TopUpAsked /\ report[d] \in Value
    BY <1>27, TopUpPlaces DEF TopUpAnswer, IInv, TypeOK
  <2>2. PICK g : /\ g = [at |-> "got", by |-> topUp[d].by, scope |-> topUp[d].scope,
                         used |-> topUp[d].used, val |-> IF read THEN report[d] ELSE None]
                 /\ topUp' = [topUp EXCEPT ![d] = g]
    BY <1>27 DEF TopUpAnswer
  <2>3. g \in TopUpGot
    BY <2>1, <2>2 DEF TopUpAsked, TopUpGot
  <2>4. topUp' \in [Did -> {NoTopUp} \cup TopUpAsked \cup TopUpGot]
    BY <2>2, <2>3 DEF IInv, Shape
  <2>5. UNCHANGED <<pushes, refresh, align, pull>>
    BY <1>27 DEF TopUpAnswer, link, refreshing, pulling
  <2>. QED BY <2>4, <2>5 DEF IInv, Shape
<1>28. ASSUME NEW d \in Did, TopUpEnd(d) PROVE Shape'
  BY <1>28, EndFacts DEF TopUpEnd, TopUpLands, Reported, Cleared, Masking, cloud, link,
     cache, scopes, refreshing, Aligned, Here, Blame, PullRuns, Shape, IInv
<1>29. CASE PullWake
  BY <1>29, Places DEF PullWake, cloud, link, cache, tree, scopes, refreshing, topping,
     Shape, Message, NoRefresh, RefreshAsked, RefreshAnswered, NoAlign, AlignStart,
     AlignSpec, AlignFlags, AlignProps, AlignDrain, NoTopUp, TopUpAsked, TopUpGot, NoPull,
     PullDelay, PullNext, PullAsked, PullGot, IInv, TypeOK
<1>30. ASSUME NEW d \in Did, PullAsk(d) PROVE Shape'
  BY <1>30, Places DEF PullAsk, cloud, link, cache, tree, scopes, refreshing, topping,
     Shape, Message, NoRefresh, RefreshAsked, RefreshAnswered, NoAlign, AlignStart,
     AlignSpec, AlignFlags, AlignProps, AlignDrain, NoTopUp, TopUpAsked, TopUpGot, NoPull,
     PullDelay, PullNext, PullAsked, PullGot, IInv, TypeOK
<1>31. ASSUME NEW read \in BOOLEAN, PullAnswer(read) PROVE Shape'
  BY <1>31, Places DEF PullAnswer, Blame, cloud, link, cache, tree, scopes, refreshing,
     topping, Shape, Message, NoRefresh, RefreshAsked, RefreshAnswered, NoAlign, AlignStart,
     AlignSpec, AlignFlags, AlignProps, AlignDrain, NoTopUp, TopUpAsked, TopUpGot, NoPull,
     PullDelay, PullNext, PullAsked, PullGot, IInv, TypeOK
<1>32. CASE PullWrite
  BY <1>32, PullWriteFacts DEF PullWrite, Aligned, Here, Blame, Kept, Reported, Cleared,
     cloud, link, cache, scopes, refreshing, topping, Shape, IInv
<1>33. CASE PullEnd
  BY <1>33, Places DEF PullEnd, NoPull, cloud, link, cache, tree, scopes, refreshing,
     topping, Shape, Message, NoRefresh, RefreshAsked, RefreshAnswered, NoAlign, AlignStart,
     AlignSpec, AlignFlags, AlignProps, AlignDrain, NoTopUp, TopUpAsked, TopUpGot,
     PullDelay, PullNext, PullAsked, PullGot, IInv, TypeOK
<1>. QED BY <1>1, <1>2, <1>3, <1>4, <1>5, <1>6, <1>7, <1>8, <1>9, <1>10, <1>11, <1>12,
         <1>13, <1>14, <1>15, <1>16, <1>17, <1>18, <1>19, <1>20, <1>21, <1>22, <1>23,
         <1>24, <1>25, <1>26, <1>27, <1>28, <1>29, <1>30, <1>31, <1>32, <1>33, Zenon
         DEF Next, Move, Arrive, Refresh, Reset, Align, TopUp, Pull

LEMMA CountedStep ==
  ASSUME Parameters, IInv, Next
  PROVE  Counted'
<1>1. ASSUME NEW d \in Did, NEW v \in Value, Report(d, v) PROVE Counted'
  BY <1>1, ReportFacts DEF Report, cache, tree, scopes, refreshing, topping, pulling,
     Counted, IInv
<1>2. ASSUME NEW d \in Did, Flip(d) PROVE Counted'
  BY <1>2, FlipFacts DEF Flip, cache, tree, scopes, refreshing, topping, pulling, Counted,
     IInv
<1>3. ASSUME NEW d \in Did, NEW h \in Home, MoveHome(d, h) PROVE Counted'
  BY <1>3, MoveHomeFacts DEF MoveHome, cache, tree, scopes, refreshing, topping, pulling,
     Counted, IInv
<1>4. CASE Disconnect
  BY <1>4, DisconnectFacts DEF Disconnect, cloud, cache, tree, scopes, refreshing, topping,
     pulling, Counted, IInv
<1>5. CASE UserRefresh
  BY <1>5, Places DEF UserRefresh, cloud, link, cache, tree, scopes, topping, pulling,
     Counted, IInv
<1>6. ASSUME NEW h \in Home, SwitchHome(h) PROVE Counted'
  BY <1>6, Places DEF SwitchHome, cloud, link, cache, tree, refreshing, topping, pulling,
     Counted, IInv
<1>7. CASE Reconnect
  BY <1>7, Places DEF Reconnect, cloud, cache, tree, scopes, topping, pulling, Counted,
     IInv
<1>8. CASE OnDeviceState
  BY <1>8, StateFacts DEF OnDeviceState, Here, Blame, cloud, scopes, pulling, Counted, IInv
<1>9. CASE OnDeviceProps
  BY <1>9, PropsFacts DEF OnDeviceProps, Aligned, Here, Reported, Cleared, Blame, cloud,
     cache, scopes, refreshing, topping, Counted, IInv
<1>10. CASE OnDeviceMeta
  BY <1>10, MetaFacts DEF OnDeviceMeta, cloud, cache, tree, scopes, topping, pulling,
     Counted, IInv
<1>11. CASE RefreshAsk
  BY <1>11, Places DEF RefreshAsk, cloud, link, cache, tree, scopes, topping, pulling,
     Counted, IInv
<1>12. CASE RefreshAnswer
  BY <1>12, Places DEF RefreshAnswer, cloud, link, cache, tree, scopes, topping, pulling,
     Counted, IInv
<1>13. CASE RefreshApply
  BY <1>13, ApplyFacts DEF RefreshApply, Reconcile, SyncOnline, tree, Blame, Here, Bereft,
     Listeners, cloud, link, scopes, topping, PullRuns, Counted, IInv
<1>14. CASE RefreshFail
  BY <1>14, Places DEF RefreshFail, Listeners, cloud, link, cache, tree, scopes, topping,
     Counted, IInv
<1>15. CASE ResetBegin
  BY <1>15, ResetFacts DEF ResetBegin, CancelAlign, Bereft, cloud, link, cache, pulling,
     NoTopUp, Blame, PullRuns, Counted, IInv, TypeOK, Shape, TopUpAsked, TopUpGot
<1>16. CASE ResetEnd
  BY <1>16, Places DEF ResetEnd, NewAlign, cloud, link, cache, tree, refreshing, topping,
     pulling, Counted, IInv
<1>17. CASE AlignFail
  BY <1>17, Places DEF AlignFail, At, MovedOn, NewAlign, cloud, link, cache, tree, scopes,
     refreshing, topping, pulling, Counted, IInv
<1>18. CASE AlignCollect
  BY <1>18, Places DEF AlignCollect, At, MovedOn, Here, Blame, cloud, link, cache, tree,
     scopes, refreshing, topping, pulling, Counted, IInv
<1>19. CASE AlignLive
  BY <1>19, Places DEF AlignLive, At, Here, cloud, link, cache, tree, scopes, refreshing,
     topping, pulling, Counted, IInv
<1>20. ASSUME NEW d \in Did, AlignFlag(d) PROVE Counted'
  BY <1>20, FlagFacts DEF AlignFlag, At, MovedOn, Haunted, Blame, cloud, link, cache,
     scopes, refreshing, topping, pulling, Here, Counted, IInv
<1>21. ASSUME NEW D \in SUBSET Did, AlignRead(D) PROVE Counted'
  BY <1>21, Places DEF AlignRead, At, Blame, cloud, link, cache, tree, scopes, refreshing,
     topping, pulling, Counted, IInv
<1>22. ASSUME NEW d \in Did, AlignWrite(d) PROVE Counted'
  BY <1>22, WriteFacts DEF AlignWrite, At, MovedOn, Reported, Cleared, Haunted, Masking,
     cloud, link, cache, scopes, refreshing, topping, Blame, Here, PullRuns, Counted, IInv
<1>23. CASE AlignDone
  BY <1>23, Places DEF AlignDone, At, MovedOn, cloud, link, cache, tree, refreshing,
     pulling, Counted, IInv
<1>24. CASE AlignEnd
  BY <1>24, Places DEF AlignEnd, At, cloud, link, cache, tree, scopes, refreshing, topping,
     pulling, Counted, IInv
<1>25. ASSUME NEW d \in Did, TopUpTimer(d) PROVE Counted'
  <2>1. TopUpBegin(d, "timer") /\ scope' = scope /\ used' = used
    BY <1>25 DEF TopUpTimer, scopes
  <2>. SUFFICES ASSUME NEW e \in Did, topUp'[e] # NoTopUp
                PROVE  /\ topUp'[e].used < MaxTopUps /\ topUp'[e].scope <= scope
                       /\ topUp'[e].scope = scope => used[e] = topUp'[e].used
    BY <2>1 DEF Counted
  <2>2. CASE topUp'[e] = topUp[e]
    BY <2>2 DEF IInv, Counted
  <2>3. CASE topUp'[e] # topUp[e]
    <3>1. scope \in Int
      BY DEF IInv, TypeOK, Parameters
    <3>. QED BY <2>1, <2>3, <3>1, BeginFacts
  <2>. QED BY <2>2, <2>3
<1>26. ASSUME NEW d \in Did, TopUpDrain(d) PROVE Counted'
  <2>1. TopUpBegin(d, "drain") /\ scope' = scope /\ used' = used
    BY <1>26 DEF TopUpDrain, scopes
  <2>. SUFFICES ASSUME NEW e \in Did, topUp'[e] # NoTopUp
                PROVE  /\ topUp'[e].used < MaxTopUps /\ topUp'[e].scope <= scope
                       /\ topUp'[e].scope = scope => used[e] = topUp'[e].used
    BY <2>1 DEF Counted
  <2>2. CASE topUp'[e] = topUp[e]
    BY <2>2 DEF IInv, Counted
  <2>3. CASE topUp'[e] # topUp[e]
    <3>1. scope \in Int
      BY DEF IInv, TypeOK, Parameters
    <3>. QED BY <2>1, <2>3, <3>1, BeginFacts
  <2>. QED BY <2>2, <2>3
<1>27. ASSUME NEW d \in Did, NEW read \in BOOLEAN, TopUpAnswer(d, read) PROVE Counted'
  BY <1>27, Places, TopUpPlaces DEF TopUpAnswer, Blame, cloud, link, cache, tree, scopes,
     refreshing, pulling, Counted, IInv
<1>28. ASSUME NEW d \in Did, TopUpEnd(d) PROVE Counted'
  BY <1>28, EndFacts DEF TopUpEnd, TopUpLands, Reported, Cleared, Masking, cloud, link,
     cache, scopes, refreshing, Aligned, Here, Blame, PullRuns, Counted, IInv
<1>29. CASE PullWake
  BY <1>29, Places DEF PullWake, cloud, link, cache, tree, scopes, refreshing, topping,
     Counted, IInv
<1>30. ASSUME NEW d \in Did, PullAsk(d) PROVE Counted'
  BY <1>30, Places DEF PullAsk, cloud, link, cache, tree, scopes, refreshing, topping,
     Counted, IInv
<1>31. ASSUME NEW read \in BOOLEAN, PullAnswer(read) PROVE Counted'
  BY <1>31, Places DEF PullAnswer, Blame, cloud, link, cache, tree, scopes, refreshing,
     topping, Counted, IInv
<1>32. CASE PullWrite
  BY <1>32, PullWriteFacts DEF PullWrite, Aligned, Here, Blame, Kept, Reported, Cleared,
     cloud, link, cache, scopes, refreshing, topping, Counted, IInv
<1>33. CASE PullEnd
  BY <1>33, Places DEF PullEnd, cloud, link, cache, tree, scopes, refreshing, topping,
     Counted, IInv
<1>. QED BY <1>1, <1>2, <1>3, <1>4, <1>5, <1>6, <1>7, <1>8, <1>9, <1>10, <1>11, <1>12,
         <1>13, <1>14, <1>15, <1>16, <1>17, <1>18, <1>19, <1>20, <1>21, <1>22, <1>23,
         <1>24, <1>25, <1>26, <1>27, <1>28, <1>29, <1>30, <1>31, <1>32, <1>33, Zenon
         DEF Next, Move, Arrive, Refresh, Reset, Align, TopUp, Pull

LEMMA QueueRightStep ==
  ASSUME Parameters, IInv, Next
  PROVE  QueueRight'
<1>1. ASSUME NEW d \in Did, NEW v \in Value, Report(d, v) PROVE QueueRight'
  BY <1>1, ReportFacts DEF Report, cache, tree, scopes, refreshing, topping, pulling,
     QueueRight, IInv
<1>2. ASSUME NEW d \in Did, Flip(d) PROVE QueueRight'
  BY <1>2, FlipFacts DEF Flip, cache, tree, scopes, refreshing, topping, pulling,
     QueueRight, IInv
<1>3. ASSUME NEW d \in Did, NEW h \in Home, MoveHome(d, h) PROVE QueueRight'
  BY <1>3, MoveHomeFacts DEF MoveHome, cache, tree, scopes, refreshing, topping, pulling,
     QueueRight, IInv
<1>4. CASE Disconnect
  BY <1>4, DisconnectFacts DEF Disconnect, cloud, cache, tree, scopes, refreshing, topping,
     pulling, QueueRight, IInv
<1>5. CASE UserRefresh
  BY <1>5 DEF UserRefresh, cloud, link, cache, tree, scopes, topping, pulling, QueueRight,
     IInv
<1>6. ASSUME NEW h \in Home, SwitchHome(h) PROVE QueueRight'
  BY <1>6 DEF SwitchHome, cloud, link, cache, tree, refreshing, topping, pulling,
     QueueRight, IInv
<1>7. CASE Reconnect
  BY <1>7 DEF Reconnect, cloud, cache, tree, scopes, topping, pulling, QueueRight, IInv
<1>8. CASE OnDeviceState
  BY <1>8, StateFacts DEF OnDeviceState, Here, Blame, cloud, scopes, pulling, QueueRight,
     IInv
<1>9. CASE OnDeviceProps
  BY <1>9, PropsFacts DEF OnDeviceProps, Aligned, Here, Reported, Cleared, Blame, cloud,
     cache, scopes, refreshing, topping, QueueRight, IInv
<1>10. CASE OnDeviceMeta
  BY <1>10, MetaFacts DEF OnDeviceMeta, cloud, cache, tree, scopes, topping, pulling,
     QueueRight, IInv
<1>11. CASE RefreshAsk
  BY <1>11 DEF RefreshAsk, cloud, link, cache, tree, scopes, topping, pulling, QueueRight,
     IInv
<1>12. CASE RefreshAnswer
  BY <1>12 DEF RefreshAnswer, cloud, link, cache, tree, scopes, topping, pulling,
     QueueRight, IInv
<1>13. CASE RefreshApply
  BY <1>13, ApplyFacts DEF RefreshApply, Reconcile, SyncOnline, tree, Blame, Here, Bereft,
     Listeners, cloud, link, scopes, topping, PullRuns, QueueRight, IInv
<1>14. CASE RefreshFail
  BY <1>14 DEF RefreshFail, Listeners, cloud, link, cache, tree, scopes, topping,
     QueueRight, IInv
<1>15. CASE ResetBegin
  BY <1>15, ResetFacts DEF ResetBegin, CancelAlign, Bereft, cloud, link, cache, pulling,
     Blame, PullRuns, QueueRight, IInv
<1>16. CASE ResetEnd
  BY <1>16 DEF ResetEnd, NewAlign, cloud, link, cache, tree, refreshing, topping, pulling,
     QueueRight, IInv
<1>17. CASE AlignFail
  BY <1>17 DEF AlignFail, At, MovedOn, NewAlign, cloud, link, cache, tree, scopes,
     refreshing, topping, pulling, QueueRight, IInv
<1>18. CASE AlignCollect
  BY <1>18 DEF AlignCollect, At, MovedOn, Here, Blame, cloud, link, cache, tree, scopes,
     refreshing, topping, pulling, QueueRight, IInv
<1>19. CASE AlignLive
  BY <1>19 DEF AlignLive, At, Here, cloud, link, cache, tree, scopes, refreshing, topping,
     pulling, QueueRight, IInv
<1>20. ASSUME NEW d \in Did, AlignFlag(d) PROVE QueueRight'
  BY <1>20, FlagFacts DEF AlignFlag, At, MovedOn, Haunted, Blame, cloud, link, cache,
     scopes, refreshing, topping, pulling, Here, QueueRight, IInv
<1>21. ASSUME NEW D \in SUBSET Did, AlignRead(D) PROVE QueueRight'
  BY <1>21 DEF AlignRead, At, Blame, cloud, link, cache, tree, scopes, refreshing, topping,
     pulling, QueueRight, IInv
<1>22. ASSUME NEW d \in Did, AlignWrite(d) PROVE QueueRight'
  BY <1>22, WriteFacts DEF AlignWrite, At, MovedOn, Reported, Cleared, Haunted, Masking,
     cloud, link, cache, scopes, refreshing, topping, Blame, Here, PullRuns, QueueRight,
     IInv
<1>23. CASE AlignDone
  BY <1>23 DEF AlignDone, At, MovedOn, cloud, link, cache, tree, refreshing, pulling,
     QueueRight, IInv
<1>24. CASE AlignEnd
  BY <1>24 DEF AlignEnd, At, cloud, link, cache, tree, scopes, refreshing, topping, pulling,
     QueueRight, IInv
<1>25. ASSUME NEW d \in Did, TopUpTimer(d) PROVE QueueRight'
  BY <1>25, TimerFacts, BeginFacts DEF TopUpTimer, cloud, link, cache, tree, scopes,
     refreshing, pulling, QueueRight, IInv
<1>26. ASSUME NEW d \in Did, TopUpDrain(d) PROVE QueueRight'
  BY <1>26, DrainFacts, BeginFacts DEF TopUpDrain, At, cloud, link, cache, tree, scopes,
     refreshing, pulling, QueueRight, IInv
<1>27. ASSUME NEW d \in Did, NEW read \in BOOLEAN, TopUpAnswer(d, read) PROVE QueueRight'
  BY <1>27 DEF TopUpAnswer, Blame, cloud, link, cache, tree, scopes, refreshing, pulling,
     QueueRight, IInv
<1>28. ASSUME NEW d \in Did, TopUpEnd(d) PROVE QueueRight'
  BY <1>28, EndFacts DEF TopUpEnd, TopUpLands, Reported, Cleared, Masking, cloud, link,
     cache, scopes, refreshing, Aligned, Here, Blame, PullRuns, QueueRight, IInv
<1>29. CASE PullWake
  BY <1>29 DEF PullWake, cloud, link, cache, tree, scopes, refreshing, topping, QueueRight,
     IInv
<1>30. ASSUME NEW d \in Did, PullAsk(d) PROVE QueueRight'
  BY <1>30 DEF PullAsk, cloud, link, cache, tree, scopes, refreshing, topping, QueueRight,
     IInv
<1>31. ASSUME NEW read \in BOOLEAN, PullAnswer(read) PROVE QueueRight'
  BY <1>31 DEF PullAnswer, Blame, cloud, link, cache, tree, scopes, refreshing, topping,
     QueueRight, IInv
<1>32. CASE PullWrite
  BY <1>32, PullWriteFacts DEF PullWrite, Aligned, Here, Blame, Kept, Reported, Cleared,
     cloud, link, cache, scopes, refreshing, topping, QueueRight, IInv
<1>33. CASE PullEnd
  BY <1>33 DEF PullEnd, cloud, link, cache, tree, scopes, refreshing, topping, QueueRight,
     IInv
<1>. QED BY <1>1, <1>2, <1>3, <1>4, <1>5, <1>6, <1>7, <1>8, <1>9, <1>10, <1>11, <1>12,
         <1>13, <1>14, <1>15, <1>16, <1>17, <1>18, <1>19, <1>20, <1>21, <1>22, <1>23,
         <1>24, <1>25, <1>26, <1>27, <1>28, <1>29, <1>30, <1>31, <1>32, <1>33, Zenon
         DEF Next, Move, Arrive, Refresh, Reset, Align, TopUp, Pull

LEMMA ScopesStep ==
  ASSUME Parameters, IInv, Next
  PROVE  Scopes'
<1>1. ASSUME NEW d \in Did, NEW v \in Value, Report(d, v) PROVE Scopes'
  BY <1>1, ReportFacts DEF Report, cache, tree, scopes, refreshing, topping, pulling,
     Scopes, IInv
<1>2. ASSUME NEW d \in Did, Flip(d) PROVE Scopes'
  BY <1>2, FlipFacts DEF Flip, cache, tree, scopes, refreshing, topping, pulling, Scopes,
     IInv
<1>3. ASSUME NEW d \in Did, NEW h \in Home, MoveHome(d, h) PROVE Scopes'
  BY <1>3, MoveHomeFacts DEF MoveHome, cache, tree, scopes, refreshing, topping, pulling,
     Scopes, IInv
<1>4. CASE Disconnect
  BY <1>4, DisconnectFacts DEF Disconnect, cloud, cache, tree, scopes, refreshing, topping,
     pulling, Scopes, IInv
<1>5. CASE UserRefresh
  BY <1>5, Places DEF UserRefresh, cloud, link, cache, tree, scopes, topping, pulling,
     Scopes, IInv
<1>6. ASSUME NEW h \in Home, SwitchHome(h) PROVE Scopes'
  <2>1. scope' + resets' <= MaxScope
    BY <1>6 DEF SwitchHome, IInv, TypeOK, Parameters
  <2>. QED BY <1>6, <2>1 DEF SwitchHome, refreshing, IInv, Scopes
<1>7. CASE Reconnect
  BY <1>7, Places DEF Reconnect, cloud, cache, tree, scopes, topping, pulling, Scopes, IInv
<1>8. CASE OnDeviceState
  BY <1>8, StateFacts DEF OnDeviceState, Here, Blame, cloud, scopes, pulling, Scopes, IInv
<1>9. CASE OnDeviceProps
  BY <1>9, PropsFacts DEF OnDeviceProps, Aligned, Here, Reported, Cleared, Blame, cloud,
     cache, scopes, refreshing, topping, Scopes, IInv
<1>10. CASE OnDeviceMeta
  BY <1>10, MetaFacts DEF OnDeviceMeta, cloud, cache, tree, scopes, topping, pulling,
     Scopes, IInv
<1>11. CASE RefreshAsk
  BY <1>11, Places DEF RefreshAsk, cloud, link, cache, tree, scopes, topping, pulling,
     Scopes, IInv
<1>12. CASE RefreshAnswer
  BY <1>12, Places DEF RefreshAnswer, cloud, link, cache, tree, scopes, topping, pulling,
     Scopes, IInv
<1>13. CASE RefreshApply
  BY <1>13, ApplyFacts DEF RefreshApply, Reconcile, SyncOnline, tree, Blame, Here, Bereft,
     Listeners, cloud, link, scopes, topping, PullRuns, Scopes, IInv
<1>14. CASE RefreshFail
  BY <1>14, Places DEF RefreshFail, Listeners, cloud, link, cache, tree, scopes, topping,
     Scopes, IInv
<1>15. CASE ResetBegin
  BY <1>15, ResetFacts DEF ResetBegin, CancelAlign, Bereft, cloud, link, cache, pulling,
     NoAlign, NoTopUp, Blame, PullRuns, Scopes, NoRefresh, IInv, TypeOK, Shape, NoPull
<1>16. CASE ResetEnd
  BY <1>16, Places DEF ResetEnd, NewAlign, cloud, link, cache, tree, refreshing, topping,
     pulling, Scopes, IInv
<1>17. CASE AlignFail
  BY <1>17, Places DEF AlignFail, At, MovedOn, NewAlign, NoAlign, cloud, link, cache, tree,
     scopes, refreshing, topping, pulling, Scopes, NoRefresh, IInv, NoTopUp, NoPull
<1>18. CASE AlignCollect
  BY <1>18, Places DEF AlignCollect, At, MovedOn, Here, Blame, cloud, link, cache, tree,
     scopes, refreshing, topping, pulling, Scopes, IInv
<1>19. CASE AlignLive
  BY <1>19, Places DEF AlignLive, At, Here, cloud, link, cache, tree, scopes, refreshing,
     topping, pulling, Scopes, IInv
<1>20. ASSUME NEW d \in Did, AlignFlag(d) PROVE Scopes'
  BY <1>20, FlagFacts DEF AlignFlag, At, MovedOn, Haunted, Blame, cloud, link, cache,
     scopes, refreshing, topping, pulling, Here, Scopes, IInv
<1>21. ASSUME NEW D \in SUBSET Did, AlignRead(D) PROVE Scopes'
  BY <1>21, Places DEF AlignRead, At, Blame, cloud, link, cache, tree, scopes, refreshing,
     topping, pulling, Scopes, IInv
<1>22. ASSUME NEW d \in Did, AlignWrite(d) PROVE Scopes'
  BY <1>22, WriteFacts DEF AlignWrite, At, MovedOn, Reported, Cleared, Haunted, Masking,
     cloud, link, cache, scopes, refreshing, topping, Blame, Here, PullRuns, Scopes, IInv
<1>23. CASE AlignDone
  BY <1>23, Places DEF AlignDone, At, MovedOn, cloud, link, cache, tree, refreshing,
     pulling, Scopes, IInv
<1>24. CASE AlignEnd
  BY <1>24, Places DEF AlignEnd, At, NoAlign, cloud, link, cache, tree, scopes, refreshing,
     topping, pulling, Scopes, NoRefresh, IInv, NoTopUp, NoPull
<1>25. ASSUME NEW d \in Did, TopUpTimer(d) PROVE Scopes'
  BY <1>25, TimerFacts, BeginFacts DEF TopUpTimer, cloud, link, cache, tree, scopes,
     refreshing, pulling, Scopes, IInv
<1>26. ASSUME NEW d \in Did, TopUpDrain(d) PROVE Scopes'
  BY <1>26, DrainFacts, BeginFacts DEF TopUpDrain, At, cloud, link, cache, tree, scopes,
     refreshing, pulling, Scopes, IInv
<1>27. ASSUME NEW d \in Did, NEW read \in BOOLEAN, TopUpAnswer(d, read) PROVE Scopes'
  BY <1>27, Places, TopUpPlaces DEF TopUpAnswer, Blame, cloud, link, cache, tree, scopes,
     refreshing, pulling, Scopes, IInv
<1>28. ASSUME NEW d \in Did, TopUpEnd(d) PROVE Scopes'
  BY <1>28, EndFacts DEF TopUpEnd, TopUpLands, Reported, Cleared, Masking, cloud, link,
     cache, scopes, refreshing, Aligned, Here, Blame, PullRuns, Scopes, IInv
<1>29. CASE PullWake
  BY <1>29, Places DEF PullWake, cloud, link, cache, tree, scopes, refreshing, topping,
     Scopes, IInv
<1>30. ASSUME NEW d \in Did, PullAsk(d) PROVE Scopes'
  BY <1>30, Places DEF PullAsk, cloud, link, cache, tree, scopes, refreshing, topping,
     Scopes, IInv
<1>31. ASSUME NEW read \in BOOLEAN, PullAnswer(read) PROVE Scopes'
  BY <1>31, Places DEF PullAnswer, Blame, cloud, link, cache, tree, scopes, refreshing,
     topping, Scopes, IInv
<1>32. CASE PullWrite
  BY <1>32, PullWriteFacts DEF PullWrite, Aligned, Here, Blame, Kept, Reported, Cleared,
     cloud, link, cache, scopes, refreshing, topping, Scopes, IInv
<1>33. CASE PullEnd
  BY <1>33, Places DEF PullEnd, cloud, link, cache, tree, scopes, refreshing, topping,
     Scopes, IInv
<1>. QED BY <1>1, <1>2, <1>3, <1>4, <1>5, <1>6, <1>7, <1>8, <1>9, <1>10, <1>11, <1>12,
         <1>13, <1>14, <1>15, <1>16, <1>17, <1>18, <1>19, <1>20, <1>21, <1>22, <1>23,
         <1>24, <1>25, <1>26, <1>27, <1>28, <1>29, <1>30, <1>31, <1>32, <1>33, Zenon
         DEF Next, Move, Arrive, Refresh, Reset, Align, TopUp, Pull

LEMMA PullIdleStep ==
  ASSUME Parameters, IInv, Next
  PROVE  PullIdle'
<1>1. ASSUME NEW d \in Did, NEW v \in Value, Report(d, v) PROVE PullIdle'
  BY <1>1, ReportFacts DEF Report, cache, tree, scopes, refreshing, topping, pulling,
     PullIdle, IInv
<1>2. ASSUME NEW d \in Did, Flip(d) PROVE PullIdle'
  BY <1>2, FlipFacts DEF Flip, cache, tree, scopes, refreshing, topping, pulling, PullIdle,
     IInv
<1>3. ASSUME NEW d \in Did, NEW h \in Home, MoveHome(d, h) PROVE PullIdle'
  BY <1>3, MoveHomeFacts DEF MoveHome, cache, tree, scopes, refreshing, topping, pulling,
     PullIdle, IInv
<1>4. CASE Disconnect
  BY <1>4, DisconnectFacts DEF Disconnect, cloud, cache, tree, scopes, refreshing, topping,
     pulling, PullIdle, IInv
<1>5. CASE UserRefresh
  BY <1>5, Places DEF UserRefresh, cloud, link, cache, tree, scopes, topping, pulling,
     PullIdle, IInv
<1>6. ASSUME NEW h \in Home, SwitchHome(h) PROVE PullIdle'
  BY <1>6, Places DEF SwitchHome, cloud, link, cache, tree, refreshing, topping, pulling,
     PullIdle, IInv
<1>7. CASE Reconnect
  BY <1>7, Places DEF Reconnect, cloud, cache, tree, scopes, topping, pulling, PullIdle,
     IInv
<1>8. CASE OnDeviceState
  BY <1>8, StateFacts DEF OnDeviceState, Here, Blame, cloud, scopes, pulling, PullIdle, IInv
<1>9. CASE OnDeviceProps
  BY <1>9, PropsFacts DEF OnDeviceProps, Aligned, Here, Reported, Cleared, Blame, cloud,
     cache, scopes, refreshing, topping, PullIdle, IInv
<1>10. CASE OnDeviceMeta
  BY <1>10, MetaFacts DEF OnDeviceMeta, cloud, cache, tree, scopes, topping, pulling,
     PullIdle, IInv
<1>11. CASE RefreshAsk
  BY <1>11, Places DEF RefreshAsk, cloud, link, cache, tree, scopes, topping, pulling,
     PullIdle, IInv
<1>12. CASE RefreshAnswer
  BY <1>12, Places DEF RefreshAnswer, cloud, link, cache, tree, scopes, topping, pulling,
     PullIdle, IInv
<1>13. CASE RefreshApply
  BY <1>13, ApplyFacts DEF RefreshApply, Reconcile, SyncOnline, tree, Blame, Here, Bereft,
     Listeners, cloud, link, scopes, topping, PullRuns, PullIdle, IInv
<1>14. CASE RefreshFail
  BY <1>14, Places DEF RefreshFail, Listeners, cloud, link, cache, tree, scopes, topping,
     PullIdle, IInv
<1>15. CASE ResetBegin
  BY <1>15, ResetFacts DEF ResetBegin, CancelAlign, Bereft, cloud, link, cache, pulling,
     Blame, PullRuns, PullIdle, IInv
<1>16. CASE ResetEnd
  BY <1>16, Places DEF ResetEnd, NewAlign, cloud, link, cache, tree, refreshing, topping,
     pulling, PullIdle, IInv
<1>17. CASE AlignFail
  BY <1>17, Places DEF AlignFail, At, MovedOn, NewAlign, cloud, link, cache, tree, scopes,
     refreshing, topping, pulling, PullIdle, IInv
<1>18. CASE AlignCollect
  BY <1>18, Places DEF AlignCollect, At, MovedOn, Here, Blame, cloud, link, cache, tree,
     scopes, refreshing, topping, pulling, PullIdle, IInv
<1>19. CASE AlignLive
  BY <1>19, Places DEF AlignLive, At, Here, cloud, link, cache, tree, scopes, refreshing,
     topping, pulling, PullIdle, IInv
<1>20. ASSUME NEW d \in Did, AlignFlag(d) PROVE PullIdle'
  BY <1>20, FlagFacts DEF AlignFlag, At, MovedOn, Haunted, Blame, cloud, link, cache,
     scopes, refreshing, topping, pulling, Here, PullIdle, IInv
<1>21. ASSUME NEW D \in SUBSET Did, AlignRead(D) PROVE PullIdle'
  BY <1>21, Places DEF AlignRead, At, Blame, cloud, link, cache, tree, scopes, refreshing,
     topping, pulling, PullIdle, IInv
<1>22. ASSUME NEW d \in Did, AlignWrite(d) PROVE PullIdle'
  BY <1>22, WriteFacts DEF AlignWrite, At, MovedOn, Reported, Cleared, Haunted, Masking,
     cloud, link, cache, scopes, refreshing, topping, Blame, Here, PullRuns, PullIdle, IInv
<1>23. CASE AlignDone
  BY <1>23, Places DEF AlignDone, At, MovedOn, cloud, link, cache, tree, refreshing,
     pulling, PullIdle, IInv
<1>24. CASE AlignEnd
  BY <1>24, Places DEF AlignEnd, At, cloud, link, cache, tree, scopes, refreshing, topping,
     pulling, PullIdle, IInv
<1>25. ASSUME NEW d \in Did, TopUpTimer(d) PROVE PullIdle'
  BY <1>25, TimerFacts, BeginFacts DEF TopUpTimer, cloud, link, cache, tree, scopes,
     refreshing, pulling, PullIdle, IInv
<1>26. ASSUME NEW d \in Did, TopUpDrain(d) PROVE PullIdle'
  BY <1>26, DrainFacts, BeginFacts DEF TopUpDrain, At, cloud, link, cache, tree, scopes,
     refreshing, pulling, PullIdle, IInv
<1>27. ASSUME NEW d \in Did, NEW read \in BOOLEAN, TopUpAnswer(d, read) PROVE PullIdle'
  BY <1>27, Places, TopUpPlaces DEF TopUpAnswer, Blame, cloud, link, cache, tree, scopes,
     refreshing, pulling, PullIdle, IInv
<1>28. ASSUME NEW d \in Did, TopUpEnd(d) PROVE PullIdle'
  BY <1>28, EndFacts DEF TopUpEnd, TopUpLands, Reported, Cleared, Masking, cloud, link,
     cache, scopes, refreshing, Aligned, Here, Blame, PullRuns, PullIdle, IInv
<1>29. CASE PullWake
  BY <1>29, Places DEF PullWake, cloud, link, cache, tree, scopes, refreshing, topping,
     PullIdle, NoPull, IInv, NoRefresh, NoAlign, NoTopUp
<1>30. ASSUME NEW d \in Did, PullAsk(d) PROVE PullIdle'
  BY <1>30, Places DEF PullAsk, cloud, link, cache, tree, scopes, refreshing, topping,
     PullIdle, NoPull, IInv, NoRefresh, NoAlign, NoTopUp
<1>31. ASSUME NEW read \in BOOLEAN, PullAnswer(read) PROVE PullIdle'
  BY <1>31, Places DEF PullAnswer, Blame, cloud, link, cache, tree, scopes, refreshing,
     topping, PullIdle, NoPull, IInv, NoRefresh, NoAlign, NoTopUp
<1>32. CASE PullWrite
  BY <1>32, PullWriteFacts DEF PullWrite, Aligned, Here, Blame, Kept, Reported, Cleared,
     cloud, link, cache, scopes, refreshing, topping, PullIdle, NoPull, IInv, NoRefresh,
     NoAlign, NoTopUp
<1>33. CASE PullEnd
  BY <1>33, Places DEF PullEnd, cloud, link, cache, tree, scopes, refreshing, topping,
     PullIdle, IInv
<1>. QED BY <1>1, <1>2, <1>3, <1>4, <1>5, <1>6, <1>7, <1>8, <1>9, <1>10, <1>11, <1>12,
         <1>13, <1>14, <1>15, <1>16, <1>17, <1>18, <1>19, <1>20, <1>21, <1>22, <1>23,
         <1>24, <1>25, <1>26, <1>27, <1>28, <1>29, <1>30, <1>31, <1>32, <1>33, Zenon
         DEF Next, Move, Arrive, Refresh, Reset, Align, TopUp, Pull

LEMMA HomeKnownStep ==
  ASSUME Parameters, IInv, Next
  PROVE  HomeKnown'
<1>1. ASSUME NEW d \in Did, NEW v \in Value, Report(d, v) PROVE HomeKnown'
  BY <1>1, ReportFacts DEF Report, cache, tree, scopes, refreshing, topping, pulling,
     HomeKnown, Soon, IInv
<1>2. ASSUME NEW d \in Did, Flip(d) PROVE HomeKnown'
  BY <1>2, FlipFacts DEF Flip, cache, tree, scopes, refreshing, topping, pulling, HomeKnown,
     Soon, IInv
<1>3. ASSUME NEW d \in Did, NEW h \in Home, MoveHome(d, h) PROVE HomeKnown'
  BY <1>3, MoveHomeFacts DEF MoveHome, cache, tree, scopes, refreshing, topping, pulling,
     HomeKnown, Soon, IInv
<1>4. CASE Disconnect
  BY <1>4, DisconnectFacts DEF Disconnect, cloud, cache, tree, scopes, refreshing, topping,
     pulling, HomeKnown, Soon, IInv
<1>5. CASE UserRefresh
  BY <1>5, WayKept, Places DEF UserRefresh, cloud, link, cache, tree, scopes, topping,
     pulling, HomeKnown, Soon, IInv
<1>6. ASSUME NEW h \in Home, SwitchHome(h) PROVE HomeKnown'
  BY <1>6, WayKept, Places DEF SwitchHome, cloud, link, cache, tree, refreshing, topping,
     pulling, HomeKnown, Soon, IInv
<1>7. CASE Reconnect
  BY <1>7, WayKept, Places DEF Reconnect, cloud, cache, tree, scopes, topping, pulling,
     HomeKnown, Soon, IInv
<1>8. CASE OnDeviceState
  BY <1>8, StateFacts DEF OnDeviceState, Here, Blame, cloud, scopes, pulling, HomeKnown,
     Soon, IInv
<1>9. CASE OnDeviceProps
  BY <1>9, PropsFacts DEF OnDeviceProps, Aligned, Here, Reported, Cleared, Blame, cloud,
     cache, scopes, refreshing, topping, HomeKnown, Soon, IInv
<1>10. CASE OnDeviceMeta
  BY <1>10, MetaFacts DEF OnDeviceMeta, cloud, cache, tree, scopes, topping, pulling,
     HomeKnown, Soon, IInv
<1>11. CASE RefreshAsk
  BY <1>11, WayKept, Places DEF RefreshAsk, NoRefresh, cloud, link, cache, tree, scopes,
     topping, pulling, HomeKnown, Soon, IInv, NoAlign, NoTopUp, NoPull
<1>12. CASE RefreshAnswer
  BY <1>12, WayKept, Places DEF RefreshAnswer, NoRefresh, cloud, link, cache, tree, scopes,
     topping, pulling, HomeKnown, Soon, IInv, NoAlign, NoTopUp, NoPull
<1>13. CASE RefreshApply
  BY <1>13, WayKept, ApplyFacts DEF RefreshApply, Reconcile, SyncOnline, tree, Blame, Here,
     Bereft, Listeners, cloud, link, scopes, topping, PullRuns, HomeKnown, Soon, IInv
<1>14. CASE RefreshFail
  BY <1>14, WayKept, Places DEF RefreshFail, Listeners, cloud, link, cache, tree, scopes,
     topping, HomeKnown, Soon, IInv
<1>15. CASE ResetBegin
  BY <1>15, WayKept, ResetFacts DEF ResetBegin, CancelAlign, Bereft, cloud, link, cache,
     pulling, Blame, PullRuns, HomeKnown, Soon, IInv
<1>16. CASE ResetEnd
  BY <1>16, WayKept, Places DEF ResetEnd, NewAlign, cloud, link, cache, tree, refreshing,
     topping, pulling, HomeKnown, Soon, IInv
<1>17. CASE AlignFail
  BY <1>17, WayKept, Places DEF AlignFail, At, MovedOn, NewAlign, cloud, link, cache, tree,
     scopes, refreshing, topping, pulling, HomeKnown, Soon, IInv
<1>18. CASE AlignCollect
  BY <1>18, WayKept, Places DEF AlignCollect, At, MovedOn, Here, Blame, cloud, link, cache,
     tree, scopes, refreshing, topping, pulling, HomeKnown, Soon, IInv
<1>19. CASE AlignLive
  BY <1>19, WayKept, Places DEF AlignLive, At, Here, cloud, link, cache, tree, scopes,
     refreshing, topping, pulling, HomeKnown, Soon, IInv
<1>20. ASSUME NEW d \in Did, AlignFlag(d) PROVE HomeKnown'
  BY <1>20, WayKept, FlagFacts DEF AlignFlag, At, MovedOn, Haunted, Blame, cloud, link,
     cache, scopes, refreshing, topping, pulling, Here, HomeKnown, Soon, IInv
<1>21. ASSUME NEW D \in SUBSET Did, AlignRead(D) PROVE HomeKnown'
  BY <1>21, WayKept, Places DEF AlignRead, At, Blame, cloud, link, cache, tree, scopes,
     refreshing, topping, pulling, HomeKnown, Soon, IInv
<1>22. ASSUME NEW d \in Did, AlignWrite(d) PROVE HomeKnown'
  BY <1>22, WayKept, WriteFacts DEF AlignWrite, At, MovedOn, Reported, Cleared, Haunted,
     Masking, cloud, link, cache, scopes, refreshing, topping, Blame, Here, PullRuns,
     HomeKnown, Soon, IInv
<1>23. CASE AlignDone
  BY <1>23, WayKept, Places DEF AlignDone, At, MovedOn, cloud, link, cache, tree,
     refreshing, pulling, HomeKnown, Soon, IInv
<1>24. CASE AlignEnd
  BY <1>24, WayKept, Places DEF AlignEnd, At, cloud, link, cache, tree, scopes, refreshing,
     topping, pulling, HomeKnown, Soon, IInv
<1>25. ASSUME NEW d \in Did, TopUpTimer(d) PROVE HomeKnown'
  BY <1>25, WayKept, TimerFacts, BeginFacts DEF TopUpTimer, cloud, link, cache, tree,
     scopes, refreshing, pulling, HomeKnown, Soon, IInv
<1>26. ASSUME NEW d \in Did, TopUpDrain(d) PROVE HomeKnown'
  BY <1>26, WayKept, DrainFacts, BeginFacts DEF TopUpDrain, At, cloud, link, cache, tree,
     scopes, refreshing, pulling, HomeKnown, Soon, IInv
<1>27. ASSUME NEW d \in Did, NEW read \in BOOLEAN, TopUpAnswer(d, read) PROVE HomeKnown'
  BY <1>27, WayKept, Places, TopUpPlaces DEF TopUpAnswer, Blame, cloud, link, cache, tree,
     scopes, refreshing, pulling, HomeKnown, Soon, IInv
<1>28. ASSUME NEW d \in Did, TopUpEnd(d) PROVE HomeKnown'
  BY <1>28, WayKept, EndFacts DEF TopUpEnd, TopUpLands, Reported, Cleared, Masking, cloud,
     link, cache, scopes, refreshing, Aligned, Here, Blame, PullRuns, HomeKnown, Soon, IInv
<1>29. CASE PullWake
  BY <1>29, WayKept, Places DEF PullWake, cloud, link, cache, tree, scopes, refreshing,
     topping, HomeKnown, Soon, IInv
<1>30. ASSUME NEW d \in Did, PullAsk(d) PROVE HomeKnown'
  BY <1>30, WayKept, Places DEF PullAsk, cloud, link, cache, tree, scopes, refreshing,
     topping, HomeKnown, Soon, IInv
<1>31. ASSUME NEW read \in BOOLEAN, PullAnswer(read) PROVE HomeKnown'
  BY <1>31, WayKept, Places DEF PullAnswer, Blame, cloud, link, cache, tree, scopes,
     refreshing, topping, HomeKnown, Soon, IInv
<1>32. CASE PullWrite
  BY <1>32, WayKept, PullWriteFacts DEF PullWrite, Aligned, Here, Blame, Kept, Reported,
     Cleared, cloud, link, cache, scopes, refreshing, topping, HomeKnown, Soon, IInv
<1>33. CASE PullEnd
  BY <1>33, WayKept, Places DEF PullEnd, cloud, link, cache, tree, scopes, refreshing,
     topping, HomeKnown, Soon, IInv
<1>. QED BY <1>1, <1>2, <1>3, <1>4, <1>5, <1>6, <1>7, <1>8, <1>9, <1>10, <1>11, <1>12,
         <1>13, <1>14, <1>15, <1>16, <1>17, <1>18, <1>19, <1>20, <1>21, <1>22, <1>23,
         <1>24, <1>25, <1>26, <1>27, <1>28, <1>29, <1>30, <1>31, <1>32, <1>33, Zenon
         DEF Next, Move, Arrive, Refresh, Reset, Align, TopUp, Pull

LEMMA AliveAtStep ==
  ASSUME Parameters, IInv, Next
  PROVE  \A e \in Did : AliveAt(e)'
<1>. SUFFICES ASSUME NEW e \in Did PROVE AliveAt(e)'
  OBVIOUS
<1>1. ASSUME NEW d \in Did, NEW v \in Value, Report(d, v) PROVE AliveAt(e)'
  BY <1>1, ReportFacts DEF Report, cache, tree, scopes, refreshing, topping, pulling,
     AliveAt, IInv
<1>2. ASSUME NEW d \in Did, Flip(d) PROVE AliveAt(e)'
  BY <1>2, FlipFacts DEF Flip, cache, tree, scopes, refreshing, topping, pulling, AliveAt,
     IInv
<1>3. ASSUME NEW d \in Did, NEW h \in Home, MoveHome(d, h) PROVE AliveAt(e)'
  BY <1>3, MoveHomeFacts DEF MoveHome, cache, tree, scopes, refreshing, topping, pulling,
     AliveAt, IInv
<1>4. CASE Disconnect
  BY <1>4, DisconnectFacts DEF Disconnect, cloud, cache, tree, scopes, refreshing, topping,
     pulling, AliveAt, IInv
<1>5. CASE UserRefresh
  BY <1>5, WayKept, Places DEF UserRefresh, cloud, link, cache, tree, scopes, topping,
     pulling, AliveAt, IInv
<1>6. ASSUME NEW h \in Home, SwitchHome(h) PROVE AliveAt(e)'
  BY <1>6, WayKept, Places DEF SwitchHome, cloud, link, cache, tree, refreshing, topping,
     pulling, AliveAt, IInv
<1>7. CASE Reconnect
  BY <1>7, WayKept, Places DEF Reconnect, cloud, cache, tree, scopes, topping, pulling,
     AliveAt, IInv
<1>8. CASE OnDeviceState
  BY <1>8, StateFacts DEF OnDeviceState, Here, Blame, cloud, scopes, pulling, AliveAt, IInv
<1>9. CASE OnDeviceProps
  BY <1>9, PropsFacts DEF OnDeviceProps, Aligned, Here, Reported, Cleared, Blame, cloud,
     cache, scopes, refreshing, topping, AliveAt, IInv
<1>10. CASE OnDeviceMeta
  BY <1>10, MetaFacts DEF OnDeviceMeta, cloud, cache, tree, scopes, topping, pulling,
     AliveAt, IInv
<1>11. CASE RefreshAsk
  BY <1>11, WayKept, Places DEF RefreshAsk, NoRefresh, cloud, link, cache, tree, scopes,
     topping, pulling, AliveAt, IInv, NoAlign, NoTopUp, NoPull
<1>12. CASE RefreshAnswer
  BY <1>12, WayKept, Places DEF RefreshAnswer, NoRefresh, cloud, link, cache, tree, scopes,
     topping, pulling, AliveAt, IInv, NoAlign, NoTopUp, NoPull
<1>13. CASE RefreshApply
  BY <1>13, WayKept, ApplyFacts DEF RefreshApply, Reconcile, SyncOnline, tree, Blame, Here,
     Bereft, Listeners, cloud, link, scopes, topping, PullRuns, AliveAt, IInv
<1>14. CASE RefreshFail
  BY <1>14, WayKept, Places DEF RefreshFail, Listeners, cloud, link, cache, tree, scopes,
     topping, AliveAt, IInv
<1>15. CASE ResetBegin
  BY <1>15, WayKept, ResetFacts DEF ResetBegin, CancelAlign, Bereft, cloud, link, cache,
     pulling, Blame, PullRuns, AliveAt, IInv
<1>16. CASE ResetEnd
  BY <1>16, WayKept, Places DEF ResetEnd, NewAlign, cloud, link, cache, tree, refreshing,
     topping, pulling, AliveAt, IInv
<1>17. CASE AlignFail
  BY <1>17, WayKept, Places DEF AlignFail, At, MovedOn, NewAlign, cloud, link, cache, tree,
     scopes, refreshing, topping, pulling, AliveAt, IInv
<1>18. CASE AlignCollect
  BY <1>18, WayKept, Places DEF AlignCollect, At, MovedOn, Here, Blame, cloud, link, cache,
     tree, scopes, refreshing, topping, pulling, AliveAt, IInv
<1>19. CASE AlignLive
  BY <1>19, WayKept, Places DEF AlignLive, At, Here, cloud, link, cache, tree, scopes,
     refreshing, topping, pulling, AliveAt, IInv
<1>20. ASSUME NEW d \in Did, AlignFlag(d) PROVE AliveAt(e)'
  BY <1>20, WayKept, FlagFacts DEF AlignFlag, At, MovedOn, Haunted, Blame, cloud, link,
     cache, scopes, refreshing, topping, pulling, Here, AliveAt, IInv
<1>21. ASSUME NEW D \in SUBSET Did, AlignRead(D) PROVE AliveAt(e)'
  BY <1>21, WayKept, Places DEF AlignRead, At, Blame, cloud, link, cache, tree, scopes,
     refreshing, topping, pulling, AliveAt, IInv
<1>22. ASSUME NEW d \in Did, AlignWrite(d) PROVE AliveAt(e)'
  BY <1>22, WayKept, WriteFacts DEF AlignWrite, At, MovedOn, Reported, Cleared, Haunted,
     Masking, cloud, link, cache, scopes, refreshing, topping, Blame, Here, PullRuns,
     AliveAt, IInv
<1>23. CASE AlignDone
  BY <1>23, WayKept, Places DEF AlignDone, At, MovedOn, cloud, link, cache, tree,
     refreshing, pulling, AliveAt, IInv
<1>24. CASE AlignEnd
  BY <1>24, WayKept, Places DEF AlignEnd, At, cloud, link, cache, tree, scopes, refreshing,
     topping, pulling, AliveAt, IInv
<1>25. ASSUME NEW d \in Did, TopUpTimer(d) PROVE AliveAt(e)'
  BY <1>25, WayKept, TimerFacts, BeginFacts DEF TopUpTimer, cloud, link, cache, tree,
     scopes, refreshing, pulling, AliveAt, IInv
<1>26. ASSUME NEW d \in Did, TopUpDrain(d) PROVE AliveAt(e)'
  BY <1>26, WayKept, DrainFacts, BeginFacts DEF TopUpDrain, At, cloud, link, cache, tree,
     scopes, refreshing, pulling, AliveAt, IInv
<1>27. ASSUME NEW d \in Did, NEW read \in BOOLEAN, TopUpAnswer(d, read) PROVE AliveAt(e)'
  BY <1>27, WayKept, Places, TopUpPlaces DEF TopUpAnswer, Blame, cloud, link, cache, tree,
     scopes, refreshing, pulling, AliveAt, IInv
<1>28. ASSUME NEW d \in Did, TopUpEnd(d) PROVE AliveAt(e)'
  BY <1>28, WayKept, EndFacts DEF TopUpEnd, TopUpLands, Reported, Cleared, Masking, cloud,
     link, cache, scopes, refreshing, Aligned, Here, Blame, PullRuns, AliveAt, IInv
<1>29. CASE PullWake
  BY <1>29, WayKept, Places DEF PullWake, cloud, link, cache, tree, scopes, refreshing,
     topping, AliveAt, IInv
<1>30. ASSUME NEW d \in Did, PullAsk(d) PROVE AliveAt(e)'
  BY <1>30, WayKept, Places DEF PullAsk, cloud, link, cache, tree, scopes, refreshing,
     topping, AliveAt, IInv
<1>31. ASSUME NEW read \in BOOLEAN, PullAnswer(read) PROVE AliveAt(e)'
  BY <1>31, WayKept, Places DEF PullAnswer, Blame, cloud, link, cache, tree, scopes,
     refreshing, topping, AliveAt, IInv
<1>32. CASE PullWrite
  BY <1>32, WayKept, PullWriteFacts DEF PullWrite, Aligned, Here, Blame, Kept, Reported,
     Cleared, cloud, link, cache, scopes, refreshing, topping, AliveAt, IInv
<1>33. CASE PullEnd
  BY <1>33, WayKept, Places DEF PullEnd, cloud, link, cache, tree, scopes, refreshing,
     topping, AliveAt, IInv
<1>. QED BY <1>1, <1>2, <1>3, <1>4, <1>5, <1>6, <1>7, <1>8, <1>9, <1>10, <1>11, <1>12,
         <1>13, <1>14, <1>15, <1>16, <1>17, <1>18, <1>19, <1>20, <1>21, <1>22, <1>23,
         <1>24, <1>25, <1>26, <1>27, <1>28, <1>29, <1>30, <1>31, <1>32, <1>33, Zenon
         DEF Next, Move, Arrive, Refresh, Reset, Align, TopUp, Pull

LEMMA TreeAtStep ==
  ASSUME Parameters, IInv, Next
  PROVE  \A e \in Did : TreeAt(e)'
<1>. SUFFICES ASSUME NEW e \in Did PROVE TreeAt(e)'
  OBVIOUS
<1>1. ASSUME NEW d \in Did, NEW v \in Value, Report(d, v) PROVE TreeAt(e)'
  BY <1>1, ReportFacts DEF Report, cache, tree, scopes, refreshing, topping, pulling,
     TreeAt, Stored, Here, IInv
<1>2. ASSUME NEW d \in Did, Flip(d) PROVE TreeAt(e)'
  BY <1>2, FlipFacts DEF Flip, cache, tree, scopes, refreshing, topping, pulling, TreeAt,
     Stored, Here, IInv
<1>3. ASSUME NEW d \in Did, NEW h \in Home, MoveHome(d, h) PROVE TreeAt(e)'
  BY <1>3, MoveHomeFacts DEF MoveHome, cache, tree, scopes, refreshing, topping, pulling,
     TreeAt, Stored, Here, IInv
<1>4. CASE Disconnect
  BY <1>4, DisconnectFacts DEF Disconnect, cloud, cache, tree, scopes, refreshing, topping,
     pulling, TreeAt, Stored, Here, IInv
<1>5. CASE UserRefresh
  BY <1>5, WayKept DEF UserRefresh, cloud, link, cache, tree, scopes, topping, pulling,
     TreeAt, Stored, Here, IInv
<1>6. ASSUME NEW h \in Home, SwitchHome(h) PROVE TreeAt(e)'
  BY <1>6, WayKept DEF SwitchHome, cloud, link, cache, tree, refreshing, topping, pulling,
     TreeAt, NoRefresh, Stored, Here, IInv, TypeOK, Shape, Scopes, NoAlign, NoTopUp, NoPull,
     RefreshAsked, RefreshAnswered, AlignStart, AlignSpec, AlignFlags, AlignProps,
     AlignDrain, TopUpAsked, TopUpGot, PullDelay, PullNext, PullAsked, PullGot, Message
<1>7. CASE Reconnect
  BY <1>7, WayKept DEF Reconnect, cloud, cache, tree, scopes, topping, pulling, TreeAt,
     Stored, Here, IInv
<1>8. CASE OnDeviceState
  BY <1>8, StateFacts DEF OnDeviceState, Here, Blame, cloud, scopes, pulling, TreeAt,
     Stored, IInv
<1>9. CASE OnDeviceProps
  <2>1. UNCHANGED <<home, enabled, online, alive, waiting, refresh, failed, resets>>
    BY <1>9 DEF OnDeviceProps, cache, scopes, refreshing
  <2>2. /\ <<e, "ghost">> \in excuse => <<e, "ghost">> \in excuse'
        /\ prop'[e] = prop[e] \/ Here(e)
    <3>0. TypeOK
      BY DEF IInv
    <3>1. PICK d \in Did, v \in Value :
            \/ Here(d) /\ Reported(d, v) /\ excuse' = Cleared(d, v)
            \/ prop' = prop /\ fresh' = fresh /\ excuse' = excuse \cup {<<d, "dropped">>}
      BY <1>9, PropsFacts
    <3>2. CASE Here(d) /\ Reported(d, v) /\ excuse' = Cleared(d, v)
      BY <3>0, <3>2, Landed, ClearedFacts DEF Cause
    <3>3. CASE prop' = prop /\ excuse' = excuse \cup {<<d, "dropped">>}
      BY <3>3
    <3>. QED BY <3>1, <3>2, <3>3
  <2>. QED BY <2>1, <2>2 DEF IInv, TreeAt, Stored, Here
<1>10. CASE OnDeviceMeta
  BY <1>10, MetaFacts DEF OnDeviceMeta, cloud, cache, tree, scopes, topping, pulling,
     TreeAt, Stored, Here, IInv
<1>11. CASE RefreshAsk
  BY <1>11, WayKept DEF RefreshAsk, NoRefresh, cloud, link, cache, tree, scopes, topping,
     pulling, TreeAt, Stored, Here, IInv, Scopes, NoAlign, NoTopUp, NoPull
<1>12. CASE RefreshAnswer
  BY <1>12, WayKept DEF RefreshAnswer, NoRefresh, cloud, link, cache, tree, scopes, topping,
     pulling, TreeAt, Stored, Here, IInv, Scopes, NoAlign, NoTopUp, NoPull
<1>13. CASE RefreshApply
  BY <1>13, WayKept, ApplyFacts DEF RefreshApply, NoRefresh, Reconcile, SyncOnline, tree,
     Blame, Here, Bereft, Listeners, cloud, link, scopes, topping, PullRuns, NoPull, TreeAt,
     Stored, IInv, Scopes, NoAlign, NoTopUp
<1>14. CASE RefreshFail
  BY <1>14, WayKept DEF RefreshFail, Listeners, cloud, link, cache, tree, scopes, topping,
     TreeAt, Stored, Here, IInv
<1>15. CASE ResetBegin
  BY <1>15, WayKept, ResetFacts DEF ResetBegin, CancelAlign, Bereft, cloud, link, cache,
     pulling, Blame, PullRuns, TreeAt, Stored, Here, IInv
<1>16. CASE ResetEnd
  BY <1>16, WayKept DEF ResetEnd, NewAlign, cloud, link, cache, tree, refreshing, topping,
     pulling, TreeAt, Stored, Here, IInv
<1>17. CASE AlignFail
  BY <1>17, WayKept DEF AlignFail, At, MovedOn, NewAlign, cloud, link, cache, tree, scopes,
     refreshing, topping, pulling, TreeAt, Stored, Here, IInv
<1>18. CASE AlignCollect
  BY <1>18, WayKept DEF AlignCollect, At, MovedOn, Here, Blame, cloud, link, cache, tree,
     scopes, refreshing, topping, pulling, TreeAt, Stored, IInv
<1>19. CASE AlignLive
  BY <1>19, WayKept DEF AlignLive, At, Here, cloud, link, cache, tree, scopes, refreshing,
     topping, pulling, TreeAt, Stored, IInv
<1>20. ASSUME NEW d \in Did, AlignFlag(d) PROVE TreeAt(e)'
  BY <1>20, WayKept, FlagFacts DEF AlignFlag, At, MovedOn, Haunted, Blame, cloud, link,
     cache, scopes, refreshing, topping, pulling, Here, TreeAt, Stored, IInv
<1>21. ASSUME NEW D \in SUBSET Did, AlignRead(D) PROVE TreeAt(e)'
  BY <1>21, WayKept DEF AlignRead, At, Blame, cloud, link, cache, tree, scopes, refreshing,
     topping, pulling, TreeAt, Stored, Here, IInv
<1>22. ASSUME NEW d \in Did, AlignWrite(d) PROVE TreeAt(e)'
  BY <1>22, WayKept, WriteFacts DEF AlignWrite, At, MovedOn, Reported, Cleared, Haunted,
     Masking, cloud, link, cache, scopes, refreshing, topping, Blame, Here, PullRuns,
     TreeAt, Stored, IInv
<1>23. CASE AlignDone
  BY <1>23, WayKept DEF AlignDone, At, MovedOn, cloud, link, cache, tree, refreshing,
     pulling, TreeAt, Stored, Here, IInv
<1>24. CASE AlignEnd
  BY <1>24, WayKept DEF AlignEnd, At, cloud, link, cache, tree, scopes, refreshing, topping,
     pulling, TreeAt, Stored, Here, IInv
<1>25. ASSUME NEW d \in Did, TopUpTimer(d) PROVE TreeAt(e)'
  BY <1>25, WayKept, TimerFacts, BeginFacts DEF TopUpTimer, cloud, link, cache, tree,
     scopes, refreshing, pulling, TreeAt, Stored, Here, IInv
<1>26. ASSUME NEW d \in Did, TopUpDrain(d) PROVE TreeAt(e)'
  BY <1>26, WayKept, DrainFacts, BeginFacts DEF TopUpDrain, At, cloud, link, cache, tree,
     scopes, refreshing, pulling, TreeAt, Stored, Here, IInv
<1>27. ASSUME NEW d \in Did, NEW read \in BOOLEAN, TopUpAnswer(d, read) PROVE TreeAt(e)'
  BY <1>27, WayKept DEF TopUpAnswer, Blame, cloud, link, cache, tree, scopes, refreshing,
     pulling, TreeAt, Stored, Here, IInv
<1>28. ASSUME NEW d \in Did, TopUpEnd(d) PROVE TreeAt(e)'
  <2>1. UNCHANGED <<home, enabled, online, alive, waiting, refresh, failed, resets>>
    BY <1>28 DEF TopUpEnd, cache, scopes, refreshing
  <2>2. /\ <<e, "ghost">> \in excuse => <<e, "ghost">> \in excuse'
        /\ prop'[e] = prop[e] \/ Here(e)
    <3>0. TypeOK
      BY DEF IInv
    <3>1. CASE UNCHANGED <<prop, fresh, excuse>>
      BY <3>1
    <3>2. CASE /\ topUp[d].val \in Value /\ TopUpLands(d) /\ Reported(d, topUp[d].val)
               /\ excuse' = Cleared(d, topUp[d].val) \cup Masking(d)
      BY <3>0, <3>2, Landed, ClearedFacts DEF TopUpLands, Cause
    <3>. QED BY <1>28, EndFacts, <3>1, <3>2
  <2>. QED BY <2>1, <2>2 DEF IInv, TreeAt, Stored, Here
<1>29. CASE PullWake
  BY <1>29, WayKept DEF PullWake, cloud, link, cache, tree, scopes, refreshing, topping,
     TreeAt, Stored, Here, IInv
<1>30. ASSUME NEW d \in Did, PullAsk(d) PROVE TreeAt(e)'
  BY <1>30, WayKept DEF PullAsk, cloud, link, cache, tree, scopes, refreshing, topping,
     TreeAt, Stored, Here, IInv
<1>31. ASSUME NEW read \in BOOLEAN, PullAnswer(read) PROVE TreeAt(e)'
  BY <1>31, WayKept DEF PullAnswer, Blame, cloud, link, cache, tree, scopes, refreshing,
     topping, TreeAt, Stored, Here, IInv
<1>32. CASE PullWrite
  <2>1. UNCHANGED <<home, enabled, online, alive, waiting, refresh, failed, resets>>
    BY <1>32 DEF PullWrite, cache, scopes, refreshing
  <2>2. /\ <<e, "ghost">> \in excuse => <<e, "ghost">> \in excuse'
        /\ prop'[e] = prop[e] \/ Here(e)
    <3>0. TypeOK
      BY DEF IInv
    <3>1. PICK d \in Did, v \in Value :
            \/ Here(d) /\ Reported(d, v) /\ excuse' = Cleared(d, v)
            \/ prop' = prop /\ excuse' = excuse \cup {<<d, "dropped">>}
            \/ prop' = prop /\ excuse' = excuse
      BY <1>32, PullWriteFacts DEF PullGot
    <3>2. CASE Here(d) /\ Reported(d, v) /\ excuse' = Cleared(d, v)
      BY <3>0, <3>2, Landed, ClearedFacts DEF Cause
    <3>3. CASE prop' = prop /\ excuse' = excuse \cup {<<d, "dropped">>}
      BY <3>3
    <3>4. CASE prop' = prop /\ excuse' = excuse
      BY <3>4
    <3>. QED BY <3>1, <3>2, <3>3, <3>4
  <2>. QED BY <2>1, <2>2 DEF IInv, TreeAt, Stored, Here
<1>33. CASE PullEnd
  BY <1>33, WayKept DEF PullEnd, cloud, link, cache, tree, scopes, refreshing, topping,
     TreeAt, Stored, Here, IInv
<1>. QED BY <1>1, <1>2, <1>3, <1>4, <1>5, <1>6, <1>7, <1>8, <1>9, <1>10, <1>11, <1>12,
         <1>13, <1>14, <1>15, <1>16, <1>17, <1>18, <1>19, <1>20, <1>21, <1>22, <1>23,
         <1>24, <1>25, <1>26, <1>27, <1>28, <1>29, <1>30, <1>31, <1>32, <1>33, Zenon
         DEF Next, Move, Arrive, Refresh, Reset, Align, TopUp, Pull

LEMMA PropAtStep ==
  ASSUME Parameters, IInv, Next
  PROVE  \A e \in Did : PropAt(e)'
<1>. SUFFICES ASSUME NEW e \in Did PROVE PropAt(e)'
  OBVIOUS
<1>1. ASSUME NEW d \in Did, NEW v \in Value, Report(d, v) PROVE PropAt(e)'
  BY <1>1, ReportFacts DEF Report, cache, tree, scopes, refreshing, topping, pulling,
     PropAt, Coming, Asks, Late, PullAgain, PullRuns, IInv
<1>2. ASSUME NEW d \in Did, Flip(d) PROVE PropAt(e)'
  BY <1>2, FlipFacts DEF Flip, cache, tree, scopes, refreshing, topping, pulling, PropAt,
     Coming, Asks, Late, PullAgain, PullRuns, IInv
<1>3. ASSUME NEW d \in Did, NEW h \in Home, MoveHome(d, h) PROVE PropAt(e)'
  BY <1>3, MoveHomeFacts DEF MoveHome, cache, tree, scopes, refreshing, topping, pulling,
     PropAt, Coming, Asks, Late, PullAgain, PullRuns, IInv
<1>4. CASE Disconnect
  BY <1>4, DisconnectFacts DEF Disconnect, cloud, cache, tree, scopes, refreshing, topping,
     pulling, PropAt, Coming, Asks, Late, PullAgain, PullRuns, IInv
<1>5. CASE UserRefresh
  BY <1>5, WayKept, Places DEF UserRefresh, cloud, link, cache, tree, scopes, topping,
     pulling, PropAt, Coming, Asks, Late, PullAgain, PullRuns, IInv
<1>6. ASSUME NEW h \in Home, SwitchHome(h) PROVE PropAt(e)'
  BY <1>6, WayKept, Places DEF SwitchHome, cloud, link, cache, tree, refreshing, topping,
     pulling, PropAt, Coming, Asks, Late, PullAgain, PullRuns, IInv
<1>7. CASE Reconnect
  BY <1>7, WayKept, Places DEF Reconnect, cloud, cache, tree, scopes, topping, pulling,
     PropAt, Coming, Asks, Late, PullAgain, PullRuns, IInv
<1>8. CASE OnDeviceState
  BY <1>8, StateFacts DEF OnDeviceState, Here, Blame, cloud, scopes, pulling, PropAt,
     Coming, Asks, Late, PullAgain, PullRuns, IInv
<1>9. CASE OnDeviceProps
  <2>1. /\ TypeOK /\ PropAt(e) /\ pull' = pull /\ report' = report
        /\ linked' = linked /\ waiting' = waiting /\ refresh' = refresh /\ again' = again
    BY <1>9 DEF OnDeviceProps, cloud, refreshing, IInv
  <2>2. PICK d \in Did, v \in Value :
          /\ OnWay \subseteq OnWay' \cup {<<"prop", d>>}
          /\ <<"prop", d>> \in OnWay' \/ v = report[d]
          /\ \/ Reported(d, v) /\ excuse' = Cleared(d, v)
             \/ prop' = prop /\ excuse' = excuse \cup {<<d, "dropped">>}
    BY <1>9, PropsFacts
  <2>3. CASE e = d
    <3>1. CASE <<"prop", d>> \in OnWay'
      BY <2>3, <3>1 DEF PropAt, Coming
    <3>2. CASE v = report[d] /\ Reported(d, v)
      <4>1. prop'[d] = v
        BY <2>1, <3>2, Landed
      <4>. QED BY <2>1, <2>3, <3>2, <4>1 DEF PropAt
    <3>3. CASE excuse' = excuse \cup {<<d, "dropped">>}
      BY <2>3, <3>3 DEF PropAt, Coming, Late
    <3>. QED BY <2>2, <3>1, <3>2, <3>3
  <2>4. CASE e # d
    <3>1. prop'[e] = prop[e]
      BY <2>1, <2>2, <2>4, Landed
    <3>2. Late(e) => Late(e)'
      BY <2>1, <2>2, <2>4, ClearedFacts DEF Late, Cause
    <3>3. <<"prop", e>> \in OnWay => <<"prop", e>> \in OnWay'
      BY <2>2, <2>4
    <3>4. (Asks(e) => Asks(e)') /\ (PullAgain => PullAgain')
      BY <2>1 DEF Asks, PullRuns, PullAgain
    <3>. QED BY <2>1, <3>1, <3>2, <3>3, <3>4 DEF PropAt, Coming
  <2>. QED BY <2>3, <2>4
<1>10. CASE OnDeviceMeta
  BY <1>10, MetaFacts DEF OnDeviceMeta, cloud, cache, tree, scopes, topping, pulling,
     PropAt, Coming, Asks, Late, PullAgain, PullRuns, IInv
<1>11. CASE RefreshAsk
  BY <1>11, WayKept, Places DEF RefreshAsk, cloud, link, cache, tree, scopes, topping,
     pulling, PropAt, Coming, Asks, Late, PullAgain, PullRuns, IInv
<1>12. CASE RefreshAnswer
  BY <1>12, WayKept, Places DEF RefreshAnswer, cloud, link, cache, tree, scopes, topping,
     pulling, PropAt, Coming, Asks, Late, PullAgain, PullRuns, IInv
<1>13. CASE RefreshApply
  BY <1>13, WayKept, ApplyFacts DEF RefreshApply, Reconcile, SyncOnline, tree, Blame, Here,
     Bereft, Listeners, cloud, link, scopes, topping, PullRuns, PropAt, Coming, Asks, Late,
     PullAgain, IInv
<1>14. CASE RefreshFail
  BY <1>14, WayKept, Places DEF RefreshFail, Listeners, cloud, link, cache, tree, scopes,
     topping, PropAt, Coming, Asks, Late, PullAgain, PullRuns, IInv
<1>15. CASE ResetBegin
  BY <1>15, WayKept, ResetFacts DEF ResetBegin, CancelAlign, Bereft, cloud, link, cache,
     pulling, Blame, PullRuns, PropAt, Coming, Asks, Late, PullAgain, IInv
<1>16. CASE ResetEnd
  BY <1>16, WayKept, Places DEF ResetEnd, NewAlign, cloud, link, cache, tree, refreshing,
     topping, pulling, PropAt, Coming, Asks, Late, PullAgain, PullRuns, IInv
<1>17. CASE AlignFail
  BY <1>17, WayKept, Places DEF AlignFail, At, MovedOn, NewAlign, cloud, link, cache, tree,
     scopes, refreshing, topping, pulling, PropAt, Coming, Asks, Late, PullAgain, PullRuns,
     IInv
<1>18. CASE AlignCollect
  BY <1>18, WayKept, Places DEF AlignCollect, At, MovedOn, Here, Blame, cloud, link, cache,
     tree, scopes, refreshing, topping, pulling, PropAt, Coming, Asks, Late, PullAgain,
     PullRuns, IInv
<1>19. CASE AlignLive
  BY <1>19, WayKept, Places DEF AlignLive, At, Here, cloud, link, cache, tree, scopes,
     refreshing, topping, pulling, PropAt, Coming, Asks, Late, PullAgain, PullRuns, IInv
<1>20. ASSUME NEW d \in Did, AlignFlag(d) PROVE PropAt(e)'
  BY <1>20, WayKept, FlagFacts DEF AlignFlag, At, MovedOn, Haunted, Blame, cloud, link,
     cache, scopes, refreshing, topping, pulling, Here, PropAt, Coming, Asks, Late,
     PullAgain, PullRuns, IInv
<1>21. ASSUME NEW D \in SUBSET Did, AlignRead(D) PROVE PropAt(e)'
  BY <1>21, WayKept, Places DEF AlignRead, At, Blame, cloud, link, cache, tree, scopes,
     refreshing, topping, pulling, PropAt, Coming, Asks, Late, PullAgain, PullRuns, IInv
<1>22. ASSUME NEW d \in Did, AlignWrite(d) PROVE PropAt(e)'
  <2>0. TypeOK /\ GotAt(d) /\ PropAt(e)
    BY DEF IInv
  <2>1. UNCHANGED <<report, linked, waiting, refresh, pull, again>> /\ OnWay' = OnWay
    BY <1>22, WayKept DEF AlignWrite, cloud, link, refreshing
  <2>2. /\ Late(e) => Late(e)' \/ (e = d /\ align.got[d] = report[d])
        /\ prop'[e] = IF e = d THEN align.got[d] ELSE prop[e]
    BY <1>22, <2>0, WriteFacts, LandedLate
  <2>3. Coming(d) \/ Asks(d) \/ align.got[d] = report[d]
    BY <1>22, <2>0, WriteFacts DEF GotAt, AlignProps
  <2>. QED BY <2>0, <2>1, <2>2, <2>3 DEF PropAt, Coming, PullAgain, Asks, PullRuns
<1>23. CASE AlignDone
  BY <1>23, WayKept, Places DEF AlignDone, At, MovedOn, cloud, link, cache, tree,
     refreshing, pulling, PropAt, Coming, Asks, Late, PullAgain, PullRuns, IInv
<1>24. CASE AlignEnd
  BY <1>24, WayKept, Places DEF AlignEnd, At, cloud, link, cache, tree, scopes, refreshing,
     topping, pulling, PropAt, Coming, Asks, Late, PullAgain, PullRuns, IInv
<1>25. ASSUME NEW d \in Did, TopUpTimer(d) PROVE PropAt(e)'
  BY <1>25, WayKept, TimerFacts, BeginFacts DEF TopUpTimer, cloud, link, cache, tree,
     scopes, refreshing, pulling, PropAt, Coming, Asks, Late, PullAgain, PullRuns, IInv
<1>26. ASSUME NEW d \in Did, TopUpDrain(d) PROVE PropAt(e)'
  BY <1>26, WayKept, DrainFacts, BeginFacts DEF TopUpDrain, At, cloud, link, cache, tree,
     scopes, refreshing, pulling, PropAt, Coming, Asks, Late, PullAgain, PullRuns, IInv
<1>27. ASSUME NEW d \in Did, NEW read \in BOOLEAN, TopUpAnswer(d, read) PROVE PropAt(e)'
  BY <1>27, WayKept, Places, TopUpPlaces DEF TopUpAnswer, Blame, cloud, link, cache, tree,
     scopes, refreshing, pulling, PropAt, Coming, Asks, Late, PullAgain, PullRuns, IInv
<1>28. ASSUME NEW d \in Did, TopUpEnd(d) PROVE PropAt(e)'
  <2>0. TypeOK /\ GotAt(d) /\ PropAt(e)
    BY DEF IInv
  <2>1. UNCHANGED <<report, linked, waiting, refresh, pull, again>> /\ OnWay' = OnWay
    BY <1>28, WayKept DEF TopUpEnd, cloud, link, refreshing
  <2>2. CASE UNCHANGED <<prop, fresh, excuse>>
    BY <2>0, <2>1, <2>2 DEF PropAt, Coming, Late, PullAgain, Asks, PullRuns
  <2>3. CASE /\ topUp[d].val \in Value /\ topUp[d].val # None /\ TopUpLands(d)
             /\ Reported(d, topUp[d].val) /\ excuse' = Cleared(d, topUp[d].val) \cup Masking(d)
    <3>1. /\ Late(e) => Late(e)' \/ (e = d /\ topUp[d].val = report[d])
          /\ prop'[e] = IF e = d THEN topUp[d].val ELSE prop[e]
      BY <2>0, <2>3, LandedLate
    <3>2. Coming(d) \/ Asks(d) \/ topUp[d].val = report[d]
      BY <1>28, <2>0, <2>3, EndFacts DEF GotAt, TopUpGot, TopUpLands
    <3>. QED BY <2>0, <2>1, <3>1, <3>2 DEF PropAt, Coming, PullAgain, Asks, PullRuns
  <2>. QED BY <1>28, <2>2, <2>3, EndFacts
<1>29. CASE PullWake
  BY <1>29, WayKept, Places DEF PullWake, cloud, link, cache, tree, scopes, refreshing,
     topping, PropAt, Coming, Asks, Late, PullAgain, PullRuns, IInv
<1>30. ASSUME NEW d \in Did, PullAsk(d) PROVE PropAt(e)'
  BY <1>30, WayKept, Places DEF PullAsk, cloud, link, cache, tree, scopes, refreshing,
     topping, PropAt, Coming, Asks, Late, PullAgain, PullRuns, IInv
<1>31. ASSUME NEW read \in BOOLEAN, PullAnswer(read) PROVE PropAt(e)'
  BY <1>31, WayKept, Places DEF PullAnswer, Blame, cloud, link, cache, tree, scopes,
     refreshing, topping, PropAt, Coming, Asks, Late, PullAgain, PullRuns, IInv
<1>32. CASE PullWrite
  <2>. DEFINE d == pull.did
  <2>0. /\ TypeOK /\ d \in Did /\ FreshAt(d) /\ PropAt(e) /\ PullRuns(d) /\ pull \in PullGot
        /\ pull' \in PullNext /\ pull'.todo = pull.todo
    BY <1>32, PullWriteFacts DEF IInv
  <2>1. UNCHANGED <<report, linked, waiting, refresh, again>> /\ OnWay' = OnWay
    BY <1>32, WayKept DEF PullWrite, cloud, link, refreshing
  <2>. HIDE DEF d
  <2>2. Asks(e) => Asks(e)' \/ e = d
    BY <2>0 DEF Asks, PullRuns, PullGot, PullNext, d
  <2>3. CASE prop' = prop /\ excuse' = excuse \cup {<<d, "dropped">>}
    BY <2>0, <2>1, <2>2, <2>3 DEF PropAt, Coming, Late, PullAgain
  <2>4. CASE Kept(d) /\ UNCHANGED <<prop, fresh, excuse>>
    <3>1. Coming(d) \/ prop[d] = report[d]
      BY <2>0, <2>4 DEF FreshAt, Kept
    <3>. QED BY <2>0, <2>1, <2>2, <2>4, <3>1 DEF PropAt, Coming, Late, PullAgain
  <2>5. CASE /\ ~Kept(d) /\ pull.val \in Value /\ Reported(d, pull.val)
             /\ excuse' = Cleared(d, pull.val)
    <3>1. /\ Late(e) => Late(e)' \/ (e = d /\ pull.val = report[d])
          /\ prop'[e] = IF e = d THEN pull.val ELSE prop[e]
      BY <2>0, <2>5, LandedLate
    <3>2. Coming(d) \/ pull.val = report[d]
      BY <2>0, <2>5 DEF FreshAt, PullGot
    <3>. QED BY <2>0, <2>1, <2>2, <3>1, <3>2 DEF PropAt, Coming, PullAgain
  <2>. QED BY <1>32, <2>3, <2>4, <2>5, PullWriteFacts DEF d
<1>33. CASE PullEnd
  BY <1>33, WayKept, Places DEF PullEnd, cloud, link, cache, tree, scopes, refreshing,
     topping, PropAt, Coming, Asks, Late, PullAgain, PullRuns, IInv
<1>. QED BY <1>1, <1>2, <1>3, <1>4, <1>5, <1>6, <1>7, <1>8, <1>9, <1>10, <1>11, <1>12,
         <1>13, <1>14, <1>15, <1>16, <1>17, <1>18, <1>19, <1>20, <1>21, <1>22, <1>23,
         <1>24, <1>25, <1>26, <1>27, <1>28, <1>29, <1>30, <1>31, <1>32, <1>33, Zenon
         DEF Next, Move, Arrive, Refresh, Reset, Align, TopUp, Pull

LEMMA FreshAtStep ==
  ASSUME Parameters, IInv, Next
  PROVE  \A e \in Did : FreshAt(e)'
<1>. SUFFICES ASSUME NEW e \in Did PROVE FreshAt(e)'
  OBVIOUS
<1>1. ASSUME NEW d \in Did, NEW v \in Value, Report(d, v) PROVE FreshAt(e)'
  BY <1>1, ReportFacts DEF Report, cache, tree, scopes, refreshing, topping, pulling,
     FreshAt, PullRuns, Coming, Kept, Late, PullAgain, IInv
<1>2. ASSUME NEW d \in Did, Flip(d) PROVE FreshAt(e)'
  BY <1>2, FlipFacts DEF Flip, cache, tree, scopes, refreshing, topping, pulling, FreshAt,
     PullRuns, Coming, Kept, Late, PullAgain, IInv
<1>3. ASSUME NEW d \in Did, NEW h \in Home, MoveHome(d, h) PROVE FreshAt(e)'
  BY <1>3, MoveHomeFacts DEF MoveHome, cache, tree, scopes, refreshing, topping, pulling,
     FreshAt, PullRuns, Coming, Kept, Late, PullAgain, IInv
<1>4. CASE Disconnect
  BY <1>4, DisconnectFacts DEF Disconnect, cloud, cache, tree, scopes, refreshing, topping,
     pulling, FreshAt, PullRuns, Coming, Kept, Late, PullAgain, IInv
<1>5. CASE UserRefresh
  BY <1>5, WayKept, Places DEF UserRefresh, cloud, link, cache, tree, scopes, topping,
     pulling, FreshAt, PullRuns, Coming, Kept, Late, PullAgain, IInv
<1>6. ASSUME NEW h \in Home, SwitchHome(h) PROVE FreshAt(e)'
  BY <1>6, WayKept, Places DEF SwitchHome, cloud, link, cache, tree, refreshing, topping,
     pulling, FreshAt, PullRuns, Coming, Kept, Late, PullAgain, IInv
<1>7. CASE Reconnect
  BY <1>7, WayKept, Places DEF Reconnect, cloud, cache, tree, scopes, topping, pulling,
     FreshAt, PullRuns, Coming, Kept, Late, PullAgain, IInv
<1>8. CASE OnDeviceState
  BY <1>8, StateFacts DEF OnDeviceState, Here, Blame, cloud, scopes, pulling, FreshAt,
     PullRuns, Coming, Kept, Late, PullAgain, IInv
<1>9. CASE OnDeviceProps
  <2>0. TypeOK /\ FreshAt(e)
    BY DEF IInv
  <2>1. UNCHANGED <<report, linked, waiting, refresh, pull, again>>
    BY <1>9 DEF OnDeviceProps, cloud, refreshing
  <2>2. PICK d \in Did, v \in Value :
          /\ OnWay \subseteq OnWay' \cup {<<"prop", d>>} /\ (<<"prop", d>> \in OnWay' \/ v = report[d])
          /\ \/ Aligned /\ Reported(d, v) /\ excuse' = Cleared(d, v)
             \/ prop' = prop /\ fresh' = fresh /\ excuse' = excuse \cup {<<d, "dropped">>}
    BY <1>9, PropsFacts
  <2>3. CASE prop' = prop /\ fresh' = fresh /\ excuse' = excuse \cup {<<d, "dropped">>}
    BY <2>0, <2>1, <2>2, <2>3 DEF FreshAt, Kept, Coming, Late, PullAgain, PullRuns
  <2>4. CASE Reported(d, v) /\ excuse' = Cleared(d, v)
    <3>1. /\ Late(e) => Late(e)' \/ (e = d /\ v = report[d])
          /\ prop'[e] = IF e = d THEN v ELSE prop[e]
          /\ fresh' = fresh \cup {d}
      BY <2>0, <2>4, LandedLate
    <3>2. v # None
      BY DEF Parameters
    <3>. QED BY <2>0, <2>1, <2>2, <3>1, <3>2 DEF FreshAt, Kept, Coming, PullAgain, PullRuns
  <2>. QED BY <2>2, <2>3, <2>4
<1>10. CASE OnDeviceMeta
  BY <1>10, MetaFacts DEF OnDeviceMeta, cloud, cache, tree, scopes, topping, pulling,
     FreshAt, PullRuns, Coming, Kept, Late, PullAgain, IInv
<1>11. CASE RefreshAsk
  BY <1>11, WayKept, Places DEF RefreshAsk, cloud, link, cache, tree, scopes, topping,
     pulling, FreshAt, PullRuns, Coming, Kept, Late, PullAgain, IInv
<1>12. CASE RefreshAnswer
  BY <1>12, WayKept, Places DEF RefreshAnswer, cloud, link, cache, tree, scopes, topping,
     pulling, FreshAt, PullRuns, Coming, Kept, Late, PullAgain, IInv
<1>13. CASE RefreshApply
  BY <1>13, WayKept, ApplyFacts DEF RefreshApply, Reconcile, SyncOnline, tree, Blame, Here,
     Bereft, Listeners, cloud, link, scopes, topping, PullRuns, FreshAt, Coming, Kept, Late,
     PullAgain, IInv
<1>14. CASE RefreshFail
  BY <1>14, WayKept, Places DEF RefreshFail, Listeners, cloud, link, cache, tree, scopes,
     topping, FreshAt, PullRuns, Coming, Kept, Late, PullAgain, IInv
<1>15. CASE ResetBegin
  BY <1>15, WayKept, ResetFacts DEF ResetBegin, CancelAlign, Bereft, cloud, link, cache,
     pulling, Blame, PullRuns, FreshAt, Coming, Kept, Late, PullAgain, IInv
<1>16. CASE ResetEnd
  BY <1>16, WayKept, Places DEF ResetEnd, NewAlign, cloud, link, cache, tree, refreshing,
     topping, pulling, FreshAt, PullRuns, Coming, Kept, Late, PullAgain, IInv
<1>17. CASE AlignFail
  BY <1>17, WayKept, Places DEF AlignFail, At, MovedOn, NewAlign, cloud, link, cache, tree,
     scopes, refreshing, topping, pulling, FreshAt, PullRuns, Coming, Kept, Late, PullAgain,
     IInv
<1>18. CASE AlignCollect
  BY <1>18, WayKept, Places DEF AlignCollect, At, MovedOn, Here, Blame, cloud, link, cache,
     tree, scopes, refreshing, topping, pulling, FreshAt, PullRuns, Coming, Kept, Late,
     PullAgain, IInv
<1>19. CASE AlignLive
  BY <1>19, WayKept, Places DEF AlignLive, At, Here, cloud, link, cache, tree, scopes,
     refreshing, topping, pulling, FreshAt, PullRuns, Coming, Kept, Late, PullAgain, IInv
<1>20. ASSUME NEW d \in Did, AlignFlag(d) PROVE FreshAt(e)'
  BY <1>20, WayKept, FlagFacts DEF AlignFlag, At, MovedOn, Haunted, Blame, cloud, link,
     cache, scopes, refreshing, topping, pulling, Here, FreshAt, PullRuns, Coming, Kept,
     Late, PullAgain, IInv
<1>21. ASSUME NEW D \in SUBSET Did, AlignRead(D) PROVE FreshAt(e)'
  BY <1>21, WayKept, Places DEF AlignRead, At, Blame, cloud, link, cache, tree, scopes,
     refreshing, topping, pulling, FreshAt, PullRuns, Coming, Kept, Late, PullAgain, IInv
<1>22. ASSUME NEW d \in Did, AlignWrite(d) PROVE FreshAt(e)'
  <2>0. TypeOK /\ FreshAt(e)
    BY DEF IInv
  <2>1. UNCHANGED <<report, linked, waiting, refresh, pull, again>> /\ OnWay' = OnWay
    BY <1>22, WayKept DEF AlignWrite, cloud, link, refreshing
  <2>2. /\ Late(e) => Late(e)' \/ e = d
        /\ prop'[e] = IF e = d THEN align.got[d] ELSE prop[e]
        /\ fresh' = fresh \cup {d}
    BY <1>22, <2>0, WriteFacts, LandedLate
  <2>3. PullRuns(d) => Late(d)'
    BY <1>22, WriteFacts, MaskingFacts DEF Late
  <2>. QED BY <2>0, <2>1, <2>2, <2>3 DEF FreshAt, Kept, Coming, PullAgain, PullRuns
<1>23. CASE AlignDone
  BY <1>23, WayKept, Places DEF AlignDone, At, MovedOn, cloud, link, cache, tree,
     refreshing, pulling, FreshAt, PullRuns, Coming, Kept, Late, PullAgain, IInv
<1>24. CASE AlignEnd
  BY <1>24, WayKept, Places DEF AlignEnd, At, cloud, link, cache, tree, scopes, refreshing,
     topping, pulling, FreshAt, PullRuns, Coming, Kept, Late, PullAgain, IInv
<1>25. ASSUME NEW d \in Did, TopUpTimer(d) PROVE FreshAt(e)'
  BY <1>25, WayKept, TimerFacts, BeginFacts DEF TopUpTimer, cloud, link, cache, tree,
     scopes, refreshing, pulling, FreshAt, PullRuns, Coming, Kept, Late, PullAgain, IInv
<1>26. ASSUME NEW d \in Did, TopUpDrain(d) PROVE FreshAt(e)'
  BY <1>26, WayKept, DrainFacts, BeginFacts DEF TopUpDrain, At, cloud, link, cache, tree,
     scopes, refreshing, pulling, FreshAt, PullRuns, Coming, Kept, Late, PullAgain, IInv
<1>27. ASSUME NEW d \in Did, NEW read \in BOOLEAN, TopUpAnswer(d, read) PROVE FreshAt(e)'
  BY <1>27, WayKept, Places, TopUpPlaces DEF TopUpAnswer, Blame, cloud, link, cache, tree,
     scopes, refreshing, pulling, FreshAt, PullRuns, Coming, Kept, Late, PullAgain, IInv
<1>28. ASSUME NEW d \in Did, TopUpEnd(d) PROVE FreshAt(e)'
  <2>0. TypeOK /\ FreshAt(e)
    BY DEF IInv
  <2>1. UNCHANGED <<report, linked, waiting, refresh, pull, again>> /\ OnWay' = OnWay
    BY <1>28, WayKept DEF TopUpEnd, cloud, link, refreshing
  <2>2. CASE UNCHANGED <<prop, fresh, excuse>>
    BY <2>0, <2>1, <2>2 DEF FreshAt, Kept, Coming, Late, PullAgain, PullRuns
  <2>3. CASE /\ topUp[d].val \in Value /\ Reported(d, topUp[d].val)
             /\ excuse' = Cleared(d, topUp[d].val) \cup Masking(d)
    <3>1. /\ Late(e) => Late(e)' \/ e = d
          /\ prop'[e] = IF e = d THEN topUp[d].val ELSE prop[e]
          /\ fresh' = fresh \cup {d}
      BY <2>0, <2>3, LandedLate
    <3>2. PullRuns(d) => Late(d)'
      BY <2>3, MaskingFacts DEF Late
    <3>. QED BY <2>0, <2>1, <3>1, <3>2 DEF FreshAt, Kept, Coming, PullAgain, PullRuns
  <2>. QED BY <1>28, <2>2, <2>3, EndFacts
<1>29. CASE PullWake
  BY <1>29, WayKept, Places DEF PullWake, cloud, link, cache, tree, scopes, refreshing,
     topping, FreshAt, PullRuns, Coming, Kept, Late, PullAgain, IInv
<1>30. ASSUME NEW d \in Did, PullAsk(d) PROVE FreshAt(e)'
  BY <1>30, WayKept, Places DEF PullAsk, cloud, link, cache, tree, scopes, refreshing,
     topping, FreshAt, PullRuns, Coming, Kept, Late, PullAgain, IInv
<1>31. ASSUME NEW read \in BOOLEAN, PullAnswer(read) PROVE FreshAt(e)'
  BY <1>31, WayKept, Places DEF PullAnswer, Blame, cloud, link, cache, tree, scopes,
     refreshing, topping, FreshAt, PullRuns, Coming, Kept, Late, PullAgain, IInv
<1>32. CASE PullWrite
  BY <1>32, WayKept, PullWriteFacts DEF PullWrite, Aligned, Here, Blame, Kept, Reported,
     Cleared, cloud, link, cache, scopes, refreshing, topping, FreshAt, PullRuns, Coming,
     Late, PullAgain, IInv
<1>33. CASE PullEnd
  BY <1>33, WayKept, Places DEF PullEnd, NoPull, cloud, link, cache, tree, scopes,
     refreshing, topping, FreshAt, PullRuns, Coming, Kept, Late, PullAgain, IInv, PullIdle,
     NoRefresh, NoAlign, NoTopUp
<1>. QED BY <1>1, <1>2, <1>3, <1>4, <1>5, <1>6, <1>7, <1>8, <1>9, <1>10, <1>11, <1>12,
         <1>13, <1>14, <1>15, <1>16, <1>17, <1>18, <1>19, <1>20, <1>21, <1>22, <1>23,
         <1>24, <1>25, <1>26, <1>27, <1>28, <1>29, <1>30, <1>31, <1>32, <1>33, Zenon
         DEF Next, Move, Arrive, Refresh, Reset, Align, TopUp, Pull

LEMMA GotAtStep ==
  ASSUME Parameters, IInv, Next
  PROVE  \A e \in Did : GotAt(e)'
<1>. SUFFICES ASSUME NEW e \in Did PROVE GotAt(e)'
  OBVIOUS
<1>1. ASSUME NEW d \in Did, NEW v \in Value, Report(d, v) PROVE GotAt(e)'
  BY <1>1, ReportFacts DEF Report, cache, tree, scopes, refreshing, topping, pulling, GotAt,
     Coming, Asks, Late, PullAgain, PullRuns, IInv
<1>2. ASSUME NEW d \in Did, Flip(d) PROVE GotAt(e)'
  BY <1>2, FlipFacts DEF Flip, cache, tree, scopes, refreshing, topping, pulling, GotAt,
     Coming, Asks, Late, PullAgain, PullRuns, IInv
<1>3. ASSUME NEW d \in Did, NEW h \in Home, MoveHome(d, h) PROVE GotAt(e)'
  BY <1>3, MoveHomeFacts DEF MoveHome, cache, tree, scopes, refreshing, topping, pulling,
     GotAt, Coming, Asks, Late, PullAgain, PullRuns, IInv
<1>4. CASE Disconnect
  BY <1>4, DisconnectFacts DEF Disconnect, cloud, cache, tree, scopes, refreshing, topping,
     pulling, GotAt, Coming, Asks, Late, PullAgain, PullRuns, IInv
<1>5. CASE UserRefresh
  BY <1>5, WayKept, Places DEF UserRefresh, cloud, link, cache, tree, scopes, topping,
     pulling, GotAt, Coming, Asks, Late, PullAgain, PullRuns, IInv
<1>6. ASSUME NEW h \in Home, SwitchHome(h) PROVE GotAt(e)'
  BY <1>6, WayKept, Places DEF SwitchHome, cloud, link, cache, tree, refreshing, topping,
     pulling, GotAt, Coming, Asks, Late, PullAgain, PullRuns, IInv
<1>7. CASE Reconnect
  BY <1>7, WayKept, Places DEF Reconnect, cloud, cache, tree, scopes, topping, pulling,
     GotAt, Coming, Asks, Late, PullAgain, PullRuns, IInv
<1>8. CASE OnDeviceState
  BY <1>8, StateFacts DEF OnDeviceState, Here, Blame, cloud, scopes, pulling, GotAt, Coming,
     Asks, Late, PullAgain, PullRuns, IInv
<1>9. CASE OnDeviceProps
  <2>0. TypeOK /\ GotAt(e)
    BY DEF IInv
  <2>1. UNCHANGED <<report, linked, waiting, refresh, pull, again, topUp, align>>
    BY <1>9 DEF OnDeviceProps, cloud, refreshing, topping
  <2>2. PICK d \in Did, v \in Value :
          /\ OnWay \subseteq OnWay' \cup {<<"prop", d>>} /\ (<<"prop", d>> \in OnWay' \/ v = report[d])
          /\ \/ Aligned /\ Reported(d, v) /\ excuse' = Cleared(d, v)
             \/ prop' = prop /\ fresh' = fresh /\ excuse' = excuse \cup {<<d, "dropped">>}
    BY <1>9, PropsFacts
  <2>3. Aligned => align.at # "props"
    BY DEF IInv, Scopes, TypeOK, Aligned
  <2>4. CASE prop' = prop /\ fresh' = fresh /\ excuse' = excuse \cup {<<d, "dropped">>}
    BY <2>0, <2>1, <2>2, <2>4 DEF GotAt, Coming, Late, PullAgain, Asks, PullRuns
  <2>5. CASE Aligned /\ Reported(d, v) /\ excuse' = Cleared(d, v)
    <3>1. /\ Late(e) => Late(e)' \/ (e = d /\ v = report[d])
          /\ prop'[e] = IF e = d THEN v ELSE prop[e]
      BY <2>0, <2>5, LandedLate
    <3>2. v # None
      BY DEF Parameters
    <3>. QED BY <2>0, <2>1, <2>2, <2>3, <2>5, <3>1, <3>2
            DEF GotAt, Coming, PullAgain, Asks, PullRuns
  <2>. QED BY <2>2, <2>4, <2>5
<1>10. CASE OnDeviceMeta
  BY <1>10, MetaFacts DEF OnDeviceMeta, cloud, cache, tree, scopes, topping, pulling, GotAt,
     Coming, Asks, Late, PullAgain, PullRuns, IInv
<1>11. CASE RefreshAsk
  BY <1>11, WayKept, Places DEF RefreshAsk, cloud, link, cache, tree, scopes, topping,
     pulling, GotAt, Coming, Asks, Late, PullAgain, PullRuns, IInv
<1>12. CASE RefreshAnswer
  BY <1>12, WayKept, Places DEF RefreshAnswer, cloud, link, cache, tree, scopes, topping,
     pulling, GotAt, Coming, Asks, Late, PullAgain, PullRuns, IInv
<1>13. CASE RefreshApply
  BY <1>13, WayKept, ApplyFacts DEF RefreshApply, Reconcile, SyncOnline, tree, Blame, Here,
     Bereft, Listeners, cloud, link, scopes, topping, PullRuns, GotAt, Coming, Asks, Late,
     PullAgain, IInv
<1>14. CASE RefreshFail
  BY <1>14, WayKept, Places DEF RefreshFail, Listeners, cloud, link, cache, tree, scopes,
     topping, GotAt, Coming, Asks, Late, PullAgain, PullRuns, IInv
<1>15. CASE ResetBegin
  BY <1>15, WayKept, ResetFacts DEF ResetBegin, CancelAlign, Bereft, cloud, link, cache,
     pulling, NoAlign, NoTopUp, Blame, PullRuns, GotAt, Coming, Asks, Late, PullAgain, IInv,
     NoRefresh, NoPull
<1>16. CASE ResetEnd
  BY <1>16, WayKept, Places DEF ResetEnd, NewAlign, cloud, link, cache, tree, refreshing,
     topping, pulling, GotAt, Coming, Asks, Late, PullAgain, PullRuns, IInv
<1>17. CASE AlignFail
  BY <1>17, WayKept, Places DEF AlignFail, At, MovedOn, NewAlign, NoAlign, cloud, link,
     cache, tree, scopes, refreshing, topping, pulling, GotAt, Coming, Asks, Late,
     PullAgain, PullRuns, IInv, NoRefresh, NoTopUp, NoPull
<1>18. CASE AlignCollect
  BY <1>18, WayKept, Places DEF AlignCollect, At, MovedOn, Here, Blame, cloud, link, cache,
     tree, scopes, refreshing, topping, pulling, GotAt, Coming, Asks, Late, PullAgain,
     PullRuns, IInv
<1>19. CASE AlignLive
  BY <1>19, WayKept, Places DEF AlignLive, At, Here, cloud, link, cache, tree, scopes,
     refreshing, topping, pulling, GotAt, Coming, Asks, Late, PullAgain, PullRuns, IInv
<1>20. ASSUME NEW d \in Did, AlignFlag(d) PROVE GotAt(e)'
  BY <1>20, WayKept, FlagFacts DEF AlignFlag, At, MovedOn, Haunted, Blame, cloud, link,
     cache, scopes, refreshing, topping, pulling, Here, GotAt, Coming, Asks, Late,
     PullAgain, PullRuns, IInv
<1>21. ASSUME NEW D \in SUBSET Did, AlignRead(D) PROVE GotAt(e)'
  BY <1>21, WayKept, Places DEF AlignRead, At, Blame, cloud, link, cache, tree, scopes,
     refreshing, topping, pulling, GotAt, Coming, Asks, Late, PullAgain, PullRuns, IInv
<1>22. ASSUME NEW d \in Did, AlignWrite(d) PROVE GotAt(e)'
  <2>0. TypeOK /\ GotAt(e) /\ align.got[d] # None
    BY <1>22, WriteFacts DEF IInv, Parameters
  <2>1. UNCHANGED <<report, linked, waiting, refresh, pull, again>> /\ OnWay' = OnWay /\ topUp' = topUp
    BY <1>22, WayKept DEF AlignWrite, cloud, link, refreshing, topping
  <2>2. /\ Late(e) => Late(e)' \/ e = d
        /\ prop'[e] = IF e = d THEN align.got[d] ELSE prop[e]
    BY <1>22, <2>0, WriteFacts, LandedLate
  <2>3. align'.todo = align.todo \ {d} /\ align'.got = align.got /\ align.at = "props"
    BY <1>22, WriteFacts DEF AlignProps
  <2>. QED BY <2>0, <2>1, <2>2, <2>3 DEF GotAt, Coming, PullAgain, Asks, PullRuns
<1>23. CASE AlignDone
  BY <1>23, WayKept, Places DEF AlignDone, At, MovedOn, cloud, link, cache, tree,
     refreshing, pulling, GotAt, Coming, Asks, Late, PullAgain, PullRuns, IInv
<1>24. CASE AlignEnd
  BY <1>24, WayKept, Places DEF AlignEnd, At, NoAlign, cloud, link, cache, tree, scopes,
     refreshing, topping, pulling, GotAt, Coming, Asks, Late, PullAgain, PullRuns, IInv,
     NoRefresh, NoTopUp, NoPull
<1>25. ASSUME NEW d \in Did, TopUpTimer(d) PROVE GotAt(e)'
  <2>0. TopUpBegin(d, "timer") /\ GotAt(e)
    BY <1>25, TimerFacts DEF IInv
  <2>1. UNCHANGED <<report, linked, waiting, refresh, pull, again, prop, excuse, align>>
        /\ OnWay' = OnWay
    BY <1>25, WayKept DEF TopUpTimer, cloud, link, refreshing, pulling, tree
  <2>2. topUp'[e] = topUp[e] \/ topUp'[e].at = "asked"
    BY <2>0, BeginFacts DEF TopUpAsked
  <2>. QED BY <2>0, <2>1, <2>2 DEF GotAt, Coming, Late, PullAgain, Asks, PullRuns
<1>26. ASSUME NEW d \in Did, TopUpDrain(d) PROVE GotAt(e)'
  <2>0. TopUpBegin(d, "drain") /\ GotAt(e) /\ align'.at # "props"
    BY <1>26, DrainFacts DEF IInv, AlignDrain
  <2>1. UNCHANGED <<report, linked, waiting, refresh, pull, again, prop, excuse>>
        /\ OnWay' = OnWay
    BY <1>26, WayKept DEF TopUpDrain, cloud, link, refreshing, pulling, tree
  <2>2. topUp'[e] = topUp[e] \/ topUp'[e].at = "asked"
    BY <2>0, BeginFacts DEF TopUpAsked
  <2>. QED BY <2>0, <2>1, <2>2 DEF GotAt, Coming, Late, PullAgain, Asks, PullRuns
<1>27. ASSUME NEW d \in Did, NEW read \in BOOLEAN, TopUpAnswer(d, read) PROVE GotAt(e)'
  BY <1>27, WayKept, Places, TopUpPlaces DEF TopUpAnswer, Blame, cloud, link, cache, tree,
     scopes, refreshing, pulling, GotAt, Coming, Asks, Late, PullAgain, PullRuns, IInv
<1>28. ASSUME NEW d \in Did, TopUpEnd(d) PROVE GotAt(e)'
  <2>0. /\ TypeOK /\ GotAt(e) /\ topUp'[d].at = "off"
        /\ \A x \in Did \ {d} : topUp'[x] = topUp[x]
    BY <1>28, EndFacts DEF IInv, NoTopUp
  <2>1. /\ UNCHANGED <<report, linked, waiting, refresh, pull, again>> /\ OnWay' = OnWay
        /\ align' = align
    BY <1>28, WayKept DEF TopUpEnd, cloud, link, refreshing
  <2>2. CASE UNCHANGED <<prop, fresh, excuse>>
    BY <2>0, <2>1, <2>2 DEF GotAt, Coming, Late, PullAgain, Asks, PullRuns
  <2>3. Aligned => align.at # "props"
    BY DEF IInv, Scopes, TypeOK, Aligned
  <2>4. CASE /\ topUp[d].val \in Value /\ TopUpLands(d) /\ Reported(d, topUp[d].val)
             /\ excuse' = Cleared(d, topUp[d].val) \cup Masking(d)
    <3>1. /\ Late(e) => Late(e)' \/ e = d
          /\ prop'[e] = IF e = d THEN topUp[d].val ELSE prop[e]
      BY <2>0, <2>4, LandedLate
    <3>. QED BY <2>0, <2>1, <2>3, <2>4, <3>1 DEF GotAt, Coming, PullAgain, Asks, PullRuns, TopUpLands
  <2>. QED BY <1>28, <2>2, <2>4, EndFacts
<1>29. CASE PullWake
  BY <1>29, WayKept, Places DEF PullWake, cloud, link, cache, tree, scopes, refreshing,
     topping, GotAt, Coming, Asks, Late, PullAgain, PullRuns, IInv
<1>30. ASSUME NEW d \in Did, PullAsk(d) PROVE GotAt(e)'
  BY <1>30, WayKept, Places DEF PullAsk, cloud, link, cache, tree, scopes, refreshing,
     topping, GotAt, Coming, Asks, Late, PullAgain, PullRuns, IInv
<1>31. ASSUME NEW read \in BOOLEAN, PullAnswer(read) PROVE GotAt(e)'
  BY <1>31, WayKept, Places DEF PullAnswer, Blame, cloud, link, cache, tree, scopes,
     refreshing, topping, GotAt, Coming, Asks, Late, PullAgain, PullRuns, IInv
<1>32. CASE PullWrite
  <2>. DEFINE d == pull.did
  <2>0. /\ TypeOK /\ d \in Did /\ GotAt(e) /\ PullRuns(d) /\ pull \in PullGot
        /\ pull' \in PullNext /\ pull'.todo = pull.todo
    BY <1>32, PullWriteFacts DEF IInv
  <2>1. UNCHANGED <<report, linked, waiting, refresh, again, topUp, align>> /\ OnWay' = OnWay
    BY <1>32, WayKept DEF PullWrite, cloud, link, refreshing, topping
  <2>. HIDE DEF d
  <2>2. Asks(e) => Asks(e)' \/ e = d
    BY <2>0 DEF Asks, PullRuns, PullGot, PullNext, d
  <2>3. Aligned => align.at # "props"
    BY DEF IInv, Scopes, TypeOK, Aligned
  <2>4. CASE prop' = prop /\ excuse' = excuse \cup {<<d, "dropped">>}
    BY <2>0, <2>1, <2>2, <2>4 DEF GotAt, Coming, Late, PullAgain
  <2>5. CASE Aligned /\ Kept(d) /\ UNCHANGED <<prop, fresh, excuse>>
    BY <2>0, <2>1, <2>2, <2>3, <2>5 DEF GotAt, Kept, Coming, Late, PullAgain
  <2>6. CASE /\ Aligned /\ pull.val \in Value /\ Reported(d, pull.val)
             /\ excuse' = Cleared(d, pull.val)
    <3>1. /\ Late(e) => Late(e)' \/ e = d
          /\ prop'[e] = IF e = d THEN pull.val ELSE prop[e]
      BY <2>0, <2>6, LandedLate
    <3>2. pull.val # None
      BY <2>6 DEF Parameters
    <3>. QED BY <2>0, <2>1, <2>2, <2>3, <2>6, <3>1, <3>2 DEF GotAt, Coming, PullAgain
  <2>. QED BY <1>32, <2>4, <2>5, <2>6, PullWriteFacts DEF d
<1>33. CASE PullEnd
  BY <1>33, WayKept, Places DEF PullEnd, cloud, link, cache, tree, scopes, refreshing,
     topping, GotAt, Coming, Asks, Late, PullAgain, PullRuns, IInv
<1>. QED BY <1>1, <1>2, <1>3, <1>4, <1>5, <1>6, <1>7, <1>8, <1>9, <1>10, <1>11, <1>12,
         <1>13, <1>14, <1>15, <1>16, <1>17, <1>18, <1>19, <1>20, <1>21, <1>22, <1>23,
         <1>24, <1>25, <1>26, <1>27, <1>28, <1>29, <1>30, <1>31, <1>32, <1>33, Zenon
         DEF Next, Move, Arrive, Refresh, Reset, Align, TopUp, Pull

LEMMA CoveredAtStep ==
  ASSUME Parameters, IInv, Next
  PROVE  \A e \in Did : CoveredAt(e)'
<1>. SUFFICES ASSUME NEW e \in Did PROVE CoveredAt(e)'
  OBVIOUS
<1>1. ASSUME NEW d \in Did, NEW v \in Value, Report(d, v) PROVE CoveredAt(e)'
  BY <1>1, ReportFacts DEF Report, cache, tree, scopes, refreshing, topping, pulling,
     CoveredAt, Here, Later, Aligned, Missed, IInv
<1>2. ASSUME NEW d \in Did, Flip(d) PROVE CoveredAt(e)'
  BY <1>2, FlipFacts DEF Flip, cache, tree, scopes, refreshing, topping, pulling, CoveredAt,
     Here, Later, Aligned, Missed, IInv
<1>3. ASSUME NEW d \in Did, NEW h \in Home, MoveHome(d, h) PROVE CoveredAt(e)'
  BY <1>3, MoveHomeFacts DEF MoveHome, cache, tree, scopes, refreshing, topping, pulling,
     CoveredAt, Here, Later, Aligned, Missed, IInv
<1>4. CASE Disconnect
  BY <1>4, DisconnectFacts DEF Disconnect, cloud, cache, tree, scopes, refreshing, topping,
     pulling, CoveredAt, Here, Later, Aligned, Missed, IInv
<1>5. CASE UserRefresh
  BY <1>5, Places DEF UserRefresh, cloud, link, cache, tree, scopes, topping, pulling,
     CoveredAt, Here, Later, Aligned, Missed, IInv
<1>6. ASSUME NEW h \in Home, SwitchHome(h) PROVE CoveredAt(e)'
  BY <1>6, Places DEF SwitchHome, cloud, link, cache, tree, refreshing, topping, pulling,
     CoveredAt, Here, Later, Aligned, Missed, IInv, Scopes, TypeOK, NoRefresh, NoAlign,
     NoTopUp, NoPull
<1>7. CASE Reconnect
  BY <1>7, Places DEF Reconnect, cloud, cache, tree, scopes, topping, pulling, CoveredAt,
     Here, Later, Aligned, Missed, IInv
<1>8. CASE OnDeviceState
  BY <1>8, StateFacts DEF OnDeviceState, Here, Blame, cloud, scopes, pulling, CoveredAt,
     Later, Aligned, Missed, IInv
<1>9. CASE OnDeviceProps
  <2>0. TypeOK /\ CoveredAt(e)
    BY DEF IInv
  <2>1. UNCHANGED <<alive, home, enabled, resets, alignedScope, scope, timers, used, align, wanted, topUp>>
    BY <1>9 DEF OnDeviceProps, cache, scopes, topping
  <2>2. PICK d \in Did, v \in Value :
          /\ OnWay \subseteq OnWay' \cup {<<"prop", d>>} /\ (<<"prop", d>> \in OnWay' \/ v = report[d])
          /\ \/ Aligned /\ Reported(d, v) /\ excuse' = Cleared(d, v)
             \/ prop' = prop /\ fresh' = fresh /\ excuse' = excuse \cup {<<d, "dropped">>}
    BY <1>9, PropsFacts
  <2>3. Aligned => align.at \notin {"spec", "flags", "props"}
    BY DEF IInv, Scopes, TypeOK, Aligned
  <2>4. CASE prop' = prop /\ fresh' = fresh /\ excuse' = excuse \cup {<<d, "dropped">>}
    BY <2>0, <2>1, <2>4 DEF CoveredAt, Later, Here, Aligned, Missed
  <2>5. CASE Aligned /\ Reported(d, v) /\ excuse' = Cleared(d, v)
    <3>1. /\ Missed(e) => Missed(e)' \/ e = d
          /\ prop'[e] = IF e = d THEN v ELSE prop[e]
      BY <2>0, <2>5, LandedLate
    <3>2. v # None
      BY DEF Parameters
    <3>. QED BY <2>0, <2>1, <2>3, <2>5, <3>1, <3>2 DEF CoveredAt, Later, Here, Aligned
  <2>. QED BY <2>2, <2>4, <2>5
<1>10. CASE OnDeviceMeta
  BY <1>10, MetaFacts DEF OnDeviceMeta, cloud, cache, tree, scopes, topping, pulling,
     CoveredAt, Here, Later, Aligned, Missed, IInv
<1>11. CASE RefreshAsk
  BY <1>11, Places DEF RefreshAsk, cloud, link, cache, tree, scopes, topping, pulling,
     CoveredAt, Here, Later, Aligned, Missed, IInv
<1>12. CASE RefreshAnswer
  BY <1>12, Places DEF RefreshAnswer, cloud, link, cache, tree, scopes, topping, pulling,
     CoveredAt, Here, Later, Aligned, Missed, IInv
<1>13. CASE RefreshApply
  BY <1>13, ApplyFacts DEF RefreshApply, Reconcile, SyncOnline, tree, Blame, Here, Bereft,
     Listeners, cloud, link, scopes, topping, PullRuns, CoveredAt, Later, Aligned, Missed,
     IInv
<1>14. CASE RefreshFail
  BY <1>14, Places DEF RefreshFail, Listeners, cloud, link, cache, tree, scopes, topping,
     CoveredAt, Here, Later, Aligned, Missed, IInv
<1>15. CASE ResetBegin
  BY <1>15, ResetFacts DEF ResetBegin, CancelAlign, Bereft, cloud, link, cache, pulling,
     NoAlign, NoTopUp, Blame, PullRuns, CoveredAt, Here, Later, Aligned, Missed, IInv,
     Scopes, TypeOK, NoRefresh, NoPull
<1>16. CASE ResetEnd
  BY <1>16, Places DEF ResetEnd, NewAlign, cloud, link, cache, tree, refreshing, topping,
     pulling, CoveredAt, Here, Later, Aligned, Missed, IInv, Scopes, TypeOK, NoRefresh,
     NoAlign, NoTopUp, NoPull
<1>17. CASE AlignFail
  BY <1>17, Places DEF AlignFail, At, MovedOn, NewAlign, NoAlign, cloud, link, cache, tree,
     scopes, refreshing, topping, pulling, CoveredAt, Here, Later, Aligned, Missed, IInv,
     Scopes, TypeOK, NoRefresh, NoTopUp, NoPull
<1>18. CASE AlignCollect
  BY <1>18, Places DEF AlignCollect, At, MovedOn, Here, Blame, cloud, link, cache, tree,
     scopes, refreshing, topping, pulling, NoAlign, CoveredAt, Later, Aligned, Missed, IInv,
     Scopes, TypeOK, NoRefresh, NoTopUp, NoPull
<1>19. CASE AlignLive
  BY <1>19, Places DEF AlignLive, At, Here, cloud, link, cache, tree, scopes, refreshing,
     topping, pulling, CoveredAt, Later, Aligned, Missed, IInv
<1>20. ASSUME NEW d \in Did, AlignFlag(d) PROVE CoveredAt(e)'
  BY <1>20, FlagFacts DEF AlignFlag, At, MovedOn, Haunted, Blame, cloud, link, cache,
     scopes, refreshing, topping, pulling, Here, CoveredAt, Later, Aligned, Missed, IInv
<1>21. ASSUME NEW D \in SUBSET Did, AlignRead(D) PROVE CoveredAt(e)'
  BY <1>21, Places DEF AlignRead, At, Blame, cloud, link, cache, tree, scopes, refreshing,
     topping, pulling, CoveredAt, Here, Later, Aligned, Missed, IInv
<1>22. ASSUME NEW d \in Did, AlignWrite(d) PROVE CoveredAt(e)'
  <2>0. TypeOK /\ CoveredAt(e) /\ align.got[d] # None
    BY <1>22, WriteFacts DEF IInv, Parameters
  <2>1. UNCHANGED <<alive, home, enabled, resets, alignedScope, scope, timers, used, wanted, topUp>>
    BY <1>22 DEF AlignWrite, cache, scopes, topping
  <2>2. /\ Missed(e) => Missed(e)' \/ e = d
        /\ prop'[e] = IF e = d THEN align.got[d] ELSE prop[e]
    BY <1>22, <2>0, WriteFacts, LandedLate
  <2>3. align'.todo = align.todo \ {d} /\ align.at = "props" /\ align'.at = "props"
    BY <1>22, WriteFacts DEF AlignProps
  <2>. QED BY <2>0, <2>1, <2>2, <2>3 DEF CoveredAt, Later, Here, Aligned
<1>23. CASE AlignDone
  BY <1>23, Places DEF AlignDone, At, MovedOn, cloud, link, cache, tree, refreshing,
     pulling, CoveredAt, Here, Later, Aligned, Missed, IInv
<1>24. CASE AlignEnd
  BY <1>24, Places DEF AlignEnd, At, NoAlign, cloud, link, cache, tree, scopes, refreshing,
     topping, pulling, CoveredAt, Here, Later, Aligned, Missed, IInv, Scopes, TypeOK,
     NoRefresh, NoTopUp, NoPull
<1>25. ASSUME NEW d \in Did, TopUpTimer(d) PROVE CoveredAt(e)'
  <2>0. TopUpBegin(d, "timer") /\ CoveredAt(e)
    BY <1>25, TimerFacts DEF IInv, AlignDrain, NoAlign
  <2>1. /\ UNCHANGED <<alive, home, enabled, resets, alignedScope, scope, used, prop, excuse, align>>
        /\ timers \subseteq timers' \cup {d}
    BY <1>25, TimerFacts DEF TopUpTimer, cache, scopes, tree
  <2>2. /\ topUp[d].at = "off" /\ wanted \subseteq wanted'
        /\ topUp'[e] = topUp[e] \/ topUp'[e].at = "asked"
        /\ Aligned /\ MayTopUp(d) => topUp'[d].at = "asked"
        /\ ~Aligned => d \in wanted'
    BY <2>0, BeginFacts DEF TopUpAsked, NoTopUp
  <2>3. used[d] \in 0 .. MaxTopUps /\ MaxTopUps \in Nat
    BY DEF IInv, TypeOK, Parameters
  <2>4. Aligned => align.at \notin {"spec", "flags", "props"}
    BY DEF IInv, Scopes, TypeOK, Aligned
  <2>5. CASE e # d
    BY <2>0, <2>1, <2>2, <2>5 DEF CoveredAt, Later, Here, Aligned, Missed
  <2>6. CASE e = d
    BY <2>0, <2>1, <2>2, <2>3, <2>4, <2>6 DEF CoveredAt, Later, Here, Aligned, Missed, MayTopUp
  <2>. QED BY <2>5, <2>6
<1>26. ASSUME NEW d \in Did, TopUpDrain(d) PROVE CoveredAt(e)'
  <2>0. TopUpBegin(d, "drain") /\ CoveredAt(e) /\ align.at = "drain"
        /\ align'.at = "drain" /\ align'.todo = align.todo \ {d}
    BY <1>26, DrainFacts DEF IInv, AlignDrain, NoAlign
  <2>1. /\ UNCHANGED <<alive, home, enabled, resets, alignedScope, scope, used, prop, excuse>>
        /\ timers \subseteq timers' \cup {d}
    BY <1>26, DrainFacts DEF TopUpDrain, cache, scopes, tree
  <2>2. /\ topUp[d].at = "off" /\ wanted \subseteq wanted'
        /\ topUp'[e] = topUp[e] \/ topUp'[e].at = "asked"
        /\ Aligned /\ MayTopUp(d) => topUp'[d].at = "asked"
        /\ ~Aligned => d \in wanted'
    BY <2>0, BeginFacts DEF TopUpAsked, NoTopUp
  <2>3. used[d] \in 0 .. MaxTopUps /\ MaxTopUps \in Nat
    BY DEF IInv, TypeOK, Parameters
  <2>4. Aligned => align.at \notin {"spec", "flags", "props"}
    BY DEF IInv, Scopes, TypeOK, Aligned
  <2>5. CASE e # d
    BY <2>0, <2>1, <2>2, <2>5 DEF CoveredAt, Later, Here, Aligned, Missed
  <2>6. CASE e = d
    BY <2>0, <2>1, <2>2, <2>3, <2>4, <2>6 DEF CoveredAt, Later, Here, Aligned, Missed, MayTopUp
  <2>. QED BY <2>5, <2>6
<1>27. ASSUME NEW d \in Did, NEW read \in BOOLEAN, TopUpAnswer(d, read) PROVE CoveredAt(e)'
  BY <1>27, Places, TopUpPlaces DEF TopUpAnswer, Blame, cloud, link, cache, tree, scopes,
     refreshing, pulling, CoveredAt, Here, Later, Aligned, Missed, IInv, Parameters, Scopes,
     TypeOK, Shape, Counted, NoRefresh, NoAlign, NoTopUp, NoPull, RefreshAsked,
     RefreshAnswered, AlignStart, AlignSpec, AlignFlags, AlignProps, AlignDrain, TopUpAsked,
     TopUpGot, PullDelay, PullNext, PullAsked, PullGot, Message
<1>28. ASSUME NEW d \in Did, TopUpEnd(d) PROVE CoveredAt(e)'
  <2>0. /\ TypeOK /\ CoveredAt(e) /\ topUp[d] \in TopUpGot
        /\ \A x \in Did \ {d} : topUp'[x] = topUp[x] /\ used'[x] = used[x]
        /\ IF topUp[d].scope = scope THEN used'[d] = topUp[d].used + 1 ELSE used'[d] = used[d]
    BY <1>28, EndFacts DEF IInv
  <2>1. UNCHANGED <<alive, home, enabled, resets, alignedScope, scope, timers, wanted, align>>
    BY <1>28 DEF TopUpEnd, cache, scopes
  <2>2. used[d] = MaxTopUps => used'[d] = MaxTopUps
    <3>1. topUp[d] # NoTopUp /\ topUp[d].used \in Nat
      BY <2>0 DEF TopUpGot, NoTopUp
    <3>. QED BY <2>0, <3>1 DEF IInv, Counted, Parameters
  <2>3. Aligned => align.at \notin {"spec", "flags", "props"}
    BY DEF IInv, Scopes, TypeOK, Aligned
  <2>4. CASE /\ topUp[d].val = None \/ ~TopUpLands(d)
             /\ UNCHANGED <<prop, fresh, excuse>>
    <3>1. CASE e # d
      BY <2>0, <2>1, <2>4, <3>1 DEF CoveredAt, Later, Here, Aligned, Missed
    <3>2. CASE e = d
      BY <2>0, <2>1, <2>2, <2>4, <3>2 DEF CoveredAt, Later, Here, Aligned, Missed, TopUpLands, TopUpGot
    <3>. QED BY <3>1, <3>2
  <2>5. CASE /\ topUp[d].val \in Value /\ TopUpLands(d) /\ Reported(d, topUp[d].val)
             /\ excuse' = Cleared(d, topUp[d].val) \cup Masking(d)
    <3>1. /\ Missed(e) => Missed(e)' \/ e = d
          /\ prop'[e] = IF e = d THEN topUp[d].val ELSE prop[e]
      BY <2>0, <2>5, LandedLate
    <3>2. topUp[d].val # None
      BY <2>5 DEF Parameters
    <3>. QED BY <2>0, <2>1, <2>3, <2>5, <3>1, <3>2 DEF CoveredAt, Later, Here, Aligned, TopUpLands
  <2>. QED BY <1>28, <2>4, <2>5, EndFacts
<1>29. CASE PullWake
  BY <1>29, Places DEF PullWake, cloud, link, cache, tree, scopes, refreshing, topping,
     CoveredAt, Here, Later, Aligned, Missed, IInv
<1>30. ASSUME NEW d \in Did, PullAsk(d) PROVE CoveredAt(e)'
  BY <1>30, Places DEF PullAsk, cloud, link, cache, tree, scopes, refreshing, topping,
     CoveredAt, Here, Later, Aligned, Missed, IInv
<1>31. ASSUME NEW read \in BOOLEAN, PullAnswer(read) PROVE CoveredAt(e)'
  BY <1>31, Places DEF PullAnswer, Blame, cloud, link, cache, tree, scopes, refreshing,
     topping, CoveredAt, Here, Later, Aligned, Missed, IInv
<1>32. CASE PullWrite
  <2>. DEFINE d == pull.did
  <2>0. TypeOK /\ d \in Did /\ CoveredAt(e)
    BY <1>32, PullWriteFacts DEF IInv
  <2>1. UNCHANGED <<alive, home, enabled, resets, alignedScope, scope, timers, used, wanted, align, topUp>>
    BY <1>32 DEF PullWrite, cache, scopes, topping
  <2>. HIDE DEF d
  <2>3. Aligned => align.at \notin {"spec", "flags", "props"}
    BY DEF IInv, Scopes, TypeOK, Aligned
  <2>4. CASE prop' = prop /\ (excuse' = excuse \/ excuse' = excuse \cup {<<d, "dropped">>})
    BY <2>0, <2>1, <2>4 DEF CoveredAt, Later, Here, Aligned, Missed
  <2>5. CASE /\ Aligned /\ pull.val \in Value /\ Reported(d, pull.val)
             /\ excuse' = Cleared(d, pull.val)
    <3>1. /\ Missed(e) => Missed(e)' \/ e = d
          /\ prop'[e] = IF e = d THEN pull.val ELSE prop[e]
      BY <2>0, <2>5, LandedLate
    <3>2. pull.val # None
      BY <2>5 DEF Parameters
    <3>. QED BY <2>0, <2>1, <2>3, <2>5, <3>1, <3>2 DEF CoveredAt, Later, Here, Aligned
  <2>. QED BY <1>32, <2>4, <2>5, PullWriteFacts DEF d
<1>33. CASE PullEnd
  BY <1>33, Places DEF PullEnd, cloud, link, cache, tree, scopes, refreshing, topping,
     CoveredAt, Here, Later, Aligned, Missed, IInv
<1>. QED BY <1>1, <1>2, <1>3, <1>4, <1>5, <1>6, <1>7, <1>8, <1>9, <1>10, <1>11, <1>12,
         <1>13, <1>14, <1>15, <1>16, <1>17, <1>18, <1>19, <1>20, <1>21, <1>22, <1>23,
         <1>24, <1>25, <1>26, <1>27, <1>28, <1>29, <1>30, <1>31, <1>32, <1>33, Zenon
         DEF Next, Move, Arrive, Refresh, Reset, Align, TopUp, Pull


(***************************************************************************)
(* The theorems.                                                           *)
(***************************************************************************)

\* A step that changes nothing.
LEMMA StutterStep ==
  ASSUME IInv, UNCHANGED vars
  PROVE  IInv'
<1>1. /\ UNCHANGED <<where, up, report, linked, pushes, home, alive, online, prop, enabled>>
      /\ UNCHANGED <<scope, alignedScope, resets, rebuilding, waiting, refresh, failed, align>>
      /\ UNCHANGED <<timers, topUp, used, wanted, pull, again, fresh, excuse, moves>>
      /\ OnWay' = OnWay
  BY WayKept DEF vars, cloud, link, cache, tree, scopes, refreshing, topping, pulling
<1>2. TypeOK' /\ Shape' /\ Counted' /\ PullIdle'
  BY <1>1 DEF IInv, TypeOK, Shape, Counted, PullIdle
<1>3. QueueRight' /\ Scopes' /\ HomeKnown'
  BY <1>1 DEF IInv, QueueRight, Scopes, HomeKnown, Soon
<1>4. ASSUME NEW d \in Did
      PROVE  /\ AliveAt(d)' /\ TreeAt(d)' /\ PropAt(d)' /\ FreshAt(d)' /\ GotAt(d)'
             /\ CoveredAt(d)'
  <2>1. Here(d)' = Here(d) /\ Coming(d)' = Coming(d) /\ Asks(d)' = Asks(d)
    BY <1>1 DEF Here, Coming, Late, PullAgain, Asks, PullRuns
  <2>2. AliveAt(d)' /\ TreeAt(d)' /\ PropAt(d)' /\ FreshAt(d)' /\ GotAt(d)'
    BY <1>1, <2>1 DEF IInv, AliveAt, TreeAt, Stored, PropAt, FreshAt, Kept, PullRuns, GotAt
  <2>3. CoveredAt(d)'
    BY <1>1, <2>1 DEF IInv, CoveredAt, Later, Missed, Aligned
  <2>. QED BY <2>2, <2>3
<1>. QED BY <1>2, <1>3, <1>4 DEF IInv

\* The store is empty, and the first alignment is about to run.
LEMMA InitInv ==
  ASSUME Parameters, Init
  PROVE  IInv
<1>1. TypeOK
  <2>1. /\ Len(pushes) <= MaxPushes /\ moves \in 0 .. MaxMoves /\ resets \in 0 .. MaxScope
        /\ scope \in 0 .. MaxScope /\ alignedScope \in -1 .. scope
        /\ used \in [Did -> 0 .. MaxTopUps]
    BY DEF Parameters, Init
  <2>2. refresh.who \in Caller \cup {"nobody"}
    BY DEF Init, NoRefresh
  <2>. QED BY <2>1, <2>2 DEF Init, TypeOK
<1>2. Shape /\ Counted /\ PullIdle
  <2>1. align \in AlignStart
    BY DEF Init, NewAlign, AlignStart
  <2>. QED BY <2>1 DEF Init, Shape, Counted, PullIdle
<1>3. QueueRight /\ HomeKnown /\ Scopes
  BY DEF Init, QueueRight, HomeKnown, Scopes, NewAlign, NoAlign, Parameters
<1>4. ASSUME NEW d \in Did
      PROVE  /\ AliveAt(d) /\ TreeAt(d) /\ PropAt(d) /\ FreshAt(d) /\ GotAt(d)
             /\ CoveredAt(d)
  <2>1. AliveAt(d) /\ TreeAt(d) /\ PropAt(d)
    BY DEF Init, AliveAt, TreeAt, PropAt
  <2>2. FreshAt(d) /\ GotAt(d)
    BY DEF Init, FreshAt, PullRuns, NoPull, GotAt, NoTopUp, NewAlign
  <2>3. CoveredAt(d)
    BY DEF Init, CoveredAt, Aligned, NewAlign
  <2>. QED BY <2>1, <2>2, <2>3
<1>. QED BY <1>1, <1>2, <1>3, <1>4 DEF IInv

\* The inductive invariant holds.
THEOREM Invariance == ASSUME Parameters PROVE Spec => []IInv
<1>1. Init => IInv
  BY InitInv
<1>2. IInv /\ [Next]_vars => IInv'
  <2>1. CASE IInv /\ Next
    BY <2>1, TypeOKStep, ShapeStep, CountedStep, QueueRightStep, ScopesStep, PullIdleStep,
       HomeKnownStep, AliveAtStep, TreeAtStep, PropAtStep, FreshAtStep, GotAtStep,
       CoveredAtStep DEF IInv
  <2>2. CASE IInv /\ UNCHANGED vars
    BY <2>2, StutterStep
  <2>. QED BY <2>1, <2>2
<1>. QED BY <1>1, <1>2, PTL DEF Spec

\* Every variable has its type, and no device uses more top-ups than it has
\* (manager.py:300).
THEOREM TypeCorrect == ASSUME Parameters PROVE Spec => []TypeOK
<1>1. IInv => TypeOK
  BY DEF IInv
<1>. QED BY <1>1, Invariance, PTL

\* At rest no push is on its way and nothing is under way that would bring another value.
LEMMA RestFacts ==
  ASSUME IInv, AtRest
  PROVE  /\ OnWay = {} /\ ~Soon /\ ~PullAgain /\ refresh = NoRefresh
         /\ \A d \in Did : ~Asks(d) /\ topUp[d] = NoTopUp
<1>1. OnWay = {}
  BY DEF AtRest, OnWay
<1>2. refresh.who = "nobody" /\ pull.at = "off" /\ ~again
  BY DEF AtRest, NoRefresh, NoPull, IInv, PullIdle
<1>. QED BY <1>1, <1>2 DEF AtRest, Soon, PullAgain, Asks, PullRuns

\* At rest, after a refresh that went through, each device of the enabled home has the
\* online flag of the cloud, and the others have no leaf (miot/client.py:1294).
THEOREM OnlineIsFollowed == ASSUME Parameters PROVE Spec => []OnlineFollows
<1>1. IInv => OnlineFollows
  <2>. SUFFICES ASSUME IInv, AtRest, ~failed, NEW d \in Did
                PROVE  IF where[d] = enabled
                       THEN online[d] = up[d] \/ Excused(d, {"overtaken", "ghost"})
                       ELSE {online[d], prop[d]} = {None} \/ Excused(d, {"ghost"})
    BY Zenon DEF OnlineFollows
  <2>1. home = where
    BY RestFacts DEF IInv, HomeKnown
  <2>2. alive[d] = up[d] \/ <<d, "overtaken">> \in excuse
    BY RestFacts DEF IInv, AliveAt, Soon
  <2>3. <<d, "ghost">> \in excuse \/ Stored(d)
    BY RestFacts DEF IInv, TreeAt, Soon, AtRest
  <2>. QED BY <2>1, <2>2, <2>3 DEF Stored, Here, Excused
<1>. QED BY <1>1, Invariance, PTL

\* At rest a property leaf holds what the device last reported
\* (miot/state_push.py:156, rule/iot_source.py:536).
THEOREM PropIsFollowed == ASSUME Parameters PROVE Spec => []PropFollows
<1>1. IInv => PropFollows
  <2>. SUFFICES ASSUME IInv, AtRest, NEW d \in Did
                PROVE  prop[d] \in {None, report[d]} \/ Excused(d, {"dropped", "unread", "masked"})
    BY DEF PropFollows
  <2>1. Late(d) \/ prop[d] \in {None, report[d]}
    BY RestFacts DEF IInv, PropAt, Coming
  <2>. QED BY <2>1 DEF Late, Excused
<1>. QED BY <1>1, Invariance, PTL

\* At rest in an aligned scope, a device of the home that is online has its property
\* leaves (manager.py:342).
THEOREM NobodyIsForgotten == ASSUME Parameters PROVE Spec => []NobodyForgotten
<1>1. IInv => NobodyForgotten
  <2>. SUFFICES ASSUME IInv, AtRest, Aligned, ~failed, NEW d \in Did,
                       where[d] = enabled, up[d], prop[d] = None
                PROVE  Excused(d, {"movedIn", "unheard", "unread", "overtaken"})
                       \/ used[d] = MaxTopUps
    BY DEF NobodyForgotten
  <2>1. home = where
    BY RestFacts DEF IInv, HomeKnown
  <2>2. alive[d] = up[d] \/ <<d, "overtaken">> \in excuse
    BY RestFacts DEF IInv, AliveAt, Soon
  <2>3. CoveredAt(d) /\ resets = 0 /\ timers = {} /\ align.at = "off" /\ topUp[d].at = "off"
    BY RestFacts DEF IInv, AtRest, NoAlign, NoTopUp
  <2>4. alive[d] => Missed(d) \/ used[d] = MaxTopUps
    BY <2>1, <2>3 DEF CoveredAt, Here
  <2>5. alive[d] \/ <<d, "overtaken">> \in excuse
    BY <2>2
  <2>. QED BY <2>4, <2>5 DEF Missed, Excused
<1>. QED BY <1>1, Invariance, PTL
==============================================================================
