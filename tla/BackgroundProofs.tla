--------------------------- MODULE BackgroundProofs ---------------------------
(***************************************************************************)
(* Theorems about CronSchedule, for every set of rows, every delay and     *)
(* period, and about the run that takes the rows and the windows of        *)
(* perception together.                                                    *)
(***************************************************************************)
EXTENDS MCBackground, FiniteSetTheorems, TLAPS


-----------------------------------------------------------------------------
(* The inductive invariant. *)

\* A row that was never created has left no trace.
UnbornIsBlank ==
  \A c \in Cron : row[c] = "unborn" =>
    attempt[c] = 0 /\ refused[c] = {} /\ \A j \in Job : job[c][j] = 0 /\ turn[c][j] = NoTurn

\* An "at" that exists has a time; no job of it comes before that time, and a
\* turn or a retry chain means that the time has come.
AtDue ==
  \A c \in At : /\ Exists(c) => due[c] # 0
                /\ \A j \in Job : /\ job[c][j] # 0 => job[c][j] >= due[c]
                                  /\ turn[c][j] # NoTurn => now >= due[c]
                /\ attempt[c] # 0 => now >= due[c]

\* Keys are spent in order: what was refused lies below the attempt of the row,
\* and no turn is ahead of it.
KeysInOrder ==
  \A c \in At : /\ Exists(c) => \A k \in refused[c] : k < attempt[c]
                /\ \A j \in Job : turn[c][j] # NoTurn => turn[c][j] <= attempt[c]

\* An enabled periodic row has its main job, whatever its turns do.
PeriodicIsScheduled ==
  \A c \in Periodic : row[c] = "enabled" => job[c]["main"] # 0

IInv ==
  /\ TypeOK
  /\ UnbornIsBlank
  /\ AtDue
  /\ KeysInOrder
  /\ PeriodicIsScheduled
  /\ EnabledIsAlive

-----------------------------------------------------------------------------
(* Facts about the helpers. *)

LEMMA NextRunIsLater ==
  ASSUME NEW t \in Nat
  PROVE  NextRun(t) \in Nat /\ NextRun(t) > 0
<1>1. Period \in Nat /\ Period > 0
  BY TimeAssumption
<1>2. t \div Period \in Nat
  BY <1>1
<1>3. (t \div Period + 1) * Period \in Nat /\ (t \div Period + 1) * Period > 0
  BY <1>1, <1>2
<1>. QED
  BY <1>3 DEF NextRun

LEMMA JobsType ==
  ASSUME NEW m \in Nat, NEW r \in Nat
  PROVE  /\ Jobs(m, r) \in [Job -> Nat]
         /\ Jobs(m, r)["main"] = m /\ Jobs(m, r)["retry"] = r
BY DEF Jobs, Job

-----------------------------------------------------------------------------
(* Every action preserves the invariant. *)

LEMMA InvInit == Init => IInv
BY TimeAssumption, CronAssumption DEF Init, IInv, TypeOK, UnbornIsBlank, AtDue, KeysInOrder, PeriodicIsScheduled,
   EnabledIsAlive, Alive, Exists, Jobs, Job, NoTurn, Cron

LEMMA CreateStep ==
  ASSUME IInv, NEW c \in Cron, Create(c)
  PROVE  IInv'
<1>1. TypeOK'
  <2>1. now \in Nat
    BY DEF IInv, TypeOK
  <2>2. CASE c \in At
    <3>1. PICK t \in now + 1 .. MaxDue : /\ due' = [due EXCEPT ![c] = t]
                                        /\ job' = [job EXCEPT ![c]["main"] = t]
      BY <2>2, CronAssumption DEF Create
    <3>2. t \in Nat /\ t \in 0 .. MaxTime
      BY <2>1, TimeAssumption
    <3>. QED
      BY <2>2, <3>1, <3>2, CronAssumption DEF IInv, TypeOK, Create, Job, Cron
  <2>3. CASE c \in Periodic
    <3>1. due' = due /\ job' = [job EXCEPT ![c]["main"] = NextRun(now)]
      BY <2>3, CronAssumption DEF Create
    <3>2. NextRun(now) \in Nat
      BY <2>1, NextRunIsLater
    <3>. QED
      BY <2>3, <3>1, <3>2, CronAssumption DEF IInv, TypeOK, Create, Job, Cron
  <2>. QED
    BY <2>2, <2>3 DEF Cron
<1>2. UnbornIsBlank'
  BY DEF IInv, TypeOK, UnbornIsBlank, Create, Job
<1>3. AtDue'
  BY CronAssumption DEF IInv, TypeOK, UnbornIsBlank, AtDue, Create, Exists, Job, Cron
<1>4. KeysInOrder'
  BY DEF IInv, TypeOK, UnbornIsBlank, KeysInOrder, Create, Exists, Job, Cron
<1>5. PeriodicIsScheduled'
  BY NextRunIsLater, CronAssumption DEF IInv, TypeOK, PeriodicIsScheduled, Create, Job, Cron
<1>6. EnabledIsAlive'
  BY NextRunIsLater DEF IInv, TypeOK, EnabledIsAlive, Alive, Create, Job
<1>. QED
  BY <1>1, <1>2, <1>3, <1>4, <1>5, <1>6 DEF IInv
LEMMA DeleteStep ==
  ASSUME IInv, NEW c \in Cron, Delete(c)
  PROVE  IInv'
<1>. Jobs(0, 0) \in [Job -> Nat] /\ \A j \in Job : Jobs(0, 0)[j] = 0
  BY JobsType DEF Job
<1>1. TypeOK'
  BY DEF IInv, TypeOK, Delete, Job
<1>2. UnbornIsBlank'
  BY DEF IInv, TypeOK, UnbornIsBlank, Delete
<1>3. AtDue'
  BY DEF IInv, TypeOK, AtDue, Delete, Exists, Cron
<1>4. KeysInOrder'
  BY DEF IInv, TypeOK, KeysInOrder, Delete, Exists, Cron
<1>5. PeriodicIsScheduled'
  BY DEF IInv, TypeOK, PeriodicIsScheduled, Delete, Cron
<1>6. EnabledIsAlive'
  BY DEF IInv, TypeOK, EnabledIsAlive, Alive, Delete
<1>. QED
  BY <1>1, <1>2, <1>3, <1>4, <1>5, <1>6 DEF IInv

LEMMA EnableStep ==
  ASSUME IInv, NEW c \in Cron, Enable(c)
  PROVE  IInv'
<1> DEFINE m == IF c \in At THEN due[c] ELSE NextRun(now)
<1>1. m \in Nat /\ m > 0
  <2>1. CASE c \in At
    BY <2>1 DEF IInv, TypeOK, AtDue, Enable
  <2>2. CASE c \notin At
    BY <2>2, NextRunIsLater DEF IInv, TypeOK
  <2>. QED
    BY <2>1, <2>2
<1>2. job' = [job EXCEPT ![c]["main"] = m]
  BY DEF Enable
<1>3. c \in At => m = due[c]
  OBVIOUS
<1>. HIDE DEF m
<1>4. TypeOK'
  BY <1>1, <1>2 DEF IInv, TypeOK, Enable, Job
<1>5. UnbornIsBlank'
  BY <1>1, <1>2 DEF IInv, TypeOK, UnbornIsBlank, Enable, Exists
<1>6. AtDue'
  BY <1>1, <1>2, <1>3 DEF IInv, TypeOK, AtDue, Enable, Exists, Cron, Job
<1>7. KeysInOrder'
  BY DEF IInv, TypeOK, KeysInOrder, Enable, Exists, Cron
<1>8. PeriodicIsScheduled'
  BY <1>1, <1>2 DEF IInv, TypeOK, PeriodicIsScheduled, Enable, Cron, Job
<1>9. EnabledIsAlive'
  BY <1>1, <1>2 DEF IInv, TypeOK, EnabledIsAlive, Alive, Enable, Job
<1>. QED
  BY <1>4, <1>5, <1>6, <1>7, <1>8, <1>9 DEF IInv

LEMMA DisableStep ==
  ASSUME IInv, NEW c \in Cron, Disable(c)
  PROVE  IInv'
<1>1. TypeOK'
  BY DEF IInv, TypeOK, Disable, Job
<1>2. UnbornIsBlank'
  BY DEF IInv, TypeOK, UnbornIsBlank, Disable, Exists
<1>3. AtDue'
  BY DEF IInv, TypeOK, AtDue, Disable, Exists, Cron, Job
<1>4. KeysInOrder'
  BY DEF IInv, TypeOK, KeysInOrder, Disable, Exists, Cron
<1>5. PeriodicIsScheduled'
  BY DEF IInv, TypeOK, PeriodicIsScheduled, Disable, Cron, Job
<1>6. EnabledIsAlive'
  BY DEF IInv, TypeOK, EnabledIsAlive, Alive, Disable, Job
<1>. QED
  BY <1>1, <1>2, <1>3, <1>4, <1>5, <1>6 DEF IInv

LEMMA TickStep ==
  ASSUME IInv, Tick
  PROVE  IInv'
<1>1. TypeOK'
  BY TimeAssumption DEF IInv, TypeOK, Tick
<1>2. UnbornIsBlank' /\ KeysInOrder' /\ PeriodicIsScheduled' /\ EnabledIsAlive'
  BY DEF IInv, UnbornIsBlank, KeysInOrder, PeriodicIsScheduled, EnabledIsAlive, Alive, Tick, Exists
<1>3. AtDue'
  BY DEF IInv, TypeOK, AtDue, Tick, Exists, Cron
<1>. QED
  BY <1>1, <1>2, <1>3 DEF IInv
\* What a row that exists, or did, has to satisfy after a step: r, J, U, a and F
\* are its state, jobs, turns, attempt and refused keys, K the rows in unknown.
PeriodicFine(c, r, J, U, a) ==
  c \in Periodic =>
    /\ a = 0 /\ J["retry"] = 0 /\ U["retry"] = NoTurn
    /\ r = "enabled" => J["main"] # 0

AtFine(c, r, J, U, a, F) ==
  c \in At =>
    /\ \A j \in Job : /\ J[j] # 0 => J[j] >= due[c]
                      /\ U[j] # NoTurn => now >= due[c] /\ U[j] <= a
    /\ a # 0 => now >= due[c]
    /\ r # "gone" => \A k \in F : k < a

AliveFine(c, r, J, U, K) ==
  r = "enabled" => (\E j \in Job : J[j] # 0 \/ U[j] # NoTurn) \/ c \in K

\* A step of the row c alone.
OneRowStep(c, r, J, U, a, F, K) ==
  /\ row[c] # "unborn" /\ r \in {row[c], "gone"}
  /\ J \in [Job -> Nat] /\ U \in [Job -> 0 .. NoTurn]
  /\ a \in 0 .. MaxAttempt /\ F \in SUBSET (0 .. MaxAttempt)
  /\ now' = now /\ due' = due /\ delay' = delay
  /\ row' = [row EXCEPT ![c] = r]
  /\ job' = [job EXCEPT ![c] = J]
  /\ turn' = [turn EXCEPT ![c] = U]
  /\ attempt' = [attempt EXCEPT ![c] = a]
  /\ refused' = [refused EXCEPT ![c] = F]
  /\ unknown' = K /\ K \subseteq At /\ unknown \ {c} = K \ {c}

LEMMA OneRow ==
  ASSUME IInv, NEW c \in Cron, NEW r, NEW J, NEW U, NEW a, NEW F, NEW K,
         OneRowStep(c, r, J, U, a, F, K),
         PeriodicFine(c, r, J, U, a), AtFine(c, r, J, U, a, F), AliveFine(c, r, J, U, K)
  PROVE  IInv'
<1>1. TypeOK'
  <2>1. row' \in [Cron -> {"unborn", "enabled", "disabled", "gone"}] /\ attempt' \in [Cron -> 0 .. MaxAttempt]
    BY DEF OneRowStep, IInv, TypeOK
  <2>2. job' \in [Cron -> [Job -> Nat]] /\ turn' \in [Cron -> [Job -> 0 .. NoTurn]]
    BY DEF OneRowStep, IInv, TypeOK
  <2>3. refused' \in [Cron -> SUBSET (0 .. MaxAttempt)]
    BY DEF OneRowStep, IInv, TypeOK
  <2>4. \A d \in Periodic : attempt'[d] = 0 /\ job'[d]["retry"] = 0 /\ turn'[d]["retry"] = NoTurn
    BY DEF OneRowStep, IInv, TypeOK, PeriodicFine, Cron
  <2>. QED
    BY <2>1, <2>2, <2>3, <2>4 DEF OneRowStep, IInv, TypeOK
<1>2. UnbornIsBlank'
  BY DEF OneRowStep, IInv, TypeOK, UnbornIsBlank
<1>3. AtDue'
  <2>. SUFFICES ASSUME NEW d \in At
                PROVE  /\ Exists(d)' => due[d] # 0
                       /\ \A j \in Job : /\ job'[d][j] # 0 => job'[d][j] >= due[d]
                                         /\ turn'[d][j] # NoTurn => now >= due[d]
                       /\ attempt'[d] # 0 => now >= due[d]
    BY DEF OneRowStep, AtDue
  <2>1. CASE d = c
    BY <2>1 DEF OneRowStep, IInv, TypeOK, AtDue, AtFine, Exists
  <2>2. CASE d # c
    BY <2>2 DEF OneRowStep, IInv, TypeOK, AtDue, Exists, Cron
  <2>. QED
    BY <2>1, <2>2
<1>4. KeysInOrder'
  <2>. SUFFICES ASSUME NEW d \in At
                PROVE  /\ Exists(d)' => \A k \in refused'[d] : k < attempt'[d]
                       /\ \A j \in Job : turn'[d][j] # NoTurn => turn'[d][j] <= attempt'[d]
    BY DEF KeysInOrder
  <2>1. CASE d = c
    BY <2>1 DEF OneRowStep, IInv, TypeOK, AtFine, Exists
  <2>2. CASE d # c
    BY <2>2 DEF OneRowStep, IInv, TypeOK, KeysInOrder, Exists, Cron
  <2>. QED
    BY <2>1, <2>2
<1>5. PeriodicIsScheduled'
  BY DEF OneRowStep, IInv, TypeOK, PeriodicIsScheduled, PeriodicFine, Cron
<1>6. EnabledIsAlive'
  BY DEF OneRowStep, IInv, TypeOK, EnabledIsAlive, Alive, AliveFine
<1>. QED
  BY <1>1, <1>2, <1>3, <1>4, <1>5, <1>6 DEF IInv

\* Leaving a part of a row alone is setting it to what it is.
LEMMA SameRow ==
  ASSUME IInv, NEW c \in Cron
  PROVE  /\ row[c] \in {"unborn", "enabled", "disabled", "gone"}
         /\ job[c] \in [Job -> Nat] /\ turn[c] \in [Job -> 0 .. NoTurn]
         /\ attempt[c] \in 0 .. MaxAttempt /\ refused[c] \in SUBSET (0 .. MaxAttempt)
         /\ row = [row EXCEPT ![c] = row[c]] /\ job = [job EXCEPT ![c] = job[c]]
         /\ turn = [turn EXCEPT ![c] = turn[c]]
         /\ attempt = [attempt EXCEPT ![c] = attempt[c]]
         /\ refused = [refused EXCEPT ![c] = refused[c]]
         /\ unknown \subseteq At
BY DEF IInv, TypeOK

\* The facts OneRow asks for hold of a row as it is.
LEMMA RowIsFine ==
  ASSUME IInv, NEW c \in Cron
  PROVE  /\ PeriodicFine(c, row[c], job[c], turn[c], attempt[c])
         /\ AtFine(c, row[c], job[c], turn[c], attempt[c], refused[c])
         /\ AliveFine(c, row[c], job[c], turn[c], unknown)
<1>1. PeriodicFine(c, row[c], job[c], turn[c], attempt[c])
  BY DEF IInv, TypeOK, PeriodicIsScheduled, PeriodicFine
<1>2. AtFine(c, row[c], job[c], turn[c], attempt[c], refused[c])
  <2>1. row[c] \in {"enabled", "disabled"} \/ row[c] = "gone" \/ row[c] = "unborn"
    BY SameRow
  <2>. QED
    BY <2>1 DEF IInv, AtDue, KeysInOrder, UnbornIsBlank, AtFine, Exists
<1>3. AliveFine(c, row[c], job[c], turn[c], unknown)
  BY DEF IInv, EnabledIsAlive, Alive, AliveFine
<1>. QED
  BY <1>1, <1>2, <1>3

\* A job that has run: an "at" loses its date, a periodic row gets its next one.
LEMMA JobsAfterFacts ==
  ASSUME IInv, NEW c \in Cron, NEW j \in Job
  PROVE  /\ JobsAfter(c, j) \in [Job -> Nat]
         /\ c \in At => \A i \in Job : JobsAfter(c, j)[i] \in {0, job[c][i]}
         /\ c \in Periodic => JobsAfter(c, j)["retry"] = 0
         /\ c \in Periodic /\ j = "main" => JobsAfter(c, j)["main"] # 0
<1>1. NextRun(now) \in Nat /\ NextRun(now) > 0
  BY NextRunIsLater DEF IInv, TypeOK
<1>2. job[c] \in [Job -> Nat] /\ (c \in Periodic => job[c]["retry"] = 0)
  BY DEF IInv, TypeOK
<1>. QED
  BY <1>1, <1>2, CronAssumption DEF JobsAfter, Job

\* Giving a row up: it is gone, and its main job M was its own or none.
LEMMA GiveUpStep ==
  ASSUME IInv, NEW c \in At, row[c] # "unborn",
         NEW M \in {0, job[c]["main"]}, NEW U \in [Job -> 0 .. NoTurn],
         \A j \in Job : U[j] \in {NoTurn, turn[c][j]},
         GiveUp(c, M), turn' = [turn EXCEPT ![c] = U],
         UNCHANGED <<now, due, delay, attempt, refused>>, unknown' \in {unknown, unknown \ {c}}
  PROVE  IInv'
<1>0. c \in Cron /\ c \notin Periodic
  BY CronAssumption DEF Cron
<1>. PICK K : K = unknown'
  OBVIOUS
<1>1. M \in Nat
  BY <1>0, SameRow DEF Job
<1>2. /\ Jobs(M, 0) \in [Job -> Nat] /\ Jobs(M, 0)["main"] = M /\ Jobs(M, 0)["retry"] = 0
  BY <1>1, JobsType
<1>3. PeriodicFine(c, "gone", Jobs(M, 0), U, attempt[c]) /\ AliveFine(c, "gone", Jobs(M, 0), U, K)
  BY <1>0 DEF PeriodicFine, AliveFine
<1>4. AtFine(c, "gone", Jobs(M, 0), U, attempt[c], refused[c])
  BY <1>0, <1>2, RowIsFine DEF AtFine, Job
<1>5. row' = [row EXCEPT ![c] = "gone"] /\ job' = [job EXCEPT ![c] = Jobs(M, 0)]
  BY DEF GiveUp
<1>6. /\ now' = now /\ due' = due /\ delay' = delay
      /\ attempt' = [attempt EXCEPT ![c] = attempt[c]] /\ attempt[c] \in 0 .. MaxAttempt
      /\ refused' = [refused EXCEPT ![c] = refused[c]] /\ refused[c] \in SUBSET (0 .. MaxAttempt)
      /\ unknown' = K /\ K \subseteq At /\ unknown \ {c} = K \ {c}
  BY <1>0, SameRow
<1>7. OneRowStep(c, "gone", Jobs(M, 0), U, attempt[c], refused[c], K)
  BY <1>2, <1>5, <1>6 DEF OneRowStep
<1>. QED
  BY <1>0, <1>3, <1>4, <1>7, OneRow

\* A run of a job: skipped, missed, or fired.
LEMMA RunStep ==
  ASSUME IInv, NEW c \in Cron, NEW j \in Job, Run(c, j)
  PROVE  IInv'
<1> DEFINE J == JobsAfter(c, j)
<1>1. /\ job[c][j] # 0 /\ now >= job[c][j]
      /\ now' = now /\ due' = due /\ delay' = delay
      /\ attempt' = [attempt EXCEPT ![c] = attempt[c]]
      /\ refused' = [refused EXCEPT ![c] = refused[c]]
      /\ UNCHANGED <<now, due, delay, attempt, refused, unknown>>
  BY SameRow DEF Run
<1>2. row[c] # "unborn"
  BY <1>1 DEF IInv, UnbornIsBlank
<1>3. /\ J \in [Job -> Nat]
      /\ c \in At => \A i \in Job : J[i] \in {0, job[c][i]}
      /\ c \in Periodic => J["retry"] = 0 /\ J["main"] # 0
  <2>1. c \in Periodic => j = "main"
    BY <1>1 DEF IInv, TypeOK, Job
  <2>. QED
    BY <2>1, JobsAfterFacts
<1>4. "main" \in Job /\ (c \in At => J["main"] \in {0, job[c]["main"]})
  BY <1>3 DEF Job
<1>5. PeriodicFine(c, row[c], J, turn[c], attempt[c]) /\ AtFine(c, row[c], J, turn[c], attempt[c], refused[c])
  BY <1>3, RowIsFine DEF PeriodicFine, AtFine
<1>6. CASE Skip(c, j)
  <2>1. AliveFine(c, row[c], J, turn[c], unknown)
    BY <1>6 DEF Skip, AliveFine
  <2>2. /\ row' = [row EXCEPT ![c] = row[c]] /\ turn' = [turn EXCEPT ![c] = turn[c]]
        /\ job' = [job EXCEPT ![c] = J]
    BY <1>6, SameRow DEF Skip
  <2>9. OneRowStep(c, row[c], J, turn[c], attempt[c], refused[c], unknown)
    BY <1>1, <1>2, <1>3, <2>2, SameRow DEF OneRowStep
  <2>. QED
    BY <1>5, <2>1, <2>9, OneRow
<1>7. CASE Missed(c, j) /\ c \in At /\ Exists(c)
  <2>1. GiveUp(c, J["main"]) /\ turn' = [turn EXCEPT ![c] = turn[c]]
    BY <1>7, SameRow DEF Missed
  <2>. QED
    BY <1>1, <1>2, <1>4, <1>7, <2>1, SameRow, GiveUpStep
<1>8. CASE Missed(c, j) /\ ~(c \in At /\ Exists(c))
  <2>1. AliveFine(c, row[c], J, turn[c], unknown)
    BY <1>3, <1>4, <1>8 DEF AliveFine, Exists, Cron
  <2>2. /\ row' = [row EXCEPT ![c] = row[c]] /\ turn' = [turn EXCEPT ![c] = turn[c]]
        /\ job' = [job EXCEPT ![c] = J]
    BY <1>8, SameRow DEF Missed
  <2>9. OneRowStep(c, row[c], J, turn[c], attempt[c], refused[c], unknown)
    BY <1>1, <1>2, <1>3, <2>2, SameRow DEF OneRowStep
  <2>. QED
    BY <1>5, <2>1, <2>9, OneRow
<1>9. CASE Fire(c, j) /\ row[c] # "enabled"
  <2>1. /\ Jobs(0, 0) \in [Job -> Nat] /\ \A i \in Job : Jobs(0, 0)[i] = 0
        /\ Jobs(0, 0)["retry"] = 0
    BY JobsType DEF Job
  <2>2. /\ PeriodicFine(c, row[c], Jobs(0, 0), turn[c], attempt[c])
        /\ AtFine(c, row[c], Jobs(0, 0), turn[c], attempt[c], refused[c])
        /\ AliveFine(c, row[c], Jobs(0, 0), turn[c], unknown)
    BY <1>9, <2>1, RowIsFine DEF PeriodicFine, AtFine, AliveFine
  <2>3. /\ row' = [row EXCEPT ![c] = row[c]] /\ turn' = [turn EXCEPT ![c] = turn[c]]
        /\ job' = [job EXCEPT ![c] = Jobs(0, 0)]
    BY <1>9, SameRow DEF Fire
  <2>9. OneRowStep(c, row[c], Jobs(0, 0), turn[c], attempt[c], refused[c], unknown)
    BY <1>1, <1>2, <2>1, <2>3, SameRow DEF OneRowStep
  <2>. QED
    BY <2>2, <2>9, OneRow
<1>10. CASE Fire(c, j) /\ row[c] = "enabled" /\ c \in At /\ Overdue(c, now)
  <2>1. GiveUp(c, J["main"]) /\ turn' = [turn EXCEPT ![c] = turn[c]]
    BY <1>10, SameRow DEF Fire
  <2>. QED
    BY <1>1, <1>2, <1>4, <1>10, <2>1, SameRow, GiveUpStep
<1>11. CASE Fire(c, j) /\ row[c] = "enabled" /\ ~(c \in At /\ Overdue(c, now))
  <2> DEFINE U == [turn[c] EXCEPT ![j] = attempt[c]]
  <2>1. attempt[c] \in 0 .. MaxAttempt /\ attempt[c] \in 0 .. NoTurn /\ attempt[c] # NoTurn
    BY TimeAssumption, SameRow DEF NoTurn
  <2>2. U \in [Job -> 0 .. NoTurn] /\ U[j] = attempt[c] /\ \A i \in Job \ {j} : U[i] = turn[c][i]
    BY <2>1, SameRow
  <2>3. /\ row' = [row EXCEPT ![c] = row[c]] /\ job' = [job EXCEPT ![c] = J]
        /\ turn' = [turn EXCEPT ![c] = U]
    BY <1>11, SameRow DEF Fire
  <2>4. AliveFine(c, row[c], J, U, unknown)
    BY <2>1, <2>2 DEF AliveFine
  <2>5. c \in Periodic => j = "main"
    BY <1>1 DEF IInv, TypeOK, Job
  <2>6. PeriodicFine(c, row[c], J, U, attempt[c])
    BY <1>5, <2>2, <2>5 DEF PeriodicFine, Job
  <2>7. c \in At => now >= due[c]
    BY <1>1, SameRow DEF IInv, TypeOK, AtDue, Cron
  <2>8. AtFine(c, row[c], J, U, attempt[c], refused[c])
    BY <1>5, <2>1, <2>2, <2>7 DEF AtFine
  <2>. HIDE DEF U
  <2>9. OneRowStep(c, row[c], J, U, attempt[c], refused[c], unknown)
    BY <1>1, <1>2, <1>3, <2>2, <2>3, SameRow DEF OneRowStep
  <2>. QED
    BY <2>4, <2>6, <2>8, <2>9, OneRow
<1>. QED
  BY <1>6, <1>7, <1>8, <1>9, <1>10, <1>11 DEF Run

\* What the end of a turn leaves of the row's turns.
LEMMA OverFacts ==
  ASSUME IInv, NEW c \in Cron, NEW j \in Job, Over(c, j)
  PROVE  /\ row[c] # "unborn" /\ turn[c][j] # NoTurn
         /\ turn'[c] \in [Job -> 0 .. NoTurn] /\ turn' = [turn EXCEPT ![c] = turn'[c]]
         /\ \A i \in Job : turn'[c][i] \in {NoTurn, turn[c][i]}
<1>1. turn[c][j] # NoTurn /\ turn' = [turn EXCEPT ![c][j] = NoTurn]
  BY DEF Over
<1>2. turn[c] \in [Job -> 0 .. NoTurn] /\ NoTurn \in 0 .. NoTurn
  BY SameRow, TimeAssumption DEF NoTurn
<1>3. turn'[c] = [turn[c] EXCEPT ![j] = NoTurn] /\ turn' = [turn EXCEPT ![c] = turn'[c]]
  BY <1>1 DEF IInv, TypeOK
<1>4. row[c] # "unborn"
  BY <1>1 DEF IInv, UnbornIsBlank
<1>. QED
  BY <1>1, <1>2, <1>3, <1>4

\* A failed turn: the row keeps its key or, an "at", gets a new one, and is
\* retried or given up.
LEMMA FailStep ==
  ASSUME IInv, NEW c \in At, NEW j \in Job, Over(c, j), Exists(c), RetryOrGiveUp(c),
         NEW a \in 0 .. MaxAttempt, a >= attempt[c],
         NEW F \in SUBSET (0 .. MaxAttempt), \A k \in F : k \in refused[c] \/ k < a,
         attempt' = [attempt EXCEPT ![c] = a], refused' = [refused EXCEPT ![c] = F],
         UNCHANGED <<now, due, delay>>, unknown' = unknown \ {c}
  PROVE  IInv'
<1> DEFINE U == turn'[c]
           M == job[c]["main"]
           K == unknown \ {c}
<1>1. c \in Cron /\ c \notin Periodic
  BY CronAssumption DEF Cron
<1>2. /\ row[c] # "unborn" /\ turn[c][j] # NoTurn
      /\ U \in [Job -> 0 .. NoTurn] /\ turn' = [turn EXCEPT ![c] = U]
      /\ \A i \in Job : U[i] \in {NoTurn, turn[c][i]}
  BY <1>1, OverFacts
<1>3. now \in Nat /\ due[c] \in Nat /\ now >= due[c] /\ now + RetryDelay \in Nat /\ now + RetryDelay >= due[c]
      /\ now + RetryDelay # 0
  BY <1>1, <1>2, TimeAssumption DEF IInv, TypeOK, AtDue
<1>4. job[c] \in [Job -> Nat] /\ attempt[c] \in Nat /\ a \in Nat
  BY <1>1, SameRow
<1>5. AtFine(c, row[c], job[c], turn[c], attempt[c], refused[c])
  BY <1>1, RowIsFine
<1>6. unknown' = K /\ K \subseteq At /\ unknown \ {c} = K \ {c}
  BY <1>1, SameRow
<1>. HIDE DEF U, K
<1>7. CASE Overdue(c, now + RetryDelay)
  <2>1. M \in Nat /\ "main" \in Job
    BY <1>4 DEF Job
  <2>2. Jobs(M, 0) \in [Job -> Nat] /\ Jobs(M, 0)["main"] = M /\ Jobs(M, 0)["retry"] = 0
    BY <2>1, JobsType
  <2>3. row' = [row EXCEPT ![c] = "gone"] /\ job' = [job EXCEPT ![c] = Jobs(M, 0)]
    BY <1>7 DEF RetryOrGiveUp, GiveUp
  <2>4. OneRowStep(c, "gone", Jobs(M, 0), U, a, F, K)
    BY <1>2, <1>6, <2>2, <2>3 DEF OneRowStep
  <2>5. \A i \in Job : U[i] # NoTurn => U[i] <= a
    BY <1>2, <1>4, <1>5, SameRow, <1>1, TimeAssumption DEF AtFine, NoTurn
  <2>6. AtFine(c, "gone", Jobs(M, 0), U, a, F)
    BY <1>2, <1>3, <1>5, <2>2, <2>5 DEF AtFine, Job
  <2>7. PeriodicFine(c, "gone", Jobs(M, 0), U, a) /\ AliveFine(c, "gone", Jobs(M, 0), U, K)
    BY <1>1 DEF PeriodicFine, AliveFine
  <2>. QED
    BY <1>1, <2>4, <2>6, <2>7, OneRow
<1>8. CASE ~Overdue(c, now + RetryDelay)
  <2> DEFINE J == [job[c] EXCEPT !["retry"] = now + RetryDelay]
  <2>1. /\ J \in [Job -> Nat] /\ J["retry"] = now + RetryDelay /\ J["main"] = M
        /\ "retry" \in Job
    BY <1>3, <1>4 DEF Job
  <2>2. job' = [job EXCEPT ![c] = J] /\ row' = [row EXCEPT ![c] = row[c]]
    BY <1>1, <1>8, SameRow DEF RetryOrGiveUp
  <2>. HIDE DEF J
  <2>3. OneRowStep(c, row[c], J, U, a, F, K)
    BY <1>2, <1>6, <2>1, <2>2 DEF OneRowStep
  <2>4. \A i \in Job : U[i] # NoTurn => U[i] <= a
    BY <1>1, <1>2, <1>4, <1>5, SameRow, TimeAssumption DEF AtFine, NoTurn
  <2>5. \A k \in F : k < a
    BY <1>1, <1>4 DEF IInv, KeysInOrder
  <2>6. AtFine(c, row[c], J, U, a, F)
    BY <1>2, <1>3, <1>5, <2>1, <2>4, <2>5 DEF AtFine, Job
  <2>7. PeriodicFine(c, row[c], J, U, a) /\ AliveFine(c, row[c], J, U, K)
    BY <1>1, <1>3, <2>1 DEF PeriodicFine, AliveFine
  <2>. QED
    BY <1>1, <2>3, <2>6, <2>7, OneRow
<1>. QED
  BY <1>7, <1>8

\* A turn that ends and leaves the rest of the row alone: a periodic row, or one
\* that is gone.
LEMMA TurnGone ==
  ASSUME IInv, NEW c \in Cron, NEW j \in Job, Over(c, j), ~(c \in At /\ Exists(c)),
         NEW F \in SUBSET (0 .. MaxAttempt), NEW K \in SUBSET At,
         unknown' = K, unknown \ {c} = K \ {c},
         refused' = [refused EXCEPT ![c] = F],
         UNCHANGED <<row, job, now, due, delay, attempt>>
  PROVE  IInv'
<1> DEFINE U == turn'[c]
<1>1. /\ row[c] # "unborn"
      /\ U \in [Job -> 0 .. NoTurn] /\ turn' = [turn EXCEPT ![c] = U]
      /\ \A i \in Job : U[i] \in {NoTurn, turn[c][i]}
  BY OverFacts
<1>. HIDE DEF U
<1>2. OneRowStep(c, row[c], job[c], U, attempt[c], F, K)
  BY <1>1, SameRow DEF OneRowStep
<1>3. c \in At => row[c] = "gone"
  BY <1>1, SameRow DEF Exists
<1>4. AtFine(c, row[c], job[c], U, attempt[c], F)
  BY <1>1, <1>3, RowIsFine DEF AtFine
<1>5. PeriodicFine(c, row[c], job[c], U, attempt[c])
  BY <1>1, RowIsFine DEF PeriodicFine, Job
<1>6. AliveFine(c, row[c], job[c], U, K)
  BY <1>3, <1>5, SameRow DEF PeriodicFine, AliveFine, Cron, Job
<1>. QED
  BY <1>2, <1>4, <1>5, <1>6, OneRow

LEMMA TurnOverStep ==
  ASSUME IInv, NEW c \in Cron, NEW j \in Job, TurnOver(c, j)
  PROVE  IInv'
<1> DEFINE U == turn'[c]
           M == job[c]["main"]
<1>0. unknown' = unknown \ {c} /\ unknown \ {c} \in SUBSET At /\ unknown \ {c} = (unknown \ {c}) \ {c}
  BY SameRow DEF TurnOver
<1>1. Over(c, j) /\ UNCHANGED <<now, due, delay, attempt, refused>>
  BY DEF TurnOver
<1>2. /\ row[c] # "unborn"
      /\ U \in [Job -> 0 .. NoTurn] /\ turn' = [turn EXCEPT ![c] = U]
      /\ \A i \in Job : U[i] \in {NoTurn, turn[c][i]}
  BY <1>1, OverFacts
<1>. HIDE DEF U
<1>3. CASE c \in At
  BY <1>0, <1>1, <1>2, <1>3, GiveUpStep DEF TurnOver
<1>4. CASE c \notin At
  <2>1. UNCHANGED <<row, job>> /\ UNCHANGED <<row, job, now, due, delay, attempt>>
    BY <1>4 DEF TurnOver
  <2>2. refused' = [refused EXCEPT ![c] = refused[c]] /\ refused[c] \in SUBSET (0 .. MaxAttempt)
    BY <1>1, SameRow
  <2>. QED
    BY <1>0, <1>1, <1>4, <2>1, <2>2, TurnGone
<1>. QED
  BY <1>3, <1>4

LEMMA TurnLostStep ==
  ASSUME IInv, NEW c \in Cron, NEW j \in Job, TurnLost(c, j)
  PROVE  IInv'
<1>0. unknown' = unknown \ {c} /\ unknown \ {c} \in SUBSET At /\ unknown \ {c} = (unknown \ {c}) \ {c}
  BY SameRow DEF TurnLost
<1>1. Over(c, j) /\ UNCHANGED <<now, due, delay>>
  BY DEF TurnLost
<1>2. /\ attempt' = [attempt EXCEPT ![c] = attempt[c]] /\ attempt[c] \in 0 .. MaxAttempt
      /\ refused' = [refused EXCEPT ![c] = refused[c]] /\ refused[c] \in SUBSET (0 .. MaxAttempt)
      /\ attempt' = attempt
  BY SameRow DEF TurnLost
<1>3. CASE c \in At /\ Exists(c)
  <2>1. RetryOrGiveUp(c)
    BY <1>3 DEF TurnLost
  <2>2. attempt[c] >= attempt[c]
    BY <1>2
  <2>. QED
    BY <1>0, <1>1, <1>2, <1>3, <2>1, <2>2, FailStep
<1>4. CASE ~(c \in At /\ Exists(c))
  <2>1. UNCHANGED <<row, job>>
    BY <1>4 DEF TurnLost
  <2>. QED
    BY <1>0, <1>1, <1>2, <1>4, <2>1, TurnGone
<1>. QED
  BY <1>3, <1>4

LEMMA TurnFailedStep ==
  ASSUME IInv, NEW c \in Cron, NEW j \in Job, TurnFailed(c, j)
  PROVE  IInv'
<1> DEFINE F == refused[c] \cup {turn[c][j]}
<1>0. unknown' = unknown \ {c} /\ unknown \ {c} \in SUBSET At /\ unknown \ {c} = (unknown \ {c}) \ {c}
  BY SameRow DEF TurnFailed
<1>1. Over(c, j) /\ UNCHANGED <<now, due, delay>> /\ attempt[c] < MaxAttempt
  BY DEF TurnFailed
<1>2. turn[c][j] \in 0 .. MaxAttempt
  <2>1. turn[c][j] \in 0 .. NoTurn /\ turn[c][j] # NoTurn
    BY <1>1, SameRow DEF Over
  <2>. QED
    BY <2>1, TimeAssumption DEF NoTurn
<1>3. F \in SUBSET (0 .. MaxAttempt) /\ refused' = [refused EXCEPT ![c] = F]
  BY <1>2, SameRow DEF TurnFailed, IInv, TypeOK
<1>4. CASE c \in At /\ Exists(c)
  <2>1. RetryOrGiveUp(c) /\ attempt' = [attempt EXCEPT ![c] = attempt[c] + 1]
    BY <1>4 DEF TurnFailed, IInv, TypeOK
  <2>2. attempt[c] + 1 \in 0 .. MaxAttempt /\ attempt[c] + 1 >= attempt[c]
    BY <1>1, SameRow, TimeAssumption
  <2>3. turn[c][j] <= attempt[c]
    BY <1>1, <1>4 DEF Over, IInv, KeysInOrder
  <2>4. \A k \in F : k \in refused[c] \/ k < attempt[c] + 1
    BY <1>2, <2>3, SameRow
  <2>. HIDE DEF F
  <2>. QED
    BY <1>0, <1>1, <1>3, <1>4, <2>1, <2>2, <2>4, FailStep
<1>5. CASE ~(c \in At /\ Exists(c))
  <2>1. UNCHANGED <<row, job, attempt>>
    BY <1>5 DEF TurnFailed
  <2>. HIDE DEF F
  <2>. QED
    BY <1>0, <1>1, <1>3, <1>5, <2>1, TurnGone
<1>. QED
  BY <1>4, <1>5

LEMMA TurnUnknownStep ==
  ASSUME IInv, NEW c \in Cron, NEW j \in Job, TurnUnknown(c, j)
  PROVE  IInv'
<1> DEFINE U == turn'[c]
           K == unknown \cup ({c} \cap At)
<1>1. Over(c, j) /\ UNCHANGED <<row, job, now, due, delay, attempt, refused>>
  BY DEF TurnUnknown
<1>2. unknown' = K /\ K \in SUBSET At /\ unknown \ {c} = K \ {c}
  BY SameRow DEF TurnUnknown
<1>3. refused' = [refused EXCEPT ![c] = refused[c]] /\ refused[c] \in SUBSET (0 .. MaxAttempt)
  BY <1>1, SameRow
<1>4. /\ row[c] # "unborn"
      /\ U \in [Job -> 0 .. NoTurn] /\ turn' = [turn EXCEPT ![c] = U]
      /\ \A i \in Job : U[i] \in {NoTurn, turn[c][i]}
  BY <1>1, OverFacts
<1>5. CASE c \in At
  <2>1. c \in K /\ c \notin Periodic
    BY <1>5, CronAssumption
  <2>. HIDE DEF U, K
  <2>2. OneRowStep(c, row[c], job[c], U, attempt[c], refused[c], K)
    BY <1>1, <1>2, <1>4, SameRow DEF OneRowStep
  <2>3. AtFine(c, row[c], job[c], U, attempt[c], refused[c])
    BY <1>4, RowIsFine DEF AtFine
  <2>4. PeriodicFine(c, row[c], job[c], U, attempt[c]) /\ AliveFine(c, row[c], job[c], U, K)
    BY <2>1 DEF PeriodicFine, AliveFine
  <2>. QED
    BY <2>2, <2>3, <2>4, OneRow
<1>6. CASE c \notin At
  <2>. HIDE DEF K
  <2>1. ~(c \in At /\ Exists(c)) /\ UNCHANGED <<row, job, now, due, delay, attempt>>
    BY <1>1, <1>6
  <2>. QED
    BY <1>1, <1>2, <1>3, <2>1, TurnGone
<1>. QED
  BY <1>5, <1>6

\* The process comes back: the jobs are those of the rows.
LEMMA RestartStep ==
  ASSUME IInv, Restart
  PROVE  IInv'
<1> DEFINE expired == {c \in At : /\ Exists(c)
                                 /\ \/ Overdue(c, now)
                                    \/ /\ row[c] = "enabled" /\ attempt[c] > 0
                                       /\ Overdue(c, now + RetryDelay)}
<1>1. /\ row' = [c \in Cron |-> IF c \in expired THEN "gone" ELSE row[c]]
      /\ job' = [c \in Cron |-> IF c \in expired THEN Jobs(0, 0) ELSE Rebuilt(c)]
      /\ \A c \in expired : c \in At /\ Exists(c)
  BY DEF Restart
<1>. HIDE DEF expired
<1>2. /\ unknown' = {} /\ turn' = [c \in Cron |-> [j \in Job |-> NoTurn]]
      /\ UNCHANGED <<now, due, delay, attempt, refused>>
  BY DEF Restart
<1>3. /\ NoTurn \in 0 .. NoTurn /\ NextRun(now) \in Nat /\ NextRun(now) > 0 /\ now \in Nat
      /\ now + RetryDelay \in Nat /\ now + RetryDelay > now
  BY NextRunIsLater, TimeAssumption DEF NoTurn, IInv, TypeOK
<1>4. \A c \in Cron : due[c] \in Nat /\ attempt[c] \in Nat
  BY DEF IInv, TypeOK
<1>5. \A m, r \in Nat : /\ Jobs(m, r) \in [Job -> Nat]
                        /\ Jobs(m, r)["main"] = m /\ Jobs(m, r)["retry"] = r
  BY JobsType
<1>6. ASSUME NEW c \in Cron
      PROVE  \E m, r \in Nat :
               /\ Rebuilt(c) = Jobs(m, r)
               /\ row[c] # "enabled" => m = 0 /\ r = 0
               /\ row[c] = "enabled" => m # 0 \/ r # 0
               /\ c \in Periodic => r = 0 /\ (row[c] = "enabled" => m # 0)
               /\ c \in At => (m # 0 => m >= due[c]) /\ (r # 0 => r >= due[c])
  <2>1. CASE row[c] # "enabled"
    BY <2>1 DEF Rebuilt
  <2>2. CASE row[c] = "enabled" /\ c \in Periodic
    BY <1>3, <2>2, CronAssumption DEF Rebuilt
  <2>3. CASE row[c] = "enabled" /\ c \notin Periodic /\ attempt[c] > 0
    BY <1>3, <1>4, <2>3 DEF Rebuilt, Cron, IInv, AtDue
  <2>4. CASE row[c] = "enabled" /\ c \notin Periodic /\ ~(attempt[c] > 0)
    BY <1>4, <2>4 DEF Rebuilt, Cron, IInv, AtDue, Exists
  <2>. QED
    BY <2>1, <2>2, <2>3, <2>4
<1>7. \A c \in Cron : /\ Rebuilt(c) \in [Job -> Nat]
                      /\ row[c] = "enabled" => \E j \in Job : Rebuilt(c)[j] # 0
                      /\ row[c] # "enabled" => \A j \in Job : Rebuilt(c)[j] = 0
                      /\ c \in Periodic => Rebuilt(c)["retry"] = 0
                      /\ c \in Periodic /\ row[c] = "enabled" => Rebuilt(c)["main"] # 0
                      /\ c \in At => \A j \in Job : Rebuilt(c)[j] # 0 => Rebuilt(c)[j] >= due[c]
  BY <1>5, <1>6 DEF Job
<1>8. Jobs(0, 0) \in [Job -> Nat] /\ \A j \in Job : Jobs(0, 0)[j] = 0
  BY <1>5 DEF Job
<1>9. TypeOK'
  <2>1. row' \in [Cron -> {"unborn", "enabled", "disabled", "gone"}]
    BY <1>1 DEF IInv, TypeOK
  <2>2. job' \in [Cron -> [Job -> Nat]]
    BY <1>1, <1>7, <1>8
  <2>3. turn' \in [Cron -> [Job -> 0 .. NoTurn]]
    BY <1>2, <1>3
  <2>4. \A c \in Periodic : attempt'[c] = 0 /\ job'[c]["retry"] = 0 /\ turn'[c]["retry"] = NoTurn
    BY <1>1, <1>2, <1>7, CronAssumption DEF IInv, TypeOK, Cron, Job
  <2>. QED
    BY <1>2, <2>1, <2>2, <2>3, <2>4 DEF IInv, TypeOK
<1>10. UnbornIsBlank'
  BY <1>1, <1>2, <1>7 DEF IInv, UnbornIsBlank
<1>11. AtDue'
  BY <1>1, <1>2, <1>7, <1>8 DEF IInv, AtDue, Exists, Cron
<1>12. KeysInOrder'
  BY <1>1, <1>2 DEF IInv, KeysInOrder, Exists, Cron
<1>13. PeriodicIsScheduled'
  BY <1>1, <1>7, CronAssumption DEF Cron, PeriodicIsScheduled
<1>14. EnabledIsAlive'
  BY <1>1, <1>7 DEF EnabledIsAlive, Alive
<1>. QED
  BY <1>9, <1>10, <1>11, <1>12, <1>13, <1>14 DEF IInv

LEMMA InvStep == IInv /\ [Next]_vars => IInv'
<1>. SUFFICES ASSUME IInv, [Next]_vars
              PROVE  IInv'
  OBVIOUS
<1>1. ASSUME NEW c \in Cron, Create(c) \/ Delete(c) \/ Enable(c) \/ Disable(c)
      PROVE  IInv'
  BY <1>1, CreateStep, DeleteStep, EnableStep, DisableStep
<1>2. ASSUME NEW c \in Cron, NEW j \in Job,
             \/ Run(c, j) \/ TurnOver(c, j) \/ TurnLost(c, j)
             \/ TurnFailed(c, j) \/ TurnUnknown(c, j)
      PROVE  IInv'
  BY <1>2, RunStep, TurnOverStep, TurnLostStep, TurnFailedStep, TurnUnknownStep
<1>3. CASE Restart
  BY <1>3, RestartStep
<1>4. CASE Tick
  BY <1>4, TickStep
<1>5. CASE UNCHANGED vars
  BY <1>5 DEF vars, IInv, TypeOK, UnbornIsBlank, AtDue, KeysInOrder, PeriodicIsScheduled,
              EnabledIsAlive, Alive, Exists
<1>. QED
  BY <1>1, <1>2, <1>3, <1>4, <1>5 DEF Next

-----------------------------------------------------------------------------
(* The theorems. *)

\* What every reachable state satisfies: rows, jobs, turns and keys agree.
THEOREM Invariance == Spec => []IInv
BY InvInit, InvStep, PTL DEF Spec

\* Every variable keeps its type, and only an "at" has a retry chain.
THEOREM TypeCorrect == Spec => []TypeOK
<1>1. IInv => TypeOK
  BY DEF IInv
<1>. QED
  BY <1>1, Invariance, PTL

\* An enabled row has a job or a turn, through skips, misses, refusals and restarts, but
\* for an "at" whose last turn ended with a status that _fire does not know
\* (runner.py:331); a periodic row always has one.
THEOREM NoRowForgotten ==
  Spec => /\ []EnabledIsAlive
          /\ [](\A c \in Periodic : row[c] = "enabled" => Alive(c))
<1>1. IInv => /\ EnabledIsAlive
              /\ \A c \in Periodic : row[c] = "enabled" => Alive(c)
  BY DEF IInv, PeriodicIsScheduled, Alive, Job
<1>. QED
  BY <1>1, Invariance, PTL

\* What starts a turn is a run of a job whose row is enabled and inside its window.
LEMMA TurnStarts ==
  ASSUME IInv, [Next]_vars, NEW c \in At, NEW j \in Job,
         turn[c][j] = NoTurn, turn'[c][j] # NoTurn
  PROVE  /\ row[c] = "enabled" /\ ~Overdue(c, now)
         /\ now >= due[c] /\ turn'[c][j] = attempt[c]
<1>0. c \in Cron /\ turn \in [Cron -> [Job -> 0 .. NoTurn]]
  BY DEF IInv, TypeOK, Cron
<1>1. PICK d \in Cron, i \in Job : Run(d, i)
  <2>1. ASSUME NEW d \in Cron, NEW i \in Job, Over(d, i)
        PROVE  FALSE
    BY <1>0, <2>1 DEF Over
  <2>2. ~Restart
    BY <1>0 DEF Restart
  <2>3. turn' # turn
    OBVIOUS
  <2>. QED
    BY <2>1, <2>2, <2>3 DEF Next, vars, Create, Delete, Enable, Disable, TurnOver, TurnLost, TurnFailed,
                            TurnUnknown, Tick
<1>2. /\ row[d] = "enabled" /\ ~(d \in At /\ Overdue(d, now))
      /\ turn' = [turn EXCEPT ![d][i] = attempt[d]]
      /\ job[d][i] # 0 /\ now >= job[d][i]
  BY <1>1 DEF Run, Skip, Missed, Fire
<1>3. d = c /\ i = j /\ turn'[c][j] = attempt[c]
  BY <1>0, <1>2
<1>4. now >= due[c]
  BY <1>0, <1>2, <1>3 DEF IInv, TypeOK, AtDue
<1>. QED
  BY <1>2, <1>3, <1>4

\* A turn of an "at" starts neither before its time nor after its window.
THEOREM TurnsInWindow == Spec => TurnsStartInWindow
<1>1. IInv /\ [Next]_vars =>
        [\A c \in At, j \in Job :
           turn[c][j] = NoTurn /\ turn'[c][j] # NoTurn => now >= due[c] /\ ~Overdue(c, now)]_vars
  BY TurnStarts
<1>. QED
  BY <1>1, Invariance, PTL DEF Spec, TurnsStartInWindow

\* The turn after a refused one has a key that was never refused.
THEOREM FreshKeys == Spec => NewKeyAfterError
<1>1. IInv /\ [Next]_vars =>
        [\A c \in At, j \in Job :
           turn[c][j] = NoTurn /\ turn'[c][j] # NoTurn => turn'[c][j] \notin refused[c]]_vars
  <2>. SUFFICES ASSUME IInv, [Next]_vars, NEW c \in At, NEW j \in Job,
                       turn[c][j] = NoTurn, turn'[c][j] # NoTurn
                PROVE  turn'[c][j] \notin refused[c]
    OBVIOUS
  <2>1. row[c] = "enabled" /\ turn'[c][j] = attempt[c]
    BY TurnStarts
  <2>2. \A k \in refused[c] : k < attempt[c]
    BY <2>1 DEF IInv, KeysInOrder, Exists
  <2>3. attempt[c] \in Nat
    BY DEF IInv, TypeOK, Cron
  <2>. QED
    BY <2>1, <2>2, <2>3
<1>. QED
  BY <1>1, Invariance, PTL DEF Spec, NewKeyAfterError

(***************************************************************************)
(* The rows and the windows in one run                                     *)
(***************************************************************************)

\* A step of the run is a step of the part that moves, and the others stand still; the
\* windows of one camera and those of two are two readings of the same variables.
LEMMA PartsMove ==
  ASSUME [BackgroundNext]_<<part, vars, windowVars>>
  PROVE  /\ part' = part /\ [Next]_vars
         /\ ~(part = "cameras") => ~(part = "cameras")'
         /\ part = "cameras" => (part = "cameras")'
         /\ ~(part = "cameras") => [Hall!Next]_(Hall!vars)
         /\ part = "cameras" => [Cameras!Next]_(Cameras!vars)
<1>1. UNCHANGED windowVars => UNCHANGED Hall!vars /\ UNCHANGED Cameras!vars
  BY DEF windowVars, Hall!vars, Hall!round, Hall!history, Cameras!vars, Cameras!round,
     Cameras!history
<1>. QED BY <1>1, Zenon DEF BackgroundNext

\* The run is a behaviour of the rows, and one of the windows it is about
\* (runner.py:217, window_runtime.py:1).
THEOREM BackgroundAreParts ==
  BackgroundSpec => /\ Spec
                    /\ \/ [](~(part = "cameras")) /\ Hall!Spec
                       \/ [](part = "cameras") /\ Cameras!Spec
<1>1. BackgroundInit => /\ Init
                        /\ \/ ~(part = "cameras") /\ Hall!Init
                           \/ part = "cameras" /\ Cameras!Init
  BY DEF BackgroundInit
<1>. QED BY <1>1, PartsMove, PTL DEF BackgroundSpec, Spec, Hall!Spec, Cameras!Spec

\* The bounds of the run are what the theorems about Windows ask for.
LEMMA BoundsAreRight == Hall!Parameters /\ Cameras!Parameters
<1>1. IsFiniteSet({hall}) /\ IsFiniteSet({hall} \cup {yard})
  BY FS_Singleton, FS_AddElement
<1>2. Hall!IsFiniteSet({hall}) /\ Cameras!IsFiniteSet({hall} \cup {yard})
  BY <1>1 DEF IsFiniteSet, Hall!IsFiniteSet, Cameras!IsFiniteSet
<1>3. {hall, yard} = {hall} \cup {yard}
  OBVIOUS
<1>. QED BY <1>2, <1>3 DEF Hall!Parameters, Cameras!Parameters

\* Trackers and lines, in the run as well (engine/api.py:975, window_runtime.py:256).
THEOREM RunWindowsAreOrderly == BackgroundSpec => []WindowsAreOrderly
<1>1. Hall!Spec => [](Hall!TypeOK /\ Hall!TrackerAlone /\ Hall!LinesAreServed)
  BY BoundsAreRight, Hall!TypeCorrect, Hall!TrackersAreAlone, Hall!LinesAreKept, PTL
<1>2. Cameras!Spec => [](Cameras!TypeOK /\ Cameras!TrackerAlone /\ Cameras!LinesAreServed)
  BY BoundsAreRight, Cameras!TypeCorrect, Cameras!TrackersAreAlone, Cameras!LinesAreKept, PTL
<1>3. \/ ~(part = "cameras") /\ Hall!TypeOK /\ Hall!TrackerAlone /\ Hall!LinesAreServed
      \/ part = "cameras" /\ Cameras!TypeOK /\ Cameras!TrackerAlone /\ Cameras!LinesAreServed
      => WindowsAreOrderly
  BY DEF WindowsAreOrderly
<1>. QED BY <1>1, <1>2, <1>3, BackgroundAreParts, PTL

\* No effect of a window comes after one of a later window, but for the exception that
\* Windows explains, in the run as well (window_runtime.py:3).
THEOREM RunEffectsInOrder == BackgroundSpec => EffectsInOrder
<1>1. Hall!Spec => [][Hall!InOrder]_(Hall!vars)
  BY BoundsAreRight, Hall!EffectsKeepOrder
<1>2. Cameras!Spec => [][Cameras!InOrder]_(Cameras!vars)
  BY BoundsAreRight, Cameras!EffectsKeepOrder
<1>3. ASSUME \/ ~(part = "cameras") /\ [Hall!InOrder]_(Hall!vars)
             \/ part = "cameras" /\ [Cameras!InOrder]_(Cameras!vars),
             [BackgroundNext]_<<part, vars, windowVars>>
      PROVE  [/\ part = "hall" => Hall!InOrder
              /\ part = "cameras" => Cameras!InOrder]_<<part, windowVars>>
  <2>1. (UNCHANGED Hall!vars \/ UNCHANGED Cameras!vars) => UNCHANGED windowVars
    BY DEF windowVars, Hall!vars, Hall!round, Hall!history, Cameras!vars, Cameras!round,
       Cameras!history
  <2>. QED BY <1>3, <2>1, PartsMove
<1>. QED BY <1>1, <1>2, <1>3, BackgroundAreParts, PTL DEF EffectsInOrder, BackgroundSpec
================================================================================
