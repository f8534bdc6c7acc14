-------------------------- MODULE TimerArmedProofs --------------------------
(***************************************************************************)
(* Theorems about the armed action of Timer, for every table size and job: *)
(* it belongs to a job (ArmedSound), no one-time job that is still ahead   *)
(* comes before it (Covered), and while the clock counts minutes it is not *)
(* passed by (NoMissedAction).                                             *)
(***************************************************************************)
EXTENDS TimerProofs

USE TimerAssumption, ClockAssumption, JobInputAssumption

\* The begin of the action that a job has at a time.
BeginOf(job, now) == IF HasAction(job, now) THEN job.begin + Shift(job, now) ELSE Never

\* An action is none, or an occurrence of the job in slot i.
Occurs(a, job) ==
    /\ Enabled(job)
    /\ a.begin % DayLen = job.begin % DayLen
    /\ a.end - a.begin = JobEnd(job) - job.begin
Matches(a, i) == i \in stale \/ a.begin = Never \/ Occurs(a, jobs[i])

\* A date that has been read is today's unless the clock has moved since the
\* computation began; where no job is evaluated none has been read.
ReadOK ==
    /\ phase \in {"none", "load", "head", "body", "report", "notify", "clean", "store", "leave"}
         => mjd = NoHalf
    /\ phase \in {"recA", "recB"} /\ ~moved /\ mjd # NoHalf => mjd = MjdOf(local)

\* From the first change of the table to the end of the computation the armed
\* action is an old one.
Computing == {"expire", "head", "body", "recA", "recB"}
SoundOK ==
    /\ phase = "load" => recent.begin = 0
    /\ phase \notin Computing => recent.begin = 0 \/ Matches(recent, recent.idx)
    /\ phase = "recB" => Matches(act, cand)

\* The candidate begins no later than the one-time jobs ahead that the loop
\* has passed.
CoverOK ==
    ~moved => \A i \in OneTime(jobs) : jobs[i].begin > peak =>
        /\ phase \notin Computing => phase # "load" /\ recent.begin <= jobs[i].begin
        /\ phase = "recA" /\ i < idx => BeginOf(jobs[cand], local) <= jobs[i].begin
        /\ phase = "recB" => /\ act.begin = BeginOf(jobs[cand], local)
                             /\ i < idx => act.begin <= jobs[i].begin

AInv == TypeOK /\ ControlOK /\ PeakOK /\ ReadOK /\ SoundOK /\ CoverOK
-----------------------------------------------------------------------------
(* The occurrence of a job.                                                *)

\* Whole multiples added to a number do not change its remainder.
LEMMA ModUnique ==
    ASSUME NEW b \in Nat \ {0}, NEW p \in Int, NEW r \in 0 .. b - 1
    PROVE  (p * b + r) % b = r
<1> DEFINE a == p * b + r  q == a \div b  s == a % b
<1>0. p * b \in Int /\ a \in Int BY SMT
<1>1. q \in Int /\ s \in 0 .. b - 1 BY <1>0, DivMod
<1>2. a = q * b + s
  <2> HIDE DEF a
  <2> QED BY <1>0, SMT
<1>3. p * b + r = q * b + s BY <1>2
<1> HIDE DEF q, s, a
<1>4. p = q
  <2>1. CASE p > q
    <3>1. PICK d \in Nat : d >= 1 /\ p = q + d
      <4>1. p - q \in Nat /\ p - q >= 1 /\ p = q + (p - q) BY <2>1, <1>1
      <4> QED BY <4>1
    <3>2. p * b = q * b + d * b BY <3>1, <1>1
    <3>3. d * b >= b BY <3>1, SMT
    <3>4. q * b \in Int /\ d * b \in Int BY <3>1, <1>1
    <3> QED BY <3>2, <3>3, <3>4, <1>3, <1>1
  <2>2. CASE p < q
    <3>1. PICK d \in Nat : d >= 1 /\ q = p + d
      <4>1. q - p \in Nat /\ q - p >= 1 /\ q = p + (q - p) BY <2>2, <1>1
      <4> QED BY <4>1
    <3>2. q * b = p * b + d * b BY <3>1, <1>1
    <3>3. d * b >= b BY <3>1, SMT
    <3>4. p * b \in Int /\ d * b \in Int BY <3>1, <1>1
    <3> QED BY <3>2, <3>3, <3>4, <1>3, <1>1
  <2> QED BY <2>1, <2>2, <1>1
<1> QED BY <1>3, <1>4, <1>0, <1>1 DEF s, a

\* The remainder is that of the number less its multiples.
LEMMA ModShift ==
    ASSUME NEW a \in Nat, NEW b \in Nat \ {0}, NEW k \in Int
    PROVE  (a + k * b) % b = a % b
<1> DEFINE q == a \div b  r == a % b
<1>1. q \in Int /\ r \in 0 .. b - 1 BY DivMod
<1>2. a = q * b + r BY DivModIdentity
<1> HIDE DEF q, r
<1>3. a + k * b = (q + k) * b + r BY <1>1, <1>2, SMT
<1>4. q + k \in Int BY <1>1
<1> QED BY <1>1, <1>3, <1>4, ModUnique DEF r

\* A job is moved by whole days.
LEMMA ShiftDays ==
    ASSUME NEW job \in Jobs, NEW now \in Int
    PROVE  \E k \in Int : Shift(job, now) = k * DayLen
<1> DEFINE w == IF job.cycle = "weekly" THEN WeekShift(job, now) ELSE 0
           c == CatchUp(JobEnd(job) + w, now, Period(job))
<1>0. w \in Nat /\ JobEnd(job) \in Nat BY WeekShiftNat, JobEndNat
<1>1. \E k \in Int : w = k * DayLen
  <2>1. CASE job.cycle = "weekly"
    <3> DEFINE a == WeekDay(now)  b == WeekDay(job.begin)
               s == IF a > b THEN DaysPerWeek - (a - b) ELSE b - a
    <3>1. a \in Int /\ b \in Int
      <4>1. job.begin \in Int BY DEF Jobs
      <4>2. MjdOf(now) \in Int /\ MjdOf(job.begin) \in Int BY <4>1, DivMod DEF MjdOf
      <4> QED BY <4>2, DivMod DEF WeekDay
    <3>2. WeekShift(job, now) = DayLen * s BY DEF WeekShift
    <3> HIDE DEF a, b
    <3>3. s \in Int BY <3>1
    <3> HIDE DEF s
    <3>4. DayLen * s = s * DayLen BY <3>3
    <3> QED BY <2>1, <3>2, <3>3, <3>4
  <2>2. CASE job.cycle # "weekly"
    <3>1. w = 0 * DayLen BY <2>2
    <3> QED BY <3>1
  <2> QED BY <2>1, <2>2
<1>2. \E k \in Int : Period(job) = k * DayLen /\ Period(job) \in Nat \ {0}
  <2>1. DayLen = 1 * DayLen BY SMT
  <2>2. DaysPerWeek * DayLen \in Nat \ {0} BY SMT
  <2> QED BY <2>1, <2>2 DEF Period
<1>3. \E k \in Int : c = k * DayLen
  <2>1. PICK p \in Int : Period(job) = p * DayLen /\ Period(job) \in Nat \ {0} BY <1>2
  <2> DEFINE e == JobEnd(job) + w
             n == IF now > e THEN (now - e + Period(job) - 1) \div Period(job) ELSE 0
  <2>2. e \in Int BY <1>0
  <2>3. n \in Int
    <3>1. now - e + Period(job) - 1 \in Int BY <2>1, <2>2
    <3>2. (now - e + Period(job) - 1) \div Period(job) \in Int BY <2>1, <3>1, DivMod
    <3> QED BY <3>2
  <2>4. c = n * Period(job) BY <2>1 DEF CatchUp
  <2> HIDE DEF n, c
  <2>5. n * (p * DayLen) = (n * p) * DayLen BY <2>3, SMT
  <2>6. n * p \in Int BY <2>3
  <2> QED BY <2>1, <2>4, <2>5, <2>6
<1>4. PICK k \in Int : w = k * DayLen BY <1>1
<1>5. PICK m \in Int : c = m * DayLen BY <1>3
<1>6. w + c = (k + m) * DayLen
  <2>1. k * DayLen + m * DayLen = (k + m) * DayLen BY SMT
  <2> QED BY <2>1, <1>4, <1>5
<1>7. Shift(job, now) = IF job.cycle = "once" THEN 0 ELSE w + c BY DEF Shift
<1>8. 0 = 0 * DayLen /\ k + m \in Int BY SMT
<1> QED BY <1>6, <1>7, <1>8

\* What the evaluation of a job returns.
LEMMA Evaluated ==
    ASSUME NEW job \in Jobs, NEW now \in Int, NEW a \in ActionsOf(job, now)
    PROVE  /\ a.begin = BeginOf(job, now)
           /\ a.begin = Never \/ Occurs(a, job)
<1>1. CASE HasAction(job, now)
  <2>1. /\ a.begin = job.begin + Shift(job, now)
        /\ a.end = JobEnd(job) + Shift(job, now)
    BY <1>1 DEF ActionsOf
  <2>2. Shift(job, now) \in Nat /\ job.begin \in Nat /\ JobEnd(job) \in Nat
    BY ShiftNat, JobEndNat
  <2>3. PICK k \in Int : Shift(job, now) = k * DayLen BY ShiftDays
  <2>4. a.begin % DayLen = job.begin % DayLen
    <3>1. a.begin = job.begin + k * DayLen BY <2>1, <2>3
    <3>2. (job.begin + k * DayLen) % DayLen = job.begin % DayLen BY <2>2, ModShift
    <3> QED BY <3>1, <3>2
  <2>5. a.end - a.begin = JobEnd(job) - job.begin BY <2>1, <2>2
  <2>6. Enabled(job) BY <1>1 DEF HasAction
  <2> QED BY <1>1, <2>1, <2>4, <2>5, <2>6 DEF BeginOf, Occurs
<1>2. CASE ~HasAction(job, now)
  BY <1>2 DEF ActionsOf, BeginOf
<1> QED BY <1>1, <1>2

\* A one-time job that is ahead has its own begin.
LEMMA OnceAhead ==
    ASSUME NEW job \in Jobs, Enabled(job), job.cycle = "once", NEW now \in Int,
           now < job.begin
    PROVE  BeginOf(job, now) = job.begin
<1>1. Shift(job, now) = 0 BY DEF Shift
<1>2. job.begin \in Nat BY JobEndNat
<1> QED BY <1>1, <1>2 DEF BeginOf, HasAction

\* While the clock stands still a job is evaluated at the local time.
LEMMA ReadNow ==
    ASSUME TypeOK, ReadOK, ClockRead, ~moved, phase \in {"recA", "recB"},
           NEW a \in ActionsOf(Subject, Now), Subject \in Jobs
    PROVE  a.begin = BeginOf(Subject, local)
<1>1. a.begin = BeginOf(Subject, Now) BY NowInt, Evaluated
<1>2. CASE Enabled(Subject)
  <2>1. mjd = MjdOf(local) BY <1>2 DEF ReadOK, ClockRead
  <2>2. Now = local
    BY <2>1, DivModIdentity DEF Now, TimeOf, MjdOf, UtcOf, TypeOK, ClockTypeOK
  <2> QED BY <1>1, <2>2
<1>3. CASE ~Enabled(Subject)
  BY <1>1, <1>3 DEF BeginOf, HasAction
<1> QED BY <1>2, <1>3
-----------------------------------------------------------------------------
(* The inductive steps.                                                    *)

\* Every state of the initial predicate and every one after a power failure.
LEMMA Booted ==
    ASSUME phase = "load", mjd = NoHalf, recent.begin = 0,
           \A i \in Slots : jobs[i] = ZeroJob
    PROVE  ReadOK /\ SoundOK /\ CoverOK
<1>1. OneTime(jobs) = {} BY ClearedType DEF OneTime
<1> QED BY <1>1 DEF ReadOK, SoundOK, CoverOK, Computing

\* What no step of a loop changes.
Still == UNCHANGED <<jobs, recent, stale, workVars>>

\* A step of a notifying thread.
LEMMA ClockKeeps ==
    ASSUME TypeOK, TypeOK', ControlOK, ReadOK, SoundOK, CoverOK, Still,
           moved => moved', phase \in {"recA", "recB"} /\ ~moved' => local' = local,
           peak' >= peak
    PROVE  ReadOK' /\ SoundOK' /\ CoverOK'
<1> USE DEF Still, workVars
<1>1. ReadOK' BY DEF ReadOK
<1>2. SoundOK' BY DEF SoundOK, Computing, Matches, Occurs
<1>3. CoverOK'
  <2> SUFFICES ASSUME ~moved', NEW i \in OneTime(jobs)', jobs'[i].begin > peak'
               PROVE  /\ phase' \notin Computing => phase' # "load" /\ recent'.begin <= jobs'[i].begin
                      /\ phase' = "recA" /\ i < idx' => BeginOf(jobs[cand], local)' <= jobs'[i].begin
                      /\ phase' = "recB" => /\ act'.begin = BeginOf(jobs[cand], local)'
                                            /\ i < idx' => act'.begin <= jobs'[i].begin
    BY DEF CoverOK, Computing
  <2>1. i \in OneTime(jobs) /\ jobs[i].begin > peak
    <3>1. i \in OneTime(jobs) BY DEF OneTime, Enabled
    <3>2. jobs[i].begin \in Nat /\ peak \in Nat /\ peak' \in Nat
      BY <3>1, JobEndNat DEF TypeOK, OneTime
    <3> QED BY <3>1, <3>2
  <2>2. phase \in {"recA", "recB"} => local' = local
    OBVIOUS
  <2> QED BY <2>1, <2>2 DEF CoverOK, Computing, BeginOf, HasAction, Shift, CatchUp
<1> QED BY <1>1, <1>2, <1>3

\* A step of a thread that does not hold the semaphore.
LEMMA OtherKeeps ==
    ASSUME TypeOK, TypeOK', ControlOK, ReadOK, SoundOK, CoverOK,
           \/ ClockChange \/ LoadArgument \/ \E n \in Notifiers : NotifierStep(n)
           \/ Receive \/ ResetHead \/ ResetBody
    PROVE  ReadOK' /\ SoundOK' /\ CoverOK'
<1>1. CASE ClockChange
  <2>1. Still /\ (moved => moved') /\ (phase \in {"recA", "recB"} => moved')
    BY <1>1 DEF ClockChange, Still, tableVars
  <2>2. peak' >= peak BY <1>1 DEF ClockChange, TypeOK, ClockTypeOK
  <2> QED BY <2>1, <2>2, ClockKeeps
<1>2. CASE LoadArgument \/ (\E n \in Notifiers : NotifierStep(n)) \/ Receive \/ ResetHead \/ ResetBody
  <2>1. Still /\ UNCHANGED <<local, peak, moved>>
    BY <1>2 DEF LoadArgument, LoadHalf, NotifierStep, Callback, NobodyToCall, Send, Return,
                Receive, ResetHead, ResetBody, Still, tableVars, workVars, histVars, clockVars
  <2>2. peak' >= peak BY <2>1 DEF TypeOK
  <2> QED BY <2>1, <2>2, ClockKeeps
<1> QED BY <1>1, <1>2

\* While the table is changed and saved nothing is said of the armed action.
LEMMA BeforeComputing ==
    ASSUME phase' \in {"expire", "head", "body"}
    PROVE  SoundOK' /\ CoverOK'
BY DEF SoundOK, CoverOK, Computing

\* Steps of the holder that are no part of a computation.
LEMMA ElsewhereKeeps ==
    ASSUME SoundOK, CoverOK, UNCHANGED <<jobs, recent, stale, moved, peak, local>>,
           phase \notin Computing \cup {"load"}, phase' \notin Computing \cup {"load"}
    PROVE  SoundOK' /\ CoverOK'
<1>1. SoundOK' BY DEF SoundOK, Computing, Matches, Occurs
<1>2. CoverOK'
  <2> SUFFICES ASSUME ~moved', NEW i \in OneTime(jobs)', jobs'[i].begin > peak'
               PROVE  recent'.begin <= jobs'[i].begin
    BY DEF CoverOK, Computing
  <2>1. i \in OneTime(jobs) BY DEF OneTime
  <2> QED BY <2>1 DEF CoverOK, Computing
<1> QED BY <1>1, <1>2

\* A step of CS_TIMER_CheckandSaveJobInfo, before and after the table changes,
\* and the end of the timer task's critical section.
LEMMA SaveKeeps ==
    ASSUME TypeOK, ControlOK, ReadOK, SoundOK, CoverOK,
           \/ Ask \/ CheckNew \/ OverlayNew \/ OverlayOld \/ Leave \/ Notify \/ Report
    PROVE  ReadOK' /\ SoundOK' /\ CoverOK'
<1> USE DEF Computing
<1>1. UNCHANGED <<jobs, recent, stale, moved, peak, local>>
  BY DEF Ask, CheckNew, OverlayNew, OverlayOld, Leave, Notify, Report, tableVars, histVars, clockVars
<1>2. phase \in {"none", "valid", "overNew", "overOld", "leave", "report", "notify"}
  BY DEF Ask, CheckNew, OverlayNew, OverlayOld, Leave, Notify, Report, ControlOK
<1>3. phase' \in {"valid", "store", "leave", "overNew", "overOld", "notify", "none"}
  BY NextOverlayTypes DEF Ask, CheckNew, OverlayNew, OverlayOld, Leave, Notify, Report, Release
<1>4. SoundOK' /\ CoverOK' BY <1>1, <1>2, <1>3, ElsewhereKeeps
<1>5. mjd' = NoHalf
  BY DEF Ask, CheckNew, OverlayNew, OverlayOld, Leave, Notify, Report, Release, ReadOK, ControlOK
<1>6. ReadOK' BY <1>3, <1>5 DEF ReadOK
<1> QED BY <1>4, <1>6

\* A step that changes or saves the table, or reaches its computation.
LEMMA TableKeeps ==
    ASSUME TypeOK, ControlOK, ReadOK, SoundOK, CoverOK,
           \/ TaskLock \/ ExpireSlot \/ WriteHead \/ Store
    PROVE  ReadOK' /\ SoundOK' /\ CoverOK'
<1>1. phase' \in {"expire", "head", "body"}
  BY NextExpireTypes DEF TaskLock, ExpireSlot, WriteHead, Store
<1>2. mjd' = NoHalf BY DEF TaskLock, ExpireSlot, WriteHead, Store, ReadOK, ControlOK
<1>3. ReadOK' BY <1>1, <1>2 DEF ReadOK
<1> QED BY <1>1, <1>3, BeforeComputing

\* CS_TIMER_Init: the table is read, or cleared.
LEMMA LoadKeeps ==
    ASSUME TypeOK, ControlOK, ReadOK, SoundOK, CoverOK, Load
    PROVE  ReadOK' /\ SoundOK' /\ CoverOK'
<1>1. mjd' = NoHalf BY DEF Load, ReadOK, Release
<1>2. CASE e2pHead
  <2>1. phase' \in {"expire", "head"} BY <1>2, NextExpireTypes DEF Load
  <2>2. ReadOK' BY <1>1, <2>1 DEF ReadOK
  <2> QED BY <2>1, <2>2, BeforeComputing
<1>3. CASE ~e2pHead
  <2>1. phase' = "none" /\ recent'.begin = 0 BY <1>3 DEF Load, Release, SoundOK
  <2>2. OneTime(jobs)' = {} BY <1>3, ClearedType DEF Load, OneTime
  <2> QED BY <1>1, <2>1, <2>2 DEF ReadOK, SoundOK, CoverOK, Computing
<1> QED BY <1>2, <1>3

\* Slots are cleared without a new computation: they are stale.
LEMMA ClearKeeps ==
    ASSUME TypeOK, TypeOK', ControlOK, ReadOK, SoundOK, CoverOK, CleanSleep \/ Reset
    PROVE  ReadOK' /\ SoundOK' /\ CoverOK'
<1> USE DEF Computing
<1>1. CASE CleanSleep
  <2>1. ReadOK' BY <1>1 DEF CleanSleep, Release, ReadOK
  <2>2. \A i \in Slots \ stale' : jobs'[i] = jobs[i]
    BY <1>1 DEF CleanSleep, TypeOK
  <2>3. SoundOK'
    BY <1>1, <2>2 DEF CleanSleep, Release, SoundOK, Matches, Occurs, TypeOK
  <2>4. \A i \in OneTime(jobs)' : i \in OneTime(jobs) /\ jobs'[i] = jobs[i]
    BY <1>1, ClearedType DEF CleanSleep, OneTime, TypeOK
  <2>5. CoverOK' BY <1>1, <2>4 DEF CleanSleep, Release, CoverOK, histVars
  <2> QED BY <2>1, <2>3, <2>5
<1>2. CASE Reset
  <2>1. UNCHANGED <<phase, mjd, moved, local, recent, cand, act>> /\ phase # "load"
    BY <1>2 DEF Reset, ControlOK, workVars, histVars, clockVars
  <2>2. ReadOK' BY <2>1 DEF ReadOK
  <2>3. SoundOK' BY <1>2, <2>1 DEF Reset, SoundOK, Matches, TypeOK
  <2>4. OneTime(jobs)' = {} BY <1>2, ClearedType DEF Reset, OneTime
  <2>5. CoverOK' BY <2>4 DEF CoverOK
  <2> QED BY <2>2, <2>3, <2>5
<1> QED BY <1>1, <1>2

\* The date is read.
LEMMA ReadKeeps ==
    ASSUME TypeOK, ControlOK, ReadOK, SoundOK, CoverOK, ReadMjd
    PROVE  ReadOK' /\ SoundOK' /\ CoverOK'
<1>1. phase \in {"valid", "overNew", "expire", "overOld", "recB", "recA"}
  BY ClearedType DEF ReadMjd, Subject
<1>2. UNCHANGED <<phase, jobs, recent, stale, moved, peak, local, idx, cand, act>>
  BY DEF ReadMjd, tableVars, histVars, clockVars
<1>3. ReadOK' BY <1>1, <1>2 DEF ReadMjd, ReadOK
<1>4. SoundOK' BY <1>2 DEF SoundOK, Matches, Occurs
<1>5. CoverOK'
  <2>1. /\ OneTime(jobs)' = OneTime(jobs)
        /\ BeginOf(jobs[cand], local)' = BeginOf(jobs[cand], local)
    BY <1>2 DEF OneTime, BeginOf, HasAction, Shift, CatchUp
  <2> QED BY <1>2, <2>1 DEF CoverOK
<1> QED BY <1>3, <1>4, <1>5

\* The computation begins: its first candidate is slot 0.
LEMMA WriteBodyKeeps ==
    ASSUME TypeOK, ControlOK, PeakOK, ReadOK, WriteBody
    PROVE  ReadOK' /\ SoundOK' /\ CoverOK'
<1>1. /\ phase' = "recA" /\ idx' = 1 /\ cand' = 0 /\ mjd' = NoHalf
      /\ UNCHANGED <<jobs, local, peak>>
  BY DEF WriteBody, ReadOK, clockVars
<1>2. ReadOK' BY <1>1 DEF ReadOK
<1>3. SoundOK' BY <1>1 DEF SoundOK, Computing
<1>4. ASSUME NEW i \in OneTime(jobs)', jobs'[i].begin > peak', i < idx'
      PROVE  BeginOf(jobs[cand], local)' <= jobs'[i].begin
  <2>1. i = 0 /\ i \in Slots /\ Enabled(jobs[0]) /\ jobs[0].cycle = "once"
    BY <1>1, <1>4 DEF OneTime, Slots
  <2>2. jobs[0] \in Jobs /\ local \in Int /\ peak \in Int /\ local <= peak
    BY <2>1 DEF TypeOK, ClockTypeOK, PeakOK
  <2>3. jobs[0].begin \in Nat /\ local < jobs[0].begin
    BY <1>1, <1>4, <2>1, <2>2, JobEndNat
  <2>4. BeginOf(jobs[0], local) = jobs[0].begin BY <2>1, <2>2, <2>3, OnceAhead
  <2>5. BeginOf(jobs[cand], local)' = BeginOf(jobs[0], local)
    BY <1>1 DEF BeginOf, HasAction, Shift, CatchUp
  <2> QED BY <1>1, <2>1, <2>3, <2>4, <2>5
<1>5. CoverOK' BY <1>1, <1>4 DEF CoverOK, Computing
<1> QED BY <1>2, <1>3, <1>5

\* The candidate is evaluated.
LEMMA EvalCandidateKeeps ==
    ASSUME TypeOK, ControlOK, ReadOK, SoundOK, CoverOK, EvalCandidate
    PROVE  ReadOK' /\ SoundOK' /\ CoverOK'
<1>1. /\ phase = "recA" /\ phase' = "recB" /\ mjd' = NoHalf /\ ClockRead
      /\ UNCHANGED <<jobs, recent, stale, moved, peak, local, idx, cand>>
      /\ act' \in ActionsOf(jobs[cand], Now)
  BY DEF EvalCandidate, tableVars, histVars, clockVars
<1>2. Subject = jobs[cand] /\ jobs[cand] \in Jobs BY <1>1 DEF Subject, TypeOK
<1>3. ReadOK' BY <1>1 DEF ReadOK
<1>4. SoundOK'
  <2>1. act'.begin = Never \/ Occurs(act', jobs[cand]) BY <1>1, <1>2, NowInt, Evaluated
  <2>2. Matches(act, cand)' BY <1>1, <2>1 DEF Matches, Occurs
  <2> QED BY <1>1, <2>2 DEF SoundOK, Computing
<1>5. CoverOK'
  <2> SUFFICES ASSUME ~moved', NEW i \in OneTime(jobs)', jobs'[i].begin > peak'
               PROVE  /\ act'.begin = BeginOf(jobs[cand], local)'
                      /\ i < idx' => act'.begin <= jobs'[i].begin
    BY <1>1 DEF CoverOK, Computing
  <2>1. act'.begin = BeginOf(jobs[cand], local) BY <1>1, <1>2, ReadNow
  <2>2. BeginOf(jobs[cand], local)' = BeginOf(jobs[cand], local)
    BY <1>1 DEF BeginOf, HasAction, Shift, CatchUp
  <2>3. i \in OneTime(jobs) BY <1>1 DEF OneTime
  <2> QED BY <1>1, <2>1, <2>2, <2>3 DEF CoverOK
<1> QED BY <1>3, <1>4, <1>5

\* The slot of the iteration is evaluated, and the earlier action is kept.
LEMMA EvalSlotKeeps ==
    ASSUME TypeOK, ControlOK, PeakOK, ReadOK, SoundOK, CoverOK, EvalSlot
    PROVE  ReadOK' /\ SoundOK' /\ CoverOK'
<1>1. /\ phase = "recB" /\ mjd' = NoHalf /\ ClockRead /\ idx \in Slots /\ cand \in Slots
      /\ UNCHANGED <<jobs, stale, moved, peak, local>>
  BY DEF EvalSlot, tableVars, histVars, clockVars, ControlOK, TypeOK
<1>2. Subject = jobs[idx] /\ jobs[idx] \in Jobs BY <1>1 DEF Subject, TypeOK
<1>3. PICK comp \in ActionsOf(jobs[idx], Now) :
        LET earlier == Replaces(comp, act)
            c       == IF earlier THEN idx ELSE cand
            a       == IF earlier THEN comp ELSE act
        IN  /\ cand' = c /\ act' = NoAct
            /\ recent' = IF idx = NJobs - 1
                         THEN [idx |-> c, begin |-> a.begin, end |-> a.end, action |-> a.action]
                         ELSE recent
  BY DEF EvalSlot
<1> DEFINE c == IF Replaces(comp, act) THEN idx ELSE cand
           a == IF Replaces(comp, act) THEN comp ELSE act
<1>4. /\ cand' = c
      /\ idx = NJobs - 1 => /\ phase' \in {"report", "leave", "clean"} /\ recent'.idx = c
                            /\ recent'.begin = a.begin /\ recent'.end = a.end
      /\ idx # NJobs - 1 => phase' = "recA" /\ idx' = idx + 1
  BY <1>3 DEF EvalSlot, AfterRecent
<1>5. comp.begin \in Nat /\ act.begin \in Nat
  <2>1. comp \in ActionRecords BY <1>2, <1>3, NowInt, ActionsOfType
  <2> QED BY <2>1 DEF TypeOK, ActionRecords
<1>6. ReadOK' BY <1>1, <1>4 DEF ReadOK
<1>7. SoundOK'
  <2>1. comp.begin = Never \/ Occurs(comp, jobs[idx]) BY <1>2, <1>3, NowInt, Evaluated
  <2>2. Matches(a, c) BY <1>1, <2>1 DEF SoundOK, Matches
  <2>3. idx = NJobs - 1 => Matches(recent, recent.idx)'
    BY <1>1, <1>4, <2>2 DEF Matches, Occurs
  <2> QED BY <1>4, <2>3 DEF SoundOK, Computing
<1>8. CoverOK'
  <2> SUFFICES ASSUME ~moved', NEW i \in OneTime(jobs)', jobs'[i].begin > peak'
               PROVE  /\ idx = NJobs - 1 => recent'.begin <= jobs'[i].begin
                      /\ idx # NJobs - 1 /\ i < idx' => BeginOf(jobs[cand], local)' <= jobs'[i].begin
    BY <1>1, <1>4 DEF CoverOK, Computing
  <2>1. /\ i \in OneTime(jobs) /\ jobs[i].begin > peak /\ ~moved /\ jobs'[i] = jobs[i]
        /\ i \in Slots
    BY <1>1 DEF OneTime
  <2>2. /\ act.begin = BeginOf(jobs[cand], local)
        /\ i < idx => act.begin <= jobs[i].begin
    BY <1>1, <2>1 DEF CoverOK
  <2>3. comp.begin = BeginOf(jobs[idx], local) BY <1>1, <1>2, <1>3, <2>1, ReadNow
  <2>4. jobs[i] \in Jobs /\ jobs[i].begin \in Nat BY <2>1, JobEndNat DEF TypeOK
  <2>5. i = idx => comp.begin = jobs[i].begin
    <3>1. local \in Int /\ local < jobs[i].begin
      BY <2>1, <2>4 DEF TypeOK, ClockTypeOK, PeakOK
    <3> QED BY <2>1, <2>3, <2>4, <3>1, OnceAhead DEF OneTime
  <2>6. i <= idx => a.begin <= jobs[i].begin
    BY <1>1, <1>5, <2>1, <2>2, <2>4, <2>5 DEF Replaces, Slots
  <2>7. a.begin = BeginOf(jobs[c], local) BY <2>2, <2>3
  <2>8. BeginOf(jobs[cand], local)' = BeginOf(jobs[c], local)
    BY <1>1, <1>4 DEF BeginOf, HasAction, Shift, CatchUp
  <2>9. idx = NJobs - 1 => i <= idx BY <2>1 DEF Slots
  <2>10. idx # NJobs - 1 /\ i < idx' => i <= idx BY <1>1, <1>4, <2>1 DEF Slots
  <2> HIDE DEF a, c
  <2> QED BY <1>4, <2>1, <2>6, <2>7, <2>8, <2>9, <2>10
<1> QED BY <1>6, <1>7, <1>8

\* A power failure.
LEMMA PowerFailKeeps ==
    ASSUME PowerFail
    PROVE  ReadOK' /\ SoundOK' /\ CoverOK'
<1>1. /\ phase' = "load" /\ mjd' = NoHalf /\ recent'.begin = 0
      /\ jobs' = [i \in Slots |-> ZeroJob]
  BY DEF PowerFail
<1>2. OneTime(jobs)' = {} BY <1>1, ClearedType DEF OneTime
<1> QED BY <1>1, <1>2 DEF ReadOK, SoundOK, CoverOK, Computing

\* Every step.
LEMMA ArmedStep == AInv /\ [Next]_vars => AInv'
<1> SUFFICES ASSUME AInv, [Next]_vars PROVE AInv'
  OBVIOUS
<1>0. TypeOK /\ ControlOK /\ PeakOK /\ ReadOK /\ SoundOK /\ CoverOK BY DEF AInv
<1>1. TypeOK' /\ ControlOK' /\ PeakOK' BY <1>0, TypeStep, ControlStep, PeakStep
<1>2. CASE \/ ClockChange \/ LoadArgument \/ \E n \in Notifiers : NotifierStep(n)
           \/ Receive \/ UiStep
  BY <1>0, <1>1, <1>2, OtherKeeps DEF UiStep, AInv
<1>3. CASE TaskLock \/ HolderStep \/ Ask \/ Reset
  BY <1>0, <1>1, <1>3, ReadKeeps, TableKeeps, WriteBodyKeeps, EvalCandidateKeeps, EvalSlotKeeps,
     SaveKeeps, LoadKeeps, ClearKeeps
  DEF HolderStep, AInv
<1>4. CASE PowerFail
  BY <1>1, <1>4, PowerFailKeeps DEF AInv
<1>5. CASE UNCHANGED vars
  <2>1. Still /\ UNCHANGED <<local, peak, moved>>
    BY <1>5 DEF vars, tableVars, workVars, histVars, clockVars, Still
  <2>2. peak' >= peak BY <1>0, <2>1 DEF TypeOK
  <2> QED BY <1>0, <1>1, <2>1, <2>2, ClockKeeps DEF AInv
<1> QED BY <1>2, <1>3, <1>4, <1>5 DEF Next

\* AInv is an invariant of Timer.
THEOREM ArmedInductive == Spec => []AInv
<1>1. Init => AInv
  <2> SUFFICES ASSUME Init PROVE AInv
    OBVIOUS
  <2>1. PeakOK BY DEF Init, ClockInit, PeakOK
  <2>2. ReadOK /\ SoundOK /\ CoverOK BY Booted DEF Init
  <2> QED BY <2>1, <2>2, InitTypeOK DEF AInv
<1> QED BY <1>1, ArmedStep, PTL DEF Spec

\* The armed action is an occurrence of an enabled job, on the job's minute and as
\* long as the job, whatever the stack held where TIMER_GetJobCurrentAction has
\* assigned nothing, unless the slot was erased without a new computation.
THEOREM ArmedIsReal == Spec => []ArmedSound
<1>1. AInv => ArmedSound
  BY DEF AInv, SoundOK, Computing, ControlOK, ArmedSound, Armed, Matches, Occurs
<1> QED BY <1>1, ArmedInductive, PTL

\* No one-time job that is still ahead is left behind the armed action, though the
\* loop of TIMER_UpdateRecentJobEvent evaluates every slot, and the candidate over
\* and over, at a time of its own, unless the clock moved under it.
THEOREM NothingAheadMissed == Spec => []Covered
<1>1. AInv => Covered
  BY DEF AInv, CoverOK, Computing, ControlOK, Covered
<1> QED BY <1>1, ArmedInductive, PTL
-----------------------------------------------------------------------------
(* No action is passed by.                                                 *)

\* The clock is moved by the idle task alone, minute by minute.
Alone == Notifiers = {Ticker} /\ Advances = {1}

DueOf(a) == IF a.action = "begin" THEN a.begin ELSE a.end

\* The callback is called with the local time.
Loads ==
    LET a == arg[Ticker] IN
    /\ npc[Ticker] = "run" => a = NoArg
    /\ npc[Ticker] = "load" => /\ a.mjd \in {NoHalf, MjdOf(local)}
                               /\ a.utc \in {NoHalf, UtcOf(local)}
    /\ npc[Ticker] = "call" => a.mjd = MjdOf(local) /\ a.utc = UtcOf(local)
    /\ pend[Ticker] # NoMsg => npc[Ticker] = "call" /\ who # "boot"

\* Its message is on the way to the timer task, which has not just handled it.
Message == [kind |-> recent.action, idx |-> recent.idx]
OnTheWay ==
    \/ \E k \in DOMAIN queue : queue[k] = Message
    \/ msg = Message /\ phase \notin {"report", "notify"}
    \/ pend[Ticker] = Message

\* The minute has come, and the callback is still to be called for it.
Coming == Due = local /\ npc[Ticker] \in {"load", "call"} /\ pend[Ticker] = NoMsg

\* What the computation finds is ahead, and stays so until its minute comes.
DueOK ==
    ~moved =>
        /\ phase = "recB" => act.begin = Never \/ DueOf(act) > local
        /\ phase \notin Computing /\ Armed /\ recent.idx \notin stale =>
             \/ Due > local
             \/ phase # "clean" /\ (OnTheWay \/ Coming)

\* The timer task works on a message.
Busy == who = "task" => msg # NoMsg

DInv == AInv /\ Loads /\ Busy /\ DueOK
-----------------------------------------------------------------------------
\* The initial states, and those after a power failure.
LEMMA BootedDue ==
    ASSUME phase = "load", recent.begin = 0, npc[Ticker] = "run", arg[Ticker] = NoArg,
           pend[Ticker] = NoMsg
    PROVE  Loads /\ DueOK
BY DEF Loads, DueOK, Armed

\* A step that changes nothing of the idle task's.
LEMMA LoadsKept ==
    ASSUME Loads, UNCHANGED <<local, npc, arg, pend>>, who' = "boot" => who = "boot"
    PROVE  Loads'
BY DEF Loads

\* A step that changes nothing the due action depends on.
LEMMA DueKept ==
    ASSUME DueOK, UNCHANGED <<local, npc, pend, recent, moved, queue, msg>>,
           stale \subseteq stale', phase \notin Computing, phase' \notin Computing,
           phase' \notin {"report", "notify"} \/ phase \in {"report", "notify"}, phase' # "clean" \/ phase = "clean"
    PROVE  DueOK'
<1>1. CASE moved' \/ ~Armed' \/ recent'.idx \in stale'
  BY <1>1 DEF DueOK, Computing
<1>2. CASE ~moved' /\ Armed' /\ recent'.idx \notin stale'
  <2>1. Due > local \/ (phase # "clean" /\ (OnTheWay \/ Coming))
    BY <1>2 DEF DueOK, Armed
  <2>2. Due' > local' \/ (phase' # "clean" /\ (OnTheWay' \/ Coming'))
    BY <2>1 DEF Due, OnTheWay, Coming, Message
  <2> QED BY <1>2, <2>2 DEF DueOK, Computing
<1> QED BY <1>1, <1>2

\* Within a computation.
LEMMA DueLater ==
    ASSUME phase' \in {"expire", "head", "body", "recA"}
    PROVE  DueOK'
BY DEF DueOK, Computing

\* The clock counts a minute.
LEMMA ClockDue ==
    ASSUME Alone, DInv, TypeOK', ClockChange
    PROVE  Loads' /\ DueOK'
<1>0. TypeOK /\ ControlOK /\ Loads /\ DueOK BY DEF DInv, AInv
<1>1. /\ local' = local + 1 /\ npc[Ticker] = "run" /\ npc' = [npc EXCEPT ![Ticker] = "load"]
      /\ UNCHANGED <<arg, who, phase, recent, stale, pend, queue, msg, act>>
      /\ moved' = (moved \/ phase \in {"recA", "recB", "clean"})
  BY DEF ClockChange, AdvanceTime, SetTime, ChangeTime, Alone, tableVars, workVars, taskVars
<1>2. npc'[Ticker] = "load" BY <1>0, <1>1 DEF TypeOK, ClockTypeOK
<1>3. Loads' BY <1>0, <1>1, <1>2 DEF Loads, NoArg
<1>4. DueOK'
  <2> SUFFICES ASSUME ~moved', phase' \notin Computing, Armed', recent'.idx \notin stale'
               PROVE  Due' > local' \/ (phase' # "clean" /\ (OnTheWay' \/ Coming'))
    BY <1>1 DEF DueOK
  <2>1. Due > local \/ OnTheWay \/ Coming BY <1>0, <1>1 DEF DueOK, Armed
  <2>2. phase' # "clean" BY <1>1
  <2>3. CASE OnTheWay BY <1>1, <2>2, <2>3 DEF OnTheWay, Message
  <2>4. CASE Coming BY <1>1, <2>4 DEF Coming
  <2>5. CASE Due > local
    <3>1. Due \in Nat /\ local \in Nat /\ Due' = Due
      BY <1>0, <1>1 DEF Due, TypeOK, ClockTypeOK
    <3>2. Due' > local' \/ Due' = local' BY <1>1, <2>5, <3>1
    <3>3. pend'[Ticker] = NoMsg BY <1>0, <1>1 DEF Loads
    <3> QED BY <1>2, <2>2, <3>2, <3>3 DEF Coming
  <2> QED BY <2>1, <2>3, <2>4, <2>5
<1> QED BY <1>3, <1>4

\* The arguments of DT_Notify are loaded: they are the local time's.
LEMMA LoadDue ==
    ASSUME Alone, DInv, LoadArgument
    PROVE  Loads' /\ DueOK'
<1>0. TypeOK /\ ControlOK /\ Loads /\ DueOK BY DEF DInv, AInv
<1>1. LoadHalf(Ticker) BY DEF LoadArgument, Alone
<1>2. Loadable(Ticker) = {local} BY DEF Loadable, Alone
<1>3. UNCHANGED <<local, who, phase, recent, stale, pend, queue, msg, act, moved>>
  BY <1>1 DEF LoadArgument, LoadHalf, tableVars, workVars, taskVars, histVars
<1>4. MjdOf(local) \in Nat /\ UtcOf(local) \in Nat BY <1>0, ClockReads DEF TypeOK
<1>5. /\ npc[Ticker] = "load" /\ npc'[Ticker] \in {"load", "call"}
      /\ \/ /\ arg'[Ticker] = [arg[Ticker] EXCEPT !.mjd = MjdOf(local)]
            /\ npc'[Ticker] = IF arg[Ticker].utc = NoHalf THEN "load" ELSE "call"
         \/ /\ arg'[Ticker] = [arg[Ticker] EXCEPT !.utc = UtcOf(local)]
            /\ npc'[Ticker] = IF arg[Ticker].mjd = NoHalf THEN "load" ELSE "call"
  <2>1. arg \in [Notifiers -> [mjd : Half, utc : Half]] /\ Ticker \in DOMAIN npc /\ Ticker \in DOMAIN arg
    BY <1>0 DEF TypeOK, ClockTypeOK
  <2>2. /\ npc[Ticker] = "load"
        /\ \/ /\ arg' = [arg EXCEPT ![Ticker].mjd = MjdOf(local)]
              /\ npc' = [npc EXCEPT ![Ticker] = IF arg[Ticker].utc = NoHalf THEN "load" ELSE "call"]
           \/ /\ arg' = [arg EXCEPT ![Ticker].utc = UtcOf(local)]
              /\ npc' = [npc EXCEPT ![Ticker] = IF arg[Ticker].mjd = NoHalf THEN "load" ELSE "call"]
    BY <1>1, <1>2 DEF LoadHalf
  <2> QED BY <2>1, <2>2
<1>6. arg[Ticker] \in [mjd : Half, utc : Half] BY <1>0 DEF TypeOK, ClockTypeOK
<1>7. Loads' BY <1>0, <1>3, <1>4, <1>5, <1>6 DEF Loads, NoHalf
<1>8. DueOK'
  <2>1. Due' = Due /\ OnTheWay' = OnTheWay /\ Armed' = Armed
    BY <1>3 DEF Due, OnTheWay, Armed, Message
  <2>2. Coming => Coming' BY <1>3, <1>5 DEF Coming, Due
  <2> QED BY <1>0, <1>3, <2>1, <2>2 DEF DueOK
<1> QED BY <1>7, <1>8

\* The callback finds its minute, and its message is sent.
LEMMA NotifierDue ==
    ASSUME Alone, DInv, NEW n \in Notifiers, NotifierStep(n)
    PROVE  Loads' /\ DueOK'
<1>0. TypeOK /\ ControlOK /\ Loads /\ DueOK /\ n = Ticker BY DEF DInv, AInv, Alone
<1>1. UNCHANGED <<local, phase, recent, stale, msg, act, moved, who>>
  BY DEF NotifierStep, Callback, NobodyToCall, Send, Return, tableVars, workVars, taskVars,
         histVars, clockVars
<1>2. pend \in [Notifiers -> Msgs \cup {NoMsg}] /\ arg \in [Notifiers -> [mjd : Half, utc : Half]]
      /\ npc \in [Notifiers -> {"run", "load", "call"}]
  BY <1>0 DEF TypeOK, ClockTypeOK
<1>3. CASE Callback(n)
  <2>1. npc[n] = "call" /\ who = "none" /\ pend[n] = NoMsg /\ queue' = queue
    BY <1>3 DEF Callback
  <2>2. Delivered(n) = local
    BY <1>0, <2>1, DivModIdentity DEF Loads, Delivered, TimeOf, MjdOf, UtcOf, TypeOK, ClockTypeOK
  <2>3. CallbackMsg(local) = IF local = Due THEN Message ELSE NoMsg
    BY DEF CallbackMsg, CallbackEvent, Due, Message
  <2>4. phase = "none" BY <1>0, <2>1 DEF ControlOK
  <2>5. CASE CallbackMsg(local) = NoMsg
    <3>1. npc'[n] = "run" /\ arg'[n] = NoArg /\ pend' = pend
      BY <1>2, <1>3, <2>2, <2>5 DEF Callback, Return
    <3>2. Loads' BY <1>0, <2>1, <3>1 DEF Loads
    <3>3. Due = local => recent.action \notin Actions
      BY <2>3, <2>5 DEF Message, NoMsg, Actions
    <3>4. ~Coming BY <1>0, <3>3 DEF Coming, TypeOK
    <3>5. Due' = Due /\ Armed' = Armed /\ OnTheWay' = OnTheWay
      BY <1>1, <2>1, <3>1 DEF Due, Armed, OnTheWay, Message
    <3> QED BY <1>0, <1>1, <2>4, <3>2, <3>4, <3>5 DEF DueOK, Computing
  <2>6. CASE CallbackMsg(local) # NoMsg
    <3>1. pend'[n] = Message /\ UNCHANGED <<npc, arg>>
      BY <1>2, <1>3, <2>2, <2>3, <2>6 DEF Callback, clockVars
    <3>2. Loads' BY <1>0, <1>1, <2>1, <3>1 DEF Loads
    <3>3. OnTheWay' BY <1>0, <1>1, <3>1 DEF OnTheWay, Message
    <3> QED BY <1>1, <2>4, <3>2, <3>3 DEF DueOK, Computing
  <2> QED BY <2>5, <2>6
<1>4. CASE NobodyToCall(n)
  <2>1. who = "boot" /\ npc[n] = "call" /\ npc'[n] = "run" /\ arg'[n] = NoArg /\ pend' = pend
        /\ queue' = queue
    BY <1>2, <1>4 DEF NobodyToCall, Return, taskVars
  <2>2. phase \in Computing \cup {"load", "clean"}
    BY <1>0, <2>1 DEF ControlOK, Computing, TypeOK, Phases
  <2>3. pend[Ticker] = NoMsg
    BY <1>0, <2>1 DEF Loads
  <2>4. Loads' BY <1>0, <2>1, <2>3 DEF Loads
  <2>5. phase = "load" => ~Armed BY DEF DInv, AInv, SoundOK, Armed
  <2>6. Due' = Due /\ Armed' = Armed
    BY <1>1 DEF Due, Armed
  <2> QED BY <1>0, <1>1, <2>2, <2>4, <2>5, <2>6 DEF DueOK, Computing
<1>5. CASE Send(n)
  <2>1. /\ npc[n] = "call" /\ npc'[n] = "run" /\ arg'[n] = NoArg /\ pend'[n] = NoMsg
        /\ pend[n] \in Msgs /\ queue' = Append(queue, pend[n]) /\ queue \in Seq(Msgs)
    BY <1>0, <1>2, <1>5 DEF Send, Return, TypeOK
  <2>2. Loads' BY <1>0, <2>1 DEF Loads
  <2>3. \A k \in DOMAIN queue : k \in DOMAIN queue' /\ queue'[k] = queue[k]
    BY <2>1
  <2>4. Len(queue) + 1 \in DOMAIN queue' /\ queue'[Len(queue) + 1] = pend[n]
    BY <2>1
  <2>5. OnTheWay => OnTheWay' BY <1>0, <1>1, <2>3, <2>4 DEF OnTheWay, Message
  <2>6. ~Coming BY <1>0, <1>5 DEF Coming, Send
  <2>7. Due' = Due /\ Armed' = Armed BY <1>1 DEF Due, Armed
  <2> QED BY <1>0, <1>1, <2>2, <2>5, <2>6, <2>7 DEF DueOK
<1> QED BY <1>3, <1>4, <1>5 DEF NotifierStep

\* A step in which the holder of the semaphore stays where it is.
LEMMA DueStill ==
    ASSUME DueOK, UNCHANGED <<local, npc, pend, recent, moved, queue, msg, phase, act>>,
           stale \subseteq stale'
    PROVE  DueOK'
<1>1. Due' = Due /\ Armed' = Armed /\ OnTheWay' = OnTheWay /\ Coming' = Coming
  BY DEF Due, Armed, OnTheWay, Coming, Message
<1> QED BY <1>1 DEF DueOK, DueOf

\* Steps of the user interface and of the timer task outside a computation.
LEMMA QuietDue ==
    ASSUME DInv,
           \/ Receive \/ ReadMjd \/ Reset \/ ResetHead \/ ResetBody
           \/ Ask \/ CheckNew \/ OverlayNew \/ OverlayOld \/ Leave \/ Notify \/ Report \/ CleanSleep
    PROVE  Loads' /\ DueOK'
<1>0. TypeOK /\ ControlOK /\ Loads /\ DueOK BY DEF DInv, AInv
<1>1. UNCHANGED <<local, npc, arg, pend>> /\ (who' = "boot" => who = "boot")
  BY DEF Receive, ReadMjd, Reset, ResetHead, ResetBody, Ask, CheckNew, OverlayNew, OverlayOld,
         Leave, Notify, Report, CleanSleep, Release, clockVars, taskVars, workVars
<1>2. Loads' BY <1>0, <1>1, LoadsKept
<1>3. CASE ReadMjd \/ Reset \/ ResetHead \/ ResetBody
  <2>1. stale \subseteq stale' BY <1>0, <1>3 DEF ReadMjd, Reset, ResetHead, ResetBody, tableVars, TypeOK
  <2>2. UNCHANGED <<recent, moved, queue, msg, phase, act>>
    BY <1>3 DEF ReadMjd, Reset, ResetHead, ResetBody, tableVars, taskVars, workVars, histVars
  <2>3. DueOK' BY <1>0, <1>1, <2>1, <2>2, DueStill
  <2> QED BY <1>2, <2>3
<1>4. CASE Ask \/ CheckNew \/ OverlayNew \/ OverlayOld \/ Leave \/ CleanSleep
  <2>1. stale \subseteq stale' /\ UNCHANGED <<recent, moved, queue, msg>>
    BY <1>4 DEF Ask, CheckNew, OverlayNew, OverlayOld, Leave, CleanSleep, tableVars, taskVars, histVars
  <2>2. phase \in {"none", "valid", "overNew", "overOld", "leave", "clean"}
    BY <1>0, <1>4 DEF Ask, CheckNew, OverlayNew, OverlayOld, Leave, CleanSleep, ControlOK
  <2>3. phase' \in {"valid", "store", "leave", "overNew", "overOld", "none"}
    BY <1>4, NextOverlayTypes DEF Ask, CheckNew, OverlayNew, OverlayOld, Leave, CleanSleep, Release
  <2>4. DueOK' BY <1>0, <1>1, <2>1, <2>2, <2>3, DueKept DEF Computing
  <2> QED BY <1>2, <2>4
<1>5. CASE Receive
  <2>1. /\ msg = NoMsg /\ queue # <<>> /\ queue \in Seq(Msgs)
        /\ msg' = Head(queue) /\ queue' = Tail(queue)
        /\ UNCHANGED <<recent, moved, phase, stale, act>>
    BY <1>0, <1>5 DEF Receive, TypeOK, tableVars, workVars, histVars
  <2>2. phase \notin {"report", "notify"} BY <1>0, <2>1 DEF ControlOK, DInv, Busy
  <2>3. OnTheWay => OnTheWay'
    <3>0. Message' = Message BY <2>1 DEF Message
    <3>4. Message # NoMsg BY <1>0 DEF Message, NoMsg, TypeOK, Actions
    <3>5. pend[Ticker] = Message => OnTheWay' BY <1>1, <3>0 DEF OnTheWay
    <3>6. ASSUME NEW k \in DOMAIN queue, queue[k] = Message PROVE OnTheWay'
      <4>1. CASE k = 1 BY <2>1, <2>2, <3>0, <3>6, <4>1 DEF OnTheWay
      <4>2. CASE k # 1
        <5>1. k - 1 \in DOMAIN queue' /\ queue'[k - 1] = queue[k] BY <2>1, <4>2
        <5> QED BY <3>0, <3>6, <5>1 DEF OnTheWay
      <4> QED BY <4>1, <4>2
    <3>7. msg # Message BY <2>1, <3>4
    <3> QED BY <3>5, <3>6, <3>7 DEF OnTheWay
  <2>4. Due' = Due /\ Armed' = Armed /\ (Coming => Coming')
    BY <1>1, <2>1 DEF Due, Armed, Coming
  <2> QED BY <1>0, <1>1, <1>2, <2>1, <2>3, <2>4 DEF DueOK
<1>7. CASE Notify
  <2>1. /\ phase = "report" /\ phase' = "notify"
        /\ UNCHANGED <<recent, moved, stale, queue, msg>>
    BY <1>7 DEF Notify, tableVars, taskVars, histVars
  <2>2. DueOK' BY <1>0, <1>1, <2>1, DueKept DEF Computing
  <2> QED BY <1>2, <2>2
<1>6. CASE Report
  <2>1. /\ phase = "notify" /\ phase' = "none" /\ msg' = NoMsg
        /\ UNCHANGED <<recent, moved, stale, queue>>
    BY <1>6 DEF Report, Release, tableVars, histVars
  <2>2. Due' = Due /\ Armed' = Armed /\ (Coming => Coming')
    BY <1>1, <2>1 DEF Due, Armed, Coming
  <2>3. OnTheWay => OnTheWay' BY <1>1, <2>1 DEF OnTheWay, Message
  <2> QED BY <1>0, <1>1, <1>2, <2>1, <2>2, <2>3 DEF DueOK, Computing
<1> QED BY <1>3, <1>4, <1>5, <1>6, <1>7

\* The timer task keeps its message to the end of its critical section.
LEMMA BusyStep ==
    ASSUME ControlOK, Busy, [Next]_vars
    PROVE  Busy'
<1>1. CASE Report BY <1>1 DEF Report, Release, Busy
<1>2. CASE TaskLock BY <1>2 DEF TaskLock, Busy, taskVars
<1>3. CASE Receive BY <1>3 DEF Receive, Busy, workVars
<1>4. CASE PowerFail BY <1>4 DEF PowerFail, Busy
<1>5. ASSUME UNCHANGED msg, who' \in {who, "none", "ui"} PROVE Busy'
  BY <1>5 DEF Busy
<1>6. CASE ClockChange \/ LoadArgument \/ (\E n \in Notifiers : NotifierStep(n)) \/ UNCHANGED vars
  BY <1>5, <1>6 DEF ClockChange, LoadArgument, NotifierStep, Callback, NobodyToCall, Send,
                    vars, taskVars, workVars
<1>7. CASE Ask \/ Reset \/ UiStep
  BY <1>5, <1>7 DEF Ask, Reset, UiStep, ResetHead, ResetBody, taskVars, workVars
<1>8. CASE \/ ReadMjd \/ ExpireSlot \/ WriteHead \/ WriteBody \/ EvalCandidate \/ EvalSlot
           \/ Notify \/ Load \/ CleanSleep \/ CheckNew \/ OverlayNew \/ OverlayOld \/ Store \/ Leave
  BY <1>5, <1>8 DEF ReadMjd, ExpireSlot, WriteHead, WriteBody, EvalCandidate, EvalSlot, Load,
                    CleanSleep, Notify, CheckNew, OverlayNew, OverlayOld, Store, Leave, Release, taskVars
<1> QED BY <1>1, <1>2, <1>3, <1>4, <1>6, <1>7, <1>8 DEF Next, HolderStep

\* While the clock stands still what a job is evaluated to is ahead.
LEMMA EvaluatedDue ==
    ASSUME NEW job \in Jobs, NEW a \in ActionsOf(job, local)
    PROVE  a.begin = Never \/ DueOf(a) > local
<1>1. CASE HasAction(job, local)
  <2>1. /\ a.begin = job.begin + Shift(job, local) /\ a.end = JobEnd(job) + Shift(job, local)
        /\ a.action = IF local < a.begin THEN "begin" ELSE "end"
    BY <1>1 DEF ActionsOf
  <2> QED BY <1>1, <2>1 DEF HasAction, DueOf
<1>2. CASE ~HasAction(job, local)
  BY <1>2 DEF ActionsOf
<1> QED BY <1>1, <1>2

\* The same for what the loop has read.
LEMMA ReadDue ==
    ASSUME TypeOK, ReadOK, ClockRead, ~moved, phase \in {"recA", "recB"},
           NEW a \in ActionsOf(Subject, Now), Subject \in Jobs
    PROVE  a.begin = Never \/ DueOf(a) > local
<1>1. CASE Enabled(Subject)
  <2>1. mjd = MjdOf(local) BY <1>1 DEF ReadOK, ClockRead
  <2>2. Now = local
    BY <2>1, DivModIdentity DEF Now, TimeOf, MjdOf, UtcOf, TypeOK, ClockTypeOK
  <2> QED BY <2>2, EvaluatedDue
<1>2. CASE ~Enabled(Subject)
  BY <1>2 DEF ActionsOf, HasAction
<1> QED BY <1>1, <1>2

\* The computation, from its beginning to the action that is armed.
LEMMA ComputedDue ==
    ASSUME DInv, TypeOK',
           \/ TaskLock \/ ExpireSlot \/ WriteHead \/ WriteBody \/ Store \/ Load
           \/ EvalCandidate \/ EvalSlot
    PROVE  Loads' /\ DueOK'
<1>0. TypeOK /\ ControlOK /\ ReadOK /\ SoundOK /\ Loads /\ DueOK BY DEF DInv, AInv
<1>1. UNCHANGED <<local, npc, arg, pend>> /\ (who' = "boot" => who = "boot")
  BY DEF TaskLock, ExpireSlot, WriteHead, WriteBody, Store, Load, EvalCandidate, EvalSlot,
         Release, clockVars, taskVars
<1>2. Loads' BY <1>0, <1>1, LoadsKept
<1>3. CASE TaskLock \/ ExpireSlot \/ WriteHead \/ WriteBody \/ Store \/ (Load /\ e2pHead)
  <2>1. phase' \in {"expire", "head", "body", "recA"}
    BY <1>3, NextExpireTypes DEF TaskLock, ExpireSlot, WriteHead, WriteBody, Store, Load
  <2> QED BY <1>2, <2>1, DueLater
<1>4. CASE Load /\ ~e2pHead
  <2>1. ~Armed' /\ phase' = "none" BY <1>0, <1>4 DEF Load, SoundOK, Armed, Release
  <2> QED BY <1>2, <2>1 DEF DueOK
<1>5. CASE EvalCandidate
  <2>1. /\ phase = "recA" /\ phase' = "recB" /\ ClockRead /\ act' \in ActionsOf(jobs[cand], Now)
        /\ moved' = moved
    BY <1>5 DEF EvalCandidate, histVars
  <2>2. Subject = jobs[cand] /\ jobs[cand] \in Jobs BY <1>0, <2>1 DEF Subject, TypeOK
  <2>3. ~moved => act'.begin = Never \/ DueOf(act') > local BY <1>0, <2>1, <2>2, ReadDue
  <2> QED BY <1>1, <1>2, <2>1, <2>3 DEF DueOK, DueOf, Computing
<1>6. CASE EvalSlot
  <2>1. phase = "recB" /\ ClockRead /\ moved' = moved /\ idx \in Slots
    BY <1>0, <1>6 DEF EvalSlot, histVars, ControlOK
  <2>2. Subject = jobs[idx] /\ jobs[idx] \in Jobs BY <1>0, <2>1 DEF Subject, TypeOK
  <2>3. PICK comp \in ActionsOf(jobs[idx], Now) :
          LET earlier == Replaces(comp, act)
              c       == IF earlier THEN idx ELSE cand
              a       == IF earlier THEN comp ELSE act
          IN  recent' = IF idx = NJobs - 1
                        THEN [idx |-> c, begin |-> a.begin, end |-> a.end, action |-> a.action]
                        ELSE recent
    BY <1>6 DEF EvalSlot
  <2>4. ~moved => comp.begin = Never \/ DueOf(comp) > local BY <1>0, <2>1, <2>2, ReadDue
  <2>5. ~moved => act.begin = Never \/ DueOf(act) > local BY <1>0, <2>1 DEF DueOK
  <2>6. CASE idx = NJobs - 1
    <3>1. ~moved => recent'.begin = Never \/ Due' > local
      BY <2>3, <2>4, <2>5, <2>6 DEF Due, DueOf
    <3>2. phase' # "recB" BY <1>6, <2>6 DEF EvalSlot, AfterRecent
    <3> QED BY <1>1, <1>2, <2>1, <3>1, <3>2 DEF DueOK, Armed
  <2>7. CASE idx # NJobs - 1
    <3>1. phase' = "recA" BY <1>6, <2>7 DEF EvalSlot
    <3> QED BY <1>2, <3>1, DueLater
  <2> QED BY <2>6, <2>7
<1> QED BY <1>3, <1>4, <1>5, <1>6

\* Every step.
LEMMA DueStep ==
    ASSUME Alone, DInv, [Next]_vars
    PROVE  DInv'
<1>0. TypeOK /\ ControlOK /\ AInv /\ Loads /\ Busy /\ DueOK BY DEF DInv, AInv
<1>1. AInv' /\ TypeOK' /\ Busy' BY <1>0, ArmedStep, BusyStep DEF AInv
<1>2. SUFFICES Loads' /\ DueOK' BY <1>1 DEF DInv
<1>3. CASE ClockChange \/ LoadArgument \/ \E n \in Notifiers : NotifierStep(n)
  BY <1>1, <1>3, ClockDue, LoadDue, NotifierDue
<1>4. CASE Receive \/ TaskLock \/ HolderStep \/ Ask \/ Reset \/ UiStep
  BY <1>1, <1>4, QuietDue, ComputedDue DEF HolderStep, UiStep
<1>5. CASE PowerFail
  <2>1. /\ phase' = "load" /\ recent'.begin = 0 /\ npc'[Ticker] = "run"
        /\ arg'[Ticker] = NoArg /\ pend'[Ticker] = NoMsg
    BY <1>5 DEF PowerFail
  <2> QED BY <2>1 DEF Loads, DueOK, Armed
<1>6. CASE UNCHANGED vars
  <2>1. Loads' BY <1>0, <1>6, LoadsKept DEF vars, clockVars, taskVars, workVars
  <2>2. DueOK'
    BY <1>0, <1>6, DueStill
       DEF vars, clockVars, tableVars, workVars, taskVars, histVars, TypeOK
  <2> QED BY <2>1, <2>2
<1> QED BY <1>3, <1>4, <1>5, <1>6 DEF Next

\* While the idle task alone moves the clock, minute by minute, every armed action
\* is reported: once its minute is over its message is on the way to the timer
\* task, although the callback compares for equality and may be held up by the
\* semaphore and by a full queue.
THEOREM NothingPassedBy ==
    ASSUME Alone
    PROVE  Spec => []NoMissedAction
<1>1. Init => DInv
  <2> SUFFICES ASSUME Init PROVE DInv
    OBVIOUS
  <2>1. PeakOK /\ Busy BY DEF Init, ClockInit, PeakOK, Busy
  <2>2. ReadOK /\ SoundOK /\ CoverOK BY Booted DEF Init
  <2>3. Loads /\ DueOK BY BootedDue DEF Init, ClockInit
  <2> QED BY <2>1, <2>2, <2>3, InitTypeOK DEF AInv, DInv
<1>2. DInv /\ [Next]_vars => DInv' BY DueStep
<1>3. DInv => NoMissedAction
  <2> SUFFICES ASSUME DInv, who = "none", ~moved, Armed, recent.idx \notin stale,
                      npc[Ticker] = "run", ~(Due > local)
               PROVE  \E m \in {queue[k] : k \in DOMAIN queue} \cup {msg} :
                        m = [kind |-> recent.action, idx |-> recent.idx]
    BY DEF NoMissedAction
  <2>1. phase = "none" /\ Loads /\ DueOK BY DEF DInv, AInv, ControlOK
  <2>2. OnTheWay /\ pend[Ticker] = NoMsg /\ recent.action \in Actions
    BY <2>1 DEF DueOK, Computing, Coming, Loads, DInv, AInv, TypeOK
  <2>3. pend[Ticker] # Message BY <2>2 DEF Message, NoMsg, Actions
  <2> QED BY <2>2, <2>3 DEF OnTheWay, Message
<1> QED BY <1>1, <1>2, <1>3, PTL DEF Spec
=============================================================================
