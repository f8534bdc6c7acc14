---------------------------- MODULE TimerProofs ----------------------------
(* Theorems about Timer, for every table size, queue length and job.         *)
EXTENDS Timer, TLAPS

USE TimerAssumption, ClockAssumption, JobInputAssumption

\* What div and % return for natural numbers.
LEMMA DivMod ==
    ASSUME NEW a \in Int, NEW b \in Nat \ {0}
    PROVE  /\ a \div b \in Int /\ a % b \in 0 .. b - 1
           /\ a >= 0 => a \div b \in Nat
BY SMT

\* Products and sums of natural numbers stay natural.
LEMMA TimesNat ==
    ASSUME NEW a \in Nat, NEW b \in Nat
    PROVE  a * b \in Nat
BY SMT

\* The same for one sum.
LEMMA PlusNat ==
    ASSUME NEW a \in Nat, NEW b \in Nat
    PROVE  a + b \in Nat
BY SMT

\* The catch-up of a daily or weekly job never subtracts.
LEMMA CatchUpNat ==
    ASSUME NEW end \in Int, NEW now \in Int, NEW period \in Nat \ {0}
    PROVE  CatchUp(end, now, period) \in Nat
<1>1. CASE now > end
  <2> DEFINE d == now - end + period - 1
  <2>1. d \in Int /\ d >= 0 BY <1>1
  <2>2. d \div period \in Nat BY <2>1, DivMod
  <2>3. (d \div period) * period \in Nat BY <2>2, TimesNat
  <2> QED BY <1>1, <2>3 DEF CatchUp
<1>2. CASE ~(now > end)
  BY <1>2 DEF CatchUp
<1> QED BY <1>1, <1>2

\* The shift to the weekday of a weekly job is less than a week ahead.
LEMMA WeekShiftNat ==
    ASSUME NEW job \in Jobs, NEW now \in Int
    PROVE  WeekShift(job, now) \in Nat
<1> DEFINE a == WeekDay(now)  b == WeekDay(job.begin)
<1>0. job.begin \in Int BY DEF Jobs
<1>1. MjdOf(now) \in Int /\ MjdOf(job.begin) \in Int BY <1>0, DivMod DEF MjdOf
<1>2. a \in 0 .. DaysPerWeek - 1 /\ b \in 0 .. DaysPerWeek - 1
  BY <1>1, DivMod DEF WeekDay
<1> HIDE DEF a, b
<1> DEFINE s == IF a > b THEN DaysPerWeek - (a - b) ELSE b - a
<1>3. s \in Nat BY <1>2
<1> HIDE DEF s
<1>4. DayLen * s \in Nat BY <1>3, TimesNat
<1> QED BY <1>4 DEF WeekShift, a, b, s

\* A job's end is a time.
LEMMA JobEndNat ==
    ASSUME NEW job \in Jobs
    PROVE  job.begin \in Nat /\ JobEnd(job) \in Nat
BY DEF JobEnd, Jobs

\* What is added to a job's begin and end to reach its occurrence.
LEMMA ShiftNat ==
    ASSUME NEW job \in Jobs, NEW now \in Int
    PROVE  Shift(job, now) \in Nat
<1> DEFINE w == IF job.cycle = "weekly" THEN WeekShift(job, now) ELSE 0
<1>1. w \in Nat BY WeekShiftNat
<1>2. Period(job) \in Nat \ {0} BY SMT DEF Period
<1>3. JobEnd(job) + w \in Int BY <1>1, JobEndNat
<1>4. CatchUp(JobEnd(job) + w, now, Period(job)) \in Nat BY <1>2, <1>3, CatchUpNat
<1>5. w + CatchUp(JobEnd(job) + w, now, Period(job)) \in Nat BY <1>1, <1>4
<1> QED BY <1>5 DEF Shift
-----------------------------------------------------------------------------
(* Types of what the actions compute.                                        *)

ActionRecords == [begin : Nat, end : Nat, action : Actions]

\* The erased begin and end, 0xFFFFFFFF, are times like any other.
LEMMA NeverNat == Never \in Nat
BY SMT DEF Never

\* An erased slot has the type of a job.
LEMMA ClearedType ==
    /\ Cleared \in Jobs /\ Junk \in Jobs /\ ZeroJob \in Jobs
    /\ ~Enabled(Cleared) /\ ~Enabled(Junk) /\ ~Enabled(ZeroJob)
BY NeverNat DEF Cleared, Junk, ZeroJob, Jobs, Enabled

\* Whatever the occurrence of a job is, it is a pair of times and an action.
LEMMA ActionsOfType ==
    ASSUME NEW job \in Jobs, NEW now \in Int
    PROVE  ActionsOf(job, now) \subseteq ActionRecords
<1>1. Shift(job, now) \in Nat BY ShiftNat
<1>2. job.begin \in Nat /\ JobEnd(job) \in Nat BY JobEndNat
<1> DEFINE b == job.begin + Shift(job, now)
           e == JobEnd(job) + Shift(job, now)
<1>3. b \in Nat /\ e \in Nat BY <1>1, <1>2
<1> HIDE DEF b, e
<1>4. CASE HasAction(job, now)
  <2>1. ActionsOf(job, now) = {[begin |-> b, end |-> e, action |-> IF now < b THEN "begin" ELSE "end"]}
    BY <1>4 DEF ActionsOf, b, e
  <2> QED BY <2>1, <1>3 DEF ActionRecords, Actions
<1>5. CASE ~HasAction(job, now)
  <2> DEFINE E == IF Enabled(job) THEN {e} ELSE GarbageTimes
  <2>1. ActionsOf(job, now) = [begin : {Never}, end : E, action : Actions]
    BY <1>5 DEF ActionsOf, e
  <2>2. E \subseteq Nat BY <1>3
  <2> QED BY <2>1, <2>2, NeverNat DEF ActionRecords
<1> QED BY <1>4, <1>5

\* The two halves of the clock are numbers.
LEMMA ClockReads ==
    ASSUME ClockTypeOK
    PROVE  MjdOf(local) \in Nat /\ UtcOf(local) \in Nat
BY DivMod DEF ClockTypeOK, MjdOf, UtcOf

\* The time a thread has read, whether it is torn or not, is a number.
LEMMA NowInt ==
    ASSUME TypeOK
    PROVE  Now \in Int
<1>1. UtcOf(local) \in Int /\ mjd \in Int BY ClockReads DEF TypeOK, Half
<1> QED BY <1>1 DEF Now, TimeOf

\* A thread stores a natural number as the local time.
LEMMA ChangeTimeType ==
    ASSUME ClockTypeOK, NEW n \in Notifiers, NEW t \in Nat, ChangeTime(n, t)
    PROVE  ClockTypeOK'
BY DEF ClockTypeOK, ChangeTime

\* A load keeps the types of LocalClock.
LEMMA LoadHalfType ==
    ASSUME ClockTypeOK, NEW n \in Notifiers, LoadHalf(n)
    PROVE  ClockTypeOK'
<1>1. PICK t \in Loadable(n) :
         \/ arg' = [arg EXCEPT ![n].mjd = MjdOf(t)]
         \/ arg' = [arg EXCEPT ![n].utc = UtcOf(t)]
  BY DEF LoadHalf
<1>2. arg' \in [Notifiers -> [mjd : Half, utc : Half]]
  <2>1. t \in Nat BY ClockAssumption DEF Loadable, ClockTypeOK
  <2>2. MjdOf(t) \in Int /\ UtcOf(t) \in Int BY <2>1, DivMod DEF MjdOf, UtcOf
  <2> QED BY <1>1, <2>2 DEF ClockTypeOK, Half
<1>3. npc' \in [Notifiers -> {"run", "load", "call"}]
  BY DEF LoadHalf, ClockTypeOK
<1> QED BY <1>2, <1>3 DEF LoadHalf, ClockTypeOK

\* A return keeps the types of LocalClock.
LEMMA ReturnType ==
    ASSUME ClockTypeOK, NEW n \in Notifiers, Return(n)
    PROVE  ClockTypeOK'
BY DEF Return, ClockTypeOK, NoArg, NoHalf, Half
-----------------------------------------------------------------------------
(* The type invariant.                                                       *)

\* The initial states have their types.
LEMMA InitTypeOK == Init => TypeOK /\ ControlOK
<1> SUFFICES ASSUME Init PROVE TypeOK /\ ControlOK
  OBVIOUS
<1>1. ClockTypeOK
  BY DEF Init, ClockInit, ClockTypeOK, NoArg, NoHalf, Half
<1>2. jobs \in [Slots -> Jobs] /\ e2p \in [Slots -> Jobs] /\ e2pHead \in BOOLEAN
  BY ClearedType DEF Init
<1>3. 0 \in Slots /\ 0 \in Loop
  BY DEF Slots, Loop
<1>4. recent \in [idx : Slots, begin : Nat, end : Nat, action : Actions]
  BY <1>3 DEF Init, Actions
<1>5. act \in [begin : Nat, end : Nat, action : Actions]
  BY NeverNat DEF Init, NoAct, Actions
<1>6. req \in [idx : Slots, job : Jobs]
  BY <1>3, ClearedType DEF Init, NoReq
<1>7. /\ pend \in [Notifiers -> Msgs \cup {NoMsg}] /\ msg \in Msgs \cup {NoMsg}
      /\ queue \in Seq(Msgs)
  BY DEF Init
<1>8. /\ who = "boot" /\ phase = "load" /\ idx \in Loop /\ mjd \in Half /\ cand \in Slots
      /\ upc = "idle" /\ peak \in Nat /\ moved \in BOOLEAN /\ stale \in SUBSET Slots
  BY <1>3 DEF Init, NoHalf, Half
<1>9. TypeOK
  BY <1>1, <1>2, <1>4, <1>5, <1>6, <1>7, <1>8 DEF TypeOK, Phases
<1>10. ControlOK
  BY <1>8 DEF ControlOK
<1> QED BY <1>9, <1>10

\* A message the callback finds to send.
LEMMA CallbackMsgType ==
    ASSUME TypeOK, NEW t \in Int
    PROVE  CallbackMsg(t) \in Msgs \cup {NoMsg}
BY DEF CallbackMsg, CallbackEvent, TypeOK, Msgs, NoMsg, Slots, Actions

\* The types survive a step of a notifying thread.
LEMMA NotifierTypes ==
    ASSUME TypeOK, ControlOK,
           ClockChange \/ LoadArgument \/ \E n \in Notifiers : NotifierStep(n)
    PROVE  TypeOK'
<1>1. CASE ClockChange
  <2>1. ClockTypeOK'
    <3>1. CASE AdvanceTime
      <4>1. PICK d \in Advances : ChangeTime(Ticker, local + d)
        BY <3>1 DEF AdvanceTime
      <4>2. local + d \in Nat BY ClockAssumption DEF TypeOK, ClockTypeOK
      <4> QED BY <4>1, <4>2, ChangeTimeType DEF TypeOK
    <3>2. CASE \E n \in Notifiers : SetTime(n)
      BY <3>2, ChangeTimeType DEF SetTime, TypeOK
    <3> QED BY <1>1, <3>1, <3>2 DEF ClockChange
  <2>2. peak' \in Nat /\ moved' \in BOOLEAN
    BY <1>1, <2>1 DEF ClockChange, TypeOK, ClockTypeOK
  <2> QED BY <1>1, <2>1, <2>2 DEF ClockChange, TypeOK, tableVars, workVars, taskVars, uiVars
<1>2. CASE LoadArgument
  <2>1. ClockTypeOK' BY <1>2, LoadHalfType DEF LoadArgument, TypeOK
  <2> QED BY <1>2, <2>1
          DEF LoadArgument, TypeOK, tableVars, workVars, taskVars, uiVars, histVars
<1>3. ASSUME NEW n \in Notifiers, Callback(n) PROVE TypeOK'
  <2>1. Delivered(n) \in Int
    BY DEF TypeOK, ClockTypeOK, Half, Delivered, TimeOf
  <2>2. CallbackMsg(Delivered(n)) \in Msgs \cup {NoMsg} BY <2>1, CallbackMsgType
  <2>3. pend' \in [Notifiers -> Msgs \cup {NoMsg}] BY <1>3, <2>2 DEF Callback, TypeOK
  <2>4. ClockTypeOK'
    BY <1>3, ReturnType DEF Callback, TypeOK, clockVars, ClockTypeOK
  <2> QED BY <1>3, <2>3, <2>4 DEF Callback, TypeOK, tableVars, workVars, uiVars, histVars
<1>4. ASSUME NEW n \in Notifiers, NobodyToCall(n) PROVE TypeOK'
  <2>1. ClockTypeOK' BY <1>4, ReturnType DEF NobodyToCall, TypeOK
  <2> QED BY <1>4, <2>1
          DEF NobodyToCall, TypeOK, tableVars, workVars, taskVars, uiVars, histVars
<1>5. ASSUME NEW n \in Notifiers, Send(n) PROVE TypeOK'
  <2>1. ClockTypeOK' BY <1>5, ReturnType DEF Send, TypeOK
  <2>2. pend[n] \in Msgs BY <1>5 DEF Send, TypeOK
  <2>3. queue' \in Seq(Msgs) BY <1>5, <2>2 DEF Send, TypeOK
  <2>4. pend' \in [Notifiers -> Msgs \cup {NoMsg}] BY <1>5 DEF Send, TypeOK
  <2> QED BY <1>5, <2>1, <2>3, <2>4 DEF Send, TypeOK, tableVars, workVars, uiVars, histVars
<1> QED BY <1>1, <1>2, <1>3, <1>4, <1>5 DEF NotifierStep
\* The job a loop evaluates, and the occurrence it finds.
LEMMA SubjectTypes ==
    ASSUME TypeOK, ControlOK
    PROVE  /\ phase \in {"expire", "recB", "overOld"} => jobs[idx] \in Jobs
           /\ jobs[cand] \in Jobs /\ req.job \in Jobs
BY DEF TypeOK, ControlOK

\* The expiry loop goes on at a slot or ends.
LEMMA NextExpireTypes ==
    ASSUME NEW from, NEW table, NextExpire(from, table)
    PROVE  idx' \in Loop /\ phase' \in {"head", "expire"}
BY DEF NextExpire

\* The overlay loop goes on at a slot or ends.
LEMMA NextOverlayTypes ==
    ASSUME NEW from, NextOverlay(from)
    PROVE  idx' \in Loop /\ phase' \in {"store", "overNew"}
BY DEF NextOverlay

\* What a thread leaves behind when it releases the semaphore.
LEMMA ReleaseTypes ==
    ASSUME Release
    PROVE  /\ who' = "none" /\ phase' = "none" /\ idx' = 0 /\ idx' \in Loop
           /\ mjd' \in Half /\ cand' \in Slots
           /\ act' \in [begin : Nat, end : Nat, action : Actions]
BY NeverNat DEF Release, NoHalf, Half, NoAct, Actions, Slots, Loop

\* The types survive a step of the holder's expiry and search loops.
LEMMA TaskTypes ==
    ASSUME TypeOK, ControlOK,
           \/ ReadMjd \/ Receive \/ TaskLock \/ ExpireSlot \/ WriteHead \/ WriteBody
           \/ EvalCandidate \/ EvalSlot \/ Notify \/ Report
    PROVE  TypeOK'
<1>0. NoHalf \in Half /\ MjdOf(local) \in Half
  BY ClockReads DEF TypeOK, Half, NoHalf
<1>1. CASE ReadMjd
  BY <1>0, <1>1 DEF ReadMjd, TypeOK, ClockTypeOK, clockVars, tableVars, taskVars, uiVars, histVars
<1>2. CASE Receive
  <2>1. queue # <<>> /\ queue \in Seq(Msgs) BY <1>2 DEF Receive, TypeOK
  <2>2. Head(queue) \in Msgs /\ Tail(queue) \in Seq(Msgs) BY <2>1
  <2> QED BY <1>2, <2>2
          DEF Receive, TypeOK, ClockTypeOK, clockVars, tableVars, workVars, uiVars, histVars
<1>3. CASE TaskLock
  BY <1>3, NextExpireTypes
     DEF TaskLock, TypeOK, ClockTypeOK, Phases, clockVars, tableVars, taskVars, uiVars, histVars
<1>4. CASE ExpireSlot
  <2>1. idx' \in Loop /\ phase' \in {"head", "expire"} BY <1>4, NextExpireTypes DEF ExpireSlot
  <2>2. jobs' \in [Slots -> Jobs] BY <1>4, ClearedType DEF ExpireSlot, TypeOK
  <2> QED BY <1>0, <1>4, <2>1, <2>2
          DEF ExpireSlot, TypeOK, ClockTypeOK, Phases, clockVars, taskVars, uiVars, histVars
<1>5. CASE WriteHead
  BY <1>5 DEF WriteHead, TypeOK, ClockTypeOK, Phases, clockVars, taskVars, uiVars, histVars
<1>6. CASE WriteBody
  <2>1. idx' \in Loop /\ cand' \in Slots BY <1>6 DEF WriteBody, Loop, Slots
  <2> QED BY <1>6, <2>1 DEF WriteBody, TypeOK, ClockTypeOK, Phases, clockVars, taskVars, uiVars
<1>7. CASE EvalCandidate
  <2>1. act' \in [begin : Nat, end : Nat, action : Actions]
    BY <1>7, SubjectTypes, NowInt, ActionsOfType DEF EvalCandidate, ActionRecords
  <2> QED BY <1>0, <1>7, <2>1
          DEF EvalCandidate, TypeOK, ClockTypeOK, Phases, clockVars, tableVars, taskVars, uiVars, histVars
<1>8. CASE EvalSlot
  <2>1. idx \in Slots BY <1>8 DEF EvalSlot, ControlOK
  <2>2. PICK comp \in ActionsOf(jobs[idx], Now) :
          LET c == IF Replaces(comp, act) THEN idx ELSE cand
              a == IF Replaces(comp, act) THEN comp ELSE act
          IN  /\ cand' = c /\ act' = NoAct
              /\ recent' = IF idx = NJobs - 1
                           THEN [idx |-> c, begin |-> a.begin, end |-> a.end, action |-> a.action]
                           ELSE recent
    BY <1>8 DEF EvalSlot
  <2>3. comp \in [begin : Nat, end : Nat, action : Actions]
    BY <1>8, SubjectTypes, NowInt, ActionsOfType DEF EvalSlot, ActionRecords
  <2>4. cand' \in Slots /\ recent' \in [idx : Slots, begin : Nat, end : Nat, action : Actions]
    BY <2>1, <2>2, <2>3 DEF TypeOK
  <2>5. act' \in [begin : Nat, end : Nat, action : Actions]
    BY <2>2, NeverNat DEF NoAct, Actions
  <2>6. idx' \in Loop /\ phase' \in Phases
    BY <1>8, <2>1 DEF EvalSlot, AfterRecent, Phases, Slots, Loop
  <2> QED BY <1>0, <1>8, <2>4, <2>5, <2>6
          DEF EvalSlot, TypeOK, ClockTypeOK, clockVars, taskVars, uiVars, histVars
<1>10. CASE Notify
  BY <1>10 DEF Notify, TypeOK, ClockTypeOK, Phases, clockVars, tableVars, taskVars, uiVars, histVars
<1>9. CASE Report
  BY <1>9, ReleaseTypes
     DEF Report, TypeOK, ClockTypeOK, Phases, clockVars, tableVars, uiVars, histVars
<1> QED BY <1>1, <1>2, <1>3, <1>4, <1>5, <1>6, <1>7, <1>8, <1>9, <1>10

\* The types survive the steps of CS_TIMER_Init.
LEMMA BootTypes ==
    ASSUME TypeOK, ControlOK, Load \/ CleanSleep
    PROVE  TypeOK'
<1>1. CASE Load
  <2>1. jobs' \in [Slots -> Jobs] BY <1>1, ClearedType DEF Load, TypeOK
  <2>2. /\ idx' \in Loop /\ phase' \in Phases /\ who' \in {"boot", "none", "task", "ui"}
        /\ mjd' \in Half /\ cand' \in Slots
        /\ act' \in [begin : Nat, end : Nat, action : Actions]
    BY <1>1, NextExpireTypes, ReleaseTypes DEF Load, TypeOK, Phases
  <2> QED BY <1>1, <2>1, <2>2
          DEF Load, TypeOK, ClockTypeOK, clockVars, taskVars, uiVars, histVars
<1>2. CASE CleanSleep
  <2>1. SleepSlot \in Slots BY DEF SleepSlot, Slots
  <2>2. jobs' \in [Slots -> Jobs] /\ stale' \in SUBSET Slots
    BY <1>2, <2>1, ClearedType DEF CleanSleep, TypeOK
  <2> QED BY <1>2, <2>2, ReleaseTypes
          DEF CleanSleep, TypeOK, ClockTypeOK, Phases, clockVars, taskVars, uiVars, histVars
<1> QED BY <1>1, <1>2

\* The types survive a step of the user interface.
LEMMA UiTypes ==
    ASSUME TypeOK, ControlOK,
           \/ Ask \/ CheckNew \/ OverlayNew \/ OverlayOld \/ Store \/ Leave
           \/ Reset \/ ResetHead \/ ResetBody
    PROVE  TypeOK'
<1>0. NoHalf \in Half BY DEF NoHalf, Half
<1>1. CASE Ask
  <2>1. req' \in [idx : Slots, job : Jobs] /\ phase' \in {"valid", "store", "leave"}
    BY <1>1, ClearedType DEF Ask
  <2> QED BY <1>1, <2>1
          DEF Ask, TypeOK, ClockTypeOK, Phases, clockVars, tableVars, taskVars, histVars
<1>2. CASE CheckNew
  <2>1. idx' \in Loop /\ phase' \in {"leave", "store", "overNew"}
    BY <1>2, NextOverlayTypes DEF CheckNew, TypeOK
  <2> QED BY <1>0, <1>2, <2>1
          DEF CheckNew, TypeOK, ClockTypeOK, Phases, clockVars, tableVars, taskVars, uiVars, histVars
<1>3. CASE OverlayNew
  <2>1. act' \in [begin : Nat, end : Nat, action : Actions]
    BY <1>3, SubjectTypes, NowInt, ActionsOfType DEF OverlayNew, ActionRecords
  <2> QED BY <1>0, <1>3, <2>1
          DEF OverlayNew, TypeOK, ClockTypeOK, Phases, clockVars, tableVars, taskVars, uiVars, histVars
<1>4. CASE OverlayOld
  <2>1. idx' \in Loop /\ phase' \in {"leave", "store", "overNew"}
    BY <1>4, NextOverlayTypes DEF OverlayOld, TypeOK
  <2>2. act' \in [begin : Nat, end : Nat, action : Actions]
    BY <1>4, NeverNat DEF OverlayOld, NoAct, Actions
  <2> QED BY <1>0, <1>4, <2>1, <2>2
          DEF OverlayOld, TypeOK, ClockTypeOK, Phases, clockVars, tableVars, taskVars, uiVars, histVars
<1>5. CASE Store
  <2>1. jobs' \in [Slots -> Jobs] BY <1>5 DEF Store, TypeOK
  <2> QED BY <1>5, <2>1
          DEF Store, TypeOK, ClockTypeOK, Phases, clockVars, taskVars, uiVars, histVars
<1>6. CASE Leave
  <2>1. req' \in [idx : Slots, job : Jobs] /\ upc' = "idle"
    BY <1>6, ClearedType DEF Leave, Answer, NoReq, Slots
  <2> QED BY <1>6, <2>1, ReleaseTypes
          DEF Leave, TypeOK, ClockTypeOK, Phases, clockVars, tableVars, taskVars, histVars
<1>7. CASE Reset
  <2>1. jobs' \in [Slots -> Jobs] BY <1>7, ClearedType DEF Reset
  <2> QED BY <1>7, <2>1
          DEF Reset, TypeOK, ClockTypeOK, clockVars, workVars, taskVars, histVars
<1>8. CASE ResetHead
  BY <1>8 DEF ResetHead, TypeOK, ClockTypeOK, clockVars, workVars, taskVars, histVars
<1>9. CASE ResetBody
  <2>1. req' \in [idx : Slots, job : Jobs] /\ upc' = "idle"
    BY <1>9, ClearedType DEF ResetBody, Answer, NoReq, Slots
  <2> QED BY <1>9, <2>1
          DEF ResetBody, TypeOK, ClockTypeOK, clockVars, workVars, taskVars, histVars
<1> QED BY <1>1, <1>2, <1>3, <1>4, <1>5, <1>6, <1>7, <1>8, <1>9

\* The types survive a power failure.
LEMMA PowerFailTypes ==
    ASSUME TypeOK, PowerFail
    PROVE  TypeOK' /\ ControlOK'
<1>1. ClockTypeOK'
  BY DEF PowerFail, ClockTypeOK, NoArg, NoHalf, Half
<1>2. jobs' \in [Slots -> Jobs] /\ e2p' \in [Slots -> Jobs] /\ e2pHead' \in BOOLEAN
  BY ClearedType DEF PowerFail, TypeOK
<1>3. 0 \in Slots /\ 0 \in Loop
  BY DEF Slots, Loop
<1>4. recent' \in [idx : Slots, begin : Nat, end : Nat, action : Actions]
  BY <1>3 DEF PowerFail, Actions
<1>5. act' \in [begin : Nat, end : Nat, action : Actions]
  BY NeverNat DEF PowerFail, NoAct, Actions
<1>6. req' \in [idx : Slots, job : Jobs]
  BY <1>3, ClearedType DEF PowerFail, NoReq
<1>7. /\ pend' \in [Notifiers -> Msgs \cup {NoMsg}] /\ msg' \in Msgs \cup {NoMsg}
      /\ queue' \in Seq(Msgs)
  BY DEF PowerFail
<1>8. /\ who' = "boot" /\ phase' = "load" /\ idx' \in Loop /\ mjd' \in Half /\ cand' \in Slots
      /\ upc' = "idle" /\ peak' \in Nat
  BY <1>3 DEF PowerFail, NoHalf, Half
<1>11. moved' \in BOOLEAN /\ stale' \in SUBSET Slots
  BY DEF PowerFail
<1>9. TypeOK'
  BY <1>1, <1>2, <1>4, <1>5, <1>6, <1>7, <1>8, <1>11 DEF TypeOK, Phases
<1>10. ControlOK'
  BY <1>8 DEF ControlOK
<1> QED BY <1>9, <1>10
-----------------------------------------------------------------------------
(* Control: who holds the semaphore in which phase.                          *)

\* The loops start and go on at a slot of the table.
LEMMA LoopIndex ==
    ASSUME NEW i \in Loop, NEW from, NEW S \in SUBSET Slots, NextSlot(i, from, S), i # NJobs
    PROVE  i \in Slots
BY DEF NextSlot, Loop, Slots

\* A holder of the semaphore stays where its loop expects it.
LEMMA ControlStep ==
    ASSUME TypeOK, ControlOK, [Next]_vars
    PROVE  ControlOK'
<1>1. CASE ClockChange \/ LoadArgument \/ (\E n \in Notifiers : NotifierStep(n)) \/ Receive
           \/ UNCHANGED vars
  BY <1>1 DEF ClockChange, LoadArgument, NotifierStep, Callback, NobodyToCall, Send, Receive,
              ControlOK, vars, workVars, uiVars
<1>2. CASE ReadMjd \/ WriteHead \/ EvalCandidate \/ Store \/ Notify
  BY <1>2 DEF ReadMjd, WriteHead, EvalCandidate, Store, Notify, ControlOK, uiVars
<1>3. ASSUME NEW from, NEW table, NextExpire(from, table)
      PROVE  (phase' = "expire" => idx' \in Slots) /\ phase' \in {"head", "expire"}
  <2>1. OneTime(table) \in SUBSET Slots BY DEF OneTime
  <2> QED BY <1>3, <2>1, LoopIndex DEF NextExpire
<1>4. CASE TaskLock \/ ExpireSlot
  BY <1>3, <1>4 DEF TaskLock, ExpireSlot, ControlOK, uiVars
<1>5. CASE WriteBody
  <2>1. 1 \in Slots BY DEF Slots
  <2> QED BY <1>5, <2>1 DEF WriteBody, ControlOK, uiVars
<1>6. CASE EvalSlot
  <2>1. idx \in Slots /\ who # "none" BY <1>6 DEF EvalSlot, ControlOK
  <2>2. idx # NJobs - 1 => idx + 1 \in Slots BY <2>1 DEF Slots
  <2>3. /\ \/ phase' = "recA" /\ idx' \in Slots
           \/ phase' = AfterRecent
        /\ UNCHANGED <<who, req, upc>>
    BY <1>6, <2>2 DEF EvalSlot, uiVars
  <2>4. who \in {"boot", "task", "ui"} BY <2>1 DEF TypeOK
  <2> QED BY <2>1, <2>3, <2>4 DEF AfterRecent, ControlOK
<1>7. CASE Report \/ CleanSleep
  BY <1>7 DEF Report, CleanSleep, Release, ControlOK, uiVars
<1>8. CASE Load
  BY <1>3, <1>8 DEF Load, Release, ControlOK, uiVars
<1>9. CASE Leave
  BY <1>9 DEF Leave, Release, Answer, ControlOK
<1>10. CASE Ask
  BY <1>10 DEF Ask, ControlOK
<1>11. ASSUME NEW from, NextOverlay(from)
       PROVE  (phase' = "overNew" => idx' \in Slots) /\ phase' \in {"store", "overNew"}
  <2>1. Others \in SUBSET Slots BY DEF Others
  <2> QED BY <1>11, <2>1, LoopIndex DEF NextOverlay
<1>12. CASE CheckNew \/ OverlayNew \/ OverlayOld
  BY <1>11, <1>12 DEF CheckNew, OverlayNew, OverlayOld, ControlOK, uiVars
<1>13. CASE Reset \/ ResetHead \/ ResetBody
  BY <1>13 DEF Reset, ResetHead, ResetBody, Answer, ControlOK, workVars
<1>14. CASE PowerFail
  BY <1>14, PowerFailTypes
<1> QED BY <1>1, <1>2, <1>4, <1>5, <1>6, <1>7, <1>8, <1>9, <1>10, <1>12, <1>13, <1>14
        DEF Next, HolderStep, UiStep

\* Every step keeps the types.
LEMMA TypeStep ==
    ASSUME TypeOK, ControlOK, [Next]_vars
    PROVE  TypeOK'
<1>1. CASE UNCHANGED vars
  BY <1>1 DEF vars, clockVars, tableVars, workVars, taskVars, uiVars, histVars, TypeOK, ClockTypeOK
<1>2. CASE Next
  BY <1>2, NotifierTypes, TaskTypes, BootTypes, UiTypes, PowerFailTypes
     DEF Next, HolderStep, UiStep
<1> QED BY <1>1, <1>2

\* Every variable keeps its type in every behaviour: the loops of timer.c stay
\* inside the table and the armed action is always a slot and two times.
THEOREM TypeCorrect == Spec => [](TypeOK /\ ControlOK)
<1>1. Init => TypeOK /\ ControlOK BY InitTypeOK
<1>2. TypeOK /\ ControlOK /\ [Next]_vars => (TypeOK /\ ControlOK)'
  BY TypeStep, ControlStep
<1> QED BY <1>1, <1>2, PTL DEF Spec
-----------------------------------------------------------------------------
(* The EEPROM.                                                               *)

\* Every step keeps the EEPROM a copy of the table between saves.
LEMMA EepromStep ==
    ASSUME TypeOK, ControlOK, EepromOK, [Next]_vars
    PROVE  EepromOK'
<1>1. CASE \/ ClockChange \/ LoadArgument \/ (\E n \in Notifiers : NotifierStep(n))
           \/ Receive \/ UNCHANGED vars
  BY <1>1 DEF ClockChange, LoadArgument, NotifierStep, Callback, NobodyToCall, Send, Receive,
              EepromOK, Saving, vars, tableVars, workVars, uiVars
<1>2. CASE ReadMjd \/ EvalCandidate \/ OverlayNew
  BY <1>2 DEF ReadMjd, EvalCandidate, OverlayNew, EepromOK, Saving, tableVars, uiVars
<1>3. CASE TaskLock \/ ExpireSlot \/ Load
  BY <1>3, NextExpireTypes DEF TaskLock, ExpireSlot, Load, Release, EepromOK, Saving, ControlOK, tableVars, uiVars
<1>4. CASE WriteHead \/ Store
  BY <1>4 DEF WriteHead, Store, EepromOK, Saving, uiVars
<1>5. CASE WriteBody
  BY <1>5 DEF WriteBody, EepromOK, Saving, uiVars
<1>6. CASE EvalSlot
  <2>1. phase' \in {"recA", "report", "leave", "clean"} BY <1>6 DEF EvalSlot, AfterRecent
  <2> QED BY <1>6, <2>1 DEF EvalSlot, EepromOK, Saving, uiVars
<1>7. CASE Notify \/ Report \/ Leave
  BY <1>7 DEF Notify, Report, Leave, Release, Answer, EepromOK, Saving, ControlOK, tableVars, uiVars
<1>8. CASE CleanSleep
  <2>1. \A i \in Slots \ {SleepSlot} : jobs'[i] = jobs[i] BY <1>8 DEF CleanSleep, TypeOK
  <2> QED BY <1>8, <2>1 DEF CleanSleep, Release, EepromOK, Saving, ControlOK, uiVars
<1>9. CASE Ask
  BY <1>9 DEF Ask, EepromOK, Saving, ControlOK, tableVars
<1>10. CASE CheckNew \/ OverlayOld
  BY <1>10, NextOverlayTypes DEF CheckNew, OverlayOld, EepromOK, Saving, tableVars, uiVars
<1>11. CASE Reset \/ ResetHead
  BY <1>11 DEF Reset, ResetHead, EepromOK, Saving, workVars
<1>12. CASE ResetBody
  BY <1>12 DEF ResetBody, Answer, EepromOK, Saving, workVars
<1>13. CASE PowerFail
  <2>1. PICK k \in 0 .. NJobs :
          /\ k > 0 => phase = "body" \/ upc = "body"
          /\ e2p' = [i \in Slots |-> IF i < k THEN jobs[i] ELSE e2p[i]]
    BY <1>13 DEF PowerFail
  <2>2. ~e2pHead => k = 0 BY <2>1 DEF EepromOK
  <2>3. ~e2pHead => \A i \in Slots : e2p'[i] = Junk
    BY <2>1, <2>2 DEF EepromOK, Slots
  <2>4. e2pHead' = e2pHead /\ phase' = "load" /\ upc' = "idle" BY <1>13 DEF PowerFail
  <2> QED BY <2>3, <2>4 DEF EepromOK, Saving
<1> QED BY <1>1, <1>2, <1>3, <1>4, <1>5, <1>6, <1>7, <1>8, <1>9, <1>10, <1>11, <1>12, <1>13
        DEF Next, HolderStep, UiStep
-----------------------------------------------------------------------------
(* The overlay check.                                                        *)

\* Two jobs are apart whichever of them is named first.
LEMMA ApartSymmetric ==
    ASSUME NEW a, NEW b, Apart(a, b)
    PROVE  Apart(b, a)
BY DEF Apart

\* The occurrence of a one-time job is the job itself.
LEMMA OnceOccurrence ==
    ASSUME NEW job \in Jobs, NEW now \in Int, job.cycle = "once", HasAction(job, now),
           NEW o \in ActionsOf(job, now)
    PROVE  o.begin = job.begin /\ o.end = JobEnd(job)
<1>1. Shift(job, now) = 0 BY DEF Shift
<1>2. job.begin \in Nat /\ JobEnd(job) \in Nat BY JobEndNat
<1> QED BY <1>1, <1>2 DEF ActionsOf

\* What a loop that goes on at slot i has passed.
LEMMA PassedFromStart ==
    ASSUME TypeOK, NEW i \in Loop, NextSlot(i, 0, Others)
    PROVE  Passed(i)
BY DEF Passed, NextSlot, Others, OneTime, Slots, Loop

\* The overlay loop passes one slot more at each turn.
LEMMA PassedOneMore ==
    ASSUME TypeOK, idx \in Slots, Passed(idx),
           idx \in OneTime(jobs) => Apart(req.job, jobs[idx]),
           NEW i \in Loop, NextSlot(i, idx + 1, Others)
    PROVE  Passed(i)
<1> SUFFICES ASSUME NEW k \in OneTime(jobs), k < i, k # req.idx
             PROVE  Apart(req.job, jobs[k])
  BY DEF Passed
<1>0. k \in Slots /\ k \in Others BY DEF OneTime, Others
<1>1. CASE k < idx BY <1>1 DEF Passed
<1>2. CASE k = idx BY <1>2
<1>3. CASE k > idx
  <2>1. k >= idx + 1 BY <1>0, <1>3 DEF Slots
  <2>2. k >= i BY <1>0, <2>1 DEF NextSlot
  <2> QED BY <2>2, <1>0 DEF Slots, Loop
<1> QED BY <1>0, <1>1, <1>2, <1>3 DEF Slots

\* Every step keeps what the overlay loop has established so far.
LEMMA LoopStep ==
    ASSUME TypeOK, ControlOK, LoopOK, [Next]_vars
    PROVE  LoopOK'
<1>1. CASE \/ ClockChange \/ LoadArgument \/ (\E n \in Notifiers : NotifierStep(n))
           \/ Receive \/ UNCHANGED vars
  BY <1>1 DEF ClockChange, LoadArgument, NotifierStep, Callback, NobodyToCall, Send, Receive,
              LoopOK, Passed, vars, tableVars, workVars, uiVars
<1>2. CASE ReadMjd
  BY <1>2 DEF ReadMjd, LoopOK, Passed, tableVars, uiVars
<1>3. ASSUME phase' \notin {"valid", "overNew", "overOld", "store"} PROVE LoopOK'
  BY <1>3 DEF LoopOK
<1>4. CASE TaskLock \/ ExpireSlot \/ Load
  <2>1. phase' \in {"head", "expire", "none"}
    BY <1>4, NextExpireTypes DEF TaskLock, ExpireSlot, Load, Release
  <2> QED BY <1>3, <2>1
<1>5. CASE WriteHead \/ WriteBody \/ EvalCandidate \/ Store \/ PowerFail
  BY <1>3, <1>5 DEF WriteHead, WriteBody, EvalCandidate, Store, PowerFail
<1>6. CASE EvalSlot
  BY <1>3, <1>6 DEF EvalSlot, AfterRecent
<1>7. CASE Notify \/ Report \/ CleanSleep \/ Leave
  BY <1>3, <1>7 DEF Notify, Report, CleanSleep, Leave, Release
<1>8. CASE Reset \/ ResetHead \/ ResetBody
  <2>1. phase' = phase /\ upc # "save" BY <1>8 DEF Reset, ResetHead, ResetBody, workVars
  <2> QED BY <1>3, <2>1 DEF ControlOK
<1>9. CASE Ask
  <2>1. PICK i \in Slots, j \in JobInputs \cup {Cleared} :
          /\ req' = [idx |-> i, job |-> j]
          /\ phase' = IF Enabled(j) THEN "valid" ELSE IF Enabled(jobs[i]) THEN "store" ELSE "leave"
    BY <1>9 DEF Ask
  <2> QED BY <2>1 DEF LoopOK
<1>10. CASE CheckNew
  <2>1. UNCHANGED <<jobs, req>> /\ phase = "valid" BY <1>10 DEF CheckNew, tableVars, uiVars
  <2>2. CASE phase' = "leave" BY <1>3, <2>2
  <2>3. CASE phase' # "leave"
    <3>1. NextOverlay(0) BY <1>10, <2>3 DEF CheckNew
    <3>2. PICK i \in Loop : /\ NextSlot(i, 0, Others) /\ idx' = i
                            /\ phase' = IF i = NJobs THEN "store" ELSE "overNew"
      BY <3>1 DEF NextOverlay
    <3>3. Passed(i) BY <3>2, PassedFromStart
    <3>4. Passed(idx)' BY <2>1, <3>2, <3>3 DEF Passed, OneTime, Enabled
    <3>5. Enabled(req.job) BY <2>1 DEF LoopOK
    <3> QED BY <2>1, <3>2, <3>4, <3>5 DEF LoopOK
  <2> QED BY <2>2, <2>3
<1>11. CASE OverlayNew
  <2>1. UNCHANGED <<jobs, req, idx>> /\ phase = "overNew" BY <1>11 DEF OverlayNew, tableVars, uiVars
  <2>2. CASE phase' = "leave" BY <1>3, <2>2
  <2>3. CASE phase' # "leave"
    <3>1. HasAction(req.job, Now) /\ phase' = "overOld" BY <1>11, <2>3 DEF OverlayNew
    <3>2. req.job.cycle = "once" => act'.begin = req.job.begin /\ act'.end = JobEnd(req.job)
      BY <1>11, <3>1, NowInt, OnceOccurrence DEF OverlayNew, TypeOK
    <3>3. Passed(idx)' <=> Passed(idx) BY <2>1 DEF Passed, OneTime, Enabled
    <3> QED BY <2>1, <3>1, <3>2, <3>3 DEF LoopOK
  <2> QED BY <2>2, <2>3
<1>12. CASE OverlayOld
  <2>1. UNCHANGED <<jobs, req>> /\ phase = "overOld" /\ idx \in Slots /\ Enabled(req.job)
    BY <1>12 DEF OverlayOld, tableVars, uiVars, ControlOK, LoopOK
  <2>2. CASE phase' = "leave" BY <1>3, <2>2
  <2>3. CASE phase' # "leave"
    <3>1. PICK old \in ActionsOf(jobs[idx], Now) :
            HasAction(jobs[idx], Now) /\ ~Overlay(act, old) /\ NextOverlay(idx + 1)
      BY <1>12, <2>3 DEF OverlayOld
    <3>2. PICK i \in Loop : /\ NextSlot(i, idx + 1, Others) /\ idx' = i
                            /\ phase' = IF i = NJobs THEN "store" ELSE "overNew"
      BY <3>1 DEF NextOverlay
    <3>3. ASSUME req.job.cycle = "once" PROVE Passed(idx)'
      <4>1. Passed(idx) /\ act.begin = req.job.begin /\ act.end = JobEnd(req.job)
        BY <2>1, <3>3 DEF LoopOK
      <4>2. ASSUME idx \in OneTime(jobs) PROVE Apart(req.job, jobs[idx])
        <5>1. jobs[idx] \in Jobs /\ jobs[idx].cycle = "once"
          BY <2>1, <4>2 DEF OneTime, TypeOK
        <5>2. old.begin = jobs[idx].begin /\ old.end = JobEnd(jobs[idx])
          BY <3>1, <5>1, NowInt, OnceOccurrence
        <5> QED BY <3>1, <4>1, <5>2 DEF Overlay, Apart
      <4>3. Passed(i) BY <2>1, <3>2, <4>1, <4>2, PassedOneMore
      <4> QED BY <2>1, <3>2, <4>3 DEF Passed, OneTime, Enabled
    <3> QED BY <2>1, <3>2, <3>3 DEF LoopOK
  <2> QED BY <2>2, <2>3
<1> QED BY <1>1, <1>2, <1>4, <1>5, <1>6, <1>7, <1>8, <1>9, <1>10, <1>11, <1>12
        DEF Next, HolderStep, UiStep

\* Erasing slots keeps tables apart.
LEMMA ErasedApart ==
    ASSUME NEW s, NEW t, NEW u, NEW v, TablesApart(s, t),
           \A i \in Slots \ {SleepSlot} : u[i] = s[i] \/ ~Enabled(u[i]),
           \A i \in Slots \ {SleepSlot} : v[i] = t[i] \/ ~Enabled(v[i])
    PROVE  TablesApart(u, v)
BY DEF TablesApart, OneTime

\* One job may replace another that all the rest are apart from.
LEMMA ApartSwap ==
    ASSUME NEW s, NEW t, TablesApart(s, t)
    PROVE  TablesApart(t, s)
BY ApartSymmetric DEF TablesApart

\* Every step keeps the stored one-time jobs apart.
LEMMA ApartStep ==
    ASSUME IInv, [Next]_vars
    PROVE  ApartOK'
<1> USE DEF IInv
<1>1. ASSUME UNCHANGED <<jobs, e2p>> PROVE ApartOK'
  BY <1>1 DEF ApartOK, TablesApart, OneTime, Enabled
<1>2. ASSUME e2p' = e2p,
             \A i \in Slots \ {SleepSlot} : jobs'[i] = jobs[i] \/ ~Enabled(jobs'[i])
      PROVE  ApartOK'
  <2>1. TablesApart(jobs', jobs') /\ TablesApart(jobs', e2p) BY <1>2, ErasedApart DEF ApartOK
  <2> QED BY <1>2, <2>1 DEF ApartOK, TablesApart, OneTime, Enabled, Apart, JobEnd
<1>3. ASSUME jobs' = jobs, e2p' = jobs PROVE ApartOK'
  BY <1>3 DEF ApartOK, TablesApart, OneTime, Enabled, Apart, JobEnd
<1>4. CASE \/ ClockChange \/ LoadArgument \/ (\E n \in Notifiers : NotifierStep(n))
           \/ Receive \/ UNCHANGED vars
  BY <1>1, <1>4 DEF ClockChange, LoadArgument, NotifierStep, Callback, NobodyToCall, Send,
                   Receive, vars, tableVars
<1>5. CASE \/ ReadMjd \/ TaskLock \/ WriteHead \/ EvalCandidate \/ EvalSlot \/ Notify \/ Report
           \/ CheckNew \/ OverlayNew \/ OverlayOld \/ Leave \/ Ask \/ ResetHead
  BY <1>1, <1>5 DEF ReadMjd, TaskLock, WriteHead, EvalCandidate, EvalSlot, Notify, Report,
                   CheckNew, OverlayNew, OverlayOld, Leave, Ask, ResetHead, tableVars
<1>6. CASE ExpireSlot \/ CleanSleep
  <2>1. \A i \in Slots : jobs'[i] = jobs[i] \/ jobs'[i] = Cleared
    BY <1>6 DEF ExpireSlot, CleanSleep, TypeOK
  <2>2. e2p' = e2p BY <1>6 DEF ExpireSlot, CleanSleep
  <2> QED BY <1>2, <2>1, <2>2, ClearedType
<1>7. CASE WriteBody \/ ResetBody
  BY <1>3, <1>7 DEF WriteBody, ResetBody
<1>8. CASE Reset
  <2>1. \A i \in Slots : jobs'[i] = Cleared BY <1>8 DEF Reset
  <2> QED BY <1>2, <1>8, <2>1, ClearedType DEF Reset
<1>9. CASE Load
  <2>1. CASE e2pHead
    BY <1>9, <2>1 DEF Load, ApartOK, TablesApart, OneTime, Enabled, Apart, JobEnd
  <2>2. CASE ~e2pHead
    <3>1. \A i \in Slots : jobs'[i] = Cleared BY <1>9, <2>2 DEF Load
    <3> QED BY <1>2, <1>9, <3>1, ClearedType DEF Load
  <2> QED BY <2>1, <2>2
<1>10. CASE Store
  \* The one step that adds a job: it passed the comparison with every slot,
  \* and the EEPROM then holds the slots it was compared with.
  <2> DEFINE NS == Slots \ {SleepSlot}
             r  == req.idx
  <2>1. /\ jobs' = [jobs EXCEPT ![r] = req.job] /\ e2p' = e2p /\ phase = "store"
        /\ r \in Slots
    BY <1>10 DEF Store, TypeOK
  <2>2. ~Saving BY <2>1 DEF Saving, ControlOK
  <2>3. ASSUME NEW k \in NS PROVE e2p[k] = jobs[k] \/ ~Enabled(e2p[k])
    BY <2>2, ClearedType DEF EepromOK
  <2>4. \A k \in Slots : k # r => jobs'[k] = jobs[k] BY <2>1 DEF TypeOK
  <2>5. jobs'[r] = req.job BY <2>1 DEF TypeOK
  <2>6. CASE ~Enabled(req.job)
    <3>1. \A k \in NS : jobs'[k] = jobs[k] \/ ~Enabled(jobs'[k]) BY <2>4, <2>5, <2>6
    <3> QED BY <1>2, <2>1, <3>1
  <2>7. CASE req.job.cycle # "once" /\ Enabled(req.job)
    <3>1. TablesApart(jobs', jobs')
      BY <2>4, <2>5, <2>7 DEF ApartOK, TablesApart, OneTime
    <3>2. TablesApart(jobs', e2p)
      BY <2>4, <2>5, <2>7 DEF ApartOK, TablesApart, OneTime
    <3> QED BY <2>1, <3>1, <3>2 DEF ApartOK, TablesApart, OneTime, Enabled, Apart, JobEnd
  <2>8. CASE req.job.cycle = "once" /\ Enabled(req.job)
    <3>1. ASSUME NEW k \in OneTime(jobs), k # r PROVE Apart(req.job, jobs[k])
      <4>1. idx = NJobs /\ Passed(NJobs) BY <2>1, <2>8 DEF LoopOK
      <4> QED BY <3>1, <4>1 DEF Passed, OneTime, Slots
    <3>2. TablesApart(jobs', jobs')
      <4> SUFFICES ASSUME NEW i \in NS, NEW j \in NS, i # j,
                          i \in OneTime(jobs'), j \in OneTime(jobs')
                   PROVE  Apart(jobs'[i], jobs'[j])
        BY DEF TablesApart
      <4>1. CASE i = r
        <5>1. j \in OneTime(jobs) /\ jobs'[j] = jobs[j] BY <2>4, <4>1 DEF OneTime
        <5> QED BY <2>5, <3>1, <4>1, <5>1
      <4>2. CASE j = r
        <5>1. i \in OneTime(jobs) /\ jobs'[i] = jobs[i] BY <2>4, <4>2 DEF OneTime
        <5> QED BY <2>5, <3>1, <4>2, <5>1, ApartSymmetric
      <4>3. CASE i # r /\ j # r
        BY <2>4, <4>3 DEF ApartOK, TablesApart, OneTime
      <4> QED BY <4>1, <4>2, <4>3
    <3>3. TablesApart(jobs', e2p)
      <4> SUFFICES ASSUME NEW i \in NS, NEW j \in NS, i # j,
                          i \in OneTime(jobs'), j \in OneTime(e2p)
                   PROVE  Apart(jobs'[i], e2p[j])
        BY DEF TablesApart
      <4>1. CASE i = r
        <5>1. e2p[j] = jobs[j] /\ j \in OneTime(jobs) BY <2>3 DEF OneTime
        <5> QED BY <2>5, <3>1, <4>1, <5>1
      <4>2. CASE i # r
        BY <2>4, <4>2 DEF ApartOK, TablesApart, OneTime
      <4> QED BY <4>1, <4>2
    <3> QED BY <2>1, <3>2, <3>3 DEF ApartOK, TablesApart, OneTime, Enabled, Apart, JobEnd
  <2> QED BY <2>6, <2>7, <2>8
<1>11. CASE PowerFail
  \* A torn write of the body leaves a mix of two tables that are apart.
  <2>1. PICK k \in 0 .. NJobs : e2p' = [i \in Slots |-> IF i < k THEN jobs[i] ELSE e2p[i]]
    BY <1>11 DEF PowerFail
  <2>2. \A i \in Slots : ~Enabled(jobs'[i]) BY <1>11, ClearedType DEF PowerFail
  <2>3. \A i \in Slots : e2p'[i] = jobs[i] \/ e2p'[i] = e2p[i] BY <2>1
  <2>4. TablesApart(e2p', e2p')
    <3> SUFFICES ASSUME NEW i \in Slots \ {SleepSlot}, NEW j \in Slots \ {SleepSlot}, i # j,
                        i \in OneTime(e2p'), j \in OneTime(e2p')
                 PROVE  Apart(e2p'[i], e2p'[j])
      BY DEF TablesApart
    <3>1. \/ e2p'[i] = jobs[i] /\ i \in OneTime(jobs)
          \/ e2p'[i] = e2p[i] /\ i \in OneTime(e2p)
      BY <2>3 DEF OneTime
    <3>2. \/ e2p'[j] = jobs[j] /\ j \in OneTime(jobs)
          \/ e2p'[j] = e2p[j] /\ j \in OneTime(e2p)
      BY <2>3 DEF OneTime
    <3> QED BY <3>1, <3>2, ApartSwap DEF ApartOK, TablesApart
  <2>5. TablesApart(jobs', jobs') /\ TablesApart(jobs', e2p')
    BY <2>2 DEF TablesApart, OneTime
  <2> QED BY <2>4, <2>5 DEF ApartOK, TablesApart, OneTime, Enabled, Apart, JobEnd
<1> QED BY <1>4, <1>5, <1>6, <1>7, <1>8, <1>9, <1>10, <1>11 DEF Next, HolderStep, UiStep
-----------------------------------------------------------------------------
\* The strengthened invariant holds initially.
LEMMA InitIInv == Init => IInv
<1> SUFFICES ASSUME Init PROVE IInv
  OBVIOUS
<1>1. TypeOK /\ ControlOK BY InitTypeOK
<1>2. EepromOK BY DEF Init, EepromOK, Saving
<1>3. \A i \in Slots : ~Enabled(jobs[i]) /\ ~Enabled(e2p[i]) BY ClearedType DEF Init
<1>4. ApartOK BY <1>3 DEF ApartOK, TablesApart, OneTime
<1>5. LoopOK BY DEF Init, LoopOK
<1> QED BY <1>1, <1>2, <1>4, <1>5 DEF IInv

\* The strengthening is inductive.
THEOREM Inductive == Spec => []IInv
<1>1. Init => IInv BY InitIInv
<1>2. IInv /\ [Next]_vars => IInv'
  BY TypeStep, ControlStep, EepromStep, LoopStep, ApartStep DEF IInv
<1> QED BY <1>1, <1>2, PTL DEF Spec

\* Two one-time jobs never overlap, whatever the user saves, clears or resets,
\* whatever the timer task expires, however the clock moves, and whichever
\* write of the table the power failure interrupts.
THEOREM NeverOverlap == Spec => []NoOverlap
<1>1. IInv => NoOverlap BY DEF IInv, ApartOK, TablesApart, NoOverlap
<1> QED BY <1>1, Inductive, PTL

\* Once a save has completed, the EEPROM holds the table whenever no thread is
\* about to write it: a power failure then loses no job.
THEOREM EepromMirrors == Spec => []Mirror
<1>1. IInv => Mirror BY DEF IInv, EepromOK, ControlOK, Saving, Mirror, Quiet
<1> QED BY <1>1, Inductive, PTL
-----------------------------------------------------------------------------
(* What the timer task, the user and a power failure leave of the table.     *)

\* A date and a time of the day give the time they were taken from.
LEMMA DivModIdentity ==
    ASSUME NEW a \in Nat, NEW b \in Nat \ {0}
    PROVE  (a \div b) * b + (a % b) = a /\ a % b < b
BY SMT

\* The date of the clock is not after it, and its time of the day less than a day.
LEMMA DateOf ==
    ASSUME ClockTypeOK
    PROVE  /\ MjdOf(local) \in Nat /\ UtcOf(local) \in Nat /\ UtcOf(local) < DayLen
           /\ MjdOf(local) * DayLen \in Nat /\ MjdOf(local) * DayLen <= local
           /\ MjdOf(local) * DayLen + UtcOf(local) = local
<1>1. MjdOf(local) \in Nat /\ UtcOf(local) \in Nat /\ local \in Nat
  BY ClockReads DEF ClockTypeOK
<1>2. MjdOf(local) * DayLen + UtcOf(local) = local /\ UtcOf(local) < DayLen
  BY DivModIdentity DEF MjdOf, UtcOf, ClockTypeOK
<1>3. MjdOf(local) * DayLen \in Nat
  BY <1>1, TimesNat
<1> QED BY <1>1, <1>2, <1>3

\* The highest time shown so far is never below the clock, nor below a date read.
LEMMA PeakStep ==
    ASSUME TypeOK, PeakOK, [Next]_vars
    PROVE  PeakOK'
<1>1. CASE ClockChange
  <2>1. local' \in Int
    BY <1>1, NotifierTypes DEF ClockChange, AdvanceTime, SetTime, ChangeTime, TypeOK, ClockTypeOK
  <2>2. mjd' = mjd /\ local' <= peak' /\ peak <= peak' /\ peak' \in Int
    BY <1>1, <2>1 DEF ClockChange, workVars, TypeOK
  <2>3. mjd # NoHalf => mjd * DayLen \in Int
    BY SMT DEF TypeOK, Half
  <2> QED BY <2>2, <2>3 DEF PeakOK, TypeOK
<1>2. CASE PowerFail
  BY <1>2 DEF PowerFail, PeakOK
<1>3. ASSUME UNCHANGED <<local, peak>>, mjd' = mjd \/ mjd' = NoHalf PROVE PeakOK'
  BY <1>3 DEF PeakOK
<1>4. CASE LoadArgument \/ (\E n \in Notifiers : NotifierStep(n)) \/ UNCHANGED vars
  BY <1>3, <1>4 DEF LoadArgument, LoadHalf, NotifierStep, Callback, NobodyToCall, Send, Return,
                   vars, clockVars, histVars, workVars
<1>5. CASE Receive \/ TaskLock \/ Ask \/ Reset \/ UiStep
  BY <1>3, <1>5
     DEF Receive, TaskLock, UiStep, Ask, Reset, ResetHead, ResetBody, clockVars, histVars, workVars
<1>6. CASE HolderStep /\ ~ReadMjd
  BY <1>3, <1>6
     DEF HolderStep, ExpireSlot, WriteHead, WriteBody, EvalCandidate, EvalSlot, Notify, Report,
         Load, CleanSleep, CheckNew, OverlayNew, OverlayOld, Store, Leave, Release,
         clockVars, histVars
<1>7. CASE ReadMjd
  <2>1. mjd' = MjdOf(local) /\ UNCHANGED <<local, peak>>
    BY <1>7 DEF ReadMjd, clockVars, histVars
  <2>2. MjdOf(local) * DayLen <= local /\ MjdOf(local) * DayLen \in Nat
    BY DateOf DEF TypeOK
  <2>3. mjd' * DayLen' = MjdOf(local) * DayLen
    BY <2>1
  <2> QED BY <2>1, <2>2, <2>3 DEF PeakOK, TypeOK, ClockTypeOK
<1> QED BY <1>1, <1>2, <1>4, <1>5, <1>6, <1>7 DEF Next

\* Every enabled slot is in the EEPROM before a power failure can clear it.
LEMMA SavedStep ==
    ASSUME IInv, SavedOK, [Next]_vars
    PROVE  SavedOK'
<1> DEFINE NS == Slots \ {SleepSlot}
<1>0. TypeOK /\ ControlOK /\ EepromOK
  BY DEF IInv
<1> SUFFICES ASSUME phase' # "load", NEW i \in NS, Enabled(jobs'[i])
             PROVE  \/ e2pHead' /\ e2p'[i] = jobs'[i]
                    \/ i = req'.idx /\ who' = "ui" /\ phase' \in {"head", "body"}
  BY DEF SavedOK, Enabled
<1> DEFINE Safe == \/ e2pHead /\ e2p[i] = jobs[i]
                   \/ i = req.idx /\ who = "ui" /\ phase \in {"head", "body"}
<1>1. phase # "load" /\ Enabled(jobs[i]) => Safe
  BY DEF SavedOK
<1>2. CASE \/ ClockChange \/ LoadArgument \/ (\E n \in Notifiers : NotifierStep(n))
           \/ Receive \/ UNCHANGED vars
  <2>1. UNCHANGED <<jobs, e2p, e2pHead, req, who, phase>>
    BY <1>2 DEF ClockChange, LoadArgument, NotifierStep, Callback, NobodyToCall, Send, Receive,
                vars, tableVars, workVars, uiVars
  <2> QED BY <1>1, <2>1
<1>3. ASSUME UNCHANGED <<jobs, e2p, e2pHead>>, phase \notin {"load", "head", "body"}
      PROVE  e2pHead' /\ e2p'[i] = jobs'[i]
  BY <1>1, <1>3
<1>4. CASE ReadMjd
  <2>1. UNCHANGED <<jobs, e2p, e2pHead, req, who, phase>>
    BY <1>4 DEF ReadMjd, tableVars, uiVars
  <2> QED BY <1>1, <2>1
<1>5. CASE TaskLock \/ Ask
  <2>1. phase = "none"
    BY <1>0, <1>5 DEF TaskLock, Ask, ControlOK
  <2> QED BY <1>3, <1>5, <2>1 DEF TaskLock, Ask, tableVars
<1>6. CASE ExpireSlot
  <2>1. phase = "expire" /\ jobs'[i] = jobs[i] /\ UNCHANGED <<e2p, e2pHead>>
    <3>1. Enabled(jobs'[i]) => jobs'[i] = jobs[i]
      BY <1>0, <1>6, ClearedType DEF ExpireSlot, TypeOK
    <3> QED BY <1>6, <3>1 DEF ExpireSlot
  <2> QED BY <1>1, <2>1
<1>7. CASE WriteHead
  BY <1>1, <1>7 DEF WriteHead, uiVars
<1>8. CASE WriteBody
  BY <1>0, <1>8 DEF WriteBody, EepromOK
<1>9. CASE EvalCandidate \/ EvalSlot \/ Notify \/ Report \/ CheckNew \/ OverlayNew \/ OverlayOld \/ Leave
  <2>1. UNCHANGED <<jobs, e2p, e2pHead>> /\ phase \notin {"load", "head", "body"}
    BY <1>9 DEF EvalCandidate, EvalSlot, Notify, Report, CheckNew, OverlayNew, OverlayOld, Leave,
                tableVars
  <2> QED BY <1>3, <2>1
<1>10. CASE Load
  <2>1. CASE e2pHead
    BY <1>10, <2>1 DEF Load
  <2>2. CASE ~e2pHead
    BY <1>10, <2>2, ClearedType DEF Load
  <2> QED BY <2>1, <2>2
<1>11. CASE CleanSleep
  <2>1. jobs'[i] = jobs[i] /\ UNCHANGED <<e2p, e2pHead>> /\ phase = "clean"
    BY <1>0, <1>11 DEF CleanSleep, TypeOK
  <2> QED BY <1>1, <2>1
<1>12. CASE Store
  <2>1. /\ phase = "store" /\ who = "ui" /\ phase' = "head"
        /\ UNCHANGED <<who, req, e2p, e2pHead>>
    BY <1>0, <1>12 DEF Store, ControlOK, uiVars
  <2>2. i # req.idx => jobs'[i] = jobs[i]
    BY <1>0, <1>12 DEF Store, TypeOK
  <2> QED BY <1>1, <2>1, <2>2
<1>13. CASE Reset
  BY <1>13, ClearedType DEF Reset
<1>14. CASE ResetHead
  BY <1>1, <1>14 DEF ResetHead, workVars
<1>15. CASE ResetBody
  BY <1>0, <1>15 DEF ResetBody, EepromOK
<1>16. CASE PowerFail
  BY <1>16 DEF PowerFail
<1> QED BY <1>2, <1>4, <1>5, <1>6, <1>7, <1>8, <1>9, <1>10, <1>11, <1>12, <1>13, <1>14, <1>15, <1>16
        DEF Next, HolderStep, UiStep

\* A time whose date is an earlier one is before the clock; whatever is expired is
\* not later than the latest time shown, or within a day of it.
LEMMA ExpiredBounds ==
    ASSUME TypeOK, PeakOK, NEW job \in Jobs, Enabled(job), ClockRead,
           phase = "expire", jobs[idx] = job, Expired(job, Now)
    PROVE  \/ JobEnd(job) <= peak
           \/ mjd > MjdOf(local) /\ JobEnd(job) < peak + DayLen
<1>1. /\ MjdOf(local) \in Int /\ UtcOf(local) \in Int /\ UtcOf(local) < DayLen
      /\ MjdOf(local) * DayLen + UtcOf(local) = local /\ MjdOf(local) * DayLen \in Int
      /\ local \in Int /\ peak \in Int /\ local <= peak
  BY DateOf DEF TypeOK, ClockTypeOK, PeakOK
<1>2. mjd # NoHalf /\ mjd \in Int
  BY DEF ClockRead, Subject, TypeOK, Half
<1>3. JobEnd(job) \in Int /\ JobEnd(job) <= mjd * DayLen + UtcOf(local)
  BY JobEndNat DEF Expired, Now, TimeOf
<1>4. mjd * DayLen \in Int /\ mjd * DayLen <= peak
  BY <1>2, SMT DEF PeakOK
<1>5. CASE mjd > MjdOf(local)
  BY <1>1, <1>3, <1>4, <1>5
<1>6. CASE ~(mjd > MjdOf(local))
  <2>1. mjd * DayLen <= MjdOf(local) * DayLen
    <3> DEFINE m == MjdOf(local)
    <3>1. m \in Int /\ mjd <= m BY <1>1, <1>2, <1>6
    <3> HIDE DEF m
    <3>2. DayLen \in Nat /\ m - mjd \in Nat BY <1>2, <3>1
    <3>3. (m - mjd) * DayLen \in Nat BY <3>2, TimesNat
    <3>4. (m - mjd) * DayLen = m * DayLen - mjd * DayLen BY <1>2, <3>1, <3>2, SMT
    <3>5. m * DayLen \in Int BY <1>1 DEF m
    <3>6. mjd * DayLen <= m * DayLen BY <1>4, <3>3, <3>4, <3>5
    <3> QED BY <3>6 DEF m
  <2> QED BY <1>1, <1>3, <1>4, <2>1
<1> QED BY <1>5, <1>6

\* What a step does to a job that is ahead.
LEMMA KeepsStep ==
    ASSUME IInv, PeakOK, SavedOK, [Next]_vars, NEW i \in FutureJobs
    PROVE  \/ Known(i)' = Known(i)
           \/ i = req.idx /\ who = "ui" /\ phase \in {"store", "head", "body"}
           \/ Reset
           \/ /\ phase = "expire" /\ i = idx /\ mjd > MjdOf(local)
              /\ JobEnd(Known(i)) < peak + DayLen
<1>0. TypeOK /\ ControlOK /\ EepromOK /\ i \in Slots \ {SleepSlot} /\ i \in Slots
  BY DEF IInv, FutureJobs
<1>1. Enabled(Known(i)) /\ JobEnd(Known(i)) > peak
  BY DEF FutureJobs
<1>2. phase # "load" => Known(i) = jobs[i]
  BY DEF Known
<1>3. phase = "load" => e2pHead /\ Known(i) = e2p[i]
  BY <1>1, ClearedType DEF Known
<1>4. phase # "load" =>
        \/ e2pHead /\ e2p[i] = jobs[i]
        \/ i = req.idx /\ who = "ui" /\ phase \in {"head", "body"}
  BY <1>0, <1>1, <1>2 DEF SavedOK
<1>5. ASSUME jobs'[i] = jobs[i], phase # "load", phase' # "load" PROVE Known(i)' = Known(i)
  BY <1>2, <1>5 DEF Known
<1>6. CASE PowerFail
  <2>1. PICK k \in 0 .. NJobs :
          /\ k > 0 => phase = "body" \/ upc = "body"
          /\ e2p' = [j \in Slots |-> IF j < k THEN jobs[j] ELSE e2p[j]]
    BY <1>6 DEF PowerFail
  <2>2. phase' = "load" /\ e2pHead' = e2pHead
    BY <1>6 DEF PowerFail
  <2>3. e2p'[i] = IF i < k THEN jobs[i] ELSE e2p[i]
    BY <1>0, <2>1
  <2>4. CASE phase = "load"
    <3>1. k = 0 BY <1>0, <2>1, <2>4 DEF ControlOK
    <3>2. ~(i < k) BY <1>0, <3>1 DEF Slots
    <3>3. e2p'[i] = e2p[i] BY <2>3, <3>2
    <3> QED BY <1>3, <2>2, <2>4, <3>3 DEF Known
  <2>5. CASE phase # "load" /\ e2pHead /\ e2p[i] = jobs[i]
    <3>1. e2p'[i] = jobs[i] BY <2>3, <2>5
    <3> QED BY <1>2, <2>2, <2>5, <3>1 DEF Known
  <2> QED BY <1>4, <2>4, <2>5
<1>7. CASE Load
  <2>1. phase = "load" /\ e2pHead /\ jobs' = e2p
    BY <1>3, <1>7 DEF Load
  <2>2. phase' # "load"
    BY <1>7, <2>1, NextExpireTypes DEF Load
  <2> QED BY <1>3, <2>1, <2>2 DEF Known
<1>8. CASE ExpireSlot
  <2>1. phase = "expire" /\ phase' # "load" /\ ClockRead /\ idx \in Slots
    BY <1>0, <1>8, NextExpireTypes DEF ExpireSlot, ControlOK
  <2>2. CASE i = idx /\ Expired(jobs[i], Now)
    <3>1. jobs[i] \in Jobs /\ Known(i) = jobs[i] /\ peak \in Int
      BY <1>0, <1>2, <2>1 DEF TypeOK
    <3>2. \/ JobEnd(jobs[i]) <= peak
          \/ mjd > MjdOf(local) /\ JobEnd(jobs[i]) < peak + DayLen
      BY <1>0, <1>1, <2>1, <2>2, <3>1, ExpiredBounds
    <3>3. JobEnd(jobs[i]) \in Int
      BY <3>1, JobEndNat
    <3> QED BY <1>1, <2>1, <2>2, <3>1, <3>2, <3>3
  <2>3. CASE ~(i = idx /\ Expired(jobs[i], Now))
    <3>1. jobs'[i] = jobs[i]
      BY <1>0, <1>8, <2>3 DEF ExpireSlot, TypeOK
    <3> QED BY <1>5, <2>1, <3>1
  <2> QED BY <2>2, <2>3
<1>9. CASE Store
  <2>1. phase = "store" /\ who = "ui" /\ phase' = "head"
    BY <1>0, <1>9 DEF Store, ControlOK
  <2>2. i # req.idx => jobs'[i] = jobs[i]
    BY <1>0, <1>9 DEF Store, TypeOK
  <2> QED BY <1>5, <2>1, <2>2
<1>10. CASE CleanSleep
  <2>1. jobs'[i] = jobs[i] /\ phase = "clean" /\ phase' = "none"
    BY <1>0, <1>10 DEF CleanSleep, TypeOK, Release
  <2> QED BY <1>5, <2>1
<1>11. ASSUME UNCHANGED <<jobs, e2p, e2pHead, phase>> PROVE Known(i)' = Known(i)
  BY <1>11 DEF Known
<1>12. CASE \/ ClockChange \/ LoadArgument \/ (\E n \in Notifiers : NotifierStep(n))
            \/ Receive \/ UNCHANGED vars \/ ReadMjd
  BY <1>11, <1>12 DEF ClockChange, LoadArgument, NotifierStep, Callback, NobodyToCall, Send,
     Receive, ReadMjd, vars, tableVars, workVars
<1>13. CASE TaskLock \/ Ask
  <2>1. phase = "none" /\ phase' # "load" /\ jobs' = jobs
    BY <1>0, <1>13, NextExpireTypes DEF TaskLock, Ask, ControlOK, tableVars
  <2> QED BY <1>5, <2>1
<1>14. CASE WriteHead \/ WriteBody \/ EvalCandidate \/ Notify \/ Report \/ OverlayNew \/ Leave
  <2>1. phase # "load" /\ phase' # "load" /\ jobs' = jobs
    BY <1>14 DEF WriteHead, WriteBody, EvalCandidate, Notify, Report, OverlayNew, Leave, Release,
       tableVars
  <2> QED BY <1>5, <2>1
<1>15. CASE EvalSlot
  <2>1. phase # "load" /\ phase' # "load" /\ jobs' = jobs
    BY <1>15 DEF EvalSlot, AfterRecent
  <2> QED BY <1>5, <2>1
<1>16. CASE CheckNew \/ OverlayOld
  <2>1. phase # "load" /\ phase' # "load" /\ jobs' = jobs
    BY <1>16, NextOverlayTypes DEF CheckNew, OverlayOld, tableVars
  <2> QED BY <1>5, <2>1
<1>17. CASE ResetHead \/ ResetBody
  <2>1. phase' = phase /\ jobs' = jobs /\ phase # "load"
    BY <1>0, <1>17 DEF ResetHead, ResetBody, ControlOK, workVars
  <2> QED BY <1>5, <2>1
<1> QED BY <1>6, <1>7, <1>8, <1>9, <1>10, <1>12, <1>13, <1>14, <1>15, <1>16, <1>17
        DEF Next, HolderStep, UiStep

\* A one-time job that is still ahead of every time the box has shown survives what
\* the others save, what expires, and the power failing between any two slots of a
\* write; the torn reading of the clock costs at most a job of the next 24 hours.
THEOREM FutureJobsKept == Spec => KeepsFutureJobs
<1> DEFINE Inv == PeakOK /\ SavedOK
<1>1. Init => Inv
  BY DEF Init, ClockInit, PeakOK, SavedOK
<1>2. IInv /\ Inv /\ [Next]_vars => Inv'
  BY PeakStep, SavedStep DEF IInv
<1>3. IInv /\ Inv /\ [Next]_vars =>
        [\A i \in FutureJobs :
           \/ Known(i)' = Known(i)
           \/ i = req.idx /\ who = "ui" /\ phase \in {"store", "head", "body"}
           \/ Reset
           \/ /\ phase = "expire" /\ i = idx /\ mjd > MjdOf(local)
              /\ JobEnd(Known(i)) < peak + DayLen]_vars
  BY KeepsStep
<1> QED BY <1>1, <1>2, <1>3, Inductive, PTL DEF Spec, KeepsFutureJobs
-----------------------------------------------------------------------------
(* How long the semaphore is held.                                           *)

\* The same, a phase at a time.
StepsKnown ==
    LET slots == NJobs - idx
        reads == IF mjd = NoHalf THEN 1 ELSE 0
    IN  /\ phase = "none" => StepsLeft = 0
        /\ phase \in {"leave", "notify", "clean"} => StepsLeft = 1
        /\ phase = "report"  => StepsLeft = 2
        /\ phase = "recB"    => StepsLeft = 4 * slots + reads - 1
        /\ phase = "recA"    => StepsLeft = 4 * slots + reads + 1
        /\ phase = "body"    => StepsLeft = 4 * NJobs + 1
        /\ phase = "head"    => StepsLeft = 4 * NJobs + 2
        /\ phase = "store"   => StepsLeft = 4 * NJobs + 3
        /\ phase = "expire"  => StepsLeft = 4 * NJobs + 2 + 2 * slots + reads
        /\ phase = "load"    => StepsLeft = 6 * NJobs + 4
        /\ phase = "overOld" => StepsLeft = 4 * NJobs + 4 * slots + reads + 1
        /\ phase = "overNew" => StepsLeft = 4 * NJobs + 4 * slots + reads + 3
        /\ phase = "valid"   => StepsLeft = 8 * NJobs + reads + 5

\* The case distinction is that one.
LEMMA StepsLeftIs == StepsKnown /\ StepsKnown'
<1>1. StepsKnown BY Zenon DEF StepsKnown, StepsLeft
<1>2. StepsKnown' BY Zenon DEF StepsKnown, StepsLeft
<1> QED BY <1>1, <1>2

\* What is left is bounded, and nothing exactly when nobody holds the semaphore.
StepsBounded ==
    /\ StepsLeft \in Int /\ 0 <= StepsLeft /\ StepsLeft <= 8 * NJobs + 6
    /\ StepsLeft = 0 <=> who = "none"

\* A save compares every slot twice and reads the clock for each.
LEMMA StepsLeftBounds == TypeOK /\ ControlOK => StepsBounded
<1> SUFFICES ASSUME TypeOK, ControlOK PROVE StepsBounded
  OBVIOUS
<1> DEFINE reads == IF mjd = NoHalf THEN 1 ELSE 0
<1>1. NJobs \in Int /\ NJobs > 1 /\ idx \in Int /\ 0 <= idx /\ reads \in {0, 1}
  BY DEF TypeOK, Loop
<1>2. phase \in {"expire", "recA", "recB", "overNew", "overOld"} => idx <= NJobs - 1
  BY DEF ControlOK, Slots
<1> QED BY <1>1, <1>2, StepsLeftIs, SMTT(30) DEF StepsKnown, StepsBounded, ControlOK, TypeOK, Phases

\* The holder's steps one by one.
LEMMA HolderStepsDown ==
    ASSUME TypeOK, ControlOK, TypeOK', ControlOK', HolderStep
    PROVE  \/ who' = "none"
           \/ who' = who /\ who # "none" /\ StepsLeft' < StepsLeft
<1> DEFINE slots == NJobs - idx
           reads == IF mjd = NoHalf THEN 1 ELSE 0
<1>1. /\ NJobs \in Int /\ NJobs > 1 /\ idx \in Int /\ idx' \in Int
      /\ reads \in {0, 1} /\ reads' \in {0, 1}
  BY DEF TypeOK, Loop
<1>2. ASSUME phase # "none" PROVE who # "none"
  BY <1>2 DEF ControlOK
<1>3. CASE ReadMjd
  <2>1. reads = 1 /\ reads' = 0 /\ UNCHANGED <<who, phase, idx>>
    BY <1>3, ClockReads DEF ReadMjd, TypeOK, NoHalf
  <2>2. phase \in {"expire", "recA", "recB", "overNew", "overOld", "valid"}
    BY <1>3, ClearedType DEF ReadMjd, Subject
  <2> QED BY <1>1, <1>2, <2>1, <2>2, StepsLeftIs DEF StepsKnown
<1>4. CASE ExpireSlot
  <2>1. phase = "expire" /\ who' = who /\ idx \in Slots
    BY <1>4 DEF ExpireSlot, ControlOK
  <2>2. \/ phase' = "head"
        \/ phase' = "expire" /\ idx' >= idx + 1
    BY <1>4 DEF ExpireSlot, NextExpire, NextSlot
  <2> QED BY <1>1, <1>2, <2>1, <2>2, StepsLeftIs DEF StepsKnown, Slots
<1>5. CASE WriteHead \/ WriteBody \/ Store
  <2>1. CASE WriteHead
    BY <1>1, <1>2, <2>1, StepsLeftIs DEF StepsKnown, WriteHead
  <2>2. CASE WriteBody
    BY <1>1, <1>2, <2>2, StepsLeftIs DEF StepsKnown, WriteBody
  <2>3. CASE Store
    BY <1>1, <1>2, <2>3, StepsLeftIs DEF StepsKnown, Store
  <2> QED BY <1>5, <2>1, <2>2, <2>3
<1>6. CASE EvalCandidate
  <2>1. phase = "recA" /\ phase' = "recB" /\ UNCHANGED <<who, idx>>
    BY <1>6 DEF EvalCandidate
  <2> QED BY <1>1, <1>2, <2>1, StepsLeftIs DEF StepsKnown
<1>7. CASE EvalSlot
  <2>1. phase = "recB" /\ who' = who /\ idx \in Slots
    BY <1>7 DEF EvalSlot, ControlOK
  <2>2. \/ phase' \in {"report", "leave", "clean"}
        \/ phase' = "recA" /\ idx' = idx + 1
    BY <1>7 DEF EvalSlot, AfterRecent
  <2> QED BY <1>1, <1>2, <2>1, <2>2, StepsLeftIs DEF StepsKnown, Slots
<1>8. CASE Load
  <2>1. CASE e2pHead
    <3>1. phase = "load" /\ who' = who
      BY <1>8, <2>1 DEF Load
    <3>2. \/ phase' = "head"
          \/ phase' = "expire" /\ idx' >= 0
      BY <1>8, <2>1 DEF Load, NextExpire, NextSlot
    <3> QED BY <1>1, <1>2, <3>1, <3>2, StepsLeftIs DEF StepsKnown
  <2>2. CASE ~e2pHead
    BY <1>8, <2>2 DEF Load, Release
  <2> QED BY <2>1, <2>2
<1>9. CASE Notify \/ Report \/ CleanSleep \/ Leave
  <2>1. CASE Notify
    BY <1>1, <1>2, <2>1, StepsLeftIs DEF StepsKnown, Notify
  <2> QED BY <1>9, <2>1 DEF Report, CleanSleep, Leave, Release
<1>10. ASSUME NEW from \in Int, NextOverlay(from)
       PROVE  \/ phase' = "store"
              \/ phase' = "overNew" /\ idx' >= from
  BY <1>10 DEF NextOverlay, NextSlot
<1>11. CASE CheckNew
  <2>1. phase = "valid" /\ who' = who
    BY <1>11 DEF CheckNew
  <2>2. phase' = "leave" \/ phase' = "store" \/ (phase' = "overNew" /\ idx' >= 0)
    BY <1>10, <1>11 DEF CheckNew
  <2> QED BY <1>1, <1>2, <2>1, <2>2, StepsLeftIs DEF StepsKnown
<1>12. CASE OverlayNew
  <2>1. phase = "overNew" /\ UNCHANGED <<who, idx>> /\ idx \in Slots
    BY <1>12 DEF OverlayNew, ControlOK
  <2>2. phase' = "leave" \/ phase' = "overOld"
    BY <1>12 DEF OverlayNew
  <2> QED BY <1>1, <1>2, <2>1, <2>2, StepsLeftIs DEF StepsKnown, Slots
<1>13. CASE OverlayOld
  <2>1. phase = "overOld" /\ who' = who /\ idx \in Slots
    BY <1>13 DEF OverlayOld, ControlOK
  <2>2. phase' = "leave" \/ phase' = "store" \/ (phase' = "overNew" /\ idx' >= idx + 1)
    BY <1>1, <1>10, <1>13 DEF OverlayOld
  <2> QED BY <1>1, <1>2, <2>1, <2>2, StepsLeftIs DEF StepsKnown, Slots
<1> QED BY <1>3, <1>4, <1>5, <1>6, <1>7, <1>8, <1>9, <1>11, <1>12, <1>13 DEF HolderStep

\* No other thread changes what the holder has left, and none takes the semaphore
\* from it.
LEMMA OthersKeepSteps ==
    ASSUME who # "none", [Next]_vars, ~HolderStep, ~PowerFail
    PROVE  UNCHANGED <<who, StepsLeft>>
<1>1. UNCHANGED workVars
  BY DEF Next, ClockChange, LoadArgument, NotifierStep, Callback, NobodyToCall, Send, Receive,
         TaskLock, Ask, Reset, UiStep, ResetHead, ResetBody, vars
<1> QED BY <1>1 DEF workVars, StepsLeft

\* The semaphore of the timer is never kept for good: the safety half of
\* NotifyReturns and TaskReturns.
THEOREM SemaphoreReturned == Spec => HoldEnds
<1> DEFINE Inv == TypeOK /\ ControlOK
<1>1. Init => Inv
  BY InitTypeOK
<1>2. Inv /\ [Next]_vars => Inv'
  BY TypeStep, ControlStep
<1>3. Inv /\ [Next]_vars =>
        /\ StepsLeft' <= 8 * NJobs + 6
        /\ who # "none" /\ ~PowerFail =>
             \/ HolderStep /\ who' = "none"
             \/ HolderStep /\ who' = who /\ 0 < StepsLeft' /\ StepsLeft' < StepsLeft
             \/ ~HolderStep /\ UNCHANGED <<who, StepsLeft>>
  <2> SUFFICES ASSUME Inv, [Next]_vars
               PROVE  /\ StepsLeft' <= 8 * NJobs + 6
                      /\ who # "none" /\ ~PowerFail =>
                           \/ HolderStep /\ who' = "none"
                           \/ HolderStep /\ who' = who /\ 0 < StepsLeft' /\ StepsLeft' < StepsLeft
                           \/ ~HolderStep /\ UNCHANGED <<who, StepsLeft>>
    OBVIOUS
  <2>1. Inv' BY <1>2
  <2>2. StepsBounded'
    BY <2>1, StepsLeftBounds, PTL
  <2>3. ASSUME who # "none", HolderStep
        PROVE  \/ who' = "none"
               \/ who' = who /\ 0 < StepsLeft' /\ StepsLeft' < StepsLeft
    BY <2>1, <2>2, <2>3, HolderStepsDown DEF StepsBounded
  <2>4. ASSUME who # "none", ~HolderStep, ~PowerFail
        PROVE  UNCHANGED <<who, StepsLeft>>
    BY <2>4, OthersKeepSteps
  <2> QED BY <2>2, <2>3, <2>4 DEF StepsBounded
<1> QED BY <1>1, <1>2, <1>3, PTL DEF Spec, HoldEnds
=============================================================================
