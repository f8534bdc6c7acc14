-------------------------------- MODULE Timer --------------------------------
(***************************************************************************)
(* timer.c: the table of timer jobs, the job that is armed next, the       *)
(* message queue between the clock's notification and the timer task, and  *)
(* the copy of the table in the EEPROM.                                    *)
(*                                                                         *)
(* Three kinds of thread meet here.  A notifying thread (LocalClock) runs  *)
(* TIMER_DTUpdate_Callback for every change of the local time.  The timer  *)
(* task runs TIMER_EvtHandle.  The user interface saves, clears and resets *)
(* jobs.  At boot CS_TIMER_Init runs before any of them can interfere.     *)
(* The power can fail at any step.                                         *)
(*                                                                         *)
(* sem_Timer_Access admits one thread at a time to the loops below, so     *)
(* their local variables are one set of registers: who holds the           *)
(* semaphore, its phase, its loop index, ...  Every evaluation of a job    *)
(* reads the local date and then, in a second critical section of          *)
(* date_time.c, the local time; the clock may move in between.             *)
(***************************************************************************)
EXTENDS LocalClock, Sequences

CONSTANTS NJobs,         \* kCS_TIMER_MAX_NO_OF_JOB (9)
          DaysPerWeek,   \* 7
          QueueLen,      \* messages the queue of CS_TIMER_Init holds (20)
          JobInputs,     \* the enabled jobs the user interface submits
          GarbageTimes   \* what an uninitialised End_Time can hold

ASSUME TimerAssumption ==
    /\ NJobs \in Nat /\ NJobs > 1
    /\ DaysPerWeek \in Nat \ {0}
    /\ QueueLen \in Nat \ {0}
    /\ GarbageTimes \subseteq Nat

Slots     == 0 .. NJobs - 1
SleepSlot == NJobs - 1
Actions   == {"begin", "end"}

\* Begin_Time 0xffffffff: later than every packed date and time.
Never == DayLen * 65536

\* An erased job, as written in timer.c wherever a job is dropped.
Cleared == [status |-> "off", cycle |-> "once", type |-> "wakeup",
            begin |-> Never, dur |-> 0]

\* sCS_TIMER_Job before CS_TIMER_Init: static storage starts as zero.
ZeroJob == [Cleared EXCEPT !.begin = 0]

\* A slot of an EEPROM body that was never written: neither Enable nor Disable.
Junk == [Cleared EXCEPT !.status = "junk"]

Jobs == [status : {"on", "off", "junk"},
         cycle  : {"once", "daily", "weekly"},
         type   : {"wakeup", "sleep", "record", "duration"},
         begin  : Nat,
         dur    : Nat]

ASSUME JobInputAssumption ==
    /\ JobInputs \subseteq Jobs
    /\ \A j \in JobInputs : j.status = "on"

NoMsg == [kind |-> "none", idx |-> 0]
Msgs  == [kind : {"begin", "end", "manual"}, idx : Slots]
NoReq == [idx |-> 0, job |-> Cleared]
NoAct == [begin |-> Never, end |-> Never, action |-> "begin"]

VARIABLES
    jobs,      \* sCS_TIMER_Job
    recent,    \* TIMER_Recent_JobAction
    queue,     \* the messages in CS_TIMER_MsgQid
    pend,      \* per notifying thread, the message it is blocked sending
    who,       \* holder of sem_Timer_Access, or "boot" during CS_TIMER_Init
    phase,     \* where the holder is
    idx,       \* its loop index
    mjd,       \* the local date it has read, before it reads the local time
    cand,      \* RecentJobIndex of TIMER_UpdateRecentJobEvent
    act,       \* RecentJob_time, or JobA_time of TIMER_CheckTimeOverlay
    msg,       \* the message the timer task has received
    req,       \* the job and slot the user interface is saving
    upc,       \* where the user interface is
    e2pHead,   \* "TIME" stands at kCS_E2P_TIMER_BASE
    e2p,       \* the job table in the EEPROM
    peak,      \* history: the latest local time since boot
    moved,     \* history: the clock moved while a recent job was computed, or
               \* at boot before the callback was registered
    stale      \* history: slots cleared after the last such computation

tableVars == <<jobs, recent, e2pHead, e2p, stale>>
workVars  == <<who, phase, idx, mjd, cand, act>>
taskVars  == <<queue, pend, msg>>
uiVars    == <<req, upc>>
histVars  == <<peak, moved>>
vars == <<clockVars, tableVars, workVars, taskVars, uiVars, histVars>>
-----------------------------------------------------------------------------
(* The occurrence of a job that a local time selects.                      *)

Enabled(job) == job.status = "on"

\* Only a Duration job has an end of its own.
JobEnd(job) == IF job.type = "duration" THEN job.begin + job.dur ELSE job.begin

WeekDay(t) == MjdOf(t) % DaysPerWeek

\* The whole periods added until the end is not before now.
CatchUp(end, now, period) ==
    IF now > end THEN ((now - end + period - 1) \div period) * period ELSE 0

\* The days from the current weekday to the job's are added to the stored date.
WeekShift(job, now) ==
    DayLen * (IF WeekDay(now) > WeekDay(job.begin)
              THEN DaysPerWeek - (WeekDay(now) - WeekDay(job.begin))
              ELSE WeekDay(job.begin) - WeekDay(now))

Period(job) == IF job.cycle = "daily" THEN DayLen ELSE DaysPerWeek * DayLen

Shift(job, now) ==
    LET w == IF job.cycle = "weekly" THEN WeekShift(job, now) ELSE 0
    IN  IF job.cycle = "once" THEN 0 ELSE w + CatchUp(JobEnd(job) + w, now, Period(job))

\* TIMER_GetJobCurrentAction fails when the occurrence it selected is over.
HasAction(job, now) ==
    Enabled(job) /\ (\/ now < job.begin + Shift(job, now)
                     \/ now < JobEnd(job) + Shift(job, now))

\* What the caller's tTIMER_JobAction holds afterwards.  On failure the
\* caller sets Begin_Time; a field the function did not assign keeps what
\* the stack held.
ActionsOf(job, now) ==
    LET b == job.begin + Shift(job, now)
        e == JobEnd(job) + Shift(job, now)
    IN  IF HasAction(job, now)
        THEN {[begin |-> b, end |-> e, action |-> IF now < b THEN "begin" ELSE "end"]}
        ELSE [begin : {Never}, end : IF Enabled(job) THEN {e} ELSE GarbageTimes,
              action : Actions]

\* Fault: jobs that share one minute are accepted.
OverlayOpen(a, b) == ~(b.begin >= a.end \/ a.begin >= b.end)

\* TIMER_CheckTimeOverlay compares closed intervals.
Overlay(a, b) == ~(b.begin > a.end \/ a.begin > b.end)

\* Fault: the date is left out of the comparison.
ExpiredByMinute(job, now) ==
    Enabled(job) /\ job.cycle = "once" /\ UtcOf(JobEnd(job)) <= UtcOf(now)

\* TIMER_CheckJobValid fails for a one-time job that is over.
Expired(job, now) == Enabled(job) /\ job.cycle = "once" /\ JobEnd(job) <= now

\* Fault: the comparison is the wrong way round.
ReplacesLatest(comp, best) == best.begin < comp.begin

\* TIMER_UpdateRecentJobEvent prefers the slot it compares with.
Replaces(comp, best) == best.begin > comp.begin

\* A loop over the table that has reached slot `from` next works on slot i of
\* S, or has passed the last one.
Loop == 0 .. NJobs
NextSlot(i, from, S) ==
    /\ i >= from
    /\ i \in S \/ i = NJobs
    /\ \A k \in S : k >= from => k >= i

\* The slots that TIMER_UpdateJobList looks at the clock for.
OneTime(table) == {k \in Slots : Enabled(table[k]) /\ table[k].cycle = "once"}
-----------------------------------------------------------------------------
Init ==
    /\ ClockInit
    /\ jobs = [i \in Slots |-> ZeroJob]
    /\ recent = [idx |-> 0, begin |-> 0, end |-> 0, action |-> "begin"]
    /\ queue = <<>> /\ pend = [n \in Notifiers |-> NoMsg] /\ msg = NoMsg
    /\ who = "boot" /\ phase = "load" /\ idx = 0 /\ mjd = NoHalf
    /\ cand = 0 /\ act = NoAct
    /\ req = NoReq /\ upc = "idle"
    /\ e2pHead = FALSE /\ e2p = [i \in Slots |-> Junk]
    /\ peak = BootTime /\ moved = FALSE /\ stale = {}
-----------------------------------------------------------------------------
(* The threads that run TIMER_DTUpdate_Callback.                           *)

\* A change of the local time, by the idle task or by a setting.
ClockChange ==
    /\ AdvanceTime \/ \E n \in Notifiers : SetTime(n)
    /\ peak' = IF local' > peak THEN local' ELSE peak
    /\ moved' = (moved \/ phase \in {"recA", "recB", "clean"})
    /\ UNCHANGED <<tableVars, workVars, taskVars, uiVars>>

LoadArgument ==
    /\ \E n \in Notifiers : LoadHalf(n)
    /\ UNCHANGED <<tableVars, workVars, taskVars, uiVars, histVars>>

\* DT_Notify hands a client the event the client registered for.
CallbackEvent == "minute"

\* Fault: a running job's end is not looked at.
CallbackMsgBegin(t) ==
    IF t = recent.begin THEN [kind |-> recent.action, idx |-> recent.idx] ELSE NoMsg

\* The message the callback sends for the time it was called with.
CallbackMsg(t) ==
    LET due == IF recent.action = "begin" THEN recent.begin ELSE recent.end
    IN  IF t = due THEN [kind |-> recent.action, idx |-> recent.idx]
        ELSE IF CallbackEvent = "manual" THEN [kind |-> "manual", idx |-> 0]
        ELSE NoMsg

\* Fault: the semaphore is kept on the path that sends a message.
CallbackHolds(n) ==
    /\ npc[n] = "call" /\ pend[n] = NoMsg /\ who = "none"
    /\ IF CallbackMsg(Delivered(n)) = NoMsg
       THEN Return(n) /\ UNCHANGED <<pend, who>>
       ELSE /\ pend' = [pend EXCEPT ![n] = CallbackMsg(Delivered(n))]
            /\ who' = "task" /\ UNCHANGED clockVars
    /\ UNCHANGED <<tableVars, phase, idx, mjd, cand, act, queue, msg, uiVars, histVars>>

\* The callback copies the armed action under the semaphore and compares.
Callback(n) ==
    /\ npc[n] = "call" /\ pend[n] = NoMsg /\ who = "none"
    /\ IF CallbackMsg(Delivered(n)) = NoMsg
       THEN Return(n) /\ UNCHANGED pend
       ELSE pend' = [pend EXCEPT ![n] = CallbackMsg(Delivered(n))] /\ UNCHANGED clockVars
    /\ UNCHANGED <<tableVars, workVars, queue, msg, uiVars, histVars>>

\* Before CS_TIMER_Init registers the callback there is nobody to call.
NobodyToCall(n) ==
    /\ who = "boot"
    /\ Return(n)
    /\ UNCHANGED <<tableVars, workVars, taskVars, uiVars, histVars>>

\* mq_send blocks while the queue is full.
Send(n) ==
    /\ pend[n] # NoMsg
    /\ Len(queue) < QueueLen
    /\ queue' = Append(queue, pend[n])
    /\ pend' = [pend EXCEPT ![n] = NoMsg]
    /\ Return(n)
    /\ UNCHANGED <<tableVars, workVars, msg, uiVars, histVars>>
-----------------------------------------------------------------------------
(* The semaphore and the phases its holder goes through.                   *)

\* The slots a job to be saved is compared with.
Others == {k \in Slots : k # req.idx /\ Enabled(jobs[k])}

\* The job whose occurrence the holder is about to evaluate.
Subject ==
    IF phase \in {"valid", "overNew"} THEN req.job
    ELSE IF phase \in {"expire", "overOld", "recB"} THEN jobs[idx]
    ELSE IF phase = "recA" THEN jobs[cand]
    ELSE Cleared

Now == TimeOf(mjd, UtcOf(local))

\* CS_DT_GetLocalMJD, the first of the two reads of the clock.
ReadMjd ==
    /\ mjd = NoHalf
    /\ Enabled(Subject)
    /\ mjd' = MjdOf(local)
    /\ UNCHANGED <<clockVars, tableVars, who, phase, idx, cand, act,
                   taskVars, uiVars, histVars>>

\* CS_DT_GetLocalUTC completes the read; a slot that is off needs none.
ClockRead == Enabled(Subject) => mjd # NoHalf

\* Give the semaphore up; the loop's locals are gone.
Release ==
    /\ who' = "none" /\ phase' = "none" /\ idx' = 0 /\ mjd' = NoHalf
    /\ cand' = 0 /\ act' = NoAct

\* TIMER_UpdateJobList goes on with slot `from` of a table, or saves it.
NextExpire(from, table) ==
    \E i \in Loop :
        /\ NextSlot(i, from, OneTime(table))
        /\ idx' = i /\ phase' = IF i = NJobs THEN "head" ELSE "expire"

\* Where each caller of TIMER_UpdateRecentJobEvent goes on.
AfterRecent == IF who = "task" THEN "report" ELSE IF who = "ui" THEN "leave" ELSE "clean"

\* mq_receive.
Receive ==
    /\ msg = NoMsg /\ queue # <<>>
    /\ msg' = Head(queue) /\ queue' = Tail(queue)
    /\ UNCHANGED <<clockVars, tableVars, workVars, pend, uiVars, histVars>>

\* The timer task enters its critical section and TIMER_UpdateJobList.
TaskLock ==
    /\ msg # NoMsg /\ who = "none"
    /\ who' = "task" /\ NextExpire(0, jobs)
    /\ UNCHANGED <<clockVars, tableVars, mjd, cand, act, taskVars, uiVars, histVars>>

\* TIMER_UpdateJobList for one slot: a one-time job that is over is cleared.
ExpireSlot ==
    /\ phase = "expire" /\ ClockRead
    /\ NextExpire(idx + 1, jobs)
    /\ jobs' = IF Expired(jobs[idx], Now) THEN [jobs EXCEPT ![idx] = Cleared] ELSE jobs
    /\ mjd' = NoHalf
    /\ UNCHANGED <<clockVars, recent, e2pHead, e2p, stale, who, cand, act,
                   taskVars, uiVars, histVars>>

\* TIMER_SaveJobsFile, first write.
WriteHead ==
    /\ phase = "head"
    /\ e2pHead' = TRUE
    /\ phase' = "body"
    /\ UNCHANGED <<clockVars, jobs, recent, e2p, stale, who, idx, mjd, cand, act,
                   taskVars, uiVars, histVars>>

\* Fault: a job that the user saves does not change the armed action.
WriteBodyOnly ==
    /\ phase = "body"
    /\ e2p' = jobs
    /\ IF who = "ui" THEN phase' = "leave" /\ UNCHANGED <<idx, cand, moved, stale>>
       ELSE phase' = "recA" /\ idx' = 1 /\ cand' = 0 /\ moved' = FALSE /\ stale' = {}
    /\ UNCHANGED <<clockVars, jobs, recent, e2pHead, who, mjd, act,
                   taskVars, uiVars, peak>>

\* TIMER_SaveJobsFile, second write; TIMER_UpdateRecentJobEvent starts.
WriteBody ==
    /\ phase = "body"
    /\ e2p' = jobs
    /\ phase' = "recA" /\ idx' = 1 /\ cand' = 0
    /\ moved' = FALSE /\ stale' = {}
    /\ UNCHANGED <<clockVars, jobs, recent, e2pHead, who, mjd, act,
                   taskVars, uiVars, peak>>

\* The armed candidate is evaluated again in every iteration.
EvalCandidate ==
    /\ phase = "recA" /\ ClockRead
    /\ act' \in ActionsOf(jobs[cand], Now)
    /\ phase' = "recB" /\ mjd' = NoHalf
    /\ UNCHANGED <<clockVars, tableVars, who, idx, cand, taskVars, uiVars, histVars>>

\* The slot of this iteration replaces the candidate if it begins earlier;
\* after the last slot the result is stored.
EvalSlot ==
    /\ phase = "recB" /\ ClockRead
    /\ \E comp \in ActionsOf(jobs[idx], Now) :
         LET earlier == Replaces(comp, act)
             c       == IF earlier THEN idx ELSE cand
             a       == IF earlier THEN comp ELSE act
         IN  /\ cand' = c /\ act' = NoAct
             /\ recent' = IF idx = NJobs - 1
                          THEN [idx |-> c, begin |-> a.begin, end |-> a.end,
                                action |-> a.action]
                          ELSE recent
    /\ IF idx = NJobs - 1
       THEN /\ idx' = idx
            /\ phase' = AfterRecent
       ELSE idx' = idx + 1 /\ phase' = "recA"
    /\ mjd' = NoHalf
    /\ UNCHANGED <<clockVars, jobs, e2pHead, e2p, stale, who, taskVars, uiVars, histVars>>

\* The task calls Timer_Notify and still holds the semaphore.
Notify ==
    /\ phase = "report"
    /\ phase' = "notify"
    /\ UNCHANGED <<clockVars, tableVars, who, idx, mjd, cand, act, taskVars,
                   uiVars, histVars>>

\* External: MV_Timer_Notify draws, sleeps and tunes, but calls nothing of this
\* module.  It returns; the task signals the semaphore and frees the message.
Report ==
    /\ phase = "notify"
    /\ Release
    /\ msg' = NoMsg
    /\ UNCHANGED <<clockVars, tableVars, queue, pend, uiVars, histVars>>
-----------------------------------------------------------------------------
(* CS_TIMER_Init.                                                          *)

Load ==
    /\ phase = "load"
    /\ IF e2pHead
       THEN /\ jobs' = e2p /\ UNCHANGED <<who, mjd, cand, act>>
            /\ NextExpire(0, e2p)
       ELSE jobs' = [i \in Slots |-> Cleared] /\ Release
    /\ UNCHANGED <<clockVars, recent, e2pHead, e2p, stale, taskVars, uiVars, histVars>>

\* "Sleep Timer Clean", after the recent job was computed; then register.
CleanSleep ==
    /\ phase = "clean"
    /\ jobs' = [jobs EXCEPT ![SleepSlot] = Cleared]
    /\ stale' = stale \cup {SleepSlot}
    /\ Release
    /\ UNCHANGED <<clockVars, recent, e2pHead, e2p, taskVars, uiVars, histVars>>
-----------------------------------------------------------------------------
(* The user interface: CS_TIMER_CheckandSaveJobInfo and CS_TIMER_Reset.    *)

\* A job is submitted for a slot and the semaphore taken.  A job that is off
\* clears an enabled slot; to clear a free slot is an error.
Ask ==
    /\ upc = "idle" /\ who = "none"
    /\ \E i \in Slots, j \in JobInputs \cup {Cleared} :
         /\ req' = [idx |-> i, job |-> j]
         /\ phase' = IF Enabled(j) THEN "valid"
                     ELSE IF Enabled(jobs[i]) THEN "store" ELSE "leave"
    /\ who' = "ui" /\ upc' = "save"
    /\ UNCHANGED <<clockVars, tableVars, idx, mjd, cand, act, taskVars, histVars>>

Answer == upc' = "idle" /\ req' = NoReq

\* Compare the job with the next enabled slot, or store it after the last.
NextOverlay(from) ==
    \E i \in Loop :
        /\ NextSlot(i, from, Others)
        /\ idx' = i /\ phase' = IF i = NJobs THEN "store" ELSE "overNew"

Refused(job, now) ==
    \/ job.cycle = "once" /\ job.begin <= now
    \/ job.cycle = "daily" /\ job.dur > DayLen

CheckNew ==
    /\ phase = "valid" /\ ClockRead
    /\ IF Refused(req.job, Now)
       THEN phase' = "leave" /\ UNCHANGED idx
       ELSE NextOverlay(0)
    /\ mjd' = NoHalf
    /\ UNCHANGED <<clockVars, tableVars, who, cand, act, taskVars, uiVars, histVars>>

\* TIMER_CheckTimeOverlay, first half: a job without an action overlaps.
OverlayNew ==
    /\ phase = "overNew" /\ ClockRead
    /\ act' \in ActionsOf(req.job, Now)
    /\ phase' = IF HasAction(req.job, Now) THEN "overOld" ELSE "leave"
    /\ mjd' = NoHalf
    /\ UNCHANGED <<clockVars, tableVars, who, idx, cand, taskVars, uiVars, histVars>>

OverlayOld ==
    /\ phase = "overOld" /\ ClockRead
    /\ \E old \in ActionsOf(jobs[idx], Now) :
         IF ~HasAction(jobs[idx], Now) \/ Overlay(act, old)
         THEN phase' = "leave" /\ UNCHANGED idx
         ELSE NextOverlay(idx + 1)
    /\ mjd' = NoHalf /\ act' = NoAct
    /\ UNCHANGED <<clockVars, tableVars, who, cand, taskVars, uiVars, histVars>>

\* Fault: the new job is kept in memory only.
StoreUnsaved ==
    /\ phase = "store"
    /\ jobs' = [jobs EXCEPT ![req.idx] = req.job]
    /\ phase' = "leave"
    /\ UNCHANGED <<clockVars, recent, e2pHead, e2p, stale, who, idx, mjd, cand, act,
                   taskVars, uiVars, histVars>>

\* The job is copied into its slot; the save and the recomputation follow.
Store ==
    /\ phase = "store"
    /\ jobs' = [jobs EXCEPT ![req.idx] = req.job]
    /\ phase' = "head"
    /\ UNCHANGED <<clockVars, recent, e2pHead, e2p, stale, who, idx, mjd, cand, act,
                   taskVars, uiVars, histVars>>

\* Fault: a refused job returns without the signal.
LeaveHeld ==
    /\ phase = "leave"
    /\ phase' = "none" /\ Answer
    /\ UNCHANGED <<clockVars, tableVars, who, idx, mjd, cand, act, taskVars, histVars>>

\* The semaphore is signalled on every path.
Leave ==
    /\ phase = "leave"
    /\ Release /\ Answer
    /\ UNCHANGED <<clockVars, tableVars, taskVars, histVars>>

\* CS_TIMER_Reset takes no semaphore and computes no recent job.
Reset ==
    /\ upc = "idle" /\ who # "boot"
    /\ jobs' = [i \in Slots |-> Cleared]
    /\ stale' = Slots
    /\ upc' = "head"
    /\ UNCHANGED <<clockVars, recent, e2pHead, e2p, workVars, taskVars, req, histVars>>

ResetHead ==
    /\ upc = "head"
    /\ e2pHead' = TRUE /\ upc' = "body"
    /\ UNCHANGED <<clockVars, jobs, recent, e2p, stale, workVars, taskVars, req, histVars>>

ResetBody ==
    /\ upc = "body"
    /\ e2p' = jobs /\ Answer
    /\ UNCHANGED <<clockVars, jobs, recent, e2pHead, stale, workVars, taskVars, histVars>>
-----------------------------------------------------------------------------
\* The power fails; a body write in progress has reached the first k slots.
PowerFail ==
    /\ \E k \in 0 .. NJobs :
         /\ k > 0 => phase = "body" \/ upc = "body"
         /\ e2p' = [i \in Slots |-> IF i < k THEN jobs[i] ELSE e2p[i]]
    /\ UNCHANGED e2pHead
    /\ local' = BootTime
    /\ npc' = [n \in Notifiers |-> "run"]
    /\ arg' = [n \in Notifiers |-> NoArg]
    /\ jobs' = [i \in Slots |-> ZeroJob]
    /\ recent' = [idx |-> 0, begin |-> 0, end |-> 0, action |-> "begin"]
    /\ queue' = <<>> /\ pend' = [n \in Notifiers |-> NoMsg] /\ msg' = NoMsg
    /\ who' = "boot" /\ phase' = "load" /\ idx' = 0 /\ mjd' = NoHalf
    /\ cand' = 0 /\ act' = NoAct
    /\ req' = NoReq /\ upc' = "idle"
    /\ peak' = BootTime /\ moved' = FALSE /\ stale' = {}

NotifierStep(n) == Callback(n) \/ NobodyToCall(n) \/ Send(n)
HolderStep == \/ ReadMjd \/ ExpireSlot \/ WriteHead \/ WriteBody
              \/ EvalCandidate \/ EvalSlot \/ Notify \/ Report \/ Load \/ CleanSleep
              \/ CheckNew \/ OverlayNew \/ OverlayOld \/ Store \/ Leave
UiStep == ResetHead \/ ResetBody

Next == \/ ClockChange \/ LoadArgument \/ \E n \in Notifiers : NotifierStep(n)
        \/ Receive \/ TaskLock \/ HolderStep
        \/ Ask \/ Reset \/ UiStep
        \/ PowerFail

Spec == Init /\ [][Next]_vars
-----------------------------------------------------------------------------
(* Properties.                                                             *)

Phases == {"none", "load", "expire", "head", "body", "recA", "recB", "report",
           "notify", "clean", "valid", "overNew", "overOld", "store", "leave"}

\* Every variable has its type.
TypeOK ==
    /\ ClockTypeOK
    /\ jobs \in [Slots -> Jobs] /\ e2p \in [Slots -> Jobs] /\ e2pHead \in BOOLEAN
    /\ recent \in [idx : Slots, begin : Nat, end : Nat, action : Actions]
    /\ queue \in Seq(Msgs)
    /\ pend \in [Notifiers -> Msgs \cup {NoMsg}] /\ msg \in Msgs \cup {NoMsg}
    /\ who \in {"boot", "none", "task", "ui"} /\ phase \in Phases
    /\ idx \in Loop /\ mjd \in Half /\ cand \in Slots
    /\ act \in [begin : Nat, end : Nat, action : Actions]
    /\ req \in [idx : Slots, job : Jobs] /\ upc \in {"idle", "save", "head", "body"}
    /\ peak \in Nat /\ moved \in BOOLEAN /\ stale \in SUBSET Slots

\* Two one-time jobs never overlap, whatever the order in which the user
\* saves them, the timer task expires them and the power fails between two
\* writes of the table (the check of CS_TIMER_CheckandSaveJobInfo).  The sleep
\* slot is left out: it is erased at boot only after the table was loaded.
Apart(a, b) == JobEnd(a) < b.begin \/ JobEnd(b) < a.begin
NoOverlap ==
    \A i, j \in Slots \ {SleepSlot} :
        i # j /\ {i, j} \subseteq OneTime(jobs) => Apart(jobs[i], jobs[j])

\* The armed action belongs to an enabled job and lies on one of its days,
\* unless the slot was erased without computing the armed action again
\* (CS_TIMER_Reset and the cleaning of the sleep slot at boot).
Armed == recent.begin \notin {0, Never}
ArmedSound ==
    who = "none" /\ Armed =>
        \/ recent.idx \in stale
        \/ /\ Enabled(jobs[recent.idx])
           /\ recent.begin % DayLen = jobs[recent.idx].begin % DayLen
           /\ recent.end - recent.begin
                = JobEnd(jobs[recent.idx]) - jobs[recent.idx].begin

\* Outside the critical sections the EEPROM of a box that has saved once holds
\* the table, whatever mix of two tables an earlier power failure left there.
\* The sleep slot is left out: CS_TIMER_Init erases it in memory only.
Quiet == who = "none" /\ upc = "idle"
Mirror ==
    Quiet /\ e2pHead => \A i \in Slots \ {SleepSlot} : e2p[i] = jobs[i]

\* A one-time job still ahead of every time the box has shown is never later
\* than the armed action, unless the clock moved while that was computed.
Covered ==
    who = "none" /\ ~moved =>
        \A i \in OneTime(jobs) : jobs[i].begin > peak => recent.begin <= jobs[i].begin

\* While only the idle task moves the clock, and by single minutes, no armed
\* action is passed by: as long as the armed minute is not ahead, its message
\* is on the way to the timer task.
Due == IF recent.action = "begin" THEN recent.begin ELSE recent.end
NoMissedAction ==
    /\ who = "none" /\ ~moved /\ Armed /\ recent.idx \notin stale
    /\ npc[Ticker] = "run"
    => \/ Due > local
       \/ \E m \in {queue[k] : k \in DOMAIN queue} \cup {msg} : m = [kind |-> recent.action, idx |-> recent.idx]

\* The job the box has in slot i: before the table is loaded, what the EEPROM has.
Known(i) ==
    IF phase # "load" THEN jobs[i] ELSE IF e2pHead THEN e2p[i] ELSE Cleared

\* A one-time job that is ahead of every time shown stays in its slot: through the
\* saves of other slots and the refused ones of its own, the expiry of others, a
\* failure of the power at any step, also between two slots of a write, and the
\* boot after it.  Only a save of its own slot that is under way and CS_TIMER_Reset
\* change it; and the timer task may erase it when the clock is set back over
\* midnight after the date was read, but then its end is less than a day ahead.
FutureJobs == {i \in Slots \ {SleepSlot} :
    Enabled(Known(i)) /\ Known(i).cycle = "once" /\ JobEnd(Known(i)) > peak}
KeepsFutureJobs ==
    [][\A i \in FutureJobs :
         \/ Known(i)' = Known(i)
         \/ i = req.idx /\ who = "ui" /\ phase \in {"store", "head", "body"}
         \/ Reset
         \/ /\ phase = "expire" /\ i = idx /\ mjd > MjdOf(local)
            /\ JobEnd(Known(i)) < peak + DayLen]_vars

\* How many steps the holder of sem_Timer_Access has left at most, until it
\* gives the semaphore up.  A job that is on is read twice, the others once.
StepsLeft ==
    LET slots == NJobs - idx
        reads == IF mjd = NoHalf THEN 1 ELSE 0
    IN  CASE phase = "none" -> 0
          [] phase \in {"leave", "notify", "clean"} -> 1
          [] phase = "report"  -> 2
          [] phase = "recB"    -> 4 * slots + reads - 1
          [] phase = "recA"    -> 4 * slots + reads + 1
          [] phase = "body"    -> 4 * NJobs + 1
          [] phase = "head"    -> 4 * NJobs + 2
          [] phase = "store"   -> 4 * NJobs + 3
          [] phase = "expire"  -> 4 * NJobs + 2 + 2 * slots + reads
          [] phase = "load"    -> 6 * NJobs + 4
          [] phase = "overOld" -> 4 * NJobs + 4 * slots + reads + 1
          [] phase = "overNew" -> 4 * NJobs + 4 * slots + reads + 3
          [] phase = "valid"   -> 8 * NJobs + reads + 5

\* Nobody keeps sem_Timer_Access for good: whatever the clock, the queue and
\* CS_TIMER_Reset do between its steps, each step of the holder leaves it fewer,
\* it waits for no other thread, and with the last one it signals the semaphore.
\* The return of Timer_Notify, called with the semaphore held, is such a step.
HoldEnds ==
    [][/\ StepsLeft' <= 8 * NJobs + 6
       /\ who # "none" /\ ~PowerFail =>
            \/ HolderStep /\ who' = "none"
            \/ HolderStep /\ who' = who /\ 0 < StepsLeft' /\ StepsLeft' < StepsLeft
            \/ ~HolderStep /\ UNCHANGED <<who, StepsLeft>>]_vars

\* Claims of the repository that do not hold of the code.

\* "Sleep Timer Clean" (timer.c:636): after the boot the sleep timer is gone,
\* so it is not the job that is armed.
SleepTimerCleaned ==
    Quiet /\ stale = {SleepSlot} /\ Armed => recent.idx # SleepSlot

\* A thread that notifies is never held up for good by the timer: its client
\* call returns, so the idle task keeps the clock going.
NotifyReturns == \A n \in Notifiers : npc[n] = "call" ~> npc[n] = "run"

\* Every message is handled: the timer task comes back for the next one.
TaskReturns == msg # NoMsg ~> msg = NoMsg

\* The threads are scheduled; a thread that waits for the semaphore gets it
\* when the holders keep releasing it (sem_post wakes a waiter).
Fairness ==
    /\ \A n \in Notifiers : /\ WF_vars(NobodyToCall(n) \/ Send(n))
                            /\ SF_vars(Callback(n))
    /\ WF_vars(LoadArgument) /\ WF_vars(Receive) /\ WF_vars(HolderStep)
    /\ SF_vars(TaskLock) /\ WF_vars(UiStep)

FairSpec == Spec /\ Fairness
-----------------------------------------------------------------------------
(* The inductive invariant that TimerProofs proves Mirror and NoOverlap by. *)

\* Which thread is in which phase, and when the loop index is a slot.
ControlOK ==
    /\ who = "none" <=> phase = "none"
    /\ who = "ui" <=> upc = "save"
    /\ who = "boot" => upc = "idle"
    /\ phase \in {"load", "clean"} => who = "boot"
    /\ phase = "expire" => who \in {"boot", "task"}
    /\ phase \in {"report", "notify"} => who = "task"
    /\ phase \in {"valid", "overNew", "overOld", "store", "leave"} => who = "ui"
    /\ phase \in {"expire", "recA", "recB", "overNew", "overOld"} => idx \in Slots

\* The EEPROM holds the table except while a thread is about to save it.
Saving == phase \in {"load", "expire", "head", "body"} \/ upc \in {"head", "body"}
EepromOK ==
    /\ phase = "body" \/ upc = "body" => e2pHead
    /\ ~e2pHead => \A i \in Slots : e2p[i] = Junk
    /\ e2pHead /\ ~Saving => \A i \in Slots \ {SleepSlot} : e2p[i] = jobs[i]

\* Slots of two tables, or of one, never overlap: a power failure mixes the
\* table in memory with the one in the EEPROM.
TablesApart(s, t) ==
    \A i, j \in Slots \ {SleepSlot} :
        i # j /\ i \in OneTime(s) /\ j \in OneTime(t) => Apart(s[i], t[j])
ApartOK == TablesApart(jobs, jobs) /\ TablesApart(jobs, e2p) /\ TablesApart(e2p, e2p)

\* The job to be saved is apart from the slots the loop has passed.
Passed(n) == \A k \in OneTime(jobs) : k < n /\ k # req.idx => Apart(req.job, jobs[k])
LoopOK ==
    /\ phase \in {"valid", "overNew", "overOld"} => Enabled(req.job)
    /\ phase = "store" /\ Enabled(req.job) => idx = NJobs
    /\ phase \in {"overNew", "overOld", "store"} /\ Enabled(req.job) /\ req.job.cycle = "once"
         => Passed(idx)
    /\ phase = "overOld" /\ req.job.cycle = "once"
         => act.begin = req.job.begin /\ act.end = JobEnd(req.job)

IInv == TypeOK /\ ControlOK /\ EepromOK /\ ApartOK /\ LoopOK

\* What a power failure finds: an enabled slot of the table is in the EEPROM, but
\* for the one being saved.
SavedOK ==
    phase # "load" => \A i \in Slots \ {SleepSlot} : Enabled(jobs[i]) =>
        \/ e2pHead /\ e2p[i] = jobs[i]
        \/ i = req.idx /\ who = "ui" /\ phase \in {"head", "body"}

\* The history variable bounds the clock and every date read from it.
PeakOK == local <= peak /\ (mjd # NoHalf => mjd * DayLen <= peak)
=============================================================================
