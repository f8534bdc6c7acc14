----------------------------- MODULE LocalClock -----------------------------
(***************************************************************************)
(* What date_time.c promises to the clients of its notifications: a local  *)
(* date and time, the threads that change it, and the delivery that every  *)
(* change ends in.                                                         *)
(*                                                                         *)
(* A date and time is one number, the minutes since the first day the code *)
(* represents: mjd * DayLen + minute of the day.  The order of the packed  *)
(* words (mjd << 16) | utc that timer.c compares is the order of these     *)
(* numbers, because a BCD utc grows with the minute of the day             *)
(* (OrderKept of MCDateTimeArith).                                         *)
(*                                                                         *)
(* CS_DT_Local_mjd and CS_DT_Local_utc are changed under                   *)
(* sem_DateTimeAccess, but DT_Notify loads them for its arguments after    *)
(* the semaphore is released and in an order the language leaves open, so  *)
(* the two halves a client is called with may come from two different      *)
(* times, or from a time that another thread is still computing: TDT/TOT   *)
(* without the offset, then without the hour of summer time.               *)
(*                                                                         *)
(* DateTime is the code behind this module and implements ClockSpec.       *)
(***************************************************************************)
EXTENDS Integers

CONSTANTS Notifiers,   \* the threads that change the time and call DT_Notify
          Ticker,      \* the one of them that runs DT_IdleTask
          DayLen,      \* minutes in a day (1440 on the box)
          BootTime,    \* the start date CS_DT_Init is given
          SetTimes,    \* the times a section, an offset or a menu can store
          PartTimes,   \* the times a setting passes through before it stores one
          Advances,    \* the minutes the idle task adds at once
          Horizon      \* bound: the idle task stops at this minute

ASSUME ClockAssumption ==
    /\ Ticker \in Notifiers
    /\ DayLen \in Nat \ {0}
    /\ BootTime \in Nat
    /\ SetTimes \subseteq Nat
    /\ PartTimes \subseteq Nat
    /\ Advances \subseteq Nat
    /\ Horizon \in Nat

VARIABLES local,   \* CS_DT_Local_mjd and CS_DT_Local_utc
          npc,     \* where each notifying thread is
          arg      \* the halves of DT_Notify's arguments loaded so far

clockVars == <<local, npc, arg>>

NoHalf == -1
Half   == Int
NoArg  == [mjd |-> NoHalf, utc |-> NoHalf]

MjdOf(t) == t \div DayLen
UtcOf(t) == t % DayLen
TimeOf(mjd, utc) == mjd * DayLen + utc

ClockTypeOK ==
    /\ local \in Nat
    /\ npc \in [Notifiers -> {"run", "load", "call"}]
    /\ arg \in [Notifiers -> [mjd : Half, utc : Half]]

ClockInit ==
    /\ local = BootTime
    /\ npc = [n \in Notifiers |-> "run"]
    /\ arg = [n \in Notifiers |-> NoArg]

\* A thread stores a new local time and goes on to DT_Notify.
ChangeTime(n, t) ==
    /\ npc[n] = "run"
    /\ local' = t
    /\ npc' = [npc EXCEPT ![n] = "load"]
    /\ UNCHANGED arg

\* The idle task adds the whole minutes the OS clock has counted.
AdvanceTime ==
    \E d \in Advances :
        /\ local + d <= Horizon
        /\ ChangeTime(Ticker, local + d)

\* A TDT/TOT section, a new offset or a manual setting stores any time.
SetTime(n) ==
    /\ n # Ticker
    /\ \E t \in SetTimes : ChangeTime(n, t)

\* What an unlocked load can find: the local time, or the work of a thread
\* that is inside its critical section and has not stored its time yet.
Loadable(n) ==
    {local} \cup {t \in PartTimes : \E m \in Notifiers \ {n, Ticker} : npc[m] = "run"}

\* One of the two argument loads of DT_Notify, in either order.
LoadHalf(n) ==
    /\ npc[n] = "load"
    /\ \E t \in Loadable(n) :
         \/ /\ arg[n].mjd = NoHalf
            /\ arg' = [arg EXCEPT ![n].mjd = MjdOf(t)]
            /\ npc' = [npc EXCEPT ![n] = IF arg[n].utc = NoHalf THEN "load" ELSE "call"]
         \/ /\ arg[n].utc = NoHalf
            /\ arg' = [arg EXCEPT ![n].utc = UtcOf(t)]
            /\ npc' = [npc EXCEPT ![n] = IF arg[n].mjd = NoHalf THEN "load" ELSE "call"]
    /\ UNCHANGED local

\* The time the clients of thread n are called with.
Delivered(n) == TimeOf(arg[n].mjd, arg[n].utc)

\* Every client has been called; the thread returns to its loop.
Return(n) ==
    /\ npc[n] = "call"
    /\ npc' = [npc EXCEPT ![n] = "run"]
    /\ arg' = [arg EXCEPT ![n] = NoArg]
    /\ UNCHANGED local

ClockNext ==
    \/ AdvanceTime
    \/ \E n \in Notifiers : SetTime(n) \/ LoadHalf(n) \/ Return(n)

ClockSpec == ClockInit /\ [][ClockNext]_clockVars
=============================================================================
