------------------------------ MODULE DateTime ------------------------------
(***************************************************************************)
(* date_time.c: how the box keeps its local time.                          *)
(*                                                                         *)
(* The local time is the last broadcast (TDT/TOT) or manual time plus the  *)
(* whole minutes the OS clock has counted since CS_DT_OSTime_LastUpdate.   *)
(* The idle task adds them, the SI thread stores a broadcast time, and the *)
(* setting threads (the time menu, the network time) call the functions    *)
(* that change the zone, the mode and the time, in any order.  The OS      *)
(* clock is set by the SI thread and by the setting threads.               *)
(*                                                                         *)
(* The idle task's critical section is one step.  A setting's stores to    *)
(* CS_DT_Local_mjd and CS_DT_Local_utc are steps of their own, because     *)
(* DT_Notify of another thread loads them without the semaphore.           *)
(*                                                                         *)
(* Times are minutes, as in LocalClock.  OS clock readings are ticks, and  *)
(* like the 32-bit milliseconds of CS_OS_time_now they wrap around.        *)
(***************************************************************************)
EXTENDS Integers

CONSTANTS Idle, Si,        \* the idle task and the thread that gets sections
          Setters,         \* the threads that run the menu or ask the network
          DayLen, HourLen, \* minutes in a day and in an hour
          Days,            \* 2^16: a date is 16 bits wide
          Tick,            \* OS ticks in a minute (60000)
          OsWrap,          \* 2^32: an OS clock reading is 32 bits wide
          HourWrap,        \* 2^8: PassedTime_hms.hour is 8 bits wide
          TensWrap,        \* 160: the BCD tens of an hour are 4 bits wide
          BootTime,        \* 1 January 2010, 00:00
          Broadcasts,      \* the times TDT and TOT sections carry
          ManualTimes,     \* the times the menu or the network supplies
          Offsets,         \* the time zones, in minutes, west negative
          Late,            \* bound: ticks the idle task can be late (under 160 h)
          Span             \* bound: ticks counted since the time was set

ASSUME DateTimeAssumption ==
    /\ DayLen \in Nat \ {0} /\ HourLen \in Nat \ {0} /\ Days \in Nat \ {0}
    /\ Tick \in Nat \ {0} /\ OsWrap \in Nat \ {0}
    /\ HourWrap \in Nat \ {0} /\ TensWrap \in Nat \ {0}
    /\ BootTime \in 0 .. Days * DayLen - 1
    /\ Broadcasts \cup ManualTimes \subseteq 0 .. Days * DayLen - 1
    /\ Offsets \subseteq -DayLen .. DayLen
    /\ Late \in Nat /\ Span \in Nat
    /\ 2 * Late <= OsWrap /\ Late < Tick * (HourLen * TensWrap)
    /\ TensWrap <= HourWrap
    /\ Idle # Si /\ {Idle, Si} \cap Setters = {}

Threads == {Idle, Si} \cup Setters
Times   == 0 .. Days * DayLen - 1
Ticks   == 0 .. OsWrap - 1

\* eCS_DBU_TIME_AUTOMATIC, or the manual and the Internet time.
Modes   == {"auto", "other"}

VARIABLES
    os,      \* CLOCK_REALTIME, as CS_OS_time_now reads it
    last,    \* CS_DT_OSTime_LastUpdate
    tdt,     \* CS_DT_TDT_TOT_mjd and CS_DT_TDT_TOT_utc
    local,   \* CS_DT_Local_mjd and CS_DT_Local_utc
    offset,  \* CS_DT_Offset_utc with CS_DT_OffsetPolarity
    summer,  \* CS_MW_GetTimeRegion: summer time
    mode,    \* CS_MW_GetTimeMode
    auto,    \* CS_DT_AutoTimeEnable
    pc,      \* where each thread is
    arg,     \* the halves of DT_Notify's arguments loaded so far
    settled, \* history: the local time when the semaphore was last free
    anchor,  \* history: the time last set
    counted, \* history: the ticks since then
    skew     \* history: "set" while the OS clock has moved away from
             \* LastUpdate, "bad" once the idle task has counted such a move

settings == <<offset, summer, mode, auto>>
history  == <<settled, anchor, counted, skew>>
vars == <<os, last, tdt, local, settings, pc, arg, history>>

NoHalf == -1
NoArg  == [mjd |-> NoHalf, utc |-> NoHalf]
-----------------------------------------------------------------------------
(* Arithmetic of the C code.                                               *)

\* Fault: the date does not wrap.
ShiftedUnwrapped(t, o) == t + o

\* CS_DT_UTC_Add and CS_DT_UTC_Subtract with the carry into the date, a U16.
Shifted(t, o) == (t + o) % (Days * DayLen)

\* CS_OS_time_minus: abs() of a 32-bit difference.
Elapsed ==
    LET d == (os - last) % OsWrap
    IN  IF 2 * d > OsWrap THEN OsWrap - d ELSE d

\* The minutes DT_UpdateTimeByOS adds: the hours pass through a U8 and through
\* two BCD digits.
Added(minutes) ==
    (((minutes \div HourLen) % HourWrap) % TensWrap) * HourLen + (minutes % HourLen)

\* Nobody is inside a critical section of sem_DateTimeAccess.
Working == {"base", "offset"}
Free == \A n \in Threads : pc[n] \notin Working

Goto(n, from, to) == pc[n] = from /\ pc' = [pc EXCEPT ![n] = to]
-----------------------------------------------------------------------------
Init ==
    /\ os = 0 /\ last = 0
    /\ tdt = 0 /\ local = BootTime
    /\ offset = 0
    /\ summer \in BOOLEAN /\ mode \in Modes /\ auto = TRUE
    /\ pc = [n \in Threads |-> "run"]
    /\ arg = [n \in Threads |-> NoArg]
    /\ settled = BootTime /\ anchor = BootTime /\ counted = 0 /\ skew = "no"

\* The OS clock counts.
Count ==
    /\ counted < Span
    /\ skew = "no" => Elapsed < Late
    /\ os' = (os + 1) % OsWrap /\ counted' = counted + 1
    /\ UNCHANGED <<last, tdt, local, settings, pc, arg, settled, anchor, skew>>

\* A thread ends its critical section with a time it has set.
SetLocal(t) == local' = t /\ settled' = t /\ anchor' = t

\* LastUpdate := now, under the semaphore and together with the time.
Restart == last' = os /\ counted' = 0 /\ skew' = "no"

\* The OS clock is set to a time on the minute; LastUpdate is left as it was.
SetOs(t) ==
    /\ os' = (t * Tick) % OsWrap
    /\ skew' = IF skew = "bad" THEN "bad" ELSE "set"
-----------------------------------------------------------------------------
(* DT_IdleTask.                                                            *)

Minutes == Elapsed \div Tick

\* Fault: the seconds that make no whole minute are lost.
ReadingNow == os

\* LastUpdate moves on by the whole minutes.
Reading == (last + Minutes * Tick) % OsWrap

\* DT_UpdateTimeByOS; without a whole minute it changes nothing.  Bound: the
\* idle task stops before the last date.
UpdateTimeByOS ==
    /\ Free /\ Minutes > 0
    /\ local + Added(Minutes) \in Times
    /\ last' = Reading
    /\ local' = local + Added(Minutes) /\ settled' = local'
    /\ skew' = IF skew = "no" THEN "no" ELSE "bad"
    /\ Goto(Idle, "run", "load")
    /\ UNCHANGED <<os, tdt, settings, arg, anchor, counted>>
-----------------------------------------------------------------------------
(* DT_Filter_CallBack and DT_CorrectTimeByTDTTOT.                          *)

\* A section that carries a new time is stored as the local time only in the
\* automatic mode.
Section ==
    /\ Free /\ pc[Si] = "run"
    /\ \E t \in Broadcasts \ {tdt} :
         /\ tdt' = t
         /\ IF mode = "auto"
            THEN local' = t /\ Goto(Si, "run", "base")
            ELSE UNCHANGED <<local, pc>>
    /\ UNCHANGED <<os, last, settings, arg, history>>

ApplyOffset ==
    /\ local' = Shifted(local, offset)
    /\ Goto(Si, "base", "offset")
    /\ UNCHANGED <<os, last, tdt, settings, arg, history>>

\* The hour of summer time, the OS clock, and the end of the critical section.
ApplySummer ==
    /\ SetLocal(IF summer THEN Shifted(local, HourLen) ELSE local)
    /\ SetOs(local')
    /\ counted' = 0
    /\ Goto(Si, "offset", "stamp")
    /\ UNCHANGED <<last, tdt, settings, arg>>

\* LastUpdate := now, after the semaphore has been signalled.
Stamp ==
    /\ last' = os
    /\ IF skew = "set" /\ settled = anchor
       THEN skew' = "no" /\ counted' = 0
       ELSE skew' = "bad" /\ UNCHANGED counted
    /\ Goto(Si, "stamp", "load")
    /\ UNCHANGED <<os, tdt, local, settings, arg, settled, anchor>>
-----------------------------------------------------------------------------
(* What the time menu and the network time call.                           *)

\* CS_DT_ManualSetDateAndTime: ignored while the automatic time is on.
ManualSetDateAndTime(n) ==
    /\ Free /\ ~auto
    /\ \E t \in ManualTimes \ {local} : SetLocal(t)
    /\ Restart
    /\ Goto(n, "run", "load")
    /\ UNCHANGED <<os, tdt, settings, arg>>

\* CS_DT_ManualSetUTCOffset: its base is the last broadcast time, whatever the
\* mode and however old that is. An offset of 0 has a sign too, and a change of
\* the sign is a change.
ManualSetUTCOffset(n) ==
    /\ Free
    /\ offset' \in Offsets /\ (offset' = offset => offset = 0)
    /\ local' = tdt
    /\ Goto(n, "run", "base")
    /\ UNCHANGED <<os, last, tdt, summer, mode, auto, arg, history>>

\* Fault: the clients are not told.
ApplyZoneQuietly(n) ==
    /\ SetLocal(Shifted(tdt, offset)) /\ Restart
    /\ Goto(n, "base", "run")
    /\ UNCHANGED <<os, tdt, settings, arg>>

\* Its end; the hour of summer time is not added.
ApplyZone(n) ==
    /\ SetLocal(Shifted(tdt, offset)) /\ Restart
    /\ Goto(n, "base", "load")
    /\ UNCHANGED <<os, tdt, settings, arg>>

\* CS_MW_SetTimeRegion.
SetTimeRegion(n) ==
    /\ pc[n] = "run"
    /\ summer' = ~summer
    /\ UNCHANGED <<os, last, tdt, local, offset, mode, auto, pc, arg, history>>

\* CS_MW_SetTimeMode stores the mode, and then the flag that goes with it.
SetTimeMode(n) ==
    /\ mode' \in Modes
    /\ Goto(n, "run", IF mode' = "auto" THEN "enable" ELSE "disable")
    /\ UNCHANGED <<os, last, tdt, local, offset, summer, auto, arg, history>>

EnableAutomaticTime(n) ==
    /\ Free
    /\ \/ auto' = TRUE /\ Goto(n, "enable", "run")
       \/ auto' = FALSE /\ Goto(n, "disable", "run")
    /\ UNCHANGED <<os, last, tdt, local, offset, summer, mode, arg, history>>

\* clock_settime: after ManualSetDateAndTime in the menu, before it for the
\* network time.
SetClock(n) ==
    /\ pc[n] = "run"
    /\ \E t \in ManualTimes : SetOs(t)
    /\ UNCHANGED <<last, tdt, local, settings, pc, arg, settled, anchor, counted>>
-----------------------------------------------------------------------------
(* DT_Notify.                                                              *)

\* The arguments are loaded without the semaphore, in either order.
LoadHalf(n) ==
    /\ pc[n] = "load"
    /\ \/ /\ arg[n].mjd = NoHalf
          /\ arg' = [arg EXCEPT ![n].mjd = local \div DayLen]
          /\ pc' = [pc EXCEPT ![n] = IF arg[n].utc = NoHalf THEN "load" ELSE "call"]
       \/ /\ arg[n].utc = NoHalf
          /\ arg' = [arg EXCEPT ![n].utc = local % DayLen]
          /\ pc' = [pc EXCEPT ![n] = IF arg[n].mjd = NoHalf THEN "load" ELSE "call"]
    /\ UNCHANGED <<os, last, tdt, local, settings, history>>

\* The clients have been called.
Return(n) ==
    /\ Goto(n, "call", "run")
    /\ arg' = [arg EXCEPT ![n] = NoArg]
    /\ UNCHANGED <<os, last, tdt, local, settings, history>>

SetterStep(n) ==
    \/ ManualSetDateAndTime(n) \/ ManualSetUTCOffset(n) \/ ApplyZone(n)
    \/ SetTimeRegion(n) \/ SetTimeMode(n) \/ EnableAutomaticTime(n) \/ SetClock(n)

Next ==
    \/ Count \/ UpdateTimeByOS
    \/ Section \/ ApplyOffset \/ ApplySummer \/ Stamp
    \/ \E n \in Setters : SetterStep(n)
    \/ \E n \in Threads : LoadHalf(n) \/ Return(n)

Spec == Init /\ [][Next]_vars
-----------------------------------------------------------------------------
(* Properties.                                                             *)

\* Every variable has its type.
TypeOK ==
    /\ os \in Ticks /\ last \in Ticks
    /\ {tdt, local, settled, anchor} \subseteq Times
    /\ offset \in Offsets \cup {0} /\ summer \in BOOLEAN
    /\ mode \in Modes /\ auto \in BOOLEAN
    /\ pc \in [Threads -> {"run", "base", "offset", "stamp", "load", "call",
                           "enable", "disable"}]
    /\ arg \in [Threads -> [mjd : Int, utc : Int]]
    /\ counted \in 0 .. Span /\ skew \in {"no", "set", "bad"}

\* No tick is lost and none is counted twice: the minutes added since the time
\* was last set, and the ticks DT_UpdateTimeByOS has not added yet, are the
\* ticks the OS clock has counted since, through every wrap of the 32-bit
\* reading.  A setting of the OS clock that LastUpdate has not followed is
\* left out: the idle task may count it (BroadcastTimeKept).
NoDrift ==
    skew = "no" => (settled - anchor) * Tick + Elapsed = counted

\* Outside the critical sections CS_DT_Local_mjd and _utc are complete, the idle
\* task's own is one step, and it is never late enough for the reading to come
\* round.
Complete  == Free => local = settled
IdleApart == pc[Idle] \notin Working
InTime    == skew = "no" => (os - last) % OsWrap <= Late
IInv      == TypeOK /\ Complete /\ IdleApart /\ InTime /\ NoDrift

\* Every change of the local time, by whichever thread, ends in a notification
\* of the clients, and nothing else is notified: date_time.c implements the
\* clock that timer.c is verified with.
Notifying == [n \in Threads |-> IF pc[n] \in {"load", "call"} THEN pc[n]
                                ELSE IF pc[n] = "stamp" THEN "load" ELSE "run"]
Clock == INSTANCE LocalClock WITH
    Notifiers <- Threads, Ticker <- Idle, DayLen <- DayLen, BootTime <- BootTime,
    SetTimes <- Times, PartTimes <- Times, Advances <- Times,
    Horizon <- Days * DayLen, local <- settled, npc <- Notifying, arg <- arg
ImplementsClock == Clock!ClockSpec

\* Claims of the repository that do not hold of the code.

\* "Local time after applying offset" (date_time.h:66): in the automatic mode,
\* while nobody changes a setting, the local time is what the last section
\* gave, plus no more than the minutes the OS clock has counted since.
BroadcastTimeKept ==
    mode = "auto" /\ pc[Si] = "run" /\ tdt # 0
        => settled - anchor <= counted \div Tick
=============================================================================
