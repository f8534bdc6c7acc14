--------------------------- MODULE MCDateTimeArith ---------------------------
(* Two walks beside the code's arithmetic: through the calendar day by day,  *)
(* and through the minutes of a day with each operand.                       *)
EXTENDS DateTimeArith

CONSTANTS LastDate,  \* bound: the last day of the walk, 28 February 2100
          Seconds    \* what is added, subtracted and compared, in minutes

\* The formulas are made for the days until 28 February 2100.
ASSUME LastDateAssumption == LastDate \in 0 .. 47166

\* Four digits, the tens of the hours four bits wide: 159 hours and 59 minutes.
ASSUME SecondsAssumption == Seconds \subseteq 0 .. 9599

VARIABLES mjd,       \* the day, as date_time.c counts it
          date,      \* the same day in the Gregorian calendar
          weekday,   \* and its day of the week, Monday 1
          l, r       \* a time of the day, and one of Seconds

DayMinutes == 24 * 60
Span       == 65536 * DayMinutes

\* Times of the day, all residues of an hour among them, and durations of days.
Operands == {7 * k : k \in 0 .. 205} \cup {1, 59, 61, 1439, 1440, 1501, 5999, 9599}

Leap(y) == (y % 4) = 0 /\ ((y % 100) # 0 \/ (y % 400) = 0)

LengthOf(y, m) ==
    IF m = 2 THEN IF Leap(y) THEN 29 ELSE 28
    ELSE IF m \in {4, 6, 9, 11} THEN 30 ELSE 31

\* Day 0 is Saturday, 9 January 1971.
Init ==
    /\ mjd = 0 /\ weekday = 6
    /\ date = [year |-> 1971, month |-> 1, day |-> 9]
    /\ l = 0 /\ r \in Seconds

\* The calendar walk goes beside one of the operands only.
NextDay ==
    /\ l = 0 /\ r = 1 /\ mjd < LastDate
    /\ mjd' = mjd + 1
    /\ weekday' = (weekday % 7) + 1
    /\ date' = IF date.day < LengthOf(date.year, date.month)
               THEN [date EXCEPT !.day = @ + 1]
               ELSE IF date.month < 12
               THEN [date EXCEPT !.day = 1, !.month = @ + 1]
               ELSE [year |-> date.year + 1, month |-> 1, day |-> 1]
    /\ UNCHANGED <<l, r>>

NextMinute ==
    /\ mjd = 0 /\ l < DayMinutes - 1
    /\ l' = l + 1
    /\ UNCHANGED <<mjd, date, weekday, r>>

Spec == Init /\ [][NextDay \/ NextMinute]_<<mjd, date, weekday, l, r>>
-----------------------------------------------------------------------------
\* A date survives the menu, which turns the day number into a year, a month
\* and a day and back again, and its weekday is the calendar's (CS_DT_MJDtoYMD,
\* CS_DT_YMDtoMJD, CS_DT_CalculateWeekDay): over every leap year and every end
\* of a month until 28 February 2100, the last day the formulas are made for.
CalendarKept ==
    /\ MJDtoYMD(mjd) = date
    /\ YMDtoMJD(date) = mjd
    /\ CalculateWeekDay(mjd) = weekday

\* The first two days, and the last.
Dates == {0, 1, 65535}
Of(minutes) == HMtoUTC([hour |-> minutes \div 60, minute |-> minutes % 60])
InMinutes(day, utc) ==
    day * DayMinutes + UTCtoHM(utc).hour * 60 + UTCtoHM(utc).minute

\* An offset, a duration or elapsed time is added to a date and time, or
\* subtracted from it, as if both were minutes, with the carry into the 16-bit
\* date (CS_DT_UTC_Add and CS_DT_UTC_Subtract as DT_CorrectTimeByTDTTOT,
\* TIMER_GetJobCurrentAction and DT_UpdateTimeByOS use them).
MinutesKept ==
    \A day \in Dates :
        LET s == UTC_Add(Of(l), Of(r))
            d == UTC_Subtract(Of(l), Of(r))
        IN  /\ InMinutes(U16(day + s.days), s.utc) = (day * DayMinutes + l + r) % Span
            /\ InMinutes(U16(day - d.days), d.utc) = (day * DayMinutes + l - r) % Span

\* The words timer.c compares are ordered as the minutes they stand for, on the
\* same day and on different ones.
OrderKept ==
    r < DayMinutes =>
    \A a, b \in {0, 1, 32767} :
        Packed(a, Of(l)) < Packed(b, Of(r)) <=> a * DayMinutes + l < b * DayMinutes + r
=============================================================================
