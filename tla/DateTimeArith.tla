---------------------------- MODULE DateTimeArith ----------------------------
(***************************************************************************)
(* The arithmetic of date_time.c on its own types: a date is a 16-bit day  *)
(* number, a time of the day four BCD digits (hhmm), and the two packed    *)
(* into one 32-bit word are what timer.c compares.  LocalClock and         *)
(* DateTime count minutes instead; the properties below say that nothing   *)
(* is lost by that.                                                        *)
(***************************************************************************)
EXTENDS Integers

U8(x)  == x % 256
U16(x) == x % 65536

\* The first day of a 16-bit date: 0xa000 days after the MJD epoch.
Epoch == 40960

Digit(utc, n) == (utc \div 16^n) % 16
-----------------------------------------------------------------------------
(* Times of the day.                                                       *)

Hours(utc)   == Digit(utc, 3) * 10 + Digit(utc, 2)
Minutes(utc) == Digit(utc, 1) * 10 + Digit(utc, 0)

\* Fault: the tens of the minutes are not shifted.
DigitsNarrow(hours, minutes) ==
    ((hours \div 10) % 16) * 4096 + (hours % 10) * 256
      + ((minutes \div 10) % 16) + (minutes % 10)

\* Four BCD digits; the tens are four bits wide.
Digits(hours, minutes) ==
    ((hours \div 10) % 16) * 4096 + (hours % 10) * 256
      + ((minutes \div 10) % 16) * 16 + (minutes % 10)

\* CS_DT_UTCtoHM, and CS_DT_HMtoUTC on 8-bit hours and minutes.
UTCtoHM(utc) == [hour |-> U8(Hours(utc)), minute |-> U8(Minutes(utc))]
HMtoUTC(hm)  == Digits(hm.hour, hm.minute)

\* Fault: sixty minutes are not carried.
UTC_AddLate(l, r) ==
    LET m     == Minutes(l) + Minutes(r)
        carry == IF m > 60 THEN (m - 1) \div 60 ELSE 0
        h     == Hours(l) + Hours(r) + carry
    IN  [days |-> h \div 24, utc |-> Digits(h % 24, m - 60 * carry)]

\* CS_DT_UTC_Add: the sum, and the days it carries in bits 24 to 31.
UTC_Add(l, r) ==
    LET m == Minutes(l) + Minutes(r)
        h == Hours(l) + Hours(r) + m \div 60
    IN  [days |-> h \div 24, utc |-> Digits(h % 24, m % 60)]

\* CS_DT_UTC_Subtract: the difference, and the days it borrows; 24 hours and
\* more stay as they are.
UTC_Subtract(l, r) ==
    LET m == Minutes(l) - Minutes(r)
        h == Hours(l) - Hours(r) + m \div 60
        borrow == IF h < 0 THEN -(h \div 24) ELSE 0
    IN  [days |-> borrow, utc |-> Digits(h + 24 * borrow, m % 60)]
-----------------------------------------------------------------------------
(* Dates.                                                                  *)

\* CS_DT_MJDtoYMD; its m_month never exceeds 12.
MJDtoYMD(mjd) ==
    LET cal   == mjd + Epoch
        yearX == (cal * 100 - 1507820) \div 36525
        days  == (yearX * 36525) \div 100
        monX  == (cal * 10000 - 149561000 - days * 10000) \div 306001
        k     == IF monX \in {14, 15} THEN 1 ELSE 0
    IN  [year  |-> yearX + k + 1900,
         month |-> U8(monX - 1 - k * 12),
         day   |-> U8(cal - 14956 - days - (monX * 306001) \div 10000)]

\* Fault: February belongs to its own year.
YMDtoMJDJanuary(ymd) ==
    LET l == IF ymd.month = 1 THEN 1 ELSE 0
    IN  U16(14956 + ymd.day + ((ymd.year - l - 1900) * 36525) \div 100
              + ((ymd.month + 1 + l * 12) * 306001) \div 10000 - Epoch)

\* CS_DT_YMDtoMJD.
YMDtoMJD(ymd) ==
    LET l == IF ymd.month \in {1, 2} THEN 1 ELSE 0
    IN  U16(14956 + ymd.day + ((ymd.year - l - 1900) * 36525) \div 100
              + ((ymd.month + 1 + l * 12) * 306001) \div 10000 - Epoch)

\* CS_DT_CalculateWeekDay: Monday is 1.
CalculateWeekDay(mjd) == ((mjd + Epoch + 2) % 7) + 1

\* The word that timer.c compares.
Packed(mjd, utc) == mjd * 65536 + utc
=============================================================================
