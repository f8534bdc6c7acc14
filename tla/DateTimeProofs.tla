--------------------------- MODULE DateTimeProofs ---------------------------
(* Theorems about DateTime, for every day length, word width and time zone.  *)
EXTENDS DateTime, TLAPS

\* The lengths and the word widths are positive.
LEMMA Positive ==
    /\ DayLen \in Nat \ {0} /\ HourLen \in Nat \ {0} /\ Days \in Nat \ {0}
    /\ Tick \in Nat \ {0} /\ OsWrap \in Nat \ {0}
    /\ HourWrap \in Nat \ {0} /\ TensWrap \in Nat \ {0}
BY DateTimeAssumption

\* How late the idle task may be.
LEMMA Bounds ==
    /\ Late \in Nat /\ Span \in Nat
    /\ 2 * Late <= OsWrap /\ TensWrap <= HourWrap
BY DateTimeAssumption

USE Positive, Bounds

\* What div and % return.
LEMMA DivMod ==
    ASSUME NEW a \in Int, NEW b \in Nat \ {0}
    PROVE  /\ a \div b \in Int /\ a % b \in 0 .. b - 1
           /\ a = b * (a \div b) + (a % b)
           /\ a >= 0 => a \div b \in Nat
BY SMT

\* The remainder is the only number below b that differs from a by a multiple.
LEMMA ModUnique ==
    ASSUME NEW a \in Int, NEW b \in Nat \ {0}, NEW q \in Int, NEW r \in 0 .. b - 1,
           a = b * q + r
    PROVE  a % b = r
<1> DEFINE p == a \div b  s == a % b
<1>1. p \in Int /\ s \in 0 .. b - 1 /\ a = b * p + s BY DivMod
<1> HIDE DEF p, s
<1>2. b * (p - q) = r - s BY <1>1
<1>3. p - q \in Int /\ r - s < b /\ r - s > -b BY <1>1
<1>4. p - q = 0
  <2>1. CASE p - q >= 1
    <3>1. b * (p - q) >= b BY <2>1, <1>3
    <3> QED BY <3>1, <1>2, <1>3
  <2>2. CASE p - q <= -1
    <3>1. b * (p - q) <= -b BY <2>2, <1>3
    <3> QED BY <3>1, <1>2, <1>3
  <2> QED BY <2>1, <2>2, <1>3
<1>5. s = r BY <1>1, <1>2, <1>4
<1> QED BY <1>5 DEF s

\* A positive factor can be cancelled from an inequality.
LEMMA SmallerFactor ==
    ASSUME NEW a \in Nat \ {0}, NEW b \in Int, NEW c \in Int, a * b < a * c
    PROVE  b < c
<1>1. CASE b >= c
  <2>1. b - c >= 0 /\ a * (b - c) < 0 BY <1>1
  <2>2. a * (b - c) >= 0 BY <2>1
  <2> QED BY <2>1, <2>2
<1> QED BY <1>1

\* What a quotient is bounded by.
LEMMA Quotient ==
    ASSUME NEW a \in Nat, NEW b \in Nat \ {0}, NEW c \in Nat
    PROVE  /\ a \div b \in Nat /\ a % b \in 0 .. b - 1
           /\ a = b * (a \div b) + (a % b)
           /\ a < b * c => a \div b < c
<1> DEFINE q == a \div b  r == a % b
<1>0. a \in Int /\ a >= 0 OBVIOUS
<1>1. q \in Nat /\ r \in 0 .. b - 1 /\ a = b * q + r BY <1>0, DivMod
<1> HIDE DEF q, r
<1>2. ASSUME a < b * c PROVE q < c
  <2>1. b * q < b * c BY <1>1, <1>2
  <2> QED BY <1>1, <2>1, SmallerFactor
<1>3. q \in Nat /\ r \in 0 .. b - 1 /\ a = b * q + r /\ (a < b * c => q < c) BY <1>1, <1>2
<1> QED BY <1>3 DEF q, r

\* Without a jump the ticks since LastUpdate are read as they are.
Since == (os - last) % OsWrap

\* abs() changes nothing while the idle task is not late.
LEMMA ElapsedForward ==
    ASSUME os \in Int, last \in Int, Since <= Late
    PROVE  Since \in Nat /\ Elapsed = Since
<1>1. Since \in Nat BY DivMod DEF Since
<1>2. ~(2 * Since > OsWrap) BY <1>1
<1> QED BY <1>1, <1>2 DEF Elapsed, Since

\* Less than 160 hours pass through the U8 and the two digits unharmed.
LEMMA AddedWhole ==
    ASSUME NEW m \in Nat, m < HourLen * TensWrap
    PROVE  Added(m) = m
<1> DEFINE h == m \div HourLen  s == m % HourLen
<1>1. h \in Nat /\ s \in 0 .. HourLen - 1 /\ m = HourLen * h + s BY Quotient
<1>2. h < TensWrap BY Quotient
<1> HIDE DEF h, s
<1>3. h \in 0 .. HourWrap - 1 /\ h = HourWrap * 0 + h BY <1>1, <1>2
<1>4. h % HourWrap = h BY <1>3, ModUnique
<1>5. h \in 0 .. TensWrap - 1 /\ h = TensWrap * 0 + h BY <1>1, <1>2
<1>6. h % TensWrap = h BY <1>5, ModUnique
<1>7. Added(m) = h * HourLen + s BY <1>4, <1>6 DEF Added, h, s
<1> QED BY <1>1, <1>7
-----------------------------------------------------------------------------
\* The invariant holds initially.
LEMMA InitIInv == Init => IInv
<1> SUFFICES ASSUME Init PROVE IInv
  OBVIOUS
<1>1. 0 - 0 = OsWrap * 0 + 0 /\ 0 \in 0 .. OsWrap - 1
  OBVIOUS
<1>2. Since = 0 BY <1>1, ModUnique DEF Init, Since
<1>3. Elapsed = 0 BY <1>2, ElapsedForward DEF Init
<1> QED
  BY <1>2, <1>3, DateTimeAssumption DEF Init, IInv, TypeOK, Complete, IdleApart, Working, InTime, NoDrift, Since, Times, Ticks, Modes,
         NoArg, NoHalf, Threads

\* There is a last date.
LEMMA LastTime == Days * DayLen \in Nat \ {0}
OBVIOUS

\* A date that wraps is a date.
LEMMA ShiftedType ==
    ASSUME NEW t \in Int, NEW o \in Int
    PROVE  Shifted(t, o) \in Times
<1>1. t + o \in Int OBVIOUS
<1> QED BY <1>1, LastTime, DivMod DEF Shifted, Times

\* A counter and a mark below it, both wrapping: one more tick.
LEMMA NextSince ==
    ASSUME NEW o \in Int, NEW l \in Int, NEW W \in Nat \ {0},
           ((o - l) % W) + 1 < W
    PROVE  (((o + 1) % W) - l) % W = ((o - l) % W) + 1
<1> DEFINE q == (o - l) \div W  r == (o - l) % W
           k == (o + 1) \div W  p == (o + 1) % W
<1>1. q \in Int /\ r \in 0 .. W - 1 /\ o - l = W * q + r
  <2>1. o - l \in Int OBVIOUS
  <2> QED BY <2>1, DivMod
<1>2. k \in Int /\ p \in 0 .. W - 1 /\ o + 1 = W * k + p
  <2>1. o + 1 \in Int OBVIOUS
  <2> QED BY <2>1, DivMod
<1> SUFFICES (p - l) % W = r + 1 OBVIOUS
<1>3. r + 1 < W OBVIOUS
<1> HIDE DEF q, r, k, p
<1>4. W * (q - k) = W * q - W * k BY <1>1, <1>2
<1>5. W * q \in Int /\ W * k \in Int BY <1>1, <1>2
<1>6. p - l = W * (q - k) + (r + 1) BY <1>1, <1>2, <1>4, <1>5
<1>7. q - k \in Int /\ r + 1 \in 0 .. W - 1 /\ p - l \in Int BY <1>1, <1>2, <1>3
<1> QED BY <1>6, <1>7, ModUnique

\* The mark moves on by no more than the ticks above it.
LEMMA MovedSince ==
    ASSUME NEW o \in Int, NEW l \in Int, NEW W \in Nat \ {0},
           NEW d \in Nat, d <= (o - l) % W
    PROVE  (o - ((l + d) % W)) % W = ((o - l) % W) - d
<1> DEFINE q == (o - l) \div W  r == (o - l) % W
           k == (l + d) \div W  p == (l + d) % W
<1>1. q \in Int /\ r \in 0 .. W - 1 /\ o - l = W * q + r
  <2>1. o - l \in Int OBVIOUS
  <2> QED BY <2>1, DivMod
<1>2. k \in Int /\ p \in 0 .. W - 1 /\ l + d = W * k + p
  <2>1. l + d \in Int OBVIOUS
  <2> QED BY <2>1, DivMod
<1> SUFFICES (o - p) % W = r - d OBVIOUS
<1>3. d <= r OBVIOUS
<1> HIDE DEF q, r, k, p
<1>4. W * (q + k) = W * q + W * k BY <1>1, <1>2
<1>5. W * q \in Int /\ W * k \in Int BY <1>1, <1>2
<1>6. o - p = W * (q + k) + (r - d) BY <1>1, <1>2, <1>4, <1>5
<1>7. q + k \in Int /\ r - d \in 0 .. W - 1 /\ o - p \in Int BY <1>1, <1>2, <1>3
<1> QED BY <1>6, <1>7, ModUnique

\* One more tick.
LEMMA CountStep ==
    ASSUME IInv, Count
    PROVE  IInv'
<1> USE DEF IInv
<1>1. os \in Int /\ last \in Int /\ counted \in Int BY DEF TypeOK, Ticks
<1>2. os' \in Ticks BY <1>1, DivMod DEF Count, Ticks
<1>3. CASE skew = "no"
  <2>1. Elapsed = Since /\ Since \in Nat BY <1>1, <1>3, ElapsedForward DEF InTime, Since
  <2>2. Since + 1 <= Late BY <1>3, <2>1 DEF Count
  <2>3. Since + 1 < OsWrap BY <2>1, <2>2
  <2>4. (((os + 1) % OsWrap) - last) % OsWrap = Since + 1
    BY <1>1, <2>3, NextSince DEF Since
  <2>8. Since' = Since + 1 /\ last' = last BY <2>4 DEF Since, Count
  <2>9. Elapsed' = Elapsed + 1
    <3>1. Elapsed' = IF 2 * Since' > OsWrap THEN OsWrap - Since' ELSE Since'
      BY DEF Elapsed, Since
    <3> QED BY <3>1, <2>1, <2>2, <2>8
  <2>10. InTime' BY <2>8, <2>2 DEF InTime, Since
  <2>11. NoDrift'
    <3>1. (settled - anchor) * Tick + Elapsed = counted BY <1>3 DEF NoDrift
    <3>2. settled' = settled /\ anchor' = anchor /\ counted' = counted + 1 BY DEF Count
    <3>3. (settled - anchor) * Tick \in Int BY DEF TypeOK, Times
    <3> HIDE DEF Elapsed, IInv
    <3> QED BY <3>1, <3>2, <3>3, <2>1, <2>9 DEF NoDrift
  <2> QED BY <1>2, <2>10, <2>11 DEF Count, TypeOK, Complete, IdleApart, Free, settings
<1>4. CASE skew # "no"
  BY <1>2, <1>4 DEF Count, TypeOK, Complete, IdleApart, Free, InTime, NoDrift, settings
<1> QED BY <1>3, <1>4

\* The ticks up to LastUpdate's new value are the minutes that are added.
LEMMA WholeMinutes ==
    ASSUME IInv, skew = "no"
    PROVE  /\ Elapsed = Since /\ Elapsed \in 0 .. Late /\ Minutes \in Nat
           /\ Added(Minutes) = Minutes
           /\ Minutes * Tick \in Nat /\ Minutes * Tick <= Elapsed
<1>1. os \in Int /\ last \in Int BY DEF IInv, TypeOK, Ticks
<1>2. Since <= Late BY DEF IInv, InTime, Since
<1>3. Since \in Nat /\ Elapsed = Since BY <1>1, <1>2, ElapsedForward
<1> DEFINE D == Elapsed
<1>4. D \in Nat /\ D <= Late /\ Minutes = D \div Tick BY <1>2, <1>3 DEF Minutes
<1> HIDE DEF D
<1>5. HourLen * TensWrap \in Nat BY SMT
<1>6. D < Tick * (HourLen * TensWrap)
  <2>1. Late < Tick * (HourLen * TensWrap) BY DateTimeAssumption
  <2>2. Tick * (HourLen * TensWrap) \in Int BY <1>5
  <2> QED BY <2>1, <2>2, <1>4
<1>7. /\ Minutes \in Nat /\ D % Tick \in 0 .. Tick - 1
      /\ D = Tick * Minutes + (D % Tick) /\ Minutes < HourLen * TensWrap
  BY <1>4, <1>5, <1>6, Quotient
<1>8. Added(Minutes) = Minutes BY <1>7, AddedWhole
<1>9. Minutes * Tick \in Nat /\ Minutes * Tick = Tick * Minutes
  <2> DEFINE m == Minutes
  <2>1. m \in Nat BY <1>7
  <2> HIDE DEF m
  <2>2. m * Tick \in Nat /\ m * Tick = Tick * m BY <2>1
  <2> QED BY <2>2 DEF m
<1>10. Minutes * Tick <= D
  <2> DEFINE x == Minutes * Tick  r == D % Tick
  <2>1. D = x + r /\ x \in Nat /\ r \in Nat BY <1>7, <1>9
  <2> HIDE DEF x, r
  <2>2. x <= D BY <2>1, <1>4
  <2> QED BY <2>2 DEF x
<1> QED BY <1>3, <1>4, <1>7, <1>8, <1>9, <1>10 DEF D

\* The idle task adds the minutes.
LEMMA UpdateStep ==
    ASSUME IInv, UpdateTimeByOS
    PROVE  IInv'
<1> USE DEF IInv
<1>1. os \in Int /\ last \in Int /\ counted \in Int /\ local = settled
  BY DEF TypeOK, Ticks, Complete, UpdateTimeByOS
<1>2. /\ os' = os /\ last' = Reading /\ counted' = counted /\ anchor' = anchor
      /\ local' = local + Added(Minutes) /\ local' \in Times /\ settled' = local'
  BY DEF UpdateTimeByOS
<1>3. ASSUME skew = "no"
      PROVE  last' \in Ticks /\ InTime' /\ NoDrift'
  <2>1. /\ Elapsed = Since /\ Elapsed \in 0 .. Late /\ Minutes \in Nat
        /\ Added(Minutes) = Minutes
        /\ Minutes * Tick \in Nat /\ Minutes * Tick <= Elapsed
    BY <1>3, WholeMinutes
  <2> DEFINE D == Elapsed  m == Minutes  x == Minutes * Tick
  <2>2. D = Since /\ D \in 0 .. Late /\ m \in Nat /\ x \in Nat /\ x <= D BY <2>1
  <2>3. last' = (last + x) % OsWrap BY <1>2 DEF Reading
  <2>4. local' = local + m BY <1>2, <2>1
  <2>5. (settled - anchor) * Tick + D = counted BY <1>3 DEF NoDrift
  <2>6. x = m * Tick OBVIOUS
  <2> HIDE DEF D, m, x
  <2>7. last' \in Ticks
    <3>1. last + x \in Int BY <1>1, <2>2
    <3> QED BY <2>3, <3>1, DivMod DEF Ticks
  <2>8. (os - ((last + x) % OsWrap)) % OsWrap = D - x
    <3>1. D = (os - last) % OsWrap BY <2>2 DEF Since
    <3>2. x <= (os - last) % OsWrap BY <2>2, <3>1
    <3>3. (os - ((last + x) % OsWrap)) % OsWrap = ((os - last) % OsWrap) - x
      <4>1. os \in Int /\ last \in Int /\ x \in Nat BY <1>1, <2>2
      <4>2. OsWrap \in Nat \ {0} BY Positive
      <4> QED BY ONLY <4>1, <4>2, <3>2, MovedSince, ZenonT(40)
    <3> QED BY <3>1, <3>3
  <2>9. Since' = D - x BY <2>8, <2>3, <1>2 DEF Since
  <2>10. Elapsed' = D - x
    <3>1. Elapsed' = IF 2 * Since' > OsWrap THEN OsWrap - Since' ELSE Since'
      BY DEF Elapsed, Since
    <3> QED BY <3>1, <2>2, <2>9
  <2>11. InTime' BY <2>2, <2>9 DEF InTime, Since
  <2>12. NoDrift'
    <3> DEFINE a == settled - anchor  E == Elapsed'
    <3>1. a \in Int /\ local \in Int /\ anchor \in Int
      BY <1>1 DEF TypeOK, Times
    <3>2. settled' - anchor' = a + m
      <4>1. settled' = settled + m BY <2>4, <1>1, <1>2
      <4> QED BY <4>1, <1>2, <1>1, <3>1, <2>2
    <3>3. a * Tick + D = counted BY <2>5
    <3>4. E = D - x BY <2>10
    <3> HIDE DEF a, E, IInv
    <3>5. (a + m) * Tick = a * Tick + x BY <3>1, <2>2, <2>6
    <3>6. a * Tick \in Int BY <3>1
    <3>7. (a + m) * Tick + E = counted BY <3>3, <3>4, <3>5, <3>6, <2>2
    <3> QED BY <3>2, <3>7, <1>2 DEF NoDrift, E
  <2> QED BY <2>7, <2>11, <2>12
<1>4. CASE skew = "no"
  BY <1>2, <1>3, <1>4 DEF UpdateTimeByOS, TypeOK, Complete, IdleApart, Working, settings, Goto
<1>5. CASE skew # "no"
  <2>1. skew' = "bad" BY <1>5 DEF UpdateTimeByOS
  <2>2. last' \in Ticks
    <3>1. Minutes * Tick \in Int
      <4> DEFINE d == (os - last) % OsWrap
      <4>1. d \in Int /\ OsWrap - d \in Int
        <5>1. os - last \in Int BY <1>1
        <5> QED BY <5>1, DivMod
      <4>2. Elapsed \in Int BY <4>1 DEF Elapsed
      <4>3. Minutes \in Int BY <4>2, DivMod DEF Minutes
      <4> QED BY <4>3
    <3>2. last + Minutes * Tick \in Int BY <3>1, <1>1
    <3> QED BY <3>2, <1>2, DivMod DEF Reading, Ticks
  <2> QED BY <1>2, <2>1, <2>2
      DEF UpdateTimeByOS, TypeOK, Complete, IdleApart, Working, InTime, NoDrift, settings, Goto
<1> QED BY <1>4, <1>5
-----------------------------------------------------------------------------
(* The threads that set the time.                                          *)

\* The distance of a reading from itself.
LEMMA NoDistance ==
    ASSUME NEW a \in Int, NEW b \in Int, a = b
    PROVE  a - b = 0 /\ (a - b) % OsWrap = 0
<1>1. a - b \in Int /\ a - b = OsWrap * 0 + 0 /\ 0 \in 0 .. OsWrap - 1 OBVIOUS
<1>2. (a - b) % OsWrap = 0 BY <1>1, ModUnique
<1> QED BY <1>1, <1>2

\* After LastUpdate := now nothing is left to add.
LEMMA FreshReading ==
    ASSUME os' \in Int, last' = os'
    PROVE  Since' = 0 /\ Elapsed' = 0
<1>1. (os' - last') % OsWrap = 0 BY NoDistance
<1>3. Since' = 0 BY <1>1 DEF Since
<1>4. Elapsed' = IF 2 * Since' > OsWrap THEN OsWrap - Since' ELSE Since'
  BY DEF Elapsed, Since
<1> QED BY <1>3, <1>4

\* The OS clock and the reading of it agree after a setting under the semaphore.
LEMMA RestartStep ==
    ASSUME TypeOK, os' \in Int, last' = os', counted' = 0, settled' = anchor',
           settled' \in Times
    PROVE  InTime' /\ NoDrift'
<1>1. Since' = 0 /\ Elapsed' = 0 BY FreshReading
<1>2. InTime'
  <2>1. Since' <= Late BY <1>1
  <2> QED BY <2>1 DEF InTime, Since
<1>3. settled' - anchor' = 0
  <2>1. settled' \in Int /\ anchor' \in Int BY DEF Times
  <2> QED BY <2>1, NoDistance
<1>4. NoDrift' BY <1>1, <1>3 DEF NoDrift
<1> QED BY <1>2, <1>4

\* The OS clock can be set to any date.
LEMMA SetOsType ==
    ASSUME NEW t \in Times
    PROVE  (t * Tick) % OsWrap \in Ticks
<1>1. t * Tick \in Int BY DEF Times
<1> QED BY <1>1, DivMod DEF Ticks

\* A broadcast time.
LEMMA SiStep ==
    ASSUME IInv, Section \/ ApplyOffset \/ ApplySummer \/ Stamp
    PROVE  IInv'
<1> USE DEF IInv
<1>0. local \in Int /\ offset \in Int /\ Si \in Threads /\ Si # Idle /\ Idle \in Threads
  BY DateTimeAssumption DEF TypeOK, Times, Threads
<1>1. CASE Section
  <2>1. TypeOK' /\ IdleApart'
    BY <1>0, <1>1, DateTimeAssumption
    DEF Section, TypeOK, IdleApart, Working, Goto, settings, history, Times
  <2>2. Complete'
    BY <1>0, <1>1 DEF Section, TypeOK, Complete, Free, Working, Goto, history
  <2>3. InTime' /\ NoDrift'
    BY <1>1 DEF Section, InTime, NoDrift, Elapsed, history
  <2> QED BY <2>1, <2>2, <2>3
<1>2. CASE ApplyOffset
  <2>1. local' \in Times BY <1>0, <1>2, ShiftedType DEF ApplyOffset
  <2>2. TypeOK' /\ IdleApart'
    BY <2>1, <1>0, <1>2 DEF ApplyOffset, TypeOK, IdleApart, Working, Goto, settings, history
  <2>3. Complete'
    BY <1>0, <1>2 DEF ApplyOffset, TypeOK, Complete, Free, Working, Goto
  <2>4. InTime' /\ NoDrift'
    BY <1>2 DEF ApplyOffset, InTime, NoDrift, Elapsed, history
  <2> QED BY <2>2, <2>3, <2>4
<1>3. CASE ApplySummer
  <2>1. local' \in Times
    <3>1. HourLen \in Int OBVIOUS
    <3> QED BY <3>1, <1>0, <1>3, ShiftedType DEF ApplySummer, SetLocal, TypeOK
  <2>2. settled' = local' /\ anchor' = local' BY <1>3 DEF ApplySummer, SetLocal
  <2>3. os' \in Ticks BY <2>1, <1>3, SetOsType DEF ApplySummer, SetOs
  <2>4. skew' \in {"set", "bad"} BY <1>3 DEF ApplySummer, SetOs
  <2>5. TypeOK' /\ IdleApart'
    BY <2>1, <2>2, <2>3, <2>4, <1>0, <1>3
    DEF ApplySummer, TypeOK, IdleApart, Working, Goto, settings
  <2> QED BY <2>2, <2>4, <2>5 DEF Complete, InTime, NoDrift
<1>4. CASE Stamp
  <2>1. os' \in Int /\ last' = os' /\ settled' = settled /\ anchor' = anchor /\ settled' \in Times
    BY <1>4 DEF Stamp, TypeOK, Ticks
  <2>2. TypeOK' /\ IdleApart'
    BY <1>0, <1>4 DEF Stamp, TypeOK, IdleApart, Working, Goto, settings
  <2>3. Complete'
    BY <1>0, <1>4 DEF Stamp, TypeOK, Complete, Free, Working, Goto
  <2>4. InTime' /\ NoDrift'
    <3>1. CASE skew' = "no"
      <4>1. counted' = 0 /\ settled' = anchor' BY <3>1, <1>4, <2>1 DEF Stamp
      <4> QED BY <4>1, <2>1, RestartStep
    <3>2. CASE skew' # "no"
      BY <3>2 DEF InTime, NoDrift
    <3> QED BY <3>1, <3>2
  <2> QED BY <2>2, <2>3, <2>4
<1> QED BY <1>1, <1>2, <1>3, <1>4

\* A menu or the network time.
LEMMA SetterStepInv ==
    ASSUME IInv, NEW n \in Setters, SetterStep(n)
    PROVE  IInv'
<1> USE DEF IInv
<1>0. /\ n \in Threads /\ n # Idle /\ Idle \in Threads /\ os \in Int /\ os \in Ticks
      /\ tdt \in Times /\ tdt \in Int /\ offset \in Int
  BY DateTimeAssumption DEF TypeOK, Times, Threads, Ticks
<1>1. CASE ManualSetDateAndTime(n)
  <2>1. /\ local' \in Times /\ settled' = local' /\ anchor' = local'
        /\ os' = os /\ last' = os' /\ counted' = 0 /\ skew' = "no"
    BY <1>1, DateTimeAssumption
    DEF ManualSetDateAndTime, SetLocal, Restart, Times
  <2>2. TypeOK' /\ IdleApart'
    BY <2>1, <1>0, <1>1
    DEF ManualSetDateAndTime, TypeOK, IdleApart, Working, Goto, settings
  <2>3. InTime' /\ NoDrift' BY <2>1, <1>0, RestartStep
  <2> QED BY <2>1, <2>2, <2>3 DEF Complete
<1>2. CASE ManualSetUTCOffset(n)
  <2>1. TypeOK' /\ IdleApart'
    BY <1>0, <1>2
    DEF ManualSetUTCOffset, TypeOK, IdleApart, Working, Goto, settings, history
  <2>2. Complete'
    BY <1>0, <1>2 DEF ManualSetUTCOffset, TypeOK, Complete, Free, Working, Goto
  <2>3. InTime' /\ NoDrift'
    BY <1>2 DEF ManualSetUTCOffset, InTime, NoDrift, Elapsed, history
  <2> QED BY <2>1, <2>2, <2>3
<1>3. CASE ApplyZone(n)
  <2>1. /\ local' \in Times /\ settled' = local' /\ anchor' = local'
        /\ os' = os /\ last' = os' /\ counted' = 0 /\ skew' = "no"
    BY <1>3, <1>0, ShiftedType DEF ApplyZone, SetLocal, Restart
  <2>2. TypeOK' /\ IdleApart'
    BY <2>1, <1>0, <1>3
    DEF ApplyZone, TypeOK, IdleApart, Working, Goto, settings
  <2>3. InTime' /\ NoDrift' BY <2>1, <1>0, RestartStep
  <2> QED BY <2>1, <2>2, <2>3 DEF Complete
<1>4. CASE SetTimeRegion(n)
  BY <1>4
  DEF SetTimeRegion, TypeOK, IdleApart, Complete, Free, InTime, NoDrift, Elapsed, history
<1>5. CASE SetTimeMode(n)
  <2>1. TypeOK' /\ IdleApart'
    BY <1>0, <1>5 DEF SetTimeMode, TypeOK, IdleApart, Working, Goto, history
  <2>2. Complete'
    BY <1>0, <1>5 DEF SetTimeMode, TypeOK, Complete, Free, Working, Goto, history
  <2>3. InTime' /\ NoDrift'
    BY <1>5 DEF SetTimeMode, InTime, NoDrift, Elapsed, history
  <2> QED BY <2>1, <2>2, <2>3
<1>6. CASE EnableAutomaticTime(n)
  <2>1. TypeOK' /\ IdleApart'
    BY <1>0, <1>6 DEF EnableAutomaticTime, TypeOK, IdleApart, Working, Goto, history
  <2>2. Complete'
    BY <1>0, <1>6 DEF EnableAutomaticTime, Complete, history
  <2>3. InTime' /\ NoDrift'
    BY <1>6 DEF EnableAutomaticTime, InTime, NoDrift, Elapsed, history
  <2> QED BY <2>1, <2>2, <2>3
<1>7. CASE SetClock(n)
  <2>1. os' \in Ticks
    BY <1>7, SetOsType, DateTimeAssumption DEF SetClock, SetOs, Times
  <2>2. skew' \in {"set", "bad"} BY <1>7 DEF SetClock, SetOs
  <2> QED BY <2>1, <2>2, <1>7
      DEF SetClock, TypeOK, IdleApart, Complete, Free, InTime, NoDrift, settings
<1> QED BY <1>1, <1>2, <1>3, <1>4, <1>5, <1>6, <1>7 DEF SetterStep

\* A delivery.
LEMMA NotifyStep ==
    ASSUME IInv, NEW n \in Threads, LoadHalf(n) \/ Return(n)
    PROVE  IInv'
<1> USE DEF IInv
<1>0. Idle \in Threads BY DEF Threads
<1>1. CASE LoadHalf(n)
  <2>1. local \div DayLen \in Int /\ local % DayLen \in Int
    <3>1. local \in Int BY DEF TypeOK, Times
    <3> QED BY <3>1, DivMod
  <2>2. TypeOK' /\ IdleApart'
    BY <1>0, <1>1, <2>1 DEF LoadHalf, TypeOK, IdleApart, Working, settings, history
  <2>3. Complete'
    BY <1>1 DEF LoadHalf, TypeOK, Complete, Free, Working, history
  <2>4. InTime' /\ NoDrift'
    BY <1>1 DEF LoadHalf, InTime, NoDrift, Elapsed, history
  <2> QED BY <2>2, <2>3, <2>4
<1>2. CASE Return(n)
  <2>1. TypeOK' /\ IdleApart'
    BY <1>0, <1>2
    DEF Return, TypeOK, IdleApart, Working, Goto, settings, history, NoArg, NoHalf
  <2>2. Complete'
    BY <1>2 DEF Return, TypeOK, Complete, Free, Working, Goto, history
  <2>3. InTime' /\ NoDrift'
    BY <1>2 DEF Return, InTime, NoDrift, Elapsed, history
  <2> QED BY <2>1, <2>2, <2>3
<1> QED BY <1>1, <1>2

\* Every step keeps the invariant.
LEMMA NextIInv == IInv /\ [Next]_vars => IInv'
<1> SUFFICES ASSUME IInv, [Next]_vars PROVE IInv'
  OBVIOUS
<1>1. CASE UNCHANGED vars
  BY <1>1
  DEF vars, settings, history, IInv, TypeOK, IdleApart, Complete, Free, InTime, NoDrift, Elapsed
<1>2. CASE Count BY <1>2, CountStep
<1>3. CASE UpdateTimeByOS BY <1>3, UpdateStep
<1>4. CASE Section \/ ApplyOffset \/ ApplySummer \/ Stamp BY <1>4, SiStep
<1>5. CASE \E n \in Setters : SetterStep(n) BY <1>5, SetterStepInv
<1>6. CASE \E n \in Threads : LoadHalf(n) \/ Return(n) BY <1>6, NotifyStep
<1> QED BY <1>1, <1>2, <1>3, <1>4, <1>5, <1>6 DEF Next
-----------------------------------------------------------------------------
\* The invariant behind the two theorems below.
THEOREM Inductive == Spec => []IInv
BY InitIInv, NextIInv, PTL DEF Spec

\* Every variable of date_time.c stays in its width, in every behaviour.
THEOREM TypeCorrect == Spec => []TypeOK
<1>1. IInv => TypeOK BY DEF IInv
<1> QED BY <1>1, Inductive, PTL

\* DT_UpdateTimeByOS neither loses nor repeats a tick of the OS clock, through every
\* wrap of the 32-bit reading, as long as the idle task runs within half a wrap.
THEOREM DriftFree == Spec => []NoDrift
<1>1. IInv => NoDrift BY DEF IInv
<1> QED BY <1>1, Inductive, PTL
-----------------------------------------------------------------------------
(* DateTime implements LocalClock: the local time is taken when the         *)
(* semaphore is free, and a thread notifies once it has left its critical   *)
(* section.                                                                 *)

\* The initial states map to initial states of LocalClock.
LEMMA InitRefines == Init => Clock!ClockInit
<1> SUFFICES ASSUME Init PROVE Clock!ClockInit
  OBVIOUS
<1>1. settled = BootTime /\ arg = [n \in Threads |-> Clock!NoArg]
  BY DEF Init, NoArg, NoHalf, Clock!NoArg, Clock!NoHalf
<1>2. Notifying = [n \in Threads |-> "run"] BY DEF Init, Notifying
<1> QED BY <1>1, <1>2 DEF Clock!ClockInit

\* A thread that is neither at DT_Notify before the step nor after it.
LEMMA Unnotified ==
    ASSUME IInv, pc' = pc
              \/ \E n \in Threads, q \in {"run", "base", "offset", "enable", "disable"} :
                    /\ pc[n] \in {"run", "base", "offset", "enable", "disable"}
                    /\ pc' = [pc EXCEPT ![n] = q]
    PROVE  Notifying' = Notifying
BY DEF IInv, TypeOK, Notifying

\* A thread that reaches DT_Notify with a time it has set.
LEMMA Notified ==
    ASSUME IInv, NEW n \in Threads, NEW q \in {"stamp", "load"},
           pc[n] \in {"run", "base", "offset"}, pc' = [pc EXCEPT ![n] = q]
    PROVE  Notifying[n] = "run" /\ Notifying' = [Notifying EXCEPT ![n] = "load"]
BY DEF IInv, TypeOK, Notifying

\* The minutes the idle task adds are minutes by which LocalClock may advance.
LEMMA UpdateRefines ==
    ASSUME IInv, IInv', UpdateTimeByOS
    PROVE  Clock!AdvanceTime
<1> DEFINE d == Added(Minutes)
<1>1. d \in Nat
  <2>1. Minutes \in Nat
    <3>1. os \in Int /\ last \in Int BY DEF IInv, TypeOK, Ticks
    <3>2. (os - last) % OsWrap \in Int
      <4>1. os - last \in Int BY <3>1
      <4> QED BY <4>1, DivMod
    <3>3. Elapsed \in Int BY <3>2 DEF Elapsed
    <3>4. Minutes \in Int BY <3>3, DivMod DEF Minutes
    <3> QED BY <3>4 DEF UpdateTimeByOS
  <2> DEFINE m == Minutes
  <2>2. m \in Nat BY <2>1
  <2> HIDE DEF m
  <2>3. m \div HourLen \in Int /\ m % HourLen \in Nat BY <2>2, DivMod
  <2> DEFINE h == (m \div HourLen) % HourWrap
  <2>4. h \in Int BY <2>3, DivMod
  <2> HIDE DEF h
  <2>5. h % TensWrap \in Nat
    <3>1. h % TensWrap \in 0 .. TensWrap - 1 BY <2>4, DivMod
    <3> QED BY <3>1
  <2>6. Added(m) \in Nat BY <2>3, <2>5 DEF Added, h
  <2> QED BY <2>6 DEF m
<1>2. /\ settled = local /\ settled' = settled + d
      /\ settled \in Times /\ settled + d \in Times
  BY DEF IInv, TypeOK, Complete, UpdateTimeByOS
<1> HIDE DEF d
<1>3. d \in Times /\ settled + d <= Days * DayLen BY <1>1, <1>2, LastTime DEF Times
<1>4. Idle \in Threads /\ pc[Idle] = "run" /\ pc' = [pc EXCEPT ![Idle] = "load"]
  BY DEF Threads, UpdateTimeByOS, Goto
<1>5. Notifying[Idle] = "run" /\ Notifying' = [Notifying EXCEPT ![Idle] = "load"]
  BY <1>4, Notified
<1>6. arg' = arg BY DEF UpdateTimeByOS
<1>7. Clock!ChangeTime(Idle, settled + d)
  BY <1>2, <1>5, <1>6 DEF Clock!ChangeTime
<1> QED BY <1>3, <1>7 DEF Clock!AdvanceTime

\* A thread that sets the time refines SetTime.
LEMMA SetRefines ==
    ASSUME IInv, IInv', NEW n \in Threads \ {Idle}, NEW q \in {"stamp", "load"},
           pc[n] \in {"run", "base", "offset"}, pc' = [pc EXCEPT ![n] = q], arg' = arg
    PROVE  Clock!SetTime(n)
<1>1. Notifying[n] = "run" /\ Notifying' = [Notifying EXCEPT ![n] = "load"]
  BY Notified
<1>2. settled' \in Times BY DEF IInv, TypeOK
<1>3. Clock!ChangeTime(n, settled') BY <1>1 DEF Clock!ChangeTime
<1> QED BY <1>2, <1>3 DEF Clock!SetTime

\* A load without the semaphore may find the work of the thread that holds it.
LEMMA LoadRefines ==
    ASSUME IInv, NEW n \in Threads, LoadHalf(n)
    PROVE  Clock!LoadHalf(n)
<1>1. local \in Clock!Loadable(n)
  <2>1. CASE Free
    <3>1. local = settled BY <2>1 DEF IInv, Complete
    <3> QED BY <3>1 DEF Clock!Loadable
  <2>2. CASE ~Free
    <3>1. PICK m \in Threads : pc[m] \in Working BY <2>2 DEF Free
    <3>2. m # n /\ m # Idle
      BY <3>1 DEF LoadHalf, IInv, IdleApart, Working
    <3>3. Notifying[m] = "run" BY <3>1 DEF Notifying, Working
    <3>4. local \in Times BY DEF IInv, TypeOK
    <3> QED BY <3>2, <3>3, <3>4 DEF Clock!Loadable
  <2> QED BY <2>1, <2>2
<1>2. /\ Notifying[n] = "load" /\ pc[n] = "load"
      /\ \A q \in {"load", "call"} :
           pc' = [pc EXCEPT ![n] = q] => Notifying' = [Notifying EXCEPT ![n] = q]
  BY DEF LoadHalf, IInv, TypeOK, Notifying
<1>3. settled' = settled BY DEF LoadHalf, history
<1>4. ASSUME arg[n].mjd = NoHalf, arg' = [arg EXCEPT ![n].mjd = local \div DayLen],
             pc' = [pc EXCEPT ![n] = IF arg[n].utc = NoHalf THEN "load" ELSE "call"]
      PROVE  Clock!LoadHalf(n)
  BY <1>1, <1>2, <1>3, <1>4 DEF Clock!LoadHalf, Clock!MjdOf, Clock!NoHalf, NoHalf
<1>5. ASSUME arg[n].utc = NoHalf, arg' = [arg EXCEPT ![n].utc = local % DayLen],
             pc' = [pc EXCEPT ![n] = IF arg[n].mjd = NoHalf THEN "load" ELSE "call"]
      PROVE  Clock!LoadHalf(n)
  BY <1>1, <1>2, <1>3, <1>5 DEF Clock!LoadHalf, Clock!UtcOf, Clock!NoHalf, NoHalf
<1> QED BY <1>4, <1>5 DEF LoadHalf

\* The end of a delivery is one of LocalClock.
LEMMA ReturnRefines ==
    ASSUME IInv, NEW n \in Threads, Return(n)
    PROVE  Clock!Return(n)
<1>1. Notifying[n] = "call" /\ Notifying' = [Notifying EXCEPT ![n] = "run"]
  BY DEF Return, Goto, IInv, TypeOK, Notifying
<1>2. settled' = settled /\ arg' = [arg EXCEPT ![n] = Clock!NoArg]
  BY DEF Return, history, NoArg, NoHalf, Clock!NoArg, Clock!NoHalf
<1> QED BY <1>1, <1>2 DEF Clock!Return

\* A section, whose work takes four steps, changes LocalClock in one.
LEMMA SiRefines ==
    ASSUME IInv, IInv', Section \/ ApplyOffset \/ ApplySummer \/ Stamp
    PROVE  Clock!SetTime(Si) \/ UNCHANGED <<settled, Notifying, arg>>
<1>0. Si \in Threads \ {Idle} BY DateTimeAssumption DEF Threads
<1>1. CASE Section
  <2>1. Notifying' = Notifying BY <1>0, <1>1, Unnotified DEF Section, Goto
  <2> QED BY <2>1, <1>1 DEF Section, history
<1>2. CASE ApplyOffset
  <2>1. Notifying' = Notifying BY <1>0, <1>2, Unnotified DEF ApplyOffset, Goto
  <2> QED BY <2>1, <1>2 DEF ApplyOffset, history
<1>3. CASE ApplySummer
  BY <1>0, <1>3, SetRefines DEF ApplySummer, Goto
<1>4. CASE Stamp
  <2>1. Notifying' = Notifying
    BY <1>4 DEF Stamp, Goto, IInv, TypeOK, Notifying
  <2> QED BY <2>1, <1>4 DEF Stamp
<1> QED BY <1>1, <1>2, <1>3, <1>4

\* So does a setting.
LEMMA SetterRefines ==
    ASSUME IInv, IInv', NEW n \in Setters, SetterStep(n)
    PROVE  Clock!SetTime(n) \/ UNCHANGED <<settled, Notifying, arg>>
<1>0. n \in Threads \ {Idle} BY DateTimeAssumption DEF Threads
<1>1. CASE ManualSetDateAndTime(n)
  BY <1>0, <1>1, SetRefines DEF ManualSetDateAndTime, Goto
<1>2. CASE ManualSetUTCOffset(n)
  <2>1. Notifying' = Notifying BY <1>0, <1>2, Unnotified DEF ManualSetUTCOffset, Goto
  <2> QED BY <2>1, <1>2 DEF ManualSetUTCOffset, history
<1>3. CASE ApplyZone(n)
  BY <1>0, <1>3, SetRefines DEF ApplyZone, Goto
<1>4. CASE SetTimeRegion(n) \/ SetClock(n)
  <2>1. pc' = pc BY <1>4 DEF SetTimeRegion, SetClock
  <2>2. Notifying' = Notifying BY <2>1, Unnotified
  <2> QED BY <2>2, <1>4 DEF SetTimeRegion, SetClock, history
<1>5. CASE SetTimeMode(n)
  <2>1. Notifying' = Notifying BY <1>0, <1>5, Unnotified DEF SetTimeMode, Goto
  <2> QED BY <2>1, <1>5 DEF SetTimeMode, history
<1>6. CASE EnableAutomaticTime(n)
  <2>1. Notifying' = Notifying BY <1>0, <1>6, Unnotified DEF EnableAutomaticTime, Goto
  <2> QED BY <2>1, <1>6 DEF EnableAutomaticTime, history
<1> QED BY <1>1, <1>2, <1>3, <1>4, <1>5, <1>6 DEF SetterStep

\* Every step maps to a step of LocalClock or to a stutter.
LEMMA NextRefines ==
    IInv /\ IInv' /\ [Next]_vars => [Clock!ClockNext]_(Clock!clockVars)
<1> SUFFICES ASSUME IInv, IInv', [Next]_vars
             PROVE  Clock!ClockNext \/ UNCHANGED <<settled, Notifying, arg>>
  BY DEF Clock!clockVars
<1>1. CASE UNCHANGED vars
  BY <1>1 DEF vars, history, Notifying
<1>2. CASE Count
  BY <1>2 DEF Count, Notifying
<1>3. CASE UpdateTimeByOS
  BY <1>3, UpdateRefines DEF Clock!ClockNext
<1>4. CASE Section \/ ApplyOffset \/ ApplySummer \/ Stamp
  BY <1>4, SiRefines DEF Clock!ClockNext, Threads
<1>5. CASE \E n \in Setters : SetterStep(n)
  BY <1>5, SetterRefines DEF Clock!ClockNext, Threads
<1>6. CASE \E n \in Threads : LoadHalf(n) \/ Return(n)
  BY <1>6, LoadRefines, ReturnRefines DEF Clock!ClockNext
<1> QED BY <1>1, <1>2, <1>3, <1>4, <1>5, <1>6 DEF Next

\* What timer.c is told is what LocalClock describes: every change of the time by any
\* thread is followed by one delivery of it, and nothing else is delivered.
THEOREM Refinement == Spec => ImplementsClock
BY InitRefines, NextRefines, Inductive, PTL
   DEF Spec, ImplementsClock, Clock!ClockSpec
=============================================================================
