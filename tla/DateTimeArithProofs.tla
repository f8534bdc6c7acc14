------------------------- MODULE DateTimeArithProofs -------------------------
(***************************************************************************)
(* Proofs about the arithmetic of date_time.c: four BCD digits stand for   *)
(* the minutes they were made from, sums and differences of them are sums  *)
(* and differences of minutes, and the day number and the calendar agree   *)
(* on every day until 28 February 2100.                                    *)
(***************************************************************************)
EXTENDS MCDateTimeArith, TLAPS

\* The minutes four digits can hold.
FourDigits == 0 .. 9599

\* The minutes of a day.
DayTimes == 0 .. 1439

-----------------------------------------------------------------------------
(* Times of the day.                                                       *)

\* What was written as digits is read back (CS_DT_HMtoUTC, CS_DT_UTCtoHM).
LEMMA DigitsRead ==
    ASSUME NEW h \in 0 .. 159, NEW m \in 0 .. 99
    PROVE  /\ Digits(h, m) \in Nat /\ U16(Digits(h, m)) = Digits(h, m)
           /\ Hours(Digits(h, m)) = h
           /\ Minutes(Digits(h, m)) = m
<1> DEFINE a == h \div 10
           b == h % 10
           c == m \div 10
           d == m % 10
           u == a * 4096 + b * 256 + c * 16 + d
<1>1. /\ a \in 0 .. 15 /\ b \in 0 .. 9 /\ h = 10 * a + b
      /\ c \in 0 .. 9 /\ d \in 0 .. 9 /\ m = 10 * c + d
  BY SMT
<1>2. Digits(h, m) = u
  <2>1. a % 16 = a /\ c % 16 = c
    BY <1>1, SMT
  <2> QED BY <2>1 DEF Digits
<1> HIDE DEF a, b, c, d
<1>3. u \in Nat /\ u < 65536
  BY <1>1, SMT
<1>4. /\ u \div 4096 = a /\ (u \div 256) % 16 = b
      /\ (u \div 16) % 16 = c /\ u % 16 = d
  BY <1>1, SMT
<1>5. a % 16 = a
  BY <1>1, SMT
<1> HIDE DEF u
<1>6. /\ Digit(u, 3) = a /\ Digit(u, 2) = b
      /\ Digit(u, 1) = c /\ Digit(u, 0) = d
  BY <1>3, <1>4, <1>5, SMT DEF Digit
<1>7. U16(u) = u
  BY <1>3, SMT DEF U16
<1>8. Hours(u) = h /\ Minutes(u) = m
  BY <1>1, <1>6, SMT DEF Hours, Minutes
<1> QED BY <1>2, <1>3, <1>7, <1>8

\* Minutes survive the four digits.
LEMMA OfRead ==
    ASSUME NEW x \in FourDigits
    PROVE  /\ Of(x) \in Nat /\ U16(Of(x)) = Of(x)
           /\ Hours(Of(x)) = x \div 60
           /\ Minutes(Of(x)) = x % 60
<1>1. x \div 60 \in 0 .. 159 /\ (x % 60) \in 0 .. 99
  <2>1. (x % 60) \in 0 .. 59
    BY Z3 DEF FourDigits
  <2>2. x \div 60 \in 0 .. 159
    BY Z3 DEF FourDigits
  <2> QED BY <2>1, <2>2, Z3
<1>2. Of(x) = Digits(x \div 60, x % 60)
  BY DEF Of, HMtoUTC
<1> DEFINE h == x \div 60
           m == x % 60
<1>3. /\ Digits(h, m) \in Nat /\ U16(Digits(h, m)) = Digits(h, m)
      /\ Hours(Digits(h, m)) = h /\ Minutes(Digits(h, m)) = m
  <2>1. h \in 0 .. 159 /\ m \in 0 .. 99
    BY <1>1
  <2> HIDE DEF h, m
  <2> QED BY <2>1, DigitsRead, Zenon
<1> QED BY <1>2, <1>3

\* A day and four digits, in minutes.
LEMMA InMinutesOf ==
    ASSUME NEW day \in Int, NEW x \in FourDigits
    PROVE  InMinutes(day, Of(x)) = day * DayMinutes + x
<1>1. /\ x \div 60 \in 0 .. 159 /\ (x % 60) \in 0 .. 59
      /\ x = 60 * (x \div 60) + (x % 60)
  BY Z3 DEF FourDigits
<1>2. UTCtoHM(Of(x)) = [hour |-> x \div 60, minute |-> (x % 60)]
  <2>1. U8(x \div 60) = x \div 60 /\ U8(x % 60) = (x % 60)
    BY <1>1, Z3 DEF U8
  <2>2. Hours(Of(x)) = x \div 60 /\ Minutes(Of(x)) = (x % 60)
    BY OfRead
  <2> QED BY <2>1, <2>2, Zenon DEF UTCtoHM
<1>3. InMinutes(day, Of(x)) = day * DayMinutes + (x \div 60) * 60 + (x % 60)
  BY <1>2 DEF InMinutes
<1> QED BY <1>1, <1>3, Z3 DEF DayMinutes, FourDigits

\* Hours and minutes carry as minutes do.
LEMMA Carried ==
    ASSUME NEW h \in Int, NEW m \in Int
    PROVE  LET n == 60 * h + m
               k == h + m \div 60
           IN  /\ k = n \div 60 /\ m % 60 = n % 60
               /\ k \div 24 = n \div DayMinutes
               /\ k % 24 = (n % DayMinutes) \div 60
               /\ m % 60 = (n % DayMinutes) % 60
               /\ n % DayMinutes \in 0 .. DayMinutes - 1
<1> DEFINE n == 60 * h + m
           k == h + m \div 60
           s == m % 60
           q == k \div 24
           t == k % 24
<1>1. k \in Int /\ s \in 0 .. 59 /\ n = 60 * k + s
  BY SMT
<1>2. n \div 60 = k /\ n % 60 = s
  <2> HIDE DEF n, k, s
  <2> QED BY <1>1, SMT
<1>3. q \in Int /\ t \in 0 .. 23 /\ k = 24 * q + t
  <2> HIDE DEF k
  <2> QED BY <1>1, SMT
<1>4. n = 1440 * q + (60 * t + s)
  <2> HIDE DEF n, k, s, q, t
  <2> QED BY <1>1, <1>3, SMT
<1>5. n \div 1440 = q /\ n % 1440 = 60 * t + s
  <2> HIDE DEF n, k, s, q, t
  <2> QED BY <1>1, <1>3, <1>4, SMT
<1>6. (60 * t + s) \div 60 = t /\ (60 * t + s) % 60 = s
  <2> HIDE DEF n, k, s, q, t
  <2> QED BY <1>1, <1>3, SMT
<1>7. 60 * t + s \in 0 .. 1439
  <2> HIDE DEF n, k, s, q, t
  <2> QED BY <1>1, <1>3, SMT
<1>8. DayMinutes = 1440
  BY SMT DEF DayMinutes
<1> HIDE DEF s, q, t
<1> QED BY <1>2, <1>5, <1>6, <1>7, <1>8 DEF s, q, t

\* The code's sum is the sum of the minutes, with the days it carries
\* (CS_DT_UTC_Add).
LEMMA AddIsSum ==
    ASSUME NEW x \in FourDigits, NEW y \in FourDigits
    PROVE  UTC_Add(Of(x), Of(y)) = [days |-> (x + y) \div DayMinutes,
                                    utc  |-> Of((x + y) % DayMinutes)]
<1> DEFINE h == (x \div 60) + (y \div 60)
           m == (x % 60) + (y % 60)
           n == 60 * h + m
           k == h + (m \div 60)
<1>1. h \in Int /\ m \in Int /\ n = x + y
  <2>1. /\ x \in Int /\ x \div 60 \in Int /\ (x % 60) \in Int
        /\ x = 60 * (x \div 60) + (x % 60)
    BY Z3 DEF FourDigits
  <2>2. /\ y \in Int /\ y \div 60 \in Int /\ (y % 60) \in Int
        /\ y = 60 * (y \div 60) + (y % 60)
    BY Z3 DEF FourDigits
  <2> QED BY <2>1, <2>2, Z3
<1>2. UTC_Add(Of(x), Of(y)) = [days |-> k \div 24, utc |-> Digits(k % 24, m % 60)]
  <2>1. /\ Hours(Of(x)) = x \div 60 /\ Minutes(Of(x)) = (x % 60)
        /\ Hours(Of(y)) = y \div 60 /\ Minutes(Of(y)) = (y % 60)
    BY OfRead
  <2> QED BY <2>1, Zenon DEF UTC_Add
<1>3. /\ k \div 24 = n \div DayMinutes
      /\ k % 24 = (n % DayMinutes) \div 60
      /\ m % 60 = (n % DayMinutes) % 60
  <2> HIDE DEF h, m
  <2> QED BY <1>1, Carried
<1>4. Of(n % DayMinutes) = Digits(k % 24, m % 60)
  BY <1>3, Zenon DEF Of, HMtoUTC
<1> HIDE DEF k, m, n
<1> QED BY <1>1, <1>2, <1>3, <1>4, Zenon

\* Its difference is the difference of the minutes, with the days it borrows
\* (CS_DT_UTC_Subtract).
LEMMA SubtractIsDifference ==
    ASSUME NEW x \in DayTimes, NEW y \in FourDigits
    PROVE  UTC_Subtract(Of(x), Of(y)) = [days |-> -((x - y) \div DayMinutes),
                                         utc  |-> Of((x - y) % DayMinutes)]
<1> DEFINE h == (x \div 60) - (y \div 60)
           m == (x % 60) - (y % 60)
           n == 60 * h + m
           k == h + (m \div 60)
           b == IF k < 0 THEN -(k \div 24) ELSE 0
<1>0. x \in FourDigits
  BY SMT DEF FourDigits, DayTimes
<1>1. h \in Int /\ m \in Int /\ n = x - y
  <2>1. /\ x \in Int /\ x \div 60 \in Int /\ (x % 60) \in Int
        /\ x = 60 * (x \div 60) + (x % 60)
    BY Z3 DEF DayTimes
  <2>2. /\ y \in Int /\ y \div 60 \in Int /\ (y % 60) \in Int
        /\ y = 60 * (y \div 60) + (y % 60)
    BY Z3 DEF FourDigits
  <2> QED BY <2>1, <2>2, Z3
<1>2. UTC_Subtract(Of(x), Of(y))
        = [days |-> b, utc |-> Digits(k + 24 * b, m % 60)]
  <2>1. /\ Hours(Of(x)) = x \div 60 /\ Minutes(Of(x)) = (x % 60)
        /\ Hours(Of(y)) = y \div 60 /\ Minutes(Of(y)) = (y % 60)
    BY <1>0, OfRead
  <2>2. UTC_Subtract(Of(x), Of(y))
          = LET mm == Minutes(Of(x)) - Minutes(Of(y))
                hh == Hours(Of(x)) - Hours(Of(y)) + mm \div 60
                bb == IF hh < 0 THEN -(hh \div 24) ELSE 0
            IN  [days |-> bb, utc |-> Digits(hh + 24 * bb, mm % 60)]
    BY Zenon DEF UTC_Subtract
  <2> QED BY <2>1, <2>2, Zenon
<1>3. /\ k \div 24 = n \div DayMinutes
      /\ k % 24 = (n % DayMinutes) \div 60
      /\ m % 60 = (n % DayMinutes) % 60
  <2> HIDE DEF h, m, b
  <2> QED BY <1>1, Carried
<1>5. b = -(k \div 24) /\ k + 24 * b = k % 24
  <2>1. /\ x \div 60 \in 0 .. 23 /\ x % 60 \in 0 .. 59
    BY Z3 DEF DayTimes
  <2>2. /\ y \div 60 \in Nat /\ y % 60 \in 0 .. 59
    <3>1. y \in Int /\ 0 <= y
      BY SMT DEF FourDigits
    <3> QED BY <3>1, Z3
  <2>3. h \in Int /\ h <= 23 /\ m \in Int /\ m <= 59
    BY <2>1, <2>2, SMT
  <2>4. k \in Int /\ k <= 23
    <3> HIDE DEF h, m
    <3>1. m \div 60 \in Int /\ m \div 60 <= 0
      BY <2>3, Z3
    <3> QED BY <2>3, <3>1, SMT
  <2> HIDE DEF k
  <2>5. k \div 24 \in Int /\ k = 24 * (k \div 24) + (k % 24) /\ k % 24 \in 0 .. 23
    BY <2>4, Z3
  <2>6. CASE k < 0
    BY <2>4, <2>5, <2>6, Z3
  <2>7. CASE ~(k < 0)
    BY <2>4, <2>5, <2>7, Z3
  <2> QED BY <2>6, <2>7
<1>4. Of(n % DayMinutes) = Digits(k % 24, m % 60)
  BY <1>3, Zenon DEF Of, HMtoUTC
<1> HIDE DEF k, m, n, b
<1> QED BY <1>1, <1>2, <1>3, <1>4, <1>5, Zenon

\* A date and time moved by n minutes wraps with the 16-bit date.
LEMMA Moved ==
    ASSUME NEW day \in Int, NEW n \in Int
    PROVE  /\ n % DayMinutes \in FourDigits
           /\ InMinutes(U16(day + (n \div DayMinutes)), Of(n % DayMinutes))
                = (day * DayMinutes + n) % Span
<1> DEFINE q == n \div DayMinutes
           t == n % DayMinutes
           e == day + q
<1>1. DayMinutes = 1440 /\ Span = 65536 * 1440
  BY SMT DEF DayMinutes, Span
<1>2. q \in Int /\ t \in 0 .. 1439 /\ n = 1440 * q + t
  BY <1>1, Z3
<1>3. t \in FourDigits
  <2> HIDE DEF t
  <2> QED BY <1>2, SMT DEF FourDigits
<1> HIDE DEF q, t
<1>4. U16(e) \in Int /\ \E c \in Int : e = 65536 * c + U16(e) /\ 0 <= U16(e) /\ U16(e) < 65536
  <2>1. e \in Int
    BY <1>2, SMT
  <2> HIDE DEF e
  <2>2. /\ e % 65536 \in Int /\ e \div 65536 \in Int
        /\ e = 65536 * (e \div 65536) + (e % 65536)
        /\ 0 <= e % 65536 /\ e % 65536 < 65536
    BY <2>1, Z3
  <2> QED BY <2>2, Z3 DEF U16
<1>5. InMinutes(U16(e), Of(t)) = U16(e) * 1440 + t
  <2> HIDE DEF e
  <2> QED BY <1>1, <1>3, <1>4, InMinutesOf
<1>6. PICK c \in Int : e = 65536 * c + U16(e) /\ 0 <= U16(e) /\ U16(e) < 65536
  BY <1>4
<1>7. PICK u \in Int : u = U16(e)
  BY <1>4
<1>8. day * 1440 + n = 94371840 * c + (u * 1440 + t)
  BY <1>2, <1>6, <1>7, Z3
<1>9. (day * 1440 + n) % 94371840 = u * 1440 + t
  <2>1. u * 1440 + t \in Int /\ 0 <= u * 1440 + t /\ u * 1440 + t < 94371840
    BY <1>2, <1>6, <1>7, Z3
  <2>2. PICK w \in Int : w = u * 1440 + t
    BY <2>1
  <2>3. (94371840 * c + w) % 94371840 = w
    BY <2>1, <2>2, Z3
  <2> QED BY <1>8, <2>2, <2>3
<1>10. Span = 94371840
  BY <1>1, SMT
<1> QED BY <1>1, <1>3, <1>5, <1>7, <1>9, <1>10 DEF q, t

\* An offset is added and subtracted in minutes on every day of the 16-bit
\* date, from every time of the day: what DT_CorrectTimeByTDTTOT,
\* TIMER_GetJobCurrentAction and DT_UpdateTimeByOS rely on.
THEOREM MinutesAdded ==
    ASSUME NEW day \in Int, NEW x \in DayTimes, NEW y \in FourDigits
    PROVE  LET s == UTC_Add(Of(x), Of(y))
               d == UTC_Subtract(Of(x), Of(y))
           IN  /\ InMinutes(U16(day + s.days), s.utc) = (day * DayMinutes + x + y) % Span
               /\ InMinutes(U16(day - d.days), d.utc) = (day * DayMinutes + x - y) % Span
<1>1. x \in Int /\ y \in Int /\ x + y \in Int /\ x - y \in Int
  BY SMT DEF FourDigits, DayTimes
<1>0. x \in FourDigits
  BY SMT DEF FourDigits, DayTimes
<1>2. DayMinutes = 1440 /\ DayMinutes \in Int
  BY SMT DEF DayMinutes
<1> DEFINE q == (x - y) \div DayMinutes
<1>3. q \in Int
  BY <1>1, <1>2, Z3
<1>4. day - (-q) = day + q
  <2> HIDE DEF q
  <2> QED BY <1>3, SMT
<1>5. /\ day * DayMinutes + x + y = day * DayMinutes + (x + y)
      /\ day * DayMinutes + x - y = day * DayMinutes + (x - y)
  BY <1>1, <1>2, SMT
<1>6. InMinutes(U16(day + ((x + y) \div DayMinutes)), Of((x + y) % DayMinutes))
        = (day * DayMinutes + (x + y)) % Span
  BY <1>1, Moved
<1>7. InMinutes(U16(day + q), Of((x - y) % DayMinutes))
        = (day * DayMinutes + (x - y)) % Span
  BY <1>1, Moved
<1>8. /\ UTC_Add(Of(x), Of(y)).days = (x + y) \div DayMinutes
      /\ UTC_Add(Of(x), Of(y)).utc = Of((x + y) % DayMinutes)
  BY <1>0, AddIsSum
<1>9. /\ UTC_Subtract(Of(x), Of(y)).days = -q
      /\ UTC_Subtract(Of(x), Of(y)).utc = Of((x - y) % DayMinutes)
  BY SubtractIsDifference
<1> HIDE DEF q
<1> QED BY <1>4, <1>5, <1>6, <1>7, <1>8, <1>9, Zenon

\* Of x minutes, a and b are the digits of the hours, c and d of the minutes.
WrittenAs(x, a, b, c, d) ==
    /\ a \in 0 .. 15 /\ b \in 0 .. 9 /\ c \in 0 .. 5 /\ d \in 0 .. 9
    /\ x = 600 * a + 60 * b + 10 * c + d
    /\ Of(x) = 4096 * a + 256 * b + 16 * c + d

LEMMA OfDigits ==
    ASSUME NEW x \in FourDigits
    PROVE  \E a, b, c, d \in Int : WrittenAs(x, a, b, c, d)
<1> DEFINE h == x \div 60
           m == x % 60
           a == h \div 10
           b == h % 10
           c == m \div 10
           d == m % 10
<1>1. h \in 0 .. 159 /\ m \in 0 .. 59 /\ x = 60 * h + m
  <2>1. h \in Int /\ m \in 0 .. 59 /\ x = 60 * h + m
    BY Z3 DEF FourDigits
  <2>2. h \in 0 .. 159
    BY Z3 DEF FourDigits
  <2> QED BY <2>1, <2>2
<1>2. Of(x) = Digits(h, m)
  BY DEF Of, HMtoUTC
<1> HIDE DEF h, m
<1>3. a \in 0 .. 15 /\ b \in 0 .. 9 /\ h = 10 * a + b
  BY <1>1, SMT
<1>4. c \in 0 .. 5 /\ d \in 0 .. 9 /\ m = 10 * c + d
  BY <1>1, SMT
<1>5. Digits(h, m) = (a % 16) * 4096 + b * 256 + (c % 16) * 16 + d
  BY DEF Digits
<1> HIDE DEF a, b, c, d
<1>6. a % 16 = a /\ c % 16 = c
  BY <1>3, <1>4, SMT
<1>7. /\ x = 600 * a + 60 * b + 10 * c + d
      /\ Of(x) = 4096 * a + 256 * b + 16 * c + d
  BY <1>1, <1>2, <1>3, <1>4, <1>5, <1>6, SMT
<1>8. WrittenAs(x, a, b, c, d)
  BY <1>3, <1>4, <1>7 DEF WrittenAs
<1>9. a \in Int /\ b \in Int /\ c \in Int /\ d \in Int
  BY <1>3, <1>4, SMT
<1> QED BY <1>8, <1>9, Zenon

\* Four digits are ordered as the minutes they stand for.
LEMMA OfOrdered ==
    ASSUME NEW x \in FourDigits, NEW y \in FourDigits
    PROVE  Of(x) < Of(y) <=> x < y
<1>1. PICK a, b, c, d \in Int : WrittenAs(x, a, b, c, d)
  BY OfDigits
<1>2. PICK e, f, g, i \in Int : WrittenAs(y, e, f, g, i)
  BY OfDigits
<1> QED BY <1>1, <1>2, SMTT(30) DEF WrittenAs

\* The words timer.c compares are ordered as the minutes they stand for, on any
\* two days.
THEOREM WordsOrdered ==
    ASSUME NEW a \in Nat, NEW b \in Nat,
           NEW x \in 0 .. DayMinutes - 1, NEW y \in 0 .. DayMinutes - 1
    PROVE  Packed(a, Of(x)) < Packed(b, Of(y))
             <=> a * DayMinutes + x < b * DayMinutes + y
<1>1. DayMinutes = 1440
  BY SMT DEF DayMinutes
<1>2. /\ x \in Int /\ 0 <= x /\ x < 1440 /\ x \in FourDigits
      /\ y \in Int /\ 0 <= y /\ y < 1440 /\ y \in FourDigits
  <2>1. /\ x \in Int /\ 0 <= x /\ x < 1440
        /\ y \in Int /\ 0 <= y /\ y < 1440
    BY <1>1, SMT
  <2>2. x \in FourDigits
    BY <2>1, SMT DEF FourDigits
  <2>3. y \in FourDigits
    BY <2>1, SMT DEF FourDigits
  <2> QED BY <2>1, <2>2, <2>3
<1>3. Of(x) < Of(y) <=> x < y
  BY <1>2, OfOrdered
<1>4. PICK u \in Nat : u = Of(x) /\ u < 65536
  <2>1. Of(x) \in Nat /\ U16(Of(x)) = Of(x)
    BY <1>2, OfRead
  <2> QED BY <2>1, SMT DEF U16
<1>5. PICK v \in Nat : v = Of(y) /\ v < 65536
  <2>1. Of(y) \in Nat /\ U16(Of(y)) = Of(y)
    BY <1>2, OfRead
  <2> QED BY <2>1, SMT DEF U16
<1>6. u = v <=> x = y
  <2>1. Of(y) < Of(x) <=> y < x
    BY <1>2, OfOrdered
  <2> QED BY <1>2, <1>3, <1>4, <1>5, <2>1, SMT
<1>7. a * 65536 + u < b * 65536 + v <=> a * 1440 + x < b * 1440 + y
  <2>1. CASE a < b
    BY <1>2, <1>4, <1>5, <2>1, SMT
  <2>2. CASE a > b
    BY <1>2, <1>4, <1>5, <2>2, SMT
  <2>3. CASE a = b
    BY <1>2, <1>3, <1>4, <1>5, <2>3, SMT
  <2> QED BY <2>1, <2>2, <2>3, SMT
<1> QED BY <1>1, <1>4, <1>5, <1>7 DEF Packed
-----------------------------------------------------------------------------
(* Dates.                                                                  *)

\* The days of the calendar that a 16-bit date starts in, until the last one
\* the formulas are made for.
Dated(d) ==
    /\ d \in [year : Int, month : 1 .. 12, day : Int]
    /\ 1971 <= d.year /\ d.year <= 2100
    /\ 1 <= d.day /\ d.day <= LengthOf(d.year, d.month)
    /\ d.year = 2100 => d.month \in {1, 2}

\* The formulas' years begin in March; their days, and the days of their months.
MarchYear(d)  == IF d.month \in {1, 2} THEN d.year - 1901 ELSE d.year - 1900
MarchMonth(d) == IF d.month \in {1, 2} THEN d.month + 13 ELSE d.month + 1
YearDays(y)   == (y * 36525) \div 100
MonthDays(m)  == (m * 306001) \div 10000

\* The day number before it is cut to 16 bits.
DayNumber(d) ==
    14956 + d.day + YearDays(MarchYear(d)) + MonthDays(MarchMonth(d)) - Epoch

\* A year of 365.25 days, rounded down, has a day more every fourth year.
LEMMA YearRounded ==
    ASSUME NEW y \in Int
    PROVE  /\ YearDays(y) = 365 * y + (y \div 4)
           /\ y \div 4 \in Int
           /\ YearDays(y) \in Int
<1>1. PICK q \in Int, k \in 0 .. 3 : y = 4 * q + k /\ y \div 4 = q
  BY Z3
<1>2. y * 36525 = 100 * (365 * y + q) + 25 * k
  BY <1>1, Z3
<1>3. YearDays(y) = 365 * y + q
  <2>1. PICK w \in Int : w = 365 * y + q
    BY <1>1, Z3
  <2>2. (100 * w + 25 * k) \div 100 = w
    BY <1>1, <2>1, Z3
  <2> QED BY <1>2, <2>1, <2>2 DEF YearDays
<1> QED BY <1>1, <1>3, Z3

\* The days before each month of a year that begins in March, 92 more than
\* there are: a month of 30.6001 days, rounded down.
LEMMA MonthTable ==
    /\ MonthDays(4) = 122 /\ MonthDays(5) = 153 /\ MonthDays(6) = 183
    /\ MonthDays(7) = 214 /\ MonthDays(8) = 244 /\ MonthDays(9) = 275
    /\ MonthDays(10) = 306 /\ MonthDays(11) = 336 /\ MonthDays(12) = 367
    /\ MonthDays(13) = 397 /\ MonthDays(14) = 428 /\ MonthDays(15) = 459
  BY Z3 DEF MonthDays

\* Every fourth year is a leap year from 1901 to 2099.
LEMMA LeapYears ==
    ASSUME NEW y \in Int, 1971 <= y, y <= 2100
    PROVE  /\ Leap(y) => y % 4 = 0
           /\ y # 2100 /\ y % 4 = 0 => Leap(y)
<1>1. y # 2100 /\ y % 4 = 0 => y % 100 # 0 \/ y % 400 = 0
  BY Z3
<1> QED BY <1>1 DEF Leap

\* Month k of a date: the month m of the formulas, with g days before it and
\* n days long.
InMonth(d, k, m, g, n) ==
    /\ d.month = k /\ MarchMonth(d) = m
    /\ MonthDays(m) = g
    /\ LengthOf(d.year, k) = n

LEMMA MonthCases ==
    ASSUME NEW d, d.month \in 1 .. 12
    PROVE  \/ InMonth(d, 2, 15, 459, IF Leap(d.year) THEN 29 ELSE 28)
           \/ InMonth(d, 1, 14, 428, 31)
           \/ InMonth(d, 3, 4, 122, 31)
           \/ InMonth(d, 4, 5, 153, 30)
           \/ InMonth(d, 5, 6, 183, 31)
           \/ InMonth(d, 6, 7, 214, 30)
           \/ InMonth(d, 7, 8, 244, 31)
           \/ InMonth(d, 8, 9, 275, 31)
           \/ InMonth(d, 9, 10, 306, 30)
           \/ InMonth(d, 10, 11, 336, 31)
           \/ InMonth(d, 11, 12, 367, 30)
           \/ InMonth(d, 12, 13, 397, 31)
<1>1. CASE d.month = 1
  BY <1>1, MonthTable, SMT DEF InMonth, MarchMonth, LengthOf
<1>2. CASE d.month = 2
  BY <1>2, MonthTable, SMT DEF InMonth, MarchMonth, LengthOf
<1>3. CASE d.month = 3
  BY <1>3, MonthTable, SMT DEF InMonth, MarchMonth, LengthOf
<1>4. CASE d.month = 4
  BY <1>4, MonthTable, SMT DEF InMonth, MarchMonth, LengthOf
<1>5. CASE d.month = 5
  BY <1>5, MonthTable, SMT DEF InMonth, MarchMonth, LengthOf
<1>6. CASE d.month = 6
  BY <1>6, MonthTable, SMT DEF InMonth, MarchMonth, LengthOf
<1>7. CASE d.month = 7
  BY <1>7, MonthTable, SMT DEF InMonth, MarchMonth, LengthOf
<1>8. CASE d.month = 8
  BY <1>8, MonthTable, SMT DEF InMonth, MarchMonth, LengthOf
<1>9. CASE d.month = 9
  BY <1>9, MonthTable, SMT DEF InMonth, MarchMonth, LengthOf
<1>10. CASE d.month = 10
  BY <1>10, MonthTable, SMT DEF InMonth, MarchMonth, LengthOf
<1>11. CASE d.month = 11
  BY <1>11, MonthTable, SMT DEF InMonth, MarchMonth, LengthOf
<1>12. CASE d.month = 12
  BY <1>12, MonthTable, SMT DEF InMonth, MarchMonth, LengthOf
<1> QED BY <1>1, <1>2, <1>3, <1>4, <1>5, <1>6, <1>7, <1>8, <1>9, <1>10, <1>11, <1>12

\* Within its year, a date is the day that the formulas look for: in the month
\* they count, and before the next March.
LEMMA WithinMarchYear ==
    ASSUME NEW d, Dated(d)
    PROVE  LET y == MarchYear(d)
               m == MarchMonth(d)
               n == d.day + MonthDays(m)
           IN  /\ y \in Int /\ 70 <= y /\ y <= 199
               /\ m \in 4 .. 15 /\ n \in Int /\ MonthDays(m) \in Int
               /\ 123 <= n /\ n <= 488
               /\ n = 488 => y % 4 = 3
               /\ 306001 * m <= 10000 * n - 1000
               /\ 10000 * n - 1000 < 306001 * m + 306001
<1> DEFINE y == MarchYear(d)
           m == MarchMonth(d)
           n == d.day + MonthDays(m)
<1>1. /\ d.year \in Int /\ 1971 <= d.year /\ d.year <= 2100
      /\ d.month \in 1 .. 12
      /\ d.day \in Int /\ 1 <= d.day /\ d.day <= LengthOf(d.year, d.month)
      /\ d.year = 2100 => d.month \in {1, 2}
  BY SMT DEF Dated
<1>2. y \in Int /\ 70 <= y /\ y <= 199
  BY <1>1, SMT DEF MarchYear
<1> HIDE DEF y
<1>3. \/ m = 15 /\ MonthDays(m) = 459 /\ d.day <= 29
      \/ m = 14 /\ MonthDays(m) = 428 /\ d.day <= 31
      \/ m = 4 /\ MonthDays(m) = 122 /\ d.day <= 31
      \/ m = 5 /\ MonthDays(m) = 153 /\ d.day <= 30
      \/ m = 6 /\ MonthDays(m) = 183 /\ d.day <= 31
      \/ m = 7 /\ MonthDays(m) = 214 /\ d.day <= 30
      \/ m = 8 /\ MonthDays(m) = 244 /\ d.day <= 31
      \/ m = 9 /\ MonthDays(m) = 275 /\ d.day <= 31
      \/ m = 10 /\ MonthDays(m) = 306 /\ d.day <= 30
      \/ m = 11 /\ MonthDays(m) = 336 /\ d.day <= 31
      \/ m = 12 /\ MonthDays(m) = 367 /\ d.day <= 30
      \/ m = 13 /\ MonthDays(m) = 397 /\ d.day <= 31
  BY <1>1, MonthCases, SMT DEF InMonth
<1> HIDE DEF m
<1>4. d.day = 29 /\ m = 15 => y % 4 = 3
  <2> SUFFICES ASSUME d.day = 29, m = 15
               PROVE  y % 4 = 3
    OBVIOUS
  <2>1. d.month = 2
    BY <1>1, SMT DEF m, MarchMonth
  <2>2. Leap(d.year)
    BY <1>1, <2>1, SMT DEF LengthOf
  <2>3. d.year % 4 = 0 /\ d.year = y + 1901
    BY <1>1, <2>1, <2>2, LeapYears, SMT DEF y, MarchYear
  <2> QED BY <1>2, <2>3, Z3
<1>5. /\ m \in 4 .. 15 /\ n \in Int /\ MonthDays(m) \in Int
      /\ 123 <= n /\ n <= 488
      /\ n = 488 => d.day = 29 /\ m = 15
      /\ 306001 * m <= 10000 * n - 1000
      /\ 10000 * n - 1000 < 306001 * m + 306001
  BY <1>1, <1>3, SMT
<1> HIDE DEF n
<1> QED BY <1>2, <1>4, <1>5 DEF y, m, n

\* A date survives the menu on every day of the calendar until 28 February 2100:
\* turned into a day number and back again, it is the same year, month and day
\* (CS_DT_YMDtoMJD, CS_DT_MJDtoYMD).
THEOREM DateSurvives ==
    ASSUME NEW d, Dated(d)
    PROVE  /\ DayNumber(d) \in Int
           /\ MJDtoYMD(DayNumber(d)) = d
           /\ YMDtoMJD(d) = U16(DayNumber(d))
<1> DEFINE y   == MarchYear(d)
           m   == MarchMonth(d)
           g   == MonthDays(m)
           f   == YearDays(y)
           n   == d.day + g
           cal == DayNumber(d) + Epoch
           k   == IF m \in {14, 15} THEN 1 ELSE 0
<1>1. /\ d = [year |-> d.year, month |-> d.month, day |-> d.day]
      /\ d.year \in Int /\ d.month \in 1 .. 12
      /\ d.day \in Int /\ 1 <= d.day /\ d.day <= 31
  <2>1. d.day <= LengthOf(d.year, d.month) => d.day <= 31
    BY SMT DEF Dated, LengthOf
  <2> QED BY <2>1, SMT DEF Dated
<1>2. /\ y \in Int /\ m \in 4 .. 15 /\ n \in Int /\ g \in Int
      /\ 123 <= n /\ n <= 488
      /\ n = 488 => y % 4 = 3
      /\ 306001 * m <= 10000 * n - 1000
      /\ 10000 * n - 1000 < 306001 * m + 306001
  BY WithinMarchYear
<1>3. d.year = y + k + 1900 /\ d.month = m - 1 - k * 12
  BY <1>1, SMT DEF MarchYear, MarchMonth
<1> HIDE DEF y, m, g
<1>4. f \in Int /\ f = 365 * y + (y \div 4)
  <2>1. y \in Int
    BY <1>2
  <2>2. YearDays(y) \in Int /\ YearDays(y) = 365 * y + (y \div 4)
    <3> HIDE DEF y
    <3> QED BY ONLY <2>1, YearRounded, Zenon
  <2> QED BY ONLY <2>2
<1> HIDE DEF f, n
<1>5. DayNumber(d) = 14956 + n + f - Epoch /\ cal = 14956 + n + f
  BY <1>1, <1>2, <1>4, SMT DEF DayNumber, Epoch, y, m, g, f, n
<1> HIDE DEF cal
<1>6. PICK q \in Int, e \in 0 .. 3 : y = 4 * q + e /\ y \div 4 = q /\ y % 4 = e
  BY <1>2, Z3
<1>7. (cal * 100 - 1507820) \div 36525 = y
  <2>1. cal * 100 - 1507820 = 36525 * y + (100 * n - 12220 - 25 * e)
    BY <1>2, <1>4, <1>5, <1>6, Z3
  <2>2. PICK t \in Int : t = 100 * n - 12220 - 25 * e
    BY <1>2, <1>6, Z3
  <2>3. 0 <= t /\ t < 36525
    BY <1>2, <1>6, <2>2, Z3
  <2>4. (36525 * y + t) \div 36525 = y
    BY <1>2, <2>2, <2>3, Z3
  <2> QED BY <2>1, <2>2, <2>4
<1>8. (cal * 10000 - 149561000 - f * 10000) \div 306001 = m
  <2>1. PICK t \in Int : t = 10000 * n - 1000 - 306001 * m
    BY <1>2, Z3
  <2>2. cal * 10000 - 149561000 - f * 10000 = 306001 * m + t
    BY <1>2, <1>4, <1>5, <2>1, Z3
  <2>3. 0 <= t /\ t < 306001
    BY <1>2, <2>1, Z3
  <2>4. (306001 * m + t) \div 306001 = m
    BY <1>2, <2>1, <2>3, Z3
  <2> QED BY <2>2, <2>4
<1>9. cal - 14956 - f - g = d.day
  BY <1>1, <1>2, <1>4, <1>5, SMT DEF n
<1> HIDE DEF k
<1>10. U8(m - 1 - k * 12) = d.month /\ U8(d.day) = d.day
  BY <1>1, <1>3, SMT DEF U8
<1>11. MJDtoYMD(DayNumber(d)) = [year |-> d.year, month |-> d.month, day |-> d.day]
  <2>1. (y * 36525) \div 100 = f /\ (m * 306001) \div 10000 = g
    BY SMT DEF f, g, YearDays, MonthDays
  <2>2. DayNumber(d) + Epoch = cal
    BY SMT DEF cal
  <2> QED BY <1>3, <1>7, <1>8, <1>9, <1>10, <2>1, <2>2, SMT DEF MJDtoYMD, k
<1>12. YMDtoMJD(d) = U16(DayNumber(d))
  <2>1. CASE d.month \in {1, 2}
    <3>1. y = d.year - 1 - 1900 /\ m = d.month + 1 + 1 * 12
      BY <1>1, <2>1, SMT DEF y, m, MarchYear, MarchMonth
    <3> QED BY <2>1, <3>1, SMT DEF YMDtoMJD, DayNumber, YearDays, MonthDays, y, m
  <2>2. CASE d.month \notin {1, 2}
    <3>1. y = d.year - 0 - 1900 /\ m = d.month + 1 + 0 * 12
      BY <1>1, <2>2, SMT DEF y, m, MarchYear, MarchMonth
    <3> QED BY <2>2, <3>1, SMT DEF YMDtoMJD, DayNumber, YearDays, MonthDays, y, m
  <2> QED BY <2>1, <2>2
<1>13. DayNumber(d) \in Int
  BY <1>2, <1>4, <1>5, SMT DEF Epoch
<1> QED BY <1>1, <1>11, <1>12, <1>13

\* The day after a date.
Tomorrow(d) ==
    IF d.day < LengthOf(d.year, d.month)
    THEN [year |-> d.year, month |-> d.month, day |-> d.day + 1]
    ELSE IF d.month < 12
    THEN [year |-> d.year, month |-> d.month + 1, day |-> 1]
    ELSE [year |-> d.year + 1, month |-> 1, day |-> 1]

\* The day numbers of two days that follow each other do, until the last one.
LEMMA TomorrowCounts ==
    ASSUME NEW d, Dated(d), DayNumber(d) < 47166
    PROVE  /\ Dated(Tomorrow(d))
           /\ DayNumber(Tomorrow(d)) = DayNumber(d) + 1
<1> DEFINE t == Tomorrow(d)
           y == MarchYear(d)
           m == MarchMonth(d)
<1>0. d \in [year : Int, month : Int, day : Int]
  BY SMT DEF Dated
<1>1. /\ d.year \in Int /\ 1971 <= d.year /\ d.year <= 2100
      /\ d.month \in Int /\ 1 <= d.month /\ d.month <= 12
      /\ d.day \in Int /\ 1 <= d.day /\ d.day <= LengthOf(d.year, d.month)
      /\ d.year = 2100 => d.month \in {1, 2}
  BY SMT DEF Dated
<1>2. y \in Int /\ YearDays(y) \in Int /\ m \in Int /\ MonthDays(m) \in Int
  BY WithinMarchYear, YearRounded, SMT
<1>3. \A a \in Int, b \in Int : LengthOf(a, b) \in 28 .. 31
  BY SMT DEF LengthOf
<1>4. CASE d.day < LengthOf(d.year, d.month)
  <2>1. t = [year |-> d.year, month |-> d.month, day |-> d.day + 1]
    BY <1>4, SMT DEF Tomorrow
  <2>2. Dated(t)
    BY <1>1, <1>3, <1>4, <2>1, SMT DEF Dated
  <2>3. MarchYear(t) = y /\ MarchMonth(t) = m
    BY <2>1, SMT DEF MarchYear, MarchMonth
  <2>4. DayNumber(t) = DayNumber(d) + 1
    BY <1>1, <1>2, <2>1, <2>3, SMT DEF DayNumber, Epoch
  <2> QED BY <2>2, <2>4
<1>5. CASE d.day = LengthOf(d.year, d.month) /\ d.month < 12 /\ d.month # 2
  <2>1. t = [year |-> d.year, month |-> d.month + 1, day |-> 1]
    BY <1>1, <1>5, SMT DEF Tomorrow
  <2>2. Dated(t)
    BY <1>1, <1>3, <1>5, <2>1, SMT DEF Dated
  <2>3. MarchYear(t) = y /\ MarchMonth(t) = m + 1
    BY <1>1, <1>5, <2>1, SMT DEF MarchYear, MarchMonth
  <2>4. MonthDays(m + 1) = MonthDays(m) + LengthOf(d.year, d.month)
    BY <1>1, <1>5, MonthTable, SMT DEF MarchMonth, LengthOf
  <2>5. DayNumber(t) = DayNumber(d) + 1
    BY <1>1, <1>2, <1>5, <2>1, <2>3, <2>4, SMT DEF DayNumber, Epoch
  <2> QED BY <2>2, <2>5
<1>6. CASE d.day = LengthOf(d.year, d.month) /\ d.month = 2
  <2>1. t = [year |-> d.year, month |-> 3, day |-> 1]
    BY <1>1, <1>6, SMT DEF Tomorrow
  <2>2. /\ y = d.year - 1901 /\ MarchYear(t) = y + 1
        /\ m = 15 /\ MarchMonth(t) = 4
    BY <1>1, <1>6, <2>1, SMT DEF MarchYear, MarchMonth
  <2>3. DayNumber(d) = 14956 + d.day + YearDays(y) + 459 - 40960
    BY <1>6, <2>2, MonthTable, SMT DEF DayNumber, Epoch
  <2>4. d.year # 2100
    <3> SUFFICES ASSUME d.year = 2100
                 PROVE  FALSE
      OBVIOUS
    <3>1. d.day = 28
      BY <1>6, Z3 DEF LengthOf, Leap
    <3>2. YearDays(y) = 72684
      BY <2>2, Z3 DEF YearDays
    <3> QED BY <2>3, <3>1, <3>2, SMT
  <2>5. Dated(t)
    BY <1>1, <1>3, <2>1, <2>4, SMT DEF Dated
  <2>6. YearDays(y + 1) = YearDays(y) + 337 + d.day
    <3>1. d.day = IF d.year % 4 = 0 THEN 29 ELSE 28
      BY <1>1, <1>6, <2>4, LeapYears, SMT DEF LengthOf
    <3>2. /\ YearDays(y) = 365 * y + (y \div 4)
          /\ YearDays(y + 1) = 365 * (y + 1) + ((y + 1) \div 4)
      BY <1>2, YearRounded, SMT
    <3>3. (y + 1) \div 4 = (y \div 4) + (IF d.year % 4 = 0 THEN 1 ELSE 0)
      BY <1>1, <1>2, <2>2, Z3
    <3> QED BY <1>2, <3>1, <3>2, <3>3, Z3
  <2>7. DayNumber(t) = 14956 + 1 + YearDays(y + 1) + 122 - 40960
    BY <2>1, <2>2, MonthTable, SMT DEF DayNumber, Epoch
  <2>8. DayNumber(t) = DayNumber(d) + 1
    BY <1>1, <1>2, <2>3, <2>6, <2>7, SMT
  <2> QED BY <2>5, <2>8
<1>7. CASE d.day = LengthOf(d.year, d.month) /\ d.month = 12
  <2>1. t = [year |-> d.year + 1, month |-> 1, day |-> 1]
    BY <1>1, <1>7, SMT DEF Tomorrow
  <2>2. Dated(t)
    BY <1>1, <1>3, <1>7, <2>1, SMT DEF Dated
  <2>3. MarchYear(t) = y /\ m = 13 /\ MarchMonth(t) = 14 /\ d.day = 31
    BY <1>1, <1>7, <2>1, SMT DEF MarchYear, MarchMonth, LengthOf
  <2>4. DayNumber(t) = DayNumber(d) + 1
    BY <1>1, <1>2, <2>1, <2>3, MonthTable, SMT DEF DayNumber, Epoch
  <2> QED BY <2>2, <2>4
<1>8. LengthOf(d.year, d.month) \in Int
  BY <1>1, <1>3, SMT
<1> QED BY <1>1, <1>4, <1>5, <1>6, <1>7, <1>8, SMT
-----------------------------------------------------------------------------
(* The two walks.                                                          *)

IInv ==
    /\ Dated(date)
    /\ mjd = DayNumber(date) /\ 0 <= mjd /\ mjd <= LastDate
    /\ weekday = CalculateWeekDay(mjd)
    /\ l \in 0 .. DayMinutes - 1
    /\ r \in Seconds

LEMMA NextDayCounts ==
    ASSUME IInv, NextDay
    PROVE  date' = Tomorrow(date)
<1>1. date \in [year : Int, month : Int, day : Int]
  BY SMT DEF IInv, Dated
<1> USE DEF NextDay, Tomorrow
<1>2. [date EXCEPT !.day = @ + 1]
        = [year |-> date.year, month |-> date.month, day |-> date.day + 1]
  BY <1>1, SMT
<1>3. [date EXCEPT !.day = 1, !.month = @ + 1]
        = [year |-> date.year, month |-> date.month + 1, day |-> 1]
  <2> DEFINE e == [date EXCEPT !.day = 1]
  <2>1. e = [year |-> date.year, month |-> date.month, day |-> 1]
    BY <1>1, SMT
  <2>2. [e EXCEPT !.month = @ + 1]
          = [year |-> date.year, month |-> date.month + 1, day |-> 1]
    <3> HIDE DEF e
    <3> QED BY <2>1, SMT
  <2> QED BY <2>2
<1> QED BY <1>2, <1>3, Zenon

LEMMA IInvInit == ASSUME Init PROVE IInv
<1>1. date = [year |-> 1971, month |-> 1, day |-> 9]
  BY DEF Init
<1>2. LengthOf(1971, 1) = 31
  BY SMT DEF LengthOf
<1>3. Dated(date)
  BY <1>1, <1>2, SMT DEF Dated
<1>4. DayNumber(date) = 0
  <2>1. MarchYear(date) = 70 /\ MarchMonth(date) = 14
    BY <1>1, SMT DEF MarchYear, MarchMonth
  <2>2. YearDays(70) = 25567
    BY SMT DEF YearDays
  <2> QED BY <1>1, <2>1, <2>2, MonthTable, SMT DEF DayNumber, Epoch
<1>5. CalculateWeekDay(0) = 6
  BY SMT DEF CalculateWeekDay, Epoch
<1>6. 0 <= LastDate
  BY LastDateAssumption, SMTT(30)
<1> QED BY <1>3, <1>4, <1>5, <1>6, SMT DEF Init, IInv, DayMinutes

LEMMA IInvNext ==
    ASSUME IInv, [NextDay \/ NextMinute]_<<mjd, date, weekday, l, r>>
    PROVE  IInv'
<1>1. CASE NextDay
  <2>1. LastDate \in Int /\ LastDate <= 47166
    BY LastDateAssumption, SMTT(30)
  <2>2. /\ DayNumber(date) \in Int /\ DayNumber(date) < 47166
        /\ mjd \in Int /\ mjd' = mjd + 1 /\ mjd < LastDate
    BY <1>1, <2>1, DateSurvives, SMTT(30) DEF IInv, NextDay
  <2>3. date' = Tomorrow(date)
    BY <1>1, NextDayCounts
  <2>4. Dated(Tomorrow(date)) /\ DayNumber(Tomorrow(date)) = DayNumber(date) + 1
    BY <2>2, TomorrowCounts DEF IInv
  <2>5. Dated(date')
    BY <2>3, <2>4
  <2>6. mjd' = DayNumber(date')
    BY <2>2, <2>3, <2>4 DEF IInv
  <2>7. 0 <= mjd' /\ mjd' <= LastDate
    BY <2>1, <2>2, SMT DEF IInv
  <2>8. weekday' = CalculateWeekDay(mjd')
    <3>1. weekday' = (weekday % 7) + 1 /\ weekday = ((mjd + 40960 + 2) % 7) + 1
      BY <1>1, SMT DEF NextDay, IInv, CalculateWeekDay, Epoch
    <3>2. (((((mjd + 40960 + 2) % 7) + 1) % 7) + 1) = ((mjd + 1 + 40960 + 2) % 7) + 1
      BY <2>2, Z3
    <3> QED BY <2>2, <3>1, <3>2, SMT DEF CalculateWeekDay, Epoch
  <2>9. l' = l /\ r' = r
    BY <1>1 DEF NextDay
  <2> QED BY <2>5, <2>6, <2>7, <2>8, <2>9 DEF IInv
<1>2. CASE NextMinute
  <2>1. /\ l \in Int /\ 0 <= l /\ l < DayMinutes - 1 /\ DayMinutes = 1440
        /\ l' = l + 1
    BY <1>2, SMT DEF NextMinute, IInv, DayMinutes
  <2>2. l' \in 0 .. DayMinutes - 1
    BY <2>1, SMT
  <2>3. UNCHANGED <<mjd, date, weekday, r>> /\ DayMinutes' = DayMinutes
    BY <1>2 DEF NextMinute, DayMinutes
  <2> QED BY <2>2, <2>3, Zenon DEF IInv
<1>3. CASE UNCHANGED <<mjd, date, weekday, l, r>>
  BY <1>3 DEF IInv
<1> QED BY <1>1, <1>2, <1>3

LEMMA IInvHolds == Spec => []IInv
<1>1. Init => IInv
  BY IInvInit
<1>2. IInv /\ [NextDay \/ NextMinute]_<<mjd, date, weekday, l, r>> => IInv'
  BY IInvNext
<1> QED BY <1>1, <1>2, PTL DEF Spec

\* A date and its weekday are the calendar's on every day of the walk.
THEOREM CalendarAlwaysKept == Spec => []CalendarKept
<1>1. IInv => CalendarKept
  <2> SUFFICES ASSUME IInv PROVE CalendarKept
    OBVIOUS
  <2>1. Dated(date) /\ mjd = DayNumber(date) /\ weekday = CalculateWeekDay(mjd)
    BY DEF IInv
  <2>2. MJDtoYMD(mjd) = date /\ YMDtoMJD(date) = U16(mjd)
    BY <2>1, DateSurvives
  <2>3. U16(mjd) = mjd
    <3>1. mjd \in Int /\ 0 <= mjd /\ mjd <= 47166
      <4>1. DayNumber(date) \in Int
        BY <2>1, DateSurvives
      <4>2. 0 <= mjd /\ mjd <= LastDate
        BY DEF IInv
      <4>3. LastDate \in Int /\ LastDate <= 47166
        BY LastDateAssumption, SMT
      <4> QED BY <2>1, <4>1, <4>2, <4>3, SMT
    <3> QED BY <3>1, SMT DEF U16
  <2> QED BY <2>1, <2>2, <2>3 DEF CalendarKept
<1> QED BY <1>1, IInvHolds, PTL

LEMMA WalkInFourDigits ==
    ASSUME IInv
    PROVE  /\ l \in FourDigits /\ r \in FourDigits
           /\ l \in DayTimes
<1>1. l \in Int /\ 0 <= l /\ l < 1440
  BY SMT DEF IInv, DayMinutes
<1>2. r \in FourDigits
  <2>1. Seconds \subseteq FourDigits
    BY SecondsAssumption DEF FourDigits
  <2> QED BY <2>1, Zenon DEF IInv
<1> QED BY <1>1, <1>2, SMT DEF FourDigits, DayTimes

\* Offsets and durations are added and subtracted in minutes throughout.
THEOREM MinutesAlwaysKept == Spec => []MinutesKept
<1>1. IInv => MinutesKept
  <2> SUFFICES ASSUME IInv, NEW day \in Dates
               PROVE  LET s == UTC_Add(Of(l), Of(r))
                          d == UTC_Subtract(Of(l), Of(r))
                      IN  /\ InMinutes(U16(day + s.days), s.utc)
                               = (day * DayMinutes + l + r) % Span
                          /\ InMinutes(U16(day - d.days), d.utc)
                               = (day * DayMinutes + l - r) % Span
    BY DEF MinutesKept
  <2>1. day \in Int
    BY SMT DEF Dates
  <2>2. l \in DayTimes /\ r \in FourDigits
    BY WalkInFourDigits
  <2> QED BY <2>1, <2>2, MinutesAdded
<1> QED BY <1>1, IInvHolds, PTL

\* The words timer.c compares are ordered as minutes throughout.
THEOREM OrderAlwaysKept == Spec => []OrderKept
<1>1. IInv => OrderKept
  <2> SUFFICES ASSUME IInv, r < DayMinutes, NEW a \in {0, 1, 32767}, NEW b \in {0, 1, 32767}
               PROVE  Packed(a, Of(l)) < Packed(b, Of(r))
                        <=> a * DayMinutes + l < b * DayMinutes + r
    BY DEF OrderKept
  <2>1. a \in Nat /\ b \in Nat
    BY SMT
  <2>2. l \in 0 .. DayMinutes - 1
    BY DEF IInv
  <2>3. r \in 0 .. DayMinutes - 1
    <3>1. r \in FourDigits
      BY WalkInFourDigits
    <3>2. r \in Int /\ 0 <= r
      BY <3>1, SMT DEF FourDigits
    <3> QED BY <3>2, SMT DEF DayMinutes
  <2> QED BY <2>1, <2>2, <2>3, WordsOrdered
<1> QED BY <1>1, IInvHolds, PTL
=============================================================================
