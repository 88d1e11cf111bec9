--------------------------- MODULE CalendarProofs ---------------------------
(***************************************************************************)
(* What the day counts of Dates are worth: they number the days of the     *)
(* calendar one after the other, so that the weekday, and with it the      *)
(* place of a day on the buttons of the calendar, is right for every date. *)
(* And what the user sees: the caption follows the date, a click gives     *)
(* what is written on the button, and a key moves by days.                 *)
(***************************************************************************)
EXTENDS Calendar, TLAPS

\* The months of jdays begin where the one before ends.
LEMMA Months ==
  /\ \A m \in 1..11 : jdays[m + 1] = jdays[m] + mdays[m]
  /\ jdays[1] = 0 /\ jdays[12] = 334 /\ mdays[12] = 31 /\ mdays[2] = 28
  /\ \A m \in 1..12 : jdays[m] \in Nat /\ mdays[m] \in 28..31
<1>1. \A m \in 1..12 : m = 1 \/ m = 2 \/ m = 3 \/ m = 4 \/ m = 5 \/ m = 6 \/ m = 7
                       \/ m = 8 \/ m = 9 \/ m = 10 \/ m = 11 \/ m = 12
  OBVIOUS
<1>2. \A m \in 1..12 : jdays[m] \in Nat /\ mdays[m] \in 28..31
  BY <1>1 DEF jdays, mdays
<1>3. \A m \in 1..11 : jdays[m + 1] = jdays[m] + mdays[m]
  BY <1>1 DEF jdays, mdays
<1> QED
  BY <1>2, <1>3 DEF jdays, mdays

\* The days of the years before year y
Before(y) ==
  LET quads == (y - 1) \div 4
      cents == quads \div 25
  IN  (cents \div 4) * (400 * 365 + 97) + (cents % 4) * (100 * 365 + 24)
        + (quads % 25) * (4 * 365 + 1) + ((y - 1) % 4) * 365

Leap(y) == IF leapYear(y) THEN 1 ELSE 0

\* A year has 365 days, and one more in a leap year: eras, centuries and fours agree with
\* leapYear.
LEMMA Years == ASSUME NEW y \in Nat \ {0} PROVE Before(y + 1) = Before(y) + 365 + Leap(y)
  BY SMTT(60) DEF Before, Leap, leapYear

\* The number of a day is that of the day in its month, the days of the months before it
\* and those of the years before.
LEMMA DayOfEpoch ==
  ASSUME NEW y \in Nat \ {0}, NEW m \in 1..12, NEW d \in Nat
  PROVE  /\ dayofepoch(y, m, d) = d + jdays[m] + (IF m > 2 THEN Leap(y) ELSE 0) + Before(y)
         /\ Before(y) \in Int
<1>1. Before(y) \in Int
  BY DEF Before
<1>2. dayofyear(y, m, d) = d + jdays[m] + (IF m > 2 THEN Leap(y) ELSE 0)
  BY Months DEF dayofyear, Leap
<1>3. dayofepoch(y, m, d) = dayofyear(y, m, d) + Before(y)
  <2>1. dayofyear(y, m, d) \in Int
    BY <1>2, Months DEF Leap
  <2> QED
    BY <2>1 DEF dayofepoch, Before
<1> QED
  BY <1>1, <1>2, <1>3

RealDates == {x \in [y : Nat \ {0}, m : 1..12, d : Nat] : IsDate(x)}

\* The day after a date is a date, and its number is one more: operator++ and dayofepoch,
\* two ways to count, agree over the ends of months, years, centuries and eras.
THEOREM NextDay ==
  ASSUME NEW x \in RealDates
  PROVE  LET n == helpIncrement(x) IN
         /\ n \in RealDates
         /\ dayofepoch(n.y, n.m, n.d) = dayofepoch(x.y, x.m, x.d) + 1
<1> DEFINE n == helpIncrement(x)
<1>0. /\ x.y \in Nat \ {0} /\ x.m \in 1..12 /\ x.d \in Nat \ {0}
      /\ x = [y |-> x.y, m |-> x.m, d |-> x.d]
      /\ x.d <= IF x.m = 2 /\ leapYear(x.y) THEN 29 ELSE mdays[x.m]
  BY Months DEF RealDates, IsDate
<1>1. CASE ~endOfMonth(x)
  <2>1. n = [y |-> x.y, m |-> x.m, d |-> x.d + 1]
    BY <1>0, <1>1 DEF helpIncrement
  <2>2. x.d + 1 <= IF x.m = 2 /\ leapYear(x.y) THEN 29 ELSE mdays[x.m]
    BY <1>0, <1>1, Months DEF endOfMonth
  <2>3. n \in RealDates
    BY <1>0, <2>1, <2>2 DEF RealDates, IsDate
  <2>4. dayofepoch(n.y, n.m, n.d) = dayofepoch(x.y, x.m, x.d) + 1
    <3>1. dayofepoch(x.y, x.m, x.d + 1)
            = x.d + 1 + jdays[x.m] + (IF x.m > 2 THEN Leap(x.y) ELSE 0) + Before(x.y)
      BY <1>0, DayOfEpoch
    <3>2. /\ dayofepoch(x.y, x.m, x.d)
               = x.d + jdays[x.m] + (IF x.m > 2 THEN Leap(x.y) ELSE 0) + Before(x.y)
          /\ Before(x.y) \in Int
      BY <1>0, DayOfEpoch
    <3>3. jdays[x.m] \in Nat /\ Leap(x.y) \in Nat
      BY <1>0, Months DEF Leap
    <3>4. dayofepoch(x.y, x.m, x.d + 1) = dayofepoch(x.y, x.m, x.d) + 1
      BY <1>0, <3>1, <3>2, <3>3
    <3>5. n.y = x.y /\ n.m = x.m /\ n.d = x.d + 1
      BY <2>1
    <3> QED
      BY <3>4, <3>5
  <2> QED
    BY <2>3, <2>4
<1>2. CASE endOfMonth(x) /\ x.m = 12
  <2>1. n = [y |-> x.y + 1, m |-> 1, d |-> 1]
    BY <1>2 DEF helpIncrement
  <2>2. x.d = 31
    BY <1>0, <1>2, Months DEF endOfMonth
  <2>3. n \in RealDates
    BY <1>0, <2>1, Months DEF RealDates, IsDate
  <2>4. dayofepoch(n.y, n.m, n.d) = 1 + jdays[1] + Before(x.y + 1)
    <3>1. dayofepoch(x.y + 1, 1, 1) = 1 + jdays[1] + 0 + Before(x.y + 1) /\ Before(x.y + 1) \in Int
      BY <1>0, DayOfEpoch
    <3>2. n.y = x.y + 1 /\ n.m = 1 /\ n.d = 1
      BY <2>1
    <3> QED
      BY <3>1, <3>2, Months
  <2>5. /\ dayofepoch(x.y, x.m, x.d) = 31 + jdays[12] + Leap(x.y) + Before(x.y)
        /\ Before(x.y) \in Int
    BY <1>0, <1>2, <2>2, DayOfEpoch
  <2>6. Before(x.y + 1) = Before(x.y) + 365 + Leap(x.y)
    BY <1>0, Years
  <2> QED
    BY <2>3, <2>4, <2>5, <2>6, Months DEF Leap
<1>3. CASE endOfMonth(x) /\ x.m # 12
  <2>1. n = [y |-> x.y, m |-> x.m + 1, d |-> 1]
    BY <1>0, <1>3 DEF helpIncrement
  <2>2. /\ x.m \in 1..11
        /\ x.d = IF x.m = 2 /\ leapYear(x.y) THEN 29 ELSE mdays[x.m]
    BY <1>0, <1>3 DEF endOfMonth
  <2>3. n \in RealDates
    BY <1>0, <2>1, <2>2, Months DEF RealDates, IsDate
  <2>4. dayofepoch(n.y, n.m, n.d)
          = 1 + jdays[x.m + 1] + (IF x.m + 1 > 2 THEN Leap(x.y) ELSE 0) + Before(x.y)
    BY <1>0, <2>1, <2>2, DayOfEpoch
  <2>5. /\ dayofepoch(x.y, x.m, x.d)
             = x.d + jdays[x.m] + (IF x.m > 2 THEN Leap(x.y) ELSE 0) + Before(x.y)
        /\ Before(x.y) \in Int
    BY <1>0, DayOfEpoch
  <2>6. jdays[x.m + 1] = jdays[x.m] + mdays[x.m]
    BY <2>2, Months
  <2> QED
    BY <1>0, <2>2, <2>3, <2>4, <2>5, <2>6, Months DEF Leap
<1> QED
  BY <1>1, <1>2, <1>3

\* The weekday of the day after is the next one: the buttons of a month follow each other.
THEOREM NextWeekday ==
  ASSUME NEW x \in RealDates
  PROVE  LET n == helpIncrement(x) IN
         dayofweek(n.y, n.m, n.d) = (dayofweek(x.y, x.m, x.d) + 1) % 7
<1> DEFINE n == helpIncrement(x)
<1>1. dayofepoch(n.y, n.m, n.d) = dayofepoch(x.y, x.m, x.d) + 1
  BY NextDay
<1>2. dayofepoch(x.y, x.m, x.d) \in Int
  <2>1. x.y \in Nat \ {0} /\ x.m \in 1..12 /\ x.d \in Nat
    BY DEF RealDates
  <2>2. /\ dayofepoch(x.y, x.m, x.d)
             = x.d + jdays[x.m] + (IF x.m > 2 THEN Leap(x.y) ELSE 0) + Before(x.y)
        /\ Before(x.y) \in Int
    BY <2>1, DayOfEpoch
  <2> QED
    BY <2>1, <2>2, Months DEF Leap
<1> QED
  BY <1>1, <1>2 DEF dayofweek

\* A month starts after the days of the one before: next_month of the first day of a month
\* is as many days on as daysinmonth says, which is what the arrow keys reckon with.
THEOREM MonthsFollow ==
  ASSUME NEW y \in Nat \ {0}, NEW m \in 1..12
  PROVE  LET n == MonthAfter([y |-> y, m |-> m, d |-> 1]) IN
         dayofepoch(n.y, n.m, 1) = dayofepoch(y, m, 1) + daysinmonth(m, leapYear(y))
<1> DEFINE n == MonthAfter([y |-> y, m |-> m, d |-> 1])
<1>1. /\ dayofepoch(y, m, 1) = 1 + jdays[m] + (IF m > 2 THEN Leap(y) ELSE 0) + Before(y)
      /\ Before(y) \in Int
  BY DayOfEpoch
<1>2. CASE m = 12
  <2>1. n.y = y + 1 /\ n.m = 1
    BY <1>2 DEF MonthAfter
  <2>2. dayofepoch(y + 1, 1, 1) = 1 + jdays[1] + 0 + Before(y + 1) /\ Before(y + 1) \in Int
    BY DayOfEpoch
  <2>3. dayofepoch(y + 1, 1, 1) = dayofepoch(y, 12, 1) + 31
    BY <1>1, <1>2, <2>2, Years, Months DEF Leap
  <2>4. daysinmonth(12, leapYear(y)) = 31
    BY Months DEF daysinmonth
  <2> QED
    BY <1>2, <2>1, <2>3, <2>4
<1>3. CASE m # 12
  <2>1. n.y = y /\ n.m = m + 1 /\ m \in 1..11
    BY <1>3 DEF MonthAfter
  <2>2. dayofepoch(y, m + 1, 1)
          = 1 + jdays[m + 1] + (IF m + 1 > 2 THEN Leap(y) ELSE 0) + Before(y)
    BY <2>1, DayOfEpoch
  <2>3. jdays[m + 1] = jdays[m] + mdays[m]
    BY <2>1, Months
  <2>4. dayofepoch(y, m + 1, 1) = dayofepoch(y, m, 1) + daysinmonth(m, leapYear(y))
    <3>1. daysinmonth(m, leapYear(y)) = IF m = 2 THEN 28 + Leap(y) ELSE mdays[m]
      BY DEF Leap, daysinmonth
    <3>2. jdays[m] \in Nat /\ mdays[m] \in Nat /\ mdays[2] = 28 /\ Leap(y) \in Nat
      BY Months DEF Leap
    <3> QED
      BY <1>1, <2>1, <2>2, <2>3, <3>1, <3>2
  <2> QED
    BY <2>1, <2>4
<1> QED
  BY <1>2, <1>3

-----------------------------------------------------------------------------
(* The calendar *)

Day == [y : Nat \ {0}, m : 1..12, d : Nat]

\* The loop of Clipped ends: the day it keeps is 0, or the last valid one.
LEMMA ClippedType ==
  ASSUME NEW x \in [y : Nat, m : 1..12, d : Nat]
  PROVE  \E n \in Nat : Clipped(x) = [y |-> x.y, m |-> x.m, d |-> n]
<1> DEFINE Valid(d) == isvalid(x.m, d, x.y)
           Last(d) == /\ d = 0 \/ Valid(d)
                      /\ \A e \in (d + 1)..x.d : ~Valid(e)
           lim == IF leapYear(x.y) THEN (IF x.m = 2 THEN 29 ELSE x.d) ELSE mdays[x.m]
           top == IF x.y > LastYear THEN 0 ELSE IF x.d < lim THEN x.d ELSE lim
<1>0. /\ x.y \in Nat /\ x.m \in 1..12 /\ x.d \in Nat /\ LastYear \in Nat
      /\ mdays[x.m] \in 28..31 /\ x = [y |-> x.y, m |-> x.m, d |-> x.d]
  BY Months, DatesAssumption
<1>1. CASE x.d < 1
  BY <1>0, <1>1 DEF Clipped
<1>2. CASE x.d >= 1
  <2>1. top \in 0..x.d
    BY <1>0, <1>2
  <2>2. \A e \in Nat : Valid(e) <=> x.y <= LastYear /\ e >= 1 /\
          (IF leapYear(x.y) THEN x.m = 2 => e <= 29 ELSE e <= mdays[x.m])
    BY <1>0 DEF isvalid
  <2>3. top = 0 \/ Valid(top)
    <3> HIDE DEF Valid
    <3> QED
      BY <1>0, <1>2, <2>1, <2>2
  <2>4. \A e \in (top + 1)..x.d : ~Valid(e)
    <3> SUFFICES ASSUME NEW e \in (top + 1)..x.d, Valid(e) PROVE FALSE
      OBVIOUS
    <3>1. e \in Nat /\ e > top /\ e <= x.d
      BY <1>0, <2>1
    <3> HIDE DEF Valid
    <3> QED
      BY <1>0, <2>2, <3>1
  <2>5. Last(top)
    BY <2>3, <2>4
  <2> DEFINE n == CHOOSE d \in 0..x.d : Last(d)
  <2>6. n \in 0..x.d
    <3> HIDE DEF Last, top
    <3> QED
      BY <2>1, <2>5
  <2>7. Clipped(x) = [x EXCEPT !.d = n]
    BY <1>0, <1>2 DEF Clipped
  <2> HIDE DEF n
  <2> QED
    BY <1>0, <2>6, <2>7
<1> QED
  BY <1>0, <1>1, <1>2

\* The months before and after: as MonthBefore and MonthAfter say, with a day.
LEMMA MonthsType ==
  ASSUME NEW x \in Day
  PROVE  /\ MonthAfter(x) = [y |-> IF x.m = 12 THEN x.y + 1 ELSE x.y,
                             m |-> IF x.m = 12 THEN 1 ELSE x.m + 1, d |-> x.d]
         /\ MonthBefore(x) = [y |-> IF x.m = 1 THEN x.y - 1 ELSE x.y,
                              m |-> IF x.m = 1 THEN 12 ELSE x.m - 1, d |-> x.d]
<1>1. x = [y |-> x.y, m |-> x.m, d |-> x.d]
  BY DEF Day
<1>2. CASE x.m = 1
  BY <1>1, <1>2 DEF MonthAfter, MonthBefore
<1>3. CASE x.m = 12
  BY <1>1, <1>3 DEF MonthAfter, MonthBefore
<1>4. CASE x.m # 1 /\ x.m # 12
  BY <1>1, <1>4 DEF MonthAfter, MonthBefore
<1> QED
  BY <1>2, <1>3, <1>4

\* The neighbouring months, with a day that next_month and previous_month choose
LEMMA MovedType ==
  ASSUME NEW x \in Day
  PROVE  /\ \E n \in Nat : next_month(x) = [MonthAfter(x) EXCEPT !.d = n]
         /\ \E n \in Nat : previous_month(x) = [MonthBefore(x) EXCEPT !.d = n]
<1>1. MonthAfter(x) \in [y : Nat, m : 1..12, d : Nat] /\ MonthBefore(x) \in [y : Nat, m : 1..12, d : Nat]
  <2>1. /\ x.y \in Nat \ {0} /\ x.m \in 1..12 /\ x.d \in Nat
        /\ (IF x.m = 12 THEN x.y + 1 ELSE x.y) \in Nat /\ (IF x.m = 12 THEN 1 ELSE x.m + 1) \in 1..12
        /\ (IF x.m = 1 THEN x.y - 1 ELSE x.y) \in Nat /\ (IF x.m = 1 THEN 12 ELSE x.m - 1) \in 1..12
    BY DEF Day
  <2> QED
    BY <2>1, MonthsType
<1>2. PICK n \in Nat : next_month(x) = [y |-> MonthAfter(x).y, m |-> MonthAfter(x).m, d |-> n]
  BY <1>1, ClippedType DEF next_month
<1>3. PICK k \in Nat : previous_month(x) = [y |-> MonthBefore(x).y, m |-> MonthBefore(x).m, d |-> k]
  BY <1>1, ClippedType DEF previous_month
<1> QED
  BY <1>1, <1>2, <1>3

\* setDate leaves a day, and a date as it is.
LEMMA setDateType ==
  ASSUME NEW x \in [y : Nat \ {0}, m : Int, d : Int]
  PROVE  setDate(x) \in Day /\ (isvalid(x.m, x.d, x.y) => setDate(x) = x)
<1>1. isvalid(x.m, x.d, x.y) => x \in Day
  BY DEF isvalid, Day
<1> QED
  BY <1>1, CalendarAssumption DEF setDate, Day


\* A date with another day
LEMMA WithDay ==
  ASSUME NEW x, NEW n, NEW v, x = [y |-> x.y, m |-> x.m, d |-> n]
  PROVE  [x EXCEPT !.d = v] = [y |-> x.y, m |-> x.m, d |-> v]
OBVIOUS

\* The length of a month
LEMMA dimType ==
  ASSUME NEW x, x.m \in 1..12
  PROVE  dim(x) \in 28..31 /\ dim(x) = IF x.m = 2 /\ leapYear(x.y) THEN 29 ELSE mdays[x.m]
BY Months DEF dim, daysinmonth

\* A cursor key leaves a day; from a date, it stays in the month or goes to the right day
\* of a neighbouring one.
LEMMA KeyDates ==
  ASSUME TypeOK, NEW o \in {-7, -1, 1, 7}, Key(o)
  PROVE  /\ date' \in Day /\ shown' \in [y : Nat \ {0}, m : 1..12] /\ UNCHANGED <<field, open>>
         /\ IsDate(date) /\ date.y <= LastYear /\ shown'.y <= LastYear =>
              \/ /\ date' = [date EXCEPT !.d = date.d + o] /\ date.d + o \in Nat
                 /\ isvalid(date.m, date.d + o, date.y) /\ shown' = shown
              \/ /\ date.d + o < 1 /\ MonthBefore(date) \in Day
                 /\ date' = [MonthBefore(date) EXCEPT !.d = date.d + o + dim(MonthBefore(date))]
                 /\ date.d + o + dim(MonthBefore(date)) \in Nat
                 /\ shown' = MonthOf(MonthBefore(date))
              \/ /\ date.d + o > dim(date) /\ MonthAfter(date) \in Day
                 /\ date' = [MonthAfter(date) EXCEPT !.d = (date.d + o) - dim(date)]
                 /\ (date.d + o) - dim(date) \in Nat
                 /\ shown' = MonthOf(MonthAfter(date))
<1> DEFINE b == MonthBefore(date)
           a == MonthAfter(date)
           to == date.d + o
           on == [date EXCEPT !.d = to]
           before == previous_month(date)
           after == next_month(date)
<1>1. /\ date \in Day /\ date.y \in Nat \ {0} /\ date.m \in 1..12 /\ date.d \in Nat
      /\ shown \in [y : Nat \ {0}, m : 1..12]
      /\ to \in Int /\ o \in Int /\ -7 <= o /\ o <= 7 /\ o # 0
      /\ FirstYear \in Nat \ {0} /\ FinalYear \in Nat /\ LastYear \in Nat
  BY CalendarAssumption, DatesAssumption DEF TypeOK, Day
<1>2. on.m = date.m /\ on.d = to /\ on.y = date.y /\ on = [y |-> date.y, m |-> date.m, d |-> to]
  BY <1>1 DEF Day
<1>3. /\ b = [y |-> IF date.m = 1 THEN date.y - 1 ELSE date.y,
              m |-> IF date.m = 1 THEN 12 ELSE date.m - 1, d |-> date.d]
      /\ a = [y |-> IF date.m = 12 THEN date.y + 1 ELSE date.y,
              m |-> IF date.m = 12 THEN 1 ELSE date.m + 1, d |-> date.d]
  BY <1>1, MonthsType
<1>4. /\ b.y \in Nat /\ b.m \in 1..12 /\ b = [y |-> b.y, m |-> b.m, d |-> date.d]
      /\ a.y \in Nat \ {0} /\ a.m \in 1..12 /\ a = [y |-> a.y, m |-> a.m, d |-> date.d]
  BY <1>1, <1>3
<1>5. PICK n \in Nat : before = [b EXCEPT !.d = n]
  BY <1>1, MovedType
<1>6. PICK k \in Nat : after = [a EXCEPT !.d = k]
  BY <1>1, MovedType
<1> HIDE DEF a, b, before, after
<1>7. /\ before.y = b.y /\ before.m = b.m /\ dim(before) = dim(b) /\ MonthOf(before) = MonthOf(b)
      /\ after.y = a.y /\ after.m = a.m /\ MonthOf(after) = MonthOf(a)
      /\ [before EXCEPT !.d = to + dim(b)] = [y |-> b.y, m |-> b.m, d |-> to + dim(b)]
      /\ [after EXCEPT !.d = to - dim(date)] = [y |-> a.y, m |-> a.m, d |-> to - dim(date)]
      /\ [b EXCEPT !.d = to + dim(b)] = [y |-> b.y, m |-> b.m, d |-> to + dim(b)]
      /\ [a EXCEPT !.d = to - dim(date)] = [y |-> a.y, m |-> a.m, d |-> to - dim(date)]
  <2>1. before = [y |-> b.y, m |-> b.m, d |-> n]
    BY <1>4, <1>5, WithDay
  <2>2. after = [y |-> a.y, m |-> a.m, d |-> k]
    BY <1>4, <1>6, WithDay
  <2>3. before.y = b.y /\ before.m = b.m /\ after.y = a.y /\ after.m = a.m
    BY <2>1, <2>2
  <2>4. /\ [before EXCEPT !.d = to + dim(b)] = [y |-> b.y, m |-> b.m, d |-> to + dim(b)]
        /\ [after EXCEPT !.d = to - dim(date)] = [y |-> a.y, m |-> a.m, d |-> to - dim(date)]
    BY <2>1, <2>2, <2>3
  <2>5. /\ [b EXCEPT !.d = to + dim(b)] = [y |-> b.y, m |-> b.m, d |-> to + dim(b)]
        /\ [a EXCEPT !.d = to - dim(date)] = [y |-> a.y, m |-> a.m, d |-> to - dim(date)]
    BY <1>4, WithDay
  <2>6. dim(before) = dim(b) /\ MonthOf(before) = MonthOf(b) /\ MonthOf(after) = MonthOf(a)
    BY <2>3 DEF dim, MonthOf
  <2> QED
    BY <2>3, <2>4, <2>5, <2>6
<1>8. /\ dim(b) \in 28..31 /\ dim(b) = IF b.m = 2 /\ leapYear(b.y) THEN 29 ELSE mdays[b.m]
      /\ dim(date) \in 28..31 /\ dim(date) = IF date.m = 2 /\ leapYear(date.y) THEN 29 ELSE mdays[date.m]
      /\ dim(a) \in 28..31 /\ dim(a) = IF a.m = 2 /\ leapYear(a.y) THEN 29 ELSE mdays[a.m]
      /\ mdays[b.m] \in 28..31 /\ mdays[date.m] \in 28..31 /\ mdays[a.m] \in 28..31
  BY <1>1, <1>4, dimType, Months
<1>9. /\ UNCHANGED <<field, open>> /\ InBounds(shown')
      /\ \/ isvalid(date.m, to, date.y) /\ date' = on /\ UNCHANGED shown
         \/ /\ ~isvalid(date.m, to, date.y) /\ o < 0
            /\ shown' = MonthOf(b) /\ date' = setDate([y |-> b.y, m |-> b.m, d |-> to + dim(b)])
         \/ /\ ~isvalid(date.m, to, date.y) /\ o > 0
            /\ shown' = MonthOf(a) /\ date' = setDate([y |-> a.y, m |-> a.m, d |-> to - dim(date)])
  BY <1>2, <1>7 DEF Key, before, after
<1>10. CASE isvalid(date.m, to, date.y) /\ date' = on /\ UNCHANGED shown
  <2>1. to \in Nat
    BY <1>1, <1>10 DEF isvalid
  <2> QED
    BY <1>1, <1>2, <1>9, <1>10, <2>1 DEF Day
<1>11. CASE /\ ~isvalid(date.m, to, date.y) /\ o < 0
            /\ shown' = MonthOf(b) /\ date' = setDate([y |-> b.y, m |-> b.m, d |-> to + dim(b)])
  <2>1. b.y \in Nat \ {0} /\ shown' = [y |-> b.y, m |-> b.m]
    BY <1>1, <1>4, <1>9, <1>11 DEF MonthOf, InBounds
  <2> DEFINE x == [y |-> b.y, m |-> b.m, d |-> to + dim(b)]
  <2>2. x \in [y : Nat \ {0}, m : Int, d : Int] /\ x.y = b.y /\ x.m = b.m /\ x.d = to + dim(b)
    BY <1>1, <1>4, <1>8, <2>1
  <2>3. date' = setDate(x) /\ setDate(x) \in Day /\ (isvalid(x.m, x.d, x.y) => setDate(x) = x)
    BY <1>11, <2>2, setDateType
  <2> HIDE DEF x
  <2>4. ASSUME IsDate(date), date.y <= LastYear, shown'.y <= LastYear
        PROVE  to < 1 /\ date' = x /\ to + dim(b) \in Nat
    <3>1. to < 1
      BY <1>1, <1>8, <1>11, <2>4 DEF isvalid, IsDate
    <3>2. to >= -6
      BY <1>1, <1>8, <2>4 DEF IsDate
    <3>3. b.y <= LastYear
      BY <2>1, <2>4
    <3>4. isvalid(b.m, to + dim(b), b.y) /\ to + dim(b) \in Nat
      BY <1>1, <1>4, <1>8, <3>1, <3>2, <3>3 DEF isvalid
    <3> QED
      BY <2>2, <2>3, <3>1, <3>4
  <2>5. b \in Day
    BY <1>1, <1>4, <2>1 DEF Day
  <2> QED
    <3>1. x = [b EXCEPT !.d = to + dim(b)]
      BY <1>7 DEF x
    <3>2. date' \in Day /\ shown' \in [y : Nat \ {0}, m : 1..12] /\ shown' = MonthOf(b)
      BY <1>4, <1>11, <2>1, <2>3
    <3> QED
      BY <1>9, <2>4, <2>5, <3>1, <3>2 DEF b
<1>12. CASE /\ ~isvalid(date.m, to, date.y) /\ o > 0
            /\ shown' = MonthOf(a) /\ date' = setDate([y |-> a.y, m |-> a.m, d |-> to - dim(date)])
  <2>1. shown' = [y |-> a.y, m |-> a.m]
    BY <1>12 DEF MonthOf
  <2> DEFINE x == [y |-> a.y, m |-> a.m, d |-> to - dim(date)]
  <2>2. x \in [y : Nat \ {0}, m : Int, d : Int] /\ x.y = a.y /\ x.m = a.m /\ x.d = to - dim(date)
    BY <1>1, <1>4, <1>8
  <2>3. date' = setDate(x) /\ setDate(x) \in Day /\ (isvalid(x.m, x.d, x.y) => setDate(x) = x)
    BY <1>12, <2>2, setDateType
  <2> HIDE DEF x
  <2>4. ASSUME IsDate(date), date.y <= LastYear, shown'.y <= LastYear
        PROVE  to > dim(date) /\ date' = x /\ to - dim(date) \in Nat
    <3>1. to > dim(date)
      BY <1>1, <1>8, <1>12, <2>4 DEF isvalid, IsDate
    <3>2. to <= dim(date) + 7
      BY <1>1, <1>8, <2>4 DEF IsDate
    <3>3. a.y <= LastYear
      BY <2>1, <2>4
    <3>4. isvalid(a.m, to - dim(date), a.y) /\ to - dim(date) \in Nat
      BY <1>1, <1>4, <1>8, <3>1, <3>2, <3>3 DEF isvalid
    <3> QED
      BY <2>2, <2>3, <3>1, <3>4
  <2>5. a \in Day
    BY <1>1, <1>4 DEF Day
  <2> QED
    <3>1. x = [a EXCEPT !.d = to - dim(date)]
      BY <1>7 DEF x
    <3>2. date' \in Day /\ shown' \in [y : Nat \ {0}, m : 1..12] /\ shown' = MonthOf(a)
      BY <1>4, <1>12, <2>1, <2>3
    <3> QED
      BY <1>9, <2>4, <2>5, <3>1, <3>2 DEF a
<1> QED
  BY <1>9, <1>10, <1>11, <1>12

\* The first and the last year of the bounds are years, so a date within them is a Day.
LEMMA StepType ==
  ASSUME TypeOK, [Next]_vars
  PROVE  TypeOK'
<1> USE DEF TypeOK
<1>a. /\ date \in Day /\ date.y \in Nat \ {0} /\ date.m \in 1..12 /\ date.d \in Nat
      /\ date = [y |-> date.y, m |-> date.m, d |-> date.d]
      /\ FirstYear \in Nat \ {0} /\ FinalYear \in Nat
      /\ Typed \subseteq [y : Nat, m : Nat, d : Nat]
  BY CalendarAssumption DEF Day
<1>b. ASSUME NEW x \in Day, Moves(x) PROVE date' \in Day /\ shown' \in [y : Nat \ {0}, m : 1..12]
  BY <1>b DEF Moves, MonthOf, Day
<1>1. CASE fl_popcal
  <2> DEFINE x == IF field.y < 10 THEN [field EXCEPT !.y = @ + 2000]
                  ELSE IF field.y < 100 THEN [field EXCEPT !.y = @ + 1900] ELSE field
  <2>1. field = [y |-> field.y, m |-> field.m, d |-> field.d]
        /\ field.y \in Nat /\ field.m \in Nat /\ field.d \in Nat
    OBVIOUS
  <2>2. x \in [y : Nat \ {0}, m : Int, d : Int]
    BY <2>1
  <2>3. Moves(setDate(x)) /\ field' = field /\ open' = TRUE
    BY <1>1 DEF fl_popcal
  <2> HIDE DEF x
  <2> QED
    BY <1>b, <2>2, <2>3, setDateType DEF Day
<1>2. CASE Enter
  <2>1. date \in [y : Nat, m : Nat, d : Nat]
    BY <1>a
  <2> QED
    BY <1>2, <2>1 DEF Enter
<1>3. CASE Hide
  BY <1>3 DEF Hide
<1>4. CASE \E x \in {previous_month(date), next_month(date), YearMoved(date, -1), YearMoved(date, 1)} :
             Arrow(x)
  <2>1. PICK x \in {previous_month(date), next_month(date), YearMoved(date, -1), YearMoved(date, 1)} :
          Arrow(x)
    BY <1>4
  <2>2. Moves(x) /\ x.y \in FirstYear..FinalYear /\ UNCHANGED <<field, open>>
    BY <2>1 DEF Arrow, InBounds
  <2>3. x.y \in Nat \ {0}
    BY <1>a, <2>2
  <2>4. x = [y |-> x.y, m |-> x.m, d |-> x.d] /\ x.m \in 1..12 /\ x.d \in Nat
    <3>1. /\ MonthAfter(date) = [y |-> MonthAfter(date).y, m |-> MonthAfter(date).m, d |-> date.d]
          /\ MonthAfter(date).m \in 1..12
          /\ MonthBefore(date) = [y |-> MonthBefore(date).y, m |-> MonthBefore(date).m, d |-> date.d]
          /\ MonthBefore(date).m \in 1..12
      <4>1. (IF date.m = 12 THEN 1 ELSE date.m + 1) \in 1..12
            /\ (IF date.m = 1 THEN 12 ELSE date.m - 1) \in 1..12
        BY <1>a
      <4> QED
        BY <1>a, <4>1, MonthsType
    <3>2. CASE x = next_month(date)
      <4>1. PICK n \in Nat : x = [MonthAfter(date) EXCEPT !.d = n]
        BY <1>a, <3>2, MovedType
      <4>2. x = [y |-> MonthAfter(date).y, m |-> MonthAfter(date).m, d |-> n]
        BY <3>1, <4>1, WithDay
      <4> QED
        BY <3>1, <4>2
    <3>3. CASE x = previous_month(date)
      <4>1. PICK n \in Nat : x = [MonthBefore(date) EXCEPT !.d = n]
        BY <1>a, <3>3, MovedType
      <4>2. x = [y |-> MonthBefore(date).y, m |-> MonthBefore(date).m, d |-> n]
        BY <3>1, <4>1, WithDay
      <4> QED
        BY <3>1, <4>2
    <3>4. ASSUME NEW n \in {-1, 1}
          PROVE  YearMoved(date, n) = [y |-> date.y + n, m |-> date.m,
                    d |-> IF date.m = 2 /\ date.d = 29 THEN 28 ELSE date.d]
      <4>1. n \in Int
        OBVIOUS
      <4>2. YearMoved(date, n) = [date EXCEPT !.y = date.y + n,
                                    !.d = IF date.m = 2 /\ date.d = 29 THEN 28 ELSE date.d]
        BY DEF YearMoved
      <4>3. CASE date.m = 2 /\ date.d = 29
        BY <1>a, <4>1, <4>2, <4>3
      <4>4. CASE ~(date.m = 2 /\ date.d = 29)
        BY <1>a, <4>1, <4>2, <4>4
      <4> QED
        BY <4>3, <4>4
    <3>5. CASE x = YearMoved(date, -1) \/ x = YearMoved(date, 1)
      BY <1>a, <3>4, <3>5
    <3> QED
      BY <2>1, <3>2, <3>3, <3>5
  <2>5. x \in Day
    BY <2>3, <2>4 DEF Day
  <2> QED
    BY <1>b, <2>2, <2>5 DEF Day
<1>5. CASE \E b \in 0..41 : Click(b)
  <2>1. PICK b \in 0..41 : Click(b)
    BY <1>5
  <2>2. Label(date, b) \in Nat
    BY <1>a, <2>1, dimType DEF Label, dow, dayofweek
  <2>3. [date EXCEPT !.d = Label(date, b)] \in Day
    BY <1>a, <2>2 DEF Day
  <2>4. date' \in Day
    BY <1>a, <2>1, <2>3 DEF Click
  <2>5. field' \in [y : Nat, m : Nat, d : Nat]
    BY <2>1, <2>4 DEF Click, Day
  <2> QED
    BY <2>1, <2>4, <2>5 DEF Click, Day
<1>6. CASE \E o \in {-7, -1, 1, 7} : Key(o)
  BY <1>6, KeyDates DEF Day
<1>7. CASE \E x \in Typed : Type(x)
  BY <1>a, <1>7 DEF Type
<1>8. CASE UNCHANGED vars
  BY <1>8 DEF vars
<1> QED
  BY <1>1, <1>2, <1>3, <1>4, <1>5, <1>6, <1>7, <1>8 DEF Next

\* The month of the date and of the caption is always one of the calendar, and no day is
\* negative, whatever is typed, hit or clicked.
THEOREM TypeCorrect == Spec => []TypeOK
<1>1. Init => TypeOK
  <2>1. Today \in Day /\ MonthOf(Today) \in [y : Nat \ {0}, m : 1..12]
    BY CalendarAssumption DEF Day, MonthOf
  <2>2. NoDate \in [y : Nat, m : Nat, d : Nat]
    BY DEF NoDate
  <2> QED
    BY <2>1, <2>2 DEF Init, TypeOK, Day
<1>2. TypeOK /\ [Next]_vars => TypeOK'
  BY StepType
<1> QED
  BY <1>1, <1>2, PTL DEF Spec

\* The label of a button depends on the month alone, and is a day of it.
LEMMA LabelOfMonth ==
  ASSUME NEW x, NEW z, x.y = z.y, x.m = z.m, NEW b
  PROVE  Label(x, b) = Label(z, b)
BY DEF Label, dow, dim

\* A button that has a label has the number of a day of its month.
LEMMA LabelType ==
  ASSUME NEW x \in Day, NEW b \in 0..41, Label(x, b) # 0
  PROVE  Label(x, b) \in 1..dim(x)
<1>1. dim(x) \in 28..31
  BY dimType DEF Day
<1>2. dow(x) \in Int \/ dow(x) \notin Int
  OBVIOUS
<1>3. b - dow(x) \in 0..(dim(x) - 1) /\ Label(x, b) = b - dow(x) + 1
  BY DEF Label
<1> QED
  BY <1>1, <1>3

\* A click gives the field the day that is written on the button, of the month in the
\* caption, and that is a date, for every month of every year.
THEOREM ClickCorrect == Spec => ClickGivesWhatIsShown
<1> DEFINE A == \A b \in 0..41 : Click(b) /\ shown = MonthOf(date) =>
                  /\ field' = [y |-> shown.y, m |-> shown.m, d |-> Label(shown, b)]
                  /\ IsDate(field')
<1>1. TypeOK /\ [Next]_vars => [A]_vars
  <2> SUFFICES ASSUME TypeOK, NEW b \in 0..41, Click(b), shown = MonthOf(date)
               PROVE  /\ field' = [y |-> shown.y, m |-> shown.m, d |-> Label(shown, b)]
                      /\ IsDate(field')
    OBVIOUS
  <2>1. /\ date \in Day /\ date.m \in 1..12 /\ date = [y |-> date.y, m |-> date.m, d |-> date.d]
        /\ shown.y = date.y /\ shown.m = date.m
    BY DEF TypeOK, Day, MonthOf
  <2>2. Label(shown, b) = Label(date, b) /\ Label(date, b) # 0
    BY <2>1, LabelOfMonth DEF Click
  <2>3. Label(date, b) \in 1..dim(date)
    BY <2>1, <2>2, LabelType
  <2>4. field' = [date EXCEPT !.d = Label(date, b)]
    BY <2>2 DEF Click
  <2>5. field' = [y |-> date.y, m |-> date.m, d |-> Label(date, b)]
    BY <2>1, <2>4, WithDay
  <2>6. IsDate(field')
    BY <2>1, <2>3, <2>5, dimType DEF IsDate
  <2> QED
    BY <2>1, <2>2, <2>5, <2>6
<1> QED
  BY TypeCorrect, <1>1, PTL DEF Spec, ClickGivesWhatIsShown

\* The caption follows the date in every step, for every year the class knows.
THEOREM CaptionCorrect == Spec => CaptionFollows
<1> DEFINE A == (open => shown = MonthOf(date)) /\ (open => IsDate(date) /\ date.y <= LastYear)
                /\ shown'.y <= LastYear => (open' => shown' = MonthOf(date'))
<1>1. TypeOK /\ [Next]_vars => [A]_vars
  <2> SUFFICES ASSUME TypeOK, Next, open => shown = MonthOf(date),
                      open => IsDate(date) /\ date.y <= LastYear, shown'.y <= LastYear, open'
               PROVE  shown' = MonthOf(date')
    OBVIOUS
  <2>1. CASE \E x : Moves(x)
    BY <2>1 DEF Moves
  <2>2. CASE Enter \/ Hide \/ (\E b \in 0..41 : Click(b)) \/ (\E x \in Typed : Type(x))
    BY <2>2 DEF Enter, Hide, Click, Type
  <2>3. CASE \E o \in {-7, -1, 1, 7} : Key(o)
    <3>1. PICK o \in {-7, -1, 1, 7} : Key(o)
      BY <2>3
    <3>2. open
      BY <3>1 DEF Key
    <3>3. CASE \E v : date' = [date EXCEPT !.d = v] /\ shown' = shown
      BY <3>2, <3>3 DEF MonthOf, TypeOK
    <3>4. CASE \E x \in Day : \E v : date' = [x EXCEPT !.d = v] /\ shown' = MonthOf(x)
      BY <3>4 DEF MonthOf, Day
    <3>5. \/ \E v : date' = [date EXCEPT !.d = v] /\ shown' = shown
          \/ \E x \in Day : \E v : date' = [x EXCEPT !.d = v] /\ shown' = MonthOf(x)
      <4> DEFINE b == MonthBefore(date)
                 a == MonthAfter(date)
      <4>1. \/ date' = [date EXCEPT !.d = date.d + o] /\ shown' = shown
            \/ b \in Day /\ date' = [b EXCEPT !.d = date.d + o + dim(b)] /\ shown' = MonthOf(b)
            \/ a \in Day /\ date' = [a EXCEPT !.d = (date.d + o) - dim(date)] /\ shown' = MonthOf(a)
        BY <3>1, <3>2, KeyDates
      <4> HIDE DEF a, b
      <4> QED
        BY <4>1
    <3> QED
      BY <3>3, <3>4, <3>5
  <2> QED
    <3>1. fl_popcal => \E x : Moves(x)
      BY DEF fl_popcal
    <3>2. ASSUME NEW z, Arrow(z) PROVE \E x : Moves(x)
      BY <3>2 DEF Arrow
    <3> QED
      BY <2>1, <2>2, <2>3, <3>1, <3>2 DEF Next
<1> QED
  BY TypeCorrect, <1>1, PTL DEF Spec, CaptionFollows

\* The days of a month have one number after the other.
LEMMA DayInMonth ==
  ASSUME NEW y \in Nat \ {0}, NEW m \in 1..12, NEW d \in Nat
  PROVE  /\ dayofepoch(y, m, d) = dayofepoch(y, m, 1) + d - 1
         /\ dayofepoch(y, m, 1) \in Int
<1>1. /\ dayofepoch(y, m, d) = d + jdays[m] + (IF m > 2 THEN Leap(y) ELSE 0) + Before(y)
      /\ dayofepoch(y, m, 1) = 1 + jdays[m] + (IF m > 2 THEN Leap(y) ELSE 0) + Before(y)
      /\ Before(y) \in Int
  BY DayOfEpoch
<1>2. jdays[m] \in Nat /\ (IF m > 2 THEN Leap(y) ELSE 0) \in Nat
  BY Months DEF Leap
<1> QED
  BY <1>1, <1>2

\* The first of the month after is dim days on from the first of a month.
LEMMA FirstsFollow ==
  ASSUME NEW x \in Day
  PROVE  dayofepoch(MonthAfter(x).y, MonthAfter(x).m, 1) = dayofepoch(x.y, x.m, 1) + dim(x)
<1>1. x.y \in Nat \ {0} /\ x.m \in 1..12 /\ [y |-> x.y, m |-> x.m, d |-> 1] \in Day
  BY DEF Day
<1> DEFINE z == [y |-> x.y, m |-> x.m, d |-> 1]
<1>2. MonthAfter(z).y = MonthAfter(x).y /\ MonthAfter(z).m = MonthAfter(x).m
  <2>1. z.y = x.y /\ z.m = x.m /\ z \in Day
    BY <1>1
  <2> HIDE DEF z
  <2> QED
    BY <2>1, MonthsType
<1>3. dayofepoch(MonthAfter(z).y, MonthAfter(z).m, 1)
        = dayofepoch(x.y, x.m, 1) + daysinmonth(x.m, leapYear(x.y))
  BY <1>1, MonthsFollow
<1> QED
  BY <1>2, <1>3 DEF dim

\* An arrow key moves the date by so many days, over the ends of months and years, to a
\* date, but for the ends of the months of leap years.
THEOREM KeyCorrect == Spec => KeyMovesByDays
<1> DEFINE A == \A o \in {-7, -1, 1, 7} :
       Key(o) /\ IsDate(date) /\ date.y <= LastYear /\ shown'.y <= LastYear
       => /\ dayofepoch(date'.y, date'.m, date'.d) = dayofepoch(date.y, date.m, date.d) + o
          /\ (leapYear(date.y) /\ date.m # 2 => date.d + o <= dim(date)) => IsDate(date')
<1>1. TypeOK /\ [Next]_vars => [A]_vars
  <2> SUFFICES ASSUME TypeOK, NEW o \in {-7, -1, 1, 7}, Key(o), IsDate(date),
                      date.y <= LastYear, shown'.y <= LastYear
               PROVE  /\ dayofepoch(date'.y, date'.m, date'.d)
                           = dayofepoch(date.y, date.m, date.d) + o
                      /\ (leapYear(date.y) /\ date.m # 2 => date.d + o <= dim(date))
                           => IsDate(date')
    OBVIOUS
  <2> DEFINE b == MonthBefore(date)
             a == MonthAfter(date)
  <2>1. /\ date \in Day /\ date.y \in Nat \ {0} /\ date.m \in 1..12 /\ date.d \in Nat /\ o \in Int
        /\ date = [y |-> date.y, m |-> date.m, d |-> date.d]
    BY DEF TypeOK, Day
  <2>2. /\ dayofepoch(date.y, date.m, date.d) = dayofepoch(date.y, date.m, 1) + date.d - 1
        /\ dayofepoch(date.y, date.m, 1) \in Int
    BY <2>1, DayInMonth
  <2>b. /\ dim(date) \in 28..31 /\ mdays[date.m] \in 28..31
        /\ dim(date) = IF date.m = 2 /\ leapYear(date.y) THEN 29 ELSE mdays[date.m]
        /\ date.d >= 1 /\ date.d <= dim(date) /\ -7 <= o /\ o <= 7
    BY <2>1, dimType, Months DEF IsDate
  <2>3. CASE date' = [date EXCEPT !.d = date.d + o] /\ date.d + o \in Nat
             /\ isvalid(date.m, date.d + o, date.y)
    <3>1. date'.y = date.y /\ date'.m = date.m /\ date'.d = date.d + o
      BY <2>1, <2>3
    <3>2. dayofepoch(date.y, date.m, date.d + o) = dayofepoch(date.y, date.m, 1) + (date.d + o) - 1
      BY <2>1, <2>3, DayInMonth
    <3>3. (leapYear(date.y) /\ date.m # 2 => date.d + o <= dim(date)) => IsDate(date')
      BY <2>1, <2>b, <2>3, <3>1 DEF isvalid, IsDate
    <3> QED
      BY <2>1, <2>2, <3>1, <3>2, <3>3
  <2>4. CASE b \in Day /\ date' = [b EXCEPT !.d = date.d + o + dim(b)] /\ date.d + o + dim(b) \in Nat
             /\ date.d + o < 1
    <3>1. b.y \in Nat \ {0} /\ b.m \in 1..12 /\ b = [y |-> b.y, m |-> b.m, d |-> b.d]
      BY <2>4 DEF Day
    <3>2. date'.y = b.y /\ date'.m = b.m /\ date'.d = date.d + o + dim(b)
      BY <2>4, <3>1
    <3>3. dim(b) \in Nat
      BY <3>1, dimType
    <3>4. dayofepoch(b.y, b.m, date.d + o + dim(b))
            = dayofepoch(b.y, b.m, 1) + (date.d + o + dim(b)) - 1
          /\ dayofepoch(b.y, b.m, 1) \in Int
      BY <2>4, <3>1, DayInMonth
    <3>5. MonthAfter(b).y = date.y /\ MonthAfter(b).m = date.m
      <4>1. b.y = (IF date.m = 1 THEN date.y - 1 ELSE date.y)
            /\ b.m = (IF date.m = 1 THEN 12 ELSE date.m - 1)
        BY <2>1, MonthsType
      <4>2. MonthAfter(b).y = (IF b.m = 12 THEN b.y + 1 ELSE b.y)
            /\ MonthAfter(b).m = (IF b.m = 12 THEN 1 ELSE b.m + 1)
        BY <2>4, MonthsType
      <4> HIDE DEF b
      <4> QED
        BY <2>1, <4>1, <4>2
    <3>6. dayofepoch(date.y, date.m, 1) = dayofepoch(b.y, b.m, 1) + dim(b)
      BY <2>4, <3>5, FirstsFollow
    <3> HIDE DEF b
    <3>7. dim(b) \in 28..31 /\ dim(b) = IF b.m = 2 /\ leapYear(b.y) THEN 29 ELSE mdays[b.m]
      BY <3>1, dimType
    <3>8. date.d + o + dim(b) \in 1..dim(b)
      BY <2>1, <2>b, <2>4, <3>7
    <3>9. IsDate(date')
      BY <3>1, <3>2, <3>7, <3>8 DEF IsDate
    <3> QED
      BY <2>1, <2>2, <3>2, <3>3, <3>4, <3>6, <3>9
  <2>5. CASE a \in Day /\ date' = [a EXCEPT !.d = (date.d + o) - dim(date)]
             /\ (date.d + o) - dim(date) \in Nat /\ date.d + o > dim(date)
    <3>1. a.y \in Nat \ {0} /\ a.m \in 1..12 /\ a = [y |-> a.y, m |-> a.m, d |-> a.d]
      BY <2>5 DEF Day
    <3>2. date'.y = a.y /\ date'.m = a.m /\ date'.d = (date.d + o) - dim(date)
      BY <2>5, <3>1
    <3>3. dim(date) \in Nat
      BY <2>1, dimType
    <3>4. dayofepoch(a.y, a.m, (date.d + o) - dim(date))
            = dayofepoch(a.y, a.m, 1) + ((date.d + o) - dim(date)) - 1
          /\ dayofepoch(a.y, a.m, 1) \in Int
      BY <2>5, <3>1, DayInMonth
    <3>6. dayofepoch(a.y, a.m, 1) = dayofepoch(date.y, date.m, 1) + dim(date)
      BY <2>1, FirstsFollow
    <3> HIDE DEF a
    <3>7. dim(a) \in 28..31 /\ dim(a) = IF a.m = 2 /\ leapYear(a.y) THEN 29 ELSE mdays[a.m]
      BY <3>1, dimType
    <3>8. (date.d + o) - dim(date) \in 1..dim(a)
      BY <2>1, <2>b, <2>5, <3>7
    <3>9. IsDate(date')
      BY <3>1, <3>2, <3>7, <3>8 DEF IsDate
    <3> QED
      BY <2>1, <2>2, <3>2, <3>3, <3>4, <3>6, <3>9
  <2> QED
    BY <2>3, <2>4, <2>5, KeyDates
<1> QED
  BY TypeCorrect, <1>1, PTL DEF Spec, KeyMovesByDays
=============================================================================
