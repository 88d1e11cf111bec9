------------------------------- MODULE Dates -------------------------------
(***************************************************************************)
(* The class Date (src/widgets/date.cxx): a date and the ways to move it.  *)
(* A date is a record of three numbers, and not every one is a date of the *)
(* calendar: see isvalid.                                                  *)
(***************************************************************************)
EXTENDS Integers

CONSTANT LastYear       \* isvalid knows no year after it (2035 in the program)

ASSUME DatesAssumption == LastYear \in Nat

mdays == <<31, 28, 31, 30, 31, 30, 31, 31, 30, 31, 30, 31>>
jdays == <<0, 31, 59, 90, 120, 151, 181, 212, 243, 273, 304, 334>>

leapYear(y) == y % 400 = 0 \/ (y % 100 # 0 /\ y % 4 = 0)

\* In a leap year only February has a last day.
isvalid(m, d, y) ==
  /\ y <= LastYear /\ m \in 1..12 /\ d >= 1
  /\ IF leapYear(y) THEN m = 2 => d <= 29 ELSE d <= mdays[m]

daysinmonth(m, leap) == IF m = 2 THEN (IF leap THEN 29 ELSE 28) ELSE mdays[m]

dayofyear(y, m, d) == d + jdays[m] + (IF leapYear(y) /\ m > 2 THEN 1 ELSE 0)

\* The years before are counted in eras of 400 years, centuries, and fours.
dayofepoch(y, m, d) ==
  LET quads == (y - 1) \div 4
      cents == quads \div 25
  IN  dayofyear(y, m, d)
        + (cents \div 4) * (400 * 365 + 97) + (cents % 4) * (100 * 365 + 24)
        + (quads % 25) * (4 * 365 + 1) + ((y - 1) % 4) * 365

dayofweek(y, m, d) == dayofepoch(y, m, d) % 7

\* The loop that takes a day away until the date is valid, or until there is none
Clipped(x) ==
  IF x.d < 1 THEN x
  ELSE [x EXCEPT !.d = CHOOSE d \in 0..x.d :
          /\ d = 0 \/ isvalid(x.m, d, x.y)
          /\ \A e \in (d + 1)..x.d : ~isvalid(x.m, e, x.y)]

MonthBefore(x) == IF x.m = 1 THEN [x EXCEPT !.m = 12, !.y = @ - 1] ELSE [x EXCEPT !.m = @ - 1]
MonthAfter(x)  == IF x.m = 12 THEN [x EXCEPT !.m = 1, !.y = @ + 1] ELSE [x EXCEPT !.m = @ + 1]

previous_month(x) == Clipped(MonthBefore(x))
next_month(x) == Clipped(MonthAfter(x))

YearMoved(x, n) == [x EXCEPT !.y = @ + n, !.d = IF x.m = 2 /\ x.d = 29 THEN 28 ELSE @]

endOfMonth(x) == x.d = IF x.m = 2 /\ leapYear(x.y) THEN 29 ELSE mdays[x.m]

\* The day after: operator++
helpIncrement(x) ==
  IF ~endOfMonth(x) THEN [x EXCEPT !.d = @ + 1]
  ELSE IF x.m = 12 THEN [y |-> x.y + 1, m |-> 1, d |-> 1]
  ELSE [x EXCEPT !.m = @ + 1, !.d = 1]

\* A date of the Gregorian calendar
IsDate(x) ==
  /\ x.m \in 1..12
  /\ x.d \in 1..(IF x.m = 2 /\ leapYear(x.y) THEN 29 ELSE mdays[x.m])
=============================================================================
