------------------------------ MODULE Calendar ------------------------------
(***************************************************************************)
(* A date field of a dialog and the calendar it pops up                    *)
(* (src/widgets/calendar.cxx).  The calendar has a date of its own; its    *)
(* 42 buttons and the caption are brought up to date by update, which most *)
(* of what changes the date calls, and some does not.                      *)
(*                                                                         *)
(* What the field contains is a date or nothing.                           *)
(***************************************************************************)
EXTENDS Dates

CONSTANTS
  Today,        \* what the clock of the system gives
  Typed,        \* what the user may type into the field
  FirstYear, FinalYear, \* bounds: the years the user moves to
  MaxDay        \* bound: the days counted past the end of a month

ASSUME CalendarAssumption ==
  /\ Today \in [y : Nat \ {0}, m : 1..12, d : Nat] /\ IsDate(Today) /\ Today.y <= LastYear
  /\ Typed \subseteq [y : Nat, m : Nat, d : Nat]
  /\ FirstYear \in Nat \ {0} /\ FinalYear \in Nat /\ MaxDay \in Nat

VARIABLES
  date,         \* the Date the calendar is
  shown,        \* the month that is on the buttons and in the caption
  field,        \* the value of the input
  open          \* the calendar is popped up

vars == <<date, shown, field, open>>

NoDate == [y |-> 0, m |-> 0, d |-> 0]

setDate(x) == IF isvalid(x.m, x.d, x.y) THEN x ELSE Today

\* The button of the first day of the month, of 0..41
dow(x) == dayofweek(x.y, x.m, 1)
dim(x) == daysinmonth(x.m, leapYear(x.y))

\* The label of a button, 0 if it is hidden
Label(x, b) == IF b - dow(x) \in 0..(dim(x) - 1) THEN b - dow(x) + 1 ELSE 0

MonthOf(x) == [y |-> x.y, m |-> x.m]

\* The date becomes x, and update shows it.
Moves(x) == date' = x /\ shown' = MonthOf(x)

InBounds(x) == x.y \in FirstYear..FinalYear

\* Mutated: a calendar that is there already is not updated.
fl_popcalStale ==
  /\ ~open /\ open' = TRUE /\ field \in Typed
  /\ date' = setDate(IF field.y < 10 THEN [field EXCEPT !.y = @ + 2000]
                     ELSE IF field.y < 100 THEN [field EXCEPT !.y = @ + 1900] ELSE field)
  /\ UNCHANGED <<field, shown>>

\* The field is read (%4d%2d%2d), and a short year is completed.  As a bound, the
\* calendar is opened on values that are typed only.
fl_popcal ==
  /\ ~open /\ open' = TRUE /\ field \in Typed
  /\ Moves(setDate(IF field.y < 10 THEN [field EXCEPT !.y = @ + 2000]
                   ELSE IF field.y < 100 THEN [field EXCEPT !.y = @ + 1900] ELSE field))
  /\ UNCHANGED field

Arrow(step) ==
  /\ open /\ InBounds(step)
  /\ Moves(step)
  /\ UNCHANGED <<field, open>>

\* Mutated: the field gets the text of the date before its day is changed.
ClickEarly(b) ==
  /\ open /\ open' = FALSE /\ UNCHANGED shown
  /\ Label(shown, b) # 0
  /\ date' = IF Label(date, b) # 0 THEN [date EXCEPT !.d = Label(date, b)] ELSE date
  /\ field' = IF Label(date, b) # 0 THEN date ELSE field

\* A click on button b: the days of the date's month are gone through until one has that
\* button.  The field gets the date if there is one, and the calendar goes.
Click(b) ==
  /\ open /\ open' = FALSE /\ UNCHANGED shown
  /\ Label(shown, b) # 0
  /\ date' = IF Label(date, b) # 0 THEN [date EXCEPT !.d = Label(date, b)] ELSE date
  /\ field' = IF Label(date, b) # 0 THEN date' ELSE field

\* Mutated: the length of the month is asked for after it has changed.
KeyLate(o) ==
  LET on == [date EXCEPT !.d = @ + o]
      before == previous_month(date)
      after == next_month(date)
  IN  /\ open /\ UNCHANGED <<field, open>>
      /\ \/ /\ isvalid(on.m, on.d, on.y)
            /\ date' = on /\ UNCHANGED shown
         \/ /\ ~isvalid(on.m, on.d, on.y) /\ o < 0
            /\ shown' = MonthOf(before) /\ date' = setDate([before EXCEPT !.d = on.d + dim(before)])
         \/ /\ ~isvalid(on.m, on.d, on.y) /\ o > 0
            /\ shown' = MonthOf(after) /\ date' = setDate([after EXCEPT !.d = on.d - dim(after)])
      /\ InBounds(shown')

\* An arrow key: o days on.  Within the month the buttons are not brought up to date, and
\* at its end setDate comes after they are.
Key(o) ==
  LET on == [date EXCEPT !.d = @ + o]
      before == previous_month(date)
      after == next_month(date)
  IN  /\ open /\ UNCHANGED <<field, open>>
      /\ \/ /\ isvalid(on.m, on.d, on.y)
            /\ on.d <= MaxDay
            /\ date' = on /\ UNCHANGED shown
         \/ /\ ~isvalid(on.m, on.d, on.y) /\ o < 0
            /\ shown' = MonthOf(before) /\ date' = setDate([before EXCEPT !.d = on.d + dim(before)])
         \/ /\ ~isvalid(on.m, on.d, on.y) /\ o > 0
            /\ shown' = MonthOf(after) /\ date' = setDate([after EXCEPT !.d = on.d - dim(date)])
      /\ InBounds(shown')

\* Enter, with the pointer below the caption: its callback has the day as its argument,
\* and 0 means none.
Enter ==
  /\ open /\ open' = FALSE
  /\ field' = IF date.d = 0 THEN field ELSE date
  /\ UNCHANGED <<date, shown>>

\* A click outside
Hide == open /\ open' = FALSE /\ UNCHANGED <<date, shown, field>>

Type(x) == ~open /\ field' = x /\ UNCHANGED <<date, shown, open>>

Init ==
  /\ date = Today /\ shown = MonthOf(Today)
  /\ field = NoDate /\ open = FALSE

Next ==
  \/ fl_popcal \/ Enter \/ Hide
  \/ Arrow(previous_month(date)) \/ Arrow(next_month(date))
  \/ Arrow(YearMoved(date, -1)) \/ Arrow(YearMoved(date, 1))
  \/ \E b \in 0..41 : Click(b)
  \/ \E o \in {-7, -1, 1, 7} : Key(o)
  \/ \E x \in Typed : Type(x)

Spec == Init /\ [][Next]_vars

-----------------------------------------------------------------------------
(* Properties *)

\* Every variable keeps its type: a month is one of the calendar whatever the arrows do,
\* and a day is never negative.
TypeOK ==
  /\ date \in [y : Nat \ {0}, m : 1..12, d : Nat] /\ shown \in [y : Nat \ {0}, m : 1..12]
  /\ field \in [y : Nat, m : Nat, d : Nat] /\ open \in BOOLEAN

\* What a user picks with the pointer, however the calendar has been moved and whatever was
\* in the field: a click gives the field the day that is written on the button, of the month
\* in the caption.  Only a key that is hit on a day past the end of the month, or in a year
\* the class does not know, can part the date and the caption.
ClickGivesWhatIsShown ==
  [][\A b \in 0..41 : Click(b) /\ shown = MonthOf(date) =>
       /\ field' = [y |-> shown.y, m |-> shown.m, d |-> Label(shown, b)]
       /\ IsDate(field')]_vars

\* The month on the buttons stays that of the date in every step, unless a key is hit on
\* a day that is no date, or in or into a year the class does not know.
CaptionFollows ==
  [][(open => shown = MonthOf(date)) /\ (open => IsDate(date) /\ date.y <= LastYear)
     /\ shown'.y <= LastYear
     => (open' => shown' = MonthOf(date'))]_vars

\* A key moves a date by so many days, over the ends of months and years, unless it
\* leads out of the years the class knows; and what it gives is a date, unless it leads
\* past the end of a month of a leap year, where the class knows the end of February only.
KeyMovesByDays ==
  [][\A o \in {-7, -1, 1, 7} :
       Key(o) /\ IsDate(date) /\ date.y <= LastYear /\ shown'.y <= LastYear
       => /\ dayofepoch(date'.y, date'.m, date'.d) = dayofepoch(date.y, date.m, date.d) + o
          /\ (leapYear(date.y) /\ date.m # 2 => date.d + o <= dim(date)) => IsDate(date')]_vars
=============================================================================
