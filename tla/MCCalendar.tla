----------------------------- MODULE MCCalendar -----------------------------
(* The values of the Calendar for TLC                                      *)
EXTENDS Calendar

MCToday == [y |-> 2033, m |-> 3, d |-> 31]
MCTyped == {NoDate, [y |-> 4, m |-> 2, d |-> 29], [y |-> 2033, m |-> 12, d |-> 31],
            [y |-> 2032, m |-> 1, d |-> 30], [y |-> 2033, m |-> 2, d |-> 29]}
=============================================================================
