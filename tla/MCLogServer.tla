---------------------------- MODULE MCLogServer ----------------------------
(* Small instances of LogServer.                                           *)
EXTENDS LogServer

MCRank == 0..2

\* Frequency 1 is in band 1, frequency 2 in band 2, which is not in the table.
MCBandFreq == [b \in MCRank |-> IF b = 1 THEN 1 ELSE 0]
MCBandName == [f \in MCRank |-> IF f = 1 THEN 1 ELSE 2]

Qso(call, date) ==
  [EmptyRec EXCEPT !["CALL"] = call, !["QSO_DATE_OFF"] = date]

\* A frequency comes without its band.
Adif(call, date) ==
  [f \in {"CALL", "QSO_DATE_OFF", "TIME_OFF", "FREQ"} |->
     CASE f = "CALL" -> call [] f = "QSO_DATE_OFF" -> date [] OTHER -> 1]

JustCall(call) == [f \in {"CALL"} |-> call]

Note(n) == [f \in {"NOTES"} |-> n]

Add(buffer)     == [method |-> "add_record", buffer |-> buffer]
Update(buffer)  == [method |-> "update_record", buffer |-> buffer]
Get(call)       == [method |-> "get_record", call |-> call]
Dup(call, mode) == [method |-> "check_dup", call |-> call, mode |-> mode]

\* Call 2 contains call 1, as in W1HK and W1HKJ.
MCWithin == {<<r, r>> : r \in MCRank} \cup {<<0, r>> : r \in MCRank} \cup {<<1, 2>>}

\* Two QSOs with different calls on different days
TwoLog == <<Qso(2, 1), Qso(1, 2)>>

AllCalls == {Add(Adif(1, 1)), Add(Adif(2, 2)), Update(Note(1)), Get(1), Dup(2, 1)}
AddCalls == {Add(Adif(1, 1)), Add(Adif(2, 2))}

\* The text of the last one ends with the call.
LiveCalls == AllCalls \cup {Add(JustCall(1))}
CallOnly  == {JustCall(1)}

BothSorts == {"SORTDATE", "SORTCALL"}
DateSort  == {"SORTDATE"}
=============================================================================
