----------------------------- MODULE MCLogBook -----------------------------
(* Small instances of LogBook.                                             *)
EXTENDS LogBook

MCRank == 0..2

\* Frequency 1 is in band 1, frequency 2 in band 2; band 2 is none of the table.
MCBandFreq == [b \in MCRank |-> IF b = 1 THEN 1 ELSE 0]
MCBandName == [f \in MCRank |-> IF f = 1 THEN 1 ELSE 2]

Qso(call, date) ==
  [EmptyRec EXCEPT !["CALL"] = call, !["QSO_DATE"] = date, !["QSO_DATE_OFF"] = date]

\* A record of a client with a frequency and no band
Adif(call, date) ==
  [f \in {"CALL", "QSO_DATE_OFF", "FREQ"} |->
     CASE f = "CALL" -> call [] f = "QSO_DATE_OFF" -> date [] OTHER -> 1]

MCNames == {"logbook", "newlog", "other"}

\* The log has one record; another file has one, too.
OneEach == [n \in MCNames |-> CASE n = "logbook" -> [header |-> TRUE, recs |-> <<Qso(1, 0)>>]
                                [] n = "newlog"  -> Absent
                                [] n = "other"   -> [header |-> TRUE, recs |-> <<Qso(2, 1)>>]]

\* One form has a time and a band and lacks what can be told from them.
MCForms == {Qso(2, 2), [Qso(1, 1) EXCEPT !["TIME_ON"] = 2, !["BAND"] = 1]}
MCAdifs == {Adif(2, 0)}

BothSorts == {"SORTDATE", "SORTCALL"}
=============================================================================
