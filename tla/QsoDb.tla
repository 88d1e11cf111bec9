------------------------------- MODULE QsoDb -------------------------------
(***************************************************************************)
(* The in-memory logbook of fllog (class cQsoDb, src/logbook/qso_db.cxx):  *)
(* an array of QSO records and the operations that add, delete, replace    *)
(* and sort them and that look for duplicates.                             *)
(*                                                                         *)
(* A field is a string in the program.  The operations compare strings and *)
(* tell an empty one from the others, so a field value is a rank in the    *)
(* collating order, and rank 0 is the empty string.  Indexes start at 1:   *)
(* index n stands for array index n - 1, and 0 stands for -1.              *)
(***************************************************************************)
EXTENDS Integers, Sequences, FiniteSetsExt

CONSTANTS
  Rank,         \* the field values
  band_freq,    \* the frequency a band begins with, or 0
  band_name     \* the band of a frequency

ASSUME RankAssumption == Rank \subseteq Nat /\ 0 \in Rank
ASSUME BandAssumption == band_freq \in [Rank -> Rank] /\ band_name \in [Rank -> Rank]

\* The fields the operations tell apart.  NOTES stands for every other one.
Field == {"CALL", "QSO_DATE", "TIME_ON", "QSO_DATE_OFF", "TIME_OFF", "BAND", "FREQ",
          "MODE", "NOTES"}

Rec == [Field -> Rank]

EmptyRec == [f \in Field |-> 0]

\* An ADIF buffer sets some of the fields.
AdifBuffer == UNION {[S -> Rank] : S \in SUBSET Field}

fillfields(rec, buffer) ==
  [f \in Field |-> IF f \in DOMAIN buffer THEN buffer[f] ELSE rec[f]]

-----------------------------------------------------------------------------
SortKind == {"SORTCALL", "SORTDATE", "SORTFREQ", "SORTMODE"}

\* The fields each comparison function looks at, the most significant first.
KeysOf ==
  [SORTCALL |-> <<"CALL", "QSO_DATE_OFF", "TIME_OFF", "MODE", "FREQ">>,
   SORTDATE |-> <<"QSO_DATE_OFF", "TIME_OFF", "CALL", "MODE", "FREQ">>,
   SORTFREQ |-> <<"FREQ", "QSO_DATE_OFF", "TIME_OFF", "CALL", "MODE">>,
   SORTMODE |-> <<"MODE", "QSO_DATE_OFF", "TIME_OFF", "CALL", "FREQ">>]

Less(kind, r1, r2) ==
  \E i \in 1..5 :
    /\ r1[KeysOf[kind][i]] < r2[KeysOf[kind][i]]
    /\ \A j \in 1..(i - 1) : r1[KeysOf[kind][j]] = r2[KeysOf[kind][j]]

Compare(kind, reverse, r1, r2) ==
  IF reverse THEN Less(kind, r2, r1) ELSE Less(kind, r1, r2)

Permutation(D) == {p \in [D -> D] : \A j \in D : \E i \in D : p[i] = j}

Rearranged(db) ==
  {[i \in DOMAIN db |-> db[p[i]]] : p \in Permutation(DOMAIN db)}

\* qsort is not stable: records that compare equal may end in any order.
Sorted(kind, reverse, db) ==
  {s \in Rearranged(db) :
     \A i, j \in DOMAIN s : i < j => ~Compare(kind, reverse, s[j], s[i])}

-----------------------------------------------------------------------------
\* What a record lacks and another of its fields tells.  (The case of the letters
\* of a band, which checkBand makes small, is no part of its rank.)
ifEmpty(value, other) == IF value = 0 THEN other ELSE value

checkBand(rec) ==
  [f \in Field |->
     CASE f = "FREQ" /\ rec["BAND"] # 0 -> ifEmpty(rec[f], band_freq[rec["BAND"]])
       [] f = "BAND" /\ rec["FREQ"] # 0 -> ifEmpty(rec[f], band_name[rec["FREQ"]])
       [] OTHER -> rec[f]]

checkDateTimes(rec) ==
  [rec EXCEPT !["TIME_ON"]      = ifEmpty(rec["TIME_ON"], rec["TIME_OFF"]),
              !["TIME_OFF"]     = ifEmpty(rec["TIME_OFF"], rec["TIME_ON"]),
              !["QSO_DATE"]     = ifEmpty(rec["QSO_DATE"], rec["QSO_DATE_OFF"]),
              !["QSO_DATE_OFF"] = ifEmpty(rec["QSO_DATE_OFF"], rec["QSO_DATE"])]

\* A log as writelog_ leaves it, which passes each record to qsoUpdRec.
checkBands(db) == [i \in DOMAIN db |-> checkBand(db[i])]

-----------------------------------------------------------------------------
completed(rec) == checkDateTimes(checkBand(rec))

\* The record in the log is completed; that of the caller stays as it is.
qsoNewRec(db, nurec) == Append(db, completed(nurec))

qsoDelRec(db, rnbr) ==
  IF rnbr \in DOMAIN db
  THEN SubSeq(db, 1, rnbr - 1) \o SubSeq(db, rnbr + 1, Len(db))
  ELSE db

qsoUpdRec(db, rnbr, rec) ==
  IF rnbr \in DOMAIN db THEN [db EXCEPT ![rnbr] = checkBand(rec)] ELSE db

\* getRec hands out the slot of the array: past the last record it is an
\* emptied one.  (Index 0, the slot before the array, has no value.)
getRec(db, n) == IF n \in DOMAIN db THEN db[n] ELSE EmptyRec

-----------------------------------------------------------------------------
\* The scan of duplicate(): from the last record down when the log is
\* reversed, from the first record up otherwise.  It stops at the first record
\* of the call that agrees on everything asked; without one it keeps the index
\* of the last record of the call it met.
duplicate(db, reverse, call, modes) ==
  LET calls == {i \in DOMAIN db : db[i]["CALL"] = call}
      full  == {i \in calls : db[i]["MODE"] \in modes}
  IN  CASE full # {} ->
             [res |-> "true", nbr |-> IF reverse THEN Max(full) ELSE Min(full)]
        [] full = {} /\ calls # {} ->
             [res |-> "possible", nbr |-> IF reverse THEN Min(calls) ELSE Max(calls)]
        [] OTHER -> [res |-> "false", nbr |-> 0]
=============================================================================
