--------------------------- MODULE LogBookProofs ---------------------------
(***************************************************************************)
(* Proofs about LogBook, for any records, names, files and bounds: the     *)
(* types, that the browser shows the logbook, and that the file has it,    *)
(* but for what the program fills in itself, whenever it takes it for      *)
(* saved.                                                                  *)
(***************************************************************************)
EXTENDS LogBook, QsoDbProofs

-----------------------------------------------------------------------------
(* The same records in another order *)

\* Logbooks with the same records have the same rows.
LEMMA SameCalls ==
  ASSUME NEW s, NEW t, Same(s, t)
  PROVE  Same(CallColumn(s), CallColumn(t))
<1>1. PICK p \in Bijection(DOMAIN s, DOMAIN t) : \A i \in DOMAIN s : s[i] = t[p[i]]
  BY DEF Same
<1>2. p \in [DOMAIN s -> DOMAIN t]
  BY Fun_BijectionProperties
<1>3. DOMAIN CallColumn(s) = DOMAIN s /\ DOMAIN CallColumn(t) = DOMAIN t
  BY DEF CallColumn
<1>4. \A i \in DOMAIN s : CallColumn(s)[i] = CallColumn(t)[p[i]]
  BY <1>1, <1>2 DEF CallColumn
<1> QED
  BY <1>3, <1>4 DEF Same

\* The same record appended to both
LEMMA SameAppend ==
  ASSUME NEW S, NEW s \in Seq(S), NEW t \in Seq(S), Same(s, t), NEW e \in S
  PROVE  Same(Append(s, e), Append(t, e))
<1>1. PICK p \in Bijection(DOMAIN s, DOMAIN t) : \A i \in DOMAIN s : s[i] = t[p[i]]
  BY DEF Same
<1> DEFINE n == Len(s)
           S1 == 1..(n + 1)
           q == [i \in S1 |-> IF i = n + 1 THEN n + 1 ELSE p[i]]
<1>2. n \in Nat /\ Len(t) = n /\ DOMAIN s = 1..n /\ DOMAIN t = 1..n
  BY SameLen, SeqDomain
<1>3. /\ DOMAIN Append(s, e) = S1 /\ DOMAIN Append(t, e) = S1
      /\ \A i \in 1..n : Append(s, e)[i] = s[i] /\ Append(t, e)[i] = t[i]
      /\ Append(s, e)[n + 1] = e /\ Append(t, e)[n + 1] = e
  <2>1. Append(s, e) \in Seq(S) /\ Append(t, e) \in Seq(S)
        /\ Len(Append(s, e)) = n + 1 /\ Len(Append(t, e)) = n + 1
    BY <1>2, AppendProperties
  <2>2. DOMAIN Append(s, e) = S1 /\ DOMAIN Append(t, e) = S1
    BY <2>1, SeqDomain
  <2> QED
    BY <1>2, <2>2, AppendProperties
<1>4. /\ p \in [1..n -> 1..n]
      /\ \A a, b \in 1..n : p[a] = p[b] => a = b
      /\ \A j \in 1..n : \E i \in 1..n : p[i] = j
  <2>1. /\ p \in [DOMAIN s -> DOMAIN t]
        /\ \A a, b \in DOMAIN s : p[a] = p[b] => a = b
        /\ \A j \in DOMAIN t : \E i \in DOMAIN s : p[i] = j
    BY Fun_BijectionProperties
  <2> QED
    BY <1>2, <2>1
<1>5. /\ q \in [S1 -> S1]
      /\ q[n + 1] = n + 1 /\ \A i \in 1..n : i \in S1 /\ q[i] = p[i]
      /\ \A i \in S1 : i \in 1..n \/ i = n + 1
  BY <1>2, <1>4
<1> HIDE DEF q
<1>6. \A a, b \in S1 : q[a] = q[b] => a = b
  <2> SUFFICES ASSUME NEW a \in S1, NEW b \in S1, q[a] = q[b] PROVE a = b
    OBVIOUS
  <2>1. \A i \in 1..n : p[i] # n + 1
    BY <1>2, <1>4, SMTT(60)
  <2> QED
    BY <1>4, <1>5, <2>1
<1>7. \A j \in S1 : \E i \in S1 : q[i] = j
  <2> SUFFICES ASSUME NEW j \in S1 PROVE \E i \in S1 : q[i] = j
    OBVIOUS
  <2>1. CASE j = n + 1
    BY <1>2, <1>5, <2>1
  <2>2. CASE j \in 1..n
    BY <1>4, <1>5, <2>2
  <2> QED
    BY <1>5, <2>1, <2>2
<1>8. q \in Bijection(S1, S1)
  BY <1>5, <1>6, <1>7, Fun_IsBij
<1>9. \A i \in S1 : Append(s, e)[i] = Append(t, e)[q[i]]
  <2> SUFFICES ASSUME NEW i \in S1 PROVE Append(s, e)[i] = Append(t, e)[q[i]]
    OBVIOUS
  <2>1. CASE i = n + 1
    BY <1>3, <1>5, <2>1
  <2>2. CASE i \in 1..n
    <3>1. q[i] = p[i] /\ p[i] \in 1..n
      BY <1>4, <1>5, <2>2
    <3>2. Append(s, e)[i] = s[i] /\ s[i] = t[p[i]]
      BY <1>1, <1>2, <1>3, <2>2
    <3>3. Append(t, e)[p[i]] = t[p[i]]
      BY <1>3, <3>1
    <3> QED
      BY <3>1, <3>2, <3>3
  <2> QED
    BY <1>5, <2>1, <2>2
<1> QED
  BY <1>3, <1>8, <1>9 DEF Same

\* Sequences with the same records have each of them as often.
LEMMA SameIsSameRecords ==
  ASSUME NEW S, NEW s \in Seq(S), NEW t \in Seq(S), Same(s, t)
  PROVE  SameRecords(s, t)
<1>1. PICK p \in Bijection(DOMAIN s, DOMAIN t) : \A i \in DOMAIN s : s[i] = t[p[i]]
  BY DEF Same
<1>2. /\ p \in [DOMAIN s -> DOMAIN t]
      /\ \A a, b \in DOMAIN s : p[a] = p[b] => a = b
      /\ \A j \in DOMAIN t : \E i \in DOMAIN s : p[i] = j
  BY Fun_BijectionProperties
<1>3. ASSUME NEW i \in DOMAIN s
      PROVE  Cardinality({j \in DOMAIN s : s[j] = s[i]}) = Cardinality({j \in DOMAIN t : t[j] = s[i]})
  <2> DEFINE A == {j \in DOMAIN s : s[j] = s[i]}
             B == {j \in DOMAIN t : t[j] = s[i]}
             q == [j \in A |-> p[j]]
  <2>1. q \in [A -> B] /\ \A a, b \in A : q[a] = q[b] => a = b
    BY <1>1, <1>2
  <2>2. \A k \in B : \E j \in A : q[j] = k
    BY <1>1, <1>2
  <2>3. q \in Bijection(A, B)
    BY <2>1, <2>2, Fun_IsBij
  <2>4. IsFiniteSet(A)
    BY SeqDomain, FS_Subset
  <2> HIDE DEF A, B, q
  <2>5. Cardinality(A) = Cardinality(B)
    BY <2>3, <2>4, FS_Bijection, Fun_ExistsBij
  <2> QED
    BY <2>5 DEF A, B
<1> QED
  BY <1>3, SameLen DEF SameRecords

-----------------------------------------------------------------------------
(* What is filled in *)

\* What has been completed has nothing left to complete.
LEMMA completedTwice ==
  ASSUME NEW rec \in Rec
  PROVE  /\ completed(checkBand(rec)) = completed(rec)
         /\ completed(completed(rec)) = completed(rec)
<1> DEFINE x == checkBand(rec)
           y == checkDateTimes(x)
<1>1. x \in Rec /\ checkBand(x) = x
  BY checkBandType, checkBandTwice
<1> HIDE DEF x
<1>2. /\ y \in Rec
      /\ y["FREQ"] = x["FREQ"] /\ y["BAND"] = x["BAND"]
      /\ y["TIME_ON"] = ifEmpty(x["TIME_ON"], x["TIME_OFF"])
      /\ y["TIME_OFF"] = ifEmpty(x["TIME_OFF"], x["TIME_ON"])
      /\ y["QSO_DATE"] = ifEmpty(x["QSO_DATE"], x["QSO_DATE_OFF"])
      /\ y["QSO_DATE_OFF"] = ifEmpty(x["QSO_DATE_OFF"], x["QSO_DATE"])
  BY <1>1 DEF checkDateTimes, ifEmpty, Rec, Field
<1> HIDE DEF y
<1>3. checkBand(y) = y
  <2>1. \A f \in Field \ {"FREQ", "BAND"} : checkBand(y)[f] = y[f]
    BY <1>2, checkBandType
  <2>2. /\ checkBand(y)["FREQ"] = checkBand(x)["FREQ"]
        /\ checkBand(y)["BAND"] = checkBand(x)["BAND"]
    BY <1>2 DEF checkBand, Field
  <2>3. checkBand(y) \in Rec
    BY <1>2, checkBandType
  <2>4. \A f \in Field : checkBand(y)[f] = y[f]
    BY <1>1, <1>2, <2>1, <2>2
  <2> QED
    BY <1>2, <2>3, <2>4 DEF Rec
<1>4. checkDateTimes(y) = y
  <2>1. /\ ifEmpty(y["TIME_ON"], y["TIME_OFF"]) = y["TIME_ON"]
        /\ ifEmpty(y["TIME_OFF"], y["TIME_ON"]) = y["TIME_OFF"]
        /\ ifEmpty(y["QSO_DATE"], y["QSO_DATE_OFF"]) = y["QSO_DATE"]
        /\ ifEmpty(y["QSO_DATE_OFF"], y["QSO_DATE"]) = y["QSO_DATE_OFF"]
    BY <1>2 DEF ifEmpty
  <2>2. \A f \in Field : checkDateTimes(y)[f] = y[f]
    BY <1>2, <2>1 DEF checkDateTimes, Rec, Field
  <2>3. checkDateTimes(y) \in Rec
    BY <1>2, <2>1 DEF checkDateTimes, Rec, Field
  <2> QED
    BY <1>2, <2>2, <2>3 DEF Rec
<1>5. completed(rec) = y /\ completed(x) = y
  BY <1>1 DEF completed, x, y
<1>6. completed(y) = y
  BY <1>3, <1>4 DEF completed
<1> QED
  BY <1>5, <1>6 DEF x

\* A completed log has its records, one for one.
LEMMA CompletedType ==
  ASSUME NEW s \in Seq(Rec)
  PROVE  /\ Completed(s) \in Seq(Rec)
         /\ DOMAIN Completed(s) = DOMAIN s /\ Len(Completed(s)) = Len(s)
         /\ Completed(s) = <<>> <=> s = <<>>
<1>1. Len(s) \in Nat /\ DOMAIN s = 1..Len(s) /\ \A i \in 1..Len(s) : s[i] \in Rec
  BY LenProperties, ElementOfSeq
<1>2. Completed(s) \in [1..Len(s) -> Rec]
  BY <1>1, completedType DEF Completed
<1>3. Completed(s) \in Seq(Rec) /\ Len(Completed(s)) = Len(s)
  BY <1>1, <1>2
<1>4. Completed(s) = <<>> <=> s = <<>>
  BY <1>3, EmptySeq, LenProperties
<1> QED
  BY <1>1, <1>3, <1>4 DEF Completed

\* A band or a frequency that writeLog has filled in is no more than completes it.
LEMMA CompletedOfChecked ==
  ASSUME NEW s \in Seq(Rec)
  PROVE  Completed(checkBands(s)) = Completed(s)
<1>1. \A i \in DOMAIN s : s[i] \in Rec
  BY ElementOfSeq, LenProperties
<1>2. \A i \in DOMAIN s : completed(checkBands(s)[i]) = completed(s[i])
  BY <1>1, completedTwice, checkBandsType
<1>3. Completed(checkBands(s)) = [i \in DOMAIN s |-> completed(checkBands(s)[i])]
  BY checkBandsType DEF Completed
<1> QED
  BY <1>2, <1>3 DEF Completed

\* The record at the end is completed like the others.
LEMMA CompletedOfAppend ==
  ASSUME NEW s \in Seq(Rec), NEW e \in Rec
  PROVE  Completed(Append(s, e)) = Append(Completed(s), completed(e))
<1> DEFINE n == Len(s)
           a == Append(s, e)
           b == Append(Completed(s), completed(e))
<1>1. /\ n \in Nat /\ DOMAIN s = 1..n /\ a \in Seq(Rec) /\ Len(a) = n + 1
      /\ a[n + 1] = e /\ \A i \in 1..n : a[i] = s[i]
  BY LenProperties, AppendProperties
<1>2. completed(e) \in Rec /\ Completed(s) \in Seq(Rec) /\ Len(Completed(s)) = n
  BY completedType, CompletedType
<1>3. /\ b \in Seq(Rec) /\ Len(b) = n + 1
      /\ b[n + 1] = completed(e) /\ \A i \in 1..n : b[i] = Completed(s)[i]
  BY <1>1, <1>2, LenProperties, AppendProperties
<1>4. Completed(a) \in Seq(Rec) /\ Len(Completed(a)) = n + 1 /\ DOMAIN a = 1..(n + 1)
  BY <1>1, CompletedType, LenProperties
<1> HIDE DEF a, b, n
<1>5. ASSUME NEW i \in 1..(n + 1) PROVE Completed(a)[i] = b[i]
  <2>1. Completed(a)[i] = completed(a[i])
    BY <1>4 DEF Completed
  <2>2. CASE i = n + 1
    BY <1>1, <1>3, <2>1, <2>2
  <2>3. CASE i \in 1..n
    BY <1>1, <1>3, <2>1, <2>3 DEF Completed
  <2> QED
    BY <1>1, <2>2, <2>3
<1>6. Completed(a) = b
  BY <1>3, <1>4, <1>5, SeqEqual
<1> QED
  BY <1>6 DEF a, b

\* Logs with the same records have the same when they are completed,
LEMMA SameCompleted ==
  ASSUME NEW s, NEW t, Same(s, t)
  PROVE  Same(Completed(s), Completed(t))
<1>1. PICK p \in Bijection(DOMAIN s, DOMAIN t) : \A i \in DOMAIN s : s[i] = t[p[i]]
  BY DEF Same
<1>2. p \in [DOMAIN s -> DOMAIN t]
  BY Fun_BijectionProperties
<1>3. DOMAIN Completed(s) = DOMAIN s /\ DOMAIN Completed(t) = DOMAIN t
  BY DEF Completed
<1>4. \A i \in DOMAIN s : Completed(s)[i] = Completed(t)[p[i]]
  BY <1>1, <1>2 DEF Completed
<1> QED
  BY <1>1, <1>3, <1>4 DEF Same

\* also those that are the same only when writeLog has been through them.
LEMMA CheckedCompleted ==
  ASSUME NEW s \in Seq(Rec), NEW t \in Seq(Rec), Same(checkBands(s), checkBands(t))
  PROVE  Same(Completed(s), Completed(t))
<1>1. Same(Completed(checkBands(s)), Completed(checkBands(t)))
  BY SameCompleted
<1> QED
  BY <1>1, CompletedOfChecked

-----------------------------------------------------------------------------
(* What the callbacks are made of *)

\* An empty form is a record,
LEMMA ClearFormType == ClearForm \in Rec
BY EmptyRecType, BookAssumption DEF ClearForm, Rec, Field

\* and so is the form of a record.
LEMMA EditRecordType ==
  ASSUME NEW rec \in Rec
  PROVE  EditRecord(rec) \in Rec
BY BookAssumption DEF EditRecord, ifEmpty, Rec, Field

\* What can be read of a file is a log.
LEMMA ReadableType ==
  ASSUME NEW f \in File
  PROVE  Readable(f) \in Seq(Rec)
BY DEF Readable, File

\* restore_sort and SortByDate rearrange what they are given.
LEMMA RestoredSame ==
  ASSUME TypeOK, NEW s \in Seq(Rec), restore_sort(s)
  PROVE  db' \in Seq(Rec) /\ Len(db') = Len(s) /\ Same(db', s) /\ reverse' \in BOOLEAN
<1>1. reverse' \in BOOLEAN
  BY DEF TypeOK, restore_sort
<1> QED
  BY <1>1, SortedType, SortedSame DEF restore_sort

\* (also where a caller goes on with the records)
LEMMA RearrangedSame ==
  ASSUME NEW u \in Seq(Rec), NEW s \in Dated(u) \cup Restored(u)
  PROVE  s \in Seq(Rec) /\ Len(s) = Len(u) /\ Same(s, u)
BY SortedType, SortedSame DEF Dated, Restored

\* The column of calls holds field values.
LEMMA CallColumnType ==
  ASSUME NEW s \in Seq(Rec)
  PROVE  CallColumn(s) \in Seq(Rank)
<1>1. DOMAIN s = 1..Len(s) /\ Len(s) \in Nat /\ \A i \in 1..Len(s) : s[i] \in Rec
  BY LenProperties, ElementOfSeq
<1>2. \A i \in 1..Len(s) : s[i]["CALL"] \in Rank
  BY <1>1 DEF Rec, Field
<1>3. CallColumn(s) \in [1..Len(s) -> Rank]
  BY <1>1, <1>2 DEF CallColumn
<1> QED
  BY <1>1, <1>3

\* The browser is in step with the logbook: a row for every record, and the selected row
\* is the record that is edited.
InStep ==
  /\ Same(browser, CallColumn(db))
  /\ IF db = <<>> THEN selected = 0 ELSE selected \in DOMAIN db /\ editNbr = selected

\* What writeLog fills in is not in the column of calls.
LEMMA CheckedCalls ==
  ASSUME NEW s \in Seq(Rec)
  PROVE  CallColumn(checkBands(s)) = CallColumn(s)
<1>1. \A i \in DOMAIN s : s[i] \in Rec
  BY ElementOfSeq, LenProperties
<1>2. \A i \in DOMAIN s : checkBands(s)[i]["CALL"] = s[i]["CALL"]
  BY <1>1, checkBandsType, checkBandType DEF Field
<1> QED
  BY <1>2, checkBandsType DEF CallColumn

\* Whatever was shown before, loadBrowser brings it in step, also with a log whose bands
\* writeLog fills in behind it.
LEMMA LoadedInStep ==
  ASSUME TypeOK, NEW s \in Seq(Rec), db' = s \/ db' = checkBands(s), loadBrowser(s)
  PROVE  /\ browser' \in Seq(Rank) /\ selected' \in Nat /\ editNbr' \in Nat \ {0} /\ form' \in Rec
         /\ InStep'
<1>1. /\ browser' = CallColumn(s) /\ browser' \in Seq(Rank)
      /\ CallColumn(db') = CallColumn(s) /\ Same(browser', CallColumn(db'))
      /\ DOMAIN db' = DOMAIN s /\ (db' = <<>> <=> s = <<>>)
  BY CallColumnType, CheckedCalls, checkBandsType, SameRefl DEF loadBrowser
<1>2. CASE s = <<>>
  <2>1. selected' = 0 /\ UNCHANGED <<editNbr, form>>
    BY <1>2 DEF loadBrowser
  <2> QED
    BY <1>1, <1>2, <2>1 DEF TypeOK, InStep, CallColumn
<1>3. CASE s # <<>>
  <2>1. PICK row : (row = 1 \/ row = Len(s)) /\ GotoRow(row, s)
    BY <1>3 DEF loadBrowser
  <2>2. Len(s) \in Nat \ {0} /\ DOMAIN s = 1..Len(s)
    BY <1>3, EmptySeq, LenProperties
  <2>3. row \in DOMAIN s /\ row \in Nat \ {0}
    BY <2>1, <2>2
  <2>4. selected' = row /\ editNbr' = row /\ form' = EditRecord(getRec(s, row))
    BY <2>1 DEF GotoRow
  <2>5. form' \in Rec
    BY <2>4, getRecType, EditRecordType
  <2> QED
    BY <1>1, <1>3, <2>3, <2>4, <2>5 DEF InStep, CallColumn
<1> QED
  BY <1>2, <1>3

\* A log that is written whole is in its file.
LEMMA WrittenWhole ==
  ASSUME TypeOK, NEW s \in Seq(Rec), NEW name \in Names, writeLog(name, s)
  PROVE  /\ db' = checkBands(s) /\ db' \in Seq(Rec)
         /\ disk' \in [Names -> File] /\ merged' = FALSE
         /\ Same(checkBands(Readable(disk'[name])), checkBands(db'))
<1>1. /\ disk' = [disk EXCEPT ![name] = [header |-> TRUE, recs |-> s]] /\ merged' = FALSE
      /\ [header |-> TRUE, recs |-> s] \in File /\ db' = checkBands(s)
  BY DEF writeLog, File
<1>2. disk' \in [Names -> File] /\ disk'[name] = [header |-> TRUE, recs |-> s]
  BY <1>1 DEF TypeOK
<1>3. checkBands(Readable(disk'[name])) = checkBands(db')
  BY <1>1, <1>2, checkBandsTwice DEF Readable
<1> QED
  BY <1>1, <1>2, <1>3, checkBandsType, SameRefl

\* A log that is saved is in its file, and no other file changes.
LEMMA ChangesWritten ==
  ASSUME TypeOK, NEW name \in Names, SaveChanges(name)
  PROVE  /\ disk' \in [Names -> File] /\ merged' = FALSE /\ Same(Readable(disk'[name]), db)
         /\ \A other \in Names \ {name} : disk'[other] = disk[other]
<1>1. PICK s \in Sorted("SORTDATE", reverse, db) :
         disk' = [disk EXCEPT ![name] = [header |-> TRUE, recs |-> s]]
  BY DEF SaveChanges, Dated
<1>2. s \in Seq(Rec) /\ Same(s, db)
  BY SortedType, SortedSame DEF TypeOK
<1>3. /\ disk' \in [Names -> File] /\ disk'[name] = [header |-> TRUE, recs |-> s]
      /\ \A other \in Names \ {name} : disk'[other] = disk[other]
  BY <1>1, <1>2 DEF TypeOK, File
<1> QED
  BY <1>2, <1>3 DEF Readable, SaveChanges

-----------------------------------------------------------------------------
(* The types *)

\* The types hold at the start.
LEMMA InitType == Init => TypeOK
<1> SUFFICES ASSUME Init PROVE TypeOK
  OBVIOUS
<1>1. InitDisk[FirstName] \in File /\ FirstName \in Names
  BY BookAssumption
<1>2. db \in Seq(Rec)
  BY <1>1, ReadableType DEF Init
<1>3. browser \in Seq(Rank) /\ form \in Rec /\ editNbr \in Nat \ {0} /\ selected \in Nat
  BY EmptyRecType DEF Init
<1>4. fwd \in [SortKind -> BOOLEAN] /\ lastsort \in SortKind
  BY DEF Init, SortKind
<1>5. disk \in [Names -> File] /\ {logName, prefName} \subseteq Names
  BY <1>1, BookAssumption DEF Init
<1> QED
  BY <1>2, <1>3, <1>4, <1>5 DEF Init, TypeOK

\* saveLogbook of New, with or without the answer yes
LEMMA AskedType ==
  ASSUME TypeOK, NEW answer, saveLogbook(answer)
  PROVE  /\ db' \in Seq(Rec)
         /\ Same(db', db) \/ Same(db', checkBands(db))
         /\ reverse' \in BOOLEAN /\ dirty' \in BOOLEAN
         /\ disk' \in [Names -> File] /\ merged' \in BOOLEAN
<1>0. db \in Seq(Rec) /\ checkBands(db) \in Seq(Rec) /\ logName \in Names
  BY checkBandsType DEF TypeOK
<1>1. CASE ~answer /\ UNCHANGED <<diskVars, db, reverse, dirty>>
  BY <1>1, SameRefl DEF TypeOK, diskVars
<1>2. CASE answer /\ SaveChanges(logName) /\ restore_sort(checkBands(db)) /\ dirty' = FALSE
  BY <1>0, <1>2, RestoredSame, ChangesWritten
<1> QED
  BY <1>1, <1>2 DEF saveLogbook

\* Every step keeps them.
LEMMA NextType == ASSUME TypeOK, [Next]_vars PROVE TypeOK'
<1>0. /\ db \in Seq(Rec) /\ checkBands(db) \in Seq(Rec)
      /\ logName \in Names /\ prefName \in Names
      /\ disk \in [Names -> File] /\ form \in Rec /\ ops + 1 \in Nat
      /\ NewName \in Names
  BY checkBandsType, BookAssumption DEF TypeOK
<1>1. CASE Start
  <2>1. Readable(disk[prefName]) \in Seq(Rec)
    BY <1>0, ReadableType
  <2>2. db' \in Seq(Rec) /\ reverse' \in BOOLEAN
    BY <1>1, <2>1, RestoredSame DEF Start
  <2>3. /\ browser' \in Seq(Rank) /\ selected' \in Nat /\ editNbr' \in Nat \ {0} /\ form' \in Rec
    BY <1>1, <2>2, LoadedInStep DEF Start
  <2> QED
    BY <1>1, <2>2, <2>3 DEF Start, TypeOK, activateButtons
<1>2. CASE cbExit
  <2>1. db' \in Seq(Rec) /\ reverse' \in BOOLEAN
    BY <1>0, <1>2, RestoredSame DEF cbExit
  <2>2. disk' \in [Names -> File] /\ merged' = FALSE
    BY <1>0, <1>2, ChangesWritten DEF cbExit
  <2>3. browser' \in Seq(Rank) /\ form' \in Rec /\ editNbr' \in Nat \ {0} /\ selected' \in Nat
    BY <1>2, EmptyRecType DEF cbExit
  <2> QED
    BY <1>0, <1>2, <2>1, <2>2, <2>3 DEF cbExit, Acts, TypeOK, btnVars, nameVars
<1>3. ASSUME NEW buffer \in Adifs, RpcAdd(buffer) PROVE TypeOK'
  <2>1. Append(db, fillfields(EmptyRec, buffer)) \in Seq(Rec)
    BY <1>0, EmptyRecType, fillfieldsType, AppendProperties, BookAssumption
  <2>2. /\ db' \in Seq(Rec) /\ disk' \in [Names -> File] /\ merged' = FALSE
        /\ reverse' \in BOOLEAN
    BY <1>0, <1>3, <2>1, RearrangedSame, WrittenWhole DEF RpcAdd, TypeOK
  <2>3. /\ browser' \in Seq(Rank) /\ selected' \in Nat /\ editNbr' \in Nat \ {0} /\ form' \in Rec
    BY <1>3, <2>2, LoadedInStep DEF RpcAdd
  <2> QED
    BY <1>0, <1>3, <2>2, <2>3 DEF RpcAdd, Acts, TypeOK, btnVars, nameVars
<1>4. ASSUME NEW buffer \in Adifs, RpcUpdate(buffer) PROVE TypeOK'
  <2>1. qsoUpdRec(db, selected, fillfields(getRec(db, selected), buffer)) \in Seq(Rec)
    BY <1>0, getRecType, fillfieldsType, qsoUpdRecType, BookAssumption
  <2>2. /\ db' \in Seq(Rec) /\ disk' \in [Names -> File] /\ merged' = FALSE
        /\ reverse' \in BOOLEAN
    BY <1>0, <1>4, <2>1, RearrangedSame, WrittenWhole DEF RpcUpdate, TypeOK
  <2>3. /\ browser' \in Seq(Rank) /\ selected' \in Nat /\ editNbr' \in Nat \ {0} /\ form' \in Rec
    BY <1>4, <2>2, LoadedInStep DEF RpcUpdate
  <2> QED
    BY <1>0, <1>4, <2>2, <2>3 DEF RpcUpdate, Acts, TypeOK, btnVars, nameVars
<1>5. ASSUME NEW row \in DOMAIN browser, SelectRow(row) PROVE TypeOK'
  <2>1. row \in Nat \ {0}
    <3>1. browser \in Seq(Rank)
      BY DEF TypeOK
    <3> QED
      BY <3>1, LenProperties
  <2>2. UNCHANGED db /\ selected' = row /\ editNbr' = row /\ form' = EditRecord(getRec(db, row))
    BY <1>5 DEF SelectRow, GotoRow, logVars
  <2>3. form' \in Rec
    BY <1>0, <2>2, getRecType, EditRecordType
  <2> QED
    BY <1>0, <1>5, <2>1, <2>2, <2>3
       DEF SelectRow, UserActs, Acts, TypeOK, logVars, sortVars, btnVars, nameVars, diskVars
<1>6. ASSUME NEW kind \in Kinds, SortBy(kind) PROVE TypeOK'
  <2>1. /\ kind \in SortKind /\ lastsort' = kind /\ fwd' \in [SortKind -> BOOLEAN]
        /\ reverse' \in BOOLEAN
    BY <1>6, BookAssumption DEF SortBy, TypeOK
  <2>2. db' \in Seq(Rec)
    BY <1>0, <1>6, SortedType DEF SortBy
  <2>3. /\ browser' \in Seq(Rank) /\ selected' \in Nat /\ editNbr' \in Nat \ {0} /\ form' \in Rec
    BY <1>6, <2>2, LoadedInStep DEF SortBy
  <2> QED
    BY <1>0, <1>6, <2>1, <2>2, <2>3 DEF SortBy, UserActs, Acts, TypeOK, btnVars, nameVars, diskVars
<1>7. ASSUME NEW rec \in Forms, Type(rec) PROVE TypeOK'
  <2>1. rec \in Rec
    BY BookAssumption
  <2> QED
    BY <1>0, <1>7, <2>1
       DEF Type, UserActs, Acts, TypeOK, logVars, sortVars, btnVars, nameVars, diskVars
<1>8. CASE NewRecord
  <2>1. form' \in Rec
    BY <1>8, ClearFormType DEF NewRecord
  <2> QED
    BY <1>0, <1>8, <2>1
       DEF NewRecord, UserActs, Acts, TypeOK, activateButtons, logVars, sortVars, nameVars, diskVars
<1>9. CASE saveRecord
  <2>1. qsoNewRec(db, form) \in Seq(Rec)
    BY <1>0, qsoNewRecType
  <2>2. PICK s \in Dated(qsoNewRec(db, form)) : storeNew(s, form)
    BY <1>9 DEF saveRecord
  <2>3. s \in Seq(Rec)
    BY <2>1, <2>2, RearrangedSame
  <2>4. db' \in Seq(Rec) /\ disk' \in [Names -> File] /\ merged' \in BOOLEAN
    <3>1. CASE writeLog(logName, s)
      BY <1>0, <2>3, <3>1, WrittenWhole
    <3>2. CASE writeAdifRec(form, logName) /\ db' = s
      <4>1. [header |-> disk[logName].header, recs |-> Append(disk[logName].recs, form)] \in File
        BY <1>0, AppendProperties DEF File
      <4> QED
        BY <1>0, <2>3, <3>2, <4>1 DEF writeAdifRec, TypeOK
    <3> QED
      BY <2>2, <3>1, <3>2 DEF storeNew
  <2>5. /\ browser' \in Seq(Rank) /\ selected' \in Nat /\ editNbr' \in Nat \ {0} /\ form' \in Rec
        /\ reverse' \in BOOLEAN
    BY <1>9, <2>4, LoadedInStep DEF saveRecord, TypeOK
  <2> QED
    BY <1>0, <1>9, <2>4, <2>5 DEF saveRecord, UserActs, Acts, TypeOK, activateButtons, nameVars
<1>10. CASE CancelRecord
  <2>1. db' \in Seq(Rec) /\ reverse' \in BOOLEAN
    BY <1>0, <1>10, RestoredSame DEF CancelRecord
  <2>2. form' \in Rec
    BY <1>0, <1>10, <2>1, getRecType, EditRecordType DEF CancelRecord
  <2> QED
    BY <1>0, <1>10, <2>1, <2>2
       DEF CancelRecord, Acts, TypeOK, activateButtons, nameVars, diskVars
<1>11. CASE updateRecord
  <2>1. qsoUpdRec(db, editNbr, form) \in Seq(Rec)
    BY <1>0, qsoUpdRecType
  <2>2. PICK s \in Restored(qsoUpdRec(db, editNbr, form)) : loadBrowser(s) /\ writeLog(logName, s)
    BY <1>11 DEF updateRecord
  <2>3. s \in Seq(Rec) /\ reverse' \in BOOLEAN
    BY <1>11, <2>1, <2>2, RearrangedSame DEF updateRecord, TypeOK
  <2>4. db' = checkBands(s) /\ db' \in Seq(Rec) /\ disk' \in [Names -> File] /\ merged' = FALSE
    BY <1>0, <2>2, <2>3, WrittenWhole
  <2>5. /\ browser' \in Seq(Rank) /\ selected' \in Nat /\ editNbr' \in Nat \ {0} /\ form' \in Rec
    BY <2>2, <2>3, <2>4, LoadedInStep
  <2> QED
    BY <1>0, <1>11, <2>3, <2>4, <2>5 DEF updateRecord, UserActs, Acts, TypeOK, btnVars, nameVars
<1>12. CASE deleteRecord
  <2>1. qsoDelRec(db, editNbr) \in Seq(Rec)
    BY <1>0, qsoDelRecType
  <2>2. PICK s \in Restored(qsoDelRec(db, editNbr)) : loadBrowser(s) /\ writeLog(logName, s)
    BY <1>12 DEF deleteRecord
  <2>3. s \in Seq(Rec) /\ reverse' \in BOOLEAN
    BY <1>12, <2>1, <2>2, RearrangedSame DEF deleteRecord, TypeOK
  <2>4. db' = checkBands(s) /\ db' \in Seq(Rec) /\ disk' \in [Names -> File] /\ merged' = FALSE
    BY <1>0, <2>2, <2>3, WrittenWhole
  <2>5. /\ browser' \in Seq(Rank) /\ selected' \in Nat /\ editNbr' \in Nat \ {0} /\ form' \in Rec
    BY <2>2, <2>3, <2>4, LoadedInStep
  <2> QED
    BY <1>0, <1>12, <2>3, <2>4, <2>5 DEF deleteRecord, UserActs, Acts, TypeOK, btnVars, nameVars
<1>13. CASE NewLogbook
  <2>1. PICK answer : saveLogbook(answer)
    BY <1>13 DEF NewLogbook
  <2>2. /\ db' \in Seq(Rec) /\ reverse' \in BOOLEAN /\ dirty' \in BOOLEAN
        /\ disk' \in [Names -> File] /\ merged' \in BOOLEAN
    BY <2>1, AskedType
  <2> QED
    BY <1>0, <1>13, <2>2 DEF NewLogbook, UserActs, Acts, TypeOK, viewVars, btnVars
<1>14. CASE NewCancelled
  BY <1>0, <1>14
     DEF NewCancelled, Acts, TypeOK, logVars, sortVars, viewVars, btnVars, nameVars, diskVars
<1>15. ASSUME NEW name \in Names, NewNamed(name) PROVE TypeOK'
  <2>1. form' \in Rec /\ <<>> \in Seq(Rec) /\ <<>> \in Seq(Rank)
    BY <1>15, ClearFormType DEF NewNamed
  <2> QED
    BY <1>0, <1>15, <2>1 DEF NewNamed, Acts, TypeOK, sortVars, btnVars
<1>16. ASSUME NEW answer \in BOOLEAN, NewSaved(answer) PROVE TypeOK'
  <2>1. /\ db' \in Seq(Rec) /\ reverse' \in BOOLEAN /\ dirty' \in BOOLEAN
        /\ disk' \in [Names -> File] /\ merged' \in BOOLEAN
    BY <1>16, AskedType DEF NewSaved
  <2> QED
    BY <1>0, <1>16, <2>1 DEF NewSaved, Acts, TypeOK, viewVars, btnVars, nameVars
<1>17. ASSUME NEW name \in Names, OpenLogbook(name) PROVE TypeOK'
  <2>1. disk' \in [Names -> File] /\ reverse' \in BOOLEAN
    <3>1. CASE SaveChanges(logName) /\ reverse' = fwd[lastsort]
      BY <1>0, <3>1, ChangesWritten DEF TypeOK
    <3>2. CASE UNCHANGED <<disk, reverse>>
      BY <3>2 DEF TypeOK
    <3> QED
      BY <1>17, <3>1, <3>2 DEF OpenLogbook
  <2>2. db' \in Seq(Rec)
    BY <1>17, <2>1, ReadableType DEF OpenLogbook
  <2>3. /\ browser' \in Seq(Rank) /\ selected' \in Nat /\ editNbr' \in Nat \ {0} /\ form' \in Rec
    BY <1>17, <2>2, LoadedInStep DEF OpenLogbook
  <2> QED
    BY <1>0, <1>17, <2>1, <2>2, <2>3 DEF OpenLogbook, UserActs, Acts, TypeOK, activateButtons
<1>18. ASSUME NEW name \in Names, SaveLogbook(name) PROVE TypeOK'
  <2>1. /\ db' \in Seq(Rec) /\ disk' \in [Names -> File] /\ merged' = FALSE
        /\ reverse' \in BOOLEAN
    BY <1>0, <1>18, RearrangedSame, WrittenWhole DEF SaveLogbook, TypeOK
  <2> QED
    BY <1>0, <1>18, <2>1 DEF SaveLogbook, UserActs, Acts, TypeOK, viewVars, btnVars
<1>19. ASSUME NEW name \in Names, MergeADIF(name) PROVE TypeOK'
  <2>1. db \o Readable(disk[name]) \in Seq(Rec)
    BY <1>0, ReadableType, ConcatProperties
  <2>2. db' \in Seq(Rec) /\ reverse' \in BOOLEAN
    BY <1>19, <2>1, RestoredSame DEF MergeADIF
  <2>3. /\ browser' \in Seq(Rank) /\ selected' \in Nat /\ editNbr' \in Nat \ {0} /\ form' \in Rec
    BY <1>19, <2>2, LoadedInStep DEF MergeADIF
  <2> QED
    BY <1>0, <1>19, <2>2, <2>3 DEF MergeADIF, UserActs, Acts, TypeOK, btnVars, nameVars
<1>20. CASE UNCHANGED vars
  BY <1>20 DEF vars, TypeOK, logVars, sortVars, viewVars, btnVars, nameVars, diskVars
<1> QED
  BY <1>1, <1>2, <1>3, <1>4, <1>5, <1>6, <1>7, <1>8, <1>9, <1>10, <1>11, <1>12, <1>13, <1>14,
     <1>15, <1>16, <1>17, <1>18, <1>19, <1>20 DEF Next, Idle

-----------------------------------------------------------------------------
(* The browser *)

Shown == proc = "on" => InStep

\* An empty log has an empty column.
LEMMA EmptyColumn == CallColumn(<<>>) = <<>>
<1>1. DOMAIN CallColumn(<<>>) = {}
  BY DEF CallColumn
<1>2. CallColumn(<<>>) \in Seq(Rank)
  <2>1. <<>> \in Seq(Rec)
    OBVIOUS
  <2> QED
    BY <2>1, CallColumnType
<1> QED
  BY <1>1, <1>2, EmptySeq, LenProperties

\* Sequences with the same records are both empty or have the same numbers.
LEMMA SameDomain ==
  ASSUME NEW S, NEW s \in Seq(S), NEW t \in Seq(S), Same(s, t)
  PROVE  DOMAIN s = DOMAIN t /\ (s = <<>> <=> t = <<>>)
BY SameLen, SeqDomain, EmptySeq

\* The logbook may be rearranged under the browser, and its bands filled in: only the
\* selected number is left.
LEMMA RearrangedInStep ==
  ASSUME TypeOK, InStep, db' \in Seq(Rec), Same(db', db) \/ Same(db', checkBands(db)),
         UNCHANGED <<browser, selected, editNbr>>
  PROVE  InStep'
<1>0. PICK s \in Seq(Rec) : /\ Same(db', s) /\ CallColumn(s) = CallColumn(db)
                            /\ DOMAIN s = DOMAIN db /\ (s = <<>> <=> db = <<>>)
  BY CheckedCalls, checkBandsType DEF TypeOK
<1>1. DOMAIN db' = DOMAIN db /\ (db' = <<>> <=> db = <<>>)
  BY <1>0, SameDomain
<1>2. Same(CallColumn(db), CallColumn(db'))
  BY <1>0, SameSym, SameCalls
<1>3. Same(browser', CallColumn(db'))
  BY <1>2, SameTrans DEF InStep
<1> QED
  BY <1>1, <1>3 DEF InStep, CallColumn

\* Every step leaves the browser in step with the log.
LEMMA NextShown == ASSUME TypeOK, Shown, [Next]_vars PROVE Shown'
<1>0. db \in Seq(Rec) /\ db' \in Seq(Rec) /\ browser \in Seq(Rank)
  BY NextType DEF TypeOK
<1>1. ASSUME NEW s \in Seq(Rec), db' = s \/ db' = checkBands(s), loadBrowser(s) PROVE Shown'
  BY <1>1, LoadedInStep DEF Shown
<1>2. ASSUME proc = "on", Same(db', db) \/ Same(db', checkBands(db)),
             UNCHANGED <<browser, selected, editNbr>>
      PROVE  Shown'
  BY <1>0, <1>2, RearrangedInStep DEF Shown
<1>3. CASE Start
  BY <1>0, <1>1, <1>3 DEF Start
<1>4. CASE cbExit
  BY <1>4 DEF cbExit, Shown
<1>5. CASE \E buffer \in Adifs : RpcAdd(buffer) \/ RpcUpdate(buffer)
  BY <1>0, <1>1, <1>5 DEF RpcAdd, RpcUpdate
<1>6. ASSUME NEW row \in DOMAIN browser, SelectRow(row) PROVE Shown'
  <2>1. /\ proc = "on" /\ db' = db /\ browser' = browser /\ selected' = row /\ editNbr' = row
    BY <1>6 DEF SelectRow, UserActs, Acts, GotoRow, logVars
  <2>2. Same(browser, CallColumn(db)) /\ CallColumn(db) \in Seq(Rank) /\ DOMAIN CallColumn(db) = DOMAIN db
    BY <1>0, <2>1, CallColumnType DEF Shown, InStep, CallColumn
  <2>3. row \in DOMAIN db /\ db # <<>>
    <3>1. DOMAIN browser = DOMAIN db
      BY <1>0, <2>2, SameDomain
    <3> QED
      BY <3>1
  <2> QED
    BY <2>1, <2>2, <2>3 DEF Shown, InStep, CallColumn
<1>7. CASE \E kind \in Kinds : SortBy(kind)
  BY <1>0, <1>1, <1>7 DEF SortBy
<1>8. CASE (\E rec \in Forms : Type(rec)) \/ NewRecord \/ NewCancelled
  <2>1. proc = "on" /\ UNCHANGED <<db, browser, selected, editNbr>>
    BY <1>8 DEF Type, NewRecord, NewCancelled, UserActs, Acts, logVars, viewVars
  <2> QED
    BY <1>2, <2>1, SameRefl
<1>9. CASE saveRecord
  BY <1>0, <1>1, <1>9 DEF saveRecord
<1>16. CASE updateRecord \/ deleteRecord
  <2>1. qsoUpdRec(db, editNbr, form) \in Seq(Rec) /\ qsoDelRec(db, editNbr) \in Seq(Rec)
    BY <1>0, qsoUpdRecType, qsoDelRecType DEF TypeOK
  <2>2. PICK s : /\ s \in Restored(qsoUpdRec(db, editNbr, form)) \cup Restored(qsoDelRec(db, editNbr))
                 /\ loadBrowser(s) /\ writeLog(logName, s)
    BY <1>16 DEF updateRecord, deleteRecord
  <2>3. s \in Seq(Rec)
    BY <2>1, <2>2, RearrangedSame
  <2> QED
    BY <1>1, <2>2, <2>3 DEF writeLog
<1>10. CASE CancelRecord
  BY <1>0, <1>2, <1>10, RestoredSame DEF CancelRecord, Acts
<1>11. CASE NewLogbook \/ \E answer \in BOOLEAN : NewSaved(answer)
  <2>1. proc = "on" /\ (\E answer : saveLogbook(answer)) /\ UNCHANGED <<browser, selected, editNbr>>
    BY <1>11 DEF NewLogbook, NewSaved, UserActs, Acts, viewVars
  <2> QED
    BY <1>2, <2>1, AskedType
<1>12. ASSUME NEW name \in Names, NewNamed(name) PROVE Shown'
  <2>1. db' = <<>> /\ browser' = <<>> /\ selected' = 0
    BY <1>12 DEF NewNamed
  <2>2. Same(browser', CallColumn(db'))
    BY <2>1, EmptyColumn, SameRefl
  <2> QED
    BY <2>1, <2>2 DEF Shown, InStep, CallColumn
<1>13. CASE \E name \in Names : OpenLogbook(name) \/ MergeADIF(name)
  BY <1>0, <1>1, <1>13 DEF OpenLogbook, MergeADIF
<1>14. ASSUME NEW name \in Names, SaveLogbook(name) PROVE Shown'
  <2>1. proc = "on" /\ UNCHANGED <<browser, selected, editNbr>>
    BY <1>14 DEF SaveLogbook, UserActs, Acts, viewVars
  <2>2. PICK s \in Restored(db) : writeLog(name, s)
    BY <1>14 DEF SaveLogbook
  <2>3. Same(db', checkBands(db))
    BY <1>0, <2>2, RearrangedSame, SameChecked DEF writeLog
  <2> QED
    BY <1>2, <2>1, <2>3
<1>15. CASE UNCHANGED vars
  BY <1>15 DEF vars, logVars, viewVars, Shown, InStep, CallColumn
<1> QED
  BY <1>3, <1>4, <1>5, <1>6, <1>7, <1>8, <1>9, <1>10, <1>11, <1>12, <1>13, <1>14, <1>15, <1>16
     DEF Next, Idle

-----------------------------------------------------------------------------
(* The files *)

\* The file that is read by the next start has the logbook, up to what is filled in,
Saved == Same(Completed(Readable(disk[prefName])), Completed(db))

\* or even up to the bands and the frequencies.
Written == Same(checkBands(Readable(disk[prefName])), checkBands(db))

\* The dialog writes to the file the server writes to, or to the one New proposes.
NamesMeet == logName \in {prefName, NewName}

\* A logbook that is not in its file has merged records, or is the empty one of New.
SavedInv ==
  /\ NamesMeet
  /\ proc = "on" /\ ~merged /\ logName = prefName => (db = <<>> /\ dirty) \/ Saved
  /\ proc = "off" /\ logName = prefName => Written

\* A log that has been written whole is saved.
LEMMA WrittenIsSaved == TypeOK /\ Written => Saved
<1> SUFFICES ASSUME TypeOK, Written PROVE Saved
  OBVIOUS
<1>1. db \in Seq(Rec) /\ Readable(disk[prefName]) \in Seq(Rec)
  BY ReadableType DEF TypeOK
<1> QED
  BY <1>1, CheckedCompleted DEF Saved, Written

\* The form is appended to the file, and the record made of it to the logbook.
LEMMA AppendedToBoth ==
  ASSUME TypeOK, db # <<>>, Saved, logName = prefName, UNCHANGED prefName,
         db' \in Dated(qsoNewRec(db, form)), writeAdifRec(form, logName)
  PROVE  Saved'
<1> DEFINE c == completed(form)
           read == Readable(disk[prefName])
<1>0. /\ db \in Seq(Rec) /\ form \in Rec /\ disk[prefName] \in File /\ prefName \in Names
      /\ disk[prefName].recs \in Seq(Rec) /\ c \in Rec /\ completed(c) = c
      /\ qsoNewRec(db, form) \in Seq(Rec) /\ qsoNewRec(db, form) = Append(db, c)
  BY completedType, completedTwice, qsoNewRecType DEF TypeOK, File, qsoNewRec
<1> HIDE DEF c
<1>1. read \in Seq(Rec) /\ Completed(read) \in Seq(Rec) /\ Completed(db) \in Seq(Rec)
  BY <1>0, ReadableType, CompletedType
<1>2. read # <<>>
  BY <1>0, <1>1, CompletedType, SameDomain DEF Saved
<1>3. disk[prefName].header /\ read = disk[prefName].recs
  BY <1>2 DEF Readable
<1>4. disk'[prefName] = [header |-> disk[prefName].header, recs |-> Append(disk[prefName].recs, form)]
  BY <1>0 DEF writeAdifRec, TypeOK
<1>5. Readable(disk'[prefName]) = Append(read, form)
  BY <1>3, <1>4 DEF Readable
<1> HIDE DEF read
<1>6. Completed(Readable(disk'[prefName])) = Append(Completed(read), c)
  BY <1>0, <1>1, <1>5, CompletedOfAppend DEF c
<1>7. Completed(qsoNewRec(db, form)) = Append(Completed(db), c)
  BY <1>0, CompletedOfAppend
<1>8. Same(Append(Completed(read), c), Append(Completed(db), c))
  BY <1>0, <1>1, SameAppend DEF Saved, read
<1>9. Same(Completed(qsoNewRec(db, form)), Completed(db'))
  BY <1>0, RearrangedSame, SameSym, SameCompleted
<1> QED
  BY <1>6, <1>7, <1>8, <1>9, SameTrans DEF Saved

\* Every step keeps what is said of the files.
LEMMA NextSaved == ASSUME TypeOK, SavedInv, [Next]_vars PROVE SavedInv'
<1>0. /\ TypeOK' /\ db \in Seq(Rec) /\ db' \in Seq(Rec)
      /\ logName \in Names /\ prefName \in Names /\ NewName \in Names /\ NamesMeet
  BY NextType, BookAssumption DEF TypeOK, SavedInv
<1>1. ASSUME logName' \in {prefName', NewName}, logName' = prefName' => Written' PROVE SavedInv'
  <2>1. Written' => Saved'
    BY <1>0, WrittenIsSaved, PTL
  <2> QED
    BY <1>1, <2>1 DEF SavedInv, NamesMeet
<1>2. ASSUME proc = "on", proc' # "off", UNCHANGED <<dirty, disk, merged, logName, prefName>>, Same(db', db)
      PROVE  SavedInv'
  <2>1. db' = <<>> <=> db = <<>>
    BY <1>0, <1>2, SameDomain
  <2>2. Saved => Saved'
    <3>1. Same(Completed(db), Completed(db'))
      BY <1>2, SameSym, SameCompleted
    <3> QED
      BY <1>2, <3>1, SameTrans DEF Saved
  <2> QED
    BY <1>2, <2>1, <2>2 DEF SavedInv, NamesMeet
<1>3. CASE Start
  <2>1. Readable(disk[prefName]) \in Seq(Rec) /\ disk' = disk /\ logName' = prefName' /\ prefName' = prefName
    BY <1>0, <1>3, ReadableType DEF Start, TypeOK
  <2>2. Same(db', Readable(disk'[prefName']))
    BY <1>3, <2>1, RestoredSame DEF Start
  <2> QED
    BY <1>1, <2>1, <2>2, SameSym, SameChecked DEF Written
<1>18. ASSUME SaveChanges(logName), restore_sort(checkBands(db))
       PROVE  Same(checkBands(Readable(disk'[logName])), checkBands(db'))
  <2>1. Same(Readable(disk'[logName]), db)
    BY <1>0, <1>18, ChangesWritten
  <2>2. checkBands(db) \in Seq(Rec) /\ checkBands(checkBands(db)) = checkBands(db)
    BY <1>0, checkBandsType, checkBandsTwice
  <2>3. Same(checkBands(db), db')
    BY <1>18, <2>2, RestoredSame, SameSym
  <2>4. Same(checkBands(db), checkBands(db'))
    BY <2>2, <2>3, SameChecked
  <2> QED
    BY <2>1, <2>4, SameChecked, SameTrans
<1>4. CASE cbExit
  <2>1. Same(checkBands(Readable(disk'[logName])), checkBands(db')) /\ UNCHANGED <<logName, prefName>>
    BY <1>4, <1>18 DEF cbExit, nameVars
  <2> QED
    BY <1>0, <1>1, <2>1 DEF Written, NamesMeet
<1>5. CASE \E buffer \in Adifs : RpcAdd(buffer) \/ RpcUpdate(buffer)
  <2>1. PICK buffer \in Adifs : RpcAdd(buffer) \/ RpcUpdate(buffer)
    BY <1>5
  <2>2. /\ Append(db, fillfields(EmptyRec, buffer)) \in Seq(Rec)
        /\ qsoUpdRec(db, selected, fillfields(getRec(db, selected), buffer)) \in Seq(Rec)
    BY <1>0, EmptyRecType, getRecType, fillfieldsType, AppendProperties, qsoUpdRecType, BookAssumption
  <2>3. UNCHANGED <<logName, prefName>> /\ \E s \in Seq(Rec) : writeLog(prefName, s)
    BY <2>1, <2>2, RearrangedSame DEF RpcAdd, RpcUpdate, nameVars
  <2>4. Same(checkBands(Readable(disk'[prefName])), checkBands(db'))
    BY <1>0, <2>3, WrittenWhole
  <2> QED
    BY <1>0, <1>1, <2>3, <2>4 DEF Written, NamesMeet
<1>6. CASE (\E row \in DOMAIN browser : SelectRow(row)) \/ (\E rec \in Forms : Type(rec))
           \/ NewRecord \/ NewCancelled
  <2>1. proc = "on" /\ proc' = proc /\ UNCHANGED <<db, dirty, disk, merged, logName, prefName>>
    BY <1>6 DEF SelectRow, Type, NewRecord, NewCancelled, UserActs, Acts, logVars, nameVars, diskVars
  <2> QED
    BY <1>2, <2>1, SameRefl
<1>7. CASE \E kind \in Kinds : SortBy(kind)
  <2>1. proc = "on" /\ proc' = proc /\ UNCHANGED <<dirty, disk, merged, logName, prefName>>
    BY <1>7 DEF SortBy, UserActs, Acts, nameVars, diskVars
  <2>2. Same(db', db)
    BY <1>0, <1>7, SortedSame DEF SortBy
  <2> QED
    BY <1>2, <2>1, <2>2
<1>8. CASE CancelRecord
  <2>1. proc = "on" /\ proc' # "off" /\ UNCHANGED <<dirty, disk, merged, logName, prefName>>
    BY <1>8 DEF CancelRecord, Acts, nameVars, diskVars
  <2>2. Same(db', db)
    BY <1>0, <1>8, RestoredSame DEF CancelRecord
  <2> QED
    BY <1>2, <2>1, <2>2
<1>9. CASE saveRecord
  <2>1. /\ proc = "on" /\ proc' = proc /\ UNCHANGED <<logName, prefName>>
        /\ form \in Rec /\ qsoNewRec(db, form) \in Seq(Rec) /\ completed(form) \in Rec
    BY <1>0, <1>9, completedType, qsoNewRecType DEF saveRecord, UserActs, Acts, nameVars, TypeOK
  <2>2. PICK s \in Dated(qsoNewRec(db, form)) : storeNew(s, form)
    BY <1>9 DEF saveRecord
  <2>3. s \in Seq(Rec) /\ Len(s) = Len(db) + 1
    <3>1. s \in Seq(Rec) /\ Len(s) = Len(qsoNewRec(db, form))
      BY <2>1, <2>2, RearrangedSame
    <3> QED
      BY <1>0, <2>1, <3>1, AppendProperties DEF qsoNewRec
  <2>4. CASE writeLog(logName, s)
    <3>1. Same(checkBands(Readable(disk'[logName])), checkBands(db'))
      BY <1>0, <2>3, <2>4, WrittenWhole
    <3> QED
      BY <1>0, <1>1, <2>1, <3>1 DEF Written, NamesMeet
  <2>5. CASE writeAdifRec(form, logName) /\ db' = s /\ Len(s) # 1
    <3>1. db # <<>> /\ merged' = merged
      BY <1>0, <2>3, <2>5, EmptySeq DEF writeAdifRec
    <3>2. ~merged /\ logName = prefName => Saved'
      BY <1>0, <2>1, <2>2, <2>5, <3>1, AppendedToBoth DEF SavedInv
    <3> QED
      BY <1>0, <2>1, <3>1, <3>2 DEF SavedInv, NamesMeet
  <2> QED
    BY <2>2, <2>4, <2>5 DEF storeNew
<1>10. CASE updateRecord \/ deleteRecord
  <2>1. qsoUpdRec(db, editNbr, form) \in Seq(Rec) /\ qsoDelRec(db, editNbr) \in Seq(Rec)
    BY <1>0, qsoUpdRecType, qsoDelRecType DEF TypeOK
  <2>2. UNCHANGED <<logName, prefName>> /\ \E s \in Seq(Rec) : writeLog(logName, s)
    BY <1>10, <2>1, RearrangedSame DEF updateRecord, deleteRecord, nameVars
  <2>3. Same(checkBands(Readable(disk'[logName])), checkBands(db'))
    BY <1>0, <2>2, WrittenWhole
  <2> QED
    BY <1>0, <1>1, <2>2, <2>3 DEF Written, NamesMeet
<1>11. ASSUME NEW answer, saveLogbook(answer), proc = "on", proc' = proc, prefName' = prefName,
              logName' \in {prefName, NewName}, logName' = prefName => logName = prefName
       PROVE  SavedInv'
  <2>1. CASE ~answer /\ UNCHANGED <<diskVars, db, reverse, dirty>>
    BY <1>11, <2>1 DEF SavedInv, NamesMeet, Saved, diskVars
  <2>2. CASE answer /\ SaveChanges(logName) /\ restore_sort(checkBands(db))
    BY <1>1, <1>11, <1>18, <2>2 DEF Written
  <2> QED
    BY <1>11, <2>1, <2>2 DEF saveLogbook
<1>12. CASE NewLogbook \/ \E answer \in BOOLEAN : NewSaved(answer)
  <2>1. /\ proc = "on" /\ proc' = proc /\ (\E answer : saveLogbook(answer)) /\ prefName' = prefName
        /\ logName' \in {logName, NewName}
    BY <1>12 DEF NewLogbook, NewSaved, UserActs, Acts, nameVars
  <2> QED
    BY <1>0, <1>11, <2>1 DEF NamesMeet
<1>13. ASSUME NEW name \in Names, NewNamed(name) PROVE SavedInv'
  BY <1>13 DEF NewNamed, Acts, SavedInv, NamesMeet
<1>14. ASSUME NEW name \in Names, OpenLogbook(name) PROVE SavedInv'
  <2>1. db' = Readable(disk'[name]) /\ logName' = name /\ prefName' = name
    BY <1>14 DEF OpenLogbook
  <2> QED
    BY <1>1, <2>1, SameRefl DEF Written
<1>15. ASSUME NEW name \in Names, SaveLogbook(name) PROVE SavedInv'
  <2>1. logName' = name /\ prefName' = name /\ \E s \in Seq(Rec) : writeLog(name, s)
    BY <1>0, <1>15, RearrangedSame DEF SaveLogbook
  <2>2. Same(checkBands(Readable(disk'[name])), checkBands(db'))
    BY <1>0, <2>1, WrittenWhole
  <2> QED
    BY <1>1, <2>1, <2>2 DEF Written
<1>16. ASSUME NEW name \in Names, MergeADIF(name) PROVE SavedInv'
  BY <1>0, <1>16 DEF MergeADIF, UserActs, Acts, SavedInv, NamesMeet, nameVars
<1>17. CASE UNCHANGED vars
  BY <1>17 DEF vars, logVars, diskVars, nameVars, SavedInv, NamesMeet, Saved, Written
<1> QED
  BY <1>3, <1>4, <1>5, <1>6, <1>7, <1>8, <1>9, <1>10, <1>12, <1>13, <1>14, <1>15, <1>16, <1>17
     DEF Next, Idle

-----------------------------------------------------------------------------
(* The theorems *)

IInv == TypeOK /\ Shown /\ SavedInv

\* The invariant holds.
LEMMA InvHolds == Spec => []IInv
<1>1. Init => IInv
  <2> SUFFICES ASSUME Init PROVE IInv
    OBVIOUS
  <2>1. db = Readable(disk[prefName]) /\ logName = prefName /\ proc = "off"
    BY DEF Init
  <2> QED
    BY <2>1, InitType, SameRefl DEF IInv, Shown, SavedInv, NamesMeet, Written
<1>2. IInv /\ [Next]_vars => IInv'
  BY NextType, NextShown, NextSaved DEF IInv
<1> QED
  BY <1>1, <1>2, PTL DEF Spec

\* Every variable keeps its type: no callback puts anything but records into the logbook
\* and its files, and the names stay names of log files.
THEOREM TypeCorrect == Spec => []TypeOK
<1>1. IInv => TypeOK
  BY DEF IInv
<1> QED
  BY InvHolds, <1>1, PTL

\* Whatever the sorts, menus and calls, the browser has a row for every record and no
\* other, and a record is selected and edited when there is one.
THEOREM BrowserCorrect == Spec => []BrowserShowsAll
<1>1. IInv => BrowserShowsAll
  <2> SUFFICES ASSUME IInv, proc = "on"
               PROVE  SameRecords(browser, CallColumn(db))
                      /\ (db # <<>> => selected \in DOMAIN db /\ editNbr = selected)
    BY DEF BrowserShowsAll
  <2>1. /\ InStep /\ browser \in Seq(Rank) /\ CallColumn(db) \in Seq(Rank)
    BY CallColumnType DEF IInv, TypeOK, Shown
  <2> QED
    BY <2>1, SameIsSameRecords DEF InStep
<1> QED
  BY InvHolds, <1>1, PTL

\* A logbook that is not marked as changed is in its file, whatever the menus and the
\* calls of clients wrote to it and in whichever order: only what qsoNewRec and writeLog
\* fill in behind the text may be missing there.
THEOREM CleanCorrect == Spec => []CleanMeansSaved
<1>1. TypeOK /\ Saved => SameRecords(Completed(Readable(disk[prefName])), Completed(db))
  <2> SUFFICES ASSUME TypeOK, Saved
               PROVE  SameRecords(Completed(Readable(disk[prefName])), Completed(db))
    OBVIOUS
  <2>1. db \in Seq(Rec) /\ Readable(disk[prefName]) \in Seq(Rec)
    BY ReadableType DEF TypeOK
  <2>2. Completed(db) \in Seq(Rec) /\ Completed(Readable(disk[prefName])) \in Seq(Rec)
    BY <2>1, CompletedType
  <2> QED
    BY <2>2, SameIsSameRecords DEF Saved
<1>2. IInv => CleanMeansSaved
  BY <1>1 DEF IInv, SavedInv, CleanMeansSaved
<1> QED
  BY InvHolds, <1>2, PTL

\* The next start shows the logbook that was left, but for the bands and frequencies
\* that the last write filled in.
THEOREM RestartCorrect == Spec => []RestartShowsLog
<1>1. TypeOK /\ Written => SameRecords(checkBands(Readable(disk[prefName])), checkBands(db))
  <2> SUFFICES ASSUME TypeOK, Written
               PROVE  SameRecords(checkBands(Readable(disk[prefName])), checkBands(db))
    OBVIOUS
  <2>1. db \in Seq(Rec) /\ Readable(disk[prefName]) \in Seq(Rec)
    BY ReadableType DEF TypeOK
  <2>2. checkBands(db) \in Seq(Rec) /\ checkBands(Readable(disk[prefName])) \in Seq(Rec)
    BY <2>1, checkBandsType
  <2> QED
    BY <2>2, SameIsSameRecords DEF Written
<1>2. IInv => RestartShowsLog
  BY <1>1 DEF IInv, SavedInv, RestartShowsLog
<1> QED
  BY InvHolds, <1>2, PTL

=============================================================================
