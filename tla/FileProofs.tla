----------------------------- MODULE FileProofs -----------------------------
(***************************************************************************)
(* Theorems about the modules that write and read files: LogFile, for any  *)
(* number of backups, records, starts and crashes, Export, for any number  *)
(* of records in whatever order, lists of any length and any choice of     *)
(* lines, and AdifText, for logs of any length with any texts as values.   *)
(* They share no variable, and no fact about one has names of another.     *)
(***************************************************************************)
EXTENDS LogFile, Export, AdifText, SequenceTheorems, FiniteSetTheorems, FunctionTheorems,
        WellFoundedInduction, TLAPS

-----------------------------------------------------------------------------
(* LogFile: types *)

\* Whatever there is of a file while it is written is a file.
LEMMA PartsType == \A c \in Content : PartsOf(c) \subseteq Content
<1> SUFFICES ASSUME NEW c \in Content, NEW d \in PartsOf(c) PROVE d \in Content
  OBVIOUS
<1>1. Empty \in Content
  BY DEF Empty, Content
<1>2. ASSUME NEW n \in 0..(Len(c.recs) - 1), NEW part \in BOOLEAN
      PROVE  CutAfter(c, n, part) \in Content
  <2>1. c.recs \in Seq(Nat) /\ Len(c.recs) \in Nat
    BY DEF Content
  <2>2. \A i \in 1..n : c.recs[i] \in Nat
    BY <2>1
  <2>3. SubSeq(c.recs, 1, n) \in Seq(Nat)
    BY <2>1, <2>2, SubSeqProperties, n \in Nat, n <= Len(c.recs)
  <2> QED
    BY <2>3 DEF CutAfter, Content
<1> QED
  BY <1>1, <1>2 DEF PartsOf

\* Deleting a record leaves a sequence.
LEMMA DeletedType ==
  ASSUME NEW s \in Seq(Nat), NEW n \in DOMAIN s
  PROVE  SubSeq(s, 1, n - 1) \o SubSeq(s, n + 1, Len(s)) \in Seq(Nat)
  OBVIOUS

\* The record appended to the file is a number.
LEMMA AppendedType ==
  ASSUME file \in Content, log \in Seq(Nat), log # <<>>
  PROVE  Appended \in Content
<1>1. log[Len(log)] \in Nat
  OBVIOUS
<1>2. Append(file.recs, IF file.torn THEN 0 ELSE log[Len(log)]) \in Seq(Nat)
  BY <1>1 DEF Content
<1> QED
  BY <1>2 DEF Appended, Content

\* TypeOK, a record to be appended is in the log, and the file copied is there.
TypeInv ==
  /\ TypeOK
  /\ pc = "append" => log # <<>>
  /\ pc = "copying" => file # NoFile

\* The types hold at the start.
LEMMA TypeInit == Init => TypeInv
<1> SUFFICES ASSUME Init PROVE TypeInv
  OBVIOUS
<1>1. NoFile \in Content /\ Written(<<1>>) \in Content
  BY DEF NoFile, Written, Content
<1>2. Backups - 1 \in Nat
  BY FileAssumption
<1> QED
  BY <1>1, <1>2 DEF Init, TypeInv, TypeOK, Pc

\* Every step keeps them.
LEMMA TypeNext == TypeInv /\ [Next]_vars => TypeInv'
<1> SUFFICES ASSUME TypeInv, [Next]_vars PROVE TypeInv'
  OBVIOUS
<1> USE FileAssumption
<1>a. Empty \in Content /\ NoFile \in Content
  BY DEF Empty, NoFile, Content
<1>b. Written(log) \in Content
  BY DEF TypeInv, TypeOK, Written, Content
<1>1. CASE Start
  <2>1. Readable(file) \in Seq(Nat)
    BY DEF TypeInv, TypeOK, Content, Readable
  <2>2. Backups - 1 \in 0..(Backups - 1)
    OBVIOUS
  <2> QED
    BY <1>1, <2>1, <2>2 DEF Start, TypeInv, TypeOK, Pc
<1>2. CASE Rotate
  <2>a. step \in 1..Backups /\ backup \in [1..Backups -> Content]
    BY <1>2 DEF Rotate, TypeInv, TypeOK
  <2>b. [backup EXCEPT ![step + 1] = backup[step], ![step] = NoFile]
          \in [1..Backups -> Content]
    BY <2>a, <1>a
  <2>1. backup' \in [1..Backups -> Content]
    BY <1>2, <2>a, <2>b DEF Rotate
  <2>2. step' \in 0..(Backups - 1)
    BY <1>2 DEF Rotate, TypeInv, TypeOK
  <2> QED
    BY <1>2, <2>1, <2>2 DEF Rotate, TypeInv, TypeOK, Pc
<1>3. CASE OpenBackup
  BY <1>3, <1>a DEF OpenBackup, TypeInv, TypeOK, Pc
<1>4. CASE CopyBackup
  <2>1. taken' \in Seq(Content)
    BY <1>4 DEF CopyBackup, TypeInv, TypeOK
  <2> QED
    BY <1>4, <2>1 DEF CopyBackup, TypeInv, TypeOK, Pc
<1>5. CASE Add
  BY <1>5 DEF Add, TypeInv, TypeOK, Pc
<1>6. CASE Save
  BY <1>6, SMTT(60) DEF Save, TypeInv, TypeOK, Pc
<1>7. CASE \E n \in DOMAIN log : Delete(n)
  <2>1. PICK n \in DOMAIN log : Delete(n)
    BY <1>7
  <2>2. log' \in Seq(Nat)
    BY <2>1, DeletedType DEF Delete, TypeInv, TypeOK
  <2> QED
    BY <2>1, <2>2 DEF Delete, TypeInv, TypeOK, Pc
<1>8. CASE Exit
  BY <1>8 DEF Exit, TypeInv, TypeOK, Pc
<1>9. CASE OpenLog
  BY <1>9, <1>a DEF OpenLog, TypeInv, TypeOK, Pc
<1>10. CASE CloseLog
  BY <1>10, <1>b DEF CloseLog, TypeInv, TypeOK, Pc
<1>11. CASE AppendRec
  <2>1. Appended \in Content
    BY <1>11, AppendedType DEF AppendRec, TypeInv, TypeOK
  <2> QED
    BY <1>11, <2>1 DEF AppendRec, TypeInv, TypeOK, Pc
<1>12. CASE Crash
  <2>1. file' \in Content
    <3>1. CASE pc \in {"write", "exiting"}
      BY <1>12, <3>1, <1>b, PartsType DEF Crash
    <3>2. CASE pc = "append"
      <4>1. Appended \in Content
        BY <3>2, AppendedType DEF TypeInv, TypeOK
      <4>2. [file EXCEPT !.torn = TRUE] \in Content
        BY DEF TypeInv, TypeOK, Content
      <4> QED
        BY <1>12, <3>2, <4>1, <4>2 DEF Crash, TypeInv, TypeOK
    <3> QED
      BY <1>12, <3>1, <3>2 DEF Crash, TypeInv, TypeOK
  <2>2. backup' \in [1..Backups -> Content]
    BY <1>12, PartsType DEF Crash, TypeInv, TypeOK
  <2> QED
    BY <1>12, <2>1, <2>2, SMTT(60) DEF Crash, TypeInv, TypeOK, Pc
<1>13. CASE UNCHANGED vars
  BY <1>13 DEF vars, TypeInv, TypeOK
<1> QED
  BY <1>1, <1>2, <1>3, <1>4, <1>5, <1>6, <1>7, <1>8, <1>9, <1>10, <1>11, <1>12,
     <1>13 DEF Next, Idle

\* They hold for ever.
LEMMA TypeInvHolds == Spec => []TypeInv
  BY TypeInit, TypeNext, PTL DEF Spec

\* Every variable of the log file's specification keeps its type.
THEOREM TypeCorrect == Spec => []TypeOK
<1>1. TypeInv => TypeOK
  BY DEF TypeInv
<1> QED
  BY <1>1, TypeInvHolds, PTL

-----------------------------------------------------------------------------
(* The log of the latest complete start stays in a backup.                 *)

\* Backup k is there, and is the latest copy.
Holds(k) == backup[k] # NoFile /\ backup[k] = Head(taken)

\* Where the latest copy is: a rotation that has not come to it finds it low
\* enough to move it, and one that has moved it has left a gap below, so that
\* neither the next move nor the new copy goes over it.
Place(k) ==
  /\ Holds(k) /\ k <= since + 1
  /\ pc = "rotate" => (k <= step /\ k <= since) \/ k >= step + 2
  /\ pc = "copying" => k >= 2

KeptInv == taken # <<>> /\ since < Backups => \E k \in 1..Backups : Place(k)

\* At the start no log has been read that could be lost.
LEMMA KeptInit == Init => KeptInv
  BY DEF Init, KeptInv

\* Every step of a start, a save or a crash leaves the log that was read in its place.
LEMMA KeptNext == TypeInv /\ KeptInv /\ [Next]_vars => KeptInv'
<1> SUFFICES ASSUME TypeInv, KeptInv, [Next]_vars, taken' # <<>>, since' < Backups
             PROVE  \E k \in 1..Backups : Place(k)'
  BY DEF KeptInv
<1> USE FileAssumption
<1>0. /\ Backups \in Nat \ {0} /\ since \in Nat /\ step \in Nat /\ step < Backups
      /\ backup \in [1..Backups -> Content]
  BY DEF TypeInv, TypeOK
<1>1. CASE Start
  <2>1. PICK k \in 1..Backups : Place(k)
    BY <1>0, <1>1 DEF Start, KeptInv
  <2>2. Place(k)'
    BY <2>1, <1>0, <1>1 DEF Start, Place, Holds
  <2> QED
    BY <2>2
<1>2. CASE Rotate
  <2>1. PICK k \in 1..Backups : Place(k)
    BY <1>0, <1>2 DEF Rotate, KeptInv
  <2>2. CASE k = step /\ backup[step] # NoFile
    <3>1. backup'[k + 1] = Head(taken') /\ k + 1 \in 1..Backups
      BY <2>1, <2>2, <1>0, <1>2 DEF Rotate, Place, Holds
    <3>2. Place(k + 1)'
      BY <3>1, <2>1, <2>2, <1>0, <1>2 DEF Rotate, Place, Holds
    <3> QED
      BY <3>1, <3>2
  <2>3. CASE k = step /\ backup[step] = NoFile
    BY <2>1, <2>3 DEF Place, Holds
  <2>4. CASE k # step
    <3>1. k # step + 1
      BY <2>1, <2>4, <1>0, <1>2 DEF Rotate, Place
    <3>2. backup'[k] = backup[k]
      BY <3>1, <2>4, <2>1, <1>0, <1>2 DEF Rotate
    <3>3. Place(k)'
      BY <3>1, <3>2, <2>1, <2>4, <1>0, <1>2 DEF Rotate, Place, Holds
    <3> QED
      BY <3>3
  <2> QED
    BY <2>2, <2>3, <2>4
<1>3. CASE OpenBackup
  <2>1. PICK k \in 1..Backups : Place(k)
    BY <1>0, <1>3 DEF OpenBackup, KeptInv
  <2>2. k >= 2
    BY <2>1, <1>0, <1>3 DEF OpenBackup, Place
  <2>3. Place(k)'
    BY <2>1, <2>2, <1>0, <1>3 DEF OpenBackup, Place, Holds
  <2> QED
    BY <2>3
<1>4. CASE CopyBackup
  <2>1. backup'[1] = file /\ Head(taken') = file /\ file # NoFile
    BY <1>4, <1>0 DEF CopyBackup, TypeInv, TypeOK
  <2>2. Place(1)'
    BY <2>1, <1>0, <1>4 DEF CopyBackup, Place, Holds
  <2> QED
    BY <2>2
<1>5. CASE Crash
  <2>1. PICK k \in 1..Backups : Place(k)
    BY <1>0, <1>5 DEF Crash, KeptInv
  <2>2. backup'[k] = backup[k]
    BY <2>1, <1>0, <1>5 DEF Crash, Place
  <2>3. Place(k)'
    BY <2>1, <2>2, <1>0, <1>5 DEF Crash, Place, Holds
  <2> QED
    BY <2>3
<1>6. CASE \/ Add \/ Save \/ (\E n \in DOMAIN log : Delete(n)) \/ Exit \/ OpenLog
           \/ CloseLog \/ AppendRec
  <2>1. /\ UNCHANGED <<backup, taken, since>>
        /\ pc' \notin {"rotate", "copying"}
    BY <1>6 DEF Add, Save, Delete, Exit, OpenLog, CloseLog, AppendRec
  <2>2. PICK k \in 1..Backups : Place(k)
    BY <2>1 DEF KeptInv
  <2>3. Place(k)'
    BY <2>1, <2>2 DEF Place, Holds
  <2> QED
    BY <2>3
<1>7. CASE UNCHANGED vars
  BY <1>7 DEF vars, KeptInv, Place, Holds
<1> QED
  BY <1>1, <1>2, <1>3, <1>4, <1>5, <1>6, <1>7 DEF Next, Idle

\* With any number of backups, the log read by the latest complete start can be
\* found in one of them until that many starts have begun, wherever the program
\* dies (rotate_log, writelog_).
THEOREM StartedLogIsKept == Spec => []StartedLogKept
<1>1. TypeInv /\ KeptInv => StartedLogKept
  <2> SUFFICES ASSUME TypeInv, KeptInv, taken # <<>>, since < Backups
               PROVE  \E k \in 1..(since + 1) : backup[k] = Head(taken)
    BY DEF StartedLogKept
  <2>1. PICK k \in 1..Backups : Place(k)
    BY DEF KeptInv
  <2>2. since \in Nat
    BY DEF TypeInv, TypeOK
  <2> QED
    BY <2>1, <2>2 DEF Place, Holds
<1> QED
  BY <1>1, TypeInvHolds, KeptInit, KeptNext, PTL DEF Spec

-----------------------------------------------------------------------------
(* The file is the log.                                                    *)

\* What can be read from the file is the first n records of the log, but for those that
\* were saved behind an incomplete one.
Matches(n) ==
  /\ Len(Readable(file)) = n
  /\ \A i \in 1..n : Readable(file)[i] \in {log[i], 0}

\* The record that is to be appended is the last of a log that had one.
FileInv ==
  /\ pc \in {"rotate", "copying", "idle"} => Matches(Len(log))
  /\ pc = "append" => Len(log) > 1 /\ Matches(Len(log) - 1)

\* The append goes to a file with a header.
LEMMA AppendedFile ==
  ASSUME TypeInv, FileInv, pc = "append"
  PROVE  /\ file.header /\ Appended.header
         /\ Len(Readable(Appended)) = Len(log)
         /\ \A i \in 1..Len(log) : Readable(Appended)[i] \in {log[i], 0}
<1> DEFINE x == IF file.torn THEN 0 ELSE log[Len(log)]
<1>1. /\ file \in Content /\ file.recs \in Seq(Nat) /\ log \in Seq(Nat) /\ Len(log) \in Nat
      /\ Len(log) > 1 /\ Matches(Len(log) - 1)
  BY DEF TypeInv, TypeOK, FileInv, Content
<1>2. file.header
  <2>1. Len(Readable(file)) = Len(log) - 1
    BY <1>1 DEF Matches
  <2>2. Readable(file) # <<>>
    BY <1>1, <2>1
  <2> QED
    BY <2>2 DEF Readable
<1>3. /\ Len(file.recs) = Len(log) - 1
      /\ \A i \in 1..(Len(log) - 1) : file.recs[i] \in {log[i], 0}
  BY <1>1, <1>2 DEF Matches, Readable
<1>4. x \in Nat /\ x \in {log[Len(log)], 0}
  BY <1>1
<1>5. Appended.header /\ Appended.recs = Append(file.recs, x)
  BY <1>1, <1>2 DEF Appended, Content
<1> HIDE DEF x
<1>6. /\ Len(Append(file.recs, x)) = Len(log) /\ Append(file.recs, x)[Len(log)] = x
      /\ \A i \in 1..(Len(log) - 1) : Append(file.recs, x)[i] = file.recs[i]
  BY <1>1, <1>3, <1>4, AppendProperties
<1>7. ASSUME NEW i \in 1..Len(log) PROVE Append(file.recs, x)[i] \in {log[i], 0}
  <2>1. i \in 1..(Len(log) - 1) \/ i = Len(log)
    BY <1>1
  <2> QED
    BY <1>3, <1>4, <1>6, <2>1
<1> QED
  BY <1>2, <1>5, <1>6, <1>7 DEF Readable

\* Every step leaves in the file what FileInv says.
LEMMA FileNext == TypeInv /\ FileInv /\ [Next]_vars => FileInv'
<1> SUFFICES ASSUME TypeInv, FileInv, [Next]_vars PROVE FileInv'
  OBVIOUS
<1>0. log \in Seq(Nat) /\ Len(log) \in Nat /\ file \in Content /\ added + 1 \in Nat
  BY DEF TypeInv, TypeOK
<1>1. CASE Start
  <2>1. log' = Readable(file) /\ file' = file /\ pc' = "rotate"
    BY <1>1 DEF Start
  <2> QED
    BY <2>1 DEF FileInv, Matches, Readable
<1>2. CASE Rotate \/ OpenBackup \/ CopyBackup
  <2>1. /\ UNCHANGED <<log, file>> /\ pc \in {"rotate", "copying"}
        /\ pc' \in {"rotate", "copying", "idle"}
    BY <1>2 DEF Rotate, OpenBackup, CopyBackup
  <2> QED
    BY <2>1 DEF FileInv, Matches, Readable
<1>3. CASE Save
  <2>1. /\ log' = Append(log, added + 1) /\ file' = file /\ pc' = "append" /\ pc = "idle"
        /\ log # <<>>
    BY <1>3 DEF Save
  <2>2. /\ Len(log') = Len(log) + 1 /\ Len(log) > 0
        /\ \A i \in 1..Len(log) : log'[i] = log[i]
    BY <1>0, <2>1, AppendProperties, EmptySeq
  <2>3. Matches(Len(log))
    BY <2>1 DEF FileInv
  <2>4. Len(log') - 1 = Len(log)
    BY <1>0, <2>2
  <2>5. Matches(Len(log) - 1)'
    BY <1>0, <2>1, <2>2, <2>3, <2>4 DEF Matches, Readable
  <2>6. Len(log') > 1
    BY <1>0, <2>2
  <2> QED
    BY <2>1, <2>5, <2>6 DEF FileInv
<1>4. CASE CloseLog
  <2>1. file' = Written(log) /\ log' = log /\ pc' \in {"idle", "off"}
    BY <1>4 DEF CloseLog
  <2> QED
    BY <2>1 DEF FileInv, Matches, Readable, Written
<1>5. CASE AppendRec
  <2>1. file' = Appended /\ log' = log /\ pc = "append" /\ pc' = "idle"
    BY <1>5 DEF AppendRec
  <2>2. Matches(Len(log))'
    BY <1>0, <2>1, AppendedFile DEF Matches, Readable
  <2> QED
    BY <2>1, <2>2 DEF FileInv
<1>6. CASE Add \/ (\E n \in DOMAIN log : Delete(n)) \/ Exit \/ OpenLog \/ Crash
  <2>1. pc' \notin {"rotate", "copying", "idle", "append"}
    BY <1>6 DEF Add, Delete, Exit, OpenLog, Crash
  <2> QED
    BY <2>1 DEF FileInv
<1>7. CASE UNCHANGED vars
  BY <1>7 DEF vars, FileInv, Matches, Readable
<1> QED
  BY <1>1, <1>2, <1>3, <1>4, <1>5, <1>6, <1>7 DEF Next, Idle

\* So it holds for ever.
LEMMA FileInvHolds == Spec => [](TypeInv /\ FileInv)
<1>1. Init => FileInv
  BY DEF Init, FileInv
<1> QED
  BY <1>1, TypeInvHolds, FileNext, PTL DEF Spec

\* Between two changes of the log its file reads back as the log, through any starts,
\* crashes and changes, except for a record that was appended behind a torn one.
THEOREM FileIsTheLog == Spec => []FileIsLog
<1>1. TypeInv /\ FileInv => FileIsLog
  <2> SUFFICES ASSUME TypeInv, FileInv, pc = "idle"
               PROVE  /\ Len(Readable(file)) = Len(log)
                      /\ \A i \in DOMAIN log : Readable(file)[i] \in {log[i], 0}
    BY DEF FileIsLog
  <2>1. log \in Seq(Nat) /\ DOMAIN log = 1..Len(log)
    BY LenProperties DEF TypeInv, TypeOK
  <2> QED
    BY <2>1 DEF FileInv, Matches
<1> QED
  BY <1>1, FileInvHolds, PTL

-----------------------------------------------------------------------------
(* The backups are the latest copies.                                      *)

Copy(k) == IF k <= Len(taken) THEN taken[k] ELSE NoFile

\* Without a crash: the backups a rotation has come by have gone up, and the one it has
\* come by last has left a gap, if it was there at all.
OrderInv == crashes = 0 =>
  /\ \A k \in 1..Len(taken) : taken[k] # NoFile
  /\ taken # <<>> => file # NoFile
  /\ pc \notin {"rotate", "copying"} => \A k \in 1..Backups : backup[k] = Copy(k)
  /\ pc = "rotate" =>
       /\ \A k \in 1..step : backup[k] = Copy(k)
       /\ backup[step + 1] = IF step = Backups - 1 THEN Copy(Backups) ELSE NoFile
       /\ \A k \in (step + 2)..Backups : backup[k] = Copy(k - 1)
  /\ pc = "copying" => \A k \in 2..Backups : backup[k] = Copy(k - 1)

\* There are no copies at the start.
LEMMA OrderInit == Init => OrderInv
<1> SUFFICES ASSUME Init PROVE OrderInv
  OBVIOUS
<1>1. Len(taken) = 0 /\ taken = <<>> /\ pc = "off" /\ \A k \in 1..Backups : backup[k] = NoFile
  BY DEF Init
<1>2. \A k \in 1..Backups : Copy(k) = NoFile
  BY <1>1, FileAssumption DEF Copy
<1> QED
  BY <1>1, <1>2 DEF OrderInv

\* Every step of the rotation keeps the ages of the copies in order.
LEMMA OrderNext == TypeInv /\ FileInv /\ OrderInv /\ [Next]_vars => OrderInv'
<1> SUFFICES ASSUME TypeInv, FileInv, OrderInv, [Next]_vars, crashes' = 0 PROVE OrderInv'
  BY DEF OrderInv
<1> USE FileAssumption
<1>0. /\ Backups \in Nat \ {0} /\ step \in Nat /\ step < Backups
      /\ backup \in [1..Backups -> Content]
      /\ taken \in Seq(Content) /\ Len(taken) \in Nat /\ crashes \in Nat
  BY DEF TypeInv, TypeOK
<1>c. crashes = 0
  BY <1>0 DEF Next, Start, Rotate, OpenBackup, CopyBackup, Add, Save, Delete, Exit, OpenLog,
               CloseLog, AppendRec, Crash, Idle, vars
<1>1. CASE Start
  <2>1. /\ UNCHANGED <<file, backup, taken>> /\ pc = "off" /\ pc' = "rotate" /\ step' = Backups - 1
    BY <1>1 DEF Start
  <2>2. \A k \in 1..Backups : backup[k] = Copy(k) /\ Copy(k)' = Copy(k)
    BY <1>c, <2>1 DEF OrderInv, Copy
  <2>3. /\ \A k \in 1..step' : k \in 1..Backups
        /\ step' + 1 = Backups /\ (step' + 2)..Backups = {} /\ Backups \in 1..Backups
    BY <1>0, <2>1
  <2> QED
    BY <1>c, <2>1, <2>2, <2>3 DEF OrderInv
<1>2. CASE Rotate
  <2>1. /\ UNCHANGED <<file, taken>> /\ pc = "rotate" /\ pc' = "rotate" /\ step > 0 /\ step' = step - 1
        /\ backup' = IF backup[step] = NoFile THEN backup
                     ELSE [backup EXCEPT ![step + 1] = backup[step], ![step] = NoFile]
    BY <1>2 DEF Rotate
  <2>2. /\ \A k \in 1..step : backup[k] = Copy(k)
        /\ backup[step + 1] = IF step = Backups - 1 THEN Copy(Backups) ELSE NoFile
        /\ \A k \in (step + 2)..Backups : backup[k] = Copy(k - 1)
        /\ \A k \in 1..Len(taken) : taken[k] # NoFile
        /\ taken # <<>> => file # NoFile
    BY <1>c, <2>1 DEF OrderInv
  <2>3. \A k : Copy(k)' = Copy(k)
    BY <2>1 DEF Copy
  <2>4. backup'[step] = NoFile /\ backup'[step + 1] = Copy(step)
    <3>1. backup[step] = Copy(step)
      BY <1>0, <2>1, <2>2
    <3>2. CASE backup[step] = NoFile
      <4>1. step > Len(taken)
        BY <1>0, <2>1, <2>2, <3>1, <3>2 DEF Copy
      <4>2. backup[step + 1] = NoFile
        BY <1>0, <2>1, <2>2, <4>1 DEF Copy
      <4> QED
        BY <2>1, <3>1, <3>2, <4>2
    <3>3. CASE backup[step] # NoFile
      BY <1>0, <2>1, <3>1, <3>3
    <3> QED
      BY <3>2, <3>3
  <2>5. \A k \in 1..Backups : k # step /\ k # step + 1 => backup'[k] = backup[k]
    BY <1>0, <2>1
  <2>6. \A k \in 1..step' : backup'[k] = Copy(k)
    BY <1>0, <2>1, <2>2, <2>5
  <2>7. backup'[step' + 1] = NoFile /\ step' # Backups - 1
    BY <1>0, <2>1, <2>4
  <2>8. ASSUME NEW k \in (step' + 2)..Backups PROVE backup'[k] = Copy(k - 1)
    <3>1. k = step + 1 \/ k \in (step + 2)..Backups
      BY <1>0, <2>1
    <3>2. CASE k = step + 1
      <4>1. k - 1 = step
        BY <1>0, <3>2
      <4> QED
        BY <2>4, <3>2, <4>1
    <3>3. CASE k \in (step + 2)..Backups
      BY <1>0, <2>1, <2>2, <2>5, <3>3
    <3> QED
      BY <3>1, <3>2, <3>3
  <2> QED
    BY <1>c, <2>1, <2>2, <2>3, <2>6, <2>7, <2>8 DEF OrderInv
<1>3. CASE OpenBackup
  <2>1. /\ UNCHANGED <<file, taken>> /\ pc = "rotate" /\ step = 0
        /\ \/ file = NoFile /\ pc' = "idle" /\ backup' = backup
           \/ file # NoFile /\ pc' = "copying" /\ backup' = [backup EXCEPT ![1] = Empty]
    BY <1>3 DEF OpenBackup
  <2>2. /\ backup[1] = IF Backups = 1 THEN Copy(Backups) ELSE NoFile
        /\ \A k \in 2..Backups : backup[k] = Copy(k - 1)
        /\ \A k \in 1..Len(taken) : taken[k] # NoFile
        /\ taken # <<>> => file # NoFile
    BY <1>0, <1>c, <2>1 DEF OrderInv
  <2>3. \A k : Copy(k)' = Copy(k)
    BY <2>1 DEF Copy
  <2>4. CASE pc' = "idle"
    <3>1. taken = <<>> /\ Len(taken) = 0 /\ backup' = backup
      BY <1>0, <2>1, <2>2, <2>4, EmptySeq
    <3>2. \A k \in Nat \ {0} : Copy(k) = NoFile
      BY <3>1 DEF Copy
    <3>3. ASSUME NEW k \in 1..Backups PROVE backup[k] = NoFile
      <4>1. k = 1 \/ (k \in 2..Backups /\ k - 1 \in Nat \ {0})
        BY <1>0
      <4> QED
        BY <1>0, <2>2, <3>2, <4>1
    <3>4. \A k \in 1..Backups : backup'[k] = Copy(k)'
      BY <1>0, <2>3, <3>1, <3>2, <3>3
    <3> QED
      BY <2>1, <2>2, <2>4, <3>1, <3>4 DEF OrderInv
  <2>5. CASE pc' = "copying"
    <3>1. \A k \in 2..Backups : backup'[k] = backup[k]
      BY <1>0, <2>1, <2>5
    <3> QED
      BY <2>1, <2>2, <2>3, <2>5, <3>1 DEF OrderInv
  <2> QED
    BY <2>1, <2>4, <2>5
<1>4. CASE CopyBackup
  <2>1. /\ backup' = [backup EXCEPT ![1] = file] /\ taken' = <<file>> \o taken /\ UNCHANGED file
        /\ pc = "copying" /\ pc' = "idle" /\ file # NoFile /\ file \in Content
    BY <1>4 DEF CopyBackup, TypeInv, TypeOK
  <2>2. /\ Len(taken') = Len(taken) + 1 /\ taken'[1] = file
        /\ \A k \in 2..(Len(taken) + 1) : taken'[k] = taken[k - 1]
    BY <1>0, <2>1
  <2>3. /\ \A k \in 2..Backups : backup[k] = Copy(k - 1)
        /\ \A k \in 1..Len(taken) : taken[k] # NoFile
    BY <1>c, <2>1 DEF OrderInv
  <2>4. \A k \in 1..Len(taken') : taken'[k] # NoFile
    <3> SUFFICES ASSUME NEW k \in 1..Len(taken') PROVE taken'[k] # NoFile
      OBVIOUS
    <3>1. k = 1 \/ (k \in 2..(Len(taken) + 1) /\ k - 1 \in 1..Len(taken))
      BY <1>0, <2>2
    <3> QED
      BY <2>1, <2>2, <2>3, <3>1
  <2>5. ASSUME NEW k \in 1..Backups PROVE backup'[k] = Copy(k)'
    <3>1. CASE k = 1
      BY <1>0, <2>1, <2>2, <3>1 DEF Copy
    <3>2. CASE k # 1
      <4>1. k \in 2..Backups /\ backup'[k] = backup[k]
        BY <1>0, <2>1, <3>2
      <4>2. k <= Len(taken') <=> k - 1 <= Len(taken)
        BY <1>0, <2>2
      <4>3. k <= Len(taken') => taken'[k] = taken[k - 1]
        BY <1>0, <2>2, <4>1
      <4>4. Copy(k)' = Copy(k - 1)
        BY <4>2, <4>3 DEF Copy
      <4> QED
        BY <2>3, <4>1, <4>4
    <3> QED
      BY <3>1, <3>2
  <2> QED
    BY <2>1, <2>4, <2>5 DEF OrderInv
<1>5. CASE \/ Add \/ Save \/ (\E n \in DOMAIN log : Delete(n)) \/ Exit \/ OpenLog
           \/ CloseLog \/ AppendRec
  <2>1. /\ UNCHANGED <<backup, taken>> /\ pc \notin {"rotate", "copying"}
        /\ pc' \notin {"rotate", "copying"}
    BY <1>5 DEF Add, Save, Delete, Exit, OpenLog, CloseLog, AppendRec
  <2>2. file' # file => file' # NoFile
    <3>1. Empty # NoFile /\ Written(log) # NoFile
      BY DEF Empty, NoFile, Written
    <3>2. pc = "append" => Appended # NoFile
      BY AppendedFile DEF NoFile
    <3> QED
      BY <1>5, <3>1, <3>2 DEF Add, Save, Delete, Exit, OpenLog, CloseLog, AppendRec
  <2>3. \A k : Copy(k)' = Copy(k)
    BY <2>1 DEF Copy
  <2> QED
    BY <1>c, <2>1, <2>2, <2>3 DEF OrderInv
<1>6. CASE Crash
  BY <1>0, <1>c, <1>6 DEF Crash
<1>7. CASE UNCHANGED vars
  BY <1>c, <1>7 DEF vars, OrderInv, Copy
<1> QED
  BY <1>1, <1>2, <1>3, <1>4, <1>5, <1>6, <1>7 DEF Next, Idle

\* Without a crash the backups are the copies made by the latest starts, in their order,
\* for any number of them.
THEOREM BackupsAreInOrder == Spec => []BackupsInOrder
<1>1. OrderInv => BackupsInOrder
  BY DEF OrderInv, BackupsInOrder, Copy
<1> QED
  BY <1>1, FileInvHolds, OrderInit, OrderNext, PTL DEF Spec

-----------------------------------------------------------------------------
(* Export: types *)

Slot == [id : Nat, mark : BOOLEAN]
Listing == [open : BOOLEAN, ids : Seq(Nat), checked : SUBSET Nat]

\* Every variable has its type, and a list names no place the array has not got.
ExportTypeInv ==
  /\ slots \in [1..MaxSlots -> Slot] /\ nbrrecs \in 0..MaxSlots
  /\ lastsort \in Kind /\ fwd \in [Kind -> BOOLEAN] /\ reverse \in BOOLEAN
  /\ export_to \in {"ADIF", "CSV"} /\ choosing \in Dialog \cup {"none"}
  /\ list \in [Dialog -> Listing]
  /\ \A d \in Dialog : /\ list[d].checked \subseteq DOMAIN list[d].ids
                       /\ DOMAIN list[d].ids \subseteq 1..MaxSlots
  /\ died \in BOOLEAN

\* No slot is marked, also none past the last record: newrec hands those out as they are.
Unmarkedly == \A i \in 1..MaxSlots : ~slots[i].mark

\* Marks have causes wherever they are.
MarkInv == Unmarkedly \/ causes # {} \/ died

ExportInv == ExportTypeInv /\ MarkInv

\* A function on 1..n is a sequence of length n.
LEMMA ArrayIsSeq ==
  ASSUME NEW S, NEW n \in Nat, NEW s \in [1..n -> S]
  PROVE  s \in Seq(S) /\ Len(s) = n
<1>1. s \in Seq(S)
  OBVIOUS
<1>2. DOMAIN s = 1..n /\ DOMAIN s = 1..Len(s) /\ Len(s) \in Nat
  BY <1>1, LenProperties
<1> QED
  BY <1>1, <1>2

\* Sorting gives the same records, each once, in some order.
LEMMA SortedRecords ==
  ASSUME NEW n \in Nat, NEW s \in [1..n -> Slot], NEW kind, NEW rev,
         NEW t \in Sorted(kind, rev, s)
  PROVE  /\ t \in [1..n -> Slot]
         /\ \E perm \in Bijection(1..n, 1..n) : t = [i \in 1..n |-> s[perm[i]]]
<1>1. PICK perm \in Bijection(1..n, 1..n) : t = [i \in 1..n |-> s[perm[i]]]
  BY DEF Sorted
<1>2. perm \in [1..n -> 1..n]
  BY Fun_BijectionProperties
<1> QED
  BY <1>1, <1>2


\* The records of the log, as the array of those in use.
LEMMA RecsType ==
  ASSUME ExportTypeInv
  PROVE  /\ recs \in [1..nbrrecs -> Slot] /\ recs \in Seq(Slot) /\ Len(recs) = nbrrecs
         /\ nbrrecs \in Nat /\ MaxSlots \in Nat
<1>1. nbrrecs \in Nat /\ MaxSlots \in Nat /\ nbrrecs <= MaxSlots
  BY ExportAssumption DEF ExportTypeInv
<1>2. recs \in [1..nbrrecs -> Slot]
  BY <1>1 DEF ExportTypeInv, recs
<1> QED
  BY <1>1, <1>2, ArrayIsSeq

\* Records that are no more than the array holds can become the log; the slots behind
\* them keep what they have.  Nothing is marked that was not.
LEMMA Becomes ==
  ASSUME ExportTypeInv, NEW n \in 0..MaxSlots, NEW s \in [1..n -> Slot], NEW kind, NEW rev,
         NEW t \in Sorted(kind, rev, s), Become(t)
  PROVE  /\ slots' \in [1..MaxSlots -> Slot] /\ nbrrecs' \in 0..MaxSlots
         /\ IdsOf(t) = IdsOf(recs)'
         /\ Unmarkedly /\ (\A i \in 1..n : ~s[i].mark) => Unmarkedly'
<1>1. n \in Nat /\ MaxSlots \in Nat
  BY ExportAssumption
<1>2. PICK perm \in Bijection(1..n, 1..n) : t = [i \in 1..n |-> s[perm[i]]]
  BY <1>1, SortedRecords
<1>3. perm \in [1..n -> 1..n]
  BY <1>2, Fun_BijectionProperties
<1>4. t \in [1..n -> Slot] /\ DOMAIN t = 1..n /\ Len(t) = n
  BY <1>1, <1>2, <1>3, ArrayIsSeq
<1>5. nbrrecs' = n /\ slots' = [i \in 1..MaxSlots |-> IF i \in 1..n THEN t[i] ELSE slots[i]]
  BY <1>4 DEF Become, ExportTypeInv
<1>6. slots' \in [1..MaxSlots -> Slot]
  BY <1>4, <1>5 DEF ExportTypeInv
<1>7. IdsOf(t) = IdsOf(recs)'
  <2>1. recs' = [i \in 1..n |-> t[i]]
    BY <1>1, <1>5 DEF recs
  <2> QED
    BY <1>4, <2>1 DEF IdsOf
<1>8. ASSUME Unmarkedly, \A i \in 1..n : ~s[i].mark PROVE Unmarkedly'
  BY <1>2, <1>3, <1>5, <1>8 DEF Unmarkedly
<1> QED
  BY <1>5, <1>6, <1>7, <1>8

\* What a step that sorts and loads the browser leaves
LEMMA ShownBecomes ==
  ASSUME ExportTypeInv, NEW n \in 0..MaxSlots, NEW s \in [1..n -> Slot], NEW kind,
         SortedShown(kind, s)
  PROVE  /\ slots' \in [1..MaxSlots -> Slot] /\ nbrrecs' \in 0..MaxSlots
         /\ rows' = IdsOf(recs)'
         /\ Unmarkedly /\ (\A i \in 1..n : ~s[i].mark) => Unmarkedly'
<1>1. PICK t \in Sorted(kind, reverse', s) : Become(t) /\ rows' = IdsOf(t)
  BY DEF SortedShown
<1> QED
  BY <1>1, Becomes

\* The steps that change the log mark nothing; all but RestoreSort load the browser.
LogSteps ==
  \/ \E id \in Ids : AddRecord(id) \/ SaveRecord(id)
  \/ \E n \in 1..MaxSlots : UpdateRecord(n) \/ DeleteRecord(n)
  \/ \E kind \in Kind : SortBy(kind)
  \/ RestoreSort

LogKept ==
  /\ slots' \in [1..MaxSlots -> Slot] /\ nbrrecs' \in 0..MaxSlots
  /\ lastsort' \in Kind /\ fwd' \in [Kind -> BOOLEAN] /\ reverse' \in BOOLEAN
  /\ rows' = IdsOf(recs)' \/ RestoreSort
  /\ Unmarkedly => Unmarkedly'

\* A record can be appended as long as the array has room.
LEMMA AppendKeeps ==
  ASSUME ExportTypeInv, nbrrecs < MaxSlots, NEW id \in Ids, NEW m \in BOOLEAN,
         Unmarkedly => ~m, UNCHANGED sortVars,
         SortedShown("DATE", Append(recs, [id |-> id, mark |-> m]))
  PROVE  LogKept
<1> DEFINE r == [id |-> id, mark |-> m]
           s == Append(recs, r)
<1>1. /\ recs \in [1..nbrrecs -> Slot] /\ recs \in Seq(Slot) /\ Len(recs) = nbrrecs
      /\ nbrrecs \in Nat /\ MaxSlots \in Nat
  BY RecsType
<1>2. r \in Slot /\ r.mark = m
  BY ExportAssumption DEF Slot
<1> HIDE DEF r
<1>3. /\ s \in Seq(Slot) /\ Len(s) = nbrrecs + 1
      /\ \A i \in 1..nbrrecs : s[i] = recs[i]
      /\ s[nbrrecs + 1] = r
  BY <1>1, <1>2, AppendProperties
<1>4. s \in [1..(nbrrecs + 1) -> Slot]
  BY <1>3, LenProperties
<1>5. nbrrecs + 1 \in 0..MaxSlots
  BY <1>1
<1>6. ASSUME Unmarkedly PROVE \A i \in 1..(nbrrecs + 1) : ~s[i].mark
  <2>1. \A i \in 1..nbrrecs : recs[i] = slots[i] /\ i \in 1..MaxSlots
    BY <1>1 DEF recs
  <2>2. \A i \in 1..(nbrrecs + 1) : i \in 1..nbrrecs \/ i = nbrrecs + 1
    BY <1>1
  <2> HIDE DEF s
  <2> QED
    BY <1>2, <1>3, <1>6, <2>1, <2>2 DEF Unmarkedly
<1>7. SortedShown("DATE", s)
  BY DEF r
<1> HIDE DEF s
<1> QED
  BY <1>4, <1>5, <1>6, <1>7, ShownBecomes DEF LogKept, sortVars, ExportTypeInv

\* A record that is updated loses its mark.
LEMMA UpdateKeeps ==
  ASSUME ExportTypeInv, NEW n \in 1..MaxSlots, UpdateRecord(n)
  PROVE  LogKept
<1> DEFINE s == [recs EXCEPT ![n].mark = FALSE]
<1>1. /\ recs \in [1..nbrrecs -> Slot] /\ nbrrecs \in Nat /\ MaxSlots \in Nat
  BY RecsType
<1>2. n \in 1..nbrrecs /\ nbrrecs \in 0..MaxSlots
  BY <1>1 DEF UpdateRecord, ExportTypeInv
<1>3. s \in [1..nbrrecs -> Slot] /\ \A i \in 1..nbrrecs : s[i].mark => recs[i].mark
  <2>1. [recs[n] EXCEPT !.mark = FALSE] \in Slot /\ ~[recs[n] EXCEPT !.mark = FALSE].mark
    BY <1>1, <1>2 DEF Slot
  <2>2. s = [recs EXCEPT ![n] = [recs[n] EXCEPT !.mark = FALSE]]
    OBVIOUS
  <2> QED
    BY <1>1, <1>2, <2>1, <2>2
<1>4. Unmarkedly => \A i \in 1..nbrrecs : ~s[i].mark
  BY <1>1, <1>2, <1>3 DEF Unmarkedly, recs
<1>5. SortedShown(lastsort, s)
  BY DEF UpdateRecord
<1> HIDE DEF s
<1>6. reverse' \in BOOLEAN /\ lastsort' = lastsort /\ fwd' = fwd
  BY DEF UpdateRecord, ExportTypeInv
<1> QED
  BY <1>2, <1>3, <1>4, <1>5, <1>6, ShownBecomes DEF LogKept, ExportTypeInv

\* The records behind a deleted one move up.
LEMMA DeleteKeeps ==
  ASSUME ExportTypeInv, NEW n \in 1..MaxSlots, DeleteRecord(n)
  PROVE  LogKept
<1> DEFINE m == nbrrecs - 1
           s == [i \in 1..(nbrrecs - 1) |-> slots[IF i < n THEN i ELSE i + 1]]
<1>1. /\ nbrrecs \in 1..MaxSlots /\ MaxSlots \in Nat /\ m \in Nat /\ m \in 0..MaxSlots
      /\ nbrrecs = m + 1
  BY RecsType DEF ExportTypeInv, DeleteRecord
<1>2. s \in [1..m -> Slot]
  BY <1>1 DEF ExportTypeInv
<1>3. Unmarkedly => \A i \in 1..m : ~s[i].mark
  BY <1>1 DEF Unmarkedly
<1>4. PICK t \in Sorted(lastsort, reverse', s) :
        /\ slots' = [i \in DOMAIN slots |->
                       IF i < nbrrecs THEN t[i]
                       ELSE IF i = nbrrecs THEN Cleared(i) ELSE slots[i]]
        /\ rows' = IdsOf(t)
  BY DEF DeleteRecord
<1> HIDE DEF s, m
<1>5. t \in [1..m -> Slot] /\ DOMAIN t = 1..m
  BY <1>1, <1>2, <1>4, SortedRecords
<1>6. PICK perm \in Bijection(1..m, 1..m) : t = [i \in 1..m |-> s[perm[i]]]
  BY <1>1, <1>2, <1>4, SortedRecords, SMTT(60)
<1>7. perm \in [1..m -> 1..m]
  BY <1>6, Fun_BijectionProperties
<1>8. nbrrecs' = m
  BY DEF DeleteRecord, m
<1>9. \A i \in 1..MaxSlots : \/ i \in 1..m /\ i < nbrrecs
                             \/ i = nbrrecs /\ ~(i < nbrrecs)
                             \/ ~(i < nbrrecs) /\ i # nbrrecs /\ i \notin 1..m
  BY <1>1
<1>10. slots' \in [1..MaxSlots -> Slot]
  BY <1>4, <1>5, <1>9 DEF ExportTypeInv, Cleared, EmptySlot, Slot
<1>11. rows' = IdsOf(recs)'
  <2>1. \A i \in 1..m : i \in 1..MaxSlots /\ i < nbrrecs
    BY <1>1
  <2>2. recs' = [i \in 1..m |-> t[i]]
    BY <1>4, <1>8, <2>1 DEF recs, ExportTypeInv
  <2> QED
    BY <1>4, <1>5, <2>2 DEF IdsOf
<1>12. ASSUME Unmarkedly PROVE Unmarkedly'
  BY <1>3, <1>4, <1>6, <1>7, <1>9, <1>12 DEF Unmarkedly, Cleared, EmptySlot, ExportTypeInv
<1>13. lastsort' = lastsort /\ fwd' = fwd /\ reverse' \in BOOLEAN
  BY DEF DeleteRecord, ExportTypeInv
<1> QED
  BY <1>1, <1>8, <1>10, <1>11, <1>12, <1>13 DEF LogKept, ExportTypeInv

\* The log may be sorted behind the browser's back.
LEMMA RestoreKeeps == ExportTypeInv /\ RestoreSort => LogKept
<1> SUFFICES ASSUME ExportTypeInv, RestoreSort PROVE LogKept
  OBVIOUS
<1>1. recs \in [1..nbrrecs -> Slot] /\ nbrrecs \in 0..MaxSlots
  BY RecsType DEF ExportTypeInv
<1>2. Unmarkedly => \A i \in 1..nbrrecs : ~recs[i].mark
  BY <1>1, RecsType DEF Unmarkedly, recs
<1>3. PICK t \in Sorted(lastsort, reverse', recs) : Become(t)
  BY DEF RestoreSort
<1>4. reverse' \in BOOLEAN /\ lastsort' = lastsort /\ fwd' = fwd
  BY DEF RestoreSort, ExportTypeInv
<1> QED
  BY <1>1, <1>2, <1>3, <1>4, Becomes DEF LogKept, ExportTypeInv

\* All of them keep the types and mark nothing.
LEMMA LogStepsKeep ==
  ASSUME ExportTypeInv, LogSteps
  PROVE  LogKept
<1>1. ASSUME NEW id \in Ids, AddRecord(id) PROVE LogKept
  <2>1. nbrrecs < MaxSlots /\ nbrrecs + 1 \in 1..MaxSlots
    BY <1>1, RecsType DEF AddRecord, ExportTypeInv
  <2>2. slots[nbrrecs + 1].mark \in BOOLEAN
    BY <2>1 DEF ExportTypeInv, Slot
  <2>3. Unmarkedly => ~slots[nbrrecs + 1].mark
    BY <2>1 DEF Unmarkedly
  <2> QED
    BY <1>1, <2>1, <2>2, <2>3, AppendKeeps DEF AddRecord
<1>2. ASSUME NEW id \in Ids, SaveRecord(id) PROVE LogKept
  <2>1. nbrrecs < MaxSlots
    BY <1>2 DEF SaveRecord
  <2> QED
    BY <1>2, <2>1, AppendKeeps DEF SaveRecord
<1>3. ASSUME NEW kind \in Kind, SortBy(kind) PROVE LogKept
  <2>1. lastsort' = kind /\ SortedShown(kind, recs)
    BY <1>3 DEF SortBy
  <2>2. fwd' \in [Kind -> BOOLEAN] /\ reverse' = fwd'[kind]
    <3> DEFINE b == IF lastsort = kind THEN ~fwd[kind] ELSE kind = "DATE" /\ fwd[kind]
    <3>1. fwd' = [fwd EXCEPT ![kind] = b] /\ reverse' = fwd'[kind]
      BY <1>3 DEF SortBy
    <3>2. b \in BOOLEAN /\ fwd \in [Kind -> BOOLEAN]
      BY DEF ExportTypeInv
    <3> HIDE DEF b
    <3> QED
      BY <3>1, <3>2
  <2>3. recs \in [1..nbrrecs -> Slot] /\ nbrrecs \in 0..MaxSlots
    BY RecsType DEF ExportTypeInv
  <2>4. Unmarkedly => \A i \in 1..nbrrecs : ~recs[i].mark
    BY <2>3, RecsType DEF Unmarkedly, recs
  <2> QED
    BY <2>1, <2>2, <2>3, <2>4, ShownBecomes DEF LogKept
<1> QED
  BY <1>1, <1>2, <1>3, UpdateKeeps, DeleteKeeps, RestoreKeeps DEF LogSteps

\* The lists name slots of the array.
ListsSound(ls) ==
  /\ ls \in [Dialog -> Listing]
  /\ \A d \in Dialog : /\ ls[d].checked \subseteq DOMAIN ls[d].ids
                       /\ DOMAIN ls[d].ids \subseteq 1..MaxSlots

\* A list may be replaced by a sound one.
LEMMA ListSet ==
  ASSUME NEW ls, ListsSound(ls), NEW d \in Dialog, NEW l \in Listing,
         l.checked \subseteq DOMAIN l.ids, DOMAIN l.ids \subseteq 1..MaxSlots
  PROVE  ListsSound([ls EXCEPT ![d] = l])
BY DEF ListsSound

\* A dialog that is not shown has an empty list.
LEMMA ListEmptied ==
  ASSUME NEW ls, ListsSound(ls), NEW d \in Dialog
  PROVE  ListsSound([ls EXCEPT ![d] = NoList])
<1>1. NoList \in Listing /\ NoList.checked = {} /\ DOMAIN NoList.ids = {}
  BY DEF NoList, Listing
<1> QED
  BY <1>1, ListSet

\* The list that is made of the log is sound.
LEMMA ListMade ==
  ASSUME ExportTypeInv, NEW d \in Dialog, NEW span
  PROVE  ListsSound([list EXCEPT ![d] = Listed(span)])
<1>1. recs \in [1..nbrrecs -> Slot] /\ nbrrecs \in Nat
  BY RecsType
<1>2. IdsOf(recs) \in [1..nbrrecs -> Nat]
  BY <1>1 DEF IdsOf, Slot
<1>3. IdsOf(recs) \in Seq(Nat)
  BY <1>1, <1>2, ArrayIsSeq
<1>4. Dated(IdsOf(recs), span) \subseteq 1..nbrrecs
  BY <1>2 DEF Dated
<1>5. /\ Listed(span) \in Listing
      /\ Listed(span).checked = Dated(IdsOf(recs), span) /\ Listed(span).ids = IdsOf(recs)
  <2>1. Dated(IdsOf(recs), span) \subseteq Nat
    BY <1>1, <1>4
  <2> QED
    BY <1>3, <2>1 DEF Listed, Listing
<1>6. 1..nbrrecs \subseteq 1..MaxSlots
  BY RecsType DEF ExportTypeInv
<1> QED
  BY <1>2, <1>4, <1>5, <1>6, ListSet DEF ExportTypeInv, ListsSound

\* The checks of a list may change.
LEMMA ListChecked ==
  ASSUME ExportTypeInv, NEW d \in Dialog, NEW C, C \subseteq DOMAIN list[d].ids
  PROVE  ListsSound([list EXCEPT ![d].checked = C])
<1> DEFINE l == [list[d] EXCEPT !.checked = C]
<1>1. list[d] \in Listing /\ DOMAIN list[d].ids \subseteq 1..MaxSlots
  BY DEF ExportTypeInv
<1>2. C \subseteq Nat
  BY <1>1 DEF Listing
<1>3. l \in Listing /\ l.checked = C /\ l.ids = list[d].ids
  BY <1>1, <1>2 DEF Listing
<1>4. [list EXCEPT ![d].checked = C] = [list EXCEPT ![d] = l]
  OBVIOUS
<1> HIDE DEF l
<1>5. ListsSound(list)
  BY DEF ListsSound, ExportTypeInv
<1> QED
  BY <1>1, <1>3, <1>4, <1>5, ListSet

\* The steps of the dialogs: the log, the browser and the marks stay.
DialogSteps ==
  \/ \E kind \in {"ADIF", "CSV"}, span \in {{}, Ids} : OpenExport(kind, span)
  \/ \E span \in {{}, Ids} : DateSelect(span)
  \/ OpenCabrillo \/ FileCancelled
  \/ \E d \in Dialog : OK(d) \/ Cancel(d) \/ \E i \in 1..MaxSlots : Check(d, i)

\* None of them disturbs the log.
LEMMA DialogStepsKeep ==
  ASSUME ExportTypeInv, DialogSteps
  PROVE  /\ UNCHANGED <<logVars, sortVars, rows, causes, died>>
         /\ ListsSound(list') /\ export_to' \in {"ADIF", "CSV"}
         /\ choosing' \in Dialog \cup {"none"}
<1>1. /\ ListsSound(list) /\ export_to \in {"ADIF", "CSV"}
      /\ choosing \in Dialog \cup {"none"}
  BY DEF ExportTypeInv, ListsSound
<1>2. "wExport" \in Dialog /\ "wCabrillo" \in Dialog
  BY DEF Dialog
<1>3. UNCHANGED <<logVars, sortVars, rows, causes, died>>
  BY DEF DialogSteps, OpenExport, DateSelect, OpenCabrillo, FileCancelled, OK, Cancel, Check,
         DialogOnly
<1>4. ASSUME NEW kind \in {"ADIF", "CSV"}, NEW span, OpenExport(kind, span)
      PROVE  /\ ListsSound(list') /\ export_to' \in {"ADIF", "CSV"}
             /\ choosing' \in Dialog \cup {"none"}
  BY <1>1, <1>2, <1>4, ListMade DEF OpenExport, ExportTypeInv
<1>5. ASSUME NEW span, DateSelect(span)
      PROVE  /\ ListsSound(list') /\ export_to' \in {"ADIF", "CSV"}
             /\ choosing' \in Dialog \cup {"none"}
  <2>1. Dated(list["wExport"].ids, span) \subseteq DOMAIN list["wExport"].ids
    BY DEF Dated
  <2> QED
    BY <1>2, <1>5, <2>1, ListChecked DEF DateSelect, ExportTypeInv
<1>6. CASE OpenCabrillo
  <2>1. /\ list' = [list EXCEPT !["wCabrillo"] = Listed({})]
        /\ export_to' = export_to /\ choosing' = choosing
    BY <1>6 DEF OpenCabrillo
  <2>2. ListsSound([list EXCEPT !["wCabrillo"] = Listed({})])
    BY <1>2, ListMade
  <2> QED
    BY <1>1, <1>3, <2>1, <2>2
<1>7. CASE FileCancelled
  <2>1. /\ choosing \in Dialog /\ list' = [list EXCEPT ![choosing] = NoList]
        /\ export_to' = export_to /\ choosing' = "none"
    BY <1>1, <1>7 DEF FileCancelled
  <2>2. ListsSound([list EXCEPT ![choosing] = NoList])
    BY <1>1, <2>1, ListEmptied
  <2> QED
    BY <1>1, <1>3, <2>1, <2>2
<1>8. ASSUME NEW d \in Dialog, OK(d) \/ Cancel(d)
      PROVE  /\ ListsSound(list') /\ export_to' \in {"ADIF", "CSV"}
             /\ choosing' \in Dialog \cup {"none"}
  <2>1. list' = [list EXCEPT ![d] = NoList] \/ list' = [list EXCEPT ![d].open = FALSE]
    BY <1>8 DEF OK, Cancel
  <2>2. ListsSound([list EXCEPT ![d].open = FALSE])
    <3> DEFINE l == [list[d] EXCEPT !.open = FALSE]
    <3>1. list[d] \in Listing /\ [list EXCEPT ![d].open = FALSE] = [list EXCEPT ![d] = l]
      BY DEF ExportTypeInv
    <3>2. l \in Listing /\ l.ids = list[d].ids /\ l.checked = list[d].checked
      BY <3>1 DEF Listing
    <3> HIDE DEF l
    <3> QED
      BY <1>1, <3>1, <3>2, ListSet, ZenonT(60) DEF ListsSound
  <2> QED
    <3>1. ListsSound([list EXCEPT ![d] = NoList])
      BY <1>1, ListEmptied
    <3>2. export_to' = export_to /\ (choosing' = choosing \/ choosing' = d)
      BY <1>8 DEF OK, Cancel
    <3>3. ListsSound(list')
      BY <2>1, <2>2, <3>1
    <3> QED
      BY <1>1, <3>2, <3>3
<1>9. ASSUME NEW d \in Dialog, NEW i, Check(d, i)
      PROVE  /\ ListsSound(list') /\ export_to' \in {"ADIF", "CSV"}
             /\ choosing' \in Dialog \cup {"none"}
  <2> DEFINE C == (list[d].checked \cup {i}) \ (list[d].checked \cap {i})
  <2>1. C \subseteq DOMAIN list[d].ids
    BY <1>9 DEF Check, ExportTypeInv
  <2>2. list' = [list EXCEPT ![d].checked = C]
    BY <1>9 DEF Check
  <2> HIDE DEF C
  <2> QED
    <3>1. ListsSound([list EXCEPT ![d].checked = C])
      BY <2>1, ListChecked
    <3>2. export_to' = export_to /\ choosing' = choosing
      BY <1>9 DEF Check
    <3> QED
      BY <1>1, <2>2, <3>1, <3>2
<1> QED
  BY <1>3, <1>4, <1>5, <1>6, <1>7, <1>8, <1>9 DEF DialogSteps

\* putField marks what is checked and changes nothing else.
LEMMA MarkedSlots ==
  ASSUME ExportTypeInv, NEW C \in SUBSET (1..MaxSlots)
  PROVE  /\ Marked(C) \in [1..MaxSlots -> Slot]
         /\ \A i \in 1..MaxSlots : /\ Marked(C)[i].id = slots[i].id
                                   /\ Marked(C)[i].mark <=> i \in C \/ slots[i].mark
BY DEF Marked, ExportTypeInv, Slot

\* A writer keeps the records of the log, in whatever order, and leaves no mark without a
\* cause.
LogIds == {slots[i].id : i \in 1..nbrrecs}

WriterKept ==
  /\ slots' \in [1..MaxSlots -> Slot] /\ nbrrecs' = nbrrecs /\ died' \in BOOLEAN
  /\ Unmarkedly' \/ causes' # {} \/ died'
  /\ LogIds' = LogIds

\* The marks that are left: those past the end of the log, and only of a list longer than it.
LEMMA MarksLeft ==
  ASSUME ExportTypeInv, MarkInv, ~died, NEW C \in SUBSET (1..MaxSlots),
         causes' = causes \cup Short(C),
         \A i \in 1..MaxSlots : slots'[i].mark => i > nbrrecs /\ Marked(C)[i].mark
  PROVE  Unmarkedly' \/ causes' # {}
<1>1. CASE causes # {} \/ Short(C) # {}
  BY <1>1
<1>2. CASE causes = {} /\ Short(C) = {}
  <2>1. Unmarkedly
    BY <1>2 DEF MarkInv
  <2>2. \A i \in C : ~(i > nbrrecs)
    BY <1>2 DEF Short
  <2> QED
    BY <2>1, <2>2, MarkedSlots DEF Unmarkedly
<1> QED
  BY <1>1, <1>2

\* Writing a text file moves no record.
LEMMA TextKeeps ==
  ASSUME ExportTypeInv, MarkInv, ~died, NEW C \in SUBSET (1..MaxSlots), NEW opens,
         WriteText(C, opens)
  PROVE  WriterKept /\ \A i \in 1..nbrrecs : slots'[i].id = slots[i].id
<1> DEFINE s == Marked(C)
<1>1. /\ s \in [1..MaxSlots -> Slot]
      /\ \A i \in 1..MaxSlots : s[i].id = slots[i].id
  BY MarkedSlots
<1>2. nbrrecs' = nbrrecs /\ died' = died /\ nbrrecs \in 0..MaxSlots /\ MaxSlots \in Nat
  BY RecsType DEF WriteText, ExportTypeInv
<1>3. CASE opens
  <2>1. slots' = Unmarked(s, nbrrecs) /\ causes' = causes \cup Short(C)
    BY <1>3 DEF WriteText
  <2>2. slots' = [i \in 1..MaxSlots |-> IF i <= nbrrecs THEN [s[i] EXCEPT !.mark = FALSE]
                                        ELSE s[i]]
    BY <1>1, <2>1 DEF Unmarked
  <2>3. /\ slots' \in [1..MaxSlots -> Slot]
        /\ \A i \in 1..MaxSlots : /\ slots'[i].id = slots[i].id
                                  /\ slots'[i].mark => i > nbrrecs /\ s[i].mark
    <3> HIDE DEF s
    <3>1. \A i \in 1..MaxSlots :
            LET r == [s[i] EXCEPT !.mark = FALSE] IN r \in Slot /\ r.id = s[i].id /\ ~r.mark
      BY <1>1 DEF Slot
    <3>2. \A i \in 1..MaxSlots : i <= nbrrecs \/ i > nbrrecs
      BY <1>2
    <3> QED
      BY <1>1, <2>2, <3>1, <3>2
  <2>4. Unmarkedly' \/ causes' # {}
    BY <2>1, <2>3, MarksLeft
  <2> QED
    BY <1>2, <2>3, <2>4 DEF WriterKept, LogIds, ExportTypeInv
<1>4. CASE ~opens
  <2>1. slots' = s /\ causes' # {}
    BY <1>4 DEF WriteText
  <2> QED
    BY <1>1, <1>2, <2>1 DEF WriterKept, LogIds, ExportTypeInv
<1> QED
  BY <1>3, <1>4

\* The report leaves the log sorted by date: the records are the same.
LEMMA CabrilloKeeps ==
  ASSUME ExportTypeInv, MarkInv, ~died, NEW C \in SUBSET (1..MaxSlots), NEW opens, NEW dates,
         WriteCabrillo(C, opens, dates)
  PROVE  WriterKept
<1> DEFINE m == Marked(C)
<1>1. /\ m \in [1..MaxSlots -> Slot]
      /\ \A i \in 1..MaxSlots : m[i].id = slots[i].id
  BY MarkedSlots
<1>2. nbrrecs' = nbrrecs /\ nbrrecs \in 0..MaxSlots /\ MaxSlots \in Nat /\ nbrrecs \in Nat
  BY RecsType DEF WriteCabrillo, ExportTypeInv
<1>3. CASE opens
  <2>1. PICK t \in Sorted("DATE", reverse, First(m, nbrrecs)) : Report(m, t, dates)
    BY <1>3 DEF WriteCabrillo
  <2>2. causes' = causes \cup Short(C)
    BY <1>3 DEF WriteCabrillo
  <2> HIDE DEF m
  <2>3. First(m, nbrrecs) = [i \in 1..nbrrecs |-> m[i]]
        /\ First(m, nbrrecs) \in [1..nbrrecs -> Slot]
    BY <1>1, <1>2 DEF First
  <2>4. PICK perm \in Bijection(1..nbrrecs, 1..nbrrecs) :
          t \in [1..nbrrecs -> Slot] /\ t = [i \in 1..nbrrecs |-> m[perm[i]]]
    <3>1. PICK q \in Bijection(1..nbrrecs, 1..nbrrecs) :
            t \in [1..nbrrecs -> Slot] /\ t = [i \in 1..nbrrecs |-> First(m, nbrrecs)[q[i]]]
      <4>1. PICK s, n : s = First(m, nbrrecs) /\ n = nbrrecs
        OBVIOUS
      <4>2. n \in Nat /\ s \in [1..n -> Slot] /\ t \in Sorted("DATE", reverse, s)
        BY <1>2, <2>1, <2>3, <4>1
      <4>3. t \in [1..n -> Slot] /\ \E q \in Bijection(1..n, 1..n) : t = [i \in 1..n |-> s[q[i]]]
        BY <4>2, SortedRecords
      <4> QED
        BY <4>1, <4>3
    <3>2. q \in [1..nbrrecs -> 1..nbrrecs]
      BY <3>1, Fun_BijectionProperties
    <3> QED
      BY <2>3, <3>1, <3>2
  <2>5. /\ perm \in [1..nbrrecs -> 1..nbrrecs]
        /\ \A j \in 1..nbrrecs : \E i \in 1..nbrrecs : perm[i] = j
    <3> DEFINE N == 1..nbrrecs
    <3>1. perm \in Bijection(N, N)
      BY <2>4
    <3> HIDE DEF N
    <3>2. perm \in [N -> N] /\ \A j \in N : \E i \in N : perm[i] = j
      BY <3>1, Fun_BijectionProperties
    <3> QED
      BY <3>2 DEF N
  <2> DEFINE fatal == {i \in 1..nbrrecs : Throws(t[i], dates)}
             upto == IF fatal = {} THEN nbrrecs
                     ELSE (CHOOSE i \in fatal : \A j \in fatal : i <= j) - 1
             u == Unmarked(t, upto)
  <2>6. slots' = [i \in 1..MaxSlots |-> IF i <= nbrrecs THEN u[i] ELSE m[i]]
        /\ died' = (fatal # {})
    BY <2>1 DEF Report, ExportTypeInv
  <2>7. fatal = {} => upto = nbrrecs
    OBVIOUS
  <2> HIDE DEF fatal, upto
  <2>8. /\ u \in [1..nbrrecs -> Slot]
        /\ \A i \in 1..nbrrecs : u[i].id = t[i].id /\ (i <= upto => ~u[i].mark)
    BY <2>4 DEF Unmarked, Slot
  <2> HIDE DEF u
  <2>9. slots' \in [1..MaxSlots -> Slot]
    BY <1>1, <1>2, <2>6, <2>8
  <2>10. \A i \in 1..nbrrecs : slots'[i].id = slots[perm[i]].id
    BY <1>1, <1>2, <2>4, <2>5, <2>6, <2>8, SMTT(60)
  <2>11. LogIds' = LogIds
    <3>1. LogIds' = {slots[perm[i]].id : i \in 1..nbrrecs}
      BY <1>2, <2>10 DEF LogIds
    <3>2. \A j \in 1..nbrrecs : \E i \in 1..nbrrecs : slots[perm[i]].id = slots[j].id
      BY <2>5
    <3>3. \A i \in 1..nbrrecs : perm[i] \in 1..nbrrecs
      BY <2>5
    <3>4. {slots[perm[i]].id : i \in 1..nbrrecs} = {slots[i].id : i \in 1..nbrrecs}
      BY <3>2, <3>3, Zenon
    <3> QED
      BY <3>1, <3>4 DEF LogIds
  <2>12. CASE fatal = {}
    <3>1. \A i \in 1..MaxSlots : slots'[i].mark => i > nbrrecs /\ m[i].mark
      BY <1>1, <1>2, <2>6, <2>7, <2>8, <2>12
    <3>2. Unmarkedly' \/ causes' # {}
      BY <2>2, <3>1, MarksLeft DEF m
    <3> QED
      BY <1>2, <2>6, <2>9, <2>11, <3>2 DEF WriterKept
  <2>13. CASE fatal # {}
    BY <1>2, <2>6, <2>9, <2>11, <2>13 DEF WriterKept
  <2> QED
    BY <2>12, <2>13
<1>4. CASE ~opens
  <2>1. slots' = m /\ causes' # {} /\ died' = died
    BY <1>4 DEF WriteCabrillo
  <2> HIDE DEF m
  <2> QED
    BY <1>1, <1>2, <2>1 DEF WriterKept, LogIds, ExportTypeInv
<1> QED
  BY <1>3, <1>4

\* What is checked are places of the array.
LEMMA CheckedSlots ==
  ASSUME ExportTypeInv, NEW d \in Dialog
  PROVE  list[d].checked \in SUBSET (1..MaxSlots)
BY DEF ExportTypeInv

\* The end of a file dialog: whatever is written, the log keeps its records, and only a
\* report may change their order.
LEMMA FileChosenKeeps ==
  ASSUME ExportInv, NEW d \in Dialog, NEW opens, FileChosen(d, opens)
  PROVE  /\ WriterKept /\ ListsSound(list')
         /\ d # "wCabrillo" => \A i \in 1..nbrrecs : slots'[i].id = slots[i].id
<1>1. /\ ExportTypeInv /\ MarkInv /\ ~died /\ list[d].checked \in SUBSET (1..MaxSlots)
      /\ ListsSound(list)
  BY CheckedSlots DEF ExportInv, FileChosen, Running, ListsSound, ExportTypeInv
<1>2. ListsSound(list')
  BY <1>1, ListEmptied DEF FileChosen
<1>3. CASE d = "wCabrillo"
  <2>1. PICK dates \in BOOLEAN : WriteCabrillo(list[d].checked, opens, dates)
    BY <1>3 DEF FileChosen
  <2> QED
    BY <1>1, <1>2, <1>3, <2>1, CabrilloKeeps
<1>4. CASE d # "wCabrillo"
  <2>1. WriteADIF(list[d].checked, opens) \/ WriteText(list[d].checked, opens)
    BY <1>4 DEF FileChosen
  <2>2. CASE WriteADIF(list[d].checked, opens)
    <3>1. UNCHANGED <<slots, nbrrecs, causes, died>>
      BY <2>2 DEF WriteADIF, logVars
    <3> QED
      BY <1>1, <1>2, <3>1 DEF WriterKept, LogIds, ExportTypeInv, MarkInv, Unmarkedly
  <2>3. CASE WriteText(list[d].checked, opens)
    BY <1>1, <1>2, <2>3, TextKeeps
  <2> QED
    BY <2>1, <2>2, <2>3
<1> QED
  BY <1>3, <1>4

-----------------------------------------------------------------------------
(* Export: the invariant and the theorems *)

\* It holds in the beginning,
LEMMA ExportInitInv == ExportInit => ExportInv
<1> SUFFICES ASSUME ExportInit PROVE ExportInv
  OBVIOUS
<1>1. MaxSlots \in Nat
  BY ExportAssumption
<1>2. NoList \in Listing /\ NoList.checked = {} /\ DOMAIN NoList.ids = {}
  BY DEF NoList, Listing
<1>3. EmptySlot \in Slot /\ ~EmptySlot.mark
  BY DEF EmptySlot, Slot
<1>4. slots \in [1..MaxSlots -> Slot] /\ Unmarkedly
  BY <1>3 DEF ExportInit, Unmarkedly
<1>5. list \in [Dialog -> Listing] /\ \A d \in Dialog : list[d] = NoList
  BY <1>2 DEF ExportInit
<1>6. ExportTypeInv
  <2>1. lastsort \in Kind /\ fwd \in [Kind -> BOOLEAN] /\ reverse \in BOOLEAN
        /\ nbrrecs \in 0..MaxSlots /\ died \in BOOLEAN
    <3>1. fwd \in [Kind -> BOOLEAN] /\ lastsort \in Kind
      BY DEF ExportInit, Kind
    <3>2. 0 \in 0..MaxSlots
      BY <1>1
    <3> QED
      BY <3>1, <3>2 DEF ExportInit
  <2>2. \A d \in Dialog : /\ list[d].checked \subseteq DOMAIN list[d].ids
                         /\ DOMAIN list[d].ids \subseteq 1..MaxSlots
    BY <1>2, <1>5
  <2> QED
    BY <1>4, <1>5, <2>1, <2>2 DEF ExportInit, ExportTypeInv
<1> QED
  BY <1>4, <1>6 DEF ExportInv, MarkInv

\* The steps of the program are those of the log, of the dialogs and of the writers.
LEMMA ExportStepIs ==
  ASSUME ExportNext
  PROVE  \/ LogSteps \/ DialogSteps \/ Gone
         \/ \E d \in Dialog, opens \in BOOLEAN : FileChosen(d, opens)
BY DEF ExportNext, LogSteps, DialogSteps

\* every step keeps it,
LEMMA ExportNextInv == ExportInv /\ [ExportNext]_exportVars => ExportInv'
<1> SUFFICES ASSUME ExportInv, [ExportNext]_exportVars PROVE ExportInv'
  OBVIOUS
<1>1. /\ ExportTypeInv /\ MarkInv /\ ListsSound(list) /\ export_to \in {"ADIF", "CSV"}
      /\ choosing \in Dialog \cup {"none"}
  BY DEF ExportInv, ExportTypeInv, ListsSound
<1>2. CASE LogSteps
  <2>1. UNCHANGED <<export_to, list, choosing, causes, died>>
    BY <1>2 DEF LogSteps, AddRecord, SaveRecord, UpdateRecord, DeleteRecord, SortBy,
       RestoreSort, LogOnly
  <2>2. LogKept
    BY <1>1, <1>2, LogStepsKeep
  <2> QED
    BY <1>1, <2>1, <2>2 DEF LogKept, ExportInv, ExportTypeInv, MarkInv
<1>3. CASE DialogSteps
  <2>1. /\ UNCHANGED <<logVars, sortVars, rows, causes, died>>
        /\ ListsSound(list') /\ export_to' \in {"ADIF", "CSV"}
        /\ choosing' \in Dialog \cup {"none"}
    BY <1>1, <1>3, DialogStepsKeep
  <2>2. MarkInv'
    BY <1>1, <2>1 DEF MarkInv, Unmarkedly, logVars
  <2>3. ExportTypeInv'
    BY <1>1, <2>1 DEF ExportTypeInv, ListsSound, logVars, sortVars
  <2> QED
    BY <2>2, <2>3 DEF ExportInv
<1>4. ASSUME NEW d \in Dialog, NEW opens \in BOOLEAN, FileChosen(d, opens) PROVE ExportInv'
  <2>1. WriterKept /\ ListsSound(list')
    BY <1>4, FileChosenKeeps
  <2>2. /\ UNCHANGED <<lastsort, fwd, reverse, export_to>> /\ choosing' = "none"
    BY <1>4 DEF FileChosen, sortVars
  <2>3. MarkInv'
    BY <2>1 DEF WriterKept, MarkInv
  <2>4. ExportTypeInv'
    BY <1>1, <2>1, <2>2 DEF ExportTypeInv, ListsSound, WriterKept
  <2> QED
    BY <2>3, <2>4 DEF ExportInv
<1>5. CASE Gone \/ UNCHANGED exportVars
  <2>1. UNCHANGED <<slots, nbrrecs, lastsort, fwd, reverse, export_to, list, choosing, causes, died>>
    BY <1>5 DEF Gone, exportVars, logVars, sortVars
  <2> QED
    BY <1>1, <2>1 DEF ExportInv, ExportTypeInv, MarkInv, Unmarkedly
<1> QED
  BY <1>2, <1>3, <1>4, <1>5, ExportStepIs

\* so it holds always.
LEMMA ExportInvHolds == ExportSpec => []ExportInv
<1> QED
  BY ExportInitInv, ExportNextInv, PTL DEF ExportSpec

\* No export leaves a mark behind, of which the next one would make a line that nobody has
\* checked, unless a file did not open, a list was longer than the log, or the program
\* has ended in the middle of a report.
THEOREM MarksAreCaused == ExportSpec => []MarksHaveCause
<1>1. ExportInv => MarksHaveCause
  <2>1. ExportTypeInv => 1..nbrrecs \subseteq 1..MaxSlots
    BY RecsType DEF ExportTypeInv
  <2> QED
    BY <2>1 DEF ExportInv, MarkInv, Unmarkedly, MarksHaveCause
<1> QED
  BY <1>1, ExportInvHolds, PTL

\* Nothing an export or a report does to the log loses a record, an export moves none, and
\* the browser shows the log as it is until a report or a restore_sort without loadBrowser
\* sorts the log behind the browser's back.
THEOREM ExportLosesNothing == ExportSpec => ExportKeepsLog
<1> DEFINE A == choosing # "none" /\ choosing' = "none" =>
                  /\ nbrrecs' = nbrrecs
                  /\ {slots'[i].id : i \in 1..nbrrecs'} = {slots[i].id : i \in 1..nbrrecs}
                  /\ choosing = "wExport" => IdsOf(recs)' = IdsOf(recs)
           B == rows = IdsOf(recs) /\ rows' # IdsOf(recs)' =>
                  \/ RestoreSort
                  \/ choosing = "wCabrillo" /\ choosing' = "none"
<1>1. ExportInv /\ [ExportNext]_exportVars => A /\ B
  <2> SUFFICES ASSUME ExportInv, [ExportNext]_exportVars PROVE A /\ B
    OBVIOUS
  <2>1. /\ ExportTypeInv /\ choosing \in Dialog \cup {"none"}
        /\ LogIds' = {slots'[i].id : i \in 1..nbrrecs'}
        /\ LogIds = {slots[i].id : i \in 1..nbrrecs}
    BY DEF ExportInv, ExportTypeInv, LogIds
  <2>2. CASE LogSteps
    <3>1. choosing' = choosing
      BY <2>2 DEF LogSteps, AddRecord, SaveRecord, UpdateRecord, DeleteRecord, SortBy,
         RestoreSort, LogOnly
    <3>2. rows' = IdsOf(recs)' \/ RestoreSort
      BY <2>1, <2>2, LogStepsKeep DEF LogKept
    <3> QED
      BY <3>1, <3>2
  <2>3. CASE UNCHANGED <<slots, nbrrecs, rows>>
    <3>1. IdsOf(recs)' = IdsOf(recs)
      BY <2>3 DEF recs, IdsOf
    <3> QED
      BY <2>3, <3>1
  <2>4. CASE DialogSteps \/ Gone \/ UNCHANGED exportVars
    <3>1. UNCHANGED <<slots, nbrrecs, rows>>
      BY <2>1, <2>4, DialogStepsKeep DEF Gone, exportVars, logVars
    <3> QED
      BY <2>3, <3>1
  <2>5. ASSUME NEW d \in Dialog, NEW opens \in BOOLEAN, FileChosen(d, opens) PROVE A /\ B
    <3>1. LogIds' = LogIds /\ rows' = rows /\ choosing = d /\ choosing' = "none" /\ nbrrecs' = nbrrecs
      BY <2>5, FileChosenKeeps DEF WriterKept, FileChosen
    <3>2. CASE d = "wCabrillo"
      BY <2>1, <3>1, <3>2
    <3>3. CASE d # "wCabrillo"
      <4>1. \A i \in 1..nbrrecs : slots'[i].id = slots[i].id
        BY <2>5, <3>3, FileChosenKeeps
      <4>2. IdsOf(recs) = [i \in 1..nbrrecs |-> slots[i].id]
            /\ IdsOf(recs)' = [i \in 1..nbrrecs |-> slots'[i].id]
        BY <3>1 DEF IdsOf, recs
      <4>3. IdsOf(recs)' = IdsOf(recs)
        BY <4>1, <4>2
      <4> QED
        BY <2>1, <3>1, <4>3
    <3> QED
      BY <3>2, <3>3
  <2> QED
    BY <2>2, <2>4, <2>5, ExportStepIs
<1> QED
  BY <1>1, ExportInvHolds, PTL DEF ExportSpec, ExportKeepsLog

\* Sorting carries a set of places to as many places.
LEMMA PlacesMoved ==
  ASSUME NEW n \in Nat, NEW perm \in Bijection(1..n, 1..n), NEW C \in SUBSET (1..n)
  PROVE  LET D == {j \in 1..n : perm[j] \in C}
         IN  /\ Cardinality(D) = Cardinality(C)
             /\ \A k \in C : \E j \in D : perm[j] = k
<1> DEFINE N == 1..n
           D == {j \in N : perm[j] \in C}
           f == [j \in D |-> perm[j]]
<1>1. IsFiniteSet(C)
  <2>1. IsFiniteSet(1..n)
    BY FS_Interval
  <2> QED
    BY <2>1, FS_Subset
<1> HIDE DEF N
<1>2. perm \in [N -> N] /\ (\A i, j \in N : perm[i] = perm[j] => i = j) /\ \A k \in N : \E j \in N : perm[j] = k
  <2>1. perm \in Bijection(N, N)
    BY DEF N
  <2> QED
    BY <2>1, Fun_BijectionProperties
<1>3. C \subseteq N
  BY DEF N
<1>4. \A k \in C : \E j \in D : perm[j] = k
  BY <1>2, <1>3
<1>5. f \in Bijection(D, C)
  <2>1. f \in [D -> C]
    OBVIOUS
  <2>2. \A i, j \in D : f[i] = f[j] => i = j
    BY <1>2
  <2>3. \A k \in C : \E j \in D : f[j] = k
    BY <1>4
  <2> HIDE DEF f, D
  <2> QED
    BY <2>1, <2>2, <2>3, Fun_IsBij
<1>6. ExistsBijection(D, C)
  BY <1>5, Fun_ExistsBij
<1>7. Cardinality(D) = Cardinality(C)
  <2>1. ExistsBijection(C, D)
    BY <1>6, Fun_ExistsBijSymmetric
  <2> QED
    BY <1>1, <2>1, FS_Bijection
<1> QED
  BY <1>4, <1>7 DEF N

\* What is checked, when the list shows the log as it is
LEMMA CheckedRecords ==
  ASSUME ExportTypeInv, NEW d \in Dialog, list[d].ids = IdsOf(recs)
  PROVE  /\ list[d].checked \in SUBSET (1..nbrrecs)
         /\ Chosen(d) = {slots[i].id : i \in list[d].checked}
<1>1. IdsOf(recs) = [i \in 1..nbrrecs |-> slots[i].id]
  BY RecsType DEF IdsOf, recs
<1>2. list[d].checked \subseteq 1..nbrrecs
  BY <1>1 DEF ExportTypeInv
<1> QED
  BY <1>1, <1>2 DEF Chosen

\* The lines of a text file, when nothing was marked before
LEMMA TextLinesAre ==
  ASSUME ExportTypeInv, NEW C \in SUBSET (1..nbrrecs), \A i \in 1..nbrrecs : ~slots[i].mark,
         WriteText(C, TRUE)
  PROVE  output' = [i \in C |-> slots[i].id]
<1>1. 1..nbrrecs \subseteq 1..MaxSlots
  BY RecsType DEF ExportTypeInv
<1>2. /\ \A i \in 1..nbrrecs : Marked(C)[i].mark <=> i \in C
      /\ \A i \in C : Marked(C)[i].id = slots[i].id
  BY <1>1, MarkedSlots
<1>3. output' = Lines(Marked(C), nbrrecs)
  BY DEF WriteText
<1>4. {j \in 1..nbrrecs : Marked(C)[j].mark} = C
  BY <1>2
<1> QED
  BY <1>2, <1>3, <1>4 DEF Lines

\* The lines of a report that is finished: each checked record, where sorting has put it
LEMMA ReportLinesAre ==
  ASSUME ExportTypeInv, NEW C \in SUBSET (1..nbrrecs), \A i \in 1..nbrrecs : ~slots[i].mark,
         NEW dates, WriteCabrillo(C, TRUE, dates), ~died'
  PROVE  /\ {output'[k] : k \in DOMAIN output'} = {slots[i].id : i \in C}
         /\ Cardinality(DOMAIN output') = Cardinality(C)
<1> DEFINE m == Marked(C)
<1>1. 1..nbrrecs \subseteq 1..MaxSlots /\ nbrrecs \in Nat
  BY RecsType DEF ExportTypeInv
<1>2. /\ m \in [1..MaxSlots -> Slot]
      /\ \A i \in 1..nbrrecs : m[i].id = slots[i].id /\ (m[i].mark <=> i \in C)
  BY <1>1, MarkedSlots
<1>3. PICK t \in Sorted("DATE", reverse, First(m, nbrrecs)) : Report(m, t, dates)
  BY DEF WriteCabrillo
<1> HIDE DEF m
<1>4. First(m, nbrrecs) = [i \in 1..nbrrecs |-> m[i]]
      /\ First(m, nbrrecs) \in [1..nbrrecs -> Slot]
  BY <1>1, <1>2 DEF First
<1>5. PICK perm \in Bijection(1..nbrrecs, 1..nbrrecs) :
        t = [i \in 1..nbrrecs |-> First(m, nbrrecs)[perm[i]]]
  <2> DEFINE s == First(m, nbrrecs)
  <2>1. s \in [1..nbrrecs -> Slot] /\ t \in Sorted("DATE", reverse, s)
    BY <1>3, <1>4
  <2> HIDE DEF s
  <2>2. \E perm \in Bijection(1..nbrrecs, 1..nbrrecs) : t = [i \in 1..nbrrecs |-> s[perm[i]]]
    BY <1>1, <2>1, SortedRecords
  <2> QED
    BY <2>2 DEF s
<1>6. \A i \in 1..nbrrecs : perm[i] \in 1..nbrrecs
  <2> DEFINE N == 1..nbrrecs
  <2>1. perm \in Bijection(N, N)
    BY <1>5
  <2> HIDE DEF N
  <2>2. perm \in [N -> N]
    BY <2>1, Fun_BijectionProperties
  <2> QED
    BY <2>2 DEF N
<1>7. \A i \in 1..nbrrecs : t[i].id = slots[perm[i]].id /\ (t[i].mark <=> perm[i] \in C)
  BY <1>2, <1>4, <1>5, <1>6
<1>8. output' = Lines(t, nbrrecs)
  <2> DEFINE fatal == {i \in 1..nbrrecs : Throws(t[i], dates)}
             upto == IF fatal = {} THEN nbrrecs
                     ELSE (CHOOSE i \in fatal : \A j \in fatal : i <= j) - 1
  <2>1. output' = Lines(t, upto) /\ died' = (fatal # {})
    BY <1>3 DEF Report
  <2> QED
    BY <2>1
<1> DEFINE D == {j \in 1..nbrrecs : perm[j] \in C}
<1>9. {j \in 1..nbrrecs : t[j].mark} = D
  BY <1>7
<1>10. output' = [i \in D |-> slots[perm[i]].id]
  BY <1>7, <1>8, <1>9 DEF Lines
<1>11. Cardinality(D) = Cardinality(C) /\ \A k \in C : \E j \in D : perm[j] = k
  BY <1>1, <1>5, PlacesMoved
<1>12. {output'[k] : k \in DOMAIN output'} = {slots[i].id : i \in C}
  <2>1. {output'[k] : k \in DOMAIN output'} = {slots[perm[j]].id : j \in D}
    BY <1>10
  <2>2. \A j \in D : perm[j] \in C
    OBVIOUS
  <2> HIDE DEF D
  <2>3. {slots[perm[j]].id : j \in D} = {slots[i].id : i \in C}
    BY <1>11, <2>2, Zenon
  <2> QED
    BY <2>1, <2>3
<1> QED
  BY <1>10, <1>11, <1>12

\* What is checked is written, each record once and no other, as long as the log is still
\* the one the list shows: also by a report, which sorts the log between marking and
\* writing, and whichever order qsort leaves.
THEOREM ChosenIsWritten == ExportSpec => WritesWhatIsChecked
<1> DEFINE A(d) == /\ FileChosen(d, TRUE) /\ ~died'
                   /\ list[d].ids = IdsOf(recs) /\ \A i \in 1..nbrrecs : ~slots[i].mark
                   => /\ {output'[k] : k \in DOMAIN output'} = Chosen(d)
                      /\ Cardinality(DOMAIN output') = Cardinality(list[d].checked)
<1>1. ExportInv => \A d \in Dialog : A(d)
  <2> SUFFICES ASSUME ExportTypeInv, NEW d \in Dialog, FileChosen(d, TRUE), ~died',
                      list[d].ids = IdsOf(recs), \A i \in 1..nbrrecs : ~slots[i].mark
               PROVE  /\ {output'[k] : k \in DOMAIN output'} = Chosen(d)
                      /\ Cardinality(DOMAIN output') = Cardinality(list[d].checked)
    BY DEF ExportInv
  <2> DEFINE C == list[d].checked
  <2>1. C \in SUBSET (1..nbrrecs) /\ Chosen(d) = {slots[i].id : i \in C}
    BY CheckedRecords
  <2>2. CASE d = "wCabrillo"
    <3>1. PICK dates \in BOOLEAN : WriteCabrillo(C, TRUE, dates)
      BY <2>2 DEF FileChosen
    <3> HIDE DEF C
    <3>2. /\ {output'[k] : k \in DOMAIN output'} = {slots[i].id : i \in C}
          /\ Cardinality(DOMAIN output') = Cardinality(C)
      BY <2>1, <3>1, ReportLinesAre
    <3> QED
      BY <2>1, <3>2 DEF C
  <2>3. CASE d # "wCabrillo"
    <3>1. WriteADIF(C, TRUE) \/ WriteText(C, TRUE)
      BY <2>3 DEF FileChosen
    <3> HIDE DEF C
    <3>2. output' = [i \in C |-> slots[i].id]
      BY <2>1, <3>1, TextLinesAre DEF WriteADIF
    <3>3. DOMAIN output' = C /\ {output'[k] : k \in DOMAIN output'} = {slots[i].id : i \in C}
      BY <3>2
    <3> QED
      BY <2>1, <3>3 DEF C
  <2> QED
    BY <2>2, <2>3
<1> QED
  BY <1>1, ExportInvHolds, PTL DEF ExportSpec, WritesWhatIsChecked

-----------------------------------------------------------------------------
(* AdifText: searches *)

\* The order of the numbers as a relation, as the theorem on least elements asks for it
LEMMA LessAsRelation == \A x, y \in Nat : x < y => <<x, y>> \in OpToRel(<, Nat)
BY Zenon DEF OpToRel

\* Of positions found there is a first one.
LEMMA FirstIsLeast ==
  ASSUME NEW S \in SUBSET Nat, S # {}
  PROVE  Min(S) \in S /\ \A y \in S : Min(S) <= y
<1>1. PICK x \in S : \A y \in S : ~(<<y, x>> \in OpToRel(<, Nat))
  BY WFMin, NatLessThanWellFounded, Zenon
<1>2. \A y \in S : x <= y
  <2>1. SUFFICES ASSUME NEW y \in S PROVE ~(y < x)
    BY SMT
  <2> QED
    BY <1>1, LessAsRelation, Zenon
<1> QED
  BY <1>2 DEF Min

\* Next_lt finds the first '<' from a position on, if there is one.
LEMMA NextLtFinds ==
  ASSUME NEW text \in Seq(Token), NEW from \in Nat
  PROVE  /\ Next_lt(text, from) \in 0..Len(text)
         /\ Next_lt(text, from) # 0 => Next_lt(text, from) >= from /\ Begins(text[Next_lt(text, from)])
         /\ \A q \in DOMAIN text : q >= from /\ Begins(text[q]) =>
              Next_lt(text, from) # 0 /\ Next_lt(text, from) <= q
<1> DEFINE s == {i \in DOMAIN text : i >= from /\ Begins(text[i])}
<1>1. DOMAIN text = 1..Len(text) /\ Len(text) \in Nat
  BY LenProperties
<1>2. s \in SUBSET Nat
  BY <1>1
<1>3. Next_lt(text, from) = IF s = {} THEN 0 ELSE Min(s)
  BY DEF Next_lt
<1>4. s # {} => Min(s) \in s /\ \A y \in s : Min(s) <= y
  BY <1>2, FirstIsLeast
<1>5. \A i : i \in s <=> i \in DOMAIN text /\ i >= from /\ Begins(text[i])
  OBVIOUS
<1> HIDE DEF s
<1> QED
  BY <1>1, <1>3, <1>4, <1>5

\* FirstOf finds the first of the tokens, if there is one.
LEMMA FirstOfFinds ==
  ASSUME NEW text \in Seq(Token), NEW tokens
  PROVE  /\ FirstOf(text, tokens) \in 0..Len(text)
         /\ FirstOf(text, tokens) # 0 => text[FirstOf(text, tokens)] \in tokens
         /\ \A q \in DOMAIN text : text[q] \in tokens =>
              FirstOf(text, tokens) # 0 /\ FirstOf(text, tokens) <= q
<1> DEFINE s == Firsts(text, tokens)
<1>1. DOMAIN text = 1..Len(text) /\ Len(text) \in Nat
  BY LenProperties
<1>2. s \in SUBSET Nat /\ s = {i \in DOMAIN text : text[i] \in tokens}
  BY <1>1 DEF Firsts
<1>3. FirstOf(text, tokens) = IF s = {} THEN 0 ELSE Min(s)
  BY DEF FirstOf
<1>4. s # {} => Min(s) \in s /\ \A y \in s : Min(s) <= y
  BY <1>2, FirstIsLeast
<1>5. \A i : i \in s <=> i \in DOMAIN text /\ text[i] \in tokens
  BY <1>2
<1> HIDE DEF s
<1> QED
  BY <1>1, <1>3, <1>4, <1>5

-----------------------------------------------------------------------------
(* AdifText: the fields and their names *)

\* The table of fields
LEMMA FieldTable ==
  /\ DOMAIN fields = 1..4 /\ Field = {"CALL", "TIME_ON", "NOTES", "STATION_CALLSIGN"}
  /\ fields[1] = "CALL" /\ fields[2] = "TIME_ON" /\ fields[3] = "NOTES"
  /\ fields[4] = "STATION_CALLSIGN"
BY DEF fields, Field, ToSet

\* Each field of the table is at one place.
LEMMA FieldPlaces ==
  /\ \A i \in 1..4 : fields[i] \in Field
  /\ \A f \in Field : \E i \in 1..4 : f = fields[i]
  /\ \A i, j \in 1..4 : fields[i] = fields[j] => i = j
<1>1. \A i \in 1..4 : i = 1 \/ i = 2 \/ i = 3 \/ i = 4
  OBVIOUS
<1> QED
  BY <1>1, FieldTable

\* A sequence of one piece is part of another one if they are the same.
LEMMA OnePiece ==
  ASSUME NEW S, NEW x \in S, NEW y \in S
  PROVE  IsPart(<<x>>, <<y>>) <=> x = y
<1> DEFINE s == <<x>>  t == <<y>>
<1>1. s \in Seq(S) /\ t \in Seq(S) /\ Len(s) = 1 /\ Len(t) = 1 /\ s[1] = x /\ t[1] = y
  OBVIOUS
<1>2. s = t <=> x = y
  OBVIOUS
<1> HIDE DEF s, t
<1>3. SubSeq(t, 1, 1) = t
  BY <1>1
<1>4. 0..(1 - 1) = {0} /\ 0 + 1 = 1
  OBVIOUS
<1>5. IsPart(s, t) <=> SubSeq(t, 0 + 1, 0 + 1) = s
  BY <1>1, <1>4 DEF IsPart
<1>6. IsPart(s, t) <=> x = y
  BY <1>2, <1>3, <1>4, <1>5
<1> QED
  BY <1>6 DEF s, t

\* A sequence is part of itself.
LEMMA PartOfItself ==
  ASSUME NEW S, NEW s \in Seq(S)
  PROVE  IsPart(s, s)
<1>1. Len(s) \in Nat /\ 0 \in 0..(Len(s) - Len(s)) /\ 0 + Len(s) = Len(s) /\ 0 + 1 = 1
  OBVIOUS
<1>2. SubSeq(s, 1, Len(s)) = s
  OBVIOUS
<1> QED
  BY <1>1, <1>2 DEF IsPart

\* findfield finds the fields of the table by their names: the one whose name is in
\* another field's name comes first.
LEMMA FindsTheField == \A i \in 1..4 : findfield(fields[i]) = fields[i]
<1> DEFINE Piece == {"CALL", "TIME_ON", "NOTES", "STATION_", "SIG", "N"}
<1>1. /\ Pieces["CALL"] = <<"CALL">> /\ Pieces["TIME_ON"] = <<"TIME_ON">>
      /\ Pieces["NOTES"] = <<"NOTES">>
      /\ Pieces["STATION_CALLSIGN"] = <<"STATION_", "CALL", "SIG", "N">>
  BY DEF Pieces
<1>2. \A x : Has(x) = {i \in 1..4 : IsPart(Pieces[x], Pieces[fields[i]])}
  BY FieldTable DEF Has
<1>3. \A i \in 1..4 : Pieces[fields[i]] \in Seq(Piece)
  <2>1. /\ <<"CALL">> \in Seq(Piece) /\ <<"TIME_ON">> \in Seq(Piece) /\ <<"NOTES">> \in Seq(Piece)
        /\ <<"STATION_", "CALL", "SIG", "N">> \in Seq(Piece)
    OBVIOUS
  <2>2. \A i \in 1..4 : i = 1 \/ i = 2 \/ i = 3 \/ i = 4
    OBVIOUS
  <2> HIDE DEF Piece
  <2> QED
    BY <1>1, <2>1, <2>2, FieldTable
<1> HIDE DEF Piece
<1>4. \A i \in 1..4 : i \in Has(fields[i])
  BY <1>2, <1>3, PartOfItself
<1>5. \A i, j \in 1..4 : j < i => j \notin Has(fields[i])
  <2>1. 1 \notin Has(fields[2]) /\ 1 \notin Has(fields[3]) /\ 2 \notin Has(fields[3])
    <3>1. /\ ~IsPart(<<"TIME_ON">>, <<"CALL">>) /\ ~IsPart(<<"NOTES">>, <<"CALL">>)
          /\ ~IsPart(<<"NOTES">>, <<"TIME_ON">>)
      <4>1. "CALL" \in Piece /\ "TIME_ON" \in Piece /\ "NOTES" \in Piece
        BY DEF Piece
      <4> HIDE DEF Piece
      <4>2. /\ IsPart(<<"TIME_ON">>, <<"CALL">>) <=> "TIME_ON" = "CALL"
            /\ IsPart(<<"NOTES">>, <<"CALL">>) <=> "NOTES" = "CALL"
            /\ IsPart(<<"NOTES">>, <<"TIME_ON">>) <=> "NOTES" = "TIME_ON"
        BY <4>1, OnePiece
      <4> QED
        BY <4>2
    <3> QED
      BY <1>1, <1>2, <3>1, FieldTable
  <2>2. \A j \in 1..3 : j \notin Has(fields[4])
    <3>1. \A y : ~IsPart(<<"STATION_", "CALL", "SIG", "N">>, <<y>>)
      BY DEF IsPart
    <3> QED
      BY <1>1, <1>2, <3>1, FieldTable
  <2>3. \A i, j \in 1..4 : j < i => (i = 4 /\ j \in 1..3) \/ (i = 3 /\ j \in 1..2) \/ (i = 2 /\ j = 1)
    <3>1. \A i \in 1..4 : i = 1 \/ i = 2 \/ i = 3 \/ i = 4
      OBVIOUS
    <3> QED
      BY <3>1
  <2>4. \A j \in 1..2 : j = 1 \/ j = 2
    OBVIOUS
  <2> QED
    BY <2>1, <2>2, <2>3, <2>4
<1>6. ASSUME NEW i \in 1..4 PROVE findfield(fields[i]) = fields[i]
  <2>1. Has(fields[i]) \in SUBSET Nat /\ Has(fields[i]) # {} /\ Has(fields[i]) \subseteq 1..4
    BY <1>2, <1>4
  <2>2. Min(Has(fields[i])) \in Has(fields[i]) /\ Min(Has(fields[i])) <= i
    BY <1>4, <2>1, FirstIsLeast
  <2>3. Min(Has(fields[i])) \in 1..4
    BY <2>1, <2>2
  <2>4. Min(Has(fields[i])) = i
    BY <1>5, <2>2, <2>3
  <2> QED
    BY <2>1, <2>4 DEF findfield
<1> QED
  BY <1>6

\* What findfield finds is a field of the table.
LEMMA FindsAField ==
  /\ NoField \notin Field
  /\ \A name : findfield(name) # NoField => findfield(name) \in Field
<1>1. NoField \notin Field
  BY FieldTable DEF NoField
<1>2. ASSUME NEW name, Has(name) # {} PROVE fields[Min(Has(name))] \in Field
  <2>1. Has(name) \subseteq 1..4 /\ Has(name) \in SUBSET Nat
    BY FieldTable DEF Has
  <2>2. Min(Has(name)) \in 1..4
    BY <1>2, <2>1, FirstIsLeast
  <2> QED
    BY <2>2, FieldPlaces
<1> QED
  BY <1>1, <1>2 DEF findfield

-----------------------------------------------------------------------------
(* AdifText: the text of a record *)

\* The field of another program
Lead(s) == FieldText(s.before.name, s.before.value)

Value(s, i) == s.rec[fields[i]]

\* How far the text of a record is when its first i fields are written
Off(s, i) ==
  LET L(n) == IF n <= i THEN Len(Part(s.rec, n)) ELSE 0
  IN  Len(Lead(s)) + L(1) + L(2) + L(3) + L(4)

\* A record has a text of characters for each field.
LEMMA SourceType ==
  ASSUME NEW s \in Source
  PROVE  /\ \A i \in 1..4 : Value(s, i) \in Seq(Token)
         /\ \A f \in Field : s.rec[f] \in Seq(Token)
         /\ s.rec \in [Field -> Seq(Token)]
         /\ s.before \in Foreign /\ s.before.name \in DOMAIN Pieces /\ s.before.value \in Seq(Token)
         /\ s.end \in {Eor, eor}
<1>1. PICK r \in [Field -> UNION {Values[f] : f \in Field}], b \in Foreign, e \in {Eor, eor} :
        s = [rec |-> r, before |-> b, end |-> e] /\ \A f \in Field : r[f] \in Values[f]
  BY DEF Source
<1>2. \A f \in Field : r[f] \in Seq(Token)
  BY <1>1, TextAssumption
<1>3. s.rec = r /\ s.before = b /\ s.end = e
  BY <1>1
<1> QED
  BY <1>2, <1>3, FieldPlaces, TextAssumption DEF Value

\* The text of a field: its tag and its value, nothing if it is empty
LEMMA FieldTextIs ==
  ASSUME NEW name \in DOMAIN Pieces, NEW value \in Seq(Token)
  PROVE  /\ FieldText(name, value) \in Seq(Token)
         /\ value = <<>> => Len(FieldText(name, value)) = 0
         /\ value # <<>> => /\ Len(FieldText(name, value)) = Len(value) + 1
                            /\ FieldText(name, value)[1] = Tag(name, Len(value))
                            /\ \A k \in 1..Len(value) : FieldText(name, value)[k + 1] = value[k]
<1>1. Tag(name, Len(value)) \in Token /\ Len(value) \in Nat
  BY DEF Tag, Token
<1>2. <<Tag(name, Len(value))>> \in Seq(Token) /\ Len(<<Tag(name, Len(value))>>) = 1
      /\ <<Tag(name, Len(value))>>[1] = Tag(name, Len(value))
  BY <1>1
<1> DEFINE t == <<Tag(name, Len(value))>>
<1> HIDE DEF t
<1>3. /\ t \o value \in Seq(Token) /\ Len(t \o value) = Len(value) + 1
      /\ (t \o value)[1] = t[1]
      /\ \A k \in 1..Len(value) : (t \o value)[k + 1] = value[k]
  BY <1>1, <1>2, ConcatProperties DEF t
<1>4. <<>> \in Seq(Token) /\ Len(<<>>) = 0
  OBVIOUS
<1>5. FieldText(name, value) = IF value = <<>> THEN <<>> ELSE t \o value
  BY DEF FieldText, t
<1>6. t[1] = Tag(name, Len(value))
  BY <1>2 DEF t
<1> QED
  BY <1>3, <1>4, <1>5, <1>6

\* The parts of a text are sequences, and their ends follow each other.
LEMMA OffSteps ==
  ASSUME NEW s \in Source
  PROVE  /\ Lead(s) \in Seq(Token) /\ Off(s, 0) = Len(Lead(s)) /\ Off(s, 0) \in Nat
         /\ \A i \in 1..4 : /\ Part(s.rec, i) \in Seq(Token) /\ Off(s, i) \in Nat
                            /\ Off(s, i) = Off(s, i - 1) + Len(Part(s.rec, i))
         /\ \A i, j \in 0..4 : i <= j => Off(s, i) <= Off(s, j)
<1>1. Lead(s) \in Seq(Token)
  BY SourceType, FieldTextIs DEF Lead
<1>2. \A i \in 1..4 : Part(s.rec, i) \in Seq(Token)
  <2>1. \A f \in Field : f \in DOMAIN Pieces
    BY FieldTable DEF Pieces
  <2> QED
    BY <2>1, SourceType, FieldPlaces, FieldTextIs DEF Part, Value
<1> DEFINE b == Len(Lead(s))  L(n) == Len(Part(s.rec, n))
<1>3. b \in Nat /\ L(1) \in Nat /\ L(2) \in Nat /\ L(3) \in Nat /\ L(4) \in Nat
  BY <1>1, <1>2
<1>4. /\ Off(s, 0) = b /\ Off(s, 1) = b + L(1) /\ Off(s, 2) = b + L(1) + L(2)
      /\ Off(s, 3) = b + L(1) + L(2) + L(3) /\ Off(s, 4) = b + L(1) + L(2) + L(3) + L(4)
  BY <1>3 DEF Off
<1>5. \A i \in 0..4 : i = 0 \/ i \in 1..4
  OBVIOUS
<1>6. \A i \in 1..4 : i = 1 \/ i = 2 \/ i = 3 \/ i = 4
  OBVIOUS
<1>7. \A i \in 1..4 : Off(s, i) \in Nat /\ Off(s, i) = Off(s, i - 1) + L(i)
  BY <1>3, <1>4, <1>6, SMTT(60)
<1>8. \A i, j \in 0..4 : i <= j => Off(s, i) <= Off(s, j)
  BY <1>3, <1>4, <1>5, <1>6
<1> QED
  BY <1>1, <1>2, <1>3, <1>4, <1>7, <1>8

\* Each of the places is a number.
LEMMA OffNat ==
  ASSUME NEW s \in Source
  PROVE  /\ \A i \in 0..4 : Off(s, i) \in Nat
         /\ \A i \in 1..4 : Off(s, i - 1) \in Nat
<1>1. \A i \in 0..4 : i = 0 \/ i \in 1..4
  OBVIOUS
<1>2. \A i \in 0..4 : Off(s, i) \in Nat
  BY <1>1, OffSteps
<1>3. \A i \in 1..4 : i - 1 \in 0..4
  OBVIOUS
<1> QED
  BY <1>2, <1>3

\* What is where when two texts follow each other
LEMMA Behind ==
  ASSUME NEW a \in Seq(Token), NEW b \in Seq(Token), NEW c, c = a \o b
  PROVE  /\ c \in Seq(Token) /\ Len(c) = Len(a) + Len(b)
         /\ Len(a) \in Nat /\ Len(b) \in Nat /\ Len(c) \in Nat
         /\ \A k \in 1..Len(a) : k \in 1..Len(c) /\ c[k] = a[k]
         /\ \A k \in 1..Len(b) : Len(a) + k \in 1..Len(c) /\ c[Len(a) + k] = b[k]
<1>1. Len(a) \in Nat /\ Len(b) \in Nat
  OBVIOUS
<1>2. c \in Seq(Token) /\ Len(c) = Len(a) + Len(b)
      /\ \A i \in 1..(Len(a) + Len(b)) : c[i] = IF i <= Len(a) THEN a[i] ELSE b[i - Len(a)]
  BY ConcatProperties
<1>3. ASSUME NEW k \in 1..Len(a) PROVE k \in 1..Len(c) /\ c[k] = a[k]
  BY <1>1, <1>2, <1>3
<1>4. ASSUME NEW k \in 1..Len(b) PROVE Len(a) + k \in 1..Len(c) /\ c[Len(a) + k] = b[k]
  <2>1. Len(a) + k \in 1..Len(c) /\ ~(Len(a) + k <= Len(a)) /\ (Len(a) + k) - Len(a) = k
    BY <1>1, <1>2, <1>4
  <2> QED
    BY <1>2, <2>1
<1> QED
  BY <1>1, <1>2, <1>3, <1>4, LenProperties

\* c stands in t behind the place o
Stands(c, t, o) == \A k \in 1..Len(c) : t[o + k] = c[k]

\* ... and when that is within a third from a place on
LEMMA BehindWithin ==
  ASSUME NEW a \in Seq(Token), NEW b \in Seq(Token), NEW c, c = a \o b,
         NEW t, NEW o \in Nat, Stands(c, t, o), NEW q, q = o + Len(a)
  PROVE  Stands(a, t, o) /\ Stands(b, t, q)
<1>1. /\ Len(a) \in Nat
      /\ \A k \in 1..Len(a) : k \in 1..Len(c) /\ c[k] = a[k]
      /\ \A k \in 1..Len(b) : Len(a) + k \in 1..Len(c) /\ c[Len(a) + k] = b[k]
  BY Behind
<1>2. \A k \in 1..Len(b) : t[o + (Len(a) + k)] = b[k]
  BY <1>1, Zenon DEF Stands
<1>3. \A k \in 1..Len(b) : o + (Len(a) + k) = q + k
  BY <1>1
<1>4. \A k \in 1..Len(b) : t[q + k] = b[k]
  BY <1>2, <1>3
<1>5. \A k \in 1..Len(a) : t[o + k] = a[k]
  BY <1>1, Zenon DEF Stands
<1> QED
  BY <1>4, <1>5 DEF Stands

\* The text of a record: the field of another program, the fields, the end.
LEMMA TextParts ==
  ASSUME NEW s \in Source
  PROVE  /\ TextOf(s) \in Seq(Token) /\ Len(TextOf(s)) = Off(s, 4) + 1
         /\ TextOf(s)[Off(s, 4) + 1] = s.end
         /\ \A k \in 1..Off(s, 0) : TextOf(s)[k] = Lead(s)[k]
         /\ \A i \in 1..4 : \A k \in 1..Len(Part(s.rec, i)) :
              TextOf(s)[Off(s, i - 1) + k] = Part(s.rec, i)[k]
<1>1. PICK b0, b1, b2, b3, b4, e :
        b0 = Lead(s) /\ b1 = Part(s.rec, 1) /\ b2 = Part(s.rec, 2) /\ b3 = Part(s.rec, 3)
        /\ b4 = Part(s.rec, 4) /\ e = <<s.end>>
  OBVIOUS
<1>2. PICK t4 : t4 = b4 \o e
  OBVIOUS
<1>3. PICK t3 : t3 = b3 \o t4
  OBVIOUS
<1>4. PICK t2 : t2 = b2 \o t3
  OBVIOUS
<1>5. PICK t1 : t1 = b1 \o t2
  OBVIOUS
<1>6. PICK t : t = b0 \o t1
  OBVIOUS
<1>7. /\ b0 \in Seq(Token) /\ b1 \in Seq(Token) /\ b2 \in Seq(Token) /\ b3 \in Seq(Token)
      /\ b4 \in Seq(Token)
  BY <1>1, OffSteps
<1>8. e \in Seq(Token) /\ Len(e) = 1 /\ e[1] = s.end
  <2>1. s.end \in Token
    BY SourceType DEF Token
  <2> QED
    BY <1>1, <2>1
<1>9. t = TextOf(s)
  BY <1>1, <1>2, <1>3, <1>4, <1>5, <1>6 DEF TextOf, adif_record, Lead
<1>15. /\ Len(b0) \in Nat /\ Len(b1) \in Nat /\ Len(b2) \in Nat /\ Len(b3) \in Nat
       /\ Len(b4) \in Nat
  BY <1>7, LenProperties
<1>10. t4 \in Seq(Token) /\ Len(t4) = Len(b4) + Len(e) /\ Len(t4) \in Nat
  <2>1. e \in Seq(Token)
    BY <1>8
  <2> QED
    BY <1>2, <1>7, <2>1, Behind
<1>11. t3 \in Seq(Token) /\ Len(t3) = Len(b3) + Len(t4) /\ Len(t3) \in Nat
  BY <1>3, <1>7, <1>10, Behind
<1>12. t2 \in Seq(Token) /\ Len(t2) = Len(b2) + Len(t3) /\ Len(t2) \in Nat
  BY <1>4, <1>7, <1>11, Behind
<1>13. t1 \in Seq(Token) /\ Len(t1) = Len(b1) + Len(t2) /\ Len(t1) \in Nat
  BY <1>5, <1>7, <1>12, Behind
<1>14. t \in Seq(Token) /\ Len(t) = Len(b0) + Len(t1) /\ Len(t) \in Nat
  BY <1>6, <1>7, <1>13, Behind
<1>16. /\ Off(s, 0) = Len(b0) /\ Off(s, 1) = Off(s, 0) + Len(b1) /\ Off(s, 2) = Off(s, 1) + Len(b2)
       /\ Off(s, 3) = Off(s, 2) + Len(b3) /\ Off(s, 4) = Off(s, 3) + Len(b4)
       /\ Off(s, 0) \in Nat /\ Off(s, 1) \in Nat /\ Off(s, 2) \in Nat /\ Off(s, 3) \in Nat
       /\ Off(s, 4) \in Nat
  BY <1>1, <1>15 DEF Off
<1>17. Len(t) = Off(s, 4) + 1
  <2>1. Len(t) = Len(b0) + (Len(b1) + (Len(b2) + (Len(b3) + (Len(b4) + 1))))
    BY <1>8, <1>10, <1>11, <1>12, <1>13, <1>14
  <2>2. Off(s, 4) = Len(b0) + Len(b1) + Len(b2) + Len(b3) + Len(b4)
    BY <1>16
  <2> QED
    BY <1>15, <1>16, <2>1, <2>2
<1>20. /\ \A k \in 1..Off(s, 0) : t[k] = b0[k]
       /\ Stands(t1, t, Off(s, 0))
  <2>1. /\ \A k \in 1..Len(b0) : t[k] = b0[k]
        /\ \A k \in 1..Len(t1) : t[Len(b0) + k] = t1[k]
    BY <1>6, <1>7, <1>13, Behind
  <2>2. Len(b0) = Off(s, 0)
    BY <1>16
  <2> QED
    BY <2>1, <2>2, Zenon DEF Stands
<1>21. Stands(b1, t, Off(s, 0)) /\ Stands(t2, t, Off(s, 1))
  <2>1. Off(s, 0) \in Nat /\ Off(s, 1) = Off(s, 0) + Len(b1)
    BY <1>16
  <2>2. b1 \in Seq(Token) /\ t2 \in Seq(Token) /\ t1 = b1 \o t2
    BY <1>5, <1>7, <1>12
  <2> QED
    BY <1>20, <2>1, <2>2, BehindWithin
<1>22. Stands(b2, t, Off(s, 1)) /\ Stands(t3, t, Off(s, 2))
  <2>1. Off(s, 1) \in Nat /\ Off(s, 2) = Off(s, 1) + Len(b2)
    BY <1>16
  <2>2. b2 \in Seq(Token) /\ t3 \in Seq(Token) /\ t2 = b2 \o t3
    BY <1>4, <1>7, <1>11
  <2> QED
    BY <1>21, <2>1, <2>2, BehindWithin
<1>23. Stands(b3, t, Off(s, 2)) /\ Stands(t4, t, Off(s, 3))
  <2>1. Off(s, 2) \in Nat /\ Off(s, 3) = Off(s, 2) + Len(b3)
    BY <1>16
  <2>2. b3 \in Seq(Token) /\ t4 \in Seq(Token) /\ t3 = b3 \o t4
    BY <1>3, <1>7, <1>10
  <2> QED
    BY <1>22, <2>1, <2>2, BehindWithin
<1>24. Stands(b4, t, Off(s, 3)) /\ Stands(e, t, Off(s, 4))
  <2>1. Off(s, 3) \in Nat /\ Off(s, 4) = Off(s, 3) + Len(b4)
    BY <1>16
  <2>2. b4 \in Seq(Token) /\ e \in Seq(Token) /\ t4 = b4 \o e
    BY <1>2, <1>7, <1>8
  <2> QED
    BY <1>23, <2>1, <2>2, BehindWithin
<1>25. t[Off(s, 4) + 1] = s.end
  BY <1>8, <1>24 DEF Stands
<1>27. ASSUME NEW i \in 1..4, NEW k \in 1..Len(Part(s.rec, i))
       PROVE  t[Off(s, i - 1) + k] = Part(s.rec, i)[k]
  <2>1. CASE i = 1
    BY <1>1, <1>21, <1>27, <2>1 DEF Stands
  <2>2. CASE i = 2
    BY <1>1, <1>22, <1>27, <2>2 DEF Stands
  <2>3. CASE i = 3
    BY <1>1, <1>23, <1>27, <2>3 DEF Stands
  <2>4. CASE i = 4
    BY <1>1, <1>24, <1>27, <2>4 DEF Stands
  <2> QED
    BY <2>1, <2>2, <2>3, <2>4
<1> QED
  BY <1>1, <1>9, <1>14, <1>17, <1>20, <1>25, <1>27

\* Tags, ends of records and what begins with '<'
LEMMA Tokens ==
  /\ \A name, n : /\ IsTag(Tag(name, n)) /\ Begins(Tag(name, n)) /\ Tag(name, n) \notin {Eor, eor}
                  /\ Tag(name, n)[2] = name /\ Tag(name, n)[3] = n
  /\ Begins(Eor) /\ Begins(eor) /\ ~IsTag(Eor) /\ ~IsTag(eor) /\ Eor # eor
  /\ \A t : t \in {Eor, eor} => ~IsTag(t) /\ Begins(t)
<1>1. \A name, n : Tag(name, n)[1] = "tag" /\ Tag(name, n)[2] = name /\ Tag(name, n)[3] = n
  BY DEF Tag
<1>2. Eor[1] = "EOR" /\ eor[1] = "eor"
  BY DEF Eor, eor
<1> QED
  BY <1>1, <1>2 DEF IsTag, Begins

\* Where the text of a field is: its tag, and its value behind the tag; nothing if it is empty
LEMMA PartIs ==
  ASSUME NEW s \in Source, NEW i \in 1..4
  PROVE  /\ Value(s, i) \in Seq(Token) /\ Len(Value(s, i)) \in Nat
         /\ Value(s, i) = <<>> => Off(s, i) = Off(s, i - 1)
         /\ Value(s, i) # <<>> =>
              /\ Off(s, i) = Off(s, i - 1) + Len(Value(s, i)) + 1
              /\ TextOf(s)[Off(s, i - 1) + 1] = Tag(fields[i], Len(Value(s, i)))
              /\ \A k \in 1..Len(Value(s, i)) : TextOf(s)[Off(s, i - 1) + 1 + k] = Value(s, i)[k]
<1>1. Value(s, i) \in Seq(Token) /\ fields[i] \in DOMAIN Pieces
  <2>1. \A f \in Field : f \in DOMAIN Pieces
    BY FieldTable DEF Pieces
  <2> QED
    BY <2>1, SourceType, FieldPlaces
<1>2. PICK v, t, o, n : v = Value(s, i) /\ t = Part(s.rec, i) /\ o = Off(s, i - 1) /\ n = fields[i]
  OBVIOUS
<1>3. v \in Seq(Token) /\ n \in DOMAIN Pieces /\ t = FieldText(n, v)
  BY <1>1, <1>2 DEF Part, Value
<1>4. /\ v = <<>> => Len(t) = 0
      /\ v # <<>> => /\ Len(t) = Len(v) + 1 /\ t[1] = Tag(n, Len(v))
                     /\ \A k \in 1..Len(v) : t[k + 1] = v[k]
  BY <1>3, FieldTextIs
<1>5. Len(v) \in Nat
  BY <1>3, LenProperties
<1>6. o \in Nat /\ Off(s, i) = o + Len(t)
  <2>1. i - 1 = 0 \/ i - 1 \in 1..4
    OBVIOUS
  <2> QED
    BY <1>2, <2>1, OffSteps
<1>7. \A k \in 1..Len(t) : TextOf(s)[o + k] = t[k]
  BY <1>2, TextParts
<1>8. CASE v = <<>>
  BY <1>2, <1>3, <1>4, <1>5, <1>6, <1>8
<1>9. CASE v # <<>>
  <2>1. 1 \in 1..Len(t) /\ TextOf(s)[o + 1] = t[1]
    BY <1>4, <1>5, <1>7, <1>9
  <2>2. ASSUME NEW k \in 1..Len(v) PROVE TextOf(s)[o + 1 + k] = v[k]
    <3>1. k + 1 \in 1..Len(t) /\ o + (k + 1) = o + 1 + k
      BY <1>4, <1>5, <1>6, <1>9
    <3>2. TextOf(s)[o + (k + 1)] = t[k + 1]
      BY <1>7, <3>1
    <3> QED
      BY <1>4, <1>9, <3>1, <3>2
  <2>3. Off(s, i) = o + Len(v) + 1
    <3>1. Len(t) = Len(v) + 1
      BY <1>4, <1>9
    <3> QED
      BY <1>5, <1>6, <3>1
  <2> QED
    BY <1>2, <1>3, <1>4, <1>5, <1>9, <2>1, <2>2, <2>3
<1> QED
  BY <1>8, <1>9

\* What is read next when j fields have been: the tag of a field, those between empty, or the end
IsNext(s, j, i) ==
  /\ i \in (j + 1)..4 /\ Value(s, i) # <<>> /\ Off(s, i - 1) = Off(s, j)
  /\ \A l \in (j + 1)..(i - 1) : Value(s, l) = <<>>
NoneIsNext(s, j) == Off(s, j) = Off(s, 4) /\ \A l \in (j + 1)..4 : Value(s, l) = <<>>

\* After j fields, one of the others is next, or none is.
LEMMA SomeIsNext ==
  ASSUME NEW s \in Source, NEW j \in 0..4
  PROVE  NoneIsNext(s, j) \/ \E i \in 1..4 : IsNext(s, j, i)
<1> DEFINE P(n) == NoneIsNext(s, n) \/ \E i \in 1..4 : IsNext(s, n, i)
<1>1. P(4)
  BY DEF NoneIsNext
<1>2. ASSUME NEW n \in 0..3, P(n + 1) PROVE P(n)
  <2>0. n + 1 \in 1..4 /\ (n + 1) - 1 = n
    OBVIOUS
  <2>1. CASE Value(s, n + 1) # <<>>
    <3>1. IsNext(s, n, n + 1)
      BY <2>0, <2>1 DEF IsNext
    <3> QED
      BY <2>0, <3>1
  <2>2. CASE Value(s, n + 1) = <<>>
    <3>1. Off(s, n + 1) = Off(s, n)
      BY <2>0, <2>2, PartIs
    <3>2. ASSUME NoneIsNext(s, n + 1) PROVE NoneIsNext(s, n)
      BY <2>2, <3>1, <3>2 DEF NoneIsNext
    <3>3. ASSUME NEW i \in 1..4, IsNext(s, n + 1, i) PROVE IsNext(s, n, i)
      BY <2>2, <3>1, <3>3 DEF IsNext
    <3> QED
      BY <1>2, <3>2, <3>3
  <2> QED
    BY <2>1, <2>2
<1> HIDE DEF P
<1>3. P(3) /\ P(2) /\ P(1) /\ P(0)
  BY <1>1, <1>2, 3 + 1 = 4, 2 + 1 = 3, 1 + 1 = 2, 0 + 1 = 1
<1>4. j = 0 \/ j = 1 \/ j = 2 \/ j = 3 \/ j = 4
  OBVIOUS
<1> QED
  BY <1>1, <1>3, <1>4 DEF P

\* After j fields there is a '<': the tag of the next one, or the end.
LEMMA BeginsThere ==
  ASSUME NEW s \in Source, NEW j \in 0..4
  PROVE  /\ Off(s, j) + 1 \in 1..Len(TextOf(s)) /\ Begins(TextOf(s)[Off(s, j) + 1])
         /\ NoneIsNext(s, j) => TextOf(s)[Off(s, j) + 1] = s.end
         /\ \A i \in 1..4 : IsNext(s, j, i) =>
              TextOf(s)[Off(s, j) + 1] = Tag(fields[i], Len(Value(s, i)))
<1>1. Len(TextOf(s)) = Off(s, 4) + 1 /\ Off(s, 4) \in Nat /\ Off(s, j) \in Nat /\ Off(s, j) <= Off(s, 4)
  <2>1. Off(s, j) \in Nat
    <3>1. j = 0 \/ j \in 1..4
      OBVIOUS
    <3> QED
      BY <3>1, OffSteps
  <2>2. Off(s, 4) \in Nat /\ Len(TextOf(s)) = Off(s, 4) + 1
    BY TextParts, OffSteps
  <2>3. Off(s, j) <= Off(s, 4)
    <3>1. 4 \in 0..4 /\ j <= 4
      OBVIOUS
    <3> QED
      BY <3>1, OffSteps
  <2> QED
    BY <2>1, <2>2, <2>3
<1>2. ASSUME NoneIsNext(s, j) PROVE TextOf(s)[Off(s, j) + 1] = s.end
  BY <1>2, TextParts DEF NoneIsNext
<1>3. ASSUME NEW i \in 1..4, IsNext(s, j, i)
      PROVE  TextOf(s)[Off(s, j) + 1] = Tag(fields[i], Len(Value(s, i)))
  BY <1>3, PartIs DEF IsNext
<1>4. Begins(TextOf(s)[Off(s, j) + 1])
  BY <1>2, <1>3, SomeIsNext, SourceType, Tokens
<1> QED
  BY <1>1, <1>2, <1>3, <1>4

\* Whatever is in a text is in its front, the tag or the value of a field, or its end.
LEMMA WhatIsWhere ==
  ASSUME NEW s \in Source, NEW q \in 1..Len(TextOf(s))
  PROVE  \/ q \in 1..Off(s, 0)
         \/ q = Off(s, 4) + 1
         \/ \E i \in 1..4 : Value(s, i) # <<>> /\ q = Off(s, i - 1) + 1
         \/ \E i \in 1..4 : \E k \in 1..Len(Value(s, i)) :
              Value(s, i) # <<>> /\ q = Off(s, i - 1) + 1 + k /\ q <= Off(s, i)
<1>1. Len(TextOf(s)) = Off(s, 4) + 1
  BY TextParts
<1>2. /\ Off(s, 0) \in Nat /\ Off(s, 1) \in Nat /\ Off(s, 2) \in Nat /\ Off(s, 3) \in Nat
      /\ Off(s, 4) \in Nat
  BY OffSteps
<1>3. ASSUME NEW i \in 1..4, Off(s, i - 1) < q, q <= Off(s, i)
      PROVE  /\ Value(s, i) # <<>>
             /\ \/ q = Off(s, i - 1) + 1
                \/ \E k \in 1..Len(Value(s, i)) : q = Off(s, i - 1) + 1 + k
  <2>1. Off(s, i - 1) \in Nat /\ Off(s, i) \in Nat
    <3>1. i - 1 = 0 \/ i - 1 \in 1..4
      OBVIOUS
    <3> QED
      BY <3>1, OffSteps
  <2>2. Value(s, i) # <<>> /\ Off(s, i) = Off(s, i - 1) + Len(Value(s, i)) + 1 /\ Len(Value(s, i)) \in Nat
    BY <1>3, <2>1, PartIs
  <2>3. ASSUME q # Off(s, i - 1) + 1
        PROVE  \E k \in 1..Len(Value(s, i)) : q = Off(s, i - 1) + 1 + k
    <3>1. q - Off(s, i - 1) - 1 \in 1..Len(Value(s, i))
      BY <1>3, <2>1, <2>2, <2>3
    <3>2. q = Off(s, i - 1) + 1 + (q - Off(s, i - 1) - 1)
      BY <2>1
    <3> QED
      BY <3>1, <3>2
  <2> QED
    BY <2>2, <2>3
<1>4. \/ q \in 1..Off(s, 0) \/ q = Off(s, 4) + 1
      \/ Off(s, 1 - 1) < q /\ q <= Off(s, 1)
      \/ Off(s, 2 - 1) < q /\ q <= Off(s, 2)
      \/ Off(s, 3 - 1) < q /\ q <= Off(s, 3)
      \/ Off(s, 4 - 1) < q /\ q <= Off(s, 4)
  BY <1>1, <1>2
<1> QED
  BY <1>3, <1>4

\* What a reader passes over before the fields
LEMMA FrontIsPassed ==
  ASSUME NEW s \in Source, Passed(s.before)
  PROVE  /\ \A k \in 1..Off(s, 0) :
              /\ TextOf(s)[k] \notin {Eor, eor}
              /\ IsTag(TextOf(s)[k]) => findfield(TextOf(s)[k][2]) = NoField
         /\ Off(s, 0) # 0 => Begins(TextOf(s)[1])
<1>0. PICK v, n : v = s.before.value /\ n = s.before.name
  OBVIOUS
<1>1. v \in Seq(Token) /\ n \in DOMAIN Pieces /\ Lead(s) = FieldText(n, v)
  BY <1>0, SourceType DEF Lead
<1>2. Len(v) \in Nat /\ DOMAIN v = 1..Len(v)
  BY <1>1, LenProperties
<1>3. Off(s, 0) = Len(Lead(s)) /\ \A k \in 1..Off(s, 0) : TextOf(s)[k] = Lead(s)[k]
  BY TextParts, OffSteps
<1>4. \A k \in 1..Len(v) : v[k] \notin {Eor, eor} /\ ~IsTag(v[k])
  BY <1>0, <1>2 DEF Passed, HasTag, HasEnd
<1>5. findfield(n) = NoField
  BY <1>0 DEF Passed
<1>6. CASE v = <<>>
  <2>1. Off(s, 0) = 0
    BY <1>1, <1>3, <1>6, FieldTextIs
  <2> QED
    BY <2>1
<1>7. CASE v # <<>>
  <2>1. /\ Off(s, 0) = Len(v) + 1 /\ Lead(s)[1] = Tag(n, Len(v))
        /\ \A k \in 1..Len(v) : Lead(s)[k + 1] = v[k]
    <3>1. /\ Len(FieldText(n, v)) = Len(v) + 1 /\ FieldText(n, v)[1] = Tag(n, Len(v))
          /\ \A k \in 1..Len(v) : FieldText(n, v)[k + 1] = v[k]
      BY <1>1, <1>7, FieldTextIs
    <3>2. Off(s, 0) = Len(Lead(s)) /\ Lead(s) = FieldText(n, v)
      BY <1>1, <1>3
    <3> QED
      BY <3>1, <3>2
  <2>2. 1 \in 1..Off(s, 0) /\ TextOf(s)[1] = Tag(n, Len(v))
    BY <1>2, <1>3, <2>1
  <2>3. ASSUME NEW k \in 1..Off(s, 0), k # 1
        PROVE  TextOf(s)[k] \notin {Eor, eor} /\ ~IsTag(TextOf(s)[k])
    <3>1. k - 1 \in 1..Len(v) /\ (k - 1) + 1 = k
      BY <1>2, <2>1, <2>3
    <3>2. TextOf(s)[k] = v[k - 1]
      BY <1>3, <2>1, <3>1
    <3> QED
      BY <1>4, <3>1, <3>2
  <2> QED
    BY <1>5, <2>2, <2>3, Tokens
<1> QED
  BY <1>6, <1>7

-----------------------------------------------------------------------------
(* AdifText: the records that are read *)

\* A function on the first numbers is a sequence.
LEMMA CountedIsSeq ==
  ASSUME NEW S, NEW n \in Nat, NEW e \in [1..n -> S]
  PROVE  e \in Seq(S) /\ Len(e) = n
<1>1. e \in Seq(S)
  BY SeqDef, Zenon
<1>2. DOMAIN e = 1..Len(e) /\ DOMAIN e = 1..n /\ Len(e) \in Nat
  BY <1>1, LenProperties
<1>3. Len(e) = n
  BY <1>2
<1> QED
  BY <1>1, <1>3

\* A list of records, each with the fields of the table
IsRows(qsos) ==
  /\ qsos \in Seq({qsos[i] : i \in DOMAIN qsos})
  /\ \A i \in DOMAIN qsos : qsos[i] = [f \in Field |-> qsos[i][f]]

\* e is d with another value in a field
Puts(d, q, f, v, e) == e = [d EXCEPT ![q][f] = v]

\* Setting a field of a record changes no other one.
LEMMA PutField ==
  ASSUME NEW d, IsRows(d), NEW q \in DOMAIN d, NEW f \in Field, NEW v, NEW e, Puts(d, q, f, v, e)
  PROVE  /\ IsRows(e) /\ Len(e) = Len(d) /\ DOMAIN e = DOMAIN d
         /\ \A i \in DOMAIN d : i # q => e[i] = d[i]
         /\ \A g \in Field : e[q][g] = IF g = f THEN v ELSE d[q][g]
<1>1. DOMAIN d = 1..Len(d) /\ Len(d) \in Nat /\ d = [i \in 1..Len(d) |-> d[i]]
  BY LenProperties DEF IsRows
<1>2. PICK r : r = [d[q] EXCEPT ![f] = v]
  OBVIOUS
<1>3. d[q] = [g \in Field |-> d[q][g]]
  BY DEF IsRows
<1>4. r = [g \in Field |-> IF g = f THEN v ELSE d[q][g]]
  BY <1>2, <1>3
<1>5. e = [d EXCEPT ![q] = r]
  BY <1>2 DEF Puts
<1>6. e = [i \in 1..Len(d) |-> IF i = q THEN r ELSE d[i]]
  BY <1>1, <1>5
<1>7. DOMAIN e = 1..Len(d) /\ e[q] = r /\ \A i \in DOMAIN d : i # q => e[i] = d[i]
  BY <1>1, <1>6
<1>8. e \in Seq({e[i] : i \in DOMAIN e}) /\ Len(e) = Len(d)
  <2>1. PICK S : S = {e[i] : i \in DOMAIN e}
    OBVIOUS
  <2>2. e \in [1..Len(d) -> S]
    BY <1>6, <1>7, <2>1
  <2>3. e \in Seq(S) /\ Len(e) = Len(d)
    BY <1>1, <2>2, CountedIsSeq
  <2> QED
    BY <2>1, <2>3
<1>9. \A g \in Field : e[q][g] = IF g = f THEN v ELSE d[q][g]
  BY <1>4, <1>7
<1>10. ASSUME NEW i \in DOMAIN e PROVE e[i] = [g \in Field |-> e[i][g]]
  <2>1. CASE i = q
    BY <1>4, <1>7, <2>1
  <2>2. CASE i # q
    BY <1>1, <1>7, <1>10, <2>2 DEF IsRows
  <2> QED
    BY <2>1, <2>2
<1> QED
  BY <1>1, <1>7, <1>8, <1>9, <1>10 DEF IsRows

\* A new record is behind the others.
LEMMA NewRow ==
  ASSUME NEW d, IsRows(d), NEW e, e = Append(d, EmptyRec)
  PROVE  /\ IsRows(e) /\ Len(e) = Len(d) + 1 /\ Len(d) \in Nat /\ DOMAIN e = 1..(Len(d) + 1)
         /\ \A i \in 1..Len(d) : e[i] = d[i]
         /\ e[Len(d) + 1] = EmptyRec
<1>1. PICK S : S = {d[i] : i \in DOMAIN d} \cup {EmptyRec}
  OBVIOUS
<1>2. d \in Seq(S) /\ EmptyRec \in S
  <2>1. PICK T : T = {d[i] : i \in DOMAIN d}
    OBVIOUS
  <2>2. d \in Seq(T) /\ T \subseteq S
    BY <1>1, <2>1 DEF IsRows
  <2>3. d \in Seq(S)
    BY <2>2
  <2> QED
    BY <1>1, <2>3
<1>3. /\ e \in Seq(S) /\ Len(e) = Len(d) + 1 /\ Len(d) \in Nat /\ Len(e) \in Nat
      /\ \A i \in 1..Len(d) : e[i] = d[i]
      /\ e[Len(d) + 1] = EmptyRec
  BY <1>2, AppendProperties, LenProperties
<1>4. DOMAIN e = 1..(Len(d) + 1) /\ DOMAIN d = 1..Len(d)
  BY <1>2, <1>3, LenProperties
<1>5. e \in Seq({e[i] : i \in DOMAIN e})
  <2>1. PICK T : T = {e[i] : i \in DOMAIN e}
    OBVIOUS
  <2>2. e \in [1..Len(e) -> T]
    <3>1. e = [i \in 1..Len(e) |-> e[i]]
      BY <1>3, LenProperties
    <3> QED
      BY <1>3, <1>4, <2>1, <3>1
  <2>3. e \in Seq(T)
    BY <1>3, <2>2, CountedIsSeq
  <2> QED
    BY <2>1, <2>3
<1>6. ASSUME NEW i \in DOMAIN e PROVE e[i] = [g \in Field |-> e[i][g]]
  <2>1. CASE i = Len(d) + 1
    BY <1>3, <2>1 DEF EmptyRec
  <2>2. CASE i # Len(d) + 1
    BY <1>3, <1>4, <1>6, <2>2 DEF IsRows
  <2> QED
    BY <2>1, <2>2
<1> QED
  BY <1>3, <1>4, <1>5, <1>6 DEF IsRows

-----------------------------------------------------------------------------
(* AdifText: a client's call *)

\* What the reader keeps of a field
KeptValue(s, i) == IF Value(s, i) = <<>> THEN <<>> ELSE Kept(fields[i], Value(s, i))

\* The records whose calls CallSetsItsFields is about
CallPlain(s) == Passed(s.before) /\ \A i \in 1..4 : ~HasTag(Value(s, i)) /\ ~HasEnd(Value(s, i))

\* The fields whose tags are before n are set, those without a text are left.
CallSet(s, row, n) ==
  \A i \in 1..4 : /\ Value(s, i) = <<>> => row[fields[i]] \in {<<>>, <<Zero>>}
                  /\ Value(s, i) # <<>> /\ Off(s, i - 1) + 1 < n => row[fields[i]] = KeptValue(s, i)

\* A tag in the text of a call is that of a field; an end is that of the record.
LEMMA CallText ==
  ASSUME NEW s \in Source, CallPlain(s), NEW q \in 1..Len(TextOf(s))
  PROVE  /\ IsTag(TextOf(s)[q]) /\ findfield(TextOf(s)[q][2]) # NoField =>
              \E i \in 1..4 : Value(s, i) # <<>> /\ q = Off(s, i - 1) + 1
         /\ TextOf(s)[q] \in {Eor, eor} => q = Off(s, 4) + 1
<1>1. CASE q \in 1..Off(s, 0)
  BY <1>1, FrontIsPassed DEF CallPlain
<1>2. CASE q = Off(s, 4) + 1
  BY <1>2, TextParts, SourceType, Tokens
<1>3. ASSUME NEW i \in 1..4, Value(s, i) # <<>>, q = Off(s, i - 1) + 1
      PROVE  TextOf(s)[q] \notin {Eor, eor}
  BY <1>3, PartIs, Tokens
<1>4. ASSUME NEW i \in 1..4, NEW k \in 1..Len(Value(s, i)), Value(s, i) # <<>>,
             q = Off(s, i - 1) + 1 + k
      PROVE  TextOf(s)[q] \notin {Eor, eor} /\ ~IsTag(TextOf(s)[q])
  <2>1. TextOf(s)[q] = Value(s, i)[k]
    BY <1>4, PartIs
  <2>2. Value(s, i) \in Seq(Token)
    BY PartIs
  <2>3. DOMAIN Value(s, i) = 1..Len(Value(s, i))
    BY <2>2, LenProperties
  <2>4. ~HasTag(Value(s, i)) /\ ~HasEnd(Value(s, i))
    BY DEF CallPlain
  <2> QED
    BY <2>1, <2>3, <2>4 DEF HasTag, HasEnd
<1> QED
  BY <1>1, <1>2, <1>3, <1>4, WhatIsWhere

\* Of two fields with a text, the tag of one is behind the other's.
LEMMA TagsApart ==
  ASSUME NEW s \in Source, NEW i \in 1..4, NEW j \in 1..4, Value(s, i) # <<>>, Value(s, j) # <<>>,
         Off(s, i - 1) = Off(s, j - 1)
  PROVE  i = j
<1>1. ASSUME NEW a \in 1..4, NEW b \in 1..4, a < b, Value(s, a) # <<>>
      PROVE  Off(s, a - 1) # Off(s, b - 1)
  <2>1. Off(s, a) <= Off(s, b - 1)
    <3>1. a \in 0..4 /\ b - 1 \in 0..4 /\ a <= b - 1
      BY <1>1
    <3> QED
      BY <3>1, OffSteps
  <2>2. Off(s, a) = Off(s, a - 1) + Len(Value(s, a)) + 1 /\ Len(Value(s, a)) \in Nat
    BY <1>1, PartIs
  <2>3. Off(s, a - 1) \in Nat /\ Off(s, b - 1) \in Nat
    <3>1. (a - 1 = 0 \/ a - 1 \in 1..4) /\ (b - 1 = 0 \/ b - 1 \in 1..4)
      OBVIOUS
    <3> QED
      BY <3>1, OffSteps
  <2> QED
    BY <2>1, <2>2, <2>3
<1>2. i < j \/ j < i \/ i = j
  OBVIOUS
<1> QED
  BY <1>1, <1>2

\* From a place on there is a '<' where a field begins, and the end.
LEMMA TagsAhead ==
  ASSUME NEW s \in Source, NEW from \in Nat, NEW n, n = Next_lt(TextOf(s), from)
  PROVE  /\ from <= Off(s, 4) + 1 => n \in 1..Len(TextOf(s)) /\ n >= from
         /\ \A i \in 1..4 : Off(s, i - 1) + 1 >= from /\ Value(s, i) # <<>> => n # 0 /\ n <= Off(s, i - 1) + 1
<1>1. TextOf(s) \in Seq(Token) /\ Len(TextOf(s)) = Off(s, 4) + 1 /\ Off(s, 4) \in Nat
  BY TextParts, OffSteps
<1>2. /\ n \in 0..Len(TextOf(s))
      /\ n # 0 => n >= from
      /\ \A q \in 1..Len(TextOf(s)) : q >= from /\ Begins(TextOf(s)[q]) => n # 0 /\ n <= q
  BY <1>1, NextLtFinds, LenProperties
<1>3. Off(s, 4) + 1 \in 1..Len(TextOf(s)) /\ Begins(TextOf(s)[Off(s, 4) + 1])
  BY BeginsThere
<1>4. ASSUME from <= Off(s, 4) + 1 PROVE n # 0
  BY <1>1, <1>2, <1>3, <1>4
<1>5. ASSUME NEW i \in 1..4, Off(s, i - 1) + 1 >= from, Value(s, i) # <<>>
      PROVE  n # 0 /\ n <= Off(s, i - 1) + 1
  <2>1. i - 1 \in 0..4
    OBVIOUS
  <2>2. Off(s, i - 1) + 1 \in 1..Len(TextOf(s)) /\ Begins(TextOf(s)[Off(s, i - 1) + 1])
    BY <2>1, BeginsThere
  <2> QED
    BY <1>2, <1>5, <2>2
<1> QED
  BY <1>1, <1>2, <1>4, <1>5

\* One step of a call's reader: the field whose tag is looked at is set, the others are left.
LEMMA CallStep ==
  ASSUME NEW s \in Source, CallPlain(s), NEW at \in 1..Len(TextOf(s)), TextOf(s)[at] \notin {Eor, eor},
         NEW row, NEW row2, CallSet(s, row, at), NEW n, n = Next_lt(TextOf(s), at + 1),
         \A i \in 1..4 : IF Value(s, i) # <<>> /\ at = Off(s, i - 1) + 1
                         THEN row2[fields[i]] = KeptValue(s, i) ELSE row2[fields[i]] = row[fields[i]]
  PROVE  n \in 1..Len(TextOf(s)) /\ CallSet(s, row2, n)
<1>1. Len(TextOf(s)) = Off(s, 4) + 1 /\ Off(s, 4) \in Nat /\ TextOf(s)[Off(s, 4) + 1] \in {Eor, eor}
  <2>1. Len(TextOf(s)) = Off(s, 4) + 1 /\ TextOf(s)[Off(s, 4) + 1] = s.end
    BY TextParts
  <2>2. s.end \in {Eor, eor}
    BY SourceType
  <2> QED
    BY <2>1, <2>2, OffNat
<1>2. at \in Nat /\ at + 1 \in Nat /\ at + 1 <= Off(s, 4) + 1
  <2>1. at # Off(s, 4) + 1
    BY <1>1
  <2> QED
    BY <1>1, <2>1
<1>3. n \in 1..Len(TextOf(s)) /\ n >= at + 1
  BY <1>2, TagsAhead
<1>4. ASSUME NEW i \in 1..4, Value(s, i) # <<>>, Off(s, i - 1) + 1 < n
      PROVE  row2[fields[i]] = KeptValue(s, i)
  <2>1. Off(s, i - 1) \in Nat
    <3>1. i - 1 = 0 \/ i - 1 \in 1..4
      OBVIOUS
    <3> QED
      BY <3>1, OffSteps
  <2>2. ~(Off(s, i - 1) + 1 >= at + 1)
    <3>1. ASSUME Off(s, i - 1) + 1 >= at + 1 PROVE n <= Off(s, i - 1) + 1
      BY <1>2, <1>4, <3>1, TagsAhead
    <3> QED
      BY <1>3, <1>4, <2>1, <3>1
  <2>3. CASE at = Off(s, i - 1) + 1
    BY <1>4, <2>3
  <2>4. CASE Off(s, i - 1) + 1 < at
    <3>1. row[fields[i]] = KeptValue(s, i)
      BY <1>4, <2>4 DEF CallSet
    <3>2. at # Off(s, i - 1) + 1
      BY <2>1, <2>4
    <3> QED
      BY <3>1, <3>2
  <2> QED
    BY <1>2, <2>1, <2>2, <2>3, <2>4
<1>5. ASSUME NEW i \in 1..4, Value(s, i) = <<>> PROVE row2[fields[i]] \in {<<>>, <<Zero>>}
  BY <1>5 DEF CallSet
<1> QED
  BY <1>3, <1>4, <1>5 DEF CallSet

\* The n tokens behind a place
Following(text, at, n) == SubSeq(text, at + 1, at + n)

\* The value that is read behind the tag of a field is the one that was written.
LEMMA ValueIsRead ==
  ASSUME NEW s \in Source, NEW i \in 1..4, Value(s, i) # <<>>, NEW text, NEW at \in Nat,
         NEW n, n = Len(Value(s, i)), Stands(Value(s, i), text, at)
  PROVE  Following(text, at, n) = Value(s, i)
<1>1. PICK v : v = Value(s, i)
  OBVIOUS
<1>2. v \in Seq(Token) /\ n \in Nat /\ n = Len(v) /\ DOMAIN v = 1..n
  BY <1>1, PartIs, LenProperties
<1>3. \A k \in 1..n : text[at + k] = v[k] /\ v[k] \in Token
  BY <1>1, <1>2, ElementOfSeq DEF Stands
<1>4. \A k \in (at + 1)..(at + n) : text[k] \in Token
  <2>1. ASSUME NEW k \in (at + 1)..(at + n) PROVE text[k] \in Token
    <3>1. k - at \in 1..n /\ at + (k - at) = k
      BY <1>2, <2>1
    <3> QED
      BY <1>3, <3>1
  <2> QED
    BY <2>1
<1>5. PICK a, b, u : a = at + 1 /\ b = at + n /\ u = SubSeq(text, a, b)
  OBVIOUS
<1>6. /\ u \in Seq(Token)
      /\ Len(u) = IF a <= b THEN b - a + 1 ELSE 0
      /\ \A k \in 1..(b - a + 1) : u[k] = text[a + k - 1]
  <2>1. a \in Int /\ b \in Int
    BY <1>2, <1>5
  <2>2. \A k \in a..b : text[k] \in Token
    BY <1>4, <1>5
  <2>3. SubSeq(text, a, b) \in Seq(Token)
    BY <2>1, <2>2, SubSeqProperties
  <2>4. Len(SubSeq(text, a, b)) = IF a <= b THEN b - a + 1 ELSE 0
    BY <2>1, <2>2, SubSeqProperties
  <2>5. \A k \in 1..(b - a + 1) : SubSeq(text, a, b)[k] = text[a + k - 1]
    BY <2>1, <2>2, SubSeqProperties
  <2> QED
    BY <1>5, <2>3, <2>4, <2>5
<1>7. Len(u) = n
  BY <1>2, <1>5, <1>6
<1>8. ASSUME NEW k \in 1..n PROVE u[k] = v[k]
  <2>1. k \in 1..(b - a + 1) /\ a + k - 1 = at + k
    BY <1>2, <1>5, <1>8
  <2> QED
    BY <1>3, <1>6, <2>1
<1>9. u = v
  BY <1>2, <1>6, <1>7, <1>8, SeqEqual
<1> QED
  BY <1>1, <1>5, <1>9 DEF Following

\* The state of a call whose text has no tag or end in a value
CallGoes ==
  /\ adifqso = 1 /\ Len(db) = 1 /\ IsRows(db)
  /\ \/ doing = "call" /\ CallSet(source[1], db[1], 0)
     \/ /\ doing = "fields" /\ sbuff = TextOf(source[1]) /\ ptr \in 1..Len(sbuff)
        /\ CallSet(source[1], db[1], ptr)
     \/ doing = "done" /\ CallSet(source[1], db[1], Off(source[1], 4) + 1)

\* The inductive invariant of the calls
CallInv ==
  /\ call => doing # "write"
  /\ call /\ source # <<>> => source[1] \in Source
  /\ call /\ source # <<>> /\ CallPlain(source[1]) => CallGoes

\* A list of one record
LEMMA OneRow ==
  ASSUME NEW r, r = [f \in Field |-> r[f]]
  PROVE  IsRows(<<r>>) /\ Len(<<r>>) = 1 /\ <<r>>[1] = r
<1>1. PICK d : d = <<r>>
  OBVIOUS
<1>2. Len(d) = 1 /\ d[1] = r /\ DOMAIN d = 1..1
  BY <1>1
<1>3. d \in Seq({r}) /\ {d[i] : i \in DOMAIN d} = {r}
  BY <1>1, <1>2
<1>4. IsRows(d)
  BY <1>2, <1>3 DEF IsRows
<1> QED
  BY <1>1, <1>2, <1>4

\* A call begins with a new record or with one that is there.
LEMMA CallBegins == AdifInit => CallInv
<1> SUFFICES ASSUME AdifInit, call, source # <<>> PROVE source[1] \in Source /\ CallGoes
  <2>1. AdifInit /\ call => doing # "write"
    BY DEF AdifInit
  <2> QED
    BY <2>1 DEF CallInv
<1>1. PICK s \in Source : source = <<s>>
  BY DEF AdifInit
<1>2. source[1] = s
  BY <1>1
<1>3. PICK r : db = <<r>> /\ r \in {EmptyRec, [EmptyRec EXCEPT !["CALL"] = <<Zero>>, !["NOTES"] = <<Zero>>]}
  BY DEF AdifInit
<1>4. r = [f \in Field |-> r[f]] /\ \A f \in Field : r[f] \in {<<>>, <<Zero>>}
  BY <1>3, FieldTable DEF EmptyRec
<1>5. IsRows(db) /\ Len(db) = 1 /\ db[1] = r
  BY <1>3, <1>4, OneRow
<1>6. CallSet(s, r, 0)
  <2>1. \A i \in 1..4 : r[fields[i]] \in {<<>>, <<Zero>>}
    BY <1>4, FieldPlaces
  <2>2. \A i \in 1..4 : ~(Off(s, i - 1) + 1 < 0)
    <3>1. \A i \in 1..4 : Off(s, i - 1) \in Nat
      BY OffNat
    <3> QED
      BY <3>1
  <2> QED
    BY <2>1, <2>2 DEF CallSet
<1>7. adifqso = 1 /\ doing = "call"
  BY DEF AdifInit
<1> QED
  BY <1>2, <1>5, <1>6, <1>7 DEF CallGoes

\* What the reader of a call does at a known tag: it is that of a field of the record.
LEMMA CallKnown ==
  ASSUME call, source[1] \in Source, CallPlain(source[1]), CallGoes, Known
  PROVE  CallGoes'
<1>1. PICK s, text : s = source[1] /\ text = TextOf(s) /\ s \in Source /\ CallPlain(s)
  OBVIOUS
<1>2. sbuff = text /\ ptr \in 1..Len(text) /\ CallSet(s, db[1], ptr)
  BY <1>1 DEF CallGoes, Known
<1>3. adifqso = 1 /\ Len(db) = 1 /\ IsRows(db) /\ DOMAIN db = 1..1
  BY LenProperties DEF CallGoes, IsRows
<1>4. IsTag(text[ptr]) /\ findfield(text[ptr][2]) # NoField
  BY <1>2 DEF Known, Found
<1>5. PICK i \in 1..4 : Value(s, i) # <<>> /\ ptr = Off(s, i - 1) + 1
  BY <1>1, <1>2, <1>4, CallText
<1>6. /\ text[ptr] = Tag(fields[i], Len(Value(s, i)))
      /\ \A k \in 1..Len(Value(s, i)) : text[ptr + k] = Value(s, i)[k]
  BY <1>1, <1>5, PartIs
<1>7. /\ findfield(text[ptr][2]) = fields[i] /\ text[ptr][3] = Len(Value(s, i))
      /\ text[ptr] \notin {Eor, eor}
  BY <1>6, Tokens, FindsTheField
<1>8. PICK v : v = SubSeq(text, ptr + 1, ptr + Len(Value(s, i)))
  OBVIOUS
<1>9. v = Value(s, i)
  <2>1. PICK a, n : a = ptr /\ n = Len(Value(s, i))
    OBVIOUS
  <2>2. a \in Nat /\ v = SubSeq(text, a + 1, a + n)
    BY <1>2, <1>8, <2>1
  <2>3. Stands(Value(s, i), text, a)
    BY <1>6, <2>1 DEF Stands
  <2>4. s \in Source /\ Value(s, i) # <<>> /\ n = Len(Value(s, i)) /\ a \in Nat
    BY <1>1, <1>5, <2>1, <2>2
  <2>5. Following(text, a, n) = Value(s, i)
    BY <2>3, <2>4, ValueIsRead
  <2> QED
    BY <2>2, <2>5 DEF Following
<1>10. /\ db' = [db EXCEPT ![1][fields[i]] = KeptValue(s, i)]
       /\ adifqso' = 1 /\ ptr' = Next_lt(text, ptr + 1)
       /\ UNCHANGED <<source, call, doing, sbuff, p>>
  <2>1. KeptValue(s, i) = Kept(fields[i], v)
    BY <1>5, <1>9 DEF KeptValue
  <2> QED
    BY <1>2, <1>3, <1>7, <1>8, <2>1 DEF Known, Advance
<1>11. /\ IsRows(db') /\ Len(db') = 1
       /\ \A g \in Field : db'[1][g] = IF g = fields[i] THEN KeptValue(s, i) ELSE db[1][g]
  <2>1. PICK d, e, f, w : d = db /\ e = db' /\ f = fields[i] /\ w = KeptValue(s, i)
    OBVIOUS
  <2>2. 1 \in DOMAIN d /\ f \in Field /\ IsRows(d) /\ Len(d) = 1
    BY <1>3, <2>1, FieldPlaces
  <2>3. Puts(d, 1, f, w, e)
    BY <1>10, <2>1 DEF Puts
  <2>4. IsRows(e) /\ Len(e) = Len(d) /\ \A g \in Field : e[1][g] = IF g = f THEN w ELSE d[1][g]
    BY <2>2, <2>3, PutField
  <2> QED
    BY <2>1, <2>2, <2>4 DEF IsRows
<1>12. \A j \in 1..4 : IF Value(s, j) # <<>> /\ ptr = Off(s, j - 1) + 1
                       THEN db'[1][fields[j]] = KeptValue(s, j)
                       ELSE db'[1][fields[j]] = db[1][fields[j]]
  <2>1. ASSUME NEW j \in 1..4, Value(s, j) # <<>> /\ ptr = Off(s, j - 1) + 1 PROVE j = i
    <3>1. Off(s, j - 1) \in Nat /\ Off(s, i - 1) \in Nat
      BY <1>1, OffNat
    <3>2. Off(s, j - 1) = Off(s, i - 1)
      BY <1>5, <2>1, <3>1
    <3> QED
      BY <1>1, <1>5, <2>1, <3>2, TagsApart
  <2>2. \A j \in 1..4 : fields[j] \in Field /\ (fields[j] = fields[i] => j = i)
    BY FieldPlaces
  <2> QED
    BY <1>5, <1>11, <2>1, <2>2
<1>13. ptr' \in 1..Len(text) /\ CallSet(s, db'[1], ptr')
  <2>1. PICK a, n, row, row2 : a = ptr /\ n = ptr' /\ row = db[1] /\ row2 = db'[1]
    OBVIOUS
  <2>2. a \in 1..Len(TextOf(s)) /\ TextOf(s)[a] \notin {Eor, eor} /\ CallSet(s, row, a)
        /\ n = Next_lt(TextOf(s), a + 1)
    BY <1>1, <1>2, <1>7, <1>10, <2>1
  <2>3. \A j \in 1..4 : IF Value(s, j) # <<>> /\ a = Off(s, j - 1) + 1
                        THEN row2[fields[j]] = KeptValue(s, j) ELSE row2[fields[j]] = row[fields[j]]
    BY <1>12, <2>1
  <2>4. n \in 1..Len(TextOf(s)) /\ CallSet(s, row2, n)
    BY <1>1, <2>2, <2>3, CallStep
  <2> QED
    BY <1>1, <2>1, <2>4
<1> QED
  BY <1>1, <1>2, <1>10, <1>11, <1>13 DEF CallGoes, Known

\* What it does at another '<': that is not the tag of a field.
LEMMA CallUnknown ==
  ASSUME call, source[1] \in Source, CallPlain(source[1]), CallGoes, Unknown
  PROVE  CallGoes'
<1>1. PICK s, text : s = source[1] /\ text = TextOf(s) /\ s \in Source /\ CallPlain(s)
  OBVIOUS
<1>2. sbuff = text /\ ptr \in 1..Len(text) /\ CallSet(s, db[1], ptr)
  BY <1>1 DEF CallGoes, Unknown
<1>3. text[ptr] \notin {Eor, eor} /\ ~Found
  BY <1>2 DEF Unknown
<1>4. \A i \in 1..4 : ~(Value(s, i) # <<>> /\ ptr = Off(s, i - 1) + 1)
  <2>1. ASSUME NEW i \in 1..4, Value(s, i) # <<>>, ptr = Off(s, i - 1) + 1 PROVE FALSE
    <3>1. text[ptr] = Tag(fields[i], Len(Value(s, i)))
      BY <1>1, <2>1, PartIs
    <3>2. IsTag(text[ptr]) /\ findfield(text[ptr][2]) = fields[i] /\ fields[i] # NoField
      BY <3>1, Tokens, FindsTheField, FieldPlaces, FindsAField
    <3> QED
      BY <1>2, <1>3, <3>2 DEF Found
  <2> QED
    BY <2>1
<1>5. /\ ptr' = Next_lt(text, ptr + 1)
      /\ UNCHANGED <<source, call, doing, sbuff, p, adifqso, db>>
  BY <1>2 DEF Unknown, Advance
<1>6. ptr' \in 1..Len(text) /\ CallSet(s, db[1], ptr')
  BY <1>1, <1>2, <1>3, <1>4, <1>5, CallStep
<1> QED
  BY <1>1, <1>2, <1>5, <1>6 DEF CallGoes, Unknown

\* It ends at the end of the record: all the tags are before it.
LEMMA CallEnds ==
  ASSUME call, source[1] \in Source, CallPlain(source[1]), CallGoes, EndOfRecord
  PROVE  CallGoes'
<1>1. PICK s, text : s = source[1] /\ text = TextOf(s) /\ s \in Source /\ CallPlain(s)
  OBVIOUS
<1>2. sbuff = text /\ ptr \in 1..Len(text) /\ CallSet(s, db[1], ptr)
  BY <1>1 DEF CallGoes, EndOfRecord
<1>3. text[ptr] \in {Eor, eor}
  BY <1>2 DEF EndOfRecord
<1>4. ptr = Off(s, 4) + 1
  BY <1>1, <1>2, <1>3, CallText
<1>5. doing' = "done" /\ UNCHANGED <<source, call, adifqso, db>>
  BY DEF EndOfRecord
<1> QED
  BY <1>1, <1>2, <1>4, <1>5 DEF CallGoes

\* It begins at the first '<' of the text: no tag is before it.
LEMMA CallArrives ==
  ASSUME call, source[1] \in Source, CallPlain(source[1]), CallGoes, Arrives(TextOf(source[1]))
  PROVE  CallGoes'
<1>1. PICK s, text : s = source[1] /\ text = TextOf(s) /\ s \in Source /\ CallPlain(s)
  OBVIOUS
<1>2. CallSet(s, db[1], 0)
  BY <1>1 DEF CallGoes, Arrives
<1>3. /\ doing' = "fields" /\ sbuff' = text /\ ptr' = Next_lt(text, 1)
      /\ UNCHANGED <<source, call, p, adifqso, db>>
  BY <1>1 DEF Arrives
<1>4. \A i \in 1..4 : Off(s, i - 1) \in Nat
  BY <1>1, OffNat
<1>5. /\ ptr' \in 1..Len(text)
      /\ \A i \in 1..4 : Value(s, i) # <<>> => ptr' <= Off(s, i - 1) + 1
  <2>1. Off(s, 4) \in Nat
    BY <1>1, OffNat
  <2>2. 1 <= Off(s, 4) + 1 /\ \A i \in 1..4 : Off(s, i - 1) + 1 >= 1
    BY <1>4, <2>1
  <2> QED
    BY <1>1, <1>3, <2>2, TagsAhead
<1>6. \A i \in 1..4 : Value(s, i) # <<>> => ~(Off(s, i - 1) + 1 < ptr')
  BY <1>4, <1>5
<1>7. CallSet(s, db[1], ptr')
  BY <1>2, <1>6 DEF CallSet
<1> QED
  BY <1>1, <1>3, <1>5, <1>7 DEF CallGoes

\* Every step keeps the invariant of the calls.
LEMMA CallSteps == CallInv /\ [AdifNext]_adifVars => CallInv'
<1> SUFFICES ASSUME CallInv, [AdifNext]_adifVars, call' PROVE CallInv'
  BY DEF CallInv
<1>1. call' = call
  BY DEF AdifNext, adifVars, WriteRecord, OpenFile, Arrives, Read, NextRecord, Known, Unknown, EndOfRecord, Done
<1>2. doing # "write"
  BY <1>1 DEF CallInv
<1>3. source' = source /\ doing' # "write"
  BY <1>2 DEF AdifNext, adifVars, WriteRecord, OpenFile, Arrives, Read, NextRecord, Known, Unknown, EndOfRecord, Done
<1>4. ASSUME source # <<>>, CallPlain(source[1]) PROVE CallGoes'
  <2>1. call /\ source[1] \in Source /\ CallGoes
    BY <1>1, <1>4 DEF CallInv
  <2>2. CASE Arrives(TextOf(source[1]))
    BY <1>4, <2>1, <2>2, CallArrives
  <2>3. CASE Known
    BY <1>4, <2>1, <2>3, CallKnown
  <2>4. CASE Unknown
    BY <1>4, <2>1, <2>4, CallUnknown
  <2>5. CASE EndOfRecord
    BY <1>4, <2>1, <2>5, CallEnds
  <2>6. CASE NextRecord
    BY <2>1, <2>6 DEF CallGoes, NextRecord
  <2>7. CASE UNCHANGED adifVars
    BY <2>1, <2>7 DEF CallGoes, adifVars
  <2> QED
    BY <1>2, <2>2, <2>3, <2>4, <2>5, <2>6, <2>7 DEF AdifNext, WriteRecord, OpenFile, Read, Done
<1> QED
  BY <1>1, <1>3, <1>4 DEF CallInv

\* A call gives the record the fields of its text and leaves the others (get_record_fields,
\* through add_record and update_record).
THEOREM CallCorrect == AdifSpec => []CallSetsItsFields
<1>1. CallInv => CallSetsItsFields
  <2> SUFFICES ASSUME CallInv, doing = "done", call, source # <<>>, Passed(source[1].before),
                      \A f \in Field : ~HasTag(source[1].rec[f]) /\ ~HasEnd(source[1].rec[f])
               PROVE  /\ Len(db) = 1
                      /\ \A f \in Field :
                           IF source[1].rec[f] # <<>> THEN db[1][f] = Kept(f, source[1].rec[f])
                           ELSE db[1][f] \in {<<>>, <<Zero>>}
    BY DEF CallSetsItsFields
  <2>1. PICK s : s = source[1] /\ s \in Source
    BY DEF CallInv
  <2>2. CallPlain(s)
    BY <2>1, FieldPlaces DEF CallPlain, Value
  <2>3. Len(db) = 1 /\ CallSet(s, db[1], Off(s, 4) + 1)
    BY <2>1, <2>2 DEF CallInv, CallGoes
  <2>4. ASSUME NEW f \in Field
        PROVE  IF s.rec[f] # <<>> THEN db[1][f] = Kept(f, s.rec[f]) ELSE db[1][f] \in {<<>>, <<Zero>>}
    <3>1. PICK i \in 1..4 : f = fields[i]
      BY FieldPlaces
    <3>2. Value(s, i) = s.rec[f]
      BY <3>1 DEF Value
    <3>3. CASE s.rec[f] # <<>>
      <4>1. Off(s, i) = Off(s, i - 1) + Len(Value(s, i)) + 1 /\ Len(Value(s, i)) \in Nat
        BY <2>1, <3>2, <3>3, PartIs
      <4>2. Off(s, i) <= Off(s, 4)
        <5>1. 4 \in 0..4 /\ i \in 0..4 /\ i <= 4
          OBVIOUS
        <5> QED
          BY <2>1, <5>1, OffSteps
      <4>3. Off(s, i) \in Nat /\ Off(s, i - 1) \in Nat /\ Off(s, 4) \in Nat
        BY <2>1, OffNat
      <4>4. Off(s, i - 1) + 1 < Off(s, 4) + 1
        BY <4>1, <4>2, <4>3
      <4> QED
        BY <2>3, <3>1, <3>2, <3>3, <4>4 DEF CallSet, KeptValue
    <3>4. CASE s.rec[f] = <<>>
      BY <2>3, <3>1, <3>2, <3>4 DEF CallSet
    <3> QED
      BY <3>3, <3>4
  <2> QED
    BY <2>1, <2>3, <2>4
<1> QED
  BY <1>1, CallBegins, CallSteps, PTL DEF AdifSpec

-----------------------------------------------------------------------------
(* AdifText: types *)

\* The types of the variables
TextType ==
  /\ source \in Seq(Source) /\ sbuff \in Seq(Token) /\ call \in BOOLEAN
  /\ doing \in {"write", "call", "scan", "fields", "done"}
  /\ doing = "call" => source # <<>>
  /\ doing = "write" => ~call
  /\ p \in Nat /\ ptr \in 0..Len(sbuff) /\ IsRows(db) /\ adifqso \in 0..Len(db)

\* The length in a tag is a number.
LEMMA TagToken == \A t \in Token : IsTag(t) => t[3] \in Nat
<1> SUFFICES ASSUME NEW t \in Token, IsTag(t) PROVE t[3] \in Nat
  OBVIOUS
<1>1. ~IsTag(Eor) /\ ~IsTag(eor) /\ ~IsTag(Lt) /\ ~IsTag(Zero)
  BY DEF IsTag, Eor, eor, Lt, Zero
<1>2. \A c \in Letters : ~IsTag(c)
  BY TextAssumption DEF Begins, IsTag
<1>3. t \in {"tag"} \X (DOMAIN Pieces) \X Nat
  BY <1>1, <1>2 DEF Token
<1> QED
  BY <1>3

\* The record that is filled, q2 of d: the first field makes it.
Made(qsos, q, q2, d) ==
  /\ q2 = IF q = 0 THEN Len(qsos) + 1 ELSE q
  /\ d = IF q = 0 THEN Append(qsos, EmptyRec) ELSE qsos

\* A field of it is set: e is the list then.
IsSet(qsos, q, q2, f, v, e) ==
  /\ IsRows(e) /\ q2 \in 1..Len(e) /\ Len(qsos) \in Nat
  /\ Len(e) = IF q = 0 THEN Len(qsos) + 1 ELSE Len(qsos)
  /\ \A i \in 1..Len(qsos) : i # q2 => e[i] = qsos[i]
  /\ \A g \in Field : g # f => e[q2][g] = IF q = 0 THEN <<>> ELSE qsos[q][g]
  /\ e[q2][f] = v

\* What the reader does to the list when it sets a field: the first field makes the record.
LEMMA FieldSet ==
  ASSUME NEW qsos, IsRows(qsos), NEW q \in 0..Len(qsos), NEW f \in Field, NEW v,
         NEW q2, NEW d, Made(qsos, q, q2, d), NEW e, Puts(d, q2, f, v, e)
  PROVE  IsSet(qsos, q, q2, f, v, e)
<1>1. Len(qsos) \in Nat /\ DOMAIN qsos = 1..Len(qsos)
  BY LenProperties DEF IsRows
<1>2. CASE q = 0
  <2>1. d = Append(qsos, EmptyRec) /\ q2 = Len(qsos) + 1
    BY <1>2 DEF Made
  <2>2. /\ IsRows(d) /\ Len(d) = Len(qsos) + 1 /\ DOMAIN d = 1..(Len(qsos) + 1)
        /\ \A i \in 1..Len(qsos) : d[i] = qsos[i]
        /\ d[Len(qsos) + 1] = EmptyRec
    BY <2>1, NewRow
  <2>3. q2 \in DOMAIN d
    BY <1>1, <2>1, <2>2
  <2>4. /\ IsRows(e) /\ Len(e) = Len(d) /\ \A i \in DOMAIN d : i # q2 => e[i] = d[i]
        /\ \A g \in Field : e[q2][g] = IF g = f THEN v ELSE d[q2][g]
    BY <2>2, <2>3, PutField
  <2>5. \A g \in Field : d[q2][g] = <<>>
    BY <2>1, <2>2 DEF EmptyRec
  <2> QED
    BY <1>1, <1>2, <2>1, <2>2, <2>4, <2>5 DEF IsSet
<1>3. CASE q # 0
  <2>1. d = qsos /\ q2 = q /\ q2 \in DOMAIN d
    BY <1>1, <1>3 DEF Made
  <2>2. IsRows(d)
    BY <2>1
  <2>4. /\ IsRows(e) /\ Len(e) = Len(d) /\ \A i \in DOMAIN d : i # q2 => e[i] = d[i]
        /\ \A g \in Field : e[q2][g] = IF g = f THEN v ELSE d[q2][g]
    BY <2>1, <2>2, PutField
  <2> QED
    BY <1>1, <1>3, <2>1, <2>4 DEF IsSet
<1> QED
  BY <1>2, <1>3

\* A field that is set
LEMMA KnownSets ==
  ASSUME TextType, Known
  PROVE  LET f == findfield(sbuff[ptr][2])
             n == sbuff[ptr][3]
             q2 == IF adifqso = 0 THEN Len(db) + 1 ELSE adifqso
         IN  /\ f \in Field /\ ptr \in 1..Len(sbuff) /\ n \in Nat
             /\ IsTag(sbuff[ptr]) /\ adifqso' = q2
             /\ IsSet(db, adifqso, q2, f, Kept(f, SubSeq(sbuff, ptr + 1, ptr + n)), db')
             /\ Advance(n + 1)
             /\ UNCHANGED <<source, call, doing, sbuff, p>>
<1>1. PICK qsos, q, f, n, q2, d, e, v :
        /\ qsos = db /\ q = adifqso /\ f = findfield(sbuff[ptr][2]) /\ n = sbuff[ptr][3]
        /\ q2 = IF q = 0 THEN Len(qsos) + 1 ELSE q
        /\ d = IF q = 0 THEN Append(qsos, EmptyRec) ELSE qsos
        /\ e = db' /\ v = Kept(f, SubSeq(sbuff, ptr + 1, ptr + n))
  OBVIOUS
<1>2. IsRows(qsos) /\ q \in 0..Len(qsos) /\ f \in Field
  BY <1>1, FindsAField DEF TextType, Known, Found
<1>3. Puts(d, q2, f, v, e) /\ adifqso' = q2 /\ Made(qsos, q, q2, d)
  BY <1>1 DEF Known, Puts, Made
<1>4. IsSet(qsos, q, q2, f, v, e)
  BY <1>2, <1>3, FieldSet
<1>5. ptr \in 1..Len(sbuff) /\ IsTag(sbuff[ptr]) /\ sbuff[ptr] \in Token
  <2>1. ptr \in 1..Len(sbuff)
    BY LenProperties DEF TextType, Known
  <2> QED
    BY <2>1, ElementOfSeq DEF TextType, Known, Found
<1>6. n \in Nat
  BY <1>1, <1>5, TagToken
<1>7. Advance(n + 1) /\ UNCHANGED <<source, call, doing, sbuff, p>>
  BY <1>1 DEF Known
<1> QED
  BY <1>1, <1>2, <1>3, <1>4, <1>5, <1>6, <1>7

\* Wherever the reader goes on, it is in the text.
LEMMA AdvanceType ==
  ASSUME TextType, ptr # 0, NEW size \in Nat, Advance(size)
  PROVE  ptr' \in 0..Len(sbuff)
<1>1. sbuff \in Seq(Token) /\ ptr + 1 \in Nat /\ ptr + size \in Nat /\ Len(sbuff) \in Nat
  BY LenProperties DEF TextType
<1>2. Next_lt(sbuff, ptr + 1) \in 0..Len(sbuff) /\ Next_lt(sbuff, ptr + size) \in 0..Len(sbuff)
  BY <1>1, NextLtFinds
<1> QED
  BY <1>1, <1>2 DEF Advance

\* Every step keeps the types.
LEMMA TypeSteps == TextType /\ [AdifNext]_adifVars => TextType'
<1> SUFFICES ASSUME TextType, [AdifNext]_adifVars PROVE TextType'
  OBVIOUS
<1>0. Len(sbuff) \in Nat /\ Len(db) \in Nat
  BY LenProperties DEF TextType, IsRows
<1>1. CASE WriteRecord
  <2>1. PICK s \in Source : source' = Append(source, s) /\ sbuff' = sbuff \o TextOf(s)
    BY <1>1 DEF WriteRecord
  <2>2. TextOf(s) \in Seq(Token)
    BY TextParts
  <2>3. sbuff' \in Seq(Token) /\ Len(sbuff') = Len(sbuff) + Len(TextOf(s)) /\ Len(TextOf(s)) \in Nat
    BY <2>1, <2>2, ConcatProperties, LenProperties DEF TextType
  <2>4. source' \in Seq(Source)
    BY <2>1, AppendProperties DEF TextType
  <2>5. ptr' \in 0..Len(sbuff')
    BY <1>0, <1>1, <2>3 DEF TextType, WriteRecord
  <2> QED
    BY <1>1, <2>3, <2>4, <2>5 DEF TextType, WriteRecord
<1>2. CASE OpenFile
  BY <1>2 DEF TextType, OpenFile
<1>3. CASE Arrives(TextOf(source[1]))
  <2>1. source[1] \in Source
    <3>1. source # <<>> /\ source \in Seq(Source)
      BY <1>3 DEF TextType, Arrives
    <3>2. 1 \in 1..Len(source)
      BY <3>1, EmptySeq, LenProperties
    <3> QED
      BY <3>1, <3>2, ElementOfSeq
  <2>2. TextOf(source[1]) \in Seq(Token)
    BY <2>1, TextParts
  <2>3. ptr' \in 0..Len(sbuff') /\ sbuff' \in Seq(Token)
    BY <1>3, <2>2, NextLtFinds DEF Arrives
  <2> QED
    BY <1>3, <2>3 DEF TextType, Arrives
<1>4. CASE NextRecord
  <2>1. FindEor(sbuff) \in Nat
    BY FirstOfFinds DEF FindEor, TextType
  <2>2. Next_lt(sbuff, 1) \in 0..Len(sbuff)
    BY NextLtFinds DEF TextType
  <2>3. adifqso' \in 0..Len(db) /\ ptr' \in 0..Len(sbuff)
    BY <1>0, <1>4, <2>2 DEF TextType, NextRecord
  <2> QED
    BY <1>4, <2>1, <2>3 DEF TextType, NextRecord
<1>5. CASE Known
  <2>1. /\ IsRows(db') /\ adifqso' \in 1..Len(db') /\ sbuff[ptr][3] \in Nat
        /\ Advance(sbuff[ptr][3] + 1) /\ UNCHANGED <<source, call, doing, sbuff, p>>
    BY <1>5, KnownSets DEF IsSet
  <2>2. ptr' \in 0..Len(sbuff)
    <3>1. sbuff[ptr][3] + 1 \in Nat /\ ptr # 0
      BY <1>5, <2>1 DEF Known
    <3> QED
      BY <2>1, <3>1, AdvanceType
  <2>3. adifqso' \in 0..Len(db')
    BY <2>1
  <2> QED
    BY <1>5, <2>1, <2>2, <2>3 DEF TextType
<1>6. CASE Unknown
  <2>1. ptr' \in 0..Len(sbuff)
    BY <1>6, AdvanceType DEF Unknown
  <2> QED
    BY <1>6, <2>1 DEF TextType, Unknown
<1>7. CASE EndOfRecord
  <2>1. sbuff' \in Seq(Token)
    <3>1. SubSeq(sbuff, p + 1, Len(sbuff)) \in Seq(Token)
      <4>1. p + 1 \in Int /\ Len(sbuff) \in Int /\ sbuff \in Seq(Token)
        BY <1>0 DEF TextType
      <4>2. \A i \in (p + 1)..Len(sbuff) : sbuff[i] \in Token
        <5>1. \A i \in (p + 1)..Len(sbuff) : i \in 1..Len(sbuff)
          BY <1>0 DEF TextType
        <5> QED
          BY <4>1, <5>1, ElementOfSeq
      <4> QED
        BY <4>1, <4>2, SubSeqProperties
    <3> QED
      BY <1>7, <3>1 DEF EndOfRecord, TextType
  <2>2. 0 \in 0..Len(sbuff')
    BY <2>1, LenProperties
  <2> QED
    BY <1>7, <2>1, <2>2 DEF TextType, EndOfRecord
<1>8. CASE UNCHANGED adifVars
  BY <1>8 DEF TextType, adifVars
<1> QED
  BY <1>1, <1>2, <1>3, <1>4, <1>5, <1>6, <1>7, <1>8 DEF AdifNext, Read, Done

\* The types hold at the beginning.
LEMMA TypeBegins == AdifInit => TextType
<1> SUFFICES ASSUME AdifInit PROVE TextType
  OBVIOUS
<1>1. source \in Seq(Source)
  <2>1. source = <<>> \/ \E s \in Source : source = <<s>>
    BY DEF AdifInit
  <2>2. <<>> \in Seq(Source) /\ \A s \in Source : <<s>> \in Seq(Source)
    OBVIOUS
  <2> QED
    BY <2>1, <2>2
<1>2. sbuff \in Seq(Token) /\ Len(sbuff) = 0
  BY DEF AdifInit
<1>3. IsRows(db) /\ adifqso \in 0..Len(db)
  <2>1. CASE source = <<>>
    <3>1. db = <<>> /\ adifqso = 0
      BY <2>1 DEF AdifInit
    <3>2. IsRows(<<>>) /\ Len(<<>>) = 0
      BY DEF IsRows
    <3> QED
      BY <3>1, <3>2
  <2>2. CASE source # <<>>
    <3>1. PICK r : db = <<r>> /\ r \in {EmptyRec, [EmptyRec EXCEPT !["CALL"] = <<Zero>>, !["NOTES"] = <<Zero>>]}
      BY <2>2 DEF AdifInit
    <3>2. r = [f \in Field |-> r[f]]
      BY <3>1 DEF EmptyRec
    <3>3. IsRows(db) /\ Len(db) = 1
      BY <3>1, <3>2, OneRow
    <3> QED
      BY <2>2, <3>3 DEF AdifInit
  <2> QED
    BY <2>1, <2>2
<1> QED
  BY <1>1, <1>2, <1>3 DEF AdifInit, TextType

-----------------------------------------------------------------------------
(* AdifText: what is left of the text of a file *)

\* The first i fields of a record have no end of record in their values.
SafeTo(s, i) == \A j \in 1..i : ~HasEnd(Value(s, j))

\* The logs ReadsWhatIsWritten is about, and those NoRecordIsLost is about
Plain(src) ==
  /\ \A i, j \in DOMAIN src : src[i].end = src[j].end
  /\ \A i \in DOMAIN src : Passed(src[i].before) /\ SafeTo(src[i], 4)
Upper(src) ==
  \A i \in DOMAIN src : src[i].end = Eor /\ Passed(src[i].before) /\ Value(src[i], 1) # <<>>

\* The text of a record is in a text behind o, what there is of it.
Inside(s, text, o) == \A q \in 1..Len(TextOf(s)) : o + q >= 1 => text[o + q] = TextOf(s)[q]

\* The text is what is left of the texts of the records, the i-th of which ends at at[i]:
\* the first k are read, and of the next one what is before the text, -at[k] tokens.
CutOf(src, text, k, at) ==
  /\ k \in 0..Len(src) /\ at \in [0..Len(src) -> Int]
  /\ at[k] <= 0 /\ at[Len(src)] = Len(text)
  /\ \A i, j \in 0..Len(src) : i < j => at[i] < at[j]
  /\ k < Len(src) => at[k + 1] >= 1
  /\ \A i \in 1..Len(src) : at[i] = at[i - 1] + Len(TextOf(src[i]))
  /\ \A i \in 1..Len(src) : Inside(src[i], text, at[i - 1])
  /\ \A q \in 1..Len(text) : \E i \in 1..Len(src) : i > k /\ at[i - 1] < q /\ q <= at[i]

\* No end of record is in the fields before one that has an end in it.
LEMMA NoEndBefore ==
  ASSUME NEW s \in Source, Passed(s.before), NEW j \in 0..4, SafeTo(s, j), NEW q \in 1..Off(s, j)
  PROVE  TextOf(s)[q] \notin {Eor, eor}
<1>1. Off(s, j) \in Nat /\ Off(s, 4) \in Nat /\ Off(s, j) <= Off(s, 4)
  <2>1. j <= 4 /\ 4 \in 0..4
    OBVIOUS
  <2> QED
    BY <2>1, OffNat, OffSteps
<1>2. q \in 1..Len(TextOf(s)) /\ q # Off(s, 4) + 1
  BY <1>1, TextParts
<1>3. CASE q \in 1..Off(s, 0)
  BY <1>3, FrontIsPassed
<1>4. ASSUME NEW i \in 1..4, Value(s, i) # <<>>, q = Off(s, i - 1) + 1
      PROVE  TextOf(s)[q] \notin {Eor, eor}
  BY <1>4, PartIs, Tokens
<1>5. ASSUME NEW i \in 1..4, NEW k \in 1..Len(Value(s, i)), Value(s, i) # <<>>,
             q = Off(s, i - 1) + 1 + k
      PROVE  TextOf(s)[q] \notin {Eor, eor}
  <2>1. TextOf(s)[q] = Value(s, i)[k]
    BY <1>5, PartIs
  <2>2. DOMAIN Value(s, i) = 1..Len(Value(s, i))
    <3>1. Value(s, i) \in Seq(Token)
      BY PartIs
    <3> QED
      BY <3>1, LenProperties
  <2>3. i \in 1..j
    <3>1. ASSUME ~(i <= j) PROVE FALSE
      <4>1. j <= i - 1 /\ i - 1 \in 0..4
        BY <3>1
      <4>2. Off(s, j) <= Off(s, i - 1) /\ Off(s, i - 1) \in Nat
        BY <4>1, OffSteps, OffNat
      <4> QED
        BY <1>1, <1>5, <4>2
    <3> QED
      BY <3>1
  <2>4. ~HasEnd(Value(s, i))
    BY <2>3 DEF SafeTo
  <2> QED
    BY <2>1, <2>2, <2>4 DEF HasEnd
<1> QED
  BY <1>2, <1>3, <1>4, <1>5, WhatIsWhere

\* The text of a record is one longer than its fields; the last of it is its end.
LEMMA TextLen ==
  ASSUME NEW s \in Source
  PROVE  /\ Len(TextOf(s)) = Off(s, 4) + 1 /\ Off(s, 4) \in Nat /\ Len(TextOf(s)) \in Nat
         /\ TextOf(s)[Off(s, 4) + 1] = s.end
<1>1. Off(s, 4) \in Nat
  BY OffNat
<1>2. Len(TextOf(s)) = Off(s, 4) + 1 /\ TextOf(s)[Off(s, 4) + 1] = s.end
  BY TextParts
<1> QED
  BY <1>1, <1>2

\* Where the texts of the records are
LEMMA CutPlaces ==
  ASSUME NEW src \in Seq(Source), NEW text, NEW k, NEW at, CutOf(src, text, k, at)
  PROVE  /\ Len(src) \in Nat /\ DOMAIN src = 1..Len(src) /\ k \in Nat /\ k <= Len(src)
         /\ \A i \in 0..Len(src) : at[i] \in Int /\ at[i] <= at[Len(src)]
         /\ at[k] <= 0 /\ at[k] \in Int /\ at[Len(src)] = Len(text) /\ Len(text) \in Int
         /\ \A i \in 1..Len(src) :
              /\ src[i] \in Source /\ at[i - 1] \in Int /\ at[i] \in Int
              /\ at[i] = at[i - 1] + Len(TextOf(src[i])) /\ Len(TextOf(src[i])) \in Nat
              /\ Inside(src[i], text, at[i - 1])
<1>1. Len(src) \in Nat /\ DOMAIN src = 1..Len(src)
  BY LenProperties
<1>2. PICK N : N = Len(src) /\ N \in Nat
  BY <1>1
<1>3. k \in 0..N /\ at \in [0..N -> Int] /\ at[k] <= 0 /\ at[N] = Len(text)
  BY <1>2 DEF CutOf
<1>4. \A i, j \in 0..N : i < j => at[i] < at[j]
  BY <1>2 DEF CutOf
<1>5. \A i \in 1..N : at[i] = at[i - 1] + Len(TextOf(src[i])) /\ Inside(src[i], text, at[i - 1])
  BY <1>2 DEF CutOf
<1>6. \A i \in 0..N : at[i] \in Int
  BY <1>3
<1>7. \A i \in 0..N : at[i] <= at[N]
  <2>1. ASSUME NEW i \in 0..N PROVE at[i] <= at[N]
    <3>1. N \in 0..N /\ (i = N \/ i < N)
      BY <1>2
    <3>2. at[i] \in Int /\ at[N] \in Int
      BY <1>6, <3>1
    <3> QED
      BY <1>4, <3>1, <3>2
  <2> QED
    BY <2>1
<1>8. \A i \in 1..N : i \in 0..N /\ i - 1 \in 0..N
  BY <1>2
<1>9. ASSUME NEW i \in 1..N PROVE src[i] \in Source /\ Len(TextOf(src[i])) \in Nat
  <2>1. src[i] \in Source
    BY <1>2, ElementOfSeq
  <2> QED
    BY <2>1, TextLen
<1>10. N \in 0..N /\ at[k] \in Int /\ at[N] \in Int
  BY <1>2, <1>3, <1>6
<1>11. \A i \in 1..N : at[i - 1] \in Int /\ at[i] \in Int
  BY <1>6, <1>8
<1> QED
  BY <1>1, <1>2, <1>3, <1>5, <1>6, <1>7, <1>9, <1>10, <1>11

\* Each record's text has its end at its last place.
LEMMA CutEnd ==
  ASSUME NEW src \in Seq(Source), NEW text, NEW k, NEW at, CutOf(src, text, k, at), k < Len(src)
  PROVE  /\ k \in Nat /\ k + 1 \in 1..Len(src) /\ src[k + 1] \in Source
         /\ at[k] \in Int /\ at[k + 1] \in 1..Len(text) /\ Len(text) \in Int
         /\ text[at[k + 1]] = src[k + 1].end
         /\ at[k + 1] = at[k] + Off(src[k + 1], 4) + 1
<1>1. Len(src) \in Nat /\ k \in Nat /\ k + 1 \in 1..Len(src) /\ k + 1 \in 0..Len(src) /\ (k + 1) - 1 = k
  BY CutPlaces
<1>2. PICK s : s = src[k + 1] /\ s \in Source
  BY <1>1, CutPlaces
<1>3. at[k] \in Int /\ at[k + 1] \in Int /\ at[Len(src)] = Len(text) /\ Len(text) \in Int
  BY <1>1, CutPlaces
<1>4. at[k + 1] <= at[Len(src)]
  BY <1>1, CutPlaces
<1>5. at[k + 1] >= 1 /\ at[k + 1] = at[k] + Len(TextOf(s)) /\ Inside(s, text, at[k])
  <2>1. at[k + 1] >= 1
    BY DEF CutOf
  <2>2. at[k + 1] = at[(k + 1) - 1] + Len(TextOf(src[k + 1])) /\ Inside(src[k + 1], text, at[(k + 1) - 1])
    BY <1>1, CutPlaces
  <2> QED
    BY <1>1, <1>2, <2>1, <2>2
<1>6. Len(TextOf(s)) = Off(s, 4) + 1 /\ TextOf(s)[Off(s, 4) + 1] = s.end /\ Off(s, 4) \in Nat
  BY <1>2, TextLen
<1>7. text[at[k + 1]] = s.end
  <2>1. Off(s, 4) + 1 \in 1..Len(TextOf(s)) /\ at[k] + (Off(s, 4) + 1) = at[k + 1]
    BY <1>3, <1>5, <1>6
  <2> QED
    BY <1>5, <1>6, <2>1 DEF Inside
<1> QED
  BY <1>1, <1>2, <1>3, <1>4, <1>5, <1>6, <1>7, SMTT(60)

\* If no value has an end in it, and the records end in small letters, there is no end in
\* capitals in what is left of the text.
LEMMA NoCapital ==
  ASSUME NEW src \in Seq(Source), NEW text, NEW k, NEW at, CutOf(src, text, k, at),
         Plain(src), NEW r \in DOMAIN src, src[r].end = eor, NEW q \in 1..Len(text)
  PROVE  text[q] # Eor
<1>1. PICK i \in 1..Len(src) : at[i - 1] < q /\ q <= at[i]
  BY DEF CutOf
<1>2. DOMAIN src = 1..Len(src) /\ Len(src) \in Nat
  BY LenProperties
<1>3. PICK s : s = src[i] /\ s \in Source
  BY <1>2, ElementOfSeq
<1>4. at[i - 1] \in Int /\ at[i] \in Int /\ at[i] = at[i - 1] + Len(TextOf(s)) /\ Inside(s, text, at[i - 1])
  BY <1>3, CutPlaces
<1>5. Passed(s.before) /\ SafeTo(s, 4) /\ s.end = eor
  BY <1>2, <1>3 DEF Plain
<1>6. PICK o : o = q - at[i - 1]
  OBVIOUS
<1>7. Len(TextOf(s)) = Off(s, 4) + 1 /\ TextOf(s)[Off(s, 4) + 1] = s.end /\ Off(s, 4) \in Nat
  BY <1>3, TextLen
<1>8. o \in 1..Len(TextOf(s)) /\ at[i - 1] + o = q /\ q >= 1
  BY <1>1, <1>4, <1>6, <1>7, SMTT(60)
<1>9. text[q] = TextOf(s)[o]
  BY <1>4, <1>8 DEF Inside
<1>10. CASE o = Off(s, 4) + 1
  BY <1>5, <1>7, <1>9, <1>10, Tokens
<1>11. CASE o \in 1..Off(s, 4)
  <2>1. TextOf(s)[o] \notin {Eor, eor}
    BY <1>3, <1>5, <1>11, NoEndBefore, 4 \in 0..4
  <2> QED
    BY <1>9, <2>1
<1> QED
  BY <1>7, <1>8, <1>10, <1>11

\* Where the next record ends for the reader: at its end or, if there is an end in one of its
\* values, before it, but not before the fields that precede that value.
LEMMA EndFound ==
  ASSUME NEW src \in Seq(Source), NEW text \in Seq(Token), NEW k, NEW at, CutOf(src, text, k, at),
         k < Len(src), Plain(src) \/ Upper(src)
  PROVE  /\ FindEor(text) \in 1..at[k + 1]
         /\ at[k] = 0 => \A j \in 0..4 : SafeTo(src[k + 1], j) => Off(src[k + 1], j) < FindEor(text)
         /\ at[k] = 0 /\ Plain(src) => FindEor(text) = at[k + 1]
<1>1. /\ k \in Nat /\ k + 1 \in 1..Len(src) /\ src[k + 1] \in Source
      /\ at[k] \in Int /\ at[k + 1] \in 1..Len(text)
      /\ text[at[k + 1]] = src[k + 1].end
      /\ at[k + 1] = at[k] + Off(src[k + 1], 4) + 1
  BY CutEnd
<1>2. PICK s : s = src[k + 1] /\ s \in Source
  BY <1>1
<1>3. PICK e, n : e = at[k + 1] /\ n = FindEor(text)
  OBVIOUS
<1>4. DOMAIN src = 1..Len(src) /\ DOMAIN text = 1..Len(text) /\ Len(text) \in Nat
  BY LenProperties
<1>5. Passed(s.before) /\ s.end \in {Eor, eor}
  BY <1>1, <1>2, <1>4, SourceType DEF Plain, Upper
<1>6. n \in 1..e /\ text[n] \in {Eor, eor}
  <2>1. CASE s.end = Eor
    <3>1. /\ FirstOf(text, {Eor}) # 0 /\ FirstOf(text, {Eor}) <= e
          /\ FirstOf(text, {Eor}) \in 0..Len(text) /\ text[FirstOf(text, {Eor})] \in {Eor}
      <4>1. e \in DOMAIN text /\ text[e] \in {Eor}
        BY <1>1, <1>2, <1>3, <1>4, <2>1
      <4> QED
        BY <4>1, FirstOfFinds
    <3>2. n = FirstOf(text, {Eor})
      BY <1>3, <3>1 DEF FindEor
    <3> QED
      BY <1>1, <1>3, <3>1, <3>2
  <2>2. CASE s.end = eor
    <3>1. Plain(src)
      BY <1>1, <1>2, <1>4, <2>2, Tokens DEF Upper
    <3>2. FirstOf(text, {Eor}) = 0
      <4>1. \A q \in 1..Len(text) : text[q] # Eor
        BY <1>1, <1>2, <1>4, <2>2, <3>1, NoCapital
      <4>2. FirstOf(text, {Eor}) # 0 => FirstOf(text, {Eor}) \in 1..Len(text) /\ text[FirstOf(text, {Eor})] = Eor
        BY <1>4, FirstOfFinds
      <4> QED
        BY <4>1, <4>2
    <3>3. /\ FirstOf(text, {eor}) # 0 /\ FirstOf(text, {eor}) <= e
          /\ FirstOf(text, {eor}) \in 0..Len(text) /\ text[FirstOf(text, {eor})] \in {eor}
      <4>1. e \in DOMAIN text /\ text[e] \in {eor}
        BY <1>1, <1>2, <1>3, <1>4, <2>2
      <4> QED
        BY <4>1, FirstOfFinds
    <3>4. n = FirstOf(text, {eor})
      BY <1>3, <3>2 DEF FindEor
    <3> QED
      BY <1>1, <1>3, <3>3, <3>4
  <2> QED
    BY <1>5, <2>1, <2>2
<1>7. ASSUME at[k] = 0, NEW j \in 0..4, SafeTo(s, j) PROVE Off(s, j) < n
  <2>1. Off(s, j) \in Nat /\ Off(s, 4) \in Nat /\ Off(s, j) <= Off(s, 4)
    <3>1. j <= 4 /\ 4 \in 0..4
      OBVIOUS
    <3> QED
      BY <1>2, <3>1, OffNat, OffSteps
  <2>2. ASSUME n <= Off(s, j) PROVE FALSE
    <3>1. n \in 1..Off(s, j) /\ n \in 1..Len(TextOf(s))
      <4>1. Len(TextOf(s)) = Off(s, 4) + 1
        BY <1>2, TextParts
      <4> QED
        BY <1>6, <2>1, <2>2, <4>1
    <3>2. text[n] = TextOf(s)[n]
      <4>1. Inside(s, text, at[k])
        <5>1. (k + 1) - 1 = k
          BY <1>1
        <5> QED
          BY <1>1, <1>2, <5>1 DEF CutOf
      <4>2. 0 + n = n /\ n >= 1
        BY <1>6
      <4> QED
        BY <1>7, <3>1, <4>1, <4>2 DEF Inside
    <3>3. TextOf(s)[n] \notin {Eor, eor}
      BY <1>2, <1>5, <1>7, <3>1, NoEndBefore
    <3> QED
      BY <1>6, <3>2, <3>3
  <2> QED
    BY <1>1, <1>3, <1>6, <2>1, <2>2
<1>8. ASSUME at[k] = 0, Plain(src) PROVE n = e
  <2>1. SafeTo(s, 4)
    BY <1>1, <1>2, <1>4, <1>8 DEF Plain
  <2>2. Off(s, 4) < n /\ Off(s, 4) \in Nat
    BY <1>2, <1>7, <1>8, <2>1, OffNat, 4 \in 0..4
  <2>3. e = Off(s, 4) + 1
    BY <1>1, <1>2, <1>3, <1>8, <2>2
  <2> QED
    BY <1>6, <2>2, <2>3
<1> QED
  BY <1>2, <1>3, <1>6, <1>7, <1>8

\* What is left when the text goes on behind the end that was found
LEMMA CutMoves ==
  ASSUME NEW src \in Seq(Source), NEW text \in Seq(Token), NEW k, NEW at, CutOf(src, text, k, at),
         k < Len(src), NEW n \in 1..at[k + 1], NEW text2, text2 = SubSeq(text, n + 1, Len(text)),
         NEW k2, k2 = IF n = at[k + 1] THEN k + 1 ELSE k
  PROVE  /\ CutOf(src, text2, k2, [i \in 0..Len(src) |-> at[i] - n])
         /\ text2 \in Seq(Token)
<1>1. /\ k \in Nat /\ k + 1 \in 1..Len(src) /\ at[k] \in Int /\ at[k + 1] \in 1..Len(text)
  BY CutEnd
<1>2. Len(src) \in Nat /\ Len(text) \in Nat /\ n \in Nat /\ n >= 1 /\ n <= Len(text)
  BY <1>1, LenProperties
<1>3. PICK a : a = [i \in 0..Len(src) |-> at[i] - n]
  OBVIOUS
<1>4. PICK L, N : L = Len(text) /\ N = Len(src)
  OBVIOUS
<1>5. /\ text2 \in Seq(Token) /\ Len(text2) = L - n /\ \A q \in 1..(L - n) : text2[q] = text[n + q]
  <2>1. PICK b : b = n + 1
    OBVIOUS
  <2>2. b \in Int /\ L \in Int /\ text2 = SubSeq(text, b, L)
    BY <1>2, <1>4, <2>1
  <2>3. \A i \in b..L : text[i] \in Token
    <3>1. \A i \in b..L : i \in 1..Len(text)
      BY <1>2, <1>4, <2>1
    <3> QED
      BY <3>1, ElementOfSeq
  <2>4. SubSeq(text, b, L) \in Seq(Token)
    BY <2>2, <2>3, SubSeqProperties
  <2>5. Len(SubSeq(text, b, L)) = IF b <= L THEN L - b + 1 ELSE 0
    BY <2>2, <2>3, SubSeqProperties
  <2>6. \A i \in 1..(L - b + 1) : SubSeq(text, b, L)[i] = text[b + i - 1]
    BY <2>2, <2>3, SubSeqProperties
  <2>7. Len(text2) = L - n
    BY <1>2, <1>4, <2>1, <2>2, <2>5
  <2>8. \A q \in 1..(L - n) : q \in 1..(L - b + 1) /\ b + q - 1 = n + q
    BY <1>2, <1>4, <2>1
  <2> QED
    BY <2>2, <2>4, <2>6, <2>7, <2>8
<1>6. /\ at \in [0..N -> Int] /\ at[N] = L /\ N \in Nat /\ L \in Nat
      /\ \A i, j \in 0..N : i < j => at[i] < at[j]
      /\ \A i \in 1..N : at[i] = at[i - 1] + Len(TextOf(src[i]))
      /\ \A i \in 1..N : Inside(src[i], text, at[i - 1])
      /\ \A q \in 1..L : \E i \in 1..N : i > k /\ at[i - 1] < q /\ q <= at[i]
  BY <1>2, <1>4 DEF CutOf
<1>7. /\ a \in [0..N -> Int] /\ \A i \in 0..N : a[i] = at[i] - n /\ at[i] \in Int
      /\ \A i \in 1..N : i \in 0..N /\ i - 1 \in 0..N
  <2>1. \A i \in 0..N : at[i] \in Int
    BY <1>6
  <2>2. \A i \in 0..N : at[i] - n \in Int
    BY <1>2, <2>1
  <2>3. a = [i \in 0..N |-> at[i] - n]
    BY <1>3, <1>4
  <2>4. \A i \in 1..N : i \in 0..N /\ i - 1 \in 0..N
    BY <1>6
  <2> QED
    BY <2>1, <2>2, <2>3, <2>4
<1>8. k2 \in 0..N /\ a[k2] <= 0 /\ (k2 < N => a[k2 + 1] >= 1)
  <2>1. CASE n = at[k + 1]
    <3>1. k2 = k + 1 /\ k2 \in 0..N /\ a[k2] = 0
      BY <1>1, <1>2, <1>4, <1>7, <2>1
    <3>2. ASSUME k2 < N PROVE a[k2 + 1] >= 1
      <4>1. k + 1 \in 0..N /\ k2 + 1 \in 0..N /\ k + 1 < k2 + 1
        BY <1>1, <1>6, <3>1, <3>2
      <4>2. at[k + 1] < at[k2 + 1]
        BY <1>6, <4>1
      <4> QED
        BY <1>7, <2>1, <4>1, <4>2
    <3> QED
      BY <3>1, <3>2
  <2>2. CASE n # at[k + 1]
    <3>1. k2 = k /\ k \in 0..N /\ k + 1 \in 0..N
      BY <1>1, <1>4, <2>2
    <3>2. at[k] <= 0
      BY DEF CutOf
    <3>3. a[k] = at[k] - n /\ a[k + 1] = at[k + 1] - n
      BY <1>7, <3>1
    <3> QED
      BY <1>1, <1>2, <2>2, <3>1, <3>2, <3>3
  <2> QED
    BY <2>1, <2>2
<1>9. a[N] = Len(text2)
  BY <1>5, <1>6, <1>7
<1>10. \A i, j \in 0..N : i < j => a[i] < a[j]
  BY <1>2, <1>6, <1>7
<1>11. ASSUME NEW i \in 1..N PROVE a[i] = a[i - 1] + Len(TextOf(src[i]))
  <2>1. src[i] \in Source
    BY <1>4, ElementOfSeq
  <2>2. Len(TextOf(src[i])) \in Nat
    BY <2>1, TextParts, LenProperties
  <2>3. PICK l : l = Len(TextOf(src[i])) /\ l \in Nat
    BY <2>2
  <2>4. i \in 0..N /\ i - 1 \in 0..N /\ at[i] = at[i - 1] + l
    BY <1>6, <1>7, <2>3
  <2>5. a[i] = at[i] - n /\ a[i - 1] = at[i - 1] - n /\ at[i] \in Int /\ at[i - 1] \in Int
    BY <1>7, <2>4
  <2>6. a[i] = a[i - 1] + l
    BY <1>2, <2>3, <2>4, <2>5
  <2> QED
    BY <2>3, <2>6
<1>12. ASSUME NEW i \in 1..N PROVE Inside(src[i], text2, a[i - 1])
  <2>1. PICK t : t = TextOf(src[i]) /\ Len(t) \in Nat
    <3>1. src[i] \in Source
      BY <1>4, ElementOfSeq
    <3> QED
      BY <3>1, TextParts, LenProperties
  <2>2. ASSUME NEW q \in 1..Len(t), a[i - 1] + q >= 1 PROVE text2[a[i - 1] + q] = t[q]
    <3>1. a[i - 1] = at[i - 1] - n /\ at[i - 1] \in Int /\ at[i] \in Int /\ at[i] = at[i - 1] + Len(t)
      BY <1>6, <1>7, <2>1
    <3>2. at[i] <= L
      <4>1. i \in 0..N /\ N \in 0..N /\ (i = N \/ i < N)
        BY <1>6
      <4> QED
        BY <1>6, <3>1, <4>1, SMTT(60)
    <3>3. a[i - 1] + q \in 1..(L - n) /\ n + (a[i - 1] + q) = at[i - 1] + q /\ at[i - 1] + q >= 1
      <4>1. n \in Nat /\ L \in Nat /\ q \in Nat /\ q <= Len(t) /\ Len(t) \in Nat
        BY <1>2, <1>6, <2>1
      <4>2. PICK x, y, z, l : x = a[i - 1] /\ y = at[i - 1] /\ z = at[i] /\ l = Len(t)
        OBVIOUS
      <4>3. x = y - n /\ y \in Int /\ z \in Int /\ z = y + l /\ z <= L /\ x + q >= 1
        BY <2>2, <3>1, <3>2, <4>2
      <4>4. x \in Int /\ l \in Nat /\ q <= l
        BY <4>1, <4>2, <4>3, SMTT(60)
      <4>5. x + q \in 1..(L - n) /\ n + (x + q) = y + q /\ y + q >= 1
        BY <4>1, <4>3, <4>4
      <4> QED
        BY <4>2, <4>5
    <3>4. text2[a[i - 1] + q] = text[at[i - 1] + q]
      BY <1>5, <3>3
    <3>5. text[at[i - 1] + q] = t[q]
      BY <1>6, <2>1, <3>3 DEF Inside
    <3> QED
      BY <3>4, <3>5
  <2> QED
    BY <2>1, <2>2 DEF Inside
<1>13. ASSUME NEW q \in 1..Len(text2) PROVE \E i \in 1..N : i > k2 /\ a[i - 1] < q /\ q <= a[i]
  <2>1. q + n \in 1..L
    BY <1>2, <1>5, <1>6
  <2>2. PICK i \in 1..N : i > k /\ at[i - 1] < q + n /\ q + n <= at[i]
    BY <1>6, <2>1
  <2>3. a[i - 1] < q /\ q <= a[i]
    BY <1>2, <1>7, <2>2
  <2>4. i > k2
    <3>1. ASSUME i = k + 1, n = at[k + 1] PROVE FALSE
      <4>1. q + n <= n /\ q >= 1
        BY <2>2, <3>1
      <4> QED
        BY <1>2, <4>1
    <3>2. i > k + 1 \/ i = k + 1
      BY <1>1, <2>2
    <3> QED
      BY <1>1, <2>2, <3>1, <3>2
  <2> QED
    BY <2>3, <2>4
<1>14. CutOf(src, text2, k2, a)
  BY <1>4, <1>7, <1>8, <1>9, <1>10, <1>11, <1>12, <1>13 DEF CutOf
<1> QED
  BY <1>3, <1>5, <1>14

\* A record and its text are behind the others.
Grown(src, text, s, src2, text2) ==
  /\ src2 \in Seq(Source) /\ Len(src2) = Len(src) + 1
  /\ \A i \in 1..Len(src) : src2[i] = src[i]
  /\ src2[Len(src) + 1] = s
  /\ Len(text2) = Len(text) + Len(TextOf(s)) /\ Len(text) \in Nat
  /\ \A q \in 1..Len(text) : text2[q] = text[q]
  /\ \A q \in 1..Len(TextOf(s)) : text2[Len(text) + q] = TextOf(s)[q]

\* Writing a record makes the list and the text grow.
LEMMA Grows ==
  ASSUME NEW src \in Seq(Source), NEW text \in Seq(Token), NEW s \in Source
  PROVE  Grown(src, text, s, Append(src, s), text \o TextOf(s))
<1>1. PICK src2 : src2 = Append(src, s)
  OBVIOUS
<1>2. PICK t, text2 : t = TextOf(s) /\ text2 = text \o t
  OBVIOUS
<1>3. src2 \in Seq(Source) /\ Len(src2) = Len(src) + 1
      /\ (\A i \in 1..Len(src) : src2[i] = src[i]) /\ src2[Len(src) + 1] = s
  BY <1>1, AppendProperties
<1>4. t \in Seq(Token)
  BY <1>2, TextParts
<1>5. Len(text2) = Len(text) + Len(t) /\ Len(text) \in Nat
      /\ (\A q \in 1..Len(text) : text2[q] = text[q])
      /\ \A q \in 1..Len(t) : text2[Len(text) + q] = t[q]
  BY <1>2, <1>4, Behind
<1>6. Grown(src, text, s, src2, text2)
  BY <1>2, <1>3, <1>5 DEF Grown
<1> QED
  BY <1>1, <1>2, <1>6

\* All of the text is still to be read when a record is written.
LEMMA CutGrows ==
  ASSUME NEW src \in Seq(Source), NEW text, NEW at, CutOf(src, text, 0, at), at[0] = 0,
         NEW s \in Source, NEW src2, NEW text2, Grown(src, text, s, src2, text2)
  PROVE  \E a : CutOf(src2, text2, 0, a) /\ a[0] = 0
<1>1. PICK N, L, t, l : N = Len(src) /\ L = Len(text) /\ t = TextOf(s) /\ l = Len(t)
  OBVIOUS
<1>2. /\ N \in Nat /\ L \in Nat /\ l \in Nat /\ l >= 1
  BY <1>1, TextLen, CutPlaces DEF Grown
<1>3. /\ src2 \in Seq(Source) /\ Len(src2) = N + 1 /\ (\A i \in 1..N : src2[i] = src[i])
      /\ src2[N + 1] = s /\ Len(text2) = L + l /\ (\A q \in 1..L : text2[q] = text[q])
      /\ \A q \in 1..l : text2[L + q] = t[q]
  BY <1>1 DEF Grown
<1>4. /\ \A i \in 0..N : at[i] \in Int /\ at[i] <= L
      /\ at[N] = L
      /\ \A i \in 1..N : /\ at[i - 1] \in Int /\ at[i] \in Int
                         /\ at[i] = at[i - 1] + Len(TextOf(src[i])) /\ Len(TextOf(src[i])) \in Nat
                         /\ Inside(src[i], text, at[i - 1])
  <2>1. /\ \A i \in 0..N : at[i] \in Int /\ at[i] <= at[N]
        /\ at[N] = L
    BY <1>1, CutPlaces
  <2>2. \A i \in 1..N : /\ at[i - 1] \in Int /\ at[i] \in Int
                        /\ at[i] = at[i - 1] + Len(TextOf(src[i])) /\ Len(TextOf(src[i])) \in Nat
                        /\ Inside(src[i], text, at[i - 1])
    <3>1. \A i \in 1..Len(src) : /\ at[i - 1] \in Int /\ at[i] \in Int
                                 /\ at[i] = at[i - 1] + Len(TextOf(src[i])) /\ Len(TextOf(src[i])) \in Nat
                                 /\ Inside(src[i], text, at[i - 1])
      BY CutPlaces
    <3> QED
      BY <1>1, <3>1
  <2> QED
    BY <2>1, <2>2
<1>5. /\ \A i, j \in 0..N : i < j => at[i] < at[j]
      /\ 0 < N => at[1] >= 1
      /\ \A q \in 1..L : \E i \in 1..N : i > 0 /\ at[i - 1] < q /\ q <= at[i]
  <2>1. 0 + 1 = 1
    OBVIOUS
  <2> QED
    BY <1>1, <2>1 DEF CutOf
<1>6. PICK a : a = [i \in 0..(N + 1) |-> IF i <= N THEN at[i] ELSE L + l]
  OBVIOUS
<1>7. /\ \A i \in 0..N : i \in 0..(N + 1) /\ a[i] = at[i]
      /\ a[N + 1] = L + l /\ N + 1 \in 0..(N + 1) /\ 0 \in 0..N
  BY <1>2, <1>6
<1>8. \A i \in 0..(N + 1) : i \in 0..N \/ i = N + 1
  BY <1>2
<1>9. \A i \in 0..(N + 1) : a[i] \in Int
  <2>1. L + l \in Int
    BY <1>2
  <2>2. \A i \in 0..N : a[i] \in Int
    BY <1>4, <1>7
  <2> QED
    BY <1>7, <1>8, <2>1, <2>2
<1>10. a \in [0..(N + 1) -> Int]
  BY <1>6, <1>9
<1>11. ASSUME NEW i \in 0..(N + 1), NEW j \in 0..(N + 1), i < j PROVE a[i] < a[j]
  <2>1. i \in 0..N
    BY <1>2, <1>11
  <2>2. a[i] = at[i] /\ at[i] \in Int /\ at[i] <= L
    BY <1>4, <1>7, <2>1
  <2>3. CASE j \in 0..N
    BY <1>5, <1>7, <1>11, <2>1, <2>3
  <2>4. CASE j = N + 1
    BY <1>2, <1>7, <2>2, <2>4
  <2> QED
    BY <1>8, <2>3, <2>4
<1>12. a[0] = 0 /\ a[0 + 1] >= 1
  <2>1. a[0] = 0
    BY <1>7
  <2>2. 0 \in 0..(N + 1) /\ 0 + 1 \in 0..(N + 1) /\ 0 < 0 + 1
    BY <1>2
  <2>3. a[0] < a[0 + 1] /\ a[0 + 1] \in Int
    BY <1>9, <1>11, <2>2
  <2> QED
    BY <2>1, <2>3
<1>13. ASSUME NEW i \in 1..(N + 1)
       PROVE  a[i] = a[i - 1] + Len(TextOf(src2[i])) /\ Inside(src2[i], text2, a[i - 1])
  <2>1. CASE i \in 1..N
    <3>1. i \in 0..N /\ i - 1 \in 0..N
      BY <1>2, <2>1
    <3>2. src2[i] = src[i] /\ a[i] = at[i] /\ a[i - 1] = at[i - 1]
      BY <1>3, <1>7, <2>1, <3>1
    <3>3. PICK u : u = TextOf(src[i]) /\ Len(u) \in Nat
      BY <1>4, <2>1
    <3>4. at[i - 1] \in Int /\ at[i] \in Int /\ at[i] = at[i - 1] + Len(u) /\ at[i] <= L
      BY <1>4, <2>1, <3>1, <3>3
    <3>5. ASSUME NEW q \in 1..Len(u), at[i - 1] + q >= 1 PROVE text2[at[i - 1] + q] = u[q]
      <4>1. at[i - 1] + q \in 1..L
        BY <1>2, <3>3, <3>4, <3>5
      <4>2. text[at[i - 1] + q] = u[q]
        BY <1>4, <2>1, <3>3, <3>5 DEF Inside
      <4> QED
        BY <1>3, <4>1, <4>2
    <3> QED
      BY <3>2, <3>3, <3>4, <3>5 DEF Inside
  <2>2. CASE i = N + 1
    <3>1. i - 1 = N /\ src2[i] = s /\ a[i] = L + l /\ a[i - 1] = L
      BY <1>2, <1>3, <1>4, <1>7, <2>2
    <3>2. Inside(s, text2, L)
      BY <1>1, <1>3 DEF Inside
    <3> QED
      BY <1>1, <3>1, <3>2
  <2>3. i \in 1..N \/ i = N + 1
    BY <1>2
  <2> QED
    BY <2>1, <2>2, <2>3
<1>14. ASSUME NEW q \in 1..(L + l) PROVE \E i \in 1..(N + 1) : i > 0 /\ a[i - 1] < q /\ q <= a[i]
  <2>1. CASE q \in 1..L
    <3>1. PICK i \in 1..N : i > 0 /\ at[i - 1] < q /\ q <= at[i]
      BY <1>5, <2>1
    <3>2. i \in 1..(N + 1) /\ i \in 0..N /\ i - 1 \in 0..N
      BY <1>2
    <3> QED
      BY <1>7, <3>1, <3>2
  <2>2. CASE q > L
    <3>1. N + 1 \in 1..(N + 1) /\ N + 1 > 0 /\ (N + 1) - 1 = N /\ N \in 0..N
      BY <1>2
    <3>2. a[(N + 1) - 1] < q /\ q <= a[N + 1]
      BY <1>2, <1>4, <1>7, <2>2, <3>1
    <3> QED
      BY <3>1, <3>2
  <2> QED
    BY <1>2, <2>1, <2>2
<1>15. CutOf(src2, text2, 0, a)
  <2>1. 0 \in 0..Len(src2) /\ a[Len(src2)] = Len(text2) /\ a[0] <= 0
    BY <1>2, <1>3, <1>7, <1>12
  <2> QED
    BY <1>3, <1>10, <1>11, <1>12, <1>13, <1>14, <2>1 DEF CutOf
<1> QED
  BY <1>12, <1>15

-----------------------------------------------------------------------------
(* AdifText: which record is which *)

\* A record of the file is what the reader keeps of one that was written, up to the first
\* value that has an end in it.
RowIs(row, s) == \A i \in 1..4 : SafeTo(s, i) => row[fields[i]] = KeptValue(s, i)

\* A record that is not empty: only such a one is read.
Full(s) == s.rec # EmptyRec

\* Of the records read, up to last, m tells for each of the first k that were written which
\* it is, in their order; no value has an end: there are no others.
RecordsMatch(src, k, qsos, last, m) ==
  /\ m \in [{i \in 1..k : Full(src[i])} -> 1..last]
  /\ \A i, j \in 1..k : Full(src[i]) /\ Full(src[j]) /\ j < i => m[j] < m[i]
  /\ \A i \in 1..k : Full(src[i]) => RowIs(qsos[m[i]], src[i])
  /\ Plain(src) => \A r \in 1..last : \E i \in 1..k : Full(src[i]) /\ m[i] = r

\* An empty record is not read.
LEMMA MatchEmpty ==
  ASSUME NEW src, NEW k \in Nat, NEW qsos, NEW last, NEW m, RecordsMatch(src, k, qsos, last, m),
         ~Full(src[k + 1])
  PROVE  RecordsMatch(src, k + 1, qsos, last, m)
<1>1. \A i \in 1..(k + 1) : i \in 1..k \/ i = k + 1
  OBVIOUS
<1>2. \A i \in 1..k : i \in 1..(k + 1)
  OBVIOUS
<1>3. {i \in 1..(k + 1) : Full(src[i])} = {i \in 1..k : Full(src[i])}
  BY <1>1, <1>2
<1>4. m \in [{i \in 1..(k + 1) : Full(src[i])} -> 1..last]
  BY <1>3 DEF RecordsMatch
<1>5. \A i, j \in 1..(k + 1) : Full(src[i]) /\ Full(src[j]) /\ j < i => m[j] < m[i]
  BY <1>1 DEF RecordsMatch
<1>6. \A i \in 1..(k + 1) : Full(src[i]) => RowIs(qsos[m[i]], src[i])
  BY <1>1 DEF RecordsMatch
<1>7. Plain(src) => \A r \in 1..last : \E i \in 1..(k + 1) : Full(src[i]) /\ m[i] = r
  BY <1>2 DEF RecordsMatch
<1> QED
  BY <1>4, <1>5, <1>6, <1>7 DEF RecordsMatch

\* The next record is the one behind the last.
LEMMA MatchNext ==
  ASSUME NEW src, NEW k \in Nat, NEW qsos, NEW last \in Nat, NEW m, RecordsMatch(src, k, qsos, last, m),
         Full(src[k + 1]), RowIs(qsos[last + 1], src[k + 1])
  PROVE  \E m2 : RecordsMatch(src, k + 1, qsos, last + 1, m2)
<1>1. \A i \in 1..(k + 1) : i \in 1..k \/ i = k + 1
  OBVIOUS
<1>2. \A i \in 1..k : i \in 1..(k + 1) /\ i # k + 1
  OBVIOUS
<1>3. PICK S, T : S = {i \in 1..k : Full(src[i])} /\ T = {i \in 1..(k + 1) : Full(src[i])}
  OBVIOUS
<1>4. PICK m2 : m2 = [i \in T |-> IF i = k + 1 THEN last + 1 ELSE m[i]]
  OBVIOUS
<1>5. m \in [S -> 1..last]
  BY <1>3 DEF RecordsMatch
<1>6. m2[k + 1] = last + 1 /\ \A i \in S : m2[i] = m[i] /\ m[i] \in 1..last
  BY <1>2, <1>3, <1>4, <1>5
<1>7. m2 \in [T -> 1..(last + 1)]
  <2>1. ASSUME NEW i \in T PROVE (IF i = k + 1 THEN last + 1 ELSE m[i]) \in 1..(last + 1)
    BY <1>1, <1>3, <1>6
  <2> QED
    BY <1>4, <2>1
<1>8. ASSUME NEW i \in 1..(k + 1), NEW j \in 1..(k + 1), Full(src[i]), Full(src[j]), j < i
      PROVE  m2[j] < m2[i]
  <2>1. j \in 1..k /\ j \in S
    BY <1>3, <1>8
  <2>2. CASE i = k + 1
    BY <1>6, <2>1, <2>2
  <2>3. CASE i \in 1..k
    <3>1. m[j] < m[i]
      BY <1>8, <2>1, <2>3 DEF RecordsMatch
    <3>2. i \in S
      BY <1>3, <1>8, <2>3
    <3> QED
      BY <1>6, <2>1, <3>1, <3>2
  <2> QED
    BY <1>1, <2>2, <2>3
<1>9. ASSUME NEW i \in 1..(k + 1), Full(src[i]) PROVE RowIs(qsos[m2[i]], src[i])
  <2>1. CASE i = k + 1
    BY <1>6, <2>1
  <2>2. CASE i \in 1..k
    <3>1. RowIs(qsos[m[i]], src[i])
      BY <1>9, <2>2 DEF RecordsMatch
    <3>2. i \in S
      BY <1>3, <1>9, <2>2
    <3> QED
      BY <1>6, <3>1, <3>2
  <2> QED
    BY <1>1, <2>1, <2>2
<1>10. ASSUME Plain(src), NEW r \in 1..(last + 1)
       PROVE  \E i \in 1..(k + 1) : Full(src[i]) /\ m2[i] = r
  <2>1. CASE r = last + 1
    <3>1. k + 1 \in 1..(k + 1)
      OBVIOUS
    <3> QED
      BY <1>6, <2>1, <3>1
  <2>2. CASE r \in 1..last
    <3>1. PICK i \in 1..k : Full(src[i]) /\ m[i] = r
      BY <1>10, <2>2 DEF RecordsMatch
    <3>2. i \in S /\ i \in 1..(k + 1)
      BY <1>2, <1>3, <3>1
    <3> QED
      BY <1>6, <3>1, <3>2
  <2>3. r = last + 1 \/ r \in 1..last
    OBVIOUS
  <2> QED
    BY <2>1, <2>2, <2>3
<1>11. RecordsMatch(src, k + 1, qsos, last + 1, m2)
  BY <1>3, <1>7, <1>8, <1>9, <1>10 DEF RecordsMatch
<1> QED
  BY <1>11

\* What is read behind them changes nothing; if a value has an end there may be more.
LEMMA MatchStays ==
  ASSUME NEW src, NEW k, NEW qsos, NEW last \in Nat, NEW m, RecordsMatch(src, k, qsos, last, m),
         NEW qsos2, \A r \in 1..last : qsos2[r] = qsos[r],
         NEW last2 \in Nat, last2 = last \/ (last <= last2 /\ ~Plain(src))
  PROVE  RecordsMatch(src, k, qsos2, last2, m)
<1>1. PICK S : S = {i \in 1..k : Full(src[i])}
  OBVIOUS
<1>2. m \in [S -> 1..last] /\ \A i \in 1..k : Full(src[i]) => i \in S /\ m[i] \in 1..last
  BY <1>1 DEF RecordsMatch
<1>3. m \in [S -> 1..last2]
  <2>1. 1..last \subseteq 1..last2
    OBVIOUS
  <2> QED
    BY <1>2, <2>1
<1>4. ASSUME NEW i \in 1..k, Full(src[i]) PROVE RowIs(qsos2[m[i]], src[i])
  <2>1. RowIs(qsos[m[i]], src[i])
    BY <1>4 DEF RecordsMatch
  <2> QED
    BY <1>2, <1>4, <2>1
<1>5. \A i, j \in 1..k : Full(src[i]) /\ Full(src[j]) /\ j < i => m[j] < m[i]
  BY DEF RecordsMatch
<1>6. Plain(src) => \A r \in 1..last2 : \E i \in 1..k : Full(src[i]) /\ m[i] = r
  BY DEF RecordsMatch
<1> QED
  BY <1>1, <1>3, <1>4, <1>5, <1>6 DEF RecordsMatch

-----------------------------------------------------------------------------
(* AdifText: within a record *)

\* The first j fields of s are read: q is the record they are in, if they are not empty.
AfterFields(s, j, qsos, q) ==
  /\ q = 0 <=> \A i \in 1..j : Value(s, i) = <<>>
  /\ q # 0 => /\ \A i \in 1..j : qsos[q][fields[i]] = KeptValue(s, i)
              /\ \A i \in (j + 1)..4 : qsos[q][fields[i]] = <<>>

\* Where the reader is in the text of s: before its fields, behind some of them, or nowhere
\* for an end in a value made the record seem corrupt.
InRecord(src, s, qsos, n, q) ==
  \/ n \in 1..Off(s, 0) /\ q = 0
  \/ \E j \in 0..4 : n = Off(s, j) + 1 /\ AfterFields(s, j, qsos, q)
  \/ n = 0 /\ q # 0 /\ ~Plain(src) /\ RowIs(qsos[q], s)

\* A record is not empty if one of its fields is not.
LEMMA FullIs ==
  ASSUME NEW s \in Source
  PROVE  Full(s) <=> \E i \in 1..4 : Value(s, i) # <<>>
<1>1. s.rec = [f \in Field |-> s.rec[f]]
  BY SourceType
<1>2. Full(s) <=> \E f \in Field : s.rec[f] # <<>>
  BY <1>1 DEF Full, EmptyRec
<1> QED
  BY <1>2, FieldPlaces DEF Value

\* At the end of its text a record is read.
LEMMA AfterAll ==
  ASSUME NEW s \in Source, NEW j \in 0..4, NoneIsNext(s, j), NEW qsos, NEW q, AfterFields(s, j, qsos, q)
  PROVE  /\ q = 0 <=> ~Full(s)
         /\ q # 0 => RowIs(qsos[q], s)
<1>1. \A i \in 1..4 : i \in 1..j \/ i \in (j + 1)..4
  OBVIOUS
<1>2. \A i \in 1..j : i \in 1..4
  OBVIOUS
<1>3. \A i \in (j + 1)..4 : Value(s, i) = <<>>
  BY DEF NoneIsNext
<1>4. q = 0 <=> ~Full(s)
  BY <1>1, <1>2, <1>3, FullIs DEF AfterFields
<1>5. ASSUME q # 0, NEW i \in 1..4 PROVE qsos[q][fields[i]] = KeptValue(s, i)
  <2>1. CASE i \in 1..j
    BY <1>5, <2>1 DEF AfterFields
  <2>2. CASE i \in (j + 1)..4
    <3>1. KeptValue(s, i) = <<>>
      BY <1>3, <2>2 DEF KeptValue
    <3> QED
      BY <1>5, <2>2, <3>1 DEF AfterFields
  <2> QED
    BY <1>1, <2>1, <2>2
<1> QED
  BY <1>4, <1>5 DEF RowIs

\* When the next field is set, the fields up to it are read.
LEMMA AfterNext ==
  ASSUME NEW s \in Source, NEW j \in 0..4, NEW i \in 1..4, IsNext(s, j, i),
         NEW qsos, NEW q, AfterFields(s, j, qsos, q),
         NEW q2, NEW e, IsSet(qsos, q, q2, fields[i], KeptValue(s, i), e)
  PROVE  q2 # 0 /\ AfterFields(s, i, e, q2)
<1>1. q2 # 0 /\ e[q2][fields[i]] = KeptValue(s, i)
  BY LenProperties DEF IsSet
<1>2. \A l \in 1..4 : l # i => e[q2][fields[l]] = IF q = 0 THEN <<>> ELSE qsos[q][fields[l]]
  BY FieldPlaces DEF IsSet
<1>3. /\ i \in (j + 1)..4 /\ Value(s, i) # <<>>
      /\ \A l \in (j + 1)..(i - 1) : Value(s, l) = <<>>
  BY DEF IsNext
<1>4. ASSUME NEW l \in 1..i PROVE e[q2][fields[l]] = KeptValue(s, l)
  <2>1. CASE l = i
    BY <1>1, <2>1
  <2>2. CASE l \in (j + 1)..(i - 1)
    <3>1. KeptValue(s, l) = <<>> /\ l \in (j + 1)..4 /\ l # i /\ l \in 1..4
      BY <1>3, <2>2 DEF KeptValue
    <3>2. q # 0 => qsos[q][fields[l]] = <<>>
      BY <3>1 DEF AfterFields
    <3> QED
      BY <1>2, <3>1, <3>2
  <2>3. CASE l \in 1..j
    <3>1. l # i /\ l \in 1..4
      BY <1>3, <2>3
    <3>2. CASE q = 0
      <4>1. KeptValue(s, l) = <<>>
        BY <2>3, <3>2 DEF AfterFields, KeptValue
      <4> QED
        BY <1>2, <3>1, <3>2, <4>1
    <3>3. CASE q # 0
      BY <1>2, <2>3, <3>1, <3>3 DEF AfterFields
    <3> QED
      BY <3>2, <3>3
  <2>4. l = i \/ l \in (j + 1)..(i - 1) \/ l \in 1..j
    BY <1>3
  <2> QED
    BY <2>1, <2>2, <2>3, <2>4
<1>5. ASSUME NEW l \in (i + 1)..4 PROVE e[q2][fields[l]] = <<>>
  <2>1. l # i /\ l \in 1..4 /\ l \in (j + 1)..4
    BY <1>3
  <2>2. q # 0 => qsos[q][fields[l]] = <<>>
    BY <2>1 DEF AfterFields
  <2> QED
    BY <1>2, <2>1, <2>2
<1>6. ~(\A l \in 1..i : Value(s, l) = <<>>)
  BY <1>3
<1> QED
  BY <1>1, <1>4, <1>5, <1>6 DEF AfterFields

\* If that field has an end in it, all that precede it are read.
LEMMA AfterUnsafe ==
  ASSUME NEW s \in Source, NEW i \in 1..4, ~SafeTo(s, i), NEW qsos, NEW q, q # 0,
         AfterFields(s, i, qsos, q)
  PROVE  RowIs(qsos[q], s)
<1>1. ASSUME NEW l \in 1..4, SafeTo(s, l) PROVE qsos[q][fields[l]] = KeptValue(s, l)
  <2>1. l \in 1..i
    <3>1. ASSUME l > i PROVE FALSE
      <4>1. \A n \in 1..i : n \in 1..l
        BY <3>1
      <4> QED
        BY <1>1, <4>1 DEF SafeTo
    <3> QED
      BY <3>1
  <2> QED
    BY <2>1 DEF AfterFields
<1> QED
  BY <1>1 DEF RowIs

\* The text of the next record is at the beginning of what is left, if none of it is read.
LEMMA ThisRecord ==
  ASSUME NEW src \in Seq(Source), NEW text \in Seq(Token), NEW k, NEW at, CutOf(src, text, k, at),
         k < Len(src), at[k] = 0, NEW s, s = src[k + 1], NEW q \in 1..(Off(s, 4) + 1)
  PROVE  q \in 1..Len(text) /\ q \in 1..Len(TextOf(s)) /\ text[q] = TextOf(s)[q]
<1>1. /\ k \in Nat /\ k + 1 \in 1..Len(src) /\ s \in Source
      /\ at[k + 1] \in 1..Len(text) /\ at[k + 1] = at[k] + Off(s, 4) + 1 /\ Len(text) \in Int
  BY CutEnd
<1>2. Len(TextOf(s)) = Off(s, 4) + 1 /\ Off(s, 4) \in Nat
  BY <1>1, TextLen
<1>3. (k + 1) - 1 = k
  BY <1>1
<1>4. Inside(s, text, at[k])
  BY <1>1, <1>3, CutPlaces
<1>5. q \in 1..Len(TextOf(s)) /\ 0 + q = q /\ q >= 1
  BY <1>2
<1>6. text[q] = TextOf(s)[q]
  BY <1>4, <1>5 DEF Inside
<1>7. q \in 1..Len(text)
  BY <1>1, <1>2
<1> QED
  BY <1>5, <1>6, <1>7

\* The next '<' in it: before the fields, or at the next one or the end
LEMMA NextInRecord ==
  ASSUME NEW src \in Seq(Source), NEW text \in Seq(Token), NEW k, NEW at, CutOf(src, text, k, at),
         k < Len(src), at[k] = 0, NEW s, s = src[k + 1], NEW j \in 0..4,
         NEW from \in Nat, from >= 1, from <= Off(s, j) + 1
  PROVE  /\ Next_lt(text, from) \in Nat /\ Next_lt(text, from) >= from
         /\ Next_lt(text, from) <= Off(s, j) + 1
<1>1. s \in Source
  BY CutEnd
<1>2. Off(s, j) \in Nat /\ Off(s, 4) \in Nat /\ Off(s, j) <= Off(s, 4)
  <2>1. j <= 4 /\ 4 \in 0..4
    OBVIOUS
  <2> QED
    BY <1>1, <2>1, OffNat, OffSteps
<1>3. PICK q : q = Off(s, j) + 1
  OBVIOUS
<1>4. q \in 1..(Off(s, 4) + 1) /\ q >= from
  BY <1>2, <1>3
<1>5. q \in 1..Len(text) /\ text[q] = TextOf(s)[q]
  BY <1>4, ThisRecord
<1>6. Begins(text[q])
  BY <1>1, <1>3, <1>5, BeginsThere
<1>7. DOMAIN text = 1..Len(text) /\ Len(text) \in Nat
  BY LenProperties
<1>8. PICK n : n = Next_lt(text, from)
  OBVIOUS
<1>9. n \in 0..Len(text) /\ (n # 0 => n >= from) /\ n # 0 /\ n <= q
  BY <1>4, <1>5, <1>6, <1>7, <1>8, NextLtFinds
<1> QED
  BY <1>3, <1>7, <1>8, <1>9

-----------------------------------------------------------------------------
(* AdifText: the inductive invariant of the reader of a file *)

\* Between two records: those that were written before the text are read, the one it is in too.
ScanAt(k, at, m) ==
  /\ CutOf(source, sbuff, k, at)
  /\ at[k] # 0 => ~Plain(source)
  /\ RecordsMatch(source, IF at[k] = 0 THEN k ELSE k + 1, db, Len(db), m)

\* Within a record: base records were read before it, and adifqso is the one behind them.
FieldsAt(k, at, m, base) ==
  /\ CutOf(source, sbuff, k, at) /\ k < Len(source)
  /\ p = FindEor(sbuff)
  /\ adifqso \in {0, Len(db)} /\ base = IF adifqso = 0 THEN Len(db) ELSE Len(db) - 1
  /\ \/ at[k] < 0 /\ ~Plain(source) /\ RecordsMatch(source, k + 1, db, base, m)
     \/ /\ at[k] = 0 /\ RecordsMatch(source, k, db, base, m)
        /\ InRecord(source, source[k + 1], db, ptr, adifqso)

ReadsOn ==
  /\ doing = "scan" => \E k, at, m : ScanAt(k, at, m)
  /\ doing = "fields" => \E k, at, m, base : FieldsAt(k, at, m, base)
  /\ doing = "done" => \E m : RecordsMatch(source, Len(source), db, Len(db), m)

\* The invariant: while records are written nothing is read, and then what is read and what
\* is left of the text belong together.
ReaderInv ==
  ~call =>
    /\ doing # "call"
    /\ doing = "write" => db = <<>> /\ \E at : CutOf(source, sbuff, 0, at) /\ at[0] = 0
    /\ doing # "write" /\ (Plain(source) \/ Upper(source)) => ReadsOn

\* What of a plain log is known of each record
LEMMA PlainSafe ==
  ASSUME NEW src \in Seq(Source), Plain(src), NEW r \in 1..Len(src), NEW j \in 0..4
  PROVE  SafeTo(src[r], j)
<1>1. r \in DOMAIN src
  BY LenProperties
<1>2. SafeTo(src[r], 4)
  BY <1>1 DEF Plain
<1>3. \A i \in 1..j : i \in 1..4
  OBVIOUS
<1> QED
  BY <1>2, <1>3 DEF SafeTo

\* What is before the records of such a log is passed over.
LEMMA FrontsPassed ==
  ASSUME NEW src \in Seq(Source), Plain(src) \/ Upper(src), NEW r \in 1..Len(src)
  PROVE  Passed(src[r].before)
<1>1. r \in DOMAIN src
  BY LenProperties
<1> QED
  BY <1>1 DEF Plain, Upper

\* The reader looks at the tag of the i-th field of s, and its value is behind it.
Reads(s, i) ==
  /\ Found /\ findfield(sbuff[ptr][2]) = fields[i]
  /\ sbuff[ptr][3] = Len(Value(s, i)) /\ sbuff[ptr] \notin {Eor, eor}
  /\ Following(sbuff, ptr, Len(Value(s, i))) = Value(s, i)
  /\ ptr + (Len(Value(s, i)) + 1) = Off(s, i) + 1

\* Where the next field of a record is, the reader looks at it; if none is, at the end.
LEMMA LooksAt ==
  ASSUME TextType, NEW k, NEW at, CutOf(source, sbuff, k, at), k < Len(source), at[k] = 0,
         NEW s, s = source[k + 1], NEW j \in 0..4, ptr = Off(s, j) + 1
  PROVE  /\ NoneIsNext(s, j) => sbuff[ptr] \in {Eor, eor} /\ ~IsTag(sbuff[ptr])
         /\ \A i \in 1..4 : IsNext(s, j, i) => Reads(s, i)
<1>1. source \in Seq(Source) /\ sbuff \in Seq(Token)
  BY DEF TextType
<1>2. s \in Source
  BY <1>1, CutEnd
<1>3. Off(s, j) \in Nat /\ Off(s, 4) \in Nat /\ Off(s, j) <= Off(s, 4)
  <2>1. j <= 4 /\ 4 \in 0..4
    OBVIOUS
  <2> QED
    BY <1>2, <2>1, OffNat, OffSteps
<1>4. ptr \in 1..(Off(s, 4) + 1) /\ ptr \in Nat
  BY <1>3
<1>5. sbuff[ptr] = TextOf(s)[ptr]
  BY <1>1, <1>4, ThisRecord
<1>6. ASSUME NoneIsNext(s, j) PROVE sbuff[ptr] \in {Eor, eor} /\ ~IsTag(sbuff[ptr])
  <2>1. sbuff[ptr] = s.end
    BY <1>2, <1>5, <1>6, BeginsThere
  <2> QED
    BY <1>2, <2>1, SourceType, Tokens
<1>7. ASSUME NEW i \in 1..4, IsNext(s, j, i) PROVE Reads(s, i)
  <2>1. sbuff[ptr] = Tag(fields[i], Len(Value(s, i)))
    BY <1>2, <1>5, <1>7, BeginsThere
  <2>2. /\ IsTag(sbuff[ptr]) /\ findfield(sbuff[ptr][2]) = fields[i]
        /\ sbuff[ptr][3] = Len(Value(s, i)) /\ sbuff[ptr] \notin {Eor, eor}
    BY <2>1, Tokens, FindsTheField
  <2>3. fields[i] # NoField
    BY FieldPlaces, FindsAField
  <2>4. PICK n : n = Len(Value(s, i))
    OBVIOUS
  <2>5. /\ n \in Nat /\ Value(s, i) # <<>> /\ Off(s, i - 1) = Off(s, j)
        /\ Off(s, i) = Off(s, i - 1) + n + 1
        /\ \A q \in 1..n : TextOf(s)[Off(s, i - 1) + 1 + q] = Value(s, i)[q]
    BY <1>2, <1>7, <2>4, PartIs DEF IsNext
  <2>6. ptr + (n + 1) = Off(s, i) + 1
    BY <1>3, <2>5
  <2>7. Off(s, i) <= Off(s, 4) /\ Off(s, i) \in Nat
    <3>1. i \in 0..4 /\ i <= 4 /\ 4 \in 0..4
      OBVIOUS
    <3> QED
      BY <1>2, <3>1, OffNat, OffSteps
  <2>8. \A q \in 1..n : sbuff[ptr + q] = Value(s, i)[q]
    <3>1. ASSUME NEW q \in 1..n PROVE sbuff[ptr + q] = Value(s, i)[q]
      <4>1. ptr + q \in 1..(Off(s, 4) + 1)
        <5>1. q \in Nat /\ q <= n /\ n \in Nat
          BY <2>4, <2>5
        <5>2. PICK a, b : a = Off(s, i) /\ b = Off(s, 4)
          OBVIOUS
        <5>3. ptr \in Nat /\ ptr >= 1 /\ ptr + (n + 1) = a + 1 /\ a <= b /\ a \in Nat /\ b \in Nat
          BY <1>3, <1>4, <2>6, <2>7, <5>2
        <5>4. ptr + q \in 1..(b + 1)
          BY <5>1, <5>3
        <5> QED
          BY <5>2, <5>4
      <4>2. sbuff[ptr + q] = TextOf(s)[ptr + q]
        BY <1>1, <4>1, ThisRecord
      <4>3. ptr + q = Off(s, i - 1) + 1 + q
        BY <2>5
      <4> QED
        BY <2>5, <4>2, <4>3
    <3> QED
      BY <3>1
  <2>9. Stands(Value(s, i), sbuff, ptr)
    BY <2>4, <2>8 DEF Stands
  <2>10. Following(sbuff, ptr, n) = Value(s, i)
    <3>1. PICK text, o : text = sbuff /\ o = ptr
      OBVIOUS
    <3>2. Stands(Value(s, i), text, o) /\ o \in Nat
      BY <1>4, <2>9, <3>1
    <3>3. Following(text, o, n) = Value(s, i)
      BY <1>2, <2>4, <2>5, <3>2, ValueIsRead
    <3> QED
      BY <3>1, <3>3
  <2> QED
    BY <2>2, <2>3, <2>4, <2>6, <2>10 DEF Found, Reads
<1> QED
  BY <1>6, <1>7

\* What the reader of a file does at a known tag
LEMMA FieldsKnown ==
  ASSUME TextType, ~call, Plain(source) \/ Upper(source), Known,
         NEW k, NEW at, NEW m, NEW base, FieldsAt(k, at, m, base)
  PROVE  FieldsAt(k, at, m, base)'
<1>1. source \in Seq(Source) /\ sbuff \in Seq(Token) /\ Len(db) \in Nat
  BY LenProperties DEF TextType, IsRows
<1>2. CutOf(source, sbuff, k, at) /\ k < Len(source) /\ p = FindEor(sbuff)
  BY DEF FieldsAt
<1>3. PICK f, n, q2 : /\ f = findfield(sbuff[ptr][2]) /\ n = sbuff[ptr][3]
                      /\ q2 = IF adifqso = 0 THEN Len(db) + 1 ELSE adifqso
  OBVIOUS
<1>4. /\ f \in Field /\ ptr \in 1..Len(sbuff) /\ n \in Nat /\ IsTag(sbuff[ptr]) /\ adifqso' = q2
      /\ IsSet(db, adifqso, q2, f, Kept(f, Following(sbuff, ptr, n)), db')
      /\ Advance(n + 1) /\ UNCHANGED <<source, call, doing, sbuff, p>>
  BY <1>3, KnownSets DEF Following
<1>5. /\ q2 \in 1..Len(db') /\ \A i \in 1..Len(db) : i # q2 => db'[i] = db[i]
      /\ Len(db') = IF adifqso = 0 THEN Len(db) + 1 ELSE Len(db)
  BY <1>4 DEF IsSet
<1>6. adifqso \in {0, Len(db)} /\ base = IF adifqso = 0 THEN Len(db) ELSE Len(db) - 1
  BY DEF FieldsAt
<1>7. /\ adifqso' = Len(db') /\ adifqso' # 0 /\ base = Len(db') - 1 /\ base \in Nat /\ q2 = base + 1
      /\ base <= Len(db)
  BY <1>1, <1>3, <1>4, <1>5, <1>6
<1>8. \A r \in 1..base : db'[r] = db[r]
  <2>1. \A r \in 1..base : r \in 1..Len(db) /\ r # q2
    BY <1>1, <1>7
  <2> QED
    BY <1>5, <2>1
<1>9. CASE at[k] < 0
  <2>1. ~Plain(source) /\ RecordsMatch(source, k + 1, db, base, m)
    BY <1>9 DEF FieldsAt
  <2>2. RecordsMatch(source, k + 1, db', base, m)
    BY <1>7, <1>8, <2>1, MatchStays
  <2> QED
    BY <1>2, <1>4, <1>7, <1>9, <2>1, <2>2 DEF FieldsAt
<1>10. CASE at[k] = 0
  <2>1. PICK s : s = source[k + 1] /\ s \in Source /\ Passed(s.before)
    BY <1>1, <1>2, CutEnd, FrontsPassed
  <2>2. RecordsMatch(source, k, db, base, m) /\ InRecord(source, s, db, ptr, adifqso)
    BY <1>10, <2>1 DEF FieldsAt
  <2>3. RecordsMatch(source, k, db', base, m)
    BY <1>7, <1>8, <2>2, MatchStays
  <2>4. ptr # 0 /\ Found
    BY <1>4 DEF Known
  <2>5. ~(ptr \in 1..Off(s, 0))
    <3>1. ASSUME ptr \in 1..Off(s, 0) PROVE FALSE
      <4>1. ptr \in 1..(Off(s, 4) + 1)
        <5>1. Off(s, 0) \in Nat /\ Off(s, 4) \in Nat /\ Off(s, 0) <= Off(s, 4)
          <6>1. 0 \in 0..4 /\ 4 \in 0..4 /\ 0 <= 4
            OBVIOUS
          <6> QED
            BY <2>1, <6>1, OffNat, OffSteps
        <5> QED
          BY <3>1, <5>1
      <4>2. sbuff[ptr] = TextOf(s)[ptr]
        BY <1>1, <1>2, <1>10, <2>1, <4>1, ThisRecord
      <4>3. findfield(sbuff[ptr][2]) = NoField
        BY <1>4, <2>1, <3>1, <4>2, FrontIsPassed
      <4> QED
        BY <2>4, <4>3 DEF Found
    <3> QED
      BY <3>1
  <2>6. PICK j \in 0..4 : ptr = Off(s, j) + 1 /\ AfterFields(s, j, db, adifqso)
    BY <2>2, <2>4, <2>5 DEF InRecord
  <2>7. ~NoneIsNext(s, j)
    BY <1>2, <1>4, <1>10, <2>1, <2>6, LooksAt
  <2>8. PICK i \in 1..4 : IsNext(s, j, i)
    BY <2>1, <2>7, SomeIsNext
  <2>9. /\ f = fields[i] /\ n = Len(Value(s, i)) /\ Following(sbuff, ptr, n) = Value(s, i)
        /\ ptr + (n + 1) = Off(s, i) + 1
    <3>1. Reads(s, i)
      BY <1>2, <1>10, <2>1, <2>6, <2>8, LooksAt
    <3>2. f = fields[i] /\ n = Len(Value(s, i))
      BY <1>3, <3>1 DEF Reads
    <3> QED
      BY <3>1, <3>2 DEF Reads
  <2>10. KeptValue(s, i) = Kept(f, Following(sbuff, ptr, n))
    BY <2>8, <2>9 DEF KeptValue, IsNext
  <2>11. IsSet(db, adifqso, q2, fields[i], KeptValue(s, i), db')
    BY <1>4, <2>9, <2>10
  <2>12. q2 # 0 /\ AfterFields(s, i, db', q2)
    BY <2>1, <2>6, <2>8, <2>11, AfterNext
  <2>13. Off(s, i) \in Nat /\ i \in 0..4
    BY <2>1, OffNat
  <2>14. CASE n + 1 <= p - 1
    <3>1. ptr' = Next_lt(sbuff, Off(s, i) + 1)
      BY <1>4, <2>9, <2>14 DEF Advance
    <3>2. ptr' = Off(s, i) + 1
      <4>1. Off(s, i) + 1 \in Nat /\ Off(s, i) + 1 >= 1 /\ Off(s, i) + 1 <= Off(s, i) + 1
        BY <2>13
      <4>2. /\ Next_lt(sbuff, Off(s, i) + 1) \in Nat /\ Next_lt(sbuff, Off(s, i) + 1) >= Off(s, i) + 1
            /\ Next_lt(sbuff, Off(s, i) + 1) <= Off(s, i) + 1
        BY <1>1, <1>2, <1>10, <2>1, <2>13, <4>1, NextInRecord
      <4> QED
        BY <2>13, <3>1, <4>2
    <3>3. InRecord(source, s, db', ptr', q2)
      BY <2>12, <2>13, <3>2 DEF InRecord
    <3> QED
      BY <1>2, <1>4, <1>7, <1>10, <2>1, <2>3, <3>3 DEF FieldsAt
  <2>15. CASE ~(n + 1 <= p - 1)
    <3>1. ptr' = 0
      BY <1>4, <2>15 DEF Advance
    <3>2. ~SafeTo(s, i)
      <4>1. ASSUME SafeTo(s, i) PROVE FALSE
        <5>1. Off(s, i) < p /\ p \in Nat
          <6>1. FindEor(sbuff) \in Nat
            BY <1>1, <1>2, EndFound
          <6> QED
            BY <1>1, <1>2, <1>10, <2>1, <2>13, <4>1, <6>1, EndFound
        <5>2. n + 1 <= Off(s, i)
          BY <1>4, <2>9, <2>13
        <5> QED
          BY <1>4, <2>13, <2>15, <5>1, <5>2
      <4> QED
        BY <4>1
    <3>3. ~Plain(source)
      <4>1. k + 1 \in 1..Len(source)
        BY <1>1, <1>2, CutEnd
      <4> QED
        BY <1>1, <2>1, <2>13, <3>2, <4>1, PlainSafe
    <3>4. RowIs(db'[q2], s)
      BY <2>1, <2>12, <3>2, AfterUnsafe
    <3>5. InRecord(source, s, db', ptr', q2)
      BY <2>12, <3>1, <3>3, <3>4 DEF InRecord
    <3> QED
      BY <1>2, <1>4, <1>7, <1>10, <2>1, <2>3, <3>5 DEF FieldsAt
  <2> QED
    BY <2>14, <2>15
<1> QED
  BY <1>9, <1>10 DEF FieldsAt

\* What it does at another '<', before the fields: it goes on in the record.
LEMMA FieldsUnknown ==
  ASSUME TextType, ~call, Plain(source) \/ Upper(source), Unknown,
         NEW k, NEW at, NEW m, NEW base, FieldsAt(k, at, m, base)
  PROVE  FieldsAt(k, at, m, base)'
<1>1. source \in Seq(Source) /\ sbuff \in Seq(Token) /\ ptr # 0 /\ ptr \in Nat /\ Len(sbuff) \in Nat
  BY DEF TextType, Unknown
<1>2. CutOf(source, sbuff, k, at) /\ k < Len(source) /\ p = FindEor(sbuff)
  BY DEF FieldsAt
<1>3. sbuff[ptr] \notin {Eor, eor} /\ ~Found /\ Advance(1)
      /\ UNCHANGED <<source, call, doing, sbuff, p, adifqso, db>>
  BY DEF Unknown
<1>4. adifqso \in {0, Len(db)} /\ base = IF adifqso = 0 THEN Len(db) ELSE Len(db) - 1
  BY DEF FieldsAt
<1>5. CASE at[k] < 0
  <2>1. ~Plain(source) /\ RecordsMatch(source, k + 1, db, base, m)
    BY <1>5 DEF FieldsAt
  <2> QED
    BY <1>2, <1>3, <1>4, <1>5, <2>1 DEF FieldsAt
<1>6. CASE at[k] = 0
  <2>1. PICK s : s = source[k + 1] /\ s \in Source /\ Passed(s.before)
    BY <1>1, <1>2, CutEnd, FrontsPassed
  <2>2. RecordsMatch(source, k, db, base, m) /\ InRecord(source, s, db, ptr, adifqso)
    BY <1>6, <2>1 DEF FieldsAt
  <2>3. ASSUME NEW j \in 0..4, ptr = Off(s, j) + 1 PROVE FALSE
    <3>1. NoneIsNext(s, j) => sbuff[ptr] \in {Eor, eor}
      BY <1>2, <1>6, <2>1, <2>3, LooksAt
    <3>2. \A i \in 1..4 : IsNext(s, j, i) => Reads(s, i)
      BY <1>2, <1>6, <2>1, <2>3, LooksAt
    <3>3. PICK i \in 1..4 : IsNext(s, j, i)
      BY <1>3, <2>1, <3>1, SomeIsNext
    <3> QED
      BY <1>3, <3>2, <3>3 DEF Reads
  <2>4. ptr \in 1..Off(s, 0) /\ adifqso = 0
    BY <1>1, <2>2, <2>3 DEF InRecord
  <2>5. Off(s, 0) \in Nat /\ 0 \in 0..4
    BY <2>1, OffNat
  <2>6. SafeTo(s, 0)
    BY DEF SafeTo
  <2>7. Off(s, 0) < p /\ p \in Nat
    <3>1. FindEor(sbuff) \in Nat
      BY <1>1, <1>2, EndFound
    <3> QED
      BY <1>1, <1>2, <1>6, <2>1, <2>5, <2>6, <3>1, EndFound
  <2>8. ptr' = Next_lt(sbuff, ptr + 1)
    <3>1. 1 <= p - 1
      BY <2>4, <2>5, <2>7
    <3> QED
      BY <1>3, <3>1 DEF Advance
  <2>9. PICK n : n = ptr + 1
    OBVIOUS
  <2>10. n \in Nat /\ n >= 1 /\ n <= Off(s, 0) + 1
    BY <1>1, <2>4, <2>5, <2>9
  <2>11. Next_lt(sbuff, n) \in Nat /\ Next_lt(sbuff, n) >= n /\ Next_lt(sbuff, n) <= Off(s, 0) + 1
    BY <1>1, <1>2, <1>6, <2>1, <2>5, <2>10, NextInRecord
  <2>12. ptr' \in 1..Off(s, 0) \/ ptr' = Off(s, 0) + 1
    BY <2>5, <2>8, <2>9, <2>10, <2>11
  <2>13. AfterFields(s, 0, db, 0)
    BY DEF AfterFields
  <2>14. InRecord(source, s, db, ptr', 0)
    BY <2>5, <2>12, <2>13 DEF InRecord
  <2> QED
    BY <1>2, <1>3, <1>4, <1>6, <2>1, <2>2, <2>4, <2>14 DEF FieldsAt
<1> QED
  BY <1>5, <1>6 DEF FieldsAt

\* When the reader comes to the end of a record, it has read what there is of that record.
LEMMA RecordRead ==
  ASSUME TextType, Plain(source) \/ Upper(source), ptr # 0 => sbuff[ptr] \in {Eor, eor},
         NEW k, NEW at, NEW m, NEW base, FieldsAt(k, at, m, base)
  PROVE  \E m2 : RecordsMatch(source, k + 1, db, Len(db), m2)
<1>1. source \in Seq(Source) /\ sbuff \in Seq(Token) /\ ptr \in Nat /\ Len(db) \in Nat
  BY LenProperties DEF TextType, IsRows
<1>2. CutOf(source, sbuff, k, at) /\ k < Len(source) /\ p = FindEor(sbuff)
  BY DEF FieldsAt
<1>3. adifqso \in {0, Len(db)} /\ base = IF adifqso = 0 THEN Len(db) ELSE Len(db) - 1
  BY DEF FieldsAt
<1>4. /\ base \in Nat /\ base <= Len(db)
      /\ adifqso = 0 => base = Len(db)
      /\ adifqso # 0 => adifqso = Len(db) /\ base + 1 = Len(db)
  BY <1>1, <1>3
<1>5. CASE at[k] < 0
  <2>1. ~Plain(source) /\ RecordsMatch(source, k + 1, db, base, m)
    BY <1>5 DEF FieldsAt
  <2>2. RecordsMatch(source, k + 1, db, Len(db), m)
    BY <1>1, <1>4, <2>1, MatchStays
  <2> QED
    BY <2>2
<1>6. CASE at[k] = 0
  <2>1. PICK s : s = source[k + 1] /\ s \in Source /\ Passed(s.before) /\ k \in Nat /\ k + 1 \in 1..Len(source)
    BY <1>1, <1>2, CutEnd, FrontsPassed
  <2>2. RecordsMatch(source, k, db, base, m) /\ InRecord(source, s, db, ptr, adifqso)
    BY <1>6, <2>1 DEF FieldsAt
  <2>3. ASSUME adifqso # 0, Full(s), RowIs(db[adifqso], s)
        PROVE  \E m2 : RecordsMatch(source, k + 1, db, Len(db), m2)
    <3>1. RowIs(db[base + 1], source[k + 1]) /\ Full(source[k + 1])
      BY <1>4, <2>1, <2>3
    <3>2. \E m2 : RecordsMatch(source, k + 1, db, base + 1, m2)
      BY <1>4, <2>1, <2>2, <3>1, MatchNext
    <3> QED
      BY <1>4, <2>3, <3>2
  <2>4. CASE ptr \in 1..Off(s, 0)
    <3>1. Off(s, 0) \in Nat /\ Off(s, 4) \in Nat /\ Off(s, 0) <= Off(s, 4) /\ 0 \in 0..4
      <4>1. 0 \in 0..4 /\ 4 \in 0..4 /\ 0 <= 4
        OBVIOUS
      <4> QED
        BY <2>1, <4>1, OffNat, OffSteps
    <3>2. ptr \in 1..(Off(s, 4) + 1)
      BY <2>4, <3>1
    <3>3. sbuff[ptr] = TextOf(s)[ptr]
      BY <1>1, <1>2, <1>6, <2>1, <3>2, ThisRecord
    <3>4. SafeTo(s, 0)
      BY DEF SafeTo
    <3>5. TextOf(s)[ptr] \notin {Eor, eor}
      BY <2>1, <2>4, <3>1, <3>4, NoEndBefore
    <3>6. ptr # 0
      BY <2>4
    <3> QED
      BY <3>3, <3>5, <3>6
  <2>5. CASE ptr = 0 /\ adifqso # 0 /\ ~Plain(source) /\ RowIs(db[adifqso], s)
    <3>1. Value(s, 1) # <<>>
      <4>1. k + 1 \in DOMAIN source
        BY <2>1, <1>1, LenProperties
      <4> QED
        BY <2>1, <2>5, <4>1 DEF Upper
    <3>2. Full(s)
      BY <2>1, <3>1, FullIs
    <3> QED
      BY <2>3, <2>5, <3>2
  <2>6. ASSUME NEW j \in 0..4, ptr = Off(s, j) + 1, AfterFields(s, j, db, adifqso)
        PROVE  \E m2 : RecordsMatch(source, k + 1, db, Len(db), m2)
    <3>1. \A i \in 1..4 : IsNext(s, j, i) => Reads(s, i)
      BY <1>2, <1>6, <2>1, <2>6, LooksAt
    <3>2. ptr # 0
      BY <2>1, <2>6, OffNat
    <3>3. NoneIsNext(s, j)
      <4>1. \A i \in 1..4 : ~IsNext(s, j, i)
        BY <3>1, <3>2 DEF Reads
      <4> QED
        BY <2>1, <4>1, SomeIsNext
    <3>4. (adifqso = 0 <=> ~Full(s)) /\ (adifqso # 0 => RowIs(db[adifqso], s))
      BY <2>1, <2>6, <3>3, AfterAll
    <3>5. CASE adifqso = 0
      <4>1. RecordsMatch(source, k + 1, db, base, m)
        BY <2>1, <2>2, <3>4, <3>5, MatchEmpty
      <4> QED
        BY <1>4, <3>5, <4>1
    <3> QED
      BY <2>3, <3>4, <3>5
  <2> QED
    BY <2>2, <2>4, <2>5, <2>6 DEF InRecord
<1> QED
  BY <1>5, <1>6 DEF FieldsAt

\* What the end of a record does: the text goes on behind it.
LEMMA FieldsEnd ==
  ASSUME TextType, ~call, Plain(source) \/ Upper(source), EndOfRecord,
         NEW k, NEW at, NEW m, NEW base, FieldsAt(k, at, m, base)
  PROVE  \E k2, a, m2 : ScanAt(k2, a, m2)'
<1>1. source \in Seq(Source) /\ sbuff \in Seq(Token)
  BY DEF TextType
<1>2. CutOf(source, sbuff, k, at) /\ k < Len(source) /\ p = FindEor(sbuff)
  BY DEF FieldsAt
<1>3. sbuff' = SubSeq(sbuff, p + 1, Len(sbuff)) /\ UNCHANGED <<source, db>>
  BY DEF EndOfRecord
<1>4. PICK m2 : RecordsMatch(source, k + 1, db, Len(db), m2)
  BY RecordRead DEF EndOfRecord
<1>5. p \in 1..at[k + 1]
  BY <1>1, <1>2, EndFound
<1>6. at[k] = 0 /\ Plain(source) => p = at[k + 1]
  BY <1>1, <1>2, EndFound
<1>7. at[k] < 0 => ~Plain(source)
  BY DEF FieldsAt
<1>8. k \in Nat /\ k + 1 \in 1..Len(source) /\ at[k] \in Int /\ at[k + 1] \in Int /\ at[k] <= 0
  <2>1. at[k] <= 0
    BY <1>2 DEF CutOf
  <2> QED
    BY <1>1, <1>2, <2>1, CutEnd
<1>9. PICK k2, text, a : /\ k2 = IF p = at[k + 1] THEN k + 1 ELSE k
                         /\ text = SubSeq(sbuff, p + 1, Len(sbuff))
                         /\ a = [i \in 0..Len(source) |-> at[i] - p]
  OBVIOUS
<1>10. CutOf(source, text, k2, a)
  BY <1>1, <1>2, <1>5, <1>9, CutMoves
<1>11. a[k + 1] = at[k + 1] - p /\ a[k] = at[k] - p
  <2>1. k + 1 \in 0..Len(source) /\ k \in 0..Len(source)
    BY <1>8
  <2> QED
    BY <1>9, <2>1
<1>12. CASE p = at[k + 1]
  <2>1. k2 = k + 1 /\ a[k2] = 0
    BY <1>8, <1>9, <1>11, <1>12
  <2>2. ScanAt(k2, a, m2)'
    BY <1>3, <1>4, <1>9, <1>10, <2>1 DEF ScanAt
  <2> QED
    BY <2>2
<1>13. CASE p # at[k + 1]
  <2>1. ~Plain(source)
    BY <1>6, <1>7, <1>8, <1>13
  <2>2. k2 = k /\ a[k2] # 0
    BY <1>5, <1>8, <1>9, <1>11, <1>13
  <2>3. ScanAt(k2, a, m2)'
    BY <1>3, <1>4, <1>9, <1>10, <2>1, <2>2 DEF ScanAt
  <2> QED
    BY <2>3
<1> QED
  BY <1>12, <1>13

\* Between two records the reader comes to the next one, or all of them are read.
LEMMA ScanNext ==
  ASSUME TextType, ~call, Plain(source) \/ Upper(source), NextRecord,
         NEW k, NEW at, NEW m, ScanAt(k, at, m)
  PROVE  ReadsOn'
<1>1. source \in Seq(Source) /\ sbuff \in Seq(Token) /\ Len(db) \in Nat /\ Len(sbuff) \in Nat
  BY LenProperties DEF TextType, IsRows
<1>2. CutOf(source, sbuff, k, at) /\ (at[k] # 0 => ~Plain(source))
      /\ RecordsMatch(source, IF at[k] = 0 THEN k ELSE k + 1, db, Len(db), m)
  BY DEF ScanAt
<1>3. p' = FindEor(sbuff) /\ UNCHANGED <<source, call, sbuff, db>>
  BY DEF NextRecord
<1>4. /\ k \in Nat /\ k <= Len(source) /\ at[k] <= 0 /\ at[k] \in Int /\ Len(source) \in Nat
      /\ at[Len(source)] = Len(sbuff)
  BY <1>1, <1>2, CutPlaces
<1>5. CASE p' = 0
  <2>1. doing' = "done"
    BY <1>5 DEF NextRecord
  <2>2. k = Len(source)
    <3>1. ASSUME k < Len(source) PROVE FALSE
      <4>1. FindEor(sbuff) \in 1..at[k + 1]
        BY <1>1, <1>2, <3>1, EndFound
      <4> QED
        BY <1>3, <1>5, <4>1
    <3> QED
      BY <1>4, <3>1
  <2>3. at[k] = 0
    BY <1>1, <1>4, <2>2
  <2>4. RecordsMatch(source, Len(source), db, Len(db), m)
    BY <1>2, <2>2, <2>3
  <2> QED
    BY <1>3, <2>1, <2>4 DEF ReadsOn
<1>6. CASE p' # 0
  <2>1. doing' = "fields" /\ ptr' = Next_lt(sbuff, 1) /\ adifqso' = 0
    BY <1>6 DEF NextRecord
  <2>2. k < Len(source)
    <3>1. ASSUME k = Len(source) PROVE FALSE
      <4>1. Len(sbuff) = 0
        BY <1>1, <1>4, <3>1
      <4>2. DOMAIN sbuff = {}
        BY <1>1, <4>1, LenProperties
      <4>3. Firsts(sbuff, {Eor}) = {} /\ Firsts(sbuff, {eor}) = {}
        BY <4>2 DEF Firsts
      <4>4. FindEor(sbuff) = 0
        BY <4>3 DEF FindEor, FirstOf
      <4> QED
        BY <1>3, <1>6, <4>4
    <3> QED
      BY <1>4, <3>1
  <2>3. CASE at[k] # 0
    <3>1. RecordsMatch(source, k + 1, db, Len(db), m) /\ at[k] < 0
      BY <1>2, <1>4, <2>3
    <3>2. FieldsAt(k, at, m, Len(db))'
      BY <1>2, <1>3, <2>1, <2>2, <2>3, <3>1 DEF FieldsAt
    <3> QED
      BY <2>1, <3>2 DEF ReadsOn
  <2>4. CASE at[k] = 0
    <3>1. PICK s : s = source[k + 1] /\ s \in Source
      BY <1>1, <1>2, <2>2, CutEnd
    <3>2. Off(s, 0) \in Nat /\ 0 \in 0..4 /\ 1 \in Nat /\ 1 >= 1 /\ 1 <= Off(s, 0) + 1
      BY <3>1, OffNat
    <3>3. ptr' \in Nat /\ ptr' >= 1 /\ ptr' <= Off(s, 0) + 1
      BY <1>1, <1>2, <2>1, <2>2, <2>4, <3>1, <3>2, NextInRecord
    <3>4. ptr' \in 1..Off(s, 0) \/ ptr' = Off(s, 0) + 1
      BY <3>2, <3>3
    <3>5. AfterFields(s, 0, db, 0)
      BY DEF AfterFields
    <3>6. InRecord(source, s, db, ptr', 0)
      BY <3>2, <3>4, <3>5 DEF InRecord
    <3>7. RecordsMatch(source, k, db, Len(db), m)
      BY <1>2, <2>4
    <3>8. FieldsAt(k, at, m, Len(db))'
      BY <1>2, <1>3, <2>1, <2>2, <2>4, <3>1, <3>6, <3>7 DEF FieldsAt
    <3> QED
      BY <2>1, <3>8 DEF ReadsOn
  <2> QED
    BY <2>3, <2>4
<1> QED
  BY <1>5, <1>6

\* At the beginning there is no text and no record.
LEMMA FileBegins == AdifInit => ReaderInv
<1> SUFFICES ASSUME AdifInit, ~call PROVE ReaderInv
  BY DEF ReaderInv
<1>1. source = <<>> /\ sbuff = <<>> /\ db = <<>> /\ doing = "write"
  BY DEF AdifInit
<1>2. PICK at : at = [i \in 0..0 |-> 0]
  OBVIOUS
<1>3. Len(source) = 0 /\ Len(sbuff) = 0
  BY <1>1
<1>4. CutOf(source, sbuff, 0, at)
  <2>1. at \in [0..0 -> Int] /\ at[0] = 0 /\ 0 \in 0..0
    BY <1>2
  <2>2. \A i, j \in 0..0 : ~(i < j)
    OBVIOUS
  <2>3. \A i \in 1..0 : FALSE
    OBVIOUS
  <2> QED
    BY <1>3, <2>1, <2>2, <2>3 DEF CutOf
<1>5. at[0] = 0
  BY <1>2
<1> QED
  BY <1>1, <1>4, <1>5 DEF ReaderInv

\* Every step keeps it.
LEMMA FileSteps == TextType /\ ReaderInv /\ [AdifNext]_adifVars => ReaderInv'
<1> SUFFICES ASSUME TextType, ReaderInv, [AdifNext]_adifVars, ~call' PROVE ReaderInv'
  BY DEF ReaderInv
<1>1. call' = call /\ ~call
  BY DEF AdifNext, adifVars, WriteRecord, OpenFile, Arrives, Read, NextRecord, Known, Unknown, EndOfRecord, Done
<1>2. doing # "call"
  BY <1>1 DEF ReaderInv
<1>3. CASE WriteRecord
  <2>1. PICK s \in Source : source' = Append(source, s) /\ sbuff' = sbuff \o TextOf(s)
    BY <1>3 DEF WriteRecord
  <2>2. doing = "write" /\ doing' = "write" /\ db' = db
    BY <1>3 DEF WriteRecord
  <2>3. PICK at : CutOf(source, sbuff, 0, at) /\ at[0] = 0
    BY <1>1, <2>2 DEF ReaderInv
  <2>4. source \in Seq(Source) /\ sbuff \in Seq(Token)
    BY DEF TextType
  <2>5. Grown(source, sbuff, s, source', sbuff')
    BY <2>1, <2>4, Grows
  <2>6. \E a : CutOf(source', sbuff', 0, a) /\ a[0] = 0
    BY <2>3, <2>4, <2>5, CutGrows
  <2>7. db' = <<>>
    BY <1>1, <2>2 DEF ReaderInv
  <2> QED
    BY <2>2, <2>6, <2>7 DEF ReaderInv
<1>4. CASE OpenFile
  <2>1. /\ doing = "write" /\ doing' = "scan"
        /\ UNCHANGED <<source, sbuff, db>>
    BY <1>4 DEF OpenFile
  <2>2. PICK at : CutOf(source, sbuff, 0, at) /\ at[0] = 0
    BY <1>1, <2>1 DEF ReaderInv
  <2>3. db = <<>> /\ Len(db) = 0
    BY <1>1, <2>1 DEF ReaderInv
  <2>4. PICK m : m = [i \in {i \in 1..0 : Full(source[i])} |-> 0]
    OBVIOUS
  <2>5. RecordsMatch(source, 0, db, 0, m)
    <3>1. {i \in 1..0 : Full(source[i])} = {}
      OBVIOUS
    <3>2. m \in [{i \in 1..0 : Full(source[i])} -> 1..0]
      BY <2>4, <3>1
    <3>3. \A i \in 1..0 : FALSE
      OBVIOUS
    <3> QED
      BY <3>2, <3>3 DEF RecordsMatch
  <2>6. ScanAt(0, at, m)'
    BY <2>1, <2>2, <2>3, <2>5 DEF ScanAt
  <2>7. ReadsOn'
    BY <2>1, <2>6 DEF ReadsOn
  <2> QED
    BY <2>1, <2>7 DEF ReaderInv
<1>5. CASE Arrives(TextOf(source[1]))
  BY <1>2, <1>5 DEF Arrives
<1>6. CASE Read
  <2>1. /\ source' = source /\ doing \in {"scan", "fields"} /\ doing' \notin {"write", "call"}
    BY <1>1, <1>6 DEF Read, NextRecord, Known, Unknown, EndOfRecord
  <2>2. ASSUME Plain(source) \/ Upper(source) PROVE ReadsOn'
    <3>1. ReadsOn
      BY <1>1, <2>1, <2>2 DEF ReaderInv
    <3>2. CASE NextRecord
      <4>1. PICK k, at, m : ScanAt(k, at, m)
        BY <3>1, <3>2 DEF ReadsOn, NextRecord
      <4> QED
        BY <1>1, <2>2, <3>2, <4>1, ScanNext
    <3>3. CASE Known
      <4>1. PICK k, at, m, base : FieldsAt(k, at, m, base)
        BY <3>1, <3>3 DEF ReadsOn, Known
      <4>2. FieldsAt(k, at, m, base)'
        BY <1>1, <2>2, <3>3, <4>1, FieldsKnown
      <4>3. doing' = "fields"
        BY <3>3 DEF Known
      <4> QED
        BY <4>2, <4>3 DEF ReadsOn
    <3>4. CASE Unknown
      <4>1. PICK k, at, m, base : FieldsAt(k, at, m, base)
        BY <3>1, <3>4 DEF ReadsOn, Unknown
      <4>2. FieldsAt(k, at, m, base)'
        BY <1>1, <2>2, <3>4, <4>1, FieldsUnknown
      <4>3. doing' = "fields"
        BY <3>4 DEF Unknown
      <4> QED
        BY <4>2, <4>3 DEF ReadsOn
    <3>5. CASE EndOfRecord
      <4>1. PICK k, at, m, base : FieldsAt(k, at, m, base)
        BY <3>1, <3>5 DEF ReadsOn, EndOfRecord
      <4>2. \E k2, a, m2 : ScanAt(k2, a, m2)'
        BY <1>1, <2>2, <3>5, <4>1, FieldsEnd
      <4>3. doing' = "scan"
        BY <1>1, <3>5 DEF EndOfRecord
      <4> QED
        BY <4>2, <4>3 DEF ReadsOn
    <3> QED
      BY <1>6, <3>2, <3>3, <3>4, <3>5 DEF Read
  <2> QED
    BY <2>1, <2>2 DEF ReaderInv
<1>7. CASE UNCHANGED adifVars
  BY <1>7 DEF adifVars, ReaderInv, ReadsOn, ScanAt, FieldsAt
<1> QED
  BY <1>3, <1>4, <1>5, <1>6, <1>7 DEF AdifNext, Done

-----------------------------------------------------------------------------
(* AdifText: what the reading of a file gives *)

\* The variables of the reader and of the writer keep their types, and where the reader looks
\* is within its text (readfile_ and get_record_fields never look behind the buffer).
THEOREM TextTypeCorrect == AdifSpec => []TextType
<1> QED
  BY TypeBegins, TypeSteps, PTL DEF AdifSpec

\* The invariant holds of every behaviour.
LEMMA FileAlways == AdifSpec => [](TextType /\ ReaderInv)
<1> QED
  BY TypeBegins, TypeSteps, FileBegins, FileSteps, PTL DEF AdifSpec

\* Which record is which when a file is read
LEMMA AllRead ==
  ASSUME TextType, ReaderInv, doing = "done", ~call, Plain(source) \/ Upper(source)
  PROVE  /\ DOMAIN source = 1..Len(source) /\ DOMAIN db = 1..Len(db)
         /\ \A i \in DOMAIN source : source[i] \in Source
         /\ \A r \in DOMAIN db : db[r] = [f \in Field |-> db[r][f]]
         /\ \E m : RecordsMatch(source, Len(source), db, Len(db), m)
<1>1. ReadsOn
  BY DEF ReaderInv
<1>2. \E m : RecordsMatch(source, Len(source), db, Len(db), m)
  BY <1>1 DEF ReadsOn
<1>3. DOMAIN source = 1..Len(source) /\ DOMAIN db = 1..Len(db)
  BY LenProperties DEF TextType, IsRows
<1>4. \A i \in DOMAIN source : source[i] \in Source
  BY <1>3, ElementOfSeq DEF TextType
<1> QED
  BY <1>2, <1>3, <1>4 DEF TextType, IsRows

\* What the reader keeps of a record, field by field
LEMMA KeptFields ==
  ASSUME NEW s, NEW i \in 1..4
  PROVE  KeptRec(s.rec)[fields[i]] = KeptValue(s, i)
BY FieldPlaces DEF KeptRec, KeptValue, Value

\* Reading a file gives the records that were written, up to the lengths of the fields,
\* whatever the values are, if no value has an end of record in it (writelog_, readfile_).
THEOREM ReadingCorrect == AdifSpec => []ReadsWhatIsWritten
<1>1. TextType /\ ReaderInv => ReadsWhatIsWritten
  <2> SUFFICES ASSUME TextType, ReaderInv, doing = "done", ~call, OneCase,
                      \A i \in DOMAIN source : /\ Passed(source[i].before)
                                               /\ \A f \in Field : ~HasEnd(source[i].rec[f]),
                      NEW full, full = {i \in DOMAIN source : source[i].rec # EmptyRec}
               PROVE  \E at \in [full -> DOMAIN db] :
                        /\ \A i, j \in full : j < i => at[j] < at[i]
                        /\ \A r \in DOMAIN db : \E i \in full : at[i] = r
                        /\ \A i \in full : db[at[i]] = KeptRec(source[i].rec)
    BY DEF ReadsWhatIsWritten
  <2>1. Plain(source)
    <3>1. \A i \in 1..4 : fields[i] \in Field
      BY FieldPlaces
    <3> QED
      BY <3>1 DEF Plain, OneCase, SafeTo, Value
  <2>2. /\ DOMAIN source = 1..Len(source) /\ DOMAIN db = 1..Len(db)
        /\ \A r \in DOMAIN db : db[r] = [f \in Field |-> db[r][f]]
    BY <2>1, AllRead
  <2>3. PICK m : RecordsMatch(source, Len(source), db, Len(db), m)
    BY <2>1, AllRead
  <2>4. full = {i \in 1..Len(source) : Full(source[i])}
    BY <2>2 DEF Full
  <2>5. m \in [full -> DOMAIN db]
    BY <2>2, <2>3, <2>4 DEF RecordsMatch
  <2>6. \A i, j \in full : j < i => m[j] < m[i]
    BY <2>3, <2>4 DEF RecordsMatch
  <2>7. \A r \in DOMAIN db : \E i \in full : m[i] = r
    BY <2>1, <2>2, <2>3, <2>4 DEF RecordsMatch
  <2>8. ASSUME NEW i \in full PROVE db[m[i]] = KeptRec(source[i].rec)
    <3>1. PICK s, row : s = source[i] /\ row = db[m[i]]
      OBVIOUS
    <3>2. RowIs(row, s) /\ row = [f \in Field |-> row[f]]
      BY <2>2, <2>3, <2>4, <2>5, <3>1 DEF RecordsMatch
    <3>3. \A l \in 1..4 : SafeTo(s, l)
      <4>1. SafeTo(s, 4)
        BY <2>1, <2>2, <2>4, <3>1 DEF Plain
      <4>2. \A l \in 1..4 : \A j \in 1..l : j \in 1..4
        OBVIOUS
      <4> QED
        BY <4>1, <4>2 DEF SafeTo
    <3>4. \A f \in Field : row[f] = KeptRec(s.rec)[f]
      <4>1. \A l \in 1..4 : row[fields[l]] = KeptRec(s.rec)[fields[l]]
        BY <3>2, <3>3, KeptFields DEF RowIs
      <4> QED
        BY <4>1, FieldPlaces
    <3>5. KeptRec(s.rec) = [f \in Field |-> KeptRec(s.rec)[f]]
      BY DEF KeptRec
    <3> QED
      BY <3>1, <3>2, <3>4, <3>5
  <2> QED
    BY <2>5, <2>6, <2>7, <2>8
<1> QED
  BY <1>1, FileAlways, PTL

\* An end of record in a value spoils no other record: those that were written are all read,
\* in their order, with what precedes that value (readfile_).
THEOREM EndInValueLosesNoRecord == AdifSpec => []NoRecordIsLost
<1>1. TextType /\ ReaderInv => NoRecordIsLost
  <2> SUFFICES ASSUME TextType, ReaderInv, doing = "done", ~call,
                      \A i \in DOMAIN source : source[i].end = Eor /\ Passed(source[i].before)
                                               /\ source[i].rec["CALL"] # <<>>
               PROVE  \E at \in [DOMAIN source -> DOMAIN db] :
                        \A i \in DOMAIN source :
                          /\ \A j \in DOMAIN source : j < i => at[j] < at[i]
                          /\ \A f \in Safe(source[i].rec) : db[at[i]][f] = KeptRec(source[i].rec)[f]
    BY DEF NoRecordIsLost
  <2>1. Upper(source) /\ \A i \in DOMAIN source : Value(source[i], 1) # <<>>
    <3>1. fields[1] = "CALL"
      BY DEF fields
    <3> QED
      BY <3>1 DEF Upper, Value
  <2>2. /\ DOMAIN source = 1..Len(source) /\ DOMAIN db = 1..Len(db)
        /\ \A i \in DOMAIN source : source[i] \in Source
    BY <2>1, AllRead
  <2>3. PICK m : RecordsMatch(source, Len(source), db, Len(db), m)
    BY <2>1, AllRead
  <2>4. \A i \in DOMAIN source : Full(source[i])
    BY <2>1, <2>2, FullIs
  <2>5. {i \in 1..Len(source) : Full(source[i])} = DOMAIN source
    BY <2>2, <2>4
  <2>6. m \in [DOMAIN source -> DOMAIN db]
    BY <2>2, <2>3, <2>5 DEF RecordsMatch
  <2>7. \A i, j \in DOMAIN source : j < i => m[j] < m[i]
    BY <2>2, <2>3, <2>4 DEF RecordsMatch
  <2>8. ASSUME NEW i \in DOMAIN source, NEW f \in Safe(source[i].rec)
        PROVE  db[m[i]][f] = KeptRec(source[i].rec)[f]
    <3>1. PICK s, row : s = source[i] /\ row = db[m[i]]
      OBVIOUS
    <3>2. RowIs(row, s)
      BY <2>2, <2>3, <2>4, <3>1 DEF RecordsMatch
    <3>3. PICK l \in DOMAIN fields : f = fields[l] /\ \A j \in 1..l : ~HasEnd(s.rec[fields[j]])
      BY <3>1 DEF Safe
    <3>4. l \in 1..4
      BY FieldTable
    <3>5. SafeTo(s, l)
      BY <3>3 DEF SafeTo, Value
    <3>6. row[fields[l]] = KeptRec(s.rec)[fields[l]]
      BY <3>2, <3>4, <3>5, KeptFields DEF RowIs
    <3> QED
      BY <3>1, <3>3, <3>6
  <2> QED
    BY <2>6, <2>7, <2>8
<1> QED
  BY <1>1, FileAlways, PTL

=============================================================================
