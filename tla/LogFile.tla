------------------------------ MODULE LogFile ------------------------------
(***************************************************************************)
(* The log file of fllog and its backups on disk (src/logbook/adif_io.cxx, *)
(* src/logbook/logbook.cxx).  Each start reads the file, moves the backups *)
(* up by one and copies the file to the first.  Each change of the log     *)
(* writes the file in place: it is opened, which empties it, and written.  *)
(* The Save button appends one record instead.                             *)
(*                                                                         *)
(* The process may die between any two of these steps; a file that was     *)
(* being written then has any prefix of its text.  A record is a number;   *)
(* number 0 is a record put together from pieces of two others.            *)
(***************************************************************************)
EXTENDS Integers, Sequences

CONSTANTS
  Backups,      \* the number of backups (5 in the program)
  MaySave,      \* the user adds records, too
  MaxRecs,      \* bound: records ever added
  MaxStarts,    \* bound: starts of the program
  MaxCrashes    \* bound: crashes

ASSUME FileAssumption ==
  /\ Backups \in Nat \ {0}
  /\ MaySave \in BOOLEAN
  /\ {MaxRecs, MaxStarts, MaxCrashes} \subseteq Nat

\* A file: whether the header is complete, the complete records, and whether an
\* incomplete one follows.  NoFile stands for a file that is not there.
Content == [header : BOOLEAN, recs : Seq(Nat), torn : BOOLEAN]
NoFile  == [header |-> FALSE, recs |-> <<0>>, torn |-> FALSE]
Empty   == [header |-> FALSE, recs |-> <<>>, torn |-> FALSE]

VARIABLES
  pc,           \* what the process does
  step,         \* rotate_log: the backup to be moved next
  log,          \* the records in memory
  file, backup, \* the files on disk
  added,        \* records ever added
  starts, crashes,
  taken,        \* history: the copies made, the latest first
  since         \* history: the starts begun after the latest copy

vars == <<pc, step, log, file, backup, added, starts, crashes, taken, since>>

Pc == {"off", "rotate", "copying", "idle", "open", "write", "append", "exit",
       "exiting"}

Written(recs) == [header |-> TRUE, recs |-> recs, torn |-> FALSE]

\* What there is of a file while it is being written: nothing, all of it, or its
\* first n records, the next one perhaps in part
CutAfter(c, n, part) == [c EXCEPT !.recs = SubSeq(@, 1, n), !.torn = part]

PartsOf(c) ==
  {Empty, c} \cup {CutAfter(c, n, FALSE) : n \in 0..(Len(c.recs) - 1)}
             \cup {CutAfter(c, n, TRUE) : n \in 0..(Len(c.recs) - 1)}

Init ==
  /\ pc = "off" /\ step = 0
  /\ log = <<>> /\ file \in {NoFile, Written(<<1>>)} /\ added = 1
  /\ backup = [k \in 1..Backups |-> NoFile]
  /\ starts = 0 /\ crashes = 0
  /\ taken = <<>> /\ since = 0

-----------------------------------------------------------------------------
(* start() *)

\* readfile_ returns without a record if there is no file or no header; an
\* incomplete record at the end is not read.
Readable(f) == IF f.header THEN f.recs ELSE <<>>

Start ==
  /\ pc = "off" /\ starts < MaxStarts
  /\ log' = Readable(file)
  /\ starts' = starts + 1 /\ since' = since + 1
  /\ step' = Backups - 1
  /\ pc' = "rotate"
  /\ UNCHANGED <<file, backup, added, crashes, taken>>

\* Mutated: the first backup is not moved.
RotateShort ==
  /\ pc = "rotate" /\ step > 0
  /\ backup' = IF step = 1 \/ backup[step] = NoFile THEN backup
               ELSE [backup EXCEPT ![step + 1] = backup[step], ![step] = NoFile]
  /\ step' = step - 1
  /\ UNCHANGED <<pc, log, file, added, starts, crashes, taken, since>>

\* Mutated: the backups are moved from the first up.
RotateUp ==
  /\ pc = "rotate" /\ step > 0
  /\ LET k == Backups - step
     IN  backup' = IF backup[k] = NoFile THEN backup
                   ELSE [backup EXCEPT ![k + 1] = backup[k], ![k] = NoFile]
  /\ step' = step - 1
  /\ UNCHANGED <<pc, log, file, added, starts, crashes, taken, since>>

\* rotate_log: a backup that is there is renamed to the next number.
Rotate ==
  /\ pc = "rotate" /\ step > 0
  /\ backup' = IF backup[step] = NoFile THEN backup
               ELSE [backup EXCEPT ![step + 1] = backup[step], ![step] = NoFile]
  /\ step' = step - 1
  /\ UNCHANGED <<pc, log, file, added, starts, crashes, taken, since>>

\* rotate_log: the first backup is opened for writing, if there is a log.
OpenBackup ==
  /\ pc = "rotate" /\ step = 0
  /\ IF file = NoFile THEN pc' = "idle" /\ UNCHANGED backup
     ELSE pc' = "copying" /\ backup' = [backup EXCEPT ![1] = Empty]
  /\ UNCHANGED <<step, log, file, added, starts, crashes, taken, since>>

CopyBackup ==
  /\ pc = "copying"
  /\ backup' = [backup EXCEPT ![1] = file]
  /\ taken' = <<file>> \o taken /\ since' = 0
  /\ pc' = "idle"
  /\ UNCHANGED <<step, log, file, added, starts, crashes>>

-----------------------------------------------------------------------------
(* Changes of the log, each followed by a write of the file *)

\* A client's record, or the user's if the log was empty: the file is rewritten.
Add ==
  /\ pc = "idle" /\ added < MaxRecs
  /\ log' = Append(log, added + 1) /\ added' = added + 1
  /\ pc' = "open"
  /\ UNCHANGED <<step, file, backup, starts, crashes, taken, since>>

\* saveRecord, in a log with records: the record is appended to the file.
Save ==
  /\ pc = "idle" /\ added < MaxRecs /\ MaySave /\ log # <<>>
  /\ log' = Append(log, added + 1) /\ added' = added + 1
  /\ pc' = "append"
  /\ UNCHANGED <<step, file, backup, starts, crashes, taken, since>>

\* deleteRecord, and every other change that rewrites the file
Delete(n) ==
  /\ pc = "idle" /\ n \in DOMAIN log
  /\ log' = SubSeq(log, 1, n - 1) \o SubSeq(log, n + 1, Len(log))
  /\ pc' = "open"
  /\ UNCHANGED <<step, file, backup, added, starts, crashes, taken, since>>

\* cbExit
Exit ==
  /\ pc = "idle"
  /\ pc' = "exit"
  /\ UNCHANGED <<step, log, file, backup, added, starts, crashes, taken, since>>

\* Mutated: a change that leaves a record appends the latest one.
OpenLogAppends ==
  /\ pc \in {"open", "exit"}
  /\ pc' = IF pc = "exit" THEN "exiting" ELSE IF log = <<>> THEN "write" ELSE "append"
  /\ UNCHANGED <<step, log, file, backup, added, starts, crashes, taken, since>>

\* writelog_: fopen "wb" empties the file ...
OpenLog ==
  /\ pc \in {"open", "exit"}
  /\ file' = Empty
  /\ pc' = IF pc = "open" THEN "write" ELSE "exiting"
  /\ UNCHANGED <<step, log, backup, added, starts, crashes, taken, since>>

\* ... and the text is on disk when fclose has returned.
CloseLog ==
  /\ pc \in {"write", "exiting"}
  /\ file' = Written(log)
  /\ pc' = IF pc = "write" THEN "idle" ELSE "off"
  /\ UNCHANGED <<step, log, backup, added, starts, crashes, taken, since>>

\* writeAdifRec.  After an incomplete record the new one cannot be told from it.
Appended == [file EXCEPT !.recs = Append(@, IF file.torn THEN 0 ELSE log[Len(log)]),
                         !.torn = FALSE]

AppendRec ==
  /\ pc = "append"
  /\ file' = Appended
  /\ pc' = "idle"
  /\ UNCHANGED <<step, log, backup, added, starts, crashes, taken, since>>

\* The process dies; what was being written has been written in part.
Crash ==
  /\ pc # "off" /\ crashes < MaxCrashes
  /\ file' \in CASE pc \in {"write", "exiting"} -> PartsOf(Written(log))
                 [] pc = "append" -> {file, [file EXCEPT !.torn = TRUE], Appended}
                 [] OTHER -> {file}
  /\ IF pc = "copying"
     THEN \E part \in PartsOf(file) : backup' = [backup EXCEPT ![1] = part]
     ELSE UNCHANGED backup
  /\ pc' = "off" /\ crashes' = crashes + 1
  /\ UNCHANGED <<step, log, added, starts, taken, since>>

\* The bounds are reached.
Idle == pc = "off" /\ starts = MaxStarts /\ UNCHANGED vars

Next ==
  \/ Start \/ Rotate \/ OpenBackup \/ CopyBackup
  \/ Add \/ Save \/ (\E n \in DOMAIN log : Delete(n)) \/ Exit
  \/ OpenLog \/ CloseLog \/ AppendRec
  \/ Crash
  \/ Idle

Spec == Init /\ [][Next]_vars

-----------------------------------------------------------------------------
(* Properties *)

\* Every variable keeps its type.
TypeOK ==
  /\ pc \in Pc /\ step \in 0..(Backups - 1)
  /\ log \in Seq(Nat) /\ file \in Content /\ backup \in [1..Backups -> Content]
  /\ {added, starts, crashes, since} \subseteq Nat
  /\ taken \in Seq(Content)

\* The log that the latest complete start has read is in a backup until as many
\* starts have begun as there are backups, whatever dies in between and whatever
\* the file has become.
StartedLogKept ==
  taken # <<>> /\ since < Backups => \E k \in 1..(since + 1) : backup[k] = Head(taken)

\* Without a crash backup k is the copy made k - 1 copies ago.
BackupsInOrder ==
  crashes = 0 /\ pc \notin {"rotate", "copying"} =>
    \A k \in 1..Backups : backup[k] = IF k <= Len(taken) THEN taken[k] ELSE NoFile

\* Between two changes the file can be read back as the log, except for a record
\* saved behind an incomplete one.
FileIsLog ==
  pc = "idle" =>
    /\ Len(Readable(file)) = Len(log)
    /\ \A i \in DOMAIN log : Readable(file)[i] \in {log[i], 0}
=============================================================================
