------------------------------ MODULE LogBook ------------------------------
(***************************************************************************)
(* The logbook dialog of fllog (src/logbook/logsupport.cxx): the browser,  *)
(* the form, the New/Save and Update/Cancel buttons and the Log menu, over *)
(* one logbook in memory and several log files.  Everything here runs on   *)
(* the main thread, one callback at a time; a record that a client adds or *)
(* updates arrives between two callbacks, or while a dialog box is open.   *)
(*                                                                         *)
(* The program keeps the name of the log twice: logbook_filename, which    *)
(* the dialog writes to, and progStatus.logbookfilename, which the server  *)
(* writes to and which is opened by the next start.                        *)
(*                                                                         *)
(* The log also knows more than its file.  What a record lacks (band or    *)
(* frequency, dates, times) is filled in on the copy in memory: by         *)
(* qsoNewRec while Save appends the form as it was typed, and by writeLog  *)
(* itself, after it has taken the text of each record.                     *)
(***************************************************************************)
EXTENDS QsoDb

CONSTANTS
  Names,        \* names of log files
  NewName,      \* "newlog", the name New proposes
  FirstName,    \* the log of the preferences at the first start
  InitDisk,     \* the files at the first start
  Forms,        \* what the user may type into the form
  Adifs,        \* what clients may add or update
  Kinds,        \* the column headers the user may click
  Today,        \* the date clearRecord enters
  Midnight,     \* the time the form shows for a record without one
  MaxRecs,      \* bound: records in the log
  MaxOps        \* bound: actions of the user and of the clients

\* A log file; readfile_ finds no record without the header.
File == [header : BOOLEAN, recs : Seq(Rec)]
Absent == [header |-> FALSE, recs |-> <<>>]

ASSUME BookAssumption ==
  /\ {NewName, FirstName} \subseteq Names
  /\ InitDisk \in [Names -> File]
  /\ Forms \subseteq Rec
  /\ Adifs \subseteq AdifBuffer
  /\ Kinds \subseteq SortKind
  /\ Today \in Rank /\ Midnight \in Rank
  /\ {MaxRecs, MaxOps} \subseteq Nat

VARIABLES
  proc,         \* the process: "off", "on" or "crashed"
  db, dirty,    \* qsodb, and whether it has changes to be saved
  reverse, lastsort, fwd,
  browser,      \* the CALL column of wBrowser; row n shows record number n
  selected,     \* wBrowser->value(); 0 is -1, no selection
  editNbr,      \* the record the form edits
  form,         \* the input fields
  logState,     \* "VIEWREC" or "NEWREC"
  active,       \* bDelete is active; in VIEWREC bUpdateCancel is so too
  dialog,       \* New has a dialog open: "none", "name" or "save"
  logName,      \* logbook_filename
  prefName,     \* progStatus.logbookfilename
  disk,         \* the log files
  merged,       \* history: records were merged since the log was written whole
  ops           \* counter of the bound

logVars  == <<db, dirty>>
sortVars == <<reverse, lastsort, fwd>>
viewVars == <<browser, selected, editNbr, form>>
btnVars  == <<logState, active>>
nameVars == <<logName, prefName>>
diskVars == <<disk, merged>>
vars == <<proc, logVars, sortVars, viewVars, btnVars, dialog, nameVars, diskVars, ops>>

CallColumn(s) == [i \in DOMAIN s |-> s[i]["CALL"]]

\* What readfile_ reads from a file
Readable(f) == IF f.header THEN f.recs ELSE <<>>

ClearForm == [EmptyRec EXCEPT !["QSO_DATE"] = Today, !["QSO_DATE_OFF"] = Today]

\* The program has been closed with the log of FirstName.
Init ==
  /\ proc = "off"
  /\ db = Readable(InitDisk[FirstName]) /\ dirty = FALSE
  /\ reverse = FALSE /\ lastsort = "SORTDATE" /\ fwd = [k \in SortKind |-> TRUE]
  /\ browser = <<>> /\ selected = 0 /\ editNbr = 1 /\ form = EmptyRec
  /\ logState = "VIEWREC" /\ active = FALSE
  /\ dialog = "none"
  /\ logName = FirstName /\ prefName = FirstName
  /\ disk = InitDisk /\ merged = FALSE
  /\ ops = 0

-----------------------------------------------------------------------------
(* What the callbacks are made of.  Each operator sets some variables.     *)

\* restore_sort, after the records have become s
restore_sort(s) ==
  /\ reverse' = fwd[lastsort]
  /\ db' \in Sorted(lastsort, reverse', s)

\* restore_sort with the records going on to a caller
Restored(s) == Sorted(lastsort, fwd[lastsort], s)

Dated(s) == Sorted("SORTDATE", reverse, s)

\* EditRecord: timeview makes 00:00:00 of a time that is empty, which Update then
\* takes for the time of the record.  (The user types times in full, or none.)
EditRecord(rec) ==
  [rec EXCEPT !["TIME_ON"]  = ifEmpty(rec["TIME_ON"], Midnight),
              !["TIME_OFF"] = ifEmpty(rec["TIME_OFF"], Midnight)]

\* Selecting a row of the log s calls cb_browser, which loads the form.
GotoRow(row, s) ==
  /\ selected' = row /\ editNbr' = row
  /\ form' = EditRecord(getRec(s, row))

\* clear, a row per record of the log s, then the first or the last row; an empty
\* logbook leaves the form as it is
loadBrowser(s) ==
  /\ browser' = CallColumn(s)
  /\ IF s = <<>> THEN selected' = 0 /\ UNCHANGED <<editNbr, form>>
     ELSE GotoRow(IF reverse' THEN 1 ELSE Len(s), s)

activateButtons(state) ==
  /\ logState' = state
  /\ active' = (state = "VIEWREC" /\ db' # <<>>)

\* The file gets the text of the records s, which are then completed in the log.
writeLog(name, s) ==
  /\ disk' = [disk EXCEPT ![name] = [header |-> TRUE, recs |-> s]]
  /\ merged' = FALSE
  /\ db' = checkBands(s)

\* fopen "ab": a file that is not there is created, without the header.
writeAdifRec(rec, name) ==
  /\ disk' = [disk EXCEPT ![name] = [header |-> @.header, recs |-> Append(@.recs, rec)]]
  /\ UNCHANGED merged

\* Mutated: the record is appended even if it is the only one.
storeNewAppends(s, rec) == writeAdifRec(rec, logName) /\ db' = s

\* saveRecord, when the record is in the log s: the only one is written by writeLog,
\* another one is appended as it was typed.
storeNew(s, rec) ==
  IF Len(s) = 1 THEN writeLog(logName, s) ELSE writeAdifRec(rec, logName) /\ db' = s

Acts == proc = "on" /\ ops < MaxOps /\ ops' = ops + 1

UserActs == Acts /\ dialog = "none" /\ UNCHANGED proc

\* saveLogbook asks if there are changes; the file gets the order of the date.
\* (Then restore_sort sorts what writeLog has made of the log.)
SaveChanges(name) ==
  /\ \E s \in Dated(db) :
       disk' = [disk EXCEPT ![name] = [header |-> TRUE, recs |-> s]]
  /\ merged' = FALSE

saveLogbook(answer) ==
  \/ /\ answer /\ SaveChanges(logName)
     /\ restore_sort(checkBands(db))
     /\ dirty' = FALSE
  \/ /\ ~answer /\ UNCHANGED <<diskVars, db, reverse, dirty>>

-----------------------------------------------------------------------------
(* The program starts and ends *)

\* start(): the file is read and shown, sorted as before.  The state of the
\* buttons is that of a new process.
Start ==
  /\ proc = "off" /\ ops < MaxOps
  /\ proc' = "on"
  /\ logName' = prefName /\ UNCHANGED prefName
  /\ restore_sort(Readable(disk[prefName]))
  /\ loadBrowser(db')
  /\ dirty' = FALSE
  /\ activateButtons("VIEWREC")
  /\ merged' = FALSE
  /\ UNCHANGED <<lastsort, fwd, dialog, disk, ops>>

\* Mutated: only a log that is marked as changed is written.
cbExitIfDirty ==
  /\ Acts /\ dialog = "none"
  /\ proc' = "off"
  /\ IF dirty THEN SaveChanges(logName) ELSE UNCHANGED diskVars
  /\ restore_sort(checkBands(db))
  /\ browser' = <<>> /\ selected' = 0 /\ editNbr' = 1 /\ form' = EmptyRec
  /\ UNCHANGED <<dirty, lastsort, fwd, btnVars, dialog, nameVars>>

\* cbExit: the preferences and the log are written.
cbExit ==
  /\ Acts /\ dialog = "none"
  /\ proc' = "off"
  /\ SaveChanges(logName)
  /\ restore_sort(checkBands(db))
  /\ browser' = <<>> /\ selected' = 0 /\ editNbr' = 1 /\ form' = EmptyRec
  /\ UNCHANGED <<dirty, lastsort, fwd, btnVars, dialog, nameVars>>

-----------------------------------------------------------------------------
(* Calls of clients (support.cxx, adif_io.cxx): they write the file named by
   the preferences and reload the browser, whatever the user is doing.     *)

\* The text of a buffer goes on behind the call (LogServer has the one that does not).
RpcAdd(buffer) ==
  /\ Acts /\ Len(db) < MaxRecs
  /\ \E s \in Dated(Append(db, fillfields(EmptyRec, buffer))) : writeLog(prefName, s)
  /\ UNCHANGED reverse
  /\ loadBrowser(db')
  /\ UNCHANGED <<proc, dirty, lastsort, fwd, btnVars, dialog, nameVars>>

\* Without a selected row the behaviour is undefined: see LogServer.
RpcUpdate(buffer) ==
  /\ Acts /\ selected # 0
  /\ \E s \in Dated(qsoUpdRec(db, selected, fillfields(getRec(db, selected), buffer))) :
       writeLog(prefName, s)
  /\ UNCHANGED reverse
  /\ loadBrowser(db')
  /\ dirty' = FALSE
  /\ UNCHANGED <<proc, lastsort, fwd, btnVars, dialog, nameVars>>

-----------------------------------------------------------------------------
(* The browser and the form *)

\* A click on a row, or a hit of the search
SelectRow(row) ==
  /\ UserActs
  /\ row \in DOMAIN browser
  /\ UNCHANGED <<logVars, sortVars>>
  /\ GotoRow(row, db)
  /\ UNCHANGED <<browser, btnVars, dialog, nameVars, diskVars>>

SortBy(kind) ==
  /\ UserActs
  /\ lastsort' = kind
  /\ fwd' = [fwd EXCEPT ![kind] =
                IF lastsort = kind THEN ~@ ELSE kind = "SORTDATE" /\ @]
  /\ reverse' = fwd'[kind]
  /\ db' \in Sorted(kind, reverse', db)
  /\ loadBrowser(db')
  /\ UNCHANGED <<dirty, btnVars, dialog, nameVars, diskVars>>

\* The user edits the form.
Type(rec) ==
  /\ UserActs
  /\ form' = rec
  /\ UNCHANGED <<logVars, sortVars, browser, selected, editNbr, btnVars, dialog,
                 nameVars, diskVars>>

\* New: cb_btnNewSave in state VIEWREC
NewRecord ==
  /\ UserActs /\ logState = "VIEWREC"
  /\ form' = ClearForm
  /\ UNCHANGED logVars
  /\ activateButtons("NEWREC")
  /\ UNCHANGED <<sortVars, browser, selected, editNbr, dialog, nameVars, diskVars>>

\* Save: saveRecord, and then the log is sorted by date and loaded once more.
saveRecord ==
  /\ UserActs /\ logState = "NEWREC" /\ Len(db) < MaxRecs
  /\ \E s \in Dated(qsoNewRec(db, form)) : storeNew(s, form)
  /\ UNCHANGED reverse
  /\ dirty' = FALSE
  /\ loadBrowser(db')
  /\ activateButtons("VIEWREC")
  /\ UNCHANGED <<lastsort, fwd, dialog, nameVars>>

\* Cancel: cb_btnUpdateCancel in state NEWREC.  The form gets the record whose
\* number is in the selected row; without a row there is no number to read, and
\* atoi(NULL) is a crash.
CancelRecord ==
  /\ Acts /\ dialog = "none" /\ logState = "NEWREC"
  /\ restore_sort(db)
  /\ activateButtons("VIEWREC")
  /\ IF selected = 0 THEN proc' = "crashed" /\ UNCHANGED form
     ELSE UNCHANGED proc /\ form' = EditRecord(getRec(db', selected))
  /\ UNCHANGED <<dirty, lastsort, fwd, browser, selected, editNbr, dialog,
                 nameVars, diskVars>>

\* Update: cb_btnUpdateCancel in state VIEWREC.  The form is loaded before the log is
\* written.
updateRecord ==
  /\ UserActs /\ logState = "VIEWREC" /\ active /\ db # <<>>
  /\ reverse' = fwd[lastsort]
  /\ \E s \in Restored(qsoUpdRec(db, editNbr, form)) :
       loadBrowser(s) /\ writeLog(logName, s)
  /\ dirty' = FALSE
  /\ UNCHANGED <<lastsort, fwd, btnVars, dialog, nameVars>>

\* Delete, with the question answered by yes (LogServer models what can happen
\* while it is open)
deleteRecord ==
  /\ UserActs /\ active /\ db # <<>>
  /\ reverse' = fwd[lastsort]
  /\ \E s \in Restored(qsoDelRec(db, editNbr)) :
       loadBrowser(s) /\ writeLog(logName, s)
  /\ dirty' = FALSE
  /\ UNCHANGED <<lastsort, fwd, btnVars, dialog, nameVars>>

-----------------------------------------------------------------------------
(* The Log menu *)

\* New: the question of saveLogbook, and the name the file dialog proposes
NewLogbook ==
  /\ UserActs
  /\ \E answer \in {dirty, FALSE} : saveLogbook(answer)
  /\ logName' = NewName /\ UNCHANGED prefName
  /\ dialog' = "name"
  /\ UNCHANGED <<lastsort, fwd, viewVars, btnVars>>

\* The file dialog is cancelled, or a file is not to be overwritten.
NewCancelled ==
  /\ Acts /\ dialog = "name"
  /\ dialog' = "none"
  /\ UNCHANGED <<proc, logVars, sortVars, viewVars, btnVars, nameVars, diskVars>>

\* Mutated: the rows of the log before stay in the browser.
NewNamedKeepsRows(name) ==
  /\ Acts /\ dialog = "name"
  /\ logName' = name /\ prefName' = name
  /\ db' = <<>> /\ UNCHANGED <<browser, selected>>
  /\ form' = ClearForm
  /\ dirty' = TRUE
  /\ dialog' = "save"
  /\ merged' = FALSE
  /\ UNCHANGED <<proc, sortVars, editNbr, btnVars, disk>>

\* A name is chosen: the log is emptied, and saveLogbook asks again.
NewNamed(name) ==
  /\ Acts /\ dialog = "name"
  /\ logName' = name /\ prefName' = name
  /\ db' = <<>> /\ browser' = <<>> /\ selected' = 0
  /\ form' = ClearForm
  /\ dirty' = TRUE
  /\ dialog' = "save"
  /\ merged' = FALSE
  /\ UNCHANGED <<proc, sortVars, editNbr, btnVars, disk>>

NewSaved(answer) ==
  /\ Acts /\ dialog = "save"
  /\ saveLogbook(answer)
  /\ dialog' = "none"
  /\ UNCHANGED <<proc, lastsort, fwd, viewVars, btnVars, nameVars>>

\* Open: the records are shown in the order of the file.
OpenLogbook(name) ==
  /\ UserActs /\ disk[name] # Absent
  /\ \/ dirty /\ SaveChanges(logName) /\ reverse' = fwd[lastsort]
     \/ UNCHANGED <<disk, reverse>>
  /\ merged' = FALSE
  /\ logName' = name /\ prefName' = name
  /\ db' = Readable(disk'[name])
  /\ dirty' = FALSE
  /\ loadBrowser(db')
  /\ activateButtons(logState)
  /\ UNCHANGED <<lastsort, fwd, dialog>>

\* Save (as)
SaveLogbook(name) ==
  /\ UserActs
  /\ logName' = name /\ prefName' = name
  /\ dirty' = FALSE
  /\ reverse' = fwd[lastsort]
  /\ \E s \in Restored(db) : writeLog(name, s)
  /\ UNCHANGED <<lastsort, fwd, viewVars, btnVars, dialog>>

MergeADIF(name) ==
  /\ UserActs /\ disk[name] # Absent
  /\ Len(db) + Len(Readable(disk[name])) <= MaxRecs
  /\ restore_sort(db \o Readable(disk[name]))
  /\ loadBrowser(db')
  /\ dirty' = TRUE
  /\ merged' = TRUE
  /\ UNCHANGED <<lastsort, fwd, btnVars, dialog, nameVars, disk>>

\* The process has crashed, or the bound is reached.
Idle == (proc = "crashed" \/ ops = MaxOps) /\ UNCHANGED vars

Next ==
  \/ Start \/ cbExit
  \/ \E buffer \in Adifs : RpcAdd(buffer) \/ RpcUpdate(buffer)
  \/ \E row \in DOMAIN browser : SelectRow(row)
  \/ \E kind \in Kinds : SortBy(kind)
  \/ \E rec \in Forms : Type(rec)
  \/ NewRecord \/ saveRecord \/ CancelRecord \/ updateRecord \/ deleteRecord
  \/ NewLogbook \/ NewCancelled
  \/ \E name \in Names :
       NewNamed(name) \/ OpenLogbook(name) \/ SaveLogbook(name) \/ MergeADIF(name)
  \/ \E answer \in BOOLEAN : NewSaved(answer)
  \/ Idle

Spec == Init /\ [][Next]_vars

-----------------------------------------------------------------------------
(* Properties *)

SameRecords(s, t) ==
  /\ Len(s) = Len(t)
  /\ \A i \in DOMAIN s : Cardinality({j \in DOMAIN s : s[j] = s[i]})
                       = Cardinality({j \in DOMAIN t : t[j] = s[i]})

\* Every variable keeps its type, and names stay names of log files.
TypeOK ==
  /\ proc \in {"off", "on", "crashed"}
  /\ db \in Seq(Rec) /\ dirty \in BOOLEAN
  /\ reverse \in BOOLEAN /\ lastsort \in SortKind /\ fwd \in [SortKind -> BOOLEAN]
  /\ browser \in Seq(Rank) /\ selected \in Nat /\ editNbr \in Nat \ {0}
  /\ form \in Rec
  /\ logState \in {"VIEWREC", "NEWREC"} /\ active \in BOOLEAN
  /\ dialog \in {"none", "name", "save"}
  /\ {logName, prefName} \subseteq Names
  /\ disk \in [Names -> File] /\ merged \in BOOLEAN
  /\ ops \in Nat

\* Whatever the sorts, menus and calls: the browser has a row for every record
\* and no other, and when there is a record one is selected and edited.
BrowserShowsAll ==
  proc = "on" =>
    /\ SameRecords(browser, CallColumn(db))
    /\ db # <<>> => selected \in DOMAIN db /\ editNbr = selected

\* What two copies of a log have in common: all that is in them and all that can be
\* told from it.
Completed(s) == [i \in DOMAIN s |-> completed(s[i])]

\* A log without the mark "changed" is in its file, so that saveLogbook and the
\* menus may drop it without a question: nothing is lost but what qsoNewRec and
\* writeLog have filled in themselves (band or frequency, dates, times), which can be
\* told again.  Two cases are left out: records merged since the file was last
\* written whole (saveRecord clears the mark and appends its own record only), and
\* the time after New was cancelled, when the dialog and the server write to
\* different files.
CleanMeansSaved ==
  proc = "on" /\ dialog = "none" /\ ~dirty /\ ~merged /\ logName = prefName
    => SameRecords(Completed(Readable(disk[logName])), Completed(db))

\* The log the user had when he left the program is the one the next start shows,
\* marked as changed or not, merged or not, with its dates and times: only a band or
\* a frequency may be missing that cbExit has filled in behind the text it wrote.
\* After a cancelled New the log was written to a file the next start does not read.
RestartShowsLog ==
  proc = "off" /\ logName = prefName
    => SameRecords(checkBands(Readable(disk[prefName])), checkBands(db))
=============================================================================
