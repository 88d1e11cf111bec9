------------------------------- MODULE Export -------------------------------
(***************************************************************************)
(* Exports of the log and the Cabrillo report (src/logbook/logsupport.cxx, *)
(* textio.cxx).  Each dialog shows a list of the records as they were when *)
(* it opened, and names what is checked by its place in the log.  The      *)
(* dialogs are not modal: the log goes on changing under them, by the user *)
(* and by calls of clients; under the file dialog only by the calls.       *)
(*                                                                         *)
(* Two of the writers mark the records they are to write in the log itself, *)
(* in the field EXPORT.  A record is its number (0: an emptied one), which  *)
(* is also the rank of its date; what a line of a file contains is left out, *)
(* and so is the band that qsoUpdRec may fill in behind a mark.  The log is   *)
(* emptied record by record here: New, Open and Merge are in LogBook.        *)
(***************************************************************************)
EXTENDS Integers, FiniteSets, Sequences, Functions

CONSTANTS
  Ids,          \* the records
  Undated,      \* those without a date
  CallRank,     \* the order of their calls
  MaxSlots      \* bound: records in the log

ASSUME ExportAssumption ==
  /\ Ids \subseteq Nat \ {0} /\ Undated \subseteq Ids /\ MaxSlots \in Nat \ {0}
  /\ CallRank \in [Ids -> Int]
  /\ \A u \in Undated, i \in Ids \ Undated : u < i

VARIABLES
  slots,        \* qsorec: the array of records, each with its field EXPORT
  nbrrecs,
  lastsort, fwd, reverse,     \* progStatus.lastsort, .datefwd and .callfwd, cQsoDb::reverse
  rows,         \* the records the browser shows
  export_to,    \* what the export dialog was opened for last
  list,         \* the list of each dialog
  choosing,     \* the dialog whose file dialog is open
  output,       \* the records the last step wrote to a file, each at its place in the
                \* log: they are written in the order of the places
  causes,       \* history: what has happened that leaves marks behind
  died          \* an exception has ended the program

logVars == <<slots, nbrrecs>>
sortVars == <<lastsort, fwd, reverse>>
exportVars == <<logVars, sortVars, rows, export_to, list, choosing, output, causes, died>>

Dialog == {"wExport", "wCabrillo"}
Kind == {"DATE", "CALL"}
EmptySlot == [id |-> 0, mark |-> FALSE]
NoList == [open |-> FALSE, ids |-> <<>>, checked |-> {}]
Nothing == <<>>

recs == [i \in 1..nbrrecs |-> slots[i]]
IdsOf(s) == [i \in DOMAIN s |-> s[i].id]

Before(kind, r1, r2) ==
  \/ kind = "CALL" /\ CallRank[r1.id] < CallRank[r2.id]
  \/ (kind = "DATE" \/ CallRank[r1.id] = CallRank[r2.id]) /\ r1.id < r2.id

\* The array qsort may leave: the same records, none before one it compares greater than.
Sorted(kind, rev, s) ==
  {t \in {[i \in DOMAIN s |-> s[p[i]]] : p \in Bijection(DOMAIN s, DOMAIN s)} :
     \A i, j \in DOMAIN s : i < j =>
       IF rev THEN ~Before(kind, t[i], t[j]) ELSE ~Before(kind, t[j], t[i])}

\* The records become s; the slots behind them are cleared or keep what they had.
Become(s) ==
  /\ slots' = [i \in DOMAIN slots |-> IF i \in DOMAIN s THEN s[i] ELSE slots[i]]
  /\ nbrrecs' = Len(s)

\* They are sorted and the browser is loaded.
SortedShown(kind, s) == \E t \in Sorted(kind, reverse', s) : Become(t) /\ rows' = IdsOf(t)

-----------------------------------------------------------------------------
(* The log changes.  Acts: the user can use the windows.                   *)

Running == ~died
Acts == Running /\ choosing = "none"
LogOnly == UNCHANGED <<export_to, list, choosing, causes, died>> /\ output' = Nothing

\* add_record of a client: newrec hands out the next slot as it is.
AddRecord(id) ==
  /\ Running /\ nbrrecs < MaxSlots /\ id \notin {slots[i].id : i \in 1..nbrrecs}
  /\ UNCHANGED sortVars /\ LogOnly
  /\ SortedShown("DATE", Append(recs, [id |-> id, mark |-> slots[nbrrecs + 1].mark]))

\* saveRecord: qsoNewRec assigns the whole record.
SaveRecord(id) ==
  /\ Acts /\ nbrrecs < MaxSlots /\ id \notin {slots[i].id : i \in 1..nbrrecs}
  /\ UNCHANGED sortVars /\ LogOnly
  /\ SortedShown("DATE", Append(recs, [id |-> id, mark |-> FALSE]))

\* updateRecord: the record is replaced by one made of the form, without the mark.
UpdateRecord(n) ==
  /\ Acts /\ n <= nbrrecs
  /\ reverse' = fwd[lastsort]
  /\ SortedShown(lastsort, [recs EXCEPT ![n].mark = FALSE])
  /\ UNCHANGED <<lastsort, fwd>> /\ LogOnly

Cleared(i) == EmptySlot

\* deleteRecord: the records behind move up, the last slot is cleared.
DeleteRecord(n) ==
  LET s == [i \in 1..(nbrrecs - 1) |-> slots[IF i < n THEN i ELSE i + 1]]
  IN  /\ Acts /\ n <= nbrrecs
      /\ reverse' = fwd[lastsort]
      /\ \E t \in Sorted(lastsort, reverse', s) :
           /\ slots' = [i \in DOMAIN slots |->
                          IF i < nbrrecs THEN t[i]
                          ELSE IF i = nbrrecs THEN Cleared(i) ELSE slots[i]]
           /\ rows' = IdsOf(t)
      /\ nbrrecs' = nbrrecs - 1
      /\ UNCHANGED <<lastsort, fwd>> /\ LogOnly

\* cb_SortByDate, cb_SortByCall
SortBy(kind) ==
  /\ Acts
  /\ lastsort' = kind
  /\ fwd' = [fwd EXCEPT ![kind] = IF lastsort = kind THEN ~@ ELSE kind = "DATE" /\ @]
  /\ reverse' = fwd'[kind]
  /\ SortedShown(kind, recs)
  /\ LogOnly

\* restore_sort without loadBrowser: Cancel of a new record, Save as, and saveLogbook in a
\* New that is then cancelled.  The rows stay as they were.
RestoreSort ==
  /\ Acts
  /\ reverse' = fwd[lastsort]
  /\ \E t \in Sorted(lastsort, reverse', recs) : Become(t)
  /\ UNCHANGED <<lastsort, fwd, rows>> /\ LogOnly

-----------------------------------------------------------------------------
(* The dialogs *)

DialogOnly == UNCHANGED <<logVars, sortVars, rows, causes, died>> /\ output' = Nothing

\* Whether the date of a record is in the span: one without a date never is.
InSpan(id, span) == id \in span /\ id \notin Undated

\* cb_export_date_select: the lines are checked by the log as it is now.
Dated(ids, span) == {i \in DOMAIN ids : i <= nbrrecs /\ InSpan(slots[i].id, span)}

\* A line for every record, and those of the span are checked.
Listed(span) == [open |-> TRUE, ids |-> IdsOf(recs), checked |-> Dated(IdsOf(recs), span)]

\* Bound: one of the two dialogs at a time.
OnlyOne(d) == \A e \in Dialog \ {d} : ~list[e].open

\* cb_mnuExportADIF_log, cb_mnuExportCSV_log: what the dialog is for changes even when
\* the log is empty and no list is made.
OpenExport(kind, span) ==
  /\ Acts /\ OnlyOne("wExport") /\ export_to' = kind
  /\ list' = IF nbrrecs = 0 THEN list ELSE [list EXCEPT !["wExport"] = Listed(span)]
  /\ UNCHANGED choosing /\ DialogOnly

\* cb_Export_Cabrillo
OpenCabrillo ==
  /\ Acts /\ OnlyOne("wCabrillo") /\ nbrrecs > 0
  /\ list' = [list EXCEPT !["wCabrillo"] = Listed({})]
  /\ UNCHANGED <<export_to, choosing>> /\ DialogOnly

DateSelect(span) ==
  /\ Acts /\ list["wExport"].open /\ nbrrecs > 0
  /\ list' = [list EXCEPT !["wExport"].checked = Dated(list["wExport"].ids, span)]
  /\ UNCHANGED <<export_to, choosing>> /\ DialogOnly

\* The user checks a line or takes the check away.
Check(d, i) ==
  /\ Acts /\ list[d].open /\ i \in DOMAIN list[d].ids
  /\ list' = [list EXCEPT ![d].checked = (@ \cup {i}) \ (@ \cap {i})]
  /\ UNCHANGED <<export_to, choosing>> /\ DialogOnly

\* OK: with nothing checked there is nothing to do, else a file name is asked for.
OK(d) ==
  /\ Acts /\ list[d].open
  /\ IF list[d].checked = {} THEN list' = [list EXCEPT ![d] = NoList] /\ UNCHANGED choosing
     ELSE list' = [list EXCEPT ![d].open = FALSE] /\ choosing' = d
  /\ UNCHANGED export_to /\ DialogOnly

Cancel(d) ==
  /\ Acts /\ list[d].open
  /\ list' = [list EXCEPT ![d] = NoList]
  /\ UNCHANGED <<export_to, choosing>> /\ DialogOnly

-----------------------------------------------------------------------------
(* The writers: each is given what is checked, and sets slots, file and causes. *)

\* Mutated: the line after the one that is checked is taken.
MarkedNext(checked) ==
  [i \in DOMAIN slots |-> IF i - 1 \in checked THEN [slots[i] EXCEPT !.mark = TRUE] ELSE slots[i]]

\* putField(EXPORT, "E"): getRec hands out any slot, also one past the last record.
Marked(checked) ==
  [i \in DOMAIN slots |-> IF i \in checked THEN [slots[i] EXCEPT !.mark = TRUE] ELSE slots[i]]

Short(checked) == IF \E i \in checked : i > nbrrecs THEN {"shorter log"} ELSE {}

\* Mutated: the mark stays in the log.
UnmarkedNot(s, upto) ==
  [i \in DOMAIN s |-> s[i]]

\* The mark is taken from the records that have been written.
Unmarked(s, upto) ==
  [i \in DOMAIN s |-> IF i <= upto THEN [s[i] EXCEPT !.mark = FALSE] ELSE s[i]]

First(s, n) == [i \in 1..n |-> s[i]]

\* writeCSVFile and writeTXTFile: one line for each marked record, in the order of the log
Lines(s, upto) == [i \in {j \in 1..upto : s[j].mark} |-> s[i].id]

\* Mutated: the log is sorted by date first, as it is by the report.
WriteTextByDate(checked, opens) ==
  /\ opens
  /\ \E t \in Sorted("DATE", reverse, First(Marked(checked), nbrrecs)) :
       /\ slots' = [i \in DOMAIN slots |-> IF i <= nbrrecs THEN Unmarked(t, nbrrecs)[i] ELSE slots[i]]
       /\ output' = Lines(t, nbrrecs)
  /\ UNCHANGED <<nbrrecs, causes, died>>

\* Export_CSV and Export_TXT
WriteText(checked, opens) ==
  LET s == Marked(checked)
  IN  /\ IF opens
         THEN /\ slots' = Unmarked(s, nbrrecs)
              /\ output' = Lines(s, nbrrecs)
              /\ causes' = causes \cup Short(checked)
         ELSE /\ slots' = s /\ output' = Nothing
              /\ causes' = causes \cup Short(checked) \cup {"no file"}
      /\ UNCHANGED <<nbrrecs, died>>

\* Export_ADIF marks nothing; it does not notice a file that does not open.
WriteADIF(checked, opens) ==
  /\ output' = IF opens THEN [i \in checked |-> slots[i].id] ELSE Nothing
  /\ UNCHANGED <<logVars, causes, died>>

\* cabrillo_append_qso: with the date among the columns, a dash is inserted into it, which
\* throws an exception if it is too short.
Throws(r, dates) == dates /\ r.mark /\ r.id \in Undated

\* WriteCabrillo: the log is sorted by date and stays so, the browser is not loaded.
Report(marked, sorted, dates) ==
  LET fatal == {i \in 1..nbrrecs : Throws(sorted[i], dates)}
      upto == IF fatal = {} THEN nbrrecs ELSE (CHOOSE i \in fatal : \A j \in fatal : i <= j) - 1
      s == Unmarked(sorted, upto)
  IN  /\ slots' = [i \in DOMAIN slots |-> IF i <= nbrrecs THEN s[i] ELSE marked[i]]
      /\ output' = Lines(sorted, upto)
      /\ died' = (fatal # {})

WriteCabrillo(checked, opens, dates) ==
  LET marked == Marked(checked)
  IN  /\ IF opens
         THEN /\ \E sorted \in Sorted("DATE", reverse, First(marked, nbrrecs)) :
                   Report(marked, sorted, dates)
              /\ causes' = causes \cup Short(checked)
         ELSE /\ slots' = marked /\ output' = Nothing /\ UNCHANGED died
              /\ causes' = causes \cup Short(checked) \cup {"no file"}
      /\ UNCHANGED nbrrecs

\* The file dialog ends with a name; the file opens or not.
FileChosen(d, opens) ==
  /\ Running /\ choosing = d /\ choosing' = "none"
  /\ CASE d = "wCabrillo" -> \E dates \in BOOLEAN :
                               WriteCabrillo(list[d].checked, opens, dates)
       [] d = "wExport" /\ export_to = "ADIF" -> WriteADIF(list[d].checked, opens)
       [] OTHER -> WriteText(list[d].checked, opens)
  /\ list' = [list EXCEPT ![d] = NoList]
  /\ UNCHANGED <<sortVars, rows, export_to>>

FileCancelled ==
  /\ Running /\ choosing # "none" /\ choosing' = "none"
  /\ list' = [list EXCEPT ![choosing] = NoList]
  /\ UNCHANGED export_to /\ DialogOnly

Gone == died /\ output' = Nothing /\ UNCHANGED <<logVars, sortVars, rows, export_to, list, choosing, causes, died>>

ExportInit ==
  /\ slots = [i \in 1..MaxSlots |-> EmptySlot] /\ nbrrecs = 0
  /\ lastsort = "DATE" /\ fwd = [k \in Kind |-> TRUE] /\ reverse = TRUE
  /\ rows = <<>> /\ export_to = "ADIF"
  /\ list = [d \in Dialog |-> NoList] /\ choosing = "none"
  /\ output = Nothing /\ causes = {} /\ died = FALSE

ExportNext ==
  \/ \E id \in Ids : AddRecord(id) \/ SaveRecord(id)
  \/ \E n \in 1..MaxSlots : UpdateRecord(n) \/ DeleteRecord(n)
  \/ \E kind \in Kind : SortBy(kind)
  \/ RestoreSort
  \/ \E kind \in {"ADIF", "CSV"}, span \in {{}, Ids} : OpenExport(kind, span)
  \/ \E span \in {{}, Ids} : DateSelect(span)
  \/ OpenCabrillo \/ FileCancelled \/ Gone
  \/ \E d \in Dialog : OK(d) \/ Cancel(d) \/ \E i \in 1..MaxSlots : Check(d, i)
  \/ \E d \in Dialog, opens \in BOOLEAN : FileChosen(d, opens)

ExportSpec == ExportInit /\ [][ExportNext]_exportVars

-----------------------------------------------------------------------------
(* Properties *)

Chosen(d) == {list[d].ids[i] : i \in list[d].checked}

\* While the log is still as the list shows it and no mark is left from before, the
\* file gets the records that are checked and no other, each once: in whatever order
\* the log was when the list was made and is when the report is written.
WritesWhatIsChecked ==
  [][\A d \in Dialog :
       /\ FileChosen(d, TRUE) /\ ~died'
       /\ list[d].ids = IdsOf(recs) /\ \A i \in 1..nbrrecs : ~slots[i].mark
       => /\ {output'[k] : k \in DOMAIN output'} = Chosen(d)
          /\ Cardinality(DOMAIN output') = Cardinality(list[d].checked)]_exportVars

\* A mark stays in the log only after a file that did not open, a list that was longer
\* than the log, or the end of the program: never after an export that went well.
MarksHaveCause == (\E i \in 1..nbrrecs : slots[i].mark) => causes # {} \/ died

\* Whatever becomes of the file, no export and no report loses a record or makes one of
\* two; and an export moves none, so that each row of the browser and the form still name
\* the record they did.  The browser gets out of step with the log in two ways only: by a
\* report, which sorts the log by date, and by a restore_sort that no loadBrowser follows.
ExportKeepsLog ==
  [][/\ choosing # "none" /\ choosing' = "none" =>
          /\ nbrrecs' = nbrrecs
          /\ {slots'[i].id : i \in 1..nbrrecs'} = {slots[i].id : i \in 1..nbrrecs}
          /\ choosing = "wExport" => IdsOf(recs)' = IdsOf(recs)
     /\ rows = IdsOf(recs) /\ rows' # IdsOf(recs)' =>
          \/ RestoreSort
          \/ choosing = "wCabrillo" /\ choosing' = "none"]_exportVars
=============================================================================
