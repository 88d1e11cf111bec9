# Verification of the fllog logbook

fllog is an amateur radio logbook with a graphical interface (FLTK) that serves
other programs over XML-RPC: a client such as fldigi asks whether a station was
worked before, fetches its record, adds the contact just made or changes the
selected one.  These TLA+ modules model the parts of the program that keep the
log, with the interleavings that make them hard to test; TLC checks them on
small instances and TLAPS proves the main results for every instance.

## 1. The system

| part | source | state | operations |
|---|---|---|---|
| Logbook server | `src/src/logbook/support.cxx` | the method globals, `exec_mutex`, the posted handlers | five methods on the xml thread, four handlers on the main thread |
| Logbook in memory | `src/src/logbook/qso_db.cxx` | the array of records, the direction of the sort | add, delete, replace, four sorts, duplicate scan, match |
| Logbook dialog | `src/src/logbook/logsupport.cxx` | browser, form, `editNbr`, New/View state, dirty flag, the name of the log | New/Save/Cancel/Update/Delete, open, new, save as, merge, sort, search |
| ADIF files | `src/src/logbook/adif_io.cxx`, `logbook.cxx` | the log file and five backups | read, write, append, rotate, field parsing |
| Browser table | `src/src/widgets/table.cxx` | rows, selection, scroll position | add, clear, select, search, sort |
| Export, Cabrillo | `logsupport.cxx`, `textio.cxx` | EXPORT flags, the check list | select, export, score sheet |
| XML-RPC transport | `src/src/xmlrpcpp/` | connections, buffers, the dispatcher's sources | accept, read, execute, write, close; client calls with retry |
| Event log | `src/src/misc/debug.cxx` | the lines not shown yet, the text | log, show |
| Preferences | `src/src/misc/status.cxx` | sort kind and directions, log name, geometry | load, save |
| Startup and exit | `src/src/fllog.cxx` | the order of server, preferences, log | main, timers, terminate |
| Dates | `src/src/widgets/date.cxx`, `calendar.cxx` | the date of the popup calendar, its buttons and caption, the field | arrows, keys, click, typing |
| Widgets and other | `src/src/widgets/`, `src/src/compat/`, `src/src/misc/` | drawing, dialogs, regular expressions | - |

Two threads share all of it.  The **xml thread** runs `log_server.work(-1)` for
ever: it accepts connections and executes one call at a time.  The **main
thread** runs FLTK: callbacks of the user interface, timers, and the handlers
the xml thread posts with `Fl::awake`.  FLTK runs them in order, between two
callbacks, and also inside the event loop of a question box.  `exec_mutex` is
held by a handler while it runs and by three of the calls while they store or
look up something; nothing else takes it.

What is hard: a call that has been answered is not done yet (it is only posted);
one global per method holds the text of the last call; the browser is a copy of
the log that is cleared and refilled, so row numbers go stale; the main thread
changes the log without the mutex while the xml thread reads it; a question box
runs handlers in the middle of a callback; the log file is overwritten in place;
the log has two names; and what a record lacks is filled in on the copy in memory
after its text for the file has been taken.

What makes the parts correct:

* server: every answered call takes effect once, in order, on the record meant;
  each call is answered, for the call asked;
* log in memory: sorting loses nothing; an index names the record it was taken for;
* dialog: the form shows the record it edits, nothing typed or merged is lost
  without a question, what the dialog names is what it changes;
* files: whatever dies when, the log that the latest complete start has read is kept in a
  backup for as many starts as there are backups; while nothing dies, the file itself
  holds the log between two changes;
* texts: what is written is what is read, as far as the format can tell it;
* transport: a request is executed whole, its answer reaches the call that waits for
  it, connections are neither forgotten nor left open; nothing waits for ever;
* table: a click or a key selects the row that is drawn there, and the form follows;
* exports: the file gets what was checked, and the log is left as it was;
* event log: a line is not lost or mixed with another, and log() returns;
* dates: the day that is clicked is the day that is entered.

## 2. Plan

All modules of the plan are written.

| module | models | extends | checked by | proved |
|---|---|---|---|---|
| `QsoDb` | the log in memory: operators on sequences of records | | (used by the next two) | `QsoDbProofs` |
| `LogServer` | both threads over one log, browser, form and file | `QsoDb` | `server`, `server_live`, `lost_add` | `LogServerProofs` |
| `LogBook` | the dialog and its files, with adds arriving by RPC | `QsoDb` | `book` | `LogBookProofs` |
| `LogFile` | writing in place, append, crash, restart, rotation of the backups | | `logfile` | `FileProofs` |
| `AdifText` | the text of records: written, read from a file, read from a call | | `text` | `FileProofs` |
| `XmlStrings` | strings in XML, and how the tags around them are looked for | | `text` | `RpcProofs` |
| `RpcText` | a call as XML, from the client's parameters through the server's methods to the answer; composed with the reader of `AdifText` | `AdifText`, `XmlStrings` | `text` | |
| `RpcSocket`, `RpcServer`, `RpcClient` | buffers and ends of connections; the server's connections and dispatcher; the client with its retry | | | |
| `RpcTransport` | clients and server over the sockets | the three | `rpc`, `rpc_live` | `RpcProofs` |
| `RpcCalls` | what the transport promises: the abstract specification that `RpcTransport` implements | | `rpc_live` | `RpcProofs` |
| `BrowserTable` | selection, view, keyboard and mouse of the table | | `table` | `BrowserTableProofs` |
| `Export` | the export lists, marks and writers, the Cabrillo report | | `export` | `FileProofs` |
| `EventLog` | log() on two threads and sync_text, access by access | | `eventlog` | `EventLogProofs` |
| `Dates`, `Calendar` | the arithmetic of Date, the popup calendar and the field | `Calendar` extends `Dates` | `calendar` | `CalendarProofs` |

The modules `MC...` give the constants where a .cfg cannot.

`LogServer` and `LogBook` look at the same log from two sides: the server with its
threads and one file, the dialog with its menus, form and several files and the
server's calls as single steps.  `LogFile` opens up what these take as one step, the
write of the file; `AdifText` opens up the text that is in it and in a call; `RpcText`
and `RpcTransport` what comes before `LogServer`'s step `Call`: the one about the
text of a call that arrives whole, the other about its arriving.

## 3. `LogServer`: state and steps

| variable | code |
|---|---|
| `db`, `reverse` | `qsodb`, `cQsoDb::reverse` |
| `file` | the records in the log file |
| `browser`, `selected` | the call column of `wBrowser` (column 2; column 6 is the record number, the row itself), `wBrowser->value()` |
| `editNbr` | the record the form edits |
| `lastsort`, `fwd` | `progStatus.lastsort`, `callfwd`, `datefwd`, `freqfwd`, `modefwd` |
| `addSlot`, `updSlot`, `dupNbr`, `fetchCall` | `adif_add_record`, `adif_update_record`, `duprecnbr`, `fetch_callsign` |
| `mutex`, `queue` | `exec_mutex`, the ring of `Fl::awake` |
| `xml`, `main` | where each thread is, with the call or job it works on |
| `modal` | the call the open delete question names |
| `acked`, `applied`, `xml.quiet`, `xml.had` | history: the answered adds, the adds done, whether anything changed during a call, whether the record existed |

A call goes through `XmlLock`, `StoreBuffer` or `CheckDup`, `XmlUnlock`,
`XmlAwake`; `log.get_record` through `XmlSearch`, `XmlFetch`, `XmlRead`, without
the mutex.  A job of the main thread is: change the log (`AddRecord`,
`UpdateRecord`, `SortBy`, `DeleteYes`, `Start`), clear the browser (`MainClear`),
fill it and select a row (`MainFill`), release the mutex if it is a handler.
Those are the places where the other thread can see a difference; between them
a job is one step.  `Dispatch` is enabled while a delete question is open.

`writeLog` takes the text of every record and then passes the record to `qsoUpdRec`, which
fills in the band of a frequency or the frequency a band begins with (`checkBand`, by the
tables `band_freq` and `band_name`): the file does not get it until the log is written
again.  `add_record` fills in nothing (`newrec`).  `FileCurrent` therefore compares the
two up to what `checkBand` can tell again, and no more.  `add_record` cuts the text of the
call for the event log before it writes the file; where no `<` follows the CALL field,
`st.erase` throws, nothing catches it, and the program ends with the record in memory
only (`AddThrows`, for the buffers in `Unended`).

Indexes start at 1 and 0 stands for -1.  Fields are ranks in the collating
order, rank 0 the empty string; NOTES stands for every field without a part in the
operations, so the letters of a band that `checkBand` makes small, and QSL_VIA, which
Save puts into another field, are no part of a record here.  `Within` says which regular expression is found inside
which value; only equality is assumed.  `qsort` may leave equal records in any order, so
a sort is a choice among the sorted rearrangements.

Where the code has undefined behaviour the model has a choice: an update or a
`goto_dup_rec` with record -1 either crashes or touches memory that is not the
log's.  Finer races are left out: a record is read in one step by
`log.get_record`, and a sort is one step, so the model shows no torn record; it
also leaves out the growth of the array, which frees records another thread
reads, and the buffers of the answer of `log.get_record`: a field's text is cut after 99
bytes (`szfield`), and the fields of a record with more than 1000 bytes of text run over
`szrec` (logsupport.cxx:795), so the records of the model are those that fit.
What the model shows wrong is wrong in the code; the converse is claimed for the
interleavings of the steps above only.

Fairness: weak fairness of the steps of each thread.  The scheduler runs both, the
mutex is held for a bounded piece of work, and the event loop takes the next
handler when a callback returns.  Nothing is assumed of clients and user.

## 4. `LogBook`: state and steps

| variable | code |
|---|---|
| `proc` | whether the process runs |
| `db`, `dirty` | `qsodb`, `qsodb.isdirty()` |
| `reverse`, `lastsort`, `fwd` | as in `LogServer` |
| `browser`, `selected`, `editNbr`, `form` | `wBrowser`, the row selected, `editNbr`, the input fields |
| `logState`, `active` | `log_state`, `bDelete->active()` (`activateButtons`) |
| `dialog` | the file dialog or the second question of New is open |
| `logName`, `prefName` | `logbook_filename`, `progStatus.logbookfilename` |
| `disk` | the log files: header and records |
| `merged` | history: records have been merged since the log was last written whole |

Each action is one callback: `NewRecord` and `saveRecord` are the two states of
`cb_btnNewSave`, `CancelRecord` and `updateRecord` those of `cb_btnUpdateCancel`,
`NewLogbook`, `NewCancelled`, `NewNamed` and `NewSaved` are `cb_mnuNewLogbook` cut
where it waits for the user, because a client's call can come in there.  The other
questions are answered in the step that asks them (`LogServer` has what can happen
during the delete question).  `RpcAdd` and `RpcUpdate` are the handlers as one step.

`loadBrowser` is the operator every callback that shows the log ends with; it fills
the browser, selects the first or last row and by that loads the form, except for
an empty log, where it returns before.  Which callbacks use it, `restore_sort`
(the direction and order of the preferences; `Restored` where its records go on to
another step), `Dated` (SortByDate: by date, in the
direction of whatever sort was last) or neither is where they differ, and what
the properties are about.  The two names of the log are kept apart as in the code: the dialog
writes to one, the server's handlers and the next start use the other.  A record
appended to a file that is not there makes a file without header, which is read
as empty (`writeAdifRec`, `Readable`).

The log knows more than its file.  Save puts the form into the log with `qsoNewRec`, which
fills in band or frequency, dates and times on the copy in the log (`completed`), and
appends the form as it was typed (`storeNew`); a first record is written by `writeLog`
instead.  Every `writeLog` takes the texts first and fills in band or frequency behind them.
Update and Delete load the form between the sort and the file, so the form has the record
as it was before that.  `EditRecord` shows 00:00:00 for a time that is empty, and Update then
takes it for the time of the record (`Midnight`).  What a file lacks can be told again from
what it has; but the next start sorts without it until the log is written once more.

A form always has a date, as `clearRecord` enters today's.  The state of one log
is the whole `disk`; a write never fails (failures are in `LogFile`, as crashes).

## 5. `LogFile`: state and steps

`log` is the log in memory, `file` and `backup` what is on disk, `pc` what the
process does.  A start reads the file, `Rotate` renames one backup per step from
the last down (the code's loop), `OpenBackup` and `CopyBackup` copy the file to the
first.  A change of the log (`Add`, `Save`, `Delete`) is followed by `OpenLog`, which
empties the file (`fopen "wb"`), and `CloseLog`; `Save` appends one record instead
(`AppendRec`).  `Crash` may come between any two of these.  It leaves of a file that
was being written any prefix of its text: nothing, the header with the first n
records, or those and a piece of the next.  A record appended behind a piece is
read as one with it: number 0.  Records are numbers, since only their identity
matters here; sorting leaves the identity alone and is left out.

Not a crash but an error of a write (disk full, no permission) is not modelled:
the code looks at none of them (see the hazards in PROJECT.json).

## 6. `AdifText` and `RpcText`: state and steps

A text is a sequence of tokens: a tag with name and length, an end of record in
either spelling, a stray `<`, characters.  The names are cut into pieces, because
`findfield` looks for a name as a part of the names of the table (`strcasestr`), and
the order of the table decides.  A file is written record by record (`WriteRecord`), then
opened (`OpenFile`).  `FindEor` looks for the end of a record as readfile_
does: in capitals anywhere, else in small letters.  A file is read by `NextRecord`,
`Known`, `Unknown` and `EndOfRecord`, one tag at a time; the text of a call by the same
steps with the one difference of `add_record` and `update_record`, that the search goes
on inside the value.  A length counts tokens.  The file is smaller than the buffer of
16384 bytes it is read through, and its header is passed over.  `AdifSpec` is this module
on its own; the module is composed with `RpcText` by the text that arrives.

In `RpcText` the text of a call comes from a client.  `Send` writes the call as XML
(`generateRequest`, or the same in the style of another library: typed strings, spaces
between the tags, `<nil/>`, empty strings as `<string/>`), `Serve` is `executeRequest`:
it reads the text with the position arithmetic of `nextTagIs`, `nextTagIsEnd`,
`findTag`, `stringFromXml` (all in `XmlStrings`) and the readers of the other types, executes the method or, in a multicall, the
methods with a fault for each that fails, and writes the response; a text that is to be
added goes to the reader (`Arrives`).  `Receive` is `parseResponse`.  `ran` records the
methods that ran, and `CallIsCarried` compares this and the answer with the methods
executed directly.  In a multicall a method name that is no string is read outside
of the `try` (XmlRpcServer.cpp:461): it throws away the results of calls that have
run.  A multicall within a multicall is left out: it is given the parameters of the outer
one (XmlRpcServer.cpp:468) and calls itself until the stack ends.  Of the values, strings,
numbers, nil, arrays and structs are modelled.

Fairness is that of a loop that goes on: weak fairness of the reader's steps and of the
change of a call's phase, which one of `Send`, `Serve` and `Receive` can always do.

## 7. `RpcTransport`: state and steps

| variable | code |
|---|---|
| `up`, `down`, `ends`, `listening` | the buffers of the sockets, who has closed which end |
| `sources`, `round` | `XmlRpcDispatch::_sources` with their masks; the copy that a round goes through, with what select has set |
| `conn` | each `XmlRpcServerConnection`: state, header, request, response, bytes written, keep-alive |
| `client` | each `XmlRpcClient`: state, attempts, header, response, whether it is monitored |
| `inCall`, `called`, `result` | `_executing`, the number of the call, what execute returned |
| `executed`, `timedOut` | history |

A message is the head, the blank line and tokens of body.  A read finds any part of
what is in the buffer and a write takes any part of the room (`Accepted`), so
messages are cut everywhere.  `Select` is the call of select with the copy of the list, and
`HandleConnection` and `AcceptConnection` are one handler each; between them clients may
act.  The process may die (`ServerDies`) and start again, with its port free or
taken (`ServerStarts`; `start_server` does not look at the result of `bindAndListen`).
`ReadHeader` with `Retry` is the client's single repetition of a request whose
connection ended without an answer, `Timeout` the one of `execute`, after which the
connection still carries the old call and `setupConnection` closes it.  fllog has no
client of its own: the class is the one that the programs around it use.

`RpcCalls` is the abstract specification: a call is executed at most once more than
the server has died, only after it was made, and returns nothing but a failure or, once it
has been executed, its own answer; `CallsImplemented` is the refinement, with
the number of executions and of deaths as the mapping.  The bound is what the code
gives: a request is sent again only when its connection has ended, and the server ends
one that it has executed from only by dying or after the response.

Fairness: weak fairness of the server's and of each client's steps on their sources.
The kernel carries what is written, and both loops are of a thread that runs; nothing
makes a client call or the server start again.

Not modelled here: a connection that is reset because it was closed with unread
data, and the loop that spins when no port could be bound (support.cxx:287, `work`
returns at once without sources).  A response that is not taken whole by the socket is
cut when the connection is not to be kept (XmlRpcServerConnection.cpp:223): the
model has it, and `NoFailureWithoutCause` excepts these clients (HTTP/1.0).

## 8. `BrowserTable`: state and steps

`t` is the Table object as far as rows are concerned: `rows`, `selected`, `scroll`, the
height `iH`, the rows on view as `scrolled` has computed them (`topRow`, `topRowY`,
`bottomRow`) and `changed` (`dimensionsChanged`: the next drawing computes them
anew).  The member functions are operators that take the object and give the one they
leave; the actions are what happens to it: `Reload` and `Found` by the logbook,
`Draw`, `Resize`, `ScrollBar`, `Key`, `Push`, `Drag`, `PushHeader`, `Release`.  `edited` is the row
whose record the callback has put into the form.  Events that were queued before a
reload are handled before the drawing, so `where` may name a row that is gone:
`crashed`, and `MissesOnlyUndrawn` says that this is the only occasion.  Four rows of
height 2 in areas of height 1, 2 and 5 make every relation of rows and area: lower than
a row, one row, more than one with a cut one, all.

`clear` takes away the selection, so `loadBrowser(true)`, which is to keep the
position, never does.  The sort of the widget is not used (the headers have the
callbacks of the logbook); columns and drawing are left out.  Of a width that is too small
only a horizontal scrollbar would tell the rows, by the height it takes from them
(`calcDimensions`, table.cxx:1681); but `LOGBOOK_colors_font` sets `allowHscroll(never)`
before the window is shown (fllog.cxx:354, 670), so there is none.  The height of a row
is constant; a change of the font while the program runs is left out.

## 9. `Export`, `EventLog`, `Calendar`: state and steps

**Export.**  `slots` is the array of records with the field EXPORT, `list` what each of
the two dialogs shows, with what is checked, as it was when it opened.  The dialogs are not modal: the log changes under them
(`AddRecord`, `SaveRecord`, `UpdateRecord`, `DeleteRecord`, `SortBy`), and during the file
dialog by calls.  `RestoreSort` is what Cancel, Save as and the question of New (`saveLogbook`)
have in common: the log is sorted and the browser is not loaded.  `FileChosen` is the writer: ADIF by the list, CSV and text through the
marks, Cabrillo through the marks after a sort by date that does not load the browser.
`output` has each record that was written at its place in the log, which is the order of
the lines.  qsort is any rearrangement that is in order (`Sorted`).  `died` is the
exception that `insert` throws for a record without a date
(logsupport.cxx:1411).  New after its question, Open and Merge are left to `LogBook`, and so
is the band that `qsoUpdRec` may fill in behind a mark.  Three records, one without a date, are enough for a list
that has become longer, shorter or other than the log.

**EventLog.**  Every access of the shared buffers is a step: `Format` (the format of the
line), `Spin` (the wait for `debug_in_use`), prefix and text of `sztemp`, reading and
writing the string `estr`, and `awake`; `sync_text` in three steps on the main thread.
Two appends at a time work each on the string it has read, and may crash the program
(`Corrupt`).  `raced` records the lines whose call overlapped with another: of these
nothing is promised.  `LoneLineKept` is about the others.  The queue of handlers has
one entry, which is the limit case; the program stops when all calls are made, hence
`CHECK_DEADLOCK FALSE`.  Fairness: both threads go on, and the main loop runs `sync_text`.

**Calendar.**  `date` is the Date the calendar is, `shown` the month on the buttons, `field`
the input.  The action `Key(o)` moves by days, `Arrow` by months and years, `Click` enters a
day.  `Dates` is the class: its validity test (a leap year has no last day but
February's; no year after 2035 is valid), month and year steps, the day of the week
by the count of days.  The run has the years 2032 to 2034 with 2033 as the last the
class knows, so that a leap year, its neighbours and the end of the class's years are
crossed.  Enter with the pointer over the caption does nothing.  That FLTK gives the keys
to a popup that has grabbed the pointer is external.

## 10. Runs

`MCLogServer` and `MCLogBook` give field values 0..2; call 2 contains call 1 (as W1HKJ
contains W1HK).  `MaxCalls` bounds the calls, `MaxUi` the actions of the user, `MaxOps`
both together in `LogBook`.

| run | question | bounds | distinct states |
|---|---|---|---|
| `server` | do globals, file, browser, form and log agree in every interleaving, are adds counted, answers right and the recent record selected? | 3 calls of 5 kinds, before and after the start; 1 user action, 2 records, 2 sorts, the delete question | 1,591,681 |
| `server_live` | is every call answered and every add done? | 2 calls, one text that ends with its call, 1 user action, fair | 26,294 |
| `lost_add` | does each add of two add its own record? | 2 adds | violated |
| `book` | is the whole log shown, saved unless marked, and there again after a restart? | 6 actions, 3 records, 3 files, 2 forms, 2 sorts; every menu | 693,987 |
| `logfile` | is a readable log left, whatever dies when? | 3 backups, 5 starts, 3 crashes, 3 records | 1,135,723 |
| `text` | is what is read what was written, and a call what was called? | files of 2 records over 4 fields; a record in a call, alone or in a multicall, by 2 libraries; 17 other calls | 795,940 |
| `rpc` | are connections watched, and does a call fail for a reason only? | 2 clients (one HTTP/1.0), 1 call each, 2 connections each, 1 crash, 1 timeout | 1,095,580 |
| `rpc_live` | are requests whole, answers to the call, executions counted; does each call return? | 1 client, 2 calls, 3 connections, 1 crash, 1 timeout, fair | 46,420 |
| `table` | is the right row selected, drawn and edited? | 4 rows, 3 heights | 26,847 |
| `export` | does the file get what is checked, and is the log left as it was? | 3 records, 2 dialogs | 545,408 |
| `eventlog` | is a line kept and shown? | 2 threads with 2 calls each, queue of 1 | 109,051 |
| `calendar` | is the day clicked the day entered? | 3 years, days to 33 | 19,357 |

All but `lost_add` hold.  Three calls are enough for a call in the slot, one posted and one
running; two records and one arriving are enough for a sort to move rows in both
directions.  Six actions on the dialog are enough to change the log, open another
one, change that and restart; one form has a band without a frequency and a time on without a time
off, and the record a client adds a frequency without its band, so that both ways of filling
in make a file that differs from the log.  With three backups and five starts the oldest is
pushed out, also behind a gap and behind a broken copy.  One crash and one timeout
with two calls are enough for a late answer, a retry and a second execution.  Nothing
bounds what the calls in `text` may contain but the sets of `MCAdifText`: each kind of
markup is in a value of its own.

`lost_add` is a finding: log.add_record is listed as "adds new ADIF-RECORD"
(support.cxx), and an answered call is only posted; a second one that is executed before
the handler of the first replaces its text, which is then added twice.  `AddsConserved` and
`LatestAddApplied` are what does hold.

Each property of a passing run has a mutant in PROJECT.json: a change of one definition,
as a bug in the code would be, that makes the run fail.  They are the operators marked
"Mutated:".

### What the models show beyond the properties

The models have more behaviours a reader of the code should know of, for which no
property is stated, or one that leaves them out:

* `log.get_record` may answer NO RECORD for a record that exists, or with the record of
  another call, while the log is reloaded or sorted (logsupport.cxx:785, 826); and with
  the oldest record of a call when the latest is at the bottom.  `GetRightWhenQuiet` is
  what does hold.
* The delete question names a record; a call that is handled while it is open changes
  `editNbr`, and another record is deleted (logsupport.cxx:1109).
* A record added before the log has been read is written over the file (fllog.cxx:660).
* Cancel (logsupport.cxx:683), Save as (527), the question of New (416) and the Cabrillo
  report (1592) sort the log without loading the browser; Update and Delete then change
  another record than the row that is selected.  `ExportKeepsLog` says that these are the
  only steps of its model that get the two out of step.
* A log that is not marked as changed can know more than its file: the band or the frequency
  that `writeLog` fills in behind the text, and also the dates and times that Save fills in
  on the copy in memory (adif_io.cxx:562, logsupport.cxx:1016).  Other readers of the file do
  not see them, and a record that is read back is sorted without them: without the band or
  the frequency after a restart, without the dates and times only where the log was not
  written whole in between (cbExit does so), as by Open of the same file.  `CleanMeansSaved`, `RestartShowsLog` and
  `FileCurrent` say how far the two agree.
* A log.add_record whose text has no `<` behind the CALL field ends the program before the
  log is written (adif_io.cxx:674).
* Merge marks the log as changed, and Save, which appends one record, takes the mark
  away (logsupport.cxx:1009): `CleanMeansSaved` excepts what was merged since the log was
  written whole.  A New that is cancelled after its first name leaves the two names
  of the log different (logsupport.cxx:432).
* A second `log.check_dup` resets the number the handler of the first one uses
  (support.cxx:128); a call of a client replaces the record that is being entered
  (logsupport.cxx:1199); Cancel in an empty log reads the number of a row that is not
  there (logsupport.cxx:684); records that a client adds to an empty log cannot be
  updated or deleted, as the buttons stay off (support.cxx:210).
* A file in which one record ends with `<eor>` and a later one with `<EOR>` loses the
  records between; the field SIG of another program is taken for STATION_CALLSIGN.
* A table area lower than a row makes a page of 0 rows: Page Down stays where it is.
* An export that fails to open its file leaves marks, which the next one writes.  The
  suffix that the export of text appends to a name is not used, and the column
  LOTW_RCVD gets the date of LOTW's sending.
* April 31 is valid in a leap year, and no date after 2035 is.
* The help of log.check_dup has a frequency in Hz and the comparison divides one of
  the two by 1000 (qso_db.cxx:536).

## 11. Proofs

Every theorem is proved from the assumptions on the constants (`...Assumption`) alone:
for every log, number of threads' calls, backups, clients, rows, years.  The bounds
are constants of the modules, so the theorems hold for each value of them.

**`QsoDbProofs`**: the operators.  A search finds a least and a greatest hit, a
rearranged log has the same length and loses no record, deleting, replacing and
filling give records again, records are counted alike before and after a sort, and what
`checkBands` fills in it fills in once: a second time changes nothing.

**`LogServerProofs`** proves all properties of the run `server`.
`TypeOK` is not inductive: the delete question reads the call of the selected row, and a
step of the xml thread reads fields of its request (`TypeInv`).  `MutexCorrect` needs
`LockedJobs`: only handlers that take the mutex wait for it or release it;
`SlotsKept` follows.  `LatestAddKept` speaks of the ends of two histories; the invariant
that carries it goes through the global: it holds the text of the latest answered call
until the next one stores its own (`SlotIsLatest`), and once no handler is pending it is
what was added last (`LatestIsSlot`).  `FileIsCurrent` and `BrowserIsInSync` are about
the time between two jobs; their invariants (`FileInv`, `SyncInv`) say what is true at
each phase of a job: which of file and browser is behind, and what the clearing, the
filling and the selection have to do yet.  The two logs of `FileInv` are compared after
`checkBands`, and not while a program that has ended by `AddThrows` has the record in memory
only.  `RecentIsSelected` adds the order of the log by
its direction (`OrderInv`), which survives that `writeLog` fills in frequencies as it is about
the ends of the QSOs, and `GetIsRight` that nothing has changed since a quiet
call has begun (`QuietInv`).  `AddsAreConserved` counts the handlers in the queue.

**`LogBookProofs`**: `IInv` is `TypeOK`, what is shown (`Shown`) and what is saved
(`SavedInv`, with the names that meet or differ, `NamesMeet`).  The three invariants
depend on each other: what a Save appends is right only if the file is readable, which
a log that is not marked guarantees.  File and log are compared after `Completed`: `completed`
is idempotent, so an appended form and the record made of it agree (`Saved`), and the log as
written and as `writeLog` leaves it agree even after `checkBands` (`Written`), which is what
`RestartCorrect` needs.

**`FileProofs`** is about three modules that share no variable.  `LogFile`: `StartedLogIsKept`: the log that the latest complete start has read is in a
backup until as many starts have begun as there are backups, wherever they die.  The
invariant needs the phase of the rotation (`Place`): while the loop is at `step`, the copy is
either still to be moved, in a backup `k <= step` with `k <= since`, or above the gap,
`k >= step + 2`.  `BackupsAreInOrder` has the same phases for the ages of all copies
(`OrderInv`), and `FileIsTheLog` says what a torn end and a record appended behind it
leave (`FileInv`).

`Export`: the invariant `ExportInv` is the types, with lists that name places of the array
(`ExportTypeInv`), and `MarkInv`, which is about every slot of the array: `MarksHaveCause` is
about those in use only and is not inductive, as `newrec` hands out a slot behind them with
the mark it has.  A step that sorts is reasoned about by the bijection of the places
(`SortedRecords`), whatever the comparison; so `ExportLosesNothing` follows, and
`ChosenIsWritten` for the report, which marks by the places of the list, sorts, and writes by
the places of then: the bijection carries the checked places to as many
(`PlacesMoved`).

`AdifText`: a text is of any length, so each operator on texts has lemmas about where what
it looks for is, by induction over positions in the form of a least counterexample.
`ReadingCorrect` is about files without an end of record in a value, `EndInValueLosesNoRecord`
about the others, by the same invariant (`ReaderInv`): what has been read and what is left of
the text belong together.  `k` records are behind the reader, and the text that is left is
that of the others, each at its place (`CutOf`); it may begin in the middle of a record, at
`at[k] < 0`, where an end in a value made the reader stop.  What is behind the reader is in
the log, in its order (`RecordsMatch`: `m` tells the place of each record that is not
empty).  Between records this is all (`ScanAt`); within one the reader is before its fields,
behind some of them, which are set while the others are empty (`AfterFields`), or nowhere
(`InRecord`, `FieldsAt`).  `CallCorrect` has an invariant of its own (`CallInv`), as the search of
a call goes on inside a value: it needs that a value without tags and ends has nothing in
it to be found.  `TextTypeCorrect` is the type invariant (`TextType`).

**`EventLogProofs`**: `LoneLineIsKept`, by an invariant of six parts (`IInv`).  A line that has
not raced owns the two buffers while its call is under way (`OwnBuffers`), the flag
covers its append unless it raced (`GuardRaced`), and a kept line is in the window, in the
string or in the copy that sync_text has taken (`Kept`, `KeptInWindow`, `KeptInCopy`).
`CalmLogExact` is the other half: without an overlap the window and the string have the lines
that were logged and nothing else.  It counts them (`Exact`), so it says that none is
doubled, also when sync_text moves the string to the window between two appends.

**`BrowserTableProofs`**: `EditedCorrect`, `ViewCorrect`, `MissesCorrect`, from the lemma that each
member function leaves a sound object (`Sound`): the view that was computed is that of
the scroll position and the rows of then.  The arithmetic is that of division with remainder.
`SelectionOnView` takes each key apart: where the selection was, how far the view is
scrolled (`Hidden`, `ShownScroll`), and that the new row, one away or a page, is then on it.

**`CalendarProofs`**: `NextDay`, `NextWeekday` and `MonthsFollow` are about the class: the count of
days grows by one from a day to the next, over months, years and the rules of leap
years; the weekday is the next; a month's step gives the neighbour.  `ClickCorrect`,
`CaptionCorrect` and `KeyCorrect` are the three properties of the run for any years.

**`RpcProofs`**: `ConnectionsMonitored`, and `HandledIsOpen`: a handler runs only for a connection
that is open and a source.  The invariant `MInv` says that sources and the copy of a
round are without repetition and open (`SourcesDistinct`, `SourcesOpen`, `RoundDistinct`,
`RoundOpen`), that what is open is monitored with the mask of its state (`OpenMonitored`),
that connections not opened yet are untouched (`Unused`) and a dead process has
none (`DeadIsEmpty`).  The copy may contain what an earlier handler of the round has
removed only if it is that handler's own connection, which is why a handler that
closes itself does no harm.

A second invariant, `CInv`, is about the texts.  A request is at most on its way over one
connection that lives (`HeldOnce`), and while it is, the call has not been executed
more often than processes have died (`HeldBound`); so an execution keeps `TimesBound`.
The server's end of a connection is reading the request of one call or writing its answer
(`ServerTexts`); each client (`ClientText`) asks, hears or rests.  One that asks has
written as much as the other end has got, and may send again over another connection only
because none holds its request (`Alone`).  One that hears has a beginning of the answer to its
call, as long as what the server has written, and if it has any of it, the
call was executed.  One that rests has nothing left in either buffer, which is why a kept
connection carries no old answer into the next call.  From it follow `RequestsAreWhole`,
`ExecutedOncePerLife`, `AnswersBelong` and, with `NoneClosed`, `SucceedsOrTimesOut`.

`ImplementsCalls` is the refinement: initial states map to initial states (`CallsInit`), every
step of the server (`ServerServes`) and of a client (`ClientCalls`) to a step of `RpcCalls` or to
none.  The execution needs `HeldBound`, the return `EventResult`: what a client
returns is a failure or the answer of a call that was executed.

The last part is about the texts themselves, for strings of any length over any characters.
`StringsAreReadBack`: `xmlDecode` undoes `xmlEncode`.  It goes through the places the
characters have in the encoded text (`Coded`): what is decoded from the place of the i-th one
on is the string from its i-th character on (`Decodes`).  `StringValueIsRead`: a string
anywhere in a text is read whole, and its end tag is found although `stringFromXml` moves on by
the length of the decoded string: what it has not passed over contains no `<`.

Type invariants are proved (`TypeCorrect` in the modules) and are not among the
properties of the runs, except where they say something else.  Model-checked only:

* liveness: `CallEventuallyAnswered`, `AddEventuallyApplied`, `CallReturns`, `LogReturns`,
  `LoneLineShown`, `Ends` (temporal reasoning with ENABLED is beyond the provers);
* `CallIsCarried`: values are nested, `toXml` and `fromXml` are recursive operators, and the
  prover has no arithmetic in a module with those.  Proved are the parts that are not
  recursive: a string within a value (`StringValueIsRead`), and what the reader makes of a
  text that has arrived (`CallCorrect`, about `AdifSpec`).

`lost_add` checks a property that does not hold.

## 12. Not modelled

* The arithmetic of `duplicate` (qso_db.cxx): its table of days is indexed with the
  characters of digits (503) and its differences of times are unsigned (570), so what
  it computes depends on memory outside of the table; in `LogServer` the answer
  of a scan is a choice where the code does not determine it.  `matched` is not called by
  the program, nor are `qsoReadFile` and `qsoWriteFile`.
* A disk that is full, the early returns of `readfile_` that leave the file open, a text
  without any end of record, files larger than the buffer; the calls of `fillfield`
  with OP_CALL and STA_CALL in `add_record` (adif_io.cxx:664), which fill nothing.
* Of XML-RPC: doubles (written with the digits of `%f`), booleans, dates (`timeFromXml`
  does not undo what `timeToXml` adds), binary data, which no method of the log uses;
  system.listMethods and system.methodHelp; a multicall within another one.
* The formats of dates and times and the functions of `timeops.cxx`: conversions
  without state.
* The completion of the state and county fields while the user types; geometry and colours in the
  preferences; command line, directories, signals and the terminate handler.
* Dialogs generated by FLUID (`lgbook.cxx`), fonts and colours, pictures (`pixmaps.cxx`,
  the icon), the other widgets: generated data, drawing and event handling of single
  widgets.
* The bundled GNU regular expression library (`regex.c`): the relation `Within`
  stands for what it finds.
* Build files and installers.

The generated, bundled and picture files make up more than four tenths of the lines of
the repository's sources.  PROJECT.json lists every part with its reason, and for each
hazard what its properties leave out.
