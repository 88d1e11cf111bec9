----------------------------- MODULE LogServer -----------------------------
(***************************************************************************)
(* The logbook server of fllog: two threads over one logbook.              *)
(*                                                                         *)
(* The xml thread (support.cxx, xml_thread_loop) executes the calls of all *)
(* clients one at a time.  log.add_record and log.update_record leave the  *)
(* ADIF text in a global (one per method) and post a handler with          *)
(* Fl::awake; log.check_dup and log.get_record read the logbook on the xml *)
(* thread and post a handler that shows what they found.                   *)
(*                                                                         *)
(* The main thread (FLTK) runs the posted handlers in order and the        *)
(* callbacks of the user interface.  It owns the browser, a copy of the    *)
(* logbook with one row per record, which it clears and fills again after  *)
(* each change.                                                            *)
(*                                                                         *)
(* exec_mutex is taken by the handlers and by three of the calls.  Nothing *)
(* else takes it: not log.get_record, not the handler update_fetch, not    *)
(* the user interface.                                                     *)
(***************************************************************************)
EXTENDS QsoDb

CONSTANTS
  Requests,     \* the calls the clients may make
  Kinds,        \* the column headers the user may click
  InitLog,      \* the records of the logbook file when the program starts
  Within,       \* <<p, v>> : a regular expression p is found inside value v
  Unended,      \* the buffers whose text has no "<" behind the CALL field
  MayDelete,    \* the user may delete records
  MaxCalls,     \* bound: calls made by the clients
  MaxUi         \* bound: actions of the user

Request ==
       [method : {"add_record", "update_record"}, buffer : AdifBuffer]
  \cup [method : {"get_record"}, call : Rank]
  \cup [method : {"check_dup"}, call : Rank, mode : Rank]

ASSUME ServerAssumption ==
  /\ Requests \subseteq Request
  /\ Kinds \subseteq SortKind
  /\ InitLog \in Seq(Rec)
  /\ Within \subseteq Rank \X Rank
  /\ \A r \in Rank : <<r, r>> \in Within
  /\ Unended \subseteq AdifBuffer
  /\ MayDelete \in BOOLEAN
  /\ {MaxCalls, MaxUi} \subseteq Nat

VARIABLES
  db,           \* qsodb
  file,         \* the records in progStatus.logbookfilename
  browser,      \* wBrowser: the CALL column; row n shows record number n
  selected,     \* wBrowser->value(); 0 is -1, no selection
  editNbr,      \* the record the form edits
  lastsort, fwd, reverse,
  started,      \* the timer callback start() has run
  running,      \* the process has neither crashed nor ended
  mutex,        \* the owner of exec_mutex
  addSlot, updSlot, dupNbr, fetchCall,     \* the globals of support.cxx
  queue,        \* the ring of Fl::awake
  xml,          \* the xml thread
  main,         \* the main thread
  modal,        \* the call the delete question names, or NoQuestion
  calls, ui,    \* counters of the bounds
  acked,        \* history: the records of the add calls that were answered
  applied       \* history: the records the handler add_record has added

logVars  == <<db, file>>
viewVars == <<browser, selected, editNbr>>
sortVars == <<lastsort, fwd, reverse>>
slotVars == <<addSlot, updSlot, dupNbr, fetchCall>>
histVars == <<acked, applied>>
vars == <<logVars, viewVars, sortVars, slotVars, histVars, started, running,
          mutex, queue, xml, main, modal, calls, ui>>

NoRequest  == [method |-> "none"]
NoBuffer   == [f \in {} |-> 0]
NoQuestion == -1
NoRecord   == [found |-> FALSE]

Handler == {"add_record", "update_record", "goto_dup_rec", "update_fetch"}

XmlPc  == {"idle", "lock", "work", "unlock", "awake", "search", "fetch", "read"}
MainPc == {"idle", "lock", "work", "clear", "fill", "unlock"}

\* A call is answered by nothing, by "a record is there", or by a record.
Answer == [found : BOOLEAN] \cup [found : {TRUE}, rec : Rec]

\* What each thread is doing.  quiet and had are history: neither the logbook nor
\* the browser changed since the call began; the logbook then had a record of it.
XmlState == [pc : XmlPc, req : Request \cup {NoRequest}, row : Nat, res : Answer,
             quiet : BOOLEAN, had : BOOLEAN]
MainState == [pc : MainPc, job : Handler \cup {"none", "start", "sort", "delete"}]

Init ==
  /\ db = <<>> /\ file = InitLog
  /\ browser = <<>> /\ selected = 0 /\ editNbr = 1
  /\ lastsort \in Kinds /\ fwd \in [SortKind -> BOOLEAN] /\ reverse = FALSE
  /\ \A k \in SortKind \ Kinds : fwd[k]
  /\ started = FALSE /\ running = TRUE
  /\ mutex = "none"
  /\ addSlot = NoBuffer /\ updSlot = NoBuffer /\ dupNbr = 1 /\ fetchCall = 0
  /\ queue = <<>>
  /\ xml = [pc |-> "idle", req |-> NoRequest, row |-> 0, res |-> NoRecord,
            quiet |-> FALSE, had |-> FALSE]
  /\ main = [pc |-> "idle", job |-> "none"]
  /\ modal = NoQuestion
  /\ calls = 0 /\ ui = 0
  /\ acked = <<>> /\ applied = <<>>

CallColumn(s) == [i \in DOMAIN s |-> s[i]["CALL"]]

Matching(expr, column) == {i \in DOMAIN column : <<expr, column[i]>> \in Within}

\* Table::search from the first row on: the row of the first hit, or 0.  Searching
\* backward looks at the first row, then goes round to the last one.
searchFrom0(hits, rev) ==
  CASE hits = {} -> 0
    [] hits # {} /\ (~rev \/ 1 \in hits) -> Min(hits)
    [] OTHER -> Max(hits)

\* Mutated: the expression is not anchored.
SearchLogLoose(call, column) == searchFrom0(Matching(call, column), ~reverse)

\* SearchLog: the expression is anchored, so only the call itself matches.
SearchLog(call, column) ==
  searchFrom0({i \in DOMAIN column : column[i] = call}, ~reverse)

\* The part of a step that tells the history of the current call that the
\* logbook or the browser has changed under it.
Disturb == xml' = [xml EXCEPT !.quiet = FALSE]

-----------------------------------------------------------------------------
(* The xml thread *)

PendingAdd ==
  \/ \E i \in DOMAIN queue : queue[i] = "add_record"
  \/ main.job = "add_record" /\ main.pc \in {"lock", "work"}

\* A client's call reaches the thread (XmlRpcServer executes it).
Call(req) ==
  /\ running /\ xml.pc = "idle" /\ calls < MaxCalls
  /\ calls' = calls + 1
  /\ xml' = [pc |-> IF req.method = "get_record" THEN "search" ELSE "lock",
             req |-> req, row |-> 0, res |-> NoRecord,
             quiet |-> main.pc = "idle" /\ browser = CallColumn(db),
             had |-> /\ req.method = "get_record"
                     /\ \E i \in DOMAIN db : db[i]["CALL"] = req.call]
  /\ UNCHANGED <<logVars, viewVars, sortVars, slotVars, histVars, started,
                 running, mutex, queue, main, modal, ui>>

\* Mutated: the call does not wait for the mutex.
XmlLockAlways ==
  /\ running /\ xml.pc = "lock"
  /\ mutex' = "xml"
  /\ xml' = [xml EXCEPT !.pc = "work"]
  /\ UNCHANGED <<logVars, viewVars, sortVars, slotVars, histVars, started,
                 running, queue, main, modal, calls, ui>>

XmlLock ==
  /\ running /\ xml.pc = "lock" /\ mutex = "none"
  /\ mutex' = "xml"
  /\ xml' = [xml EXCEPT !.pc = "work"]
  /\ UNCHANGED <<logVars, viewVars, sortVars, slotVars, histVars, started,
                 running, queue, main, modal, calls, ui>>

\* Mutated: a text that is there already is kept.
StoreBufferOnce ==
  /\ running /\ xml.pc = "work"
  /\ xml.req.method \in {"add_record", "update_record"}
  /\ addSlot' = IF addSlot = NoBuffer THEN xml.req.buffer ELSE addSlot
  /\ updSlot' = xml.req.buffer
  /\ xml' = [xml EXCEPT !.pc = "unlock"]
  /\ UNCHANGED <<logVars, viewVars, sortVars, dupNbr, fetchCall, histVars,
                 started, running, mutex, queue, main, modal, calls, ui>>

\* log_add_record::execute and log_update_record::execute, in the guarded block
StoreBuffer ==
  /\ running /\ xml.pc = "work"
  /\ \/ /\ xml.req.method = "add_record"
        /\ addSlot' = xml.req.buffer /\ UNCHANGED updSlot
     \/ /\ xml.req.method = "update_record"
        /\ updSlot' = xml.req.buffer /\ UNCHANGED addSlot
  /\ xml' = [xml EXCEPT !.pc = "unlock"]
  /\ UNCHANGED <<logVars, viewVars, sortVars, dupNbr, fetchCall, histVars,
                 started, running, mutex, queue, main, modal, calls, ui>>

\* log_check_dup::execute, in the guarded block.  A mode of "0" is not checked
\* and an empty one is found inside every mode: both are rank 0 here.
CheckDup ==
  /\ running /\ xml.pc = "work" /\ xml.req.method = "check_dup"
  /\ LET modes == IF xml.req.mode = 0 THEN Rank
                  ELSE {m \in Rank : <<xml.req.mode, m>> \in Within}
         dup == duplicate(db, reverse, xml.req.call, modes)
     IN  /\ dupNbr' = dup.nbr
         /\ xml' = [xml EXCEPT !.pc = "unlock",
                               !.res = [found |-> dup.res # "false"]]
  /\ UNCHANGED <<logVars, viewVars, sortVars, addSlot, updSlot, fetchCall,
                 histVars, started, running, mutex, queue, main, modal, calls, ui>>

\* The end of the guarded block.  A check that found nothing is answered.
XmlUnlock ==
  /\ running /\ xml.pc = "unlock"
  /\ mutex' = "none"
  /\ xml' = [xml EXCEPT !.pc = IF xml.req.method = "check_dup" /\ ~xml.res.found
                               THEN "idle" ELSE "awake"]
  /\ UNCHANGED <<logVars, viewVars, sortVars, slotVars, histVars, started,
                 running, queue, main, modal, calls, ui>>

HandlerOf ==
  [add_record |-> "add_record", update_record |-> "update_record",
   check_dup |-> "goto_dup_rec", get_record |-> "update_fetch"]

\* Mutated: a handler that is in the ring already is not posted again.
XmlAwakeOnce ==
  /\ running /\ xml.pc = "awake"
  /\ LET h == HandlerOf[xml.req.method]
     IN  queue' = IF \E i \in DOMAIN queue : queue[i] = h THEN queue ELSE Append(queue, h)
  /\ xml' = [xml EXCEPT !.pc = "idle"]
  /\ acked' = IF xml.req.method = "add_record"
              THEN Append(acked, xml.req.buffer) ELSE acked
  /\ UNCHANGED <<logVars, viewVars, sortVars, slotVars, applied, started,
                 running, mutex, main, modal, calls, ui>>

\* Fl::awake(handler); the call is answered.
XmlAwake ==
  /\ running /\ xml.pc = "awake"
  /\ queue' = Append(queue, HandlerOf[xml.req.method])
  /\ xml' = [xml EXCEPT !.pc = "idle"]
  /\ acked' = IF xml.req.method = "add_record"
              THEN Append(acked, xml.req.buffer) ELSE acked
  /\ UNCHANGED <<logVars, viewVars, sortVars, slotVars, applied, started,
                 running, mutex, main, modal, calls, ui>>

\* fetch_record: SearchLog reads the browser.  While the main thread fills the
\* browser the search sees the rows added so far.  No row: "NO RECORD".
XmlSearch ==
  /\ running /\ xml.pc = "search"
  /\ \E n \in IF main.pc = "fill" THEN 0..Len(db) ELSE {Len(browser)} :
       LET column == IF main.pc = "fill" THEN SubSeq(CallColumn(db), 1, n)
                     ELSE browser
           row == SearchLog(xml.req.call, column)
       IN  xml' = [xml EXCEPT !.pc = IF row = 0 THEN "idle" ELSE "fetch",
                              !.row = row]
  /\ UNCHANGED <<logVars, viewVars, sortVars, slotVars, histVars, started,
                 running, mutex, queue, main, modal, calls, ui>>

\* fetch_record: fetch_callsign = callsign; Fl::awake(update_fetch).
XmlFetch ==
  /\ running /\ xml.pc = "fetch"
  /\ fetchCall' = xml.req.call
  /\ queue' = Append(queue, "update_fetch")
  /\ xml' = [xml EXCEPT !.pc = "read"]
  /\ UNCHANGED <<logVars, viewVars, sortVars, addSlot, updSlot, dupNbr, histVars,
                 started, running, mutex, main, modal, calls, ui>>

\* adif_record reads the fields through the pointer into the array.  A record
\* without fields gives the empty string, which is answered by "NO RECORD".  (The
\* model's records are those whose fields fit: the text of a field is cut after 99
\* bytes, and nothing keeps all of them within the 1000 bytes of szrec.)
XmlRead ==
  /\ running /\ xml.pc = "read"
  /\ LET rec == getRec(db, xml.row)
     IN  xml' = [xml EXCEPT !.pc = "idle",
                            !.res = IF rec = EmptyRec THEN NoRecord
                                    ELSE [found |-> TRUE, rec |-> rec]]
  /\ UNCHANGED <<logVars, viewVars, sortVars, slotVars, histVars, started,
                 running, mutex, queue, main, modal, calls, ui>>

XmlStep == \/ XmlLock \/ StoreBuffer \/ CheckDup \/ XmlUnlock \/ XmlAwake
           \/ XmlSearch \/ XmlFetch \/ XmlRead

-----------------------------------------------------------------------------
(* The main thread: what every job is made of *)

Locked == {"add_record", "update_record", "goto_dup_rec"}

\* A job has changed the logbook and calls loadBrowser.
LoadBrowser(job) == main' = [pc |-> "clear", job |-> job]

\* Mutated: the handler returns without releasing the mutex.
ReturnHolding == main' = [pc |-> "idle", job |-> "none"]

\* The job's last call: a handler under the lock still has to release it.
Return ==
  main' = IF main.job \in Locked THEN [main EXCEPT !.pc = "unlock"]
          ELSE [pc |-> "idle", job |-> "none"]

\* Mutated: the selection moves and the form stays.
GotoRowOnly(row, column) ==
  /\ selected' = IF row \in DOMAIN column THEN row ELSE selected
  /\ UNCHANGED editNbr

\* GotoRow, FirstRow and LastRow select a row and call cb_browser, which makes
\* the record of the row's number the one the form edits.
GotoRow(row, column) ==
  IF row \in DOMAIN column THEN selected' = row /\ editNbr' = row
  ELSE UNCHANGED <<selected, editNbr>>

\* adjustBrowser goes to the end of the browser where the latest record should be.
\* Mutated: the other end.
OtherEnd(s) == IF reverse THEN Len(s) ELSE 1

RecentEnd(s) == IF reverse THEN 1 ELSE Len(s)

\* Mutated: the log is not written.
writeLogSkipped(s) == UNCHANGED file /\ db' = checkBands(s)

\* writeLog: the file gets the text of the records s, in their order; then each goes
\* through qsoUpdRec, which fills in its band or frequency in the logbook only.
writeLog(s) == file' = s /\ db' = checkBands(s)

\* loadBrowser: wBrowser->clear(), and nothing more for an empty logbook
MainClear ==
  /\ running /\ main.pc = "clear"
  /\ browser' = <<>> /\ selected' = 0 /\ UNCHANGED editNbr
  /\ IF db = <<>> THEN Return ELSE main' = [main EXCEPT !.pc = "fill"]
  /\ Disturb
  /\ UNCHANGED <<logVars, sortVars, slotVars, histVars, started, running, mutex,
                 queue, modal, calls, ui>>

\* loadBrowser: one row per record, then adjustBrowser.  The clear has reset the
\* selection, so keep_pos keeps nothing and the first or last row is selected.
MainFill ==
  /\ running /\ main.pc = "fill"
  /\ browser' = CallColumn(db)
  /\ GotoRow(RecentEnd(db), CallColumn(db))
  /\ Return
  /\ Disturb
  /\ UNCHANGED <<logVars, sortVars, slotVars, histVars, started, running, mutex,
                 queue, modal, calls, ui>>

-----------------------------------------------------------------------------
(* The main thread: the handlers posted by the xml thread *)

\* The event loop takes the next handler from the ring.  The loop of the delete
\* question does so too.
Dispatch ==
  /\ running /\ main.pc = "idle" /\ queue # <<>>
  /\ queue' = Tail(queue)
  /\ main' = [pc |-> IF Head(queue) \in Locked THEN "lock" ELSE "work",
              job |-> Head(queue)]
  /\ UNCHANGED <<logVars, viewVars, sortVars, slotVars, histVars, started,
                 running, mutex, xml, modal, calls, ui>>

MainLock ==
  /\ running /\ main.pc = "lock" /\ mutex = "none"
  /\ mutex' = "main"
  /\ main' = [main EXCEPT !.pc = "work"]
  /\ UNCHANGED <<logVars, viewVars, sortVars, slotVars, histVars, started,
                 running, queue, xml, modal, calls, ui>>

MainUnlock ==
  /\ running /\ main.pc = "unlock"
  /\ mutex' = "none"
  /\ main' = [pc |-> "idle", job |-> "none"]
  /\ UNCHANGED <<logVars, viewVars, sortVars, slotVars, histVars, started,
                 running, queue, xml, modal, calls, ui>>

\* The log of add_record, in the order of the date: newrec completes nothing.
WithAdded ==
  Sorted("SORTDATE", reverse, Append(db, fillfields(EmptyRec, addSlot)))

\* cAdifIO::add_record: newrec, fillfield, SortByDate, writeLog.
AddRecord ==
  /\ running /\ main.pc = "work" /\ main.job = "add_record"
  /\ addSlot \notin Unended
  /\ \E s \in WithAdded : writeLog(s)
  /\ applied' = Append(applied, addSlot)
  /\ LoadBrowser("add_record")
  /\ Disturb
  /\ UNCHANGED <<viewVars, sortVars, slotVars, acked, started, running, mutex,
                 queue, modal, calls, ui>>

\* The line for the event log is cut at the "<" behind the CALL field; where there is
\* none, st.erase throws out_of_range, nothing catches it, and the log is not written.
AddThrows ==
  /\ running /\ main.pc = "work" /\ main.job = "add_record"
  /\ addSlot \in Unended
  /\ db' \in WithAdded
  /\ running' = FALSE
  /\ Disturb
  /\ UNCHANGED <<file, viewVars, sortVars, slotVars, histVars, started, mutex, queue,
                 main, modal, calls, ui>>

\* cAdifIO::update_record: the selected record is changed in place, then
\* SortByDate and writeLog.  Without a selection the record is the slot before
\* the array: the process crashes, or writes to memory that is not the log's.
UpdateRecord ==
  /\ running /\ main.pc = "work" /\ main.job = "update_record"
  /\ \/ /\ selected # 0 /\ UNCHANGED running
        /\ \E s \in Sorted("SORTDATE", reverse,
                qsoUpdRec(db, selected, fillfields(getRec(db, selected), updSlot))) :
             writeLog(s)
     \/ /\ selected = 0 /\ UNCHANGED running
        /\ \E s \in Sorted("SORTDATE", reverse, db) : writeLog(s)
     \/ /\ selected = 0 /\ running' = FALSE /\ UNCHANGED logVars
  /\ LoadBrowser("update_record")
  /\ Disturb
  /\ UNCHANGED <<viewVars, sortVars, slotVars, histVars, started, mutex, queue,
                 modal, calls, ui>>

\* goto_dup_rec: EditRecord and getRec read the record, then the browser goes to
\* the first row whose number contains dupNbr, or to the first row.  Number -1
\* reads the slot before the array.
GotoDupRec ==
  /\ running /\ main.pc = "work" /\ main.job = "goto_dup_rec"
  /\ \/ UNCHANGED running
     \/ dupNbr = 0 /\ running' = FALSE
  /\ GotoRow(IF dupNbr \in DOMAIN browser THEN dupNbr ELSE 1, browser)
  /\ Return
  /\ UNCHANGED <<logVars, browser, sortVars, slotVars, histVars, started, mutex,
                 queue, xml, modal, calls, ui>>

\* update_fetch: the expression is not anchored, and the result of the search
\* is not looked at: without a hit the row is the first one.
UpdateFetch ==
  /\ running /\ main.pc = "work" /\ main.job = "update_fetch"
  /\ LET hit == searchFrom0(Matching(fetchCall, browser), FALSE)
     IN  GotoRow(IF hit = 0 THEN 1 ELSE hit, browser)
  /\ Return
  /\ UNCHANGED <<logVars, browser, sortVars, slotVars, histVars, started, running,
                 mutex, queue, xml, modal, calls, ui>>

\* start(): the timer set by start_logbook reads and shows the logbook file.
Start ==
  /\ running /\ ~started /\ main.pc = "idle"
  /\ started' = TRUE
  /\ reverse' = fwd[lastsort]
  /\ db' \in Sorted(lastsort, reverse', file)
  /\ LoadBrowser("start")
  /\ Disturb
  /\ UNCHANGED <<file, viewVars, lastsort, fwd, slotVars, histVars, running, mutex,
                 queue, modal, calls, ui>>

MainStep == \/ Dispatch \/ MainLock \/ AddRecord \/ AddThrows \/ UpdateRecord
            \/ GotoDupRec \/ UpdateFetch \/ MainClear \/ MainFill \/ MainUnlock \/ Start

-----------------------------------------------------------------------------
(* The main thread: the user *)

UserActs ==
  /\ running /\ started /\ main.pc = "idle" /\ modal = NoQuestion
  /\ ui < MaxUi /\ ui' = ui + 1

\* A click on a row of the browser
SelectRow(row) ==
  /\ UserActs
  /\ row \in DOMAIN browser
  /\ GotoRow(row, browser)
  /\ UNCHANGED <<logVars, browser, sortVars, slotVars, histVars, started, running,
                 mutex, queue, xml, main, modal, calls>>

\* A click on a column header: cb_SortByCall, ByDate, ByFreq, ByMode
SortBy(kind) ==
  /\ UserActs
  /\ lastsort' = kind
  /\ fwd' = [fwd EXCEPT ![kind] =
                IF lastsort = kind THEN ~@ ELSE kind = "SORTDATE" /\ @]
  /\ reverse' = fwd'[kind]
  /\ db' \in Sorted(kind, reverse', db)
  /\ LoadBrowser("sort")
  /\ Disturb
  /\ UNCHANGED <<file, viewVars, slotVars, histVars, started, running, mutex, queue,
                 modal, calls>>

\* deleteRecord asks about the record of the selected row ...
DeleteAsk ==
  /\ UserActs
  /\ MayDelete /\ db # <<>> /\ selected # 0
  /\ modal' = browser[selected]
  /\ UNCHANGED <<logVars, viewVars, sortVars, slotVars, histVars, started, running,
                 mutex, queue, xml, main, calls>>

DeleteNo ==
  /\ running /\ main.pc = "idle" /\ modal # NoQuestion
  /\ modal' = NoQuestion
  /\ UNCHANGED <<logVars, viewVars, sortVars, slotVars, histVars, started, running,
                 mutex, queue, xml, main, calls, ui>>

\* ... and deletes the one the form edits, restores the sort, loads the browser
\* and writes the file.
DeleteYes ==
  /\ running /\ main.pc = "idle" /\ modal # NoQuestion
  /\ modal' = NoQuestion
  /\ reverse' = fwd[lastsort]
  /\ \E s \in Sorted(lastsort, reverse', qsoDelRec(db, editNbr)) : writeLog(s)
  /\ LoadBrowser("delete")
  /\ Disturb
  /\ UNCHANGED <<viewVars, lastsort, fwd, slotVars, histVars, started, running,
                 mutex, queue, calls, ui>>

\* The main window is closed (cbExit): the log is sorted by date and written, and
\* exit ends both threads, whatever is in the ring.
Quit ==
  /\ UserActs
  /\ \E s \in Sorted("SORTDATE", reverse, db) : writeLog(s)
  /\ running' = FALSE
  /\ Disturb
  /\ UNCHANGED <<viewVars, sortVars, slotVars, histVars, started, mutex, queue,
                 main, modal, calls>>

\* Nothing to do: the xml thread waits in select, the main thread in Fl::wait.
Idle ==
  /\ \/ ~running
     \/ /\ xml.pc = "idle" /\ main.pc = "idle" /\ queue = <<>>
        /\ started /\ modal = NoQuestion
  /\ UNCHANGED vars

UserStep == \/ \E row \in DOMAIN browser : SelectRow(row)
            \/ \E kind \in Kinds : SortBy(kind)
            \/ DeleteAsk \/ DeleteNo \/ DeleteYes \/ Quit

Next == \/ \E req \in Requests : Call(req)
        \/ XmlStep \/ MainStep \/ UserStep \/ Idle

Spec == Init /\ [][Next]_vars

\* The event loop and the scheduler keep both threads going; nothing obliges a
\* client to call or the user to act.
Fairness == WF_vars(MainStep) /\ WF_vars(XmlStep)

FairSpec == Spec /\ Fairness

-----------------------------------------------------------------------------
(* Properties *)

\* Every variable keeps its type.
TypeOK ==
  /\ db \in Seq(Rec) /\ file \in Seq(Rec)
  /\ browser \in Seq(Rank) /\ selected \in Nat /\ editNbr \in Nat
  /\ lastsort \in SortKind /\ fwd \in [SortKind -> BOOLEAN] /\ reverse \in BOOLEAN
  /\ started \in BOOLEAN /\ running \in BOOLEAN
  /\ mutex \in {"none", "xml", "main"}
  /\ addSlot \in AdifBuffer /\ updSlot \in AdifBuffer
  /\ dupNbr \in Nat /\ fetchCall \in Rank
  /\ queue \in Seq(Handler)
  /\ xml \in XmlState /\ main \in MainState
  /\ modal \in Rank \cup {NoQuestion}
  /\ calls \in Nat /\ ui \in Nat
  /\ acked \in Seq(AdifBuffer) /\ applied \in Seq(AdifBuffer)

\* exec_mutex is owned by exactly the thread that is inside a guarded block
\* (guard_lock in support.cxx), so no two guarded blocks overlap.
MutexOwned ==
  /\ mutex = "xml" <=> xml.pc \in {"work", "unlock"}
  /\ mutex = "main" <=> /\ main.job \in Locked
                        /\ main.pc \in {"work", "clear", "fill", "unlock"}

\* The text a handler works on and the number goto_dup_rec reads twice do not
\* change under the handler (the purpose of exec_mutex).
SlotsStable == [][mutex = "main" => UNCHANGED <<addSlot, updSlot, dupNbr>>]_vars

XmlInAdd == xml.pc # "idle" /\ xml.req.method = "add_record"

\* One global and one handler per call: when none is left to run, the record
\* added last is the one of the last call.  (Earlier ones may be lost.)
LatestAddApplied ==
  ~PendingAdd /\ acked # <<>> => applied # <<>> /\ (XmlInAdd \/
                                   applied[Len(applied)] = acked[Len(acked)])

\* Every answered log.add_record adds one record, no more and no fewer: the
\* handlers run, those to run and those that have run add up.
AddsConserved ==
  Len(acked) = Len(applied)
               + Cardinality({i \in DOMAIN queue : queue[i] = "add_record"})
               + (IF main.job = "add_record" /\ main.pc \in {"lock", "work"}
                  THEN 1 ELSE 0)

\* Once all handlers have run, the records added are those of the calls.
NoAddLost == ~PendingAdd /\ ~XmlInAdd => applied = acked

\* Between two jobs of the main thread nothing waits to be saved: the file holds
\* the records of the logbook, each as often, up to the band or the frequency that
\* writeLog has filled in behind the text it wrote and that the file still tells.
FileCurrent ==
  started /\ main.job = "none" => checkBands(file) \in Rearranged(checkBands(db))

\* Between two jobs row n of the browser shows record n, and the record the form
\* edits is the one selected in the browser.
BrowserInSync ==
  started /\ running /\ main.job = "none" =>
    /\ browser = CallColumn(db)
    /\ db # <<>> => selected \in DOMAIN db /\ editNbr = selected

\* One QSO ended after the other.
Later(r1, r2) ==
  \/ r2["QSO_DATE_OFF"] < r1["QSO_DATE_OFF"]
  \/ r1["QSO_DATE_OFF"] = r2["QSO_DATE_OFF"] /\ r2["TIME_OFF"] < r1["TIME_OFF"]

MostRecent(s, n) ==
  n \in DOMAIN s /\ \A i \in DOMAIN s : ~Later(s[i], s[n])

Filled == main.pc = "fill" /\ main'.pc # "fill"

\* When the browser has been filled again after a call has changed the logbook, or
\* with the log sorted by date, the most recent record is selected, whichever way
\* the log is shown.
RecentSelectedAfterLoad ==
  [][Filled /\ (main.job \in {"add_record", "update_record"} \/ lastsort = "SORTDATE")
       => MostRecent(db', selected')]_vars

GetAnswered ==
  xml.pc \in {"search", "read"} /\ xml'.pc = "idle"

LastOfCall(rec) ==
  \A i \in DOMAIN db : db[i]["CALL"] = rec["CALL"] => ~Later(db[i], rec)

\* A log.get_record for a call during which the logbook and the browser stay as
\* they are is answered by a record of that call if there is one, and by the latest
\* if the most recent records are on top.
GetRightWhenQuiet ==
  [][GetAnswered /\ xml.quiet /\ xml.req.call # 0 =>
       /\ xml'.res.found <=> xml.had
       /\ xml'.res.found =>
            /\ xml'.res.rec["CALL"] = xml.req.call
            /\ reverse /\ lastsort \in {"SORTDATE", "SORTCALL"} => LastOfCall(xml'.res.rec)]_vars

\* The handler of every answered log.add_record runs, unless the program ends.
AddEventuallyApplied ==
  \A n \in 1..MaxCalls : (Len(acked) >= n) ~> (Len(applied) >= n \/ ~running)

\* Every call is answered: no thread waits for exec_mutex for ever.
CallEventuallyAnswered == (xml.pc # "idle") ~> (xml.pc = "idle" \/ ~running)
=============================================================================
