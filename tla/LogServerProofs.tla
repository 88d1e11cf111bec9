-------------------------- MODULE LogServerProofs --------------------------
(* What LogServer keeps for every log, every set of calls and every sort.  *)
EXTENDS LogServer, QsoDbProofs

\* The thread has a request while it works on one, and only log.get_record
\* goes through the search.
RequestKnown ==
  /\ xml.pc # "idle" => xml.req \in Request
  /\ xml.pc \in {"search", "fetch", "read"} => xml.req.method = "get_record"

\* The selected row is a row of the browser; while it is filled there is none.
SelectedShown ==
  /\ selected = 0 \/ selected \in DOMAIN browser
  /\ main.pc = "fill" => selected = 0

TypeInv == TypeOK /\ RequestKnown /\ SelectedShown

\* The method of a request tells which fields it has.
LEMMA RequestFields ==
  ASSUME NEW req \in Request
  PROVE  /\ req.method \in {"add_record", "update_record", "get_record", "check_dup"}
         /\ req.method \in {"add_record", "update_record"} => req.buffer \in AdifBuffer
         /\ req.method \in {"get_record", "check_dup"} => req.call \in Rank
BY DEF Request

\* The column of calls has a field value for each record.
LEMMA CallColumnType ==
  ASSUME NEW s \in Seq(Rec)
  PROVE  /\ CallColumn(s) \in Seq(Rank)
         /\ Len(CallColumn(s)) = Len(s)
         /\ DOMAIN CallColumn(s) = DOMAIN s
<1>1. Len(s) \in Nat /\ DOMAIN s = 1..Len(s) /\ \A i \in 1..Len(s) : s[i] \in Rec
  BY LenProperties, ElementOfSeq
<1>2. \A i \in 1..Len(s) : s[i]["CALL"] \in Rank
  BY <1>1 DEF Rec, Field
<1>3. CallColumn(s) \in [1..Len(s) -> Rank]
  BY <1>1, <1>2 DEF CallColumn
<1> QED
  BY <1>1, <1>3

\* A search answers with a number: a row, or 0.
LEMMA SearchLogType ==
  ASSUME NEW call, NEW column \in Seq(Rank)
  PROVE  SearchLog(call, column) \in Nat
<1> DEFINE hits == {i \in DOMAIN column : column[i] = call}
<1>1. Len(column) \in Nat /\ DOMAIN column = 1..Len(column)
  BY LenProperties
<1>2. hits \in SUBSET Nat /\ hits \in SUBSET (0..Len(column))
  BY <1>1
<1>3. hits # {} => Min(hits) \in Nat /\ Max(hits) \in Nat
  BY <1>1, <1>2, MinIsLeast, MaxIsGreatest
<1>4. SearchLog(call, column) = IF hits = {} THEN 0
         ELSE IF reverse \/ 1 \in hits THEN Min(hits) ELSE Max(hits)
  BY DEF SearchLog, searchFrom0
<1> QED
  BY <1>3, <1>4

-----------------------------------------------------------------------------
\* The types, and what is known of the request and of the question, hold at the start.
LEMMA InitTypeInv == Init => TypeInv
<1> SUFFICES ASSUME Init PROVE TypeInv
  OBVIOUS
<1>1. NoBuffer \in AdifBuffer
  BY DEF NoBuffer, AdifBuffer
<1>2. <<>> \in Seq(Rec) /\ <<>> \in Seq(Rank) /\ <<>> \in Seq(Handler)
      /\ <<>> \in Seq(AdifBuffer)
  BY EmptySeq
<1>3. TypeOK
  BY <1>1, <1>2, ServerAssumption, RankAssumption
  DEF Init, TypeOK, XmlState, MainState, XmlPc, MainPc, NoRequest, NoRecord, Answer
<1>4. RequestKnown /\ SelectedShown
  BY DEF Init, RequestKnown, SelectedShown
<1> QED
  BY <1>3, <1>4 DEF TypeInv

USE DEF TypeInv

\* They are kept by a call that arrives,
LEMMA CallTypeInv ==
  ASSUME TypeInv, NEW req \in Requests, Call(req)
  PROVE  TypeInv'
<1>1. req \in Request
  BY ServerAssumption
<1>2. xml' \in XmlState
  BY <1>1 DEF Call, XmlState, XmlPc, NoRecord, Answer
<1>3. TypeOK'
  BY <1>2 DEF Call, TypeOK, logVars, viewVars, sortVars, slotVars, histVars
<1>4. RequestKnown'
  BY <1>1 DEF Call, RequestKnown
<1>5. SelectedShown'
  BY DEF Call, SelectedShown, viewVars
<1> QED
  BY <1>3, <1>4, <1>5

USE DEF logVars, viewVars, sortVars, slotVars, histVars

\* by the steps of the xml thread,
LEMMA XmlTypeInv ==
  ASSUME TypeInv, XmlStep
  PROVE  TypeInv'
<1> USE DEF XmlState, XmlPc
<1>0. UNCHANGED <<viewVars, main>> /\ (SelectedShown => SelectedShown')
  BY DEF XmlStep, XmlLock, StoreBuffer, CheckDup, XmlUnlock, XmlAwake, XmlSearch,
         XmlFetch, XmlRead, SelectedShown
<1>1. CASE XmlLock
  BY <1>0, <1>1 DEF XmlLock, TypeOK, RequestKnown
<1>2. CASE StoreBuffer
  <2>1. xml.req \in Request
    BY <1>2 DEF StoreBuffer, RequestKnown
  <2>2. addSlot' \in AdifBuffer /\ updSlot' \in AdifBuffer
    BY <1>2, <2>1, RequestFields DEF StoreBuffer, TypeOK
  <2> QED
    BY <1>0, <1>2, <2>1, <2>2 DEF StoreBuffer, TypeOK, RequestKnown
<1>3. CASE CheckDup
  <2>1. dupNbr' \in Nat /\ xml' \in XmlState
    <3> DEFINE modes == IF xml.req.mode = 0 THEN Rank
                        ELSE {m \in Rank : <<xml.req.mode, m>> \in Within}
    <3> DEFINE dup == duplicate(db, reverse, xml.req.call, modes)
    <3>1. dup \in [res : {"true", "possible", "false"}, nbr : Nat]
      BY duplicateType DEF TypeOK
    <3>2. /\ dupNbr' = dup.nbr
          /\ xml' = [xml EXCEPT !.pc = "unlock", !.res = [found |-> dup.res # "false"]]
      BY <1>3 DEF CheckDup
    <3> HIDE DEF dup
    <3>5. (dup.res # "false") \in BOOLEAN
      OBVIOUS
    <3> QED
      BY <3>1, <3>2, <3>5 DEF TypeOK, Answer
  <2> QED
    BY <1>0, <1>3, <2>1 DEF CheckDup, TypeOK, RequestKnown
<1>4. CASE XmlUnlock
  BY <1>0, <1>4 DEF XmlUnlock, TypeOK, RequestKnown
<1>5. CASE XmlAwake
  <2>1. xml.req \in Request
    BY <1>5 DEF XmlAwake, RequestKnown
  <2>2. HandlerOf[xml.req.method] \in Handler
    BY <2>1, RequestFields DEF HandlerOf, Handler
  <2>3. queue' \in Seq(Handler) /\ acked' \in Seq(AdifBuffer)
    BY <1>5, <2>1, <2>2, RequestFields, AppendProperties DEF XmlAwake, TypeOK
  <2> QED
    BY <1>0, <1>5, <2>1, <2>3 DEF XmlAwake, TypeOK, RequestKnown
<1>6. CASE XmlSearch
  <2>1. PICK n \in IF main.pc = "fill" THEN 0..Len(db) ELSE {Len(browser)} :
          LET column == IF main.pc = "fill" THEN SubSeq(CallColumn(db), 1, n)
                        ELSE browser
              row == SearchLog(xml.req.call, column)
          IN  xml' = [xml EXCEPT !.pc = IF row = 0 THEN "idle" ELSE "fetch",
                                 !.row = row]
    BY <1>6 DEF XmlSearch
  <2> DEFINE column == IF main.pc = "fill" THEN SubSeq(CallColumn(db), 1, n)
                       ELSE browser
  <2>2. column \in Seq(Rank)
    <3>1. CallColumn(db) \in Seq(Rank) /\ Len(CallColumn(db)) = Len(db)
          /\ Len(db) \in Nat
      BY CallColumnType, LenProperties DEF TypeOK
    <3>2. CASE main.pc = "fill"
      <4>1. n \in 0..Len(db)
        BY <3>2
      <4>2. \A i \in 1..n : CallColumn(db)[i] \in Rank
        BY <3>1, <4>1, ElementOfSeq
      <4> QED
        BY <3>2, <3>1, <4>1, <4>2, SubSeqProperties
    <3> QED
      BY <3>2 DEF TypeOK
  <2>3. SearchLog(xml.req.call, column) \in Nat
    BY <2>2, SearchLogType
  <2>4. xml' \in XmlState
    BY <2>1, <2>3 DEF TypeOK
  <2>5. RequestKnown'
    BY <1>6, <2>1 DEF XmlSearch, RequestKnown, TypeOK
  <2> QED
    BY <1>0, <1>6, <2>4, <2>5 DEF XmlSearch, TypeOK
<1>7. CASE XmlFetch
  <2>1. xml.req \in Request /\ xml.req.method = "get_record"
    BY <1>7 DEF XmlFetch, RequestKnown
  <2>2. queue' \in Seq(Handler) /\ fetchCall' \in Rank
    BY <1>7, <2>1, RequestFields, AppendProperties DEF XmlFetch, TypeOK, Handler
  <2> QED
    BY <1>0, <1>7, <2>1, <2>2 DEF XmlFetch, TypeOK, RequestKnown
<1>8. CASE XmlRead
  <2>1. getRec(db, xml.row) \in Rec
    BY getRecType DEF TypeOK
  <2>2. xml' \in XmlState
    BY <1>8, <2>1 DEF XmlRead, TypeOK, NoRecord, Answer
  <2> QED
    BY <1>0, <1>8, <2>2 DEF XmlRead, TypeOK, RequestKnown
<1> QED
  BY <1>1, <1>2, <1>3, <1>4, <1>5, <1>6, <1>7, <1>8 DEF XmlStep

\* Return and LoadBrowser leave the main thread in one of its states.
LEMMA JobState ==
  ASSUME TypeOK
  PROVE  /\ Return => main' \in MainState /\ main'.pc \in {"unlock", "idle"}
         /\ \A job \in Handler \cup {"start", "sort", "delete"} :
               LoadBrowser(job) => main' \in MainState /\ main'.pc # "fill"
BY SMTT(60) DEF Return, LoadBrowser, TypeOK, MainState, MainPc

\* Disturb changes nothing but the history.
LEMMA DisturbType ==
  ASSUME TypeOK, RequestKnown, Disturb
  PROVE  xml' \in XmlState /\ RequestKnown'
BY DEF Disturb, TypeOK, XmlState, RequestKnown

\* (a row that is gone to is one of the browser)
LEMMA GotoRowType ==
  ASSUME NEW column \in Seq(Rank), NEW row, GotoRow(row, column), TypeOK
  PROVE  /\ selected' \in Nat /\ editNbr' \in Nat
         /\ selected' = selected \/ selected' \in DOMAIN column
BY LenProperties DEF GotoRow, TypeOK

\* (what writeLog has been given is in the file, checked it is in the logbook)
LEMMA WrittenType ==
  ASSUME NEW u \in Seq(Rec), NEW kind, NEW rev, NEW s \in Sorted(kind, rev, u), writeLog(s)
  PROVE  file' \in Seq(Rec) /\ db' \in Seq(Rec)
<1>1. s \in Seq(Rec)
  BY SortedType
<1> QED
  BY <1>1, checkBandsType DEF writeLog

\* by the jobs of the main thread,
LEMMA MainTypeInv ==
  ASSUME TypeInv, MainStep
  PROVE  TypeInv'
<1>1. CASE Dispatch
  <2>1. Head(queue) \in Handler /\ queue' \in Seq(Handler)
    BY <1>1, HeadTailProperties DEF Dispatch, TypeOK
  <2>2. main' \in MainState /\ main'.pc # "fill"
    BY <1>1, <2>1 DEF Dispatch, MainState, MainPc
  <2> QED
    BY <1>1, <2>1, <2>2 DEF Dispatch, TypeOK, RequestKnown, SelectedShown
<1>2. CASE MainLock
  BY <1>2 DEF MainLock, TypeOK, MainState, MainPc, RequestKnown, SelectedShown
<1>3. CASE MainUnlock
  BY <1>3 DEF MainUnlock, TypeOK, MainState, MainPc, RequestKnown, SelectedShown
<1>4. CASE AddRecord
  <2>1. Append(db, fillfields(EmptyRec, addSlot)) \in Seq(Rec)
    BY fillfieldsType, EmptyRecType, AppendProperties DEF TypeOK
  <2>2. db' \in Seq(Rec) /\ file' \in Seq(Rec)
    BY <1>4, <2>1, WrittenType DEF AddRecord, WithAdded
  <2>3. applied' \in Seq(AdifBuffer)
    BY <1>4, AppendProperties DEF AddRecord, TypeOK
  <2>4. main' \in MainState /\ main'.pc # "fill" /\ xml' \in XmlState /\ RequestKnown'
    BY <1>4, JobState, DisturbType DEF AddRecord, Handler
  <2> QED
    BY <1>4, <2>2, <2>3, <2>4 DEF AddRecord, TypeOK, SelectedShown
<1>5. CASE UpdateRecord
  <2>1. qsoUpdRec(db, selected, fillfields(getRec(db, selected), updSlot)) \in Seq(Rec)
    BY fillfieldsType, getRecType, qsoUpdRecType DEF TypeOK
  <2>2. db \in Seq(Rec)
    BY DEF TypeOK
  <2>3. db' \in Seq(Rec) /\ file' \in Seq(Rec) /\ running' \in BOOLEAN
    BY <1>5, <2>1, <2>2, WrittenType DEF UpdateRecord, TypeOK
  <2>4. main' \in MainState /\ main'.pc # "fill" /\ xml' \in XmlState /\ RequestKnown'
    BY <1>5, JobState, DisturbType DEF UpdateRecord, Handler
  <2> QED
    BY <1>5, <2>3, <2>4 DEF UpdateRecord, TypeOK, SelectedShown
<1>6. CASE GotoDupRec
  <2>1. PICK row : GotoRow(row, browser)
    BY <1>6 DEF GotoDupRec
  <2>2. selected' \in Nat /\ editNbr' \in Nat
        /\ (selected' = selected \/ selected' \in DOMAIN browser)
    BY <2>1, GotoRowType DEF TypeOK
  <2>3. main' \in MainState /\ main'.pc # "fill" /\ running' \in BOOLEAN
    BY <1>6, JobState DEF GotoDupRec, TypeOK
  <2> QED
    BY <1>6, <2>2, <2>3 DEF GotoDupRec, TypeOK, RequestKnown, SelectedShown
<1>7. CASE UpdateFetch
  <2>1. PICK row : GotoRow(row, browser)
    BY <1>7 DEF UpdateFetch
  <2>2. selected' \in Nat /\ editNbr' \in Nat
        /\ (selected' = selected \/ selected' \in DOMAIN browser)
    BY <2>1, GotoRowType DEF TypeOK
  <2>3. main' \in MainState /\ main'.pc # "fill"
    BY <1>7, JobState DEF UpdateFetch
  <2> QED
    BY <1>7, <2>2, <2>3 DEF UpdateFetch, TypeOK, RequestKnown, SelectedShown
<1>8. CASE MainClear
  <2>1. main' \in MainState
    BY <1>8, JobState DEF MainClear, TypeOK, MainState, MainPc
  <2>2. xml' \in XmlState /\ RequestKnown'
    BY <1>8, DisturbType DEF MainClear
  <2>3. browser' \in Seq(Rank)
    BY <1>8, EmptySeq DEF MainClear
  <2> QED
    BY <1>8, <2>1, <2>2, <2>3 DEF MainClear, TypeOK, SelectedShown
<1>9. CASE MainFill
  <2>1. CallColumn(db) \in Seq(Rank)
    BY CallColumnType DEF TypeOK
  <2>2. PICK row : GotoRow(row, CallColumn(db))
    BY <1>9 DEF MainFill
  <2>3. selected' \in Nat /\ editNbr' \in Nat
        /\ (selected' = selected \/ selected' \in DOMAIN CallColumn(db))
    BY <2>1, <2>2, GotoRowType
  <2>4. main' \in MainState /\ main'.pc # "fill" /\ xml' \in XmlState /\ RequestKnown'
    BY <1>9, JobState, DisturbType DEF MainFill
  <2> QED
    BY <1>9, <2>1, <2>3, <2>4 DEF MainFill, TypeOK, SelectedShown
<1>10. CASE Start
  <2>1. db' \in Seq(Rec)
    BY <1>10, SortedType DEF Start, TypeOK
  <2>2. reverse' \in BOOLEAN
    BY <1>10 DEF Start, TypeOK
  <2>3. main' \in MainState /\ main'.pc # "fill" /\ xml' \in XmlState /\ RequestKnown'
    BY <1>10, JobState, DisturbType DEF Start
  <2> QED
    BY <1>10, <2>1, <2>2, <2>3 DEF Start, TypeOK, SelectedShown
<1>11. CASE AddThrows
  <2>1. Append(db, fillfields(EmptyRec, addSlot)) \in Seq(Rec)
    BY fillfieldsType, EmptyRecType, AppendProperties DEF TypeOK
  <2>2. db' \in Seq(Rec)
    BY <1>11, <2>1, SortedType DEF AddThrows, WithAdded
  <2>3. xml' \in XmlState /\ RequestKnown' /\ running' \in BOOLEAN
    BY <1>11, DisturbType DEF AddThrows
  <2> QED
    BY <1>11, <2>2, <2>3 DEF AddThrows, TypeOK, SelectedShown
<1> QED
  BY <1>1, <1>2, <1>3, <1>4, <1>5, <1>6, <1>7, <1>8, <1>9, <1>10, <1>11 DEF MainStep

\* by those of the user,
LEMMA UserTypeInv ==
  ASSUME TypeInv, UserStep
  PROVE  TypeInv'
<1>1. ASSUME NEW row \in DOMAIN browser, SelectRow(row)
      PROVE  TypeInv'
  <2>1. selected' \in Nat /\ editNbr' \in Nat
        /\ (selected' = selected \/ selected' \in DOMAIN browser)
    BY <1>1, GotoRowType DEF SelectRow, TypeOK
  <2> QED
    BY <1>1, <2>1 DEF SelectRow, UserActs, TypeOK, RequestKnown, SelectedShown
<1>2. ASSUME NEW kind \in Kinds, SortBy(kind)
      PROVE  TypeInv'
  <2>1. kind \in SortKind
    BY ServerAssumption
  <2>2. fwd' \in [SortKind -> BOOLEAN] /\ reverse' \in BOOLEAN
    <3>1. fwd' = [fwd EXCEPT ![kind] = fwd'[kind]]
      BY <1>2, <2>1 DEF SortBy, TypeOK
    <3>2. fwd'[kind] \in BOOLEAN
      BY <1>2, <2>1 DEF SortBy, TypeOK
    <3> QED
      BY <1>2, <2>1, <3>1, <3>2 DEF SortBy, TypeOK
  <2>3. db' \in Seq(Rec)
    BY <1>2, SortedType DEF SortBy, TypeOK
  <2>4. main' \in MainState /\ main'.pc # "fill" /\ xml' \in XmlState /\ RequestKnown'
    BY <1>2, JobState, DisturbType DEF SortBy
  <2> QED
    BY <1>2, <2>1, <2>2, <2>3, <2>4 DEF SortBy, UserActs, TypeOK, SelectedShown
<1>3. CASE DeleteAsk
  <2>1. browser[selected] \in Rank
    BY <1>3, LenProperties, ElementOfSeq DEF DeleteAsk, TypeOK, SelectedShown
  <2> QED
    BY <1>3, <2>1 DEF DeleteAsk, UserActs, TypeOK, RequestKnown, SelectedShown
<1>4. CASE DeleteNo
  BY <1>4 DEF DeleteNo, TypeOK, RequestKnown, SelectedShown
<1>5. CASE DeleteYes
  <2>1. db' \in Seq(Rec) /\ file' \in Seq(Rec)
    <3>1. qsoDelRec(db, editNbr) \in Seq(Rec)
      BY qsoDelRecType DEF TypeOK
    <3> QED
      BY <1>5, <3>1, WrittenType DEF DeleteYes
  <2>2. reverse' \in BOOLEAN
    BY <1>5 DEF DeleteYes, TypeOK
  <2>3. main' \in MainState /\ main'.pc # "fill" /\ xml' \in XmlState /\ RequestKnown'
    BY <1>5, JobState, DisturbType DEF DeleteYes
  <2> QED
    BY <1>5, <2>1, <2>2, <2>3 DEF DeleteYes, TypeOK, SelectedShown
<1>6. CASE Quit
  <2>1. db' \in Seq(Rec) /\ file' \in Seq(Rec)
    BY <1>6, WrittenType DEF Quit, TypeOK
  <2>2. xml' \in XmlState /\ RequestKnown'
    BY <1>6, DisturbType DEF Quit
  <2>4. ui' \in Nat
    BY <1>6 DEF Quit, UserActs, TypeOK
  <2>5. running' \in BOOLEAN
    BY <1>6 DEF Quit
  <2> QED
    BY <1>6, <2>1, <2>2, <2>4, <2>5 DEF Quit, TypeOK, SelectedShown
<1> QED
  BY <1>1, <1>2, <1>3, <1>4, <1>5, <1>6 DEF UserStep

\* and where nothing happens.
LEMMA StutterTypeInv == TypeInv /\ UNCHANGED vars => TypeInv'
BY DEF vars, TypeOK, RequestKnown, SelectedShown

\* The inductive invariant holds in every run.
THEOREM TypeInvHolds == Spec => []TypeInv
<1>1. TypeInv /\ [Next]_vars => TypeInv'
  BY CallTypeInv, XmlTypeInv, MainTypeInv, UserTypeInv, StutterTypeInv
  DEF Next, Idle
<1> QED
  BY InitTypeInv, <1>1, PTL DEF Spec

\* Every variable keeps its type in every run.
THEOREM TypeCorrect == Spec => []TypeOK
<1>1. TypeInv => TypeOK
  OBVIOUS
<1> QED
  BY TypeInvHolds, <1>1, PTL

-----------------------------------------------------------------------------
(* exec_mutex *)

\* Only a handler that takes exec_mutex waits for it or releases it.
LockedJobs == main.pc \in {"lock", "unlock"} => main.job \in Locked

MutexInv == TypeOK /\ MutexOwned /\ LockedJobs

\* The mutex is free at the start.
LEMMA InitMutexInv == Init => MutexOwned /\ LockedJobs
BY DEF Init, MutexOwned, LockedJobs

\* Every step leaves the mutex to the thread inside a guarded block.
LEMMA StepMutexInv ==
  ASSUME MutexInv, [Next]_vars
  PROVE  MutexOwned' /\ LockedJobs'
<1> USE DEF MutexInv, MutexOwned, LockedJobs, Locked
<1>1. CASE \E req \in Requests : Call(req)
  BY <1>1 DEF Call, TypeOK, XmlState
<1>2. CASE XmlStep
  BY <1>2 DEF XmlStep, XmlLock, StoreBuffer, CheckDup, XmlUnlock, XmlAwake,
     XmlSearch, XmlFetch, XmlRead, TypeOK, XmlState
<1>3. CASE Dispatch \/ MainLock \/ MainUnlock
  BY <1>3 DEF Dispatch, MainLock, MainUnlock, TypeOK, MainState
<1>4. CASE AddRecord \/ AddThrows \/ UpdateRecord
  BY <1>4, SMTT(60) DEF AddRecord, AddThrows, UpdateRecord, LoadBrowser, Disturb, TypeOK, XmlState, MainState
<1>5. CASE GotoDupRec \/ UpdateFetch
  <2>1. xml' = xml /\ mutex' = mutex /\ main.pc = "work"
    BY <1>5 DEF GotoDupRec, UpdateFetch
  <2>2. CASE GotoDupRec
    <3>1. main' = [main EXCEPT !.pc = "unlock"] /\ main.job \in Locked
      BY <2>2 DEF GotoDupRec, Return
    <3> QED
      BY <2>1, <3>1 DEF TypeOK, MainState
  <2>3. CASE UpdateFetch
    <3>1. main' = [pc |-> "idle", job |-> "none"] /\ main.job \notin Locked
      BY <2>3 DEF UpdateFetch, Return
    <3> QED
      BY <2>1, <3>1
  <2> QED
    BY <1>5, <2>2, <2>3
<1>6. CASE MainClear \/ MainFill
  BY <1>6 DEF MainClear, MainFill, Return, Disturb, TypeOK, XmlState, MainState
<1>7. CASE Start
  BY <1>7 DEF Start, LoadBrowser, Disturb, TypeOK, XmlState, MainState
<1>8. CASE UserStep
  BY <1>8 DEF UserStep, UserActs, SelectRow, SortBy, DeleteAsk, DeleteNo, DeleteYes, Quit,
     LoadBrowser, Disturb, TypeOK, XmlState, MainState
<1>9. CASE UNCHANGED vars
  BY <1>9 DEF vars
<1> QED
  BY <1>1, <1>2, <1>3, <1>4, <1>5, <1>6, <1>7, <1>8, <1>9 DEF Next, MainStep, Idle

\* exec_mutex belongs to the thread that is inside a guarded block, so two
\* guarded blocks never overlap.
THEOREM MutexCorrect == Spec => []MutexOwned
<1>1. TypeOK /\ TypeOK' /\ MutexOwned /\ LockedJobs /\ [Next]_vars
        => MutexOwned' /\ LockedJobs'
  BY StepMutexInv DEF MutexInv
<1> QED
  BY InitMutexInv, <1>1, TypeCorrect, PTL DEF Spec

\* No thread writes the text or the number a handler is working on.
THEOREM SlotsKept == Spec => SlotsStable
<1>1. TypeOK /\ MutexOwned /\ [Next]_vars
        => [mutex = "main" => UNCHANGED <<addSlot, updSlot, dupNbr>>]_vars
  <2> SUFFICES ASSUME TypeOK, MutexOwned, Next, mutex = "main"
               PROVE  UNCHANGED <<addSlot, updSlot, dupNbr>>
    OBVIOUS
  <2>1. xml.pc \notin {"work", "unlock"}
    BY DEF MutexOwned
  <2>2. CASE \E req \in Requests : Call(req)
    BY <2>2 DEF Call
  <2>3. CASE XmlStep
    BY <2>1, <2>3 DEF XmlStep, XmlLock, StoreBuffer, CheckDup, XmlUnlock, XmlAwake,
       XmlSearch, XmlFetch, XmlRead
  <2>4. CASE MainStep
    BY <2>4 DEF MainStep, Dispatch, MainLock, AddRecord, AddThrows, UpdateRecord, GotoDupRec,
       UpdateFetch, MainClear, MainFill, MainUnlock, Start
  <2>5. CASE UserStep
    BY <2>5 DEF UserStep, SelectRow, SortBy, DeleteAsk, DeleteNo, DeleteYes, Quit
  <2>6. CASE Idle
    BY <2>6 DEF Idle, vars
  <2> QED
    BY <2>2, <2>3, <2>4, <2>5, <2>6 DEF Next
<1> QED
  BY <1>1, TypeCorrect, MutexCorrect, PTL DEF Spec, SlotsStable

-----------------------------------------------------------------------------
(* The latest log.add_record *)

AddQueued == \E i \in DOMAIN queue : queue[i] = "add_record"
AddRuns   == main.job = "add_record" /\ main.pc \in {"lock", "work"}

\* The text of the latest answered call stays in the global until the next call
\* stores its own; the handler that ran last has added it, or one is to run.
SlotIsLatest ==
  /\ XmlInAdd /\ xml.pc \in {"unlock", "awake"} => addSlot = xml.req.buffer
  /\ ~XmlInAdd /\ acked # <<>> => addSlot = acked[Len(acked)]

LatestIsSlot ==
  ~PendingAdd /\ acked # <<>> =>
    applied # <<>> /\ (XmlInAdd \/ applied[Len(applied)] = addSlot)

LatestInv == SlotIsLatest /\ LatestIsSlot

\* A record that is still to be added has its handler in the queue or running.
LEMMA PendingParts == PendingAdd <=> AddQueued \/ AddRuns
BY DEF PendingAdd, AddQueued, AddRuns

\* Appending to the ring keeps what is in it.
LEMMA AppendQueued ==
  ASSUME queue \in Seq(Handler), NEW h \in Handler, queue' = Append(queue, h)
  PROVE  AddQueued' <=> AddQueued \/ h = "add_record"
<1>1. /\ Len(queue) \in Nat /\ DOMAIN queue = 1..Len(queue)
      /\ DOMAIN queue' = 1..(Len(queue) + 1)
      /\ queue'[Len(queue) + 1] = h
      /\ \A i \in 1..Len(queue) : queue'[i] = queue[i]
  BY LenProperties, AppendProperties
<1> QED
  BY <1>1 DEF AddQueued

\* Taking the head of the ring keeps the rest.
LEMMA TailQueued ==
  ASSUME queue \in Seq(Handler), queue # <<>>, queue' = Tail(queue)
  PROVE  AddQueued <=> AddQueued' \/ Head(queue) = "add_record"
<1>1. /\ Len(queue) \in Nat \ {0} /\ DOMAIN queue = 1..Len(queue)
      /\ DOMAIN queue' = 1..(Len(queue) - 1)
      /\ Head(queue) = queue[1]
      /\ \A i \in 1..(Len(queue) - 1) : queue'[i] = queue[i + 1]
  BY LenProperties, EmptySeq, HeadTailProperties
<1>2. ASSUME NEW i \in DOMAIN queue, queue[i] = "add_record", i # 1
      PROVE  AddQueued'
  <2>1. i - 1 \in DOMAIN queue' /\ queue'[i - 1] = queue[i]
    BY <1>1, <1>2
  <2> QED
    BY <1>2, <2>1 DEF AddQueued
<1> QED
  BY <1>1, <1>2 DEF AddQueued

\* A call that is not log.add_record ends with nothing of the history changed.
LEMMA XmlLatestInv ==
  ASSUME TypeInv, LatestInv, XmlStep
  PROVE  LatestInv'
<1> USE DEF LatestInv, SlotIsLatest, LatestIsSlot, XmlInAdd, PendingParts
<1>0. main' = main /\ applied' = applied /\ (AddRuns' <=> AddRuns)
  BY DEF XmlStep, XmlLock, StoreBuffer, CheckDup, XmlUnlock, XmlAwake, XmlSearch,
         XmlFetch, XmlRead, AddRuns
<1>a. xml \in XmlState /\ queue \in Seq(Handler) /\ acked \in Seq(AdifBuffer)
  BY DEF TypeOK
<1>b. queue' = queue => (AddQueued' <=> AddQueued)
  BY DEF AddQueued
<1>1. CASE XmlLock \/ CheckDup \/ XmlUnlock
  <2>1. /\ UNCHANGED <<queue, acked, addSlot>> /\ xml'.req = xml.req
        /\ xml.pc \in {"lock", "work", "unlock"}
        /\ xml.req.method = "add_record" =>
             \/ xml.pc = "lock" /\ xml'.pc = "work"
             \/ xml.pc = "unlock" /\ xml'.pc = "awake"
    BY <1>1, <1>a DEF XmlLock, CheckDup, XmlUnlock, XmlState
  <2>2. PendingAdd' <=> PendingAdd
    BY <1>0, <1>b, <2>1, PendingParts DEF PendingAdd, AddQueued, AddRuns
  <2> QED
    BY <1>0, <2>1, <2>2
<1>2. CASE StoreBuffer
  <2>1. /\ UNCHANGED <<queue, acked>> /\ xml'.req = xml.req
        /\ xml.pc = "work" /\ xml'.pc = "unlock"
        /\ xml.req.method = "add_record" => addSlot' = xml.req.buffer
        /\ xml.req.method # "add_record" => addSlot' = addSlot
    BY <1>2, <1>a DEF StoreBuffer, XmlState
  <2>2. PendingAdd' <=> PendingAdd
    BY <1>0, <2>1 DEF PendingAdd
  <2> QED
    BY <1>0, <2>1, <2>2
<1>3. CASE XmlAwake
  <2>0. xml.req \in Request /\ xml.pc = "awake" /\ xml'.pc = "idle" /\ addSlot' = addSlot
    BY <1>3, <1>a DEF XmlAwake, RequestKnown, XmlState
  <2>1. HandlerOf[xml.req.method] \in Handler
        /\ (HandlerOf[xml.req.method] = "add_record" <=> xml.req.method = "add_record")
    BY <2>0, RequestFields DEF HandlerOf, Handler
  <2>2. AddQueued' <=> AddQueued \/ xml.req.method = "add_record"
    BY <1>3, <1>a, <2>1, AppendQueued DEF XmlAwake
  <2>3. CASE xml.req.method = "add_record"
    <3>1. acked' # <<>> /\ acked'[Len(acked')] = xml.req.buffer
      <4>1. acked' = Append(acked, xml.req.buffer) /\ xml.req.buffer \in AdifBuffer
        BY <1>3, <2>0, <2>3, RequestFields DEF XmlAwake
      <4> QED
        BY <1>a, <4>1, AppendProperties
    <3>2. PendingAdd'
      BY <2>2, <2>3 DEF PendingAdd, AddQueued
    <3> QED
      BY <2>0, <2>3, <3>1, <3>2
  <2>4. CASE xml.req.method # "add_record"
    <3>1. acked' = acked
      BY <1>3, <2>4 DEF XmlAwake
    <3>2. PendingAdd' <=> PendingAdd
      BY <1>0, <2>2, <2>4 DEF PendingAdd, AddQueued, AddRuns
    <3> QED
      BY <1>0, <2>0, <2>4, <3>1, <3>2
  <2> QED
    BY <2>3, <2>4
<1>4. CASE XmlSearch \/ XmlFetch \/ XmlRead
  <2>1. xml.req.method = "get_record" /\ xml.pc # "idle"
    BY <1>4 DEF XmlSearch, XmlFetch, XmlRead, RequestKnown
  <2>2. xml'.req = xml.req /\ UNCHANGED <<acked, addSlot>>
    BY <1>4, <1>a DEF XmlSearch, XmlFetch, XmlRead, XmlState
  <2>3. AddQueued' <=> AddQueued
    <3>1. CASE XmlFetch
      BY <3>1, <1>a, AppendQueued DEF XmlFetch, Handler
    <3>2. CASE XmlSearch \/ XmlRead
      BY <3>2, <1>b DEF XmlSearch, XmlRead
    <3> QED
      BY <1>4, <3>1, <3>2
  <2>4. PendingAdd' <=> PendingAdd
    BY <1>0, <2>3 DEF PendingAdd, AddQueued, AddRuns
  <2> QED
    BY <1>0, <2>1, <2>2, <2>4
<1> QED
  BY <1>1, <1>2, <1>3, <1>4 DEF XmlStep

\* Disturb changes nothing LatestInv looks at.
LEMMA SameLatestInv ==
  ASSUME TypeInv, LatestInv,
         UNCHANGED <<addSlot, acked, applied>>, PendingAdd' <=> PendingAdd,
         xml'.pc = xml.pc, xml'.req = xml.req
  PROVE  LatestInv'
BY DEF LatestInv, SlotIsLatest, LatestIsSlot, XmlInAdd

\* What disturbs a call changes neither its request nor where it is.
LEMMA DisturbSame == TypeOK /\ Disturb => xml'.pc = xml.pc /\ xml'.req = xml.req
BY DEF TypeOK, XmlState, Disturb

\* The invariant about the latest added record is kept by the main thread
LEMMA MainLatestInv ==
  ASSUME TypeInv, LatestInv, MainStep
  PROVE  LatestInv'
<1>a. /\ xml \in XmlState /\ main \in MainState /\ queue \in Seq(Handler)
      /\ applied \in Seq(AdifBuffer) /\ addSlot \in AdifBuffer
  BY DEF TypeOK
<1>b. queue' = queue => (AddQueued' <=> AddQueued)
  BY DEF AddQueued
<1>1. CASE AddRecord
  <2>1. /\ UNCHANGED <<addSlot, acked, queue>> /\ xml'.pc = xml.pc /\ xml'.req = xml.req
        /\ applied' = Append(applied, addSlot)
    BY <1>1, DisturbSame DEF AddRecord
  <2>2. applied' # <<>> /\ applied'[Len(applied')] = addSlot
    BY <1>a, <2>1, AppendProperties
  <2> QED
    BY <2>1, <2>2 DEF LatestInv, SlotIsLatest, LatestIsSlot, XmlInAdd
<1>2. CASE Dispatch
  <2>1. /\ UNCHANGED <<addSlot, acked, applied, xml>>
        /\ queue # <<>> /\ queue' = Tail(queue) /\ main.pc = "idle"
        /\ main'.job = Head(queue)
        /\ Head(queue) = "add_record" => main'.pc = "lock"
    BY <1>2 DEF Dispatch, Locked
  <2>2. AddQueued <=> AddQueued' \/ Head(queue) = "add_record"
    BY <1>a, <2>1, TailQueued
  <2>3. ~AddRuns /\ (AddRuns' <=> Head(queue) = "add_record")
    BY <1>2, <2>1 DEF AddRuns, Dispatch
  <2>4. PendingAdd' <=> PendingAdd
    BY <2>2, <2>3 DEF PendingAdd, AddQueued, AddRuns
  <2> QED
    BY <2>1, <2>4, SameLatestInv
<1>3. CASE \/ MainLock \/ MainUnlock \/ AddThrows \/ UpdateRecord \/ GotoDupRec
           \/ UpdateFetch \/ MainClear \/ MainFill \/ Start
  <2>1. /\ UNCHANGED <<addSlot, acked, applied, queue>>
        /\ xml'.pc = xml.pc /\ xml'.req = xml.req
    BY <1>3, DisturbSame DEF MainLock, MainUnlock, AddThrows, UpdateRecord, GotoDupRec,
       UpdateFetch, MainClear, MainFill, Start
  <2>2. AddRuns' <=> AddRuns
    <3>1. CASE MainLock
      BY <3>1, <1>a DEF MainLock, AddRuns, MainState
    <3>2. CASE MainUnlock \/ UpdateRecord \/ Start
      BY <3>2 DEF MainUnlock, UpdateRecord, Start, LoadBrowser, AddRuns
    <3>3. CASE MainClear \/ MainFill \/ GotoDupRec \/ UpdateFetch
      <4>1. ~AddRuns
        BY <3>3 DEF MainClear, MainFill, GotoDupRec, UpdateFetch, AddRuns
      <4>2. Return \/ main' = [main EXCEPT !.pc = "fill"]
        BY <3>3 DEF MainClear, MainFill, GotoDupRec, UpdateFetch
      <4>3. main'.pc \in {"unlock", "idle", "fill"}
        BY <1>a, <4>2, JobState DEF MainState
      <4> QED
        BY <4>1, <4>3 DEF AddRuns
    <3>4. CASE AddThrows
      BY <3>4 DEF AddThrows, AddRuns
    <3> QED
      BY <1>3, <3>1, <3>2, <3>3, <3>4
  <2>3. PendingAdd' <=> PendingAdd
    BY <1>b, <2>1, <2>2 DEF PendingAdd, AddQueued, AddRuns
  <2> QED
    BY <2>1, <2>3, SameLatestInv
<1> QED
  BY <1>1, <1>2, <1>3 DEF MainStep

\* and by a call that arrives and the user,
LEMMA OtherLatestInv ==
  ASSUME TypeInv, LatestInv,
         (\E req \in Requests : Call(req)) \/ UserStep \/ UNCHANGED vars
  PROVE  LatestInv'
<1>1. CASE \E req \in Requests : Call(req)
  BY <1>1 DEF Call, LatestInv, SlotIsLatest, LatestIsSlot, XmlInAdd, PendingAdd
<1>2. CASE UserStep
  <2>1. /\ UNCHANGED <<addSlot, acked, applied, queue>>
        /\ xml'.pc = xml.pc /\ xml'.req = xml.req
    BY <1>2, DisturbSame DEF UserStep, SelectRow, SortBy, DeleteAsk, DeleteNo, DeleteYes, Quit
  <2>2. ~AddRuns /\ ~AddRuns'
    BY <1>2 DEF UserStep, UserActs, SelectRow, SortBy, DeleteAsk, DeleteNo, DeleteYes, Quit,
       LoadBrowser, AddRuns
  <2>3. PendingAdd' <=> PendingAdd
    BY <2>1, <2>2 DEF PendingAdd, AddRuns
  <2> QED
    BY <2>1, <2>3, SameLatestInv
<1>3. CASE UNCHANGED vars
  BY <1>3 DEF vars, LatestInv, SlotIsLatest, LatestIsSlot, XmlInAdd, PendingAdd
<1> QED
  BY <1>1, <1>2, <1>3

\* and it holds at the start.
LEMMA InitLatestInv == Init => LatestInv
BY DEF Init, LatestInv, SlotIsLatest, LatestIsSlot, XmlInAdd

\* One global serves all calls, so records get lost; but never the latest one:
\* when no handler is left to run, the record added last is that of the last call.
THEOREM LatestAddKept == Spec => []LatestAddApplied
<1>1. TypeInv /\ LatestInv /\ [Next]_vars => LatestInv'
  BY XmlLatestInv, MainLatestInv, OtherLatestInv DEF Next, Idle
<1>2. LatestInv => LatestAddApplied
  BY DEF LatestInv, SlotIsLatest, LatestIsSlot, LatestAddApplied
<1> QED
  BY InitLatestInv, TypeInvHolds, <1>1, <1>2, PTL DEF Spec

-----------------------------------------------------------------------------
(* The file *)

\* From the moment the log has been read, every change of the logbook but a sort
\* writes the file, a sort loses nothing, and what writeLog fills in behind the text
\* it wrote is told by that text.  Only a call that ends the program writes nothing.
FileInv ==
  started => \/ Same(checkBands(file), checkBands(db))
             \/ ~running /\ main.job = "add_record"

\* writeLog leaves nothing unsaved.
LEMMA WrittenSame ==
  ASSUME NEW u \in Seq(Rec), NEW kind, NEW rev, NEW s \in Sorted(kind, rev, u), writeLog(s)
  PROVE  Same(checkBands(file'), checkBands(db'))
<1>1. s \in Seq(Rec)
  BY SortedType
<1>2. checkBands(db') = checkBands(file')
  BY <1>1, checkBandsTwice DEF writeLog
<1> QED
  BY <1>2, SameRefl

\* Every step that changes the logbook writes the file, is a sort, or ends the program.
LEMMA StepFileInv ==
  ASSUME TypeOK, TypeOK', FileInv, [Next]_vars
  PROVE  FileInv'
<1> USE DEF FileInv
<1>a. /\ db \in Seq(Rec) /\ file \in Seq(Rec)
      /\ Append(db, fillfields(EmptyRec, addSlot)) \in Seq(Rec)
      /\ qsoUpdRec(db, selected, fillfields(getRec(db, selected), updSlot)) \in Seq(Rec)
      /\ qsoDelRec(db, editNbr) \in Seq(Rec)
  BY EmptyRecType, fillfieldsType, AppendProperties, getRecType, qsoUpdRecType, qsoDelRecType
  DEF TypeOK
<1>0. CASE UNCHANGED vars
  BY <1>0 DEF vars
<1>1. CASE UNCHANGED <<db, file, started>> /\ running
  BY <1>1
<1>2. CASE Same(checkBands(file'), checkBands(db'))
  BY <1>2
<1>3. CASE Start
  <2>1. db' \in Sorted(lastsort, reverse', file) /\ file' = file
    BY <1>3 DEF Start
  <2>2. Same(file', db')
    BY <2>1, <1>a, SortedSame, SameSym
  <2> QED
    BY <1>2, <2>2, SameChecked
<1>4. CASE \E kind \in Kinds : SortBy(kind)
  <2>1. PICK kind \in Kinds : SortBy(kind)
    BY <1>4
  <2>2. db' \in Sorted(kind, reverse', db) /\ UNCHANGED <<file, started>> /\ running
    BY <2>1 DEF SortBy, UserActs
  <2>3. Same(checkBands(db), checkBands(db'))
    BY <2>2, <1>a, SortedSame, SameSym, SameChecked
  <2> QED
    BY <2>2, <2>3, SameTrans
<1>5. CASE \E req \in Requests : Call(req)
  BY <1>1, <1>5 DEF Call
<1>6. CASE XmlStep
  BY <1>1, <1>6 DEF XmlStep, XmlLock, StoreBuffer, CheckDup, XmlUnlock, XmlAwake,
     XmlSearch, XmlFetch, XmlRead
<1>7. CASE MainStep
  <2>1. CASE Dispatch \/ MainLock \/ GotoDupRec \/ UpdateFetch \/ MainClear \/ MainFill \/ MainUnlock
    BY <1>1, <2>1 DEF Dispatch, MainLock, GotoDupRec, UpdateFetch, MainClear, MainFill, MainUnlock
  <2>2. CASE AddRecord
    BY <1>2, <1>a, <2>2, WrittenSame DEF AddRecord, WithAdded
  <2>3. CASE UpdateRecord
    <3>1. CASE UNCHANGED <<db, file, started>> /\ running
      BY <1>1, <3>1
    <3>2. CASE ~(UNCHANGED <<db, file, started>> /\ running)
      BY <1>2, <1>a, <2>3, <3>2, WrittenSame DEF UpdateRecord
    <3> QED
      BY <3>1, <3>2
  <2>4. CASE AddThrows
    BY <2>4 DEF AddThrows
  <2> QED
    BY <1>3, <1>7, <2>1, <2>2, <2>3, <2>4 DEF MainStep
<1>8. CASE UserStep
  <2>1. CASE (\E row \in DOMAIN browser : SelectRow(row)) \/ DeleteAsk \/ DeleteNo
    BY <1>1, <2>1 DEF SelectRow, DeleteAsk, DeleteNo, UserActs
  <2>2. CASE DeleteYes \/ Quit
    BY <1>2, <1>a, <2>2, WrittenSame DEF DeleteYes, Quit
  <2> QED
    BY <1>4, <1>8, <2>1, <2>2 DEF UserStep
<1> QED
  BY <1>0, <1>5, <1>6, <1>7, <1>8 DEF Next, Idle

\* No change is left unsaved: once the log has been read, whatever the clients call
\* and the user selects, sorts, deletes or ends, the file tells every record of the
\* logbook, each as often, but for the bands and frequencies writeLog filled in.
THEOREM FileIsCurrent == Spec => []FileCurrent
<1>1. Init => FileInv
  BY DEF Init, FileInv
<1>2. TypeOK /\ TypeOK' /\ FileInv /\ [Next]_vars => FileInv'
  BY StepFileInv
<1>3. TypeOK /\ FileInv => FileCurrent
  <2> SUFFICES ASSUME TypeOK, FileInv, started, main.job = "none"
               PROVE  checkBands(file) \in Rearranged(checkBands(db))
    BY DEF FileCurrent
  <2>1. Same(checkBands(file), checkBands(db))
    BY DEF FileInv
  <2>2. checkBands(file) \in Seq(Rec) /\ checkBands(db) \in Seq(Rec)
    BY checkBandsType DEF TypeOK
  <2> QED
    BY <2>1, <2>2, SameRearranged
<1> QED
  BY TypeCorrect, <1>1, <1>2, <1>3, PTL DEF Spec

-----------------------------------------------------------------------------
(* The browser *)

\* Without a job the main thread is idle.
JobKnown == main.job = "none" => main.pc = "idle"

\* Only while a job reloads the browser is it out of step with the logbook.
InStep ==
  /\ browser = CallColumn(db)
  /\ db # <<>> => selected \in DOMAIN db /\ editNbr = selected

SyncInv == JobKnown /\ (started /\ running /\ main.pc \notin {"clear", "fill"} => InStep)

\* Wherever GotoRow goes in a browser in step, it leaves it in step.
LEMMA GotoInStep ==
  ASSUME db \in Seq(Rec), InStep, NEW row, GotoRow(row, browser), UNCHANGED <<browser, db>>
  PROVE  InStep'
BY CallColumnType DEF InStep, GotoRow

\* Every step leaves between log and browser what SyncInv says.
LEMMA StepSyncInv ==
  ASSUME TypeOK, SyncInv, [Next]_vars
  PROVE  SyncInv'
<1> USE DEF SyncInv, JobKnown
<1>a. /\ db \in Seq(Rec) /\ main \in MainState /\ browser \in Seq(Rank)
      /\ queue \in Seq(Handler)
  BY DEF TypeOK
<1>b. UNCHANGED <<db, browser, selected, editNbr>> => (InStep' <=> InStep)
  BY DEF InStep, CallColumn
<1>0. CASE UNCHANGED <<db, viewVars, main, started>> /\ (running' => running)
  BY <1>0, <1>b
<1>1. CASE ~running' /\ main' = main
  BY <1>1
<1>2. CASE \E job \in Handler \cup {"start", "sort", "delete"} : LoadBrowser(job)
  <2>1. main'.pc = "clear" /\ main'.job # "none"
    BY <1>2 DEF LoadBrowser, Handler
  <2> QED
    BY <2>1
<1>3. CASE \E req \in Requests : Call(req)
  BY <1>0, <1>3 DEF Call
<1>4. CASE XmlStep
  BY <1>0, <1>4 DEF XmlStep, XmlLock, StoreBuffer, CheckDup, XmlUnlock, XmlAwake,
     XmlSearch, XmlFetch, XmlRead
<1>5. CASE Dispatch
  <2>1. Head(queue) \in Handler
    BY <1>5, <1>a, HeadTailProperties DEF Dispatch
  <2>2. main'.job # "none" /\ main'.pc \notin {"clear", "fill"} /\ main.pc = "idle"
    BY <1>5, <2>1 DEF Dispatch, Handler
  <2> QED
    BY <1>5, <1>b, <2>2 DEF Dispatch
<1>6. CASE MainLock
  <2>1. main.pc = "lock" /\ main'.pc = "work" /\ main'.job = main.job
    BY <1>6, <1>a DEF MainLock, MainState
  <2> QED
    BY <1>6, <1>b, <2>1 DEF MainLock
<1>7. CASE MainUnlock
  <2>1. main.pc = "unlock" /\ main'.pc = "idle"
    BY <1>7 DEF MainUnlock
  <2> QED
    BY <1>7, <1>b, <2>1 DEF MainUnlock
<1>8. CASE GotoDupRec \/ UpdateFetch
  <2>1. main.pc = "work" /\ UNCHANGED <<db, browser, started>> /\ Return /\ (running' => running)
    BY <1>8 DEF GotoDupRec, UpdateFetch
  <2>2. JobKnown'
    BY <1>a, <2>1, JobState DEF MainState, Return
  <2>3. PICK row : GotoRow(row, browser)
    BY <1>8 DEF GotoDupRec, UpdateFetch
  <2>4. InStep => InStep'
    BY <1>a, <2>1, <2>3, GotoInStep
  <2> QED
    BY <2>1, <2>2, <2>4
<1>9. CASE MainClear
  <2>1. main.pc = "clear" /\ db' = db /\ browser' = <<>>
    BY <1>9 DEF MainClear
  <2>2. CASE db = <<>>
    <3>1. Return
      BY <1>9, <2>2 DEF MainClear
    <3>2. JobKnown'
      BY <1>a, <2>1, <3>1 DEF MainState, Return
    <3>3. CallColumn(db') = <<>>
      BY <2>1, <2>2, CallColumnType, EmptySeq, LenProperties DEF CallColumn
    <3> QED
      BY <2>1, <2>2, <3>2, <3>3 DEF InStep
  <2>3. CASE db # <<>>
    BY <1>9, <1>a, <2>3 DEF MainClear, MainState
  <2> QED
    BY <2>2, <2>3
<1>10. CASE MainFill
  <2>1. /\ main.pc = "fill" /\ db' = db /\ browser' = CallColumn(db) /\ Return
        /\ GotoRow(RecentEnd(db), CallColumn(db))
    BY <1>10 DEF MainFill
  <2>2. JobKnown'
    BY <1>a, <2>1 DEF MainState, Return
  <2>3. CASE db # <<>>
    <3>1. RecentEnd(db) \in DOMAIN db /\ DOMAIN db = DOMAIN CallColumn(db)
      BY <1>a, <2>3, CallColumnType, LenProperties, EmptySeq DEF RecentEnd
    <3> QED
      BY <2>1, <2>2, <3>1 DEF InStep, GotoRow, CallColumn
  <2>4. CASE db = <<>>
    BY <2>1, <2>2, <2>4 DEF InStep, CallColumn
  <2> QED
    BY <2>3, <2>4
<1>11. CASE AddRecord \/ UpdateRecord \/ Start
  BY <1>2, <1>11 DEF AddRecord, UpdateRecord, Start, Handler
<1>13. CASE AddThrows
  BY <1>1, <1>13 DEF AddThrows
<1>12. CASE UserStep
  <2>1. CASE \E row \in DOMAIN browser : SelectRow(row)
    BY <1>a, <2>1, GotoInStep DEF SelectRow
  <2>2. CASE (\E kind \in Kinds : SortBy(kind)) \/ DeleteYes
    BY <1>2, <2>2 DEF SortBy, DeleteYes
  <2>3. CASE DeleteAsk \/ DeleteNo
    BY <1>0, <2>3 DEF DeleteAsk, DeleteNo
  <2>4. CASE Quit
    BY <1>1, <2>4 DEF Quit
  <2> QED
    BY <1>12, <2>1, <2>2, <2>3, <2>4 DEF UserStep
<1> QED
  BY <1>0, <1>3, <1>4, <1>5, <1>6, <1>7, <1>8, <1>9, <1>10, <1>11, <1>12, <1>13
  DEF Next, MainStep, Idle, vars

\* Between two jobs of the main thread the browser shows the logbook row by row, and
\* the record the form edits is the selected one, whoever changed the log.
THEOREM BrowserIsInSync == Spec => []BrowserInSync
<1>1. Init => SyncInv
  BY DEF Init, SyncInv, JobKnown
<1>2. TypeOK /\ SyncInv /\ [Next]_vars => SyncInv'
  BY StepSyncInv
<1>3. SyncInv => BrowserInSync
  BY DEF SyncInv, JobKnown, InStep, BrowserInSync
<1> QED
  BY TypeCorrect, <1>1, <1>2, <1>3, PTL DEF Spec

-----------------------------------------------------------------------------
(* The latest record *)

\* A sort by date puts the ends of all QSOs in order, one by call those with one call.
Related(kind, r1, r2) ==
  \/ kind = "SORTDATE"
  \/ kind = "SORTCALL" /\ r1["CALL"] = r2["CALL"]

\* The order every load of the browser is preceded by.
Ordered(s, kind, rev) ==
  \A i, j \in DOMAIN s :
    i < j /\ Related(kind, s[i], s[j]) =>
      IF rev THEN ~Later(s[j], s[i]) ELSE ~Later(s[i], s[j])

\* What is compared first decides.
LEMMA LessByDate ==
  ASSUME NEW r1, NEW r2, Later(r2, r1)
  PROVE  Less("SORTDATE", r1, r2)
<1>1. KeysOf["SORTDATE"][1] = "QSO_DATE_OFF" /\ KeysOf["SORTDATE"][2] = "TIME_OFF"
  BY DEF KeysOf
<1>2. /\ 1 \in 1..5 /\ \A j \in 1..(1 - 1) : FALSE
      /\ 2 \in 1..5 /\ \A j \in 1..(2 - 1) : j = 1
  OBVIOUS
<1> QED
  BY <1>1, <1>2 DEF Less, Later

\* Of two records with one call, that of the earlier end comes first.
LEMMA LessByCall ==
  ASSUME NEW r1, NEW r2, r1["CALL"] = r2["CALL"], Later(r2, r1)
  PROVE  Less("SORTCALL", r1, r2)
<1>1. /\ KeysOf["SORTCALL"][1] = "CALL" /\ KeysOf["SORTCALL"][2] = "QSO_DATE_OFF"
      /\ KeysOf["SORTCALL"][3] = "TIME_OFF"
  BY DEF KeysOf
<1>2. /\ 2 \in 1..5 /\ \A j \in 1..(2 - 1) : j = 1
      /\ 3 \in 1..5 /\ \A j \in 1..(3 - 1) : j = 1 \/ j = 2
  OBVIOUS
<1> QED
  BY <1>1, <1>2 DEF Less, Later

\* A sorted log is in order,
LEMMA SortedOrdered ==
  ASSUME NEW s, NEW kind, NEW rev, NEW t \in Sorted(kind, rev, s)
  PROVE  Ordered(t, kind, rev)
<1> SUFFICES ASSUME NEW i \in DOMAIN t, NEW j \in DOMAIN t, i < j,
                    Related(kind, t[i], t[j])
             PROVE  IF rev THEN ~Later(t[j], t[i]) ELSE ~Later(t[i], t[j])
  BY DEF Ordered
<1>1. ~Compare(kind, rev, t[j], t[i])
  BY DEF Sorted
<1>2. CASE rev
  <2>1. ~Less(kind, t[i], t[j])
    BY <1>1, <1>2 DEF Compare
  <2> QED
    BY <1>2, <2>1, LessByDate, LessByCall DEF Related
<1>3. CASE ~rev
  <2>1. ~Less(kind, t[j], t[i])
    BY <1>1, <1>3 DEF Compare
  <2> QED
    BY <1>3, <2>1, LessByDate, LessByCall DEF Related
<1> QED
  BY <1>2, <1>3

\* and stays so when writeLog fills in bands and frequencies.
LEMMA WrittenOrdered ==
  ASSUME NEW u \in Seq(Rec), NEW kind, NEW rev, NEW s \in Sorted(kind, rev, u), writeLog(s)
  PROVE  Ordered(db', kind, rev)
<1> DEFINE c == checkBands(s)
<1>1. s \in Seq(Rec) /\ Ordered(s, kind, rev)
  BY SortedType, SortedOrdered
<1>2. \A i \in DOMAIN s : s[i] \in Rec
  BY <1>1, ElementOfSeq, LenProperties
<1>3. DOMAIN c = DOMAIN s /\ \A i \in DOMAIN s : c[i] = checkBand(s[i])
  BY <1>1, checkBandsType
<1>4. ASSUME NEW i \in DOMAIN s
      PROVE  /\ c[i]["CALL"] = s[i]["CALL"]
             /\ c[i]["QSO_DATE_OFF"] = s[i]["QSO_DATE_OFF"]
             /\ c[i]["TIME_OFF"] = s[i]["TIME_OFF"]
  BY <1>2, <1>3, checkBandType DEF Field
<1> HIDE DEF c
<1>5. \A i, j \in DOMAIN s : Later(c[i], c[j]) <=> Later(s[i], s[j])
  BY <1>4 DEF Later
<1>6. Ordered(c, kind, rev)
  BY <1>1, <1>3, <1>4, <1>5 DEF Ordered, Related
<1> QED
  BY <1>6 DEF writeLog, c

\* No QSO ended after itself.
LEMMA LaterIrrefl ==
  ASSUME NEW s \in Seq(Rec), NEW i \in DOMAIN s
  PROVE  ~Later(s[i], s[i])
<1>1. s[i] \in Rec
  BY ElementOfSeq, LenProperties
<1>2. s[i]["QSO_DATE_OFF"] \in Nat /\ s[i]["TIME_OFF"] \in Nat
  BY <1>1, RankAssumption DEF Rec, Field
<1> QED
  BY <1>2 DEF Later

\* In a log by date the last record, or the first of a reversed one, is the latest.
LEMMA RecentIsLatest ==
  ASSUME NEW s \in Seq(Rec), s # <<>>, reverse \in BOOLEAN, Ordered(s, "SORTDATE", reverse)
  PROVE  RecentEnd(s) \in DOMAIN s /\ MostRecent(s, RecentEnd(s))
<1> DEFINE n == RecentEnd(s)
<1>1. Len(s) \in Nat \ {0} /\ DOMAIN s = 1..Len(s)
  BY LenProperties, EmptySeq
<1>2. n \in DOMAIN s /\ (reverse => n = 1) /\ (~reverse => n = Len(s))
  BY <1>1 DEF RecentEnd
<1> HIDE DEF n
<1>3. ASSUME NEW i \in DOMAIN s PROVE ~Later(s[i], s[n])
  <2>1. CASE i = n
    BY <2>1, LaterIrrefl
  <2>2. CASE i # n
    <3>1. IF reverse THEN n < i ELSE i < n
      BY <1>1, <1>2, <2>2
    <3> QED
      BY <1>2, <3>1 DEF Ordered, Related
  <2> QED
    BY <2>1, <2>2
<1> QED
  BY <1>2, <1>3 DEF MostRecent, n

\* A reload has been asked for by a job that has just sorted: by date if a client's
\* call changed the log, else in the order the user has chosen.
OrderInv ==
  running /\ main.pc \in {"clear", "fill"} =>
    \/ /\ main.job \in {"add_record", "update_record"}
       /\ Ordered(db, "SORTDATE", reverse)
    \/ /\ main.job \in {"start", "sort", "delete"}
       /\ Ordered(db, lastsort, reverse)

FillInv == main.pc = "fill" => db # <<>>

\* Every step keeps what is known of the order of the log while the browser is filled.
LEMMA StepOrderInv ==
  ASSUME TypeOK, OrderInv, FillInv, [Next]_vars
  PROVE  OrderInv' /\ FillInv'
<1> USE DEF OrderInv, FillInv
<1>a. main \in MainState /\ queue \in Seq(Handler)
  BY DEF TypeOK
<1>c. /\ db \in Seq(Rec) /\ file \in Seq(Rec)
      /\ Append(db, fillfields(EmptyRec, addSlot)) \in Seq(Rec)
      /\ qsoUpdRec(db, selected, fillfields(getRec(db, selected), updSlot)) \in Seq(Rec)
      /\ qsoDelRec(db, editNbr) \in Seq(Rec)
  BY EmptyRecType, fillfieldsType, AppendProperties, getRecType, qsoUpdRecType, qsoDelRecType
  DEF TypeOK
<1>b. UNCHANGED <<db, lastsort, reverse>> =>
        \A kind : (Ordered(db, kind, reverse))' <=> Ordered(db, kind, reverse)
  BY DEF Ordered
<1>0. CASE UNCHANGED <<db, lastsort, reverse, main>> /\ (running' => running)
  BY <1>0, <1>b DEF Ordered
<1>1. CASE main'.pc \notin {"clear", "fill"}
  BY <1>1
<1>2. CASE \E req \in Requests : Call(req)
  BY <1>0, <1>2 DEF Call
<1>3. CASE XmlStep
  BY <1>0, <1>3 DEF XmlStep, XmlLock, StoreBuffer, CheckDup, XmlUnlock, XmlAwake,
     XmlSearch, XmlFetch, XmlRead
<1>4. CASE Dispatch \/ MainLock \/ MainUnlock
  <2>1. main'.pc \notin {"clear", "fill"}
    BY <1>4, <1>a DEF Dispatch, MainLock, MainUnlock, MainState
  <2> QED
    BY <1>1, <2>1
<1>5. CASE GotoDupRec \/ UpdateFetch \/ MainFill
  <2>1. Return
    BY <1>5 DEF GotoDupRec, UpdateFetch, MainFill
  <2>2. main'.pc \in {"unlock", "idle"}
    BY <2>1, JobState
  <2> QED
    BY <1>1, <2>2
<1>6. CASE MainClear
  <2>1. running /\ main.pc = "clear" /\ UNCHANGED <<db, lastsort, reverse>>
    BY <1>6 DEF MainClear
  <2>2. CASE db = <<>>
    <3>1. main'.pc \in {"unlock", "idle"}
      BY <1>6, <2>2, JobState DEF MainClear
    <3> QED
      BY <1>1, <3>1
  <2>3. CASE db # <<>>
    <3>1. main' = [main EXCEPT !.pc = "fill"]
      BY <1>6, <2>3 DEF MainClear
    <3>2. main'.job = main.job
      BY <3>1, <1>a DEF MainState
    <3> QED
      BY <2>1, <2>3, <3>2 DEF Ordered
  <2> QED
    BY <2>2, <2>3
<1>7. CASE AddRecord
  <2>1. Ordered(db', "SORTDATE", reverse) /\ reverse' = reverse
        /\ main' = [pc |-> "clear", job |-> "add_record"]
    BY <1>7, <1>c, WrittenOrdered DEF AddRecord, WithAdded, LoadBrowser
  <2> QED
    BY <2>1 DEF Ordered
<1>8. CASE UpdateRecord
  <2>1. (running' => Ordered(db', "SORTDATE", reverse)) /\ reverse' = reverse
        /\ main' = [pc |-> "clear", job |-> "update_record"]
    BY <1>8, <1>c, WrittenOrdered DEF UpdateRecord, LoadBrowser
  <2> QED
    BY <2>1 DEF Ordered
<1>9. CASE Start \/ DeleteYes
  <2>1. Ordered(db', lastsort, reverse') /\ lastsort' = lastsort
        /\ main'.pc = "clear" /\ main'.job \in {"start", "delete"}
    BY <1>9, <1>c, SortedOrdered, WrittenOrdered DEF Start, DeleteYes, LoadBrowser
  <2> QED
    BY <2>1 DEF Ordered
<1>10. CASE \E kind \in Kinds : SortBy(kind)
  <2>1. PICK kind \in Kinds : SortBy(kind)
    BY <1>10
  <2>2. Ordered(db', kind, reverse') /\ lastsort' = kind
        /\ main' = [pc |-> "clear", job |-> "sort"]
    BY <2>1, <1>c, SortedOrdered DEF SortBy, LoadBrowser
  <2> QED
    BY <2>2 DEF Ordered
<1>11. CASE (\E row \in DOMAIN browser : SelectRow(row)) \/ DeleteAsk \/ DeleteNo
  BY <1>0, <1>11 DEF SelectRow, DeleteAsk, DeleteNo
<1>12. CASE Quit
  BY <1>1, <1>12 DEF Quit, UserActs
<1>13. CASE AddThrows
  BY <1>1, <1>13 DEF AddThrows
<1> QED
  BY <1>0, <1>2, <1>3, <1>4, <1>5, <1>6, <1>7, <1>8, <1>9, <1>10, <1>11, <1>12, <1>13
  DEF Next, MainStep, UserStep, Idle, vars

\* When a call has changed the logbook, or the log is sorted by date, the most
\* recent record is selected once the browser has been filled again.
THEOREM RecentIsSelected == Spec => RecentSelectedAfterLoad
<1> DEFINE Inv == TypeOK /\ OrderInv /\ FillInv
           A == Filled /\ (main.job \in {"add_record", "update_record"} \/ lastsort = "SORTDATE")
                  => MostRecent(db', selected')
<1>1. Init => OrderInv /\ FillInv
  BY DEF Init, OrderInv, FillInv
<1>2. TypeOK /\ OrderInv /\ FillInv /\ [Next]_vars => OrderInv' /\ FillInv'
  BY StepOrderInv
<1>3. Inv /\ [Next]_vars => [A]_vars
  <2> SUFFICES ASSUME TypeOK, OrderInv, FillInv, Next, Filled,
                      main.job \in {"add_record", "update_record"} \/ lastsort = "SORTDATE"
               PROVE  MostRecent(db', selected')
    OBVIOUS
  <2>1. main.pc = "fill" /\ main'.pc # "fill"
    BY DEF Filled
  <2>2. main' # main
    BY <2>1
  <2>3. MainFill
    <3>1. ~(\E req \in Requests : Call(req))
      BY <2>2 DEF Call
    <3>2. ~XmlStep
      BY <2>2 DEF XmlStep, XmlLock, StoreBuffer, CheckDup, XmlUnlock, XmlAwake,
         XmlSearch, XmlFetch, XmlRead
    <3>3. ~UserStep
      BY <2>1, <2>2 DEF UserStep, UserActs, SelectRow, SortBy, DeleteAsk, DeleteNo,
         DeleteYes, Quit
    <3>4. ~Idle
      BY <2>2 DEF Idle, vars
    <3> QED
      BY <2>1, <3>1, <3>2, <3>3, <3>4 DEF Next, MainStep, Dispatch, MainLock, AddRecord,
         AddThrows, UpdateRecord, GotoDupRec, UpdateFetch, MainClear, MainUnlock, Start
  <2>4. db \in Seq(Rec) /\ db # <<>> /\ reverse \in BOOLEAN
    BY <2>1 DEF TypeOK, FillInv
  <2>5. Ordered(db, "SORTDATE", reverse)
    BY <2>1, <2>3 DEF MainFill, OrderInv
  <2>6. RecentEnd(db) \in DOMAIN db /\ MostRecent(db, RecentEnd(db))
    BY <2>4, <2>5, RecentIsLatest
  <2>7. selected' = RecentEnd(db) /\ db' = db
    BY <2>3, <2>4, <2>6, CallColumnType DEF MainFill, GotoRow
  <2> QED
    BY <2>6, <2>7
<1> QED
  BY TypeCorrect, <1>1, <1>2, <1>3, PTL DEF Spec, RecentSelectedAfterLoad

-----------------------------------------------------------------------------
(* The answer of log.get_record *)

\* Whatever happened since, the log is in the order the user chose last or, after a
\* call of a client, by date; in either case in the direction of the user's choice.
AnyOrder == Ordered(db, lastsort, reverse) \/ Ordered(db, "SORTDATE", reverse)

\* Every step keeps the logbook in an order of one of the two directions.
LEMMA StepAnyOrder ==
  ASSUME TypeOK, AnyOrder, [Next]_vars
  PROVE  AnyOrder'
<1> USE DEF AnyOrder
<1>c. /\ db \in Seq(Rec) /\ file \in Seq(Rec)
      /\ Append(db, fillfields(EmptyRec, addSlot)) \in Seq(Rec)
      /\ qsoUpdRec(db, selected, fillfields(getRec(db, selected), updSlot)) \in Seq(Rec)
      /\ qsoDelRec(db, editNbr) \in Seq(Rec)
  BY EmptyRecType, fillfieldsType, AppendProperties, getRecType, qsoUpdRecType, qsoDelRecType
  DEF TypeOK
<1>1. CASE UNCHANGED <<db, lastsort, reverse>>
  BY <1>1
<1>2. CASE (Ordered(db', "SORTDATE", reverse) /\ reverse' = reverse) \/ Ordered(db', lastsort', reverse')
  BY <1>2
<1>3. CASE \E req \in Requests : Call(req)
  BY <1>1, <1>3 DEF Call
<1>4. CASE XmlStep
  BY <1>1, <1>4 DEF XmlStep, XmlLock, StoreBuffer, CheckDup, XmlUnlock, XmlAwake,
     XmlSearch, XmlFetch, XmlRead
<1>5. CASE MainStep
  <2>1. CASE Dispatch \/ MainLock \/ GotoDupRec \/ UpdateFetch \/ MainClear \/ MainFill \/ MainUnlock
    BY <1>1, <2>1 DEF Dispatch, MainLock, GotoDupRec, UpdateFetch, MainClear, MainFill, MainUnlock
  <2>2. CASE AddRecord \/ AddThrows
    <3>1. Ordered(db', "SORTDATE", reverse) /\ reverse' = reverse
      BY <2>2, <1>c, SortedOrdered, WrittenOrdered DEF AddRecord, AddThrows, WithAdded
    <3> QED
      BY <1>2, <3>1
  <2>3. CASE UpdateRecord
    <3>1. (Ordered(db', "SORTDATE", reverse) \/ db' = db) /\ UNCHANGED <<lastsort, reverse>>
      BY <2>3, <1>c, WrittenOrdered DEF UpdateRecord
    <3> QED
      BY <1>1, <1>2, <3>1
  <2>4. CASE Start
    BY <1>2, <1>c, <2>4, SortedOrdered DEF Start
  <2> QED
    BY <1>5, <2>1, <2>2, <2>3, <2>4 DEF MainStep
<1>6. CASE UserStep
  <2>1. CASE (\E row \in DOMAIN browser : SelectRow(row)) \/ DeleteAsk \/ DeleteNo
    BY <1>1, <2>1 DEF SelectRow, DeleteAsk, DeleteNo
  <2>2. CASE \E kind \in Kinds : SortBy(kind)
    <3>1. PICK kind \in Kinds : SortBy(kind)
      BY <2>2
    <3>2. Ordered(db', kind, reverse') /\ lastsort' = kind
      BY <3>1, <1>c, SortedOrdered DEF SortBy
    <3> QED
      BY <1>2, <3>2
  <2>3. CASE DeleteYes
    <3>1. Ordered(db', lastsort, reverse') /\ lastsort' = lastsort
      BY <2>3, <1>c, WrittenOrdered DEF DeleteYes
    <3> QED
      BY <1>2, <3>1
  <2>4. CASE Quit
    BY <1>2, <1>c, <2>4, WrittenOrdered DEF Quit
  <2> QED
    BY <1>6, <2>1, <2>2, <2>3, <2>4 DEF UserStep
<1> QED
  BY <1>1, <1>3, <1>4, <1>5, <1>6 DEF Next, Idle, vars

\* The row a search of an anchored call finds.
HitsOf(call) == {i \in DOMAIN db : db[i]["CALL"] = call}

FirstHit(call) ==
  IF HitsOf(call) = {} THEN 0
  ELSE IF reverse THEN Min(HitsOf(call)) ELSE SearchLog(call, CallColumn(db))

\* A search of the column of calls finds the first hit in the logbook.
LEMMA SearchOfColumn ==
  ASSUME db \in Seq(Rec), NEW call
  PROVE  /\ SearchLog(call, CallColumn(db)) = FirstHit(call)
         /\ FirstHit(call) # 0 <=> HitsOf(call) # {}
         /\ FirstHit(call) # 0 => FirstHit(call) \in HitsOf(call)
<1> DEFINE hits == HitsOf(call)
           c == CallColumn(db)
<1>1. Len(db) \in Nat /\ DOMAIN db = 1..Len(db)
  BY LenProperties
<1>2. DOMAIN c = DOMAIN db /\ \A i \in DOMAIN db : c[i] = db[i]["CALL"]
  BY DEF CallColumn
<1>3. {i \in DOMAIN c : c[i] = call} = hits
  BY <1>2 DEF HitsOf
<1>4. hits \in SUBSET Nat /\ hits \in SUBSET (0..Len(db)) /\ 0 \notin hits
  BY <1>1 DEF HitsOf
<1>5. hits # {} => Min(hits) \in hits /\ Max(hits) \in hits
  BY <1>1, <1>4, MinIsLeast, MaxIsGreatest
<1>6. SearchLog(call, c) = IF hits = {} THEN 0
         ELSE IF reverse \/ 1 \in hits THEN Min(hits) ELSE Max(hits)
  BY <1>3 DEF SearchLog, searchFrom0
<1> HIDE DEF hits, c
<1>7. FirstHit(call) = SearchLog(call, c)
  BY <1>6 DEF FirstHit, hits, c
<1>8. FirstHit(call) # 0 <=> hits # {}
  BY <1>4, <1>5, <1>6, <1>7
<1>9. FirstHit(call) # 0 => FirstHit(call) \in hits
  BY <1>4, <1>5, <1>6, <1>7
<1> QED
  BY <1>7, <1>8, <1>9 DEF hits, c

\* While a call is undisturbed the browser shows the logbook it began with, and once
\* the search is over the row is the one it must find.
QuietInv ==
  xml.pc \in {"search", "fetch", "read"} =>
    /\ xml.res = NoRecord \/ xml.pc = "read"
    /\ xml.quiet => /\ browser = CallColumn(db) /\ main.pc \notin {"clear", "fill"}
                    /\ xml.had <=> HitsOf(xml.req.call) # {}
                    /\ xml.pc \in {"fetch", "read"} =>
                         xml.row # 0 /\ xml.row = FirstHit(xml.req.call)

\* With the most recent records on top the first hit is the latest record of the call.
LEMMA FirstHitIsLatest ==
  ASSUME db \in Seq(Rec), AnyOrder, reverse = TRUE, lastsort \in {"SORTDATE", "SORTCALL"},
         NEW call, HitsOf(call) # {}
  PROVE  LastOfCall(db[FirstHit(call)])
<1> DEFINE hits == HitsOf(call)
           n == FirstHit(call)
<1>1. Len(db) \in Nat /\ DOMAIN db = 1..Len(db)
  BY LenProperties
<1>2. hits \in SUBSET Nat /\ hits \in SUBSET DOMAIN db
  BY <1>1 DEF HitsOf
<1>3. n \in hits /\ \A i \in hits : n <= i
  <2>1. n = Min(hits)
    BY DEF FirstHit
  <2> QED
    BY <1>2, <2>1, MinIsLeast
<1>4. ASSUME NEW i \in DOMAIN db, db[i]["CALL"] = db[n]["CALL"], Later(db[i], db[n])
      PROVE  FALSE
  <2>1. i \in hits /\ n \in DOMAIN db
    BY <1>2, <1>3, <1>4 DEF HitsOf
  <2>2. i # n
    BY <1>4, <2>1, LaterIrrefl
  <2>3. n < i
    BY <1>1, <1>3, <2>1, <2>2
  <2> QED
    BY <1>4, <2>1, <2>3 DEF AnyOrder, Ordered, Related
<1> QED
  BY <1>4 DEF LastOfCall

\* Every step keeps what is known of a call that nothing has disturbed.
LEMMA StepQuietInv ==
  ASSUME TypeInv, QuietInv, [Next]_vars
  PROVE  QuietInv'
<1> USE DEF QuietInv
<1>a. xml \in XmlState /\ main \in MainState /\ queue \in Seq(Handler) /\ db \in Seq(Rec)
  BY DEF TypeOK
<1>b. UNCHANGED <<db, reverse>> =>
        \A call : (HitsOf(call))' = HitsOf(call) /\ (FirstHit(call))' = FirstHit(call)
  BY DEF HitsOf, FirstHit, SearchLog
<1>0. CASE UNCHANGED <<db, browser, reverse, xml>> /\ main'.pc \notin {"clear", "fill"}
  BY <1>0, <1>b DEF CallColumn
<1>1. CASE Disturb
  BY <1>1, <1>a DEF Disturb, XmlState
<1>2. CASE UNCHANGED <<db, browser, reverse, xml, main>>
  BY <1>2, <1>b DEF CallColumn
<1>3. CASE \E req \in Requests : Call(req)
  <2>1. PICK req \in Requests : Call(req)
    BY <1>3
  <2>2. /\ UNCHANGED <<db, browser, reverse, main>>
        /\ xml'.res = NoRecord /\ xml'.req = req
        /\ xml'.pc = IF req.method = "get_record" THEN "search" ELSE "lock"
        /\ xml'.quiet => main.pc = "idle" /\ browser = CallColumn(db)
        /\ xml'.had <=> req.method = "get_record" /\ \E i \in DOMAIN db : db[i]["CALL"] = req.call
    BY <2>1 DEF Call
  <2>3. req.method = "get_record" => (xml'.had <=> HitsOf(req.call) # {})
    BY <2>2 DEF HitsOf
  <2> QED
    BY <1>b, <2>2, <2>3 DEF CallColumn
<1>4. CASE XmlLock \/ StoreBuffer \/ CheckDup \/ XmlUnlock \/ XmlAwake
  <2>1. xml'.pc \notin {"search", "fetch", "read"}
    BY <1>4, <1>a DEF XmlLock, StoreBuffer, CheckDup, XmlUnlock, XmlAwake, XmlState
  <2> QED
    BY <2>1
<1>5. CASE XmlSearch
  <2>0. xml.pc = "search" /\ UNCHANGED <<db, browser, reverse, main>>
    BY <1>5 DEF XmlSearch
  <2>1. PICK column : xml' = [xml EXCEPT
             !.pc = IF SearchLog(xml.req.call, column) = 0 THEN "idle" ELSE "fetch",
             !.row = SearchLog(xml.req.call, column)]
             /\ (main.pc # "fill" => column = browser)
    BY <1>5 DEF XmlSearch
  <2>2. /\ xml'.pc \in {"idle", "fetch"} /\ xml'.res = xml.res /\ xml'.quiet = xml.quiet
        /\ xml'.had = xml.had /\ xml'.req = xml.req
        /\ xml'.row = SearchLog(xml.req.call, column)
        /\ xml'.pc = "fetch" => xml'.row # 0
    BY <1>a, <2>1 DEF XmlState
  <2>3. xml.quiet => xml'.row = FirstHit(xml.req.call)
    BY <1>a, <2>0, <2>1, <2>2, SearchOfColumn
  <2> QED
    BY <1>b, <2>0, <2>2, <2>3 DEF CallColumn
<1>6. CASE XmlFetch
  <2>1. /\ xml.pc = "fetch" /\ xml'.pc = "read" /\ UNCHANGED <<db, browser, reverse, main>>
        /\ xml'.quiet = xml.quiet /\ xml'.had = xml.had /\ xml'.req = xml.req
        /\ xml'.row = xml.row
    BY <1>6, <1>a DEF XmlFetch, XmlState
  <2> QED
    BY <1>b, <2>1 DEF CallColumn
<1>7. CASE XmlRead
  BY <1>7, <1>a DEF XmlRead, XmlState
<1>8. CASE Dispatch \/ MainLock \/ MainUnlock
  <2>1. UNCHANGED <<db, browser, reverse, xml>> /\ main'.pc \notin {"clear", "fill"}
    BY <1>8, <1>a DEF Dispatch, MainLock, MainUnlock, MainState
  <2> QED
    BY <1>0, <2>1
<1>9. CASE GotoDupRec \/ UpdateFetch
  <2>1. UNCHANGED <<db, browser, reverse, xml>> /\ Return
    BY <1>9 DEF GotoDupRec, UpdateFetch
  <2>2. main'.pc \in {"unlock", "idle"}
    BY <2>1, JobState
  <2> QED
    BY <1>0, <2>1, <2>2
<1>10. CASE AddRecord \/ AddThrows \/ UpdateRecord \/ MainClear \/ MainFill \/ Start
  BY <1>1, <1>10 DEF AddRecord, AddThrows, UpdateRecord, MainClear, MainFill, Start
<1>11. CASE UserStep
  <2>1. CASE (\E row \in DOMAIN browser : SelectRow(row)) \/ DeleteAsk \/ DeleteNo
    BY <1>2, <2>1 DEF SelectRow, DeleteAsk, DeleteNo
  <2>2. CASE (\E kind \in Kinds : SortBy(kind)) \/ DeleteYes \/ Quit
    BY <1>1, <2>2 DEF SortBy, DeleteYes, Quit
  <2> QED
    BY <1>11, <2>1, <2>2 DEF UserStep
<1>12. CASE Idle \/ UNCHANGED vars
  BY <1>2, <1>12 DEF Idle, vars
<1> QED
  BY <1>3, <1>4, <1>5, <1>6, <1>7, <1>8, <1>9, <1>10, <1>11, <1>12
  DEF Next, XmlStep, MainStep

\* A log.get_record of a call that nothing disturbs is answered by a record of the
\* call if there is one; the latest, if the most recent records are on top.
THEOREM GetIsRight == Spec => GetRightWhenQuiet
<1> DEFINE A == GetAnswered /\ xml.quiet /\ xml.req.call # 0 =>
                  /\ xml'.res.found <=> xml.had
                  /\ xml'.res.found =>
                       /\ xml'.res.rec["CALL"] = xml.req.call
                       /\ reverse /\ lastsort \in {"SORTDATE", "SORTCALL"}
                            => LastOfCall(xml'.res.rec)
<1>1. Init => AnyOrder /\ QuietInv
  <2>1. Init => AnyOrder
    BY DEF Init, AnyOrder, Ordered
  <2> QED
    BY <2>1 DEF Init, QuietInv
<1>2. TypeInv /\ AnyOrder /\ QuietInv /\ [Next]_vars => AnyOrder' /\ QuietInv'
  BY StepAnyOrder, StepQuietInv
<1>3. TypeInv /\ AnyOrder /\ QuietInv /\ [Next]_vars => [A]_vars
  <2> SUFFICES ASSUME TypeInv, AnyOrder, QuietInv, Next, GetAnswered, xml.quiet,
                      xml.req.call # 0
               PROVE  A
    OBVIOUS
  <2>a. xml \in XmlState /\ db \in Seq(Rec) /\ reverse \in BOOLEAN
    BY DEF TypeOK
  <2>b. xml.pc \in {"search", "read"} /\ xml'.pc = "idle"
    BY DEF GetAnswered
  <2>c. /\ browser = CallColumn(db) /\ main.pc \notin {"clear", "fill"}
        /\ xml.had <=> HitsOf(xml.req.call) # {}
    BY <2>b DEF QuietInv
  <2>1. XmlSearch \/ XmlRead
    <3>1. ~(\E req \in Requests : Call(req))
      BY <2>b DEF Call
    <3>2. ~(MainStep \/ UserStep \/ Idle)
      BY <2>a, <2>b DEF MainStep, UserStep, Idle, Dispatch, MainLock, AddRecord, AddThrows, UpdateRecord,
         GotoDupRec, UpdateFetch, MainClear, MainFill, MainUnlock, Start, SelectRow, SortBy,
         DeleteAsk, DeleteNo, DeleteYes, Quit, Disturb, XmlState, vars
    <3> QED
      BY <2>b, <3>1, <3>2 DEF Next, XmlStep, XmlLock, StoreBuffer, CheckDup, XmlUnlock, XmlAwake,
         XmlFetch
  <2>2. CASE XmlSearch
    <3>1. xml.pc = "search" /\ xml' = [xml EXCEPT
             !.pc = IF SearchLog(xml.req.call, browser) = 0 THEN "idle" ELSE "fetch",
             !.row = SearchLog(xml.req.call, browser)]
      BY <2>2, <2>c DEF XmlSearch
    <3>2. SearchLog(xml.req.call, browser) = 0 /\ xml'.res = xml.res /\ xml.res = NoRecord
      BY <2>a, <2>b, <3>1 DEF XmlState, QuietInv
    <3>3. HitsOf(xml.req.call) = {}
      BY <2>a, <2>c, <3>2, SearchOfColumn
    <3> QED
      BY <2>c, <3>2, <3>3 DEF NoRecord
  <2>3. CASE XmlRead
    <3>1. /\ xml.pc = "read" /\ xml.row # 0 /\ xml.row = FirstHit(xml.req.call)
      BY <2>3 DEF XmlRead, QuietInv
    <3>2. xml.row \in HitsOf(xml.req.call) /\ HitsOf(xml.req.call) # {}
      BY <2>a, <3>1, SearchOfColumn
    <3>3. xml.row \in DOMAIN db /\ db[xml.row]["CALL"] = xml.req.call
      BY <3>2 DEF HitsOf
    <3>4. getRec(db, xml.row) = db[xml.row] /\ db[xml.row] # EmptyRec
      BY <3>3 DEF getRec, EmptyRec, Field
    <3>5. xml'.res = [found |-> TRUE, rec |-> db[xml.row]]
      BY <2>a, <2>3, <3>4 DEF XmlRead, XmlState
    <3>6. reverse /\ lastsort \in {"SORTDATE", "SORTCALL"} => LastOfCall(db[xml.row])
      BY <2>a, <3>1, <3>2, FirstHitIsLatest
    <3> QED
      BY <2>c, <3>2, <3>3, <3>5, <3>6
  <2> QED
    BY <2>1, <2>2, <2>3
<1> QED
  BY TypeInvHolds, <1>1, <1>2, <1>3, PTL DEF Spec, GetRightWhenQuiet

-----------------------------------------------------------------------------
(* One record for every call *)

AddsIn(q) == {i \in DOMAIN q : q[i] = "add_record"}

\* The handlers of log.add_record in the queue can be counted.
LEMMA AddsInFinite ==
  ASSUME NEW q \in Seq(Handler)
  PROVE  IsFiniteSet(AddsIn(q)) /\ Cardinality(AddsIn(q)) \in Nat
<1>1. IsFiniteSet(DOMAIN q) /\ AddsIn(q) \subseteq DOMAIN q
  BY SeqDomain DEF AddsIn
<1> QED
  BY <1>1, FS_Subset, FS_CardinalityType

\* One more in the queue is one more counted,
LEMMA AddsOfAppend ==
  ASSUME NEW q \in Seq(Handler), NEW h \in Handler
  PROVE  Cardinality(AddsIn(Append(q, h)))
           = Cardinality(AddsIn(q)) + (IF h = "add_record" THEN 1 ELSE 0)
<1> DEFINE n == Len(q) + 1
<1>1. /\ Len(q) \in Nat /\ DOMAIN q = 1..Len(q) /\ DOMAIN Append(q, h) = 1..n
      /\ Append(q, h)[n] = h /\ \A i \in 1..Len(q) : Append(q, h)[i] = q[i]
  BY LenProperties, AppendProperties
<1>2. n \notin AddsIn(q) /\ \A i \in 1..n : i \in 1..Len(q) \/ i = n
  BY <1>1 DEF AddsIn
<1>3. CASE h = "add_record"
  <2>1. AddsIn(Append(q, h)) = AddsIn(q) \cup {n}
    BY <1>1, <1>2, <1>3 DEF AddsIn
  <2> QED
    BY <1>2, <1>3, <2>1, AddsInFinite, FS_AddElement
<1>4. CASE h # "add_record"
  <2>1. AddsIn(Append(q, h)) = AddsIn(q)
    BY <1>1, <1>2, <1>4 DEF AddsIn
  <2> QED
    BY <1>4, <2>1, AddsInFinite
<1> QED
  BY <1>3, <1>4

\* and one that leaves it is one less.
LEMMA AddsOfTail ==
  ASSUME NEW q \in Seq(Handler), q # <<>>
  PROVE  Cardinality(AddsIn(q))
           = Cardinality(AddsIn(Tail(q))) + (IF Head(q) = "add_record" THEN 1 ELSE 0)
<1> DEFINE A == AddsIn(q) \ {1}
           B == AddsIn(Tail(q))
           p == [i \in A |-> i - 1]
<1>1. /\ Len(q) \in Nat \ {0} /\ DOMAIN q = 1..Len(q) /\ Tail(q) \in Seq(Handler)
      /\ DOMAIN Tail(q) = 1..(Len(q) - 1) /\ Head(q) = q[1]
      /\ \A i \in 1..(Len(q) - 1) : Tail(q)[i] = q[i + 1]
  BY LenProperties, EmptySeq, HeadTailProperties
<1>2. ASSUME NEW i \in A PROVE i \in Nat /\ i - 1 \in B
  <2>1. i \in 2..Len(q) /\ q[i] = "add_record"
    BY <1>1 DEF AddsIn
  <2>2. i - 1 \in 1..(Len(q) - 1) /\ (i - 1) + 1 = i
    BY <1>1, <2>1
  <2> QED
    BY <1>1, <2>1, <2>2 DEF AddsIn
<1>3. ASSUME NEW j \in B PROVE j \in Nat /\ j + 1 \in A
  <2>1. j \in 1..(Len(q) - 1) /\ q[j + 1] = "add_record"
    BY <1>1 DEF AddsIn
  <2>2. j + 1 \in 1..Len(q) /\ j + 1 # 1
    BY <1>1, <2>1
  <2> QED
    BY <1>1, <2>1, <2>2 DEF AddsIn
<1>4. IsFiniteSet(AddsIn(q)) /\ IsFiniteSet(A) /\ Cardinality(A) \in Nat
      /\ Cardinality(AddsIn(q)) \in Nat
  BY AddsInFinite, FS_Subset, FS_CardinalityType
<1> HIDE DEF A, B
<1>5. p \in Bijection(A, B)
  <2>1. p \in [A -> B] /\ \A a, b \in A : p[a] = p[b] => a = b
    BY <1>2
  <2>2. \A j \in B : \E i \in A : p[i] = j
    <3> SUFFICES ASSUME NEW j \in B PROVE \E i \in A : p[i] = j
      OBVIOUS
    <3>1. j + 1 \in A /\ p[j + 1] = j
      BY <1>3
    <3> QED
      BY <3>1
  <2> HIDE DEF p
  <2> QED
    BY <2>1, <2>2, Fun_IsBij
<1> HIDE DEF p
<1>6. Cardinality(A) = Cardinality(B)
  BY <1>4, <1>5, Fun_ExistsBij, FS_Bijection
<1>7. 1 \in AddsIn(q) <=> Head(q) = "add_record"
  BY <1>1 DEF AddsIn
<1>8. 1 \in AddsIn(q) => Cardinality(A) = Cardinality(AddsIn(q)) - 1
  BY <1>4, FS_RemoveElement DEF A
<1>9. 1 \notin AddsIn(q) => A = AddsIn(q)
  BY DEF A
<1> QED
  BY <1>4, <1>6, <1>7, <1>8, <1>9 DEF B

\* The calls answered and the records added, with what lies between.
Counted(n) ==
  Len(acked) = Len(applied) + Cardinality(AddsIn(queue)) + n

\* A handler that runs is counted like one in the queue.
LEMMA CountedIsConserved ==
  /\ AddRuns => (AddsConserved <=> Counted(1))
  /\ ~AddRuns => (AddsConserved <=> Counted(0))
BY DEF AddsConserved, Counted, AddRuns, AddsIn

\* Every step keeps the number of handlers equal to that of the calls answered.
LEMMA StepAddsConserved ==
  ASSUME TypeInv, AddsConserved, [Next]_vars
  PROVE  AddsConserved'
<1>a. /\ xml \in XmlState /\ main \in MainState /\ queue \in Seq(Handler)
      /\ acked \in Seq(AdifBuffer) /\ applied \in Seq(AdifBuffer)
  BY DEF TypeOK
<1>b. /\ Len(acked) \in Nat /\ Len(applied) \in Nat /\ Cardinality(AddsIn(queue)) \in Nat
  BY <1>a, LenProperties, AddsInFinite
<1>0. CASE UNCHANGED <<acked, applied, queue>> /\ (AddRuns' <=> AddRuns)
  BY <1>0 DEF AddsConserved, AddRuns
<1>1. CASE UNCHANGED <<acked, applied, queue, main>>
  BY <1>1 DEF AddsConserved
<1>2. CASE \E req \in Requests : Call(req)
  BY <1>1, <1>2 DEF Call
<1>3. CASE XmlLock \/ StoreBuffer \/ CheckDup \/ XmlUnlock \/ XmlSearch \/ XmlRead
  BY <1>1, <1>3 DEF XmlLock, StoreBuffer, CheckDup, XmlUnlock, XmlSearch, XmlRead
<1>4. CASE XmlAwake
  <2>1. xml.req \in Request /\ UNCHANGED <<applied, main>>
    BY <1>4, <1>a DEF XmlAwake, RequestKnown
  <2>2. HandlerOf[xml.req.method] \in Handler
        /\ (HandlerOf[xml.req.method] = "add_record" <=> xml.req.method = "add_record")
    BY <2>1, RequestFields DEF HandlerOf, Handler
  <2>3. Cardinality(AddsIn(queue')) = Cardinality(AddsIn(queue))
          + (IF xml.req.method = "add_record" THEN 1 ELSE 0)
    BY <1>4, <1>a, <2>2, AddsOfAppend DEF XmlAwake
  <2>4. Len(acked') = Len(acked) + (IF xml.req.method = "add_record" THEN 1 ELSE 0)
    <3>1. CASE xml.req.method = "add_record"
      BY <1>4, <1>a, <2>1, <3>1, RequestFields, AppendProperties DEF XmlAwake
    <3>2. CASE xml.req.method # "add_record"
      BY <1>4, <1>b, <3>2 DEF XmlAwake
    <3> QED
      BY <3>1, <3>2
  <2>5. \A n \in {0, 1} : Counted(n) => Counted(n)'
    BY <1>b, <2>1, <2>3, <2>4 DEF Counted
  <2>6. AddRuns' <=> AddRuns
    BY <2>1 DEF AddRuns
  <2> QED
    BY <2>5, <2>6, CountedIsConserved DEF AddsConserved, Counted, AddsIn, AddRuns
<1>5. CASE XmlFetch
  <2>1. /\ UNCHANGED <<acked, applied, main>>
        /\ Cardinality(AddsIn(queue')) = Cardinality(AddsIn(queue))
    BY <1>5, <1>a, <1>b, AddsOfAppend DEF XmlFetch, Handler
  <2> QED
    BY <2>1 DEF AddsConserved, AddsIn
<1>6. CASE Dispatch
  <2>1. /\ UNCHANGED <<acked, applied>> /\ ~AddRuns
        /\ (AddRuns' <=> Head(queue) = "add_record")
    BY <1>6 DEF Dispatch, AddRuns, Locked
  <2>2. Cardinality(AddsIn(queue)) = Cardinality(AddsIn(queue'))
          + (IF Head(queue) = "add_record" THEN 1 ELSE 0)
    BY <1>6, <1>a, AddsOfTail DEF Dispatch
  <2>3. Cardinality(AddsIn(queue')) \in Nat
    BY <1>6, <1>a, HeadTailProperties, AddsInFinite DEF Dispatch
  <2>4. Counted(0)
    BY <2>1, CountedIsConserved
  <2>5. IF Head(queue) = "add_record" THEN Counted(1)' ELSE Counted(0)'
    BY <1>b, <2>1, <2>2, <2>3, <2>4 DEF Counted
  <2> QED
    BY <2>1, <2>5 DEF AddsConserved, Counted, AddsIn, AddRuns
<1>7. CASE AddRecord
  <2>1. /\ UNCHANGED <<acked, queue>> /\ AddRuns /\ ~AddRuns'
        /\ applied' = Append(applied, addSlot) /\ addSlot \in AdifBuffer
    BY <1>7 DEF AddRecord, LoadBrowser, AddRuns, TypeOK
  <2>2. Len(applied') = Len(applied) + 1
    BY <1>a, <2>1, AppendProperties
  <2>3. Counted(1)
    BY <2>1, CountedIsConserved
  <2>4. Counted(0)'
    BY <1>b, <2>1, <2>2, <2>3 DEF Counted
  <2> QED
    BY <2>1, <2>4 DEF AddsConserved, Counted, AddsIn, AddRuns
<1>8. CASE MainLock
  BY <1>0, <1>8, <1>a DEF MainLock, AddRuns, MainState
<1>13. CASE AddThrows
  BY <1>1, <1>13 DEF AddThrows
<1>9. CASE MainUnlock \/ UpdateRecord \/ Start
  BY <1>0, <1>9 DEF MainUnlock, UpdateRecord, Start, LoadBrowser, AddRuns
<1>10. CASE MainClear \/ MainFill \/ GotoDupRec \/ UpdateFetch
  <2>1. ~AddRuns /\ UNCHANGED <<acked, applied, queue>>
    BY <1>10 DEF MainClear, MainFill, GotoDupRec, UpdateFetch, AddRuns
  <2>2. Return \/ main' = [main EXCEPT !.pc = "fill"]
    BY <1>10 DEF MainClear, MainFill, GotoDupRec, UpdateFetch
  <2>3. main'.pc \in {"unlock", "idle", "fill"}
    BY <1>a, <2>2, JobState DEF MainState
  <2> QED
    BY <1>0, <2>1, <2>3 DEF AddRuns
<1>11. CASE UserStep
  <2>1. UNCHANGED <<acked, applied, queue>>
    BY <1>11 DEF UserStep, SelectRow, SortBy, DeleteAsk, DeleteNo, DeleteYes, Quit
  <2>2. ~AddRuns /\ ~AddRuns'
    BY <1>11 DEF UserStep, UserActs, SelectRow, SortBy, DeleteAsk, DeleteNo, DeleteYes, Quit,
       LoadBrowser, AddRuns
  <2> QED
    BY <1>0, <2>1, <2>2
<1>12. CASE Idle \/ UNCHANGED vars
  BY <1>1, <1>12 DEF Idle, vars
<1> QED
  BY <1>2, <1>3, <1>4, <1>5, <1>6, <1>7, <1>8, <1>9, <1>10, <1>11, <1>12, <1>13
  DEF Next, XmlStep, MainStep

\* Every answered log.add_record adds one record, no more and no fewer, whatever
\* the number of calls and however they meet the main thread.
THEOREM AddsAreConserved == Spec => []AddsConserved
<1>1. Init => AddsConserved
  <2>1. DOMAIN <<>> = {} /\ Cardinality({}) = 0 /\ Len(<<>>) = 0
    BY EmptySeq, FS_EmptySet
  <2>2. Init => {i \in DOMAIN queue : queue[i] = "add_record"} = {}
    BY <2>1 DEF Init
  <2> QED
    BY <2>1, <2>2 DEF Init, AddsConserved
<1>2. TypeInv /\ AddsConserved /\ [Next]_vars => AddsConserved'
  BY StepAddsConserved
<1> QED
  BY TypeInvHolds, <1>1, <1>2, PTL DEF Spec
=============================================================================
