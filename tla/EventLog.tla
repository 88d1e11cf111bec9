------------------------------ MODULE EventLog ------------------------------
(***************************************************************************)
(* The event log (src/misc/debug.cxx).  The main thread and the thread of  *)
(* the XML-RPC server call log(), which formats the line in two static     *)
(* buffers and appends it to a static string without a lock; it only waits *)
(* while the main thread moves the string into the window.                 *)
(*                                                                         *)
(* Every access of shared data is a step.  A concurrent use of the string  *)
(* is undefined: what is modelled of it is that an append works on the     *)
(* string it read, and that the program may crash.  The level and source   *)
(* masks, the window and its Clear button are left out.                    *)
(***************************************************************************)
EXTENDS Integers, Sequences, SequencesExt, FiniteSets

CONSTANTS
  Main, Xml,    \* the threads
  Calls,        \* bound: calls of log() by each thread
  AwakeMax      \* bound: entries of FLTK's queue of handlers

ASSUME EventLogAssumption == Main # Xml /\ Calls \in Nat /\ AwakeMax \in Nat \ {0}

Thread == {Main, Xml}

\* A line is the thread that logs it and its number; the two parts of a formatted
\* line may come from different calls.
Line == Thread \X (1..Calls)
Whole(l) == <<l, l>>

VARIABLES
  pc,           \* where each thread is in log()
  calls,        \* the calls each thread has made
  fmt,          \* static: the format with the prefix of a line
  sztemp,       \* static: the line, as prefix and text
  estr,         \* static: the lines that are not in the window yet
  old,          \* the string an append of a thread works on
  sync,         \* where the main thread is in sync_text
  debug_in_use,
  awake,        \* FLTK: calls of sync_text that are due
  text,         \* the lines in the window
  raced,        \* history: the lines during whose call the other thread was at it, too
  crashed

vars == <<pc, calls, fmt, sztemp, estr, old, sync, debug_in_use, awake, text, raced, crashed>>

Current(t) == <<t, calls[t]>>

\* Between a line's first use of a static buffer and its append
InLog(t) == pc[t] \in {"spin", "prefix", "text", "read", "write"}
\* ... and after it has found the string free
Unguarded(t) == pc[t] \in {"prefix", "text", "read", "write"}

Step(t, from, to) == ~crashed /\ pc[t] = from /\ pc' = [pc EXCEPT ![t] = to]

-----------------------------------------------------------------------------
(* log() *)

\* The call begins: the format is made.  The main thread is not in sync_text then.
Format(t) ==
  /\ Step(t, "idle", "spin") /\ calls[t] < Calls /\ (t = Main => sync = "none")
  /\ calls' = [calls EXCEPT ![t] = @ + 1]
  /\ fmt' = <<t, calls'[t]>>
  /\ raced' = raced \cup IF \E u \in Thread \ {t} : InLog(u)
                         THEN {<<t, calls'[t]>>} \cup {Current(u) : u \in Thread \ {t}} ELSE {}
  /\ UNCHANGED <<sztemp, estr, old, sync, debug_in_use, awake, text, crashed>>

\* Mutated: the line is formatted without waiting.
SpinNot(t) ==
  /\ Step(t, "spin", "prefix")
  /\ UNCHANGED <<calls, fmt, sztemp, estr, old, sync, debug_in_use, awake, text, raced, crashed>>

\* The loop ends when it finds the string free.
Spin(t) ==
  /\ Step(t, "spin", "prefix") /\ ~debug_in_use
  /\ UNCHANGED <<calls, fmt, sztemp, estr, old, sync, debug_in_use, awake, text, raced, crashed>>

\* vsnprintf, in two steps
Prefix(t) ==
  /\ Step(t, "prefix", "text")
  /\ sztemp' = <<fmt, sztemp[2]>>
  /\ UNCHANGED <<calls, fmt, estr, old, sync, debug_in_use, awake, text, raced, crashed>>

Text(t) ==
  /\ Step(t, "text", "read")
  /\ sztemp' = <<sztemp[1], Current(t)>>
  /\ UNCHANGED <<calls, fmt, estr, old, sync, debug_in_use, awake, text, raced, crashed>>

\* estr.append, in two steps
Read(t) ==
  /\ Step(t, "read", "write")
  /\ old' = [old EXCEPT ![t] = estr]
  /\ UNCHANGED <<calls, fmt, sztemp, estr, sync, debug_in_use, awake, text, raced, crashed>>

Write(t) ==
  /\ Step(t, "write", "awake")
  /\ estr' = Append(old[t], sztemp)
  /\ old' = [old EXCEPT ![t] = <<>>]
  /\ UNCHANGED <<calls, fmt, sztemp, sync, debug_in_use, awake, text, raced, crashed>>

\* Mutated: the handler is only asked for by the main thread.
AwakeMainOnly(t) ==
  /\ Step(t, "awake", "idle")
  /\ awake' = IF t = Main /\ awake < AwakeMax THEN awake + 1 ELSE awake
  /\ UNCHANGED <<calls, fmt, sztemp, estr, old, sync, debug_in_use, text, raced, crashed>>

\* Fl::awake: a full queue takes no more.
Awake(t) ==
  /\ Step(t, "awake", "idle")
  /\ awake' = IF awake < AwakeMax THEN awake + 1 ELSE awake
  /\ UNCHANGED <<calls, fmt, sztemp, estr, old, sync, debug_in_use, text, raced, crashed>>

-----------------------------------------------------------------------------
(* sync_text, on the main thread *)

SyncStep(from, to) == ~crashed /\ sync = from /\ sync' = to

\* The main loop takes the handler from the queue.
SyncBegin ==
  /\ SyncStep("none", "insert") /\ awake > 0 /\ pc[Main] = "idle"
  /\ awake' = awake - 1
  /\ debug_in_use' = TRUE
  /\ raced' = raced \cup {Current(t) : t \in {u \in Thread : Unguarded(u)}}
  /\ UNCHANGED <<pc, calls, fmt, sztemp, estr, old, text, crashed>>

Insert ==
  /\ SyncStep("insert", "clear")
  /\ text' = text \o estr
  /\ UNCHANGED <<pc, calls, fmt, sztemp, estr, old, debug_in_use, awake, raced, crashed>>

\* Mutated: the string keeps what is in the window.
ClearNot ==
  /\ SyncStep("clear", "end")
  /\ UNCHANGED <<pc, calls, fmt, sztemp, estr, old, debug_in_use, awake, text, raced, crashed>>

Clear ==
  /\ SyncStep("clear", "end")
  /\ estr' = <<>>
  /\ UNCHANGED <<pc, calls, fmt, sztemp, old, debug_in_use, awake, text, raced, crashed>>

\* Mutated: the flag stays set.
SyncEndBusy ==
  /\ SyncStep("end", "none")
  /\ UNCHANGED <<pc, calls, fmt, sztemp, estr, old, debug_in_use, awake, text, raced, crashed>>

SyncEnd ==
  /\ SyncStep("end", "none")
  /\ debug_in_use' = FALSE
  /\ UNCHANGED <<pc, calls, fmt, sztemp, estr, old, awake, text, raced, crashed>>

\* Two threads in the string at once may corrupt it.
Corrupt ==
  /\ ~crashed
  /\ \/ \A t \in Thread : pc[t] = "write"
     \/ pc[Xml] = "write" /\ sync \in {"clear", "end"}
  /\ crashed' = TRUE
  /\ UNCHANGED <<pc, calls, fmt, sztemp, estr, old, sync, debug_in_use, awake, text, raced>>

-----------------------------------------------------------------------------
Init ==
  /\ pc = [t \in Thread |-> "idle"] /\ calls = [t \in Thread |-> 0]
  /\ fmt = <<>> /\ sztemp = <<<<>>, <<>>>>
  /\ estr = <<>> /\ old = [t \in Thread |-> <<>>]
  /\ sync = "none" /\ debug_in_use = FALSE /\ awake = 0
  /\ text = <<>> /\ raced = {} /\ crashed = FALSE

log(t) == Spin(t) \/ Prefix(t) \/ Text(t) \/ Read(t) \/ Write(t) \/ Awake(t)
sync_text == SyncBegin \/ Insert \/ Clear \/ SyncEnd

Next == (\E t \in Thread : Format(t) \/ log(t)) \/ sync_text \/ Corrupt

Spec == Init /\ [][Next]_vars

\* The threads are scheduled, and the main loop runs the handlers that are due.  Nothing
\* has to be logged.
FairSpec == Spec /\ (\A t \in Thread : WF_vars(log(t))) /\ WF_vars(sync_text)

-----------------------------------------------------------------------------
(* Properties *)

\* A static buffer, and a line as it is in the string: a prefix and a text
Buffered == Line \cup {<<>>}
Entry == Buffered \X Buffered

\* Every variable keeps its type, and the flag is set exactly while the window is being
\* brought up to date, which the main thread does between its calls.
TypeOK ==
  /\ pc \in [Thread -> {"idle", "spin", "prefix", "text", "read", "write", "awake"}]
  /\ calls \in [Thread -> 0..Calls] /\ awake \in 0..AwakeMax
  /\ fmt \in Buffered /\ sztemp \in Entry
  /\ {estr, text} \subseteq Seq(Entry) /\ old \in [Thread -> Seq(Entry)]
  /\ sync \in {"none", "insert", "clear", "end"} /\ debug_in_use = (sync # "none")
  /\ (sync # "none" => pc[Main] = "idle")
  /\ raced \subseteq Line /\ crashed \in BOOLEAN

\* The calls that have returned or only wait to ask for the handler
Logged == {l \in Line : l[2] < calls[l[1]] \/ (l = Current(l[1]) /\ pc[l[1]] \in {"idle", "awake"})}

\* A line whose call had the buffers to itself is not lost and is not mixed with another,
\* whatever races there are before and after it: it is in the window or in the string.
LoneLineKept ==
  ~crashed => \A l \in Logged \ raced : Whole(l) \in ToSet(text) \cup ToSet(estr)

\* Nothing is mixed or lost as long as no calls overlap: the window and the string hold
\* every line once.
CalmLogIsExact ==
  raced = {} =>
    LET s == IF sync = "clear" THEN text ELSE text \o estr
    IN  ToSet(s) = {Whole(l) : l \in Logged} /\ Len(s) = Cardinality(Logged)

\* Every call of log() returns: nobody waits for the flag for ever.
LogReturns == \A t \in Thread : InLog(t) ~> (pc[t] = "idle" \/ crashed)

\* A line that was logged alone comes to be seen, also when the queue was full.
LoneLineShown ==
  \A l \in Line : (l \in Logged /\ l \notin raced) ~> (Whole(l) \in ToSet(text) \/ crashed)
=============================================================================
