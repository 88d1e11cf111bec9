--------------------------- MODULE EventLogProofs ---------------------------
(***************************************************************************)
(* Proofs about EventLog, for any number of calls and any length of the    *)
(* queue: the types, that a line whose call overlaps no other is not lost, *)
(* although nothing in the code takes turns, and that without overlaps the *)
(* window and the string hold every line exactly once.                     *)
(***************************************************************************)
EXTENDS EventLog, FiniteSetTheorems, SequenceTheorems, TLAPS

\* The types, and: a thread inside log() has made a call.
TInv == TypeOK /\ \A s \in Thread : pc[s] # "idle" => calls[s] \in 1..Calls

Lone == Logged \ raced

\* A call that has the buffers to itself finds in them what it put there.
OwnBuffers ==
  \A s \in Thread : InLog(s) /\ Current(s) \notin raced =>
    /\ \A u \in Thread \ {s} : ~InLog(u)
    /\ fmt = Current(s)
    /\ pc[s] \in {"text", "read", "write"} => sztemp[1] = Current(s)
    /\ pc[s] \in {"read", "write"} => sztemp[2] = Current(s)

\* A call that has passed the flag while the window is brought up to date has raced.
GuardRaced == \A s \in Thread : Unguarded(s) /\ sync # "none" => Current(s) \in raced

\* The lone lines are in the window or in the string, in the window alone when the
\* string is about to be cleared, and an append that has begun has them in its copy.
Kept == \A l \in Lone : Whole(l) \in ToSet(text) \cup ToSet(estr)
KeptInWindow == sync = "clear" => \A l \in Lone : Whole(l) \in ToSet(text)
KeptInCopy ==
  \A s \in Thread : pc[s] = "write" =>
    \A l \in Lone : Whole(l) \in ToSet(text) \cup ToSet(old[s])

IInv == TInv /\ OwnBuffers /\ GuardRaced /\ Kept /\ KeptInWindow /\ KeptInCopy

\* The lines the window shows when the string has been moved into it
Lines == IF sync = "clear" THEN text ELSE text \o estr

\* As long as no calls overlap: the lines are those that were logged, each of them once,
\* and an append works on the string as it is.
Exact ==
  raced = {} =>
    /\ ToSet(Lines) = {Whole(l) : l \in Logged} /\ Len(Lines) = Cardinality(Logged)
    /\ \A s \in Thread : pc[s] = "write" => old[s] = estr

-----------------------------------------------------------------------------
(* Sequences *)

\* What is in a string after an append, and after the string went to the window
LEMMA AppendSet ==
  ASSUME NEW S, NEW s \in Seq(S), NEW e \in S
  PROVE  ToSet(Append(s, e)) = ToSet(s) \cup {e}
<1>1. /\ Append(s, e) \in Seq(S) /\ Len(Append(s, e)) = Len(s) + 1
      /\ \A i \in 1..Len(s) : Append(s, e)[i] = s[i]
      /\ Append(s, e)[Len(s) + 1] = e
  BY AppendProperties
<1>2. DOMAIN s = 1..Len(s) /\ DOMAIN Append(s, e) = 1..(Len(s) + 1) /\ Len(s) \in Nat
  BY <1>1, LenProperties
<1> QED
  BY <1>1, <1>2 DEF ToSet

\* What is in two strings together
LEMMA ConcatSet ==
  ASSUME NEW S, NEW s \in Seq(S), NEW r \in Seq(S)
  PROVE  ToSet(s \o r) = ToSet(s) \cup ToSet(r)
<1>1. /\ s \o r \in Seq(S) /\ Len(s \o r) = Len(s) + Len(r)
      /\ \A i \in 1..(Len(s) + Len(r)) :
           (s \o r)[i] = IF i <= Len(s) THEN s[i] ELSE r[i - Len(s)]
  BY ConcatProperties
<1>2. /\ DOMAIN s = 1..Len(s) /\ DOMAIN r = 1..Len(r) /\ DOMAIN (s \o r) = 1..(Len(s) + Len(r))
      /\ Len(s) \in Nat /\ Len(r) \in Nat
  BY <1>1, LenProperties
<1>3. ASSUME NEW i \in 1..Len(r)
      PROVE  i + Len(s) \in 1..(Len(s) + Len(r)) /\ (s \o r)[i + Len(s)] = r[i]
  BY <1>1, <1>2
<1>4. ASSUME NEW i \in 1..(Len(s) + Len(r))
      PROVE  (s \o r)[i] \in ToSet(s) \cup ToSet(r)
  <2>1. CASE i <= Len(s)
    BY <1>1, <1>2, <2>1 DEF ToSet
  <2>2. CASE ~(i <= Len(s))
    <3>1. i - Len(s) \in 1..Len(r)
      BY <1>2, <2>2
    <3> QED
      BY <1>1, <1>2, <2>2, <3>1 DEF ToSet
  <2> QED
    BY <2>1, <2>2
<1>5. ToSet(s \o r) \subseteq ToSet(s) \cup ToSet(r)
  BY <1>2, <1>4 DEF ToSet
<1>6. ToSet(s) \subseteq ToSet(s \o r)
  <2>1. \A i \in 1..Len(s) : i \in 1..(Len(s) + Len(r)) /\ (s \o r)[i] = s[i]
    BY <1>1, <1>2
  <2> QED
    BY <1>2, <2>1 DEF ToSet
<1>7. ToSet(r) \subseteq ToSet(s \o r)
  BY <1>2, <1>3 DEF ToSet
<1> QED
  BY <1>5, <1>6, <1>7

-----------------------------------------------------------------------------
(* The types *)

\* The line a call works on is a line.
LEMMA CurrentLine ==
  ASSUME TInv, NEW s \in Thread, pc[s] # "idle"
  PROVE  Current(s) \in Line
  BY DEF TInv, Line, Current

\* The types hold at the start.
LEMMA InitType == Init => TInv
<1> SUFFICES ASSUME Init PROVE TInv
  OBVIOUS
<1>1. 0 \in 0..Calls /\ 0 \in 0..AwakeMax
  BY EventLogAssumption
<1>2. <<>> \in Seq(Entry) /\ <<>> \in Buffered /\ << <<>>, <<>> >> \in Entry
  BY DEF Buffered, Entry
<1> QED
  BY <1>1, <1>2 DEF Init, TInv, TypeOK, Thread

\* Every step keeps them.
LEMMA NextType == ASSUME TInv, [Next]_vars PROVE TInv'
<1>0. /\ Main \in Thread /\ Xml \in Thread /\ Main # Xml /\ Calls \in Nat /\ AwakeMax \in Nat
      /\ Thread = {Main, Xml} /\ TypeOK
  BY EventLogAssumption DEF Thread, TInv
<1> DEFINE Pcs == {"idle", "spin", "prefix", "text", "read", "write", "awake"}
<1>1. ASSUME NEW s \in Thread, Format(s) PROVE TInv'
  <2>1. calls[s] \in 0..Calls /\ calls[s] < Calls
    BY <1>0, <1>1 DEF Format, TypeOK
  <2>2. calls' = [calls EXCEPT ![s] = calls[s] + 1] /\ calls[s] + 1 \in 1..Calls
    BY <1>0, <1>1, <2>1 DEF Format
  <2>3. calls' \in [Thread -> 0..Calls] /\ calls'[s] \in 1..Calls
        /\ \A u \in Thread \ {s} : calls'[u] = calls[u]
    BY <1>0, <2>2 DEF TypeOK
  <2>4. <<s, calls'[s]>> \in Line
    BY <2>3 DEF Line
  <2>5. pc' = [pc EXCEPT ![s] = "spin"] /\ (s = Main => sync = "none")
    BY <1>1 DEF Format, Step
  <2>6. pc' \in [Thread -> Pcs] /\ (sync # "none" => pc'[Main] = "idle")
        /\ \A u \in Thread \ {s} : pc'[u] = pc[u]
    BY <1>0, <2>5 DEF TypeOK
  <2>7. fmt' \in Buffered
    BY <1>1, <2>4 DEF Format, Buffered
  <2>8. raced' \subseteq Line
    <3>1. PICK u \in Thread : Thread \ {s} = {u}
      BY <1>0
    <3>2. InLog(u) => Current(u) \in Line
      BY <1>0, <1>1, CurrentLine DEF InLog
    <3>3. raced' = raced \cup IF InLog(u) THEN {<<s, calls'[s]>>} \cup {Current(u)} ELSE {}
      BY <1>1, <3>1 DEF Format
    <3> QED
      BY <1>0, <2>4, <3>2, <3>3 DEF TypeOK
  <2>9. \A u \in Thread : pc'[u] # "idle" => calls'[u] \in 1..Calls
    BY <1>0, <1>1, <2>3, <2>6 DEF TInv
  <2> QED
    BY <1>0, <1>1, <2>3, <2>6, <2>7, <2>8, <2>9 DEF Format, TypeOK, TInv
<1>2. ASSUME NEW s \in Thread, NEW from \in Pcs \ {"idle"}, NEW to \in Pcs,
             Step(s, from, to), calls' = calls
      PROVE  /\ pc' \in [Thread -> Pcs] /\ (sync # "none" => pc'[Main] = "idle")
             /\ \A u \in Thread : pc'[u] # "idle" => calls'[u] \in 1..Calls
  <2>1. pc' = [pc EXCEPT ![s] = to] /\ pc[s] # "idle"
    BY <1>2 DEF Step
  <2> QED
    BY <1>0, <1>2, <2>1 DEF TInv, TypeOK
<1>3. ASSUME NEW s \in Thread, Spin(s) PROVE TInv'
  BY <1>0, <1>2, <1>3 DEF Spin, TypeOK, TInv
<1>4. ASSUME NEW s \in Thread, Prefix(s) PROVE TInv'
  <2>1. sztemp' = <<fmt, sztemp[2]>> /\ sztemp \in Buffered \X Buffered /\ fmt \in Buffered
    BY <1>0, <1>4 DEF Prefix, TypeOK, Entry
  <2>2. sztemp' \in Entry
    BY <2>1 DEF Entry
  <2> QED
    BY <1>0, <1>2, <1>4, <2>2 DEF Prefix, TypeOK, TInv
<1>5. ASSUME NEW s \in Thread, Text(s) PROVE TInv'
  <2>0. Current(s) \in Buffered
    BY <1>0, <1>5, CurrentLine DEF Text, Step, Buffered
  <2>1. sztemp' = <<sztemp[1], Current(s)>> /\ sztemp \in Buffered \X Buffered
    BY <1>0, <1>5 DEF Text, TypeOK, Entry
  <2>2. sztemp' \in Entry
    BY <2>0, <2>1 DEF Entry
  <2> QED
    BY <1>0, <1>2, <1>5, <2>2 DEF Text, TypeOK, TInv
<1>6. ASSUME NEW s \in Thread, Read(s) PROVE TInv'
  BY <1>0, <1>2, <1>6 DEF Read, TypeOK, TInv
<1>7. ASSUME NEW s \in Thread, Write(s) PROVE TInv'
  <2>1. Append(old[s], sztemp) \in Seq(Entry) /\ <<>> \in Seq(Entry)
    BY <1>0, AppendProperties DEF TypeOK
  <2> QED
    BY <1>0, <1>2, <1>7, <2>1 DEF Write, TypeOK, TInv
<1>8. ASSUME NEW s \in Thread, Awake(s) PROVE TInv'
  BY <1>0, <1>2, <1>8 DEF Awake, TypeOK, TInv
<1>9. ASSUME SyncBegin PROVE TInv'
  <2>1. awake' \in 0..AwakeMax /\ sync' = "insert" /\ debug_in_use' = TRUE /\ pc[Main] = "idle"
    BY <1>0, <1>9 DEF SyncBegin, SyncStep, TypeOK
  <2>2. raced' \subseteq Line
    <3>1. \A u \in {u \in Thread : Unguarded(u)} : Current(u) \in Line
      BY <1>9, CurrentLine DEF Unguarded
    <3> QED
      BY <1>0, <1>9, <3>1 DEF SyncBegin, TypeOK
  <2> QED
    BY <1>0, <1>9, <2>1, <2>2 DEF SyncBegin, TypeOK, TInv
<1>10. ASSUME Insert PROVE TInv'
  <2>1. text \o estr \in Seq(Entry)
    BY <1>0, ConcatProperties DEF TypeOK
  <2> QED
    BY <1>0, <1>10, <2>1 DEF Insert, SyncStep, TypeOK, TInv
<1>11. ASSUME Clear PROVE TInv'
  <2>1. estr' \in Seq(Entry) /\ sync # "none" /\ sync' = "end" /\ UNCHANGED debug_in_use
    BY <1>11 DEF Clear, SyncStep
  <2> QED
    BY <1>0, <1>11, <2>1 DEF Clear, TypeOK, TInv
<1>14. ASSUME SyncEnd PROVE TInv'
  <2>1. sync' = "none" /\ debug_in_use' = FALSE
    BY <1>14 DEF SyncEnd, SyncStep
  <2> QED
    BY <1>0, <1>14, <2>1 DEF SyncEnd, TypeOK, TInv
<1>12. ASSUME Corrupt PROVE TInv'
  <2>1. crashed' = TRUE
        /\ UNCHANGED <<pc, calls, fmt, sztemp, estr, old, sync, debug_in_use, awake, text, raced>>
    BY <1>12 DEF Corrupt
  <2> QED
    BY <1>0, <2>1 DEF TypeOK, TInv
<1>13. ASSUME UNCHANGED vars PROVE TInv'
  BY <1>0, <1>13 DEF vars, TypeOK, TInv
<1> QED
  BY <1>1, <1>3, <1>4, <1>5, <1>6, <1>7, <1>8, <1>9, <1>10, <1>11, <1>12, <1>13, <1>14
     DEF Next, log, sync_text

-----------------------------------------------------------------------------
(* The buffers *)

\* A step of log() within the use of the buffers: its thread is the only one that moves.
LEMMA InsideStep ==
  ASSUME TInv, NEW s \in Thread, Spin(s) \/ Prefix(s) \/ Text(s) \/ Read(s) \/ Write(s)
  PROVE  /\ InLog(s) /\ UNCHANGED <<calls, raced, sync>>
         /\ \A u \in Thread \ {s} : pc'[u] = pc[u]
         /\ \A u \in Thread : Current(u)' = Current(u)
<1>1. InLog(s) /\ UNCHANGED <<calls, raced, sync>>
  BY DEF Spin, Prefix, Text, Read, Write, Step, InLog
<1>2. \E to : pc' = [pc EXCEPT ![s] = to]
  BY DEF Spin, Prefix, Text, Read, Write, Step
<1>3. \A u \in Thread \ {s} : pc'[u] = pc[u]
  BY <1>2 DEF TInv, TypeOK
<1> QED
  BY <1>1, <1>3 DEF Current

\* Every step keeps a lone call's hold on the buffers.
LEMMA NextOwn == ASSUME TInv, OwnBuffers, [Next]_vars PROVE OwnBuffers'
<1> SUFFICES ASSUME NEW v \in Thread, InLog(v)', Current(v)' \notin raced'
             PROVE  /\ \A u \in Thread \ {v} : ~InLog(u)'
                    /\ fmt' = Current(v)'
                    /\ pc'[v] \in {"text", "read", "write"} => sztemp'[1] = Current(v)'
                    /\ pc'[v] \in {"read", "write"} => sztemp'[2] = Current(v)'
  BY DEF OwnBuffers
<1>0. TypeOK /\ pc \in [Thread -> {"idle", "spin", "prefix", "text", "read", "write", "awake"}]
  BY DEF TInv, TypeOK
<1>1. ASSUME NEW s \in Thread, Format(s)
      PROVE  /\ (\A u \in Thread \ {v} : ~InLog(u)') /\ fmt' = Current(v)' /\ pc'[v] = "spin"
  <2>1. /\ pc' = [pc EXCEPT ![s] = "spin"] /\ calls' = [calls EXCEPT ![s] = @ + 1]
        /\ fmt' = <<s, calls'[s]>>
        /\ raced' = raced \cup IF \E u \in Thread \ {s} : InLog(u)
                               THEN {<<s, calls'[s]>>} \cup {Current(u) : u \in Thread \ {s}} ELSE {}
    BY <1>1 DEF Format, Step
  <2>2. \A u \in Thread \ {s} : pc'[u] = pc[u] /\ calls'[u] = calls[u]
    BY <1>0, <2>1 DEF TypeOK
  <2>3. CASE v = s
    <3>1. Current(v)' = <<s, calls'[s]>>
      BY <2>3 DEF Current
    <3>2. \A u \in Thread \ {s} : ~InLog(u)
      BY <2>1, <3>1
    <3> QED
      BY <1>0, <2>1, <2>2, <2>3, <3>1, <3>2 DEF InLog
  <2>4. CASE v # s
    <3>1. InLog(v) /\ Current(v)' = Current(v)
      BY <2>2, <2>4 DEF InLog, Current
    <3>2. Current(v) \in raced'
      BY <2>1, <2>4, <3>1
    <3> QED
      BY <3>1, <3>2
  <2> QED
    BY <2>3, <2>4
<1>2. ASSUME NEW s \in Thread, Spin(s) \/ Prefix(s) \/ Text(s) \/ Read(s) \/ Write(s)
      PROVE  /\ v = s /\ (\A u \in Thread \ {v} : ~InLog(u)')
             /\ fmt = Current(v) /\ Current(v)' = Current(v)
             /\ pc[v] \in {"text", "read", "write"} => sztemp[1] = Current(v)
             /\ pc[v] \in {"read", "write"} => sztemp[2] = Current(v)
  <2>1. /\ InLog(s) /\ UNCHANGED <<calls, raced, sync>>
        /\ \A u \in Thread \ {s} : pc'[u] = pc[u]
        /\ \A u \in Thread : Current(u)' = Current(u)
    BY <1>2, InsideStep
  <2>2. v = s
    <3> SUFFICES ASSUME v # s PROVE FALSE
      OBVIOUS
    <3>1. InLog(v) /\ Current(v) \notin raced
      BY <2>1 DEF InLog
    <3> QED
      BY <2>1, <3>1 DEF OwnBuffers
  <2>3. InLog(v) /\ Current(v) \notin raced
    BY <2>1, <2>2
  <2> QED
    BY <2>1, <2>2, <2>3 DEF OwnBuffers, InLog
<1>3. ASSUME NEW s \in Thread, Spin(s)
      PROVE  fmt' = fmt /\ pc'[v] = "prefix"
  BY <1>0, <1>2, <1>3 DEF Spin, Step
<1>4. ASSUME NEW s \in Thread, Prefix(s)
      PROVE  fmt' = fmt /\ sztemp'[1] = fmt /\ pc'[v] = "text"
  BY <1>0, <1>2, <1>4 DEF Prefix, Step, TypeOK, Entry
<1>5. ASSUME NEW s \in Thread, Text(s)
      PROVE  fmt' = fmt /\ sztemp'[1] = sztemp[1] /\ sztemp'[2] = Current(v) /\ pc[v] = "text"
  BY <1>0, <1>2, <1>5 DEF Text, Step, TypeOK, Entry
<1>6. ASSUME NEW s \in Thread, Read(s)
      PROVE  UNCHANGED <<fmt, sztemp>> /\ pc[v] = "read"
  BY <1>2, <1>6 DEF Read, Step
<1>7. ASSUME NEW s \in Thread, Write(s) PROVE FALSE
  <2>1. v = s /\ pc'[s] = "awake"
    BY <1>0, <1>2, <1>7 DEF Write, Step
  <2> QED
    BY <2>1 DEF InLog
<1>8. ASSUME \/ \E s \in Thread : Awake(s)
             \/ sync_text \/ Corrupt \/ UNCHANGED vars
      PROVE  /\ \A u \in Thread : InLog(u)' => InLog(u) /\ pc'[u] = pc[u]
             /\ UNCHANGED <<calls, fmt, sztemp>> /\ raced \subseteq raced'
  <2>1. CASE \E s \in Thread : Awake(s)
    <3>1. PICK s \in Thread : Awake(s)
      BY <2>1
    <3>2. pc' = [pc EXCEPT ![s] = "idle"] /\ UNCHANGED <<calls, fmt, sztemp, raced>>
      BY <3>1 DEF Awake, Step
    <3> QED
      BY <1>0, <3>2 DEF InLog
  <2>2. CASE sync_text \/ Corrupt \/ UNCHANGED vars
    <3>1. UNCHANGED <<pc, calls, fmt, sztemp>> /\ raced \subseteq raced'
      BY <2>2 DEF sync_text, SyncBegin, Insert, Clear, SyncEnd, Corrupt, vars
    <3> QED
      BY <3>1 DEF InLog
  <2> QED
    BY <1>8, <2>1, <2>2
<1>9. CASE \/ \E s \in Thread : Awake(s)
           \/ sync_text \/ Corrupt \/ UNCHANGED vars
  <2>1. InLog(v) /\ Current(v)' = Current(v) /\ Current(v) \notin raced
    BY <1>8, <1>9 DEF Current
  <2> QED
    BY <1>8, <1>9, <2>1 DEF OwnBuffers
<1> QED
  <2>1. CASE \E s \in Thread : Format(s)
    <3>1. /\ (\A u \in Thread \ {v} : ~InLog(u)') /\ fmt' = Current(v)' /\ pc'[v] = "spin"
      BY <1>1, <2>1
    <3>2. pc'[v] \notin {"text", "read", "write"} /\ pc'[v] \notin {"read", "write"}
      BY <3>1
    <3> QED
      BY <3>1, <3>2
  <2>2. CASE \E s \in Thread : Spin(s)
    BY <1>2, <1>3, <2>2
  <2>3. CASE \E s \in Thread : Prefix(s)
    BY <1>2, <1>4, <2>3
  <2>4. CASE \E s \in Thread : Text(s)
    BY <1>2, <1>5, <2>4
  <2>5. CASE \E s \in Thread : Read(s)
    BY <1>2, <1>6, <2>5
  <2> QED
    BY <1>7, <1>9, <2>1, <2>2, <2>3, <2>4, <2>5 DEF Next, log

-----------------------------------------------------------------------------
(* What the lines are kept in *)

\* Every step keeps what GuardRaced says: the flag is set when the window is brought up
\* to date, a call that is past the flag then has raced, and later ones wait for its end.
LEMMA NextGuard == ASSUME TInv, GuardRaced, [Next]_vars PROVE GuardRaced'
<1> SUFFICES ASSUME NEW v \in Thread, Unguarded(v)', sync' # "none"
             PROVE  Current(v)' \in raced'
  BY DEF GuardRaced
<1>0. TypeOK /\ pc \in [Thread -> {"idle", "spin", "prefix", "text", "read", "write", "awake"}]
  BY DEF TInv, TypeOK
<1>1. ASSUME sync = "none" PROVE Current(v)' \in raced'
  <2>1. SyncBegin
    BY <1>1 DEF Next, Format, log, Spin, Prefix, Text, Read, Write, Awake,
                sync_text, SyncStep, Insert, Clear, SyncEnd, Corrupt, vars
  <2>2. Unguarded(v) /\ Current(v)' = Current(v)
    BY <2>1 DEF SyncBegin, Unguarded, Current
  <2> QED
    BY <2>1, <2>2 DEF SyncBegin
<1>2. ASSUME Unguarded(v), Current(v)' = Current(v), raced \subseteq raced', sync # "none"
      PROVE  Current(v)' \in raced'
  BY <1>2 DEF GuardRaced
<1>3. ASSUME NEW s \in Thread, Format(s) PROVE Current(v)' \in raced'
  <2>1. pc' = [pc EXCEPT ![s] = "spin"] /\ calls' = [calls EXCEPT ![s] = @ + 1]
        /\ raced \subseteq raced' /\ UNCHANGED sync
    BY <1>3 DEF Format, Step
  <2>2. v # s
    BY <1>0, <2>1 DEF Unguarded
  <2>3. Unguarded(v) /\ Current(v)' = Current(v)
    BY <1>0, <2>1, <2>2 DEF Unguarded, Current, TypeOK
  <2> QED
    BY <1>2, <2>1, <2>3
<1>4. ASSUME NEW s \in Thread, Spin(s) PROVE Current(v)' \in raced'
  <2>1. sync = "none" /\ UNCHANGED sync
    BY <1>0, <1>4 DEF Spin, TypeOK
  <2> QED
    BY <2>1
<1>5. ASSUME NEW s \in Thread, Prefix(s) \/ Text(s) \/ Read(s) \/ Write(s)
      PROVE  Current(v)' \in raced'
  <2>1. /\ UNCHANGED <<calls, raced, sync>> /\ Unguarded(s)
        /\ \A u \in Thread \ {s} : pc'[u] = pc[u]
        /\ Current(v)' = Current(v)
    <3>1. Unguarded(s)
      BY <1>5 DEF Prefix, Text, Read, Write, Step, Unguarded
    <3> QED
      BY <1>5, <3>1, InsideStep
  <2>2. Unguarded(v)
    BY <2>1 DEF Unguarded
  <2> QED
    BY <1>2, <2>1, <2>2
<1>6. ASSUME NEW s \in Thread, Awake(s) PROVE Current(v)' \in raced'
  <2>1. pc' = [pc EXCEPT ![s] = "idle"] /\ UNCHANGED <<calls, raced, sync>>
    BY <1>6 DEF Awake, Step
  <2>2. Unguarded(v) /\ Current(v)' = Current(v)
    BY <1>0, <2>1 DEF Unguarded, Current
  <2> QED
    BY <1>2, <2>1, <2>2
<1>7. CASE sync_text \/ Corrupt \/ UNCHANGED vars
  <2>1. UNCHANGED <<pc, calls>> /\ raced \subseteq raced'
    BY <1>7 DEF sync_text, SyncBegin, Insert, Clear, SyncEnd, Corrupt, vars
  <2>2. Unguarded(v) /\ Current(v)' = Current(v)
    BY <2>1 DEF Unguarded, Current
  <2> QED
    BY <1>1, <1>2, <2>1, <2>2
<1> QED
  BY <1>3, <1>4, <1>5, <1>6, <1>7 DEF Next, log

\* Only the append adds to the lone lines, and only the line of its call.
LEMMA LoneKept ==
  ASSUME TInv, [Next]_vars, NEW l \in Lone'
  PROVE  \/ l \in Lone
         \/ \E s \in Thread : Write(s) /\ l = Current(s) /\ Current(s) \notin raced
<1>0. /\ TypeOK /\ pc \in [Thread -> {"idle", "spin", "prefix", "text", "read", "write", "awake"}]
      /\ l \in Line /\ l \notin raced'
      /\ l[2] < calls'[l[1]] \/ (l = <<l[1], calls'[l[1]]>> /\ pc'[l[1]] \in {"idle", "awake"})
  BY DEF TInv, TypeOK, Lone, Logged, Current
<1>t. PICK t \in Thread, n \in 1..Calls : l = <<t, n>>
  BY <1>0 DEF Line
<1>n. /\ n < calls'[t] \/ (n = calls'[t] /\ pc'[t] \in {"idle", "awake"})
      /\ n \in Int /\ calls \in [Thread -> Int] /\ calls[t] \in Int
  BY <1>0, <1>t, EventLogAssumption DEF TypeOK
<1>r. raced \subseteq raced'
  BY DEF Next, Format, log, Spin, Prefix, Text, Read, Write, Awake,
         sync_text, SyncBegin, Insert, Clear, SyncEnd, Corrupt, vars
<1>l. ASSUME n < calls[t] \/ (n = calls[t] /\ pc[t] \in {"idle", "awake"})
      PROVE  l \in Lone
  BY <1>0, <1>t, <1>r, <1>l DEF Lone, Logged, Current
<1>1. ASSUME NEW s \in Thread, Format(s) PROVE l \in Lone
  <2>1. /\ pc[s] = "idle" /\ pc' = [pc EXCEPT ![s] = "spin"]
        /\ calls' = [calls EXCEPT ![s] = @ + 1]
    BY <1>1 DEF Format, Step
  <2>2. CASE t = s
    <3>1. pc'[t] = "spin" /\ calls'[t] = calls[t] + 1
      BY <1>0, <1>n, <2>1, <2>2
    <3>2. n < calls[t] + 1
      BY <1>n, <3>1
    <3> QED
      BY <1>l, <1>n, <2>1, <2>2, <3>2
  <2>3. CASE t # s
    BY <1>0, <1>l, <1>n, <2>1, <2>3
  <2> QED
    BY <2>2, <2>3
<1>2. ASSUME calls' = calls, pc'[t] \in {"idle", "awake"} => pc[t] \in {"idle", "awake"}
      PROVE  l \in Lone
  BY <1>l, <1>n, <1>2
<1>3. ASSUME NEW s \in Thread, Spin(s) \/ Prefix(s) \/ Text(s) \/ Read(s) PROVE l \in Lone
  <2>1. \E to \in {"prefix", "text", "read", "write"} : pc' = [pc EXCEPT ![s] = to]
    BY <1>3 DEF Spin, Prefix, Text, Read, Step
  <2>2. calls' = calls
    BY <1>3 DEF Spin, Prefix, Text, Read
  <2> QED
    BY <1>0, <1>2, <2>1, <2>2
<1>4. ASSUME NEW s \in Thread, Write(s), l \notin Lone
      PROVE  Write(s) /\ l = Current(s) /\ Current(s) \notin raced
  <2>1. pc' = [pc EXCEPT ![s] = "awake"] /\ calls' = calls
    BY <1>4 DEF Write, Step
  <2>2. t = s
    BY <1>0, <1>2, <1>4, <2>1
  <2>3. n = calls[t]
    BY <1>l, <1>n, <1>4, <2>1
  <2> QED
    BY <1>0, <1>r, <1>t, <1>4, <2>2, <2>3 DEF Current
<1>5. ASSUME NEW s \in Thread, Awake(s) PROVE l \in Lone
  <2>1. pc[s] = "awake" /\ pc' = [pc EXCEPT ![s] = "idle"] /\ calls' = calls
    BY <1>5 DEF Awake, Step
  <2> QED
    BY <1>0, <1>2, <2>1
<1>6. CASE sync_text \/ Corrupt \/ UNCHANGED vars
  <2>1. UNCHANGED <<pc, calls>>
    BY <1>6 DEF sync_text, SyncBegin, Insert, Clear, SyncEnd, Corrupt, vars
  <2> QED
    BY <1>2, <2>1
<1> QED
  BY <1>1, <1>3, <1>4, <1>5, <1>6 DEF Next, log

\* Every step keeps the lone lines where they are.
LEMMA NextKept ==
  ASSUME IInv, [Next]_vars
  PROVE  Kept' /\ KeptInWindow' /\ KeptInCopy'
<1>0. /\ TInv /\ TypeOK /\ OwnBuffers /\ GuardRaced /\ Kept /\ KeptInWindow /\ KeptInCopy
      /\ pc \in [Thread -> {"idle", "spin", "prefix", "text", "read", "write", "awake"}]
      /\ old \in [Thread -> Seq(Entry)] /\ estr \in Seq(Entry) /\ text \in Seq(Entry)
      /\ sztemp \in Entry
  BY DEF IInv, TInv, TypeOK
<1>1. ASSUME NEW s \in Thread, Write(s) PROVE Kept' /\ KeptInWindow' /\ KeptInCopy'
  <2>1. /\ pc[s] = "write" /\ pc' = [pc EXCEPT ![s] = "awake"]
        /\ estr' = Append(old[s], sztemp) /\ old' = [old EXCEPT ![s] = <<>>]
        /\ UNCHANGED <<text, sync>>
    BY <1>1 DEF Write, Step
  <2>2. InLog(s) /\ Unguarded(s)
    BY <2>1 DEF InLog, Unguarded
  <2>3. ToSet(estr') = ToSet(old[s]) \cup {sztemp}
    <3>1. old[s] \in Seq(Entry)
      BY <1>0
    <3> QED
      BY <1>0, <2>1, <3>1, AppendSet
  <2>4. ASSUME Current(s) \notin raced
        PROVE  sztemp = Whole(Current(s)) /\ \A u \in Thread \ {s} : pc[u] # "write"
    <3>1. sztemp[1] = Current(s) /\ sztemp[2] = Current(s) /\ \A u \in Thread \ {s} : ~InLog(u)
      BY <1>0, <2>1, <2>2, <2>4 DEF OwnBuffers
    <3> QED
      BY <1>0, <3>1 DEF Entry, Whole, InLog
  <2>5. \A l \in Lone' : l \in Lone \/ (l = Current(s) /\ Current(s) \notin raced)
    <3> SUFFICES ASSUME NEW l \in Lone', l \notin Lone
                 PROVE  l = Current(s) /\ Current(s) \notin raced
      OBVIOUS
    <3>1. PICK u \in Thread : Write(u) /\ l = Current(u) /\ Current(u) \notin raced
      BY <1>0, LoneKept
    <3>2. u = s
      <4>1. pc[u] = "write" /\ pc' = [pc EXCEPT ![u] = "awake"]
        BY <3>1 DEF Write, Step
      <4>2. pc'[s] = "awake"
        BY <1>0, <2>1
      <4> QED
        BY <1>0, <2>1, <4>1, <4>2
    <3> QED
      BY <3>1, <3>2
  <2>6. Kept'
    BY <1>0, <2>1, <2>3, <2>4, <2>5 DEF Kept, KeptInCopy
  <2>7. KeptInWindow'
    BY <1>0, <2>1, <2>2, <2>5 DEF KeptInWindow, GuardRaced
  <2>8. KeptInCopy'
    <3> SUFFICES ASSUME NEW u \in Thread, pc'[u] = "write", NEW l \in Lone'
                 PROVE  Whole(l) \in ToSet(text') \cup ToSet(old'[u])
      BY DEF KeptInCopy, Whole
    <3>1. u # s /\ pc[u] = "write" /\ old'[u] = old[u]
      BY <1>0, <2>1
    <3>2. l \in Lone
      BY <2>4, <2>5, <3>1
    <3> QED
      BY <1>0, <2>1, <3>1, <3>2 DEF KeptInCopy
  <2> QED
    BY <2>6, <2>7, <2>8
<1>2. ASSUME ~\E s \in Thread : Write(s) PROVE Lone' \subseteq Lone
  BY <1>0, <1>2, LoneKept
<1>3. ASSUME NEW s \in Thread, Read(s) PROVE Kept' /\ KeptInWindow' /\ KeptInCopy'
  <2>1. /\ pc' = [pc EXCEPT ![s] = "write"] /\ old' = [old EXCEPT ![s] = estr]
        /\ UNCHANGED <<estr, text, sync>>
    BY <1>3 DEF Read, Step
  <2>2. Lone' \subseteq Lone
    <3>1. ~\E u \in Thread : Write(u)
      <4> SUFFICES ASSUME NEW u \in Thread, Write(u) PROVE FALSE
        OBVIOUS
      <4>1. pc' = [pc EXCEPT ![u] = "awake"]
        BY DEF Write, Step
      <4>2. pc'[u] = "awake" /\ pc'[s] = "write" /\ pc[u] = "write" /\ pc[s] = "read"
        BY <1>0, <1>3, <2>1, <4>1 DEF Write, Read, Step
      <4> QED
        BY <1>0, <2>1, <4>1, <4>2
    <3> QED
      BY <1>2, <3>1
  <2>3. Kept' /\ KeptInWindow'
    BY <1>0, <2>1, <2>2 DEF Kept, KeptInWindow
  <2>4. KeptInCopy'
    <3> SUFFICES ASSUME NEW u \in Thread, pc'[u] = "write", NEW l \in Lone
                 PROVE  Whole(l) \in ToSet(text) \cup ToSet(old'[u])
      BY <2>1, <2>2 DEF KeptInCopy, Whole
    <3>1. CASE u = s
      BY <1>0, <2>1, <3>1 DEF Kept
    <3>2. CASE u # s
      BY <1>0, <2>1, <3>2 DEF KeptInCopy
    <3> QED
      BY <3>1, <3>2
  <2> QED
    BY <2>3, <2>4
<1>4. ASSUME UNCHANGED <<estr, text, old>>, Lone' \subseteq Lone, sync' # "clear" \/ sync' = sync,
             \A u \in Thread : pc'[u] = "write" => pc[u] = "write"
      PROVE  Kept' /\ KeptInWindow' /\ KeptInCopy'
  BY <1>0, <1>4 DEF Kept, KeptInWindow, KeptInCopy, Whole
<1>5. ASSUME NEW s \in Thread, Format(s) \/ Spin(s) \/ Prefix(s) \/ Text(s) \/ Awake(s)
      PROVE  Kept' /\ KeptInWindow' /\ KeptInCopy'
  <2>1. PICK to \in {"spin", "prefix", "text", "read", "idle"} : pc' = [pc EXCEPT ![s] = to]
    BY <1>5 DEF Format, Spin, Prefix, Text, Awake, Step
  <2>2. UNCHANGED <<estr, text, old, sync>>
    BY <1>5 DEF Format, Spin, Prefix, Text, Awake
  <2>3. ~\E u \in Thread : Write(u)
    <3> SUFFICES ASSUME NEW u \in Thread, Write(u) PROVE FALSE
      OBVIOUS
    <3>1. pc[u] = "write" /\ pc'[u] = "awake"
      BY <1>0 DEF Write, Step
    <3> QED
      BY <1>0, <2>1, <3>1
  <2> QED
    BY <1>0, <1>2, <1>4, <2>1, <2>2, <2>3
<1>6. ASSUME sync_text \/ Corrupt \/ UNCHANGED vars
      PROVE  Lone' \subseteq Lone /\ UNCHANGED <<pc, old>>
  <2>1. UNCHANGED <<pc, old>>
    BY <1>6 DEF sync_text, SyncBegin, Insert, Clear, SyncEnd, Corrupt, vars
  <2>2. ~\E u \in Thread : Write(u)
    BY <1>0, <2>1 DEF Write, Step
  <2> QED
    BY <1>2, <2>1, <2>2
<1>7. CASE SyncBegin \/ SyncEnd \/ Corrupt \/ UNCHANGED vars
  <2>1. UNCHANGED <<estr, text>> /\ (sync' # "clear" \/ sync' = sync)
    BY <1>7 DEF SyncBegin, SyncEnd, SyncStep, Corrupt, vars
  <2> QED
    BY <1>4, <1>6, <1>7, <2>1 DEF sync_text
<1>8. CASE Insert
  <2>1. text' = text \o estr /\ estr' = estr
    BY <1>8 DEF Insert
  <2>2. ToSet(text') = ToSet(text) \cup ToSet(estr)
    BY <1>0, <2>1, ConcatSet
  <2> QED
    BY <1>0, <1>6, <1>8, <2>1, <2>2 DEF sync_text, Kept, KeptInWindow, KeptInCopy
<1>9. CASE Clear
  <2>1. text' = text /\ sync = "clear" /\ sync' = "end"
    BY <1>9 DEF Clear, SyncStep
  <2> QED
    BY <1>0, <1>6, <1>9, <2>1 DEF sync_text, Kept, KeptInWindow, KeptInCopy
<1> QED
  BY <1>1, <1>3, <1>5, <1>7, <1>8, <1>9 DEF Next, log, sync_text

-----------------------------------------------------------------------------
(* The invariant and the theorems *)

\* The invariant holds at the start,
LEMMA InitInv == Init => IInv
<1> SUFFICES ASSUME Init PROVE IInv
  OBVIOUS
<1>1. TInv
  BY InitType
<1>2. \A s \in Thread : pc[s] = "idle" /\ calls[s] = 0
  BY DEF Init
<1>3. Logged = {}
  <2> SUFFICES ASSUME NEW l \in Logged PROVE FALSE
    OBVIOUS
  <2>1. PICK t \in Thread, n \in 1..Calls : l = <<t, n>>
    BY DEF Logged, Line
  <2>2. n < calls[t] \/ n = calls[t]
    BY <2>1 DEF Logged, Current
  <2> QED
    BY <1>2, <2>2, EventLogAssumption
<1> QED
  BY <1>1, <1>2, <1>3
     DEF IInv, Lone, OwnBuffers, InLog, GuardRaced, Unguarded, Kept, KeptInWindow, KeptInCopy

\* and for ever.
LEMMA InvHolds == Spec => []IInv
<1>1. IInv /\ [Next]_vars => IInv'
  BY NextType, NextOwn, NextGuard, NextKept DEF IInv
<1> QED
  BY InitInv, <1>1, PTL DEF Spec

\* Every variable keeps its type, and the flag is set exactly while the main thread moves
\* the string into the window.
THEOREM TypeCorrect == Spec => []TypeOK
<1>1. IInv => TypeOK
  BY DEF IInv, TInv
<1> QED
  BY InvHolds, <1>1, PTL

\* A line whose call overlaps no other is in the window or in the string for ever, whole.
THEOREM LoneLineIsKept == Spec => []LoneLineKept
<1>1. IInv => LoneLineKept
  BY DEF IInv, Kept, Lone, LoneLineKept
<1> QED
  BY InvHolds, <1>1, PTL

-----------------------------------------------------------------------------
(* Calls that do not overlap *)

\* There are finitely many lines that were logged.
LEMMA LoggedFinite == TypeOK => IsFiniteSet(Logged)
<1>1. IsFiniteSet(Thread) /\ IsFiniteSet(1..Calls)
  <2>1. Calls \in Int /\ 1 \in Int
    BY EventLogAssumption
  <2>2. IsFiniteSet({Main} \cup {Xml})
    BY FS_Singleton, FS_AddElement
  <2>3. Thread = {Main} \cup {Xml}
    BY DEF Thread
  <2> QED
    BY <2>1, <2>2, <2>3, FS_Interval
<1>2. IsFiniteSet(Line)
  BY <1>1, FS_Product DEF Line
<1>3. Logged \in SUBSET Line
  BY DEF Logged
<1> QED
  BY <1>2, <1>3, FS_Subset

\* The lines logged are the same before and after a step that is no append.
LEMMA LoggedSame ==
  ASSUME TInv, [Next]_vars, ~\E s \in Thread : Write(s)
  PROVE  Logged' = Logged
<1>0. /\ TypeOK /\ pc \in [Thread -> {"idle", "spin", "prefix", "text", "read", "write", "awake"}]
      /\ calls \in [Thread -> Int]
  BY EventLogAssumption DEF TInv, TypeOK
<1>1. ASSUME NEW t \in Thread, NEW n \in 1..Calls, calls' = calls,
             pc'[t] \in {"idle", "awake"} <=> pc[t] \in {"idle", "awake"}
      PROVE  (n < calls'[t] \/ (n = calls'[t] /\ pc'[t] \in {"idle", "awake"}))
             <=> (n < calls[t] \/ (n = calls[t] /\ pc[t] \in {"idle", "awake"}))
  BY <1>1
<1>2. ASSUME NEW t \in Thread, NEW n \in 1..Calls
      PROVE  (n < calls'[t] \/ (n = calls'[t] /\ pc'[t] \in {"idle", "awake"}))
             <=> (n < calls[t] \/ (n = calls[t] /\ pc[t] \in {"idle", "awake"}))
  <2>0. n \in Int /\ calls[t] \in Int
    BY <1>0, EventLogAssumption
  <2>1. ASSUME NEW s \in Thread, Format(s)
        PROVE  (n < calls'[t] \/ (n = calls'[t] /\ pc'[t] \in {"idle", "awake"}))
               <=> (n < calls[t] \/ (n = calls[t] /\ pc[t] \in {"idle", "awake"}))
    <3>1. /\ pc[s] = "idle" /\ pc' = [pc EXCEPT ![s] = "spin"]
          /\ calls' = [calls EXCEPT ![s] = calls[s] + 1]
      BY <2>1 DEF Format, Step
    <3>2. CASE t = s
      <4>1. pc'[t] = "spin" /\ pc[t] = "idle" /\ calls'[t] = calls[t] + 1
        BY <1>0, <3>1, <3>2
      <4>2. n < calls[t] + 1 <=> (n < calls[t] \/ n = calls[t])
        BY <2>0
      <4> QED
        BY <4>1, <4>2
    <3>3. CASE t # s
      BY <1>0, <3>1, <3>3
    <3> QED
      BY <3>2, <3>3
  <2>2. ASSUME NEW s \in Thread, Spin(s) \/ Prefix(s) \/ Text(s) \/ Read(s)
        PROVE  calls' = calls /\ (pc'[t] \in {"idle", "awake"} <=> pc[t] \in {"idle", "awake"})
    <3>1. pc[s] \in {"spin", "prefix", "text", "read"}
      BY <2>2 DEF Spin, Prefix, Text, Read, Step
    <3>2. \E to \in {"prefix", "text", "read", "write"} : pc' = [pc EXCEPT ![s] = to]
      BY <2>2 DEF Spin, Prefix, Text, Read, Step
    <3>3. calls' = calls
      BY <2>2 DEF Spin, Prefix, Text, Read
    <3> QED
      BY <1>0, <3>1, <3>2, <3>3
  <2>3. ASSUME NEW s \in Thread, Awake(s)
        PROVE  calls' = calls /\ (pc'[t] \in {"idle", "awake"} <=> pc[t] \in {"idle", "awake"})
    <3>1. pc[s] = "awake" /\ pc' = [pc EXCEPT ![s] = "idle"] /\ calls' = calls
      BY <2>3 DEF Awake, Step
    <3> QED
      BY <1>0, <3>1
  <2>4. CASE sync_text \/ Corrupt \/ UNCHANGED vars
    <3>1. UNCHANGED <<pc, calls>>
      BY <2>4 DEF sync_text, SyncBegin, Insert, Clear, SyncEnd, Corrupt, vars
    <3> QED
      BY <1>1, <3>1
  <2> QED
    BY <1>1, <2>1, <2>2, <2>3, <2>4 DEF Next, log
<1>3. \A l \in Line : l \in Logged' <=> l \in Logged
  <2> SUFFICES ASSUME NEW t \in Thread, NEW n \in 1..Calls
               PROVE  <<t, n>> \in Logged' <=> <<t, n>> \in Logged
    BY DEF Line
  <2> QED
    BY <1>2 DEF Logged, Current, Line
<1> QED
  BY <1>3 DEF Logged, Line

\* An append adds the line of its call.
LEMMA LoggedAppend ==
  ASSUME TInv, NEW s \in Thread, Write(s)
  PROVE  Logged' = Logged \cup {Current(s)} /\ Current(s) \notin Logged
<1>0. /\ pc \in [Thread -> {"idle", "spin", "prefix", "text", "read", "write", "awake"}]
      /\ pc[s] = "write" /\ pc' = [pc EXCEPT ![s] = "awake"] /\ calls' = calls
      /\ calls \in [Thread -> Int] /\ Current(s) \in Line
  BY EventLogAssumption, CurrentLine DEF TInv, TypeOK, Write, Step
<1>1. ASSUME NEW t \in Thread, NEW n \in 1..Calls
      PROVE  <<t, n>> \in Logged' <=> <<t, n>> \in Logged \/ <<t, n>> = Current(s)
  <2>1. pc'[t] = IF t = s THEN "awake" ELSE pc[t]
    BY <1>0
  <2> QED
    BY <1>0, <2>1 DEF Logged, Current, Line
<1>2. \A l \in Line : l \in Logged' <=> l \in Logged \/ l = Current(s)
  BY <1>1 DEF Line
<1>3. Logged \subseteq Line /\ Logged' \subseteq Line
  BY DEF Logged, Line
<1>4. Current(s) \notin Logged
  <2>1. calls[s] \in Int
    BY <1>0
  <2> QED
    BY <1>0, <2>1 DEF Logged, Current
<1> QED
  BY <1>0, <1>2, <1>3, <1>4

\* Every step keeps Exact.
LEMMA NextExact == ASSUME IInv, Exact, [Next]_vars PROVE Exact'
<1> SUFFICES ASSUME raced' = {}
             PROVE  /\ ToSet(Lines') = {Whole(l) : l \in Logged'}
                    /\ Len(Lines') = Cardinality(Logged')
                    /\ \A s \in Thread : pc'[s] = "write" => old'[s] = estr'
  BY DEF Exact, Whole
<1>r. raced \subseteq raced'
  BY DEF Next, Format, log, Spin, Prefix, Text, Read, Write, Awake,
         sync_text, SyncBegin, Insert, Clear, SyncEnd, Corrupt, vars
<1>0. /\ raced = {} /\ TInv /\ TypeOK /\ OwnBuffers /\ GuardRaced
      /\ pc \in [Thread -> {"idle", "spin", "prefix", "text", "read", "write", "awake"}]
      /\ old \in [Thread -> Seq(Entry)] /\ estr \in Seq(Entry) /\ text \in Seq(Entry)
      /\ sztemp \in Entry
  BY <1>r DEF IInv, TInv, TypeOK
<1>e. /\ ToSet(Lines) = {Whole(l) : l \in Logged} /\ Len(Lines) = Cardinality(Logged)
      /\ \A s \in Thread : pc[s] = "write" => old[s] = estr
  BY <1>0 DEF Exact
<1>1. ASSUME NEW s \in Thread, Write(s)
      PROVE  /\ ToSet(Lines') = {Whole(l) : l \in Logged'}
             /\ Len(Lines') = Cardinality(Logged')
             /\ \A u \in Thread : pc'[u] # "write"
  <2>1. /\ pc[s] = "write" /\ pc' = [pc EXCEPT ![s] = "awake"]
        /\ estr' = Append(old[s], sztemp) /\ UNCHANGED <<text, sync>>
    BY <1>1 DEF Write, Step
  <2>2. InLog(s) /\ Unguarded(s)
    BY <2>1 DEF InLog, Unguarded
  <2>3. sync = "none"
    BY <1>0, <2>2 DEF GuardRaced
  <2>4. sztemp = Whole(Current(s)) /\ \A u \in Thread \ {s} : pc[u] # "write"
    <3>1. sztemp[1] = Current(s) /\ sztemp[2] = Current(s) /\ \A u \in Thread \ {s} : ~InLog(u)
      BY <1>0, <2>1, <2>2 DEF OwnBuffers
    <3> QED
      BY <1>0, <3>1 DEF Entry, Whole, InLog
  <2>5. estr' = Append(estr, sztemp) /\ estr' \in Seq(Entry) /\ Len(estr') = Len(estr) + 1
    BY <1>0, <1>e, <2>1, AppendProperties
  <2>6. Lines = text \o estr /\ Lines' = text \o estr'
    BY <2>1, <2>3 DEF Lines
  <2>7. ToSet(Lines') = ToSet(Lines) \cup {Whole(Current(s))}
    <3>1. ToSet(estr') = ToSet(estr) \cup {sztemp}
      BY <1>0, <2>5, AppendSet
    <3>2. ToSet(Lines) = ToSet(text) \cup ToSet(estr)
      BY <1>0, <2>6, ConcatSet
    <3>3. ToSet(Lines') = ToSet(text) \cup ToSet(estr')
      BY <1>0, <2>5, <2>6, ConcatSet, ZenonT(60)
    <3> QED
      BY <2>4, <3>1, <3>2, <3>3
  <2>8. Len(Lines') = Len(Lines) + 1
    <3>1. Len(Lines) = Len(text) + Len(estr) /\ Len(Lines') = Len(text) + Len(estr')
      BY <1>0, <2>5, <2>6, ConcatProperties
    <3>2. Len(text) \in Nat /\ Len(estr) \in Nat
      BY <1>0, LenProperties
    <3> QED
      BY <2>5, <3>1, <3>2
  <2>9. Logged' = Logged \cup {Current(s)} /\ Current(s) \notin Logged
    BY <1>0, <1>1, LoggedAppend
  <2>10. Cardinality(Logged') = Cardinality(Logged) + 1
    BY <1>0, <2>9, LoggedFinite, FS_AddElement
  <2> QED
    BY <1>0, <1>e, <2>1, <2>4, <2>7, <2>8, <2>9, <2>10
<1>2. ASSUME ~\E s \in Thread : Write(s)
      PROVE  Logged' = Logged
  BY <1>0, <1>2, LoggedSame
<1>3. ASSUME Lines' = Lines, Logged' = Logged,
             \A s \in Thread : pc'[s] = "write" => old'[s] = estr'
      PROVE  /\ ToSet(Lines') = {Whole(l) : l \in Logged'}
             /\ Len(Lines') = Cardinality(Logged')
             /\ \A s \in Thread : pc'[s] = "write" => old'[s] = estr'
  BY <1>e, <1>3
<1>4. ASSUME NEW s \in Thread,
             Format(s) \/ Spin(s) \/ Prefix(s) \/ Text(s) \/ Read(s) \/ Awake(s)
      PROVE  /\ Lines' = Lines /\ ~\E u \in Thread : Write(u)
             /\ \A u \in Thread : pc'[u] = "write" => old'[u] = estr'
  <2>1. PICK to \in {"spin", "prefix", "text", "read", "write", "idle"} :
          pc' = [pc EXCEPT ![s] = to]
    BY <1>4 DEF Format, Spin, Prefix, Text, Read, Awake, Step
  <2>2. UNCHANGED <<estr, text, sync>>
    BY <1>4 DEF Format, Spin, Prefix, Text, Read, Awake
  <2>3. Lines' = Lines
    BY <2>2 DEF Lines
  <2>4. ~\E u \in Thread : Write(u)
    <3> SUFFICES ASSUME NEW u \in Thread, Write(u) PROVE FALSE
      OBVIOUS
    <3>1. pc[u] = "write" /\ pc'[u] = "awake"
      BY <1>0 DEF Write, Step
    <3> QED
      BY <1>0, <2>1, <3>1
  <2>5. CASE Read(s)
    <3>1. old' = [old EXCEPT ![s] = estr] /\ pc' = [pc EXCEPT ![s] = "write"]
      BY <2>5 DEF Read, Step
    <3> QED
      BY <1>0, <1>e, <2>2, <2>3, <2>4, <3>1
  <2>6. CASE Format(s) \/ Spin(s) \/ Prefix(s) \/ Text(s) \/ Awake(s)
    <3>1. PICK past \in {"spin", "prefix", "text", "read", "idle"} :
            pc' = [pc EXCEPT ![s] = past]
      BY <2>6 DEF Format, Spin, Prefix, Text, Awake, Step
    <3>2. old' = old
      BY <2>6 DEF Format, Spin, Prefix, Text, Awake
    <3> QED
      BY <1>0, <1>e, <2>2, <2>3, <2>4, <3>1, <3>2
  <2> QED
    BY <1>4, <2>5, <2>6
<1>5. ASSUME sync_text \/ Corrupt \/ UNCHANGED vars
      PROVE  UNCHANGED <<pc, old>> /\ ~\E s \in Thread : Write(s)
  <2>1. UNCHANGED <<pc, old>>
    BY <1>5 DEF sync_text, SyncBegin, Insert, Clear, SyncEnd, Corrupt, vars
  <2> QED
    BY <1>0, <2>1 DEF Write, Step
<1>6. CASE SyncBegin \/ SyncEnd \/ Corrupt \/ UNCHANGED vars
  <2>1. /\ UNCHANGED <<estr, text>>
        /\ (sync = "clear" <=> sync' = "clear")
    BY <1>6 DEF SyncBegin, SyncEnd, SyncStep, Corrupt, vars
  <2>2. Lines' = Lines
    BY <2>1 DEF Lines
  <2> QED
    BY <1>e, <1>2, <1>3, <1>5, <1>6, <2>1, <2>2 DEF sync_text
<1>7. CASE Insert
  <2>1. text' = text \o estr /\ estr' = estr /\ sync = "insert" /\ sync' = "clear"
    BY <1>7 DEF Insert, SyncStep
  <2>2. Lines' = Lines
    BY <2>1 DEF Lines
  <2> QED
    BY <1>e, <1>2, <1>3, <1>5, <1>7, <2>1, <2>2 DEF sync_text
<1>8. CASE Clear
  <2>1. text' = text /\ estr' = <<>> /\ sync = "clear" /\ sync' = "end"
    BY <1>8 DEF Clear, SyncStep
  <2>2. text \o <<>> = text
    BY <1>0, ConcatEmptySeq
  <2>3. Lines' = Lines
    BY <2>1, <2>2 DEF Lines
  <2>4. \A s \in Thread : pc[s] # "write"
    BY <1>0, <2>1 DEF GuardRaced, Unguarded
  <2> QED
    BY <1>2, <1>3, <1>5, <1>8, <2>3, <2>4 DEF sync_text
<1>9. CASE \E s \in Thread : Format(s) \/ Spin(s) \/ Prefix(s) \/ Text(s) \/ Read(s) \/ Awake(s)
  BY <1>2, <1>3, <1>4, <1>9
<1>10. CASE \E s \in Thread : Write(s)
  BY <1>1, <1>10
<1> QED
  BY <1>6, <1>7, <1>8, <1>9, <1>10 DEF Next, log, sync_text

\* Exact holds at the start.
LEMMA InitExact == Init => Exact
<1> SUFFICES ASSUME Init PROVE Exact
  OBVIOUS
<1>1. Logged = {}
  <2> SUFFICES ASSUME NEW l \in Logged PROVE FALSE
    OBVIOUS
  <2>1. PICK t \in Thread, n \in 1..Calls : l = <<t, n>>
    BY DEF Logged, Line
  <2>2. n < calls[t] \/ n = calls[t]
    BY <2>1 DEF Logged, Current
  <2> QED
    BY <2>2, EventLogAssumption DEF Init
<1>2. Cardinality(Logged) = 0
  BY <1>1, FS_EmptySet
<1>3. \A s \in Thread : pc[s] = "idle"
  BY DEF Init
<1>4. Lines = <<>>
  <2>1. <<>> \in Seq(Entry)
    OBVIOUS
  <2> QED
    BY <2>1, ConcatEmptySeq DEF Lines, Init
<1>5. ToSet(<<>>) = {} /\ Len(<<>>) = 0
  BY DEF ToSet
<1> QED
  BY <1>1, <1>2, <1>3, <1>4, <1>5 DEF Exact

\* As long as no calls overlap, the window and the string together hold every line that
\* was logged, whole, and each of them once.
THEOREM CalmLogExact == Spec => []CalmLogIsExact
<1>1. IInv /\ [Next]_vars => IInv'
  BY NextType, NextOwn, NextGuard, NextKept DEF IInv
<1>2. IInv /\ Exact /\ [Next]_vars => Exact'
  BY NextExact
<1>3. Exact => CalmLogIsExact
  BY DEF Exact, CalmLogIsExact, Lines
<1> QED
  BY InitInv, InitExact, <1>1, <1>2, <1>3, PTL DEF Spec

=============================================================================
