------------------------------ MODULE AdifText ------------------------------
(***************************************************************************)
(* The text of a log (src/logbook/adif_io.cxx): what adif_record writes,   *)
(* how readfile_ reads a file of such records, the program's own or        *)
(* another's, and how a client's call reads the text of one record.        *)
(*                                                                         *)
(* A text is a sequence of tokens: a tag <NAME:n>, an end of record in     *)
(* capitals or not, another '<', or a letter.  Each counts as one in the   *)
(* length of a value.  A name is a sequence of pieces, cut so that a name  *)
(* that is part of another one can be seen to be.  The file is smaller     *)
(* than the buffer it is read into.                                        *)
(***************************************************************************)
EXTENDS Integers, SequencesExt

CONSTANTS
  Letters,      \* the letters of values, but for Zero
  Values,       \* [Field -> set of values] the values of the records
  Foreign,      \* the fields that other programs put before a record
  MaxLog        \* bound: records in a file

Eor  == <<"EOR">>
eor  == <<"eor">>
Lt   == <<"<">>
Zero == <<"0">>
Tag(name, n) == <<"tag", name, n>>

\* The table of the fields, in its order: a part of it
fieldsByLength == <<"STATION_CALLSIGN", "TIME_ON", "NOTES", "CALL">>

fields == <<"CALL", "TIME_ON", "NOTES", "STATION_CALLSIGN">>

Field == ToSet(fields)

\* How long a value may be (a time has 6 characters, here 2)
fsize == [CALL |-> 2, TIME_ON |-> 2, NOTES |-> 4, STATION_CALLSIGN |-> 2]

\* The names, those of the table and two others that are ADIF, too
Pieces ==
  [CALL |-> <<"CALL">>, TIME_ON |-> <<"TIME_ON">>, NOTES |-> <<"NOTES">>,
   STATION_CALLSIGN |-> <<"STATION_", "CALL", "SIG", "N">>,
   SIG |-> <<"SIG">>, COMMENT |-> <<"COMMENT">>]

IsPart(s, t) == \E i \in 0..(Len(t) - Len(s)) : SubSeq(t, i + 1, i + Len(s)) = s

\* The fields whose name has the name in it: strcasestr finds the first of the table.
Has(name) == {i \in DOMAIN fields : IsPart(Pieces[name], Pieces[fields[i]])}

NoField == "none"
findfield(name) == IF Has(name) = {} THEN NoField ELSE fields[Min(Has(name))]

\* A token that begins with '<'
Begins(token) == token[1] \in {"tag", "EOR", "eor", "<"}

Token == {Eor, eor, Lt, Zero} \cup Letters \cup ({"tag"} \X (DOMAIN Pieces) \X Nat)

ASSUME TextAssumption ==
  /\ \A c \in Letters : ~Begins(c)
  /\ Values \in [Field -> SUBSET Seq(Token)]
  /\ \A f \in Field : <<>> \in Values[f]
  /\ \A b \in Foreign : b.name \in DOMAIN Pieces /\ b.value \in Seq(Token)
  /\ MaxLog \in Nat

-----------------------------------------------------------------------------
(* Writing *)

EmptyRec == [f \in Field |-> <<>>]

FieldText(name, value) == IF value = <<>> THEN <<>> ELSE <<Tag(name, Len(value))>> \o value

\* The text of the i-th field of a record
Part(rec, i) == FieldText(fields[i], rec[fields[i]])

adif_record(rec, end) == Part(rec, 1) \o (Part(rec, 2) \o (Part(rec, 3) \o (Part(rec, 4) \o <<end>>)))

\* What fillfield keeps of a value: no more than the field is long, and of a time no less
Kept(f, value) ==
  IF Len(value) > fsize[f] THEN SubSeq(value, 1, fsize[f])
  ELSE IF f = "TIME_ON" /\ Len(value) < fsize[f]
  THEN value \o [i \in 1..(fsize[f] - Len(value)) |-> Zero]
  ELSE value

-----------------------------------------------------------------------------
VARIABLES
  source,       \* the records the text is made of, what is before each, how each ends
  call,         \* the text is that of a client's call
  doing,        \* "write", "call", "scan", "fields", "done"
  sbuff,        \* the text still to be read
  p,            \* where the record ends
  ptr,          \* the '<' that is looked at, 0 if there is none
  adifqso,      \* 0, or the index of the record that is filled
  db            \* the records read

adifVars == <<source, call, doing, sbuff, p, ptr, adifqso, db>>

Source == [rec : {r \in [Field -> UNION {Values[f] : f \in Field}] : \A f \in Field : r[f] \in Values[f]},
           before : Foreign, end : {Eor, eor}]

TextOf(s) == FieldText(s.before.name, s.before.value) \o adif_record(s.rec, s.end)

Firsts(text, tokens) == {i \in DOMAIN text : text[i] \in tokens}
FirstOf(text, tokens) == IF Firsts(text, tokens) = {} THEN 0 ELSE Min(Firsts(text, tokens))

\* Mutated: the text is searched from its end.
FindEorLast(text) == IF Firsts(text, {Eor, eor}) = {} THEN 0 ELSE Max(Firsts(text, {Eor, eor}))

\* An end in small letters is looked for where there is none in capitals.
FindEor(text) == IF FirstOf(text, {Eor}) # 0 THEN FirstOf(text, {Eor}) ELSE FirstOf(text, {eor})

\* strchr(text + from, '<')
Next_lt(text, from) ==
  LET s == {i \in DOMAIN text : i >= from /\ Begins(text[i])}
  IN  IF s = {} THEN 0 ELSE Min(s)

AdifInit ==
  /\ call \in BOOLEAN
  /\ source \in {<<>>} \cup (IF call THEN {<<s>> : s \in Source} ELSE {})
  /\ sbuff = <<>> /\ p = 0 /\ ptr = 0
  \* add_record has a new record, and update_record one that is there.
  /\ IF source # <<>>
     THEN /\ db \in {<<EmptyRec>>, <<[EmptyRec EXCEPT !["CALL"] = <<Zero>>, !["NOTES"] = <<Zero>>]>>}
          /\ adifqso = 1 /\ doing = "call"
     ELSE db = <<>> /\ adifqso = 0 /\ doing = IF call THEN "done" ELSE "write"

\* The next record is written behind the text.
WriteRecord ==
  /\ doing = "write" /\ Len(source) < MaxLog
  /\ \E s \in Source : source' = Append(source, s) /\ sbuff' = sbuff \o TextOf(s)
  /\ UNCHANGED <<call, doing, p, ptr, adifqso, db>>

\* The file is read.
OpenFile ==
  /\ doing = "write" /\ doing' = "scan"
  /\ UNCHANGED <<source, call, sbuff, p, ptr, adifqso, db>>

\* The handler of a client's call is given its text.
Arrives(text) ==
  /\ doing = "call" /\ doing' = "fields"
  /\ sbuff' = text /\ ptr' = Next_lt(text, 1)
  /\ UNCHANGED <<source, call, p, adifqso, db>>

\* The next record begins at its first '<'.
NextRecord ==
  /\ doing = "scan"
  /\ p' = FindEor(sbuff)
  /\ IF p' = 0 THEN doing' = "done" /\ UNCHANGED <<ptr, adifqso>>
     ELSE doing' = "fields" /\ ptr' = Next_lt(sbuff, 1) /\ adifqso' = 0
  /\ UNCHANGED <<source, call, sbuff, db>>

\* A file's reader goes on behind the field if it is not larger than the record, a call's
\* behind its '<'.  Otherwise the record is corrupt and ends here.
Advance(size) ==
  ptr' = IF call THEN Next_lt(sbuff, ptr + 1)
         ELSE IF size <= p - 1 THEN Next_lt(sbuff, ptr + size) ELSE 0

IsTag(token) == token[1] = "tag"
Found == IsTag(sbuff[ptr]) /\ findfield(sbuff[ptr][2]) # NoField

\* Mutated: the value is read for further tags.
KnownNoSkip ==
  /\ doing = "fields" /\ ptr # 0 /\ Found
  /\ LET f == findfield(sbuff[ptr][2])
         n == sbuff[ptr][3]
         q == IF adifqso = 0 THEN Len(db) + 1 ELSE adifqso
         d == IF adifqso = 0 THEN Append(db, EmptyRec) ELSE db
     IN  /\ adifqso' = q
         /\ db' = [d EXCEPT ![q][f] = Kept(f, SubSeq(sbuff, ptr + 1, ptr + n))]
         /\ Advance(1)
  /\ UNCHANGED <<source, call, doing, sbuff, p>>

\* A field of the table: the first of a record makes the record.
Known ==
  /\ doing = "fields" /\ ptr # 0 /\ Found
  /\ LET f == findfield(sbuff[ptr][2])
         n == sbuff[ptr][3]
         q == IF adifqso = 0 THEN Len(db) + 1 ELSE adifqso
         d == IF adifqso = 0 THEN Append(db, EmptyRec) ELSE db
     IN  /\ adifqso' = q
         /\ db' = [d EXCEPT ![q][f] = Kept(f, SubSeq(sbuff, ptr + 1, ptr + n))]
         /\ Advance(n + 1)
  /\ UNCHANGED <<source, call, doing, sbuff, p>>

\* A field of another name, or a '<' that begins none: only the '<' is skipped.
Unknown ==
  /\ doing = "fields" /\ ptr # 0
  /\ sbuff[ptr] \notin {Eor, eor} /\ ~Found
  /\ Advance(1)
  /\ UNCHANGED <<source, call, doing, sbuff, p, adifqso, db>>

\* Mutated: the end of the record is left in the text.
EndOfRecordKept ==
  /\ doing = "fields"
  /\ ptr # 0 => sbuff[ptr] \in {Eor, eor}
  /\ IF call THEN doing' = "done" /\ UNCHANGED sbuff
     ELSE doing' = "scan" /\ sbuff' = SubSeq(sbuff, p, Len(sbuff))
  /\ p' = 0 /\ ptr' = 0
  /\ UNCHANGED <<source, call, adifqso, db>>

\* The end of the record is reached, or its text: the file goes on behind p.
EndOfRecord ==
  /\ doing = "fields"
  /\ ptr # 0 => sbuff[ptr] \in {Eor, eor}
  /\ IF call THEN doing' = "done" /\ UNCHANGED sbuff
     ELSE doing' = "scan" /\ sbuff' = SubSeq(sbuff, p + 1, Len(sbuff))
  /\ p' = 0 /\ ptr' = 0
  /\ UNCHANGED <<source, call, adifqso, db>>

Done == doing = "done" /\ UNCHANGED adifVars

Read == NextRecord \/ Known \/ Unknown \/ EndOfRecord

AdifNext == WriteRecord \/ OpenFile \/ Arrives(TextOf(source[1])) \/ Read \/ Done

\* The text of a call arrives as it was sent (RpcText says how).
AdifSpec == AdifInit /\ [][AdifNext]_adifVars

-----------------------------------------------------------------------------
(* Properties *)

KeptRec(rec) == [f \in Field |-> IF rec[f] = <<>> THEN <<>> ELSE Kept(f, rec[f])]

HasEnd(value) == \E i \in DOMAIN value : value[i] \in {Eor, eor}
HasTag(value) == \E i \in DOMAIN value : IsTag(value[i])

\* A field of another program that the reader passes over
Passed(b) == findfield(b.name) = NoField /\ ~HasTag(b.value) /\ ~HasEnd(b.value)

OneCase == \A i, j \in DOMAIN source : source[i].end = source[j].end

\* Reading a file gives the records that were written, up to the lengths of the fields,
\* whatever the values are, if no value has an end of record in it.  Fields of other
\* programs change nothing if their name is not part of one of the table.
ReadsWhatIsWritten ==
  LET full == {i \in DOMAIN source : source[i].rec # EmptyRec}
  IN  /\ doing = "done" /\ ~call /\ OneCase
      /\ \A i \in DOMAIN source :
           /\ Passed(source[i].before)
           /\ \A f \in Field : ~HasEnd(source[i].rec[f])
      => \E at \in [full -> DOMAIN db] :
           /\ \A i, j \in full : j < i => at[j] < at[i]
           /\ \A r \in DOMAIN db : \E i \in full : at[i] = r
           /\ \A i \in full : db[at[i]] = KeptRec(source[i].rec)

\* The fields before the first whose value has an end of record in it
Safe(rec) ==
  {fields[i] : i \in {i \in DOMAIN fields : \A j \in 1..i : ~HasEnd(rec[fields[j]])}}

\* An end of record in a value makes records of the rest, but it spoils no other record:
\* those that were written are all there, in order, with what precedes that value.
NoRecordIsLost ==
  doing = "done" /\ ~call /\ (\A i \in DOMAIN source : source[i].end = Eor /\ Passed(source[i].before)
                             /\ source[i].rec["CALL"] # <<>>) =>
    \E at \in [DOMAIN source -> DOMAIN db] :
      \A i \in DOMAIN source :
        /\ \A j \in DOMAIN source : j < i => at[j] < at[i]
        /\ \A f \in Safe(source[i].rec) : db[at[i]][f] = KeptRec(source[i].rec)[f]

\* A call gives the record the fields of its text and leaves the others, if no value has a
\* tag or an end in it: a call does not pass over values.
CallSetsItsFields ==
  doing = "done" /\ call /\ source # <<>> /\ Passed(source[1].before)
  /\ (\A f \in Field : ~HasTag(source[1].rec[f]) /\ ~HasEnd(source[1].rec[f])) =>
    /\ Len(db) = 1
    /\ \A f \in Field :
         IF source[1].rec[f] # <<>> THEN db[1][f] = Kept(f, source[1].rec[f])
         ELSE db[1][f] \in {<<>>, <<Zero>>}
=============================================================================
