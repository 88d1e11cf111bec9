------------------------------ MODULE RpcText ------------------------------
(***************************************************************************)
(* A call as text: the client writes its parameters as XML                 *)
(* (XmlRpcClient::generateRequest, XmlRpcValue::toXml), the server reads   *)
(* them (XmlRpcServer::parseRequest, XmlRpcValue::fromXml), executes the   *)
(* method or methods and writes the answer, which the client reads.  The   *)
(* text of a record that is to be added goes on to the reader of AdifText. *)
(*                                                                         *)
(* An XML text is a sequence of tokens: a tag of the protocol, a space, a  *)
(* number, the name of a method or member, and the characters of strings,  *)
(* which are the tokens of AdifText.  Of the types of values those of the  *)
(* log's methods are here: strings, numbers, nil, arrays and structs.      *)
(***************************************************************************)
EXTENDS AdifText, XmlStrings

CONSTANTS
  Record,       \* [argument -> text] what fetch_record finds, <<>> if there is nothing
  OtherCalls    \* the calls that change no record, no multicall within another one

Char     == <<"x">>
Num(n)   == <<"num", n>>
Word(w)  == <<"word", w>>

-----------------------------------------------------------------------------
(* XmlRpcValue: a value is its type and its contents, a struct a sequence of
   members in the order of their names                                     *)

Number(n)  == <<"int", <<Num(n)>>>>
Array(s)   == <<"array", s>>
Struct(s)  == <<"struct", s>>
Nil        == <<"nil", <<>>>>

In(tag, s) == <<Open(tag)>> \o s \o <<End(tag)>>

RECURSIVE toXml(_)
toXml(v) ==
  LET All(F(_)) == FlattenSeq([i \in DOMAIN v[2] |-> F(v[2][i])])
      Member(m) == In("member", In("name", <<Word(m[1])>>) \o toXml(m[2]))
  IN  CASE v[1] = "string" -> In("value", xmlEncode(v[2]))
        [] v[1] = "int"    -> In("value", In("i4", v[2]))
        [] v[1] = "nil"    -> In("value", <<Empty("nil")>>)
        [] v[1] = "array"  -> In("value", In("array", In("data", All(toXml))))
        [] v[1] = "struct" -> In("value", In("struct", All(Member)))
        [] OTHER -> <<>>

intFromXml(x, i) ==
  IF At(x, i)[1] = "num" THEN [val |-> <<"int", <<x[i]>>>>, next |-> i + 1] ELSE NotRead

RECURSIVE fromXml(_, _), Elements(_, _, _), Members(_, _, _)

\* arrayFromXml: values until there is none.  v is the next one.
MoreElements(x, off, read, v) ==
  IF v.next = 0 THEN [val |-> Array(read), next |-> SkipEnd("data", x, off)]
  ELSE Elements(x, v.next, Append(read, v.val))
Elements(x, off, read) == MoreElements(x, off, read, fromXml(x, off))

ArrayAt(x, i) ==
  CASE i = 0 -> NotRead
    [] i # 0 /\ x[i - 1] = Empty("data") -> [val |-> Array(<<>>), next |-> i]
    [] OTHER -> Elements(x, i, <<>>)
arrayFromXml(x, off) == ArrayAt(x, nextTagIs("data", x, off))

\* structFromXml: members until there is none; without a value it is no struct.
AddMember(read, name, val) ==
  IF \E m \in DOMAIN read : read[m][1] = name THEN read ELSE Append(read, <<name, val>>)
MoreMembers(x, read, name, v) ==
  IF v.next = 0 THEN NotRead
  ELSE Members(x, SkipEnd("member", x, v.next), AddMember(read, x[name][2], v.val))
NamedMember(x, read, name) == MoreMembers(x, read, name, fromXml(x, name + 2))
MemberAt(x, off, read, i) ==
  CASE i = 0 -> [val |-> Struct(read), next |-> off]
    [] i # 0 /\ x[i - 1] = Empty("member") -> Members(x, i, read)
    [] OTHER -> NamedMember(x, read, findTag("name", x, i))
Members(x, off, read) == MemberAt(x, off, read, nextTagIs("member", x, off))

\* The contents of a value by the tag of their type
Contents(x, i, type) ==
  CASE type \in {"i4", "int"} -> intFromXml(x, NoSpace(x, i))
    [] type = "string" -> stringFromXml(x, i)
    [] type = "array"  -> arrayFromXml(x, i)
    [] type = "struct" -> Members(x, i, <<>>)
    [] OTHER -> NotRead

\* A value that has been read has to end.
Moved(v, next) == IF next = 0 THEN NotRead ELSE [v EXCEPT !.next = next]
Ended(tag, x, v) == Moved(v, IF v.next = 0 THEN 0 ELSE nextTagIsEnd(tag, x, v.next))

EmptyValue(type) == CASE type = "string" -> Str(<<>>) [] type = "nil" -> Nil [] OTHER -> Number(0)

Typed(x, i, tag) ==
  CASE tag \in {Empty("string"), Empty("i4"), Empty("int"), Empty("nil")} ->
         [val |-> EmptyValue(tag[2]), next |-> i + 1]
    [] tag[1] = "open" -> Ended(tag[2], x, Contents(x, i + 1, tag[2]))
    [] OTHER -> NotRead
TypedAt(x, i) == Typed(x, i, At(x, i))

\* Without a tag the contents are a string.
ValueAt(x, a, end) ==
  CASE a = 0 -> NotRead
    [] a # 0 /\ x[a - 1] = Empty("value") -> [val |-> Str(<<>>), next |-> a]
    [] a # 0 /\ x[a - 1] # Empty("value") /\ end # 0 -> Moved(stringFromXml(x, a), end)
    [] OTHER -> Ended("value", x, TypedAt(x, NoSpace(x, a)))
ValueFrom(x, a) == ValueAt(x, a, nextTagIsEnd("value", x, a))
fromXml(x, off) == ValueFrom(x, nextTagIs("value", x, off))

-----------------------------------------------------------------------------
(* Requests and responses *)

\* The parameters of a call: those of an array, or the one value
ParamsOf(params) == CASE params[1] = "array" -> params[2]
                      [] params[1] = "invalid" -> <<>>
                      [] OTHER -> <<params>>

\* XmlRpcClient::generateRequest
generateRequest(method, params) ==
  In("methodName", <<Word(method)>>)
    \o IF params = Invalid THEN <<>>
       ELSE In("params", FlattenSeq([i \in DOMAIN ParamsOf(params) |->
                                       In("param", toXml(ParamsOf(params)[i]))]))

\* The same by another client's library: the type of a string, and spaces between tags
RECURSIVE OtherXml(_)
OtherXml(v) ==
  LET All(F(_)) == FlattenSeq([i \in DOMAIN v[2] |-> F(v[2][i])])
      Member(m) == <<Space>> \o In("member", <<Space>> \o In("name", <<Word(m[1])>>)
                                             \o <<Space>> \o OtherXml(m[2]))
      Value == CASE v = Str(<<>>) -> <<Empty("string")>>
                 [] v[1] = "string" /\ v # Str(<<>>) -> In("string", xmlEncode(v[2]))
                 [] v[1] = "int"    -> In("int", v[2])
                 [] v[1] = "array"  -> In("array", <<Space>> \o In("data", <<Space>> \o All(OtherXml)))
                 [] v[1] = "struct" -> In("struct", All(Member) \o <<Space>>)
                 [] OTHER -> <<Empty(v[1])>>
  IN  <<Space>> \o In("value", Value) \o <<Space>>

OtherRequest(method, params) ==
  In("methodName", <<Word(method)>>)
    \o In("params", FlattenSeq([i \in DOMAIN ParamsOf(params) |->
                                  <<Space>> \o In("param", OtherXml(ParamsOf(params)[i]))]))

\* XmlRpcServer::parseRequest: a parameter that is no value is invalid.
RECURSIVE Parameters(_, _, _)
MoreParameters(x, i, read, v) ==
  Parameters(x, SkipEnd("param", x, Max({i, v.next})), Append(read, v.val))
ParameterAt(x, i, read) ==
  IF i = 0 THEN read
  ELSE MoreParameters(x, i, read, IF x[i - 1] = Empty("param") THEN [val |-> Str(<<>>), next |-> i]
                                  ELSE fromXml(x, i))
Parameters(x, off, read) == ParameterAt(x, nextTagIs("param", x, off), read)

ArrayOf(s) == IF s = <<>> THEN Invalid ELSE Array(s)
RequestAt(x, name, list) ==
  [method |-> x[name][2],
   params |-> ArrayOf(IF list > Len(x) THEN <<>> ELSE Parameters(x, list, <<>>))]
parseRequest(x) ==
  LET name == findTag("methodName", x, 1) IN RequestAt(x, name, findTag("params", x, name))

Fault(code, text) == Struct(<< <<"faultCode", Number(code)>>, <<"faultString", Str(text)>> >>)

Response(v) == In("methodResponse", In("params", In("param", <<Space>> \o toXml(v) \o <<Space>>)))
FaultResponse(v) == In("methodResponse", In("fault", <<Space>> \o toXml(v) \o <<Space>>))

\* XmlRpcClient::parseResponse
AnswerOf(param, v) == [ok |-> v.next # 0, fault |-> param = 0, val |-> v.val]
AnswerAt(x, param, fault) ==
  AnswerOf(param, IF param + fault = 0 THEN NotRead ELSE fromXml(x, IF param # 0 THEN param ELSE fault))
parseResponse(x) ==
  LET off == findTag("methodResponse", x, 1)
      params == nextTagIs("params", x, off)
      param == IF params = 0 THEN 0 ELSE nextTagIs("param", x, params)
  IN  AnswerAt(x, param, nextTagIs("fault", x, off))

-----------------------------------------------------------------------------
(* The methods.  What executing gives: the methods that ran with their arguments, and a
   value or, if an exception was thrown, its text.                           *)

Result(m, arg, val) == [ran |-> << <<m, arg>> >>, thrown |-> FALSE, val |-> val]
Thrown(ran, text)   == [ran |-> ran, thrown |-> TRUE, val |-> Fault(-1, <<Word(text)>>)]

\* std::string(params[0]): what is invalid becomes an empty string, another type is thrown.
Arg(params) ==
  IF params[1] = "array" /\ params[2] # <<>> /\ params[2][1] # Invalid
  THEN IF params[2][1][1] = "string" THEN params[2][1] ELSE Invalid
  ELSE IF params[1] \in {"array", "invalid"} THEN Str(<<>>) ELSE Invalid

Adding == {"log.add_record", "log.update_record"}
Methods == Adding \cup {"log.get_record", "log.list_methods"}

\* The list of the methods: what it says of two of them
mlist ==
  Array([i \in 1..2 |-> Struct(<< <<"help", Str(<<Word("returns"), Num(i)>>)>>,
                                  <<"name", Str(<<Word("log."), Num(i)>>)>>,
                                  <<"signature", Str(<<Word("s:s")>>)>> >>)])

\* executeMethod: a method without a result gives an empty string.
log_get_record(arg) == IF Record[arg] = <<>> THEN <<Word("NO RECORD")>> ELSE Record[arg]
ExecuteWith(m, arg) ==
  CASE m = "log.list_methods" -> Result(m, <<>>, mlist)
    [] m # "log.list_methods" /\ arg = Invalid -> Thrown(<<>>, "type error")
    [] m = "log.get_record" /\ arg # Invalid -> Result(m, arg[2], Str(log_get_record(arg[2])))
    [] OTHER -> Result(m, arg[2], Str(<<>>))
executeMethod(m, params) == ExecuteWith(m, Arg(params))

NamesOf(c) == IF c[1] = "struct" THEN {c[2][i][1] : i \in DOMAIN c[2]} ELSE {}
Member(c, name) == c[2][CHOOSE i \in DOMAIN c[2] : c[2][i][1] = name][2]
IsCall(c) == {"methodName", "params"} \subseteq NamesOf(c)

\* executeMulticall: the calls in turn, each with a result or a fault.  A name that is no
\* string is thrown out of all of them, after those before it have run.
Named(c) == IsCall(c) => Member(c, "methodName")[1] = "string"
CallName(c) == Member(c, "methodName")[2][1][2]
Failed(text) == [ran |-> <<>>, thrown |-> TRUE, val |-> Fault(-1, text)]
Did(c) ==
  CASE ~IsCall(c) -> Failed(<<Word("expected a struct")>>)
    [] IsCall(c) /\ CallName(c) \notin Methods -> Failed(<<Word(CallName(c)), Word("unknown method name")>>)
    [] OTHER -> executeMethod(CallName(c), Member(c, "params"))

RanOf(did)    == FlattenSeq([i \in DOMAIN did |-> did[i].ran])
ValuesOf(did) == [i \in DOMAIN did |-> IF did[i].thrown THEN did[i].val ELSE Array(<<did[i].val>>)]
AllDone(did)  == [ran |-> RanOf(did), thrown |-> FALSE, val |-> Array(ValuesOf(did))]

DoCalls(calls, unnamed) ==
  IF unnamed = {} THEN AllDone([i \in DOMAIN calls |-> Did(calls[i])])
  ELSE Thrown(RanOf([i \in 1..(Min(unnamed) - 1) |-> Did(calls[i])]), "type error")

executeMulticall(params) ==
  LET list == IF params[1] = "array" /\ Len(params[2]) = 1 THEN params[2][1] ELSE Invalid
  IN  IF list[1] # "array" THEN Thrown(<<>>, "expected an array")
      ELSE DoCalls(list[2], {i \in DOMAIN list[2] : ~Named(list[2][i])})

\* executeRequest, without the text of the response
execute(m, params) ==
  CASE m \in Methods -> executeMethod(m, params)
    [] m = "system.multicall" -> executeMulticall(params)
    [] OTHER -> [ran |-> <<>>, thrown |-> TRUE,
                 val |-> Fault(-1, <<Word(m), Word("unknown method name")>>)]

-----------------------------------------------------------------------------
VARIABLES
  sent,         \* the call: its method and parameters
  lib,          \* the client's library, the program's own or another
  phase,        \* "none", "calling", "request", "response", "returned"
  wire,         \* the text under way
  ran,          \* history: the methods the server has run, with their arguments
  answer        \* what the client is given

rpcVars == <<sent, lib, phase, wire, ran, answer>>

NoAnswer == [ok |-> FALSE, fault |-> FALSE, val |-> Invalid]

Call(m, params) == [method |-> m, params |-> params]
InMulticall(m, params) == Struct(<< <<"methodName", Str(<<Word(m)>>)>>, <<"params", params>> >>)

\* The text goes alone, or in a multicall behind a call that asks for a record.
TextCalls ==
  LET m == IF db[1] = EmptyRec THEN "log.add_record" ELSE "log.update_record"
      text == Array(<<Str(TextOf(source[1]))>>)
  IN  {Call(m, text),
       Call("system.multicall",
            Array(<<Array(<<InMulticall("log.get_record", Array(<<Str(<<Char>>)>>)),
                            InMulticall(m, text)>>)>>))}

RpcInit ==
  /\ AdifInit
  /\ lib \in IF call THEN {"own", "other"} ELSE {"own"}
  /\ phase = IF call THEN "calling" ELSE "none"
  /\ sent \in IF ~call THEN {Call("none", Invalid)}
              ELSE IF source # <<>> THEN TextCalls ELSE OtherCalls
  /\ wire = <<>> /\ ran = <<>> /\ answer = NoAnswer

Send ==
  /\ phase = "calling" /\ phase' = "request"
  /\ wire' = IF lib = "own" THEN generateRequest(sent.method, sent.params)
             ELSE OtherRequest(sent.method, sent.params)
  /\ UNCHANGED <<adifVars, sent, lib, ran, answer>>

\* The server executes the request.  The handler of a text runs once it has been posted.
Serve ==
  /\ phase = "request" /\ phase' = "response"
  /\ \E req \in {parseRequest(wire)} : \E did \in {execute(req.method, req.params)} :
       LET texts == SelectSeq(did.ran, LAMBDA r : r[1] \in Adding)
       IN
         /\ ran' = did.ran
         /\ wire' = IF did.thrown THEN FaultResponse(did.val) ELSE Response(did.val)
         /\ IF texts = <<>> THEN UNCHANGED adifVars ELSE Arrives(Last(texts)[2])
  /\ UNCHANGED <<sent, lib, answer>>

Receive ==
  /\ phase = "response" /\ phase' = "returned"
  /\ answer' = parseResponse(wire) /\ wire' = <<>>
  /\ UNCHANGED <<adifVars, sent, lib, ran>>

Next ==
  \/ Send \/ Serve \/ Receive
  \/ (WriteRecord \/ OpenFile \/ Read) /\ UNCHANGED rpcVars
  \/ Done /\ phase \in {"none", "returned"} /\ UNCHANGED rpcVars

\* Send, Serve or Receive, the only steps that change the phase: one of them is enabled
\* until the call has returned.
CallGoesOn == phase \notin {"none", "returned"} /\ phase' \in {"request", "response", "returned"}

Spec == RpcInit /\ [][Next]_<<adifVars, rpcVars>> /\ WF_adifVars(Read) /\ WF_phase(CallGoesOn)

-----------------------------------------------------------------------------
(* Properties *)

\* Every text that is read comes to its end, that of a corrupt record, too, and every call
\* returns.
Ends == doing # "write" ~> (doing = "done" /\ phase \in {"none", "returned"})

\* The server runs the methods that were called, in their order and with the arguments that
\* were given, and the client is given their results, or the fault, whichever library wrote
\* the call and whatever markup is in the strings.  What cannot be told from the text is
\* whether one parameter was given alone or in an array, and none as an empty array.
CallIsCarried ==
  phase = "returned" =>
    \E did \in {execute(sent.method, ArrayOf(ParamsOf(sent.params)))} :
      ran = did.ran /\ answer = [ok |-> TRUE, fault |-> did.thrown, val |-> did.val]
=============================================================================
