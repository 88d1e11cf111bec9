----------------------------- MODULE MCAdifText -----------------------------
(* The values of AdifText and RpcText for TLC                              *)
EXTENDS RpcText

MCLetters == {Char, Amp, Entity(Lt)}

MCValues ==
  [CALL |-> {<<>>, <<Char, Amp, Char>>},
   TIME_ON |-> {<<>>, <<Char>>},
   NOTES |-> {<<>>, <<Lt, Amp, Entity(Lt)>>, <<Tag("CALL", 1), Char>>, <<Char, Eor, Char>>,
              <<Tag("STATION_CALLSIGN", 1), eor, Char>>},
   STATION_CALLSIGN |-> {<<>>, <<Char>>}]

MCForeign ==
  {[name |-> "COMMENT", value |-> <<>>], [name |-> "COMMENT", value |-> <<Char, Lt>>],
   [name |-> "SIG", value |-> <<Zero>>]}

MCRecord ==
  [arg \in {<<>>, <<Char>>, <<Zero>>} |->
     IF arg = <<Char>> THEN <<Tag("CALL", 1), Char, Tag("NOTES", 3), Amp, Lt, Char, Eor>> ELSE <<>>]

Get(arg) == InMulticall("log.get_record", Array(<<arg>>))
Calls(s) == Array(<<Array(s)>>)

\* No parameter, one of another type, none in an array, several; a call of no method; and
\* multicalls in which some of the calls go wrong.
MCOtherCalls ==
  {Call("log.get_record", params) :
     params \in {Invalid, Array(<<>>), Str(<<Char>>), Str(<<Zero>>), Nil,
                 Array(<<Str(<<>>), Number(1)>>), Array(<<Invalid, Str(<<Char>>)>>),
                 Array(<<Array(<<>>)>>)}}
  \cup {Call("log.list_methods", Invalid), Call("log.none", Nil), Call("log.add_record", Number(1))}
  \cup {Call("system.multicall", params) :
          params \in {Invalid, Array(<<Number(1)>>), Array(<<Array(<<>>), Nil>>), Calls(<<>>),
                      Calls(<<Get(Str(<<Char>>)), InMulticall("log.none", Array(<<>>)), Nil,
                              Get(Number(1)), InMulticall("log.get_record", Number(1)),
                              Struct(<< <<"params", Nil>> >>), Get(Str(<<Zero>>))>>),
                      Calls(<<Get(Str(<<Char>>)),
                              Struct(<< <<"methodName", Number(1)>>, <<"params", Nil>> >>),
                              Get(Str(<<Zero>>))>>)}}
=============================================================================
