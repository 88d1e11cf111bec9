----------------------------- MODULE RpcClient -----------------------------
(***************************************************************************)
(* The XML-RPC client (XmlRpcClient): execute sends a request over the     *)
(* connection it keeps, opening one if there is none, and waits for the    *)
(* response in a dispatcher of its own.  If the kept connection turns out  *)
(* to be closed the request is sent once more over a new one.              *)
(***************************************************************************)
EXTENDS RpcSocket

CONSTANT MaxTimeouts    \* bound: timeouts of execute

ASSUME TimeoutAssumption == MaxTimeouts \in Nat

VARIABLES
  client,       \* the XmlRpcClient object of each client
  called,       \* the number of calls each client has made
  inCall,       \* _executing: the client is in execute
  result,       \* what the latest execute returned, and for which call
  timedOut,     \* history: the calls that ended by their timeout
  timeouts      \* counter of the bound

clientVars == <<client, called, inCall, result, timedOut, timeouts>>

\* nr is the number of the connection, 0 without a socket; monitored says that the
\* object is a source of its dispatcher.  The request is always the one of the
\* current call, and is left out.
Client == [state : {"NO_CONNECTION", "WRITE_REQUEST", "READ_HEADER",
                    "READ_RESPONSE", "IDLE"},
           nr : 0..MaxConns, opened : 0..MaxConns, eof : BOOLEAN, attempts : Nat,
           written : Nat, header : Seq(Token), response : Seq(Token),
           monitored : BOOLEAN]

Outcome == [ok : {FALSE}, call : {NoCall}] \cup [ok : {TRUE}, call : CallId \cup {NoCall}]
Failed  == [ok |-> FALSE, call |-> NoCall]

ClientInit ==
  /\ client = [c \in Clients |->
       [state |-> "NO_CONNECTION", nr |-> 0, opened |-> 0, eof |-> FALSE,
        attempts |-> 0, written |-> 0, header |-> <<>>, response |-> <<>>,
        monitored |-> FALSE]]
  /\ called = [c \in Clients |-> 0]
  /\ inCall = [c \in Clients |-> FALSE]
  /\ result = [c \in Clients |-> Failed]
  /\ timedOut = {}
  /\ timeouts = 0

Request(c) == Message(<<c, called[c]>>, BodyLen)

-----------------------------------------------------------------------------
(* The socket.  ConnectTo and CloseSocket are about one connection; the ends of
   the sockets after a step are one function, in which both may occur.     *)

\* connect: refused at once (FALSE); or a connection in the server's backlog, or,
\* if nobody listens, one that will turn out to be closed
Connects == {<<TRUE, IF listening THEN "backlog" ELSE "closed">>, <<FALSE, "none">>}
            \ (IF listening THEN {<<FALSE, "none">>} ELSE {})

\* The ends after connection old (0: none) was closed and new (0: none) was opened
EndsAfter(c, old, new, server) ==
  [k \in Conn |->
     CASE new # 0 /\ k = <<c, new>> -> [client |-> "open", server |-> server]
       [] old # 0 /\ k = <<c, old>> -> [ends[k] EXCEPT !.client = "closed"]
       [] OTHER -> ends[k]]

\* setupConnection with a new connection: WRITE_REQUEST, or the failure of doConnect
Connecting(x, ok) ==
  IF ok THEN [x EXCEPT !.state = "WRITE_REQUEST", !.nr = x.opened + 1,
                       !.opened = @ + 1, !.eof = FALSE, !.written = 0,
                       !.monitored = TRUE]
  ELSE [x EXCEPT !.state = "NO_CONNECTION", !.nr = 0, !.eof = FALSE, !.monitored = FALSE]

\* execute returns with this object and value.
Returns(c, x, res) ==
  /\ client' = [client EXCEPT ![c] = x]
  /\ inCall' = [inCall EXCEPT ![c] = FALSE]
  /\ result' = [result EXCEPT ![c] = res]

Continues(c, x) ==
  /\ client' = [client EXCEPT ![c] = x]
  /\ UNCHANGED <<inCall, result>>

\* handleEvent returns 0: the source is not monitored any more, the dispatcher has
\* nothing left to wait for, and execute fails.
Stops(c, x) == Returns(c, [x EXCEPT !.monitored = FALSE], Failed)

-----------------------------------------------------------------------------
(* execute *)

\* Mutated: whatever its state, a connection is used again.
KeepsAny(x) == x.nr # 0 /\ ~x.eof

\* setupConnection keeps an idle connection that has not been seen to end.
Keeps(x) == x.state = "IDLE" /\ ~x.eof

Execute(c) ==
  /\ ~inCall[c] /\ called[c] < MaxCalls /\ client[c].opened + 2 <= MaxConns
  /\ called' = [called EXCEPT ![c] = @ + 1]
  /\ LET x == [client[c] EXCEPT !.attempts = 0]
     IN  IF Keeps(x)
         THEN /\ client' = [client EXCEPT ![c] =
                   [x EXCEPT !.state = "WRITE_REQUEST", !.written = 0, !.monitored = TRUE]]
              /\ inCall' = [inCall EXCEPT ![c] = TRUE]
              /\ UNCHANGED <<ends, result>>
         ELSE \E to \in Connects :
              /\ ends' = EndsAfter(c, x.nr, IF to[1] THEN x.opened + 1 ELSE 0, to[2])
              /\ client' = [client EXCEPT ![c] = Connecting(x, to[1])]
              /\ inCall' = [inCall EXCEPT ![c] = to[1]]
              /\ result' = IF to[1] THEN result ELSE [result EXCEPT ![c] = Failed]
  /\ UNCHANGED <<listening, up, down, timedOut, timeouts>>

\* The time given to execute has passed: everything is left as it is.
Timeout(c) ==
  /\ inCall[c] /\ timeouts < MaxTimeouts
  /\ timeouts' = timeouts + 1
  /\ timedOut' = timedOut \cup {<<c, called[c]>>}
  /\ Returns(c, client[c], Failed)
  /\ UNCHANGED <<sockVars, called>>

\* The application closes the connection.
CloseClient(c) ==
  /\ ~inCall[c] /\ client[c].nr # 0
  /\ ends' = EndsAfter(c, client[c].nr, 0, "none")
  /\ client' = [client EXCEPT ![c].state = "NO_CONNECTION", ![c].nr = 0,
                              ![c].monitored = FALSE]
  /\ UNCHANGED <<listening, up, down, called, inCall, result, timedOut, timeouts>>

-----------------------------------------------------------------------------
(* handleEvent *)

\* parseResponse
CallAnswered(text) ==
  IF Len(text) >= ReplyLen
     /\ \A i \in 1..ReplyLen : text[i] = [call |-> text[1].call, part |-> "body"]
  THEN [ok |-> TRUE, call |-> text[1].call] ELSE Failed

\* readResponse
ReadResponse(c, x, text, eof) ==
  LET r == IF Len(x.response) < ReplyLen THEN x.response \o text ELSE x.response
      y == [x EXCEPT !.response = r, !.eof = eof]
  IN  CASE Len(r) < ReplyLen /\ eof  -> Stops(c, y)
        [] Len(r) < ReplyLen /\ ~eof -> Continues(c, y)
        [] OTHER -> Returns(c, [y EXCEPT !.state = "IDLE", !.monitored = FALSE,
                                         !.response = <<>>], CallAnswered(r))

\* parseHeader
ParseHeader(c, x, eof) ==
  LET y == [x EXCEPT !.eof = eof]
  IN  CASE HeaderEnds(x.header) = {} /\ eof  -> Stops(c, y)
        [] HeaderEnds(x.header) = {} /\ ~eof -> Continues(c, y)
        [] HeaderEnds(x.header) # {} /\ ~HasHead(x.header) -> Stops(c, y)
        [] OTHER -> ReadResponse(c, [y EXCEPT !.header = <<>>, !.state = "READ_RESPONSE",
                                              !.response = AfterHeader(x.header)], <<>>, eof)

\* Mutated: a closed connection is waited on.
RetryWaits(c, x) == Continues(c, x) /\ UNCHANGED ends

\* An end of file, or an error, before the first character: the server may have
\* closed a kept connection, so the request is sent once more over a new one.
Retry(c, x) ==
  IF x.attempts > 0
  THEN Stops(c, [x EXCEPT !.attempts = @ + 1, !.eof = TRUE]) /\ UNCHANGED ends
  ELSE \E to \in Connects :
       LET y == Connecting([x EXCEPT !.attempts = 1], to[1])
       IN  /\ ends' = EndsAfter(c, x.nr, IF to[1] THEN x.opened + 1 ELSE 0, to[2])
           /\ IF to[1] THEN Continues(c, y) ELSE Stops(c, y)

\* readHeader
ReadHeader(c, x, text, eof) ==
  IF eof /\ x.header \o text = <<>> THEN Retry(c, x)
  ELSE ParseHeader(c, [x EXCEPT !.header = @ \o text], eof) /\ UNCHANGED ends

\* writeRequest, and reading at once if everything is written
WriteRequest(c, x, k) ==
  LET rest == SubSeq(Request(c), x.written + 1, Len(Request(c)))
      Written == [x EXCEPT !.state = "READ_HEADER", !.written = Len(Request(c)),
                           !.header = <<>>, !.response = <<>>]
  IN  IF ends[k].server = "closed"
      THEN /\ \/ Stops(c, x) /\ UNCHANGED ends
              \/ ReadHeader(c, Written, down[k], TRUE)
           /\ UNCHANGED up
      ELSE \E n \in Accepted(rest, up[k]) :
             /\ up' = [up EXCEPT ![k] = @ \o SubSeq(rest, 1, n)]
             /\ IF n = Len(rest) THEN ReadHeader(c, Written, down[k], FALSE)
                ELSE Continues(c, [x EXCEPT !.written = @ + n]) /\ UNCHANGED ends

\* XmlRpcClient::handleEvent; what is there to be read is read.
ClientEvent(c) ==
  /\ inCall[c]
  /\ LET x == client[c]
         k == <<c, x.nr>>
         eof == ends[k].server = "closed"
     IN  /\ \/ x.state = "WRITE_REQUEST" /\ WriteRequest(c, x, k)
            \/ x.state = "READ_HEADER" /\ ReadHeader(c, x, down[k], eof) /\ UNCHANGED up
            \/ x.state = "READ_RESPONSE" /\ ReadResponse(c, x, down[k], eof)
               /\ UNCHANGED <<up, ends>>
         /\ down' = IF x.state = "WRITE_REQUEST" /\ client'[c].state = "WRITE_REQUEST"
                    THEN down ELSE [down EXCEPT ![k] = <<>>]
  /\ UNCHANGED <<listening, called, timedOut, timeouts>>
=============================================================================
