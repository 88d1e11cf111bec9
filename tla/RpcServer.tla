----------------------------- MODULE RpcServer -----------------------------
(***************************************************************************)
(* The XML-RPC server of fllog: the dispatcher's loop on the xml thread    *)
(* (XmlRpcDispatch), the listening socket (XmlRpcServer) and the           *)
(* connections (XmlRpcServerConnection).                                   *)
(*                                                                         *)
(* A round of the loop takes the sources that select reports, from a copy  *)
(* of the list, and handles them one after the other; each handler reads   *)
(* and writes without blocking and says what its source waits for next.    *)
(***************************************************************************)
EXTENDS RpcSocket

CONSTANT MaxCrashes     \* bound: ends of the server's process

ASSUME CrashAssumption == MaxCrashes \in Nat

VARIABLES
  alive,        \* the server's process runs
  sources,      \* XmlRpcDispatch::_sources: the sources and what they wait for
  round,        \* the copy of the list that is gone through, and what select has set
  conn,         \* the XmlRpcServerConnection of each accepted connection
  executed,     \* history: the calls whose method was executed
  crashes       \* counter of the bound

serverVars == <<alive, sources, round, conn, executed, crashes>>

Listener == <<"listener", 0>>
Source   == Conn \cup {Listener}
Waits    == {"read", "write"}

\* keep is _keepAlive; written is _bytesWritten.  A deleted object is "closed".
Connection == [state : {"READ_HEADER", "READ_REQUEST", "WRITE_RESPONSE", "closed"},
               header : Seq(Token), request : Seq(Token), response : Seq(Token),
               written : Nat, keep : BOOLEAN]

NewConnection == [state |-> "READ_HEADER", header |-> <<>>, request |-> <<>>,
                  response |-> <<>>, written |-> 0, keep |-> TRUE]
NoConnection  == [NewConnection EXCEPT !.state = "closed"]

ServerInit ==
  /\ alive = TRUE
  /\ sources = <<[src |-> Listener, mask |-> "read"]>>
  /\ round = <<>>
  /\ conn = [k \in Conn |-> NoConnection]
  /\ executed = <<>>
  /\ crashes = 0

-----------------------------------------------------------------------------
(* XmlRpcServerConnection::handleEvent: each operator takes a connection and
   gives the one the member function leaves; text and eof are what nbRead
   finds.  A function that returns false leaves the state "closed".        *)

Close(c) == [c EXCEPT !.state = "closed"]

\* Mutated: no connection is kept, whatever the client asks for.
readHeaderCloses(c, text, eof) ==
  LET h == c.header \o text
  IN  CASE HeaderEnds(h) = {} /\ eof  -> Close(c)
        [] HeaderEnds(h) = {} /\ ~eof -> [c EXCEPT !.header = h]
        [] HeaderEnds(h) # {} /\ ~HasHead(h) -> Close(c)
        [] OTHER -> [c EXCEPT !.header = <<>>, !.request = AfterHeader(h),
                              !.keep = FALSE, !.state = "READ_REQUEST"]

\* The header is read; it says whether the connection is to be kept.
readHeader(c, text, eof) ==
  LET h == c.header \o text
  IN  CASE HeaderEnds(h) = {} /\ eof  -> Close(c)
        [] HeaderEnds(h) = {} /\ ~eof -> [c EXCEPT !.header = h]
        [] HeaderEnds(h) # {} /\ ~HasHead(h) -> Close(c)
        [] OTHER -> [c EXCEPT !.header = <<>>, !.request = AfterHeader(h),
                              !.keep = Head(h).call[1] \notin OldHttp,
                              !.state = "READ_REQUEST"]

\* Mutated: the request is executed when its body has begun to arrive.
readRequestEarly(c, text, eof) ==
  [c EXCEPT !.request = @ \o text, !.state = "WRITE_RESPONSE"]

\* The request is whole when it has Content-length characters.
readRequest(c, text, eof) ==
  LET r == IF Len(c.request) < BodyLen THEN c.request \o text ELSE c.request
  IN  CASE Len(r) < BodyLen /\ eof  -> Close(c)
        [] Len(r) < BodyLen /\ ~eof -> [c EXCEPT !.request = r]
        [] OTHER -> [c EXCEPT !.request = r, !.state = "WRITE_RESPONSE"]

\* handleEvent up to writeResponse.  Only one of the two functions finds text.
Received(c, text, eof) ==
  LET h == IF c.state = "READ_HEADER" THEN readHeader(c, text, eof) ELSE c
  IN  IF h.state = "READ_REQUEST"
      THEN readRequest(h, IF c.state = "READ_HEADER" THEN <<>> ELSE text, eof)
      ELSE h

\* Mutated: the request is executed each time the rest of its response is written.
RunsAgain(c) == c.state = "WRITE_RESPONSE"

\* writeResponse executes the request when there is no response yet.
Runs(c) == c.state = "WRITE_RESPONSE" /\ c.response = <<>>

\* executeRequest: the call whose text the request is, or a fault
CallOf(request) ==
  IF Len(request) >= BodyLen
     /\ \A i \in 1..BodyLen : request[i] = [call |-> request[1].call, part |-> "body"]
  THEN request[1].call ELSE NoCall

\* Mutated: the response is not cleared.
SentKeeps(c, n) ==
  LET d == IF c.written + n = Len(c.response)
           THEN [c EXCEPT !.header = <<>>, !.request = <<>>, !.state = "READ_HEADER"]
           ELSE [c EXCEPT !.written = @ + n]
  IN  IF c.keep THEN d ELSE Close(d)

\* writeResponse: nbWrite has taken n tokens.  The connection is monitored on if
\* it is to be kept, whether or not everything has been written.
Sent(c, n) ==
  LET all == c.written + n = Len(c.response)
      d == IF all THEN [NewConnection EXCEPT !.keep = c.keep]
           ELSE [c EXCEPT !.written = @ + n]
  IN  IF c.keep THEN d ELSE Close(d)

-----------------------------------------------------------------------------
(* XmlRpcDispatch::waitForAndProcessEvents *)

Ready(entry) ==
  IF entry.src = Listener THEN \E k \in Conn : ends[k].server = "backlog"
  ELSE \/ entry.mask = "read" /\ (up[entry.src] # <<>> \/ ends[entry.src].client = "closed")
       \/ entry.mask = "write" /\ (Len(down[entry.src]) < Capacity
                                   \/ ends[entry.src].client = "closed")

\* The round begins with a copy of the list.
CopyOf(list, set(_)) == [i \in DOMAIN list |-> [src |-> list[i].src, set |-> set(list[i])]]

\* Entry i of the copy is the one to be handled next: select has set it, and none before.
IsNext(i) == i \in DOMAIN round /\ round[i].set /\ \A j \in 1..(i - 1) : ~round[j].set

\* The rest of the copy after entry i has been handled; nothing once no more is set.
RestAfter(i) ==
  IF \E j \in (i + 1)..Len(round) : round[j].set THEN SubSeq(round, i + 1, Len(round)) ELSE <<>>

\* select sets what is ready.  A signal may interrupt it: then every bit of its
\* sets is still on, and all sources are handled.
Select ==
  /\ alive /\ round = <<>>
  /\ \/ \E i \in DOMAIN sources : Ready(sources[i]) /\ round' = CopyOf(sources, Ready)
     \/ LET All(entry) == TRUE IN sources # <<>> /\ round' = CopyOf(sources, All)
  /\ UNCHANGED <<sockVars, alive, sources, conn, executed, crashes>>

\* removeSource: the list without the entry of the source
Without(list, src) ==
  LET i == CHOOSE i \in DOMAIN list : list[i].src = src
  IN  SubSeq(list, 1, i - 1) \o SubSeq(list, i + 1, Len(list))

setSourceEvents(list, src, mask) ==
  [i \in DOMAIN list |-> IF list[i].src = src THEN [src |-> src, mask |-> mask] ELSE list[i]]

\* XmlRpcServer::acceptConnection
AcceptConnection ==
  /\ alive
  /\ \E i \in DOMAIN round : IsNext(i) /\ round[i].src = Listener /\ round' = RestAfter(i)
  /\ \/ \E k \in Conn :
          /\ ends[k].server = "backlog"
          /\ ends' = [ends EXCEPT ![k].server = "open"]
          /\ conn' = [conn EXCEPT ![k] = NewConnection]
          /\ sources' = Append(sources, [src |-> k, mask |-> "read"])
     \/ /\ \A k \in Conn : ends[k].server # "backlog"
        /\ UNCHANGED <<ends, conn, sources>>
  /\ UNCHANGED <<listening, up, down, alive, executed, crashes>>

\* Mutated: the source is removed and its connection is not closed.
HandledLeak(k, c) ==
  /\ conn' = [conn EXCEPT ![k] = c]
  /\ IF c.state = "closed" THEN sources' = Without(sources, k) /\ UNCHANGED ends
     ELSE /\ sources' = setSourceEvents(sources, k,
                          IF c.state = "WRITE_RESPONSE" THEN "write" ELSE "read")
          /\ UNCHANGED ends

\* The dispatcher's part after the handler has left connection k as c
Handled(k, c) ==
  /\ conn' = [conn EXCEPT ![k] = c]
  /\ IF c.state = "closed"
     THEN sources' = Without(sources, k) /\ ends' = [ends EXCEPT ![k].server = "closed"]
     ELSE /\ sources' = setSourceEvents(sources, k,
                          IF c.state = "WRITE_RESPONSE" THEN "write" ELSE "read")
          /\ UNCHANGED ends

\* XmlRpcServerConnection::handleEvent
Handle(k) ==
  \E c \in {Received(conn[k], up[k], ends[k].client = "closed")} :
    \E d \in {IF Runs(c) THEN [c EXCEPT !.response = Message(CallOf(c.request), ReplyLen),
                                     !.written = 0] ELSE c} :
      /\ up' = IF conn[k].state \in {"READ_HEADER", "READ_REQUEST"}
               THEN [up EXCEPT ![k] = <<>>] ELSE up
      /\ executed' = IF Runs(c) THEN Append(executed, CallOf(c.request)) ELSE executed
      /\ IF d.state # "WRITE_RESPONSE" THEN Handled(k, d) /\ UNCHANGED down
         ELSE IF ends[k].client = "closed"
         THEN \* the peer is gone: an error, or written to nobody
              /\ Handled(k, Close(d)) \/ Handled(k, Sent(d, Len(d.response) - d.written))
              /\ UNCHANGED down
         ELSE \E rest \in {SubSeq(d.response, d.written + 1, Len(d.response))} :
              \E n \in Accepted(rest, down[k]) :
                /\ down' = [down EXCEPT ![k] = @ \o SubSeq(rest, 1, n)]
                /\ Handled(k, Sent(d, n))

\* A connection of the round is handled.
HandleConnection ==
  /\ alive
  /\ \E i \in DOMAIN round, k \in Conn :
       /\ IsNext(i) /\ round[i].src = k /\ round' = RestAfter(i)
       /\ Handle(k)
  /\ UNCHANGED <<listening, alive, crashes>>

-----------------------------------------------------------------------------
(* The process *)

\* fllog ends, or crashes: the kernel closes its sockets, and what it has not
\* sent may be lost.
ServerDies ==
  /\ alive /\ crashes < MaxCrashes
  /\ crashes' = crashes + 1
  /\ alive' = FALSE /\ listening' = FALSE
  /\ sources' = <<>> /\ round' = <<>>
  /\ conn' = [k \in Conn |-> NoConnection]
  /\ ends' = [k \in Conn |-> IF ends[k].server \in {"backlog", "open"}
                             THEN [ends[k] EXCEPT !.server = "closed"] ELSE ends[k]]
  /\ \E lost \in 0..Capacity :
       down' = [k \in Conn |-> IF ends[k].server # "open" THEN down[k]
                               ELSE SubSeq(down[k], 1, Len(down[k]) - lost)]
  /\ UNCHANGED <<up, executed>>

\* start_server: if the port is in use, bindAndListen adds no source, and the xml
\* thread's loop calls work again and again, which returns at once.
ServerStarts ==
  /\ ~alive
  /\ alive' = TRUE
  /\ \/ /\ listening' = TRUE
        /\ sources' = <<[src |-> Listener, mask |-> "read"]>>
     \/ /\ listening' = FALSE
        /\ sources' = <<>>
  /\ UNCHANGED <<ends, up, down, round, conn, executed, crashes>>

ServerStep == Select \/ AcceptConnection \/ HandleConnection
=============================================================================
