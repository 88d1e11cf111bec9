----------------------------- MODULE RpcSocket -----------------------------
(***************************************************************************)
(* The sockets between XML-RPC clients and the server, as XmlRpcSocket and *)
(* XmlRpcSource use them: non-blocking, with buffers that fill up, and an  *)
(* end of file after the other side has closed.                            *)
(*                                                                         *)
(* A request or response is a sequence of tokens: the head (with the       *)
(* Content-length and Connection lines), the blank line, and the body.     *)
(***************************************************************************)
EXTENDS Integers, Sequences, FiniteSets

CONSTANTS
  Clients,
  OldHttp,      \* the clients that ask with HTTP/1.0: the server does not keep
                \* their connections
  MaxCalls,     \* bound: calls a client makes
  MaxConns,     \* bound: connections a client opens
  BodyLen,      \* tokens of a request's body: the Content-length
  ReplyLen,     \* tokens of a response's body
  Capacity      \* tokens a socket buffer holds

ASSUME SocketAssumption ==
  /\ OldHttp \subseteq Clients
  /\ {MaxCalls, MaxConns} \subseteq Nat
  /\ {BodyLen, ReplyLen, Capacity} \subseteq Nat \ {0}

\* The n-th call of a client, and connection k of a client
CallId == Clients \X (1..MaxCalls)
Conn   == Clients \X (1..MaxConns)

\* A fault is the answer to a text that is not a call.
NoCall == <<"fault", 0>>

Token == [call : CallId \cup {NoCall}, part : {"head", "blank", "body"}]

\* The text of a message: the head, the blank line and len tokens of body
Message(call, len) ==
  [i \in 1..(len + 2) |->
     [call |-> call, part |-> IF i = 1 THEN "head" ELSE IF i = 2 THEN "blank" ELSE "body"]]

\* A token that has this part is at position i.
HasPart(text, i, part) == i \in DOMAIN text /\ text[i].part = part

\* The end of the header: a blank line with something after it (the parsers look
\* for it only up to the last character but one).
HeaderEnds(text) == {i \in 1..(Len(text) - 1) : HasPart(text, i, "blank")}

\* What follows the first header's end
AfterHeader(text) ==
  LET i == CHOOSE i \in HeaderEnds(text) : \A j \in HeaderEnds(text) : i <= j
  IN  SubSeq(text, i + 1, Len(text))

HasHead(text) ==
  \E i \in DOMAIN text : /\ HasPart(text, i, "head")
                         /\ \A j \in HeaderEnds(text) : i < j

VARIABLES
  listening,    \* the server has bound its port
  ends,         \* who has which end of a connection
  up, down      \* the data on the way to the server and to the client

sockVars == <<listening, ends, up, down>>

\* none: not connected; backlog: connected, not accepted yet
EndState == [client : {"none", "open", "closed"},
             server : {"none", "backlog", "open", "closed"}]

SockInit ==
  /\ listening = TRUE
  /\ ends = [k \in Conn |-> [client |-> "none", server |-> "none"]]
  /\ up = [k \in Conn |-> <<>>] /\ down = [k \in Conn |-> <<>>]

SockType ==
  /\ listening \in BOOLEAN
  /\ ends \in [Conn -> EndState]
  /\ up \in [Conn -> Seq(Token)] /\ down \in [Conn -> Seq(Token)]

\* nbWrite: as many tokens as there is room for, or fewer if the kernel takes less
Accepted(rest, buffer) ==
  LET room == Capacity - Len(buffer)
      most == IF Len(rest) < room THEN Len(rest) ELSE room
  IN  IF most <= 0 THEN {0} ELSE 1..most
=============================================================================
