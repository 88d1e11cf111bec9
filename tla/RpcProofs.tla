------------------------------ MODULE RpcProofs ------------------------------
(***************************************************************************)
(* Proofs about RpcTransport, for any number of clients, calls,            *)
(* connections, crashes and timeouts and for buffers and messages of any   *)
(* length.  The first part is about the dispatcher, which goes through a   *)
(* copy of its list (MInv); the second about the texts: what the two ends  *)
(* of a connection hold of a request and of its answer, and which call a   *)
(* connection may still execute (CInv).  The third is about XmlStrings,    *)
(* the strings in these texts: any string is read as it was written.  An   *)
(* induction over a string is made there over the numbers of its           *)
(* characters: there is no first one where it goes wrong (NoneIsLeast).    *)
(***************************************************************************)
EXTENDS RpcTransport, XmlStrings, SequenceTheorems, FiniteSetTheorems, WellFoundedInduction,
        TLAPS

\* A client inside a call has made one, is at work with it, and may still open a
\* connection if it has not tried again.
Busy(c) ==
  inCall[c] => /\ client[c].state \in {"WRITE_REQUEST", "READ_HEADER", "READ_RESPONSE"}
               /\ called[c] # 0
               /\ client[c].attempts = 0 => client[c].opened < MaxConns

\* A client without a socket knows that it has none; its socket is one it has opened.
HasSocket(c) == /\ client[c].state # "NO_CONNECTION" => client[c].nr # 0
                /\ client[c].nr <= client[c].opened

TInv == TypeOK /\ \A c \in Clients : Busy(c) /\ HasSocket(c)

-----------------------------------------------------------------------------
(* Sequences and texts *)

\* A part of a sequence is one over the same set.
LEMMA SubSeqIn ==
  ASSUME NEW S, NEW s \in Seq(S), NEW m \in Nat \ {0}, NEW n \in Int, n <= Len(s)
  PROVE  SubSeq(s, m, n) \in Seq(S)
<1>1. \A i \in m..n : s[i] \in S
  BY ElementOfSeq, LenProperties
<1> QED
  BY <1>1, SubSeqProperties

\* So are two of them, one after the other.
LEMMA ConcatIn ==
  ASSUME NEW S, NEW s \in Seq(S), NEW t \in Seq(S)
  PROVE  s \o t \in Seq(S)
BY ConcatProperties

\* And the empty one.
LEMMA EmptyIn == \A S : <<>> \in Seq(S)
OBVIOUS

\* A message is a text.
LEMMA MessageType ==
  ASSUME NEW call \in CallId \cup {NoCall}, NEW len \in Nat
  PROVE  Message(call, len) \in Seq(Token)
<1> DEFINE F(i) == [call |-> call,
                    part |-> IF i = 1 THEN "head" ELSE IF i = 2 THEN "blank" ELSE "body"]
<1>1. \A i \in 1..(len + 2) : F(i) \in Token
  BY DEF Token
<1>2. [i \in 1..(len + 2) |-> F(i)] \in [1..(len + 2) -> Token]
  BY <1>1
<1>3. len + 2 \in Nat
  OBVIOUS
<1>4. [i \in 1..(len + 2) |-> F(i)] \in Seq(Token)
  BY <1>1, <1>3, IsASeq
<1> QED
  BY <1>4 DEF Message

\* The least header's end exists, so that what follows it is a text.
LEMMA AfterHeaderType ==
  ASSUME NEW text \in Seq(Token), HeaderEnds(text) # {}
  PROVE  AfterHeader(text) \in Seq(Token)
<1>1. HeaderEnds(text) \in SUBSET Nat /\ \A i \in HeaderEnds(text) : i \in Nat
  BY LenProperties DEF HeaderEnds
<1>2. PICK x \in HeaderEnds(text) : \A y \in HeaderEnds(text) : ~(<<y, x>> \in OpToRel(<, Nat))
  BY <1>1, WFMin, NatLessThanWellFounded, Zenon
<1>3. \A y \in HeaderEnds(text) : x <= y
  <2>1. SUFFICES ASSUME NEW y \in HeaderEnds(text) PROVE ~(y < x)
    BY <1>1, SMT
  <2> QED
    BY <1>1, <1>2 DEF OpToRel
<1> DEFINE i == CHOOSE i \in HeaderEnds(text) : \A j \in HeaderEnds(text) : i <= j
<1>4. i \in HeaderEnds(text)
  BY <1>3
<1>5. SubSeq(text, i + 1, Len(text)) \in Seq(Token)
  <2> HIDE DEF i
  <2>1. i + 1 \in Nat \ {0} /\ Len(text) \in Int
    BY <1>1, <1>4, LenProperties
  <2> QED
    BY <2>1, SubSeqIn
<1> QED
  BY <1>5 DEF AfterHeader

-----------------------------------------------------------------------------
(* The handler of a connection *)

\* A connection object that is closed is one.
LEMMA CloseType == ASSUME NEW c \in Connection PROVE Close(c) \in Connection
BY DEF Close, Connection

\* So are those of a new connection and of none.
LEMMA NewType == NewConnection \in Connection /\ NoConnection \in Connection
BY EmptyIn DEF NewConnection, NoConnection, Connection

\* Reading the header leaves a connection object.
LEMMA readHeaderType ==
  ASSUME NEW c \in Connection, NEW text \in Seq(Token), NEW eof \in BOOLEAN
  PROVE  readHeader(c, text, eof) \in Connection
<1> DEFINE h == c.header \o text
<1>1. h \in Seq(Token)
  BY ConcatIn DEF Connection
<1>2. HeaderEnds(h) # {} => AfterHeader(h) \in Seq(Token)
  BY <1>1, AfterHeaderType
<1> HIDE DEF h
<1>3. [c EXCEPT !.header = h] \in Connection
  BY <1>1 DEF Connection
<1>4. ASSUME HeaderEnds(h) # {}
      PROVE [c EXCEPT !.header = <<>>, !.request = AfterHeader(h),
                      !.keep = Head(h).call[1] \notin OldHttp,
                      !.state = "READ_REQUEST"] \in Connection
  BY <1>2, <1>4, EmptyIn DEF Connection
<1>5. readHeader(c, text, eof) =
        (CASE HeaderEnds(h) = {} /\ eof  -> Close(c)
           [] HeaderEnds(h) = {} /\ ~eof -> [c EXCEPT !.header = h]
           [] HeaderEnds(h) # {} /\ ~HasHead(h) -> Close(c)
           [] OTHER -> [c EXCEPT !.header = <<>>, !.request = AfterHeader(h),
                                 !.keep = Head(h).call[1] \notin OldHttp,
                                 !.state = "READ_REQUEST"])
  BY DEF readHeader, h
<1>6. Close(c) \in Connection
  BY CloseType
<1>7. CASE HeaderEnds(h) = {}
  BY <1>3, <1>5, <1>6, <1>7
<1>8. CASE HeaderEnds(h) # {}
  BY <1>4, <1>5, <1>6, <1>8
<1> QED
  BY <1>7, <1>8

\* So does reading the request.
LEMMA readRequestType ==
  ASSUME NEW c \in Connection, NEW text \in Seq(Token), NEW eof \in BOOLEAN
  PROVE  readRequest(c, text, eof) \in Connection
<1> DEFINE r == IF Len(c.request) < BodyLen THEN c.request \o text ELSE c.request
<1>1. r \in Seq(Token)
  BY ConcatIn DEF Connection
<1> HIDE DEF r
<1>2. [c EXCEPT !.request = r] \in Connection
      /\ [c EXCEPT !.request = r, !.state = "WRITE_RESPONSE"] \in Connection
  BY <1>1 DEF Connection
<1>3. readRequest(c, text, eof) =
        (CASE Len(r) < BodyLen /\ eof  -> Close(c)
           [] Len(r) < BodyLen /\ ~eof -> [c EXCEPT !.request = r]
           [] OTHER -> [c EXCEPT !.request = r, !.state = "WRITE_RESPONSE"])
  BY DEF readRequest, r
<1>4. CASE Len(r) < BodyLen
  BY <1>2, <1>3, <1>4, CloseType
<1>5. CASE ~(Len(r) < BodyLen)
  BY <1>2, <1>3, <1>5
<1> QED
  BY <1>4, <1>5

\* So does what is received, in whichever state.
LEMMA ReceivedType ==
  ASSUME NEW c \in Connection, NEW text \in Seq(Token), NEW eof \in BOOLEAN
  PROVE  Received(c, text, eof) \in Connection
<1>1. readHeader(c, text, eof) \in Connection
  BY readHeaderType
<1>2. \A d \in Connection, x \in Seq(Token) : readRequest(d, x, eof) \in Connection
  BY readRequestType
<1> QED
  BY <1>1, <1>2, EmptyIn DEF Received

\* So does what is sent.
LEMMA SentType ==
  ASSUME NEW c \in Connection, NEW n \in Nat
  PROVE  Sent(c, n) \in Connection
<1>1. [NewConnection EXCEPT !.keep = c.keep] \in Connection
  BY NewType DEF Connection
<1>2. [c EXCEPT !.written = @ + n] \in Connection
  BY DEF Connection
<1> QED
  BY <1>1, <1>2, CloseType DEF Sent

\* A request names a call or, if it is not complete, none.
LEMMA CallOfType ==
  ASSUME NEW request \in Seq(Token)
  PROVE  CallOf(request) \in CallId \cup {NoCall}
<1>1. CASE Len(request) >= BodyLen
  <2>1. request[1] \in Token
    BY <1>1, SocketAssumption, ElementOfSeq, LenProperties
  <2> QED
    BY <2>1 DEF CallOf, Token
<1>2. CASE ~(Len(request) >= BodyLen)
  BY <1>2 DEF CallOf
<1> QED
  BY <1>1, <1>2

-----------------------------------------------------------------------------
(* The types: the server's steps *)

\* What a socket takes of a text is a number of its tokens.
LEMMA AcceptedType ==
  ASSUME NEW rest \in Seq(Token), NEW buffer \in Seq(Token), NEW n \in Accepted(rest, buffer)
  PROVE  n \in Nat /\ n <= Len(rest)
<1>1. Len(rest) \in Nat /\ Len(buffer) \in Nat /\ Capacity \in Nat
  BY LenProperties, SocketAssumption
<1> QED
  BY <1>1 DEF Accepted

\* A sequence without its i-th element
LEMMA CutProperties ==
  ASSUME NEW S, NEW s \in Seq(S), NEW i \in 1..Len(s)
  PROVE  /\ SubSeq(s, 1, i - 1) \o SubSeq(s, i + 1, Len(s)) \in Seq(S)
         /\ Len(SubSeq(s, 1, i - 1) \o SubSeq(s, i + 1, Len(s))) = Len(s) - 1
         /\ \A j \in 1..(Len(s) - 1) :
              (SubSeq(s, 1, i - 1) \o SubSeq(s, i + 1, Len(s)))[j]
                = IF j < i THEN s[j] ELSE s[j + 1]
<1> DEFINE a == SubSeq(s, 1, i - 1)
           b == SubSeq(s, i + 1, Len(s))
<1>1. Len(s) \in Nat /\ i \in Int /\ i - 1 \in Int /\ i + 1 \in Int /\ i <= Len(s) /\ 1 <= i
  BY LenProperties
<1>2. \A j \in 1..Len(s) : s[j] \in S
  BY ElementOfSeq
<1>3. /\ a \in Seq(S) /\ Len(a) = i - 1
      /\ \A j \in 1..(i - 1) : a[j] = s[j]
  <2>1. \A j \in 1..(i - 1) : s[j] \in S
    BY <1>1, <1>2
  <2>2. /\ a \in Seq(S)
        /\ Len(a) = IF 1 <= i - 1 THEN (i - 1) - 1 + 1 ELSE 0
        /\ \A j \in 1..((i - 1) - 1 + 1) : a[j] = s[(1 + j) - 1]
    BY <1>1, <2>1, SubSeqProperties, 1 \in Int
  <2> QED
    BY <1>1, <2>2
<1>4. /\ b \in Seq(S) /\ Len(b) = Len(s) - i
      /\ \A j \in 1..(Len(s) - i) : b[j] = s[i + j]
  <2>1. \A j \in (i + 1)..Len(s) : s[j] \in S
    BY <1>1, <1>2
  <2>2. /\ b \in Seq(S)
        /\ Len(b) = IF i + 1 <= Len(s) THEN Len(s) - (i + 1) + 1 ELSE 0
        /\ \A j \in 1..(Len(s) - (i + 1) + 1) : b[j] = s[((i + 1) + j) - 1]
    BY <1>1, <2>1, SubSeqProperties
  <2> QED
    BY <1>1, <2>2
<1> HIDE DEF a, b
<1>5. /\ a \o b \in Seq(S) /\ Len(a \o b) = Len(a) + Len(b)
      /\ \A j \in 1..(Len(a) + Len(b)) : (a \o b)[j] = IF j <= Len(a) THEN a[j] ELSE b[j - Len(a)]
  BY <1>3, <1>4, ConcatProperties
<1>6. Len(a \o b) = Len(s) - 1
  BY <1>1, <1>3, <1>4, <1>5
<1>7. ASSUME NEW j \in 1..(Len(s) - 1) PROVE (a \o b)[j] = IF j < i THEN s[j] ELSE s[j + 1]
  <2>1. (a \o b)[j] = IF j <= Len(a) THEN a[j] ELSE b[j - Len(a)]
    BY <1>1, <1>3, <1>4, <1>5
  <2>2. CASE j < i
    BY <1>1, <1>3, <2>1, <2>2
  <2>3. CASE ~(j < i)
    <3>1. j - (i - 1) \in 1..(Len(s) - i) /\ i + (j - (i - 1)) = j + 1
      BY <1>1, <2>3
    <3> QED
      BY <1>1, <1>3, <1>4, <2>1, <2>3, <3>1
  <2> QED
    BY <2>2, <2>3
<1> QED
  BY <1>5, <1>6, <1>7 DEF a, b

Monitored == [src : Source, mask : Waits]
Entry     == [src : Source, set : BOOLEAN]

\* removeSource takes one entry out, one of the source.
LEMMA WithoutProperties ==
  ASSUME NEW list \in Seq(Monitored), NEW src,
         \E i \in DOMAIN list : list[i].src = src
  PROVE  /\ Without(list, src) \in Seq(Monitored)
         /\ \E i \in 1..Len(list) :
              /\ list[i].src = src
              /\ Len(Without(list, src)) = Len(list) - 1
              /\ \A j \in 1..(Len(list) - 1) :
                   Without(list, src)[j] = IF j < i THEN list[j] ELSE list[j + 1]
<1> DEFINE i == CHOOSE i \in DOMAIN list : list[i].src = src
<1>1. i \in 1..Len(list) /\ list[i].src = src
  BY LenProperties
<1>2. Without(list, src) = SubSeq(list, 1, i - 1) \o SubSeq(list, i + 1, Len(list))
  BY DEF Without
<1> HIDE DEF i
<1> QED
  BY <1>1, <1>2, CutProperties

\* A changed mask leaves a list of sources.
LEMMA setSourceEventsType ==
  ASSUME NEW list \in Seq(Monitored), NEW src \in Source, NEW mask \in Waits
  PROVE  setSourceEvents(list, src, mask) \in Seq(Monitored)
<1>1. \A i \in 1..Len(list) : list[i] \in Monitored
  BY ElementOfSeq
<1>2. \A i \in 1..Len(list) :
        (IF list[i].src = src THEN [src |-> src, mask |-> mask] ELSE list[i])
          \in Monitored
  BY <1>1 DEF Monitored
<1>3. DOMAIN list = 1..Len(list) /\ Len(list) \in Nat
  BY LenProperties
<1>4. [i \in 1..Len(list) |-> IF list[i].src = src THEN [src |-> src, mask |-> mask]
                             ELSE list[i]] \in Seq(Monitored)
  BY <1>2, <1>3, IsASeq
<1> QED
  BY <1>3, <1>4 DEF setSourceEvents

\* What is left of a round is a list of entries.
LEMMA RestType ==
  ASSUME round \in Seq(Entry), NEW i \in DOMAIN round
  PROVE  RestAfter(i) \in Seq(Entry)
<1>1. i \in 1..Len(round) /\ Len(round) \in Nat
  BY LenProperties
<1>2. SubSeq(round, i + 1, Len(round)) \in Seq(Entry)
  BY <1>1, SubSeqIn, i + 1 \in Nat \ {0}, Len(round) \in Int
<1> QED
  BY <1>2, EmptyIn DEF RestAfter

\* So is the copy of the sources it begins with.
LEMMA CopyType ==
  ASSUME NEW list \in Seq(Monitored), NEW f,
         f \in [DOMAIN list -> BOOLEAN]
  PROVE  [i \in DOMAIN list |-> [src |-> list[i].src, set |-> f[i]]] \in Seq(Entry)
<1>1. DOMAIN list = 1..Len(list) /\ Len(list) \in Nat
  BY LenProperties
<1>2. \A i \in 1..Len(list) : [src |-> list[i].src, set |-> f[i]] \in Entry
  <2>1. \A i \in 1..Len(list) : list[i] \in Monitored /\ f[i] \in BOOLEAN
    BY <1>1, ElementOfSeq
  <2> QED
    BY <2>1 DEF Entry, Monitored
<1>3. [i \in 1..Len(list) |-> [src |-> list[i].src, set |-> f[i]]] \in Seq(Entry)
  BY <1>1, <1>2, IsASeq
<1> QED
  BY <1>1, <1>3

\* The types after a handler that has left object x.
LEMMA HandledType ==
  ASSUME TypeOK, NEW k \in Conn, NEW c \in Connection, Handled(k, c),
         \E i \in DOMAIN sources : sources[i].src = k
  PROVE  /\ conn' \in [Conn -> Connection] /\ ends' \in [Conn -> EndState]
         /\ sources' \in Seq(Monitored)
<1>1. conn' \in [Conn -> Connection]
  BY DEF TypeOK, Handled
<1>2. ends' \in [Conn -> EndState]
  <2>1. [ends EXCEPT ![k].server = "closed"] \in [Conn -> EndState]
    BY DEF TypeOK, SockType, EndState
  <2> QED
    BY <2>1 DEF TypeOK, SockType, Handled
<1>3. sources' \in Seq(Monitored)
  <2>1. Without(sources, k) \in Seq(Monitored)
    BY WithoutProperties DEF TypeOK, Monitored
  <2>2. \A m \in Waits : setSourceEvents(sources, k, m) \in Seq(Monitored)
    BY setSourceEventsType DEF TypeOK, Source, Monitored
  <2> QED
    BY <2>1, <2>2 DEF Handled, Waits
<1> QED
  BY <1>1, <1>2, <1>3

\* Every step of the server keeps the types: the select,
LEMMA SelectType ==
  ASSUME TypeOK, Select, UNCHANGED clientVars
  PROVE  TypeOK'
<1>1. sources \in Seq(Monitored) /\ DOMAIN sources = 1..Len(sources)
  BY LenProperties DEF TypeOK, Monitored
<1>2. CopyOf(sources, Ready) \in Seq(Entry)
  <2> DEFINE f == [i \in DOMAIN sources |-> Ready(sources[i])]
  <2>1. \A i \in DOMAIN sources : Ready(sources[i]) \in BOOLEAN
    BY DEF Ready
  <2>2. f \in [DOMAIN sources -> BOOLEAN]
    BY <2>1
  <2>3. [i \in DOMAIN sources |-> [src |-> sources[i].src, set |-> f[i]]] \in Seq(Entry)
    BY <1>1, <2>2, CopyType
  <2> QED
    BY <2>3 DEF CopyOf
<1>3. [i \in DOMAIN sources |-> [src |-> sources[i].src, set |-> TRUE]] \in Seq(Entry)
  <2> DEFINE f == [i \in DOMAIN sources |-> TRUE]
  <2>1. f \in [DOMAIN sources -> BOOLEAN]
    OBVIOUS
  <2>2. [i \in DOMAIN sources |-> [src |-> sources[i].src, set |-> f[i]]] \in Seq(Entry)
    BY <1>1, <2>1, CopyType
  <2> QED
    BY <2>2
<1>4. round' \in Seq(Entry)
  BY <1>2, <1>3 DEF Select, CopyOf
<1> QED
  BY <1>4 DEF TypeOK, SockType, Select, sockVars, clientVars, Entry

\* the acceptance of a connection,
LEMMA AcceptType ==
  ASSUME TypeOK, AcceptConnection, UNCHANGED clientVars
  PROVE  TypeOK'
<1>1. round' \in Seq(Entry)
  BY RestType DEF AcceptConnection, TypeOK, Entry
<1>2. CASE UNCHANGED <<ends, conn, sources>>
  BY <1>1, <1>2 DEF TypeOK, SockType, AcceptConnection, clientVars, Entry
<1>3. ASSUME NEW k \in Conn,
             ends' = [ends EXCEPT ![k].server = "open"],
             conn' = [conn EXCEPT ![k] = NewConnection],
             sources' = Append(sources, [src |-> k, mask |-> "read"])
      PROVE  TypeOK'
  <2>1. ends' \in [Conn -> EndState]
    BY <1>3 DEF TypeOK, SockType, EndState
  <2>2. conn' \in [Conn -> Connection]
    BY <1>3, NewType DEF TypeOK
  <2>3. sources' \in Seq(Monitored)
    <3>1. [src |-> k, mask |-> "read"] \in Monitored
      BY DEF Monitored, Source, Waits
    <3> QED
      BY <1>3, <3>1, AppendProperties DEF TypeOK, Monitored
  <2> QED
    BY <1>1, <2>1, <2>2, <2>3 DEF TypeOK, SockType, AcceptConnection, clientVars, Entry, Monitored
<1> QED
  BY <1>2, <1>3 DEF AcceptConnection

\* What a handler leaves of the buffers, the history and the connection
LEMMA HandleType ==
  ASSUME TypeOK, NEW k \in Conn, Handle(k), \E i \in DOMAIN sources : sources[i].src = k
  PROVE  /\ conn' \in [Conn -> Connection] /\ ends' \in [Conn -> EndState]
         /\ sources' \in Seq(Monitored)
         /\ up' \in [Conn -> Seq(Token)] /\ down' \in [Conn -> Seq(Token)]
         /\ executed' \in Seq(CallId \cup {NoCall})
         /\ \E d \in Connection : Handled(k, d)
<1>1. /\ conn[k] \in Connection /\ up[k] \in Seq(Token) /\ down[k] \in Seq(Token)
      /\ up \in [Conn -> Seq(Token)] /\ down \in [Conn -> Seq(Token)]
  BY DEF TypeOK, SockType
<1>2. PICK c \in {Received(conn[k], up[k], ends[k].client = "closed")} :
        \E d \in {IF Runs(c) THEN [c EXCEPT !.response = Message(CallOf(c.request), ReplyLen),
                                            !.written = 0] ELSE c} :
          /\ up' = IF conn[k].state \in {"READ_HEADER", "READ_REQUEST"}
                   THEN [up EXCEPT ![k] = <<>>] ELSE up
          /\ executed' = IF Runs(c) THEN Append(executed, CallOf(c.request)) ELSE executed
          /\ IF d.state # "WRITE_RESPONSE" THEN Handled(k, d) /\ UNCHANGED down
             ELSE IF ends[k].client = "closed"
             THEN /\ Handled(k, Close(d)) \/ Handled(k, Sent(d, Len(d.response) - d.written))
                  /\ UNCHANGED down
             ELSE \E rest \in {SubSeq(d.response, d.written + 1, Len(d.response))} :
                  \E n \in Accepted(rest, down[k]) :
                    /\ down' = [down EXCEPT ![k] = @ \o SubSeq(rest, 1, n)]
                    /\ Handled(k, Sent(d, n))
  BY DEF Handle
<1>3. c \in Connection
  <2>1. \A eof \in BOOLEAN : Received(conn[k], up[k], eof) \in Connection
    BY <1>1, ReceivedType
  <2>2. c = Received(conn[k], up[k], ends[k].client = "closed")
    BY <1>2
  <2>3. (ends[k].client = "closed") \in BOOLEAN
    OBVIOUS
  <2> QED
    BY <2>1, <2>2, <2>3, Zenon
<1>4. CallOf(c.request) \in CallId \cup {NoCall}
  BY <1>3, CallOfType DEF Connection
<1>5. [c EXCEPT !.response = Message(CallOf(c.request), ReplyLen), !.written = 0] \in Connection
  BY <1>3, <1>4, MessageType, SocketAssumption DEF Connection
<1> DEFINE e == IF Runs(c) THEN [c EXCEPT !.response = Message(CallOf(c.request), ReplyLen),
                                          !.written = 0] ELSE c
<1>e. e \in Connection
  BY <1>3, <1>5
<1>6. PICK d \in Connection :
          /\ up' = IF conn[k].state \in {"READ_HEADER", "READ_REQUEST"}
                   THEN [up EXCEPT ![k] = <<>>] ELSE up
          /\ executed' = IF Runs(c) THEN Append(executed, CallOf(c.request)) ELSE executed
          /\ IF d.state # "WRITE_RESPONSE" THEN Handled(k, d) /\ UNCHANGED down
             ELSE IF ends[k].client = "closed"
             THEN /\ Handled(k, Close(d)) \/ Handled(k, Sent(d, Len(d.response) - d.written))
                  /\ UNCHANGED down
             ELSE \E rest \in {SubSeq(d.response, d.written + 1, Len(d.response))} :
                  \E n \in Accepted(rest, down[k]) :
                    /\ down' = [down EXCEPT ![k] = @ \o SubSeq(rest, 1, n)]
                    /\ Handled(k, Sent(d, n))
  <2>1. PICK d \in {e} :
          /\ up' = IF conn[k].state \in {"READ_HEADER", "READ_REQUEST"}
                   THEN [up EXCEPT ![k] = <<>>] ELSE up
          /\ executed' = IF Runs(c) THEN Append(executed, CallOf(c.request)) ELSE executed
          /\ IF d.state # "WRITE_RESPONSE" THEN Handled(k, d) /\ UNCHANGED down
             ELSE IF ends[k].client = "closed"
             THEN /\ Handled(k, Close(d)) \/ Handled(k, Sent(d, Len(d.response) - d.written))
                  /\ UNCHANGED down
             ELSE \E rest \in {SubSeq(d.response, d.written + 1, Len(d.response))} :
                  \E n \in Accepted(rest, down[k]) :
                    /\ down' = [down EXCEPT ![k] = @ \o SubSeq(rest, 1, n)]
                    /\ Handled(k, Sent(d, n))
    BY <1>2
  <2> HIDE DEF e
  <2>2. d \in Connection
    BY <1>e, <2>1
  <2> QED
    BY <2>1, <2>2
<1>7. up' \in [Conn -> Seq(Token)]
  BY <1>1, <1>6, EmptyIn
<1>8. executed' \in Seq(CallId \cup {NoCall})
  BY <1>4, <1>6, AppendProperties DEF TypeOK
<1>9. down' \in [Conn -> Seq(Token)] /\ \E x \in Connection : Handled(k, x)
  <2>1. CASE d.state # "WRITE_RESPONSE"
    BY <1>1, <1>6, <2>1
  <2>2. CASE d.state = "WRITE_RESPONSE" /\ ends[k].client = "closed"
    <3>1. Close(d) \in Connection
      BY CloseType
    <3>2. CASE Handled(k, Close(d))
      BY <1>1, <1>6, <2>2, <3>1, <3>2
    <3>3. CASE Handled(k, Sent(d, Len(d.response) - d.written))
      <4>1. d.written + (Len(d.response) - d.written) = Len(d.response)
        BY LenProperties DEF Connection
      <4>2. Sent(d, Len(d.response) - d.written) \in Connection
        <5>1. [NewConnection EXCEPT !.keep = d.keep] \in Connection
          BY NewType DEF Connection
        <5>2. Sent(d, Len(d.response) - d.written)
                = IF d.keep THEN [NewConnection EXCEPT !.keep = d.keep]
                  ELSE Close([NewConnection EXCEPT !.keep = d.keep])
          BY <4>1 DEF Sent
        <5> QED
          BY <5>1, <5>2, CloseType
      <4> QED
        BY <1>1, <1>6, <2>2, <3>3, <4>2
    <3> QED
      BY <1>6, <2>2, <3>2, <3>3
  <2>3. CASE d.state = "WRITE_RESPONSE" /\ ends[k].client # "closed"
    <3> DEFINE rest == SubSeq(d.response, d.written + 1, Len(d.response))
    <3>1. rest \in Seq(Token)
      <4>1. d.response \in Seq(Token) /\ d.written + 1 \in Nat \ {0}
        BY DEF Connection
      <4> QED
        BY <4>1, SubSeqIn, LenProperties
    <3>2. PICK n \in Accepted(rest, down[k]) :
            /\ down' = [down EXCEPT ![k] = @ \o SubSeq(rest, 1, n)]
            /\ Handled(k, Sent(d, n))
      BY <1>6, <2>3
    <3> HIDE DEF rest
    <3>3. n \in Nat /\ n <= Len(rest)
      BY <1>1, <3>1, AcceptedType
    <3>4. SubSeq(rest, 1, n) \in Seq(Token)
      BY <3>1, <3>3, SubSeqIn
    <3>5. down[k] \o SubSeq(rest, 1, n) \in Seq(Token)
      BY <1>1, <3>4, ConcatIn
    <3>6. Sent(d, n) \in Connection
      BY <3>3, SentType
    <3> QED
      BY <1>1, <3>2, <3>5, <3>6
  <2> QED
    BY <2>1, <2>2, <2>3
<1> QED
  BY <1>7, <1>8, <1>9, HandledType

\* the handler of a connection,
LEMMA HandleConnectionType ==
  ASSUME TypeOK, HandleConnection, UNCHANGED clientVars,
         \A i \in DOMAIN round : round[i].src \in Conn =>
           \E j \in DOMAIN sources : sources[j].src = round[i].src
  PROVE  TypeOK'
<1>1. PICK i \in DOMAIN round, k \in Conn :
        IsNext(i) /\ round[i].src = k /\ round' = RestAfter(i) /\ Handle(k)
  BY DEF HandleConnection
<1>2. round' \in Seq(Entry)
  BY <1>1, RestType DEF TypeOK, Entry
<1>3. /\ conn' \in [Conn -> Connection] /\ ends' \in [Conn -> EndState]
      /\ sources' \in Seq(Monitored)
      /\ up' \in [Conn -> Seq(Token)] /\ down' \in [Conn -> Seq(Token)]
      /\ executed' \in Seq(CallId \cup {NoCall})
  BY <1>1, HandleType
<1> QED
  BY <1>2, <1>3 DEF TypeOK, SockType, HandleConnection, clientVars, Entry, Monitored

\* the death of the process
LEMMA ServerDiesType ==
  ASSUME TypeOK, ServerDies, UNCHANGED clientVars
  PROVE  TypeOK'
<1>1. conn' \in [Conn -> Connection]
  BY NewType DEF ServerDies
<1>2. ends' \in [Conn -> EndState]
  <2>1. \A k \in Conn : ends[k] \in EndState
    BY DEF TypeOK, SockType
  <2>2. \A k \in Conn : [ends[k] EXCEPT !.server = "closed"] \in EndState
    BY <2>1 DEF EndState
  <2> QED
    BY <2>1, <2>2 DEF ServerDies
<1>3. down' \in [Conn -> Seq(Token)]
  <2>1. PICK lost \in 0..Capacity :
          down' = [k \in Conn |-> IF ends[k].server # "open" THEN down[k]
                                  ELSE SubSeq(down[k], 1, Len(down[k]) - lost)]
    BY DEF ServerDies
  <2>2. ASSUME NEW k \in Conn PROVE SubSeq(down[k], 1, Len(down[k]) - lost) \in Seq(Token)
    <3>1. down[k] \in Seq(Token)
      BY DEF TypeOK, SockType
    <3>2. Len(down[k]) \in Nat /\ lost \in Nat
      BY <3>1, LenProperties, SocketAssumption
    <3> QED
      BY <3>1, <3>2, SubSeqIn, 1 \in Nat \ {0}, Len(down[k]) - lost \in Int,
         Len(down[k]) - lost <= Len(down[k])
  <2> QED
    BY <2>1, <2>2 DEF TypeOK, SockType
<1>4. sources' \in Seq(Monitored) /\ round' \in Seq(Entry)
  BY EmptyIn DEF ServerDies
<1>5. /\ listening' \in BOOLEAN /\ up' = up /\ executed' = executed /\ alive' \in BOOLEAN
  BY DEF ServerDies
<1>6. crashes \in Nat /\ crashes' = crashes + 1
  BY DEF ServerDies, TypeOK
<1>7. crashes' \in Nat
  BY <1>6
<1> QED
  BY <1>1, <1>2, <1>3, <1>4, <1>5, <1>7 DEF TypeOK, SockType, clientVars, Entry, Monitored

\* The list with the listener alone is a list of sources.
LEMMA ListenerMonitored == <<[src |-> Listener, mask |-> "read"]>> \in Seq(Monitored)
<1>1. [src |-> Listener, mask |-> "read"] \in Monitored
  BY DEF Monitored, Source, Waits
<1> QED
  BY <1>1

\* and its new start.
LEMMA ServerStartsType ==
  ASSUME TypeOK, ServerStarts, UNCHANGED clientVars
  PROVE  TypeOK'
<1>1. sources' \in Seq(Monitored)
  BY ListenerMonitored, EmptyIn DEF ServerStarts
<1> QED
  BY <1>1 DEF TypeOK, SockType, ServerStarts, clientVars, Monitored

-----------------------------------------------------------------------------
(* The types: the clients' steps *)

\* What a client does to the ends opens none for the server and closes none of the
\* server's.
LEMMA EndsAfterProperties ==
  ASSUME TypeOK, NEW c, NEW old, NEW new, NEW server \in {"none", "backlog", "closed"},
         new = 0 \/ old # new,
         new # 0 /\ <<c, new>> \in Conn => ends[<<c, new>>].server # "open"
  PROVE  /\ EndsAfter(c, old, new, server) \in [Conn -> EndState]
         /\ \A k \in Conn : EndsAfter(c, old, new, server)[k].server = "open"
                              <=> ends[k].server = "open"
         /\ \A k \in Conn : ~(new # 0 /\ k = <<c, new>>)
              => EndsAfter(c, old, new, server)[k].server = ends[k].server
<1> DEFINE e == EndsAfter(c, old, new, server)
<1>1. \A k \in Conn : ends[k] \in EndState
  BY DEF TypeOK, SockType
<1>2. ASSUME NEW k \in Conn
      PROVE  /\ e[k] \in EndState
             /\ e[k].server = "open" <=> ends[k].server = "open"
             /\ ~(new # 0 /\ k = <<c, new>>) => e[k].server = ends[k].server
  <2>1. CASE new # 0 /\ k = <<c, new>>
    <3>1. e[k] = [client |-> "open", server |-> server]
      BY <2>1 DEF EndsAfter
    <3> QED
      BY <2>1, <3>1 DEF EndState
  <2>2. CASE ~(new # 0 /\ k = <<c, new>>) /\ old # 0 /\ k = <<c, old>>
    <3>1. e[k] = [ends[k] EXCEPT !.client = "closed"]
      BY <2>2 DEF EndsAfter
    <3> QED
      BY <1>1, <2>2, <3>1 DEF EndState
  <2>3. CASE ~(new # 0 /\ k = <<c, new>>) /\ ~(old # 0 /\ k = <<c, old>>)
    <3>1. e[k] = ends[k]
      BY <2>3 DEF EndsAfter
    <3> QED
      BY <1>1, <2>3, <3>1
  <2> QED
    BY <2>1, <2>2, <2>3
<1>3. e = [k \in Conn |-> e[k]]
  BY DEF EndsAfter
<1> QED
  BY <1>2, <1>3

\* No connection is opened.
LEMMA EndsAfterNone ==
  ASSUME TypeOK, NEW c, NEW old, NEW server \in {"none", "backlog", "closed"}
  PROVE  /\ EndsAfter(c, old, 0, server) \in [Conn -> EndState]
         /\ \A k \in Conn : EndsAfter(c, old, 0, server)[k].server = "open"
                              <=> ends[k].server = "open"
         /\ \A k \in Conn : EndsAfter(c, old, 0, server)[k].server = ends[k].server
<1> DEFINE e == EndsAfter(c, old, 0, server)
<1>1. \A k \in Conn : ends[k] \in EndState
  BY DEF TypeOK, SockType
<1>2. ASSUME NEW k \in Conn
      PROVE  e[k] = IF old # 0 /\ k = <<c, old>> THEN [ends[k] EXCEPT !.client = "closed"]
                    ELSE ends[k]
  BY DEF EndsAfter
<1>3. \A k \in Conn : [ends[k] EXCEPT !.client = "closed"] \in EndState
                      /\ [ends[k] EXCEPT !.client = "closed"].server = ends[k].server
  BY <1>1 DEF EndState
<1>4. e = [k \in Conn |-> e[k]]
  BY DEF EndsAfter
<1> HIDE DEF e
<1>5. \A k \in Conn : e[k] \in EndState /\ e[k].server = ends[k].server
  BY <1>1, <1>2, <1>3
<1>6. e \in [Conn -> EndState]
  BY <1>4, <1>5
<1> QED
  BY <1>5, <1>6 DEF e

\* The object of a client that connects, or fails to, is one.
LEMMA ConnectingType ==
  ASSUME NEW x \in Client, x.opened < MaxConns, NEW ok \in BOOLEAN
  PROVE  /\ Connecting(x, ok) \in Client
         /\ Connecting(x, ok).attempts = x.attempts
         /\ ok => /\ Connecting(x, ok).state = "WRITE_REQUEST"
                  /\ Connecting(x, ok).nr = x.opened + 1
                  /\ Connecting(x, ok).opened = x.opened + 1
         /\ ~ok => /\ Connecting(x, ok).state = "NO_CONNECTION" /\ Connecting(x, ok).nr = 0
                   /\ Connecting(x, ok).opened = x.opened
<1>1. MaxConns \in Nat /\ x.opened + 1 \in 0..MaxConns /\ 0 \in 0..MaxConns
  BY SocketAssumption DEF Client
<1>2. CASE ok
  <2> DEFINE y == [x EXCEPT !.state = "WRITE_REQUEST", !.nr = x.opened + 1,
                            !.opened = x.opened + 1, !.eof = FALSE, !.written = 0,
                            !.monitored = TRUE]
  <2>1. Connecting(x, ok) = y
    BY <1>2 DEF Connecting
  <2>2. /\ y \in Client /\ y.attempts = x.attempts /\ y.state = "WRITE_REQUEST"
        /\ y.nr = x.opened + 1 /\ y.opened = x.opened + 1
    BY <1>1 DEF Client
  <2> QED
    BY <1>2, <2>1, <2>2
<1>3. CASE ~ok
  <2> DEFINE y == [x EXCEPT !.state = "NO_CONNECTION", !.nr = 0, !.eof = FALSE,
                            !.monitored = FALSE]
  <2>1. Connecting(x, ok) = y
    BY <1>3 DEF Connecting
  <2>2. /\ y \in Client /\ y.attempts = x.attempts /\ y.state = "NO_CONNECTION"
        /\ y.opened = x.opened /\ y.nr = 0
    BY <1>1 DEF Client
  <2> QED
    BY <1>3, <2>1, <2>2
<1> QED
  BY <1>2, <1>3

\* What is read from a response is a result.
LEMMA CallAnsweredType ==
  ASSUME NEW text \in Seq(Token)
  PROVE  CallAnswered(text) \in Outcome
<1>1. CASE Len(text) >= ReplyLen
  <2>1. text[1] \in Token
    BY <1>1, SocketAssumption, ElementOfSeq, LenProperties
  <2> QED
    BY <2>1 DEF CallAnswered, Token, Outcome, Failed
<1>2. CASE ~(Len(text) >= ReplyLen)
  BY <1>2 DEF CallAnswered, Outcome, Failed
<1> QED
  BY <1>1, <1>2

\* The objects a client may be left with by execute, and those it may go on with
Good(x) == /\ x \in Client
           /\ x.state # "NO_CONNECTION" => x.nr # 0
           /\ x.nr <= x.opened
Working(x) == /\ Good(x)
              /\ x.state \in {"WRITE_REQUEST", "READ_HEADER", "READ_RESPONSE"}
              /\ x.attempts = 0 => x.opened < MaxConns

\* A step of client c leaves the server's ends alone but for that of connection o.
Leaves(c, o) ==
  /\ ends' \in [Conn -> EndState]
  /\ \A k \in Conn : ends'[k].server = "open" <=> ends[k].server = "open"
  /\ \A k \in Conn : k # <<c, o>> => ends'[k].server = ends[k].server

\* What handleEvent does with an object that has opened p connections
Acts(c, p) ==
  \E x \in Client :
    /\ Good(x) /\ p <= x.opened /\ Leaves(c, x.opened)
    /\ \/ \E res \in Outcome : Returns(c, x, res)
       \/ Working(x) /\ Continues(c, x)

\* A step that leaves the ends alone leaves those of the server alone.
LEMMA LeavesAll == ASSUME TypeOK, UNCHANGED ends, NEW c, NEW o PROVE Leaves(c, o)
BY DEF TypeOK, SockType, Leaves

\* The result without an answer is a result.
LEMMA FailedType == Failed \in Outcome
BY DEF Failed, Outcome

\* A client that stops acts as handleEvent does.
LEMMA StopsActs ==
  ASSUME NEW c \in Clients, NEW x, Good(x), Stops(c, x), Leaves(c, x.opened)
  PROVE  Acts(c, x.opened)
<1> DEFINE y == [x EXCEPT !.monitored = FALSE]
<1>1. y \in Client /\ Good(y) /\ y.opened = x.opened
  BY DEF Good, Client
<1>2. x.opened <= y.opened
  BY <1>1 DEF Client
<1>3. Returns(c, y, Failed)
  BY DEF Stops
<1> HIDE DEF y
<1> QED
  BY <1>1, <1>2, <1>3, FailedType DEF Acts

\* So does one that goes on,
LEMMA ContinuesActs ==
  ASSUME NEW c \in Clients, NEW x, Working(x), Continues(c, x), Leaves(c, x.opened)
  PROVE  Acts(c, x.opened)
<1>1. x \in Client /\ Good(x) /\ x.opened <= x.opened
  BY DEF Working, Good, Client
<1> QED
  BY <1>1 DEF Acts

\* one that reads the response,
LEMMA ReadResponseActs ==
  ASSUME TypeOK, UNCHANGED ends, NEW c \in Clients, NEW x, Working(x),
         NEW text \in Seq(Token), NEW eof \in BOOLEAN, ReadResponse(c, x, text, eof)
  PROVE  Acts(c, x.opened)
<1> DEFINE r == IF Len(x.response) < ReplyLen THEN x.response \o text ELSE x.response
           y == [x EXCEPT !.response = r, !.eof = eof]
<1>1. r \in Seq(Token)
  BY ConcatIn DEF Working, Good, Client
<1> HIDE DEF r
<1>2. Working(y) /\ Good(y) /\ y.opened = x.opened
  BY <1>1 DEF Working, Good, Client
<1>3. CASE Len(r) < ReplyLen /\ eof
  <2>1. Stops(c, y)
    BY <1>3 DEF ReadResponse, r
  <2> QED
    BY <1>2, <2>1, StopsActs, LeavesAll
<1>4. CASE Len(r) < ReplyLen /\ ~eof
  <2>1. Continues(c, y)
    BY <1>4 DEF ReadResponse, r
  <2> QED
    BY <1>2, <2>1, ContinuesActs, LeavesAll
<1>5. CASE ~(Len(r) < ReplyLen)
  <2> DEFINE z == [y EXCEPT !.state = "IDLE", !.monitored = FALSE, !.response = <<>>]
  <2>1. Returns(c, z, CallAnswered(r))
    BY <1>5 DEF ReadResponse, r
  <2> HIDE DEF y
  <2>2. z \in Client /\ Good(z) /\ z.opened = x.opened
    <3>1. y \in Client /\ y.nr # 0 /\ y.nr <= y.opened /\ y.opened = x.opened
      BY <1>2 DEF Working, Good
    <3>2. z \in Client /\ z.nr = y.nr /\ z.opened = y.opened
      BY <3>1, EmptyIn DEF Client
    <3> QED
      BY <3>1, <3>2 DEF Good
  <2> HIDE DEF z
  <2>3. Leaves(c, z.opened) /\ CallAnswered(r) \in Outcome
    <3>1. Leaves(c, z.opened)
      BY LeavesAll
    <3>2. CallAnswered(r) \in Outcome
      BY <1>1, CallAnsweredType
    <3> QED
      BY <3>1, <3>2
  <2>4. x.opened <= z.opened
    BY <2>2 DEF Working, Good, Client
  <2> QED
    BY <2>1, <2>2, <2>3, <2>4 DEF Acts
<1> QED
  BY <1>3, <1>4, <1>5

\* one that looks for the end of the header,
LEMMA ParseHeaderActs ==
  ASSUME TypeOK, UNCHANGED ends, NEW c \in Clients, NEW x, Working(x),
         NEW eof \in BOOLEAN, ParseHeader(c, x, eof)
  PROVE  Acts(c, x.opened)
<1> DEFINE y == [x EXCEPT !.eof = eof]
<1>1. Working(y) /\ Good(y) /\ y.opened = x.opened
  BY DEF Working, Good, Client
<1>2. CASE HeaderEnds(x.header) = {} /\ eof
  <2>1. Stops(c, y)
    BY <1>2 DEF ParseHeader
  <2> QED
    BY <1>1, <2>1, StopsActs, LeavesAll
<1>3. CASE HeaderEnds(x.header) = {} /\ ~eof
  <2>1. Continues(c, y)
    BY <1>3 DEF ParseHeader
  <2> QED
    BY <1>1, <2>1, ContinuesActs, LeavesAll
<1>4. CASE HeaderEnds(x.header) # {} /\ ~HasHead(x.header)
  <2>1. Stops(c, y)
    BY <1>4 DEF ParseHeader
  <2> QED
    BY <1>1, <2>1, StopsActs, LeavesAll
<1>5. CASE HeaderEnds(x.header) # {} /\ HasHead(x.header)
  <2> DEFINE z == [y EXCEPT !.header = <<>>, !.state = "READ_RESPONSE",
                            !.response = AfterHeader(x.header)]
  <2>1. ReadResponse(c, z, <<>>, eof)
    BY <1>5 DEF ParseHeader
  <2>2. AfterHeader(x.header) \in Seq(Token)
    BY <1>5, AfterHeaderType DEF Working, Good, Client
  <2>3. Working(z) /\ z.opened = x.opened
    BY <1>1, <2>2, EmptyIn DEF Working, Good, Client
  <2> QED
    BY <2>1, <2>3, EmptyIn, ReadResponseActs
<1> QED
  BY <1>2, <1>3, <1>4, <1>5

\* A client connects anew, or fails to.
LEMMA ConnectProperties ==
  ASSUME TypeOK, NEW c \in Clients, NEW w \in Client, w.nr <= w.opened, w.opened < MaxConns,
         \A n \in 1..MaxConns : n > w.opened => ends[<<c, n>>].server = "none",
         NEW to \in Connects,
         ends' = EndsAfter(c, w.nr, IF to[1] THEN w.opened + 1 ELSE 0, to[2])
  PROVE  /\ to[1] = TRUE \/ to[1] = FALSE
         /\ Good(Connecting(w, to[1]))
         /\ Connecting(w, to[1]).attempts = w.attempts
         /\ w.opened <= Connecting(w, to[1]).opened
         /\ Leaves(c, Connecting(w, to[1]).opened)
         /\ to[1] => /\ Connecting(w, to[1]).state = "WRITE_REQUEST"
                     /\ Connecting(w, to[1]).opened = w.opened + 1
<1>1. /\ to[1] = TRUE \/ to[1] = FALSE
      /\ to[2] \in {"none", "backlog", "closed"}
  <2>1. \/ to = <<TRUE, IF listening THEN "backlog" ELSE "closed">>
        \/ to = <<FALSE, "none">>
    BY DEF Connects
  <2>2. ASSUME to = <<TRUE, IF listening THEN "backlog" ELSE "closed">>
        PROVE  to[1] = TRUE /\ to[2] = IF listening THEN "backlog" ELSE "closed"
    BY <2>2
  <2>3. ASSUME to = <<FALSE, "none">> PROVE to[1] = FALSE /\ to[2] = "none"
    BY <2>3
  <2> QED
    BY <2>1, <2>2, <2>3
<1>2. w.nr \in Nat /\ w.opened \in Nat
  BY SocketAssumption DEF Client
<1>3. <<c, w.opened + 1>> \in Conn => ends[<<c, w.opened + 1>>].server # "open"
  BY <1>2 DEF Conn
<1>4. \A ok \in BOOLEAN :
        /\ Connecting(w, ok) \in Client
        /\ Connecting(w, ok).attempts = w.attempts
        /\ ok => /\ Connecting(w, ok).state = "WRITE_REQUEST"
                 /\ Connecting(w, ok).nr = w.opened + 1
                 /\ Connecting(w, ok).opened = w.opened + 1
        /\ ~ok => /\ Connecting(w, ok).state = "NO_CONNECTION"
                  /\ Connecting(w, ok).nr = 0
                  /\ Connecting(w, ok).opened = w.opened
  <2>1. \A ok \in BOOLEAN : Connecting(w, ok).attempts = w.attempts
    BY DEF Connecting, Client
  <2> QED
    BY <2>1, ConnectingType, Zenon
<1>5. CASE to[1] = TRUE
  <2> DEFINE e == EndsAfter(c, w.nr, w.opened + 1, to[2])
             y == Connecting(w, TRUE)
  <2>1. /\ y \in Client /\ y.attempts = w.attempts /\ y.state = "WRITE_REQUEST"
        /\ y.nr = w.opened + 1 /\ y.opened = w.opened + 1
    BY <1>4
  <2>2. ends' = e
    BY <1>5
  <2>3. w.nr # w.opened + 1
    BY <1>2
  <2>4. /\ e \in [Conn -> EndState]
        /\ \A k \in Conn : e[k].server = "open" <=> ends[k].server = "open"
        /\ \A k \in Conn : ~(w.opened + 1 # 0 /\ k = <<c, w.opened + 1>>)
             => e[k].server = ends[k].server
    BY <1>1, <1>3, <2>3, EndsAfterProperties
  <2> HIDE DEF e, y
  <2>5. Leaves(c, y.opened)
    BY <2>1, <2>2, <2>4 DEF Leaves
  <2>6. Good(y) /\ w.opened <= y.opened
    BY <1>2, <2>1 DEF Good
  <2>7. Connecting(w, to[1]) = y
    BY <1>5 DEF y
  <2> QED
    BY <1>1, <2>1, <2>5, <2>6, <2>7
<1>6. CASE to[1] = FALSE
  <2> DEFINE e == EndsAfter(c, w.nr, 0, to[2])
             y == Connecting(w, FALSE)
  <2>1. /\ y \in Client /\ y.state = "NO_CONNECTION" /\ y.nr = 0 /\ y.opened = w.opened
        /\ y.attempts = w.attempts
    BY <1>4
  <2>2. ends' = e
    BY <1>6
  <2>3. /\ e \in [Conn -> EndState]
        /\ \A k \in Conn : e[k].server = "open" <=> ends[k].server = "open"
        /\ \A k \in Conn : e[k].server = ends[k].server
    BY <1>1, EndsAfterNone
  <2> HIDE DEF e, y
  <2>4. Leaves(c, y.opened)
    BY <2>2, <2>3 DEF Leaves
  <2>5. Good(y) /\ w.opened <= y.opened
    BY <1>2, <2>1 DEF Good
  <2>6. Connecting(w, to[1]) = y
    BY <1>6 DEF y
  <2> QED
    BY <1>1, <1>6, <2>1, <2>4, <2>5, <2>6
<1> QED
  BY <1>1, <1>5, <1>6

\* one that tries again,
LEMMA RetryActs ==
  ASSUME TypeOK, NEW c \in Clients, NEW x, Working(x), Retry(c, x),
         \A n \in 1..MaxConns : n > x.opened => ends[<<c, n>>].server = "none"
  PROVE  Acts(c, x.opened)
<1>1. CASE x.attempts > 0
  <2> DEFINE y == [x EXCEPT !.attempts = @ + 1, !.eof = TRUE]
  <2>1. Stops(c, y) /\ UNCHANGED ends
    BY <1>1 DEF Retry
  <2>2. Good(y) /\ y.opened = x.opened
    <3>1. x \in Client /\ x.nr # 0 /\ x.nr <= x.opened
      BY DEF Working, Good
    <3>2. x.attempts + 1 \in Nat
      BY <3>1 DEF Client
    <3>3. y \in Client /\ y.nr = x.nr /\ y.opened = x.opened
      BY <3>1, <3>2 DEF Client
    <3> QED
      BY <3>1, <3>3 DEF Good
  <2> HIDE DEF y
  <2> QED
    BY <2>1, <2>2, StopsActs, LeavesAll
<1>2. CASE ~(x.attempts > 0)
  <2> DEFINE w == [x EXCEPT !.attempts = 1]
  <2>1. /\ w \in Client /\ w.opened = x.opened /\ w.attempts = 1 /\ w.nr = x.nr
        /\ x.opened < MaxConns /\ x.nr <= x.opened /\ x.opened \in Nat
    <3>1. x \in Client /\ x.nr <= x.opened /\ (x.attempts = 0 => x.opened < MaxConns)
      BY DEF Working, Good
    <3>2. x.attempts = 0 /\ x.opened \in Nat
      BY <1>2, <3>1, SocketAssumption DEF Client
    <3>3. w \in Client /\ w.opened = x.opened /\ w.attempts = 1 /\ w.nr = x.nr
      BY <3>1 DEF Client
    <3> QED
      BY <3>1, <3>2, <3>3
  <2>2. PICK to \in Connects :
          /\ ends' = EndsAfter(c, x.nr, IF to[1] THEN x.opened + 1 ELSE 0, to[2])
          /\ IF to[1] THEN Continues(c, Connecting(w, to[1])) ELSE Stops(c, Connecting(w, to[1]))
    BY <1>2 DEF Retry
  <2> HIDE DEF w
  <2>3. w.nr <= w.opened /\ w.opened < MaxConns
    BY <2>1
  <2>4. ends' = EndsAfter(c, w.nr, IF to[1] THEN w.opened + 1 ELSE 0, to[2])
    BY <2>1, <2>2
  <2>5. \A n \in 1..MaxConns : n > w.opened => ends[<<c, n>>].server = "none"
    BY <2>1
  <2> DEFINE y == Connecting(w, to[1])
  <2>6. /\ to[1] = TRUE \/ to[1] = FALSE
        /\ Good(y) /\ y.attempts = 1 /\ w.opened <= y.opened /\ Leaves(c, y.opened)
        /\ to[1] => y.state = "WRITE_REQUEST"
    BY <2>1, <2>3, <2>4, <2>5, ConnectProperties
  <2>7. IF to[1] THEN Continues(c, y) ELSE Stops(c, y)
    BY <2>2
  <2> HIDE DEF y
  <2>8. \A p : Acts(c, y.opened) /\ p = x.opened => Acts(c, p)
    <3>1. y.opened \in Nat /\ x.opened \in Nat /\ x.opened <= y.opened
      BY <2>1, <2>6, SocketAssumption DEF Good, Client
    <3>2. \A q \in Client : y.opened <= q.opened => x.opened <= q.opened
      BY <3>1, SocketAssumption DEF Client
    <3> QED
      BY <3>2 DEF Acts
  <2>9. CASE to[1] = TRUE
    <3>1. Working(y) /\ Continues(c, y)
      BY <2>6, <2>7, <2>9 DEF Working
    <3> QED
      BY <2>6, <2>8, <3>1, ContinuesActs
  <2>10. CASE to[1] = FALSE
    <3>1. Stops(c, y)
      BY <2>7, <2>10
    <3> QED
      BY <2>6, <2>8, <3>1, StopsActs
  <2> QED
    BY <2>6, <2>9, <2>10
<1> QED
  BY <1>1, <1>2

\* one that reads the header,
LEMMA ReadHeaderActs ==
  ASSUME TypeOK, NEW c \in Clients, NEW x, Working(x),
         NEW text \in Seq(Token), NEW eof \in BOOLEAN, ReadHeader(c, x, text, eof),
         \A n \in 1..MaxConns : n > x.opened => ends[<<c, n>>].server = "none"
  PROVE  Acts(c, x.opened)
<1>1. CASE eof /\ x.header \o text = <<>>
  BY <1>1, RetryActs DEF ReadHeader
<1>2. CASE ~(eof /\ x.header \o text = <<>>)
  <2> DEFINE y == [x EXCEPT !.header = @ \o text]
  <2>1. ParseHeader(c, y, eof) /\ UNCHANGED ends
    BY <1>2 DEF ReadHeader
  <2>2. x.header \o text \in Seq(Token)
    BY ConcatIn DEF Working, Good, Client
  <2>3. Working(y) /\ y.opened = x.opened
    BY <2>2 DEF Working, Good, Client
  <2> QED
    BY <2>1, <2>3, ParseHeaderActs
<1> QED
  BY <1>1, <1>2

\* and one that writes its request.
LEMMA WriteRequestActs ==
  ASSUME TypeOK, NEW c \in Clients, NEW x, Working(x), NEW k \in Conn,
         called[c] # 0, WriteRequest(c, x, k),
         \A n \in 1..MaxConns : n > x.opened => ends[<<c, n>>].server = "none"
  PROVE  Acts(c, x.opened) /\ up' \in [Conn -> Seq(Token)]
<1> DEFINE request == Request(c)
           rest == SubSeq(request, x.written + 1, Len(request))
           w == [x EXCEPT !.state = "READ_HEADER", !.written = Len(request),
                          !.header = <<>>, !.response = <<>>]
<1>1. request \in Seq(Token)
  <2>1. called[c] \in 1..MaxCalls
    <3>1. called[c] \in 0..MaxCalls /\ MaxCalls \in Nat
      BY SocketAssumption DEF TypeOK
    <3> QED
      BY <3>1
  <2>2. <<c, called[c]>> \in CallId
    BY <2>1 DEF CallId
  <2> QED
    BY <2>2, MessageType, SocketAssumption DEF Request
<1>2. rest \in Seq(Token)
  <2>1. x.written + 1 \in Nat \ {0}
    BY DEF Working, Good, Client
  <2> QED
    BY <1>1, <2>1, SubSeqIn, LenProperties
<1>3. Len(request) \in Nat
  BY <1>1, LenProperties
<1>w. WriteRequest(c, x, k) =
        IF ends[k].server = "closed"
        THEN /\ \/ Stops(c, x) /\ UNCHANGED ends
                \/ ReadHeader(c, w, down[k], TRUE)
             /\ UNCHANGED up
        ELSE \E n \in Accepted(rest, up[k]) :
               /\ up' = [up EXCEPT ![k] = @ \o SubSeq(rest, 1, n)]
               /\ IF n = Len(rest) THEN ReadHeader(c, w, down[k], FALSE)
                  ELSE Continues(c, [x EXCEPT !.written = @ + n]) /\ UNCHANGED ends
  BY DEF WriteRequest
<1> HIDE DEF request
<1>4. Working(w) /\ w.opened = x.opened
  BY <1>3, EmptyIn DEF Working, Good, Client
<1>5. /\ up \in [Conn -> Seq(Token)] /\ up[k] \in Seq(Token) /\ down[k] \in Seq(Token)
  BY DEF TypeOK, SockType
<1> HIDE DEF rest, w
<1>6. ASSUME NEW e \in BOOLEAN, ReadHeader(c, w, down[k], e) PROVE Acts(c, x.opened)
  BY <1>4, <1>5, <1>6, ReadHeaderActs
<1>7. CASE ends[k].server = "closed"
  <2>1. CASE Stops(c, x) /\ UNCHANGED ends
    <3>1. Good(x)
      BY DEF Working
    <3> QED
      BY <1>5, <1>7, <1>w, <2>1, <3>1, StopsActs, LeavesAll
  <2>2. CASE ReadHeader(c, w, down[k], TRUE)
    BY <1>5, <1>6, <1>7, <1>w, <2>2
  <2> QED
    BY <1>7, <1>w, <2>1, <2>2
<1>8. CASE ends[k].server # "closed"
  <2>1. PICK n \in Accepted(rest, up[k]) :
          /\ up' = [up EXCEPT ![k] = @ \o SubSeq(rest, 1, n)]
          /\ IF n = Len(rest) THEN ReadHeader(c, w, down[k], FALSE)
             ELSE Continues(c, [x EXCEPT !.written = @ + n]) /\ UNCHANGED ends
    BY <1>8, <1>w
  <2>2. n \in Nat /\ n <= Len(rest)
    BY <1>2, <1>5, <2>1, AcceptedType
  <2>3. up' \in [Conn -> Seq(Token)]
    <3>1. SubSeq(rest, 1, n) \in Seq(Token)
      BY <1>2, <2>2, SubSeqIn
    <3>2. up[k] \o SubSeq(rest, 1, n) \in Seq(Token)
      BY <1>5, <3>1, ConcatIn
    <3> QED
      BY <1>5, <2>1, <3>2
  <2>4. CASE n = Len(rest)
    BY <1>6, <2>1, <2>3, <2>4
  <2>5. CASE n # Len(rest)
    <3> DEFINE y == [x EXCEPT !.written = @ + n]
    <3>1. Continues(c, y) /\ UNCHANGED ends
      BY <2>1, <2>5
    <3>2. /\ x \in Client /\ x.nr # 0 /\ x.nr <= x.opened
          /\ x.state \in {"WRITE_REQUEST", "READ_HEADER", "READ_RESPONSE"}
          /\ x.attempts = 0 => x.opened < MaxConns
      BY DEF Working, Good
    <3>3. x.written + n \in Nat
      BY <2>2, <3>2 DEF Client
    <3>4. /\ y \in Client /\ y.nr = x.nr /\ y.opened = x.opened /\ y.state = x.state
          /\ y.attempts = x.attempts
      BY <3>2, <3>3 DEF Client
    <3> HIDE DEF y
    <3>5. Working(y)
      BY <3>2, <3>4 DEF Working, Good
    <3> QED
      BY <2>3, <3>1, <3>4, <3>5, ContinuesActs, LeavesAll
  <2> QED
    BY <2>4, <2>5
<1> QED
  BY <1>7, <1>8

\* What a client's step leaves: its object fits what it does, the others are as they
\* were, and the server's ends are as they were but for a connection just opened.
ClientKept(c) ==
  /\ client' \in [Clients -> Client] /\ inCall' \in [Clients -> BOOLEAN]
  /\ result' \in [Clients -> Outcome]
  /\ \A d \in Clients \ {c} : client'[d] = client[d] /\ inCall'[d] = inCall[d]
  /\ Good(client'[c])
  /\ inCall'[c] => Working(client'[c])
  /\ client[c].opened <= client'[c].opened
  /\ Leaves(c, client'[c].opened)

\* Acting so keeps what a client needs.
LEMMA ActsKept ==
  ASSUME TypeOK, NEW c \in Clients, inCall[c], Acts(c, client[c].opened)
  PROVE  ClientKept(c)
<1>1. PICK x \in Client :
        /\ Good(x) /\ client[c].opened <= x.opened /\ Leaves(c, x.opened)
        /\ \/ \E res \in Outcome : Returns(c, x, res)
           \/ Working(x) /\ Continues(c, x)
  BY DEF Acts
<1>2. /\ client \in [Clients -> Client] /\ inCall \in [Clients -> BOOLEAN]
      /\ result \in [Clients -> Outcome]
  BY DEF TypeOK
<1>3. CASE \E res \in Outcome : Returns(c, x, res)
  BY <1>1, <1>2, <1>3 DEF Returns, ClientKept
<1>4. CASE Working(x) /\ Continues(c, x)
  BY <1>1, <1>2, <1>4 DEF Continues, ClientKept
<1> QED
  BY <1>1, <1>3, <1>4

\* The connections a client has not opened yet are none of the server's.
Unused == \A c \in Clients, n \in 1..MaxConns :
            n > client[c].opened => ends[<<c, n>>].server = "none"

\* What a client's step leaves of the other variables
OthersTyped(c) ==
  /\ listening' \in BOOLEAN
  /\ up' \in [Conn -> Seq(Token)] /\ down' \in [Conn -> Seq(Token)]
  /\ called' \in [Clients -> 0..MaxCalls]
  /\ \A d \in Clients \ {c} : called'[d] = called[d]
  /\ inCall'[c] => called'[c] # 0
  /\ timedOut' \subseteq CallId /\ timeouts' \in Nat

\* An event of its socket keeps it,
LEMMA ClientEventKept ==
  ASSUME TInv, Unused, NEW c \in Clients, ClientEvent(c)
  PROVE  ClientKept(c) /\ OthersTyped(c)
<1> DEFINE x == client[c]
           k == <<c, x.nr>>
           eof == ends[k].server = "closed"
<1>1. TypeOK /\ inCall[c] /\ called[c] # 0 /\ Working(x) /\ x \in Client
  BY DEF TInv, ClientEvent, Busy, HasSocket, Working, Good, TypeOK
<1>2. k \in Conn
  <2>1. x.nr \in 1..MaxConns
    <3>1. x.nr \in 0..MaxConns /\ x.nr # 0 /\ MaxConns \in Nat
      BY <1>1, SocketAssumption DEF Working, Good, Client
    <3> QED
      BY <3>1
  <2> QED
    BY <2>1 DEF Conn
<1>3. \A n \in 1..MaxConns : n > x.opened => ends[<<c, n>>].server = "none"
  BY DEF Unused
<1>4. /\ \/ x.state = "WRITE_REQUEST" /\ WriteRequest(c, x, k)
         \/ x.state = "READ_HEADER" /\ ReadHeader(c, x, down[k], eof) /\ UNCHANGED up
         \/ x.state = "READ_RESPONSE" /\ ReadResponse(c, x, down[k], eof)
            /\ UNCHANGED <<up, ends>>
      /\ down' = IF x.state = "WRITE_REQUEST" /\ client'[c].state = "WRITE_REQUEST"
                 THEN down ELSE [down EXCEPT ![k] = <<>>]
      /\ UNCHANGED <<listening, called, timedOut, timeouts>>
  BY DEF ClientEvent
<1> HIDE DEF x, k
<1>5. /\ up \in [Conn -> Seq(Token)] /\ down \in [Conn -> Seq(Token)]
      /\ down[k] \in Seq(Token) /\ eof \in BOOLEAN
  BY <1>1, <1>2 DEF TypeOK, SockType
<1> HIDE DEF eof
<1>6. Acts(c, x.opened) /\ up' \in [Conn -> Seq(Token)]
  <2>1. CASE WriteRequest(c, x, k)
    BY <1>1, <1>2, <1>3, <2>1, WriteRequestActs
  <2>2. CASE ReadHeader(c, x, down[k], eof) /\ UNCHANGED up
    BY <1>1, <1>3, <1>5, <2>2, ReadHeaderActs
  <2>3. CASE ReadResponse(c, x, down[k], eof) /\ UNCHANGED <<up, ends>>
    BY <1>1, <1>5, <2>3, ReadResponseActs
  <2> QED
    BY <1>4, <2>1, <2>2, <2>3
<1>7. ClientKept(c)
  BY <1>1, <1>6, ActsKept DEF x
<1>8. down' \in [Conn -> Seq(Token)]
  <2>1. [down EXCEPT ![k] = <<>>] \in [Conn -> Seq(Token)]
    BY <1>5, EmptyIn
  <2> QED
    BY <1>4, <1>5, <2>1
<1> QED
  BY <1>1, <1>4, <1>6, <1>7, <1>8 DEF OthersTyped, TypeOK, SockType

\* the end of its time,
LEMMA TimeoutKept ==
  ASSUME TInv, NEW c \in Clients, Timeout(c)
  PROVE  ClientKept(c) /\ OthersTyped(c)
<1>1. /\ TypeOK /\ inCall[c] /\ called[c] # 0 /\ Good(client[c])
      /\ client \in [Clients -> Client] /\ inCall \in [Clients -> BOOLEAN]
      /\ result \in [Clients -> Outcome]
  BY DEF TInv, Timeout, Busy, HasSocket, Good, TypeOK
<1>2. <<c, called[c]>> \in CallId
  <2>1. called[c] \in 0..MaxCalls /\ MaxCalls \in Nat
    BY <1>1, SocketAssumption DEF TypeOK
  <2>2. called[c] \in 1..MaxCalls
    BY <1>1, <2>1
  <2> QED
    BY <2>2 DEF CallId
<1>3. /\ client' = client /\ inCall' = [inCall EXCEPT ![c] = FALSE]
      /\ result' = [result EXCEPT ![c] = Failed]
  BY <1>1 DEF Timeout, Returns
<1>4. Leaves(c, client'[c].opened)
  BY <1>1, LeavesAll DEF Timeout, sockVars
<1>5. client[c].opened <= client'[c].opened
  BY <1>1, <1>3, SocketAssumption DEF Client, Good
<1>6. ClientKept(c)
  BY <1>1, <1>3, <1>4, <1>5, FailedType DEF ClientKept
<1>7. timeouts' \in Nat /\ timedOut' \subseteq CallId
  <2>1. timeouts' = timeouts + 1 /\ timeouts \in Nat
    BY <1>1 DEF Timeout, TypeOK
  <2>2. timedOut' = timedOut \cup {<<c, called[c]>>} /\ timedOut \subseteq CallId
    BY <1>1 DEF Timeout, TypeOK
  <2> QED
    BY <1>2, <2>1, <2>2
<1> QED
  BY <1>1, <1>6, <1>7 DEF OthersTyped, TypeOK, SockType, Timeout, sockVars

\* the close of its connection
LEMMA CloseClientKept ==
  ASSUME TInv, NEW c \in Clients, CloseClient(c)
  PROVE  ClientKept(c) /\ OthersTyped(c)
<1> DEFINE y == [client[c] EXCEPT !.state = "NO_CONNECTION", !.nr = 0, !.monitored = FALSE]
<1>1. /\ TypeOK /\ ~inCall[c] /\ client[c] \in Client
      /\ client \in [Clients -> Client] /\ inCall \in [Clients -> BOOLEAN]
      /\ result \in [Clients -> Outcome]
  BY DEF TInv, CloseClient, TypeOK
<1>2. client' = [client EXCEPT ![c] = y]
  BY <1>1 DEF CloseClient
<1>3. y \in Client /\ y.opened = client[c].opened /\ y.nr = 0 /\ y.state = "NO_CONNECTION"
  <2>1. 0 \in 0..MaxConns
    BY SocketAssumption
  <2> QED
    BY <1>1, <2>1 DEF Client
<1> HIDE DEF y
<1>4. Good(y) /\ client[c].opened <= y.opened
  BY <1>1, <1>3, SocketAssumption DEF Good, Client
<1>5. Leaves(c, y.opened)
  <2>1. ends' = EndsAfter(c, client[c].nr, 0, "none")
    BY DEF CloseClient
  <2> QED
    BY <1>1, <2>1, EndsAfterNone DEF Leaves
<1>6. client'[c] = y /\ inCall' = inCall /\ result' = result
  BY <1>1, <1>2 DEF CloseClient
<1>7. ClientKept(c)
  BY <1>1, <1>2, <1>3, <1>4, <1>5, <1>6 DEF ClientKept
<1> QED
  BY <1>1, <1>6, <1>7 DEF OthersTyped, TypeOK, SockType, CloseClient

\* and a new call.
LEMMA ExecuteKept ==
  ASSUME TInv, Unused, NEW c \in Clients, Execute(c)
  PROVE  ClientKept(c) /\ OthersTyped(c)
<1> DEFINE x == [client[c] EXCEPT !.attempts = 0]
<1>1. /\ TypeOK /\ client[c] \in Client /\ HasSocket(c)
      /\ client \in [Clients -> Client] /\ inCall \in [Clients -> BOOLEAN]
      /\ result \in [Clients -> Outcome] /\ called \in [Clients -> 0..MaxCalls]
      /\ client[c].opened + 2 <= MaxConns /\ called[c] < MaxCalls
  BY DEF TInv, Execute, TypeOK
<1>2. /\ x \in Client /\ x.opened = client[c].opened /\ x.nr = client[c].nr
      /\ x.state = client[c].state
  BY <1>1 DEF Client
<1>3. /\ x.opened \in Nat /\ x.nr \in Nat /\ x.nr <= x.opened /\ x.opened < MaxConns
      /\ x.opened + 1 < MaxConns
      /\ x.state # "NO_CONNECTION" => x.nr # 0
  <2>1. x.opened \in Nat /\ x.nr \in Nat /\ MaxConns \in Nat
    BY <1>2, SocketAssumption DEF Client
  <2> QED
    BY <1>1, <1>2, <2>1 DEF HasSocket
<1>4. OthersTyped(c)
  <2>1. called' \in [Clients -> 0..MaxCalls] /\ called'[c] # 0
        /\ \A d \in Clients \ {c} : called'[d] = called[d]
    <3>1. called[c] + 1 \in 0..MaxCalls /\ called[c] + 1 # 0
      <4>1. called[c] \in 0..MaxCalls /\ MaxCalls \in Nat
        BY <1>1, SocketAssumption
      <4> QED
        BY <1>1, <4>1
    <3>2. called' = [called EXCEPT ![c] = called[c] + 1]
      BY DEF Execute
    <3> QED
      BY <1>1, <3>1, <3>2
  <2> QED
    BY <1>1, <2>1 DEF OthersTyped, TypeOK, SockType, Execute
<1>5. \/ /\ Keeps(x)
         /\ client' = [client EXCEPT ![c] =
              [x EXCEPT !.state = "WRITE_REQUEST", !.written = 0, !.monitored = TRUE]]
         /\ inCall' = [inCall EXCEPT ![c] = TRUE]
         /\ UNCHANGED <<ends, result>>
      \/ \E to \in Connects :
         /\ ends' = EndsAfter(c, x.nr, IF to[1] THEN x.opened + 1 ELSE 0, to[2])
         /\ client' = [client EXCEPT ![c] = Connecting(x, to[1])]
         /\ inCall' = [inCall EXCEPT ![c] = to[1]]
         /\ result' = IF to[1] THEN result ELSE [result EXCEPT ![c] = Failed]
  BY DEF Execute
<1> HIDE DEF x
<1>6. ASSUME Keeps(x),
             client' = [client EXCEPT ![c] =
               [x EXCEPT !.state = "WRITE_REQUEST", !.written = 0, !.monitored = TRUE]],
             inCall' = [inCall EXCEPT ![c] = TRUE],
             UNCHANGED <<ends, result>>
      PROVE  ClientKept(c)
  <2> DEFINE y == [x EXCEPT !.state = "WRITE_REQUEST", !.written = 0, !.monitored = TRUE]
  <2>1. /\ y \in Client /\ y.nr = x.nr /\ y.opened = x.opened /\ y.state = "WRITE_REQUEST"
    BY <1>2 DEF Client
  <2>2. x.nr # 0
    BY <1>3, <1>6 DEF Keeps
  <2>3. client' = [client EXCEPT ![c] = y]
    BY <1>6
  <2> HIDE DEF y
  <2>4. client'[c] = y
    BY <1>1, <2>3
  <2>5. Good(y) /\ Working(y) /\ client[c].opened <= y.opened
    BY <1>2, <1>3, <2>1, <2>2 DEF Good, Working
  <2>6. Leaves(c, y.opened)
    BY <1>1, <1>6, LeavesAll
  <2> QED
    BY <1>1, <1>6, <2>1, <2>3, <2>4, <2>5, <2>6 DEF ClientKept
<1>7. ASSUME NEW to \in Connects,
             ends' = EndsAfter(c, x.nr, IF to[1] THEN x.opened + 1 ELSE 0, to[2]),
             client' = [client EXCEPT ![c] = Connecting(x, to[1])],
             inCall' = [inCall EXCEPT ![c] = to[1]],
             result' = IF to[1] THEN result ELSE [result EXCEPT ![c] = Failed]
      PROVE  ClientKept(c)
  <2> DEFINE y == Connecting(x, to[1])
  <2>1. \A n \in 1..MaxConns : n > x.opened => ends[<<c, n>>].server = "none"
    BY <1>2 DEF Unused
  <2>2. /\ to[1] = TRUE \/ to[1] = FALSE
        /\ Good(y) /\ x.opened <= y.opened /\ Leaves(c, y.opened)
        /\ to[1] => y.state = "WRITE_REQUEST" /\ y.opened = x.opened + 1
    BY <1>1, <1>2, <1>3, <1>7, <2>1, ConnectProperties
  <2>3. client' = [client EXCEPT ![c] = y]
    BY <1>7
  <2> HIDE DEF y
  <2>4. y \in Client
    BY <2>2 DEF Good
  <2>5. client'[c] = y /\ client[c].opened <= y.opened
    BY <1>1, <1>2, <2>2, <2>3
  <2>6. to[1] => Working(y)
    BY <1>3, <2>2 DEF Working
  <2>7. result' \in [Clients -> Outcome]
    BY <1>1, <1>7, FailedType
  <2>8. CASE to[1] = TRUE
    BY <1>1, <1>7, <2>2, <2>3, <2>4, <2>5, <2>6, <2>7, <2>8 DEF ClientKept
  <2>9. CASE to[1] = FALSE
    BY <1>1, <1>7, <2>2, <2>3, <2>4, <2>5, <2>7, <2>9 DEF ClientKept
  <2> QED
    BY <2>2, <2>8, <2>9
<1> QED
  BY <1>4, <1>5, <1>6, <1>7

\* Every step of a client keeps it, and leaves the server alone.
LEMMA ClientStep ==
  ASSUME TInv, Unused, NEW c \in Clients, Client1(c)
  PROVE  ClientKept(c) /\ OthersTyped(c) /\ UNCHANGED serverVars
BY ClientEventKept, TimeoutKept, CloseClientKept, ExecuteKept DEF Client1

-----------------------------------------------------------------------------
(* The dispatcher *)

Mask(c) == IF c.state = "WRITE_RESPONSE" THEN "write" ELSE "read"

\* Every source is there once; those that are connections are the open ones.
SourcesDistinct == \A i, j \in DOMAIN sources : sources[i].src = sources[j].src => i = j
SourcesOpen ==
  \A i \in DOMAIN sources : sources[i].src \in Conn =>
    /\ ends[sources[i].src].server = "open"
    /\ sources[i].mask = Mask(conn[sources[i].src])
OpenMonitored ==
  \A k \in Conn : ends[k].server = "open" => \E i \in DOMAIN sources : sources[i].src = k

\* What is left of the round's copy is about open connections, each once: none was
\* closed by the handlers of those before it.
RoundDistinct == \A i, j \in DOMAIN round : round[i].src = round[j].src => i = j
RoundOpen == \A i \in DOMAIN round : round[i].src \in Conn =>
               ends[round[i].src].server = "open"

DeadIsEmpty == ~alive => sources = <<>> /\ round = <<>>

\* The inductive invariant
MInv == /\ TInv /\ Unused
        /\ SourcesDistinct /\ SourcesOpen /\ OpenMonitored
        /\ RoundDistinct /\ RoundOpen /\ DeadIsEmpty

\* The invariant says what is to be shown of the monitored connections.
LEMMA MInvImplies == MInv => EveryConnectionMonitored
<1> SUFFICES ASSUME MInv PROVE EveryConnectionMonitored
  OBVIOUS
<1>1. ASSUME NEW k \in Conn, ends[k].server = "open"
      PROVE \E i \in DOMAIN sources : sources[i] = [src |-> k, mask |-> Mask(conn[k])]
  <2>1. PICK i \in DOMAIN sources : sources[i].src = k
    BY <1>1 DEF MInv, OpenMonitored
  <2>2. sources[i].mask = Mask(conn[k])
    BY <2>1 DEF MInv, SourcesOpen
  <2>3. sources[i] \in [src : Source, mask : Waits]
    BY ElementOfSeq, LenProperties DEF MInv, TInv, TypeOK
  <2> QED
    BY <2>1, <2>2, <2>3
<1>2. ASSUME NEW k \in Conn, NEW i \in DOMAIN sources,
             sources[i] = [src |-> k, mask |-> Mask(conn[k])]
      PROVE ends[k].server = "open"
  BY <1>2 DEF MInv, SourcesOpen
<1> QED
  BY <1>1, <1>2 DEF MInv, SourcesDistinct, EveryConnectionMonitored, Mask

\* The listening socket is no connection.
LEMMA ListenerIsNot == Listener \notin Conn
BY DEF Listener, Conn

\* What is left of a round names no source twice, and not the one that was chosen.
LEMMA RestProperties ==
  ASSUME TypeOK, RoundDistinct, RoundOpen, NEW i \in DOMAIN round
  PROVE  /\ \A j \in DOMAIN RestAfter(i) : \E m \in DOMAIN round :
              RestAfter(i)[j] = round[m] /\ round[m].src # round[i].src
         /\ \A j1, j2 \in DOMAIN RestAfter(i) :
              RestAfter(i)[j1].src = RestAfter(i)[j2].src => j1 = j2
<1>1. Len(round) \in Nat /\ i \in 1..Len(round) /\ DOMAIN round = 1..Len(round)
  BY LenProperties DEF TypeOK
<1>2. CASE RestAfter(i) = <<>>
  BY <1>2
<1>3. CASE RestAfter(i) = SubSeq(round, i + 1, Len(round))
  <2>1. \A m \in (i + 1)..Len(round) : round[m] \in Entry
    <3>1. round \in Seq(Entry)
      BY DEF TypeOK, Entry
    <3>2. \A m \in 1..Len(round) : round[m] \in Entry
      BY <3>1, ElementOfSeq
    <3> QED
      BY <1>1, <3>2
  <2>2. i + 1 \in Int /\ Len(round) \in Int
    BY <1>1
  <2>3. /\ Len(RestAfter(i)) = IF i + 1 <= Len(round) THEN Len(round) - (i + 1) + 1 ELSE 0
        /\ RestAfter(i) \in Seq(Entry)
        /\ \A j \in 1..(Len(round) - (i + 1) + 1) : RestAfter(i)[j] = round[((i + 1) + j) - 1]
    BY <1>3, <2>1, <2>2, SubSeqProperties
  <2>4. DOMAIN RestAfter(i) = 1..Len(RestAfter(i))
    BY <2>3, LenProperties
  <2>5. \A j \in DOMAIN RestAfter(i) :
          i + j \in DOMAIN round /\ i + j # i /\ RestAfter(i)[j] = round[i + j] /\ j \in Nat
    <3> SUFFICES ASSUME NEW j \in DOMAIN RestAfter(i)
                 PROVE  i + j \in DOMAIN round /\ i + j # i /\ j \in Nat
                        /\ RestAfter(i)[j] = round[i + j]
      OBVIOUS
    <3>1. i \in Nat /\ Len(round) \in Nat /\ Len(RestAfter(i)) \in Nat /\ 1 <= i
      BY <1>1, <2>3, LenProperties
    <3>2. j \in 1..Len(RestAfter(i))
      BY <2>4
    <3>3. Len(RestAfter(i)) = IF i + 1 <= Len(round) THEN Len(round) - (i + 1) + 1 ELSE 0
      BY <2>3
    <3>4. j \in 1..(Len(round) - (i + 1) + 1) /\ i + j \in 1..Len(round) /\ j # 0
          /\ ((i + 1) + j) - 1 = i + j
      BY <3>1, <3>2, <3>3
    <3>5. RestAfter(i)[j] = round[((i + 1) + j) - 1]
      BY <2>3, <3>4
    <3> QED
      BY <1>1, <3>1, <3>2, <3>4, <3>5
  <2>6. \A j \in DOMAIN RestAfter(i) : round[i + j].src # round[i].src
    BY <2>5 DEF RoundDistinct
  <2>7. ASSUME NEW j1 \in DOMAIN RestAfter(i), NEW j2 \in DOMAIN RestAfter(i),
               RestAfter(i)[j1].src = RestAfter(i)[j2].src
        PROVE  j1 = j2
    <3>1. i + j1 = i + j2
      BY <2>5, <2>7 DEF RoundDistinct
    <3> QED
      BY <1>1, <2>5, <3>1
  <2> QED
    BY <2>5, <2>6, <2>7
<1> QED
  BY <1>2, <1>3 DEF RestAfter

\* The dispatcher's part of a handler keeps the list right.
LEMMA HandledSources ==
  ASSUME MInv, NEW k \in Conn, NEW c \in Connection, Handled(k, c),
         \E i \in DOMAIN sources : sources[i].src = k
  PROVE  /\ SourcesDistinct' /\ SourcesOpen' /\ OpenMonitored'
         /\ \A h \in Conn \ {k} : ends'[h] = ends[h]
         /\ \A h \in Conn : ends[h].server = "none" => ends'[h].server = "none"
<1>1. /\ TypeOK /\ sources \in Seq(Monitored) /\ DOMAIN sources = 1..Len(sources)
      /\ Len(sources) \in Nat
      /\ conn \in [Conn -> Connection] /\ ends \in [Conn -> EndState]
  BY LenProperties DEF MInv, TInv, TypeOK, SockType, Monitored
<1>2. conn' = [conn EXCEPT ![k] = c]
  BY DEF Handled
<1>3. ends[k].server = "open"
  BY DEF MInv, SourcesOpen
<1>4. \A h \in Conn \ {k} : conn'[h] = conn[h]
  BY <1>1, <1>2
<1>5. CASE c.state = "closed"
  <2>1. sources' = Without(sources, k) /\ ends' = [ends EXCEPT ![k].server = "closed"]
    BY <1>5 DEF Handled
  <2> DEFINE w == Without(sources, k)
  <2>w. /\ w \in Seq(Monitored)
        /\ \E i \in 1..Len(sources) :
             /\ sources[i].src = k
             /\ Len(w) = Len(sources) - 1
             /\ \A j \in 1..(Len(sources) - 1) :
                  w[j] = IF j < i THEN sources[j] ELSE sources[j + 1]
    BY <1>1, WithoutProperties
  <2>e. sources' = w
    BY <2>1
  <2> HIDE DEF w
  <2>2. PICK i \in 1..Len(sources) :
          /\ sources[i].src = k
          /\ Len(sources') = Len(sources) - 1
          /\ \A j \in 1..(Len(sources) - 1) :
               sources'[j] = IF j < i THEN sources[j] ELSE sources[j + 1]
    BY <2>w, <2>e
  <2>3. sources' \in Seq(Monitored)
    BY <2>w, <2>e
  <2>4. DOMAIN sources' = 1..(Len(sources) - 1)
    BY <2>2, <2>3, LenProperties
  <2> DEFINE at(j) == IF j < i THEN j ELSE j + 1
  <2>5. \A j \in DOMAIN sources' : at(j) \in DOMAIN sources /\ sources'[j] = sources[at(j)]
                                  /\ at(j) # i
    BY <1>1, <2>2, <2>4
  <2>6. \A j1, j2 \in DOMAIN sources' : at(j1) = at(j2) => j1 = j2
    BY <1>1, <2>2, <2>4
  <2>7. \A m \in DOMAIN sources : m # i => \E j \in DOMAIN sources' : at(j) = m
    <3> SUFFICES ASSUME NEW m \in 1..Len(sources), m # i
                 PROVE  \E j \in 1..(Len(sources) - 1) : at(j) = m
      BY <1>1, <2>4
    <3>1. CASE m < i
      <4>1. m \in 1..(Len(sources) - 1) /\ at(m) = m
        BY <1>1, <3>1
      <4> QED
        BY <4>1
    <3>2. CASE ~(m < i)
      <4>1. m - 1 \in 1..(Len(sources) - 1) /\ at(m - 1) = m
        BY <1>1, <3>2
      <4> QED
        BY <4>1
    <3> QED
      BY <3>1, <3>2
  <2> HIDE DEF at
  <2>8. SourcesDistinct'
    <3> SUFFICES ASSUME NEW j1 \in DOMAIN sources', NEW j2 \in DOMAIN sources',
                        sources'[j1].src = sources'[j2].src
                 PROVE  j1 = j2
      BY DEF SourcesDistinct
    <3>1. sources[at(j1)].src = sources[at(j2)].src
      BY <2>5
    <3>2. at(j1) \in DOMAIN sources /\ at(j2) \in DOMAIN sources
      BY <2>5
    <3>3. at(j1) = at(j2)
      BY <3>1, <3>2 DEF MInv, SourcesDistinct
    <3> QED
      BY <2>6, <3>3
  <2>9. \A j \in DOMAIN sources' : sources'[j].src # k
    BY <1>1, <2>2, <2>5 DEF MInv, SourcesDistinct
  <2>10. \A h \in Conn \ {k} : ends'[h] = ends[h]
    BY <1>1, <2>1
  <2>11. ends'[k].server = "closed"
    BY <1>1, <2>1 DEF EndState
  <2>12. SourcesOpen'
    <3> SUFFICES ASSUME NEW j \in DOMAIN sources', sources'[j].src \in Conn
                 PROVE  /\ ends'[sources'[j].src].server = "open"
                        /\ sources'[j].mask = Mask(conn'[sources'[j].src])
      BY DEF SourcesOpen, Mask
    <3>1. sources'[j] = sources[at(j)] /\ at(j) \in DOMAIN sources
      BY <2>5
    <3>2. /\ ends[sources[at(j)].src].server = "open"
          /\ sources[at(j)].mask = Mask(conn[sources[at(j)].src])
      BY <3>1 DEF MInv, SourcesOpen
    <3>3. sources'[j].src # k
      BY <2>9
    <3>4. /\ ends'[sources'[j].src] = ends[sources'[j].src]
          /\ conn'[sources'[j].src] = conn[sources'[j].src]
      BY <1>4, <2>10, <3>3
    <3> QED
      BY <3>1, <3>2, <3>4
  <2>13. OpenMonitored'
    <3> SUFFICES ASSUME NEW h \in Conn, ends'[h].server = "open"
                 PROVE  \E j \in DOMAIN sources' : sources'[j].src = h
      BY DEF OpenMonitored
    <3>1. h # k /\ ends[h].server = "open"
      BY <2>10, <2>11
    <3>2. PICK m \in DOMAIN sources : sources[m].src = h
      BY <3>1 DEF MInv, OpenMonitored
    <3>3. PICK j \in DOMAIN sources' : at(j) = m
      BY <2>2, <2>7, <3>1, <3>2
    <3> QED
      BY <2>5, <3>2, <3>3
  <2> QED
    BY <1>3, <2>8, <2>10, <2>12, <2>13
<1>6. CASE c.state # "closed"
  <2> DEFINE mask == IF c.state = "WRITE_RESPONSE" THEN "write" ELSE "read"
  <2>1. sources' = setSourceEvents(sources, k, mask) /\ ends' = ends
    BY <1>6 DEF Handled
  <2>2. mask = Mask(conn'[k])
    BY <1>1, <1>2 DEF Mask
  <2> HIDE DEF mask
  <2>3. /\ DOMAIN sources' = DOMAIN sources
        /\ \A i \in DOMAIN sources : sources'[i] =
             IF sources[i].src = k THEN [src |-> k, mask |-> mask] ELSE sources[i]
    BY <2>1 DEF setSourceEvents
  <2>4. \A i \in DOMAIN sources : sources'[i].src = sources[i].src
    BY <2>3
  <2>5. SourcesDistinct'
    BY <2>3, <2>4 DEF MInv, SourcesDistinct
  <2>6. OpenMonitored'
    BY <2>1, <2>3, <2>4 DEF MInv, OpenMonitored
  <2>7. SourcesOpen'
    <3> SUFFICES ASSUME NEW i \in DOMAIN sources', sources'[i].src \in Conn
                 PROVE  /\ ends'[sources'[i].src].server = "open"
                        /\ sources'[i].mask = Mask(conn'[sources'[i].src])
      BY DEF SourcesOpen, Mask
    <3>1. i \in DOMAIN sources /\ sources'[i].src = sources[i].src
      BY <2>3, <2>4
    <3>2. ends[sources[i].src].server = "open" /\ sources[i].mask = Mask(conn[sources[i].src])
      BY <3>1 DEF MInv, SourcesOpen
    <3>3. CASE sources[i].src = k
      <4>1. sources'[i].mask = mask
        BY <2>3, <3>1, <3>3
      <4> QED
        BY <2>1, <2>2, <3>1, <3>2, <3>3, <4>1
    <3>4. CASE sources[i].src # k
      <4>1. sources'[i] = sources[i]
        BY <2>3, <3>1, <3>4
      <4>2. conn'[sources[i].src] = conn[sources[i].src]
        BY <1>4, <3>1, <3>4
      <4> QED
        BY <2>1, <3>1, <3>2, <4>1, <4>2
    <3> QED
      BY <3>3, <3>4
  <2> QED
    BY <2>1, <2>5, <2>6, <2>7
<1> QED
  BY <1>5, <1>6

\* What a step of the server says of the clients' parts of the invariant
LEMMA ServerKeepsClients ==
  ASSUME TInv, TypeOK', UNCHANGED clientVars
  PROVE  TInv'
BY DEF TInv, Busy, HasSocket, clientVars

\* Every step keeps the invariant: the select,
LEMMA SelectInv ==
  ASSUME MInv, Select, UNCHANGED clientVars
  PROVE  MInv'
<1>1. TInv'
  BY SelectType, ServerKeepsClients DEF MInv, TInv
<1>2. Unused' /\ SourcesDistinct' /\ SourcesOpen' /\ OpenMonitored'
  BY DEF MInv, Select, Unused, SourcesDistinct, SourcesOpen, OpenMonitored, Mask,
         sockVars, clientVars
<1>3. DOMAIN round' = DOMAIN sources /\ \A i \in DOMAIN sources : round'[i].src = sources[i].src
  BY DEF Select, CopyOf
<1>4. ends' = ends
  BY DEF Select, sockVars
<1>5. RoundDistinct'
  BY <1>3 DEF MInv, SourcesDistinct, RoundDistinct
<1>6. RoundOpen'
  BY <1>3, <1>4 DEF MInv, SourcesOpen, RoundOpen
<1>7. DeadIsEmpty'
  BY DEF Select, DeadIsEmpty
<1> QED
  BY <1>1, <1>2, <1>5, <1>6, <1>7 DEF MInv

\* The round after entry i, if the step closes no other connection of it
LEMMA RoundKept ==
  ASSUME MInv, NEW i \in DOMAIN round, round' = RestAfter(i),
         \A h \in Conn : h # round[i].src /\ ends[h].server = "open" => ends'[h].server = "open"
  PROVE  RoundDistinct' /\ RoundOpen'
<1>1. /\ \A j \in DOMAIN RestAfter(i) : \E m \in DOMAIN round :
           RestAfter(i)[j] = round[m] /\ round[m].src # round[i].src
      /\ \A j1, j2 \in DOMAIN RestAfter(i) :
           RestAfter(i)[j1].src = RestAfter(i)[j2].src => j1 = j2
  BY RestProperties DEF MInv, TInv
<1>2. RoundDistinct'
  BY <1>1 DEF RoundDistinct
<1>3. ASSUME NEW j \in DOMAIN round', round'[j].src \in Conn
      PROVE  ends'[round'[j].src].server = "open"
  <2>1. PICK m \in DOMAIN round : round'[j] = round[m] /\ round[m].src # round[i].src
    BY <1>1
  <2>2. ends[round[m].src].server = "open"
    BY <1>3, <2>1 DEF MInv, RoundOpen
  <2> QED
    BY <1>3, <2>1, <2>2
<1> QED
  BY <1>2, <1>3 DEF RoundOpen

\* the acceptance of a connection,
LEMMA AcceptInv ==
  ASSUME MInv, AcceptConnection, UNCHANGED clientVars
  PROVE  MInv'
<1>1. TInv'
  BY AcceptType, ServerKeepsClients DEF MInv, TInv
<1>2. PICK i \in DOMAIN round : IsNext(i) /\ round[i].src = Listener /\ round' = RestAfter(i)
  BY DEF AcceptConnection
<1>3. /\ ends \in [Conn -> EndState] /\ conn \in [Conn -> Connection]
      /\ sources \in Seq(Monitored) /\ DOMAIN sources = 1..Len(sources)
      /\ Len(sources) \in Nat /\ alive' = TRUE /\ client' = client
  BY LenProperties DEF MInv, TInv, TypeOK, SockType, Monitored, AcceptConnection, clientVars
<1>4. CASE UNCHANGED <<ends, conn, sources>>
  <2>1. Unused' /\ SourcesDistinct' /\ SourcesOpen' /\ OpenMonitored'
    BY <1>3, <1>4 DEF MInv, Unused, SourcesDistinct, SourcesOpen, OpenMonitored, Mask
  <2>2. RoundDistinct' /\ RoundOpen'
    BY <1>2, <1>4, RoundKept
  <2> QED
    BY <1>1, <1>3, <2>1, <2>2 DEF MInv, DeadIsEmpty
<1>5. ASSUME NEW k \in Conn, ends[k].server = "backlog",
             ends' = [ends EXCEPT ![k].server = "open"],
             conn' = [conn EXCEPT ![k] = NewConnection],
             sources' = Append(sources, [src |-> k, mask |-> "read"])
      PROVE  MInv'
  <2>1. /\ \A h \in Conn \ {k} : ends'[h] = ends[h] /\ conn'[h] = conn[h]
        /\ ends'[k].server = "open" /\ conn'[k] = NewConnection
    BY <1>3, <1>5 DEF EndState
  <2>2. Mask(conn'[k]) = "read"
    BY <2>1 DEF Mask, NewConnection
  <2>3. [src |-> k, mask |-> "read"] \in Monitored
    BY DEF Monitored, Source, Waits
  <2>4. /\ Len(sources') = Len(sources) + 1
        /\ \A j \in 1..Len(sources) : sources'[j] = sources[j]
        /\ sources'[Len(sources) + 1] = [src |-> k, mask |-> "read"]
        /\ sources' \in Seq(Monitored)
    BY <1>3, <1>5, <2>3, AppendProperties
  <2>5. DOMAIN sources' = 1..(Len(sources) + 1)
    BY <2>4, LenProperties
  <2>6. /\ \A j \in DOMAIN sources' : j \in DOMAIN sources \/ j = Len(sources) + 1
        /\ \A j \in DOMAIN sources : j \in DOMAIN sources' /\ sources'[j] = sources[j]
        /\ Len(sources) + 1 \in DOMAIN sources' /\ sources'[Len(sources) + 1].src = k
        /\ sources'[Len(sources) + 1].mask = "read"
    BY <1>3, <2>4, <2>5
  <2>7. \A j \in DOMAIN sources : sources[j].src # k
    BY <1>5 DEF MInv, SourcesOpen
  <2>8. SourcesDistinct'
    BY <2>6, <2>7 DEF MInv, SourcesDistinct
  <2>9. OpenMonitored'
    <3> SUFFICES ASSUME NEW h \in Conn, ends'[h].server = "open"
                 PROVE  \E j \in DOMAIN sources' : sources'[j].src = h
      BY DEF OpenMonitored
    <3>1. CASE h = k
      BY <2>6, <3>1
    <3>2. CASE h # k
      <4>1. PICK j \in DOMAIN sources : sources[j].src = h
        BY <2>1, <3>2 DEF MInv, OpenMonitored
      <4> QED
        BY <2>6, <4>1
    <3> QED
      BY <3>1, <3>2
  <2>10. SourcesOpen'
    <3> SUFFICES ASSUME NEW j \in DOMAIN sources', sources'[j].src \in Conn
                 PROVE  /\ ends'[sources'[j].src].server = "open"
                        /\ sources'[j].mask = Mask(conn'[sources'[j].src])
      BY DEF SourcesOpen, Mask
    <3>1. CASE j = Len(sources) + 1
      BY <2>1, <2>2, <2>6, <3>1
    <3>2. CASE j \in DOMAIN sources
      <4>1. sources'[j] = sources[j] /\ sources[j].src # k
        BY <2>6, <2>7, <3>2
      <4>2. ends[sources[j].src].server = "open" /\ sources[j].mask = Mask(conn[sources[j].src])
        BY <3>2, <4>1 DEF MInv, SourcesOpen
      <4> QED
        BY <2>1, <4>1, <4>2
    <3> QED
      BY <2>6, <3>1, <3>2
  <2>11. Unused'
    <3> SUFFICES ASSUME NEW c \in Clients, NEW n \in 1..MaxConns, n > client[c].opened
                 PROVE  ends'[<<c, n>>].server = "none"
      BY <1>3 DEF Unused
    <3>1. ends[<<c, n>>].server = "none" /\ <<c, n>> \in Conn
      BY DEF MInv, Unused, Conn
    <3> QED
      BY <1>5, <2>1, <3>1
  <2>12. RoundDistinct' /\ RoundOpen'
    <3>1. \A h \in Conn : ends[h].server = "open" => ends'[h].server = "open"
      BY <1>5, <2>1
    <3> QED
      BY <1>2, <3>1, RoundKept
  <2> QED
    BY <1>1, <1>3, <2>8, <2>9, <2>10, <2>11, <2>12 DEF MInv, DeadIsEmpty
<1> QED
  BY <1>4, <1>5 DEF AcceptConnection

\* the handler of a connection,
LEMMA HandleConnectionInv ==
  ASSUME MInv, HandleConnection, UNCHANGED clientVars
  PROVE  MInv'
<1>1. TypeOK /\ alive' = TRUE /\ client' = client
  BY DEF MInv, TInv, HandleConnection, clientVars
<1>2. PICK i \in DOMAIN round, k \in Conn :
        IsNext(i) /\ round[i].src = k /\ round' = RestAfter(i) /\ Handle(k)
  BY DEF HandleConnection
<1>3. \A j \in DOMAIN round : round[j].src \in Conn =>
        \E m \in DOMAIN sources : sources[m].src = round[j].src
  BY DEF MInv, RoundOpen, OpenMonitored
<1>4. TInv'
  BY <1>1, <1>3, HandleConnectionType, ServerKeepsClients DEF MInv
<1>5. \E m \in DOMAIN sources : sources[m].src = k
  BY <1>2, <1>3
<1>6. PICK d \in Connection : Handled(k, d)
  BY <1>1, <1>2, <1>5, HandleType
<1>7. /\ SourcesDistinct' /\ SourcesOpen' /\ OpenMonitored'
      /\ \A h \in Conn \ {k} : ends'[h] = ends[h]
      /\ \A h \in Conn : ends[h].server = "none" => ends'[h].server = "none"
  BY <1>5, <1>6, HandledSources
<1>8. RoundDistinct' /\ RoundOpen'
  BY <1>2, <1>7, RoundKept
<1>9. Unused'
  <2> SUFFICES ASSUME NEW c \in Clients, NEW n \in 1..MaxConns, n > client[c].opened
               PROVE  ends'[<<c, n>>].server = "none"
    BY <1>1 DEF Unused
  <2>1. ends[<<c, n>>].server = "none" /\ <<c, n>> \in Conn
    BY DEF MInv, Unused, Conn
  <2> QED
    BY <1>7, <2>1
<1> QED
  BY <1>1, <1>4, <1>7, <1>8, <1>9 DEF MInv, DeadIsEmpty

\* the death of the process,
LEMMA ServerDiesInv ==
  ASSUME MInv, ServerDies, UNCHANGED clientVars
  PROVE  MInv'
<1>1. TInv'
  BY ServerDiesType, ServerKeepsClients DEF MInv, TInv
<1>2. /\ sources' = <<>> /\ round' = <<>> /\ client' = client
      /\ ends' = [k \in Conn |-> IF ends[k].server \in {"backlog", "open"}
                                THEN [ends[k] EXCEPT !.server = "closed"] ELSE ends[k]]
      /\ ends \in [Conn -> EndState]
  BY DEF ServerDies, clientVars, MInv, TInv, TypeOK, SockType
<1>3. SourcesDistinct' /\ SourcesOpen' /\ RoundDistinct' /\ RoundOpen'
  BY <1>2 DEF SourcesDistinct, SourcesOpen, RoundDistinct, RoundOpen
<1>4. \A k \in Conn : /\ ends'[k].server # "open"
                      /\ ends[k].server = "none" => ends'[k].server = "none"
  BY <1>2 DEF EndState
<1>5. OpenMonitored'
  BY <1>4 DEF OpenMonitored
<1>6. Unused'
  <2> SUFFICES ASSUME NEW c \in Clients, NEW n \in 1..MaxConns, n > client[c].opened
               PROVE  ends'[<<c, n>>].server = "none"
    BY <1>2 DEF Unused
  <2>1. ends[<<c, n>>].server = "none" /\ <<c, n>> \in Conn
    BY DEF MInv, Unused, Conn
  <2> QED
    BY <1>4, <2>1
<1> QED
  BY <1>1, <1>2, <1>3, <1>5, <1>6 DEF MInv, DeadIsEmpty

\* its new start
LEMMA ServerStartsInv ==
  ASSUME MInv, ServerStarts, UNCHANGED clientVars
  PROVE  MInv'
<1>1. TInv'
  BY ServerStartsType, ServerKeepsClients DEF MInv, TInv
<1>2. /\ sources = <<>> /\ round = <<>> /\ round' = round /\ ends' = ends /\ alive' = TRUE
      /\ client' = client
      /\ sources' = <<[src |-> Listener, mask |-> "read"]>> \/ sources' = <<>>
  BY DEF MInv, DeadIsEmpty, ServerStarts, clientVars
<1>3. \A k \in Conn : ends[k].server # "open"
  BY <1>2 DEF MInv, OpenMonitored
<1>4. \A i \in DOMAIN sources' : i = 1 /\ sources'[i].src \notin Conn
  <2>1. CASE sources' = <<>>
    BY <2>1
  <2>2. CASE sources' = <<[src |-> Listener, mask |-> "read"]>>
    BY <2>2, ListenerIsNot
  <2> QED
    BY <1>2, <2>1, <2>2
<1>5. SourcesDistinct' /\ SourcesOpen' /\ OpenMonitored'
  BY <1>2, <1>3, <1>4 DEF SourcesDistinct, SourcesOpen, OpenMonitored
<1>6. RoundDistinct' /\ RoundOpen' /\ Unused'
  BY <1>2 DEF MInv, RoundDistinct, RoundOpen, Unused
<1> QED
  BY <1>1, <1>2, <1>5, <1>6 DEF MInv, DeadIsEmpty

\* and every step of a client.
LEMMA ClientInv ==
  ASSUME MInv, NEW c \in Clients, Client1(c)
  PROVE  MInv'
<1>1. /\ ClientKept(c) /\ OthersTyped(c) /\ UNCHANGED serverVars /\ TInv /\ Unused
      /\ TypeOK
  BY ClientStep DEF MInv, TInv
<1>2. /\ ends' \in [Conn -> EndState]
      /\ \A k \in Conn : ends'[k].server = "open" <=> ends[k].server = "open"
      /\ \A k \in Conn : k # <<c, client'[c].opened>> => ends'[k].server = ends[k].server
  BY <1>1 DEF ClientKept, Leaves
<1>3. TypeOK'
  BY <1>1, <1>2 DEF TypeOK, SockType, ClientKept, OthersTyped, serverVars
<1>4. ASSUME NEW d \in Clients PROVE Busy(d)' /\ HasSocket(d)'
  <2>1. CASE d = c
    BY <1>1, <2>1 DEF ClientKept, OthersTyped, Good, Working, Busy, HasSocket
  <2>2. CASE d # c
    <3>1. /\ client'[d] = client[d] /\ inCall'[d] = inCall[d] /\ called'[d] = called[d]
      BY <1>1, <2>2 DEF ClientKept, OthersTyped
    <3>2. Busy(d) /\ HasSocket(d)
      BY <1>1 DEF TInv
    <3> QED
      BY <3>1, <3>2 DEF Busy, HasSocket
  <2> QED
    BY <2>1, <2>2
<1>5. Unused'
  <2> SUFFICES ASSUME NEW d \in Clients, NEW n \in 1..MaxConns, n > client'[d].opened
               PROVE  ends'[<<d, n>>].server = "none"
    BY DEF Unused
  <2>1. <<d, n>> \in Conn
    BY DEF Conn
  <2>2. CASE d = c
    <3>1. client[c].opened \in Nat /\ client'[c].opened \in Nat /\ n \in Nat
          /\ client[c].opened <= client'[c].opened
      BY <1>1, SocketAssumption DEF TypeOK, ClientKept, Client
    <3>2. n > client[c].opened /\ n # client'[c].opened
      BY <2>2, <3>1
    <3>3. <<d, n>> # <<c, client'[c].opened>>
      BY <3>2
    <3> QED
      BY <1>1, <1>2, <2>1, <2>2, <3>2, <3>3 DEF Unused
  <2>3. CASE d # c
    <3>1. client'[d] = client[d] /\ <<d, n>> # <<c, client'[c].opened>>
      BY <1>1, <2>3 DEF ClientKept
    <3> QED
      BY <1>1, <1>2, <2>1, <3>1 DEF Unused
  <2> QED
    BY <2>2, <2>3
<1>6. SourcesDistinct' /\ RoundDistinct' /\ DeadIsEmpty'
  BY <1>1 DEF MInv, SourcesDistinct, RoundDistinct, DeadIsEmpty, serverVars
<1>7. SourcesOpen' /\ OpenMonitored' /\ RoundOpen'
  BY <1>1, <1>2 DEF MInv, SourcesOpen, OpenMonitored, RoundOpen, serverVars, Mask
<1> QED
  BY <1>3, <1>4, <1>5, <1>6, <1>7 DEF MInv, TInv

\* At the start there is no connection, and the listener is monitored.
LEMMA InitInv == Init => MInv
<1> SUFFICES ASSUME Init PROVE MInv
  OBVIOUS
<1> USE DEF Init, SockInit, ServerInit, ClientInit
<1>1. SockType
  BY EmptyIn DEF SockType, EndState
<1>2. sources \in Seq([src : Source, mask : Waits])
  BY ListenerMonitored DEF Monitored
<1>3. client \in [Clients -> Client]
  <2>1. 0 \in 0..MaxConns
    BY SocketAssumption
  <2> QED
    BY <2>1, EmptyIn DEF Client
<1>4. TypeOK
  <2>1. conn \in [Conn -> Connection]
    BY NewType
  <2>2. called \in [Clients -> 0..MaxCalls]
    BY SocketAssumption
  <2>3. result \in [Clients -> Outcome]
    BY FailedType
  <2> QED
    BY <1>1, <1>2, <1>3, <2>1, <2>2, <2>3, EmptyIn DEF TypeOK
<1>5. \A c \in Clients : Busy(c) /\ HasSocket(c)
  BY DEF Busy, HasSocket
<1>6. \A k \in Conn : ends[k].server = "none"
  OBVIOUS
<1>7. Unused /\ OpenMonitored
  BY <1>6 DEF Unused, OpenMonitored, Conn
<1>8. \A i \in DOMAIN sources : i = 1 /\ sources[i].src \notin Conn
  BY ListenerIsNot
<1>9. SourcesDistinct /\ SourcesOpen
  BY <1>8 DEF SourcesDistinct, SourcesOpen
<1>10. RoundDistinct /\ RoundOpen /\ DeadIsEmpty
  BY DEF RoundDistinct, RoundOpen, DeadIsEmpty
<1> QED
  BY <1>4, <1>5, <1>7, <1>9, <1>10 DEF MInv, TInv

\* Every step keeps the first inductive invariant.
LEMMA NextInv == MInv /\ [Next]_vars => MInv'
<1> SUFFICES ASSUME MInv, [Next]_vars PROVE MInv'
  OBVIOUS
<1>1. CASE Server
  BY <1>1, SelectInv, AcceptInv, HandleConnectionInv, ServerDiesInv, ServerStartsInv
     DEF Server, ServerStep
<1>2. ASSUME NEW c \in Clients, Client1(c) PROVE MInv'
  BY <1>2, ClientInv
<1>3. CASE UNCHANGED vars
  BY <1>3 DEF MInv, TInv, TypeOK, SockType, Busy, HasSocket, Unused, SourcesDistinct, SourcesOpen,
              OpenMonitored, RoundDistinct, RoundOpen, DeadIsEmpty, Mask,
              vars, sockVars, serverVars, clientVars
<1> QED
  BY <1>1, <1>2, <1>3 DEF Next, Idle

-----------------------------------------------------------------------------
(* The theorems *)

\* It holds.
LEMMA Inductive == Spec => []MInv
<1>1. Init => MInv
  BY InitInv
<1>2. MInv /\ [Next]_vars => MInv'
  BY NextInv
<1> QED
  BY <1>1, <1>2, PTL DEF Spec

\* Every variable of clients, sockets and server keeps its type; in particular the
\* answer a call returns is read from within the text received.
THEOREM TypeCorrect == Spec => []TypeOK
<1>1. MInv => TypeOK
  BY DEF MInv, TInv
<1> QED
  BY <1>1, Inductive, PTL

\* However the rounds of the dispatcher, the clients and the deaths of the process
\* interleave, every open connection is monitored, once, and no closed one is.
THEOREM ConnectionsMonitored == Spec => []EveryConnectionMonitored
<1>1. MInv => EveryConnectionMonitored
  BY MInvImplies
<1> QED
  BY <1>1, Inductive, PTL

\* A handler runs only for a connection that is open: the copy of the list that a
\* round goes through never names an object that was deleted in the round.
THEOREM HandledIsOpen ==
  Spec => [][HandleConnection => \A i \in DOMAIN round, k \in Conn :
               IsNext(i) /\ round[i].src = k => ends[k].server = "open"]_vars
<1>1. MInv => \A i \in DOMAIN round, k \in Conn :
               IsNext(i) /\ round[i].src = k => ends[k].server = "open"
  BY DEF MInv, RoundOpen
<1>2. MInv /\ [Next]_vars =>
        [HandleConnection => \A i \in DOMAIN round, k \in Conn :
           IsNext(i) /\ round[i].src = k => ends[k].server = "open"]_vars
  BY <1>1
<1> QED
  BY <1>2, Inductive, PTL DEF Spec

-----------------------------------------------------------------------------
(* Parts of messages *)

\* The text is what the message has after its first from tokens.
Piece(text, id, from, len) ==
  /\ from + Len(text) <= len + 2
  /\ \A i \in 1..Len(text) : text[i] = Message(id, len)[from + i]

\* The length of a message
LEMMA MessageProperties ==
  ASSUME NEW id \in CallId \cup {NoCall}, NEW len \in Nat
  PROVE  Message(id, len) \in Seq(Token) /\ Len(Message(id, len)) = len + 2
<1>1. Message(id, len) \in Seq(Token)
  BY MessageType
<1>2. DOMAIN Message(id, len) = 1..(len + 2) /\ len + 2 \in Nat
  BY DEF Message
<1>3. DOMAIN Message(id, len) = 1..Len(Message(id, len)) /\ Len(Message(id, len)) \in Nat
  BY <1>1, LenProperties
<1> QED
  BY <1>1, <1>2, <1>3

\* Nothing is a piece of every message, from any place.
LEMMA PieceEmpty ==
  ASSUME NEW id, NEW from \in Nat, NEW len \in Nat, from <= len + 2
  PROVE  Piece(<<>>, id, from, len)
BY EmptySeq DEF Piece

\* A text is a part of a message if its two halves are.
LEMMA PieceConcat ==
  ASSUME NEW s \in Seq(Token), NEW t \in Seq(Token), NEW id, NEW from \in Nat, NEW len \in Nat
  PROVE  Piece(s \o t, id, from, len)
           <=> Piece(s, id, from, len) /\ Piece(t, id, from + Len(s), len)
<1>1. /\ Len(s) \in Nat /\ Len(t) \in Nat /\ Len(s \o t) = Len(s) + Len(t)
      /\ \A i \in 1..(Len(s) + Len(t)) :
           (s \o t)[i] = IF i <= Len(s) THEN s[i] ELSE t[i - Len(s)]
  BY ConcatProperties, LenProperties
<1>2. ASSUME Piece(s \o t, id, from, len)
      PROVE  Piece(s, id, from, len) /\ Piece(t, id, from + Len(s), len)
  <2>1. /\ from + (Len(s) + Len(t)) <= len + 2
        /\ \A i \in 1..(Len(s) + Len(t)) : (s \o t)[i] = Message(id, len)[from + i]
    BY <1>1, <1>2 DEF Piece
  <2>2. \A i \in 1..Len(s) : s[i] = Message(id, len)[from + i]
    <3>1. \A i \in 1..Len(s) : i \in 1..(Len(s) + Len(t)) /\ i <= Len(s)
      BY <1>1
    <3> QED
      BY <1>1, <2>1, <3>1
  <2>3. ASSUME NEW i \in 1..Len(t) PROVE t[i] = Message(id, len)[(from + Len(s)) + i]
    <3>1. /\ Len(s) + i \in 1..(Len(s) + Len(t)) /\ ~(Len(s) + i <= Len(s))
          /\ (Len(s) + i) - Len(s) = i /\ from + (Len(s) + i) = (from + Len(s)) + i
      BY <1>1
    <3> QED
      BY <1>1, <2>1, <3>1
  <2> QED
    BY <1>1, <2>1, <2>2, <2>3 DEF Piece
<1>3. ASSUME Piece(s, id, from, len), Piece(t, id, from + Len(s), len)
      PROVE  Piece(s \o t, id, from, len)
  <2>1. ASSUME NEW i \in 1..(Len(s) + Len(t)) PROVE (s \o t)[i] = Message(id, len)[from + i]
    <3>1. CASE i <= Len(s)
      BY <1>1, <1>3, <3>1 DEF Piece
    <3>2. CASE ~(i <= Len(s))
      <4>1. i - Len(s) \in 1..Len(t) /\ (from + Len(s)) + (i - Len(s)) = from + i
        BY <1>1, <3>2
      <4> QED
        BY <1>1, <1>3, <3>2, <4>1 DEF Piece
    <3> QED
      BY <3>1, <3>2
  <2> QED
    BY <1>1, <1>3, <2>1 DEF Piece
<1> QED
  BY <1>2, <1>3

\* So is what is left when the end of one is lost.
LEMMA PieceCut ==
  ASSUME NEW t \in Seq(Token), NEW id, NEW from \in Nat, NEW len \in Nat, NEW n \in Int,
         n <= Len(t), Piece(t, id, from, len)
  PROVE  /\ Piece(SubSeq(t, 1, n), id, from, len)
         /\ Len(SubSeq(t, 1, n)) = IF 1 <= n THEN n ELSE 0
         /\ SubSeq(t, 1, n) \in Seq(Token)
<1>1. Len(t) \in Nat /\ \A i \in 1..n : t[i] \in Token
  BY ElementOfSeq, LenProperties
<1>2. /\ SubSeq(t, 1, n) \in Seq(Token)
      /\ Len(SubSeq(t, 1, n)) = IF 1 <= n THEN n - 1 + 1 ELSE 0
      /\ \A i \in 1..(n - 1 + 1) : SubSeq(t, 1, n)[i] = t[1 + i - 1]
  BY <1>1, SubSeqProperties, 1 \in Int
<1>3. \A i \in 1..Len(SubSeq(t, 1, n)) : SubSeq(t, 1, n)[i] = t[i] /\ i \in 1..Len(t)
  BY <1>1, <1>2
<1> QED
  BY <1>1, <1>2, <1>3 DEF Piece

\* What is left of a message after its first w tokens
Rest(id, len, w) == SubSeq(Message(id, len), w + 1, len + 2)

\* What is left of a message is a piece of it.
LEMMA RestOfMessage ==
  ASSUME NEW id \in CallId \cup {NoCall}, NEW len \in Nat, NEW w \in Nat, w < len + 2
  PROVE  /\ Rest(id, len, w) \in Seq(Token) /\ Len(Rest(id, len, w)) = len + 2 - w
         /\ Piece(Rest(id, len, w), id, w, len)
<1> DEFINE rest == SubSeq(Message(id, len), w + 1, len + 2)
<1>1. /\ Message(id, len) \in Seq(Token) /\ Len(Message(id, len)) = len + 2
      /\ \A i \in (w + 1)..(len + 2) : Message(id, len)[i] \in Token
  <2>1. Message(id, len) \in Seq(Token) /\ Len(Message(id, len)) = len + 2
    BY MessageProperties, Zenon
  <2> QED
    BY <2>1, ElementOfSeq
<1>2. /\ rest \in Seq(Token)
      /\ Len(rest) = IF w + 1 <= len + 2 THEN (len + 2) - (w + 1) + 1 ELSE 0
      /\ \A i \in 1..((len + 2) - (w + 1) + 1) : rest[i] = Message(id, len)[(w + 1) + i - 1]
  <2>1. w + 1 \in Int /\ len + 2 \in Int
    OBVIOUS
  <2> QED
    BY <1>1, <2>1, SubSeqProperties
<1>3. Len(rest) = len + 2 - w
  BY <1>2
<1>4. Piece(rest, id, w, len)
  BY <1>2, <1>3 DEF Piece
<1> QED
  BY <1>2, <1>3, <1>4 DEF Rest

\* What nbWrite takes of it continues what was written before.
LEMMA PieceWritten ==
  ASSUME NEW id \in CallId \cup {NoCall}, NEW len \in Nat, NEW w \in Nat, w < len + 2,
         NEW buffer \in Seq(Token), NEW n \in Accepted(Rest(id, len, w), buffer)
  PROVE  /\ n \in Nat /\ w + n <= len + 2
         /\ SubSeq(Rest(id, len, w), 1, n) \in Seq(Token)
         /\ Len(SubSeq(Rest(id, len, w), 1, n)) = n
         /\ Piece(SubSeq(Rest(id, len, w), 1, n), id, w, len)
         /\ buffer = <<>> => n # 0
<1> DEFINE rest == Rest(id, len, w)
<1>1. rest \in Seq(Token) /\ Len(rest) = len + 2 - w /\ Piece(rest, id, w, len)
  BY RestOfMessage
<1> HIDE DEF rest
<1>2. n \in Accepted(rest, buffer)
  BY DEF rest
<1>3. n \in Nat /\ n \in Int /\ n <= Len(rest)
  BY <1>1, <1>2, AcceptedType
<1>4. ASSUME buffer = <<>> PROVE n # 0
  <2>1. Len(buffer) = 0 /\ Capacity \in Nat \ {0} /\ Len(rest) \in Nat \ {0}
    BY <1>1, <1>4, SocketAssumption
  <2> QED
    BY <1>2, <2>1 DEF Accepted
<1>5. /\ Piece(SubSeq(rest, 1, n), id, w, len) /\ SubSeq(rest, 1, n) \in Seq(Token)
      /\ Len(SubSeq(rest, 1, n)) = IF 1 <= n THEN n ELSE 0
  BY <1>1, <1>3, PieceCut
<1>6. Len(SubSeq(rest, 1, n)) = n /\ w + n <= len + 2
  BY <1>1, <1>3, <1>5
<1> QED
  BY <1>3, <1>4, <1>5, <1>6 DEF rest

\* A token tells whose message it is.
LEMMA PieceOne ==
  ASSUME NEW t \in Seq(Token), NEW a \in CallId \cup {NoCall}, NEW b \in CallId \cup {NoCall},
         NEW f \in Nat, NEW g \in Nat, NEW len \in Nat,
         Piece(t, a, f, len), Piece(t, b, g, len), t # <<>>
  PROVE  a = b
<1>1. Len(t) \in Nat \ {0}
  BY EmptySeq
<1>2. /\ t[1] = Message(a, len)[f + 1] /\ f + 1 \in 1..(len + 2)
      /\ t[1] = Message(b, len)[g + 1] /\ g + 1 \in 1..(len + 2)
  BY <1>1 DEF Piece
<1>3. \A i \in 1..(len + 2) : Message(a, len)[i].call = a
  BY DEF Message
<1>4. \A i \in 1..(len + 2) : Message(b, len)[i].call = b
  BY DEF Message
<1>5. t[1].call = a
  BY <1>2, <1>3
<1>6. t[1].call = b
  BY <1>2, <1>4
<1> QED
  BY <1>5, <1>6

\* The header of a message ends after its second token, once something follows.
LEMMA PieceHeader ==
  ASSUME NEW h \in Seq(Token), NEW id \in CallId \cup {NoCall}, NEW len \in Nat,
         Piece(h, id, 0, len)
  PROVE  /\ Len(h) <= 2 <=> HeaderEnds(h) = {}
         /\ Len(h) > 2 =>
              /\ HasHead(h) /\ Head(h).call = id
              /\ AfterHeader(h) \in Seq(Token) /\ Len(AfterHeader(h)) = Len(h) - 2
              /\ Piece(AfterHeader(h), id, 2, len)
<1>1. /\ Len(h) \in Nat /\ DOMAIN h = 1..Len(h) /\ Len(h) <= len + 2
      /\ \A i \in 1..Len(h) : /\ h[i].call = id /\ i \in 1..(len + 2)
                              /\ h[i].part = "head" <=> i = 1
                              /\ h[i].part = "blank" <=> i = 2
  <2>1. Len(h) \in Nat /\ DOMAIN h = 1..Len(h)
    BY LenProperties
  <2>2. Len(h) <= len + 2 /\ \A i \in 1..Len(h) : h[i] = Message(id, len)[i] /\ i \in 1..(len + 2)
    BY <2>1 DEF Piece
  <2>3. /\ \A i \in 1..(len + 2) : Message(id, len)[i].call = id
        /\ \A i \in 1..(len + 2) : Message(id, len)[i].part = "head" <=> i = 1
        /\ \A i \in 1..(len + 2) : Message(id, len)[i].part = "blank" <=> i = 2
    BY DEF Message
  <2> QED
    BY <2>1, <2>2, <2>3
<1>2. HeaderEnds(h) = IF Len(h) > 2 THEN {2} ELSE {}
  BY <1>1 DEF HeaderEnds, HasPart
<1>3. ASSUME Len(h) > 2
      PROVE /\ HasHead(h) /\ Head(h).call = id
            /\ AfterHeader(h) \in Seq(Token) /\ Len(AfterHeader(h)) = Len(h) - 2
            /\ Piece(AfterHeader(h), id, 2, len)
  <2>1. HasHead(h)
    BY <1>1, <1>2, <1>3 DEF HasHead, HasPart
  <2>2. Head(h).call = id
    <3>1. Head(h) = h[1]
      BY <1>1, <1>3
    <3> QED
      BY <1>1, <1>3, <3>1
  <2>3. AfterHeader(h) = SubSeq(h, 3, Len(h))
    <3> DEFINE i == CHOOSE i \in HeaderEnds(h) : \A j \in HeaderEnds(h) : i <= j
    <3>1. AfterHeader(h) = SubSeq(h, i + 1, Len(h))
      BY DEF AfterHeader
    <3>2. i \in HeaderEnds(h)
      BY <1>2, <1>3
    <3> HIDE DEF i
    <3>3. i = 2
      BY <1>2, <1>3, <3>2
    <3> QED
      BY <3>1, <3>3
  <2>4. \A i \in 3..Len(h) : h[i] \in Token
    BY ElementOfSeq
  <2>5. /\ SubSeq(h, 3, Len(h)) \in Seq(Token)
        /\ Len(SubSeq(h, 3, Len(h))) = IF 3 <= Len(h) THEN Len(h) - 3 + 1 ELSE 0
        /\ \A i \in 1..(Len(h) - 3 + 1) : SubSeq(h, 3, Len(h))[i] = h[3 + i - 1]
    <3>1. Len(h) \in Int /\ 3 \in Int
      BY <1>1
    <3> QED
      BY <2>4, <3>1, SubSeqProperties
  <2>6. Len(SubSeq(h, 3, Len(h))) = Len(h) - 2
    BY <1>1, <1>3, <2>5
  <2>7. \A i \in 1..(Len(h) - 2) : SubSeq(h, 3, Len(h))[i] = Message(id, len)[2 + i]
    <3>1. \A i \in 1..(Len(h) - 2) : /\ i \in 1..(Len(h) - 3 + 1) /\ 3 + i - 1 = 2 + i
                                     /\ 2 + i \in 1..Len(h)
      BY <1>1
    <3>2. \A i \in 1..Len(h) : h[i] = Message(id, len)[i]
      BY <1>1 DEF Piece
    <3> QED
      BY <2>5, <3>1, <3>2
  <2> QED
    BY <1>1, <2>1, <2>2, <2>3, <2>5, <2>6, <2>7 DEF Piece
<1>4. Len(h) <= 2 <=> HeaderEnds(h) = {}
  BY <1>1, <1>2
<1> QED
  BY <1>3, <1>4, Zenon

\* A whole body is the call's; so are the texts the two parsers take for one.
LEMMA PieceBody ==
  ASSUME NEW r \in Seq(Token), NEW id \in CallId \cup {NoCall}, NEW len \in Nat \ {0},
         Piece(r, id, 2, len), Len(r) >= len
  PROVE  Len(r) = len /\ \A i \in 1..len : r[i] = [call |-> id, part |-> "body"]
<1>1. Len(r) \in Nat /\ Len(r) = len
  BY LenProperties DEF Piece
<1>2. ASSUME NEW i \in 1..len PROVE r[i] = [call |-> id, part |-> "body"]
  <2>1. 2 + i \in 3..(len + 2)
    OBVIOUS
  <2>2. r[i] = Message(id, len)[2 + i]
    BY <1>1 DEF Piece
  <2>3. \A j \in 3..(len + 2) : Message(id, len)[j] = [call |-> id, part |-> "body"]
    BY DEF Message
  <2> QED
    BY <2>1, <2>2, <2>3
<1> QED
  BY <1>1, <1>2

\* A complete request names the call of the message it is a piece of,
LEMMA CallOfPiece ==
  ASSUME NEW r \in Seq(Token), NEW id \in CallId, Piece(r, id, 2, BodyLen), Len(r) >= BodyLen
  PROVE  CallOf(r) = id
<1>1. BodyLen \in Nat \ {0}
  BY SocketAssumption
<1>2. \A i \in 1..BodyLen : r[i] = [call |-> id, part |-> "body"]
  BY <1>1, PieceBody
<1> QED
  BY <1>1, <1>2 DEF CallOf

\* and a complete response is the answer to that call.
LEMMA CallAnsweredPiece ==
  ASSUME NEW r \in Seq(Token), NEW id \in CallId, Piece(r, id, 2, ReplyLen), Len(r) >= ReplyLen
  PROVE  CallAnswered(r) = [ok |-> TRUE, call |-> id]
<1>1. ReplyLen \in Nat \ {0}
  BY SocketAssumption
<1>2. \A i \in 1..ReplyLen : r[i] = [call |-> id, part |-> "body"]
  BY <1>1, PieceBody
<1>3. r[1].call = id
  BY <1>1, <1>2
<1> QED
  BY <1>2, <1>3 DEF CallAnswered

-----------------------------------------------------------------------------
(* What the two ends of a connection hold of a request and of its answer *)

\* The connection object and its buffer have the beginning of the request of call id;
\* nothing of it, perhaps.
Reading(x, text, id) ==
  /\ x.response = <<>> /\ x.state # "WRITE_RESPONSE"
  /\ IF x.state = "READ_REQUEST"
     THEN /\ x.request # <<>> /\ Len(x.request) < BodyLen
          /\ Piece(x.request, id, 2, BodyLen) /\ Piece(text, id, 2 + Len(x.request), BodyLen)
     ELSE /\ Len(x.header) <= 2
          /\ Piece(x.header, id, 0, BodyLen) /\ Piece(text, id, Len(x.header), BodyLen)

\* The length of that beginning
Got(x, text) ==
  (IF x.state = "READ_REQUEST" THEN 2 + Len(x.request) ELSE Len(x.header)) + Len(text)

\* The connection object has the answer to call id, and not yet written all of it.
Writing(x, text, id) ==
  /\ x.state = "WRITE_RESPONSE" /\ x.response = Message(id, ReplyLen)
  /\ x.written < ReplyLen + 2 /\ text = <<>>

\* The types of the fields of a connection object
LEMMA ConnectionFields ==
  ASSUME NEW x \in Connection
  PROVE  /\ x.header \in Seq(Token) /\ Len(x.header) \in Nat
         /\ x.request \in Seq(Token) /\ Len(x.request) \in Nat
         /\ x.response \in Seq(Token) /\ x.written \in Nat /\ x.keep \in BOOLEAN
         /\ x.state \in {"READ_HEADER", "READ_REQUEST", "WRITE_RESPONSE", "closed"}
BY LenProperties DEF Connection

\* How much of a request may be held; if it is nothing, both buffers are empty.
LEMMA GotType ==
  ASSUME NEW x \in Connection, NEW text \in Seq(Token), NEW id, Reading(x, text, id)
  PROVE  /\ Got(x, text) \in Nat /\ Got(x, text) <= BodyLen + 2
         /\ Got(x, text) = 0 => x.state # "READ_REQUEST" /\ x.header = <<>> /\ text = <<>>
<1>1. /\ Len(text) \in Nat /\ Len(x.request) \in Nat /\ Len(x.header) \in Nat
      /\ BodyLen \in Nat
  BY ConnectionFields, LenProperties, SocketAssumption
<1>2. /\ Got(x, text) \in Nat /\ Got(x, text) <= BodyLen + 2
      /\ Got(x, text) = 0 => x.state # "READ_REQUEST" /\ Len(x.header) = 0 /\ Len(text) = 0
  BY <1>1 DEF Reading, Got, Piece
<1>3. /\ Len(x.header) = 0 => x.header = <<>>
      /\ Len(text) = 0 => text = <<>>
  <2>1. x.header \in Seq(Token)
    BY ConnectionFields
  <2> QED
    BY <2>1, EmptySeq
<1> QED
  BY <1>2, <1>3

\* A connection without a token is one of any call; a token tells the call.
LEMMA ReadingNothing ==
  ASSUME NEW x \in Connection, NEW text \in Seq(Token), NEW id, NEW jd,
         Reading(x, text, id), Got(x, text) = 0
  PROVE  Reading(x, text, jd)
<1>1. x.state # "READ_REQUEST" /\ x.header = <<>> /\ text = <<>>
  BY GotType
<1>2. Piece(<<>>, jd, 0, BodyLen) /\ Len(<<>>) = 0
  BY PieceEmpty, SocketAssumption
<1> QED
  BY <1>1, <1>2 DEF Reading

\* If it is something, it is of one call only.
LEMMA ReadingOne ==
  ASSUME NEW x \in Connection, NEW text \in Seq(Token), NEW id \in CallId, NEW jd \in CallId,
         Reading(x, text, id), Reading(x, text, jd), Got(x, text) # 0
  PROVE  id = jd
<1>1. /\ x.header \in Seq(Token) /\ x.request \in Seq(Token)
      /\ Len(x.header) \in Nat /\ Len(x.request) \in Nat /\ BodyLen \in Nat
  BY ConnectionFields, SocketAssumption
<1>2. CASE x.state = "READ_REQUEST"
  BY <1>1, <1>2, PieceOne DEF Reading
<1>3. CASE x.state # "READ_REQUEST" /\ x.header # <<>>
  BY <1>1, <1>3, PieceOne DEF Reading
<1>4. CASE x.state # "READ_REQUEST" /\ x.header = <<>>
  <2>1. text # <<>>
    BY <1>4, EmptySeq DEF Got
  <2> QED
    BY <1>1, <1>4, <2>1, PieceOne DEF Reading
<1> QED
  BY <1>2, <1>3, <1>4

\* What a handler makes of a connection that reads: it goes on reading, runs the call
\* when its request is whole, or sees that the client has gone before.
LEMMA readRequestReading ==
  ASSUME NEW x \in Connection, NEW text \in Seq(Token), NEW eof \in BOOLEAN,
         NEW id \in CallId, x.response = <<>>,
         Piece(x.request, id, 2, BodyLen), Piece(text, id, 2 + Len(x.request), BodyLen),
         x.request # <<>>, text # <<>> => Len(x.request) < BodyLen, x.state = "READ_REQUEST",
         NEW y, y = readRequest(x, text, eof)
  PROVE  /\ y.keep = x.keep
         /\ \/ eof /\ y.state = "closed" /\ Got(x, text) < BodyLen + 2
            \/ /\ y.state = "READ_REQUEST" /\ Reading(y, <<>>, id)
               /\ Got(y, <<>>) = Got(x, text)
            \/ /\ y.state = "WRITE_RESPONSE" /\ y.response = <<>>
               /\ CallOf(y.request) = id /\ Got(x, text) = BodyLen + 2
<1> DEFINE r == IF Len(x.request) < BodyLen THEN x.request \o text ELSE x.request
<1>1. /\ x.request \in Seq(Token) /\ Len(x.request) \in Nat /\ Len(text) \in Nat
      /\ BodyLen \in Nat \ {0}
  BY ConnectionFields, LenProperties, SocketAssumption
<1>2. /\ r \in Seq(Token) /\ Len(r) = Len(x.request) + Len(text)
      /\ Piece(r, id, 2, BodyLen) /\ r # <<>>
  <2>1. CASE Len(x.request) < BodyLen
    <3>1. r = x.request \o text
      BY <2>1
    <3>2. /\ x.request \o text \in Seq(Token)
          /\ Len(x.request \o text) = Len(x.request) + Len(text)
      BY <1>1, ConcatProperties
    <3>3. Piece(x.request \o text, id, 2, BodyLen)
      BY <1>1, PieceConcat
    <3>4. x.request \o text # <<>>
      BY <1>1, ConcatEqualIffEmpty
    <3> QED
      BY <3>1, <3>2, <3>3, <3>4
  <2>2. CASE ~(Len(x.request) < BodyLen)
    <3>1. text = <<>> /\ Len(text) = 0 /\ r = x.request
      BY <2>2, EmptySeq
    <3> QED
      BY <1>1, <3>1
  <2> QED
    BY <2>1, <2>2
<1>3. y = (CASE Len(r) < BodyLen /\ eof  -> Close(x)
             [] Len(r) < BodyLen /\ ~eof -> [x EXCEPT !.request = r]
             [] OTHER -> [x EXCEPT !.request = r, !.state = "WRITE_RESPONSE"])
  BY DEF readRequest
<1> HIDE DEF r
<1>g. Got(x, text) = 2 + Len(r)
  BY <1>1, <1>2 DEF Got
<1>4. CASE Len(r) < BodyLen /\ eof
  <2>1. y = Close(x)
    BY <1>3, <1>4
  <2>2. y.state = "closed" /\ y.keep = x.keep
    BY <2>1 DEF Close, Connection
  <2>3. Got(x, text) < BodyLen + 2
    BY <1>1, <1>2, <1>4, <1>g
  <2> QED
    BY <1>4, <2>2, <2>3
<1>5. CASE Len(r) < BodyLen /\ ~eof
  <2>1. y = [x EXCEPT !.request = r]
    BY <1>3, <1>5
  <2>2. /\ y.state = x.state /\ y.keep = x.keep /\ y.request = r /\ y.response = x.response
    BY <2>1 DEF Connection
  <2>3. Piece(<<>>, id, 2 + Len(r), BodyLen) /\ Len(<<>>) = 0
    <3>1. 2 + Len(r) \in Nat /\ 2 + Len(r) <= BodyLen + 2 /\ BodyLen \in Nat
      BY <1>1, <1>2, <1>5
    <3> QED
      BY <3>1, PieceEmpty
  <2>4. Reading(y, <<>>, id)
    BY <1>1, <1>2, <1>5, <2>2, <2>3 DEF Reading
  <2>5. Got(y, <<>>) = 2 + Len(r)
    BY <1>1, <1>2, <2>2, <2>3 DEF Got
  <2> QED
    BY <1>g, <2>2, <2>4, <2>5
<1>6. CASE ~(Len(r) < BodyLen)
  <2>1. y = [x EXCEPT !.request = r, !.state = "WRITE_RESPONSE"]
    BY <1>3, <1>6
  <2>2. /\ y.state = "WRITE_RESPONSE" /\ y.keep = x.keep /\ y.request = r
        /\ y.response = x.response
    BY <2>1 DEF Connection
  <2>3. CallOf(r) = id
    BY <1>1, <1>2, <1>6, CallOfPiece
  <2>4. Got(x, text) = BodyLen + 2
    <3>1. 2 + Len(r) <= BodyLen + 2
      BY <1>2 DEF Piece
    <3>2. Len(r) \in Nat
      BY <1>1, <1>2
    <3> QED
      BY <1>1, <1>6, <1>g, <3>1, <3>2
  <2> QED
    BY <2>2, <2>3, <2>4
<1> QED
  BY <1>4, <1>5, <1>6

\* What is received of the request of a call: the end, while it is not complete; more of
\* it; or all of it.
LEMMA ReceivedReading ==
  ASSUME NEW x \in Connection, NEW text \in Seq(Token), NEW eof \in BOOLEAN,
         NEW id \in CallId, Reading(x, text, id), x.state # "closed",
         NEW y, y = Received(x, text, eof)
  PROVE  /\ y.keep = x.keep \/ y.keep = (id[1] \notin OldHttp)
         /\ \/ eof /\ y.state = "closed" /\ Got(x, text) < BodyLen + 2
            \/ /\ y.state \in {"READ_HEADER", "READ_REQUEST"} /\ Reading(y, <<>>, id)
               /\ Got(y, <<>>) = Got(x, text)
            \/ /\ y.state = "WRITE_RESPONSE" /\ y.response = <<>>
               /\ CallOf(y.request) = id /\ Got(x, text) = BodyLen + 2
<1>1. /\ x.header \in Seq(Token) /\ Len(x.header) \in Nat /\ Len(text) \in Nat
      /\ BodyLen \in Nat \ {0} /\ x.response = <<>>
      /\ x.state = "READ_HEADER" \/ x.state = "READ_REQUEST"
  BY ConnectionFields, LenProperties, SocketAssumption DEF Reading
<1>2. CASE x.state = "READ_REQUEST"
  <2>1. y = readRequest(x, text, eof)
    BY <1>2 DEF Received
  <2>2. /\ x.request # <<>> /\ Len(x.request) < BodyLen
        /\ Piece(x.request, id, 2, BodyLen) /\ Piece(text, id, 2 + Len(x.request), BodyLen)
    BY <1>2 DEF Reading
  <2> QED
    BY <1>1, <1>2, <2>1, <2>2, readRequestReading
<1>3. CASE x.state = "READ_HEADER"
  <2> DEFINE h == x.header \o text
             z == readHeader(x, text, eof)
  <2>1. y = IF z.state = "READ_REQUEST" THEN readRequest(z, <<>>, eof) ELSE z
    BY <1>3 DEF Received
  <2>2. h \in Seq(Token) /\ Len(h) = Len(x.header) + Len(text)
    BY <1>1, ConcatProperties
  <2>3. Piece(h, id, 0, BodyLen) /\ Got(x, text) = Len(h)
    <3>1. Len(x.header) <= 2 /\ Piece(x.header, id, 0, BodyLen)
          /\ Piece(text, id, 0 + Len(x.header), BodyLen)
      BY <1>1, <1>3 DEF Reading
    <3>2. Piece(h, id, 0, BodyLen)
      BY <1>1, <3>1, PieceConcat
    <3> QED
      BY <1>1, <1>3, <2>2, <3>2 DEF Got
  <2>4. z = (CASE HeaderEnds(h) = {} /\ eof  -> Close(x)
               [] HeaderEnds(h) = {} /\ ~eof -> [x EXCEPT !.header = h]
               [] HeaderEnds(h) # {} /\ ~HasHead(h) -> Close(x)
               [] OTHER -> [x EXCEPT !.header = <<>>, !.request = AfterHeader(h),
                                     !.keep = Head(h).call[1] \notin OldHttp,
                                     !.state = "READ_REQUEST"])
    BY DEF readHeader
  <2>5. z \in Connection
    BY readHeaderType
  <2> HIDE DEF h, z
  <2>6. /\ Len(h) <= 2 <=> HeaderEnds(h) = {}
        /\ Len(h) > 2 => /\ HasHead(h) /\ Head(h).call = id
                         /\ AfterHeader(h) \in Seq(Token) /\ Len(AfterHeader(h)) = Len(h) - 2
                         /\ Piece(AfterHeader(h), id, 2, BodyLen)
    BY <1>1, <2>2, <2>3, PieceHeader
  <2>7. Len(h) \in Nat
    BY <1>1, <2>2
  <2>8. CASE Len(h) <= 2 /\ eof
    <3>1. z = Close(x)
      BY <2>4, <2>6, <2>8
    <3>2. z.state = "closed" /\ z.keep = x.keep
      BY <3>1 DEF Close, Connection
    <3>3. Got(x, text) < BodyLen + 2
      BY <1>1, <2>3, <2>7, <2>8
    <3> QED
      BY <2>1, <2>8, <3>2, <3>3
  <2>9. CASE Len(h) <= 2 /\ ~eof
    <3>1. z = [x EXCEPT !.header = h]
      BY <2>4, <2>6, <2>9
    <3>2. /\ z.state = "READ_HEADER" /\ z.keep = x.keep /\ z.header = h
          /\ z.response = <<>>
      BY <1>1, <1>3, <3>1 DEF Connection
    <3>3. Piece(<<>>, id, Len(h), BodyLen) /\ Len(<<>>) = 0
      BY <1>1, <2>7, <2>9, PieceEmpty
    <3>4. Reading(z, <<>>, id)
      BY <2>3, <2>9, <3>2, <3>3 DEF Reading
    <3>5. Got(z, <<>>) = Len(h)
      BY <2>7, <3>2, <3>3 DEF Got
    <3>6. y = z
      BY <2>1, <3>2
    <3> QED
      BY <2>3, <3>2, <3>4, <3>5, <3>6
  <2>10. CASE ~(Len(h) <= 2)
    <3>1. /\ HeaderEnds(h) # {} /\ HasHead(h) /\ Head(h).call = id
          /\ AfterHeader(h) \in Seq(Token) /\ Len(AfterHeader(h)) = Len(h) - 2
          /\ Piece(AfterHeader(h), id, 2, BodyLen)
      BY <2>6, <2>7, <2>10
    <3>2. z = [x EXCEPT !.header = <<>>, !.request = AfterHeader(h),
                        !.keep = Head(h).call[1] \notin OldHttp,
                        !.state = "READ_REQUEST"]
      BY <2>4, <3>1
    <3>3. /\ z.state = "READ_REQUEST" /\ z.request = AfterHeader(h)
          /\ z.response = <<>>
      BY <1>1, <3>2 DEF Connection
    <3>4. z.keep = (id[1] \notin OldHttp)
      BY <3>1, <3>2 DEF Connection
    <3>5. z.request # <<>>
      BY <2>7, <2>10, <3>1, <3>3, EmptySeq
    <3>6. Piece(<<>>, id, 2 + Len(z.request), BodyLen) /\ Len(<<>>) = 0
      <4>1. 2 + Len(z.request) \in Nat /\ 2 + Len(z.request) <= BodyLen + 2
        BY <1>1, <2>3, <2>7, <2>10, <3>1, <3>3 DEF Piece
      <4> QED
        BY <1>1, <4>1, PieceEmpty
    <3>7. Got(z, <<>>) = Got(x, text)
      BY <2>3, <2>7, <3>1, <3>3, <3>6 DEF Got
    <3>8. y = readRequest(z, <<>>, eof) /\ <<>> \in Seq(Token)
      BY <2>1, <3>3, EmptyIn
    <3>9. /\ y.keep = z.keep
          /\ \/ eof /\ y.state = "closed" /\ Got(z, <<>>) < BodyLen + 2
             \/ /\ y.state = "READ_REQUEST" /\ Reading(y, <<>>, id)
                /\ Got(y, <<>>) = Got(z, <<>>)
             \/ /\ y.state = "WRITE_RESPONSE" /\ y.response = <<>>
                /\ CallOf(y.request) = id /\ Got(z, <<>>) = BodyLen + 2
      <4>1. /\ Piece(z.request, id, 2, BodyLen)
            /\ <<>> # <<>> => Len(z.request) < BodyLen
        BY <3>1, <3>3
      <4> DEFINE e == <<>>
      <4>2. e \in Seq(Token) /\ (e # <<>> => Len(z.request) < BodyLen)
            /\ y = readRequest(z, e, eof) /\ Piece(e, id, 2 + Len(z.request), BodyLen)
        BY <3>6, <3>8
      <4> HIDE DEF e
      <4>3. /\ y.keep = z.keep
            /\ \/ eof /\ y.state = "closed" /\ Got(z, e) < BodyLen + 2
               \/ /\ y.state = "READ_REQUEST" /\ Reading(y, <<>>, id)
                  /\ Got(y, <<>>) = Got(z, e)
               \/ /\ y.state = "WRITE_RESPONSE" /\ y.response = <<>>
                  /\ CallOf(y.request) = id /\ Got(z, e) = BodyLen + 2
        BY <2>5, <3>3, <3>5, <4>1, <4>2, readRequestReading
      <4> QED
        BY <4>3 DEF e
    <3> QED
      BY <3>4, <3>7, <3>9
  <2> QED
    BY <2>8, <2>9, <2>10
<1> QED
  BY <1>1, <1>2, <1>3

\* What writing a part of the answer leaves: nothing to do, more to write, or no object.
LEMMA SentWriting ==
  ASSUME NEW x \in Connection, NEW id \in CallId, NEW n \in Nat,
         x.response = Message(id, ReplyLen), x.state = "WRITE_RESPONSE",
         x.written < ReplyLen + 2, x.written + n <= ReplyLen + 2,
         NEW y, y = Sent(x, n)
  PROVE  /\ y.keep = x.keep
         /\ ~x.keep => y.state = "closed"
         /\ x.keep => \/ /\ x.written + n = ReplyLen + 2 /\ y.state = "READ_HEADER"
                         /\ Reading(y, <<>>, id) /\ Got(y, <<>>) = 0
                      \/ Writing(y, <<>>, id) /\ y.written = x.written + n
<1>1. Len(x.response) = ReplyLen + 2 /\ ReplyLen \in Nat /\ BodyLen \in Nat /\ x.written \in Nat
  BY MessageProperties, ConnectionFields, SocketAssumption
<1> DEFINE d == IF x.written + n = Len(x.response) THEN [NewConnection EXCEPT !.keep = x.keep]
                ELSE [x EXCEPT !.written = @ + n]
<1>2. y = IF x.keep THEN d ELSE Close(d)
  BY DEF Sent
<1>3. CASE x.written + n = ReplyLen + 2
  <2>1. d = [NewConnection EXCEPT !.keep = x.keep]
    BY <1>1, <1>3
  <2> HIDE DEF d
  <2>2. /\ d.keep = x.keep /\ d.state = "READ_HEADER" /\ d.header = <<>> /\ d.response = <<>>
        /\ Close(d).keep = x.keep /\ Close(d).state = "closed"
    BY <2>1 DEF NewConnection, Close
  <2>3. Piece(<<>>, id, 0, BodyLen) /\ Len(<<>>) = 0
    BY <1>1, PieceEmpty
  <2>4. Reading(d, <<>>, id) /\ Got(d, <<>>) = 0
    BY <2>2, <2>3 DEF Reading, Got
  <2> QED
    BY <1>2, <1>3, <2>2, <2>4
<1>4. CASE x.written + n # ReplyLen + 2
  <2>1. d = [x EXCEPT !.written = @ + n]
    BY <1>1, <1>4
  <2> HIDE DEF d
  <2>2. /\ d.keep = x.keep /\ d.state = "WRITE_RESPONSE" /\ d.response = x.response
        /\ d.written = x.written + n
        /\ Close(d).keep = x.keep /\ Close(d).state = "closed"
    BY <2>1 DEF Connection, Close
  <2>3. Writing(d, <<>>, id)
    BY <1>1, <1>4, <2>2 DEF Writing
  <2> QED
    BY <1>2, <2>2, <2>3
<1> QED
  BY <1>3, <1>4

-----------------------------------------------------------------------------
(* The steps of a handler *)

\* Only connection k is touched.
OnlyAt(k) == \A h \in Conn \ {k} : /\ conn'[h] = conn[h] /\ up'[h] = up[h]
                                    /\ down'[h] = down[h] /\ ends'[h] = ends[h]

\* What the object has noted about keeping the connection is what the client asked for.
KeepNoted(k) == conn'[k].keep = conn[k].keep \/ conn'[k].keep = (k[1] \notin OldHttp)

Closes(k) == ends'[k] = [ends[k] EXCEPT !.server = "closed"]
Stays(k)  == ends'[k] = ends[k] /\ conn'[k].state # "closed"

GivesUp(k) == ends[k].client = "closed" /\ Closes(k) /\ executed' = executed /\ down'[k] = down[k]

ReadsOn(k, id) ==
  /\ Reading(conn[k], up[k], id) /\ Reading(conn'[k], up'[k], id)
  /\ Got(conn'[k], up'[k]) = Got(conn[k], up[k])
  /\ Stays(k) /\ executed' = executed /\ down'[k] = down[k]

\* n tokens more of the answer are written after the first w.
Answers(k, id, w, n) ==
  /\ \/ /\ Reading(conn[k], up[k], id) /\ Got(conn[k], up[k]) = BodyLen + 2
        /\ executed' = Append(executed, id) /\ w = 0
     \/ Writing(conn[k], up[k], id) /\ executed' = executed /\ w = conn[k].written
  /\ w + n <= ReplyLen + 2
  /\ \/ ends[k].client = "closed" /\ down'[k] = down[k]
     \/ /\ ends[k].client # "closed" /\ (down[k] = <<>> => n # 0)
        /\ \E text \in Seq(Token) : /\ down'[k] = down[k] \o text
                                     /\ Piece(text, id, w, ReplyLen) /\ Len(text) = n
  /\ \/ Closes(k) /\ (ends[k].client = "closed" \/ conn'[k].keep = FALSE)
     \/ /\ Stays(k)
        /\ \/ w + n = ReplyLen + 2 /\ Reading(conn'[k], up'[k], id) /\ Got(conn'[k], up'[k]) = 0
           \/ Writing(conn'[k], up'[k], id) /\ conn'[k].written = w + n

\* The handler of a connection leaves the other ones alone.
LEMMA HandledAt ==
  ASSUME TypeOK, NEW k \in Conn, NEW x, Handled(k, x)
  PROVE  /\ conn'[k] = x
         /\ \A h \in Conn \ {k} : conn'[h] = conn[h] /\ ends'[h] = ends[h]
         /\ x.state = "closed" => Closes(k)
         /\ x.state # "closed" => Stays(k)
<1>1. conn \in [Conn -> Connection] /\ ends \in [Conn -> EndState]
  BY DEF TypeOK, SockType
<1> QED
  BY <1>1 DEF Handled, Closes, Stays

\* The part of handleEvent that writes
LEMMA HandleAnswers ==
  ASSUME TypeOK, NEW k \in Conn, NEW id \in CallId, NEW d \in Connection,
         d.state = "WRITE_RESPONSE", d.response = Message(id, ReplyLen),
         d.written < ReplyLen + 2, up'[k] = <<>>,
         \/ /\ Reading(conn[k], up[k], id) /\ Got(conn[k], up[k]) = BodyLen + 2
            /\ executed' = Append(executed, id) /\ d.written = 0
         \/ Writing(conn[k], up[k], id) /\ executed' = executed /\ d.written = conn[k].written,
         IF ends[k].client = "closed"
         THEN /\ Handled(k, Close(d)) \/ Handled(k, Sent(d, Len(d.response) - d.written))
              /\ UNCHANGED down
         ELSE \E rest \in {SubSeq(d.response, d.written + 1, Len(d.response))} :
              \E n \in Accepted(rest, down[k]) :
                /\ down' = [down EXCEPT ![k] = @ \o SubSeq(rest, 1, n)]
                /\ Handled(k, Sent(d, n))
  PROVE  /\ \E n \in Nat : Answers(k, id, d.written, n)
         /\ conn'[k].keep = d.keep
         /\ \A h \in Conn \ {k} : /\ conn'[h] = conn[h] /\ ends'[h] = ends[h]
                                  /\ down'[h] = down[h]
<1> DEFINE w == d.written
<1>1. /\ Len(d.response) = ReplyLen + 2 /\ ReplyLen \in Nat /\ w \in Nat
      /\ down \in [Conn -> Seq(Token)] /\ down[k] \in Seq(Token)
  BY MessageProperties, ConnectionFields, SocketAssumption DEF TypeOK, SockType
<1>2. ASSUME NEW n \in Nat, w + n <= ReplyLen + 2, Handled(k, Sent(d, n)),
             \/ ends[k].client = "closed" /\ down'[k] = down[k]
             \/ /\ ends[k].client # "closed" /\ (down[k] = <<>> => n # 0)
                /\ \E text \in Seq(Token) : /\ down'[k] = down[k] \o text
                                             /\ Piece(text, id, w, ReplyLen) /\ Len(text) = n
      PROVE  /\ Answers(k, id, w, n) /\ conn'[k].keep = d.keep
             /\ \A h \in Conn \ {k} : conn'[h] = conn[h] /\ ends'[h] = ends[h]
  <2> DEFINE y == Sent(d, n)
  <2>1. /\ y.keep = d.keep
        /\ ~d.keep => y.state = "closed"
        /\ d.keep => \/ /\ w + n = ReplyLen + 2 /\ y.state = "READ_HEADER"
                        /\ Reading(y, <<>>, id) /\ Got(y, <<>>) = 0
                     \/ Writing(y, <<>>, id) /\ y.written = w + n
    BY <1>2, SentWriting
  <2> HIDE DEF y
  <2>2. /\ conn'[k] = y
        /\ \A h \in Conn \ {k} : conn'[h] = conn[h] /\ ends'[h] = ends[h]
        /\ y.state = "closed" => Closes(k)
        /\ y.state # "closed" => Stays(k)
    BY <1>2, HandledAt DEF y
  <2>3. d.keep \in BOOLEAN
    BY ConnectionFields
  <2>4. Writing(y, <<>>, id) => y.state # "closed"
    BY DEF Writing
  <2>5. \/ Closes(k) /\ conn'[k].keep = FALSE
        \/ /\ Stays(k)
           /\ \/ w + n = ReplyLen + 2 /\ Reading(conn'[k], up'[k], id) /\ Got(conn'[k], up'[k]) = 0
              \/ Writing(conn'[k], up'[k], id) /\ conn'[k].written = w + n
    BY <2>1, <2>2, <2>3, <2>4
  <2> QED
    BY <1>2, <2>1, <2>2, <2>5 DEF Answers
<1>3. CASE ends[k].client = "closed"
  <2>1. CASE Handled(k, Close(d))
    <3>1. Close(d).state = "closed" /\ Close(d).keep = d.keep
      BY DEF Close, Connection
    <3>2. /\ Closes(k) /\ conn'[k].keep = d.keep
          /\ \A h \in Conn \ {k} : conn'[h] = conn[h] /\ ends'[h] = ends[h]
      BY <2>1, <3>1, HandledAt
    <3>3. Answers(k, id, w, 0)
      BY <1>1, <1>3, <3>2 DEF Answers
    <3> QED
      BY <1>3, <3>2, <3>3
  <2>2. CASE Handled(k, Sent(d, Len(d.response) - d.written))
    <3> DEFINE n == Len(d.response) - d.written
    <3>1. n \in Nat /\ w + n <= ReplyLen + 2
      BY <1>1
    <3>2. /\ Answers(k, id, w, n) /\ conn'[k].keep = d.keep
          /\ \A h \in Conn \ {k} : conn'[h] = conn[h] /\ ends'[h] = ends[h]
      BY <1>2, <1>3, <2>2, <3>1
    <3> QED
      BY <1>3, <3>1, <3>2
  <2> QED
    BY <1>3, <2>1, <2>2
<1>4. CASE ends[k].client # "closed"
  <2> DEFINE rest == Rest(id, ReplyLen, w)
  <2>1. PICK n \in Accepted(rest, down[k]) :
          /\ down' = [down EXCEPT ![k] = @ \o SubSeq(rest, 1, n)]
          /\ Handled(k, Sent(d, n))
    BY <1>1, <1>4 DEF Rest
  <2>2. /\ n \in Nat /\ w + n <= ReplyLen + 2 /\ SubSeq(rest, 1, n) \in Seq(Token)
        /\ Piece(SubSeq(rest, 1, n), id, w, ReplyLen) /\ Len(SubSeq(rest, 1, n)) = n
        /\ down[k] = <<>> => n # 0
    <3>1. w < ReplyLen + 2 /\ id \in CallId \cup {NoCall}
      OBVIOUS
    <3> QED
      BY <1>1, <2>1, <3>1, PieceWritten
  <2> HIDE DEF rest
  <2>3. down'[k] = down[k] \o SubSeq(rest, 1, n) /\ \A h \in Conn \ {k} : down'[h] = down[h]
    BY <1>1, <2>1
  <2>4. /\ Answers(k, id, w, n) /\ conn'[k].keep = d.keep
        /\ \A h \in Conn \ {k} : conn'[h] = conn[h] /\ ends'[h] = ends[h]
    BY <1>2, <1>4, <2>1, <2>2, <2>3
  <2> QED
    BY <2>2, <2>3, <2>4
<1> QED
  BY <1>3, <1>4

\* A handler gives up, reads on, or writes some of the answer.
LEMMA HandleSteps ==
  ASSUME TypeOK, NEW k \in Conn, NEW id \in CallId, id[1] = k[1], conn[k].state # "closed",
         Reading(conn[k], up[k], id) \/ Writing(conn[k], up[k], id), Handle(k)
  PROVE  /\ OnlyAt(k) /\ KeepNoted(k)
         /\ GivesUp(k) \/ ReadsOn(k, id) \/ \E w, n \in Nat : Answers(k, id, w, n)
<1> DEFINE x == conn[k]
           text == up[k]
           eof == ends[k].client = "closed"
           c == Received(x, text, eof)
           d == IF Runs(c) THEN [c EXCEPT !.response = Message(CallOf(c.request), ReplyLen),
                                          !.written = 0] ELSE c
<1>1. /\ x \in Connection /\ text \in Seq(Token) /\ eof \in BOOLEAN
      /\ up \in [Conn -> Seq(Token)]
  BY DEF TypeOK, SockType
<1>2. /\ up' = IF x.state \in {"READ_HEADER", "READ_REQUEST"} THEN [up EXCEPT ![k] = <<>>] ELSE up
      /\ executed' = IF Runs(c) THEN Append(executed, CallOf(c.request)) ELSE executed
      /\ IF d.state # "WRITE_RESPONSE" THEN Handled(k, d) /\ UNCHANGED down
         ELSE IF ends[k].client = "closed"
         THEN /\ Handled(k, Close(d)) \/ Handled(k, Sent(d, Len(d.response) - d.written))
              /\ UNCHANGED down
         ELSE \E rest \in {SubSeq(d.response, d.written + 1, Len(d.response))} :
              \E n \in Accepted(rest, down[k]) :
                /\ down' = [down EXCEPT ![k] = @ \o SubSeq(rest, 1, n)]
                /\ Handled(k, Sent(d, n))
  BY ZenonT(60) DEF Handle
<1>3. c \in Connection
  BY <1>1, ReceivedType
<1>4. \A h \in Conn \ {k} : up'[h] = up[h]
  BY <1>1, <1>2
<1>5. ReplyLen \in Nat /\ ReplyLen + 2 > 0
  BY SocketAssumption
<1> HIDE DEF c
<1>6. CASE Reading(x, text, id)
  <2>1. /\ c.keep = x.keep \/ c.keep = (id[1] \notin OldHttp)
        /\ \/ eof /\ c.state = "closed" /\ Got(x, text) < BodyLen + 2
           \/ /\ c.state \in {"READ_HEADER", "READ_REQUEST"} /\ Reading(c, <<>>, id)
              /\ Got(c, <<>>) = Got(x, text)
           \/ /\ c.state = "WRITE_RESPONSE" /\ c.response = <<>>
              /\ CallOf(c.request) = id /\ Got(x, text) = BodyLen + 2
    <3>1. c = Received(x, text, eof) /\ x.state # "closed"
      BY DEF c
    <3> HIDE DEF x, text, eof
    <3> QED
      BY <1>1, <1>6, <3>1, ReceivedReading
  <2>2. up'[k] = <<>>
    BY <1>1, <1>2, <1>6, ConnectionFields DEF Reading
  <2>3. CASE eof /\ c.state = "closed"
    <3>1. ~Runs(c) /\ d = c
      BY <2>3 DEF Runs
    <3>2. Handled(k, c) /\ executed' = executed /\ down' = down
      BY <1>2, <2>3, <3>1
    <3> QED
      BY <1>4, <2>1, <2>3, <3>2, HandledAt DEF OnlyAt, KeepNoted, GivesUp
  <2>4. CASE /\ c.state \in {"READ_HEADER", "READ_REQUEST"} /\ Reading(c, <<>>, id)
             /\ Got(c, <<>>) = Got(x, text)
    <3>1. ~Runs(c) /\ d = c
      BY <2>4 DEF Runs
    <3>2. Handled(k, c) /\ executed' = executed /\ down' = down
      BY <1>2, <2>4, <3>1
    <3>3. /\ conn'[k] = c /\ Stays(k)
          /\ \A h \in Conn \ {k} : conn'[h] = conn[h] /\ ends'[h] = ends[h]
      BY <2>4, <3>2, HandledAt
    <3>4. ReadsOn(k, id)
      BY <1>6, <2>2, <2>4, <3>2, <3>3 DEF ReadsOn
    <3> QED
      BY <1>4, <2>1, <3>2, <3>3, <3>4 DEF OnlyAt, KeepNoted
  <2>5. CASE /\ c.state = "WRITE_RESPONSE" /\ c.response = <<>>
             /\ CallOf(c.request) = id /\ Got(x, text) = BodyLen + 2
    <3>1. Runs(c)
      BY <2>5 DEF Runs
    <3>2. d = [c EXCEPT !.response = Message(id, ReplyLen), !.written = 0]
      BY <2>5, <3>1
    <3>3. executed' = Append(executed, id)
      BY <1>2, <2>5, <3>1
    <3>4. Message(id, ReplyLen) \in Seq(Token)
      BY <1>5, MessageProperties
    <3>5. d \in Connection
      BY <1>3, <3>2, <3>4 DEF Connection
    <3>6. /\ d.state = "WRITE_RESPONSE" /\ d.response = Message(id, ReplyLen)
          /\ d.written = 0 /\ d.keep = c.keep
      BY <1>3, <2>5, <3>2 DEF Connection
    <3> HIDE DEF d
    <3>7. d.written < ReplyLen + 2 /\ d.written \in Nat
      BY <1>5, <3>6
    <3>8. IF ends[k].client = "closed"
          THEN /\ Handled(k, Close(d)) \/ Handled(k, Sent(d, Len(d.response) - d.written))
               /\ UNCHANGED down
          ELSE \E rest \in {SubSeq(d.response, d.written + 1, Len(d.response))} :
               \E n \in Accepted(rest, down[k]) :
                 /\ down' = [down EXCEPT ![k] = @ \o SubSeq(rest, 1, n)]
                 /\ Handled(k, Sent(d, n))
      BY <1>2, <3>6
    <3>9. /\ \E n \in Nat : Answers(k, id, d.written, n)
          /\ conn'[k].keep = d.keep
          /\ \A h \in Conn \ {k} : /\ conn'[h] = conn[h] /\ ends'[h] = ends[h]
                                   /\ down'[h] = down[h]
      BY <1>6, <2>2, <2>5, <3>3, <3>5, <3>6, <3>7, <3>8, HandleAnswers, ZenonT(60)
    <3> QED
      BY <1>4, <2>1, <3>6, <3>7, <3>9 DEF OnlyAt, KeepNoted
  <2> QED
    BY <2>1, <2>3, <2>4, <2>5
<1>7. CASE Writing(x, text, id)
  <2>1. /\ x.state = "WRITE_RESPONSE" /\ x.response = Message(id, ReplyLen)
        /\ x.written < ReplyLen + 2 /\ text = <<>> /\ x.written \in Nat
    BY <1>1, <1>7, ConnectionFields DEF Writing
  <2>2. c = x
    BY <2>1 DEF c, Received
  <2>3. x.response # <<>>
    BY <1>5, <2>1, MessageProperties, EmptySeq
  <2>4. ~Runs(c) /\ d = x
    BY <2>2, <2>3 DEF Runs
  <2>5. up'[k] = <<>> /\ executed' = executed
    BY <1>2, <2>1, <2>4
  <2>6. IF ends[k].client = "closed"
        THEN /\ Handled(k, Close(x)) \/ Handled(k, Sent(x, Len(x.response) - x.written))
             /\ UNCHANGED down
        ELSE \E rest \in {SubSeq(x.response, x.written + 1, Len(x.response))} :
             \E n \in Accepted(rest, down[k]) :
               /\ down' = [down EXCEPT ![k] = @ \o SubSeq(rest, 1, n)]
               /\ Handled(k, Sent(x, n))
    BY <1>2, <2>1, <2>4
  <2>7. /\ \E n \in Nat : Answers(k, id, x.written, n)
        /\ conn'[k].keep = x.keep
        /\ \A h \in Conn \ {k} : /\ conn'[h] = conn[h] /\ ends'[h] = ends[h]
                                 /\ down'[h] = down[h]
    BY <1>1, <1>7, <2>1, <2>5, <2>6, HandleAnswers
  <2> QED
    BY <1>4, <2>1, <2>7 DEF OnlyAt, KeepNoted
<1> QED
  BY <1>6, <1>7

-----------------------------------------------------------------------------
(* Calls, their texts and their executions *)

\* The server has the connection, or will accept it.
Live(k) == ends[k].server = "backlog" \/ ends[k].server = "open"

\* A part of the request of call id waits at connection k for the rest, or to be read.
Holds(k, id) == Live(k) /\ Reading(conn[k], up[k], id) /\ Got(conn[k], up[k]) # 0

\* Nothing is left of a use of the socket before.
NewIsEmpty ==
  \A k \in Conn :
    /\ ends[k].server = "none" => up[k] = <<>> /\ down[k] = <<>> /\ ends[k].client = "none"
    /\ ends[k].server = "none" \/ ends[k].server = "backlog" => conn[k] = NoConnection
    /\ ends[k].server = "open" => conn[k].state # "closed"

\* A connection has the text of one call only, one the client has made.
ServerTexts ==
  \A k \in Conn : Live(k) => \E n \in 1..called[k[1]] :
     Reading(conn[k], up[k], <<k[1], n>>) \/ Writing(conn[k], up[k], <<k[1], n>>)

\* A call is executed once, and once more for each death of the server: never again
\* while the request that was sent first is held by the server that got it.
HeldBound  == \A k \in Conn, id \in CallId : Holds(k, id) => Times(id) <= crashes
HeldOnce   == \A k, h \in Conn, id \in CallId : Holds(k, id) /\ Holds(h, id) => k = h
TimesBound == \A id \in CallId : Times(id) <= crashes + 1

\* What was executed are calls that were made.
ExecutedMade == \A i \in DOMAIN executed :
                  executed[i] \in CallId /\ executed[i][2] <= called[executed[i][1]]

\* While nothing has died, no connection the client has open is closed by the server,
\* unless the client asked for that.
NoneClosed ==
  crashes = 0 => /\ alive /\ listening
                 /\ \A k \in Conn : k[1] \notin OldHttp /\ ends[k].client = "open"
                                     => Live(k) /\ conn[k].keep = TRUE

\* What a client has of the answer to its call: the object x and the buffer text
Answer(x, text, id) ==
  IF x.state = "READ_HEADER"
  THEN /\ Len(x.header) <= 2
       /\ Piece(x.header, id, 0, ReplyLen) /\ Piece(text, id, Len(x.header), ReplyLen)
  ELSE /\ x.response # <<>> /\ Len(x.response) < ReplyLen
       /\ Piece(x.response, id, 2, ReplyLen) /\ Piece(text, id, 2 + Len(x.response), ReplyLen)

Had(x, text) ==
  (IF x.state = "READ_HEADER" THEN Len(x.header) ELSE 2 + Len(x.response)) + Len(text)

\* How far the server is with the call when the client has this much of the answer
Served(k, id, had) ==
  \/ Reading(conn[k], up[k], id) /\ Got(conn[k], up[k]) = BodyLen + 2 /\ had = 0
  \/ Writing(conn[k], up[k], id) /\ had = conn[k].written /\ had # 0
  \/ Reading(conn[k], up[k], id) /\ Got(conn[k], up[k]) = 0 /\ had = ReplyLen + 2

\* The request may be sent over connection k without being executed too often.
Alone(k, id) == Times(id) <= crashes /\ \A h \in Conn : Holds(h, id) => h = k

\* A client that sends its request, one that waits for the answer, one between calls
Asks(k, x, id) ==
  /\ x.written < BodyLen + 2 /\ down[k] = <<>>
  /\ Live(k) => Reading(conn[k], up[k], id) /\ Got(conn[k], up[k]) = x.written
  /\ Alone(k, id)
Hears(k, x, id) ==
  /\ Answer(x, down[k], id)
  /\ Had(x, down[k]) # 0 => Times(id) # 0
  /\ Live(k) => Served(k, id, Had(x, down[k]))
  /\ x.attempts = 0 /\ Had(x, down[k]) = 0 /\ ~Live(k) => Alone(k, id)
Rests(k) ==
  /\ down[k] = <<>>
  /\ Live(k) => /\ Got(conn[k], up[k]) = 0
                /\ \A id \in CallId : Reading(conn[k], up[k], id)

Socket(c)  == <<c, client[c].nr>>
Current(c) == <<c, called[c]>>

ClientText(c) ==
  /\ client[c].nr # 0 => /\ ends[Socket(c)].client = "open"
                         /\ ends[Socket(c)].server # "none"
  /\ inCall[c] /\ client[c].state = "WRITE_REQUEST" => Asks(Socket(c), client[c], Current(c))
  /\ inCall[c] /\ client[c].state # "WRITE_REQUEST" => Hears(Socket(c), client[c], Current(c))
  /\ ~inCall[c] /\ client[c].state = "IDLE" => Rests(Socket(c))

\* The second inductive invariant: what the texts are
CInv == /\ NewIsEmpty /\ ServerTexts /\ HeldBound /\ HeldOnce /\ TimesBound /\ ExecutedMade
        /\ NoneClosed /\ \A c \in Clients : ClientText(c)

\* The number of executions of a call is a number,
LEMMA TimesType ==
  ASSUME TypeOK, NEW id
  PROVE  Times(id) \in Nat
<1>1. DOMAIN executed = 1..Len(executed) /\ Len(executed) \in Nat
  BY LenProperties DEF TypeOK
<1>2. IsFiniteSet(1..Len(executed))
  BY <1>1, FS_Interval
<1>3. {i \in DOMAIN executed : executed[i] = id} \in SUBSET (1..Len(executed))
  BY <1>1
<1>4. IsFiniteSet({i \in DOMAIN executed : executed[i] = id})
  BY <1>2, <1>3, FS_Subset
<1> QED
  BY <1>4, FS_CardinalityType DEF Times

\* unchanged by a step that executes nothing,
LEMMA TimesSame ==
  ASSUME executed' = executed, NEW id
  PROVE  Times(id)' = Times(id)
BY DEF Times

\* and one more after its execution.
LEMMA TimesAppend ==
  ASSUME TypeOK, NEW jd \in CallId, executed' = Append(executed, jd), NEW id
  PROVE  Times(id)' = IF id = jd THEN Times(id) + 1 ELSE Times(id)
<1> DEFINE n == Len(executed)
           S == {i \in DOMAIN executed : executed[i] = id}
           T == {i \in DOMAIN executed' : executed'[i] = id}
<1>1. DOMAIN executed = 1..n /\ n \in Nat
  BY LenProperties DEF TypeOK
<1>2. /\ Append(executed, jd) \in Seq(CallId \cup {NoCall}) /\ Len(Append(executed, jd)) = n + 1
      /\ \A i \in 1..n : Append(executed, jd)[i] = executed[i]
      /\ Append(executed, jd)[n + 1] = jd
  BY AppendProperties DEF TypeOK
<1>3. DOMAIN executed' = 1..(n + 1)
  BY <1>2, LenProperties
<1>4. /\ \A i \in 1..n : executed'[i] = executed[i]
      /\ executed'[n + 1] = jd
  BY <1>2
<1>5. T = IF id = jd THEN S \cup {n + 1} ELSE S
  BY <1>1, <1>3, <1>4
<1>6. IsFiniteSet(S) /\ n + 1 \notin S
  <2>1. IsFiniteSet(1..n) /\ S \in SUBSET (1..n)
    BY <1>1, FS_Interval
  <2>2. IsFiniteSet(S)
    BY <2>1, FS_Subset
  <2> QED
    BY <1>1, <2>2
<1> HIDE DEF S, T, n
<1>7. Cardinality(T) = IF id = jd THEN Cardinality(S) + 1 ELSE Cardinality(S)
  BY <1>5, <1>6, FS_AddElement
<1>8. Times(id) = Cardinality(S) /\ Times(id)' = Cardinality(T)
  BY DEF Times, S, T
<1> QED
  BY <1>7, <1>8

\* The call a connection holds is one that was made.
LEMMA HeldMade ==
  ASSUME MInv, CInv, NEW k \in Conn, NEW id \in CallId, Holds(k, id)
  PROVE  id[1] = k[1] /\ id[2] <= called[k[1]]
<1>1. /\ conn[k] \in Connection /\ up[k] \in Seq(Token)
      /\ called[k[1]] \in 0..MaxCalls /\ MaxCalls \in Nat
  BY SocketAssumption DEF MInv, TInv, TypeOK, SockType, Conn
<1>2. PICK n \in 1..called[k[1]] :
        Reading(conn[k], up[k], <<k[1], n>>) \/ Writing(conn[k], up[k], <<k[1], n>>)
  BY DEF CInv, ServerTexts, Holds
<1>3. Reading(conn[k], up[k], <<k[1], n>>)
  BY <1>2 DEF Holds, Reading, Writing
<1>4. <<k[1], n>> \in CallId
  BY <1>1, <1>2 DEF CallId, Conn
<1>5. id = <<k[1], n>>
  BY <1>1, <1>3, <1>4, ReadingOne DEF Holds
<1> QED
  BY <1>1, <1>2, <1>5

\* A step that gives no connection a new text and executes at most the call that
\* connection k held keeps the counts.
LEMMA CountsKept ==
  ASSUME MInv, CInv, NEW k \in Conn, NEW id \in CallId,
         \A c \in Clients : called'[c] \in Nat /\ called[c] <= called'[c],
         crashes' = crashes,
         \A h \in Conn, jd \in CallId : Holds(h, jd)' => Holds(h, jd),
         \/ executed' = executed
         \/ /\ executed' = Append(executed, id) /\ Holds(k, id)
            /\ \A jd \in CallId : ~Holds(k, jd)'
  PROVE  /\ HeldBound' /\ HeldOnce' /\ TimesBound' /\ ExecutedMade'
         /\ \A h \in Conn, jd \in CallId :
              Alone(h, jd) /\ (executed' = executed \/ h # k \/ ~Holds(h, jd)) => Alone(h, jd)'
         /\ \A jd \in CallId : Times(jd) # 0 => Times(jd)' # 0
<1>1. /\ TypeOK /\ crashes \in Nat
      /\ HeldBound /\ HeldOnce /\ TimesBound /\ ExecutedMade
  BY DEF MInv, TInv, TypeOK, CInv
<1>2. HeldOnce'
  BY <1>1 DEF HeldOnce
<1>3. CASE executed' = executed
  <2>1. \A jd \in CallId : Times(jd)' = Times(jd)
    BY <1>3, TimesSame
  <2>2. HeldBound' /\ TimesBound'
    BY <1>1, <2>1 DEF HeldBound, TimesBound
  <2>3. ExecutedMade'
    <3> SUFFICES ASSUME NEW i \in DOMAIN executed
                 PROVE executed[i] \in CallId /\ executed[i][2] <= called'[executed[i][1]]
      BY <1>3 DEF ExecutedMade
    <3>1. executed[i] \in CallId /\ executed[i][2] <= called[executed[i][1]]
      BY <1>1 DEF ExecutedMade
    <3>2. executed[i][1] \in Clients /\ executed[i][2] \in Nat
      BY <3>1, SocketAssumption DEF CallId
    <3>3. called[executed[i][1]] \in Nat
      BY <1>1, <3>2, SocketAssumption DEF TypeOK
    <3> QED
      BY <3>1, <3>2, <3>3
  <2>4. \A h \in Conn, jd \in CallId : Alone(h, jd) => Alone(h, jd)'
    BY <2>1 DEF Alone
  <2> QED
    BY <1>2, <2>1, <2>2, <2>3, <2>4
<1>4. CASE /\ executed' = Append(executed, id) /\ Holds(k, id)
           /\ \A jd \in CallId : ~Holds(k, jd)'
  <2>1. \A jd \in CallId : /\ Times(jd)' = IF jd = id THEN Times(jd) + 1 ELSE Times(jd)
                           /\ Times(jd) \in Nat
    BY <1>1, <1>4, TimesAppend, TimesType
  <2>2. Times(id) <= crashes
    BY <1>1, <1>4 DEF HeldBound
  <2>3. TimesBound'
    BY <1>1, <2>1, <2>2 DEF TimesBound
  <2>4. HeldBound'
    <3> SUFFICES ASSUME NEW h \in Conn, NEW jd \in CallId, Holds(h, jd)'
                 PROVE  Times(jd)' <= crashes'
      BY DEF HeldBound
    <3>1. Holds(h, jd) /\ h # k
      BY <1>4
    <3>2. jd # id
      BY <1>1, <1>4, <3>1 DEF HeldOnce
    <3> QED
      BY <1>1, <2>1, <3>1, <3>2 DEF HeldBound
  <2>5. ExecutedMade'
    <3> SUFFICES ASSUME NEW i \in DOMAIN executed'
                 PROVE executed'[i] \in CallId /\ executed'[i][2] <= called'[executed'[i][1]]
      BY DEF ExecutedMade
    <3>1. /\ DOMAIN executed = 1..Len(executed) /\ Len(executed) \in Nat
          /\ DOMAIN executed' = 1..(Len(executed) + 1)
          /\ \A j \in 1..Len(executed) : executed'[j] = executed[j]
          /\ executed'[Len(executed) + 1] = id
      <4>1. /\ Append(executed, id) \in Seq(CallId \cup {NoCall})
            /\ Len(Append(executed, id)) = Len(executed) + 1
            /\ \A j \in 1..Len(executed) : Append(executed, id)[j] = executed[j]
            /\ Append(executed, id)[Len(executed) + 1] = id
        BY <1>1, AppendProperties DEF TypeOK
      <4> QED
        BY <1>1, <1>4, <4>1, LenProperties DEF TypeOK
    <3>2. executed'[i] \in CallId /\ executed'[i][2] <= called[executed'[i][1]]
      <4>1. CASE i = Len(executed) + 1
        <5>1. executed'[i] = id
          BY <3>1, <4>1
        <5> QED
          BY <1>4, <5>1, HeldMade
      <4>2. CASE i # Len(executed) + 1
        <5>1. i \in DOMAIN executed /\ executed'[i] = executed[i]
          BY <3>1, <4>2
        <5> QED
          BY <1>1, <5>1 DEF ExecutedMade
      <4> QED
        BY <4>1, <4>2
    <3>3. executed'[i][1] \in Clients /\ executed'[i][2] \in Nat
      BY <3>2, SocketAssumption DEF CallId
    <3>4. called[executed'[i][1]] \in Nat
      BY <1>1, <3>3, SocketAssumption DEF TypeOK
    <3> QED
      BY <3>2, <3>3, <3>4
  <2>6. ASSUME NEW h \in Conn, NEW jd \in CallId, Alone(h, jd), h # k \/ ~Holds(h, jd)
        PROVE  Alone(h, jd)'
    <3>1. jd # id
      BY <1>4, <2>6 DEF Alone
    <3> QED
      BY <2>1, <2>6, <3>1 DEF Alone
  <2>7. Append(executed, id) # executed
    BY <1>1, AppendProperties DEF TypeOK
  <2>8. \A jd \in CallId : Times(jd) # 0 => Times(jd)' # 0
    BY <2>1
  <2> QED
    BY <1>2, <1>4, <2>3, <2>4, <2>5, <2>6, <2>7, <2>8
<1> QED
  BY <1>3, <1>4

\* A client whose connection a step does not touch
LEMMA UntouchedClient ==
  ASSUME MInv, NEW c \in Clients, ClientText(c),
         client'[c] = client[c], inCall'[c] = inCall[c], called'[c] = called[c],
         Socket(c) \in Conn => /\ conn'[Socket(c)] = conn[Socket(c)]
                               /\ up'[Socket(c)] = up[Socket(c)]
                               /\ down'[Socket(c)] = down[Socket(c)]
                               /\ ends'[Socket(c)] = ends[Socket(c)]
                               /\ Current(c) \in CallId /\ Alone(Socket(c), Current(c))
                                    => Alone(Socket(c), Current(c))',
         \A jd \in CallId : Times(jd) # 0 => Times(jd)' # 0
  PROVE  ClientText(c)'
<1>1. Socket(c)' = Socket(c) /\ Current(c)' = Current(c)
  BY DEF Socket, Current
<1>2. CASE client[c].nr = 0
  BY <1>2 DEF ClientText, MInv, TInv, Busy, HasSocket
<1>3. CASE client[c].nr # 0
  <2>1. Socket(c) \in Conn
    <3>1. client[c].nr \in 0..MaxConns /\ MaxConns \in Nat
      BY SocketAssumption DEF MInv, TInv, TypeOK, Client
    <3>2. client[c].nr \in 1..MaxConns
      BY <1>3, <3>1
    <3> QED
      BY <3>2 DEF Socket, Conn
  <2>2. inCall[c] => Current(c) \in CallId
    <3>1. called[c] \in 0..MaxCalls /\ MaxCalls \in Nat /\ (inCall[c] => called[c] # 0)
      BY SocketAssumption DEF MInv, TInv, TypeOK, Busy
    <3>2. inCall[c] => called[c] \in 1..MaxCalls
      BY <3>1
    <3> QED
      BY <3>2 DEF Current, CallId
  <2> DEFINE k == Socket(c)
             x == client[c]
             id == Current(c)
  <2>3. Live(k)' <=> Live(k)
    BY <1>1, <2>1 DEF Live
  <2>4. inCall[c] /\ Asks(k, x, id) => Asks(k, x, id)'
    BY <1>1, <2>1, <2>2, <2>3 DEF Asks
  <2>5. inCall[c] /\ Hears(k, x, id) => Hears(k, x, id)'
    BY <1>1, <2>1, <2>2, <2>3 DEF Hears, Served
  <2>6. Rests(k) => Rests(k)'
    BY <1>1, <2>1, <2>3 DEF Rests
  <2> QED
    BY <1>1, <2>1, <2>4, <2>5, <2>6 DEF ClientText
<1> QED
  BY <1>2, <1>3

-----------------------------------------------------------------------------
(* The server's steps *)

\* The handler of connection k has run, with the text of call id.
Handles(k, id) ==
  /\ ends[k].server = "open" /\ conn[k].state # "closed"
  /\ id \in CallId /\ id[1] = k[1] /\ id[2] \in 1..called[k[1]]
  /\ k = Socket(k[1]) /\ inCall[k[1]] => id = Current(k[1])
  /\ OnlyAt(k) /\ KeepNoted(k)
  /\ GivesUp(k) \/ ReadsOn(k, id) \/ \E w, n \in Nat : Answers(k, id, w, n)

\* The types of what belongs to a connection
LEMMA ConnHas ==
  ASSUME MInv, NEW k \in Conn
  PROVE  /\ conn[k] \in Connection /\ up[k] \in Seq(Token) /\ down[k] \in Seq(Token)
         /\ ends[k] \in EndState /\ k[1] \in Clients /\ called[k[1]] \in 0..MaxCalls
BY DEF MInv, TInv, TypeOK, SockType, Conn

\* The calls a client has made are calls.
LEMMA CallsAre ==
  ASSUME MInv, NEW c \in Clients
  PROVE  /\ \A n \in 1..called[c] : <<c, n>> \in CallId
         /\ inCall[c] => Current(c) \in CallId /\ called[c] \in 1..called[c]
<1>1. called[c] \in 0..MaxCalls /\ MaxCalls \in Nat /\ (inCall[c] => called[c] # 0)
  BY SocketAssumption DEF MInv, TInv, TypeOK, Busy
<1>2. \A n \in 1..called[c] : n \in 1..MaxCalls
  BY <1>1
<1>3. inCall[c] => called[c] \in 1..called[c]
  BY <1>1
<1> QED
  BY <1>2, <1>3 DEF CallId, Current

\* The text at the connection of a client in a call is of that call.
LEMMA TextIsCurrent ==
  ASSUME MInv, CInv, NEW k \in Conn, ends[k].server = "open", k = Socket(k[1]), inCall[k[1]]
  PROVE  Reading(conn[k], up[k], Current(k[1])) \/ Writing(conn[k], up[k], Current(k[1]))
<1>1. k[1] \in Clients /\ Live(k)
  BY ConnHas DEF Live
<1>2. \/ Asks(k, client[k[1]], Current(k[1]))
      \/ Hears(k, client[k[1]], Current(k[1]))
  BY <1>1 DEF CInv, ClientText
<1> QED
  BY <1>1, <1>2 DEF Asks, Hears, Served

\* A step of the dispatcher is that of a handler with the text of one call.
LEMMA HandleConnectionHandles ==
  ASSUME MInv, CInv, HandleConnection
  PROVE  \E k \in Conn, id \in CallId : Handles(k, id)
<1>1. PICK i \in DOMAIN round, k \in Conn : round[i].src = k /\ Handle(k)
  BY DEF HandleConnection
<1>2. ends[k].server = "open"
  BY <1>1 DEF MInv, RoundOpen
<1>3. conn[k].state # "closed" /\ Live(k) /\ TypeOK /\ k[1] \in Clients
  BY <1>2, ConnHas DEF CInv, NewIsEmpty, Live, MInv, TInv
<1>4. PICK n \in 1..called[k[1]] :
        /\ Reading(conn[k], up[k], <<k[1], n>>) \/ Writing(conn[k], up[k], <<k[1], n>>)
        /\ k = Socket(k[1]) /\ inCall[k[1]] => <<k[1], n>> = Current(k[1])
  <2>1. CASE k = Socket(k[1]) /\ inCall[k[1]]
    <3>1. called[k[1]] \in 1..called[k[1]] /\ <<k[1], called[k[1]]>> = Current(k[1])
      BY <1>3, <2>1, CallsAre DEF Current
    <3> QED
      BY <1>2, <2>1, <3>1, TextIsCurrent
  <2>2. CASE ~(k = Socket(k[1]) /\ inCall[k[1]])
    BY <1>3, <2>2 DEF CInv, ServerTexts
  <2> QED
    BY <2>1, <2>2
<1> DEFINE id == <<k[1], n>>
<1>5. id \in CallId /\ id[1] = k[1] /\ id[2] = n
  BY <1>3, CallsAre
<1>6. /\ Reading(conn[k], up[k], id) \/ Writing(conn[k], up[k], id)
      /\ k = Socket(k[1]) /\ inCall[k[1]] => id = Current(k[1])
  BY <1>4
<1> HIDE DEF id
<1>7. /\ OnlyAt(k) /\ KeepNoted(k)
      /\ GivesUp(k) \/ ReadsOn(k, id) \/ \E w, m \in Nat : Answers(k, id, w, m)
  BY <1>1, <1>3, <1>5, <1>6, HandleSteps
<1>8. Handles(k, id)
  BY <1>2, <1>3, <1>4, <1>5, <1>6, <1>7 DEF Handles
<1> QED
  BY <1>5, <1>8

\* A handler gives no connection text; if it executes a call, the connection held it
\* and does no longer.
LEMMA HandlesHeld ==
  ASSUME MInv, MInv', NEW k \in Conn, NEW id \in CallId, Handles(k, id)
  PROVE  /\ \A h \in Conn, jd \in CallId : Holds(h, jd)' => Holds(h, jd)
         /\ \/ executed' = executed
            \/ /\ executed' = Append(executed, id) /\ Holds(k, id)
               /\ \A jd \in CallId : ~Holds(k, jd)'
<1>1. /\ Live(k) /\ ends[k] \in EndState /\ BodyLen \in Nat
      /\ conn'[k] \in Connection /\ up'[k] \in Seq(Token)
  BY ConnHas, SocketAssumption DEF Handles, Live, MInv, TInv, TypeOK, SockType
<1>2. ASSUME Closes(k), NEW jd PROVE ~Holds(k, jd)'
  BY <1>1, <1>2 DEF Closes, Holds, Live, EndState
<1>3. ASSUME NEW w \in Nat, NEW n \in Nat, Answers(k, id, w, n), NEW jd PROVE ~Holds(k, jd)'
  BY <1>2, <1>3 DEF Answers, Holds, Reading, Writing
<1>4. ASSUME ReadsOn(k, id), NEW jd \in CallId, Holds(k, jd)' PROVE Holds(k, jd)
  <2>1. /\ Reading(conn'[k], up'[k], id) /\ Reading(conn'[k], up'[k], jd)
        /\ Got(conn'[k], up'[k]) # 0
    BY <1>4 DEF ReadsOn, Holds
  <2>2. id = jd
    BY <1>1, <2>1, ReadingOne
  <2> QED
    BY <1>1, <1>4, <2>1, <2>2 DEF ReadsOn, Holds
<1>5. ASSUME NEW jd \in CallId, Holds(k, jd)' PROVE Holds(k, jd)
  BY <1>2, <1>3, <1>4, <1>5 DEF Handles, GivesUp
<1>6. ASSUME NEW h \in Conn, h # k, NEW jd, Holds(h, jd)' PROVE Holds(h, jd)
  <2>1. conn'[h] = conn[h] /\ up'[h] = up[h] /\ ends'[h] = ends[h]
    BY <1>6 DEF Handles, OnlyAt
  <2> QED
    BY <1>6, <2>1 DEF Holds, Live
<1>7. ASSUME NEW w \in Nat, NEW n \in Nat, Answers(k, id, w, n)
      PROVE  executed' = executed \/ (executed' = Append(executed, id) /\ Holds(k, id))
  <2>1. BodyLen + 2 # 0
    BY <1>1
  <2> QED
    BY <1>1, <1>7, <2>1 DEF Answers, Holds
<1>8. GivesUp(k) \/ ReadsOn(k, id) => executed' = executed
  BY DEF GivesUp, ReadsOn
<1> QED
  BY <1>3, <1>5, <1>6, <1>7, <1>8 DEF Handles

\* What the handler leaves of the ends of its connection
LEMMA HandlesEnds ==
  ASSUME MInv, NEW k \in Conn, NEW id \in CallId, Handles(k, id)
  PROVE  /\ ends'[k].client = ends[k].client /\ ends'[k].server \in {"open", "closed"}
         /\ ends'[k].server = "open" => conn'[k].state # "closed"
         /\ ends[k].client # "closed" => Stays(k) \/ conn'[k].keep = FALSE
<1>1. ends[k] \in EndState /\ ends[k].server = "open"
  BY ConnHas DEF Handles
<1>2. Closes(k) => ends'[k].client = ends[k].client /\ ends'[k].server = "closed"
  BY <1>1 DEF Closes, EndState
<1>3. Stays(k) => ends'[k] = ends[k] /\ conn'[k].state # "closed"
  BY DEF Stays
<1>4. GivesUp(k) => ends[k].client = "closed" /\ Closes(k)
  BY DEF GivesUp
<1>5. ReadsOn(k, id) => Stays(k)
  BY DEF ReadsOn
<1>6. \A w, n \in Nat : Answers(k, id, w, n) =>
        Stays(k) \/ (Closes(k) /\ (ends[k].client = "closed" \/ conn'[k].keep = FALSE))
  BY DEF Answers
<1> QED
  BY <1>1, <1>2, <1>3, <1>4, <1>5, <1>6 DEF Handles

\* More of the answer continues what the client has.
LEMMA AnswerMore ==
  ASSUME NEW x, x.header \in Seq(Token), x.response \in Seq(Token), NEW s \in Seq(Token)
  PROVE  /\ Had(x, s) \in Nat /\ Len(s) \in Nat /\ Len(s) <= Had(x, s)
         /\ \A id : \A t \in Seq(Token) :
              Answer(x, s, id) /\ Piece(t, id, Had(x, s), ReplyLen)
                => Answer(x, s \o t, id) /\ Had(x, s \o t) = Had(x, s) + Len(t)
<1>1. Len(s) \in Nat /\ Len(x.header) \in Nat /\ Len(x.response) \in Nat /\ ReplyLen \in Nat
  BY LenProperties, SocketAssumption
<1>2. Had(x, s) \in Nat /\ Len(s) <= Had(x, s)
  BY <1>1 DEF Had
<1>3. ASSUME NEW id, NEW t \in Seq(Token), Answer(x, s, id), Piece(t, id, Had(x, s), ReplyLen)
      PROVE  Answer(x, s \o t, id) /\ Had(x, s \o t) = Had(x, s) + Len(t)
  <2>1. Len(s \o t) = Len(s) + Len(t) /\ Len(t) \in Nat
    BY ConcatProperties, LenProperties
  <2>2. CASE x.state = "READ_HEADER"
    <3>1. Had(x, s) = Len(x.header) + Len(s) /\ Had(x, s \o t) = Len(x.header) + Len(s \o t)
      BY <2>2 DEF Had
    <3>2. Piece(s, id, Len(x.header), ReplyLen) /\ Piece(t, id, Len(x.header) + Len(s), ReplyLen)
      BY <1>3, <2>2, <3>1 DEF Answer
    <3>3. Piece(s \o t, id, Len(x.header), ReplyLen)
      BY <1>1, <3>2, PieceConcat
    <3>4. Had(x, s \o t) = Had(x, s) + Len(t)
      <4> DEFINE f == Len(x.header)
                 u == Len(s \o t)
      <4>1. f \in Nat /\ u = Len(s) + Len(t) /\ Had(x, s) = f + Len(s) /\ Had(x, s \o t) = f + u
        BY <1>1, <2>1, <3>1
      <4> HIDE DEF f, u
      <4> QED
        BY <1>1, <2>1, <4>1
    <3>5. Answer(x, s \o t, id)
      BY <1>3, <2>2, <3>3 DEF Answer
    <3> QED
      BY <3>4, <3>5
  <2>3. CASE x.state # "READ_HEADER"
    <3>1. /\ Had(x, s) = 2 + Len(x.response) + Len(s)
          /\ Had(x, s \o t) = 2 + Len(x.response) + Len(s \o t)
      BY <2>3 DEF Had
    <3>2. /\ Piece(s, id, 2 + Len(x.response), ReplyLen) /\ 2 + Len(x.response) \in Nat
          /\ Piece(t, id, 2 + Len(x.response) + Len(s), ReplyLen)
      BY <1>1, <1>3, <2>3, <3>1 DEF Answer
    <3>3. Piece(s \o t, id, 2 + Len(x.response), ReplyLen)
      BY <1>1, <3>2, PieceConcat
    <3>4. Had(x, s \o t) = Had(x, s) + Len(t)
      <4> DEFINE f == 2 + Len(x.response)
                 u == Len(s \o t)
      <4>1. f \in Nat /\ u = Len(s) + Len(t) /\ Had(x, s) = f + Len(s) /\ Had(x, s \o t) = f + u
        BY <1>1, <2>1, <3>1
      <4> HIDE DEF f, u
      <4> QED
        BY <1>1, <2>1, <4>1
    <3>5. Answer(x, s \o t, id)
      BY <1>3, <2>3, <3>3 DEF Answer
    <3> QED
      BY <3>4, <3>5
  <2> QED
    BY <2>2, <2>3
<1> QED
  BY <1>1, <1>2, <1>3

\* The client whose answer is being written
LEMMA HandlesHears ==
  ASSUME MInv, CInv, MInv', NEW k \in Conn, NEW id \in CallId, Handles(k, id),
         \A jd \in CallId : Times(jd) # 0 => Times(jd)' # 0,
         ends[k].client = "open", NEW x, x.attempts \in Nat,
         x.header \in Seq(Token), x.response \in Seq(Token), Hears(k, x, id)
  PROVE  /\ Answer(x, down'[k], id)
         /\ Had(x, down'[k]) # 0 => Times(id)' # 0
         /\ Live(k)' => \E had \in Nat : had = Had(x, down'[k]) /\ Served(k, id, had)'
         /\ x.attempts = 0 /\ Had(x, down'[k]) = 0 /\ ~Live(k)' => Alone(k, id)'
<1> DEFINE had == Had(x, down[k])
<1>1. /\ down[k] \in Seq(Token) /\ Len(down[k]) \in Nat
      /\ Len(x.header) \in Nat /\ Len(x.response) \in Nat /\ TypeOK
      /\ ReplyLen \in Nat /\ BodyLen \in Nat
  BY ConnHas, LenProperties, SocketAssumption DEF MInv, TInv
<1>2. Live(k) /\ Served(k, id, had) /\ had \in Nat
  <2>1. Live(k)
    BY DEF Handles, Live
  <2>2. had \in Nat
    BY <1>1, AnswerMore
  <2> QED
    BY <2>1, <2>2 DEF Hears
<1>3. Live(k)' <=> ends'[k].server = "open"
  BY HandlesEnds DEF Live
<1> HIDE DEF had
<1>4. CASE ReadsOn(k, id)
  <2>1. /\ down'[k] = down[k] /\ Live(k)' /\ executed' = executed
        /\ Reading(conn[k], up[k], id) /\ Reading(conn'[k], up'[k], id)
        /\ Got(conn'[k], up'[k]) = Got(conn[k], up[k])
    BY <1>2, <1>4 DEF ReadsOn, Stays, Live
  <2>2. ~Writing(conn[k], up[k], id)
    BY <2>1 DEF Reading, Writing
  <2>3. \/ Got(conn[k], up[k]) = BodyLen + 2 /\ had = 0
        \/ Got(conn[k], up[k]) = 0 /\ had = ReplyLen + 2
    BY <1>2, <2>2 DEF Served
  <2>4. \E m \in Nat : m = Had(x, down'[k]) /\ Served(k, id, m)'
    <3>1. PICK m \in Nat : m = had
      BY <1>2
    <3>2. Served(k, id, m)'
      BY <2>1, <2>3, <3>1 DEF Served
    <3>3. m = Had(x, down'[k])
      BY <2>1, <3>1 DEF had
    <3> QED
      BY <3>2, <3>3
  <2>5. Times(id)' = Times(id)
    BY <2>1, TimesSame
  <2> QED
    <3>1. Answer(x, down'[k], id) /\ (Had(x, down'[k]) # 0 => Times(id)' # 0)
      BY <2>1, <2>5 DEF Hears
    <3> QED
      BY <2>1, <2>4, <3>1
<1>5. ASSUME NEW w \in Nat, NEW n \in Nat, Answers(k, id, w, n)
      PROVE  /\ Answer(x, down'[k], id)
             /\ Had(x, down'[k]) # 0 /\ Times(id)' # 0
             /\ Live(k)' => \E m \in Nat : m = Had(x, down'[k]) /\ Served(k, id, m)'
  <2>1. PICK text \in Seq(Token) : /\ down'[k] = down[k] \o text
                                   /\ Piece(text, id, w, ReplyLen) /\ Len(text) = n
    BY <1>5 DEF Answers
  <2>2. Len(down[k]) = 0 => n # 0
    BY <1>1, <1>5, EmptySeq DEF Answers
  <2>3. had = w
    <3>1. CASE Reading(conn[k], up[k], id) /\ Got(conn[k], up[k]) = BodyLen + 2 /\ w = 0
      <4>1. ~Writing(conn[k], up[k], id) /\ BodyLen + 2 # 0
        BY <1>1, <3>1 DEF Reading, Writing
      <4> QED
        BY <1>2, <3>1, <4>1 DEF Served
    <3>2. CASE Writing(conn[k], up[k], id) /\ w = conn[k].written
      <4>1. ~Reading(conn[k], up[k], id)
        BY <3>2 DEF Reading, Writing
      <4> QED
        BY <1>2, <3>2, <4>1 DEF Served
    <3> QED
      BY <1>5, <3>1, <3>2 DEF Answers
  <2>5. Answer(x, down'[k], id) /\ Had(x, down'[k]) = w + n
    <3> DEFINE s == down[k]
    <3>1. s \in Seq(Token) /\ Answer(x, s, id) /\ Had(x, s) = w
      BY <1>1, <2>3 DEF Hears, had
    <3> HIDE DEF s
    <3>2. Answer(x, s \o text, id) /\ Had(x, s \o text) = w + n
      BY <2>1, <3>1, AnswerMore
    <3> QED
      BY <2>1, <3>2 DEF s
  <2>6. w + n # 0
    <3>1. Len(down[k]) <= w
      BY <1>1, <2>3, AnswerMore DEF had
    <3> QED
      BY <1>1, <2>2, <3>1
  <2>8. Times(id)' # 0
    <3>1. CASE executed' = Append(executed, id)
      <4>1. Times(id)' = Times(id) + 1 /\ Times(id) \in Nat
        BY <1>1, <3>1, TimesAppend, TimesType
      <4> QED
        BY <4>1
    <3>2. CASE Writing(conn[k], up[k], id) /\ executed' = executed
      <4>1. ~Reading(conn[k], up[k], id)
        BY <3>2 DEF Reading, Writing
      <4>2. had # 0
        BY <1>2, <4>1 DEF Served
      <4> QED
        BY <4>2 DEF Hears, had
    <3> QED
      BY <1>5, <3>1, <3>2 DEF Answers
  <2>9. Live(k)' => \/ /\ w + n = ReplyLen + 2 /\ Reading(conn'[k], up'[k], id)
                       /\ Got(conn'[k], up'[k]) = 0
                    \/ Writing(conn'[k], up'[k], id) /\ conn'[k].written = w + n
    <3>1. Closes(k) => ~Live(k)'
      BY ConnHas DEF Closes, Live, EndState
    <3> QED
      BY <1>5, <3>1 DEF Answers
  <2>10. Live(k)' => Served(k, id, w + n)' /\ w + n \in Nat
    BY <2>6, <2>9 DEF Served
  <2> QED
    BY <2>5, <2>6, <2>8, <2>10
<1>6. ~GivesUp(k)
  BY DEF GivesUp
<1> QED
  BY <1>4, <1>5, <1>6 DEF Handles, Hears

\* A client's object, and the connection it has
LEMMA ClientHas ==
  ASSUME MInv, NEW c \in Clients
  PROVE  /\ client[c] \in Client /\ client[c].attempts \in Nat /\ client[c].written \in Nat
         /\ client[c].header \in Seq(Token) /\ client[c].response \in Seq(Token)
         /\ client[c].nr # 0 => Socket(c) \in Conn
         /\ inCall[c] \/ client[c].state = "IDLE" => client[c].nr # 0
         /\ Socket(c)[1] = c
<1>1. client[c] \in Client /\ Busy(c) /\ HasSocket(c)
  BY DEF MInv, TInv, TypeOK
<1>2. client[c].nr # 0 => client[c].nr \in 1..MaxConns
  <2>1. client[c].nr \in 0..MaxConns /\ MaxConns \in Nat
    BY <1>1, SocketAssumption DEF Client
  <2> QED
    BY <2>1
<1>3. client[c].nr # 0 => Socket(c) \in Conn
  BY <1>2 DEF Socket, Conn
<1>4. inCall[c] \/ client[c].state = "IDLE" => client[c].nr # 0
  BY <1>1 DEF Busy, HasSocket
<1> QED
  BY <1>1, <1>3, <1>4 DEF Client, Socket

\* What the handler of its connection leaves a client with
LEMMA HandlesClient ==
  ASSUME MInv, CInv, MInv', NEW c \in Clients, NEW k \in Conn, k = Socket(c),
         client[c].nr # 0, NEW id \in CallId, Handles(k, id),
         UNCHANGED clientVars, crashes' = crashes,
         \A jd \in CallId : Times(jd) # 0 => Times(jd)' # 0,
         \A jd \in CallId : executed' = executed /\ Alone(k, jd) => Alone(k, jd)'
  PROVE  ClientText(c)'
<1>1. /\ client' = client /\ inCall' = inCall /\ called' = called
      /\ k[1] = c /\ Live(k) /\ BodyLen \in Nat
      /\ ClientText(c) /\ ends[k].client = "open" /\ Socket(c)' = k /\ Current(c)' = Current(c)
  BY ClientHas, SocketAssumption DEF clientVars, Handles, Live, CInv, ClientText, Socket, Current
<1>2. ends'[k].client = "open" /\ ends'[k].server # "none" /\ ~GivesUp(k)
  BY <1>1, HandlesEnds DEF GivesUp
<1>3. inCall[c] => id = Current(c)
  BY <1>1 DEF Handles
<1>4. \A jd \in CallId, w, n \in Nat :
        Answers(k, jd, w, n) => /\ Reading(conn[k], up[k], jd) => Got(conn[k], up[k]) = BodyLen + 2
                                /\ Reading(conn[k], up[k], jd) \/ Writing(conn[k], up[k], jd)
  BY DEF Answers, Reading, Writing
<1>5. ReadsOn(k, id) => /\ Live(k)' /\ executed' = executed /\ down'[k] = down[k]
                        /\ Reading(conn'[k], up'[k], id)
                        /\ Got(conn'[k], up'[k]) = Got(conn[k], up[k])
  BY <1>1 DEF ReadsOn, Stays, Live
<1>6. ASSUME inCall[c], client[c].state = "WRITE_REQUEST" PROVE Asks(k, client[c], id)'
  <2>1. Asks(k, client[c], id)
    BY <1>1, <1>3, <1>6 DEF ClientText
  <2>2. ReadsOn(k, id)
    <3>1. /\ Reading(conn[k], up[k], id) /\ Got(conn[k], up[k]) = client[c].written
          /\ client[c].written \in Nat /\ client[c].written < BodyLen + 2
      BY <1>1, <2>1, ClientHas DEF Asks
    <3>2. Got(conn[k], up[k]) # BodyLen + 2
      BY <1>1, <3>1
    <3> QED
      BY <1>2, <1>4, <3>1, <3>2 DEF Handles
  <2> QED
    BY <1>1, <1>5, <2>1, <2>2 DEF Asks
<1>7. ASSUME inCall[c], client[c].state # "WRITE_REQUEST" PROVE Hears(k, client[c], id)'
  <2>1. Hears(k, client[c], id)
    BY <1>1, <1>3, <1>7 DEF ClientText
  <2> DEFINE x == client[c]
  <2>2. /\ x.attempts \in Nat /\ x.header \in Seq(Token) /\ x.response \in Seq(Token)
        /\ Hears(k, x, id)
    BY <1>1, <2>1, ClientHas
  <2>3. x = client'[c]
    BY <1>1
  <2> HIDE DEF x
  <2>4. /\ Answer(x, down'[k], id)
        /\ Had(x, down'[k]) # 0 => Times(id)' # 0
        /\ Live(k)' => \E had \in Nat : had = Had(x, down'[k]) /\ Served(k, id, had)'
        /\ x.attempts = 0 /\ Had(x, down'[k]) = 0 /\ ~Live(k)' => Alone(k, id)'
    BY <1>1, <2>2, HandlesHears
  <2> QED
    BY <2>3, <2>4 DEF Hears
<1>8. ASSUME ~inCall[c], client[c].state = "IDLE" PROVE Rests(k)'
  <2>1. Rests(k)
    BY <1>1, <1>8 DEF ClientText
  <2>2. Got(conn[k], up[k]) = 0 /\ Reading(conn[k], up[k], id) /\ BodyLen + 2 # 0
    BY <1>1, <2>1 DEF Rests
  <2>3. ReadsOn(k, id)
    BY <1>2, <1>4, <2>2 DEF Handles
  <2> DEFINE z == conn'[k]
             text == up'[k]
  <2>4. z \in Connection /\ text \in Seq(Token)
    BY DEF MInv, TInv, TypeOK, SockType
  <2>5. Reading(z, text, id) /\ Got(z, text) = 0
    BY <1>5, <2>2, <2>3
  <2>6. z = conn'[k] /\ text = up'[k]
    OBVIOUS
  <2> HIDE DEF z, text
  <2>7. \A jd \in CallId : Reading(z, text, jd)
    BY <2>4, <2>5, ReadingNothing
  <2> QED
    BY <1>5, <2>1, <2>3, <2>5, <2>6, <2>7 DEF Rests
<1> QED
  BY <1>1, <1>2, <1>3, <1>6, <1>7, <1>8 DEF ClientText

\* A handler keeps the second invariant.
LEMMA HandleConnectionTexts ==
  ASSUME MInv, CInv, MInv', HandleConnection, UNCHANGED clientVars
  PROVE  CInv'
<1>1. PICK k \in Conn, id \in CallId : Handles(k, id)
  BY HandleConnectionHandles
<1>2. /\ client' = client /\ inCall' = inCall /\ called' = called
      /\ alive' = alive /\ listening' = listening /\ crashes' = crashes
      /\ \A c \in Clients : called'[c] \in Nat /\ called[c] <= called'[c]
  BY SocketAssumption DEF clientVars, HandleConnection, MInv, TInv, TypeOK
<1>3. /\ HeldBound' /\ HeldOnce' /\ TimesBound' /\ ExecutedMade'
      /\ \A h \in Conn, jd \in CallId :
           Alone(h, jd) /\ (executed' = executed \/ h # k \/ ~Holds(h, jd)) => Alone(h, jd)'
      /\ \A jd \in CallId : Times(jd) # 0 => Times(jd)' # 0
  <2>1. /\ \A h \in Conn, jd \in CallId : Holds(h, jd)' => Holds(h, jd)
        /\ \/ executed' = executed
           \/ /\ executed' = Append(executed, id) /\ Holds(k, id)
              /\ \A jd \in CallId : ~Holds(k, jd)'
    BY <1>1, HandlesHeld
  <2> QED
    BY <1>2, <2>1, CountsKept
<1>4. \A h \in Conn \ {k} : /\ conn'[h] = conn[h] /\ up'[h] = up[h]
                            /\ down'[h] = down[h] /\ ends'[h] = ends[h]
  BY <1>1 DEF Handles, OnlyAt
<1>5. /\ ends'[k].client = ends[k].client /\ ends'[k].server \in {"open", "closed"}
      /\ ends'[k].server = "open" => conn'[k].state # "closed"
      /\ ends[k].client # "closed" => Stays(k) \/ conn'[k].keep = FALSE
  BY <1>1, HandlesEnds
<1>6. NewIsEmpty'
  <2> SUFFICES ASSUME NEW h \in Conn
               PROVE  /\ ends'[h].server = "none" => /\ up'[h] = <<>> /\ down'[h] = <<>>
                                                     /\ ends'[h].client = "none"
                      /\ ends'[h].server = "none" \/ ends'[h].server = "backlog"
                           => conn'[h] = NoConnection
                      /\ ends'[h].server = "open" => conn'[h].state # "closed"
    BY DEF NewIsEmpty
  <2>1. CASE h = k
    BY <1>5, <2>1
  <2>2. CASE h # k
    BY <1>4, <2>2 DEF CInv, NewIsEmpty
  <2> QED
    BY <2>1, <2>2
<1>7. ServerTexts'
  <2> SUFFICES ASSUME NEW h \in Conn, Live(h)'
               PROVE  \E n \in 1..called'[h[1]] :
                        \/ Reading(conn'[h], up'[h], <<h[1], n>>)
                        \/ Writing(conn'[h], up'[h], <<h[1], n>>)
    BY DEF ServerTexts
  <2>1. CASE h = k
    <3>1. Reading(conn'[k], up'[k], id) \/ Writing(conn'[k], up'[k], id)
      <4>1. Closes(k) => ~Live(k)'
        BY ConnHas DEF Closes, Live, EndState
      <4>2. ~Closes(k)
        BY <2>1, <4>1
      <4> QED
        BY <1>1, <4>2 DEF Handles, GivesUp, ReadsOn, Answers
    <3>2. id[2] \in 1..called[k[1]] /\ id = <<k[1], id[2]>>
      BY <1>1 DEF Handles, CallId
    <3> QED
      BY <1>2, <2>1, <3>1, <3>2
  <2>2. CASE h # k
    <3>1. Live(h)
      BY <1>4, <2>2 DEF Live
    <3> QED
      BY <1>2, <1>4, <2>2, <3>1 DEF CInv, ServerTexts
  <2> QED
    BY <2>1, <2>2
<1>8. NoneClosed'
  <2> SUFFICES ASSUME crashes = 0
               PROVE  /\ alive' /\ listening'
                      /\ \A h \in Conn : h[1] \notin OldHttp /\ ends'[h].client = "open"
                                          => Live(h)' /\ conn'[h].keep = TRUE
    BY <1>2 DEF NoneClosed
  <2>1. /\ alive /\ listening
        /\ \A h \in Conn : h[1] \notin OldHttp /\ ends[h].client = "open"
                            => Live(h) /\ conn[h].keep = TRUE
    BY DEF CInv, NoneClosed
  <2>2. ASSUME NEW h \in Conn, h[1] \notin OldHttp, ends'[h].client = "open", h = k
        PROVE  Live(h)' /\ conn'[h].keep = TRUE
    <3>1. conn'[k].keep = TRUE
      BY <1>1, <1>5, <2>1, <2>2 DEF Handles, KeepNoted
    <3>2. Stays(k) /\ Live(k)
      BY <1>5, <2>1, <2>2, <3>1
    <3> QED
      BY <2>2, <3>1, <3>2 DEF Stays, Live
  <2>3. ASSUME NEW h \in Conn, h[1] \notin OldHttp, ends'[h].client = "open", h # k
        PROVE  Live(h)' /\ conn'[h].keep = TRUE
    BY <1>4, <2>1, <2>3 DEF Live
  <2> QED
    BY <1>2, <2>1, <2>2, <2>3
<1>9. ASSUME NEW c \in Clients PROVE ClientText(c)'
  <2>1. ClientText(c)
    BY DEF CInv
  <2>2. CASE client[c].nr # 0 /\ Socket(c) = k
    <3>1. \A jd \in CallId : executed' = executed /\ Alone(k, jd) => Alone(k, jd)'
      BY <1>3
    <3> QED
      BY <1>1, <1>2, <1>3, <2>2, <3>1, HandlesClient
  <2>3. CASE ~(client[c].nr # 0 /\ Socket(c) = k)
    <3>1. ASSUME Socket(c) \in Conn
          PROVE /\ conn'[Socket(c)] = conn[Socket(c)]
                /\ up'[Socket(c)] = up[Socket(c)]
                /\ down'[Socket(c)] = down[Socket(c)]
                /\ ends'[Socket(c)] = ends[Socket(c)]
                /\ Current(c) \in CallId /\ Alone(Socket(c), Current(c))
                     => Alone(Socket(c), Current(c))'
      <4>1. client[c].nr # 0
        BY <3>1, SocketAssumption DEF Socket, Conn
      <4>2. Socket(c) # k /\ Socket(c)' = Socket(c) /\ Current(c)' = Current(c)
        BY <1>2, <2>3, <4>1 DEF Socket, Current
      <4> QED
        BY <1>3, <1>4, <3>1, <4>2
    <3> QED
      BY <1>2, <1>3, <2>1, <3>1, UntouchedClient
  <2> QED
    BY <2>2, <2>3
<1> QED
  BY <1>3, <1>6, <1>7, <1>8, <1>9 DEF CInv

\* A step that changes nothing of the texts and of who holds them
LEMMA SameTexts ==
  ASSUME MInv, CInv, up' = up, down' = down, executed' = executed, crashes' = crashes,
         UNCHANGED clientVars,
         \A h \in Conn : /\ ends'[h].client = ends[h].client
                         /\ ends'[h].server = "none" <=> ends[h].server = "none"
                         /\ Live(h)' <=> Live(h)
                         /\ Got(conn[h], up[h])' = Got(conn[h], up[h])
                         /\ conn'[h].written = conn[h].written,
         \A h \in Conn, id \in CallId :
            /\ Reading(conn'[h], up[h], id) <=> Reading(conn[h], up[h], id)
            /\ Writing(conn'[h], up[h], id) <=> Writing(conn[h], up[h], id),
         NewIsEmpty', NoneClosed'
  PROVE  CInv'
<1>1. /\ client' = client /\ inCall' = inCall /\ called' = called
      /\ \A c \in Clients : Socket(c)' = Socket(c) /\ Current(c)' = Current(c)
  BY DEF clientVars, Socket, Current
<1>2. \A id : Times(id)' = Times(id)
  BY TimesSame
<1>3. \A h \in Conn, id \in CallId : Holds(h, id)' <=> Holds(h, id)
  BY DEF Holds
<1>4. HeldBound' /\ HeldOnce' /\ TimesBound' /\ ExecutedMade'
  <2>1. HeldBound /\ HeldOnce /\ TimesBound /\ ExecutedMade
    BY DEF CInv
  <2>2. HeldBound'
    BY <1>2, <1>3, <2>1 DEF HeldBound
  <2>3. HeldOnce'
    BY <1>3, <2>1 DEF HeldOnce
  <2>4. TimesBound'
    BY <1>2, <2>1 DEF TimesBound
  <2>5. ExecutedMade'
    BY <1>1, <2>1 DEF ExecutedMade
  <2> QED
    BY <2>2, <2>3, <2>4, <2>5
<1>5. \A h \in Conn, id \in CallId : Alone(h, id) => Alone(h, id)'
  BY <1>2, <1>3 DEF Alone
<1>6. ServerTexts'
  <2> SUFFICES ASSUME NEW h \in Conn, Live(h)'
               PROVE  \E n \in 1..called'[h[1]] :
                        \/ Reading(conn'[h], up'[h], <<h[1], n>>)
                        \/ Writing(conn'[h], up'[h], <<h[1], n>>)
    BY DEF ServerTexts
  <2>1. PICK n \in 1..called[h[1]] :
          Reading(conn[h], up[h], <<h[1], n>>) \/ Writing(conn[h], up[h], <<h[1], n>>)
    BY DEF CInv, ServerTexts
  <2>2. <<h[1], n>> \in CallId
    BY ConnHas, CallsAre
  <2> QED
    BY <1>1, <2>1, <2>2
<1>7. ASSUME NEW c \in Clients PROVE ClientText(c)'
  <2>1. ClientText(c) /\ Socket(c)' = Socket(c) /\ Current(c)' = Current(c)
    BY <1>1 DEF CInv
  <2>2. client[c].nr # 0 => Socket(c) \in Conn
    BY ClientHas
  <2>3. inCall[c] \/ client[c].state = "IDLE" => client[c].nr # 0
    BY ClientHas
  <2>4. inCall[c] => Current(c) \in CallId
    BY CallsAre
  <2> DEFINE k == Socket(c)
             id == Current(c)
  <2>5. inCall[c] /\ Asks(k, client[c], id) => Asks(k, client[c], id)'
    BY <1>1, <1>5, <2>1, <2>2, <2>3, <2>4 DEF Asks
  <2>6. inCall[c] /\ Hears(k, client[c], id) => Hears(k, client[c], id)'
    BY <1>1, <1>2, <1>5, <2>1, <2>2, <2>3, <2>4 DEF Hears, Served
  <2>7. client[c].state = "IDLE" /\ Rests(k) => Rests(k)'
    BY <1>1, <2>1, <2>2, <2>3 DEF Rests
  <2> QED
    BY <1>1, <2>1, <2>2, <2>5, <2>6, <2>7 DEF ClientText
<1> QED
  BY <1>4, <1>6, <1>7 DEF CInv

\* A step that touches no text, no connection and no client keeps it,
LEMMA SelectTexts ==
  ASSUME MInv, CInv, UNCHANGED <<sockVars, alive, conn, executed, crashes, clientVars>>
  PROVE  CInv'
<1>1. /\ up' = up /\ down' = down /\ ends' = ends /\ listening' = listening /\ alive' = alive
      /\ conn' = conn /\ executed' = executed /\ crashes' = crashes /\ UNCHANGED clientVars
  BY DEF sockVars
<1>2. \A h \in Conn : Live(h)' <=> Live(h)
  BY <1>1 DEF Live
<1>3. NewIsEmpty' /\ NoneClosed'
  BY <1>1, <1>2 DEF CInv, NewIsEmpty, NoneClosed
<1> QED
  BY <1>1, <1>2, <1>3, SameTexts

\* so does the new start of the process,
LEMMA ServerStartsTexts ==
  ASSUME MInv, CInv, ServerStarts, UNCHANGED clientVars
  PROVE  CInv'
<1>1. /\ up' = up /\ down' = down /\ ends' = ends /\ conn' = conn /\ executed' = executed
      /\ crashes' = crashes /\ ~alive
  BY DEF ServerStarts
<1>2. \A h \in Conn : Live(h)' <=> Live(h)
  BY <1>1 DEF Live
<1>3. NewIsEmpty' /\ NoneClosed'
  BY <1>1 DEF CInv, NewIsEmpty, NoneClosed
<1> QED
  BY <1>1, <1>2, <1>3, SameTexts

\* the acceptance of a connection, whose object is new,
LEMMA AcceptTexts ==
  ASSUME MInv, CInv, AcceptConnection, UNCHANGED clientVars
  PROVE  CInv'
<1>1. /\ up' = up /\ down' = down /\ executed' = executed /\ crashes' = crashes
      /\ alive' = alive /\ listening' = listening
      /\ conn \in [Conn -> Connection] /\ ends \in [Conn -> EndState]
  BY DEF AcceptConnection, MInv, TInv, TypeOK, SockType
<1>2. CASE UNCHANGED <<ends, conn, sources>>
  BY <1>1, <1>2, SelectTexts DEF sockVars
<1>3. ASSUME NEW k \in Conn, ends[k].server = "backlog",
             ends' = [ends EXCEPT ![k].server = "open"],
             conn' = [conn EXCEPT ![k] = NewConnection]
      PROVE  CInv'
  <2>1. /\ \A h \in Conn \ {k} : ends'[h] = ends[h] /\ conn'[h] = conn[h]
        /\ ends'[k].server = "open" /\ ends'[k].client = ends[k].client
        /\ conn'[k] = NewConnection /\ conn[k] = NoConnection
    BY <1>1, <1>3 DEF EndState, CInv, NewIsEmpty
  <2>2. /\ NewConnection.state = "READ_HEADER" /\ NoConnection.state = "closed"
        /\ NewConnection.header = NoConnection.header
        /\ NewConnection.response = NoConnection.response
        /\ NewConnection.written = NoConnection.written /\ NewConnection.keep = TRUE
    BY DEF NewConnection, NoConnection
  <2>3. \A text : Got(NewConnection, text) = Got(NoConnection, text)
    BY <2>2 DEF Got
  <2>4. \A text, id : /\ Reading(NewConnection, text, id) <=> Reading(NoConnection, text, id)
                      /\ ~Writing(NewConnection, text, id) /\ ~Writing(NoConnection, text, id)
    BY <2>2 DEF Reading, Writing
  <2>5. \A h \in Conn : Live(h)' <=> Live(h)
    BY <1>3, <2>1 DEF Live
  <2>6. \A h \in Conn : Got(conn[h], up[h])' = Got(conn[h], up[h])
    BY <1>1, <2>1, <2>3
  <2>7. \A h \in Conn, id \in CallId :
            /\ Reading(conn'[h], up[h], id) <=> Reading(conn[h], up[h], id)
            /\ Writing(conn'[h], up[h], id) <=> Writing(conn[h], up[h], id)
    BY <2>1, <2>4
  <2>8. NewIsEmpty'
    BY <1>1, <1>3, <2>1, <2>2 DEF CInv, NewIsEmpty
  <2>9. NoneClosed'
    BY <1>1, <2>1, <2>2, <2>5 DEF CInv, NoneClosed
  <2>10. \A h \in Conn : /\ ends'[h].client = ends[h].client
                         /\ ends'[h].server = "none" <=> ends[h].server = "none"
                         /\ conn'[h].written = conn[h].written
    BY <1>3, <2>1, <2>2
  <2> QED
    BY <1>1, <2>5, <2>6, <2>7, <2>8, <2>9, <2>10, SameTexts
<1> QED
  BY <1>2, <1>3 DEF AcceptConnection

\* When the server dies the end of an answer may be lost; nothing is held any more, so
\* that every request may be sent again.
LEMMA AnswerLess ==
  ASSUME NEW x, x.header \in Seq(Token), x.response \in Seq(Token), NEW t \in Seq(Token),
         NEW n \in Int, n <= Len(t)
  PROVE  /\ SubSeq(t, 1, n) \in Seq(Token)
         /\ Had(x, t) = 0 => Had(x, SubSeq(t, 1, n)) = 0
         /\ t = <<>> => SubSeq(t, 1, n) = <<>>
         /\ \A id : Answer(x, t, id) => Answer(x, SubSeq(t, 1, n), id)
<1> DEFINE s == SubSeq(t, 1, n)
<1>1. /\ Len(t) \in Nat /\ Len(x.header) \in Nat /\ Len(x.response) \in Nat /\ ReplyLen \in Nat
      /\ \A i \in 1..n : t[i] \in Token
  BY ElementOfSeq, LenProperties, SocketAssumption
<1>2. s \in Seq(Token) /\ Len(s) = IF 1 <= n THEN n - 1 + 1 ELSE 0
  BY <1>1, SubSeqProperties, 1 \in Int
<1> HIDE DEF s
<1>4. Len(t) = 0 => Len(s) = 0
  BY <1>1, <1>2
<1>5. t = <<>> => s = <<>>
  BY <1>2, <1>4, EmptySeq
<1>6. Had(x, t) = 0 => Had(x, s) = 0
  <2>1. Had(x, t) = 0 => Len(t) = 0
    BY <1>1, AnswerMore
  <2>2. Len(t) = 0 => Had(x, s) = Had(x, t)
    BY <1>4 DEF Had
  <2> QED
    BY <2>1, <2>2
<1>7. ASSUME NEW id, Answer(x, t, id) PROVE Answer(x, s, id)
  <2>1. \A from \in Nat : Piece(t, id, from, ReplyLen) => Piece(s, id, from, ReplyLen)
    BY <1>1, PieceCut DEF s
  <2>2. Len(x.header) \in Nat /\ 2 + Len(x.response) \in Nat
    BY <1>1
  <2> QED
    BY <1>7, <2>1, <2>2 DEF Answer
<1> QED
  BY <1>2, <1>5, <1>6, <1>7 DEF s

\* and the death of the process, after which a call may be executed once more.
LEMMA ServerDiesTexts ==
  ASSUME MInv, CInv, ServerDies, UNCHANGED clientVars
  PROVE  CInv'
<1>1. /\ up' = up /\ executed' = executed /\ crashes' = crashes + 1 /\ crashes \in Nat
      /\ client' = client /\ inCall' = inCall /\ called' = called
      /\ conn' = [k \in Conn |-> NoConnection]
      /\ ends' = [k \in Conn |-> IF ends[k].server \in {"backlog", "open"}
                                THEN [ends[k] EXCEPT !.server = "closed"] ELSE ends[k]]
      /\ ends \in [Conn -> EndState]
  BY DEF ServerDies, clientVars, MInv, TInv, TypeOK, SockType
<1>2. \A k \in Conn : /\ ends'[k].client = ends[k].client
                      /\ ends'[k].server \in {"none", "closed"}
                      /\ ends'[k].server = "none" <=> ends[k].server = "none"
  BY <1>1 DEF EndState
<1>3. \A k \in Conn : ~Live(k)'
  BY <1>2 DEF Live
<1>4. \A k \in Conn : \/ down'[k] = down[k]
                      \/ \E n \in Int : n <= Len(down[k]) /\ down'[k] = SubSeq(down[k], 1, n)
  <2>1. PICK lost \in 0..Capacity :
          down' = [k \in Conn |-> IF ends[k].server # "open" THEN down[k]
                                  ELSE SubSeq(down[k], 1, Len(down[k]) - lost)]
    BY DEF ServerDies
  <2>2. \A k \in Conn : Len(down[k]) - lost \in Int /\ Len(down[k]) - lost <= Len(down[k])
    <3>1. lost \in Nat /\ \A k \in Conn : Len(down[k]) \in Nat
      BY ConnHas, LenProperties, SocketAssumption
    <3> QED
      BY <3>1
  <2> QED
    BY <2>1, <2>2
<1>5. \A k \in Conn : \A id : ~Holds(k, id)'
  BY <1>3 DEF Holds
<1>6. \A id : Times(id)' = Times(id)
  BY <1>1, TimesSame
<1>7. \A id \in CallId : Times(id)' <= crashes'
  BY <1>1, <1>6 DEF CInv, TimesBound
<1>8. \A k \in Conn, id \in CallId : Alone(k, id)'
  BY <1>5, <1>7 DEF Alone
<1>9. HeldBound' /\ HeldOnce' /\ ServerTexts'
  BY <1>3, <1>5 DEF HeldBound, HeldOnce, ServerTexts
<1>10. TimesBound'
  <2>1. \A id \in CallId : Times(id)' \in Nat
    BY <1>6, TimesType DEF MInv, TInv
  <2> QED
    BY <1>1, <1>7, <2>1 DEF TimesBound
<1>11. ExecutedMade'
  BY <1>1 DEF CInv, ExecutedMade
<1>12. NewIsEmpty'
  <2> SUFFICES ASSUME NEW k \in Conn
               PROVE  /\ ends'[k].server = "none" => /\ up'[k] = <<>> /\ down'[k] = <<>>
                                                     /\ ends'[k].client = "none"
                      /\ conn'[k] = NoConnection
    BY <1>2 DEF NewIsEmpty
  <2>1. down[k] = <<>> => down'[k] = <<>>
    <3>1. down[k] \in Seq(Token)
      BY ConnHas
    <3> DEFINE t == down[k]
    <3>2. /\ t \in Seq(Token)
          /\ \/ down'[k] = t
             \/ \E n \in Int : n <= Len(t) /\ down'[k] = SubSeq(t, 1, n)
      BY <1>4, <3>1
    <3> HIDE DEF t
    <3> DEFINE x == NoConnection
    <3>3. x.header \in Seq(Token) /\ x.response \in Seq(Token)
      BY NewType, ConnectionFields
    <3> HIDE DEF x
    <3>4. t = <<>> => down'[k] = <<>>
      BY <3>2, <3>3, AnswerLess
    <3> QED
      BY <3>4 DEF t
  <2> QED
    BY <1>1, <1>2, <2>1 DEF CInv, NewIsEmpty
<1>13. NoneClosed'
  BY <1>1 DEF NoneClosed
<1>14. ASSUME NEW c \in Clients PROVE ClientText(c)'
  <2>1. /\ ClientText(c) /\ Socket(c)' = Socket(c) /\ Current(c)' = Current(c)
    BY <1>1 DEF CInv, Socket, Current
  <2>2. client[c].nr # 0 => Socket(c) \in Conn
    BY ClientHas
  <2>3. inCall[c] \/ client[c].state = "IDLE" => client[c].nr # 0
    BY ClientHas
  <2>4. inCall[c] => Current(c) \in CallId
    BY CallsAre
  <2> DEFINE k == Socket(c)
             id == Current(c)
  <2>5. ASSUME client[c].nr # 0
        PROVE  /\ down[k] = <<>> => down'[k] = <<>>
               /\ Had(client[c], down[k]) = 0 => Had(client[c], down'[k]) = 0
               /\ Answer(client[c], down[k], id) => Answer(client[c], down'[k], id)
    <3> DEFINE t == down[k]
               x == client[c]
    <3>1. /\ t \in Seq(Token) /\ x.header \in Seq(Token) /\ x.response \in Seq(Token)
          /\ \/ down'[k] = t
             \/ \E n \in Int : n <= Len(t) /\ down'[k] = SubSeq(t, 1, n)
      BY <1>4, <2>2, <2>5, ConnHas, ClientHas
    <3> HIDE DEF t, x
    <3>2. /\ t = <<>> => down'[k] = <<>>
          /\ Had(x, t) = 0 => Had(x, down'[k]) = 0
          /\ Answer(x, t, id) => Answer(x, down'[k], id)
      <4>1. ASSUME NEW n \in Int, n <= Len(t), down'[k] = SubSeq(t, 1, n)
            PROVE  /\ t = <<>> => down'[k] = <<>>
                   /\ Had(x, t) = 0 => Had(x, down'[k]) = 0
                   /\ Answer(x, t, id) => Answer(x, down'[k], id)
        <5>1. /\ Had(x, t) = 0 => Had(x, SubSeq(t, 1, n)) = 0
              /\ t = <<>> => SubSeq(t, 1, n) = <<>>
              /\ Answer(x, t, id) => Answer(x, SubSeq(t, 1, n), id)
          BY <3>1, <4>1, AnswerLess
        <5> QED
          BY <4>1, <5>1
      <4> QED
        BY <3>1, <4>1
    <3> QED
      BY <3>2 DEF t, x
  <2>6. inCall[c] /\ Asks(k, client[c], id) => Asks(k, client[c], id)'
    BY <1>1, <1>3, <1>8, <2>1, <2>2, <2>3, <2>4, <2>5 DEF Asks
  <2>7. inCall[c] /\ Hears(k, client[c], id) => Hears(k, client[c], id)'
    <3> SUFFICES ASSUME inCall[c], Hears(k, client[c], id) PROVE Hears(k, client[c], id)'
      OBVIOUS
    <3>1. Answer(client'[c], down'[k], id)
      BY <1>1, <2>1, <2>3, <2>5 DEF Hears
    <3>2. Had(client'[c], down'[k]) # 0 => Times(id)' # 0
      BY <1>1, <1>6, <2>1, <2>3, <2>5 DEF Hears
    <3> QED
      BY <1>3, <1>8, <2>1, <2>2, <2>3, <2>4, <3>1, <3>2 DEF Hears
  <2>8. client[c].state = "IDLE" /\ Rests(k) => Rests(k)'
    BY <1>3, <2>1, <2>2, <2>3, <2>5 DEF Rests
  <2> QED
    BY <1>1, <1>2, <2>1, <2>2, <2>6, <2>7, <2>8 DEF ClientText
<1> QED
  BY <1>9, <1>10, <1>11, <1>12, <1>13, <1>14 DEF CInv

-----------------------------------------------------------------------------
(* The clients' steps *)

\* A fault answers no call.
LEMMA NoCallIsNot == NoCall \notin CallId
<1>1. \A id \in CallId : id[2] \in 1..MaxCalls
  BY DEF CallId
<1>2. NoCall[2] = 0 /\ 0 \notin 1..MaxCalls
  BY SocketAssumption DEF NoCall
<1> QED
  BY <1>1, <1>2

\* A step of a client that gives its connection k text of its call id, if any, keeps
\* the counts; the call must be in nobody else's hands.
LEMMA CountsMore ==
  ASSUME MInv, CInv, NEW k, NEW id, id \in CallId => Alone(k, id),
         \A c \in Clients : called'[c] \in Nat /\ called[c] <= called'[c],
         crashes' = crashes, executed' = executed,
         \A h \in Conn, jd \in CallId : Holds(h, jd)' => Holds(h, jd) \/ (h = k /\ jd = id)
  PROVE  /\ HeldBound' /\ HeldOnce' /\ TimesBound' /\ ExecutedMade'
         /\ \A h \in Conn, jd \in CallId : Alone(h, jd) /\ (jd # id \/ h = k) => Alone(h, jd)'
         /\ \A jd : Times(jd)' = Times(jd)
<1>1. /\ TypeOK /\ HeldBound /\ HeldOnce /\ TimesBound /\ ExecutedMade
  BY DEF MInv, TInv, CInv
<1>2. \A jd : Times(jd)' = Times(jd)
  BY TimesSame
<1>3. HeldBound'
  BY <1>1, <1>2 DEF HeldBound, Alone
<1>4. HeldOnce'
  BY <1>1 DEF HeldOnce, Alone
<1>5. TimesBound'
  BY <1>1, <1>2 DEF TimesBound
<1>6. ExecutedMade'
  <2> SUFFICES ASSUME NEW i \in DOMAIN executed
               PROVE executed[i] \in CallId /\ executed[i][2] <= called'[executed[i][1]]
    BY DEF ExecutedMade
  <2>1. executed[i] \in CallId /\ executed[i][2] <= called[executed[i][1]]
    BY <1>1 DEF ExecutedMade
  <2>2. executed[i][1] \in Clients /\ executed[i][2] \in Nat
    BY <2>1, SocketAssumption DEF CallId
  <2>3. called[executed[i][1]] \in Nat
    BY <1>1, <2>2, SocketAssumption DEF TypeOK
  <2> QED
    BY <2>1, <2>2, <2>3
<1>7. \A h \in Conn, jd \in CallId : Alone(h, jd) /\ (jd # id \/ h = k) => Alone(h, jd)'
  BY <1>2 DEF Alone
<1> QED
  BY <1>2, <1>3, <1>4, <1>5, <1>6, <1>7

\* A step that gives no connection text
LEMMA CountsSame ==
  ASSUME MInv, CInv,
         \A c \in Clients : called'[c] \in Nat /\ called[c] <= called'[c],
         crashes' = crashes, executed' = executed,
         \A h \in Conn, jd \in CallId : Holds(h, jd)' => Holds(h, jd)
  PROVE  /\ HeldBound' /\ HeldOnce' /\ TimesBound' /\ ExecutedMade'
         /\ \A h \in Conn, jd \in CallId : Alone(h, jd) => Alone(h, jd)'
         /\ \A jd : Times(jd)' = Times(jd)
<1>1. NoCall \notin CallId
  BY NoCallIsNot
<1> DEFINE id == NoCall
           k == Listener
<1>2. id \notin CallId
  BY <1>1
<1> HIDE DEF id, k
<1>3. \A h \in Conn, jd \in CallId : jd # id \/ h = k
  BY <1>2
<1> QED
  BY <1>2, <1>3, CountsMore

\* A client's step has opened connection o, if that is one, and closed no other but its own.
EndsMoved(c, o) ==
  \A h \in Conn :
    \/ h # o /\ ends'[h] = ends[h]
    \/ /\ h # o /\ h = Socket(c) /\ client[c].nr # 0
       /\ ends'[h].client = "closed" /\ ends'[h].server = ends[h].server
    \/ /\ h = o /\ h[1] = c /\ ends[h].server = "none"
       /\ ends'[h].client = "open" /\ ends'[h].server \in {"backlog", "closed"}
       /\ listening => ends'[h].server = "backlog"

\* What a client's step leaves of the server, of the numbers of calls, and of the answers
ClientFrame(c) ==
  /\ conn' = conn /\ executed' = executed /\ crashes' = crashes /\ alive' = alive
  /\ listening' = listening
  /\ \A d \in Clients : called'[d] \in Nat /\ called[d] <= called'[d]
  /\ \A h \in Conn : down'[h] = down[h] \/ down'[h] = <<>>

\* The parts of the invariant that are about the server
ServerPart == /\ NewIsEmpty /\ ServerTexts /\ HeldBound /\ HeldOnce /\ TimesBound /\ ExecutedMade
              /\ NoneClosed

\* Of every request, a connection without an object has read nothing.
LEMMA NothingRead ==
  \A id : Reading(NoConnection, <<>>, id) /\ Got(NoConnection, <<>>) = 0
<1>1. /\ NoConnection.state = "closed" /\ NoConnection.header = <<>>
      /\ NoConnection.response = <<>>
  BY DEF NewConnection, NoConnection
<1>2. Len(<<>>) = 0 /\ \A id : Piece(<<>>, id, 0, BodyLen)
  BY PieceEmpty, SocketAssumption
<1> QED
  BY <1>1, <1>2 DEF Reading, Got

\* A client that opens or closes connections of its own keeps the parts about the server.
LEMMA OpenedTexts ==
  ASSUME MInv, CInv, NEW c \in Clients, NEW o, EndsMoved(c, o), ClientFrame(c), up' = up,
         o \in Conn => called'[c] # 0
  PROVE  /\ ServerPart'
         /\ \A h \in Conn, jd \in CallId : Alone(h, jd) => Alone(h, jd)'
         /\ \A jd : Times(jd)' = Times(jd)
         /\ \A h \in Conn : h # o => (Live(h)' <=> Live(h))
<1>1. /\ conn' = conn /\ executed' = executed /\ crashes' = crashes /\ alive' = alive
      /\ listening' = listening
      /\ \A d \in Clients : called'[d] \in Nat /\ called[d] <= called'[d]
  BY DEF ClientFrame
<1>2. \A h \in Conn : h # o => ends'[h].server = ends[h].server
  BY DEF EndsMoved
<1>3. \A h \in Conn : h # o => (Live(h)' <=> Live(h))
  BY <1>2 DEF Live
<1>4. o \in Conn => /\ o[1] = c /\ ends[o].server = "none" /\ ends'[o].client = "open"
                    /\ ends'[o].server \in {"backlog", "closed"}
                    /\ listening => ends'[o].server = "backlog"
                    /\ conn[o] = NoConnection /\ up[o] = <<>>
  <2>1. o \in Conn /\ ends[o].server = "none" => conn[o] = NoConnection /\ up[o] = <<>>
    BY DEF CInv, NewIsEmpty
  <2> QED
    BY <2>1 DEF EndsMoved
<1>5. \A h \in Conn, jd \in CallId : Holds(h, jd)' => Holds(h, jd)
  <2> SUFFICES ASSUME NEW h \in Conn, NEW jd \in CallId, Holds(h, jd)' PROVE Holds(h, jd)
    OBVIOUS
  <2>1. h # o
    <3>1. Got(conn[h], up[h]) # 0
      BY <1>1 DEF Holds
    <3> QED
      BY <1>4, <3>1, NothingRead
  <2> QED
    BY <1>1, <1>3, <2>1 DEF Holds
<1>6. /\ HeldBound' /\ HeldOnce' /\ TimesBound' /\ ExecutedMade'
      /\ \A h \in Conn, jd \in CallId : Alone(h, jd) => Alone(h, jd)'
      /\ \A jd : Times(jd)' = Times(jd)
  BY <1>1, <1>5, CountsSame
<1>7. ServerTexts'
  <2> SUFFICES ASSUME NEW h \in Conn, Live(h)'
               PROVE  \E n \in 1..called'[h[1]] :
                        \/ Reading(conn'[h], up'[h], <<h[1], n>>)
                        \/ Writing(conn'[h], up'[h], <<h[1], n>>)
    BY DEF ServerTexts
  <2>1. CASE h = o
    <3>1. 1 \in 1..called'[h[1]]
      <4>1. called'[c] \in Nat /\ called'[c] # 0
        BY <1>1, <2>1
      <4> QED
        BY <1>4, <2>1, <4>1
    <3> QED
      BY <1>1, <1>4, <2>1, <3>1, NothingRead
  <2>2. CASE h # o
    <3>1. PICK n \in 1..called[h[1]] :
            Reading(conn[h], up[h], <<h[1], n>>) \/ Writing(conn[h], up[h], <<h[1], n>>)
      BY <1>3, <2>2 DEF CInv, ServerTexts
    <3>2. n \in 1..called'[h[1]]
      <4>1. called[h[1]] \in Nat /\ called'[h[1]] \in Nat /\ called[h[1]] <= called'[h[1]]
        BY <1>1, ConnHas, SocketAssumption
      <4> QED
        BY <4>1
    <3> QED
      BY <1>1, <3>1, <3>2
  <2> QED
    BY <2>1, <2>2
<1>8. NewIsEmpty'
  <2> SUFFICES ASSUME NEW h \in Conn
               PROVE  /\ ends'[h].server = "none" => /\ up'[h] = <<>> /\ down'[h] = <<>>
                                                     /\ ends'[h].client = "none"
                      /\ ends'[h].server = "none" \/ ends'[h].server = "backlog"
                           => conn'[h] = NoConnection
                      /\ ends'[h].server = "open" => conn'[h].state # "closed"
    BY DEF NewIsEmpty
  <2>1. CASE h = o
    BY <1>1, <1>4, <2>1
  <2>2. CASE h # o
    <3>1. ends[h].server = "none" => ends'[h] = ends[h]
      <4>1. h = Socket(c) /\ client[c].nr # 0 => ends[h].server # "none"
        BY DEF CInv, ClientText
      <4> QED
        BY <2>2, <4>1 DEF EndsMoved
    <3>2. /\ ends[h].server = "none" => up[h] = <<>> /\ down[h] = <<>> /\ ends[h].client = "none"
          /\ ends[h].server = "none" \/ ends[h].server = "backlog" => conn[h] = NoConnection
          /\ ends[h].server = "open" => conn[h].state # "closed"
      BY DEF CInv, NewIsEmpty
    <3>3. down'[h] = down[h] \/ down'[h] = <<>>
      BY DEF ClientFrame
    <3> QED
      BY <1>1, <1>2, <2>2, <3>1, <3>2, <3>3
  <2> QED
    BY <2>1, <2>2
<1>9. NoneClosed'
  <2> SUFFICES ASSUME crashes = 0
               PROVE  /\ alive /\ listening
                      /\ \A h \in Conn : h[1] \notin OldHttp /\ ends'[h].client = "open"
                                          => Live(h)' /\ conn[h].keep = TRUE
    BY <1>1 DEF NoneClosed
  <2>1. /\ alive /\ listening
        /\ \A h \in Conn : h[1] \notin OldHttp /\ ends[h].client = "open"
                            => Live(h) /\ conn[h].keep = TRUE
    BY DEF CInv, NoneClosed
  <2>2. ASSUME NEW h \in Conn, h[1] \notin OldHttp, ends'[h].client = "open"
        PROVE  Live(h)' /\ conn[h].keep = TRUE
    <3>1. CASE h = o
      <4>1. NoConnection.keep = TRUE
        BY DEF NoConnection, NewConnection
      <4> QED
        BY <1>4, <2>1, <3>1, <4>1 DEF Live
    <3>2. CASE h # o
      <4>1. ends'[h] = ends[h]
        BY <2>2, <3>2 DEF EndsMoved
      <4> QED
        BY <2>1, <2>2, <4>1 DEF Live
    <3> QED
      BY <3>1, <3>2
  <2> QED
    BY <2>1, <2>2
<1> QED
  BY <1>3, <1>6, <1>7, <1>8, <1>9 DEF ServerPart

\* More of the request continues what the server has of it.
LEMMA ReadingMore ==
  ASSUME NEW x \in Connection, NEW s \in Seq(Token), NEW t \in Seq(Token), NEW id,
         Reading(x, s, id), Piece(t, id, Got(x, s), BodyLen)
  PROVE  Reading(x, s \o t, id) /\ Got(x, s \o t) = Got(x, s) + Len(t)
<1>1. /\ Len(s) \in Nat /\ Len(t) \in Nat /\ Len(x.header) \in Nat /\ Len(x.request) \in Nat
      /\ Len(s \o t) = Len(s) + Len(t) /\ BodyLen \in Nat
  BY LenProperties, ConnectionFields, ConcatProperties, SocketAssumption
<1>2. CASE x.state = "READ_REQUEST"
  <2>1. /\ Got(x, s) = 2 + Len(x.request) + Len(s) /\ 2 + Len(x.request) \in Nat
        /\ Got(x, s \o t) = 2 + Len(x.request) + Len(s \o t)
    BY <1>1, <1>2 DEF Got
  <2>2. /\ Piece(s, id, 2 + Len(x.request), BodyLen)
        /\ Piece(t, id, 2 + Len(x.request) + Len(s), BodyLen)
    BY <1>2, <2>1 DEF Reading
  <2>3. Piece(s \o t, id, 2 + Len(x.request), BodyLen)
    BY <1>1, <2>1, <2>2, PieceConcat
  <2>4. Reading(x, s \o t, id)
    BY <1>2, <2>3 DEF Reading
  <2>5. Got(x, s \o t) = Got(x, s) + Len(t)
    <3> DEFINE f == Len(x.request)
               u == Len(s \o t)
    <3>1. f \in Nat /\ u = Len(s) + Len(t) /\ Got(x, s) = 2 + f + Len(s) /\ Got(x, s \o t) = 2 + f + u
      BY <1>1, <2>1
    <3> HIDE DEF f, u
    <3> QED
      BY <1>1, <3>1
  <2> QED
    BY <2>4, <2>5
<1>3. CASE x.state # "READ_REQUEST"
  <2>1. Got(x, s) = Len(x.header) + Len(s) /\ Got(x, s \o t) = Len(x.header) + Len(s \o t)
    BY <1>1, <1>3 DEF Got
  <2>2. Piece(s, id, Len(x.header), BodyLen) /\ Piece(t, id, Len(x.header) + Len(s), BodyLen)
    BY <1>3, <2>1 DEF Reading
  <2>3. Piece(s \o t, id, Len(x.header), BodyLen)
    BY <1>1, <2>1, <2>2, PieceConcat
  <2>4. Reading(x, s \o t, id)
    BY <1>3, <2>3 DEF Reading
  <2>5. Got(x, s \o t) = Got(x, s) + Len(t)
    <3> DEFINE f == Len(x.header)
               u == Len(s \o t)
    <3>1. f \in Nat /\ u = Len(s) + Len(t) /\ Got(x, s) = f + Len(s) /\ Got(x, s \o t) = f + u
      BY <1>1, <2>1
    <3> HIDE DEF f, u
    <3> QED
      BY <1>1, <3>1
  <2> QED
    BY <2>4, <2>5
<1> QED
  BY <1>2, <1>3

\* A part of the request is written.
LEMMA WrittenTexts ==
  ASSUME MInv, CInv, NEW c \in Clients, NEW k \in Conn, k[1] = c, ends[k].server # "none",
         NEW id \in CallId, id[1] = c, id[2] \in 1..called[c],
         Asks(k, client[c], id), ClientFrame(c), ends' = ends,
         NEW text \in Seq(Token), Piece(text, id, client[c].written, BodyLen),
         up'[k] = up[k] \o text, \A h \in Conn \ {k} : up'[h] = up[h]
  PROVE  /\ ServerPart'
         /\ \A h \in Conn, jd \in CallId : Alone(h, jd) /\ (jd # id \/ h = k) => Alone(h, jd)'
         /\ \A jd : Times(jd)' = Times(jd)
         /\ \A h \in Conn : Live(h)' <=> Live(h)
         /\ Live(k) => /\ Reading(conn'[k], up'[k], id)
                       /\ Got(conn'[k], up'[k]) = client[c].written + Len(text)
<1>1. /\ conn' = conn /\ executed' = executed /\ crashes' = crashes /\ alive' = alive
      /\ listening' = listening
      /\ \A d \in Clients : called'[d] \in Nat /\ called[d] <= called'[d]
  BY DEF ClientFrame
<1>2. /\ ends[k].server # "none" /\ Asks(k, client[c], id) /\ Alone(k, id)
      /\ id[2] \in 1..called[c] /\ id = <<c, id[2]>>
  BY DEF Asks, CallId
<1>3. /\ conn[k] \in Connection /\ up[k] \in Seq(Token) /\ up[k] \o text \in Seq(Token)
  BY <1>2, ConnHas, ConcatIn
<1>4. \A h \in Conn : Live(h)' <=> Live(h)
  BY DEF Live
<1>5. Live(k) => /\ Reading(conn[k], up[k] \o text, id)
                 /\ Got(conn[k], up[k] \o text) = client[c].written + Len(text)
  <2> DEFINE x == conn[k]
             s == up[k]
  <2>1. x \in Connection /\ s \in Seq(Token)
    BY <1>3
  <2>2. Live(k) => Reading(x, s, id) /\ Got(x, s) = client[c].written
    BY <1>2 DEF Asks
  <2> HIDE DEF x, s
  <2>3. Live(k) => Reading(x, s \o text, id) /\ Got(x, s \o text) = client[c].written + Len(text)
    BY <2>1, <2>2, ReadingMore
  <2> QED
    BY <2>3 DEF x, s
<1>6. \A h \in Conn, jd \in CallId : Holds(h, jd)' => Holds(h, jd) \/ (h = k /\ jd = id)
  <2> SUFFICES ASSUME NEW h \in Conn, NEW jd \in CallId, Holds(h, jd)'
               PROVE Holds(h, jd) \/ (h = k /\ jd = id)
    OBVIOUS
  <2>1. CASE h = k
    <3> DEFINE x == conn[k]
               s == up[k] \o text
    <3>1. x \in Connection /\ s \in Seq(Token)
      BY <1>3
    <3>2. Live(k) /\ Reading(x, s, jd) /\ Got(x, s) # 0
      BY <1>1, <1>4, <2>1 DEF Holds
    <3>3. Reading(x, s, id)
      BY <1>5, <3>2
    <3> HIDE DEF x, s
    <3>4. id = jd
      BY <1>2, <3>1, <3>2, <3>3, ReadingOne
    <3> QED
      BY <2>1, <3>4
  <2>2. CASE h # k
    BY <1>1, <1>4, <2>2 DEF Holds
  <2> QED
    BY <2>1, <2>2
<1>7. /\ HeldBound' /\ HeldOnce' /\ TimesBound' /\ ExecutedMade'
      /\ \A h \in Conn, jd \in CallId : Alone(h, jd) /\ (jd # id \/ h = k) => Alone(h, jd)'
      /\ \A jd : Times(jd)' = Times(jd)
  <2>1. /\ id \in CallId => Alone(k, id)
        /\ crashes' = crashes /\ executed' = executed
        /\ \A d \in Clients : called'[d] \in Nat /\ called[d] <= called'[d]
    BY <1>1, <1>2
  <2> QED
    BY <1>6, <2>1, CountsMore
<1>8. ServerTexts'
  <2> SUFFICES ASSUME NEW h \in Conn, Live(h)'
               PROVE  \E n \in 1..called'[h[1]] :
                        \/ Reading(conn'[h], up'[h], <<h[1], n>>)
                        \/ Writing(conn'[h], up'[h], <<h[1], n>>)
    BY DEF ServerTexts
  <2>1. \A n \in 1..called[h[1]] : n \in 1..called'[h[1]]
    <3>1. called[h[1]] \in Nat /\ called'[h[1]] \in Nat /\ called[h[1]] <= called'[h[1]]
      BY <1>1, ConnHas, SocketAssumption
    <3> QED
      BY <3>1
  <2>2. CASE h = k
    <3>1. Reading(conn'[h], up'[h], id)
      BY <1>1, <1>4, <1>5, <2>2
    <3>2. id[2] \in 1..called'[h[1]] /\ id = <<h[1], id[2]>>
      BY <1>2, <2>1, <2>2
    <3> QED
      BY <3>1, <3>2
  <2>3. CASE h # k
    BY <1>1, <1>4, <2>1, <2>3 DEF CInv, ServerTexts
  <2> QED
    BY <2>2, <2>3
<1>9. NewIsEmpty'
  <2> SUFFICES ASSUME NEW h \in Conn
               PROVE  /\ ends[h].server = "none" => /\ up'[h] = <<>> /\ down'[h] = <<>>
                                                    /\ ends[h].client = "none"
                      /\ ends[h].server = "none" \/ ends[h].server = "backlog"
                           => conn[h] = NoConnection
                      /\ ends[h].server = "open" => conn[h].state # "closed"
    BY <1>1 DEF NewIsEmpty
  <2>1. ends[h].server = "none" => h # k
    BY <1>2
  <2>2. down'[h] = down[h] \/ down'[h] = <<>>
    BY DEF ClientFrame
  <2> QED
    BY <2>1, <2>2 DEF CInv, NewIsEmpty
<1>10. NoneClosed'
  BY <1>1, <1>4 DEF CInv, NoneClosed
<1> QED
  BY <1>1, <1>4, <1>5, <1>7, <1>8, <1>9, <1>10 DEF ServerPart

\* A client is not concerned by the steps of another.
LEMMA OtherClient ==
  ASSUME MInv, CInv, NEW c \in Clients, NEW d \in Clients, d # c, conn' = conn,
         client'[d] = client[d], inCall'[d] = inCall[d], called'[d] = called[d],
         \A h \in Conn : h[1] # c => up'[h] = up[h] /\ down'[h] = down[h] /\ ends'[h] = ends[h],
         \A h \in Conn, jd \in CallId : Alone(h, jd) /\ jd[1] # c => Alone(h, jd)',
         \A jd : Times(jd)' = Times(jd)
  PROVE  ClientText(d)'
<1>1. /\ Socket(d)' = Socket(d) /\ Current(d)' = Current(d)
      /\ Socket(d)[1] # c /\ Current(d)[1] # c /\ ClientText(d)
  BY DEF Socket, Current, CInv
<1>2. \A jd \in CallId : Times(jd) # 0 => Times(jd)' # 0
  OBVIOUS
<1> QED
  BY <1>1, <1>2, UntouchedClient

-----------------------------------------------------------------------------
(* What a client makes of what it reads *)

\* Having read the text after what object x had of the answer to call id, the client
\* goes on waiting, or it returns: with the answer, or without one if the server is gone.
Reads(c, x, text, eof, id) ==
  \E y \in Client :
    /\ y.nr = x.nr /\ y.attempts = x.attempts
    /\ \/ eof /\ y.state \in {"READ_HEADER", "READ_RESPONSE"} /\ Returns(c, y, Failed)
       \/ /\ y.state \in {"READ_HEADER", "READ_RESPONSE"} /\ Answer(y, <<>>, id)
          /\ Had(y, <<>>) = Had(x, text) /\ Continues(c, y)
       \/ /\ y.state = "IDLE" /\ Had(x, text) = ReplyLen + 2
          /\ Returns(c, y, [ok |-> TRUE, call |-> id])

\* A client that stops for want of an answer reads as Reads says,
LEMMA StopsReads ==
  ASSUME NEW c \in Clients, NEW x, NEW text, NEW id, NEW y \in Client,
         y.nr = x.nr, y.attempts = x.attempts,
         y.state \in {"READ_HEADER", "READ_RESPONSE"}, Stops(c, y)
  PROVE  Reads(c, x, text, TRUE, id)
<1> DEFINE z == [y EXCEPT !.monitored = FALSE]
<1>1. /\ z \in Client /\ z.nr = x.nr /\ z.attempts = x.attempts
      /\ z.state \in {"READ_HEADER", "READ_RESPONSE"}
  BY DEF Client
<1>2. Returns(c, z, Failed)
  BY DEF Stops
<1> HIDE DEF z
<1> QED
  BY <1>1, <1>2 DEF Reads

\* so does one that reads the response,
LEMMA ReadResponseReads ==
  ASSUME NEW c \in Clients, NEW x \in Client, NEW text \in Seq(Token), NEW eof \in BOOLEAN,
         NEW id \in CallId, x.state = "READ_RESPONSE", x.response # <<>>,
         text # <<>> => Len(x.response) < ReplyLen,
         Piece(x.response, id, 2, ReplyLen), Piece(text, id, 2 + Len(x.response), ReplyLen),
         ReadResponse(c, x, text, eof)
  PROVE  Reads(c, x, text, eof, id)
<1> DEFINE r == IF Len(x.response) < ReplyLen THEN x.response \o text ELSE x.response
           y == [x EXCEPT !.response = r, !.eof = eof]
           z == [y EXCEPT !.state = "IDLE", !.monitored = FALSE, !.response = <<>>]
<1>1. /\ x.response \in Seq(Token) /\ Len(x.response) \in Nat /\ Len(text) \in Nat
      /\ ReplyLen \in Nat \ {0}
  BY LenProperties, SocketAssumption DEF Client
<1>2. /\ r \in Seq(Token) /\ Len(r) = Len(x.response) + Len(text)
      /\ Piece(r, id, 2, ReplyLen) /\ r # <<>>
  <2>1. CASE Len(x.response) < ReplyLen
    <3>1. r = x.response \o text
      BY <2>1
    <3>2. /\ x.response \o text \in Seq(Token)
          /\ Len(x.response \o text) = Len(x.response) + Len(text)
      BY <1>1, ConcatProperties
    <3>3. Piece(x.response \o text, id, 2, ReplyLen)
      BY <1>1, PieceConcat
    <3>4. x.response \o text # <<>>
      BY <1>1, ConcatEqualIffEmpty
    <3> QED
      BY <3>1, <3>2, <3>3, <3>4
  <2>2. CASE ~(Len(x.response) < ReplyLen)
    <3>1. text = <<>> /\ Len(text) = 0 /\ r = x.response
      BY <2>2, EmptySeq
    <3> QED
      BY <1>1, <3>1
  <2> QED
    BY <2>1, <2>2
<1>3. (CASE Len(r) < ReplyLen /\ eof  -> Stops(c, y)
         [] Len(r) < ReplyLen /\ ~eof -> Continues(c, y)
         [] OTHER -> Returns(c, z, CallAnswered(r)))
  BY DEF ReadResponse
<1> HIDE DEF r
<1>4. /\ y \in Client /\ y.nr = x.nr /\ y.attempts = x.attempts /\ y.state = "READ_RESPONSE"
      /\ y.response = r
  BY <1>2 DEF Client
<1>5. /\ z \in Client /\ z.nr = x.nr /\ z.attempts = x.attempts /\ z.state = "IDLE"
  <2> HIDE DEF y
  <2> QED
    BY <1>4, EmptyIn DEF Client
<1> HIDE DEF y, z
<1>6. Had(x, text) = 2 + Len(r)
  BY <1>1, <1>2 DEF Had
<1>7. CASE Len(r) < ReplyLen /\ eof
  <2>1. Stops(c, y) /\ eof = TRUE
    BY <1>3, <1>7
  <2> QED
    BY <1>4, <2>1, StopsReads
<1>8. CASE Len(r) < ReplyLen /\ ~eof
  <2>1. Continues(c, y)
    BY <1>3, <1>8
  <2>2. Piece(<<>>, id, 2 + Len(r), ReplyLen) /\ Len(<<>>) = 0
    <3>1. 2 + Len(r) \in Nat /\ 2 + Len(r) <= ReplyLen + 2 /\ ReplyLen \in Nat
      BY <1>1, <1>2, <1>8
    <3> QED
      BY <3>1, PieceEmpty
  <2>3. Answer(y, <<>>, id)
    BY <1>2, <1>4, <1>8, <2>2 DEF Answer
  <2>4. Had(y, <<>>) = 2 + Len(r)
    BY <1>1, <1>2, <1>4, <2>2 DEF Had
  <2> QED
    BY <1>4, <1>6, <2>1, <2>3, <2>4 DEF Reads
<1>9. CASE ~(Len(r) < ReplyLen)
  <2>1. Returns(c, z, CallAnswered(r))
    BY <1>3, <1>9
  <2>2. CallAnswered(r) = [ok |-> TRUE, call |-> id]
    BY <1>1, <1>2, <1>9, CallAnsweredPiece
  <2>3. Had(x, text) = ReplyLen + 2
    <3>1. 2 + Len(r) <= ReplyLen + 2 /\ Len(r) \in Nat
      BY <1>1, <1>2 DEF Piece
    <3> QED
      BY <1>1, <1>6, <1>9, <3>1
  <2> QED
    BY <1>5, <2>1, <2>2, <2>3 DEF Reads
<1> QED
  BY <1>7, <1>8, <1>9

\* and one that reads the header, unless it tries again as it has read nothing yet.
LEMMA ReadHeaderReads ==
  ASSUME NEW c \in Clients, NEW x \in Client, NEW text \in Seq(Token), NEW eof \in BOOLEAN,
         NEW id \in CallId, x.state = "READ_HEADER", Answer(x, text, id),
         ReadHeader(c, x, text, eof)
  PROVE  \/ eof /\ Had(x, text) = 0 /\ Retry(c, x)
         \/ ends' = ends /\ Reads(c, x, text, eof, id)
<1> DEFINE h == x.header \o text
           z == [x EXCEPT !.header = h]
           y == [z EXCEPT !.eof = eof]
           w == [y EXCEPT !.header = <<>>, !.state = "READ_RESPONSE",
                          !.response = AfterHeader(h)]
<1>1. /\ x.header \in Seq(Token) /\ Len(x.header) \in Nat /\ Len(text) \in Nat
      /\ ReplyLen \in Nat \ {0}
  BY LenProperties, SocketAssumption DEF Client
<1>2. h \in Seq(Token) /\ Len(h) = Len(x.header) + Len(text) /\ Len(h) \in Nat
  BY <1>1, ConcatProperties
<1>3. Piece(h, id, 0, ReplyLen) /\ Had(x, text) = Len(h)
  <2>1. Piece(x.header, id, 0, ReplyLen) /\ Piece(text, id, 0 + Len(x.header), ReplyLen)
    BY <1>1 DEF Answer
  <2>2. Piece(h, id, 0, ReplyLen)
    BY <1>1, <2>1, PieceConcat
  <2> QED
    BY <1>1, <1>2, <2>2 DEF Had
<1>4. IF eof /\ h = <<>> THEN Retry(c, x) ELSE ParseHeader(c, z, eof) /\ UNCHANGED ends
  BY DEF ReadHeader
<1> HIDE DEF h
<1>5. z \in Client /\ z.nr = x.nr /\ z.attempts = x.attempts /\ z.state = "READ_HEADER" /\ z.header = h
  BY <1>2 DEF Client
<1>6. ParseHeader(c, z, eof) =>
        (CASE HeaderEnds(h) = {} /\ eof  -> Stops(c, y)
           [] HeaderEnds(h) = {} /\ ~eof -> Continues(c, y)
           [] HeaderEnds(h) # {} /\ ~HasHead(h) -> Stops(c, y)
           [] OTHER -> ReadResponse(c, w, <<>>, eof))
  BY <1>5 DEF ParseHeader
<1>7. /\ y \in Client /\ y.nr = x.nr /\ y.attempts = x.attempts /\ y.state = "READ_HEADER"
      /\ y.header = h
  <2> HIDE DEF z
  <2> QED
    BY <1>5 DEF Client
<1>8. /\ Len(h) <= 2 <=> HeaderEnds(h) = {}
      /\ Len(h) > 2 => /\ HasHead(h) /\ Head(h).call = id
                       /\ AfterHeader(h) \in Seq(Token) /\ Len(AfterHeader(h)) = Len(h) - 2
                       /\ Piece(AfterHeader(h), id, 2, ReplyLen)
  BY <1>1, <1>2, <1>3, PieceHeader
<1>9. Len(h) > 2 => /\ w \in Client /\ w.nr = x.nr /\ w.attempts = x.attempts
                    /\ w.state = "READ_RESPONSE" /\ w.response = AfterHeader(h)
  <2> HIDE DEF y
  <2> QED
    BY <1>7, <1>8, EmptyIn DEF Client
<1> HIDE DEF y, z, w
<1>10. CASE eof /\ h = <<>>
  <2>1. Len(h) = 0
    BY <1>10
  <2> QED
    BY <1>3, <1>4, <1>10, <2>1
<1>11. CASE ~(eof /\ h = <<>>) /\ Len(h) <= 2 /\ eof
  <2>1. Stops(c, y) /\ ends' = ends /\ eof = TRUE
    BY <1>4, <1>6, <1>8, <1>11
  <2> QED
    BY <1>7, <2>1, StopsReads
<1>12. CASE Len(h) <= 2 /\ ~eof
  <2>1. Continues(c, y) /\ ends' = ends
    BY <1>4, <1>6, <1>8, <1>12
  <2>2. Piece(<<>>, id, Len(h), ReplyLen) /\ Len(<<>>) = 0
    BY <1>1, <1>2, <1>12, PieceEmpty
  <2>3. Answer(y, <<>>, id)
    BY <1>3, <1>7, <1>12, <2>2 DEF Answer
  <2>4. Had(y, <<>>) = Len(h)
    BY <1>2, <1>7, <2>2 DEF Had
  <2> QED
    BY <1>3, <1>7, <2>1, <2>3, <2>4 DEF Reads
<1>13. CASE ~(Len(h) <= 2)
  <2>1. /\ HeaderEnds(h) # {} /\ HasHead(h)
        /\ AfterHeader(h) \in Seq(Token) /\ Len(AfterHeader(h)) = Len(h) - 2
        /\ Piece(AfterHeader(h), id, 2, ReplyLen)
        /\ w \in Client /\ w.nr = x.nr /\ w.attempts = x.attempts
        /\ w.state = "READ_RESPONSE" /\ w.response = AfterHeader(h)
    BY <1>2, <1>8, <1>9, <1>13
  <2>2. h # <<>>
    BY <1>13, <1>2, EmptySeq
  <2> DEFINE e == <<>>
  <2>3. ReadResponse(c, w, e, eof) /\ ends' = ends
    BY <1>4, <1>6, <2>1, <2>2
  <2>4. /\ w.response # <<>> /\ Len(w.response) = Len(h) - 2
        /\ Piece(w.response, id, 2, ReplyLen)
    <3>1. AfterHeader(h) # <<>>
      BY <1>2, <1>13, <2>1, EmptySeq
    <3> QED
      BY <2>1, <3>1
  <2>5. /\ e \in Seq(Token) /\ (e # <<>> => Len(w.response) < ReplyLen) /\ Len(e) = 0
        /\ Piece(e, id, 2 + Len(w.response), ReplyLen)
    <3>1. 2 + Len(w.response) \in Nat /\ 2 + Len(w.response) <= ReplyLen + 2
      BY <1>1, <1>2, <1>3, <1>13, <2>4 DEF Piece
    <3> QED
      BY <1>1, <3>1, PieceEmpty
  <2>6. Had(w, e) = Had(x, text)
    BY <1>2, <1>3, <2>1, <2>4, <2>5 DEF Had
  <2> HIDE DEF e
  <2>7. Reads(c, w, e, eof, id)
    BY <2>1, <2>3, <2>4, <2>5, ReadResponseReads
  <2>8. Reads(c, x, text, eof, id)
    BY <2>1, <2>6, <2>7 DEF Reads
  <2> QED
    BY <2>3, <2>8
<1> QED
  BY <1>2, <1>10, <1>11, <1>12, <1>13

\* What writing a request comes to: the client gives up, it opens a connection again, or
\* the text is continued and the client goes on writing or waits for the answer.
GivesUpWriting(c, x) ==
  /\ up' = up /\ ends' = ends
  /\ \E y \in Client : y.nr = x.nr /\ y.state = "WRITE_REQUEST" /\ Returns(c, y, Failed)
WritesAgain(c, x) ==
  /\ up' = up
  /\ \E z \in Client : /\ z.nr = x.nr /\ z.opened = x.opened /\ z.attempts = x.attempts
                       /\ z.state = "READ_HEADER" /\ Retry(c, z)
WritesOn(c, x, k, id) ==
  /\ ends' = ends
  /\ \E text \in Seq(Token), y \in Client :
       /\ up' = [up EXCEPT ![k] = @ \o text] /\ Piece(text, id, x.written, BodyLen)
       /\ y.nr = x.nr /\ y.attempts = x.attempts /\ Continues(c, y)
       /\ \/ /\ x.written + Len(text) < BodyLen + 2 /\ y.state = "WRITE_REQUEST"
             /\ y.written = x.written + Len(text)
          \/ /\ x.written + Len(text) = BodyLen + 2 /\ y.state \in {"READ_HEADER", "READ_RESPONSE"}
             /\ Answer(y, <<>>, id) /\ Had(y, <<>>) = 0

\* A client whose server is gone gives up or tries again; else it writes on.
LEMMA WriteRequestWrites ==
  ASSUME MInv, NEW c \in Clients, NEW x \in Client, NEW k \in Conn, NEW id \in CallId,
         id = <<c, called[c]>>, x.state = "WRITE_REQUEST", x.written < BodyLen + 2,
         down[k] = <<>>, WriteRequest(c, x, k)
  PROVE  \/ ends[k].server = "closed" /\ (GivesUpWriting(c, x) \/ WritesAgain(c, x))
         \/ ends[k].server # "closed" /\ WritesOn(c, x, k, id)
<1> DEFINE rest == Rest(id, BodyLen, x.written)
           m == Len(Request(c))
           z == [x EXCEPT !.state = "READ_HEADER", !.written = m, !.header = <<>>,
                          !.response = <<>>]
           e == <<>>
<1>1. /\ x.written \in Nat /\ BodyLen \in Nat /\ ReplyLen \in Nat \ {0}
      /\ Request(c) = Message(id, BodyLen) /\ id \in CallId \cup {NoCall}
  BY SocketAssumption DEF Client, Request
<1>2. m = BodyLen + 2 /\ m \in Nat
  <2>1. Len(Message(id, BodyLen)) = BodyLen + 2
    BY <1>1, MessageProperties
  <2>2. m = Len(Message(id, BodyLen))
    BY <1>1
  <2> HIDE DEF m
  <2> QED
    BY <1>1, <2>1, <2>2
<1>3. rest \in Seq(Token) /\ Len(rest) = BodyLen + 2 - x.written
      /\ SubSeq(Request(c), x.written + 1, Len(Request(c))) = rest
  BY <1>1, <1>2, RestOfMessage DEF Rest
<1>4. IF ends[k].server = "closed"
      THEN /\ \/ Stops(c, x) /\ UNCHANGED ends
              \/ ReadHeader(c, z, e, TRUE)
           /\ UNCHANGED up
      ELSE \E n \in Accepted(rest, up[k]) :
             /\ up' = [up EXCEPT ![k] = @ \o SubSeq(rest, 1, n)]
             /\ IF n = Len(rest) THEN ReadHeader(c, z, e, FALSE)
                ELSE Continues(c, [x EXCEPT !.written = @ + n]) /\ UNCHANGED ends
  BY <1>3 DEF WriteRequest
<1> HIDE DEF rest, m
<1>5. /\ z \in Client /\ z.nr = x.nr /\ z.opened = x.opened /\ z.attempts = x.attempts
      /\ z.state = "READ_HEADER" /\ z.header = <<>>
  BY <1>2, EmptyIn DEF Client
<1> HIDE DEF z
<1>6. Answer(z, e, id) /\ Had(z, e) = 0 /\ e \in Seq(Token)
  <2>1. Piece(<<>>, id, 0, ReplyLen) /\ Len(<<>>) = 0
    BY <1>1, PieceEmpty
  <2> QED
    BY <1>5, <2>1 DEF Answer, Had
<1> HIDE DEF e
<1>7. CASE ends[k].server = "closed"
  <2>1. up' = up /\ ((Stops(c, x) /\ ends' = ends) \/ ReadHeader(c, z, e, TRUE))
    BY <1>4, <1>7
  <2>2. CASE Stops(c, x) /\ ends' = ends
    <3> DEFINE y == [x EXCEPT !.monitored = FALSE]
    <3>1. y \in Client /\ y.nr = x.nr /\ y.state = "WRITE_REQUEST" /\ Returns(c, y, Failed)
      BY <2>2 DEF Stops, Client
    <3> HIDE DEF y
    <3> QED
      BY <1>7, <2>1, <2>2, <3>1 DEF GivesUpWriting
  <2>3. CASE ReadHeader(c, z, e, TRUE)
    <3>1. Retry(c, z)
      <4>1. z.header \o e = <<>>
        BY <1>5 DEF e
      <4> QED
        BY <2>3, <4>1 DEF ReadHeader
    <3> QED
      BY <1>5, <1>7, <2>1, <3>1 DEF WritesAgain
  <2> QED
    BY <2>1, <2>2, <2>3
<1>8. CASE ends[k].server # "closed"
  <2>1. PICK n \in Accepted(rest, up[k]) :
          /\ up' = [up EXCEPT ![k] = @ \o SubSeq(rest, 1, n)]
          /\ IF n = Len(rest) THEN ReadHeader(c, z, e, FALSE)
             ELSE Continues(c, [x EXCEPT !.written = @ + n]) /\ UNCHANGED ends
    BY <1>4, <1>8
  <2> DEFINE b == up[k]
             text == SubSeq(rest, 1, n)
  <2>2. /\ n \in Nat /\ x.written + n <= BodyLen + 2
        /\ text \in Seq(Token) /\ Len(text) = n /\ Piece(text, id, x.written, BodyLen)
    <3>1. b \in Seq(Token) /\ n \in Accepted(rest, b)
      BY ConnHas
    <3> HIDE DEF b
    <3> QED
      BY <1>1, <3>1, PieceWritten DEF rest
  <2>3. up' = [up EXCEPT ![k] = @ \o text]
    BY <2>1
  <2> HIDE DEF text
  <2>4. CASE n = Len(rest)
    <3>1. ReadHeader(c, z, e, FALSE) /\ x.written + n = BodyLen + 2
      <4>1. ReadHeader(c, z, e, FALSE)
        BY <2>1, <2>4
      <4>2. n = BodyLen + 2 - x.written
        BY <1>3, <2>4
      <4> DEFINE v == x.written
      <4>3. v \in Nat /\ BodyLen \in Nat /\ n = BodyLen + 2 - v
        BY <1>1, <4>2
      <4> HIDE DEF v
      <4>4. v + n = BodyLen + 2
        BY <4>3
      <4> QED
        BY <4>1, <4>4 DEF v
    <3>2. ends' = ends /\ Reads(c, z, e, FALSE, id)
      BY <1>5, <1>6, <3>1, ReadHeaderReads
    <3>3. PICK y \in Client :
            /\ y.nr = z.nr /\ y.attempts = z.attempts
            /\ y.state \in {"READ_HEADER", "READ_RESPONSE"} /\ Answer(y, <<>>, id)
            /\ Had(y, <<>>) = 0 /\ Continues(c, y)
      <4>1. Had(z, e) # ReplyLen + 2
        BY <1>1, <1>6
      <4> QED
        BY <1>6, <3>2, <4>1 DEF Reads
    <3> QED
      BY <1>5, <1>8, <2>2, <2>3, <3>1, <3>2, <3>3 DEF WritesOn
  <2>5. CASE n # Len(rest)
    <3> DEFINE y == [x EXCEPT !.written = @ + n]
    <3>1. Continues(c, y) /\ ends' = ends
      BY <2>1, <2>5
    <3>2. x.written + n < BodyLen + 2 /\ x.written + n \in Nat
      BY <1>1, <1>3, <2>2, <2>5
    <3>3. /\ y \in Client /\ y.nr = x.nr /\ y.attempts = x.attempts /\ y.state = "WRITE_REQUEST"
          /\ y.written = x.written + n
      BY <3>2 DEF Client
    <3> HIDE DEF y
    <3> QED
      BY <1>8, <2>2, <2>3, <3>1, <3>2, <3>3 DEF WritesOn
  <2> QED
    BY <2>4, <2>5
<1> QED
  BY <1>7, <1>8

-----------------------------------------------------------------------------
(* The clients' steps keep what the texts are *)

\* The socket and the call of a client that is in a call
LEMMA InCallHas ==
  ASSUME MInv, CInv, NEW c \in Clients, inCall[c]
  PROVE  /\ Socket(c) \in Conn /\ Current(c) \in CallId /\ called[c] \in 1..called[c]
         /\ client[c] \in Client /\ client[c].nr # 0
         /\ client[c].state \in {"WRITE_REQUEST", "READ_HEADER", "READ_RESPONSE"}
         /\ ends[Socket(c)].server # "none" /\ ends[Socket(c)].client = "open"
<1>1. /\ client[c] \in Client /\ client[c].nr # 0 /\ called[c] # 0 /\ called[c] \in 0..MaxCalls
      /\ client[c].state \in {"WRITE_REQUEST", "READ_HEADER", "READ_RESPONSE"}
  BY DEF MInv, TInv, TypeOK, Busy, HasSocket
<1>2. called[c] \in 1..called[c] /\ called[c] \in 1..MaxCalls
  <2>1. called[c] \in Nat /\ MaxCalls \in Nat /\ called[c] <= MaxCalls
    BY <1>1, SocketAssumption
  <2> QED
    BY <1>1, <2>1
<1>3. client[c].nr \in 1..MaxConns
  <2>1. client[c].nr \in 0..MaxConns /\ MaxConns \in Nat
    BY <1>1, SocketAssumption DEF Client
  <2> QED
    BY <1>1, <2>1
<1>4. Socket(c) \in Conn /\ Current(c) \in CallId
  BY <1>2, <1>3 DEF Socket, Current, Conn, CallId
<1> QED
  BY <1>1, <1>2, <1>4 DEF CInv, ClientText

\* What remains to be shown of a client's step
LEMMA ClientTexts ==
  ASSUME MInv, CInv, NEW c \in Clients, Client1(c), ServerPart', ClientText(c)',
         \A h \in Conn : h[1] # c => up'[h] = up[h] /\ down'[h] = down[h] /\ ends'[h] = ends[h],
         \A h \in Conn, jd \in CallId : Alone(h, jd) /\ jd[1] # c => Alone(h, jd)',
         \A jd : Times(jd)' = Times(jd)
  PROVE  CInv'
<1>1. ClientKept(c) /\ OthersTyped(c) /\ conn' = conn
  <2>1. ClientKept(c) /\ OthersTyped(c) /\ UNCHANGED serverVars
    BY ClientStep DEF MInv
  <2> QED
    BY <2>1 DEF serverVars
<1>2. ASSUME NEW d \in Clients PROVE ClientText(d)'
  <2>1. CASE d # c
    <3>1. client'[d] = client[d] /\ inCall'[d] = inCall[d] /\ called'[d] = called[d]
      BY <1>1, <2>1 DEF ClientKept, OthersTyped
    <3> QED
      BY <1>1, <2>1, <3>1, OtherClient
  <2> QED
    BY <2>1
<1> QED
  BY <1>2 DEF CInv, ServerPart

\* A step that moves no end and writes nothing
LEMMA QuietTexts ==
  ASSUME MInv, CInv, NEW c \in Clients, ClientFrame(c), up' = up, ends' = ends
  PROVE  /\ ServerPart'
         /\ \A h \in Conn, jd \in CallId : Alone(h, jd) => Alone(h, jd)'
         /\ \A jd : Times(jd)' = Times(jd)
         /\ \A h \in Conn : Live(h)' <=> Live(h)
<1> DEFINE o == <<c, 0>>
<1>1. o \notin Conn
  BY SocketAssumption DEF Conn
<1> HIDE DEF o
<1>2. EndsMoved(c, o)
  BY <1>1 DEF EndsMoved
<1>3. \A h \in Conn : h # o
  BY <1>1
<1> QED
  BY <1>1, <1>2, <1>3, OpenedTexts

\* The connections are numbered: one that is opened has been used for nothing.
LEMMA EndsAfterMoves ==
  ASSUME MInv, NEW c \in Clients, NEW new \in 0..MaxConns, NEW server,
         new # 0 => /\ new > client[c].opened /\ server \in {"backlog", "closed"}
                    /\ listening => server = "backlog",
         ends' = EndsAfter(c, client[c].nr, new, server)
  PROVE  /\ EndsMoved(c, <<c, new>>)
         /\ new # 0 => <<c, new>> \in Conn /\ ends[<<c, new>>].server = "none"
         /\ new = 0 => <<c, new>> \notin Conn
         /\ \A h \in Conn : h[1] # c => ends'[h] = ends[h]
<1> DEFINE o == <<c, new>>
           old == client[c].nr
<1>1. /\ client[c].opened \in Nat /\ old \in Nat /\ MaxConns \in Nat /\ old <= client[c].opened
      /\ ends \in [Conn -> EndState]
  BY SocketAssumption, SMTT(60) DEF MInv, TInv, TypeOK, SockType, HasSocket, Client
<1>2. new # 0 => o \in Conn /\ ends[o].server = "none" /\ new # old
  <2>1. new # 0 => new \in 1..MaxConns /\ new # old
    BY <1>1
  <2> QED
    BY <2>1 DEF MInv, Unused, Conn
<1>3. new = 0 => o \notin Conn
  BY SocketAssumption DEF Conn
<1> DEFINE e == EndsAfter(c, old, new, server)
<1>4. ASSUME NEW h \in Conn
      PROVE  /\ new # 0 /\ h = o => e[h] = [client |-> "open", server |-> server]
             /\ ~(new # 0 /\ h = o) /\ old # 0 /\ h = <<c, old>>
                  => e[h] = [ends[h] EXCEPT !.client = "closed"]
             /\ ~(new # 0 /\ h = o) /\ ~(old # 0 /\ h = <<c, old>>) => e[h] = ends[h]
  <2>1. CASE new # 0 /\ h = o
    <3>1. e[h] = [client |-> "open", server |-> server]
      <4>1. ~(old # 0 /\ h = <<c, old>>)
        BY <1>2, <2>1
      <4> QED
        BY <2>1, <4>1 DEF EndsAfter
    <3> QED
      BY <2>1, <3>1
  <2>2. CASE ~(new # 0 /\ h = o) /\ old # 0 /\ h = <<c, old>>
    BY <2>2 DEF EndsAfter
  <2>3. CASE ~(new # 0 /\ h = o) /\ ~(old # 0 /\ h = <<c, old>>)
    BY <2>3 DEF EndsAfter
  <2> QED
    BY <2>1, <2>2, <2>3
<1> HIDE DEF e
<1>8. ends' = e
  BY DEF e
<1>5. \A h \in Conn : /\ [ends[h] EXCEPT !.client = "closed"].client = "closed"
                      /\ [ends[h] EXCEPT !.client = "closed"].server = ends[h].server
  BY <1>1 DEF EndState
<1>6. EndsMoved(c, o)
  <2> SUFFICES ASSUME NEW h \in Conn
               PROVE
                 \/ h # o /\ ends'[h] = ends[h]
                 \/ /\ h # o /\ h = Socket(c) /\ client[c].nr # 0
                    /\ ends'[h].client = "closed" /\ ends'[h].server = ends[h].server
                 \/ /\ h = o /\ h[1] = c /\ ends[h].server = "none"
                    /\ ends'[h].client = "open" /\ ends'[h].server \in {"backlog", "closed"}
                    /\ listening => ends'[h].server = "backlog"
    BY DEF EndsMoved
  <2>1. CASE h = o
    <3>1. new # 0
      BY <1>3, <2>1
    <3>2. /\ e[h] = [client |-> "open", server |-> server]
          /\ ends[h].server = "none" /\ h[1] = c
      BY <1>2, <1>4, <2>1, <3>1
    <3>3. /\ e[h].client = "open" /\ e[h].server = server
      BY <3>2
    <3> QED
      BY <1>8, <2>1, <3>1, <3>2, <3>3
  <2>2. CASE h # o /\ old # 0 /\ h = <<c, old>>
    <3>1. e[h] = [ends[h] EXCEPT !.client = "closed"]
      BY <1>4, <2>2
    <3>2. e[h].client = "closed" /\ e[h].server = ends[h].server
      BY <1>5, <3>1
    <3>3. h = Socket(c) /\ client[c].nr # 0
      BY <2>2 DEF Socket
    <3> QED
      BY <1>8, <2>2, <3>2, <3>3
  <2>3. CASE h # o /\ ~(old # 0 /\ h = <<c, old>>)
    BY <1>4, <1>8, <2>3
  <2> QED
    BY <2>1, <2>2, <2>3
<1>7. \A h \in Conn : h[1] # c => ends'[h] = ends[h]
  <2> SUFFICES ASSUME NEW h \in Conn, h[1] # c PROVE ends'[h] = ends[h]
    OBVIOUS
  <2>1. h # o /\ h # <<c, old>>
    OBVIOUS
  <2> QED
    BY <1>4, <1>8, <2>1
<1> QED
  BY <1>2, <1>3, <1>6, <1>7

\* A client that connects to no one has closed its connection, at most.
LEMMA NothingOpened ==
  ASSUME MInv, NEW c \in Clients, NEW s, ends' = EndsAfter(c, client[c].nr, 0, s)
  PROVE  \E o : /\ EndsMoved(c, o) /\ o \notin Conn
                /\ \A h \in Conn : h[1] # c => ends'[h] = ends[h]
<1> DEFINE n == 0
           o == <<c, n>>
<1>1. n \in 0..MaxConns /\ n = 0 /\ ends' = EndsAfter(c, client[c].nr, n, s)
  BY SocketAssumption
<1> HIDE DEF n
<1>2. /\ EndsMoved(c, o) /\ o \notin Conn
      /\ \A h \in Conn : h[1] # c => ends'[h] = ends[h]
  BY <1>1, EndsAfterMoves
<1> QED
  BY <1>2

\* A connection is opened when there is a listener, and may be closed at once when not.
LEMMA ConnectsEither ==
  ASSUME NEW to \in Connects
  PROVE  \/ to[1] = TRUE /\ to[2] \in {"backlog", "closed"} /\ (listening => to[2] = "backlog")
         \/ to[1] = FALSE /\ to[2] = "none" /\ ~listening
<1>1. \/ to = <<TRUE, IF listening THEN "backlog" ELSE "closed">>
      \/ to = <<FALSE, "none">> /\ ~listening
  BY DEF Connects
<1>2. ASSUME to = <<TRUE, IF listening THEN "backlog" ELSE "closed">>
      PROVE  to[1] = TRUE /\ to[2] = IF listening THEN "backlog" ELSE "closed"
  BY <1>2
<1>3. ASSUME to = <<FALSE, "none">> PROVE to[1] = FALSE /\ to[2] = "none"
  BY <1>3
<1> QED
  BY <1>1, <1>2, <1>3

\* The client has connected, or failed to, and asks over the new connection.
LEMMA ConnectTexts ==
  ASSUME MInv, CInv, NEW c \in Clients, Client1(c), ClientFrame(c), up' = up,
         \A h \in Conn : h[1] # c => down'[h] = down[h],
         called'[c] # 0, client[c].opened < MaxConns,
         NEW x \in Client, x.nr = client[c].nr, x.opened = client[c].opened,
         NEW to \in Connects,
         ends' = EndsAfter(c, x.nr, IF to[1] THEN x.opened + 1 ELSE 0, to[2]),
         NEW y \in Client, client'[c] = y, y.nr = Connecting(x, to[1]).nr,
         y.state = Connecting(x, to[1]).state, y.written = Connecting(x, to[1]).written,
         inCall'[c] = to[1],
         to[1] => \A h \in Conn : h # Socket(c) => Alone(h, Current(c)')
  PROVE  CInv'
<1>1. ClientKept(c) /\ OthersTyped(c) /\ conn' = conn /\ executed' = executed
  <2>1. ClientKept(c) /\ OthersTyped(c) /\ UNCHANGED serverVars
    BY ClientStep DEF MInv
  <2> QED
    BY <2>1 DEF serverVars
<1>2. x.opened \in Nat /\ MaxConns \in Nat /\ x.opened < MaxConns /\ client[c].nr <= x.opened
      /\ client[c].nr \in Nat
  <2>1. client[c] \in Client /\ client[c].nr <= client[c].opened
    BY DEF MInv, TInv, TypeOK, HasSocket
  <2>2. x.opened \in 0..MaxConns /\ client[c].nr \in 0..MaxConns
    BY <2>1 DEF Client
  <2>3. MaxConns \in Nat
    BY SocketAssumption
  <2>4. x.opened \in Nat /\ client[c].nr \in Nat
    BY <2>2, <2>3
  <2>5. x.opened < MaxConns /\ client[c].nr <= x.opened
    BY <2>1
  <2> QED
    BY <2>3, <2>4, <2>5
<1>3. CASE to[1] = TRUE
  <2> DEFINE n == x.opened + 1
             o == <<c, n>>
  <2>1. n \in 0..MaxConns /\ n # 0 /\ n > client[c].opened /\ n # client[c].nr
    BY <1>2
  <2>2. ends' = EndsAfter(c, client[c].nr, n, to[2])
    BY <1>3
  <2>3. to[2] \in {"backlog", "closed"} /\ (listening => to[2] = "backlog")
    BY <1>3, ConnectsEither
  <2>4. y.nr = n /\ y.state = "WRITE_REQUEST" /\ y.written = 0
    <3>1. /\ Connecting(x, TRUE).nr = n /\ Connecting(x, TRUE).state = "WRITE_REQUEST"
          /\ Connecting(x, TRUE).written = 0
      BY DEF Connecting, Client
    <3> QED
      BY <1>3, <3>1
  <2> HIDE DEF n
  <2>5. /\ EndsMoved(c, o) /\ o \in Conn /\ ends[o].server = "none"
        /\ \A h \in Conn : h[1] # c => ends'[h] = ends[h]
    BY <2>1, <2>2, <2>3, EndsAfterMoves
  <2>6. Socket(c)' = o /\ o # Socket(c) /\ o[1] = c
    BY <2>1, <2>4 DEF Socket
  <2> HIDE DEF o
  <2>7. /\ ServerPart'
        /\ \A h \in Conn, jd \in CallId : Alone(h, jd) => Alone(h, jd)'
        /\ \A jd : Times(jd)' = Times(jd)
    BY <2>5, OpenedTexts
  <2>8. ends'[o].client = "open" /\ ends'[o].server \in {"backlog", "closed"}
    BY <2>5 DEF EndsMoved
  <2>9. conn[o] = NoConnection /\ up[o] = <<>> /\ down[o] = <<>>
    BY <2>5 DEF CInv, NewIsEmpty
  <2>10. conn'[o] = NoConnection /\ up'[o] = <<>> /\ down'[o] = <<>>
    BY <1>1, <2>5, <2>9 DEF ClientFrame
  <2>11. PICK id \in CallId : id = Current(c)'
    <3>1. called'[c] \in 0..MaxCalls /\ MaxCalls \in Nat
      BY <1>1, SocketAssumption DEF OthersTyped
    <3>2. called'[c] \in 1..MaxCalls
      BY <3>1
    <3> QED
      BY <3>2 DEF Current, CallId
  <2>12. Alone(o, id)
    BY <1>3, <2>5, <2>6, <2>11
  <2>13. Alone(o, id)'
    BY <2>5, <2>7, <2>11, <2>12
  <2>14. Reading(conn'[o], up'[o], id) /\ Got(conn'[o], up'[o]) = 0
    BY <2>10, NothingRead
  <2>15. /\ y.written < BodyLen + 2 /\ down'[o] = <<>>
         /\ Reading(conn'[o], up'[o], id) /\ Got(conn'[o], up'[o]) = y.written
    BY <2>4, <2>10, <2>14, SocketAssumption
  <2>16. Asks(Socket(c), client[c], Current(c))'
    BY <2>6, <2>11, <2>13, <2>15 DEF Asks
  <2>17. ClientText(c)'
    BY <1>3, <2>4, <2>6, <2>8, <2>16 DEF ClientText
  <2> QED
    BY <2>5, <2>7, <2>17, ClientTexts
<1>4. CASE to[1] = FALSE
  <2>1. ends' = EndsAfter(c, client[c].nr, 0, to[2])
    BY <1>4
  <2>2. y.nr = 0 /\ y.state = "NO_CONNECTION"
    <3>1. Connecting(x, FALSE).nr = 0 /\ Connecting(x, FALSE).state = "NO_CONNECTION"
      BY DEF Connecting, Client
    <3> QED
      BY <1>4, <3>1
  <2>3. PICK o : /\ EndsMoved(c, o) /\ o \notin Conn
                 /\ \A h \in Conn : h[1] # c => ends'[h] = ends[h]
    BY <2>1, NothingOpened
  <2>4. /\ ServerPart'
        /\ \A h \in Conn, jd \in CallId : Alone(h, jd) => Alone(h, jd)'
        /\ \A jd : Times(jd)' = Times(jd)
    BY <2>3, OpenedTexts
  <2>5. ClientText(c)'
    BY <1>4, <2>2 DEF ClientText
  <2> QED
    BY <2>3, <2>4, <2>5, ClientTexts
<1> QED
  BY <1>3, <1>4, ConnectsEither

\* What a client leaves of the server
LEMMA FrameOfServer ==
  ASSUME MInv, NEW c \in Clients, Client1(c), listening' = listening,
         called'[c] = called[c] \/ called'[c] = called[c] + 1,
         \A h \in Conn : down'[h] = down[h] \/ down'[h] = <<>>
  PROVE  ClientFrame(c)
<1>1. ClientKept(c) /\ OthersTyped(c) /\ UNCHANGED serverVars
  BY ClientStep DEF MInv
<1>2. ASSUME NEW d \in Clients PROVE called'[d] \in Nat /\ called[d] <= called'[d]
  <2>1. called[d] \in Nat
    BY SocketAssumption DEF MInv, TInv, TypeOK
  <2>2. called'[d] = called[d] \/ called'[d] = called[d] + 1
    BY <1>1 DEF OthersTyped
  <2> QED
    BY <2>1, <2>2
<1> QED
  BY <1>1, <1>2 DEF ClientFrame, serverVars

\* Nobody has anything of a call that has not been made.
LEMMA NewCallAlone ==
  ASSUME MInv, CInv, NEW c \in Clients, called[c] < MaxCalls
  PROVE  \A h \in Conn : Alone(h, <<c, called[c] + 1>>)
<1> DEFINE n == called[c] + 1
           id == <<c, n>>
<1>1. called[c] \in Nat /\ n \in 1..MaxCalls /\ ~(n <= called[c])
  <2>1. called[c] \in Nat /\ MaxCalls \in Nat
    BY SocketAssumption DEF MInv, TInv, TypeOK
  <2> QED
    BY <2>1
<1> HIDE DEF n
<1>2. id \in CallId /\ id[1] = c /\ id[2] = n
  BY <1>1 DEF CallId
<1> HIDE DEF id
<1>3. ASSUME NEW h \in Conn, Holds(h, id) PROVE FALSE
  <2>1. id[1] = h[1] /\ id[2] <= called[h[1]]
    BY <1>2, <1>3, HeldMade
  <2> QED
    BY <1>1, <1>2, <2>1
<1>4. Times(id) = 0
  <2>1. {i \in DOMAIN executed : executed[i] = id} = {}
    <3> SUFFICES ASSUME NEW i \in DOMAIN executed, executed[i] = id PROVE FALSE
      OBVIOUS
    <3>1. executed[i][2] <= called[executed[i][1]]
      BY DEF CInv, ExecutedMade
    <3> QED
      BY <1>1, <1>2, <3>1
  <2> QED
    BY <2>1, FS_EmptySet DEF Times
<1>5. Times(id) <= crashes
  BY <1>4 DEF MInv, TInv, TypeOK
<1>6. \A h \in Conn : Alone(h, id)
  BY <1>3, <1>5 DEF Alone
<1> QED
  BY <1>6 DEF id, n

\* A new call keeps the second invariant: of its text nothing is on the way,
LEMMA ExecuteTexts ==
  ASSUME MInv, CInv, NEW c \in Clients, Client1(c), Execute(c)
  PROVE  CInv'
<1> DEFINE x == [client[c] EXCEPT !.attempts = 0]
<1>1. /\ ~inCall[c] /\ called[c] < MaxCalls /\ client[c].opened + 2 <= MaxConns
      /\ called' = [called EXCEPT ![c] = called[c] + 1]
      /\ UNCHANGED <<listening, up, down>>
  BY DEF Execute
<1>2. /\ client[c] \in Client /\ client \in [Clients -> Client]
      /\ inCall \in [Clients -> BOOLEAN] /\ called \in [Clients -> 0..MaxCalls]
      /\ called[c] \in Nat /\ MaxCalls \in Nat
  BY SocketAssumption DEF MInv, TInv, TypeOK
<1>3. /\ x \in Client /\ x.nr = client[c].nr /\ x.opened = client[c].opened
      /\ x.state = client[c].state
  BY <1>2 DEF Client
<1>4. \/ /\ Keeps(x)
         /\ client' = [client EXCEPT ![c] =
              [x EXCEPT !.state = "WRITE_REQUEST", !.written = 0, !.monitored = TRUE]]
         /\ inCall' = [inCall EXCEPT ![c] = TRUE]
         /\ ends' = ends
      \/ \E to \in Connects :
         /\ ends' = EndsAfter(c, x.nr, IF to[1] THEN x.opened + 1 ELSE 0, to[2])
         /\ client' = [client EXCEPT ![c] = Connecting(x, to[1])]
         /\ inCall' = [inCall EXCEPT ![c] = to[1]]
  BY DEF Execute
<1> HIDE DEF x
<1>5. called'[c] = called[c] + 1
  BY <1>1, <1>2
<1>6. ClientFrame(c)
  BY <1>1, <1>5, FrameOfServer
<1>7. Current(c)' = <<c, called[c] + 1>>
  BY <1>5 DEF Current
<1>8. \A h \in Conn : Alone(h, Current(c)')
  BY <1>1, <1>7, NewCallAlone
<1>9. ASSUME Keeps(x),
             client' = [client EXCEPT ![c] =
               [x EXCEPT !.state = "WRITE_REQUEST", !.written = 0, !.monitored = TRUE]],
             inCall' = [inCall EXCEPT ![c] = TRUE], ends' = ends
      PROVE  CInv'
  <2> DEFINE y == [x EXCEPT !.state = "WRITE_REQUEST", !.written = 0, !.monitored = TRUE]
  <2>1. y.state = "WRITE_REQUEST" /\ y.written = 0 /\ y.nr = client[c].nr
    BY <1>3 DEF Client
  <2>2. client' = [client EXCEPT ![c] = y]
    BY <1>9
  <2> HIDE DEF y
  <2>3. client'[c] = y /\ inCall'[c] = TRUE
    BY <1>2, <1>9, <2>2
  <2>4. client[c].nr # 0 /\ client[c].state = "IDLE"
    BY <1>3, <1>9 DEF Keeps, MInv, TInv, HasSocket
  <2>5. PICK k \in Conn : k = Socket(c)
    <3>1. client[c].nr \in 1..MaxConns
      <4>1. client[c].nr \in 0..MaxConns /\ MaxConns \in Nat
        BY <1>2, SocketAssumption DEF Client
      <4> QED
        BY <2>4, <4>1
    <3> QED
      BY <3>1 DEF Socket, Conn
  <2>6. /\ Socket(c)' = k
        /\ Rests(k) /\ ends[k].client = "open" /\ ends[k].server # "none"
    <3>1. Socket(c)' = Socket(c)
      BY <2>1, <2>3 DEF Socket
    <3>2. Rests(Socket(c)) /\ ends[Socket(c)].client = "open" /\ ends[Socket(c)].server # "none"
      BY <1>1, <2>4 DEF CInv, ClientText
    <3> QED
      BY <2>5, <3>1, <3>2
  <2>7. /\ ServerPart'
        /\ \A h \in Conn, jd \in CallId : Alone(h, jd) => Alone(h, jd)'
        /\ \A jd : Times(jd)' = Times(jd)
        /\ \A h \in Conn : Live(h)' <=> Live(h)
    BY <1>1, <1>6, <1>9, QuietTexts
  <2>8. PICK id \in CallId : id = Current(c)'
    <3>1. called[c] + 1 \in 1..MaxCalls
      BY <1>1, <1>2
    <3> QED
      BY <1>7, <3>1 DEF CallId
  <2>9. Alone(k, id)'
    BY <1>8, <2>6, <2>7, <2>8
  <2>10. Live(k) => Reading(conn[k], up[k], id) /\ Got(conn[k], up[k]) = 0
    BY <2>6, <2>8 DEF Rests
  <2>11. Live(k)' => Reading(conn'[k], up'[k], id) /\ Got(conn'[k], up'[k]) = y.written
    <3>1. conn' = conn /\ up' = up
      BY <1>1, <1>6 DEF ClientFrame
    <3> QED
      BY <2>1, <2>6, <2>7, <2>10, <3>1
  <2>12. y.written < BodyLen + 2 /\ down'[k] = <<>>
    BY <1>1, <2>1, <2>6, SocketAssumption DEF Rests
  <2>13. Asks(Socket(c), client[c], Current(c))'
    BY <2>3, <2>6, <2>8, <2>9, <2>11, <2>12 DEF Asks
  <2>14. ClientText(c)'
    BY <1>9, <2>1, <2>3, <2>6, <2>13 DEF ClientText
  <2> QED
    BY <1>1, <1>9, <2>7, <2>14, ClientTexts
<1>10. ASSUME NEW to \in Connects,
              ends' = EndsAfter(c, x.nr, IF to[1] THEN x.opened + 1 ELSE 0, to[2]),
              client' = [client EXCEPT ![c] = Connecting(x, to[1])],
              inCall' = [inCall EXCEPT ![c] = to[1]]
       PROVE  CInv'
  <2> DEFINE y == Connecting(x, to[1])
  <2>1. y \in Client
    <3>1. x.opened < MaxConns
      <4> DEFINE n == x.opened
      <4>1. n \in Nat /\ MaxConns \in Nat /\ n + 2 <= MaxConns
        BY <1>1, <1>3, SocketAssumption DEF Client
      <4> HIDE DEF n
      <4>2. n < MaxConns
        BY <4>1
      <4> QED
        BY <4>2 DEF n
    <3>2. \A ok \in BOOLEAN : Connecting(x, ok) \in Client
      BY <1>3, <3>1, ConnectingType
    <3>3. to[1] \in BOOLEAN
      BY ConnectsEither
    <3> QED
      BY <3>2, <3>3
  <2>2. client' = [client EXCEPT ![c] = y]
    BY <1>10
  <2>3. /\ y.nr = Connecting(x, to[1]).nr /\ y.state = Connecting(x, to[1]).state
        /\ y.written = Connecting(x, to[1]).written
    OBVIOUS
  <2> HIDE DEF y
  <2>4. client'[c] = y /\ inCall'[c] = to[1]
    BY <1>2, <1>10, <2>1, <2>2
  <2>5. called'[c] # 0 /\ client[c].opened < MaxConns
    <3> DEFINE n == client[c].opened
    <3>1. n \in Nat /\ MaxConns \in Nat /\ n + 2 <= MaxConns
      BY <1>1, <1>2, SocketAssumption DEF Client
    <3> HIDE DEF n
    <3>2. n < MaxConns
      BY <3>1
    <3>3. called'[c] # 0
      BY <1>2, <1>5
    <3> QED
      BY <3>2, <3>3 DEF n
  <2> QED
    BY <1>1, <1>3, <1>6, <1>8, <1>10, <2>1, <2>3, <2>4, <2>5, ConnectTexts
<1> QED
  BY <1>4, <1>9, <1>10

\* so do the close of the connection
LEMMA CloseClientTexts ==
  ASSUME MInv, CInv, NEW c \in Clients, Client1(c), CloseClient(c)
  PROVE  CInv'
<1>1. /\ ~inCall[c] /\ client[c].nr # 0
      /\ ends' = EndsAfter(c, client[c].nr, 0, "none")
      /\ UNCHANGED <<listening, up, down, called, inCall>>
  BY DEF CloseClient
<1>2. client'[c].state = "NO_CONNECTION" /\ client'[c].nr = 0
  <2>1. client[c] \in Client /\ client \in [Clients -> Client]
    BY DEF MInv, TInv, TypeOK
  <2>2. client' = [client EXCEPT ![c] = [client[c] EXCEPT !.state = "NO_CONNECTION", !.nr = 0,
                                                        !.monitored = FALSE]]
    BY <2>1 DEF CloseClient
  <2>3. client'[c] = [client[c] EXCEPT !.state = "NO_CONNECTION", !.nr = 0, !.monitored = FALSE]
    BY <2>1, <2>2
  <2> QED
    BY <2>1, <2>3 DEF Client
<1>3. ClientFrame(c)
  BY <1>1, FrameOfServer
<1>5. PICK o : /\ EndsMoved(c, o) /\ o \notin Conn
               /\ \A h \in Conn : h[1] # c => ends'[h] = ends[h]
  BY <1>1, NothingOpened
<1>6. /\ ServerPart'
      /\ \A h \in Conn, jd \in CallId : Alone(h, jd) => Alone(h, jd)'
      /\ \A jd : Times(jd)' = Times(jd)
  BY <1>1, <1>3, <1>5, OpenedTexts
<1>7. ClientText(c)'
  BY <1>1, <1>2 DEF ClientText
<1> QED
  BY <1>1, <1>5, <1>6, <1>7, ClientTexts

\* A client that returns with nothing, its socket as it was
LEMMA GivenUpTexts ==
  ASSUME MInv, CInv, NEW c \in Clients, Client1(c), ClientFrame(c), up' = up, ends' = ends,
         \A h \in Conn : h[1] # c => down'[h] = down[h],
         client'[c].nr = client[c].nr, client'[c].state # "IDLE", ~inCall'[c]
  PROVE  CInv'
<1>1. /\ ServerPart'
      /\ \A h \in Conn, jd \in CallId : Alone(h, jd) => Alone(h, jd)'
      /\ \A jd : Times(jd)' = Times(jd)
  BY QuietTexts
<1>2. Socket(c)' = Socket(c)
  BY DEF Socket
<1>3. ClientText(c)'
  BY <1>2 DEF CInv, ClientText
<1> QED
  BY <1>1, <1>3, ClientTexts

\* and the end of the time for the answer, which closes the connection.
LEMMA TimeoutTexts ==
  ASSUME MInv, CInv, NEW c \in Clients, Client1(c), Timeout(c)
  PROVE  CInv'
<1>1. /\ inCall[c] /\ UNCHANGED <<sockVars, called>>
      /\ client' = [client EXCEPT ![c] = client[c]] /\ inCall' = [inCall EXCEPT ![c] = FALSE]
  BY DEF Timeout, Returns
<1>2. client' = client /\ ~inCall'[c] /\ client[c].state # "IDLE"
  BY <1>1 DEF MInv, TInv, TypeOK, Busy
<1>3. ClientFrame(c)
  BY <1>1, FrameOfServer DEF sockVars
<1> QED
  BY <1>1, <1>2, <1>3, GivenUpTexts DEF sockVars

-----------------------------------------------------------------------------
(* What an event comes to for the client *)

\* The server is gone, and execute fails.
EventFails(c) ==
  /\ up' = up /\ ends' = ends /\ ends[Socket(c)].server = "closed"
  /\ \E y \in Client : y.nr = client[c].nr /\ y.state # "IDLE" /\ Returns(c, y, Failed)

\* The server is gone, and the client connects again.
EventRetries(c) ==
  /\ up' = up /\ ends[Socket(c)].server = "closed"
  /\ Alone(Socket(c), Current(c)) /\ client[c].attempts = 0
  /\ \E z \in Client, to \in Connects :
       /\ z.nr = client[c].nr /\ z.opened = client[c].opened
       /\ ends' = EndsAfter(c, z.nr, IF to[1] THEN z.opened + 1 ELSE 0, to[2])
       /\ IF to[1] THEN Continues(c, Connecting(z, TRUE)) ELSE Stops(c, Connecting(z, FALSE))

\* More of the request is written.
EventWrites(c) ==
  /\ client[c].state = "WRITE_REQUEST" /\ Asks(Socket(c), client[c], Current(c))
  /\ WritesOn(c, client[c], Socket(c), Current(c))

\* What there is of the answer is read, and the client goes on waiting.
EventWaits(c) ==
  /\ up' = up /\ ends' = ends
  /\ client[c].state # "WRITE_REQUEST" /\ Hears(Socket(c), client[c], Current(c))
  /\ \E y \in Client :
       /\ y.nr = client[c].nr /\ y.attempts = client[c].attempts
       /\ y.state \in {"READ_HEADER", "READ_RESPONSE"} /\ Answer(y, <<>>, Current(c))
       /\ Had(y, <<>>) = Had(client[c], down[Socket(c)]) /\ Continues(c, y)

\* The answer is complete.
EventAnswered(c) ==
  /\ up' = up /\ ends' = ends
  /\ client[c].state # "WRITE_REQUEST" /\ Hears(Socket(c), client[c], Current(c))
  /\ Had(client[c], down[Socket(c)]) = ReplyLen + 2
  /\ \E y \in Client : /\ y.nr = client[c].nr /\ y.state = "IDLE"
                       /\ Returns(c, y, [ok |-> TRUE, call |-> Current(c)])

\* A second attempt ends the call or opens a connection for it.
LEMMA RetryIs ==
  ASSUME MInv, NEW c \in Clients, up' = up, ends[Socket(c)].server = "closed",
         client[c].attempts = 0 => Alone(Socket(c), Current(c)),
         NEW z \in Client, z.nr = client[c].nr, z.opened = client[c].opened,
         z.attempts = client[c].attempts, z.state = "READ_HEADER", Retry(c, z)
  PROVE  EventFails(c) \/ EventRetries(c)
<1>1. CASE z.attempts > 0
  <2> DEFINE y == [z EXCEPT !.attempts = @ + 1, !.eof = TRUE]
             w == [y EXCEPT !.monitored = FALSE]
  <2>1. Stops(c, y) /\ ends' = ends
    BY <1>1 DEF Retry
  <2>2. Returns(c, w, Failed)
    BY <2>1 DEF Stops
  <2>3. y \in Client /\ y.nr = z.nr /\ y.state = "READ_HEADER"
    <3>1. z.attempts + 1 \in Nat
      BY DEF Client
    <3> QED
      BY <3>1 DEF Client
  <2> HIDE DEF y
  <2>4. w \in Client /\ w.nr = client[c].nr /\ w.state # "IDLE"
    BY <2>3 DEF Client
  <2> HIDE DEF w
  <2> QED
    BY <2>1, <2>2, <2>4 DEF EventFails
<1>2. CASE ~(z.attempts > 0)
  <2> DEFINE w == [z EXCEPT !.attempts = 1]
  <2>1. PICK to \in Connects :
          /\ ends' = EndsAfter(c, z.nr, IF to[1] THEN z.opened + 1 ELSE 0, to[2])
          /\ IF to[1] THEN Continues(c, Connecting(w, to[1])) ELSE Stops(c, Connecting(w, to[1]))
    BY <1>2 DEF Retry
  <2>2. w \in Client /\ w.nr = z.nr /\ w.opened = z.opened
    BY DEF Client
  <2> HIDE DEF w
  <2>3. z.attempts = 0
    BY <1>2 DEF Client
  <2>4. to[1] \in BOOLEAN
    BY ConnectsEither
  <2>5. IF to[1] THEN Continues(c, Connecting(w, TRUE)) ELSE Stops(c, Connecting(w, FALSE))
    <3>1. CASE to[1] = TRUE
      BY <2>1, <3>1
    <3>2. CASE to[1] = FALSE
      BY <2>1, <3>2
    <3> QED
      BY <2>4, <3>1, <3>2
  <2>6. /\ w.nr = client[c].nr /\ w.opened = client[c].opened
        /\ ends' = EndsAfter(c, w.nr, IF to[1] THEN w.opened + 1 ELSE 0, to[2])
    BY <2>1, <2>2
  <2> QED
    BY <2>2, <2>3, <2>5, <2>6 DEF EventRetries
<1> QED
  BY <1>1, <1>2

\* Reading leaves three outcomes.
LEMMA ReadsIs ==
  ASSUME MInv, NEW c \in Clients, up' = up, ends' = ends,
         client[c].state # "WRITE_REQUEST", Hears(Socket(c), client[c], Current(c)),
         Reads(c, client[c], down[Socket(c)], ends[Socket(c)].server = "closed", Current(c))
  PROVE  EventFails(c) \/ EventWaits(c) \/ EventAnswered(c)
<1>1. PICK y \in Client :
    /\ y.nr = client[c].nr /\ y.attempts = client[c].attempts
    /\ \/ /\ ends[Socket(c)].server = "closed"
          /\ y.state \in {"READ_HEADER", "READ_RESPONSE"} /\ Returns(c, y, Failed)
       \/ /\ y.state \in {"READ_HEADER", "READ_RESPONSE"} /\ Answer(y, <<>>, Current(c))
          /\ Had(y, <<>>) = Had(client[c], down[Socket(c)]) /\ Continues(c, y)
       \/ /\ y.state = "IDLE" /\ Had(client[c], down[Socket(c)]) = ReplyLen + 2
          /\ Returns(c, y, [ok |-> TRUE, call |-> Current(c)])
  BY DEF Reads
<1> QED
  BY <1>1 DEF EventFails, EventWaits, EventAnswered

\* An event fails the call, opens a connection, writes, waits or brings the answer.
LEMMA ClientEventIs ==
  ASSUME MInv, CInv, NEW c \in Clients, ClientEvent(c)
  PROVE  \/ EventFails(c) \/ EventRetries(c) \/ EventWrites(c) \/ EventWaits(c)
         \/ EventAnswered(c)
<1> DEFINE x == client[c]
           k == Socket(c)
           id == Current(c)
           text == down[k]
           eof == ends[k].server = "closed"
<1>1. /\ inCall[c]
      /\ \/ x.state = "WRITE_REQUEST" /\ WriteRequest(c, x, k)
         \/ x.state = "READ_HEADER" /\ ReadHeader(c, x, text, eof) /\ up' = up
         \/ x.state = "READ_RESPONSE" /\ ReadResponse(c, x, text, eof) /\ up' = up /\ ends' = ends
  BY DEF ClientEvent, Socket
<1>2. /\ k \in Conn /\ id \in CallId /\ x \in Client
      /\ text \in Seq(Token) /\ eof \in BOOLEAN /\ id = <<c, called[c]>>
  <2>1. k \in Conn /\ id \in CallId /\ x \in Client
    BY <1>1, InCallHas
  <2>2. down \in [Conn -> Seq(Token)]
    BY DEF MInv, TInv, TypeOK, SockType
  <2> QED
    BY <2>1, <2>2 DEF Current
<1>3. CASE x.state = "WRITE_REQUEST"
  <2>1. Asks(k, x, id)
    BY <1>1, <1>3 DEF CInv, ClientText
  <2>2. x.written < BodyLen + 2 /\ down[k] = <<>> /\ Alone(k, id)
    BY <2>1 DEF Asks
  <2>3. WriteRequest(c, x, k)
    BY <1>1, <1>3
  <2> HIDE DEF x, k, id, text, eof
  <2>4. \/ ends[k].server = "closed" /\ (GivesUpWriting(c, x) \/ WritesAgain(c, x))
        \/ ends[k].server # "closed" /\ WritesOn(c, x, k, id)
    BY <1>2, <1>3, <2>2, <2>3, WriteRequestWrites
  <2>5. CASE ends[k].server = "closed" /\ GivesUpWriting(c, x)
    BY <2>5 DEF GivesUpWriting, EventFails, x, k
  <2>6. CASE ends[k].server = "closed" /\ WritesAgain(c, x)
    <3>1. PICK z \in Client : /\ z.nr = x.nr /\ z.opened = x.opened /\ z.attempts = x.attempts
                              /\ z.state = "READ_HEADER" /\ Retry(c, z) /\ up' = up
      BY <2>6 DEF WritesAgain
    <3>2. ends[Socket(c)].server = "closed" /\ Alone(Socket(c), Current(c))
      BY <2>2, <2>6 DEF k, id
    <3>3. /\ z.nr = client[c].nr /\ z.opened = client[c].opened
          /\ z.attempts = client[c].attempts
      BY <3>1 DEF x
    <3> QED
      BY <3>1, <3>2, <3>3, RetryIs
  <2>7. CASE WritesOn(c, x, k, id)
    BY <1>3, <2>1, <2>7 DEF EventWrites, x, k, id
  <2> QED
    BY <2>4, <2>5, <2>6, <2>7
<1>4. CASE x.state # "WRITE_REQUEST"
  <2>1. Hears(k, x, id) /\ up' = up
    BY <1>1, <1>4 DEF CInv, ClientText
  <2>2. Answer(x, text, id)
    BY <2>1 DEF Hears
  <2>3. CASE x.state = "READ_HEADER"
    <3>1. ReadHeader(c, x, text, eof)
      BY <1>1, <2>3
    <3> HIDE DEF x, k, id, text, eof
    <3>2. \/ eof /\ Had(x, text) = 0 /\ Retry(c, x)
          \/ ends' = ends /\ Reads(c, x, text, eof, id)
      BY <1>2, <2>2, <2>3, <3>1, ReadHeaderReads
    <3>3. CASE eof /\ Had(x, text) = 0 /\ Retry(c, x)
      <4>1. ends[k].server = "closed"
        BY <3>3 DEF eof
      <4>2. ~Live(k)
        BY <4>1 DEF Live
      <4>3. x.attempts = 0 => Alone(k, id)
        BY <2>1, <3>3, <4>2 DEF Hears, text
      <4>4. Retry(c, x)
        BY <3>3
      <4> QED
        BY <1>2, <2>1, <2>3, <4>1, <4>3, <4>4, RetryIs DEF x, k, id
    <3>4. CASE ends' = ends /\ Reads(c, x, text, eof, id)
      BY <1>4, <2>1, <3>4, ReadsIs DEF x, k, id, text, eof
    <3> QED
      BY <3>2, <3>3, <3>4
  <2>4. CASE x.state = "READ_RESPONSE"
    <3>1. ReadResponse(c, x, text, eof) /\ ends' = ends
      BY <1>1, <2>4
    <3> HIDE DEF x, k, id, text, eof
    <3>2. /\ x.response # <<>> /\ Len(x.response) < ReplyLen
          /\ Piece(x.response, id, 2, ReplyLen)
          /\ Piece(text, id, 2 + Len(x.response), ReplyLen)
      BY <2>2, <2>4 DEF Answer
    <3>3. Reads(c, x, text, eof, id)
      BY <1>2, <2>4, <3>1, <3>2, ReadResponseReads
    <3> QED
      BY <1>4, <2>1, <3>1, <3>3, ReadsIs DEF x, k, id, text, eof
  <2> QED
    BY <1>1, <1>4, <2>3, <2>4
<1> QED
  BY <1>3, <1>4

\* What an event leaves of the server and of the answers
LEMMA EventFrame ==
  ASSUME MInv, CInv, NEW c \in Clients, Client1(c), ClientEvent(c)
  PROVE  /\ ClientFrame(c) /\ called' = called /\ Current(c)' = Current(c)
         /\ \A h \in Conn : h # Socket(c) => down'[h] = down[h]
         /\ \/ down'[Socket(c)] = <<>>
            \/ down' = down /\ client[c].state = "WRITE_REQUEST"
               /\ client'[c].state = "WRITE_REQUEST"
<1> DEFINE k == Socket(c)
           writes == client[c].state = "WRITE_REQUEST" /\ client'[c].state = "WRITE_REQUEST"
<1>1. /\ inCall[c] /\ listening' = listening /\ called' = called
      /\ down' = IF writes THEN down ELSE [down EXCEPT ![k] = <<>>]
  BY DEF ClientEvent, Socket
<1>2. k \in Conn
  BY <1>1, InCallHas
<1>3. down \in [Conn -> Seq(Token)]
  BY DEF MInv, TInv, TypeOK, SockType
<1>4. /\ \A h \in Conn : h # k => down'[h] = down[h]
      /\ (writes /\ down' = down) \/ down'[k] = <<>>
  <2> HIDE DEF k, writes
  <2>1. CASE writes
    BY <1>1, <2>1
  <2>2. CASE ~writes
    BY <1>1, <1>2, <1>3, <2>2
  <2> QED
    BY <2>1, <2>2
<1>5. \A h \in Conn : down'[h] = down[h] \/ down'[h] = <<>>
  <2> HIDE DEF k, writes
  <2> QED
    BY <1>4
<1>6. ClientFrame(c)
  BY <1>1, <1>5, FrameOfServer
<1>7. Current(c)' = Current(c)
  BY <1>1 DEF Current
<1> QED
  BY <1>1, <1>4, <1>6, <1>7

\* execute returns as Returns says,
LEMMA ReturnsIn ==
  ASSUME MInv, NEW c \in Clients, NEW y, NEW res, Returns(c, y, res)
  PROVE  client'[c] = y /\ inCall'[c] = FALSE /\ result'[c] = res
BY DEF MInv, TInv, TypeOK, Returns

\* and goes on as Continues does.
LEMMA ContinuesIn ==
  ASSUME MInv, NEW c \in Clients, inCall[c], NEW y, Continues(c, y)
  PROVE  client'[c] = y /\ inCall'[c] = TRUE
BY DEF MInv, TInv, TypeOK, Continues

\* The second invariant is kept when a call fails,
LEMMA FailsTexts ==
  ASSUME MInv, CInv, NEW c \in Clients, Client1(c), ClientEvent(c), EventFails(c)
  PROVE  CInv'
<1>1. PICK y \in Client : y.nr = client[c].nr /\ y.state # "IDLE" /\ Returns(c, y, Failed)
  BY DEF EventFails
<1>2. client'[c] = y /\ inCall'[c] = FALSE
  BY <1>1, ReturnsIn
<1>3. /\ ClientFrame(c) /\ up' = up /\ ends' = ends
      /\ \A h \in Conn : h[1] # c => down'[h] = down[h]
  BY EventFrame DEF EventFails, Socket
<1> QED
  BY <1>1, <1>2, <1>3, GivenUpTexts

\* when a connection is opened for a second attempt, which is Alone,
LEMMA RetriesTexts ==
  ASSUME MInv, CInv, NEW c \in Clients, Client1(c), ClientEvent(c), EventRetries(c)
  PROVE  CInv'
<1>1. PICK z \in Client, to \in Connects :
       /\ z.nr = client[c].nr /\ z.opened = client[c].opened
       /\ ends' = EndsAfter(c, z.nr, IF to[1] THEN z.opened + 1 ELSE 0, to[2])
       /\ IF to[1] THEN Continues(c, Connecting(z, TRUE)) ELSE Stops(c, Connecting(z, FALSE))
  BY DEF EventRetries
<1>2. /\ ClientFrame(c) /\ called' = called /\ Current(c)' = Current(c) /\ up' = up
      /\ \A h \in Conn : h[1] # c => down'[h] = down[h]
  BY EventFrame DEF EventRetries, Socket
<1>3. inCall[c] /\ client[c].attempts = 0
  BY DEF ClientEvent, EventRetries
<1>4. client[c].opened < MaxConns /\ called'[c] # 0
  BY <1>2, <1>3 DEF MInv, TInv, Busy
<1>5. \A ok \in BOOLEAN : Connecting(z, ok) \in Client
  BY <1>1, <1>4, ConnectingType
<1>6. \A h \in Conn : h # Socket(c) => Alone(h, Current(c)')
  <2>1. /\ Alone(Socket(c), Current(c)) /\ ~Live(Socket(c)) /\ Current(c) \in CallId
        /\ Socket(c) \in Conn
    BY <1>3, InCallHas DEF EventRetries, Live
  <2>2. \A h \in Conn : ~Holds(h, Current(c))
    BY <2>1 DEF Alone, Holds
  <2>3. \A h \in Conn : Alone(h, Current(c))
    BY <2>1, <2>2 DEF Alone
  <2> QED
    BY <1>2, <2>3
<1>7. CASE to[1] = TRUE
  <2> DEFINE y == Connecting(z, TRUE)
  <2>1. y \in Client /\ Continues(c, y)
    BY <1>1, <1>5, <1>7
  <2>2. /\ y.nr = Connecting(z, to[1]).nr /\ y.state = Connecting(z, to[1]).state
        /\ y.written = Connecting(z, to[1]).written
    BY <1>7
  <2> HIDE DEF y
  <2>3. client'[c] = y /\ inCall'[c] = to[1]
    BY <1>3, <1>7, <2>1, ContinuesIn
  <2> QED
    BY <1>1, <1>2, <1>4, <1>6, <2>1, <2>2, <2>3, ConnectTexts
<1>8. CASE to[1] = FALSE
  <2> DEFINE w == Connecting(z, FALSE)
             y == [w EXCEPT !.monitored = FALSE]
  <2>1. w \in Client /\ Stops(c, w)
    BY <1>1, <1>5, <1>8
  <2>2. w = Connecting(z, to[1])
    BY <1>8
  <2> HIDE DEF w
  <2>3. Returns(c, y, Failed)
    BY <2>1 DEF Stops
  <2>4. /\ y \in Client /\ y.nr = w.nr /\ y.state = w.state /\ y.written = w.written
    BY <2>1 DEF Client
  <2> HIDE DEF y
  <2>5. client'[c] = y /\ inCall'[c] = to[1]
    BY <1>8, <2>3, ReturnsIn
  <2>6. ~to[1]
    BY <1>8
  <2> QED
    BY <1>1, <1>2, <1>4, <2>2, <2>4, <2>5, <2>6, ConnectTexts
<1> QED
  BY <1>7, <1>8, ConnectsEither

\* when more of the request is written,
LEMMA WritesTexts ==
  ASSUME MInv, CInv, NEW c \in Clients, Client1(c), ClientEvent(c), EventWrites(c)
  PROVE  CInv'
<1>1. inCall[c]
  BY DEF ClientEvent
<1>2. PICK k \in Conn : k = Socket(c)
  BY <1>1, InCallHas
<1>3. PICK id \in CallId : id = Current(c)
  BY <1>1, InCallHas
<1> DEFINE x == client[c]
<1>4. /\ ends' = ends /\ Asks(k, x, id) /\ x.state = "WRITE_REQUEST"
      /\ \E text \in Seq(Token), y \in Client :
           /\ up' = [up EXCEPT ![k] = @ \o text] /\ Piece(text, id, x.written, BodyLen)
           /\ y.nr = x.nr /\ y.attempts = x.attempts /\ Continues(c, y)
           /\ \/ /\ x.written + Len(text) < BodyLen + 2 /\ y.state = "WRITE_REQUEST"
                 /\ y.written = x.written + Len(text)
              \/ /\ x.written + Len(text) = BodyLen + 2
                 /\ y.state \in {"READ_HEADER", "READ_RESPONSE"}
                 /\ Answer(y, <<>>, id) /\ Had(y, <<>>) = 0
  BY <1>2, <1>3 DEF EventWrites, WritesOn
<1>5. PICK text \in Seq(Token), y \in Client :
       /\ up' = [up EXCEPT ![k] = @ \o text] /\ Piece(text, id, x.written, BodyLen)
       /\ y.nr = x.nr /\ y.attempts = x.attempts /\ Continues(c, y)
       /\ \/ /\ x.written + Len(text) < BodyLen + 2 /\ y.state = "WRITE_REQUEST"
             /\ y.written = x.written + Len(text)
          \/ /\ x.written + Len(text) = BodyLen + 2
             /\ y.state \in {"READ_HEADER", "READ_RESPONSE"}
             /\ Answer(y, <<>>, id) /\ Had(y, <<>>) = 0
  BY <1>4
<1>6. /\ up'[k] = up[k] \o text /\ \A h \in Conn \ {k} : up'[h] = up[h]
  BY <1>5 DEF MInv, TInv, TypeOK, SockType
<1>7. /\ ends[k].server # "none" /\ ends[k].client = "open" /\ called[c] \in 1..called[c]
      /\ k[1] = c /\ id[1] = c /\ id[2] \in 1..called[c]
  BY <1>1, <1>2, <1>3, InCallHas DEF Socket, Current
<1>8. /\ ClientFrame(c) /\ called' = called /\ Current(c)' = id
      /\ \A h \in Conn : h # k => down'[h] = down[h]
      /\ down'[k] = <<>> \/ down' = down
  BY <1>2, <1>3, EventFrame
<1>9. /\ ServerPart'
      /\ \A h \in Conn, jd \in CallId : Alone(h, jd) /\ (jd # id \/ h = k) => Alone(h, jd)'
      /\ \A jd : Times(jd)' = Times(jd)
      /\ \A h \in Conn : Live(h)' <=> Live(h)
      /\ Live(k) => /\ Reading(conn'[k], up'[k], id)
                    /\ Got(conn'[k], up'[k]) = client[c].written + Len(text)
  <2>1. Asks(k, client[c], id) /\ Piece(text, id, client[c].written, BodyLen) /\ ends' = ends
    BY <1>4, <1>5
  <2> HIDE DEF x
  <2>2. ClientFrame(c)
    BY <1>8
  <2> QED
    BY <1>6, <1>7, <2>1, <2>2, WrittenTexts
<1>10. Alone(k, id)' /\ down'[k] = <<>>
  BY <1>4, <1>8, <1>9 DEF Asks
<1>11. client'[c] = y /\ inCall'[c] = TRUE
  BY <1>1, <1>5, ContinuesIn
<1>12. Socket(c)' = k
  BY <1>2, <1>5, <1>11 DEF Socket
<1>13. ASSUME x.written + Len(text) < BodyLen + 2, y.state = "WRITE_REQUEST",
              y.written = x.written + Len(text)
       PROVE  ClientText(c)'
  <2>1. /\ y.written < BodyLen + 2
        /\ Live(k)' => Reading(conn'[k], up'[k], id) /\ Got(conn'[k], up'[k]) = y.written
    BY <1>9, <1>13
  <2>2. Asks(Socket(c), client[c], Current(c))'
    BY <1>8, <1>10, <1>11, <1>12, <2>1 DEF Asks
  <2> QED
    BY <1>4, <1>7, <1>11, <1>12, <1>13, <2>2 DEF ClientText
<1>14. ASSUME x.written + Len(text) = BodyLen + 2, y.state \in {"READ_HEADER", "READ_RESPONSE"},
              Answer(y, <<>>, id), Had(y, <<>>) = 0
       PROVE  ClientText(c)'
  <2>1. Live(k)' => Served(k, id, Had(y, <<>>))'
    BY <1>9, <1>14 DEF Served
  <2>2. Hears(Socket(c), client[c], Current(c))'
    BY <1>8, <1>10, <1>11, <1>12, <1>14, <2>1 DEF Hears
  <2> QED
    BY <1>4, <1>7, <1>11, <1>12, <1>14, <2>2 DEF ClientText
<1>15. ClientText(c)'
  BY <1>5, <1>13, <1>14
<1>16. \A h \in Conn : h[1] # c => up'[h] = up[h] /\ down'[h] = down[h] /\ ends'[h] = ends[h]
  BY <1>4, <1>6, <1>7, <1>8
<1>17. \A h \in Conn, jd \in CallId : Alone(h, jd) /\ jd[1] # c => Alone(h, jd)'
  BY <1>7, <1>9
<1> QED
  BY <1>9, <1>15, <1>16, <1>17, ClientTexts

\* when a part of the answer is read,
LEMMA WaitsTexts ==
  ASSUME MInv, CInv, NEW c \in Clients, Client1(c), ClientEvent(c), EventWaits(c)
  PROVE  CInv'
<1>1. inCall[c]
  BY DEF ClientEvent
<1>2. PICK k \in Conn : k = Socket(c)
  BY <1>1, InCallHas
<1>3. PICK id \in CallId : id = Current(c)
  BY <1>1, InCallHas
<1>4. /\ up' = up /\ ends' = ends /\ client[c].state # "WRITE_REQUEST" /\ Hears(k, client[c], id)
  BY <1>2, <1>3 DEF EventWaits
<1>5. PICK y \in Client :
       /\ y.nr = client[c].nr /\ y.attempts = client[c].attempts
       /\ y.state \in {"READ_HEADER", "READ_RESPONSE"} /\ Answer(y, <<>>, id)
       /\ Had(y, <<>>) = Had(client[c], down[k]) /\ Continues(c, y)
  BY <1>2, <1>3 DEF EventWaits
<1>6. /\ ClientFrame(c) /\ Current(c)' = id /\ conn' = conn
      /\ \A h \in Conn : h # k => down'[h] = down[h]
      /\ down'[k] = <<>>
  BY <1>2, <1>3, <1>4, EventFrame DEF ClientFrame
<1>7. /\ ServerPart'
      /\ \A h \in Conn, jd \in CallId : Alone(h, jd) => Alone(h, jd)'
      /\ \A jd : Times(jd)' = Times(jd)
      /\ \A h \in Conn : Live(h)' <=> Live(h)
  BY <1>4, <1>6, QuietTexts
<1>8. client'[c] = y /\ inCall'[c] = TRUE
  BY <1>1, <1>5, ContinuesIn
<1>9. Socket(c)' = k /\ k[1] = c
  BY <1>2, <1>5, <1>8 DEF Socket
<1>10. Hears(Socket(c), client[c], Current(c))'
  <2> DEFINE e == <<>>
  <2>1. /\ Had(client[c], down[k]) # 0 => Times(id) # 0
        /\ Live(k) => Served(k, id, Had(client[c], down[k]))
        /\ client[c].attempts = 0 /\ Had(client[c], down[k]) = 0 /\ ~Live(k) => Alone(k, id)
    BY <1>4 DEF Hears
  <2>2. Answer(y, e, id) /\ Had(y, e) = Had(client[c], down[k]) /\ down'[k] = e
    BY <1>5, <1>6
  <2> HIDE DEF e
  <2>3. Had(y, e) # 0 => Times(id)' # 0
    BY <1>7, <2>1, <2>2
  <2>4. Live(k)' => Served(k, id, Had(y, e))'
    BY <1>4, <1>6, <1>7, <2>1, <2>2 DEF Served
  <2>5. y.attempts = 0 /\ Had(y, e) = 0 /\ ~Live(k)' => Alone(k, id)'
    BY <1>5, <1>7, <2>1, <2>2
  <2> QED
    BY <1>6, <1>8, <1>9, <2>2, <2>3, <2>4, <2>5 DEF Hears
<1>11. ClientText(c)'
  <2>1. ends[k].client = "open" /\ ends[k].server # "none"
    BY <1>1, <1>2, InCallHas
  <2> QED
    BY <1>4, <1>5, <1>8, <1>9, <1>10, <2>1 DEF ClientText
<1>12. \A h \in Conn : h[1] # c => up'[h] = up[h] /\ down'[h] = down[h] /\ ends'[h] = ends[h]
  BY <1>4, <1>6, <1>9
<1> QED
  BY <1>7, <1>11, <1>12, ClientTexts

\* when the answer is complete,
LEMMA AnsweredTexts ==
  ASSUME MInv, CInv, NEW c \in Clients, Client1(c), ClientEvent(c), EventAnswered(c)
  PROVE  CInv'
<1>1. inCall[c]
  BY DEF ClientEvent
<1>2. PICK k \in Conn : k = Socket(c)
  BY <1>1, InCallHas
<1>3. PICK id \in CallId : id = Current(c)
  BY <1>1, InCallHas
<1>4. /\ up' = up /\ ends' = ends /\ client[c].state # "WRITE_REQUEST" /\ Hears(k, client[c], id)
      /\ Had(client[c], down[k]) = ReplyLen + 2
  BY <1>2, <1>3 DEF EventAnswered
<1>5. PICK y \in Client : /\ y.nr = client[c].nr /\ y.state = "IDLE"
                          /\ Returns(c, y, [ok |-> TRUE, call |-> Current(c)])
  BY DEF EventAnswered
<1>6. /\ ClientFrame(c) /\ conn' = conn
      /\ \A h \in Conn : h # k => down'[h] = down[h]
      /\ down'[k] = <<>>
  BY <1>2, <1>4, EventFrame DEF ClientFrame
<1>7. /\ ServerPart'
      /\ \A h \in Conn, jd \in CallId : Alone(h, jd) => Alone(h, jd)'
      /\ \A jd : Times(jd)' = Times(jd)
      /\ \A h \in Conn : Live(h)' <=> Live(h)
  BY <1>4, <1>6, QuietTexts
<1>8. client'[c] = y /\ inCall'[c] = FALSE
  BY <1>5, ReturnsIn, ZenonT(60)
<1>9. Socket(c)' = k /\ k[1] = c
  BY <1>2, <1>5, <1>8 DEF Socket
<1>10. Live(k) => Reading(conn[k], up[k], id) /\ Got(conn[k], up[k]) = 0
  <2>1. Live(k) => Served(k, id, ReplyLen + 2)
    BY <1>4 DEF Hears
  <2>2. ReplyLen \in Nat \ {0} /\ conn[k].written \in Nat
    BY SocketAssumption, ConnHas, ConnectionFields
  <2>3. ReplyLen + 2 # 0
    BY <2>2
  <2>4. Writing(conn[k], up[k], id) => conn[k].written < ReplyLen + 2
    BY DEF Writing
  <2>5. Writing(conn[k], up[k], id) => conn[k].written # ReplyLen + 2
    BY <2>2, <2>4
  <2> QED
    BY <2>1, <2>3, <2>5 DEF Served
<1>11. Live(k) => \A jd \in CallId : Reading(conn[k], up[k], jd)
  <2> DEFINE x == conn[k]
             s == up[k]
  <2>1. x \in Connection /\ s \in Seq(Token)
    BY ConnHas
  <2>2. Live(k) => Reading(x, s, id) /\ Got(x, s) = 0
    BY <1>10
  <2> HIDE DEF x, s
  <2>3. Live(k) => \A jd \in CallId : Reading(x, s, jd)
    BY <2>1, <2>2, ReadingNothing
  <2> QED
    BY <2>3 DEF x, s
<1>12. Rests(Socket(c))'
  BY <1>4, <1>6, <1>7, <1>9, <1>10, <1>11 DEF Rests
<1>13. ClientText(c)'
  <2>1. ends[k].client = "open" /\ ends[k].server # "none"
    BY <1>1, <1>2, InCallHas
  <2> QED
    BY <1>4, <1>5, <1>8, <1>9, <1>12, <2>1 DEF ClientText
<1>14. \A h \in Conn : h[1] # c => up'[h] = up[h] /\ down'[h] = down[h] /\ ends'[h] = ends[h]
  BY <1>4, <1>6, <1>9
<1> QED
  BY <1>7, <1>13, <1>14, ClientTexts

\* so after every event.
LEMMA ClientEventTexts ==
  ASSUME MInv, CInv, NEW c \in Clients, Client1(c), ClientEvent(c)
  PROVE  CInv'
BY ClientEventIs, FailsTexts, RetriesTexts, WritesTexts, WaitsTexts, AnsweredTexts

\* Nothing is executed at the start.
LEMMA TimesInit == ASSUME Init, NEW id PROVE Times(id) = 0
<1>1. executed = <<>> /\ DOMAIN executed = {}
  BY DEF Init, ServerInit
<1>2. {i \in DOMAIN executed : executed[i] = id} = {}
  BY <1>1
<1> QED
  BY <1>2, FS_EmptySet DEF Times

\* The second invariant holds at the start.
LEMMA InitCInv == Init => CInv
<1> SUFFICES ASSUME Init PROVE CInv
  OBVIOUS
<1>1. /\ \A k \in Conn : ends[k] = [client |-> "none", server |-> "none"]
      /\ up = [k \in Conn |-> <<>>] /\ down = [k \in Conn |-> <<>>]
      /\ conn = [k \in Conn |-> NoConnection] /\ executed = <<>> /\ crashes = 0
      /\ alive = TRUE /\ listening = TRUE
  BY DEF Init, SockInit, ServerInit
<1>2. \A k \in Conn : ends[k].client = "none" /\ ends[k].server = "none"
  BY <1>1
<1>3. \A k \in Conn : ~Live(k)
  BY <1>2 DEF Live
<1>4. NewIsEmpty /\ ServerTexts
  BY <1>1, <1>2, <1>3 DEF NewIsEmpty, ServerTexts
<1>5. HeldBound /\ HeldOnce
  BY <1>3 DEF HeldBound, HeldOnce, Holds
<1>6. TimesBound
  BY <1>1, TimesInit DEF TimesBound
<1>7. ExecutedMade
  BY <1>1 DEF ExecutedMade
<1>8. NoneClosed
  BY <1>1, <1>2 DEF NoneClosed
<1>9. \A c \in Clients : ~inCall[c] /\ client[c].nr = 0 /\ client[c].state = "NO_CONNECTION"
  BY DEF Init, ClientInit
<1>10. \A c \in Clients : ClientText(c)
  BY <1>9 DEF ClientText
<1> QED
  BY <1>4, <1>5, <1>6, <1>7, <1>8, <1>10 DEF CInv

\* Every step keeps it.
LEMMA NextCInv == MInv /\ CInv /\ [Next]_vars => CInv'
<1> SUFFICES ASSUME MInv, CInv, [Next]_vars PROVE CInv'
  OBVIOUS
<1>1. MInv'
  BY NextInv
<1>2. CASE Server
  <2>1. UNCHANGED clientVars
    BY <1>2 DEF Server
  <2>2. CASE Select
    BY <2>1, <2>2, SelectTexts DEF Select
  <2>3. CASE AcceptConnection
    BY <2>1, <2>3, AcceptTexts
  <2>4. CASE HandleConnection
    BY <1>1, <2>1, <2>4, HandleConnectionTexts
  <2>5. CASE ServerDies
    BY <2>1, <2>5, ServerDiesTexts
  <2>6. CASE ServerStarts
    BY <2>1, <2>6, ServerStartsTexts
  <2> QED
    BY <1>2, <2>2, <2>3, <2>4, <2>5, <2>6 DEF Server, ServerStep
<1>3. ASSUME NEW c \in Clients, Client1(c) PROVE CInv'
  BY <1>3, ExecuteTexts, ClientEventTexts, TimeoutTexts, CloseClientTexts DEF Client1
<1>4. CASE UNCHANGED vars
  BY <1>4, SelectTexts DEF vars, serverVars
<1> QED
  BY <1>2, <1>3, <1>4 DEF Next, Idle

\* Both inductive invariants hold.
LEMMA TextsInductive == Spec => [](MInv /\ CInv)
<1>1. Init => MInv /\ CInv
  BY InitInv, InitCInv
<1>2. MInv /\ CInv /\ [Next]_vars => MInv' /\ CInv'
  BY NextInv, NextCInv
<1> QED
  BY <1>1, <1>2, PTL DEF Spec

-----------------------------------------------------------------------------
(* The theorems about the calls *)

\* Whatever was cut off by deaths, timeouts and connections opened anew, the server
\* never takes a mixture of two requests for a call.
THEOREM RequestsAreWhole == Spec => []RequestsWhole
<1>1. CInv => RequestsWhole
  BY NoCallIsNot DEF CInv, ExecutedMade, RequestsWhole
<1> QED
  BY <1>1, TextsInductive, PTL

\* A call is executed at most once more than the server has died: the one retry of
\* the client is never a second execution by the same process.
THEOREM ExecutedOncePerLife ==
  Spec => [](\A id \in CallId : Times(id) <= crashes + 1)
<1>1. CInv => \A id \in CallId : Times(id) <= crashes + 1
  BY DEF CInv, TimesBound
<1> QED
  BY <1>1, TextsInductive, PTL

\* execute returns without an answer only when the server's end of its connection is closed,
\* and with an answer only to the current call, whose method has been executed.
LEMMA ReturnsWith ==
  ASSUME MInv, CInv, NEW c \in Clients, ClientEvent(c), inCall'[c] # TRUE
  PROVE  \/ result'[c] = Failed /\ ends[Socket(c)].server = "closed"
         \/ result'[c] = [ok |-> TRUE, call |-> Current(c)] /\ Times(Current(c)) # 0
<1>1. inCall[c]
  BY DEF ClientEvent
<1>2. CASE EventFails(c)
  <2>1. PICK y \in Client : Returns(c, y, Failed)
    BY <1>2 DEF EventFails
  <2>2. result'[c] = Failed
    BY <2>1, ReturnsIn
  <2> QED
    BY <1>2, <2>2 DEF EventFails
<1>3. CASE EventRetries(c)
  <2>1. PICK y \in Client, to \in Connects :
          IF to[1] THEN Continues(c, Connecting(y, TRUE)) ELSE Stops(c, Connecting(y, FALSE))
    BY <1>3 DEF EventRetries
  <2>2. ~to[1]
    BY <1>1, <2>1, ContinuesIn
  <2> DEFINE w == [Connecting(y, FALSE) EXCEPT !.monitored = FALSE]
  <2>3. Returns(c, w, Failed)
    BY <2>1, <2>2 DEF Stops
  <2> HIDE DEF w
  <2>4. result'[c] = Failed
    BY <2>3, ReturnsIn
  <2> QED
    BY <1>3, <2>4 DEF EventRetries
<1>4. CASE EventWrites(c) \/ EventWaits(c)
  <2>1. PICK y : Continues(c, y)
    BY <1>4 DEF EventWrites, WritesOn, EventWaits
  <2> QED
    BY <1>1, <2>1, ContinuesIn
<1>5. CASE EventAnswered(c)
  <2>1. PICK y \in Client : Returns(c, y, [ok |-> TRUE, call |-> Current(c)])
    BY <1>5 DEF EventAnswered
  <2>2. result'[c] = [ok |-> TRUE, call |-> Current(c)]
    BY <2>1, ReturnsIn
  <2>3. ReplyLen + 2 # 0
    BY SocketAssumption
  <2>4. Times(Current(c)) # 0
    BY <1>5, <2>3 DEF EventAnswered, Hears
  <2> QED
    BY <2>2, <2>4
<1> QED
  BY <1>2, <1>3, <1>4, <1>5, ClientEventIs

\* A call ends by an event or by the end of its time only.
LEMMA ReturnStep ==
  ASSUME MInv, CInv, [Next]_vars, NEW c \in Clients, inCall[c], ~inCall'[c]
  PROVE  ClientEvent(c) \/ Timeout(c)
<1>1. CASE Server \/ UNCHANGED vars
  BY <1>1 DEF Server, vars, clientVars
<1>2. ASSUME NEW d \in Clients, Client1(d) PROVE ClientEvent(c) \/ Timeout(c)
  <2>1. CASE d # c
    <3>1. inCall'[c] = inCall[c]
      BY <1>2, <2>1, ClientStep DEF MInv, ClientKept
    <3> QED
      BY <3>1
  <2>2. CASE d = c
    BY <1>2, <2>2 DEF Client1, Execute, CloseClient
  <2> QED
    BY <2>1, <2>2
<1> QED
  BY <1>1, <1>2 DEF Next, Idle

\* The answer a call returns is the one to that call, whatever answers of earlier calls
\* were still on their way, and the server has executed its method.
THEOREM AnswersBelong == Spec => AnswerIsToTheCall
<1> DEFINE A == \A c \in Clients : inCall[c] /\ ~inCall'[c] /\ result'[c].ok
                 => result'[c].call = <<c, called[c]>> /\ Times(<<c, called[c]>>) > 0
<1>1. MInv /\ CInv /\ [Next]_vars => A
  <2> SUFFICES ASSUME MInv, CInv, [Next]_vars, NEW c \in Clients,
                      inCall[c], ~inCall'[c], result'[c].ok
               PROVE  result'[c].call = <<c, called[c]>> /\ Times(<<c, called[c]>>) > 0
    OBVIOUS
  <2>1. Failed.ok = FALSE
    BY DEF Failed
  <2>2. CASE ClientEvent(c)
    <3>1. result'[c] = [ok |-> TRUE, call |-> Current(c)] /\ Times(Current(c)) # 0
      BY <2>1, <2>2, ReturnsWith
    <3>2. Times(Current(c)) \in Nat
      BY TimesType DEF MInv, TInv
    <3> QED
      BY <3>1, <3>2 DEF Current
  <2>3. CASE Timeout(c)
    <3>1. result'[c] = Failed
      BY <2>3, ReturnsIn DEF Timeout
    <3> QED
      BY <2>1, <3>1
  <2> QED
    BY <2>2, <2>3, ReturnStep
<1> QED
  BY <1>1, TextsInductive, PTL DEF Spec, AnswerIsToTheCall

\* As long as no process has died, a call that asks to keep its connection succeeds
\* unless it has timed out: the server has not closed any connection such a client has
\* open, in whatever order connections are accepted, read and answered.
THEOREM SucceedsOrTimesOut == Spec => NoFailureWithoutCause
<1> DEFINE A == \A c \in Clients \ OldHttp : inCall[c] /\ ~inCall'[c] /\ crashes = 0
                   /\ <<c, called[c]>> \notin timedOut'
                 => result'[c].ok
<1>1. MInv /\ CInv /\ [Next]_vars => A
  <2> SUFFICES ASSUME MInv, CInv, [Next]_vars, NEW c \in Clients \ OldHttp,
                      inCall[c], ~inCall'[c], crashes = 0, <<c, called[c]>> \notin timedOut'
               PROVE  result'[c].ok
    OBVIOUS
  <2>1. ClientEvent(c)
    <3>1. ~Timeout(c)
      BY DEF Timeout
    <3> QED
      BY <3>1, ReturnStep
  <2>2. ends[Socket(c)].server # "closed"
    <3>1. Socket(c) \in Conn /\ ends[Socket(c)].client = "open" /\ Socket(c)[1] = c
      BY InCallHas DEF Socket
    <3>2. Live(Socket(c))
      BY <3>1 DEF CInv, NoneClosed
    <3> QED
      BY <3>2 DEF Live
  <2>3. result'[c] = [ok |-> TRUE, call |-> Current(c)]
    BY <2>1, <2>2, ReturnsWith
  <2> QED
    BY <2>3
<1> QED
  BY <1>1, TextsInductive, PTL DEF Spec, NoFailureWithoutCause

-----------------------------------------------------------------------------
(* The refinement of RpcCalls *)

\* How often each call was executed
Executions == [id \in CallId |-> Times(id)]

\* A step that executes nothing changes no number of executions,
LEMMA ExecutionsSame ==
  ASSUME executed' = executed
  PROVE  Executions' = Executions
BY DEF Executions, Times

\* and one that leaves alone what clients and server have done, nothing RpcCalls knows
\* of.
LEMMA CallsUnchanged ==
  ASSUME executed' = executed, crashes' = crashes, called' = called, inCall' = inCall,
         result' = result
  PROVE  UNCHANGED Calls!vars
<1>1. Executions' = Executions
  BY ExecutionsSame
<1> QED
  BY <1>1 DEF Calls!vars, Executions

\* The initial states map to initial states.
LEMMA CallsInit == Init => Calls!Init
<1> SUFFICES ASSUME Init PROVE Calls!Init
  OBVIOUS
<1>1. \A id \in CallId : Times(id) = 0
  BY TimesInit
<1>2. [id \in CallId |-> Times(id)] = [id \in CallId |-> 0]
  BY <1>1
<1> QED
  BY <1>2 DEF Init, ClientInit, ServerInit, Calls!Init, CallId

\* A handler executes a call that was made, or nothing that RpcCalls knows of changes.
LEMMA HandleConnectionServes ==
  ASSUME MInv, CInv, MInv', HandleConnection, UNCHANGED clientVars
  PROVE  Calls!Next \/ UNCHANGED Calls!vars
<1>1. PICK k \in Conn, id \in CallId : Handles(k, id)
  BY HandleConnectionHandles
<1>2. called' = called /\ inCall' = inCall /\ result' = result /\ crashes' = crashes
  BY DEF clientVars, HandleConnection
<1>3. CASE executed' = executed
  BY <1>2, <1>3, CallsUnchanged
<1>4. CASE executed' = Append(executed, id) /\ Holds(k, id)
  <2>1. id[1] \in Clients /\ id[2] \in 1..MaxCalls /\ id = <<id[1], id[2]>>
    BY DEF CallId
  <2>2. id[2] \in 1..called[id[1]]
    BY <1>1 DEF Handles
  <2>3. Times(id) <= crashes
    BY <1>4 DEF CInv, HeldBound
  <2>4. \A jd \in CallId : Times(jd)' = IF jd = id THEN Times(jd) + 1 ELSE Times(jd)
    BY <1>4, TimesAppend DEF MInv, TInv
  <2>5. Executions' = [Executions EXCEPT ![id] = @ + 1] /\ Executions[id] = Times(id)
    BY <2>4 DEF Executions
  <2>6. Calls!Serve(id[1], id[2])
    BY <1>2, <2>1, <2>2, <2>3, <2>5 DEF Calls!Serve, Executions
  <2> QED
    BY <2>1, <2>6 DEF Calls!Next
<1> QED
  BY <1>1, <1>3, <1>4, HandlesHeld

\* Every step of the server is one of RpcCalls or changes nothing it knows of.
LEMMA ServerServes ==
  ASSUME MInv, CInv, MInv', Server
  PROVE  Calls!Next \/ UNCHANGED Calls!vars
<1>1. UNCHANGED clientVars /\ called' = called /\ inCall' = inCall /\ result' = result
  BY DEF Server, clientVars
<1>2. CASE Select
  BY <1>1, <1>2, CallsUnchanged DEF Select
<1>3. CASE AcceptConnection
  BY <1>1, <1>3, CallsUnchanged DEF AcceptConnection
<1>4. CASE HandleConnection
  BY <1>1, <1>4, HandleConnectionServes
<1>5. CASE ServerDies
  <2>1. executed' = executed /\ crashes' = crashes + 1
    BY <1>5 DEF ServerDies
  <2>2. Executions' = Executions
    BY <2>1, ExecutionsSame
  <2>3. Calls!Die
    BY <1>1, <2>1, <2>2 DEF Calls!Die, Executions
  <2> QED
    BY <2>3 DEF Calls!Next
<1>6. CASE ServerStarts
  BY <1>1, <1>6, CallsUnchanged DEF ServerStarts
<1> QED
  BY <1>2, <1>3, <1>4, <1>5, <1>6 DEF Server, ServerStep

\* An event may end the call of its client, with some result, and no other.
LEMMA EventInCall ==
  ASSUME MInv, CInv, NEW c \in Clients, ClientEvent(c)
  PROVE  \/ inCall' = inCall /\ result' = result
         \/ \E r : \E y : Returns(c, y, r)
<1>1. CASE EventFails(c)
  BY <1>1 DEF EventFails
<1>2. CASE EventRetries(c)
  BY <1>2 DEF EventRetries, Stops, Continues
<1>3. CASE EventWrites(c)
  BY <1>3 DEF EventWrites, WritesOn, Continues
<1>4. CASE EventWaits(c)
  BY <1>4 DEF EventWaits, Continues
<1>5. CASE EventAnswered(c)
  BY <1>5 DEF EventAnswered
<1> QED
  BY <1>1, <1>2, <1>3, <1>4, <1>5, ClientEventIs

\* It returns nothing but what RpcCalls lets it return.
LEMMA EventResult ==
  ASSUME MInv, CInv, NEW c \in Clients, ClientEvent(c), inCall'[c] # TRUE
  PROVE  result'[c] \in Calls!Results(c)
<1>1. Current(c) \in CallId /\ Times(Current(c)) \in Nat
  BY InCallHas, TimesType DEF MInv, TInv, ClientEvent
<1>2. Executions[<<c, called[c]>>] = Times(Current(c))
  BY <1>1 DEF Executions, Current
<1>3. CASE result'[c] = Failed
  BY <1>3 DEF Calls!Results
<1>4. CASE result'[c] = [ok |-> TRUE, call |-> Current(c)] /\ Times(Current(c)) # 0
  BY <1>1, <1>2, <1>4 DEF Calls!Results, Executions, Current
<1> QED
  BY <1>3, <1>4, ReturnsWith

\* Every step of a client is one of RpcCalls or changes nothing it knows of.
LEMMA ClientCalls ==
  ASSUME MInv, CInv, NEW c \in Clients, Client1(c)
  PROVE  Calls!Next \/ UNCHANGED Calls!vars
<1>1. executed' = executed /\ crashes' = crashes /\ Executions' = Executions
  BY ExecutionsSame DEF Client1, serverVars
<1>2. /\ inCall \in [Clients -> BOOLEAN] /\ called \in [Clients -> 0..MaxCalls]
      /\ result \in [Clients -> Outcome]
  BY DEF MInv, TInv, TypeOK
<1>3. ASSUME inCall[c], NEW y, NEW r, Returns(c, y, r), r \in Calls!Results(c),
             called' = called
      PROVE  Calls!Next
  <2>1. Calls!Return(c)
    BY <1>1, <1>3 DEF Calls!Return, Executions, Returns
  <2> QED
    BY <2>1 DEF Calls!Next
<1>4. CASE Execute(c)
  <2>1. /\ ~inCall[c] /\ called[c] < MaxCalls
        /\ called' = [called EXCEPT ![c] = @ + 1]
        /\ \/ inCall' = [inCall EXCEPT ![c] = TRUE] /\ result' = result
           \/ \E to \in Connects :
                /\ inCall' = [inCall EXCEPT ![c] = to[1]]
                /\ result' = IF to[1] THEN result ELSE [result EXCEPT ![c] = Failed]
    BY <1>4 DEF Execute
  <2>2. \/ inCall' = [inCall EXCEPT ![c] = TRUE] /\ UNCHANGED result
        \/ result' = [result EXCEPT ![c] = Failed] /\ UNCHANGED inCall
    <3>1. [inCall EXCEPT ![c] = FALSE] = inCall
      BY <1>2, <2>1
    <3>2. \A to \in Connects : to[1] = TRUE \/ to[1] = FALSE
      BY ConnectsEither
    <3> QED
      BY <2>1, <3>1, <3>2
  <2>3. Calls!Call(c)
    BY <1>1, <2>1, <2>2 DEF Calls!Call, Executions
  <2> QED
    BY <2>3 DEF Calls!Next
<1>5. CASE ClientEvent(c)
  <2>1. inCall[c] /\ called' = called
    BY <1>5 DEF ClientEvent
  <2>2. CASE inCall' = inCall /\ result' = result
    BY <1>1, <2>1, <2>2, CallsUnchanged
  <2>3. ASSUME NEW r, NEW y, Returns(c, y, r) PROVE Calls!Next
    <3>1. inCall'[c] = FALSE /\ result'[c] = r
      BY <2>3, ReturnsIn
    <3>2. r \in Calls!Results(c)
      BY <1>5, <3>1, EventResult
    <3> QED
      BY <1>3, <2>1, <2>3, <3>2
  <2> QED
    BY <1>5, <2>2, <2>3, EventInCall
<1>6. CASE Timeout(c)
  <2>1. inCall[c] /\ called' = called /\ Returns(c, client[c], Failed)
    BY <1>6 DEF Timeout
  <2>2. Failed \in Calls!Results(c)
    BY DEF Calls!Results
  <2> QED
    BY <1>3, <2>1, <2>2
<1>7. CASE CloseClient(c)
  BY <1>1, <1>7, CallsUnchanged DEF CloseClient
<1> QED
  BY <1>4, <1>5, <1>6, <1>7 DEF Client1

\* The sockets, their buffers and the two state machines together do what RpcCalls
\* promises: every step of theirs is one of its steps or changes nothing it knows of.
THEOREM ImplementsCalls == Spec => CallsImplemented
<1>1. Init => Calls!Init
  BY CallsInit
<1>2. MInv /\ CInv /\ [Next]_vars => [Calls!Next]_(Calls!vars)
  <2> SUFFICES ASSUME MInv, CInv, [Next]_vars PROVE Calls!Next \/ UNCHANGED Calls!vars
    OBVIOUS
  <2>1. CASE Server
    BY <2>1, NextInv, ServerServes
  <2>2. ASSUME NEW c \in Clients, Client1(c) PROVE Calls!Next \/ UNCHANGED Calls!vars
    BY <2>2, ClientCalls
  <2>3. CASE UNCHANGED vars
    BY <2>3, CallsUnchanged DEF vars, serverVars, clientVars
  <2> QED
    BY <2>1, <2>2, <2>3 DEF Next, Idle
<1> QED
  BY <1>1, <1>2, TextsInductive, PTL DEF Spec, CallsImplemented, Calls!Spec

-----------------------------------------------------------------------------
(* XmlStrings: induction *)

\* The order of the numbers as a relation
LEMMA LessRelation == \A x, y \in Nat : x < y => <<x, y>> \in OpToRel(<, Nat)
BY Zenon DEF OpToRel

\* A set of numbers that is not empty has a least one.
LEMMA LeastNumber ==
  ASSUME NEW X \in SUBSET Nat, X # {}
  PROVE  \E x \in X : \A y \in X : x <= y
<1>1. PICK x \in X : \A y \in X : ~(<<y, x>> \in OpToRel(<, Nat))
  BY WFMin, NatLessThanWellFounded, Zenon
<1>2. \A y \in X : x <= y
  <2>1. SUFFICES ASSUME NEW y \in X PROVE ~(y < x)
    BY SMT
  <2> QED
    BY <1>1, LessRelation, Zenon
<1> QED
  BY <1>2

\* So it is empty if no number in it is the least one.
LEMMA NoneIsLeast ==
  ASSUME NEW X \in SUBSET Nat, \A x \in X : \E y \in X : y < x
  PROVE  X = {}
<1>1. SUFFICES ASSUME X # {} PROVE FALSE
  OBVIOUS
<1>2. PICK x \in X : \A y \in X : x <= y
  BY <1>1, LeastNumber
<1>3. PICK y \in X : y < x
  OBVIOUS
<1> QED
  BY <1>2, <1>3

-----------------------------------------------------------------------------
(* XmlStrings: writing a string *)

\* The beginnings of a sequence of sequences, flattened
IsFlat(parts, n, g) == g = [i \in 1..n |-> IF i = 1 THEN parts[i] ELSE g[i - 1] \o parts[i]]

\* There are such.
LEMMA FlatExists ==
  ASSUME NEW parts, NEW n \in Nat
  PROVE  \E g : IsFlat(parts, n, g)
<1> DEFINE X == {k \in Nat : ~\E g : IsFlat(parts, k, g)}
<1>1. ASSUME NEW k \in X PROVE \E j \in X : j < k
  <2>1. k # 0
    <3>1. PICK g : g = [i \in 1..0 |-> parts[i]]
      OBVIOUS
    <3>2. IsFlat(parts, 0, g)
      BY <3>1 DEF IsFlat
    <3> QED
      BY <3>2
  <2>2. k - 1 \in Nat /\ k - 1 < k /\ k \in Nat
    BY <2>1
  <2>3. ASSUME k - 1 \notin X PROVE FALSE
    <3>1. PICK g : IsFlat(parts, k - 1, g)
      BY <2>2, <2>3
    <3>2. PICK last : last = IF k = 1 THEN parts[1] ELSE g[k - 1] \o parts[k]
      OBVIOUS
    <3>3. PICK h : h = [i \in 1..k |-> IF i = k THEN last ELSE g[i]]
      OBVIOUS
    <3>4. \A i \in 1..k : h[i] = IF i = 1 THEN parts[i] ELSE h[i - 1] \o parts[i]
      <4>1. ASSUME NEW i \in 1..k
            PROVE  h[i] = IF i = 1 THEN parts[i] ELSE h[i - 1] \o parts[i]
        <5>1. i # 1 => i - 1 \in 1..k /\ i - 1 # k
          BY <2>2
        <5>2. i # 1 => h[i - 1] = g[i - 1]
          BY <3>3, <5>1
        <5>3. CASE i = k
          <6>1. h[i] = last
            BY <3>3, <5>3
          <6> QED
            BY <3>2, <5>2, <5>3, <6>1
        <5>4. CASE i # k
          <6>1. i \in 1..(k - 1) /\ h[i] = g[i]
            BY <2>2, <3>3, <5>4
          <6>2. g[i] = IF i = 1 THEN parts[i] ELSE g[i - 1] \o parts[i]
            BY <3>1, <6>1 DEF IsFlat
          <6> QED
            BY <5>2, <6>1, <6>2
        <5> QED
          BY <5>3, <5>4
      <4> QED
        BY <4>1
    <3>5. IsFlat(parts, k, h)
      <4>1. h = [i \in 1..k |-> h[i]]
        BY <3>3
      <4> QED
        BY <3>4, <4>1 DEF IsFlat
    <3> QED
      BY <3>5
  <2> QED
    BY <2>2, <2>3
<1>2. X = {}
  <2>1. X \in SUBSET Nat
    OBVIOUS
  <2> HIDE DEF X
  <2> QED
    BY <1>1, <2>1, NoneIsLeast
<1> QED
  BY <1>2

\* The last of them is all of it.
LEMMA FlatIs ==
  ASSUME NEW parts, Len(parts) \in Nat, Len(parts) # 0
  PROVE  \E g : IsFlat(parts, Len(parts), g) /\ FlattenSeq(parts) = g[Len(parts)]
<1> DEFINE g == CHOOSE f : IsFlat(parts, Len(parts), f)
<1>1. IsFlat(parts, Len(parts), g)
  BY FlatExists
<1>2. FlattenSeq(parts) = g[Len(parts)]
  BY DEF FlattenSeq, IsFlat
<1> QED
  BY <1>1, <1>2

\* What a character is written as, and which are written as two
Special(c) == c = Amp \/ Markup(c)
AsWritten(c) == IF Special(c) THEN <<Amp, Entity(c)>> ELSE <<c>>

\* The characters of a written string
Chars(S) == S \cup {Amp} \cup {Entity(c) : c \in S}

\* A piece is of such characters, and no '<' is in it.
LEMMA AsWrittenIs ==
  ASSUME NEW S, NEW c \in S
  PROVE  /\ AsWritten(c) \in Seq(Chars(S))
         /\ Len(AsWritten(c)) = IF Special(c) THEN 2 ELSE 1
         /\ Special(c) => AsWritten(c)[1] = Amp /\ AsWritten(c)[2] = Entity(c)
         /\ ~Special(c) => AsWritten(c)[1] = c
         /\ \A i \in 1..Len(AsWritten(c)) : ~Markup(AsWritten(c)[i])
<1>1. c \in Chars(S) /\ Amp \in Chars(S) /\ Entity(c) \in Chars(S)
  BY DEF Chars
<1>2. ~Markup(Amp)
  BY DEF Markup, Amp
<1>3. ~Markup(Entity(c))
  BY DEF Markup, Entity
<1>4. CASE Special(c)
  <2>1. PICK a, e : a = Amp /\ e = Entity(c)
    OBVIOUS
  <2>2. AsWritten(c) = <<a, e>>
    BY <1>4, <2>1 DEF AsWritten
  <2>3. a \in Chars(S) /\ e \in Chars(S) /\ ~Markup(a) /\ ~Markup(e)
    BY <1>1, <1>2, <1>3, <2>1
  <2>4. <<a, e>> \in Seq(Chars(S)) /\ Len(<<a, e>>) = 2 /\ <<a, e>>[1] = a /\ <<a, e>>[2] = e
    BY <2>3
  <2>5. \A i \in 1..2 : i = 1 \/ i = 2
    OBVIOUS
  <2> QED
    BY <1>4, <2>1, <2>2, <2>3, <2>4, <2>5
<1>5. CASE ~Special(c)
  <2>1. AsWritten(c) = <<c>> /\ ~Markup(c)
    BY <1>5 DEF AsWritten, Special
  <2>2. <<c>> \in Seq(Chars(S)) /\ Len(<<c>>) = 1 /\ <<c>>[1] = c
    BY <1>1
  <2>3. \A i \in 1..1 : i = 1
    OBVIOUS
  <2> QED
    BY <1>5, <2>1, <2>2, <2>3
<1> QED
  BY <1>4, <1>5

\* t is what the first k characters of s are written as: at tells where each one begins.
Coded(s, k, t, at) ==
  /\ at \in [1..(k + 1) -> Nat] /\ at[1] = 1 /\ at[k + 1] = Len(t) + 1 /\ k <= Len(t)
  /\ \A i \in 1..(k + 1) : at[i] >= 1 /\ at[i] <= Len(t) + 1
  /\ \A i \in 1..k :
       IF Special(s[i]) THEN at[i + 1] = at[i] + 2 /\ t[at[i]] = Amp /\ t[at[i] + 1] = Entity(s[i])
       ELSE at[i + 1] = at[i] + 1 /\ t[at[i]] = s[i]
  /\ \A q \in 1..Len(t) : ~Markup(t[q])

\* A text with a piece behind it
Joined(T, t, piece, t2) ==
  /\ t2 \in Seq(T) /\ Len(t2) = Len(t) + Len(piece) /\ Len(t) \in Nat /\ Len(piece) \in Nat
  /\ \A q \in 1..Len(t) : t2[q] = t[q]
  /\ \A q \in 1..Len(piece) : t2[Len(t) + q] = piece[q]

\* A concatenation is such a text.
LEMMA PieceBehind ==
  ASSUME NEW T, NEW t \in Seq(T), NEW piece \in Seq(T)
  PROVE  Joined(T, t, piece, t \o piece)
<1>1. Len(t) \in Nat /\ Len(piece) \in Nat
  OBVIOUS
<1>2. t \o piece \in Seq(T) /\ Len(t \o piece) = Len(t) + Len(piece)
      /\ \A i \in 1..(Len(t) + Len(piece)) : (t \o piece)[i] = IF i <= Len(t) THEN t[i] ELSE piece[i - Len(t)]
  BY ConcatProperties
<1>3. ASSUME NEW q \in 1..Len(t) PROVE (t \o piece)[q] = t[q]
  <2>1. q \in 1..(Len(t) + Len(piece)) /\ q <= Len(t)
    BY <1>1
  <2> QED
    BY <1>2, <2>1
<1>4. ASSUME NEW q \in 1..Len(piece) PROVE (t \o piece)[Len(t) + q] = piece[q]
  <2>1. Len(t) + q \in 1..(Len(t) + Len(piece)) /\ ~(Len(t) + q <= Len(t)) /\ (Len(t) + q) - Len(t) = q
    BY <1>1
  <2> QED
    BY <1>2, <2>1
<1> QED
  BY <1>1, <1>2, <1>3, <1>4 DEF Joined

\* The next character is behind what is written.
LEMMA CodedGrows ==
  ASSUME NEW S, NEW s, NEW k \in Nat, NEW t, NEW at, Coded(s, k, t, at), s[k + 1] \in S,
         NEW t2, Joined(Chars(S), t, AsWritten(s[k + 1]), t2)
  PROVE  \E a : Coded(s, k + 1, t2, a)
<1>1. PICK c, piece, n, l : c = s[k + 1] /\ piece = AsWritten(c) /\ n = Len(t) /\ l = Len(piece)
  OBVIOUS
<1>2. /\ l = IF Special(c) THEN 2 ELSE 1
      /\ Special(c) => piece[1] = Amp /\ piece[2] = Entity(c)
      /\ ~Special(c) => piece[1] = c
      /\ \A i \in 1..l : ~Markup(piece[i])
  BY <1>1, AsWrittenIs
<1>3. /\ Len(t2) = n + l /\ n \in Nat /\ l \in Nat /\ l >= 1
      /\ \A q \in 1..n : t2[q] = t[q]
      /\ \A q \in 1..l : t2[n + q] = piece[q]
  BY <1>1, <1>2 DEF Joined
<1>4. /\ at \in [1..(k + 1) -> Nat] /\ at[1] = 1 /\ at[k + 1] = n + 1 /\ k <= n
      /\ \A i \in 1..(k + 1) : at[i] >= 1 /\ at[i] <= n + 1
      /\ \A i \in 1..k :
           IF Special(s[i]) THEN at[i + 1] = at[i] + 2 /\ t[at[i]] = Amp /\ t[at[i] + 1] = Entity(s[i])
           ELSE at[i + 1] = at[i] + 1 /\ t[at[i]] = s[i]
      /\ \A q \in 1..n : ~Markup(t[q])
  BY <1>1 DEF Coded
<1>5. PICK a : a = [i \in 1..(k + 2) |-> IF i = k + 2 THEN n + l + 1 ELSE at[i]]
  OBVIOUS
<1>6. \A i \in 1..(k + 1) : a[i] = at[i] /\ at[i] \in Nat
  BY <1>4, <1>5
<1>7. a[k + 2] = n + l + 1 /\ a \in [1..(k + 2) -> Nat] /\ a[1] = 1
  BY <1>3, <1>4, <1>5
<1>8. k + 1 <= n + l
  BY <1>3, <1>4
<1>9. ASSUME NEW i \in 1..(k + 2) PROVE a[i] >= 1 /\ a[i] <= n + l + 1
  <2>1. CASE i = k + 2
    BY <1>3, <1>7, <2>1
  <2>2. CASE i # k + 2
    <3>1. i \in 1..(k + 1)
      BY <2>2
    <3> QED
      BY <1>3, <1>4, <1>6, <3>1
  <2> QED
    BY <2>1, <2>2
<1>10. ASSUME NEW i \in 1..(k + 1)
       PROVE  IF Special(s[i]) THEN a[i + 1] = a[i] + 2 /\ t2[a[i]] = Amp /\ t2[a[i] + 1] = Entity(s[i])
              ELSE a[i + 1] = a[i] + 1 /\ t2[a[i]] = s[i]
  <2>1. CASE i = k + 1
    <3>1. a[i] = n + 1 /\ a[i + 1] = n + l + 1 /\ s[i] = c
      <4>1. k + 1 \in 1..(k + 1) /\ (k + 1) + 1 = k + 2
        OBVIOUS
      <4> QED
        BY <1>1, <1>4, <1>6, <1>7, <2>1, <4>1
    <3>2. t2[n + 1] = piece[1]
      <4>1. 1 \in 1..l
        BY <1>3
      <4> QED
        BY <1>3, <4>1
    <3>3. Special(c) => t2[n + 2] = piece[2]
      <4>1. Special(c) => 2 \in 1..l
        BY <1>2
      <4> QED
        BY <1>3, <4>1
    <3>4. (n + 1) + 1 = n + 2
      BY <1>3
    <3>5. CASE Special(c)
      <4>1. n + l + 1 = (n + 1) + 2
        BY <1>2, <1>3, <3>5
      <4> QED
        BY <1>2, <3>1, <3>2, <3>3, <3>4, <3>5, <4>1
    <3>6. CASE ~Special(c)
      <4>1. n + l + 1 = (n + 1) + 1
        BY <1>2, <1>3, <3>6
      <4> QED
        BY <1>2, <3>1, <3>2, <3>6, <4>1
    <3> QED
      BY <3>5, <3>6
  <2>2. CASE i # k + 1
    <3>1. i \in 1..k /\ i + 1 \in 1..(k + 1)
      BY <2>2
    <3>2. a[i] = at[i] /\ a[i + 1] = at[i + 1] /\ at[i] \in Nat /\ at[i + 1] \in Nat
      BY <1>6, <3>1
    <3>3. at[i] >= 1 /\ at[i + 1] <= n + 1
      BY <1>4, <3>1
    <3>4. CASE Special(s[i])
      <4>1. at[i + 1] = at[i] + 2 /\ t[at[i]] = Amp /\ t[at[i] + 1] = Entity(s[i])
        BY <1>4, <3>1, <3>4
      <4>2. at[i] \in 1..n /\ at[i] + 1 \in 1..n
        BY <1>3, <3>2, <3>3, <4>1
      <4>3. t2[at[i]] = Amp /\ t2[at[i] + 1] = Entity(s[i])
        BY <1>3, <4>1, <4>2
      <4> QED
        BY <3>2, <3>4, <4>1, <4>3
    <3>5. CASE ~Special(s[i])
      <4>1. at[i + 1] = at[i] + 1 /\ t[at[i]] = s[i]
        BY <1>4, <3>1, <3>5
      <4>2. at[i] \in 1..n
        BY <1>3, <3>2, <3>3, <4>1
      <4> QED
        BY <1>3, <3>2, <3>5, <4>1, <4>2
    <3> QED
      BY <3>4, <3>5
  <2> QED
    BY <2>1, <2>2
<1>11. ASSUME NEW q \in 1..(n + l) PROVE ~Markup(t2[q])
  <2>1. CASE q <= n
    <3>1. q \in 1..n
      BY <1>3, <2>1
    <3> QED
      BY <1>3, <1>4, <3>1
  <2>2. CASE ~(q <= n)
    <3>1. PICK r : r = q - n
      OBVIOUS
    <3>2. r \in 1..l /\ n + r = q
      BY <1>3, <2>2, <3>1
    <3> QED
      BY <1>2, <1>3, <3>2
  <2> QED
    BY <2>1, <2>2
<1>12. (k + 1) + 1 = k + 2
  OBVIOUS
<1>13. Coded(s, k + 1, t2, a)
  BY <1>3, <1>7, <1>8, <1>9, <1>10, <1>11, <1>12 DEF Coded
<1> QED
  BY <1>13

\* A string is written so that its characters follow each other, and no '<' is in it.
LEMMA EncodeCodes ==
  ASSUME NEW S, NEW s \in Seq(S)
  PROVE  xmlEncode(s) \in Seq(Chars(S)) /\ \E at : Coded(s, Len(s), xmlEncode(s), at)
<1>1. Len(s) \in Nat /\ DOMAIN s = 1..Len(s) /\ \A i \in 1..Len(s) : s[i] \in S
  BY LenProperties, ElementOfSeq
<1>2. PICK parts : parts = [i \in DOMAIN s |-> AsWritten(s[i])]
  OBVIOUS
<1>3. xmlEncode(s) = FlattenSeq(parts)
  BY <1>2 DEF xmlEncode, AsWritten, Special
<1>4. \A i \in 1..Len(s) : parts[i] = AsWritten(s[i])
  BY <1>1, <1>2
<1>5. Len(parts) = Len(s)
  BY <1>1, <1>2
<1>6. CASE Len(s) = 0
  <2>1. parts = <<>> /\ FlattenSeq(parts) = parts
    BY <1>1, <1>2, <1>5, <1>6 DEF FlattenSeq
  <2>2. <<>> \in Seq(Chars(S)) /\ Len(<<>>) = 0
    OBVIOUS
  <2>3. PICK at : at = [i \in 1..1 |-> 1]
    OBVIOUS
  <2>4. at \in [1..1 -> Nat] /\ at[1] = 1
    BY <2>3
  <2>5. \A i \in 1..1 : at[i] >= 1 /\ at[i] <= 1
    BY <2>3
  <2>6. \A i \in 1..0 : FALSE
    OBVIOUS
  <2>7. Coded(s, 0, <<>>, at)
    BY <2>2, <2>4, <2>5, <2>6 DEF Coded
  <2> QED
    BY <1>3, <1>6, <2>1, <2>2, <2>7
<1>7. CASE Len(s) # 0
  <2>1. PICK g : IsFlat(parts, Len(s), g) /\ FlattenSeq(parts) = g[Len(s)]
    BY <1>1, <1>5, <1>7, FlatIs
  <2>2. \A i \in 1..Len(s) : g[i] = IF i = 1 THEN parts[i] ELSE g[i - 1] \o parts[i]
    BY <2>1 DEF IsFlat
  <2> DEFINE Right(k) == g[k] \in Seq(Chars(S)) /\ \E at : Coded(s, k, g[k], at)
  <2>3. ASSUME NEW i \in 1..Len(s)
        PROVE  AsWritten(s[i]) \in Seq(Chars(S))
    BY <1>1, AsWrittenIs
  <2>4. Right(1)
    <3>1. 1 \in 1..Len(s)
      BY <1>1, <1>7
    <3>2. g[1] = AsWritten(s[1])
      BY <1>4, <2>2, <3>1
    <3>3. PICK t : t = <<>> /\ t \in Seq(Chars(S)) /\ Len(t) = 0
      <4>1. <<>> \in Seq(Chars(S)) /\ Len(<<>>) = 0
        OBVIOUS
      <4> QED
        BY <4>1
    <3>4. t \o AsWritten(s[1]) = AsWritten(s[1])
      BY <2>3, <3>1, <3>3, ConcatEmptySeq
    <3>5. Joined(Chars(S), t, AsWritten(s[1]), g[1])
      BY <2>3, <3>1, <3>2, <3>3, <3>4, PieceBehind
    <3>6. PICK at : at = [i \in 1..1 |-> 1]
      OBVIOUS
    <3>7. Coded(s, 0, t, at)
      <4>1. at \in [1..1 -> Nat] /\ at[1] = 1 /\ \A i \in 1..1 : at[i] >= 1 /\ at[i] <= 1
        BY <3>6
      <4>2. \A i \in 1..0 : FALSE
        OBVIOUS
      <4> QED
        BY <3>3, <4>1, <4>2 DEF Coded
    <3>8. 0 \in Nat /\ 0 + 1 = 1 /\ s[1] \in S
      BY <1>1, <3>1
    <3>9. \E a : Coded(s, 0 + 1, g[1], a)
      BY <3>5, <3>7, <3>8, CodedGrows
    <3> QED
      BY <2>3, <3>1, <3>2, <3>8, <3>9
  <2>5. ASSUME NEW k \in 1..Len(s), k # 1, Right(k - 1) PROVE Right(k)
    <3>1. k - 1 \in Nat /\ (k - 1) + 1 = k
      OBVIOUS
    <3>2. g[k] = g[k - 1] \o AsWritten(s[k])
      BY <1>4, <2>2, <2>5
    <3>3. Joined(Chars(S), g[k - 1], AsWritten(s[k]), g[k])
      BY <2>3, <2>5, <3>2, PieceBehind
    <3>4. s[k] \in S
      BY <1>1
    <3>5. PICK at : Coded(s, k - 1, g[k - 1], at)
      BY <2>5
    <3>6. \E a : Coded(s, (k - 1) + 1, g[k], a)
      BY <3>1, <3>3, <3>4, <3>5, CodedGrows
    <3> QED
      BY <3>1, <3>3, <3>6 DEF Joined
  <2> DEFINE X == {k \in 1..Len(s) : ~Right(k)}
  <2> HIDE DEF Right
  <2>6. ASSUME NEW k \in X PROVE \E j \in X : j < k
    <3>1. k # 1 /\ k \in 1..Len(s)
      BY <2>4
    <3>2. k - 1 \in 1..Len(s) /\ k - 1 < k
      BY <1>1, <3>1
    <3>3. ~Right(k - 1)
      BY <2>5, <3>1
    <3> QED
      BY <3>2, <3>3
  <2>7. X \in SUBSET Nat
    OBVIOUS
  <2>8. X = {}
    <3> HIDE DEF X
    <3> QED
      BY <2>6, <2>7, NoneIsLeast
  <2>9. Right(Len(s))
    <3>1. Len(s) \in 1..Len(s)
      BY <1>1, <1>7
    <3> QED
      BY <2>8, <3>1
  <2> QED
    BY <1>3, <2>1, <2>9 DEF Right
<1> QED
  BY <1>6, <1>7

-----------------------------------------------------------------------------
(* XmlStrings: reading a string *)

\* What is decoded from a place on, if g is what is decoded from the later ones
Dec(t, g, i) ==
  IF i > Len(t) THEN <<>>
  ELSE IF t[i] = Amp /\ At(t, i + 1)[1] = "entity" THEN <<t[i + 1][2]>> \o g[i + 2]
  ELSE <<t[i]>> \o g[i + 1]

IsDec(t, from, g) == g = [i \in from..(Len(t) + 2) |-> Dec(t, g, i)]

\* There is what is decoded from each place on.
LEMMA DecExists ==
  ASSUME NEW t, Len(t) \in Nat
  PROVE  \E g : IsDec(t, 1, g)
<1> DEFINE X == {k \in 0..Len(t) : ~\E g : IsDec(t, (Len(t) + 1) - k, g)}
<1>1. ASSUME NEW k \in X PROVE \E j \in X : j < k
  <2>1. k # 0
    <3>1. PICK g : g = [i \in (Len(t) + 1)..(Len(t) + 2) |-> <<>>]
      OBVIOUS
    <3>2. \A i \in (Len(t) + 1)..(Len(t) + 2) : Dec(t, g, i) = <<>>
      BY DEF Dec
    <3>3. IsDec(t, Len(t) + 1, g)
      BY <3>1, <3>2 DEF IsDec
    <3>4. (Len(t) + 1) - 0 = Len(t) + 1
      OBVIOUS
    <3> QED
      BY <3>3, <3>4
  <2>2. k - 1 \in 0..Len(t) /\ k - 1 < k /\ k \in 0..Len(t)
    BY <2>1
  <2>3. ASSUME k - 1 \notin X PROVE FALSE
    <3>1. PICK j : j = (Len(t) + 1) - k
      OBVIOUS
    <3>2. j \in 1..Len(t) /\ (Len(t) + 1) - (k - 1) = j + 1
      BY <2>1, <2>2, <3>1
    <3>3. PICK g : IsDec(t, j + 1, g)
      BY <2>2, <2>3, <3>2
    <3>4. PICK h : h = [i \in j..(Len(t) + 2) |-> IF i = j THEN Dec(t, g, j) ELSE g[i]]
      OBVIOUS
    <3>5. ASSUME NEW i \in j..(Len(t) + 2) PROVE h[i] = Dec(t, h, i)
      <4>1. Dec(t, h, i) = Dec(t, g, i)
        <5>1. CASE i > Len(t)
          BY <5>1 DEF Dec
        <5>2. CASE ~(i > Len(t))
          <6>1. /\ i + 1 \in j..(Len(t) + 2) /\ i + 1 # j
                /\ i + 2 \in j..(Len(t) + 2) /\ i + 2 # j
            BY <3>2, <5>2
          <6>2. h[i + 1] = g[i + 1] /\ h[i + 2] = g[i + 2]
            BY <3>4, <6>1
          <6> QED
            BY <6>2 DEF Dec
        <5> QED
          BY <5>1, <5>2
      <4>2. CASE i = j
        BY <3>4, <4>1, <4>2
      <4>3. CASE i # j
        <5>1. i \in (j + 1)..(Len(t) + 2) /\ h[i] = g[i]
          BY <3>2, <3>4, <4>3
        <5>2. g[i] = Dec(t, g, i)
          BY <3>3, <5>1 DEF IsDec
        <5> QED
          BY <4>1, <5>1, <5>2
      <4> QED
        BY <4>2, <4>3
    <3>6. IsDec(t, j, h)
      <4>1. h = [i \in j..(Len(t) + 2) |-> h[i]]
        BY <3>4
      <4> QED
        BY <3>5, <4>1 DEF IsDec
    <3> QED
      BY <3>1, <3>6
  <2> QED
    BY <2>2, <2>3
<1>2. X = {}
  <2>1. X \in SUBSET Nat
    OBVIOUS
  <2> HIDE DEF X
  <2> QED
    BY <1>1, <2>1, NoneIsLeast
<1>3. Len(t) \in 0..Len(t) /\ (Len(t) + 1) - Len(t) = 1
  OBVIOUS
<1> QED
  BY <1>2, <1>3

\* What is decoded from the first is the string.
LEMMA DecodeIs ==
  ASSUME NEW t, Len(t) \in Nat
  PROVE  \E g : IsDec(t, 1, g) /\ xmlDecode(t) = g[1]
<1> DEFINE g == CHOOSE f : IsDec(t, 1, f)
<1>1. IsDec(t, 1, g)
  BY DecExists
<1>2. xmlDecode(t) = g[1]
  BY DEF xmlDecode, IsDec, Dec
<1> QED
  BY <1>1, <1>2

\* A string from one of its characters on
LEMMA RestFollows ==
  ASSUME NEW S, NEW s \in Seq(S), NEW i \in 1..Len(s)
  PROVE  <<s[i]>> \o SubSeq(s, i + 1, Len(s)) = SubSeq(s, i, Len(s))
<1>1. Len(s) \in i..Len(s)
  BY LenProperties
<1> QED
  BY <1>1, SubSeqRecursiveFirst

\* What is decoded from the place of a character on is the string from that character on.
LEMMA Decodes ==
  ASSUME NEW S, NEW s \in Seq(S), NEW t, Len(t) \in Nat, NEW at, Coded(s, Len(s), t, at),
         NEW g, IsDec(t, 1, g)
  PROVE  \A i \in 1..(Len(s) + 1) : g[at[i]] = SubSeq(s, i, Len(s))
<1>1. PICK n, m : n = Len(s) /\ m = Len(t)
  OBVIOUS
<1>2. n \in Nat /\ m \in Nat
  BY <1>1, LenProperties
<1>3. /\ at \in [1..(n + 1) -> Nat] /\ at[1] = 1 /\ at[n + 1] = m + 1
      /\ \A i \in 1..(n + 1) : at[i] >= 1 /\ at[i] <= m + 1
      /\ \A i \in 1..n :
           IF Special(s[i]) THEN at[i + 1] = at[i] + 2 /\ t[at[i]] = Amp /\ t[at[i] + 1] = Entity(s[i])
           ELSE at[i + 1] = at[i] + 1 /\ t[at[i]] = s[i]
  BY <1>1 DEF Coded
<1>4. \A i \in 1..(m + 2) : g[i] = Dec(t, g, i)
  BY <1>1 DEF IsDec
<1> DEFINE Read(i) == g[at[i]] = SubSeq(s, i, n)
<1>5. Read(n + 1)
  <2>1. m + 1 \in 1..(m + 2) /\ m + 1 > m
    BY <1>2
  <2>2. g[m + 1] = <<>>
    BY <1>1, <1>4, <2>1 DEF Dec
  <2>3. SubSeq(s, n + 1, n) = <<>>
    BY <1>2, SubSeqEmpty
  <2> QED
    BY <1>3, <2>2, <2>3
<1>6. ASSUME NEW i \in 1..n, Read(i + 1) PROVE Read(i)
  <2>1. i \in 1..(n + 1) /\ i + 1 \in 1..(n + 1)
    BY <1>2
  <2>2. at[i] \in Nat /\ at[i + 1] \in Nat /\ at[i] >= 1 /\ at[i + 1] <= m + 1
    BY <1>3, <2>1
  <2>3. <<s[i]>> \o SubSeq(s, i + 1, n) = SubSeq(s, i, n)
    BY <1>1, RestFollows
  <2>4. CASE Special(s[i])
    <3>1. at[i + 1] = at[i] + 2 /\ t[at[i]] = Amp /\ t[at[i] + 1] = Entity(s[i])
      BY <1>3, <2>4
    <3>2. at[i] \in 1..(m + 2) /\ ~(at[i] > m) /\ at[i] + 1 <= m
      BY <1>2, <2>2, <3>1, SMTT(60)
    <3>3. At(t, at[i] + 1)[1] = "entity" /\ t[at[i] + 1][2] = s[i]
      BY <1>1, <3>1, <3>2 DEF At, Entity
    <3>4. g[at[i]] = <<s[i]>> \o g[at[i] + 2]
      BY <1>1, <1>4, <3>1, <3>2, <3>3 DEF Dec
    <3> QED
      BY <1>6, <2>3, <3>1, <3>4
  <2>5. CASE ~Special(s[i])
    <3>1. at[i + 1] = at[i] + 1 /\ t[at[i]] = s[i] /\ t[at[i]] # Amp
      BY <1>3, <2>5 DEF Special
    <3>2. at[i] \in 1..(m + 2) /\ ~(at[i] > m)
      BY <1>2, <2>2, <3>1, SMTT(60)
    <3>3. g[at[i]] = <<s[i]>> \o g[at[i] + 1]
      BY <1>1, <1>4, <3>1, <3>2 DEF Dec
    <3> QED
      BY <1>6, <2>3, <3>1, <3>3
  <2> QED
    BY <2>4, <2>5
<1> DEFINE X == {k \in 0..n : ~Read((n + 1) - k)}
<1> HIDE DEF Read
<1>7. ASSUME NEW k \in X PROVE \E j \in X : j < k
  <2>1. k # 0
    <3>1. (n + 1) - 0 = n + 1
      BY <1>2
    <3> QED
      BY <1>5, <3>1
  <2>2. k - 1 \in 0..n /\ k - 1 < k /\ (n + 1) - k \in 1..n
        /\ ((n + 1) - k) + 1 = (n + 1) - (k - 1)
    BY <1>2, <2>1
  <2>3. ~Read((n + 1) - (k - 1))
    BY <1>6, <2>2
  <2> QED
    BY <2>2, <2>3
<1>8. X = {}
  <2>1. X \in SUBSET Nat
    BY <1>2
  <2> HIDE DEF X
  <2> QED
    BY <1>7, <2>1, NoneIsLeast
<1>9. ASSUME NEW i \in 1..(n + 1) PROVE Read(i)
  <2>1. (n + 1) - i \in 0..n /\ (n + 1) - ((n + 1) - i) = i
    BY <1>2
  <2> QED
    BY <1>8, <2>1
<1> QED
  BY <1>1, <1>9 DEF Read

\* A string is read as it was written, whatever is in it: each '<' and each '&' comes back,
\* and no character of its own is taken for the end of an entity (xmlDecode of xmlEncode).
THEOREM StringsAreReadBack ==
  ASSUME NEW S, NEW s \in Seq(S)
  PROVE  xmlDecode(xmlEncode(s)) = s
<1>1. PICK t : t = xmlEncode(s)
  OBVIOUS
<1>2. t \in Seq(Chars(S)) /\ Len(t) \in Nat
  <2>1. t \in Seq(Chars(S))
    BY <1>1, EncodeCodes
  <2> QED
    BY <2>1, LenProperties
<1>3. PICK at : Coded(s, Len(s), t, at)
  BY <1>1, EncodeCodes
<1>4. PICK g : IsDec(t, 1, g) /\ xmlDecode(t) = g[1]
  BY <1>2, DecodeIs
<1>5. Len(s) \in Nat /\ 1 \in 1..(Len(s) + 1)
  BY LenProperties
<1>6. g[at[1]] = SubSeq(s, 1, Len(s))
  BY <1>2, <1>3, <1>4, <1>5, Decodes
<1>7. at[1] = 1
  BY <1>3 DEF Coded
<1>8. SubSeq(s, 1, Len(s)) = s
  BY SubSeqFull
<1> QED
  BY <1>1, <1>4, <1>6, <1>7, <1>8

\* The first token that begins with '<'
LEMMA FirstMarkup ==
  ASSUME NEW x, Len(x) \in Nat, NEW off \in Nat, NEW e \in off..Len(x), Markup(x[e]),
         \A q \in off..(e - 1) : ~Markup(x[q])
  PROVE  From(x, off, Markup) = e
<1> DEFINE X == {i \in off..Len(x) : Markup(x[i])}
<1>1. e \in X /\ X # {}
  OBVIOUS
<1>2. \A i \in X : i \in Int /\ e <= i
  <2>1. SUFFICES ASSUME NEW i \in off..Len(x), Markup(x[i]), ~(e <= i) PROVE FALSE
    OBVIOUS
  <2>2. i \in off..(e - 1)
    BY <2>1
  <2> QED
    BY <2>1, <2>2
<1>3. From(x, off, Markup) = Min(X)
  BY <1>1 DEF From
<1> HIDE DEF X
<1>4. Min(X) = e
  <2>1. \A i \in X : (\A j \in X : i <= j) => i = e
    BY <1>1, <1>2
  <2>2. \E i \in X : \A j \in X : i <= j
    BY <1>1, <1>2
  <2> QED
    BY <2>1, <2>2 DEF Min
<1> QED
  BY <1>3, <1>4

\* A sequence of some elements is one of more.
LEMMA SeqOfMore ==
  ASSUME NEW A, NEW B, A \subseteq B, NEW s \in Seq(A)
  PROVE  s \in Seq(B)
OBVIOUS

\* Where the last two of three parts of a text are
Placed(T, pre, t, rest, x) ==
  /\ x \in Seq(T) /\ Len(x) = (Len(pre) + Len(t)) + Len(rest)
  /\ \A q \in 1..Len(t) : x[Len(pre) + q] = t[q]
  /\ \A q \in 1..Len(rest) : x[(Len(pre) + Len(t)) + q] = rest[q]

\* They are behind each other.
LEMMA PartsOfText ==
  ASSUME NEW T, NEW pre \in Seq(T), NEW t \in Seq(T), NEW rest \in Seq(T),
         NEW x, x = (pre \o t) \o rest
  PROVE  Placed(T, pre, t, rest, x)
<1>1. PICK y : y = pre \o t
  OBVIOUS
<1>2. Joined(T, pre, t, y)
  BY <1>1, PieceBehind
<1>3. Joined(T, y, rest, x)
  BY <1>1, <1>2, PieceBehind DEF Joined
<1>4. ASSUME NEW q \in 1..Len(t) PROVE x[Len(pre) + q] = t[q]
  <2>1. Len(pre) + q \in 1..Len(y)
    BY <1>2 DEF Joined
  <2> QED
    BY <1>2, <1>3, <2>1 DEF Joined
<1>5. Len(y) = Len(pre) + Len(t)
  BY <1>2 DEF Joined
<1> QED
  BY <1>3, <1>4, <1>5 DEF Joined, Placed

\* A part is what is between its ends.
LEMMA PartOfText ==
  ASSUME NEW U, NEW x \in Seq(U), NEW t \in Seq(U), NEW p \in Nat, NEW m \in Nat, m = Len(t),
         p + m <= Len(x), \A q \in 1..m : x[p + q] = t[q]
  PROVE  SubSeq(x, p + 1, p + m) = t
<1>1. PICK y, a, b : y = SubSeq(x, a, b) /\ a = p + 1 /\ b = p + m
  OBVIOUS
<1>2. \A i \in a..b : x[i] \in U
  <2>1. \A i \in a..b : i \in 1..Len(x)
    BY <1>1
  <2> QED
    BY <2>1, ElementOfSeq
<1>3. a \in Int /\ b \in Int /\ b - a + 1 = m
  BY <1>1
<1>4. /\ y \in Seq(U) /\ Len(y) = IF a <= b THEN b - a + 1 ELSE 0
      /\ \A i \in 1..(b - a + 1) : y[i] = x[a + i - 1]
  BY <1>1, <1>2, <1>3, SubSeqProperties
<1>5. Len(y) = m
  BY <1>1, <1>3, <1>4
<1>6. ASSUME NEW i \in 1..m PROVE y[i] = t[i]
  <2>1. a + i - 1 = p + i
    BY <1>1
  <2> QED
    BY <1>3, <1>4, <2>1
<1>7. y = t
  BY <1>4, <1>5, <1>6, SeqEqual
<1> QED
  BY <1>1, <1>7

\* The contents of a string are read up to its end tag, wherever the string is in a text and
\* whatever follows it, and the end tag is found from the position the reader then has, which
\* is short of it by what the entities are longer than the characters they stand for
\* (stringFromXml, which moves the position by the length of the decoded text).
THEOREM StringValueIsRead ==
  ASSUME NEW S, NEW s \in Seq(S), NEW T, NEW pre \in Seq(T), NEW post \in Seq(T), NEW tag,
         NEW x, x = (pre \o xmlEncode(s)) \o (<<End(tag)>> \o post),
         NEW off, off = Len(pre) + 1
  PROVE  /\ stringFromXml(x, off) = [val |-> Str(s), next |-> off + Len(s)]
         /\ SkipEnd(tag, x, off + Len(s)) = off + Len(xmlEncode(s)) + 1
<1>1. PICK t, U, rest : t = xmlEncode(s) /\ U = (Chars(S) \cup T) \cup {End(tag)}
                        /\ rest = <<End(tag)>> \o post
  OBVIOUS
<1>2. t \in Seq(Chars(S)) /\ \E at : Coded(s, Len(s), t, at)
  BY <1>1, EncodeCodes
<1>3. PICK n, m, p : n = Len(s) /\ m = Len(t) /\ p = Len(pre)
  OBVIOUS
<1>4. n \in Nat /\ m \in Nat /\ p \in Nat /\ n <= m /\ \A q \in 1..m : ~Markup(t[q])
  BY <1>2, <1>3, LenProperties DEF Coded
<1>5. pre \in Seq(U) /\ t \in Seq(U) /\ post \in Seq(U)
  BY <1>1, <1>2, SeqOfMore
<1>6. rest \in Seq(U) /\ Len(rest) \in Nat /\ Len(rest) >= 1 /\ rest[1] = End(tag)
  <2>1. PICK e : e = End(tag)
    OBVIOUS
  <2>2. e \in U
    BY <1>1, <2>1
  <2>3. <<e>> \in Seq(U) /\ Len(<<e>>) = 1 /\ <<e>>[1] = e
    BY <2>2
  <2>4. Joined(U, <<e>>, post, rest)
    BY <1>1, <1>5, <2>1, <2>3, PieceBehind
  <2>5. 1 \in 1..Len(<<e>>)
    BY <2>3
  <2> QED
    BY <2>1, <2>3, <2>4, <2>5 DEF Joined
<1>7. /\ x \in Seq(U) /\ Len(x) = (p + m) + Len(rest)
      /\ \A q \in 1..m : x[p + q] = t[q]
      /\ \A q \in 1..Len(rest) : x[(p + m) + q] = rest[q]
  <2>1. x = (pre \o t) \o rest
    BY <1>1
  <2>2. Placed(U, pre, t, rest, x)
    BY <1>5, <1>6, <2>1, PartsOfText
  <2> QED
    BY <1>3, <2>2 DEF Placed
<1>8. PICK e : e = (p + m) + 1
  OBVIOUS
<1>9. /\ Len(x) \in Nat /\ off = p + 1 /\ off \in Nat /\ off + n \in Nat
      /\ e \in off..Len(x) /\ e \in (off + n)..Len(x) /\ e - 1 = p + m
  BY <1>3, <1>4, <1>6, <1>7, <1>8
<1>10. x[e] = End(tag) /\ Markup(x[e])
  <2>1. 1 \in 1..Len(rest)
    BY <1>6
  <2>2. x[e] = End(tag)
    BY <1>6, <1>7, <1>8, <2>1
  <2>3. End(tag)[1] = "end"
    BY DEF End
  <2>4. Markup(End(tag))
    BY <2>3 DEF Markup
  <2> QED
    BY <2>2, <2>4
<1>11. ASSUME NEW q \in off..(e - 1) PROVE ~Markup(x[q])
  <2>1. q - p \in 1..m /\ p + (q - p) = q
    BY <1>4, <1>9
  <2> QED
    BY <1>4, <1>7, <2>1
<1>12. From(x, off, Markup) = e
  BY <1>9, <1>10, <1>11, FirstMarkup
<1>13. From(x, off + n, Markup) = e
  <2>1. \A q \in (off + n)..(e - 1) : q \in off..(e - 1)
    BY <1>4, <1>9
  <2> QED
    BY <1>9, <1>10, <1>11, <2>1, FirstMarkup
<1>14. SubSeq(x, off, e - 1) = t
  <2>1. p + m <= Len(x) /\ m = Len(t)
    BY <1>3, <1>4, <1>6, <1>7
  <2>2. SubSeq(x, p + 1, p + m) = t
    BY <1>4, <1>5, <1>7, <2>1, PartOfText
  <2> QED
    BY <1>9, <2>2
<1>15. xmlDecode(t) = s
  BY <1>1, StringsAreReadBack
<1>16. stringFromXml(x, off) = [val |-> Str(s), next |-> off + Len(s)]
  <2>1. ~(e > Len(x))
    BY <1>9
  <2> QED
    BY <1>12, <1>14, <1>15, <2>1 DEF stringFromXml, StringRead
<1>17. nextTagIsEnd(tag, x, off + n) = e + 1
  <2>1. At(x, e) = End(tag)
    BY <1>9, <1>10 DEF At
  <2> QED
    BY <1>13, <2>1 DEF nextTagIsEnd, Behind
<1>18. SkipEnd(tag, x, off + n) = e + 1
  <2>1. PICK a : a = off + n
    OBVIOUS
  <2>2. a \in Nat /\ e + 1 \in Nat /\ a <= e + 1
    BY <1>9, <2>1
  <2>3. Max({a, e + 1}) = e + 1
    BY <2>2 DEF Max
  <2> QED
    BY <1>17, <2>1, <2>3 DEF SkipEnd
<1>19. e + 1 = off + m + 1
  BY <1>4, <1>8, <1>9
<1> QED
  BY <1>1, <1>3, <1>16, <1>18, <1>19
=============================================================================
