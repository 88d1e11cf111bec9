---------------------------- MODULE RpcTransport ----------------------------
(***************************************************************************)
(* Clients and the server over their sockets: the composition of RpcClient *)
(* and RpcServer, which share the variables of RpcSocket.                  *)
(***************************************************************************)
EXTENDS RpcServer, RpcClient

vars == <<sockVars, serverVars, clientVars>>

Init == SockInit /\ ServerInit /\ ClientInit

Server == \/ (ServerStep \/ ServerDies \/ ServerStarts) /\ UNCHANGED clientVars

Client1(c) == (Execute(c) \/ ClientEvent(c) \/ Timeout(c) \/ CloseClient(c))
              /\ UNCHANGED serverVars

\* Everybody waits.
Idle == (\A c \in Clients : ~inCall[c]) /\ UNCHANGED vars

Next == Server \/ (\E c \in Clients : Client1(c)) \/ Idle

Spec == Init /\ [][Next]_vars

\* Processes that run keep running; the kernel carries what was written.  Nobody
\* has to call, and the server need not be started again.
Fairness == /\ WF_vars(ServerStep /\ UNCHANGED clientVars)
            /\ \A c \in Clients : WF_vars(ClientEvent(c) /\ UNCHANGED serverVars)

FairSpec == Spec /\ Fairness

-----------------------------------------------------------------------------
(* Properties *)

\* Every variable keeps its type.
TypeOK ==
  /\ SockType
  /\ alive \in BOOLEAN
  /\ sources \in Seq([src : Source, mask : Waits]) /\ round \in Seq([src : Source, set : BOOLEAN])
  /\ conn \in [Conn -> Connection]
  /\ executed \in Seq(CallId \cup {NoCall}) /\ crashes \in Nat
  /\ client \in [Clients -> Client]
  /\ called \in [Clients -> 0..MaxCalls] /\ inCall \in [Clients -> BOOLEAN]
  /\ result \in [Clients -> Outcome]
  /\ timedOut \subseteq CallId /\ timeouts \in Nat

Times(id) == Cardinality({i \in DOMAIN executed : executed[i] = id})

\* An answer is the one to the call just made, whatever answers of earlier calls
\* were still on their way, and its method has been executed.
AnswerIsToTheCall ==
  [][\A c \in Clients : inCall[c] /\ ~inCall'[c] /\ result'[c].ok
       => result'[c].call = <<c, called[c]>> /\ Times(<<c, called[c]>>) > 0]_vars

\* The server never takes a mixture of two requests for a call.
RequestsWhole == \A i \in DOMAIN executed : executed[i] # NoCall

\* Without a crash, a timeout or HTTP/1.0 a call succeeds.
NoFailureWithoutCause ==
  [][\A c \in Clients \ OldHttp : inCall[c] /\ ~inCall'[c] /\ crashes = 0
         /\ <<c, called[c]>> \notin timedOut'
       => result'[c].ok]_vars

\* The server monitors every connection it has open, once, and no other, for what
\* the connection's state needs; none is forgotten and stays open.
EveryConnectionMonitored ==
  alive =>
    /\ \A i, j \in DOMAIN sources : sources[i].src = sources[j].src => i = j
    /\ \A k \in Conn : ends[k].server = "open" <=>
         \E i \in DOMAIN sources :
           sources[i] = [src |-> k, mask |-> IF conn[k].state = "WRITE_RESPONSE"
                                             THEN "write" ELSE "read"]

\* Every call returns, also when the server dies: the client never waits for ever
\* without having set a timeout.
CallReturns == \A c \in Clients : inCall[c] ~> ~inCall[c]

\* The composition implements RpcCalls.
Calls == INSTANCE RpcCalls WITH
           times <- [id \in CallId |-> Times(id)], deaths <- crashes

CallsImplemented == Calls!Spec
=============================================================================
