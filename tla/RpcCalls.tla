------------------------------ MODULE RpcCalls ------------------------------
(***************************************************************************)
(* What XML-RPC promises to a client: a call is executed by the server     *)
(* some time after it was made, at most once more than the server has died *)
(* since the beginning; a call that returns returns its own answer, once   *)
(* its method has been executed, or none.                                  *)
(***************************************************************************)
EXTENDS Integers

CONSTANTS
  Clients, MaxCalls,
  Failed        \* what a call returns that got no answer

VARIABLES
  called,       \* the number of calls each client has made
  inCall,       \* the client waits for its latest call
  result,       \* what the latest call of each client that has returned returned
  times,        \* how often each call was executed
  deaths        \* how often the server has died

vars == <<called, inCall, result, times, deaths>>

Init ==
  /\ called = [c \in Clients |-> 0]
  /\ inCall = [c \in Clients |-> FALSE]
  /\ result = [c \in Clients |-> Failed]
  /\ times = [id \in Clients \X (1..MaxCalls) |-> 0]
  /\ deaths = 0

\* A call is made; it may fail at once.
Call(c) ==
  /\ ~inCall[c] /\ called[c] < MaxCalls
  /\ called' = [called EXCEPT ![c] = @ + 1]
  /\ \/ inCall' = [inCall EXCEPT ![c] = TRUE] /\ UNCHANGED result
     \/ result' = [result EXCEPT ![c] = Failed] /\ UNCHANGED inCall
  /\ UNCHANGED <<times, deaths>>

\* The method of a call that was made is executed, perhaps after the client has
\* given up waiting.
Serve(c, n) ==
  /\ n \in 1..called[c] /\ times[<<c, n>>] <= deaths
  /\ times' = [times EXCEPT ![<<c, n>>] = @ + 1]
  /\ UNCHANGED <<called, inCall, result, deaths>>

\* What a call may return: its answer only once its method has been executed.
Results(c) ==
  {Failed} \cup {r \in {[ok |-> TRUE, call |-> <<c, called[c]>>]} :
                    times[<<c, called[c]>>] > 0}

Return(c) ==
  /\ inCall[c]
  /\ inCall' = [inCall EXCEPT ![c] = FALSE]
  /\ \E r \in Results(c) : result' = [result EXCEPT ![c] = r]
  /\ UNCHANGED <<called, times, deaths>>

Die == deaths' = deaths + 1 /\ UNCHANGED <<called, inCall, result, times>>

Next == \/ \E c \in Clients : Call(c) \/ Return(c)
        \/ \E c \in Clients, n \in 1..MaxCalls : Serve(c, n)
        \/ Die

Spec == Init /\ [][Next]_vars
=============================================================================
