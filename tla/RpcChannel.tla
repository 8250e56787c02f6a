----------------------------- MODULE RpcChannel -----------------------------
(***************************************************************************)
(* What a session promises to the code above it (rpc::Client and the       *)
(* command-line programs), with the event loop, the timer and the socket   *)
(* left out.  A channel is opened once, carries one request at a time, and *)
(* is given up.  The promises:                                             *)
(*   - the server receives a request at most once, and only while the      *)
(*     client is inside the call that makes it (it is received once it has *)
(*     been handed to the network, however long that takes to deliver it); *)
(*   - a call that returns an answer returns the answer to its own request, *)
(*     as long as no answer was left on the channel in part;               *)
(*   - a channel that broke never carries another answer;                  *)
(*   - every call returns.                                                 *)
(* Not promised: that a request whose call failed was not received.        *)
(***************************************************************************)
EXTENDS Naturals

CONSTANT MaxRequests   \* bound: how many requests are made

VARIABLES
  state,    \* "new", "opening", "ready", "busy" or "closed"
  broken,   \* in use, but no answer will come over this channel any more
  calls,    \* requests made; also the name of the latest one
  served,   \* requests the server has received
  ret,      \* the answer the latest request returned; 0 when it failed
  leftover  \* the rest of an answer has been left on the channel

vars == <<state, broken, calls, served, ret, leftover>>

Init ==
  /\ state = "new"
  /\ broken = FALSE
  /\ calls = 0
  /\ served = {}
  /\ ret = 0
  /\ leftover = FALSE

Open ==
  /\ state = "new"
  /\ state' = "opening"
  /\ UNCHANGED <<broken, calls, served, ret, leftover>>

\* Opening succeeds only while the channel is not broken.
Opened ==
  /\ state = "opening"
  /\ ~broken
  /\ state' = "ready"
  /\ UNCHANGED <<broken, calls, served, ret, leftover>>

OpenFails ==
  /\ state \in {"new", "opening"}
  /\ state' = "closed"
  /\ broken' = FALSE
  /\ UNCHANGED <<calls, served, ret, leftover>>

Call ==
  /\ state = "ready"
  /\ calls < MaxRequests
  /\ state' = "busy"
  /\ calls' = calls + 1
  /\ ret' = 0
  /\ UNCHANGED <<broken, served, leftover>>

\* A call may fail before it does anything.
CallFails ==
  /\ state = "ready"
  /\ calls < MaxRequests
  /\ calls' = calls + 1
  /\ ret' = 0
  /\ UNCHANGED <<state, broken, served, leftover>>

\* The server receives the request of the running call, for the first time.
Serve ==
  /\ state = "busy"
  /\ ~broken
  /\ calls \notin served
  /\ served' = served \cup {calls}
  /\ UNCHANGED <<state, broken, calls, ret, leftover>>

\* The answer of the server to the running call is returned; behind a rest of
\* an answer, the answer to any request there was.
Answer ==
  /\ state = "busy"
  /\ ~broken
  /\ ret' \in IF leftover THEN served ELSE served \cap {calls}
  /\ state' = "ready"
  /\ UNCHANGED <<broken, calls, served, leftover>>

\* The answer to the running call is taken in part only.
LeaveRest ==
  /\ state = "busy"
  /\ ~broken
  /\ leftover' = TRUE
  /\ UNCHANGED <<state, broken, calls, served, ret>>

\* The running call returns without an answer.
Fail ==
  /\ state = "busy"
  /\ state' = "ready"
  /\ UNCHANGED <<broken, calls, served, ret, leftover>>

\* The channel breaks, for good, while it is in use.
Break ==
  /\ state \in {"opening", "busy"}
  /\ broken' = TRUE
  /\ UNCHANGED <<state, calls, served, ret, leftover>>

Close ==
  /\ state = "ready"
  /\ state' = "closed"
  /\ broken' = FALSE
  /\ UNCHANGED <<calls, served, ret, leftover>>

Return == Opened \/ (OpenFails /\ state = "opening") \/ Answer \/ Fail

Next ==
  \/ Open \/ Opened \/ OpenFails
  \/ Call \/ CallFails \/ Serve \/ Answer \/ Fail
  \/ LeaveRest \/ Break \/ Close

Spec == Init /\ [][Next]_vars /\ WF_vars(Return)

=============================================================================
