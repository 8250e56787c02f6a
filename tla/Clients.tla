------------------------------- MODULE Clients -------------------------------
(***************************************************************************)
(* The client objects of a program, rpc::Client and http::Client, and the  *)
(* sessions behind them.  A client is connected, copied, assigned and      *)
(* destroyed; all the copies share one session, which is destroyed with    *)
(* the last of them.  A request runs to its end before anything else       *)
(* happens, except that a call that fails calls a handler, and the handler *)
(* may do with the clients what it likes: connect, copy, make requests, but *)
(* not destroy or overwrite the client whose call it is called from.       *)
(*                                                                         *)
(* Every session is used here through the operations of RpcChannel.        *)
(***************************************************************************)
EXTENDS Naturals, Sequences

CONSTANTS
  Names,         \* the variables of the program that may hold a client
  MaxSessions,   \* bound: how many sessions are made
  MaxRequests,   \* bound: how many requests are made on each
  MaxDepth,      \* bound: how many calls are open, each in a handler of the next
  Watched        \* the session whose use is compared with that of a channel

Sessions == 1..MaxSessions

ASSUME MaxSessionsIsNat == MaxSessions \in Nat
ASSUME MaxRequestsIsNat == MaxRequests \in Nat
ASSUME WatchedIsASession == Watched \in Sessions

None == MaxSessions + 1   \* no client
Null == 0                 \* a client without a session, as no client is

VARIABLES
  held,      \* for each name the session of its client, or None
  stack,     \* calls that have not returned, the running one last
  channel    \* for each session the state of its channel

vars == <<held, stack, channel>>

Channel == INSTANCE RpcChannel WITH
  state    <- channel[Watched].state,
  broken   <- channel[Watched].broken,
  calls    <- channel[Watched].calls,
  served   <- channel[Watched].served,
  ret      <- channel[Watched].ret,
  leftover <- channel[Watched].leftover

Init ==
  /\ held = [c \in Names |-> None]
  /\ stack = <<>>
  /\ channel = [s \in Sessions |->
       [state |-> "new", broken |-> FALSE, calls |-> 0, served |-> {}, ret |-> 0, leftover |-> FALSE]]

-----------------------------------------------------------------------------
Top == stack[Len(stack)]
Popped == SubSeq(stack, 1, Len(stack) - 1)

\* The program runs: no call is open, or the handler of the last one.
Runs == stack # <<>> => Top.in = "handler"

\* The last call is inside session s, which is being opened or used.
Inside(s, st) ==
  stack # <<>> /\ Top.in = "session" /\ Top.session = s /\ channel[s].state = st

Closed(s) == [channel EXCEPT ![s].state = "closed", ![s].broken = FALSE]

Calls(c, s, where) ==
  /\ Len(stack) < MaxDepth
  /\ stack' = Append(stack, [client |-> c, session |-> s, in |-> where])

Returns == stack' = Popped
CallsHandler == stack' = [stack EXCEPT ![Len(stack)].in = "handler"]

HandlerReturns ==
  /\ stack # <<>> /\ Top.in = "handler"
  /\ Returns
  /\ UNCHANGED <<held, channel>>

(***************************************************************************)
(* Connect.  The new session belongs to a local client until it is copied  *)
(* into the optional that is returned.                                     *)
(***************************************************************************)
Connect(s) ==
  /\ Runs
  /\ channel[s].state = "new"
  /\ \A t \in Sessions : t < s => channel[t].state # "new"
  /\ \/ Calls("local", s, "session") /\ channel' = [channel EXCEPT ![s].state = "opening"]
     \/ Calls("local", s, "handler") /\ channel' = [channel EXCEPT ![s].state = "closed"]
  /\ UNCHANGED held

Connected(s, c) ==
  /\ Inside(s, "opening") /\ ~channel[s].broken
  /\ held[c] = None
  /\ held' = [held EXCEPT ![c] = s]
  /\ channel' = [channel EXCEPT ![s].state = "ready"]
  /\ Returns

ConnectFails(s) ==
  /\ Inside(s, "opening")
  /\ channel' = Closed(s)
  /\ CallsHandler
  /\ UNCHANGED held

(***************************************************************************)
(* Copies.  std::move of a member of a constant client copies it.          *)
(***************************************************************************)
\* A session that is in no client any more, once one was destroyed or
\* overwritten, is closed.
ReleaseAlways(s) ==                                            \* seeded fault
  channel' = Closed(s)

Release(s) ==
  channel' = IF \A c \in Names : held'[c] # s THEN Closed(s) ELSE channel

\* c is the client of a call that has not returned.
IsCalled(c) == \E i \in 1..Len(stack) : stack[i].client = c

CopyMoves(c, d) ==                                             \* seeded fault
  /\ Runs
  /\ held[c] # None /\ held[d] = None
  /\ held' = [held EXCEPT ![d] = held[c], ![c] = Null]
  /\ UNCHANGED <<stack, channel>>

Copy(c, d) ==
  /\ Runs
  /\ held[c] # None /\ held[d] = None
  /\ held' = [held EXCEPT ![d] = held[c]]
  /\ UNCHANGED <<stack, channel>>

Assign(c, d) ==
  /\ Runs
  /\ held[c] # None /\ held[d] # None /\ ~IsCalled(d)
  /\ held' = [held EXCEPT ![d] = held[c]]
  /\ Release(held[d])
  /\ UNCHANGED stack

Destroy(c) ==
  /\ Runs
  /\ held[c] # None /\ ~IsCalled(c)
  /\ held' = [held EXCEPT ![c] = None]
  /\ Release(held[c])
  /\ UNCHANGED stack

(***************************************************************************)
(* Requests.                                                               *)
(***************************************************************************)
\* request or get, which may fail before they have sent anything.
Request(c) ==
  LET s == held[c]
      Counted == [channel EXCEPT ![s].calls = @ + 1, ![s].ret = 0]
  IN
  /\ Runs
  /\ s # None
  /\ channel[s].calls < MaxRequests
  /\ \/ Calls(c, s, "session") /\ channel' = [Counted EXCEPT ![s].state = "busy"]
     \/ Calls(c, s, "handler") /\ channel' = Counted
  /\ UNCHANGED held

Served(s) ==
  /\ Inside(s, "busy") /\ ~channel[s].broken
  /\ channel[s].calls \notin channel[s].served
  /\ channel' = [channel EXCEPT ![s].served = @ \cup {channel[s].calls}]
  /\ UNCHANGED <<held, stack>>

Answered(s) ==
  LET c == channel[s] IN
  /\ Inside(s, "busy") /\ ~c.broken
  /\ \E r \in IF c.leftover THEN c.served ELSE c.served \cap {c.calls} :
       channel' = [channel EXCEPT ![s].ret = r, ![s].state = "ready"]
  /\ Returns
  /\ UNCHANGED held

\* The handler is called from the middle of the request.
FailsInside(s) ==                                              \* seeded fault
  /\ Inside(s, "busy")
  /\ CallsHandler
  /\ UNCHANGED <<held, channel>>

\* Only get() may fail without a handler, for a status other than 200.
Failed(s) ==
  /\ Inside(s, "busy")
  /\ channel' = [channel EXCEPT ![s].state = "ready"]
  /\ CallsHandler \/ Returns
  /\ UNCHANGED held

\* What the peer or the deadline does to a session in use.
Breaks(s) ==
  /\ Inside(s, "opening") \/ Inside(s, "busy")
  /\ ~channel[s].broken
  /\ channel' = [channel EXCEPT ![s].broken = TRUE]
  /\ UNCHANGED <<held, stack>>

LeavesRest(s) ==
  /\ Inside(s, "busy") /\ ~channel[s].broken /\ ~channel[s].leftover
  /\ channel' = [channel EXCEPT ![s].leftover = TRUE]
  /\ UNCHANGED <<held, stack>>

-----------------------------------------------------------------------------
EndOfCall(s) ==
  (\E c \in Names : Connected(s, c)) \/ ConnectFails(s) \/ Answered(s) \/ Failed(s)

Next ==
  \/ HandlerReturns
  \/ \E c, d \in Names : Copy(c, d) \/ Assign(c, d)
  \/ \E c \in Names : Destroy(c) \/ Request(c)
  \/ \E s \in Sessions :
       Connect(s) \/ EndOfCall(s) \/ Served(s) \/ Breaks(s) \/ LeavesRest(s)

\* A session lets every call return.
Spec == Init /\ [][Next]_vars /\ \A s \in Sessions : WF_vars(EndOfCall(s))

-----------------------------------------------------------------------------
(***************************************************************************)
(* Properties.                                                             *)
(***************************************************************************)
\* Every variable has its type; that of held says that no client, also none that
\* was copied from, is without a session.
TypeOK ==
  /\ held \in [Names -> Sessions \cup {None}]
  /\ stack \in Seq([client : Names \cup {"local"}, session : Sessions, in : {"session", "handler"}])
  /\ channel \in [Sessions ->
       [state : {"new", "opening", "ready", "busy", "closed"}, broken : BOOLEAN,
        calls : 0..MaxRequests, served : SUBSET (1..MaxRequests), ret : 0..MaxRequests,
        leftover : BOOLEAN]]

\* A session lives exactly as long as a client has it: no copy, also one that was
\* copied from or overwritten, is left with a closed session or with none, and no
\* connection stays open that nobody has.
LivesWhileHeld ==
  /\ \A c \in Names : held[c] # None => channel[held[c]].state \in {"ready", "busy"}
  /\ \A s \in Sessions : channel[s].state \in {"ready", "busy"} => \E c \in Names : held[c] = s

\* However clients are copied, overwritten, destroyed, and used from inside each
\* other's handlers, a session is used as a channel may be: one request at a time,
\* none before it is open or after it was closed, and every call on it returns.
UsedAsAChannel == Channel!Spec

\* A handler may make requests with every client there is, the one it is called for
\* included: wherever the program runs, however deep in handlers of handlers, no
\* client has a session that is in the middle of a request.
ReadyWhileProgramRuns ==
  Runs => \A c \in Names : held[c] # None => channel[held[c]].state = "ready"

=============================================================================
