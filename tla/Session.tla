------------------------------- MODULE Session -------------------------------
(***************************************************************************)
(* One connection of the client: milecsa::http::Session, with the request  *)
(* functions that drive it, rpc::detail::RpcSession::request and           *)
(* http::Client::get.                                                      *)
(*                                                                         *)
(* Session offers blocking calls (connect, write, read) on top of an       *)
(* asynchronous event loop.  Every call restarts one deadline timer, starts *)
(* one asynchronous operation whose completion handler stores an error     *)
(* code in a local variable of the call, and runs the io_context one       *)
(* handler at a time until that variable is no longer would_block.  The    *)
(* handler of the timer, wait_deadline, closes the socket when the timer   *)
(* has expired and otherwise only waits again.  There is one application   *)
(* thread; what races are the completions of the operation, the timer, the *)
(* peer and the passing of time.                                           *)
(*                                                                         *)
(* A definition marked "seeded fault" belongs to no behaviour of the       *)
(* program: it stands before the definition it is a faulty version of, and *)
(* shows which property would notice that fault.                           *)
(***************************************************************************)
EXTENDS Naturals, Sequences

CONSTANTS
  Timeout,      \* the timeout of the session, in ticks of the clock (time_t timeout)
  MaxRequests   \* bound: how many requests the application makes

ASSUME TimeoutIsNat == Timeout \in Nat
ASSUME MaxRequestsIsNat == MaxRequests \in Nat

VARIABLES
  (* Configuration, fixed by the constructor. *)
  use_ssl,      \* the protocol of the Url is https
  client,       \* who owns the session: "rpc" (rpc::Client) or "http" (http::Client)
  (* The application thread, in the call it is making. *)
  pc,           \* which call, or which part of it
  ec,           \* the local error code the completion handler stores into
  calls,        \* number of requests made so far; it also names the latest one
  res,          \* the local response message the read fills in
  ret,          \* the answer the latest request returned, by request; 0 is nullopt
  reports,      \* codes the latest call gave to its handlers, in order
  (* The event loop. *)
  ready,        \* handlers queued in the io_context, oldest first
  waiting,      \* deadline.async_wait is pending in the timer queue
  deadline,     \* ticks until deadline.expires_at(), or PosInfin
  pending,      \* the asynchronous operation of the call has not completed
  socket,       \* the socket is_open()
  (* The other end and the network. *)
  peer,         \* the peer still keeps its side of the connection
  unanswered,   \* requests the server received and has not answered
  wire,         \* messages sent to the client and not yet read, oldest first
  (* History, for the properties only. *)
  elapsed,      \* ticks since the timer was last started, at most Timeout
  served,       \* requests the server has received
  leftover      \* a read has left the rest of an answer on the connection

config == <<use_ssl, client>>
thread == <<pc, ec, calls, res, ret, reports>>
loop   == <<ready, waiting, deadline, pending, socket>>
net    == <<peer, unanswered, wire, served, leftover>>
vars   == <<config, thread, loop, net, elapsed>>

(***************************************************************************)
(* Values.                                                                 *)
(***************************************************************************)
\* boost::posix_time::pos_infin, an expiry that no tick brings nearer.
PosInfin == Timeout + 1

\* How a completion handler can be called: success, an error of the network
\* or of the socket, or operation_aborted because the socket was closed.
IoCodes  == {"ok", "error", "aborted"}
Handlers == IoCodes \cup {"wait_deadline"}

\* The stages that run the event loop.
Loops == {"connect", "handshake", "write", "read"}
Stages == Loops \cup {"new", "failed", "idle", "shutdown", "destroyed"}

Requests == 1..MaxRequests

\* What the server may answer: status 200 with a JSON result; status 200 with
\* JSON but no result (or a null one); status 200 with a body that is not JSON;
\* another status; an interim response (1xx) and then the result; bytes that are
\* not an HTTP message, or one that is longer than the parser takes.
Bodies == {"result", "noresult", "notjson", "refused", "interim", "garbage"}
Messages == [id : 0..MaxRequests, body : Bodies]

\* The default-constructed response message: nothing has been read into it.
NoMessage == [id |-> 0, body |-> "refused"]

Reports == {"TIMEOUT", "FAIL", "NOT_FOUND", "RESPONSE"}

InLoop == pc \in Loops

\* The thread is inside ioc.run_one(), in the loop of stage s.
Running == InLoop /\ ec = "would_block"

(***************************************************************************)
(* The constructor: prepare() makes a socket that is not open, then calls  *)
(* wait_deadline, which finds the timer not set, sets it to pos_infin and  *)
(* starts the first wait.                                                  *)
(***************************************************************************)
Init ==
  /\ use_ssl \in BOOLEAN
  /\ client \in {"rpc", "http"}
  /\ pc = "new"
  /\ ec = "ok"
  /\ calls = 0
  /\ res = NoMessage
  /\ ret = 0
  /\ reports = <<>>
  /\ ready = <<>>
  /\ waiting = TRUE
  /\ deadline = PosInfin
  /\ pending = FALSE
  /\ socket = "closed"
  /\ peer = "up"
  /\ unanswered = {}
  /\ wire = <<>>
  /\ elapsed = 0
  /\ served = {}
  /\ leftover = FALSE

(***************************************************************************)
(* Pieces of the calls.                                                    *)
(***************************************************************************)
\* deadline.expires_from_now(tm): a pending wait is cancelled, so that its
\* handler is queued; a handler that is queued already cannot be recalled.
ExpiresWithoutCancel ==                                        \* seeded fault
  /\ deadline' = Timeout
  /\ elapsed' = 0
  /\ UNCHANGED waiting

RestartsIfSet ==                                               \* seeded fault
  /\ deadline' = IF deadline = PosInfin THEN PosInfin ELSE Timeout
  /\ elapsed' = 0
  /\ waiting' = FALSE

ExpiresFromNow ==
  /\ deadline' = Timeout
  /\ elapsed' = 0
  /\ waiting' = FALSE

Woken == IF waiting THEN Append(ready, "wait_deadline") ELSE ready

\* Set the deadline, start the asynchronous operation of stage s on socket'
\* and enter the loop.  On a socket that is not open the operation completes
\* at once: its handler is queued with bad_descriptor.
StartOperation(s) ==
  /\ ExpiresFromNow
  /\ pc' = s
  /\ ec' = "would_block"
  /\ pending' = (socket' = "open")
  /\ ready' = IF socket' = "open" THEN Woken ELSE Append(Woken, "error")

\* What ends the loop of stage s.
LeftWhenClosed(s) == pc = s /\ (ec # "would_block" \/ socket = "closed")   \* seeded fault

Left(s) == pc = s /\ ec # "would_block"

\* The test after the loop, ec || !check_socket(), finds nothing wrong: the
\* operation may have completed just as the deadline closed the socket.
SucceededUnchecked == ec = "ok"                                \* seeded fault

Succeeded == ec = "ok" /\ socket = "open"

\* The error handler is called with code, and the call gives up.
GiveUp(code, next) ==
  /\ reports' = Append(reports, code)
  /\ pc' = next
  /\ UNCHANGED <<ec, loop, elapsed>>

(***************************************************************************)
(* Session::connect.                                                       *)
(***************************************************************************)
\* The host name does not resolve (the resolver throws), or resolves to nothing.
ResolveFails ==
  /\ pc = "new"
  /\ \E code \in {"FAIL", "NOT_FOUND"} : GiveUp(code, "failed")
  /\ UNCHANGED <<config, calls, res, ret, net>>

\* The server name cannot be set on the TLS stream; the timer runs already.
ServerNameFails ==
  /\ pc = "new"
  /\ use_ssl
  /\ ExpiresFromNow
  /\ ready' = Woken
  /\ reports' = Append(reports, "FAIL")
  /\ pc' = "failed"
  /\ UNCHANGED <<config, ec, calls, res, ret, pending, socket, net>>

\* async_connect opens the socket and tries the resolved endpoints in turn.
Connect ==
  /\ pc = "new"
  /\ socket' = "open"
  /\ StartOperation("connect")
  /\ UNCHANGED <<config, calls, res, ret, reports, net>>

\* After the loop of async_connect; https goes on with the TLS handshake,
\* which has a timeout of its own.
ConnectReturns ==
  /\ Left("connect")
  /\ \/ /\ ~Succeeded
        /\ GiveUp("TIMEOUT", "failed")
     \/ /\ Succeeded /\ use_ssl
        /\ UNCHANGED <<socket, reports>>
        /\ StartOperation("handshake")
     \/ /\ Succeeded /\ ~use_ssl
        /\ pc' = "idle"
        /\ UNCHANGED <<ec, reports, loop, elapsed>>
  /\ UNCHANGED <<config, calls, res, ret, net>>

HandshakeReturns ==
  /\ Left("handshake")
  /\ \/ /\ ~Succeeded
        /\ GiveUp("TIMEOUT", "failed")
     \/ /\ Succeeded
        /\ pc' = "idle"
        /\ UNCHANGED <<ec, reports, loop, elapsed>>
  /\ UNCHANGED <<config, calls, res, ret, net>>

(***************************************************************************)
(* RpcSession::request and http::Client::get: write, read, classify.       *)
(***************************************************************************)
NewRequest ==
  /\ pc = "idle"
  /\ calls < MaxRequests
  /\ calls' = calls + 1
  /\ res' = NoMessage
  /\ ret' = 0

\* The request is built and written.
Request ==
  /\ NewRequest
  /\ reports' = <<>>
  /\ UNCHANGED socket
  /\ StartOperation("write")
  /\ UNCHANGED <<config, net>>

\* body.dump() throws (a parameter is not UTF-8): nothing is written.
DumpThrows ==
  /\ client = "rpc"
  /\ NewRequest
  /\ reports' = <<"FAIL">>
  /\ UNCHANGED <<config, pc, ec, loop, net, elapsed>>

\* After the loop of write; if it succeeded, read starts with a fresh timer.
WriteReturns ==
  /\ Left("write")
  /\ \/ /\ ~Succeeded
        /\ GiveUp("TIMEOUT", "idle")
     \/ /\ Succeeded
        /\ UNCHANGED <<socket, reports>>
        /\ StartOperation("read")
  /\ UNCHANGED <<config, calls, res, ret, net>>

\* Which answers become the value of the call.  get() takes any body of a
\* status 200; request() wants JSON with a result in it.
IsValue(body) ==
  \/ body = "result"
  \/ client = "http" /\ body \in {"noresult", "notjson"}

\* The handler called for an answer that does not: the parse error of request()
\* goes to the error handler, any other answer to response_fail_handler.  get()
\* returns nullopt without a word.
AnswerReportSilent(body) ==                                    \* seeded fault
  IF body = "refused" THEN <<"RESPONSE">> ELSE <<>>

AnswerReportRaw(body) == <<body>>                              \* seeded fault

AnswerReport(body) ==
  IF client = "http" THEN <<>>
  ELSE IF body = "notjson" THEN <<"FAIL">>
  ELSE <<"RESPONSE">>

\* After the loop of read; the answer, if there is one, is classified.  Nothing
\* compares the id in the answer with the id of the request.
ReadReturns ==
  /\ Left("read")
  /\ \/ /\ ~Succeeded
        /\ GiveUp("TIMEOUT", "idle")
        /\ UNCHANGED ret
     \/ /\ Succeeded
        /\ pc' = "idle"
        /\ IF IsValue(res.body)
             THEN ret' = res.id /\ UNCHANGED reports
             ELSE reports' = reports \o AnswerReport(res.body) /\ UNCHANGED ret
        /\ UNCHANGED <<ec, loop, elapsed>>
  /\ UNCHANGED <<config, calls, res, net>>

(***************************************************************************)
(* ~Session, run when the last copy of the client goes away.  An https     *)
(* session that is still connected says goodbye with a blocking            *)
(* stream->shutdown(), which waits for the peer without any deadline.  The *)
(* io_context is destroyed with its queued handlers, which never run.      *)
(***************************************************************************)
Gone ==
  /\ pc' = "destroyed"
  /\ socket' = "closed"
  /\ ready' = <<>>
  /\ waiting' = FALSE
  /\ UNCHANGED <<config, ec, calls, res, ret, reports, deadline, pending, net, elapsed>>

Destroy ==
  \/ /\ \/ pc = "failed"
        \/ pc = "idle" /\ ~(use_ssl /\ socket = "open")
     /\ Gone
  \/ /\ pc = "idle" /\ use_ssl /\ socket = "open"
     /\ pc' = "shutdown"
     /\ UNCHANGED <<config, ec, calls, res, ret, reports, loop, net, elapsed>>

ShutdownReturns == pc = "shutdown" /\ Gone

(***************************************************************************)
(* The handlers that run_one() runs, oldest first.                         *)
(***************************************************************************)
\* The test of wait_deadline: deadline.expires_at() <= now().
ExpiredAlways == TRUE                                          \* seeded fault

Expired == deadline = 0

\* What wait_deadline does to the socket of an operation that took too long.
CancelOnly == UNCHANGED socket                                 \* seeded fault

CloseSocket == socket' = "closed"

\* deadline.async_wait, at the end of wait_deadline.
WaitNoMore == waiting' = FALSE                                 \* seeded fault

WaitAgain == waiting' = TRUE

\* There is no deadline any more: deadline.expires_at(pos_infin).
LeaveExpired == UNCHANGED deadline                             \* seeded fault

Disarm == deadline' = PosInfin

\* Closing the socket completes the pending operation with operation_aborted.
WaitDeadline ==
  /\ IF Expired
       THEN /\ CloseSocket
            /\ Disarm
            /\ pending' = FALSE
            /\ ready' = IF pending THEN Append(Tail(ready), "aborted") ELSE Tail(ready)
       ELSE /\ ready' = Tail(ready)
            /\ UNCHANGED <<socket, deadline, pending>>
  /\ WaitAgain
  /\ UNCHANGED ec

\* The completion handler of the operation stores its error code.
CompletionHandler ==
  /\ ec' = Head(ready)
  /\ ready' = Tail(ready)
  /\ UNCHANGED <<waiting, deadline, pending, socket>>

RunOne ==
  /\ Running
  /\ ready # <<>>
  /\ \/ Head(ready) = "wait_deadline" /\ WaitDeadline
     \/ Head(ready) \in IoCodes /\ CompletionHandler
  /\ UNCHANGED <<config, pc, calls, res, ret, reports, net, elapsed>>

(***************************************************************************)
(* The reactor, which run_one() polls: it queues the handler of an expired *)
(* timer and the handler of an operation that has completed.               *)
(***************************************************************************)
TimerFires ==
  /\ Running
  /\ waiting
  /\ deadline = 0
  /\ waiting' = FALSE
  /\ ready' = Append(ready, "wait_deadline")
  /\ UNCHANGED <<config, thread, deadline, pending, socket, net, elapsed>>

\* The operation of stage s completes with code c.
Completes(s, c) ==
  /\ Running
  /\ pc = s
  /\ pending
  /\ pending' = FALSE
  /\ ready' = Append(ready, c)
  /\ UNCHANGED <<config, pc, ec, calls, ret, reports, waiting, deadline, socket, elapsed>>

ConnectCompletes ==
  /\ \E c \in {"ok", "error"} : Completes("connect", c)
  /\ UNCHANGED <<res, net>>

HandshakeCompletes ==
  /\ \/ peer = "up" /\ Completes("handshake", "ok")
     \/ Completes("handshake", "error")
  /\ UNCHANGED <<res, net>>

\* All bytes of the request are handed over; a peer that is gone may be
\* noticed now or only by the read.
WriteCompletes ==
  /\ \/ /\ peer = "up"
        /\ Completes("write", "ok")
        /\ unanswered' = unanswered \cup {calls}
        /\ served' = served \cup {calls}
     \/ /\ peer = "gone"
        /\ \E c \in {"ok", "error"} : Completes("write", c)
        /\ UNCHANGED <<unanswered, served>>
  /\ UNCHANGED <<res, peer, wire, leftover>>

\* What a read may leave on the connection of message m.  It takes an interim
\* response for the answer, and gives up in the middle of what it cannot parse;
\* what follows is there for the next read, unless it came along with the rest
\* and is dropped with the buffer, a local variable of read.
Rest(m) ==
  {<<>>} \cup CASE m.body = "interim" -> {<<[m EXCEPT !.body = "result"]>>}
              [] m.body = "garbage" -> {<<m>>}
              [] OTHER              -> {}

\* The next message is read, or there is none and there will be none.
ReadCompletes ==
  /\ \/ /\ wire # <<>>
        /\ Completes("read", IF Head(wire).body = "garbage" THEN "error" ELSE "ok")
        /\ res' = Head(wire)
        /\ \E rest \in Rest(Head(wire)) :
              /\ wire' = rest \o Tail(wire)
              /\ leftover' = (leftover \/ rest # <<>>)
     \/ /\ wire = <<>>
        /\ peer = "gone"
        /\ Completes("read", "error")
        /\ UNCHANGED <<res, wire, leftover>>
  /\ UNCHANGED <<peer, unanswered, served>>

(***************************************************************************)
(* The environment.                                                        *)
(***************************************************************************)
\* The server answers a request it received, once, whenever it likes.
ServerAnswers ==
  /\ peer = "up"
  /\ socket = "open"
  /\ \E i \in unanswered, b \in Bodies :
        /\ wire' = Append(wire, [id |-> i, body |-> b])
        /\ unanswered' = unanswered \ {i}
  /\ UNCHANGED <<config, thread, loop, peer, served, leftover, elapsed>>

\* The peer closes or resets the connection, or the network loses it; messages
\* that were under way may still arrive.
PeerDrops ==
  /\ peer = "up"
  /\ socket = "open"
  /\ pc \in {"handshake", "idle", "write", "read"}
  /\ peer' = "gone"
  /\ unanswered' = {}
  /\ wire' \in {wire, <<>>}
  /\ UNCHANGED <<config, thread, loop, served, leftover, elapsed>>

\* Time passes, also while nobody runs the event loop.
Tick ==
  /\ pc # "destroyed"
  /\ elapsed < Timeout
  /\ elapsed' = elapsed + 1
  /\ deadline' = IF deadline \in 1..Timeout THEN deadline - 1 ELSE deadline
  /\ UNCHANGED <<config, thread, ready, waiting, pending, socket, net>>

Calls == ResolveFails \/ ServerNameFails \/ Connect \/ Request \/ DumpThrows \/ Destroy
Returns == ConnectReturns \/ HandshakeReturns \/ WriteReturns \/ ReadReturns
Reactor == TimerFires \/ ConnectCompletes \/ HandshakeCompletes \/ WriteCompletes \/ ReadCompletes
Environment == ServerAnswers \/ PeerDrops \/ Tick

Next == Calls \/ Returns \/ RunOne \/ ShutdownReturns \/ Reactor \/ Environment

\* The thread goes on running, the reactor reports an expired timer, and time
\* passes.  Nothing is assumed of the peer, the network or the application.
Fairness ==
  /\ WF_vars(RunOne)
  /\ WF_vars(Returns)
  /\ WF_vars(TimerFires)
  /\ WF_vars(Tick)

Spec == Init /\ [][Next]_vars /\ Fairness

-----------------------------------------------------------------------------
(***************************************************************************)
(* Properties.                                                             *)
(***************************************************************************)
ThreadTypes ==
  /\ pc \in Stages
  /\ ec \in IoCodes \cup {"would_block"}
  /\ calls \in 0..MaxRequests
  /\ res \in Messages
  /\ ret \in 0..MaxRequests
  /\ reports \in Seq(Reports)

LoopTypes ==
  /\ ready \in Seq(Handlers)
  /\ waiting \in BOOLEAN
  /\ deadline \in 0..PosInfin
  /\ pending \in BOOLEAN
  /\ socket \in {"open", "closed"}
  /\ elapsed \in 0..Timeout

NetTypes ==
  /\ peer \in {"up", "gone"}
  /\ unanswered \in SUBSET Requests
  /\ wire \in Seq(Messages)
  /\ served \in SUBSET Requests
  /\ leftover \in BOOLEAN

\* Every variable has its type.
TypeOK ==
  /\ use_ssl \in BOOLEAN
  /\ client \in {"rpc", "http"}
  /\ ThreadTypes
  /\ LoopTypes
  /\ NetTypes

\* A handler of the set H is queued; at most one handler of H is queued.
Queued(H) == \E i \in 1..Len(ready) : ready[i] \in H
Once(H) == \A i, j \in 1..Len(ready) : ready[i] \in H /\ ready[j] \in H => i = j

\* The io_context never runs out of work and never closes the socket twice for
\* one deadline: exactly one wait of the timer exists, pending or queued, until
\* the session is destroyed.  Without it run_one() returns at once forever
\* (no wait) or handlers pile up with every call (two).
OneDeadlineWait ==
  pc # "destroyed" =>
    /\ Once({"wait_deadline"})
    /\ waiting <=> ~Queued({"wait_deadline"})

\* The completion handlers capture the local variable ec of their call by
\* reference: none is outstanding, neither in the reactor nor in the queue,
\* once that call has returned, and never two during a call.
NoDanglingHandler ==
  /\ ~InLoop => ~pending /\ ~Queued(IoCodes)
  /\ Once(IoCodes)
  /\ pending => ~Queued(IoCodes) /\ Running

\* A request that returns an answer returns the server's answer to that very
\* request, although no id is compared: a late answer to a request that timed
\* out can never be read by a later one.  (A rest that a read has left behind
\* can: from then on answers may belong to earlier requests.)
AnswerIsForThisRequest ==
  pc = "idle" /\ ret # 0 /\ ~leftover => ret = calls /\ calls \in served

\* A request of the RPC client that gives no result has called exactly one of
\* its two handlers, exactly once; one that gives a result has called none.
\* (http::Client::get may be silent: it must never call twice.)
OneReportPerRequest ==
  pc = "idle" /\ calls > 0 =>
    /\ Len(reports) <= 1
    /\ reports # <<>> => ret = 0
    /\ client = "rpc" /\ ret = 0 => reports # <<>>

\* The deadline never cuts an operation short: when wait_deadline closes the
\* socket, the operation that is running has had the whole timeout for itself,
\* whatever was left queued or expired by the operations before it.
NoEarlyTimeout ==
  [][InLoop /\ socket = "open" /\ socket' = "closed" => elapsed = Timeout]_vars

\* Every blocking call returns, even if the peer never says another word.
EveryCallReturns == InLoop ~> ~InLoop

\* A call that waits has something that will end its wait, whatever the peer
\* does: the completion of its operation is queued, or the operation is pending
\* under a deadline that has been set and whose expiry will be noticed.
NeverWaitsInVain ==
  Running =>
    \/ Queued(IoCodes)
    \/ pending /\ deadline # PosInfin /\ (waiting \/ Queued({"wait_deadline"}))

\* How often wait_deadline can still be queued or run before the next operation.
TimerStepsLeft ==
  IF Queued({"wait_deadline"})
    THEN IF deadline \in 1..Timeout THEN 3 ELSE 1
    ELSE IF deadline = PosInfin THEN 0 ELSE 2

\* The operation has to complete, and its handler to be run.
OperationStepsLeft ==
  IF pending THEN 2 ELSE IF Queued(IoCodes) THEN 1 ELSE 0

\* A loop takes so many steps at most, the ticks and its own return included.
LoopSteps == Timeout + 6

\* The steps that a call can still take: of this loop and of the one after it.
StepsLeft ==
  IF InLoop
    THEN (IF pc \in {"connect", "write"} THEN LoopSteps ELSE 0)
         + (Timeout - elapsed) + TimerStepsLeft + OperationStepsLeft + 1
    ELSE 0

\* No call waits busily: each step that the thread, the event loop or the clock
\* takes during a call uses up one of a number of steps that was fixed when the
\* call began, twice LoopSteps at most.  A timer that has expired is reported
\* once, and a stale handler of wait_deadline is run once.
NoBusyWait ==
  [][InLoop => /\ StepsLeft' \in 0..StepsLeft
               /\ ~UNCHANGED <<thread, loop, elapsed>> => StepsLeft' < StepsLeft]_vars

=============================================================================
