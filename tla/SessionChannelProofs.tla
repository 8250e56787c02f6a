------------------------ MODULE SessionChannelProofs ------------------------
(***************************************************************************)
(* Proofs of what the callers of Session rely on, for every Timeout and    *)
(* every number of requests: one report for each failure, and the promises *)
(* of RpcChannel without its liveness.                                     *)
(*                                                                         *)
(* IInv of SessionProofs is strengthened by two parts.                     *)
(*   SeenInv  : answers, also late ones and rests of them, are answers to  *)
(*     requests that the server has received.  It holds where WireInv says *)
(*     nothing any more, and is why the value of a call is never that of a *)
(*     failure.                                                            *)
(*   ReportInv: a request reports nothing before it ends.                  *)
(***************************************************************************)
EXTENDS SessionChannel, SessionProofs

WireSeen == \A i \in 1..Len(wire) : wire[i].id \in served

SeenInv ==
  /\ unanswered \subseteq served
  /\ WireSeen
  /\ pc = "read" /\ Completed("ok") => res.id \in served

ReportInv ==
  /\ pc \in {"new", "connect", "handshake"} => calls = 0
  /\ pc \in {"write", "read"} => reports = <<>> /\ ret = 0
  /\ OneReportPerRequest

FullInv == IInv /\ SeenInv /\ ReportInv

-----------------------------------------------------------------------------
(***************************************************************************)
(* What the server has received.                                           *)
(***************************************************************************)
\* A call that starts an operation has not read anything with it yet; one that
\* does not start to read leaves what was read alone.
LEMMA SeenThread ==
  IInv /\ SeenInv /\ (Calls \/ Returns \/ ShutdownReturns) => SeenInv'
<1> SUFFICES ASSUME IInv, SeenInv, Calls \/ Returns \/ ShutdownReturns PROVE SeenInv'
  OBVIOUS
<1>1. UNCHANGED <<unanswered, wire, served>>
  BY DEF Calls, Returns, ShutdownReturns, Gone, ResolveFails, ServerNameFails, Connect,
         Request, DumpThrows, Destroy, ConnectReturns, HandshakeReturns, WriteReturns,
         ReadReturns, net
<1>2. WireSeen'
  BY <1>1 DEF SeenInv, WireSeen
<1>3. pc' # "read" \/ (Left("write") /\ StartOperation("read"))
  BY DEF Calls, Returns, ShutdownReturns, Gone, ResolveFails, ServerNameFails, Connect,
         Request, DumpThrows, NewRequest, Destroy, ConnectReturns, HandshakeReturns,
         WriteReturns, ReadReturns, GiveUp, StartOperation
<1>4. ASSUME Left("write"), StartOperation("read") PROVE ~Completed("ok")'
  <2>1. TypeOK /\ LoopInv /\ ~Running /\ pc # "destroyed"
    BY <1>4 DEF IInv, TypeInv, Left, Running
  <2> QED
    BY <1>4, <2>1, StartCompleted DEF Loops
<1> QED
  BY <1>1, <1>2, <1>3, <1>4 DEF SeenInv

\* The handlers of the loop read nothing.
LEMMA SeenRunOne == IInv /\ SeenInv /\ RunOne => SeenInv'
<1> SUFFICES ASSUME IInv, SeenInv, RunOne PROVE SeenInv'
  OBVIOUS
<1>1. UNCHANGED <<pc, res, unanswered, wire, served>>
  BY DEF RunOne, net
<1>2. Completed("ok")' => Completed("ok")
  BY RunOneCompleted DEF IInv, TypeInv
<1>3. WireSeen'
  BY <1>1 DEF SeenInv, WireSeen
<1> QED
  BY <1>1, <1>2, <1>3 DEF SeenInv

\* Only the completion of a read reads, from the wire.
LEMMA SeenReactor == IInv /\ SeenInv /\ Reactor => SeenInv'
<1> SUFFICES ASSUME IInv, SeenInv, Reactor PROVE SeenInv'
  OBVIOUS
<1> USE DEF IInv, TypeInv
<1>1. CASE TimerFires
  <2>1. /\ UNCHANGED <<pc, ec, res, unanswered, wire, served>>
        /\ ready' = Append(ready, "wait_deadline")
    BY <1>1 DEF TimerFires, thread, net
  <2>2. "wait_deadline" \in Handlers /\ "wait_deadline" \notin {"ok"}
        /\ ready \in Seq(Handlers)
    BY DEF TypeOK, LoopTypes, Handlers, IoCodes
  <2>3. Has(ready', {"ok"}) <=> Has(ready, {"ok"})
    BY <2>1, <2>2, AppendHandler
  <2>4. Completed("ok")' <=> Completed("ok")
    BY <2>1, <2>3 DEF Completed, Queued, Has
  <2> QED
    BY <2>1, <2>4 DEF SeenInv, WireSeen
<1>2. CASE ConnectCompletes \/ HandshakeCompletes
  BY <1>2 DEF ConnectCompletes, HandshakeCompletes, Completes, net, SeenInv, WireSeen
<1>3. CASE WriteCompletes
  <2>1. pc' = "write" /\ UNCHANGED wire
    BY <1>3 DEF WriteCompletes, Completes
  <2>2. served \subseteq served' /\ unanswered' \subseteq served'
    BY <1>3 DEF WriteCompletes, SeenInv
  <2> QED
    BY <2>1, <2>2 DEF SeenInv, WireSeen
<1>4. CASE ReadCompletes
  <2>1. UNCHANGED <<unanswered, served>> /\ wire \in Seq(Messages)
    BY <1>4 DEF ReadCompletes, TypeOK, NetTypes
  <2>2. CASE wire = <<>> /\ UNCHANGED <<wire, res>> /\ Completes("read", "error")
    <3>1. ~Completed("ok")'
      BY <2>2, CompletesCompleted DEF IoCodes
    <3> QED
      BY <2>1, <2>2, <3>1 DEF SeenInv, WireSeen
  <2>3. ASSUME wire # <<>>, res' = Head(wire), NEW rest \in Rest(Head(wire)),
               wire' = rest \o Tail(wire)
        PROVE  SeenInv'
    <3>1. Head(wire).id \in served /\ Head(wire) \in Messages
      BY <2>1, <2>3 DEF SeenInv, WireSeen
    <3>2. rest = <<>> \/ \E m \in Messages : rest = <<m>> /\ m.id = Head(wire).id
      <4>1. CASE Head(wire).body = "interim"
        <5> DEFINE m == [Head(wire) EXCEPT !.body = "result"]
        <5>1. m \in Messages /\ m.id = Head(wire).id
          BY <3>1 DEF Messages, Bodies
        <5>2. rest \in {<<>>, <<m>>}
          BY <2>3, <4>1 DEF Rest
        <5> QED
          BY <5>1, <5>2
      <4>2. CASE Head(wire).body = "garbage"
        BY <2>3, <3>1, <4>2 DEF Rest
      <4>3. CASE Head(wire).body \notin {"interim", "garbage"}
        BY <2>3, <4>3 DEF Rest
      <4> QED
        BY <4>1, <4>2, <4>3
    <3>3. CASE rest = <<>>
      <4>1. wire' = Tail(wire)
        BY <2>1, <2>3, <3>3
      <4>2. WireSeen'
        BY <2>1, <2>3, <4>1 DEF SeenInv, WireSeen
      <4> QED
        BY <2>1, <2>3, <3>1, <4>2 DEF SeenInv
    <3>4. CASE rest # <<>>
      <4>1. PICK m \in Messages : rest = <<m>> /\ m.id = Head(wire).id
        BY <3>2, <3>4
      <4>2. /\ Len(wire') = Len(wire)
            /\ wire'[1] = m
            /\ \A i \in 2..Len(wire) : wire'[i] = wire[i]
        BY <2>1, <2>3, <4>1
      <4>3. WireSeen'
        BY <2>1, <3>1, <4>1, <4>2 DEF SeenInv, WireSeen
      <4> QED
        BY <2>1, <2>3, <3>1, <4>3 DEF SeenInv
    <3> QED
      BY <3>3, <3>4
  <2> QED
    BY <1>4, <2>2, <2>3 DEF ReadCompletes
<1> QED
  BY <1>1, <1>2, <1>3, <1>4 DEF Reactor

\* The server answers what it has received.
LEMMA SeenEnvironment == IInv /\ SeenInv /\ Environment => SeenInv'
<1> SUFFICES ASSUME IInv, SeenInv, Environment PROVE SeenInv'
  OBVIOUS
<1>0. wire \in Seq(Messages)
  BY DEF IInv, TypeInv, TypeOK, NetTypes
<1>1. UNCHANGED <<pc, ec, res, ready, served>>
  BY DEF Environment, ServerAnswers, PeerDrops, Tick, thread, loop, net
<1>2. Completed("ok")' <=> Completed("ok")
  BY <1>1 DEF Completed, Queued
<1>3. CASE ServerAnswers
  <2>1. PICK i \in unanswered, b \in Bodies :
          wire' = Append(wire, [id |-> i, body |-> b]) /\ unanswered' = unanswered \ {i}
    BY <1>3 DEF ServerAnswers
  <2>2. WireSeen'
    BY <1>0, <1>1, <2>1 DEF SeenInv, WireSeen
  <2> QED
    BY <1>1, <1>2, <2>1, <2>2 DEF SeenInv
<1>4. CASE PeerDrops \/ Tick
  <2>1. unanswered' \subseteq unanswered /\ (wire' = wire \/ wire' = <<>>)
    BY <1>4 DEF PeerDrops, Tick, net
  <2>2. WireSeen'
    BY <1>1, <2>1 DEF SeenInv, WireSeen
  <2> QED
    BY <1>1, <1>2, <2>1, <2>2 DEF SeenInv
<1> QED
  BY <1>3, <1>4 DEF Environment

\* Every step keeps what is known of the answers.
LEMMA SeenNext == IInv /\ SeenInv /\ [Next]_vars => SeenInv'
<1> SUFFICES ASSUME IInv, SeenInv, [Next]_vars PROVE SeenInv'
  OBVIOUS
<1>1. CASE UNCHANGED vars
  BY <1>1 DEF vars, thread, loop, net, SeenInv, WireSeen, Completed, Queued
<1> QED
  BY <1>1, SeenThread, SeenRunOne, SeenReactor, SeenEnvironment DEF Next

-----------------------------------------------------------------------------
(***************************************************************************)
(* What is reported.                                                       *)
(***************************************************************************)
\* An answer that has been read and is no value is reported once, by the RPC client.
LEMMA AnswerReported ==
  ASSUME NEW b \in Bodies, client \in {"rpc", "http"}, ~IsValue(b)
  PROVE  /\ AnswerReport(b) \in {<<>>, <<"FAIL">>, <<"RESPONSE">>}
         /\ client = "rpc" => AnswerReport(b) # <<>>
  BY DEF AnswerReport, IsValue, Bodies

\* The thread reports a failure when the request ends, and only then.
LEMMA ReportThread ==
  IInv /\ SeenInv /\ ReportInv /\ (Calls \/ Returns \/ ShutdownReturns) => ReportInv'
<1> SUFFICES ASSUME IInv, SeenInv, ReportInv, Calls \/ Returns \/ ShutdownReturns
             PROVE ReportInv'
  OBVIOUS
<1>0. calls \in Nat /\ client \in {"rpc", "http"} /\ res \in Messages
  BY MaxRequestsIsNat DEF IInv, TypeInv, TypeOK, ThreadTypes
<1>1. CASE ResolveFails \/ ServerNameFails \/ Connect \/ Destroy \/ ShutdownReturns
  <2>1. UNCHANGED calls /\ (pc' = "connect" => pc = "new")
        /\ pc' \in {"failed", "connect", "destroyed", "shutdown"}
    BY <1>1 DEF ResolveFails, ServerNameFails, Connect, Destroy, ShutdownReturns, Gone,
                GiveUp, StartOperation
  <2> QED
    BY <2>1 DEF ReportInv, OneReportPerRequest
<1>2. CASE Request
  BY <1>2 DEF Request, NewRequest, StartOperation, ReportInv, OneReportPerRequest
<1>3. CASE DumpThrows
  <2>1. pc' = "idle" /\ reports' = <<"FAIL">> /\ ret' = 0
    BY <1>3 DEF DumpThrows, NewRequest
  <2> QED
    BY <2>1 DEF ReportInv, OneReportPerRequest
<1>4. CASE ConnectReturns \/ HandshakeReturns
  <2>1. pc \in {"connect", "handshake"} /\ pc' \in {"failed", "idle", "handshake"}
        /\ UNCHANGED calls
    BY <1>4 DEF ConnectReturns, HandshakeReturns, Left, GiveUp, StartOperation
  <2>2. calls' = 0
    BY <2>1 DEF ReportInv
  <2> QED
    BY <1>0, <2>1, <2>2 DEF ReportInv, OneReportPerRequest
\* A failure before the answer is read.
<1>5. ASSUME pc \in {"write", "read"}, GiveUp("TIMEOUT", "idle"), UNCHANGED <<calls, ret, client>>
      PROVE  ReportInv'
  <2>0. reports = <<>> /\ reports' = Append(reports, "TIMEOUT") /\ pc' = "idle" /\ ret' = 0
    BY <1>5 DEF GiveUp, ReportInv
  <2>1. Len(reports') = 1 /\ reports' # <<>>
    BY <2>0
  <2> QED
    BY <2>0, <2>1 DEF ReportInv, OneReportPerRequest
<1>6. CASE WriteReturns
  <2>1. CASE GiveUp("TIMEOUT", "idle")
    BY <1>5, <1>6, <2>1 DEF WriteReturns, Left, config
  <2>2. CASE StartOperation("read") /\ UNCHANGED reports
    BY <1>6, <2>2 DEF WriteReturns, Left, StartOperation, ReportInv, OneReportPerRequest
  <2> QED
    BY <1>6, <2>1, <2>2 DEF WriteReturns
<1>7. CASE ReadReturns
  <2>0. pc = "read" /\ reports = <<>> /\ ret = 0 /\ UNCHANGED <<calls, client>>
    BY <1>7 DEF ReadReturns, Left, ReportInv, config
  <2>1. CASE GiveUp("TIMEOUT", "idle") /\ UNCHANGED ret
    BY <1>5, <2>0, <2>1
  <2>2. CASE Succeeded /\ pc' = "idle" /\ IsValue(res.body) /\ ret' = res.id /\ UNCHANGED reports
    <3>1. res.id \in served /\ served \subseteq Requests
      BY <2>0, <2>2 DEF SeenInv, Completed, Succeeded, IInv, TypeInv, TypeOK, NetTypes
    <3>2. ret' # 0
      BY <2>2, <3>1, MaxRequestsIsNat DEF Requests
    <3>3. reports' = <<>> /\ pc' = "idle"
      BY <2>0, <2>2
    <3> QED
      BY <3>2, <3>3 DEF ReportInv, OneReportPerRequest
  <2>3. CASE /\ Succeeded /\ pc' = "idle" /\ ~IsValue(res.body) /\ UNCHANGED ret
             /\ reports' = reports \o AnswerReport(res.body)
    <3>1. res.body \in Bodies
      BY <1>0 DEF Messages
    <3>2. /\ AnswerReport(res.body) \in {<<>>, <<"FAIL">>, <<"RESPONSE">>}
          /\ client = "rpc" => AnswerReport(res.body) # <<>>
      BY <1>0, <2>3, <3>1, AnswerReported
    <3>3. reports' = AnswerReport(res.body)
      BY <2>0, <2>3, <3>2
    <3>4. Len(reports') <= 1
      <4>1. reports' \in {<<>>, <<"FAIL">>, <<"RESPONSE">>}
        BY <3>2, <3>3
      <4>2. Len(<<>>) <= 1 /\ Len(<<"FAIL">>) <= 1 /\ Len(<<"RESPONSE">>) <= 1
        OBVIOUS
      <4> QED
        BY <4>1, <4>2, Zenon
    <3>5. (client' = "rpc" => reports' # <<>>) /\ ret' = 0
      BY <2>0, <2>3, <3>2, <3>3
    <3> QED
      BY <2>3, <3>4, <3>5 DEF ReportInv, OneReportPerRequest
  <2> QED
    BY <1>7, <2>1, <2>2, <2>3 DEF ReadReturns
<1> QED
  BY <1>1, <1>2, <1>3, <1>4, <1>6, <1>7 DEF Calls, Returns

\* Every step keeps what is known of the reports; what is not the thread reports
\* nothing.
LEMMA ReportNext == IInv /\ SeenInv /\ ReportInv /\ [Next]_vars => ReportInv'
<1> SUFFICES ASSUME IInv, SeenInv, ReportInv, [Next]_vars PROVE ReportInv'
  OBVIOUS
<1>1. ASSUME UNCHANGED <<pc, calls, ret, reports, client>> PROVE ReportInv'
  BY <1>1 DEF ReportInv, OneReportPerRequest
<1>2. CASE RunOne \/ Reactor \/ Environment \/ UNCHANGED vars
  <2>1. UNCHANGED <<pc, calls, ret, reports, client>>
    BY <1>2 DEF RunOne, Reactor, TimerFires, ConnectCompletes, HandshakeCompletes,
                WriteCompletes, ReadCompletes, Completes, Environment, ServerAnswers,
                PeerDrops, Tick, vars, thread, config
  <2> QED
    BY <1>1, <2>1
<1> QED
  BY <1>2, ReportThread DEF Next

LEMMA FullInvInit == Init => FullInv
<1> SUFFICES ASSUME Init PROVE FullInv
  OBVIOUS
<1>1. SeenInv
  BY DEF Init, SeenInv, WireSeen
<1>2. ReportInv
  BY DEF Init, ReportInv, OneReportPerRequest
<1> QED
  BY <1>1, <1>2, IInvInit DEF FullInv

\* FullInv holds in every state of a session.
THEOREM FullInvariance == Spec => []FullInv
<1>1. FullInv /\ [Next]_vars => FullInv'
  BY IInvNext, SeenNext, ReportNext DEF FullInv
<1> QED
  BY <1>1, FullInvInit, PTL DEF Spec

\* request() of the RPC client calls exactly one of its handlers, once, for a
\* request without a result and none for one with a result; get() never calls
\* two.  Whatever a timer, a peer or a rest on the connection did.
THEOREM OneReport == Spec => []OneReportPerRequest
<1>1. FullInv => OneReportPerRequest
  BY DEF FullInv, ReportInv
<1> QED
  BY <1>1, FullInvariance, PTL

-----------------------------------------------------------------------------
(***************************************************************************)
(* Session implements RpcChannel.                                          *)
(***************************************************************************)
\* What the thread does on its way from call to call is what a channel does.
LEMMA ThreadStep ==
  FullInv /\ (Calls \/ Returns \/ ShutdownReturns) => [Channel!Next]_(Channel!vars)
<1> SUFFICES ASSUME FullInv, Calls \/ Returns \/ ShutdownReturns
             PROVE  [Channel!Next]_(Channel!vars)
  OBVIOUS
<1> USE DEF ChannelState, ChannelBroken
<1>1. CASE ResolveFails \/ ServerNameFails
  <2>1. Channel!OpenFails
    BY <1>1 DEF ResolveFails, ServerNameFails, GiveUp, net, Channel!OpenFails
  <2> QED
    BY <2>1 DEF Channel!Next
<1>2. CASE Connect
  <2>1. Channel!Open
    BY <1>2 DEF Connect, StartOperation, net, Channel!Open
  <2> QED
    BY <2>1 DEF Channel!Next
<1>3. CASE Request
  <2>1. Channel!Call
    BY <1>3 DEF Request, NewRequest, StartOperation, net, Channel!Call
  <2> QED
    BY <2>1 DEF Channel!Next
<1>4. CASE DumpThrows
  <2>1. Channel!CallFails
    BY <1>4 DEF DumpThrows, NewRequest, loop, net, Channel!CallFails
  <2> QED
    BY <2>1 DEF Channel!Next
<1>5. CASE Destroy
  <2>1. CASE pc = "failed"
    BY <1>5, <2>1 DEF Destroy, Gone, net, Channel!vars
  <2>2. CASE pc = "idle"
    <3>1. Channel!Close
      BY <1>5, <2>2 DEF Destroy, Gone, net, Channel!Close
    <3> QED
      BY <3>1 DEF Channel!Next
  <2> QED
    BY <1>5, <2>1, <2>2 DEF Destroy
<1>6. CASE ShutdownReturns
  BY <1>6 DEF ShutdownReturns, Gone, net, Channel!vars
<1>7. CASE ConnectReturns \/ HandshakeReturns
  <2>0. pc \in {"connect", "handshake"} /\ UNCHANGED <<socket, calls, ret, served, leftover>>
    BY <1>7 DEF ConnectReturns, HandshakeReturns, Left, GiveUp, loop, net
  <2>1. CASE pc' = "failed"
    <3>1. Channel!OpenFails
      BY <2>0, <2>1 DEF Channel!OpenFails
    <3> QED
      BY <3>1 DEF Channel!Next
  <2>2. CASE pc' = "idle"
    <3>1. socket = "open"
      BY <1>7, <2>2 DEF ConnectReturns, HandshakeReturns, GiveUp, StartOperation, Succeeded
    <3>2. Channel!Opened
      BY <2>0, <2>2, <3>1 DEF Channel!Opened
    <3> QED
      BY <3>2 DEF Channel!Next
  <2>3. CASE pc' = "handshake"
    BY <2>0, <2>3 DEF Channel!vars
  <2> QED
    BY <1>7, <2>1, <2>2, <2>3 DEF ConnectReturns, HandshakeReturns, GiveUp, StartOperation
\* A call that gives up, or an answer that is no value.
<1>8. ASSUME pc \in {"write", "read"}, pc' = "idle", UNCHANGED <<socket, calls, ret, served, leftover>>
      PROVE  [Channel!Next]_(Channel!vars)
  <2>1. Channel!Fail
    BY <1>8 DEF Channel!Fail
  <2> QED
    BY <2>1 DEF Channel!Next
<1>9. CASE WriteReturns
  <2>1. pc = "write" /\ pc' \in {"idle", "read"} /\ UNCHANGED <<socket, calls, ret, served, leftover>>
    BY <1>9 DEF WriteReturns, Left, GiveUp, StartOperation, loop, net
  <2>2. CASE pc' = "read"
    BY <2>1, <2>2 DEF Channel!vars
  <2> QED
    BY <1>8, <2>1, <2>2
<1>10. CASE ReadReturns
  <2>1. pc = "read" /\ pc' = "idle" /\ UNCHANGED <<socket, calls, served, leftover>>
    BY <1>10 DEF ReadReturns, Left, GiveUp, loop, net
  <2>2. CASE UNCHANGED ret
    BY <1>8, <2>1, <2>2
  <2>3. CASE Succeeded /\ ret' = res.id
    <3>1. Completed("ok")
      BY <2>3 DEF Completed, Succeeded
    <3>2. res.id \in served
      BY <2>1, <3>1 DEF FullInv, SeenInv
    <3>3. ~leftover => res.id = calls
      BY <2>1, <3>1 DEF FullInv, IInv, WireInv, InStep, OwnAnswer
    <3>4. Channel!Answer
      BY <2>1, <2>3, <3>2, <3>3 DEF Channel!Answer, Succeeded
    <3> QED
      BY <3>4 DEF Channel!Next
  <2> QED
    BY <1>10, <2>2, <2>3 DEF ReadReturns
<1> QED
  BY <1>1, <1>2, <1>3, <1>4, <1>5, <1>6, <1>7, <1>9, <1>10 DEF Calls, Returns

\* What the loop does is not seen from above, but for a deadline that breaks the
\* channel, a request that is received and a rest that is left.
LEMMA LoopStep ==
  FullInv /\ (RunOne \/ Reactor \/ Environment) => [Channel!Next]_(Channel!vars)
<1> SUFFICES ASSUME FullInv, RunOne \/ Reactor \/ Environment
             PROVE  [Channel!Next]_(Channel!vars)
  OBVIOUS
<1> USE DEF ChannelState, ChannelBroken
<1>1. ASSUME UNCHANGED <<pc, calls, served, ret, leftover, socket>>
      PROVE  UNCHANGED Channel!vars
  BY <1>1 DEF Channel!vars
<1>2. CASE RunOne
  <2>1. UNCHANGED <<pc, calls, served, ret, leftover>> /\ pc \in Loops /\ socket' \in {socket, "closed"}
    BY <1>2 DEF RunOne, Running, InLoop, WaitDeadline, CompletionHandler, CloseSocket, net
  <2>2. CASE socket' = "closed"
    <3>1. Channel!Break
      BY <2>1, <2>2 DEF Channel!Break, Loops
    <3> QED
      BY <3>1 DEF Channel!Next
  <2> QED
    BY <1>1, <2>1, <2>2
<1>3. CASE TimerFires \/ ConnectCompletes \/ HandshakeCompletes \/ Environment
  <2>1. UNCHANGED <<pc, calls, served, ret, leftover, socket>>
    BY <1>3 DEF TimerFires, ConnectCompletes, HandshakeCompletes, Completes, Environment,
                ServerAnswers, PeerDrops, Tick, thread, loop, net
  <2> QED
    BY <1>1, <2>1
\* The operation that completes is on a socket that is open.
<1>4. ASSUME NEW s, NEW c, Completes(s, c)
      PROVE  pc = s /\ socket = "open" /\ UNCHANGED <<pc, calls, ret, socket>>
  BY <1>4, LoopInvOf DEF FullInv, IInv, TypeInv, Completes
<1>5. CASE WriteCompletes
  <2>1. pc = "write" /\ socket = "open" /\ UNCHANGED <<pc, calls, ret, socket, leftover>>
    BY <1>4, <1>5 DEF WriteCompletes
  <2>2. CASE served' = served \cup {calls} /\ calls \notin served
    <3>1. Channel!Serve
      BY <2>1, <2>2 DEF Channel!Serve
    <3> QED
      BY <3>1 DEF Channel!Next
  <2>3. CASE served' = served
    BY <1>1, <2>1, <2>3
  <2> QED
    BY <1>5, <2>2, <2>3 DEF WriteCompletes
<1>6. CASE ReadCompletes
  <2>1. /\ pc = "read" /\ socket = "open" /\ UNCHANGED <<pc, calls, ret, socket, served>>
        /\ leftover' = leftover \/ leftover' = TRUE
    BY <1>4, <1>6 DEF ReadCompletes, FullInv, IInv, TypeInv, TypeOK, NetTypes
  <2>2. CASE leftover' = TRUE
    <3>1. Channel!LeaveRest
      BY <2>1, <2>2 DEF Channel!LeaveRest
    <3> QED
      BY <3>1 DEF Channel!Next
  <2>3. CASE leftover' = leftover
    BY <1>1, <2>1, <2>3
  <2> QED
    BY <2>1, <2>2, <2>3
<1> QED
  BY <1>2, <1>3, <1>5, <1>6 DEF Reactor

\* Every behaviour of a session is one of a channel, but for its liveness: each
\* step is a step of RpcChannel or leaves it as it is.
THEOREM SessionIsAChannel == Spec => Channel!Init /\ [][Channel!Next]_(Channel!vars)
<1>1. Init => Channel!Init
  BY DEF Init, ChannelState, ChannelBroken, Channel!Init
<1>2. FullInv /\ [Next]_vars => [Channel!Next]_(Channel!vars)
  <2> SUFFICES ASSUME FullInv, [Next]_vars PROVE [Channel!Next]_(Channel!vars)
    OBVIOUS
  <2>1. CASE UNCHANGED vars
    BY <2>1 DEF vars, thread, loop, net, Channel!vars, ChannelState, ChannelBroken
  <2> QED
    BY <2>1, ThreadStep, LoopStep DEF Next
<1> QED
  BY <1>1, <1>2, FullInvariance, PTL DEF Spec

=============================================================================
