--------------------------- MODULE SessionProofs ----------------------------
(***************************************************************************)
(* Proofs about Session, for every Timeout and every number of requests.   *)
(*                                                                         *)
(* The inductive invariant IInv has three parts besides the types.         *)
(*   LoopInv : there is one wait of the timer, and the completion of an    *)
(*     operation is in one place at most: the reactor or the queue.        *)
(*   ClockInv: the timer, unless it is off, and the time since the last    *)
(*     operation began add up to the timeout.                              *)
(*   WireInv : until a read leaves a rest of an answer behind, what is     *)
(*     under way on a connection that is still open is about the latest    *)
(*     request, and nothing is under way between calls.                    *)
(* WireInv is what the absence of an id check rests on; it is inductive    *)
(* only because the deadline closes the socket.  With IInv, Armed is       *)
(* inductive (a call that waits has set its deadline), and StepsLeft goes  *)
(* down with every step of a loop.                                         *)
(***************************************************************************)
EXTENDS Session, TLAPS

\* A request is written and its answer read only after it has been numbered.
Numbered == pc \in {"write", "read"} => calls > 0

TypeInv == TypeOK /\ Numbered

\* The completion handler of the operation has been queued or run with code c.
Completed(c) == ec = c \/ Queued({c})

LoopInv ==
  /\ OneDeadlineWait
  /\ Once(IoCodes)
  /\ pending => Running /\ socket = "open" /\ ~Queued(IoCodes)
  /\ Queued(IoCodes) => Running

ClockInv == deadline = PosInfin \/ deadline + elapsed = Timeout

\* Nothing is under way; at most the latest request or its answer is.
Quiet == unanswered = {} /\ wire = <<>>

LatestOnly ==
  /\ unanswered \subseteq {calls}
  /\ wire # <<>> => Len(wire) = 1 /\ wire[1].id = calls /\ unanswered = {}
  /\ ~Quiet => calls \in served

\* Between calls, before the request is written and after its answer is read,
\* nothing is under way; no handler has been told that the socket is closed.
OpenWire ==
  socket = "open" =>
    /\ pc \in {"connect", "handshake", "idle"} => Quiet
    /\ pc \in {"write", "read"} => LatestOnly
    /\ pc = "write" /\ (pending \/ Completed("error")) => Quiet
    /\ pc = "read" /\ ~pending => Quiet
    /\ InLoop => ~Completed("aborted")

\* The message that was read, and the value that is returned, are the answer to
\* the latest request.
OwnAnswer ==
  /\ pc = "read" /\ Completed("ok") => res.id = calls /\ calls \in served
  /\ pc = "new" \/ InLoop => ret = 0
  /\ pc = "idle" /\ ret # 0 => ret = calls /\ calls \in served

InStep ==
  /\ OpenWire
  /\ OwnAnswer
  /\ pc = "new" => socket = "closed" /\ Quiet
  /\ peer = "gone" => unanswered = {}

\* Client and server are in step until a read leaves the rest of an answer behind.
WireInv == ~leftover => InStep

IInv == TypeInv /\ LoopInv /\ ClockInv /\ WireInv

InStepInv == TypeInv /\ LoopInv /\ InStep

-----------------------------------------------------------------------------
(***************************************************************************)
(* Types.                                                                  *)
(***************************************************************************)
\* The constructor gives every variable its type.
LEMMA TypeInit == Init => TypeInv
<1> USE TimeoutIsNat, MaxRequestsIsNat
<1> SUFFICES ASSUME Init PROVE TypeOK /\ Numbered
  BY DEF TypeInv
<1>1. Numbered
  BY DEF Init, Numbered
<1>2. ThreadTypes
  <2>1. res \in Messages
    BY DEF Init, Messages, NoMessage, Bodies
  <2>2. reports \in Seq(Reports)
    BY DEF Init
  <2> QED
    BY <2>1, <2>2 DEF Init, ThreadTypes, Stages, IoCodes
<1>3. LoopTypes
  <2>1. ready \in Seq(Handlers)
    BY DEF Init
  <2>2. deadline \in 0..PosInfin /\ elapsed \in 0..Timeout
    BY DEF Init, PosInfin
  <2>3. waiting \in BOOLEAN /\ pending \in BOOLEAN
    BY DEF Init
  <2> QED
    BY <2>1, <2>2, <2>3 DEF Init, LoopTypes
<1>4. NetTypes
  <2>1. wire \in Seq(Messages)
    BY DEF Init
  <2> QED
    BY <2>1 DEF Init, NetTypes
<1> QED
  BY <1>1, <1>2, <1>3, <1>4 DEF Init, TypeOK

\* What a step leaves alone keeps its type.
LEMMA KeepsTypes ==
  ASSUME TypeOK
  PROVE  /\ UNCHANGED config => use_ssl' \in BOOLEAN /\ client' \in {"rpc", "http"}
         /\ UNCHANGED thread => ThreadTypes'
         /\ UNCHANGED <<loop, elapsed>> => LoopTypes'
         /\ UNCHANGED net => NetTypes'
  BY DEF TypeOK, ThreadTypes, LoopTypes, NetTypes, config, thread, loop, net

\* StartOperation keeps the types of what it assigns.
LEMMA StartTypes ==
  ASSUME TypeOK, NEW s \in Loops, StartOperation(s), socket' \in {"open", "closed"}
  PROVE  LoopTypes' /\ pc' \in Stages /\ ec' \in IoCodes \cup {"would_block"}
<1>1. pc' \in Stages /\ ec' \in IoCodes \cup {"would_block"}
  BY DEF StartOperation, Stages
<1>2. Woken \in Seq(Handlers)
  BY DEF Woken, TypeOK, LoopTypes, Handlers
<1>3. ready' \in Seq(Handlers)
  BY <1>2 DEF StartOperation, Handlers, IoCodes
<1> QED
  <2>1. waiting' \in BOOLEAN /\ pending' \in BOOLEAN
    BY DEF StartOperation, ExpiresFromNow
  <2>2. deadline' \in 0..PosInfin /\ elapsed' \in 0..Timeout
    BY TimeoutIsNat DEF StartOperation, ExpiresFromNow, PosInfin
  <2> QED
    BY <1>1, <1>3, <2>1, <2>2 DEF LoopTypes

\* A call that gives up keeps the types of the thread and of the loop.
LEMMA GiveUpTypes ==
  ASSUME TypeOK, NEW code \in Reports, NEW next \in Stages, GiveUp(code, next),
         UNCHANGED <<calls, res, ret>>
  PROVE  ThreadTypes' /\ LoopTypes'
<1>1. ThreadTypes'
  BY DEF GiveUp, TypeOK, ThreadTypes
<1> QED
  BY <1>1, KeepsTypes DEF GiveUp

\* A call that starts or returns: what the thread does to its own variables.
LEMMA NewRequestTypes ==
  ASSUME TypeOK, NewRequest
  PROVE  calls' \in 0..MaxRequests /\ res' \in Messages /\ ret' \in 0..MaxRequests
  BY MaxRequestsIsNat
  DEF NewRequest, TypeOK, ThreadTypes, NoMessage, Messages, Bodies

\* What a read leaves behind is again a sequence of messages.
LEMMA RestTypes ==
  ASSUME NEW m \in Messages
  PROVE  \A rest \in Rest(m) : rest \in Seq(Messages)
<1>1. m \in Messages /\ [m EXCEPT !.body = "result"] \in Messages
  BY DEF Messages, Bodies
<1>2. <<>> \in Seq(Messages) /\ <<m>> \in Seq(Messages)
      /\ <<[m EXCEPT !.body = "result"]>> \in Seq(Messages)
  BY <1>1
<1> QED
  BY <1>2 DEF Rest

\* The thread reads and writes only for a request it has numbered.
LEMMA NumberedNext == TypeInv /\ [Next]_vars => Numbered'
<1> USE MaxRequestsIsNat
<1> SUFFICES ASSUME TypeInv, [Next]_vars PROVE Numbered'
  OBVIOUS
<1>0. Numbered /\ calls \in 0..MaxRequests
  BY DEF TypeInv, TypeOK, ThreadTypes
<1>1. CASE Calls
  BY <1>0, <1>1
  DEF Calls, ResolveFails, ServerNameFails, Connect, Request, DumpThrows, NewRequest,
      Destroy, Gone, StartOperation, GiveUp, Numbered
<1>2. CASE Returns
  BY <1>0, <1>2
  DEF Returns, ConnectReturns, HandshakeReturns, WriteReturns, ReadReturns, Left,
      StartOperation, GiveUp, Numbered
<1>3. CASE UNCHANGED <<pc, calls>>
  BY <1>0, <1>3 DEF Numbered
<1>4. CASE RunOne \/ ShutdownReturns \/ Reactor \/ Environment \/ UNCHANGED vars
  <2>1. UNCHANGED <<pc, calls>> \/ ShutdownReturns
    BY <1>4
    DEF RunOne, Reactor, TimerFires, ConnectCompletes, HandshakeCompletes,
        WriteCompletes, ReadCompletes, Completes, Environment, ServerAnswers, PeerDrops,
        Tick, vars, thread
  <2> QED
    BY <1>3, <2>1 DEF ShutdownReturns, Gone, Numbered
<1> QED
  BY <1>1, <1>2, <1>4 DEF Next

\* Every step keeps the types.
LEMMA TypeNext == TypeInv /\ [Next]_vars => TypeInv'
<1> USE TimeoutIsNat, MaxRequestsIsNat
<1> SUFFICES ASSUME TypeOK, Numbered, [Next]_vars PROVE TypeOK'
  BY NumberedNext DEF TypeInv
<1>0. UNCHANGED config => use_ssl' \in BOOLEAN /\ client' \in {"rpc", "http"}
  BY KeepsTypes
<1>1. CASE ResolveFails
  <2>1. UNCHANGED config /\ NetTypes'
    BY <1>1, KeepsTypes DEF ResolveFails
  <2> QED
    BY <1>0, <1>1, <2>1, GiveUpTypes DEF ResolveFails, Reports, Stages, TypeOK
<1>2. CASE ServerNameFails
  <2>1. UNCHANGED config /\ NetTypes'
    BY <1>2, KeepsTypes DEF ServerNameFails
  <2>2. ThreadTypes'
    BY <1>2 DEF ServerNameFails, TypeOK, ThreadTypes, Reports, Stages
  <2>3. LoopTypes'
    <3>1. ready' \in Seq(Handlers)
      BY <1>2 DEF ServerNameFails, Woken, TypeOK, LoopTypes, Handlers
    <3>2. deadline' \in 0..PosInfin /\ elapsed' \in 0..Timeout
      BY <1>2 DEF ServerNameFails, ExpiresFromNow, PosInfin
    <3>3. waiting' \in BOOLEAN /\ pending' \in BOOLEAN
      BY <1>2 DEF ServerNameFails, ExpiresFromNow, TypeOK, LoopTypes
    <3> QED
      BY <1>2, <3>1, <3>2, <3>3 DEF ServerNameFails, TypeOK, LoopTypes
  <2> QED
    BY <1>0, <2>1, <2>2, <2>3 DEF TypeOK
<1>3. CASE Connect
  <2>1. UNCHANGED config /\ NetTypes'
    BY <1>3, KeepsTypes DEF Connect
  <2>2. LoopTypes' /\ pc' \in Stages /\ ec' \in IoCodes \cup {"would_block"}
    BY <1>3, StartTypes DEF Connect, Loops
  <2>3. ThreadTypes'
    BY <1>3, <2>2 DEF Connect, TypeOK, ThreadTypes
  <2> QED
    BY <1>0, <2>1, <2>2, <2>3 DEF TypeOK
<1>4. CASE Returns
  <2>1. UNCHANGED config /\ NetTypes'
    BY <1>4, KeepsTypes
    DEF Returns, ConnectReturns, HandshakeReturns, WriteReturns, ReadReturns
  <2>2. UNCHANGED <<calls, res>>
    BY <1>4 DEF Returns, ConnectReturns, HandshakeReturns, WriteReturns, ReadReturns
  <2>3. ASSUME NEW next \in Stages, GiveUp("TIMEOUT", next), UNCHANGED ret
        PROVE  ThreadTypes' /\ LoopTypes'
    BY <2>2, <2>3, GiveUpTypes DEF Reports
  <2>4. ASSUME NEW s \in Loops, StartOperation(s), UNCHANGED <<socket, reports, ret>>
        PROVE  ThreadTypes' /\ LoopTypes'
    <3>1. socket' \in {"open", "closed"}
      BY <2>4 DEF TypeOK, LoopTypes
    <3>2. LoopTypes' /\ pc' \in Stages /\ ec' \in IoCodes \cup {"would_block"}
      BY <2>4, <3>1, StartTypes
    <3> QED
      BY <2>2, <2>4, <3>2 DEF TypeOK, ThreadTypes
  <2>5. ASSUME pc' = "idle", UNCHANGED <<ec, loop, elapsed>>,
               ret' \in 0..MaxRequests, reports' \in Seq(Reports)
        PROVE  ThreadTypes' /\ LoopTypes'
    <3>1. LoopTypes'
      BY <2>5, KeepsTypes
    <3> QED
      BY <2>2, <2>5, <3>1 DEF TypeOK, ThreadTypes, Stages
  <2>6. ret \in 0..MaxRequests /\ reports \in Seq(Reports) /\ res.id \in 0..MaxRequests
    BY DEF TypeOK, ThreadTypes, Messages
  <2>7. reports \o AnswerReport(res.body) \in Seq(Reports)
    <3>1. AnswerReport(res.body) \in Seq(Reports)
      <4>1. <<>> \in Seq(Reports) /\ <<"FAIL">> \in Seq(Reports) /\ <<"RESPONSE">> \in Seq(Reports)
        BY DEF Reports
      <4> QED
        BY <4>1 DEF AnswerReport
    <3> QED
      BY <2>6, <3>1
  <2>8. ConnectReturns => ThreadTypes' /\ LoopTypes'
    BY <2>3, <2>4, <2>5, <2>6 DEF ConnectReturns, Loops, Stages
  <2>9. HandshakeReturns => ThreadTypes' /\ LoopTypes'
    BY <2>3, <2>5, <2>6 DEF HandshakeReturns, Stages
  <2>10. WriteReturns => ThreadTypes' /\ LoopTypes'
    BY <2>3, <2>4 DEF WriteReturns, Loops, Stages
  <2>11. ReadReturns => ThreadTypes' /\ LoopTypes'
    BY <2>3, <2>5, <2>6, <2>7 DEF ReadReturns, Stages
  <2> QED
    BY <1>0, <1>4, <2>1, <2>8, <2>9, <2>10, <2>11 DEF Returns, TypeOK
<1>6. CASE Request
  <2>1. UNCHANGED config /\ NetTypes'
    BY <1>6, KeepsTypes DEF Request
  <2>2. socket' \in {"open", "closed"}
    BY <1>6 DEF Request, TypeOK, LoopTypes
  <2>3. LoopTypes' /\ pc' \in Stages /\ ec' \in IoCodes \cup {"would_block"}
    BY <1>6, <2>2, StartTypes DEF Request, Loops
  <2>4. ThreadTypes'
    BY <1>6, <2>3, NewRequestTypes DEF Request, ThreadTypes
  <2> QED
    BY <1>0, <2>1, <2>3, <2>4 DEF TypeOK
<1>7. CASE DumpThrows
  <2>1. UNCHANGED config /\ NetTypes' /\ LoopTypes'
    BY <1>7, KeepsTypes DEF DumpThrows
  <2>2. ThreadTypes'
    BY <1>7, NewRequestTypes DEF DumpThrows, TypeOK, ThreadTypes, Reports
  <2> QED
    BY <1>0, <2>1, <2>2 DEF TypeOK
<1>10. CASE Destroy \/ ShutdownReturns
  <2>1. UNCHANGED config /\ NetTypes'
    BY <1>10, KeepsTypes DEF Destroy, ShutdownReturns, Gone
  <2>2. ThreadTypes'
    BY <1>10 DEF Destroy, ShutdownReturns, Gone, TypeOK, ThreadTypes, Stages
  <2>3. Gone => LoopTypes'
    <3>1. Gone => ready' \in Seq(Handlers) /\ socket' \in {"open", "closed"}
      BY DEF Gone
    <3>2. Gone => waiting' \in BOOLEAN /\ pending' \in BOOLEAN
      BY DEF Gone, TypeOK, LoopTypes
    <3> QED
      BY <3>1, <3>2 DEF Gone, TypeOK, LoopTypes
  <2>4. UNCHANGED <<loop, elapsed>> => LoopTypes'
    BY KeepsTypes
  <2> QED
    BY <1>0, <1>10, <2>1, <2>2, <2>3, <2>4 DEF Destroy, ShutdownReturns, TypeOK
<1>12. CASE RunOne
  <2>1. UNCHANGED config /\ NetTypes'
    BY <1>12, KeepsTypes DEF RunOne
  <2>2. ready \in Seq(Handlers) /\ ready # <<>> /\ "aborted" \in Handlers
    BY <1>12 DEF RunOne, TypeOK, LoopTypes, Handlers, IoCodes
  <2>3. Tail(ready) \in Seq(Handlers)
    BY <2>2
  <2>4. Append(Tail(ready), "aborted") \in Seq(Handlers)
    BY <2>2, <2>3
  <2>5. ThreadTypes'
    BY <1>12 DEF RunOne, WaitDeadline, CompletionHandler, TypeOK, ThreadTypes
  <2>6. LoopTypes'
    <3>1. CASE WaitDeadline
      <4>1. ready' \in Seq(Handlers)
        BY <2>3, <2>4, <3>1 DEF WaitDeadline
      <4>2. deadline' \in 0..PosInfin /\ elapsed' \in 0..Timeout
        BY <1>12, <3>1 DEF RunOne, WaitDeadline, Disarm, TypeOK, LoopTypes, PosInfin
      <4>3. socket' \in {"open", "closed"}
        BY <3>1 DEF WaitDeadline, CloseSocket, TypeOK, LoopTypes
      <4>4. waiting' \in BOOLEAN /\ pending' \in BOOLEAN
        BY <3>1 DEF WaitDeadline, WaitAgain, TypeOK, LoopTypes
      <4> QED
        BY <4>1, <4>2, <4>3, <4>4 DEF LoopTypes
    <3>2. CASE CompletionHandler
      BY <1>12, <2>3, <3>2 DEF RunOne, CompletionHandler, TypeOK, LoopTypes
    <3> QED
      BY <1>12, <3>1, <3>2 DEF RunOne
  <2> QED
    BY <1>0, <2>1, <2>5, <2>6 DEF TypeOK
<1>13. CASE TimerFires
  <2>1. UNCHANGED config /\ NetTypes' /\ ThreadTypes'
    BY <1>13, KeepsTypes DEF TimerFires
  <2>2. LoopTypes'
    <3>1. ready' \in Seq(Handlers)
      BY <1>13 DEF TimerFires, TypeOK, LoopTypes, Handlers
    <3> QED
      BY <1>13, <3>1 DEF TimerFires, TypeOK, LoopTypes
  <2> QED
    BY <1>0, <2>1, <2>2 DEF TypeOK
<1>14. ASSUME NEW s \in Loops, NEW c \in IoCodes, Completes(s, c), res' \in Messages
       PROVE  ThreadTypes' /\ LoopTypes' /\ UNCHANGED config
  <2>1. ready' \in Seq(Handlers)
    BY <1>14 DEF Completes, TypeOK, LoopTypes, Handlers
  <2>2. LoopTypes'
    BY <1>14, <2>1 DEF Completes, TypeOK, LoopTypes
  <2> QED
    BY <1>14, <2>2 DEF Completes, TypeOK, ThreadTypes
<1>15. CASE ConnectCompletes \/ HandshakeCompletes
  <2>1. res' \in Messages
    BY <1>15 DEF ConnectCompletes, HandshakeCompletes, TypeOK, ThreadTypes
  <2>2. NetTypes'
    BY <1>15, KeepsTypes DEF ConnectCompletes, HandshakeCompletes
  <2>3. \E s \in Loops, c \in IoCodes : Completes(s, c)
    BY <1>15 DEF ConnectCompletes, HandshakeCompletes, Loops, IoCodes
  <2> QED
    BY <1>0, <1>14, <2>1, <2>2, <2>3 DEF TypeOK
<1>16. CASE WriteCompletes
  <2>1. \E s \in Loops, c \in IoCodes : Completes(s, c)
    BY <1>16 DEF WriteCompletes, Loops, IoCodes
  <2>2. pc = "write" /\ calls \in Requests
    BY <1>16 DEF WriteCompletes, Completes, TypeOK, ThreadTypes, Numbered, Requests
  <2>3. NetTypes'
    BY <1>16, <2>2 DEF WriteCompletes, TypeOK, NetTypes
  <2>4. res' \in Messages
    BY <1>16 DEF WriteCompletes, TypeOK, ThreadTypes
  <2> QED
    BY <1>0, <1>14, <2>1, <2>3, <2>4 DEF TypeOK
<1>17. CASE ReadCompletes
  <2>1. \E s \in Loops, c \in IoCodes : Completes(s, c)
    BY <1>17 DEF ReadCompletes, Loops, IoCodes
  <2>2. res' \in Messages /\ wire' \in Seq(Messages)
    <3>1. wire \in Seq(Messages) /\ res \in Messages
      BY DEF TypeOK, ThreadTypes, NetTypes
    <3>2. ASSUME wire # <<>>, NEW rest \in Rest(Head(wire)), wire' = rest \o Tail(wire)
          PROVE  wire' \in Seq(Messages)
      <4>1. Head(wire) \in Messages /\ Tail(wire) \in Seq(Messages)
        BY <3>1, <3>2
      <4>2. rest \in Seq(Messages)
        BY <3>2, <4>1, RestTypes
      <4> QED
        BY <3>2, <4>1, <4>2
    <3> QED
      BY <1>17, <3>1, <3>2 DEF ReadCompletes
  <2>3. NetTypes'
    BY <1>17, <2>2 DEF ReadCompletes, TypeOK, NetTypes
  <2> QED
    BY <1>0, <1>14, <2>1, <2>2, <2>3 DEF TypeOK
<1>18. CASE ServerAnswers \/ PeerDrops
  <2>1. UNCHANGED config /\ ThreadTypes' /\ LoopTypes'
    BY <1>18, KeepsTypes DEF ServerAnswers, PeerDrops
  <2>2. wire' \in Seq(Messages)
    <3>1. <<>> \in Seq(Messages) /\ wire \in Seq(Messages)
      BY DEF TypeOK, NetTypes
    <3>2. CASE ServerAnswers
      <4>1. PICK i \in unanswered, b \in Bodies : wire' = Append(wire, [id |-> i, body |-> b])
        BY <3>2 DEF ServerAnswers
      <4>2. [id |-> i, body |-> b] \in Messages
        BY <4>1 DEF TypeOK, NetTypes, Messages, Requests
      <4> QED
        BY <3>1, <4>1, <4>2
    <3> QED
      BY <1>18, <3>1, <3>2 DEF PeerDrops
  <2>3. NetTypes'
    BY <1>18, <2>2 DEF ServerAnswers, PeerDrops, TypeOK, NetTypes
  <2> QED
    BY <1>0, <2>1, <2>3 DEF TypeOK
<1>19. CASE Tick
  <2>1. UNCHANGED config /\ ThreadTypes' /\ NetTypes'
    BY <1>19, KeepsTypes DEF Tick
  <2>2. LoopTypes'
    BY <1>19 DEF Tick, TypeOK, LoopTypes, PosInfin
  <2> QED
    BY <1>0, <2>1, <2>2 DEF TypeOK
<1>20. CASE UNCHANGED vars
  BY <1>0, <1>20, KeepsTypes DEF vars, TypeOK
<1> QED
  BY <1>1, <1>2, <1>3, <1>4, <1>6, <1>7, <1>10, <1>12, <1>13, <1>15, <1>16, <1>17,
     <1>18, <1>19, <1>20
  DEF Next, Calls, Reactor, Environment

\* Every variable of a session keeps its type: no path of connect, request, get
\* or the event loop stores a value another part could not read.
THEOREM TypeCorrect == Spec => []TypeOK
<1>1. Init => TypeInv
  BY TypeInit
<1>2. TypeInv /\ [Next]_vars => TypeInv'
  BY TypeNext
<1>3. TypeInv => TypeOK
  BY DEF TypeInv
<1> QED
  BY <1>1, <1>2, <1>3, PTL DEF Spec

-----------------------------------------------------------------------------
(***************************************************************************)
(* The queue of handlers.  Has and One are Queued and Once of any queue.   *)
(***************************************************************************)
Has(q, H) == \E i \in 1..Len(q) : q[i] \in H
One(q, H) == \A i, j \in 1..Len(q) : q[i] \in H /\ q[j] \in H => i = j

\* What is in a queue after a handler has been added at its end.
LEMMA AppendHandler ==
  ASSUME NEW q \in Seq(Handlers), NEW h \in Handlers, NEW H
  PROVE  /\ Append(q, h) \in Seq(Handlers)
         /\ Has(Append(q, h), H) <=> Has(q, H) \/ h \in H
         /\ One(q, H) /\ ~(h \in H /\ Has(q, H)) => One(Append(q, h), H)
<1>1. /\ Append(q, h) \in Seq(Handlers)
      /\ Len(Append(q, h)) = Len(q) + 1
      /\ \A i \in 1..Len(q) : Append(q, h)[i] = q[i]
      /\ Append(q, h)[Len(q) + 1] = h
      /\ Len(q) \in Nat
  OBVIOUS
<1>2. Has(Append(q, h), H) <=> Has(q, H) \/ h \in H
  BY <1>1 DEF Has
<1>3. ASSUME One(q, H), ~(h \in H /\ Has(q, H)) PROVE One(Append(q, h), H)
  BY <1>1, <1>3 DEF Has, One
<1> QED
  BY <1>1, <1>2, <1>3

\* What is in a queue after its oldest handler has been taken.
LEMMA TailHandler ==
  ASSUME NEW q \in Seq(Handlers), q # <<>>, NEW H
  PROVE  /\ Tail(q) \in Seq(Handlers)
         /\ Head(q) \in Handlers
         /\ Has(q, H) <=> Has(Tail(q), H) \/ Head(q) \in H
         /\ One(q, H) => One(Tail(q), H) /\ ~(Head(q) \in H /\ Has(Tail(q), H))
<1>1. /\ Tail(q) \in Seq(Handlers)
      /\ Len(Tail(q)) = Len(q) - 1
      /\ \A i \in 1..(Len(q) - 1) : Tail(q)[i] = q[i + 1]
      /\ Head(q) = q[1]
      /\ Len(q) \in Nat
      /\ Len(q) > 0
      /\ Head(q) \in Handlers
  OBVIOUS
<1>2. Has(q, H) <=> Has(Tail(q), H) \/ Head(q) \in H
  <2>1. ASSUME Has(q, H) PROVE Has(Tail(q), H) \/ Head(q) \in H
    <3>1. PICK i \in 1..Len(q) : q[i] \in H
      BY <2>1 DEF Has
    <3>2. CASE i = 1
      BY <1>1, <3>1, <3>2
    <3>3. CASE i # 1
      <4>1. i - 1 \in 1..(Len(q) - 1) /\ Tail(q)[i - 1] = q[(i - 1) + 1] /\ (i - 1) + 1 = i
        BY <1>1, <3>1, <3>3
      <4> QED
        BY <1>1, <3>1, <4>1 DEF Has
    <3> QED
      BY <3>2, <3>3
  <2>2. ASSUME Has(Tail(q), H) PROVE Has(q, H)
    BY <1>1, <2>2 DEF Has
  <2>3. ASSUME Head(q) \in H PROVE Has(q, H)
    BY <1>1, <2>3 DEF Has
  <2> QED
    BY <2>1, <2>2, <2>3
<1>3. ASSUME One(q, H) PROVE One(Tail(q), H)
  BY <1>1, <1>3 DEF One
<1>4. ASSUME One(q, H), Head(q) \in H PROVE ~Has(Tail(q), H)
  BY <1>1, <1>4 DEF One, Has
<1> QED
  BY <1>1, <1>2, <1>3, <1>4

\* LoopInv, said of Has and One.
LEMMA LoopInvOf ==
  LoopInv <=> /\ pc # "destroyed" =>
                   /\ One(ready, {"wait_deadline"})
                   /\ waiting <=> ~Has(ready, {"wait_deadline"})
              /\ One(ready, IoCodes)
              /\ pending => Running /\ socket = "open" /\ ~Has(ready, IoCodes)
              /\ Has(ready, IoCodes) => Running
  BY DEF LoopInv, OneDeadlineWait, Once, Queued, Has, One

\* The same, of the next state.
LEMMA LoopInvOfNext ==
  LoopInv' <=> /\ pc' # "destroyed" =>
                    /\ One(ready', {"wait_deadline"})
                    /\ waiting' <=> ~Has(ready', {"wait_deadline"})
               /\ One(ready', IoCodes)
               /\ pending' => Running' /\ socket' = "open" /\ ~Has(ready', IoCodes)
               /\ Has(ready', IoCodes) => Running'
  BY DEF LoopInv, OneDeadlineWait, Once, Queued, Has, One

\* Cancelling the wait queues its handler, if it is not queued already.
LEMMA WokenQueue ==
  ASSUME TypeOK, LoopInv, pc # "destroyed"
  PROVE  /\ Woken \in Seq(Handlers)
         /\ One(Woken, {"wait_deadline"})
         /\ Has(Woken, {"wait_deadline"})
         /\ Has(Woken, IoCodes) <=> Has(ready, IoCodes)
         /\ One(Woken, IoCodes)
<1>1. ready \in Seq(Handlers) /\ "wait_deadline" \in Handlers /\ "wait_deadline" \notin IoCodes
  BY DEF TypeOK, LoopTypes, Handlers, IoCodes
<1>2. /\ One(ready, {"wait_deadline"})
      /\ waiting <=> ~Has(ready, {"wait_deadline"})
      /\ One(ready, IoCodes)
  BY LoopInvOf
<1>3. CASE waiting
  <2>1. Woken = Append(ready, "wait_deadline")
    BY <1>3 DEF Woken
  <2> QED
    BY <1>1, <1>2, <1>3, <2>1, AppendHandler
<1>4. CASE ~waiting
  BY <1>1, <1>2, <1>4 DEF Woken
<1> QED
  BY <1>3, <1>4

\* A call that starts an operation restarts the timer: one wait, one operation.
LEMMA StartLoop ==
  ASSUME TypeOK, LoopInv, ~Running, pc # "destroyed", NEW s \in Loops, StartOperation(s),
         socket' \in {"open", "closed"}
  PROVE  LoopInv'
<1>1. /\ Woken \in Seq(Handlers)
      /\ One(Woken, {"wait_deadline"}) /\ Has(Woken, {"wait_deadline"})
      /\ ~Has(Woken, IoCodes) /\ One(Woken, IoCodes)
  BY WokenQueue, LoopInvOf
<1>2. "error" \in Handlers /\ "error" \in IoCodes /\ "error" \notin {"wait_deadline"}
  BY DEF Handlers, IoCodes
<1>3. Running' /\ pc' # "destroyed" /\ ~waiting' /\ (pending' <=> socket' = "open")
  BY DEF StartOperation, ExpiresFromNow, Running, InLoop, Loops
<1>4. CASE socket' = "open"
  <2>1. ready' = Woken
    BY <1>4 DEF StartOperation
  <2> QED
    BY <1>1, <1>3, <1>4, <2>1, LoopInvOfNext
<1>5. CASE socket' # "open"
  <2>1. ready' = Append(Woken, "error")
    BY <1>5 DEF StartOperation
  <2>2. /\ One(ready', {"wait_deadline"}) /\ Has(ready', {"wait_deadline"})
        /\ One(ready', IoCodes)
    BY <1>1, <1>2, <2>1, AppendHandler
  <2> QED
    BY <1>3, <1>5, <2>2, LoopInvOfNext
<1> QED
  BY <1>4, <1>5

\* A step of the thread outside the loop that leaves the loop alone.
LEMMA ThreadStepLoop ==
  ASSUME LoopInv, ~Running, pc # "destroyed", UNCHANGED <<ready, waiting, pending>>
  PROVE  LoopInv'
  BY LoopInvOf, LoopInvOfNext

\* Every step keeps one wait of the timer and one completion of the operation.
LEMMA LoopNext == TypeInv /\ LoopInv /\ [Next]_vars => LoopInv'
<1> SUFFICES ASSUME TypeOK, LoopInv, [Next]_vars PROVE LoopInv'
  BY DEF TypeInv
<1> USE DEF Loops
<1>0. ready \in Seq(Handlers) /\ socket \in {"open", "closed"}
  BY DEF TypeOK, LoopTypes
<1>1. CASE ResolveFails \/ DumpThrows
  BY <1>1, ThreadStepLoop
  DEF ResolveFails, DumpThrows, NewRequest, GiveUp, loop, Running, InLoop
<1>2. CASE ServerNameFails
  <2>1. /\ ready' = Woken /\ ~waiting' /\ pc' # "destroyed" /\ UNCHANGED pending
        /\ ~Running /\ pc # "destroyed"
    BY <1>2 DEF ServerNameFails, ExpiresFromNow, Running, InLoop
  <2> QED
    BY <2>1, WokenQueue, LoopInvOf, LoopInvOfNext
<1>3. CASE Connect \/ Request
  <2>1. ~Running /\ pc # "destroyed" /\ socket' \in {"open", "closed"}
    BY <1>0, <1>3 DEF Connect, Request, NewRequest, Running, InLoop
  <2> QED
    BY <1>3, <2>1, StartLoop DEF Connect, Request
<1>4. CASE Returns
  <2>1. ~Running /\ pc # "destroyed"
    BY <1>4
    DEF Returns, ConnectReturns, HandshakeReturns, WriteReturns, ReadReturns, Left, Running
  <2>2. \/ UNCHANGED loop
        \/ UNCHANGED socket /\ \E s \in Loops : StartOperation(s)
    BY <1>4
    DEF Returns, ConnectReturns, HandshakeReturns, WriteReturns, ReadReturns, GiveUp, loop
  <2>3. CASE UNCHANGED loop
    BY <2>1, <2>3, ThreadStepLoop DEF loop
  <2> QED
    BY <1>0, <2>1, <2>2, <2>3, StartLoop
<1>5. CASE Destroy \/ ShutdownReturns
  <2>1. ~Running /\ pc # "destroyed"
    BY <1>5 DEF Destroy, ShutdownReturns, Running, InLoop
  <2>2. CASE UNCHANGED loop
    BY <2>1, <2>2, ThreadStepLoop DEF loop
  <2>3. CASE Gone
    <3>1. ~pending' /\ pc' = "destroyed" /\ ready' = <<>>
      BY <2>1, <2>3, LoopInvOf DEF Gone
    <3> QED
      BY <3>1, LoopInvOfNext DEF Has, One
  <2> QED
    BY <1>5, <2>2, <2>3 DEF Destroy, ShutdownReturns
<1>6. CASE RunOne
  <2>1. /\ Running /\ InLoop /\ InLoop' /\ pc' = pc /\ pc # "destroyed"
        /\ ready # <<>> /\ ec = "would_block"
    BY <1>6 DEF RunOne, Running, InLoop
  <2>2. \A H : /\ Tail(ready) \in Seq(Handlers)
               /\ Has(ready, H) <=> Has(Tail(ready), H) \/ Head(ready) \in H
               /\ One(ready, H) => One(Tail(ready), H)
                                   /\ ~(Head(ready) \in H /\ Has(Tail(ready), H))
    BY <1>0, <2>1, TailHandler
  <2>3. CASE Head(ready) = "wait_deadline" /\ WaitDeadline
    <3>1. /\ waiting' /\ UNCHANGED ec /\ Running'
      BY <2>1, <2>3 DEF WaitDeadline, WaitAgain, Running
    <3>2. /\ One(Tail(ready), {"wait_deadline"}) /\ ~Has(Tail(ready), {"wait_deadline"})
          /\ One(Tail(ready), IoCodes)
          /\ Has(Tail(ready), IoCodes) <=> Has(ready, IoCodes)
      BY <2>1, <2>2, <2>3, LoopInvOf DEF IoCodes
    <3>3. CASE ready' = Tail(ready) /\ (pending' => pending /\ UNCHANGED socket)
      BY <2>1, <3>1, <3>2, <3>3, LoopInvOf, LoopInvOfNext
    <3>4. CASE pending /\ ready' = Append(Tail(ready), "aborted") /\ ~pending'
      <4>1. "aborted" \in Handlers /\ "aborted" \in IoCodes /\ ~Has(Tail(ready), IoCodes)
        BY <3>2, <3>4, LoopInvOf DEF Handlers, IoCodes
      <4>2. /\ One(ready', {"wait_deadline"}) /\ ~Has(ready', {"wait_deadline"})
            /\ One(ready', IoCodes)
        BY <2>2, <3>2, <3>4, <4>1, AppendHandler
      <4> QED
        BY <2>1, <3>1, <3>4, <4>2, LoopInvOfNext
    <3> QED
      BY <2>3, <3>3, <3>4 DEF WaitDeadline
  <2>4. CASE Head(ready) \in IoCodes /\ CompletionHandler
    <3>1. "wait_deadline" \notin IoCodes
      BY DEF IoCodes
    <3>2. /\ Has(ready, IoCodes) /\ ~Has(Tail(ready), IoCodes) /\ One(Tail(ready), IoCodes)
          /\ One(ready, {"wait_deadline"}) => One(Tail(ready), {"wait_deadline"})
          /\ Has(ready, {"wait_deadline"}) <=> Has(Tail(ready), {"wait_deadline"})
      BY <2>2, <2>4, <3>1, LoopInvOf
    <3>3. ~pending' /\ UNCHANGED waiting /\ ready' = Tail(ready)
      BY <2>4, <3>2, LoopInvOf DEF CompletionHandler
    <3> QED
      BY <2>1, <3>2, <3>3, LoopInvOf, LoopInvOfNext
  <2> QED
    BY <1>6, <2>3, <2>4 DEF RunOne
<1>7. CASE TimerFires
  <2>1. /\ Running /\ pc # "destroyed" /\ waiting /\ ~waiting'
        /\ ready' = Append(ready, "wait_deadline") /\ UNCHANGED <<pc, ec, pending, socket>>
        /\ Running'
    BY <1>7 DEF TimerFires, thread, Running, InLoop
  <2>2. "wait_deadline" \in Handlers /\ "wait_deadline" \notin IoCodes
    BY DEF Handlers, IoCodes
  <2>3. /\ One(ready', {"wait_deadline"}) /\ Has(ready', {"wait_deadline"})
        /\ Has(ready', IoCodes) <=> Has(ready, IoCodes)
        /\ One(ready', IoCodes)
    BY <1>0, <2>1, <2>2, LoopInvOf, AppendHandler
  <2> QED
    BY <2>1, <2>3, LoopInvOf, LoopInvOfNext
<1>8. ASSUME NEW s \in Loops, NEW c \in IoCodes, Completes(s, c)
      PROVE  LoopInv'
  <2>1. /\ pending /\ ~pending' /\ ready' = Append(ready, c)
        /\ UNCHANGED <<pc, ec, waiting, socket>> /\ Running /\ Running' /\ pc # "destroyed"
    BY <1>8 DEF Completes, Running, InLoop
  <2>2. c \in Handlers /\ c \notin {"wait_deadline"} /\ ~Has(ready, IoCodes)
    BY <2>1, LoopInvOf DEF Handlers, IoCodes
  <2>3. /\ One(ready', IoCodes)
        /\ One(ready, {"wait_deadline"}) => One(ready', {"wait_deadline"})
        /\ Has(ready', {"wait_deadline"}) <=> Has(ready, {"wait_deadline"})
    BY <1>0, <2>1, <2>2, LoopInvOf, AppendHandler
  <2> QED
    BY <2>1, <2>3, LoopInvOf, LoopInvOfNext
<1>9. CASE ConnectCompletes \/ HandshakeCompletes \/ WriteCompletes \/ ReadCompletes
  <2>1. \E s \in Loops, c \in IoCodes : Completes(s, c)
    BY <1>9
    DEF ConnectCompletes, HandshakeCompletes, WriteCompletes, ReadCompletes, IoCodes
  <2> QED
    BY <1>8, <2>1
<1>10. CASE Environment \/ UNCHANGED vars
  <2>1. UNCHANGED <<pc, ec, ready, waiting, pending, socket>>
    BY <1>10 DEF Environment, ServerAnswers, PeerDrops, Tick, vars, thread, loop
  <2> QED
    BY <2>1, LoopInvOf, LoopInvOfNext DEF Running, InLoop
<1> QED
  BY <1>1, <1>2, <1>3, <1>4, <1>5, <1>6, <1>7, <1>9, <1>10 DEF Next, Calls, Reactor

\* Every step keeps the timer and the time since the operation began in step.
LEMMA ClockNext == TypeInv /\ ClockInv /\ [Next]_vars => ClockInv'
<1> USE TimeoutIsNat
<1> SUFFICES ASSUME TypeOK, ClockInv, [Next]_vars PROVE ClockInv'
  BY DEF TypeInv
<1>0. deadline \in 0..(Timeout + 1) /\ elapsed \in 0..Timeout
  BY DEF TypeOK, LoopTypes, PosInfin
<1>1. CASE UNCHANGED <<deadline, elapsed>>
  BY <1>1 DEF ClockInv
<1>2. CASE ExpiresFromNow
  BY <1>2 DEF ExpiresFromNow, ClockInv
<1>3. CASE deadline' = PosInfin
  BY <1>3 DEF ClockInv
<1>4. CASE Tick
  BY <1>0, <1>4 DEF Tick, ClockInv, PosInfin
<1>5. UNCHANGED <<deadline, elapsed>> \/ ExpiresFromNow \/ deadline' = PosInfin \/ Tick
  <2>1. CASE Calls
    BY <2>1
    DEF Calls, ResolveFails, ServerNameFails, Connect, Request, DumpThrows, Destroy, Gone,
        GiveUp, StartOperation, loop
  <2>2. CASE Returns
    BY <2>2
    DEF Returns, ConnectReturns, HandshakeReturns, WriteReturns, ReadReturns, GiveUp,
        StartOperation, loop
  <2>3. CASE RunOne \/ ShutdownReturns
    BY <2>3 DEF RunOne, WaitDeadline, Disarm, CompletionHandler, ShutdownReturns, Gone
  <2>4. CASE Reactor \/ Environment \/ UNCHANGED vars
    BY <2>4
    DEF Reactor, TimerFires, ConnectCompletes, HandshakeCompletes, WriteCompletes,
        ReadCompletes, Completes, Environment, ServerAnswers, PeerDrops, vars, loop
  <2> QED
    BY <2>1, <2>2, <2>3, <2>4 DEF Next
<1> QED
  BY <1>1, <1>2, <1>3, <1>4, <1>5

-----------------------------------------------------------------------------
(***************************************************************************)
(* What is under way on the wire.                                          *)
(***************************************************************************)
\* Where the operation stands after it has been started.
LEMMA StartCompleted ==
  ASSUME TypeOK, LoopInv, ~Running, pc # "destroyed", NEW s \in Loops, StartOperation(s),
         NEW c \in {"ok", "aborted", "error"}, c # "error" \/ socket' = "open"
  PROVE  ~Completed(c)'
<1>1. Woken \in Seq(Handlers) /\ ~Has(Woken, IoCodes)
  BY WokenQueue, LoopInvOf
<1>2. ~Has(Woken, {c})
  BY <1>1 DEF Has, IoCodes
<1>3. ~Has(ready', {c})
  <2>1. CASE socket' = "open"
    BY <1>2, <2>1 DEF StartOperation
  <2>2. CASE socket' # "open"
    <3>1. ready' = Append(Woken, "error") /\ "error" \in Handlers /\ "error" \notin {c}
      BY <2>2 DEF StartOperation, Handlers, IoCodes
    <3> QED
      BY <1>1, <1>2, <3>1, AppendHandler
  <2> QED
    BY <2>1, <2>2
<1>4. ec' # c
  BY DEF StartOperation
<1> QED
  BY <1>3, <1>4 DEF Completed, Queued, Has

\* The operation that completes with code c has completed with no other code.
LEMMA CompletesCompleted ==
  ASSUME TypeOK, LoopInv, NEW s, NEW c \in IoCodes, Completes(s, c), NEW d \in IoCodes
  PROVE  Completed(d)' <=> d = c
<1>1. /\ ready \in Seq(Handlers) /\ c \in Handlers /\ ready' = Append(ready, c)
      /\ ec' = "would_block" /\ ec' # d
  BY DEF TypeOK, LoopTypes, Completes, Running, Handlers, IoCodes
<1>2. ~Has(ready, IoCodes)
  BY LoopInvOf DEF Completes
<1>3. ~Has(ready, {d})
  BY <1>2 DEF Has
<1>4. Has(ready', {d}) <=> c \in {d}
  BY <1>1, <1>3, AppendHandler
<1> QED
  BY <1>1, <1>4 DEF Completed, Queued, Has

\* A handler that run_one() runs makes no completion appear, except that of an
\* operation whose socket it closes; and none but the one it runs disappears.
LEMMA RunOneCompleted ==
  ASSUME TypeOK, LoopInv, RunOne, NEW d \in {"ok", "error", "aborted"},
         d # "aborted" \/ UNCHANGED socket
  PROVE  Completed(d)' => Completed(d)
<1>1. ready \in Seq(Handlers) /\ ready # <<>> /\ ec = "would_block"
  BY DEF TypeOK, LoopTypes, RunOne, Running
<1>2. /\ Tail(ready) \in Seq(Handlers)
      /\ Has(ready, {d}) <=> Has(Tail(ready), {d}) \/ Head(ready) \in {d}
  BY <1>1, TailHandler
<1>3. CASE CompletionHandler
  <2>1. ec' = Head(ready) /\ ready' = Tail(ready)
    BY <1>3 DEF CompletionHandler
  <2> QED
    BY <1>2, <2>1 DEF Completed, Queued, Has
<1>4. CASE WaitDeadline
  <2>1. ec' # d
    BY <1>1, <1>4 DEF WaitDeadline
  <2>2. CASE ready' = Tail(ready)
    BY <1>2, <2>1, <2>2 DEF Completed, Queued, Has
  <2>3. CASE ready' # Tail(ready)
    <3>1. socket' = "closed" /\ pending /\ ready' = Append(Tail(ready), "aborted") /\ "aborted" \in Handlers
      BY <1>4, <2>3 DEF WaitDeadline, CloseSocket, Handlers, IoCodes
    <3>2. CASE d # "aborted"
      <4>1. Has(ready', {d}) <=> Has(Tail(ready), {d})
        BY <1>2, <3>1, <3>2, AppendHandler
      <4> QED
        BY <1>2, <2>1, <4>1 DEF Completed, Queued, Has
    <3>3. socket = "open"
      BY <3>1, LoopInvOf
    <3> QED
      BY <3>1, <3>2, <3>3
  <2> QED
    BY <2>2, <2>3
<1> QED
  BY <1>3, <1>4 DEF RunOne

\* A step outside the loop, or of the loop, that leaves the wire and the
\* progress of the operation alone.
LEMMA SameWire ==
  ASSUME UNCHANGED <<wire, unanswered, peer>>
  PROVE  /\ Quiet' <=> Quiet
         /\ (peer = "gone" => unanswered = {}) => (peer' = "gone" => unanswered' = {})
         /\ LatestOnly /\ UNCHANGED <<calls, served>> => LatestOnly'
  BY DEF Quiet, LatestOnly

\* A call begins with nothing under way on the connection.
LEMMA WireCalls == InStepInv /\ Calls => InStep'
<1> SUFFICES ASSUME InStepInv, Calls PROVE InStep'
  OBVIOUS
<1> USE DEF InStepInv, TypeInv
<1>0. UNCHANGED net
  BY DEF Calls, ResolveFails, ServerNameFails, Connect, Request, DumpThrows, Destroy, Gone
<1>1. /\ Quiet' <=> Quiet
      /\ peer' = "gone" => unanswered' = {}
      /\ ~Running
  BY <1>0, SameWire
  DEF InStep, net, Calls, ResolveFails, ServerNameFails, Connect, Request, DumpThrows,
      NewRequest, Destroy, Running, InLoop, Loops
<1>2. CASE ResolveFails \/ ServerNameFails \/ Destroy
  <2>1. pc' \in {"failed", "shutdown", "destroyed"}
    BY <1>2 DEF ResolveFails, ServerNameFails, Destroy, Gone, GiveUp
  <2> QED
    BY <1>1, <2>1 DEF InStep, OpenWire, OwnAnswer, InLoop, Loops
<1>3. CASE Connect
  <2>1. ~Completed("aborted")'
    BY <1>1, <1>3, StartCompleted DEF Connect, Loops
  <2>2. pc = "new" /\ pc' = "connect" /\ ret' = ret
    BY <1>3 DEF Connect, StartOperation
  <2>3. Quiet' /\ ret' = 0
    BY <1>1, <2>2 DEF InStep, OwnAnswer
  <2> QED
    BY <1>1, <2>1, <2>2, <2>3 DEF InStep, OpenWire, OwnAnswer
<1>4. CASE Request
  <2>1. ~Completed("aborted")'
    BY <1>1, <1>4, StartCompleted DEF Request, NewRequest, Loops
  <2>2. pc = "idle" /\ pc' = "write" /\ ret' = 0 /\ socket' = socket
    BY <1>4 DEF Request, NewRequest, StartOperation
  <2>3. socket' = "open" => Quiet'
    BY <1>1, <2>2 DEF InStep, OpenWire
  <2>4. socket' = "open" => LatestOnly'
    BY <2>3 DEF Quiet, LatestOnly
  <2> QED
    BY <1>1, <2>1, <2>2, <2>3, <2>4 DEF InStep, OpenWire, OwnAnswer
<1>5. CASE DumpThrows
  <2>1. pc = "idle" /\ pc' = "idle" /\ ret' = 0 /\ socket' = socket
    BY <1>5 DEF DumpThrows, NewRequest, loop
  <2> QED
    BY <1>1, <2>1 DEF InStep, OpenWire, OwnAnswer, InLoop, Loops
<1> QED
  BY <1>2, <1>3, <1>4, <1>5 DEF Calls

\* A call that returns leaves nothing under way, or a closed socket.
LEMMA WireReturns == InStepInv /\ Returns => InStep'
<1> SUFFICES ASSUME InStepInv, Returns PROVE InStep'
  OBVIOUS
<1> USE DEF InStepInv, TypeInv
<1>0. /\ UNCHANGED <<net, calls, res>>
      /\ InLoop /\ ~Running /\ socket' = socket /\ pc # "destroyed"
  BY DEF Returns, ConnectReturns, HandshakeReturns, WriteReturns, ReadReturns, Left,
         GiveUp, loop, Running, InLoop, Loops
<1>1. /\ Quiet' <=> Quiet
      /\ LatestOnly => LatestOnly'
      /\ peer' = "gone" => unanswered' = {}
  BY <1>0, SameWire DEF InStep, net
<1>2. ret = 0 /\ ec \in IoCodes /\ ~pending
  BY <1>0, LoopInvOf
  DEF InStep, OwnAnswer, Returns, ConnectReturns, HandshakeReturns, WriteReturns,
      ReadReturns, Left, TypeOK, ThreadTypes
\* A loop that is left on a socket that is still open ended with ok or an error.
<1>3. socket = "open" /\ ~Succeeded => ec = "error"
  BY <1>0, <1>2 DEF InStep, OpenWire, Completed, Succeeded, IoCodes
<1>4. ASSUME NEW s \in Loops, StartOperation(s)
      PROVE  ~Completed("aborted")' /\ ~Completed("ok")' /\ pc' = s
             /\ (socket = "open" => ~Completed("error")' /\ pending')
  BY <1>0, <1>4, StartCompleted DEF StartOperation
<1>5. CASE ConnectReturns
  <2>1. CASE pc' = "failed"
    BY <1>1, <2>1 DEF InStep, OpenWire, OwnAnswer, InLoop, Loops
  <2>2. CASE Succeeded /\ StartOperation("handshake") /\ UNCHANGED ret
    BY <1>0, <1>1, <1>2, <1>4, <1>5, <2>2
    DEF InStep, OpenWire, OwnAnswer, ConnectReturns, Left, Loops
  <2>3. CASE Succeeded /\ pc' = "idle" /\ UNCHANGED ret
    BY <1>0, <1>1, <1>2, <1>5, <2>3
    DEF InStep, OpenWire, OwnAnswer, ConnectReturns, Left, InLoop, Loops
  <2> QED
    BY <1>5, <2>1, <2>2, <2>3 DEF ConnectReturns, GiveUp
<1>6. CASE HandshakeReturns
  <2>1. CASE pc' = "failed"
    BY <1>1, <2>1 DEF InStep, OpenWire, OwnAnswer, InLoop, Loops
  <2>2. CASE Succeeded /\ pc' = "idle" /\ UNCHANGED ret
    BY <1>0, <1>1, <1>2, <1>6, <2>2
    DEF InStep, OpenWire, OwnAnswer, HandshakeReturns, Left, InLoop, Loops
  <2> QED
    BY <1>6, <2>1, <2>2 DEF HandshakeReturns, GiveUp
<1>7. CASE WriteReturns
  <2>1. CASE ~Succeeded /\ pc' = "idle" /\ UNCHANGED ret
    <3>1. socket = "open" => Completed("error")
      BY <1>3, <2>1 DEF Completed
    <3>2. socket' = "open" => Quiet'
      BY <1>0, <1>1, <1>7, <3>1 DEF InStep, OpenWire, WriteReturns, Left
    <3> QED
      BY <1>1, <1>2, <2>1, <3>2 DEF InStep, OpenWire, OwnAnswer, InLoop, Loops
  <2>2. CASE Succeeded /\ StartOperation("read") /\ UNCHANGED ret
    BY <1>0, <1>1, <1>2, <1>4, <1>7, <2>2
    DEF InStep, OpenWire, OwnAnswer, WriteReturns, Left, Succeeded, Loops
  <2> QED
    BY <1>7, <2>1, <2>2 DEF WriteReturns, GiveUp
<1>8. CASE ReadReturns
  <2>1. pc = "read" /\ pc' = "idle"
    BY <1>8 DEF ReadReturns, Left, GiveUp
  <2>2. socket' = "open" => Quiet'
    BY <1>0, <1>1, <1>2, <2>1 DEF InStep, OpenWire
  <2>3. ret' # 0 => ret' = calls /\ calls \in served
    <3>1. ret' = ret \/ (Succeeded /\ ret' = res.id)
      BY <1>8 DEF ReadReturns
    <3> QED
      BY <1>2, <2>1, <3>1 DEF InStep, OwnAnswer, Completed, Succeeded
  <2> QED
    BY <1>0, <1>1, <2>1, <2>2, <2>3 DEF InStep, OpenWire, OwnAnswer, InLoop, Loops, net
<1> QED
  BY <1>5, <1>6, <1>7, <1>8 DEF Returns

\* The handlers that run_one() runs do not touch the connection, unless to close it.
LEMMA WireRunOne == InStepInv /\ RunOne => InStep'
<1> SUFFICES ASSUME InStepInv, RunOne PROVE InStep'
  OBVIOUS
<1> USE DEF InStepInv, TypeInv
<1>1. UNCHANGED <<pc, calls, res, ret, net>> /\ (socket' = "open" => socket' = socket)
  BY DEF RunOne, WaitDeadline, CompletionHandler, CloseSocket
<1>2. /\ Quiet' <=> Quiet
      /\ LatestOnly => LatestOnly'
      /\ peer' = "gone" => unanswered' = {}
  BY <1>1, SameWire DEF InStep, net
<1>3. /\ Completed("ok")' => Completed("ok")
      /\ Completed("error")' => Completed("error")
      /\ socket' = "open" => (Completed("aborted")' => Completed("aborted"))
  BY <1>1, RunOneCompleted
<1>4. pending' => pending
  BY DEF RunOne, WaitDeadline, CompletionHandler
\* The operation stays pending unless its socket is closed.
<1>5. socket' = "open" => pending' = pending
  BY DEF RunOne, WaitDeadline, CompletionHandler, CloseSocket
<1>6. OpenWire'
  BY <1>1, <1>2, <1>3, <1>5 DEF InStep, OpenWire, InLoop
<1>7. OwnAnswer'
  BY <1>1, <1>3 DEF InStep, OwnAnswer, InLoop, net
<1>8. pc' = "new" => socket' = "closed" /\ Quiet'
  BY DEF RunOne, Running, InLoop, Loops
<1> QED
  BY <1>2, <1>6, <1>7, <1>8 DEF InStep

\* An operation that completes carries the latest request or its answer.
LEMMA WireReactor == InStepInv /\ Reactor /\ ~leftover' => InStep'
<1> SUFFICES ASSUME InStepInv, Reactor, ~leftover' PROVE InStep'
  OBVIOUS
<1> USE DEF InStepInv, TypeInv
<1>1. CASE TimerFires
  <2>1. /\ UNCHANGED <<pc, ec, calls, res, ret, net, pending, socket>>
        /\ ready' = Append(ready, "wait_deadline")
    BY <1>1 DEF TimerFires, thread
  <2>2. ASSUME NEW c \in IoCodes PROVE Completed(c)' <=> Completed(c)
    <3>1. "wait_deadline" \in Handlers /\ "wait_deadline" \notin {c}
          /\ ready \in Seq(Handlers)
      BY DEF TypeOK, LoopTypes, Handlers, IoCodes
    <3>2. Has(ready', {c}) <=> Has(ready, {c})
      BY <2>1, <3>1, AppendHandler
    <3> QED
      BY <2>1, <3>2 DEF Completed, Queued, Has
  <2>3. /\ Completed("ok")' <=> Completed("ok")
        /\ Completed("error")' <=> Completed("error")
        /\ Completed("aborted")' <=> Completed("aborted")
    BY <2>2 DEF IoCodes
  <2>4. /\ Quiet' <=> Quiet
        /\ LatestOnly => LatestOnly'
        /\ peer' = "gone" => unanswered' = {}
    BY <2>1, SameWire DEF InStep, net
  <2>5. OpenWire'
    BY <2>1, <2>3, <2>4 DEF InStep, OpenWire, InLoop
  <2>6. OwnAnswer'
    BY <2>1, <2>3 DEF InStep, OwnAnswer, InLoop, net
  <2> QED
    BY <2>1, <2>4, <2>5, <2>6 DEF InStep
\* What an operation that completes finds, and leaves.
<1>2. ASSUME NEW s \in Loops, NEW c \in IoCodes, Completes(s, c)
      PROVE  /\ pc = s /\ pc' = s /\ pc' # "new" /\ InLoop /\ InLoop'
             /\ pending /\ ~pending' /\ socket = "open"
             /\ UNCHANGED <<calls, ret, socket>>
             /\ Completed("ok")' <=> c = "ok"
             /\ Completed("error")' <=> c = "error"
             /\ Completed("aborted")' <=> c = "aborted"
  <2>1. /\ pc = s /\ pc' = s /\ pc' # "new" /\ InLoop /\ InLoop' /\ pending /\ ~pending'
        /\ UNCHANGED <<calls, ret, socket>>
    BY <1>2 DEF Completes, InLoop, Loops
  <2>2. socket = "open"
    BY <2>1, LoopInvOf
  <2>3. /\ Completed("ok")' <=> c = "ok"
        /\ Completed("error")' <=> c = "error"
        /\ Completed("aborted")' <=> c = "aborted"
    BY <1>2, CompletesCompleted DEF IoCodes
  <2> QED
    BY <2>1, <2>2, <2>3
<1>3. CASE ConnectCompletes \/ HandshakeCompletes
  <2>1. PICK s \in {"connect", "handshake"}, c \in {"ok", "error"} : Completes(s, c)
    BY <1>3 DEF ConnectCompletes, HandshakeCompletes
  <2>2. /\ pc = s /\ pc' = s /\ InLoop /\ socket = "open"
        /\ UNCHANGED <<calls, ret, socket>> /\ ~Completed("aborted")'
    BY <1>2, <2>1 DEF Loops, IoCodes
  <2>3. UNCHANGED net
    BY <1>3 DEF ConnectCompletes, HandshakeCompletes
  <2>4. Quiet' /\ (peer' = "gone" => unanswered' = {})
    BY <2>2, <2>3, SameWire DEF InStep, OpenWire, net
  <2> QED
    BY <2>2, <2>4 DEF InStep, OpenWire, OwnAnswer, InLoop, Loops
<1>4. CASE WriteCompletes
  <2>1. PICK c \in {"ok", "error"} : Completes("write", c)
    BY <1>4 DEF WriteCompletes
  <2>2. /\ pc = "write" /\ pc' = "write" /\ InLoop /\ pending /\ ~pending' /\ socket = "open"
        /\ UNCHANGED <<calls, ret, socket>> /\ ~Completed("aborted")'
        /\ Completed("error")' <=> c = "error"
    BY <1>2, <2>1 DEF Loops, IoCodes
  <2>3. Quiet /\ ret' = 0
    BY <2>2 DEF InStep, OpenWire, OwnAnswer
  <2>4. CASE /\ peer = "up" /\ unanswered' = unanswered \cup {calls}
             /\ served' = served \cup {calls} /\ Completes("write", "ok")
    <3>1. ~Completed("error")' /\ UNCHANGED <<peer, wire>>
      BY <1>2, <1>4, <2>4 DEF WriteCompletes, Loops, IoCodes
    <3>2. LatestOnly'
      BY <2>2, <2>3, <2>4, <3>1 DEF Quiet, LatestOnly
    <3> QED
      BY <2>2, <2>3, <2>4, <3>1, <3>2 DEF InStep, OpenWire, OwnAnswer
  <2>5. CASE peer = "gone" /\ UNCHANGED <<unanswered, served>>
    <3>1. Quiet' /\ unanswered' = {}
      BY <1>4, <2>3, <2>5 DEF WriteCompletes, Quiet
    <3>2. LatestOnly'
      BY <3>1 DEF Quiet, LatestOnly
    <3> QED
      BY <2>2, <2>3, <3>1, <3>2 DEF InStep, OpenWire, OwnAnswer
  <2> QED
    BY <1>4, <2>4, <2>5 DEF WriteCompletes
<1>5. CASE ReadCompletes
  <2>1. PICK c \in {"ok", "error"} : Completes("read", c) /\ (c = "ok" => wire # <<>> /\ res' = Head(wire))
    BY <1>5 DEF ReadCompletes
  <2>2. /\ pc = "read" /\ pc' = "read" /\ InLoop /\ socket = "open" /\ ~pending'
        /\ UNCHANGED <<calls, ret, socket>> /\ ~Completed("aborted")'
        /\ Completed("ok")' <=> c = "ok"
    BY <1>2, <2>1 DEF Loops, IoCodes
  <2>3. LatestOnly /\ ret' = 0 /\ wire \in Seq(Messages)
    BY <2>2 DEF InStep, OpenWire, OwnAnswer, TypeOK, NetTypes
  <2>4. UNCHANGED <<peer, unanswered, served>>
    BY <1>5 DEF ReadCompletes
  <2>5. wire' = <<>> /\ unanswered' = {}
    <3>1. CASE wire # <<>> /\ wire' = Tail(wire)
      BY <2>3, <2>4, <3>1 DEF LatestOnly
    <3>2. CASE wire = <<>> /\ peer = "gone" /\ UNCHANGED wire
      BY <2>4, <3>2 DEF InStep
    <3> QED
      <4>1. ASSUME NEW rest \in Rest(Head(wire)), wire' = rest \o Tail(wire), wire # <<>>,
                   leftover' = (leftover \/ rest # <<>>)
            PROVE  wire' = Tail(wire)
        <5>0. rest = <<>>
          BY <4>1, Zenon
        <5>1. Tail(wire) \in Seq(Messages)
          BY <2>3, <4>1
        <5>2. <<>> \o Tail(wire) = Tail(wire)
          BY <5>1
        <5> QED
          BY <4>1, <5>0, <5>2
      <4> QED
        BY <1>5, <3>1, <3>2, <4>1 DEF ReadCompletes
  <2>6. Quiet' /\ LatestOnly'
    BY <2>5 DEF Quiet, LatestOnly
  <2>7. Completed("ok")' => res'.id = calls' /\ calls' \in served'
    <3>1. ASSUME c = "ok" PROVE res'.id = calls /\ calls \in served
      BY <2>1, <2>3, <3>1 DEF LatestOnly, Quiet
    <3> QED
      BY <2>2, <2>4, <3>1
  <2> QED
    BY <2>2, <2>3, <2>5, <2>6, <2>7 DEF InStep, OpenWire, OwnAnswer
<1> QED
  BY <1>1, <1>3, <1>4, <1>5 DEF Reactor

\* The server can only answer the latest request.
LEMMA WireEnvironment == InStepInv /\ Environment => InStep'
<1> SUFFICES ASSUME InStepInv, Environment PROVE InStep'
  OBVIOUS
<1> USE DEF InStepInv, TypeInv
<1>0. /\ UNCHANGED <<pc, ec, calls, res, ret, ready, pending, socket, served>>
      /\ InLoop' <=> InLoop
  BY DEF Environment, ServerAnswers, PeerDrops, Tick, thread, loop, net, InLoop
<1>1. /\ Completed("ok")' <=> Completed("ok")
      /\ Completed("error")' <=> Completed("error")
      /\ Completed("aborted")' <=> Completed("aborted")
  BY <1>0 DEF Completed, Queued
<1>2. OwnAnswer'
  BY <1>0, <1>1 DEF InStep, OwnAnswer
<1>3. CASE ServerAnswers
  <2>1. PICK i \in unanswered, b \in Bodies :
           /\ wire' = Append(wire, [id |-> i, body |-> b])
           /\ unanswered' = unanswered \ {i}
    BY <1>3 DEF ServerAnswers
  <2>2. ~Quiet /\ socket = "open" /\ peer' = "up"
    BY <1>3, <2>1 DEF ServerAnswers, Quiet
  <2>3. LatestOnly => LatestOnly'
    <3>1. ASSUME LatestOnly PROVE i = calls /\ unanswered' = {} /\ wire = <<>> /\ calls \in served
      BY <2>1, <2>2, <3>1 DEF LatestOnly
    <3>2. ASSUME LatestOnly PROVE Len(wire') = 1 /\ wire'[1].id = calls
      BY <2>1, <3>1, <3>2
    <3> QED
      BY <1>0, <3>1, <3>2 DEF LatestOnly
  <2> QED
    BY <1>0, <1>1, <1>2, <2>2, <2>3 DEF InStep, OpenWire
<1>4. CASE PeerDrops
  <2>1. Quiet => Quiet'
    BY <1>4 DEF PeerDrops, Quiet
  <2>2. LatestOnly => LatestOnly'
    BY <1>0, <1>4 DEF PeerDrops, LatestOnly, Quiet
  <2> QED
    BY <1>0, <1>1, <1>2, <1>4, <2>1, <2>2 DEF InStep, OpenWire, PeerDrops
<1>5. CASE Tick
  <2>1. UNCHANGED net
    BY <1>5 DEF Tick
  <2>2. /\ Quiet' <=> Quiet
        /\ LatestOnly => LatestOnly'
        /\ peer' = "gone" => unanswered' = {}
    BY <1>0, <2>1, SameWire DEF InStep, net
  <2> QED
    BY <1>0, <1>1, <1>2, <2>2 DEF InStep, OpenWire
<1> QED
  BY <1>3, <1>4, <1>5 DEF Environment

\* From the moment a read leaves a rest behind, nothing is claimed.
LEMMA WireNext == IInv /\ [Next]_vars => WireInv'
<1> SUFFICES ASSUME IInv, [Next]_vars, ~leftover' PROVE InStep'
  BY DEF WireInv
<1>1. ~leftover
  BY DEF Next, vars, net, Calls, Returns, Reactor, Environment, ResolveFails, ServerNameFails,
         Connect, Request, DumpThrows, Destroy, Gone, ConnectReturns, HandshakeReturns,
         WriteReturns, ReadReturns, RunOne, ShutdownReturns, TimerFires, ConnectCompletes,
         HandshakeCompletes, WriteCompletes, ReadCompletes, ServerAnswers, PeerDrops, Tick
<1>2. InStepInv /\ InStep
  BY <1>1 DEF IInv, WireInv, InStepInv
<1>3. CASE ShutdownReturns
  <2>1. pc' = "destroyed" /\ UNCHANGED net
    BY <1>3 DEF ShutdownReturns, Gone
  <2> QED
    BY <1>2, <2>1 DEF InStep, OpenWire, OwnAnswer, InLoop, Loops, net
<1>4. CASE UNCHANGED vars
  BY <1>2, <1>4
  DEF vars, thread, loop, net, InStep, OpenWire, OwnAnswer, InLoop, Completed,
      Queued, Quiet, LatestOnly
<1> QED
  BY <1>2, <1>3, <1>4, WireCalls, WireReturns, WireRunOne, WireReactor, WireEnvironment
  DEF Next

\* The constructor establishes the invariant.
LEMMA IInvInit == Init => IInv
<1> SUFFICES ASSUME Init PROVE IInv
  OBVIOUS
<1>1. TypeInv
  BY TypeInit
<1>2. LoopInv
  BY LoopInvOf DEF Init, Has, One
<1>3. ClockInv
  BY DEF Init, ClockInv
<1>4. WireInv
  BY DEF Init, WireInv, InStep, OpenWire, OwnAnswer, InLoop, Loops, Quiet
<1> QED
  BY <1>1, <1>2, <1>3, <1>4 DEF IInv

\* Every step keeps the invariant.
LEMMA IInvNext == IInv /\ [Next]_vars => IInv'
  BY TypeNext, LoopNext, ClockNext, WireNext DEF IInv

\* IInv holds in every state of a session, whatever the peer and the network do.
THEOREM Invariance == Spec => []IInv
  BY IInvInit, IInvNext, PTL DEF Spec

-----------------------------------------------------------------------------
(***************************************************************************)
(* What follows from the invariant.                                        *)
(***************************************************************************)
\* The event loop has exactly one wait of its timer until the session is
\* destroyed: neither run_one() spinning on an empty io_context, nor handlers of
\* wait_deadline piling up, however often calls restart the timer.
THEOREM LoopNeverStarves == Spec => []OneDeadlineWait
<1>1. IInv => OneDeadlineWait
  BY DEF IInv, LoopInv
<1> QED
  BY <1>1, Invariance, PTL

\* No completion handler of connect, handshake, write or read outlives the call
\* whose local variable it writes.
THEOREM HandlersEndWithTheirCall == Spec => []NoDanglingHandler
<1>1. IInv => NoDanglingHandler
  <2> SUFFICES ASSUME IInv PROVE NoDanglingHandler
    OBVIOUS
  <2>1. Running => InLoop
    BY DEF Running
  <2> QED
    BY <2>1 DEF IInv, LoopInv, NoDanglingHandler
<1> QED
  BY <1>1, Invariance, PTL

\* request() and get() return the answer to the request they wrote, for every
\* timeout and every number of requests on one connection.
THEOREM OwnAnswers == Spec => []AnswerIsForThisRequest
<1>1. IInv => AnswerIsForThisRequest
  BY DEF IInv, WireInv, InStep, OwnAnswer, AnswerIsForThisRequest
<1> QED
  BY <1>1, Invariance, PTL

\* wait_deadline closes the socket of a running operation only when that
\* operation has had the whole timeout.
THEOREM FullTimeout == Spec => NoEarlyTimeout
<1>1. ASSUME IInv, [Next]_vars, InLoop, socket = "open", socket' = "closed"
      PROVE  elapsed = Timeout
  <2> USE TimeoutIsNat
  <2>1. RunOne /\ WaitDeadline
    BY <1>1
    DEF Next, Calls, Returns, Reactor, Environment, vars, config, thread, loop, net,
        ResolveFails, ServerNameFails, Connect, Request, DumpThrows, NewRequest, Destroy,
        Gone, ConnectReturns, HandshakeReturns, WriteReturns, ReadReturns, GiveUp, RunOne,
        CompletionHandler, ShutdownReturns, TimerFires, ConnectCompletes,
        HandshakeCompletes, WriteCompletes, ReadCompletes, Completes, ServerAnswers,
        PeerDrops, Tick, InLoop, Loops
  <2>2. deadline = 0
    BY <1>1, <2>1 DEF WaitDeadline, Expired
  <2>3. elapsed \in 0..Timeout
    BY <1>1 DEF IInv, TypeInv, TypeOK, LoopTypes
  <2> QED
    BY <1>1, <2>2, <2>3 DEF IInv, ClockInv, PosInfin
<1>2. IInv /\ [Next]_vars
      => [InLoop /\ socket = "open" /\ socket' = "closed" => elapsed = Timeout]_vars
  BY <1>1
<1> QED
  BY <1>2, Invariance, PTL DEF Spec, NoEarlyTimeout


-----------------------------------------------------------------------------
(***************************************************************************)
(* Why every call returns.  EveryCallReturns itself is a matter of          *)
(* fairness; what the code contributes to it is proved here: a call that    *)
(* waits has something that ends its wait, and no call waits busily.        *)
(***************************************************************************)
\* NeverWaitsInVain without the wait of the timer, which LoopInv provides.
Armed == Running => Has(ready, IoCodes) \/ (pending /\ deadline # PosInfin)

LEMMA ArmedIsEnough ==
  ASSUME LoopInv
  PROVE  NeverWaitsInVain <=> Armed
<1>1. Running => pc # "destroyed"
  BY DEF Running, InLoop, Loops
<1>2. Running => (waiting \/ Has(ready, {"wait_deadline"}))
  BY <1>1, LoopInvOf
<1>3. /\ Queued(IoCodes) <=> Has(ready, IoCodes)
      /\ Queued({"wait_deadline"}) <=> Has(ready, {"wait_deadline"})
  BY DEF Queued, Has
<1> QED
  BY <1>2, <1>3 DEF NeverWaitsInVain, Armed

\* A call that starts an operation sets the deadline; on a socket that is not
\* open the completion is queued at once.
LEMMA StartArmed ==
  ASSUME TypeOK, LoopInv, pc # "destroyed", NEW s \in Loops, StartOperation(s)
  PROVE  Armed'
<1>1. deadline' # PosInfin
  BY TimeoutIsNat DEF StartOperation, ExpiresFromNow, PosInfin
<1>2. CASE socket' = "open"
  BY <1>1, <1>2 DEF StartOperation, Armed
<1>3. CASE socket' # "open"
  <2>1. Woken \in Seq(Handlers) /\ "error" \in Handlers /\ "error" \in IoCodes
    BY WokenQueue DEF Handlers, IoCodes
  <2>2. ready' = Append(Woken, "error")
    BY <1>3 DEF StartOperation
  <2>3. Has(ready', IoCodes)
    BY <2>1, <2>2, AppendHandler
  <2> QED
    BY <2>3, Zenon DEF Armed, Has
<1> QED
  BY <1>2, <1>3

\* The handlers of the loop hand the duty to end the wait to each other: an
\* expired deadline aborts the operation, whose completion is queued.
LEMMA ArmedRunOne == TypeOK /\ LoopInv /\ Armed /\ RunOne => Armed'
<1> SUFFICES ASSUME TypeOK, LoopInv, Armed, RunOne PROVE Armed'
  OBVIOUS
<1>0. Running /\ pc' = pc /\ ready \in Seq(Handlers) /\ ready # <<>>
  BY DEF RunOne, TypeOK, LoopTypes
<1>1. /\ Tail(ready) \in Seq(Handlers)
      /\ Has(ready, IoCodes) <=> Has(Tail(ready), IoCodes) \/ Head(ready) \in IoCodes
  BY <1>0, TailHandler
<1>2. CASE Head(ready) = "wait_deadline" /\ WaitDeadline
  <2>1. Has(ready, IoCodes) <=> Has(Tail(ready), IoCodes)
    BY <1>1, <1>2 DEF IoCodes
  <2>2. CASE Expired /\ pending
    <3>1. ready' = Append(Tail(ready), "aborted") /\ "aborted" \in Handlers /\ "aborted" \in IoCodes
      BY <1>2, <2>2 DEF WaitDeadline, Handlers, IoCodes
    <3>2. Has(ready', IoCodes)
      BY <1>1, <3>1, AppendHandler
    <3> QED
      BY <3>2, Zenon DEF Armed, Has
  <2>3. CASE Expired /\ ~pending
    <3>1. ready' = Tail(ready)
      BY <1>2, <2>3 DEF WaitDeadline
    <3>2. Running => Has(ready', IoCodes)
      BY <2>1, <2>3, <3>1 DEF Armed
    <3> QED
      BY <1>0, <3>2, Zenon DEF Armed, Has
  <2>4. CASE ~Expired
    <3>1. ready' = Tail(ready) /\ UNCHANGED <<pending, deadline>>
      BY <1>2, <2>4 DEF WaitDeadline
    <3> QED
      BY <1>0, <2>1, <3>1 DEF Armed, PosInfin
  <2> QED
    BY <2>2, <2>3, <2>4
<1>3. CASE Head(ready) \in IoCodes /\ CompletionHandler
  BY <1>3 DEF CompletionHandler, Armed, Running, IoCodes
<1> QED
  BY <1>2, <1>3 DEF RunOne

\* Every step keeps it.
LEMMA ArmedNext == TypeInv /\ LoopInv /\ Armed /\ [Next]_vars => Armed'
<1> SUFFICES ASSUME TypeOK, LoopInv, Armed, [Next]_vars PROVE Armed'
  BY DEF TypeInv
<1> USE DEF Loops
<1>0. ready \in Seq(Handlers)
  BY DEF TypeOK, LoopTypes
<1>1. CASE Calls \/ Returns \/ ShutdownReturns
  <2>1. pc # "destroyed"
    BY <1>1
    DEF Calls, ResolveFails, ServerNameFails, Connect, Request, DumpThrows, NewRequest,
        Destroy, Returns, ConnectReturns, HandshakeReturns, WriteReturns, ReadReturns, Left,
        ShutdownReturns
  <2>2. (\E s \in Loops : StartOperation(s)) \/ ~InLoop'
    BY <1>1
    DEF Calls, ResolveFails, ServerNameFails, Connect, Request, DumpThrows, NewRequest,
        Destroy, Gone, Returns, ConnectReturns, HandshakeReturns, WriteReturns, ReadReturns,
        GiveUp, ShutdownReturns, InLoop
  <2> QED
    BY <2>1, <2>2, StartArmed DEF Armed, Running
<1>2. CASE RunOne
  BY <1>2, ArmedRunOne
<1>3. CASE TimerFires
  <2>1. /\ ready' = Append(ready, "wait_deadline") /\ "wait_deadline" \in Handlers
        /\ UNCHANGED <<pc, ec, pending, deadline>>
    BY <1>3 DEF TimerFires, thread, Handlers
  <2>2. Has(ready, IoCodes) => Has(ready', IoCodes)
    BY <1>0, <2>1, AppendHandler
  <2> QED
    BY <2>1, <2>2 DEF Armed, Running, InLoop, PosInfin
<1>4. CASE ConnectCompletes \/ HandshakeCompletes \/ WriteCompletes \/ ReadCompletes
  <2>1. PICK s \in Loops, c \in IoCodes : Completes(s, c)
    BY <1>4
    DEF ConnectCompletes, HandshakeCompletes, WriteCompletes, ReadCompletes, IoCodes
  <2>2. ready' = Append(ready, c) /\ c \in Handlers
    BY <2>1 DEF Completes, Handlers
  <2>3. Has(ready', IoCodes)
    BY <1>0, <2>1, <2>2, AppendHandler
  <2> QED
    BY <2>3, Zenon DEF Armed, Has
<1>5. CASE Environment \/ UNCHANGED vars
  <2>1. UNCHANGED <<pc, ec, ready, pending>>
    BY <1>5 DEF Environment, ServerAnswers, PeerDrops, Tick, vars, thread, loop
  <2>2. deadline # PosInfin => deadline' # PosInfin
    <3>1. deadline \in 0..(Timeout + 1) /\ Timeout \in Nat
      BY TimeoutIsNat DEF TypeOK, LoopTypes, PosInfin
    <3>2. deadline' = deadline \/ (deadline \in 1..Timeout /\ deadline' = deadline - 1)
      BY <1>5 DEF Environment, ServerAnswers, PeerDrops, Tick, vars, loop
    <3> QED
      BY <3>1, <3>2 DEF PosInfin
  <2> QED
    BY <2>1, <2>2 DEF Armed, Running, InLoop
<1> QED
  BY <1>1, <1>2, <1>3, <1>4, <1>5 DEF Next, Reactor

\* A call that runs the event loop always has something that will end its wait:
\* no order of completions, stale handlers and expiries leaves it with an
\* operation that nothing bounds, for any timeout.
THEOREM WaitsEnd == Spec => []NeverWaitsInVain
<1>1. Init => Armed
  BY DEF Init, Armed, Running, InLoop, Loops
<1>2. IInv /\ Armed /\ [Next]_vars => Armed'
  BY ArmedNext DEF IInv
<1>3. IInv /\ Armed => NeverWaitsInVain
  BY ArmedIsEnough DEF IInv
<1> QED
  BY <1>1, <1>2, <1>3, Invariance, PTL DEF Spec

\* What is left for the timer and for the operation, said of Has.
LEMMA StepsLeftOf ==
  /\ TimerStepsLeft = IF Has(ready, {"wait_deadline"})
                        THEN IF deadline \in 1..Timeout THEN 3 ELSE 1
                        ELSE IF deadline = PosInfin THEN 0 ELSE 2
  /\ OperationStepsLeft = IF pending THEN 2 ELSE IF Has(ready, IoCodes) THEN 1 ELSE 0
<1>1. /\ Queued(IoCodes) <=> Has(ready, IoCodes)
      /\ Queued({"wait_deadline"}) <=> Has(ready, {"wait_deadline"})
  BY DEF Queued, Has
<1> QED
  BY <1>1 DEF TimerStepsLeft, OperationStepsLeft

\* The same, of the next state.
LEMMA StepsLeftOfNext ==
  /\ TimerStepsLeft' = IF Has(ready', {"wait_deadline"})
                         THEN IF deadline' \in 1..Timeout THEN 3 ELSE 1
                         ELSE IF deadline' = PosInfin THEN 0 ELSE 2
  /\ OperationStepsLeft' = IF pending' THEN 2 ELSE IF Has(ready', IoCodes) THEN 1 ELSE 0
<1>1. /\ Queued(IoCodes)' <=> Has(ready', IoCodes)
      /\ Queued({"wait_deadline"})' <=> Has(ready', {"wait_deadline"})
  BY DEF Queued, Has
<1> QED
  BY <1>1 DEF TimerStepsLeft, OperationStepsLeft, PosInfin

\* How many steps of each kind there can be.
LEMMA StepsAreFew ==
  /\ TimerStepsLeft \in 0..3 /\ OperationStepsLeft \in 0..2
  /\ TimerStepsLeft' \in 0..3 /\ OperationStepsLeft' \in 0..2
  BY StepsLeftOf, StepsLeftOfNext

\* The rest of a loop, with e ticks passed and t and o steps left to the timer and
\* the operation, fits into the steps of one loop.
LEMMA LoopFits ==
  ASSUME NEW e \in 0..Timeout, NEW t \in 0..3, NEW o \in 0..2
  PROVE  /\ 0 + (Timeout - e) + t + o + 1 \in 1..LoopSteps
         /\ LoopSteps + (Timeout - e) + t + o + 1 \in (LoopSteps + 1)..(LoopSteps + LoopSteps)
  BY TimeoutIsNat DEF LoopSteps

\* Of three numbers, and the ticks that are left, none grows and one shrinks.
LEMMA OneOfThree ==
  ASSUME NEW w \in Nat, NEW e \in 0..Timeout, NEW f \in 0..Timeout,
         NEW t \in 0..3, NEW u \in 0..3, NEW o \in 0..2, NEW p \in 0..2,
         f >= e, u <= t, p <= o, f > e \/ u < t \/ p < o
  PROVE  /\ w + (Timeout - f) + u + p + 1 \in 0..(w + (Timeout - e) + t + o + 1)
         /\ w + (Timeout - f) + u + p + 1 < w + (Timeout - e) + t + o + 1
  BY TimeoutIsNat

\* A step inside a loop that uses up a tick, a step of the timer or one of the
\* operation uses up a step of the call.
LEMMA StepOfLoop ==
  ASSUME TypeOK, TypeOK', InLoop, pc' = pc,
         elapsed' >= elapsed, TimerStepsLeft' <= TimerStepsLeft,
         OperationStepsLeft' <= OperationStepsLeft,
         \/ elapsed' > elapsed
         \/ TimerStepsLeft' < TimerStepsLeft
         \/ OperationStepsLeft' < OperationStepsLeft
  PROVE  StepsLeft' \in 0..StepsLeft /\ StepsLeft' < StepsLeft
<1> USE TimeoutIsNat
<1> DEFINE later == IF pc \in {"connect", "write"} THEN LoopSteps ELSE 0
<1>1. later \in Nat
  BY DEF LoopSteps
<1>2. elapsed \in 0..Timeout /\ elapsed' \in 0..Timeout
  BY DEF TypeOK, LoopTypes
<1>3. StepsLeft = later + (Timeout - elapsed) + TimerStepsLeft + OperationStepsLeft + 1
  BY DEF StepsLeft
<1>4. StepsLeft' = later + (Timeout - elapsed') + TimerStepsLeft' + OperationStepsLeft' + 1
  BY DEF StepsLeft, InLoop, LoopSteps
<1> HIDE DEF later
<1>5. elapsed' >= elapsed
  OBVIOUS
<1> QED
  BY <1>1, <1>2, <1>3, <1>4, <1>5, StepsAreFew, OneOfThree

\* The step that leaves a loop uses up its last step, and the loop that may come
\* after it is paid for.
LEMMA LoopReturns ==
  ASSUME TypeOK, TypeOK', InLoop,
         \/ ~InLoop'
         \/ pc \in {"connect", "write"} /\ pc' \in {"handshake", "read"}
  PROVE  StepsLeft' \in 0..StepsLeft /\ StepsLeft' < StepsLeft
<1> USE TimeoutIsNat
<1>1. elapsed \in 0..Timeout /\ elapsed' \in 0..Timeout
  BY DEF TypeOK, LoopTypes
<1>2. LoopSteps \in Nat
  BY DEF LoopSteps
<1>3. CASE ~InLoop'
  <2>1. StepsLeft' = 0
    BY <1>3 DEF StepsLeft
  <2>2. CASE pc \in {"connect", "write"}
    <3>1. StepsLeft = LoopSteps + (Timeout - elapsed) + TimerStepsLeft + OperationStepsLeft + 1
      BY <2>2 DEF StepsLeft
    <3>2. StepsLeft \in (LoopSteps + 1)..(LoopSteps + LoopSteps)
      BY <1>1, <3>1, StepsAreFew, LoopFits
    <3> QED
      BY <1>2, <2>1, <3>2
  <2>3. CASE pc \notin {"connect", "write"}
    <3>1. StepsLeft = 0 + (Timeout - elapsed) + TimerStepsLeft + OperationStepsLeft + 1
      BY <2>3 DEF StepsLeft
    <3>2. StepsLeft \in 1..LoopSteps
      BY <1>1, <3>1, StepsAreFew, LoopFits
    <3> QED
      BY <1>2, <2>1, <3>2
  <2> QED
    BY <2>2, <2>3
<1>4. CASE pc \in {"connect", "write"} /\ pc' \in {"handshake", "read"}
  <2>1. StepsLeft = LoopSteps + (Timeout - elapsed) + TimerStepsLeft + OperationStepsLeft + 1
    BY <1>4 DEF StepsLeft
  <2>2. StepsLeft' = 0 + (Timeout - elapsed') + TimerStepsLeft' + OperationStepsLeft' + 1
    BY <1>4 DEF StepsLeft, InLoop, Loops
  <2>3. StepsLeft \in (LoopSteps + 1)..(LoopSteps + LoopSteps)
    BY <1>1, <2>1, StepsAreFew, LoopFits
  <2>4. StepsLeft' \in 1..LoopSteps
    BY <1>1, <2>2, StepsAreFew, LoopFits
  <2> QED
    BY <1>2, <2>3, <2>4
<1> QED
  BY <1>3, <1>4

\* Handlers that run_one() runs are used up: wait_deadline, which may find the
\* timer expired, and the completion handler.
LEMMA RunOneCounts ==
  ASSUME TypeOK, TypeOK', LoopInv, LoopInv', RunOne
  PROVE  StepsLeft' \in 0..StepsLeft /\ StepsLeft' < StepsLeft
<1> USE TimeoutIsNat
<1>0. /\ Running /\ InLoop /\ pc' = pc /\ pc # "destroyed" /\ elapsed' = elapsed
      /\ ready \in Seq(Handlers) /\ ready # <<>>
      /\ deadline \in 0..PosInfin /\ elapsed \in 0..Timeout
  BY DEF RunOne, Running, InLoop, Loops, TypeOK, LoopTypes
<1>1. \A H : Has(ready, H) <=> Has(Tail(ready), H) \/ Head(ready) \in H
  BY <1>0, TailHandler
<1>2. CASE Head(ready) = "wait_deadline" /\ WaitDeadline
  <2>1. Has(ready, {"wait_deadline"}) /\ ~Has(ready', {"wait_deadline"})
    <3>1. waiting'
      BY <1>2 DEF WaitDeadline, WaitAgain
    <3> QED
      BY <1>0, <1>1, <1>2, <3>1, LoopInvOfNext
  <2>2. Has(ready, IoCodes) <=> Has(Tail(ready), IoCodes)
    BY <1>1, <1>2 DEF IoCodes
  <2>3. CASE Expired
    <3>1. deadline = 0 /\ deadline' = PosInfin /\ ~pending'
      BY <1>2, <2>3 DEF WaitDeadline, Expired, Disarm
    <3>2. TimerStepsLeft = 1 /\ TimerStepsLeft' = 0
      BY <2>1, <3>1, StepsLeftOf, StepsLeftOfNext
    <3>3. OperationStepsLeft' <= OperationStepsLeft
      <4>1. CASE pending
        BY <3>1, <4>1, StepsLeftOf, StepsLeftOfNext
      <4>2. CASE ~pending
        <5>1. ready' = Tail(ready)
          BY <1>2, <2>3, <4>2 DEF WaitDeadline
        <5> QED
          BY <2>2, <3>1, <4>2, <5>1, StepsLeftOf, StepsLeftOfNext
      <4> QED
        BY <4>1, <4>2
    <3> QED
      BY <1>0, <3>2, <3>3, StepOfLoop
  <2>4. CASE ~Expired
    <3>1. ready' = Tail(ready) /\ deadline # 0 /\ UNCHANGED <<pending, deadline>>
      BY <1>2, <2>4 DEF WaitDeadline, Expired
    <3>2. OperationStepsLeft' = OperationStepsLeft
      BY <2>2, <3>1, StepsLeftOf, StepsLeftOfNext
    <3>3. TimerStepsLeft' < TimerStepsLeft
      <4>1. deadline \in 1..Timeout \/ deadline = PosInfin
        BY <1>0, <3>1 DEF PosInfin
      <4>2. CASE deadline \in 1..Timeout
        BY <2>1, <3>1, <4>2, StepsLeftOf, StepsLeftOfNext DEF PosInfin
      <4>3. CASE deadline = PosInfin
        BY <2>1, <3>1, <4>3, StepsLeftOf, StepsLeftOfNext DEF PosInfin
      <4> QED
        BY <4>1, <4>2, <4>3
    <3> QED
      BY <1>0, <3>2, <3>3, StepsAreFew, StepOfLoop
  <2> QED
    BY <2>3, <2>4
<1>3. CASE Head(ready) \in IoCodes /\ CompletionHandler
  <2>1. ready' = Tail(ready) /\ UNCHANGED <<pending, deadline>>
    BY <1>3 DEF CompletionHandler
  <2>2. Has(ready, IoCodes) /\ ~Has(ready', IoCodes) /\ ~pending
    <3>1. ec' # "would_block"
      BY <1>3 DEF CompletionHandler, IoCodes
    <3>2. ~Running'
      BY <3>1 DEF Running
    <3> QED
      BY <1>1, <1>3, <3>2, LoopInvOf, LoopInvOfNext
  <2>3. Has(ready', {"wait_deadline"}) <=> Has(ready, {"wait_deadline"})
    BY <1>1, <1>3, <2>1 DEF IoCodes
  <2>4. OperationStepsLeft = 1 /\ OperationStepsLeft' = 0
    BY <2>1, <2>2, StepsLeftOf, StepsLeftOfNext
  <2>5. TimerStepsLeft' = TimerStepsLeft
    BY <2>1, <2>3, StepsLeftOf, StepsLeftOfNext
  <2> QED
    BY <1>0, <2>4, <2>5, StepsAreFew, StepOfLoop
<1> QED
  BY <1>2, <1>3 DEF RunOne

\* So are the reports of the reactor: an expired timer, and an operation that
\* completes.
LEMMA ReactorCounts ==
  ASSUME TypeOK, TypeOK', LoopInv, LoopInv', Reactor
  PROVE  InLoop /\ StepsLeft' \in 0..StepsLeft /\ StepsLeft' < StepsLeft
<1> USE TimeoutIsNat
<1>0. ready \in Seq(Handlers)
  BY DEF TypeOK, LoopTypes
<1>1. CASE TimerFires
  <2>1. /\ ready' = Append(ready, "wait_deadline") /\ "wait_deadline" \in Handlers
        /\ InLoop /\ pc' = pc /\ pc # "destroyed" /\ waiting /\ deadline = 0
        /\ UNCHANGED <<pending, deadline, elapsed>>
    BY <1>1 DEF TimerFires, Running, InLoop, Loops, thread, Handlers
  <2>2. /\ ~Has(ready, {"wait_deadline"}) /\ Has(ready', {"wait_deadline"})
        /\ Has(ready', IoCodes) <=> Has(ready, IoCodes)
    <3>1. "wait_deadline" \notin IoCodes
      BY DEF IoCodes
    <3> QED
      BY <1>0, <2>1, <3>1, LoopInvOf, AppendHandler
  <2>3. OperationStepsLeft' = OperationStepsLeft
    BY <2>1, <2>2, StepsLeftOf, StepsLeftOfNext
  <2>4. TimerStepsLeft = 2 /\ TimerStepsLeft' = 1
    BY <2>1, <2>2, StepsLeftOf, StepsLeftOfNext DEF PosInfin
  <2>5. elapsed \in 0..Timeout
    BY DEF TypeOK, LoopTypes
  <2> QED
    BY <2>1, <2>3, <2>4, <2>5, StepsAreFew, StepOfLoop
<1>2. CASE ConnectCompletes \/ HandshakeCompletes \/ WriteCompletes \/ ReadCompletes
  <2>1. PICK s \in Loops, c \in IoCodes : Completes(s, c)
    BY <1>2
    DEF ConnectCompletes, HandshakeCompletes, WriteCompletes, ReadCompletes, Loops, IoCodes
  <2>2. /\ ready' = Append(ready, c) /\ c \in Handlers
        /\ InLoop /\ pc' = pc /\ pending /\ ~pending' /\ UNCHANGED <<deadline, elapsed>>
    BY <2>1 DEF Completes, Running, Handlers
  <2>3. Has(ready', {"wait_deadline"}) <=> Has(ready, {"wait_deadline"})
    <3>1. c \notin {"wait_deadline"}
      BY DEF IoCodes
    <3> QED
      BY <1>0, <2>2, <3>1, AppendHandler
  <2>4. TimerStepsLeft' = TimerStepsLeft
    BY <2>2, <2>3, StepsLeftOf, StepsLeftOfNext
  <2>5. OperationStepsLeft' < OperationStepsLeft
    BY <2>2, StepsLeftOf, StepsLeftOfNext
  <2>6. elapsed \in 0..Timeout
    BY DEF TypeOK, LoopTypes
  <2> QED
    BY <2>2, <2>4, <2>5, <2>6, StepsAreFew, StepOfLoop
<1> QED
  BY <1>1, <1>2 DEF Reactor

\* And so is a tick of the clock.
LEMMA TickCounts ==
  ASSUME TypeOK, TypeOK', InLoop, Tick
  PROVE  StepsLeft' \in 0..StepsLeft /\ StepsLeft' < StepsLeft
<1> USE TimeoutIsNat
<1>1. /\ UNCHANGED <<pc, ready, pending>> /\ elapsed \in 0..Timeout /\ elapsed' = elapsed + 1
      /\ deadline \in 0..PosInfin
      /\ deadline' = IF deadline \in 1..Timeout THEN deadline - 1 ELSE deadline
  BY DEF Tick, thread, TypeOK, LoopTypes
<1>2. OperationStepsLeft' = OperationStepsLeft
  BY <1>1, StepsLeftOf, StepsLeftOfNext
<1>3. TimerStepsLeft' <= TimerStepsLeft
  <2>1. CASE deadline \in 1..Timeout
    <3>1. deadline' = deadline - 1 /\ deadline # PosInfin /\ deadline' # PosInfin
      BY <1>1, <2>1 DEF PosInfin
    <3> QED
      BY <1>1, <2>1, <3>1, StepsLeftOf, StepsLeftOfNext
  <2>2. CASE deadline \notin 1..Timeout
    BY <1>1, <2>2, StepsLeftOf, StepsLeftOfNext, StepsAreFew
  <2> QED
    BY <2>1, <2>2
<1> QED
  BY <1>1, <1>2, <1>3, StepsAreFew, StepOfLoop

\* No call waits busily, for any timeout: twice Timeout + 6 steps of the thread,
\* the event loop and the clock are all that a connect, a request or a get takes.
THEOREM CallsAreShort == Spec => NoBusyWait
<1>1. ASSUME IInv, IInv', [Next]_vars, InLoop
      PROVE  /\ StepsLeft' \in 0..StepsLeft
             /\ ~UNCHANGED <<thread, loop, elapsed>> => StepsLeft' < StepsLeft
  <2> USE TimeoutIsNat
  <2>1. TypeOK /\ TypeOK' /\ LoopInv /\ LoopInv'
    BY <1>1 DEF IInv, TypeInv
  <2>2. CASE Calls \/ ShutdownReturns
    BY <1>1, <2>2
    DEF Calls, ResolveFails, ServerNameFails, Connect, Request, DumpThrows, NewRequest,
        Destroy, ShutdownReturns, InLoop, Loops
  <2>3. CASE Returns
    <3>1. ~InLoop' \/ (pc \in {"connect", "write"} /\ pc' \in {"handshake", "read"})
      BY <2>3
      DEF Returns, ConnectReturns, HandshakeReturns, WriteReturns, ReadReturns, Left, GiveUp,
          StartOperation, InLoop, Loops
    <3> QED
      BY <1>1, <2>1, <3>1, LoopReturns
  <2>4. CASE RunOne
    BY <2>1, <2>4, RunOneCounts
  <2>5. CASE Reactor
    BY <2>1, <2>5, ReactorCounts
  <2>6. CASE Tick
    BY <1>1, <2>1, <2>6, TickCounts
  <2>7. CASE UNCHANGED <<thread, loop, elapsed>>
    <3>1. UNCHANGED <<pc, ready, deadline, pending, elapsed>>
      BY <2>7 DEF thread, loop
    <3>2. StepsLeft' = StepsLeft /\ StepsLeft \in Nat
      <4>1. /\ TimerStepsLeft' = TimerStepsLeft /\ OperationStepsLeft' = OperationStepsLeft
        BY <3>1, StepsLeftOf, StepsLeftOfNext
      <4>2. elapsed \in 0..Timeout
        BY <2>1 DEF TypeOK, LoopTypes
      <4>3. StepsLeft' = StepsLeft
        BY <3>1, <4>1 DEF StepsLeft, InLoop, LoopSteps
      <4> QED
        BY <4>2, <4>3, StepsAreFew DEF StepsLeft, LoopSteps
    <3> QED
      BY <2>7, <3>2
  <2> QED
    BY <1>1, <2>2, <2>3, <2>4, <2>5, <2>6, <2>7
    DEF Next, Environment, ServerAnswers, PeerDrops, vars
<1>2. IInv /\ IInv' /\ [Next]_vars
      => [InLoop => /\ StepsLeft' \in 0..StepsLeft
                    /\ ~UNCHANGED <<thread, loop, elapsed>> => StepsLeft' < StepsLeft]_vars
  BY <1>1
<1> QED
  BY <1>2, Invariance, PTL DEF Spec, NoBusyWait

=============================================================================
