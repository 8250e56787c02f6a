--------------------------- MODULE ClientsProofs -----------------------------
(***************************************************************************)
(* Proofs about Clients, for any variables, sessions, requests and depth   *)
(* of handlers: a session lives while a client has it, is ready whenever   *)
(* the program runs, and is used as a channel may be used.                 *)
(*                                                                         *)
(* None of it is inductive without StackInv: only the last call that is    *)
(* open is inside a session, and no other session is in use; this is what  *)
(* a handler relies on when it uses the clients again.                     *)
(***************************************************************************)
EXTENDS Clients, SequenceTheorems, TLAPS

Entries == [client : Names \cup {"local"}, session : Sessions, in : {"session", "handler"}]

Channels ==
  [state : {"new", "opening", "ready", "busy", "closed"}, broken : BOOLEAN,
   calls : 0..MaxRequests, served : SUBSET (1..MaxRequests), ret : 0..MaxRequests,
   leftover : BOOLEAN]

InUse(s) == channel[s].state \in {"opening", "busy"}

\* All the calls but the last one are in a handler.
BelowInv == \A i \in 1..(Len(stack) - 1) : stack[i].in = "handler"

UseInv ==
  \A s \in Sessions : InUse(s) => stack # <<>> /\ Top.in = "session" /\ Top.session = s

StackInv == BelowInv /\ UseInv

\* A session is used for requests that were made, and breaks in use.
PathInv ==
  \A s \in Sessions :
    /\ channel[s].state = "busy" => channel[s].calls > 0
    /\ channel[s].state = "new" => ~channel[s].broken

IInv == TypeOK /\ StackInv /\ PathInv /\ LivesWhileHeld

USE MaxSessionsIsNat, MaxRequestsIsNat

-----------------------------------------------------------------------------
(***************************************************************************)
(* The stack of calls.                                                     *)
(***************************************************************************)
LEMMA StackTypes == TypeOK <=>
  /\ held \in [Names -> Sessions \cup {None}]
  /\ stack \in Seq(Entries)
  /\ channel \in [Sessions -> Channels]
  BY DEF TypeOK, Entries, Channels

\* While the program runs no session is in use.
LEMMA RunsUnused ==
  ASSUME UseInv, Runs, NEW s \in Sessions
  PROVE  ~InUse(s)
  BY DEF UseInv, Runs

\* Only the session that the last call is inside of is in use.
LEMMA InsideOnly ==
  ASSUME UseInv, NEW s \in Sessions, Inside(s, "opening") \/ Inside(s, "busy")
  PROVE  /\ InUse(s) /\ stack # <<>> /\ Top.in = "session" /\ Top.session = s
         /\ \A t \in Sessions \ {s} : ~InUse(t)
  BY DEF UseInv, Inside, InUse

\* A new call is the last one; the others are in handlers.
LEMMA PushStack ==
  ASSUME stack \in Seq(Entries), BelowInv, Runs, NEW c \in Names \cup {"local"},
         NEW s \in Sessions, NEW w \in {"session", "handler"}, Calls(c, s, w)
  PROVE  /\ stack' \in Seq(Entries) /\ BelowInv' /\ stack' # <<>>
         /\ Top'.in = w /\ Top'.session = s
<1> DEFINE e == [client |-> c, session |-> s, in |-> w]
<1>1. e \in Entries /\ e.in = w /\ e.session = s
  BY DEF Entries
<1>2. stack' = Append(stack, e)
  BY DEF Calls
<1>3. Len(stack) \in Nat
  OBVIOUS
<1> HIDE DEF e
<1>4. /\ stack' \in Seq(Entries) /\ Len(stack') = Len(stack) + 1
      /\ stack'[Len(stack) + 1] = e
      /\ \A i \in 1..Len(stack) : stack'[i] = stack[i]
  BY <1>1, <1>2, <1>3
<1>5. stack' # <<>>
  BY <1>3, <1>4, EmptySeq
<1>6. \A i \in 1..Len(stack) : stack[i].in = "handler"
  <2> TAKE i \in 1..Len(stack)
  <2>1. CASE i = Len(stack)
    <3>1. stack # <<>>
      BY EmptySeq
    <3> QED
      BY <2>1, <3>1 DEF Runs, Top
  <2>2. CASE i # Len(stack)
    BY <1>3, <2>2 DEF BelowInv
  <2> QED
    BY <2>1, <2>2
<1>7. BelowInv'
  BY <1>3, <1>4, <1>6 DEF BelowInv
<1> QED
  BY <1>1, <1>3, <1>4, <1>5, <1>7 DEF Top

\* After a call has returned, or is in its handler, the program runs.
LEMMA PopStack ==
  ASSUME stack \in Seq(Entries), BelowInv, stack # <<>>, Returns
  PROVE  stack' \in Seq(Entries) /\ BelowInv' /\ Runs'
<1>1. Len(stack) \in Nat \ {0} /\ stack' = SubSeq(stack, 1, Len(stack) - 1)
  BY EmptySeq DEF Returns, Popped
<1>2. /\ stack' \in Seq(Entries) /\ Len(stack') = Len(stack) - 1
      /\ \A i \in 1..(Len(stack) - 1) : stack'[i] = stack[i]
  <2> DEFINE n == Len(stack) - 1
  <2>0. 1 \in Int /\ n \in Int /\ n >= 0 /\ \A i \in 1..n : stack[i] \in Entries
    BY <1>1
  <2> HIDE DEF n
  <2>3. /\ SubSeq(stack, 1, n) \in Seq(Entries)
        /\ Len(SubSeq(stack, 1, n)) = IF 1 <= n THEN n - 1 + 1 ELSE 0
    BY <2>0, SubSeqProperties
  <2>4. Len(SubSeq(stack, 1, n)) = n
    BY <2>0, <2>3
  <2>1. stack' \in Seq(Entries) /\ Len(stack') = Len(stack) - 1
    BY <1>1, <2>3, <2>4 DEF n
  <2>2. \A i \in 1..(Len(stack) - 1) : stack'[i] = stack[i]
    BY <1>1
  <2> QED
    BY <2>1, <2>2
<1>3. BelowInv'
  BY <1>1, <1>2 DEF BelowInv
<1>4. Runs'
  <2> SUFFICES ASSUME stack' # <<>> PROVE Top'.in = "handler"
    BY DEF Runs
  <2>1. Len(stack') # 0
    BY <1>2, EmptySeq
  <2> QED
    BY <1>1, <1>2, <2>1 DEF Top, BelowInv
<1> QED
  BY <1>2, <1>3, <1>4

LEMMA HandlerStack ==
  ASSUME stack \in Seq(Entries), BelowInv, stack # <<>>, CallsHandler
  PROVE  stack' \in Seq(Entries) /\ BelowInv' /\ Runs'
<1>1. Len(stack) \in Nat \ {0}
  BY EmptySeq
<1>2. stack' = [stack EXCEPT ![Len(stack)] = [@ EXCEPT !.in = "handler"]]
  BY DEF CallsHandler
<1>3. stack[Len(stack)] \in Entries
  BY <1>1
<1> DEFINE e == [stack[Len(stack)] EXCEPT !.in = "handler"]
<1>4. e \in Entries /\ e.in = "handler"
  BY <1>3 DEF Entries
<1>5. stack' = [stack EXCEPT ![Len(stack)] = e]
  BY <1>2
<1> HIDE DEF e
<1>6. /\ stack' \in Seq(Entries) /\ Len(stack') = Len(stack)
      /\ stack'[Len(stack)] = e
      /\ \A i \in 1..(Len(stack) - 1) : stack'[i] = stack[i]
  BY <1>1, <1>4, <1>5
<1>7. BelowInv'
  BY <1>1, <1>6 DEF BelowInv
<1>8. Runs'
  BY <1>4, <1>6 DEF Runs, Top
<1> QED
  BY <1>6, <1>7, <1>8

\* A call that leaves its session leaves none in use.
LEMMA LeavesSession ==
  ASSUME TypeOK, StackInv, NEW s \in Sessions, Inside(s, "opening") \/ Inside(s, "busy"),
         Returns \/ CallsHandler, NEW r \in Channels, channel' = [channel EXCEPT ![s] = r],
         r.state \in {"ready", "closed"}
  PROVE  stack' \in Seq(Entries) /\ StackInv'
<1>1. stack \in Seq(Entries) /\ channel \in [Sessions -> Channels]
  BY StackTypes
<1>2. stack # <<>> /\ \A t \in Sessions \ {s} : ~InUse(t)
  BY InsideOnly DEF StackInv
<1>3. \A t \in Sessions : ~InUse(t)'
  BY <1>1, <1>2 DEF InUse
<1>4. stack' \in Seq(Entries) /\ BelowInv'
  BY <1>1, <1>2, PopStack, HandlerStack DEF StackInv
<1> QED
  BY <1>3, <1>4 DEF StackInv, UseInv

-----------------------------------------------------------------------------
(***************************************************************************)
(* What a step does to the channel of one session.                         *)
(***************************************************************************)
\* The channel of s becomes r, the others stay as they are.
Becomes(s, r) == channel' = [channel EXCEPT ![s] = r]

LEMMA BecomesChannel ==
  ASSUME TypeOK, NEW s \in Sessions, NEW r \in Channels, Becomes(s, r)
  PROVE  /\ channel' \in [Sessions -> Channels]
         /\ channel'[s] = r
         /\ \A t \in Sessions \ {s} : channel'[t] = channel[t]
  BY DEF TypeOK, Becomes, Channels

\* A channel as the actions change it.
LEMMA ChannelOf ==
  ASSUME TypeOK, NEW s \in Sessions
  PROVE  /\ channel[s] \in Channels
         /\ [channel[s] EXCEPT !.state = "opening"] \in Channels
         /\ [channel[s] EXCEPT !.state = "closed"] \in Channels
         /\ [channel[s] EXCEPT !.state = "closed", !.broken = FALSE] \in Channels
         /\ [channel[s] EXCEPT !.state = "ready"] \in Channels
         /\ [channel[s] EXCEPT !.broken = TRUE] \in Channels
         /\ [channel[s] EXCEPT !.leftover = TRUE] \in Channels
  BY DEF TypeOK, Channels

\* A session that is released is closed or stays as it is.
LEMMA ReleaseIs ==
  ASSUME TypeOK, NEW s \in Sessions, Release(s)
  PROVE  \/ /\ \A c \in Names : held'[c] # s
            /\ Becomes(s, [channel[s] EXCEPT !.state = "closed", !.broken = FALSE])
         \/ /\ \E c \in Names : held'[c] = s
            /\ UNCHANGED channel
  BY DEF Release, Closed, Becomes, TypeOK, Channels

\* A step that changes one session only, but not who has it.
LEMMA SameHeld ==
  ASSUME TypeOK, PathInv, LivesWhileHeld, UNCHANGED held,
         NEW s \in Sessions, NEW r \in Channels, Becomes(s, r),
         r.state \in {"ready", "busy"} <=> channel[s].state \in {"ready", "busy"},
         r.state = "busy" => r.calls > 0, r.state # "new"
  PROVE  PathInv' /\ LivesWhileHeld'
<1>1. /\ channel'[s] = r
      /\ \A t \in Sessions \ {s} : channel'[t] = channel[t]
  BY BecomesChannel
<1>2. PathInv'
  BY <1>1 DEF PathInv
<1>3. LivesWhileHeld'
  <2>1. \A c \in Names : held[c] # None => held[c] \in Sessions
    BY DEF TypeOK
  <2> QED
    BY <1>1, <2>1 DEF LivesWhileHeld
<1> QED
  BY <1>2, <1>3

LEMMA Collected ==
  ASSUME held' \in [Names -> Sessions \cup {None}], stack' \in Seq(Entries),
         channel' \in [Sessions -> Channels], StackInv', PathInv', LivesWhileHeld'
  PROVE  IInv'
  BY DEF IInv, TypeOK, Entries, Channels

\* A call returns from its session s, whose channel becomes r.
LEMMA LeavingNext ==
  ASSUME IInv, NEW s \in Sessions, Inside(s, "opening") \/ Inside(s, "busy"),
         Returns \/ CallsHandler, NEW r \in Channels, Becomes(s, r), r.state \in {"ready", "closed"},
         PathInv' /\ LivesWhileHeld',
         held' \in [Names -> Sessions \cup {None}]
  PROVE  IInv'
<1>1. stack' \in Seq(Entries) /\ StackInv'
  BY LeavesSession DEF IInv, Becomes
<1>2. channel' \in [Sessions -> Channels]
  BY BecomesChannel DEF IInv
<1> QED
  BY <1>1, <1>2, Collected DEF IInv

\* Something happens to a session in use.
LEMMA UsingNext ==
  ASSUME IInv, NEW s \in Sessions, Inside(s, "opening") \/ Inside(s, "busy"),
         NEW r \in Channels, Becomes(s, r), r.state = channel[s].state, r.calls = channel[s].calls,
         UNCHANGED <<held, stack>>
  PROVE  IInv'
<1> USE DEF IInv
<1>1. channel[s].state \in {"opening", "busy"}
  BY DEF Inside
<1>2. PathInv' /\ LivesWhileHeld'
  <2>1. r.state = "busy" => r.calls > 0
    BY DEF PathInv
  <2> QED
    BY <1>1, <2>1, SameHeld
<1>3. channel' \in [Sessions -> Channels] /\ channel'[s] = r
      /\ \A t \in Sessions \ {s} : channel'[t] = channel[t]
  BY BecomesChannel
<1>4. StackInv'
  BY <1>3 DEF StackInv, BelowInv, UseInv, InUse, Top
<1> QED
  BY <1>2, <1>3, <1>4, StackTypes, Collected

\* The program copies, overwrites or destroys clients: the session of a client that
\* is gone is released, and is the only one that may be closed.
LEMMA HoldingNext ==
  ASSUME IInv, Runs, UNCHANGED stack,
         held' \in [Names -> Sessions \cup {None}],
         NEW s \in Sessions, channel[s].state \in {"ready", "busy"},
         UNCHANGED channel \/ Release(s),
         \A c \in Names : held'[c] # None => \E d \in Names : held'[c] = held[d],
         \A t \in Sessions : (\E c \in Names : held[c] = t) =>
           (\E c \in Names : held'[c] = t) \/ (t = s /\ Release(s))
  PROVE  IInv'
<1> USE DEF IInv
<1>0. \A c \in Names : /\ held[c] # None => held[c] \in Sessions
                       /\ held'[c] # None => held'[c] \in Sessions
  BY DEF TypeOK
<1>1. \A t \in Sessions : ~InUse(t)
  BY RunsUnused DEF StackInv
<1>2. CASE UNCHANGED channel /\ (Release(s) => \E c \in Names : held'[c] = s)
  <2>1. PathInv' /\ StackInv'
    BY <1>2 DEF PathInv, StackInv, BelowInv, UseInv, InUse, Top
  <2>2. LivesWhileHeld'
    <3>1. \A t \in Sessions : (\E c \in Names : held[c] = t) => (\E c \in Names : held'[c] = t)
      BY <1>2
    <3>2. ASSUME NEW c \in Names, held'[c] # None
          PROVE  channel'[held'[c]].state \in {"ready", "busy"}
      BY <1>2, <3>2 DEF LivesWhileHeld
    <3>3. ASSUME NEW t \in Sessions, channel'[t].state \in {"ready", "busy"}
          PROVE  \E c \in Names : held'[c] = t
      BY <1>2, <3>1, <3>3 DEF LivesWhileHeld
    <3> QED
      BY <3>2, <3>3 DEF LivesWhileHeld
  <2> QED
    BY <1>2, <2>1, <2>2, StackTypes, Collected
<1>3. ASSUME \A c \in Names : held'[c] # s,
             Becomes(s, [channel[s] EXCEPT !.state = "closed", !.broken = FALSE])
      PROVE  IInv'
  <2> DEFINE r == [channel[s] EXCEPT !.state = "closed", !.broken = FALSE]
  <2>0. channel[s] \in Channels /\ r \in Channels
    BY ChannelOf
  <2>1. r \in Channels /\ r.state = "closed"
    BY <2>0 DEF Channels
  <2>2. /\ channel' \in [Sessions -> Channels] /\ channel'[s] = r
        /\ \A t \in Sessions \ {s} : channel'[t] = channel[t]
    BY <1>3, <2>1, BecomesChannel
  <2> HIDE DEF r
  <2>3. PathInv'
    BY <2>1, <2>2 DEF PathInv
  <2>4. StackInv'
    BY <1>1, <2>1, <2>2 DEF StackInv, BelowInv, UseInv, InUse, Top
  <2>5. ASSUME NEW c \in Names, held'[c] # None
        PROVE  channel'[held'[c]].state \in {"ready", "busy"}
    <3>1. held'[c] \in Sessions \ {s}
      BY <1>0, <1>3, <2>5
    <3>2. channel[held'[c]].state \in {"ready", "busy"}
      BY <2>5 DEF LivesWhileHeld
    <3> QED
      BY <2>2, <3>1, <3>2
  <2>6. ASSUME NEW t \in Sessions, channel'[t].state \in {"ready", "busy"}
        PROVE  \E c \in Names : held'[c] = t
    <3>1. t # s /\ channel[t].state \in {"ready", "busy"}
      BY <2>1, <2>2, <2>6
    <3> QED
      BY <3>1 DEF LivesWhileHeld
  <2>7. LivesWhileHeld'
    BY <2>5, <2>6 DEF LivesWhileHeld
  <2> QED
    BY <2>2, <2>3, <2>4, <2>7, StackTypes, Collected
<1>4. CASE UNCHANGED channel /\ Release(s) /\ \A c \in Names : held'[c] # s
  BY <1>3, <1>4, ReleaseIs
<1> QED
  BY <1>2, <1>3, <1>4, ReleaseIs

-----------------------------------------------------------------------------
(***************************************************************************)
(* The steps.                                                              *)
(***************************************************************************)
\* A handler returns: no session is in use by then.
LEMMA HandlerReturnsNext == IInv /\ HandlerReturns => IInv'
<1> SUFFICES ASSUME IInv, HandlerReturns PROVE IInv'
  OBVIOUS
<1> USE DEF IInv
<1>1. stack # <<>> /\ Runs /\ Returns /\ UNCHANGED <<held, channel>>
  BY DEF HandlerReturns, Runs
<1>2. stack' \in Seq(Entries) /\ BelowInv'
  BY <1>1, StackTypes, PopStack DEF StackInv
<1>3. \A t \in Sessions : ~InUse(t)
  BY <1>1, RunsUnused DEF StackInv
<1>4. StackInv' /\ PathInv' /\ LivesWhileHeld'
  BY <1>1, <1>2, <1>3 DEF StackInv, UseInv, InUse, PathInv, LivesWhileHeld
<1> QED
  BY <1>1, <1>2, <1>4, StackTypes, Collected

\* A session that is being opened is nobody's yet.
LEMMA ConnectNext == ASSUME NEW s \in Sessions PROVE IInv /\ Connect(s) => IInv'
<1> SUFFICES ASSUME IInv, Connect(s) PROVE IInv'
  OBVIOUS
<1> USE DEF IInv
<1>1. Runs /\ channel[s].state = "new" /\ UNCHANGED held
  BY DEF Connect
<1>2. PICK w \in {"session", "handler"} :
        /\ Calls("local", s, w)
        /\ Becomes(s, [channel[s] EXCEPT !.state = IF w = "session" THEN "opening" ELSE "closed"])
  BY DEF Connect, Becomes
<1> DEFINE r == [channel[s] EXCEPT !.state = IF w = "session" THEN "opening" ELSE "closed"]
<1>3. r \in Channels /\ channel[s] \in Channels
  BY ChannelOf
<1>4. r.state = IF w = "session" THEN "opening" ELSE "closed"
  BY <1>3 DEF Channels
<1> HIDE DEF r
<1>5. /\ channel' \in [Sessions -> Channels] /\ channel'[s] = r
      /\ \A t \in Sessions \ {s} : channel'[t] = channel[t]
  BY <1>2, <1>3, BecomesChannel DEF r
<1>6. stack' \in Seq(Entries) /\ BelowInv' /\ stack' # <<>> /\ Top'.in = w /\ Top'.session = s
  BY <1>1, <1>2, StackTypes, PushStack DEF StackInv
<1>7. \A t \in Sessions : ~InUse(t)
  BY <1>1, RunsUnused DEF StackInv
<1>8. StackInv'
  BY <1>4, <1>5, <1>6, <1>7 DEF StackInv, UseInv, InUse
<1>9. PathInv' /\ LivesWhileHeld'
  <2>1. Becomes(s, r)
    BY <1>2 DEF r
  <2>2. r.state \notin {"new", "ready", "busy"}
    BY <1>4
  <2> QED
    BY <1>1, <1>3, <2>1, <2>2, SameHeld
<1> QED
  BY <1>1, <1>5, <1>6, <1>8, <1>9, StackTypes, Collected

\* The new client is the first to have its session.
LEMMA ConnectedNext ==
  ASSUME NEW s \in Sessions, NEW c \in Names PROVE IInv /\ Connected(s, c) => IInv'
<1> SUFFICES ASSUME IInv, Connected(s, c) PROVE IInv'
  OBVIOUS
<1> USE DEF IInv
<1> DEFINE r == [channel[s] EXCEPT !.state = "ready"]
<1>1. /\ Inside(s, "opening") /\ held[c] = None /\ held' = [held EXCEPT ![c] = s]
      /\ Becomes(s, r) /\ Returns
  BY DEF Connected, Becomes
<1>2. r \in Channels /\ channel[s] \in Channels
  BY ChannelOf
<1>3. r.state = "ready"
  BY <1>2 DEF Channels
<1> HIDE DEF r
<1>4. /\ channel' \in [Sessions -> Channels] /\ channel'[s] = r
      /\ \A t \in Sessions \ {s} : channel'[t] = channel[t]
  BY <1>1, <1>2, BecomesChannel
<1>5. held \in [Names -> Sessions \cup {None}]
  BY StackTypes
<1>6. /\ held' \in [Names -> Sessions \cup {None}] /\ held'[c] = s
      /\ \A d \in Names \ {c} : held'[d] = held[d]
  BY <1>1, <1>5
<1>7. PathInv'
  BY <1>3, <1>4 DEF PathInv
<1>8. LivesWhileHeld'
  <2>1. None \notin Sessions
    BY DEF None, Sessions
  <2>2. ASSUME NEW d \in Names, held'[d] # None
        PROVE  channel'[held'[d]].state \in {"ready", "busy"}
    <3>1. CASE held'[d] = s
      BY <1>3, <1>4, <3>1
    <3>2. CASE held'[d] # s
      BY <1>4, <1>5, <1>6, <2>2, <3>2 DEF LivesWhileHeld
    <3> QED
      BY <3>1, <3>2
  <2>3. ASSUME NEW t \in Sessions, channel'[t].state \in {"ready", "busy"}
        PROVE  \E d \in Names : held'[d] = t
    <3>1. CASE t = s
      BY <1>6, <3>1
    <3>2. CASE t # s
      <4>1. PICK d \in Names : held[d] = t
        BY <1>4, <2>3, <3>2 DEF LivesWhileHeld
      <4>2. d # c
        BY <1>1, <2>1, <4>1
      <4> QED
        BY <1>6, <4>1, <4>2
    <3> QED
      BY <3>1, <3>2
  <2> QED
    BY <2>2, <2>3 DEF LivesWhileHeld
<1> QED
  BY <1>1, <1>2, <1>3, <1>6, <1>7, <1>8, LeavingNext

\* A session that could not be opened is nobody's.
LEMMA ConnectFailsNext == ASSUME NEW s \in Sessions PROVE IInv /\ ConnectFails(s) => IInv'
<1> SUFFICES ASSUME IInv, ConnectFails(s) PROVE IInv'
  OBVIOUS
<1> USE DEF IInv
<1> DEFINE r == [channel[s] EXCEPT !.state = "closed", !.broken = FALSE]
<1>1. /\ Inside(s, "opening") /\ Becomes(s, r) /\ CallsHandler /\ UNCHANGED held
  BY DEF ConnectFails, Becomes, Closed
<1>2. r \in Channels /\ channel[s] \in Channels
  BY ChannelOf
<1>3. r.state = "closed" /\ channel[s].state = "opening"
  BY <1>1, <1>2 DEF Channels, Inside
<1> HIDE DEF r
<1>4. PathInv' /\ LivesWhileHeld'
  BY <1>1, <1>2, <1>3, SameHeld
<1> QED
  BY <1>1, <1>2, <1>3, <1>4, StackTypes, LeavingNext

\* Copying leaves both clients with the session of the first.
LEMMA CopyNext == ASSUME NEW c \in Names, NEW d \in Names PROVE IInv /\ Copy(c, d) => IInv'
<1> SUFFICES ASSUME IInv, Copy(c, d) PROVE IInv'
  OBVIOUS
<1> USE DEF IInv
<1>1. /\ Runs /\ held[c] # None /\ held[d] = None /\ held' = [held EXCEPT ![d] = held[c]]
      /\ UNCHANGED <<stack, channel>>
  BY DEF Copy
<1>2. held \in [Names -> Sessions \cup {None}] /\ None \notin Sessions
  BY StackTypes DEF None, Sessions
<1>3. /\ held' \in [Names -> Sessions \cup {None}] /\ held'[d] = held[c]
      /\ \A e \in Names \ {d} : held'[e] = held[e]
  BY <1>1, <1>2
<1>4. held[c] \in Sessions /\ channel[held[c]].state \in {"ready", "busy"}
  BY <1>1, <1>2 DEF LivesWhileHeld
<1>5. \A e \in Names : held'[e] # None => \E f \in Names : held'[e] = held[f]
  BY <1>3
<1>6. \A t \in Sessions : (\E e \in Names : held[e] = t) => (\E e \in Names : held'[e] = t)
  BY <1>1, <1>2, <1>3
<1> QED
  BY <1>1, <1>3, <1>4, <1>5, <1>6, HoldingNext

\* Overwriting a client takes its session only from those that nobody else has.
LEMMA AssignNext == ASSUME NEW c \in Names, NEW d \in Names PROVE IInv /\ Assign(c, d) => IInv'
<1> SUFFICES ASSUME IInv, Assign(c, d) PROVE IInv'
  OBVIOUS
<1> USE DEF IInv
<1>1. /\ Runs /\ held[c] # None /\ held[d] # None /\ held' = [held EXCEPT ![d] = held[c]]
      /\ Release(held[d]) /\ UNCHANGED stack
  BY DEF Assign
<1>2. held \in [Names -> Sessions \cup {None}]
  BY StackTypes
<1>3. /\ held' \in [Names -> Sessions \cup {None}] /\ held'[d] = held[c]
      /\ \A e \in Names \ {d} : held'[e] = held[e]
  BY <1>1, <1>2
<1>4. held[d] \in Sessions /\ channel[held[d]].state \in {"ready", "busy"}
  BY <1>1, <1>2 DEF LivesWhileHeld
<1>5. \A e \in Names : held'[e] # None => \E f \in Names : held'[e] = held[f]
  BY <1>3
<1>6. \A t \in Sessions : (\E e \in Names : held[e] = t) =>
        (\E e \in Names : held'[e] = t) \/ t = held[d]
  BY <1>3
<1> QED
  BY <1>1, <1>3, <1>4, <1>5, <1>6, HoldingNext

\* Destroying a client likewise.
LEMMA DestroyNext == ASSUME NEW c \in Names PROVE IInv /\ Destroy(c) => IInv'
<1> SUFFICES ASSUME IInv, Destroy(c) PROVE IInv'
  OBVIOUS
<1> USE DEF IInv
<1>1. /\ Runs /\ held[c] # None /\ held' = [held EXCEPT ![c] = None]
      /\ Release(held[c]) /\ UNCHANGED stack
  BY DEF Destroy
<1>2. held \in [Names -> Sessions \cup {None}]
  BY StackTypes
<1>3. /\ held' \in [Names -> Sessions \cup {None}] /\ held'[c] = None
      /\ \A e \in Names \ {c} : held'[e] = held[e]
  BY <1>1, <1>2
<1>4. held[c] \in Sessions /\ channel[held[c]].state \in {"ready", "busy"}
  BY <1>1, <1>2 DEF LivesWhileHeld
<1>5. \A e \in Names : held'[e] # None => \E f \in Names : held'[e] = held[f]
  BY <1>3
<1>6. \A t \in Sessions : (\E e \in Names : held[e] = t) =>
        (\E e \in Names : held'[e] = t) \/ t = held[c]
  BY <1>3
<1> QED
  BY <1>1, <1>3, <1>4, <1>5, <1>6, HoldingNext

\* A request is made on the session of a client, which is not in use.
LEMMA RequestNext == ASSUME NEW c \in Names PROVE IInv /\ Request(c) => IInv'
<1> SUFFICES ASSUME IInv, Request(c) PROVE IInv'
  OBVIOUS
<1> USE DEF IInv
<1> DEFINE s == held[c]
<1>1. /\ Runs /\ s # None /\ channel[s].calls < MaxRequests
      /\ UNCHANGED held
  BY DEF Request
<1>2. s \in Sessions /\ channel[s].state \in {"ready", "busy"}
  BY <1>1, StackTypes DEF LivesWhileHeld
<1>3. \A t \in Sessions : ~InUse(t)
  BY <1>1, RunsUnused DEF StackInv
<1> HIDE DEF s
<1>4. channel[s] \in Channels /\ channel[s].state = "ready"
  BY <1>2, <1>3, ChannelOf DEF InUse
<1>5. PICK w \in {"session", "handler"}, st \in {"busy", "ready"} :
        /\ Calls(c, s, w)
        /\ Becomes(s, [channel[s] EXCEPT !.calls = @ + 1, !.ret = 0, !.state = st])
        /\ st = "busy" <=> w = "session"
  <2>1. channel \in [Sessions -> Channels]
    BY StackTypes
  <2>2. [channel[s] EXCEPT !.calls = @ + 1, !.ret = 0]
          = [channel[s] EXCEPT !.calls = @ + 1, !.ret = 0, !.state = "ready"]
    BY <1>4 DEF Channels
  <2>3. CASE /\ Calls(c, s, "session")
             /\ channel' = [[channel EXCEPT ![s].calls = @ + 1, ![s].ret = 0] EXCEPT ![s].state = "busy"]
    <3>1. Becomes(s, [channel[s] EXCEPT !.calls = @ + 1, !.ret = 0, !.state = "busy"])
      BY <1>2, <2>1, <2>3 DEF Becomes
    <3> QED
      BY <2>3, <3>1
  <2>4. CASE /\ Calls(c, s, "handler")
             /\ channel' = [channel EXCEPT ![s].calls = @ + 1, ![s].ret = 0]
    <3>1. Becomes(s, [channel[s] EXCEPT !.calls = @ + 1, !.ret = 0, !.state = "ready"])
      BY <1>2, <2>1, <2>2, <2>4 DEF Becomes
    <3> QED
      BY <2>4, <3>1
  <2> QED
    BY <2>3, <2>4 DEF Request, s
<1> DEFINE r == [channel[s] EXCEPT !.calls = @ + 1, !.ret = 0, !.state = st]
<1>6. r \in Channels /\ r.state = st /\ r.calls > 0
  <2>1. channel[s].calls \in 0..MaxRequests /\ channel[s].calls + 1 \in 1..MaxRequests
    BY <1>1, <1>4 DEF Channels
  <2>2. ASSUME NEW k \in Channels, NEW n \in 0..MaxRequests
        PROVE  [k EXCEPT !.calls = n, !.ret = 0, !.state = st] \in Channels
    <3>1. 0 \in 0..MaxRequests /\ st \in {"new", "opening", "ready", "busy", "closed"}
      OBVIOUS
    <3> QED
      BY <3>1 DEF Channels
  <2>3. r.state = st /\ r.calls = channel[s].calls + 1
    BY <1>4 DEF Channels
  <2>4. channel[s].calls + 1 \in 0..MaxRequests
    BY <2>1
  <2>5. r \in Channels
    BY <1>4, <2>2, <2>4
  <2> QED
    BY <2>1, <2>3, <2>5
<1>7. Becomes(s, r)
  BY <1>5
<1> HIDE DEF r
<1>8. /\ channel' \in [Sessions -> Channels] /\ channel'[s] = r
      /\ \A t \in Sessions \ {s} : channel'[t] = channel[t]
  BY <1>2, <1>6, <1>7, BecomesChannel
<1>9. stack' \in Seq(Entries) /\ BelowInv' /\ stack' # <<>> /\ Top'.in = w /\ Top'.session = s
  BY <1>1, <1>2, <1>5, StackTypes, PushStack DEF StackInv
<1>10. StackInv'
  <2>1. ASSUME NEW t \in Sessions, InUse(t)' PROVE t = s /\ w = "session"
    BY <1>3, <1>5, <1>6, <1>8, <2>1 DEF InUse
  <2> QED
    BY <1>9, <2>1 DEF StackInv, UseInv
<1>11. PathInv' /\ LivesWhileHeld'
  <2>1. r.state \in {"ready", "busy"} /\ r.state # "new"
    BY <1>6
  <2> QED
    BY <1>1, <1>2, <1>6, <1>7, <2>1, SameHeld
<1> QED
  BY <1>1, <1>8, <1>9, <1>10, <1>11, StackTypes, Collected

\* A request ends, with an answer or without.
LEMMA AnsweredNext ==
  ASSUME NEW s \in Sessions PROVE IInv /\ (Answered(s) \/ Failed(s)) => IInv'
<1> SUFFICES ASSUME IInv, Answered(s) \/ Failed(s) PROVE IInv'
  OBVIOUS
<1> USE DEF IInv
<1>1. Inside(s, "busy") /\ (Returns \/ CallsHandler) /\ UNCHANGED held
  BY DEF Answered, Failed
<1>2. channel[s] \in Channels /\ channel[s].state = "busy" /\ channel \in [Sessions -> Channels]
  BY <1>1, ChannelOf, StackTypes DEF Inside
<1>3. PICK v \in 0..MaxRequests : Becomes(s, [channel[s] EXCEPT !.ret = v, !.state = "ready"])
  <2>1. CASE Answered(s)
    <3>1. PICK v \in channel[s].served : channel' = [channel EXCEPT ![s].ret = v, ![s].state = "ready"]
      BY <2>1 DEF Answered
    <3>2. v \in 0..MaxRequests
      BY <1>2, <3>1 DEF Channels
    <3>3. Becomes(s, [channel[s] EXCEPT !.ret = v, !.state = "ready"])
      BY <1>2, <3>1 DEF Becomes
    <3> QED
      BY <3>2, <3>3
  <2>2. CASE Failed(s)
    <3>1. channel[s].ret \in 0..MaxRequests
      BY <1>2 DEF Channels
    <3>2. [channel[s] EXCEPT !.state = "ready"] = [channel[s] EXCEPT !.ret = channel[s].ret, !.state = "ready"]
      BY <1>2 DEF Channels
    <3>3. Becomes(s, [channel[s] EXCEPT !.state = "ready"])
      BY <2>2 DEF Failed, Becomes
    <3> QED
      BY <3>1, <3>2, <3>3
  <2> QED
    BY <2>1, <2>2
<1> DEFINE r == [channel[s] EXCEPT !.ret = v, !.state = "ready"]
<1>4. r \in Channels /\ r.state = "ready"
  BY <1>2 DEF Channels
<1> HIDE DEF r
<1>5. Becomes(s, r)
  BY <1>3 DEF r
<1>6. PathInv' /\ LivesWhileHeld'
  BY <1>1, <1>2, <1>4, <1>5, SameHeld
<1> QED
  BY <1>1, <1>4, <1>5, <1>6, StackTypes, LeavingNext

\* The server receives the request, the connection breaks, or a rest stays on it.
LEMMA ServedNext ==
  ASSUME NEW s \in Sessions PROVE IInv /\ (Served(s) \/ Breaks(s) \/ LeavesRest(s)) => IInv'
<1> SUFFICES ASSUME IInv, Served(s) \/ Breaks(s) \/ LeavesRest(s) PROVE IInv'
  OBVIOUS
<1> USE DEF IInv
<1>1. /\ Inside(s, "opening") \/ Inside(s, "busy")
      /\ UNCHANGED <<held, stack>>
  BY DEF Served, Breaks, LeavesRest
<1>2. channel[s] \in Channels
  BY ChannelOf
<1>3. CASE Served(s)
  <2> DEFINE r == [channel[s] EXCEPT !.served = @ \cup {channel[s].calls}]
  <2>1. channel[s].calls \in 1..MaxRequests
    BY <1>2, <1>3 DEF Served, Inside, PathInv, Channels
  <2>2. r \in Channels /\ r.state = channel[s].state /\ r.calls = channel[s].calls
    BY <1>2, <2>1 DEF Channels
  <2>3. Becomes(s, r)
    BY <1>3 DEF Served, Becomes
  <2> HIDE DEF r
  <2> QED
    BY <1>1, <2>2, <2>3, UsingNext
<1>4. CASE Breaks(s)
  <2> DEFINE r == [channel[s] EXCEPT !.broken = TRUE]
  <2>1. r \in Channels /\ r.state = channel[s].state /\ r.calls = channel[s].calls
    BY <1>2 DEF Channels
  <2>2. Becomes(s, r)
    BY <1>4 DEF Breaks, Becomes
  <2> HIDE DEF r
  <2> QED
    BY <1>1, <2>1, <2>2, UsingNext
<1>5. CASE LeavesRest(s)
  <2> DEFINE r == [channel[s] EXCEPT !.leftover = TRUE]
  <2>1. r \in Channels /\ r.state = channel[s].state /\ r.calls = channel[s].calls
    BY <1>2 DEF Channels
  <2>2. Becomes(s, r)
    BY <1>5 DEF LeavesRest, Becomes
  <2> HIDE DEF r
  <2> QED
    BY <1>1, <2>1, <2>2, UsingNext
<1> QED
  BY <1>3, <1>4, <1>5

LEMMA IInvInit == Init => IInv
<1> SUFFICES ASSUME Init PROVE IInv
  OBVIOUS
<1> DEFINE r == [state |-> "new", broken |-> FALSE, calls |-> 0, served |-> {}, ret |-> 0, leftover |-> FALSE]
<1>1. r \in Channels /\ r.state = "new" /\ ~r.broken
  BY DEF Channels
<1>2. channel = [s \in Sessions |-> r] /\ held = [c \in Names |-> None]
      /\ stack = <<>>
  BY DEF Init
<1> HIDE DEF r
<1>3. TypeOK
  <2>1. channel \in [Sessions -> Channels] /\ held \in [Names -> Sessions \cup {None}]
    BY <1>1, <1>2
  <2>2. stack \in Seq(Entries)
    BY <1>2
  <2> QED
    BY <1>2, <2>1, <2>2, StackTypes
<1>4. StackInv /\ PathInv /\ LivesWhileHeld
  BY <1>1, <1>2 DEF StackInv, BelowInv, UseInv, InUse, PathInv, LivesWhileHeld
<1> QED
  BY <1>3, <1>4 DEF IInv

\* Every step keeps the invariant.
LEMMA IInvNext == IInv /\ [Next]_vars => IInv'
<1> SUFFICES ASSUME IInv, [Next]_vars PROVE IInv'
  OBVIOUS
<1>1. CASE UNCHANGED vars
  BY <1>1 DEF vars, IInv, TypeOK, StackInv, BelowInv, UseInv, InUse, Top, PathInv,
              LivesWhileHeld
<1>2. CASE HandlerReturns
  BY <1>2, HandlerReturnsNext
<1>3. CASE \E c, d \in Names : Copy(c, d) \/ Assign(c, d)
  BY <1>3, CopyNext, AssignNext
<1>4. CASE \E c \in Names : Destroy(c) \/ Request(c)
  BY <1>4, DestroyNext, RequestNext
<1>5. ASSUME NEW s \in Sessions,
             Connect(s) \/ EndOfCall(s) \/ Served(s) \/ Breaks(s) \/ LeavesRest(s)
      PROVE  IInv'
  BY <1>5, ConnectNext, ConnectedNext, ConnectFailsNext, AnsweredNext, ServedNext DEF EndOfCall
<1> QED
  BY <1>1, <1>2, <1>3, <1>4, <1>5 DEF Next

\* IInv holds in every state of a program, whatever it does with its clients.
THEOREM Invariance == Spec => []IInv
  BY IInvInit, IInvNext, PTL DEF Spec

\* No client, also none that was copied from or assigned, is without a session (the
\* copies of rpc::Client and http::Client).
THEOREM TypeCorrect == Spec => []TypeOK
<1>1. IInv => TypeOK
  BY DEF IInv
<1> QED
  BY <1>1, Invariance, PTL

\* A session lives exactly as long as a client has it: copies are safe to use and
\* to destroy in any order, also from inside a handler.
THEOREM SessionsLiveWhileHeld == Spec => []LivesWhileHeld
<1>1. IInv => LivesWhileHeld
  BY DEF IInv
<1> QED
  BY <1>1, Invariance, PTL

\* A handler finds every session ready, also the one whose request has called it: the
\* requests of the handlers of any depth never meet in one session.
THEOREM HandlersFindSessionsReady == Spec => []ReadyWhileProgramRuns
<1>1. IInv => ReadyWhileProgramRuns
  <2> SUFFICES ASSUME IInv, Runs, NEW c \in Names, held[c] # None
               PROVE  channel[held[c]].state = "ready"
    BY DEF ReadyWhileProgramRuns
  <2>1. held[c] \in Sessions
    BY DEF IInv, TypeOK, None
  <2>2. ~InUse(held[c])
    BY <2>1, RunsUnused DEF IInv, StackInv
  <2> QED
    BY <2>2 DEF IInv, LivesWhileHeld, InUse
<1> QED
  BY <1>1, Invariance, PTL

-----------------------------------------------------------------------------
(***************************************************************************)
(* Every session is used as a channel may be used.                         *)
(***************************************************************************)
ChannelStep == [Channel!Next]_(Channel!vars)

\* What happens to other sessions is not seen on the watched one.
LEMMA OtherSession ==
  ASSUME TypeOK, NEW s \in Sessions, s # Watched, NEW r \in Channels, Becomes(s, r)
  PROVE  ChannelStep
<1>1. channel'[Watched] = channel[Watched]
  BY BecomesChannel, WatchedIsASession
<1> QED
  BY <1>1 DEF ChannelStep, Channel!vars

\* A client that is gone closes a session that is not in use, or none.
LEMMA ReleaseStep ==
  ASSUME IInv, Runs, NEW s \in Sessions, channel[s].state \in {"ready", "busy"}, Release(s)
  PROVE  ChannelStep
<1> USE DEF IInv
<1> DEFINE r == [channel[s] EXCEPT !.state = "closed", !.broken = FALSE]
<1>1. r \in Channels /\ channel[s] \in Channels
  BY ChannelOf
<1>2. CASE UNCHANGED channel
  BY <1>2 DEF ChannelStep, Channel!vars
<1>3. CASE Becomes(s, r)
  <2>1. CASE s # Watched
    BY <1>1, <1>3, <2>1, OtherSession
  <2>2. CASE s = Watched
    <3>1. channel[s].state = "ready"
      BY RunsUnused DEF StackInv, InUse
    <3>2. channel'[s] = r
      BY <1>1, <1>3, BecomesChannel
    <3>3. Channel!Close
      BY <1>1, <2>2, <3>1, <3>2 DEF Channel!Close, Channels
    <3> QED
      BY <3>3 DEF ChannelStep, Channel!Next
  <2> QED
    BY <2>1, <2>2
<1> QED
  BY <1>2, <1>3, ReleaseIs

\* A session is opened once.
LEMMA ConnectStep ==
  ASSUME IInv, NEW s \in Sessions, Connect(s)
  PROVE  ChannelStep
<1> USE DEF IInv
<1>1. channel[s] \in Channels /\ channel \in [Sessions -> Channels]
      /\ channel[s].state = "new" /\ ~channel[s].broken
  BY StackTypes, ChannelOf DEF Connect, PathInv
<1>2. PICK st \in {"opening", "closed"} : channel' = [channel EXCEPT ![s].state = st]
  BY DEF Connect
<1>3. CASE s # Watched
  BY <1>1, <1>2, <1>3, WatchedIsASession DEF ChannelStep, Channel!vars
<1>4. CASE s = Watched /\ st = "opening"
  <2>1. Channel!Open
    BY <1>1, <1>2, <1>4 DEF Channel!Open, Channels
  <2> QED
    BY <2>1 DEF ChannelStep, Channel!Next
<1>5. CASE s = Watched /\ st = "closed"
  <2>1. Channel!OpenFails
    BY <1>1, <1>2, <1>5 DEF Channel!OpenFails, Channels
  <2> QED
    BY <2>1 DEF ChannelStep, Channel!Next
<1> QED
  BY <1>3, <1>4, <1>5

\* What the program does with its clients: closing and a request, on a
\* session that is not in use.
LEMMA ProgramStep ==
  ASSUME IInv, NEW c \in Names
  PROVE  /\ \A d \in Names : Copy(c, d) \/ Assign(c, d) => ChannelStep
         /\ Destroy(c) => ChannelStep
         /\ Request(c) => ChannelStep
<1> USE DEF IInv
<1>2. ASSUME NEW d \in Names, Copy(c, d) \/ Assign(c, d) PROVE ChannelStep
  <2>1. CASE Copy(c, d)
    BY <2>1 DEF Copy, ChannelStep, Channel!vars
  <2>2. CASE Assign(c, d)
    <3>1. Runs /\ held[d] # None /\ Release(held[d])
      BY <2>2 DEF Assign
    <3>2. held[d] \in Sessions /\ channel[held[d]].state \in {"ready", "busy"}
      BY <3>1, StackTypes DEF LivesWhileHeld
    <3> QED
      BY <3>1, <3>2, ReleaseStep
  <2> QED
    BY <1>2, <2>1, <2>2
<1>3. ASSUME Destroy(c) PROVE ChannelStep
  <2>1. Runs /\ held[c] # None /\ Release(held[c])
    BY <1>3 DEF Destroy
  <2>2. held[c] \in Sessions /\ channel[held[c]].state \in {"ready", "busy"}
    BY <2>1, StackTypes DEF LivesWhileHeld
  <2> QED
    BY <2>1, <2>2, ReleaseStep
<1>4. ASSUME Request(c) PROVE ChannelStep
  <2>1. Runs /\ held[c] # None /\ channel[held[c]].calls < MaxRequests
    BY <1>4 DEF Request
  <2>2. held[c] \in Sessions /\ channel[held[c]].state = "ready"
    <3>1. held[c] \in Sessions /\ channel[held[c]].state \in {"ready", "busy"}
      BY <2>1, StackTypes DEF LivesWhileHeld
    <3> QED
      BY <2>1, <3>1, RunsUnused DEF StackInv, InUse
  <2>3. channel \in [Sessions -> Channels] /\ channel[held[c]] \in Channels
    BY <2>2, StackTypes
  <2>4. CASE held[c] # Watched
    <3>1. channel'[Watched] = channel[Watched]
      BY <1>4, <2>2, <2>3, <2>4, WatchedIsASession DEF Request
    <3> QED
      BY <3>1 DEF ChannelStep, Channel!vars
  <2>5. CASE held[c] = Watched
    <3>1. CASE channel' = [[channel EXCEPT ![held[c]].calls = @ + 1, ![held[c]].ret = 0]
                             EXCEPT ![held[c]].state = "busy"]
      <4>1. Channel!Call
        BY <2>1, <2>2, <2>3, <2>5, <3>1 DEF Channel!Call, Channels
      <4> QED
        BY <4>1 DEF ChannelStep, Channel!Next
    <3>2. CASE channel' = [channel EXCEPT ![held[c]].calls = @ + 1, ![held[c]].ret = 0]
      <4>1. Channel!CallFails
        BY <2>1, <2>2, <2>3, <2>5, <3>2 DEF Channel!CallFails, Channels
      <4> QED
        BY <4>1 DEF ChannelStep, Channel!Next
    <3> QED
      BY <1>4, <3>1, <3>2 DEF Request
  <2> QED
    BY <2>4, <2>5
<1> QED
  BY <1>2, <1>3, <1>4

\* What happens inside a call, to the session that is in use.
LEMMA SessionStep ==
  ASSUME IInv, NEW s \in Sessions, EndOfCall(s) \/ Served(s) \/ Breaks(s) \/ LeavesRest(s)
  PROVE  ChannelStep
<1> USE DEF IInv
<1>1. channel \in [Sessions -> Channels] /\ channel[s] \in Channels
  BY StackTypes
<1>2. CASE s # Watched
  <2>1. channel'[Watched] = channel[Watched]
    BY <1>1, <1>2, WatchedIsASession
    DEF EndOfCall, Connected, ConnectFails, Closed, Answered, Failed, Served, Breaks, LeavesRest
  <2> QED
    BY <2>1 DEF ChannelStep, Channel!vars
<1>3. CASE s = Watched
  <2> USE <1>1, <1>3 DEF Inside, Channels
  <2>1. ASSUME NEW c \in Names, Connected(s, c) PROVE Channel!Opened
    BY <2>1 DEF Connected, Channel!Opened
  <2>2. ConnectFails(s) => Channel!OpenFails
    BY DEF ConnectFails, Closed, Channel!OpenFails
  <2>3. Answered(s) => Channel!Answer
    BY DEF Answered, Channel!Answer
  <2>4. Failed(s) => Channel!Fail
    BY DEF Failed, Channel!Fail
  <2>5. Served(s) => Channel!Serve
    BY DEF Served, Channel!Serve
  <2>6. Breaks(s) => Channel!Break
    BY DEF Breaks, Channel!Break
  <2>7. LeavesRest(s) => Channel!LeaveRest
    BY DEF LeavesRest, Channel!LeaveRest
  <2> QED
    BY <2>1, <2>2, <2>3, <2>4, <2>5, <2>6, <2>7 DEF EndOfCall, ChannelStep, Channel!Next
<1> QED
  BY <1>2, <1>3

\* Whatever the program does with its clients, also in handlers, each session (any
\* may be the watched one) is used as RpcChannel allows, but for its liveness.
THEOREM SessionsAreChannels == Spec => Channel!Init /\ [][Channel!Next]_(Channel!vars)
<1>1. Init => Channel!Init
  BY WatchedIsASession DEF Init, Channel!Init
<1>2. IInv /\ [Next]_vars => ChannelStep
  <2> SUFFICES ASSUME IInv, [Next]_vars PROVE ChannelStep
    OBVIOUS
  <2>1. CASE UNCHANGED vars
    BY <2>1 DEF vars, ChannelStep, Channel!vars
  <2>2. CASE HandlerReturns
    BY <2>2 DEF HandlerReturns, ChannelStep, Channel!vars
  <2>3. CASE \E c, d \in Names : Copy(c, d) \/ Assign(c, d)
    BY <2>3, ProgramStep
  <2>4. CASE \E c \in Names : Destroy(c) \/ Request(c)
    BY <2>4, ProgramStep
  <2>5. ASSUME NEW s \in Sessions, Connect(s) PROVE ChannelStep
    BY <2>5, ConnectStep
  <2>6. ASSUME NEW s \in Sessions, EndOfCall(s) \/ Served(s) \/ Breaks(s) \/ LeavesRest(s)
        PROVE  ChannelStep
    BY <2>6, SessionStep
  <2> QED
    BY <2>1, <2>2, <2>3, <2>4, <2>5, <2>6 DEF Next
<1> QED
  BY <1>1, <1>2, Invariance, PTL DEF Spec, ChannelStep

=============================================================================
