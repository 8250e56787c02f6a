---------------------------- MODULE WalletProofs -----------------------------
(***************************************************************************)
(* Proofs about mile_cli_wallet, from the command line to the end, for     *)
(* every value of --reconnections and of --timeout.                        *)
(*                                                                         *)
(* Here a do_request that is not the running one may have something left   *)
(* to send: a transaction whose request for the block id has failed goes on *)
(* all the same.  Hence the invariant counts these (Waiting): what has been *)
(* sent, what may be sent yet, and the running do_request, together are no *)
(* more than the attempts.  The bound on the time and the number of steps  *)
(* that are left are counted alike.                                        *)
(***************************************************************************)
EXTENDS WalletProgram, RetryProofs, FiniteSets, FiniteSetTheorems

Top == frames[Len(frames)]

\* Places from which nothing is sent any more.
Spent == {"nothing", "novalue", "done"}
Owes(p) == IF p \in Spent THEN 0 ELSE 1

\* The do_request's below the running one that will send when they go on.
Waiting == {i \in 1..(Len(frames) - 1) : frames[i] = "create"}
One(p) == IF p = "create" THEN 1 ELSE 0

StackInv ==
  /\ frames \in Seq(Places)
  /\ \A i \in 1..(Len(frames) - 1) : frames[i] \in Spent \cup {"create"}
  /\ \A i \in 1..Len(frames) : frames[i] \in {"block", "create", "nothing"} => kind = "transaction"
  /\ status \in {"running", "exit 0", "exit -1", "aborted"}

AllAnswered == \A i \in 1..Len(answered) : answered[i]

SendInv ==
  /\ answered \in Seq(BOOLEAN) /\ printed \in Nat
  /\ NoResendWhileUnknown
  /\ Len(answered) <= attempts
  /\ status = "running" => AllAnswered
  /\ status = "running" => Len(answered) + Cardinality(Waiting) + Owes(Top) <= attempts

\* What the exit status and the output say.
PrintInv ==
  /\ status = "running" /\ Top = "done" => printed > 0
  /\ status = "exit 0" => printed > 0
  /\ kind = "query" => printed <= 1
  /\ kind = "query" /\ status = "running" /\ printed > 0 => Top \in {"novalue", "done"}

WalletInv == BudgetInv /\ StackInv /\ SendInv /\ PrintInv

\* The first do_request has just been called.
Fresh ==
  /\ frames = <<"connect">> /\ status = "running"
  /\ reconnections = 0 /\ attempts = 1
  /\ answered = <<>> /\ printed = 0

-----------------------------------------------------------------------------
(***************************************************************************)
(* The do_request's that wait.                                             *)
(***************************************************************************)
LEMMA WaitingFinite ==
  ASSUME NEW S, frames \in Seq(S), frames # <<>>
  PROVE  IsFiniteSet(Waiting) /\ Cardinality(Waiting) \in Nat
<1>1. Len(frames) \in Nat
  OBVIOUS
<1>2. IsFiniteSet(1..(Len(frames) - 1))
  BY <1>1, FS_Interval
<1>3. Waiting \in SUBSET (1..(Len(frames) - 1))
  BY DEF Waiting
<1>4. IsFiniteSet(Waiting)
  BY <1>2, <1>3, FS_Subset
<1> QED
  BY <1>4, FS_CardinalityType

\* Only the running do_request moves.
LEMMA SameWaiting ==
  ASSUME Len(frames') = Len(frames), \A i \in 1..(Len(frames) - 1) : frames'[i] = frames[i]
  PROVE  Waiting' = Waiting
  BY DEF Waiting

\* One that is retried joins those that wait, if it still has to send.
LEMMA RetryWaiting ==
  ASSUME frames \in Seq(Places), frames # <<>>, NEW next \in Places, HandlerRetries(next)
  PROVE  Cardinality(Waiting') = Cardinality(Waiting) + One(next)
<1>1. Len(frames) \in Nat /\ Len(frames) >= 1
  <2>1. Len(frames) \in Nat \ {0}
    BY EmptySeq
  <2> QED
    BY <2>1
<1>2. /\ Len(frames') = Len(frames) + 1
      /\ frames'[Len(frames)] = next
      /\ \A i \in 1..(Len(frames) - 1) : frames'[i] = frames[i]
  BY RetryFrames DEF Places
<1>3. IsFiniteSet(Waiting) /\ Cardinality(Waiting) \in Nat
  BY WaitingFinite
<1>4. Len(frames) \notin Waiting
  BY <1>1 DEF Waiting
<1>5. CASE next = "create"
  <2>1. Waiting' = Waiting \cup {Len(frames)}
    BY <1>1, <1>2, <1>5 DEF Waiting
  <2> QED
    BY <1>3, <1>4, <1>5, <2>1, FS_AddElement DEF One
<1>6. CASE next # "create"
  <2>1. Waiting' = Waiting
    BY <1>1, <1>2, <1>6 DEF Waiting
  <2> QED
    BY <1>3, <1>6, <2>1 DEF One
<1> QED
  BY <1>5, <1>6

\* One that runs again waits no more.
LEMMA ReturnWaiting ==
  ASSUME frames \in Seq(Places), frames # <<>>, Return, Len(frames) # 1
  PROVE  /\ Top' = frames[Len(frames) - 1] /\ Len(frames) - 1 \in 1..Len(frames)
         /\ Cardinality(Waiting) \in Nat /\ Cardinality(Waiting') \in Nat
         /\ Cardinality(Waiting') = Cardinality(Waiting) - One(Top')
<1>1. Len(frames) \in Nat /\ Len(frames) > 1
  <2>1. Len(frames) \in Nat \ {0}
    BY EmptySeq
  <2> QED
    BY <2>1
<1>2. /\ Len(frames') = Len(frames) - 1
      /\ \A i \in 1..(Len(frames) - 1) : frames'[i] = frames[i]
  BY ReturnFrames
<1>3. Top' = frames[Len(frames) - 1] /\ Len(frames) - 1 \in 1..Len(frames)
  BY <1>1, <1>2 DEF Top
<1>4. IsFiniteSet(Waiting) /\ Cardinality(Waiting) \in Nat
  BY WaitingFinite
<1>5. Waiting' = Waiting \ {Len(frames) - 1}
  BY <1>1, <1>2 DEF Waiting
<1>6. Len(frames) - 1 \in Waiting <=> Top' = "create"
  BY <1>1, <1>3 DEF Waiting
<1>7. Cardinality(Waiting') =
        IF Top' = "create" THEN Cardinality(Waiting) - 1 ELSE Cardinality(Waiting)
  BY <1>4, <1>5, <1>6, FS_RemoveElement
<1>8. Cardinality(Waiting') \in Nat
  BY <1>4, <1>5, FS_RemoveElement, FS_CardinalityType
<1> QED
  BY <1>3, <1>4, <1>7, <1>8 DEF One

-----------------------------------------------------------------------------
(***************************************************************************)
(* The retries.                                                            *)
(***************************************************************************)
\* It is true in the beginning.
LEMMA FreshInv == Fresh => WalletInv
<1> SUFFICES ASSUME Fresh PROVE WalletInv
  OBVIOUS
<1>1. Len(frames) = 1 /\ frames[1] = "connect" /\ frames # <<>> /\ frames \in Seq(Places)
  BY DEF Fresh, Places
<1>2. BudgetInv
  BY <1>1 DEF Fresh, BudgetInv
<1>3. StackInv
  BY <1>1 DEF Fresh, StackInv
<1>4. SendInv
  <2>1. answered \in Seq(BOOLEAN) /\ Len(answered) = 0
    BY DEF Fresh
  <2>2. Waiting = {} /\ Cardinality(Waiting) = 0
    BY <1>1, FS_EmptySet DEF Waiting
  <2>3. Owes(Top) = 1
    BY <1>1 DEF Owes, Top, Spent
  <2> QED
    BY <2>1, <2>2, <2>3 DEF Fresh, SendInv, NoResendWhileUnknown, AllAnswered
<1>5. PrintInv
  BY <1>1 DEF Fresh, PrintInv, Top
<1> QED
  BY <1>2, <1>3, <1>4, <1>5 DEF WalletInv

\* The running do_request goes on and sends nothing.
LEMMA GotoInv ==
  ASSUME WalletInv, NEW p \in Places, Goto(p), status = "running",
         Top \in Spent => p \in Spent,
         p # "done",
         p \in {"block", "create", "nothing"} => kind = "transaction",
         kind = "query" /\ Top \in {"novalue", "done"} => p = "novalue",
         UNCHANGED <<kind, answered, printed>>
  PROVE  WalletInv'
<1>1. frames \in Seq(Places) /\ frames # <<>>
  BY DEF WalletInv, StackInv, BudgetInv
<1>2. BudgetInv'
  BY <1>1, GotoBudget DEF WalletInv
<1>3. /\ frames' \in Seq(Places) /\ Len(frames') = Len(frames) /\ Top' = p
      /\ \A i \in 1..(Len(frames) - 1) : frames'[i] = frames[i]
      /\ UNCHANGED <<status, attempts>>
  BY <1>1, ContinuedFrames DEF Goto, Top
<1>4. StackInv'
  <2>1. \A i \in 1..Len(frames) : i = Len(frames) \/ i \in 1..(Len(frames) - 1)
    BY <1>1
  <2> QED
    BY <1>3, <2>1 DEF WalletInv, StackInv, Top
<1>5. Waiting' = Waiting /\ Cardinality(Waiting) \in Nat
  BY <1>1, <1>3, SameWaiting, WaitingFinite
<1>6. Owes(Top') <= Owes(Top) /\ Owes(Top') \in {0, 1} /\ Owes(Top) \in {0, 1}
  BY <1>3 DEF Owes
<1>7. SendInv'
  <2>1. answered' \in Seq(BOOLEAN) /\ printed' \in Nat /\ NoResendWhileUnknown'
        /\ (status' = "running" => AllAnswered') /\ Len(answered') <= attempts'
    BY <1>3 DEF WalletInv, SendInv, NoResendWhileUnknown, AllAnswered
  <2>2. Len(answered') + Cardinality(Waiting') + Owes(Top)' <= attempts'
    <3>1. Len(answered) + Cardinality(Waiting) + Owes(Top) <= attempts
          /\ Len(answered) \in Nat /\ attempts \in Nat
      BY DEF WalletInv, SendInv, BudgetInv
    <3>2. Len(answered') = Len(answered) /\ attempts' = attempts /\ Owes(Top)' = Owes(Top')
      BY <1>3 DEF Owes
    <3> QED
      BY <3>1, <3>2, <1>5, <1>6
  <2> QED
    BY <2>1, <2>2 DEF SendInv
<1>8. PrintInv'
  BY <1>3 DEF WalletInv, PrintInv
<1> QED
  BY <1>2, <1>4, <1>7, <1>8 DEF WalletInv

\* The places of transactions.
LEMMA IsTransaction ==
  ASSUME WalletInv, Top \in {"block", "create", "nothing"} PROVE kind = "transaction"
<1>1. Len(frames) \in 1..Len(frames)
  <2>1. Len(frames) \in Nat \ {0}
    BY EmptySeq DEF WalletInv, StackInv, BudgetInv
  <2> QED
    BY <2>1
<1> QED
  BY <1>1 DEF WalletInv, StackInv, Top

LEMMA FiniteWhenWallet == WalletInv => Cardinality(Waiting) \in Nat
  BY WaitingFinite DEF WalletInv, StackInv, BudgetInv

\* What a do_request that may still send has sent, and whether it was answered.
LEMMA SentFacts ==
  ASSUME WalletInv, status = "running", Top \notin Spent, NEW answer \in BOOLEAN,
         answered' = Append(answered, answer)
  PROVE  /\ answered' \in Seq(BOOLEAN)
         /\ Len(answered') = Len(answered) + 1
         /\ Len(answered') \in Nat /\ Len(answered') <= attempts
         /\ Len(answered') + Cardinality(Waiting) <= attempts
         /\ NoResendWhileUnknown'
         /\ answer => AllAnswered'
<1>1. answered \in Seq(BOOLEAN) /\ AllAnswered /\ attempts \in Nat
  BY DEF WalletInv, SendInv, BudgetInv
<1>2. answered' \in Seq(BOOLEAN) /\ Len(answered') = Len(answered) + 1
      /\ answered'[Len(answered) + 1] = answer
      /\ \A i \in 1..Len(answered) : answered'[i] = answered[i]
  BY <1>1
<1>3. Len(answered) \in Nat
  BY <1>1
<1>4. \A i \in 1..Len(answered) : answered'[i]
  BY <1>1, <1>2 DEF AllAnswered
<1>5. Cardinality(Waiting) \in Nat
  BY WaitingFinite DEF WalletInv, StackInv, BudgetInv
<1>6. Len(answered) + Cardinality(Waiting) + 1 <= attempts
  BY DEF WalletInv, SendInv, Owes
<1> QED
  BY <1>1, <1>2, <1>3, <1>4, <1>5, <1>6 DEF NoResendWhileUnknown, AllAnswered

\* The program ends with status -1, or inside a call.
LEMMA EndInv ==
  ASSUME WalletInv, NEW s \in {"exit -1", "aborted"}, UNCHANGED <<frames, attempts, kind, printed>>,
         status' = s, BudgetInv', status = "running",
         answered' = answered \/
           (Top \notin Spent /\ \E answer \in BOOLEAN : answered' = Append(answered, answer))
  PROVE  WalletInv'
<1>1. StackInv'
  BY DEF WalletInv, StackInv
<1>2. PrintInv'
  BY DEF WalletInv, PrintInv
<1>3. Cardinality(Waiting) \in Nat
  BY WaitingFinite DEF WalletInv, StackInv, BudgetInv
<1>4. CASE answered' = answered
  <2>1. SendInv'
    BY <1>4 DEF WalletInv, SendInv, NoResendWhileUnknown
  <2> QED
    BY <1>1, <1>2, <2>1 DEF WalletInv
<1>5. CASE Top \notin Spent /\ \E answer \in BOOLEAN : answered' = Append(answered, answer)
  <2>1. answered' \in Seq(BOOLEAN) /\ NoResendWhileUnknown'
        /\ Len(answered') <= attempts'
    BY <1>5, SentFacts
  <2>4. SendInv'
    BY <2>1 DEF WalletInv, SendInv
  <2> QED
    BY <1>1, <1>2, <2>4 DEF WalletInv
<1> QED
  BY <1>4, <1>5

LEMMA EndsInv ==
  ASSUME WalletInv, NEW s \in {"exit -1", "aborted"}, Ends(s), status = "running",
         UNCHANGED <<kind, answered, printed>>
  PROVE  WalletInv'
<1>1. BudgetInv'
  BY EndsBudget DEF WalletInv
<1> QED
  BY <1>1, EndInv DEF Ends

\* error_handler, called by a do_request that may still send or has just sent.
LEMMA HandleInv ==
  ASSUME WalletInv, NEW code, NEW next \in Spent \cup {"create"}, Handle(code, next),
         status = "running", Top \notin Spent, UNCHANGED <<kind, printed>>,
         next \in {"create", "nothing"} => kind = "transaction",
         \/ answered' = answered
         \/ answered' = Append(answered, TRUE) /\ next # "create"
         \/ answered' = Append(answered, FALSE) /\ code = "TIMEOUT"
  PROVE  WalletInv'
<1> frames \in Seq(Places) /\ frames # <<>> /\ next \in Places /\ "connect" \in Places
  BY DEF WalletInv, StackInv, BudgetInv, Spent, Places
<1>1. CASE Ends("exit -1")
  <2>1. BudgetInv'
    BY <1>1, EndsBudget DEF WalletInv
  <2> QED
    BY <1>1, <2>1, EndInv DEF Ends
<1>2. CASE HandlerExits
  <2>1. BudgetInv'
    BY <1>2, ExitBudget DEF WalletInv
  <2> QED
    BY <1>2, <2>1, EndInv DEF HandlerExits
<1>3. CASE code = "FAIL" /\ ~LastTry /\ HandlerRetries(next)
  <2>1. BudgetInv'
    BY <1>3, RetryBudget DEF WalletInv
  <2>2. attempts' = attempts + 1 /\ UNCHANGED status
    BY <1>3 DEF HandlerRetries
  <2>3. /\ frames' \in Seq(Places) /\ Len(frames') = Len(frames) + 1 /\ Top' = "connect"
        /\ frames'[Len(frames) + 1] = "connect"
        /\ frames'[Len(frames)] = next
        /\ \A i \in 1..(Len(frames) - 1) : frames'[i] = frames[i]
    BY <1>3, RetryFrames DEF Top
  <2>4. StackInv'
    <3>1. Len(frames) \in Nat /\ \A i \in 1..Len(frames') :
            i = Len(frames) + 1 \/ i = Len(frames) \/ i \in 1..(Len(frames) - 1)
      BY <2>3
    <3>2. \A i \in 1..(Len(frames') - 1) : i = Len(frames) \/ i \in 1..(Len(frames) - 1)
      BY <2>3, <3>1
    <3>3. \A i \in 1..(Len(frames) - 1) : i \in 1..Len(frames)
      BY <3>1
    <3>4. \A i \in 1..(Len(frames') - 1) : frames'[i] \in Spent \cup {"create"}
      BY <2>3, <3>2 DEF WalletInv, StackInv
    <3>5. \A i \in 1..Len(frames') :
            frames'[i] \in {"block", "create", "nothing"} => kind' = "transaction"
      BY <2>3, <3>1, <3>3 DEF WalletInv, StackInv, Spent
    <3> QED
      BY <2>2, <2>3, <3>4, <3>5 DEF WalletInv, StackInv
  <2>5. Cardinality(Waiting') = Cardinality(Waiting) + One(next)
        /\ Cardinality(Waiting) \in Nat
    BY <1>3, RetryWaiting, WaitingFinite
  <2>6. Owes(Top)' = 1
    BY <2>3 DEF Owes, Spent
  <2>7. attempts \in Nat /\ Len(answered) \in Nat
        /\ Len(answered) + Cardinality(Waiting) + 1 <= attempts
    BY DEF WalletInv, SendInv, BudgetInv, Owes
  <2>8. ASSUME answered' = answered PROVE SendInv'
    <3>1. Len(answered') + Cardinality(Waiting') + Owes(Top)' <= attempts'
          /\ Len(answered') <= attempts'
      BY <2>2, <2>5, <2>6, <2>7, <2>8 DEF One
    <3> QED
      BY <2>2, <2>8, <3>1 DEF WalletInv, SendInv, NoResendWhileUnknown, AllAnswered
  <2>9. ASSUME answered' = Append(answered, TRUE), next # "create" PROVE SendInv'
    <3>1. answered' \in Seq(BOOLEAN) /\ Len(answered') = Len(answered) + 1
          /\ NoResendWhileUnknown' /\ AllAnswered'
      BY <2>9, SentFacts
    <3>2. Len(answered') + Cardinality(Waiting') + Owes(Top)' <= attempts'
          /\ Len(answered') <= attempts'
      BY <2>2, <2>5, <2>6, <2>7, <2>9, <3>1 DEF One
    <3> QED
      BY <3>1, <3>2 DEF WalletInv, SendInv
  <2>10. SendInv'
    BY <1>3, <2>8, <2>9
  <2>11. PrintInv'
    <3>1. kind = "query" => ~(printed > 0)
      BY DEF WalletInv, PrintInv, Spent
    <3> QED
      BY <2>2, <2>3, <3>1 DEF WalletInv, PrintInv
  <2> QED
    BY <2>1, <2>4, <2>10, <2>11 DEF WalletInv
<1> QED
  BY <1>1, <1>2, <1>3 DEF Handle

\* A do_request returns.
LEMMA ReturnInv ==
  ASSUME WalletInv, Return, UNCHANGED <<kind, answered, printed>>
  PROVE  WalletInv'
<1>1. frames \in Seq(Places) /\ frames # <<>> /\ status = "running" /\ Top = "done"
  BY DEF WalletInv, StackInv, BudgetInv, Return, At, Top
<1>2. BudgetInv'
  BY <1>1, ReturnBudget DEF WalletInv
<1>3. UNCHANGED attempts
  BY DEF Return
<1>4. printed > 0
  BY <1>1 DEF WalletInv, PrintInv
<1>5. CASE Len(frames) = 1
  <2>1. status' = "exit 0" /\ UNCHANGED frames
    BY <1>5 DEF Return
  <2>2. StackInv'
    BY <2>1 DEF WalletInv, StackInv
  <2>3. SendInv'
    BY <1>3, <2>1 DEF WalletInv, SendInv, NoResendWhileUnknown
  <2>4. PrintInv'
    BY <1>4, <2>1 DEF WalletInv, PrintInv
  <2> QED
    BY <1>2, <2>2, <2>3, <2>4 DEF WalletInv
<1>6. CASE Len(frames) # 1
  <2>1. /\ frames' \in Seq(Places) /\ frames' # <<>> /\ Len(frames') = Len(frames) - 1
        /\ \A i \in 1..(Len(frames) - 1) : frames'[i] = frames[i]
        /\ UNCHANGED status
    BY <1>1, <1>6, ReturnFrames
  <2>2. /\ Top' = frames[Len(frames) - 1] /\ Len(frames) - 1 \in 1..Len(frames)
        /\ Cardinality(Waiting) \in Nat /\ Cardinality(Waiting') \in Nat
        /\ Cardinality(Waiting') = Cardinality(Waiting) - One(Top')
    BY <1>1, <1>6, ReturnWaiting
  <2>3. Len(frames) \in Nat /\ Len(frames) - 1 \in 1..(Len(frames) - 1)
    BY <1>1, <2>2
  <2>4. Top' \in Spent \cup {"create"} /\ (Top' \in {"create", "nothing"} => kind = "transaction")
    BY <2>2, <2>3 DEF WalletInv, StackInv
  <2>5. StackInv'
    <3>1. \A i \in 1..(Len(frames') - 1) : i \in 1..(Len(frames) - 1)
      BY <2>1, <2>3
    <3>2. \A i \in 1..Len(frames') : i \in 1..Len(frames) /\ i \in 1..(Len(frames) - 1)
      BY <2>1, <2>3
    <3> QED
      BY <2>1, <3>1, <3>2 DEF WalletInv, StackInv
  <2>6. SendInv'
    <3>1. Owes(Top)' = One(Top')
      BY <2>4 DEF Owes, One, Spent
    <3>2. Owes(Top) = 0
      BY <1>1 DEF Owes, Spent
    <3>3. Len(answered) + Cardinality(Waiting') + Owes(Top)' <= attempts
      <4>1. Len(answered) + Cardinality(Waiting) + 0 <= attempts /\ Len(answered) \in Nat
            /\ attempts \in Nat
        BY <1>1, <3>2 DEF WalletInv, SendInv, BudgetInv
      <4>2. One(Top') \in {0, 1}
        BY DEF One
      <4> QED
        BY <2>2, <3>1, <4>1, <4>2
    <3> QED
      BY <1>3, <2>1, <3>3 DEF WalletInv, SendInv, NoResendWhileUnknown, AllAnswered
  <2>7. PrintInv'
    BY <1>4, <2>1, <2>4 DEF WalletInv, PrintInv, Spent
  <2> QED
    BY <1>2, <2>5, <2>6, <2>7 DEF WalletInv
<1> QED
  BY <1>5, <1>6

\* The last request is answered, with a result or without.
LEMMA AnswerInv ==
  ASSUME WalletInv, status = "running", Top = "send", answered' = Append(answered, TRUE),
         UNCHANGED kind,
         \/ Goto("done") /\ printed' = printed + 1
         \/ Goto("novalue") /\ printed' = printed
  PROVE  WalletInv'
<1> frames \in Seq(Places) /\ frames # <<>> /\ "done" \in Places /\ "novalue" \in Places
  BY DEF WalletInv, StackInv, BudgetInv, Places
<1>1. PICK p \in {"done", "novalue"} : Goto(p) /\ (p = "done" <=> printed' = printed + 1)
                                    /\ (p = "novalue" <=> printed' = printed)
  BY DEF WalletInv, SendInv
<1>2. BudgetInv'
  BY <1>1, GotoBudget DEF WalletInv
<1>3. /\ frames' \in Seq(Places) /\ Len(frames') = Len(frames) /\ Top' = p
      /\ frames'[Len(frames)] = p
      /\ \A i \in 1..(Len(frames) - 1) : frames'[i] = frames[i]
      /\ UNCHANGED <<status, attempts>>
  <2>1. frames' = Continued(p) /\ UNCHANGED <<status, attempts>>
    BY <1>1 DEF Goto
  <2>2. p \in Places
    OBVIOUS
  <2>3. /\ frames' \in Seq(Places) /\ Len(frames') = Len(frames)
        /\ frames'[Len(frames)] = p
        /\ \A i \in 1..(Len(frames) - 1) : frames'[i] = frames[i]
    BY <2>1, <2>2, ContinuedFrames
  <2> QED
    BY <2>1, <2>3 DEF Top
<1>4. StackInv'
  <2>1. \A i \in 1..Len(frames) : i = Len(frames) \/ i \in 1..(Len(frames) - 1)
    OBVIOUS
  <2>2. \A i \in 1..(Len(frames) - 1) : i \in 1..Len(frames)
    OBVIOUS
  <2> QED
    BY <1>3, <2>1, <2>2 DEF WalletInv, StackInv
<1>5. SendInv'
  <2>1. Waiting' = Waiting /\ Cardinality(Waiting) \in Nat
    BY <1>3, SameWaiting, WaitingFinite
  <2>2. /\ answered' \in Seq(BOOLEAN) /\ Len(answered') + Cardinality(Waiting) <= attempts
        /\ NoResendWhileUnknown' /\ AllAnswered'
    BY SentFacts DEF Spent
  <2>3. Owes(Top)' = 0
    BY <1>3 DEF Owes, Spent
  <2>4. Len(answered') \in Nat /\ attempts \in Nat
    BY <2>2 DEF WalletInv, BudgetInv
  <2>5. Len(answered') + Cardinality(Waiting') + Owes(Top)' <= attempts' /\ Len(answered') <= attempts'
    BY <1>3, <2>1, <2>2, <2>3, <2>4
  <2>6. printed' \in Nat
    BY DEF WalletInv, SendInv
  <2> QED
    BY <2>2, <2>5, <2>6 DEF SendInv
<1>6. PrintInv'
  <2>1. printed \in Nat /\ (kind = "query" => printed = 0)
    BY DEF WalletInv, SendInv, PrintInv
  <2>2. p = "done" => printed' > 0
    BY <1>1, <2>1
  <2>3. kind' = "query" => printed' <= 1
    BY <1>1, <2>1
  <2> QED
    BY <1>1, <1>3, <2>2, <2>3 DEF PrintInv, WalletInv
<1> QED
  BY <1>2, <1>4, <1>5, <1>6 DEF WalletInv

LEMMA WalletStep ==
  ASSUME WalletInv, Next PROVE WalletInv'
<1> USE DEF Places, Spent
<1>1. CASE Connect
  <2>1. status = "running" /\ Top = "connect" /\ UNCHANGED <<kind, answered, printed>>
    BY <1>1 DEF Connect, At, Top
  <2>2. CASE Goto("call")
    BY <2>1, <2>2, GotoInv
  <2>3. CASE \E code \in ConnectCodes \cup {"NOT_SUPPORTED"} : Handle(code, "done")
    BY <2>1, <2>3, HandleInv
  <2>4. CASE Ends("aborted")
    BY <2>1, <2>4, EndsInv
  <2> QED
    BY <1>1, <2>2, <2>3, <2>4 DEF Connect
<1>2. CASE CheckParameters
  <2>1. status = "running" /\ Top = "call" /\ UNCHANGED <<kind, answered, printed>>
    BY <1>2 DEF CheckParameters, At, Top
  <2>2. CASE Goto("send")
    BY <2>1, <2>2, GotoInv
  <2>3. CASE kind = "transaction" /\ Goto("block")
    BY <2>1, <2>3, GotoInv
  <2>4. CASE \E code \in {"NOT_FOUND", "FAIL", "EXCEPTION"},
                next \in {"novalue", "done"} : Handle(code, next)
    <3>1. PICK code \in {"NOT_FOUND", "FAIL", "EXCEPTION"},
               next \in {"novalue", "done"} : Handle(code, next)
      BY <2>4
    <3> QED
      BY <2>1, <3>1, HandleInv
  <2>5. CASE Ends("aborted")
    BY <2>1, <2>5, EndsInv
  <2> QED
    BY <1>2, <2>2, <2>3, <2>4, <2>5 DEF CheckParameters
<1>3. CASE GetBlock
  <2>1. status = "running" /\ Top = "block" /\ UNCHANGED <<kind, answered, printed>>
    BY <1>3 DEF GetBlock, At, Top
  <2>2. kind = "transaction"
    BY <2>1, IsTransaction
  <2>3. CASE Goto("create")
    BY <2>1, <2>2, <2>3, GotoInv
  <2>4. CASE \E code \in {"FAIL", "TIMEOUT", "EXCEPTION"} :
               Handle(code, IF code = "EXCEPTION" THEN "novalue" ELSE "create")
    <3>1. PICK code \in {"FAIL", "TIMEOUT", "EXCEPTION"} :
                 Handle(code, IF code = "EXCEPTION" THEN "novalue" ELSE "create")
      BY <2>4
    <3>2. PICK next \in {"novalue", "create"} : Handle(code, next)
      BY <3>1
    <3> QED
      BY <2>1, <2>2, <3>2, HandleInv
  <2>5. CASE Ends("aborted")
    BY <2>1, <2>5, EndsInv
  <2> QED
    BY <1>3, <2>3, <2>4, <2>5 DEF GetBlock
<1>4. CASE Create
  <2>1. status = "running" /\ Top = "create" /\ UNCHANGED <<kind, answered, printed>>
    BY <1>4 DEF Create, At, Top
  <2>2. kind = "transaction"
    BY <2>1, IsTransaction
  <2>3. CASE Goto("send") \/ Goto("novalue")
    BY <2>1, <2>3, GotoInv
  <2>4. CASE \E code \in LibraryCodes : Handle(code, "nothing")
    BY <2>1, <2>2, <2>4, HandleInv
  <2> QED
    BY <1>4, <2>3, <2>4 DEF Create
<1>5. CASE Nothing
  <2>1. status = "running" /\ Top = "nothing" /\ UNCHANGED <<kind, answered, printed>>
    BY <1>5 DEF Nothing, At, Top
  <2> QED
    BY <1>5, <2>1, GotoInv, EndsInv DEF Nothing
<1>6. CASE Send
  <2>1. status = "running" /\ Top = "send" /\ UNCHANGED kind
    BY <1>6 DEF Send, At, Top
  <2>2. CASE Goto("done") /\ answered' = Append(answered, TRUE) /\ printed' = printed + 1
    BY <2>1, <2>2, AnswerInv
  <2>3. CASE Goto("novalue") /\ answered' = Append(answered, TRUE) /\ printed' = printed
    BY <2>1, <2>3, AnswerInv
  <2>4. CASE Handle("FAIL", "novalue") /\ answered' = Append(answered, TRUE) /\ printed' = printed
    BY <2>1, <2>4, HandleInv
  <2>5. CASE Handle("TIMEOUT", "novalue") /\ answered' = Append(answered, FALSE) /\ printed' = printed
    BY <2>1, <2>5, HandleInv
  <2> QED
    BY <1>6, <2>2, <2>3, <2>4, <2>5 DEF Send
<1>7. CASE NoValue
  BY <1>7, EndsInv DEF NoValue, At
<1>8. CASE Returns
  BY <1>8, ReturnInv DEF Returns
<1> QED
  BY <1>1, <1>2, <1>3, <1>4, <1>5, <1>6, <1>7, <1>8 DEF Next

-----------------------------------------------------------------------------
(***************************************************************************)
(* The time.  An attempt takes at most PerAttempt deadlines one after the  *)
(* other; Rest(p) of them are still to come when it is at place p.         *)
(***************************************************************************)
BlockTime == IF kind = "transaction" THEN 2 ELSE 0
PerAttempt == Deadlines("connect") + BlockTime + 2

Rest(p) ==
  IF p = "connect" THEN PerAttempt
  ELSE IF p \in {"call", "block"} THEN BlockTime + 2
  ELSE IF p \in {"create", "send"} THEN 2
  ELSE 0

\* The deadlines still to come are taken from those of the attempts.
RestShrinks ==
  \/ /\ attempts' = attempts
     /\ 2 * Cardinality(Waiting') + Rest(Top') + Deadlines(Top)
          <= 2 * Cardinality(Waiting) + Rest(Top)
  \/ /\ attempts' = attempts + 1
     /\ 2 * Cardinality(Waiting') + Rest(Top') + Deadlines(Top)
          <= 2 * Cardinality(Waiting) + Rest(Top) + PerAttempt

LEMMA RestTypes ==
  /\ BlockTime \in {0, 2} /\ Deadlines("connect") \in {1, 2} /\ PerAttempt \in 3..6
  /\ \A p : Deadlines(p) \in 0..2 /\ Rest(p) \in 0..6
  /\ Deadlines("call") = 0 /\ Deadlines("create") = 0 /\ Deadlines("nothing") = 0
  /\ Deadlines("novalue") = 0 /\ Deadlines("done") = 0
  /\ Deadlines("block") = 2 /\ Deadlines("send") = 2
<1>1. BlockTime \in {0, 2}
  BY DEF BlockTime
<1>2. Deadlines("connect") \in {1, 2} /\ \A p : Deadlines(p) \in 0..2
  BY DEF Deadlines
<1>3. PerAttempt \in 3..6
  BY <1>1, <1>2 DEF PerAttempt
<1>4. \A p : Rest(p) \in 0..6
  BY <1>1, <1>3 DEF Rest
<1>5. /\ Deadlines("call") = 0 /\ Deadlines("create") = 0 /\ Deadlines("nothing") = 0
      /\ Deadlines("novalue") = 0 /\ Deadlines("done") = 0
      /\ Deadlines("block") = 2 /\ Deadlines("send") = 2
  BY DEF Deadlines
<1> QED
  BY <1>1, <1>2, <1>3, <1>4, <1>5

LEMMA PerAttemptRange == PerAttempt \in 3..6
  BY RestTypes

LEMMA GotoRest ==
  ASSUME WalletInv, NEW p \in Places, Goto(p), Rest(p) + Deadlines(Top) <= Rest(Top)
  PROVE  RestShrinks
<1>1. frames \in Seq(Places) /\ frames # <<>>
  BY DEF WalletInv, StackInv, BudgetInv
<1>2. Len(frames') = Len(frames) /\ Top' = p /\ attempts' = attempts
      /\ \A i \in 1..(Len(frames) - 1) : frames'[i] = frames[i]
  BY <1>1, ContinuedFrames DEF Goto, Top
<1>3. Waiting' = Waiting /\ Cardinality(Waiting) \in Nat
  BY <1>1, <1>2, SameWaiting, WaitingFinite
<1>4. Rest(p) \in Nat /\ Rest(Top) \in Nat /\ Deadlines(Top) \in Nat
  BY RestTypes
<1>5. Rest(Top') = Rest(p)
  BY <1>2
<1> QED
  BY <1>2, <1>3, <1>4, <1>5 DEF RestShrinks

LEMMA HandleRest ==
  ASSUME WalletInv, NEW code, NEW next \in Places, Handle(code, next), status' = "running",
         2 * One(next) + Deadlines(Top) <= Rest(Top)
  PROVE  RestShrinks
<1>1. frames \in Seq(Places) /\ frames # <<>> /\ "connect" \in Places
  BY DEF WalletInv, StackInv, BudgetInv, Places
<1>2. HandlerRetries(next)
  BY DEF Handle, Ends, HandlerExits
<1>3. Top' = "connect" /\ attempts' = attempts + 1
  <2>1. Len(frames') = Len(frames) + 1 /\ frames'[Len(frames) + 1] = "connect"
    BY <1>1, <1>2, RetryFrames
  <2> QED
    BY <1>2, <2>1 DEF Top, HandlerRetries
<1>4. Cardinality(Waiting') = Cardinality(Waiting) + One(next) /\ Cardinality(Waiting) \in Nat
  BY <1>1, <1>2, RetryWaiting, WaitingFinite
<1>5. Rest(Top') = PerAttempt /\ One(next) \in {0, 1}
  BY <1>3 DEF Rest, One
<1> QED
  BY <1>3, <1>4, <1>5, RestTypes DEF RestShrinks

LEMMA RestStep ==
  ASSUME WalletInv, Next, status' = "running" PROVE RestShrinks
<1> USE DEF Places
<1>0. /\ Rest("connect") = PerAttempt
      /\ Rest("call") = BlockTime + 2 /\ Rest("block") = BlockTime + 2
      /\ Rest("create") = 2 /\ Rest("send") = 2
      /\ Rest("nothing") = 0 /\ Rest("novalue") = 0 /\ Rest("done") = 0
      /\ One("create") = 1 /\ One("nothing") = 0 /\ One("novalue") = 0 /\ One("done") = 0
  BY DEF Rest, One
<1>1. CASE Connect
  <2>1. Top = "connect"
    BY <1>1 DEF Connect, At, Top
  <2>2. Rest("call") + Deadlines("connect") <= Rest("connect")
        /\ 2 * One("done") + Deadlines("connect") <= Rest("connect")
    BY <1>0, RestTypes DEF PerAttempt
  <2>3. Goto("call") \/ \E code \in ConnectCodes \cup {"NOT_SUPPORTED"} : Handle(code, "done")
    BY <1>1 DEF Connect, Ends
  <2> QED
    BY <2>1, <2>2, <2>3, GotoRest, HandleRest
<1>2. CASE CheckParameters
  <2>1. Top = "call"
    BY <1>2 DEF CheckParameters, At, Top
  <2>2. \A p \in {"send", "block"} : Rest(p) + Deadlines("call") <= Rest("call")
    BY <1>0, RestTypes
  <2>3. \A p \in {"novalue", "done"} : 2 * One(p) + Deadlines("call") <= Rest("call")
    BY <1>0, RestTypes
  <2>4. \/ \E p \in {"send", "block"} : Goto(p)
        \/ \E code \in {"NOT_FOUND", "FAIL", "EXCEPTION"}, p \in {"novalue", "done"} : Handle(code, p)
    BY <1>2 DEF CheckParameters, Ends
  <2> QED
    BY <2>1, <2>2, <2>3, <2>4, GotoRest, HandleRest
<1>3. CASE GetBlock
  <2>1. Top = "block"
    BY <1>3 DEF GetBlock, At, Top
  <2>2. BlockTime = 2
    BY <2>1, IsTransaction DEF BlockTime
  <2>3. Rest("create") + Deadlines("block") <= Rest("block")
        /\ \A p \in {"novalue", "create"} : 2 * One(p) + Deadlines("block") <= Rest("block")
    BY <1>0, <2>2, RestTypes
  <2>4. \/ Goto("create")
        \/ \E code \in {"FAIL", "TIMEOUT", "EXCEPTION"}, p \in {"novalue", "create"} : Handle(code, p)
    BY <1>3 DEF GetBlock, Ends
  <2> QED
    BY <2>1, <2>3, <2>4, GotoRest, HandleRest
<1>4. CASE Create
  <2>1. Top = "create"
    BY <1>4 DEF Create, At, Top
  <2>2. \A p \in {"send", "novalue"} : Rest(p) + Deadlines("create") <= Rest("create")
    BY <1>0, RestTypes
  <2>3. 2 * One("nothing") + Deadlines("create") <= Rest("create")
    BY <1>0, RestTypes
  <2> QED
    BY <1>4, <2>1, <2>2, <2>3, GotoRest, HandleRest DEF Create
<1>5. CASE Nothing
  <2>1. Top = "nothing" /\ Goto("novalue")
    BY <1>5 DEF Nothing, At, Top, Ends
  <2>2. Rest("novalue") + Deadlines("nothing") <= Rest("nothing")
    BY <1>0, RestTypes
  <2> QED
    BY <2>1, <2>2, GotoRest
<1>6. CASE Send
  <2>1. Top = "send"
    BY <1>6 DEF Send, At, Top
  <2>2. /\ \A p \in {"novalue", "done"} : Rest(p) + Deadlines("send") <= Rest("send")
        /\ 2 * One("novalue") + Deadlines("send") <= Rest("send")
    BY <1>0, RestTypes
  <2>3. \/ \E p \in {"novalue", "done"} : Goto(p)
        \/ \E code \in {"FAIL", "TIMEOUT"} : Handle(code, "novalue")
    BY <1>6 DEF Send
  <2> QED
    BY <2>1, <2>2, <2>3, GotoRest, HandleRest
<1>7. CASE NoValue
  BY <1>7 DEF NoValue, Ends
<1>8. CASE Returns
  <2>1. Return /\ Top = "done" /\ attempts' = attempts /\ Len(frames) # 1
    BY <1>8 DEF Returns, Return, At, Top
  <2>2. frames \in Seq(Places) /\ frames # <<>>
    BY DEF WalletInv, StackInv, BudgetInv
  <2>3. /\ Cardinality(Waiting) \in Nat
        /\ Cardinality(Waiting') = Cardinality(Waiting) - One(Top')
        /\ Top' = frames[Len(frames) - 1] /\ Len(frames) - 1 \in 1..Len(frames)
    BY <2>1, <2>2, ReturnWaiting
  <2>4. Top' \in Spent \cup {"create"}
    <3>1. Len(frames) - 1 \in 1..(Len(frames) - 1)
      BY <2>2, <2>3
    <3> QED
      BY <2>3, <3>1 DEF WalletInv, StackInv
  <2>5. Rest(Top') = 2 * One(Top') /\ One(Top') \in {0, 1}
    BY <2>4, <1>0 DEF Spent, One
  <2> QED
    BY <1>0, <2>1, <2>3, <2>5, RestTypes DEF RestShrinks
<1> QED
  BY <1>1, <1>2, <1>3, <1>4, <1>5, <1>6, <1>7, <1>8 DEF Next

-----------------------------------------------------------------------------
(***************************************************************************)
(* The whole program.                                                      *)
(***************************************************************************)
StageInv ==
  /\ given \in CommandLines
  /\ stage # "main" => Fresh /\ clock = 0
  /\ stage = "main" => kind = given.method /\ timeout = Asked

\* The clock has counted no more deadlines than the attempts have, and those that
\* are still to come are among them.
TimeInv ==
  stage = "main" =>
    \E n \in Nat :
      /\ clock = n * timeout + (attempts - 1) * OptTimeout
      /\ n <= attempts * PerAttempt
      /\ status = "running" => n + 2 * Cardinality(Waiting) + Rest(Top) <= attempts * PerAttempt

IInv == WalletInv /\ StageInv /\ TimeInv

LEMMA AskedIsNat == given \in CommandLines => Asked \in Nat
<1> SUFFICES ASSUME given \in CommandLines PROVE Asked \in Nat
  OBVIOUS
<1>1. given.timeout \in {<<>>} \cup {<<t>> : t \in Timeouts}
  BY DEF CommandLines
<1>2. CASE given.timeout = <<>>
  BY <1>2 DEF Asked, Default
<1>3. CASE given.timeout # <<>>
  <2>1. PICK t \in Timeouts : given.timeout = <<t>>
    BY <1>1, <1>3
  <2> QED
    BY <1>3, <2>1, TimeoutsAreNat DEF Asked
<1> QED
  BY <1>2, <1>3

LEMMA InitInv == ProgramInit => IInv
<1> SUFFICES ASSUME ProgramInit PROVE IInv
  OBVIOUS
<1>1. Fresh /\ stage = "options" /\ clock = 0 /\ given \in CommandLines
  BY DEF ProgramInit, Init, RetryInit, Fresh
<1> QED
  BY <1>1, FreshInv DEF IInv, StageInv, TimeInv

\* The command line sets the timeout; nothing has been attempted.
LEMMA ParseStep ==
  ASSUME IInv, ParseCmdline PROVE IInv'
<1>1. Fresh /\ clock = 0 /\ given \in CommandLines
      /\ UNCHANGED <<given, clock, frames, status, reconnections, attempts, answered, printed>>
  BY DEF IInv, StageInv, ParseCmdline
<1>2. Fresh'
  BY <1>1 DEF Fresh
<1>3. WalletInv'
  BY <1>2, FreshInv, PTL
<1>4. stage' = "main" => kind' = given.method /\ timeout' = Asked
  BY DEF ParseCmdline, SetTimeout
<1>5. StageInv'
  BY <1>1, <1>2, <1>4 DEF StageInv, Asked
<1>6. TimeInv'
  <2> SUFFICES ASSUME stage' = "main"
               PROVE  /\ clock' = 0 * timeout' + (attempts' - 1) * OptTimeout
                      /\ 0 <= attempts' * PerAttempt'
                      /\ 0 + 2 * Cardinality(Waiting') + Rest(Top)' <= attempts' * PerAttempt'
    BY DEF TimeInv
  <2>1. attempts' = 1 /\ clock' = 0 /\ timeout' \in Nat
    BY <1>1, <1>4, AskedIsNat DEF Fresh
  <2>2. Len(frames') = 1 /\ Top' = "connect" /\ Waiting' = {}
    <3>1. frames' = <<"connect">> /\ Len(frames') = 1 /\ frames'[1] = "connect"
      BY <1>2 DEF Fresh
    <3> QED
      BY <3>1 DEF Top, Waiting
  <2>3. Cardinality(Waiting') = 0
    BY <2>2, FS_EmptySet
  <2>4. Rest(Top)' = PerAttempt'
    BY <2>2 DEF Rest
  <2>5. (PerAttempt \in 3..6)'
    BY PerAttemptRange, PTL
  <2>6. attempts' * PerAttempt' = PerAttempt' /\ 0 * timeout' = 0 /\ (attempts' - 1) * OptTimeout = 0
    <3>1. \A t \in Nat : 0 * t = 0 /\ 1 * t = t
      OBVIOUS
    <3>2. (attempts' - 1) * OptTimeout = 0
      BY <2>1 DEF OptTimeout
    <3>3. PerAttempt' \in Nat
      BY <2>5
    <3> QED
      BY <2>1, <3>1, <3>2, <3>3
  <2>7. clock' = 0 * timeout' + (attempts' - 1) * OptTimeout
    BY <2>1, <2>6
  <2>8. PerAttempt' \in Nat
    BY <2>5
  <2>9. 0 <= attempts' * PerAttempt'
    BY <2>6, <2>8
  <2>10. 0 + 2 * Cardinality(Waiting') + Rest(Top)' <= attempts' * PerAttempt'
    BY <2>3, <2>4, <2>6, <2>8
  <2> QED
    BY <2>7, <2>9, <2>10
<1> QED
  BY <1>3, <1>5, <1>6 DEF IInv

\* A step of the call moves deadlines from those to come to those that were.
LEMMA CallStep ==
  ASSUME IInv, Call PROVE IInv'
<1>1. stage = "main" /\ Next /\ UNCHANGED <<stage, given, timeout>>
      /\ clock' = clock + Deadlines(Top) * timeout + Pause
  BY DEF Call, Top
<1>2. WalletInv'
  BY <1>1, WalletStep DEF IInv
<1>3. kind' = kind /\ status = "running"
  BY <1>1 DEF Next, Connect, CheckParameters, GetBlock, Create, Nothing, Send, NoValue, Returns,
              Return, At
<1>4. StageInv'
  BY <1>1, <1>3 DEF IInv, StageInv, Asked
<1>5. PerAttempt' = PerAttempt /\ PerAttempt \in 3..6 /\ (Rest(Top))' = Rest(Top')
  BY <1>1, <1>3, RestTypes DEF PerAttempt, BlockTime, Rest, Deadlines
<1>6. timeout \in Nat /\ attempts \in Nat /\ Deadlines(Top) \in 0..2 /\ Rest(Top) \in 0..6
      /\ Rest(Top') \in 0..6
  BY <1>1, AskedIsNat, RestTypes DEF IInv, StageInv, WalletInv, BudgetInv
<1>7. Cardinality(Waiting) \in Nat
  BY WaitingFinite DEF IInv, WalletInv, StackInv, BudgetInv
<1>8. PICK n \in Nat :
        /\ clock = n * timeout + (attempts - 1) * OptTimeout
        /\ n + 2 * Cardinality(Waiting) + Rest(Top) <= attempts * PerAttempt
  BY <1>1, <1>3 DEF IInv, TimeInv
<1>9. Deadlines(Top) <= Rest(Top)
  <2>1. Top \in Places
    <3>1. Len(frames) \in Nat \ {0} /\ frames \in Seq(Places)
      BY EmptySeq DEF IInv, WalletInv, StackInv, BudgetInv
    <3> QED
      BY <3>1 DEF Top
  <2> QED
    BY <2>1, RestTypes DEF Rest, Places, PerAttempt
<1>10. attempts' = attempts \/ attempts' = attempts + 1
  BY <1>1 DEF Next, Connect, CheckParameters, GetBlock, Create, Nothing, Send, NoValue, Returns,
              Handle, Goto, Ends, HandlerExits, HandlerRetries, Return
<1>11. clock' = (n + Deadlines(Top)) * timeout + (attempts' - 1) * OptTimeout
  <2>1. Pause = (attempts' - attempts) * OptTimeout
    BY <1>6, <1>10 DEF Pause, OptTimeout
  <2> QED
    BY <1>1, <1>6, <1>8, <1>10, <2>1 DEF OptTimeout
<1>12. attempts' * PerAttempt = IF attempts' = attempts THEN attempts * PerAttempt
                                                       ELSE attempts * PerAttempt + PerAttempt
  BY <1>5, <1>6, <1>10
<1>13. attempts * PerAttempt \in Nat
  BY <1>5, <1>6
<1>14. n + Deadlines(Top) <= attempts' * PerAttempt
  BY <1>5, <1>6, <1>7, <1>8, <1>9, <1>12, <1>13
<1>15. status' = "running" =>
         n + Deadlines(Top) + 2 * Cardinality(Waiting') + Rest(Top') <= attempts' * PerAttempt
  <2> SUFFICES ASSUME status' = "running"
               PROVE  n + Deadlines(Top) + 2 * Cardinality(Waiting') + Rest(Top')
                        <= attempts' * PerAttempt
    OBVIOUS
  <2>1. RestShrinks
    BY <1>1, RestStep DEF IInv
  <2>2. Cardinality(Waiting') \in Nat
    <3>1. WalletInv' => (Cardinality(Waiting) \in Nat)'
      BY FiniteWhenWallet, PTL
    <3> QED
      BY <1>2, <3>1
  <2> QED
    BY <1>5, <1>6, <1>7, <1>8, <1>12, <1>13, <2>1, <2>2 DEF RestShrinks
<1>16. TimeInv'
  <2>1. n + Deadlines(Top) \in Nat
    BY <1>6
  <2> QED
    BY <1>1, <1>5, <1>11, <1>14, <1>15, <2>1 DEF TimeInv
<1> QED
  BY <1>2, <1>4, <1>16 DEF IInv

LEMMA StepInv == IInv /\ [ProgramNext]_programVars => IInv'
<1> SUFFICES ASSUME IInv, [ProgramNext]_programVars PROVE IInv'
  OBVIOUS
<1>1. CASE UNCHANGED programVars
  <2>1. UNCHANGED <<frames, status, reconnections, attempts, kind, answered, printed, unreached,
                    stage, given, timeout, clock>>
    BY <1>1 DEF programVars, vars, retry
  <2>2. Top' = Top /\ Waiting' = Waiting
    BY <2>1 DEF Top, Waiting
  <2>3. BudgetInv' /\ StackInv'
    BY <2>1, Zenon DEF IInv, WalletInv, BudgetInv, StackInv
  <2>4. SendInv'
    BY <2>1, <2>2, Zenon DEF IInv, WalletInv, SendInv, NoResendWhileUnknown, AllAnswered
  <2>5. PrintInv'
    BY <2>1, <2>2, Zenon DEF IInv, WalletInv, PrintInv
  <2>6. StageInv'
    BY <2>1, Zenon DEF IInv, StageInv, Fresh, Asked
  <2>7. TimeInv'
    <3>1. PerAttempt' = PerAttempt /\ Rest(Top)' = Rest(Top)
      BY <2>1, <2>2 DEF PerAttempt, Rest, BlockTime, Deadlines
    <3> QED
      BY <2>1, <2>2, <3>1, Zenon DEF IInv, TimeInv
  <2> QED
    BY <2>3, <2>4, <2>5, <2>6, <2>7 DEF IInv, WalletInv
<1> QED
  BY <1>1, ParseStep, CallStep DEF ProgramNext

\* The invariant holds in every behaviour of the program.
THEOREM Invariance == ProgramSpec => []IInv
  BY InitInv, StepInv, PTL DEF ProgramSpec

-----------------------------------------------------------------------------
(***************************************************************************)
(* What follows from the invariant.                                        *)
(***************************************************************************)
\* Retries of retries share one budget, whatever the option says.
THEOREM RetriesAreBounded == ProgramSpec => []AttemptsBounded
<1>1. IInv => AttemptsBounded
  BY BudgetBounds DEF IInv, WalletInv
<1> QED
  BY <1>1, Invariance, PTL

\* No request follows one whose fate is unknown.
THEOREM NeverResendsBlindly == ProgramSpec => []NoResendWhileUnknown
<1>1. IInv => NoResendWhileUnknown
  BY DEF IInv, WalletInv, SendInv
<1> QED
  BY <1>1, Invariance, PTL

\* mile_cli_wallet exits with 0 only if it has printed a result.
THEOREM ExitStatusIsHonest == ProgramSpec => []ExitZeroMeansPrinted
<1>1. IInv => ExitZeroMeansPrinted
  BY DEF IInv, WalletInv, PrintInv, ExitZeroMeansPrinted
<1> QED
  BY <1>1, Invariance, PTL

\* A query prints one result at most, however many do_requests are on the stack.
THEOREM QueriesPrintOnce == ProgramSpec => []OneResult
<1>1. IInv => OneResult
  BY DEF IInv, WalletInv, PrintInv, OneResult
<1> QED
  BY <1>1, Invariance, PTL

\* --timeout and --reconnections together limit the time, whatever their values.
THEOREM TimeStaysBounded == ProgramSpec => []TimeIsBounded
<1>1. IInv => TimeIsBounded
  <2> SUFFICES ASSUME IInv
               PROVE  clock <= Budget * (Deadlines("connect") + Deadlines("send") +
                                  IF given.method = "transaction" THEN Deadlines("block") ELSE 0)
                                * Asked + (Budget - 1) * OptTimeout
    BY DEF TimeIsBounded
  <2> DEFINE Most == Deadlines("connect") + Deadlines("send") +
                       IF given.method = "transaction" THEN Deadlines("block") ELSE 0
  <2>1. Asked \in Nat
    BY AskedIsNat DEF IInv, StageInv
  <2>2. Budget \in Nat /\ Budget >= 1
    BY ReconnectionsIsInt DEF Budget
  <2>3. Most \in Nat
    BY RestTypes
  <2>4. \A a, b, c \in Nat : a <= b => a * c <= b * c
    OBVIOUS
  <2>5. Budget * Most \in Nat /\ 0 <= Budget * Most * Asked /\ 0 <= (Budget - 1) * OptTimeout
        /\ Budget * Most * Asked \in Nat /\ (Budget - 1) * OptTimeout \in Nat
    <3> HIDE DEF Most
    <3>1. Budget * Most \in Nat
      BY <2>2, <2>3
    <3>2. Budget * Most * Asked \in Nat
      BY <2>1, <3>1
    <3> QED
      BY <2>2, <3>1, <3>2 DEF OptTimeout
  <2>6. CASE stage # "main"
    BY <2>5, <2>6 DEF IInv, StageInv
  <2>7. CASE stage = "main"
    <3>1. PerAttempt = Most /\ timeout = Asked
      BY <2>7, RestTypes DEF IInv, StageInv, PerAttempt, BlockTime
    <3>2. PICK n \in Nat : clock = n * Asked + (attempts - 1) * OptTimeout /\ n <= attempts * Most
      BY <2>7, <3>1 DEF IInv, TimeInv
    <3> HIDE DEF Most
    <3>3. attempts \in Nat /\ attempts >= 1 /\ attempts <= Budget
      BY BudgetBounds DEF IInv, WalletInv, BudgetInv, AttemptsBounded, Budget
    <3>4. attempts * Most <= Budget * Most /\ attempts * Most \in Nat
      BY <2>2, <2>3, <2>4, <3>3
    <3>5. n <= Budget * Most
      BY <2>5, <3>2, <3>4
    <3>6. n * Asked <= Budget * Most * Asked /\ n * Asked \in Nat
      BY <2>1, <2>4, <2>5, <3>5
    <3>7. (attempts - 1) * OptTimeout <= (Budget - 1) * OptTimeout
          /\ (attempts - 1) * OptTimeout \in Nat
      BY <2>2, <3>3 DEF OptTimeout
    <3>8. clock <= Budget * Most * Asked + (Budget - 1) * OptTimeout
      BY <2>5, <3>2, <3>6, <3>7
    <3> QED
      BY <3>8 DEF Most
  <2> QED
    BY <2>6, <2>7
<1> QED
  BY <1>1, Invariance, PTL

-----------------------------------------------------------------------------
(***************************************************************************)
(* The steps that are left.                                                *)
(***************************************************************************)
LEMMA PlacesLeftTypes ==
  /\ \A p \in Places : PlacesLeft[p] \in 0..5
  /\ \A p \in Spent \cup {"create"} : PlacesLeft[p] \in 0..2
  /\ \A p \in {"connect", "call", "block", "create", "send"} : PlacesLeft[p] > 0
  /\ PlacesLeft["connect"] = 5 /\ PlacesLeft["done"] = 0
  BY DEF PlacesLeft, Places, Spent

LEMMA TopIsAPlace == WalletInv => Top \in Places /\ Len(frames) \in Nat \ {0}
<1> SUFFICES ASSUME WalletInv PROVE Top \in Places /\ Len(frames) \in Nat \ {0}
  OBVIOUS
<1>1. frames \in Seq(Places) /\ Len(frames) \in Nat \ {0}
  BY EmptySeq DEF WalletInv, StackInv, BudgetInv
<1> QED
  BY <1>1 DEF Top

\* The attempts that may be made yet.
LEMMA AttemptsLeft == WalletInv => attempts \in Nat /\ Promise!Budget - attempts \in Nat
<1> SUFFICES ASSUME WalletInv PROVE attempts \in Nat /\ Promise!Budget - attempts \in Nat
  OBVIOUS
<1>1. attempts \in Nat /\ attempts <= Promise!Budget
  BY BudgetBounds DEF WalletInv, BudgetInv, AttemptsBounded, Promise!Budget
<1>2. Promise!Budget \in Int
  BY ReconnectionsIsInt DEF Promise!Budget
<1> QED
  BY <1>1, <1>2

LEMMA TopPlaceIsNat == WalletInv => PlacesLeft[Top] \in Nat
  BY TopIsAPlace, PlacesLeftTypes

LEMMA CallStepsAreNat == WalletInv => CallStepsLeft \in Nat
<1> SUFFICES ASSUME WalletInv PROVE CallStepsLeft \in Nat
  OBVIOUS
<1>1. PlacesLeft[Top] \in Nat /\ Len(frames) \in Nat /\ Promise!Budget - attempts \in Nat
  BY TopIsAPlace, AttemptsLeft, PlacesLeftTypes
<1> QED
  BY <1>1 DEF CallStepsLeft, Top

\* The program has ended: no step is left, and there was one.
LEMMA EndingShrinks ==
  ASSUME WalletInv, status = "running", status' # "running"
  PROVE  CallStepsLeft' \in 0..(CallStepsLeft - 1)
<1>1. CallStepsLeft' = 0
  BY DEF CallStepsLeft
<1>2. PlacesLeft[Top] \in Nat /\ Len(frames) \in Nat \ {0} /\ Promise!Budget - attempts \in Nat
  BY TopIsAPlace, AttemptsLeft, PlacesLeftTypes
<1>3. CallStepsLeft = 8 * (Promise!Budget - attempts) + 3 * Len(frames) + PlacesLeft[Top]
  BY DEF CallStepsLeft, Top
<1> QED
  BY <1>1, <1>2, <1>3

\* How the steps left are weighed: going on, returning, and starting over each
\* take from them, b - a attempts being left and n do_request's on the stack.
LEMMA Weights ==
  ASSUME NEW b \in Int, NEW a \in Int, NEW n \in Int, NEW p \in Nat, NEW q \in Nat
  PROVE  /\ q < p => 8 * (b - a) + 3 * n + q < 8 * (b - a) + 3 * n + p
         /\ q <= 2 => 8 * (b - a) + 3 * (n - 1) + q < 8 * (b - a) + 3 * n + p
         /\ p > 0 => 8 * (b - (a + 1)) + 3 * (n + 1) + 5 < 8 * (b - a) + 3 * n + p
  OBVIOUS

LEMMA WeighedSteps ==
  ASSUME WalletInv, WalletInv', status = "running", status' = "running",
         \/ /\ UNCHANGED attempts /\ Len(frames') = Len(frames)
            /\ PlacesLeft[Top'] < PlacesLeft[Top]
         \/ /\ UNCHANGED attempts /\ Len(frames') = Len(frames) - 1
            /\ PlacesLeft[Top'] <= 2
         \/ /\ attempts' = attempts + 1 /\ Len(frames') = Len(frames) + 1
            /\ PlacesLeft[Top'] = 5 /\ PlacesLeft[Top] > 0
  PROVE  CallStepsLeft' \in 0..(CallStepsLeft - 1)
<1>1. /\ PlacesLeft[Top] \in Nat /\ Len(frames) \in Int /\ attempts \in Int
      /\ Promise!Budget \in Int
  <2>1. Top \in Places /\ Len(frames) \in Nat \ {0} /\ attempts \in Nat
    BY TopIsAPlace, AttemptsLeft
  <2>2. PlacesLeft[Top] \in 0..5
    BY <2>1, PlacesLeftTypes
  <2>3. Promise!Budget \in Int
    BY ReconnectionsIsInt DEF Promise!Budget
  <2> QED
    BY <2>1, <2>2, <2>3
<1>2. CallStepsLeft = 8 * (Promise!Budget - attempts) + 3 * Len(frames) + PlacesLeft[Top]
  BY DEF CallStepsLeft, Top
<1>3. CallStepsLeft' = 8 * (Promise!Budget - attempts') + 3 * Len(frames') + PlacesLeft[Top']
  BY DEF CallStepsLeft, Top
<1>4. (CallStepsLeft \in Nat)' /\ (PlacesLeft[Top] \in Nat)'
  BY CallStepsAreNat, TopPlaceIsNat, PTL
<1>5. CallStepsLeft' \in Nat /\ PlacesLeft[Top'] \in Nat /\ CallStepsLeft \in Nat
  BY <1>4, CallStepsAreNat
<1>6. CallStepsLeft' < CallStepsLeft
  <2>1. CASE UNCHANGED attempts /\ Len(frames') = Len(frames) /\ PlacesLeft[Top'] < PlacesLeft[Top]
    BY <1>1, <1>2, <1>3, <1>5, <2>1, Weights
  <2>2. CASE UNCHANGED attempts /\ Len(frames') = Len(frames) - 1 /\ PlacesLeft[Top'] <= 2
    BY <1>1, <1>2, <1>3, <1>5, <2>2, Weights
  <2>3. CASE /\ attempts' = attempts + 1 /\ Len(frames') = Len(frames) + 1
             /\ PlacesLeft[Top'] = 5 /\ PlacesLeft[Top] > 0
    BY <1>1, <1>2, <1>3, <1>5, <2>3, Weights
  <2> QED
    BY <2>1, <2>2, <2>3
<1> QED
  BY <1>5, <1>6

\* error_handler takes from the steps left.
LEMMA HandleShrinks ==
  ASSUME WalletInv, WalletInv', NEW code, NEW next \in Spent \cup {"create"}, Handle(code, next),
         status = "running", Top \in {"connect", "call", "block", "create", "send"}
  PROVE  CallStepsLeft' \in 0..(CallStepsLeft - 1)
<1>0. frames \in Seq(Places) /\ frames # <<>> /\ next \in Places /\ "connect" \in Places
  BY DEF WalletInv, StackInv, BudgetInv, Spent, Places
<1>1. CASE HandlerExits \/ Ends("exit -1")
  BY <1>1, EndingShrinks DEF HandlerExits, Ends
<1>2. CASE HandlerRetries(next)
  <2>1. Len(frames') = Len(frames) + 1 /\ Top' = "connect"
    BY <1>0, <1>2, RetryFrames DEF Top
  <2>2. attempts' = attempts + 1 /\ UNCHANGED status
    BY <1>2 DEF HandlerRetries
  <2> QED
    BY <2>1, <2>2, PlacesLeftTypes, WeighedSteps
<1> QED
  BY <1>1, <1>2 DEF Handle

LEMMA GotoShrinks ==
  ASSUME WalletInv, WalletInv', NEW p \in Places, Goto(p), status = "running",
         PlacesLeft[p] < PlacesLeft[Top]
  PROVE  CallStepsLeft' \in 0..(CallStepsLeft - 1)
<1>1. frames \in Seq(Places) /\ frames # <<>>
  BY DEF WalletInv, StackInv, BudgetInv
<1>2. Len(frames') = Len(frames) /\ Top' = p /\ UNCHANGED <<status, attempts>>
  BY <1>1, ContinuedFrames DEF Goto, Top
<1> QED
  BY <1>2, WeighedSteps

\* Below the one that returns is one that goes on from "create", at most.
LEMMA ReturnShrinks ==
  ASSUME WalletInv, WalletInv', Return
  PROVE  CallStepsLeft' \in 0..(CallStepsLeft - 1)
<1>1. status = "running" /\ UNCHANGED attempts /\ frames \in Seq(Places) /\ frames # <<>>
  BY DEF Return, At, WalletInv, StackInv, BudgetInv
<1>2. CASE Len(frames) = 1
  BY <1>1, <1>2, EndingShrinks DEF Return
<1>3. CASE Len(frames) # 1
  <2>1. /\ Len(frames') = Len(frames) - 1 /\ UNCHANGED status
        /\ \A i \in 1..(Len(frames) - 1) : frames'[i] = frames[i]
    BY <1>1, <1>3, ReturnFrames
  <2>2. Len(frames) - 1 \in 1..(Len(frames) - 1)
    <3>1. Len(frames) \in Nat \ {0}
      BY TopIsAPlace
    <3>2. \A n \in Nat \ {0} : n # 1 => n - 1 \in 1..(n - 1)
      OBVIOUS
    <3> QED
      BY <1>3, <3>1, <3>2
  <2>3. Top' \in Spent \cup {"create"}
    BY <2>1, <2>2 DEF Top, WalletInv, StackInv
  <2>4. PlacesLeft[Top'] <= 2
    BY <2>3, PlacesLeftTypes
  <2> QED
    BY <1>1, <2>1, <2>4, WeighedSteps
<1> QED
  BY <1>2, <1>3

LEMMA CallShrinks ==
  ASSUME WalletInv, WalletInv', Next PROVE CallStepsLeft' \in 0..(CallStepsLeft - 1)
<1>1. CASE Connect
  <2>1. status = "running" /\ Top = "connect"
    BY <1>1 DEF Connect, At, Top
  <2>2. CASE Goto("call")
    BY <2>1, <2>2, GotoShrinks DEF PlacesLeft, Places
  <2>3. CASE \E code \in ConnectCodes \cup {"NOT_SUPPORTED"} : Handle(code, "done")
    BY <2>1, <2>3, HandleShrinks DEF Spent
  <2>4. CASE Ends("aborted")
    BY <2>1, <2>4, EndingShrinks DEF Ends
  <2> QED
    BY <1>1, <2>2, <2>3, <2>4 DEF Connect
<1>2. CASE CheckParameters
  <2>1. status = "running" /\ Top = "call"
    BY <1>2 DEF CheckParameters, At, Top
  <2>2. CASE Goto("send") \/ Goto("block")
    BY <2>1, <2>2, GotoShrinks DEF PlacesLeft, Places
  <2>3. CASE \E code \in {"NOT_FOUND", "FAIL", "EXCEPTION"},
                next \in {"novalue", "done"} : Handle(code, next)
    BY <2>1, <2>3, HandleShrinks DEF Spent
  <2>4. CASE Ends("aborted")
    BY <2>1, <2>4, EndingShrinks DEF Ends
  <2> QED
    BY <1>2, <2>2, <2>3, <2>4 DEF CheckParameters
<1>3. CASE GetBlock
  <2>1. status = "running" /\ Top = "block"
    BY <1>3 DEF GetBlock, At, Top
  <2>2. CASE Goto("create")
    BY <2>1, <2>2, GotoShrinks DEF PlacesLeft, Places
  <2>3. CASE \E code \in {"FAIL", "TIMEOUT", "EXCEPTION"}, next \in {"novalue", "create"} :
               Handle(code, next)
    BY <2>1, <2>3, HandleShrinks DEF Spent
  <2>4. CASE Ends("aborted")
    BY <2>1, <2>4, EndingShrinks DEF Ends
  <2> QED
    BY <1>3, <2>2, <2>3, <2>4 DEF GetBlock
<1>4. CASE Create
  <2>1. status = "running" /\ Top = "create"
    BY <1>4 DEF Create, At, Top
  <2>2. CASE Goto("send") \/ Goto("novalue")
    BY <2>1, <2>2, GotoShrinks DEF PlacesLeft, Places
  <2>3. CASE \E code \in LibraryCodes : Handle(code, "nothing")
    BY <2>1, <2>3, HandleShrinks DEF Spent
  <2> QED
    BY <1>4, <2>2, <2>3 DEF Create
<1>5. CASE Nothing
  <2>1. status = "running" /\ Top = "nothing"
    BY <1>5 DEF Nothing, At, Top
  <2>2. CASE Goto("novalue")
    BY <2>1, <2>2, GotoShrinks DEF PlacesLeft, Places
  <2>3. CASE Ends("aborted")
    BY <2>1, <2>3, EndingShrinks DEF Ends
  <2> QED
    BY <1>5, <2>2, <2>3 DEF Nothing
<1>6. CASE Send
  <2>1. status = "running" /\ Top = "send"
    BY <1>6 DEF Send, At, Top
  <2>2. CASE Goto("done") \/ Goto("novalue")
    BY <2>1, <2>2, GotoShrinks DEF PlacesLeft, Places
  <2>3. CASE \E code \in {"FAIL", "TIMEOUT"} : Handle(code, "novalue")
    BY <2>1, <2>3, HandleShrinks DEF Spent
  <2> QED
    BY <1>6, <2>2, <2>3 DEF Send
<1>7. CASE NoValue
  <2>1. status = "running" /\ status' = "exit -1"
    BY <1>7 DEF NoValue, At, Ends
  <2> QED
    BY <2>1, EndingShrinks
<1>8. CASE Returns
  BY <1>8, ReturnShrinks DEF Returns
<1> QED
  BY <1>1, <1>2, <1>3, <1>4, <1>5, <1>6, <1>7, <1>8 DEF Next

\* No step of the program can be taken more often than the steps left allow.
THEOREM RetriesRunOut == ProgramSpec => NoEndlessRetries
<1>1. IInv /\ IInv' /\ [ProgramNext]_programVars
        => [StepsLeft' \in 0..(StepsLeft - 1)]_programVars
  <2> SUFFICES ASSUME IInv, IInv', ProgramNext PROVE StepsLeft' \in 0..(StepsLeft - 1)
    OBVIOUS
  <2>1. CallStepsLeft \in Nat
    BY CallStepsAreNat DEF IInv
  <2>2. CASE ParseCmdline
    <3>1. stage = "options" /\ stage' # "options" /\ UNCHANGED <<frames, status, attempts>>
      BY <2>2 DEF ParseCmdline
    <3>2. CallStepsLeft' = CallStepsLeft
      BY <3>1 DEF CallStepsLeft
    <3>3. StepsLeft = 1 + CallStepsLeft /\ StepsLeft' = 0 + CallStepsLeft
      BY <3>1, <3>2 DEF StepsLeft
    <3> QED
      BY <2>1, <3>3
  <2>3. CASE Call
    <3>1. Next /\ stage = "main" /\ stage' = "main"
      BY <2>3 DEF Call
    <3>2. CallStepsLeft' \in 0..(CallStepsLeft - 1)
      BY <3>1, CallShrinks DEF IInv
    <3>3. StepsLeft = CallStepsLeft /\ StepsLeft' = CallStepsLeft'
      <4>1. StepsLeft = 0 + CallStepsLeft /\ StepsLeft' = 0 + CallStepsLeft'
        BY <3>1 DEF StepsLeft
      <4>2. (CallStepsLeft \in Nat)'
        BY CallStepsAreNat, PTL DEF IInv
      <4>3. \A n \in Nat : 0 + n = n
        OBVIOUS
      <4> QED
        BY <2>1, <4>1, <4>2, <4>3
    <3> QED
      BY <3>2, <3>3
  <2> QED
    BY <2>2, <2>3 DEF ProgramNext
<1> QED
  BY <1>1, Invariance, PTL DEF NoEndlessRetries, ProgramSpec

-----------------------------------------------------------------------------
(***************************************************************************)
(* Types.                                                                  *)
(***************************************************************************)
TypeInv ==
  /\ stage \in {"options", "refused", "usage", "keys", "crashed", "main"}
  /\ timeout \in Timeouts \cup {ClientTimeout, Default}
  /\ clock \in Nat
  /\ kind \in {"query", "transaction", "wrong"}
  /\ printed \in 0..Len(answered)
  /\ unreached \in BOOLEAN

LEMMA TypesInit == ProgramInit => TypeInv
<1> SUFFICES ASSUME ProgramInit PROVE TypeInv
  OBVIOUS
<1>1. printed = 0 /\ Len(answered) = 0 /\ clock = 0
  BY DEF ProgramInit, Init
<1>2. printed \in 0..Len(answered) /\ clock \in Nat
  BY <1>1
<1> QED
  BY <1>2 DEF ProgramInit, Init, TypeInv

LEMMA AskedIsTried == given \in CommandLines => Asked \in Timeouts \cup {Default}
<1> SUFFICES ASSUME given \in CommandLines, given.timeout # <<>> PROVE Asked \in Timeouts
  BY DEF Asked
<1>1. PICK t \in Timeouts : given.timeout = <<t>>
  BY DEF CommandLines
<1> QED
  BY <1>1 DEF Asked

LEMMA TypesStep ==
  ASSUME IInv, TypeInv, [ProgramNext]_programVars PROVE TypeInv'
<1>1. answered \in Seq(BOOLEAN) /\ given \in CommandLines
  BY DEF IInv, WalletInv, SendInv, StageInv
<1>2. CASE ParseCmdline
  <2>1. UNCHANGED <<clock, answered, printed, unreached>>
        /\ stage' \in {"options", "refused", "usage", "keys", "crashed", "main"}
    BY <1>2 DEF ParseCmdline
  <2>2. kind' = kind \/ (kind' = given.method /\ given.method # "absent")
    BY <1>2 DEF ParseCmdline
  <2>3. given.method \in {"absent", "query", "transaction", "wrong"}
    BY <1>1 DEF CommandLines
  <2>4. kind' \in {"query", "transaction", "wrong"}
    BY <2>2, <2>3 DEF TypeInv
  <2>5. timeout' = timeout \/ timeout' = Asked
    BY <1>2 DEF ParseCmdline, SetTimeout
  <2> QED
    BY <1>1, <2>1, <2>4, <2>5, AskedIsTried DEF TypeInv
<1>3. CASE Call
  <2>1. Next /\ UNCHANGED <<stage, timeout>> /\ clock' = clock + Deadlines(Top) * timeout + Pause
    BY <1>3 DEF Call, Top
  <2>2. kind' = kind
    BY <2>1 DEF Next, Connect, CheckParameters, GetBlock, Create, Nothing, Send, NoValue, Returns
  <2>3. timeout \in Nat /\ Deadlines(Top) \in Nat /\ Pause \in Nat
    BY TimeoutsAreNat, RestTypes DEF TypeInv, ClientTimeout, Default, Pause, OptTimeout
  <2>4. clock' \in Nat
    <3>1. Deadlines(Top) * timeout \in Nat /\ clock \in Nat
      BY <2>3 DEF TypeInv
    <3> QED
      BY <2>1, <2>3, <3>1
  <2>5. printed' \in 0..Len(answered')
    <3>1. CASE Send
      <4>1. PICK answer \in BOOLEAN : answered' = Append(answered, answer)
                                      /\ printed' \in {printed, printed + 1}
        BY <3>1 DEF Send
      <4>2. Len(answered') = Len(answered) + 1 /\ Len(answered) \in Nat
        BY <1>1, <4>1
      <4> QED
        BY <4>1, <4>2 DEF TypeInv
    <3>2. CASE ~Send
      <4>1. UNCHANGED <<answered, printed>>
        BY <2>1, <3>2 DEF Next, Connect, CheckParameters, GetBlock, Create, Nothing, NoValue, Returns
      <4> QED
        BY <4>1 DEF TypeInv
    <3> QED
      BY <3>1, <3>2
  <2>6. unreached' \in BOOLEAN
    <3>1. unreached' = unreached \/ unreached' = (status' # "running")
      BY <2>1 DEF Next, Connect, CheckParameters, GetBlock, Create, Nothing, Send, NoValue, Returns
    <3> QED
      BY <3>1 DEF TypeInv
  <2> QED
    BY <2>1, <2>2, <2>4, <2>5, <2>6 DEF TypeInv
<1>4. CASE UNCHANGED programVars
  BY <1>4 DEF programVars, vars, TypeInv
<1> QED
  BY <1>2, <1>3, <1>4 DEF ProgramNext

\* Every variable of the program has its type, with any option and any timeout.
THEOREM TypeCorrect == ProgramSpec => []ProgramTypeOK
<1>1. ProgramSpec => []TypeInv
  BY TypesInit, TypesStep, Invariance, PTL DEF ProgramSpec
<1>2. IInv /\ TypeInv => ProgramTypeOK
  <2> SUFFICES ASSUME IInv, TypeInv PROVE ProgramTypeOK
    OBVIOUS
  <2>1. RetryTypes
    BY Zenon DEF IInv, WalletInv, BudgetInv, StackInv, RetryTypes
  <2>2. TypeOK
    BY <2>1 DEF IInv, WalletInv, StackInv, SendInv, TypeInv, TypeOK
  <2> QED
    BY <2>2 DEF IInv, StageInv, TypeInv, ProgramTypeOK
<1> QED
  BY <1>1, <1>2, Invariance, PTL

-----------------------------------------------------------------------------
(***************************************************************************)
(* The refinement.                                                         *)
(***************************************************************************)
\* One who is about to send may do so for the abstract program.
LEMMA MaySend ==
  ASSUME WalletInv, status = "running", Top \notin Spent
  PROVE  /\ ~\E i \in 1..Len(answered) : ~answered[i]
         /\ ~(kind = "query" /\ printed > 0)
         /\ Len(answered) \in Nat /\ Len(answered) < Promise!Budget
<1>1. AllAnswered
  BY DEF WalletInv, SendInv
<1>2. ~(kind = "query" /\ printed > 0)
  BY DEF WalletInv, PrintInv, Spent
<1>3. Len(answered) \in Nat /\ attempts \in Nat /\ Cardinality(Waiting) \in Nat
  BY FiniteWhenWallet DEF WalletInv, SendInv, BudgetInv
<1>4. Len(answered) + Cardinality(Waiting) + 1 <= attempts
  BY DEF WalletInv, SendInv, Owes
<1>5. attempts <= Promise!Budget
  BY BudgetBounds DEF WalletInv, AttemptsBounded, Promise!Budget
<1>6. Promise!Budget \in Int
  BY ReconnectionsIsInt DEF Promise!Budget
<1> QED
  BY <1>1, <1>2, <1>3, <1>4, <1>5, <1>6 DEF AllAnswered

LEMMA PromiseStep ==
  ASSUME WalletInv, Next PROVE [Promise!Next]_(Promise!vars)
<1>0. kind' = kind /\ status = "running"
  BY DEF Next, Connect, CheckParameters, GetBlock, Create, Nothing, Send, NoValue, Returns,
         Return, At
<1>1. CASE Send
  <2>1. Top = "send" /\ printed \in Nat /\ Top \notin Spent
    BY <1>1 DEF Send, At, Top, WalletInv, SendInv, Spent
  <2>2. PICK answer \in BOOLEAN :
          /\ answered' = Append(answered, answer)
          /\ \/ printed' = printed + 1 /\ answer /\ UNCHANGED status
             \/ printed' = printed
    BY <1>1 DEF Send, Goto
  <2>3. Len(answered') = Len(answered) + 1 /\ (answer => AllAnswered')
    BY <1>0, <2>1, <2>2, SentFacts
  <2>4. CASE kind = "query" /\ printed' = printed + 1 /\ answer /\ UNCHANGED status
    <3>1. (kind' = "query" /\ printed' > 0) = TRUE /\ (status' # "running") = FALSE
      BY <1>0, <2>1, <2>4
    <3>2. (\E i \in 1..Len(answered') : ~answered'[i]) = FALSE
      BY <2>3, <2>4 DEF AllAnswered
    <3>3. (\E i \in 1..Len(answered) : ~answered[i]) = FALSE
      BY <1>0, <2>1, MaySend
    <3>4. Promise!Send
      BY <1>0, <2>1, <2>3, <3>1, <3>2, <3>3, MaySend DEF Promise!Send
    <3> QED
      BY <3>4 DEF Promise!Next
  <2>5. CASE kind # "query" \/ printed' = printed
    <3>1. (kind' = "query" /\ printed' > 0) = (kind = "query" /\ printed > 0)
      BY <1>0, <2>5
    <3>2. Promise!Send
      BY <1>0, <2>1, <2>3, <3>1, MaySend DEF Promise!Send
    <3> QED
      BY <3>2 DEF Promise!Next
  <2> QED
    BY <2>2, <2>4, <2>5
<1>2. CASE ~Send
  <2>1. UNCHANGED <<kind, answered, printed>>
    BY <1>2 DEF Next, Connect, CheckParameters, GetBlock, Create, Nothing, NoValue, Returns
  <2>2. CASE status' = "running"
    BY <1>0, <2>1, <2>2 DEF Promise!vars
  <2>3. CASE status' # "running"
    BY <1>0, <2>1, <2>3 DEF Promise!Next, Promise!Stop
  <2> QED
    BY <2>2, <2>3
<1> QED
  BY <1>1, <1>2

\* mile_cli_wallet, with its retries of retries, implements RetryPromise.
THEOREM ImplementsThePromise == ProgramSpec => KeepsThePromise
<1>1. ProgramInit => Promise!Init
  BY DEF ProgramInit, Init, RetryInit, Promise!Init
<1>2. IInv /\ [ProgramNext]_programVars => [Promise!Next]_(Promise!vars)
  <2> SUFFICES ASSUME IInv, [ProgramNext]_programVars PROVE [Promise!Next]_(Promise!vars)
    OBVIOUS
  <2>1. CASE Next
    BY <2>1, PromiseStep DEF IInv
  <2>2. CASE ParseCmdline
    <3>1. UNCHANGED <<answered, printed, status>> /\ printed = 0
      BY <2>2 DEF ParseCmdline, IInv, StageInv, Fresh
    <3>2. (kind = "query" /\ printed > 0) = FALSE /\ (kind' = "query" /\ printed' > 0) = FALSE
      BY <3>1
    <3> QED
      BY <3>1, <3>2 DEF Promise!vars
  <2>3. CASE UNCHANGED programVars
    BY <2>3 DEF Promise!vars, programVars, vars, retry
  <2> QED
    BY <2>1, <2>2, <2>3 DEF ProgramNext, Call
<1> QED
  BY <1>1, <1>2, Invariance, PTL DEF ProgramSpec, KeepsThePromise, Promise!Spec

=============================================================================
