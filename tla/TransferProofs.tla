--------------------------- MODULE TransferProofs ----------------------------
(***************************************************************************)
(* Proofs about mile_cli_transfer, from the command line to the end, for   *)
(* every value of --reconnections, every set of keys and any typing.       *)
(*                                                                         *)
(* TransferInv is about the retries.  Its heart is that a do_request which *)
(* is not the running one has nothing left to do but to return, or to find *)
(* no body (Spent): what has been sent, and what is still owed an answer,  *)
(* is known from the running one alone.  PromptInv is about the prompts,   *)
(* and StageInv ties the two together.  The types (TypeInv) and the steps  *)
(* that are left to the program are proved on top of these.                *)
(***************************************************************************)
EXTENDS TransferProgram, RetryProofs

Top == frames[Len(frames)]

\* Places from which nothing is sent any more, and no error is handled.
Spent == {"nothing", "done"}

StackInv ==
  /\ frames \in Seq(Places)
  /\ \A i \in 1..(Len(frames) - 1) : frames[i] \in Spent
  /\ status \in {"running", "exit 0", "exit -1", "aborted"}

AllAnswered == \A i \in 1..Len(answered) : answered[i]

SendInv ==
  /\ answered \in Seq(BOOLEAN) /\ printed \in Nat
  /\ NoResendWhileUnknown
  /\ Len(answered) <= attempts
  /\ status = "running" /\ Top \notin Spent =>
       AllAnswered /\ printed = 0 /\ Len(answered) < attempts
  /\ status = "exit -1" => printed = 0
  /\ test => answered = <<>> /\ Top # "send"

TransferInv == BudgetInv /\ StackInv /\ SendInv

\* The first do_request has just been called.
Fresh ==
  /\ frames = <<"connect">> /\ status = "running"
  /\ reconnections = 0 /\ attempts = 1
  /\ answered = <<>> /\ printed = 0

-----------------------------------------------------------------------------
(***************************************************************************)
(* The retries.                                                            *)
(***************************************************************************)
\* It is true in the beginning.
LEMMA FreshInv == Fresh => TransferInv
<1> SUFFICES ASSUME Fresh PROVE TransferInv
  OBVIOUS
<1>1. Len(frames) = 1 /\ frames[1] = "connect" /\ frames # <<>> /\ frames \in Seq(Places)
  BY DEF Fresh, Places
<1>2. BudgetInv
  BY <1>1 DEF Fresh, BudgetInv
<1>3. StackInv
  BY <1>1 DEF Fresh, StackInv
<1>4. SendInv
  <2>1. answered \in Seq(BOOLEAN) /\ Len(answered) = 0
    BY DEF Fresh
  <2> QED
    BY <1>1, <2>1 DEF Fresh, SendInv, NoResendWhileUnknown, AllAnswered, Top
<1> QED
  BY <1>2, <1>3, <1>4 DEF TransferInv

\* The running do_request goes on and sends nothing.
LEMMA GotoInv ==
  ASSUME TransferInv, NEW p \in Places, Goto(p), status = "running",
         Top \in Spent => p \in Spent, p = "send" => ~test,
         UNCHANGED <<test, answered, printed>>
  PROVE  TransferInv'
<1>1. frames \in Seq(Places) /\ frames # <<>>
  BY DEF TransferInv, StackInv, BudgetInv
<1>2. BudgetInv'
  BY <1>1, GotoBudget DEF TransferInv
<1>3. /\ frames' \in Seq(Places) /\ Len(frames') = Len(frames) /\ Top' = p
      /\ \A i \in 1..(Len(frames) - 1) : frames'[i] = frames[i]
      /\ UNCHANGED <<status, attempts>>
  BY <1>1, ContinuedFrames DEF Goto, Top
<1>4. StackInv'
  BY <1>3 DEF TransferInv, StackInv
<1>5. SendInv'
  BY <1>3 DEF TransferInv, SendInv, NoResendWhileUnknown, AllAnswered
<1> QED
  BY <1>2, <1>4, <1>5 DEF TransferInv

\* The program ends inside a call.
LEMMA AbortInv ==
  ASSUME TransferInv, Ends("aborted"), UNCHANGED <<test, answered, printed>>
  PROVE  TransferInv'
<1>1. BudgetInv'
  BY EndsBudget DEF TransferInv
<1>2. UNCHANGED <<frames, attempts>> /\ status' = "aborted"
  BY DEF Ends
<1>3. StackInv' /\ SendInv'
  BY <1>2 DEF TransferInv, StackInv, SendInv, NoResendWhileUnknown, AllAnswered, Top
<1> QED
  BY <1>1, <1>3 DEF TransferInv

\* What was sent, by a do_request that may send, and whether it was answered.
Sent(answer) == ~test /\ answered' = Append(answered, answer)

LEMMA SentFacts ==
  ASSUME TransferInv, status = "running", Top \notin Spent, NEW answer \in BOOLEAN, Sent(answer)
  PROVE  /\ answered' \in Seq(BOOLEAN)
         /\ Len(answered') = Len(answered) + 1 /\ Len(answered') <= attempts
         /\ NoResendWhileUnknown'
         /\ answer => AllAnswered'
<1>1. answered \in Seq(BOOLEAN) /\ AllAnswered /\ Len(answered) < attempts
      /\ answered' = Append(answered, answer) /\ attempts \in Nat
  BY DEF TransferInv, SendInv, BudgetInv, Sent
<1>2. answered' \in Seq(BOOLEAN) /\ Len(answered') = Len(answered) + 1
      /\ answered'[Len(answered) + 1] = answer
      /\ \A i \in 1..Len(answered) : answered'[i] = answered[i]
  BY <1>1
<1>3. Len(answered) \in Nat
  BY <1>1
<1>4. \A i \in 1..Len(answered) : answered'[i]
  BY <1>1, <1>2 DEF AllAnswered
<1> QED
  BY <1>1, <1>2, <1>3, <1>4 DEF NoResendWhileUnknown, AllAnswered

\* error_handler, called by a do_request that may still send or has just sent.
LEMMA HandleInv ==
  ASSUME TransferInv, NEW code, NEW next \in Spent, Handle(code, next),
         status = "running", Top \notin Spent, UNCHANGED <<test, printed>>,
         answered' = answered \/ Sent(TRUE) \/ (Sent(FALSE) /\ code = "TIMEOUT")
  PROVE  TransferInv'
<1> frames \in Seq(Places) /\ frames # <<>> /\ next \in Places /\ "connect" \in Places
  BY DEF TransferInv, StackInv, BudgetInv, Spent, Places
<1> attempts \in Nat /\ printed = 0 /\ answered \in Seq(BOOLEAN) /\ Len(answered) < attempts /\ AllAnswered
  BY DEF TransferInv, SendInv, BudgetInv
<1>1. /\ answered' \in Seq(BOOLEAN) /\ printed' \in Nat /\ printed' = 0
      /\ Len(answered') <= attempts /\ NoResendWhileUnknown'
  BY SentFacts DEF TransferInv, SendInv, NoResendWhileUnknown
<1>2. code = "FAIL" => AllAnswered'
  BY SentFacts DEF AllAnswered
<1>3. test => answered' = <<>>
  BY DEF TransferInv, SendInv, Sent
<1>4. CASE HandlerExits
  <2>1. BudgetInv'
    BY <1>4, ExitBudget DEF TransferInv
  <2>2. UNCHANGED <<frames, attempts>> /\ status' = "exit -1"
    BY <1>4 DEF HandlerExits
  <2>3. StackInv'
    BY <2>2 DEF TransferInv, StackInv
  <2>4. SendInv'
    BY <1>1, <1>3, <2>2 DEF SendInv, TransferInv, Top
  <2> QED
    BY <2>1, <2>3, <2>4 DEF TransferInv
<1>5. CASE ~LastTry /\ code = "FAIL" /\ HandlerRetries(next)
  <2>1. BudgetInv'
    BY <1>5, RetryBudget DEF TransferInv
  <2>2. attempts' = attempts + 1 /\ UNCHANGED status
    BY <1>5 DEF HandlerRetries
  <2>3. /\ frames' \in Seq(Places) /\ Len(frames') = Len(frames) + 1 /\ Top' = "connect"
        /\ frames'[Len(frames)] = next
        /\ \A i \in 1..(Len(frames) - 1) : frames'[i] = frames[i]
    BY <1>5, RetryFrames DEF Top
  <2>4. StackInv'
    BY <2>2, <2>3 DEF TransferInv, StackInv
  <2>5. Len(answered') < attempts'
    BY <1>1, <2>2
  <2>6. SendInv'
    BY <1>1, <1>2, <1>3, <1>5, <2>2, <2>3, <2>5 DEF SendInv, TransferInv
  <2> QED
    BY <2>1, <2>4, <2>6 DEF TransferInv
<1>6. CASE HandlerReturns(next)
  <2>1. BudgetInv'
    BY <1>6, HandlerReturnsBudget DEF TransferInv
  <2>2. UNCHANGED <<status, attempts>>
    BY <1>6 DEF HandlerReturns
  <2>3. /\ frames' \in Seq(Places) /\ Len(frames') = Len(frames) /\ Top' = next
        /\ \A i \in 1..(Len(frames) - 1) : frames'[i] = frames[i]
    BY <1>6, ContinuedFrames DEF HandlerReturns, Top
  <2>4. StackInv'
    BY <2>2, <2>3 DEF TransferInv, StackInv
  <2>5. SendInv'
    BY <1>1, <1>3, <2>2, <2>3 DEF SendInv, TransferInv, Spent
  <2> QED
    BY <2>1, <2>4, <2>5 DEF TransferInv
<1> QED
  BY <1>4, <1>5, <1>6 DEF Handle

\* A do_request returns.
LEMMA ReturnInv ==
  ASSUME TransferInv, Return, UNCHANGED <<test, answered, printed>>
  PROVE  TransferInv'
<1>1. frames \in Seq(Places) /\ frames # <<>>
  BY DEF TransferInv, StackInv, BudgetInv
<1>2. BudgetInv'
  BY <1>1, ReturnBudget DEF TransferInv
<1>3. UNCHANGED attempts
  BY DEF Return
<1>4. CASE Len(frames) = 1
  <2>1. status' = "exit 0" /\ UNCHANGED frames
    BY <1>4 DEF Return
  <2>2. StackInv'
    BY <2>1 DEF TransferInv, StackInv
  <2>3. SendInv'
    BY <1>3, <2>1 DEF TransferInv, SendInv, NoResendWhileUnknown, AllAnswered, Top
  <2> QED
    BY <1>2, <2>2, <2>3 DEF TransferInv
<1>5. CASE Len(frames) # 1
  <2>1. /\ frames' \in Seq(Places) /\ frames' # <<>> /\ Len(frames') = Len(frames) - 1
        /\ \A i \in 1..(Len(frames) - 1) : frames'[i] = frames[i]
        /\ UNCHANGED status
    BY <1>1, <1>5, ReturnFrames
  <2>2. \A i \in 1..(Len(frames) - 1) : frames'[i] \in Spent
    BY <2>1 DEF TransferInv, StackInv
  <2>3. Len(frames') \in 1..(Len(frames) - 1)
    <3>1. Len(frames') \in Nat \ {0}
      BY <2>1, EmptySeq
    <3> QED
      BY <2>1, <3>1, <1>1
  <2>4. Top' \in Spent
    BY <2>2, <2>3, <2>1 DEF Top
  <2>5. StackInv'
    <3>1. \A i \in 1..(Len(frames') - 1) : i \in 1..(Len(frames) - 1)
      BY <2>1, <1>1
    <3> QED
      BY <2>1, <2>2, <3>1 DEF TransferInv, StackInv
  <2>6. SendInv'
    BY <1>3, <2>1, <2>4 DEF TransferInv, SendInv, NoResendWhileUnknown, AllAnswered, Spent
  <2> QED
    BY <1>2, <2>5, <2>6 DEF TransferInv
<1> QED
  BY <1>4, <1>5

\* The answer to a transfer is a result.
LEMMA SuccessInv ==
  ASSUME TransferInv, status = "running", Top \notin Spent, Goto("done"), Sent(TRUE),
         printed' \in {printed, printed + 1}, UNCHANGED test
  PROVE  TransferInv'
<1>1. frames \in Seq(Places) /\ frames # <<>> /\ "done" \in Places
  BY DEF TransferInv, StackInv, BudgetInv, Places
<1>2. BudgetInv'
  BY <1>1, GotoBudget DEF TransferInv
<1>3. /\ frames' \in Seq(Places) /\ Len(frames') = Len(frames) /\ Top' = "done"
      /\ \A i \in 1..(Len(frames) - 1) : frames'[i] = frames[i]
      /\ UNCHANGED <<status, attempts>>
  BY <1>1, ContinuedFrames DEF Goto, Top
<1>4. StackInv'
  BY <1>3 DEF TransferInv, StackInv
<1>5. printed' \in Nat
  BY DEF TransferInv, SendInv
<1>6. SendInv'
  BY <1>3, <1>5, SentFacts DEF SendInv, Sent, Spent
<1> QED
  BY <1>2, <1>4, <1>6 DEF TransferInv

LEMMA TransferStep ==
  ASSUME TransferInv, [Next]_vars PROVE TransferInv'
<1>1. CASE Next
  <2>1. CASE Connect
    <3>1. status = "running" /\ Top = "connect" /\ UNCHANGED <<test, answered, printed>>
      BY <2>1 DEF Connect, At, Top, options
    <3>2. CASE Goto("block")
      BY <3>1, <3>2, GotoInv DEF Spent, Places
    <3>3. CASE \E code \in ConnectCodes \cup {"NOT_SUPPORTED"} : Handle(code, "done")
      BY <3>1, <3>3, HandleInv DEF Spent
    <3>4. CASE Ends("aborted")
      BY <3>1, <3>4, AbortInv
    <3> QED
      BY <2>1, <3>2, <3>3, <3>4 DEF Connect
  <2>2. CASE GetBlock
    <3>1. status = "running" /\ Top = "block" /\ UNCHANGED <<test, answered, printed>>
      BY <2>2 DEF GetBlock, At, Top, options
    <3>2. CASE Goto("create") \/ Goto("done")
      BY <3>1, <3>2, GotoInv DEF Spent, Places
    <3>3. CASE \E code \in {"FAIL", "TIMEOUT"} : Handle(code, "done")
      BY <3>1, <3>3, HandleInv DEF Spent
    <3>4. CASE Ends("aborted")
      BY <3>1, <3>4, AbortInv
    <3> QED
      BY <2>2, <3>2, <3>3, <3>4 DEF GetBlock
  <2>3. CASE Create
    <3>1. status = "running" /\ Top = "create" /\ UNCHANGED <<test, answered, printed>>
      BY <2>3 DEF Create, At, Top, options
    <3>2. CASE (~test /\ Goto("send")) \/ Goto("done")
      BY <3>1, <3>2, GotoInv DEF Spent, Places
    <3>3. CASE \E code \in LibraryCodes : Handle(code, "nothing")
      BY <3>1, <3>3, HandleInv DEF Spent
    <3>4. CASE Ends("aborted")
      BY <3>1, <3>4, AbortInv
    <3> QED
      BY <2>3, <3>2, <3>3, <3>4 DEF Create
  <2>4. CASE Nothing
    <3>1. status = "running" /\ UNCHANGED <<test, answered, printed>>
      BY <2>4 DEF Nothing, At, options
    <3> QED
      BY <2>4, <3>1, GotoInv, AbortInv DEF Nothing, Spent, Places
  <2>5. CASE Send
    <3>1. status = "running" /\ Top = "send" /\ UNCHANGED test /\ ~test
      BY <2>5 DEF Send, At, Top, options, TransferInv, SendInv
    <3>2. CASE Goto("done") /\ answered' = Append(answered, TRUE)
               /\ printed' \in {printed, printed + 1}
      BY <3>1, <3>2, SuccessInv DEF Spent, Sent
    <3>3. CASE Handle("FAIL", "done") /\ answered' = Append(answered, TRUE) /\ UNCHANGED printed
      BY <3>1, <3>3, HandleInv DEF Spent, Sent
    <3>4. CASE Handle("TIMEOUT", "done") /\ answered' = Append(answered, FALSE) /\ UNCHANGED printed
      BY <3>1, <3>4, HandleInv DEF Spent, Sent
    <3> QED
      BY <2>5, <3>2, <3>3, <3>4 DEF Send
  <2>6. CASE Returns
    BY <2>6, ReturnInv DEF Returns, options
  <2> QED
    BY <1>1, <2>1, <2>2, <2>3, <2>4, <2>5, <2>6 DEF Next
<1>2. CASE UNCHANGED vars
  BY <1>2 DEF vars, retry, options, TransferInv, BudgetInv, StackInv, SendInv,
              NoResendWhileUnknown, AllAnswered, Top
<1> QED
  BY <1>1, <1>2

-----------------------------------------------------------------------------
(***************************************************************************)
(* The prompts.  idx stays 0, and the mode that getpasswd saved is one with *)
(* an echo, unless an earlier prompt has failed to restore it.             *)
(***************************************************************************)
PromptInv ==
  /\ pw \in Seq(Chars) /\ shown \in Nat /\ idx = 0
  /\ OneStarEach /\ EchoRestored /\ RunsWithAKey
  /\ pc = "read" => old_kbd_mode \/ lost

LEMMA PromptStep ==
  ASSUME PromptInv, PromptNext PROVE PromptInv'
<1> USE DEF PromptInv, OneStarEach, EchoRestored, RunsWithAKey, terminal
<1>1. CASE Start
  BY <1>1 DEF Start
<1>2. CASE Getpasswd
  <2>1. pw' \in Seq(Chars) /\ shown' \in Nat /\ idx' = 0 /\ OneStarEach' /\ RunsWithAKey'
    <3>1. pw' = <<>> /\ Len(pw') = 0 /\ shown' = 0 /\ idx' = 0 /\ pc' \in {"read", "validate"}
      BY <1>2 DEF Getpasswd
    <3> QED
      BY <3>1
  <2>2. EchoRestored' /\ (pc' = "read" => old_kbd_mode' \/ lost')
    <3>1. pc = "prompt" /\ lost' = lost
          /\ \/ pc' = "read" /\ EchoOff
             \/ pc' = "validate" /\ echo' = echo
      BY <1>2 DEF Getpasswd
    <3>2. ~echo => lost
      BY <3>1
    <3>3. CASE pc' = "read" /\ EchoOff
      BY <3>1, <3>2, <3>3, Zenon DEF EchoOff
    <3>4. CASE pc' = "validate" /\ echo' = echo
      BY <3>1, <3>2, <3>4
    <3> QED
      BY <3>1, <3>3, <3>4
  <2> QED
    BY <2>1, <2>2
<1>3. CASE Validate
  BY <1>3 DEF Validate
<1>4. ASSUME NEW c \in Chars, Character(c) PROVE PromptInv'
  <2>1. pc = "read" /\ pw' = Append(pw, c) /\ shown' = shown + 1 /\ UNCHANGED <<pc, idx, echo, old_kbd_mode, lost>>
    BY <1>4 DEF Character
  <2>2. pw' \in Seq(Chars) /\ Len(pw') = Len(pw) + 1
    BY <2>1
  <2> QED
    BY <2>1, <2>2
<1>5. CASE Backspace
  <2>1. ~(idx > 0)
    OBVIOUS
  <2>2. pc = "read" /\ UNCHANGED <<pw, shown, idx, pc, echo, old_kbd_mode, lost>>
    BY <1>5, <2>1 DEF Backspace
  <2> QED
    BY <2>2
<1>6. CASE EndOfLine
  <2>1. pc = "read" /\ pc' = "validate" /\ UNCHANGED <<pw, idx, shown>>
        /\ \/ echo' = old_kbd_mode /\ lost' = lost
           \/ lost' = TRUE
    BY <1>6 DEF EndOfLine
  <2>2. pw' \in Seq(Chars) /\ shown' \in Nat /\ idx' = 0 /\ OneStarEach' /\ RunsWithAKey'
    BY <2>1
  <2>3. old_kbd_mode \/ lost
    BY <2>1
  <2>4. echo' \/ lost'
    BY <2>1, <2>3, Zenon
  <2>5. EchoRestored' /\ (pc' = "read" => old_kbd_mode' \/ lost')
    BY <2>1, <2>4
  <2> QED
    BY <2>2, <2>5
<1>7. CASE Interrupt
  BY <1>7 DEF Interrupt
<1> QED
  BY <1>1, <1>2, <1>3, <1>4, <1>5, <1>6, <1>7 DEF PromptNext, Program, User

-----------------------------------------------------------------------------
(***************************************************************************)
(* The whole program.                                                      *)
(***************************************************************************)
StageInv ==
  /\ given \in CommandLines
  /\ stage \in {"options", "refused", "usage", "main"}
  /\ stage = "main" => ~Malformed /\ ~AsksForUsage /\ (given.test => test)
  /\ stage # "main" => pc = "start"
  /\ stage # "main" \/ ~HasKey => Fresh

IInv == TransferInv /\ PromptInv /\ StageInv

LEMMA InitInv == ProgramInit => IInv
<1> SUFFICES ASSUME ProgramInit PROVE IInv
  OBVIOUS
<1>1. Fresh
  BY DEF ProgramInit, Init, RetryInit, Fresh
<1>2. PromptInv
  <2>1. pw = <<>> /\ pw \in Seq(Chars) /\ pc = "start" /\ shown = 0 /\ idx = 0 /\ echo = TRUE
    BY DEF ProgramInit, PromptInit
  <2> QED
    BY <2>1 DEF PromptInv, OneStarEach, EchoRestored, RunsWithAKey
<1>3. StageInv
  BY <1>1 DEF ProgramInit, PromptInit, StageInv
<1> QED
  BY <1>1, <1>2, <1>3, FreshInv DEF IInv

\* The command line gives a key that is one or is asked for; nothing is under way.
LEMMA ParseStep ==
  ASSUME IInv, ParseCmdline PROVE IInv'
<1>1. stage = "options" /\ pc = "start" /\ given \in CommandLines /\ Fresh
  BY DEF IInv, StageInv, ParseCmdline
<1>2. UNCHANGED <<given, pc, idx, echo, old_kbd_mode, shown, lost,
                  frames, status, reconnections, attempts, answered, printed>>
  BY DEF ParseCmdline
<1>3. Fresh'
  BY <1>1, <1>2 DEF Fresh
<1>4. TransferInv'
  BY <1>3, FreshInv, PTL
<1>5. PromptInv'
  <2>1. given.private_key \in Seq(Chars)
    <3>1. given.private_key \in {<<>>} \cup Keys \cup {<<c>> : c \in Chars}
      BY <1>1 DEF CommandLines
    <3>2. <<>> \in Seq(Chars) /\ \A c \in Chars : <<c>> \in Seq(Chars)
      OBVIOUS
    <3> QED
      BY <3>1, <3>2, CharsAreNoKeys, Zenon
  <2>2. pw' \in Seq(Chars)
    BY <2>1 DEF ParseCmdline, IInv, PromptInv
  <2> QED
    BY <1>1, <1>2, <2>2 DEF IInv, PromptInv, OneStarEach, EchoRestored, RunsWithAKey
<1>6. StageInv'
  <2>1. CASE Malformed
    BY <1>1, <1>2, <1>3, <2>1 DEF ParseCmdline, StageInv
  <2>2. CASE ~Malformed /\ AsksForUsage
    BY <1>1, <1>2, <1>3, <2>2 DEF ParseCmdline, StageInv
  <2>3. CASE ~Malformed /\ ~AsksForUsage
    <3>1. stage' = "main" /\ test' = given.test
      BY <2>3 DEF ParseCmdline, TestOption
    <3>2. ~Malformed' /\ ~AsksForUsage'
      BY <1>2, <2>3 DEF Malformed, AsksForUsage, NotPositive
    <3> QED
      BY <1>1, <1>2, <1>3, <3>1, <3>2 DEF StageInv
  <2> QED
    BY <2>1, <2>2, <2>3
<1> QED
  BY <1>4, <1>5, <1>6 DEF IInv

LEMMA StepInv == IInv /\ [ProgramNext]_programVars => IInv'
<1> SUFFICES ASSUME IInv, [ProgramNext]_programVars PROVE IInv'
  OBVIOUS
<1>1. CASE ParseCmdline
  BY <1>1, ParseStep
<1>2. CASE FindKey \/ UserTypes
  <2>1. stage = "main" /\ ~HasKey /\ PromptNext /\ UNCHANGED <<stage, given, vars>>
    BY <1>2 DEF FindKey, UserTypes, main, PromptNext
  <2>2. UNCHANGED <<frames, status, reconnections, attempts, test, answered, printed>>
    BY <2>1 DEF vars, retry, options
  <2>3. Fresh'
    BY <2>1, <2>2 DEF IInv, StageInv, Fresh
  <2>4. TransferInv'
    BY <2>3, FreshInv, PTL
  <2>5. PromptInv'
    BY <2>1, PromptStep DEF IInv
  <2>6. StageInv'
    BY <2>1, <2>2, <2>3 DEF IInv, StageInv, Malformed, AsksForUsage, NotPositive
  <2> QED
    BY <2>4, <2>5, <2>6 DEF IInv
<1>3. CASE Transfer
  <2>1. stage = "main" /\ HasKey /\ Next /\ UNCHANGED <<stage, given, promptVars>>
    BY <1>3 DEF Transfer, main
  <2>2. TransferInv'
    BY <2>1, TransferStep DEF IInv
  <2>3. UNCHANGED <<pc, pw, idx, echo, old_kbd_mode, lost, shown>>
    BY <2>1 DEF promptVars, terminal
  <2>4. PromptInv'
    BY <2>3 DEF IInv, PromptInv, OneStarEach, EchoRestored, RunsWithAKey
  <2>5. UNCHANGED test
    BY <2>1 DEF Next, Connect, GetBlock, Create, Nothing, Send, Returns, options
  <2>6. StageInv'
    BY <2>1, <2>3, <2>5 DEF IInv, StageInv, HasKey, Malformed, AsksForUsage, NotPositive
  <2> QED
    BY <2>2, <2>4, <2>6 DEF IInv
<1>4. CASE UNCHANGED programVars
  <2>1. UNCHANGED <<stage, given, promptVars, vars>>
    BY <1>4 DEF programVars, main
  <2>2. UNCHANGED <<pc, pw, idx, echo, old_kbd_mode, lost, shown>>
    BY <2>1 DEF promptVars, terminal
  <2>3. UNCHANGED <<frames, status, reconnections, attempts, test, answered, printed>>
    BY <2>1 DEF vars, retry, options
  <2>4. TransferInv'
    BY <2>1, TransferStep DEF IInv
  <2>5. PromptInv'
    BY <2>2 DEF IInv, PromptInv, OneStarEach, EchoRestored, RunsWithAKey
  <2>6. StageInv'
    BY <2>1, <2>2, <2>3 DEF IInv, StageInv, HasKey, Fresh, Malformed, AsksForUsage, NotPositive
  <2> QED
    BY <2>4, <2>5, <2>6 DEF IInv
<1> QED
  BY <1>1, <1>2, <1>3, <1>4 DEF ProgramNext

\* The invariant holds in every behaviour of the program.
THEOREM Invariance == ProgramSpec => []IInv
  BY InitInv, StepInv, PTL DEF ProgramSpec

-----------------------------------------------------------------------------
(***************************************************************************)
(* What follows from the invariant.                                        *)
(***************************************************************************)
\* Retries of retries share one budget, whatever the option says.
THEOREM RetriesAreBounded == ProgramSpec => []AttemptsBounded
<1>1. IInv => AttemptsBounded
  BY BudgetBounds DEF IInv, TransferInv
<1> QED
  BY <1>1, Invariance, PTL

\* No transfer follows one whose fate is unknown.
THEOREM NeverResendsBlindly == ProgramSpec => []NoResendWhileUnknown
<1>1. IInv => NoResendWhileUnknown
  BY DEF IInv, TransferInv, SendInv
<1> QED
  BY <1>1, Invariance, PTL

\* What is sent was asked for on the command line and signed with a valid key.
THEOREM SendsWhatWasAsked == ProgramSpec => []NothingSentUnasked
<1>1. IInv => NothingSentUnasked
  <2> SUFFICES ASSUME IInv, answered # <<>>
               PROVE  /\ given.known /\ given.to
                      /\ given.asset \in {"XDR", "MILE", "minusOne"}
                      /\ given.amount \in {"positive", "nan"}
                      /\ pw \in Keys
                      /\ ~given.test
    BY DEF NothingSentUnasked
  <2>1. stage = "main" /\ HasKey /\ ~Malformed /\ ~AsksForUsage /\ given \in CommandLines
    BY DEF IInv, StageInv, Fresh
  <2>2. pw \in Keys
    BY <2>1 DEF IInv, PromptInv, RunsWithAKey, HasKey
  <2>3. ~given.test
    BY <2>1 DEF IInv, StageInv, TransferInv, SendInv
  <2>4. given.known /\ given.to /\ given.asset # "tooLarge" /\ ~NotPositive
    BY <2>1 DEF Malformed, AsksForUsage
  <2>5. given.amount \in {"positive", "nan"}
    BY <2>1, <2>4 DEF NotPositive, CommandLines, Amounts
  <2>6. given.asset \in {"XDR", "MILE", "minusOne"}
    <3>1. given.asset \in {"absent", "XDR", "MILE", "hundred", "minusOne", "tooLarge"}
      BY <2>1 DEF CommandLines, Assets, AssetCode
    <3>2. AssetCode["absent"] = 100 /\ AssetCode["hundred"] = 100
      BY DEF AssetCode
    <3> QED
      BY <2>1, <2>4, <3>1, <3>2 DEF AsksForUsage
  <2> QED
    BY <2>2, <2>3, <2>4, <2>5, <2>6
<1> QED
  BY <1>1, Invariance, PTL

\* An exit status of 1 or -1 is true: no receipt has been printed.
THEOREM FailuresAreHonest == ProgramSpec => []FailureIsHonest
<1>1. IInv => FailureIsHonest
  BY DEF IInv, StageInv, TransferInv, SendInv, Fresh, HasKey, FailureIsHonest, ExitedWithFailure
<1> QED
  BY <1>1, Invariance, PTL

\* After a prompt the terminal has its echo back, unless getpasswd could not set its mode.
THEOREM EchoIsRestored == ProgramSpec => []EchoRestored
<1>1. IInv => EchoRestored
  BY DEF IInv, PromptInv
<1> QED
  BY <1>1, Invariance, PTL

\* There is one star for each character of the key that is validated (getpasswd).
THEOREM StarsAreHonest == ProgramSpec => []OneStarEach
<1>1. IInv => OneStarEach
  BY DEF IInv, PromptInv
<1> QED
  BY <1>1, Invariance, PTL

\* No transfer is begun but with a valid key, whichever of the prompts of main it is from.
THEOREM KeysAreValid == ProgramSpec => []RunsWithAKey
<1>1. IInv => RunsWithAKey
  BY DEF IInv, PromptInv
<1> QED
  BY <1>1, Invariance, PTL

-----------------------------------------------------------------------------
(***************************************************************************)
(* The steps that are left: of the retries, and then of the prompts.       *)
(***************************************************************************)
LEMMA PlacesLeftTypes ==
  /\ \A p \in Places : PlacesLeft[p] \in 0..4
  /\ \A p \in Spent : PlacesLeft[p] \in 0..1
  /\ \A p \in {"connect", "block", "create", "send"} : PlacesLeft[p] > 0
  /\ PlacesLeft["connect"] = 4 /\ PlacesLeft["done"] = 0
  BY DEF PlacesLeft, Places, Spent

LEMMA TopIsAPlace == TransferInv => Top \in Places /\ Len(frames) \in Nat \ {0}
<1> SUFFICES ASSUME TransferInv PROVE Top \in Places /\ Len(frames) \in Nat \ {0}
  OBVIOUS
<1>1. frames \in Seq(Places) /\ Len(frames) \in Nat \ {0}
  BY EmptySeq DEF TransferInv, StackInv, BudgetInv
<1> QED
  BY <1>1 DEF Top

\* The attempts that may be made yet.
LEMMA AttemptsLeft == TransferInv => attempts \in Nat /\ Promise!Budget - attempts \in Nat
<1> SUFFICES ASSUME TransferInv PROVE attempts \in Nat /\ Promise!Budget - attempts \in Nat
  OBVIOUS
<1>1. attempts \in Nat /\ attempts <= Promise!Budget
  BY BudgetBounds DEF TransferInv, BudgetInv, AttemptsBounded, Promise!Budget
<1>2. Promise!Budget \in Int
  BY ReconnectionsIsInt DEF Promise!Budget
<1> QED
  BY <1>1, <1>2

LEMMA TopPlaceIsNat == TransferInv => PlacesLeft[Top] \in Nat
  BY TopIsAPlace, PlacesLeftTypes

LEMMA CallStepsAreNat == TransferInv => CallStepsLeft \in Nat
<1> SUFFICES ASSUME TransferInv PROVE CallStepsLeft \in Nat
  OBVIOUS
<1>1. PlacesLeft[Top] \in Nat /\ Len(frames) \in Nat /\ Promise!Budget - attempts \in Nat
  BY TopIsAPlace, AttemptsLeft, PlacesLeftTypes
<1> QED
  BY <1>1 DEF CallStepsLeft, Top

\* The program has ended: no step is left, and there was one.
LEMMA EndingShrinks ==
  ASSUME TransferInv, status = "running", status' # "running"
  PROVE  CallStepsLeft' \in 0..(CallStepsLeft - 1)
<1>1. CallStepsLeft' = 0
  BY DEF CallStepsLeft
<1>2. PlacesLeft[Top] \in Nat /\ Len(frames) \in Nat \ {0} /\ Promise!Budget - attempts \in Nat
  BY TopIsAPlace, AttemptsLeft, PlacesLeftTypes
<1>3. CallStepsLeft = 7 * (Promise!Budget - attempts) + 2 * Len(frames) + PlacesLeft[Top]
  BY DEF CallStepsLeft, Top
<1> QED
  BY <1>1, <1>2, <1>3

\* How the steps left are weighed: going on, returning, and starting over each
\* take from them, b - a attempts being left and n do_request's on the stack.
LEMMA Weights ==
  ASSUME NEW b \in Int, NEW a \in Int, NEW n \in Int, NEW p \in Nat, NEW q \in Nat
  PROVE  /\ q < p => 7 * (b - a) + 2 * n + q < 7 * (b - a) + 2 * n + p
         /\ q <= 1 => 7 * (b - a) + 2 * (n - 1) + q < 7 * (b - a) + 2 * n + p
         /\ p > 0 => 7 * (b - (a + 1)) + 2 * (n + 1) + 4 < 7 * (b - a) + 2 * n + p
  OBVIOUS

LEMMA WeighedSteps ==
  ASSUME TransferInv, TransferInv', status = "running", status' = "running",
         \/ /\ UNCHANGED attempts /\ Len(frames') = Len(frames)
            /\ PlacesLeft[Top'] < PlacesLeft[Top]
         \/ /\ UNCHANGED attempts /\ Len(frames') = Len(frames) - 1
            /\ PlacesLeft[Top'] <= 1
         \/ /\ attempts' = attempts + 1 /\ Len(frames') = Len(frames) + 1
            /\ PlacesLeft[Top'] = 4 /\ PlacesLeft[Top] > 0
  PROVE  CallStepsLeft' \in 0..(CallStepsLeft - 1)
<1>1. /\ PlacesLeft[Top] \in Nat /\ Len(frames) \in Int /\ attempts \in Int
      /\ Promise!Budget \in Int
  BY TopIsAPlace, AttemptsLeft, PlacesLeftTypes, ReconnectionsIsInt DEF Promise!Budget
<1>2. CallStepsLeft = 7 * (Promise!Budget - attempts) + 2 * Len(frames) + PlacesLeft[Top]
  BY DEF CallStepsLeft, Top
<1>3. CallStepsLeft' = 7 * (Promise!Budget - attempts') + 2 * Len(frames') + PlacesLeft[Top']
  BY DEF CallStepsLeft, Top
<1>4. (CallStepsLeft \in Nat)' /\ (PlacesLeft[Top] \in Nat)'
  BY CallStepsAreNat, TopPlaceIsNat, PTL
<1>5. CallStepsLeft' \in Nat /\ PlacesLeft[Top'] \in Nat /\ CallStepsLeft \in Nat
  BY <1>4, CallStepsAreNat
<1>6. CallStepsLeft' < CallStepsLeft
  <2>1. CASE UNCHANGED attempts /\ Len(frames') = Len(frames) /\ PlacesLeft[Top'] < PlacesLeft[Top]
    BY <1>1, <1>2, <1>3, <1>5, <2>1, Weights
  <2>2. CASE UNCHANGED attempts /\ Len(frames') = Len(frames) - 1 /\ PlacesLeft[Top'] <= 1
    BY <1>1, <1>2, <1>3, <1>5, <2>2, Weights
  <2>3. CASE /\ attempts' = attempts + 1 /\ Len(frames') = Len(frames) + 1
             /\ PlacesLeft[Top'] = 4 /\ PlacesLeft[Top] > 0
    BY <1>1, <1>2, <1>3, <1>5, <2>3, Weights
  <2> QED
    BY <2>1, <2>2, <2>3
<1> QED
  BY <1>5, <1>6

\* error_handler takes from the steps left.
LEMMA HandleShrinks ==
  ASSUME TransferInv, TransferInv', NEW code, NEW next \in Spent, Handle(code, next),
         status = "running", Top \in {"connect", "block", "create", "send"},
         next = "nothing" => Top = "create"
  PROVE  CallStepsLeft' \in 0..(CallStepsLeft - 1)
<1>0. frames \in Seq(Places) /\ frames # <<>> /\ next \in Places /\ "connect" \in Places
  BY DEF TransferInv, StackInv, BudgetInv, Spent, Places
<1>1. CASE HandlerExits
  BY <1>1, EndingShrinks DEF HandlerExits
<1>2. CASE HandlerRetries(next)
  <2>1. Len(frames') = Len(frames) + 1 /\ Top' = "connect"
    BY <1>0, <1>2, RetryFrames DEF Top
  <2>2. attempts' = attempts + 1 /\ UNCHANGED status
    BY <1>2 DEF HandlerRetries
  <2> QED
    BY <2>1, <2>2, PlacesLeftTypes, WeighedSteps
<1>3. CASE HandlerReturns(next)
  <2>1. Len(frames') = Len(frames) /\ Top' = next /\ UNCHANGED <<status, attempts>>
    BY <1>0, <1>3, ContinuedFrames DEF HandlerReturns, Top
  <2>2. PlacesLeft[next] < PlacesLeft[Top]
    BY DEF PlacesLeft, Places, Spent
  <2> QED
    BY <2>1, <2>2, WeighedSteps
<1> QED
  BY <1>1, <1>2, <1>3 DEF Handle

LEMMA GotoShrinks ==
  ASSUME TransferInv, TransferInv', NEW p \in Places, Goto(p), status = "running",
         PlacesLeft[p] < PlacesLeft[Top]
  PROVE  CallStepsLeft' \in 0..(CallStepsLeft - 1)
<1>1. frames \in Seq(Places) /\ frames # <<>>
  BY DEF TransferInv, StackInv, BudgetInv
<1>2. Len(frames') = Len(frames) /\ Top' = p /\ UNCHANGED <<status, attempts>>
  BY <1>1, ContinuedFrames DEF Goto, Top
<1> QED
  BY <1>2, WeighedSteps

\* Below the one that returns is one that has at most to find no body.
LEMMA ReturnShrinks ==
  ASSUME TransferInv, TransferInv', Return
  PROVE  CallStepsLeft' \in 0..(CallStepsLeft - 1)
<1>1. status = "running" /\ UNCHANGED attempts /\ frames \in Seq(Places) /\ frames # <<>>
  BY DEF Return, At, TransferInv, StackInv, BudgetInv
<1>2. CASE Len(frames) = 1
  BY <1>1, <1>2, EndingShrinks DEF Return
<1>3. CASE Len(frames) # 1
  <2>1. /\ Len(frames') = Len(frames) - 1 /\ UNCHANGED status
        /\ \A i \in 1..(Len(frames) - 1) : frames'[i] = frames[i]
    BY <1>1, <1>3, ReturnFrames
  <2>2. Len(frames) - 1 \in 1..(Len(frames) - 1)
    <3>1. Len(frames) \in Nat \ {0}
      BY TopIsAPlace
    <3>2. \A n \in Nat \ {0} : n # 1 => n - 1 \in 1..(n - 1)
      OBVIOUS
    <3> QED
      BY <1>3, <3>1, <3>2
  <2>3. Top' \in Spent
    BY <2>1, <2>2 DEF Top, TransferInv, StackInv
  <2>4. PlacesLeft[Top'] <= 1
    BY <2>3, PlacesLeftTypes
  <2> QED
    BY <1>1, <2>1, <2>4, WeighedSteps
<1> QED
  BY <1>2, <1>3

LEMMA CallShrinks ==
  ASSUME TransferInv, TransferInv', Next PROVE CallStepsLeft' \in 0..(CallStepsLeft - 1)
<1>1. CASE Connect
  <2>1. status = "running" /\ Top = "connect"
    BY <1>1 DEF Connect, At, Top
  <2>2. CASE Goto("block")
    BY <2>1, <2>2, GotoShrinks DEF PlacesLeft, Places
  <2>3. CASE \E code \in ConnectCodes \cup {"NOT_SUPPORTED"} : Handle(code, "done")
    BY <2>1, <2>3, HandleShrinks DEF Spent
  <2>4. CASE Ends("aborted")
    BY <2>1, <2>4, EndingShrinks DEF Ends
  <2> QED
    BY <1>1, <2>2, <2>3, <2>4 DEF Connect
<1>2. CASE GetBlock
  <2>1. status = "running" /\ Top = "block"
    BY <1>2 DEF GetBlock, At, Top
  <2>2. CASE Goto("create") \/ Goto("done")
    BY <2>1, <2>2, GotoShrinks DEF PlacesLeft, Places
  <2>3. CASE \E code \in {"FAIL", "TIMEOUT"} : Handle(code, "done")
    BY <2>1, <2>3, HandleShrinks DEF Spent
  <2>4. CASE Ends("aborted")
    BY <2>1, <2>4, EndingShrinks DEF Ends
  <2> QED
    BY <1>2, <2>2, <2>3, <2>4 DEF GetBlock
<1>3. CASE Create
  <2>1. status = "running" /\ Top = "create"
    BY <1>3 DEF Create, At, Top
  <2>2. CASE Goto("send") \/ Goto("done")
    BY <2>1, <2>2, GotoShrinks DEF PlacesLeft, Places
  <2>3. CASE \E code \in LibraryCodes : Handle(code, "nothing")
    BY <2>1, <2>3, HandleShrinks DEF Spent
  <2>4. CASE Ends("aborted")
    BY <2>1, <2>4, EndingShrinks DEF Ends
  <2> QED
    BY <1>3, <2>2, <2>3, <2>4 DEF Create
<1>4. CASE Nothing
  <2>1. status = "running" /\ Top = "nothing"
    BY <1>4 DEF Nothing, At, Top
  <2>2. CASE Goto("done")
    BY <2>1, <2>2, GotoShrinks DEF PlacesLeft, Places
  <2>3. CASE Ends("aborted")
    BY <2>1, <2>3, EndingShrinks DEF Ends
  <2> QED
    BY <1>4, <2>2, <2>3 DEF Nothing
<1>5. CASE Send
  <2>1. status = "running" /\ Top = "send"
    BY <1>5 DEF Send, At, Top
  <2>2. CASE Goto("done")
    BY <2>1, <2>2, GotoShrinks DEF PlacesLeft, Places
  <2>3. CASE \E code \in {"FAIL", "TIMEOUT"} : Handle(code, "done")
    BY <2>1, <2>3, HandleShrinks DEF Spent
  <2> QED
    BY <1>5, <2>2, <2>3 DEF Send
<1>6. CASE Returns
  BY <1>6, ReturnShrinks DEF Returns
<1> QED
  BY <1>1, <1>2, <1>3, <1>4, <1>5, <1>6 DEF Next

-----------------------------------------------------------------------------
(***************************************************************************)
(* Types.  The tries of main stay below three until one of them ends it,   *)
(* and no more is accepted or printed than was sent.                       *)
(***************************************************************************)
PromptTypes ==
  /\ PromptTypeOK
  /\ pc \in {"start", "prompt", "read", "validate"} => tries < 3

TypeInv == stage \in {"options", "refused", "usage", "main"} /\ PromptTypes /\ TypeOK

LEMMA PromptTypesStep ==
  ASSUME PromptInv, PromptTypes, PromptNext PROVE PromptTypes'
<1>1. /\ pc \in {"start", "prompt", "read", "validate", "run", "exit -1", "killed"}
      /\ idx = 0 /\ tries \in 0..3
      /\ echo \in BOOLEAN /\ old_kbd_mode \in BOOLEAN /\ lost \in BOOLEAN
      /\ returned \in -1..(Size - 1) /\ typed \in 0..MaxTyped /\ meant \in Seq(Chars)
      /\ pc \in {"start", "prompt", "read", "validate"} => tries < 3
  BY DEF PromptInv, PromptTypes, PromptTypeOK
<1>a. typed \in 0..MaxTyped /\ meant \in Seq(Chars)
  BY <1>1
<1>b. pc = "validate" => tries \in 0..2
  BY <1>1
<1>2. PromptInv'
  BY PromptStep
<1>3. pw' \in Seq(Chars) /\ shown' \in Nat /\ idx' \in 0..(Size - 1)
  BY <1>2, SizeIsPositive DEF PromptInv
<1>4. 0 \in -1..(Size - 1) /\ -1 \in -1..(Size - 1) /\ 0 \in 0..MaxTyped /\ <<>> \in Seq(Chars)
  BY SizeIsPositive, MaxTypedIsNat
<1>5. /\ pc' \in {"start", "prompt", "read", "validate", "run", "exit -1", "killed"}
      /\ tries' \in 0..3
      /\ pc' \in {"start", "prompt", "read", "validate"} => tries' < 3
  <2>1. CASE Start
    BY <1>1, <2>1 DEF Start
  <2>2. CASE Getpasswd
    BY <1>1, <2>2 DEF Getpasswd
  <2>3. CASE Validate
    <3>1. tries' = tries + 1 /\ tries \in 0..2
      BY <1>b, <2>3 DEF Validate
    <3>2. pc' \in {"run", "prompt", "exit -1"} /\ (pc' = "prompt" => tries' < 3)
      BY <2>3 DEF Validate
    <3>3. tries' \in 0..3
      BY <3>1
    <3> QED
      BY <3>2, <3>3, Zenon
  <2>4. CASE User
    BY <1>1, <2>4 DEF User, Character, Backspace, EndOfLine, Interrupt
  <2> QED
    BY <2>1, <2>2, <2>3, <2>4 DEF PromptNext, Program
<1>6. echo' \in BOOLEAN /\ old_kbd_mode' \in BOOLEAN /\ lost' \in BOOLEAN
  <2>1. CASE Getpasswd
    BY <1>1, <2>1, Zenon DEF Getpasswd, EchoOff
  <2>2. CASE EndOfLine
    BY <1>1, <2>2, Zenon DEF EndOfLine
  <2>3. CASE ~Getpasswd /\ ~EndOfLine
    <3>1. UNCHANGED <<echo, old_kbd_mode, lost>>
      BY <2>3 DEF PromptNext, Program, User, Start, Validate, Character, Backspace, Interrupt, terminal
    <3> QED
      BY <1>1, <3>1
  <2> QED
    BY <2>1, <2>2, <2>3
<1>7. returned' \in -1..(Size - 1)
  <2>1. returned' = returned \/ returned' = -1 \/ returned' = idx
    BY DEF PromptNext, Program, User, Start, Getpasswd, Validate, Character, Backspace, EndOfLine,
           Interrupt
  <2> QED
    BY <1>1, <1>4, <2>1
<1>8. typed' \in 0..MaxTyped /\ meant' \in Seq(Chars)
  <2>1. ASSUME NEW c \in Chars, Character(c) PROVE typed' \in 0..MaxTyped /\ meant' \in Seq(Chars)
    <3>1. typed < MaxTyped /\ typed' = typed + 1 /\ meant' = Append(meant, c)
      BY <2>1 DEF Character
    <3>2. typed' \in 0..MaxTyped
      BY <1>a, <3>1, MaxTypedIsNat
    <3>3. meant' \in Seq(Chars)
      BY <1>a, <3>1
    <3> QED
      BY <3>2, <3>3
  <2>2. CASE Backspace
    <3>1. typed < MaxTyped /\ typed' = typed + 1
          /\ meant' = IF meant = <<>> THEN meant ELSE SubSeq(meant, 1, Len(meant) - 1)
      BY <2>2 DEF Backspace
    <3>2. meant' \in Seq(Chars)
      <4>1. CASE meant = <<>>
        BY <1>1, <3>1, <4>1
      <4>2. CASE meant # <<>>
        <5>1. meant' = SubSeq(meant, 1, Len(meant) - 1)
          BY <3>1, <4>2
        <5>2. Len(meant) \in Nat \ {0} /\ meant \in Seq(Chars)
          BY <1>1, <4>2, EmptySeq
        <5> QED
          BY <5>1, <5>2
      <4> QED
        BY <4>1, <4>2
    <3>3. typed' \in 0..MaxTyped
      BY <1>a, <3>1, MaxTypedIsNat
    <3> QED
      BY <3>2, <3>3
  <2>3. CASE Getpasswd
    BY <1>4, <2>3 DEF Getpasswd
  <2>4. CASE Start \/ Validate \/ EndOfLine \/ Interrupt
    BY <1>1, <2>4 DEF Start, Validate, EndOfLine, Interrupt
  <2> QED
    BY <2>1, <2>2, <2>3, <2>4 DEF PromptNext, Program, User
<1> QED
  BY <1>3, <1>5, <1>6, <1>7, <1>8 DEF PromptTypes, PromptTypeOK

\* What is counted on both sides of the wire.
LEMMA CountsStep ==
  ASSUME TypeOK, Next
  PROVE  accepted' \in 0..Len(answered') /\ printed' \in 0..accepted'
<1>1. accepted \in 0..Len(answered) /\ printed \in 0..accepted /\ answered \in Seq(BOOLEAN)
  BY DEF TypeOK
<1>2. CASE Send
  <2>1. PICK answer \in BOOLEAN :
          /\ answered' = Append(answered, answer)
          /\ \/ accepted' = accepted + 1 /\ printed' = printed + 1
             \/ accepted' \in {accepted, accepted + 1} /\ printed' = printed
    BY <1>2 DEF Send
  <2>2. Len(answered') = Len(answered) + 1 /\ Len(answered) \in Nat
    BY <1>1, <2>1
  <2> QED
    BY <1>1, <2>1, <2>2
<1>3. CASE ~Send
  <2>1. UNCHANGED <<answered, accepted, printed>>
    BY <1>3 DEF Next, Connect, GetBlock, Create, Nothing, Returns
  <2> QED
    BY <1>1, <2>1
<1> QED
  BY <1>2, <1>3

LEMMA TypesInit == ProgramInit => TypeInv
<1> SUFFICES ASSUME ProgramInit PROVE TypeInv
  OBVIOUS
<1>1. IInv
  BY InitInv
<1>2. TypeOK
  <2>1. frames = <<"connect">> /\ frames \in Seq(Places) /\ frames # <<>>
    BY <1>1 DEF IInv, TransferInv, BudgetInv, StackInv, ProgramInit, Init, RetryInit
  <2>2. answered = <<>> /\ Len(answered) = 0 /\ answered \in Seq(BOOLEAN)
    BY DEF ProgramInit, Init
  <2> QED
    BY <2>1, <2>2 DEF ProgramInit, Init, RetryInit, TypeOK, RetryTypes
<1>3. PromptTypes
  <2>1. meant = <<>> /\ meant \in Seq(Chars) /\ pw \in Seq(Chars)
    BY DEF ProgramInit, PromptInit
  <2>2. 0 \in 0..(Size - 1) /\ 0 \in -1..(Size - 1) /\ 0 \in 0..MaxTyped
    BY SizeIsPositive, MaxTypedIsNat
  <2>3. idx = 0 /\ tries = 0 /\ returned = 0 /\ shown = 0 /\ typed = 0
        /\ pc = "start" /\ echo = TRUE /\ old_kbd_mode = TRUE /\ lost = FALSE
    BY DEF ProgramInit, PromptInit
  <2>4. tries \in 0..3 /\ shown \in Nat /\ tries < 3
    BY <2>3
  <2>5. idx \in 0..(Size - 1) /\ returned \in -1..(Size - 1) /\ typed \in 0..MaxTyped
    BY <2>2, <2>3
  <2> QED
    BY <2>1, <2>3, <2>4, <2>5, Zenon DEF PromptTypes, PromptTypeOK
<1> QED
  BY <1>2, <1>3 DEF TypeInv, ProgramInit

LEMMA TypesStep ==
  ASSUME IInv, TypeInv, [ProgramNext]_programVars PROVE TypeInv'
<1>1. IInv'
  BY StepInv
<1>2. RetryTypes' /\ frames' \in Seq(Places) /\ answered' \in Seq(BOOLEAN)
      /\ stage' \in {"options", "refused", "usage", "main"}
  <2>1. frames' # <<>> /\ reconnections' \in Nat /\ attempts' \in Nat
    BY <1>1 DEF IInv, TransferInv, BudgetInv
  <2>2. frames' \in Seq(Places) /\ status' \in {"running", "exit 0", "exit -1", "aborted"}
    BY <1>1, Zenon DEF IInv, TransferInv, StackInv
  <2> QED
    BY <1>1, <2>1, <2>2, Zenon DEF RetryTypes, IInv, TransferInv, SendInv, StageInv
<1>3. /\ test \in BOOLEAN /\ url \in {"good", "unsupported", "throws"}
      /\ accepted \in 0..Len(answered) /\ printed \in 0..accepted
  BY DEF TypeInv, TypeOK
<1>4. CASE ParseCmdline
  <2>1. /\ UNCHANGED <<pc, idx, tries, echo, old_kbd_mode, returned, shown, typed, meant, lost>>
        /\ UNCHANGED <<answered, accepted, printed>>
        /\ test' = test \/ test' = FALSE \/ test' = given.test
        /\ url' = url \/ url' = given.url
    BY <1>4 DEF ParseCmdline, TestOption
  <2>2. given.test \in BOOLEAN /\ given.url \in {"good", "unsupported", "throws"}
    BY DEF IInv, StageInv, CommandLines
  <2>3. pw' \in Seq(Chars)
    BY <1>1 DEF IInv, PromptInv
  <2>4. PromptTypes'
    BY <2>1, <2>3 DEF TypeInv, PromptTypes, PromptTypeOK
  <2>5. TypeOK'
    BY <1>2, <1>3, <2>1, <2>2, Zenon DEF TypeOK
  <2> QED
    BY <1>2, <2>4, <2>5 DEF TypeInv
<1>5. CASE FindKey \/ UserTypes
  <2>1. PromptNext /\ UNCHANGED <<test, url, answered, accepted, printed>>
    BY <1>5 DEF FindKey, UserTypes, PromptNext, vars, options
  <2>2. PromptTypes'
    BY <2>1, PromptTypesStep DEF IInv, TypeInv
  <2>3. TypeOK'
    BY <1>2, <1>3, <2>1, Zenon DEF TypeOK
  <2> QED
    BY <1>2, <2>2, <2>3 DEF TypeInv
<1>6. CASE Transfer
  <2>1. Next /\ UNCHANGED promptVars
    BY <1>6 DEF Transfer
  <2>2. UNCHANGED <<test, url>>
    BY <2>1 DEF Next, Connect, GetBlock, Create, Nothing, Send, Returns, options
  <2>3. accepted' \in 0..Len(answered') /\ printed' \in 0..accepted'
    BY <2>1, CountsStep DEF TypeInv
  <2>4. TypeOK'
    BY <1>2, <1>3, <2>2, <2>3, Zenon DEF TypeOK
  <2>5. PromptTypes'
    BY <2>1, Zenon DEF promptVars, terminal, TypeInv, PromptTypes, PromptTypeOK
  <2> QED
    BY <1>2, <2>4, <2>5 DEF TypeInv
<1>7. CASE UNCHANGED programVars
  <2>1. UNCHANGED <<promptVars, test, url, answered, accepted, printed>>
    BY <1>7 DEF programVars, vars, options
  <2>2. TypeOK'
    BY <1>2, <1>3, <2>1, Zenon DEF TypeOK
  <2>3. PromptTypes'
    BY <2>1, Zenon DEF promptVars, terminal, TypeInv, PromptTypes, PromptTypeOK
  <2> QED
    BY <1>2, <2>2, <2>3 DEF TypeInv
<1> QED
  BY <1>4, <1>5, <1>6, <1>7 DEF ProgramNext

THEOREM TypeInvariance == ProgramSpec => []TypeInv
  BY TypesInit, TypesStep, Invariance, PTL DEF ProgramSpec

\* Every variable of the program has its type, with any key, any typing and any option.
THEOREM TypeCorrect == ProgramSpec => []ProgramTypeOK
<1>1. IInv /\ TypeInv => ProgramTypeOK
  BY DEF IInv, StageInv, TypeInv, PromptTypes, ProgramTypeOK
<1> QED
  BY <1>1, Invariance, TypeInvariance, PTL

-----------------------------------------------------------------------------
(***************************************************************************)
(* Each step is one of those that were left.                               *)
(***************************************************************************)
LEMMA PromptRanges ==
  ASSUME PromptTypes
  PROVE  /\ typed \in Nat /\ tries \in 0..3
         /\ pc \in {"start", "prompt", "read", "validate"} => tries \in 0..2
<1>1. typed \in 0..MaxTyped /\ tries \in 0..3
      /\ (pc \in {"start", "prompt", "read", "validate"} => tries < 3)
  BY Zenon DEF PromptTypes, PromptTypeOK
<1> QED
  BY <1>1, MaxTypedIsNat

LEMMA PromptStepsAreNat == PromptTypes => PromptStepsLeft \in Nat
<1> SUFFICES ASSUME PromptTypes PROVE PromptStepsLeft \in Nat
  OBVIOUS
<1>1. tries \in 0..3
  BY DEF PromptTypes, PromptTypeOK
<1>2. pc = "read" \/ pc = "validate" => tries \in 0..2
  BY <1>1 DEF PromptTypes
<1> QED
  BY <1>1, <1>2 DEF PromptStepsLeft

LEMMA PromptRangesNext == (PromptTypes => (pc = "prompt" => tries \in 0..2))'
<1>1. PromptTypes => (pc = "prompt" => tries \in 0..2)
  BY PromptRanges
<1> QED
  BY <1>1, PTL

LEMMA PromptShrinks ==
  ASSUME PromptTypes, PromptTypes', PromptNext
  PROVE  /\ typed' > typed => PromptStepsLeft' = PromptStepsLeft
         /\ ~(typed' > typed) => PromptStepsLeft' \in 0..(PromptStepsLeft - 1)
<1>1. tries \in 0..3 /\ typed \in Nat
      /\ (pc \in {"prompt", "read", "validate"} => tries \in 0..2)
  BY PromptRanges
<1>2. CASE Start
  <2>1. UNCHANGED <<tries, typed>> /\ pc = "start" /\ pc' \in {"prompt", "run", "exit -1"}
    BY <1>2 DEF Start
  <2>2. pc' = "prompt" \/ pc' \notin {"start", "prompt", "read", "validate"}
    BY <2>1
  <2>a. UNCHANGED <<tries, typed>>
    BY <2>1
  <2>3. ~(typed' > typed)
    BY <1>1, <2>a
  <2>4. PromptStepsLeft = 10
    BY <2>1 DEF PromptStepsLeft
  <2>5. PromptStepsLeft' \in 0..9
    <3>1. CASE pc' = "prompt"
      BY <1>1, <2>a, <3>1 DEF PromptStepsLeft
    <3>2. CASE pc' \notin {"start", "prompt", "read", "validate"}
      BY <3>2 DEF PromptStepsLeft
    <3> QED
      BY <2>2, <3>1, <3>2
  <2> QED
    BY <2>3, <2>4, <2>5
<1>3. CASE Getpasswd
  <2>1. UNCHANGED tries /\ typed' = 0 /\ pc = "prompt" /\ pc' \in {"read", "validate"}
    BY <1>3 DEF Getpasswd
  <2>2. ~(typed' > typed)
    BY <1>1, <2>1
  <2> QED
    BY <1>1, <2>1, <2>2 DEF PromptStepsLeft
<1>4. CASE Validate
  <2>1. tries' = tries + 1 /\ UNCHANGED typed /\ pc = "validate"
    BY <1>4 DEF Validate
  <2>2. pc' = "prompt" \/ pc' \notin {"start", "prompt", "read", "validate"}
    BY <1>4, Zenon DEF Validate
  <2>3. ~(typed' > typed)
    BY <1>1, <2>1
  <2>4. PromptStepsLeft = 3 * (3 - tries) - 2 /\ tries \in 0..2
    BY <1>1, <2>1 DEF PromptStepsLeft
  <2>5. CASE pc' = "prompt"
    <3>1. PromptStepsLeft' = 3 * (3 - tries')
      BY <2>5 DEF PromptStepsLeft
    <3>2. tries' \in 0..2
      BY <2>5, PromptRangesNext
    <3> QED
      BY <2>1, <2>3, <2>4, <3>1, <3>2
  <2>6. CASE pc' \notin {"start", "prompt", "read", "validate"}
    <3>1. PromptStepsLeft' = 0
      BY <2>6 DEF PromptStepsLeft
    <3> QED
      BY <2>3, <2>4, <3>1
  <2> QED
    BY <2>2, <2>5, <2>6
<1>5. CASE (\E c \in Chars : Character(c)) \/ Backspace
  <2>1. typed' = typed + 1 /\ UNCHANGED <<pc, tries>>
    BY <1>5 DEF Character, Backspace
  <2>2. typed' > typed
    BY <1>1, <2>1
  <2>3. PromptStepsLeft' = PromptStepsLeft
    BY <2>1 DEF PromptStepsLeft
  <2> QED
    BY <2>2, <2>3
<1>6. CASE EndOfLine
  <2>1. UNCHANGED <<tries, typed>> /\ pc = "read" /\ pc' = "validate"
    BY <1>6 DEF EndOfLine
  <2>2. ~(typed' > typed)
    BY <1>1, <2>1
  <2> QED
    BY <1>1, <2>1, <2>2 DEF PromptStepsLeft
<1>7. CASE Interrupt
  <2>1. UNCHANGED <<tries, typed>> /\ pc = "read" /\ pc' = "killed"
    BY <1>7 DEF Interrupt
  <2>2. ~(typed' > typed)
    BY <1>1, <2>1
  <2> QED
    BY <1>1, <2>1, <2>2 DEF PromptStepsLeft
<1> QED
  BY <1>2, <1>3, <1>4, <1>5, <1>6, <1>7 DEF PromptNext, Program, User

LEMMA OneOfThem ==
  ASSUME NEW m \in Nat, NEW n \in Nat, NEW p \in Nat, NEW q \in 0..(p - 1), NEW s, NEW t,
         s = m + p + n, t = m + q + n
  PROVE  t \in 0..(s - 1)
  OBVIOUS

\* No step of the program, and none of the user but the typing of a character or a
\* backspace, can be taken more often than the steps left allow.
THEOREM RetriesRunOut == ProgramSpec => NoEndlessRetries
<1>1. IInv /\ TypeInv /\ IInv' /\ TypeInv' /\ [ProgramNext]_programVars
        => [StepsLeft' \in 0..(StepsLeft - IF typed' > typed THEN 0 ELSE 1)]_programVars
  <2> SUFFICES ASSUME IInv, TypeInv, IInv', TypeInv', ProgramNext
               PROVE  StepsLeft' \in 0..(StepsLeft - IF typed' > typed THEN 0 ELSE 1)
    OBVIOUS
  <2> DEFINE Now == IF stage = "options" THEN 1 ELSE 0
  <2>1. CallStepsLeft \in Nat /\ CallStepsLeft' \in Nat
        /\ PromptStepsLeft \in Nat /\ PromptStepsLeft' \in Nat
    <3>1. (CallStepsLeft \in Nat)' /\ (PromptStepsLeft \in Nat)'
      BY CallStepsAreNat, PromptStepsAreNat, PTL DEF IInv, TypeInv
    <3> QED
      BY <3>1, CallStepsAreNat, PromptStepsAreNat DEF IInv, TypeInv
  <2>2. typed \in Nat /\ StepsLeft = Now + PromptStepsLeft + CallStepsLeft
        /\ StepsLeft' = Now' + PromptStepsLeft' + CallStepsLeft'
    BY PromptRanges DEF TypeInv, StepsLeft
  <2>3. CASE ParseCmdline
    <3>1. Now = 1 /\ Now' = 0
      BY <2>3 DEF ParseCmdline, Malformed
    <3>2. UNCHANGED <<typed, pc, tries, frames, status, attempts>>
      BY <2>3 DEF ParseCmdline
    <3>3. PromptStepsLeft' = PromptStepsLeft /\ CallStepsLeft' = CallStepsLeft
      BY <3>2 DEF PromptStepsLeft, CallStepsLeft
    <3>4. ~(typed' > typed)
      BY <2>2, <3>2
    <3> QED
      BY <2>1, <2>2, <3>1, <3>3, <3>4
  <2>4. CASE FindKey \/ UserTypes
    <3>1. PromptNext /\ UNCHANGED <<stage, frames, status, attempts>>
      BY <2>4 DEF FindKey, UserTypes, PromptNext, main, vars, retry
    <3>2. CallStepsLeft' = CallStepsLeft /\ Now' = Now /\ Now \in Nat
      BY <3>1 DEF CallStepsLeft
    <3>3. /\ typed' > typed => PromptStepsLeft' = PromptStepsLeft
          /\ ~(typed' > typed) => PromptStepsLeft' \in 0..(PromptStepsLeft - 1)
      BY <3>1, PromptShrinks DEF TypeInv
    <3> HIDE DEF Now
    <3>4. CASE typed' > typed
      BY <2>1, <2>2, <3>2, <3>3, <3>4
    <3>5. CASE ~(typed' > typed)
      <4>1. PromptStepsLeft' \in 0..(PromptStepsLeft - 1)
        BY <3>3, <3>5
      <4>3. StepsLeft' = Now + PromptStepsLeft' + CallStepsLeft
        BY <2>2, <3>2
      <4>4. StepsLeft' \in 0..(StepsLeft - 1)
        BY <2>1, <2>2, <3>2, <4>1, <4>3, OneOfThem
      <4>5. (IF typed' > typed THEN 0 ELSE 1) = 1
        BY <3>5
      <4> QED
        BY <4>4, <4>5
    <3> QED
      BY <3>4, <3>5
  <2>5. CASE Transfer
    <3>1. Next /\ UNCHANGED <<stage, typed, pc, tries>>
      BY <2>5 DEF Transfer, main, promptVars
    <3>2. PromptStepsLeft' = PromptStepsLeft /\ Now' = Now /\ Now \in Nat /\ ~(typed' > typed)
      BY <2>2, <3>1 DEF PromptStepsLeft
    <3>3. CallStepsLeft' \in 0..(CallStepsLeft - 1)
      BY <3>1, CallShrinks DEF IInv
    <3> HIDE DEF Now
    <3>5. StepsLeft' = Now + PromptStepsLeft + CallStepsLeft'
      BY <2>2, <3>2
    <3>6. StepsLeft' \in 0..(StepsLeft - 1)
      <4>1. Now \in Nat /\ PromptStepsLeft \in Nat /\ CallStepsLeft \in Nat
            /\ StepsLeft = Now + PromptStepsLeft + CallStepsLeft
        BY <2>1, <2>2, <3>2
      <4>2. StepsLeft = Now + CallStepsLeft + PromptStepsLeft
            /\ StepsLeft' = Now + CallStepsLeft' + PromptStepsLeft
        BY <2>1, <3>2, <3>5, <4>1
      <4> QED
        BY <3>3, <4>1, <4>2, OneOfThem
    <3>7. (IF typed' > typed THEN 0 ELSE 1) = 1
      BY <3>2
    <3> QED
      BY <3>6, <3>7
  <2> QED
    BY <2>3, <2>4, <2>5 DEF ProgramNext
<1> QED
  BY <1>1, Invariance, TypeInvariance, PTL DEF NoEndlessRetries, ProgramSpec

-----------------------------------------------------------------------------
(***************************************************************************)
(* Action properties and the refinement.                                   *)
(***************************************************************************)
\* After a success only returns are left.
LEMMA QuietAfterSuccess ==
  ASSUME TransferInv, printed > 0, Next
  PROVE  UNCHANGED <<answered, reconnections, attempts, printed>>
<1>1. ~(status = "running" /\ Top \notin Spent)
  <2>1. printed # 0
    OBVIOUS
  <2> QED
    BY <2>1 DEF TransferInv, SendInv
<1>2. ~(Connect \/ GetBlock \/ Create \/ Send)
  BY <1>1 DEF Connect, GetBlock, Create, Send, At, Top, Spent
<1>3. Nothing \/ Returns
  BY <1>2 DEF Next
<1> QED
  BY <1>3 DEF Nothing, Returns, Return, Goto, Ends

\* Nothing is sent, and no error is counted, after a result was printed.
THEOREM SuccessIsTheEnd == ProgramSpec => NothingAfterSuccess
<1>1. IInv /\ [ProgramNext]_programVars
        => [printed > 0 => UNCHANGED <<answered, reconnections, attempts>>]_vars
  <2> SUFFICES ASSUME IInv, [ProgramNext]_programVars, printed > 0, ~UNCHANGED vars
               PROVE  UNCHANGED <<answered, reconnections, attempts>>
    OBVIOUS
  <2>1. CASE Next
    BY <2>1, QuietAfterSuccess DEF IInv
  <2>2. CASE ParseCmdline
    BY <2>2 DEF ParseCmdline
  <2> QED
    BY <2>1, <2>2 DEF ProgramNext, FindKey, UserTypes, Transfer, programVars
<1> QED
  BY <1>1, Invariance, PTL DEF NothingAfterSuccess, ProgramSpec

\* The attempts left are as many as the abstract program may still make.
LEMMA MaySend ==
  ASSUME TransferInv, status = "running", Top \notin Spent
  PROVE  /\ ~\E i \in 1..Len(answered) : ~answered[i]
         /\ ~(printed > 0)
         /\ Len(answered) \in Nat /\ Len(answered) < Promise!Budget
<1>1. AllAnswered /\ printed = 0 /\ Len(answered) < attempts /\ answered \in Seq(BOOLEAN)
  BY DEF TransferInv, SendInv
<1>2. attempts \in Nat /\ attempts <= Promise!Budget
  BY BudgetBounds DEF TransferInv, BudgetInv, AttemptsBounded, Promise!Budget
<1>3. Promise!Budget \in Int
  BY ReconnectionsIsInt DEF Promise!Budget
<1>4. Len(answered) \in Nat
  BY <1>1
<1> QED
  BY <1>1, <1>2, <1>3, <1>4 DEF AllAnswered

LEMMA PromiseStep ==
  ASSUME TransferInv, Next PROVE [Promise!Next]_(Promise!vars)
<1>1. CASE Send
  <2>1. status = "running" /\ Top = "send" /\ ~test /\ printed \in Nat
    BY <1>1 DEF Send, At, Top, TransferInv, SendInv
  <2>2. Top \notin Spent
    BY <2>1 DEF Spent
  <2>3. PICK answer \in BOOLEAN :
          /\ Sent(answer)
          /\ \/ printed' = printed + 1 /\ answer /\ UNCHANGED status
             \/ printed' = printed
    BY <1>1, <2>1 DEF Send, Sent, Goto
  <2>4. Len(answered') = Len(answered) + 1 /\ answered' \in Seq(BOOLEAN)
        /\ (answer => AllAnswered')
    BY <2>1, <2>2, <2>3, SentFacts
  <2>5. CASE printed' = printed + 1 /\ answer /\ UNCHANGED status
    <3>1. (printed' > 0) = TRUE /\ (status' # "running") = FALSE
      BY <2>1, <2>5
    <3>2. (\E i \in 1..Len(answered') : ~answered'[i]) = FALSE
      BY <2>4, <2>5 DEF AllAnswered
    <3>3. (\E i \in 1..Len(answered) : ~answered[i]) = FALSE
      BY <2>1, <2>2, MaySend
    <3>4. Promise!Send
      BY <2>1, <2>2, <2>4, <3>1, <3>2, <3>3, MaySend DEF Promise!Send
    <3> QED
      BY <3>4 DEF Promise!Next
  <2>6. CASE printed' = printed
    <3>1. Promise!Send
      BY <2>1, <2>2, <2>4, <2>6, MaySend DEF Promise!Send
    <3> QED
      BY <3>1 DEF Promise!Next
  <2> QED
    BY <2>3, <2>5, <2>6
<1>2. CASE ~Send
  <2>1. status = "running" /\ UNCHANGED <<answered, printed>>
    BY <1>2 DEF Next, Connect, GetBlock, Create, Nothing, Returns, Return, At
  <2>2. CASE status' = "running"
    BY <2>1, <2>2 DEF Promise!vars
  <2>3. CASE status' # "running"
    BY <2>1, <2>3 DEF Promise!Next, Promise!Stop
  <2> QED
    BY <2>2, <2>3
<1> QED
  BY <1>1, <1>2

\* mile_cli_transfer, with its retries of retries, implements RetryPromise.
THEOREM ImplementsThePromise == ProgramSpec => KeepsThePromise
<1>1. ProgramInit => Promise!Init
  BY DEF ProgramInit, Init, RetryInit, Promise!Init
<1>2. IInv /\ [ProgramNext]_programVars => [Promise!Next]_(Promise!vars)
  <2> SUFFICES ASSUME IInv, [ProgramNext]_programVars PROVE [Promise!Next]_(Promise!vars)
    OBVIOUS
  <2>1. CASE Next
    BY <2>1, PromiseStep DEF IInv
  <2>2. CASE UNCHANGED <<answered, printed, status>>
    BY <2>2 DEF Promise!vars
  <2> QED
    BY <2>1, <2>2
    DEF ProgramNext, ParseCmdline, FindKey, UserTypes, Transfer, programVars, vars, retry
<1> QED
  BY <1>1, <1>2, Invariance, PTL DEF ProgramSpec, KeepsThePromise, Promise!Spec

=============================================================================
