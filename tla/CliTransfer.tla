---------------------------- MODULE CliTransfer ------------------------------
(***************************************************************************)
(* mile_cli_transfer: do_request connects, asks for the current block id,  *)
(* makes a transfer, signed and numbered with rand(), and sends it.  Every *)
(* error goes to error_handler, which retries the whole of do_request after *)
(* an error of code FAIL.                                                  *)
(*                                                                         *)
(* What happens to a transfer that was sent is seen from both ends: whether *)
(* the program got an answer, and whether the node accepted the transfer.  *)
(***************************************************************************)
EXTENDS Retry

VARIABLES
  test,      \* the option --test: only print the transfer
  url,       \* the option --url: "good", "unsupported", or with a port that throws
  answered,  \* for each transfer sent, in order: the server answered something
  accepted,  \* how many of them the node accepted
  printed    \* results printed

options == <<test, url>>
vars == <<retry, options, answered, accepted, printed>>

Places == {"connect", "block", "create", "send", "nothing", "done"}

\* The codes Session::connect reports; Url::Parse reports NOT_SUPPORTED.
ConnectCodes == {"FAIL", "NOT_FOUND", "TIMEOUT"}

\* The codes that CreateRequest, of the library of transactions, may report.
LibraryCodes == {"FAIL", "EXCEPTION"}

Init ==
  /\ RetryInit
  /\ test \in BOOLEAN
  /\ url \in {"good", "unsupported", "throws"}
  /\ answered = <<>>
  /\ accepted = 0
  /\ printed = 0

\* error_handler.  A faulty one retries after a timeout, too.
HandleTimeoutsToo(code, next) ==                               \* seeded fault
  \/ (LastTry \/ test) /\ HandlerExits
  \/ ~(LastTry \/ test) /\ code \in {"FAIL", "TIMEOUT"} /\ HandlerRetries(next)
  \/ ~(LastTry \/ test) /\ code \notin {"FAIL", "TIMEOUT"} /\ HandlerReturns(next)

Handle(code, next) ==
  \/ (LastTry \/ test) /\ HandlerExits
  \/ ~(LastTry \/ test) /\ code = "FAIL" /\ HandlerRetries(next)
  \/ ~(LastTry \/ test) /\ code # "FAIL" /\ HandlerReturns(next)

\* Client::Connect.  A port that is no number is an exception nobody catches.
Connect ==
  /\ At("connect")
  /\ \/ url = "good" /\ Goto("block")
     \/ url = "good" /\ \E code \in ConnectCodes : Handle(code, "done")
     \/ url = "unsupported" /\ Handle("NOT_SUPPORTED", "done")
     \/ url = "throws" /\ Ends("aborted")
  /\ UNCHANGED <<options, answered, accepted, printed>>

\* get_current_block_id, and the test of its result.  It has none, in silence,
\* for an empty result and for an answer given to response_fail_handler; it
\* throws for a result that is not an object with a string in it.
GetBlockUnchecked ==                                           \* seeded fault
  /\ At("block")
  /\ \/ Goto("create")
     \/ \E code \in {"FAIL", "TIMEOUT"} : Handle(code, "create")
     \/ Ends("aborted")
  /\ UNCHANGED <<options, answered, accepted, printed>>

GetBlock ==
  /\ At("block")
  /\ \/ Goto("create")
     \/ Goto("done")
     \/ \E code \in {"FAIL", "TIMEOUT"} : Handle(code, "done")
     \/ Ends("aborted")
  /\ UNCHANGED <<options, answered, accepted, printed>>

\* CreateRequest, which may make a request without a body; and dump() of the
\* body, which throws for a description that is not UTF-8.
Create ==
  /\ At("create")
  /\ \/ ~test /\ Goto("send")
     \/ Goto("done")
     \/ \E code \in LibraryCodes : Handle(code, "nothing")
     \/ Ends("aborted")
  /\ UNCHANGED <<options, answered, accepted, printed>>

\* ->get_body() of a request that was not made is undefined: an assertion of
\* the library stops the program, or no body is found there.
Nothing ==
  /\ At("nothing")
  /\ Goto("done") \/ Ends("aborted")
  /\ UNCHANGED <<options, answered, accepted, printed>>

\* send_transaction.  FAIL is an answer that is not JSON; after a timeout, or
\* any answer but a result, the node may have accepted the transfer or not.
Send ==
  /\ At("send")
  /\ \/ /\ Goto("done")
        /\ answered' = Append(answered, TRUE)
        /\ accepted' = accepted + 1
        /\ printed' = printed + 1
     \/ /\ \/ Goto("done") /\ answered' = Append(answered, TRUE)
           \/ Handle("FAIL", "done") /\ answered' = Append(answered, TRUE)
           \/ Handle("TIMEOUT", "done") /\ answered' = Append(answered, FALSE)
        /\ accepted' \in {accepted, accepted + 1}
        /\ UNCHANGED printed
  /\ UNCHANGED options

Returns == Return /\ UNCHANGED <<options, answered, accepted, printed>>

Next == Connect \/ GetBlock \/ Create \/ Nothing \/ Send \/ Returns

Spec == Init /\ [][Next]_vars /\ WF_vars(Next)

-----------------------------------------------------------------------------
(***************************************************************************)
(* Properties.                                                             *)
(***************************************************************************)
\* Every variable has its type.
TypeOK ==
  /\ RetryTypes
  /\ frames \in Seq(Places)
  /\ test \in BOOLEAN
  /\ url \in {"good", "unsupported", "throws"}
  /\ answered \in Seq(BOOLEAN)
  /\ accepted \in 0..Len(answered)
  /\ printed \in 0..accepted

\* A transfer whose fate is unknown, because no answer came, is never followed
\* by another one: of the transfers sent, only the last can be unanswered.
NoResendWhileUnknown == \A i \in 1..(Len(answered) - 1) : answered[i]

\* Once a result has been printed nothing more is sent, and no error is
\* counted, whatever is still on the stack of retries.
NothingAfterSuccess ==
  [][printed > 0 => UNCHANGED <<answered, reconnections, attempts>>]_vars

\* All of this in one: seen from outside, a program of nested retries is one that
\* asks the server at most so often, and never again without knowing what became
\* of the last transfer, nor after a success or its end.
Promise == INSTANCE RetryPromise WITH
  sends   <- Len(answered),
  unknown <- \E i \in 1..Len(answered) : ~answered[i],
  printed <- printed > 0,
  over    <- status # "running"

KeepsThePromise == Promise!Spec

\* What each attempt has before it, at most, and each do_request on the stack.
PlacesLeft == [connect |-> 4, block |-> 3, create |-> 2, send |-> 1, nothing |-> 1, done |-> 0]

\* An upper bound of the steps to the end: of the attempts that may be made yet,
\* of those on the stack, which have to return, and of the one that runs.
CallStepsLeft ==
  IF status = "running"
    THEN 7 * (Promise!Budget - attempts) + 2 * Len(frames) + PlacesLeft[frames[Len(frames)]]
    ELSE 0

\* mile_cli_transfer.cpp: the block id is there "to avoid duble spend".
NoDoubleSpend == accepted <= 1

=============================================================================
