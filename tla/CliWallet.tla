----------------------------- MODULE CliWallet -------------------------------
(***************************************************************************)
(* mile_cli_wallet: do_request connects and makes one call, by name, of    *)
(* Client::call.  The errors of both go to error_handler, which exits      *)
(* after any code but FAIL and otherwise retries the whole of do_request.  *)
(* An answer without a result goes to response_fail_handler, which only    *)
(* prints.                                                                 *)
(*                                                                         *)
(* Client::call is seen through its steps that can fail (module ClientCall): *)
(* the checks of the parameters, for a transaction the request for the     *)
(* block id, and the last request.                                         *)
(***************************************************************************)
EXTENDS Retry

VARIABLES
  kind,      \* the option --method: a "query", a "transaction", or "wrong"
  answered,  \* for each last request sent, in order: the server answered something
  printed,   \* results printed
  unreached  \* history: the program has exited because it could not connect

vars == <<retry, kind, answered, printed, unreached>>

Places == {"connect", "call", "block", "create", "nothing", "send", "novalue", "done"}

\* The codes Session::connect reports; Url::Parse reports NOT_SUPPORTED.
ConnectCodes == {"FAIL", "NOT_FOUND", "TIMEOUT"}

\* The codes the library of keys and transactions may report.
LibraryCodes == {"FAIL", "EXCEPTION"}

Init ==
  /\ RetryInit
  /\ kind \in {"query", "transaction", "wrong"}
  /\ answered = <<>>
  /\ printed = 0
  /\ unreached = FALSE

\* error_handler.  A faulty one gives a timeout another try.
HandleTimeoutsToo(code, next) ==                               \* seeded fault
  \/ code \notin {"FAIL", "TIMEOUT"} /\ Ends("exit -1")
  \/ code \in {"FAIL", "TIMEOUT"} /\ LastTry /\ HandlerExits
  \/ code \in {"FAIL", "TIMEOUT"} /\ ~LastTry /\ HandlerRetries(next)

Handle(code, next) ==
  \/ code # "FAIL" /\ Ends("exit -1")
  \/ code = "FAIL" /\ LastTry /\ HandlerExits
  \/ code = "FAIL" /\ ~LastTry /\ HandlerRetries(next)

\* Client::Connect.  Url::Parse may also throw, outside of any try.
Connect ==
  /\ At("connect")
  /\ \/ Goto("call") /\ UNCHANGED unreached
     \/ /\ \E code \in ConnectCodes : Handle(code, "done")
        /\ unreached' = (status' # "running")
     \/ (Handle("NOT_SUPPORTED", "done") \/ Ends("aborted")) /\ UNCHANGED unreached
  /\ UNCHANGED <<kind, answered, printed>>

\* The method and its parameters.  Parameters that are no JSON are noticed here,
\* too, as ones without any key.  A call that returns a nullopt in an any counts
\* as one with a value.
CheckParameters ==
  /\ At("call")
  /\ \/ kind = "query" /\ Goto("send")
     \/ kind = "transaction" /\ Goto("block")
     \/ kind = "wrong" /\ \E code \in {"NOT_FOUND", "FAIL", "EXCEPTION"},
                           next \in {"novalue", "done"} : Handle(code, next)
     \/ kind = "wrong" /\ Ends("aborted")
  /\ UNCHANGED <<kind, answered, printed, unreached>>

\* The block id of a transaction.  Its value is used unchecked: when there is
\* none the program is stopped, or goes on with whatever is there.
GetBlock ==
  /\ At("block")
  /\ \/ Goto("create")
     \/ \E code \in {"FAIL", "TIMEOUT", "EXCEPTION"} :
          Handle(code, IF code = "EXCEPTION" THEN "novalue" ELSE "create")
     \/ Ends("aborted")
  /\ UNCHANGED <<kind, answered, printed, unreached>>

Create ==
  /\ At("create")
  /\ \/ Goto("send")
     \/ Goto("novalue")
     \/ \E code \in LibraryCodes : Handle(code, "nothing")
  /\ UNCHANGED <<kind, answered, printed, unreached>>

\* ->get_body() of a request that was not made is undefined.
Nothing ==
  /\ At("nothing")
  /\ Goto("novalue") \/ Ends("aborted")
  /\ UNCHANGED <<kind, answered, printed, unreached>>

\* The last request of the call, and the printing of its result.
Send ==
  /\ At("send")
  /\ \/ Goto("done") /\ answered' = Append(answered, TRUE) /\ printed' = printed + 1
     \/ Goto("novalue") /\ answered' = Append(answered, TRUE) /\ UNCHANGED printed
     \/ /\ \/ Handle("FAIL", "novalue") /\ answered' = Append(answered, TRUE)
           \/ Handle("TIMEOUT", "novalue") /\ answered' = Append(answered, FALSE)
        /\ UNCHANGED printed
  /\ UNCHANGED <<kind, unreached>>

\* The call returned no value.
NoValueReturns ==                                              \* seeded fault
  /\ At("novalue")
  /\ Goto("done")
  /\ UNCHANGED <<kind, answered, printed, unreached>>

NoValue ==
  /\ At("novalue")
  /\ Ends("exit -1")
  /\ UNCHANGED <<kind, answered, printed, unreached>>

Returns == Return /\ UNCHANGED <<kind, answered, printed, unreached>>

Next ==
  \/ Connect \/ CheckParameters \/ GetBlock \/ Create \/ Nothing
  \/ Send \/ NoValue \/ Returns

Spec == Init /\ [][Next]_vars /\ WF_vars(Next)

-----------------------------------------------------------------------------
(***************************************************************************)
(* Properties.                                                             *)
(***************************************************************************)
\* Every variable has its type.
TypeOK ==
  /\ RetryTypes
  /\ frames \in Seq(Places)
  /\ kind \in {"query", "transaction", "wrong"}
  /\ answered \in Seq(BOOLEAN)
  /\ printed \in 0..Len(answered)
  /\ unreached \in BOOLEAN

\* A request whose fate is unknown is never followed by another one.
NoResendWhileUnknown == \A i \in 1..(Len(answered) - 1) : answered[i]

\* The exit status can be believed when it is 0: a result has been printed.
\* (Not the other way round: a call that was retried with success is itself
\* without a value, so that the program ends with -1 all the same.)
ExitZeroMeansPrinted == status = "exit 0" => printed > 0

\* A query prints at most one result, however often it was retried.  (A transaction
\* may print two: after a retry it goes on with a block id it does not have.)
OneResult == kind = "query" => printed <= 1

\* All of this in one: seen from outside, a program of nested retries is one that
\* asks the server at most so often, and never again without an answer to the last
\* question, nor after the result of a query or its end.
Promise == INSTANCE RetryPromise WITH
  sends   <- Len(answered),
  unknown <- \E i \in 1..Len(answered) : ~answered[i],
  printed <- kind = "query" /\ printed > 0,
  over    <- status # "running"

KeepsThePromise == Promise!Spec

\* What each attempt has before it, at most, and each do_request on the stack.
PlacesLeft == [connect |-> 5, call |-> 4, block |-> 3, create |-> 2, send |-> 1, nothing |-> 1,
               novalue |-> 0, done |-> 0]

\* An upper bound of the steps to the end: of the attempts that may be made yet,
\* of those on the stack, which may go on from "create", and of the one that runs.
CallStepsLeft ==
  IF status = "running"
    THEN 8 * (Promise!Budget - attempts) + 3 * Len(frames) + PlacesLeft[frames[Len(frames)]]
    ELSE 0

\* mile_cli_wallet.cpp, help of --reconnections: "try to connect again
\* reconnection times if any connection error occurred".
ReconnectsAfterAnyError == unreached => attempts = Reconnections + 1

=============================================================================
