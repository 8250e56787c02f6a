------------------------------- MODULE Retry ---------------------------------
(***************************************************************************)
(* The way both command-line programs retry.  main() calls do_request();   *)
(* whatever fails below it calls error_handler, on the stack of the call   *)
(* that failed; and error_handler may call do_request() again, from the    *)
(* beginning, on top of it.  When that one returns, the call that failed   *)
(* goes on from where it was.                                              *)
(*                                                                         *)
(* The stack of do_request's is a sequence of the places they are at; the  *)
(* last one runs.  Modules CliTransfer and CliWallet say what runs.        *)
(***************************************************************************)
EXTENDS Integers, Sequences

CONSTANT Reconnections   \* the option --reconnections, any integer

ASSUME ReconnectionsIsInt == Reconnections \in Int

VARIABLES
  frames,         \* where the do_request's on the stack are, the running one last
  status,         \* "running"; or exited 0 or -1, or aborted
  reconnections,  \* errors the handler has counted
  attempts        \* history: how many times do_request was called

retry == <<frames, status, reconnections, attempts>>

RetryInit ==
  /\ frames = <<"connect">>
  /\ status = "running"
  /\ reconnections = 0
  /\ attempts = 1

\* The running do_request is at place p.
At(p) == status = "running" /\ frames[Len(frames)] = p

Continued(p) == [frames EXCEPT ![Len(frames)] = p]

Goto(p) ==
  /\ frames' = Continued(p)
  /\ UNCHANGED <<status, reconnections, attempts>>

\* The program ends; nothing on the stack is unwound.
Ends(s) ==
  /\ status' = s
  /\ UNCHANGED <<frames, reconnections, attempts>>

\* error_handler counts the error; it was the last one it puts up with.
LastTryOffByOne == reconnections + 1 > Reconnections           \* seeded fault

LastTry == reconnections + 1 >= Reconnections

\* The handler exits.
HandlerExits ==
  /\ reconnections' = reconnections + 1
  /\ status' = "exit -1"
  /\ UNCHANGED <<frames, attempts>>

\* The handler starts over without counting, and without a frame of its own.
HandlerRetriesInPlace(next) ==                                 \* seeded fault
  /\ frames' = Continued("connect")
  /\ UNCHANGED <<status, reconnections, attempts>>

\* ... or the failed one repeats, afterwards, what has failed.
HandlerRetriesTwice(next) ==                                   \* seeded fault
  /\ reconnections' = reconnections + 1
  /\ attempts' = attempts + 1
  /\ frames' = Append(frames, "connect")
  /\ UNCHANGED status

\* The handler calls do_request(); afterwards the failed one goes on at next.
HandlerRetries(next) ==
  /\ reconnections' = reconnections + 1
  /\ attempts' = attempts + 1
  /\ frames' = Append(Continued(next), "connect")
  /\ UNCHANGED status

\* The handler returns; the failed one goes on at next.
HandlerReturns(next) ==
  /\ reconnections' = reconnections + 1
  /\ frames' = Continued(next)
  /\ UNCHANGED <<status, attempts>>

ReturnBelowMain ==                                             \* seeded fault
  /\ At("done")
  /\ frames' = SubSeq(frames, 1, Len(frames) - 1)
  /\ UNCHANGED <<status, reconnections, attempts>>

\* do_request returns, to the handler that called it or to main, which exits.
Return ==
  /\ At("done")
  /\ IF Len(frames) = 1
       THEN status' = "exit 0" /\ UNCHANGED frames
       ELSE frames' = SubSeq(frames, 1, Len(frames) - 1) /\ UNCHANGED status
  /\ UNCHANGED <<reconnections, attempts>>

-----------------------------------------------------------------------------
RetryTypes ==
  /\ status \in {"running", "exit 0", "exit -1", "aborted"}
  /\ reconnections \in Nat
  /\ attempts \in Nat
  /\ frames # <<>>

\* One budget is shared by all the do_request's on the stack: retries of retries
\* do not multiply, and the stack, with one open connection for each frame, is
\* never deeper than the option says (once, for an option below 1).
AttemptsBounded ==
  /\ attempts <= IF Reconnections < 1 THEN 1 ELSE Reconnections
  /\ Len(frames) <= attempts

=============================================================================
