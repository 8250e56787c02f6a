---------------------------- MODULE RetryPromise -----------------------------
(***************************************************************************)
(* What the two command-line programs promise to the person who starts     *)
(* them, without the recursion, the connections and the handlers: a        *)
(* program asks the server for one thing.  It may ask again when it was    *)
(* answered with a failure, as often as --reconnections says, but not      *)
(* after an answer that it printed, and not when there was no answer.      *)
(***************************************************************************)
EXTENDS Integers

CONSTANT Reconnections

VARIABLES
  sends,     \* how often the server was asked
  unknown,   \* the server did not answer; it may have done what it was asked
  printed,   \* an answer was printed
  over       \* the program has ended

vars == <<sends, unknown, printed, over>>

Budget == IF Reconnections < 1 THEN 1 ELSE Reconnections

Init ==
  /\ sends = 0
  /\ unknown = FALSE
  /\ printed = FALSE
  /\ over = FALSE

\* The server is asked, and answers, or fails to; a failure may be the end.
Send ==
  /\ ~over /\ ~unknown /\ ~printed
  /\ sends < Budget
  /\ sends' = sends + 1
  /\ \/ printed' = TRUE /\ UNCHANGED <<unknown, over>>
     \/ unknown' \in BOOLEAN /\ over' \in BOOLEAN /\ UNCHANGED printed

Stop ==
  /\ ~over
  /\ over' = TRUE
  /\ UNCHANGED <<sends, unknown, printed>>

Next == Send \/ Stop

Spec == Init /\ [][Next]_vars

=============================================================================
