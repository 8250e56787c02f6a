---------------------------- MODULE RetryProofs ------------------------------
(***************************************************************************)
(* Proofs about Retry: what each of its operations does to the stack of    *)
(* do_request's, and that they all keep the budget of attempts, for every  *)
(* value of Reconnections.  Modules TransferProofs and WalletProofs build  *)
(* on them.                                                                *)
(***************************************************************************)
EXTENDS Retry, SequenceTheorems, TLAPS

\* The number of attempts is bounded by the errors counted, and these, as long as
\* the handler retries, by the option.
BudgetInv ==
  /\ frames # <<>>
  /\ attempts \in Nat /\ reconnections \in Nat
  /\ 1 <= attempts
  /\ Len(frames) <= attempts
  /\ attempts <= reconnections + 1
  /\ attempts = 1 \/ attempts <= Reconnections

\* The budget bounds the attempts and the stack.
LEMMA BudgetBounds ==
  ASSUME BudgetInv PROVE AttemptsBounded
  BY ReconnectionsIsInt DEF BudgetInv, AttemptsBounded

-----------------------------------------------------------------------------
\* The running do_request goes on at p; those below stay where they are.
LEMMA ContinuedFrames ==
  ASSUME NEW P, frames \in Seq(P), frames # <<>>, NEW p \in P
  PROVE  /\ Continued(p) \in Seq(P)
         /\ Continued(p) # <<>>
         /\ Len(Continued(p)) = Len(frames)
         /\ Continued(p)[Len(frames)] = p
         /\ \A i \in 1..(Len(frames) - 1) : Continued(p)[i] = frames[i]
<1>1. Len(frames) \in Nat \ {0}
  OBVIOUS
<1> QED
  BY <1>1 DEF Continued

\* A retry puts a new do_request on top of the failed one.
LEMMA RetryFrames ==
  ASSUME NEW P, frames \in Seq(P), frames # <<>>, "connect" \in P, NEW next \in P,
         HandlerRetries(next)
  PROVE  /\ frames' \in Seq(P)
         /\ Len(frames') = Len(frames) + 1
         /\ frames'[Len(frames) + 1] = "connect"
         /\ frames'[Len(frames)] = next
         /\ \A i \in 1..(Len(frames) - 1) : frames'[i] = frames[i]
<1>1. frames' = Append(Continued(next), "connect")
  BY DEF HandlerRetries
<1>2. Len(frames) \in Nat \ {0}
  OBVIOUS
<1> QED
  BY <1>1, <1>2, ContinuedFrames

\* A do_request that is not the first one returns to the one below.
LEMMA ReturnFrames ==
  ASSUME NEW P, frames \in Seq(P), frames # <<>>, Return, Len(frames) # 1
  PROVE  /\ frames' \in Seq(P)
         /\ frames' # <<>>
         /\ Len(frames') = Len(frames) - 1
         /\ \A i \in 1..(Len(frames) - 1) : frames'[i] = frames[i]
         /\ UNCHANGED status
<1>1. frames' = SubSeq(frames, 1, Len(frames) - 1) /\ UNCHANGED status
  BY DEF Return
<1>2. Len(frames) \in Nat /\ Len(frames) > 1
  <2>1. Len(frames) \in Nat \ {0}
    BY EmptySeq
  <2> QED
    BY <2>1
<1>3. frames' \in Seq(P) /\ Len(frames') = Len(frames) - 1
  BY <1>1, <1>2
<1>4. frames' # <<>>
  BY <1>2, <1>3, EmptySeq
<1> QED
  BY <1>1, <1>2, <1>3, <1>4

-----------------------------------------------------------------------------
\* No operation but a retry takes from the budget.
LEMMA GotoBudget ==
  ASSUME NEW P, frames \in Seq(P), NEW p \in P, BudgetInv, Goto(p)
  PROVE  BudgetInv'
  BY ContinuedFrames DEF Goto, BudgetInv

LEMMA EndsBudget ==
  ASSUME NEW s, BudgetInv, Ends(s)
  PROVE  BudgetInv'
  BY DEF Ends, BudgetInv

LEMMA ExitBudget ==
  ASSUME BudgetInv, HandlerExits
  PROVE  BudgetInv'
<1>1. frames' = frames /\ attempts' = attempts /\ reconnections' = reconnections + 1
  BY DEF HandlerExits
<1>2. reconnections' \in Nat /\ attempts <= reconnections' + 1
  BY <1>1 DEF BudgetInv
<1> QED
  BY <1>1, <1>2 DEF BudgetInv

LEMMA HandlerReturnsBudget ==
  ASSUME NEW P, frames \in Seq(P), NEW p \in P, BudgetInv, HandlerReturns(p)
  PROVE  BudgetInv'
  BY ContinuedFrames DEF HandlerReturns, BudgetInv

LEMMA ReturnBudget ==
  ASSUME NEW P, frames \in Seq(P), BudgetInv, Return
  PROVE  BudgetInv'
<1>1. CASE Len(frames) = 1
  BY <1>1 DEF Return, BudgetInv
<1>2. CASE Len(frames) # 1
  BY <1>2, ReturnFrames DEF Return, BudgetInv
<1> QED
  BY <1>1, <1>2

\* A retry, which is not made at the last try, stays within it.
LEMMA RetryBudget ==
  ASSUME NEW P, frames \in Seq(P), "connect" \in P, NEW next \in P,
         BudgetInv, ~LastTry, HandlerRetries(next)
  PROVE  BudgetInv'
<1>1. attempts' = attempts + 1 /\ reconnections' = reconnections + 1
  BY DEF HandlerRetries
<1>2. reconnections + 1 < Reconnections
  BY ReconnectionsIsInt DEF LastTry, BudgetInv
<1>3. frames' # <<>> /\ Len(frames') = Len(frames) + 1
  BY RetryFrames DEF BudgetInv
<1> QED
  BY <1>1, <1>2, <1>3, ReconnectionsIsInt DEF BudgetInv

=============================================================================
