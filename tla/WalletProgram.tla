--------------------------- MODULE WalletProgram -----------------------------
(***************************************************************************)
(* mile_cli_wallet as a whole: the command line, with the making of a pair *)
(* of keys, then the call with its retries (CliWallet), and the time all   *)
(* that may take.                                                          *)
(*                                                                         *)
(* An option is seen through the classes of its values that the program    *)
(* tells apart; "absent" is an option that is not given.                   *)
(***************************************************************************)
EXTENDS CliWallet

CONSTANT Timeouts   \* values of --timeout that are tried

ASSUME TimeoutsAreNat == Timeouts \subseteq Nat

VARIABLES
  stage,     \* "options"; "refused" (exit 1), "usage" and "keys" (exit 0), "crashed",
             \* or "main"
  given,     \* the command line
  timeout,   \* Client::timeout
  clock      \* history: the longest the program may have taken, in seconds

programVars == <<stage, given, timeout, clock, vars>>

CommandLines == [
  known : BOOLEAN,             \* all options exist and have values
  help : BOOLEAN,
  wallet : BOOLEAN,
  method : {"absent", "query", "transaction", "wrong"},
  https : BOOLEAN,             \* in --url
  timeout : {<<>>} \cup {<<t>> : t \in Timeouts}]

ClientTimeout == 3   \* Client::timeout, before the program sets it
OptTimeout == 3      \* opt_timeout: the pause before a retry
Default == 3         \* of --timeout: opt_reconnections, before it is set

Asked == IF given.timeout = <<>> THEN Default ELSE given.timeout[1]

ProgramInit ==
  /\ stage = "options"
  /\ given \in CommandLines
  /\ timeout = ClientTimeout
  /\ clock = 0
  /\ Init /\ kind = "wrong"

SetTimeoutNever == UNCHANGED timeout                           \* seeded fault

SetTimeout == timeout' = Asked

\* parse_cmdline.  The pair of --wallet is used unchecked: if the library made
\* none, that is undefined.
ParseCmdline ==
  /\ stage = "options"
  /\ \/ ~given.known /\ stage' = "refused"
     \/ given.known /\ given.help /\ stage' = "usage"
     \/ given.known /\ ~given.help /\ given.wallet /\ stage' \in {"keys", "crashed"}
     \/ given.known /\ ~given.help /\ ~given.wallet /\ given.method = "absent" /\ stage' = "usage"
     \/ given.known /\ ~given.help /\ ~given.wallet /\ given.method # "absent" /\ stage' = "main"
  /\ IF stage' = "main"
       THEN kind' = given.method /\ SetTimeout
       ELSE UNCHANGED <<kind, timeout>>
  /\ UNCHANGED <<given, clock, frames, status, reconnections, attempts, answered, printed, unreached>>

\* How many deadlines one after the other there are in what do_request does at
\* place p: of the connection and the handshake; of writing and of reading.
Deadlines(p) ==
  CASE p = "connect"           -> IF given.https THEN 2 ELSE 1
    [] p \in {"block", "send"} -> 2
    [] OTHER                   -> 0

Pause == IF attempts' > attempts THEN OptTimeout ELSE 0

Call ==
  /\ stage = "main"
  /\ Next
  /\ clock' = clock + Deadlines(frames[Len(frames)]) * timeout + Pause
  /\ UNCHANGED <<stage, given, timeout>>

ProgramNext == ParseCmdline \/ Call

ProgramSpec == ProgramInit /\ [][ProgramNext]_programVars /\ WF_programVars(ProgramNext)

-----------------------------------------------------------------------------
(***************************************************************************)
(* Properties.                                                             *)
(***************************************************************************)
\* Every variable has its type.
ProgramTypeOK ==
  /\ stage \in {"options", "refused", "usage", "keys", "crashed", "main"}
  /\ given \in CommandLines
  /\ timeout \in Timeouts \cup {ClientTimeout, Default}
  /\ clock \in Nat
  /\ TypeOK

Budget == IF Reconnections < 1 THEN 1 ELSE Reconnections

\* The two options that limit the patience of the program do so together: it takes
\* no longer than each attempt, with all its deadlines, and the pauses between the
\* attempts, however the attempts nest and go on.  (The name lookup and the end of
\* a TLS connection have no deadline, and are not counted.)
TimeIsBounded ==
  LET PerAttempt == Deadlines("connect") + Deadlines("send") +
                    IF given.method = "transaction" THEN Deadlines("block") ELSE 0
  IN  clock <= Budget * PerAttempt * Asked + (Budget - 1) * OptTimeout

StepsLeft == (IF stage = "options" THEN 1 ELSE 0) + CallStepsLeft

\* There is no way round: whatever is on the command line, however the server and
\* the library answer, and although a failed call goes on after its retry, each
\* step takes from the steps that were left, a number known from the start.
NoEndlessRetries == [][StepsLeft' \in 0..(StepsLeft - 1)]_programVars

\* The program ends, whatever is on the command line and however the server
\* behaves.
ProgramEnds == <>(stage \notin {"options", "main"} \/ status # "running")

=============================================================================
