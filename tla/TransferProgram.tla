-------------------------- MODULE TransferProgram ----------------------------
(***************************************************************************)
(* mile_cli_transfer as a whole: the command line, then the private key    *)
(* (module KeyPrompt), then the transfer with its retries (CliTransfer).   *)
(*                                                                         *)
(* An option is seen through the classes of its values that the program    *)
(* tells apart; "absent" is an option that is not given.                   *)
(***************************************************************************)
EXTENDS KeyPrompt, CliTransfer

VARIABLES
  stage,   \* "options"; "refused" (exit 1), "usage" (exit 0), or "main"
  given    \* the command line

main == <<stage, given>>
programVars == <<main, promptVars, vars>>

(***************************************************************************)
(* The command line.                                                       *)
(***************************************************************************)
\* What lexical_cast makes of --asset, an unsigned short of which 100 stands for
\* none; it throws for a number of more than 16 bits, but not for a minus sign.
AssetCode == [absent |-> 100, XDR |-> 0, MILE |-> 1, hundred |-> 100, minusOne |-> 2^16 - 1]
Assets == DOMAIN AssetCode \cup {"tooLarge"}

Amounts == {"absent", "positive", "zero", "negative", "nan"}

CommandLines == [
  known : BOOLEAN,             \* all options exist and have values
  help : BOOLEAN, test : BOOLEAN, debug : BOOLEAN,
  to : BOOLEAN,                \* --to is given, and not as ""
  asset : Assets,
  amount : Amounts,
  private_key : {<<>>} \cup Keys \cup {<<c>> : c \in Chars},
  url : {"good", "unsupported", "throws"}]

ProgramInit ==
  /\ stage = "options"
  /\ given \in CommandLines
  /\ PromptInit /\ pw = <<>>
  /\ Init /\ ~test /\ url = "good"

\* The options that cannot be stored, or have no such values, are an exception.
Malformed == ~given.known \/ given.asset = "tooLarge"

\* Whatever is not greater than zero is refused, or so it reads.
NotPositive == given.amount \in {"absent", "zero", "negative"}

AsksForUsage ==
  \/ given.help
  \/ ~given.to
  \/ AssetCode[given.asset] = 100
  \/ NotPositive

\* --test is looked at only if --debug is not there.
TestOptionElse == given.test /\ ~given.debug                   \* seeded fault

TestOption == given.test

\* parse_cmdline.  The values are stored before it decides; the flags are not.
ParseCmdline ==
  /\ stage = "options"
  /\ IF Malformed
       THEN stage' = "refused" /\ UNCHANGED <<pw, url, test>>
       ELSE /\ stage' = IF AsksForUsage THEN "usage" ELSE "main"
            /\ pw' = given.private_key
            /\ url' = given.url
            /\ test' = IF AsksForUsage THEN FALSE ELSE TestOption
  /\ UNCHANGED <<given, pc, idx, tries, echo, old_kbd_mode, returned, shown, typed, meant, lost,
                 frames, status, reconnections, attempts, answered, accepted, printed>>

\* The key is found: what follows is the loop.
HasKey == pc = "run"

FindKey == stage = "main" /\ ~HasKey /\ Program /\ UNCHANGED <<main, vars>>

UserTypes == stage = "main" /\ ~HasKey /\ User /\ UNCHANGED <<main, vars>>

Transfer == stage = "main" /\ HasKey /\ Next /\ UNCHANGED <<main, promptVars>>

ProgramNext == ParseCmdline \/ FindKey \/ UserTypes \/ Transfer

\* The program runs; the user may leave it waiting.
ProgramSpec ==
  ProgramInit /\ [][ProgramNext]_programVars /\ WF_programVars(ParseCmdline \/ FindKey \/ Transfer)

-----------------------------------------------------------------------------
(***************************************************************************)
(* Properties.                                                             *)
(***************************************************************************)
Ended == stage \in {"refused", "usage"} \/ pc \in {"exit -1", "killed"} \/ status # "running"

ExitedWithFailure == stage = "refused" \/ pc = "exit -1" \/ status = "exit -1"

\* Every variable has its type.
ProgramTypeOK ==
  /\ stage \in {"options", "refused", "usage", "main"}
  /\ given \in CommandLines
  /\ PromptTypeOK
  /\ TypeOK

\* A transfer leaves the program only if all of it was on the command line, with
\* a valid key typed or given, and never with --test, whatever else was given, and
\* however the retries went.  (An amount that is not a number is not noticed.)
NothingSentUnasked ==
  answered # <<>> =>
    /\ given.known /\ given.to
    /\ given.asset \in {"XDR", "MILE", "minusOne"}
    /\ given.amount \in {"positive", "nan"}
    /\ pw \in Keys
    /\ ~given.test

\* A program that exits with 1 or -1 has not printed the receipt of a transfer; in
\* particular no retry that is still open fails after the one that succeeded.
FailureIsHonest == ExitedWithFailure => printed = 0

\* The same for the prompts: three for each of them, and the first look at the key.
PromptStepsLeft ==
  CASE pc = "start"    -> 10
    [] pc = "prompt"   -> 3 * (3 - tries)
    [] pc = "read"     -> 3 * (3 - tries) - 1
    [] pc = "validate" -> 3 * (3 - tries) - 2
    [] OTHER           -> 0

StepsLeft == (IF stage = "options" THEN 1 ELSE 0) + PromptStepsLeft + CallStepsLeft

\* There is no way round: whatever is on the command line, however the server and
\* the library answer and the tries nest, each step takes from the steps that were
\* left, a number known from the start; only characters and backspaces, which the
\* user may type for ever, do not.
NoEndlessRetries ==
  [][StepsLeft' \in 0..(StepsLeft - IF typed' > typed THEN 0 ELSE 1)]_programVars

\* If the user ends every prompt, the program ends: the three tries and the
\* attempts to transfer do not start each other over.
ProgramEnds == []<>(pc # "read") => <>Ended

=============================================================================
