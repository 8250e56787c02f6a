------------------------------ MODULE KeyPrompt ------------------------------
(***************************************************************************)
(* How mile_cli_transfer gets the private key: main takes it from the      *)
(* command line, or asks for it up to three times with getpasswd, which    *)
(* switches the echo of the terminal off, reads characters one by one,     *)
(* shows a star for each, and switches the echo on again.                  *)
(*                                                                         *)
(* The user and the terminal are the environment: any character may be     *)
(* typed at any time, the input may end, each call that changes the mode of *)
(* the terminal may fail, and the program may be interrupted.              *)
(***************************************************************************)
EXTENDS Integers, Sequences

CONSTANTS
  Chars,      \* characters of keys; backspace, newline and the end are others
  Keys,       \* the private keys that ValidatePrivateKey accepts
  Size,       \* sz, that is, ePrivateKeySize
  MaxTyped    \* bound: how many characters and backspaces are typed at a prompt

ASSUME CharsAreNoKeys == Keys \subseteq Seq(Chars) /\ "nul" \notin Chars
ASSUME SizeIsPositive == Size \in Nat \ {0}
ASSUME MaxTypedIsNat == MaxTyped \in Nat

VARIABLES
  pc,         \* "start", "prompt", "read", "validate", "run", "exit -1", "killed"
  pw,         \* opt_private
  idx,        \* the local idx of getpasswd
  tries,      \* prompts so far, the j of main
  echo,       \* the terminal echoes and edits lines
  old_kbd_mode,  \* what echo was when getpasswd looked
  returned,   \* what getpasswd returned last
  shown,      \* stars on the screen, of this prompt
  (* History. *)
  typed,      \* characters and backspaces of this prompt
  meant,      \* what is left of them when a backspace erases a character
  lost        \* a failure left the terminal without echo

terminal == <<echo, old_kbd_mode, lost>>
promptVars == <<pc, pw, idx, tries, terminal, returned, shown, typed, meant>>

PromptInit ==
  /\ pc = "start"
  /\ pw \in {<<>>} \cup Keys \cup {<<c>> : c \in Chars}
  /\ idx = 0
  /\ tries = 0
  /\ echo = TRUE
  /\ old_kbd_mode = TRUE
  /\ returned = 0
  /\ shown = 0
  /\ typed = 0
  /\ meant = <<>>
  /\ lost = FALSE

\* main: a key of the command line is validated at once, and there is no prompt.
Start ==
  /\ pc = "start"
  /\ pc' = IF pw = <<>> THEN "prompt" ELSE IF pw \in Keys THEN "run" ELSE "exit -1"
  /\ UNCHANGED <<pw, idx, tries, terminal, returned, shown, typed, meant>>

\* tcgetattr, then tcsetattr.
EchoOffThenSaved ==                                            \* seeded fault
  /\ echo' = FALSE
  /\ old_kbd_mode' = FALSE

EchoOff ==
  /\ echo' = FALSE
  /\ old_kbd_mode' = echo

\* getpasswd up to its loop.  Without a terminal, or one whose mode cannot be
\* set, it returns -1.
Getpasswd ==
  /\ pc = "prompt"
  /\ pw' = <<>>
  /\ idx' = 0
  /\ shown' = 0
  /\ typed' = 0
  /\ meant' = <<>>
  /\ \/ pc' = "read" /\ EchoOff /\ UNCHANGED returned
     \/ pc' = "validate" /\ returned' = -1 /\ UNCHANGED <<echo, old_kbd_mode>>
  /\ UNCHANGED <<tries, lost>>

\* A character is kept, and idx is not counted up.
Character(c) ==
  /\ pc = "read" /\ idx < Size - 1 /\ typed < MaxTyped
  /\ pw' = Append(pw, c)
  /\ shown' = shown + 1
  /\ typed' = typed + 1
  /\ meant' = Append(meant, c)
  /\ UNCHANGED <<pc, idx, tries, terminal, returned>>

\* A backspace takes the last star back and overwrites the character at idx, if
\* there is one: never, as idx is 0.
Backspace ==
  /\ pc = "read" /\ typed < MaxTyped
  /\ IF idx > 0
       THEN /\ shown' = shown - 1
            /\ idx' = idx - 1
            /\ pw' = [pw EXCEPT ![idx] = "nul"]
       ELSE UNCHANGED <<shown, idx, pw>>
  /\ typed' = typed + 1
  /\ meant' = IF meant = <<>> THEN meant ELSE SubSeq(meant, 1, Len(meant) - 1)
  /\ UNCHANGED <<pc, tries, terminal, returned>>

\* A newline, the end of the input, or a character where idx is Size - 1 ends
\* the loop.  Then the mode is restored, or that fails.
EndOfLine ==
  /\ pc = "read"
  /\ pc' = "validate"
  /\ \/ echo' = old_kbd_mode /\ returned' = idx /\ UNCHANGED lost
     \/ returned' = -1 /\ lost' = TRUE /\ UNCHANGED echo
  /\ UNCHANGED <<pw, idx, tries, old_kbd_mode, shown, typed, meant>>

\* main does not look at what getpasswd returned.
ValidateForEver ==                                             \* seeded fault
  /\ pc = "validate"
  /\ pc' = IF pw \in Keys THEN "run" ELSE "prompt"
  /\ UNCHANGED <<pw, idx, tries, terminal, returned, shown, typed, meant>>

ValidateLastOpen ==                                            \* seeded fault
  /\ pc = "validate"
  /\ tries' = tries + 1
  /\ pc' = IF pw \notin Keys /\ tries' < 3 THEN "prompt" ELSE "run"
  /\ UNCHANGED <<pw, idx, terminal, returned, shown, typed, meant>>

Validate ==
  /\ pc = "validate"
  /\ tries' = tries + 1
  /\ pc' = IF pw \in Keys THEN "run" ELSE IF tries' < 3 THEN "prompt" ELSE "exit -1"
  /\ UNCHANGED <<pw, idx, terminal, returned, shown, typed, meant>>

\* A signal ends the program at once.
Interrupt ==
  /\ pc = "read"
  /\ pc' = "killed"
  /\ UNCHANGED <<pw, idx, tries, terminal, returned, shown, typed, meant>>

Program == Start \/ Getpasswd \/ Validate

User == (\E c \in Chars : Character(c)) \/ Backspace \/ EndOfLine \/ Interrupt

PromptNext == Program \/ User

PromptSpec == PromptInit /\ [][PromptNext]_promptVars /\ WF_promptVars(Program)

-----------------------------------------------------------------------------
(***************************************************************************)
(* Properties.                                                             *)
(***************************************************************************)
\* Every variable has its type.
PromptTypeOK ==
  /\ pc \in {"start", "prompt", "read", "validate", "run", "exit -1", "killed"}
  /\ pw \in Seq(Chars)
  /\ idx \in 0..(Size - 1)
  /\ tries \in 0..3
  /\ echo \in BOOLEAN /\ old_kbd_mode \in BOOLEAN /\ lost \in BOOLEAN
  /\ returned \in -1..(Size - 1)
  /\ shown \in Nat
  /\ typed \in 0..MaxTyped
  /\ meant \in Seq(Chars)

\* The screen does not deceive: there is one star for each character of the key
\* that will be validated, whatever was erased, and none of an earlier prompt.
OneStarEach == pc \in {"read", "validate"} => shown = Len(pw)

\* Nothing is signed but with a valid key, from the command line or from one of
\* the prompts; the last prompt is no exception.
RunsWithAKey == pc = "run" => pw \in Keys

\* The terminal has its echo back whenever getpasswd has returned, unless it could
\* not be switched on again; then no later prompt switches it on, either.
EchoRestored == ~echo => pc \in {"read", "killed"} \/ lost

\* mile_cli_transfer.cpp, in getpasswd: "handle backspace (del)".
BackspaceErases == pc = "validate" => pw = meant

=============================================================================
