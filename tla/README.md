# Verification of the MILE JSON-RPC client

TLA+ modules, TLC configurations and TLAPS proofs for `mile-csa-jsonrpc-client`:
a C++ library that speaks JSON-RPC over HTTP(S) to a node of the MILE
blockchain, and two command-line programs built on it. Paths below are relative
to the root of the repository.

Model-check with `tlc -config X.cfg M` (the pairs are in section 3), prove with
`tlapm M.tla` for each `M` whose name ends in `Proofs`.

## 1. Inventory

The program has one thread. What makes it hard is the event loop inside each
blocking call, the deadline that may expire at any moment, a peer that may
answer late, never or nonsense, error handlers that exit or start the whole
work again from inside the call that failed, and values (urls, keys, options)
that are cut, copied and compared by hand on their way.

| Component | State | Operations | Correct when |
|---|---|---|---|
| `http::Session` (`src/milecsa_rpc_session.cpp`, `include/milecsa_rpc_session.hpp`) | socket or TLS stream, `io_context`, `deadline` timer | constructor, `connect`, `write`, `read`, `wait_deadline`, `check_socket`, destructor | every call returns; the deadline gives each operation its whole timeout; no completion handler outlives its call; the loop never runs out of work |
| `RpcSession::request` (same file), `http::Client::get` (`src/milcesa_http.cpp`) | none of their own | write a request, read and classify the answer | the answer returned is the answer to this request; exactly one handler is called for a failure |
| `rpc::Client`, `http::Client` (`src/milecsa_jsonrpc.cpp`, `src/milcesa_http.cpp`) | a shared session, a copy of the url, two handlers | `Connect`, copy, assignment, destructor, `ping`, getters, `get_current_block_id`, `send_transaction` | a session lives as long as a client has it; its requests come one at a time, and a handler finds it ready; a failure is an empty optional after a report |
| `IdCounter` (`include/milecsa_rpc_id.hpp`) | one counter | `get_next` | a request has an id of its own; nothing reads one that comes back |
| `Client::call` and the transactions (`src/milecsa_jsonrpc_call.cpp`) | counters of `generate_trx_id` | dispatch by name, parameter checks, block id, creating and sending five kinds of transaction | nothing incomplete is sent, transactions are numbered apart, no failure is silent |
| `Url` (`src/milecsa_url.cpp`) | parts of a url | `Parse`, copies | a session is made for the server, port and path that the url names |
| `mile_cli_wallet` (`mile_cli_wallet/mile_cli_wallet.cpp`) | options, `reconnections` | command line, one call by name, with retries | bounded retries in bounded time; exit status 0 can be believed; one result |
| `mile_cli_transfer` (`mile_cli_wallet/mile_cli_transfer.cpp`) | options, `reconnections` | command line, one transfer, with retries | bounded retries; no transfer of unknown fate is repeated; nothing sent that was not asked for, and nothing after success |
| `getpasswd` and the prompts (same file) | private key, mode of the terminal | three prompts, character by character | the key is valid; the terminal gets its echo back |

**Interaction.** The programs call `Client::Connect`, which parses the url, makes
a session and connects it; then `Client::call` or the getters, each of which is
one `RpcSession::request`, which is one `write` and one `read` of the session.
Copies of a client share its session. Errors go the other way, by callbacks on
the stack of the call that failed: `error_handler(code)` for failures of the
program's own side, `response_fail_handler` for answers without a result. The
handlers of the two programs may call `exit` or `do_request` again.

**Hard behaviours.** The timer runs on while no loop runs, and its handler may be
queued when the next call restarts it; operations complete in the same instant
as the deadline closes the socket; answers arrive after the request has timed
out, and no id is compared; a read leaves part of what was sent on the
connection; retries nest, and what failed below goes on after them; handlers
use the clients they are called from; optionals are dereferenced unchecked.
`PROJECT.json` lists these as hazards, line by line.

## 2. Modules

| Module | Models | Proofs |
|---|---|---|
| `Session` | one session and the requests made on it | `SessionProofs` |
| `RpcChannel` | abstract: what a session promises to the code above it | |
| `SessionChannel` | the refinement mapping from `Session` to `RpcChannel` | `SessionChannelProofs` |
| `Clients` | client objects, the sessions they share, calls inside handlers; each session is used through `RpcChannel` | `ClientsProofs` |
| `ClientCall` | `Client::call`, the transactions, `generate_trx_id` | `ClientCallProofs` |
| `Url` | from the string of a url to what a session is made with | `UrlProofs` |
| `RetryPromise` | abstract: what both programs promise to the person who starts them | |
| `Retry` | the recursion of `do_request` and `error_handler`, common to both programs | `RetryProofs` (lemmas) |
| `CliTransfer`, `CliWallet` | what the two programs do from `do_request` on | |
| `KeyPrompt` | `getpasswd`, the terminal, and the three tries of `main` | |
| `TransferProgram` | all of `mile_cli_transfer`: command line, `KeyPrompt`, `CliTransfer` | `TransferProofs` |
| `WalletProgram` | all of `mile_cli_wallet`: command line, time, `CliWallet` | `WalletProofs` |
| `MCKeyPrompt`, `MCTransferProgram` | the keys of the instances that are checked | |

An operator marked *seeded fault* is no behaviour of the program. It stands in
front of a definition, with the same parameters, and is that definition with a
plausible bug; putting it in its place makes a property fail. `PROJECT.json`
pairs every property with one.

### 2.1 Session

`pc` is the call the thread is in: the four *loops* `connect`, `handshake`,
`write`, `read` (places where `do ioc.run_one(); while (ec == would_block)`
runs), `idle` between requests, `shutdown` in the destructor, and `new`,
`failed`, `destroyed`. `ec` is the local variable of the call that its completion
handler stores into. `ready` is the queue of the `io_context`, `waiting` says
that `deadline.async_wait` is pending in the timer queue, `pending` that the
asynchronous operation is with the reactor.

* *Thread*: `ResolveFails`, `ServerNameFails`, `Connect`, `Request`, `DumpThrows`,
  `Destroy` start a call or end it before its loop; `ConnectReturns`,
  `HandshakeReturns`, `WriteReturns`, `ReadReturns` are what follows a loop.
  `StartOperation` is the preamble they share: `expires_from_now` (which cancels
  the pending wait and thereby queues its handler, but cannot recall a handler
  that is queued already), `ec = would_block`, `async_...`.
* *Handlers*: `RunOne` runs the oldest queued handler, `wait_deadline` or the
  completion handler.
* *Reactor*: `TimerFires`, `ConnectCompletes`, `HandshakeCompletes`,
  `WriteCompletes`, `ReadCompletes` queue handlers. This is boost, modelled from
  how the code uses it: a closed socket completes the pending operation with
  `operation_aborted`; an operation on a closed socket completes at once with an
  error.
* *Environment*: `ServerAnswers` (a result, JSON without a result, a body that is
  no JSON, another status, an interim response before the result, no HTTP at
  all), `PeerDrops`, `Tick`.

Time is kept as what is left: `deadline` counts down and `elapsed`, a history
variable, counts up to `Timeout`. `Tick` is enabled in every state, also when no
loop runs, so that a deadline can expire between requests.

A read of an interim (1xx) answer, or one that does not parse, may leave the rest
on the connection (`Rest`); the history variable `leftover` records it. The code
goes on using such a connection.

The two clients differ in one respect: which answers are values and what is
reported for the others (`IsValue`, `AnswerReport`). A parse error derives from
`std::exception`, so that `request` reports it as `FAIL`; its clauses for
`EXCEPTION` behind that one are never reached and are not modelled.

### 2.2 RpcChannel, SessionChannel

`RpcChannel` knows no timer, no socket and no queue. It promises: a request is
received at most once and only during its call; a call returns the answer to its
own request, or, once the rest of an answer was left behind, the answer to some
request that was received; a channel that broke never gives another answer;
every call returns. `SessionChannel` maps `pc` to the state of the channel and
calls it broken once the socket of a session in use is closed.

### 2.3 Clients

`held` says for each variable of the program which session its client has; a
session dies with its last client (`Release`, the `shared_ptr`). `std::move` of a
member of a constant client copies it, so that a client that was moved from has
its session still (`Copy`). `stack` holds the calls that have not returned. A call
that fails is in its handler, and only then, or with an empty stack, may the
program do something: connect, copy, assign, destroy, or make requests, on the
same session too. The handler does not destroy or overwrite the client whose call
it is called from; that would be a use of freed memory by the program, not by
the library. The actions that end a call are
those of `RpcChannel`, written once more for a session among several; that each
session is used as a channel allows is the property `UsedAsAChannel`.

### 2.4 ClientCall

A call chooses a method and, for each key the method looks at, what the parameter
holds: nothing, a number, a string, or a string that means nothing (`bad`). `Checks`
gives the keys in the order in which the dispatch, `get_private`, `get_asset` and
the transaction itself look at them; `Late` are those that are converted only
when the transaction is made. The session is one step, `Query` or `Send`: a
result, or none after a report, which is what `OneReportPerRequest` of `Session`
establishes. `send-emission` is compiled in.

Undefined behaviour is a choice among what a build can do. `*optional` without a
value and `->get_body()` of nothing: an assertion of the library stops the
program (`crashed`), or it goes on with whatever is there (`garbage`).
`params["id"]` of a constant object without that key: stopped, or an exception.

### 2.5 Url

A url is its scheme and a sequence of tokens: the delimiters one by one, a blank,
and the words between them. `Group2` to `Group6` are the groups of the regular
expression of `Parse`; `Matches` is that it matches as a whole. `Port` is what
`std::stoi` with base 0 makes of the port (`Readings`: octal, hexadecimal, the
beginning of a word, a number out of range, none). `CopyOf` and `Assigned` are the
two copies written by hand, `SessionOf` is what the two clients give to a session.

`Host`, `PortText`, `Path`, `Query` and `Fragment` say what a url means, defined by the
first occurrence of a delimiter and without the regular expression.
`ReachesWhatTheUrlNames` compares both, for urls whose authority ends at a slash
or with the text and whose port is a decimal number or empty (`Conventional`). For
others it would not hold: of `http://host?query` the code takes all as the host.

### 2.6 Retry, CliTransfer, CliWallet, RetryPromise

`frames` is the stack of `do_request`s, by the place each is at; `error_handler`
runs on top of the failed one, and `HandlerRetries` pushes a new one, below which
the failed one waits at the place where it will go on. `Handle` is the program's
own `error_handler`. The calls below are seen through the codes they report
(`Connect`, `GetBlock`, `Send`); `accepted` counts transfers the node accepted,
which the program cannot see. `OneResult` is about queries only: a transaction
whose request for the block id failed goes on after the retry has sent it, with a
block id it does not have, and may be sent and printed twice.

`RetryPromise` has no stack: a program asks the server, at most as often as the
option says, again only after an answer, and never after a printed one.

### 2.7 KeyPrompt, TransferProgram

`pc` is where `main` is with the key; `pw` is `opt_private`, `idx` the local of
`getpasswd` that is never counted up. The user types, ends the input or sends a
signal at any time; each `tcsetattr` may fail. `TransferProgram` puts the command
line before it: `given` holds what each option is, as far as the program tells
values apart, `ParseCmdline` decides between the exits and `main`. The `stage`
"main" is first `KeyPrompt`, then, once `HasKey`, `CliTransfer`.

### 2.8 WalletProgram

`ParseCmdline` in the order of the tests in `parse_cmdline`, with `--wallet`; then
`CliWallet`. `clock` adds, at each step, the deadlines that the step may use up
one after the other (`Deadlines`) and the pause before a retry: the longest the
program may have taken. `--timeout` defaults to the initial value of
`opt_reconnections`, as in the code.

## 3. Runs

| Run | Module, configuration | Instance | Shows |
|---|---|---|---|
| `session` | `SessionChannel`, `SessionChannel.cfg` | `Timeout` 2, `MaxRequests` 3; 141,078 states | `TypeOK`; `OneDeadlineWait`: one wait of the timer, always; `NoDanglingHandler`; `AnswerIsForThisRequest`: late answers are never taken for later ones; `OneReportPerRequest`; `NoEarlyTimeout`: no deadline of an earlier operation cuts a later one short; `NeverWaitsInVain`: a call that waits has a completion or a deadline to wait for; `NoBusyWait`: a call takes a fixed number of steps at most; `EveryCallReturns`; `ImplementsChannel`: `Session` implements `RpcChannel` with its liveness |
| `clients` | `Clients`, `Clients.cfg` | 3 names, 2 sessions, 2 requests on each, 3 open calls; 376,354 states | `LivesWhileHeld`: a session lives exactly as long as a client has it; `ReadyWhileProgramRuns`: a handler, also of a handler, finds every session ready, that of the request that failed included; `UsedAsAChannel`: also from inside handlers |
| `client_call` | `ClientCall`, `ClientCall.cfg` | two calls, two seconds; 15,224 states | `SentIsComplete`, `DistinctSeeds`, `ReportsTellTheResult`, `OneReportPerCall`: but for a transaction without a block id, a call fails once |
| `url` | `Url`, `Url.cfg` | texts of up to 6 tokens of 5 delimiters and 4 words; 2,146,078 states | `ReachesWhatTheUrlNames`, `AcceptsWhatItCanReach`: no conventional url is refused; `PortNeverWraps` |
| `cli_transfer` | `MCTransferProgram`, `TransferProgram.cfg` | `Reconnections` 4, keys of 2 characters, 3 typed at each prompt; 798,000 states | `NothingSentUnasked`, `RunsWithAKey`, `EchoRestored`, `AttemptsBounded`, `FailureIsHonest`, `NothingAfterSuccess`, `KeepsThePromise`: it implements `RetryPromise`, `NoEndlessRetries`: every step uses up what bounds the program, `ProgramEnds` |
| `cli_wallet` | `WalletProgram`, `WalletProgram.cfg` | `Reconnections` 4, `Timeouts` {0, 1, 5}; 21,848 states | `AttemptsBounded`, `ExitZeroMeansPrinted`, `TimeIsBounded`, `KeepsThePromise`, `NoEndlessRetries`, `ProgramEnds` |
| `client_call_block` | `ClientCall`, `ClientCallBlock.cfg` | as `client_call`, violated | `SentWithCurrentBlock` |
| `client_call_examples` | `ClientCall`, `ClientCallExamples.cfg` | as `client_call`, violated | `ExamplesAccepted` |
| `url_fragment` | `Url`, `UrlFragment.cfg` | up to 4 tokens, violated | `FragmentIsKept` |
| `key_prompt_backspace` | `MCKeyPrompt`, `KeyPromptBackspace.cfg` | violated | `BackspaceErases` |
| `cli_transfer_spend` | `CliTransfer`, `CliTransferSpend.cfg` | `Reconnections` 3, violated | `NoDoubleSpend` |
| `cli_wallet_reconnect` | `CliWallet`, `CliWalletReconnect.cfg` | `Reconnections` 3, violated | `ReconnectsAfterAnyError` |

**Bounds.** `Timeout = 2` lets a tick fall before and after each step of an
operation; the proofs show that its value does not matter. Three requests are
needed, not two: a rest left by the first is read by the second, and the answer
to the second by the third. Two calls of `ClientCall` suffice because nothing
survives a call but the counter and the clock; two seconds give transactions in
the same and in following seconds. Three variables and two sessions give a client
that is overwritten by one with another session or with the same one, and a
session that outlives the client it was made for; a depth of three gives a request
from inside a request from inside a request, on the same session and on the other. Six tokens hold a host, a port,
a path and the beginning of a query. Three characters at a prompt are one more
than a key has, and a prompt has room for four. Four attempts give a retry
within a retry within a retry, each failing at a different place. Every bound is
a constant; the theorems of section 4 are for all of its values.

**Deadlock** is not checked: a session that failed or was destroyed, a program
that has exited or crashed, an application that has made all its calls, and a
url that was refused or used really stop.

**Fairness.** `Session` assumes that the thread runs the handlers that are queued
(`RunOne`), goes on after a loop (`Returns`), that the reactor reports an expired
timer (`TimerFires`) and that time passes (`Tick`). Nothing is assumed of the
peer, the network or the application, not even that a write completes. `Clients`
assumes that a call ends (`EndOfCall`), which is `EveryCallReturns` of `Session`,
and nothing of the program above. The two programs assume that their own steps
are taken (each contains blocking calls, which return); nothing is assumed of the
user, so that `ProgramEnds` of `TransferProgram` is about users who end each
prompt. Two calls are outside of this: the synchronous `resolve()` of `connect`
and the TLS `shutdown()` of the destructor have no deadline in the code; the
first is one step of the model, the second may take forever (`ShutdownReturns`
has no fairness).

**Violations.** Each contradicts a text of the repository.

1. `SentWithCurrentBlock`: every transaction dereferences the optional block id
   unchecked and ignores a block id that is no number.
2. `ExamplesAccepted`: `{"id":1}` and `"amount": "100"`, the examples in the help,
   throw when they are converted.
3. `NoDoubleSpend`: an answer that is not JSON is `FAIL`, and `FAIL` makes
   `mile_cli_transfer` transfer again, with a new block id and a new trx id.
4. `ReconnectsAfterAnyError`: `TIMEOUT` and the other codes end `mile_cli_wallet`
   at once, and `FAIL` is retried one time less than the option says.
5. `FragmentIsKept`: the copies of `Url` forget `fragment_`, and `Parse` returns a copy
   (`src/milecsa_url.cpp:26`).
6. `BackspaceErases`: `getpasswd` appends characters without counting them, and its
   backspace is only for a count above 0 (`mile_cli_wallet/mile_cli_transfer.cpp:185`).

## 4. Proofs

Every theorem is for all values of the constants. The assumptions are the named
`ASSUME`s of the modules: bounds are natural numbers, `Reconnections` is an integer
(negative ones too), `Timeouts` are natural numbers (see section 5), the watched session is a
session, and keys are sequences of characters. TLC evaluates them on each run.
Each module proves that its inductive invariant is true initially and kept by
every step, with a lemma for each group of actions, and derives the rest.

**`SessionProofs`** (`TypeCorrect`, `Invariance`, `LoopNeverStarves`: `OneDeadlineWait`,
`HandlersEndWithTheirCall`: `NoDanglingHandler`, `OwnAnswers`:
`AnswerIsForThisRequest`, `FullTimeout`: `NoEarlyTimeout`, `WaitsEnd`: `NeverWaitsInVain`,
`CallsAreShort`: `NoBusyWait`). None of these properties is inductive. `IInv` is `TypeInv`; `LoopInv` (one wait of the timer, and one completion
of the operation, with the reactor or in the queue, only while the loop runs);
`ClockInv` (unless the timer is off, `deadline + elapsed = Timeout`: why a handler of an
earlier wait, run late, finds the timer not expired); and `WireInv` (until a read
leaves a rest behind, an open connection carries nothing between calls, and
during a call only the latest request or its answer). The last one is what
replaces the comparison of ids: a call that gives up either closed the socket
or saw an error of a peer that is gone or of an answer that was consumed.

The last two theorems are what the code itself contributes to `EveryCallReturns`,
for every `Timeout`. A call that waits has its completion in the queue, or its
operation pending under a deadline that is set and has a waiter (`Armed`, with
`LoopInv`). `StepsLeft` counts what a call can still do, in this loop and the next:
ticks until the deadline, how often `wait_deadline` can be queued or run (twice,
and once more for a stale handler), the completion, and the return. Each step of
the thread, the event loop and the clock makes it smaller, no step of the peer
makes it larger, and it begins at `2 * (Timeout + 6)` at most. It rests on
`ClockInv`, and on `wait_deadline` disarming the timer (`Disarm`): an expired timer
that is left armed is waited for again, and reported at once, for ever. What
fairness adds is only that a thread which has something to do goes on.

**`SessionChannelProofs`** (`FullInvariance`, `OneReport`: `OneReportPerRequest`,
`SessionIsAChannel`: each step of `Session` is a step of `RpcChannel` or leaves it
alone). `SeenInv` adds that whatever is on the wire or was read answers a request
that was received, `ReportInv` that nothing is reported before the end of a call.

**`ClientsProofs`** (`Invariance`, `TypeCorrect`, `SessionsLiveWhileHeld`,
`HandlersFindSessionsReady`: `ReadyWhileProgramRuns`, `SessionsAreChannels`: each step of
`Clients` is, for any one session, a step of `RpcChannel` or leaves it alone). `StackInv` is the heart of it: all the calls but
the last one are in a handler, and only the session of the last one is in use;
so a handler can not start a request in the middle of another one.

**`ClientCallProofs`** (`Invariance`, `TypeCorrect`, `CompleteTransactions`:
`SentIsComplete`, `SeedsAreDistinct`, `FailuresAreReported`: `ReportsTellTheResult`,
`CallsReportOnce`: `OneReportPerCall`). `PathInv` says which checks
have been passed at each place, `SeedInv` that the seeds rise and stay below
`now + trx_counter`: time and counter only grow, and one of them grows each time.
`FewInv` follows the reports of a call: none before the block id has been asked
for, and after that one only if the id is `garbage`; every later report ends the call.

**`UrlProofs`** (`Invariance`, `UrlsAreTyped`, `PortsAreNeverCut`,
`SessionsReachWhatTheUrlNames`, `ConventionalUrlsAreTaken`: `AcceptsWhatItCanReach`), for
texts of any length over any words. The
lemmas give where each operator cuts, as an index into the text: `FirstStop` (there
is a first delimiter; by the well-foundedness of strict subsets, as there is no
induction), `CutAt`, `CutPartAt`, `SkipAt`. `Groups` puts the groups of the expression
side by side, `NoBlank` shows that what matches has no blank, and
`GroupsAreWhatTheUrlNames` compares the ends of the groups with the first slash,
sharp, mark and colon. The invariant is that a parsed url is the one the groups
make (`ParsedUrl`), which both copies keep. That no conventional url is refused is
the other direction: a text without blanks that begins with a host matches, wherever
its parts are cut (`CutsInside`), and `TurnedAwayInv` says that only a url which does not
match, is for another protocol, or has an unusable port is turned away.

**`RetryProofs`** are lemmas for both programs: `BudgetInv`, that there is at
most one attempt more than errors were counted, that there are no more attempts than the option
says, and that the stack is never deeper than that.

**`TransferProofs`** (`Invariance`, `TypeInvariance`, `TypeCorrect`, `RetriesAreBounded`, `NeverResendsBlindly`,
`SendsWhatWasAsked`: `NothingSentUnasked`, `FailuresAreHonest`, `EchoIsRestored`,
`StarsAreHonest`: `OneStarEach`, `KeysAreValid`: `RunsWithAKey`,
`SuccessIsTheEnd`: `NothingAfterSuccess`, `ImplementsThePromise`, `RetriesRunOut`:
`NoEndlessRetries`). The `do_request`s below
the running one are at places from which nothing is sent and no error handled
(`StackInv`): this is why the recursion behaves like a loop. `SendInv` counts what was
sent against the attempts, `PromptInv` is about the key and the terminal, `StageInv`
keeps the decisions of the command line. The types need two facts of their own
(`TypeInv`): that `main` is in its prompts only while there is a try left, and that no
more is printed or accepted than was sent. `RetriesRunOut` is what bounds a
recursion without a loop: an attempt that is not made yet weighs more than all the
places of one, a `do_request` below the running one weighs its return, and the
prompts weigh three steps for each try. Only the characters of the user are free.

**`WalletProofs`** (`Invariance`, `TypeCorrect`, `RetriesAreBounded`, `NeverResendsBlindly`,
`ExitStatusIsHonest`: `ExitZeroMeansPrinted`, `QueriesPrintOnce`: `OneResult`,
`TimeStaysBounded`, `ImplementsThePromise`, `RetriesRunOut`: `NoEndlessRetries`). Here a `do_request` below
may still send: one that waits at `create` (`Waiting`). `SendInv` therefore counts what
was sent, those that wait, and what the running one owes against the attempts,
and `TimeInv` does the same with deadlines, one of which each step uses up. In
`RetriesRunOut` a `do_request` below weighs three steps, as it may go on to `send`.

**Model-checked only.** Liveness, because fairness (`WF`, and the `ENABLED` in it) is
beyond the prover: `EveryCallReturns`, `ProgramEnds`, and the liveness in
`ImplementsChannel` and `UsedAsAChannel`. Of the first two the part that is about the
code is proved: no wait in vain and no busy wait (`WaitsEnd`, `CallsAreShort`), and a
bound on the steps of each program (`RetriesRunOut`). Every invariant and every other
action property that a run checks is the statement of a theorem; of
the two refinements the initial states and the steps are (`SessionIsAChannel`,
`SessionsAreChannels`).

**Proved only.** Three invariants are in no run: `NoResendWhileUnknown` and `OneResult`,
which follow from `KeepsThePromise`, and `OneStarEach`.

## 5. Not modelled

* Keys, transactions, JSON, boost and OpenSSL are not in the repository; they
  appear as the outcomes this code can observe.
* Contents of results, texts, debug output, TLS verification (its callback only
  returns a flag).
* A handler that throws: the clauses at `src/milecsa_rpc_session.cpp:170` would catch
  what a handler throws from inside `connect`, and report a second error.
* The query of a url: it is kept in the `Url` and never sent; a session requests
  the path only. `ReachesWhatTheUrlNames` says that this is so; it does not say that
  it should be.
* Ports that `std::stoi` reads as octal or hexadecimal or up to their first other
  character (`080`, `0x50`, `80a`) are in `Readings` of `Url`, but no run uses them: no
  text says how a port is written.
* A negative `--timeout`. The option is a `time_t` and takes one; every deadline is
  then in the past. `TimeoutsAreNat` leaves it out.
* The ids of different sessions, which come from one counter: an id is sent, and
  nothing in the code reads one that comes back. In `Session` the id of a request is
  its number.
* What the network does after `write` has handed a request to the kernel: the
  request counts as received then, or never. It may arrive later, also after its
  call has returned; on the same connection it is still ahead of any later one.
* Behind an empty optional that is dereferenced, whatever the build may do beyond
  what is said in 2.4.
* The limit on the length of a key: as characters are not counted it is never
  reached; what a longer key does to the library is not known here.
* A handler that destroys or overwrites the client it is called from.
* Numbers that are cut on the way of a JSON parameter (`src/milecsa_jsonrpc_call.cpp:188`
  and `:210`, and the limit at `:106`); no text says what is accepted. An amount that
  is not a number passes the test of `mile_cli_transfer` and is modelled.
* `rand()` without `srand`, which numbers the transfers of `mile_cli_transfer`:
  a model has no use for a fixed sequence.
* Threads: the library has no locks and its examples one thread.
* A clock that is set back and two processes in the same second, for
  `DistinctSeeds`.
* The tests, which need a live node, the build files and the documentation.

## 6. Plan

Done, in this order: `Session`, `RpcChannel` and `SessionChannel` with their proofs;
`ClientCall`; `Retry` with `CliTransfer` and `CliWallet`; `Url`; `KeyPrompt`; `Clients` over
`RpcChannel`; `RetryPromise`; the two programs as a whole; the proofs of all of these.

Next:

1. `ClientCall` over `Clients`: a call as a sequence of requests on a shared session,
   so that the reports of a call follow from those of the session without the
   argument in 2.4.
2. `CliWallet` over `ClientCall`, in the same way.
3. Several sessions in one model of the event loop, with the deadline of one
   expiring while a handler runs on another (today each is seen through
   `RpcChannel`, whose steps may interleave).
