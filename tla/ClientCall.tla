----------------------------- MODULE ClientCall ------------------------------
(***************************************************************************)
(* rpc::Client::call and what it calls: the dispatch on the name of the    *)
(* method, the checks of its parameters, the requests to the server, and   *)
(* the making of transactions (transfer, emission, register_node,          *)
(* unregister_node, vote_for_rate).                                        *)
(*                                                                         *)
(* The session below is seen through what a request can come back with: a  *)
(* result, or nothing after a report to one of the two handlers (see       *)
(* OneReportPerRequest of module Session).  The handlers return.           *)
(*                                                                         *)
(* "Seeded fault" marks an operator of no behaviour of the program, as in  *)
(* module Session.                                                         *)
(***************************************************************************)
EXTENDS Integers, Sequences

CONSTANTS
  MaxCalls,     \* bound: how many calls are made
  MaxTime       \* bound: how far the clock, time(NULL), goes

ASSUME MaxCallsIsNat == MaxCalls \in Nat
ASSUME MaxTimeIsNat == MaxTime \in Nat

VARIABLES
  pc,           \* where the thread is in call()
  calls,        \* calls made so far
  method,       \* the method of the latest call
  params,       \* its parameters: what each key the method looks at holds
  block,        \* the block id the call has: "none", "current" or "garbage"
  reports,      \* codes the latest call gave to its handlers, in order
  result,       \* what it returned: "value", "nullopt" (in an any), or "none"
  sent,         \* the latest call has sent a transaction
  now,          \* time(NULL)
  trx_counter,  \* static _trx_counter of generate_trx_id
  seeds         \* the seeds the transactions were numbered from, in order

request == <<method, params>>
vars == <<pc, calls, request, block, reports, result, sent, now, trx_counter, seeds>>

(***************************************************************************)
(* Methods and their parameters.                                           *)
(***************************************************************************)
\* The names are those of the source with _ for -.
Getters == {"get_network_state", "get_nodes", "get_blockchain_info", "get_blockchain_state"}

\* The keys a method checks before it asks the server anything, in order.
Checks == [
  get_block               |-> <<"id">>,
  get_wallet_state        |-> <<"public-key">>,
  get_wallet_transactions |-> <<"public-key", "limit">>,
  send_transfer           |-> <<"to", "private-key", "amount", "asset-code", "description">>,
  send_emission           |-> <<"private-key", "asset-code">>,
  register_node           |-> <<"private-key", "amount", "address">>,
  unregister_node         |-> <<"private-key">>,
  vote_for_rate           |-> <<"private-key", "amount">>]

Transactions ==
  {"send_transfer", "send_emission", "register_node", "unregister_node", "vote_for_rate"}

Methods == Getters \cup DOMAIN Checks \cup {"ping", "get_current_block_id", "unknown"}

ChecksOf(m) == IF m \in DOMAIN Checks THEN Checks[m] ELSE <<>>
KeysOf(m) == {ChecksOf(m)[i] : i \in 1..Len(ChecksOf(m))}

\* A key is absent or holds a JSON number, a string, or a string that does not
\* mean what it should: a private key, a block number, a public key.
ValuesOf(k) ==
  {"absent", "number", "string"} \cup IF k \in {"id", "private-key", "to"} THEN {"bad"} ELSE {}

Params(m) == {p \in [KeysOf(m) -> UNION {ValuesOf(k) : k \in KeysOf(m)}] :
                \A k \in KeysOf(m) : p[k] \in ValuesOf(k)}

Mistyped(k) ==
  /\ params[k] # "absent"
  /\ (params[k] = "number") # (k \in {"amount", "asset-code", "limit"})

\* These are converted only when the transaction is made.
Late == {"to", "address"}

\* The check of key k ends the call.
StopsUnlessAmount(k) ==                                        \* seeded fault
  /\ k # "amount"
  /\ \/ params[k] = "absent" /\ k \notin {"limit", "description"}
     \/ Mistyped(k) /\ k \notin Late
     \/ params[k] = "bad" /\ k \notin Late

Stops(k) ==
  \/ params[k] = "absent" /\ k \notin {"limit", "description"}
  \/ Mistyped(k) /\ k \notin Late
  \/ params[k] = "bad" /\ k \notin Late

\* The codes of the library of keys and transactions, which is not in this
\* repository: it is handed the error handler and may call it with either.
LibraryCodes == {"FAIL", "EXCEPTION"}

\* The code that is reported for key k.
CodesOfRaw(k) == IF Mistyped(k) THEN {"EXCEPTION"} ELSE {params[k]}   \* seeded fault

CodesOf(k) ==
  IF Mistyped(k) THEN {"EXCEPTION"}
  ELSE IF params[k] = "absent" THEN {"NOT_FOUND"}
  ELSE IF k = "id" THEN {"FAIL"}
  ELSE LibraryCodes

\* What a request that brings no result has reported: session->request.
RequestCodes == {"TIMEOUT", "FAIL", "RESPONSE"}

Codes == RequestCodes \cup LibraryCodes \cup {"NOT_FOUND"}

Init ==
  /\ pc = "idle"
  /\ calls = 0
  /\ method = "unknown"
  /\ params = <<>>
  /\ block = "none"
  /\ reports = <<>>
  /\ result = "none"
  /\ sent = FALSE
  /\ now = 0
  /\ trx_counter = 0
  /\ seeds = <<>>

Call ==
  /\ pc = "idle"
  /\ calls < MaxCalls
  /\ calls' = calls + 1
  /\ \E m \in Methods :
        /\ method' = m
        /\ params' \in Params(m)
  /\ pc' = "check"
  /\ block' = "none"
  /\ reports' = <<>>
  /\ result' = "none"
  /\ sent' = FALSE
  /\ UNCHANGED <<now, trx_counter, seeds>>

\* The call returns r, after the reports in codes.
Returns(r, codes) ==
  /\ pc' = "idle"
  /\ result' = r
  /\ reports' = reports \o codes
  /\ UNCHANGED <<calls, request, now>>

(***************************************************************************)
(* Checks.                                                                 *)
(***************************************************************************)
\* The first key, in the order of the method, whose check ends the call.  A
\* missing or unusable one returns an any that holds a nullopt; a conversion
\* that throws is caught at the end of call(), which returns an empty any.
CheckFails ==
  /\ pc = "check"
  /\ \E i \in 1..Len(ChecksOf(method)) :
       LET k == ChecksOf(method)[i] IN
         /\ Stops(k)
         /\ \A j \in 1..(i - 1) : ~Stops(ChecksOf(method)[j])
         /\ k = "id" => params[k] # "absent"
         /\ \E code \in CodesOf(k) :
              Returns(IF Mistyped(k) \/ k = "id" THEN "none" ELSE "nullopt", <<code>>)
  /\ UNCHANGED <<block, sent, trx_counter, seeds>>

\* params["id"] of a constant object without that key is undefined: the
\* assertion of the JSON library stops the program, or what is read instead of
\* a value throws when it is converted.
NoBlockNumber ==
  /\ pc = "check"
  /\ method = "get_block"
  /\ params["id"] = "absent"
  /\ \/ pc' = "crashed" /\ UNCHANGED <<calls, request, reports, result, now>>
     \/ Returns("none", <<"EXCEPTION">>)
  /\ UNCHANGED <<block, sent, trx_counter, seeds>>

UnknownMethodSilent ==                                         \* seeded fault
  /\ pc = "check"
  /\ method = "unknown"
  /\ Returns("none", <<>>)
  /\ UNCHANGED <<block, sent, trx_counter, seeds>>

UnknownMethod ==
  /\ pc = "check"
  /\ method = "unknown"
  /\ Returns("none", <<"NOT_FOUND">>)
  /\ UNCHANGED <<block, sent, trx_counter, seeds>>

ChecksPass ==
  /\ pc = "check"
  /\ method # "unknown"
  /\ \A k \in KeysOf(method) : ~Stops(k)
  /\ pc' = IF method \in Transactions THEN "block" ELSE "query"
  /\ UNCHANGED <<calls, request, block, reports, result, sent, now, trx_counter, seeds>>

(***************************************************************************)
(* Queries.                                                                *)
(***************************************************************************)
\* get_current_block_id returns nothing, and reports nothing, for an empty
\* result, and throws for one that is not an object with a string in it.
Query ==
  /\ pc = "query"
  /\ \/ Returns("value", <<>>)
     \/ \E code \in RequestCodes : Returns("none", <<code>>)
     \/ /\ method = "get_current_block_id"
        /\ \E codes \in {<<>>, <<"EXCEPTION">>} : Returns("none", codes)
  /\ UNCHANGED <<block, sent, trx_counter, seeds>>

(***************************************************************************)
(* Transactions.                                                           *)
(***************************************************************************)
\* *client->get_current_block_id() is not checked.  Without a value (the
\* request failed, or its result was empty) that is undefined: the program is
\* stopped by an assertion of the library, or goes on with whatever is there.
\* A result that is not a number gives no block id either: the return value
\* of StringToUInt256 is ignored.
GetBlock ==
  /\ pc = "block"
  /\ \/ pc' = "create" /\ block' \in {"current", "garbage"} /\ UNCHANGED reports
     \/ /\ \E codes \in {<<>>} \cup {<<code>> : code \in RequestCodes} :
             reports' = reports \o codes
        /\ \/ pc' = "create" /\ block' = "garbage"
           \/ pc' = "crashed" /\ UNCHANGED block
  /\ UNCHANGED <<calls, request, result, sent, now, trx_counter, seeds>>

\* The result of get-current-block-id is not an object with a string in it.
GetBlockThrows ==
  /\ pc = "block"
  /\ Returns("none", <<"EXCEPTION">>)
  /\ UNCHANGED <<block, sent, trx_counter, seeds>>

\* generate_trx_id: srand(time(NULL) + _trx_counter++).
GenerateTrxIdStuck ==                                          \* seeded fault
  /\ seeds' = Append(seeds, now)
  /\ UNCHANGED trx_counter

GenerateTrxId ==
  /\ seeds' = Append(seeds, now + trx_counter)
  /\ trx_counter' = trx_counter + 1

\* The conversion of a late key throws.  The arguments of CreateRequest are
\* evaluated in any order: the transaction may have been numbered already.
CreateThrows ==
  /\ pc = "create"
  /\ \E k \in Late \cap KeysOf(method) : Mistyped(k)
  /\ \/ trx_counter' = trx_counter + 1
     \/ UNCHANGED trx_counter
  /\ Returns("none", <<"EXCEPTION">>)
  /\ UNCHANGED <<block, sent, seeds>>

\* The value() of nothing throws, and what has been reported is reported again.
CreateFailsTwice ==                                            \* seeded fault
  /\ pc = "create"
  /\ trx_counter' = trx_counter + 1
  /\ \E code \in LibraryCodes : Returns("none", <<code, "EXCEPTION">>)
  /\ UNCHANGED <<block, sent, seeds>>

\* The library reports and makes no transaction, for a destination that is no
\* public key or for a reason of its own; ->get_body() of nothing is undefined.
CreateFails ==
  /\ pc = "create"
  /\ \A k \in Late \cap KeysOf(method) : ~Mistyped(k)
  /\ trx_counter' = trx_counter + 1
  /\ \E code \in LibraryCodes :
       \/ Returns("none", <<code>>)
       \/ /\ pc' = "crashed"
          /\ reports' = Append(reports, code)
          /\ UNCHANGED <<calls, request, result, now>>
  /\ UNCHANGED <<block, sent, seeds>>

Create ==
  /\ pc = "create"
  /\ \A k \in Late \cap KeysOf(method) : ~Mistyped(k) /\ params[k] # "bad"
  /\ GenerateTrxId
  /\ sent' = TRUE
  /\ pc' = "send"
  /\ UNCHANGED <<calls, request, block, reports, result, now>>

Send ==
  /\ pc = "send"
  /\ \/ Returns("value", <<>>)
     \/ \E code \in RequestCodes : Returns("none", <<code>>)
  /\ UNCHANGED <<block, sent, trx_counter, seeds>>

\* The clock goes on; it is not set back.
Tick ==
  /\ now < MaxTime
  /\ now' = now + 1
  /\ UNCHANGED <<pc, calls, request, block, reports, result, sent, trx_counter, seeds>>

InCall ==
  \/ CheckFails \/ NoBlockNumber \/ UnknownMethod \/ ChecksPass \/ Query
  \/ GetBlock \/ GetBlockThrows \/ CreateThrows \/ CreateFails \/ Create \/ Send

Next == Call \/ InCall \/ Tick

Spec == Init /\ [][Next]_vars

-----------------------------------------------------------------------------
(***************************************************************************)
(* Properties.                                                             *)
(***************************************************************************)
\* Every variable has its type.
TypeOK ==
  /\ pc \in {"idle", "check", "query", "block", "create", "send", "crashed"}
  /\ calls \in 0..MaxCalls
  /\ method \in Methods
  /\ params \in Params(method)
  /\ block \in {"none", "current", "garbage"}
  /\ reports \in Seq(Codes)
  /\ result \in {"value", "nullopt", "none"}
  /\ sent \in BOOLEAN
  /\ now \in 0..MaxTime
  /\ trx_counter \in Nat
  /\ seeds \in Seq(Nat)

\* No transaction leaves the program without all that the user must say of it,
\* each of the right kind, however the five kinds of transaction divide the
\* checks between the dispatch, the helpers and the making of the request.
SentIsComplete ==
  sent => \A k \in KeysOf(method) :
            /\ params[k] = "absent" => k = "description"
            /\ ~Mistyped(k)
            /\ params[k] # "bad"

\* Two transactions of one process are never numbered from the same seed, also
\* when they are made in the same second, or in seconds that follow each other.
DistinctSeeds == \A i, j \in 1..Len(seeds) : seeds[i] = seeds[j] => i = j

\* One that returns no value has called a handler.  Only get-current-block-id may
\* return nothing without a word.
NoSilentFailure ==
  pc = "idle" /\ calls > 0 /\ result # "value" /\ method # "get_current_block_id"
    => reports # <<>>

\* A value is never returned after a report, except by a transaction, which goes
\* on after the request for the block id has failed.
ValueIsNotAFailure ==
  pc = "idle" /\ result = "value" /\ method \notin Transactions => reports = <<>>

\* A call fails loudly, and succeeds in silence: what it has reported and what it
\* returns say the same, whichever of its many ends it takes.
ReportsTellTheResult == NoSilentFailure /\ ValueIsNotAFailure

\* A call never fails twice over: it calls one handler, once, although requests,
\* helpers, the library and the catch clauses of call() all have the handler.
\* Only a transaction that goes on without a block id may call it once more; a
\* handler that retries retries for each of these calls.
OneReportPerCall ==
  Len(reports) > 1 =>
    Len(reports) = 2 /\ method \in Transactions /\ block = "garbage"

\* include/milecsa_jsonrpc.hpp: the current block id "is need to build any
\* transactions".
SentWithCurrentBlock == sent => block = "current"

\* The examples in the help of mile_cli_wallet, {"id": 1} for get-block and
\* "amount": "100" for send-transfer, are not refused.
Example ==
  \/ method = "get_block" /\ params["id"] = "number"
  \/ /\ method = "send_transfer"
     /\ params["amount"] = "string"
     /\ params["asset-code"] = "number"
     /\ \A k \in {"private-key", "to", "description"} : params[k] = "string"

ExamplesAccepted == Example => \A i \in 1..Len(reports) : reports[i] # "EXCEPTION"

=============================================================================
