-------------------------- MODULE ClientCallProofs ---------------------------
(***************************************************************************)
(* Proofs about ClientCall, for any number of calls and any time.          *)
(*                                                                         *)
(* The inductive invariant has, besides the types, a part for each of the  *)
(* properties: PathInv, what the checks have established at each place of  *)
(* a call; SeedInv, that all seeds used are below the next one; and        *)
(* ReportInv, that nothing has been reported yet by a call that is not a   *)
(* transaction.  FewInv, for which reports a transaction may have made at  *)
(* each of its steps, builds on it.                                        *)
(***************************************************************************)
EXTENDS ClientCall, SequenceTheorems, TLAPS

\* The checks have been passed, and the transactions told apart.
PathInv ==
  /\ pc \in {"query", "block", "create", "send"} => \A k \in KeysOf(method) : ~Stops(k)
  /\ pc \in {"block", "create", "send"} => method \in Transactions
  /\ pc = "query" => method \notin Transactions

SeedInv ==
  /\ \A i \in 1..Len(seeds) : seeds[i] < now + trx_counter
  /\ \A i, j \in 1..Len(seeds) : i < j => seeds[i] < seeds[j]

ReportInv == pc \in {"check", "query"} => reports = <<>>

IInv ==
  /\ TypeOK /\ PathInv /\ SeedInv /\ ReportInv
  /\ SentIsComplete /\ NoSilentFailure /\ ValueIsNotAFailure

-----------------------------------------------------------------------------
(***************************************************************************)
(* Lemmas.                                                                 *)
(***************************************************************************)
\* The code of a report; what is reported after something is something.
LEMMA Reported ==
  ASSUME NEW r \in Seq(Codes), NEW c \in Codes
  PROVE  /\ r \o <<c>> \in Seq(Codes) /\ r \o <<c>> # <<>>
         /\ r \o <<>> = r
<1>1. r \o <<c>> \in Seq(Codes) /\ Len(r \o <<c>>) = Len(r) + 1
  OBVIOUS
<1>2. r \o <<c>> # <<>>
  <2>1. Len(r \o <<c>>) # 0
    BY <1>1
  <2> QED
    BY <2>1, EmptySeq
<1>3. r \o <<>> = r
  BY ConcatEmptySeq
<1> QED
  BY <1>1, <1>2, <1>3

\* No transaction has a limit.
LEMMA NoLimit == ASSUME method \in Transactions PROVE "limit" \notin KeysOf(method)
<1>1. ChecksOf(method) = Checks[method]
  BY DEF ChecksOf, Checks, Transactions
<1>2. CASE method = "send_transfer"
  <2>1. ChecksOf(method) = <<"to", "private-key", "amount", "asset-code", "description">>
    BY <1>1, <1>2 DEF Checks
  <2> QED
    BY <2>1 DEF KeysOf
<1>3. CASE method = "send_emission"
  <2>1. ChecksOf(method) = <<"private-key", "asset-code">>
    BY <1>1, <1>3 DEF Checks
  <2> QED
    BY <2>1 DEF KeysOf
<1>4. CASE method = "register_node"
  <2>1. ChecksOf(method) = <<"private-key", "amount", "address">>
    BY <1>1, <1>4 DEF Checks
  <2> QED
    BY <2>1 DEF KeysOf
<1>5. CASE method = "unregister_node"
  <2>1. ChecksOf(method) = <<"private-key">>
    BY <1>1, <1>5 DEF Checks
  <2> QED
    BY <2>1 DEF KeysOf
<1>6. CASE method = "vote_for_rate"
  <2>1. ChecksOf(method) = <<"private-key", "amount">>
    BY <1>1, <1>6 DEF Checks
  <2> QED
    BY <2>1 DEF KeysOf
<1> QED
  BY <1>2, <1>3, <1>4, <1>5, <1>6 DEF Transactions

\* The codes reported for a key are codes.
LEMMA CodesOfKey ==
  ASSUME TypeOK, NEW k \in KeysOf(method), Stops(k), k = "id" => params[k] # "absent"
  PROVE  CodesOf(k) \subseteq Codes
  BY DEF CodesOf, Codes, LibraryCodes, RequestCodes

\* What a step that only returns does to the invariant.
LEMMA ReturnInv ==
  ASSUME IInv, NEW r \in {"value", "nullopt", "none"}, NEW codes, Returns(r, codes),
         codes = <<>> \/ \E c \in Codes : codes = <<c>>,
         r = "value" => codes = <<>> /\ (method \in Transactions \/ reports = <<>>),
         r # "value" /\ method # "get_current_block_id" => codes # <<>>,
         block' = block, sent' = sent, seeds' = seeds, now' = now, trx_counter' \in {trx_counter, trx_counter + 1}
  PROVE  IInv'
<1>1. reports \in Seq(Codes) /\ UNCHANGED <<calls, method, params>>
      /\ pc' = "idle" /\ result' = r /\ reports' = reports \o codes
  BY DEF IInv, TypeOK, Returns, request
<1>2. reports' \in Seq(Codes) /\ (codes # <<>> => reports' # <<>>) /\ (codes = <<>> => reports' = reports)
  <2>1. CASE codes = <<>>
    BY <1>1, <2>1, ConcatEmptySeq
  <2>2. CASE \E c \in Codes : codes = <<c>>
    <3>1. PICK c \in Codes : codes = <<c>>
      BY <2>2
    <3>2. <<c>> # <<>>
      OBVIOUS
    <3> QED
      BY <1>1, <3>1, <3>2, Reported
  <2> QED
    BY <2>1, <2>2
<1>3. trx_counter' \in Nat /\ trx_counter' >= trx_counter
  BY DEF IInv, TypeOK
<1>4. TypeOK'
  BY <1>1, <1>2, <1>3 DEF IInv, TypeOK
<1>5. PathInv' /\ ReportInv'
  BY <1>1 DEF PathInv, ReportInv
<1>6. SeedInv'
  <2>1. now \in Nat /\ trx_counter \in Nat /\ \A i \in 1..Len(seeds) : seeds[i] \in Nat
    BY MaxTimeIsNat DEF IInv, TypeOK
  <2> QED
    BY <1>3, <2>1 DEF IInv, SeedInv
<1>7. SentIsComplete'
  BY <1>1 DEF IInv, SentIsComplete, Mistyped, KeysOf
<1>8. NoSilentFailure' /\ ValueIsNotAFailure'
  BY <1>1, <1>2 DEF NoSilentFailure, ValueIsNotAFailure
<1> QED
  BY <1>4, <1>5, <1>6, <1>7, <1>8 DEF IInv

\* What a step inside a call that does not end it leaves alone.
LEMMA OnwardsInv ==
  ASSUME IInv, pc' \in {"block", "query", "create", "send", "crashed"},
         UNCHANGED <<calls, method, params, result, now>>,
         block' \in {"none", "current", "garbage"},
         reports' = reports \/ \E c \in Codes : reports' = reports \o <<c>>,
         pc' = "query" => reports' = reports,
         PathInv', ReportInv', SeedInv',
         sent' = sent \/ (sent' = TRUE /\ SentIsComplete'),
         seeds' \in Seq(Nat), trx_counter' \in Nat
  PROVE  IInv'
<1>1. reports' \in Seq(Codes)
  BY Reported DEF IInv, TypeOK
<1>2. TypeOK'
  BY <1>1 DEF IInv, TypeOK
<1>3. SentIsComplete'
  <2>1. method' = method /\ params' = params
    OBVIOUS
  <2>2. CASE sent' = sent
    BY <2>1, <2>2 DEF IInv, SentIsComplete, Mistyped, KeysOf
  <2> QED
    BY <2>2
<1>4. NoSilentFailure' /\ ValueIsNotAFailure'
  BY DEF NoSilentFailure, ValueIsNotAFailure
<1> QED
  BY <1>2, <1>3, <1>4 DEF IInv

-----------------------------------------------------------------------------
(***************************************************************************)
(* The invariant.                                                          *)
(***************************************************************************)
LEMMA InitInv == Init => IInv
<1> SUFFICES ASSUME Init PROVE IInv
  OBVIOUS
<1>1. TypeOK
  <2>1. params \in Params(method)
    <3>1. KeysOf("unknown") = {}
      <4>1. ChecksOf("unknown") = <<>>
        BY DEF ChecksOf, Checks
      <4> QED
        BY <4>1 DEF KeysOf
    <3>2. params \in [{} -> {}]
      BY DEF Init
    <3> QED
      BY <3>1, <3>2 DEF Init, Params
  <2>2. reports \in Seq(Codes) /\ seeds \in Seq(Nat)
    BY DEF Init
  <2>3. method \in Methods
    BY DEF Init, Methods
  <2>4. calls \in 0..MaxCalls /\ now \in 0..MaxTime /\ trx_counter \in Nat
    BY MaxCallsIsNat, MaxTimeIsNat DEF Init
  <2>5. sent \in BOOLEAN
    BY DEF Init
  <2> QED
    BY <2>1, <2>2, <2>3, <2>4, <2>5 DEF Init, TypeOK
<1>2. SeedInv
  BY DEF Init, SeedInv
<1> QED
  BY <1>1, <1>2 DEF Init, IInv, PathInv, ReportInv, SentIsComplete, NoSilentFailure, ValueIsNotAFailure

LEMMA CallStep == ASSUME IInv, Call PROVE IInv'
<1>1. PICK m \in Methods : method' = m /\ params' \in Params(m)
  BY DEF Call
<1>2. reports' = <<>> /\ reports' \in Seq(Codes) /\ sent' = FALSE /\ pc' = "check"
  BY DEF Call
<1>3. TypeOK'
  <2>1. calls' \in 0..MaxCalls
    BY MaxCallsIsNat DEF Call, IInv, TypeOK
  <2>2. sent' \in BOOLEAN
    BY <1>2
  <2>3. method' \in Methods /\ params' \in Params(method)'
    BY <1>1 DEF Params, KeysOf
  <2>4. UNCHANGED <<now, trx_counter, seeds>> /\ block' = "none" /\ result' = "none"
    BY DEF Call
  <2> QED
    BY <1>2, <2>1, <2>2, <2>3, <2>4 DEF IInv, TypeOK
<1>4. PathInv' /\ ReportInv' /\ SentIsComplete' /\ NoSilentFailure' /\ ValueIsNotAFailure'
  BY <1>2 DEF PathInv, ReportInv, SentIsComplete, NoSilentFailure, ValueIsNotAFailure
<1>5. SeedInv'
  BY DEF Call, IInv, SeedInv
<1> QED
  BY <1>3, <1>4, <1>5 DEF IInv

\* The checks.
LEMMA CheckStep ==
  ASSUME IInv, CheckFails \/ NoBlockNumber \/ UnknownMethod \/ ChecksPass PROVE IInv'
<1>0. pc = "check" /\ reports = <<>> /\ UNCHANGED <<block, sent, seeds, now>>
      /\ trx_counter' = trx_counter
  BY DEF IInv, ReportInv, CheckFails, NoBlockNumber, UnknownMethod, ChecksPass, Returns
<1>1. CASE CheckFails
  <2>1. PICK i \in 1..Len(ChecksOf(method)) :
          LET k == ChecksOf(method)[i] IN
            /\ Stops(k)
            /\ k = "id" => params[k] # "absent"
            /\ \E code \in CodesOf(k) :
                 Returns(IF Mistyped(k) \/ k = "id" THEN "none" ELSE "nullopt", <<code>>)
    BY <1>1 DEF CheckFails
  <2>2. PICK code \in CodesOf(ChecksOf(method)[i]), r \in {"none", "nullopt"} : Returns(r, <<code>>)
    BY <2>1
  <2>3. code \in Codes
    <3>1. ChecksOf(method)[i] \in KeysOf(method)
      BY DEF KeysOf
    <3> QED
      BY <2>1, <2>2, <3>1, CodesOfKey DEF IInv
  <2>4. <<code>> # <<>>
    OBVIOUS
  <2> QED
    BY <1>0, <2>2, <2>3, <2>4, ReturnInv
<1>2. CASE NoBlockNumber
  <2>1. CASE Returns("none", <<"EXCEPTION">>)
    <3>1. <<"EXCEPTION">> # <<>> /\ "EXCEPTION" \in Codes
      BY DEF Codes, LibraryCodes
    <3> QED
      BY <1>0, <2>1, <3>1, ReturnInv
  <2>2. CASE pc' = "crashed" /\ UNCHANGED <<calls, request, reports, result, now>>
    <3>1. UNCHANGED <<calls, method, params, result, now, reports>>
      BY <2>2 DEF request
    <3>2. PathInv' /\ ReportInv' /\ SeedInv'
      BY <1>0, <2>2 DEF IInv, PathInv, ReportInv, SeedInv
    <3>3. /\ pc' \in {"block", "query", "create", "send", "crashed"}
          /\ block' \in {"none", "current", "garbage"}
          /\ seeds' \in Seq(Nat) /\ trx_counter' \in Nat
      BY <1>0, <2>2 DEF IInv, TypeOK
    <3>4. sent' = sent /\ reports' = reports
      BY <1>0, <3>1
    <3> QED
      BY <3>1, <3>2, <3>3, <3>4, OnwardsInv
  <2> QED
    BY <1>2, <2>1, <2>2 DEF NoBlockNumber
<1>3. CASE UnknownMethod
  <2>1. <<"NOT_FOUND">> # <<>> /\ "NOT_FOUND" \in Codes
    BY DEF Codes
  <2> QED
    BY <1>0, <1>3, <2>1, ReturnInv DEF UnknownMethod
<1>4. CASE ChecksPass
  <2>1. UNCHANGED <<calls, method, params, result, now, reports, block, sent, seeds, trx_counter>>
        /\ pc' = (IF method \in Transactions THEN "block" ELSE "query")
    BY <1>4 DEF ChecksPass, request
  <2>2. PathInv'
    BY <1>4, <2>1 DEF ChecksPass, PathInv, Stops, Mistyped, KeysOf
  <2>3. ReportInv' /\ SeedInv'
    BY <1>0, <2>1 DEF IInv, ReportInv, SeedInv
  <2>4. /\ pc' \in {"block", "query", "create", "send", "crashed"}
        /\ block' \in {"none", "current", "garbage"}
        /\ seeds' \in Seq(Nat) /\ trx_counter' \in Nat
    BY <2>1 DEF IInv, TypeOK
  <2> QED
    BY <2>1, <2>2, <2>3, <2>4, OnwardsInv
<1> QED
  BY <1>1, <1>2, <1>3, <1>4

\* The requests to the server.
LEMMA RequestStep ==
  ASSUME IInv, Query \/ GetBlock \/ GetBlockThrows \/ Send PROVE IInv'
<1>0. UNCHANGED <<sent, seeds, now, trx_counter>>
  BY DEF Query, GetBlock, GetBlockThrows, Send, Returns
<1>1. \A c \in RequestCodes \cup {"EXCEPTION"} : c \in Codes /\ <<c>> # <<>>
  BY DEF Codes, LibraryCodes
<1>2. CASE Query
  <2>1. pc = "query" /\ reports = <<>> /\ UNCHANGED block
    BY <1>2 DEF Query, IInv, ReportInv
  <2>2. CASE Returns("value", <<>>)
    BY <1>0, <2>1, <2>2, ReturnInv
  <2>3. CASE \E c \in RequestCodes \cup {"EXCEPTION"} : Returns("none", <<c>>)
    BY <1>0, <1>1, <2>1, <2>3, ReturnInv
  <2>4. CASE method = "get_current_block_id" /\ Returns("none", <<>>)
    BY <1>0, <2>1, <2>4, ReturnInv
  <2> QED
    BY <1>2, <2>2, <2>3, <2>4 DEF Query
<1>3. CASE GetBlock
  <2>1. pc = "block" /\ UNCHANGED <<calls, method, params, result, now>>
        /\ pc' \in {"create", "crashed"}
    BY <1>3 DEF GetBlock, request
  <2>2. block' \in {"none", "current", "garbage"}
    BY <1>3 DEF GetBlock, IInv, TypeOK
  <2>3. reports' = reports \/ \E c \in Codes : reports' = reports \o <<c>>
    <3>1. reports' = reports \/ \E codes \in {<<>>} \cup {<<code>> : code \in RequestCodes} :
                                  reports' = reports \o codes
      BY <1>3 DEF GetBlock
    <3>2. reports \o <<>> = reports
      BY ConcatEmptySeq DEF IInv, TypeOK
    <3> QED
      BY <1>1, <3>1, <3>2
  <2>4. PathInv' /\ ReportInv' /\ SeedInv'
    BY <1>0, <2>1 DEF IInv, PathInv, ReportInv, SeedInv, Stops, Mistyped, KeysOf
  <2>5. /\ pc' \in {"block", "query", "create", "send", "crashed"}
        /\ block' \in {"none", "current", "garbage"}
        /\ seeds' \in Seq(Nat) /\ trx_counter' \in Nat
    BY <1>0, <2>1, <2>2 DEF IInv, TypeOK
  <2>6. pc' # "query" /\ sent' = sent
    BY <1>0, <2>1
  <2> QED
    BY <2>1, <2>3, <2>4, <2>5, <2>6, OnwardsInv
<1>4. CASE GetBlockThrows
  BY <1>0, <1>1, <1>4, ReturnInv DEF GetBlockThrows
<1>5. CASE Send
  <2>1. method \in Transactions /\ UNCHANGED block
    BY <1>5 DEF Send, IInv, PathInv
  <2>2. CASE Returns("value", <<>>)
    BY <1>0, <2>1, <2>2, ReturnInv
  <2>3. CASE \E c \in RequestCodes : Returns("none", <<c>>)
    BY <1>0, <1>1, <2>1, <2>3, ReturnInv
  <2> QED
    BY <1>5, <2>2, <2>3 DEF Send
<1> QED
  BY <1>2, <1>3, <1>4, <1>5

\* The making of a transaction.
LEMMA CreateStep ==
  ASSUME IInv, CreateThrows \/ CreateFails \/ Create PROVE IInv'
<1>0. pc = "create" /\ method \in Transactions /\ \A k \in KeysOf(method) : ~Stops(k)
  BY DEF IInv, PathInv, CreateThrows, CreateFails, Create
<1>1. \A c \in LibraryCodes : c \in Codes /\ <<c>> # <<>>
  BY DEF Codes
<1>2. now \in Nat /\ trx_counter \in Nat /\ seeds \in Seq(Nat) /\ reports \in Seq(Codes)
  BY MaxTimeIsNat DEF IInv, TypeOK
<1>3. CASE CreateThrows
  <2>1. trx_counter' \in {trx_counter, trx_counter + 1} /\ UNCHANGED <<block, sent, seeds>>
        /\ Returns("none", <<"EXCEPTION">>) /\ now' = now
    BY <1>3 DEF CreateThrows, Returns
  <2> QED
    BY <1>1, <2>1, ReturnInv DEF LibraryCodes
<1>4. CASE CreateFails
  <2>1. trx_counter' = trx_counter + 1 /\ UNCHANGED <<block, sent, seeds>> /\ now' = now
    BY <1>4 DEF CreateFails, Returns
  <2>2. CASE \E c \in LibraryCodes : Returns("none", <<c>>)
    BY <1>1, <2>1, <2>2, ReturnInv
  <2>3. CASE \E c \in LibraryCodes : /\ pc' = "crashed" /\ reports' = Append(reports, c)
                                     /\ UNCHANGED <<calls, request, result, now>>
    <3>1. PICK c \in LibraryCodes : /\ pc' = "crashed" /\ reports' = Append(reports, c)
                                    /\ UNCHANGED <<calls, request, result, now>>
      BY <2>3
    <3>2. reports' = reports \o <<c>> /\ c \in Codes
      BY <1>1, <1>2, <3>1
    <3>3. UNCHANGED <<calls, method, params, result, now>>
      BY <3>1 DEF request
    <3>4. SeedInv'
      <4>1. \A i \in 1..Len(seeds) : seeds[i] \in Nat
        BY <1>2
      <4> QED
        BY <1>2, <2>1, <4>1 DEF IInv, SeedInv
    <3>5. PathInv' /\ ReportInv'
      BY <3>1 DEF PathInv, ReportInv
    <3>6. /\ pc' \in {"block", "query", "create", "send", "crashed"}
          /\ block' \in {"none", "current", "garbage"}
          /\ seeds' \in Seq(Nat) /\ trx_counter' \in Nat
      BY <1>2, <2>1, <3>1 DEF IInv, TypeOK
    <3>7. /\ pc' # "query" /\ sent' = sent
          /\ reports' = reports \/ \E d \in Codes : reports' = reports \o <<d>>
      BY <2>1, <3>1, <3>2
    <3> QED
      BY <3>3, <3>4, <3>5, <3>6, <3>7, OnwardsInv
  <2> QED
    BY <1>4, <2>2, <2>3 DEF CreateFails
<1>5. CASE Create
  <2>1. /\ seeds' = Append(seeds, now + trx_counter) /\ trx_counter' = trx_counter + 1
        /\ sent' = TRUE /\ pc' = "send"
        /\ UNCHANGED <<calls, method, params, block, reports, result, now>>
    BY <1>5 DEF Create, GenerateTrxId, request
  <2>2. seeds' \in Seq(Nat) /\ Len(seeds') = Len(seeds) + 1
        /\ seeds'[Len(seeds) + 1] = now + trx_counter
        /\ \A i \in 1..Len(seeds) : seeds'[i] = seeds[i] /\ seeds[i] \in Nat
    BY <1>2, <2>1
  <2>3. SeedInv'
    <3>1. Len(seeds) \in Nat /\ \A i \in 1..Len(seeds') : i = Len(seeds) + 1 \/ i \in 1..Len(seeds)
      BY <1>2, <2>2
    <3>2. \A i \in 1..Len(seeds') : seeds'[i] < now' + trx_counter'
      BY <1>2, <2>1, <2>2, <3>1 DEF IInv, SeedInv
    <3>3. \A i, j \in 1..Len(seeds') : i < j => seeds'[i] < seeds'[j]
      <4> SUFFICES ASSUME NEW i \in 1..Len(seeds'), NEW j \in 1..Len(seeds'), i < j
                   PROVE  seeds'[i] < seeds'[j]
        OBVIOUS
      <4>1. i \in 1..Len(seeds)
        BY <2>2, <3>1
      <4>2. CASE j = Len(seeds) + 1
        BY <2>2, <4>1, <4>2 DEF IInv, SeedInv
      <4>3. CASE j \in 1..Len(seeds)
        BY <2>2, <4>1, <4>3 DEF IInv, SeedInv
      <4> QED
        BY <3>1, <4>2, <4>3
    <3> QED
      BY <3>2, <3>3 DEF SeedInv
  <2>4. SentIsComplete'
    <3> SUFFICES ASSUME NEW k \in KeysOf(method)
                 PROVE  (params[k] = "absent" => k = "description") /\ ~Mistyped(k) /\ params[k] # "bad"
      BY <2>1 DEF SentIsComplete, Mistyped, KeysOf
    <3>1. ~Stops(k) /\ k # "limit"
      BY <1>0, NoLimit
    <3>2. k \in Late => ~Mistyped(k) /\ params[k] # "bad"
      BY <1>5 DEF Create
    <3> QED
      BY <3>1, <3>2 DEF Stops
  <2>5. PathInv' /\ ReportInv'
    BY <1>0, <2>1 DEF PathInv, ReportInv, Stops, Mistyped, KeysOf
  <2>6. trx_counter' \in Nat
    BY <1>2, <2>1
  <2>7. /\ pc' \in {"block", "query", "create", "send", "crashed"}
        /\ block' \in {"none", "current", "garbage"}
        /\ seeds' \in Seq(Nat) /\ trx_counter' \in Nat
    BY <2>1, <2>2, <2>6 DEF IInv, TypeOK
  <2>8. pc' # "query" /\ sent' = TRUE /\ reports' = reports
    BY <2>1
  <2> QED
    BY <2>1, <2>3, <2>4, <2>5, <2>7, <2>8, OnwardsInv
<1> QED
  BY <1>3, <1>4, <1>5

LEMMA StepInv == IInv /\ [Next]_vars => IInv'
<1> SUFFICES ASSUME IInv, [Next]_vars PROVE IInv'
  OBVIOUS
<1>1. CASE Tick
  <2>1. now' = now + 1 /\ now \in Nat /\ now' \in 0..MaxTime
        /\ UNCHANGED <<pc, calls, method, params, block, reports, result, sent, trx_counter, seeds>>
    BY <1>1, MaxTimeIsNat DEF Tick, request, IInv, TypeOK
  <2>2. TypeOK'
    BY <2>1 DEF IInv, TypeOK
  <2>3. SeedInv'
    <3>1. trx_counter \in Nat /\ \A i \in 1..Len(seeds) : seeds[i] \in Nat
      BY DEF IInv, TypeOK
    <3> QED
      BY <2>1, <3>1 DEF IInv, SeedInv
  <2>4. PathInv' /\ ReportInv' /\ SentIsComplete' /\ NoSilentFailure' /\ ValueIsNotAFailure'
    BY <2>1 DEF IInv, PathInv, ReportInv, SentIsComplete, NoSilentFailure, ValueIsNotAFailure,
                Stops, Mistyped, KeysOf
  <2> QED
    BY <2>2, <2>3, <2>4 DEF IInv
<1>2. CASE UNCHANGED vars
  BY <1>2 DEF vars, request, IInv, TypeOK, SeedInv, PathInv, ReportInv, SentIsComplete,
              NoSilentFailure, ValueIsNotAFailure, Stops, Mistyped, KeysOf
<1> QED
  BY <1>1, <1>2, CallStep, CheckStep, RequestStep, CreateStep DEF Next, InCall

\* The invariant holds in every behaviour.
THEOREM Invariance == Spec => []IInv
  BY InitInv, StepInv, PTL DEF Spec

\* Every variable has its type.
THEOREM TypeCorrect == Spec => []TypeOK
<1>1. IInv => TypeOK
  BY DEF IInv
<1> QED
  BY <1>1, Invariance, PTL

\* No transaction leaves the program incomplete, whatever the order of the checks.
THEOREM CompleteTransactions == Spec => []SentIsComplete
<1>1. IInv => SentIsComplete
  BY DEF IInv
<1> QED
  BY <1>1, Invariance, PTL

\* No two transactions of a process are numbered from one seed.
THEOREM SeedsAreDistinct == Spec => []DistinctSeeds
<1>1. IInv => DistinctSeeds
  <2> SUFFICES ASSUME IInv, NEW i \in 1..Len(seeds), NEW j \in 1..Len(seeds), seeds[i] = seeds[j]
               PROVE  i = j
    BY DEF DistinctSeeds
  <2>1. Len(seeds) \in Nat /\ seeds[i] \in Nat /\ seeds[j] \in Nat
    BY DEF IInv, TypeOK
  <2>2. ~(i < j) /\ ~(j < i)
    BY <2>1 DEF IInv, SeedInv
  <2> QED
    BY <2>1, <2>2
<1> QED
  BY <1>1, Invariance, PTL

\* A call that ends without a value has told the program why, on every path of Client::call
\* and of the transactions (but for get_current_block_id, which may have none in silence); and
\* a query that returns a value has reported nothing: only a transaction goes on after a report.
THEOREM FailuresAreReported == Spec => []ReportsTellTheResult
<1>1. IInv => ReportsTellTheResult
  BY DEF IInv, ReportsTellTheResult
<1> QED
  BY <1>1, Invariance, PTL

-----------------------------------------------------------------------------
(***************************************************************************)
(* How often a call reports.  PathInv says where only transactions get.    *)
(***************************************************************************)
FewInv ==
  /\ pc \in {"check", "query", "block"} => reports = <<>>
  /\ pc \in {"create", "send"} => reports = <<>> \/ (Len(reports) = 1 /\ block = "garbage")
  /\ OneReportPerCall

\* One report more: the first, or the second of a transaction without a block id.
LEMMA OneMore ==
  ASSUME IInv, FewInv, NEW c, UNCHANGED <<method, block>>,
         \/ reports = <<>>
         \/ pc \in {"create", "send"},
         reports' = reports \o <<c>> \/ reports' = Append(reports, c)
  PROVE  OneReportPerCall'
<1>1. reports \in Seq(Codes \cup {c})
  BY DEF IInv, TypeOK
<1>2. Len(reports') = Len(reports) + 1
  BY <1>1
<1>3. CASE reports = <<>>
  BY <1>2, <1>3 DEF OneReportPerCall
<1>4. CASE pc \in {"create", "send"} /\ Len(reports) = 1 /\ block = "garbage"
  <2>1. method \in Transactions
    BY <1>4 DEF IInv, PathInv
  <2> QED
    BY <1>2, <1>4, <2>1 DEF OneReportPerCall
<1> QED
  BY <1>3, <1>4 DEF FewInv

\* What ends a call reports once at most.
LEMMA ReturnsFew ==
  ASSUME IInv, FewInv, NEW r, NEW codes, Returns(r, codes), UNCHANGED block,
         codes = <<>> \/ \E c : codes = <<c>>,
         reports = <<>> \/ pc \in {"create", "send"}
  PROVE  FewInv'
<1>1. pc' = "idle" /\ reports' = reports \o codes /\ method' = method
  BY DEF Returns, request
<1>2. CASE codes = <<>>
  <2>1. reports' = reports
    BY <1>1, <1>2, ConcatEmptySeq DEF IInv, TypeOK
  <2> QED
    BY <1>1, <2>1 DEF FewInv, OneReportPerCall
<1>3. CASE \E c : codes = <<c>>
  <2>1. OneReportPerCall'
    BY <1>1, <1>3, OneMore
  <2> QED
    BY <1>1, <2>1 DEF FewInv
<1> QED
  BY <1>2, <1>3

\* The checks, the queries and the last request of a transaction.
LEMMA CheckAndQueryFew ==
  ASSUME IInv, FewInv,
         CheckFails \/ NoBlockNumber \/ UnknownMethod \/ ChecksPass \/ Query \/ Send
  PROVE  FewInv'
<1>1. UNCHANGED block /\ (reports = <<>> \/ pc \in {"create", "send"})
  BY DEF CheckFails, NoBlockNumber, UnknownMethod, ChecksPass, Query, Send, FewInv
<1>2. CASE \E r, codes : Returns(r, codes) /\ (codes = <<>> \/ \E c : codes = <<c>>)
  BY <1>1, <1>2, ReturnsFew
<1>3. CASE NoBlockNumber /\ pc' = "crashed" /\ UNCHANGED <<request, reports>>
  BY <1>1, <1>3 DEF request, FewInv, OneReportPerCall
<1>4. CASE ChecksPass
  <2>1. reports' = <<>> /\ pc' \in {"query", "block"}
    BY <1>4 DEF ChecksPass, FewInv
  <2>2. ~(Len(reports') > 1)
    BY <2>1
  <2> QED
    BY <2>1, <2>2 DEF FewInv, OneReportPerCall
<1> QED
  <2>1. CASE CheckFails
    BY <1>2, <2>1 DEF CheckFails
  <2>2. CASE NoBlockNumber
    BY <1>2, <1>3, <2>2 DEF NoBlockNumber
  <2>3. CASE UnknownMethod
    BY <1>2, <2>3 DEF UnknownMethod
  <2>4. CASE Query
    <3>1. PICK codes : (\E r : Returns(r, codes)) /\ (codes = <<>> \/ \E c : codes = <<c>>)
      BY <2>4 DEF Query
    <3> QED
      BY <1>2, <3>1
  <2>5. CASE Send
    BY <1>2, <2>5 DEF Send
  <2> QED
    BY <1>4, <2>1, <2>2, <2>3, <2>4, <2>5

\* The request for the block id, and the making of a transaction.
LEMMA TransactionFew ==
  ASSUME IInv, FewInv, GetBlock \/ GetBlockThrows \/ CreateThrows \/ CreateFails \/ Create
  PROVE  FewInv'
<1>1. CASE GetBlock
  <2>1. reports = <<>> /\ pc' \in {"create", "crashed"}
    BY <1>1 DEF GetBlock, FewInv
  <2>2. CASE reports' = reports
    <3>1. ~(Len(reports') > 1)
      BY <2>1, <2>2
    <3> QED
      BY <2>1, <2>2, <3>1 DEF FewInv, OneReportPerCall
  <2>3. CASE (\E c : reports' = reports \o <<c>>) /\ (pc' = "create" => block' = "garbage")
    <3>1. Len(reports') = 1
      BY <2>1, <2>3
    <3> QED
      BY <2>1, <2>3, <3>1 DEF FewInv, OneReportPerCall
  <2>4. reports \o <<>> = reports
    BY ConcatEmptySeq DEF IInv, TypeOK
  <2> QED
    BY <1>1, <2>2, <2>3, <2>4 DEF GetBlock
<1>2. CASE GetBlockThrows \/ CreateThrows
  <2>1. Returns("none", <<"EXCEPTION">>) /\ UNCHANGED block
        /\ (reports = <<>> \/ pc \in {"create", "send"})
    BY <1>2 DEF GetBlockThrows, CreateThrows, FewInv
  <2> QED
    BY <2>1, ReturnsFew
<1>3. CASE CreateFails
  <2>1. pc = "create" /\ UNCHANGED block
    BY <1>3 DEF CreateFails
  <2>2. PICK c \in LibraryCodes :
          \/ Returns("none", <<c>>)
          \/ pc' = "crashed" /\ reports' = Append(reports, c) /\ method' = method
    BY <1>3 DEF CreateFails, request
  <2>3. CASE Returns("none", <<c>>)
    BY <2>1, <2>3, ReturnsFew
  <2>4. CASE pc' = "crashed" /\ reports' = Append(reports, c) /\ method' = method
    BY <2>1, <2>4, OneMore DEF FewInv
  <2> QED
    BY <2>2, <2>3, <2>4
<1>4. CASE Create
  BY <1>4 DEF Create, request, FewInv, OneReportPerCall
<1> QED
  BY <1>1, <1>2, <1>3, <1>4

\* A call of a client calls a handler once at most, and twice only when it is a transaction
\* that goes on without a block id, on all the paths of Client::call, for any number of calls.
THEOREM CallsReportOnce == Spec => []OneReportPerCall
<1>1. Init => FewInv
  <2> SUFFICES ASSUME Init PROVE FewInv
    OBVIOUS
  <2>1. reports = <<>> /\ pc = "idle" /\ ~(Len(reports) > 1)
    BY DEF Init
  <2> QED
    BY <2>1 DEF FewInv, OneReportPerCall
<1>2. IInv /\ FewInv /\ [Next]_vars => FewInv'
  <2> SUFFICES ASSUME IInv, FewInv, [Next]_vars PROVE FewInv'
    OBVIOUS
  <2>1. CASE Call
    <3>1. reports' = <<>> /\ pc' = "check" /\ ~(Len(reports') > 1)
      BY <2>1 DEF Call
    <3> QED
      BY <3>1 DEF FewInv, OneReportPerCall
  <2>2. CASE Tick \/ UNCHANGED vars
    BY <2>2 DEF Tick, vars, request, FewInv, OneReportPerCall
  <2> QED
    BY <2>1, <2>2, CheckAndQueryFew, TransactionFew DEF Next, InCall
<1>3. FewInv => OneReportPerCall
  BY DEF FewInv
<1> QED
  BY <1>1, <1>2, <1>3, Invariance, PTL DEF Spec

=============================================================================
