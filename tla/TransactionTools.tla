-------------------------- MODULE TransactionTools --------------------------
(***************************************************************************)
(* The tools of the agent at work: the switch of executeTask               *)
(* (backend/agent.ts) starts the programs of ToolPrograms, and the slots   *)
(* run them concurrently against one account, its cached record            *)
(* (backend/rpc_client.ts), the spending window and the network.           *)
(*                                                                         *)
(* The retry loops below loadAccount and submitTransaction are those of    *)
(* RpcGuard and PaymentSubmit; here a call has its final outcome.  Horizon *)
(* and Soroban RPC are external: they read the account when they are       *)
(* asked, refuse a transaction whose sequence number is not the next one,  *)
(* and may land a transaction nobody waits for any more until its time     *)
(* bounds end.                                                             *)
(***************************************************************************)
EXTENDS ToolPrograms

CONSTANTS Tasks,        \* the calls of run(): records [type, in]
          Slots,        \* 1 .. MAX_CONCURRENT_TASKS
          MAX_ATTEMPTS, \* pollForConfirmation: maxAttempts
          MaxStarts     \* bound of the number of tasks

ASSUME TransactionAssumption ==
  MAX_ATTEMPTS \in Nat \ {0} /\ MaxStarts \in Nat

\* The amounts of the tasks.  An amount below zero lowers the window before the
\* schema refuses it: SpendingWindow has those.  x402_respond, a payment between
\* the check and the record of a nonce, is the subject of X402.
ASSUME TaskAssumption ==
  \A t \in Tasks :
    /\ t.type # "x402_respond"
    /\ t.type = "stellar_payment" => t.in.amount \in Nat
    /\ t.type = "batch_payment" => t.in.payments \in Seq([amount : Int, asset : STRING])
    /\ t.type = "soroban_invoke" =>
         t.in.events \in Seq([successful : BOOLEAN, name : STRING, from : STRING, amount : Nat])
    /\ t.type = "fee_bump" => t.in.innerSequence \in Nat
    /\ t.type = "sequence_number" => t.in.bumpTo \in Nat

VARIABLES
  seq,       \* the ledger: sequence number of the agent's account
  landed,    \* the ledger: the transactions that succeeded, in order
  network,   \* transactions the network may still land
  records,   \* the sequence number in each account record
  cache,     \* accountCache: the record of the agent's account, or 0
  spent,     \* the total of the spending window
  job,       \* the task in each slot
  started,   \* the number of tasks started; it numbers them
  resolved   \* the tasks that send a transaction and were reported as successful

ledger == <<seq, landed, network>>
vars == <<ledger, records, cache, spent, job, started, resolved>>

-----------------------------------------------------------------------------
(* Tasks.                                                                  *)

\* The switch of executeTask, without x402_respond: see TaskAssumption.
\* claimable_balance, set_options, multi_op and soroban_storage are tools that
\* embedding programs call directly.  The default throws.
Program(t) ==
  CASE t.type = "stellar_payment"   -> StellarPayment(t.in)
    [] t.type = "batch_payment"     -> BatchPayment(t.in)
    [] t.type = "multisig_payment"  -> MultiSigPayment(t.in)
    [] t.type = "path_payment"      -> PathPayment(t.in)
    [] t.type = "swap"              -> Swap(t.in)
    [] t.type = "dex_offer"         -> DexOffer(t.in)
    [] t.type = "liquidity_pool"    -> LiquidityPool(t.in)
    [] t.type = "claimable_balance" -> ClaimableBalance(t.in)
    [] t.type = "fee_bump"          -> FeeBump(t.in)
    [] t.type = "data_entry"        -> DataEntry(t.in)
    [] t.type = "inflation"         -> Inflation(t.in)
    [] t.type = "sequence_number"   -> SequenceNumber(t.in)
    [] t.type = "sponsored_account" -> SponsoredAccount(t.in)
    [] t.type = "change_trust"      -> Trustline(t.in)
    [] t.type = "set_options"       -> SetOptions(t.in)
    [] t.type = "multi_op"          -> MultiOp(t.in)
    [] t.type = "soroban_invoke"    -> SorobanInvoke(t.in)
    [] t.type = "soroban_query"     -> SorobanQuery(t.in)
    [] t.type = "soroban_deploy"    -> SorobanDeploy(t.in)
    [] t.type = "soroban_storage"   -> SorobanStorage(t.in)
    [] t.type = "account_info"      -> AccountInfo(t.in)
    [] t.type = "balance_check"     -> BalanceCheck(t.in)
    [] t.type = "account_history"   -> AccountHistory(t.in)
    [] t.type = "stellar_toml"      -> StellarToml(t.in)
    [] t.type = "anchor_quote"      -> AnchorQuote(t.in)
    [] OTHER                        -> <<"throw">>

\* What the agent pays when the transaction of a task lands, and which guard
\* stands before it: the rolling window, or the limit of one payment.  An
\* invocation is taken to move on the ledger what extractSacTransferTotal reads
\* from the events of its simulation: that no debit escapes these events, and
\* that the ledger has not changed since, is assumed and not shown.
Value(t) ==
  CASE t.type = "stellar_payment" -> t.in.amount
    [] t.type = "soroban_invoke"  -> SacTransferTotal(t.in.events)
    [] t.type = "batch_payment"   -> BatchTotal(t.in)
    [] OTHER                      -> 0

GuardOf(t) ==
  CASE t.type \in {"stellar_payment", "soroban_invoke"} -> "window"
    [] t.type = "batch_payment"                         -> "limit"
    [] OTHER                                            -> "none"

\* Tasks that promise not to change anything.
IsDry(t) ==
  \/ t.type \in {"soroban_query", "soroban_storage", "account_info", "balance_check",
                 "account_history", "stellar_toml", "anchor_quote"}
  \/ t.type \in {"soroban_invoke", "multi_op"} /\ t.in.simulateOnly
  \/ t.type = "multisig_payment" /\ Len(t.in.signatures) < t.in.minSignatures
  \/ t.type \in {"liquidity_pool", "data_entry", "inflation", "sequence_number"}
       /\ t.in.action \in {"info", "get"}

Submits == {"submit", "submit_inner", "submit_recover"}
Sending == Submits \cup {"send"}

Idle == [todo |-> <<>>]

Job(t, n) ==
  [todo |-> Program(t), n |-> n, value |-> Value(t), guard |-> GuardOf(t), dry |-> IsDry(t),
   bumpTo |-> IF t.type = "sequence_number" /\ t.in.action = "bump" THEN t.in.bumpTo ELSE 0,
   tx |-> IF t.type = "fee_bump" THEN t.in.innerSequence ELSE 0,
   sends |-> Range(Program(t)) \cap Sending # {},
   account |-> 0, asked |-> FALSE, reading |-> 0, polls |-> 0,
   recovered |-> FALSE, quiet |-> network = {} /\ \A s \in Slots : job[s] = Idle]

Busy(s) == job[s] # Idle
At(s, steps) == Busy(s) /\ Head(job[s].todo) \in steps

Init ==
  /\ seq = 0 /\ landed = <<>> /\ network = {}
  /\ records = <<>> /\ cache = 0 /\ spent = 0
  /\ job = [s \in Slots |-> Idle] /\ started = 0 /\ resolved = {}

\* A task that starts disturbs the others: quiet is a history of that.
Run(s, t) ==
  /\ ~Busy(s) /\ started < MaxStarts
  /\ started' = started + 1
  /\ job' = [r \in Slots |-> IF r = s THEN Job(t, started + 1)
                             ELSE IF Busy(r) THEN [job[r] EXCEPT !.quiet = FALSE] ELSE Idle]
  /\ UNCHANGED <<ledger, records, cache, spent, resolved>>

\* execute() throws.
Reject(s) == job' = [job EXCEPT ![s] = Idle] /\ UNCHANGED resolved

\* execute() goes on with its next step, as job j, or returns after its last.
Continue(s, j) ==
  IF Len(j.todo) = 1
  THEN /\ job' = [job EXCEPT ![s] = Idle]
       /\ resolved' = IF j.sends THEN resolved \cup {j.n} ELSE resolved
  ELSE job' = [job EXCEPT ![s] = [j EXCEPT !.todo = Tail(@)]] /\ UNCHANGED resolved

-----------------------------------------------------------------------------
(* Steps that send no transaction.                                         *)

Throw(s) ==
  /\ At(s, {"throw"}) /\ Reject(s)
  /\ UNCHANGED <<ledger, records, cache, spent, started>>

Lookup(s) ==
  /\ At(s, {"lookup"}) /\ (Continue(s, job[s]) \/ Reject(s))
  /\ UNCHANGED <<ledger, records, cache, spent, started>>

Query(s) ==
  /\ At(s, {"query"}) /\ (Continue(s, job[s]) \/ Reject(s))
  /\ UNCHANGED <<ledger, records, cache, spent, started>>

Simulate(s) ==
  /\ At(s, {"simulate"}) /\ (Continue(s, job[s]) \/ Reject(s))
  /\ UNCHANGED <<ledger, records, cache, spent, started>>

\* assertWithinSpendingLimit: the amount is counted before the total is
\* compared, and stays counted when the task is refused.
Spend(s) ==
  /\ At(s, {"spend"})
  /\ LET amount == job[s].value
         total  == spent + amount
     IN  IF amount > AGENT_SPENDING_LIMIT THEN Reject(s) /\ UNCHANGED spent
         ELSE /\ spent' = total
              /\ IF total > AGENT_SPENDING_LIMIT THEN Reject(s) ELSE Continue(s, job[s])
  /\ UNCHANGED <<ledger, records, cache, started>>

Holding(j, r) == IF Head(j.todo) = "read" THEN j ELSE [j EXCEPT !.account = r, !.asked = FALSE]

LoadHit(s) ==
  /\ At(s, {"load", "read"}) /\ ~job[s].asked /\ cache # 0
  /\ Continue(s, Holding(job[s], cache))
  /\ UNCHANGED <<ledger, records, cache, spent, started>>

\* No entry, an expired one, or forceRefresh: Horizon is asked.
LoadMiss(s) ==
  /\ At(s, {"load", "read", "refresh"}) /\ ~job[s].asked
  /\ cache' = 0
  /\ job' = [job EXCEPT ![s].asked = TRUE, ![s].reading = seq]
  /\ UNCHANGED <<ledger, records, spent, started, resolved>>

LoadReturn(s) ==
  /\ At(s, {"load", "read", "refresh"}) /\ job[s].asked
  /\ records' = Append(records, job[s].reading) /\ cache' = Len(records')
  /\ Continue(s, [Holding(job[s], Len(records')) EXCEPT !.asked = FALSE, !.reading = 0])
  /\ UNCHANGED <<ledger, spent, started>>

LoadFails(s) ==
  /\ At(s, {"load", "read", "refresh"}) /\ job[s].asked
  /\ Reject(s)
  /\ UNCHANGED <<ledger, records, cache, spent, started>>

\* TransactionBuilder.build() increments the record in place.
Build(s) ==
  /\ At(s, {"build"})
  /\ LET r == job[s].account
     IN  /\ records' = [records EXCEPT ![r] = @ + 1]
         /\ Continue(s, [job[s] EXCEPT !.tx = records[r] + 1])
  /\ UNCHANGED <<ledger, cache, spent, started>>

-----------------------------------------------------------------------------
(* The ledger.  A sequence number 0 is that of another account.            *)

Envelope(j) == [n |-> j.n, seq |-> j.tx, value |-> j.value, guard |-> j.guard,
                bumpTo |-> j.bumpTo, dry |-> j.dry]

Valid(e) == e.seq \in {0, seq + 1}

\* The operations of the transaction succeed.
Lands(e) ==
  /\ landed' = Append(landed, e)
  /\ seq' = IF e.seq = 0 THEN seq ELSE IF e.bumpTo > e.seq THEN e.bumpTo ELSE e.seq

\* They fail, and the sequence number is used up all the same.
Fails(e) == seq' = (IF e.seq = 0 THEN seq ELSE e.seq) /\ UNCHANGED landed

NetworkLands ==
  \E e \in network :
    /\ Valid(e) /\ (Lands(e) \/ Fails(e)) /\ network' = network \ {e}
    /\ UNCHANGED <<records, cache, spent, job, started, resolved>>

\* The time bounds end, or another transaction took the sequence number.
NetworkDrops ==
  \E e \in network :
    /\ network' = network \ {e}
    /\ UNCHANGED <<seq, landed, records, cache, spent, job, started, resolved>>

-----------------------------------------------------------------------------
(* Sending.                                                                *)

SubmitOk(s) ==
  /\ At(s, Submits) /\ Valid(Envelope(job[s]))
  /\ Lands(Envelope(job[s])) /\ Continue(s, job[s])
  /\ cache' = 0 /\ UNCHANGED <<network, records, spent, started>>

SubmitTxFailed(s) ==
  /\ At(s, Submits) /\ Valid(Envelope(job[s]))
  /\ Fails(Envelope(job[s])) /\ Reject(s)
  /\ cache' = 0 /\ UNCHANGED <<network, records, spent, started>>

\* Mutant of SubmitUnanswered: a payment without an answer is rebuilt, too.
MutSubmitUnanswered(s) ==
  /\ At(s, Submits)
  /\ network' \in {network} \cup (IF Valid(Envelope(job[s]))
                                  THEN {network \cup {Envelope(job[s])}} ELSE {})
  /\ IF At(s, {"submit_recover"})
     THEN job' = [job EXCEPT ![s].todo = <<"refresh", "build", "submit">>] /\ UNCHANGED resolved
     ELSE Reject(s)
  /\ cache' = 0 /\ UNCHANGED <<seq, landed, records, spent, started>>

\* No answer at all: the network may have the transaction or not.
SubmitUnanswered(s) ==
  /\ At(s, Submits)
  /\ network' \in {network} \cup (IF Valid(Envelope(job[s]))
                                  THEN {network \cup {Envelope(job[s])}} ELSE {})
  /\ Reject(s)
  /\ cache' = 0 /\ UNCHANGED <<seq, landed, records, spent, started>>

\* Mutant of Rebuild: the payment is rebuilt from the record it holds.
MutRebuild == <<"build", "submit">>

\* tx_bad_seq: a payment is rebuilt once from a fresh record.
Rebuild == <<"refresh", "build", "submit">>

SubmitBadSeq(s) ==
  /\ At(s, Submits) /\ ~Valid(Envelope(job[s]))
  /\ IF At(s, {"submit_recover"})
     THEN /\ job' = [job EXCEPT ![s].todo = Rebuild, ![s].recovered = TRUE]
          /\ UNCHANGED resolved
     ELSE Reject(s)
  /\ cache' = 0 /\ UNCHANGED <<ledger, records, spent, started>>

\* sorobanServer.sendTransaction.  Its answers PENDING, DUPLICATE and
\* TRY_AGAIN_LATER all lead to the poll, although the last of them means that
\* the transaction was not taken; the account cache is left alone.
Send(s) ==
  /\ At(s, {"send"})
  /\ \/ /\ Valid(Envelope(job[s])) /\ network' = network \cup {Envelope(job[s])}
        /\ Continue(s, job[s]) \/ Reject(s)
     \/ /\ Continue(s, job[s]) \/ Reject(s)
        /\ UNCHANGED network
  /\ UNCHANGED <<seq, landed, records, cache, spent, started>>

HasLanded(j) == \E i \in DOMAIN landed : landed[i].n = j.n

Confirmed(s) == HasLanded(job[s]) /\ Continue(s, job[s])

\* Mutant of NotFound: the attempts are not limited.
MutNotFound(s) ==
  job' = [job EXCEPT ![s].polls = (@ + 1) % MAX_ATTEMPTS] /\ UNCHANGED resolved

NotFound(s) ==
  IF job[s].polls + 1 < MAX_ATTEMPTS
  THEN job' = [job EXCEPT ![s].polls = @ + 1] /\ UNCHANGED resolved
  ELSE Reject(s)

\* pollForConfirmation: SUCCESS, NOT_FOUND (also while RPC lags behind the
\* ledger), or FAILED or an error of getTransaction, which is not retried.
Poll(s) ==
  /\ At(s, {"poll"})
  /\ Confirmed(s) \/ NotFound(s) \/ Reject(s)
  /\ UNCHANGED <<ledger, records, cache, spent, started>>

\* Steps that await nothing, or a request with a timeout: withTimeout around
\* loadAccount and the simulation, the race of submitTransaction, axios.
Timed(s) ==
  \/ Throw(s) \/ Lookup(s) \/ Simulate(s) \/ Spend(s)
  \/ LoadHit(s) \/ LoadMiss(s) \/ LoadReturn(s) \/ LoadFails(s) \/ Build(s)
  \/ SubmitOk(s) \/ SubmitTxFailed(s) \/ SubmitUnanswered(s) \/ SubmitBadSeq(s)

\* Steps that await a request without a timeout.
Untimed(s) == Query(s) \/ Send(s) \/ Poll(s)

Step(s) == Timed(s) \/ Untimed(s)

Next ==
  \/ \E s \in Slots : Step(s) \/ \E t \in Tasks : Run(s, t)
  \/ NetworkLands \/ NetworkDrops

\* What carries a timeout ends.  A request without one may hang for ever.
Spec == Init /\ [][Next]_vars /\ \A s \in Slots : WF_vars(Timed(s))

\* An assumption on the servers, which the code does nothing to bring about.
ServersAnswer == \A s \in Slots : WF_vars(Untimed(s))

-----------------------------------------------------------------------------
(* Properties.                                                             *)

TypeOK ==
  /\ seq \in Nat /\ spent \in Nat
  /\ cache \in 0 .. Len(records) /\ \A r \in DOMAIN records : records[r] \in Nat
  /\ started \in 0 .. MaxStarts /\ resolved \subseteq 1 .. started
  /\ \A s \in Slots : Busy(s) =>
       /\ job[s].n \in 1 .. started /\ job[s].account \in 0 .. Len(records)
       /\ job[s].polls \in 0 .. MAX_ATTEMPTS - 1
       /\ Head(job[s].todo) = "build" => job[s].account # 0

\* What the landed transactions under the guard g have moved.
Values(g) == Total([i \in DOMAIN landed |-> IF landed[i].guard = g THEN landed[i].value ELSE 0])

\* What payments and invocations take from the account was counted in the
\* window first, so it stays within the limit although transactions land after
\* their tasks were reported as failed, as one whose polling window ended does;
\* a batch, which is not counted, stays within the limit by itself.  A task that
\* asks for a simulation, a query or an unsigned transaction moves nothing.
MovedWasCounted ==
  /\ Values("window") <= spent /\ Values("window") <= AGENT_SPENDING_LIMIT
  /\ \A i \in DOMAIN landed : landed[i].guard = "limit" => landed[i].value <= AGENT_SPENDING_LIMIT
  /\ \A i \in DOMAIN landed : ~landed[i].dry
  /\ \A e \in network : ~e.dry

\* A task that was reported as successful after it sent something has landed
\* once.  No task lands two transactions, although a payment is rebuilt with
\* another sequence number after tx_bad_seq and transactions may land late.
ReportedLanded ==
  /\ TypeOK
  /\ \A n \in resolved : \E i \in DOMAIN landed : landed[i].n = n
  /\ \A i, j \in DOMAIN landed : landed[i].n = landed[j].n => i = j

\* The rebuild heals whatever other tools left behind in the cached record: if
\* nothing else runs meanwhile, the second transaction has the right number.
RecoveryHeals ==
  \A s \in Slots : At(s, {"submit"}) /\ job[s].recovered /\ job[s].quiet => job[s].tx = seq + 1

\* Nothing but a request without a timeout can hold up a task, and its slot, for
\* good: a payment ends whatever the servers do, also when its record is loaded
\* again and its transaction built anew.  If the servers answer, every task ends:
\* the polling of an invocation gives up after MAX_ATTEMPTS.
TasksEnd ==
  /\ \A s \in Slots : Busy(s) ~> (~Busy(s) \/ At(s, {"query", "send", "poll"}))
  /\ ServersAnswer => \A s \in Slots : Busy(s) ~> ~Busy(s)

-----------------------------------------------------------------------------
(* An inductive invariant of Spec that implies the three invariants.       *)

Steps == {"spend", "lookup", "query", "load", "read", "refresh", "build", "simulate", "poll", "throw"}
           \cup Sending

Guards == {"window", "limit", "none"}

Jobs == [todo : Seq(Steps) \ {<<>>}, n : Nat, value : Int, guard : Guards, dry : BOOLEAN,
         bumpTo : Nat, tx : Nat, sends : BOOLEAN, account : Nat, asked : BOOLEAN,
         reading : Nat, polls : Nat, recovered : BOOLEAN, quiet : BOOLEAN]

Envelopes == [n : Nat, seq : Nat, value : Int, guard : Guards, bumpTo : Nat, dry : BOOLEAN]

Shapes ==
  /\ seq \in Nat /\ landed \in Seq(Envelopes) /\ network \subseteq Envelopes
  /\ records \in Seq(Nat) /\ cache \in 0 .. Len(records) /\ spent \in Nat
  /\ job \in [Slots -> Jobs \cup {Idle}]
  /\ started \in 0 .. MaxStarts /\ resolved \subseteq 1 .. started

\* A transaction is sent by the last step, or before the last one, which polls.
SendsLast(todo) ==
  \A i \in 1 .. Len(todo) :
    /\ todo[i] \in Submits => i = Len(todo)
    /\ todo[i] = "send" => i = Len(todo) - 1 /\ todo[Len(todo)] = "poll"

\* Steps before the i-th load the account.
LoadsBefore(todo, i) == \E k \in 1 .. i - 1 : todo[k] \in {"load", "refresh"}

Counts(todo) == \E i \in 1 .. Len(todo) : todo[i] = "spend"

\* A transaction is still to be sent; nothing counts or refuses it before that.
WillSend(todo) == \E i \in 1 .. Len(todo) : todo[i] \in Sending
Passed(todo) ==
  \E i \in 1 .. Len(todo) : todo[i] \in Sending /\ \A k \in 1 .. i - 1 : todo[k] \notin {"spend", "throw"}

\* Rebuild, or the rest of it.
Rebuilding(todo) ==
  /\ todo[Len(todo)] = "submit"
  /\ \A i \in 1 .. Len(todo) - 1 : \/ todo[i] = "refresh" /\ todo[i + 1] = "build"
                                   \/ todo[i] = "build" /\ todo[i + 1] = "submit"

\* What is true of a job, whatever the others do.
Sound(j) ==
  /\ SendsLast(j.todo)
  /\ j.sends => j.todo[Len(j.todo)] \in Submits \cup {"poll"}
  /\ \A i \in 1 .. Len(j.todo) : j.todo[i] = "build" => j.account # 0 \/ LoadsBefore(j.todo, i)
  /\ j.asked => j.todo[1] \in {"load", "read", "refresh"}
  /\ j.guard = "window" \/ Counts(j.todo) => j.value \in Nat
  /\ WillSend(j.todo) => ~j.dry /\ (j.guard = "limit" => j.value <= AGENT_SPENDING_LIMIT)
  /\ j.recovered => Rebuilding(j.todo)
  /\ j.polls < MAX_ATTEMPTS

\* What a rebuilt payment has read or built from is right.
Healed(j) ==
  /\ j.asked => j.reading = seq
  /\ j.todo[1] = "build" => records[j.account] = seq
  /\ j.todo[1] = "submit" => j.tx = seq + 1

Good(j) ==
  /\ Sound(j)
  /\ j.n \in 1 .. started /\ j.account \in 0 .. Len(records)
  /\ j.recovered /\ j.quiet => Healed(j)

JobsGood == \A s \in Slots : Busy(s) => Good(job[s])

\* Whatever has the number of a task is its one transaction, wherever it is.
OneEach ==
  /\ \A r, s \in Slots : Busy(r) /\ Busy(s) /\ job[r].n = job[s].n => r = s
  /\ \A s \in Slots : Busy(s) /\ WillSend(job[s].todo) =>
       /\ \A e \in network : e.n # job[s].n
       /\ \A i \in DOMAIN landed : landed[i].n # job[s].n
  /\ \A d, e \in network : d.n = e.n => d = e
  /\ \A e \in network : \A i \in DOMAIN landed : landed[i].n # e.n
  /\ \A i, k \in DOMAIN landed : landed[i].n = landed[k].n => i = k
  /\ \A e \in network : e.n \in 1 .. started
  /\ \A i \in DOMAIN landed : landed[i].n \in 1 .. started
  /\ \A n \in resolved : \E i \in DOMAIN landed : landed[i].n = n

\* Only transactions that may move something are under way or have landed.
Sanctioned(e) ==
  /\ ~e.dry
  /\ e.guard = "limit" => e.value <= AGENT_SPENDING_LIMIT
  /\ e.guard = "window" => e.value \in Nat

AllSanctioned ==
  /\ \A e \in network : Sanctioned(e)
  /\ \A i \in DOMAIN landed : Sanctioned(landed[i])

\* rest reserves, in what the window has counted, the amount of every task that
\* has passed the guard and not landed yet.
Covers(rest) ==
  /\ \A e \in network : e.guard = "window" => rest[e.n] >= e.value
  /\ \A s \in Slots : Busy(s) /\ job[s].guard = "window" /\ Passed(job[s].todo) =>
       rest[job[s].n] >= job[s].value

Reserved ==
  \E rest \in [1 .. MaxStarts -> 0 .. AGENT_SPENDING_LIMIT] :
    /\ Covers(rest)
    /\ Values("window") + Total(rest) <= spent
    /\ Values("window") + Total(rest) <= AGENT_SPENDING_LIMIT

\* While a task is alone nothing but its own transaction moves the sequence
\* number, so what it reads for its second attempt stays right.
Alone ==
  \A s \in Slots : Busy(s) /\ job[s].quiet =>
    /\ \A r \in Slots : Busy(r) => r = s
    /\ WillSend(job[s].todo) => network = {}

IInv ==
  /\ Shapes /\ JobsGood /\ OneEach /\ AllSanctioned /\ Reserved /\ Alone
=============================================================================
