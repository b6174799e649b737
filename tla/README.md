# Verification of the Vela agent and its escrow contract

This directory holds TLA+ modules for the contract, the agent, its transaction
tools and the process around it, the TLC
configurations that check them on small instances, and TLAPS proofs of the
results that matter most. `PROJECT.json` maps every definition to the source
lines it models and lists the runs, the mutants that show each property can
fail, the findings, the hazards and the theorems.

To check a run: `tlc -config <file>.cfg MC<module>`. To check the proofs:
`tlapm <module>Proofs.tla`.

## 1. The system

Vela is a PayFi agent for the Stellar network: a TypeScript process
(`backend/`) that executes payment, contract and query tasks, and a Soroban
escrow contract in Rust (`contracts/escrow/`) that agents can use.

A program embeds `PayFiAgent` and calls `run(task)`. `run` takes a slot or
queues the task; `executeTask` runs the middleware, the spending guard and one
of the tools, writes the result to SQLite, emits an event and hands the result
to the webhook dispatcher. Tools reach Horizon and the Soroban RPC server
through `rpc_client.ts`, which retries, times out, respects a process-wide
rate-limit lock (`network.ts`) and caches the account record. `index.ts` starts
a health server and shuts the process down on a signal.

JavaScript runs one callback at a time, so the concurrency of the agent is the
interleaving of callbacks at `await`s, timers and streams.

### Inventory

| Component | State | Operations | Interacts with | What is hard | Correct when |
| --- | --- | --- | --- | --- | --- |
| Escrow contract (`contracts/escrow/src/lib.rs`) | parties, amount, expiry, released, pending arbiter; the token's balances | initialize, release, release_partial, refund, cancel, propose_new_arbiter, accept_arbiter_rotation, get_state | token contract, ledger time | calls of three parties in any order, time locks, `u64`/`i128` limits | every deposit is paid out exactly once, to whom the lifecycle allows; the contract can always pay; a rotation is announced long enough |
| Task dispatch (`backend/agent.ts`, `persistence.ts`) | activeTasks, taskQueue, isDraining, middlewares | run, runSequence, executeTask, dispatchQueued, drain, use | tools, SQLite, webhook, event listeners | slots and queue under interleaved awaits; a failure after the payment | slots are exact, nobody is overtaken or forgotten, a success is recorded |
| Process lifecycle (`backend/index.ts`) | isShuttingDown, hard-kill timer | start, shutdown | agent, health server, database, telemetry | tasks in flight at a signal; tools that hang | a clean exit leaves nothing unfinished, a signal always ends the process |
| Spending guard (`agent.ts`, `spending_tracker.ts`, `persistence.ts`) | the window in memory and in SQLite | assertWithinSpendingLimit, record, total, prune, load | every paying task, restarts | restarts, failing SQLite calls, ends of windows | what is let through within any window stays within the limit |
| Rate-limit lock and retries (`network.ts`, `rpc_client.ts`) | globalBackoff (lock, generation, queue), timers | handleRateLimitResponse, isThrottled, withBackoffGuard, clearBackoff, withRetry, withTimeout | every RPC call, the webhook dispatcher | late timers, renewed locks, timeouts behind which work goes on | no request under the lock, no queued call stranded, every call answered |
| Account cache and payment submission (`rpc_client.ts`, `StellarPaymentTool.ts`) | accountCache, account records changed in place | loadAccount, submitTransaction, execute | Horizon | lost answers and retries, one record held by two payments | a payment lands at most once; a reported success has landed |
| x402 and nonce store (`X402PaymentTool.ts`, `nonce_store.ts`) | rate counter and window, used nonces in SQLite | respond, verify, has, add, prune | payment tool, SQLite, clock | check, pay, record across awaits; crashes; ends of TTL and deadline | a challenge is paid at most once; rate limit; a proof is true |
| Contract event listener (`ContractEventListener.ts`, `agent.ts`) | cursor, start-ledger promise, attempts, timer | listen, stop, poll; startContractListener, stopContractListener, destroy | Soroban RPC, callback of the user | failed polls, callbacks that throw, stop during a request | no event missed, repeated or out of order; stop ends the polling |
| Storage watcher (`ContractStorageWatcherTool.ts`) | value cache, poll count, timers | watch, poll, stop | Soroban RPC, listeners | public poll() overlapping the timer; listeners that throw | the events lead from the baseline to the contract's entries; the polling goes on until it is stopped or used up |
| Streams (`agent.ts` startListening, `BalanceStreamTool.ts`) | the close function of each stream | startListening, stopListening, destroy, subscribe, stop | Horizon streams, callbacks | stream errors, memos that do not parse, callbacks that throw | one stream at most, and a new one after an error; no valid challenge lost |
| Soroban invocation (`SorobanInvokeTool.ts`, query, deploy, storage) | none of its own; spending window, account cache | execute, pollForConfirmation | RPC server, spending window | polling window shorter than the transaction's life | simulated spends stay in the limit; a confirmed hash is on the ledger; a simulation sends nothing |
| Batch, multi-signature, fee-bump, path payments and the other transaction tools | none; account cache | execute | loadAccount, submitTransaction, Horizon | a record whose sequence number others have moved; limits checked in different ways | as for payments |
| Webhook (`webhook.ts`) | none | dispatchWebhook, signPayload, verifyWebhookSignature | HTTP endpoint, rate-limit lock | lost answers, retries cut off by the exit, a 429 that takes the agent's lock | taken once unless a 2xx does not arrive; every webhook ends; the lock it takes is given back |
| Configuration (`config.ts`) | memoised configuration or error | loadConfigSync, loadConfig, the proxy | environment, Secrets Manager | two ways to load with their own checks | nothing runs on a configuration that was not validated |
| Health server (`server.ts`) | listening or not | startHealthServer, close | process lifecycle | closing while tasks run | open until the tasks have drained |
| Query tools, logging, telemetry, errors | TTL cache of TOML files | | | little | |

## 2. Modules and how they correspond to the code

An action is what the code does between two awaits (or one contract call); its
guard is the conditions and early returns of that code. Each component has a
specification module, an `MC` module with the values of its constants for TLC,
and, where something is proved, a `Proofs` module. `Mut...` operators are
plausible bugs: replacing the definition that follows them by the mutant makes
TLC report the property named in `PROJECT.json`.

* **`Escrow`**: one action per entry point; a panic rolls the transaction back,
  so it is the negation of a guard. `auth` is the set of signatures of the
  transaction. Time is a `u64`, amounts are `i128`; both widths are constants.
  `Donate` is a transfer of the token to the contract by anybody. `EscrowPromise`
  is the abstract lifecycle (nothing, active, settled; what is paid out never
  exceeds the deposit) and `Escrow` implements it.
* **`AgentDispatch`**: `run` refuses, queues or starts; `runSequence` makes its
  calls one after the other; `executeTask` is split at
  its awaits into middleware, tool, `finally`. What the synchronous parts may do
  (emit, save, dispatch the webhook, each possibly throwing into the inner or
  outer `catch`, or out of both) is a set of outcomes. `Signal`, `PendingTasksDone`,
  `ReleaseResources` and `HardKill` are `shutdown()`.
* **`SpendingWindow`**: the guard, `record`, pruning, the mirror in SQLite and
  restarts; each SQLite call may fail. The second reading of the clock inside one
  call (`total()` within `record` and `restore`) may be a tick later.
* **`RpcGuard`**: the lock with its generations, its queue and its timers, of
  which one with too long a delay fires at once (`TimerDelay`); the
  retry loop; the timeout, which answers the caller while the loop goes on.
* **`PaymentSubmit`**: account records are objects shared by reference, whose
  sequence number `build()` increments in place; `loadAccount`, `execute` with
  its single recovery, `submitTransaction` with its retries. Horizon is external.
* **`X402`**: `respond` split at its awaits, the nonce store in SQLite, the
  clock, crashes; `verify` as a predicate. What `execute` promises to it is what
  `PaymentSubmit` shows: it lands at most once, and may land although it rejects.
* **`ContractEvents`**: `listen` with the agent's hold on it; the contract's
  events are numbered and a cursor is a number. Backoff delays are timers that
  fire at any time.
* **`ToolPrograms`**: every transaction tool as a program, the sequence of its
  steps from one await to the next (count, look up, query, load, build, simulate,
  submit, send, poll), computed from what its input makes the code do. A lookup
  carries a timeout; a query, a send and a poll do not.
* **`TransactionTools`** runs these programs in the agent's slots against one
  account: the ledger, the shared account records and their cache, the spending
  window, and a network that may land a transaction after its task was reported
  as failed. It composes the tools with what `PaymentSubmit`, `SpendingWindow`
  and `AgentDispatch` model in detail. `Program` is the switch of `executeTask`
  without `x402_respond`, which is `X402`'s, and with the four tools that only
  embedding programs call. Two simplifications: records do not leave the window
  by age (that is `SpendingWindow`), and what an invocation moves on the ledger
  is what `extractSacTransferTotal` reads from its simulation (`Value`), so a
  debit that this function misses, or that appears only after the simulation, is
  not seen.
* **`StorageWatcher`**: chains of timer and request; `poll()` by hand starts a
  chain of its own. An answer is the contract's entries at the time the server
  read them. Its events are applied to a view. `WatcherPromise` is what the
  listeners may rely on, without polls and timers: they are told of one state of
  the contract at a time, a listener that throws may cut that short, deleted
  entries come last, and the cache is what was told; `StorageWatcher` implements
  it. `Init`, `Next` and `Spec` of this module and of `Service` carry the name of
  their component, so that a module of proofs can extend them beside another.
* **`Config`**: what the two loaders make of an environment and of an answer of
  the Secrets Manager. **`Streams`**: the payment stream and the balance stream.
  **`Service`** composes them with the start and the shutdown of the process, the
  health server, and webhooks with the rate-limit lock they share with the
  agent; tasks are abstract there, and the lock is one bit whose renewals and
  generations are in `RpcGuard`. Only a 2xx tells that a post was taken: the
  receiver may have taken one that got another answer or none, or that was on
  its way when the process ended.

`AgentDispatch` has the task in detail and the process coarsely, `Service` the
process in detail and the task coarsely; `X402` takes of the payment what
`PaymentSubmit` shows of it.

## 3. Runs

Passing runs, their bounds, and why the bounds are enough:

| Run | Checks | Bounds |
| --- | --- | --- |
| `escrow` | the contract can pay what it owes (`Solvent`); deposit = paid + owed (`DepositAccounted`); a rotation was announced (`RotationAnnounced`); `EscrowPromise` is implemented | three users, so that every party can be anybody; the ends of `u64` and `i128` are within reach (3 and 4) |
| `dispatch` | slots exact, FIFO without barging, a clean exit leaves nothing | four calls, two slots, a queue of one: calls run, wait and are refused in one behaviour |
| `dispatch_serving` | a reported success is saved, complete once and in the webhook; a sequence stops at the first task that is not one; every accepted call is answered unless shutdown() kills the process or a queued call's own rejection ends it; a signal ends the process | three calls, two of them a sequence, one slot, a queue of two, all faults |
| `spending` | memory and table agree; what the guard lets through in any window is within the limit, also across restarts; and within one process also when SQLite fails | three records, limit one, a window of one tick and the clock up to 3: a record is inside, on the edge and past the window; every SQLite call may fail; amounts -1, 1 and 2 |
| `rpc_guard` | no stranded call, lock honoured, no request under the lock, every call answered | two calls, three 429s: a timer of the first lock can meet the third; waits of one to three ticks, of which the longest overflows the timer |
| `submit` | a payment lands at most once, a success has landed | two payments and a reader, two attempts, lost answers, cache on |
| `x402` | a recorded nonce blocks its challenge while it is valid; a proof is true, recorded and verifies; a challenge is paid twice only by calls of which one overlapped with another or failed; at most twice the limit in any window, and once more per restart | three calls, two nonces with lives as long as the TTL, limit one, all faults; the clock passes the end of TTL and deadline |
| `events` | nothing skipped; once, in order; only the held listener runs; at most one page after stop(); a listener ends the process only after an outage; a matching event is handed out | two listeners, three events, pages of two in which onEvent can throw between two matching events |
| `tools` | what payments and invocations move was counted first and stays within the limit, a batch within the limit by itself (`MovedWasCounted`); simulations and unsigned builds send nothing; a task lands at most one transaction; a reported success has landed; the rebuild after tx_bad_seq heals what other tools did to the cached record; only a request without a timeout holds a task up, and if the servers answer every task ends | two tasks in two slots, any pair of sixty inputs that take every way through every tool; limit two, two polls |
| `watcher` | the listeners are told of one state of the contract at a time, and the cache is what they were told (`WatcherPromise`); chains of polls neither die nor multiply, and maxPolls bounds the requests (`ChainsAlive`); the view converges to the contract; a bounded watch ends | three keys of which two are watched, one value or none, two writes, one call by hand, one fault, maxPolls none or two |
| `service` | a configuration in use was validated, whichever way it came; a webhook is taken twice, or taken and not counted as delivered, only when a post was taken without its 2xx arriving, and never more often than it was posted; one stream of each kind; the attempts of a webhook end, and tasks run after its 429 once the lock ends; valid challenges are handed out | two tasks, two attempts (the default is three: one that is repeated and one that is the last), sound environments and those that differ in a field or two, every form of secret |

Type invariants are proved for every specification with a run (section 4). In
the runs of `StorageWatcher` and `Service`, and of some of the others, `TypeOK` is
a conjunct of one invariant. `ActiveOwesSomething` and `NoEarlyTakeover` of `Escrow` and
`QueuedMeansBusy` of `AgentDispatch` (no lost wake-up) are proved for every value
of the constants and are not repeated in a run.

`SpendingWindow` keeps in `mishaps` what has gone wrong so far, so one run asks
both questions: with no failure but that of pruning the limit holds across
restarts, with any failure it holds for the process. A negative amount lowers
the total, so the bound is the limit less the negative amounts of the last two
windows (`lowered`).

Deadlock is not checked: in every module the actors can finish, a process can
end, or a bound on time stops the clock.

One run ends in a violation: it states what a document says and shows that the
code does something else:

| Run | Says | Does |
| --- | --- | --- |
| `x402_replay` | a replayed nonce is refused (`ARCHITECTURE.md:374`) | not while the first call is paying |

Other places where the code does not do what a text says, met while modelling.
The models take these steps and the properties are stated so that they allow
for them:

* `lib.rs:121` equates the token balance with the stored amount; anybody can add
  to the balance (`Donate`), so `Solvent` is an inequality.
* `ARCHITECTURE.md:99` promises one outcome event per task; a failing
  `saveResult` adds task:failed to task:complete (`Completion`).
* `persistence.ts:4` calls the table the log of every result; failures are not
  saved, so `SuccessRecorded` is about successes.
* `spending_tracker.ts:85`: `total()` also counts payments it refused
  (`record`), and a negative amount, which no check before it refuses, lowers it.
* `rpc_client.ts:300` warns against serving one record to two builders; two
  concurrent payments share the cached one (`LoadCached`).
* `ARCHITECTURE.md:373` calls the rate limit sliding; it is a fixed window, so
  the bound is twice the limit. `respond` prunes with 24 hours whatever TTL is
  configured (`TtlCoversLife`). `verify` compares amounts as strings, so only
  amounts written with seven decimals verify (`ProofRecorded`).
* `tests/contract_event_listener.test.ts:170` says no event follows `stop()`;
  those of the request in flight do (`AtMostOnePageAfterStop`). One failed
  `getLatestLedger` makes all later polls fail (`StartRejectedAgain`), and a
  listener of the agent that gives up, also one that was stopped while its last
  request was in flight, ends the process (`Catch`).
* `lib.rs:105` and `:179` want the parties distinct; a rotation
  (`lib.rs:624`, `:679`) does not compare the new arbiter with the others.
* `rpc_client.ts:349` says that no cached record survives a submit; a lookup in
  flight across one puts an old record back (`rpc_client.ts:338`). Simulations,
  unsigned builds and Soroban sends move the number of the cached record and
  leave it there; only payments and path payments recover from the refusal
  (`RecoveryHeals`), other tools fail with tx_bad_seq once.
* `ARCHITECTURE.md:129-131` sends a batch through `assertWithinSpendingLimit`
  like a payment; `BatchPaymentTool.ts:69` only compares its total with the limit,
  and the total never enters the rolling window. `MovedWasCounted` bounds each
  batch by itself and leaves batches out of the window: it does not show the
  limit for payments and batches together, which the code does not keep. Paths,
  swaps, multi-signature payments and the other operations, although
  `README.md:155` presents the limit as one on spending, are not counted at all.
* Not every request has a timeout. `sendTransaction` and `getTransaction`
  (`SorobanInvokeTool.ts:363`, `:447`), the search for paths
  (`PathPaymentTool.ts:159`, and that of `SwapTool`), the lookups of offers, pools,
  claimable balances, contract code and contract data, and the account history
  use clients that are created without one (`rpc_client.ts:282`, `:374`): a
  server that does not answer holds the task and its slot (`TasksEnd`).
* `network.ts:48` lets Retry-After decide how long the lock is held; one of more than
  2^31 - 1 ms (25 days) overflows `setTimeout`, and the lock ends at once
  (`Overflowed`).
* `ARCHITECTURE.md:420` describes two phases of a multi-signature payment; the
  second builds another transaction, with another sequence number and time
  bounds, so signatures over the first do not fit it.
* `TransactionBuilderTool` passes baseFee * n as the fee per operation, and
  treats an asset without issuer in a payment as XLM; `FeeBumpTool` passes
  (operations + 1) * fee as base fee; a DEX offer "create" with an offerId is an
  update; `SorobanDeployTool` calls two methods rpc.Server does not have; four
  tools cannot be reached from the switch of `executeTask`.
* The storage watcher: every `poll()` by hand adds a chain of timers for good,
  and "done" may be emitted once per chain (`ChainsAlive`); an "error" nobody
  listens to ends the process.
* With `AGENT_SECRET_KEY_ARN` alone the service never starts: importing
  `rpc_client.ts` reads the configuration (line 292) before `start` awaits it
  (`ImportClients` in `Service`); `tests/config.test.ts:66` covers `config.ts` by
  itself. `config.ts:307` gives 60,000 as the default of SPENDING_WINDOW_MS, line 141
  sets 86,400,000.
* `GET /health` always answers ok; the handlers with probes are not reachable.
  `db.close` clears a flag where its comment speaks of flushing writes. A port
  that is taken, and a signal before the handlers are registered, end the process
  without a shutdown.
* `tests/stream.test.ts:194` speaks of reconnecting; a payment stream that failed
  stays closed until `startListening` is called again, and then starts from the
  oldest payment. An exception of `onChallenge` is logged as an invalid memo.
* A 429 of the receiver of webhooks locks the agent's calls, while the webhook's
  own next attempt ignores Retry-After; the shutdown does not wait for webhooks.

### Fairness

* `AgentDispatch!TimerSpec`: only that the hard-kill timer fires; nothing of
  tools, middleware or callers. `Served` alone assumes more, in its premise
  `AwaitsAnswered`: every await inside `executeTask` settles. That is an
  assumption on middleware and servers, since some requests carry no timeout.
* `RpcGuard!FairSpec`: time passes, timers fire, and an outstanding request is
  answered or its timeout fires. The number of 429s is bounded.
* `ContractEvents!FairSpec`: timers fire, and requests are answered or fail. The
  latter is an assumption on the server: `getLatestLedger` and `getEvents` carry
  no timeout.
* `TransactionTools!Spec`: fairness for the steps that await nothing or a request
  with a timeout (`Timed`: `loadAccount` and the simulation under `withTimeout`,
  the race in `submitTransaction`, axios with a timeout), and none for the others
  (`Untimed`). The second half of `TasksEnd` assumes of these that the servers
  answer, in its premise `ServersAnswer`.
* `WatcherSpec`: timers fire; that requests are answered or fail is again an
  assumption on the server; faults are bounded, as are the changes of the
  contract.
* `ServiceSpec`: the steps of start and shutdown, timers, the end of a lock,
  the delivery of a stream; and that a task ends and a post is answered or
  fails. The last is an assumption: axios is called without a timeout. That a
  lock ends is assumed here and shown in `RpcGuard`, where the 429s of webhooks
  are among those that renew it (`NoStrandedCall`, `CallAnswered`); so what
  `HooksEnd` itself shows is the bound on the attempts, and that no webhook
  leaves tasks behind.

Callers, signals, users and the chain are never assumed to act.

## 4. What is proved

All proofs hold for every value of the constants allowed by the named
assumptions, which are the ranges of the configuration.

* **`EscrowProofs`**: type correctness, `Solvent`, `DepositAccounted`,
  `ActiveOwesSomething`, `NoEarlyTakeover`, the action property
  `RotationAnnounced` (each a theorem of its own), and that `Escrow` implements `EscrowPromise`. The inductive
  invariant adds that the terms are stored together; solvency needs the
  accounting of the deposit, since a payment is bounded by what is still owed.
  The module also holds the theorems of the tool that watches a contract's
  storage, **`StorageWatcher`**: `EventsExplainCache`, `ChainsAlive` with the
  types, and that it implements `WatcherPromise`. The invariant gives every
  pending timer, poll in flight and done event a chain of its own
  (`ChainsApart`), and says that of the polls beyond maxPolls none has ended while
  the watcher watches (`PollsCounted`). The refinement maps the states that are
  read and not yet reported to the answers in flight (`Snapshots`): the reading
  of the server, an answer, an answer cut short by a listener and a failed request
  are the steps of the promise, and all else is not seen by the listeners.
* **`AgentDispatchProofs`**: types, exact slots, no lost wake-up, no barging,
  that a clean exit leaves no task unfinished, and that a reported success was
  recorded. `SlotsExact` is not inductive by
  itself: that a queued task is in the queue once (`QueueMatches`) is needed to
  count the slot it takes, and `IdleOnceDrained` carries the emptiness found by
  `waitForPendingTasks` over the closing phase. `SuccessRecorded` needs to know
  what has happened by the time the `finally` of `executeTask` runs
  (`RecordedFirst`).
* **`RpcGuardProofs`**: types, no stranded call, and the action properties lock
  honoured and no request under the lock. The invariant
  orders the timers: all belong to 429s that have arrived, and the timer of the
  latest is due exactly when the lock ends, unless its delay overflowed
  (`TimersOrdered`).
* **`PaymentSubmitProofs`**: types, at most once, success has landed. The
  invariant says that a payment that has landed still holds the transaction that
  landed (`LandedIsCurrent`), and that an answer of Horizon is true of it
  (`AnswersTrue`); so a payment is rebuilt only when its transaction has not
  landed and never will. This rests on two assumptions on Horizon that the module
  states: it answers a transaction that has landed with its result, and a request
  that failed for the client is not delivered later.
* **`X402Proofs`**: types; `RecordedBlocks`, with any concurrency, crashes and
  failures, when the TTLs cover the life of challenges; `PaidOnce` for any
  concurrency, which says of which calls a double payment can come;
  `ProofRecorded`; and `AtMostTwiceTheLimit`. `Dated` (a row is not older than the issue of its challenge)
  makes the first inductive, `SoloCalls` (what a call that has met no other knows
  of the store) the second, `OnTheWay` (what each stage of a call has behind it)
  the third, and `WindowCounts` the last: a stretch of time that begins with the
  limiter's window or after it has admitted no more than the counter says, one
  that reaches further back a window more, and one more per restart.
* **`ContractEventsProofs`**: types and the four invariants of the run. They are
  inductive together with where a listener stands in the chain (`Reading`: unless
  onEvent threw, nothing it has handed out is past its cursor), that a stopped
  listener has no timer and has handed out nothing since unless its request was
  answered (`Stopped`), and that the attempts it counts are failed polls of the
  current outage (`Attempts`). The module also holds the theorems of the
  process around the agent, **`Service`** with `Config` and `Streams`:
  `ValidatedBeforeUse`, `DeliveredOnce` (with the types) and `StreamGuarded`. The
  invariant adds what the place of the process tells of its configuration
  (`ConfigPlaced`: a program that waits for the Secrets Manager has no other key),
  that the receiver took a webhook once for every post it took without a 2xx
  arriving and once more if it was delivered, and never more often than it was
  posted (`HooksCounted`), and that streams deliver what was posted
  (`StreamsRead`).
* **`SpendingWindowProofs`**: types, `WindowMirrored`, `SpentWithinLimit`. The
  invariant states both of every part of the window, back to any cutoff
  (`Accounted`), because the clock moves the cutoff on; it relates three sums:
  what was let through plus the amounts below zero is at most what is on record
  in memory and, if nothing was lost, in the table. Negative amounts, failing
  SQLite calls and restarts are all in it.
* **`TransactionToolsProofs`**: `MovedWasCounted`, `ReportedLanded` (with the
  types) and `RecoveryHeals`, for every set of tasks. Three arguments meet in
  the invariant. The programs: whatever its input, a tool sends in its last step
  or polls after it, builds only what it has loaded, and a guarded one has
  counted before it sends (`SendsLast`, `Sound`); this is proved of every program
  of `ToolPrograms` and of every rest of one. The numbers: whatever has the
  number of a task, in a slot, in the network or on the ledger, is its one
  transaction (`OneEach`). The money: some `rest` reserves the amount of every
  task that has passed the guard and has not landed, and what has landed plus all
  reserves is within both what is counted and the limit (`Reserved`); counting
  makes a reserve, landing uses it up. `RecoveryHeals` follows from `Alone` and
  `Healed`: while a task is alone, only its own transaction moves the sequence
  number. `TaskAssumption` takes the amounts of payments and debits as not
  negative: one below zero lowers the window before the schema refuses it, and
  what that is worth is the subject of `SpendingWindow`.

Sums and filters (`Total`, `Sum`, `At`) are recursive functions. What they
compute is proved by induction all the same, from the least counterexample
(`WFMin` of `WellFoundedInduction`) applied to a set instead of a predicate
(`NatSetInduction`); the induction theorems with an operator parameter are not
used.

Every invariant, action property and refinement that a passing run checks is
proved. Only model-checked is liveness, which is outside the prover's reach:
`Served`, `ShutdownEnds`, `CallAnswered`,
`EventuallyDelivered`, `TasksEnd`, `Converges`, `WatchEnds`, `HooksEnd` and
`ChallengeHandedOut`.

## 5. What is not modelled

Wording, logging, telemetry, redaction, signatures and hashes; schemas except
that they refuse; wire formats of Horizon and XDR; the operations inside a
transaction beyond what they move.

* The query tools that the switch of `executeTask` does not reach: one
  request and a mapping of its answer, no state shared with anything else. The
  TTL cache of `StellarTomlTool` stores what it has just fetched.
* The routes of the health server: each maps a request to a status from what
  another module holds. The handlers with probes are not reachable.
* The circuit breaker (`createRpcBreaker`): the opossum library, called by
  nothing in the repository.
* Scripts, examples, and the generated `dist/`, which is an older backend.

## 6. Plan

Done: the specifications above, in the order of their weight for the money the
agent moves, the compositions `TransactionTools` and `Service`, and eight proof
modules. What is left:

1. A composition of `X402` and `SpendingWindow`: what a refused or failed
   challenge leaves in the window.
