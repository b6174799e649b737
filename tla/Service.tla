------------------------------ MODULE Service -------------------------------
(***************************************************************************)
(* The process around the agent: configuration at import                   *)
(* (backend/config.ts), start and shutdown (backend/index.ts), the health  *)
(* server (backend/server.ts), the streams, and the webhooks that follow   *)
(* every task (backend/webhook.ts), with the rate-limit lock that they     *)
(* share with the calls of the agent (backend/network.ts).                 *)
(*                                                                         *)
(* A program either starts the service or imports config.ts alone and      *)
(* awaits configPromise, as the tests do.  Tasks are abstract here: they   *)
(* run, wait for the lock when they call Horizon, and end with a call of   *)
(* dispatchWebhook that nobody awaits.  AgentDispatch has their detail.    *)
(*                                                                         *)
(* External: the Secrets Manager, the receiver of the webhooks, the port.  *)
(* The receiver may have taken a post whatever the answer is, and also if  *)
(* the process ends before one comes; only a 2xx says that it did.         *)
(***************************************************************************)
EXTENDS Config, Streams, FiniteSets

CONSTANTS Environments, Secrets,   \* what the process may find
          Tasks,
          MaxAttempts              \* of dispatchWebhook: 3

ASSUME ServiceAssumption ==
  /\ Environments \subseteq Environment /\ Secrets \subseteq Secret
  /\ IsFiniteSet(Tasks) /\ MaxAttempts \in Nat \ {0}

VARIABLES
  env, program,   \* the environment; "service" or "library"
  proc,           \* "import", "clients", "start", "up", "library", "draining", "closing", "down"
  cfg,            \* _config and _configError: "unset", "ok" or "error"
  key,            \* process.env.AGENT_SECRET_KEY
  exit,           \* "no", or how the process ended: "0", "1", "signal"
  server,         \* the health server: "none", "binding", "open" or "closed"
  locked,         \* is the rate-limit lock held?
  at,             \* each task, and then its webhook
  attempt,        \* the attempt of the webhook
  received,       \* history: how often the receiver took the webhook
  unheard         \* history: how often it did so and no 2xx said so

boot  == <<env, program, cfg, key>>
hooks == <<at, attempt, received, unheard>>
serviceVars  == <<boot, proc, exit, server, locked, hooks, streams>>

Final == {"delivered", "refused", "exhausted", "skipped", "lost"}

ServiceInit ==
  /\ env \in Environments /\ program \in {"service", "library"}
  /\ proc = "import" /\ cfg = "unset" /\ key = env.secretKey
  /\ exit = "no" /\ server = "none" /\ locked = FALSE
  /\ at = [t \in Tasks |-> "idle"] /\ attempt = [t \in Tasks |-> 0]
  /\ received = [t \in Tasks |-> 0] /\ unheard = [t \in Tasks |-> 0]
  /\ StreamsInit

\* process.exit or an uncaught exception: nothing of the process goes on.  A
\* webhook that is posted or waits for its next attempt is not sent again; one
\* that is on its way may still be taken.
Exit(code) ==
  /\ proc' = "down" /\ exit' = code
  /\ server' = IF server = "none" THEN "none" ELSE "closed"
  /\ at' = [t \in Tasks |-> IF at[t] \in {"posting", "waiting", "running"} THEN "lost" ELSE at[t]]
  /\ streamStop' = FALSE /\ open' = <<>> /\ closeStreamFn' = FALSE /\ effects' = <<>>
  /\ \E taken \in SUBSET {t \in Tasks : at[t] = "posting"} :
       /\ received' = [t \in Tasks |-> received[t] + IF t \in taken THEN 1 ELSE 0]
       /\ unheard' = [t \in Tasks |-> unheard[t] + IF t \in taken THEN 1 ELSE 0]
  /\ UNCHANGED <<locked, attempt, posted, handed>>

Goto(where) ==
  proc' = where /\ UNCHANGED <<exit, server, locked, hooks, streams>>

-----------------------------------------------------------------------------
(* config.ts, and the imports and start() of index.ts.                     *)

AfterImport == IF program = "service" THEN "clients" ELSE "library"

Both == env.secretKey # "none" /\ env.arn

\* Mutant of ImportConfig: a key in the environment is used although an ARN is
\* set as well.
MutImportConfig ==
  /\ proc = "import"
  /\ IF key = "none" /\ env.arn
     THEN cfg' = "unset" /\ Goto(AfterImport)
     ELSE IF parseConfigAndDerive(env, key)
          THEN cfg' = "ok" /\ Goto(AfterImport)
          ELSE UNCHANGED cfg /\ Exit("1")
  /\ UNCHANGED <<env, program, key>>

\* The module is evaluated: both sources of the key are an error to be thrown
\* later; a key alone, or none at all, is parsed at once; an ARN alone starts
\* the request that FetchSecret ends.
ImportConfig ==
  /\ proc = "import"
  /\ IF Both THEN cfg' = "error" /\ Goto(AfterImport)
     ELSE IF env.arn THEN cfg' = "unset" /\ Goto(AfterImport)
     ELSE IF parseConfigAndDerive(env, key) THEN cfg' = "ok" /\ Goto(AfterImport)
     ELSE UNCHANGED cfg /\ Exit("1")
  /\ UNCHANGED <<env, program, key>>

\* rpc_client.ts creates its clients while it is imported and so reads config,
\* in the same turn of the event loop: a configuration that is not there yet is
\* an exception in an import.
ImportClients ==
  /\ proc = "clients"
  /\ IF cfg = "ok" THEN Goto("start") ELSE Exit("1")
  /\ UNCHANGED boot

\* loadConfig after its await, in a program that gets this far.
FetchSecret ==
  /\ proc = "library" /\ cfg = "unset"
  /\ \E answer \in Secrets :
       IF ~Fetched(answer) THEN Exit("1") /\ UNCHANGED <<key, cfg>>
       ELSE /\ key' = ParsedSecret(answer)
            /\ IF parseConfigAndDerive(env, key')
               THEN cfg' = "ok" /\ Goto("library")
               ELSE UNCHANGED cfg /\ Exit("1")
  /\ UNCHANGED <<env, program>>

\* start(): telemetry, the agent, the server, and only then the handlers.
start ==
  /\ proc = "start"
  /\ proc' = "up" /\ server' = "binding"
  /\ UNCHANGED <<boot, exit, locked, hooks, streams>>

Listening ==
  /\ server = "binding" /\ server' = "open"
  /\ UNCHANGED <<boot, proc, exit, locked, hooks, streams>>

\* The port is taken: the server emits an error nobody listens to.
ListenFails == server = "binding" /\ Exit("1") /\ UNCHANGED boot

-----------------------------------------------------------------------------
(* Tasks and their webhooks.                                               *)

RunTask(t) ==
  /\ proc = "up" /\ at[t] = "idle"
  /\ at' = [at EXCEPT ![t] = "running"]
  /\ UNCHANGED <<boot, proc, exit, server, locked, attempt, received, unheard, streams>>

\* Its call passed the rate-limit lock, and run() ends with dispatchWebhook.
TaskEnds(t) ==
  /\ proc \in {"up", "draining"} /\ at[t] = "running" /\ ~locked
  /\ at' = [at EXCEPT ![t] = IF env.webhook THEN "posting" ELSE "skipped"]
  /\ attempt' = [attempt EXCEPT ![t] = IF env.webhook THEN 1 ELSE 0]
  /\ UNCHANGED <<boot, proc, exit, server, locked, received, unheard, streams>>

Answers == {"2xx", "429", "4xx", "5xx", "network"}

isRetryableWebhookError(a) == a \in {"429", "5xx", "network"}

\* Mutant of AfterAnswer: the loop goes on after a delivery.
MutAfterAnswer(t, a) ==
  IF a = "4xx" THEN "refused"
  ELSE IF attempt[t] < MaxAttempts THEN "waiting"
  ELSE IF a = "2xx" THEN "delivered" ELSE "exhausted"

\* The end of one round of the loop of dispatchWebhook.
AfterAnswer(t, a) ==
  IF a = "2xx" THEN "delivered"
  ELSE IF ~isRetryableWebhookError(a) THEN "refused"
  ELSE IF attempt[t] < MaxAttempts THEN "waiting" ELSE "exhausted"

\* A 429 of the receiver takes the lock of the agent's own calls as well.  A
\* gateway may answer 502 or 504 for a receiver that took the post.
Answer(t, a) ==
  /\ proc # "down" /\ at[t] = "posting"
  /\ at' = [at EXCEPT ![t] = AfterAnswer(t, a)]
  /\ locked' = (locked \/ a = "429")
  /\ \E taken \in BOOLEAN :
       /\ a = "2xx" => taken
       /\ taken => received[t] < MaxAttempts    \* bound of the history
       /\ received' = [received EXCEPT ![t] = @ + IF taken THEN 1 ELSE 0]
       /\ unheard' = [unheard EXCEPT ![t] = @ + IF taken /\ a # "2xx" THEN 1 ELSE 0]
  /\ UNCHANGED <<boot, proc, exit, server, attempt, streams>>

\* Mutant of Retry: the loop forgets to count.
MutRetry(t) ==
  /\ proc # "down" /\ at[t] = "waiting"
  /\ at' = [at EXCEPT ![t] = "posting"]
  /\ UNCHANGED <<boot, proc, exit, server, locked, attempt, received, unheard, streams>>

\* The delay of the back-off is over; it does not depend on the lock.
Retry(t) ==
  /\ proc # "down" /\ at[t] = "waiting"
  /\ at' = [at EXCEPT ![t] = "posting"]
  /\ attempt' = [attempt EXCEPT ![t] = @ + 1]
  /\ UNCHANGED <<boot, proc, exit, server, locked, received, unheard, streams>>

\* The lock ends.  How, with its timers, renewals and generations, is RpcGuard's.
Unlock ==
  /\ locked /\ proc # "down"
  /\ locked' = FALSE
  /\ UNCHANGED <<boot, proc, exit, server, hooks, streams>>

-----------------------------------------------------------------------------
(* shutdown(), which waits for the tasks and not for their webhooks.       *)

\* A second signal finds isShuttingDown; one before the handlers are there
\* ends the process.
Signal ==
  /\ IF proc = "up" THEN Goto("draining")
     ELSE proc \in {"start", "library"} /\ Exit("signal")
  /\ UNCHANGED boot

Drained ==
  /\ proc = "draining"
  /\ \A t \in Tasks : at[t] # "running"
  /\ proc' = "closing" /\ server' = "closed"
  /\ UNCHANGED <<boot, exit, locked, hooks, streams>>

\* The server, the database and telemetry are closed, or one of them fails.
Released ==
  /\ proc = "closing"
  /\ \E code \in {"0", "1"} : Exit(code)
  /\ UNCHANGED boot

HardKill == proc \in {"draining", "closing"} /\ Exit("1") /\ UNCHANGED boot

\* An error of a balance stream that nobody listens to is thrown; otherwise
\* only the listener sees it.
BalanceError ==
  /\ effects # <<>> /\ proc # "down" /\ Exit("1") /\ UNCHANGED boot

\* shutdown() leaves the streams alone.
Alive == {"up", "draining", "closing"}

StreamStep ==
  /\ proc \in Alive /\ StreamsNext
  /\ UNCHANGED <<boot, proc, exit, server, locked, hooks>>

Start == ImportConfig \/ ImportClients \/ FetchSecret \/ start \/ Listening

Webhook(t) == (\E a \in Answers : Answer(t, a)) \/ Retry(t)

ServiceNext ==
  \/ Start \/ ListenFails \/ Signal \/ Drained \/ Released \/ HardKill
  \/ \E t \in Tasks : RunTask(t) \/ TaskEnds(t) \/ Webhook(t)
  \/ Unlock \/ StreamStep \/ BalanceError

Deliver ==
  /\ proc \in Alive /\ \E i \in DOMAIN open : onmessage(i)
  /\ UNCHANGED <<boot, proc, exit, server, locked, hooks>>

\* The event loop goes on, a post is answered or fails, timers fire, and an
\* open stream delivers what is on the ledger.  Nobody has to run a task, to
\* listen or to send a signal.
ServiceSpec ==
  /\ ServiceInit /\ [][ServiceNext]_serviceVars
  /\ WF_serviceVars(Start) /\ WF_serviceVars(Drained) /\ WF_serviceVars(Released) /\ WF_serviceVars(HardKill)
  /\ WF_serviceVars(Unlock) /\ WF_serviceVars(Deliver)
  /\ \A t \in Tasks : WF_serviceVars(TaskEnds(t)) /\ WF_serviceVars(Webhook(t))

-----------------------------------------------------------------------------
(* Properties.                                                             *)

ServiceTypeOK ==
  /\ program \in {"service", "library"}
  /\ proc \in {"import", "clients", "start", "up", "library", "draining", "closing", "down"}
  /\ cfg \in {"unset", "ok", "error"} /\ key \in {"none", "valid", "invalid"}
  /\ exit \in {"no", "0", "1", "signal"} /\ (exit = "no" <=> proc # "down")
  /\ server \in {"none", "binding", "open", "closed"} /\ locked \in BOOLEAN
  /\ at \in [Tasks -> Final \cup {"idle", "running", "posting", "waiting"}]
  /\ attempt \in [Tasks -> 0 .. MaxAttempts]
  /\ posted \in 0 .. Len(Memos) /\ handed \subseteq 1 .. posted
  /\ streamStop \in BOOLEAN /\ closeStreamFn \in BOOLEAN

\* Whoever gets at a configuration, the service that binds its port or a program
\* that imported config.ts alone, gets one whose key came from one source, is
\* the key of the public key that was asked for, and respects the cap.
ValidatedBeforeUse ==
  cfg = "ok" \/ server # "none" =>
    /\ cfg = "ok" /\ key = "valid" /\ env.rest
    /\ env.publicKey \in {"none", "derived"}
    /\ env.mainnet => env.limit <= MAINNET_CAP
    /\ env.arn <=> env.secretKey = "none"

\* The receiver takes a webhook more than once only if it did not say so with a
\* 2xx before, and not more often than there were attempts; a webhook counts as
\* delivered only if the receiver took it and said so, and is not sent again.
DeliveredOnce ==
  /\ ServiceTypeOK
  /\ \A t \in Tasks :
       /\ received[t] <= attempt[t]
       /\ received[t] <= 1 + unheard[t]
       /\ received[t] > unheard[t] <=> at[t] = "delivered"

\* Every task ends, and then its webhook: taken, refused, given up, or lost with
\* the process.  The attempts of a webhook are limited, so a receiver that answers
\* 429 each time takes the lock a limited number of times; that the lock ends when
\* nobody takes it again is assumed here.
HooksEnd ==
  \A t \in Tasks : at[t] \in {"running", "posting", "waiting"} ~> at[t] \in Final

\* An agent that listens gets every valid challenge that is on the ledger, past
\* payments without one, memos that do not parse and callbacks that throw.
ChallengeHandedOut ==
  \A n \in DOMAIN Memos :
    Memos[n] = "valid" => (streamStop /\ n <= posted ~> n \in handed \/ ~streamStop)

-----------------------------------------------------------------------------
(* An inductive invariant of ServiceSpec that implies the three invariants. *)

\* Where the process stands tells what became of the configuration.
ConfigPlaced ==
  /\ env \in Environments
  /\ proc = "import" => cfg = "unset" /\ key = env.secretKey /\ server = "none"
  /\ proc \in {"clients", "library", "start"} => server = "none"
  /\ proc \in {"start", "up", "draining", "closing"} \/ server # "none" => cfg = "ok"
  /\ proc = "library" /\ cfg = "unset" => env.arn /\ env.secretKey = "none"
  /\ cfg = "ok" => parseConfigAndDerive(env, key) /\ (env.arn <=> env.secretKey = "none")

\* The receiver took a webhook once for each time that no 2xx said so, and once
\* more if it was delivered; the attempt under way is not among these.
HooksCounted ==
  /\ received \in [Tasks -> Nat] /\ unheard \in [Tasks -> Nat]
  /\ \A t \in Tasks :
       /\ received[t] = unheard[t] + IF at[t] = "delivered" THEN 1 ELSE 0
       /\ at[t] = "waiting" => attempt[t] < MaxAttempts
       /\ received[t] <= attempt[t]
       /\ at[t] = "posting" => received[t] < attempt[t]
       /\ at[t] \in {"idle", "running"} => received[t] = 0

\* What is read was posted.
StreamsRead ==
  /\ open \in Seq(Nat) /\ effects \in Seq(Accounts) /\ StreamGuarded
  /\ \A i \in DOMAIN open : open[i] <= posted

\* Inductive: see ServiceInvariant.
ServiceIInv == ServiceTypeOK /\ ConfigPlaced /\ HooksCounted /\ StreamsRead
=============================================================================
