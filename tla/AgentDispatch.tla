---------------------------- MODULE AgentDispatch ----------------------------
(***************************************************************************)
(* PayFiAgent.run and executeTask (backend/agent.ts), the persistence of   *)
(* results (backend/persistence.ts), and the shutdown sequence of the      *)
(* process (backend/index.ts, backend/db/client.ts).                       *)
(*                                                                         *)
(* JavaScript runs one callback at a time, so an action is what the code   *)
(* does between two awaits.  Each element of Tasks is one call of run().   *)
(* What a tool does is its promise resolving or rejecting; the spending    *)
(* guard and an unknown task type are rejections.  Middleware is code of   *)
(* the embedding program: it may call next(), return a result of its own,  *)
(* or throw, before or after next().                                       *)
(*                                                                         *)
(* Faults names what may go wrong outside the tools:                       *)
(*   "save"      saveResult throws (SQLite locked, disk full)              *)
(*   "listener"  a listener of task:complete, task:failed or               *)
(*               task:retry_exhausted throws; emit() is synchronous, so    *)
(*               the exception reaches executeTask                         *)
(*   "close"     closing the health server or telemetry fails              *)
(***************************************************************************)
EXTENDS Integers, Sequences, FiniteSets

CONSTANTS Tasks,                 \* the calls of run()
          Sequence,              \* those of them made by a call of runSequence()
          MAX_CONCURRENT_TASKS,
          QUEUE_CAPACITY,
          Middleware,            \* is a middleware registered (agent.use)?
          Faults

ASSUME DispatchAssumption ==
  /\ IsFiniteSet(Tasks) /\ Sequence \in Seq(Tasks)
  /\ MAX_CONCURRENT_TASKS \in Nat \ {0}
  /\ QUEUE_CAPACITY \in Nat
  /\ Middleware \in BOOLEAN
  /\ Faults \subseteq {"save", "listener", "close"}

VARIABLES
  activeTasks, isDraining, taskQueue,  \* fields of PayFiAgent
  pc,        \* where the execution of each task stands
  result,    \* what the chain returned: "ok", "failed", or it "threw"
  answer,    \* what the caller of run() got
  events,    \* the task:complete / task:failed events of each task
  hooks,     \* the results handed to dispatchWebhook for each task
  saved,     \* the tasks with a row in agent_results
  phase,     \* progress of shutdown()
  exit,      \* how the process ended
  accepted,  \* history: the order in which run() accepted tasks
  started,   \* history: the order in which executeTask began
  waited     \* history: the tasks that went through the queue

agent   == <<activeTasks, isDraining, taskQueue>>
outputs == <<result, events, hooks, saved>>
process == <<phase, exit>>
vars == <<agent, pc, outputs, answer, process, accepted, started, waited>>

\* Where a task is that occupies one of the MAX_CONCURRENT_TASKS slots.
Executing == {"middleware", "tool", "post", "finally"}
InFlight == {t \in Tasks : pc[t] \in Executing}
Entered  == {t \in Tasks : pc[t] \notin {"new", "rejected"}}

FirstStage == IF Middleware THEN "middleware" ELSE "tool"
AfterTool  == IF Middleware THEN "post" ELSE "finally"

Init ==
  /\ activeTasks = 0 /\ isDraining = FALSE /\ taskQueue = <<>>
  /\ pc = [t \in Tasks |-> "new"]
  /\ result = [t \in Tasks |-> "none"] /\ answer = [t \in Tasks |-> "none"]
  /\ events = [t \in Tasks |-> <<>>] /\ hooks = [t \in Tasks |-> <<>>]
  /\ saved = {}
  /\ phase = "up" /\ exit = "no"
  /\ accepted = <<>> /\ started = <<>> /\ waited = {}

-----------------------------------------------------------------------------
(* run()                                                                   *)

\* A call that is refused resolves at once: no event, no row, no webhook.
Refuse(t) ==
  /\ pc' = [pc EXCEPT ![t] = "rejected"]
  /\ answer' = [answer EXCEPT ![t] = "rejected"]
  /\ UNCHANGED <<agent, outputs, process, accepted, started, waited>>

\* Mutant of HasRoom: off by one at the bound of the queue.
MutHasRoom == QUEUE_CAPACITY > 0 /\ Len(taskQueue) <= QUEUE_CAPACITY

HasRoom == QUEUE_CAPACITY > 0 /\ Len(taskQueue) < QUEUE_CAPACITY

RunDraining(t) == isDraining /\ Refuse(t)

RunAtCapacity(t) ==
  /\ ~isDraining /\ activeTasks >= MAX_CONCURRENT_TASKS
  /\ ~HasRoom
  /\ Refuse(t)

RunQueued(t) ==
  /\ ~isDraining /\ activeTasks >= MAX_CONCURRENT_TASKS
  /\ HasRoom
  /\ taskQueue' = Append(taskQueue, t)
  /\ pc' = [pc EXCEPT ![t] = "queued"]
  /\ accepted' = Append(accepted, t)
  /\ waited' = waited \cup {t}
  /\ UNCHANGED <<activeTasks, isDraining, outputs, answer, process, started>>

RunNow(t) ==
  /\ ~isDraining /\ activeTasks < MAX_CONCURRENT_TASKS
  /\ activeTasks' = activeTasks + 1
  /\ pc' = [pc EXCEPT ![t] = FirstStage]
  /\ accepted' = Append(accepted, t)
  /\ started' = Append(started, t)
  /\ UNCHANGED <<isDraining, taskQueue, outputs, answer, process, waited>>

\* runSequence() awaits each run() and goes on only after a success.
SequenceReaches(t) ==
  \A i \in 2 .. Len(Sequence) : Sequence[i] = t => answer[Sequence[i - 1]] = "ok"

run(t) ==
  /\ pc[t] = "new" /\ SequenceReaches(t)
  /\ RunDraining(t) \/ RunAtCapacity(t) \/ RunQueued(t) \/ RunNow(t)

-----------------------------------------------------------------------------
(* executeTask(): the possible outcomes of its synchronous parts.          *)

Outcome(ev, hk, sv, res, next) ==
  [events |-> ev, hooks |-> hk, saved |-> sv, result |-> res, pc |-> next]

Before(ev, outcomes) == {[o EXCEPT !.events = <<ev>> \o o.events] : o \in outcomes}

\* The outer catch: emits task:retry_exhausted if the error is of the RPC, then
\* task:failed; if a listener of either throws, executeTask rejects.
OuterCatch ==
  {Outcome(<<"failed">>, <<"failed">>, FALSE, "failed", "finally")}
  \cup (IF "listener" \in Faults
        THEN {Outcome(ev, <<>>, FALSE, "threw", "finally") : ev \in {<<>>, <<"failed">>}} ELSE {})

\* The inner catch: emits task:failed; if that throws, the outer one runs too.
InnerCatch ==
  {Outcome(<<"failed">>, <<"failed">>, FALSE, "failed", AfterTool)}
  \cup (IF "listener" \in Faults THEN Before("failed", OuterCatch) ELSE {})

\* Mutant of Completion: an exception of saveResult is swallowed.
MutSaveErrorSwallowed ==
  {Outcome(<<"complete">>, <<"ok">>, sv, "ok", AfterTool) : sv \in {TRUE, "save" \notin Faults}}

\* The tool succeeded: emit task:complete, saveResult, dispatchWebhook, in this
\* order; an exception of the first two ends in the inner catch.
Completion ==
  {Outcome(<<"complete">>, <<"ok">>, TRUE, "ok", AfterTool)}
  \cup (IF Faults \cap {"save", "listener"} # {}
        THEN Before("complete", InnerCatch) ELSE {})

Apply(t, o) ==
  /\ events' = [events EXCEPT ![t] = @ \o o.events]
  /\ hooks' = [hooks EXCEPT ![t] = @ \o o.hooks]
  /\ saved' = IF o.saved THEN saved \cup {t} ELSE saved
  /\ result' = [result EXCEPT ![t] = o.result]
  /\ pc' = [pc EXCEPT ![t] = o.pc]
  /\ UNCHANGED <<agent, answer, process, accepted, started, waited>>

ToolResolves(t) == pc[t] = "tool" /\ \E o \in Completion : Apply(t, o)
ToolRejects(t)  == pc[t] = "tool" /\ \E o \in InnerCatch : Apply(t, o)

MiddlewareCallsNext(t) ==
  /\ pc[t] = "middleware"
  /\ pc' = [pc EXCEPT ![t] = "tool"]
  /\ UNCHANGED <<agent, outputs, answer, process, accepted, started, waited>>

\* Returning without next(), or with what next() gave or something else.
MiddlewareReturns(t) ==
  /\ pc[t] \in {"middleware", "post"}
  /\ \E res \in {"ok", "failed"} : Apply(t, Outcome(<<>>, <<>>, FALSE, res, "finally"))

MiddlewareThrows(t) ==
  /\ pc[t] \in {"middleware", "post"}
  /\ \E o \in OuterCatch : Apply(t, o)

\* Mutant of DispatchesNext: the limit is compared before the slot is freed.
MutDispatchTooEarly == taskQueue # <<>> /\ activeTasks < MAX_CONCURRENT_TASKS

\* dispatchQueued(): the head of the queue takes the slot that became free.
DispatchesNext == taskQueue # <<>> /\ activeTasks - 1 < MAX_CONCURRENT_TASKS

\* The finally block and the resolution of run()'s promise.  A queued call is
\* resolved through .then(next.resolve) only: when executeTask rejects, nobody
\* handles the rejection and Node ends the process.
Finally(t) ==
  /\ pc[t] = "finally"
  /\ IF DispatchesNext
     THEN LET next == Head(taskQueue)
          IN  /\ taskQueue' = Tail(taskQueue)
              /\ started' = Append(started, next)
              /\ pc' = [pc EXCEPT ![t] = "done", ![next] = FirstStage]
              /\ UNCHANGED activeTasks
     ELSE /\ activeTasks' = activeTasks - 1
          /\ pc' = [pc EXCEPT ![t] = "done"]
          /\ UNCHANGED <<taskQueue, started>>
  /\ IF result[t] = "threw" /\ t \in waited
     THEN exit' = "crash" /\ UNCHANGED answer
     ELSE answer' = [answer EXCEPT ![t] = result[t]] /\ UNCHANGED exit
  /\ UNCHANGED <<isDraining, outputs, phase, accepted, waited>>

-----------------------------------------------------------------------------
(* drain() and shutdown().  The isShuttingDown flag of the code is          *)
(* phase # "up".                                                           *)

task == <<activeTasks, taskQueue, pc, outputs, answer, accepted, started, waited>>

drain == isDraining' = TRUE /\ UNCHANGED <<task, process>>

Signal ==
  /\ phase = "up"
  /\ phase' = "waiting" /\ isDraining' = TRUE
  /\ UNCHANGED <<task, exit>>

\* Mutant of PendingTasksDone: waits for the queue only.
MutWaitForQueueOnly ==
  /\ phase = "waiting"
  /\ taskQueue = <<>>
  /\ phase' = "closing"
  /\ UNCHANGED <<task, isDraining, exit>>

\* waitForPendingTasks() returns at once or from its polling interval.
PendingTasksDone ==
  /\ phase = "waiting"
  /\ activeTasks = 0 /\ taskQueue = <<>>
  /\ phase' = "closing"
  /\ UNCHANGED <<task, isDraining, exit>>

\* healthServer.close(), db.close(), shutdownTelemetry(), process.exit().
ReleaseResources ==
  /\ phase = "closing"
  /\ phase' = "closed"
  /\ exit' \in {"clean"} \cup (IF "close" \in Faults THEN {"error"} ELSE {})
  /\ UNCHANGED <<task, isDraining>>

\* Mutant of HardKill: the timer is armed only after the wait for tasks.
MutHardKillLate ==
  /\ phase = "closing"
  /\ phase' = "closed" /\ exit' = "error"
  /\ UNCHANGED <<task, isDraining>>

\* The HARD_KILL_MS timer.
HardKill ==
  /\ phase \in {"waiting", "closing"}
  /\ phase' = "closed" /\ exit' = "error"
  /\ UNCHANGED <<task, isDraining>>

Shutdown == Signal \/ PendingTasksDone \/ ReleaseResources \/ HardKill

Step(t) ==
  \/ ToolResolves(t) \/ ToolRejects(t)
  \/ MiddlewareCallsNext(t) \/ MiddlewareReturns(t) \/ MiddlewareThrows(t)
  \/ Finally(t)

Next ==
  /\ exit = "no"
  /\ (\E t \in Tasks : run(t) \/ Step(t)) \/ drain \/ Shutdown

Spec == Init /\ [][Next]_vars

\* Timers fire: the poll and the hard kill of shutdown().  Nothing is assumed
\* of tools, middleware or callers.
TimerSpec == Spec /\ WF_vars(exit = "no" /\ HardKill)

\* Every await inside executeTask is eventually answered.  This is an assumption
\* on middleware and on the servers: some requests of the tools carry no timeout
\* (see TransactionTools).  Served makes it, ShutdownEnds does not.
AwaitsAnswered == \A t \in Tasks : WF_vars(exit = "no" /\ Step(t))

-----------------------------------------------------------------------------
(* Properties.                                                             *)

Outcomes == {"ok", "failed", "threw"}

TypeOK ==
  /\ activeTasks \in Nat /\ isDraining \in BOOLEAN
  /\ taskQueue \in Seq(Tasks) /\ accepted \in Seq(Tasks) /\ started \in Seq(Tasks)
  /\ pc \in [Tasks -> {"new", "rejected", "queued", "done"} \cup Executing]
  /\ result \in [Tasks -> {"none"} \cup Outcomes]
  /\ answer \in [Tasks -> {"none", "rejected"} \cup Outcomes]
  /\ events \in [Tasks -> Seq({"complete", "failed"})]
  /\ hooks \in [Tasks -> Seq({"ok", "failed"})]
  /\ saved \subseteq Tasks /\ waited \subseteq Tasks
  /\ phase \in {"up", "waiting", "closing", "closed"}
  /\ exit \in {"no", "clean", "error", "crash"}

\* activeTasks, incremented when executeTask begins and decremented in its
\* finally block, counts exactly the tasks in flight, whichever way they end,
\* and neither the concurrency limit nor the queue bound is ever exceeded.
SlotsExact ==
  /\ activeTasks = Cardinality(InFlight)
  /\ activeTasks <= MAX_CONCURRENT_TASKS
  /\ Len(taskQueue) <= QUEUE_CAPACITY

\* No lost wake-up: dispatchQueued runs only when a task ends, so a task may
\* wait only while every slot is taken.
QueuedMeansBusy == taskQueue # <<>> => activeTasks = MAX_CONCURRENT_TASKS

\* The queue is a FIFO that nobody overtakes: tasks start in the order in
\* which run() accepted them, those that found a free slot included.
NoBarging == accepted = started \o taskQueue

\* process.exit(0) leaves no accepted task unfinished or unanswered, the ones
\* that were still queued when drain() was called included.
CleanExitFinishesAll ==
  exit = "clean" =>
    \A t \in Tasks : /\ pc[t] \in {"new", "rejected", "done"}
                     /\ pc[t] = "done" => answer[t] # "none"

\* When run() reports success (and no middleware answered in its place), the
\* task completed exactly once, has its row in agent_results, and its webhook
\* carries the success.  A task of a sequence touches nothing, not even a slot,
\* until all those before it are such successes: one that was refused, failed,
\* or whose row could not be written although its payment was made ends it.
SuccessRecorded ==
  ~Middleware =>
    /\ \A t \in Tasks : answer[t] = "ok" =>
         t \in saved /\ events[t] = <<"complete">> /\ hooks[t] = <<"ok">>
    /\ \A i, j \in 1 .. Len(Sequence) : i < j /\ pc[Sequence[j]] # "new" =>
         pc[Sequence[i]] = "done" /\ Sequence[i] \in saved

\* A call that came through the queue and whose executeTask rejected: its
\* rejection is unhandled.
Unhandled == \E t \in waited : pc[t] = "done" /\ result[t] = "threw"

\* If every await is answered, every accepted call of run() is answered too.
\* Only two ends of the process excuse a missing answer: the hard kill or a
\* failed close of shutdown(), and the unhandled rejection of a queued call.
\* A clean exit, and a rejection that its caller can handle, do not.
Served ==
  AwaitsAnswered =>
    \A t \in Tasks : (t \in Entered) ~> (answer[t] # "none" \/ exit = "error" \/ Unhandled)

\* A signal ends the process even when a tool never returns.
ShutdownEnds == (phase # "up") ~> (exit # "no")

\* The queue holds each waiting task once.
QueueMatches ==
  /\ \A i \in 1 .. Len(taskQueue) : pc[taskQueue[i]] = "queued"
  /\ \A i, j \in 1 .. Len(taskQueue) : taskQueue[i] = taskQueue[j] => i = j
  /\ \A t \in Tasks : pc[t] = "queued" => \E i \in 1 .. Len(taskQueue) : taskQueue[i] = t

\* Once waitForPendingTasks() returned, the agent stays idle.
IdleOnceDrained ==
  /\ phase # "up" => isDraining
  /\ phase = "closing" \/ exit = "clean" =>
       InFlight = {} /\ taskQueue = <<>> /\ isDraining
  /\ exit = "crash" => phase # "closing"

\* A finished task has an answer, unless its end was the end of the process.
FinishedAnswered ==
  \A t \in Tasks : /\ pc[t] = "finally" => result[t] # "none"
                   /\ pc[t] = "done" => answer[t] # "none" \/ exit = "crash"

\* What SuccessRecorded rests on: nothing is said of a task before its tool has
\* ended, the success of a task in its finally block is recorded already, and a
\* sequence got where it is through answers "ok".
RecordedFirst ==
  ~Middleware =>
    /\ \A t \in Tasks :
         /\ pc[t] \notin {"middleware", "post"}
         /\ pc[t] \in {"new", "rejected", "queued", "tool"} => events[t] = <<>> /\ hooks[t] = <<>>
         /\ answer[t] = "ok" => pc[t] = "done"
         /\ answer[t] = "ok" \/ (pc[t] = "finally" /\ result[t] = "ok") =>
              t \in saved /\ events[t] = <<"complete">> /\ hooks[t] = <<"ok">>
    /\ \A i, j \in 1 .. Len(Sequence) :
         i < j /\ pc[Sequence[j]] # "new" => answer[Sequence[i]] = "ok"

\* The inductive invariant.
IInv ==
  /\ TypeOK
  /\ SlotsExact
  /\ QueuedMeansBusy
  /\ NoBarging
  /\ QueueMatches
  /\ IdleOnceDrained
  /\ FinishedAnswered
=============================================================================
