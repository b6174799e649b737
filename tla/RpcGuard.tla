------------------------------ MODULE RpcGuard ------------------------------
(***************************************************************************)
(* Outbound calls of the agent: the rate-limit lock of backend/network.ts  *)
(* and the retry loop and timeout of backend/rpc_client.ts that run under  *)
(* it.  Each element of Calls is one                                       *)
(*     withBackoffGuard(() => withTimeout(withRetry(fn), RPC_TIMEOUT_MS))  *)
(* as in loadAccount and simulateSorobanTx.                                *)
(*                                                                         *)
(* Retry-After is measured in ticks of now.  Retry delays and RPC timeouts *)
(* are not timed: they end at any later moment.                            *)
(***************************************************************************)
EXTENDS Integers, Sequences

CONSTANTS Calls,
          MAX_RETRIES,
          RetryAfters,     \* the values a Retry-After header may carry
          MaxDelay,        \* the longest delay of a setTimeout, 2^31 - 1 ms
          MaxTime,         \* bound of the clock
          MaxGenerations   \* bound of the number of 429 responses

ASSUME RpcGuardAssumption ==
  /\ MAX_RETRIES \in Nat \ {0}
  /\ RetryAfters \subseteq Nat \ {0}
  /\ MaxDelay \in Nat /\ MaxTime \in Nat /\ MaxGenerations \in Nat

VARIABLES
  now,
  active, until, generation, queue,  \* globalBackoff
  timers,    \* the pending setTimeout callbacks of handleRateLimitResponse
  pc,        \* "new", "queued", "request", "sleeping", "over"
  attempt,   \* attempts of the retry loop
  answer     \* what the caller got

lock == <<active, until, generation, queue, timers>>
vars == <<now, lock, pc, attempt, answer>>

Throttled == active /\ now < until

Init ==
  /\ now = 0
  /\ active = FALSE /\ until = 0 /\ generation = 0 /\ queue = <<>>
  /\ timers = {}
  /\ pc = [c \in Calls |-> "new"]
  /\ attempt = [c \in Calls |-> 0]
  /\ answer = [c \in Calls |-> "none"]

-----------------------------------------------------------------------------
(* clearBackoff()                                                          *)

Waiting == {queue[i].call : i \in 1 .. Len(queue)}

\* The callbacks that were queued under the latest backoff.
Current == {queue[i].call : i \in {j \in 1 .. Len(queue) : queue[j].generation = generation}}

\* Mutant of Unlock: the queue is drained but not emptied.
MutUnlock == active' = FALSE /\ until' = 0 /\ UNCHANGED queue

Unlock == active' = FALSE /\ until' = 0 /\ queue' = <<>>

\* Mutant of Drained: callbacks of a superseded backoff are forgotten.
MutDrained(f, current, superseded) ==
  [c \in Calls |-> IF c \in Current THEN current ELSE f[c]]

\* Every queued callback runs: it starts its call when the backoff it waited
\* for is still the latest one, else it rejects.
Drained(f, current, superseded) ==
  [c \in Calls |-> IF c \in Current THEN current
                   ELSE IF c \in Waiting THEN superseded ELSE f[c]]

ClearBackoff ==
  /\ Unlock
  /\ pc' = Drained(pc, "request", "over")
  /\ attempt' = Drained(attempt, 1, 0)
  /\ answer' = Drained(answer, "none", "superseded")

\* Mutant of TimerCurrent: a timer clears the lock whatever its generation.
MutTimerCurrent(t) == TRUE

\* A timer superseded by a newer 429 does nothing.
TimerCurrent(t) == t.generation = generation

TimerFires ==
  \E t \in timers :
    /\ now >= t.at
    /\ timers' = timers \ {t}
    /\ IF TimerCurrent(t)
       THEN ClearBackoff /\ UNCHANGED <<now, generation>>
       ELSE UNCHANGED <<now, active, until, generation, queue, pc, attempt, answer>>

-----------------------------------------------------------------------------
(* handleRateLimitResponse()                                               *)

\* setTimeout with a delay it cannot represent fires at once.
TimerDelay(wait) == IF wait <= MaxDelay THEN wait ELSE 0

\* The lock is overwritten, also by a shorter wait than the one in force.
Activate(wait) ==
  /\ now + wait <= MaxTime /\ generation < MaxGenerations
  /\ active' = TRUE
  /\ until' = now + wait
  /\ generation' = generation + 1
  /\ timers' = timers \cup {[generation |-> generation + 1, at |-> now + TimerDelay(wait)]}
  /\ UNCHANGED queue

\* A webhook endpoint answers 429 (backend/webhook.ts).
WebhookRateLimited ==
  /\ \E wait \in RetryAfters : Activate(wait)
  /\ UNCHANGED <<now, pc, attempt, answer>>

-----------------------------------------------------------------------------
(* withBackoffGuard()                                                      *)

Enqueue(c) ==
  /\ pc[c] = "new" /\ Throttled
  /\ queue' = Append(queue, [call |-> c, generation |-> generation])
  /\ pc' = [pc EXCEPT ![c] = "queued"]
  /\ UNCHANGED <<now, active, until, generation, timers, attempt, answer>>

\* isThrottled() clears a lock that has expired before its timer has fired.
StartAfterExpiry(c) ==
  /\ pc[c] = "new" /\ active /\ now >= until
  /\ Unlock
  /\ pc' = [Drained(pc, "request", "over") EXCEPT ![c] = "request"]
  /\ attempt' = [Drained(attempt, 1, 0) EXCEPT ![c] = 1]
  /\ answer' = Drained(answer, "none", "superseded")
  /\ UNCHANGED <<now, generation, timers>>

Start(c) ==
  /\ pc[c] = "new" /\ ~active
  /\ pc' = [pc EXCEPT ![c] = "request"]
  /\ attempt' = [attempt EXCEPT ![c] = 1]
  /\ UNCHANGED <<now, lock, answer>>

-----------------------------------------------------------------------------
(* withRetry() and withTimeout()                                           *)

\* A caller that was already told of a timeout hears nothing more.
Answer(c, value) ==
  answer' = [answer EXCEPT ![c] = IF @ = "none" THEN value ELSE @]

RetryOrGiveUp(c) ==
  IF attempt[c] < MAX_RETRIES
  THEN pc' = [pc EXCEPT ![c] = "sleeping"] /\ UNCHANGED answer
  ELSE pc' = [pc EXCEPT ![c] = "over"] /\ Answer(c, "exhausted")

\* The request is answered, or fails with an error that is not retried.
Settles(c) ==
  /\ pc[c] = "request"
  /\ pc' = [pc EXCEPT ![c] = "over"]
  /\ \E value \in {"ok", "error"} : Answer(c, value)
  /\ UNCHANGED <<now, lock, attempt>>

\* The request fails with a retryable error.
Fails(c) ==
  /\ pc[c] = "request"
  /\ RetryOrGiveUp(c)
  /\ UNCHANGED <<now, lock, attempt>>

\* The request fails with a 429.
RateLimited(c) ==
  /\ pc[c] = "request"
  /\ \E wait \in RetryAfters : Activate(wait)
  /\ RetryOrGiveUp(c)
  /\ UNCHANGED <<now, attempt>>

\* The next attempt finds the lock taken: it fails without a request.
WakeThrottled(c) ==
  /\ pc[c] = "sleeping" /\ Throttled
  /\ attempt' = [attempt EXCEPT ![c] = @ + 1]
  /\ IF attempt[c] + 1 < MAX_RETRIES
     THEN UNCHANGED <<pc, answer>>
     ELSE pc' = [pc EXCEPT ![c] = "over"] /\ Answer(c, "exhausted")
  /\ UNCHANGED <<now, lock>>

WakeAfterExpiry(c) ==
  /\ pc[c] = "sleeping" /\ active /\ now >= until
  /\ Unlock
  /\ pc' = [Drained(pc, "request", "over") EXCEPT ![c] = "request"]
  /\ attempt' = [Drained(attempt, 1, 0) EXCEPT ![c] = @ + 1]
  /\ answer' = Drained(answer, "none", "superseded")
  /\ UNCHANGED <<now, generation, timers>>

\* Mutant of Wake: the loop does not look at the lock before an attempt.
MutWake(c) ==
  /\ pc[c] = "sleeping"
  /\ pc' = [pc EXCEPT ![c] = "request"]
  /\ attempt' = [attempt EXCEPT ![c] = @ + 1]
  /\ UNCHANGED <<now, lock, answer>>

Wake(c) ==
  /\ pc[c] = "sleeping" /\ ~active
  /\ pc' = [pc EXCEPT ![c] = "request"]
  /\ attempt' = [attempt EXCEPT ![c] = @ + 1]
  /\ UNCHANGED <<now, lock, answer>>

\* withTimeout answers the caller; the retry loop goes on behind it.
TimesOut(c) ==
  /\ pc[c] \in {"request", "sleeping"} /\ answer[c] = "none"
  /\ answer' = [answer EXCEPT ![c] = "timeout"]
  /\ UNCHANGED <<now, lock, pc, attempt>>

Tick == now < MaxTime /\ now' = now + 1 /\ UNCHANGED <<lock, pc, attempt, answer>>

Guard(c) == Enqueue(c) \/ StartAfterExpiry(c) \/ Start(c)
Loop(c)  == WakeThrottled(c) \/ WakeAfterExpiry(c) \/ Wake(c)
Reply(c) == Settles(c) \/ Fails(c) \/ RateLimited(c)

Next ==
  \/ \E c \in Calls : Guard(c) \/ Loop(c) \/ Reply(c) \/ TimesOut(c)
  \/ TimerFires \/ WebhookRateLimited \/ Tick

Spec == Init /\ [][Next]_vars

\* Time passes, timers fire, and an outstanding request is answered or times
\* out.  Nothing is assumed of callers and of when 429 responses stop, beyond
\* MaxGenerations.
FairSpec ==
  /\ Spec
  /\ WF_vars(Tick) /\ WF_vars(TimerFires)
  /\ \A c \in Calls : WF_vars(TimesOut(c))

-----------------------------------------------------------------------------
(* Properties.                                                             *)

Timers == [generation : Nat, at : Nat]

TypeOK ==
  /\ now \in Nat
  /\ active \in BOOLEAN /\ until \in Nat /\ generation \in Nat
  /\ queue \in Seq([call : Calls, generation : Nat])
  /\ timers \subseteq Timers
  /\ pc \in [Calls -> {"new", "queued", "request", "sleeping", "over"}]
  /\ attempt \in [Calls -> 0 .. MAX_RETRIES]
  /\ answer \in [Calls -> {"none", "ok", "error", "exhausted", "superseded", "timeout"}]

\* No queued call is stranded: while calls wait the lock is held, and a timer
\* that will still be accepted is pending for the moment the lock ends or, if
\* its delay overflowed, for an earlier one.
NoStrandedCall ==
  /\ \A c \in Calls : pc[c] = "queued" <=> c \in Waiting
  /\ queue # <<>> => active
  /\ active => \E t \in timers : t.generation = generation /\ t.at <= until

\* The delay of the timer of the lock in force was too long for setTimeout.
Overflowed == \E t \in timers : t.generation = generation /\ until - t.at > MaxDelay

\* Stale timers are harmless: the lock ends only once the latest Retry-After
\* has elapsed, whichever timers and expiry checks race for it, unless that
\* very Retry-After is beyond what setTimeout can wait.
LockHonoured == [][active /\ ~active' => now >= until \/ Overflowed]_vars

\* No request leaves while the lock is held, also when it is a retry or was
\* queued under an earlier backoff.
NoRequestUnderLock ==
  [][\A c \in Calls : attempt'[c] # attempt[c] /\ pc'[c] = "request"
       => ~(active' /\ now' < until')]_vars

\* Every call is answered, those queued behind a backoff that is renewed
\* again and again included.
CallAnswered == \A c \in Calls : (pc[c] # "new") ~> (answer[c] # "none")

\* Timers and queued callbacks belong to 429s that have arrived, and the timer
\* of the latest one is due when the lock ends unless its delay overflowed.
TimersOrdered ==
  /\ \A t \in timers : t.generation <= generation
  /\ \A t \in timers : active /\ t.generation = generation =>
       t.at = until \/ until - t.at > MaxDelay
  /\ \A i \in 1 .. Len(queue) : queue[i].generation <= generation

\* An answered call has left the queue; a caller waits for an answer until
\* its call is over.
Answered ==
  \A c \in Calls : /\ pc[c] \in {"new", "queued"} => answer[c] = "none" /\ attempt[c] = 0
                   /\ pc[c] = "sleeping" => attempt[c] < MAX_RETRIES
                   /\ pc[c] = "over" => answer[c] # "none"

IInv == TypeOK /\ NoStrandedCall /\ TimersOrdered /\ Answered
=============================================================================
