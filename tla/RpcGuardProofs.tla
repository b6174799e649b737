--------------------------- MODULE RpcGuardProofs ---------------------------
(***************************************************************************)
(* Proofs about RpcGuard, for any set of calls, any number of retries and  *)
(* any Retry-After values.                                                 *)
(***************************************************************************)
EXTENDS RpcGuard, TLAPS, SequenceTheorems

PCs == {"new", "queued", "request", "sleeping", "over"}
Answers == {"none", "ok", "error", "exhausted", "superseded", "timeout"}

\* Draining starts or rejects exactly the queued calls and touches no other.
LEMMA DrainFacts ==
  ASSUME IInv
  PROVE  /\ Drained(pc, "request", "over") \in [Calls -> PCs \ {"queued"}]
         /\ Drained(attempt, 1, 0) \in [Calls -> 0 .. MAX_RETRIES]
         /\ Drained(answer, "none", "superseded") \in [Calls -> Answers]
         /\ \A c \in Calls :
              \/ /\ pc[c] # "queued"
                 /\ Drained(pc, "request", "over")[c] = pc[c]
                 /\ Drained(attempt, 1, 0)[c] = attempt[c]
                 /\ Drained(answer, "none", "superseded")[c] = answer[c]
              \/ /\ Drained(pc, "request", "over")[c] = "request"
                 /\ Drained(answer, "none", "superseded")[c] = "none"
              \/ /\ Drained(pc, "request", "over")[c] = "over"
                 /\ Drained(answer, "none", "superseded")[c] = "superseded"
<1>1. \A c \in Calls : pc[c] = "queued" <=> c \in Waiting
  BY DEF IInv, NoStrandedCall
<1>2. Current \subseteq Waiting
  BY DEF Current, Waiting
<1>3. /\ pc \in [Calls -> PCs] /\ attempt \in [Calls -> 0 .. MAX_RETRIES]
      /\ answer \in [Calls -> Answers]
  BY DEF IInv, TypeOK, PCs, Answers
<1>4. 0 \in 0 .. MAX_RETRIES /\ 1 \in 0 .. MAX_RETRIES
  BY RpcGuardAssumption
<1> QED
  BY <1>1, <1>2, <1>3, <1>4 DEF Drained, PCs, Answers

\* An empty queue holds no call.
LEMMA EmptyQueue ==
  ASSUME queue' = <<>>
  PROVE  Waiting' = {} /\ queue' \in Seq([call : Calls, generation : Nat]) /\ Len(queue') = 0
<1>1. Len(queue') = 0 /\ queue' \in Seq([call : Calls, generation : Nat])
  OBVIOUS
<1> QED
  BY <1>1 DEF Waiting

\* No lock, no timer and no queued call.
LEMMA InitIInv == Init => IInv
<1> SUFFICES ASSUME Init PROVE IInv
  OBVIOUS
<1>1. Waiting = {}
  BY DEF Init, Waiting
<1>2. TypeOK
  <2>1. active \in BOOLEAN
    BY DEF Init
  <2>2. queue \in Seq([call : Calls, generation : Nat])
    BY DEF Init
  <2> QED
    BY <2>1, <2>2, RpcGuardAssumption DEF Init, TypeOK
<1>3. NoStrandedCall
  BY <1>1 DEF Init, NoStrandedCall
<1>4. TimersOrdered /\ Answered
  BY DEF Init, TimersOrdered, Answered
<1> QED
  BY <1>2, <1>3, <1>4 DEF IInv

-----------------------------------------------------------------------------
(* One lemma per kind of step.                                             *)

\* Steps that clear the lock: the timer of the latest 429, or an expiry check,
\* made by a call that thereby goes on itself.
LEMMA ClearIInv ==
  ASSUME IInv, ClearBackoff, timers' \subseteq timers, now' = now, generation' = generation
  PROVE  IInv'
<1>1. Waiting' = {} /\ queue' \in Seq([call : Calls, generation : Nat]) /\ Len(queue') = 0
  BY EmptyQueue DEF ClearBackoff, Unlock
<1>2. TypeOK'
  <2>1. active' \in BOOLEAN /\ until' \in Nat
    BY DEF ClearBackoff, Unlock
  <2>2. /\ pc' \in [Calls -> PCs] /\ attempt' \in [Calls -> 0 .. MAX_RETRIES]
        /\ answer' \in [Calls -> Answers]
    BY DrainFacts DEF ClearBackoff
  <2> QED
    BY <1>1, <2>1, <2>2 DEF IInv, TypeOK, PCs, Answers
<1>3. NoStrandedCall'
  <2>1. \A c \in Calls : pc'[c] # "queued"
    BY DrainFacts DEF ClearBackoff
  <2> QED
    BY <1>1, <2>1 DEF NoStrandedCall, ClearBackoff, Unlock
<1>4. TimersOrdered'
  BY <1>1 DEF IInv, TimersOrdered, ClearBackoff, Unlock
<1>5. Answered'
  BY DrainFacts DEF IInv, Answered, ClearBackoff
<1> QED
  BY <1>2, <1>3, <1>4, <1>5 DEF IInv

\* A call that finds the lock expired clears it and drains the queue.
LEMMA ClearAndGoIInv ==
  ASSUME IInv, NEW c \in Calls, pc[c] \in {"new", "sleeping"},
         Unlock, pc' = [Drained(pc, "request", "over") EXCEPT ![c] = "request"],
         attempt' = [Drained(attempt, 1, 0) EXCEPT ![c] = attempt[c] + 1],
         answer' = Drained(answer, "none", "superseded"),
         UNCHANGED <<now, generation, timers>>
  PROVE  IInv'
<1>1. Waiting' = {} /\ queue' \in Seq([call : Calls, generation : Nat]) /\ Len(queue') = 0
  BY EmptyQueue DEF Unlock
<1>2. attempt[c] + 1 \in 0 .. MAX_RETRIES
  BY RpcGuardAssumption DEF IInv, Answered, TypeOK
<1>3. TypeOK'
  <2>1. active' \in BOOLEAN /\ until' \in Nat
    BY DEF Unlock
  <2>2. /\ pc' \in [Calls -> PCs] /\ attempt' \in [Calls -> 0 .. MAX_RETRIES]
        /\ answer' \in [Calls -> Answers]
    BY <1>2, DrainFacts DEF PCs
  <2> QED
    BY <1>1, <2>1, <2>2 DEF IInv, TypeOK, PCs, Answers
<1>4. NoStrandedCall'
  <2>1. \A d \in Calls : pc'[d] # "queued"
    BY DrainFacts DEF PCs
  <2> QED
    BY <1>1, <2>1 DEF NoStrandedCall, Unlock
<1>5. TimersOrdered'
  BY <1>1 DEF IInv, TimersOrdered, Unlock
<1>6. Answered'
  <2> SUFFICES ASSUME NEW d \in Calls
               PROVE  /\ pc'[d] \in {"new", "queued"} => answer'[d] = "none" /\ attempt'[d] = 0
                      /\ pc'[d] = "sleeping" => attempt'[d] < MAX_RETRIES
                      /\ pc'[d] = "over" => answer'[d] # "none"
    BY DEF Answered
  <2>1. CASE d = c
    BY <2>1, DrainFacts
  <2>2. CASE d # c
    BY <2>2, DrainFacts DEF IInv, Answered
  <2> QED
    BY <2>1, <2>2
<1> QED
  BY <1>3, <1>4, <1>5, <1>6 DEF IInv

\* A call enters the queue.
LEMMA EnqueueIInv ==
  ASSUME IInv, NEW c \in Calls, Enqueue(c)
  PROVE  IInv'
<1> DEFINE e == [call |-> c, generation |-> generation]
<1>1. /\ queue \in Seq([call : Calls, generation : Nat]) /\ Len(queue) \in Nat
      /\ e \in [call : Calls, generation : Nat] /\ queue' = Append(queue, e)
  BY DEF IInv, TypeOK, Enqueue
<1>2. /\ queue' \in Seq([call : Calls, generation : Nat]) /\ Len(queue') = Len(queue) + 1
      /\ queue'[Len(queue) + 1] = e
      /\ \A i \in 1 .. Len(queue) : queue'[i] = queue[i]
  BY <1>1, AppendProperties
<1>3. Waiting' = Waiting \cup {c}
  <2>1. \A i \in 1 .. Len(queue') : i \in 1 .. Len(queue) \/ i = Len(queue) + 1
    BY <1>1, <1>2
  <2>2. 1 .. Len(queue) \subseteq 1 .. Len(queue') /\ Len(queue) + 1 \in 1 .. Len(queue')
    BY <1>1, <1>2
  <2> QED
    BY <1>2, <2>1, <2>2 DEF Waiting
<1>4. TypeOK'
  BY <1>2 DEF IInv, TypeOK, Enqueue
<1>5. NoStrandedCall'
  <2>1. \A d \in Calls : pc'[d] = "queued" <=> pc[d] = "queued" \/ d = c
    BY DEF IInv, TypeOK, Enqueue
  <2> QED
    BY <1>3, <2>1 DEF IInv, NoStrandedCall, Enqueue, Throttled
<1>6. TimersOrdered'
  <2>1. \A i \in 1 .. Len(queue') : queue'[i].generation <= generation
    <3>1. \A i \in 1 .. Len(queue') : i \in 1 .. Len(queue) \/ i = Len(queue) + 1
      BY <1>1, <1>2
    <3>2. generation <= generation
      BY DEF IInv, TypeOK
    <3> QED
      BY <1>2, <3>1, <3>2 DEF IInv, TimersOrdered
  <2> QED
    BY <2>1 DEF IInv, TimersOrdered, Enqueue
<1>7. Answered'
  BY DEF IInv, Answered, Enqueue, TypeOK
<1> QED
  BY <1>4, <1>5, <1>6, <1>7 DEF IInv

\* A 429 takes the lock or renews it.
LEMMA ActivateFacts ==
  ASSUME IInv, NEW wait \in RetryAfters, Activate(wait)
  PROVE  /\ active' \in BOOLEAN /\ active' = TRUE
         /\ until' \in Nat /\ generation' \in Nat /\ timers' \subseteq Timers
         /\ queue' = queue /\ generation < generation'
         /\ \E t \in timers' : t.generation = generation' /\ t.at <= until'
         /\ \A t \in timers' : t.generation <= generation'
         /\ \A t \in timers' : t.generation = generation' => t.at = until' \/ until' - t.at > MaxDelay
         /\ \A i \in 1 .. Len(queue) : queue[i].generation <= generation'
<1>1. wait \in Nat /\ now \in Nat /\ generation \in Nat /\ timers \subseteq Timers
  BY RpcGuardAssumption DEF IInv, TypeOK
<1>2. /\ active' = TRUE /\ until' = now + wait /\ generation' = generation + 1 /\ queue' = queue
      /\ timers' = timers \cup {[generation |-> generation + 1, at |-> now + TimerDelay(wait)]}
  BY DEF Activate
<1> DEFINE new == [generation |-> generation + 1, at |-> now + TimerDelay(wait)]
<1>0. /\ new \in Timers /\ new \in timers' /\ new.generation = generation' /\ new.at <= until'
      /\ new.at = until' \/ until' - new.at > MaxDelay
  <2>1. MaxDelay \in Nat
    BY RpcGuardAssumption
  <2>2. TimerDelay(wait) \in Nat /\ TimerDelay(wait) <= wait /\ (TimerDelay(wait) = wait \/ wait - TimerDelay(wait) > MaxDelay)
    BY <1>1, <2>1 DEF TimerDelay
  <2> QED
    BY <1>1, <1>2, <2>1, <2>2 DEF Timers
<1>3. \A t \in timers : t.generation \in Nat /\ t.generation <= generation
  BY <1>1 DEF IInv, TimersOrdered, Timers
<1>4. \A i \in 1 .. Len(queue) : queue[i].generation \in Nat /\ queue[i].generation <= generation
  <2>1. queue \in Seq([call : Calls, generation : Nat])
    BY DEF IInv, TypeOK
  <2>2. \A i \in 1 .. Len(queue) : queue[i] \in [call : Calls, generation : Nat]
    BY <2>1, ElementOfSeq
  <2> QED
    BY <2>2 DEF IInv, TimersOrdered
<1>5. active' \in BOOLEAN /\ active' = TRUE
  BY <1>2
<1>6. until' \in Nat /\ generation' \in Nat /\ generation < generation' /\ queue' = queue
  BY <1>1, <1>2
<1>7. timers' \subseteq Timers
  BY <1>0, <1>1, <1>2
<1>8. \E t \in timers' : t.generation = generation' /\ t.at <= until'
  BY <1>0
<1>9. \A t \in timers' : t.generation <= generation'
  BY <1>1, <1>2, <1>3
<1>10. \A i \in 1 .. Len(queue) : queue[i].generation <= generation'
  BY <1>1, <1>2, <1>4
<1>11. \A t \in timers' : t.generation = generation' => t.at = until' \/ until' - t.at > MaxDelay
  <2>1. \A t \in timers : t.generation # generation'
    BY <1>1, <1>2, <1>3
  <2> QED
    BY <1>0, <1>2, <2>1
<1> QED
  BY <1>5, <1>6, <1>7, <1>8, <1>9, <1>10, <1>11

\* A step of one call that leaves the lock alone or renews it.
LEMMA CallStepIInv ==
  ASSUME IInv, NEW c \in Calls,
         pc[c] # "queued", now' = now,
         UNCHANGED lock \/ \E wait \in RetryAfters : Activate(wait),
         pc' \in [Calls -> PCs], pc'[c] # "queued",
         attempt' \in [Calls -> 0 .. MAX_RETRIES], answer' \in [Calls -> Answers],
         \A d \in Calls \ {c} : pc'[d] = pc[d] /\ attempt'[d] = attempt[d] /\ answer'[d] = answer[d],
         pc'[c] = "new" => answer'[c] = "none" /\ attempt'[c] = 0,
         pc'[c] = "sleeping" => attempt'[c] < MAX_RETRIES,
         pc'[c] = "over" => answer'[c] # "none"
  PROVE  IInv'
<1>1. queue' = queue /\ active' \in BOOLEAN /\ until' \in Nat /\ generation' \in Nat /\ timers' \subseteq Timers
  BY ActivateFacts DEF lock, IInv, TypeOK
<1>2. Waiting' = Waiting
  BY <1>1 DEF Waiting
<1>3. TypeOK'
  BY <1>1 DEF IInv, TypeOK, PCs, Answers
<1>4. NoStrandedCall'
  <2>1. \A d \in Calls : pc'[d] = "queued" <=> d \in Waiting'
    BY <1>2 DEF IInv, NoStrandedCall
  <2>2. queue' # <<>> => active'
    <3>1. CASE UNCHANGED lock
      BY <3>1, Zenon DEF IInv, NoStrandedCall, lock
    <3>2. CASE \E wait \in RetryAfters : Activate(wait)
      BY <3>2 DEF Activate
    <3> QED
      BY <3>1, <3>2
  <2>3. active' => \E t \in timers' : t.generation = generation' /\ t.at <= until'
    <3>1. CASE UNCHANGED lock
      BY <3>1, Zenon DEF IInv, NoStrandedCall, lock
    <3>2. CASE \E wait \in RetryAfters : Activate(wait)
      BY <3>2, ActivateFacts
    <3> QED
      BY <3>1, <3>2
  <2> QED
    BY <2>1, <2>2, <2>3 DEF NoStrandedCall
<1>5. TimersOrdered'
  BY <1>1, ActivateFacts DEF IInv, TimersOrdered, lock
<1>6. Answered'
  BY DEF IInv, Answered
<1> QED
  BY <1>3, <1>4, <1>5, <1>6 DEF IInv

\* The step lemma.
LEMMA NextIInv == IInv /\ [Next]_vars => IInv'
<1> SUFFICES ASSUME IInv, [Next]_vars PROVE IInv'
  OBVIOUS
<1>1. CASE UNCHANGED vars
  <2>1. Waiting' = Waiting
    BY <1>1 DEF vars, lock, Waiting
  <2> QED
    BY <1>1, <2>1 DEF vars, lock, IInv, TypeOK, NoStrandedCall, TimersOrdered, Answered
<1>2. CASE TimerFires
  <2>1. PICK t \in timers : /\ timers' = timers \ {t}
                           /\ IF TimerCurrent(t)
                              THEN ClearBackoff /\ UNCHANGED <<now, generation>>
                              ELSE UNCHANGED <<now, active, until, generation, queue, pc, attempt, answer>>
    BY <1>2 DEF TimerFires
  <2>2. CASE TimerCurrent(t)
    BY <2>1, <2>2, ClearIInv
  <2>3. CASE ~TimerCurrent(t)
    <3>1. UNCHANGED <<now, active, until, generation, queue, pc, attempt, answer>> /\ timers' \subseteq timers
      BY <2>1, <2>3
    <3>2. Waiting' = Waiting
      BY <3>1 DEF Waiting
    <3>3. \A u \in timers : u.generation = generation => u \in timers'
      BY <2>1, <2>3 DEF TimerCurrent
    <3>4. NoStrandedCall'
      BY <3>1, <3>2, <3>3 DEF IInv, NoStrandedCall
    <3> QED
      BY <3>1, <3>4 DEF IInv, TypeOK, TimersOrdered, Answered
  <2> QED
    BY <2>2, <2>3
<1>3. CASE WebhookRateLimited
  <2>1. PICK wait \in RetryAfters : Activate(wait)
    BY <1>3 DEF WebhookRateLimited
  <2>2. UNCHANGED <<now, pc, attempt, answer>>
    BY <1>3 DEF WebhookRateLimited
  <2>3. Waiting' = Waiting
    BY <2>1 DEF Activate, Waiting
  <2>4. TypeOK'
    BY <2>1, <2>2, ActivateFacts DEF IInv, TypeOK
  <2>5. NoStrandedCall'
    BY <2>1, <2>2, <2>3, ActivateFacts DEF IInv, NoStrandedCall
  <2>6. TimersOrdered' /\ Answered'
    BY <2>1, <2>2, ActivateFacts DEF IInv, TimersOrdered, Answered
  <2> QED
    BY <2>4, <2>5, <2>6 DEF IInv
<1>4. CASE Tick
  <2>1. Waiting' = Waiting
    BY <1>4 DEF Tick, lock, Waiting
  <2> QED
    BY <1>4, <2>1 DEF Tick, lock, IInv, TypeOK, NoStrandedCall, TimersOrdered, Answered
<1>5. ASSUME NEW c \in Calls, Guard(c) \/ Loop(c) \/ Reply(c) \/ TimesOut(c) PROVE IInv'
  <2>0. /\ pc \in [Calls -> PCs] /\ attempt \in [Calls -> 0 .. MAX_RETRIES]
        /\ answer \in [Calls -> Answers] /\ MAX_RETRIES \in Nat \ {0}
        /\ pc[c] \in {"new", "queued"} => answer[c] = "none" /\ attempt[c] = 0
        /\ pc[c] = "sleeping" => attempt[c] < MAX_RETRIES
    BY RpcGuardAssumption DEF IInv, TypeOK, Answered, PCs, Answers
  <2>1. CASE Enqueue(c)
    BY <2>1, EnqueueIInv
  <2>2. CASE StartAfterExpiry(c)
    <3>1. attempt[c] + 1 = 1
      BY <2>0, <2>2 DEF StartAfterExpiry
    <3> QED
      BY <2>2, <3>1, ClearAndGoIInv DEF StartAfterExpiry
  <2>3. CASE WakeAfterExpiry(c)
    <3>1. Drained(attempt, 1, 0)[c] = attempt[c] /\ Drained(attempt, 1, 0) \in [Calls -> 0 .. MAX_RETRIES]
      <4>1. c \notin Waiting /\ c \notin Current
        BY <2>3 DEF WakeAfterExpiry, IInv, NoStrandedCall, Waiting, Current
      <4> QED
        BY <4>1, DrainFacts DEF Drained
    <3>2. attempt' = [Drained(attempt, 1, 0) EXCEPT ![c] = attempt[c] + 1]
      BY <2>3, <3>1 DEF WakeAfterExpiry
    <3> QED
      BY <2>3, <3>2, ClearAndGoIInv DEF WakeAfterExpiry
  <2>4. CASE Start(c)
    BY <2>0, <2>4, CallStepIInv DEF Start, PCs
  <2>5. CASE Wake(c)
    BY <2>0, <2>5, CallStepIInv DEF Wake, PCs
  <2>6. CASE WakeThrottled(c)
    BY <2>0, <2>6, CallStepIInv DEF WakeThrottled, Answer, PCs, Answers
  <2>7. CASE Settles(c)
    BY <2>0, <2>7, CallStepIInv DEF Settles, Answer, PCs, Answers
  <2>8. CASE Fails(c)
    BY <2>0, <2>8, CallStepIInv DEF Fails, RetryOrGiveUp, Answer, PCs, Answers
  <2>9. CASE RateLimited(c)
    BY <2>0, <2>9, CallStepIInv DEF RateLimited, RetryOrGiveUp, Answer, PCs, Answers
  <2>10. CASE TimesOut(c)
    BY <2>0, <2>10, CallStepIInv DEF TimesOut, PCs, Answers
  <2> QED
    BY <1>5, <2>1, <2>2, <2>3, <2>4, <2>5, <2>6, <2>7, <2>8, <2>9, <2>10 DEF Guard, Loop, Reply
<1> QED
  BY <1>1, <1>2, <1>3, <1>4, <1>5 DEF Next

-----------------------------------------------------------------------------
(* The theorems.                                                           *)

\* The inductive invariant holds in every reachable state.
THEOREM RpcGuardInvariant == Spec => []IInv
  BY InitIInv, NextIInv, PTL DEF Spec

\* Type correctness; in particular no call makes more than MAX_RETRIES attempts.
THEOREM RpcGuardTypeCorrect == Spec => []TypeOK
<1>1. IInv => TypeOK
  BY DEF IInv
<1> QED
  BY <1>1, RpcGuardInvariant, PTL

\* No queued call is stranded: while calls wait, the lock is held and a timer
\* that the generation check will accept is pending.
THEOREM RpcGuardNoStrandedCall == Spec => []NoStrandedCall
<1>1. IInv => NoStrandedCall
  BY DEF IInv
<1> QED
  BY <1>1, RpcGuardInvariant, PTL

\* The lock ends only once the latest Retry-After has elapsed, unless its delay
\* was too long for setTimeout.  A timer that passes the generation check belongs
\* to the latest 429, and since there is one timer per generation it is the one
\* due at until or the one that overflowed.
THEOREM RpcGuardLockHonoured == Spec => LockHonoured
<1>1. IInv /\ [Next]_vars => [active /\ ~active' => now >= until \/ Overflowed]_vars
  <2> SUFFICES ASSUME IInv, Next, active, ~active' PROVE now >= until \/ Overflowed
    BY DEF vars, lock
  <2>1. CASE TimerFires
    <3>1. PICK t \in timers : now >= t.at /\ (TimerCurrent(t) \/ active' = active)
      BY <2>1 DEF TimerFires
    <3> QED
      BY <3>1 DEF IInv, TimersOrdered, TimerCurrent, Overflowed
  <2>2. CASE WebhookRateLimited \/ Tick
    BY <2>2 DEF WebhookRateLimited, Activate, Tick, lock
  <2>3. ASSUME NEW c \in Calls, Guard(c) PROVE now >= until
    BY <2>3 DEF Guard, Enqueue, StartAfterExpiry, Start
  <2>4. ASSUME NEW c \in Calls, Loop(c) PROVE now >= until
    BY <2>4 DEF Loop, WakeThrottled, WakeAfterExpiry, Wake, lock
  <2>5. ASSUME NEW c \in Calls, Reply(c) \/ TimesOut(c) PROVE now >= until
    BY <2>5 DEF Reply, Settles, Fails, RateLimited, Activate, TimesOut, lock
  <2> QED
    BY <2>1, <2>2, <2>3, <2>4, <2>5 DEF Next
<1> QED
  BY <1>1, RpcGuardInvariant, PTL DEF Spec, LockHonoured
\* No request leaves under the lock: an attempt begins only with a look at the
\* lock, or in the very step that ends it, and a 429 that comes back in between
\* is seen by the next look.
THEOREM RpcGuardNoRequestUnderLock == Spec => NoRequestUnderLock
<1>1. TypeOK /\ [Next]_vars =>
        [\A c \in Calls : attempt'[c] # attempt[c] /\ pc'[c] = "request"
           => ~(active' /\ now' < until')]_vars
  <2> SUFFICES ASSUME TypeOK, Next, NEW d \in Calls,
                      attempt'[d] # attempt[d], pc'[d] = "request"
               PROVE  ~active'
    OBVIOUS
  <2>1. CASE TimerFires
    BY <2>1 DEF TimerFires, ClearBackoff, Unlock
  <2>2. CASE WebhookRateLimited \/ Tick
    BY <2>2 DEF WebhookRateLimited, Tick
  <2>3. ASSUME NEW c \in Calls, Guard(c) PROVE ~active'
    BY <2>3 DEF Guard, Enqueue, StartAfterExpiry, Start, Unlock, lock
  <2>4. ASSUME NEW c \in Calls, Loop(c) PROVE ~active'
    <3>1. CASE WakeThrottled(c)
      <4>1. c = d
        BY <3>1 DEF WakeThrottled, TypeOK
      <4>2. pc'[c] \in {"sleeping", "over"}
        BY <3>1 DEF WakeThrottled, TypeOK
      <4> QED
        BY <4>1, <4>2
    <3> QED
      BY <2>4, <3>1 DEF Loop, WakeAfterExpiry, Wake, Unlock, lock
  <2>5. ASSUME NEW c \in Calls, Reply(c) \/ TimesOut(c) PROVE ~active'
    BY <2>5 DEF Reply, Settles, Fails, RateLimited, TimesOut
  <2> QED
    BY <2>1, <2>2, <2>3, <2>4, <2>5 DEF Next
<1> QED
  BY <1>1, RpcGuardTypeCorrect, PTL DEF Spec, NoRequestUnderLock
=============================================================================
