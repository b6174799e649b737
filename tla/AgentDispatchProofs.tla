------------------------ MODULE AgentDispatchProofs ------------------------
(***************************************************************************)
(* Proofs about AgentDispatch, for any finite set of calls, any number of  *)
(* slots, any queue bound, with or without middleware, and any faults.     *)
(***************************************************************************)
EXTENDS AgentDispatch, TLAPS, FiniteSetTheorems, SequenceTheorems

\* The tasks in flight are finitely many, so their number is a natural.
LEMMA InFlightFinite ==
  /\ IsFiniteSet(InFlight) /\ Cardinality(InFlight) \in Nat
  /\ IsFiniteSet(InFlight)' /\ Cardinality(InFlight)' \in Nat
<1>1. InFlight \in SUBSET Tasks /\ InFlight' \in SUBSET Tasks
  BY DEF InFlight
<1> QED
  BY <1>1, DispatchAssumption, FS_Subset, FS_CardinalityType

\* Appending to the second part of a concatenation appends to the whole.
LEMMA AppendToConcat ==
  ASSUME NEW S, NEW s \in Seq(S), NEW q \in Seq(S), NEW x \in S
  PROVE  s \o Append(q, x) = Append(s \o q, x)
<1>1. s \o Append(q, x) \in Seq(S) /\ Append(s \o q, x) \in Seq(S)
  OBVIOUS
<1>2. Len(s \o Append(q, x)) = Len(Append(s \o q, x))
  OBVIOUS
<1>3. \A i \in 1 .. Len(s \o Append(q, x)) : (s \o Append(q, x))[i] = Append(s \o q, x)[i]
  OBVIOUS
<1> QED
  BY <1>1, <1>2, <1>3, SeqEqual

\* Moving the head of the second part to the end of the first changes nothing.
LEMMA ShiftConcat ==
  ASSUME NEW S, NEW s \in Seq(S), NEW q \in Seq(S), q # <<>>
  PROVE  s \o q = Append(s, Head(q)) \o Tail(q)
<1> DEFINE r == Append(s, Head(q)) \o Tail(q)
<1>1. Head(q) \in S /\ Tail(q) \in Seq(S) /\ Len(Tail(q)) = Len(q) - 1 /\ Len(q) \in Nat \ {0}
      /\ \A i \in 1 .. Len(q) - 1 : Tail(q)[i] = q[i + 1]
  BY HeadTailProperties, EmptySeq
<1>2. s \o q \in Seq(S) /\ r \in Seq(S) /\ Len(r) = Len(s) + Len(q) /\ Len(s \o q) = Len(s) + Len(q)
  BY <1>1
<1>3. ASSUME NEW i \in 1 .. Len(s) + Len(q) PROVE (s \o q)[i] = r[i]
  <2>1. CASE i <= Len(s)
    BY <1>1, <2>1
  <2>2. CASE i = Len(s) + 1
    BY <1>1, <2>2
  <2>3. CASE i > Len(s) + 1
    BY <1>1, <2>3
  <2> QED
    BY <2>1, <2>2, <2>3
<1> HIDE DEF r
<1> QED
  BY <1>2, <1>3, SeqEqual DEF r

\* The outcomes of executeTask's synchronous parts are well formed: the task
\* stays in flight until its finally block, with a result when it gets there.
LEMMA OutcomeTypes ==
  \A o \in OuterCatch \cup InnerCatch \cup Completion :
    /\ o.events \in Seq({"complete", "failed"})
    /\ o.hooks \in Seq({"ok", "failed"})
    /\ o.saved \in BOOLEAN
    /\ o.result \in Outcomes
    /\ o.pc \in {"post", "finally"}
<1> DEFINE Good(o) == /\ o.events \in Seq({"complete", "failed"})
                      /\ o.hooks \in Seq({"ok", "failed"})
                      /\ o.saved \in BOOLEAN
                      /\ o.result \in Outcomes
                      /\ o.pc \in {"post", "finally"}
<1>1. ASSUME NEW ev \in {"complete", "failed"}, NEW S, \A o \in S : Good(o)
      PROVE  \A o \in Before(ev, S) : Good(o)
  <2> SUFFICES ASSUME NEW o \in S, NEW p, p = [o EXCEPT !.events = <<ev>> \o o.events]
               PROVE  Good(p)
    BY DEF Before
  <2>1. Good(o)
    BY <1>1
  <2>2. <<ev>> \o o.events \in Seq({"complete", "failed"})
    BY <2>1
  <2> QED
    BY <2>1, <2>2
<1>2. \A o \in OuterCatch : Good(o)
  <2>1. Good(Outcome(<<"failed">>, <<"failed">>, FALSE, "failed", "finally"))
    BY DEF Outcome, Outcomes
  <2>2. \A ev \in {<<>>, <<"failed">>} : Good(Outcome(ev, <<>>, FALSE, "threw", "finally"))
    <3>1. /\ <<>> \in Seq({"ok", "failed"}) /\ <<>> \in Seq({"complete", "failed"})
          /\ <<"failed">> \in Seq({"complete", "failed"})
      OBVIOUS
    <3> QED
      BY <3>1 DEF Outcome, Outcomes
  <2> QED
    BY <2>1, <2>2 DEF OuterCatch
<1>3. \A o \in InnerCatch : Good(o)
  <2>1. Good(Outcome(<<"failed">>, <<"failed">>, FALSE, "failed", AfterTool))
    BY DEF Outcome, Outcomes, AfterTool
  <2> QED
    BY <1>1, <1>2, <2>1 DEF InnerCatch
<1>4. \A o \in Completion : Good(o)
  <2>1. Good(Outcome(<<"complete">>, <<"ok">>, TRUE, "ok", AfterTool))
    BY DEF Outcome, Outcomes, AfterTool
  <2> QED
    BY <1>1, <1>3, <2>1 DEF Completion
<1> QED
  BY <1>2, <1>3, <1>4

\* The state in which the agent starts.
LEMMA InitIInv == Init => IInv
<1> SUFFICES ASSUME Init PROVE IInv
  OBVIOUS
<1> USE DispatchAssumption DEF Init
<1>1. InFlight = {}
  BY DEF InFlight, Executing
<1>2. Cardinality(InFlight) = 0
  BY <1>1, FS_EmptySet
<1>3. TypeOK
  <2>1. isDraining \in BOOLEAN
    OBVIOUS
  <2>2. <<>> \in Seq(Tasks) /\ <<>> \in Seq({"complete", "failed"}) /\ <<>> \in Seq({"ok", "failed"})
    OBVIOUS
  <2>3. /\ pc \in [Tasks -> {"new", "rejected", "queued", "done"} \cup Executing]
        /\ result \in [Tasks -> {"none"} \cup Outcomes]
        /\ answer \in [Tasks -> {"none", "rejected"} \cup Outcomes]
    OBVIOUS
  <2>4. /\ events \in [Tasks -> Seq({"complete", "failed"})]
        /\ hooks \in [Tasks -> Seq({"ok", "failed"})]
    BY <2>2
  <2> QED
    BY <2>1, <2>2, <2>3, <2>4 DEF TypeOK
<1>4. SlotsExact
  BY <1>2 DEF SlotsExact
<1>5. NoBarging /\ QueuedMeansBusy
  BY DEF NoBarging, QueuedMeansBusy
<1> QED
  BY <1>3, <1>4, <1>5 DEF IInv, QueueMatches, IdleOnceDrained, FinishedAnswered

-----------------------------------------------------------------------------
(* run()                                                                   *)

\* A call that is refused leaves the slots and the queue alone.
LEMMA RefuseIInv ==
  ASSUME IInv, exit = "no", NEW t \in Tasks, pc[t] = "new", Refuse(t)
  PROVE  IInv'
<1> USE DispatchAssumption DEF IInv, Refuse, agent, outputs, process
<1>1. InFlight' = InFlight
  BY DEF InFlight, Executing, TypeOK
<1>2. TypeOK'
  BY DEF TypeOK
<1>3. SlotsExact' /\ QueuedMeansBusy' /\ NoBarging'
  BY <1>1 DEF SlotsExact, QueuedMeansBusy, NoBarging
<1>4. QueueMatches'
  BY DEF QueueMatches, TypeOK
<1>5. IdleOnceDrained' /\ FinishedAnswered'
  BY <1>1 DEF IdleOnceDrained, FinishedAnswered, TypeOK
<1> QED
  BY <1>2, <1>3, <1>4, <1>5

\* A queued task is in the queue once and has no slot yet.
LEMMA RunQueuedIInv ==
  ASSUME IInv, exit = "no", NEW t \in Tasks, pc[t] = "new", RunQueued(t)
  PROVE  IInv'
<1> USE DispatchAssumption DEF IInv, RunQueued, outputs, process
<1>1. InFlight' = InFlight
  BY DEF InFlight, Executing, TypeOK
<1>2. TypeOK'
  BY DEF TypeOK
<1>3. SlotsExact' /\ QueuedMeansBusy'
  BY <1>1 DEF SlotsExact, QueuedMeansBusy, HasRoom, TypeOK
<1>4. NoBarging'
  <2>1. /\ started \in Seq(Tasks) /\ taskQueue \in Seq(Tasks)
        /\ accepted = started \o taskQueue /\ accepted' = Append(accepted, t)
        /\ started' = started /\ taskQueue' = Append(taskQueue, t)
    BY DEF TypeOK, NoBarging
  <2> HIDE DEF IInv, RunQueued, outputs, process
  <2>2. \A s, q \in Seq(Tasks) : s \o Append(q, t) = Append(s \o q, t)
    <3> TAKE s, q \in Seq(Tasks)
    <3> QED
      BY ONLY t \in Tasks, s \in Seq(Tasks), q \in Seq(Tasks), AppendToConcat
  <2>3. started \o taskQueue' = Append(accepted, t)
    BY <2>1, <2>2, Zenon
  <2> QED
    BY <2>1, <2>3, Zenon DEF NoBarging
<1>5. QueueMatches'
  <2>1. /\ Len(taskQueue') = Len(taskQueue) + 1
        /\ taskQueue'[Len(taskQueue) + 1] = t
        /\ \A i \in 1 .. Len(taskQueue) : taskQueue'[i] = taskQueue[i] /\ taskQueue[i] \in Tasks
    BY DEF TypeOK
  <2>2. \A i \in 1 .. Len(taskQueue) : taskQueue[i] # t
    BY DEF QueueMatches
  <2>3. Len(taskQueue) \in Nat /\ pc \in [Tasks -> {"new", "rejected", "queued", "done"} \cup Executing]
    BY DEF TypeOK
  <2>4. \A i \in 1 .. Len(taskQueue') : i \in 1 .. Len(taskQueue) \/ i = Len(taskQueue) + 1
    BY <2>1, <2>3
  <2>5. \A i \in 1 .. Len(taskQueue') : pc'[taskQueue'[i]] = "queued"
    BY <2>1, <2>2, <2>3, <2>4 DEF QueueMatches
  <2>6. \A i, j \in 1 .. Len(taskQueue') : taskQueue'[i] = taskQueue'[j] => i = j
    BY <2>1, <2>2, <2>4 DEF QueueMatches
  <2>7. ASSUME NEW u \in Tasks, pc'[u] = "queued" PROVE \E i \in 1 .. Len(taskQueue') : taskQueue'[i] = u
    <3>1. CASE u = t
      BY <2>1, <2>3, <3>1
    <3>2. CASE u # t
      <4>1. PICK i \in 1 .. Len(taskQueue) : taskQueue[i] = u
        BY <2>3, <2>7, <3>2 DEF QueueMatches
      <4> QED
        BY <2>1, <2>3, <4>1
    <3> QED
      BY <3>1, <3>2
  <2> QED
    BY <2>5, <2>6, <2>7 DEF QueueMatches
<1>6. IdleOnceDrained' /\ FinishedAnswered'
  BY <1>1 DEF IdleOnceDrained, FinishedAnswered, TypeOK
<1> QED
  BY <1>2, <1>3, <1>4, <1>5, <1>6

\* A task that starts at once takes a free slot, with nobody waiting.
LEMMA RunNowIInv ==
  ASSUME IInv, exit = "no", NEW t \in Tasks, pc[t] = "new", RunNow(t)
  PROVE  IInv'
<1> USE DispatchAssumption DEF IInv, RunNow, outputs, process
<1>1. InFlight' = InFlight \cup {t} /\ t \notin InFlight
  BY DEF InFlight, Executing, FirstStage, TypeOK
<1>2. Cardinality(InFlight)' = Cardinality(InFlight) + 1
  BY <1>1, InFlightFinite, FS_AddElement
<1>3. TypeOK'
  BY DEF TypeOK, FirstStage, Executing
<1>4. taskQueue = <<>>
  BY DEF QueuedMeansBusy, TypeOK
<1>5. SlotsExact' /\ QueuedMeansBusy'
  BY <1>2, <1>4 DEF SlotsExact, QueuedMeansBusy, TypeOK
<1>6. NoBarging'
  BY <1>4 DEF NoBarging, TypeOK
<1>7. QueueMatches'
  BY <1>4 DEF QueueMatches, TypeOK, FirstStage
<1>8. IdleOnceDrained'
  BY DEF IdleOnceDrained
<1>9. FinishedAnswered'
  BY DEF FinishedAnswered, FirstStage, TypeOK
<1> QED
  BY <1>3, <1>5, <1>6, <1>7, <1>8, <1>9

-----------------------------------------------------------------------------
(* executeTask()                                                           *)

\* A step of a task between its start and its finally block: it stays in
\* flight, so only its outputs change.
LEMMA ApplyIInv ==
  ASSUME IInv, exit = "no", NEW t \in Tasks, pc[t] \in {"middleware", "tool", "post"},
         NEW o, Apply(t, o),
         o.events \in Seq({"complete", "failed"}), o.hooks \in Seq({"ok", "failed"}),
         o.result \in Outcomes, o.pc \in {"post", "finally"}
  PROVE  IInv'
<1> USE DispatchAssumption DEF IInv, Apply, agent, process
<1>1. pc' = [pc EXCEPT ![t] = o.pc] /\ pc \in [Tasks -> {"new", "rejected", "queued", "done"} \cup Executing]
  BY DEF TypeOK
<1>2. InFlight' = InFlight
  BY <1>1 DEF InFlight, Executing
<1>3. TypeOK'
  <2>1. events' \in [Tasks -> Seq({"complete", "failed"})]
    <3>1. events[t] \o o.events \in Seq({"complete", "failed"})
      BY DEF TypeOK
    <3> QED
      BY <3>1 DEF TypeOK
  <2>2. hooks' \in [Tasks -> Seq({"ok", "failed"})]
    <3>1. hooks[t] \o o.hooks \in Seq({"ok", "failed"})
      BY DEF TypeOK
    <3> QED
      BY <3>1 DEF TypeOK
  <2>3. saved' \subseteq Tasks
    BY DEF TypeOK
  <2>4. result' \in [Tasks -> {"none"} \cup Outcomes]
    BY DEF TypeOK
  <2>5. pc' \in [Tasks -> {"new", "rejected", "queued", "done"} \cup Executing]
    BY <1>1 DEF Executing
  <2> QED
    BY <2>1, <2>2, <2>3, <2>4, <2>5 DEF TypeOK
<1>4. SlotsExact' /\ QueuedMeansBusy' /\ NoBarging'
  BY <1>2 DEF SlotsExact, QueuedMeansBusy, NoBarging
<1>5. QueueMatches'
  <2>1. \A i \in 1 .. Len(taskQueue) : taskQueue[i] # t
    BY DEF QueueMatches
  <2>2. \A i \in 1 .. Len(taskQueue) : taskQueue[i] \in Tasks
    BY DEF TypeOK
  <2> QED
    BY <1>1, <2>1, <2>2 DEF QueueMatches
<1>6. IdleOnceDrained'
  BY <1>2 DEF IdleOnceDrained
<1>7. FinishedAnswered'
  BY <1>1 DEF FinishedAnswered, TypeOK, Outcomes
<1> QED
  BY <1>3, <1>4, <1>5, <1>6, <1>7

\* A middleware that calls next() lets the tool run in the same slot.
LEMMA MiddlewareCallsNextIInv ==
  ASSUME IInv, exit = "no", NEW t \in Tasks, MiddlewareCallsNext(t)
  PROVE  IInv'
<1> USE DispatchAssumption DEF IInv, MiddlewareCallsNext, agent, outputs, process
<1>1. InFlight' = InFlight
  BY DEF InFlight, Executing, TypeOK
<1>2. TypeOK'
  BY DEF TypeOK, Executing
<1>3. SlotsExact' /\ QueuedMeansBusy' /\ NoBarging'
  BY <1>1 DEF SlotsExact, QueuedMeansBusy, NoBarging
<1>4. QueueMatches'
  BY DEF QueueMatches, TypeOK
<1>5. IdleOnceDrained' /\ FinishedAnswered'
  BY <1>1 DEF IdleOnceDrained, FinishedAnswered, TypeOK
<1> QED
  BY <1>2, <1>3, <1>4, <1>5

\* The finally block: the slot passes to the head of the queue or is freed.
LEMMA FinallyIInv ==
  ASSUME IInv, exit = "no", NEW t \in Tasks, Finally(t)
  PROVE  IInv'
<1> USE DispatchAssumption DEF IInv, Finally, outputs
<1> DEFINE PCs == {"new", "rejected", "queued", "done"} \cup Executing
<1>1. /\ pc \in [Tasks -> PCs] /\ t \in InFlight /\ pc[t] = "finally"
      /\ activeTasks = Cardinality(InFlight) /\ activeTasks \in Nat
  BY DEF TypeOK, InFlight, Executing, SlotsExact
<1>2. activeTasks # 0 /\ activeTasks <= MAX_CONCURRENT_TASKS
  BY <1>1, InFlightFinite, FS_EmptySet DEF SlotsExact
<1>3. InFlight # {} /\ phase # "closing"
  BY <1>1 DEF IdleOnceDrained
<1>4. answer' \in [Tasks -> {"none", "rejected"} \cup Outcomes] /\ exit' \in {"no", "crash"}
  BY DEF TypeOK
<1>5. /\ answer'[t] # "none" \/ exit' = "crash"
      /\ \A u \in Tasks : u # t => answer'[u] = answer[u]
  BY <1>1 DEF TypeOK, FinishedAnswered
<1>6. CASE DispatchesNext
  <2> DEFINE h == Head(taskQueue)
  <2>1. /\ taskQueue # <<>> /\ taskQueue' = Tail(taskQueue) /\ started' = Append(started, h)
        /\ pc' = [pc EXCEPT ![t] = "done", ![h] = FirstStage] /\ activeTasks' = activeTasks
    BY <1>6 DEF DispatchesNext
  <2>2. /\ taskQueue \in Seq(Tasks) /\ Len(taskQueue) \in Nat \ {0} /\ h = taskQueue[1]
        /\ h \in Tasks /\ Tail(taskQueue) \in Seq(Tasks)
        /\ Len(Tail(taskQueue)) = Len(taskQueue) - 1
        /\ \A i \in 1 .. Len(taskQueue) - 1 : Tail(taskQueue)[i] = taskQueue[i + 1]
    BY <2>1, HeadTailProperties, EmptySeq DEF TypeOK
  <2>3. pc[h] = "queued" /\ h # t
    BY <1>1, <2>2 DEF QueueMatches
  <2> HIDE DEF h
  <2>4. FirstStage \in Executing /\ FirstStage \in {"middleware", "tool"}
    BY DEF FirstStage, Executing
  <2>5. /\ pc' \in [Tasks -> PCs] /\ pc'[t] = "done" /\ pc'[h] = FirstStage
        /\ \A u \in Tasks \ {t, h} : pc'[u] = pc[u]
    BY <1>1, <2>1, <2>2, <2>3, <2>4
  <2>6. InFlight' = (InFlight \ {t}) \cup {h} /\ h \notin InFlight \ {t}
    BY <1>1, <2>2, <2>3, <2>4, <2>5 DEF InFlight, Executing
  <2>7. Cardinality(InFlight)' = Cardinality(InFlight)
    <3>1. IsFiniteSet(InFlight \ {t}) /\ Cardinality(InFlight \ {t}) = Cardinality(InFlight) - 1
      BY <1>1, InFlightFinite, FS_RemoveElement
    <3>2. Cardinality((InFlight \ {t}) \cup {h}) = Cardinality(InFlight \ {t}) + 1
      BY <2>6, <3>1, FS_AddElement
    <3> QED
      BY <2>6, <3>1, <3>2, InFlightFinite
  <2>8. TypeOK'
    <3>0. started \in Seq(Tasks)
      BY DEF TypeOK
    <3>1. started' \in Seq(Tasks) /\ taskQueue' \in Seq(Tasks)
      <4> HIDE DEF IInv, Finally, outputs
      <4> QED
        BY <2>1, <2>2, <3>0, AppendProperties
    <3> QED
      BY <1>4, <2>1, <2>5, <3>1 DEF TypeOK
  <2>9. SlotsExact'
    <3>1. Len(taskQueue) <= QUEUE_CAPACITY
      BY DEF SlotsExact
    <3> HIDE DEF IInv, Finally, outputs
    <3>2. Len(taskQueue') <= QUEUE_CAPACITY
      BY <2>1, <2>2, <3>1
    <3>3. activeTasks' = Cardinality(InFlight)' /\ activeTasks' <= MAX_CONCURRENT_TASKS
      BY <1>1, <1>2, <2>1, <2>7
    <3> QED
      BY <3>2, <3>3 DEF SlotsExact
  <2>10. QueuedMeansBusy'
    BY <2>1 DEF QueuedMeansBusy
  <2>11. NoBarging'
    <3>1. started \in Seq(Tasks) /\ accepted = started \o taskQueue /\ accepted' = accepted
      BY DEF TypeOK, NoBarging
    <3> HIDE DEF IInv, Finally, outputs
    <3>2. started \o taskQueue = Append(started, h) \o Tail(taskQueue)
      BY <2>1, <2>2, <3>1, ShiftConcat, Zenon DEF h
    <3> QED
      BY <2>1, <3>1, <3>2, Zenon DEF NoBarging
  <2>12. QueueMatches'
    <3> QueueMatches
      OBVIOUS
    <3> HIDE DEF IInv, Finally, outputs
    <3>0. /\ Len(taskQueue') = Len(taskQueue) - 1
          /\ \A i \in 1 .. Len(taskQueue') : /\ i + 1 \in 1 .. Len(taskQueue)
                                            /\ taskQueue'[i] = taskQueue[i + 1]
      BY <2>1, <2>2
    <3>1. \A i \in 1 .. Len(taskQueue') : taskQueue[i + 1] \in Tasks \ {t, h}
      <4> SUFFICES ASSUME NEW i \in 1 .. Len(taskQueue') PROVE taskQueue[i + 1] \in Tasks \ {t, h}
        OBVIOUS
      <4>1. i + 1 \in 1 .. Len(taskQueue) /\ i + 1 # 1 /\ 1 \in 1 .. Len(taskQueue)
        BY <2>2, <3>0
      <4>2. taskQueue[i + 1] \in Tasks
        BY <2>2, <4>1, ElementOfSeq
      <4>3. taskQueue[i + 1] # t
        BY <1>1, <4>1 DEF QueueMatches
      <4>4. taskQueue[i + 1] # h
        BY <2>2, <4>1 DEF QueueMatches
      <4> QED
        BY <4>2, <4>3, <4>4
    <3>2. \A i \in 1 .. Len(taskQueue') : pc'[taskQueue'[i]] = "queued"
      BY <2>5, <3>0, <3>1 DEF QueueMatches
    <3>3. ASSUME NEW i \in 1 .. Len(taskQueue'), NEW j \in 1 .. Len(taskQueue'), taskQueue'[i] = taskQueue'[j]
          PROVE  i = j
      <4>1. i + 1 = j + 1
        BY <3>0, <3>3 DEF QueueMatches
      <4> QED
        BY <4>1
    <3>4. ASSUME NEW u \in Tasks, pc'[u] = "queued" PROVE \E i \in 1 .. Len(taskQueue') : taskQueue'[i] = u
      <4>1. u \notin {t, h} /\ pc[u] = "queued"
        BY <2>4, <2>5, <3>4
      <4>2. PICK i \in 1 .. Len(taskQueue) : taskQueue[i] = u
        BY <4>1 DEF QueueMatches
      <4>3. i # 1 /\ i - 1 \in 1 .. Len(taskQueue) - 1 /\ Tail(taskQueue)[i - 1] = u
        BY <2>2, <4>1, <4>2
      <4> QED
        BY <2>1, <2>2, <4>3
    <3> QED
      BY <3>2, <3>3, <3>4 DEF QueueMatches
  <2>13. IdleOnceDrained'
    BY <1>3, <1>4 DEF IdleOnceDrained
  <2>14. FinishedAnswered'
    BY <1>5, <2>2, <2>3, <2>4, <2>5 DEF FinishedAnswered
  <2> QED
    BY <2>8, <2>9, <2>10, <2>11, <2>12, <2>13, <2>14
<1>7. CASE ~DispatchesNext
  <2>1. /\ activeTasks' = activeTasks - 1 /\ pc' = [pc EXCEPT ![t] = "done"]
        /\ taskQueue' = taskQueue /\ started' = started
    BY <1>7
  <2>2. taskQueue = <<>>
    BY <1>1, <1>2, <1>7 DEF DispatchesNext
  <2>3. /\ pc' \in [Tasks -> PCs] /\ pc'[t] = "done"
        /\ \A u \in Tasks \ {t} : pc'[u] = pc[u]
    BY <1>1, <2>1
  <2>4. InFlight' = InFlight \ {t}
    BY <2>3 DEF InFlight, Executing
  <2>5. Cardinality(InFlight)' = Cardinality(InFlight) - 1
    BY <1>1, <2>4, InFlightFinite, FS_RemoveElement
  <2>6. TypeOK'
    <3>1. activeTasks' \in Nat
      BY <1>1, <1>2, <2>1
    <3>2. isDraining' \in BOOLEAN /\ taskQueue' \in Seq(Tasks) /\ accepted' \in Seq(Tasks) /\ started' \in Seq(Tasks)
      BY <2>1 DEF TypeOK
    <3> QED
      BY <1>4, <2>3, <3>1, <3>2 DEF TypeOK
  <2>7. SlotsExact' /\ QueuedMeansBusy' /\ NoBarging'
    BY <1>1, <1>2, <2>1, <2>2, <2>5 DEF SlotsExact, QueuedMeansBusy, NoBarging
  <2>8. QueueMatches'
    BY <2>1, <2>2, <2>3 DEF QueueMatches
  <2>9. IdleOnceDrained'
    BY <1>3, <1>4 DEF IdleOnceDrained
  <2>10. FinishedAnswered'
    BY <1>5, <2>3 DEF FinishedAnswered
  <2> QED
    BY <2>6, <2>7, <2>8, <2>9, <2>10
<1> QED
  BY <1>6, <1>7

-----------------------------------------------------------------------------
(* drain() and shutdown()                                                  *)

\* The steps of shutdown() leave the tasks as they are.
LEMMA ShutdownIInv ==
  ASSUME IInv, exit = "no", drain \/ Shutdown
  PROVE  IInv'
<1> USE DispatchAssumption DEF IInv, task, outputs
<1>1. UNCHANGED task
  BY DEF drain, Shutdown, Signal, PendingTasksDone, ReleaseResources, HardKill, process
<1>2. InFlight' = InFlight
  BY <1>1 DEF InFlight
<1>3. SlotsExact' /\ QueuedMeansBusy' /\ NoBarging' /\ QueueMatches'
  BY <1>1, <1>2 DEF SlotsExact, QueuedMeansBusy, NoBarging, QueueMatches
<1>4. isDraining' \in BOOLEAN /\ exit' \in {"no", "clean", "error"}
      /\ phase' \in {"up", "waiting", "closing", "closed"}
  BY DEF TypeOK, drain, Shutdown, Signal, PendingTasksDone, ReleaseResources, HardKill, process
<1>5. TypeOK'
  BY <1>1, <1>4 DEF TypeOK
<1>6. FinishedAnswered'
  BY <1>1 DEF FinishedAnswered
<1>7. IdleOnceDrained'
  <2>1. CASE drain
    BY <1>1, <1>2, <2>1 DEF IdleOnceDrained, drain, process
  <2>2. CASE Signal
    BY <1>1, <1>2, <2>2 DEF IdleOnceDrained, Signal
  <2>3. CASE PendingTasksDone
    <3>1. InFlight = {}
      BY <2>3, InFlightFinite, FS_EmptySet DEF PendingTasksDone, SlotsExact
    <3> QED
      BY <1>1, <1>2, <2>3, <3>1 DEF IdleOnceDrained, PendingTasksDone
  <2>4. CASE ReleaseResources
    BY <1>1, <1>2, <1>4, <2>4 DEF IdleOnceDrained, ReleaseResources
  <2>5. CASE HardKill
    BY <1>1, <1>2, <2>5 DEF IdleOnceDrained, HardKill
  <2> QED
    BY <2>1, <2>2, <2>3, <2>4, <2>5 DEF Shutdown
<1> QED
  BY <1>3, <1>5, <1>6, <1>7

\* The step lemma.
LEMMA NextIInv == IInv /\ [Next]_vars => IInv'
<1> SUFFICES ASSUME IInv, [Next]_vars PROVE IInv'
  OBVIOUS
<1>1. CASE UNCHANGED vars
  <2>1. InFlight' = InFlight
    BY <1>1 DEF vars, InFlight
  <2> QED
    BY <1>1, <2>1 DEF vars, agent, outputs, process, IInv, TypeOK, SlotsExact, QueuedMeansBusy,
       NoBarging, QueueMatches, IdleOnceDrained, FinishedAnswered
<1>2. ASSUME exit = "no", NEW t \in Tasks, run(t) PROVE IInv'
  BY <1>2, RefuseIInv, RunQueuedIInv, RunNowIInv DEF run, RunDraining, RunAtCapacity
<1>3. ASSUME exit = "no", NEW t \in Tasks, Step(t) PROVE IInv'
  <2>1. CASE ToolResolves(t)
    BY <1>3, <2>1, OutcomeTypes, ApplyIInv DEF ToolResolves
  <2>2. CASE ToolRejects(t)
    BY <1>3, <2>2, OutcomeTypes, ApplyIInv DEF ToolRejects
  <2>3. CASE MiddlewareReturns(t)
    <3>1. PICK res \in {"ok", "failed"} : Apply(t, Outcome(<<>>, <<>>, FALSE, res, "finally"))
      BY <2>3 DEF MiddlewareReturns
    <3> DEFINE o == Outcome(<<>>, <<>>, FALSE, res, "finally")
    <3>2. /\ o.events \in Seq({"complete", "failed"}) /\ o.hooks \in Seq({"ok", "failed"})
          /\ o.result \in Outcomes /\ o.pc \in {"post", "finally"}
      BY DEF Outcome, Outcomes
    <3> HIDE DEF o
    <3> QED
      BY <1>3, <2>3, <3>1, <3>2, ApplyIInv DEF MiddlewareReturns, o
  <2>4. CASE MiddlewareThrows(t)
    BY <1>3, <2>4, OutcomeTypes, ApplyIInv DEF MiddlewareThrows
  <2> QED
    BY <1>3, <2>1, <2>2, <2>3, <2>4, MiddlewareCallsNextIInv, FinallyIInv DEF Step
<1> QED
  BY <1>1, <1>2, <1>3, ShutdownIInv DEF Next

-----------------------------------------------------------------------------
(* The theorems.                                                           *)

\* The inductive invariant holds in every reachable state of the agent.
THEOREM DispatchInvariant == Spec => []IInv
  BY InitIInv, NextIInv, PTL DEF Spec

\* Type correctness of the agent's fields and of what it hands out.
THEOREM DispatchTypeCorrect == Spec => []TypeOK
<1>1. IInv => TypeOK
  BY DEF IInv
<1> QED
  BY <1>1, DispatchInvariant, PTL

\* Slots never leak and the bounds on them hold, whatever fails in a task.
THEOREM DispatchSlotsExact == Spec => []SlotsExact
<1>1. IInv => SlotsExact
  BY DEF IInv
<1> QED
  BY <1>1, DispatchInvariant, PTL

\* No accepted task waits while a slot is free.
THEOREM DispatchQueuedMeansBusy == Spec => []QueuedMeansBusy
<1>1. IInv => QueuedMeansBusy
  BY DEF IInv
<1> QED
  BY <1>1, DispatchInvariant, PTL

\* Tasks start in the order in which they were accepted.
THEOREM DispatchNoBarging == Spec => []NoBarging
<1>1. IInv => NoBarging
  BY DEF IInv
<1> QED
  BY <1>1, DispatchInvariant, PTL

\* A clean exit finishes and answers every accepted task.
THEOREM DispatchCleanExit == Spec => []CleanExitFinishesAll
<1>1. IInv => CleanExitFinishesAll
  <2> SUFFICES ASSUME IInv, exit = "clean", NEW t \in Tasks
               PROVE  /\ pc[t] \in {"new", "rejected", "done"}
                      /\ pc[t] = "done" => answer[t] # "none"
    BY DEF CleanExitFinishesAll
  <2>1. InFlight = {} /\ taskQueue = <<>>
    BY DEF IInv, IdleOnceDrained
  <2>2. pc[t] \notin Executing
    BY <2>1 DEF InFlight
  <2>3. pc[t] # "queued"
    BY <2>1 DEF IInv, QueueMatches
  <2> QED
    BY <2>2, <2>3 DEF IInv, TypeOK, FinishedAnswered
<1> QED
  BY <1>1, DispatchInvariant, PTL
-----------------------------------------------------------------------------
(* What is recorded of a success.                                          *)

\* Without middleware a tool leads straight to the finally block, and the only
\* outcome that is a success has one event, one row and one webhook.
LEMMA OutcomeRecorded ==
  ASSUME ~Middleware
  PROVE  \A o \in InnerCatch \cup Completion :
           /\ o.pc = "finally"
           /\ o.result = "ok" => o.saved /\ o.events = <<"complete">> /\ o.hooks = <<"ok">>
<1> DEFINE Failed(o) == /\ o.events \in Seq({"complete", "failed"})
                        /\ o.pc = "finally" /\ o.result # "ok"
<1>1. AfterTool = "finally"
  BY DEF AfterTool
<1>2. ASSUME NEW ev \in {"complete", "failed"}, NEW S, S \subseteq OuterCatch \cup InnerCatch,
             \A o \in S : Failed(o)
      PROVE  \A o \in Before(ev, S) : Failed(o)
  <2> SUFFICES ASSUME NEW o \in S, NEW p, p = [o EXCEPT !.events = <<ev>> \o o.events]
               PROVE  Failed(p)
    BY DEF Before
  <2>1. Failed(o)
    BY <1>2
  <2>2. <<ev>> \o o.events \in Seq({"complete", "failed"})
    BY <2>1
  <2> QED
    BY <2>1, <2>2
<1>3. \A o \in OuterCatch : Failed(o)
  <2>1. Failed(Outcome(<<"failed">>, <<"failed">>, FALSE, "failed", "finally"))
    BY DEF Outcome
  <2>2. \A ev \in {<<>>, <<"failed">>} : Failed(Outcome(ev, <<>>, FALSE, "threw", "finally"))
    <3>1. <<>> \in Seq({"complete", "failed"}) /\ <<"failed">> \in Seq({"complete", "failed"})
      OBVIOUS
    <3> QED
      BY <3>1 DEF Outcome
  <2> QED
    BY <2>1, <2>2 DEF OuterCatch
<1>4. \A o \in InnerCatch : Failed(o)
  <2>1. Failed(Outcome(<<"failed">>, <<"failed">>, FALSE, "failed", AfterTool))
    BY <1>1 DEF Outcome
  <2> QED
    BY <1>2, <1>3, <2>1 DEF InnerCatch
<1>5. \A o \in Before("complete", InnerCatch) : Failed(o)
  BY <1>2, <1>4
<1>6. ASSUME NEW o, o = Outcome(<<"complete">>, <<"ok">>, TRUE, "ok", "finally")
      PROVE  o.pc = "finally" /\ o.saved /\ o.events = <<"complete">> /\ o.hooks = <<"ok">>
  BY <1>6 DEF Outcome
<1> QED
  BY <1>1, <1>4, <1>5, <1>6 DEF Completion

\* A call of run() finds its predecessors in the sequence answered with "ok".
LEMMA RunRecordedFirst ==
  ASSUME IInv, RecordedFirst, NEW t \in Tasks, run(t)
  PROVE  RecordedFirst'
<1> SUFFICES ASSUME ~Middleware PROVE RecordedFirst'
  BY DEF RecordedFirst
<1>1. /\ pc \in [Tasks -> {"new", "rejected", "queued", "done"} \cup Executing]
      /\ answer \in [Tasks -> {"none", "rejected"} \cup Outcomes]
      /\ Sequence \in Seq(Tasks)
  BY DispatchAssumption DEF IInv, TypeOK
<1>2. /\ pc[t] = "new" /\ SequenceReaches(t)
      /\ \E s \in {"rejected", "queued", "tool"} : pc' = [pc EXCEPT ![t] = s]
      /\ answer' = answer \/ answer' = [answer EXCEPT ![t] = "rejected"]
      /\ UNCHANGED outputs
  BY DEF run, RunDraining, RunAtCapacity, RunQueued, RunNow, Refuse, FirstStage
<1>3. /\ pc'[t] \in {"rejected", "queued", "tool"} /\ answer'[t] # "ok" /\ answer[t] # "ok"
      /\ \A u \in Tasks \ {t} : pc'[u] = pc[u] /\ answer'[u] = answer[u]
  BY <1>1, <1>2 DEF RecordedFirst
<1>4. /\ UNCHANGED <<result, events, hooks, saved>>
      /\ events[t] = <<>> /\ hooks[t] = <<>>
  BY <1>2 DEF outputs, RecordedFirst
<1>5. ASSUME NEW i \in 1 .. Len(Sequence), NEW j \in 1 .. Len(Sequence),
             i < j, pc'[Sequence[j]] # "new"
      PROVE  answer'[Sequence[i]] = "ok"
  <2>1. Sequence[i] \in Tasks /\ Sequence[j] \in Tasks /\ Len(Sequence) \in Nat
    BY <1>1
  <2>2. answer[Sequence[i]] = "ok"
    <3>1. CASE Sequence[j] # t
      BY <1>3, <1>5, <2>1, <3>1 DEF RecordedFirst
    <3>2. CASE Sequence[j] = t
      <4> DEFINE k == j - 1
      <4>1. k \in 1 .. Len(Sequence) /\ j \in 2 .. Len(Sequence) /\ (i = k \/ i < k)
        BY <1>5, <2>1
      <4>2. answer[Sequence[k]] = "ok"
        BY <1>2, <3>2, <4>1 DEF SequenceReaches
      <4>3. Sequence[k] \in Tasks
        BY <1>1, <4>1
      <4>4. pc[Sequence[k]] = "done"
        BY <4>2, <4>3 DEF RecordedFirst
      <4> HIDE DEF k
      <4>5. i < k => answer[Sequence[i]] = "ok"
        BY <4>1, <4>4 DEF RecordedFirst
      <4> QED
        BY <4>1, <4>2, <4>5
    <3> QED
      BY <3>1, <3>2
  <2> QED
    BY <1>3, <2>1, <2>2
<1>6. ASSUME NEW u \in Tasks
      PROVE  /\ pc'[u] \notin {"middleware", "post"}
             /\ pc'[u] \in {"new", "rejected", "queued", "tool"} => events'[u] = <<>> /\ hooks'[u] = <<>>
             /\ answer'[u] = "ok" => pc'[u] = "done"
             /\ answer'[u] = "ok" \/ (pc'[u] = "finally" /\ result'[u] = "ok") =>
                  u \in saved' /\ events'[u] = <<"complete">> /\ hooks'[u] = <<"ok">>
  BY <1>3, <1>4 DEF RecordedFirst
<1> QED
  BY <1>5, <1>6 DEF RecordedFirst

\* The end of a tool: its outcome is applied to a task nothing was said of.
LEMMA ToolRecordedFirst ==
  ASSUME IInv, RecordedFirst, NEW t \in Tasks, ToolResolves(t) \/ ToolRejects(t)
  PROVE  RecordedFirst'
<1> SUFFICES ASSUME ~Middleware PROVE RecordedFirst'
  BY DEF RecordedFirst
<1>1. PICK o \in InnerCatch \cup Completion : Apply(t, o)
  BY DEF ToolResolves, ToolRejects
<1>2. /\ pc[t] = "tool" /\ pc \in [Tasks -> {"new", "rejected", "queued", "done"} \cup Executing]
      /\ result \in [Tasks -> {"none"} \cup Outcomes]
      /\ events \in [Tasks -> Seq({"complete", "failed"})] /\ hooks \in [Tasks -> Seq({"ok", "failed"})]
      /\ Sequence \in Seq(Tasks)
  BY DispatchAssumption DEF ToolResolves, ToolRejects, IInv, TypeOK
<1>3. /\ o.events \in Seq({"complete", "failed"}) /\ o.hooks \in Seq({"ok", "failed"})
      /\ o.pc = "finally"
      /\ o.result = "ok" => o.saved /\ o.events = <<"complete">> /\ o.hooks = <<"ok">>
  BY OutcomeTypes, OutcomeRecorded
<1>4. events[t] = <<>> /\ hooks[t] = <<>> /\ answer[t] # "ok"
  BY <1>2 DEF RecordedFirst
<1>5. events'[t] = o.events /\ hooks'[t] = o.hooks
  <2>1. <<>> \o o.events = o.events /\ <<>> \o o.hooks = o.hooks
    BY <1>3
  <2> QED
    BY <1>1, <1>2, <1>4, <2>1 DEF Apply
<1>6. /\ pc'[t] = "finally" /\ result'[t] = o.result /\ answer' = answer
      /\ saved \subseteq saved' /\ (o.saved => t \in saved')
      /\ \A u \in Tasks \ {t} : /\ pc'[u] = pc[u] /\ result'[u] = result[u]
                                 /\ events'[u] = events[u] /\ hooks'[u] = hooks[u]
  BY <1>1, <1>2, <1>3 DEF Apply
<1>7. ASSUME NEW i \in 1 .. Len(Sequence), NEW j \in 1 .. Len(Sequence),
             i < j, pc'[Sequence[j]] # "new"
      PROVE  answer'[Sequence[i]] = "ok"
  <2>1. Sequence[j] \in Tasks
    BY <1>2
  <2>2. pc[Sequence[j]] # "new"
    BY <1>2, <1>6, <1>7, <2>1
  <2> QED
    BY <1>6, <1>7, <2>2 DEF RecordedFirst
<1>8. ASSUME NEW u \in Tasks
      PROVE  /\ pc'[u] \notin {"middleware", "post"}
             /\ pc'[u] \in {"new", "rejected", "queued", "tool"} => events'[u] = <<>> /\ hooks'[u] = <<>>
             /\ answer'[u] = "ok" => pc'[u] = "done"
             /\ answer'[u] = "ok" \/ (pc'[u] = "finally" /\ result'[u] = "ok") =>
                  u \in saved' /\ events'[u] = <<"complete">> /\ hooks'[u] = <<"ok">>
  <2>1. CASE u = t
    BY <1>3, <1>4, <1>5, <1>6, <2>1
  <2>2. CASE u # t
    BY <1>6, <2>2 DEF RecordedFirst
  <2> QED
    BY <2>1, <2>2
<1> QED
  BY <1>7, <1>8 DEF RecordedFirst

\* The finally block hands on what the tool left, and starts the next task.
LEMMA FinallyRecordedFirst ==
  ASSUME IInv, RecordedFirst, NEW t \in Tasks, Finally(t)
  PROVE  RecordedFirst'
<1> SUFFICES ASSUME ~Middleware PROVE RecordedFirst'
  BY DEF RecordedFirst
<1>1. /\ pc[t] = "finally" /\ pc \in [Tasks -> {"new", "rejected", "queued", "done"} \cup Executing]
      /\ answer \in [Tasks -> {"none", "rejected"} \cup Outcomes]
      /\ Sequence \in Seq(Tasks) /\ UNCHANGED <<result, events, hooks, saved>>
  BY DispatchAssumption DEF Finally, IInv, TypeOK, outputs
<1>2. /\ answer'[t] = "ok" => result[t] = "ok" \/ answer[t] = "ok"
      /\ \A u \in Tasks \ {t} : answer'[u] = answer[u]
      /\ answer[t] # "ok"
  BY <1>1 DEF Finally, RecordedFirst
<1>3. /\ pc'[t] = "done"
      /\ \A u \in Tasks \ {t} : pc'[u] = pc[u] \/ (pc[u] = "queued" /\ pc'[u] = "tool")
  <2>1. CASE DispatchesNext
    <3> DEFINE h == Head(taskQueue)
    <3>1. taskQueue # <<>> /\ pc' = [pc EXCEPT ![t] = "done", ![h] = "tool"]
      BY <2>1 DEF DispatchesNext, Finally, FirstStage
    <3>2. h \in Tasks /\ h = taskQueue[1] /\ 1 \in 1 .. Len(taskQueue)
      BY <3>1, HeadTailProperties, EmptySeq DEF IInv, TypeOK
    <3>3. pc[h] = "queued"
      BY <3>2 DEF IInv, QueueMatches
    <3> HIDE DEF h
    <3> QED
      BY <1>1, <3>1, <3>2, <3>3
  <2>2. CASE ~DispatchesNext
    BY <1>1, <2>2 DEF Finally
  <2> QED
    BY <2>1, <2>2
<1>4. ASSUME NEW i \in 1 .. Len(Sequence), NEW j \in 1 .. Len(Sequence),
             i < j, pc'[Sequence[j]] # "new"
      PROVE  answer'[Sequence[i]] = "ok"
  <2>1. Sequence[i] \in Tasks /\ Sequence[j] \in Tasks
    BY <1>1
  <2>2. pc[Sequence[j]] # "new"
    BY <1>1, <1>3, <1>4, <2>1
  <2>3. answer[Sequence[i]] = "ok"
    BY <1>4, <2>2 DEF RecordedFirst
  <2> QED
    BY <1>2, <2>1, <2>3
<1>5. ASSUME NEW u \in Tasks
      PROVE  /\ pc'[u] \notin {"middleware", "post"}
             /\ pc'[u] \in {"new", "rejected", "queued", "tool"} => events'[u] = <<>> /\ hooks'[u] = <<>>
             /\ answer'[u] = "ok" => pc'[u] = "done"
             /\ answer'[u] = "ok" \/ (pc'[u] = "finally" /\ result'[u] = "ok") =>
                  u \in saved' /\ events'[u] = <<"complete">> /\ hooks'[u] = <<"ok">>
  <2>1. CASE u = t
    BY <1>1, <1>2, <1>3, <2>1 DEF RecordedFirst
  <2>2. CASE u # t
    BY <1>1, <1>2, <1>3, <2>2 DEF RecordedFirst
  <2> QED
    BY <2>1, <2>2
<1> QED
  BY <1>4, <1>5 DEF RecordedFirst

\* The step lemma.
LEMMA NextRecordedFirst == IInv /\ RecordedFirst /\ [Next]_vars => RecordedFirst'
<1> SUFFICES ASSUME IInv, RecordedFirst, [Next]_vars, ~Middleware PROVE RecordedFirst'
  BY DEF RecordedFirst
<1>1. ASSUME UNCHANGED <<pc, outputs, answer>> PROVE RecordedFirst'
  BY <1>1 DEF RecordedFirst, outputs
<1>2. CASE UNCHANGED vars \/ drain \/ Shutdown
  BY <1>1, <1>2 DEF vars, drain, Shutdown, Signal, PendingTasksDone, ReleaseResources, HardKill, task
<1>3. ASSUME NEW t \in Tasks, Step(t) PROVE RecordedFirst'
  <2>1. pc[t] \notin {"middleware", "post"}
    BY DEF RecordedFirst
  <2> QED
    BY <1>3, <2>1, ToolRecordedFirst, FinallyRecordedFirst
       DEF Step, MiddlewareCallsNext, MiddlewareReturns, MiddlewareThrows
<1> QED
  BY <1>2, <1>3, RunRecordedFirst DEF Next

\* Without middleware, a task that run() reports as a success completed once,
\* has its row and its webhook; and a sequence goes on only after successes.
THEOREM DispatchSuccessRecorded == Spec => []SuccessRecorded
<1>1. Init => RecordedFirst
  <2> SUFFICES ASSUME Init PROVE RecordedFirst
    OBVIOUS
  <2>1. \A j \in 1 .. Len(Sequence) : Sequence[j] \in Tasks
    BY DispatchAssumption
  <2> QED
    BY <2>1 DEF Init, RecordedFirst
<1>2. RecordedFirst => SuccessRecorded
  <2> SUFFICES ASSUME RecordedFirst, ~Middleware PROVE SuccessRecorded
    BY DEF SuccessRecorded
  <2>1. \A i \in 1 .. Len(Sequence) : Sequence[i] \in Tasks
    BY DispatchAssumption
  <2> QED
    BY <2>1 DEF RecordedFirst, SuccessRecorded
<1> QED
  BY <1>1, <1>2, NextRecordedFirst, DispatchInvariant, PTL DEF Spec
=============================================================================
