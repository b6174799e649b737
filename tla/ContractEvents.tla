--------------------------- MODULE ContractEvents ---------------------------
(***************************************************************************)
(* The polling listener for contract events (listen() of                   *)
(* backend/tools/ContractEventListener.ts) and the agent's hold on it      *)
(* (startContractListener, stopContractListener and destroy of             *)
(* backend/agent.ts).                                                      *)
(*                                                                         *)
(* The events of the contract are numbered in the order of the chain; a    *)
(* cursor is the number of the last event read.  An action is what the     *)
(* code does between two awaits or timers.  Each element of Listeners is   *)
(* one call of listen().                                                   *)
(*                                                                         *)
(* Faults names what may go wrong:                                         *)
(*   "latest"    getLatestLedger() rejects                                 *)
(*   "events"    getEvents() rejects                                       *)
(*   "callback"  onEvent throws                                            *)
(***************************************************************************)
EXTENDS Integers, Sequences, SequencesExt

CONSTANTS Listeners,
          MaxEvents,             \* bound on the events of the contract
          MaxDeliveries,         \* bound on the calls of onEvent before it throws
          Matching,              \* the events that pass the eventTypes filter
          PageSize,              \* of a response of the RPC server
          maxReconnectAttempts,
          Faults

ASSUME EventsAssumption ==
  /\ MaxEvents \in Nat /\ MaxDeliveries \in Nat /\ Matching \subseteq 1 .. MaxEvents
  /\ PageSize \in Nat \ {0} /\ maxReconnectAttempts \in Nat \ {0}
  /\ Faults \subseteq {"latest", "events", "callback"}
  /\ "none" \notin Listeners

VARIABLES
  head,               \* how many events the contract has emitted
  cursor, startLedger,  \* variables of listen(): the last event read, and what
                         \* became of startLedgerPromise
  reconnectAttempts, isStopped,
  pc,                 \* where each listener stands
  holder,             \* _contractListenerStop of the agent
  crashed,            \* an unhandled rejection ended the process
  delivered,          \* the calls of onEvent
  stoppedAt,          \* history: the calls of onEvent before stop()
  thrown,             \* history: the listeners whose onEvent has thrown
  outage              \* history: the failed polls since the last that succeeded

chain   == <<head>>
listener == <<cursor, startLedger, reconnectAttempts, isStopped, pc>>
history == <<delivered, stoppedAt, thrown, outage>>
vars == <<chain, listener, holder, crashed, history>>

NoListener == "none"
Undefined == -1        \* no cursor, no start ledger yet
Rejected  == -2        \* startLedgerPromise is a rejected promise
Running == {l \in Listeners : pc[l] # "new" /\ ~isStopped[l]}

Init ==
  /\ head = 0
  /\ cursor = [l \in Listeners |-> Undefined]
  /\ startLedger = [l \in Listeners |-> Undefined]
  /\ reconnectAttempts = [l \in Listeners |-> 0]
  /\ isStopped = [l \in Listeners |-> FALSE]
  /\ pc = [l \in Listeners |-> "new"]
  /\ holder = NoListener /\ crashed = FALSE
  /\ delivered = [l \in Listeners |-> <<>>]
  /\ stoppedAt = [l \in Listeners |-> Undefined]
  /\ thrown = {}
  /\ outage = [l \in Listeners |-> 0]

\* The contract emits an event.
Emit ==
  /\ head < MaxEvents
  /\ head' = head + 1
  /\ UNCHANGED <<listener, holder, crashed, history>>

-----------------------------------------------------------------------------
(* stop() and the agent.  pc is "waiting" while a timer is armed.          *)

\* Mutant of Silence: stop() clears the timer and sets no flag.
MutSilence(S) ==
  /\ stoppedAt' = [l \in Listeners |->
       IF l \in S /\ stoppedAt[l] = Undefined THEN Len(delivered[l]) ELSE stoppedAt[l]]
  /\ UNCHANGED isStopped

Silence(S) ==
  /\ isStopped' = [l \in Listeners |-> isStopped[l] \/ l \in S]
  /\ stoppedAt' = [l \in Listeners |->
       IF l \in S /\ ~isStopped[l] THEN Len(delivered[l]) ELSE stoppedAt[l]]

\* Clearing the timer of a listener that waits ends it.
Cleared(S) == [l \in Listeners |-> IF l \in S /\ pc[l] = "waiting" THEN "idle" ELSE pc[l]]

\* What a call of poll() does first: it asks for the latest ledger once and
\* keeps the promise, or goes on to getEvents.
FirstStep(l) ==
  IF cursor[l] # Undefined \/ startLedger[l] >= 0 THEN "fetching"
  ELSE IF startLedger[l] = Undefined THEN "starting" ELSE "broken"

\* Replaces the listener the agent holds; listen() polls at once.
startContractListener(l) ==
  /\ pc[l] = "new"
  /\ holder' = l
  /\ Silence({holder})
  /\ pc' = [Cleared({holder}) EXCEPT ![l] = FirstStep(l)]
  /\ UNCHANGED <<chain, cursor, startLedger, reconnectAttempts, crashed, delivered, thrown, outage>>

\* Also the part of destroy() that concerns the listener.
stopContractListener ==
  /\ holder # NoListener
  /\ holder' = NoListener
  /\ Silence({holder})
  /\ pc' = Cleared({holder})
  /\ UNCHANGED <<chain, cursor, startLedger, reconnectAttempts, crashed, delivered, thrown, outage>>

-----------------------------------------------------------------------------
(* poll().                                                                 *)

poll(l) ==
  /\ pc[l] = "waiting"
  /\ pc' = [pc EXCEPT ![l] = IF isStopped[l] THEN "idle" ELSE FirstStep(l)]
  /\ UNCHANGED <<chain, cursor, startLedger, reconnectAttempts, isStopped, holder, crashed, history>>

GivesUp(attempts) == attempts >= maxReconnectAttempts

\* Mutant of Rescheduled: the next poll waits for a cursor that may never come.
MutRescheduled(l) == IF isStopped[l] \/ cursor[l] = Undefined THEN "idle" ELSE "waiting"

\* setTimeout(poll, ...), unless stop() was called meanwhile.
Rescheduled(l) == IF isStopped[l] THEN "idle" ELSE "waiting"

\* The catch block: stop and emit "error", or try again after the backoff.  The
\* agent keeps the handle as its stop function and listens to none of its
\* events, so emit("error") throws out of poll() and nobody handles it.
Catch(l, attempts) ==
  /\ reconnectAttempts' = [reconnectAttempts EXCEPT ![l] = attempts]
  /\ outage' = [outage EXCEPT ![l] = @ + 1]
  /\ IF GivesUp(attempts)
     THEN /\ isStopped' = [isStopped EXCEPT ![l] = TRUE]
          /\ stoppedAt' = [stoppedAt EXCEPT ![l] =
               IF isStopped[l] THEN @ ELSE Len(delivered'[l])]
          /\ pc' = [pc EXCEPT ![l] = "idle"]
          /\ crashed' = TRUE
     ELSE /\ pc' = [pc EXCEPT ![l] = Rescheduled(l)]
          /\ UNCHANGED <<isStopped, stoppedAt, crashed>>
  /\ UNCHANGED <<chain, holder>>

\* startLedger is inclusive: events of the latest ledger itself are read too.
LatestLedger(l) ==
  /\ pc[l] = "starting"
  /\ \E s \in 0 .. head : startLedger' = [startLedger EXCEPT ![l] = s]
  /\ pc' = [pc EXCEPT ![l] = "fetching"]
  /\ UNCHANGED <<chain, cursor, reconnectAttempts, isStopped, holder, crashed, history>>

LatestLedgerFails(l) ==
  /\ "latest" \in Faults
  /\ pc[l] = "starting"
  /\ startLedger' = [startLedger EXCEPT ![l] = Rejected]
  /\ UNCHANGED <<cursor, delivered, thrown>>
  /\ Catch(l, reconnectAttempts[l] + 1)

\* The promise that was kept rejects again: no call is made.
StartRejectedAgain(l) ==
  /\ pc[l] = "broken"
  /\ UNCHANGED <<cursor, startLedger, delivered, thrown>>
  /\ Catch(l, reconnectAttempts[l] + 1)

GetEventsFails(l) ==
  /\ "events" \in Faults
  /\ pc[l] = "fetching"
  /\ UNCHANGED <<cursor, startLedger, delivered, thrown>>
  /\ Catch(l, reconnectAttempts[l] + 1)

From(l) == IF cursor[l] # Undefined THEN cursor[l] ELSE startLedger[l]

\* The page of events getEvents may answer with.
Page(l) == [i \in 1 .. Min({head - From(l), PageSize}) |-> From(l) + i]

\* The events of the page that pass the filter, in the order of the page.
Matches(page) ==
  LET matches[i \in 0 .. Len(page)] ==
        IF i = 0 THEN <<>>
        ELSE IF page[i] \in Matching THEN Append(matches[i - 1], page[i]) ELSE matches[i - 1]
  IN  matches[Len(page)]

\* Mutant of NextCursor: an empty page sends the listener back to the start.
MutNextCursor(l, page) == IF page # <<>> THEN {Last(page)} ELSE {Undefined}

\* The last event of the page, or the cursor of an empty answer if it has one.
NextCursor(l, page) ==
  IF page # <<>> THEN {Last(page)} ELSE {cursor[l], From(l)}

\* Mutant of GetEvents: an answer does not reset the attempts.
MutGetEvents(l) ==
  /\ pc[l] = "fetching"
  /\ delivered' = [delivered EXCEPT ![l] = @ \o Matches(Page(l))]
  /\ \E c \in NextCursor(l, Page(l)) : cursor' = [cursor EXCEPT ![l] = c]
  /\ outage' = [outage EXCEPT ![l] = 0]
  /\ pc' = [pc EXCEPT ![l] = Rescheduled(l)]
  /\ UNCHANGED <<chain, startLedger, reconnectAttempts, isStopped, holder, crashed, stoppedAt, thrown>>

\* Every matching event is handed to onEvent, whether or not stop() was
\* called meanwhile; then the cursor moves and the next poll is scheduled.
GetEvents(l) ==
  /\ pc[l] = "fetching"
  /\ delivered' = [delivered EXCEPT ![l] = @ \o Matches(Page(l))]
  /\ \E c \in NextCursor(l, Page(l)) : cursor' = [cursor EXCEPT ![l] = c]
  /\ reconnectAttempts' = [reconnectAttempts EXCEPT ![l] = 0]
  /\ outage' = [outage EXCEPT ![l] = 0]
  /\ pc' = [pc EXCEPT ![l] = Rescheduled(l)]
  /\ UNCHANGED <<chain, startLedger, isStopped, holder, crashed, stoppedAt, thrown>>

\* Mutant of CallbackThrows: the cursor moves before the events are handed out.
MutCallbackThrows(l) ==
  /\ "callback" \in Faults
  /\ pc[l] = "fetching" /\ Len(delivered[l]) < MaxDeliveries
  /\ \E i \in 1 .. Len(Matches(Page(l))) :
       delivered' = [delivered EXCEPT ![l] = @ \o SubSeq(Matches(Page(l)), 1, i)]
  /\ cursor' = [cursor EXCEPT ![l] = Last(Page(l))]
  /\ thrown' = thrown \cup {l}
  /\ UNCHANGED startLedger
  /\ Catch(l, 1)

\* onEvent throws on its i-th event: the cursor stays where it was.
CallbackThrows(l) ==
  /\ "callback" \in Faults
  /\ pc[l] = "fetching" /\ Len(delivered[l]) < MaxDeliveries
  /\ \E i \in 1 .. Len(Matches(Page(l))) :
       delivered' = [delivered EXCEPT ![l] = @ \o SubSeq(Matches(Page(l)), 1, i)]
  /\ thrown' = thrown \cup {l}
  /\ UNCHANGED <<cursor, startLedger>>
  /\ Catch(l, 1)

Step(l) ==
  \/ poll(l) \/ LatestLedger(l) \/ LatestLedgerFails(l) \/ StartRejectedAgain(l)
  \/ GetEvents(l) \/ GetEventsFails(l) \/ CallbackThrows(l)

Next ==
  /\ ~crashed
  /\ \/ Emit \/ stopContractListener
     \/ \E l \in Listeners : startContractListener(l) \/ Step(l)

Spec == Init /\ [][Next]_vars

\* Timers fire.  That a call of the RPC server is answered or fails is an
\* assumption on the server: getLatestLedger and getEvents carry no timeout.
FairSpec == Spec /\ \A l \in Listeners : WF_vars(~crashed /\ Step(l))

-----------------------------------------------------------------------------
(* Properties.                                                             *)

Delivered(l) == ToSet(delivered[l])

TypeOK ==
  /\ head \in 0 .. MaxEvents
  /\ cursor \in [Listeners -> {Undefined} \cup 0 .. MaxEvents]
  /\ startLedger \in [Listeners -> {Undefined, Rejected} \cup 0 .. MaxEvents]
  /\ reconnectAttempts \in [Listeners -> 0 .. maxReconnectAttempts]
  /\ isStopped \in [Listeners -> BOOLEAN]
  /\ pc \in [Listeners -> {"new", "starting", "broken", "fetching", "waiting", "idle"}]
  /\ holder \in Listeners \cup {NoListener}
  /\ crashed \in BOOLEAN
  /\ delivered \in [Listeners -> Seq(Matching)]
  /\ stoppedAt \in [Listeners -> {Undefined} \cup Nat]
  /\ thrown \subseteq Listeners
  /\ outage \in [Listeners -> Nat]

\* The cursor moves only past events that were handed out: no matching event
\* between the start ledger and the cursor is missed, whatever fails.
NothingSkipped ==
  /\ TypeOK
  /\ \A l \in Listeners : cursor[l] # Undefined =>
       \A e \in Matching : startLedger[l] < e /\ e <= cursor[l] => e \in Delivered(l)

\* Unless onEvent itself throws, no event is handed out twice and the order is
\* the order of the chain, across failed polls and empty pages.
OnceInOrder ==
  \A l \in Listeners \ thrown : \A i, j \in 1 .. Len(delivered[l]) :
    i < j => delivered[l][i] < delivered[l][j]

\* A matching event that follows the startLedger ledger is eventually handed out,
\* unless the listener is stopped or gives up, or onEvent throws.
EventuallyDelivered ==
  \A l \in Listeners, e \in 1 .. MaxEvents :
    (e \in Matching /\ e <= head /\ startLedger[l] \in 0 .. e - 1)
      ~> (e \in Delivered(l) \/ isStopped[l] \/ l \in thrown \/ crashed)

\* However often the agent replaces its listener, only the one it holds goes on.
\* stop() does not silence the request in flight, whose events are handed out
\* when it is answered, but no other page follows it, also when the listener
\* was replaced, stopped during a backoff, or gave up.
AtMostOnePageAfterStop ==
  /\ \A l \in Running : l = holder
  /\ \A l \in Listeners : stoppedAt[l] # Undefined =>
       Len(delivered[l]) <= stoppedAt[l] + PageSize

\* The unhandled "error" of a listener ends the process only after
\* maxReconnectAttempts polls in a row without one that succeeded, however many
\* failed before; the polls of another listener, also of the one it replaced,
\* do not count.
OutageEndsProcess ==
  crashed => \E l \in Listeners : isStopped[l] /\ outage[l] >= maxReconnectAttempts

-----------------------------------------------------------------------------
(* The inductive invariant behind the four of them.                        *)

\* Where a listener stands in the chain.
Reading(l) ==
  /\ startLedger[l] < 0 => cursor[l] = Undefined /\ delivered[l] = <<>>
  /\ startLedger[l] <= head /\ cursor[l] <= head
  /\ cursor[l] # Undefined => startLedger[l] <= cursor[l]
  /\ l \notin thrown => \A i \in 1 .. Len(delivered[l]) : delivered[l][i] <= From(l)

\* Where it stands in its life.
Lifecycle(l) ==
  /\ pc[l] = "new" => startLedger[l] = Undefined /\ ~isStopped[l] /\ holder # l
  /\ pc[l] = "starting" => startLedger[l] = Undefined
  /\ pc[l] = "fetching" => startLedger[l] >= 0

\* What a stopped listener may still do: the request in flight and nothing else.
Stopped(l) ==
  /\ isStopped[l] <=> stoppedAt[l] # Undefined
  /\ isStopped[l] => pc[l] # "waiting"
  /\ isStopped[l] /\ pc[l] # "idle" => Len(delivered[l]) = stoppedAt[l]

\* The attempts that are counted are failed polls of the current outage, and
\* the listener that reaches the maximum ends the process.
Attempts(l) ==
  /\ reconnectAttempts[l] <= outage[l]
  /\ ~crashed => reconnectAttempts[l] < maxReconnectAttempts

IInv ==
  /\ NothingSkipped /\ OnceInOrder /\ AtMostOnePageAfterStop /\ OutageEndsProcess
  /\ \A l \in Listeners : Reading(l) /\ Lifecycle(l) /\ Stopped(l) /\ Attempts(l)
=============================================================================
