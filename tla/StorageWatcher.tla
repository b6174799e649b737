--------------------------- MODULE StorageWatcher ---------------------------
(***************************************************************************)
(* ContractStorageWatcherTool (backend/tools/ContractStorageWatcherTool.ts) *)
(* polls the storage entries of a contract and emits a change event for    *)
(* every difference from what it saw before.                               *)
(*                                                                         *)
(* The polls of the timer form a chain: each one schedules the next when   *)
(* it ends.  poll() is public, so other calls may run beside the chain.    *)
(* The contract and the RPC server are external.                           *)
(*                                                                         *)
(* Faults: "rpc"       getLedgerEntries rejects                            *)
(*         "listener"  a listener of change throws; emit() is synchronous, *)
(*                     so the exception ends up in the catch of poll()     *)
(***************************************************************************)
EXTENDS Integers, FiniteSets

CONSTANTS Keys, Values,
          Watched,       \* the keys of the options; initialState may hold others
          Absent,        \* no entry under a key
          MaxPollsLimit, \* the option maxPolls, when it is given
          Faults,
          MaxWrites,     \* bound of the changes of the contract
          MaxManual,     \* bound of the calls of poll() from outside
          MaxFaults      \* bound of the faults

ASSUME WatcherAssumption ==
  /\ Watched \subseteq Keys /\ Absent \notin Values
  /\ MaxPollsLimit \in Nat \ {0} /\ Faults \subseteq {"rpc", "listener"}
  /\ MaxWrites \in Nat /\ MaxManual \in Nat /\ MaxFaults \in Nat

VARIABLES
  contract, writes,              \* the contract's entries, and how often they changed
  maxPolls, errorListener,       \* options: 0 for no maxPolls; who listens to error
  pollCount, isStopped, isInitialized, stateCache,   \* fields of the watcher
  timers, timerId,               \* how many timers are pending; is timerId one of them?
  flight,                        \* the polls that wait for their answer
  manual, faults, dones, crashed,
  view                           \* history: what the events tell a listener

options == <<maxPolls, errorListener>>
world   == <<contract, writes, options>>
seen    == <<isInitialized, stateCache, view>>
watcherVars == <<world, seen, pollCount, isStopped, timers, timerId, flight, manual, faults, dones, crashed>>

Storage == [Keys -> Values \cup {Absent}]
Nothing == [k \in Keys |-> Absent]
None    == [phase |-> "none"]
Chains  == 1 .. 1 + MaxManual

WatcherInit ==
  /\ contract \in {s \in Storage : \A k \in Keys \ Watched : s[k] = Absent} /\ writes = 0
  /\ maxPolls \in {0, MaxPollsLimit} /\ errorListener \in BOOLEAN
  /\ \/ isInitialized = FALSE /\ stateCache = Nothing
     \/ isInitialized = TRUE /\ stateCache \in Storage
  /\ view = stateCache
  /\ pollCount = 0 /\ isStopped = FALSE
  /\ timers = 1 /\ timerId = TRUE                       \* scheduleNext(0)
  /\ flight = [c \in Chains |-> None]
  /\ manual = 0 /\ faults = 0 /\ dones = 0 /\ crashed = FALSE

Write(k, v) ==
  /\ writes < MaxWrites /\ contract[k] # v
  /\ contract' = [contract EXCEPT ![k] = v] /\ writes' = writes + 1
  /\ UNCHANGED <<options, seen, pollCount, isStopped, timers, timerId, flight, manual, faults, dones, crashed>>

\* The timer that timerId names, whichever others are pending.
ClearTimer == timers' = (IF timerId THEN timers - 1 ELSE timers) /\ timerId' = FALSE

stop ==
  /\ ~isStopped
  /\ isStopped' = TRUE /\ ClearTimer
  /\ UNCHANGED <<world, seen, pollCount, flight, manual, faults, dones, crashed>>

-----------------------------------------------------------------------------
(* poll()                                                                  *)

\* Mutant of Counted: the poll is not counted.
MutCounted == pollCount

\* Without maxPolls nothing depends on the count: it is not kept.
Counted == IF maxPolls = 0 THEN 0 ELSE pollCount + 1

\* Up to the await.
Starts ==
  IF isStopped THEN UNCHANGED <<flight, pollCount>>
  ELSE LET c == CHOOSE d \in Chains : flight[d] = None
       IN  /\ \E d \in Chains : flight[d] = None          \* ChainsAlive: always
           /\ flight' = [flight EXCEPT ![c] = [phase |-> "asked"]] /\ pollCount' = Counted

TimerFires ==
  /\ timers > 0
  /\ timers' = timers - 1
  /\ \/ timerId /\ timerId' = FALSE
     \/ (timerId => timers > 1) /\ UNCHANGED timerId
  /\ Starts
  /\ UNCHANGED <<world, seen, isStopped, manual, faults, dones, crashed>>

poll ==
  /\ manual < MaxManual /\ manual' = manual + 1
  /\ Starts
  /\ UNCHANGED <<world, seen, isStopped, timers, timerId, faults, dones, crashed>>

RpcReads(c) ==
  /\ flight[c].phase = "asked"
  /\ flight' = [flight EXCEPT ![c] = [phase |-> "answered", entries |-> contract]]
  /\ UNCHANGED <<world, seen, pollCount, isStopped, timers, timerId, manual, faults, dones, crashed>>

Limit == maxPolls # 0 /\ pollCount >= maxPolls

\* Mutant of Ends: a poll that failed is the last of its chain.
MutEnds(c, failed) ==
  /\ flight' = [flight EXCEPT ![c] = None]
  /\ IF failed /\ ~errorListener
     THEN crashed' = TRUE /\ UNCHANGED <<isStopped, timers, timerId, dones>>
     ELSE /\ UNCHANGED crashed
          /\ IF Limit
             THEN isStopped' = TRUE /\ dones' = dones + 1 /\ ClearTimer
             ELSE /\ IF isStopped \/ failed THEN UNCHANGED <<timers, timerId>>
                     ELSE timers' = timers + 1 /\ timerId' = TRUE
                  /\ UNCHANGED <<isStopped, dones>>

\* After the try statement.  An error event without a listener throws, which
\* leaves poll() with a rejected promise nobody handles: Node ends the process.
Ends(c, failed) ==
  /\ flight' = [flight EXCEPT ![c] = None]
  /\ IF failed /\ ~errorListener
     THEN crashed' = TRUE /\ UNCHANGED <<isStopped, timers, timerId, dones>>
     ELSE /\ UNCHANGED crashed
          /\ IF Limit
             THEN isStopped' = TRUE /\ dones' = dones + 1 /\ ClearTimer
             ELSE /\ IF isStopped THEN UNCHANGED <<timers, timerId>>
                     ELSE timers' = timers + 1 /\ timerId' = TRUE
                  /\ UNCHANGED <<isStopped, dones>>

Overwritten(f, ks, entries) == [k \in Keys |-> IF k \in ks THEN entries[k] ELSE f[k]]

\* Mutant of Cached: an entry is cached after its event is emitted.
MutCached(done, last, entries) == Overwritten(stateCache, done \ last, entries)

\* The cache after the keys in done were handled; last holds the key whose
\* event made a listener throw.  The cache is written before the event.
Cached(done, last, entries) == Overwritten(stateCache, done, entries)

\* Mutant of Differing: keys that are gone are not noticed.
MutDiffering(entries) == {k \in Keys : entries[k] \notin {stateCache[k], Absent}}

Differing(entries) == {k \in Keys : entries[k] # stateCache[k]}

\* What the answer entries gives occasion to: the baseline, or one event for
\* each key that differs.
Changed(entries) == IF isInitialized THEN Differing(entries) ELSE Keys

Apply(c, done, last) ==
  /\ stateCache' = Cached(done, last, flight[c].entries)
  /\ view' = Overwritten(view, done, flight[c].entries)
  /\ isInitialized' = TRUE
  /\ UNCHANGED <<world, pollCount, manual>>

Answer(c) ==
  /\ flight[c].phase = "answered"
  /\ Apply(c, Changed(flight[c].entries), {})
  /\ Ends(c, FALSE)
  /\ UNCHANGED faults

\* A listener throws: one of the poll event, which comes last, or one of the
\* change event of key k.  The modified keys come before the deleted ones, and
\* the keys behind k are left for the next poll.
ListenerThrows(c) ==
  /\ "listener" \in Faults /\ faults < MaxFaults /\ faults' = faults + 1
  /\ flight[c].phase = "answered"
  /\ LET entries == flight[c].entries
         changed == Changed(entries)
         deleted == {k \in changed : entries[k] = Absent}
     IN  \/ Apply(c, changed, {})
         \/ /\ isInitialized
            /\ \E k \in changed, done \in SUBSET changed :
                 /\ k \in done
                 /\ IF k \in deleted THEN changed \ deleted \subseteq done
                    ELSE done \cap deleted = {}
                 /\ Apply(c, done, {k})
  /\ Ends(c, TRUE)

RpcFails(c) ==
  /\ "rpc" \in Faults /\ faults < MaxFaults
  /\ flight[c].phase = "asked"
  /\ faults' = faults + 1
  /\ Ends(c, TRUE)
  /\ UNCHANGED <<world, seen, pollCount, manual>>

Poll(c) == RpcReads(c) \/ Answer(c) \/ ListenerThrows(c) \/ RpcFails(c)

WatcherNext ==
  /\ ~crashed
  /\ \/ \E k \in Watched, v \in Values \cup {Absent} : Write(k, v)
     \/ stop \/ TimerFires \/ poll
     \/ \E c \in Chains : Poll(c)

\* Timers fire and the server answers.
WatcherSpec ==
  /\ WatcherInit /\ [][WatcherNext]_watcherVars
  /\ WF_watcherVars(~crashed /\ TimerFires)
  /\ \A c \in Chains : WF_watcherVars(~crashed /\ Poll(c))

-----------------------------------------------------------------------------
(* Properties.                                                             *)

InFlight == {c \in Chains : flight[c] # None}

WatcherTypeOK ==
  /\ contract \in Storage /\ stateCache \in Storage /\ view \in Storage
  /\ writes \in 0 .. MaxWrites
  /\ maxPolls \in {0, MaxPollsLimit} /\ pollCount \in Nat /\ dones \in Nat
  /\ manual \in 0 .. MaxManual /\ faults \in 0 .. MaxFaults
  /\ {isStopped, isInitialized, timerId, errorListener, crashed} \subseteq BOOLEAN
  /\ timers \in 0 .. 1 + MaxManual /\ (timerId => timers > 0)
  /\ \A c \in InFlight : flight[c].phase = "answered" =>
       flight[c].entries \in Storage

\* The watcher keeps WatcherPromise: with any number of polls in flight, answers
\* in any order and listeners that throw, the listeners are told of states the
\* contract was in, one at a time, and stateCache is what they were told.
Snapshots == {flight[c].entries : c \in {d \in Chains : flight[d].phase = "answered"}}

Watch == INSTANCE WatcherPromise WITH read <- Snapshots, told <- view, cache <- stateCache

KeepsWatcherPromise == Watch!Spec

\* A listener that applies the events to the baseline has exactly what the
\* watcher compares the next answer with, also when a listener throws in the
\* middle of an answer: no change is reported twice and none is dropped.
EventsExplainCache == view = stateCache

\* While the watcher watches, a timer or an answer is on its way, whatever
\* failed; each call of poll() adds a chain that polls for ever, and no more.
\* maxPolls bounds the requests, except that a call of poll() beside the chain
\* may add its own, and done is emitted once for each chain at most.
ChainsAlive ==
  /\ WatcherTypeOK
  /\ ~isStopped /\ ~crashed => timers + Cardinality(InFlight) \in 1 .. 1 + manual
  /\ maxPolls # 0 => pollCount <= maxPolls + manual
  /\ dones <= 1 + manual

\* A watcher that goes on watching ends up with the contract's entries, once
\* they change no more, although an older answer may have been applied last.
Converges == <>[](~isStopped /\ ~crashed) => <>[](view = contract)

\* A watcher with maxPolls ends.
WatchEnds == (maxPolls # 0) ~> (isStopped \/ crashed)

-----------------------------------------------------------------------------
(* An inductive invariant of WatcherSpec that implies the two invariants.         *)

\* What the field of a chain may hold.
Polls == {None, [phase |-> "asked"]} \cup [phase : {"answered"}, entries : Storage]

\* A pending timer, a poll in flight and a done belong each to a chain of its
\* own, and a watcher that watches has one.
ChainsApart ==
  /\ timers + Cardinality(InFlight) + dones <= 1 + manual
  /\ ~isStopped /\ ~crashed => timers + Cardinality(InFlight) >= 1

\* Of the polls beyond maxPolls none has ended: the first that ends stops the
\* watcher.
PollsCounted ==
  maxPolls # 0 =>
    /\ pollCount <= maxPolls + manual
    /\ ~isStopped /\ ~crashed => pollCount < maxPolls + Cardinality(InFlight)

\* Inductive: see WatcherInvariant.
WatcherIInv ==
  /\ WatcherTypeOK /\ flight \in [Chains -> Polls]
  /\ EventsExplainCache /\ ChainsApart /\ PollsCounted
=============================================================================
