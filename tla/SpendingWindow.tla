--------------------------- MODULE SpendingWindow ---------------------------
(***************************************************************************)
(* The rolling spending window (backend/spending_tracker.ts), its mirror in *)
(* SQLite (backend/persistence.ts) and the spending guard that feeds it    *)
(* (backend/agent.ts, backend/tools/SorobanInvokeTool.ts).                 *)
(*                                                                         *)
(* Amounts are the numbers parseFloat returns for the amount field of a    *)
(* task; the guard runs before the tool's own schema, which accepts only   *)
(* positive amounts, so the guard sees the others too.  Strings that parse *)
(* to NaN are ignored by the guard and change nothing.  Time is a counter; *)
(* Date.now() does not go back.                                            *)
(*                                                                         *)
(* Faults: the SQLite calls that may throw, among "save", "load",          *)
(* "prune" and "clear".  Each action is given the set F of those that do.  *)
(***************************************************************************)
EXTENDS Integers, Sequences

CONSTANTS Amounts,
          AGENT_SPENDING_LIMIT,
          MAINNET_SPENDING_CAP,
          Mainnet,              \* is STELLAR_NETWORK "mainnet"?
          SPENDING_WINDOW_MS,
          Faults,
          MaxTime,              \* bound of the clock
          MaxRecords            \* bound of the records in memory, in the table and in the history

ASSUME SpendingAssumption ==
  /\ Amounts \subseteq Int
  /\ AGENT_SPENDING_LIMIT \in Nat /\ MAINNET_SPENDING_CAP \in Nat
  /\ Mainnet \in BOOLEAN
  /\ SPENDING_WINDOW_MS \in Nat \ {0}
  /\ Faults \subseteq {"save", "load", "prune", "clear"}
  /\ MaxTime \in Nat /\ MaxRecords \in Nat

VARIABLES
  now,        \* Date.now()
  up,         \* is the process running?
  records,    \* the window in memory, oldest first
  db,         \* the table spending_records, in insertion order
  authorised, \* history: the payments the guard let through to their tool, with
              \* "here" telling those of the running process
  lowered,    \* history: the records of amounts below zero, of the last two windows
  mishaps     \* history: the SQLite calls that have thrown so far

vars == <<now, up, records, db, authorised, lowered, mishaps>>

Record(a, t) == [amount |-> a, timestamp |-> t]

Sum(s) ==
  LET sum[i \in 0 .. Len(s)] == IF i = 0 THEN 0 ELSE sum[i - 1] + s[i].amount
  IN  sum[Len(s)]

\* The elements of s at the positions in I, in their order.
At(s, I) ==
  LET kept[i \in 0 .. Len(s)] ==
        IF i = 0 THEN <<>> ELSE IF i \in I THEN Append(kept[i - 1], s[i]) ELSE kept[i - 1]
  IN  kept[Len(s)]

Since(s, cutoff) == At(s, {i \in 1 .. Len(s) : s[i].timestamp >= cutoff})
Cutoff(t) == t - SPENDING_WINDOW_MS

\* A record that some payment of the window up to t was summed with.
Recent(s, t) == Since(s, Cutoff(Cutoff(t)))

\* What a SQLite call leaves behind when the calls in F throw: every caller
\* catches the exception and goes on.
Unless(call, F, unchanged, ok) == IF call \in F THEN unchanged ELSE ok

Init ==
  /\ now = 0 /\ up = TRUE
  /\ records = <<>> /\ db = <<>> /\ authorised = <<>> /\ lowered = <<>>
  /\ mishaps = {}

\* pruneOld: what stays in memory.  Timestamps never decrease along records,
\* so shifting from the front while expired keeps exactly the unexpired ones.
Kept(s, t) == Since(s, Cutoff(t))

\* pruneOld: the table is pruned too, but only when something was evicted.
Evicts(s, t) == Len(Kept(s, t)) < Len(s)

PrunedDb(d, evicted, t, F) ==
  IF evicted THEN Unless("prune", F, d, Since(d, Cutoff(t))) ELSE d

-----------------------------------------------------------------------------

Exceeds(total) == total > AGENT_SPENDING_LIMIT

\* The individual checks of assertWithinSpendingLimit.
Refused(a) == Exceeds(a) \/ (Mainnet /\ a > MAINNET_SPENDING_CAP)

\* Mutant of Persisted: the record is written only when the payment passes.
MutPersisted(d, r, total, F) ==
  IF Exceeds(total) THEN d ELSE Unless("save", F, d, Append(d, r))

\* persist(): best effort, before the total is compared with the limit.
Persisted(d, r, total, F) == Unless("save", F, d, Append(d, r))

\* assertWithinSpendingLimit, then SpendingTracker.record.  total() reads the
\* clock again and prunes again: the millisecond may have changed in between.
\* A payment that is let through, if its amount is one the tool's schema
\* accepts, may move the money; a payment that is refused stays recorded.
record(a) ==
  /\ up /\ ~Refused(a)
  /\ \A s \in {records, db, authorised, lowered} : Len(s) < MaxRecords
  /\ \E later \in {now, now + 1}, F \in SUBSET (Faults \cap {"save", "prune"}),
        G \in SUBSET (Faults \cap {"prune"}) :
       LET new    == Record(a, now)
           pushed == Append(Kept(records, now), new)
           window == Kept(pushed, later)
           total  == Sum(window)
           pruned == PrunedDb(db, Evicts(records, now), now, F)
       IN  /\ later <= MaxTime
           /\ now' = later
           /\ records' = window
           /\ db' = PrunedDb(Persisted(pruned, new, total, F), Evicts(pushed, later), later, G)
           /\ authorised' =
                LET passed == IF Exceeds(total) \/ a <= 0 THEN authorised
                              ELSE Append(authorised, [amount |-> a, timestamp |-> now, here |-> TRUE])
                IN  Since(passed, Cutoff(later))
           /\ lowered' = Recent(IF a < 0 THEN Append(lowered, new) ELSE lowered, later)
           /\ mishaps' = mishaps \cup F \cup G
  /\ UNCHANGED up

\* total() and getWindowStatus(), called by GET /spending.
total ==
  /\ up
  /\ records' = Kept(records, now)
  /\ \E F \in SUBSET (Faults \cap {"prune"}) :
       /\ db' = PrunedDb(db, Evicts(records, now), now, F)
       /\ mishaps' = mishaps \cup F
  /\ UNCHANGED <<now, up, authorised, lowered>>

\* clear(): an operator starts a new window.
clear ==
  /\ up
  /\ records' = <<>>
  /\ \E F \in SUBSET (Faults \cap {"clear"}) :
       /\ db' = Unless("clear", F, db, <<>>)
       /\ lowered' = Unless("clear", F, lowered, <<>>)
       /\ mishaps' = mishaps \cup F
  /\ authorised' = <<>>
  /\ UNCHANGED <<now, up>>

Tick ==
  /\ now < MaxTime
  /\ now' = now + 1
  /\ authorised' = Since(authorised, Cutoff(now + 1))
  /\ lowered' = Recent(lowered, now + 1)
  /\ UNCHANGED <<up, records, db, mishaps>>

\* The process ends at any moment; SQLite commits each statement.
Crash ==
  /\ up
  /\ up' = FALSE /\ records' = <<>>
  /\ authorised' = [i \in DOMAIN authorised |-> [authorised[i] EXCEPT !.here = FALSE]]
  /\ UNCHANGED <<now, db, lowered, mishaps>>

\* Mutant of Loaded: the record on the edge of the window is not loaded.
MutLoaded == Since(db, Cutoff(now) + 1)

\* loadSpendingRecords(cutoff)
Loaded == Since(db, Cutoff(now))

\* The constructor: restore(), which starts empty when the table is unreadable,
\* and otherwise logs total(), which prunes at a clock that may have moved on.
Restart ==
  /\ ~up
  /\ up' = TRUE
  /\ \E later \in {now, now + 1}, F \in SUBSET (Faults \cap {"load", "prune"}) :
       LET loaded == Unless("load", F, <<>>, Loaded)
       IN  /\ later <= MaxTime
           /\ now' = later
           /\ records' = Kept(loaded, later)
           /\ db' = PrunedDb(db, Evicts(loaded, later), later, F)
           /\ authorised' = Since(authorised, Cutoff(later))
           /\ lowered' = Recent(lowered, later)
           /\ mishaps' = mishaps \cup F

Next == (\E a \in Amounts : record(a)) \/ total \/ clear \/ Tick \/ Crash \/ Restart

Spec == Init /\ [][Next]_vars

-----------------------------------------------------------------------------
(* Properties.                                                             *)

IsRecord(r) == r.amount \in Amounts /\ r.timestamp \in 0 .. now

TypeOK ==
  /\ now \in 0 .. MaxTime /\ up \in BOOLEAN
  /\ Len(records) <= MaxRecords
  /\ mishaps \subseteq Faults
  /\ \A s \in {records, db, authorised, lowered} : \A i \in DOMAIN s : IsRecord(s[i])

InWindow(s) == Since(s, Cutoff(now))

\* The table mirrors the window: restarting now would give the same window,
\* whatever was pruned on either side, and in the same order, as long as no
\* other statement failed.
WindowMirrored ==
  /\ TypeOK
  /\ up /\ mishaps \cap {"save", "load", "clear"} = {} => InWindow(records) = InWindow(db)

\* An amount below zero is summed like any other, although no tool pays it: it
\* makes room for as much more.  It does so only for the payments whose window
\* it is in, and those are within one window of each other.
Room == AGENT_SPENDING_LIMIT - Sum(Recent(lowered, now))

\* The payments that the running process let through.
Here(s) == At(s, {i \in 1 .. Len(s) : s[i].here})

\* What the agent was allowed to spend within any window stays within the
\* limit, also when the process crashed and restarted inside the window and
\* when the table could not be pruned; amounts below zero raise the limit by
\* what they are, for no longer than two windows.  And "if the database is
\* unavailable the tracker still enforces the limit for the life of the
\* process": whichever SQLite calls fail, the same holds of what one process
\* lets through.
SpentWithinLimit ==
  /\ mishaps \subseteq {"prune"} => Sum(InWindow(authorised)) <= Room
  /\ Sum(Here(InWindow(authorised))) <= Room

-----------------------------------------------------------------------------
(* The inductive invariant behind the two of them.                         *)

\* What the histories are made of.
Shapes ==
  /\ records \in Seq([amount : Amounts, timestamp : 0 .. now])
  /\ db \in Seq([amount : Amounts, timestamp : 0 .. now])
  /\ lowered \in Seq([amount : {a \in Amounts : a < 0}, timestamp : 0 .. now])
  /\ authorised \in Seq([amount : {a \in Amounts : a > 0}, timestamp : 0 .. now, here : BOOLEAN])
  /\ Len(db) <= MaxRecords
  /\ ~up => \A i \in DOMAIN authorised : ~authorised[i].here

NothingLost == mishaps \subseteq {"prune"}

\* For every part of the window, back to any c in it: what is in the table is
\* in memory, what was authorised is on the record, less what the amounts
\* below zero took off it, and the limit held when the latest was authorised.
Accounted(c) ==
  /\ up /\ NothingLost => Since(records, c) = Since(db, c)
  /\ Sum(Since(lowered, c)) <= Sum(Since(db, c))
  /\ NothingLost => Sum(Since(authorised, c)) + Sum(Since(lowered, c)) <= Sum(Since(db, c))
  /\ up => Sum(Here(Since(authorised, c))) + Sum(Since(lowered, c)) <= Sum(Since(records, c))
  /\ NothingLost => Sum(Since(authorised, c)) <= AGENT_SPENDING_LIMIT - Sum(Since(lowered, Cutoff(c)))
  /\ Sum(Here(Since(authorised, c))) <= AGENT_SPENDING_LIMIT - Sum(Since(lowered, Cutoff(c)))

IInv == TypeOK /\ Shapes /\ \A c \in Cutoff(now) .. MaxTime : Accounted(c)
=============================================================================
