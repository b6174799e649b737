--------------------------- MODULE WatcherPromise ---------------------------
(***************************************************************************)
(* What ContractStorageWatcherTool promises to its listeners, without      *)
(* polls, timers and options: what they are told is a state in which the   *)
(* contract was at one moment, and the watcher knows what it told.  A      *)
(* listener that throws can cut a report short, and then every entry that  *)
(* is gone is told after all the others.                                   *)
(***************************************************************************)
EXTENDS Naturals

CONSTANTS Keys, Values, Absent

VARIABLES contract,   \* the entries of the contract
          read,       \* the states of it that are read and not yet reported
          told,       \* what the events say the entries are
          cache,      \* what the watcher compares the next answer with
          faults      \* how often a request failed or a listener threw

vars == <<contract, read, told, cache, faults>>

Init == read = {} /\ told = cache /\ faults = 0

Change ==
  /\ \E k \in Keys, v \in Values \cup {Absent} : contract' = [contract EXCEPT ![k] = v]
  /\ UNCHANGED <<read, told, cache, faults>>

Read ==
  /\ read' = read \cup {contract}
  /\ UNCHANGED <<contract, told, cache, faults>>

\* Another request may have read the same state.
Used(s) == read' \in {read, read \ {s}}

Report(s) ==
  /\ told' = s /\ cache' = s /\ Used(s)
  /\ UNCHANGED <<contract, faults>>

CutShort(s) ==
  /\ \E done \in SUBSET Keys : told' = [k \in Keys |-> IF k \in done THEN s[k] ELSE told[k]]
  /\ (\E k \in Keys : told'[k] = Absent /\ told[k] # Absent) =>
       \A k \in Keys : s[k] # Absent => told'[k] = s[k]
  /\ cache' = told' /\ Used(s)
  /\ faults' = faults + 1
  /\ UNCHANGED contract

Fail ==
  /\ faults' = faults + 1
  /\ UNCHANGED <<contract, read, told, cache>>

Next ==
  \/ Change \/ Read \/ Fail
  \/ \E s \in read : Report(s) \/ CutShort(s)

Spec == Init /\ [][Next]_vars
=============================================================================
