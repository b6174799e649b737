---------------------------- MODULE EscrowPromise ----------------------------
(***************************************************************************)
(* What the escrow promises, without addresses, authorisation, token or    *)
(* time: the lifecycle of contracts/escrow/README.md (Uninitialized,       *)
(* Active, Settled) and where the deposit goes.                            *)
(***************************************************************************)
EXTENDS Integers

VARIABLES phase,        \* "uninitialized", "active" or "settled"
          locked,       \* what is still held for the parties
          toRecipient,  \* what the recipient was paid
          toDepositor   \* what the depositor was paid back

vars == <<phase, locked, toRecipient, toDepositor>>

Init == phase = "uninitialized" /\ locked = 0 /\ toRecipient = 0 /\ toDepositor = 0

Lock ==
  /\ phase = "uninitialized"
  /\ phase' = "active"
  /\ locked' \in Nat \ {0}
  /\ UNCHANGED <<toRecipient, toDepositor>>

\* All or part goes to the recipient; the last unit settles the escrow.
Pay ==
  /\ phase = "active"
  /\ locked' \in Nat /\ locked' < locked
  /\ toRecipient' = toRecipient + (locked - locked')
  /\ phase' = IF locked' = 0 THEN "settled" ELSE "active"
  /\ UNCHANGED toDepositor

\* Everything that is left goes back to the depositor.
Return ==
  /\ phase = "active"
  /\ phase' = "settled" /\ locked' = 0
  /\ toDepositor' = toDepositor + locked
  /\ UNCHANGED toRecipient

Next == Lock \/ Pay \/ Return

Spec == Init /\ [][Next]_vars
=============================================================================
