---------------------------- MODULE EscrowProofs ----------------------------
(***************************************************************************)
(* Proofs about Escrow, for every set of users and every value of the      *)
(* bounds; and, at the end, about StorageWatcher, which watches the        *)
(* storage of a contract.                                                  *)
(***************************************************************************)
EXTENDS Escrow, StorageWatcher, TLAPS, FiniteSetTheorems

\* What a transfer does to the balances: it stays a function to Nat, and the
\* contract's balance moves by the value, or not at all when the contract
\* pays itself.
LEMMA TransferBalances ==
  ASSUME TypeOK,
         NEW from \in Holders, NEW to \in Holders, NEW value \in Nat,
         transfer(from, to, value)
  PROVE  /\ balance' \in [Holders -> Nat]
         /\ from # Contract /\ to = Contract => balance'[Contract] = balance[Contract] + value
         /\ from = Contract => balance'[Contract] >= balance[Contract] - value
<1>1. balance \in [Holders -> Nat] /\ balance[from] >= value /\ Contract \in Holders
  BY DEF TypeOK, transfer, Holders
<1>2. \A h \in Holders : (balance[h] - (IF h = from THEN value ELSE 0))
                                     + (IF h = to THEN value ELSE 0) \in Nat
  BY <1>1
<1> QED
  BY <1>1, <1>2 DEF transfer

\* A payout of the contract, seen from the histories and the balance.
LEMMA PayOutEffect ==
  ASSUME TypeOK, NEW to \in Holders, NEW value \in Nat, PayOut(to, value)
  PROVE  /\ balance' \in [Holders -> Nat]
         /\ balance'[Contract] >= balance[Contract] - value
         /\ paid' \in [Holders -> Nat]
         /\ paid'[to] = paid[to] + value
         /\ \A h \in Holders \ {to} : paid'[h] = paid[h]
<1>1. Contract \in Holders
  BY DEF Holders
<1>2. balance' \in [Holders -> Nat] /\ balance'[Contract] >= balance[Contract] - value
  BY <1>1, TransferBalances DEF PayOut
<1>3. paid \in [Holders -> Nat]
  BY DEF TypeOK
<1>4. paid' = [paid EXCEPT ![to] = paid[to] + value]
  BY DEF PayOut
<1> QED
  BY <1>2, <1>3, <1>4

\* The state before initialize satisfies the invariant.
LEMMA InitIInv == Init => IInv
<1> SUFFICES ASSUME Init PROVE IInv
  OBVIOUS
<1> USE EscrowAssumption DEF Init
<1>1. TypeOK
  <2>1. balance \in [Holders -> Nat] /\ paid \in [Holders -> Nat]
    OBVIOUS
  <2>2. released \in BOOLEAN
    OBVIOUS
  <2>3. 0 \in 0 .. MAX_U64
    OBVIOUS
  <2> QED
    BY <2>1, <2>2, <2>3 DEF TypeOK
<1>2. ~Initialized
  BY DEF Initialized
<1>3. balance[Contract] = 0
  BY DEF Holders
<1>4. Solvent
  BY <1>2, <1>3 DEF Solvent, Owed, Active
<1> QED
  BY <1>1, <1>2, <1>4 DEF IInv, StoredTogether, DepositAccounted,
     ActiveOwesSomething, NoEarlyTakeover, Active

-----------------------------------------------------------------------------
(* Each action preserves the invariant.                                    *)

\* initialize stores the terms together and takes the deposit.
LEMMA InitializeIInv ==
  ASSUME IInv, Observe,
         NEW auth \in SUBSET Users, NEW d \in Users, NEW r \in Holders, NEW a \in Holders,
         NEW value \in 1 .. MAX_I128, NEW exp \in 1 .. MAX_U64,
         initialize(auth, d, r, a, value, exp)
  PROVE  IInv'
<1> USE EscrowAssumption DEF initialize, NotYetInitialized
<1>1. TypeOK /\ StoredTogether /\ Solvent /\ ~Initialized
  BY DEF IInv
<1>2. value \in Nat /\ d \in Holders /\ Contract \in Holders /\ d # Contract /\ d # NoAddress
  BY DEF Holders
<1>3. balance' \in [Holders -> Nat] /\ balance'[Contract] = balance[Contract] + value
  BY <1>1, <1>2, TransferBalances
<1>4. pendingArbiter = NoAddress /\ UNCHANGED pending /\ pendingSince' = 0
  BY <1>1 DEF StoredTogether, Observe, pending
<1>5. TypeOK'
  <2>1. released' \in BOOLEAN
    OBVIOUS
  <2>2. /\ depositor' \in Users \cup {NoAddress}
        /\ recipient' \in Holders \cup {NoAddress}
        /\ arbiter' \in Holders \cup {NoAddress}
    OBVIOUS
  <2>3. /\ amount' \in Nat /\ deposit' \in Nat
        /\ expiry' \in 0 .. MAX_U64 /\ initializedAt' \in 0 .. MAX_U64
        /\ now' \in 0 .. MAX_U64 /\ pendingSince' \in 0 .. MAX_U64
    BY <1>1, <1>2, <1>4 DEF TypeOK
  <2> QED
    BY <1>1, <1>3, <1>4, <2>1, <2>2, <2>3 DEF TypeOK, pending
<1>6. Initialized' /\ Active' /\ Owed' = value
  BY <1>2 DEF Initialized, Active, Owed
<1>7. Solvent'
  BY <1>1, <1>2, <1>3, <1>6 DEF Solvent, TypeOK
<1>8. DepositAccounted'
  BY <1>1, <1>2, <1>6 DEF DepositAccounted, DistinctParties, StoredTogether
<1>9. StoredTogether'
  BY <1>1, <1>2, <1>4, <1>6 DEF StoredTogether, pending, TypeOK
<1> QED
  BY <1>5, <1>6, <1>7, <1>8, <1>9 DEF IInv, ActiveOwesSomething, NoEarlyTakeover

\* release, refund and cancel: all that is owed goes to one of the parties.
LEMMA SettleIInv ==
  ASSUME IInv, Observe, Settle(recipient) \/ Settle(depositor)
  PROVE  IInv'
<1> USE EscrowAssumption DEF Settle, assert_not_released
<1>1. PICK to \in {recipient, depositor} : Settle(to)
  OBVIOUS
<1>2. TypeOK /\ StoredTogether /\ DepositAccounted /\ NoEarlyTakeover /\ Active /\ Initialized
  BY <1>1 DEF IInv, Active
<1>3. recipient \in Holders /\ depositor \in Holders /\ to \in Holders /\ amount \in Nat
  BY <1>1, <1>2 DEF TypeOK, StoredTogether, Initialized, Holders
<1>4. /\ balance' \in [Holders -> Nat] /\ paid' \in [Holders -> Nat]
      /\ paid'[to] = paid[to] + amount
      /\ \A h \in Holders \ {to} : paid'[h] = paid[h]
  BY <1>1, <1>2, <1>3, PayOutEffect
<1>5. UNCHANGED <<terms, arbiter, amount, pending, now, deposit>> /\ released' = TRUE
  BY <1>1
<1>6. pendingSince' = pendingSince \/ pendingSince' = 0
  BY <1>5 DEF Observe, pending
<1>7. pendingArbiter # NoAddress => pendingSince' = pendingSince
  BY <1>5 DEF Observe, pending
<1>8. TypeOK'
  BY <1>2, <1>4, <1>5, <1>6 DEF TypeOK, terms, pending
<1>9. Initialized' /\ ~Active' /\ Owed' = 0 /\ Owed = amount
  BY <1>2, <1>5 DEF Initialized, Active, Owed, terms
<1>10. Solvent'
  BY <1>4, <1>9 DEF Solvent, Holders
<1>11. DepositAccounted'
  <2>1. depositor # recipient /\ paid[depositor] + paid[recipient] + amount = deposit
    BY <1>2, <1>9 DEF DepositAccounted
  <2>2. paid[depositor] \in Nat /\ paid[recipient] \in Nat
    BY <1>2, <1>3 DEF TypeOK
  <2>3. paid'[depositor] + paid'[recipient] = deposit
    BY <1>1, <1>3, <1>4, <2>1, <2>2
  <2>4. depositor' = depositor /\ recipient' = recipient /\ deposit' = deposit
    BY <1>5 DEF terms
  <2>5. paid'[depositor] \in Nat /\ paid'[recipient] \in Nat
    BY <1>3, <1>4
  <2>6. \A h \in Holders \ {depositor, recipient} : paid'[h] = 0
    BY <1>1, <1>2, <1>4 DEF DepositAccounted
  <2> QED
    BY <1>9, <2>1, <2>3, <2>4, <2>5, <2>6 DEF DepositAccounted
<1>12. StoredTogether'
  BY <1>2, <1>5, <1>7, <1>9 DEF StoredTogether, terms, pending
<1>13. NoEarlyTakeover'
  BY <1>2, <1>5 DEF NoEarlyTakeover, DistinctParties, Initialized, terms
<1> QED
  BY <1>8, <1>9, <1>10, <1>11, <1>12, <1>13 DEF IInv, ActiveOwesSomething

\* release_partial: a part of what is owed goes to the recipient.
LEMMA PartialIInv ==
  ASSUME IInv, Observe,
         NEW auth \in SUBSET Users, NEW a \in Holders, NEW value \in 1 .. MAX_I128,
         release_partial(auth, a, value)
  PROVE  IInv'
<1> USE EscrowAssumption DEF release_partial, assert_not_released, ValidPartial, Remaining, SealedAt
<1>1. TypeOK /\ StoredTogether /\ DepositAccounted /\ NoEarlyTakeover /\ Solvent
  BY DEF IInv
<1>2. /\ recipient \in Holders /\ depositor \in Holders /\ Contract \in Holders
      /\ value \in Nat /\ amount \in Nat /\ amount' = amount - value /\ amount' \in Nat
      /\ Active /\ Initialized
  BY <1>1 DEF TypeOK, StoredTogether, Initialized, Active, Holders
<1>3. /\ balance' \in [Holders -> Nat] /\ paid' \in [Holders -> Nat]
      /\ balance'[Contract] >= balance[Contract] - value
      /\ paid'[recipient] = paid[recipient] + value
      /\ \A h \in Holders \ {recipient} : paid'[h] = paid[h]
  BY <1>1, <1>2, PayOutEffect
<1>4. UNCHANGED <<terms, arbiter, pending, now, deposit>>
  OBVIOUS
<1>5. pendingSince' = pendingSince \/ pendingSince' = 0
  BY <1>4 DEF Observe, pending
<1>6. pendingArbiter # NoAddress => pendingSince' = pendingSince
  BY <1>4 DEF Observe, pending
<1>7. TypeOK'
  <2>1. released' \in BOOLEAN
    OBVIOUS
  <2> QED
    BY <1>1, <1>2, <1>3, <1>4, <1>5, <2>1 DEF TypeOK, terms, pending
<1>8. Initialized' /\ Owed = amount /\ Owed' = amount'
  <2>1. Initialized' /\ Owed = amount
    BY <1>2, <1>4 DEF Initialized, Owed, terms
  <2>2. CASE amount' = 0
    BY <2>1, <2>2 DEF Owed, Active
  <2>3. CASE amount' # 0
    BY <2>1, <2>3 DEF Owed, Active
  <2> QED
    BY <2>1, <2>2, <2>3
<1>9. Solvent'
  BY <1>1, <1>2, <1>3, <1>8 DEF Solvent, TypeOK
<1>10. DepositAccounted'
  <2>1. depositor # recipient /\ paid[depositor] + paid[recipient] + amount = deposit
    BY <1>1, <1>2, <1>8 DEF DepositAccounted
  <2>2. paid[depositor] \in Nat /\ paid[recipient] \in Nat
    BY <1>1, <1>2 DEF TypeOK
  <2>3. paid'[depositor] + paid'[recipient] + amount' = deposit
    BY <1>2, <1>3, <2>1, <2>2
  <2>4. depositor' = depositor /\ recipient' = recipient /\ deposit' = deposit
    BY <1>4 DEF terms
  <2>5. \A h \in Holders \ {depositor, recipient} : paid'[h] = 0
    BY <1>1, <1>2, <1>3 DEF DepositAccounted
  <2> QED
    BY <1>8, <2>1, <2>3, <2>4, <2>5 DEF DepositAccounted
<1>11. StoredTogether'
  BY <1>1, <1>2, <1>4, <1>6, <1>8 DEF StoredTogether, Initialized, terms, pending
<1>12. ActiveOwesSomething'
  <2>1. CASE amount' = 0
    BY <2>1 DEF ActiveOwesSomething, Active
  <2>2. CASE amount' # 0
    BY <1>2, <2>2 DEF ActiveOwesSomething
  <2> QED
    BY <2>1, <2>2
<1>13. NoEarlyTakeover'
  BY <1>1, <1>4 DEF NoEarlyTakeover, DistinctParties, Initialized, terms
<1> QED
  BY <1>7, <1>9, <1>10, <1>11, <1>12, <1>13 DEF IInv

\* propose_new_arbiter touches only the pending keys; the clock restarts.
LEMMA ProposeIInv ==
  ASSUME IInv, Observe,
         NEW auth \in SUBSET Users, NEW d \in Holders, NEW a \in Holders,
         propose_new_arbiter(auth, d, a)
  PROVE  IInv'
<1> USE EscrowAssumption DEF propose_new_arbiter, IInv
<1>1. a # NoAddress /\ Initialized
  OBVIOUS
<1>2. pendingSince' = now \/ (pendingSince' = pendingSince /\ pendingArbiter = a)
  BY <1>1 DEF Observe
<1>3. TypeOK'
  BY <1>2 DEF TypeOK, terms
<1>4. StoredTogether'
  BY <1>1, <1>2 DEF StoredTogether, TypeOK, terms, Initialized
<1> QED
  BY <1>3, <1>4 DEF Solvent, DepositAccounted, ActiveOwesSomething, NoEarlyTakeover,
     DistinctParties, Initialized, Active, Owed, terms

\* accept_arbiter_rotation: by the time lock, initialize is at least
\* MIN_ROTATION_DELAY ago.
LEMMA AcceptIInv ==
  ASSUME IInv, Observe, accept_arbiter_rotation
  PROVE  IInv'
<1> USE EscrowAssumption DEF accept_arbiter_rotation, IInv
<1>1. pendingSince' = 0 /\ Initialized
  BY DEF Observe, StoredTogether
<1>2. TypeOK'
  BY <1>1 DEF TypeOK, terms
<1>3. StoredTogether'
  BY <1>1 DEF StoredTogether, TypeOK, terms, Initialized
<1>4. ~(now < initializedAt + MIN_ROTATION_DELAY)
  BY DEF RotationUnlocked, StoredTogether, TypeOK
<1>5. NoEarlyTakeover'
  BY <1>4 DEF NoEarlyTakeover, terms
<1> QED
  BY <1>2, <1>3, <1>5 DEF Solvent, DepositAccounted, ActiveOwesSomething,
     Initialized, Active, Owed, terms

\* A direct transfer to the contract only adds to what it holds.
LEMMA DonateIInv ==
  ASSUME IInv, Observe, NEW from \in Users, NEW value \in 1 .. MAX_I128, Donate(from, value)
  PROVE  IInv'
<1> USE EscrowAssumption DEF Donate, IInv
<1>1. from \in Holders /\ Contract \in Holders /\ from # Contract /\ value \in Nat
  BY DEF Holders
<1>2. balance' \in [Holders -> Nat] /\ balance'[Contract] = balance[Contract] + value
  BY <1>1, TransferBalances
<1>3. pendingSince' \in {0, pendingSince} /\ (pendingArbiter # NoAddress => pendingSince' = pendingSince)
  BY DEF Observe, pending
<1>4. TypeOK'
  BY <1>2, <1>3 DEF TypeOK, terms, pending
<1>5. StoredTogether'
  BY <1>3 DEF StoredTogether, terms, pending, Initialized
<1>6. balance[Contract] \in Nat /\ amount \in Nat /\ Owed \in Nat /\ Owed' = Owed
  BY <1>1 DEF TypeOK, Owed, Active, Initialized, terms
<1>7. Solvent'
  BY <1>1, <1>2, <1>6 DEF Solvent
<1> QED
  BY <1>4, <1>5, <1>6, <1>7 DEF DepositAccounted, ActiveOwesSomething, NoEarlyTakeover,
     DistinctParties, Initialized, Active, terms

\* Time passes: nothing is stored, and what was unlocked stays unlocked.
LEMMA CloseLedgerIInv ==
  ASSUME IInv, Observe, NEW t \in 1 .. MAX_U64, CloseLedger(t)
  PROVE  IInv'
<1> USE EscrowAssumption DEF CloseLedger, IInv
<1>1. pendingSince' \in {0, pendingSince} /\ (pendingArbiter # NoAddress => pendingSince' = pendingSince)
  BY DEF Observe, pending
<1>2. TypeOK'
  BY <1>1 DEF TypeOK, terms, pending
<1>3. StoredTogether'
  BY <1>1 DEF StoredTogether, terms, pending, Initialized, TypeOK
<1>4. NoEarlyTakeover'
  BY DEF NoEarlyTakeover, DistinctParties, Initialized, terms, TypeOK
<1> QED
  BY <1>2, <1>3, <1>4 DEF Solvent, DepositAccounted, ActiveOwesSomething,
     Initialized, Active, Owed, terms

\* The step lemma: every step of the contract and of the ledger.
LEMMA NextIInv == IInv /\ [Next]_vars => IInv'
<1> SUFFICES ASSUME IInv, [Next]_vars PROVE IInv'
  OBVIOUS
<1>1. CASE UNCHANGED vars
  BY <1>1 DEF vars, terms, pending, IInv, TypeOK, StoredTogether, Solvent, DepositAccounted,
     ActiveOwesSomething, NoEarlyTakeover, DistinctParties, Initialized, Active, Owed
<1>2. CASE Next
  <2>1. ASSUME NEW auth \in SUBSET Users, Call(auth), Observe PROVE IInv'
    <3>1. ASSUME NEW a \in Holders, release(auth, a) PROVE IInv'
      BY <2>1, <3>1, SettleIInv DEF release
    <3>2. ASSUME NEW d \in Holders, refund(auth, d) PROVE IInv'
      BY <2>1, <3>2, SettleIInv DEF refund
    <3>3. ASSUME NEW d \in Holders, NEW a \in Holders, cancel(auth, d, a) PROVE IInv'
      BY <2>1, <3>3, SettleIInv DEF cancel
    <3> QED
      BY <2>1, <3>1, <3>2, <3>3, InitializeIInv, PartialIInv, ProposeIInv DEF Call
  <2>2. ASSUME Environment, Observe PROVE IInv'
    BY <2>2, AcceptIInv, DonateIInv, CloseLedgerIInv DEF Environment
  <2> QED
    BY <1>2, <2>1, <2>2 DEF Next
<1> QED
  BY <1>1, <1>2

-----------------------------------------------------------------------------
(* The theorems.                                                           *)

\* The inductive invariant holds in every reachable state of the contract.
THEOREM EscrowInvariant == Spec => []IInv
  BY InitIInv, NextIInv, PTL DEF Spec

\* Type correctness of the storage of the contract and of the token.
THEOREM EscrowTypeCorrect == Spec => []TypeOK
<1>1. IInv => TypeOK
  BY DEF IInv
<1> QED
  BY <1>1, EscrowInvariant, PTL

\* Whatever the order of partial releases, settlements, rotations and direct
\* transfers, an active escrow holds at least what it still owes.
THEOREM EscrowSolvent == Spec => []Solvent
<1>1. IInv => Solvent
  BY DEF IInv
<1> QED
  BY <1>1, EscrowInvariant, PTL

\* Every unit of the deposit is accounted for exactly once: paid out or owed.
THEOREM EscrowDepositAccounted == Spec => []DepositAccounted
<1>1. IInv => DepositAccounted
  BY DEF IInv
<1> QED
  BY <1>1, EscrowInvariant, PTL

\* No partial release leaves an active escrow that owes nothing.
THEOREM EscrowActiveOwesSomething == Spec => []ActiveOwesSomething
<1>1. IInv => ActiveOwesSomething
  BY DEF IInv
<1> QED
  BY <1>1, EscrowInvariant, PTL

\* In the first MIN_ROTATION_DELAY seconds the parties are those that
\* initialize checked.
THEOREM EscrowNoEarlyTakeover == Spec => []NoEarlyTakeover
<1>1. IInv => NoEarlyTakeover
  BY DEF IInv
<1> QED
  BY <1>1, EscrowInvariant, PTL

\* The arbiter only ever changes to the announced one, after the full delay.
THEOREM EscrowRotationAnnounced == Spec => RotationAnnounced
<1> DEFINE A == arbiter # NoAddress /\ arbiter' # arbiter =>
                  /\ arbiter' = pendingArbiter
                  /\ now >= pendingSince + MIN_ROTATION_DELAY
<1>1. ASSUME IInv, [Next]_vars PROVE [A]_vars
  <2> SUFFICES ASSUME arbiter # NoAddress, arbiter' # arbiter PROVE A
    OBVIOUS
  <2>1. Next
    BY <1>1 DEF vars
  <2>2. Initialized
    BY <1>1 DEF IInv, StoredTogether
  <2>3. accept_arbiter_rotation
    BY <2>1, <2>2 DEF Next, Call, Environment, initialize, release, refund, cancel, Settle,
       NotYetInitialized, release_partial, propose_new_arbiter, Donate, CloseLedger
  <2>4. pendingSince <= pendingArbiterTime /\ now >= pendingArbiterTime + MIN_ROTATION_DELAY
    BY <1>1, <2>3, EscrowAssumption
       DEF accept_arbiter_rotation, RotationUnlocked, IInv, StoredTogether
  <2> QED
    BY <1>1, <2>3, <2>4, EscrowAssumption DEF accept_arbiter_rotation, IInv, TypeOK
<1>2. IInv /\ [Next]_vars => [A]_vars
  BY <1>1
<1> QED
  BY <1>2, EscrowInvariant, PTL DEF Spec, RotationAnnounced

\* The contract implements its three-state lifecycle.
THEOREM EscrowImplementsPromise == Spec => ImplementsPromise
<1>1. Init => Promise!Init
  BY DEF Init, Promise!Init, Phase, Initialized, Active, Owed, PaidTo
<1>2. ASSUME IInv, IInv', [Next]_vars PROVE [Promise!Next]_(Promise!vars)
  <2> USE EscrowAssumption
  <2>1. CASE UNCHANGED <<terms, amount, released, paid>>
    BY <2>1 DEF terms, Promise!vars, Phase, Initialized, Active, Owed, PaidTo
  <2>2. ASSUME NEW auth \in SUBSET Users, NEW d \in Users, NEW r \in Holders, NEW a \in Holders,
               NEW value \in 1 .. MAX_I128, NEW exp \in 1 .. MAX_U64,
               initialize(auth, d, r, a, value, exp)
        PROVE  Promise!Lock
    <3>1. ~Initialized /\ Initialized' /\ ~released' /\ amount' = value /\ paid' = paid
      BY <2>2 DEF initialize, NotYetInitialized, Initialized, Holders
    <3>2. Phase = "uninitialized" /\ Phase' = "active" /\ Owed' = value
      BY <3>1 DEF Phase, Owed, Active
    <3>3. recipient' \in Holders /\ depositor' \in Holders
      BY <2>2 DEF initialize, Holders
    <3>4. PaidTo(recipient) = 0 /\ PaidTo(depositor) = 0
      BY <3>1 DEF PaidTo
    <3>5. PaidTo(recipient)' = 0 /\ PaidTo(depositor)' = 0
      BY <1>2, <3>1, <3>3 DEF PaidTo, IInv, StoredTogether
    <3> QED
      BY <3>2, <3>4, <3>5 DEF Promise!Lock
  <2>3. Active /\ Initialized' /\ UNCHANGED terms =>
          /\ recipient \in Holders /\ depositor \in Holders /\ depositor # recipient
          /\ Phase = "active" /\ Owed = amount /\ amount \in Nat /\ amount > 0
          /\ PaidTo(recipient) = paid[recipient] /\ PaidTo(recipient)' = paid'[recipient]
          /\ PaidTo(depositor) = paid[depositor] /\ PaidTo(depositor)' = paid'[depositor]
          /\ paid[recipient] \in Nat /\ paid[depositor] \in Nat
    BY <1>2 DEF IInv, TypeOK, StoredTogether, DepositAccounted, ActiveOwesSomething,
       Active, Initialized, Phase, Owed, PaidTo, terms, Holders
  <2>4. ASSUME NEW to, to = recipient \/ to = depositor, Settle(to)
        PROVE  /\ Active /\ Initialized' /\ UNCHANGED terms
               /\ Phase' = "settled" /\ Owed' = 0
               /\ PayOut(to, amount)
    BY <2>4 DEF Settle, assert_not_released, Active, Initialized, Phase, Owed, terms
  <2>5. CASE Settle(recipient)
    <3>1. paid'[recipient] = paid[recipient] + amount /\ paid'[depositor] = paid[depositor]
      BY <1>2, <2>3, <2>4, <2>5, PayOutEffect DEF IInv
    <3> QED
      BY <2>3, <2>4, <2>5, <3>1 DEF Promise!Next, Promise!Pay
  <2>6. CASE Settle(depositor)
    <3>1. paid'[depositor] = paid[depositor] + amount /\ paid'[recipient] = paid[recipient]
      BY <1>2, <2>3, <2>4, <2>6, PayOutEffect DEF IInv
    <3> QED
      BY <2>3, <2>4, <2>6, <3>1 DEF Promise!Next, Promise!Return
  <2>7. ASSUME NEW auth \in SUBSET Users, NEW a \in Holders, NEW value \in 1 .. MAX_I128,
               release_partial(auth, a, value)
        PROVE  Promise!Pay
    <3>1. Active /\ Initialized' /\ UNCHANGED terms
      BY <2>7 DEF release_partial, assert_not_released, Active, Initialized, terms
    <3>2. /\ paid'[recipient] = paid[recipient] + value /\ paid'[depositor] = paid[depositor]
          /\ value \in Nat /\ 0 < value /\ value <= amount /\ amount' = amount - value
      BY <1>2, <2>3, <2>7, <3>1, PayOutEffect DEF IInv, release_partial, ValidPartial, Remaining
    <3>3. Owed' = amount' /\ Phase' = IF amount' = 0 THEN "settled" ELSE "active"
      <4>1. CASE amount' = 0
        BY <2>7, <3>1, <4>1 DEF release_partial, Remaining, SealedAt, Owed, Active, Phase
      <4>2. CASE amount' # 0
        BY <2>7, <3>1, <4>2 DEF release_partial, Remaining, SealedAt, Owed, Active, Phase
      <4> QED
        BY <4>1, <4>2
    <3> QED
      BY <2>3, <3>1, <3>2, <3>3 DEF Promise!Pay
  <2>8. CASE UNCHANGED vars
    BY <2>1, <2>8 DEF vars, terms
  <2>9. CASE Next
    <3>1. ASSUME NEW auth \in SUBSET Users, Call(auth) PROVE [Promise!Next]_(Promise!vars)
      BY <2>1, <2>2, <2>5, <2>6, <2>7, <3>1 DEF Call, release, refund, cancel,
         propose_new_arbiter, Promise!Next
    <3>2. ASSUME Environment PROVE [Promise!Next]_(Promise!vars)
      BY <2>1, <3>2 DEF Environment, accept_arbiter_rotation, Donate, CloseLedger
    <3> QED
      BY <2>9, <3>1, <3>2 DEF Next
  <2> QED
    BY <1>2, <2>8, <2>9
<1>3. IInv /\ IInv' /\ [Next]_vars => [Promise!Next]_(Promise!vars)
  BY <1>2
<1> QED
  BY <1>1, <1>3, EscrowInvariant, PTL DEF Spec, ImplementsPromise, Promise!Spec

-----------------------------------------------------------------------------
(* The tool that watches the storage of a contract, StorageWatcher, for    *)
(* any keys and values, any maxPolls, any number of writes, faults and     *)
(* calls of poll().                                                        *)

\* The chains can be counted.
LEMMA WatcherCount ==
  /\ IsFiniteSet(InFlight) /\ Cardinality(InFlight) \in Nat /\ Cardinality(InFlight') \in Nat
  /\ \A c \in Chains : flight' = [flight EXCEPT ![c] = None] /\ flight[c] # None
       /\ flight \in [Chains -> Polls]
       => Cardinality(InFlight') = Cardinality(InFlight) - 1 /\ Cardinality(InFlight) >= 1
  /\ \A c \in Chains : flight' = [flight EXCEPT ![c] = [phase |-> "asked"]] /\ flight[c] = None
       /\ flight \in [Chains -> Polls]
       => Cardinality(InFlight') = Cardinality(InFlight) + 1
<1>1. IsFiniteSet(Chains)
  BY FS_Interval, WatcherAssumption DEF Chains
<1>2. IsFiniteSet(InFlight) /\ Cardinality(InFlight) \in Nat /\ Cardinality(InFlight') \in Nat
  BY <1>1, FS_Subset, FS_CardinalityType DEF InFlight
<1>3. ASSUME NEW c \in Chains, flight' = [flight EXCEPT ![c] = None], flight[c] # None,
             flight \in [Chains -> Polls]
      PROVE  Cardinality(InFlight') = Cardinality(InFlight) - 1 /\ Cardinality(InFlight) >= 1
  <2>1. InFlight' = InFlight \ {c} /\ c \in InFlight
    BY <1>3 DEF InFlight
  <2>2. Cardinality(InFlight \ {c}) = Cardinality(InFlight) - 1
    BY <1>2, <2>1, FS_RemoveElement
  <2>3. Cardinality(InFlight) # 0
    BY <1>2, <2>1, FS_EmptySet
  <2> QED
    BY <1>2, <2>1, <2>2, <2>3
<1>4. ASSUME NEW c \in Chains, flight' = [flight EXCEPT ![c] = [phase |-> "asked"]], flight[c] = None,
             flight \in [Chains -> Polls]
      PROVE  Cardinality(InFlight') = Cardinality(InFlight) + 1
  <2>1. [phase |-> "asked"] # None
    BY DEF None
  <2>2. InFlight' = InFlight \cup {c} /\ c \notin InFlight
    BY <1>4, <2>1 DEF InFlight
  <2> QED
    BY <1>2, <2>2, FS_AddElement
<1> QED
  BY <1>2, <1>3, <1>4

\* What the types say of each field.
LEMMA WatcherTypes ==
  ASSUME WatcherIInv
  PROVE  /\ contract \in Storage /\ stateCache \in Storage /\ view = stateCache
         /\ writes \in 0 .. MaxWrites /\ maxPolls \in {0, MaxPollsLimit} /\ maxPolls \in Nat
         /\ pollCount \in Nat /\ dones \in Nat /\ manual \in 0 .. MaxManual /\ manual \in Nat
         /\ faults \in 0 .. MaxFaults /\ timers \in Nat /\ (timerId => timers > 0)
         /\ isStopped \in BOOLEAN /\ isInitialized \in BOOLEAN /\ timerId \in BOOLEAN
         /\ errorListener \in BOOLEAN /\ crashed \in BOOLEAN
         /\ flight \in [Chains -> Polls]
  BY WatcherAssumption DEF WatcherIInv, WatcherTypeOK, EventsExplainCache

\* The part of the invariant that counts: n polls are in flight.
Counts(n) ==
  /\ timers + n + dones <= 1 + manual
  /\ ~isStopped /\ ~crashed => timers + n >= 1
  /\ maxPolls # 0 =>
       /\ pollCount <= maxPolls + manual
       /\ ~isStopped /\ ~crashed => pollCount < maxPolls + n

\* The counts are all that the types leave of the invariant.
LEMMA WatcherParts ==
  ASSUME WatcherTypeOK, flight \in [Chains -> Polls], EventsExplainCache, NEW n, n = Cardinality(InFlight)
  PROVE  Counts(n) <=> WatcherIInv
  BY DEF Counts, WatcherIInv, ChainsApart, PollsCounted

\* A poll ends: its chain goes on with a timer, ends with done, or is cut off.
LEMMA WatcherEnds ==
  ASSUME WatcherIInv, ~crashed, NEW c \in Chains, flight[c] # None, NEW failed, Ends(c, failed),
         maxPolls' = maxPolls, pollCount' = pollCount, manual' = manual
  PROVE  /\ flight' \in [Chains -> Polls] /\ \A n : n = Cardinality(InFlight') => Counts(n)'
         /\ timers' \in Nat /\ dones' \in Nat /\ (timerId' => timers' > 0)
         /\ isStopped' \in BOOLEAN /\ timerId' \in BOOLEAN /\ crashed' \in BOOLEAN
<1>1. /\ maxPolls \in Nat /\ pollCount \in Nat /\ dones \in Nat /\ manual \in Nat /\ timers \in Nat
      /\ (timerId => timers > 0) /\ isStopped \in BOOLEAN /\ timerId \in BOOLEAN
      /\ crashed \in BOOLEAN /\ flight \in [Chains -> Polls]
  BY WatcherTypes
<1>2. PICK n \in Nat : n = Cardinality(InFlight) /\ n >= 1 /\ Cardinality(InFlight') = n - 1
  <2>1. flight' = [flight EXCEPT ![c] = None]
    BY DEF Ends
  <2> QED
    BY <1>1, <2>1, WatcherCount
<1>3. Counts(n)
  BY <1>2, WatcherParts DEF WatcherIInv
<1>4. flight' \in [Chains -> Polls]
  <2>1. None \in Polls
    BY DEF Polls
  <2> QED
    BY <1>1, <2>1 DEF Ends
<1>5. PICK m \in Nat : m = n - 1
  BY <1>2
<1> DEFINE Good == /\ Counts(m)' /\ timers' \in Nat /\ dones' \in Nat /\ (timerId' => timers' > 0)
                   /\ isStopped' \in BOOLEAN /\ timerId' \in BOOLEAN /\ crashed' \in BOOLEAN
<1> SUFFICES Good
  BY <1>2, <1>4, <1>5
<1>6. CASE crashed' = TRUE /\ UNCHANGED <<isStopped, timers, timerId, dones>>
  BY <1>1, <1>3, <1>5, <1>6 DEF Counts
<1>7. CASE /\ crashed' = crashed /\ Limit /\ isStopped' = TRUE /\ dones' = dones + 1
           /\ timers' = (IF timerId THEN timers - 1 ELSE timers) /\ timerId' = FALSE
  <2>1. timers' \in Nat /\ timers' <= timers
    BY <1>1, <1>7
  <2>2. Counts(m)'
    BY <1>1, <1>3, <1>5, <1>7, <2>1 DEF Counts
  <2>3. dones' \in Nat /\ crashed' \in BOOLEAN
    BY <1>1, <1>7
  <2>4. isStopped' \in BOOLEAN /\ timerId' = FALSE
    BY <1>7
  <2>5. timerId' \in BOOLEAN /\ (timerId' => timers' > 0)
    BY <2>4
  <2> QED
    BY <2>1, <2>2, <2>3, <2>4, <2>5
<1>8. CASE /\ crashed' = crashed /\ ~Limit /\ isStopped /\ UNCHANGED <<isStopped, timers, timerId, dones>>
  <2>1. isStopped' = TRUE /\ timers' = timers /\ timerId' = timerId /\ dones' = dones
    BY <1>1, <1>8
  <2>2. Counts(m)'
    BY <1>1, <1>3, <1>5, <2>1 DEF Counts
  <2> QED
    BY <1>1, <1>8, <2>1, <2>2
<1>9. CASE /\ crashed' = crashed /\ ~Limit /\ ~isStopped /\ isStopped' = isStopped /\ dones' = dones
           /\ timers' = timers + 1 /\ timerId' = TRUE
  BY <1>1, <1>3, <1>5, <1>9 DEF Counts, Limit
<1> HIDE DEF Good
<1> QED
  BY <1>6, <1>7, <1>8, <1>9 DEF Ends, ClearTimer

\* A poll starts, unless the watcher is stopped.
LEMMA WatcherStarts ==
  ASSUME WatcherIInv, ~crashed, Starts, crashed' = crashed, dones' = dones, isStopped' = isStopped,
         maxPolls' = maxPolls,
         \/ timers' = timers - 1 /\ timers > 0 /\ manual' = manual
         \/ timers' = timers /\ manual' = manual + 1
  PROVE  /\ flight' \in [Chains -> Polls] /\ \A n : n = Cardinality(InFlight') => Counts(n)'
         /\ pollCount' \in Nat /\ timers' \in Nat
<1>1. /\ maxPolls \in Nat /\ pollCount \in Nat /\ dones \in Nat /\ manual \in Nat /\ timers \in Nat
      /\ isStopped \in BOOLEAN /\ flight \in [Chains -> Polls]
  BY WatcherTypes
<1>2. PICK n \in Nat : n = Cardinality(InFlight)
  BY WatcherCount
<1>3. Counts(n)
  BY <1>2, WatcherParts DEF WatcherIInv
<1>4. CASE isStopped
  <2>1. flight' = flight /\ pollCount' = pollCount
    BY <1>4 DEF Starts
  <2>2. Cardinality(InFlight') = n
    BY <1>2, <2>1 DEF InFlight
  <2> QED
    BY <1>1, <1>3, <1>4, <2>1, <2>2 DEF Counts
<1>5. CASE ~isStopped
  <2> DEFINE d == CHOOSE b \in Chains : flight[b] = None
  <2>1. /\ d \in Chains /\ flight[d] = None
        /\ flight' = [flight EXCEPT ![d] = [phase |-> "asked"]] /\ pollCount' = Counted
    BY <1>5 DEF Starts
  <2> HIDE DEF d
  <2>2. Cardinality(InFlight') = n + 1
    BY <1>1, <1>2, <2>1, WatcherCount
  <2>3. flight' \in [Chains -> Polls]
    <3>1. [phase |-> "asked"] \in Polls
      BY DEF Polls
    <3> QED
      BY <1>1, <2>1, <3>1
  <2>4. pollCount' = IF maxPolls = 0 THEN 0 ELSE pollCount + 1
    BY <2>1 DEF Counted
  <2> QED
    BY <1>1, <1>2, <1>3, <1>5, <2>2, <2>3, <2>4 DEF Counts
<1> QED
  BY <1>4, <1>5


\* The invariant, from its parts in the next state.
LEMMA WatcherMakes ==
  ASSUME /\ contract' \in Storage /\ stateCache' \in Storage /\ view' = stateCache'
         /\ writes' \in 0 .. MaxWrites /\ maxPolls' \in {0, MaxPollsLimit}
         /\ pollCount' \in Nat /\ dones' \in Nat /\ manual' \in 0 .. MaxManual
         /\ faults' \in 0 .. MaxFaults /\ timers' \in Nat /\ (timerId' => timers' > 0)
         /\ isStopped' \in BOOLEAN /\ isInitialized' \in BOOLEAN /\ timerId' \in BOOLEAN
         /\ errorListener' \in BOOLEAN /\ crashed' \in BOOLEAN
         /\ flight' \in [Chains -> Polls]
         /\ \A n : n = Cardinality(InFlight') => Counts(n)'
  PROVE  WatcherIInv'
<1>1. PICK n \in Nat : n = Cardinality(InFlight)'
  BY WatcherCount
<1>2. Counts(n)'
  BY <1>1
<1>3. timers' \in 0 .. 1 + MaxManual
  BY <1>1, <1>2, WatcherAssumption DEF Counts
<1>4. \A c \in InFlight' : flight'[c].phase = "answered" => flight'[c].entries \in Storage
  BY DEF InFlight, Polls, None
<1>5. WatcherTypeOK'
  BY <1>3, <1>4 DEF WatcherTypeOK
<1> QED
  BY <1>1, <1>2, <1>5 DEF WatcherIInv, Counts, EventsExplainCache, ChainsApart, PollsCounted


\* A step that leaves the polls in flight and the counters alone.
LEMMA WatcherQuiet ==
  ASSUME WatcherIInv,
         \/ timers' = timers /\ timerId' = timerId /\ isStopped' = isStopped
         \/ timers' = (IF timerId THEN timers - 1 ELSE timers) /\ timerId' = FALSE /\ isStopped' = TRUE,
         InFlight' = InFlight, flight' \in [Chains -> Polls],
         UNCHANGED <<options, pollCount, seen, manual, faults, dones, crashed>>,
         contract' \in Storage, writes' \in 0 .. MaxWrites
  PROVE  WatcherIInv'
<1>1. /\ maxPolls \in Nat /\ pollCount \in Nat /\ dones \in Nat /\ manual \in Nat /\ timers \in Nat
      /\ (timerId => timers > 0) /\ isStopped \in BOOLEAN /\ timerId \in BOOLEAN /\ crashed \in BOOLEAN
  BY WatcherTypes
<1>2. PICK n \in Nat : n = Cardinality(InFlight)
  BY WatcherCount
<1>3. Counts(n)
  BY <1>2, WatcherParts DEF WatcherIInv
<1>4. /\ maxPolls' = maxPolls /\ errorListener' = errorListener /\ pollCount' = pollCount
      /\ isInitialized' = isInitialized /\ stateCache' = stateCache /\ view' = view
      /\ manual' = manual /\ faults' = faults /\ dones' = dones /\ crashed' = crashed
  BY DEF options, seen
<1>5. /\ timers' \in Nat /\ isStopped' \in BOOLEAN /\ timerId' \in BOOLEAN /\ (timerId' => timers' > 0)
      /\ Counts(n)'
  <2>1. CASE timers' = timers /\ timerId' = timerId /\ isStopped' = isStopped
    BY <1>1, <1>3, <1>4, <2>1 DEF Counts
  <2>2. CASE timers' = (IF timerId THEN timers - 1 ELSE timers) /\ timerId' = FALSE /\ isStopped' = TRUE
    <3>1. timers' \in Nat /\ timers' <= timers
      BY <1>1, <2>2
    <3>2. Counts(n)'
      BY <1>1, <1>3, <1>4, <2>2, <3>1 DEF Counts
    <3>3. isStopped' \in BOOLEAN /\ timerId' = FALSE
      BY <2>2
    <3>4. timerId' \in BOOLEAN /\ (timerId' => timers' > 0)
      BY <3>3
    <3> QED
      BY <3>1, <3>2, <3>3, <3>4
  <2> QED
    BY <2>1, <2>2
<1>6. \A m : m = Cardinality(InFlight') => Counts(m)'
  BY <1>2, <1>5
<1> QED
  BY <1>1, <1>4, <1>5, <1>6, WatcherTypes, WatcherMakes

\* A poll ends with the cache and the view written alike.
LEMMA WatcherEnded ==
  ASSUME WatcherIInv, ~crashed, NEW c \in Chains, flight[c] # None, NEW failed, Ends(c, failed),
         UNCHANGED <<world, pollCount, manual>>, stateCache' \in Storage, view' = stateCache',
         isInitialized' \in BOOLEAN, faults' \in 0 .. MaxFaults
  PROVE  WatcherIInv'
<1>1. /\ maxPolls' = maxPolls /\ errorListener' = errorListener /\ pollCount' = pollCount
      /\ contract' = contract /\ writes' = writes /\ manual' = manual
  BY DEF world, options
<1>2. /\ flight' \in [Chains -> Polls] /\ \A n : n = Cardinality(InFlight') => Counts(n)'
      /\ timers' \in Nat /\ dones' \in Nat /\ (timerId' => timers' > 0)
      /\ isStopped' \in BOOLEAN /\ timerId' \in BOOLEAN /\ crashed' \in BOOLEAN
  BY <1>1, WatcherEnds
<1> QED
  BY <1>1, <1>2, WatcherTypes, WatcherMakes

\* Answers hold a storage, and only polls in flight have a phase other than none.
LEMMA WatcherPhases ==
  ASSUME WatcherIInv, NEW c \in Chains
  PROVE  /\ flight[c].phase = "asked" => flight[c] # None
         /\ flight[c].phase = "answered" => flight[c] # None /\ flight[c].entries \in Storage
<1>1. flight[c] \in Polls
  BY WatcherTypes
<1> QED
  BY <1>1 DEF Polls, None

\* What an answer writes, the events tell: whatever keys are done.
LEMMA WatcherApply ==
  ASSUME WatcherIInv, NEW c \in Chains, flight[c].phase = "answered", NEW done, NEW last, Apply(c, done, last)
  PROVE  /\ UNCHANGED <<world, pollCount, manual>> /\ stateCache' \in Storage /\ view' = stateCache'
         /\ isInitialized' \in BOOLEAN
<1>1. flight[c].entries \in Storage /\ stateCache \in Storage /\ view = stateCache
  BY WatcherPhases, WatcherTypes
<1>2. Overwritten(stateCache, done, flight[c].entries) \in Storage
  BY <1>1 DEF Overwritten, Storage
<1> QED
  BY <1>1, <1>2 DEF Apply, Cached

\* An answer is applied and its poll ends.
LEMMA WatcherAnswer ==
  ASSUME WatcherIInv, ~crashed, NEW c \in Chains, Answer(c)
  PROVE  WatcherIInv'
<1>1. flight[c].phase = "answered" /\ flight[c] # None
  BY WatcherPhases DEF Answer
<1>2. /\ UNCHANGED <<world, pollCount, manual>> /\ stateCache' \in Storage /\ view' = stateCache'
      /\ isInitialized' \in BOOLEAN
  BY <1>1, WatcherApply DEF Answer
<1>3. faults' \in 0 .. MaxFaults
  BY WatcherTypes DEF Answer
<1> QED
  BY <1>1, <1>2, <1>3, WatcherEnded DEF Answer

\* A listener throws in the middle of an answer, and the poll ends as a failed one.
LEMMA WatcherListenerThrows ==
  ASSUME WatcherIInv, ~crashed, NEW c \in Chains, ListenerThrows(c)
  PROVE  WatcherIInv'
<1>1. flight[c].phase = "answered" /\ flight[c] # None
  BY WatcherPhases DEF ListenerThrows
<1>2. \E done, last : Apply(c, done, last)
  BY DEF ListenerThrows
<1>3. /\ UNCHANGED <<world, pollCount, manual>> /\ stateCache' \in Storage /\ view' = stateCache'
      /\ isInitialized' \in BOOLEAN
  BY <1>1, <1>2, WatcherApply
<1>4. faults' \in 0 .. MaxFaults
  BY WatcherTypes, WatcherAssumption DEF ListenerThrows
<1> QED
  BY <1>1, <1>3, <1>4, WatcherEnded DEF ListenerThrows

\* A poll without an answer leaves the cache alone.
LEMMA WatcherRpcFails ==
  ASSUME WatcherIInv, ~crashed, NEW c \in Chains, RpcFails(c)
  PROVE  WatcherIInv'
<1>1. flight[c] # None
  BY WatcherPhases DEF RpcFails
<1>2. UNCHANGED <<world, pollCount, manual>> /\ faults' \in 0 .. MaxFaults
  BY WatcherTypes, WatcherAssumption DEF RpcFails
<1>3. stateCache' \in Storage /\ view' = stateCache' /\ isInitialized' \in BOOLEAN
  BY WatcherTypes DEF RpcFails, seen
<1> QED
  BY <1>1, <1>2, <1>3, WatcherEnded DEF RpcFails

\* The server reads the contract for a poll.
LEMMA WatcherRpcReads ==
  ASSUME WatcherIInv, NEW c \in Chains, RpcReads(c)
  PROVE  WatcherIInv'
<1> DEFINE answer == [phase |-> "answered", entries |-> contract]
<1>1. answer \in Polls /\ answer # None /\ answer.phase = "answered"
  BY WatcherTypes DEF Polls, None
<1>2. flight \in [Chains -> Polls] /\ flight[c] # None
  BY WatcherTypes, WatcherPhases DEF RpcReads
<1>3. flight' = [flight EXCEPT ![c] = answer]
  BY DEF RpcReads
<1> HIDE DEF answer
<1>4. flight' \in [Chains -> Polls] /\ InFlight' = InFlight
  BY <1>1, <1>2, <1>3 DEF InFlight
<1>5. contract' \in Storage /\ writes' \in 0 .. MaxWrites
  BY WatcherTypes DEF RpcReads, world
<1>6. /\ timers' = timers /\ timerId' = timerId /\ isStopped' = isStopped
      /\ UNCHANGED <<options, pollCount, seen, manual, faults, dones, crashed>>
  BY DEF RpcReads, world
<1> QED
  BY <1>4, <1>5, <1>6, WatcherQuiet

\* The contract changes.
LEMMA WatcherWrite ==
  ASSUME WatcherIInv, NEW k \in Watched, NEW v \in Values \cup {Absent}, Write(k, v)
  PROVE  WatcherIInv'
<1>1. contract' \in Storage /\ writes' \in 0 .. MaxWrites
  BY WatcherTypes, WatcherAssumption DEF Write, Storage
<1>2. flight' \in [Chains -> Polls] /\ InFlight' = InFlight
  BY WatcherTypes DEF Write, InFlight
<1> QED
  BY <1>1, <1>2, WatcherQuiet DEF Write

\* stop() ends the timer that timerId names.
LEMMA WatcherStop ==
  ASSUME WatcherIInv, stop
  PROVE  WatcherIInv'
<1>1. contract' \in Storage /\ writes' \in 0 .. MaxWrites
  BY WatcherTypes DEF stop, world
<1>2. flight' \in [Chains -> Polls] /\ InFlight' = InFlight
  BY WatcherTypes DEF stop, InFlight
<1>3. UNCHANGED options
  BY DEF stop, world
<1> QED
  BY <1>1, <1>2, <1>3, WatcherQuiet DEF stop, ClearTimer

\* A timer fires, or poll() is called from outside.
LEMMA WatcherStarted ==
  ASSUME WatcherIInv, ~crashed, Starts, UNCHANGED <<world, seen, isStopped, faults, dones, crashed>>,
         \/ timers' = timers - 1 /\ timers > 0 /\ manual' = manual
         \/ timers' = timers /\ manual' = manual + 1,
         manual' \in 0 .. MaxManual, timerId' \in BOOLEAN, timerId' => timers' > 0
  PROVE  WatcherIInv'
<1>1. /\ maxPolls' = maxPolls /\ errorListener' = errorListener /\ contract' = contract
      /\ writes' = writes /\ isInitialized' = isInitialized /\ stateCache' = stateCache /\ view' = view
      /\ isStopped' = isStopped /\ faults' = faults /\ dones' = dones /\ crashed' = crashed
  BY DEF world, options, seen
<1>2. /\ flight' \in [Chains -> Polls] /\ \A n : n = Cardinality(InFlight') => Counts(n)'
      /\ pollCount' \in Nat /\ timers' \in Nat
  BY <1>1, WatcherStarts
<1> QED
  BY <1>1, <1>2, WatcherTypes, WatcherMakes

\* A timer fires, the one of timerId or another.
LEMMA WatcherTimerFires ==
  ASSUME WatcherIInv, ~crashed, TimerFires
  PROVE  WatcherIInv'
<1>1. /\ timers \in Nat /\ (timerId => timers > 0) /\ timerId \in BOOLEAN /\ manual \in 0 .. MaxManual
  BY WatcherTypes
<1>2. timerId' \in BOOLEAN /\ (timerId' => timers' > 0)
  <2>1. CASE timerId' = FALSE
    BY <2>1
  <2>2. CASE timerId' = timerId /\ (timerId => timers > 1)
    BY <1>1, <2>2 DEF TimerFires
  <2> QED
    BY <2>1, <2>2 DEF TimerFires
<1> QED
  BY <1>1, <1>2, WatcherStarted DEF TimerFires

\* poll() is called beside the chain of the timer.
LEMMA WatcherPoll ==
  ASSUME WatcherIInv, ~crashed, poll
  PROVE  WatcherIInv'
<1>1. /\ timers \in Nat /\ (timerId => timers > 0) /\ timerId \in BOOLEAN /\ manual \in 0 .. MaxManual
  BY WatcherTypes
<1>2. manual' \in 0 .. MaxManual
  BY <1>1, WatcherAssumption DEF poll
<1> QED
  BY <1>1, <1>2, WatcherStarted DEF poll

\* The initial states.
LEMMA WatcherInitIInv == WatcherInit => WatcherIInv
<1> SUFFICES ASSUME WatcherInit PROVE WatcherIInv
  OBVIOUS
<1>1. None \in Polls /\ flight \in [Chains -> Polls]
  BY DEF WatcherInit, Polls
<1>2. InFlight = {} /\ Cardinality(InFlight) = 0
  BY FS_EmptySet DEF WatcherInit, InFlight
<1>3. Nothing \in Storage
  BY DEF Nothing, Storage
<1>4. stateCache \in Storage /\ isInitialized \in BOOLEAN /\ view = stateCache /\ contract \in Storage
  BY <1>3 DEF WatcherInit
<1>5. WatcherTypeOK
  <2>1. /\ isStopped \in BOOLEAN /\ timerId \in BOOLEAN /\ errorListener \in BOOLEAN
        /\ crashed \in BOOLEAN /\ timers = 1
    BY DEF WatcherInit
  <2>2. /\ writes \in 0 .. MaxWrites /\ maxPolls \in {0, MaxPollsLimit} /\ pollCount \in Nat
        /\ dones \in Nat /\ manual \in 0 .. MaxManual /\ faults \in 0 .. MaxFaults
        /\ 1 \in 0 .. 1 + MaxManual
    BY WatcherAssumption DEF WatcherInit
  <2> QED
    BY <1>2, <1>4, <2>1, <2>2 DEF WatcherTypeOK
<1>6. ChainsApart /\ PollsCounted
  BY <1>2, WatcherAssumption DEF WatcherInit, ChainsApart, PollsCounted
<1> QED
  BY <1>1, <1>4, <1>5, <1>6 DEF WatcherIInv, EventsExplainCache

\* Every step.
LEMMA WatcherNextIInv == WatcherIInv /\ [WatcherNext]_watcherVars => WatcherIInv'
<1> SUFFICES ASSUME WatcherIInv, [WatcherNext]_watcherVars PROVE WatcherIInv'
  OBVIOUS
<1>1. CASE WatcherNext
  BY <1>1, WatcherWrite, WatcherStop, WatcherTimerFires, WatcherPoll, WatcherRpcReads, WatcherAnswer,
     WatcherListenerThrows, WatcherRpcFails DEF WatcherNext, Poll
<1>2. CASE UNCHANGED watcherVars
  <2>1. /\ UNCHANGED <<options, pollCount, seen, manual, faults, dones, crashed>>
        /\ timers' = timers /\ timerId' = timerId /\ isStopped' = isStopped /\ flight' = flight
        /\ contract' = contract /\ writes' = writes
    BY <1>2 DEF watcherVars, world
  <2>2. InFlight' = InFlight
    BY <2>1 DEF InFlight
  <2> QED
    BY <2>1, <2>2, WatcherTypes, WatcherQuiet
<1> QED
  BY <1>1, <1>2

\* The inductive invariant of the watcher (ContractStorageWatcherTool): pending timers,
\* polls in flight and done events belong each to a chain of its own.
THEOREM WatcherInvariant == WatcherSpec => []WatcherIInv
  BY WatcherInitIInv, WatcherNextIInv, PTL DEF WatcherSpec

\* A listener that applies the change events to the baseline has exactly the
\* stateCache of the watcher, also when a listener throws in the middle of an
\* answer, and whatever calls of poll() run beside the timer.
THEOREM WatcherEventsExplainCache == WatcherSpec => []EventsExplainCache
<1>1. WatcherIInv => EventsExplainCache
  BY DEF WatcherIInv
<1> QED
  BY <1>1, WatcherInvariant, PTL

\* While the watcher watches, a timer or an answer is on its way, whatever failed;
\* each call of poll() adds one chain at most, one request beyond maxPolls at
\* most, and one done event at most.
THEOREM WatcherChainsAlive == WatcherSpec => []ChainsAlive
<1>1. WatcherIInv => ChainsAlive
  <2> SUFFICES ASSUME WatcherIInv PROVE ChainsAlive
    OBVIOUS
  <2>1. PICK n \in Nat : n = Cardinality(InFlight)
    BY WatcherCount
  <2>2. timers \in Nat /\ dones \in Nat /\ manual \in Nat
    BY WatcherTypes
  <2> QED
    BY <2>1, <2>2 DEF WatcherIInv, ChainsApart, PollsCounted, ChainsAlive
<1> QED
  BY <1>1, WatcherInvariant, PTL

\* How the states that are read and not yet reported change with a poll.
LEMMA WatcherSnapshots ==
  ASSUME WatcherIInv, NEW c \in Chains
  PROVE  /\ flight[c].phase = "answered" => flight[c].entries \in Snapshots
         /\ flight' = flight => Snapshots' = Snapshots
         /\ flight' = [flight EXCEPT ![c] = None] /\ flight[c].phase # "answered" => Snapshots' = Snapshots
         /\ flight' = [flight EXCEPT ![c] = [phase |-> "asked"]] /\ flight[c].phase # "answered"
              => Snapshots' = Snapshots
         /\ flight' = [flight EXCEPT ![c] = None]
              => Snapshots' \in {Snapshots, Snapshots \ {flight[c].entries}}
         /\ flight' = [flight EXCEPT ![c] = [phase |-> "answered", entries |-> contract]]
              /\ flight[c].phase = "asked" => Snapshots' = Snapshots \cup {contract}
<1>1. flight \in [Chains -> Polls]
  BY WatcherTypes
<1>2. Snapshots = {flight[d].entries : d \in {e \in Chains : flight[e].phase = "answered"}}
  BY DEF Snapshots
<1>3. Snapshots' = {flight'[d].entries : d \in {e \in Chains : flight'[e].phase = "answered"}}
  BY DEF Snapshots
<1>4. ASSUME NEW p, p.phase # "answered", flight' = [flight EXCEPT ![c] = p], flight[c].phase # "answered"
      PROVE  Snapshots' = Snapshots
  <2>1. \A d \in Chains : d # c => flight'[d] = flight[d]
    BY <1>1, <1>4
  <2>2. flight'[c].phase # "answered"
    BY <1>1, <1>4
  <2> QED
    BY <1>2, <1>3, <1>4, <2>1, <2>2
<1>5. ASSUME flight' = [flight EXCEPT ![c] = None]
      PROVE  Snapshots' \in {Snapshots, Snapshots \ {flight[c].entries}}
  <2>1. \A d \in Chains : d # c => flight'[d] = flight[d]
    BY <1>1, <1>5
  <2>2. flight'[c].phase # "answered"
    BY <1>1, <1>5 DEF None
  <2>3. CASE flight[c].phase # "answered"
    BY <1>2, <1>3, <2>1, <2>2, <2>3
  <2>4. CASE \E d \in Chains : d # c /\ flight[d].phase = "answered" /\ flight[d].entries = flight[c].entries
    <3>1. PICK d \in Chains : d # c /\ flight[d].phase = "answered" /\ flight[d].entries = flight[c].entries
      BY <2>4
    <3>2. Snapshots' \subseteq Snapshots
      BY <1>2, <1>3, <2>1, <2>2
    <3>3. ASSUME NEW s \in Snapshots PROVE s \in Snapshots'
      <4>1. PICK e \in Chains : flight[e].phase = "answered" /\ s = flight[e].entries
        BY <1>2, <3>3
      <4>2. CASE e = c
        BY <1>3, <2>1, <3>1, <4>1, <4>2
      <4>3. CASE e # c
        BY <1>3, <2>1, <4>1, <4>3
      <4> QED
        BY <4>2, <4>3
    <3> QED
      BY <3>2, <3>3
  <2>5. CASE ~ \E d \in Chains : d # c /\ flight[d].phase = "answered" /\ flight[d].entries = flight[c].entries
    <3>1. Snapshots' \subseteq Snapshots \ {flight[c].entries}
      BY <1>2, <1>3, <2>1, <2>2, <2>5
    <3>2. Snapshots \ {flight[c].entries} \subseteq Snapshots'
      BY <1>2, <1>3, <2>1
    <3> QED
      BY <3>1, <3>2
  <2> QED
    BY <2>3, <2>4, <2>5
<1>6. ASSUME flight' = [flight EXCEPT ![c] = [phase |-> "answered", entries |-> contract]],
             flight[c].phase = "asked"
      PROVE  Snapshots' = Snapshots \cup {contract}
  <2>1. \A d \in Chains : d # c => flight'[d] = flight[d]
    BY <1>1, <1>6
  <2>2. flight'[c].phase = "answered" /\ flight'[c].entries = contract
    BY <1>1, <1>6
  <2>3. Snapshots \subseteq Snapshots' /\ contract \in Snapshots'
    BY <1>2, <1>3, <1>6, <2>1, <2>2
  <2>4. Snapshots' \subseteq Snapshots \cup {contract}
    BY <1>2, <1>3, <2>1, <2>2
  <2> QED
    BY <2>3, <2>4
<1>7. flight[c].phase = "answered" => flight[c].entries \in Snapshots
  BY <1>2
<1>8. None.phase # "answered" /\ [phase |-> "asked"].phase # "answered"
  BY DEF None
<1>9. flight' = flight => Snapshots' = Snapshots
  BY <1>2, <1>3
<1> QED
  BY <1>4, <1>5, <1>6, <1>7, <1>8, <1>9

\* What a poll that starts or ends does is nothing to the listeners.
LEMMA WatcherStartsUnseen ==
  ASSUME WatcherIInv, Starts
  PROVE  Snapshots' = Snapshots
<1>1. CASE isStopped
  BY <1>1 DEF Starts, Snapshots
<1>2. CASE ~isStopped
  <2> DEFINE d == CHOOSE b \in Chains : flight[b] = None
  <2>1. d \in Chains /\ flight[d] = None /\ flight' = [flight EXCEPT ![d] = [phase |-> "asked"]]
    BY <1>2 DEF Starts
  <2> HIDE DEF d
  <2>2. flight[d].phase # "answered"
    BY <2>1 DEF None
  <2> QED
    BY <2>1, <2>2, WatcherSnapshots
<1> QED
  BY <1>1, <1>2

\* An answer that no listener throws in is told in full.
LEMMA WatcherReports ==
  ASSUME WatcherIInv, NEW c \in Chains, Answer(c)
  PROVE  \E s \in Snapshots : Watch!Report(s)
<1> DEFINE s == flight[c].entries
<1>1. s \in Storage /\ stateCache \in Storage /\ view = stateCache /\ isInitialized \in BOOLEAN
  BY WatcherPhases, WatcherTypes DEF Answer
<1>2. s \in Snapshots /\ Snapshots' \in {Snapshots, Snapshots \ {s}}
  BY WatcherSnapshots DEF Answer, Ends
<1>3. Overwritten(stateCache, Changed(s), s) = s
  BY <1>1 DEF Overwritten, Changed, Differing, Storage
<1>4. stateCache' = s /\ view' = s
  BY <1>1, <1>3 DEF Answer, Apply, Cached
<1>5. contract' = contract /\ faults' = faults
  BY DEF Answer, Apply, world
<1> HIDE DEF s
<1> QED
  BY <1>2, <1>4, <1>5 DEF Watch!Report, Watch!Used

\* A listener that throws cuts the report short, and the deleted keys come last.
LEMMA WatcherCutsShort ==
  ASSUME WatcherIInv, NEW c \in Chains, ListenerThrows(c)
  PROVE  \E s \in Snapshots : Watch!CutShort(s)
<1> DEFINE s == flight[c].entries
           deleted == {k \in Changed(s) : s[k] = Absent}
<1>1. s \in Storage /\ stateCache \in Storage /\ view = stateCache
  BY WatcherPhases, WatcherTypes DEF ListenerThrows
<1>2. s \in Snapshots /\ Snapshots' \in {Snapshots, Snapshots \ {s}}
  BY WatcherSnapshots DEF ListenerThrows, Ends
<1>3. PICK done \in SUBSET Changed(s) :
        /\ \E last : Apply(c, done, last)
        /\ done \cap deleted # {} => Changed(s) \ deleted \subseteq done
  <2>1. CASE Apply(c, Changed(s), {})
    BY <2>1
  <2>2. CASE /\ isInitialized
             /\ \E k \in Changed(s), done \in SUBSET Changed(s) :
                  /\ k \in done
                  /\ IF k \in deleted THEN Changed(s) \ deleted \subseteq done
                     ELSE done \cap deleted = {}
                  /\ Apply(c, done, {k})
    BY <2>2
  <2> QED
    BY <2>1, <2>2 DEF ListenerThrows
<1>4. view' = [k \in Keys |-> IF k \in done THEN s[k] ELSE view[k]] /\ stateCache' = view'
  BY <1>1, <1>3 DEF Apply, Cached, Overwritten
<1>5. Changed(s) \subseteq Keys /\ \A k \in Keys : k \notin Changed(s) => s[k] = view[k]
  BY <1>1 DEF Changed, Differing
<1>6. ASSUME NEW k \in Keys, view'[k] = Absent, view[k] # Absent, NEW j \in Keys, s[j] # Absent
      PROVE  view'[j] = s[j]
  <2>1. k \in done /\ s[k] = Absent
    BY <1>4, <1>6
  <2>2. Changed(s) \ deleted \subseteq done
    BY <1>3, <2>1
  <2> QED
    BY <1>4, <1>5, <1>6, <2>2
<1>7. contract' = contract /\ faults' = faults + 1
  BY <1>3 DEF ListenerThrows, Apply, world
<1>8. done \in SUBSET Keys
  BY <1>3, <1>5
<1> HIDE DEF s, deleted
<1> QED
  BY <1>2, <1>4, <1>6, <1>7, <1>8 DEF Watch!CutShort, Watch!Used

\* The detailed watcher keeps its promise: every step is one of WatcherPromise,
\* or one that the listeners do not see.  ContractStorageWatcherTool may have any
\* number of polls in flight, and their answers may come in any order.
THEOREM WatcherKeepsPromise == WatcherSpec => KeepsWatcherPromise
<1>1. WatcherInit => Watch!Init
  <2> SUFFICES ASSUME WatcherInit PROVE Watch!Init
    OBVIOUS
  <2>1. Snapshots = {}
    BY DEF WatcherInit, Snapshots, None
  <2> QED
    BY <2>1 DEF WatcherInit, Watch!Init
<1>2. ASSUME WatcherIInv, [WatcherNext]_watcherVars PROVE [Watch!Next]_(Watch!vars)
  <2> DEFINE Unseen == /\ contract' = contract /\ Snapshots' = Snapshots /\ view' = view
                       /\ stateCache' = stateCache /\ faults' = faults
  <2>1. Unseen => [Watch!Next]_(Watch!vars)
    BY DEF Watch!vars
  <2>2. ASSUME NEW k \in Watched, NEW v \in Values \cup {Absent}, Write(k, v) PROVE Watch!Change
    <3>1. k \in Keys /\ Snapshots' = Snapshots /\ UNCHANGED <<view, stateCache, faults>>
      BY <2>2, WatcherAssumption DEF Write, Snapshots, seen
    <3> QED
      BY <2>2, <3>1 DEF Write, Watch!Change
  <2>3. ASSUME stop PROVE Unseen
    BY <2>3 DEF stop, Snapshots, world, seen
  <2>4. ASSUME TimerFires \/ poll PROVE Unseen
    <3>1. Snapshots' = Snapshots
      BY <1>2, <2>4, WatcherStartsUnseen DEF TimerFires, poll
    <3> QED
      BY <2>4, <3>1 DEF TimerFires, poll, world, seen
  <2>5. ASSUME NEW c \in Chains, RpcReads(c) PROVE Watch!Read
    <3>1. Snapshots' = Snapshots \cup {contract}
      BY <1>2, <2>5, WatcherSnapshots DEF RpcReads
    <3> QED
      BY <2>5, <3>1 DEF RpcReads, world, seen, Watch!Read
  <2>6. ASSUME NEW c \in Chains, RpcFails(c) PROVE Watch!Fail
    <3>1. Snapshots' = Snapshots
      BY <1>2, <2>6, WatcherSnapshots DEF RpcFails, Ends
    <3> QED
      BY <2>6, <3>1 DEF RpcFails, world, seen, Watch!Fail
  <2>7. ASSUME UNCHANGED watcherVars PROVE Unseen
    BY <2>7 DEF watcherVars, Snapshots, world, seen
  <2> HIDE DEF Unseen
  <2> QED
    BY <1>2, <2>1, <2>2, <2>3, <2>4, <2>5, <2>6, <2>7, WatcherReports, WatcherCutsShort
       DEF WatcherNext, Poll, Watch!Next
<1>3. WatcherIInv /\ [WatcherNext]_watcherVars => [Watch!Next]_(Watch!vars)
  BY <1>2
<1> QED
  BY <1>1, <1>3, WatcherInvariant, PTL DEF WatcherSpec, KeepsWatcherPromise, Watch!Spec
=============================================================================
