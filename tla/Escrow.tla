------------------------------- MODULE Escrow -------------------------------
(***************************************************************************)
(* The Soroban escrow contract, contracts/escrow/src/lib.rs.               *)
(*                                                                         *)
(* One action per entry point.  A call that panics is rolled back by the   *)
(* ledger, so every panic of the code is the negation of a guard here.     *)
(* `auth` is the set of addresses whose signatures the transaction         *)
(* carries: x.require_auth() succeeds iff x \in auth.  The contract never   *)
(* calls itself, so its own address never signs.                           *)
(*                                                                         *)
(* The token is the asset contract of the escrow; any holder can also send *)
(* it to the contract's address without asking the escrow (Donate).        *)
(* Ledger time is a u64 that never decreases.                              *)
(***************************************************************************)
EXTENDS Integers

CONSTANTS Users,              \* addresses that can sign
          Contract,           \* env.current_contract_address()
          NoAddress,          \* value of a storage key that is not set
          MIN_ROTATION_DELAY, \* seconds between proposal and acceptance
          MAX_U64,            \* u64::MAX, the end of ledger time
          MAX_I128,           \* i128::MAX
          InitialBalance,     \* what each user holds at the start
          MaxHeld             \* bound: outside transfers stop at this balance

Holders == Users \cup {Contract}

ASSUME EscrowAssumption ==
  /\ Contract \notin Users
  /\ NoAddress \notin Holders
  /\ MIN_ROTATION_DELAY \in Nat
  /\ MAX_U64 \in Nat
  /\ MAX_I128 \in Nat
  /\ InitialBalance \in Nat
  /\ MaxHeld \in Nat

VARIABLES
  depositor, recipient, arbiter,       \* DataKey::Depositor, Recipient, Arbiter
  amount, expiry, released,            \* DataKey::Amount, Expiry, Released
  initializedAt,                       \* DataKey::InitializedAt
  pendingArbiter, pendingArbiterTime,  \* DataKey::PendingArbiter(Time)
  balance,                             \* the token's balances
  now,                                 \* env.ledger().timestamp()
  deposit,       \* history: what initialize pulled in
  paid,          \* history: what the contract paid to each holder
  pendingSince   \* history: since when pendingArbiter has its value

terms   == <<depositor, recipient, expiry, initializedAt>>
pending == <<pendingArbiter, pendingArbiterTime>>
vars == <<terms, arbiter, amount, released, pending, balance, now,
          deposit, paid, pendingSince>>

Initialized == depositor # NoAddress
Active      == Initialized /\ ~released

\* What the contract still owes.
Owed == IF Active THEN amount ELSE 0

Init ==
  /\ depositor = NoAddress /\ recipient = NoAddress /\ arbiter = NoAddress
  /\ amount = 0 /\ expiry = 0 /\ released = FALSE /\ initializedAt = 0
  /\ pendingArbiter = NoAddress /\ pendingArbiterTime = 0
  /\ balance = [h \in Holders |-> IF h = Contract THEN 0 ELSE InitialBalance]
  /\ now = 0
  /\ deposit = 0 /\ paid = [h \in Holders |-> 0] /\ pendingSince = 0

-----------------------------------------------------------------------------
(* The token contract: a transfer fails unless the source holds the value. *)

transfer(from, to, value) ==
  /\ balance[from] >= value
  /\ balance' = [h \in Holders |-> (balance[h] - (IF h = from THEN value ELSE 0))
                                               + (IF h = to THEN value ELSE 0)]

\* A transfer out of the escrow, with the history of what left it.
PayOut(to, value) ==
  /\ transfer(Contract, to, value)
  /\ paid' = [paid EXCEPT ![to] = @ + value]

-----------------------------------------------------------------------------
(* Entry points.                                                           *)

DistinctParties(d, r, a) == d # a /\ d # r /\ a # r

ValidAmount(value) == value > 0 /\ value <= MAX_I128 \div 2

\* Mutant of NotYetInitialized: the AlreadyInitialized check is missing.
MutNoInitializedCheck == TRUE

NotYetInitialized == ~Initialized

initialize(auth, d, r, a, value, exp) ==
  /\ NotYetInitialized
  /\ d \in auth
  /\ DistinctParties(d, r, a)
  /\ ValidAmount(value)
  /\ exp > now
  /\ transfer(d, Contract, value)
  /\ depositor' = d /\ recipient' = r /\ arbiter' = a
  /\ amount' = value /\ expiry' = exp /\ released' = FALSE
  /\ initializedAt' = now
  /\ deposit' = value
  /\ UNCHANGED <<pending, now, paid>>

\* Mutant of assert_not_released: the AlreadyReleased check is missing.
MutNoReleasedCheck == TRUE

assert_not_released == ~released

\* release, refund and cancel send everything that is left to one party;
\* the stored amount is not reset.
Settle(to) ==
  /\ Initialized /\ assert_not_released
  /\ released' = TRUE
  /\ PayOut(to, amount)
  /\ UNCHANGED <<terms, arbiter, amount, pending, now, deposit>>

release(auth, a) ==
  /\ arbiter \in auth /\ a = arbiter
  /\ Settle(recipient)

refund(auth, d) ==
  /\ depositor \in auth /\ d = depositor
  /\ now >= expiry
  /\ Settle(depositor)

cancel(auth, d, a) ==
  /\ {depositor, arbiter} \subseteq auth
  /\ d = depositor /\ a = arbiter
  /\ Settle(depositor)

ValidPartial(value) == value > 0 /\ value <= amount

\* Mutant of Remaining: the stored amount is not reduced.
MutAmountKept(value) == amount

Remaining(value) == amount - value

SealedAt(remaining) == remaining = 0

release_partial(auth, a, value) ==
  /\ Initialized /\ arbiter \in auth /\ a = arbiter
  /\ assert_not_released
  /\ ValidPartial(value)
  /\ amount' = Remaining(value)
  /\ PayOut(recipient, value)
  /\ released' = SealedAt(Remaining(value))
  /\ UNCHANGED <<terms, arbiter, pending, now, deposit>>

\* Mutant of propose_new_arbiter: replacing a proposal keeps the old clock.
MutProposeKeepsClock(auth, d, a) ==
  /\ Initialized /\ depositor \in auth /\ d = depositor
  /\ pendingArbiter' = a
  /\ pendingArbiterTime' = IF pendingArbiter = NoAddress THEN now ELSE pendingArbiterTime
  /\ UNCHANGED <<terms, arbiter, amount, released, balance, now, deposit, paid>>

propose_new_arbiter(auth, d, a) ==
  /\ Initialized /\ depositor \in auth /\ d = depositor
  /\ pendingArbiter' = a /\ pendingArbiterTime' = now
  /\ UNCHANGED <<terms, arbiter, amount, released, balance, now, deposit, paid>>

\* checked_add panics when the deadline does not fit in a u64.
RotationUnlocked ==
  LET lock_expires == pendingArbiterTime + MIN_ROTATION_DELAY
  IN  lock_expires <= MAX_U64 /\ now >= lock_expires

accept_arbiter_rotation ==
  /\ pendingArbiter # NoAddress
  /\ RotationUnlocked
  /\ arbiter' = pendingArbiter
  /\ pendingArbiter' = NoAddress /\ pendingArbiterTime' = 0
  /\ UNCHANGED <<terms, amount, released, balance, now, deposit, paid>>

-----------------------------------------------------------------------------
(* The rest of the ledger.                                                 *)

\* A direct token transfer to the contract's address.  Transfers between other
\* holders neither read nor write anything of the escrow.
Donate(from, value) ==
  /\ balance[Contract] + value <= MaxHeld
  /\ transfer(from, Contract, value)
  /\ UNCHANGED <<terms, arbiter, amount, released, pending, now, deposit, paid>>

CloseLedger(t) ==
  /\ now < t
  /\ now' = t
  /\ UNCHANGED <<terms, arbiter, amount, released, pending, balance, deposit, paid>>

\* The history of the pending proposal is observed, not written, by actions.
Observe ==
  pendingSince' = IF pendingArbiter' = NoAddress THEN 0
                  ELSE IF pendingArbiter' # pendingArbiter THEN now
                  ELSE pendingSince

Call(auth) ==
  \/ \E d \in Users, r, a \in Holders, value \in 1 .. MAX_I128, exp \in 1 .. MAX_U64 :
       initialize(auth, d, r, a, value, exp)
  \/ \E a \in Holders : release(auth, a)
  \/ \E d \in Holders : refund(auth, d)
  \/ \E d, a \in Holders : cancel(auth, d, a)
  \/ \E a \in Holders, value \in 1 .. MAX_I128 : release_partial(auth, a, value)
  \/ \E d, a \in Holders : propose_new_arbiter(auth, d, a)

\* Nobody has to sign the acceptance of a rotation.
Environment ==
  \/ accept_arbiter_rotation
  \/ \E from \in Users, value \in 1 .. MAX_I128 : Donate(from, value)
  \/ \E t \in 1 .. MAX_U64 : CloseLedger(t)

Next == ((\E auth \in SUBSET Users : Call(auth)) \/ Environment) /\ Observe

Spec == Init /\ [][Next]_vars

-----------------------------------------------------------------------------
(* Properties.                                                             *)

\* The stored state and the histories have their types.
TypeOK ==
  /\ depositor \in Users \cup {NoAddress}
  /\ recipient \in Holders \cup {NoAddress}
  /\ arbiter \in Holders \cup {NoAddress}
  /\ amount \in Nat /\ deposit \in Nat
  /\ expiry \in 0 .. MAX_U64 /\ initializedAt \in 0 .. MAX_U64
  /\ now \in 0 .. MAX_U64 /\ pendingSince \in 0 .. MAX_U64
  /\ released \in BOOLEAN
  /\ pendingArbiter \in Holders \cup {NoAddress}
  /\ pendingArbiterTime \in 0 .. MAX_U64
  /\ balance \in [Holders -> Nat]
  /\ paid \in [Holders -> Nat]

\* An active escrow can always honour what it owes: whatever partial
\* releases, rotations and outside transfers came before, the token transfer
\* at the end of release, refund and cancel cannot fail for lack of funds.
Solvent == balance[Contract] >= Owed

\* Every unit of the deposit is either still owed or was paid to the
\* recipient or back to the depositor, exactly once, and nobody else was
\* ever paid: no order of partial release, release, refund and cancel pays
\* twice or strands a remainder.
DepositAccounted ==
  Initialized =>
    /\ depositor # recipient
    /\ paid[depositor] + paid[recipient] + Owed = deposit
    /\ \A h \in Holders \ {depositor, recipient} : paid[h] = 0

\* A sealed escrow with nothing stored and an unsealed one with something
\* stored: the annotation "stored_amount == 0 ==> stored_released" (lib.rs:120)
\* together with the fact that an active escrow owes a positive amount.
ActiveOwesSomething == Active => amount > 0

\* "No instant hostile takeover" (lib.rs:591): the arbiter changes only to the
\* pending one, and only after that very proposal stood unchanged for
\* MIN_ROTATION_DELAY; re-proposing somebody else restarts the wait.
RotationAnnounced ==
  [][arbiter # NoAddress /\ arbiter' # arbiter =>
       /\ arbiter' = pendingArbiter
       /\ now >= pendingSince + MIN_ROTATION_DELAY]_vars

\* For the first MIN_ROTATION_DELAY seconds after initialize no rotation can
\* have completed, so the three parties are the distinct ones that initialize
\* checked, and a depositor cannot act as the arbiter in cancel or release.
NoEarlyTakeover ==
  Initialized /\ now < initializedAt + MIN_ROTATION_DELAY =>
    DistinctParties(depositor, recipient, arbiter)

\* The contract implements the three-state lifecycle of its README: a settled
\* escrow never moves again, the deposit leaves only towards the recipient (in
\* parts or at once) or, all that is left of it, back to the depositor.
PaidTo(party) == IF Initialized THEN paid[party] ELSE 0

Phase == IF ~Initialized THEN "uninitialized" ELSE IF released THEN "settled" ELSE "active"

Promise == INSTANCE EscrowPromise WITH
  phase <- Phase,
  locked <- Owed,
  toRecipient <- PaidTo(recipient),
  toDepositor <- PaidTo(depositor)

ImplementsPromise == Promise!Spec

\* What is stored before initialize, and what a pending proposal implies.
StoredTogether ==
  /\ ~Initialized => /\ arbiter = NoAddress /\ recipient = NoAddress
                     /\ pendingArbiter = NoAddress
                     /\ ~released
                     /\ \A h \in Holders : paid[h] = 0
  /\ Initialized => /\ arbiter # NoAddress /\ recipient # NoAddress
                    /\ initializedAt <= now /\ initializedAt < expiry
  /\ pendingArbiter # NoAddress => /\ initializedAt <= pendingArbiterTime
                                   /\ pendingSince <= pendingArbiterTime
                                   /\ pendingArbiterTime <= now

\* The inductive invariant: the properties above plus what relates the
\* storage keys to each other.
IInv ==
  /\ TypeOK
  /\ StoredTogether
  /\ Solvent
  /\ DepositAccounted
  /\ ActiveOwesSomething
  /\ NoEarlyTakeover
=============================================================================
