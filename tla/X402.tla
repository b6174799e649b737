-------------------------------- MODULE X402 --------------------------------
(***************************************************************************)
(* X402PaymentTool.respond and verify (backend/tools/X402PaymentTool.ts)   *)
(* over the nonce store of backend/nonce_store.ts.                         *)
(*                                                                         *)
(* A challenge is known by its nonce.  An action is what respond() does    *)
(* between two awaits: a look at the clock and the pruning that follows it *)
(* in the same callback see the same time.  The payment itself is          *)
(* StellarPaymentTool.execute, the subject of PaymentSubmit: it resolves,  *)
(* or rejects, and in the second case its transaction may have landed.     *)
(*                                                                         *)
(* Faults names what may go wrong:                                         *)
(*   "lost"   execute() rejects although its transaction landed            *)
(*   "store"  a statement of the nonce store throws                        *)
(*   "crash"  the process ends and starts again; SQLite keeps the nonces   *)
(***************************************************************************)
EXTENDS Integers, FiniteSets

CONSTANTS Calls,                        \* the calls of respond()
          Nonces,
          IssuedAt, ExpiresAt,          \* the life of each challenge
          Decimals,                     \* digits after the point in its amount
          MAX_CONCURRENT_TASKS,         \* of the agent that makes the calls
          MAX_X402_PAYMENTS_PER_MINUTE,
          RATE_LIMIT_WINDOW_MS,
          X402_NONCE_TTL_MS,            \* configured
          MAX_NONCE_TTL_MS,             \* 24 hours
          MaxTime,                      \* bound on the clock
          Faults

ASSUME X402Assumption ==
  /\ IsFiniteSet(Calls)
  /\ IssuedAt \in [Nonces -> Nat] /\ ExpiresAt \in [Nonces -> Nat]
  /\ Decimals \in [Nonces -> 0 .. 7]
  /\ MAX_CONCURRENT_TASKS \in Nat \ {0}
  /\ MAX_X402_PAYMENTS_PER_MINUTE \in Nat \ {0}
  /\ RATE_LIMIT_WINDOW_MS \in Nat \ {0}
  /\ X402_NONCE_TTL_MS \in Nat \ {0} /\ MAX_NONCE_TTL_MS \in Nat \ {0}
  /\ MaxTime \in Nat
  /\ Faults \subseteq {"lost", "store", "crash"}

VARIABLES
  now,                        \* Date.now()
  paymentCount, windowStart,  \* fields of X402PaymentTool
  store,                      \* x402_used_nonces: used_at_ms of each nonce
  pc, nonce,                  \* where each call stands, and its challenge
  landed,                     \* the calls whose transaction is on the ledger
  recorded,                   \* history: the nonces add() has inserted
  admittedAt,                 \* history: when the limiter let the call through
  raced,                      \* history: the calls that were in flight with another
  restarts                    \* history: how often the process started again

limiter == <<paymentCount, windowStart>>
ledger  == <<landed, recorded>>
past    == <<raced, restarts>>
vars == <<now, limiter, store, pc, nonce, ledger, admittedAt, past>>

Absent == -1     \* no row, no challenge, not admitted
NoNonce == "none"

InFlight == {c \in Calls : pc[c] \in {"checking", "paying", "adding", "signing"}}

Init ==
  /\ now = 0
  /\ paymentCount = 0 /\ windowStart = 0
  /\ store = [n \in Nonces |-> Absent]
  /\ pc = [c \in Calls |-> "new"] /\ nonce = [c \in Calls |-> NoNonce]
  /\ landed = {} /\ recorded = {}
  /\ admittedAt = [c \in Calls |-> Absent]
  /\ raced = {} /\ restarts = 0

Tick == now < MaxTime /\ now' = now + 1
        /\ UNCHANGED <<limiter, store, pc, nonce, ledger, admittedAt, past>>

-----------------------------------------------------------------------------
(* The nonce store.                                                        *)

\* Mutant of Pruned: also drops the rows that are exactly ttl old.
MutPruned(ttl) ==
  [n \in Nonces |-> IF store[n] <= now - ttl THEN Absent ELSE store[n]]

\* prune(ttl): DELETE ... WHERE used_at_ms < now - ttl.
Pruned(ttl) ==
  [n \in Nonces |-> IF store[n] < now - ttl THEN Absent ELSE store[n]]

\* INSERT OR IGNORE, and the pruning that respond() adds with the fixed TTL.
Inserted(n) == [store EXCEPT ![n] = IF @ = Absent THEN now ELSE @]

AddAndPrune(n) ==
  [m \in Nonces |-> IF Inserted(n)[m] < now - MAX_NONCE_TTL_MS
                    THEN Absent ELSE Inserted(n)[m]]

-----------------------------------------------------------------------------
(* respond(): the rate limit.                                              *)

WindowOver == now - windowStart >= RATE_LIMIT_WINDOW_MS
Start == IF WindowOver THEN now ELSE windowStart
Count == IF WindowOver THEN 0 ELSE paymentCount

Limited(c, n) ==
  /\ Count >= MAX_X402_PAYMENTS_PER_MINUTE
  /\ windowStart' = Start /\ paymentCount' = Count
  /\ pc' = [pc EXCEPT ![c] = "limited"]
  /\ nonce' = [nonce EXCEPT ![c] = n]
  /\ UNCHANGED <<now, store, ledger, admittedAt, past>>

\* Mutant of Admit: the counter is reset and the window is not.
MutAdmitKeepsWindow(c, n) ==
  /\ Count < MAX_X402_PAYMENTS_PER_MINUTE
  /\ paymentCount' = Count + 1
  /\ admittedAt' = [admittedAt EXCEPT ![c] = now]
  /\ nonce' = [nonce EXCEPT ![c] = n]
  /\ UNCHANGED windowStart

\* The call counts from here on, whatever becomes of it.
Admit(c, n) ==
  /\ Count < MAX_X402_PAYMENTS_PER_MINUTE
  /\ windowStart' = Start /\ paymentCount' = Count + 1
  /\ admittedAt' = [admittedAt EXCEPT ![c] = now]
  /\ nonce' = [nonce EXCEPT ![c] = n]

\* The schema, the agent's own address, an origin that is not allowed.
Invalid(c, n) ==
  /\ Admit(c, n)
  /\ pc' = [pc EXCEPT ![c] = "refused"]
  /\ UNCHANGED <<now, store, ledger, past>>

Expired(c, n) ==
  /\ ExpiresAt[n] < now
  /\ Admit(c, n)
  /\ pc' = [pc EXCEPT ![c] = "refused"]
  /\ UNCHANGED <<now, store, ledger, past>>

\* The calls that have met another one, once c is under way.
Overlapping(c) == IF InFlight = {} THEN raced ELSE raced \cup InFlight \cup {c}

\* Mutant of Check: the deadline is not looked at.
MutCheck(c, n) ==
  /\ Admit(c, n)
  /\ store' = Pruned(X402_NONCE_TTL_MS)
  /\ pc' = [pc EXCEPT ![c] = "checking"]
  /\ raced' = Overlapping(c)
  /\ UNCHANGED <<now, ledger, restarts>>

\* Calls nonceStore.has(), which prunes at once and reads after an await.
Check(c, n) ==
  /\ ExpiresAt[n] >= now
  /\ Admit(c, n)
  /\ store' = Pruned(X402_NONCE_TTL_MS)
  /\ pc' = [pc EXCEPT ![c] = "checking"]
  /\ raced' = Overlapping(c)
  /\ UNCHANGED <<now, ledger, restarts>>

respond(c, n) ==
  /\ pc[c] = "new"
  /\ IssuedAt[n] <= now
  /\ Cardinality(InFlight) < MAX_CONCURRENT_TASKS
  /\ Limited(c, n) \/ Invalid(c, n) \/ Expired(c, n) \/ Check(c, n)

-----------------------------------------------------------------------------
(* respond(): after its awaits.                                            *)

Goto(c, next) ==
  /\ pc' = [pc EXCEPT ![c] = next]
  /\ UNCHANGED <<now, limiter, nonce, admittedAt, past>>

\* Mutant of Lookup: a nonce that has been used is paid all the same.
MutLookup(c) ==
  /\ pc[c] = "checking"
  /\ Goto(c, "paying")
  /\ UNCHANGED <<store, ledger>>

Lookup(c) ==
  /\ pc[c] = "checking"
  /\ Goto(c, IF store[nonce[c]] # Absent THEN "refused" ELSE "paying")
  /\ UNCHANGED <<store, ledger>>

LookupFails(c) ==
  /\ "store" \in Faults
  /\ pc[c] = "checking"
  /\ Goto(c, "failed")
  /\ UNCHANGED <<store, ledger>>

\* execute() resolves; add() prunes at once and inserts after an await.
Pay(c) ==
  /\ pc[c] = "paying"
  /\ landed' = landed \cup {c}
  /\ store' = Pruned(X402_NONCE_TTL_MS)
  /\ Goto(c, "adding")
  /\ UNCHANGED recorded

\* Wrapped in a TransactionFailureError; the nonce is not marked.
PayFails(c) ==
  /\ pc[c] = "paying"
  /\ landed' \in {landed} \cup (IF "lost" \in Faults THEN {landed \cup {c}} ELSE {})
  /\ Goto(c, "failed")
  /\ UNCHANGED <<store, recorded>>

Record(c) ==
  /\ pc[c] = "adding"
  /\ store' = AddAndPrune(nonce[c])
  /\ recorded' = recorded \cup {nonce[c]}
  /\ Goto(c, "signing")
  /\ UNCHANGED landed

RecordFails(c) ==
  /\ "store" \in Faults
  /\ pc[c] = "adding"
  /\ Goto(c, "failed")
  /\ UNCHANGED <<store, ledger>>

\* The closing time of the ledger, or the clock when Horizon does not answer.
Sign(c) ==
  /\ pc[c] = "signing"
  /\ Goto(c, "proof")
  /\ UNCHANGED <<store, ledger>>

\* A payment that is under way may land or not.  The rate limit starts afresh.
Crash ==
  /\ "crash" \in Faults
  /\ InFlight # {}
  /\ \E S \in SUBSET {c \in Calls : pc[c] = "paying"} : landed' = landed \cup S
  /\ pc' = [c \in Calls |-> IF c \in InFlight THEN "failed" ELSE pc[c]]
  /\ paymentCount' = 0 /\ windowStart' = now
  /\ restarts' = restarts + 1
  /\ UNCHANGED <<now, store, nonce, recorded, admittedAt, raced>>

Next ==
  \/ Tick \/ Crash
  \/ \E c \in Calls : \/ \E n \in Nonces : respond(c, n)
                      \/ Lookup(c) \/ LookupFails(c) \/ Pay(c) \/ PayFails(c)
                      \/ Record(c) \/ RecordFails(c) \/ Sign(c)

Spec == Init /\ [][Next]_vars

-----------------------------------------------------------------------------
(* verify().                                                               *)

\* Horizon writes every amount with seven digits after the point.
HorizonDecimals == 7

\* verify(proof, challenge) of the proof of call c, which is for the right
\* destination, asset and payer: the amounts are compared as strings.
verify(c, n) ==
  /\ c \in landed
  /\ HorizonDecimals = Decimals[n]
  /\ nonce[c] = n

-----------------------------------------------------------------------------
(* Properties.                                                             *)

TypeOK ==
  /\ now \in Nat
  /\ paymentCount \in 0 .. MAX_X402_PAYMENTS_PER_MINUTE
  /\ windowStart \in Nat /\ windowStart <= now
  /\ store \in [Nonces -> Nat \cup {Absent}]
  /\ pc \in [Calls -> {"new", "checking", "paying", "adding", "signing",
                       "proof", "limited", "refused", "failed"}]
  /\ nonce \in [Calls -> Nonces \cup {NoNonce}]
  /\ landed \subseteq Calls /\ recorded \subseteq Nonces
  /\ admittedAt \in [Calls -> Nat \cup {Absent}]
  /\ raced \subseteq Calls /\ restarts \in Nat

\* The TTLs in force cover the life of every challenge, as nonce_store.ts:22
\* expects of its 24 hours; nothing in the code enforces it.
TtlCoversLife ==
  \A n \in Nonces : /\ ExpiresAt[n] - IssuedAt[n] <= X402_NONCE_TTL_MS
                    /\ ExpiresAt[n] - IssuedAt[n] <= MAX_NONCE_TTL_MS

\* Once add() has recorded a nonce, its row stays for as long as respond()
\* accepts the challenge, whichever calls prune in between and however often
\* the process restarts.
RecordedBlocks ==
  TtlCoversLife =>
    \A n \in recorded : ExpiresAt[n] >= now => store[n] # Absent

\* No challenge is paid for by two calls, if neither of them was in flight with
\* another one and neither failed after its payment: not at the millisecond in
\* which challenge and TTL end, and not across restarts.  See ReplayRefused for
\* calls that overlap; a call that fails half-way leaves its nonce unmarked.
PaidOnce ==
  TtlCoversLife =>
    \A c, d \in landed :
      nonce[c] = nonce[d] /\ c # d =>
        {c, d} \cap raced # {} \/ pc[c] = "failed" \/ pc[d] = "failed"

\* A proof is given only for a payment that landed, whose nonce was recorded
\* before the answer, and whose call came in while the challenge was valid; and
\* verify() then accepts it, if the challenge writes its amount as Horizon does.
ProofRecorded ==
  \A c \in Calls : pc[c] = "proof" =>
    /\ c \in landed /\ nonce[c] \in recorded
    /\ Decimals[nonce[c]] = HorizonDecimals => verify(c, nonce[c])
    /\ IssuedAt[nonce[c]] <= admittedAt[c] /\ admittedAt[c] <= ExpiresAt[nonce[c]]

\* What RecordedBlocks rests on: a call carries an issued challenge, and a row
\* is dated between the issue of its challenge and now.
Dated ==
  /\ \A c \in Calls : pc[c] # "new" => nonce[c] \in Nonces /\ IssuedAt[nonce[c]] <= now
  /\ \A n \in Nonces : store[n] # Absent => IssuedAt[n] <= store[n]

\* What PaidOnce rests on: a landed payment is on its way to the store, recorded
\* or failed, and a call that has met no other one cannot miss a recorded nonce.
SoloCalls ==
  /\ \A c, d \in InFlight : c # d => c \in raced
  /\ \A c \in landed : pc[c] \in {"adding", "signing", "proof", "failed"}
  /\ \A c \in Calls : pc[c] \in {"signing", "proof"} => nonce[c] \in recorded
  /\ \A c \in Calls \ raced :
       pc[c] = "checking" /\ nonce[c] \in recorded => store[nonce[c]] # Absent
  /\ \A c \in Calls \ raced : pc[c] = "paying" => nonce[c] \notin recorded

\* What ProofRecorded rests on: what a call on its way to a proof has behind it.
OnTheWay ==
  \A c \in Calls :
    /\ pc[c] \in {"checking", "paying", "adding", "signing", "proof"} =>
         IssuedAt[nonce[c]] <= admittedAt[c] /\ admittedAt[c] <= ExpiresAt[nonce[c]]
    /\ pc[c] \in {"adding", "signing", "proof"} => c \in landed
    /\ pc[c] \in {"signing", "proof"} => nonce[c] \in recorded

\* The calls let through in the RATE_LIMIT_WINDOW_MS that begin at t.
AdmittedFrom(t) ==
  {c \in Calls : admittedAt[c] \in t .. t + RATE_LIMIT_WINDOW_MS - 1}

\* The counter is reset when a call finds its window over, so any 60 seconds
\* meet at most two windows and admit at most twice the limit; each restart
\* opens one window more.
AtMostTwiceTheLimit ==
  \A t \in 0 .. now :
    Cardinality(AdmittedFrom(t)) <= (2 + restarts) * MAX_X402_PAYMENTS_PER_MINUTE

\* What AtMostTwiceTheLimit rests on: a stretch of time that begins after the
\* window in force has admitted no more than the counter says, one in which that
\* window begins has seen one window more and one for each restart.
WindowCounts ==
  /\ \A c \in Calls : admittedAt[c] <= now
  /\ \A t \in 0 .. now :
       LET admitted == Cardinality(AdmittedFrom(t))
       IN  /\ windowStart < t => admitted <= paymentCount
           /\ windowStart < t + RATE_LIMIT_WINDOW_MS =>
                admitted <= paymentCount + (1 + restarts) * MAX_X402_PAYMENTS_PER_MINUTE

\* "Replaying the same nonce throws" (ARCHITECTURE.md:374): of two calls with
\* the same nonce at most one gets past the lookup.
ReplayRefused ==
  \A c, d \in Calls :
    /\ pc[c] \in {"paying", "adding", "signing", "proof"}
    /\ pc[d] \in {"paying", "adding", "signing", "proof"}
    /\ nonce[c] = nonce[d]
    => c = d
=============================================================================
