--------------------------- MODULE PaymentSubmit ---------------------------
(***************************************************************************)
(* StellarPaymentTool.execute on top of loadAccount, the account cache and *)
(* submitTransaction (backend/rpc_client.ts): concurrent payments from the *)
(* agent's account, and read-only lookups of the same account.             *)
(*                                                                         *)
(* An account record is a JavaScript object: TransactionBuilder.build()    *)
(* increments its sequence number in place, so everybody who holds the     *)
(* object sees it.  Records are numbered in the order of their creation.   *)
(*                                                                         *)
(* Horizon is external.  It lands a transaction whose sequence number is   *)
(* the next one, answers tx_bad_seq to any other, and answers a            *)
(* transaction that has already landed with its result.  A request that    *)
(* failed for the client has either been handled or never will be.         *)
(***************************************************************************)
EXTENDS Integers, Sequences

CONSTANTS Payments,      \* calls of execute()
          Readers,       \* calls of loadAccount() by tools that do not pay
          MAX_RETRIES,
          CacheOn,       \* ACCOUNT_CACHE_TTL_MS > 0
          NetworkErrors  \* may requests fail or time out?

ASSUME SubmitAssumption ==
  /\ Payments \cap Readers = {}
  /\ MAX_RETRIES \in Nat \ {0}
  /\ CacheOn \in BOOLEAN /\ NetworkErrors \in BOOLEAN

Callers == Payments \cup Readers

VARIABLES
  landed,     \* Horizon: the payments whose transactions landed, in order
  records,    \* the sequence number in each account record
  cache,      \* accountCache: the record cached for the agent's account, or 0
  pc,
  reading,    \* the sequence number a lookup in flight has read at Horizon
  account,    \* sourceAccount: the record each payment built from
  tx,         \* the sequence number of each payment's transaction
  request,    \* the current submit attempt: "sent", "ok", "bad_seq"
  attempt,
  recovered   \* the payments that have reloaded their account after tx_bad_seq

tool == <<account, tx, request, attempt, recovered>>
vars == <<landed, records, cache, pc, reading, tool>>

Init ==
  /\ landed = <<>> /\ records = <<>> /\ cache = 0
  /\ pc = [c \in Callers |-> "new"]
  /\ reading = [c \in Callers |-> 0]
  /\ account = [p \in Payments |-> 0] /\ tx = [p \in Payments |-> 0]
  /\ request = [p \in Payments |-> "none"] /\ attempt = [p \in Payments |-> 0]
  /\ recovered = {}

-----------------------------------------------------------------------------
(* execute(): build, sign and submit, in one callback.                     *)

\* rs is records as the caller found or extended it.
BuildAndSubmit(p, rs, r) ==
  /\ records' = [rs EXCEPT ![r] = @ + 1]
  /\ account' = [account EXCEPT ![p] = r]
  /\ tx' = [tx EXCEPT ![p] = rs[r] + 1]
  /\ request' = [request EXCEPT ![p] = "sent"]
  /\ attempt' = [attempt EXCEPT ![p] = 1]
  /\ pc' = [pc EXCEPT ![p] = "submitting"]

-----------------------------------------------------------------------------
(* loadAccount()                                                           *)

\* A fresh entry is served; a reader is then done, a payment goes on.
LoadCached(c) ==
  /\ pc[c] = "new" /\ cache # 0
  /\ IF c \in Payments
     THEN BuildAndSubmit(c, records, cache)
     ELSE pc' = [pc EXCEPT ![c] = "done"] /\ UNCHANGED <<records, account, tx, request, attempt>>
  /\ UNCHANGED <<landed, cache, reading, recovered>>

\* No entry, or one that has expired and is deleted.
LoadMiss(c) ==
  /\ pc[c] = "new"
  /\ pc' = [pc EXCEPT ![c] = "loading"]
  /\ cache' = 0
  /\ UNCHANGED <<landed, records, reading, tool>>

\* Horizon reads the account.
LoadRead(c) ==
  /\ pc[c] = "loading"
  /\ pc' = [pc EXCEPT ![c] = "loaded"]
  /\ reading' = [reading EXCEPT ![c] = Len(landed)]
  /\ UNCHANGED <<landed, records, cache, tool>>

\* The answer arrives: a new record, which is cached when the cache is on.
LoadReturn(c) ==
  /\ pc[c] = "loaded"
  /\ LET rs == Append(records, reading[c])
     IN  /\ cache' = IF CacheOn THEN Len(rs) ELSE 0
         /\ IF c \in Payments
            THEN BuildAndSubmit(c, rs, Len(rs))
            ELSE /\ records' = rs /\ pc' = [pc EXCEPT ![c] = "done"]
                 /\ UNCHANGED <<account, tx, request, attempt>>
  /\ UNCHANGED <<landed, reading, recovered>>

\* All attempts failed or the lookup timed out.
LoadFails(c) ==
  /\ NetworkErrors /\ pc[c] \in {"loading", "loaded"}
  /\ pc' = [pc EXCEPT ![c] = "failed"]
  /\ UNCHANGED <<landed, records, cache, reading, tool>>

-----------------------------------------------------------------------------
(* submitTransaction()                                                     *)

HasLanded(p) == tx[p] \in 1 .. Len(landed) /\ landed[tx[p]] = p

HorizonHandles(p) ==
  /\ pc[p] = "submitting" /\ request[p] = "sent"
  /\ \/ /\ tx[p] = Len(landed) + 1
        /\ landed' = Append(landed, p) /\ request' = [request EXCEPT ![p] = "ok"]
     \/ /\ HasLanded(p)
        /\ request' = [request EXCEPT ![p] = "ok"] /\ UNCHANGED landed
     \/ /\ tx[p] # Len(landed) + 1 /\ ~HasLanded(p)
        /\ request' = [request EXCEPT ![p] = "bad_seq"] /\ UNCHANGED landed
  /\ UNCHANGED <<records, cache, pc, reading, account, tx, attempt, recovered>>

\* The finally block: no entry is left in the cache.
SubmitEnds == cache' = 0

\* withRetry submits the same envelope again.
Resubmit(p) ==
  /\ attempt[p] < MAX_RETRIES
  /\ attempt' = [attempt EXCEPT ![p] = @ + 1]
  /\ request' = [request EXCEPT ![p] = "sent"]
  /\ UNCHANGED <<landed, records, cache, pc, reading, account, tx, recovered>>

Retry(p) ==
  /\ pc[p] = "submitting"
  /\ request[p] = "bad_seq" \/ NetworkErrors
  /\ Resubmit(p)

\* Mutant of Succeed: any answer of Horizon is taken for a result.
MutSucceed(p) ==
  /\ pc[p] = "submitting" /\ request[p] # "sent"
  /\ pc' = [pc EXCEPT ![p] = "done"]
  /\ SubmitEnds
  /\ UNCHANGED <<landed, records, reading, tool>>

Succeed(p) ==
  /\ pc[p] = "submitting" /\ request[p] = "ok"
  /\ pc' = [pc EXCEPT ![p] = "done"]
  /\ SubmitEnds
  /\ UNCHANGED <<landed, records, reading, tool>>

\* Mutant of Recover: any exhausted submit is rebuilt, not only tx_bad_seq.
MutRecover(p) ==
  /\ pc[p] = "submitting" /\ attempt[p] = MAX_RETRIES
  /\ p \notin recovered
  /\ recovered' = recovered \cup {p}
  /\ pc' = [pc EXCEPT ![p] = "loading"]
  /\ SubmitEnds
  /\ UNCHANGED <<landed, records, reading, account, tx, request, attempt>>

\* The last attempt was answered with tx_bad_seq: the account is loaded again,
\* past the cache, and the payment is rebuilt, once.
Recover(p) ==
  /\ pc[p] = "submitting" /\ attempt[p] = MAX_RETRIES /\ request[p] = "bad_seq"
  /\ p \notin recovered
  /\ recovered' = recovered \cup {p}
  /\ pc' = [pc EXCEPT ![p] = "loading"]
  /\ SubmitEnds
  /\ UNCHANGED <<landed, records, reading, account, tx, request, attempt>>

\* The last attempt was answered with tx_bad_seq a second time, or it failed
\* in the network, whatever Horizon made of it.
Fail(p) ==
  /\ pc[p] = "submitting" /\ attempt[p] = MAX_RETRIES
  /\ (request[p] = "bad_seq" /\ p \in recovered) \/ NetworkErrors
  /\ pc' = [pc EXCEPT ![p] = "failed"]
  /\ SubmitEnds
  /\ UNCHANGED <<landed, records, reading, tool>>

Load(c) == LoadCached(c) \/ LoadMiss(c) \/ LoadRead(c) \/ LoadReturn(c) \/ LoadFails(c)
Submit(p) == HorizonHandles(p) \/ Retry(p) \/ Succeed(p) \/ Recover(p) \/ Fail(p)

Next == (\E c \in Callers : Load(c)) \/ (\E p \in Payments : Submit(p))

Spec == Init /\ [][Next]_vars

-----------------------------------------------------------------------------
(* Properties.                                                             *)

TypeOK ==
  /\ landed \in Seq(Payments)
  /\ records \in Seq(Nat) /\ cache \in 0 .. Len(records)
  /\ pc \in [Callers -> {"new", "loading", "loaded", "submitting", "done", "failed"}]
  /\ reading \in [Callers -> Nat]
  /\ account \in [Payments -> 0 .. Len(records)]
  /\ tx \in [Payments -> Nat]
  /\ request \in [Payments -> {"none", "sent", "ok", "bad_seq"}]
  /\ attempt \in [Payments -> 0 .. MAX_RETRIES]
  /\ recovered \subseteq Payments

\* A payment moves money at most once, however often its envelope is sent
\* again and although it is rebuilt with a new sequence number after
\* tx_bad_seq.
AtMostOnce ==
  \A i, j \in 1 .. Len(landed) : landed[i] = landed[j] => i = j

\* A payment that is reported as settled has landed.
SuccessLanded ==
  \A p \in Payments : pc[p] = "done" => \E i \in 1 .. Len(landed) : landed[i] = p

\* What makes AtMostOnce inductive: the transaction that landed for a payment
\* is its current one, and neither a payment that is about to build nor one
\* that was answered with tx_bad_seq has landed.
LandedIsCurrent ==
  \A i \in 1 .. Len(landed) :
    /\ tx[landed[i]] = i
    /\ pc[landed[i]] \in {"submitting", "done", "failed"}
    /\ pc[landed[i]] = "submitting" => request[landed[i]] # "bad_seq"

\* An answer other than tx_bad_seq comes from a transaction that landed.
AnswersTrue ==
  \A p \in Payments :
    pc[p] = "submitting" /\ request[p] = "ok" => \E i \in 1 .. Len(landed) : landed[i] = p

IInv == TypeOK /\ AtMostOnce /\ SuccessLanded /\ LandedIsCurrent /\ AnswersTrue
=============================================================================
