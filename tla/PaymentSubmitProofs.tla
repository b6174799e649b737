------------------------- MODULE PaymentSubmitProofs -------------------------
(***************************************************************************)
(* Proofs about PaymentSubmit, for any sets of payments and readers, any   *)
(* number of retries, with or without the cache and network errors.        *)
(***************************************************************************)
EXTENDS PaymentSubmit, TLAPS, SequenceTheorems

PCs == {"new", "loading", "loaded", "submitting", "done", "failed"}
Requests == {"none", "sent", "ok", "bad_seq"}

\* Nothing has been loaded, built or landed.
LEMMA InitIInv == Init => IInv
<1> SUFFICES ASSUME Init PROVE IInv
  OBVIOUS
<1>1. landed \in Seq(Payments) /\ records \in Seq(Nat) /\ Len(landed) = 0 /\ Len(records) = 0
  BY DEF Init
<1>2. TypeOK
  BY <1>1, SubmitAssumption DEF Init, TypeOK
<1> QED
  BY <1>1, <1>2 DEF IInv, AtMostOnce, SuccessLanded, LandedIsCurrent, AnswersTrue, Init, Callers

\* What the types give about a payment and about the sequences.
LEMMA TypeFacts ==
  ASSUME IInv
  PROVE  /\ landed \in Seq(Payments) /\ Len(landed) \in Nat
         /\ \A i \in 1 .. Len(landed) : landed[i] \in Payments
         /\ records \in Seq(Nat) /\ Len(records) \in Nat
         /\ pc \in [Callers -> PCs] /\ request \in [Payments -> Requests]
         /\ tx \in [Payments -> Nat] /\ attempt \in [Payments -> 0 .. MAX_RETRIES]
         /\ Payments \subseteq Callers /\ MAX_RETRIES \in Nat \ {0}
<1>1. landed \in Seq(Payments) /\ records \in Seq(Nat)
  BY DEF IInv, TypeOK
<1>2. \A i \in 1 .. Len(landed) : landed[i] \in Payments
  BY <1>1, ElementOfSeq
<1>3. Len(landed) \in Nat /\ Len(records) \in Nat
  BY <1>1, LenProperties
<1> QED
  BY <1>1, <1>2, <1>3, SubmitAssumption DEF IInv, TypeOK, Callers, PCs, Requests

\* The records after a lookup: all the old ones and the new one.
LEMMA NewRecord ==
  ASSUME NEW rs \in Seq(Nat), NEW n \in Nat
  PROVE  /\ Append(rs, n) \in Seq(Nat) /\ Len(Append(rs, n)) = Len(rs) + 1
         /\ Len(Append(rs, n)) \in 1 .. Len(Append(rs, n))
<1>1. Append(rs, n) \in Seq(Nat) /\ Len(Append(rs, n)) = Len(rs) + 1 /\ Len(rs) \in Nat
  BY AppendProperties, LenProperties
<1> QED
  BY <1>1

\* Building keeps the types and touches only the payment that builds.
LEMMA BuildTypes ==
  ASSUME IInv, NEW p \in Payments, NEW rs \in Seq(Nat), Len(rs) >= Len(records),
         NEW r \in 1 .. Len(rs), BuildAndSubmit(p, rs, r)
  PROVE  /\ records' \in Seq(Nat) /\ Len(records') = Len(rs)
         /\ account' \in [Payments -> 0 .. Len(records')]
         /\ tx' \in [Payments -> Nat]
         /\ request' \in [Payments -> Requests] /\ request'[p] = "sent"
         /\ attempt' \in [Payments -> 0 .. MAX_RETRIES]
         /\ pc' \in [Callers -> PCs] /\ pc'[p] = "submitting"
         /\ \A q \in Payments \ {p} : request'[q] = request[q] /\ pc'[q] = pc[q] /\ tx'[q] = tx[q]
<1>1. rs[r] \in Nat /\ Len(rs) \in Nat
  BY ElementOfSeq, LenProperties
<1>2. records' \in Seq(Nat) /\ Len(records') = Len(rs)
  BY <1>1, ExceptSeq DEF BuildAndSubmit
<1>3. account' \in [Payments -> 0 .. Len(records')]
  <2>1. account \in [Payments -> 0 .. Len(rs)]
    BY TypeFacts, <1>1 DEF IInv, TypeOK
  <2> QED
    BY <1>1, <1>2, <2>1 DEF BuildAndSubmit
<1>4. tx' \in [Payments -> Nat]
  BY <1>1, TypeFacts DEF BuildAndSubmit
<1>5. request' \in [Payments -> Requests] /\ request'[p] = "sent"
  BY TypeFacts DEF BuildAndSubmit, Requests
<1>6. attempt' \in [Payments -> 0 .. MAX_RETRIES]
  BY TypeFacts DEF BuildAndSubmit
<1>7. pc' \in [Callers -> PCs] /\ pc'[p] = "submitting"
  BY TypeFacts DEF BuildAndSubmit, PCs
<1>8. \A q \in Payments \ {p} : request'[q] = request[q] /\ pc'[q] = pc[q] /\ tx'[q] = tx[q]
  BY TypeFacts DEF BuildAndSubmit
<1> QED
  BY <1>2, <1>3, <1>4, <1>5, <1>6, <1>7, <1>8

\* Steps in which nothing lands.  A payment may change its transaction only
\* while it has not landed, and may be answered or finish only truthfully.
LEMMA NothingLands ==
  ASSUME IInv, TypeOK', landed' = landed,
         \A i \in 1 .. Len(landed) :
           /\ tx'[landed[i]] = tx[landed[i]]
           /\ pc'[landed[i]] \in {"submitting", "done", "failed"}
           /\ pc'[landed[i]] = "submitting" => request'[landed[i]] # "bad_seq",
         \A p \in Payments :
           /\ pc'[p] = "done" =>
                pc[p] = "done" \/ \E i \in 1 .. Len(landed) : landed[i] = p
           /\ pc'[p] = "submitting" /\ request'[p] = "ok" =>
                \/ pc[p] = "submitting" /\ request[p] = "ok"
                \/ \E i \in 1 .. Len(landed) : landed[i] = p
  PROVE  IInv'
<1>1. AtMostOnce'
  BY DEF IInv, AtMostOnce
<1>2. SuccessLanded'
  BY DEF IInv, SuccessLanded
<1>3. LandedIsCurrent'
  BY DEF IInv, LandedIsCurrent
<1>4. AnswersTrue'
  BY DEF IInv, AnswersTrue
<1> QED
  BY <1>1, <1>2, <1>3, <1>4 DEF IInv

\* A caller that is about to load or to build has not landed.
LEMMA NotYetLanded ==
  ASSUME IInv, NEW c \in Callers, pc[c] \in {"new", "loading", "loaded"}
  PROVE  \A i \in 1 .. Len(landed) : landed[i] # c
  BY DEF IInv, LandedIsCurrent

-----------------------------------------------------------------------------
(* One lemma per operation.                                                *)

\* A payment builds from a record and submits.
LEMMA BuildIInv ==
  ASSUME IInv, NEW p \in Payments, pc[p] \in {"new", "loaded"},
         NEW rs \in Seq(Nat), Len(rs) >= Len(records),
         NEW r \in 1 .. Len(rs), BuildAndSubmit(p, rs, r),
         cache' \in 0 .. Len(rs), UNCHANGED <<landed, reading, recovered>>
  PROVE  IInv'
<1>1. TypeOK'
  <2>1. cache' \in 0 .. Len(records')
    BY BuildTypes
  <2> QED
    BY <2>1, BuildTypes DEF IInv, TypeOK, PCs, Requests
<1>2. \A i \in 1 .. Len(landed) : landed[i] \in Payments \ {p}
  BY NotYetLanded, TypeFacts
<1>3. \A i \in 1 .. Len(landed) :
        /\ tx'[landed[i]] = tx[landed[i]]
        /\ pc'[landed[i]] \in {"submitting", "done", "failed"}
        /\ pc'[landed[i]] = "submitting" => request'[landed[i]] # "bad_seq"
  <2>1. \A q \in Payments \ {p} : request'[q] = request[q] /\ pc'[q] = pc[q] /\ tx'[q] = tx[q]
    BY BuildTypes
  <2> QED
    BY <1>2, <2>1 DEF IInv, LandedIsCurrent
<1>4. \A q \in Payments :
        /\ pc'[q] = "done" => pc[q] = "done"
        /\ pc'[q] = "submitting" /\ request'[q] = "ok" => pc[q] = "submitting" /\ request[q] = "ok"
  BY BuildTypes
<1> QED
  BY <1>1, <1>3, <1>4, NothingLands

\* A step of a lookup that does not build: only the caller's pc changes, and
\* it is a reader or has not landed.
LEMMA LookupIInv ==
  ASSUME IInv, NEW c \in Callers, pc[c] \in {"new", "loading", "loaded"},
         NEW to \in {"loading", "loaded", "done", "failed"}, c \in Payments => to # "done",
         pc' = [pc EXCEPT ![c] = to],
         UNCHANGED <<landed, tool>>,
         records' \in Seq(Nat), Len(records') >= Len(records), cache' \in 0 .. Len(records'),
         reading' \in [Callers -> Nat]
  PROVE  IInv'
<1>1. TypeOK'
  <2>1. account' \in [Payments -> 0 .. Len(records')]
    <3>1. account \in [Payments -> 0 .. Len(records)] /\ account' = account
      BY DEF IInv, TypeOK, tool
    <3>2. Len(records') \in Nat /\ Len(records) \in Nat
      BY LenProperties, TypeFacts
    <3>3. 0 .. Len(records) \subseteq 0 .. Len(records')
      BY <3>2
    <3> QED
      BY <3>1, <3>3
  <2>2. pc' \in [Callers -> PCs]
    BY TypeFacts DEF PCs
  <2> QED
    BY <2>1, <2>2 DEF IInv, TypeOK, tool, PCs
<1>2. \A d \in Callers : d # c => pc'[d] = pc[d]
  BY TypeFacts
<1>3. pc'[c] = to
  BY TypeFacts
<1>4. \A i \in 1 .. Len(landed) : landed[i] # c /\ landed[i] \in Callers
  BY NotYetLanded, TypeFacts
<1>5. \A i \in 1 .. Len(landed) :
        /\ tx'[landed[i]] = tx[landed[i]]
        /\ pc'[landed[i]] \in {"submitting", "done", "failed"}
        /\ pc'[landed[i]] = "submitting" => request'[landed[i]] # "bad_seq"
  BY <1>2, <1>4 DEF IInv, LandedIsCurrent, tool
<1>6. \A q \in Payments :
        /\ pc'[q] = "done" => pc[q] = "done"
        /\ pc'[q] = "submitting" /\ request'[q] = "ok" => pc[q] = "submitting" /\ request[q] = "ok"
  BY <1>2, <1>3, TypeFacts DEF tool
<1> QED
  BY <1>1, <1>5, <1>6, NothingLands

\* The same, for a step that leaves the records alone.
LEMMA PlainLookupIInv ==
  ASSUME IInv, NEW c \in Callers, pc[c] \in {"new", "loading", "loaded"},
         NEW to \in {"loading", "loaded", "done", "failed"}, c \in Payments => to # "done",
         pc' = [pc EXCEPT ![c] = to],
         UNCHANGED <<landed, tool, records>>, cache' \in {0, cache},
         reading' \in [Callers -> Nat]
  PROVE  IInv'
<1>1. records' \in Seq(Nat) /\ Len(records') \in Nat /\ records' = records
  BY TypeFacts
<1>2. Len(records') >= Len(records) /\ cache' \in 0 .. Len(records')
  BY <1>1 DEF IInv, TypeOK
<1>3. UNCHANGED <<landed, tool>>
  OBVIOUS
<1> QED
  BY <1>1, <1>2, <1>3, LookupIInv

\* loadAccount hands out a record, cached or new, and touches no payment.
LEMMA LoadIInv ==
  ASSUME IInv, NEW c \in Callers, Load(c)
  PROVE  IInv'
<1>0. /\ cache \in 0 .. Len(records) /\ reading \in [Callers -> Nat]
      /\ records \in Seq(Nat) /\ Len(records) \in Nat
  BY TypeFacts DEF IInv, TypeOK
<1>1. CASE LoadCached(c)
  <2>1. CASE c \in Payments
    <3>1. cache \in 1 .. Len(records) /\ Len(records) >= Len(records)
      BY <1>0, <1>1 DEF LoadCached
    <3> QED
      BY <1>0, <1>1, <2>1, <3>1, BuildIInv DEF LoadCached
  <2>2. CASE c \notin Payments
    <3>1. pc' = [pc EXCEPT ![c] = "done"] /\ UNCHANGED <<landed, tool, records, cache, reading>>
      BY <1>1, <2>2 DEF LoadCached, tool
    <3>2. pc[c] = "new"
      BY <1>1 DEF LoadCached
    <3> QED
      BY <1>0, <2>2, <3>1, <3>2, PlainLookupIInv
  <2> QED
    BY <2>1, <2>2
<1>2. CASE LoadMiss(c)
  <2>1. pc[c] = "new" /\ pc' = [pc EXCEPT ![c] = "loading"] /\ cache' = 0
        /\ UNCHANGED <<landed, tool, records, reading>>
    BY <1>2 DEF LoadMiss
  <2> QED
    BY <1>0, <2>1, PlainLookupIInv
<1>3. CASE LoadRead(c)
  <2>1. pc[c] = "loading" /\ pc' = [pc EXCEPT ![c] = "loaded"]
        /\ reading' = [reading EXCEPT ![c] = Len(landed)]
        /\ UNCHANGED <<landed, tool, records, cache>>
    BY <1>3 DEF LoadRead
  <2>2. reading' \in [Callers -> Nat]
    BY <1>0, <2>1, TypeFacts
  <2> QED
    BY <1>0, <2>1, <2>2, PlainLookupIInv
<1>4. CASE LoadReturn(c)
  <2> DEFINE rs == Append(records, reading[c])
  <2>1. rs \in Seq(Nat) /\ Len(rs) = Len(records) + 1 /\ Len(rs) \in 1 .. Len(rs)
    BY <1>0, NewRecord
  <2>2. Len(rs) \in Nat /\ Len(rs) >= Len(records)
    BY <1>0, <2>1
  <2>3. pc[c] = "loaded" /\ cache' \in {0, Len(rs)} /\ UNCHANGED <<landed, reading, recovered>>
    BY <1>4 DEF LoadReturn
  <2>5. CASE c \in Payments
    <3>1. BuildAndSubmit(c, rs, Len(rs))
      BY <1>4, <2>5 DEF LoadReturn
    <3>2. cache' \in 0 .. Len(rs)
      BY <2>2, <2>3
    <3> HIDE DEF rs
    <3> QED
      BY <2>1, <2>2, <2>3, <2>5, <3>1, <3>2, BuildIInv
  <2>6. CASE c \notin Payments
    <3>1. records' = rs /\ pc' = [pc EXCEPT ![c] = "done"] /\ UNCHANGED <<account, tx, request, attempt>>
      BY <1>4, <2>6 DEF LoadReturn
    <3>2. cache' \in 0 .. Len(rs)
      BY <2>2, <2>3
    <3>3. UNCHANGED <<landed, tool>>
      BY <2>3, <3>1 DEF tool
    <3> HIDE DEF rs
    <3> QED
      BY <1>0, <2>1, <2>2, <2>3, <2>6, <3>1, <3>2, <3>3, LookupIInv
  <2> QED
    BY <2>5, <2>6
<1>5. CASE LoadFails(c)
  <2>1. pc[c] \in {"loading", "loaded"} /\ pc' = [pc EXCEPT ![c] = "failed"]
        /\ UNCHANGED <<landed, tool, records, cache, reading>>
    BY <1>5 DEF LoadFails
  <2> QED
    BY <1>0, <2>1, PlainLookupIInv
<1> QED
  BY <1>1, <1>2, <1>3, <1>4, <1>5 DEF Load

\* Horizon handles a submitted transaction.
LEMMA HandleIInv ==
  ASSUME IInv, NEW p \in Payments, HorizonHandles(p)
  PROVE  IInv'
<1>0. /\ pc[p] = "submitting" /\ request[p] = "sent"
      /\ UNCHANGED <<records, cache, pc, reading, account, tx, attempt, recovered>>
  BY DEF HorizonHandles
<1>1. CASE landed' = landed
  <2>1. PICK a \in {"ok", "bad_seq"} :
           /\ request' = [request EXCEPT ![p] = a]
           /\ a = "ok" => HasLanded(p)
           /\ a = "bad_seq" => ~HasLanded(p)
    <3>1. ~(landed' = Append(landed, p))
      BY <1>1, TypeFacts, AppendProperties
    <3> QED
      BY <3>1 DEF HorizonHandles
  <2>2. request' \in [Payments -> Requests] /\ request'[p] = a /\ \A q \in Payments \ {p} : request'[q] = request[q]
    BY <2>1, TypeFacts DEF Requests
  <2>3. TypeOK'
    BY <1>0, <1>1, <2>2 DEF IInv, TypeOK, Requests
  <2>4. \A i \in 1 .. Len(landed) : landed[i] = p => HasLanded(p)
    BY DEF IInv, LandedIsCurrent, HasLanded
  <2>5. \A i \in 1 .. Len(landed) :
          /\ tx'[landed[i]] = tx[landed[i]]
          /\ pc'[landed[i]] \in {"submitting", "done", "failed"}
          /\ pc'[landed[i]] = "submitting" => request'[landed[i]] # "bad_seq"
    BY <1>0, <2>1, <2>2, <2>4, TypeFacts DEF IInv, LandedIsCurrent
  <2>6. a = "ok" => \E i \in 1 .. Len(landed) : landed[i] = p
    BY <2>1 DEF HasLanded
  <2>7. \A q \in Payments :
          /\ pc'[q] = "done" => pc[q] = "done"
          /\ pc'[q] = "submitting" /\ request'[q] = "ok" =>
               \/ pc[q] = "submitting" /\ request[q] = "ok"
               \/ \E i \in 1 .. Len(landed) : landed[i] = q
    BY <1>0, <2>2, <2>6
  <2> QED
    BY <1>1, <2>3, <2>5, <2>7, NothingLands
<1>2. CASE landed' # landed
  <2>1. tx[p] = Len(landed) + 1 /\ landed' = Append(landed, p) /\ request' = [request EXCEPT ![p] = "ok"]
    BY <1>2 DEF HorizonHandles
  <2>2. /\ landed' \in Seq(Payments) /\ Len(landed') = Len(landed) + 1 /\ landed'[Len(landed) + 1] = p
        /\ \A i \in 1 .. Len(landed) : landed'[i] = landed[i]
    BY <2>1, TypeFacts, AppendProperties
  <2>3. /\ Len(landed) \in Nat
        /\ \A i \in 1 .. Len(landed') : i \in 1 .. Len(landed) \/ i = Len(landed) + 1
        /\ \A i \in 1 .. Len(landed) : i \in 1 .. Len(landed') /\ i # Len(landed) + 1
        /\ Len(landed) + 1 \in 1 .. Len(landed')
    BY <2>2, TypeFacts
  <2>4. request' \in [Payments -> Requests] /\ request'[p] = "ok" /\ \A q \in Payments \ {p} : request'[q] = request[q]
    BY <2>1, TypeFacts DEF Requests
  <2>5. \A i \in 1 .. Len(landed) : landed[i] # p /\ landed[i] \in Payments
    BY <2>1, <2>3, TypeFacts DEF IInv, LandedIsCurrent
  <2>6. TypeOK'
    BY <1>0, <2>2, <2>4 DEF IInv, TypeOK, Requests
  <2>7. AtMostOnce'
    BY <2>2, <2>3, <2>5 DEF IInv, AtMostOnce
  <2>8. SuccessLanded'
    BY <1>0, <2>2, <2>3 DEF IInv, SuccessLanded
  <2>9. LandedIsCurrent'
    BY <1>0, <2>1, <2>2, <2>3, <2>4, <2>5 DEF IInv, LandedIsCurrent
  <2>10. AnswersTrue'
    BY <1>0, <2>2, <2>3, <2>4 DEF IInv, AnswersTrue
  <2> QED
    BY <2>6, <2>7, <2>8, <2>9, <2>10 DEF IInv
<1> QED
  BY <1>1, <1>2

\* The other steps of submitTransaction and execute.
LEMMA SubmitIInv ==
  ASSUME IInv, NEW p \in Payments, Submit(p)
  PROVE  IInv'
<1>1. CASE HorizonHandles(p)
  BY <1>1, HandleIInv
<1>2. CASE Retry(p)
  <2>1. /\ pc[p] = "submitting" /\ attempt[p] < MAX_RETRIES
        /\ attempt' = [attempt EXCEPT ![p] = @ + 1] /\ request' = [request EXCEPT ![p] = "sent"]
        /\ UNCHANGED <<landed, records, cache, pc, reading, account, tx, recovered>>
    BY <1>2 DEF Retry, Resubmit
  <2>2. attempt' \in [Payments -> 0 .. MAX_RETRIES]
    BY <2>1, TypeFacts
  <2>3. request' \in [Payments -> Requests] /\ request'[p] = "sent" /\ \A q \in Payments \ {p} : request'[q] = request[q]
    BY <2>1, TypeFacts DEF Requests
  <2>4. TypeOK'
    BY <2>1, <2>2, <2>3 DEF IInv, TypeOK, Requests
  <2>5. \A i \in 1 .. Len(landed) :
          /\ tx'[landed[i]] = tx[landed[i]]
          /\ pc'[landed[i]] \in {"submitting", "done", "failed"}
          /\ pc'[landed[i]] = "submitting" => request'[landed[i]] # "bad_seq"
    BY <2>1, <2>3, TypeFacts DEF IInv, LandedIsCurrent
  <2>6. \A q \in Payments :
          /\ pc'[q] = "done" => pc[q] = "done"
          /\ pc'[q] = "submitting" /\ request'[q] = "ok" => pc[q] = "submitting" /\ request[q] = "ok"
    BY <2>1, <2>3
  <2> QED
    BY <2>1, <2>4, <2>5, <2>6, NothingLands
<1>3. ASSUME NEW to \in {"done", "failed", "loading"},
             pc[p] = "submitting", pc' = [pc EXCEPT ![p] = to], SubmitEnds,
             UNCHANGED <<landed, records, reading, account, tx, request, attempt>>,
             recovered' \subseteq Payments,
             to = "done" => request[p] = "ok", to = "loading" => request[p] = "bad_seq"
      PROVE  IInv'
  <2>1. pc' \in [Callers -> PCs] /\ pc'[p] = to /\ \A q \in Payments \ {p} : pc'[q] = pc[q]
    BY <1>3, TypeFacts DEF PCs
  <2>2. TypeOK'
    BY <1>3, <2>1, TypeFacts DEF IInv, TypeOK, SubmitEnds, PCs
  <2>3. \A i \in 1 .. Len(landed) : landed[i] = p => to # "loading"
    BY <1>3 DEF IInv, LandedIsCurrent
  <2>4. \A i \in 1 .. Len(landed) :
          /\ tx'[landed[i]] = tx[landed[i]]
          /\ pc'[landed[i]] \in {"submitting", "done", "failed"}
          /\ pc'[landed[i]] = "submitting" => request'[landed[i]] # "bad_seq"
    BY <1>3, <2>1, <2>3, TypeFacts DEF IInv, LandedIsCurrent
  <2>5. to = "done" => \E i \in 1 .. Len(landed) : landed[i] = p
    BY <1>3 DEF IInv, AnswersTrue
  <2>6. \A q \in Payments :
          /\ pc'[q] = "done" => pc[q] = "done" \/ \E i \in 1 .. Len(landed) : landed[i] = q
          /\ pc'[q] = "submitting" /\ request'[q] = "ok" => pc[q] = "submitting" /\ request[q] = "ok"
    BY <1>3, <2>1, <2>5
  <2> QED
    BY <1>3, <2>2, <2>4, <2>6, NothingLands
<1>4. CASE Succeed(p)
  <2>1. recovered' \subseteq Payments
    BY <1>4 DEF Succeed, tool, IInv, TypeOK
  <2> QED
    BY <1>3, <1>4, <2>1 DEF Succeed, tool
<1>5. CASE Recover(p)
  <2>1. recovered' \subseteq Payments
    BY <1>5 DEF Recover, IInv, TypeOK
  <2> QED
    BY <1>3, <1>5, <2>1 DEF Recover
<1>6. CASE Fail(p)
  <2>1. recovered' \subseteq Payments
    BY <1>6 DEF Fail, tool, IInv, TypeOK
  <2> QED
    BY <1>3, <1>6, <2>1 DEF Fail, tool
<1> QED
  BY <1>1, <1>2, <1>4, <1>5, <1>6 DEF Submit

\* The step lemma.
LEMMA NextIInv == IInv /\ [Next]_vars => IInv'
<1> SUFFICES ASSUME IInv, [Next]_vars PROVE IInv'
  OBVIOUS
<1>1. CASE UNCHANGED vars
  BY <1>1 DEF vars, tool, IInv, TypeOK, AtMostOnce, SuccessLanded, LandedIsCurrent, AnswersTrue
<1> QED
  BY <1>1, LoadIInv, SubmitIInv DEF Next

-----------------------------------------------------------------------------
(* The theorems.                                                           *)

\* The inductive invariant holds in every reachable state.
THEOREM SubmitInvariant == Spec => []IInv
  BY InitIInv, NextIInv, PTL DEF Spec

\* Type correctness; in particular a submit makes at most MAX_RETRIES attempts.
THEOREM SubmitTypeCorrect == Spec => []TypeOK
<1>1. IInv => TypeOK
  BY DEF IInv
<1> QED
  BY <1>1, SubmitInvariant, PTL

\* A payment lands at most once although its envelope is resubmitted and once
\* rebuilt.
THEOREM SubmitAtMostOnce == Spec => []AtMostOnce
<1>1. IInv => AtMostOnce
  BY DEF IInv
<1> QED
  BY <1>1, SubmitInvariant, PTL

\* A payment that is reported as settled has landed.
THEOREM SubmitSuccessLanded == Spec => []SuccessLanded
<1>1. IInv => SuccessLanded
  BY DEF IInv
<1> QED
  BY <1>1, SubmitInvariant, PTL
=============================================================================
