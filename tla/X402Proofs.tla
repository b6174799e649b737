----------------------------- MODULE X402Proofs -----------------------------
(***************************************************************************)
(* Proofs about X402, for any number of calls, challenges and restarts and *)
(* any clock: type correctness, that a recorded nonce blocks its challenge *)
(* while the challenge is valid, and that a challenge is paid for twice    *)
(* only by calls that overlapped with another or failed after they paid,   *)
(* that a proof is given only for a recorded payment, and what the rate    *)
(* limit admits in any stretch of time as long as its window.              *)
(***************************************************************************)
EXTENDS X402, TLAPS, FiniteSetTheorems

Stages == {"new", "checking", "paying", "adding", "signing",
           "proof", "limited", "refused", "failed"}

\* prune() of the nonce store leaves a store, whatever the TTL.
LEMMA PrunedType ==
  ASSUME NEW ttl \in Nat, now \in Nat, store \in [Nonces -> Nat \cup {Absent}]
  PROVE  Pruned(ttl) \in [Nonces -> Nat \cup {Absent}]
  BY DEF Pruned, Absent

\* add() followed by the pruning of respond() leaves a store.
LEMMA AddAndPruneType ==
  ASSUME NEW n \in Nonces, now \in Nat, store \in [Nonces -> Nat \cup {Absent}]
  PROVE  AddAndPrune(n) \in [Nonces -> Nat \cup {Absent}]
  BY X402Assumption DEF AddAndPrune, Inserted, Absent, X402Assumption

\* The limiter admits a call only below the limit and leaves its fields in range.
LEMMA AdmitType ==
  ASSUME TypeOK, NEW c \in Calls, NEW n \in Nonces, Admit(c, n), now' = now
  PROVE  /\ paymentCount' \in 0 .. MAX_X402_PAYMENTS_PER_MINUTE
         /\ windowStart' \in Nat /\ windowStart' <= now'
         /\ nonce' \in [Calls -> Nonces \cup {NoNonce}]
         /\ nonce' = [nonce EXCEPT ![c] = n]
         /\ admittedAt' \in [Calls -> Nat \cup {Absent}]
  BY X402Assumption
  DEF TypeOK, Admit, Start, Count, WindowOver, X402Assumption, Absent

\* The type invariant holds initially.
LEMMA InitType == Init => TypeOK
  BY X402Assumption DEF Init, TypeOK, X402Assumption, Absent, NoNonce

\* Every call keeps the challenge it was given, and it is an issued one.
LEMMA InFlightTyped ==
  ASSUME TypeOK, Dated, NEW c \in Calls, pc[c] # "new"
  PROVE  nonce[c] \in Nonces
  BY DEF Dated

\* Every step preserves the types.
LEMMA NextType == TypeOK /\ Dated /\ [Next]_vars => TypeOK'
<1> SUFFICES ASSUME TypeOK, Dated, [Next]_vars PROVE TypeOK'
  OBVIOUS
<1> USE DEF ledger, limiter, past
<1>1. CASE UNCHANGED vars
  BY <1>1 DEF TypeOK, vars
<1>2. CASE Tick
  BY <1>2 DEF TypeOK, Tick
<1>3. CASE Crash
  <2>1. landed' \subseteq Calls
    BY <1>3 DEF TypeOK, Crash
  <2>2. pc' \in [Calls -> Stages]
    BY <1>3 DEF TypeOK, Crash, Stages
  <2> QED BY <1>3, <2>1, <2>2, X402Assumption DEF TypeOK, Crash, X402Assumption, Stages
<1>4. ASSUME NEW c \in Calls, NEW n \in Nonces, respond(c, n) PROVE TypeOK'
  <2>1. CASE Limited(c, n)
    BY <2>1, X402Assumption
    DEF TypeOK, Limited, Start, Count, WindowOver, X402Assumption, Absent
  <2>2. CASE Invalid(c, n)
    <3>1. now' = now /\ Admit(c, n) BY <2>2 DEF Invalid
    <3> QED BY <2>2, <3>1, AdmitType DEF TypeOK, Invalid
  <2>3. CASE Expired(c, n)
    <3>1. now' = now /\ Admit(c, n) BY <2>3 DEF Expired
    <3> QED BY <2>3, <3>1, AdmitType DEF TypeOK, Expired
  <2>4. CASE Check(c, n)
    <3>1. now' = now /\ Admit(c, n) BY <2>4 DEF Check
    <3>2. store' \in [Nonces -> Nat \cup {Absent}]
      BY <2>4, PrunedType, X402Assumption DEF TypeOK, Check, X402Assumption
    <3>3. raced' \subseteq Calls
      BY <2>4 DEF Check, Overlapping, InFlight, TypeOK
    <3> QED BY <2>4, <3>1, <3>2, <3>3, AdmitType DEF TypeOK, Check
  <2> QED BY <1>4, <2>1, <2>2, <2>3, <2>4 DEF respond
<1>5. ASSUME NEW c \in Calls, Lookup(c) \/ LookupFails(c) \/ RecordFails(c) \/ Sign(c)
      PROVE  TypeOK'
  <2>1. PICK s \in Stages : Goto(c, s)
    BY <1>5 DEF Lookup, LookupFails, RecordFails, Sign, Stages
  <2>2. UNCHANGED <<store, ledger>>
    BY <1>5 DEF Lookup, LookupFails, RecordFails, Sign
  <2> QED BY <2>1, <2>2 DEF TypeOK, Goto, Stages
<1>6. ASSUME NEW c \in Calls, Pay(c) PROVE TypeOK'
  <2>1. store' \in [Nonces -> Nat \cup {Absent}]
    BY <1>6, PrunedType, X402Assumption DEF TypeOK, Pay, X402Assumption
  <2> QED BY <1>6, <2>1 DEF TypeOK, Pay, Goto
<1>7. ASSUME NEW c \in Calls, PayFails(c) PROVE TypeOK'
  <2>1. landed' \subseteq Calls BY <1>7 DEF TypeOK, PayFails
  <2> QED BY <1>7, <2>1 DEF TypeOK, PayFails, Goto
<1>8. ASSUME NEW c \in Calls, Record(c) PROVE TypeOK'
  <2>1. nonce[c] \in Nonces BY <1>8, InFlightTyped DEF Record
  <2>2. store' \in [Nonces -> Nat \cup {Absent}]
    BY <1>8, <2>1, AddAndPruneType DEF TypeOK, Record
  <2> QED BY <1>8, <2>1, <2>2 DEF TypeOK, Record, Goto
<1> QED BY <1>1, <1>2, <1>3, <1>4, <1>5, <1>6, <1>7, <1>8 DEF Next

\* prune() keeps the dates of the rows it keeps.
LEMMA PrunedDated ==
  ASSUME NEW ttl, \A n \in Nonces : store[n] # Absent => IssuedAt[n] <= store[n]
  PROVE  \A n \in Nonces : Pruned(ttl)[n] # Absent => IssuedAt[n] <= Pruned(ttl)[n]
  BY DEF Pruned

\* Every step keeps the rows dated between issue and now.
LEMMA NextDated == TypeOK /\ Dated /\ [Next]_vars => Dated'
<1> SUFFICES ASSUME TypeOK, Dated, [Next]_vars PROVE Dated'
  OBVIOUS
<1> USE DEF ledger, limiter, past
<1>1. CASE UNCHANGED vars
  BY <1>1 DEF Dated, vars
<1>2. CASE Tick
  BY <1>2, X402Assumption DEF TypeOK, Dated, Tick, X402Assumption
<1>3. CASE Crash
  BY <1>3 DEF TypeOK, Dated, Crash, InFlight
<1>4. ASSUME NEW c \in Calls, NEW n \in Nonces, respond(c, n) PROVE Dated'
  <2>1. now' = now /\ nonce' = [nonce EXCEPT ![c] = n]
    BY <1>4 DEF respond, Limited, Invalid, Expired, Check, Admit
  <2>2. PICK s : pc' = [pc EXCEPT ![c] = s]
    BY <1>4 DEF respond, Limited, Invalid, Expired, Check
  <2>3. store' = store \/ store' = Pruned(X402_NONCE_TTL_MS)
    BY <1>4 DEF respond, Limited, Invalid, Expired, Check
  <2>4. \A d \in Calls : pc'[d] # "new" => nonce'[d] \in Nonces /\ IssuedAt[nonce'[d]] <= now'
    BY <1>4, <2>1, <2>2 DEF Dated, TypeOK, respond
  <2>5. \A m \in Nonces : store'[m] # Absent => IssuedAt[m] <= store'[m]
    BY <2>3, PrunedDated DEF Dated
  <2> QED BY <2>4, <2>5 DEF Dated
<1>5. ASSUME NEW c \in Calls, NEW s, Goto(c, s), pc[c] # "new",
             \A m \in Nonces : store'[m] # Absent => IssuedAt[m] <= store'[m]
      PROVE  Dated'
  BY <1>5 DEF Dated, TypeOK, Goto
<1>6. ASSUME NEW c \in Calls, Lookup(c) \/ LookupFails(c) \/ RecordFails(c) \/ Sign(c) \/ PayFails(c)
      PROVE  Dated'
  BY <1>6, <1>5 DEF Dated, Lookup, LookupFails, RecordFails, Sign, PayFails
<1>7. ASSUME NEW c \in Calls, Pay(c) PROVE Dated'
  <2>1. \A m \in Nonces : store'[m] # Absent => IssuedAt[m] <= store'[m]
    BY <1>7, PrunedDated DEF Dated, Pay
  <2> QED BY <1>7, <1>5, <2>1 DEF Pay
<1>8. ASSUME NEW c \in Calls, Record(c) PROVE Dated'
  <2>1. nonce[c] \in Nonces /\ IssuedAt[nonce[c]] <= now
    BY <1>8 DEF Dated, Record
  <2>2. \A m \in Nonces : store'[m] # Absent => IssuedAt[m] <= store'[m]
    BY <1>8, <2>1 DEF Dated, TypeOK, Record, AddAndPrune, Inserted
  <2> QED BY <1>8, <1>5, <2>2 DEF Record
<1> QED BY <1>1, <1>2, <1>3, <1>4, <1>6, <1>7, <1>8 DEF Next

\* Type correctness of the x402 tool; the counter never exceeds the limit.
THEOREM X402TypeCorrect == Spec => []TypeOK
<1>1. Init => TypeOK /\ Dated
  BY InitType DEF Init, Dated
<1>2. TypeOK /\ Dated /\ [Next]_vars => (TypeOK /\ Dated)'
  BY NextType, NextDated
<1> QED BY <1>1, <1>2, PTL DEF Spec

\* As long as a challenge is valid, no pruning drops the row of its nonce.
LEMMA PruneKeepsValid ==
  ASSUME TypeOK, Dated, NEW ttl \in Nat, NEW n \in Nonces,
         ExpiresAt[n] - IssuedAt[n] <= ttl, ExpiresAt[n] >= now, store[n] # Absent
  PROVE  Pruned(ttl)[n] = store[n]
  BY X402Assumption DEF TypeOK, Dated, Pruned, X402Assumption, Absent

\* add() leaves a row for its own nonce, and the rows of valid challenges.
LEMMA AddKeepsValid ==
  ASSUME TypeOK, Dated, TtlCoversLife, NEW m \in Nonces, NEW n \in Nonces,
         IssuedAt[m] <= now, ExpiresAt[n] >= now, n = m \/ store[n] # Absent
  PROVE  AddAndPrune(m)[n] # Absent
<1>1. Inserted(m)[n] \in Nat /\ IssuedAt[n] <= Inserted(m)[n]
  BY DEF TypeOK, Dated, Inserted, Absent
<1>2. ~(Inserted(m)[n] < now - MAX_NONCE_TTL_MS)
  BY <1>1, X402Assumption DEF TypeOK, TtlCoversLife, X402Assumption
<1> QED BY <1>1, <1>2 DEF AddAndPrune, Absent

\* Every step keeps the recorded nonces of valid challenges in the store.
LEMMA NextBlocks == TypeOK /\ Dated /\ RecordedBlocks /\ [Next]_vars => RecordedBlocks'
<1> SUFFICES ASSUME TypeOK, Dated, RecordedBlocks, [Next]_vars, TtlCoversLife,
                    NEW n \in recorded', ExpiresAt[n] >= now'
             PROVE  store'[n] # Absent
  BY DEF RecordedBlocks, TtlCoversLife
<1> USE DEF ledger, limiter, past
<1>0. /\ X402_NONCE_TTL_MS \in Nat
      /\ \A m \in Nonces : ExpiresAt[m] - IssuedAt[m] <= X402_NONCE_TTL_MS
  BY X402Assumption DEF X402Assumption, TtlCoversLife
<1>a. ASSUME recorded' = recorded, now' = now, store' = store \/ store' = Pruned(X402_NONCE_TTL_MS)
      PROVE  store'[n] # Absent
  <2>1. n \in Nonces /\ store[n] # Absent /\ ExpiresAt[n] >= now
    BY <1>a DEF RecordedBlocks, TypeOK
  <2>2. Pruned(X402_NONCE_TTL_MS)[n] = store[n]
    BY <1>0, <2>1, PruneKeepsValid
  <2> QED BY <1>a, <2>1, <2>2
<1>1. CASE UNCHANGED vars
  BY <1>1, <1>a DEF vars
<1>2. CASE Tick
  BY <1>2, X402Assumption DEF Tick, RecordedBlocks, TypeOK, X402Assumption
<1>3. CASE Crash
  BY <1>3, <1>a DEF Crash
<1>4. ASSUME NEW c \in Calls, NEW m \in Nonces, respond(c, m) PROVE store'[n] # Absent
  BY <1>4, <1>a DEF respond, Limited, Invalid, Expired, Check
<1>5. ASSUME NEW c \in Calls, Lookup(c) \/ LookupFails(c) \/ RecordFails(c) \/ Sign(c) \/ PayFails(c) \/ Pay(c)
      PROVE  store'[n] # Absent
  BY <1>5, <1>a DEF Lookup, LookupFails, RecordFails, Sign, PayFails, Pay, Goto
<1>6. ASSUME NEW c \in Calls, Record(c) PROVE store'[n] # Absent
  <2>1. nonce[c] \in Nonces /\ IssuedAt[nonce[c]] <= now
    BY <1>6 DEF Dated, Record
  <2>2. now' = now /\ store' = AddAndPrune(nonce[c]) /\ recorded' = recorded \cup {nonce[c]}
    BY <1>6 DEF Record, Goto
  <2>3. n \in Nonces /\ (n = nonce[c] \/ store[n] # Absent)
    BY <2>1, <2>2 DEF RecordedBlocks, TypeOK
  <2> QED BY <2>1, <2>2, <2>3, AddKeepsValid
<1> QED BY <1>1, <1>2, <1>3, <1>4, <1>5, <1>6 DEF Next

\* A recorded nonce blocks its challenge for as long as respond() accepts the
\* challenge, with any number of concurrent calls, restarts and failures.
THEOREM X402RecordedBlocks == Spec => []RecordedBlocks
<1>1. Init => TypeOK /\ Dated /\ RecordedBlocks
  BY InitType DEF Init, Dated, RecordedBlocks
<1>2. TypeOK /\ Dated /\ RecordedBlocks /\ [Next]_vars => (TypeOK /\ Dated /\ RecordedBlocks)'
  BY NextType, NextDated, NextBlocks
<1> QED BY <1>1, <1>2, PTL DEF Spec

-----------------------------------------------------------------------------
(* Calls that meet no other.                                               *)

\* Every step keeps the calls that met no other one from missing a nonce.
LEMMA NextSolo ==
  ASSUME TtlCoversLife
  PROVE  TypeOK /\ Dated /\ RecordedBlocks /\ SoloCalls /\ [Next]_vars => SoloCalls'
<1> SUFFICES ASSUME TypeOK, Dated, RecordedBlocks, SoloCalls, [Next]_vars
             PROVE  SoloCalls'
  OBVIOUS
<1> USE DEF ledger, limiter, past
<1>l. landed \subseteq Calls
  BY DEF TypeOK
<1>1. CASE UNCHANGED vars
  BY <1>1 DEF SoloCalls, InFlight, vars
<1>2. CASE Tick
  BY <1>2 DEF SoloCalls, InFlight, Tick
<1>3. CASE Crash
  <2>1. \A c \in Calls : pc'[c] = IF c \in InFlight THEN "failed" ELSE pc[c]
    BY <1>3 DEF Crash, TypeOK
  <2>2. PICK S \in SUBSET {c \in Calls : pc[c] = "paying"} : landed' = landed \cup S
    BY <1>3 DEF Crash
  <2>3. nonce' = nonce /\ recorded' = recorded /\ raced' = raced
    BY <1>3 DEF Crash
  <2>4. InFlight' = {}
    BY <2>1 DEF InFlight
  <2>5. \A c \in landed' : pc'[c] \in {"adding", "signing", "proof", "failed"}
    BY <1>l, <2>1, <2>2 DEF SoloCalls, InFlight
  <2>6. \A c \in Calls : pc'[c] \in {"signing", "proof"} => nonce'[c] \in recorded'
    BY <2>1, <2>3 DEF SoloCalls
  <2>7. \A c \in Calls : pc'[c] \notin {"checking", "paying"}
    BY <2>4 DEF InFlight
  <2> QED BY <2>4, <2>5, <2>6, <2>7 DEF SoloCalls
<1>4. ASSUME NEW c \in Calls, NEW n \in Nonces, respond(c, n) PROVE SoloCalls'
  <2>1. pc[c] = "new" /\ c \notin landed /\ c \notin InFlight
    BY <1>4 DEF respond, SoloCalls, InFlight
  <2>2. nonce' = [nonce EXCEPT ![c] = n] /\ landed' = landed /\ recorded' = recorded
    BY <1>4 DEF respond, Limited, Invalid, Expired, Check, Admit
  <2>3. CASE Check(c, n)
    <3>1. /\ pc' = [pc EXCEPT ![c] = "checking"] /\ raced' = Overlapping(c)
         /\ store' = Pruned(X402_NONCE_TTL_MS) /\ ExpiresAt[n] >= now
      BY <2>3 DEF Check
    <3>2. /\ pc'[c] = "checking" /\ nonce'[c] = n
         /\ \A d \in Calls : d # c => pc'[d] = pc[d] /\ nonce'[d] = nonce[d]
      BY <2>2, <3>1 DEF TypeOK
    <3>3. InFlight' = InFlight \cup {c}
      BY <3>2 DEF InFlight
    <3>4. \A d, e \in InFlight' : d # e => d \in raced'
      BY <3>1, <3>3 DEF Overlapping
    <3>5. \A d \in landed' : pc'[d] \in {"adding", "signing", "proof", "failed"}
      BY <1>l, <2>1, <2>2, <3>2 DEF SoloCalls
    <3>6. \A d \in Calls : pc'[d] \in {"signing", "proof"} => nonce'[d] \in recorded'
      BY <2>2, <3>2 DEF SoloCalls
    <3>7. \A d \in Calls \ raced' : d # c => d \notin InFlight
      BY <3>1 DEF Overlapping
    <3>8. ASSUME n \in recorded PROVE store'[n] # Absent
      <4>1. store[n] # Absent
        BY <3>1, <3>8 DEF RecordedBlocks
      <4>2. X402_NONCE_TTL_MS \in Nat /\ ExpiresAt[n] - IssuedAt[n] <= X402_NONCE_TTL_MS
        BY X402Assumption DEF X402Assumption, TtlCoversLife
      <4>3. Pruned(X402_NONCE_TTL_MS)[n] = store[n]
        BY <3>1, <4>1, <4>2, PruneKeepsValid
      <4> QED BY <3>1, <4>1, <4>3
    <3>9. \A d \in Calls \ raced' : pc'[d] = "checking" /\ nonce'[d] \in recorded'
                                     => store'[nonce'[d]] # Absent
      BY <2>2, <3>2, <3>7, <3>8 DEF InFlight
    <3>10. \A d \in Calls \ raced' : pc'[d] = "paying" => nonce'[d] \notin recorded'
      BY <3>2, <3>7 DEF InFlight
    <3> QED BY <3>4, <3>5, <3>6, <3>9, <3>10 DEF SoloCalls
  <2>4. CASE Limited(c, n) \/ Invalid(c, n) \/ Expired(c, n)
    <3>1. PICK s \in {"limited", "refused"} : pc' = [pc EXCEPT ![c] = s]
      BY <2>4 DEF Limited, Invalid, Expired
    <3>2. raced' = raced /\ store' = store
      BY <2>4 DEF Limited, Invalid, Expired
    <3>3. /\ pc'[c] = s
         /\ \A d \in Calls : d # c => pc'[d] = pc[d] /\ nonce'[d] = nonce[d]
      BY <2>2, <3>1 DEF TypeOK
    <3>4. InFlight' = InFlight
      BY <2>1, <3>3 DEF InFlight
    <3> QED BY <1>l, <2>1, <2>2, <3>2, <3>3, <3>4 DEF SoloCalls
  <2> QED BY <1>4, <2>3, <2>4 DEF respond
<1>5. ASSUME NEW c \in InFlight, NEW s, Goto(c, s)
      PROVE  /\ \A d \in Calls : d # c => pc'[d] = pc[d] /\ (d \in InFlight => d \in raced')
             /\ pc'[c] = s /\ nonce' = nonce /\ raced' = raced
             /\ \A d, e \in InFlight' : d # e => d \in raced'
  <2>1. c \in Calls /\ nonce' = nonce /\ raced' = raced
    BY <1>5 DEF Goto, InFlight
  <2>2. pc'[c] = s /\ \A d \in Calls : d # c => pc'[d] = pc[d]
    BY <1>5, <2>1 DEF Goto, TypeOK
  <2>3. \A d \in InFlight : d # c => d \in raced
    BY <1>5 DEF SoloCalls
  <2>4. InFlight' \subseteq InFlight
    BY <1>5, <2>2 DEF InFlight
  <2>5. \A d, e \in InFlight' : d # e => d \in raced'
    BY <2>1, <2>4 DEF SoloCalls
  <2> QED BY <2>1, <2>2, <2>3, <2>5
<1>6. ASSUME NEW c \in Calls, Lookup(c) PROVE SoloCalls'
  <2>1. c \in InFlight /\ Goto(c, IF store[nonce[c]] # Absent THEN "refused" ELSE "paying")
    BY <1>6 DEF Lookup, InFlight
  <2>2. pc[c] = "checking" /\ store' = store /\ landed' = landed /\ recorded' = recorded
    BY <1>6 DEF Lookup
  <2>3. /\ \A d \in Calls : d # c => pc'[d] = pc[d] /\ (d \in InFlight => d \in raced')
       /\ pc'[c] = (IF store[nonce[c]] # Absent THEN "refused" ELSE "paying")
       /\ nonce' = nonce /\ raced' = raced
       /\ \A d, e \in InFlight' : d # e => d \in raced'
    BY <1>5, <2>1
  <2>4. CASE store[nonce[c]] # Absent
    BY <1>l, <2>2, <2>3, <2>4 DEF SoloCalls
  <2>5. CASE store[nonce[c]] = Absent
    BY <1>l, <2>2, <2>3, <2>5 DEF SoloCalls
  <2> QED BY <2>4, <2>5
<1>7. ASSUME NEW c \in Calls, Pay(c) PROVE SoloCalls'
  <2>1. c \in InFlight /\ Goto(c, "adding") BY <1>7 DEF Pay, InFlight
  <2>2. /\ \A d \in Calls : d # c => pc'[d] = pc[d] /\ (d \in InFlight => d \in raced')
       /\ pc'[c] = "adding" /\ nonce' = nonce /\ raced' = raced
       /\ \A d, e \in InFlight' : d # e => d \in raced'
    BY <1>5, <2>1
  <2>3. landed' = landed \cup {c} /\ recorded' = recorded BY <1>7 DEF Pay
  <2>4. \A d \in Calls \ raced' : pc'[d] \notin {"checking", "paying"}
    BY <2>2 DEF InFlight
  <2> QED BY <1>l, <2>2, <2>3, <2>4 DEF SoloCalls
<1>8. ASSUME NEW c \in Calls, LookupFails(c) \/ PayFails(c) \/ RecordFails(c) PROVE SoloCalls'
  <2>1. c \in InFlight /\ Goto(c, "failed")
    BY <1>8 DEF LookupFails, PayFails, RecordFails, InFlight
  <2>2. store' = store /\ landed' \subseteq landed \cup {c} /\ recorded' = recorded
    BY <1>8 DEF LookupFails, PayFails, RecordFails
  <2>3. /\ \A d \in Calls : d # c => pc'[d] = pc[d] /\ (d \in InFlight => d \in raced')
       /\ pc'[c] = "failed" /\ nonce' = nonce /\ raced' = raced
       /\ \A d, e \in InFlight' : d # e => d \in raced'
    BY <1>5, <2>1
  <2> QED BY <1>l, <2>2, <2>3 DEF SoloCalls
<1>9. ASSUME NEW c \in Calls, Record(c) PROVE SoloCalls'
  <2>1. c \in InFlight /\ Goto(c, "signing") BY <1>9 DEF Record, InFlight
  <2>2. /\ \A d \in Calls : d # c => pc'[d] = pc[d] /\ (d \in InFlight => d \in raced')
       /\ pc'[c] = "signing" /\ nonce' = nonce /\ raced' = raced
       /\ \A d, e \in InFlight' : d # e => d \in raced'
    BY <1>5, <2>1
  <2>3. landed' = landed /\ recorded' = recorded \cup {nonce[c]} BY <1>9 DEF Record
  <2>4. \A d \in Calls \ raced' : pc'[d] \notin {"checking", "paying"}
    BY <2>2 DEF InFlight
  <2> QED BY <1>l, <2>2, <2>3, <2>4 DEF SoloCalls
<1>10. ASSUME NEW c \in Calls, Sign(c) PROVE SoloCalls'
  <2>1. c \in InFlight /\ Goto(c, "proof") BY <1>10 DEF Sign, InFlight
  <2>2. /\ \A d \in Calls : d # c => pc'[d] = pc[d] /\ (d \in InFlight => d \in raced')
       /\ pc'[c] = "proof" /\ nonce' = nonce /\ raced' = raced
       /\ \A d, e \in InFlight' : d # e => d \in raced'
    BY <1>5, <2>1
  <2> QED BY <1>l, <1>10, <2>2 DEF SoloCalls, Sign
<1> QED BY <1>1, <1>2, <1>3, <1>4, <1>6, <1>7, <1>8, <1>9, <1>10 DEF Next

\* A payment that lands without its call failing is for a nonce that no such
\* call used before, unless calls met.
LEMMA NextPaidOnce ==
  ASSUME TtlCoversLife
  PROVE  TypeOK /\ Dated /\ SoloCalls /\ PaidOnce /\ [Next]_vars => PaidOnce'
<1> SUFFICES ASSUME TypeOK, Dated, SoloCalls, PaidOnce, [Next]_vars PROVE PaidOnce'
  OBVIOUS
<1> USE DEF ledger, limiter, past
<1>l. landed \subseteq Calls /\ raced \subseteq Calls
  BY DEF TypeOK
<1>1. ASSUME raced \subseteq raced',
             \A d \in landed' : d \in landed \/ pc'[d] = "failed",
             \A d \in landed : nonce'[d] = nonce[d] /\ (pc[d] = "failed" => pc'[d] = "failed")
      PROVE  PaidOnce'
  <2> SUFFICES ASSUME NEW c \in landed', NEW d \in landed', nonce'[c] = nonce'[d], c # d,
                      pc'[c] # "failed", pc'[d] # "failed"
               PROVE  {c, d} \cap raced' # {}
    BY DEF PaidOnce
  <2>1. c \in landed /\ d \in landed /\ nonce[c] = nonce[d] /\ pc[c] # "failed" /\ pc[d] # "failed"
    BY <1>1
  <2>2. {c, d} \cap raced # {}
    BY <2>1 DEF PaidOnce
  <2> QED BY <1>1, <2>2
<1>2. CASE UNCHANGED vars \/ Tick
  BY <1>1, <1>2 DEF vars, Tick
<1>3. CASE Crash
  <2>1. \A c \in Calls : pc'[c] = IF c \in InFlight THEN "failed" ELSE pc[c]
    BY <1>3 DEF Crash, TypeOK
  <2>2. PICK S \in SUBSET {c \in Calls : pc[c] = "paying"} : landed' = landed \cup S
    BY <1>3 DEF Crash
  <2>3. nonce' = nonce /\ raced' = raced
    BY <1>3 DEF Crash
  <2>4. \A d \in landed' : d \in landed \/ pc'[d] = "failed"
    BY <2>1, <2>2 DEF InFlight
  <2>5. \A d \in landed : pc[d] = "failed" => pc'[d] = "failed"
    BY <1>l, <2>1
  <2> QED BY <1>1, <2>3, <2>4, <2>5
<1>4. ASSUME NEW c \in Calls, NEW n \in Nonces, respond(c, n) PROVE PaidOnce'
  <2>1. landed' = landed /\ nonce' = [nonce EXCEPT ![c] = n] /\ pc[c] = "new"
    BY <1>4 DEF respond, Limited, Invalid, Expired, Check, Admit
  <2>2. raced \subseteq raced'
    BY <1>4 DEF respond, Limited, Invalid, Expired, Check, Overlapping
  <2>3. PICK s : pc' = [pc EXCEPT ![c] = s]
    BY <1>4 DEF respond, Limited, Invalid, Expired, Check
  <2>4. c \notin landed BY <2>1 DEF SoloCalls
  <2>5. \A d \in landed : nonce'[d] = nonce[d] /\ pc'[d] = pc[d]
    BY <1>l, <2>1, <2>3, <2>4 DEF TypeOK
  <2> QED BY <1>1, <2>1, <2>2, <2>5
<1>5. ASSUME NEW c \in Calls, NEW s, Goto(c, s), pc[c] # "failed", landed' = landed \/ s = "failed",
             landed' \subseteq landed \cup {c}
      PROVE  PaidOnce'
  <2>1. nonce' = nonce /\ raced' = raced /\ pc' = [pc EXCEPT ![c] = s]
    BY <1>5 DEF Goto
  <2>2. pc'[c] = s /\ \A d \in Calls : d # c => pc'[d] = pc[d]
    BY <2>1 DEF TypeOK
  <2>3. \A d \in landed' : d \in landed \/ pc'[d] = "failed"
    BY <1>5, <2>2
  <2>4. \A d \in landed : pc[d] = "failed" => pc'[d] = "failed"
    BY <1>5, <1>l, <2>2
  <2> QED BY <1>1, <2>1, <2>3, <2>4
<1>6. ASSUME NEW c \in Calls,
             Lookup(c) \/ LookupFails(c) \/ PayFails(c) \/ Record(c) \/ RecordFails(c) \/ Sign(c)
      PROVE  PaidOnce'
  <2>1. CASE Lookup(c) \/ Record(c) \/ Sign(c)
    <3>1. pc[c] # "failed" /\ landed' = landed
      BY <2>1 DEF Lookup, Record, Sign
    <3>2. PICK s : Goto(c, s)
      BY <2>1 DEF Lookup, Record, Sign
    <3> QED BY <1>5, <3>1, <3>2
  <2>2. CASE LookupFails(c) \/ PayFails(c) \/ RecordFails(c)
    <3>1. pc[c] # "failed" /\ landed' \subseteq landed \cup {c} /\ Goto(c, "failed")
      BY <2>2 DEF LookupFails, PayFails, RecordFails
    <3> QED BY <1>5, <3>1
  <2> QED BY <1>6, <2>1, <2>2
<1>7. ASSUME NEW c \in Calls, Pay(c) PROVE PaidOnce'
  <2>1. pc[c] = "paying" /\ c \in InFlight
    BY <1>7 DEF Pay, InFlight
  <2>2. landed' = landed \cup {c} /\ nonce' = nonce /\ raced' = raced
    BY <1>7 DEF Pay, Goto
  <2>3. pc'[c] = "adding" /\ \A d \in Calls : d # c => pc'[d] = pc[d]
    BY <1>7 DEF Pay, Goto, TypeOK
  <2>4. ASSUME NEW d \in landed, d # c, nonce[d] = nonce[c], pc[d] # "failed", c \notin raced
        PROVE  FALSE
    <3>1. d \in Calls /\ pc[d] \in {"adding", "signing", "proof"}
      BY <1>l, <2>4 DEF SoloCalls
    <3>2. d \notin InFlight
      BY <2>1, <2>4 DEF SoloCalls
    <3>3. pc[d] = "proof"
      BY <3>1, <3>2 DEF InFlight
    <3> QED BY <2>1, <2>4, <3>1, <3>3 DEF SoloCalls
  <2> SUFFICES ASSUME NEW d \in landed', NEW e \in landed', nonce'[d] = nonce'[e], d # e,
                      pc'[d] # "failed", pc'[e] # "failed"
               PROVE  {d, e} \cap raced' # {}
    BY DEF PaidOnce
  <2>5. CASE d = c
    BY <1>l, <2>2, <2>3, <2>4, <2>5
  <2>6. CASE e = c
    BY <1>l, <2>2, <2>3, <2>4, <2>6
  <2>7. CASE d # c /\ e # c
    <3>1. d \in landed /\ e \in landed /\ nonce[d] = nonce[e] /\ pc[d] # "failed" /\ pc[e] # "failed"
      BY <1>l, <2>2, <2>3, <2>7
    <3> QED BY <2>2, <3>1 DEF PaidOnce
  <2> QED BY <2>5, <2>6, <2>7
<1> QED BY <1>2, <1>3, <1>4, <1>6, <1>7 DEF Next

\* With any number of concurrent calls, restarts and half-failures, a challenge
\* is paid for twice only by calls of which one met another call or failed
\* after it had paid, whatever the clock does.
THEOREM X402PaidOnce == Spec => []PaidOnce
<1>1. CASE TtlCoversLife
  <2> DEFINE Inv == TypeOK /\ Dated /\ RecordedBlocks /\ SoloCalls /\ PaidOnce
  <2>1. Init => Inv
    BY InitType DEF Init, Dated, RecordedBlocks, SoloCalls, InFlight, PaidOnce
  <2>2. Inv /\ [Next]_vars => Inv'
    BY <1>1, NextType, NextDated, NextBlocks, NextSolo, NextPaidOnce
  <2>3. Inv => PaidOnce
    OBVIOUS
  <2> HIDE DEF Inv
  <2> QED BY <2>1, <2>2, <2>3, PTL DEF Spec
<1>2. CASE ~TtlCoversLife
  <2>1. PaidOnce BY <1>2 DEF PaidOnce
  <2> QED BY <2>1, PTL
<1> QED BY <1>1, <1>2

-----------------------------------------------------------------------------
(* The way to a proof.                                                     *)

\* Every step leaves each call with what its stage stands for.
LEMMA NextOnTheWay == TypeOK /\ OnTheWay /\ [Next]_vars => OnTheWay'
<1> SUFFICES ASSUME TypeOK, OnTheWay, [Next]_vars PROVE OnTheWay'
  OBVIOUS
<1> USE DEF ledger, limiter, past
<1>1. CASE UNCHANGED vars
  BY <1>1 DEF OnTheWay, vars
<1>2. CASE Tick
  BY <1>2 DEF OnTheWay, Tick
<1>3. CASE Crash
  <2>1. \A c \in Calls : pc'[c] \in {"failed", pc[c]}
    BY <1>3 DEF Crash
  <2>2. landed \subseteq landed' /\ UNCHANGED <<nonce, recorded, admittedAt>>
    BY <1>3 DEF Crash
  <2> QED BY <2>1, <2>2 DEF OnTheWay
<1>4. ASSUME NEW c \in Calls, NEW n \in Nonces, respond(c, n) PROVE OnTheWay'
  <2>1. landed' = landed /\ recorded' = recorded /\ nonce' = [nonce EXCEPT ![c] = n]
    BY <1>4 DEF respond, Limited, Invalid, Expired, Check, Admit
  <2>2. PICK s \in {"limited", "refused", "checking"} : pc' = [pc EXCEPT ![c] = s]
    BY <1>4 DEF respond, Limited, Invalid, Expired, Check
  <2>3. \A d \in Calls : d # c => /\ pc'[d] = pc[d] /\ nonce'[d] = nonce[d]
                                 /\ admittedAt'[d] = admittedAt[d]
    BY <1>4 DEF respond, Limited, Invalid, Expired, Check, Admit, TypeOK
  <2>4. pc'[c] = s /\ nonce'[c] = n
    BY <2>1, <2>2 DEF TypeOK
  <2>5. ASSUME s = "checking" PROVE IssuedAt[n] <= admittedAt'[c] /\ admittedAt'[c] <= ExpiresAt[n]
    <3>1. Check(c, n)
      BY <1>4, <2>4, <2>5 DEF respond, Limited, Invalid, Expired, TypeOK
    <3>2. admittedAt'[c] = now
      BY <3>1 DEF Check, Admit, TypeOK
    <3> QED BY <1>4, <3>1, <3>2, X402Assumption DEF respond, Check, TypeOK, X402Assumption
  <2> QED BY <2>1, <2>3, <2>4, <2>5 DEF OnTheWay
<1>5. ASSUME NEW c \in Calls,
             \/ Lookup(c) \/ LookupFails(c) \/ Pay(c) \/ PayFails(c)
             \/ Record(c) \/ RecordFails(c) \/ Sign(c)
      PROVE  OnTheWay'
  <2>1. landed \subseteq landed' /\ recorded \subseteq recorded' /\ UNCHANGED <<nonce, admittedAt>>
    BY <1>5 DEF Lookup, LookupFails, Pay, PayFails, Record, RecordFails, Sign, Goto
  <2>2. PICK s : pc' = [pc EXCEPT ![c] = s]
    BY <1>5 DEF Lookup, LookupFails, Pay, PayFails, Record, RecordFails, Sign, Goto
  <2>3. pc'[c] = s /\ \A d \in Calls : d # c => pc'[d] = pc[d]
    BY <2>2 DEF TypeOK
  <2>4. \/ s \in {"refused", "failed"}
        \/ s = "paying" /\ pc[c] = "checking"
        \/ s = "adding" /\ pc[c] = "paying" /\ c \in landed'
        \/ s = "signing" /\ pc[c] = "adding" /\ nonce[c] \in recorded'
        \/ s = "proof" /\ pc[c] = "signing"
    BY <1>5, <2>3 DEF Lookup, LookupFails, Pay, PayFails, Record, RecordFails, Sign, Goto, TypeOK
  <2> QED BY <2>1, <2>3, <2>4 DEF OnTheWay
<1> QED BY <1>1, <1>2, <1>3, <1>4, <1>5 DEF Next

\* A proof is given only for a payment that landed, whose nonce was recorded
\* and whose call came in while the challenge was valid; verify() accepts it
\* if the challenge writes its amount as Horizon does.
THEOREM X402ProofRecorded == Spec => []ProofRecorded
<1>1. Init => OnTheWay
  BY DEF Init, OnTheWay
<1>2. OnTheWay => ProofRecorded
  BY DEF OnTheWay, ProofRecorded, verify, HorizonDecimals
<1> QED BY <1>1, <1>2, NextOnTheWay, X402TypeCorrect, PTL DEF Spec
-----------------------------------------------------------------------------
(* The rate limit.                                                         *)

\* One window more is one limit more.
LEMMA OneMoreWindow ==
  ASSUME NEW r \in Nat, NEW m \in Nat
  PROVE  /\ (1 + r) * m \in Nat /\ (1 + r) * m >= m
         /\ (2 + r) * m = (1 + r) * m + m
         /\ (1 + (r + 1)) * m = (1 + r) * m + m
         /\ (2 + (r + 1)) * m = (1 + r) * m + m + m
  OBVIOUS

\* The calls admitted in a stretch of time are finitely many.
LEMMA AdmittedFinite ==
  ASSUME NEW t
  PROVE  /\ IsFiniteSet(AdmittedFrom(t)) /\ Cardinality(AdmittedFrom(t)) \in Nat
         /\ IsFiniteSet(AdmittedFrom(t)') /\ Cardinality(AdmittedFrom(t)') \in Nat
<1>1. AdmittedFrom(t) \in SUBSET Calls /\ AdmittedFrom(t)' \in SUBSET Calls
  BY DEF AdmittedFrom
<1> QED BY <1>1, X402Assumption, FS_Subset, FS_CardinalityType DEF X402Assumption

\* A call that is let through counts once in the stretches that it falls into.
LEMMA AdmitCounts ==
  ASSUME TypeOK, NEW c \in Calls, NEW n, Admit(c, n), NEW t \in Nat
  PROVE  /\ Cardinality(AdmittedFrom(t)') <= Cardinality(AdmittedFrom(t)) + 1
         /\ t + RATE_LIMIT_WINDOW_MS <= now =>
              Cardinality(AdmittedFrom(t)') <= Cardinality(AdmittedFrom(t))
<1>1. admittedAt' = [admittedAt EXCEPT ![c] = now] /\ admittedAt \in [Calls -> Nat \cup {Absent}]
  BY DEF Admit, TypeOK
<1>2. now \in Nat /\ RATE_LIMIT_WINDOW_MS \in Nat
  BY X402Assumption DEF TypeOK, X402Assumption
<1>3. AdmittedFrom(t)' \in SUBSET (AdmittedFrom(t) \cup {c})
  BY <1>1 DEF AdmittedFrom
<1>4. t + RATE_LIMIT_WINDOW_MS <= now => AdmittedFrom(t)' \in SUBSET AdmittedFrom(t)
  BY <1>1, <1>2 DEF AdmittedFrom
<1>5. /\ IsFiniteSet(AdmittedFrom(t) \cup {c})
      /\ Cardinality(AdmittedFrom(t) \cup {c}) <= Cardinality(AdmittedFrom(t)) + 1
  <2>1. IsFiniteSet(AdmittedFrom(t)) /\ Cardinality(AdmittedFrom(t)) \in Nat
    BY AdmittedFinite
  <2>2. /\ IsFiniteSet(AdmittedFrom(t) \cup {c})
        /\ Cardinality(AdmittedFrom(t) \cup {c}) =
             IF c \in AdmittedFrom(t) THEN Cardinality(AdmittedFrom(t))
             ELSE Cardinality(AdmittedFrom(t)) + 1
    BY <2>1, FS_AddElement
  <2> QED BY <2>1, <2>2
<1>6. Cardinality(AdmittedFrom(t)') <= Cardinality(AdmittedFrom(t) \cup {c})
  BY <1>3, <1>5, FS_Subset
<1>7. Cardinality(AdmittedFrom(t) \cup {c}) \in Nat
  BY <1>5, FS_CardinalityType
<1>8. t + RATE_LIMIT_WINDOW_MS <= now => Cardinality(AdmittedFrom(t)') <= Cardinality(AdmittedFrom(t))
  BY <1>4, AdmittedFinite, FS_Subset
<1> QED BY <1>5, <1>6, <1>7, <1>8, AdmittedFinite

\* Every step keeps what a stretch of time may have admitted.
LEMMA NextWindowCounts ==
  TypeOK /\ WindowCounts /\ AtMostTwiceTheLimit /\ [Next]_vars
    => (WindowCounts /\ AtMostTwiceTheLimit)'
<1> SUFFICES ASSUME TypeOK, WindowCounts, AtMostTwiceTheLimit, [Next]_vars
             PROVE  (WindowCounts /\ AtMostTwiceTheLimit)'
  OBVIOUS
<1> DEFINE M == MAX_X402_PAYMENTS_PER_MINUTE
           W == RATE_LIMIT_WINDOW_MS
           Q(t) == Cardinality(AdmittedFrom(t))
           K == (1 + restarts) * M
<1>1. /\ now \in Nat /\ windowStart \in Nat /\ windowStart <= now /\ restarts \in Nat
      /\ paymentCount \in 0 .. M /\ admittedAt \in [Calls -> Nat \cup {Absent}]
      /\ M \in Nat \ {0} /\ W \in Nat \ {0}
  BY X402Assumption DEF TypeOK, X402Assumption
<1>2. /\ K \in Nat /\ K >= M /\ (2 + restarts) * M = K + M
      /\ (1 + (restarts + 1)) * M = K + M /\ (2 + (restarts + 1)) * M = K + M + M
  BY <1>1, OneMoreWindow
<1> HIDE DEF K
<1>3. \A t \in 0 .. now :
        /\ windowStart < t => Q(t) <= paymentCount
        /\ windowStart < t + W => Q(t) <= paymentCount + K
        /\ Q(t) <= K + M
  BY <1>2 DEF WindowCounts, AtMostTwiceTheLimit, K
<1>4. \A t : Q(t) \in Nat /\ Q(t)' \in Nat
  BY AdmittedFinite
<1>5. ASSUME UNCHANGED <<now, limiter, admittedAt, restarts>>
      PROVE  (WindowCounts /\ AtMostTwiceTheLimit)'
  BY <1>5 DEF WindowCounts, AtMostTwiceTheLimit, AdmittedFrom, limiter
<1>6. CASE Tick
  <2>1. now' = now + 1 /\ UNCHANGED <<limiter, admittedAt, restarts>>
    BY <1>6 DEF Tick, past
  <2>2. \A t : AdmittedFrom(t)' = AdmittedFrom(t)
    BY <2>1 DEF AdmittedFrom
  <2>3. AdmittedFrom(now + 1) = {}
    BY <1>1 DEF AdmittedFrom, WindowCounts
  <2>4. Q(now + 1) = 0
    BY <2>3, FS_EmptySet
  <2>5. \A t \in 0 .. now' : t \in 0 .. now \/ t = now + 1
    BY <1>1, <2>1
  <2>6. \A c \in Calls : admittedAt'[c] <= now'
    BY <1>1, <2>1 DEF WindowCounts, Absent
  <2>7. \A t \in 0 .. now' :
          /\ windowStart < t => Q(t) <= paymentCount
          /\ windowStart < t + W => Q(t) <= paymentCount + K
          /\ Q(t) <= K + M
    BY <1>1, <1>2, <1>3, <2>4, <2>5
  <2> QED BY <1>2, <2>1, <2>2, <2>6, <2>7 DEF WindowCounts, AtMostTwiceTheLimit, limiter, K
<1>7. CASE Crash
  <2>1. /\ now' = now /\ admittedAt' = admittedAt
        /\ paymentCount' = 0 /\ windowStart' = now /\ restarts' = restarts + 1
    BY <1>7 DEF Crash
  <2>2. \A t : AdmittedFrom(t)' = AdmittedFrom(t)
    BY <2>1 DEF AdmittedFrom
  <2>3. \A t \in 0 .. now : ~(now < t) /\ Q(t) <= 0 + (K + M) /\ Q(t) <= K + M + M
    BY <1>1, <1>2, <1>3, <1>4
  <2> QED BY <1>2, <2>1, <2>2, <2>3 DEF WindowCounts, AtMostTwiceTheLimit
<1>8. ASSUME NEW c \in Calls, NEW n \in Nonces, Limited(c, n)
      PROVE  (WindowCounts /\ AtMostTwiceTheLimit)'
  <2>1. UNCHANGED <<now, limiter, admittedAt, restarts>>
    BY <1>1, <1>8 DEF Limited, Count, Start, past, limiter
  <2> QED BY <1>5, <2>1
<1>9. ASSUME NEW c \in Calls, NEW n \in Nonces, Admit(c, n), UNCHANGED <<now, restarts>>
      PROVE  (WindowCounts /\ AtMostTwiceTheLimit)'
  <2>1. \A t \in Nat : Q(t)' <= Q(t) + 1 /\ (t + W <= now => Q(t)' <= Q(t))
    BY <1>9, AdmitCounts
  <2>2. \A d \in Calls : admittedAt'[d] <= now'
    BY <1>1, <1>9 DEF Admit, WindowCounts
  <2>3. ASSUME NEW t \in 0 .. now
        PROVE  /\ windowStart' < t => Q(t)' <= paymentCount'
               /\ windowStart' < t + W => Q(t)' <= paymentCount' + K
               /\ Q(t)' <= K + M
    <3>1. t \in Nat /\ Q(t) \in Nat /\ Q(t)' \in Nat
      BY <1>1, <1>4
    <3>2. CASE WindowOver
      <4>1. windowStart' = now /\ paymentCount' = 1 /\ now - windowStart >= W
        BY <1>9, <3>2 DEF Admit, Start, Count, WindowOver
      <4>2. CASE windowStart < t
        BY <1>1, <1>2, <1>3, <2>1, <3>1, <4>1, <4>2
      <4>3. CASE ~(windowStart < t)
        <5>1. t + W <= now
          BY <1>1, <3>1, <4>1, <4>3
        <5> QED BY <1>1, <1>2, <1>3, <2>1, <3>1, <4>1, <5>1
      <4> QED BY <4>2, <4>3
    <3>3. CASE ~WindowOver
      <4>1. windowStart' = windowStart /\ paymentCount' = paymentCount + 1 /\ paymentCount + 1 <= M
        BY <1>1, <1>9, <3>3 DEF Admit, Start, Count
      <4>2. CASE windowStart < t + W
        BY <1>1, <1>2, <1>3, <2>1, <3>1, <4>1, <4>2
      <4>3. CASE ~(windowStart < t + W)
        BY <1>1, <1>2, <1>3, <2>1, <3>1, <4>1, <4>3
      <4> QED BY <4>2, <4>3
    <3> QED BY <3>2, <3>3
  <2> QED BY <1>2, <1>9, <2>2, <2>3 DEF WindowCounts, AtMostTwiceTheLimit, K
<1>10. ASSUME NEW c \in Calls, NEW n \in Nonces, respond(c, n)
       PROVE  (WindowCounts /\ AtMostTwiceTheLimit)'
  BY <1>8, <1>9, <1>10 DEF respond, Invalid, Expired, Check, past
<1>11. CASE UNCHANGED vars
  BY <1>5, <1>11 DEF vars, past
<1>12. ASSUME NEW c \in Calls,
              \/ Lookup(c) \/ LookupFails(c) \/ Pay(c) \/ PayFails(c)
              \/ Record(c) \/ RecordFails(c) \/ Sign(c)
       PROVE  (WindowCounts /\ AtMostTwiceTheLimit)'
  BY <1>5, <1>12 DEF Lookup, LookupFails, Pay, PayFails, Record, RecordFails, Sign, Goto, past
<1> QED BY <1>6, <1>7, <1>10, <1>11, <1>12 DEF Next

\* The rate limit, a fixed window in memory, admits at most twice its number in
\* any stretch as long as the window, and once more for each restart.
THEOREM X402AtMostTwiceTheLimit == Spec => []AtMostTwiceTheLimit
<1>1. Init => WindowCounts /\ AtMostTwiceTheLimit
  <2> SUFFICES ASSUME Init PROVE WindowCounts /\ AtMostTwiceTheLimit
    OBVIOUS
  <2>1. \A t \in 0 .. now : AdmittedFrom(t) = {}
    BY X402Assumption DEF Init, AdmittedFrom, Absent, X402Assumption
  <2>2. \A t \in 0 .. now : Cardinality(AdmittedFrom(t)) = 0
    BY <2>1, FS_EmptySet
  <2>3. \A c \in Calls : admittedAt[c] <= now
    BY DEF Init, Absent
  <2> QED BY <2>2, <2>3, X402Assumption
          DEF WindowCounts, AtMostTwiceTheLimit, Init, X402Assumption
<1> QED BY <1>1, NextWindowCounts, X402TypeCorrect, PTL DEF Spec
=============================================================================
