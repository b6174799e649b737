------------------------ MODULE ContractEventsProofs ------------------------
(***************************************************************************)
(* Theorems of ContractEvents and, at the end, of Service.  What           *)
(* Matches computes is proved by induction on the length of the page; the  *)
(* library's induction principle is replaced by that of the least          *)
(* counterexample, stated over sets.                                       *)
(***************************************************************************)
EXTENDS ContractEvents, Service, TLAPS, WellFoundedInduction

\* A set of naturals that is not empty has a least element.
LEMMA LeastElement ==
  ASSUME NEW T, T \subseteq Nat, T # {}
  PROVE  \E x \in T : \A y \in T : x <= y
<1> DEFINE R == OpToRel(<, Nat)
<1>1. IsWellFoundedOn(R, Nat)
  BY NatLessThanWellFounded
<1>2. \A x, y \in Nat : x < y => <<x, y>> \in R
  BY DEF OpToRel
<1> HIDE DEF R
<1>3. PICK x \in T : \A y \in T : ~(<<y, x>> \in R)
  BY <1>1, WFMin
<1>4. \A y \in T : ~(y < x)
  BY <1>2, <1>3
<1>5. \A y \in T : x <= y
  BY <1>4
<1> QED
  BY <1>5

\* Induction over the naturals, with a set in place of a predicate.
LEMMA NatSetInduction ==
  ASSUME NEW T, 0 \in T, \A n \in Nat : n \in T => n + 1 \in T
  PROVE  Nat \subseteq T
<1> SUFFICES ASSUME NEW n \in Nat, n \notin T PROVE FALSE
  OBVIOUS
<1> DEFINE U == {m \in Nat : m \notin T}
<1>1. PICK x \in U : \A y \in U : x <= y
  BY LeastElement
<1>2. x # 0
  OBVIOUS
<1>3. x - 1 \in Nat /\ x - 1 \in T
  BY <1>1, <1>2
<1> QED
  BY <1>3

-----------------------------------------------------------------------------
(* What Matches returns for a run of consecutive events.                   *)

\* The events after b, up to the n-th.
Run(b, n) == [i \in 1 .. n |-> b + i]

\* The recursive function of Matches, up to position n.
MatchesTo(f, b, n) ==
  f = [i \in 0 .. n |->
         IF i = 0 THEN <<>>
         ELSE IF Run(b, n)[i] \in Matching THEN Append(f[i - 1], Run(b, n)[i]) ELSE f[i - 1]]

\* The recursive function of Matches exists for every length.
LEMMA MatchesExists ==
  ASSUME NEW b \in Nat
  PROVE  \A n \in Nat : \E f : MatchesTo(f, b, n)
<1> DEFINE T == {n \in Nat : \E f : MatchesTo(f, b, n)}
<1>1. 0 \in T
  <2> DEFINE f == [i \in 0 .. 0 |-> <<>>]
  <2>1. MatchesTo(f, b, 0)
    BY DEF MatchesTo
  <2> QED
    BY <2>1
<1>2. ASSUME NEW n \in Nat, n \in T PROVE n + 1 \in T
  <2>1. PICK f : MatchesTo(f, b, n)
    BY <1>2
  <2> DEFINE e == b + (n + 1)
             g == [i \in 0 .. n + 1 |->
                     IF i <= n THEN f[i]
                     ELSE IF e \in Matching THEN Append(f[n], e) ELSE f[n]]
             h == [i \in 0 .. n + 1 |->
                     IF i = 0 THEN <<>>
                     ELSE IF Run(b, n + 1)[i] \in Matching
                          THEN Append(g[i - 1], Run(b, n + 1)[i]) ELSE g[i - 1]]
  <2>2. ASSUME NEW i \in 0 .. n + 1 PROVE g[i] = h[i]
    <3>1. CASE i = 0
      BY <2>1, <3>1 DEF MatchesTo
    <3>2. CASE i \in 1 .. n
      <4>1. Run(b, n)[i] = b + i /\ Run(b, n + 1)[i] = b + i
        BY <3>2 DEF Run
      <4>2. g[i] = f[i] /\ g[i - 1] = f[i - 1] /\ i # 0 /\ i \in 0 .. n
        BY <3>2
      <4>3. f[i] = IF b + i \in Matching THEN Append(f[i - 1], b + i) ELSE f[i - 1]
        BY <2>1, <4>1, <4>2 DEF MatchesTo
      <4> QED
        BY <4>1, <4>2, <4>3
    <3>3. CASE i = n + 1
      <4>1. Run(b, n + 1)[i] = e
        BY <3>3 DEF Run
      <4>2. g[i - 1] = f[n] /\ i # 0 /\ ~(i <= n)
        BY <3>3
      <4> HIDE DEF e
      <4> QED
        BY <4>1, <4>2
    <3> QED
      BY <3>1, <3>2, <3>3
  <2>3. g = h
    BY <2>2
  <2>4. MatchesTo(g, b, n + 1)
    BY <2>3 DEF MatchesTo
  <2> QED
    BY <2>4
<1> HIDE DEF T
<1>3. Nat \subseteq T
  BY <1>1, <1>2, NatSetInduction
<1> QED
  BY <1>3 DEF T

\* s lists the matching ones of the n events after b, in the order of the chain.
Lists(s, b, n) ==
  /\ s \in Seq(Matching) /\ Len(s) <= n
  /\ \A k \in 1 .. Len(s) : b < s[k] /\ s[k] <= b + n
  /\ \A e \in Matching : b < e /\ e <= b + n => \E k \in 1 .. Len(s) : s[k] = e
  /\ \A j, k \in 1 .. Len(s) : j < k => s[j] < s[k]

\* Matches hands out exactly the matching events of the page, in their order.
LEMMA MatchesOfRun ==
  ASSUME NEW b \in Nat, NEW n \in Nat
  PROVE  Lists(Matches(Run(b, n)), b, n)
<1> DEFINE m == Matches(Run(b, n))
<1>1. Matching \subseteq Nat
  BY EventsAssumption
<1>2. Run(b, n) \in Seq(Nat) /\ Len(Run(b, n)) = n
  BY DEF Run
<1>3. PICK f : MatchesTo(f, b, n) /\ m = f[n]
  <2>1. m = (CHOOSE f : MatchesTo(f, b, n))[n]
    BY <1>2 DEF Matches, MatchesTo
  <2> QED
    BY <2>1, MatchesExists
<1> DEFINE T == {i \in Nat : i <= n => Lists(f[i], b, i)}
<1> HIDE DEF m
<1>4. 0 \in T
  <2>1. f[0] = <<>>
    BY <1>3 DEF MatchesTo
  <2>2. Lists(<<>>, b, 0)
    BY <1>1 DEF Lists
  <2> QED
    BY <2>1, <2>2
<1>5. ASSUME NEW i \in Nat, i \in T PROVE i + 1 \in T
  <2> SUFFICES ASSUME i + 1 <= n PROVE Lists(f[i + 1], b, i + 1)
    OBVIOUS
  <2> DEFINE s == f[i]
             e == b + (i + 1)
  <2>1. Lists(s, b, i)
    BY <1>5
  <2>2. f[i + 1] = IF e \in Matching THEN Append(s, e) ELSE s
    <3>1. Run(b, n)[i + 1] = e /\ i + 1 \in 0 .. n /\ i + 1 # 0 /\ (i + 1) - 1 = i
      BY DEF Run
    <3> QED
      BY <1>3, <3>1 DEF MatchesTo
  <2>3. e \in Nat /\ e > b + i /\ e <= b + (i + 1) /\ e > b
    OBVIOUS
  <2>4. \A x \in Nat : x <= b + (i + 1) => x <= b + i \/ x = e
    OBVIOUS
  <2> HIDE DEF s, e
  <2>5. \A k \in 1 .. Len(s) : s[k] \in Nat
    <3>1. \A k \in 1 .. Len(s) : s[k] \in Matching
      BY <2>1 DEF Lists
    <3> QED
      BY <1>1, <3>1
  <2>6. ASSUME e \in Matching PROVE Lists(Append(s, e), b, i + 1)
    <3> DEFINE a == Append(s, e)
    <3>1. /\ a \in Seq(Matching) /\ Len(a) = Len(s) + 1 /\ Len(s) \in Nat
          /\ \A k \in 1 .. Len(s) : a[k] = s[k]
          /\ a[Len(s) + 1] = e
      BY <2>1, <2>6 DEF Lists
    <3> HIDE DEF a
    <3>2. \A k \in 1 .. Len(a) : k \in 1 .. Len(s) \/ k = Len(s) + 1
      BY <3>1
    <3>3. ASSUME NEW k \in 1 .. Len(a)
          PROVE  b < a[k] /\ a[k] <= b + (i + 1)
      <4>1. CASE k \in 1 .. Len(s)
        <5>1. a[k] = s[k] /\ s[k] \in Nat /\ b < s[k] /\ s[k] <= b + i
          BY <2>1, <2>5, <3>1, <4>1 DEF Lists
        <5> QED
          BY <5>1
      <4>2. CASE k = Len(s) + 1
        BY <2>3, <3>1, <4>2
      <4> QED
        BY <3>2, <4>1, <4>2
    <3>4. ASSUME NEW x \in Matching, b < x, x <= b + (i + 1)
          PROVE  \E k \in 1 .. Len(a) : a[k] = x
      <4>1. x \in Nat /\ (x <= b + i \/ x = e)
        BY <1>1, <2>4, <3>4
      <4>2. CASE x = e
        BY <3>1, <4>2
      <4>3. CASE x <= b + i
        <5>1. PICK k \in 1 .. Len(s) : s[k] = x
          BY <2>1, <3>4, <4>3 DEF Lists
        <5> QED
          BY <3>1, <5>1
      <4> QED
        BY <4>1, <4>2, <4>3
    <3>5. ASSUME NEW j \in 1 .. Len(a), NEW k \in 1 .. Len(a), j < k
          PROVE  a[j] < a[k]
      <4>1. j \in 1 .. Len(s)
        BY <3>1, <3>5
      <4>2. CASE k \in 1 .. Len(s)
        BY <2>1, <2>5, <3>1, <3>5, <4>1, <4>2 DEF Lists
      <4>3. CASE k = Len(s) + 1
        BY <2>1, <2>3, <2>5, <3>1, <4>1, <4>3 DEF Lists
      <4> QED
        BY <3>2, <4>2, <4>3
    <3>6. Len(a) <= i + 1
      BY <2>1, <3>1 DEF Lists
    <3> QED
      BY <3>1, <3>3, <3>4, <3>5, <3>6 DEF a, Lists
  <2>7. ASSUME e \notin Matching PROVE Lists(s, b, i + 1)
    <3>1. Len(s) \in Nat /\ Len(s) <= i + 1
      BY <2>1 DEF Lists
    <3>3. \A k \in 1 .. Len(s) : b < s[k] /\ s[k] <= b + (i + 1)
      BY <2>1, <2>5 DEF Lists
    <3>4. \A x \in Matching : b < x /\ x <= b + (i + 1) => x <= b + i
      BY <1>1, <2>4, <2>7
    <3> QED
      BY <2>1, <3>1, <3>3, <3>4 DEF Lists
  <2> QED
    BY <2>2, <2>6, <2>7
<1> HIDE DEF T
<1>6. n \in T
  BY <1>4, <1>5, NatSetInduction
<1> QED
  BY <1>3, <1>6 DEF T, m

-----------------------------------------------------------------------------
(* The parts of the invariant that concern one listener.                   *)

\* What it has read and handed out.
Reads(l) ==
  /\ Reading(l)
  /\ cursor[l] # Undefined =>
       \A e \in Matching : startLedger[l] < e /\ e <= cursor[l] => e \in Delivered(l)
  /\ l \notin thrown => \A i, j \in 1 .. Len(delivered[l]) :
       i < j => delivered[l][i] < delivered[l][j]

\* What it does next.
Lives(l) ==
  /\ Lifecycle(l) /\ Stopped(l) /\ Attempts(l)
  /\ stoppedAt[l] # Undefined => Len(delivered[l]) <= stoppedAt[l] + PageSize

\* The invariant, sorted by listener.
LEMMA IInvParts ==
  IInv <=> /\ TypeOK /\ OutageEndsProcess
           /\ \A l \in Running : l = holder
           /\ \A l \in Listeners : Reads(l) /\ Lives(l)
  BY DEF IInv, NothingSkipped, OnceInOrder, AtMostOnePageAfterStop, Reads, Lives

\* Positions in the chain are integers.
LEMMA Positions ==
  ASSUME TypeOK, NEW l \in Listeners
  PROVE  startLedger[l] \in Int /\ cursor[l] \in Int /\ head \in Nat
  BY EventsAssumption DEF TypeOK, Undefined, Rejected

\* New events on the chain do not disturb what was read.
LEMMA ReadsStable ==
  ASSUME TypeOK, NEW l \in Listeners, Reads(l), head <= head', head' \in Nat,
         cursor'[l] = cursor[l], startLedger'[l] = startLedger[l], delivered'[l] = delivered[l],
         l \in thrown => l \in thrown'
  PROVE  Reads(l)'
<1>1. cursor[l] \in Int /\ startLedger[l] \in Int /\ head \in Nat
  BY Positions
<1>2. From(l)' = From(l) /\ Delivered(l)' = Delivered(l)
  BY DEF From, Delivered, ToSet
<1>3. Reading(l)'
  BY <1>1, <1>2 DEF Reads, Reading, Undefined
<1> QED
  BY <1>2, <1>3 DEF Reads, Undefined

\* The size of a page and where it ends.
LEMMA PageIsRun ==
  ASSUME TypeOK, NEW l \in Listeners, Reading(l), startLedger[l] >= 0
  PROVE  \E n \in 0 .. PageSize : From(l) \in Nat /\ From(l) + n <= head /\ Page(l) = Run(From(l), n)
<1>1. From(l) \in Nat /\ head \in Nat /\ From(l) <= head
  BY EventsAssumption DEF TypeOK, Undefined, Rejected, From, Reading
<1> DEFINE a == head - From(l)
           n == Min({a, PageSize})
<1>2. a \in Nat /\ PageSize \in Nat
  BY <1>1, EventsAssumption
<1>3. n \in {a, PageSize} /\ n <= a /\ n <= PageSize
  <2> HIDE DEF a
  <2>1. \E x \in {a, PageSize} : \A y \in {a, PageSize} : x <= y
    BY <1>2
  <2> QED
    BY <2>1 DEF Min
<1>4. Page(l) = Run(From(l), n)
  BY DEF Page, Run
<1>5. n \in 0 .. PageSize /\ From(l) + n <= head
  <2> HIDE DEF n
  <2> QED
    BY <1>1, <1>2, <1>3
<1> HIDE DEF n
<1> QED
  BY <1>1, <1>4, <1>5

\* d continues s by at most N elements of S.
Continues(d, s, N, S) ==
  /\ d \in Seq(S) /\ Len(s) <= Len(d) /\ Len(d) <= Len(s) + N
  /\ \A k \in 1 .. Len(s) : d[k] = s[k]

\* Appending the first elements of a sequence of at most N.
LEMMA AppendFirst ==
  ASSUME NEW S, NEW s \in Seq(S), NEW m \in Seq(S), NEW N \in Nat, Len(m) <= N,
         NEW i \in 0 .. Len(m)
  PROVE  Continues(s \o SubSeq(m, 1, i), s, N, S)
<1> DEFINE b == SubSeq(m, 1, i)
           d == s \o b
<1>1. b \in Seq(S) /\ Len(b) = i
  OBVIOUS
<1> HIDE DEF b
<1>2. d \in Seq(S) /\ Len(d) = Len(s) + Len(b) /\ \A k \in 1 .. Len(s) : d[k] = s[k]
  BY <1>1
<1> HIDE DEF d
<1>3. Continues(d, s, N, S)
  BY <1>1, <1>2 DEF Continues
<1> QED
  BY <1>3 DEF d, b

\* Handing out the first i matching events of the page.
LEMMA HandOut ==
  ASSUME TypeOK, NEW l \in Listeners, Reading(l), startLedger[l] >= 0,
         NEW i \in 0 .. Len(Matches(Page(l)))
  PROVE  Continues(delivered[l] \o SubSeq(Matches(Page(l)), 1, i), delivered[l], PageSize, Matching)
<1>1. PICK n \in 0 .. PageSize : From(l) \in Nat /\ From(l) + n <= head /\ Page(l) = Run(From(l), n)
  BY PageIsRun
<1> DEFINE m == Matches(Page(l))
<1>2. m \in Seq(Matching) /\ Len(m) <= PageSize /\ PageSize \in Nat
  <2>1. n \in Nat /\ n <= PageSize /\ PageSize \in Nat
    BY EventsAssumption
  <2>2. Lists(m, From(l), n)
    BY <1>1, <2>1, MatchesOfRun
  <2> HIDE DEF m
  <2> QED
    BY <2>1, <2>2 DEF Lists
<1>3. delivered[l] \in Seq(Matching)
  BY DEF TypeOK
<1> QED
  BY <1>2, <1>3, AppendFirst

\* A page that was handed out whole, with the cursor moved behind it.
LEMMA PageReads ==
  ASSUME TypeOK, NEW l \in Listeners, Reads(l), startLedger[l] >= 0,
         head' = head, startLedger'[l] = startLedger[l], thrown' = thrown,
         delivered'[l] = delivered[l] \o Matches(Page(l)),
         cursor'[l] \in NextCursor(l, Page(l))
  PROVE  /\ cursor'[l] \in {Undefined} \cup 0 .. MaxEvents
         /\ delivered'[l] \in Seq(Matching)
         /\ Len(delivered[l]) <= Len(delivered'[l])
         /\ Len(delivered'[l]) <= Len(delivered[l]) + PageSize
         /\ Reads(l)'
<1>1. PICK n \in 0 .. PageSize : From(l) \in Nat /\ From(l) + n <= head /\ Page(l) = Run(From(l), n)
  BY PageIsRun DEF Reads
<1> DEFINE b == From(l)
           m == Matches(Page(l))
           d == delivered[l]
<1>2. /\ m \in Seq(Matching) /\ Len(m) <= n
      /\ \A k \in 1 .. Len(m) : b < m[k] /\ m[k] <= b + n
      /\ \A e \in Matching : b < e /\ e <= b + n => \E k \in 1 .. Len(m) : m[k] = e
      /\ \A j, k \in 1 .. Len(m) : j < k => m[j] < m[k]
  <2>1. n \in Nat
    BY EventsAssumption
  <2>2. Lists(m, b, n)
    BY <1>1, <2>1, MatchesOfRun
  <2> QED
    BY <2>2 DEF Lists
<1>3. d \in Seq(Matching) /\ Matching \subseteq Nat /\ head \in Nat /\ PageSize \in Nat /\ head <= MaxEvents
  BY EventsAssumption DEF TypeOK
<1>4. cursor[l] \in Int /\ startLedger[l] \in Nat /\ startLedger[l] <= b /\ b <= head
  BY <1>1, EventsAssumption DEF TypeOK, Undefined, Rejected, From, Reads, Reading
<1>5. (cursor'[l] = b + n /\ n > 0) \/ (n = 0 /\ cursor'[l] \in {cursor[l], b})
  <2>1. CASE n = 0
    <3>1. Page(l) = <<>>
      BY <1>1, <2>1 DEF Run
    <3> QED
      BY <2>1, <3>1 DEF NextCursor
  <2>2. CASE n > 0
    <3>1. Page(l) # <<>> /\ Last(Page(l)) = From(l) + n
      BY <1>1, <2>2 DEF Run, Last
    <3> QED
      BY <2>2, <3>1 DEF NextCursor
  <2> QED
    BY <2>1, <2>2
<1>6. delivered'[l] = d \o m
  OBVIOUS
<1>7. n = 0 => m = <<>>
  BY <1>2
<1>8. From(l)' = IF cursor'[l] # Undefined THEN cursor'[l] ELSE startLedger'[l]
  BY DEF From
<1>9. From(l)' = b + n
  <2>1. CASE n > 0
    BY <1>1, <1>5, <1>8, <2>1 DEF Undefined
  <2>2. CASE n = 0
    <3>1. b + n = b /\ b # Undefined
      BY <1>1, <2>2 DEF Undefined
    <3>2. CASE cursor'[l] = b
      BY <1>8, <3>1, <3>2
    <3>3. CASE cursor'[l] = cursor[l]
      BY <1>8, <3>1, <3>3 DEF From
    <3> QED
      BY <1>5, <2>2, <3>2, <3>3
  <2> QED
    BY <1>1, <2>1, <2>2
<1>10. cursor'[l] = Undefined \/ cursor'[l] = b + n
  BY <1>8, <1>9
<1> DEFINE D == d \o m
<1>11. /\ D \in Seq(Matching) /\ Len(D) = Len(d) + Len(m) /\ Len(d) \in Nat /\ Len(m) \in Nat
       /\ \A k \in 1 .. Len(d) : D[k] = d[k]
       /\ \A k \in 1 .. Len(m) : D[Len(d) + k] = m[k]
  BY <1>2, <1>3
<1>12. \A k \in 1 .. Len(D) : k \in 1 .. Len(d) \/ (k - Len(d) \in 1 .. Len(m) /\ D[k] = m[k - Len(d)])
  <2> SUFFICES ASSUME NEW k \in 1 .. Len(D), k \notin 1 .. Len(d)
               PROVE  k - Len(d) \in 1 .. Len(m) /\ D[k] = m[k - Len(d)]
    OBVIOUS
  <2>1. k - Len(d) \in 1 .. Len(m) /\ Len(d) + (k - Len(d)) = k
    BY <1>11
  <2> HIDE DEF D
  <2> QED
    BY <1>11, <2>1
<1>13. \A k \in 1 .. Len(d) : d[k] \in Nat
  <2>1. \A k \in 1 .. Len(d) : d[k] \in Matching
    BY <1>3
  <2> QED
    BY <1>3, <2>1
<1>14. \A k \in 1 .. Len(m) : m[k] \in Nat
  <2>1. \A k \in 1 .. Len(m) : m[k] \in Matching
    BY <1>2
  <2> QED
    BY <1>3, <2>1
<1>15. delivered'[l] = D
  BY <1>6
<1> HIDE DEF D, m, d, b
<1>16. cursor'[l] \in {Undefined} \cup 0 .. MaxEvents
  BY <1>1, <1>3, <1>10, EventsAssumption DEF b
<1>17. Len(d) <= Len(D) /\ Len(D) <= Len(d) + PageSize
  BY <1>2, <1>3, <1>11
<1>18. l \notin thrown => \A k \in 1 .. Len(d) : d[k] <= b
  BY DEF Reads, Reading, d, b
<1>19. l \notin thrown => \A k \in 1 .. Len(D) : D[k] <= b + n
  <2> SUFFICES ASSUME l \notin thrown, NEW k \in 1 .. Len(D) PROVE D[k] <= b + n
    OBVIOUS
  <2>1. b \in Nat
    BY <1>1 DEF b
  <2>2. CASE k \in 1 .. Len(d)
    <3>1. D[k] = d[k] /\ d[k] \in Nat /\ d[k] <= b
      BY <1>11, <1>13, <1>18, <2>2
    <3> QED
      BY <2>1, <3>1
  <2>3. CASE k - Len(d) \in 1 .. Len(m) /\ D[k] = m[k - Len(d)]
    BY <1>2, <2>3
  <2> QED
    BY <1>12, <2>2, <2>3
<1>20. l \notin thrown => \A i, j \in 1 .. Len(D) : i < j => D[i] < D[j]
  <2> SUFFICES ASSUME l \notin thrown, NEW i \in 1 .. Len(D), NEW j \in 1 .. Len(D), i < j
               PROVE  D[i] < D[j]
    OBVIOUS
  <2>1. b \in Nat
    BY <1>1 DEF b
  <2>2. CASE j \in 1 .. Len(d)
    <3>1. i \in 1 .. Len(d)
      BY <1>11, <2>2
    <3> QED
      BY <1>11, <2>2, <3>1 DEF Reads, d
  <2>3. CASE j - Len(d) \in 1 .. Len(m) /\ D[j] = m[j - Len(d)]
    <3> DEFINE J == j - Len(d)
    <3>1. J \in 1 .. Len(m) /\ D[j] = m[J] /\ m[J] \in Nat /\ b < m[J]
      BY <1>2, <1>14, <2>3
    <3>2. CASE i \in 1 .. Len(d)
      <4>1. D[i] = d[i] /\ d[i] \in Nat /\ d[i] <= b
        BY <1>11, <1>13, <1>18, <3>2
      <4> HIDE DEF J
      <4> QED
        BY <2>1, <3>1, <4>1
    <3>3. CASE i - Len(d) \in 1 .. Len(m) /\ D[i] = m[i - Len(d)]
      <4>1. i - Len(d) < J
        BY <1>11, <3>1
      <4> QED
        BY <1>2, <3>1, <3>3, <4>1
    <3> QED
      BY <1>12, <3>2, <3>3
  <2> QED
    BY <1>12, <2>2, <2>3
<1>21. ASSUME cursor'[l] # Undefined, NEW e \in Matching, startLedger[l] < e, e <= cursor'[l]
       PROVE  \E k \in 1 .. Len(D) : D[k] = e
  <2>1. e \in Nat /\ b \in Nat /\ e <= b + n
    BY <1>1, <1>3, <1>10, <1>21 DEF b
  <2>2. CASE e <= b
    <3>1. cursor[l] # Undefined /\ b = cursor[l]
      BY <1>4, <1>21, <2>1, <2>2 DEF b, From
    <3>2. e \in Delivered(l)
      BY <1>21, <2>2, <3>1 DEF Reads
    <3>3. PICK k \in DOMAIN d : d[k] = e
      BY <3>2 DEF Delivered, ToSet, d
    <3>4. k \in 1 .. Len(d)
      BY <1>3
    <3> QED
      BY <1>11, <3>3, <3>4
  <2>3. CASE b < e
    <3>1. PICK k \in 1 .. Len(m) : m[k] = e
      BY <1>2, <2>1, <2>3
    <3> QED
      BY <1>11, <3>1
  <2> QED
    BY <2>1, <2>2, <2>3
<1>22. DOMAIN D = 1 .. Len(D)
  BY <1>11
<1>23. cursor'[l] # Undefined =>
         \A e \in Matching : startLedger'[l] < e /\ e <= cursor'[l] => e \in Delivered(l)'
  BY <1>15, <1>21, <1>22 DEF Delivered, ToSet
<1>24. Reading(l)'
  <2>1. ~(startLedger'[l] < 0) /\ startLedger'[l] <= head' /\ cursor'[l] <= head'
    BY <1>1, <1>3, <1>4, <1>10 DEF b, Undefined
  <2>2. cursor'[l] # Undefined => startLedger'[l] <= cursor'[l]
    BY <1>1, <1>4, <1>10 DEF b
  <2>3. l \notin thrown' => \A i \in 1 .. Len(D) : D[i] <= From(l)'
    BY <1>9, <1>19 DEF b
  <2> QED
    BY <1>15, <2>1, <2>2, <2>3 DEF Reading
<1>25. Reads(l)'
  BY <1>15, <1>20, <1>23, <1>24 DEF Reads
<1> QED
  BY <1>11, <1>15, <1>16, <1>17, <1>25 DEF d

\* onEvent throws: what it was given before is delivered, the cursor stays.
LEMMA ThrowReads ==
  ASSUME TypeOK, NEW l \in Listeners, Reads(l), startLedger[l] >= 0,
         head' = head, startLedger'[l] = startLedger[l], cursor'[l] = cursor[l], l \in thrown',
         Continues(delivered'[l], delivered[l], PageSize, Matching)
  PROVE  Reads(l)'
<1>1. DOMAIN delivered[l] = 1 .. Len(delivered[l]) /\ DOMAIN delivered'[l] = 1 .. Len(delivered'[l])
      /\ Len(delivered[l]) \in Nat /\ Len(delivered'[l]) \in Nat
  BY DEF TypeOK, Continues
<1>2. Delivered(l) \subseteq Delivered(l)'
  <2> SUFFICES ASSUME NEW k \in 1 .. Len(delivered[l])
               PROVE  delivered[l][k] \in Delivered(l)'
    BY <1>1 DEF Delivered, ToSet
  <2>1. k \in 1 .. Len(delivered'[l]) /\ delivered'[l][k] = delivered[l][k]
    BY <1>1 DEF Continues
  <2> QED
    BY <1>1, <2>1 DEF Delivered, ToSet
<1>3. ~(startLedger[l] < 0)
  <2>1. startLedger[l] \in Int
    BY Positions
  <2> QED
    BY <2>1
<1>4. Reading(l)'
  BY <1>3 DEF Reads, Reading
<1> QED
  BY <1>2, <1>4 DEF Reads

\* A listener that has no start ledger has read nothing yet.
LEMMA StartReads ==
  ASSUME TypeOK, NEW l \in Listeners, Reads(l), startLedger[l] < 0,
         head' = head, cursor'[l] = cursor[l], delivered'[l] = delivered[l],
         startLedger'[l] \in {Undefined, Rejected} \cup 0 .. head
  PROVE  Reads(l)'
<1>1. cursor[l] = Undefined /\ delivered[l] = <<>> /\ head \in Nat
  BY EventsAssumption DEF TypeOK, Reads, Reading
<1>2. Len(delivered'[l]) = 0
  BY <1>1
<1>3. startLedger'[l] <= head' /\ cursor'[l] <= head' /\ cursor'[l] = Undefined /\ delivered'[l] = <<>>
  BY <1>1 DEF Undefined, Rejected
<1>4. Reading(l)'
  BY <1>2, <1>3 DEF Reading
<1> QED
  BY <1>2, <1>3, <1>4 DEF Reads

-----------------------------------------------------------------------------
(* The control of a listener.                                              *)

\* The types of what decides the next step of a listener.
ControlTypes ==
  /\ reconnectAttempts \in [Listeners -> 0 .. maxReconnectAttempts]
  /\ isStopped \in [Listeners -> BOOLEAN]
  /\ pc \in [Listeners -> {"new", "starting", "broken", "fetching", "waiting", "idle"}]
  /\ holder \in Listeners \cup {NoListener}
  /\ crashed \in BOOLEAN
  /\ stoppedAt \in [Listeners -> {Undefined} \cup Nat]
  /\ outage \in [Listeners -> Nat]

\* The types of the chain and of what was read from it.
ReadTypes ==
  /\ head \in 0 .. MaxEvents
  /\ cursor \in [Listeners -> {Undefined} \cup 0 .. MaxEvents]
  /\ startLedger \in [Listeners -> {Undefined, Rejected} \cup 0 .. MaxEvents]
  /\ delivered \in [Listeners -> Seq(Matching)]
  /\ thrown \subseteq Listeners

\* The control part of the invariant.
ControlInv ==
  /\ ControlTypes /\ OutageEndsProcess
  /\ \A l \in Running : l = holder
  /\ \A l \in Listeners : Lives(l)

\* The reading part of the invariant.
ReadInv == ReadTypes /\ \A l \in Listeners : Reads(l)

\* The two parts are the invariant.
LEMMA IInvSplit == IInv <=> ControlInv /\ ReadInv
  BY IInvParts DEF TypeOK, ControlTypes, ReadTypes, ControlInv, ReadInv

\* The same after a step.
LEMMA IInvSplitNext == ControlInv' /\ ReadInv' => IInv'
  BY IInvSplit, PTL

\* The control of a listener that a step leaves alone.
LEMMA LivesStable ==
  ASSUME NEW l \in Listeners, Lives(l),
         pc'[l] = pc[l], startLedger'[l] = startLedger[l], isStopped'[l] = isStopped[l],
         stoppedAt'[l] = stoppedAt[l], delivered'[l] = delivered[l],
         reconnectAttempts'[l] = reconnectAttempts[l], outage'[l] = outage[l],
         holder' # l \/ holder' = holder, crashed => crashed'
  PROVE  Lives(l)'
  BY DEF Lives, Lifecycle, Stopped, Attempts

\* The catch block counts one more failed poll; at the maximum it stops the
\* listener and ends the process, otherwise it waits unless it was stopped.
LEMMA CatchControl ==
  ASSUME IInv, ~crashed, NEW l \in Listeners, NEW a \in Nat,
         a = 1 \/ a = reconnectAttempts[l] + 1,
         pc[l] \in {"starting", "broken", "fetching"}, Catch(l, a),
         startLedger' \in [Listeners -> {Undefined, Rejected} \cup 0 .. MaxEvents],
         delivered' \in [Listeners -> Seq(Matching)],
         Continues(delivered'[l], delivered[l], PageSize, Matching),
         \A u \in Listeners \ {l} : startLedger'[u] = startLedger[u] /\ delivered'[u] = delivered[u]
  PROVE  ControlInv'
<1>1. ControlInv /\ ReadInv
  BY IInvSplit
<1>2. a \in 1 .. maxReconnectAttempts /\ a <= outage[l] + 1 /\ outage[l] + 1 \in Nat
  BY <1>1, EventsAssumption DEF ControlInv, ControlTypes, Lives, Attempts
<1>3. Len(delivered[l]) \in Nat /\ Len(delivered'[l]) \in Nat /\ PageSize \in Nat
  BY <1>1, EventsAssumption DEF ReadInv, ReadTypes
<1>4. ControlTypes'
  <2> DEFINE pcs == {"new", "starting", "broken", "fetching", "waiting", "idle"}
  <2>1. reconnectAttempts' \in [Listeners -> 0 .. maxReconnectAttempts]
    BY <1>1, <1>2, EventsAssumption DEF Catch, ControlInv, ControlTypes
  <2>2. outage' \in [Listeners -> Nat]
    BY <1>1 DEF Catch, ControlInv, ControlTypes
  <2>3. isStopped' \in [Listeners -> BOOLEAN] /\ crashed' \in BOOLEAN
    BY <1>1 DEF Catch, ControlInv, ControlTypes
  <2>4. pc' \in [Listeners -> pcs]
    BY <1>1 DEF Catch, Rescheduled, ControlInv, ControlTypes
  <2>5. stoppedAt' \in [Listeners -> {Undefined} \cup Nat]
    BY <1>1, <1>3 DEF Catch, ControlInv, ControlTypes
  <2>6. holder' \in Listeners \cup {NoListener}
    BY <1>1 DEF Catch, ControlInv, ControlTypes
  <2> QED
    BY <2>1, <2>2, <2>3, <2>4, <2>5, <2>6 DEF ControlTypes
<1>5. /\ reconnectAttempts'[l] = a /\ outage'[l] = outage[l] + 1
      /\ holder' = holder /\ head' = head
      /\ pc'[l] \in {"idle", "waiting"}
      /\ \A u \in Listeners \ {l} :
           /\ reconnectAttempts'[u] = reconnectAttempts[u] /\ outage'[u] = outage[u]
           /\ pc'[u] = pc[u] /\ isStopped'[u] = isStopped[u] /\ stoppedAt'[u] = stoppedAt[u]
  BY <1>1 DEF Catch, Rescheduled, ControlInv, ControlTypes, chain
<1>6. CASE GivesUp(a)
  <2>1. /\ isStopped'[l] = TRUE /\ pc'[l] = "idle" /\ crashed' = TRUE
        /\ stoppedAt'[l] = IF isStopped[l] THEN stoppedAt[l] ELSE Len(delivered'[l])
    BY <1>1, <1>6 DEF Catch, ControlInv, ControlTypes
  <2>2. OutageEndsProcess'
    BY <1>2, <1>5, <1>6, <2>1, EventsAssumption DEF OutageEndsProcess, GivesUp
  <2>3. Lives(l)'
    <3>1. stoppedAt'[l] # Undefined /\ Len(delivered'[l]) <= stoppedAt'[l] + PageSize
      <4>1. CASE isStopped[l]
        BY <1>1, <1>3, <2>1, <4>1 DEF ControlInv, ControlTypes, Lives, Stopped, Undefined, Continues
      <4>2. CASE ~isStopped[l]
        BY <1>3, <2>1, <4>2 DEF Undefined
      <4> QED
        BY <4>1, <4>2
    <3> QED
      BY <1>2, <1>5, <2>1, <3>1 DEF Lives, Lifecycle, Stopped, Attempts
  <2>4. \A u \in Listeners \ {l} : Lives(u)'
    BY <1>1, <1>5, <2>1, LivesStable DEF ControlInv
  <2>5. \A u \in Running' : u = holder'
    BY <1>1, <1>5, <2>1 DEF ControlInv, Running
  <2> QED
    BY <1>4, <2>2, <2>3, <2>4, <2>5 DEF ControlInv
<1>7. CASE ~GivesUp(a)
  <2>1. /\ pc'[l] = (IF isStopped[l] THEN "idle" ELSE "waiting")
        /\ isStopped' = isStopped /\ stoppedAt' = stoppedAt /\ crashed' = crashed
    BY <1>1, <1>7 DEF Catch, Rescheduled, ControlInv, ControlTypes
  <2>2. OutageEndsProcess'
    BY <2>1 DEF OutageEndsProcess
  <2>3. Lives(l)'
    <3>1. stoppedAt'[l] # Undefined => isStopped[l] /\ Len(delivered'[l]) <= stoppedAt'[l] + PageSize
      BY <1>1, <1>3, <2>1 DEF ControlInv, ControlTypes, Lives, Stopped, Continues
    <3>2. a < maxReconnectAttempts
      BY <1>2, <1>7, EventsAssumption DEF GivesUp
    <3> QED
      BY <1>1, <1>2, <1>5, <2>1, <3>1, <3>2 DEF ControlInv, Lives, Lifecycle, Stopped, Attempts
  <2>4. \A u \in Listeners \ {l} : Lives(u)'
    BY <1>1, <1>5, <2>1, LivesStable DEF ControlInv
  <2>5. \A u \in Running' : u = holder'
    BY <1>1, <1>5, <2>1 DEF ControlInv, Running
  <2> QED
    BY <1>4, <2>2, <2>3, <2>4, <2>5 DEF ControlInv
<1> QED
  BY <1>6, <1>7

-----------------------------------------------------------------------------
(* One lemma per action.                                                   *)

\* The start.
LEMMA InitIInv == Init => IInv
<1> SUFFICES ASSUME Init PROVE IInv
  OBVIOUS
<1>1. ReadTypes
  BY EventsAssumption DEF Init, ReadTypes
<1>2. ControlTypes
  <2>1. 0 \in 0 .. maxReconnectAttempts
    BY EventsAssumption
  <2> QED
    BY <2>1 DEF Init, ControlTypes
<1>3. ASSUME NEW l \in Listeners PROVE Reads(l) /\ Lives(l)
  <2>1. /\ cursor[l] = Undefined /\ startLedger[l] = Undefined /\ delivered[l] = <<>> /\ pc[l] = "new"
        /\ stoppedAt[l] = Undefined /\ reconnectAttempts[l] = 0 /\ outage[l] = 0
        /\ isStopped[l] = FALSE /\ holder = NoListener /\ head = 0 /\ Len(delivered[l]) = 0
    BY DEF Init
  <2>2. holder # l
    BY <2>1, EventsAssumption DEF NoListener
  <2>3. Reads(l)
    BY <2>1 DEF Reads, Reading, Undefined
  <2>4. Lives(l)
    BY <2>1, <2>2, EventsAssumption DEF Lives, Lifecycle, Stopped, Attempts
  <2> QED
    BY <2>3, <2>4
<1>4. OutageEndsProcess /\ Running = {}
  BY DEF Init, OutageEndsProcess, Running
<1> QED
  BY <1>1, <1>2, <1>3, <1>4, IInvSplit DEF ReadInv, ControlInv

\* A step of the agent or a timer leaves the reading part alone.
LEMMA ReadUnchanged ==
  ASSUME ReadInv, TypeOK, head <= head', head' \in 0 .. MaxEvents,
         UNCHANGED <<cursor, startLedger, delivered, thrown>>
  PROVE  ReadInv'
<1>1. ReadTypes'
  BY DEF ReadInv, ReadTypes
<1>2. head' \in Nat
  BY EventsAssumption
<1>3. \A l \in Listeners : Reads(l)'
  BY <1>2, ReadsStable DEF ReadInv
<1> QED
  BY <1>1, <1>3 DEF ReadInv

\* The contract emits an event.
LEMMA EmitIInv == ASSUME IInv, Emit PROVE IInv'
<1>1. ControlInv /\ ReadInv /\ TypeOK
  BY IInvSplit DEF IInv, NothingSkipped
<1>2. head' \in 0 .. MaxEvents /\ head <= head'
  BY <1>1, EventsAssumption DEF Emit, TypeOK
<1>3. ReadInv'
  BY <1>1, <1>2, ReadUnchanged DEF Emit, listener, history
<1>4. ControlInv'
  <2>1. ControlTypes' /\ OutageEndsProcess' /\ Running' = Running /\ holder' = holder
    BY <1>1 DEF Emit, listener, history, ControlInv, ControlTypes, OutageEndsProcess, Running
  <2>2. \A l \in Listeners : Lives(l)'
    BY <1>1, LivesStable DEF Emit, listener, history, ControlInv
  <2> QED
    BY <1>1, <2>1, <2>2 DEF ControlInv
<1> QED
  BY <1>3, <1>4, IInvSplitNext

\* stop() of the listener the agent holds, and its effect on every listener.
LEMMA SilenceEffect ==
  ASSUME IInv, Silence({holder}), NEW l \in Listeners, UNCHANGED delivered
  PROVE  /\ l # holder => isStopped'[l] = isStopped[l] /\ stoppedAt'[l] = stoppedAt[l]
                          /\ Cleared({holder})[l] = pc[l]
         /\ l = holder => /\ isStopped'[l] = TRUE
                          /\ stoppedAt'[l] = IF isStopped[l] THEN stoppedAt[l] ELSE Len(delivered[l])
                          /\ Cleared({holder})[l] = IF pc[l] = "waiting" THEN "idle" ELSE pc[l]
  BY DEF Silence, Cleared, IInv, NothingSkipped, TypeOK

\* A listener that was just stopped.
LEMMA SilencedLives ==
  ASSUME IInv, NEW l \in Listeners, pc[l] # "new",
         pc'[l] = IF pc[l] = "waiting" THEN "idle" ELSE pc[l],
         startLedger'[l] = startLedger[l], delivered'[l] = delivered[l], isStopped'[l] = TRUE,
         stoppedAt'[l] = IF isStopped[l] THEN stoppedAt[l] ELSE Len(delivered[l]),
         reconnectAttempts'[l] = reconnectAttempts[l], outage'[l] = outage[l],
         crashed' = crashed
  PROVE  Lives(l)'
<1>1. Lives(l) /\ pc[l] \in {"new", "starting", "broken", "fetching", "waiting", "idle"}
      /\ Len(delivered[l]) \in Nat /\ PageSize \in Nat /\ stoppedAt[l] \in {Undefined} \cup Nat
  BY IInvParts, EventsAssumption DEF TypeOK
<1>2. Lifecycle(l)' /\ Attempts(l)'
  BY <1>1 DEF Lives, Lifecycle, Attempts
<1>3. Stopped(l)'
  BY <1>1 DEF Lives, Stopped, Undefined
<1>4. Len(delivered'[l]) <= stoppedAt'[l] + PageSize
  BY <1>1 DEF Lives, Stopped
<1> QED
  BY <1>2, <1>3, <1>4 DEF Lives

\* Silence keeps the types.
LEMMA SilenceTypes ==
  ASSUME IInv, NEW S, Silence(S), UNCHANGED delivered
  PROVE  /\ isStopped' \in [Listeners -> BOOLEAN]
         /\ stoppedAt' \in [Listeners -> {Undefined} \cup Nat]
<1>1. \A l \in Listeners : /\ isStopped[l] \in BOOLEAN /\ stoppedAt[l] \in {Undefined} \cup Nat
                           /\ Len(delivered[l]) \in Nat
  BY DEF IInv, NothingSkipped, TypeOK
<1>2. \A l \in Listeners : (isStopped[l] \/ l \in S) \in BOOLEAN
  BY <1>1
<1>3. isStopped' \in [Listeners -> BOOLEAN]
  BY <1>2 DEF Silence
<1>4. stoppedAt' \in [Listeners -> {Undefined} \cup Nat]
  BY <1>1 DEF Silence
<1> QED
  BY <1>3, <1>4

\* stopContractListener
LEMMA StopIInv == ASSUME IInv, stopContractListener PROVE IInv'
<1>1. ControlInv /\ ReadInv /\ TypeOK
  BY IInvSplit DEF IInv, NothingSkipped
<1>2. /\ holder \in Listeners /\ holder' = NoListener /\ Silence({holder}) /\ pc' = Cleared({holder})
      /\ UNCHANGED <<head, cursor, startLedger, reconnectAttempts, crashed, delivered, thrown, outage>>
  BY <1>1 DEF stopContractListener, TypeOK, chain
<1>3. ReadInv'
  BY <1>1, <1>2, ReadUnchanged DEF TypeOK
<1>4. ControlTypes'
  <2>1. pc' \in [Listeners -> {"new", "starting", "broken", "fetching", "waiting", "idle"}]
    BY <1>1, <1>2 DEF Cleared, TypeOK
  <2> QED
    BY <1>1, <1>2, <2>1, SilenceTypes DEF ControlTypes, ControlInv
<1>5. ASSUME NEW l \in Listeners PROVE Lives(l)'
  <2>1. Lives(l) /\ holder' # l
    BY <1>1, <1>2, EventsAssumption DEF ControlInv, NoListener
  <2>2. CASE l = holder
    <3>1. pc[l] # "new"
      BY <2>1, <2>2 DEF Lives, Lifecycle
    <3> QED
      BY <1>2, <2>2, <3>1, SilenceEffect, SilencedLives
  <2>3. CASE l # holder
    BY <1>2, <2>1, <2>3, SilenceEffect, LivesStable
  <2> QED
    BY <2>2, <2>3
<1>6. OutageEndsProcess'
  <2>1. \A l \in Listeners : isStopped[l] => isStopped'[l]
    BY <1>2, SilenceEffect
  <2> QED
    BY <1>1, <1>2, <2>1 DEF ControlInv, OutageEndsProcess
<1>7. Running' = {}
  <2> SUFFICES ASSUME NEW l \in Listeners, pc'[l] # "new", ~isStopped'[l] PROVE FALSE
    BY DEF Running
  <2>1. l # holder /\ pc[l] # "new" /\ ~isStopped[l]
    BY <1>2, SilenceEffect
  <2> QED
    BY <1>1, <2>1 DEF ControlInv, Running
<1> QED
  BY <1>3, <1>4, <1>5, <1>6, <1>7, IInvSplitNext DEF ControlInv

\* startContractListener: the new listener has not read anything, and the one
\* it replaces is stopped.
LEMMA StartIInv ==
  ASSUME IInv, NEW u \in Listeners, startContractListener(u)
  PROVE  IInv'
<1>1. ControlInv /\ ReadInv /\ TypeOK
  BY IInvSplit DEF IInv, NothingSkipped
<1>2. /\ pc[u] = "new" /\ holder' = u /\ Silence({holder})
      /\ pc' = [Cleared({holder}) EXCEPT ![u] = FirstStep(u)]
      /\ UNCHANGED <<head, cursor, startLedger, reconnectAttempts, crashed, delivered, thrown, outage>>
  BY DEF startContractListener, chain
<1>3. ReadInv'
  BY <1>1, <1>2, ReadUnchanged DEF TypeOK
<1>4. Lives(u) /\ Reads(u) /\ startLedger[u] = Undefined /\ cursor[u] = Undefined /\ holder # u
      /\ ~isStopped[u]
  <2>1. Lives(u) /\ Reads(u)
    BY <1>1 DEF ControlInv, ReadInv
  <2>2. startLedger[u] = Undefined /\ ~isStopped[u] /\ holder # u
    BY <1>2, <2>1 DEF Lives, Lifecycle
  <2> QED
    BY <2>1, <2>2 DEF Reads, Reading, Undefined
<1>5. FirstStep(u) = "starting"
  BY <1>4 DEF FirstStep, Undefined
<1>6. /\ Cleared({holder}) \in [Listeners -> {"new", "starting", "broken", "fetching", "waiting", "idle"}]
      /\ pc' \in [Listeners -> {"new", "starting", "broken", "fetching", "waiting", "idle"}]
      /\ pc'[u] = "starting" /\ \A l \in Listeners \ {u} : pc'[l] = Cleared({holder})[l]
  BY <1>1, <1>2, <1>5 DEF Cleared, TypeOK
<1>7. ControlTypes'
  BY <1>1, <1>2, <1>6, SilenceTypes DEF ControlTypes, ControlInv
<1>8. ASSUME NEW l \in Listeners PROVE Lives(l)'
  <2>1. Lives(l)
    BY <1>1 DEF ControlInv
  <2>2. CASE l = u
    <3>1. /\ pc'[l] = "starting" /\ isStopped'[l] = isStopped[l] /\ stoppedAt'[l] = stoppedAt[l]
          /\ startLedger'[l] = startLedger[l] /\ delivered'[l] = delivered[l]
          /\ reconnectAttempts'[l] = reconnectAttempts[l] /\ outage'[l] = outage[l]
          /\ crashed' = crashed
      BY <1>2, <1>4, <1>6, <2>2, SilenceEffect
    <3> QED
      BY <1>4, <2>1, <2>2, <3>1 DEF Lives, Lifecycle, Stopped, Attempts
  <2>3. CASE l = holder /\ l # u
    <3>1. pc[l] # "new"
      BY <2>1, <2>3 DEF Lives, Lifecycle
    <3>2. pc'[l] = IF pc[l] = "waiting" THEN "idle" ELSE pc[l]
      BY <1>2, <1>6, <2>3, SilenceEffect
    <3> QED
      BY <1>2, <2>3, <3>1, <3>2, SilenceEffect, SilencedLives
  <2>4. CASE l # holder /\ l # u
    <3>1. pc'[l] = pc[l]
      BY <1>2, <1>6, <2>4, SilenceEffect
    <3> QED
      BY <1>2, <2>1, <2>4, <3>1, SilenceEffect, LivesStable
  <2> QED
    BY <2>2, <2>3, <2>4
<1>9. OutageEndsProcess'
  <2>1. \A l \in Listeners : isStopped[l] => isStopped'[l]
    BY <1>2, SilenceEffect
  <2> QED
    BY <1>1, <1>2, <2>1 DEF ControlInv, OutageEndsProcess
<1>10. \A l \in Running' : l = holder'
  <2> SUFFICES ASSUME NEW l \in Listeners, pc'[l] # "new", ~isStopped'[l], l # u PROVE FALSE
    BY <1>2 DEF Running
  <2>1. l # holder /\ pc[l] # "new" /\ ~isStopped[l]
    BY <1>2, <1>6, SilenceEffect
  <2> QED
    BY <1>1, <2>1 DEF ControlInv, Running
<1> QED
  BY <1>3, <1>7, <1>8, <1>9, <1>10, IInvSplitNext DEF ControlInv

\* The timer fires.
LEMMA PollIInv ==
  ASSUME IInv, NEW l \in Listeners, poll(l)
  PROVE  IInv'
<1>1. ControlInv /\ ReadInv /\ TypeOK
  BY IInvSplit DEF IInv, NothingSkipped
<1>2. /\ pc[l] = "waiting" /\ pc' = [pc EXCEPT ![l] = IF isStopped[l] THEN "idle" ELSE FirstStep(l)]
      /\ UNCHANGED <<head, cursor, startLedger, reconnectAttempts, isStopped, holder, crashed,
                     delivered, stoppedAt, thrown, outage>>
  BY DEF poll, chain, history
<1>3. ReadInv'
  BY <1>1, <1>2, ReadUnchanged DEF TypeOK
<1>4. FirstStep(l) \in {"fetching", "starting", "broken"}
  BY DEF FirstStep
<1>5. Lives(l) /\ ~isStopped[l] /\ startLedger[l] \in Int
  BY <1>1, <1>2, Positions DEF ControlInv, Lives, Stopped
<1>6. /\ pc' \in [Listeners -> {"new", "starting", "broken", "fetching", "waiting", "idle"}]
      /\ pc'[l] = FirstStep(l) /\ \A u \in Listeners \ {l} : pc'[u] = pc[u]
  BY <1>1, <1>2, <1>4, <1>5 DEF TypeOK
<1>7. ControlTypes'
  BY <1>1, <1>2, <1>6 DEF ControlTypes, ControlInv
<1>8. Lives(l)'
  <2>1. pc'[l] = "starting" => startLedger[l] = Undefined
    BY <1>6 DEF FirstStep
  <2>2. pc'[l] = "fetching" => startLedger[l] >= 0
    <3>1. cursor[l] # Undefined => startLedger[l] >= 0
      BY <1>1, <1>5 DEF ReadInv, Reads, Reading
    <3> QED
      BY <1>6, <3>1 DEF FirstStep
  <2>3. Lifecycle(l)'
    BY <1>2, <1>4, <1>6, <2>1, <2>2 DEF Lifecycle
  <2>4. Stopped(l)' /\ Attempts(l)'
    BY <1>2, <1>5 DEF Lives, Stopped, Attempts
  <2> QED
    BY <1>2, <1>5, <2>3, <2>4 DEF Lives
<1>9. \A u \in Listeners \ {l} : Lives(u)'
  BY <1>1, <1>2, <1>6, LivesStable DEF ControlInv
<1>10. OutageEndsProcess' /\ \A u \in Running' : u = holder'
  BY <1>1, <1>2, <1>6 DEF ControlInv, OutageEndsProcess, Running
<1> QED
  BY <1>3, <1>7, <1>8, <1>9, <1>10, IInvSplitNext DEF ControlInv

\* getLatestLedger() answers.
LEMMA LatestLedgerIInv ==
  ASSUME IInv, NEW l \in Listeners, LatestLedger(l)
  PROVE  IInv'
<1>1. ControlInv /\ ReadInv /\ TypeOK
  BY IInvSplit DEF IInv, NothingSkipped
<1>2. PICK s \in 0 .. head : startLedger' = [startLedger EXCEPT ![l] = s]
  BY DEF LatestLedger
<1>3. /\ pc[l] = "starting" /\ pc' = [pc EXCEPT ![l] = "fetching"]
      /\ UNCHANGED <<head, cursor, reconnectAttempts, isStopped, holder, crashed,
                     delivered, stoppedAt, thrown, outage>>
  BY DEF LatestLedger, chain, history
<1>4. s \in 0 .. MaxEvents /\ s >= 0 /\ head \in Nat
  BY <1>1, EventsAssumption DEF TypeOK
<1>5. /\ startLedger' \in [Listeners -> {Undefined, Rejected} \cup 0 .. MaxEvents]
      /\ startLedger'[l] = s /\ \A u \in Listeners \ {l} : startLedger'[u] = startLedger[u]
  BY <1>1, <1>2, <1>4 DEF TypeOK
<1>6. /\ pc' \in [Listeners -> {"new", "starting", "broken", "fetching", "waiting", "idle"}]
      /\ pc'[l] = "fetching" /\ \A u \in Listeners \ {l} : pc'[u] = pc[u]
  BY <1>1, <1>3 DEF TypeOK
<1>7. Lives(l) /\ Reads(l) /\ startLedger[l] < 0
  BY <1>1, <1>3 DEF ControlInv, ReadInv, Lives, Lifecycle, Undefined
<1>8. ReadInv'
  <2>1. ReadTypes'
    BY <1>1, <1>3, <1>5 DEF ReadInv, ReadTypes
  <2>2. Reads(l)'
    BY <1>1, <1>3, <1>5, <1>7, StartReads
  <2>3. \A u \in Listeners \ {l} : Reads(u)'
    BY <1>1, <1>3, <1>4, <1>5, ReadsStable DEF ReadInv
  <2> QED
    BY <2>1, <2>2, <2>3 DEF ReadInv
<1>9. ControlTypes'
  BY <1>1, <1>3, <1>6 DEF ControlTypes, ControlInv
<1>10. Lives(l)'
  BY <1>3, <1>4, <1>5, <1>6, <1>7 DEF Lives, Lifecycle, Stopped, Attempts
<1>11. \A u \in Listeners \ {l} : Lives(u)'
  BY <1>1, <1>3, <1>5, <1>6, LivesStable DEF ControlInv
<1>12. OutageEndsProcess' /\ \A u \in Running' : u = holder'
  BY <1>1, <1>3, <1>6 DEF ControlInv, OutageEndsProcess, Running
<1> QED
  BY <1>8, <1>9, <1>10, <1>11, <1>12, IInvSplitNext DEF ControlInv

\* A sequence continues itself.
LEMMA NothingHandedOut ==
  ASSUME TypeOK, NEW l \in Listeners
  PROVE  Continues(delivered[l], delivered[l], PageSize, Matching)
<1>1. delivered[l] \in Seq(Matching) /\ PageSize \in Nat
  BY EventsAssumption DEF TypeOK
<1> QED
  BY <1>1 DEF Continues

\* A poll that fails before anything was handed out.
LEMMA FailedPollIInv ==
  ASSUME IInv, ~crashed, NEW l \in Listeners,
         LatestLedgerFails(l) \/ StartRejectedAgain(l) \/ GetEventsFails(l)
  PROVE  IInv'
<1>1. ControlInv /\ ReadInv /\ TypeOK
  BY IInvSplit DEF IInv, NothingSkipped
<1>2. /\ pc[l] \in {"starting", "broken", "fetching"} /\ Catch(l, reconnectAttempts[l] + 1)
      /\ UNCHANGED <<cursor, delivered, thrown>>
      /\ \/ startLedger' = startLedger
         \/ pc[l] = "starting" /\ startLedger' = [startLedger EXCEPT ![l] = Rejected]
  BY DEF LatestLedgerFails, StartRejectedAgain, GetEventsFails
<1>3. head' = head /\ reconnectAttempts[l] + 1 \in Nat /\ head \in Nat /\ Reads(l) /\ Lives(l)
  BY <1>1, <1>2, EventsAssumption DEF Catch, chain, TypeOK, ReadInv, ControlInv
<1>4. /\ startLedger' \in [Listeners -> {Undefined, Rejected} \cup 0 .. MaxEvents]
      /\ \A u \in Listeners \ {l} : startLedger'[u] = startLedger[u]
      /\ startLedger'[l] = startLedger[l] \/ (pc[l] = "starting" /\ startLedger'[l] = Rejected)
  BY <1>1, <1>2 DEF TypeOK
<1>5. ControlInv'
  <2>1. Continues(delivered'[l], delivered[l], PageSize, Matching)
    BY <1>1, <1>2, NothingHandedOut
  <2>2. delivered' \in [Listeners -> Seq(Matching)]
    BY <1>1, <1>2 DEF TypeOK
  <2> QED
    BY <1>2, <1>3, <1>4, <2>1, <2>2, CatchControl
<1>6. Reads(l)'
  <2>1. CASE startLedger'[l] = startLedger[l]
    BY <1>1, <1>2, <1>3, <2>1, ReadsStable
  <2>2. CASE pc[l] = "starting" /\ startLedger'[l] = Rejected
    <3>1. startLedger[l] < 0
      BY <1>3, <2>2 DEF Lives, Lifecycle, Undefined
    <3> QED
      BY <1>1, <1>2, <1>3, <2>2, <3>1, StartReads
  <2> QED
    BY <1>4, <2>1, <2>2
<1>7. \A u \in Listeners \ {l} : Reads(u)'
  BY <1>1, <1>2, <1>3, <1>4, ReadsStable DEF ReadInv
<1>8. ReadTypes'
  BY <1>1, <1>2, <1>3, <1>4 DEF ReadInv, ReadTypes
<1> QED
  BY <1>5, <1>6, <1>7, <1>8, IInvSplitNext DEF ReadInv

\* getEvents() answers: the page is handed out and the cursor moves behind it.
LEMMA GetEventsIInv ==
  ASSUME IInv, ~crashed, NEW l \in Listeners, GetEvents(l)
  PROVE  IInv'
<1>1. ControlInv /\ ReadInv /\ TypeOK
  BY IInvSplit DEF IInv, NothingSkipped
<1>2. /\ pc[l] = "fetching"
      /\ delivered' = [delivered EXCEPT ![l] = @ \o Matches(Page(l))]
      /\ \E c \in NextCursor(l, Page(l)) : cursor' = [cursor EXCEPT ![l] = c]
      /\ reconnectAttempts' = [reconnectAttempts EXCEPT ![l] = 0]
      /\ outage' = [outage EXCEPT ![l] = 0]
      /\ pc' = [pc EXCEPT ![l] = Rescheduled(l)]
      /\ UNCHANGED <<head, startLedger, isStopped, holder, crashed, stoppedAt, thrown>>
  BY DEF GetEvents, chain
<1>3. Lives(l) /\ Reads(l) /\ startLedger[l] >= 0 /\ head \in Nat
  BY <1>1, <1>2, Positions DEF ControlInv, ReadInv, Lives, Lifecycle
<1>4. /\ delivered'[l] = delivered[l] \o Matches(Page(l)) /\ cursor'[l] \in NextCursor(l, Page(l))
      /\ \A u \in Listeners \ {l} : delivered'[u] = delivered[u] /\ cursor'[u] = cursor[u]
  BY <1>1, <1>2 DEF TypeOK
<1>5. /\ cursor'[l] \in {Undefined} \cup 0 .. MaxEvents /\ delivered'[l] \in Seq(Matching)
      /\ Len(delivered[l]) <= Len(delivered'[l])
      /\ Len(delivered'[l]) <= Len(delivered[l]) + PageSize
      /\ Reads(l)'
  BY <1>1, <1>2, <1>3, <1>4, PageReads
<1>6. ReadInv'
  <2>1. ReadTypes'
    BY <1>1, <1>2, <1>5 DEF ReadInv, ReadTypes
  <2>2. \A u \in Listeners \ {l} : Reads(u)'
    BY <1>1, <1>2, <1>3, <1>4, ReadsStable DEF ReadInv
  <2> QED
    BY <1>5, <2>1, <2>2 DEF ReadInv
<1>7. /\ reconnectAttempts'[l] = 0 /\ outage'[l] = 0
      /\ pc'[l] = (IF isStopped[l] THEN "idle" ELSE "waiting")
      /\ \A u \in Listeners \ {l} : /\ pc'[u] = pc[u] /\ outage'[u] = outage[u]
                                    /\ reconnectAttempts'[u] = reconnectAttempts[u]
  BY <1>1, <1>2 DEF TypeOK, Rescheduled
<1>8. ControlTypes'
  <2>1. 0 \in 0 .. maxReconnectAttempts
    BY EventsAssumption
  <2>2. reconnectAttempts' \in [Listeners -> 0 .. maxReconnectAttempts] /\ outage' \in [Listeners -> Nat]
    BY <1>1, <1>2, <2>1 DEF ControlInv, ControlTypes
  <2>3. pc' \in [Listeners -> {"new", "starting", "broken", "fetching", "waiting", "idle"}]
    BY <1>1, <1>2 DEF ControlInv, ControlTypes, Rescheduled
  <2> QED
    BY <1>1, <1>2, <2>2, <2>3 DEF ControlInv, ControlTypes
<1>9. Lives(l)'
  <2>1. Lifecycle(l)' /\ Stopped(l)'
    BY <1>2, <1>3, <1>7 DEF Lives, Lifecycle, Stopped
  <2>2. Attempts(l)'
    BY <1>7, EventsAssumption DEF Attempts
  <2>3. stoppedAt'[l] # Undefined => Len(delivered'[l]) <= stoppedAt'[l] + PageSize
    BY <1>2, <1>3, <1>5 DEF Lives, Stopped
  <2> QED
    BY <2>1, <2>2, <2>3 DEF Lives
<1>10. \A u \in Listeners \ {l} : Lives(u)'
  BY <1>1, <1>2, <1>4, <1>7, LivesStable DEF ControlInv
<1>11. \A u \in Running' : u = holder'
  BY <1>1, <1>2, <1>7 DEF ControlInv, Running
<1>12. OutageEndsProcess'
  BY <1>2 DEF OutageEndsProcess
<1> QED
  BY <1>6, <1>8, <1>9, <1>10, <1>11, <1>12, IInvSplitNext DEF ControlInv

\* onEvent throws.
LEMMA CallbackThrowsIInv ==
  ASSUME IInv, ~crashed, NEW l \in Listeners, CallbackThrows(l)
  PROVE  IInv'
<1>1. ControlInv /\ ReadInv /\ TypeOK
  BY IInvSplit DEF IInv, NothingSkipped
<1>2. PICK i \in 1 .. Len(Matches(Page(l))) :
        delivered' = [delivered EXCEPT ![l] = @ \o SubSeq(Matches(Page(l)), 1, i)]
  BY DEF CallbackThrows
<1>3. /\ pc[l] = "fetching" /\ thrown' = thrown \cup {l} /\ UNCHANGED <<cursor, startLedger>>
      /\ Catch(l, 1)
  BY DEF CallbackThrows
<1>4. Lives(l) /\ Reads(l) /\ Reading(l) /\ startLedger[l] >= 0 /\ head' = head /\ head \in Nat
  BY <1>1, <1>3, Positions DEF ControlInv, ReadInv, Lives, Lifecycle, Reads, Catch, chain
<1>5. Continues(delivered'[l], delivered[l], PageSize, Matching)
  <2>1. i \in 0 .. Len(Matches(Page(l)))
    OBVIOUS
  <2>2. delivered'[l] = delivered[l] \o SubSeq(Matches(Page(l)), 1, i)
    BY <1>1, <1>2 DEF TypeOK
  <2> QED
    BY <1>1, <1>4, <2>1, <2>2, HandOut
<1>6. /\ delivered' \in [Listeners -> Seq(Matching)]
      /\ \A u \in Listeners \ {l} : delivered'[u] = delivered[u]
  <2> DEFINE d == delivered[l] \o SubSeq(Matches(Page(l)), 1, i)
  <2>1. delivered' = [delivered EXCEPT ![l] = d]
    BY <1>2
  <2>2. delivered'[l] = d /\ d \in Seq(Matching)
    BY <1>1, <1>5, <2>1 DEF TypeOK, Continues
  <2> HIDE DEF d
  <2> QED
    BY <1>1, <2>1, <2>2 DEF TypeOK
<1>7. ControlInv'
  <2>1. startLedger' \in [Listeners -> {Undefined, Rejected} \cup 0 .. MaxEvents] /\ startLedger' = startLedger
    BY <1>1, <1>3 DEF TypeOK
  <2> QED
    BY <1>3, <1>5, <1>6, <2>1, CatchControl
<1>8. Reads(l)'
  BY <1>1, <1>3, <1>4, <1>5, ThrowReads
<1>9. \A u \in Listeners \ {l} : Reads(u)'
  BY <1>1, <1>3, <1>4, <1>6, ReadsStable DEF ReadInv
<1>10. ReadTypes'
  BY <1>1, <1>3, <1>4, <1>6 DEF ReadInv, ReadTypes
<1> QED
  BY <1>7, <1>8, <1>9, <1>10, IInvSplitNext DEF ReadInv

\* The step lemma.
LEMMA NextIInv == IInv /\ [Next]_vars => IInv'
<1> SUFFICES ASSUME IInv, [Next]_vars PROVE IInv'
  OBVIOUS
<1>1. CASE UNCHANGED vars
  <2>1. ControlInv /\ ReadInv /\ TypeOK
    BY IInvSplit DEF IInv, NothingSkipped
  <2>2. UNCHANGED <<head, cursor, startLedger, reconnectAttempts, isStopped, pc, holder, crashed,
                    delivered, stoppedAt, thrown, outage>>
    BY <1>1 DEF vars, chain, listener, history
  <2>3. ReadInv'
    BY <2>1, <2>2, EventsAssumption, ReadUnchanged DEF TypeOK
  <2>4. \A l \in Listeners : Lives(l)'
    BY <2>1, <2>2, LivesStable DEF ControlInv
  <2>5. ControlTypes' /\ OutageEndsProcess' /\ \A l \in Running' : l = holder'
    BY <2>1, <2>2 DEF ControlInv, ControlTypes, OutageEndsProcess, Running
  <2> QED
    BY <2>3, <2>4, <2>5, IInvSplitNext DEF ControlInv
<1>2. ASSUME ~crashed, NEW l \in Listeners, Step(l) PROVE IInv'
  BY <1>2, PollIInv, LatestLedgerIInv, FailedPollIInv, GetEventsIInv, CallbackThrowsIInv DEF Step
<1> QED
  BY <1>1, <1>2, EmitIInv, StopIInv, StartIInv DEF Next

-----------------------------------------------------------------------------
(* The theorems.                                                           *)

\* The inductive invariant holds in every reachable state of the listeners.
THEOREM EventsInvariant == Spec => []IInv
  BY InitIInv, NextIInv, PTL DEF Spec

\* Type correctness of the listeners and of the agent's hold on them.
THEOREM EventsTypeCorrect == Spec => []TypeOK
<1>1. IInv => TypeOK
  BY DEF IInv, NothingSkipped
<1> QED
  BY <1>1, EventsInvariant, PTL

\* The cursor moves only past events that were handed to onEvent, whatever
\* fails, for every page size and every filter.
THEOREM EventsNothingSkipped == Spec => []NothingSkipped
<1>1. IInv => NothingSkipped
  BY DEF IInv
<1> QED
  BY <1>1, EventsInvariant, PTL

\* Unless onEvent throws, every event is handed out once, in chain order.
THEOREM EventsOnceInOrder == Spec => []OnceInOrder
<1>1. IInv => OnceInOrder
  BY DEF IInv
<1> QED
  BY <1>1, EventsInvariant, PTL

\* Only the listener the agent holds goes on, and a stopped one hands out at
\* most the page that was in flight.
THEOREM EventsAtMostOnePageAfterStop == Spec => []AtMostOnePageAfterStop
<1>1. IInv => AtMostOnePageAfterStop
  BY DEF IInv
<1> QED
  BY <1>1, EventsInvariant, PTL

\* A listener ends the process only after maxReconnectAttempts failed polls in
\* a row.
THEOREM EventsOutageEndsProcess == Spec => []OutageEndsProcess
<1>1. IInv => OutageEndsProcess
  BY DEF IInv
<1> QED
  BY <1>1, EventsInvariant, PTL

-----------------------------------------------------------------------------
(* The process around the agent, Service, with its configuration, webhooks *)
(* and streams, for any set of tasks, any environments and secrets, any    *)
(* number of attempts and any payments.                                    *)

\* The invariant in three parts: the process and its configuration, ...
ProcessOK ==
  /\ program \in {"service", "library"}
  /\ proc \in {"import", "clients", "start", "up", "library", "draining", "closing", "down"}
  /\ cfg \in {"unset", "ok", "error"} /\ key \in {"none", "valid", "invalid"}
  /\ exit \in {"no", "0", "1", "signal"} /\ (exit = "no" <=> proc # "down")
  /\ server \in {"none", "binding", "open", "closed"} /\ locked \in BOOLEAN
  /\ ConfigPlaced

\* ... the tasks and their webhooks, ...
HooksOK ==
  /\ at \in [Tasks -> Final \cup {"idle", "running", "posting", "waiting"}]
  /\ attempt \in [Tasks -> 0 .. MaxAttempts] /\ HooksCounted

\* ... and the streams.
StreamsOK ==
  /\ posted \in 0 .. Len(Memos) /\ handed \subseteq 1 .. posted
  /\ streamStop \in BOOLEAN /\ closeStreamFn \in BOOLEAN /\ StreamsRead

\* The three parts make the invariant, now and after a step.
LEMMA ServiceParts ==
  /\ ServiceIInv <=> ProcessOK /\ HooksOK /\ StreamsOK
  /\ ServiceIInv' <=> ProcessOK' /\ HooksOK' /\ StreamsOK'
  BY DEF ServiceIInv, ServiceTypeOK, ProcessOK, HooksOK, StreamsOK

\* A step that leaves a part alone keeps it.
LEMMA ServiceKeepsProcess ==
  ASSUME ProcessOK, UNCHANGED <<boot, proc, exit, server>>, locked' \in BOOLEAN
  PROVE  ProcessOK'
<1>1. /\ env' = env /\ program' = program /\ cfg' = cfg /\ key' = key /\ proc' = proc
      /\ exit' = exit /\ server' = server
  BY DEF boot
<1> QED
  BY <1>1 DEF ProcessOK, ConfigPlaced, parseConfigAndDerive, EnvSchema

\* The same of the webhooks.
LEMMA ServiceKeepsHooks ==
  ASSUME HooksOK, UNCHANGED hooks
  PROVE  HooksOK'
  BY DEF HooksOK, HooksCounted, hooks

\* The same of the streams.
LEMMA ServiceKeepsStreams ==
  ASSUME StreamsOK, UNCHANGED streams
  PROVE  StreamsOK'
<1>1. /\ posted' = posted /\ streamStop' = streamStop /\ open' = open /\ handed' = handed
      /\ closeStreamFn' = closeStreamFn /\ effects' = effects
  BY DEF streams, payments, balances
<1> QED
  BY <1>1 DEF StreamsOK, StreamsRead, StreamGuarded

\* The end of the process keeps what the webhooks and the streams have done.
LEMMA ServiceExit ==
  ASSUME HooksOK, StreamsOK, NEW code, Exit(code)
  PROVE  HooksOK' /\ StreamsOK'
<1>1. HooksOK'
  <2>1. /\ at' = [t \in Tasks |-> IF at[t] \in {"posting", "waiting", "running"} THEN "lost" ELSE at[t]]
        /\ attempt' = attempt
    BY DEF Exit
  <2>2. at' \in [Tasks -> Final \cup {"idle", "running", "posting", "waiting"}]
    BY <2>1 DEF HooksOK, Final
  <2>3. \A t \in Tasks : /\ at'[t] = "delivered" <=> at[t] = "delivered"
                         /\ at'[t] \notin {"running", "posting", "waiting"}
                         /\ at'[t] = "idle" => at[t] = "idle"
    BY <2>1 DEF HooksOK
  <2>4. HooksCounted'
    <3>1. PICK taken \in SUBSET {t \in Tasks : at[t] = "posting"} :
            /\ received' = [t \in Tasks |-> received[t] + IF t \in taken THEN 1 ELSE 0]
            /\ unheard' = [t \in Tasks |-> unheard[t] + IF t \in taken THEN 1 ELSE 0]
      BY DEF Exit
    <3>2. received \in [Tasks -> Nat] /\ unheard \in [Tasks -> Nat] /\ attempt \in [Tasks -> Nat]
      BY DEF HooksOK, HooksCounted
    <3>3. received' \in [Tasks -> Nat] /\ unheard' \in [Tasks -> Nat]
      BY <3>1, <3>2
    <3>4. ASSUME NEW t \in Tasks
          PROVE  /\ received'[t] = unheard'[t] + IF at'[t] = "delivered" THEN 1 ELSE 0
                 /\ received'[t] <= attempt'[t]
                 /\ at'[t] = "idle" => received'[t] = 0
      <4>1. /\ received[t] = unheard[t] + IF at[t] = "delivered" THEN 1 ELSE 0
            /\ received[t] <= attempt[t] /\ attempt'[t] = attempt[t]
            /\ at[t] = "posting" => received[t] < attempt[t]
            /\ at[t] = "idle" => received[t] = 0
            /\ received[t] \in Nat /\ unheard[t] \in Nat /\ attempt[t] \in Nat
        BY <2>1, <3>2 DEF HooksOK, HooksCounted
      <4>2. CASE t \in taken
        <5>1. at[t] = "posting" /\ received'[t] = received[t] + 1 /\ unheard'[t] = unheard[t] + 1
          BY <3>1, <4>2
        <5> QED
          BY <2>3, <4>1, <5>1
      <4>3. CASE t \notin taken
        <5>1. received'[t] = received[t] /\ unheard'[t] = unheard[t]
          BY <3>1, <4>1, <4>3
        <5> QED
          BY <2>3, <4>1, <5>1
      <4> QED
        BY <4>2, <4>3
    <3> QED
      BY <2>3, <3>3, <3>4 DEF HooksCounted
  <2> QED
    BY <2>1, <2>2, <2>4 DEF HooksOK
<1>2. StreamsOK'
  <2>1. /\ streamStop' = FALSE /\ open' = <<>> /\ closeStreamFn' = FALSE /\ effects' = <<>>
        /\ posted' = posted /\ handed' = handed
    BY DEF Exit
  <2>2. StreamsRead'
    BY <2>1 DEF StreamsRead, StreamGuarded
  <2> QED
    BY <2>1, <2>2 DEF StreamsOK
<1> QED
  BY <1>1, <1>2

\* The end of the process, with a configuration as it was.
LEMMA ServiceExitProcess ==
  ASSUME ProcessOK, NEW code \in {"0", "1", "signal"}, Exit(code), UNCHANGED boot
  PROVE  ProcessOK'
<1>1. env' = env /\ program' = program /\ cfg' = cfg /\ key' = key
  BY DEF boot
<1>2. /\ proc' = "down" /\ exit' = code /\ locked' = locked
      /\ server' = IF server = "none" THEN "none" ELSE "closed"
  BY DEF Exit
<1> QED
  BY <1>1, <1>2 DEF ProcessOK, ConfigPlaced, parseConfigAndDerive, EnvSchema

\* config.ts is imported: there is a configuration only if the key has one source.
LEMMA ServiceImportConfig ==
  ASSUME ServiceIInv, ImportConfig
  PROVE  ServiceIInv'
<1>1. ProcessOK /\ HooksOK /\ StreamsOK
  BY ServiceParts
<1>2. /\ proc = "import" /\ cfg = "unset" /\ key = env.secretKey /\ server = "none" /\ exit = "no"
      /\ env' = env /\ program' = program /\ key' = key /\ env \in Environment
  BY <1>1, ServiceAssumption, StreamsAssumption DEF ImportConfig, ProcessOK, ConfigPlaced
<1>3. CASE Exit("1") /\ UNCHANGED cfg
  <2>1. UNCHANGED boot
    BY <1>2, <1>3 DEF boot
  <2> QED
    BY <1>1, <1>3, <2>1, ServiceExit, ServiceExitProcess, ServiceParts
<1>4. CASE /\ Goto(AfterImport)
           /\ \/ Both /\ cfg' = "error"
              \/ ~Both /\ env.arn /\ cfg' = "unset"
              \/ ~Both /\ ~env.arn /\ parseConfigAndDerive(env, key) /\ cfg' = "ok"
  <2>1. /\ proc' \in {"clients", "library"} /\ exit' = exit /\ server' = server /\ locked' = locked
        /\ UNCHANGED hooks /\ UNCHANGED streams
    BY <1>4 DEF Goto, AfterImport
  <2>2. CASE Both /\ cfg' = "error"
    BY <1>1, <1>2, <2>1, <2>2, ServiceKeepsHooks, ServiceKeepsStreams, ServiceParts DEF ProcessOK, ConfigPlaced
  <2>3. CASE ~Both /\ env.arn /\ cfg' = "unset"
    <3>1. env.secretKey = "none"
      BY <2>3 DEF Both
    <3> QED
      BY <1>1, <1>2, <2>1, <2>3, <3>1, ServiceKeepsHooks, ServiceKeepsStreams, ServiceParts
         DEF ProcessOK, ConfigPlaced
  <2>4. CASE ~Both /\ ~env.arn /\ parseConfigAndDerive(env, key) /\ cfg' = "ok"
    <3>1. key = "valid" /\ env.secretKey # "none" /\ parseConfigAndDerive(env, key)'
      BY <1>2, <2>4 DEF parseConfigAndDerive, EnvSchema
    <3> QED
      BY <1>1, <1>2, <2>1, <2>4, <3>1, ServiceKeepsHooks, ServiceKeepsStreams, ServiceParts
         DEF ProcessOK, ConfigPlaced
  <2> QED
    BY <1>4, <2>2, <2>3, <2>4
<1> QED
  BY <1>3, <1>4 DEF ImportConfig

\* loadConfig after its await.
LEMMA ServiceFetchSecret ==
  ASSUME ServiceIInv, FetchSecret
  PROVE  ServiceIInv'
<1>1. ProcessOK /\ HooksOK /\ StreamsOK
  BY ServiceParts
<1>2. /\ proc = "library" /\ cfg = "unset" /\ server = "none" /\ exit = "no"
      /\ env' = env /\ program' = program /\ env.arn /\ env.secretKey = "none"
  BY <1>1 DEF FetchSecret, ProcessOK, ConfigPlaced
<1>3. PICK answer \in Secrets :
        IF ~Fetched(answer) THEN Exit("1") /\ UNCHANGED <<key, cfg>>
        ELSE /\ key' = ParsedSecret(answer)
             /\ IF parseConfigAndDerive(env, key')
                THEN cfg' = "ok" /\ Goto("library")
                ELSE UNCHANGED cfg /\ Exit("1")
  BY DEF FetchSecret
<1>4. ParsedSecret(answer) \in {"valid", "invalid"}
  BY ServiceAssumption, StreamsAssumption DEF ParsedSecret, Secret
<1>5. CASE Exit("1") /\ cfg' = cfg /\ key' \in {"none", "valid", "invalid"}
  <2>1. /\ proc' = "down" /\ exit' = "1" /\ locked' = locked /\ server' = "none"
    BY <1>2, <1>5 DEF Exit
  <2>2. ProcessOK'
    BY <1>1, <1>2, <1>5, <2>1 DEF ProcessOK, ConfigPlaced
  <2> QED
    BY <1>1, <1>5, <2>2, ServiceExit, ServiceParts
<1>6. CASE /\ key' = ParsedSecret(answer) /\ parseConfigAndDerive(env, key')
           /\ cfg' = "ok" /\ Goto("library")
  <2>1. /\ proc' = "library" /\ exit' = exit /\ server' = server /\ locked' = locked
        /\ UNCHANGED hooks /\ UNCHANGED streams
    BY <1>6 DEF Goto
  <2>2. parseConfigAndDerive(env, key)'
    BY <1>2, <1>6 DEF parseConfigAndDerive, EnvSchema
  <2>3. ProcessOK'
    BY <1>1, <1>2, <1>4, <1>6, <2>1, <2>2 DEF ProcessOK, ConfigPlaced
  <2> QED
    BY <1>1, <2>1, <2>3, ServiceKeepsHooks, ServiceKeepsStreams, ServiceParts
<1>7. key \in {"none", "valid", "invalid"}
  BY <1>1 DEF ProcessOK
<1> QED
  BY <1>3, <1>4, <1>5, <1>6, <1>7

\* The other steps of start and shutdown.
LEMMA ServiceGoes ==
  ASSUME ServiceIInv,
         ImportClients \/ start \/ Listening \/ ListenFails \/ Signal \/ Drained
           \/ Released \/ HardKill \/ Unlock \/ BalanceError
  PROVE  ServiceIInv'
<1>1. ProcessOK /\ HooksOK /\ StreamsOK
  BY ServiceParts
<1>2. CASE \E code \in {"0", "1", "signal"} : Exit(code) /\ UNCHANGED boot
  BY <1>1, <1>2, ServiceExit, ServiceExitProcess, ServiceParts
<1>3. CASE /\ UNCHANGED boot /\ UNCHANGED hooks /\ UNCHANGED streams /\ exit' = exit
           /\ \/ proc = "clients" /\ cfg = "ok" /\ proc' = "start" /\ server' = server /\ locked' = locked
              \/ proc = "start" /\ proc' = "up" /\ server' = "binding" /\ locked' = locked
              \/ server = "binding" /\ server' = "open" /\ proc' = proc /\ locked' = locked
              \/ proc = "up" /\ proc' = "draining" /\ server' = server /\ locked' = locked
              \/ proc = "draining" /\ proc' = "closing" /\ server' = "closed" /\ locked' = locked
              \/ locked' = FALSE /\ proc' = proc /\ server' = server
  <2>1. env' = env /\ program' = program /\ cfg' = cfg /\ key' = key /\ exit' = exit
    BY <1>3 DEF boot
  <2>2. parseConfigAndDerive(env, key)' = parseConfigAndDerive(env, key)
    BY <2>1 DEF parseConfigAndDerive, EnvSchema
  <2>3. ProcessOK'
    BY <1>1, <1>3, <2>1, <2>2 DEF ProcessOK, ConfigPlaced
  <2> QED
    BY <1>1, <1>3, <2>3, ServiceKeepsHooks, ServiceKeepsStreams, ServiceParts
<1> QED
  BY <1>2, <1>3 DEF ImportClients, start, Listening, ListenFails, Signal, Drained, Released, HardKill,
     Unlock, BalanceError, Goto

\* A task starts or ends, and its webhook goes on.
LEMMA ServiceTask ==
  ASSUME ServiceIInv, NEW t \in Tasks, RunTask(t) \/ TaskEnds(t) \/ Webhook(t)
  PROVE  ServiceIInv'
<1>1. ProcessOK /\ HooksOK /\ StreamsOK
  BY ServiceParts
<1>2. /\ at \in [Tasks -> Final \cup {"idle", "running", "posting", "waiting"}]
      /\ attempt \in [Tasks -> 0 .. MaxAttempts]
      /\ received \in [Tasks -> Nat] /\ unheard \in [Tasks -> Nat]
      /\ MaxAttempts \in Nat \ {0}
      /\ \A u \in Tasks : /\ received[u] = unheard[u] + IF at[u] = "delivered" THEN 1 ELSE 0
                          /\ at[u] = "waiting" => attempt[u] < MaxAttempts
                          /\ received[u] <= attempt[u]
                          /\ at[u] = "posting" => received[u] < attempt[u]
                          /\ at[u] \in {"idle", "running"} => received[u] = 0
  BY <1>1, ServiceAssumption, StreamsAssumption DEF HooksOK, HooksCounted
<1>3. HooksOK'
  <2>1. CASE RunTask(t)
    <3>1. /\ at[t] = "idle" /\ at' = [at EXCEPT ![t] = "running"]
          /\ attempt' = attempt /\ received' = received /\ unheard' = unheard
      BY <2>1 DEF RunTask
    <3> QED
      BY <1>2, <3>1 DEF HooksOK, HooksCounted
  <2>2. CASE TaskEnds(t)
    <3>1. PICK a \in {"posting", "skipped"}, n \in {0, 1} :
            /\ at[t] = "running" /\ at' = [at EXCEPT ![t] = a] /\ attempt' = [attempt EXCEPT ![t] = n]
            /\ received' = received /\ unheard' = unheard /\ (a = "posting" => n = 1)
      BY <2>2 DEF TaskEnds
    <3> QED
      BY <1>2, <3>1 DEF HooksOK, HooksCounted, Final
  <2>3. CASE \E a \in Answers : Answer(t, a)
    <3>1. PICK a \in Answers : Answer(t, a)
      BY <2>3
    <3>2. PICK taken \in BOOLEAN :
            /\ a = "2xx" => taken
            /\ received' = [received EXCEPT ![t] = @ + IF taken THEN 1 ELSE 0]
            /\ unheard' = [unheard EXCEPT ![t] = @ + IF taken /\ a # "2xx" THEN 1 ELSE 0]
      BY <3>1 DEF Answer
    <3>3. at[t] = "posting" /\ at' = [at EXCEPT ![t] = AfterAnswer(t, a)] /\ attempt' = attempt
      BY <3>1 DEF Answer
    <3>4. /\ AfterAnswer(t, a) \in {"delivered", "refused", "waiting", "exhausted"}
          /\ AfterAnswer(t, a) = "delivered" <=> a = "2xx"
          /\ AfterAnswer(t, a) = "waiting" => attempt[t] < MaxAttempts
      BY DEF AfterAnswer
    <3>5. CASE a = "2xx"
      <4>1. /\ received' = [received EXCEPT ![t] = @ + 1] /\ unheard' = [unheard EXCEPT ![t] = @ + 0]
            /\ at' = [at EXCEPT ![t] = "delivered"]
        BY <3>2, <3>3, <3>4, <3>5
      <4> QED
        BY <1>2, <3>3, <4>1 DEF HooksOK, HooksCounted, Final
    <3>6. CASE a # "2xx"
      <4>1. PICK n \in {0, 1} :
              received' = [received EXCEPT ![t] = @ + n] /\ unheard' = [unheard EXCEPT ![t] = @ + n]
        <5>1. CASE taken
          BY <3>2, <3>6, <5>1
        <5>2. CASE ~taken
          BY <3>2, <5>2
        <5> QED
          BY <5>1, <5>2
      <4>2. PICK b \in {"refused", "waiting", "exhausted"} :
              /\ at' = [at EXCEPT ![t] = b]
              /\ b = "waiting" => attempt[t] < MaxAttempts
        BY <3>3, <3>4, <3>6
      <4> QED
        BY <1>2, <3>3, <4>1, <4>2 DEF HooksOK, HooksCounted, Final
    <3> QED
      BY <3>5, <3>6
  <2>4. CASE Retry(t)
    <3>1. /\ at[t] = "waiting" /\ at' = [at EXCEPT ![t] = "posting"]
          /\ attempt' = [attempt EXCEPT ![t] = @ + 1] /\ received' = received /\ unheard' = unheard
      BY <2>4 DEF Retry
    <3> QED
      BY <1>2, <3>1 DEF HooksOK, HooksCounted
  <2> QED
    BY <2>1, <2>2, <2>3, <2>4 DEF Webhook
<1>4. UNCHANGED <<boot, proc, exit, server>> /\ UNCHANGED streams
  BY DEF RunTask, TaskEnds, Webhook, Answer, Retry
<1>5. locked' \in BOOLEAN
  BY <1>1 DEF RunTask, TaskEnds, Webhook, Answer, Retry, ProcessOK
<1> QED
  BY <1>1, <1>3, <1>4, <1>5, ServiceKeepsProcess, ServiceKeepsStreams, ServiceParts

\* What Front does to a sequence of one element.
LEMMA ServiceFront ==
  ASSUME NEW S, NEW s \in Seq(S), Len(s) = 1
  PROVE  Front(s) \in Seq(S) /\ Len(Front(s)) = 0
  BY DEF Front

\* The readers of the streams.
LEMMA ServiceStreams ==
  ASSUME ServiceIInv, StreamStep
  PROVE  ServiceIInv'
<1>1. ProcessOK /\ HooksOK /\ StreamsOK
  BY ServiceParts
<1>2. /\ posted \in 0 .. Len(Memos) /\ handed \subseteq 1 .. posted /\ Len(Memos) \in Nat
      /\ streamStop \in BOOLEAN /\ closeStreamFn \in BOOLEAN
      /\ open \in Seq(Nat) /\ effects \in Seq(Accounts)
      /\ Len(open) = (IF streamStop THEN 1 ELSE 0) /\ Len(effects) = (IF closeStreamFn THEN 1 ELSE 0)
      /\ \A i \in DOMAIN open : open[i] <= posted
  BY <1>1, ServiceAssumption, StreamsAssumption DEF StreamsOK, StreamsRead, StreamGuarded
<1> DEFINE PaymentsOK == /\ posted \in 0 .. Len(Memos) /\ handed \subseteq 1 .. posted
                         /\ streamStop \in BOOLEAN /\ open \in Seq(Nat)
                         /\ Len(open) = (IF streamStop THEN 1 ELSE 0)
                         /\ \A i \in DOMAIN open : open[i] <= posted
           BalancesOK == /\ closeStreamFn \in BOOLEAN /\ effects \in Seq(Accounts)
                         /\ Len(effects) = (IF closeStreamFn THEN 1 ELSE 0)
<1>3. PaymentsOK' /\ BalancesOK' => StreamsOK'
  BY DEF StreamsOK, StreamsRead, StreamGuarded
<1>4. UNCHANGED balances => BalancesOK'
  BY <1>2 DEF balances
<1>5. UNCHANGED payments => PaymentsOK'
  BY <1>2 DEF payments
<1>6. UNCHANGED <<boot, proc, exit, server>> /\ locked' \in BOOLEAN /\ UNCHANGED hooks
  BY <1>1 DEF StreamStep, ProcessOK
<1> SUFFICES StreamsOK'
  BY <1>1, <1>6, ServiceKeepsProcess, ServiceKeepsHooks, ServiceParts
<1>7. CASE PaymentArrives
  <2>1. PaymentsOK'
    BY <1>2, <1>7 DEF PaymentArrives
  <2> QED
    BY <1>1, <1>3, <1>4, <1>7, <2>1 DEF PaymentArrives
<1>8. CASE startListening
  <2>1. /\ streamStop = FALSE /\ streamStop' = TRUE /\ open' = Append(open, 0)
        /\ posted' = posted /\ handed' = handed
    BY <1>2, <1>8 DEF startListening
  <2>2. open' \in Seq(Nat) /\ Len(open') = 1 /\ \A i \in DOMAIN open' : open'[i] = 0
    BY <1>2, <2>1
  <2>3. PaymentsOK'
    BY <1>2, <2>1, <2>2
  <2> QED
    BY <1>3, <1>4, <1>8, <2>3 DEF startListening
<1>9. CASE stopListening \/ onerror
  <2>1. /\ streamStop' = FALSE /\ open' = (IF streamStop THEN Front(open) ELSE open)
        /\ posted' = posted /\ handed' = handed
    BY <1>9 DEF stopListening, onerror, Closed
  <2>2. open' \in Seq(Nat) /\ Len(open') = 0
    BY <1>2, <2>1, ServiceFront
  <2>3. \A i \in DOMAIN open' : open'[i] <= posted'
    BY <2>2
  <2>4. PaymentsOK'
    BY <1>2, <2>1, <2>2, <2>3
  <2> QED
    BY <1>3, <1>4, <1>9, <2>4 DEF stopListening, onerror
<1>10. CASE \E i \in DOMAIN open : onmessage(i)
  <2>1. PICK i \in DOMAIN open : onmessage(i)
    BY <1>10
  <2>2. /\ open[i] < posted /\ open' = [open EXCEPT ![i] = @ + 1]
        /\ handed' \subseteq handed \cup {open'[i]} /\ posted' = posted /\ streamStop' = streamStop
    BY <2>1 DEF onmessage
  <2>3. open[i] \in Nat /\ open'[i] = open[i] + 1
    BY <1>2, <2>2
  <2>4. open' \in Seq(Nat) /\ Len(open') = Len(open) /\ \A j \in DOMAIN open' : open'[j] <= posted
    BY <1>2, <2>2, <2>3
  <2>5. handed' \subseteq 1 .. posted
    BY <1>2, <2>2, <2>3
  <2>6. PaymentsOK'
    BY <1>2, <2>2, <2>4, <2>5
  <2> QED
    BY <1>3, <1>4, <2>1, <2>6 DEF onmessage
<1>11. CASE \E a \in Accounts : subscribe(a)
  <2>1. PICK a \in Accounts : subscribe(a)
    BY <1>11
  <2>2. /\ closeStreamFn' = TRUE
        /\ effects' = Append(IF closeStreamFn THEN Front(effects) ELSE effects, a)
    BY <2>1 DEF subscribe
  <2> DEFINE rest == IF closeStreamFn THEN Front(effects) ELSE effects
  <2>3. rest \in Seq(Accounts) /\ Len(rest) = 0
    BY <1>2, ServiceFront
  <2> HIDE DEF rest
  <2>4. effects' \in Seq(Accounts) /\ Len(effects') = 1
    BY <2>2, <2>3 DEF rest
  <2>5. BalancesOK'
    BY <2>2, <2>4
  <2> QED
    BY <1>3, <1>5, <2>1, <2>5 DEF subscribe
<1>12. CASE stop
  <2>1. closeStreamFn' = FALSE /\ effects' \in Seq(Accounts) /\ Len(effects') = 0
    BY <1>2, <1>12, ServiceFront DEF stop
  <2>2. BalancesOK'
    BY <2>1
  <2> QED
    BY <1>3, <1>5, <1>12, <2>2 DEF stop
<1> QED
  BY <1>7, <1>8, <1>9, <1>10, <1>11, <1>12 DEF StreamStep, StreamsNext

\* The initial states.
LEMMA ServiceInitIInv == ServiceInit => ServiceIInv
<1> SUFFICES ASSUME ServiceInit PROVE ServiceIInv
  OBVIOUS
<1>1. ProcessOK
  BY ServiceAssumption, StreamsAssumption DEF ServiceInit, ProcessOK, ConfigPlaced, Environment
<1>2. HooksOK
  BY ServiceAssumption, StreamsAssumption DEF ServiceInit, HooksOK, HooksCounted
<1>3. StreamsOK
  <2>1. /\ posted = 0 /\ streamStop = FALSE /\ open = <<>> /\ handed = {}
        /\ closeStreamFn = FALSE /\ effects = <<>>
    BY DEF ServiceInit, StreamsInit
  <2>2. Len(Memos) \in Nat
    BY ServiceAssumption, StreamsAssumption
  <2>3. posted \in 0 .. Len(Memos) /\ handed \subseteq 1 .. posted
    BY <2>1, <2>2
  <2>4. StreamsRead
    BY <2>1 DEF StreamsRead, StreamGuarded
  <2> QED
    BY <2>1, <2>3, <2>4 DEF StreamsOK
<1> QED
  BY <1>1, <1>2, <1>3, ServiceParts

\* Every step.
LEMMA ServiceNextIInv == ServiceIInv /\ [ServiceNext]_serviceVars => ServiceIInv'
<1> SUFFICES ASSUME ServiceIInv, [ServiceNext]_serviceVars PROVE ServiceIInv'
  OBVIOUS
<1>1. CASE ServiceNext
  BY <1>1, ServiceImportConfig, ServiceFetchSecret, ServiceGoes, ServiceTask, ServiceStreams
     DEF ServiceNext, Start
<1>2. CASE UNCHANGED serviceVars
  <2>1. /\ UNCHANGED <<boot, proc, exit, server>> /\ UNCHANGED hooks /\ UNCHANGED streams
        /\ locked' = locked
    BY <1>2 DEF serviceVars
  <2>2. ProcessOK /\ HooksOK /\ StreamsOK /\ locked' \in BOOLEAN
    BY <2>1, ServiceParts DEF ProcessOK
  <2> QED
    BY <2>1, <2>2, ServiceKeepsProcess, ServiceKeepsHooks, ServiceKeepsStreams, ServiceParts
<1> QED
  BY <1>1, <1>2

\* The inductive invariant of the process: where it stands tells what became of
\* its configuration, and every webhook the receiver took is accounted for.
THEOREM ServiceInvariant == ServiceSpec => []ServiceIInv
  BY ServiceInitIInv, ServiceNextIInv, PTL DEF ServiceSpec

\* Nobody gets at a configuration that config.ts did not validate: whether the key
\* came from the environment or from the Secrets Manager, it came from one
\* source, is the key of the public key asked for, and the limit respects the cap.
THEOREM ServiceValidatedBeforeUse == ServiceSpec => []ValidatedBeforeUse
<1>1. ServiceIInv => ValidatedBeforeUse
  BY DEF ServiceIInv, ConfigPlaced, ValidatedBeforeUse, parseConfigAndDerive, EnvSchema
<1> QED
  BY <1>1, ServiceInvariant, PTL

\* dispatchWebhook has the receiver take a webhook twice only if no 2xx answered the
\* first time, never more often than maxAttempts, and counts it as delivered only
\* if the receiver took it and said so, also when the process ends in between.
THEOREM ServiceDeliveredOnce == ServiceSpec => []DeliveredOnce
<1>1. ServiceIInv => DeliveredOnce
  BY DEF ServiceIInv, HooksCounted, DeliveredOnce
<1> QED
  BY <1>1, ServiceInvariant, PTL

\* However the streams of the agent and of BalanceStreamTool end, by an error, by a
\* call or with the process, the field that guards them is set exactly when one is open.
THEOREM ServiceStreamGuarded == ServiceSpec => []StreamGuarded
<1>1. ServiceIInv => StreamGuarded
  BY DEF ServiceIInv, StreamsRead
<1> QED
  BY <1>1, ServiceInvariant, PTL

=============================================================================
