----------------------- MODULE TransactionToolsProofs -----------------------
(***************************************************************************)
(* Theorems of TransactionTools: what the tools of the agent move was      *)
(* counted first, a task lands once, and the rebuild of a payment heals    *)
(* the sequence number, for every set of tasks, number of slots and limit. *)
(*                                                                         *)
(* What Total computes is proved by induction, from the principle of the   *)
(* least counterexample stated over sets.                                  *)
(***************************************************************************)
EXTENDS TransactionTools, TLAPS, WellFoundedInduction

\* A set of naturals that is not empty has a least element.
LEMMA LeastElement ==
  ASSUME NEW T, T \subseteq Nat, T # {}
  PROVE  \E x \in T : \A y \in T : x <= y
<1> DEFINE R == OpToRel(<, Nat)
<1>1. IsWellFoundedOn(R, Nat)
  BY NatLessThanWellFounded
<1>2. \A x, y \in Nat : x < y => <<x, y>> \in R
  BY DEF OpToRel
<1> HIDE DEF R
<1>3. PICK x \in T : \A y \in T : ~(<<y, x>> \in R)
  BY <1>1, WFMin
<1>4. \A y \in T : ~(y < x)
  BY <1>2, <1>3
<1>5. \A y \in T : x <= y
  BY <1>4
<1> QED
  BY <1>5

\* Induction over the naturals, with a set in place of a predicate.
LEMMA NatSetInduction ==
  ASSUME NEW T, 0 \in T, \A n \in Nat : n \in T => n + 1 \in T
  PROVE  Nat \subseteq T
<1> SUFFICES ASSUME NEW n \in Nat, n \notin T PROVE FALSE
  OBVIOUS
<1> DEFINE U == {m \in Nat : m \notin T}
<1>1. PICK x \in U : \A y \in U : x <= y
  BY LeastElement
<1>2. x # 0
  OBVIOUS
<1>3. x - 1 \in Nat /\ x - 1 \in T
  BY <1>1, <1>2
<1> QED
  BY <1>3

-----------------------------------------------------------------------------
(* Total, one element at a time.                                           *)

\* The recursive function of Total.
TotalTo(f, s, n) == f = [i \in 0 .. n |-> IF i = 0 THEN 0 ELSE f[i - 1] + s[i]]

\* It exists.
LEMMA TotalExists ==
  ASSUME NEW s
  PROVE  \A n \in Nat : \E f : TotalTo(f, s, n)
<1> DEFINE T == {n \in Nat : \E f : TotalTo(f, s, n)}
<1>1. 0 \in T
  <2> DEFINE f == [i \in 0 .. 0 |-> 0]
  <2>1. TotalTo(f, s, 0)
    BY DEF TotalTo
  <2> QED
    BY <2>1
<1>2. ASSUME NEW n \in Nat, n \in T PROVE n + 1 \in T
  <2>1. PICK f : TotalTo(f, s, n)
    BY <1>2
  <2> DEFINE g == [i \in 0 .. n + 1 |-> IF i <= n THEN f[i] ELSE f[n] + s[n + 1]]
             h == [i \in 0 .. n + 1 |-> IF i = 0 THEN 0 ELSE g[i - 1] + s[i]]
  <2>2. ASSUME NEW i \in 0 .. n + 1 PROVE g[i] = h[i]
    <3>1. CASE i = 0
      BY <2>1, <3>1 DEF TotalTo
    <3>2. CASE i \in 1 .. n
      <4>1. g[i] = f[i] /\ g[i - 1] = f[i - 1] /\ i # 0 /\ i \in 0 .. n
        BY <3>2
      <4>2. f[i] = f[i - 1] + s[i]
        BY <2>1, <4>1 DEF TotalTo
      <4> QED
        BY <4>1, <4>2
    <3>3. CASE i = n + 1
      <4>1. g[i - 1] = f[n] /\ i # 0 /\ ~(i <= n)
        BY <3>3
      <4> QED
        BY <3>3, <4>1
    <3> QED
      BY <3>1, <3>2, <3>3
  <2>3. g = h
    BY <2>2
  <2>4. TotalTo(g, s, n + 1)
    BY <2>3 DEF TotalTo
  <2> QED
    BY <2>4
<1> HIDE DEF T
<1>3. Nat \subseteq T
  BY <1>1, <1>2, NatSetInduction
<1> QED
  BY <1>3 DEF T

\* Total through its recursive function.
LEMMA TotalUnfolds ==
  ASSUME NEW s, NEW n \in Nat, Len(s) = n
  PROVE  \E f : /\ Total(s) = f[n] /\ f[0] = 0
                /\ \A i \in 0 .. n - 1 : f[i + 1] = f[i] + s[i + 1]
<1>1. Total(s) = (CHOOSE f : TotalTo(f, s, n))[n]
  BY DEF Total, TotalTo
<1>2. PICK f : TotalTo(f, s, n) /\ Total(s) = f[n]
  BY <1>1, TotalExists
<1>3. f[0] = 0
  BY <1>2 DEF TotalTo
<1>4. ASSUME NEW i \in 0 .. n - 1 PROVE f[i + 1] = f[i] + s[i + 1]
  <2>1. i + 1 \in 0 .. n /\ i + 1 # 0 /\ (i + 1) - 1 = i
    OBVIOUS
  <2> QED
    BY <1>2, <2>1 DEF TotalTo
<1> QED
  BY <1>2, <1>3, <1>4

\* The totals of integers are integers, those of naturals naturals.
LEMMA TotalType ==
  ASSUME NEW S \in {Int, Nat}, NEW s \in Seq(S)
  PROVE  Total(s) \in S
<1> DEFINE n == Len(s)
<1>1. n \in Nat /\ \A i \in 0 .. n - 1 : s[i + 1] \in S
  OBVIOUS
<1> HIDE DEF n
<1>2. PICK f : /\ Total(s) = f[n] /\ f[0] = 0
               /\ \A i \in 0 .. n - 1 : f[i + 1] = f[i] + s[i + 1]
  BY <1>1, TotalUnfolds DEF n
<1> DEFINE T == {i \in Nat : i <= n => f[i] \in S}
<1>3. 0 \in T
  BY <1>2
<1>4. ASSUME NEW i \in Nat, i \in T PROVE i + 1 \in T
  <2> SUFFICES ASSUME i + 1 <= n PROVE f[i + 1] \in S
    OBVIOUS
  <2>1. i \in 0 .. n - 1 /\ f[i] \in S
    BY <1>1, <1>4
  <2>2. f[i + 1] = f[i] + s[i + 1] /\ s[i + 1] \in S
    BY <1>1, <1>2, <2>1
  <2>3. \A a, b \in S : a + b \in S
    OBVIOUS
  <2> QED
    BY <2>1, <2>2, <2>3
<1> HIDE DEF T
<1>5. n \in T
  BY <1>1, <1>3, <1>4, NatSetInduction
<1> QED
  BY <1>1, <1>2, <1>5 DEF T

\* Total of one element more.
LEMMA TotalAppend ==
  ASSUME NEW s \in Seq(Int), NEW x \in Int
  PROVE  Total(Append(s, x)) = Total(s) + x
<1> DEFINE n == Len(s)
           q == Append(s, x)
<1>1. n \in Nat /\ Len(q) = n + 1 /\ q[n + 1] = x /\ \A i \in 0 .. n - 1 : q[i + 1] = s[i + 1]
  OBVIOUS
<1> HIDE DEF n, q
<1>2. PICK f : /\ Total(s) = f[n] /\ f[0] = 0
               /\ \A i \in 0 .. n - 1 : f[i + 1] = f[i] + s[i + 1]
  BY <1>1, TotalUnfolds DEF n
<1>3. PICK g : /\ Total(q) = g[n + 1] /\ g[0] = 0
               /\ \A i \in 0 .. (n + 1) - 1 : g[i + 1] = g[i] + q[i + 1]
  <2>1. n + 1 \in Nat
    BY <1>1
  <2> QED
    BY <1>1, <2>1, TotalUnfolds
<1> DEFINE T == {i \in Nat : i <= n => f[i] = g[i]}
<1>4. 0 \in T
  BY <1>2, <1>3
<1>5. ASSUME NEW i \in Nat, i \in T PROVE i + 1 \in T
  <2> SUFFICES ASSUME i + 1 <= n PROVE f[i + 1] = g[i + 1]
    OBVIOUS
  <2>1. i \in 0 .. n - 1 /\ i \in 0 .. (n + 1) - 1 /\ f[i] = g[i]
    BY <1>1, <1>5
  <2> QED
    BY <1>1, <1>2, <1>3, <2>1
<1> HIDE DEF T
<1>6. n \in T
  BY <1>1, <1>4, <1>5, NatSetInduction
<1>7. f[n] = g[n]
  BY <1>1, <1>6 DEF T
<1>8. g[n + 1] = g[n] + x
  <2>1. n \in 0 .. (n + 1) - 1
    BY <1>1
  <2> QED
    BY <1>1, <1>3, <2>1
<1> QED
  BY <1>2, <1>3, <1>7, <1>8 DEF q

\* Total of nothing, and of zeros.
LEMMA TotalZero ==
  ASSUME NEW n \in Nat
  PROVE  Total([i \in 1 .. n |-> 0]) = 0
<1> DEFINE s == [i \in 1 .. n |-> 0]
<1>1. Len(s) = n /\ \A i \in 0 .. n - 1 : s[i + 1] = 0
  OBVIOUS
<1> HIDE DEF s
<1>2. PICK f : /\ Total(s) = f[n] /\ f[0] = 0
               /\ \A i \in 0 .. n - 1 : f[i + 1] = f[i] + s[i + 1]
  BY <1>1, TotalUnfolds
<1> DEFINE T == {i \in Nat : i <= n => f[i] = 0}
<1>3. 0 \in T
  BY <1>2
<1>4. ASSUME NEW i \in Nat, i \in T PROVE i + 1 \in T
  <2> SUFFICES ASSUME i + 1 <= n PROVE f[i + 1] = 0
    OBVIOUS
  <2>1. i \in 0 .. n - 1 /\ f[i] = 0
    BY <1>4
  <2> QED
    BY <1>1, <1>2, <2>1
<1> HIDE DEF T
<1>5. n \in T
  BY <1>3, <1>4, NatSetInduction
<1> QED
  BY <1>2, <1>5 DEF T, s

\* Total when one element is replaced.
LEMMA TotalExcept ==
  ASSUME NEW n \in Nat, NEW s \in [1 .. n -> Int], NEW k \in 1 .. n, NEW x \in Int
  PROVE  Total([s EXCEPT ![k] = x]) = Total(s) - s[k] + x
<1> DEFINE q == [s EXCEPT ![k] = x]
<1>1. /\ s \in Seq(Int) /\ Len(s) = n
      /\ q \in Seq(Int) /\ Len(q) = n
  OBVIOUS
<1>2. \A i \in 1 .. n : q[i] = IF i = k THEN x ELSE s[i]
  OBVIOUS
<1> HIDE DEF q
<1>3. PICK f : /\ Total(s) = f[n] /\ f[0] = 0
               /\ \A i \in 0 .. n - 1 : f[i + 1] = f[i] + s[i + 1]
  BY <1>1, TotalUnfolds
<1>4. PICK g : /\ Total(q) = g[n] /\ g[0] = 0
               /\ \A i \in 0 .. n - 1 : g[i + 1] = g[i] + q[i + 1]
  BY <1>1, TotalUnfolds
<1> DEFINE T == {i \in Nat : i <= n => /\ f[i] \in Int
                                       /\ g[i] = IF i < k THEN f[i] ELSE f[i] - s[k] + x}
<1>5. 0 \in T
  BY <1>3, <1>4
<1>6. ASSUME NEW i \in Nat, i \in T PROVE i + 1 \in T
  <2> SUFFICES ASSUME i + 1 <= n
               PROVE  /\ f[i + 1] \in Int
                      /\ g[i + 1] = IF i + 1 < k THEN f[i + 1] ELSE f[i + 1] - s[k] + x
    OBVIOUS
  <2>1. i \in 0 .. n - 1 /\ i + 1 \in 1 .. n
    OBVIOUS
  <2>2. f[i] \in Int /\ g[i] = IF i < k THEN f[i] ELSE f[i] - s[k] + x
    BY <1>6
  <2>3. f[i + 1] = f[i] + s[i + 1] /\ g[i + 1] = g[i] + q[i + 1]
    BY <1>3, <1>4, <2>1
  <2>4. s[i + 1] \in Int /\ s[k] \in Int
    BY <2>1
  <2>5. q[i + 1] = IF i + 1 = k THEN x ELSE s[i + 1]
    BY <1>2, <2>1
  <2>6. CASE i + 1 = k
    <3>1. i < k /\ ~(i + 1 < k) /\ s[i + 1] = s[k]
      BY <2>6
    <3>2. g[i + 1] = f[i] + x /\ f[i + 1] = f[i] + s[k]
      BY <2>2, <2>3, <2>5, <2>6, <3>1
    <3>3. \A a, b \in Int : a + b \in Int /\ (a + b) - b + x = a + x
      OBVIOUS
    <3> QED
      BY <2>2, <2>4, <3>1, <3>2, <3>3
  <2>7. CASE i + 1 # k
    BY <2>2, <2>3, <2>4, <2>5, <2>7
  <2> QED
    BY <2>6, <2>7
<1> HIDE DEF T
<1>7. n \in T
  BY <1>5, <1>6, NatSetInduction
<1>8. ~(n < k)
  OBVIOUS
<1> QED
  BY <1>3, <1>4, <1>7, <1>8 DEF T, q

-----------------------------------------------------------------------------
(* The programs of the tools.                                              *)

\* A program, or a part of one: it sends last, and builds what it has loaded.
Formed(p) ==
  /\ p \in Seq(Steps)
  /\ SendsLast(p)
  /\ \A i \in 1 .. Len(p) : p[i] = "build" => LoadsBefore(p, i)

Silent(p) == Formed(p) /\ ~WillSend(p)

\* The parts that send nothing.
LEMMA SilentParts ==
  /\ Silent(<<>>) /\ Silent(<<"throw">>) /\ Silent(<<"spend">>) /\ Silent(<<"lookup">>)
  /\ Silent(<<"query">>) /\ Silent(<<"query", "query">>) /\ Silent(<<"read">>) /\ Silent(<<"refresh">>)
  /\ Silent(<<"load", "throw">>) /\ Silent(<<"load", "build">>)
  /\ Silent(<<"load", "read", "throw">>) /\ Silent(<<"load", "build", "simulate">>)
  BY DEF Silent, Formed, WillSend, SendsLast, LoadsBefore, Steps, Sending, Submits

\* The parts that send.
LEMMA SendingParts ==
  /\ Formed(<<"submit">>) /\ Formed(<<"submit_inner">>) /\ Formed(<<"send", "poll">>)
  /\ Formed(<<"load", "build", "submit">>) /\ Formed(<<"refresh", "build", "submit">>)
  /\ Formed(<<"load", "build", "submit_recover">>)
  /\ Formed(<<"load", "query", "build", "submit">>)
  /\ Formed(<<"load", "read", "build", "submit">>)
  BY DEF Formed, SendsLast, LoadsBefore, Steps, Sending, Submits

\* The elements of a concatenation.
LEMMA Concatenation ==
  ASSUME NEW S, NEW p \in Seq(S), NEW q \in Seq(S)
  PROVE  /\ p \o q \in Seq(S) /\ Len(p) \in Nat /\ Len(q) \in Nat /\ Len(p \o q) = Len(p) + Len(q)
         /\ \A i \in 1 .. Len(p) : (p \o q)[i] = p[i]
         /\ \A i \in 1 .. Len(q) : (p \o q)[Len(p) + i] = q[i]
  OBVIOUS

\* A part that sends nothing may come before any other.
LEMMA Joined ==
  ASSUME NEW p, NEW q, Silent(p), Formed(q)
  PROVE  /\ Formed(p \o q)
         /\ WillSend(p \o q) => WillSend(q)
         /\ Passed(p \o q) => Passed(q)
         /\ \A i \in 1 .. Len(p) : p[i] \in {"spend", "throw"} => ~Passed(p \o q)
         /\ p # <<>> \/ q # <<>> => p \o q # <<>>
<1> DEFINE c == p \o q
           m == Len(p)
           n == Len(q)
<1>1. p \in Seq(Steps) /\ q \in Seq(Steps)
  BY DEF Silent, Formed
<1>2. /\ c \in Seq(Steps) /\ m \in Nat /\ n \in Nat /\ Len(c) = m + n
      /\ \A i \in 1 .. m : c[i] = p[i]
      /\ \A i \in 1 .. n : c[m + i] = q[i]
  BY <1>1, Concatenation
<1> HIDE DEF c
<1>3. ASSUME NEW i \in 1 .. Len(c)
      PROVE  i \in 1 .. m \/ \E k \in 1 .. n : i = m + k /\ c[i] = q[k]
  <2>1. CASE i > m
    <3>1. i - m \in 1 .. n /\ i = m + (i - m)
      BY <1>2, <2>1
    <3> QED
      BY <1>2, <3>1
  <2> QED
    BY <1>2, <2>1
<1>4. ASSUME NEW i \in 1 .. m PROVE c[i] \notin Sending /\ c[i] = p[i]
  BY <1>2, <1>4 DEF Silent, WillSend
<1>5. SendsLast(c)
  <2> SUFFICES ASSUME NEW i \in 1 .. Len(c)
               PROVE  /\ c[i] \in Submits => i = Len(c)
                      /\ c[i] = "send" => i = Len(c) - 1 /\ c[Len(c)] = "poll"
    BY DEF SendsLast
  <2>1. CASE i \in 1 .. m
    BY <1>4, <2>1 DEF Sending
  <2>2. CASE \E k \in 1 .. n : i = m + k /\ c[i] = q[k]
    <3>1. PICK k \in 1 .. n : i = m + k /\ c[i] = q[k]
      BY <2>2
    <3>2. /\ q[k] \in Submits => k = n
          /\ q[k] = "send" => k = n - 1 /\ q[n] = "poll"
      BY DEF Formed, SendsLast
    <3>3. c[m + n] = q[n]
      BY <1>2, <3>1
    <3>4. Len(c) = m + n
      BY <1>2
    <3>5. c[i] = "send" => c[Len(c)] = "poll"
      BY <3>1, <3>2, <3>3, <3>4
    <3>6. c[i] = "send" => i = Len(c) - 1
      BY <1>2, <3>1, <3>2, <3>4
    <3>7. c[i] \in Submits => i = Len(c)
      BY <3>1, <3>2, <3>4
    <3> QED
      BY <3>5, <3>6, <3>7
  <2> QED
    BY <1>3, <2>1, <2>2
<1>6. ASSUME NEW i \in 1 .. Len(c), c[i] = "build" PROVE LoadsBefore(c, i)
  <2>1. CASE i \in 1 .. m
    <3>1. LoadsBefore(p, i)
      BY <1>2, <1>6, <2>1 DEF Silent, Formed
    <3>2. PICK k \in 1 .. i - 1 : p[k] \in {"load", "refresh"}
      BY <3>1 DEF LoadsBefore
    <3>3. k \in 1 .. m
      BY <1>2, <2>1
    <3> QED
      BY <1>2, <3>2, <3>3 DEF LoadsBefore
  <2>2. CASE \E k \in 1 .. n : i = m + k /\ c[i] = q[k]
    <3>1. PICK k \in 1 .. n : i = m + k /\ c[i] = q[k]
      BY <2>2
    <3>2. LoadsBefore(q, k)
      BY <1>6, <3>1 DEF Formed
    <3>3. PICK h \in 1 .. k - 1 : q[h] \in {"load", "refresh"}
      BY <3>2 DEF LoadsBefore
    <3>4. h \in 1 .. n /\ m + h \in 1 .. i - 1 /\ c[m + h] = q[h]
      BY <1>2, <3>1
    <3> QED
      BY <3>3, <3>4 DEF LoadsBefore
  <2> QED
    BY <1>3, <2>1, <2>2
<1>7. WillSend(c) => WillSend(q)
  BY <1>3, <1>4 DEF WillSend
<1>8. ASSUME Passed(c) PROVE Passed(q) /\ \A i \in 1 .. m : p[i] \notin {"spend", "throw"}
  <2>1. PICK i \in 1 .. Len(c) :
          c[i] \in Sending /\ \A k \in 1 .. i - 1 : c[k] \notin {"spend", "throw"}
    BY <1>8 DEF Passed
  <2>2. PICK h \in 1 .. n : i = m + h /\ c[i] = q[h]
    BY <1>3, <1>4, <2>1
  <2>3. ASSUME NEW k \in 1 .. h - 1 PROVE q[k] \notin {"spend", "throw"}
    <3>1. k \in 1 .. n /\ m + k \in 1 .. i - 1
      BY <1>2, <2>2
    <3> QED
      BY <1>2, <2>1, <3>1
  <2>4. ASSUME NEW k \in 1 .. m PROVE p[k] \notin {"spend", "throw"}
    <3>1. k \in 1 .. i - 1
      BY <1>2, <2>2
    <3> QED
      BY <1>2, <2>1, <3>1
  <2> QED
    BY <2>1, <2>2, <2>3, <2>4 DEF Passed
<1>9. p # <<>> \/ q # <<>> => c # <<>>
  <2>1. p # <<>> => m > 0
    BY <1>1
  <2>2. q # <<>> => n > 0
    BY <1>1
  <2>3. c = <<>> => Len(c) = 0
    OBVIOUS
  <2> QED
    BY <1>2, <2>1, <2>2, <2>3
<1> QED
  BY <1>2, <1>5, <1>6, <1>7, <1>8, <1>9 DEF Formed, c

\* A program is a part that is not empty.
Whole(p) == Formed(p) /\ p # <<>>

\* What passes the guard is going to send.
LEMMA PassedSends == \A p : Passed(p) => WillSend(p)
  BY DEF Passed, WillSend

\* When: the program, or an error that sends nothing.
LEMMA WhenWhole ==
  ASSUME NEW valid, NEW p, Whole(p)
  PROVE  /\ Whole(When(valid, p))
         /\ WillSend(When(valid, p)) => valid /\ WillSend(p)
         /\ Passed(When(valid, p)) => valid /\ Passed(p)
<1>1. Whole(<<"throw">>) /\ ~WillSend(<<"throw">>)
  BY SilentParts DEF Whole, Silent
<1> QED
  BY <1>1, PassedSends DEF When

\* The programs that consist of one part.
LEMMA WholeParts ==
  /\ \A p \in {<<"throw">>, <<"lookup">>, <<"query">>, <<"query", "query">>, <<"read">>, <<"refresh">>,
               <<"load", "throw">>, <<"load", "build">>, <<"load", "read", "throw">>,
               <<"load", "build", "simulate">>} : Whole(p) /\ ~WillSend(p)
  /\ \A p \in {<<"submit_inner">>, <<"load", "build", "submit">>, <<"refresh", "build", "submit">>,
               <<"load", "build", "submit_recover">>, <<"load", "query", "build", "submit">>,
               <<"load", "read", "build", "submit">>} : Whole(p)
  BY SilentParts, SendingParts DEF Whole, Silent

\* The tools whose transactions no guard stands before.
LEMMA ClassicWhole ==
  ASSUME NEW in
  PROVE  /\ Whole(DexOffer(in)) /\ Whole(LiquidityPool(in)) /\ Whole(ClaimableBalance(in))
         /\ Whole(FeeBump(in)) /\ Whole(DataEntry(in)) /\ Whole(Inflation(in))
         /\ Whole(SequenceNumber(in)) /\ Whole(SponsoredAccount(in)) /\ Whole(Trustline(in))
         /\ Whole(SetOptions(in)) /\ Whole(MultiOp(in))
<1>1. Whole(DexOffer(in))
  <2> DEFINE p == IF in.action = "create" THEN <<>> ELSE <<"query">>
  <2>1. Silent(p) /\ Formed(Transact) /\ Transact # <<>>
    BY SilentParts, SendingParts DEF Transact
  <2> HIDE DEF p
  <2>2. Whole(p \o Transact)
    BY <2>1, Joined DEF Whole
  <2> QED
    BY <2>2, WhenWhole DEF DexOffer, p
<1>2. Whole(LiquidityPool(in))
  BY WholeParts, WhenWhole DEF LiquidityPool, Transact
<1>3. Whole(ClaimableBalance(in))
  <2>1. Whole(IF in.action = "claim" THEN <<"load", "query", "build", "submit">>
              ELSE IF AssetOk(in.asset) /\ in.amount > 0 THEN Transact ELSE <<"load", "throw">>)
    BY WholeParts DEF Transact
  <2> QED
    BY <2>1, WhenWhole DEF ClaimableBalance
<1>4. Whole(FeeBump(in))
  BY WholeParts, WhenWhole DEF FeeBump
<1>5. Whole(DataEntry(in))
  <2>1. Whole(CASE in.action \in {"set", "delete"} -> Transact
                [] in.account = "agent"            -> <<"read">>
                [] OTHER                           -> <<"lookup">>)
    BY WholeParts DEF Transact
  <2> QED
    BY <2>1, WhenWhole DEF DataEntry
<1>6. Whole(Inflation(in))
  <2>1. Whole(CASE in.action = "set"     -> Transact
                [] in.account = "agent"  -> <<"read">>
                [] OTHER                 -> <<"lookup">>)
    BY WholeParts DEF Transact
  <2> QED
    BY <2>1, WhenWhole DEF Inflation
<1>7. Whole(SequenceNumber(in))
  <2>1. Whole(CASE in.action = "bump"   -> <<"refresh", "build", "submit">>
                [] in.account = "agent" -> <<"refresh">>
                [] OTHER                -> <<"lookup">>)
    BY WholeParts
  <2> QED
    BY <2>1, WhenWhole DEF SequenceNumber
<1>8. Whole(SponsoredAccount(in))
  <2>1. Whole(IF in.startingBalance >= 0 THEN Transact ELSE <<"load", "throw">>)
    BY WholeParts DEF Transact
  <2> QED
    BY <2>1, WhenWhole DEF SponsoredAccount
<1>9. Whole(Trustline(in))
  <2>1. Whole(CASE in.action = "add"  -> Transact
                [] in.balance > 0     -> <<"load", "read", "throw">>
                [] OTHER              -> <<"load", "read", "build", "submit">>)
    BY WholeParts DEF Transact
  <2> QED
    BY <2>1, WhenWhole DEF Trustline
<1>10. Whole(SetOptions(in))
  BY WholeParts, WhenWhole DEF SetOptions, Transact
<1>11. Whole(MultiOp(in))
  <2>1. Whole(IF ~MultiOpMemoOk(in.memoType, in.memo) THEN <<"load", "throw">>
              ELSE IF in.simulateOnly THEN <<"load", "build">> ELSE Transact)
    BY WholeParts DEF Transact
  <2> QED
    BY <2>1, WhenWhole DEF MultiOp
<1> QED
  BY <1>1, <1>2, <1>3, <1>4, <1>5, <1>6, <1>7, <1>8, <1>9, <1>10, <1>11

\* The payments without a window: multi-signature, path and swap.
LEMMA PathsWhole ==
  ASSUME NEW in
  PROVE  Whole(MultiSigPayment(in)) /\ Whole(PathPayment(in)) /\ Whole(Swap(in))
<1>1. Whole(MultiSigPayment(in))
  <2> DEFINE q == IF Len(in.signatures) < in.minSignatures THEN <<>>
                  ELSE IF "garbled" \in Range(in.signatures) THEN <<"throw">>
                  ELSE <<"submit">>
  <2>1. Silent(<<"load", "build">>) /\ Formed(q) /\ <<"load", "build">> # <<>>
    BY SilentParts, SendingParts DEF Silent
  <2> HIDE DEF q
  <2>2. Whole(<<"load", "build">> \o q)
    BY <2>1, Joined DEF Whole
  <2> QED
    BY <2>2, WhenWhole DEF MultiSigPayment, q
<1>2. ASSUME NEW i PROVE Whole(PathPayment(i))
  <2> DEFINE p == IF i.path = <<>> THEN <<"query">> ELSE <<>>
             q == IF MemoOk(i.memoType, i.memo) THEN <<"load", "build", "submit_recover">>
                  ELSE <<"load", "throw">>
  <2>1. Silent(p) /\ Formed(q) /\ q # <<>>
    BY SilentParts, SendingParts DEF Silent
  <2> HIDE DEF p, q
  <2>2. Whole(p \o q)
    BY <2>1, Joined DEF Whole
  <2> QED
    BY <2>2, WhenWhole DEF PathPayment, p, q
<1>3. Whole(Swap(in))
  <2> DEFINE best  == BestQuote(in.quotes)
             worst == CHOOSE q \in Range(in.quotes) : \A r \in Range(in.quotes) : q.amount <= r.amount
             path  == PathPayment([destination |-> "agent", sendAsset |-> in.sellAsset,
                             sendAmount |-> in.sellAmount, destAsset |-> in.buyAsset,
                             destMinAmount |-> best.amount * (100 - in.maxSlippagePct),
                             path |-> best.path, allowSelfPayment |-> TRUE,
                             memoType |-> "text", memo |-> "none"])
             good  == /\ in.quotes # <<>>
                      /\ best.amount > 0
                      /\ (best.amount - worst.amount) * 100 <= in.maxSlippagePct * best.amount
  <2>1. Whole(path)
    BY <1>2
  <2>2. Swap(in) = When(SwapInput(in) /\ AssetOk(in.sellAsset) /\ AssetOk(in.buyAsset),
                        <<"query">> \o When(good, path))
    BY DEF Swap
  <2> HIDE DEF path, good
  <2>3. Whole(When(good, path))
    BY <2>1, WhenWhole
  <2>4. Whole(<<"query">> \o When(good, path))
    BY <2>3, SilentParts, Joined DEF Whole
  <2> QED
    BY <2>2, <2>4, WhenWhole
<1> QED
  BY <1>1, <1>2, <1>3

\* The elements of a sequence.
LEMMA Elements ==
  ASSUME NEW S, NEW s \in Seq(S)
  PROVE  /\ Len(s) \in Nat /\ DOMAIN s = 1 .. Len(s)
         /\ \A i \in 1 .. Len(s) : s[i] \in S
  OBVIOUS

\* What the debits of an invocation and the payments of a batch add up to.
LEMMA TotalsOfTasks ==
  ASSUME NEW t \in Tasks
  PROVE  /\ t.type = "batch_payment" => BatchTotal(t.in) \in Int
         /\ t.type = "soroban_invoke" => SacTransferTotal(t.in.events) \in Nat
<1>1. ASSUME t.type = "batch_payment" PROVE BatchTotal(t.in) \in Int
  <2>1. t.in.payments \in Seq([amount : Int, asset : STRING])
    BY <1>1, TaskAssumption
  <2>2. \A i \in 1 .. Len(t.in.payments) : t.in.payments[i] \in [amount : Int, asset : STRING]
    BY <2>1, Elements
  <2>3. \A i \in 1 .. Len(t.in.payments) : t.in.payments[i].amount \in Int
    BY <2>2
  <2>4. DOMAIN t.in.payments = 1 .. Len(t.in.payments) /\ Len(t.in.payments) \in Nat
    BY <2>1
  <2>5. [i \in DOMAIN t.in.payments |-> t.in.payments[i].amount] \in Seq(Int)
    BY <2>3, <2>4
  <2> QED
    BY <2>5, TotalType DEF BatchTotal
<1>2. ASSUME t.type = "soroban_invoke" PROVE SacTransferTotal(t.in.events) \in Nat
  <2>1. t.in.events \in Seq([successful : BOOLEAN, name : STRING, from : STRING, amount : Nat])
    BY <1>2, TaskAssumption
  <2>2. DOMAIN t.in.events = 1 .. Len(t.in.events) /\ Len(t.in.events) \in Nat
    BY <2>1
  <2>3. \A i \in DOMAIN t.in.events :
          t.in.events[i] \in [successful : BOOLEAN, name : STRING, from : STRING, amount : Nat]
    BY <2>1, Elements
  <2>4. \A i \in DOMAIN t.in.events : t.in.events[i].amount \in Nat
    BY <2>3
  <2>5. \A i \in DOMAIN t.in.events : Debit(t.in.events[i]) \in Nat
    BY <2>4 DEF Debit
  <2>6. [i \in DOMAIN t.in.events |-> Debit(t.in.events[i])] \in Seq(Nat)
    BY <2>2, <2>5
  <2> QED
    BY <2>6, TotalType DEF SacTransferTotal
<1> QED
  BY <1>1, <1>2

\* A payment is counted before anything else.
LEMMA PaymentWhole ==
  ASSUME NEW in
  PROVE  Whole(StellarPayment(in)) /\ ~Passed(StellarPayment(in))
<1> DEFINE p == IF MemoOk(in.memoType, in.memo) THEN <<"load", "build", "submit_recover">>
                ELSE <<"load", "throw">>
           ok == PaymentInput(in) /\ in.destination # "agent" /\ AssetOk(in.asset)
<1>1. Whole(p)
  BY WholeParts
<1>2. StellarPayment(in) = <<"spend">> \o When(ok, p)
  BY DEF StellarPayment
<1> HIDE DEF p, ok
<1>3. Whole(When(ok, p))
  BY <1>1, WhenWhole
<1>4. Silent(<<"spend">>) /\ 1 \in 1 .. Len(<<"spend">>) /\ <<"spend">>[1] = "spend"
  BY SilentParts
<1> QED
  BY <1>2, <1>3, <1>4, Joined DEF Whole

\* A batch that is sent stays within the limit.
LEMMA BatchWhole ==
  ASSUME NEW in
  PROVE  /\ Whole(BatchPayment(in))
         /\ WillSend(BatchPayment(in)) => BatchTotal(in) <= AGENT_SPENDING_LIMIT
         /\ ~Counts(BatchPayment(in))
<1> DEFINE ok == /\ BatchPaymentInput(in)
                 /\ BatchTotal(in) <= AGENT_SPENDING_LIMIT
                 /\ \A p \in Range(in.payments) : AssetOk(p.asset)
<1>1. BatchPayment(in) = When(ok, Transact)
  BY DEF BatchPayment
<1>2. ok => BatchTotal(in) <= AGENT_SPENDING_LIMIT
  OBVIOUS
<1>3. Whole(Transact)
  BY WholeParts DEF Transact
<1>4. ~Counts(Transact) /\ ~Counts(<<"throw">>)
  BY DEF Counts, Transact
<1> HIDE DEF ok
<1>5. ~Counts(When(ok, Transact))
  BY <1>4 DEF When
<1> QED
  BY <1>1, <1>2, <1>3, <1>5, WhenWhole

\* An invocation is counted or refused before it is sent, unless it takes
\* nothing from the agent; a simulation is not sent.
LEMMA InvokeWhole ==
  ASSUME NEW in, SacTransferTotal(in.events) \in Nat
  PROVE  /\ Whole(SorobanInvoke(in))
         /\ in.simulateOnly => ~WillSend(SorobanInvoke(in))
         /\ Passed(SorobanInvoke(in)) => SacTransferTotal(in.events) = 0
<1> DEFINE total == SacTransferTotal(in.events)
           a == AssertSacTransfers(total, ~in.simulateOnly)
           b == IF in.simulateOnly THEN <<>> ELSE <<"send", "poll">>
           w == When(in.fee <= MAX_SOROBAN_FEE_STROOPS, a \o b)
<1>1. /\ a \in {<<>>, <<"throw">>, <<"spend">>}
      /\ a = <<>> /\ ~in.simulateOnly => total = 0
  BY ToolAssumption DEF AssertSacTransfers
<1>2. SorobanInvoke(in) = <<"load", "build", "simulate">> \o w
  BY DEF SorobanInvoke
<1>3. Silent(a)
  BY <1>1, SilentParts
<1>4. Formed(b) /\ (in.simulateOnly => ~WillSend(b))
  BY SilentParts, SendingParts DEF Silent
<1>5. a # <<>> => 1 \in 1 .. Len(a) /\ a[1] \in {"spend", "throw"}
  BY <1>1
<1> HIDE DEF a, b, total
<1>6. /\ Formed(a \o b) /\ (WillSend(a \o b) => WillSend(b))
      /\ Passed(a \o b) => a = <<>> /\ Passed(b)
  BY <1>3, <1>4, <1>5, Joined
<1>7. /\ Formed(w)
      /\ WillSend(w) => WillSend(b)
      /\ Passed(w) => a = <<>> /\ Passed(b)
  <2>1. Formed(<<"throw">>) /\ ~WillSend(<<"throw">>)
    BY SilentParts DEF Silent
  <2> QED
    BY <1>6, <2>1, PassedSends DEF When
<1> HIDE DEF w
<1>8. Silent(<<"load", "build", "simulate">>) /\ <<"load", "build", "simulate">> # <<>>
  BY SilentParts
<1>9. /\ Whole(<<"load", "build", "simulate">> \o w)
      /\ WillSend(<<"load", "build", "simulate">> \o w) => WillSend(w)
      /\ Passed(<<"load", "build", "simulate">> \o w) => Passed(w)
  BY <1>7, <1>8, Joined DEF Whole
<1>10. Passed(w) => total = 0
  BY <1>1, <1>4, <1>7, PassedSends
<1> QED
  BY <1>2, <1>4, <1>7, <1>9, <1>10 DEF total

\* The tools that promise to change nothing.
LEMMA DryTools ==
  ASSUME NEW in
  PROVE  /\ \A p \in {SorobanQuery(in), SorobanStorage(in), AccountInfo(in), BalanceCheck(in),
                      SorobanDeploy(in), AccountHistory(in), StellarToml(in),
                      AnchorQuote(in)} : Whole(p) /\ ~WillSend(p)
         /\ in.simulateOnly => ~WillSend(MultiOp(in))
         /\ Len(in.signatures) < in.minSignatures => ~WillSend(MultiSigPayment(in))
         /\ in.action \in {"info", "get"} =>
              \A p \in {LiquidityPool(in), DataEntry(in), Inflation(in), SequenceNumber(in)} :
                ~WillSend(p)
<1>1. /\ Whole(SorobanQuery(in)) /\ ~WillSend(SorobanQuery(in))
      /\ Whole(AccountInfo(in)) /\ ~WillSend(AccountInfo(in))
  BY WholeParts DEF SorobanQuery, AccountInfo
<1>2. Whole(SorobanStorage(in)) /\ ~WillSend(SorobanStorage(in))
  BY WholeParts, WhenWhole DEF SorobanStorage
<1>3. Whole(BalanceCheck(in)) /\ ~WillSend(BalanceCheck(in))
  <2> DEFINE p == IF in.account = "agent" THEN <<"read">> ELSE <<"lookup">>
  <2>1. Whole(p) /\ ~WillSend(p)
    BY WholeParts
  <2> HIDE DEF p
  <2> QED
    BY <2>1, WhenWhole DEF BalanceCheck, p
<1>4. Whole(SorobanDeploy(in)) /\ ~WillSend(SorobanDeploy(in))
  <2> DEFINE p == IF in.action = "deploy" THEN <<"query", "query">> ELSE <<"query">>
             ok == IF in.action = "instantiate" THEN in.wasmHash # "none" ELSE in.wasm # "none"
  <2>1. Whole(p) /\ ~WillSend(p)
    BY WholeParts
  <2>2. SorobanDeploy(in) = When(ok, p)
    BY DEF SorobanDeploy
  <2> HIDE DEF p, ok
  <2> QED
    BY <2>1, <2>2, WhenWhole
<1>5. /\ Whole(AccountHistory(in)) /\ ~WillSend(AccountHistory(in))
      /\ Whole(StellarToml(in)) /\ ~WillSend(StellarToml(in))
      /\ Whole(AnchorQuote(in)) /\ ~WillSend(AnchorQuote(in))
  BY WholeParts, WhenWhole DEF AccountHistory, StellarToml, AnchorQuote
<1>6. ASSUME in.simulateOnly PROVE ~WillSend(MultiOp(in))
  <2> DEFINE p == IF ~MultiOpMemoOk(in.memoType, in.memo) THEN <<"load", "throw">>
                  ELSE IF in.simulateOnly THEN <<"load", "build">> ELSE Transact
  <2>1. Whole(p) /\ ~WillSend(p)
    BY <1>6, WholeParts
  <2> HIDE DEF p
  <2> QED
    BY <2>1, WhenWhole DEF MultiOp, p
<1>7. ASSUME Len(in.signatures) < in.minSignatures PROVE ~WillSend(MultiSigPayment(in))
  <2> DEFINE q == IF Len(in.signatures) < in.minSignatures THEN <<>>
                  ELSE IF "garbled" \in Range(in.signatures) THEN <<"throw">>
                  ELSE <<"submit">>
  <2>1. Silent(<<"load", "build">>) /\ Silent(q) /\ <<"load", "build">> # <<>>
    BY <1>7, SilentParts
  <2> HIDE DEF q
  <2>2. Whole(<<"load", "build">> \o q) /\ ~WillSend(<<"load", "build">> \o q)
    BY <2>1, Joined DEF Whole, Silent
  <2> QED
    BY <2>2, WhenWhole DEF MultiSigPayment, q
<1>8. ASSUME in.action \in {"info", "get"}
      PROVE  /\ ~WillSend(LiquidityPool(in)) /\ ~WillSend(DataEntry(in))
             /\ ~WillSend(Inflation(in)) /\ ~WillSend(SequenceNumber(in))
  <2>1. ~WillSend(LiquidityPool(in))
    <3>1. CASE in.action = "info"
      BY <3>1, WholeParts, WhenWhole DEF LiquidityPool
    <3>2. CASE in.action = "get"
      <4>1. ~LiquidityPoolInput(in)
        BY <3>2 DEF LiquidityPoolInput
      <4> QED
        BY <4>1, WholeParts DEF LiquidityPool, When
    <3> QED
      BY <1>8, <3>1, <3>2
  <2>2. ~WillSend(DataEntry(in))
    <3> DEFINE p == CASE in.action \in {"set", "delete"} -> Transact
                      [] in.account = "agent"            -> <<"read">>
                      [] OTHER                           -> <<"lookup">>
    <3>1. Whole(p) /\ ~WillSend(p)
      BY <1>8, WholeParts
    <3> HIDE DEF p
    <3> QED
      BY <3>1, WhenWhole DEF DataEntry, p
  <2>3. ~WillSend(Inflation(in))
    <3> DEFINE p == CASE in.action = "set"     -> Transact
                      [] in.account = "agent"  -> <<"read">>
                      [] OTHER                 -> <<"lookup">>
    <3>1. Whole(p) /\ ~WillSend(p)
      BY <1>8, WholeParts
    <3> HIDE DEF p
    <3> QED
      BY <3>1, WhenWhole DEF Inflation, p
  <2>4. ~WillSend(SequenceNumber(in))
    <3> DEFINE p == CASE in.action = "bump"   -> <<"refresh", "build", "submit">>
                      [] in.account = "agent" -> <<"refresh">>
                      [] OTHER                -> <<"lookup">>
    <3>1. Whole(p) /\ ~WillSend(p)
      BY <1>8, WholeParts
    <3> HIDE DEF p
    <3> QED
      BY <3>1, WhenWhole DEF SequenceNumber, p
  <2> QED
    BY <2>1, <2>2, <2>3, <2>4
<1> QED
  BY <1>1, <1>2, <1>3, <1>4, <1>5, <1>6, <1>7, <1>8

\* What the program of a task promises.
Fit(t) ==
  /\ Whole(Program(t))
  /\ IsDry(t) => ~WillSend(Program(t))
  /\ GuardOf(t) = "window" \/ Counts(Program(t)) => Value(t) \in Nat
  /\ GuardOf(t) = "window" /\ Passed(Program(t)) => Value(t) = 0
  /\ GuardOf(t) = "limit" /\ WillSend(Program(t)) => Value(t) <= AGENT_SPENDING_LIMIT
  /\ Value(t) \in Int

\* The types of the switch of executeTask that no guard stands before.
Unguarded ==
  {"multisig_payment", "path_payment", "swap", "dex_offer", "liquidity_pool", "claimable_balance",
   "fee_bump", "data_entry", "inflation", "sequence_number", "sponsored_account", "change_trust",
   "set_options", "multi_op", "soroban_query", "soroban_deploy", "soroban_storage",
   "account_info", "balance_check", "account_history", "stellar_toml", "anchor_quote"}

\* Every task has a program that keeps these promises.
LEMMA TasksFit ==
  ASSUME NEW t \in Tasks
  PROVE  Fit(t)
<1>1. CASE t.type = "stellar_payment"
  <2>1. /\ Program(t) = StellarPayment(t.in) /\ Value(t) = t.in.amount /\ GuardOf(t) = "window"
        /\ ~IsDry(t)
    BY <1>1 DEF Program, Value, GuardOf, IsDry
  <2>2. t.in.amount \in Nat
    BY <1>1, TaskAssumption
  <2> QED
    BY <2>1, <2>2, PaymentWhole DEF Fit
<1>2. CASE t.type = "batch_payment"
  <2>1. /\ Program(t) = BatchPayment(t.in) /\ Value(t) = BatchTotal(t.in) /\ GuardOf(t) = "limit"
        /\ ~IsDry(t)
    BY <1>2 DEF Program, Value, GuardOf, IsDry
  <2>2. BatchTotal(t.in) \in Int
    BY <1>2, TotalsOfTasks
  <2> QED
    BY <2>1, <2>2, BatchWhole DEF Fit
<1>3. CASE t.type = "soroban_invoke"
  <2>1. /\ Program(t) = SorobanInvoke(t.in) /\ Value(t) = SacTransferTotal(t.in.events)
        /\ GuardOf(t) = "window" /\ (IsDry(t) <=> t.in.simulateOnly)
    BY <1>3 DEF Program, Value, GuardOf, IsDry
  <2>2. SacTransferTotal(t.in.events) \in Nat
    BY <1>3, TotalsOfTasks
  <2> QED
    BY <2>1, <2>2, InvokeWhole DEF Fit
<1>4. CASE t.type \in Unguarded
  <2>1. GuardOf(t) = "none" /\ Value(t) = 0
    BY <1>4 DEF Unguarded, GuardOf, Value
  <2>2. Whole(Program(t))
    <3>1. CASE t.type \in {"multisig_payment", "path_payment", "swap"}
      BY <3>1, PathsWhole DEF Program
    <3>2. CASE t.type \in {"dex_offer", "liquidity_pool", "claimable_balance", "fee_bump",
                           "data_entry", "inflation", "sequence_number", "sponsored_account",
                           "change_trust", "set_options", "multi_op"}
      BY <3>2, ClassicWhole DEF Program
    <3>3. CASE t.type \in {"soroban_query", "soroban_deploy", "soroban_storage",
                           "account_info", "balance_check", "account_history",
                           "stellar_toml", "anchor_quote"}
      BY <3>3, DryTools DEF Program
    <3> QED
      BY <1>4, <3>1, <3>2, <3>3 DEF Unguarded
  <2>3. IsDry(t) => ~WillSend(Program(t))
    <3>1. CASE t.type \in {"soroban_query", "soroban_storage", "account_info", "balance_check",
                           "account_history", "stellar_toml", "anchor_quote"}
      BY <3>1, DryTools DEF Program
    <3>2. CASE t.type = "multi_op" /\ t.in.simulateOnly
      BY <3>2, DryTools DEF Program
    <3>3. CASE t.type = "multisig_payment" /\ Len(t.in.signatures) < t.in.minSignatures
      BY <3>3, DryTools DEF Program
    <3>4. CASE /\ t.type \in {"liquidity_pool", "data_entry", "inflation", "sequence_number"}
               /\ t.in.action \in {"info", "get"}
      BY <3>4, DryTools DEF Program
    <3> QED
      BY <1>4, <3>1, <3>2, <3>3, <3>4 DEF IsDry, Unguarded
  <2> QED
    BY <2>1, <2>2, <2>3 DEF Fit
<1>5. CASE t.type \notin {"stellar_payment", "batch_payment", "soroban_invoke"} \cup Unguarded
  <2>1. Program(t) = <<"throw">> /\ GuardOf(t) = "none" /\ Value(t) = 0
    BY <1>5 DEF Program, GuardOf, Value, Unguarded
  <2> QED
    BY <2>1, WholeParts DEF Fit
<1> QED
  BY <1>1, <1>2, <1>3, <1>4, <1>5

-----------------------------------------------------------------------------
(* One step of a program.                                                  *)

\* What a job has to do, and that it is not the idle slot.
LEMMA JobTodo ==
  ASSUME NEW j \in Jobs
  PROVE  /\ j.todo \in Seq(Steps) /\ j.todo # <<>> /\ Len(j.todo) \in Nat /\ Len(j.todo) >= 1
         /\ Head(j.todo) = j.todo[1] /\ j.todo[1] \in Steps /\ j # Idle
<1>1. j.todo \in Seq(Steps) /\ j.todo # <<>>
  BY DEF Jobs
<1>2. Idle.todo = <<>>
  BY DEF Idle
<1>3. j # Idle
  BY <1>1, <1>2
<1> DEFINE p == j.todo
<1> HIDE DEF p
<1>4. p \in Seq(Steps) /\ p # <<>>
  BY <1>1 DEF p
<1>5. Len(p) \in Nat /\ Len(p) >= 1 /\ Head(p) = p[1] /\ p[1] \in Steps
  BY <1>4
<1> QED
  BY <1>1, <1>3, <1>5 DEF p

\* The rest of a program.
LEMMA Tails ==
  ASSUME NEW p \in Seq(Steps), p # <<>>, Len(p) # 1
  PROVE  /\ Tail(p) \in Seq(Steps) /\ Tail(p) # <<>>
         /\ Len(p) \in Nat /\ Len(p) >= 2 /\ Len(Tail(p)) = Len(p) - 1
         /\ \A i \in 1 .. Len(p) - 1 : Tail(p)[i] = p[i + 1]
<1>1. Len(p) \in Nat /\ Len(p) >= 2
  <2>1. Len(p) \in Nat
    OBVIOUS
  <2>2. Len(p) # 0
    OBVIOUS
  <2>3. Len(p) # 1
    OBVIOUS
  <2> DEFINE n == Len(p)
  <2> HIDE DEF n
  <2>4. n \in Nat /\ n # 0 /\ n # 1
    BY <2>1, <2>2, <2>3 DEF n
  <2>5. n >= 2
    BY <2>4
  <2> QED
    BY <2>1, <2>5 DEF n
<1>2. Tail(p) \in Seq(Steps) /\ Len(Tail(p)) = Len(p) - 1
  BY <1>1
<1>3. Tail(p) # <<>>
  BY <1>1, <1>2
<1>4. \A i \in 1 .. Len(p) - 1 : Tail(p)[i] = p[i + 1]
  BY <1>1
<1> QED
  BY <1>1, <1>2, <1>3, <1>4

\* What the rest of a program inherits.
LEMMA TailInherits ==
  ASSUME NEW p \in Seq(Steps), p # <<>>, Len(p) # 1, SendsLast(p)
  PROVE  /\ SendsLast(Tail(p))
         /\ Tail(p)[Len(Tail(p))] = p[Len(p)]
         /\ WillSend(Tail(p)) => WillSend(p)
         /\ Counts(Tail(p)) => Counts(p)
         /\ p[1] \in Sending => ~WillSend(Tail(p))
         /\ Passed(Tail(p)) => Passed(p) \/ p[1] \in {"spend", "throw"}
         /\ \A i \in 1 .. Len(Tail(p)) :
              /\ Tail(p)[i] = p[i + 1] /\ i + 1 \in 1 .. Len(p)
              /\ LoadsBefore(p, i + 1) => LoadsBefore(Tail(p), i) \/ p[1] \in {"load", "refresh"}
<1> DEFINE q == Tail(p)
           n == Len(p)
<1>1. /\ q \in Seq(Steps) /\ n \in Nat /\ n >= 2 /\ Len(q) = n - 1
      /\ \A i \in 1 .. n - 1 : q[i] = p[i + 1]
  BY Tails
<1> HIDE DEF q
<1>2. \A i \in 1 .. n : /\ p[i] \in Submits => i = n
                        /\ p[i] = "send" => i = n - 1 /\ p[n] = "poll"
  BY DEF SendsLast
<1> HIDE DEF n
<1>3. SendsLast(q)
  <2> SUFFICES ASSUME NEW i \in 1 .. n - 1
               PROVE  /\ q[i] \in Submits => i = n - 1
                      /\ q[i] = "send" => i = n - 1 - 1 /\ q[n - 1] = "poll"
    BY <1>1 DEF SendsLast
  <2>1. i + 1 \in 1 .. n /\ q[i] = p[i + 1] /\ n - 1 \in 1 .. n - 1 /\ q[n - 1] = p[n]
    BY <1>1
  <2>2. /\ p[i + 1] \in Submits => i + 1 = n
        /\ p[i + 1] = "send" => i + 1 = n - 1 /\ p[n] = "poll"
    BY <1>2, <2>1
  <2>3. q[i] \in Submits => i = n - 1
    BY <1>1, <2>1, <2>2
  <2>4. q[i] = "send" => i = n - 1 - 1
    BY <1>1, <2>1, <2>2
  <2> QED
    BY <2>1, <2>2, <2>3, <2>4
<1>4. q[Len(q)] = p[n]
  BY <1>1
<1>5. WillSend(q) => WillSend(p)
  <2> SUFFICES ASSUME NEW i \in 1 .. n - 1, q[i] \in Sending PROVE WillSend(p)
    BY <1>1 DEF WillSend
  <2>1. i + 1 \in 1 .. n /\ q[i] = p[i + 1]
    BY <1>1
  <2> QED
    BY <2>1 DEF WillSend, n
<1>6. ASSUME p[1] \in Sending PROVE ~WillSend(q)
  <2>1. p[1] = "send" /\ n = 2 /\ p[2] = "poll"
    <3>1. 1 \in 1 .. n
      BY <1>1
    <3>2. p[1] \notin Submits
      BY <1>1, <1>2, <3>1
    <3>3. p[1] = "send"
      BY <1>6, <3>2 DEF Sending
    <3>4. 1 = n - 1 /\ p[n] = "poll"
      BY <1>2, <3>1, <3>3
    <3> QED
      BY <1>1, <3>3, <3>4
  <2>2. \A i \in 1 .. Len(q) : q[i] = "poll"
    BY <1>1, <2>1
  <2> QED
    BY <2>2 DEF WillSend, Sending, Submits
<1>7. ASSUME Passed(q), p[1] \notin {"spend", "throw"} PROVE Passed(p)
  <2>1. PICK i \in 1 .. n - 1 :
          q[i] \in Sending /\ \A k \in 1 .. i - 1 : q[k] \notin {"spend", "throw"}
    BY <1>1, <1>7 DEF Passed
  <2>2. i + 1 \in 1 .. n /\ p[i + 1] \in Sending
    BY <1>1, <2>1
  <2>3. ASSUME NEW k \in 1 .. (i + 1) - 1 PROVE p[k] \notin {"spend", "throw"}
    <3>1. CASE k = 1
      BY <1>7, <3>1
    <3>2. CASE k # 1
      <4>1. k - 1 \in 1 .. i - 1 /\ k - 1 \in 1 .. n - 1 /\ (k - 1) + 1 = k
        BY <1>1, <3>2
      <4>2. q[k - 1] = p[k]
        BY <1>1, <4>1
      <4> QED
        BY <2>1, <4>1, <4>2
    <3> QED
      BY <3>1, <3>2
  <2> QED
    BY <2>2, <2>3 DEF Passed, n
<1>8. ASSUME NEW i \in 1 .. n - 1, LoadsBefore(p, i + 1), p[1] \notin {"load", "refresh"}
      PROVE  LoadsBefore(q, i)
  <2>1. PICK k \in 1 .. (i + 1) - 1 : p[k] \in {"load", "refresh"}
    BY <1>8 DEF LoadsBefore
  <2>2. k - 1 \in 1 .. i - 1 /\ k - 1 \in 1 .. n - 1 /\ (k - 1) + 1 = k
    <3>1. k # 1
      BY <1>8, <2>1
    <3> QED
      BY <1>1, <3>1
  <2>3. q[k - 1] = p[k]
    BY <1>1, <2>2
  <2> QED
    BY <2>1, <2>2, <2>3 DEF LoadsBefore
<1>9. \A i \in 1 .. n - 1 : i + 1 \in 1 .. n
  BY <1>1
<1>10. Counts(q) => Counts(p)
  <2> SUFFICES ASSUME NEW i \in 1 .. n - 1, q[i] = "spend" PROVE Counts(p)
    BY <1>1 DEF Counts
  <2> QED
    BY <1>1, <1>9 DEF Counts, n
<1> QED
  BY <1>1, <1>3, <1>4, <1>5, <1>6, <1>7, <1>8, <1>9, <1>10 DEF q, n

\* What a step leaves as it is in a job.
Keeps(j, k) ==
  /\ k.n = j.n /\ k.value = j.value /\ k.guard = j.guard /\ k.dry = j.dry
  /\ k.sends = j.sends /\ k.quiet = j.quiet
  /\ WillSend(k.todo) => WillSend(j.todo)

\* A job after one step of its program.
After(j) == [j EXCEPT !.todo = Tail(@)]

\* A sound job is sound after its next step, if a load has given it a record.
LEMMA SoundAfter ==
  ASSUME NEW j \in Jobs, Sound(j), ~j.asked, Len(j.todo) # 1,
         j.todo[1] \in {"load", "refresh"} => j.account # 0
  PROVE  /\ After(j) \in Jobs /\ Sound(After(j)) /\ Keeps(j, After(j))
         /\ j.todo[1] \in Sending => ~WillSend(After(j).todo)
         /\ Passed(After(j).todo) => Passed(j.todo) \/ j.todo[1] \in {"spend", "throw"}
<1> DEFINE k == After(j)
           p == j.todo
<1>1. p \in Seq(Steps) /\ p # <<>> /\ Len(p) # 1 /\ SendsLast(p)
  BY JobTodo DEF Sound
<1>2. /\ Tail(p) \in Seq(Steps) /\ Tail(p) # <<>> /\ Len(Tail(p)) = Len(p) - 1
      /\ Len(p) \in Nat /\ Len(p) >= 2
  BY <1>1, Tails
<1>3. /\ k \in Jobs /\ k.todo = Tail(p)
      /\ k.n = j.n /\ k.value = j.value /\ k.guard = j.guard /\ k.dry = j.dry /\ k.sends = j.sends
      /\ k.account = j.account /\ k.asked = j.asked /\ k.recovered = j.recovered
      /\ k.quiet = j.quiet /\ k.polls = j.polls
  BY <1>2 DEF After, Jobs
<1>4. /\ SendsLast(Tail(p))
      /\ Tail(p)[Len(Tail(p))] = p[Len(p)]
      /\ WillSend(Tail(p)) => WillSend(p)
      /\ Counts(Tail(p)) => Counts(p)
      /\ p[1] \in Sending => ~WillSend(Tail(p))
      /\ Passed(Tail(p)) => Passed(p) \/ p[1] \in {"spend", "throw"}
      /\ \A i \in 1 .. Len(Tail(p)) :
           /\ Tail(p)[i] = p[i + 1] /\ i + 1 \in 1 .. Len(p)
           /\ LoadsBefore(p, i + 1) => LoadsBefore(Tail(p), i) \/ p[1] \in {"load", "refresh"}
  BY <1>1, TailInherits
<1>5. ASSUME j.recovered PROVE Rebuilding(Tail(p))
  <2>1. /\ p[Len(p)] = "submit"
        /\ \A i \in 1 .. Len(p) - 1 : \/ p[i] = "refresh" /\ p[i + 1] = "build"
                                      \/ p[i] = "build" /\ p[i + 1] = "submit"
    BY <1>5 DEF Sound, Rebuilding
  <2>2. ASSUME NEW i \in 1 .. Len(Tail(p)) - 1
        PROVE  i + 1 \in 1 .. Len(p) - 1 /\ i \in 1 .. Len(Tail(p)) /\ i + 1 \in 1 .. Len(Tail(p))
    BY <1>2
  <2>3. \A i \in 1 .. Len(Tail(p)) - 1 : Tail(p)[i] = p[i + 1] /\ Tail(p)[i + 1] = p[(i + 1) + 1]
    BY <1>4, <2>2
  <2> QED
    BY <1>4, <2>1, <2>2, <2>3 DEF Rebuilding
<1> HIDE DEF k, p
<1>6. \A i \in 1 .. Len(Tail(p)) : Tail(p)[i] = "build" => j.account # 0 \/ LoadsBefore(Tail(p), i)
  <2> SUFFICES ASSUME NEW i \in 1 .. Len(Tail(p)), Tail(p)[i] = "build", j.account = 0
               PROVE  LoadsBefore(Tail(p), i)
    OBVIOUS
  <2>1. p[i + 1] = "build" /\ i + 1 \in 1 .. Len(p)
    BY <1>4
  <2>2. LoadsBefore(p, i + 1)
    BY <2>1 DEF Sound, p
  <2> QED
    BY <1>4, <2>2 DEF p
<1>7. j.sends => Tail(p)[Len(Tail(p))] \in Submits \cup {"poll"}
  BY <1>4 DEF Sound, p
<1>8. Sound(k)
  <2>1. /\ j.guard = "window" \/ Counts(p) => j.value \in Nat
        /\ WillSend(p) => ~j.dry /\ (j.guard = "limit" => j.value <= AGENT_SPENDING_LIMIT)
        /\ j.polls < MAX_ATTEMPTS
    BY DEF Sound, p
  <2> QED
    BY <1>3, <1>4, <1>5, <1>6, <1>7, <2>1 DEF Sound
<1> QED
  BY <1>3, <1>4, <1>8 DEF Keeps, k, p

\* What a step of slot s does to its job: it ends, or goes on as a good one.
Goes(s) ==
  \/ job' = [job EXCEPT ![s] = Idle]
  \/ \E k \in Jobs :
       /\ job' = [job EXCEPT ![s] = k] /\ Good(k)' /\ Keeps(job[s], k)
       /\ Passed(k.todo) => Passed(job[s].todo) \/ Head(job[s].todo) = "spend"

\* A task that is reported as successful has landed.
Reports(s) ==
  \/ resolved' = resolved
  \/ resolved' = resolved \cup {job[s].n} /\ \E i \in DOMAIN landed' : landed'[i].n = job[s].n

\* The job of a busy slot.
LEMMA BusyJob ==
  ASSUME Shapes, JobsGood, NEW s \in Slots, Busy(s)
  PROVE  /\ job[s] \in Jobs /\ Good(job[s]) /\ Sound(job[s])
         /\ Head(job[s].todo) = job[s].todo[1] /\ Len(job[s].todo) \in Nat /\ Len(job[s].todo) >= 1
         /\ job[s].todo \in Seq(Steps) /\ job[s].todo # <<>>
<1>1. job[s] \in Jobs
  BY DEF Shapes, Busy
<1> QED
  BY <1>1, JobTodo DEF JobsGood, Good

\* The next step of a payment that is rebuilt.
LEMMA RebuildHead ==
  ASSUME NEW p \in Seq(Steps), p # <<>>, Rebuilding(p)
  PROVE  /\ p[1] \in {"refresh", "build", "submit"} /\ WillSend(p)
         /\ p[1] = "submit" => Len(p) = 1
         /\ Len(p) # 1 => /\ p[1] = "refresh" => Tail(p)[1] = "build"
                          /\ p[1] = "build" => Tail(p)[1] = "submit"
<1>1. Len(p) \in Nat /\ Len(p) >= 1
  OBVIOUS
<1>2. CASE Len(p) = 1
  BY <1>1, <1>2 DEF Rebuilding, WillSend, Sending, Submits
<1>3. CASE Len(p) # 1
  <2>1. Len(p) \in Nat /\ Len(p) >= 2 /\ Tail(p)[1] = p[2]
    BY <1>3, Tails
  <2>2. \/ p[1] = "refresh" /\ p[2] = "build"
        \/ p[1] = "build" /\ p[2] = "submit"
    <3>1. 1 \in 1 .. Len(p) - 1 /\ 1 + 1 = 2
      BY <2>1
    <3> QED
      BY <3>1 DEF Rebuilding
  <2>3. p[Len(p)] \in Sending /\ Len(p) \in 1 .. Len(p)
    BY <2>1 DEF Rebuilding, Sending, Submits
  <2> QED
    BY <1>3, <2>1, <2>2, <2>3 DEF WillSend
<1> QED
  BY <1>2, <1>3

\* Continue, with a job that has what the next step needs.
LEMMA ContinueGoes ==
  ASSUME NEW s \in Slots, NEW j \in Jobs, Continue(s, j),
         j.todo = job[s].todo, Keeps(job[s], j), Sound(j), ~j.asked,
         j.todo[1] \in {"load", "refresh"} => j.account # 0,
         j.todo[1] # "throw",
         j.n \in 1 .. started', j.account \in 0 .. Len(records'),
         j.recovered /\ j.quiet /\ Len(j.todo) # 1 => Healed(After(j))',
         j.sends /\ Len(j.todo) = 1 => \E i \in DOMAIN landed' : landed'[i].n = j.n
  PROVE  Goes(s) /\ Reports(s)
<1>1. CASE Len(j.todo) = 1
  <2>1. /\ job' = [job EXCEPT ![s] = Idle]
        /\ resolved' = IF j.sends THEN resolved \cup {j.n} ELSE resolved
    BY <1>1 DEF Continue
  <2>2. j.n = job[s].n
    BY DEF Keeps
  <2> QED
    BY <1>1, <2>1, <2>2 DEF Goes, Reports
<1>2. CASE Len(j.todo) # 1
  <2>1. job' = [job EXCEPT ![s] = After(j)] /\ resolved' = resolved
    BY <1>2 DEF Continue, After
  <2>2. /\ After(j) \in Jobs /\ Sound(After(j)) /\ Keeps(j, After(j))
        /\ Passed(After(j).todo) => Passed(j.todo) \/ j.todo[1] \in {"spend", "throw"}
    BY <1>2, SoundAfter
  <2>3. /\ After(j).n = j.n /\ After(j).account = j.account
        /\ After(j).recovered = j.recovered /\ After(j).quiet = j.quiet
    BY DEF After, Jobs
  <2>4. Head(j.todo) = j.todo[1]
    BY JobTodo
  <2>5. Keeps(job[s], After(j))
    BY <2>2 DEF Keeps
  <2>6. PICK k \in Jobs : k = After(j)
    BY <2>2
  <2>7. Good(k)'
    BY <1>2, <2>2, <2>3, <2>6 DEF Good
  <2> QED
    BY <2>1, <2>2, <2>4, <2>5, <2>6, <2>7 DEF Goes, Reports
<1> QED
  BY <1>1, <1>2

\* Continue with the job as it is, at a step that is neither a load nor a build.
LEMMA PlainContinue ==
  ASSUME Shapes, JobsGood, NEW s \in Slots, Busy(s), Continue(s, job[s]),
         Head(job[s].todo) \in {"lookup", "query", "simulate", "spend", "poll", "send"},
         Head(job[s].todo) = "poll" => \E i \in DOMAIN landed' : landed'[i].n = job[s].n,
         started' = started, records' = records
  PROVE  Goes(s) /\ Reports(s)
<1>1. PICK j \in Jobs : j = job[s]
  BY BusyJob
<1>2. /\ Good(j) /\ Sound(j) /\ Head(j.todo) = j.todo[1] /\ Len(j.todo) >= 1
      /\ j.todo \in Seq(Steps) /\ j.todo # <<>>
  BY <1>1, BusyJob
<1>3. j.todo[1] \in {"lookup", "query", "simulate", "spend", "poll", "send"}
  BY <1>1, <1>2
<1>4. ~j.asked
  BY <1>2, <1>3 DEF Sound
<1>5. ~j.recovered
  BY <1>2, <1>3, RebuildHead DEF Sound
<1>6. Keeps(job[s], j)
  BY <1>1 DEF Keeps
<1>7. j.n \in 1 .. started' /\ j.account \in 0 .. Len(records')
  BY <1>2 DEF Good
<1>8. j.sends /\ Len(j.todo) = 1 => j.todo[1] = "poll"
  BY <1>2, <1>3 DEF Sound, Submits
<1>9. Continue(s, j)
  BY <1>1
<1> QED
  BY <1>1, <1>2, <1>3, <1>4, <1>5, <1>6, <1>7, <1>8, <1>9, ContinueGoes

\* execute() throws.
LEMMA RejectGoes ==
  ASSUME NEW s \in Slots, Reject(s)
  PROVE  Goes(s) /\ Reports(s)
  BY DEF Reject, Goes, Reports

\* What the steps that send nothing leave as it is, and the types of the rest.
Inner(s) ==
  /\ Busy(s) /\ Goes(s) /\ Reports(s)
  /\ seq' = seq /\ landed' = landed /\ network' = network /\ started' = started
  /\ records' \in Seq(Nat) /\ cache' \in 0 .. Len(records') /\ Len(records') >= Len(records)

\* Steps that touch neither the records nor the ledger.
LEMMA PlainInner ==
  ASSUME Shapes, JobsGood, NEW s \in Slots, Throw(s) \/ Lookup(s) \/ Query(s) \/ Simulate(s)
  PROVE  Inner(s) /\ spent' = spent
<1>1. Busy(s) /\ Head(job[s].todo) \in {"throw", "lookup", "query", "simulate"}
  BY DEF Throw, Lookup, Query, Simulate, At
<1>2. UNCHANGED <<ledger, records, cache, spent, started>>
  BY DEF Throw, Lookup, Query, Simulate
<1>3. seq' = seq /\ landed' = landed /\ network' = network /\ started' = started
      /\ records' = records /\ cache' = cache /\ spent' = spent
  BY <1>2 DEF ledger
<1>4. Reject(s) \/ (Continue(s, job[s]) /\ Head(job[s].todo) \in {"lookup", "query", "simulate"})
  BY DEF Throw, Lookup, Query, Simulate, At
<1>5. Goes(s) /\ Reports(s)
  BY <1>1, <1>3, <1>4, RejectGoes, PlainContinue
<1>6. records \in Seq(Nat) /\ Len(records) \in Nat /\ cache \in 0 .. Len(records)
  BY DEF Shapes
<1> QED
  BY <1>1, <1>3, <1>5, <1>6 DEF Inner

\* pollForConfirmation.
LEMMA PollInner ==
  ASSUME Shapes, JobsGood, NEW s \in Slots, Poll(s)
  PROVE  Inner(s) /\ spent' = spent
<1>1. Busy(s) /\ Head(job[s].todo) = "poll"
  BY DEF Poll, At
<1>2. seq' = seq /\ landed' = landed /\ network' = network /\ started' = started
      /\ records' = records /\ cache' = cache /\ spent' = spent
  BY DEF Poll, ledger
<1>3. CASE Confirmed(s)
  <2>1. Continue(s, job[s]) /\ \E i \in DOMAIN landed' : landed'[i].n = job[s].n
    BY <1>2, <1>3 DEF Confirmed, HasLanded
  <2> QED
    BY <1>1, <1>2, <2>1, PlainContinue DEF Inner, Shapes
<1>4. CASE Reject(s)
  BY <1>1, <1>2, <1>4, RejectGoes DEF Inner, Shapes
<1>5. CASE NotFound(s) /\ ~Reject(s)
  <2>1. /\ job' = [job EXCEPT ![s].polls = @ + 1] /\ resolved' = resolved
        /\ job[s].polls + 1 < MAX_ATTEMPTS
    BY <1>5 DEF NotFound
  <2>2. job[s] \in Jobs /\ Good(job[s]) /\ Sound(job[s]) /\ Head(job[s].todo) = job[s].todo[1]
        /\ job[s].todo \in Seq(Steps) /\ job[s].todo # <<>>
    BY <1>1, BusyJob
  <2>3. PICK k : k = [job[s] EXCEPT !.polls = @ + 1]
    OBVIOUS
  <2>4. job' = [job EXCEPT ![s] = k]
    BY <2>1, <2>3 DEF Shapes
  <2> DEFINE polls == job[s].polls + 1
  <2>5. polls \in Nat /\ polls < MAX_ATTEMPTS /\ k = [job[s] EXCEPT !.polls = polls]
    BY <2>1, <2>2, <2>3 DEF Jobs
  <2> HIDE DEF polls
  <2>6. /\ k \in Jobs
        /\ k.todo = job[s].todo /\ k.n = job[s].n /\ k.value = job[s].value /\ k.guard = job[s].guard
        /\ k.dry = job[s].dry /\ k.sends = job[s].sends /\ k.account = job[s].account
        /\ k.asked = job[s].asked /\ k.recovered = job[s].recovered /\ k.quiet = job[s].quiet
        /\ k.polls < MAX_ATTEMPTS
    BY <2>2, <2>5 DEF Jobs
  <2>7. Sound(k)
    BY <2>2, <2>6 DEF Sound
  <2>8. ~k.recovered
    BY <1>1, <2>2, <2>6, RebuildHead DEF Sound
  <2>9. k.n \in 1 .. started' /\ k.account \in 0 .. Len(records')
    BY <1>2, <2>2, <2>6 DEF Good
  <2>10. Good(k)'
    BY <2>7, <2>8, <2>9 DEF Good
  <2>11. Keeps(job[s], k)
    BY <2>6 DEF Keeps
  <2>12. Goes(s)
    BY <2>4, <2>6, <2>10, <2>11 DEF Goes
  <2> QED
    BY <1>1, <1>2, <2>1, <2>12 DEF Inner, Reports, Shapes
<1> QED
  BY <1>3, <1>4, <1>5 DEF Poll

\* assertWithinSpendingLimit.
LEMMA SpendInner ==
  ASSUME Shapes, JobsGood, NEW s \in Slots, Spend(s)
  PROVE  Inner(s) /\ (Reject(s) \/ Head(job[s].todo) = "spend")
<1>1. Busy(s) /\ Head(job[s].todo) = "spend"
  BY DEF Spend, At
<1>2. seq' = seq /\ landed' = landed /\ network' = network /\ started' = started
      /\ records' = records /\ cache' = cache
  BY DEF Spend, ledger
<1>3. Reject(s) \/ Continue(s, job[s])
  BY DEF Spend
<1>4. Goes(s) /\ Reports(s)
  BY <1>1, <1>2, <1>3, RejectGoes, PlainContinue
<1> QED
  BY <1>1, <1>2, <1>4 DEF Inner, Shapes

\* A job that holds a record after loadAccount, and what it has in common with
\* the job before.
Loaded(j, k) ==
  /\ k \in Jobs /\ k.todo = j.todo /\ Keeps(j, k) /\ k.recovered = j.recovered
  /\ k.polls = j.polls /\ ~k.asked

\* It is sound.
LEMMA LoadedSound ==
  ASSUME NEW j \in Jobs, NEW k, Sound(j), Loaded(j, k), k.account # 0 \/ k.account = j.account
  PROVE  Sound(k)
<1>1. \A i \in 1 .. Len(j.todo) : j.todo[i] = "build" => k.account # 0 \/ LoadsBefore(j.todo, i)
  BY DEF Sound
<1> QED
  BY <1>1 DEF Sound, Loaded, Keeps

\* loadAccount from the cache.
LEMMA LoadHitInner ==
  ASSUME Shapes, JobsGood, NEW s \in Slots, LoadHit(s)
  PROVE  Inner(s) /\ spent' = spent
<1>1. Busy(s) /\ Head(job[s].todo) \in {"load", "read"} /\ ~job[s].asked /\ cache # 0
  BY DEF LoadHit, At
<1>2. seq' = seq /\ landed' = landed /\ network' = network /\ started' = started
      /\ records' = records /\ cache' = cache /\ spent' = spent
  BY DEF LoadHit, ledger
<1>3. /\ job[s] \in Jobs /\ Good(job[s]) /\ Sound(job[s]) /\ Head(job[s].todo) = job[s].todo[1]
      /\ job[s].todo \in Seq(Steps) /\ job[s].todo # <<>> /\ Len(job[s].todo) \in Nat
      /\ Len(job[s].todo) >= 1
  BY <1>1, BusyJob
<1>4. PICK k : k = Holding(job[s], cache)
  OBVIOUS
<1>5. cache \in Nat /\ cache \in 0 .. Len(records) /\ records \in Seq(Nat) /\ Len(records) \in Nat
  BY DEF Shapes
<1>6. /\ Loaded(job[s], k)
      /\ k.account = (IF Head(job[s].todo) = "read" THEN job[s].account ELSE cache)
  BY <1>1, <1>3, <1>4, <1>5 DEF Holding, Loaded, Keeps, Jobs
<1>7. k \in Jobs /\ k.todo = job[s].todo /\ Keeps(job[s], k) /\ ~k.asked
      /\ k.n = job[s].n /\ k.recovered = job[s].recovered
  BY <1>6 DEF Loaded, Keeps
<1>8. Sound(k)
  BY <1>1, <1>3, <1>6, LoadedSound
<1>9. ~k.recovered
  BY <1>1, <1>3, <1>7, RebuildHead DEF Sound
<1>10. k.n \in 1 .. started' /\ k.account \in 0 .. Len(records')
  BY <1>2, <1>3, <1>5, <1>6, <1>7 DEF Good
<1>11. ~(k.sends /\ Len(k.todo) = 1)
  BY <1>1, <1>3, <1>7, <1>8 DEF Sound, Submits
<1>12. Continue(s, k)
  BY <1>4 DEF LoadHit
<1>13. Goes(s) /\ Reports(s)
  BY <1>1, <1>3, <1>6, <1>7, <1>8, <1>9, <1>10, <1>11, <1>12, ContinueGoes
<1> QED
  BY <1>1, <1>2, <1>5, <1>13 DEF Inner

\* loadAccount asks Horizon.
LEMMA LoadMissInner ==
  ASSUME Shapes, JobsGood, NEW s \in Slots, LoadMiss(s)
  PROVE  Inner(s) /\ spent' = spent
<1>1. Busy(s) /\ Head(job[s].todo) \in {"load", "read", "refresh"}
  BY DEF LoadMiss, At
<1>2. seq' = seq /\ landed' = landed /\ network' = network /\ started' = started
      /\ records' = records /\ cache' = 0 /\ spent' = spent /\ resolved' = resolved
  BY DEF LoadMiss, ledger
<1>3. job[s] \in Jobs /\ Good(job[s]) /\ Sound(job[s]) /\ Head(job[s].todo) = job[s].todo[1]
  BY <1>1, BusyJob
<1>4. PICK k : k = [job[s] EXCEPT !.asked = TRUE, !.reading = seq]
  OBVIOUS
<1>5. job' = [job EXCEPT ![s] = k]
  BY <1>4 DEF LoadMiss, Shapes
<1>6. /\ k \in Jobs
      /\ k.todo = job[s].todo /\ k.n = job[s].n /\ k.value = job[s].value /\ k.guard = job[s].guard
      /\ k.dry = job[s].dry /\ k.sends = job[s].sends /\ k.account = job[s].account
      /\ k.recovered = job[s].recovered /\ k.quiet = job[s].quiet
      /\ k.polls = job[s].polls /\ k.reading = seq
  BY <1>3, <1>4 DEF Jobs, Shapes
<1>7. Sound(k)
  BY <1>1, <1>3, <1>6 DEF Sound
<1>8. k.n \in 1 .. started' /\ k.account \in 0 .. Len(records')
  BY <1>2, <1>3, <1>6 DEF Good
<1>9. Healed(k)'
  BY <1>1, <1>2, <1>3, <1>6 DEF Healed
<1>10. Good(k)' /\ Keeps(job[s], k)
  BY <1>6, <1>7, <1>8, <1>9 DEF Good, Keeps
<1>11. Goes(s)
  BY <1>5, <1>6, <1>10 DEF Goes
<1> QED
  BY <1>1, <1>2, <1>11 DEF Inner, Reports, Shapes

\* loadAccount gets its answer: a new record with what Horizon has read.
LEMMA LoadReturnInner ==
  ASSUME Shapes, JobsGood, NEW s \in Slots, LoadReturn(s)
  PROVE  Inner(s) /\ spent' = spent
<1>1. Busy(s) /\ Head(job[s].todo) \in {"load", "read", "refresh"} /\ job[s].asked
  BY DEF LoadReturn, At
<1>2. seq' = seq /\ landed' = landed /\ network' = network /\ started' = started
      /\ spent' = spent
  BY DEF LoadReturn, ledger
<1>3. /\ job[s] \in Jobs /\ Good(job[s]) /\ Sound(job[s]) /\ Head(job[s].todo) = job[s].todo[1]
      /\ job[s].todo \in Seq(Steps) /\ job[s].todo # <<>> /\ Len(job[s].todo) \in Nat
      /\ Len(job[s].todo) >= 1
  BY <1>1, BusyJob
<1>4. job[s].reading \in Nat /\ job[s].account \in Nat
  BY <1>3 DEF Jobs
<1>5. records' = Append(records, job[s].reading) /\ cache' = Len(records')
  BY DEF LoadReturn
<1>6. records \in Seq(Nat) /\ Len(records) \in Nat
  BY DEF Shapes
<1>7. /\ records' \in Seq(Nat) /\ Len(records') = Len(records) + 1
      /\ records'[Len(records) + 1] = job[s].reading
  BY <1>4, <1>5, <1>6
<1> DEFINE r == Len(records')
<1>8. r \in Nat /\ r # 0 /\ r = Len(records) + 1
  BY <1>6, <1>7
<1>9. PICK k : k = [Holding(job[s], r) EXCEPT !.asked = FALSE, !.reading = 0]
  OBVIOUS
<1>10. Continue(s, k)
  BY <1>9 DEF LoadReturn
<1> HIDE DEF r
<1>11. /\ Loaded(job[s], k)
       /\ k.account = (IF Head(job[s].todo) = "read" THEN job[s].account ELSE r)
  BY <1>3, <1>8, <1>9 DEF Holding, Loaded, Keeps, Jobs
<1>12. k \in Jobs /\ k.todo = job[s].todo /\ Keeps(job[s], k) /\ ~k.asked
       /\ k.n = job[s].n /\ k.recovered = job[s].recovered /\ k.quiet = job[s].quiet
  BY <1>11 DEF Loaded, Keeps
<1>13. Sound(k)
  BY <1>3, <1>8, <1>11, LoadedSound
<1>14. k.n \in 1 .. started' /\ k.account \in 0 .. Len(records')
  <2>1. job[s].n \in 1 .. started /\ job[s].account \in 0 .. Len(records)
    BY <1>3 DEF Good
  <2> QED
    BY <1>2, <1>4, <1>6, <1>7, <1>8, <1>11, <1>12, <2>1
<1>15. ~(k.sends /\ Len(k.todo) = 1)
  BY <1>1, <1>3, <1>12, <1>13 DEF Sound, Submits
<1>16. ASSUME k.recovered, k.quiet, Len(k.todo) # 1 PROVE Healed(After(k))'
  <2>1. k.todo[1] = "refresh" /\ Tail(k.todo)[1] = "build"
    BY <1>1, <1>3, <1>12, <1>16, RebuildHead DEF Sound
  <2>2. k.account = r
    BY <1>3, <1>11, <1>12, <2>1
  <2>3. job[s].reading = seq
    BY <1>1, <1>3, <1>12, <1>16 DEF Good, Healed
  <2>4. After(k).todo = Tail(k.todo) /\ After(k).account = k.account /\ After(k).asked = k.asked
    BY <1>12 DEF After, Jobs
  <2>5. records'[r] = seq'
    BY <1>2, <1>7, <1>8, <2>3
  <2>6. PICK h : h = After(k)
    OBVIOUS
  <2>7. Healed(h)'
    BY <1>12, <2>1, <2>2, <2>4, <2>5, <2>6 DEF Healed
  <2> QED
    BY <2>6, <2>7
<1>17. Goes(s) /\ Reports(s)
  <2>1. k.todo[1] \in {"load", "refresh"} => k.account # 0
    BY <1>3, <1>8, <1>11, <1>12
  <2>2. k.todo[1] # "throw"
    BY <1>1, <1>3, <1>12
  <2> QED
    BY <1>10, <1>12, <1>13, <1>14, <1>15, <1>16, <2>1, <2>2, ContinueGoes
<1>18. cache' \in 0 .. Len(records')
  BY <1>5, <1>8 DEF r
<1> QED
  BY <1>1, <1>2, <1>6, <1>7, <1>17, <1>18 DEF Inner

\* loadAccount throws.
LEMMA LoadFailsInner ==
  ASSUME Shapes, JobsGood, NEW s \in Slots, LoadFails(s)
  PROVE  Inner(s) /\ spent' = spent
<1>1. Busy(s) /\ Reject(s)
  BY DEF LoadFails, At
<1>2. seq' = seq /\ landed' = landed /\ network' = network /\ started' = started
      /\ records' = records /\ cache' = cache /\ spent' = spent
  BY DEF LoadFails, ledger
<1> QED
  BY <1>1, <1>2, RejectGoes DEF Inner, Shapes

\* build() increments the record the job holds.
LEMMA BuildInner ==
  ASSUME Shapes, JobsGood, NEW s \in Slots, Build(s)
  PROVE  Inner(s) /\ spent' = spent
<1>1. Busy(s) /\ Head(job[s].todo) = "build"
  BY DEF Build, At
<1>2. seq' = seq /\ landed' = landed /\ network' = network /\ started' = started
      /\ cache' = cache /\ spent' = spent
  BY DEF Build, ledger
<1>3. /\ job[s] \in Jobs /\ Good(job[s]) /\ Sound(job[s]) /\ Head(job[s].todo) = job[s].todo[1]
      /\ job[s].todo \in Seq(Steps) /\ job[s].todo # <<>> /\ Len(job[s].todo) \in Nat
      /\ Len(job[s].todo) >= 1
  BY <1>1, BusyJob
<1> DEFINE r == job[s].account
<1>4. r \in 1 .. Len(records) /\ records \in Seq(Nat) /\ Len(records) \in Nat
  <2>1. r \in 0 .. Len(records) /\ records \in Seq(Nat) /\ Len(records) \in Nat
    BY <1>3 DEF Good, Shapes
  <2>2. r # 0
    <3>1. 1 \in 1 .. Len(job[s].todo) /\ job[s].todo[1] = "build"
      BY <1>1, <1>3
    <3>2. ~LoadsBefore(job[s].todo, 1)
      BY DEF LoadsBefore
    <3> QED
      BY <1>3, <3>1, <3>2 DEF Sound
  <2> QED
    BY <2>1, <2>2
<1>5. records' = [records EXCEPT ![r] = @ + 1]
  BY DEF Build
<1>6. records[r] \in Nat
  BY <1>4
<1> DEFINE tx == records[r] + 1
<1>7. tx \in Nat
  BY <1>6
<1>8. records' \in Seq(Nat) /\ Len(records') = Len(records)
  BY <1>4, <1>5, <1>6
<1>9. PICK k : k = [job[s] EXCEPT !.tx = tx]
  OBVIOUS
<1>10. Continue(s, k)
  BY <1>9 DEF Build
<1>11. r = job[s].account
  OBVIOUS
<1>12. job[s].recovered /\ job[s].quiet => tx = seq + 1
  BY <1>1, <1>3 DEF Good, Healed
<1> HIDE DEF tx, r
<1>13. ~job[s].asked
  BY <1>1, <1>3 DEF Sound
<1>14. /\ Loaded(job[s], k) /\ k.account = job[s].account /\ k.tx = tx
  BY <1>3, <1>7, <1>9, <1>13 DEF Loaded, Keeps, Jobs
<1>15. k \in Jobs /\ k.todo = job[s].todo /\ Keeps(job[s], k) /\ ~k.asked
       /\ k.n = job[s].n /\ k.recovered = job[s].recovered /\ k.quiet = job[s].quiet
  BY <1>14 DEF Loaded, Keeps
<1>16. Sound(k)
  BY <1>3, <1>14, LoadedSound
<1>17. k.n \in 1 .. started' /\ k.account \in 0 .. Len(records')
  BY <1>2, <1>3, <1>8, <1>14, <1>15 DEF Good
<1>18. ~(k.sends /\ Len(k.todo) = 1)
  BY <1>1, <1>3, <1>15, <1>16 DEF Sound, Submits
<1>19. ASSUME k.recovered, k.quiet, Len(k.todo) # 1 PROVE Healed(After(k))'
  <2>1. Tail(k.todo)[1] = "submit"
    BY <1>1, <1>3, <1>15, <1>19, RebuildHead DEF Sound
  <2>2. After(k).todo = Tail(k.todo) /\ After(k).asked = k.asked /\ After(k).tx = tx
    BY <1>14, <1>15 DEF After, Jobs
  <2>3. tx = seq' + 1
    BY <1>2, <1>12, <1>15, <1>19
  <2>4. PICK h : h = After(k)
    OBVIOUS
  <2>5. Healed(h)'
    BY <1>15, <2>1, <2>2, <2>3, <2>4 DEF Healed
  <2> QED
    BY <2>4, <2>5
<1>20. Goes(s) /\ Reports(s)
  <2>1. k.todo[1] = "build"
    BY <1>1, <1>3, <1>15
  <2> QED
    BY <1>10, <1>15, <1>16, <1>17, <1>18, <1>19, <2>1, ContinueGoes
<1>21. cache' \in 0 .. Len(records')
  BY <1>2, <1>8 DEF Shapes
<1> QED
  BY <1>1, <1>2, <1>4, <1>8, <1>20, <1>21 DEF Inner

\* tx_bad_seq: the payment is rebuilt, or the task fails.
LEMMA BadSeqInner ==
  ASSUME Shapes, JobsGood, NEW s \in Slots, SubmitBadSeq(s)
  PROVE  Inner(s) /\ spent' = spent
<1>1. Busy(s) /\ Head(job[s].todo) \in Submits
  BY DEF SubmitBadSeq, At
<1>2. seq' = seq /\ landed' = landed /\ network' = network /\ started' = started
      /\ records' = records /\ cache' = 0 /\ spent' = spent
  BY DEF SubmitBadSeq, ledger
<1>3. CASE Reject(s)
  BY <1>1, <1>2, <1>3, RejectGoes DEF Inner, Shapes
<1>4. CASE ~Reject(s)
  <2>1. /\ Head(job[s].todo) = "submit_recover" /\ resolved' = resolved
        /\ job' = [job EXCEPT ![s].todo = Rebuild, ![s].recovered = TRUE]
    BY <1>4 DEF SubmitBadSeq, At
  <2>2. /\ job[s] \in Jobs /\ Good(job[s]) /\ Sound(job[s]) /\ Head(job[s].todo) = job[s].todo[1]
        /\ job[s].todo \in Seq(Steps) /\ job[s].todo # <<>> /\ Len(job[s].todo) \in Nat
        /\ Len(job[s].todo) >= 1
    BY <1>1, BusyJob
  <2>3. Formed(Rebuild) /\ Rebuild # <<>>
    BY SendingParts DEF Rebuild
  <2>4. Rebuild[Len(Rebuild)] = "submit" /\ Rebuild[1] = "refresh" /\ Rebuilding(Rebuild)
    BY DEF Rebuild, Rebuilding
  <2>5. PICK k : k = [job[s] EXCEPT !.todo = Rebuild, !.recovered = TRUE]
    OBVIOUS
  <2>6. job' = [job EXCEPT ![s] = k]
    BY <2>1, <2>5 DEF Shapes
  <2>7. Rebuild \in Seq(Steps) \ {<<>>}
    BY <2>3 DEF Formed
  <2>8. /\ k \in Jobs
        /\ k.todo = Rebuild /\ k.n = job[s].n /\ k.value = job[s].value /\ k.guard = job[s].guard
        /\ k.dry = job[s].dry /\ k.sends = job[s].sends /\ k.account = job[s].account
        /\ k.asked = job[s].asked /\ k.quiet = job[s].quiet /\ k.polls = job[s].polls
    BY <2>2, <2>5, <2>7 DEF Jobs
  <2>9. Passed(job[s].todo) /\ WillSend(job[s].todo)
    <3>1. 1 \in 1 .. Len(job[s].todo) /\ job[s].todo[1] \in Sending
      BY <1>1, <2>2 DEF Sending
    <3> QED
      BY <3>1 DEF Passed, WillSend
  <2>10. ~k.asked
    BY <2>1, <2>2, <2>8 DEF Sound
  <2>11. Sound(k)
    <3>1. /\ job[s].guard = "window" => job[s].value \in Nat
          /\ ~job[s].dry /\ (job[s].guard = "limit" => job[s].value <= AGENT_SPENDING_LIMIT)
          /\ job[s].polls < MAX_ATTEMPTS
      BY <2>2, <2>9 DEF Sound
    <3>2. "submit" \in Submits
      BY DEF Submits
    <3>3. ~Counts(Rebuild)
      BY DEF Counts, Rebuild
    <3> QED
      BY <2>3, <2>4, <2>8, <2>10, <3>1, <3>2, <3>3 DEF Sound, Formed
  <2>12. Healed(k)'
    BY <2>4, <2>8, <2>10 DEF Healed
  <2>13. k.n \in 1 .. started' /\ k.account \in 0 .. Len(records')
    BY <1>2, <2>2, <2>8 DEF Good
  <2>14. Good(k)' /\ Keeps(job[s], k)
    BY <2>8, <2>9, <2>11, <2>12, <2>13 DEF Good, Keeps
  <2>15. Goes(s)
    BY <2>6, <2>8, <2>9, <2>14 DEF Goes
  <2> QED
    BY <1>1, <1>2, <2>1, <2>15 DEF Inner, Reports, Shapes
<1> QED
  BY <1>3, <1>4

-----------------------------------------------------------------------------
(* The inductive invariant.                                                *)

\* The jobs after a step of slot s.
LEMMA SlotsAfter ==
  ASSUME Shapes, NEW s \in Slots, Goes(s)
  PROVE  /\ job' \in [Slots -> Jobs \cup {Idle}]
         /\ \A r \in Slots : r # s => job'[r] = job[r]
         /\ \/ job'[s] = Idle
            \/ \E k \in Jobs :
                 /\ job'[s] = k /\ Good(k)' /\ Keeps(job[s], k)
                 /\ Passed(k.todo) => Passed(job[s].todo) \/ Head(job[s].todo) = "spend"
<1>1. job \in [Slots -> Jobs \cup {Idle}]
  BY DEF Shapes
<1>2. CASE job' = [job EXCEPT ![s] = Idle]
  BY <1>1, <1>2
<1>3. CASE \E k \in Jobs :
             /\ job' = [job EXCEPT ![s] = k] /\ Good(k)' /\ Keeps(job[s], k)
             /\ Passed(k.todo) => Passed(job[s].todo) \/ Head(job[s].todo) = "spend"
  <2>1. PICK k \in Jobs :
             /\ job' = [job EXCEPT ![s] = k] /\ Good(k)' /\ Keeps(job[s], k)
             /\ Passed(k.todo) => Passed(job[s].todo) \/ Head(job[s].todo) = "spend"
    BY <1>3
  <2>2. job'[s] = k
    BY <1>1, <2>1
  <2>3. job' \in [Slots -> Jobs \cup {Idle}] /\ \A r \in Slots : r # s => job'[r] = job[r]
    BY <1>1, <2>1
  <2> QED
    BY <2>1, <2>2, <2>3
<1> QED
  BY <1>2, <1>3 DEF Goes

\* The jobs of the other slots stay good: none of them is alone.
LEMMA GoodAfter ==
  ASSUME Shapes, JobsGood, Alone, NEW s \in Slots, Busy(s), Goes(s),
         started' = started, records' \in Seq(Nat), Len(records') >= Len(records)
  PROVE  JobsGood'
<1> SUFFICES ASSUME NEW r \in Slots, Busy(r)' PROVE Good(job[r])'
  BY DEF JobsGood
<1>1. CASE r = s
  <2>1. PICK k \in Jobs : job'[s] = k /\ Good(k)'
    BY <1>1, SlotsAfter DEF Busy
  <2> QED
    BY <1>1, <2>1 DEF Good, Healed
<1>2. CASE r # s
  <2>1. PICK k : k = job[r]
    OBVIOUS
  <2>2. job'[r] = k
    BY <1>2, <2>1, SlotsAfter
  <2>3. Busy(r)
    BY <2>1, <2>2 DEF Busy
  <2>4. Good(k)
    BY <2>1, <2>3 DEF JobsGood
  <2>5. ~k.quiet
    BY <1>2, <2>1, <2>3 DEF Alone
  <2>6. Len(records) \in Nat /\ Len(records') \in Nat
    BY DEF Shapes
  <2>7. k.account \in 0 .. Len(records')
    BY <2>4, <2>6 DEF Good
  <2> QED
    BY <2>2, <2>4, <2>5, <2>7 DEF Good
<1> QED
  BY <1>1, <1>2

\* A task stays alone, or the slot is free.
LEMMA AloneAfter ==
  ASSUME Shapes, Alone, NEW s \in Slots, Busy(s), Goes(s),
         network' = network \/ (Busy(s)' => ~WillSend(job'[s].todo))
  PROVE  Alone'
<1> SUFFICES ASSUME NEW r \in Slots, Busy(r)', job'[r].quiet
             PROVE  /\ \A q \in Slots : Busy(q)' => q = r
                    /\ WillSend(job'[r].todo) => network' = {}
  BY DEF Alone
<1>1. \A q \in Slots : Busy(q)' => Busy(q)
  BY SlotsAfter DEF Busy
<1>2. job[r].quiet /\ (WillSend(job'[r].todo) => WillSend(job[r].todo))
  <2>1. CASE r = s
    BY <2>1, SlotsAfter DEF Busy, Keeps
  <2>2. CASE r # s
    BY <2>2, SlotsAfter
  <2> QED
    BY <2>1, <2>2
<1>3. r = s /\ \A q \in Slots : Busy(q) => q = r
  BY <1>1, <1>2 DEF Alone
<1> QED
  BY <1>1, <1>2, <1>3 DEF Alone

\* Each step that sends nothing keeps all but the reserve.
LEMMA InnerPreserves ==
  ASSUME Shapes, JobsGood, OneEach, AllSanctioned, Alone,
         NEW s \in Slots, Inner(s), spent' \in Nat
  PROVE  Shapes' /\ JobsGood' /\ OneEach' /\ AllSanctioned' /\ Alone'
<1>1. /\ Busy(s) /\ Goes(s) /\ Reports(s)
      /\ seq' = seq /\ landed' = landed /\ network' = network /\ started' = started
      /\ records' \in Seq(Nat) /\ cache' \in 0 .. Len(records') /\ Len(records') >= Len(records)
  BY DEF Inner
<1>2. job[s] \in Jobs /\ job[s].n \in 1 .. started
  BY <1>1, BusyJob DEF Good
<1>3. Shapes'
  <2>1. job' \in [Slots -> Jobs \cup {Idle}]
    BY <1>1, SlotsAfter
  <2>2. resolved' \subseteq 1 .. started'
    BY <1>1, <1>2 DEF Reports, Shapes
  <2> QED
    BY <1>1, <2>1, <2>2 DEF Shapes
<1>4. JobsGood'
  BY <1>1, GoodAfter
<1>5. AllSanctioned'
  BY <1>1 DEF AllSanctioned
<1>6. Alone'
  BY <1>1, AloneAfter
<1>7. OneEach'
  <2>1. ASSUME NEW r \in Slots, Busy(r)'
        PROVE  /\ Busy(r) /\ job'[r].n = job[r].n
               /\ WillSend(job'[r].todo) => WillSend(job[r].todo)
    <3>1. CASE r = s
      BY <1>1, <2>1, <3>1, SlotsAfter DEF Busy, Keeps
    <3>2. CASE r # s
      BY <1>1, <2>1, <3>2, SlotsAfter DEF Busy
    <3> QED
      BY <3>1, <3>2
  <2>2. \A r, q \in Slots : Busy(r)' /\ Busy(q)' /\ job'[r].n = job'[q].n => r = q
    BY <2>1 DEF OneEach
  <2>3. \A r \in Slots : Busy(r)' /\ WillSend(job'[r].todo) =>
          /\ \A e \in network : e.n # job'[r].n
          /\ \A i \in DOMAIN landed : landed[i].n # job'[r].n
    BY <2>1 DEF OneEach
  <2>4. \A n \in resolved' : \E i \in DOMAIN landed : landed[i].n = n
    BY <1>1 DEF OneEach, Reports
  <2> QED
    BY <1>1, <2>2, <2>3, <2>4 DEF OneEach
<1> QED
  BY <1>3, <1>4, <1>5, <1>6, <1>7

\* What has landed is worth a number.
LEMMA ValuesType ==
  ASSUME Shapes
  PROVE  /\ [i \in DOMAIN landed |-> IF landed[i].guard = "window" THEN landed[i].value ELSE 0] \in Seq(Int)
         /\ Values("window") \in Int
<1> DEFINE v == [i \in DOMAIN landed |-> IF landed[i].guard = "window" THEN landed[i].value ELSE 0]
<1>1. landed \in Seq(Envelopes)
  BY DEF Shapes
<1>2. Len(landed) \in Nat /\ DOMAIN landed = 1 .. Len(landed)
      /\ \A i \in 1 .. Len(landed) : landed[i] \in Envelopes
  BY <1>1, Elements
<1>3. \A i \in 1 .. Len(landed) : landed[i].value \in Int
  BY <1>2 DEF Envelopes
<1>4. v \in Seq(Int)
  BY <1>2, <1>3
<1> QED
  BY <1>4, TotalType DEF Values

\* A reserve that covers what is under way and is itself covered.
Backed(rest) ==
  /\ rest \in [1 .. MaxStarts -> 0 .. AGENT_SPENDING_LIMIT]
  /\ Covers(rest)
  /\ Values("window") + Total(rest) <= spent
  /\ Values("window") + Total(rest) <= AGENT_SPENDING_LIMIT

\* The total of a reserve.
LEMMA RestTotal ==
  ASSUME NEW rest \in [1 .. MaxStarts -> 0 .. AGENT_SPENDING_LIMIT]
  PROVE  Total(rest) \in Nat
<1>1. MaxStarts \in Nat /\ AGENT_SPENDING_LIMIT \in Nat
  BY TransactionAssumption, ToolAssumption
<1>2. rest \in Seq(Nat)
  BY <1>1
<1> QED
  BY <1>2, TotalType

\* A reserve with another amount for one task.
Changed(rest, n, v, more) ==
  /\ more \in [1 .. MaxStarts -> 0 .. AGENT_SPENDING_LIMIT]
  /\ Total(more) = Total(rest) - rest[n] + v
  /\ more[n] = v /\ \A m \in 1 .. MaxStarts : m # n => more[m] = rest[m]

\* There is one.
LEMMA RestChanged ==
  ASSUME NEW rest \in [1 .. MaxStarts -> 0 .. AGENT_SPENDING_LIMIT],
         NEW n \in 1 .. MaxStarts, NEW v \in 0 .. AGENT_SPENDING_LIMIT
  PROVE  \E more : Changed(rest, n, v, more)
<1>1. PICK more : more = [rest EXCEPT ![n] = v]
  OBVIOUS
<1>2. /\ more \in [1 .. MaxStarts -> 0 .. AGENT_SPENDING_LIMIT]
      /\ more[n] = v /\ \A m \in 1 .. MaxStarts : m # n => more[m] = rest[m]
  BY <1>1
<1>3. Total([rest EXCEPT ![n] = v]) = Total(rest) - rest[n] + v
  <2>1. MaxStarts \in Nat /\ AGENT_SPENDING_LIMIT \in Nat
    BY TransactionAssumption, ToolAssumption
  <2>2. rest \in [1 .. MaxStarts -> Int] /\ v \in Int
    BY <2>1
  <2> QED
    BY <2>1, <2>2, TotalExcept
<1>4. Total(more) = Total(rest) - rest[n] + v
  BY <1>1, <1>3
<1> QED
  BY <1>2, <1>4 DEF Changed

\* A step that counts nothing and moves nothing keeps the reserve.
LEMMA InnerReserved ==
  ASSUME Shapes, Reserved, NEW s \in Slots, Inner(s), spent' = spent,
         Head(job[s].todo) # "spend"
  PROVE  Reserved'
<1>1. /\ Busy(s) /\ Goes(s) /\ landed' = landed /\ network' = network
  BY DEF Inner
<1>2. PICK rest \in [1 .. MaxStarts -> 0 .. AGENT_SPENDING_LIMIT] : Backed(rest)
  BY DEF Reserved, Backed
<1>3. ASSUME NEW r \in Slots, Busy(r)', job'[r].guard = "window", Passed(job'[r].todo)
      PROVE  rest[job'[r].n] >= job'[r].value
  <2>1. CASE r = s
    <3>1. PICK k \in Jobs : job'[s] = k /\ Keeps(job[s], k) /\ (Passed(k.todo) => Passed(job[s].todo))
      BY <1>1, <1>3, <2>1, SlotsAfter DEF Busy
    <3>2. job[s].guard = "window" /\ Passed(job[s].todo) /\ k.n = job[s].n /\ k.value = job[s].value
      BY <1>3, <2>1, <3>1 DEF Keeps
    <3> QED
      BY <1>1, <1>2, <2>1, <3>1, <3>2 DEF Backed, Covers
  <2>2. CASE r # s
    <3>1. job'[r] = job[r] /\ Busy(r)
      BY <1>1, <1>3, <2>2, SlotsAfter DEF Busy
    <3> QED
      BY <1>2, <1>3, <3>1 DEF Backed, Covers
  <2> QED
    BY <2>1, <2>2
<1>4. Covers(rest)'
  BY <1>1, <1>2, <1>3 DEF Backed, Covers
<1>5. Values("window")' = Values("window")
  BY <1>1 DEF Values
<1> QED
  BY <1>2, <1>4, <1>5 DEF Backed, Reserved

\* assertWithinSpendingLimit reserves the amount of a task it lets through.
LEMMA SpendReserved ==
  ASSUME Shapes, JobsGood, OneEach, Reserved, NEW s \in Slots, Spend(s)
  PROVE  Reserved' /\ spent' \in Nat
<1>1. /\ Inner(s) /\ Busy(s) /\ Goes(s) /\ landed' = landed /\ network' = network
      /\ Head(job[s].todo) = "spend"
  BY SpendInner DEF Inner, Spend, At
<1>2. /\ job[s] \in Jobs /\ Sound(job[s]) /\ Head(job[s].todo) = job[s].todo[1]
      /\ Len(job[s].todo) \in Nat /\ Len(job[s].todo) >= 1
      /\ job[s].n \in 1 .. started
  BY <1>1, BusyJob DEF Good
<1> DEFINE v == job[s].value
           n == job[s].n
<1>3. v \in Nat
  <2>1. 1 \in 1 .. Len(job[s].todo) /\ job[s].todo[1] = "spend"
    BY <1>1, <1>2
  <2>2. Counts(job[s].todo)
    BY <2>1 DEF Counts
  <2> QED
    BY <1>2, <2>2 DEF Sound
<1>4. n \in 1 .. MaxStarts
  BY <1>2, TransactionAssumption DEF Shapes
<1>5. spent \in Nat /\ AGENT_SPENDING_LIMIT \in Nat /\ Values("window") \in Int
  BY ValuesType, ToolAssumption DEF Shapes
<1>6. PICK rest \in [1 .. MaxStarts -> 0 .. AGENT_SPENDING_LIMIT] : Backed(rest)
  BY DEF Reserved, Backed
<1>7. \/ v > AGENT_SPENDING_LIMIT /\ Reject(s) /\ spent' = spent
      \/ /\ ~(v > AGENT_SPENDING_LIMIT) /\ spent' = spent + v
         /\ Reject(s) \/ ~(spent + v > AGENT_SPENDING_LIMIT)
  BY DEF Spend
<1>8. spent' \in Nat /\ spent' >= spent
  BY <1>3, <1>5, <1>7
<1>9. Values("window")' = Values("window")
  BY <1>1 DEF Values
<1>10. Total(rest) \in Nat
  BY <1>6, RestTotal
<1>11. \A r \in Slots : r # s => job'[r] = job[r]
  BY <1>1, SlotsAfter
<1> HIDE DEF v, n
<1>12. CASE ~Busy(s)' \/ ~WillSend(job[s].todo)
  <2>1. ASSUME NEW r \in Slots, Busy(r)', job'[r].guard = "window", Passed(job'[r].todo)
        PROVE  rest[job'[r].n] >= job'[r].value
    <3>1. r # s
      <4>1. CASE Busy(s)'
        <5>1. ~WillSend(job'[s].todo)
          BY <1>1, <1>12, <4>1, SlotsAfter DEF Keeps, Busy
        <5> QED
          BY <2>1, <5>1, PassedSends
      <4> QED
        BY <2>1, <4>1
    <3>2. job'[r] = job[r] /\ Busy(r)
      BY <1>11, <2>1, <3>1 DEF Busy
    <3> QED
      BY <1>6, <2>1, <3>2 DEF Backed, Covers
  <2>2. Covers(rest)'
    BY <1>1, <1>6, <2>1 DEF Backed, Covers
  <2>3. /\ Values("window")' + Total(rest) <= spent'
        /\ Values("window")' + Total(rest) <= AGENT_SPENDING_LIMIT
    BY <1>5, <1>6, <1>8, <1>9, <1>10 DEF Backed
  <2> QED
    BY <1>6, <1>8, <2>2, <2>3 DEF Reserved
<1>13. CASE Busy(s)' /\ WillSend(job[s].todo)
  <2>1. ~Reject(s)
    BY <1>13 DEF Reject, Busy, Shapes
  <2>2. v <= AGENT_SPENDING_LIMIT /\ spent' = spent + v /\ spent + v <= AGENT_SPENDING_LIMIT
    BY <1>3, <1>5, <1>7, <2>1
  <2>3. v \in 0 .. AGENT_SPENDING_LIMIT
    BY <1>3, <1>5, <2>2
  <2>4. PICK more : Changed(rest, n, v, more)
    BY <1>4, <1>6, <2>3, RestChanged
  <2>5. /\ more \in [1 .. MaxStarts -> 0 .. AGENT_SPENDING_LIMIT]
        /\ Total(more) = Total(rest) - rest[n] + v
    BY <2>4 DEF Changed
  <2>6. rest[n] \in Nat
    BY <1>4, <1>6
  <2>7. /\ Values("window") + Total(more) <= spent + v
        /\ Values("window") + Total(more) <= AGENT_SPENDING_LIMIT
    <3>1. Values("window") + Total(rest) <= spent
      BY <1>6 DEF Backed
    <3>2. Total(more) <= Total(rest) + v
      BY <1>3, <1>10, <2>5, <2>6
    <3>3. Total(more) \in Int
      BY <1>3, <1>10, <2>5, <2>6
    <3>4. Values("window") + Total(more) <= spent + v
      BY <1>3, <1>5, <1>10, <3>1, <3>2, <3>3
    <3> QED
      BY <1>3, <1>5, <2>2, <3>3, <3>4
  <2>8. more[n] = v /\ \A m \in 1 .. MaxStarts : m # n => more[m] = rest[m]
    BY <2>4 DEF Changed
  <2>9. ASSUME NEW e \in network, e.guard = "window" PROVE more[e.n] >= e.value
    <3>1. e.n # n /\ e.n \in 1 .. MaxStarts
      BY <1>1, <1>13, TransactionAssumption DEF OneEach, Shapes, n
    <3> QED
      BY <1>6, <2>8, <2>9, <3>1 DEF Backed, Covers
  <2>10. ASSUME NEW r \in Slots, Busy(r)', job'[r].guard = "window", Passed(job'[r].todo)
        PROVE  more[job'[r].n] >= job'[r].value
    <3>1. CASE r = s
      <4>1. job'[s].n = n /\ job'[s].value = v
        BY <1>1, <1>13, SlotsAfter DEF Keeps, Busy, n, v
      <4> QED
        BY <1>3, <2>8, <3>1, <4>1
    <3>2. CASE r # s
      <4>1. job'[r] = job[r] /\ Busy(r)
        BY <1>11, <2>10, <3>2 DEF Busy
      <4>2. job[r].n # n
        BY <1>1, <3>2, <4>1 DEF OneEach, n
      <4>3. job[r].n \in 1 .. MaxStarts
        BY <4>1, BusyJob, TransactionAssumption DEF Good, Shapes
      <4> QED
        BY <1>6, <2>8, <2>10, <4>1, <4>2, <4>3 DEF Backed, Covers
    <3> QED
      BY <3>1, <3>2
  <2>11. Covers(more)'
    BY <1>1, <2>9, <2>10 DEF Covers
  <2> QED
    BY <1>8, <1>9, <2>2, <2>5, <2>7, <2>11 DEF Reserved
<1> QED
  BY <1>12, <1>13

\* What a step that sends the transaction of slot s does besides: afterwards
\* the job has nothing more to send.
Outer(s) ==
  /\ Busy(s) /\ Goes(s) /\ Reports(s) /\ Head(job[s].todo) \in Sending
  /\ Busy(s)' => ~WillSend(job'[s].todo)
  /\ records' = records /\ started' = started /\ spent' = spent
  /\ cache' \in {0, cache}

\* The transaction of a job that is about to send it: new, counted and allowed.
LEMMA EnvelopeFacts ==
  ASSUME Shapes, JobsGood, OneEach, NEW s \in Slots, Busy(s), Head(job[s].todo) \in Sending
  PROVE  /\ Envelope(job[s]) \in Envelopes /\ Sanctioned(Envelope(job[s]))
         /\ Envelope(job[s]).n = job[s].n /\ job[s].n \in 1 .. started /\ job[s].n \in 1 .. MaxStarts
         /\ Envelope(job[s]).value = job[s].value /\ Envelope(job[s]).guard = job[s].guard
         /\ Passed(job[s].todo) /\ WillSend(job[s].todo)
         /\ \A e \in network : e.n # job[s].n
         /\ \A i \in DOMAIN landed : landed[i].n # job[s].n
<1>1. /\ job[s] \in Jobs /\ Sound(job[s]) /\ Head(job[s].todo) = job[s].todo[1]
      /\ Len(job[s].todo) \in Nat /\ Len(job[s].todo) >= 1 /\ job[s].n \in 1 .. started
  BY BusyJob DEF Good
<1>2. /\ Envelope(job[s]) \in Envelopes /\ Envelope(job[s]).n = job[s].n
      /\ Envelope(job[s]).value = job[s].value /\ Envelope(job[s]).guard = job[s].guard
      /\ Envelope(job[s]).dry = job[s].dry
  BY <1>1 DEF Envelope, Envelopes, Jobs
<1>3. Passed(job[s].todo) /\ WillSend(job[s].todo)
  <2>1. 1 \in 1 .. Len(job[s].todo) /\ job[s].todo[1] \in Sending
    BY <1>1
  <2> QED
    BY <2>1 DEF Passed, WillSend
<1>4. Sanctioned(Envelope(job[s]))
  BY <1>1, <1>2, <1>3 DEF Sanctioned, Sound
<1>5. job[s].n \in 1 .. MaxStarts
  BY <1>1, TransactionAssumption DEF Shapes
<1> QED
  BY <1>1, <1>2, <1>3, <1>4, <1>5 DEF OneEach

\* What landed is, once one more transaction has landed.
LEMMA LandedAfter ==
  ASSUME Shapes, NEW e \in Envelopes, Lands(e)
  PROVE  /\ landed' \in Seq(Envelopes) /\ seq' \in Nat
         /\ DOMAIN landed' = DOMAIN landed \cup {Len(landed) + 1}
         /\ Len(landed) + 1 \notin DOMAIN landed
         /\ landed'[Len(landed) + 1] = e /\ \A i \in DOMAIN landed : landed'[i] = landed[i]
         /\ Values("window")' = Values("window") + IF e.guard = "window" THEN e.value ELSE 0
<1>1. landed \in Seq(Envelopes) /\ landed' = Append(landed, e) /\ seq \in Nat
  BY DEF Lands, Shapes
<1>2. e.seq \in Nat /\ e.bumpTo \in Nat /\ e.value \in Int
  BY DEF Envelopes
<1>3. seq' \in Nat
  BY <1>1, <1>2 DEF Lands
<1> DEFINE n == Len(landed)
<1>4. n \in Nat /\ DOMAIN landed = 1 .. n
  BY <1>1
<1>5. /\ landed' \in Seq(Envelopes) /\ Len(landed') = n + 1 /\ DOMAIN landed' = 1 .. n + 1
      /\ landed'[n + 1] = e /\ \A i \in 1 .. n : landed'[i] = landed[i]
  BY <1>1
<1> HIDE DEF n
<1>6. 1 .. n + 1 = 1 .. n \cup {n + 1} /\ n + 1 \notin 1 .. n
  BY <1>4
<1> DEFINE w(x) == IF x.guard = "window" THEN x.value ELSE 0
           v == [i \in DOMAIN landed |-> w(landed[i])]
           u == [i \in DOMAIN landed' |-> w(landed'[i])]
<1>7. v \in Seq(Int) /\ w(e) \in Int
  BY <1>2, ValuesType
<1>8. DOMAIN v = 1 .. n /\ Len(v) = n
  BY <1>4, <1>7
<1>9. u = Append(v, w(e))
  <2>1. DOMAIN Append(v, w(e)) = 1 .. n + 1 /\ DOMAIN u = 1 .. n + 1
    BY <1>4, <1>5, <1>7, <1>8
  <2>2. ASSUME NEW i \in 1 .. n + 1 PROVE u[i] = Append(v, w(e))[i]
    <3>1. CASE i = n + 1
      <4>1. u[i] = w(e)
        BY <1>5, <2>1, <3>1
      <4>2. Append(v, w(e))[n + 1] = w(e)
        BY <1>7, <1>8
      <4> QED
        BY <3>1, <4>1, <4>2
    <3>2. CASE i \in 1 .. n
      <4>1. u[i] = w(landed[i])
        BY <1>5, <2>1, <3>2
      <4>2. v[i] = w(landed[i])
        BY <1>4, <3>2
      <4>3. Append(v, w(e))[i] = v[i]
        BY <1>7, <1>8, <3>2
      <4> QED
        BY <4>1, <4>2, <4>3
    <3> QED
      BY <1>6, <3>1, <3>2
  <2>3. u \in Seq(Int) /\ Len(u) = n + 1
    <3>1. \A i \in 1 .. n + 1 : u[i] \in Int
      <4>1. \A i \in 1 .. n + 1 : landed'[i] \in Envelopes
        BY <1>4, <1>5
      <4>2. \A i \in 1 .. n + 1 : landed'[i].value \in Int
        BY <4>1 DEF Envelopes
      <4> QED
        BY <1>5, <4>2
    <3> QED
      BY <1>4, <1>5, <3>1
  <2>4. Append(v, w(e)) \in Seq(Int) /\ Len(Append(v, w(e))) = n + 1
    BY <1>7, <1>8
  <2> DEFINE q == Append(v, w(e))
  <2> HIDE DEF u, v, w, q
  <2>5. /\ q \in Seq(Int) /\ Len(q) = n + 1 /\ u \in Seq(Int) /\ Len(u) = n + 1
        /\ \A i \in 1 .. n + 1 : u[i] = q[i]
    BY <2>2, <2>3, <2>4 DEF q
  <2>6. u = q
    BY <2>5
  <2> QED
    BY <2>6 DEF q
<1>10. Values("window")' = Total(u) /\ Values("window") = Total(v)
  BY DEF Values
<1> HIDE DEF u, v
<1>11. Total(u) = Total(v) + w(e)
  BY <1>7, <1>9, TotalAppend
<1> QED
  BY <1>3, <1>4, <1>5, <1>6, <1>10, <1>11 DEF n

\* A transaction that lands uses what was reserved for it.
LEMMA LandingReserved ==
  ASSUME Shapes, Reserved, NEW e \in Envelopes, Sanctioned(e), Lands(e), spent' = spent,
         e.n \in 1 .. MaxStarts,
         \A rest : Covers(rest) /\ e.guard = "window" => rest[e.n] >= e.value,
         \A d \in network' : d \in network /\ d.n # e.n /\ d.n \in 1 .. MaxStarts,
         \A r \in Slots : Busy(r)' /\ Passed(job'[r].todo) =>
           Busy(r) /\ job'[r] = job[r] /\ job[r].n # e.n /\ job[r].n \in 1 .. MaxStarts
  PROVE  Reserved'
<1>1. PICK rest \in [1 .. MaxStarts -> 0 .. AGENT_SPENDING_LIMIT] : Backed(rest)
  BY DEF Reserved, Backed
<1>2. AGENT_SPENDING_LIMIT \in Nat /\ spent \in Nat /\ Values("window") \in Int
  BY ToolAssumption, ValuesType DEF Shapes
<1>3. Total(rest) \in Nat
  BY RestTotal
<1> DEFINE n == e.n
<1>4. n \in 1 .. MaxStarts
  OBVIOUS
<1>5. Values("window")' = Values("window") + IF e.guard = "window" THEN e.value ELSE 0
  BY LandedAfter
<1>6. 0 \in 0 .. AGENT_SPENDING_LIMIT
  BY <1>2
<1> HIDE DEF n
<1>7. PICK more : Changed(rest, n, 0, more)
  BY <1>4, <1>6, RestChanged
<1>8. /\ more \in [1 .. MaxStarts -> 0 .. AGENT_SPENDING_LIMIT]
      /\ Total(more) = Total(rest) - rest[n] + 0
      /\ \A m \in 1 .. MaxStarts : m # n => more[m] = rest[m]
  BY <1>7 DEF Changed
<1>9. rest[n] \in Nat /\ (e.guard = "window" => rest[n] >= e.value /\ e.value \in Nat)
  <2>1. rest[n] \in Nat
    BY <1>4
  <2>2. e.guard = "window" => rest[n] >= e.value /\ e.value \in Nat
    BY <1>1 DEF Backed, Sanctioned, n
  <2> QED
    BY <2>1, <2>2
<1>10. /\ Values("window")' + Total(more) <= spent'
       /\ Values("window")' + Total(more) <= AGENT_SPENDING_LIMIT
  <2>1. /\ Values("window") + Total(rest) <= spent
        /\ Values("window") + Total(rest) <= AGENT_SPENDING_LIMIT
    BY <1>1 DEF Backed
  <2>2. CASE e.guard = "window"
    <3>1. Values("window")' + Total(more) <= Values("window") + Total(rest)
      BY <1>2, <1>3, <1>5, <1>8, <1>9, <2>2
    <3>2. Values("window")' + Total(more) \in Int
      BY <1>2, <1>3, <1>5, <1>8, <1>9, <2>2
    <3> QED
      BY <1>2, <1>3, <2>1, <3>1, <3>2
  <2>3. CASE e.guard # "window"
    <3>1. Values("window")' + Total(more) <= Values("window") + Total(rest)
      BY <1>2, <1>3, <1>5, <1>8, <1>9, <2>3
    <3>2. Values("window")' + Total(more) \in Int
      BY <1>2, <1>3, <1>5, <1>8, <1>9, <2>3
    <3> QED
      BY <1>2, <1>3, <2>1, <3>1, <3>2
  <2> QED
    BY <2>2, <2>3
<1>11. Covers(more)'
  <2>1. ASSUME NEW d \in network', d.guard = "window" PROVE more[d.n] >= d.value
    <3>1. d \in network /\ d.n # n /\ d.n \in 1 .. MaxStarts
      BY DEF n
    <3> QED
      BY <1>1, <1>8, <2>1, <3>1 DEF Backed, Covers
  <2>2. ASSUME NEW r \in Slots, Busy(r)', job'[r].guard = "window", Passed(job'[r].todo)
        PROVE  more[job'[r].n] >= job'[r].value
    <3>1. Busy(r) /\ job'[r] = job[r] /\ job[r].n # n /\ job[r].n \in 1 .. MaxStarts
      BY <2>2 DEF n
    <3> QED
      BY <1>1, <1>8, <2>2, <3>1 DEF Backed, Covers
  <2> QED
    BY <2>1, <2>2 DEF Covers
<1> QED
  BY <1>8, <1>10, <1>11 DEF Reserved

\* What has the number of a job or of a transaction under way.
LEMMA Numbered ==
  ASSUME Shapes, JobsGood, OneEach
  PROVE  /\ \A r \in Slots : Busy(r) => job[r].n \in 1 .. started /\ job[r].n \in 1 .. MaxStarts
         /\ \A e \in network : e.n \in 1 .. started /\ e.n \in 1 .. MaxStarts /\ e \in Envelopes
<1>1. started \in 0 .. MaxStarts /\ MaxStarts \in Nat
  BY TransactionAssumption DEF Shapes
<1>2. \A n : n \in 1 .. started => n \in 1 .. MaxStarts
  BY <1>1
<1> QED
  BY <1>2, BusyJob DEF OneEach, Good, Shapes

\* The transaction of slot s lands while its answer is awaited.
LEMMA OuterLands ==
  ASSUME IInv, NEW s \in Slots, Outer(s), Lands(Envelope(job[s])), network' = network
  PROVE  IInv'
<1>1. Shapes /\ JobsGood /\ OneEach /\ AllSanctioned /\ Reserved /\ Alone
  BY DEF IInv
<1>2. /\ Busy(s) /\ Goes(s) /\ Reports(s) /\ Head(job[s].todo) \in Sending
      /\ Busy(s)' => ~WillSend(job'[s].todo)
      /\ records' = records /\ started' = started /\ spent' = spent
      /\ cache' \in {0, cache}
  BY DEF Outer
<1>3. PICK e : e = Envelope(job[s])
  OBVIOUS
<1>4. /\ e \in Envelopes /\ Sanctioned(e)
      /\ e.n = job[s].n /\ job[s].n \in 1 .. started /\ e.n \in 1 .. MaxStarts
      /\ e.value = job[s].value /\ e.guard = job[s].guard
      /\ Passed(job[s].todo) /\ WillSend(job[s].todo)
      /\ \A d \in network : d.n # e.n
      /\ \A i \in DOMAIN landed : landed[i].n # e.n
  BY <1>1, <1>2, <1>3, EnvelopeFacts
<1>5. Lands(e)
  BY <1>3
<1>6. /\ landed' \in Seq(Envelopes) /\ seq' \in Nat
      /\ DOMAIN landed' = DOMAIN landed \cup {Len(landed) + 1}
      /\ Len(landed) + 1 \notin DOMAIN landed
      /\ landed'[Len(landed) + 1] = e /\ \A i \in DOMAIN landed : landed'[i] = landed[i]
  BY <1>1, <1>4, <1>5, LandedAfter
<1>7. /\ job' \in [Slots -> Jobs \cup {Idle}]
      /\ \A r \in Slots : r # s => job'[r] = job[r]
      /\ Busy(s)' => job'[s].n = job[s].n
  BY <1>1, <1>2, SlotsAfter DEF Keeps, Busy
<1>8. Shapes'
  <2>1. resolved' \subseteq 1 .. started'
    BY <1>1, <1>2, <1>4 DEF Reports, Shapes
  <2>2. records' \in Seq(Nat) /\ cache' \in 0 .. Len(records') /\ spent' \in Nat
        /\ started' \in 0 .. MaxStarts /\ network' \subseteq Envelopes
    BY <1>1, <1>2 DEF Shapes
  <2> QED
    BY <1>6, <1>7, <2>1, <2>2 DEF Shapes
<1>9. JobsGood'
  <2>1. records' \in Seq(Nat) /\ Len(records') >= Len(records)
    BY <1>1, <1>2 DEF Shapes
  <2> QED
    BY <1>1, <1>2, <2>1, GoodAfter
<1>10. Alone'
  BY <1>1, <1>2, AloneAfter
<1>11. AllSanctioned'
  BY <1>1, <1>4, <1>6 DEF AllSanctioned
<1>12. OneEach'
  <2>1. ASSUME NEW r \in Slots, Busy(r)' PROVE Busy(r) /\ job'[r].n = job[r].n
    BY <1>2, <1>7, <2>1 DEF Busy
  <2>2. ASSUME NEW r \in Slots, Busy(r)', WillSend(job'[r].todo)
        PROVE  job'[r] = job[r] /\ job[r].n # e.n
    BY <1>1, <1>2, <1>4, <1>7, <2>1, <2>2 DEF OneEach
  <2>3. \A r, q \in Slots : Busy(r)' /\ Busy(q)' /\ job'[r].n = job'[q].n => r = q
    BY <1>1, <2>1 DEF OneEach
  <2>4. ASSUME NEW r \in Slots, Busy(r)', WillSend(job'[r].todo)
        PROVE  /\ \A d \in network : d.n # job'[r].n
               /\ \A i \in DOMAIN landed' : landed'[i].n # job'[r].n
    BY <1>1, <1>6, <2>1, <2>2, <2>4 DEF OneEach
  <2>5. \A d \in network : \A i \in DOMAIN landed' : landed'[i].n # d.n
    BY <1>1, <1>4, <1>6 DEF OneEach
  <2>6. \A i, k \in DOMAIN landed' : landed'[i].n = landed'[k].n => i = k
    BY <1>1, <1>4, <1>6 DEF OneEach
  <2>7. \A i \in DOMAIN landed' : landed'[i].n \in 1 .. started
    BY <1>1, <1>4, <1>6 DEF OneEach
  <2>8. \A n \in resolved' : \E i \in DOMAIN landed' : landed'[i].n = n
    BY <1>1, <1>2, <1>6 DEF OneEach, Reports
  <2>9. /\ \A d, f \in network : d.n = f.n => d = f
        /\ \A d \in network : d.n \in 1 .. started
    BY <1>1 DEF OneEach
  <2>10. network' = network /\ started' = started
    BY <1>2
  <2> QED
    BY <2>3, <2>4, <2>5, <2>6, <2>7, <2>8, <2>9, <2>10 DEF OneEach
<1>13. Reserved'
  <2>1. \A rest : Covers(rest) /\ e.guard = "window" => rest[e.n] >= e.value
    BY <1>2, <1>4 DEF Covers
  <2>2. \A d \in network' : d \in network /\ d.n # e.n /\ d.n \in 1 .. MaxStarts
    BY <1>1, <1>4, Numbered
  <2>3. ASSUME NEW r \in Slots, Busy(r)', Passed(job'[r].todo)
        PROVE  Busy(r) /\ job'[r] = job[r] /\ job[r].n # e.n /\ job[r].n \in 1 .. MaxStarts
    <3>1. r # s
      BY <1>2, <2>3, PassedSends
    <3>2. job'[r] = job[r] /\ Busy(r)
      BY <1>7, <2>3, <3>1 DEF Busy
    <3>3. job[r].n # e.n
      BY <1>1, <1>2, <1>4, <3>1, <3>2 DEF OneEach
    <3> QED
      BY <1>1, <3>2, <3>3, Numbered
  <2> QED
    BY <1>1, <1>2, <1>4, <1>5, <2>1, <2>2, <2>3, LandingReserved
<1> QED
  BY <1>8, <1>9, <1>10, <1>11, <1>12, <1>13 DEF IInv

\* The transaction of slot s fails, gets lost, or is left to the network.
LEMMA OuterQueues ==
  ASSUME IInv, NEW s \in Slots, Outer(s), landed' = landed, seq' \in Nat,
         network' = network \/ network' = network \cup {Envelope(job[s])}
  PROVE  IInv'
<1>1. Shapes /\ JobsGood /\ OneEach /\ AllSanctioned /\ Reserved /\ Alone
  BY DEF IInv
<1>2. /\ Busy(s) /\ Goes(s) /\ Reports(s) /\ Head(job[s].todo) \in Sending
      /\ Busy(s)' => ~WillSend(job'[s].todo)
      /\ records' = records /\ started' = started /\ spent' = spent
      /\ cache' \in {0, cache}
  BY DEF Outer
<1>3. PICK e : e = Envelope(job[s])
  OBVIOUS
<1>4. /\ e \in Envelopes /\ Sanctioned(e)
      /\ e.n = job[s].n /\ job[s].n \in 1 .. started /\ e.n \in 1 .. MaxStarts
      /\ e.value = job[s].value /\ e.guard = job[s].guard
      /\ Passed(job[s].todo) /\ WillSend(job[s].todo)
      /\ \A d \in network : d.n # e.n
      /\ \A i \in DOMAIN landed : landed[i].n # e.n
  BY <1>1, <1>2, <1>3, EnvelopeFacts
<1>5. network' = network \/ network' = network \cup {e}
  BY <1>3
<1>6. \A d \in network' : d \in network \/ d = e
  BY <1>5
<1>7. /\ job' \in [Slots -> Jobs \cup {Idle}]
      /\ \A r \in Slots : r # s => job'[r] = job[r]
      /\ Busy(s)' => job'[s].n = job[s].n
  BY <1>1, <1>2, SlotsAfter DEF Keeps, Busy
<1>8. Shapes'
  <2>1. resolved' \subseteq 1 .. started'
    BY <1>1, <1>2, <1>4 DEF Reports, Shapes
  <2>2. records' \in Seq(Nat) /\ cache' \in 0 .. Len(records') /\ spent' \in Nat
        /\ started' \in 0 .. MaxStarts /\ landed' \in Seq(Envelopes)
    BY <1>1, <1>2 DEF Shapes
  <2>3. network' \subseteq Envelopes
    BY <1>1, <1>4, <1>6 DEF Shapes
  <2> QED
    BY <1>7, <2>1, <2>2, <2>3 DEF Shapes
<1>9. JobsGood'
  <2>1. records' \in Seq(Nat) /\ Len(records') >= Len(records)
    BY <1>1, <1>2 DEF Shapes
  <2> QED
    BY <1>1, <1>2, <2>1, GoodAfter
<1>10. Alone'
  BY <1>1, <1>2, AloneAfter
<1>11. AllSanctioned'
  BY <1>1, <1>4, <1>6 DEF AllSanctioned
<1>12. OneEach'
  <2>1. ASSUME NEW r \in Slots, Busy(r)' PROVE Busy(r) /\ job'[r].n = job[r].n
    BY <1>2, <1>7, <2>1 DEF Busy
  <2>2. ASSUME NEW r \in Slots, Busy(r)', WillSend(job'[r].todo)
        PROVE  job'[r] = job[r] /\ job[r].n # e.n
    BY <1>1, <1>2, <1>4, <1>7, <2>1, <2>2 DEF OneEach
  <2>3. \A r, q \in Slots : Busy(r)' /\ Busy(q)' /\ job'[r].n = job'[q].n => r = q
    BY <1>1, <2>1 DEF OneEach
  <2>4. ASSUME NEW r \in Slots, Busy(r)', WillSend(job'[r].todo)
        PROVE  /\ \A d \in network' : d.n # job'[r].n
               /\ \A i \in DOMAIN landed : landed[i].n # job'[r].n
    BY <1>1, <1>6, <2>1, <2>2, <2>4 DEF OneEach
  <2>5. \A d, f \in network' : d.n = f.n => d = f
    BY <1>1, <1>4, <1>6 DEF OneEach
  <2>6. \A d \in network' : \A i \in DOMAIN landed : landed[i].n # d.n
    BY <1>1, <1>4, <1>6 DEF OneEach
  <2>7. \A d \in network' : d.n \in 1 .. started
    BY <1>1, <1>4, <1>6 DEF OneEach
  <2>8. \A n \in resolved' : \E i \in DOMAIN landed : landed[i].n = n
    BY <1>1, <1>2 DEF OneEach, Reports
  <2>9. /\ \A i, k \in DOMAIN landed : landed[i].n = landed[k].n => i = k
        /\ \A i \in DOMAIN landed : landed[i].n \in 1 .. started
    BY <1>1 DEF OneEach
  <2>10. landed' = landed /\ started' = started
    BY <1>2
  <2> QED
    BY <2>3, <2>4, <2>5, <2>6, <2>7, <2>8, <2>9, <2>10 DEF OneEach
<1>13. Reserved'
  <2>1. PICK rest \in [1 .. MaxStarts -> 0 .. AGENT_SPENDING_LIMIT] : Backed(rest)
    BY <1>1 DEF Reserved, Backed
  <2>2. e.guard = "window" => rest[e.n] >= e.value
    BY <1>2, <1>4, <2>1 DEF Backed, Covers
  <2>3. \A d \in network' : d.guard = "window" => rest[d.n] >= d.value
    BY <1>6, <2>1, <2>2 DEF Backed, Covers
  <2>4. ASSUME NEW r \in Slots, Busy(r)', job'[r].guard = "window", Passed(job'[r].todo)
        PROVE  rest[job'[r].n] >= job'[r].value
    <3>1. r # s
      BY <1>2, <2>4, PassedSends
    <3>2. job'[r] = job[r] /\ Busy(r)
      BY <1>7, <2>4, <3>1 DEF Busy
    <3> QED
      BY <2>1, <2>4, <3>2 DEF Backed, Covers
  <2>5. Covers(rest)'
    BY <2>3, <2>4 DEF Covers
  <2>6. Values("window")' = Values("window")
    BY DEF Values
  <2> QED
    BY <1>2, <2>1, <2>5, <2>6 DEF Backed, Reserved
<1> QED
  BY <1>8, <1>9, <1>10, <1>11, <1>12, <1>13 DEF IInv

\* Whether its operations fail or not, a transaction leaves a sequence number.
LEMMA FailsType ==
  ASSUME Shapes, NEW e \in Envelopes, Fails(e)
  PROVE  seq' \in Nat /\ landed' = landed
  BY DEF Fails, Shapes, Envelopes

\* A submitted transaction is the last step.
LEMMA SubmitLast ==
  ASSUME Shapes, JobsGood, NEW s \in Slots, Busy(s), Head(job[s].todo) \in Submits
  PROVE  Len(job[s].todo) = 1
<1>1. /\ Sound(job[s]) /\ Head(job[s].todo) = job[s].todo[1]
      /\ Len(job[s].todo) \in Nat /\ Len(job[s].todo) >= 1
  BY BusyJob
<1>2. 1 \in 1 .. Len(job[s].todo)
  BY <1>1
<1> QED
  BY <1>1, <1>2 DEF Sound, SendsLast

\* submitTransaction: success, failure, or no answer.
LEMMA SubmitPreserves ==
  ASSUME IInv, NEW s \in Slots, SubmitOk(s) \/ SubmitTxFailed(s) \/ SubmitUnanswered(s)
  PROVE  IInv'
<1>1. Shapes /\ JobsGood /\ OneEach
  BY DEF IInv
<1>2. Busy(s) /\ Head(job[s].todo) \in Submits /\ Head(job[s].todo) \in Sending
  BY DEF SubmitOk, SubmitTxFailed, SubmitUnanswered, At, Sending
<1>3. records' = records /\ started' = started /\ spent' = spent /\ cache' = 0
  BY DEF SubmitOk, SubmitTxFailed, SubmitUnanswered
<1>4. Envelope(job[s]) \in Envelopes /\ Envelope(job[s]).n = job[s].n
  BY <1>1, <1>2, EnvelopeFacts
<1>5. ASSUME job' = [job EXCEPT ![s] = Idle], Reports(s) PROVE Outer(s)
  <2>1. Goes(s)
    BY <1>5 DEF Goes
  <2>2. ~Busy(s)'
    BY <1>1, <1>5 DEF Busy, Shapes
  <2> QED
    BY <1>2, <1>3, <1>5, <2>1, <2>2 DEF Outer
<1>6. CASE SubmitOk(s)
  <2>1. Lands(Envelope(job[s])) /\ Continue(s, job[s]) /\ network' = network
    BY <1>6 DEF SubmitOk
  <2>2. Len(job[s].todo) = 1
    BY <1>1, <1>2, SubmitLast
  <2>3. /\ job' = [job EXCEPT ![s] = Idle]
        /\ resolved' = IF job[s].sends THEN resolved \cup {job[s].n} ELSE resolved
    BY <2>1, <2>2 DEF Continue
  <2>4. PICK e : e = Envelope(job[s])
    OBVIOUS
  <2>5. e \in Envelopes /\ Lands(e) /\ e.n = job[s].n
    BY <1>4, <2>1, <2>4
  <2>6. \E i \in DOMAIN landed' : landed'[i].n = job[s].n
    BY <1>1, <2>5, LandedAfter
  <2>7. Outer(s)
    BY <1>5, <2>3, <2>6 DEF Reports
  <2> QED
    BY <2>1, <2>7, OuterLands
<1>7. CASE SubmitTxFailed(s)
  <2>1. Fails(Envelope(job[s])) /\ Reject(s) /\ network' = network
    BY <1>7 DEF SubmitTxFailed
  <2>2. PICK e : e = Envelope(job[s])
    OBVIOUS
  <2>3. seq' \in Nat /\ landed' = landed
    BY <1>1, <1>4, <2>1, <2>2, FailsType
  <2>4. Outer(s)
    BY <1>5, <2>1 DEF Reject, Reports
  <2> QED
    BY <2>1, <2>3, <2>4, OuterQueues
<1>8. CASE SubmitUnanswered(s)
  <2>1. /\ Reject(s) /\ seq' = seq /\ landed' = landed
        /\ network' = network \/ network' = network \cup {Envelope(job[s])}
    BY <1>8 DEF SubmitUnanswered
  <2>2. Outer(s)
    BY <1>5, <2>1 DEF Reject, Reports
  <2>3. seq' \in Nat
    BY <1>1, <2>1 DEF Shapes
  <2> QED
    BY <2>1, <2>2, <2>3, OuterQueues
<1> QED
  BY <1>6, <1>7, <1>8

\* sorobanServer.sendTransaction.
LEMMA SendPreserves ==
  ASSUME IInv, NEW s \in Slots, Send(s)
  PROVE  IInv'
<1>1. Shapes /\ JobsGood /\ OneEach
  BY DEF IInv
<1>2. Busy(s) /\ Head(job[s].todo) = "send" /\ Head(job[s].todo) \in Sending
  BY DEF Send, At, Sending
<1>3. /\ seq' = seq /\ landed' = landed /\ records' = records /\ cache' = cache /\ spent' = spent
      /\ started' = started
      /\ network' = network \/ network' = network \cup {Envelope(job[s])}
      /\ Continue(s, job[s]) \/ Reject(s)
  BY DEF Send
<1>4. Goes(s) /\ Reports(s)
  BY <1>1, <1>2, <1>3, PlainContinue, RejectGoes
<1>5. Busy(s)' => ~WillSend(job'[s].todo)
  <2>1. /\ job[s] \in Jobs /\ Sound(job[s]) /\ Head(job[s].todo) = job[s].todo[1]
        /\ job[s].todo \in Seq(Steps) /\ job[s].todo # <<>>
    BY <1>1, <1>2, BusyJob
  <2>2. CASE Reject(s)
    BY <1>1, <2>2 DEF Reject, Busy, Shapes
  <2>3. CASE Continue(s, job[s]) /\ Len(job[s].todo) = 1
    BY <1>1, <2>3 DEF Continue, Busy, Shapes
  <2>4. CASE Continue(s, job[s]) /\ Len(job[s].todo) # 1
    <3>1. job' = [job EXCEPT ![s] = After(job[s])]
      BY <2>4 DEF Continue, After
    <3>2. job'[s] = After(job[s])
      BY <1>1, <3>1 DEF Shapes
    <3>3. ~WillSend(Tail(job[s].todo))
      BY <1>2, <2>1, <2>4, TailInherits DEF Sound
    <3>4. After(job[s]).todo = Tail(job[s].todo)
      BY <2>1 DEF After, Jobs
    <3> QED
      BY <3>2, <3>3, <3>4
  <2> QED
    BY <1>3, <2>2, <2>3, <2>4
<1>6. Outer(s)
  BY <1>2, <1>3, <1>4, <1>5 DEF Outer
<1>7. seq' \in Nat
  BY <1>1, <1>3 DEF Shapes
<1> QED
  BY <1>3, <1>6, <1>7, OuterQueues

-----------------------------------------------------------------------------
(* run(): a task starts.                                                   *)

\* A program whose job reports what it has sent ends with sending or polling.
LEMMA SendersEnd ==
  ASSUME NEW p, Whole(p), WillSend(p)
  PROVE  p[Len(p)] \in Submits \cup {"poll"}
<1>1. PICK i \in 1 .. Len(p) : p[i] \in Sending
  BY DEF WillSend
<1>2. SendsLast(p) /\ (p[i] \in Submits \/ p[i] = "send")
  BY <1>1 DEF Whole, Formed, Sending
<1>3. p[i] \in Submits => p[Len(p)] = p[i]
  BY <1>2 DEF SendsLast
<1>4. p[i] = "send" => p[Len(p)] = "poll"
  BY <1>2 DEF SendsLast
<1> QED
  BY <1>2, <1>3, <1>4

\* The job of a task that has not done anything yet.
Fresh(j, n) ==
  /\ j \in Jobs /\ Sound(j) /\ j.n = n /\ j.account = 0 /\ ~j.recovered
  /\ j.quiet => network = {} /\ \A s \in Slots : job[s] = Idle
  /\ j.guard = "window" /\ Passed(j.todo) => j.value = 0

\* Every task starts with such a job.
LEMMA NewJob ==
  ASSUME NEW t \in Tasks, NEW n \in Nat
  PROVE  Fresh(Job(t, n), n)
<1> DEFINE q == network = {} /\ \A s \in Slots : job[s] = Idle
           b == IF t.type = "sequence_number" /\ t.in.action = "bump" THEN t.in.bumpTo ELSE 0
           x == IF t.type = "fee_bump" THEN t.in.innerSequence ELSE 0
           w == Range(Program(t)) \cap Sending # {}
           p == Program(t)
           v == Value(t)
           g == GuardOf(t)
           d == IsDry(t)
<1>1. b \in Nat /\ x \in Nat
  BY TaskAssumption
<1>2. g \in Guards
  BY DEF GuardOf, Guards
<1>3. d \in BOOLEAN /\ q \in BOOLEAN /\ w \in BOOLEAN
  BY DEF IsDry
<1>4. /\ Whole(p) /\ (d => ~WillSend(p))
      /\ g = "window" \/ Counts(p) => v \in Nat
      /\ g = "window" /\ Passed(p) => v = 0
      /\ g = "limit" /\ WillSend(p) => v <= AGENT_SPENDING_LIMIT
      /\ v \in Int
  BY TasksFit DEF Fit
<1>5. p \in Seq(Steps) \ {<<>>} /\ SendsLast(p)
      /\ \A i \in 1 .. Len(p) : p[i] = "build" => LoadsBefore(p, i)
  BY <1>4 DEF Whole, Formed
<1>6. w => WillSend(p)
  <2>1. DOMAIN p = 1 .. Len(p)
    BY <1>5
  <2> QED
    BY <2>1 DEF Range, WillSend
<1>7. PICK j : j = Job(t, n)
  OBVIOUS
<1>8. j = [todo |-> p, n |-> n, value |-> v, guard |-> g, dry |-> d, bumpTo |-> b, tx |-> x,
           sends |-> w, account |-> 0, asked |-> FALSE, reading |-> 0, polls |-> 0,
           recovered |-> FALSE, quiet |-> q]
  BY <1>7 DEF Job
<1>9. q => network = {} /\ \A s \in Slots : job[s] = Idle
  OBVIOUS
<1> HIDE DEF q, b, x, w, p, v, g, d
<1>10. /\ j.todo = p /\ j.n = n /\ j.value = v /\ j.guard = g /\ j.dry = d /\ j.sends = w
       /\ j.account = 0 /\ ~j.asked /\ j.polls = 0 /\ ~j.recovered /\ j.quiet = q
  BY <1>8
<1>11. j \in Jobs
  BY <1>1, <1>2, <1>3, <1>4, <1>5, <1>8 DEF Jobs
<1>12. j.polls < MAX_ATTEMPTS
  BY <1>10, TransactionAssumption
<1>13. j.sends => j.todo[Len(j.todo)] \in Submits \cup {"poll"}
  BY <1>4, <1>6, <1>10, SendersEnd
<1>14. Sound(j)
  BY <1>4, <1>5, <1>10, <1>12, <1>13 DEF Sound
<1> QED
  BY <1>4, <1>7, <1>9, <1>10, <1>11, <1>14 DEF Fresh

\* A busy slot that another task's start disturbs.
LEMMA Disturbed ==
  ASSUME NEW j \in Jobs, Sound(j)
  PROVE  LET k == [j EXCEPT !.quiet = FALSE]
         IN  /\ k \in Jobs /\ Sound(k) /\ ~k.quiet /\ k.todo = j.todo /\ k.n = j.n
             /\ k.account = j.account /\ k.guard = j.guard /\ k.value = j.value
<1> DEFINE k == [j EXCEPT !.quiet = FALSE]
<1>1. /\ k \in Jobs /\ ~k.quiet
      /\ k.todo = j.todo /\ k.n = j.n /\ k.value = j.value /\ k.guard = j.guard
      /\ k.dry = j.dry /\ k.sends = j.sends /\ k.account = j.account
      /\ k.asked = j.asked /\ k.recovered = j.recovered /\ k.polls = j.polls
  BY DEF Jobs
<1> HIDE DEF k
<1>2. Sound(k)
  BY <1>1 DEF Sound
<1> QED
  BY <1>1, <1>2 DEF k

\* The slots once a task has started in slot s: its job, and the others with
\* nothing changed but quiet.
Joins(s, n) ==
  /\ job' \in [Slots -> Jobs \cup {Idle}]
  /\ Busy(s)' /\ Fresh(job'[s], n)
  /\ \A r \in Slots : r # s /\ Busy(r)' =>
       /\ Busy(r) /\ Sound(job'[r]) /\ ~job'[r].quiet
       /\ job'[r].todo = job[r].todo /\ job'[r].n = job[r].n
       /\ job'[r].account = job[r].account
       /\ job'[r].guard = job[r].guard /\ job'[r].value = job[r].value

\* run() adds such a job.
LEMMA RunJoins ==
  ASSUME Shapes, JobsGood, NEW s \in Slots, NEW t \in Tasks, Run(s, t)
  PROVE  Joins(s, started + 1)
<1> DEFINE other(r) == IF Busy(r) THEN [job[r] EXCEPT !.quiet = FALSE] ELSE Idle
<1>1. started + 1 \in Nat
  BY TransactionAssumption DEF Shapes
<1>2. PICK j : j = Job(t, started + 1)
  OBVIOUS
<1>3. Fresh(j, started + 1) /\ j \in Jobs
  BY <1>1, <1>2, NewJob DEF Fresh
<1>4. job' = [r \in Slots |-> IF r = s THEN j ELSE other(r)]
  BY <1>2 DEF Run
<1>5. ASSUME NEW r \in Slots, Busy(r)
      PROVE  LET k == other(r)
             IN  /\ k \in Jobs /\ Sound(k) /\ ~k.quiet /\ k.todo = job[r].todo /\ k.n = job[r].n
                 /\ k.account = job[r].account /\ k.guard = job[r].guard /\ k.value = job[r].value
  <2>1. job[r] \in Jobs /\ Sound(job[r])
    BY <1>5, BusyJob
  <2>2. other(r) = [job[r] EXCEPT !.quiet = FALSE]
    BY <1>5
  <2> HIDE DEF other
  <2> QED
    BY <2>1, <2>2, Disturbed
<1>6. \A r \in Slots : ~Busy(r) => other(r) = Idle
  OBVIOUS
<1> HIDE DEF other
<1>7. job'[s] = j /\ \A r \in Slots : r # s => job'[r] = other(r)
  BY <1>4
<1>8. job' \in [Slots -> Jobs \cup {Idle}]
  <2>1. \A r \in Slots : other(r) \in Jobs \cup {Idle}
    BY <1>5, <1>6
  <2> QED
    BY <1>3, <1>4, <2>1
<1>9. Busy(s)'
  BY <1>3, <1>7, JobTodo DEF Busy
<1>10. ASSUME NEW r \in Slots, r # s, Busy(r)'
       PROVE  /\ Busy(r) /\ Sound(job'[r]) /\ ~job'[r].quiet
              /\ job'[r].todo = job[r].todo /\ job'[r].n = job[r].n
              /\ job'[r].account = job[r].account
              /\ job'[r].guard = job[r].guard /\ job'[r].value = job[r].value
  <2>1. job'[r] = other(r) /\ other(r) # Idle
    BY <1>7, <1>10 DEF Busy
  <2>2. Busy(r)
    BY <1>6, <2>1
  <2> QED
    BY <1>5, <2>1, <2>2
<1> QED
  BY <1>3, <1>7, <1>8, <1>9, <1>10 DEF Joins

\* A task that starts has nothing under way, and disturbs what others assume.
LEMMA RunPreserves ==
  ASSUME IInv, NEW s \in Slots, NEW t \in Tasks, Run(s, t)
  PROVE  IInv'
<1>1. Shapes /\ JobsGood /\ OneEach /\ AllSanctioned /\ Reserved /\ Alone
  BY DEF IInv
<1>2. /\ started < MaxStarts /\ started' = started + 1 /\ ~Busy(s)
      /\ seq' = seq /\ landed' = landed /\ network' = network /\ records' = records
      /\ cache' = cache /\ spent' = spent /\ resolved' = resolved
  BY DEF Run, ledger
<1> DEFINE n == started + 1
<1>3. /\ started \in Nat /\ MaxStarts \in Nat /\ n \in 1 .. MaxStarts /\ n \notin 1 .. started
      /\ n \in 1 .. started' /\ 1 .. started \subseteq 1 .. started'
      /\ started' \in 0 .. MaxStarts /\ 1 .. started \subseteq 1 .. MaxStarts
  BY <1>1, <1>2, TransactionAssumption DEF Shapes
<1> HIDE DEF n
<1>4. Joins(s, n)
  BY <1>1, RunJoins DEF n
<1>5. /\ job' \in [Slots -> Jobs \cup {Idle}] /\ Busy(s)' /\ Fresh(job'[s], n)
  BY <1>4 DEF Joins
<1>6. /\ job'[s].n = n /\ job'[s].account = 0 /\ ~job'[s].recovered /\ Sound(job'[s])
      /\ job'[s].quiet => network = {} /\ \A r \in Slots : job[r] = Idle
      /\ job'[s].guard = "window" /\ Passed(job'[s].todo) => job'[s].value = 0
  BY <1>5 DEF Fresh
<1>7. ASSUME NEW r \in Slots, r # s, Busy(r)'
      PROVE  /\ Busy(r) /\ Sound(job'[r]) /\ ~job'[r].quiet
             /\ job'[r].todo = job[r].todo /\ job'[r].n = job[r].n
             /\ job'[r].account = job[r].account
             /\ job'[r].guard = job[r].guard /\ job'[r].value = job[r].value
             /\ job[r].n \in 1 .. started /\ job[r].account \in 0 .. Len(records)
  <2>1. Busy(r)
    BY <1>4, <1>7 DEF Joins
  <2>2. Good(job[r])
    BY <1>1, <2>1, BusyJob
  <2> QED
    BY <1>4, <1>7, <2>2 DEF Joins, Good
<1>8. Shapes'
  BY <1>1, <1>2, <1>3, <1>5 DEF Shapes
<1>9. JobsGood'
  <2> SUFFICES ASSUME NEW r \in Slots, Busy(r)' PROVE Good(job[r])'
    BY DEF JobsGood
  <2>1. Len(records) \in Nat /\ records' = records
    BY <1>1, <1>2 DEF Shapes
  <2>2. CASE r = s
    BY <1>3, <1>6, <2>1, <2>2 DEF Good
  <2>3. CASE r # s
    BY <1>3, <1>7, <2>1, <2>3 DEF Good
  <2> QED
    BY <2>2, <2>3
<1>10. AllSanctioned'
  BY <1>1, <1>2 DEF AllSanctioned
<1>11. Alone'
  <2> SUFFICES ASSUME NEW r \in Slots, Busy(r)', job'[r].quiet
               PROVE  (\A q \in Slots : Busy(q)' => q = r) /\ network' = {}
    BY DEF Alone
  <2>1. r = s
    BY <1>7
  <2>2. network = {} /\ \A q \in Slots : ~Busy(q)
    BY <1>6, <2>1 DEF Busy
  <2> QED
    BY <1>2, <1>7, <2>1, <2>2
<1>12. OneEach'
  <2>1. /\ \A e \in network : e.n # n
        /\ \A i \in DOMAIN landed : landed[i].n # n
    BY <1>1, <1>3 DEF OneEach
  <2>2. \A r, q \in Slots : Busy(r)' /\ Busy(q)' /\ job'[r].n = job'[q].n => r = q
    <3> SUFFICES ASSUME NEW r \in Slots, NEW q \in Slots, Busy(r)', Busy(q)', job'[r].n = job'[q].n,
                        r # q
                 PROVE  FALSE
      OBVIOUS
    <3>1. r # s /\ q # s
      BY <1>3, <1>6, <1>7
    <3> QED
      BY <1>1, <1>7, <3>1 DEF OneEach
  <2>3. ASSUME NEW r \in Slots, Busy(r)', WillSend(job'[r].todo)
        PROVE  /\ \A e \in network : e.n # job'[r].n
               /\ \A i \in DOMAIN landed : landed[i].n # job'[r].n
    <3>1. CASE r = s
      BY <1>6, <2>1, <3>1
    <3>2. CASE r # s
      BY <1>1, <1>7, <2>3, <3>2 DEF OneEach
    <3> QED
      BY <3>1, <3>2
  <2>4. /\ \A e \in network : e.n \in 1 .. started'
        /\ \A i \in DOMAIN landed : landed[i].n \in 1 .. started'
    BY <1>1, <1>3 DEF OneEach
  <2>5. /\ \A d, e \in network : d.n = e.n => d = e
        /\ \A e \in network : \A i \in DOMAIN landed : landed[i].n # e.n
        /\ \A i, k \in DOMAIN landed : landed[i].n = landed[k].n => i = k
        /\ \A m \in resolved : \E i \in DOMAIN landed : landed[i].n = m
    BY <1>1 DEF OneEach
  <2>6. landed' = landed /\ network' = network /\ resolved' = resolved
    BY <1>2
  <2> QED
    BY <2>2, <2>3, <2>4, <2>5, <2>6 DEF OneEach
<1>13. Reserved'
  <2>1. PICK rest \in [1 .. MaxStarts -> 0 .. AGENT_SPENDING_LIMIT] : Backed(rest)
    BY <1>1 DEF Reserved, Backed
  <2>2. ASSUME NEW r \in Slots, Busy(r)', job'[r].guard = "window", Passed(job'[r].todo)
        PROVE  rest[job'[r].n] >= job'[r].value
    <3>1. CASE r = s
      <4>1. rest[n] \in 0 .. AGENT_SPENDING_LIMIT /\ job'[s].value = 0 /\ job'[s].n = n
        BY <1>3, <1>6, <2>2, <3>1
      <4>2. rest[n] >= 0
        BY <4>1, ToolAssumption
      <4> QED
        BY <3>1, <4>1, <4>2
    <3>2. CASE r # s
      BY <1>7, <2>1, <2>2, <3>2 DEF Backed, Covers
    <3> QED
      BY <3>1, <3>2
  <2>3. Covers(rest)'
    BY <1>2, <2>1, <2>2 DEF Backed, Covers
  <2>4. Values("window")' = Values("window")
    BY <1>2 DEF Values
  <2> QED
    BY <1>2, <2>1, <2>3, <2>4 DEF Backed, Reserved
<1> QED
  BY <1>8, <1>9, <1>10, <1>11, <1>12, <1>13 DEF IInv

-----------------------------------------------------------------------------
(* The network lands, fails or forgets what nobody waits for.              *)

\* Nobody who is alone is about to send anything then.
LEMMA NetworkGood ==
  ASSUME JobsGood, Alone, Shapes, NEW e \in network, job' = job, records' = records,
         started' = started, network' = network \ {e}
  PROVE  JobsGood' /\ Alone'
<1>1. ASSUME NEW s \in Slots, Busy(s) PROVE Good(job[s])'
  <2>1. PICK j : j = job[s]
    OBVIOUS
  <2>2. Good(j) /\ Sound(j) /\ j.todo \in Seq(Steps) /\ j.todo # <<>>
    BY <1>1, <2>1, BusyJob
  <2>3. j.recovered => ~j.quiet
    <3>1. j.recovered => WillSend(j.todo)
      BY <2>2, RebuildHead DEF Sound
    <3>2. j.quiet /\ WillSend(j.todo) => network = {}
      BY <1>1, <2>1 DEF Alone
    <3> QED
      BY <3>1, <3>2
  <2>4. job'[s] = j
    BY <2>1
  <2> QED
    BY <2>2, <2>3, <2>4 DEF Good
<1>2. JobsGood'
  BY <1>1 DEF JobsGood, Busy
<1>3. Alone'
  BY DEF Alone, Busy
<1> QED
  BY <1>2, <1>3

\* Each step of the network keeps the inductive invariant.
LEMMA NetworkPreserves ==
  ASSUME IInv, NetworkLands \/ NetworkDrops
  PROVE  IInv'
<1>1. Shapes /\ JobsGood /\ OneEach /\ AllSanctioned /\ Reserved /\ Alone
  BY DEF IInv
<1>2. PICK e \in network :
        /\ Lands(e) \/ Fails(e) \/ (seq' = seq /\ landed' = landed)
        /\ network' = network \ {e}
        /\ UNCHANGED <<records, cache, spent, job, started, resolved>>
  BY DEF NetworkLands, NetworkDrops
<1>3. /\ records' = records /\ cache' = cache /\ spent' = spent /\ job' = job
      /\ started' = started /\ resolved' = resolved /\ network' = network \ {e}
  BY <1>2
<1>4. e \in Envelopes /\ Sanctioned(e) /\ e.n \in 1 .. started /\ e.n \in 1 .. MaxStarts
  BY <1>1, Numbered DEF AllSanctioned
<1>5. JobsGood' /\ Alone'
  BY <1>1, <1>3, NetworkGood
<1>6. CASE Lands(e)
  <2>1. /\ landed' \in Seq(Envelopes) /\ seq' \in Nat
        /\ DOMAIN landed' = DOMAIN landed \cup {Len(landed) + 1}
        /\ Len(landed) + 1 \notin DOMAIN landed
        /\ landed'[Len(landed) + 1] = e /\ \A i \in DOMAIN landed : landed'[i] = landed[i]
    BY <1>1, <1>4, <1>6, LandedAfter
  <2>2. Shapes'
    BY <1>1, <1>3, <2>1 DEF Shapes
  <2>3. AllSanctioned'
    BY <1>1, <1>3, <1>4, <2>1 DEF AllSanctioned
  <2>4. /\ \A i \in DOMAIN landed : landed[i].n # e.n
        /\ \A d \in network' : d \in network /\ d.n # e.n
        /\ \A r \in Slots : Busy(r) /\ WillSend(job[r].todo) => job[r].n # e.n
    BY <1>1, <1>3 DEF OneEach
  <2>5. OneEach'
    <3>1. \A r, q \in Slots : Busy(r)' /\ Busy(q)' /\ job'[r].n = job'[q].n => r = q
      BY <1>1, <1>3 DEF OneEach, Busy
    <3>2. ASSUME NEW r \in Slots, Busy(r)', WillSend(job'[r].todo)
          PROVE  /\ \A d \in network' : d.n # job'[r].n
                 /\ \A i \in DOMAIN landed' : landed'[i].n # job'[r].n
      <4>1. Busy(r) /\ job'[r] = job[r] /\ WillSend(job[r].todo)
        BY <1>3, <3>2 DEF Busy
      <4> QED
        BY <1>1, <2>1, <2>4, <4>1 DEF OneEach
    <3>3. \A d, f \in network' : d.n = f.n => d = f
      BY <1>1, <2>4 DEF OneEach
    <3>4. \A d \in network' : \A i \in DOMAIN landed' : landed'[i].n # d.n
      BY <1>1, <2>1, <2>4 DEF OneEach
    <3>5. \A i, k \in DOMAIN landed' : landed'[i].n = landed'[k].n => i = k
      BY <1>1, <2>1, <2>4 DEF OneEach
    <3>6. /\ \A d \in network' : d.n \in 1 .. started'
          /\ \A i \in DOMAIN landed' : landed'[i].n \in 1 .. started'
      BY <1>1, <1>3, <1>4, <2>1, <2>4 DEF OneEach
    <3>7. \A n \in resolved' : \E i \in DOMAIN landed' : landed'[i].n = n
      BY <1>1, <1>3, <2>1 DEF OneEach
    <3> QED
      BY <3>1, <3>2, <3>3, <3>4, <3>5, <3>6, <3>7 DEF OneEach
  <2>6. Reserved'
    <3>1. \A rest : Covers(rest) /\ e.guard = "window" => rest[e.n] >= e.value
      BY DEF Covers
    <3>2. \A d \in network' : d \in network /\ d.n # e.n /\ d.n \in 1 .. MaxStarts
      BY <1>1, <2>4, Numbered
    <3>3. ASSUME NEW r \in Slots, Busy(r)', Passed(job'[r].todo)
          PROVE  Busy(r) /\ job'[r] = job[r] /\ job[r].n # e.n /\ job[r].n \in 1 .. MaxStarts
      <4>1. Busy(r) /\ job'[r] = job[r] /\ WillSend(job[r].todo)
        BY <1>3, <3>3, PassedSends DEF Busy
      <4> QED
        BY <1>1, <2>4, <4>1, Numbered
    <3> QED
      BY <1>1, <1>3, <1>4, <1>6, <3>1, <3>2, <3>3, LandingReserved
  <2> QED
    BY <1>5, <2>2, <2>3, <2>5, <2>6 DEF IInv
<1>7. CASE Fails(e) \/ (seq' = seq /\ landed' = landed)
  <2>1. seq' \in Nat /\ landed' = landed
    BY <1>1, <1>4, <1>7, FailsType DEF Shapes
  <2>2. Shapes' /\ AllSanctioned'
    BY <1>1, <1>3, <2>1 DEF Shapes, AllSanctioned
  <2>3. OneEach'
    BY <1>1, <1>3, <2>1 DEF OneEach, Busy
  <2>4. Reserved'
    <3>1. PICK rest \in [1 .. MaxStarts -> 0 .. AGENT_SPENDING_LIMIT] : Backed(rest)
      BY <1>1 DEF Reserved, Backed
    <3>2. Covers(rest)'
      BY <1>3, <3>1 DEF Backed, Covers, Busy
    <3>3. Values("window")' = Values("window")
      BY <2>1 DEF Values
    <3> QED
      BY <1>3, <3>1, <3>2, <3>3 DEF Backed, Reserved
  <2> QED
    BY <1>5, <2>2, <2>3, <2>4 DEF IInv
<1> QED
  BY <1>2, <1>6, <1>7

-----------------------------------------------------------------------------
(* The theorems.                                                           *)

\* The steps that send nothing.
LEMMA InnerStepPreserves ==
  ASSUME IInv, NEW s \in Slots,
         \/ Throw(s) \/ Lookup(s) \/ Query(s) \/ Simulate(s) \/ Spend(s)
         \/ LoadHit(s) \/ LoadMiss(s) \/ LoadReturn(s) \/ LoadFails(s) \/ Build(s)
         \/ SubmitBadSeq(s) \/ Poll(s)
  PROVE  IInv'
<1>1. Shapes /\ JobsGood /\ OneEach /\ AllSanctioned /\ Reserved /\ Alone
  BY DEF IInv
<1>2. CASE Spend(s)
  <2>1. Inner(s) /\ Reserved' /\ spent' \in Nat
    BY <1>1, <1>2, SpendInner, SpendReserved
  <2> QED
    BY <1>1, <2>1, InnerPreserves DEF IInv
<1>3. CASE ~Spend(s)
  <2>1. Inner(s) /\ spent' = spent
    BY <1>1, <1>3, PlainInner, LoadHitInner, LoadMissInner, LoadReturnInner, LoadFailsInner,
       BuildInner, BadSeqInner, PollInner
  <2>2. Head(job[s].todo) # "spend"
    BY <1>3 DEF Throw, Lookup, Query, Simulate, LoadHit, LoadMiss, LoadReturn, LoadFails, Build,
       SubmitBadSeq, Poll, At, Submits
  <2>3. spent' \in Nat
    BY <1>1, <2>1 DEF Shapes
  <2> QED
    BY <1>1, <2>1, <2>2, <2>3, InnerPreserves, InnerReserved DEF IInv
<1> QED
  BY <1>2, <1>3

\* Every step of the tools, of run() and of the network.
LEMMA NextPreserves ==
  ASSUME IInv, [Next]_vars
  PROVE  IInv'
<1>1. ASSUME NEW s \in Slots, Step(s) PROVE IInv'
  BY <1>1, InnerStepPreserves, SubmitPreserves, SendPreserves DEF Step, Timed, Untimed
<1>2. ASSUME NEW s \in Slots, NEW t \in Tasks, Run(s, t) PROVE IInv'
  BY <1>2, RunPreserves
<1>3. CASE NetworkLands \/ NetworkDrops
  BY <1>3, NetworkPreserves
<1>4. CASE UNCHANGED vars
  <2>1. /\ seq' = seq /\ landed' = landed /\ network' = network /\ records' = records
        /\ cache' = cache /\ spent' = spent /\ job' = job /\ started' = started
        /\ resolved' = resolved
    BY <1>4 DEF vars, ledger
  <2>2. Shapes' /\ OneEach' /\ AllSanctioned' /\ Alone'
    BY <2>1 DEF IInv, Shapes, OneEach, AllSanctioned, Alone, Busy
  <2>3. JobsGood'
    BY <2>1 DEF IInv, JobsGood, Good, Healed, Busy
  <2>4. Reserved'
    BY <2>1 DEF IInv, Reserved, Covers, Values, Busy
  <2> QED
    BY <2>2, <2>3, <2>4 DEF IInv
<1> QED
  BY <1>1, <1>2, <1>3, <1>4 DEF Next

\* No task, no transaction, nothing counted.
LEMMA InitHolds ==
  ASSUME Init
  PROVE  IInv
<1>1. /\ seq = 0 /\ landed = <<>> /\ network = {} /\ records = <<>> /\ cache = 0 /\ spent = 0
      /\ job = [s \in Slots |-> Idle] /\ started = 0 /\ resolved = {}
  BY DEF Init
<1>2. MaxStarts \in Nat /\ AGENT_SPENDING_LIMIT \in Nat
  BY TransactionAssumption, ToolAssumption
<1>3. \A s \in Slots : ~Busy(s)
  BY <1>1 DEF Busy
<1>4. DOMAIN landed = 1 .. 0
  BY <1>1
<1>5. \A i : i \notin DOMAIN landed
  BY <1>4
<1>6. Shapes
  BY <1>1, <1>2 DEF Shapes
<1>7. JobsGood /\ OneEach /\ AllSanctioned /\ Alone
  BY <1>1, <1>3, <1>5 DEF JobsGood, OneEach, AllSanctioned, Alone
<1>8. Reserved
  <2>1. PICK rest : rest = [i \in 1 .. MaxStarts |-> 0]
    OBVIOUS
  <2>2. rest \in [1 .. MaxStarts -> 0 .. AGENT_SPENDING_LIMIT]
    BY <1>2, <2>1
  <2>3. Total(rest) = 0
    BY <1>2, <2>1, TotalZero
  <2>4. Values("window") = 0
    <3>1. PICK v : v = [i \in 1 .. 0 |-> 0]
      OBVIOUS
    <3>2. [i \in DOMAIN landed |-> IF landed[i].guard = "window" THEN landed[i].value ELSE 0] = v
      BY <1>4, <3>1
    <3>3. Total(v) = 0
      BY <3>1, TotalZero
    <3> QED
      BY <3>2, <3>3 DEF Values
  <2>5. Covers(rest)
    BY <1>1, <1>3 DEF Covers
  <2>6. 0 + 0 <= spent /\ 0 + 0 <= AGENT_SPENDING_LIMIT
    BY <1>1, <1>2
  <2> QED
    BY <2>2, <2>3, <2>4, <2>5, <2>6 DEF Reserved
<1> QED
  BY <1>6, <1>7, <1>8 DEF IInv

\* The inductive invariant: the programs are well formed, every task has one
\* transaction at most, and the window holds a reserve for each under way.
THEOREM TransactionInvariant == Spec => []IInv
<1>1. Init => IInv
  BY InitHolds
<1>2. IInv /\ [Next]_vars => IInv'
  BY NextPreserves
<1> QED
  BY <1>1, <1>2, PTL DEF Spec

\* What payments and invocations move was counted by assertWithinSpendingLimit
\* and assertSacTransfersWithinSpendingLimit before it was sent and stays within
\* AGENT_SPENDING_LIMIT, a batch stays within it by itself, and a simulation or
\* a query moves nothing, whenever the network lands what was sent.
THEOREM ToolsMovedWasCounted == Spec => []MovedWasCounted
<1>1. IInv => MovedWasCounted
  <2> SUFFICES ASSUME IInv PROVE MovedWasCounted
    OBVIOUS
  <2>1. Shapes /\ AllSanctioned /\ Reserved
    BY DEF IInv
  <2>2. PICK rest \in [1 .. MaxStarts -> 0 .. AGENT_SPENDING_LIMIT] : Backed(rest)
    BY <2>1 DEF Reserved, Backed
  <2>3. Total(rest) \in Nat /\ Values("window") \in Int
    BY <2>1, RestTotal, ValuesType
  <2>4. Values("window") <= spent /\ Values("window") <= AGENT_SPENDING_LIMIT
    <3>1. spent \in Nat /\ AGENT_SPENDING_LIMIT \in Nat
      BY <2>1, ToolAssumption DEF Shapes
    <3> QED
      BY <2>2, <2>3, <3>1 DEF Backed
  <2> QED
    BY <2>1, <2>4 DEF MovedWasCounted, AllSanctioned, Sanctioned
<1> QED
  BY <1>1, TransactionInvariant, PTL

\* A task that run() reports as successful after it sent a transaction has
\* landed one, and no task lands two, for all that submitTransaction rebuilds
\* and the network lands late; with the types of the state.
THEOREM ToolsReportedLanded == Spec => []ReportedLanded
<1>1. IInv => ReportedLanded
  <2> SUFFICES ASSUME IInv PROVE ReportedLanded
    OBVIOUS
  <2>1. Shapes /\ JobsGood /\ OneEach
    BY DEF IInv
  <2>2. ASSUME NEW s \in Slots, Busy(s)
        PROVE  /\ job[s].n \in 1 .. started /\ job[s].account \in 0 .. Len(records)
               /\ job[s].polls \in 0 .. MAX_ATTEMPTS - 1
               /\ Head(job[s].todo) = "build" => job[s].account # 0
    <3>1. /\ job[s] \in Jobs /\ Good(job[s]) /\ Sound(job[s])
          /\ Head(job[s].todo) = job[s].todo[1]
          /\ Len(job[s].todo) \in Nat /\ Len(job[s].todo) >= 1
      BY <2>1, <2>2, BusyJob
    <3>2. job[s].polls \in 0 .. MAX_ATTEMPTS - 1
      <4>1. job[s].polls \in Nat /\ job[s].polls < MAX_ATTEMPTS
        BY <3>1 DEF Jobs, Sound
      <4> QED
        BY <4>1, TransactionAssumption
    <3>3. Head(job[s].todo) = "build" => job[s].account # 0
      <4>1. 1 \in 1 .. Len(job[s].todo) /\ 1 .. 1 - 1 = {}
        BY <3>1
      <4>2. ~LoadsBefore(job[s].todo, 1)
        BY <4>1 DEF LoadsBefore
      <4> QED
        BY <3>1, <4>1, <4>2 DEF Sound
    <3> QED
      BY <3>1, <3>2, <3>3 DEF Good
  <2>3. \A r \in DOMAIN records : records[r] \in Nat
    BY <2>1 DEF Shapes
  <2>4. TypeOK
    BY <2>1, <2>2, <2>3 DEF TypeOK, Shapes
  <2> QED
    BY <2>1, <2>4 DEF ReportedLanded, OneEach
<1> QED
  BY <1>1, TransactionInvariant, PTL

\* Once loadAccount was forced to refresh after tx_bad_seq, the transaction
\* that submitTransaction sends again has the next sequence number, unless
\* another task or a transaction under way came between.
THEOREM ToolsRecoveryHeals == Spec => []RecoveryHeals
<1>1. IInv => RecoveryHeals
  <2> SUFFICES ASSUME IInv, NEW s \in Slots, At(s, {"submit"}), job[s].recovered, job[s].quiet
               PROVE  job[s].tx = seq + 1
    BY DEF RecoveryHeals
  <2>1. Busy(s) /\ Head(job[s].todo) = "submit"
    BY DEF At
  <2>2. Good(job[s]) /\ Head(job[s].todo) = job[s].todo[1]
    BY <2>1, BusyJob DEF IInv
  <2> QED
    BY <2>1, <2>2 DEF Good, Healed
<1> QED
  BY <1>1, TransactionInvariant, PTL
=============================================================================
