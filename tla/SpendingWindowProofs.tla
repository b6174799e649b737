------------------------ MODULE SpendingWindowProofs ------------------------
(***************************************************************************)
(* Theorems of SpendingWindow: the table mirrors the window, and what was  *)
(* authorised in a window stays within the limit, for every limit, window, *)
(* set of amounts and set of faults.                                       *)
(*                                                                         *)
(* What Sum and Since compute is proved by induction on the sequence, from *)
(* the principle of the least counterexample stated over sets.             *)
(***************************************************************************)
EXTENDS SpendingWindow, TLAPS, WellFoundedInduction

\* A set of naturals that is not empty has a least element.
LEMMA LeastElement ==
  ASSUME NEW T, T \subseteq Nat, T # {}
  PROVE  \E x \in T : \A y \in T : x <= y
<1> DEFINE R == OpToRel(<, Nat)
<1>1. IsWellFoundedOn(R, Nat)
  BY NatLessThanWellFounded
<1>2. \A x, y \in Nat : x < y => <<x, y>> \in R
  BY DEF OpToRel
<1> HIDE DEF R
<1>3. PICK x \in T : \A y \in T : ~(<<y, x>> \in R)
  BY <1>1, WFMin
<1>4. \A y \in T : ~(y < x)
  BY <1>2, <1>3
<1>5. \A y \in T : x <= y
  BY <1>4
<1> QED
  BY <1>5

\* Induction over the naturals, with a set in place of a predicate.
LEMMA NatSetInduction ==
  ASSUME NEW T, 0 \in T, \A n \in Nat : n \in T => n + 1 \in T
  PROVE  Nat \subseteq T
<1> SUFFICES ASSUME NEW n \in Nat, n \notin T PROVE FALSE
  OBVIOUS
<1> DEFINE U == {m \in Nat : m \notin T}
<1>1. PICK x \in U : \A y \in U : x <= y
  BY LeastElement
<1>2. x # 0
  OBVIOUS
<1>3. x - 1 \in Nat /\ x - 1 \in T
  BY <1>1, <1>2
<1> QED
  BY <1>3

\* Induction over the sequences of a set, from the empty one by Append.
LEMMA SeqSetInduction ==
  ASSUME NEW S, NEW T, <<>> \in T,
         \A s \in Seq(S), r \in S : s \in T => Append(s, r) \in T
  PROVE  Seq(S) \subseteq T
<1> DEFINE N == {n \in Nat : \A s \in Seq(S) : Len(s) = n => s \in T}
<1>1. 0 \in N
  <2> SUFFICES ASSUME NEW s \in Seq(S), Len(s) = 0 PROVE s \in T
    OBVIOUS
  <2>1. s = <<>>
    OBVIOUS
  <2> QED
    BY <2>1
<1>2. ASSUME NEW n \in Nat, n \in N PROVE n + 1 \in N
  <2> SUFFICES ASSUME NEW s \in Seq(S), Len(s) = n + 1 PROVE s \in T
    OBVIOUS
  <2> DEFINE p == SubSeq(s, 1, n)
             r == s[n + 1]
  <2>1. p \in Seq(S) /\ Len(p) = n /\ r \in S
    OBVIOUS
  <2>2. \A i \in 1 .. n : p[i] = s[i]
    OBVIOUS
  <2> HIDE DEF p, r
  <2>3. Append(p, r) \in Seq(S) /\ Len(Append(p, r)) = n + 1 /\ Append(p, r)[n + 1] = r
        /\ \A i \in 1 .. n : Append(p, r)[i] = p[i]
    BY <2>1
  <2>4. \A i \in 1 .. n + 1 : Append(p, r)[i] = s[i]
    <3> SUFFICES ASSUME NEW i \in 1 .. n + 1 PROVE Append(p, r)[i] = s[i]
      OBVIOUS
    <3>1. i \in 1 .. n \/ i = n + 1
      OBVIOUS
    <3> QED
      BY <2>2, <2>3, <3>1 DEF r
  <2> DEFINE q == Append(p, r)
  <2> HIDE DEF q
  <2>5. q \in Seq(S) /\ Len(q) = Len(s) /\ \A i \in 1 .. Len(s) : q[i] = s[i]
    BY <2>3, <2>4 DEF q
  <2>6. q = s
    BY <2>5
  <2>7. p \in T
    BY <1>2, <2>1
  <2> QED
    BY <2>1, <2>6, <2>7 DEF q
<1> HIDE DEF N
<1>3. Nat \subseteq N
  BY <1>1, <1>2, NatSetInduction
<1>4. \A s \in Seq(S) : Len(s) \in Nat
  OBVIOUS
<1> QED
  BY <1>3, <1>4 DEF N

-----------------------------------------------------------------------------
(* Sum and At, one element at a time.                                      *)

\* The recursive functions of Sum and At.
SumTo(f, s, n) == f = [i \in 0 .. n |-> IF i = 0 THEN 0 ELSE f[i - 1] + s[i].amount]
AtTo(f, s, I, n) ==
  f = [i \in 0 .. n |->
         IF i = 0 THEN <<>> ELSE IF i \in I THEN Append(f[i - 1], s[i]) ELSE f[i - 1]]

\* The recursive function of Sum exists.
LEMMA SumExists ==
  ASSUME NEW s
  PROVE  \A n \in Nat : \E f : SumTo(f, s, n)
<1> DEFINE T == {n \in Nat : \E f : SumTo(f, s, n)}
<1>1. 0 \in T
  <2> DEFINE f == [i \in 0 .. 0 |-> 0]
  <2>1. SumTo(f, s, 0)
    BY DEF SumTo
  <2> QED
    BY <2>1
<1>2. ASSUME NEW n \in Nat, n \in T PROVE n + 1 \in T
  <2>1. PICK f : SumTo(f, s, n)
    BY <1>2
  <2> DEFINE g == [i \in 0 .. n + 1 |-> IF i <= n THEN f[i] ELSE f[n] + s[n + 1].amount]
             h == [i \in 0 .. n + 1 |-> IF i = 0 THEN 0 ELSE g[i - 1] + s[i].amount]
  <2>2. ASSUME NEW i \in 0 .. n + 1 PROVE g[i] = h[i]
    <3>1. CASE i = 0
      BY <2>1, <3>1 DEF SumTo
    <3>2. CASE i \in 1 .. n
      <4>1. g[i] = f[i] /\ g[i - 1] = f[i - 1] /\ i # 0 /\ i \in 0 .. n
        BY <3>2
      <4>2. f[i] = f[i - 1] + s[i].amount
        BY <2>1, <4>1 DEF SumTo
      <4> QED
        BY <4>1, <4>2
    <3>3. CASE i = n + 1
      <4>1. g[i - 1] = f[n] /\ i # 0 /\ ~(i <= n)
        BY <3>3
      <4> QED
        BY <3>3, <4>1
    <3> QED
      BY <3>1, <3>2, <3>3
  <2>3. g = h
    BY <2>2
  <2>4. SumTo(g, s, n + 1)
    BY <2>3 DEF SumTo
  <2> QED
    BY <2>4
<1> HIDE DEF T
<1>3. Nat \subseteq T
  BY <1>1, <1>2, NatSetInduction
<1> QED
  BY <1>3 DEF T

\* The recursive function of At exists.
LEMMA AtExists ==
  ASSUME NEW s, NEW I
  PROVE  \A n \in Nat : \E f : AtTo(f, s, I, n)
<1> DEFINE T == {n \in Nat : \E f : AtTo(f, s, I, n)}
<1>1. 0 \in T
  <2> DEFINE f == [i \in 0 .. 0 |-> <<>>]
  <2>1. AtTo(f, s, I, 0)
    BY DEF AtTo
  <2> QED
    BY <2>1
<1>2. ASSUME NEW n \in Nat, n \in T PROVE n + 1 \in T
  <2>1. PICK f : AtTo(f, s, I, n)
    BY <1>2
  <2> DEFINE g == [i \in 0 .. n + 1 |->
                     IF i <= n THEN f[i]
                     ELSE IF n + 1 \in I THEN Append(f[n], s[n + 1]) ELSE f[n]]
             h == [i \in 0 .. n + 1 |->
                     IF i = 0 THEN <<>>
                     ELSE IF i \in I THEN Append(g[i - 1], s[i]) ELSE g[i - 1]]
  <2>2. ASSUME NEW i \in 0 .. n + 1 PROVE g[i] = h[i]
    <3>1. CASE i = 0
      BY <2>1, <3>1 DEF AtTo
    <3>2. CASE i \in 1 .. n
      <4>1. g[i] = f[i] /\ g[i - 1] = f[i - 1] /\ i # 0 /\ i \in 0 .. n
        BY <3>2
      <4>2. f[i] = IF i \in I THEN Append(f[i - 1], s[i]) ELSE f[i - 1]
        BY <2>1, <4>1 DEF AtTo
      <4> QED
        BY <4>1, <4>2
    <3>3. CASE i = n + 1
      <4>1. g[i - 1] = f[n] /\ i # 0 /\ ~(i <= n)
        BY <3>3
      <4> QED
        BY <3>3, <4>1
    <3> QED
      BY <3>1, <3>2, <3>3
  <2>3. g = h
    BY <2>2
  <2>4. AtTo(g, s, I, n + 1)
    BY <2>3 DEF AtTo
  <2> QED
    BY <2>4
<1> HIDE DEF T
<1>3. Nat \subseteq T
  BY <1>1, <1>2, NatSetInduction
<1> QED
  BY <1>3 DEF T

\* What Append adds to a sequence.
LEMMA AppendFacts ==
  ASSUME NEW S, NEW s \in Seq(S), NEW r \in S
  PROVE  /\ Append(s, r) \in Seq(S) /\ Len(s) \in Nat /\ Len(Append(s, r)) = Len(s) + 1
         /\ Append(s, r)[Len(s) + 1] = r /\ \A i \in 1 .. Len(s) : Append(s, r)[i] = s[i]
  OBVIOUS

\* Sum of one element more.
LEMMA SumAppend ==
  ASSUME NEW S, NEW s \in Seq(S), NEW r \in S
  PROVE  Sum(Append(s, r)) = Sum(s) + r.amount
<1> DEFINE n == Len(s)
           q == Append(s, r)
<1>1. n \in Nat /\ Len(q) = n + 1 /\ q[n + 1] = r /\ \A i \in 1 .. n : q[i] = s[i]
  BY AppendFacts
<1>2. Sum(s) = (CHOOSE f : SumTo(f, s, n))[n] /\ Sum(q) = (CHOOSE f : SumTo(f, q, Len(q)))[Len(q)]
  BY DEF Sum, SumTo
<1> HIDE DEF n, q
<1>3. PICK f : SumTo(f, s, n) /\ Sum(s) = f[n]
  BY <1>1, <1>2, SumExists
<1>4. PICK g : SumTo(g, q, n + 1) /\ Sum(q) = g[n + 1]
  <2>1. n + 1 \in Nat
    BY <1>1
  <2> QED
    BY <1>1, <1>2, <2>1, SumExists
<1> DEFINE T == {i \in Nat : i <= n => f[i] = g[i]}
<1>5. 0 \in T
  BY <1>1, <1>3, <1>4 DEF SumTo
<1>6. ASSUME NEW i \in Nat, i \in T PROVE i + 1 \in T
  <2> SUFFICES ASSUME i + 1 <= n PROVE f[i + 1] = g[i + 1]
    OBVIOUS
  <2>1. i + 1 \in 0 .. n /\ i + 1 \in 0 .. n + 1 /\ i + 1 # 0 /\ (i + 1) - 1 = i /\ i + 1 \in 1 .. n
    BY <1>1
  <2>2. f[i + 1] = f[i] + s[i + 1].amount
    BY <1>3, <2>1 DEF SumTo
  <2>3. g[i + 1] = g[i] + q[i + 1].amount
    BY <1>4, <2>1 DEF SumTo
  <2>4. f[i] = g[i]
    BY <1>1, <1>6
  <2> QED
    BY <1>1, <2>1, <2>2, <2>3, <2>4
<1> HIDE DEF T
<1>7. n \in T
  BY <1>1, <1>5, <1>6, NatSetInduction
<1>8. f[n] = g[n]
  BY <1>1, <1>7 DEF T
<1>9. g[n + 1] = g[n] + r.amount
  <2>1. n + 1 \in 0 .. n + 1 /\ n + 1 # 0 /\ (n + 1) - 1 = n
    BY <1>1
  <2> QED
    BY <1>1, <1>4, <2>1 DEF SumTo
<1> QED
  BY <1>3, <1>4, <1>8, <1>9 DEF q

\* Sum of nothing.
LEMMA SumEmpty == Sum(<<>>) = 0
<1>1. Sum(<<>>) = (CHOOSE f : SumTo(f, <<>>, 0))[0]
  BY DEF Sum, SumTo
<1>2. PICK f : SumTo(f, <<>>, 0) /\ Sum(<<>>) = f[0]
  BY <1>1, SumExists
<1> QED
  BY <1>2 DEF SumTo

\* At for one element more: only the positions within the sequence count.
LEMMA AtAppend ==
  ASSUME NEW S, NEW s \in Seq(S), NEW r \in S, NEW I, NEW J,
         \A i \in 1 .. Len(s) : i \in I <=> i \in J
  PROVE  At(Append(s, r), J) =
           IF Len(s) + 1 \in J THEN Append(At(s, I), r) ELSE At(s, I)
<1> DEFINE n == Len(s)
           q == Append(s, r)
<1>1. n \in Nat /\ Len(q) = n + 1 /\ q[n + 1] = r /\ \A i \in 1 .. n : q[i] = s[i]
  BY AppendFacts
<1>2. /\ At(s, I) = (CHOOSE f : AtTo(f, s, I, n))[n]
      /\ At(q, J) = (CHOOSE f : AtTo(f, q, J, Len(q)))[Len(q)]
  BY DEF At, AtTo
<1>3. \A i \in 1 .. n : i \in I <=> i \in J
  OBVIOUS
<1> HIDE DEF n, q
<1>4. PICK f : AtTo(f, s, I, n) /\ At(s, I) = f[n]
  BY <1>1, <1>2, AtExists
<1>5. PICK g : AtTo(g, q, J, n + 1) /\ At(q, J) = g[n + 1]
  <2>1. n + 1 \in Nat
    BY <1>1
  <2> QED
    BY <1>1, <1>2, <2>1, AtExists
<1> DEFINE T == {i \in Nat : i <= n => f[i] = g[i]}
<1>6. 0 \in T
  BY <1>1, <1>4, <1>5 DEF AtTo
<1>7. ASSUME NEW i \in Nat, i \in T PROVE i + 1 \in T
  <2> SUFFICES ASSUME i + 1 <= n PROVE f[i + 1] = g[i + 1]
    OBVIOUS
  <2>1. i + 1 \in 0 .. n /\ i + 1 \in 0 .. n + 1 /\ i + 1 # 0 /\ (i + 1) - 1 = i /\ i + 1 \in 1 .. n
    BY <1>1
  <2>2. f[i + 1] = IF i + 1 \in I THEN Append(f[i], s[i + 1]) ELSE f[i]
    BY <1>4, <2>1 DEF AtTo
  <2>3. g[i + 1] = IF i + 1 \in J THEN Append(g[i], q[i + 1]) ELSE g[i]
    BY <1>5, <2>1 DEF AtTo
  <2>4. f[i] = g[i]
    BY <1>1, <1>7
  <2> QED
    BY <1>1, <1>3, <2>1, <2>2, <2>3, <2>4
<1> HIDE DEF T
<1>8. n \in T
  BY <1>1, <1>6, <1>7, NatSetInduction
<1>9. f[n] = g[n]
  BY <1>1, <1>8 DEF T
<1>10. g[n + 1] = IF n + 1 \in J THEN Append(g[n], r) ELSE g[n]
  <2>1. n + 1 \in 0 .. n + 1 /\ n + 1 # 0 /\ (n + 1) - 1 = n
    BY <1>1
  <2> QED
    BY <1>1, <1>5, <2>1 DEF AtTo
<1> QED
  BY <1>4, <1>5, <1>9, <1>10 DEF q, n

\* At of nothing.
LEMMA AtEmpty == ASSUME NEW I PROVE At(<<>>, I) = <<>>
<1>1. At(<<>>, I) = (CHOOSE f : AtTo(f, <<>>, I, 0))[0]
  BY DEF At, AtTo
<1>2. PICK f : AtTo(f, <<>>, I, 0) /\ At(<<>>, I) = f[0]
  BY <1>1, AtExists
<1> QED
  BY <1>2 DEF AtTo

\* Since and Here for one element more.
LEMMA SinceAppend ==
  ASSUME NEW S, NEW s \in Seq(S), NEW r \in S, NEW c
  PROVE  Since(Append(s, r), c) =
           IF r.timestamp >= c THEN Append(Since(s, c), r) ELSE Since(s, c)
<1> DEFINE q == Append(s, r)
           I == {i \in 1 .. Len(s) : s[i].timestamp >= c}
           J == {i \in 1 .. Len(q) : q[i].timestamp >= c}
<1>1. Len(s) \in Nat /\ Len(q) = Len(s) + 1 /\ q[Len(s) + 1] = r /\ \A i \in 1 .. Len(s) : q[i] = s[i]
  BY AppendFacts
<1> HIDE DEF q
<1>2. \A i \in 1 .. Len(s) : i \in I <=> i \in J
  BY <1>1
<1>3. Len(s) + 1 \in J <=> r.timestamp >= c
  BY <1>1
<1>4. Since(q, c) = At(q, J) /\ Since(s, c) = At(s, I)
  BY DEF Since
<1> HIDE DEF I, J
<1>5. At(Append(s, r), J) = IF Len(s) + 1 \in J THEN Append(At(s, I), r) ELSE At(s, I)
  BY <1>2, AtAppend
<1> QED
  BY <1>3, <1>4, <1>5 DEF q

\* Here, with one element more.
LEMMA HereAppend ==
  ASSUME NEW S, NEW s \in Seq(S), NEW r \in S
  PROVE  Here(Append(s, r)) = IF r.here THEN Append(Here(s), r) ELSE Here(s)
<1> DEFINE q == Append(s, r)
           I == {i \in 1 .. Len(s) : s[i].here}
           J == {i \in 1 .. Len(q) : q[i].here}
<1>1. Len(s) \in Nat /\ Len(q) = Len(s) + 1 /\ q[Len(s) + 1] = r /\ \A i \in 1 .. Len(s) : q[i] = s[i]
  BY AppendFacts
<1> HIDE DEF q
<1>2. \A i \in 1 .. Len(s) : i \in I <=> i \in J
  BY <1>1
<1>3. Len(s) + 1 \in J <=> r.here
  BY <1>1
<1>4. Here(q) = At(q, J) /\ Here(s) = At(s, I)
  BY DEF Here
<1> HIDE DEF I, J
<1>5. At(Append(s, r), J) = IF Len(s) + 1 \in J THEN Append(At(s, I), r) ELSE At(s, I)
  BY <1>2, AtAppend
<1> QED
  BY <1>3, <1>4, <1>5 DEF q

\* Nothing is kept of nothing.
LEMMA SinceEmpty == ASSUME NEW c PROVE Since(<<>>, c) = <<>>
  BY AtEmpty DEF Since

\* Nothing is here of nothing.
LEMMA HereEmpty == Here(<<>>) = <<>>
  BY AtEmpty DEF Here

-----------------------------------------------------------------------------
(* What Since and Here keep.                                               *)

\* They keep elements of the sequence, and no more than there were.
LEMMA SinceType ==
  ASSUME NEW S, NEW s \in Seq(S), NEW c
  PROVE  Since(s, c) \in Seq(S) /\ Len(Since(s, c)) <= Len(s)
<1> DEFINE T == {q \in Seq(S) : Since(q, c) \in Seq(S) /\ Len(Since(q, c)) <= Len(q)}
<1>1. <<>> \in T
  <2>1. <<>> \in Seq(S) /\ Len(<<>>) <= Len(<<>>)
    OBVIOUS
  <2>2. Since(<<>>, c) = <<>>
    BY SinceEmpty
  <2> QED
    BY <2>1, <2>2
<1>2. ASSUME NEW q \in Seq(S), NEW r \in S, q \in T PROVE Append(q, r) \in T
  <2> DEFINE w == Since(q, c)
             v == Since(Append(q, r), c)
  <2>1. w \in Seq(S) /\ Len(w) <= Len(q) /\ Len(q) \in Nat
    BY <1>2
  <2>2. v = Append(w, r) \/ v = w
    BY SinceAppend
  <2> HIDE DEF w, v
  <2>3. Append(q, r) \in Seq(S) /\ Len(Append(q, r)) = Len(q) + 1
    OBVIOUS
  <2>4. v \in Seq(S) /\ Len(v) <= Len(q) + 1
    <3>1. Append(w, r) \in Seq(S) /\ Len(w) \in Nat /\ Len(Append(w, r)) = Len(w) + 1
      BY <2>1, AppendFacts
    <3>2. Len(w) <= Len(q) + 1 /\ Len(Append(w, r)) <= Len(q) + 1
      BY <2>1, <3>1
    <3> QED
      BY <2>1, <2>2, <3>1, <3>2
  <2> QED
    BY <2>3, <2>4 DEF v
<1> HIDE DEF T
<1>3. s \in T
  BY <1>1, <1>2, SeqSetInduction
<1> QED
  BY <1>3 DEF T

\* What Here keeps is of the same type.
LEMMA HereType ==
  ASSUME NEW S, NEW s \in Seq(S)
  PROVE  Here(s) \in Seq(S)
<1> DEFINE T == {q \in Seq(S) : Here(q) \in Seq(S)}
<1>1. <<>> \in T
  <2>1. <<>> \in Seq(S) /\ Len(<<>>) = 0
    OBVIOUS
  <2> QED
    BY <2>1, HereEmpty
<1>2. ASSUME NEW q \in Seq(S), NEW r \in S, q \in T PROVE Append(q, r) \in T
  <2> DEFINE w == Here(q)
             v == Here(Append(q, r))
  <2>1. w \in Seq(S)
    BY <1>2
  <2>2. v = Append(w, r) \/ v = w
    BY HereAppend
  <2> HIDE DEF w, v
  <2>3. Append(q, r) \in Seq(S)
    OBVIOUS
  <2>4. Append(w, r) \in Seq(S)
    BY <2>1
  <2> QED
    BY <2>1, <2>2, <2>3, <2>4 DEF v
<1> HIDE DEF T
<1>3. s \in T
  BY <1>1, <1>2, SeqSetInduction
<1> QED
  BY <1>3 DEF T

\* Pruning at a cutoff leaves alone what is at or after a later one.
LEMMA SinceSince ==
  ASSUME NEW S, \A r \in S : r.timestamp \in Int, NEW s \in Seq(S),
         NEW b \in Int, NEW c \in Int, b <= c
  PROVE  Since(Since(s, b), c) = Since(s, c)
<1> DEFINE T == {q \in Seq(S) : Since(Since(q, b), c) = Since(q, c)}
<1>1. <<>> \in T
  BY SinceEmpty
<1>2. ASSUME NEW q \in Seq(S), NEW r \in S, q \in T PROVE Append(q, r) \in T
  <2> DEFINE w == Since(q, b)
  <2>1. w \in Seq(S) /\ Since(w, c) = Since(q, c)
    BY <1>2, SinceType
  <2>2. Since(Append(q, r), b) = IF r.timestamp >= b THEN Append(w, r) ELSE w
    BY SinceAppend
  <2>3. Since(Append(q, r), c) = IF r.timestamp >= c THEN Append(Since(q, c), r) ELSE Since(q, c)
    BY SinceAppend
  <2> HIDE DEF w
  <2>4. Since(Append(w, r), c) = IF r.timestamp >= c THEN Append(Since(w, c), r) ELSE Since(w, c)
    BY <2>1, SinceAppend
  <2>5. r.timestamp \in Int /\ (r.timestamp >= c => r.timestamp >= b)
    <3>1. r.timestamp \in Int
      OBVIOUS
    <3> QED
      BY <3>1
  <2>6. Since(Since(Append(q, r), b), c) = Since(Append(q, r), c)
    BY <2>1, <2>2, <2>3, <2>4, <2>5
  <2>7. Append(q, r) \in Seq(S)
    OBVIOUS
  <2> QED
    BY <2>6, <2>7
<1> HIDE DEF T
<1>3. s \in T
  BY <1>1, <1>2, SeqSetInduction
<1> QED
  BY <1>3 DEF T

-----------------------------------------------------------------------------
(* The sums of the part of a sequence since c.                             *)

Spent(s, c) == Sum(Since(s, c))
SpentHere(s, c) == Sum(Here(Since(s, c)))

\* Elements with an amount and a timestamp.
Timed(S) == \A r \in S : r.amount \in Int /\ r.timestamp \in Int

\* A sum of integers is one.
LEMMA SumType ==
  ASSUME NEW S, \A r \in S : r.amount \in Int, NEW s \in Seq(S)
  PROVE  Sum(s) \in Int
<1> DEFINE T == {q \in Seq(S) : Sum(q) \in Int}
<1>1. <<>> \in T
  BY SumEmpty
<1>2. ASSUME NEW q \in Seq(S), NEW r \in S, q \in T PROVE Append(q, r) \in T
  <2>1. Sum(Append(q, r)) = Sum(q) + r.amount
    BY SumAppend
  <2>2. Sum(q) \in Int /\ r.amount \in Int /\ Append(q, r) \in Seq(S)
    BY <1>2
  <2> QED
    BY <2>1, <2>2
<1> HIDE DEF T
<1>3. s \in T
  BY <1>1, <1>2, SeqSetInduction
<1> QED
  BY <1>3 DEF T

\* The two sums are integers, and pruning before c does not change them.
LEMMA SpentType ==
  ASSUME NEW S, Timed(S), NEW s \in Seq(S), NEW c
  PROVE  Spent(s, c) \in Int /\ SpentHere(s, c) \in Int
<1>1. Since(s, c) \in Seq(S)
  BY SinceType
<1>2. Here(Since(s, c)) \in Seq(S)
  BY <1>1, HereType
<1>3. \A r \in S : r.amount \in Int
  BY DEF Timed
<1> QED
  BY <1>1, <1>2, <1>3, SumType DEF Spent, SpentHere

\* Pruning before the cutoff does not change what is summed after it.
LEMMA SpentPruned ==
  ASSUME NEW S, Timed(S), NEW s \in Seq(S), NEW b \in Int, NEW c \in Int, b <= c
  PROVE  Spent(Since(s, b), c) = Spent(s, c) /\ SpentHere(Since(s, b), c) = SpentHere(s, c)
<1>1. \A r \in S : r.timestamp \in Int
  BY DEF Timed
<1>2. Since(Since(s, b), c) = Since(s, c)
  BY <1>1, SinceSince
<1> QED
  BY <1>2 DEF Spent, SpentHere

\* Nothing is spent with no records.
LEMMA SpentEmpty == ASSUME NEW c PROVE Spent(<<>>, c) = 0 /\ SpentHere(<<>>, c) = 0
  BY SinceEmpty, HereEmpty, SumEmpty DEF Spent, SpentHere

\* One element more.
LEMMA SpentAppend ==
  ASSUME NEW S, Timed(S), NEW s \in Seq(S), NEW r \in S, NEW c \in Int
  PROVE  Spent(Append(s, r), c) = IF r.timestamp >= c THEN Spent(s, c) + r.amount ELSE Spent(s, c)
<1>1. Since(s, c) \in Seq(S)
  BY SinceType
<1>2. Sum(Append(Since(s, c), r)) = Sum(Since(s, c)) + r.amount
  BY <1>1, SumAppend
<1>3. Since(Append(s, r), c) = IF r.timestamp >= c THEN Append(Since(s, c), r) ELSE Since(s, c)
  BY SinceAppend
<1> QED
  BY <1>2, <1>3 DEF Spent

\* The same for what this process has let through.
LEMMA SpentHereAppend ==
  ASSUME NEW S, Timed(S), NEW s \in Seq(S), NEW r \in S, NEW c \in Int
  PROVE  SpentHere(Append(s, r), c) =
           IF r.timestamp >= c /\ r.here THEN SpentHere(s, c) + r.amount ELSE SpentHere(s, c)
<1> DEFINE w == Since(s, c)
<1>1. w \in Seq(S) /\ Here(w) \in Seq(S)
  BY SinceType, HereType
<1>2. Since(Append(s, r), c) = IF r.timestamp >= c THEN Append(w, r) ELSE w
  BY SinceAppend
<1> HIDE DEF w
<1>3. Here(Append(w, r)) = IF r.here THEN Append(Here(w), r) ELSE Here(w)
  BY <1>1, HereAppend
<1>4. Sum(Append(Here(w), r)) = Sum(Here(w)) + r.amount
  BY <1>1, SumAppend
<1> QED
  BY <1>2, <1>3, <1>4 DEF SpentHere, w

\* Amounts above zero: the sums are not negative and shrink as c moves on.
LEMMA SpentPositive ==
  ASSUME NEW S, Timed(S), \A r \in S : r.amount > 0, NEW s \in Seq(S),
         NEW b \in Int, NEW c \in Int, b <= c
  PROVE  /\ 0 <= Spent(s, c) /\ Spent(s, c) <= Spent(s, b)
         /\ 0 <= SpentHere(s, c) /\ SpentHere(s, c) <= SpentHere(s, b)
<1> DEFINE Good(q) == /\ 0 <= Spent(q, c) /\ Spent(q, c) <= Spent(q, b)
                      /\ 0 <= SpentHere(q, c) /\ SpentHere(q, c) <= SpentHere(q, b)
           T == {q \in Seq(S) : Good(q)}
<1>1. <<>> \in T
  BY SpentEmpty
<1>2. ASSUME NEW q \in Seq(S), NEW r \in S, q \in T PROVE Append(q, r) \in T
  <2>1. /\ Spent(q, c) \in Int /\ Spent(q, b) \in Int
        /\ SpentHere(q, c) \in Int /\ SpentHere(q, b) \in Int
    BY SpentType
  <2>2. r.amount \in Int /\ r.timestamp \in Int /\ r.amount > 0
    BY DEF Timed
  <2>3. /\ Spent(Append(q, r), c) = IF r.timestamp >= c THEN Spent(q, c) + r.amount ELSE Spent(q, c)
        /\ Spent(Append(q, r), b) = IF r.timestamp >= b THEN Spent(q, b) + r.amount ELSE Spent(q, b)
    BY SpentAppend
  <2>4. /\ SpentHere(Append(q, r), c) =
             IF r.timestamp >= c /\ r.here THEN SpentHere(q, c) + r.amount ELSE SpentHere(q, c)
        /\ SpentHere(Append(q, r), b) =
             IF r.timestamp >= b /\ r.here THEN SpentHere(q, b) + r.amount ELSE SpentHere(q, b)
    BY SpentHereAppend
  <2>5. Good(q)
    BY <1>2
  <2>6. 0 <= Spent(Append(q, r), c) /\ Spent(Append(q, r), c) <= Spent(Append(q, r), b)
    BY <2>1, <2>2, <2>3, <2>5
  <2>7. 0 <= SpentHere(Append(q, r), c) /\ SpentHere(Append(q, r), c) <= SpentHere(Append(q, r), b)
    BY <2>1, <2>2, <2>4, <2>5
  <2>8. Append(q, r) \in Seq(S)
    OBVIOUS
  <2> QED
    BY <2>6, <2>7, <2>8
<1> HIDE DEF T
<1>3. s \in T
  BY <1>1, <1>2, SeqSetInduction
<1> QED
  BY <1>3 DEF T

\* Amounts below zero: the sum is not positive and grows as c moves on.
LEMMA SpentNegative ==
  ASSUME NEW S, Timed(S), \A r \in S : r.amount < 0, NEW s \in Seq(S),
         NEW b \in Int, NEW c \in Int, b <= c
  PROVE  Spent(s, b) <= Spent(s, c) /\ Spent(s, c) <= 0
<1> DEFINE Good(q) == Spent(q, b) <= Spent(q, c) /\ Spent(q, c) <= 0
           T == {q \in Seq(S) : Good(q)}
<1>1. <<>> \in T
  BY SpentEmpty
<1>2. ASSUME NEW q \in Seq(S), NEW r \in S, q \in T PROVE Append(q, r) \in T
  <2>1. Spent(q, c) \in Int /\ Spent(q, b) \in Int
    BY SpentType
  <2>2. r.amount \in Int /\ r.timestamp \in Int /\ r.amount < 0
    BY DEF Timed
  <2>3. /\ Spent(Append(q, r), c) = IF r.timestamp >= c THEN Spent(q, c) + r.amount ELSE Spent(q, c)
        /\ Spent(Append(q, r), b) = IF r.timestamp >= b THEN Spent(q, b) + r.amount ELSE Spent(q, b)
    BY SpentAppend
  <2>4. Good(q)
    BY <1>2
  <2>5. Good(Append(q, r))
    BY <2>1, <2>2, <2>3, <2>4
  <2>6. Append(q, r) \in Seq(S)
    OBVIOUS
  <2> QED
    BY <2>5, <2>6
<1> HIDE DEF T
<1>3. s \in T
  BY <1>1, <1>2, SeqSetInduction
<1> QED
  BY <1>3 DEF T

\* Nothing of it was let through by the running process.
LEMMA SpentElsewhere ==
  ASSUME NEW S, Timed(S), NEW c \in Int, \A r \in S : ~r.here, NEW s \in Seq(S)
  PROVE  SpentHere(s, c) = 0
<1> DEFINE T == {q \in Seq(S) : SpentHere(q, c) = 0}
<1>1. <<>> \in T
  BY SpentEmpty
<1>2. ASSUME NEW q \in Seq(S), NEW r \in S, q \in T PROVE Append(q, r) \in T
  <2>1. SpentHere(Append(q, r), c) = SpentHere(q, c)
    BY SpentHereAppend
  <2>2. Append(q, r) \in Seq(S)
    OBVIOUS
  <2> QED
    BY <1>2, <2>1, <2>2
<1> HIDE DEF T
<1>3. s \in T
  BY <1>1, <1>2, SeqSetInduction
<1> QED
  BY <1>3 DEF T

\* What a crash makes of an authorised payment, and of all of them.
Elsewhere(r) == [r EXCEPT !.here = FALSE]
Away(s) == [i \in DOMAIN s |-> Elsewhere(s[i])]

\* Away, with one element more.
LEMMA AwayAppend ==
  ASSUME NEW S, NEW q \in Seq(S), NEW r \in S
  PROVE  Away(Append(q, r)) = Append(Away(q), Elsewhere(r))
<1> DEFINE E == {Elsewhere(e) : e \in S}
           n == Len(q)
           p == Append(q, r)
           a == Away(q)
           v == Append(a, Elsewhere(r))
<1>1. p \in Seq(S) /\ n \in Nat /\ Len(p) = n + 1 /\ p[n + 1] = r /\ \A i \in 1 .. n : p[i] = q[i]
  BY AppendFacts
<1> HIDE DEF p
<1>2. DOMAIN p = 1 .. n + 1 /\ DOMAIN q = 1 .. n
  BY <1>1
<1>3. a = [i \in 1 .. n |-> Elsewhere(q[i])] /\ Away(p) = [i \in 1 .. n + 1 |-> Elsewhere(p[i])]
  BY <1>2 DEF Away
<1>4. \A i \in 1 .. n : q[i] \in S
  OBVIOUS
<1> HIDE DEF a, n
<1>5. a \in Seq(E) /\ Len(a) = n /\ \A i \in 1 .. n : a[i] = Elsewhere(q[i])
  BY <1>1, <1>3, <1>4
<1>6. Elsewhere(r) \in E
  OBVIOUS
<1> HIDE DEF E
<1>7. v \in Seq(E) /\ Len(v) = n + 1 /\ v[n + 1] = Elsewhere(r) /\ \A i \in 1 .. n : v[i] = a[i]
  BY <1>5, <1>6, AppendFacts
<1> HIDE DEF v
<1>8. v = [i \in 1 .. n + 1 |-> v[i]]
  BY <1>7
<1>9. \A i \in 1 .. n + 1 : v[i] = Elsewhere(p[i])
  <2> SUFFICES ASSUME NEW i \in 1 .. n + 1 PROVE v[i] = Elsewhere(p[i])
    OBVIOUS
  <2>1. i \in 1 .. n \/ i = n + 1
    BY <1>1
  <2> QED
    BY <1>1, <1>5, <1>7, <2>1
<1>10. v = Away(p)
  BY <1>3, <1>8, <1>9
<1> QED
  BY <1>10 DEF v, p, a

\* After a crash the same was authorised, but not by the running process.
LEMMA SpentAway ==
  ASSUME NEW A \in SUBSET Int, NEW M \in SUBSET Int, NEW c \in Int,
         NEW s \in Seq([amount : A, timestamp : M, here : BOOLEAN])
  PROVE  /\ Away(s) \in Seq([amount : A, timestamp : M, here : {FALSE}])
         /\ Spent(Away(s), c) = Spent(s, c)
<1> DEFINE S == [amount : A, timestamp : M, here : BOOLEAN]
           F == [amount : A, timestamp : M, here : {FALSE}]
           T == {q \in Seq(S) : Away(q) \in Seq(F) /\ Spent(Away(q), c) = Spent(q, c)}
<1>1. Timed(S) /\ Timed(F)
  BY DEF Timed
<1>2. \A r \in S : /\ Elsewhere(r) \in F /\ Elsewhere(r).timestamp = r.timestamp
                   /\ Elsewhere(r).amount = r.amount
  BY DEF Elsewhere
<1> HIDE DEF S, F
<1>3. <<>> \in T
  <2>1. Away(<<>>) = <<>> /\ <<>> \in Seq(S) /\ <<>> \in Seq(F)
    BY DEF Away
  <2> QED
    BY <2>1
<1>4. ASSUME NEW q \in Seq(S), NEW r \in S, q \in T PROVE Append(q, r) \in T
  <2> DEFINE x == Elsewhere(r)
             a == Away(q)
  <2>1. x \in F /\ x.timestamp = r.timestamp /\ x.amount = r.amount
    BY <1>2
  <2>2. a \in Seq(F) /\ Spent(a, c) = Spent(q, c)
    BY <1>4
  <2>3. Away(Append(q, r)) = Append(a, x)
    BY AwayAppend
  <2> HIDE DEF x, a
  <2>4. Spent(Append(q, r), c) = IF r.timestamp >= c THEN Spent(q, c) + r.amount ELSE Spent(q, c)
    BY <1>1, SpentAppend
  <2>5. Spent(Append(a, x), c) = IF x.timestamp >= c THEN Spent(a, c) + x.amount ELSE Spent(a, c)
    BY <1>1, <2>1, <2>2, SpentAppend
  <2>6. Append(a, x) \in Seq(F) /\ Append(q, r) \in Seq(S)
    BY <2>1, <2>2
  <2>7. Spent(Append(a, x), c) = Spent(Append(q, r), c)
    BY <2>1, <2>2, <2>4, <2>5
  <2> QED
    BY <2>3, <2>6, <2>7
<1> HIDE DEF T
<1>5. s \in T
  BY <1>3, <1>4, SeqSetInduction DEF S
<1> QED
  BY <1>5 DEF T, F

-----------------------------------------------------------------------------
(* The state.                                                              *)

\* Records of the window, of amounts below zero and of authorised payments.
Rec(t)  == [amount : Amounts, timestamp : 0 .. t]
Low(t)  == [amount : {a \in Amounts : a < 0}, timestamp : 0 .. t]
Auth(t) == [amount : {a \in Amounts : a > 0}, timestamp : 0 .. t, here : BOOLEAN]

\* The records of each history have amounts and timestamps, with their signs.
LEMMA TimedSets ==
  ASSUME NEW t \in Nat
  PROVE  /\ Timed(Rec(t)) /\ Timed(Low(t)) /\ Timed(Auth(t))
         /\ \A r \in Low(t) : r.amount < 0
         /\ \A r \in Auth(t) : r.amount > 0
<1>1. \A x \in 0 .. t : x \in Int
  OBVIOUS
<1> QED
  BY <1>1, SpendingAssumption DEF Timed, Rec, Low, Auth

\* A sequence of a set is one of every larger set.
LEMMA SeqGrows == ASSUME NEW S, NEW T, S \subseteq T, NEW s \in Seq(S) PROVE s \in Seq(T)
  OBVIOUS

\* What was a record stays one as the clock moves on.
LEMMA SetsGrow ==
  ASSUME NEW t \in Nat, NEW u \in Nat, t <= u
  PROVE  Rec(t) \subseteq Rec(u) /\ Low(t) \subseteq Low(u) /\ Auth(t) \subseteq Auth(u)
<1>1. 0 .. t \subseteq 0 .. u
  OBVIOUS
<1> QED
  BY <1>1 DEF Rec, Low, Auth

\* The start of the window: before the present, and never moving back.
LEMMA CutoffType ==
  ASSUME NEW t \in Int
  PROVE  /\ Cutoff(t) \in Int /\ Cutoff(t) < t /\ Cutoff(t + 1) <= t /\ Cutoff(Cutoff(t)) \in Int
         /\ \A u \in Int : t <= u => Cutoff(t) <= Cutoff(u)
  BY SpendingAssumption DEF Cutoff

\* The types and shapes of the state, with the sets above.
Typed ==
  /\ records \in Seq(Rec(now)) /\ db \in Seq(Rec(now)) /\ lowered \in Seq(Low(now))
  /\ authorised \in Seq(Auth(now)) /\ now \in 0 .. MaxTime /\ up \in BOOLEAN
  /\ Len(records) <= MaxRecords /\ Len(db) <= MaxRecords /\ mishaps \subseteq Faults
  /\ ~up => \A i \in DOMAIN authorised : ~authorised[i].here

\* The two forms of the type invariant agree.
LEMMA TypesAndShapes == Typed <=> TypeOK /\ Shapes
<1>1. TypeOK /\ Shapes => Typed
  BY DEF TypeOK, Shapes, Rec, Low, Auth, Typed
<1>2. ASSUME Typed PROVE Shapes
  BY <1>2 DEF Shapes, Rec, Low, Auth, Typed
<1>3. ASSUME Typed PROVE TypeOK
  <2>1. \A r \in Rec(now) \cup Low(now) \cup Auth(now) : IsRecord(r)
    BY DEF IsRecord, Rec, Low, Auth
  <2>2. \A i \in DOMAIN records : records[i] \in Rec(now)
    BY <1>3 DEF Typed
  <2>3. \A i \in DOMAIN db : db[i] \in Rec(now)
    BY <1>3 DEF Typed
  <2>4. \A i \in DOMAIN lowered : lowered[i] \in Low(now)
    BY <1>3 DEF Typed
  <2>5. \A i \in DOMAIN authorised : authorised[i] \in Auth(now)
    BY <1>3 DEF Typed
  <2>6. \A s \in {records, db, authorised, lowered} : \A i \in DOMAIN s : IsRecord(s[i])
    BY <2>1, <2>2, <2>3, <2>4, <2>5
  <2> QED
    BY <1>3, <2>6 DEF Typed, TypeOK
<1> QED
  BY <1>1, <1>2, <1>3

\* The sequences of the state, at a later clock.
LEMMA TypedLater ==
  ASSUME Typed, NEW u \in Nat, now <= u
  PROVE  /\ records \in Seq(Rec(u)) /\ db \in Seq(Rec(u)) /\ lowered \in Seq(Low(u))
         /\ authorised \in Seq(Auth(u))
<1>1. now \in Nat
  BY SpendingAssumption DEF Typed
<1>2. Rec(now) \subseteq Rec(u) /\ Low(now) \subseteq Low(u) /\ Auth(now) \subseteq Auth(u)
  BY <1>1, SetsGrow
<1> QED
  BY <1>2, SeqGrows DEF Typed

\* The ledger of the whole window.
Ledger == \A c \in Cutoff(now) .. MaxTime : Accounted(c)

\* The inductive invariant as its types and its sums.
LEMMA IInvParts == IInv <=> Typed /\ Ledger
  BY TypesAndShapes DEF IInv, Ledger

\* The same in the next state.
LEMMA IInvPartsNext == Typed' /\ Ledger' => IInv'
  BY IInvParts, PTL

\* Pruning the table keeps what is at or after the cutoff.
LEMMA PrunedDbKeeps ==
  ASSUME NEW S, Timed(S), NEW d \in Seq(S), NEW t \in Int, NEW ev, NEW F
  PROVE  /\ PrunedDb(d, ev, t, F) \in Seq(S) /\ Len(PrunedDb(d, ev, t, F)) <= Len(d)
         /\ \A c \in Int : Cutoff(t) <= c => Since(PrunedDb(d, ev, t, F), c) = Since(d, c)
<1>1. PrunedDb(d, ev, t, F) \in {d, Since(d, Cutoff(t))}
  BY DEF PrunedDb, Unless
<1>2. Cutoff(t) \in Int /\ \A r \in S : r.timestamp \in Int
  BY CutoffType DEF Timed
<1>3. Since(d, Cutoff(t)) \in Seq(S) /\ Len(Since(d, Cutoff(t))) <= Len(d)
  BY SinceType
<1>4. \A c \in Int : Cutoff(t) <= c => Since(Since(d, Cutoff(t)), c) = Since(d, c)
  BY <1>2, SinceSince
<1>5. d \in Seq(S) /\ Len(d) <= Len(d)
  OBVIOUS
<1> QED
  BY <1>1, <1>3, <1>4, <1>5

\* The part of the ledger since c, when a step leaves that part alone.
LEMMA AccountedStable ==
  ASSUME NEW c, Accounted(c), up' = up, mishaps \subseteq mishaps',
         Since(records', c) = Since(records, c), Since(db', c) = Since(db, c),
         Since(authorised', c) = Since(authorised, c), Since(lowered', c) = Since(lowered, c),
         Since(lowered', Cutoff(c)) = Since(lowered, Cutoff(c))
  PROVE  Accounted(c)'
  BY DEF Accounted, NothingLost

\* As the clock moves to u, the parts since c of the pruned sequences stay.
LEMMA PrunedParts ==
  ASSUME NEW u \in Int, NEW c \in Int, Cutoff(u) <= c, NEW S, Timed(S), NEW s \in Seq(S)
  PROVE  /\ Since(Since(s, Cutoff(u)), c) = Since(s, c)
         /\ Since(Recent(s, u), c) = Since(s, c)
         /\ Since(Recent(s, u), Cutoff(c)) = Since(s, Cutoff(c))
<1>1. /\ Cutoff(u) \in Int /\ Cutoff(Cutoff(u)) \in Int /\ Cutoff(c) \in Int
      /\ Cutoff(Cutoff(u)) <= Cutoff(c) /\ Cutoff(Cutoff(u)) <= c
  BY SpendingAssumption DEF Cutoff
<1>2. \A r \in S : r.timestamp \in Int
  BY DEF Timed
<1> QED
  BY <1>1, <1>2, SinceSince DEF Recent

\* What the clock may move to.
LEMMA ClockLater ==
  ASSUME Typed, NEW u \in {now, now + 1}, u <= MaxTime
  PROVE  /\ u \in Nat /\ now \in Nat /\ now <= u /\ u \in 0 .. MaxTime
         /\ Cutoff(u) \in Int /\ Cutoff(now) <= Cutoff(u) /\ Cutoff(u) <= now
         /\ \A c \in Cutoff(u) .. MaxTime : c \in Cutoff(now) .. MaxTime /\ c \in Int /\ Cutoff(u) <= c
  BY SpendingAssumption DEF Typed, Cutoff

\* The start.
LEMMA InitIInv == Init => IInv
<1> SUFFICES ASSUME Init PROVE Typed /\ Ledger
  BY IInvParts
<1>1. Typed
  <2>1. <<>> \in Seq(Rec(0)) /\ <<>> \in Seq(Low(0)) /\ <<>> \in Seq(Auth(0)) /\ Len(<<>>) = 0
    OBVIOUS
  <2>2. 0 \in 0 .. MaxTime /\ 0 <= MaxRecords
    BY SpendingAssumption
  <2> QED
    BY <2>1, <2>2 DEF Init, Typed
<1>2. ASSUME NEW c \in Cutoff(now) .. MaxTime PROVE Accounted(c)
  <2>1. \A x : Sum(Since(<<>>, x)) = 0 /\ Sum(Here(Since(<<>>, x))) = 0
    BY SpentEmpty DEF Spent, SpentHere
  <2>2. 0 <= AGENT_SPENDING_LIMIT - 0 /\ 0 + 0 <= 0
    BY SpendingAssumption
  <2> QED
    BY <2>1, <2>2 DEF Init, Accounted
<1> QED
  BY <1>1, <1>2 DEF Ledger

\* The clock moves.
LEMMA TickIInv == ASSUME IInv, Tick PROVE IInv'
<1> DEFINE u == now + 1
<1>1. Typed /\ Ledger
  BY IInvParts
<1>2. /\ now < MaxTime /\ now' = u /\ authorised' = Since(authorised, Cutoff(u))
      /\ lowered' = Recent(lowered, u) /\ UNCHANGED <<up, records, db, mishaps>>
  BY DEF Tick
<1>3. u <= MaxTime /\ u \in {now, now + 1}
  BY <1>1, <1>2, SpendingAssumption DEF Typed
<1> HIDE DEF u
<1>4. /\ u \in Nat /\ now <= u /\ u \in 0 .. MaxTime /\ Cutoff(u) \in Int
      /\ \A c \in Cutoff(u) .. MaxTime : c \in Cutoff(now) .. MaxTime /\ c \in Int /\ Cutoff(u) <= c
  BY <1>1, <1>3, ClockLater
<1>5. /\ records \in Seq(Rec(u)) /\ db \in Seq(Rec(u)) /\ lowered \in Seq(Low(u))
      /\ authorised \in Seq(Auth(u))
  BY <1>1, <1>4, TypedLater
<1>6. Typed'
  <2>1. authorised' \in Seq(Auth(now')) /\ lowered' \in Seq(Low(now'))
    BY <1>2, <1>5, SinceType DEF Recent
  <2>2. ASSUME ~up PROVE \A i \in DOMAIN authorised' : ~authorised'[i].here
    <3> DEFINE S == {r \in Auth(u) : ~r.here}
    <3>1. \A i \in 1 .. Len(authorised) : authorised[i] \in S
      BY <1>1, <1>5, <2>2 DEF Typed
    <3> HIDE DEF S
    <3>2. authorised \in Seq(S)
      BY <1>5, <3>1
    <3>3. authorised' \in Seq(S)
      BY <1>2, <3>2, SinceType
    <3> QED
      BY <3>3 DEF S
  <2> QED
    BY <1>1, <1>2, <1>4, <1>5, <2>1, <2>2 DEF Typed
<1>7. ASSUME NEW c \in Cutoff(u) .. MaxTime PROVE Accounted(c)'
  <2>1. Accounted(c) /\ c \in Int /\ Cutoff(u) <= c
    BY <1>1, <1>4 DEF Ledger
  <2>2. Timed(Auth(u)) /\ Timed(Low(u)) /\ u \in Int
    BY <1>4, TimedSets
  <2>3. Since(authorised', c) = Since(authorised, c)
    BY <1>2, <1>5, <2>1, <2>2, PrunedParts
  <2>4. Since(lowered', c) = Since(lowered, c) /\ Since(lowered', Cutoff(c)) = Since(lowered, Cutoff(c))
    BY <1>2, <1>5, <2>1, <2>2, PrunedParts
  <2> QED
    BY <1>2, <2>1, <2>3, <2>4, AccountedStable
<1> QED
  BY <1>2, <1>6, <1>7, IInvPartsNext DEF Ledger

\* total(): the window and the table are pruned.
LEMMA TotalIInv == ASSUME IInv, total PROVE IInv'
<1>1. Typed /\ Ledger
  BY IInvParts
<1>2. PICK F \in SUBSET (Faults \cap {"prune"}) :
        db' = PrunedDb(db, Evicts(records, now), now, F) /\ mishaps' = mishaps \cup F
  BY DEF total
<1>3. up /\ records' = Since(records, Cutoff(now)) /\ UNCHANGED <<now, up, authorised, lowered>>
  BY DEF total, Kept
<1>4. now \in Nat /\ now \in Int /\ Timed(Rec(now)) /\ records \in Seq(Rec(now)) /\ db \in Seq(Rec(now))
  BY <1>1, SpendingAssumption, TimedSets DEF Typed
<1>5. /\ db' \in Seq(Rec(now)) /\ Len(db') <= Len(db)
      /\ \A c \in Int : Cutoff(now) <= c => Since(db', c) = Since(db, c)
  BY <1>2, <1>4, PrunedDbKeeps
<1>6. records' \in Seq(Rec(now)) /\ Len(records') <= Len(records)
  BY <1>3, <1>4, SinceType
<1>7. Typed'
  <2>1. Len(db') \in Nat /\ Len(db) \in Nat /\ Len(records') \in Nat /\ Len(records) \in Nat
    BY <1>4, <1>5, <1>6
  <2>2. Len(db') <= MaxRecords /\ Len(records') <= MaxRecords
    BY <1>1, <1>5, <1>6, <2>1, SpendingAssumption DEF Typed
  <2> QED
    BY <1>1, <1>2, <1>3, <1>5, <1>6, <2>2 DEF Typed
<1>8. ASSUME NEW c \in Cutoff(now) .. MaxTime PROVE Accounted(c)'
  <2>1. Accounted(c) /\ c \in Int /\ Cutoff(now) <= c
    BY <1>1, <1>4, CutoffType DEF Ledger
  <2>2. Since(records', c) = Since(records, c)
    BY <1>3, <1>4, <2>1, PrunedParts
  <2> QED
    BY <1>2, <1>3, <1>5, <2>1, <2>2, AccountedStable
<1> QED
  BY <1>3, <1>7, <1>8, IInvPartsNext DEF Ledger

\* The sums of the state in terms of Spent, and their types.
LEMMA Sums ==
  ASSUME Typed, NEW c
  PROVE  /\ Spent(records, c) \in Int /\ Spent(db, c) \in Int /\ Spent(lowered, c) \in Int
         /\ Spent(authorised, c) \in Int /\ SpentHere(authorised, c) \in Int
<1>1. now \in Nat
  BY SpendingAssumption DEF Typed
<1>2. Timed(Rec(now)) /\ Timed(Low(now)) /\ Timed(Auth(now))
  BY <1>1, TimedSets
<1> QED
  BY <1>2, SpentType DEF Typed

\* The amounts below zero sum up to at most zero, and to less further back.
LEMMA LoweredSums ==
  ASSUME Typed, NEW b \in Int, NEW c \in Int, b <= c
  PROVE  Spent(lowered, b) <= Spent(lowered, c) /\ Spent(lowered, c) <= 0
<1>1. now \in Nat
  BY SpendingAssumption DEF Typed
<1>2. Timed(Low(now)) /\ \A r \in Low(now) : r.amount < 0
  BY <1>1, TimedSets
<1> QED
  BY <1>2, SpentNegative DEF Typed

\* A longer window has let through at least as much.
LEMMA AuthorisedSums ==
  ASSUME Typed, NEW b \in Int, NEW c \in Int, b <= c
  PROVE  /\ 0 <= Spent(authorised, c) /\ Spent(authorised, c) <= Spent(authorised, b)
         /\ 0 <= SpentHere(authorised, c) /\ SpentHere(authorised, c) <= SpentHere(authorised, b)
<1>1. now \in Nat
  BY SpendingAssumption DEF Typed
<1>2. Timed(Auth(now)) /\ \A r \in Auth(now) : r.amount > 0
  BY <1>1, TimedSets
<1> QED
  BY <1>2, SpentPositive DEF Typed

\* clear(): nothing is left to account for, unless the table could not be cleared.
LEMMA ClearIInv == ASSUME IInv, clear PROVE IInv'
<1>1. Typed /\ Ledger
  BY IInvParts
<1>2. PICK F \in SUBSET (Faults \cap {"clear"}) :
        /\ db' = Unless("clear", F, db, <<>>) /\ lowered' = Unless("clear", F, lowered, <<>>)
        /\ mishaps' = mishaps \cup F
  BY DEF clear
<1>3. up /\ records' = <<>> /\ authorised' = <<>> /\ UNCHANGED <<now, up>>
  BY DEF clear
<1>4. \/ "clear" \in mishaps' /\ db' = db /\ lowered' = lowered
      \/ db' = <<>> /\ lowered' = <<>>
  BY <1>2 DEF Unless
<1>5. Typed'
  <2>1. /\ <<>> \in Seq(Rec(now)) /\ <<>> \in Seq(Low(now)) /\ <<>> \in Seq(Auth(now))
        /\ Len(<<>>) = 0 /\ DOMAIN <<>> = {}
    OBVIOUS
  <2>2. 0 <= MaxRecords
    BY SpendingAssumption
  <2> QED
    BY <1>1, <1>2, <1>3, <1>4, <2>1, <2>2 DEF Typed
<1>6. ASSUME NEW c \in Cutoff(now) .. MaxTime PROVE Accounted(c)'
  <2>1. Accounted(c) /\ c \in Int /\ Cutoff(c) \in Int
    BY <1>1, SpendingAssumption DEF Ledger, Cutoff, Typed
  <2>2. \A x : Spent(<<>>, x) = 0 /\ SpentHere(<<>>, x) = 0
    BY SpentEmpty
  <2>3. AGENT_SPENDING_LIMIT \in Nat
    BY SpendingAssumption
  <2>4. CASE db' = <<>> /\ lowered' = <<>>
    BY <1>3, <2>2, <2>3, <2>4 DEF Accounted, Spent, SpentHere
  <2>5. CASE "clear" \in mishaps' /\ db' = db /\ lowered' = lowered
    <3>1. ~NothingLost'
      BY <2>5 DEF NothingLost
    <3>2. /\ Spent(lowered, c) \in Int /\ Spent(lowered, Cutoff(c)) \in Int
          /\ Spent(lowered, c) <= 0 /\ Spent(lowered, Cutoff(c)) <= 0
      BY <1>1, <2>1, Sums, LoweredSums
    <3>3. 0 + Spent(lowered, c) <= 0 /\ 0 <= AGENT_SPENDING_LIMIT - Spent(lowered, Cutoff(c))
      BY <2>3, <3>2
    <3> QED
      BY <1>3, <2>1, <2>2, <2>5, <3>1, <3>3 DEF Accounted, Spent, SpentHere
  <2> QED
    BY <1>4, <2>4, <2>5
<1> QED
  BY <1>3, <1>5, <1>6, IInvPartsNext DEF Ledger

\* The process ends: what was authorised was authorised, but not by the next one.
LEMMA CrashIInv == ASSUME IInv, Crash PROVE IInv'
<1>1. Typed /\ Ledger
  BY IInvParts
<1>2. /\ up' = FALSE /\ records' = <<>> /\ authorised' = Away(authorised)
      /\ UNCHANGED <<now, db, lowered, mishaps>>
  BY DEF Crash, Away, Elsewhere
<1> DEFINE A == {a \in Amounts : a > 0}
           M == 0 .. now
           S == [amount : A, timestamp : M, here : {FALSE}]
<1>3. /\ A \in SUBSET Int /\ M \in SUBSET Int /\ now \in Nat
      /\ authorised \in Seq([amount : A, timestamp : M, here : BOOLEAN])
  <2>1. now \in Nat
    BY <1>1, SpendingAssumption DEF Typed
  <2>2. A \subseteq Int
    BY SpendingAssumption
  <2>3. M \in SUBSET Int
    BY <2>1
  <2>4. authorised \in Seq([amount : A, timestamp : M, here : BOOLEAN])
    BY <1>1 DEF Typed, Auth
  <2> QED
    BY <2>1, <2>2, <2>3, <2>4
<1>4. /\ authorised' \in Seq(S)
      /\ \A c \in Int : Spent(authorised', c) = Spent(authorised, c)
  <2>1. 0 \in Int
    OBVIOUS
  <2> HIDE DEF A, M
  <2>2. \A c \in Int : Away(authorised) \in Seq(S) /\ Spent(Away(authorised), c) = Spent(authorised, c)
    BY <1>3, SpentAway
  <2> QED
    BY <1>2, <2>1, <2>2
<1>5. Timed(S) /\ S \subseteq Auth(now) /\ \A r \in S : ~r.here
  BY <1>3 DEF Timed, Auth
<1> HIDE DEF S
<1>6. \A c \in Int : SpentHere(authorised', c) = 0
  BY <1>4, <1>5, SpentElsewhere
<1>7. Typed'
  <2>1. authorised' \in Seq(Auth(now))
    BY <1>4, <1>5, SeqGrows
  <2>2. \A i \in DOMAIN authorised' : ~authorised'[i].here
    BY <1>4, <1>5
  <2>3. <<>> \in Seq(Rec(now)) /\ Len(<<>>) <= MaxRecords
    BY SpendingAssumption
  <2> QED
    BY <1>1, <1>2, <2>1, <2>2, <2>3 DEF Typed
<1>8. ASSUME NEW c \in Cutoff(now) .. MaxTime PROVE Accounted(c)'
  <2>1. Accounted(c) /\ c \in Int /\ Cutoff(c) \in Int
    BY <1>1, SpendingAssumption DEF Ledger, Cutoff, Typed
  <2>2. Spent(authorised', c) = Spent(authorised, c) /\ SpentHere(authorised', c) = 0
    BY <1>4, <1>6, <2>1
  <2>3. 0 <= AGENT_SPENDING_LIMIT - Spent(lowered, Cutoff(c))
    <3>1. Spent(lowered, Cutoff(c)) \in Int /\ Spent(lowered, Cutoff(c)) <= 0
      BY <1>1, <2>1, Sums, LoweredSums
    <3> QED
      BY <3>1, SpendingAssumption
  <2>4. NothingLost' = NothingLost
    BY <1>2 DEF NothingLost
  <2> QED
    BY <1>2, <2>1, <2>2, <2>3, <2>4 DEF Accounted, Spent, SpentHere
<1> QED
  BY <1>2, <1>7, <1>8, IInvPartsNext DEF Ledger

\* The next process loads the window, or starts empty.
LEMMA RestartIInv == ASSUME IInv, Restart PROVE IInv'
<1>1. Typed /\ Ledger
  BY IInvParts
<1>2. ~up /\ up' = TRUE
  BY DEF Restart
<1>3. PICK u, F, l :
        /\ u \in {now, now + 1} /\ F \in SUBSET (Faults \cap {"load", "prune"})
        /\ l = Unless("load", F, <<>>, Loaded)
        /\ u <= MaxTime /\ now' = u /\ records' = Kept(l, u)
        /\ db' = PrunedDb(db, Evicts(l, u), u, F)
        /\ authorised' = Since(authorised, Cutoff(u)) /\ lowered' = Recent(lowered, u)
        /\ mishaps' = mishaps \cup F
  BY DEF Restart
<1>4. /\ u \in Nat /\ u \in Int /\ now \in Nat /\ now <= u /\ u \in 0 .. MaxTime
      /\ Cutoff(u) \in Int /\ Cutoff(now) \in Int /\ Cutoff(now) <= Cutoff(u)
      /\ \A c \in Cutoff(u) .. MaxTime : c \in Cutoff(now) .. MaxTime /\ c \in Int /\ Cutoff(u) <= c
  <2>1. /\ u \in Nat /\ now \in Nat /\ now <= u /\ u \in 0 .. MaxTime
        /\ Cutoff(u) \in Int /\ Cutoff(now) <= Cutoff(u)
        /\ \A c \in Cutoff(u) .. MaxTime : c \in Cutoff(now) .. MaxTime /\ c \in Int /\ Cutoff(u) <= c
    BY <1>1, <1>3, ClockLater
  <2>2. u \in Int /\ Cutoff(now) \in Int
    BY <2>1, CutoffType
  <2> QED
    BY <2>1, <2>2
<1>5. /\ db \in Seq(Rec(u)) /\ lowered \in Seq(Low(u)) /\ authorised \in Seq(Auth(u))
      /\ Timed(Rec(u)) /\ Timed(Low(u)) /\ Timed(Auth(u))
  BY <1>1, <1>4, TypedLater, TimedSets
<1>6. (l = <<>> /\ "load" \in mishaps') \/ l = Since(db, Cutoff(now))
  BY <1>3 DEF Unless, Loaded
<1>7. l \in Seq(Rec(u)) /\ Len(l) <= MaxRecords
  <2>1. CASE l = <<>>
    <3>1. <<>> \in Seq(Rec(u)) /\ Len(<<>>) = 0
      OBVIOUS
    <3> QED
      BY <2>1, <3>1, SpendingAssumption
  <2>2. CASE l = Since(db, Cutoff(now))
    <3>1. l \in Seq(Rec(u)) /\ Len(l) <= Len(db) /\ Len(db) <= MaxRecords
      BY <1>1, <1>5, <2>2, SinceType DEF Typed
    <3>2. Len(l) \in Nat /\ Len(db) \in Nat
      BY <1>5, <3>1
    <3> QED
      BY <3>1, <3>2, SpendingAssumption
  <2> QED
    BY <1>6, <2>1, <2>2
<1>8. /\ db' \in Seq(Rec(u)) /\ Len(db') <= Len(db)
      /\ \A c \in Int : Cutoff(u) <= c => Since(db', c) = Since(db, c)
  BY <1>3, <1>4, <1>5, PrunedDbKeeps
<1>9. records' \in Seq(Rec(u)) /\ Len(records') <= Len(l)
  BY <1>3, <1>7, SinceType DEF Kept
<1>10. Typed'
  <2>1. Len(db') \in Nat /\ Len(db) \in Nat /\ Len(records') \in Nat /\ Len(l) \in Nat
    BY <1>5, <1>7, <1>8, <1>9
  <2>2. Len(db') <= MaxRecords /\ Len(records') <= MaxRecords
    BY <1>1, <1>7, <1>8, <1>9, <2>1, SpendingAssumption DEF Typed
  <2>3. authorised' \in Seq(Auth(u)) /\ lowered' \in Seq(Low(u))
    BY <1>3, <1>5, SinceType DEF Recent
  <2> QED
    BY <1>1, <1>2, <1>3, <1>4, <1>8, <1>9, <2>2, <2>3 DEF Typed
<1>11. ASSUME NEW c \in Cutoff(u) .. MaxTime PROVE Accounted(c)'
  <2>1. Accounted(c) /\ c \in Int /\ Cutoff(u) <= c /\ Cutoff(c) \in Int /\ Cutoff(now) <= c
    BY <1>1, <1>4, CutoffType DEF Ledger
  <2>2. Since(authorised', c) = Since(authorised, c)
    BY <1>3, <1>4, <1>5, <2>1, PrunedParts
  <2>3. Since(lowered', c) = Since(lowered, c) /\ Since(lowered', Cutoff(c)) = Since(lowered, Cutoff(c))
    BY <1>3, <1>4, <1>5, <2>1, PrunedParts
  <2>4. Since(db', c) = Since(db, c)
    BY <1>8, <2>1
  <2>5. Since(records', c) = Since(l, c)
    BY <1>3, <1>4, <1>5, <1>7, <2>1, PrunedParts DEF Kept
  <2>6. SpentHere(authorised, c) = 0
    <3> DEFINE S == {r \in Auth(now) : ~r.here}
    <3>1. \A i \in 1 .. Len(authorised) : authorised[i] \in S
      BY <1>1, <1>2 DEF Typed
    <3>2. Timed(S) /\ \A r \in S : ~r.here
      BY <1>4, TimedSets DEF Timed
    <3> HIDE DEF S
    <3>3. authorised \in Seq(S)
      BY <1>5, <3>1
    <3> QED
      BY <2>1, <3>2, <3>3, SpentElsewhere
  <2>7. Since(l, c) = Since(db, c) \/ (Since(l, c) = <<>> /\ "load" \in mishaps')
    <3>1. CASE l = Since(db, Cutoff(now))
      BY <1>4, <1>5, <2>1, <3>1, PrunedParts
    <3>2. CASE l = <<>> /\ "load" \in mishaps'
      BY <3>2, SinceEmpty
    <3> QED
      BY <1>6, <3>1, <3>2
  <2>8. Spent(lowered, c) \in Int /\ Spent(lowered, c) <= 0 /\ Sum(<<>>) = 0
    BY <1>1, <2>1, Sums, LoweredSums, SumEmpty
  <2>9. NothingLost' => NothingLost /\ Since(l, c) = Since(db, c)
    BY <1>3, <2>7 DEF NothingLost
  <2>10. 0 + Sum(Since(lowered, c)) <= Sum(Since(l, c))
    <3>1. Sum(Since(lowered, c)) <= Sum(Since(db, c))
      BY <2>1 DEF Accounted
    <3> QED
      BY <2>7, <2>8, <3>1 DEF Spent
  <2> QED
    BY <2>1, <2>2, <2>3, <2>4, <2>5, <2>6, <2>9, <2>10 DEF Accounted, SpentHere
<1> QED
  BY <1>3, <1>10, <1>11, IInvPartsNext DEF Ledger

\* A payment is checked: what record() does to each of the four sequences.
LEMMA RecordSteps ==
  ASSUME Typed, NEW a \in Amounts, record(a)
  PROVE  \E u, F, G, new, pushed, p, d :
           /\ u \in {now, now + 1} /\ F \in SUBSET (Faults \cap {"save", "prune"})
           /\ G \in SUBSET (Faults \cap {"prune"})
           /\ new = Record(a, now) /\ pushed = Append(Since(records, Cutoff(now)), new)
           /\ p = PrunedDb(db, Evicts(records, now), now, F)
           /\ d = (IF "save" \in F THEN p ELSE Append(p, new))
           /\ u <= MaxTime /\ now' = u /\ up' = up /\ up
           /\ records' = Since(pushed, Cutoff(u))
           /\ db' = PrunedDb(d, Evicts(pushed, u), u, G)
           /\ authorised' = Since(IF Exceeds(Sum(Since(pushed, Cutoff(u)))) \/ a <= 0 THEN authorised
                                  ELSE Append(authorised, [amount |-> a, timestamp |-> now, here |-> TRUE]),
                                  Cutoff(u))
           /\ lowered' = Recent(IF a < 0 THEN Append(lowered, new) ELSE lowered, u)
           /\ mishaps' = mishaps \cup F \cup G
           /\ Len(records) < MaxRecords /\ Len(db) < MaxRecords
  BY DEF record, Kept, Persisted, Unless

\* The part since c of a sequence to which a record of now is appended.
LEMMA AppendedPart ==
  ASSUME NEW S, Timed(S), NEW s \in Seq(S), NEW r \in S, NEW q \in Seq(S), NEW c \in Int,
         Since(q, c) = Since(s, c)
  PROVE  Since(Append(q, r), c) = Since(Append(s, r), c)
<1>1. Since(Append(q, r), c) = IF r.timestamp >= c THEN Append(Since(q, c), r) ELSE Since(q, c)
  BY SinceAppend
<1>2. Since(Append(s, r), c) = IF r.timestamp >= c THEN Append(Since(s, c), r) ELSE Since(s, c)
  BY SinceAppend
<1> QED
  BY <1>1, <1>2

\* A payment is checked.
LEMMA RecordIInv == ASSUME IInv, NEW a \in Amounts, record(a) PROVE IInv'
<1>1. Typed /\ Ledger /\ a \in Int
  BY IInvParts, SpendingAssumption
<1> DEFINE auth == [amount |-> a, timestamp |-> now, here |-> TRUE]
<1>2. PICK u, F, G, new, pushed, p, d :
           /\ u \in {now, now + 1} /\ F \in SUBSET (Faults \cap {"save", "prune"})
           /\ G \in SUBSET (Faults \cap {"prune"})
           /\ new = Record(a, now) /\ pushed = Append(Since(records, Cutoff(now)), new)
           /\ p = PrunedDb(db, Evicts(records, now), now, F)
           /\ d = (IF "save" \in F THEN p ELSE Append(p, new))
           /\ u <= MaxTime /\ now' = u /\ up' = up /\ up
           /\ records' = Since(pushed, Cutoff(u))
           /\ db' = PrunedDb(d, Evicts(pushed, u), u, G)
           /\ authorised' = Since(IF Exceeds(Sum(Since(pushed, Cutoff(u)))) \/ a <= 0 THEN authorised
                                  ELSE Append(authorised, auth), Cutoff(u))
           /\ lowered' = Recent(IF a < 0 THEN Append(lowered, new) ELSE lowered, u)
           /\ mishaps' = mishaps \cup F \cup G
           /\ Len(records) < MaxRecords /\ Len(db) < MaxRecords
  BY <1>1, RecordSteps
<1> DEFINE pays == ~Exceeds(Sum(Since(pushed, Cutoff(u)))) /\ a > 0
           passed == IF pays THEN Append(authorised, auth) ELSE authorised
           below == IF a < 0 THEN Append(lowered, new) ELSE lowered
<1>3. authorised' = Since(passed, Cutoff(u)) /\ lowered' = Recent(below, u)
  <2>1. (Exceeds(Sum(Since(pushed, Cutoff(u)))) \/ a <= 0) <=> ~pays
    BY <1>1
  <2> QED
    BY <1>2, <2>1
<1>4. /\ u \in Nat /\ u \in Int /\ now \in Nat /\ now <= u /\ u \in 0 .. MaxTime
      /\ Cutoff(u) \in Int /\ Cutoff(now) \in Int /\ Cutoff(now) <= Cutoff(u) /\ Cutoff(u) <= now
      /\ \A c \in Cutoff(u) .. MaxTime : c \in Cutoff(now) .. MaxTime /\ c \in Int /\ Cutoff(u) <= c
  <2>1. /\ u \in Nat /\ now \in Nat /\ now <= u /\ u \in 0 .. MaxTime
        /\ Cutoff(u) \in Int /\ Cutoff(now) <= Cutoff(u) /\ Cutoff(u) <= now
        /\ \A c \in Cutoff(u) .. MaxTime : c \in Cutoff(now) .. MaxTime /\ c \in Int /\ Cutoff(u) <= c
    BY <1>1, <1>2, ClockLater
  <2>2. u \in Int /\ Cutoff(now) \in Int
    BY <2>1, CutoffType
  <2> QED
    BY <2>1, <2>2
<1>5. /\ records \in Seq(Rec(u)) /\ db \in Seq(Rec(u)) /\ lowered \in Seq(Low(u))
      /\ authorised \in Seq(Auth(u)) /\ Timed(Rec(u)) /\ Timed(Low(u)) /\ Timed(Auth(u))
  BY <1>1, <1>4, TypedLater, TimedSets
<1>6. /\ new.amount = a /\ new.timestamp = now /\ auth.amount = a /\ auth.timestamp = now /\ auth.here
      /\ new \in Rec(u) /\ (a < 0 => new \in Low(u)) /\ (a > 0 => auth \in Auth(u))
  <2>1. now \in 0 .. u
    BY <1>4
  <2> QED
    BY <1>2, <2>1 DEF Record, Rec, Low, Auth
<1> HIDE DEF auth
<1> DEFINE q == Since(records, Cutoff(now))
<1>7. q \in Seq(Rec(u)) /\ Len(q) <= Len(records) /\ pushed = Append(q, new)
  BY <1>2, <1>5, SinceType
<1>8. /\ p \in Seq(Rec(u)) /\ Len(p) <= Len(db)
      /\ \A c \in Int : Cutoff(now) <= c => Since(p, c) = Since(db, c)
  BY <1>2, <1>4, <1>5, PrunedDbKeeps
<1>9. \A c \in Int : Cutoff(now) <= c => Since(q, c) = Since(records, c)
  BY <1>4, <1>5, PrunedParts
<1> HIDE DEF q
<1>10. /\ pushed \in Seq(Rec(u)) /\ d \in Seq(Rec(u)) /\ Len(pushed) <= MaxRecords /\ Len(d) <= MaxRecords
  <2>1. Len(q) \in Nat /\ Len(records) \in Nat /\ Len(p) \in Nat /\ Len(db) \in Nat
    BY <1>5, <1>7, <1>8
  <2>2. /\ Append(q, new) \in Seq(Rec(u)) /\ Len(Append(q, new)) = Len(q) + 1
        /\ Append(p, new) \in Seq(Rec(u)) /\ Len(Append(p, new)) = Len(p) + 1
    BY <1>6, <1>7, <1>8, AppendFacts
  <2>3. Len(q) + 1 <= MaxRecords /\ Len(p) + 1 <= MaxRecords /\ Len(p) <= MaxRecords
    BY <1>2, <1>7, <1>8, <2>1, SpendingAssumption
  <2> QED
    BY <1>2, <1>7, <1>8, <2>2, <2>3
<1>11. /\ db' \in Seq(Rec(u)) /\ Len(db') <= Len(d)
       /\ \A c \in Int : Cutoff(u) <= c => Since(db', c) = Since(d, c)
  <2>1. db' = PrunedDb(d, Evicts(pushed, u), u, G) /\ d \in Seq(Rec(u)) /\ u \in Int /\ Timed(Rec(u))
    BY <1>2, <1>4, <1>5, <1>10
  <2> QED
    BY <2>1, PrunedDbKeeps
<1>12. records' \in Seq(Rec(u)) /\ Len(records') <= Len(pushed)
  BY <1>2, <1>10, SinceType
<1>13. passed \in Seq(Auth(u)) /\ below \in Seq(Low(u))
  <2>1. a > 0 => Append(authorised, auth) \in Seq(Auth(u))
    BY <1>5, <1>6, AppendFacts
  <2>2. a < 0 => Append(lowered, new) \in Seq(Low(u))
    BY <1>5, <1>6, AppendFacts
  <2> QED
    BY <1>5, <2>1, <2>2
<1>14. Typed'
  <2>1. Len(db') \in Nat /\ Len(d) \in Nat /\ Len(records') \in Nat /\ Len(pushed) \in Nat
    BY <1>10, <1>11, <1>12
  <2>2. Len(db') <= MaxRecords /\ Len(records') <= MaxRecords
    BY <1>10, <1>11, <1>12, <2>1, SpendingAssumption
  <2> HIDE DEF passed, below
  <2>3. authorised' \in Seq(Auth(u)) /\ lowered' \in Seq(Low(u))
    BY <1>3, <1>13, SinceType DEF Recent
  <2> QED
    BY <1>1, <1>2, <1>4, <1>11, <1>12, <2>2, <2>3 DEF Typed
<1>15. \A c \in Int : Cutoff(u) <= c =>
          /\ Since(records', c) = Since(Append(records, new), c)
          /\ Since(db', c) = IF "save" \in F THEN Since(db, c) ELSE Since(Append(db, new), c)
          /\ Since(authorised', c) = Since(passed, c)
          /\ Since(lowered', c) = Since(below, c)
          /\ Since(lowered', Cutoff(c)) = Since(below, Cutoff(c))
  <2> SUFFICES ASSUME NEW c \in Int, Cutoff(u) <= c
               PROVE  /\ Since(records', c) = Since(Append(records, new), c)
                      /\ Since(db', c) = IF "save" \in F THEN Since(db, c) ELSE Since(Append(db, new), c)
                      /\ Since(authorised', c) = Since(passed, c)
                      /\ Since(lowered', c) = Since(below, c)
                      /\ Since(lowered', Cutoff(c)) = Since(below, Cutoff(c))
    OBVIOUS
  <2>1. Cutoff(now) <= c
    BY <1>4
  <2>2. Since(records', c) = Since(pushed, c)
    <3>1. records' = Since(pushed, Cutoff(u)) /\ pushed \in Seq(Rec(u)) /\ u \in Int /\ Timed(Rec(u))
      BY <1>2, <1>4, <1>5, <1>10
    <3> QED
      BY <3>1, PrunedParts
  <2>3. Since(pushed, c) = Since(Append(records, new), c)
    BY <1>5, <1>6, <1>7, <1>9, <2>1, AppendedPart
  <2>4. Since(Append(p, new), c) = Since(Append(db, new), c)
    BY <1>5, <1>6, <1>8, <2>1, AppendedPart
  <2>5. Since(db', c) = IF "save" \in F THEN Since(db, c) ELSE Since(Append(db, new), c)
    BY <1>2, <1>8, <1>11, <2>1, <2>4
  <2> HIDE DEF passed, below
  <2>6. Since(authorised', c) = Since(passed, c)
    BY <1>3, <1>4, <1>5, <1>13, PrunedParts
  <2>7. Since(lowered', c) = Since(below, c) /\ Since(lowered', Cutoff(c)) = Since(below, Cutoff(c))
    BY <1>3, <1>4, <1>5, <1>13, PrunedParts
  <2> QED
    BY <2>2, <2>3, <2>5, <2>6, <2>7
<1>16. /\ Accounted(Cutoff(u)) /\ Cutoff(u) \in Cutoff(u) .. MaxTime
  <2>1. Cutoff(u) \in Cutoff(u) .. MaxTime
    BY <1>1, <1>4, SpendingAssumption DEF Typed
  <2> QED
    BY <1>1, <1>4, <2>1 DEF Ledger
<1>17. pays => Spent(records, Cutoff(u)) + a <= AGENT_SPENDING_LIMIT
  <2>1. Since(pushed, Cutoff(u)) = Since(Append(records, new), Cutoff(u))
    BY <1>4, <1>5, <1>6, <1>7, <1>9, AppendedPart
  <2>2. Spent(Append(records, new), Cutoff(u)) = Spent(records, Cutoff(u)) + a
    BY <1>4, <1>5, <1>6, SpentAppend
  <2>3. Spent(records, Cutoff(u)) \in Int /\ AGENT_SPENDING_LIMIT \in Int
    BY <1>1, Sums, SpendingAssumption
  <2> QED
    BY <1>1, <2>1, <2>2, <2>3 DEF Exceeds, Spent
<1>18. pays => a > 0 /\ ~(a < 0)
  BY <1>1
<1> HIDE DEF pays
<1>19. ASSUME NEW c \in Cutoff(u) .. MaxTime PROVE Accounted(c)'
  <2>1. Accounted(c) /\ c \in Int /\ Cutoff(u) <= c /\ Cutoff(c) \in Int
    BY <1>1, <1>4, CutoffType DEF Ledger
  <2> DEFINE R == Spent(records, c)
             D == Spent(db, c)
             N == Spent(lowered, c)
             O == Spent(lowered, Cutoff(c))
             A == Spent(authorised, c)
             H == SpentHere(authorised, c)
             x == IF now >= c THEN a ELSE 0
             y == IF now >= Cutoff(c) THEN a ELSE 0
  <2>2. R \in Int /\ D \in Int /\ N \in Int /\ O \in Int /\ A \in Int /\ H \in Int
    BY <1>1, Sums
  <2>3. x \in Int /\ y \in Int /\ (a < 0 => x <= 0 /\ y <= 0) /\ (a >= 0 => x >= 0)
    BY <1>1
  <2>4. Spent(Append(records, new), c) = R + x /\ Spent(Append(db, new), c) = D + x
    <3>1. Spent(Append(records, new), c) = IF now >= c THEN R + a ELSE R
      BY <1>5, <1>6, <2>1, SpentAppend
    <3>2. Spent(Append(db, new), c) = IF now >= c THEN D + a ELSE D
      BY <1>5, <1>6, <2>1, SpentAppend
    <3> HIDE DEF R, D
    <3> QED
      BY <1>1, <2>2, <3>1, <3>2
  <2>5. pays => Spent(Append(authorised, auth), c) = A + x /\ SpentHere(Append(authorised, auth), c) = H + x
    <3> SUFFICES ASSUME pays
                 PROVE  Spent(Append(authorised, auth), c) = A + x
                        /\ SpentHere(Append(authorised, auth), c) = H + x
      OBVIOUS
    <3>1. Spent(Append(authorised, auth), c) = IF now >= c THEN A + a ELSE A
      BY <1>5, <1>6, <1>18, <2>1, SpentAppend
    <3>2. SpentHere(Append(authorised, auth), c) = IF now >= c THEN H + a ELSE H
      BY <1>5, <1>6, <1>18, <2>1, SpentHereAppend
    <3> HIDE DEF A, H
    <3> QED
      BY <1>1, <2>2, <3>1, <3>2
  <2>6. a < 0 => Spent(Append(lowered, new), c) = N + x /\ Spent(Append(lowered, new), Cutoff(c)) = O + y
    <3> SUFFICES ASSUME a < 0
                 PROVE  Spent(Append(lowered, new), c) = N + x
                        /\ Spent(Append(lowered, new), Cutoff(c)) = O + y
      OBVIOUS
    <3>1. Spent(Append(lowered, new), c) = IF now >= c THEN N + a ELSE N
      BY <1>5, <1>6, <2>1, SpentAppend
    <3>2. Spent(Append(lowered, new), Cutoff(c)) = IF now >= Cutoff(c) THEN O + a ELSE O
      BY <1>5, <1>6, <2>1, SpentAppend
    <3> HIDE DEF N, O
    <3> QED
      BY <1>1, <2>2, <3>1, <3>2
  <2> DEFINE N1 == IF a < 0 THEN N + x ELSE N
             O1 == IF a < 0 THEN O + y ELSE O
             A1 == IF pays THEN A + x ELSE A
             H1 == IF pays THEN H + x ELSE H
             D1 == IF "save" \in F THEN D ELSE D + x
  <2>7. /\ Spent(records', c) = R + x /\ Spent(db', c) = D1 /\ Spent(authorised', c) = A1
        /\ SpentHere(authorised', c) = H1 /\ Spent(lowered', c) = N1 /\ Spent(lowered', Cutoff(c)) = O1
    BY <1>15, <2>1, <2>4, <2>5, <2>6 DEF Spent, SpentHere
  <2>8. /\ N <= D /\ H + N <= R /\ H <= AGENT_SPENDING_LIMIT - O
        /\ NothingLost => /\ A + N <= D /\ A <= AGENT_SPENDING_LIMIT - O
                          /\ Since(records, c) = Since(db, c)
    BY <1>2, <2>1 DEF Accounted, Spent, SpentHere
  <2>9. NothingLost' => NothingLost /\ "save" \notin F
    BY <1>2 DEF NothingLost
  <2>10. AGENT_SPENDING_LIMIT \in Int
    BY SpendingAssumption
  <2>11. ASSUME NothingLost' PROVE Since(records', c) = Since(db', c)
    <3>1. Since(Append(records, new), c) = Since(Append(db, new), c)
      BY <1>5, <1>6, <2>1, <2>8, <2>9, <2>11, AppendedPart
    <3> QED
      BY <1>15, <2>1, <2>9, <2>11, <3>1
  \* What the guard compared with the limit bounds what was authorised.
  <2>12. ASSUME pays, now >= c
         PROVE  /\ H + a <= AGENT_SPENDING_LIMIT - O
                /\ NothingLost => A + a <= AGENT_SPENDING_LIMIT - O
    <3> DEFINE w == Cutoff(u)
    <3>1. /\ SpentHere(authorised, w) + Spent(lowered, w) <= Spent(records, w)
          /\ NothingLost => Spent(authorised, w) + Spent(lowered, w) <= Spent(records, w)
      BY <1>2, <1>16 DEF Accounted, Spent, SpentHere
    <3>2. H <= SpentHere(authorised, w) /\ A <= Spent(authorised, w)
      BY <1>1, <1>4, <2>1, AuthorisedSums
    <3>3. O <= Spent(lowered, w)
      <4>1. Cutoff(c) <= w
        BY <1>4, <2>1, <2>12, SpendingAssumption DEF Cutoff
      <4> QED
        BY <1>1, <1>4, <2>1, <4>1, LoweredSums
    <3>4. /\ SpentHere(authorised, w) \in Int /\ Spent(authorised, w) \in Int
          /\ Spent(lowered, w) \in Int /\ Spent(records, w) \in Int
      BY <1>1, Sums
    <3>5. Spent(records, w) + a <= AGENT_SPENDING_LIMIT
      BY <1>17, <2>12
    <3> HIDE DEF w, R, D, N, O, A, H
    <3> QED
      BY <1>1, <2>2, <2>10, <3>1, <3>2, <3>3, <3>4, <3>5
  <2> HIDE DEF R, D, N, O, A, H
  <2>13. N1 <= D1 /\ H1 + N1 <= R + x
    BY <1>1, <1>18, <2>2, <2>3, <2>8
  <2>14. NothingLost' => A1 + N1 <= D1
    BY <1>1, <1>18, <2>2, <2>3, <2>8, <2>9
  <2>15. H1 <= AGENT_SPENDING_LIMIT - O1
    BY <1>1, <1>18, <2>2, <2>3, <2>8, <2>10, <2>12
  <2>16. NothingLost' => A1 <= AGENT_SPENDING_LIMIT - O1
    BY <1>1, <1>18, <2>2, <2>3, <2>8, <2>9, <2>10, <2>12
  <2> HIDE DEF A1, D1, H1, N1, O1, x
  <2> QED
    BY <2>7, <2>11, <2>13, <2>14, <2>15, <2>16 DEF Accounted, Spent, SpentHere
<1> QED
  BY <1>2, <1>14, <1>19, IInvPartsNext DEF Ledger

\* The step lemma.
LEMMA NextIInv == IInv /\ [Next]_vars => IInv'
<1> SUFFICES ASSUME IInv, [Next]_vars PROVE IInv'
  OBVIOUS
<1>1. CASE UNCHANGED vars
  <2>1. Typed /\ Ledger
    BY IInvParts
  <2>2. Typed'
    BY <1>1, <2>1 DEF vars, Typed
  <2>3. Ledger'
    BY <1>1, <2>1 DEF vars, Ledger, Accounted, NothingLost
  <2> QED
    BY <2>2, <2>3, IInvPartsNext
<1> QED
  BY <1>1, RecordIInv, TotalIInv, ClearIInv, TickIInv, CrashIInv, RestartIInv DEF Next

-----------------------------------------------------------------------------
(* The theorems.                                                           *)

\* The inductive invariant holds in every reachable state of the tracker.
THEOREM SpendingInvariant == Spec => []IInv
  BY InitIInv, NextIInv, PTL DEF Spec

\* Type correctness of the window, the table and the histories.
THEOREM SpendingTypeCorrect == Spec => []TypeOK
<1>1. IInv => TypeOK
  BY DEF IInv
<1> QED
  BY <1>1, SpendingInvariant, PTL

\* The cutoff of the present clock is one of the parts the invariant speaks of.
LEMMA WindowAccounted == IInv => Accounted(Cutoff(now))
<1>1. ASSUME IInv PROVE Cutoff(now) \in Cutoff(now) .. MaxTime
  BY <1>1, SpendingAssumption DEF IInv, TypeOK, Cutoff
<1> QED
  BY <1>1 DEF IInv

\* The table mirrors the window across pruning, crashes and restarts, as long
\* as no statement but the pruning ones failed.
THEOREM SpendingWindowMirrored == Spec => []WindowMirrored
<1>1. IInv => WindowMirrored
  <2> SUFFICES ASSUME IInv PROVE WindowMirrored
    OBVIOUS
  <2>1. mishaps \cap {"save", "load", "clear"} = {} => NothingLost
    BY SpendingAssumption DEF IInv, TypeOK, NothingLost
  <2> QED
    BY <2>1, WindowAccounted DEF IInv, WindowMirrored, Accounted, InWindow
<1> QED
  BY <1>1, SpendingInvariant, PTL

\* What the guard let through within a window stays within the limit, across
\* crashes and restarts, and whatever SQLite does for the life of a process.
THEOREM SpendingWithinLimit == Spec => []SpentWithinLimit
<1>1. IInv => SpentWithinLimit
  <2> SUFFICES ASSUME IInv PROVE SpentWithinLimit
    OBVIOUS
  <2> DEFINE w == Cutoff(now)
  <2>1. now \in Nat /\ w \in Int /\ Cutoff(w) \in Int /\ Cutoff(w) <= w
    BY SpendingAssumption DEF IInv, TypeOK, Cutoff
  <2> QED
    BY <2>1, WindowAccounted DEF SpentWithinLimit, Accounted, NothingLost, InWindow, Room, Recent
<1> QED
  BY <1>1, SpendingInvariant, PTL
=============================================================================
