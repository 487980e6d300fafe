--------------------------- MODULE DataInduction ---------------------------
(***************************************************************************)
(* Induction and recursion over data, in the form the provers can use: the *)
(* induction hypothesis is membership in a set and the clauses of a        *)
(* recursive definition are functions, so no lemma has an operator as a    *)
(* parameter.                                                              *)
(***************************************************************************)
EXTENDS DrCmds, WellFoundedInduction, TLAPS

\* A non-empty set of naturals has a least element (the std::min loops of the
\* program scan such a set).
LEMMA LeastNat ==
    ASSUME NEW S, S \subseteq Nat, S # {}
    PROVE  \E x \in S : \A y \in S : x <= y
<1>1. PICK x \in S : \A y \in S : ~(<<y, x>> \in OpToRel(<, Nat))
  BY NatLessThanWellFounded, WFMin, Zenon
<1>2. \A y \in S : ~(y < x)
  BY <1>1 DEF OpToRel
<1> QED BY <1>2

\* Concatenation, with the element at each index.
LEMMA ConcatFacts ==
    ASSUME NEW S, NEW s \in Seq(S), NEW t \in Seq(S)
    PROVE  /\ s \o t \in Seq(S)
           /\ Len(s \o t) = Len(s) + Len(t)
           /\ \A i \in 1 .. (Len(s) + Len(t)) :
                (s \o t)[i] = IF i <= Len(s) THEN s[i] ELSE t[i - Len(s)]
OBVIOUS

\* A set that holds 0 and, with a number, the next one, holds every natural.
LEMMA SetInduction ==
    ASSUME NEW S, 0 \in S, \A n \in Nat : n \in S => n + 1 \in S
    PROVE  Nat \subseteq S
<1> SUFFICES ASSUME Nat \ S # {} PROVE FALSE
  OBVIOUS
<1>1. PICK x \in Nat \ S : \A y \in Nat \ S : x <= y
  BY LeastNat
<1>2. x # 0 /\ x - 1 \in Nat /\ ~(x <= x - 1)
  BY <1>1
<1>3. x - 1 \in S
  BY <1>1, <1>2
<1> QED BY <1>1, <1>2, <1>3

\* Course-of-values induction on a measure of the elements of D.
LEMMA MeasureInduction ==
    ASSUME NEW D, NEW mu \in [D -> Nat], NEW S,
           \A x \in D : (\A y \in D : mu[y] < mu[x] => y \in S) => x \in S
    PROVE  D \subseteq S
<1> SUFFICES ASSUME D \ S # {} PROVE FALSE
  OBVIOUS
<1> DEFINE M == {mu[x] : x \in D \ S}
<1>0. M \subseteq Nat /\ M # {}
  OBVIOUS
<1>1. PICK m \in M : \A y \in M : m <= y
  <2> HIDE DEF M
  <2> QED BY <1>0, LeastNat
<1>2. PICK x \in D \ S : m = mu[x]
  BY <1>1
<1>3. \A y \in D : mu[y] < mu[x] => y \in S
  BY SMTT(40), <1>1, <1>2
<1> QED BY <1>2, <1>3

\* F is the function on D with values in V that is b[x] on T and elsewhere
\* combines x with F[h[x]] by c.
IsRecursive(F, D, V, T, h, b, c) ==
    /\ F \in [D -> V]
    /\ \A x \in D : F[x] = IF x \in T THEN b[x] ELSE c[<<x, F[h[x]]>>]

\* Each unfolding decreases the measure mu.
IsDecreasing(D, V, T, mu, h, b, c) ==
    /\ mu \in [D -> Nat] /\ h \in [D -> D]
    /\ b \in [D -> V] /\ c \in [D \X V -> V]
    /\ \A x \in D \ T : mu[h[x]] < mu[x]

\* A function defined by recursion on a decreasing measure exists: the
\* unfolding of the loops of the program that work a list off.
LEMMA RecursionExists ==
    ASSUME NEW D, NEW V, NEW T, NEW mu, NEW h, NEW b, NEW c,
           IsDecreasing(D, V, T, mu, h, b, c)
    PROVE  \E F : IsRecursive(F, D, V, T, h, b, c)
<1>0. /\ mu \in [D -> Nat] /\ h \in [D -> D]
      /\ b \in [D -> V] /\ c \in [D \X V -> V]
      /\ \A x \in D \ T : mu[h[x]] < mu[x]
  BY DEF IsDecreasing
<1> DEFINE Dom(n) == {x \in D : mu[x] <= n}
           Sol(F, n) == /\ F \in [Dom(n) -> V]
                        /\ \A x \in Dom(n) :
                              F[x] = IF x \in T THEN b[x] ELSE c[<<x, F[h[x]]>>]
           G(n) == CHOOSE F \in [Dom(n) -> V] : Sol(F, n)
           S == {n \in Nat : \E F \in [Dom(n) -> V] : Sol(F, n)}
\* Solutions of different depth agree.
<1>1. ASSUME NEW n \in Nat, NEW m \in Nat, n <= m, NEW F, NEW E, Sol(F, n), Sol(E, m)
      PROVE  \A x \in Dom(n) : F[x] = E[x]
  <2> DEFINE A == {x \in D : x \in Dom(n) => F[x] = E[x]}
  <2>1. ASSUME NEW x \in D, \A y \in D : mu[y] < mu[x] => y \in A
        PROVE  x \in A
    <3> SUFFICES ASSUME x \in Dom(n) PROVE F[x] = E[x]
      OBVIOUS
    <3>0. x \in Dom(m)
      BY <1>0, <1>1
    <3>1. CASE x \in T
      BY <1>0, <3>0, <3>1, <1>1
    <3>2. CASE x \notin T
      <4>1. h[x] \in D /\ mu[h[x]] < mu[x] /\ h[x] \in Dom(n)
        BY <1>0, <3>2, <1>1
      <4>2. F[h[x]] = E[h[x]]
        BY <4>1, <2>1
      <4> QED BY <1>0, <3>0, <3>2, <4>2, <1>1
    <3> QED BY <3>1, <3>2
  <2> HIDE DEF A
  <2>2. D \subseteq A
    BY <1>0, <2>1, MeasureInduction
  <2> QED BY <2>2 DEF A
\* There is a solution of every depth.
<1>2. 0 \in S
  <2> DEFINE F == [x \in Dom(0) |-> b[x]]
  <2>1. \A x \in Dom(0) : x \in T
    BY <1>0
  <2>2. Sol(F, 0)
    BY <1>0, <2>1
  <2>3. F \in [Dom(0) -> V]
    BY <1>0
  <2> HIDE DEF Sol, F, Dom
  <2> QED BY <2>2, <2>3
<1>3. ASSUME NEW n \in Nat, n \in S PROVE n + 1 \in S
  <2>1. PICK F : Sol(F, n)
    BY <1>3
  <2> DEFINE E == [x \in Dom(n + 1) |-> IF x \in T THEN b[x] ELSE c[<<x, F[h[x]]>>]]
  <2>2. \A x \in Dom(n + 1) \ T : h[x] \in Dom(n) /\ F[h[x]] \in V
    BY <1>0, <2>1
  <2>3. E \in [Dom(n + 1) -> V]
    <3> SUFFICES ASSUME NEW x \in Dom(n + 1)
                 PROVE  (IF x \in T THEN b[x] ELSE c[<<x, F[h[x]]>>]) \in V
      OBVIOUS
    <3>1. x \in D /\ b[x] \in V
      BY <1>0
    <3>2. CASE x \notin T
      <4>1. <<x, F[h[x]]>> \in D \X V
        BY <2>2, <3>1, <3>2
      <4> QED BY <1>0, <4>1, <3>2
    <3> QED BY <3>1, <3>2
  <2>4. \A y \in Dom(n) : E[y] = F[y] /\ y \in Dom(n + 1)
    BY <1>0, <2>1
  <2>5. \A x \in Dom(n + 1) : E[x] = IF x \in T THEN b[x] ELSE c[<<x, E[h[x]]>>]
    BY <1>0, <2>2, <2>4
  <2> HIDE DEF E, Dom
  <2>6. Sol(E, n + 1)
    BY <2>3, <2>5
  <2> HIDE DEF Sol
  <2> QED BY <2>3, <2>6
<1> HIDE DEF Sol
<1>4. Nat \subseteq S
  <2> HIDE DEF S
  <2> QED BY <1>2, <1>3, SetInduction
<1>5. \A n \in Nat : Sol(G(n), n)
  BY <1>4
<1> HIDE DEF G, S
<1> DEFINE H == [x \in D |-> G(mu[x])[x]]
<1>6. ASSUME NEW x \in D
      PROVE  H[x] \in V /\ H[x] = IF x \in T THEN b[x] ELSE c[<<x, H[h[x]]>>]
  <2>1. Sol(G(mu[x]), mu[x]) /\ x \in Dom(mu[x]) /\ mu[x] \in Nat
    BY <1>0, <1>5
  <2>2. H[x] = G(mu[x])[x]
    OBVIOUS
  <2> HIDE DEF H
  <2>3. H[x] \in V /\ H[x] = IF x \in T THEN b[x] ELSE c[<<x, G(mu[x])[h[x]]>>]
    BY <2>1, <2>2 DEF Sol
  <2>4. CASE x \notin T
    <3>1. h[x] \in D /\ mu[h[x]] < mu[x] /\ mu[h[x]] \in Nat /\ h[x] \in Dom(mu[h[x]])
      BY <1>0, <2>4
    <3>2. Sol(G(mu[h[x]]), mu[h[x]])
      BY <3>1, <1>5
    <3>3. mu[h[x]] <= mu[x]
      BY <2>1, <3>1
    <3>4. G(mu[h[x]])[h[x]] = G(mu[x])[h[x]]
      BY <1>1, <2>1, <3>1, <3>2, <3>3
    <3>5. H[h[x]] = G(mu[h[x]])[h[x]]
      BY <3>1 DEF H
    <3> QED BY <2>3, <3>4, <3>5
  <2> QED BY <2>3, <2>4
<1>7. H \in [D -> V]
  BY <1>6
<1>8. IsRecursive(H, D, V, T, h, b, c)
  BY <1>6, <1>7 DEF IsRecursive
<1> QED BY <1>8

\* The elements of a sequence.
LEMMA ElementOfSeq ==
    ASSUME NEW S, NEW s \in Seq(S), NEW i \in 1..Len(s)
    PROVE  s[i] \in S
OBVIOUS

\* F is v at 0, and c combines each later number with the value before it.
IsCounted(F, D, V, v, c) ==
    /\ F \in [D -> V]
    /\ \A k \in D : F[k] = IF k = 0 THEN v ELSE c[<<k, F[k - 1]>>]

\* Recursion over the numbers up to a bound, as a loop with a counter makes it.
LEMMA CountingRecursion ==
    ASSUME NEW last \in Nat, NEW D, D = 0..last, NEW V, NEW v \in V,
           NEW c \in [D \X V -> V]
    PROVE  \E F : IsCounted(F, D, V, v, c)
<1> DEFINE T == {0}
           mu == [k \in D |-> k]
           h == [k \in D |-> IF k = 0 THEN 0 ELSE k - 1]
           b == [k \in D |-> v]
<1>1. mu \in [D -> Nat] /\ h \in [D -> D] /\ b \in [D -> V] /\ c \in [D \X V -> V]
  OBVIOUS
<1>2. \A k \in D \ T : mu[h[k]] < mu[k]
  OBVIOUS
<1>3. IsDecreasing(D, V, T, mu, h, b, c)
  BY <1>1, <1>2 DEF IsDecreasing
<1>4. PICK F : IsRecursive(F, D, V, T, h, b, c)
  <2> HIDE DEF T, mu, h, b
  <2> QED BY <1>3, RecursionExists
<1>5. F \in [D -> V] /\ \A k \in D : F[k] = IF k \in T THEN b[k] ELSE c[<<k, F[h[k]]>>]
  BY <1>4 DEF IsRecursive
<1>6. ASSUME NEW k \in D PROVE F[k] = IF k = 0 THEN v ELSE c[<<k, F[k - 1]>>]
  <2>1. (k \in T <=> k = 0) /\ b[k] = v /\ (k # 0 => h[k] = k - 1)
    OBVIOUS
  <2> HIDE DEF T, b, h
  <2> QED BY <1>5, <2>1
<1> QED BY <1>5, <1>6 DEF IsCounted

\* Queued holds the requests of H, each once, in their order.
LEMMA QueuedFacts ==
    ASSUME NEW last \in Nat, NEW H, H \subseteq 1..last
    PROVE  /\ Queued(last, H) \in Seq(H)
           /\ \A i, k \in 1..Len(Queued(last, H)) :
                 i < k => Queued(last, H)[i] < Queued(last, H)[k]
           /\ \A c \in H : \E i \in 1..Len(Queued(last, H)) : Queued(last, H)[i] = c
<1> DEFINE V == Seq(H)
           Body(F) == [c \in 0..last |-> IF c = 0 THEN <<>>
                          ELSE IF c \in H THEN Append(F[c - 1], c) ELSE F[c - 1]]
           step == [x \in (0..last) \X V |-> IF x[1] \in H THEN Append(x[2], x[1]) ELSE x[2]]
           e == <<>>
           D == 0..last
<1>1. step \in [D \X V -> V] /\ e \in V /\ D = 0..last
  OBVIOUS
<1>2. PICK F \in [0..last -> V] :
             \A k \in 0..last : F[k] = IF k = 0 THEN e ELSE step[<<k, F[k - 1]>>]
  <2> HIDE DEF V, step, e, D
  <2>1. PICK F : IsCounted(F, D, V, e, step)
    BY <1>1, CountingRecursion
  <2> QED BY <2>1 DEF D, IsCounted
<1>3. ASSUME NEW k \in 0..last, k # 0
      PROVE  F[k] = IF k \in H THEN Append(F[k - 1], k) ELSE F[k - 1]
  <2>1. k - 1 \in 0..last /\ F[k - 1] \in V
    BY <1>2, <1>3
  <2>2. step[<<k, F[k - 1]>>] = IF k \in H THEN Append(F[k - 1], k) ELSE F[k - 1]
    BY <2>1
  <2> QED BY <1>2, <1>3, <2>2
<1>4. F = Body(F)
  <2>1. F = [c \in 0..last |-> F[c]]
    BY <1>2
  <2>2. \A c \in 0..last : F[c] = IF c = 0 THEN <<>>
                          ELSE IF c \in H THEN Append(F[c - 1], c) ELSE F[c - 1]
    BY <1>2, <1>3
  <2> QED BY <2>1, <2>2
<1> DEFINE q == CHOOSE G : G = Body(G)
<1>5. Queued(last, H) = q[last]
  BY DEF Queued
<1>6. q = Body(q)
  <2> HIDE DEF Body
  <2> QED BY <1>4
<1>7. /\ q[0] = <<>>
      /\ \A k \in 1..last : q[k] = IF k \in H THEN Append(q[k - 1], k) ELSE q[k - 1]
  <2> HIDE DEF q
  <2>1. \A k \in 0..last : q[k] = Body(q)[k]
    <3> HIDE DEF Body
    <3> QED BY <1>6
  <2>2. \A k \in 0..last : Body(q)[k] = IF k = 0 THEN <<>>
                          ELSE IF k \in H THEN Append(q[k - 1], k) ELSE q[k - 1]
    OBVIOUS
  <2>3. \A k \in 0..last : q[k] = IF k = 0 THEN <<>>
                          ELSE IF k \in H THEN Append(q[k - 1], k) ELSE q[k - 1]
    <3> HIDE DEF Body
    <3> QED BY <2>1, <2>2
  <2> HIDE DEF Body
  <2> QED BY <2>3
<1> HIDE DEF q
<1> DEFINE Good(s, n) == /\ s \in Seq(H)
                         /\ \A i \in 1..Len(s) : s[i] <= n
                         /\ \A i, k \in 1..Len(s) : i < k => s[i] < s[k]
                         /\ \A c \in H : c <= n => \E i \in 1..Len(s) : s[i] = c
           S == {n \in Nat : n <= last => Good(q[n], n)}
<1>8. 0 \in S
  <2>1. Good(<<>>, 0)
    OBVIOUS
  <2> HIDE DEF Good
  <2> QED BY <1>7, <2>1
<1>9. ASSUME NEW n \in Nat, n \in S PROVE n + 1 \in S
  <2>1. SUFFICES ASSUME n + 1 <= last PROVE Good(q[n + 1], n + 1)
    BY SMTT(40)
  <2>2. PICK s : s = q[n]
    OBVIOUS
  <2>3. Good(s, n)
    BY <1>9, <2>1, <2>2
  <2>4. q[n + 1] = IF n + 1 \in H THEN Append(s, n + 1) ELSE s
    BY <1>7, <2>1, <2>2
  <2>5. \A i \in 1..Len(s) : s[i] \in Nat
    <3>1. \A i \in 1..Len(s) : s[i] \in H
      BY <2>3
    <3> QED BY <3>1
  <2>6. CASE n + 1 \notin H
    <3>1. \A c \in H : c <= n + 1 => c <= n
      BY <2>6
    <3> QED BY <2>3, <2>4, <2>5, <2>6, <3>1
  <2>7. CASE n + 1 \in H
    <3>1. PICK t : t = Append(s, n + 1)
      OBVIOUS
    <3>2. /\ t \in Seq(H) /\ Len(t) = Len(s) + 1 /\ t[Len(s) + 1] = n + 1
          /\ \A i \in 1..Len(s) : t[i] = s[i]
          /\ Len(s) \in Nat
      BY <2>3, <2>7, <3>1
    <3>3. \A i \in 1..Len(t) : i \in 1..Len(s) \/ i = Len(s) + 1
      BY <3>2
    <3>4. \A i \in 1..Len(s) : t[i] \in Nat /\ t[i] <= n
      BY <2>3, <2>5, <3>2
    <3>5. \A i, k \in 1..Len(s) : i < k => t[i] < t[k]
      BY <2>3, <3>2
    <3>6. \A i \in 1..Len(t) : t[i] <= n + 1
      <4>1. ASSUME NEW i \in 1..Len(t), i = Len(s) + 1 PROVE t[i] <= n + 1
        BY <3>2, <4>1
      <4>2. ASSUME NEW i \in 1..Len(s) PROVE t[i] <= n + 1
        BY <3>4
      <4> QED BY <3>3, <4>1, <4>2
    <3>7. \A i, k \in 1..Len(t) : i < k => t[i] < t[k]
      <4>1. ASSUME NEW i \in 1..Len(t), NEW k \in 1..Len(t), i < k PROVE t[i] < t[k]
        <5>1. i \in 1..Len(s)
          BY <3>2, <4>1
        <5>2. CASE k \in 1..Len(s)
          BY <3>5, <4>1, <5>1, <5>2
        <5>3. CASE k = Len(s) + 1
          <6>1. t[k] = n + 1
            BY <3>2, <5>3
          <6> QED BY <3>4, <5>1, <6>1
        <5> QED BY <3>3, <5>2, <5>3
      <4> QED BY <4>1
    <3>8. ASSUME NEW c \in H, c <= n + 1 PROVE \E i \in 1..Len(t) : t[i] = c
      <4>1. Len(s) + 1 \in 1..Len(t) /\ \A i \in 1..Len(s) : i \in 1..Len(t)
        BY <3>2
      <4>2. CASE c = n + 1
        BY <3>2, <4>1, <4>2
      <4>3. CASE c # n + 1
        <5>1. c <= n
          BY <3>8, <4>3
        <5>2. PICK i \in 1..Len(s) : s[i] = c
          BY <2>3, <5>1
        <5> QED BY <3>2, <4>1, <5>2
      <4> QED BY <4>2, <4>3
    <3> QED BY <2>4, <2>7, <3>1, <3>2, <3>6, <3>7, <3>8
  <2> QED BY <2>6, <2>7
<1>10. Nat \subseteq S
  <2> HIDE DEF S
  <2> QED BY <1>8, <1>9, SetInduction
<1>11. Good(q[last], last)
  BY <1>10
<1>12. \A c \in H : c <= last
  OBVIOUS
<1> QED BY <1>5, <1>11, <1>12
=============================================================================
