------------------------- MODULE StripeUpdateProofs -------------------------
(***************************************************************************)
(* Machine-checked facts about StripeUpdate, for every number of data and  *)
(* parity nodes, every block size, every set of update vectors and every   *)
(* number of stripes.  After what get_upd_solu_crd computes, three parts,  *)
(* each with its inductive invariant:                                      *)
(*   I    types, the acks and the barrier between stripes (IInv)           *)
(*   II   the data messages (FlowInv)                                      *)
(*   III  the contents of the blocks under CRD (CrdFlow)                   *)
(***************************************************************************)
EXTENDS StripeUpdate, DataInduction, FiniteSetTheorems, TLAPS

-----------------------------------------------------------------------------
(***************************************************************************)
(* What UPCoordinator::get_upd_solu_crd computes, for every vector of      *)
(* updated ranges: its two nested loops, modelled as recursive functions,  *)
(* terminate and group every block into exactly one sub-set.               *)
(***************************************************************************)

Vecs  == Seq(UpdBlock)
Pairs == Vecs \X Vecs

\* The blocks of D that meet the hull of N.
Hits(x) == {i \in DOMAIN x[2] : is_intersected(x[2][i], x[1])}

\* One iteration of the inner loop.
Moved(x) == <<Append(x[1], x[2][Min(Hits(x))]), RemoveAt(x[2], Min(Hits(x)))>>

\* Min of a non-empty set of naturals.
LEMMA MinOK ==
    ASSUME NEW S, S \subseteq Nat, S # {}
    PROVE  Min(S) \in S /\ \A y \in S : Min(S) <= y
<1>1. \E x \in S : \A y \in S : x <= y
  BY LeastNat
<1> QED BY <1>1 DEF Min

\* The vector without its i-th element (upd_blks.erase).
LEMMA RemoveAtOK ==
    ASSUME NEW S, NEW s \in Seq(S), NEW i \in 1 .. Len(s)
    PROVE  /\ RemoveAt(s, i) \in Seq(S) /\ Len(RemoveAt(s, i)) = Len(s) - 1
           /\ \A k \in 1 .. (Len(s) - 1) :
                RemoveAt(s, i)[k] = IF k < i THEN s[k] ELSE s[k + 1]
<1> DEFINE a == SubSeq(s, 1, i - 1)
           b == SubSeq(s, i + 1, Len(s))
<1>1. a \in Seq(S) /\ Len(a) = i - 1 /\ \A k \in 1 .. (i - 1) : a[k] = s[k]
  OBVIOUS
<1>2. b \in Seq(S) /\ Len(b) = Len(s) - i /\ \A k \in 1 .. (Len(s) - i) : b[k] = s[i + k]
  OBVIOUS
<1> HIDE DEF a, b
<1>3. /\ a \o b \in Seq(S) /\ Len(a \o b) = Len(a) + Len(b)
      /\ \A k \in 1 .. (Len(a) + Len(b)) :
           (a \o b)[k] = IF k <= Len(a) THEN a[k] ELSE b[k - Len(a)]
  BY <1>1, <1>2, ConcatFacts
<1> DEFINE c == a \o b
<1>4. c = RemoveAt(s, i)
  BY DEF RemoveAt, a, b
<1> HIDE DEF c
<1>5. ASSUME NEW k \in 1 .. (Len(s) - 1)
      PROVE  c[k] = IF k < i THEN s[k] ELSE s[k + 1]
  <2>1. k \in 1 .. (Len(a) + Len(b)) /\ Len(s) \in Nat
    BY <1>1, <1>2
  <2>2. CASE k < i
    <3>1. k \in 1 .. (i - 1) /\ k <= Len(a)
      BY <2>1, <2>2, <1>1
    <3> QED BY <3>1, <2>1, <2>2, <1>1, <1>3 DEF c
  <2>3. CASE ~(k < i)
    <3>1. ~(k <= Len(a)) /\ k - Len(a) \in 1 .. (Len(s) - i) /\ i + (k - Len(a)) = k + 1
      BY <2>1, <2>3, <1>1
    <3> QED BY <3>1, <2>1, <2>3, <1>2, <1>3 DEF c
  <2> QED BY <2>2, <2>3
<1> QED BY <1>1, <1>2, <1>3, <1>4, <1>5 DEF c

\* An iteration of the inner loop moves one block from D to N.
LEMMA MovedOK ==
    ASSUME NEW x \in Pairs, Hits(x) # {}
    PROVE  /\ Min(Hits(x)) \in 1 .. Len(x[2])
           /\ Moved(x) \in Pairs
           /\ Len(Moved(x)[1]) = Len(x[1]) + 1
           /\ \A k \in 1 .. (Len(x[1]) + 1) :
                Moved(x)[1][k] = IF k <= Len(x[1]) THEN x[1][k] ELSE x[2][Min(Hits(x))]
           /\ Len(Moved(x)[2]) = Len(x[2]) - 1
           /\ \A k \in 1 .. (Len(x[2]) - 1) :
                Moved(x)[2][k] = IF k < Min(Hits(x)) THEN x[2][k] ELSE x[2][k + 1]
<1> DEFINE N == x[1]
           D == x[2]
           m == Min(Hits(x))
<1>1. N \in Vecs /\ D \in Vecs /\ Len(N) \in Nat /\ Len(D) \in Nat
  BY DEF Pairs, Vecs
<1>2. Hits(x) \subseteq 1 .. Len(D)
  BY <1>1 DEF Hits, Vecs
<1>3. m \in 1 .. Len(D)
  <2>1. Hits(x) \subseteq Nat
    BY <1>1, <1>2
  <2> QED BY <2>1, <1>2, MinOK
<1> HIDE DEF m, N, D
<1>4. D[m] \in UpdBlock
  BY <1>1, <1>3 DEF Vecs
<1>5. /\ Append(N, D[m]) \in Vecs /\ Len(Append(N, D[m])) = Len(N) + 1
      /\ \A k \in 1 .. (Len(N) + 1) : Append(N, D[m])[k] = IF k <= Len(N) THEN N[k] ELSE D[m]
  BY <1>1, <1>4 DEF Vecs
<1>6. /\ RemoveAt(D, m) \in Vecs /\ Len(RemoveAt(D, m)) = Len(D) - 1
      /\ \A k \in 1 .. (Len(D) - 1) : RemoveAt(D, m)[k] = IF k < m THEN D[k] ELSE D[k + 1]
  BY <1>1, <1>3, RemoveAtOK DEF Vecs
<1> DEFINE NN == Append(N, D[m])
           DD == RemoveAt(D, m)
<1>7. Moved(x) = <<NN, DD>>
  BY DEF Moved, N, D, m
<1>8. Moved(x)[1] = NN /\ Moved(x)[2] = DD /\ Moved(x) \in Pairs
  <2>1. NN \in Vecs /\ DD \in Vecs
    BY <1>5, <1>6
  <2> HIDE DEF NN, DD
  <2> QED BY <2>1, <1>7 DEF Pairs
<1> QED BY <1>3, <1>5, <1>6, <1>8 DEF N, D, m

\* The inner loop ends, so that Absorb is what its definition says.
LEMMA AbsorbDef ==
    /\ Absorb \in [Pairs -> Pairs]
    /\ \A x \in Pairs : Absorb[x] = IF Hits(x) = {} THEN x ELSE Absorb[Moved(x)]
<1> DEFINE T  == {x \in Pairs : Hits(x) = {}}
           mu == [x \in Pairs |-> Len(x[2])]
           h  == [x \in Pairs |-> IF x \in T THEN x ELSE Moved(x)]
           b  == [x \in Pairs |-> x]
           c  == [xy \in Pairs \X Pairs |-> xy[2]]
           Body(F) == [x \in Pairs |-> IF Hits(x) = {} THEN x ELSE F[Moved(x)]]
<1>1. mu \in [Pairs -> Nat] /\ b \in [Pairs -> Pairs] /\ c \in [Pairs \X Pairs -> Pairs]
  BY DEF Pairs, Vecs
<1>2. h \in [Pairs -> Pairs]
  BY MovedOK
<1>3. \A x \in Pairs \ T : mu[h[x]] < mu[x]
  <2> SUFFICES ASSUME NEW x \in Pairs \ T PROVE mu[h[x]] < mu[x]
    OBVIOUS
  <2>1. h[x] = Moved(x) /\ Moved(x) \in Pairs /\ Len(Moved(x)[2]) = Len(x[2]) - 1
    BY MovedOK
  <2>2. Len(x[2]) \in Nat
    BY DEF Pairs, Vecs
  <2> QED BY <2>1, <2>2
<1>4. IsDecreasing(Pairs, Pairs, T, mu, h, b, c)
  BY <1>1, <1>2, <1>3 DEF IsDecreasing
<1>5. PICK F : IsRecursive(F, Pairs, Pairs, T, h, b, c)
  <2> HIDE DEF T, mu, h, b, c
  <2> QED BY <1>4, RecursionExists
<1>6. F \in [Pairs -> Pairs] /\ \A x \in Pairs : F[x] = IF Hits(x) = {} THEN x ELSE F[Moved(x)]
  BY <1>2, <1>5 DEF IsRecursive
<1>7. F = Body(F)
  BY <1>6
<1>8. Absorb = CHOOSE G : G = Body(G)
  BY DEF Absorb, Hits, Moved, Pairs, Vecs
<1>9. Absorb = Body(Absorb)
  <2> HIDE DEF Body
  <2> QED BY <1>7, <1>8
<1>10. \A x \in Pairs : Absorb[x] = IF Hits(x) = {} THEN x ELSE Absorb[Moved(x)]
  BY <1>9
<1> DEFINE S == {x \in Pairs : Absorb[x] \in Pairs}
<1>11. ASSUME NEW x \in Pairs, \A y \in Pairs : mu[y] < mu[x] => y \in S
       PROVE  x \in S
  <2>1. CASE Hits(x) = {}
    BY <2>1, <1>10
  <2>2. CASE Hits(x) # {}
    <3>1. Moved(x) \in Pairs /\ mu[Moved(x)] < mu[x]
      BY <2>2, <1>2, <1>3
    <3> QED BY <2>2, <3>1, <1>10, <1>11
  <2> QED BY <2>1, <2>2
<1>12. Pairs \subseteq S
  <2> HIDE DEF mu, S
  <2> QED BY <1>1, <1>11, MeasureInduction
<1>13. Absorb = [x \in Pairs |-> Absorb[x]]
  BY <1>9
<1> QED BY <1>10, <1>12, <1>13
-----------------------------------------------------------------------------
(* The inner loop. *)

Elems(s) == {s[i] : i \in 1 .. Len(s)}

\* No block occurs twice.
Apart(s) == \A a, b \in 1 .. Len(s) : s[a].id = s[b].id => a = b
ApartPair(x) ==
    /\ Apart(x[1]) /\ Apart(x[2])
    /\ \A a \in 1 .. Len(x[1]), b \in 1 .. Len(x[2]) : x[1][a].id # x[2][b].id

\* What an iteration of the inner loop, and the loop as a whole, keep: y comes
\* from x by moving blocks from the list to the end of the sub-set.
Keeps(x, y) ==
    /\ Len(y[1]) + Len(y[2]) = Len(x[1]) + Len(x[2]) /\ Len(x[1]) <= Len(y[1])
    /\ \A k \in 1 .. Len(x[1]) : y[1][k] = x[1][k]
    /\ Elems(y[1]) \cup Elems(y[2]) = Elems(x[1]) \cup Elems(x[2])
    /\ Elems(y[2]) \subseteq Elems(x[2])
    /\ ApartPair(x) => ApartPair(y)

\* One iteration.
LEMMA MovedKeeps ==
    ASSUME NEW x \in Pairs, Hits(x) # {}
    PROVE  Keeps(x, Moved(x))
<1> DEFINE N == x[1]
           D == x[2]
           m == Min(Hits(x))
           NN == Moved(x)[1]
           DD == Moved(x)[2]
<1>1. /\ N \in Vecs /\ D \in Vecs /\ Len(N) \in Nat /\ Len(D) \in Nat
      /\ NN \in Vecs /\ DD \in Vecs
  BY MovedOK DEF Pairs, Vecs
<1>2. /\ m \in 1 .. Len(D) /\ Len(NN) = Len(N) + 1 /\ Len(DD) = Len(D) - 1
      /\ \A k \in 1 .. (Len(N) + 1) : NN[k] = IF k <= Len(N) THEN N[k] ELSE D[m]
      /\ \A k \in 1 .. (Len(D) - 1) : DD[k] = IF k < m THEN D[k] ELSE D[k + 1]
  BY MovedOK
<1> HIDE DEF N, D, m, NN, DD
<1>3. \A k \in 1 .. Len(N) : k \in 1 .. (Len(N) + 1) /\ NN[k] = N[k]
  BY <1>1, <1>2
<1>4. Len(N) + 1 \in 1 .. (Len(N) + 1) /\ NN[Len(N) + 1] = D[m]
  BY <1>1, <1>2
<1>5. Elems(NN) = Elems(N) \cup {D[m]}
  <2>1. ASSUME NEW k \in 1 .. Len(NN) PROVE NN[k] \in Elems(N) \cup {D[m]}
    <3>1. k \in 1 .. Len(N) \/ k = Len(N) + 1
      BY <1>1, <1>2
    <3> QED BY <3>1, <1>3, <1>4 DEF Elems
  <2>2. \A k \in 1 .. Len(N) : N[k] \in Elems(NN)
    BY <1>2, <1>3 DEF Elems
  <2>3. D[m] \in Elems(NN)
    BY <1>2, <1>4 DEF Elems
  <2> QED BY <2>1, <2>2, <2>3 DEF Elems
<1> DEFINE g(k) == IF k < m THEN k ELSE k + 1
<1>6. \A k \in 1 .. Len(DD) : g(k) \in 1 .. Len(D) /\ g(k) # m /\ DD[k] = D[g(k)]
  BY <1>1, <1>2
<1>7. \A a, b \in 1 .. Len(DD) : g(a) = g(b) => a = b
  BY <1>1, <1>2
<1>8. ASSUME NEW k \in 1 .. Len(D), k # m PROVE \E a \in 1 .. Len(DD) : g(a) = k
  <2>1. CASE k < m
    BY <2>1, <1>1, <1>2
  <2>2. CASE k > m
    <3>1. k - 1 \in 1 .. Len(DD) /\ g(k - 1) = k
      BY <2>2, <1>1, <1>2
    <3> QED BY <3>1
  <2> QED BY <2>1, <2>2, <1>8, <1>2, <1>1
<1> HIDE DEF g
<1>9. Elems(D) = Elems(DD) \cup {D[m]}
  <2>1. \A k \in 1 .. Len(D) : D[k] \in Elems(DD) \cup {D[m]}
    BY <1>6, <1>8 DEF Elems
  <2>2. \A k \in 1 .. Len(DD) : DD[k] \in Elems(D)
    BY <1>6 DEF Elems
  <2> QED BY <2>1, <2>2, <1>2 DEF Elems
<1>10. ASSUME ApartPair(x) PROVE ApartPair(Moved(x))
  <2>0. /\ Apart(N) /\ Apart(D)
        /\ \A a \in 1 .. Len(N), b \in 1 .. Len(D) : N[a].id # D[b].id
    BY <1>10 DEF ApartPair, N, D
  <2>1. Apart(NN)
    <3> SUFFICES ASSUME NEW a \in 1 .. Len(NN), NEW b \in 1 .. Len(NN), NN[a].id = NN[b].id
                 PROVE  a = b
      BY DEF Apart
    <3>1. (a \in 1 .. Len(N) \/ a = Len(N) + 1) /\ (b \in 1 .. Len(N) \/ b = Len(N) + 1)
      BY <1>1, <1>2
    <3> QED BY <3>1, <2>0, <1>2, <1>3, <1>4 DEF Apart
  <2>2. Apart(DD)
    BY <2>0, <1>6, <1>7 DEF Apart
  <2>3. ASSUME NEW a \in 1 .. Len(NN), NEW b \in 1 .. Len(DD) PROVE NN[a].id # DD[b].id
    <3>1. a \in 1 .. Len(N) \/ a = Len(N) + 1
      BY <1>1, <1>2
    <3>2. DD[b] = D[g(b)] /\ g(b) \in 1 .. Len(D) /\ g(b) # m
      BY <1>6
    <3>3. CASE a \in 1 .. Len(N)
      BY <3>2, <3>3, <2>0, <1>3
    <3>4. CASE a = Len(N) + 1
      BY <3>2, <3>4, <2>0, <1>2, <1>4 DEF Apart
    <3> QED BY <3>1, <3>3, <3>4
  <2> QED BY <2>1, <2>2, <2>3 DEF ApartPair, NN, DD
<1>11. Len(NN) + Len(DD) = Len(N) + Len(D) /\ Len(N) <= Len(NN)
  BY <1>1, <1>2
<1> QED BY <1>3, <1>5, <1>9, <1>10, <1>11 DEF Keeps, N, D, NN, DD

\* Keeping is transitive.
LEMMA KeepsTrans ==
    ASSUME NEW x \in Pairs, NEW y \in Pairs, NEW z \in Pairs, Keeps(x, y), Keeps(y, z)
    PROVE  Keeps(x, z)
<1>1. /\ Len(x[1]) \in Nat /\ Len(x[2]) \in Nat /\ Len(y[1]) \in Nat /\ Len(y[2]) \in Nat
      /\ Len(z[1]) \in Nat /\ Len(z[2]) \in Nat
  BY DEF Pairs, Vecs
<1>0. /\ Len(y[1]) + Len(y[2]) = Len(x[1]) + Len(x[2]) /\ Len(x[1]) <= Len(y[1])
      /\ Len(z[1]) + Len(z[2]) = Len(y[1]) + Len(y[2]) /\ Len(y[1]) <= Len(z[1])
  BY DEF Keeps
<1>2. /\ Len(z[1]) + Len(z[2]) = Len(x[1]) + Len(x[2]) /\ Len(x[1]) <= Len(z[1])
      /\ \A k \in 1 .. Len(x[1]) : k \in 1 .. Len(y[1])
  <2> DEFINE a == Len(x[1])
             b == Len(y[1])
             c == Len(z[1])
             d == Len(x[2])
             e == Len(y[2])
             f == Len(z[2])
  <2>1. a \in Nat /\ b \in Nat /\ c \in Nat /\ d \in Nat /\ e \in Nat /\ f \in Nat
    BY <1>1
  <2>2. b + e = a + d /\ a <= b /\ c + f = b + e /\ b <= c
    BY <1>0
  <2> HIDE DEF a, b, c, d, e, f
  <2>3. c + f = a + d /\ a <= c /\ \A k \in 1 .. a : k \in 1 .. b
    BY <2>1, <2>2
  <2> QED BY <2>3 DEF a, b, c, d, f
<1> QED BY <1>2 DEF Keeps

\* The loop as a whole: it ends with a list of which no block meets the hull.
LEMMA AbsorbOK ==
    ASSUME NEW x \in Pairs
    PROVE  Absorb[x] \in Pairs /\ Keeps(x, Absorb[x]) /\ Hits(Absorb[x]) = {}
<1> DEFINE mu == [y \in Pairs |-> Len(y[2])]
           S  == {y \in Pairs : Keeps(y, Absorb[y]) /\ Hits(Absorb[y]) = {}}
<1>1. mu \in [Pairs -> Nat]
  BY DEF Pairs, Vecs
<1>2. ASSUME NEW y \in Pairs, \A z \in Pairs : mu[z] < mu[y] => z \in S
      PROVE  y \in S
  <2>1. CASE Hits(y) = {}
    <3>1. Absorb[y] = y
      BY <2>1, AbsorbDef
    <3>2. Len(y[1]) \in Nat /\ Len(y[2]) \in Nat
      BY DEF Pairs, Vecs
    <3>3. Keeps(y, y)
      BY <3>2 DEF Keeps
    <3> QED BY <2>1, <3>1, <3>3
  <2>2. CASE Hits(y) # {}
    <3>1. Absorb[y] = Absorb[Moved(y)] /\ Absorb[y] \in Pairs
      BY <2>2, AbsorbDef
    <3>2. Moved(y) \in Pairs /\ Len(Moved(y)[2]) = Len(y[2]) - 1 /\ Len(y[2]) \in Nat
      BY <2>2, MovedOK DEF Pairs, Vecs
    <3>3. Moved(y) \in S
      <4>1. mu[Moved(y)] < mu[y]
        BY <3>2
      <4> HIDE DEF mu, S
      <4> QED BY <4>1, <1>2, <3>2
    <3>4. Keeps(y, Moved(y))
      BY <2>2, MovedKeeps
    <3> QED BY <3>1, <3>2, <3>3, <3>4, KeepsTrans
  <2> QED BY <2>1, <2>2
<1>3. Pairs \subseteq S
  <2> HIDE DEF mu, S
  <2> QED BY <1>1, <1>2, MeasureInduction
<1> QED BY <1>3, AbsorbDef
-----------------------------------------------------------------------------
(* The outer loop. *)

Opened(D) == << <<Head(D)>>, Tail(D) >>
Closed(D) == Absorb[Opened(D)]

\* The sub-set that is opened with the first block takes at least that block
\* from the list.
LEMMA ClosedOK ==
    ASSUME NEW D \in Vecs, D # <<>>
    PROVE  /\ Opened(D) \in Pairs /\ Closed(D) \in Pairs
           /\ Closed(D)[1] \in Vecs /\ Closed(D)[2] \in Vecs
           /\ Len(Closed(D)[1]) >= 1 /\ Len(Closed(D)[2]) < Len(D)
           /\ Elems(Closed(D)[1]) \cup Elems(Closed(D)[2]) = Elems(D)
           /\ Apart(D) => ApartPair(Closed(D))
           /\ Hits(Closed(D)) = {}
<1> DEFINE h == Head(D)
           r == Tail(D)
           o == <<h>>
           y == Closed(D)
<1>1. /\ h \in UpdBlock /\ h = D[1] /\ r \in Vecs /\ Len(D) \in Nat /\ Len(D) > 0
      /\ Len(r) = Len(D) - 1 /\ \A k \in 1 .. (Len(D) - 1) : r[k] = D[k + 1]
  BY DEF Vecs
<1>2. o \in Vecs /\ Len(o) = 1 /\ o[1] = h
  BY <1>1 DEF Vecs
<1>3. Opened(D) = <<o, r>>
  BY DEF Opened
<1> HIDE DEF h, r, o
<1>4. Opened(D) \in Pairs /\ Opened(D)[1] = o /\ Opened(D)[2] = r
  BY <1>1, <1>2, <1>3 DEF Pairs
<1>5. y \in Pairs /\ Keeps(Opened(D), y) /\ Hits(y) = {}
  BY <1>4, AbsorbOK DEF Closed
<1> HIDE DEF y
<1>6. /\ y[1] \in Vecs /\ y[2] \in Vecs /\ Len(y[1]) \in Nat /\ Len(y[2]) \in Nat
  BY <1>5 DEF Pairs, Vecs
<1>7. Len(y[1]) + Len(y[2]) = Len(o) + Len(r) /\ Len(o) <= Len(y[1])
  BY <1>4, <1>5 DEF Keeps
<1>8. Len(y[1]) >= 1 /\ Len(y[2]) < Len(D)
  <2> DEFINE a == Len(y[1])
             b == Len(y[2])
             n == Len(D)
  <2>1. a \in Nat /\ b \in Nat /\ n \in Nat /\ a + b = 1 + (n - 1) /\ 1 <= a
    BY <1>1, <1>2, <1>6, <1>7
  <2> HIDE DEF a, b, n
  <2>2. a >= 1 /\ b < n
    BY <2>1
  <2> QED BY <2>2 DEF a, b, n
<1>9. Elems(o) \cup Elems(r) = Elems(D)
  <2>1. \A k \in 1 .. Len(r) : k + 1 \in 1 .. Len(D) /\ r[k] = D[k + 1]
    BY <1>1
  <2>2. 1 \in 1 .. Len(D) /\ 1 \in 1 .. Len(o) /\ o[1] = D[1]
    BY <1>1, <1>2
  <2>3. Elems(r) \subseteq Elems(D)
    BY <2>1 DEF Elems
  <2>4. Elems(o) = {D[1]}
    BY <1>1, <1>2 DEF Elems
  <2>5. D[1] \in Elems(D)
    BY <2>2 DEF Elems
  <2>6. ASSUME NEW k \in 1 .. Len(D) PROVE D[k] \in {D[1]} \cup Elems(r)
    <3>1. CASE k = 1
      BY <3>1
    <3>2. CASE k # 1
      <4>1. k - 1 \in 1 .. Len(r) /\ r[k - 1] = D[k]
        BY <3>2, <1>1
      <4> QED BY <4>1 DEF Elems
    <3> QED BY <3>1, <3>2
  <2>7. Elems(D) \subseteq {D[1]} \cup Elems(r)
    BY <2>6 DEF Elems
  <2> QED BY <2>3, <2>4, <2>5, <2>7
<1>10. Elems(y[1]) \cup Elems(y[2]) = Elems(o) \cup Elems(r)
  BY <1>4, <1>5 DEF Keeps
<1>11. ASSUME Apart(D) PROVE ApartPair(y)
  <2>1. Apart(o)
    BY <1>2 DEF Apart
  <2>2. Apart(r)
    <3> SUFFICES ASSUME NEW a \in 1 .. Len(r), NEW b \in 1 .. Len(r), r[a].id = r[b].id
                 PROVE  a = b
      BY DEF Apart
    <3>1. /\ a + 1 \in 1 .. Len(D) /\ b + 1 \in 1 .. Len(D)
          /\ r[a] = D[a + 1] /\ r[b] = D[b + 1]
      BY <1>1
    <3>2. a + 1 = b + 1
      BY <3>1, <1>11 DEF Apart
    <3> QED BY <3>2
  <2>3. \A a \in 1 .. Len(o), b \in 1 .. Len(r) : o[a].id # r[b].id
    <3> SUFFICES ASSUME NEW b \in 1 .. Len(r) PROVE o[1].id # r[b].id
      BY <1>2
    <3>1. b + 1 \in 1 .. Len(D) /\ r[b] = D[b + 1] /\ 1 \in 1 .. Len(D) /\ b + 1 # 1
      BY <1>1
    <3> QED BY <3>1, <1>1, <1>2, <1>11 DEF Apart
  <2>4. ApartPair(Opened(D))
    BY <2>1, <2>2, <2>3, <1>4 DEF ApartPair
  <2> QED BY <2>4, <1>5 DEF Keeps
<1> QED BY <1>4, <1>5, <1>6, <1>8, <1>9, <1>10, <1>11 DEF y

\* The outer loop ends too.
LEMMA PartitionDef ==
    /\ Partition[<<>>] = <<>>
    /\ \A D \in Vecs : D # <<>> => Partition[D] = <<Closed(D)[1]>> \o Partition[Closed(D)[2]]
<1> DEFINE V  == Seq(Vecs)
           T  == {<<>>}
           mu == [D \in Vecs |-> Len(D)]
           h  == [D \in Vecs |-> IF D \in T THEN D ELSE Closed(D)[2]]
           b  == [D \in Vecs |-> <<>>]
           c  == [DP \in Vecs \X V |-> IF DP[1] \in T THEN <<>> ELSE <<Closed(DP[1])[1]>> \o DP[2]]
           Body(F) == [D \in Vecs |-> IF D = <<>> THEN <<>>
                                      ELSE <<Closed(D)[1]>> \o F[Closed(D)[2]]]
<1>1. mu \in [Vecs -> Nat] /\ b \in [Vecs -> V]
  BY DEF Vecs
<1>2. h \in [Vecs -> Vecs]
  BY ClosedOK
<1>3. c \in [Vecs \X V -> V]
  <2> SUFFICES ASSUME NEW D \in Vecs, NEW P \in V, D \notin T
               PROVE  <<Closed(D)[1]>> \o P \in V
    OBVIOUS
  <2> DEFINE N == Closed(D)[1]
             o == <<N>>
  <2>1. N \in Vecs
    BY ClosedOK
  <2> HIDE DEF N
  <2>2. o \in Seq(Vecs)
    BY <2>1
  <2> HIDE DEF o
  <2>3. o \o P \in V
    BY <2>2, ConcatFacts
  <2> QED BY <2>3 DEF o, N
<1>4. \A D \in Vecs \ T : mu[h[D]] < mu[D]
  BY ClosedOK
<1>5. IsDecreasing(Vecs, V, T, mu, h, b, c)
  BY <1>1, <1>2, <1>3, <1>4 DEF IsDecreasing
<1>6. PICK F : IsRecursive(F, Vecs, V, T, h, b, c)
  <2> HIDE DEF V, T, mu, h, b, c
  <2> QED BY <1>5, RecursionExists
<1>7. /\ F \in [Vecs -> V]
      /\ \A D \in Vecs : F[D] = IF D = <<>> THEN <<>> ELSE <<Closed(D)[1]>> \o F[Closed(D)[2]]
  <2>1. F \in [Vecs -> V] /\ \A D \in Vecs : F[D] = IF D \in T THEN b[D] ELSE c[<<D, F[h[D]]>>]
    BY <1>6 DEF IsRecursive
  <2>2. ASSUME NEW D \in Vecs
        PROVE  F[D] = IF D = <<>> THEN <<>> ELSE <<Closed(D)[1]>> \o F[Closed(D)[2]]
    <3>1. CASE D = <<>>
      BY <2>1, <3>1
    <3>2. CASE D # <<>>
      <4>1. h[D] = Closed(D)[2] /\ h[D] \in Vecs /\ D \notin T
        BY <3>2, <1>2
      <4>2. F[h[D]] \in V
        BY <4>1, <2>1
      <4>3. <<D, F[h[D]]>> \in Vecs \X V
        BY <4>2
      <4>4. c[<<D, F[h[D]]>>] = <<Closed(D)[1]>> \o F[h[D]]
        BY <4>1, <4>3
      <4> HIDE DEF h, T, c
      <4> QED BY <3>2, <4>1, <4>4, <2>1
    <3> QED BY <3>1, <3>2
  <2> QED BY <2>1, <2>2
<1>8. F = Body(F)
  BY <1>7
<1>9. Partition = CHOOSE G : G = Body(G)
  BY DEF Partition, Closed, Opened, Vecs
<1>10. Partition = Body(Partition)
  <2> HIDE DEF Body
  <2> QED BY <1>8, <1>9
<1>11. <<>> \in Vecs
  BY DEF Vecs
<1> QED BY <1>10, <1>11

\* P groups the blocks of D: every block is in a sub-set, no sub-set is empty,
\* no block is in two of them when none occurs twice in D, and no block of a
\* later sub-set meets the hull of an earlier one.
Grouping(D, P) ==
    /\ P \in Seq(Vecs)
    /\ D # <<>> => Len(P) > 0
    /\ \A s \in 1 .. Len(P) : P[s] # <<>> /\ Elems(P[s]) \subseteq Elems(D)
    /\ \A e \in Elems(D) : \E s \in 1 .. Len(P) : e \in Elems(P[s])
    /\ Apart(D) => \A s \in 1 .. Len(P) : Apart(P[s])
    /\ Apart(D) => \A s, t \in 1 .. Len(P) :
          s < t => \A a \in Elems(P[s]), b \in Elems(P[t]) : a.id # b.id
    /\ \A s, t \in 1 .. Len(P) : s < t => \A b \in Elems(P[t]) : ~is_intersected(b, P[s])

\* One iteration of the outer loop: the closed sub-set in front of a grouping
\* of the blocks that are left.
LEMMA GroupingStep ==
    ASSUME NEW D \in Vecs, D # <<>>, NEW Q, Grouping(Closed(D)[2], Q)
    PROVE  Grouping(D, <<Closed(D)[1]>> \o Q)
<1> DEFINE N == Closed(D)[1]
           R == Closed(D)[2]
           o == <<N>>
           P == o \o Q
<1>1. /\ N \in Vecs /\ R \in Vecs /\ Len(N) >= 1 /\ Elems(N) \cup Elems(R) = Elems(D)
      /\ Apart(D) => Apart(N) /\ Apart(R)
      /\ Apart(D) => \A a \in Elems(N), b \in Elems(R) : a.id # b.id
      /\ \A b \in Elems(R) : ~is_intersected(b, N)
  <2>1. /\ N \in Vecs /\ R \in Vecs /\ Len(N) >= 1 /\ Elems(N) \cup Elems(R) = Elems(D)
        /\ (Apart(D) => ApartPair(Closed(D))) /\ Hits(Closed(D)) = {}
    BY ClosedOK
  <2>2. \A i \in DOMAIN R : ~is_intersected(R[i], N)
    BY <2>1 DEF Hits
  <2>3. DOMAIN R = 1 .. Len(R)
    BY <2>1 DEF Vecs
  <2> QED BY <2>1, <2>2, <2>3 DEF ApartPair, Elems
<1> HIDE DEF N, R
<1>2. o \in Seq(Vecs) /\ Len(o) = 1 /\ o[1] = N /\ N # <<>>
  BY <1>1 DEF Vecs
<1> HIDE DEF o
<1>3. Grouping(R, Q)
  BY DEF R
<1>4. Q \in Seq(Vecs) /\ Len(Q) \in Nat
  BY <1>3 DEF Grouping
<1>5. /\ P \in Seq(Vecs) /\ Len(P) = 1 + Len(Q)
      /\ \A i \in 1 .. (1 + Len(Q)) : P[i] = IF i <= 1 THEN o[i] ELSE Q[i - 1]
  <2>1. /\ P \in Seq(Vecs) /\ Len(P) = Len(o) + Len(Q)
        /\ \A i \in 1 .. (Len(o) + Len(Q)) :
             P[i] = IF i <= Len(o) THEN o[i] ELSE Q[i - Len(o)]
    BY <1>2, <1>4, ConcatFacts
  <2> HIDE DEF P
  <2> QED BY <2>1, <1>2
<1> HIDE DEF P
<1>6. 1 \in 1 .. Len(P) /\ P[1] = N
  BY <1>2, <1>4, <1>5
<1>7. \A i \in 1 .. Len(P) : i # 1 => i - 1 \in 1 .. Len(Q) /\ P[i] = Q[i - 1]
  BY <1>4, <1>5
<1>8. \A i \in 1 .. Len(Q) : i + 1 \in 1 .. Len(P) /\ P[i + 1] = Q[i]
  BY <1>4, <1>5
<1>9. \A s \in 1 .. Len(P) : P[s] # <<>> /\ Elems(P[s]) \subseteq Elems(D)
  BY <1>1, <1>2, <1>3, <1>6, <1>7 DEF Grouping
<1>10. \A e \in Elems(D) : \E s \in 1 .. Len(P) : e \in Elems(P[s])
  <2> SUFFICES ASSUME NEW e \in Elems(D) PROVE \E s \in 1 .. Len(P) : e \in Elems(P[s])
    OBVIOUS
  <2>1. CASE e \in Elems(N)
    BY <2>1, <1>6
  <2>2. CASE e \in Elems(R)
    <3>1. PICK s \in 1 .. Len(Q) : e \in Elems(Q[s])
      BY <2>2, <1>3 DEF Grouping
    <3> QED BY <3>1, <1>8
  <2> QED BY <2>1, <2>2, <1>1
<1>11. ASSUME Apart(D) PROVE \A s \in 1 .. Len(P) : Apart(P[s])
  BY <1>11, <1>1, <1>3, <1>6, <1>7 DEF Grouping
<1>12. ASSUME Apart(D), NEW s \in 1 .. Len(P), NEW t \in 1 .. Len(P), s < t,
              NEW a \in Elems(P[s]), NEW b \in Elems(P[t])
       PROVE  a.id # b.id
  <2>1. t # 1 /\ t - 1 \in 1 .. Len(Q) /\ P[t] = Q[t - 1]
    BY <1>5, <1>7, <1>12
  <2>2. CASE s = 1
    <3>1. b \in Elems(R)
      BY <2>1, <1>3, <1>12 DEF Grouping
    <3> QED BY <3>1, <2>2, <1>1, <1>6, <1>12
  <2>3. CASE s # 1
    <3>1. s - 1 \in 1 .. Len(Q) /\ P[s] = Q[s - 1] /\ s - 1 < t - 1
      BY <2>1, <2>3, <1>5, <1>7, <1>12
    <3>2. Apart(R)
      BY <1>1, <1>12
    <3> QED BY <2>1, <3>1, <3>2, <1>3, <1>12 DEF Grouping
  <2> QED BY <2>2, <2>3
<1>13. ASSUME NEW s \in 1 .. Len(P), NEW t \in 1 .. Len(P), s < t, NEW b \in Elems(P[t])
       PROVE  ~is_intersected(b, P[s])
  <2>1. t # 1 /\ t - 1 \in 1 .. Len(Q) /\ P[t] = Q[t - 1]
    BY <1>5, <1>7, <1>13
  <2>2. CASE s = 1
    <3>1. b \in Elems(R)
      BY <2>1, <1>3, <1>13 DEF Grouping
    <3> QED BY <3>1, <2>2, <1>1, <1>6
  <2>3. CASE s # 1
    <3>1. s - 1 \in 1 .. Len(Q) /\ P[s] = Q[s - 1] /\ s - 1 < t - 1
      BY <2>1, <2>3, <1>5, <1>7, <1>13
    <3> QED BY <2>1, <3>1, <1>3, <1>13 DEF Grouping
  <2> QED BY <2>2, <2>3
<1>14. Len(P) > 0
  BY <1>4, <1>5
<1>15. Grouping(D, P)
  BY <1>5, <1>9, <1>10, <1>11, <1>12, <1>13, <1>14 DEF Grouping
<1> QED BY <1>15 DEF P, o, N

\* UPCoordinator::get_upd_solu_crd, for a vector of any length: the loops end,
\* every updated block is put in a sub-set, in one only when no block is in the
\* vector twice, and the sub-sets are apart, so that no range of one meets the
\* hull of one that was closed before it.
THEOREM SolutionIsGrouping ==
    ASSUME NEW vec \in Vecs
    PROVE  Grouping(vec, get_upd_solu_crd(vec))
<1> DEFINE mu == [D \in Vecs |-> Len(D)]
           S  == {D \in Vecs : Grouping(D, Partition[D])}
<1>1. mu \in [Vecs -> Nat]
  BY DEF Vecs
<1>2. ASSUME NEW D \in Vecs, \A E \in Vecs : mu[E] < mu[D] => E \in S
      PROVE  D \in S
  <2>1. CASE D = <<>>
    <3> DEFINE none == <<>>
    <3>1. none \in Seq(Vecs) /\ Len(none) = 0 /\ Elems(none) = {}
      BY DEF Elems
    <3>2. Partition[D] = none /\ D = none
      BY <2>1, PartitionDef
    <3> HIDE DEF none
    <3>3. Grouping(none, none)
      BY <3>1, <3>2, <2>1 DEF Grouping
    <3> QED BY <3>2, <3>3
  <2>2. CASE D # <<>>
    <3>1. Closed(D)[2] \in Vecs /\ mu[Closed(D)[2]] < mu[D]
      BY <2>2, ClosedOK
    <3>2. Grouping(Closed(D)[2], Partition[Closed(D)[2]])
      <4> HIDE DEF mu
      <4> QED BY <3>1, <1>2
    <3>3. Grouping(D, Partition[D])
      BY <2>2, <3>2, PartitionDef, GroupingStep
    <3> QED BY <3>3
  <2> QED BY <2>1, <2>2
<1>3. Vecs \subseteq S
  <2> HIDE DEF mu, S
  <2> QED BY <1>1, <1>2, MeasureInduction
<1> QED BY <1>3 DEF get_upd_solu_crd

\* The exit of UPCoordinator::CrdUpdate for a block without a sub-set is never
\* taken: get_sub_set_id finds, for every block of the vector, a sub-set that
\* holds it.
THEOREM EveryBlockHasSubset ==
    ASSUME NEW vec \in Vecs, NEW i \in 1 .. Len(vec)
    PROVE  LET sol == get_upd_solu_crd(vec)
               id  == get_sub_set_id(sol, vec[i].id)
           IN  /\ id \in 0 .. (Len(sol) - 1)
               /\ \E k \in 1 .. Len(sol[id + 1]) : sol[id + 1][k].id = vec[i].id
<1> DEFINE P == get_upd_solu_crd(vec)
           blk == vec[i].id
           homes == {s \in DOMAIN P : \E k \in DOMAIN P[s] : P[s][k].id = blk}
           m == Min(homes)
<1>1. P \in Seq(Vecs) /\ \A e \in Elems(vec) : \E s \in 1 .. Len(P) : e \in Elems(P[s])
  BY SolutionIsGrouping DEF Grouping
<1> HIDE DEF P
<1>2. vec[i] \in Elems(vec)
  BY DEF Elems
<1>3. DOMAIN P = 1 .. Len(P) /\ Len(P) \in Nat
      /\ \A s \in 1 .. Len(P) : DOMAIN P[s] = 1 .. Len(P[s])
  BY <1>1 DEF Vecs
<1>4. homes # {} /\ homes \subseteq 1 .. Len(P)
  BY <1>1, <1>2, <1>3 DEF Elems
<1>5. m \in homes
  <2>1. homes \subseteq Nat
    BY <1>3, <1>4
  <2> HIDE DEF homes
  <2> QED BY <2>1, <1>4, MinOK
<1>6. get_sub_set_id(P, blk) = m - 1
  BY <1>4 DEF get_sub_set_id
<1>7. m \in 1 .. Len(P) /\ \E k \in 1 .. Len(P[m]) : P[m][k].id = blk
  BY <1>3, <1>5
<1> HIDE DEF m, blk, homes
<1>8. m - 1 \in 0 .. (Len(P) - 1) /\ (m - 1) + 1 = m
  BY <1>3, <1>7
<1> QED BY <1>6, <1>7, <1>8 DEF P, blk
-----------------------------------------------------------------------------
(* The ranges of the sub-sets. *)

\* A finite sequence of naturals is bounded.
LEMMA Bounded ==
    ASSUME NEW n \in Nat, NEW f \in [1 .. n -> Nat]
    PROVE  \E k \in Nat : \A i \in 1 .. n : f[i] <= k
<1> DEFINE S == {m \in Nat : m <= n => \E k \in Nat : \A i \in 1 .. m : f[i] <= k}
<1>1. 0 \in S
  <2>1. \A i \in 1 .. 0 : f[i] <= 0
    OBVIOUS
  <2> QED BY <2>1
<1>2. ASSUME NEW m \in Nat, m \in S PROVE m + 1 \in S
  <2> SUFFICES ASSUME m + 1 <= n PROVE \E k \in Nat : \A i \in 1 .. (m + 1) : f[i] <= k
    OBVIOUS
  <2>1. PICK k \in Nat : \A i \in 1 .. m : f[i] <= k
    BY <1>2
  <2>2. PICK a \in Nat : a = f[m + 1]
    OBVIOUS
  <2>3. PICK j \in Nat : k <= j /\ a <= j
    <3>1. k <= k + a /\ a <= k + a /\ k + a \in Nat
      OBVIOUS
    <3> QED BY <3>1
  <2>4. ASSUME NEW i \in 1 .. (m + 1) PROVE f[i] <= j
    <3>1. CASE i = m + 1
      BY <2>2, <2>3, <3>1
    <3>2. CASE i # m + 1
      <4>1. i \in 1 .. m /\ i \in 1 .. n
        BY <3>2
      <4>2. f[i] \in Nat /\ f[i] <= k
        BY <2>1, <4>1
      <4> QED BY <2>3, <4>2
    <3> QED BY <3>1, <3>2
  <2> QED BY <2>4
<1>3. Nat \subseteq S
  <2> HIDE DEF S
  <2> QED BY <1>1, <1>2, SetInduction
<1>4. n \in S
  <2> HIDE DEF S
  <2> QED BY <1>3
<1> QED BY <1>4

\* Max of a non-empty, bounded set of naturals.
LEMMA MaxOK ==
    ASSUME NEW S, S \subseteq Nat, S # {}, NEW k \in Nat, \A x \in S : x <= k
    PROVE  Max(S) \in S /\ \A x \in S : x <= Max(S)
<1> DEFINE T == {k - x : x \in S}
<1>1. T \subseteq Nat /\ T # {}
  <2>1. \A x \in S : k - x \in Nat
    OBVIOUS
  <2>2. PICK x \in S : TRUE
    OBVIOUS
  <2> QED BY <2>1, <2>2
<1>2. PICK t \in T : \A y \in T : t <= y
  <2> HIDE DEF T
  <2> QED BY <1>1, LeastNat
<1>3. PICK m \in S : t = k - m
  OBVIOUS
<1>4. \A x \in S : m >= x
  <2> SUFFICES ASSUME NEW x \in S PROVE m >= x
    OBVIOUS
  <2>1. k - x \in T
    OBVIOUS
  <2>2. k - m <= k - x /\ m \in Nat /\ x \in Nat
    BY <1>2, <1>3, <2>1
  <2> QED BY <2>2
<1>5. \E m0 \in S : \A x \in S : m0 >= x
  BY <1>4
<1> DEFINE a == Max(S)
<1>6. a \in S /\ \A x \in S : a >= x
  BY <1>5 DEF Max
<1> HIDE DEF a
<1>7. \A x \in S : x <= a
  BY <1>6
<1> QED BY <1>6, <1>7 DEF a

\* The greater of two numbers.
LEMMA MaxOfTwo ==
    ASSUME NEW a \in Int, NEW b \in Int
    PROVE  Max({a, b}) = IF a >= b THEN a ELSE b
<1> DEFINE m == IF a >= b THEN a ELSE b
<1>1. m \in {a, b} /\ \A x \in {a, b} : m >= x
  OBVIOUS
<1>2. ASSUME NEW y \in {a, b}, \A x \in {a, b} : y >= x PROVE y = m
  <2>1. y \in Int /\ y >= a /\ y >= b
    BY <1>2
  <2> QED BY <2>1, <1>2
<1> HIDE DEF m
<1>3. Max({a, b}) = m
  BY <1>1, <1>2 DEF Max
<1> QED BY <1>3 DEF m

\* The hull of a sub-set, as the closed interval from its least offset to its
\* greatest end.
LEMMA HullOK ==
    ASSUME NEW N \in Vecs, N # <<>>
    PROVE  /\ HullStart(N) \in Nat /\ HullEnd(N) \in Nat /\ HullStart(N) <= HullEnd(N)
           /\ \A e \in Elems(N) : HullStart(N) <= e.off /\ End(e) <= HullEnd(N)
           /\ \E e \in Elems(N) : e.off = HullStart(N)
           /\ \E e \in Elems(N) : End(e) = HullEnd(N)
<1> DEFINE L == Len(N)
           A == {N[i].off : i \in DOMAIN N}
           B == {End(N[i]) : i \in DOMAIN N}
           f == [i \in 1 .. L |-> End(N[i])]
<1>1. /\ L \in Nat /\ L > 0 /\ DOMAIN N = 1 .. L /\ \A i \in 1 .. L : N[i] \in UpdBlock
  BY DEF Vecs
<1>2. \A i \in 1 .. L : N[i].off \in Nat /\ End(N[i]) \in Nat /\ N[i].off <= End(N[i])
  BY <1>1 DEF UpdBlock, End
<1>3. 1 \in 1 .. L
  BY <1>1
<1> HIDE DEF L
<1>4. PICK k \in Nat : \A i \in 1 .. L : f[i] <= k
  <2>1. f \in [1 .. L -> Nat]
    BY <1>2
  <2> HIDE DEF f
  <2> QED BY <1>1, <2>1, Bounded
<1>5. A \subseteq Nat /\ A # {} /\ B \subseteq Nat /\ B # {}
  BY <1>1, <1>2, <1>3
<1>6. \A x \in {0} \cup B : x \in Nat /\ x <= k
  BY <1>1, <1>2, <1>4
<1> DEFINE C == {0} \cup B
           s == Min(A)
           m == Max(C)
<1>7. s \in A /\ \A x \in A : s <= x
  <2> HIDE DEF A
  <2> QED BY <1>5, MinOK
<1>8. m \in C /\ \A x \in C : x <= m
  <2>1. C \subseteq Nat /\ C # {} /\ \A x \in C : x <= k
    BY <1>6
  <2> HIDE DEF C
  <2> QED BY <2>1, MaxOK
<1>9. HullStart(N) = s /\ HullEnd(N) = m
  BY DEF HullStart, HullEnd
<1> HIDE DEF s, m
<1>10. s \in Nat /\ m \in Nat
  BY <1>5, <1>6, <1>7, <1>8
<1>11. \A e \in Elems(N) : s <= e.off /\ End(e) <= m
  <2> SUFFICES ASSUME NEW i \in 1 .. L PROVE s <= N[i].off /\ End(N[i]) <= m
    BY DEF Elems, L
  <2>1. N[i].off \in A /\ End(N[i]) \in C
    BY <1>1
  <2> QED BY <1>7, <1>8, <2>1
<1>12. \E e \in Elems(N) : e.off = s
  <2>1. PICK i \in 1 .. L : s = N[i].off
    BY <1>1, <1>7
  <2> QED BY <2>1 DEF Elems, L
<1>13. \E e \in Elems(N) : End(e) = m
  <2>1. CASE m \in B
    <3>1. PICK i \in 1 .. L : m = End(N[i])
      BY <1>1, <2>1
    <3> QED BY <3>1 DEF Elems, L
  <2>2. CASE m \notin B
    <3>1. m = 0 /\ End(N[1]) \in C
      BY <1>1, <1>3, <1>8, <2>2
    <3>2. End(N[1]) = 0
      <4>1. End(N[1]) <= 0 /\ End(N[1]) \in Nat
        BY <1>2, <1>3, <1>8, <3>1
      <4> QED BY <4>1
    <3> QED BY <1>3, <3>1, <3>2 DEF Elems, L
  <2> QED BY <2>1, <2>2
<1>14. s <= m
  <2>1. PICK i \in 1 .. L : s = N[i].off
    BY <1>1, <1>7
  <2>2. N[i].off <= End(N[i]) /\ N[i].off \in Nat /\ End(N[i]) \in Nat
    BY <1>2
  <2>3. End(N[i]) <= m
    <3>1. End(N[i]) \in C
      BY <1>1
    <3> QED BY <1>8, <3>1
  <2> HIDE DEF A, B, C
  <2> QED BY <1>10, <2>1, <2>2, <2>3
<1> QED BY <1>9, <1>10, <1>11, <1>12, <1>13, <1>14

\* The range of a task 8 command starts where its sub-set does and ends no
\* later: the coordinator's running end only falls behind.
LEMMA CoordinatorRangeOK ==
    ASSUME NEW N \in Vecs, N # <<>>
    PROVE  /\ CoordinatorRange(N).off = HullStart(N) /\ CoordinatorRange(N).size \in Int
           /\ CoordinatorRange(N).off + CoordinatorRange(N).size <= HullEnd(N)
<1> DEFINE L == Len(N)
           D == 0 .. L
           h == HullEnd(N)
           zero == 0
           step == [x \in D \X Int |-> IF x[1] = 0 THEN 0 ELSE Max({x[2], End(N[x[1]])}) - 1]
           Body(F) == [i \in D |-> IF i = 0 THEN 0 ELSE Max({F[i - 1], End(N[i])}) - 1]
<1>1. /\ L \in Nat /\ L > 0 /\ \A i \in 1 .. L : N[i] \in UpdBlock
  BY DEF Vecs
<1>2. h \in Nat /\ HullStart(N) \in Nat /\ \A i \in 1 .. L : End(N[i]) \in Nat /\ End(N[i]) <= h
  <2>1. \A e \in Elems(N) : End(e) <= h
    BY HullOK
  <2>2. \A i \in 1 .. L : End(N[i]) \in Nat
    BY <1>1 DEF UpdBlock, End
  <2>3. h \in Nat /\ HullStart(N) \in Nat
    BY HullOK
  <2> QED BY <2>1, <2>2, <2>3 DEF Elems
<1> HIDE DEF L, h
<1>3. \A i \in D : i # 0 => i \in 1 .. L /\ i - 1 \in D
  BY <1>1
<1>4. step \in [D \X Int -> Int]
  <2> SUFFICES ASSUME NEW i \in D, NEW a \in Int, i # 0 PROVE Max({a, End(N[i])}) - 1 \in Int
    OBVIOUS
  <2>1. End(N[i]) \in Int
    BY <1>2, <1>3
  <2>2. Max({a, End(N[i])}) \in Int
    BY <2>1, MaxOfTwo
  <2> QED BY <2>2
<1>5. PICK F \in [D -> Int] : \A i \in D : F[i] = IF i = 0 THEN zero ELSE step[<<i, F[i - 1]>>]
  <2>0. zero \in Int
    OBVIOUS
  <2> HIDE DEF step, zero
  <2>1. PICK F : IsCounted(F, D, Int, zero, step)
    <3>1. D = 0 .. L
      OBVIOUS
    <3> HIDE DEF D
    <3> QED BY <1>1, <1>4, <2>0, <3>1, CountingRecursion
  <2> QED BY <2>1 DEF IsCounted
<1>6. ASSUME NEW i \in D, i # 0 PROVE F[i] = Max({F[i - 1], End(N[i])}) - 1
  <2>1. step[<<i, F[i - 1]>>] = Max({F[i - 1], End(N[i])}) - 1
    BY <1>3, <1>5, <1>6
  <2> QED BY <1>5, <1>6, <2>1
<1>7. F = Body(F)
  <2>1. F = [i \in D |-> F[i]]
    BY <1>5
  <2>2. \A i \in D : F[i] = IF i = 0 THEN 0 ELSE Max({F[i - 1], End(N[i])}) - 1
    BY <1>5, <1>6
  <2> QED BY <2>1, <2>2
<1> DEFINE q == CHOOSE G : G = Body(G)
<1>8. CoordinatorRange(N) = [off |-> HullStart(N), size |-> q[L] - HullStart(N) + 1]
  BY DEF CoordinatorRange, L
<1>9. q = Body(q)
  <2> HIDE DEF Body
  <2> QED BY <1>7
<1>10. q[0] = 0 /\ \A i \in 1 .. L : q[i] = Max({q[i - 1], End(N[i])}) - 1
  <2> HIDE DEF q
  <2>1. \A i \in D : q[i] = IF i = 0 THEN 0 ELSE Max({q[i - 1], End(N[i])}) - 1
    BY <1>9
  <2>2. 0 \in D /\ \A i \in 1 .. L : i \in D /\ i # 0
    BY <1>1
  <2> HIDE DEF D
  <2> QED BY <2>1, <2>2
<1> HIDE DEF q
<1> DEFINE S == {i \in Nat : i <= L => q[i] \in Int /\ (q[i] <= h) /\ (i # 0 => q[i] <= h - 1)}
<1>11. 0 \in S
  BY <1>2, <1>10
<1>12. ASSUME NEW i \in Nat, i \in S PROVE i + 1 \in S
  <2> SUFFICES ASSUME i + 1 <= L PROVE q[i + 1] \in Int /\ q[i + 1] <= h - 1
    BY <1>2
  <2>1. i + 1 \in 1 .. L /\ (i + 1) - 1 = i
    OBVIOUS
  <2> DEFINE a == q[i]
             b == End(N[i + 1])
  <2>2. a \in Int /\ a <= h
    BY <1>1, <1>12
  <2>3. b \in Int /\ b <= h
    BY <1>2, <2>1
  <2>4. q[i + 1] = Max({a, b}) - 1
    BY <1>10, <2>1
  <2> HIDE DEF a, b
  <2>5. Max({a, b}) \in Int /\ Max({a, b}) <= h
    BY <2>2, <2>3, MaxOfTwo
  <2> QED BY <1>2, <2>4, <2>5
<1>13. L \in S
  <2>1. Nat \subseteq S
    <3> HIDE DEF S
    <3> QED BY <1>11, <1>12, SetInduction
  <2> HIDE DEF S
  <2> QED BY <1>1, <2>1
<1>14. q[L] \in Int /\ q[L] <= h - 1
  BY <1>1, <1>13
<1> DEFINE a == HullStart(N)
           b == q[L]
<1>15. a \in Nat /\ b \in Int /\ b <= h - 1
  BY <1>2, <1>14
<1> HIDE DEF a, b
<1>16. b - a + 1 \in Int /\ a + (b - a + 1) <= h
  BY <1>2, <1>15
<1> QED BY <1>8, <1>16 DEF a, b, h
-----------------------------------------------------------------------------
(* The hulls of the sub-sets do not meet. *)

HullsApart(M, N) == HullEnd(M) < HullStart(N) \/ HullEnd(N) < HullStart(M)

\* No block of D meets the hull of W.
Clear(D, W) == \A b \in Elems(D) : ~is_intersected(b, W)

\* A block that meets the hull of a sub-set, and not that of another one apart
\* from it, leaves them apart when it joins the sub-set.
LEMMA JoinApart ==
    ASSUME NEW W \in Vecs, W # <<>>, NEW N \in Vecs, N # <<>>, HullsApart(N, W),
           NEW M \in Vecs, M # <<>>, NEW d \in UpdBlock,
           \A e \in Elems(M) : e \in Elems(N) \/ e = d,
           is_intersected(d, N), ~is_intersected(d, W)
    PROVE  HullsApart(M, W)
<1> DEFINE ns == HullStart(N)
           ne == HullEnd(N)
           ws == HullStart(W)
           we == HullEnd(W)
           ms == HullStart(M)
           me == HullEnd(M)
<1>1. /\ ns \in Nat /\ ne \in Nat /\ ns <= ne /\ ws \in Nat /\ we \in Nat /\ ws <= we
      /\ ms \in Nat /\ me \in Nat
      /\ \A e \in Elems(N) : ns <= e.off /\ End(e) <= ne
  BY HullOK
<1>2. PICK a \in Elems(M) : a.off = ms
  BY HullOK
<1>3. PICK b \in Elems(M) : End(b) = me
  BY HullOK
<1>4. d.off \in Nat /\ End(d) \in Nat
  BY DEF UpdBlock, End
<1>5. /\ ~(End(d) < ns) /\ ~(ne < d.off)
      /\ End(d) < ws \/ we < d.off
  BY DEF is_intersected
<1>6. ne < ws \/ we < ns
  BY DEF HullsApart
<1>7. a = d \/ (ns <= a.off)
  BY <1>1
<1>8. b = d \/ (End(b) <= ne)
  BY <1>1
<1> DEFINE o == d.off
           x == End(d)
<1>9. (ms = o \/ ns <= ms) /\ (me = x \/ me <= ne) /\ o \in Nat /\ x \in Nat
      /\ ~(x < ns) /\ ~(ne < o) /\ (x < ws \/ we < o)
  BY <1>2, <1>3, <1>4, <1>5, <1>7, <1>8
<1> HIDE DEF ns, ne, ws, we, ms, me, o, x
<1>10. me < ws \/ we < ms
  BY <1>1, <1>6, <1>9
<1> QED BY <1>10 DEF HullsApart, ms, me, ws, we

\* The inner loop keeps the sub-set it builds apart from an earlier one.
LEMMA AbsorbApart ==
    ASSUME NEW W \in Vecs, W # <<>>, NEW x \in Pairs, x[1] # <<>>, HullsApart(x[1], W),
           Clear(x[2], W)
    PROVE  HullsApart(Absorb[x][1], W)
<1> DEFINE mu == [y \in Pairs |-> Len(y[2])]
           Ready(y) == y[1] # <<>> /\ HullsApart(y[1], W) /\ Clear(y[2], W)
           S  == {y \in Pairs : Ready(y) => HullsApart(Absorb[y][1], W)}
<1>1. mu \in [Pairs -> Nat]
  BY DEF Pairs, Vecs
<1>2. ASSUME NEW y \in Pairs, \A z \in Pairs : mu[z] < mu[y] => z \in S
      PROVE  y \in S
  <2> SUFFICES ASSUME Ready(y) PROVE HullsApart(Absorb[y][1], W)
    OBVIOUS
  <2>1. CASE Hits(y) = {}
    <3>1. Absorb[y] = y
      BY <2>1, AbsorbDef
    <3> QED BY <3>1
  <2>2. CASE Hits(y) # {}
    <3> DEFINE z == Moved(y)
               m == Min(Hits(y))
               N == y[1]
               D == y[2]
               d == D[m]
    <3>1. Absorb[y] = Absorb[z] /\ z \in Pairs
      BY <2>2, AbsorbDef, MovedOK
    <3>2. mu[z] < mu[y]
      <4>1. Len(z[2]) = Len(y[2]) - 1
        BY <2>2, MovedOK
      <4>2. Len(y[2]) \in Nat
        BY DEF Pairs, Vecs
      <4> QED BY <3>1, <4>1, <4>2
    <3>3. /\ m \in 1 .. Len(D) /\ N \in Vecs /\ D \in Vecs /\ Len(N) \in Nat /\ Len(D) \in Nat
          /\ z[1] \in Vecs /\ z[2] \in Vecs /\ Len(z[1]) = Len(N) + 1
          /\ \A k \in 1 .. (Len(N) + 1) : z[1][k] = IF k <= Len(N) THEN N[k] ELSE d
      BY <2>2, <3>1, MovedOK DEF Pairs, Vecs
    <3>4. d \in UpdBlock /\ d \in Elems(D)
      BY <3>3 DEF Vecs, Elems
    <3>5. is_intersected(d, N)
      <4>1. Hits(y) \subseteq Nat
        BY <3>3 DEF Hits, Vecs
      <4>2. m \in Hits(y)
        BY <2>2, <4>1, MinOK
      <4> QED BY <4>2 DEF Hits
    <3>6. ~is_intersected(d, W)
      BY <3>4 DEF Clear
    <3>7. z[1] # <<>>
      <4>1. Len(z[1]) # 0
        BY <3>3
      <4> QED BY <4>1
    <3> DEFINE M == z[1]
    <3> HIDE DEF d, m
    <3>8. \A e \in Elems(M) : e \in Elems(N) \/ e = d
      <4> SUFFICES ASSUME NEW k \in 1 .. Len(M) PROVE M[k] \in Elems(N) \/ M[k] = d
        BY DEF Elems
      <4>1. k \in 1 .. (Len(N) + 1)
        BY <3>3
      <4>2. CASE k <= Len(N)
        <5>1. k \in 1 .. Len(N) /\ M[k] = N[k]
          BY <3>3, <4>1, <4>2
        <5> QED BY <5>1 DEF Elems
      <4>3. CASE ~(k <= Len(N))
        BY <3>3, <4>1, <4>3
      <4> QED BY <4>2, <4>3
    <3>9. HullsApart(M, W)
      <4> HIDE DEF M, N, z, D
      <4>1. N \in Vecs /\ N # <<>> /\ HullsApart(N, W) /\ M \in Vecs /\ M # <<>>
        BY <3>3, <3>7 DEF N, M
      <4> QED BY <3>4, <3>5, <3>6, <3>8, <4>1, JoinApart
    <3>10. Clear(z[2], W)
      <4>1. Elems(z[2]) \subseteq Elems(D)
        BY <2>2, MovedKeeps DEF Keeps
      <4> QED BY <4>1 DEF Clear
    <3>11. z \in S
      <4> HIDE DEF mu, S
      <4> QED BY <1>2, <3>1, <3>2
    <3>12. Ready(z)
      BY <3>7, <3>9, <3>10
    <3> QED BY <3>1, <3>11, <3>12
  <2> QED BY <2>1, <2>2
<1>3. Pairs \subseteq S
  <2> HIDE DEF mu, S
  <2> QED BY <1>1, <1>2, MeasureInduction
<1>4. x \in S
  <2> HIDE DEF S
  <2> QED BY <1>3
<1> QED BY <1>4

\* So does the sub-set opened with the first block of a list that is clear of
\* the earlier one.
LEMMA ClosedApart ==
    ASSUME NEW W \in Vecs, W # <<>>, NEW D \in Vecs, D # <<>>, Clear(D, W)
    PROVE  HullsApart(Closed(D)[1], W)
<1> DEFINE h == D[1]
           o == <<h>>
           r == Tail(D)
<1>1. h \in UpdBlock /\ Len(D) \in Nat /\ Len(D) > 0 /\ 1 \in 1 .. Len(D) /\ h = Head(D)
      /\ r \in Vecs /\ Len(r) = Len(D) - 1 /\ \A k \in 1 .. (Len(D) - 1) : r[k] = D[k + 1]
  BY DEF Vecs
<1>2. o \in Vecs /\ Len(o) = 1 /\ o[1] = h /\ o # <<>> /\ Opened(D) = <<o, r>>
  BY <1>1 DEF Vecs, Opened
<1>3. Elems(o) = {h} /\ h \in Elems(D)
  BY <1>1, <1>2 DEF Elems
<1>4. Elems(r) \subseteq Elems(D)
  <2>1. \A k \in 1 .. Len(r) : k + 1 \in 1 .. Len(D) /\ r[k] = D[k + 1]
    BY <1>1
  <2> QED BY <2>1 DEF Elems
<1> HIDE DEF h, r, o
<1>5. HullsApart(o, W)
  <2>1. HullStart(o) = h.off /\ HullEnd(o) = End(h)
    BY <1>2, <1>3, HullOK
  <2>2. End(h) < HullStart(W) \/ HullEnd(W) < h.off
    BY <1>3 DEF Clear, is_intersected
  <2> QED BY <2>1, <2>2 DEF HullsApart
<1>6. Clear(r, W)
  BY <1>4 DEF Clear
<1> DEFINE y == Opened(D)
<1>7. y \in Pairs /\ y[1] = o /\ y[2] = r
  BY <1>1, <1>2 DEF Pairs
<1> HIDE DEF y
<1>8. HullsApart(Absorb[y][1], W)
  BY <1>2, <1>5, <1>6, <1>7, AbsorbApart
<1> QED BY <1>8 DEF Closed, y

\* The sub-sets of UPCoordinator::get_upd_solu_crd are apart: between the range of
\* one, from its first to its last updated unit, and the range of any other there
\* is at least one unit.  So a parity block XORs every unit of the stripe's
\* sub-sets in once, however many sub-sets the update falls into.
THEOREM HullsDisjoint ==
    ASSUME NEW vec \in Vecs
    PROVE  \A s, t \in 1 .. Len(get_upd_solu_crd(vec)) :
               s # t => HullsApart(get_upd_solu_crd(vec)[s], get_upd_solu_crd(vec)[t])
<1> DEFINE mu == [D \in Vecs |-> Len(D)]
           None == <<>>
           Far(D) == \A W \in Vecs \ {None} : Clear(D, W) =>
                        \A t \in 1 .. Len(Partition[D]) : HullsApart(Partition[D][t], W)
           Each(D) == \A s, t \in 1 .. Len(Partition[D]) :
                        s < t => HullsApart(Partition[D][t], Partition[D][s])
           S  == {D \in Vecs : Far(D) /\ Each(D)}
<1>1. mu \in [Vecs -> Nat]
  BY DEF Vecs
<1>2. ASSUME NEW D \in Vecs, \A E \in Vecs : mu[E] < mu[D] => E \in S
      PROVE  D \in S
  <2>1. CASE D = <<>>
    <3>1. Len(Partition[D]) = 0
      BY <2>1, PartitionDef
    <3>2. 1 .. Len(Partition[D]) = {}
      BY <3>1
    <3> QED BY <3>2
  <2>2. CASE D # <<>>
    <3> DEFINE N == Closed(D)[1]
               R == Closed(D)[2]
               P == Partition[D]
               Q == Partition[R]
               o == <<N>>
    <3>1. /\ N \in Vecs /\ R \in Vecs /\ Len(N) >= 1 /\ mu[R] < mu[D]
          /\ Elems(N) \cup Elems(R) = Elems(D) /\ Hits(Closed(D)) = {}
      BY <2>2, ClosedOK
    <3>2. R \in S
      <4> HIDE DEF mu, S, R
      <4> QED BY <1>2, <3>1
    <3>3. Far(R) /\ Each(R)
      BY <3>2
    <3>4. Clear(R, N)
      <4>1. \A i \in DOMAIN R : ~is_intersected(R[i], N)
        BY <3>1 DEF Hits
      <4>2. DOMAIN R = 1 .. Len(R)
        BY <3>1 DEF Vecs
      <4> QED BY <4>1, <4>2 DEF Clear, Elems
    <3>5. N # None
      <4>1. Len(N) # 0
        <5>1. Len(N) \in Nat
          BY <3>1 DEF Vecs
        <5> QED BY <3>1, <5>1
      <4> QED BY <4>1
    <3>6. P = o \o Q
      BY <2>2, PartitionDef
    <3>7. Q \in Seq(Vecs) /\ Len(Q) \in Nat /\ o \in Seq(Vecs) /\ Len(o) = 1 /\ o[1] = N
      <4>1. Grouping(R, get_upd_solu_crd(R))
        BY <3>1, SolutionIsGrouping
      <4>2. Q \in Seq(Vecs)
        BY <4>1 DEF Grouping, get_upd_solu_crd
      <4> HIDE DEF Q, N
      <4> QED BY <3>1, <4>2
    <3> HIDE DEF N, R, P, Q, o
    <3>8. Len(P) = 1 + Len(Q)
          /\ \A i \in 1 .. Len(P) : P[i] = IF i = 1 THEN N ELSE Q[i - 1]
      <4>1. /\ Len(P) = Len(o) + Len(Q)
            /\ \A i \in 1 .. (Len(o) + Len(Q)) :
                 P[i] = IF i <= Len(o) THEN o[i] ELSE Q[i - Len(o)]
        BY <3>6, <3>7, ConcatFacts
      <4>2. ASSUME NEW i \in 1 .. (1 + Len(Q)) PROVE P[i] = IF i = 1 THEN N ELSE Q[i - 1]
        <5>1. i <= 1 <=> i = 1
          BY <3>7
        <5> QED BY <3>7, <4>1, <5>1
      <4> QED BY <3>7, <4>1, <4>2
    <3>9. \A i \in 1 .. Len(P) : i # 1 => i - 1 \in 1 .. Len(Q) /\ P[i] = Q[i - 1]
      BY <3>7, <3>8
    <3>10. \A t \in 1 .. Len(Q) : HullsApart(Q[t], N)
      BY <3>1, <3>3, <3>4, <3>5 DEF Q
    <3>11. ASSUME NEW W \in Vecs \ {None}, Clear(D, W), NEW t \in 1 .. Len(P)
           PROVE  HullsApart(P[t], W)
      <4>1. CASE t = 1
        <5>1. HullsApart(N, W)
          BY <2>2, <3>11, ClosedApart DEF N
        <5> QED BY <3>8, <4>1, <5>1
      <4>2. CASE t # 1
        <5>1. Clear(R, W)
          BY <3>1, <3>11 DEF Clear
        <5>2. \A k \in 1 .. Len(Q) : HullsApart(Q[k], W)
          BY <3>3, <5>1 DEF Q
        <5> QED BY <3>9, <4>2, <5>2
      <4> QED BY <4>1, <4>2
    <3>12. ASSUME NEW s \in 1 .. Len(P), NEW t \in 1 .. Len(P), s < t
           PROVE  HullsApart(P[t], P[s])
      <4>0. t # 1
        BY <3>7, <3>8, <3>12
      <4>1. CASE s = 1
        BY <3>8, <3>9, <3>10, <4>0, <4>1
      <4>2. CASE s # 1
        <5>1. s - 1 < t - 1
          BY <3>7, <3>8, <3>12
        <5>2. \A i, k \in 1 .. Len(Q) : i < k => HullsApart(Q[k], Q[i])
          BY <3>3 DEF Q
        <5> QED BY <3>9, <4>0, <4>2, <5>1, <5>2
      <4> QED BY <4>1, <4>2
    <3> QED BY <3>11, <3>12 DEF P
  <2> QED BY <2>1, <2>2
<1>3. Vecs \subseteq S
  <2> HIDE DEF mu, S
  <2> QED BY <1>1, <1>2, MeasureInduction
<1>4. Each(vec)
  BY <1>3
<1> DEFINE P == get_upd_solu_crd(vec)
<1>5. \A s, t \in 1 .. Len(P) : s < t => HullsApart(P[t], P[s])
  BY <1>4 DEF get_upd_solu_crd
<1> SUFFICES ASSUME NEW s \in 1 .. Len(P), NEW t \in 1 .. Len(P), s # t
             PROVE  HullsApart(P[s], P[t])
  OBVIOUS
<1>6. s < t \/ t < s
  <2>1. s \in Int /\ t \in Int
    OBVIOUS
  <2> QED BY <2>1
<1>7. CASE s < t
  BY <1>5, <1>7 DEF HullsApart
<1>8. CASE t < s
  BY <1>5, <1>8
<1> QED BY <1>6, <1>7, <1>8
-----------------------------------------------------------------------------
(* The collector's range of a sub-set is its hull. *)

\* A block of the vector is in the sub-set of its number, and in no other.
LEMMA SubsetOf ==
    ASSUME NEW vec \in Vecs, Apart(vec), NEW i \in 1 .. Len(vec)
    PROVE  /\ get_sub_set_id(get_upd_solu_crd(vec), vec[i].id) + 1
                 \in 1 .. Len(get_upd_solu_crd(vec))
           /\ \A s \in 1 .. Len(get_upd_solu_crd(vec)) :
                 vec[i] \in Elems(get_upd_solu_crd(vec)[s]) <=>
                    s = get_sub_set_id(get_upd_solu_crd(vec), vec[i].id) + 1
<1> DEFINE P == get_upd_solu_crd(vec)
           id == get_sub_set_id(P, vec[i].id)
           h == id + 1
<1>1. id \in 0 .. (Len(P) - 1) /\ \E k \in 1 .. Len(P[id + 1]) : P[id + 1][k].id = vec[i].id
  BY EveryBlockHasSubset
<1>2. Grouping(vec, P)
  BY SolutionIsGrouping
<1> HIDE DEF P
<1>3. /\ P \in Seq(Vecs) /\ Len(P) \in Nat
      /\ \A s \in 1 .. Len(P) : Elems(P[s]) \subseteq Elems(vec)
      /\ \A e \in Elems(vec) : \E s \in 1 .. Len(P) : e \in Elems(P[s])
      /\ \A s, t \in 1 .. Len(P) : s < t => \A a \in Elems(P[s]), b \in Elems(P[t]) : a.id # b.id
  BY <1>2 DEF Grouping
<1> HIDE DEF id
<1>4. h \in 1 .. Len(P)
  BY <1>1, <1>3
<1>5. vec[i] \in Elems(vec)
  BY DEF Elems
<1>6. PICK e \in Elems(P[h]) : e.id = vec[i].id
  BY <1>1 DEF Elems
<1> HIDE DEF h
<1>7. e = vec[i]
  <2>0. e \in Elems(vec)
    BY <1>3, <1>4, <1>6
  <2>1. PICK k \in 1 .. Len(vec) : e = vec[k]
    BY <2>0 DEF Elems
  <2> QED BY <1>6, <2>1 DEF Apart
<1>8. ASSUME NEW s \in 1 .. Len(P), vec[i] \in Elems(P[s]) PROVE s = h
  <2>1. ~(s < h)
    BY <1>3, <1>4, <1>6, <1>8
  <2>2. ~(h < s)
    BY <1>3, <1>4, <1>6, <1>8
  <2>3. s \in Int /\ h \in Int
    BY <1>4
  <2> QED BY <2>1, <2>2, <2>3
<1>9. h \in 1 .. Len(P) /\ \A s \in 1 .. Len(P) : vec[i] \in Elems(P[s]) <=> s = h
  BY <1>4, <1>6, <1>7, <1>8
<1> QED BY <1>9 DEF h, id, P

\* recv_and_compute_in_parity_collector_for_crd cuts, for each sub-set, the hull
\* of its ranges out of the parity delta.
LEMMA CollectorRangeOK ==
    ASSUME NEW vec \in Vecs, Apart(vec), NEW s \in 1 .. Len(get_upd_solu_crd(vec)),
           NEW r, r = CollectorRange(vec,
                        [i \in DOMAIN vec |-> get_sub_set_id(get_upd_solu_crd(vec), vec[i].id)],
                        s - 1)
    PROVE  /\ r.off = HullStart(get_upd_solu_crd(vec)[s]) /\ r.size \in Int
           /\ r.off + r.size = HullEnd(get_upd_solu_crd(vec)[s])
<1> DEFINE P == get_upd_solu_crd(vec)
           N == P[s]
           id(i) == get_sub_set_id(P, vec[i].id)
           subs == [i \in DOMAIN vec |-> id(i)]
           L == Len(vec)
           mine == {i \in DOMAIN vec : subs[i] = s - 1}
           A == {vec[i].off : i \in mine}
           B == {End(vec[i]) - 1 : i \in mine}
<1>1. /\ L \in Nat /\ DOMAIN vec = 1 .. L /\ s \in Int
      /\ \A i \in 1 .. L : vec[i] \in UpdBlock
  BY DEF Vecs
<1>2. \A i \in 1 .. L : id(i) + 1 \in 1 .. Len(P) /\ (vec[i] \in Elems(N) <=> s = id(i) + 1)
  BY SubsetOf
<1>3. N \in Vecs /\ N # <<>> /\ Elems(N) \subseteq Elems(vec)
  <2>1. P \in Seq(Vecs) /\ N # <<>> /\ Elems(N) \subseteq Elems(vec)
    BY SolutionIsGrouping DEF Grouping
  <2> QED BY <2>1
<1>4. r = [off |-> Min(A), size |-> Max(B) - Min(A) + 1]
  BY DEF CollectorRange
<1> HIDE DEF P, N
<1>5. mine = {i \in 1 .. L : vec[i] \in Elems(N)}
  <2>1. \A i \in 1 .. L : id(i) \in Int
    <3>1. \A i \in 1 .. L : id(i) + 1 \in Int /\ id(i) \in 0 .. (Len(P) - 1)
      BY <1>2, EveryBlockHasSubset DEF P
    <3> QED BY <3>1
  <2> HIDE DEF id
  <2>2. \A i \in 1 .. L : (id(i) = s - 1) <=> (s = id(i) + 1)
    BY <1>1, <2>1
  <2> QED BY <1>1, <1>2, <2>2
<1> HIDE DEF id, subs, mine, L
<1> DEFINE hs == HullStart(N)
           he == HullEnd(N)
<1>6. \A e \in Elems(N) : \E i \in mine : vec[i] = e
  BY <1>3, <1>5 DEF Elems, L
<1>7. \A i \in mine : vec[i] \in Elems(N) /\ vec[i].off \in Nat /\ End(vec[i]) \in Nat
  <2>1. \A b \in UpdBlock : b.off \in Nat /\ End(b) \in Nat
    BY DEF UpdBlock, End
  <2> QED BY <1>1, <1>5, <2>1
<1>8. /\ hs \in Nat /\ he \in Nat /\ hs <= he
      /\ \A e \in Elems(N) : hs <= e.off /\ End(e) <= he
      /\ \E e \in Elems(N) : e.off = hs
      /\ \E e \in Elems(N) : End(e) = he
  BY <1>3, HullOK
<1> HIDE DEF hs, he
<1>9. hs \in A /\ \A x \in A : x \in Nat /\ hs <= x
  BY <1>6, <1>7, <1>8
<1>10. he - 1 \in B /\ \A x \in B : x \in Int /\ he - 1 >= x
  <2>1. he - 1 \in B
    BY <1>6, <1>8
  <2>2. ASSUME NEW i \in mine PROVE End(vec[i]) - 1 \in Int /\ he - 1 >= End(vec[i]) - 1
    <3>1. End(vec[i]) \in Nat /\ End(vec[i]) <= he
      BY <1>7, <1>8
    <3> QED BY <1>8, <3>1
  <2> QED BY <2>1, <2>2
<1> HIDE DEF A, B
<1>11. Min(A) = hs
  <2>1. ASSUME NEW x \in A, \A y \in A : x <= y PROVE x = hs
    BY <1>8, <1>9, <2>1
  <2>2. \A y \in A : hs <= y
    BY <1>9
  <2> QED BY <1>9, <2>1, <2>2 DEF Min
<1>12. Max(B) = he - 1
  <2> DEFINE k == he - 1
  <2>1. k \in B /\ k \in Int /\ \A y \in B : y \in Int /\ k >= y
    BY <1>8, <1>10
  <2> HIDE DEF k
  <2>2. ASSUME NEW x \in B, \A y \in B : x >= y PROVE x = k
    BY <2>1, <2>2
  <2>3. Max(B) = k
    BY <2>1, <2>2 DEF Max
  <2> QED BY <2>3 DEF k
<1>13. r.off = hs /\ r.size = (he - 1) - hs + 1
  BY <1>4, <1>11, <1>12
<1>14. hs + ((he - 1) - hs + 1) = he /\ (he - 1) - hs + 1 \in Int
  BY <1>8
<1> QED BY <1>13, <1>14 DEF hs, he, N, P
-----------------------------------------------------------------------------
(***************************************************************************)
(* Part I: types, acks and the barrier between stripes.                    *)
(***************************************************************************)

DataTasks   == {1, 2, 4, 6}
ParityTasks == {3, 5, 7, 8}

\* A job StartStripe can create.
JobOK(j) ==
    /\ j.policy \in {"raid", "delta", "crd", "crd_flip"}
    /\ j.vec \in Seq(Upd) /\ j.vec # <<>>
    /\ \A a, b \in DOMAIN j.vec : j.vec[a].id = j.vec[b].id => a = b
    /\ j.collector \in Collectors(j.policy, j.vec)

\* Data and parity nodes partition the nodes (the helpers of Config).
LEMMA NodeFacts ==
    /\ ParityNodes \subseteq Nodes /\ DataNodes \subseteq Nodes
    /\ Nodes = DataNodes \cup ParityNodes
    /\ DataNodes \cap ParityNodes = {}
    /\ 0 \in DataNodes /\ ecK \in ParityNodes
    /\ Nodes \subseteq Nat
BY ParamsAssumption DEF ParityNodes, DataNodes, Nodes

\* The mirrored vector of crd_flip is a vector of the same blocks.
LEMMA FlipVecOK ==
    ASSUME NEW v \in UpdVecs
    PROVE  /\ FlipVec(v, blocksize) \in Seq(Upd) /\ FlipVec(v, blocksize) # <<>>
           /\ \A a, b \in DOMAIN FlipVec(v, blocksize) :
                FlipVec(v, blocksize)[a].id = FlipVec(v, blocksize)[b].id => a = b
<1> DEFINE w == FlipVec(v, blocksize)
<1>1. /\ v \in Seq(Upd) /\ v # <<>>
      /\ \A i \in DOMAIN v : End(v[i]) <= blocksize
      /\ \A i, j \in DOMAIN v : v[i].id = v[j].id => i = j
  BY VecsAssumption
<1>3. ASSUME NEW i \in DOMAIN v
      PROVE  FlipRange(v[i], blocksize) \in Upd /\ FlipRange(v[i], blocksize).id = v[i].id
  <2>1. v[i] \in Upd /\ v[i].off + v[i].size <= blocksize
    BY <1>1 DEF End
  <2>2. blocksize - (v[i].off + v[i].size) \in Nat
    BY <2>1, ParamsAssumption DEF Upd
  <2> QED BY <2>1, <2>2 DEF FlipRange, End, Upd
<1>4. w \in Seq(Upd) /\ Len(w) = Len(v) /\ DOMAIN w = DOMAIN v
  BY <1>1, <1>3 DEF FlipVec
<1>5. \A i \in DOMAIN v : w[i].id = v[i].id
  BY <1>3 DEF FlipVec
<1> QED BY <1>1, <1>4, <1>5

\* Concatenation, with the element at each index.
LEMMA CatOK ==
    ASSUME NEW S, NEW s \in Seq(S), NEW t \in Seq(S)
    PROVE  /\ s \o t \in Seq(S)
           /\ Len(s \o t) = Len(s) + Len(t)
           /\ \A i \in 1 .. (Len(s) + Len(t)) :
                (s \o t)[i] = IF i <= Len(s) THEN s[i] ELSE t[i - Len(s)]
OBVIOUS

\* RPUSH at the end of a list keeps the type of its elements.
LEMMA AppendOK ==
    ASSUME NEW S, NEW s \in Seq(S), NEW e \in S
    PROVE  /\ Append(s, e) \in Seq(S) /\ Append(s, e) # <<>>
           /\ Len(Append(s, e)) = Len(s) + 1 /\ Len(s) \in Nat
           /\ \A i \in 1 .. (Len(s) + 1) :
                Append(s, e)[i] = IF i <= Len(s) THEN s[i] ELSE e
OBVIOUS

\* The ids of a vector, in its order, are data nodes without repetition.
LEMMA IdSeqOK ==
    ASSUME NEW v \in Seq(Upd)
    PROVE  /\ IdSeq(v) \in Seq(Nodes) /\ Len(IdSeq(v)) = Len(v)
           /\ \A i \in 1 .. Len(v) : IdSeq(v)[i] = v[i].id /\ v[i].id \in DataNodes
<1>1. \A i \in 1 .. Len(v) : v[i] \in Upd
  OBVIOUS
<1>2. \A i \in 1 .. Len(v) : v[i].id \in DataNodes /\ v[i].id \in Nodes
  BY <1>1, NodeFacts DEF Upd
<1> QED BY <1>2 DEF IdSeq

\* The loop over the parity blocks meets each parity node once.
LEMMA ParitySeqOK ==
    /\ ParitySeq \in Seq(Nodes) /\ Len(ParitySeq) = ecM
    /\ \A i \in 1 .. ecM : ParitySeq[i] = ecK + i - 1
<1>1. \A i \in 1 .. ecM : ecK + i - 1 \in Nodes
  BY ParamsAssumption DEF Nodes
<1> QED BY <1>1, ParamsAssumption DEF ParitySeq

\* Leaving one element out of a sequence without repetition keeps the
\* others, each once.
LEMMA ExceptOK ==
    ASSUME NEW S, NEW s \in Seq(S), NEW x \in 1 .. Len(s)
    PROVE  /\ Except(s, x) \in Seq(S) /\ Len(Except(s, x)) = Len(s) - 1
           /\ \A k \in 1 .. (Len(s) - 1) :
                Except(s, x)[k] = IF k < x THEN s[k] ELSE s[k + 1]
BY DEF Except

\* Every parity and every updated data block is the target of exactly one
\* command of a stripe, and nobody else is.
OneCommandEach(T, v) ==
    /\ T \in Seq(Nodes) /\ Len(T) > 0
    /\ \A a \in 1 .. Len(T) : T[a] \in ParityNodes \cup Ids(v)
    /\ \A a, b \in 1 .. Len(T) : T[a] = T[b] => a = b
    /\ \A p \in ParityNodes \cup Ids(v) : \E i \in 1 .. Len(T) : T[i] = p

\* RaidUpdate sends every parity exactly one command and data nodes the others.
LEMMA RaidTargetsOK ==
    ASSUME NEW v \in Seq(Upd), v # <<>>, NEW c \in Ids(v),
           \A a, b \in DOMAIN v : v[a].id = v[b].id => a = b
    PROVE  OneCommandEach(RaidTargets(v, c), v)
<1> DEFINE ids == IdSeq(v)
           n   == Len(v)
           x   == Index(ids, c)
           e   == Except(ids, x)
           f   == e \o <<c>>
           T   == f \o ParitySeq
<1>1. /\ ids \in Seq(Nodes) /\ Len(ids) = n /\ n \in Nat /\ n > 0
      /\ \A i \in 1 .. n : ids[i] \in DataNodes
      /\ \A a, b \in 1 .. n : ids[a] = ids[b] => a = b
  BY IdSeqOK
<1>2. \E i \in 1 .. n : ids[i] = c
  BY IdSeqOK DEF Ids
<1> HIDE DEF ids
<1>3. x \in 1 .. n /\ ids[x] = c
  BY <1>1, <1>2 DEF Index
<1> HIDE DEF x
<1>4. e \in Seq(Nodes) /\ Len(e) = n - 1
      /\ \A k \in 1 .. (n - 1) : e[k] = IF k < x THEN ids[k] ELSE ids[k + 1]
  BY <1>1, <1>3, ExceptOK
<1>5. c \in DataNodes /\ <<c>> \in Seq(Nodes) /\ Len(<<c>>) = 1 /\ <<c>>[1] = c
  BY <1>1, <1>3, NodeFacts
<1> HIDE DEF e, n
<1>6. f \in Seq(Nodes) /\ Len(f) = n
      /\ \A i \in 1 .. n : f[i] = IF i < n THEN e[i] ELSE c
  BY <1>1, <1>4, <1>5, CatOK
<1> HIDE DEF f
<1>7. T \in Seq(Nodes) /\ Len(T) = n + ecM
      /\ \A i \in 1 .. (n + ecM) : T[i] = IF i <= n THEN f[i] ELSE ecK + (i - n) - 1
  <2>1. T \in Seq(Nodes) /\ Len(T) = n + ecM
        /\ \A i \in 1 .. (n + ecM) : T[i] = IF i <= n THEN f[i] ELSE ParitySeq[i - n]
    <3>1. f \in Seq(Nodes) /\ ParitySeq \in Seq(Nodes)
      BY <1>6, ParitySeqOK
    <3>2. T \in Seq(Nodes) /\ Len(T) = Len(f) + Len(ParitySeq)
          /\ \A i \in 1 .. (Len(f) + Len(ParitySeq)) :
               T[i] = IF i <= Len(f) THEN f[i] ELSE ParitySeq[i - Len(f)]
      BY <3>1, CatOK
    <3> HIDE DEF T
    <3> QED BY <3>2, <1>6, ParitySeqOK
  <2> HIDE DEF T
  <2>2. \A i \in 1 .. (n + ecM) : i <= n \/ i - n \in 1 .. ecM
    BY <1>1, ParamsAssumption
  <2> QED BY <2>1, <2>2, ParitySeqOK
<1> HIDE DEF T
<1> DEFINE g(i) == IF i = n THEN x ELSE IF i < x THEN i ELSE i + 1
<1>a. \A i \in 1 .. n : g(i) \in 1 .. n
  BY <1>1, <1>3
<1>b. \A a, b \in 1 .. n : g(a) = g(b) => a = b
  BY <1>1, <1>3
<1>c. ASSUME NEW i \in 1 .. n PROVE f[i] = ids[g(i)]
  <2>1. CASE i = n
    BY <2>1, <1>1, <1>3, <1>6
  <2>2. CASE i < n
    <3>1. i \in 1 .. (n - 1)
      BY <2>2, <1>1
    <3>2. f[i] = e[i]
      BY <2>2, <1>6
    <3>3. e[i] = IF i < x THEN ids[i] ELSE ids[i + 1]
      BY <3>1, <1>4
    <3>4. i # n
      BY <2>2, <1>1
    <3> QED BY <3>2, <3>3, <3>4
  <2> QED BY <2>1, <2>2, <1>1
<1> HIDE DEF g
<1>8. \A a \in 1 .. n : f[a] \in 0 .. (ecK - 1)
  BY <1>1, <1>a, <1>c DEF DataNodes
<1>9. \A a, b \in 1 .. n : f[a] = f[b] => a = b
  BY <1>1, <1>a, <1>b, <1>c
<1>10. \A a, b \in 1 .. (n + ecM) : T[a] = T[b] => a = b
  BY SMTT(40), <1>1, <1>7, <1>8, <1>9, ParamsAssumption
<1>11. ASSUME NEW p \in ParityNodes PROVE \E i \in 1 .. (n + ecM) : T[i] = p
  <2>1. n + (p - ecK) + 1 \in 1 .. (n + ecM) /\ T[n + (p - ecK) + 1] = p
    BY <1>1, <1>7, ParamsAssumption DEF ParityNodes
  <2> QED BY <2>1
<1>12. n + ecM > 0
  BY <1>1, ParamsAssumption
<1>13. RaidTargets(v, c) = T
  BY DEF RaidTargets, T, f, e, x, ids
<1>14. \A i \in 1 .. (n + ecM) : T[i] \in ParityNodes \cup Ids(v)
  <2> SUFFICES ASSUME NEW i \in 1 .. (n + ecM) PROVE T[i] \in ParityNodes \cup Ids(v)
    OBVIOUS
  <2>1. CASE i <= n
    <3>1. i \in 1 .. n
      BY <2>1, <1>1
    <3>2. T[i] = ids[g(i)] /\ g(i) \in 1 .. n
      BY <3>1, <2>1, <1>7, <1>a, <1>c
    <3>3. \A k \in 1 .. n : ids[k] \in Ids(v)
      BY IdSeqOK DEF ids, n, Ids
    <3> QED BY <3>2, <3>3
  <2>2. CASE ~(i <= n)
    BY <2>2, <1>1, <1>7, ParamsAssumption DEF ParityNodes
  <2> QED BY <2>1, <2>2
<1>15. ASSUME NEW b \in Ids(v) PROVE \E i \in 1 .. (n + ecM) : T[i] = b
  <2>1. PICK k \in 1 .. n : ids[k] = b
    BY IdSeqOK DEF ids, n, Ids
  <2>2. \E a \in 1 .. n : g(a) = k
    <3>1. CASE k = x
      BY <3>1, <1>1 DEF g
    <3>2. CASE k < x
      BY <3>2, <1>1, <1>3 DEF g
    <3>3. CASE k > x
      <4>1. k - 1 \in 1 .. n /\ g(k - 1) = k
        BY <3>3, <1>1, <1>3 DEF g
      <4> QED BY <4>1
    <3> QED BY <3>1, <3>2, <3>3, <1>1, <1>3
  <2>3. PICK a \in 1 .. n : g(a) = k
    BY <2>2
  <2>4. a \in 1 .. (n + ecM) /\ T[a] = f[a]
    BY <1>1, <1>7, ParamsAssumption
  <2> QED BY <2>1, <2>3, <2>4, <1>c
<1> QED BY <1>7, <1>10, <1>11, <1>12, <1>13, <1>14, <1>15 DEF OneCommandEach

\* DeltaUpdate sends every parity exactly one command and data nodes the others.
LEMMA DeltaTargetsOK ==
    ASSUME NEW v \in Seq(Upd), v # <<>>,
           \A a, b \in DOMAIN v : v[a].id = v[b].id => a = b
    PROVE  OneCommandEach(DeltaTargets(v), v)
<1> DEFINE ids == IdSeq(v)
           n   == Len(v)
           T   == ParitySeq \o ids
<1>1. /\ ids \in Seq(Nodes) /\ Len(ids) = n /\ n \in Nat /\ n > 0
      /\ \A i \in 1 .. n : ids[i] \in 0 .. (ecK - 1)
      /\ \A a, b \in 1 .. n : ids[a] = ids[b] => a = b
  BY IdSeqOK DEF DataNodes
<1> HIDE DEF ids, n
<1>2. T \in Seq(Nodes) /\ Len(T) = n + ecM
      /\ \A i \in 1 .. (n + ecM) : T[i] = IF i <= ecM THEN ecK + i - 1 ELSE ids[i - ecM]
  <2>1. T \in Seq(Nodes) /\ Len(T) = ecM + n
        /\ \A i \in 1 .. (ecM + n) : T[i] = IF i <= ecM THEN ParitySeq[i] ELSE ids[i - ecM]
    <3>1. ids \in Seq(Nodes) /\ ParitySeq \in Seq(Nodes)
      BY <1>1, ParitySeqOK
    <3>2. T \in Seq(Nodes) /\ Len(T) = Len(ParitySeq) + Len(ids)
          /\ \A i \in 1 .. (Len(ParitySeq) + Len(ids)) :
               T[i] = IF i <= Len(ParitySeq) THEN ParitySeq[i] ELSE ids[i - Len(ParitySeq)]
      BY <3>1, CatOK
    <3> HIDE DEF T
    <3> QED BY <3>2, <1>1, ParitySeqOK
  <2> HIDE DEF T
  <2>2. ecM + n = n + ecM /\ \A i \in 1 .. (n + ecM) : i <= ecM => i \in 1 .. ecM
    BY <1>1, ParamsAssumption
  <2> QED BY <2>1, <2>2, ParitySeqOK
<1> HIDE DEF T
<1>3. \A a, b \in 1 .. (n + ecM) : T[a] = T[b] => a = b
  BY SMTT(40), <1>1, <1>2, ParamsAssumption
<1>4. ASSUME NEW p \in ParityNodes PROVE \E i \in 1 .. (n + ecM) : T[i] = p
  <2>1. (p - ecK) + 1 \in 1 .. (n + ecM) /\ T[(p - ecK) + 1] = p
    BY <1>1, <1>2, ParamsAssumption DEF ParityNodes
  <2> QED BY <2>1
<1>5. n + ecM > 0
  BY <1>1, ParamsAssumption
<1>6. DeltaTargets(v) = T
  BY DEF DeltaTargets, T, ids
<1>7. \A i \in 1 .. (n + ecM) : T[i] \in ParityNodes \cup Ids(v)
  <2> SUFFICES ASSUME NEW i \in 1 .. (n + ecM) PROVE T[i] \in ParityNodes \cup Ids(v)
    OBVIOUS
  <2>1. CASE i <= ecM
    BY <2>1, <1>1, <1>2, ParamsAssumption DEF ParityNodes
  <2>2. CASE ~(i <= ecM)
    <3>1. i - ecM \in 1 .. n /\ T[i] = ids[i - ecM]
      BY <2>2, <1>1, <1>2, ParamsAssumption
    <3>2. \A k \in 1 .. n : ids[k] \in Ids(v)
      BY IdSeqOK DEF ids, n, Ids
    <3> QED BY <3>1, <3>2
  <2> QED BY <2>1, <2>2
<1>8. ASSUME NEW b \in Ids(v) PROVE \E i \in 1 .. (n + ecM) : T[i] = b
  <2>1. PICK k \in 1 .. n : ids[k] = b
    BY IdSeqOK DEF ids, n, Ids
  <2>2. ecM + k \in 1 .. (n + ecM) /\ T[ecM + k] = ids[k]
    BY <1>1, <1>2, ParamsAssumption
  <2> QED BY <2>1, <2>2
<1> QED BY <1>2, <1>3, <1>4, <1>5, <1>6, <1>7, <1>8 DEF OneCommandEach

\* CrdUpdate sends every parity, the collector first, exactly one command.
LEMMA CrdTargetsOK ==
    ASSUME NEW v \in Seq(Upd), v # <<>>, NEW c \in ParityNodes,
           \A a, b \in DOMAIN v : v[a].id = v[b].id => a = b
    PROVE  OneCommandEach(CrdTargets(v, c), v)
<1> DEFINE ids == IdSeq(v)
           n   == Len(v)
           x   == Index(ParitySeq, c)
           e   == Except(ParitySeq, x)
           f   == ids \o <<c>>
           T   == f \o e
<1>1. /\ ids \in Seq(Nodes) /\ Len(ids) = n /\ n \in Nat /\ n > 0
      /\ \A i \in 1 .. n : ids[i] \in 0 .. (ecK - 1)
      /\ \A a, b \in 1 .. n : ids[a] = ids[b] => a = b
  BY IdSeqOK DEF DataNodes
<1>2. c - ecK + 1 \in 1 .. ecM /\ ParitySeq[c - ecK + 1] = c
  BY ParitySeqOK, ParamsAssumption DEF ParityNodes
<1>3. x \in 1 .. ecM /\ ParitySeq[x] = c
  BY <1>2, ParitySeqOK, ParamsAssumption DEF Index
<1> HIDE DEF x, ids, n
<1>4. x = c - ecK + 1
  BY <1>3, ParitySeqOK, ParamsAssumption DEF ParityNodes
<1>5. e \in Seq(Nodes) /\ Len(e) = ecM - 1
      /\ \A k \in 1 .. (ecM - 1) : e[k] = IF k < x THEN ParitySeq[k] ELSE ParitySeq[k + 1]
  BY <1>3, ParitySeqOK, ExceptOK, ParamsAssumption
<1>6. \A k \in 1 .. (ecM - 1) : e[k] = IF k < x THEN ecK + k - 1 ELSE ecK + k
  BY <1>5, <1>3, ParitySeqOK, ParamsAssumption
<1>7. <<c>> \in Seq(Nodes) /\ Len(<<c>>) = 1 /\ <<c>>[1] = c
  BY NodeFacts
<1> HIDE DEF e
<1>8. f \in Seq(Nodes) /\ Len(f) = n + 1
      /\ \A i \in 1 .. (n + 1) : f[i] = IF i <= n THEN ids[i] ELSE c
  BY <1>1, <1>7, CatOK
<1> HIDE DEF f
<1>9. T \in Seq(Nodes) /\ Len(T) = n + ecM
      /\ \A i \in 1 .. (n + ecM) : T[i] = IF i <= n + 1 THEN f[i] ELSE e[i - n - 1]
  <2>1. T \in Seq(Nodes) /\ Len(T) = (n + 1) + (ecM - 1)
        /\ \A i \in 1 .. ((n + 1) + (ecM - 1)) :
              T[i] = IF i <= n + 1 THEN f[i] ELSE e[i - (n + 1)]
    <3>2. T \in Seq(Nodes) /\ Len(T) = Len(f) + Len(e)
          /\ \A i \in 1 .. (Len(f) + Len(e)) :
               T[i] = IF i <= Len(f) THEN f[i] ELSE e[i - Len(f)]
      BY ZenonT(40), <1>5, <1>8, CatOK
    <3> HIDE DEF T
    <3> QED BY <3>2, <1>5, <1>8
  <2> HIDE DEF T
  <2>2. (n + 1) + (ecM - 1) = n + ecM /\ \A i \in 1 .. (n + ecM) : i - (n + 1) = i - n - 1
    BY <1>1, ParamsAssumption
  <2> QED BY <2>1, <2>2
<1> HIDE DEF T
<1>10. \A i \in 1 .. (n + ecM) :
          T[i] = IF i <= n THEN ids[i] ELSE IF i = n + 1 THEN c
                 ELSE IF i - n - 1 < x THEN ecK + (i - n - 1) - 1 ELSE ecK + (i - n - 1)
  <2> SUFFICES ASSUME NEW i \in 1 .. (n + ecM)
               PROVE  T[i] = IF i <= n THEN ids[i] ELSE IF i = n + 1 THEN c
                             ELSE IF i - n - 1 < x THEN ecK + (i - n - 1) - 1
                             ELSE ecK + (i - n - 1)
    OBVIOUS
  <2>1. CASE i <= n + 1
    <3>1. i \in 1 .. (n + 1)
      BY <2>1, <1>1
    <3> QED BY <3>1, <2>1, <1>1, <1>8, <1>9
  <2>2. CASE i > n + 1
    <3>1. i - n - 1 \in 1 .. (ecM - 1) /\ ~(i <= n + 1) /\ ~(i <= n) /\ i # n + 1
      BY <2>2, <1>1, ParamsAssumption
    <3> QED BY <3>1, <1>6, <1>9
  <2> QED BY <2>1, <2>2, <1>1
<1>11. \A a, b \in 1 .. (n + ecM) : T[a] = T[b] => a = b
  BY SMTT(40), <1>1, <1>4, <1>10, ParamsAssumption DEF ParityNodes
<1>12. ASSUME NEW p \in ParityNodes PROVE \E i \in 1 .. (n + ecM) : T[i] = p
  <2>1. CASE p = c
    BY SMTT(40), <2>1, <1>1, <1>10, ParamsAssumption
  <2>2. CASE p < c
    <3>1. n + 1 + (p - ecK + 1) \in 1 .. (n + ecM) /\ T[n + 1 + (p - ecK + 1)] = p
      BY <2>2, <1>1, <1>4, <1>10, ParamsAssumption DEF ParityNodes
    <3> QED BY <3>1
  <2>3. CASE p > c
    <3>1. n + 1 + (p - ecK) \in 1 .. (n + ecM) /\ T[n + 1 + (p - ecK)] = p
      BY <2>3, <1>1, <1>4, <1>10, ParamsAssumption DEF ParityNodes
    <3> QED BY <3>1
  <2> QED BY <2>1, <2>2, <2>3, ParamsAssumption DEF ParityNodes
<1>13. n + ecM > 0
  BY <1>1, ParamsAssumption
<1>14. CrdTargets(v, c) = T
  BY DEF CrdTargets, T, f, e, x, ids
<1>15. \A i \in 1 .. (n + ecM) : T[i] \in ParityNodes \cup Ids(v)
  <2> SUFFICES ASSUME NEW i \in 1 .. (n + ecM) PROVE T[i] \in ParityNodes \cup Ids(v)
    OBVIOUS
  <2>1. CASE i <= n
    <3>1. i \in 1 .. n /\ T[i] = ids[i]
      BY <2>1, <1>1, <1>10
    <3>2. \A k \in 1 .. n : ids[k] \in Ids(v)
      BY IdSeqOK DEF ids, n, Ids
    <3> QED BY <3>1, <3>2
  <2>2. CASE i = n + 1
    BY <2>2, <1>1, <1>10
  <2>3. CASE i > n + 1
    <3>1. i - n - 1 \in 1 .. (ecM - 1) /\ ~(i <= n) /\ i # n + 1
      BY <2>3, <1>1, ParamsAssumption
    <3>2. T[i] \in {ecK + (i - n - 1) - 1, ecK + (i - n - 1)}
      BY <3>1, <1>10
    <3> QED BY <3>1, <3>2, ParamsAssumption DEF ParityNodes
  <2> QED BY <2>1, <2>2, <2>3, <1>1
<1>16. ASSUME NEW b \in Ids(v) PROVE \E i \in 1 .. (n + ecM) : T[i] = b
  <2>1. PICK k \in 1 .. n : ids[k] = b
    BY IdSeqOK DEF ids, n, Ids
  <2>2. k \in 1 .. (n + ecM) /\ T[k] = ids[k]
    BY <1>1, <1>10, ParamsAssumption
  <2> QED BY <2>1, <2>2
<1> QED BY <1>9, <1>11, <1>12, <1>13, <1>14, <1>15, <1>16 DEF OneCommandEach

\* Under every policy each parity node is the target of exactly one command.
LEMMA TargetsOK ==
    ASSUME NEW j, JobOK(j)
    PROVE  OneCommandEach(Targets(j), j.vec)
<1>1. CASE j.policy = "raid"
  <2>1. j.collector \in Ids(j.vec) /\ Targets(j) = RaidTargets(j.vec, j.collector)
    BY <1>1 DEF JobOK, Collectors, Targets, IsCrd
  <2> QED BY <2>1, RaidTargetsOK DEF JobOK
<1>2. CASE j.policy = "delta"
  <2>1. Targets(j) = DeltaTargets(j.vec)
    BY <1>2 DEF Targets, IsCrd
  <2> QED BY <2>1, DeltaTargetsOK DEF JobOK
<1>3. CASE j.policy \in {"crd", "crd_flip"}
  <2>1. j.collector \in ParityNodes
    BY <1>3 DEF JobOK, Collectors, IsCrd
  <2>2. Targets(j) = CrdTargets(j.vec, j.collector)
    BY <1>3 DEF Targets, IsCrd
  <2> QED BY <2>1, <2>2, CrdTargetsOK DEF JobOK
<1> QED BY <1>1, <1>2, <1>3 DEF JobOK
-----------------------------------------------------------------------------
(* Commands. *)

\* A command is well formed when its fields are.
LEMMA CommandOK ==
    ASSUME stripe \in 0 .. MaxStripes, NEW t \in 0 .. 8, NEW k \in Nat,
           NEW u \in Seq(Upd), NEW c \in Nodes
    PROVE  Command(t, k, u, c) \in Cmd /\ Command(t, k, u, c).task = t
BY DEF Command, Cmd

\* The command for a target of the stripe is well formed, and its task is one
\* of a data or of a parity node according to the target.
LEMMA CmdForOK ==
    ASSUME NEW j, JobOK(j), NEW n \in ParityNodes \cup Ids(j.vec),
           stripe \in 0 .. MaxStripes
    PROVE  /\ CmdFor(j, n) \in Cmd
           /\ n \in DataNodes => CmdFor(j, n).task \in DataTasks
           /\ n \in ParityNodes => CmdFor(j, n).task \in ParityTasks
<1> DEFINE v == j.vec
           c == j.collector
           none == <<>>
           own  == <<UpdOf(v, n)>>
<1>1. v \in Seq(Upd) /\ Len(v) \in Nat /\ none \in Seq(Upd) /\ 0 \in Nodes
  BY NodeFacts DEF JobOK
<1>2. Ids(v) \subseteq DataNodes
  BY <1>1, IdSeqOK DEF Ids
<1>3. n \in DataNodes => own \in Seq(Upd)
  <2> SUFFICES ASSUME n \in DataNodes PROVE UpdOf(v, n) \in Upd
    OBVIOUS
  <2>1. \E i \in DOMAIN v : v[i].id = n
    BY NodeFacts DEF Ids
  <2>2. \A i \in DOMAIN v : v[i] \in Upd
    BY <1>1
  <2> QED BY <2>1, <2>2 DEF UpdOf
<1>4. c \in Nodes
  BY <1>2, NodeFacts DEF JobOK, Collectors, IsCrd
<1>6. n \in DataNodes \/ (n \in ParityNodes /\ n \notin DataNodes)
  BY <1>2, NodeFacts
<1>5. n \in DataNodes => n \notin ParityNodes
  BY NodeFacts
<1> HIDE DEF v, c, none, own
<1>7. CASE j.policy = "raid"
  <2>1. c \in DataNodes
    BY <1>2, <1>7 DEF JobOK, Collectors, v, c
  <2>2. CmdFor(j, n) = RaidCmd(n, v, c)
    BY <1>7 DEF CmdFor, v, c
  <2>3. CASE n = c /\ n \in DataNodes
    <3>1. CmdFor(j, n) = Command(2, Len(v), v, 0)
      BY <2>2, <2>3 DEF RaidCmd, none
    <3>2. Command(2, Len(v), v, 0) \in Cmd /\ Command(2, Len(v), v, 0).task = 2
      BY <2>3, <1>1, <1>3, <1>4, CommandOK
    <3> QED BY <3>1, <3>2, <2>3, <1>5 DEF DataTasks
  <2>4. CASE n # c /\ n \in DataNodes
    <3>1. CmdFor(j, n) = Command(1, 0, none, c)
      BY <2>2, <2>4 DEF RaidCmd, none
    <3>2. Command(1, 0, none, c) \in Cmd /\ Command(1, 0, none, c).task = 1
      BY <2>4, <1>1, <1>3, <1>4, CommandOK
    <3> QED BY <3>1, <3>2, <2>4, <1>5 DEF DataTasks
  <2>5. CASE n \notin DataNodes
    <3>1. CmdFor(j, n) = Command(3, 0, none, 0)
      BY <2>1, <2>2, <2>5 DEF RaidCmd, none
    <3>2. Command(3, 0, none, 0) \in Cmd /\ Command(3, 0, none, 0).task = 3
      BY <2>5, <1>1, <1>3, <1>4, CommandOK
    <3> QED BY <3>1, <3>2, <2>5, <1>6 DEF ParityTasks
  <2> QED BY <2>1, <2>3, <2>4, <2>5
<1>8. CASE j.policy = "delta"
  <2>2. CmdFor(j, n) = DeltaCmd(n, v)
    BY <1>8 DEF CmdFor, v, c
  <2>3. CASE n \in DataNodes
    <3>1. CmdFor(j, n) = Command(4, 0, own, 0)
      BY <2>2, <2>3 DEF DeltaCmd, none, own
    <3>2. Command(4, 0, own, 0) \in Cmd /\ Command(4, 0, own, 0).task = 4
      BY <2>3, <1>1, <1>3, <1>4, CommandOK
    <3> QED BY <3>1, <3>2, <2>3, <1>5 DEF DataTasks
  <2>4. CASE n \notin DataNodes
    <3>1. CmdFor(j, n) = Command(5, Len(v), none, 0)
      BY <2>2, <2>4 DEF DeltaCmd, none, own
    <3>2. Command(5, Len(v), none, 0) \in Cmd /\ Command(5, Len(v), none, 0).task = 5
      BY <2>4, <1>1, <1>3, <1>4, CommandOK
    <3> QED BY <3>1, <3>2, <2>4, <1>6 DEF ParityTasks
  <2> QED BY <2>3, <2>4
<1>9. CASE j.policy \in {"crd", "crd_flip"}
  <2>1. c \in ParityNodes
    BY <1>9 DEF JobOK, Collectors, IsCrd, v, c
  <2>2. CmdFor(j, n) = CrdCmd(n, v, c)
    BY <1>9 DEF CmdFor, v, c
  <2>3. CASE n \in DataNodes
    <3>1. CmdFor(j, n) = Command(6, 0, own, c)
      BY <2>1, <2>2, <2>3, NodeFacts DEF CrdCmd, own
    <3>2. Command(6, 0, own, c) \in Cmd /\ Command(6, 0, own, c).task = 6
      BY <2>3, <1>1, <1>3, <1>4, CommandOK
    <3> QED BY <3>1, <3>2, <2>3, <1>5 DEF DataTasks
  <2>4. CASE n \notin DataNodes /\ n = c
    <3>1. CmdFor(j, n) = Command(7, Len(v), v, 0)
      BY <2>2, <2>4 DEF CrdCmd, own
    <3>2. Command(7, Len(v), v, 0) \in Cmd /\ Command(7, Len(v), v, 0).task = 7
      BY <2>4, <1>1, <1>3, <1>4, CommandOK
    <3> QED BY <3>1, <3>2, <2>4, <1>6 DEF ParityTasks
  <2>5. CASE n \notin DataNodes /\ n # c
    <3>1. CmdFor(j, n) = Command(8, 0, v, 0)
      BY <2>2, <2>5 DEF CrdCmd, own
    <3>2. Command(8, 0, v, 0) \in Cmd /\ Command(8, 0, v, 0).task = 8
      BY <2>5, <1>1, <1>3, <1>4, CommandOK
    <3> QED BY <3>1, <3>2, <2>5, <1>6 DEF ParityTasks
  <2> QED BY <2>3, <2>4, <2>5
<1> QED BY <1>7, <1>8, <1>9 DEF JobOK
-----------------------------------------------------------------------------
(* The inductive invariant. *)

Free == {"off", "idle"}

\* The targets of job j that have their command still to come.
Plan(j, s) == {Targets(j)[i] : i \in {k \in 1 .. Len(Targets(j)) : k > s}}

\* Where the coordinator is in its job, and what is left to count.
CoordInv ==
    /\ cpc \in {"send", "ack"} => JobOK(job)
    /\ cpc \notin {"send", "ack"} => job = NoJob /\ sent = 0
    /\ cpc = "send" => sent < Len(Targets(job)) /\ need = ecM
    /\ cpc = "ack" => sent = Len(Targets(job)) /\ need > 0
    /\ cpc \in {"idle", "done"} => need = 0

\* Start-up: the helpers to count are those announced and those still off, and
\* nothing is sent before the last one is counted.
Off == {n \in Nodes : npc[n] = "off"}
StartInv ==
    /\ cpc = "init" => /\ need = test + Cardinality(Off) /\ need > 0
                       /\ ack = 0
                       /\ \A n \in Nodes : cmds[n] = <<>> /\ npc[n] \in Free
    /\ cpc # "init" => \A n \in Nodes : npc[n] # "off"

\* Data nodes execute data tasks, parity nodes parity tasks: only the latter ack.
TaskInv ==
    /\ \A d \in DataNodes :
          /\ npc[d] \notin Free => cur[d].task \in DataTasks
          /\ \A i \in 1 .. Len(cmds[d]) : cmds[d][i].task \in DataTasks
    /\ \A p \in ParityNodes :
          /\ npc[p] \notin Free => cur[p].task \in ParityTasks
          /\ \A i \in 1 .. Len(cmds[p]) : cmds[p][i].task \in ParityTasks

\* A parity node is in one stage of the stripe at a time.
StageInv ==
    \A p \in ParityNodes :
        /\ Len(cmds[p]) <= 1
        /\ cmds[p] # <<>> => npc[p] = "idle"
        /\ p \in Plan(job, sent) => cmds[p] = <<>> /\ npc[p] \in Free

IInv == TypeOK /\ CoordInv /\ StartInv /\ TaskInv /\ StageInv /\ AcksBalance
-----------------------------------------------------------------------------
(* Blocks and messages: what the handlers compute is well formed. *)

NodeStates == {"off", "idle", "recv", "send", "write", "ack", "exit"}

\* Multiplying by a coefficient keeps a set of terms a set of terms.
LEMMA EncodeOK ==
    ASSUME NEW row \in Int, NEW S \in SUBSET Term
    PROVE  Encode(row, S) \in SUBSET Term
BY DEF Encode, Term

\* The XOR of two blocks is a block.
LEMMA XorBlockOK ==
    ASSUME NEW f \in Block, NEW g \in Block
    PROVE  XorBlock(f, g) \in Block
<1>1. \A u \in Units : SymDiff(f[u], g[u]) \in SUBSET Term
  BY DEF SymDiff, Block
<1> QED BY <1>1 DEF XorBlock, Block

\* A slice of a block is a block.
LEMMA SliceOK ==
    ASSUME NEW f \in Block, NEW off, NEW size
    PROVE  Slice(f, off, size) \in Block
<1>1. \A j \in Units : (IF j < size /\ off + j \in Units THEN f[off + j] ELSE {})
                          \in SUBSET Term
  BY DEF Block
<1> QED BY <1>1 DEF Slice, Block

\* A block moved to its offset is a block.
LEMMA PlacedOK ==
    ASSUME NEW f \in Block, NEW off, NEW size
    PROVE  Placed(f, off, size) \in Block
<1>1. \A u \in Units :
        (IF u - off \in (0 .. (size - 1)) \cap Units THEN f[u - off] ELSE {})
           \in SUBSET Term
  BY DEF Block
<1> QED BY <1>1 DEF Placed, Block

\* What gene_radm_buff writes is a block.
LEMMA PatternOK ==
    ASSUME NEW n \in Nodes, NEW size
    PROVE  Pattern(n, size) \in Block
<1>1. \A j \in Units : (IF j < size THEN {<<Raw, n, j>>} ELSE {}) \in SUBSET Term
  <2>1. \A j \in Units : <<Raw, n, j>> \in Term
    BY NodeFacts, ParamsAssumption DEF Raw, Term, Units
  <2> QED BY <2>1
<1> QED BY <1>1 DEF Pattern, Block

\* compute_delta returns a block.
LEMMA DataDeltaOK ==
    ASSUME disk \in [Nodes -> Block], NEW n \in Nodes, NEW off, NEW size
    PROVE  DataDelta(n, off, size) \in Block
BY SliceOK, PatternOK, XorBlockOK DEF DataDelta

\* writeDataToDisk leaves a block: a range is replaced and nothing is cut off.
LEMMA OverwrittenOK ==
    ASSUME disk \in [Nodes -> Block], NEW n \in Nodes, NEW off, NEW size
    PROVE  Overwritten(n, off, size) \in Block
<1>1. Placed(Pattern(n, size), off, size) \in Block /\ disk[n] \in Block
  BY PatternOK, PlacedOK
<1>2. \A u \in Units : /\ Placed(Pattern(n, size), off, size)[u] \in SUBSET Term
                       /\ disk[n][u] \in SUBSET Term
  BY <1>1 DEF Block
<1> QED BY <1>2 DEF Overwritten, Block

\* The empty buffer is a block.
LEMMA ZerosOK == Zeros \in Block
BY DEF Zeros, Block

\* The data of a message is a block.
LEMMA MsgData ==
    ASSUME NEW s \in Seq(Msg), NEW i \in DOMAIN s
    PROVE  s[i].data \in Block
<1>1. s[i] \in Msg
  OBVIOUS
<1> QED BY <1>1 DEF Msg

\* The buffer of a received message is a block.
LEMMA ReceivedOK ==
    ASSUME buf \in [Nodes -> Seq(Msg)], NEW n \in Nodes, NEW id
    PROVE  Received(n, id) \in Block
<1> DEFINE hits == {i \in DOMAIN buf[n] :
                      /\ buf[n][i].id = id
                      /\ \A k \in DOMAIN buf[n] : buf[n][k].id = id => k <= i}
<1>1. Received(n, id) = IF hits = {} THEN Zeros ELSE buf[n][CHOOSE i \in hits : TRUE].data
  BY DEF Received
<1>2. hits \subseteq DOMAIN buf[n] /\ buf[n] \in Seq(Msg)
  OBVIOUS
<1> HIDE DEF hits
<1>3. CASE hits = {}
  BY <1>1, <1>3, ZerosOK
<1>4. CASE hits # {}
  <2>1. (CHOOSE i \in hits : TRUE) \in hits
    BY <1>4
  <2>2. (CHOOSE i \in hits : TRUE) \in DOMAIN buf[n]
    BY <2>1, <1>2
  <2> HIDE DEF hits
  <2> QED BY <2>2, <1>1, <1>2, <1>4, MsgData
<1> QED BY <1>3, <1>4

\* What the raid collector sends to a parity is a block.
LEMMA RaidParityOK ==
    ASSUME disk \in [Nodes -> Block], buf \in [Nodes -> Seq(Msg)],
           NEW n \in Nodes, NEW row \in Int
    PROVE  RaidParity(n, row) \in Block
<1> DEFINE In(d, u) == IF d = n THEN disk[n][u] ELSE Received(n, d)[u]
           E(d, u)  == Encode(row, In(d, u))
<1>1. ASSUME NEW d, NEW u \in Units
      PROVE  E(d, u) \in SUBSET Term
  <2>1. Received(n, d) \in Block /\ disk[n] \in Block
    BY ReceivedOK
  <2>2. In(d, u) \in SUBSET Term
    BY <2>1 DEF Block
  <2> QED BY <2>2, EncodeOK
<1>2. RaidParity(n, row) = [u \in Units |-> UNION {E(d, u) : d \in Ids(cur[n].upds)}]
  BY DEF RaidParity
<1> HIDE DEF E
<1>3. ASSUME NEW u \in Units
      PROVE  UNION {E(d, u) : d \in Ids(cur[n].upds)} \in SUBSET Term
  BY <1>1
<1> QED BY <1>2, <1>3 DEF Block

\* What task 4 sends to a parity is a block.
LEMMA DeltaJunkOK == ASSUME NEW size PROVE DeltaJunk(size) \in Block
<1>1. {Junk} \in SUBSET Term
  BY DEF Junk, Term
<1> QED BY <1>1 DEF DeltaJunk, Block

\* What task 5 writes is a block.
LEMMA DeltaParityOK ==
    ASSUME disk \in [Nodes -> Block], NEW n \in Nodes
    PROVE  DeltaParity(n) \in Block
<1>1. {Junk} \in SUBSET Term
  BY DEF Junk, Term
<1>2. disk[n] \in [Units -> SUBSET Term]
  BY DEF Block
<1> QED BY <1>1, <1>2 DEF DeltaParity, Block

\* The parity delta of the CRD collector is a block.
LEMMA CrdParityDeltaOK ==
    ASSUME buf \in [Nodes -> Seq(Msg)], NEW n \in Nodes, NEW row \in Int
    PROVE  CrdParityDelta(n, row) \in Block
<1>1. ASSUME NEW b, NEW u \in Units
      PROVE  Encode(row, Placed(Received(n, b.id), b.off, b.size)[u]) \in SUBSET Term
  <2>1. Placed(Received(n, b.id), b.off, b.size) \in Block
    BY ReceivedOK, PlacedOK
  <2>2. Placed(Received(n, b.id), b.off, b.size)[u] \in SUBSET Term
    BY <2>1 DEF Block
  <2> QED BY <2>2, EncodeOK
<1>2. ASSUME NEW u \in Units
      PROVE  UNION {Encode(row, Placed(Received(n, b.id), b.off, b.size)[u]) :
                      b \in ToSet(cur[n].upds)} \in SUBSET Term
  BY <1>1
<1> QED BY <1>2 DEF CrdParityDelta, Block

\* The slice of a sub-set is a block.
LEMMA CrdSliceOK ==
    ASSUME buf \in [Nodes -> Seq(Msg)], NEW n \in Nodes, NEW row \in Int, NEW s
    PROVE  CrdSlice(n, row, s) \in Block
BY CrdParityDeltaOK, SliceOK DEF CrdSlice

\* The aggregate of task 8 is a block.
LEMMA CrdAggregateOK ==
    ASSUME buf \in [Nodes -> Seq(Msg)], NEW n \in Nodes
    PROVE  CrdAggregate(n) \in Block
<1> DEFINE subs == 0 .. (SubNum(cur[n].upds) - 1)
           At(s, u) == LET r == SentRange(cur[n].upds, s)
                       IN  Placed(Received(n, s), r.off, r.size)[u]
           Odd(t, u) == Cardinality({s \in subs : t \in At(s, u)}) % 2 = 1
<1>1. ASSUME NEW s, NEW u \in Units PROVE At(s, u) \in SUBSET Term
  <2> DEFINE r == SentRange(cur[n].upds, s)
  <2>1. Placed(Received(n, s), r.off, r.size) \in Block
    BY ReceivedOK, PlacedOK
  <2> QED BY <2>1 DEF Block
<1>2. CrdAggregate(n) = [u \in Units |-> {t \in UNION {At(s, u) : s \in subs} : Odd(t, u)}]
  BY DEF CrdAggregate
<1> HIDE DEF At, Odd, subs
<1>3. ASSUME NEW u \in Units
      PROVE  {t \in UNION {At(s, u) : s \in subs} : Odd(t, u)} \in SUBSET Term
  BY <1>1
<1> QED BY <1>2, <1>3 DEF Block
-----------------------------------------------------------------------------
(* What every step of a handler does to the control state. *)

\* The node stays busy, or a data node returns, or a parity node acks and
\* returns; the coordinator and the command lists are not touched.
HandlerStep(n) ==
    /\ npc[n] \notin Free
    /\ UNCHANGED <<cvars, cmds>>
    /\ \E s \in NodeStates \ {"off"} :
          /\ npc' = [npc EXCEPT ![n] = s]
          /\ \/ s # "idle" /\ ack' = ack /\ cur' = cur
             \/ /\ s = "idle" /\ cur' = [cur EXCEPT ![n] = NoCmd]
                /\ \/ cur[n].task \in DataTasks /\ ack' = ack
                   \/ cur[n].task \in ParityTasks /\ ack' = ack + 1

\* The command of an idle node is well formed.
LEMMA NoCmdOK == NoCmd \in Cmd
BY NodeFacts, ParamsAssumption DEF NoCmd, Cmd

\* Every task reads and writes one of the three data keys.
LEMMA KeyOfOK == ASSUME NEW t PROVE KeyOf(t) \in Keys
BY DEF KeyOf, Keys

\* Return and Stay keep the types of the node's variables.
LEMMA ReturnOK ==
    ASSUME TypeOK, NEW n \in Nodes, Return(n)
    PROVE  /\ cur' \in [Nodes -> Cmd] /\ buf' \in [Nodes -> Seq(Msg)]
           /\ pi' \in [Nodes -> Nat] /\ sj' \in [Nodes -> Nat]
           /\ cur' = [cur EXCEPT ![n] = NoCmd]
<1> DEFINE none == <<>>
<1>1. none \in Seq(Msg)
  OBVIOUS
<1>2. buf' = [buf EXCEPT ![n] = none]
  BY DEF Return
<1> HIDE DEF none
<1> QED BY <1>1, <1>2, NoCmdOK DEF TypeOK, Return

\* A BLPOP of a receive loop changes the node and its list only, and keeps
\* their types.
LEMMA RecvOK ==
    ASSUME TypeOK, NEW n \in Nodes, NEW known, NEW count,
           NEW next \in {"send", "write"}, Recv(n, known, count, next)
    PROVE  TypeOK' /\ HandlerStep(n)
<1> DEFINE k == KeyOf(cur[n].task)
           q == queue[k][n]
<1>1. k \in Keys /\ q \in Seq(Msg) /\ q # <<>>
  BY KeyOfOK DEF TypeOK, Recv
<1>2. Head(q) \in Msg /\ Tail(q) \in Seq(Msg)
  BY <1>1
<1>3. queue' = [queue EXCEPT ![k][n] = Tail(q)] /\ buf' = [buf EXCEPT ![n] = Append(@, Head(q))]
  BY DEF Recv
<1>4. \E s \in {"exit", "recv", "send", "write"} : npc' = [npc EXCEPT ![n] = s]
  BY DEF Recv
<1>5. npc[n] = "recv" /\ UNCHANGED <<cvars, ack, cmds, cur, pi, sj, disk, lost>>
  BY DEF Recv
<1> HIDE DEF q, k
<1>6. queue' \in [Keys -> [Nodes -> Seq(Msg)]]
  BY <1>1, <1>2, <1>3 DEF TypeOK
<1>7. buf' \in [Nodes -> Seq(Msg)]
  <2>1. Append(buf[n], Head(q)) \in Seq(Msg)
    BY <1>2 DEF TypeOK
  <2> QED BY <1>3, <2>1 DEF TypeOK
<1>8. TypeOK'
  BY <1>4, <1>5, <1>6, <1>7 DEF TypeOK, cvars
<1>9. HandlerStep(n)
  BY <1>4, <1>5 DEF HandlerStep, Free, NodeStates, cvars
<1> QED BY <1>8, <1>9

\* A push changes one list and the node's state; the rest is the caller's.
LEMMA PushOK ==
    ASSUME TypeOK, NEW n \in Nodes, NEW to, NEW id \in Nat, NEW data \in Block,
           NEW next, Push(n, to, id, data, next)
    PROVE  /\ queue' \in [Keys -> [Nodes -> Seq(Msg)]]
           /\ npc[n] = "send" /\ npc' = [npc EXCEPT ![n] = next]
           /\ UNCHANGED <<cvars, ack, cmds, disk, lost>>
<1> DEFINE k == KeyOf(cur[n].task)
           m == [sid |-> cur[n].sid, id |-> id, data |-> data]
<1>1. k \in Keys
  BY KeyOfOK
<1>2. m \in Msg
  <2>1. cur[n] \in Cmd
    BY DEF TypeOK
  <2>2. cur[n].sid \in 0 .. MaxStripes
    BY <2>1 DEF Cmd
  <2> QED BY <2>2 DEF Msg
<1>3. queue' = [queue EXCEPT ![k][to] = Append(@, m)]
  BY DEF Push
<1> HIDE DEF k, m
<1>4. queue' \in [Keys -> [Nodes -> Seq(Msg)]]
  <2>1. queue[k] \in [Nodes -> Seq(Msg)]
    BY <1>1 DEF TypeOK
  <2>2. to \in Nodes => Append(queue[k][to], m) \in Seq(Msg)
    BY <1>2, <2>1
  <2>3. [queue[k] EXCEPT ![to] = Append(queue[k][to], m)] \in [Nodes -> Seq(Msg)]
    BY <2>1, <2>2
  <2>4. queue' = [queue EXCEPT ![k] = [queue[k] EXCEPT ![to] = Append(queue[k][to], m)]]
    BY <1>1, <1>3
  <2> QED BY <1>1, <2>3, <2>4 DEF TypeOK
<1>5. npc[n] = "send" /\ npc' = [npc EXCEPT ![n] = next]
      /\ UNCHANGED <<cvars, ack, cmds, disk, lost>>
  BY DEF Push
<1> QED BY <1>4, <1>5

\* A write to disk keeps the types; it ends the handler of a data node.
LEMMA WriteOK ==
    ASSUME TypeOK, NEW n \in Nodes, NEW b \in Block,
           NEW next \in {"idle", "ack"}, Write(n, b, next),
           next = "idle" => cur[n].task \in DataTasks
    PROVE  TypeOK' /\ HandlerStep(n)
<1>1. /\ npc[n] = "write" /\ npc' = [npc EXCEPT ![n] = next]
      /\ disk' = [disk EXCEPT ![n] = b]
      /\ UNCHANGED <<cvars, ack, cmds, queue, lost>>
  BY DEF Write
<1>2. CASE next = "idle"
  <2>1. Return(n)
    BY <1>2 DEF Write
  <2>2. TypeOK'
    BY <1>1, <2>1, ReturnOK DEF TypeOK, cvars
  <2>3. HandlerStep(n)
    BY <1>1, <1>2, <2>1, ReturnOK DEF HandlerStep, Free, NodeStates, cvars
  <2> QED BY <2>2, <2>3
<1>3. CASE next = "ack"
  <2>1. UNCHANGED <<cur, buf, pi, sj>>
    BY <1>3 DEF Write, Stay
  <2>2. TypeOK'
    BY <1>1, <2>1 DEF TypeOK, cvars
  <2>3. HandlerStep(n)
    BY <1>1, <1>3, <2>1 DEF HandlerStep, Free, NodeStates, cvars
  <2> QED BY <2>2, <2>3
<1> QED BY <1>2, <1>3

\* An ack adds one to the list and ends the handler.
LEMMA SendAckOK ==
    ASSUME TypeOK, NEW n \in Nodes, SendAck(n), cur[n].task \in ParityTasks
    PROVE  TypeOK' /\ HandlerStep(n)
<1>1. /\ npc[n] = "ack" /\ npc' = [npc EXCEPT ![n] = "idle"] /\ ack' = ack + 1
      /\ Return(n) /\ UNCHANGED <<cvars, cmds, queue, disk, lost>>
  BY DEF SendAck
<1>2. TypeOK'
  BY <1>1, ReturnOK DEF TypeOK, cvars
<1>3. HandlerStep(n)
  BY <1>1, ReturnOK DEF HandlerStep, Free, NodeStates, cvars
<1> QED BY <1>2, <1>3

\* An iteration of the loop over the parities keeps the types.
LEMMA PushToParityOK ==
    ASSUME TypeOK, NEW n \in Nodes, NEW data \in Block,
           NEW last \in {"idle", "write"}, PushToParity(n, data, last),
           last = "idle" => cur[n].task \in DataTasks
    PROVE  TypeOK' /\ HandlerStep(n)
<1> DEFINE next == IF pi[n] + 1 = ecM THEN last ELSE "send"
           x    == ecK + pi[n]
<1>1. x \in Nat
  BY ParamsAssumption DEF TypeOK
<1>2. Push(n, x, x, data, next)
  BY DEF PushToParity
<1>3. /\ queue' \in [Keys -> [Nodes -> Seq(Msg)]]
      /\ npc[n] = "send" /\ npc' = [npc EXCEPT ![n] = next]
      /\ UNCHANGED <<cvars, ack, cmds, disk, lost>>
  <2> HIDE DEF x, next
  <2> QED BY <1>1, <1>2, PushOK
<1>4. CASE pi[n] + 1 = ecM /\ last = "idle"
  <2>1. Return(n) /\ next = "idle"
    BY <1>4 DEF PushToParity
  <2>2. TypeOK'
    BY <1>3, <2>1, ReturnOK DEF TypeOK, cvars
  <2>3. HandlerStep(n)
    BY <1>3, <1>4, <2>1, ReturnOK DEF HandlerStep, Free, NodeStates, cvars
  <2> QED BY <2>2, <2>3
<1>5. CASE ~(pi[n] + 1 = ecM /\ last = "idle")
  <2>1. pi' = [pi EXCEPT ![n] = @ + 1] /\ UNCHANGED <<cur, buf, sj>>
    BY <1>5 DEF PushToParity
  <2>2. next \in {"send", "write"}
    BY <1>5
  <2> HIDE DEF next
  <2>3. TypeOK'
    BY <1>3, <2>1, <2>2 DEF TypeOK, cvars
  <2>4. HandlerStep(n)
    BY <1>3, <2>1, <2>2 DEF HandlerStep, Free, NodeStates, cvars
  <2> QED BY <2>3, <2>4
<1> QED BY <1>4, <1>5

\* A single push that keeps the loop indices (tasks 1 and 6).
LEMMA PushStayOK ==
    ASSUME TypeOK, NEW n \in Nodes, NEW to, NEW data \in Block,
           Push(n, to, n, data, "write"), Stay
    PROVE  TypeOK' /\ HandlerStep(n)
<1>1. /\ queue' \in [Keys -> [Nodes -> Seq(Msg)]]
      /\ npc[n] = "send" /\ npc' = [npc EXCEPT ![n] = "write"]
      /\ UNCHANGED <<cvars, ack, cmds, disk, lost>>
  BY PushOK, NodeFacts
<1>2. UNCHANGED <<cur, buf, pi, sj>>
  BY DEF Stay
<1>3. TypeOK'
  BY <1>1, <1>2 DEF TypeOK, cvars
<1>4. "write" \in NodeStates \ {"off"} /\ UNCHANGED <<cvars, ack, cmds, cur>>
  BY <1>1, <1>2 DEF NodeStates
<1>5. HandlerStep(n)
  BY <1>1, <1>4 DEF HandlerStep, Free
<1> QED BY <1>3, <1>5

\* The two kinds of iteration of the CRD collector's sending loop.
LEMMA CrdLoopOK ==
    ASSUME TypeOK, NEW n \in Nodes, NEW subs,
           npc[n] = "send", npc' = [npc EXCEPT ![n] = CrdNext(n, subs)],
           CrdAdvance(n, subs),
           queue' \in [Keys -> [Nodes -> Seq(Msg)]], disk' \in [Nodes -> Block],
           UNCHANGED <<cvars, ack, cmds, lost>>
    PROVE  TypeOK' /\ HandlerStep(n)
<1>1. CrdNext(n, subs) \in {"send", "ack"}
  BY DEF CrdNext
<1>2. UNCHANGED <<cur, buf>> /\ pi' \in [Nodes -> Nat] /\ sj' \in [Nodes -> Nat]
  <2>1. pi \in [Nodes -> Nat] /\ sj \in [Nodes -> Nat]
    BY DEF TypeOK
  <2> DEFINE more == sj[n] + 1 < subs
  <2>2. /\ UNCHANGED <<cur, buf>>
        /\ IF more THEN sj' = [sj EXCEPT ![n] = @ + 1] /\ UNCHANGED pi
                   ELSE sj' = [sj EXCEPT ![n] = 0] /\ pi' = [pi EXCEPT ![n] = @ + 1]
    BY Zenon DEF CrdAdvance
  <2> HIDE DEF more
  <2>3. CASE more
    BY <2>1, <2>2, <2>3
  <2>4. CASE ~more
    <3>1. sj' = [sj EXCEPT ![n] = 0] /\ pi' = [pi EXCEPT ![n] = @ + 1]
      BY <2>2, <2>4
    <3> QED BY <2>1, <2>2, <3>1
  <2> QED BY <2>3, <2>4
<1>3. TypeOK'
  BY <1>1, <1>2 DEF TypeOK, cvars
<1>4. HandlerStep(n)
  BY <1>1, <1>2 DEF HandlerStep, Free, NodeStates, cvars
<1> QED BY <1>3, <1>4

\* The push of a slice keeps the types and the collector at work.
LEMMA CrdSendSliceOK ==
    ASSUME TypeOK, NEW n \in Nodes, CrdSendSlice(n)
    PROVE  TypeOK' /\ HandlerStep(n)
<1> DEFINE subs == SubNum(cur[n].upds)
           data == CrdSlice(n, pi[n], sj[n])
<1>1. pi[n] \in Nat /\ sj[n] \in Nat
  BY DEF TypeOK
<1>2. data \in Block
  BY <1>1, CrdSliceOK DEF TypeOK
<1>3. Push(n, ecK + pi[n], sj[n], data, CrdNext(n, subs)) /\ CrdAdvance(n, subs)
  BY DEF CrdSendSlice
<1> HIDE DEF subs, data
<1>4. /\ queue' \in [Keys -> [Nodes -> Seq(Msg)]]
      /\ npc[n] = "send" /\ npc' = [npc EXCEPT ![n] = CrdNext(n, subs)]
      /\ UNCHANGED <<cvars, ack, cmds, disk, lost>>
  BY <1>1, <1>2, <1>3, PushOK
<1>5. disk' \in [Nodes -> Block] /\ UNCHANGED <<cvars, ack, cmds, lost>>
  BY <1>4 DEF TypeOK
<1> QED BY <1>3, <1>4, <1>5, CrdLoopOK

\* The collector's own write keeps the types and the collector at work.
LEMMA CrdWriteOwnOK ==
    ASSUME TypeOK, NEW n \in Nodes, CrdWriteOwn(n)
    PROVE  TypeOK' /\ HandlerStep(n)
<1>1. XorBlock(disk[n], CrdParityDelta(n, pi[n])) \in Block
  <2>1. pi[n] \in Int /\ disk[n] \in Block
    BY DEF TypeOK
  <2> QED BY <2>1, CrdParityDeltaOK, XorBlockOK DEF TypeOK
<1>2. disk' \in [Nodes -> Block]
  BY <1>1 DEF CrdWriteOwn, TypeOK
<1>3. /\ npc[n] = "send" /\ npc' = [npc EXCEPT ![n] = CrdNext(n, 1)]
      /\ CrdAdvance(n, 1) /\ UNCHANGED <<cvars, ack, cmds, queue, lost>>
  BY DEF CrdWriteOwn
<1>4. queue' \in [Keys -> [Nodes -> Seq(Msg)]] /\ UNCHANGED <<cvars, ack, cmds, lost>>
  BY <1>3 DEF TypeOK
<1> QED BY <1>2, <1>3, <1>4, CrdLoopOK

\* Every step of every handler.
LEMMA HandleOK ==
    ASSUME TypeOK, NEW n \in Nodes, Handle(n)
    PROVE  TypeOK' /\ HandlerStep(n)
<1> DEFINE b == cur[n].upds[1]
<1>0. /\ disk \in [Nodes -> Block] /\ buf \in [Nodes -> Seq(Msg)] /\ disk[n] \in Block
      /\ pi[n] \in Nat /\ n \in Nat
  BY NodeFacts DEF TypeOK
<1>1. CASE send_data_to_collector_for_raid(n)
  <2>1. cur[n].task \in DataTasks
    BY <1>1 DEF send_data_to_collector_for_raid, DataTasks
  <2>2. CASE Push(n, cur[n].to, n, DataDelta(n, 0, blocksize), "write") /\ Stay
    BY <2>2, <1>0, DataDeltaOK, PushStayOK
  <2>3. CASE Write(n, Overwritten(n, 0, blocksize), "idle")
    BY <2>1, <2>3, <1>0, OverwrittenOK, WriteOK
  <2> QED BY <1>1, <2>2, <2>3 DEF send_data_to_collector_for_raid
<1>2. CASE recv_and_compute_and_send_for_raid(n)
  <2>1. cur[n].task \in DataTasks
    BY <1>2 DEF recv_and_compute_and_send_for_raid, DataTasks
  <2>2. CASE Recv(n, Ids(cur[n].upds), cur[n].num - 1, "send")
    BY <2>2, RecvOK
  <2>3. CASE PushToParity(n, RaidParity(n, ecM - pi[n] - 1), "idle")
    <3>1. ecM - pi[n] - 1 \in Int
      BY <1>0, ParamsAssumption
    <3>2. RaidParity(n, ecM - pi[n] - 1) \in Block
      BY <3>1, <1>0, RaidParityOK
    <3> QED BY <2>1, <2>3, <3>2, PushToParityOK
  <2> QED BY <1>2, <2>2, <2>3 DEF recv_and_compute_and_send_for_raid
<1>3. CASE recv_and_save_for_raid(n)
  <2>1. cur[n].task \in ParityTasks
    BY <1>3 DEF recv_and_save_for_raid, ParityTasks
  <2>2. CASE Recv(n, Nodes, 1, "write")
    BY <2>2, RecvOK
  <2>3. CASE Write(n, Received(n, n), "ack")
    BY <2>3, <1>0, ReceivedOK, WriteOK
  <2>4. CASE SendAck(n)
    BY <2>1, <2>4, SendAckOK
  <2> QED BY <1>3, <2>2, <2>3, <2>4 DEF recv_and_save_for_raid
<1>4. CASE send_parity_delta_to_each_parity_for_delta(n)
  <2>1. cur[n].task \in DataTasks
    BY <1>4 DEF send_parity_delta_to_each_parity_for_delta, DataTasks
  <2>2. CASE PushToParity(n, DeltaJunk(b.size), "write")
    BY <2>2, DeltaJunkOK, PushToParityOK
  <2>3. CASE Write(n, Overwritten(n, b.off, b.size), "idle")
    BY <2>1, <2>3, <1>0, OverwrittenOK, WriteOK
  <2> QED BY <1>4, <2>2, <2>3 DEF send_parity_delta_to_each_parity_for_delta
<1>5. CASE recv_parity_delta_and_aggre_for_delta(n)
  <2>1. cur[n].task \in ParityTasks
    BY <1>5 DEF recv_parity_delta_and_aggre_for_delta, ParityTasks
  <2>2. CASE Recv(n, Nodes, cur[n].num, "write")
    BY <2>2, RecvOK
  <2>3. CASE Write(n, DeltaParity(n), "ack")
    BY <2>3, <1>0, DeltaParityOK, WriteOK
  <2>4. CASE SendAck(n)
    BY <2>1, <2>4, SendAckOK
  <2> QED BY <1>5, <2>2, <2>3, <2>4 DEF recv_parity_delta_and_aggre_for_delta
<1>6. CASE send_data_delta_to_parity_collector_for_crd(n)
  <2>1. cur[n].task \in DataTasks
    BY <1>6 DEF send_data_delta_to_parity_collector_for_crd, DataTasks
  <2>2. CASE Push(n, cur[n].to, n, DataDelta(n, b.off, b.size), "write") /\ Stay
    BY <2>2, <1>0, DataDeltaOK, PushStayOK
  <2>3. CASE Write(n, Overwritten(n, b.off, b.size), "idle")
    BY <2>1, <2>3, <1>0, OverwrittenOK, WriteOK
  <2> QED BY <1>6, <2>2, <2>3 DEF send_data_delta_to_parity_collector_for_crd
<1>7. CASE recv_and_compute_in_parity_collector_for_crd(n)
  <2>1. cur[n].task \in ParityTasks
    BY <1>7 DEF recv_and_compute_in_parity_collector_for_crd, ParityTasks
  <2>2. CASE Recv(n, Ids(cur[n].upds), cur[n].num, "send")
    BY <2>2, RecvOK
  <2>3. CASE CrdSendSlice(n)
    BY <2>3, CrdSendSliceOK
  <2>4. CASE CrdWriteOwn(n)
    BY <2>4, CrdWriteOwnOK
  <2>5. CASE SendAck(n)
    BY <2>1, <2>5, SendAckOK
  <2> QED BY <1>7, <2>2, <2>3, <2>4, <2>5 DEF recv_and_compute_in_parity_collector_for_crd
<1>8. CASE recv_parity_delta_and_aggre_for_crd(n)
  <2>1. cur[n].task \in ParityTasks
    BY <1>8 DEF recv_parity_delta_and_aggre_for_crd, ParityTasks
  <2> DEFINE subs == SubNum(cur[n].upds)
  <2>2. CASE Recv(n, 0 .. (subs - 1), subs, "write")
    BY <2>2, RecvOK
  <2>3. CASE Write(n, XorBlock(disk[n], CrdAggregate(n)), "ack")
    <3>1. XorBlock(disk[n], CrdAggregate(n)) \in Block
      BY <1>0, CrdAggregateOK, XorBlockOK
    <3> QED BY <2>3, <3>1, WriteOK
  <2>4. CASE SendAck(n)
    BY <2>1, <2>4, SendAckOK
  <2> QED BY <1>8, <2>2, <2>3, <2>4 DEF recv_parity_delta_and_aggre_for_crd
<1> QED BY <1>1, <1>2, <1>3, <1>4, <1>5, <1>6, <1>7, <1>8 DEF Handle

\* The fault of task 4 keeps the types; it meets data nodes only.
LEMMA OverreadFaultOK ==
    ASSUME TypeOK, NEW n \in Nodes, OverreadFault(n)
    PROVE  TypeOK' /\ HandlerStep(n)
<1>1. TypeOK'
  BY DEF OverreadFault, TypeOK, cvars
<1>2. npc[n] = "send" /\ UNCHANGED <<cvars, ack, cmds, cur>>
  BY DEF OverreadFault
<1>3. npc' = [npc EXCEPT ![n] = "exit"] /\ "exit" \in NodeStates \ {"off"}
  BY DEF OverreadFault, NodeStates
<1>4. HandlerStep(n)
  BY <1>2, <1>3 DEF HandlerStep, Free
<1> QED BY <1>1, <1>4
-----------------------------------------------------------------------------
(* The plan and the pending parities. *)

\* At the start of a stripe every target still has to be sent its command.
LEMMA PlanStart ==
    ASSUME NEW j, JobOK(j)
    PROVE  ParityNodes \cup Ids(j.vec) \subseteq Plan(j, 0)
BY TargetsOK DEF OneCommandEach, Plan

\* One RPUSH takes its target, and no other parity, off the plan.
LEMMA PlanStep ==
    ASSUME NEW j, JobOK(j), NEW s \in Nat, s < Len(Targets(j))
    PROVE  /\ Targets(j)[s + 1] \in ParityNodes \cup Ids(j.vec)
           /\ Targets(j)[s + 1] \in Plan(j, s)
           /\ Plan(j, s + 1) = Plan(j, s) \ {Targets(j)[s + 1]}
<1> DEFINE T == Targets(j)
<1>1. /\ Len(T) \in Nat /\ \A a \in 1 .. Len(T) : T[a] \in ParityNodes \cup Ids(j.vec)
      /\ \A a, b \in 1 .. Len(T) : T[a] = T[b] => a = b
  BY TargetsOK DEF OneCommandEach
<1>2. \A t : \A x \in Nat : t \in Plan(j, x) <=> \E a \in 1 .. Len(T) : a > x /\ T[a] = t
  BY DEF Plan
<1> HIDE DEF T
<1>3. s + 1 \in 1 .. Len(T) /\ s + 1 > s
  BY <1>1 DEF T
<1>4. ASSUME NEW t \in Plan(j, s + 1) PROVE t \in Plan(j, s) /\ t # T[s + 1]
  <2>1. PICK a \in 1 .. Len(T) : a > s + 1 /\ T[a] = t
    BY <1>2
  <2> QED BY <2>1, <1>1, <1>2, <1>3
<1>5. ASSUME NEW t \in Plan(j, s), t # T[s + 1] PROVE t \in Plan(j, s + 1)
  <2>1. PICK a \in 1 .. Len(T) : a > s /\ T[a] = t
    BY <1>2
  <2>2. a # s + 1
    BY <2>1, <1>5
  <2>3. a > s + 1
    BY <2>1, <2>2
  <2> QED BY <2>1, <2>3, <1>2
<1>6. T[s + 1] \in Plan(j, s)
  BY <1>2, <1>3
<1> QED BY <1>1, <1>3, <1>4, <1>5, <1>6 DEF T

\* After the last RPUSH no parity is on the plan.
LEMMA PlanEnd ==
    ASSUME NEW j, JobOK(j)
    PROVE  Plan(j, Len(Targets(j))) = {}
<1>1. Len(Targets(j)) \in Nat
  BY TargetsOK DEF OneCommandEach
<1> QED BY <1>1 DEF Plan

\* Between two stripes no parity is on the plan.
LEMMA PlanNone == Plan(NoJob, 0) = {} /\ DOMAIN Targets(NoJob) = 1 .. Len(Targets(NoJob))
BY DEF Plan, Targets, NoJob, IsCrd

\* Pending in terms of the plan; PendingOf takes the variables as parameters
\* so that it also speaks of the next state.
PendingOf(j, s, c, w) ==
    {p \in ParityNodes : p \in Plan(j, s) \/ c[p] # <<>> \/ w[p] \notin Free}

\* Pending in terms of the plan.
LEMMA PendingIs ==
    ASSUME JobOK(job) \/ job = NoJob
    PROVE  Pending = PendingOf(job, sent, cmds, npc)
<1>1. DOMAIN Targets(job) = 1 .. Len(Targets(job))
  BY PlanNone, TargetsOK DEF OneCommandEach
<1> QED BY <1>1 DEF Pending, PendingOf, Plan, Free

\* The same in the next state.
LEMMA PendingIsPrime ==
    ASSUME JobOK(job') \/ job' = NoJob
    PROVE  Pending' = PendingOf(job', sent', cmds', npc')
<1>1. DOMAIN Targets(job') = 1 .. Len(Targets(job'))
  BY PlanNone, TargetsOK DEF OneCommandEach
<1> QED BY <1>1 DEF Pending, PendingOf, Plan, Free

\* While commands are sent the job is one TargetsOK speaks of.
LEMMA CoordJob ==
    ASSUME CoordInv, cpc \in {"init", "idle", "send", "ack", "done"}
    PROVE  JobOK(job) \/ job = NoJob
BY DEF CoordInv

\* Pending is finite, so that its members can be counted.
LEMMA PendingFinite ==
    /\ IsFiniteSet(ParityNodes) /\ Cardinality(ParityNodes) = ecM
    /\ \A S : S \subseteq ParityNodes => IsFiniteSet(S) /\ Cardinality(S) \in Nat
<1>1. ecK \in Int /\ ecK + ecM - 1 \in Int /\ ~(ecK > ecK + ecM - 1)
      /\ (ecK + ecM - 1) - ecK + 1 = ecM
  BY ParamsAssumption
<1>2. IsFiniteSet(ParityNodes) /\ Cardinality(ParityNodes) = ecM
  BY <1>1, FS_Interval DEF ParityNodes
<1>3. ASSUME NEW S, S \subseteq ParityNodes
      PROVE  IsFiniteSet(S) /\ Cardinality(S) \in Nat
  <2>1. IsFiniteSet(S)
    BY <1>2, <1>3, FS_Subset
  <2> QED BY <2>1, FS_CardinalityType
<1> QED BY <1>2, <1>3

\* When nothing is left to count, no parity is pending.
LEMMA NothingPending ==
    ASSUME TypeOK, CoordInv, AcksBalance, cpc \in {"idle", "done"}
    PROVE  ack = 0 /\ Pending = {}
<1>1. Pending \subseteq ParityNodes
  BY DEF Pending
<1>2. IsFiniteSet(Pending) /\ Cardinality(Pending) \in Nat
  BY <1>1, PendingFinite
<1>3. need = 0 /\ need = ack + Cardinality(Pending) /\ ack \in Nat
  BY DEF CoordInv, AcksBalance, TypeOK
<1>4. Cardinality(Pending) = 0 /\ ack = 0
  BY <1>2, <1>3
<1> QED BY <1>2, <1>4, FS_EmptySet
-----------------------------------------------------------------------------
(* Each step preserves IInv and is a step of the barrier, or a stutter. *)

BeginStep ==
    /\ cpc = "idle" /\ cpc' = "send" /\ stripe' = stripe + 1
    /\ Pending = {} /\ Pending' = ParityNodes
CommitStep ==
    /\ cpc \in {"send", "ack"} /\ UNCHANGED <<cpc, stripe>>
    /\ \E p \in Pending : Pending' = Pending \ {p}
CompleteStep ==
    /\ cpc = "ack" /\ cpc' = "idle" /\ stripe' = stripe
    /\ Pending = {} /\ Pending' = {}
QuietStep ==
    /\ (cpc' \in {"send", "ack"}) = (cpc \in {"send", "ack"})
    /\ stripe' = stripe /\ Pending' = Pending

Outcome == BeginStep \/ CommitStep \/ CompleteStep \/ QuietStep

\* The invariant holds initially, and no parity is pending.
LEMMA InitIInv == ASSUME Init PROVE IInv /\ Pending = {}
<1> DEFINE none == <<>>
<1>1. none \in Seq(Cmd) /\ none \in Seq(Msg)
  OBVIOUS
<1>2. cmds = [n \in Nodes |-> none] /\ buf = [n \in Nodes |-> none]
      /\ queue = [k \in Keys |-> [n \in Nodes |-> none]]
  BY DEF Init
<1>3. disk \in [Nodes -> Block]
  <2>1. ASSUME NEW n \in Nodes
        PROVE  [u \in Units |-> IF n \in DataNodes THEN {<<Raw, n, Old>>}
                                ELSE {<<n - ecK, d, Old>> : d \in DataNodes}] \in Block
    <3>1. n \in Int /\ ecK \in Int /\ \A d \in DataNodes : d \in Int
      BY NodeFacts, ParamsAssumption
    <3>2. {<<Raw, n, Old>>} \in SUBSET Term
      BY <3>1 DEF Raw, Old, Term
    <3>3. {<<n - ecK, d, Old>> : d \in DataNodes} \in SUBSET Term
      BY <3>1 DEF Old, Term
    <3> QED BY <3>2, <3>3 DEF Block
  <2> QED BY <2>1 DEF Init
<1>4. TypeOK
  <2> HIDE DEF none
  <2>1. cur \in [Nodes -> Cmd]
    BY NoCmdOK DEF Init
  <2>2. need \in Nat
    BY ParamsAssumption DEF Init
  <2> QED BY SMTT(40), <1>1, <1>2, <1>3, <2>1, <2>2, ParamsAssumption DEF Init, TypeOK
<1>5. CoordInv
  BY DEF Init, CoordInv
<1>6. StartInv
  <2>1. Off = Nodes
    BY DEF Off, Init
  <2>2. Cardinality(Nodes) = ecK + ecM
    <3>1. 0 \in Int /\ ecK + ecM - 1 \in Int /\ ~(0 > ecK + ecM - 1)
          /\ (ecK + ecM - 1) - 0 + 1 = ecK + ecM
      BY ParamsAssumption
    <3> QED BY <3>1, FS_Interval DEF Nodes
  <2>3. need = test + Cardinality(Off) /\ need > 0
    BY <2>1, <2>2, ParamsAssumption DEF Init
  <2> QED BY <2>3 DEF Init, StartInv, Free
<1>7. TaskInv
  BY NodeFacts DEF Init, TaskInv, Free
<1>8. StageInv
  <2>1. Plan(job, sent) = {}
    BY PlanNone DEF Init
  <2>2. \A n \in ParityNodes : cmds[n] = <<>> /\ npc[n] = "off"
    BY NodeFacts DEF Init
  <2> QED BY <2>1, <2>2 DEF StageInv
<1>9. AcksBalance
  BY DEF Init, AcksBalance
<1>10. Pending = {}
  <2>1. Pending = PendingOf(job, sent, cmds, npc)
    BY PendingIs DEF Init
  <2>2. Plan(job, sent) = {}
    BY PlanNone DEF Init
  <2>3. \A n \in ParityNodes : cmds[n] = <<>> /\ npc[n] \in Free
    BY NodeFacts DEF Init, Free
  <2> QED BY <2>1, <2>2, <2>3 DEF PendingOf
<1> QED BY <1>4, <1>5, <1>6, <1>7, <1>8, <1>9, <1>10 DEF IInv

\* Start-up of a helper keeps the invariant: nothing is in its lists yet.
LEMMA StartHelperOK ==
    ASSUME IInv, NEW n \in Nodes, StartHelper(n)
    PROVE  IInv' /\ Outcome
<1> DEFINE none == <<>>
<1>1. /\ npc[n] = "off" /\ npc' = [npc EXCEPT ![n] = "idle"]
      /\ cmds' = [cmds EXCEPT ![n] = none] /\ test' = test + 1
      /\ queue' = [k \in Keys |-> [queue[k] EXCEPT ![n] = none]]
      /\ UNCHANGED <<cpc, stripe, job, sent, need, ack, cur, buf, pi, sj, disk, lost>>
  BY DEF StartHelper
<1>2. none \in Seq(Cmd) /\ none \in Seq(Msg) /\ Len(none) = 0
  OBVIOUS
<1>3. TypeOK /\ CoordInv /\ StartInv /\ TaskInv /\ StageInv
  BY DEF IInv
<1>4. cpc = "init" /\ job = NoJob /\ sent = 0
  BY <1>1, <1>3 DEF StartInv, CoordInv
<1>a. \A m \in Nodes : cmds[m] = none /\ npc[m] \in Free
  BY <1>3, <1>4 DEF StartInv
<1> HIDE DEF none
<1>5. TypeOK'
  BY <1>1, <1>2, <1>3 DEF TypeOK
<1>6. CoordInv'
  BY <1>1, <1>3, <1>4 DEF CoordInv
<1>7. \A m \in Nodes : cmds'[m] = none /\ npc'[m] \in Free
  BY <1>1, <1>3, <1>a DEF TypeOK, Free
<1>8. StartInv'
  <2>1. Off' = Off \ {n} /\ n \in Off
    BY <1>1, <1>3 DEF Off, TypeOK
  <2>2. IsFiniteSet(Nodes)
    BY FS_Interval, ParamsAssumption DEF Nodes
  <2>3. IsFiniteSet(Off) /\ Cardinality(Off) \in Nat
    BY <2>2, FS_Subset, FS_CardinalityType DEF Off
  <2>4. Cardinality(Off') = Cardinality(Off) - 1
    BY <2>1, <2>3, FS_RemoveElement
  <2>5. need = test + Cardinality(Off) /\ need > 0 /\ ack = 0 /\ test \in Nat
    BY <1>3, <1>4 DEF StartInv, TypeOK
  <2>6. need' = test' + Cardinality(Off')
    BY <2>3, <2>4, <2>5, <1>1
  <2> QED BY <2>5, <2>6, <1>1, <1>4, <1>7 DEF StartInv, none
<1>9. TaskInv'
  BY <1>2, <1>7, NodeFacts DEF TaskInv
<1>10. Plan(job', sent') = {}
  BY <1>1, <1>4, PlanNone
<1>11. StageInv'
  BY <1>2, <1>7, <1>10, NodeFacts DEF StageInv, none
<1>12. AcksBalance'
  BY <1>1, <1>4 DEF AcksBalance
<1>13. Pending' = Pending
  <2>1. Pending = PendingOf(job, sent, cmds, npc) /\ Pending' = PendingOf(job', sent', cmds', npc')
    BY <1>1, <1>4, PendingIs, PendingIsPrime
  <2>2. \A q \in ParityNodes : cmds[q] = <<>> /\ npc[q] \in Free /\ cmds'[q] = <<>> /\ npc'[q] \in Free
    BY <1>7, <1>a, NodeFacts DEF none
  <2> QED BY <2>1, <2>2, <1>1, <1>10 DEF PendingOf
<1>14. Outcome
  BY <1>1, <1>13 DEF Outcome, QuietStep
<1> QED BY <1>5, <1>6, <1>8, <1>9, <1>11, <1>12, <1>14 DEF IInv

\* The last test message is counted only when every node has started.
LEMMA RecvTestOK ==
    ASSUME IInv, RecvTest
    PROVE  IInv' /\ Outcome
<1>1. /\ cpc = "init" /\ test > 0 /\ test' = test - 1 /\ need' = need - 1
      /\ cpc' = (IF need = 1 THEN "idle" ELSE "init")
      /\ UNCHANGED <<stripe, job, sent, ack, cmds, queue, npc, cur, buf, pi, sj, disk, lost>>
  BY DEF RecvTest, nvars
<1>2. TypeOK /\ CoordInv /\ StartInv /\ TaskInv /\ StageInv
  BY DEF IInv
<1>3. /\ need = test + Cardinality(Off) /\ need > 0 /\ ack = 0
      /\ \A n \in Nodes : cmds[n] = <<>> /\ npc[n] \in Free
      /\ need \in Nat /\ test \in Nat /\ job = NoJob /\ sent = 0
  BY <1>1, <1>2 DEF StartInv, TypeOK, CoordInv
<1>4. IsFiniteSet(Off) /\ Cardinality(Off) \in Nat
  <2>1. IsFiniteSet(Nodes)
    BY FS_Interval, ParamsAssumption DEF Nodes
  <2> QED BY <2>1, FS_Subset, FS_CardinalityType DEF Off
<1>5. TypeOK'
  BY <1>1, <1>2, <1>3 DEF TypeOK
<1>6. CoordInv'
  BY <1>1, <1>3 DEF CoordInv
<1>7. need = 1 => \A n \in Nodes : npc[n] # "off"
  <2> SUFFICES ASSUME need = 1 PROVE Off = {}
    BY DEF Off
  <2>1. Cardinality(Off) = 0
    BY <1>1, <1>3, <1>4
  <2> QED BY <2>1, <1>4, FS_EmptySet
<1>8. StartInv'
  <2>1. Off' = Off
    BY <1>1 DEF Off
  <2>2. need' = test' + Cardinality(Off') /\ (need # 1 => need' > 0)
    BY <2>1, <1>1, <1>3, <1>4
  <2> QED BY <2>2, <1>1, <1>3, <1>7 DEF StartInv
<1>9. TaskInv' /\ StageInv'
  BY <1>1, <1>2 DEF TaskInv, StageInv
<1>10. Pending = {} /\ Pending' = {}
  <2>1. Pending = PendingOf(job, sent, cmds, npc) /\ Pending' = PendingOf(job', sent', cmds', npc')
    BY <1>1, <1>3, PendingIs, PendingIsPrime
  <2>2. Plan(job, sent) = {}
    BY <1>3, PlanNone
  <2> QED BY <2>1, <2>2, <1>1, <1>3, NodeFacts DEF PendingOf
<1>11. AcksBalance'
  BY <1>1, <1>3, <1>10, FS_EmptySet DEF AcksBalance
<1>12. Outcome
  BY <1>1, <1>10 DEF Outcome, QuietStep
<1> QED BY <1>5, <1>6, <1>8, <1>9, <1>11, <1>12 DEF IInv

\* The start of a stripe makes every parity pending and need equal to ecM.
LEMMA StartStripeOK ==
    ASSUME IInv, NEW policy \in Policies, NEW v \in UpdVecs, NEW c \in Nodes,
           StartStripe(policy, v, c)
    PROVE  IInv' /\ Outcome
<1> DEFINE vec == IF policy = "crd_flip" THEN FlipVec(v, blocksize) ELSE v
           j   == [policy |-> policy, vec |-> vec, collector |-> c]
<1>1. /\ cpc = "idle" /\ stripe < MaxStripes /\ c \in Collectors(policy, vec)
      /\ cpc' = "send" /\ stripe' = stripe + 1 /\ job' = j /\ sent' = 0 /\ need' = ecM
      /\ UNCHANGED <<test, ack, cmds, queue, npc, cur, buf, pi, sj, disk>>
  BY DEF StartStripe, nvars
<1>2. TypeOK /\ CoordInv /\ StartInv /\ TaskInv /\ StageInv /\ AcksBalance
  BY DEF IInv
<1>3. JobOK(j)
  <2>1. policy \in {"raid", "delta", "crd", "crd_flip"}
    BY ParamsAssumption
  <2>2. vec \in Seq(Upd) /\ vec # <<>> /\ \A a, b \in DOMAIN vec : vec[a].id = vec[b].id => a = b
    BY FlipVecOK, VecsAssumption
  <2> HIDE DEF vec
  <2> QED BY <2>1, <2>2, <1>1 DEF JobOK
<1> HIDE DEF j, vec
<1>4. ack = 0 /\ Pending = {}
  BY <1>1, <1>2, NothingPending
<1>5. TypeOK'
  BY <1>1, <1>2, ParamsAssumption DEF TypeOK
<1>6. Len(Targets(j)) \in Nat /\ Len(Targets(j)) > 0
  BY <1>3, TargetsOK DEF OneCommandEach
<1>7. CoordInv'
  BY <1>1, <1>3, <1>6 DEF CoordInv
<1>8. StartInv'
  BY <1>1, <1>2 DEF StartInv
<1>9. TaskInv'
  BY <1>1, <1>2 DEF TaskInv
<1>10. \A p \in ParityNodes : cmds[p] = <<>> /\ npc[p] \in Free
  <2>1. Pending = PendingOf(job, sent, cmds, npc)
    BY <1>1, <1>2, PendingIs DEF CoordInv
  <2> QED BY <2>1, <1>4 DEF PendingOf
<1>11. StageInv'
  BY <1>1, <1>10 DEF StageInv
<1>12. Pending' = ParityNodes
  <2>1. Pending' = PendingOf(job', sent', cmds', npc')
    BY <1>1, <1>3, PendingIsPrime
  <2> QED BY <2>1, <1>1, <1>3, PlanStart DEF PendingOf
<1>13. AcksBalance'
  BY <1>1, <1>4, <1>12, PendingFinite, ParamsAssumption DEF AcksBalance
<1>14. Outcome
  BY <1>1, <1>4, <1>12 DEF Outcome, BeginStep
<1> QED BY <1>5, <1>7, <1>8, <1>9, <1>11, <1>13, <1>14 DEF IInv

\* A command moves its parity from the plan to upd_cmds: it stays pending.
LEMMA SendCmdOK ==
    ASSUME IInv, SendCmd
    PROVE  IInv' /\ Outcome
<1> DEFINE T == Targets(job)
           n == T[sent + 1]
           c == CmdFor(job, n)
<1>1. /\ cpc = "send" /\ cmds' = [cmds EXCEPT ![n] = Append(@, c)] /\ sent' = sent + 1
      /\ cpc' = (IF sent + 1 = Len(T) THEN "ack" ELSE "send")
      /\ UNCHANGED <<stripe, job, need, test, ack, queue, npc, cur, buf, pi, sj, disk, lost>>
  BY DEF SendCmd, nvars
<1>2. TypeOK /\ CoordInv /\ StartInv /\ TaskInv /\ StageInv /\ AcksBalance
  BY DEF IInv
<1>3. JobOK(job) /\ sent < Len(T) /\ sent \in Nat /\ Len(T) \in Nat /\ need = ecM
  BY <1>1, <1>2, TargetsOK DEF CoordInv, TypeOK, OneCommandEach
<1>4. /\ n \in ParityNodes \cup Ids(job.vec) /\ n \in Plan(job, sent)
      /\ Plan(job, sent + 1) = Plan(job, sent) \ {n}
  BY <1>3, PlanStep
<1>5. n \in Nodes
  BY <1>3, TargetsOK DEF OneCommandEach
<1>6. /\ c \in Cmd /\ (n \in DataNodes => c.task \in DataTasks)
      /\ (n \in ParityNodes => c.task \in ParityTasks)
  <2>1. stripe \in 0 .. MaxStripes
    BY <1>2 DEF TypeOK
  <2> QED BY <2>1, <1>3, <1>4, CmdForOK
<1> HIDE DEF T, n, c
<1>7. /\ cmds[n] \in Seq(Cmd) /\ Append(cmds[n], c) \in Seq(Cmd)
      /\ Len(Append(cmds[n], c)) = Len(cmds[n]) + 1 /\ Len(cmds[n]) \in Nat
      /\ Append(cmds[n], c) # <<>>
      /\ \A i \in 1 .. Len(Append(cmds[n], c)) :
           Append(cmds[n], c)[i] = IF i <= Len(cmds[n]) THEN cmds[n][i] ELSE c
  <2>1. cmds[n] \in Seq(Cmd)
    BY <1>2, <1>5 DEF TypeOK
  <2> QED BY <2>1, <1>6, AppendOK
<1>8. /\ cmds'[n] = Append(cmds[n], c)
      /\ \A m \in Nodes : m # n => cmds'[m] = cmds[m]
      /\ cmds' \in [Nodes -> Seq(Cmd)]
  BY <1>1, <1>2, <1>5, <1>7 DEF TypeOK
<1>9. TypeOK'
  BY <1>1, <1>2, <1>3, <1>8 DEF TypeOK
<1>10. CoordInv'
  <2>1. sent + 1 <= Len(T) /\ ecM > 0
    BY <1>3, ParamsAssumption
  <2>2. JobOK(job') /\ sent' = sent + 1 /\ need' = ecM /\ Len(Targets(job')) = Len(T)
    BY <1>1, <1>3 DEF T
  <2>3. CASE sent + 1 = Len(T)
    BY <2>1, <2>2, <2>3, <1>1 DEF CoordInv
  <2>4. CASE sent + 1 # Len(T)
    <3>1. sent + 1 < Len(T)
      BY <2>1, <2>4, <1>3
    <3> QED BY <3>1, <2>2, <2>4, <1>1 DEF CoordInv
  <2> QED BY <2>3, <2>4
<1>11. StartInv'
  BY <1>1, <1>2 DEF StartInv
<1>12. TaskInv'
  <2>1. ASSUME NEW m \in Nodes, NEW TT,
               n = m => c.task \in TT,
               \A i \in 1 .. Len(cmds[m]) : cmds[m][i].task \in TT
        PROVE  \A i \in 1 .. Len(cmds'[m]) : cmds'[m][i].task \in TT
    <3>1. CASE m # n
      BY <2>1, <3>1, <1>8
    <3>2. CASE m = n
      <4> SUFFICES ASSUME NEW i \in 1 .. Len(cmds'[n]) PROVE cmds'[n][i].task \in TT
        BY <3>2
      <4>1. cmds'[n][i] = IF i <= Len(cmds[n]) THEN cmds[n][i] ELSE c
        BY <1>7, <1>8
      <4>2. i <= Len(cmds[n]) => i \in 1 .. Len(cmds[n])
        BY <1>7, <1>8
      <4> QED BY <4>1, <4>2, <2>1, <3>2
    <3> QED BY <3>1, <3>2
  <2>2. \A d \in DataNodes : \A i \in 1 .. Len(cmds'[d]) : cmds'[d][i].task \in DataTasks
    BY <2>1, <1>2, <1>6, NodeFacts DEF TaskInv
  <2>3. \A p \in ParityNodes : \A i \in 1 .. Len(cmds'[p]) : cmds'[p][i].task \in ParityTasks
    BY <2>1, <1>2, <1>6, NodeFacts DEF TaskInv
  <2> QED BY <2>2, <2>3, <1>1, <1>2 DEF TaskInv
<1>13. n \in ParityNodes => cmds[n] = <<>> /\ npc[n] = "idle"
  BY <1>1, <1>2, <1>4, <1>5 DEF StageInv, StartInv, Free
<1>14. StageInv'
  <2> SUFFICES ASSUME NEW p \in ParityNodes
               PROVE  /\ Len(cmds'[p]) <= 1
                      /\ cmds'[p] # <<>> => npc'[p] = "idle"
                      /\ p \in Plan(job', sent') => cmds'[p] = <<>> /\ npc'[p] \in Free
    BY DEF StageInv
  <2>1. Plan(job', sent') = Plan(job, sent) \ {n}
    BY <1>1, <1>4
  <2>2. CASE p = n
    <3>1. Len(cmds'[p]) = 1 /\ npc'[p] = "idle" /\ p \notin Plan(job', sent')
      BY <2>1, <2>2, <1>1, <1>7, <1>8, <1>13
    <3> QED BY <3>1
  <2>3. CASE p # n
    <3>1. cmds'[p] = cmds[p] /\ npc'[p] = npc[p]
      BY <2>3, <1>1, <1>8, NodeFacts
    <3> QED BY <3>1, <2>1, <1>2 DEF StageInv
  <2> QED BY <2>2, <2>3
<1>15. Pending' = Pending
  <2>1. Pending = PendingOf(job, sent, cmds, npc) /\ Pending' = PendingOf(job', sent', cmds', npc')
    BY <1>1, <1>3, PendingIs, PendingIsPrime
  <2>2. Plan(job', sent') = Plan(job, sent) \ {n}
    BY <1>1, <1>4
  <2>3. ASSUME NEW p \in ParityNodes
        PROVE  p \in PendingOf(job', sent', cmds', npc') <=> p \in PendingOf(job, sent, cmds, npc)
    <3>1. CASE p = n
      BY <3>1, <1>4, <1>7, <1>8 DEF PendingOf
    <3>2. CASE p # n
      <4>1. cmds'[p] = cmds[p] /\ npc'[p] = npc[p]
        BY <3>2, <1>1, <1>8, NodeFacts
      <4> QED BY <3>2, <4>1, <2>2 DEF PendingOf
    <3> QED BY <3>1, <3>2
  <2> QED BY <2>1, <2>3 DEF PendingOf
<1>16. AcksBalance'
  BY <1>1, <1>2, <1>15 DEF AcksBalance
<1>17. Outcome
  BY <1>1, <1>15 DEF Outcome, QuietStep
<1> QED BY <1>9, <1>10, <1>11, <1>12, <1>14, <1>16, <1>17 DEF IInv

\* An ack is taken from the list and from need; pending is unchanged.
LEMMA RecvAckOK ==
    ASSUME IInv, RecvAck
    PROVE  IInv' /\ Outcome
<1>1. /\ cpc = "ack" /\ ack > 0 /\ ack' = ack - 1 /\ need' = need - 1
      /\ IF need = 1 THEN cpc' = "idle" /\ job' = NoJob /\ sent' = 0
                     ELSE UNCHANGED <<cpc, job, sent>>
      /\ UNCHANGED <<stripe, test, cmds, queue, npc, cur, buf, pi, sj, disk, lost>>
  BY DEF RecvAck, nvars
<1>2. TypeOK /\ CoordInv /\ StartInv /\ TaskInv /\ StageInv /\ AcksBalance
  BY DEF IInv
<1>3. /\ JobOK(job) /\ sent = Len(Targets(job)) /\ need > 0
      /\ need \in Nat /\ ack \in Nat /\ need = ack + Cardinality(Pending)
  BY <1>1, <1>2 DEF CoordInv, TypeOK, AcksBalance
<1>4. Plan(job, sent) = {} /\ Plan(job', sent') = {}
  BY <1>1, <1>3, PlanEnd, PlanNone
<1>5. TypeOK'
  BY <1>1, <1>2, <1>3 DEF TypeOK
<1>6. CoordInv'
  BY <1>1, <1>2, <1>3 DEF CoordInv
<1>7. StartInv' /\ TaskInv'
  BY <1>1, <1>2 DEF StartInv, TaskInv
<1>8. StageInv'
  BY <1>1, <1>2, <1>4 DEF StageInv
<1>9. Pending' = Pending
  <2>1. Pending = PendingOf(job, sent, cmds, npc) /\ Pending' = PendingOf(job', sent', cmds', npc')
    BY <1>1, <1>3, PendingIs, PendingIsPrime
  <2> QED BY <2>1, <1>1, <1>4 DEF PendingOf
<1>10. Pending \subseteq ParityNodes
  BY DEF Pending
<1>11. IsFiniteSet(Pending) /\ Cardinality(Pending) \in Nat
  BY <1>10, PendingFinite
<1>12. AcksBalance'
  BY <1>1, <1>3, <1>9, <1>11 DEF AcksBalance
<1>13. Outcome
  <2>1. CASE need = 1
    <3>1. Cardinality(Pending) = 0
      BY <2>1, <1>1, <1>3, <1>11
    <3>2. Pending = {}
      BY <3>1, <1>11, FS_EmptySet
    <3> QED BY <2>1, <3>2, <1>1, <1>9 DEF Outcome, CompleteStep
  <2>2. CASE need # 1
    BY <2>2, <1>1, <1>9 DEF Outcome, QuietStep
  <2> QED BY <2>1, <2>2
<1> QED BY <1>5, <1>6, <1>7, <1>8, <1>12, <1>13 DEF IInv

\* The return of the coordinator changes no node.
LEMMA FinishOK ==
    ASSUME IInv, Finish
    PROVE  IInv' /\ Outcome
<1>1. /\ cpc = "idle" /\ cpc' = "done"
      /\ UNCHANGED <<stripe, job, sent, need, test, ack, cmds, queue, npc, cur, buf, pi, sj,
                     disk, lost>>
  BY DEF Finish, nvars
<1>2. TypeOK /\ CoordInv /\ StartInv /\ TaskInv /\ StageInv /\ AcksBalance
  BY DEF IInv
<1>3. TypeOK' /\ CoordInv'
  BY <1>1, <1>2 DEF TypeOK, CoordInv
<1>4. StartInv' /\ TaskInv' /\ StageInv'
  BY <1>1, <1>2 DEF StartInv, TaskInv, StageInv
<1>5. Pending' = Pending
  BY <1>1 DEF Pending
<1>6. AcksBalance'
  BY <1>1, <1>2, <1>5 DEF AcksBalance
<1>7. Outcome
  BY <1>1, <1>5 DEF Outcome, QuietStep
<1> QED BY <1>3, <1>4, <1>6, <1>7 DEF IInv

\* A command taken by a parity leaves it pending, now by its npc.
LEMMA TakeCmdOK ==
    ASSUME IInv, NEW n \in Nodes, TakeCmd(n)
    PROVE  IInv' /\ Outcome
<1> DEFINE h == Head(cmds[n])
           s == FirstPhase(n, h)
<1>1. /\ npc[n] = "idle" /\ cmds[n] # <<>> /\ cmds' = [cmds EXCEPT ![n] = Tail(@)]
      /\ cur' = [cur EXCEPT ![n] = h] /\ npc' = [npc EXCEPT ![n] = s]
      /\ UNCHANGED <<cpc, stripe, job, sent, need, test, ack, queue, buf, pi, sj, disk, lost>>
  BY DEF TakeCmd, cvars
<1>2. TypeOK /\ CoordInv /\ StartInv /\ TaskInv /\ StageInv /\ AcksBalance
  BY DEF IInv
<1>3. s \in {"send", "recv", "exit"}
  BY DEF FirstPhase
<1>4. /\ cmds[n] \in Seq(Cmd) /\ h \in Cmd /\ h = cmds[n][1] /\ Tail(cmds[n]) \in Seq(Cmd)
      /\ Len(cmds[n]) \in Nat /\ Len(cmds[n]) > 0 /\ Len(Tail(cmds[n])) = Len(cmds[n]) - 1
      /\ \A i \in 1 .. (Len(cmds[n]) - 1) : Tail(cmds[n])[i] = cmds[n][i + 1]
  BY <1>1, <1>2 DEF TypeOK
<1> HIDE DEF h, s
<1>5. /\ cmds' \in [Nodes -> Seq(Cmd)] /\ cmds'[n] = Tail(cmds[n])
      /\ \A m \in Nodes : m # n => cmds'[m] = cmds[m] /\ npc'[m] = npc[m] /\ cur'[m] = cur[m]
      /\ npc'[n] = s /\ cur'[n] = h
  BY <1>1, <1>2, <1>4 DEF TypeOK
<1>6. TypeOK'
  BY <1>1, <1>2, <1>3, <1>4, <1>5 DEF TypeOK
<1>7. CoordInv'
  BY <1>1, <1>2 DEF CoordInv
<1>8. StartInv'
  <2>1. cpc # "init"
    BY <1>1, <1>2 DEF StartInv
  <2>2. \A m \in Nodes : npc'[m] # "off"
    BY <2>1, <1>2, <1>3, <1>5 DEF StartInv
  <2> QED BY <2>1, <2>2, <1>1 DEF StartInv
<1>9. ASSUME NEW TT, \A i \in 1 .. Len(cmds[n]) : cmds[n][i].task \in TT
      PROVE  h.task \in TT /\ \A i \in 1 .. Len(cmds'[n]) : cmds'[n][i].task \in TT
  <2>1. 1 \in 1 .. Len(cmds[n])
    BY <1>4
  <2>2. ASSUME NEW i \in 1 .. Len(cmds'[n]) PROVE cmds'[n][i].task \in TT
    <3>1. i \in 1 .. (Len(cmds[n]) - 1) /\ i + 1 \in 1 .. Len(cmds[n])
      BY <1>4, <1>5
    <3>2. cmds'[n][i] = cmds[n][i + 1]
      BY <3>1, <1>4, <1>5
    <3> QED BY <3>1, <3>2, <1>9
  <2> QED BY <2>1, <2>2, <1>4, <1>9
<1>10. TaskInv'
  <2>1. ASSUME NEW d \in DataNodes
        PROVE  /\ npc'[d] \notin Free => cur'[d].task \in DataTasks
               /\ \A i \in 1 .. Len(cmds'[d]) : cmds'[d][i].task \in DataTasks
    <3>1. CASE d = n
      BY <3>1, <1>2, <1>5, <1>9 DEF TaskInv
    <3>2. CASE d # n
      BY <3>2, <1>2, <1>5, NodeFacts DEF TaskInv
    <3> QED BY <3>1, <3>2
  <2>2. ASSUME NEW p \in ParityNodes
        PROVE  /\ npc'[p] \notin Free => cur'[p].task \in ParityTasks
               /\ \A i \in 1 .. Len(cmds'[p]) : cmds'[p][i].task \in ParityTasks
    <3>1. CASE p = n
      BY <3>1, <1>2, <1>5, <1>9 DEF TaskInv
    <3>2. CASE p # n
      BY <3>2, <1>2, <1>5, NodeFacts DEF TaskInv
    <3> QED BY <3>1, <3>2
  <2> QED BY <2>1, <2>2 DEF TaskInv
<1>11. n \in ParityNodes => cmds'[n] = <<>> /\ n \notin Plan(job, sent)
  <2> SUFFICES ASSUME n \in ParityNodes PROVE cmds'[n] = <<>> /\ n \notin Plan(job, sent)
    OBVIOUS
  <2>1. Len(cmds[n]) <= 1 /\ n \notin Plan(job, sent)
    BY <1>1, <1>2 DEF StageInv
  <2> DEFINE t == Tail(cmds[n])
  <2>2. Len(t) = Len(cmds[n]) - 1 /\ t \in Seq(Cmd) /\ cmds'[n] = t
    BY <1>4, <1>5, Zenon
  <2>3. Len(cmds[n]) \in Nat /\ Len(cmds[n]) > 0
    BY <1>4, Zenon
  <2> HIDE DEF t
  <2>4. t = <<>>
    BY <2>1, <2>2, <2>3
  <2> QED BY <2>1, <2>2, <2>4
<1>12. StageInv'
  <2> SUFFICES ASSUME NEW p \in ParityNodes
               PROVE  /\ Len(cmds'[p]) <= 1
                      /\ cmds'[p] # <<>> => npc'[p] = "idle"
                      /\ p \in Plan(job', sent') => cmds'[p] = <<>> /\ npc'[p] \in Free
    BY DEF StageInv
  <2>1. CASE p = n
    <3>1. Len(<<>>) <= 1
      OBVIOUS
    <3> QED BY <2>1, <3>1, <1>1, <1>11
  <2>2. CASE p # n
    BY <2>2, <1>1, <1>2, <1>5, NodeFacts DEF StageInv
  <2> QED BY <2>1, <2>2
<1>13. Pending' = Pending
  <2>1. Pending = PendingOf(job, sent, cmds, npc) /\ Pending' = PendingOf(job', sent', cmds', npc')
    BY <1>1, <1>2, CoordJob, PendingIs, PendingIsPrime DEF TypeOK
  <2>2. ASSUME NEW p \in ParityNodes
        PROVE  p \in PendingOf(job', sent', cmds', npc') <=> p \in PendingOf(job, sent, cmds, npc)
    <3>1. CASE p = n
      BY <3>1, <1>1, <1>3, <1>5 DEF PendingOf, Free
    <3>2. CASE p # n
      <4>1. cmds'[p] = cmds[p] /\ npc'[p] = npc[p]
        BY <3>2, <1>5, NodeFacts
      <4> QED BY <4>1, <1>1 DEF PendingOf
    <3> QED BY <3>1, <3>2
  <2> QED BY <2>1, <2>2 DEF PendingOf
<1>14. AcksBalance'
  BY <1>1, <1>2, <1>13 DEF AcksBalance
<1>15. Outcome
  BY <1>1, <1>13 DEF Outcome, QuietStep
<1> QED BY <1>6, <1>7, <1>8, <1>10, <1>12, <1>14, <1>15 DEF IInv

\* A parity stops being pending exactly with its ack.
LEMMA HandlerStepOK ==
    ASSUME IInv, TypeOK', NEW n \in Nodes, HandlerStep(n)
    PROVE  IInv' /\ Outcome
<1>1. /\ npc[n] \notin Free
      /\ UNCHANGED <<cpc, stripe, job, sent, need, test, cmds>>
  BY DEF HandlerStep, cvars
<1>2. PICK s \in NodeStates \ {"off"} :
         /\ npc' = [npc EXCEPT ![n] = s]
         /\ \/ s # "idle" /\ ack' = ack /\ cur' = cur
            \/ /\ s = "idle" /\ cur' = [cur EXCEPT ![n] = NoCmd]
               /\ \/ cur[n].task \in DataTasks /\ ack' = ack
                  \/ cur[n].task \in ParityTasks /\ ack' = ack + 1
  BY DEF HandlerStep
<1>3. TypeOK /\ CoordInv /\ StartInv /\ TaskInv /\ StageInv /\ AcksBalance
  BY DEF IInv
<1>4. /\ npc'[n] = s /\ s # "off" /\ (s # "idle" => s \notin Free)
      /\ \A m \in Nodes : m # n => npc'[m] = npc[m] /\ cur'[m] = cur[m]
      /\ (s # "idle" => cur'[n] = cur[n])
  BY <1>2, <1>3 DEF TypeOK, Free
<1>5. CoordInv'
  BY <1>1, <1>3 DEF CoordInv
<1>6. cpc # "init" /\ StartInv'
  <2>1. cpc # "init"
    BY <1>1, <1>3 DEF StartInv
  <2>2. \A m \in Nodes : npc'[m] # "off"
    BY <2>1, <1>3, <1>4 DEF StartInv
  <2> QED BY <2>1, <2>2, <1>1 DEF StartInv
<1>7. TaskInv'
  <2>1. \A m \in Nodes : npc'[m] \notin Free => npc[m] \notin Free /\ cur'[m] = cur[m]
    BY <1>1, <1>4 DEF Free
  <2> QED BY <2>1, <1>1, <1>3, NodeFacts DEF TaskInv
<1>8. n \in ParityNodes => cmds[n] = <<>> /\ n \notin Plan(job, sent)
  BY <1>1, <1>3 DEF StageInv, Free
<1>9. StageInv'
  <2>1. \A p \in ParityNodes : p # n => npc'[p] = npc[p]
    BY <1>4, NodeFacts
  <2> QED BY <2>1, <1>1, <1>3, <1>8 DEF StageInv
<1>10. Pending = PendingOf(job, sent, cmds, npc) /\ Pending' = PendingOf(job', sent', cmds', npc')
  BY <1>1, <1>3, CoordJob, PendingIs, PendingIsPrime DEF TypeOK
<1>11. \A p \in ParityNodes : p # n =>
          (p \in PendingOf(job', sent', cmds', npc') <=> p \in PendingOf(job, sent, cmds, npc))
  <2>1. \A p \in ParityNodes : p # n => npc'[p] = npc[p]
    BY <1>4, NodeFacts
  <2> QED BY <2>1, <1>1 DEF PendingOf
<1>12. n \in ParityNodes => n \in Pending
  BY <1>1, <1>10 DEF PendingOf
<1>13. CASE ack' = ack /\ (s # "idle" \/ cur[n].task \in DataTasks)
  <2>1. n \in ParityNodes => n \in PendingOf(job', sent', cmds', npc')
    <3> SUFFICES ASSUME n \in ParityNodes PROVE npc'[n] \notin Free
      BY DEF PendingOf
    <3>1. cur[n].task \in ParityTasks
      BY <1>1, <1>3 DEF TaskInv
    <3>2. s # "idle"
      BY <3>1, <1>13 DEF ParityTasks, DataTasks
    <3> QED BY <3>2, <1>4
  <2>2. Pending' = Pending
    BY <2>1, <1>10, <1>11, <1>12 DEF PendingOf
  <2>3. AcksBalance'
    BY <2>2, <1>1, <1>3, <1>13 DEF AcksBalance
  <2>4. Outcome
    BY <2>2, <1>1 DEF Outcome, QuietStep
  <2> QED BY <2>3, <2>4, <1>5, <1>6, <1>7, <1>9 DEF IInv
<1>14. CASE ack' = ack + 1 /\ s = "idle" /\ cur[n].task \in ParityTasks
  <2>1. n \in ParityNodes
    <3>1. n \notin DataNodes
      BY <1>1, <1>3, <1>14 DEF TaskInv, ParityTasks, DataTasks
    <3> QED BY <3>1, NodeFacts
  <2>2. n \notin PendingOf(job', sent', cmds', npc')
    BY <2>1, <1>1, <1>4, <1>8, <1>14 DEF PendingOf, Free
  <2>3. Pending' = Pending \ {n} /\ n \in Pending /\ Pending \subseteq ParityNodes
    BY <2>1, <2>2, <1>10, <1>11, <1>12 DEF PendingOf
  <2>4. IsFiniteSet(Pending) /\ Cardinality(Pending) \in Nat
    BY <2>3, PendingFinite
  <2>5. Cardinality(Pending') = Cardinality(Pending) - 1
    BY <2>3, <2>4, FS_RemoveElement
  <2>6. AcksBalance'
    <3>1. cpc \in {"idle", "send", "ack", "done"} /\ ack \in Nat
      BY <1>3, <1>6 DEF TypeOK
    <3>2. need = ack + Cardinality(Pending)
      BY <3>1, <1>3 DEF AcksBalance
    <3> QED BY <3>1, <3>2, <2>4, <2>5, <1>1, <1>14 DEF AcksBalance
  <2>7. cpc \in {"send", "ack"}
    BY <2>3, <1>3, <1>6, NothingPending DEF TypeOK
  <2>8. Outcome
    BY <2>3, <2>7, <1>1 DEF Outcome, CommitStep
  <2> QED BY <2>6, <2>8, <1>5, <1>6, <1>7, <1>9 DEF IInv
<1> QED BY <1>2, <1>13, <1>14

\* The induction step.
LEMMA NextIInv ==
    ASSUME IInv, [Next]_vars
    PROVE  IInv' /\ Outcome
<1>1. CASE UNCHANGED vars
  <2>1. UNCHANGED <<cpc, stripe, job, sent, need, test, ack, cmds, queue, npc, cur, buf, pi, sj,
                    disk, lost>>
    BY <1>1 DEF vars, cvars, nvars
  <2>2. TypeOK' /\ CoordInv'
    BY <2>1 DEF IInv, TypeOK, CoordInv
  <2>3. StartInv' /\ TaskInv' /\ StageInv'
    BY <2>1 DEF IInv, StartInv, Off, TaskInv, StageInv
  <2>4. Pending' = Pending
    BY <2>1 DEF Pending
  <2>5. AcksBalance'
    BY <2>1, <2>4 DEF IInv, AcksBalance
  <2>6. Outcome
    BY <2>1, <2>4 DEF Outcome, QuietStep
  <2> QED BY <2>2, <2>3, <2>5, <2>6 DEF IInv
<1>2. CASE CoordinatorStep
  BY <1>2, RecvTestOK, StartStripeOK, SendCmdOK, RecvAckOK, FinishOK DEF CoordinatorStep
<1>3. ASSUME NEW n \in Nodes, NodeStep(n) \/ OverreadFault(n)
      PROVE  IInv' /\ Outcome
  <2>1. CASE StartHelper(n)
    BY <2>1, StartHelperOK
  <2>2. CASE TakeCmd(n)
    BY <2>2, TakeCmdOK
  <2>3. CASE Handle(n)
    BY <2>3, HandleOK, HandlerStepOK DEF IInv
  <2>4. CASE OverreadFault(n)
    BY <2>4, OverreadFaultOK, HandlerStepOK DEF IInv
  <2> QED BY <1>3, <2>1, <2>2, <2>3, <2>4 DEF NodeStep
<1>4. CASE Terminated
  BY <1>1, <1>4 DEF Terminated
<1> QED BY <1>1, <1>2, <1>3, <1>4 DEF Next
-----------------------------------------------------------------------------
(* The theorems. *)

\* The strengthening holds in every reachable state.
THEOREM Inductive == Spec => []IInv
<1>1. Init => IInv
  BY InitIInv
<1>2. IInv /\ [Next]_vars => IInv'
  BY NextIInv
<1> QED BY <1>1, <1>2, PTL DEF Spec

\* Every list, message, command and block file stays well formed, whatever the
\* order in which coordinator and nodes push and pop (UPNode::doProcess,
\* UPCoordinator::trigger_update).
THEOREM TypeCorrect == Spec => []TypeOK
<1>1. IInv => TypeOK
  BY DEF IInv
<1> QED BY <1>1, Inductive, PTL

\* UPCoordinator::recvAck counts anonymous acks, yet never one too many or too
\* few: the acks it still waits for are those in the list and those of the
\* parity nodes that have not committed the stripe.
THEOREM AcksAlwaysBalance == Spec => []AcksBalance
<1>1. IInv => AcksBalance
  BY DEF IInv
<1> QED BY <1>1, Inductive, PTL

\* The update path implements the stripe barrier: each parity commits each
\* stripe exactly once, and no stripe begins before all have committed.
THEOREM RefinesBarrier == Spec => ImplementsBarrier
<1>1. Init => Barrier!Init
  <2> SUFFICES ASSUME Init PROVE Barrier!Init
    OBVIOUS
  <2>1. Pending = {} /\ stripe = 0 /\ (cpc \in {"send", "ack"}) = FALSE
    BY InitIInv DEF Init
  <2> QED BY <2>1 DEF Barrier!Init
<1>2. IInv /\ [Next]_vars => [Barrier!Next]_(Barrier!bvars)
  <2> SUFFICES ASSUME IInv, [Next]_vars PROVE [Barrier!Next]_(Barrier!bvars)
    OBVIOUS
  <2>0. Outcome /\ stripe \in Int /\ Pending \subseteq ParityNodes
    BY NextIInv, ParamsAssumption DEF IInv, TypeOK, Pending
  <2>1. CASE BeginStep
    BY <2>0, <2>1 DEF BeginStep, Barrier!Next, Barrier!Begin
  <2>2. CASE CommitStep
    <3>1. PICK p \in Pending : Pending' = Pending \ {p}
      BY <2>2 DEF CommitStep
    <3>2. Barrier!Commit(p)
      BY <2>0, <2>2, <3>1 DEF CommitStep, Barrier!Commit
    <3> QED BY <2>0, <3>1, <3>2 DEF Barrier!Next
  <2>3. CASE CompleteStep
    BY <2>0, <2>3 DEF CompleteStep, Barrier!Next, Barrier!Complete
  <2>4. CASE QuietStep
    BY <2>4 DEF QuietStep, Barrier!bvars
  <2> QED BY <2>0, <2>1, <2>2, <2>3, <2>4 DEF Outcome
<1> QED BY <1>1, <1>2, Inductive, PTL DEF Spec, ImplementsBarrier, Barrier!Spec
-----------------------------------------------------------------------------
(***************************************************************************)
(* Part II: the data messages.  Their Redis keys carry no stripe number    *)
(* and no sender; what keeps the stripes apart is that every list holds    *)
(* exactly what was sent in the current stripe and not yet popped.  The    *)
(* invariant counts it: for each node, the messages it has consumed and    *)
(* those in its list are as many as the sends that have been executed of   *)
(* those the stripe's commands ask for.                                    *)
(***************************************************************************)

\* The task of node n in job j.
Role(j, n) ==
    IF j.policy = "raid" THEN IF n = j.collector THEN 2 ELSE IF n \in DataNodes THEN 1 ELSE 3
    ELSE IF j.policy = "delta" THEN IF n \in DataNodes THEN 4 ELSE 5
    ELSE IF n \in DataNodes THEN 6 ELSE IF n = j.collector THEN 7 ELSE 8

TargetSet(j) == ParityNodes \cup Ids(j.vec)

\* The key of the lists the job's data messages go to.
KeyFor(j) == IF j.policy = "raid" THEN "raidData"
             ELSE IF j.policy = "delta" THEN "deltaData" ELSE "crdData"

\* The messages a job asks for, as <<sender, receiver, key>>.
ToCollector(j) == {<<d, j.collector, d>> : d \in Ids(j.vec) \ {j.collector}}
FromCollector(j) == {<<j.collector, p, p>> : p \in ParityNodes}
ToParities(j) == {<<d, p, p>> : d \in Ids(j.vec), p \in ParityNodes}
Slices(j) == {<<j.collector, p, s>> : p \in ParityNodes \ {j.collector},
                                      s \in 0 .. (SubNum(j.vec) - 1)}
Edges(j) == IF j.policy = "raid" THEN ToCollector(j) \cup FromCollector(j)
            ELSE IF j.policy = "delta" THEN ToParities(j)
            ELSE ToCollector(j) \cup Slices(j)
In(j, n) == {e \in Edges(j) : e[2] = n}

\* How many of them node n waits for.
Count(j, n) == IF Role(j, n) = 2 THEN Len(j.vec) - 1
               ELSE IF Role(j, n) = 3 THEN 1
               ELSE IF Role(j, n) \in {5, 7} THEN Len(j.vec)
               ELSE IF Role(j, n) = 8 THEN SubNum(j.vec) ELSE 0

\* The fields of c that the handlers of node n read, as the job sets them.
IsCmd(c, j, n, s) ==
    /\ c.task = Role(j, n) /\ c.sid = s
    /\ c.task \in {2, 5, 7} => c.num = Len(j.vec)
    /\ c.task \in {2, 7, 8} => c.upds = j.vec
    /\ c.task \in {1, 6} => c.to = j.collector
    /\ c.task \in {4, 6} => c.upds = <<UpdOf(j.vec, n)>>
-----------------------------------------------------------------------------
(* The shape of a job. *)

\* get_upd_solu_crd gives a job at least one sub-set.
LEMMA SubNumOK ==
    ASSUME NEW v \in Seq(Upd), v # <<>>
    PROVE  SubNum(v) \in Nat /\ SubNum(v) > 0
<1>1. v \in Vecs
  <2>1. Upd \subseteq UpdBlock
    BY NodeFacts DEF Upd, UpdBlock
  <2> QED BY <2>1 DEF Vecs
<1>2. Grouping(v, get_upd_solu_crd(v))
  BY <1>1, SolutionIsGrouping
<1>3. get_upd_solu_crd(v) \in Seq(Vecs) /\ Len(get_upd_solu_crd(v)) > 0
  BY <1>2 DEF Grouping
<1> QED BY <1>3 DEF SubNum

\* The image of a finite set under an injective function.
LEMMA ImageCard ==
    ASSUME NEW S, IsFiniteSet(S), NEW T, NEW f \in [S -> T],
           \A x, y \in S : f[x] = f[y] => x = y,
           \A t \in T : \E x \in S : f[x] = t
    PROVE  IsFiniteSet(T) /\ Cardinality(T) = Cardinality(S)
<1>1. f \in Bijection(S, T)
  BY DEF Bijection, Injection, Surjection, IsInjective
<1>2. ExistsBijection(S, T)
  BY <1>1 DEF ExistsBijection
<1> QED BY <1>2, FS_Bijection

\* The blocks of a job are as many as its vector is long.
LEMMA JobFacts ==
    ASSUME NEW j, JobOK(j)
    PROVE  /\ Len(j.vec) \in Nat /\ Len(j.vec) > 0
           /\ SubNum(j.vec) \in Nat /\ SubNum(j.vec) > 0
           /\ Ids(j.vec) \subseteq DataNodes
           /\ IsFiniteSet(Ids(j.vec)) /\ Cardinality(Ids(j.vec)) = Len(j.vec)
           /\ j.policy = "raid" => j.collector \in Ids(j.vec)
           /\ j.policy \notin {"raid", "delta"} => j.collector \in ParityNodes
           /\ TargetSet(j) \subseteq Nodes
<1> DEFINE v == j.vec
           n == Len(v)
           f == [i \in 1 .. n |-> v[i].id]
<1>1. v \in Seq(Upd) /\ v # <<>> /\ n \in Nat /\ n > 0 /\ DOMAIN v = 1 .. n
      /\ \A a, b \in DOMAIN v : v[a].id = v[b].id => a = b
  BY DEF JobOK
<1>2. SubNum(v) \in Nat /\ SubNum(v) > 0
  BY <1>1, SubNumOK
<1>3. Ids(v) \subseteq DataNodes
  BY <1>1, IdSeqOK DEF Ids
<1>4. f \in [1 .. n -> Ids(v)] /\ (\A t \in Ids(v) : \E i \in 1 .. n : f[i] = t)
      /\ \A a, b \in 1 .. n : f[a] = f[b] => a = b
  BY <1>1 DEF Ids
<1>5. IsFiniteSet(1 .. n) /\ Cardinality(1 .. n) = n
  <2>1. 1 \in Int /\ n \in Int /\ ~(1 > n) /\ n - 1 + 1 = n
    BY <1>1
  <2> QED BY <2>1, FS_Interval
<1> HIDE DEF n, f, v
<1>6. IsFiniteSet(Ids(v)) /\ Cardinality(Ids(v)) = n
  BY <1>4, <1>5, ImageCard
<1>7. j.policy = "raid" => j.collector \in Ids(j.vec)
  BY DEF JobOK, Collectors
<1>8. j.policy \notin {"raid", "delta"} => j.collector \in ParityNodes
  BY DEF JobOK, Collectors, IsCrd
<1> QED BY <1>1, <1>2, <1>3, <1>6, <1>7, <1>8, NodeFacts DEF TargetSet, v, n

\* The command the coordinator makes for a target.
LEMMA CmdForIs ==
    ASSUME NEW j, JobOK(j), NEW n \in TargetSet(j)
    PROVE  IsCmd(CmdFor(j, n), j, n, stripe)
<1> DEFINE v == j.vec
           c == j.collector
           none == <<>>
           own  == <<UpdOf(v, n)>>
<1>1. n \in DataNodes \/ n \in ParityNodes
  BY JobFacts, NodeFacts DEF TargetSet
<1>2. n \in DataNodes => n \notin ParityNodes
  BY NodeFacts
<1> HIDE DEF v, c, none, own
<1>3. ASSUME NEW t, NEW k, NEW u, NEW to, CmdFor(j, n) = Command(t, k, u, to),
             t = Role(j, n), t \in {2, 5, 7} => k = Len(v), t \in {2, 7, 8} => u = v,
             t \in {1, 6} => to = c, t \in {4, 6} => u = own
      PROVE  IsCmd(CmdFor(j, n), j, n, stripe)
  BY <1>3 DEF Command, IsCmd, v, c, own
<1>4. CASE j.policy = "raid"
  <2>1. c \in DataNodes
    BY <1>4, JobFacts DEF c
  <2>2. CmdFor(j, n) = RaidCmd(n, v, c)
    BY <1>4 DEF CmdFor, v, c
  <2>3. CASE n = c
    <3>1. CmdFor(j, n) = Command(2, Len(v), v, 0)
      BY <2>2, <2>3 DEF RaidCmd
    <3>2. Role(j, n) = 2
      BY <1>4, <2>3 DEF Role, c
    <3> QED BY <3>1, <3>2, <1>3
  <2>4. CASE n # c /\ n \in DataNodes
    <3>1. CmdFor(j, n) = Command(1, 0, none, c)
      BY <2>2, <2>4 DEF RaidCmd, none
    <3>2. Role(j, n) = 1
      BY <1>4, <2>4 DEF Role, c
    <3> QED BY <3>1, <3>2, <1>3
  <2>5. CASE n \notin DataNodes
    <3>1. CmdFor(j, n) = Command(3, 0, none, 0)
      BY <2>1, <2>2, <2>5 DEF RaidCmd, none
    <3>2. Role(j, n) = 3
      BY <1>4, <2>1, <2>5 DEF Role, c
    <3> QED BY <3>1, <3>2, <1>3
  <2> QED BY <2>3, <2>4, <2>5
<1>5. CASE j.policy = "delta"
  <2>2. CmdFor(j, n) = DeltaCmd(n, v)
    BY <1>5 DEF CmdFor, v, c
  <2>3. CASE n \in DataNodes
    <3>1. CmdFor(j, n) = Command(4, 0, own, 0)
      BY <2>2, <2>3 DEF DeltaCmd, own
    <3>2. Role(j, n) = 4
      BY <1>5, <2>3 DEF Role, c
    <3> QED BY <3>1, <3>2, <1>3
  <2>4. CASE n \notin DataNodes
    <3>1. CmdFor(j, n) = Command(5, Len(v), none, 0)
      BY <2>2, <2>4 DEF DeltaCmd, none
    <3>2. Role(j, n) = 5
      BY <1>5, <2>4 DEF Role, c
    <3> QED BY <3>1, <3>2, <1>3
  <2> QED BY <2>3, <2>4
<1>6. CASE j.policy \notin {"raid", "delta"}
  <2>1. c \in ParityNodes
    BY <1>6, JobFacts DEF c
  <2>2. CmdFor(j, n) = CrdCmd(n, v, c)
    BY <1>6 DEF CmdFor, v, c
  <2>3. CASE n \in DataNodes
    <3>1. CmdFor(j, n) = Command(6, 0, own, c)
      BY <2>1, <2>2, <2>3, <1>2 DEF CrdCmd, own
    <3>2. Role(j, n) = 6
      BY <1>6, <2>3 DEF Role, c
    <3> QED BY <3>1, <3>2, <1>3
  <2>4. CASE n \notin DataNodes /\ n = c
    <3>1. CmdFor(j, n) = Command(7, Len(v), v, 0)
      BY <2>2, <2>4 DEF CrdCmd
    <3>2. Role(j, n) = 7
      BY <1>6, <2>4 DEF Role, c
    <3> QED BY <3>1, <3>2, <1>3
  <2>5. CASE n \notin DataNodes /\ n # c
    <3>1. CmdFor(j, n) = Command(8, 0, v, 0)
      BY <2>2, <2>5 DEF CrdCmd
    <3>2. Role(j, n) = 8
      BY <1>6, <2>5 DEF Role, c
    <3> QED BY <3>1, <3>2, <1>3
  <2> QED BY <2>3, <2>4, <2>5
<1> QED BY <1>4, <1>5, <1>6

\* The messages sent to node n are as many as it waits for.
LEMMA InCount ==
    ASSUME NEW j, JobOK(j), NEW n \in Nodes
    PROVE  /\ IsFiniteSet(In(j, n)) /\ Cardinality(In(j, n)) = Count(j, n)
           /\ Count(j, n) \in Nat
           /\ Role(j, n) \in {2, 3, 5, 7, 8} \/ Count(j, n) = 0
<1> DEFINE v == j.vec
           c == j.collector
           I == Ids(v)
           none == {}
<1>1. /\ Len(v) \in Nat /\ Len(v) > 0 /\ SubNum(v) \in Nat /\ I \subseteq DataNodes
      /\ IsFiniteSet(I) /\ Cardinality(I) = Len(v)
      /\ (j.policy = "raid" => c \in I) /\ (j.policy \notin {"raid", "delta"} => c \in ParityNodes)
  BY JobFacts
<1>2. IsFiniteSet(none) /\ Cardinality(none) = 0
  BY FS_EmptySet
<1>3. n \in DataNodes <=> n \notin ParityNodes
  BY NodeFacts
<1> HIDE DEF v, c, I, none
<1>4. CASE j.policy = "raid"
  <2>1. c \in DataNodes /\ c \notin ParityNodes /\ c \in I
    BY <1>1, <1>4, NodeFacts
  <2>2. Edges(j) = {<<d, c, d>> : d \in I \ {c}} \cup {<<c, p, p>> : p \in ParityNodes}
    BY <1>4 DEF Edges, ToCollector, FromCollector, I, c, v
  <2>3. CASE n = c
    <3> DEFINE S == I \ {c}
               f == [d \in S |-> <<d, c, d>>]
    <3>1. In(j, n) = {<<d, c, d>> : d \in S}
      BY <2>1, <2>2, <2>3 DEF In
    <3>2. f \in [S -> In(j, n)] /\ (\A x, y \in S : f[x] = f[y] => x = y)
          /\ \A t \in In(j, n) : \E x \in S : f[x] = t
      BY <3>1
    <3>3. IsFiniteSet(S) /\ Cardinality(S) = Len(v) - 1
      BY <1>1, <2>1, FS_RemoveElement
    <3> HIDE DEF S, f
    <3>4. IsFiniteSet(In(j, n)) /\ Cardinality(In(j, n)) = Len(v) - 1
      BY <3>2, <3>3, ImageCard
    <3>5. Role(j, n) = 2
      BY <1>4, <2>3 DEF Role, c
    <3> QED BY <3>4, <3>5, <1>1 DEF Count, v
  <2>4. CASE n \in ParityNodes
    <3>1. In(j, n) = {<<c, n, n>>}
      BY <2>1, <2>2, <2>4 DEF In
    <3>2. IsFiniteSet(In(j, n)) /\ Cardinality(In(j, n)) = 1
      BY <3>1, FS_Singleton
    <3>3. Role(j, n) = 3
      BY <1>3, <1>4, <2>1, <2>4 DEF Role, c
    <3> QED BY <3>2, <3>3 DEF Count
  <2>5. CASE n \in DataNodes /\ n # c
    <3>1. In(j, n) = none
      BY <2>2, <2>5, <1>3 DEF In, none
    <3>2. Role(j, n) = 1
      BY <1>4, <2>5 DEF Role, c
    <3> QED BY <3>1, <3>2, <1>2 DEF Count
  <2> QED BY <2>3, <2>4, <2>5, <1>3
<1>5. CASE j.policy = "delta"
  <2>2. Edges(j) = {<<d, p, p>> : d \in I, p \in ParityNodes}
    BY <1>5 DEF Edges, ToParities, I, c, v
  <2>4. CASE n \in ParityNodes
    <3> DEFINE f == [d \in I |-> <<d, n, n>>]
    <3>1. In(j, n) = {<<d, n, n>> : d \in I}
      BY <2>2, <2>4 DEF In
    <3>2. f \in [I -> In(j, n)] /\ (\A x, y \in I : f[x] = f[y] => x = y)
          /\ \A t \in In(j, n) : \E x \in I : f[x] = t
      BY <3>1
    <3> HIDE DEF f
    <3>4. IsFiniteSet(In(j, n)) /\ Cardinality(In(j, n)) = Len(v)
      BY <3>2, <1>1, ImageCard
    <3>5. Role(j, n) = 5
      BY <1>3, <1>5, <2>4 DEF Role
    <3> QED BY <3>4, <3>5, <1>1 DEF Count, v
  <2>5. CASE n \in DataNodes
    <3>1. In(j, n) = none
      BY <2>2, <2>5, <1>3 DEF In, none
    <3>2. Role(j, n) = 4
      BY <1>5, <2>5 DEF Role, c
    <3> QED BY <3>1, <3>2, <1>2 DEF Count
  <2> QED BY <2>4, <2>5, <1>3
<1>6. CASE j.policy \notin {"raid", "delta"}
  <2>1. c \in ParityNodes /\ c \notin DataNodes /\ c \notin I
    BY <1>1, <1>6, NodeFacts
  <2> DEFINE subs == 0 .. (SubNum(v) - 1)
  <2>2. Edges(j) = {<<d, c, d>> : d \in I} \cup
                   {<<c, p, s>> : p \in ParityNodes \ {c}, s \in subs}
    BY <1>6, <2>1 DEF Edges, ToCollector, Slices, I, c, v
  <2>3. CASE n = c
    <3> DEFINE f == [d \in I |-> <<d, c, d>>]
    <3>1. In(j, n) = {<<d, c, d>> : d \in I}
      BY <2>2, <2>3 DEF In
    <3>2. f \in [I -> In(j, n)] /\ (\A x, y \in I : f[x] = f[y] => x = y)
          /\ \A t \in In(j, n) : \E x \in I : f[x] = t
      BY <3>1
    <3> HIDE DEF f
    <3>4. IsFiniteSet(In(j, n)) /\ Cardinality(In(j, n)) = Len(v)
      BY <3>2, <1>1, ImageCard
    <3>5. Role(j, n) = 7
      BY <1>6, <2>1, <2>3 DEF Role, c
    <3> QED BY <3>4, <3>5, <1>1 DEF Count, v
  <2>4. CASE n \in ParityNodes /\ n # c
    <3> DEFINE f == [s \in subs |-> <<c, n, s>>]
    <3>1. In(j, n) = {<<c, n, s>> : s \in subs}
      BY <2>2, <2>4 DEF In
    <3>2. f \in [subs -> In(j, n)] /\ (\A x, y \in subs : f[x] = f[y] => x = y)
          /\ \A t \in In(j, n) : \E x \in subs : f[x] = t
      BY <3>1
    <3>3. IsFiniteSet(subs) /\ Cardinality(subs) = SubNum(v)
      <4>1. 0 \in Int /\ SubNum(v) - 1 \in Int /\ (SubNum(v) - 1) - 0 + 1 = SubNum(v)
            /\ (0 > SubNum(v) - 1 => SubNum(v) = 0)
        BY <1>1
      <4> QED BY <4>1, FS_Interval
    <3> HIDE DEF f, subs
    <3>4. IsFiniteSet(In(j, n)) /\ Cardinality(In(j, n)) = SubNum(v)
      BY <3>2, <3>3, ImageCard
    <3>5. Role(j, n) = 8
      BY <1>3, <1>6, <2>4 DEF Role, c
    <3> QED BY <3>4, <3>5, <1>1 DEF Count, v
  <2>5. CASE n \in DataNodes
    <3>1. In(j, n) = none
      BY <2>1, <2>2, <2>5, <1>3 DEF In, none
    <3>2. Role(j, n) = 6
      BY <1>6, <2>5 DEF Role, c
    <3> QED BY <3>1, <3>2, <1>2 DEF Count
  <2> QED BY <2>3, <2>4, <2>5, <1>3
<1> QED BY <1>4, <1>5, <1>6

\* The messages of a job, by the task of their sender and of their receiver.
LEMMA EdgeFacts ==
    ASSUME NEW j, JobOK(j), NEW e \in Edges(j)
    PROVE  /\ e = <<e[1], e[2], e[3]>> /\ e[1] \in TargetSet(j) /\ e[2] \in Nodes /\ e[3] \in Nat
           /\ Role(j, e[1]) \in {1, 2, 4, 6, 7}
           /\ Role(j, e[1]) \in {1, 6} => e[2] = j.collector /\ e[3] = e[1]
           /\ Role(j, e[1]) \in {2, 4} => e[2] \in ParityNodes /\ e[3] = e[2]
           /\ Role(j, e[1]) = 7 => /\ e[2] \in ParityNodes /\ e[2] # e[1]
                                   /\ e[3] \in 0 .. (SubNum(j.vec) - 1)
           /\ Role(j, e[2]) \in {2, 7} => e[3] \in Ids(j.vec)
           /\ Role(j, e[2]) \in {3, 5} => e[3] \in Nodes
           /\ Role(j, e[2]) = 8 => e[3] \in 0 .. (SubNum(j.vec) - 1)
<1> DEFINE c == j.collector
           I == Ids(j.vec)
           subs == 0 .. (SubNum(j.vec) - 1)
<1>1. /\ I \subseteq DataNodes /\ SubNum(j.vec) \in Nat
      /\ (j.policy = "raid" => c \in I) /\ (j.policy \notin {"raid", "delta"} => c \in ParityNodes)
  BY JobFacts
<1>2. subs \subseteq Nat
  BY <1>1
<1> HIDE DEF c, I, subs
<1>3. /\ DataNodes \cap ParityNodes = {} /\ DataNodes \subseteq Nodes /\ ParityNodes \subseteq Nodes
      /\ Nodes \subseteq Nat
  BY NodeFacts
<1>4. CASE j.policy = "raid"
  <2>1. CASE e \in ToCollector(j)
    <3>1. PICK d \in I \ {c} : e = <<d, c, d>>
      BY <2>1 DEF ToCollector, I, c
    <3>2. e[1] = d /\ e[2] = c /\ e[3] = d
      BY <3>1
    <3>3. Role(j, d) = 1 /\ Role(j, c) = 2
      BY <1>1, <1>4 DEF Role, c
    <3>4. d \in I /\ d \in Nodes /\ d \in Nat /\ c \in Nodes
      BY <1>1, <1>3, <1>4, <3>1
    <3> QED BY <3>1, <3>2, <3>3, <3>4 DEF TargetSet, I, c
  <2>2. CASE e \in FromCollector(j)
    <3>1. PICK p \in ParityNodes : e = <<c, p, p>>
      BY <2>2 DEF FromCollector, c
    <3>2. e[1] = c /\ e[2] = p /\ e[3] = p
      BY <3>1
    <3>3. Role(j, p) = 3 /\ Role(j, c) = 2
      BY <1>1, <1>3, <1>4 DEF Role, c
    <3> QED BY <1>1, <1>3, <1>4, <3>1, <3>2, <3>3 DEF TargetSet, I, c
  <2> QED BY <1>4, <2>1, <2>2 DEF Edges
<1>5. CASE j.policy = "delta"
  <2>1. PICK d \in I, p \in ParityNodes : e = <<d, p, p>>
    BY <1>5 DEF Edges, ToParities, I
  <2>2. e[1] = d /\ e[2] = p /\ e[3] = p
    BY <2>1
  <2>3. Role(j, d) = 4 /\ Role(j, p) = 5
    BY <1>1, <1>3, <1>5 DEF Role
  <2> QED BY <1>1, <1>3, <2>1, <2>2, <2>3 DEF TargetSet, I
<1>6. CASE j.policy \notin {"raid", "delta"}
  <2>1. CASE e \in ToCollector(j)
    <3>1. PICK d \in I : e = <<d, c, d>>
      BY <2>1 DEF ToCollector, I, c
    <3>2. e[1] = d /\ e[2] = c /\ e[3] = d
      BY <3>1
    <3>3. Role(j, d) = 6 /\ Role(j, c) = 7
      BY <1>1, <1>3, <1>6 DEF Role, c
    <3>4. d \in I /\ d \in Nodes /\ d \in Nat /\ c \in Nodes
      BY <1>1, <1>3, <1>6, <3>1
    <3> QED BY <3>1, <3>2, <3>3, <3>4 DEF TargetSet, I, c
  <2>2. CASE e \in Slices(j)
    <3>1. PICK p \in ParityNodes \ {c}, s \in subs : e = <<c, p, s>>
      BY <2>2 DEF Slices, c, subs
    <3>2. e[1] = c /\ e[2] = p /\ e[3] = s
      BY <3>1
    <3>3. Role(j, p) = 8 /\ Role(j, c) = 7
      BY <1>1, <1>3, <1>6, <3>1 DEF Role, c
    <3> QED BY <1>1, <1>2, <1>3, <1>6, <3>1, <3>2, <3>3 DEF TargetSet, I, c, subs
  <2> QED BY <1>6, <2>1, <2>2 DEF Edges
<1> QED BY <1>4, <1>5, <1>6

\* The messages a handler sends are among those of the job.
LEMMA EdgeExists ==
    ASSUME NEW j, JobOK(j), NEW n \in TargetSet(j)
    PROVE  /\ Role(j, n) \in {1, 6} => <<n, j.collector, n>> \in Edges(j)
           /\ Role(j, n) \in {2, 4} => \A p \in ParityNodes : <<n, p, p>> \in Edges(j)
           /\ Role(j, n) = 7 => \A p \in ParityNodes \ {n}, s \in 0 .. (SubNum(j.vec) - 1) :
                                   <<n, p, s>> \in Edges(j)
<1> DEFINE c == j.collector
           subs == 0 .. (SubNum(j.vec) - 1)
<1>1. /\ (j.policy = "raid" => c \in DataNodes) /\ (j.policy \notin {"raid", "delta"} => c \in ParityNodes)
  BY JobFacts
<1>2. DataNodes \cap ParityNodes = {} /\ (n \in DataNodes => n \in Ids(j.vec))
  BY NodeFacts DEF TargetSet
<1> HIDE DEF subs
<1>3. CASE j.policy = "raid"
  BY <1>1, <1>2, <1>3 DEF Role, Edges, ToCollector, FromCollector
<1>4. CASE j.policy = "delta"
  BY <1>2, <1>4 DEF Role, Edges, ToParities
<1>5. CASE j.policy \notin {"raid", "delta"}
  <2>1. CASE n \in DataNodes
    BY <1>1, <1>2, <1>5, <2>1 DEF Role, Edges, ToCollector
  <2>2. CASE n \notin DataNodes
    BY <1>1, <1>2, <1>5, <2>2 DEF Role, Edges, Slices, subs
  <2> QED BY <2>1, <2>2
<1> QED BY <1>3, <1>4, <1>5 DEF subs

\* The handlers of a job push to and pop from the lists of the job's key.
LEMMA KeyIs ==
    ASSUME NEW j, NEW n
    PROVE  KeyOf(Role(j, n)) = KeyFor(j) /\ KeyFor(j) \in Keys /\ Role(j, n) \in 1 .. 8
<1>1. KeyFor(j) \in Keys
  BY DEF KeyFor, Keys
<1>2. /\ j.policy = "raid" => Role(j, n) \in {1, 2, 3}
      /\ j.policy = "delta" => Role(j, n) \in {4, 5}
      /\ j.policy \notin {"raid", "delta"} => Role(j, n) \in {6, 7, 8}
  BY DEF Role
<1>3. /\ \A t \in {1, 2, 3} : KeyOf(t) = "raidData"
      /\ \A t \in {4, 5} : KeyOf(t) = "deltaData"
      /\ \A t \in {6, 7, 8} : KeyOf(t) = "crdData"
  BY DEF KeyOf
<1> QED BY <1>1, <1>2, <1>3 DEF KeyFor
-----------------------------------------------------------------------------
(* The invariant. *)

Busy == cpc \in {"send", "ack"}

\* Node n has its command of the current stripe still to take.
Waiting(n) == n \in Plan(job, sent) \/ cmds[n] # <<>>

\* Node n is in a handler for the current stripe.
Active(n) == npc[n] \notin Free /\ cur[n].sid = stripe

\* The handler of its sender has gone past the push of message e.
Passed(e) ==
    IF cur[e[1]].task \in {1, 6} THEN npc[e[1]] = "write"
    ELSE \/ e[2] < ecK + pi[e[1]]
         \/ cur[e[1]].task = 7 /\ e[2] = ecK + pi[e[1]] /\ e[3] < sj[e[1]]

Sent(e) == ~Waiting(e[1]) /\ (Active(e[1]) => Passed(e))

\* A step executes no push of the job's messages, or that of e0.
SentSame     == \A e \in Edges(job) : Sent(e)' <=> Sent(e)
SentPlus(e0) == \A e \in Edges(job) : Sent(e)' <=> (Sent(e) \/ e = e0)
Arrived(n) == {e \in In(job, n) : Sent(e)}
Consumed(n) == IF Waiting(n) THEN 0
               ELSE IF Active(n) THEN Len(buf[n]) ELSE Count(job, n)

\* The states a handler passes through.
Phases(t) == IF t \in {1, 6} THEN {"send", "write"}
             ELSE IF t = 4 THEN {"send", "write", "exit"}
             ELSE IF t = 2 THEN {"recv", "send"}
             ELSE IF t = 7 THEN {"recv", "send", "ack"}
             ELSE {"recv", "write", "ack"}

\* How far the handler of node n is: what it has received and, in the sending
\* loops, which message is next.
Progress(n) ==
    /\ npc[n] \in Phases(cur[n].task)
    /\ npc[n] = "recv" => Len(buf[n]) < Count(job, n) /\ pi[n] = 0 /\ sj[n] = 0
    /\ npc[n] # "recv" => Len(buf[n]) = Count(job, n)
    /\ cur[n].task \in {2, 4, 7} /\ npc[n] \in {"send", "exit"} => pi[n] < ecM
    /\ cur[n].task \in {2, 4, 7} /\ npc[n] \in {"write", "ack"} => pi[n] = ecM
    /\ cur[n].task = 7 => sj[n] < SubNum(job.vec) /\ (ecK + pi[n] = n => sj[n] = 0)

\* A data node that has sent its part and has its own write still to do: the
\* only handler that outlives its stripe.
Straggler(n) == npc[n] = "write" /\ buf[n] = <<>> /\ cur[n].task \in {1, 4, 6}

NodeInv(n) ==
    /\ cur[n].sid <= stripe
    /\ npc[n] \in Free => buf[n] = <<>> /\ pi[n] = 0 /\ sj[n] = 0
    /\ npc[n] \notin Free /\ ~(Busy /\ Active(n)) => Straggler(n)
    /\ ~Busy => cmds[n] = <<>>
    /\ Busy /\ cmds[n] # <<>> => /\ Len(cmds[n]) = 1 /\ IsCmd(cmds[n][1], job, n, stripe)
                                 /\ n \in TargetSet(job) /\ n \notin Plan(job, sent)
    /\ Busy /\ Active(n) => /\ IsCmd(cur[n], job, n, stripe) /\ n \in TargetSet(job)
                            /\ ~Waiting(n) /\ Progress(n)

MsgInv(n) ==
    /\ \A k \in Keys : (Busy /\ k = KeyFor(job)) \/ queue[k][n] = <<>>
    /\ Busy => /\ \A i \in 1 .. Len(queue[KeyFor(job)][n]) :
                     /\ queue[KeyFor(job)][n][i].sid = stripe
                     /\ \E e \in In(job, n) : queue[KeyFor(job)][n][i].id = e[3]
               /\ Consumed(n) + Len(queue[KeyFor(job)][n]) = Cardinality(Arrived(n))

FlowInv == NoMixing /\ \A n \in Nodes : NodeInv(n) /\ MsgInv(n)
-----------------------------------------------------------------------------
(* What a step leaves alone. *)

Same(n) == UNCHANGED <<npc[n], cur[n], buf[n], pi[n], sj[n], cmds[n]>>

\* A node no step of which is taken has sent and consumed what it had.
LEMMA SameOK ==
    ASSUME NEW n, Same(n), UNCHANGED <<cpc, stripe, job, sent>>
    PROVE  /\ Waiting(n)' <=> Waiting(n)
           /\ Active(n)' <=> Active(n)
           /\ Consumed(n)' = Consumed(n)
           /\ \A e : e[1] = n => (Sent(e)' <=> Sent(e))
           /\ NodeInv(n) => NodeInv(n)'
<1>1. /\ npc'[n] = npc[n] /\ cur'[n] = cur[n] /\ buf'[n] = buf[n] /\ pi'[n] = pi[n]
      /\ sj'[n] = sj[n] /\ cmds'[n] = cmds[n]
      /\ cpc' = cpc /\ stripe' = stripe /\ job' = job /\ sent' = sent
  BY DEF Same
<1>2. Waiting(n)' <=> Waiting(n)
  BY <1>1 DEF Waiting
<1>3. Active(n)' <=> Active(n)
  BY <1>1 DEF Active
<1>4. Consumed(n)' = Consumed(n)
  BY <1>1, <1>2, <1>3 DEF Consumed
<1>5. ASSUME NEW e, e[1] = n PROVE Sent(e)' <=> Sent(e)
  <2>1. Passed(e)' <=> Passed(e)
    BY <1>1, <1>5 DEF Passed
  <2> QED BY <1>2, <1>3, <1>5, <2>1 DEF Sent
<1>6. NodeInv(n) => NodeInv(n)'
  <2>1. (Busy' <=> Busy) /\ (Straggler(n)' <=> Straggler(n)) /\ (Progress(n)' <=> Progress(n))
    BY <1>1 DEF Busy, Straggler, Progress
  <2> QED BY <1>1, <1>2, <1>3, <2>1 DEF NodeInv
<1> QED BY <1>2, <1>3, <1>4, <1>5, <1>6

\* The messages to a node are finitely many.
LEMMA ArrivedFinite ==
    ASSUME NEW j, JobOK(j), NEW n \in Nodes, NEW A \in SUBSET In(j, n)
    PROVE  IsFiniteSet(A) /\ Cardinality(A) \in Nat /\ Cardinality(A) <= Count(j, n)
           /\ (Cardinality(A) = Count(j, n) => A = In(j, n))
<1>1. IsFiniteSet(In(j, n)) /\ Cardinality(In(j, n)) = Count(j, n)
  BY InCount
<1>2. IsFiniteSet(A) /\ Cardinality(A) <= Cardinality(In(j, n))
      /\ (Cardinality(A) = Cardinality(In(j, n)) => A = In(j, n))
  BY <1>1, FS_Subset
<1>3. Cardinality(A) \in Nat
  BY <1>2, FS_CardinalityType
<1> QED BY <1>1, <1>2, <1>3

\* A step that neither sends nor consumes keeps the balance.
LEMMA MsgKeep ==
    ASSUME \A n \in Nodes : MsgInv(n),
           UNCHANGED <<cpc, stripe, job, queue>>,
           Busy => /\ \A n \in Nodes : Consumed(n)' = Consumed(n)
                   /\ \A e \in Edges(job) : Sent(e)' <=> Sent(e)
    PROVE  \A n \in Nodes : MsgInv(n)'
<1> SUFFICES ASSUME NEW n \in Nodes PROVE MsgInv(n)'
  OBVIOUS
<1>1. Busy' <=> Busy
  BY DEF Busy
<1>2. Busy => Arrived(n)' = Arrived(n)
  BY DEF Arrived, In
<1> QED BY <1>1, <1>2 DEF MsgInv

\* A push adds one message to those sent and one to the receiver's list.
LEMMA MsgPush ==
    ASSUME IInv, \A n \in Nodes : MsgInv(n),
           UNCHANGED <<cpc, stripe, job>>, Busy,
           NEW e0 \in Edges(job), ~Sent(e0), Sent(e0)',
           \A e \in Edges(job) : e # e0 => (Sent(e)' <=> Sent(e)),
           \A n \in Nodes : Consumed(n)' = Consumed(n),
           NEW m \in Msg, m.sid = stripe, m.id = e0[3],
           queue' = [queue EXCEPT ![KeyFor(job)][e0[2]] = Append(@, m)]
    PROVE  \A n \in Nodes : MsgInv(n)'
<1> DEFINE K == KeyFor(job)
           t == e0[2]
<1>0. JobOK(job) /\ queue \in [Keys -> [Nodes -> Seq(Msg)]]
  BY DEF IInv, CoordInv, TypeOK, Busy
<1>1. t \in Nodes /\ K \in Keys /\ KeyFor(job') = K
  BY <1>0, EdgeFacts, KeyIs
<1>2. Busy'
  BY DEF Busy
<1> HIDE DEF K, t
<1>3. queue' = [queue EXCEPT ![K] = [queue[K] EXCEPT ![t] = Append(queue[K][t], m)]]
  BY <1>0, <1>1 DEF K, t
<1>4. /\ queue'[K][t] = Append(queue[K][t], m)
      /\ \A k \in Keys, n \in Nodes : k # K \/ n # t => queue'[k][n] = queue[k][n]
  BY <1>0, <1>1, <1>3
<1>5. queue[K][t] \in Seq(Msg)
  BY <1>0, <1>1
<1>6. /\ Len(queue'[K][t]) = Len(queue[K][t]) + 1 /\ Len(queue[K][t]) \in Nat
      /\ \A i \in 1 .. (Len(queue[K][t]) + 1) :
           queue'[K][t][i] = IF i <= Len(queue[K][t]) THEN queue[K][t][i] ELSE m
  BY <1>4, <1>5, AppendOK
<1> SUFFICES ASSUME NEW n \in Nodes PROVE MsgInv(n)'
  OBVIOUS
<1>7. MsgInv(n)
  OBVIOUS
<1>8. \A k \in Keys : k = K \/ queue'[k][n] = <<>>
  BY <1>4, <1>7 DEF MsgInv, K
<1>9. CASE n # t
  <2>1. queue'[K][n] = queue[K][n]
    BY <1>1, <1>4, <1>9
  <2>2. Arrived(n)' = Arrived(n)
    BY <1>9 DEF Arrived, In, t
  <2>3. In(job', n) = In(job, n) /\ Consumed(n)' = Consumed(n) /\ stripe' = stripe
    OBVIOUS
  <2>4. Consumed(n) + Len(queue[K][n]) = Cardinality(Arrived(n))
        /\ \A i \in 1 .. Len(queue[K][n]) :
              queue[K][n][i].sid = stripe /\ \E e \in In(job, n) : queue[K][n][i].id = e[3]
    BY <1>7 DEF MsgInv, K
  <2>5. Consumed(n)' + Len(queue'[K][n]) = Cardinality(Arrived(n)')
        /\ \A i \in 1 .. Len(queue'[K][n]) :
              queue'[K][n][i].sid = stripe /\ \E e \in In(job, n) : queue'[K][n][i].id = e[3]
    BY <2>1, <2>2, <2>3, <2>4
  <2> QED BY <1>1, <1>2, <1>8, <2>5 DEF MsgInv, K
<1>10. CASE n = t
  <2>1. e0 \in In(job, n) /\ e0 \notin Arrived(n) /\ Arrived(n) \subseteq In(job, n)
    BY <1>10 DEF In, t, Arrived
  <2>2. Arrived(n)' = Arrived(n) \cup {e0}
    <3>1. \A e \in In(job, n) : Sent(e)' <=> (Sent(e) \/ e = e0)
      BY DEF In
    <3> QED BY <2>1, <3>1 DEF Arrived
  <2>3. IsFiniteSet(Arrived(n)) /\ Cardinality(Arrived(n)) \in Nat
    BY <1>0, <2>1, ArrivedFinite
  <2>4. Cardinality(Arrived(n)') = Cardinality(Arrived(n)) + 1
    BY <2>1, <2>2, <2>3, FS_AddElement
  <2> DEFINE q == queue[K][n]
             r == queue'[K][n]
  <2>5. Consumed(n) + Len(q) = Cardinality(Arrived(n))
        /\ \A i \in 1 .. Len(q) : q[i].sid = stripe /\ \E e \in In(job, n) : q[i].id = e[3]
    BY <1>7 DEF MsgInv, K
  <2>6. Len(r) = Len(q) + 1 /\ Len(q) \in Nat
        /\ \A i \in 1 .. (Len(q) + 1) : r[i] = IF i <= Len(q) THEN q[i] ELSE m
    BY <1>6, <1>10
  <2>7. Consumed(n) \in Nat
    <3>1. Count(job, n) \in Nat
      BY <1>0, InCount
    <3>2. buf[n] \in Seq(Msg)
      BY DEF IInv, TypeOK
    <3> QED BY <3>1, <3>2 DEF Consumed
  <2> HIDE DEF q, r
  <2>8. Consumed(n)' + Len(r) = Cardinality(Arrived(n)')
    BY <2>3, <2>4, <2>5, <2>6, <2>7
  <2>9. \A i \in 1 .. Len(r) : r[i].sid = stripe /\ \E e \in In(job, n) : r[i].id = e[3]
    <3> SUFFICES ASSUME NEW i \in 1 .. Len(r)
                 PROVE  r[i].sid = stripe /\ \E e \in In(job, n) : r[i].id = e[3]
      OBVIOUS
    <3>1. CASE i <= Len(q)
      BY <2>5, <2>6, <3>1
    <3>2. CASE ~(i <= Len(q))
      BY <2>1, <2>6, <3>2
    <3> QED BY <3>1, <3>2
  <2> QED BY <1>1, <1>2, <1>8, <2>8, <2>9 DEF MsgInv, K, r
<1> QED BY <1>9, <1>10

\* BLPOP: the rest of a list.
LEMMA TailOK ==
    ASSUME NEW S, NEW s \in Seq(S), s # <<>>
    PROVE  /\ Tail(s) \in Seq(S) /\ Head(s) \in S /\ Head(s) = s[1]
           /\ Len(Tail(s)) = Len(s) - 1 /\ Len(s) \in Nat /\ Len(s) > 0
           /\ \A i \in 1 .. (Len(s) - 1) : Tail(s)[i] = s[i + 1]
OBVIOUS

\* A pop moves one message from the list to those consumed.
LEMMA MsgPop ==
    ASSUME IInv, \A n \in Nodes : MsgInv(n),
           UNCHANGED <<cpc, stripe, job>>, Busy, NEW t \in Nodes,
           \A e \in Edges(job) : Sent(e)' <=> Sent(e),
           \A n \in Nodes : n # t => Consumed(n)' = Consumed(n),
           Consumed(t)' = Consumed(t) + 1, queue[KeyFor(job)][t] # <<>>,
           queue' = [queue EXCEPT ![KeyFor(job)][t] = Tail(@)]
    PROVE  \A n \in Nodes : MsgInv(n)'
<1> DEFINE K == KeyFor(job)
<1>0. JobOK(job) /\ queue \in [Keys -> [Nodes -> Seq(Msg)]]
  BY DEF IInv, CoordInv, TypeOK, Busy
<1>1. K \in Keys /\ KeyFor(job') = K
  BY KeyIs
<1>2. Busy'
  BY DEF Busy
<1> HIDE DEF K
<1>3. queue' = [queue EXCEPT ![K] = [queue[K] EXCEPT ![t] = Tail(queue[K][t])]]
  BY <1>0, <1>1 DEF K
<1>4. /\ queue'[K][t] = Tail(queue[K][t])
      /\ \A k \in Keys, n \in Nodes : k # K \/ n # t => queue'[k][n] = queue[k][n]
  BY <1>0, <1>1, <1>3
<1>5. queue[K][t] \in Seq(Msg) /\ queue[K][t] # <<>>
  BY <1>0, <1>1 DEF K
<1>6. /\ Len(queue'[K][t]) = Len(queue[K][t]) - 1 /\ Len(queue[K][t]) \in Nat
      /\ Len(queue[K][t]) > 0
      /\ \A i \in 1 .. (Len(queue[K][t]) - 1) : queue'[K][t][i] = queue[K][t][i + 1]
  <2> DEFINE q == queue[K][t]
             r == queue'[K][t]
  <2>1. q \in Seq(Msg) /\ q # <<>> /\ r = Tail(q)
    BY <1>4, <1>5
  <2> HIDE DEF q, r
  <2>2. /\ Len(r) = Len(q) - 1 /\ Len(q) \in Nat /\ Len(q) > 0
        /\ \A i \in 1 .. (Len(q) - 1) : r[i] = q[i + 1]
    BY <2>1, TailOK
  <2> QED BY <2>2 DEF q, r
<1> SUFFICES ASSUME NEW n \in Nodes PROVE MsgInv(n)'
  OBVIOUS
<1>7. MsgInv(n)
  OBVIOUS
<1>8. \A k \in Keys : k = K \/ queue'[k][n] = <<>>
  BY <1>4, <1>7 DEF MsgInv, K
<1>9. Arrived(n)' = Arrived(n) /\ In(job', n) = In(job, n) /\ stripe' = stripe
  BY DEF Arrived, In
<1>10. Consumed(n) + Len(queue[K][n]) = Cardinality(Arrived(n))
       /\ \A i \in 1 .. Len(queue[K][n]) :
             queue[K][n][i].sid = stripe /\ \E e \in In(job, n) : queue[K][n][i].id = e[3]
  BY <1>7 DEF MsgInv, K
<1>11. /\ Consumed(n)' + Len(queue'[K][n]) = Cardinality(Arrived(n)')
       /\ \A i \in 1 .. Len(queue'[K][n]) :
             queue'[K][n][i].sid = stripe /\ \E e \in In(job, n) : queue'[K][n][i].id = e[3]
  <2>1. CASE n # t
    <3>1. queue'[K][n] = queue[K][n] /\ Consumed(n)' = Consumed(n)
      BY <1>1, <1>4, <2>1
    <3> QED BY <3>1, <1>9, <1>10
  <2>2. CASE n = t
    <3> DEFINE q == queue[K][n]
               r == queue'[K][n]
    <3>1. /\ Len(r) = Len(q) - 1 /\ Len(q) \in Nat /\ Len(q) > 0
          /\ \A i \in 1 .. (Len(q) - 1) : r[i] = q[i + 1]
      BY <1>6, <2>2
    <3>2. Consumed(n) \in Nat
      <4>1. Count(job, n) \in Nat
        BY <1>0, InCount
      <4>2. buf[n] \in Seq(Msg)
        BY DEF IInv, TypeOK
      <4> QED BY <4>1, <4>2 DEF Consumed
    <3>3. Consumed(n)' = Consumed(n) + 1
      BY <2>2
    <3>4. Consumed(n) + Len(q) = Cardinality(Arrived(n))
          /\ \A i \in 1 .. Len(q) : q[i].sid = stripe /\ \E e \in In(job, n) : q[i].id = e[3]
      BY <1>10
    <3> HIDE DEF q, r
    <3>5. Consumed(n)' + Len(r) = Cardinality(Arrived(n)')
      BY <1>9, <3>1, <3>2, <3>3, <3>4
    <3>6. \A i \in 1 .. Len(r) : i \in 1 .. (Len(q) - 1) /\ i + 1 \in 1 .. Len(q)
      BY <3>1
    <3>7. \A i \in 1 .. Len(r) : r[i].sid = stripe /\ \E e \in In(job, n) : r[i].id = e[3]
      BY <3>1, <3>4, <3>6
    <3> QED BY <3>5, <3>7 DEF q, r
  <2> QED BY <2>1, <2>2
<1> QED BY <1>1, <1>2, <1>8, <1>9, <1>11 DEF MsgInv, K

\* A handler that is receiving, sending, acking or has died is at work for the
\* current stripe.
LEMMA AtWork ==
    ASSUME IInv, FlowInv, NEW n \in Nodes, npc[n] \notin Free, ~Straggler(n)
    PROVE  /\ Busy /\ Active(n) /\ ~Waiting(n) /\ Progress(n) /\ JobOK(job)
           /\ n \in TargetSet(job) /\ IsCmd(cur[n], job, n, stripe)
           /\ KeyOf(cur[n].task) = KeyFor(job) /\ Count(job, n) \in Nat
<1>1. NodeInv(n)
  BY DEF FlowInv
<1>2. Busy /\ Active(n)
  BY <1>1 DEF NodeInv
<1>3. IsCmd(cur[n], job, n, stripe) /\ ~Waiting(n) /\ Progress(n) /\ n \in TargetSet(job)
  BY <1>1, <1>2 DEF NodeInv
<1>4. JobOK(job)
  BY <1>2 DEF IInv, CoordInv, Busy
<1>5. KeyOf(cur[n].task) = KeyFor(job) /\ Count(job, n) \in Nat
  BY <1>3, <1>4, KeyIs, InCount DEF IsCmd
<1> QED BY <1>2, <1>3, <1>4, <1>5

\* A step of one node: what remains to be shown.
LEMMA OneNode ==
    ASSUME FlowInv, NEW n \in Nodes, UNCHANGED <<cpc, stripe, job, sent>>,
           \A m \in Nodes \ {n} : Same(m), NodeInv(n)',
           \A i \in DOMAIN buf'[n] : buf'[n][i].sid = cur'[n].sid,
           \A m \in Nodes : MsgInv(m)'
    PROVE  FlowInv'
<1>1. ASSUME NEW m \in Nodes PROVE NodeInv(m)'
  <2>1. CASE m = n
    BY <2>1
  <2>2. CASE m # n
    BY <2>2, SameOK DEF FlowInv
  <2> QED BY <2>1, <2>2
<1>2. NoMixing'
  <2> SUFFICES ASSUME NEW m \in Nodes, NEW i \in DOMAIN buf'[m] PROVE buf'[m][i].sid = cur'[m].sid
    BY DEF NoMixing
  <2>1. CASE m # n
    <3>1. buf'[m] = buf[m] /\ cur'[m] = cur[m]
      BY <2>1 DEF Same
    <3> QED BY <3>1 DEF FlowInv, NoMixing
  <2> QED BY <2>1
<1> QED BY <1>1, <1>2 DEF FlowInv
-----------------------------------------------------------------------------
(* The steps of the handlers. *)

\* One BLPOP of a receive loop: the message is one of this stripe's, and one
\* the handler knows.
LEMMA FlowRecv ==
    ASSUME IInv, FlowInv, NEW n \in Nodes, NEW known, NEW next,
           Recv(n, known, Count(job, n), next),
           cur[n].task \in {2, 3, 5, 7, 8},
           \A e \in In(job, n) : e[3] \in known,
           next = IF cur[n].task \in {2, 7} THEN "send" ELSE "write"
    PROVE  FlowInv' /\ SentSame
<1> DEFINE K == KeyFor(job)
           q == queue[K][n]
           m == Head(q)
           c == Count(job, n)
<1>1. npc[n] = "recv"
  BY DEF Recv
<1>2. /\ Busy /\ Active(n) /\ ~Waiting(n) /\ Progress(n) /\ JobOK(job)
      /\ n \in TargetSet(job) /\ IsCmd(cur[n], job, n, stripe)
      /\ KeyOf(cur[n].task) = K /\ c \in Nat
  BY <1>1, AtWork DEF Straggler, Free
<1>3. /\ q # <<>> /\ queue' = [queue EXCEPT ![K][n] = Tail(@)]
      /\ buf' = [buf EXCEPT ![n] = Append(@, m)]
      /\ npc' = [npc EXCEPT ![n] = IF m.id \notin known THEN "exit"
                                   ELSE IF Len(buf[n]) + 1 = c THEN next ELSE "recv"]
      /\ UNCHANGED <<cpc, stripe, job, sent, cmds, cur, pi, sj>>
  BY <1>2 DEF Recv, cvars
<1>4. K \in Keys /\ q \in Seq(Msg) /\ buf[n] \in Seq(Msg)
      /\ npc \in [Nodes -> NodeStates] /\ buf \in [Nodes -> Seq(Msg)]
  BY KeyIs DEF IInv, TypeOK, NodeStates
<1>5. m \in Msg /\ m.sid = stripe /\ \E e \in In(job, n) : m.id = e[3]
  <2>1. Len(q) \in Nat /\ Len(q) > 0 /\ m = q[1] /\ m \in Msg
    <3> HIDE DEF q
    <3> QED BY <1>3, <1>4, TailOK
  <2>2. 1 \in 1 .. Len(q)
    BY <2>1
  <2>3. \A i \in 1 .. Len(q) : q[i].sid = stripe /\ \E e \in In(job, n) : q[i].id = e[3]
    BY <1>2 DEF FlowInv, MsgInv
  <2> HIDE DEF q, m
  <2> QED BY <2>1, <2>2, <2>3
<1>6. m.id \in known
  BY <1>5
<1> HIDE DEF m, c
<1>7. /\ npc'[n] = (IF Len(buf[n]) + 1 = c THEN next ELSE "recv")
      /\ buf'[n] = Append(buf[n], m) /\ \A x \in Nodes \ {n} : Same(x)
  BY <1>3, <1>4, <1>6 DEF Same
<1>8. /\ Len(buf'[n]) = Len(buf[n]) + 1 /\ Len(buf[n]) \in Nat
      /\ \A i \in 1 .. (Len(buf[n]) + 1) :
           buf'[n][i] = IF i <= Len(buf[n]) THEN buf[n][i] ELSE m
      /\ DOMAIN buf'[n] = 1 .. (Len(buf[n]) + 1)
  BY <1>4, <1>5, <1>7, AppendOK
<1>9. npc'[n] \notin Free /\ cur'[n] = cur[n] /\ pi'[n] = pi[n] /\ sj'[n] = sj[n]
      /\ cmds'[n] = cmds[n] /\ job' = job /\ stripe' = stripe
  BY <1>3, <1>7 DEF Free
<1>10. ~Waiting(n)' /\ Active(n)' /\ Busy'
  BY <1>2, <1>3, <1>9 DEF Waiting, Active, Busy
<1>11. Consumed(n)' = Consumed(n) + 1
  BY <1>2, <1>8, <1>10 DEF Consumed
<1>12. ASSUME NEW e \in Edges(job) PROVE Sent(e)' <=> Sent(e)
  <2>1. CASE e[1] = n
    <3>1. Passed(e)' <=> Passed(e)
      BY <1>9, <2>1 DEF Passed
    <3> QED BY <1>2, <1>10, <2>1, <3>1 DEF Sent
  <2>2. CASE e[1] # n
    <3>1. e[1] \in Nodes \ {n}
      BY <1>2, <2>2, EdgeFacts, JobFacts
    <3> QED BY <1>3, <1>7, <3>1, SameOK
  <2> QED BY <2>1, <2>2
<1>13. \A x \in Nodes : MsgInv(x)'
  <2>1. \A x \in Nodes : x # n => Consumed(x)' = Consumed(x)
    BY <1>3, <1>7, SameOK
  <2>2. \A x \in Nodes : MsgInv(x)
    BY DEF FlowInv
  <2>3. queue[KeyFor(job)][n] # <<>> /\ queue' = [queue EXCEPT ![KeyFor(job)][n] = Tail(@)]
    BY <1>3
  <2> QED BY <1>2, <1>3, <1>11, <1>12, <2>1, <2>2, <2>3, MsgPop
<1>14. Progress(n)'
  <2>1. Len(buf[n]) < c /\ pi[n] = 0 /\ sj[n] = 0
    BY <1>1, <1>2 DEF Progress, c
  <2>2. SubNum(job.vec) > 0 /\ SubNum(job.vec) \in Nat /\ ecM > 0
    BY <1>2, JobFacts, ParamsAssumption
  <2>3. CASE Len(buf[n]) + 1 = c
    <3>1. npc'[n] = next /\ Len(buf'[n]) = c
      BY <1>7, <1>8, <2>3
    <3>2. next \in Phases(cur[n].task) /\ next # "recv"
      BY DEF Phases
    <3> QED BY <1>9, <2>1, <2>2, <3>1, <3>2 DEF Progress, c
  <2>4. CASE Len(buf[n]) + 1 # c
    <3>1. npc'[n] = "recv" /\ Len(buf'[n]) < c
      BY <1>2, <1>7, <1>8, <2>1, <2>4
    <3>2. "recv" \in Phases(cur[n].task)
      BY DEF Phases
    <3> QED BY <1>9, <2>1, <2>2, <3>1, <3>2 DEF Progress, c
  <2> QED BY <2>3, <2>4
<1>15. NodeInv(n)'
  <2>1. NodeInv(n)
    BY DEF FlowInv
  <2> QED BY <1>2, <1>3, <1>9, <1>10, <1>14, <2>1 DEF NodeInv
<1>16. \A i \in DOMAIN buf'[n] : buf'[n][i].sid = cur'[n].sid
  <2> SUFFICES ASSUME NEW i \in DOMAIN buf'[n] PROVE buf'[n][i].sid = cur'[n].sid
    OBVIOUS
  <2>1. cur'[n].sid = stripe
    BY <1>2, <1>9 DEF IsCmd
  <2>2. CASE i <= Len(buf[n])
    <3>1. i \in 1 .. Len(buf[n]) /\ i \in DOMAIN buf[n]
      BY <1>4, <1>8, <2>2
    <3>2. buf[n][i].sid = cur[n].sid
      BY <3>1 DEF FlowInv, NoMixing
    <3> QED BY <1>8, <1>9, <2>2, <3>1, <3>2
  <2>3. CASE ~(i <= Len(buf[n]))
    BY <1>5, <1>8, <2>1, <2>3
  <2> QED BY <2>2, <2>3
<1>17. FlowInv'
  BY <1>3, <1>7, <1>13, <1>15, <1>16, OneNode
<1>18. SentSame
  BY <1>12 DEF SentSame
<1> QED BY <1>17, <1>18

\* The end of a handler: everything it had to send has been sent.
LEMMA FlowReturn ==
    ASSUME IInv, FlowInv, NEW n \in Nodes, npc[n] \in {"write", "ack"},
           npc' = [npc EXCEPT ![n] = "idle"], Return(n),
           UNCHANGED <<cpc, stripe, job, sent, cmds, queue>>
    PROVE  FlowInv' /\ (Busy => SentSame)
<1>1. /\ npc \in [Nodes -> NodeStates] /\ cur \in [Nodes -> Cmd] /\ buf \in [Nodes -> Seq(Msg)]
      /\ pi \in [Nodes -> Nat] /\ sj \in [Nodes -> Nat] /\ stripe \in Nat
  BY ParamsAssumption DEF IInv, TypeOK, NodeStates
<1>2. /\ npc'[n] = "idle" /\ cur'[n].sid = 0 /\ buf'[n] = <<>> /\ pi'[n] = 0 /\ sj'[n] = 0
      /\ cmds'[n] = cmds[n] /\ \A x \in Nodes \ {n} : Same(x)
  BY <1>1 DEF Return, Same, NoCmd
<1>3. NodeInv(n)
  BY DEF FlowInv
<1>4. npc'[n] \in Free /\ npc[n] \notin Free
  BY <1>2 DEF Free
<1>5. ~Active(n)' /\ (Busy' <=> Busy) /\ (Waiting(n)' <=> Waiting(n))
  BY <1>2, <1>4 DEF Active, Busy, Waiting
<1>6. NodeInv(n)'
  BY <1>1, <1>2, <1>3, <1>4, <1>5 DEF NodeInv
<1>7. ASSUME Busy PROVE Consumed(n)' = Consumed(n)
  <2>1. CASE Active(n)
    <3>1. ~Waiting(n) /\ Len(buf[n]) = Count(job, n)
      BY <1>3, <1>7, <2>1 DEF NodeInv, Progress
    <3> QED BY <1>5, <2>1, <3>1 DEF Consumed
  <2>2. CASE ~Active(n)
    BY <1>5, <2>2 DEF Consumed
  <2> QED BY <2>1, <2>2
<1>8. ASSUME Busy, NEW e \in Edges(job) PROVE Sent(e)' <=> Sent(e)
  <2>0. JobOK(job)
    BY <1>8 DEF IInv, CoordInv, Busy
  <2>1. CASE e[1] # n
    <3>1. e[1] \in Nodes \ {n}
      BY <2>0, <2>1, EdgeFacts, JobFacts
    <3> QED BY <1>2, <3>1, SameOK
  <2>2. CASE e[1] = n /\ ~Active(n)
    BY <1>5, <2>2 DEF Sent
  <2>3. CASE e[1] = n /\ Active(n)
    <3>1. ~Waiting(n) /\ Progress(n) /\ cur[n].task = Role(job, n)
      BY <1>3, <1>8, <2>3 DEF NodeInv, IsCmd
    <3>2. /\ Role(job, n) \in {1, 2, 4, 6, 7}
          /\ Role(job, n) \in {2, 4, 7} => e[2] \in ParityNodes
      BY <2>0, <2>3, EdgeFacts
    <3>3. Passed(e)
      <4>1. CASE Role(job, n) \in {1, 6}
        BY <2>3, <3>1, <4>1 DEF Passed, Progress, Phases
      <4>2. CASE Role(job, n) \in {2, 4, 7}
        <5>1. pi[n] = ecM /\ e[2] \in ParityNodes
          BY <3>1, <3>2, <4>2 DEF Progress
        <5>2. e[2] < ecK + pi[n]
          BY <5>1, ParamsAssumption DEF ParityNodes
        <5> QED BY <2>3, <3>1, <4>2, <5>2 DEF Passed
      <4> QED BY <3>2, <4>1, <4>2
    <3> QED BY <1>5, <2>3, <3>1, <3>3 DEF Sent
  <2> QED BY <2>1, <2>2, <2>3
<1>9. \A x \in Nodes : MsgInv(x)'
  <2>1. Busy => \A x \in Nodes : Consumed(x)' = Consumed(x)
    BY <1>2, <1>7, SameOK
  <2>2. \A x \in Nodes : MsgInv(x)
    BY DEF FlowInv
  <2> QED BY <1>8, <2>1, <2>2, MsgKeep
<1>10. \A i \in DOMAIN buf'[n] : buf'[n][i].sid = cur'[n].sid
  BY <1>2
<1>11. FlowInv'
  BY <1>2, <1>6, <1>9, <1>10, OneNode
<1>12. (Busy => SentSame)
  BY <1>8 DEF SentSame
<1> QED BY <1>11, <1>12

\* A step that moves only the control of a handler: the write of a parity, the
\* fault of task 4.
LEMMA FlowMove ==
    ASSUME IInv, FlowInv, NEW n \in Nodes, NEW s, npc' = [npc EXCEPT ![n] = s],
           \/ cur[n].task \in {3, 5, 8} /\ npc[n] = "write" /\ s = "ack"
           \/ cur[n].task = 4 /\ npc[n] = "send" /\ s = "exit",
           UNCHANGED <<cpc, stripe, job, sent, cmds, queue, cur, buf, pi, sj>>
    PROVE  FlowInv' /\ SentSame
<1>1. npc \in [Nodes -> NodeStates]
  BY DEF IInv, TypeOK, NodeStates
<1>2. npc'[n] = s /\ \A x \in Nodes \ {n} : Same(x)
  BY <1>1 DEF Same
<1>3. /\ Busy /\ Active(n) /\ ~Waiting(n) /\ Progress(n) /\ JobOK(job)
      /\ n \in TargetSet(job) /\ IsCmd(cur[n], job, n, stripe)
  BY AtWork DEF Straggler, Free
<1>4. NodeInv(n)
  BY DEF FlowInv
<1>5. Busy' /\ Active(n)' /\ ~Waiting(n)'
  BY <1>2, <1>3 DEF Busy, Active, Waiting, Free
<1>6. Progress(n)'
  BY <1>2, <1>3 DEF Progress, Phases
<1>7. NodeInv(n)'
  BY <1>2, <1>3, <1>4, <1>5, <1>6 DEF NodeInv, Free
<1>8. ASSUME NEW e \in Edges(job) PROVE Sent(e)' <=> Sent(e)
  <2>1. CASE e[1] = n
    <3>1. Passed(e)' <=> Passed(e)
      BY <2>1 DEF Passed
    <3> QED BY <1>3, <1>5, <2>1, <3>1 DEF Sent
  <2>2. CASE e[1] # n
    <3>1. e[1] \in Nodes \ {n}
      BY <1>3, <2>2, EdgeFacts, JobFacts
    <3> QED BY <1>2, <3>1, SameOK
  <2> QED BY <2>1, <2>2
<1>9. \A x \in Nodes : Consumed(x)' = Consumed(x)
  <2>1. Consumed(n)' = Consumed(n)
    BY <1>3, <1>5 DEF Consumed
  <2> QED BY <1>2, <2>1, SameOK
<1>10. \A x \in Nodes : MsgInv(x)'
  <2>2. \A x \in Nodes : MsgInv(x)
    BY DEF FlowInv
  <2> QED BY <1>8, <1>9, <2>2, MsgKeep
<1>11. \A i \in DOMAIN buf'[n] : buf'[n][i].sid = cur'[n].sid
  BY DEF FlowInv, NoMixing
<1>12. FlowInv'
  BY <1>2, <1>7, <1>10, <1>11, OneNode
<1>13. SentSame
  BY <1>8 DEF SentSame
<1> QED BY <1>12, <1>13

\* A push of one of the job's messages, the next of its sender.
LEMMA FlowPush ==
    ASSUME IInv, FlowInv, NEW n \in Nodes, NEW e0 \in Edges(job), e0[1] = n,
           NEW data \in Block, NEW next, Push(n, e0[2], e0[3], data, next),
           \A x \in Nodes \ {n} : Same(x), NodeInv(n)',
           ~Sent(e0), Sent(e0)',
           \A e \in Edges(job) : e[1] = n /\ e # e0 => (Sent(e)' <=> Sent(e)),
           Consumed(n)' = Consumed(n),
           buf'[n] = <<>> \/ (buf'[n] = buf[n] /\ cur'[n] = cur[n])
    PROVE  FlowInv' /\ SentPlus(e0)
<1> DEFINE K == KeyFor(job)
           m == [sid |-> cur[n].sid, id |-> e0[3], data |-> data]
<1>1. npc[n] = "send" /\ UNCHANGED <<cpc, stripe, job, sent>>
  BY DEF Push, cvars
<1>2. /\ Busy /\ JobOK(job) /\ IsCmd(cur[n], job, n, stripe) /\ KeyOf(cur[n].task) = K
  BY <1>1, AtWork DEF Straggler, Free
<1>3. queue' = [queue EXCEPT ![K][e0[2]] = Append(@, m)]
  BY <1>2 DEF Push
<1>4. m \in Msg /\ m.sid = stripe /\ m.id = e0[3]
  <2>1. e0[3] \in Nat
    BY <1>2, EdgeFacts
  <2>2. cur[n].sid = stripe /\ stripe \in 0 .. MaxStripes
    BY <1>2 DEF IsCmd, IInv, TypeOK
  <2> QED BY <2>1, <2>2 DEF Msg
<1> HIDE DEF m
<1>5. ASSUME NEW e \in Edges(job), e # e0 PROVE Sent(e)' <=> Sent(e)
  <2>1. CASE e[1] # n
    <3>1. e[1] \in Nodes \ {n}
      BY <1>2, <2>1, EdgeFacts, JobFacts
    <3> QED BY <1>1, <3>1, SameOK
  <2> QED BY <1>5, <2>1
<1>6. \A x \in Nodes : Consumed(x)' = Consumed(x)
  BY <1>1, SameOK
<1>7. \A x \in Nodes : MsgInv(x)
  BY DEF FlowInv
<1>8. \A x \in Nodes : MsgInv(x)'
  BY <1>1, <1>2, <1>3, <1>4, <1>5, <1>6, <1>7, MsgPush
<1>9. \A i \in DOMAIN buf'[n] : buf'[n][i].sid = cur'[n].sid
  BY DEF FlowInv, NoMixing
<1>10. FlowInv'
  BY <1>1, <1>8, <1>9, OneNode
<1>11. SentPlus(e0)
  BY <1>5 DEF SentPlus
<1> QED BY <1>10, <1>11

\* Tasks 1 and 6: the data node's message to the collector.
LEMMA FlowPushStay ==
    ASSUME IInv, FlowInv, NEW n \in Nodes, cur[n].task \in {1, 6}, NEW data \in Block,
           Push(n, cur[n].to, n, data, "write"), Stay
    PROVE  /\ FlowInv'
           /\ \E e0 \in Edges(job) : e0[2] = cur[n].to /\ e0[3] = n /\ SentPlus(e0)
<1>1. npc[n] = "send" /\ npc' = [npc EXCEPT ![n] = "write"]
      /\ UNCHANGED <<cpc, stripe, job, sent, cmds, cur, buf, pi, sj>>
  BY DEF Push, cvars, Stay
<1>2. /\ Busy /\ Active(n) /\ ~Waiting(n) /\ Progress(n) /\ JobOK(job)
      /\ n \in TargetSet(job) /\ IsCmd(cur[n], job, n, stripe)
  BY <1>1, AtWork DEF Straggler, Free
<1>3. npc'[n] = "write" /\ \A x \in Nodes \ {n} : Same(x)
  <2>1. npc \in [Nodes -> NodeStates]
    BY DEF IInv, TypeOK, NodeStates
  <2> QED BY <1>1, <2>1 DEF Same
<1>4. Role(job, n) \in {1, 6} /\ cur[n].to = job.collector
  BY <1>2 DEF IsCmd
<1>5. PICK e0 \in Edges(job) : e0[1] = n /\ e0[2] = cur[n].to /\ e0[3] = n
  <2>1. <<n, job.collector, n>> \in Edges(job)
    BY <1>2, <1>4, EdgeExists
  <2> QED BY <1>4, <2>1
<1>6. \A e \in Edges(job) : e[1] = n => e = e0
  BY <1>2, <1>4, <1>5, EdgeFacts
<1>7. Busy' /\ Active(n)' /\ ~Waiting(n)'
  BY <1>1, <1>2, <1>3 DEF Busy, Active, Waiting, Free
<1>8. Progress(n)'
  BY <1>1, <1>2, <1>3 DEF Progress, Phases
<1>9. NodeInv(n)'
  <2>1. NodeInv(n)
    BY DEF FlowInv
  <2> QED BY <1>1, <1>2, <1>3, <1>7, <1>8, <2>1 DEF NodeInv, Free
<1>10. ~Sent(e0) /\ Sent(e0)'
  <2>1. cur'[n] = cur[n]
    BY <1>1
  <2>2. ~Passed(e0) /\ Passed(e0)'
    BY <1>1, <1>3, <1>5, <2>1 DEF Passed
  <2> QED BY <1>2, <1>5, <1>7, <2>2 DEF Sent
<1>11. Consumed(n)' = Consumed(n)
  BY <1>1, <1>2, <1>7 DEF Consumed
<1>12. Push(n, e0[2], e0[3], data, "write")
  BY <1>5
<1>13. buf'[n] = buf[n] /\ cur'[n] = cur[n]
       /\ \A e \in Edges(job) : e[1] = n /\ e # e0 => (Sent(e)' <=> Sent(e))
  BY <1>1, <1>6
<1>14. FlowInv' /\ SentPlus(e0)
  BY <1>3, <1>5, <1>9, <1>10, <1>11, <1>12, <1>13, FlowPush
<1> QED BY <1>5, <1>14

\* Tasks 2 and 4: the next parity of the loop.
LEMMA FlowPushToParity ==
    ASSUME IInv, FlowInv, NEW n \in Nodes, NEW data \in Block, NEW last,
           \/ cur[n].task = 2 /\ last = "idle"
           \/ cur[n].task = 4 /\ last = "write",
           PushToParity(n, data, last)
    PROVE  FlowInv'
<1> DEFINE p  == ecK + pi[n]
           next == IF pi[n] + 1 = ecM THEN last ELSE "send"
<1>1. /\ npc[n] = "send" /\ npc' = [npc EXCEPT ![n] = next] /\ Push(n, p, p, data, next)
      /\ UNCHANGED <<cpc, stripe, job, sent, cmds>>
  BY DEF PushToParity, Push, cvars
<1>2. /\ Busy /\ Active(n) /\ ~Waiting(n) /\ Progress(n) /\ JobOK(job)
      /\ n \in TargetSet(job) /\ IsCmd(cur[n], job, n, stripe)
  BY <1>1, AtWork DEF Straggler, Free
<1>3. Role(job, n) \in {2, 4} /\ cur[n].task = Role(job, n)
  BY <1>2 DEF IsCmd
<1>4. pi[n] \in Nat /\ pi[n] < ecM /\ Len(buf[n]) = Count(job, n)
  BY <1>1, <1>2 DEF Progress, IInv, TypeOK
<1>5. p \in ParityNodes /\ p \in Nat
  BY <1>4, ParamsAssumption DEF ParityNodes
<1>6. PICK e0 \in Edges(job) : e0[1] = n /\ e0[2] = p /\ e0[3] = p
  <2> HIDE DEF p
  <2>1. <<n, p, p>> \in Edges(job)
    BY <1>2, <1>3, <1>5, EdgeExists
  <2> QED BY <2>1
<1>7. \A e \in Edges(job) : e[1] = n => e[2] \in ParityNodes /\ (e[2] = p => e = e0)
  BY <1>2, <1>3, <1>6, EdgeFacts
<1>8. (\A x \in ParityNodes : x \in Nat /\ x < ecK + ecM) /\ ecK \in Nat /\ ecM \in Nat
  BY ParamsAssumption DEF ParityNodes
<1> HIDE DEF p, next
<1>9. /\ npc \in [Nodes -> NodeStates] /\ cur \in [Nodes -> Cmd] /\ buf \in [Nodes -> Seq(Msg)]
      /\ pi \in [Nodes -> Nat] /\ sj \in [Nodes -> Nat] /\ stripe \in Nat
  BY ParamsAssumption DEF IInv, TypeOK, NodeStates
<1>10. NodeInv(n)
  BY DEF FlowInv
<1>11. ~Sent(e0)
  <2>1. ~Passed(e0)
    BY <1>3, <1>4, <1>5, <1>6, <1>8 DEF Passed, p
  <2> QED BY <1>2, <1>6, <2>1 DEF Sent
<1>12. CASE pi[n] + 1 = ecM /\ last = "idle"
  <2>1. Return(n) /\ next = "idle"
    BY <1>12 DEF PushToParity, next
  <2>2. /\ npc'[n] = "idle" /\ cur'[n].sid = 0 /\ buf'[n] = <<>> /\ pi'[n] = 0 /\ sj'[n] = 0
        /\ cmds'[n] = cmds[n] /\ \A x \in Nodes \ {n} : Same(x)
    BY <1>1, <1>9, <2>1 DEF Return, Same, NoCmd
  <2>3. ~Active(n)' /\ Busy' /\ ~Waiting(n)' /\ npc'[n] \in Free
    BY <1>1, <1>2, <2>2 DEF Active, Busy, Waiting, Free
  <2>4. NodeInv(n)'
    BY <1>1, <1>9, <1>10, <2>2, <2>3 DEF NodeInv
  <2>5. ASSUME NEW e \in Edges(job), e[1] = n PROVE Sent(e)' /\ (e # e0 => Sent(e))
    <3>1. Sent(e)'
      BY <2>3, <2>5 DEF Sent
    <3>2. e # e0 => Passed(e)
      <4> SUFFICES ASSUME e # e0 PROVE Passed(e)
        OBVIOUS
      <4>1. e[2] \in ParityNodes /\ e[2] # p
        BY <1>7, <2>5
      <4>2. e[2] < ecK + pi[n]
        BY <1>4, <1>8, <1>12, <4>1 DEF p
      <4> QED BY <1>3, <2>5, <4>2 DEF Passed
    <3> QED BY <1>2, <2>5, <3>1, <3>2 DEF Sent
  <2>6. Consumed(n)' = Consumed(n)
    BY <1>1, <1>2, <1>4, <2>3 DEF Consumed
  <2>7. Push(n, e0[2], e0[3], data, next)
    BY <1>1, <1>6
  <2>8. Sent(e0)' /\ \A e \in Edges(job) : e[1] = n /\ e # e0 => (Sent(e)' <=> Sent(e))
    BY <1>6, <2>5
  <2>9. /\ \A x \in Nodes \ {n} : Same(x)
        /\ buf'[n] = <<>> \/ (buf'[n] = buf[n] /\ cur'[n] = cur[n])
    BY <2>2
  <2> QED BY <1>6, <1>11, <2>4, <2>6, <2>7, <2>8, <2>9, FlowPush
<1>13. CASE ~(pi[n] + 1 = ecM /\ last = "idle")
  <2>1. pi' = [pi EXCEPT ![n] = @ + 1] /\ UNCHANGED <<cur, buf, sj>>
    BY <1>13 DEF PushToParity
  <2>2. /\ next \in {"send", "write"} /\ (next = "write" => pi[n] + 1 = ecM /\ cur[n].task = 4)
        /\ (next = "send" => pi[n] + 1 < ecM)
    BY <1>4, <1>8, <1>13 DEF next
  <2>3. /\ npc'[n] = next /\ pi'[n] = pi[n] + 1 /\ cur'[n] = cur[n] /\ buf'[n] = buf[n]
        /\ sj'[n] = sj[n] /\ cmds'[n] = cmds[n] /\ \A x \in Nodes \ {n} : Same(x)
    BY <1>1, <1>9, <2>1 DEF Same
  <2>4. Active(n)' /\ Busy' /\ ~Waiting(n)' /\ npc'[n] \notin Free
    BY <1>1, <1>2, <2>2, <2>3 DEF Active, Busy, Waiting, Free
  <2>5. Progress(n)'
    <3>1. next \in Phases(cur[n].task)
      BY <1>3, <2>2 DEF Phases
    <3> QED BY <1>1, <1>3, <1>4, <2>2, <2>3, <3>1 DEF Progress
  <2>6. NodeInv(n)'
    BY <1>1, <1>2, <1>10, <2>3, <2>4, <2>5 DEF NodeInv
  <2>7. ASSUME NEW e \in Edges(job), e[1] = n
        PROVE  (e = e0 => Sent(e)') /\ (e # e0 => (Sent(e)' <=> Sent(e)))
    <3>1. e[2] \in ParityNodes /\ (e[2] = p => e = e0)
      BY <1>7, <2>7
    <3>2. (Passed(e)' <=> e[2] < ecK + (pi[n] + 1)) /\ (Passed(e) <=> e[2] < ecK + pi[n])
      BY <1>3, <2>3, <2>7 DEF Passed
    <3>3. e[2] < ecK + (pi[n] + 1) <=> (e[2] < ecK + pi[n] \/ e[2] = p)
      <4>1. e[2] \in Int
        BY <1>8, <3>1
      <4> DEFINE x == e[2]
                 y == pi[n]
      <4>2. x \in Int /\ y \in Int /\ ecK \in Int
        BY <1>4, <1>8, <4>1
      <4> HIDE DEF x, y
      <4>3. x < ecK + (y + 1) <=> (x < ecK + y \/ x = ecK + y)
        BY <4>2
      <4> QED BY <4>3 DEF p, x, y
    <3>4. e = e0 => e[2] = p
      BY <1>6
    <3> QED BY <1>2, <2>4, <2>7, <3>1, <3>2, <3>3, <3>4 DEF Sent
  <2>8. Consumed(n)' = Consumed(n)
    BY <1>2, <2>3, <2>4 DEF Consumed
  <2>9. Push(n, e0[2], e0[3], data, next)
    BY <1>1, <1>6
  <2> QED BY <1>6, <1>11, <2>3, <2>6, <2>7, <2>8, <2>9, FlowPush
<1> QED BY <1>12, <1>13

\* The loop of the parity collector (task 7): the iteration for parity
\* ecK + pi and sub-set sj is done, and no other.
LEMMA CrdLoop ==
    ASSUME IInv, FlowInv, NEW n \in Nodes, cur[n].task = 7, npc[n] = "send", NEW subs,
           npc' = [npc EXCEPT ![n] = CrdNext(n, subs)], CrdAdvance(n, subs),
           subs = IF ecK + pi[n] = n THEN 1 ELSE SubNum(cur[n].upds),
           UNCHANGED <<cpc, stripe, job, sent, cmds>>
    PROVE  /\ NodeInv(n)' /\ (\A x \in Nodes \ {n} : Same(x))
           /\ Consumed(n)' = Consumed(n) /\ buf'[n] = buf[n] /\ cur'[n] = cur[n]
           /\ pi[n] < ecM /\ sj[n] < SubNum(job.vec)
           /\ \A e \in Edges(job) : e[1] = n =>
                 (Sent(e)' <=> (Sent(e) \/ (e[2] = ecK + pi[n] /\ e[3] = sj[n])))
           /\ \A e \in Edges(job) : e[1] = n /\ e[2] = ecK + pi[n] /\ e[3] = sj[n] => ~Sent(e)
<1> DEFINE S == SubNum(job.vec)
           p == ecK + pi[n]
           more == sj[n] + 1 < subs
<1>1. /\ Busy /\ Active(n) /\ ~Waiting(n) /\ Progress(n) /\ JobOK(job)
      /\ n \in TargetSet(job) /\ IsCmd(cur[n], job, n, stripe)
  BY AtWork DEF Straggler, Free
<1>2. Role(job, n) = 7 /\ cur[n].upds = job.vec
  BY <1>1 DEF IsCmd
<1>3. /\ pi[n] \in Nat /\ pi[n] < ecM /\ sj[n] \in Nat /\ sj[n] < S /\ (p = n => sj[n] = 0)
      /\ Len(buf[n]) = Count(job, n)
  BY <1>1 DEF Progress, IInv, TypeOK
<1>4. S \in Nat /\ S > 0 /\ ecK \in Nat /\ ecM \in Nat /\ p \in Nat /\ ecM > 0
  BY <1>1, <1>3, JobFacts, ParamsAssumption
<1>5. /\ npc \in [Nodes -> NodeStates] /\ pi \in [Nodes -> Nat] /\ sj \in [Nodes -> Nat]
  BY DEF IInv, TypeOK, NodeStates
<1>6. /\ UNCHANGED <<cur, buf>>
      /\ IF more THEN sj' = [sj EXCEPT ![n] = @ + 1] /\ UNCHANGED pi
                 ELSE sj' = [sj EXCEPT ![n] = 0] /\ pi' = [pi EXCEPT ![n] = @ + 1]
  BY Zenon DEF CrdAdvance
<1>7. /\ npc'[n] = (IF more THEN "send" ELSE IF pi[n] + 1 < ecM THEN "send" ELSE "ack")
      /\ buf'[n] = buf[n] /\ cur'[n] = cur[n] /\ cmds'[n] = cmds[n]
  BY <1>5, <1>6 DEF CrdNext
<1>8. sj'[n] = (IF more THEN sj[n] + 1 ELSE 0) /\ pi'[n] = (IF more THEN pi[n] ELSE pi[n] + 1)
  <2>1. CASE more
    BY <1>5, <1>6, <2>1
  <2>2. CASE ~more
    BY <1>5, <1>6, <2>2
  <2> QED BY <2>1, <2>2
<1>9. \A x \in Nodes \ {n} : Same(x)
  <2>1. CASE more
    BY <1>5, <1>6, <2>1 DEF Same
  <2>2. CASE ~more
    BY <1>5, <1>6, <2>2 DEF Same
  <2> QED BY <2>1, <2>2
<1>10. subs = (IF p = n THEN 1 ELSE S)
  BY <1>2
<1> DEFINE x == pi[n]
           y == sj[n]
<1> HIDE DEF S, p
<1>11. npc'[n] \notin Free /\ Busy' /\ Active(n)' /\ ~Waiting(n)'
  BY <1>1, <1>7 DEF Free, Busy, Active, Waiting
<1>12. Consumed(n)' = Consumed(n)
  BY <1>1, <1>7, <1>11 DEF Consumed
<1>13. Progress(n)'
  <2>1. npc'[n] \in Phases(cur[n].task) /\ npc'[n] \in {"send", "ack"}
    BY <1>7 DEF Phases
  <2>2. (npc'[n] = "send" => pi'[n] < ecM) /\ (npc'[n] = "ack" => pi'[n] = ecM)
    BY <1>3, <1>4, <1>7, <1>8
  <2>3. sj'[n] < S /\ (ecK + pi'[n] = n => sj'[n] = 0)
    BY <1>3, <1>4, <1>8, <1>10 DEF p
  <2> QED BY <1>3, <1>7, <2>1, <2>2, <2>3 DEF Progress, S
<1>14. NodeInv(n)'
  <2>1. NodeInv(n)
    BY DEF FlowInv
  <2> QED BY <1>1, <1>7, <1>11, <1>13, <2>1 DEF NodeInv
<1>15. ASSUME NEW e \in Edges(job), e[1] = n
       PROVE  /\ Sent(e)' <=> (Sent(e) \/ (e[2] = p /\ e[3] = sj[n]))
              /\ e[2] = p /\ e[3] = sj[n] => ~Sent(e)
  <2> DEFINE a == e[2]
             b == e[3]
  <2>1. a \in Nat /\ b \in Nat /\ b < S /\ a # n
    <3>1. e[2] \in ParityNodes /\ e[2] # n /\ e[3] \in 0 .. (S - 1)
      BY <1>1, <1>2, <1>15, EdgeFacts DEF S
    <3>2. e[2] \in Nat
      BY <3>1, NodeFacts
    <3>3. \A b0 \in 0 .. (S - 1) : b0 \in Nat /\ b0 < S
      BY <1>4
    <3> QED BY <3>1, <3>2, <3>3
  <2>2. Passed(e) <=> (a < p \/ (a = p /\ b < sj[n]))
    BY <1>15 DEF Passed, p
  <2>3. Passed(e)' <=> (a < ecK + pi'[n] \/ (a = ecK + pi'[n] /\ b < sj'[n]))
    BY <1>7, <1>15 DEF Passed
  <2> HIDE DEF a, b
  <2>4. Passed(e)' <=> (Passed(e) \/ (a = p /\ b = sj[n]))
    <3>1. CASE more
      <4>1. pi'[n] = pi[n] /\ sj'[n] = sj[n] + 1
        BY <1>8, <3>1
      <4>2. Passed(e)' <=> (a < p \/ (a = p /\ b < sj[n] + 1))
        BY <2>3, <4>1 DEF p
      <4>3. b < sj[n] + 1 <=> (b < sj[n] \/ b = sj[n])
        BY <1>3, <2>1
      <4> QED BY <2>2, <4>2, <4>3
    <3>2. CASE ~more
      <4>1. pi'[n] = pi[n] + 1 /\ sj'[n] = 0 /\ ecK + pi'[n] = p + 1
        BY <1>3, <1>4, <1>8, <3>2 DEF p
      <4>2. Passed(e)' <=> a < p + 1
        BY <2>1, <2>3, <4>1
      <4>3. a < p + 1 <=> (a < p \/ a = p)
        BY <1>4, <2>1
      <4>4. a = p => b < sj[n] \/ b = sj[n]
        BY <1>3, <1>4, <1>10, <2>1, <3>2
      <4> QED BY <2>2, <4>2, <4>3, <4>4
    <3> QED BY <3>1, <3>2
  <2>5. a = p /\ b = sj[n] => ~Passed(e)
    BY <1>3, <1>4, <2>2
  <2> QED BY <1>1, <1>11, <1>15, <2>4, <2>5 DEF Sent, a, b
<1> QED BY <1>3, <1>7, <1>9, <1>12, <1>14, <1>15 DEF p, S

\* Task 7: the slice of a sub-set to another parity.
LEMMA FlowSlice ==
    ASSUME IInv, FlowInv, NEW n \in Nodes, cur[n].task = 7, CrdSendSlice(n)
    PROVE  /\ FlowInv'
           /\ \E e0 \in Edges(job) : e0[2] = ecK + pi[n] /\ e0[3] = sj[n] /\ SentPlus(e0)
<1> DEFINE data == CrdSlice(n, pi[n], sj[n])
           subs == SubNum(cur[n].upds)
           p    == ecK + pi[n]
<1>1. /\ npc[n] = "send" /\ npc' = [npc EXCEPT ![n] = CrdNext(n, subs)]
      /\ CrdAdvance(n, subs) /\ p # n /\ Push(n, p, sj[n], data, CrdNext(n, subs))
      /\ UNCHANGED <<cpc, stripe, job, sent, cmds>>
  BY DEF CrdSendSlice, Push, cvars
<1>2. data \in Block /\ pi[n] \in Nat /\ sj[n] \in Nat
  <2>1. pi[n] \in Nat /\ sj[n] \in Nat
    BY DEF IInv, TypeOK
  <2>2. data \in Block
    BY <2>1, CrdSliceOK DEF IInv, TypeOK
  <2> QED BY <2>1, <2>2
<1> HIDE DEF data
<1>3. JobOK(job) /\ n \in TargetSet(job) /\ IsCmd(cur[n], job, n, stripe)
  BY <1>1, AtWork DEF Straggler, Free
<1>4. /\ NodeInv(n)' /\ (\A x \in Nodes \ {n} : Same(x))
      /\ Consumed(n)' = Consumed(n) /\ buf'[n] = buf[n] /\ cur'[n] = cur[n]
      /\ pi[n] < ecM /\ sj[n] < SubNum(job.vec)
      /\ \A e \in Edges(job) : e[1] = n =>
            (Sent(e)' <=> (Sent(e) \/ (e[2] = p /\ e[3] = sj[n])))
      /\ \A e \in Edges(job) : e[1] = n /\ e[2] = p /\ e[3] = sj[n] => ~Sent(e)
  <2> HIDE DEF subs
  <2>1. subs = IF ecK + pi[n] = n THEN 1 ELSE SubNum(cur[n].upds)
    BY <1>1 DEF subs
  <2> QED BY <1>1, <2>1, CrdLoop
<1>5. PICK e0 \in Edges(job) : e0[1] = n /\ e0[2] = p /\ e0[3] = sj[n]
  <2>1. p \in ParityNodes
    BY <1>2, <1>4, ParamsAssumption DEF ParityNodes
  <2>2. sj[n] \in 0 .. (SubNum(job.vec) - 1)
    <3>1. SubNum(job.vec) \in Nat
      BY <1>3, JobFacts
    <3> QED BY <1>2, <1>4, <3>1
  <2>3. Role(job, n) = 7
    BY <1>3 DEF IsCmd
  <2> HIDE DEF p
  <2>4. <<n, p, sj[n]>> \in Edges(job)
    BY <1>1, <1>3, <2>1, <2>2, <2>3, EdgeExists
  <2> QED BY <2>4
<1>6. \A e \in Edges(job) : e[1] = n /\ e[2] = p /\ e[3] = sj[n] => e = e0
  BY <1>3, <1>5, EdgeFacts
<1> HIDE DEF p
<1>7. ~Sent(e0) /\ Sent(e0)'
      /\ \A e \in Edges(job) : e[1] = n /\ e # e0 => (Sent(e)' <=> Sent(e))
  BY <1>4, <1>5, <1>6
<1>8. Push(n, e0[2], e0[3], data, CrdNext(n, subs))
  BY <1>1, <1>5
<1>9. /\ NodeInv(n)' /\ (\A x \in Nodes \ {n} : Same(x)) /\ Consumed(n)' = Consumed(n)
      /\ (buf'[n] = <<>> \/ (buf'[n] = buf[n] /\ cur'[n] = cur[n]))
  BY <1>4
<1> HIDE DEF subs
<1>10. FlowInv' /\ SentPlus(e0)
  BY <1>2, <1>5, <1>7, <1>8, <1>9, FlowPush
<1> QED BY <1>5, <1>10 DEF p

\* Task 7: the collector's own block.
LEMMA FlowWriteOwn ==
    ASSUME IInv, FlowInv, NEW n \in Nodes, cur[n].task = 7, CrdWriteOwn(n)
    PROVE  FlowInv' /\ SentSame
<1>1. /\ npc[n] = "send" /\ npc' = [npc EXCEPT ![n] = CrdNext(n, 1)]
      /\ CrdAdvance(n, 1) /\ ecK + pi[n] = n
      /\ UNCHANGED <<cpc, stripe, job, sent, cmds, queue>>
  BY DEF CrdWriteOwn, cvars
<1>2. JobOK(job) /\ n \in TargetSet(job) /\ IsCmd(cur[n], job, n, stripe)
  BY <1>1, AtWork DEF Straggler, Free
<1>3. /\ NodeInv(n)' /\ (\A x \in Nodes \ {n} : Same(x))
      /\ Consumed(n)' = Consumed(n) /\ buf'[n] = buf[n] /\ cur'[n] = cur[n]
      /\ \A e \in Edges(job) : e[1] = n =>
            (Sent(e)' <=> (Sent(e) \/ (e[2] = n /\ e[3] = sj[n])))
  <2> DEFINE one == 1
  <2>1. /\ one = IF ecK + pi[n] = n THEN 1 ELSE SubNum(cur[n].upds)
        /\ npc' = [npc EXCEPT ![n] = CrdNext(n, one)] /\ CrdAdvance(n, one)
    BY <1>1
  <2> HIDE DEF one
  <2> QED BY <1>1, <2>1, CrdLoop
<1>4. ASSUME NEW e \in Edges(job) PROVE Sent(e)' <=> Sent(e)
  <2>1. CASE e[1] = n
    <3>1. e[2] # n
      BY <1>2, <2>1, EdgeFacts DEF IsCmd
    <3> QED BY <1>3, <2>1, <3>1
  <2>2. CASE e[1] # n
    <3>1. e[1] \in Nodes \ {n}
      BY <1>2, <2>2, EdgeFacts, JobFacts
    <3> QED BY <1>1, <1>3, <3>1, SameOK
  <2> QED BY <2>1, <2>2
<1>5. \A x \in Nodes : Consumed(x)' = Consumed(x)
  BY <1>1, <1>3, SameOK
<1>6. \A x \in Nodes : MsgInv(x)'
  <2>1. \A x \in Nodes : MsgInv(x)
    BY DEF FlowInv
  <2> QED BY <1>1, <1>4, <1>5, <2>1, MsgKeep
<1>7. \A i \in DOMAIN buf'[n] : buf'[n][i].sid = cur'[n].sid
  BY <1>3 DEF FlowInv, NoMixing
<1>8. FlowInv'
  BY <1>1, <1>3, <1>6, <1>7, OneNode
<1>9. SentSame
  BY <1>4 DEF SentSame
<1> QED BY <1>8, <1>9

\* Every step of every handler.
LEMMA FlowHandle ==
    ASSUME IInv, FlowInv, NEW n \in Nodes, Handle(n)
    PROVE  FlowInv'
<1> DEFINE b == cur[n].upds[1]
<1>0. /\ disk \in [Nodes -> Block] /\ buf \in [Nodes -> Seq(Msg)] /\ disk[n] \in Block
      /\ pi[n] \in Nat /\ n \in Nat
  BY NodeFacts DEF IInv, TypeOK
<1>1. ASSUME NEW known, NEW count, NEW next, Recv(n, known, count, next),
             cur[n].task \in {2, 3, 5, 7, 8},
             next = (IF cur[n].task \in {2, 7} THEN "send" ELSE "write"),
             IsCmd(cur[n], job, n, stripe) /\ JobOK(job) =>
                /\ count = Count(job, n) /\ \A e \in In(job, n) : e[3] \in known
      PROVE  FlowInv'
  <2>1. npc[n] = "recv"
    BY <1>1 DEF Recv
  <2>2. IsCmd(cur[n], job, n, stripe) /\ JobOK(job)
    BY <2>1, AtWork DEF Straggler, Free
  <2> QED BY <1>1, <2>2, FlowRecv
<1>2. ASSUME NEW block, Write(n, block, "idle") PROVE FlowInv'
  <2>1. /\ npc[n] = "write" /\ npc' = [npc EXCEPT ![n] = "idle"] /\ Return(n)
        /\ UNCHANGED <<cpc, stripe, job, sent, cmds, queue>>
    BY <1>2 DEF Write, cvars
  <2> QED BY <2>1, FlowReturn
<1>3. ASSUME NEW block, Write(n, block, "ack"), cur[n].task \in {3, 5, 8} PROVE FlowInv'
  <2>1. /\ npc[n] = "write" /\ npc' = [npc EXCEPT ![n] = "ack"]
        /\ UNCHANGED <<cpc, stripe, job, sent, cmds, queue, cur, buf, pi, sj>>
    BY <1>3 DEF Write, cvars, Stay
  <2> QED BY <1>3, <2>1, FlowMove
<1>4. ASSUME SendAck(n) PROVE FlowInv'
  <2>1. /\ npc[n] = "ack" /\ npc' = [npc EXCEPT ![n] = "idle"] /\ Return(n)
        /\ UNCHANGED <<cpc, stripe, job, sent, cmds, queue>>
    BY <1>4 DEF SendAck, cvars
  <2> QED BY <2>1, FlowReturn
<1>5. ASSUME JobOK(job), NEW e \in In(job, n)
      PROVE  /\ Role(job, n) \in {2, 7} => e[3] \in Ids(job.vec)
             /\ Role(job, n) \in {3, 5} => e[3] \in Nodes
             /\ Role(job, n) = 8 => e[3] \in 0 .. (SubNum(job.vec) - 1)
  <2>1. e \in Edges(job) /\ e[2] = n
    BY <1>5 DEF In
  <2> QED BY <1>5, <2>1, EdgeFacts
<1>11. CASE send_data_to_collector_for_raid(n)
  <2>1. cur[n].task \in {1, 6}
    BY <1>11 DEF send_data_to_collector_for_raid
  <2>2. CASE Push(n, cur[n].to, n, DataDelta(n, 0, blocksize), "write") /\ Stay
    BY <1>0, <2>1, <2>2, DataDeltaOK, FlowPushStay
  <2>3. CASE Write(n, Overwritten(n, 0, blocksize), "idle")
    BY <1>2, <2>3
  <2> QED BY <1>11, <2>2, <2>3 DEF send_data_to_collector_for_raid
<1>12. CASE recv_and_compute_and_send_for_raid(n)
  <2>1. cur[n].task = 2
    BY <1>12 DEF recv_and_compute_and_send_for_raid
  <2>2. CASE Recv(n, Ids(cur[n].upds), cur[n].num - 1, "send")
    <3>1. IsCmd(cur[n], job, n, stripe) /\ JobOK(job) =>
             /\ cur[n].num - 1 = Count(job, n) /\ \A e \in In(job, n) : e[3] \in Ids(cur[n].upds)
      BY <1>5, <2>1 DEF IsCmd, Count
    <3>2. "send" = IF cur[n].task \in {2, 7} THEN "send" ELSE "write"
      BY <2>1
    <3> QED BY <1>1, <2>1, <2>2, <3>1, <3>2
  <2>3. CASE PushToParity(n, RaidParity(n, ecM - pi[n] - 1), "idle")
    <3>1. ecM - pi[n] - 1 \in Int
      BY <1>0, ParamsAssumption
    <3>2. RaidParity(n, ecM - pi[n] - 1) \in Block
      BY <3>1, <1>0, RaidParityOK
    <3> QED BY <2>1, <2>3, <3>2, FlowPushToParity
  <2> QED BY <1>12, <2>2, <2>3 DEF recv_and_compute_and_send_for_raid
<1>13. CASE recv_and_save_for_raid(n)
  <2>1. cur[n].task = 3
    BY <1>13 DEF recv_and_save_for_raid
  <2>2. CASE Recv(n, Nodes, 1, "write")
    <3>1. IsCmd(cur[n], job, n, stripe) /\ JobOK(job) =>
             /\ 1 = Count(job, n) /\ \A e \in In(job, n) : e[3] \in Nodes
      BY <1>5, <2>1 DEF IsCmd, Count
    <3>2. "write" = IF cur[n].task \in {2, 7} THEN "send" ELSE "write"
      BY <2>1
    <3> QED BY <1>1, <2>1, <2>2, <3>1, <3>2
  <2>3. CASE Write(n, Received(n, n), "ack")
    BY <1>3, <2>1, <2>3
  <2> QED BY <1>4, <1>13, <2>2, <2>3 DEF recv_and_save_for_raid
<1>14. CASE send_parity_delta_to_each_parity_for_delta(n)
  <2>1. cur[n].task = 4
    BY <1>14 DEF send_parity_delta_to_each_parity_for_delta
  <2>2. CASE PushToParity(n, DeltaJunk(b.size), "write")
    BY <2>1, <2>2, DeltaJunkOK, FlowPushToParity
  <2>3. CASE Write(n, Overwritten(n, b.off, b.size), "idle")
    BY <1>2, <2>3
  <2> QED BY <1>14, <2>2, <2>3 DEF send_parity_delta_to_each_parity_for_delta
<1>15. CASE recv_parity_delta_and_aggre_for_delta(n)
  <2>1. cur[n].task = 5
    BY <1>15 DEF recv_parity_delta_and_aggre_for_delta
  <2>2. CASE Recv(n, Nodes, cur[n].num, "write")
    <3>1. IsCmd(cur[n], job, n, stripe) /\ JobOK(job) =>
             /\ cur[n].num = Count(job, n) /\ \A e \in In(job, n) : e[3] \in Nodes
      BY <1>5, <2>1 DEF IsCmd, Count
    <3>2. "write" = IF cur[n].task \in {2, 7} THEN "send" ELSE "write"
      BY <2>1
    <3> QED BY <1>1, <2>1, <2>2, <3>1, <3>2
  <2>3. CASE Write(n, DeltaParity(n), "ack")
    BY <1>3, <2>1, <2>3
  <2> QED BY <1>4, <1>15, <2>2, <2>3 DEF recv_parity_delta_and_aggre_for_delta
<1>16. CASE send_data_delta_to_parity_collector_for_crd(n)
  <2>1. cur[n].task \in {1, 6}
    BY <1>16 DEF send_data_delta_to_parity_collector_for_crd
  <2>2. CASE Push(n, cur[n].to, n, DataDelta(n, b.off, b.size), "write") /\ Stay
    BY <1>0, <2>1, <2>2, DataDeltaOK, FlowPushStay
  <2>3. CASE Write(n, Overwritten(n, b.off, b.size), "idle")
    BY <1>2, <2>3
  <2> QED BY <1>16, <2>2, <2>3 DEF send_data_delta_to_parity_collector_for_crd
<1>17. CASE recv_and_compute_in_parity_collector_for_crd(n)
  <2>1. cur[n].task = 7
    BY <1>17 DEF recv_and_compute_in_parity_collector_for_crd
  <2>2. CASE Recv(n, Ids(cur[n].upds), cur[n].num, "send")
    <3>1. IsCmd(cur[n], job, n, stripe) /\ JobOK(job) =>
             /\ cur[n].num = Count(job, n) /\ \A e \in In(job, n) : e[3] \in Ids(cur[n].upds)
      BY <1>5, <2>1 DEF IsCmd, Count
    <3>2. "send" = IF cur[n].task \in {2, 7} THEN "send" ELSE "write"
      BY <2>1
    <3> QED BY <1>1, <2>1, <2>2, <3>1, <3>2
  <2>3. CASE CrdSendSlice(n)
    BY <2>1, <2>3, FlowSlice
  <2>4. CASE CrdWriteOwn(n)
    BY <2>1, <2>4, FlowWriteOwn
  <2> QED BY <1>4, <1>17, <2>2, <2>3, <2>4 DEF recv_and_compute_in_parity_collector_for_crd
<1>18. CASE recv_parity_delta_and_aggre_for_crd(n)
  <2> DEFINE subs == SubNum(cur[n].upds)
             known == 0 .. (subs - 1)
  <2>1. cur[n].task = 8
    BY <1>18 DEF recv_parity_delta_and_aggre_for_crd
  <2>2. CASE Recv(n, known, subs, "write")
    <3>1. IsCmd(cur[n], job, n, stripe) /\ JobOK(job) =>
             /\ subs = Count(job, n) /\ \A e \in In(job, n) : e[3] \in known
      BY <1>5, <2>1 DEF IsCmd, Count
    <3>2. "write" = IF cur[n].task \in {2, 7} THEN "send" ELSE "write"
      BY <2>1
    <3> HIDE DEF known, subs
    <3> QED BY <1>1, <2>1, <2>2, <3>1, <3>2
  <2>3. CASE Write(n, XorBlock(disk[n], CrdAggregate(n)), "ack")
    BY <1>3, <2>1, <2>3
  <2> QED BY <1>4, <1>18, <2>2, <2>3 DEF recv_parity_delta_and_aggre_for_crd
<1> QED BY <1>11, <1>12, <1>13, <1>14, <1>15, <1>16, <1>17, <1>18 DEF Handle

\* The handler a node enters with the command of its task.
LEMMA FirstPhaseOK ==
    ASSUME NEW j, JobOK(j), NEW n \in TargetSet(j), NEW c, NEW s, IsCmd(c, j, n, s)
    PROVE  /\ FirstPhase(n, c) \in {"recv", "send"} /\ FirstPhase(n, c) \in Phases(c.task)
           /\ FirstPhase(n, c) = "recv" => Count(j, n) > 0
           /\ FirstPhase(n, c) # "recv" => Count(j, n) = 0
<1>1. c.task = Role(j, n) /\ Role(j, n) \in 1 .. 8
  BY KeyIs DEF IsCmd
<1>2. Len(j.vec) \in Nat /\ Len(j.vec) > 0 /\ SubNum(j.vec) > 0
  BY JobFacts
<1>3. CASE Role(j, n) \in {1, 4, 6}
  <2>1. FirstPhase(n, c) = "send"
    BY <1>1, <1>3 DEF FirstPhase
  <2> QED BY <1>1, <1>3, <2>1 DEF Count, Phases
<1>4. CASE Role(j, n) = 2
  <2>1. c.upds = j.vec /\ c.num = Len(j.vec)
    BY <1>1, <1>4 DEF IsCmd
  <2>2. n \in Ids(c.upds)
    <3>1. j.policy = "raid" /\ n = j.collector
      BY <1>4 DEF Role
    <3> QED BY <2>1, <3>1, JobFacts
  <2>3. FirstPhase(n, c) = IF c.num = 1 THEN "send" ELSE "recv"
    BY <1>1, <1>4, <2>2 DEF FirstPhase
  <2>4. Count(j, n) = Len(j.vec) - 1
    BY <1>4 DEF Count
  <2>5. Phases(c.task) = {"recv", "send"}
    BY <1>1, <1>4 DEF Phases
  <2>6. CASE Len(j.vec) = 1
    <3>1. FirstPhase(n, c) = "send" /\ Count(j, n) = 0
      BY <2>1, <2>3, <2>4, <2>6
    <3> QED BY <2>5, <3>1
  <2>7. CASE Len(j.vec) # 1
    <3>1. FirstPhase(n, c) = "recv"
      BY <2>1, <2>3, <2>7
    <3> DEFINE l == Len(j.vec)
    <3>2. l \in Nat /\ l > 0 /\ l # 1
      BY <1>2, <2>7
    <3> HIDE DEF l
    <3>3. l - 1 > 0
      BY <3>2
    <3> QED BY <2>4, <2>5, <3>1, <3>3 DEF l
  <2> QED BY <2>6, <2>7
<1>5. CASE Role(j, n) \in {3, 5, 7, 8}
  <2>1. FirstPhase(n, c) = "recv"
    BY <1>1, <1>5 DEF FirstPhase
  <2> QED BY <1>1, <1>2, <1>5, <2>1 DEF Count, Phases
<1> QED BY <1>1, <1>3, <1>4, <1>5

\* BLPOP upd_cmds: nothing sent, nothing consumed yet.
LEMMA FlowTakeCmd ==
    ASSUME IInv, FlowInv, NEW n \in Nodes, TakeCmd(n)
    PROVE  FlowInv' /\ SentSame
<1> DEFINE h == Head(cmds[n])
           s == FirstPhase(n, h)
<1>1. /\ npc[n] = "idle" /\ cmds[n] # <<>> /\ cmds' = [cmds EXCEPT ![n] = Tail(@)]
      /\ cur' = [cur EXCEPT ![n] = h] /\ npc' = [npc EXCEPT ![n] = s]
      /\ UNCHANGED <<cpc, stripe, job, sent, queue, buf, pi, sj>>
  BY DEF TakeCmd, cvars
<1>2. NodeInv(n)
  BY DEF FlowInv
<1>3. Busy /\ JobOK(job)
  BY <1>1, <1>2 DEF NodeInv, IInv, CoordInv, Busy
<1>4. /\ Len(cmds[n]) = 1 /\ IsCmd(cmds[n][1], job, n, stripe)
      /\ n \in TargetSet(job) /\ n \notin Plan(job, sent)
  BY <1>1, <1>2, <1>3 DEF NodeInv
<1>5. /\ npc \in [Nodes -> NodeStates] /\ cur \in [Nodes -> Cmd]
      /\ cmds \in [Nodes -> Seq(Cmd)] /\ cmds[n] \in Seq(Cmd)
  BY DEF IInv, TypeOK, NodeStates
<1>6. h = cmds[n][1] /\ Tail(cmds[n]) = <<>>
  BY <1>1, <1>4, <1>5
<1>7. /\ npc'[n] = s /\ cur'[n] = h /\ cmds'[n] = <<>> /\ buf'[n] = buf[n]
      /\ pi'[n] = pi[n] /\ sj'[n] = sj[n] /\ \A x \in Nodes \ {n} : Same(x)
  BY <1>1, <1>5, <1>6 DEF Same
<1>8. IsCmd(h, job, n, stripe)
  BY <1>4, <1>6
<1> HIDE DEF h, s
<1>9. /\ s \in {"recv", "send"} /\ s \in Phases(h.task)
      /\ (s = "recv" => Count(job, n) > 0) /\ (s # "recv" => Count(job, n) = 0)
  BY <1>3, <1>4, <1>8, FirstPhaseOK DEF s
<1>10. buf[n] = <<>> /\ pi[n] = 0 /\ sj[n] = 0 /\ Len(buf[n]) = 0
  BY <1>1, <1>2 DEF NodeInv, Free
<1>11. Busy' /\ Active(n)' /\ ~Waiting(n)' /\ Waiting(n) /\ npc'[n] \notin Free
  BY <1>1, <1>3, <1>4, <1>7, <1>8, <1>9 DEF Busy, Active, Waiting, IsCmd, Free
<1>12. Consumed(n)' = Consumed(n)
  BY <1>7, <1>10, <1>11 DEF Consumed
<1>13. Progress(n)'
  <2>1. SubNum(job.vec) > 0 /\ ecM > 0
    BY <1>3, JobFacts, ParamsAssumption
  <2> QED BY <1>1, <1>7, <1>9, <1>10, <2>1 DEF Progress
<1>14. NodeInv(n)'
  <2>1. stripe \in Nat /\ h.sid = stripe
    BY <1>8, ParamsAssumption DEF IInv, TypeOK, IsCmd
  <2> QED BY <1>1, <1>4, <1>7, <1>8, <1>11, <1>13, <2>1 DEF NodeInv
<1>15. ASSUME NEW e \in Edges(job) PROVE Sent(e)' <=> Sent(e)
  <2>1. CASE e[1] = n
    <3>1. ~Sent(e)
      BY <1>11, <2>1 DEF Sent
    <3>2. ~Passed(e)'
      <4>1. cur'[n].task = Role(job, n)
        BY <1>7, <1>8 DEF IsCmd
      <4>2. CASE Role(job, n) \in {1, 6}
        BY <1>7, <1>9, <2>1, <4>1, <4>2 DEF Passed
      <4>3. CASE Role(job, n) \notin {1, 6}
        <5>1. /\ e[2] \in ParityNodes /\ e[3] \in Nat
          BY <1>3, <2>1, <4>3, EdgeFacts
        <5>2. ~(e[2] < ecK + pi'[n]) /\ ~(e[3] < sj'[n])
          <6>1. \A p \in ParityNodes : ~(p < ecK + 0)
            BY ParamsAssumption DEF ParityNodes
          <6> QED BY <1>7, <1>10, <5>1, <6>1
        <5> QED BY <2>1, <4>1, <4>3, <5>2 DEF Passed
      <4> QED BY <4>2, <4>3
    <3> QED BY <1>11, <2>1, <3>1, <3>2 DEF Sent
  <2>2. CASE e[1] # n
    <3>1. e[1] \in Nodes \ {n}
      BY <1>3, <2>2, EdgeFacts, JobFacts
    <3> QED BY <1>1, <1>7, <3>1, SameOK
  <2> QED BY <2>1, <2>2
<1>16. \A x \in Nodes : MsgInv(x)'
  <2>1. \A x \in Nodes : Consumed(x)' = Consumed(x)
    BY <1>1, <1>7, <1>12, SameOK
  <2>2. \A x \in Nodes : MsgInv(x)
    BY DEF FlowInv
  <2> QED BY <1>1, <1>15, <2>1, <2>2, MsgKeep
<1>17. \A i \in DOMAIN buf'[n] : buf'[n][i].sid = cur'[n].sid
  BY <1>7, <1>10
<1>18. FlowInv'
  BY <1>1, <1>7, <1>14, <1>16, <1>17, OneNode
<1>19. SentSame
  BY <1>15 DEF SentSame
<1> QED BY <1>18, <1>19

-----------------------------------------------------------------------------
(* The steps of the coordinator. *)

\* A command moves from the plan to upd_cmds: its target waits as before.
LEMMA FlowSendCmd ==
    ASSUME IInv, FlowInv, SendCmd
    PROVE  FlowInv' /\ SentSame
<1> DEFINE n == Targets(job)[sent + 1]
           c == CmdFor(job, n)
<1>1. /\ cpc = "send" /\ cmds' = [cmds EXCEPT ![n] = Append(@, c)] /\ sent' = sent + 1
      /\ cpc' \in {"send", "ack"}
      /\ UNCHANGED <<stripe, job, queue, npc, cur, buf, pi, sj>>
  BY DEF SendCmd, nvars
<1>2. JobOK(job) /\ sent < Len(Targets(job)) /\ sent \in Nat
  BY <1>1 DEF IInv, CoordInv, TypeOK
<1>3. /\ n \in TargetSet(job) /\ n \in Plan(job, sent)
      /\ Plan(job, sent + 1) = Plan(job, sent) \ {n} /\ n \in Nodes
  BY <1>2, PlanStep, JobFacts DEF TargetSet
<1>4. IsCmd(c, job, n, stripe)
  BY <1>2, <1>3, CmdForIs
<1> HIDE DEF n, c
<1>5. Busy /\ Busy' /\ \A x \in Nodes : NodeInv(x) /\ MsgInv(x)
  BY <1>1 DEF Busy, FlowInv
<1>6. cmds[n] = <<>> /\ cmds \in [Nodes -> Seq(Cmd)]
  BY <1>3, <1>5 DEF NodeInv, IInv, TypeOK
<1>7. /\ cmds'[n] = Append(<<>>, c) /\ \A x \in Nodes : x # n => cmds'[x] = cmds[x]
  BY <1>1, <1>3, <1>6
<1>8. cmds'[n] # <<>> /\ Len(cmds'[n]) = 1 /\ cmds'[n][1] = c
  BY <1>7
<1>9. Plan(job', sent') = Plan(job, sent) \ {n}
  BY <1>1, <1>3
<1>10. ASSUME NEW x \in Nodes PROVE Waiting(x)' <=> Waiting(x)
  <2>1. CASE x = n
    BY <1>3, <1>8, <2>1 DEF Waiting
  <2>2. CASE x # n
    BY <1>7, <1>9, <2>2 DEF Waiting
  <2> QED BY <2>1, <2>2
<1>11. ASSUME NEW x \in Nodes
       PROVE  /\ Active(x)' <=> Active(x)
              /\ Consumed(x)' = Consumed(x)
              /\ Progress(x)' <=> Progress(x)
              /\ Straggler(x)' <=> Straggler(x)
  <2>1. Active(x)' <=> Active(x)
    BY <1>1 DEF Active
  <2>2. Consumed(x)' = Consumed(x)
    BY <1>1, <1>10, <2>1 DEF Consumed
  <2>3. (Progress(x)' <=> Progress(x)) /\ (Straggler(x)' <=> Straggler(x))
    BY <1>1 DEF Progress, Straggler
  <2> QED BY <2>1, <2>2, <2>3
<1>12. ASSUME NEW x \in Nodes PROVE NodeInv(x)'
  <2>1. /\ npc'[x] = npc[x] /\ cur'[x] = cur[x] /\ buf'[x] = buf[x] /\ pi'[x] = pi[x]
        /\ sj'[x] = sj[x] /\ stripe' = stripe /\ job' = job
    BY <1>1
  <2>2. NodeInv(x)
    BY <1>5
  <2>3. CASE x = n
    BY <1>3, <1>4, <1>5, <1>8, <1>9, <1>10, <1>11, <2>1, <2>2, <2>3 DEF NodeInv
  <2>4. CASE x # n
    BY <1>5, <1>7, <1>9, <1>10, <1>11, <2>1, <2>2, <2>4 DEF NodeInv
  <2> QED BY <2>3, <2>4
<1>13. ASSUME NEW e \in Edges(job) PROVE Sent(e)' <=> Sent(e)
  <2>1. e[1] \in Nodes
    BY <1>2, EdgeFacts, JobFacts
  <2>2. Passed(e)' <=> Passed(e)
    BY <1>1 DEF Passed
  <2> QED BY <1>10, <1>11, <2>1, <2>2 DEF Sent
<1>14. ASSUME NEW x \in Nodes PROVE MsgInv(x)'
  <2>1. Arrived(x)' = Arrived(x)
    BY <1>1, <1>13 DEF Arrived, In
  <2>2. MsgInv(x) /\ stripe' = stripe /\ job' = job /\ queue' = queue /\ Consumed(x)' = Consumed(x)
    BY <1>1, <1>5, <1>11
  <2> QED BY <1>5, <2>1, <2>2 DEF MsgInv
<1>15. NoMixing'
  BY <1>1 DEF FlowInv, NoMixing
<1>16. FlowInv'
  BY <1>12, <1>14, <1>15 DEF FlowInv
<1>17. SentSame
  BY <1>13 DEF SentSame
<1> QED BY <1>16, <1>17

\* A stripe starts with empty lists and every target waiting; a straggler of an
\* earlier one is not taken for one of its handlers.
LEMMA FlowStart ==
    ASSUME IInv, IInv', FlowInv, NEW policy, NEW v, NEW c0, StartStripe(policy, v, c0)
    PROVE  FlowInv'
<1>1. /\ cpc = "idle" /\ cpc' = "send" /\ stripe' = stripe + 1 /\ sent' = 0
      /\ UNCHANGED <<cmds, queue, npc, cur, buf, pi, sj>>
  BY DEF StartStripe, nvars
<1>2. ~Busy /\ Busy' /\ JobOK(job') /\ stripe \in Nat
  BY <1>1, ParamsAssumption DEF Busy, IInv, CoordInv, TypeOK
<1>3. TargetSet(job') \subseteq Plan(job', sent')
  BY <1>1, <1>2, PlanStart DEF TargetSet
<1>4. ASSUME NEW n \in Nodes
      PROVE  /\ NodeInv(n) /\ cmds[n] = <<>> /\ (\A k \in Keys : queue[k][n] = <<>>)
             /\ ~Active(n)' /\ cur[n].sid <= stripe + 1
             /\ npc[n] \notin Free => Straggler(n)
  <2>1. NodeInv(n) /\ MsgInv(n)
    BY DEF FlowInv
  <2>2. cur[n].sid <= stripe /\ cur[n].sid \in Nat
    <3>1. cur[n] \in Cmd
      BY DEF IInv, TypeOK
    <3>2. cur[n].sid \in 0 .. MaxStripes
      BY <3>1 DEF Cmd
    <3> QED BY <2>1, <3>2, ParamsAssumption DEF NodeInv
  <2>3. ~Active(n)'
    <3>1. cur[n].sid # stripe + 1
      BY <1>2, <2>2
    <3> QED BY <1>1, <3>1 DEF Active
  <2>4. cur[n].sid <= stripe + 1
    BY <1>2, <2>2
  <2> QED BY <1>2, <2>1, <2>3, <2>4 DEF NodeInv, MsgInv
<1>5. ASSUME NEW n \in Nodes PROVE NodeInv(n)'
  <2>1. npc'[n] = npc[n] /\ cur'[n] = cur[n] /\ buf'[n] = buf[n] /\ pi'[n] = pi[n]
        /\ sj'[n] = sj[n] /\ cmds'[n] = <<>> /\ stripe' = stripe + 1
    BY <1>1, <1>4
  <2>2. npc[n] \notin Free => Straggler(n)'
    BY <1>4, <2>1 DEF Straggler
  <2>3. npc[n] \in Free => buf[n] = <<>> /\ pi[n] = 0 /\ sj[n] = 0
    BY <1>4 DEF NodeInv
  <2> QED BY <1>2, <1>4, <2>1, <2>2, <2>3 DEF NodeInv
<1>6. ASSUME NEW n \in Nodes PROVE MsgInv(n)'
  <2>1. \A e \in In(job', n) : ~Sent(e)'
    <3> SUFFICES ASSUME NEW e \in In(job', n) PROVE ~Sent(e)'
      OBVIOUS
    <3>1. e[1] \in TargetSet(job')
      BY <1>2, EdgeFacts DEF In
    <3> QED BY <1>3, <3>1 DEF Sent, Waiting
  <2> DEFINE A == Arrived(n)'
             none == {}
  <2>2. A = none
    BY <2>1 DEF Arrived
  <2>3. Cardinality(none) = 0
    BY FS_EmptySet
  <2> HIDE DEF none, A
  <2>4. Cardinality(A) = 0
    BY <2>2, <2>3
  <2>5. Consumed(n)' = 0
    <3>1. CASE n \in TargetSet(job')
      BY <1>3, <3>1 DEF Consumed, Waiting
    <3>2. CASE n \notin TargetSet(job')
      <4>1. Role(job', n) \in {1, 4, 6}
        <5>1. n \in DataNodes /\ n \notin Ids((job').vec)
          BY <3>2, NodeFacts DEF TargetSet
        <5>2. (job').policy = "raid" => n # (job').collector
          BY <1>2, <5>1, JobFacts
        <5> QED BY <5>1, <5>2 DEF Role
      <4>2. Count(job', n) = 0
        BY <4>1 DEF Count
      <4> QED BY <1>4, <4>2 DEF Consumed
    <3> QED BY <3>1, <3>2
  <2>6. \A k \in Keys : queue'[k][n] = <<>>
    BY <1>1, <1>4
  <2>7. KeyFor(job') \in Keys /\ Len(<<>>) = 0
    BY KeyIs
  <2>8. Len(queue'[KeyFor(job')][n]) = 0
    BY <2>6, <2>7
  <2>9. Consumed(n)' + Len(queue'[KeyFor(job')][n]) = Cardinality(A)
    BY <2>4, <2>5, <2>8
  <2> QED BY <2>6, <2>8, <2>9 DEF MsgInv, A
<1>7. NoMixing'
  BY <1>1 DEF FlowInv, NoMixing
<1> QED BY <1>5, <1>6, <1>7 DEF FlowInv

\* A node that has finished its handler of the stripe has been sent, and has
\* consumed, everything the stripe has for it.
LEMMA Delivered ==
    ASSUME IInv, FlowInv, Busy, NEW r \in Nodes, ~Waiting(r), ~Active(r)
    PROVE  /\ \A k \in Keys : queue[k][r] = <<>>
           /\ \A e \in In(job, r) : Sent(e)
<1> DEFINE q == queue[KeyFor(job)][r]
           A == Arrived(r)
<1>1. JobOK(job) /\ Count(job, r) \in Nat
  BY InCount DEF IInv, CoordInv, Busy
<1>2. q \in Seq(Msg) /\ Len(q) \in Nat
  <2>1. q \in Seq(Msg)
    BY ZenonT(40), KeyIs DEF IInv, TypeOK
  <2> QED BY <2>1
<1>3. MsgInv(r)
  BY DEF FlowInv
<1>4. Count(job, r) + Len(q) = Cardinality(A)
  BY <1>3 DEF MsgInv, Consumed
<1>5. /\ Cardinality(A) \in Nat /\ Cardinality(A) <= Count(job, r)
      /\ (Cardinality(A) = Count(job, r) => A = In(job, r))
  <2>1. A \in SUBSET In(job, r)
    BY DEF Arrived
  <2> HIDE DEF A
  <2> QED BY <1>1, <2>1, ArrivedFinite
<1> HIDE DEF q, A
<1>6. Len(q) = 0 /\ Cardinality(A) = Count(job, r)
  BY <1>1, <1>2, <1>4, <1>5
<1>7. q = <<>> /\ A = In(job, r)
  BY <1>2, <1>5, <1>6
<1> QED BY <1>3, <1>7 DEF MsgInv, q, A, Arrived

\* When every parity has committed, every message of the stripe has been sent
\* and consumed, and of the handlers only the writes of data nodes are left.
LEMMA Completed ==
    ASSUME IInv, FlowInv, cpc = "ack", Pending = {}, NEW n \in Nodes
    PROVE  /\ cmds[n] = <<>> /\ \A k \in Keys : queue[k][n] = <<>>
           /\ npc[n] \notin Free => Straggler(n)
<1>1. Busy /\ JobOK(job) /\ Plan(job, sent) = {}
  BY PlanEnd DEF Busy, IInv, CoordInv
<1>2. ASSUME NEW p \in ParityNodes PROVE ~Waiting(p) /\ ~Active(p) /\ npc[p] \in Free /\ p \in Nodes
  <2>1. Pending = PendingOf(job, sent, cmds, npc)
    BY <1>1, PendingIs
  <2> QED BY <1>1, <2>1, NodeFacts DEF PendingOf, Waiting, Active
<1>3. ASSUME NEW r \in Nodes, ~Waiting(r), ~Active(r)
      PROVE  /\ \A k \in Keys : queue[k][r] = <<>>
             /\ \A e \in Edges(job) : e[2] = r => Sent(e)
  BY <1>1, <1>3, Delivered DEF In
<1>4. ASSUME NEW m \in TargetSet(job), Role(job, m) \in {2, 4}
      PROVE  ~Waiting(m) /\ (Active(m) => pi[m] >= ecM /\ npc[m] = "write")
  <2>1. m \in Nodes /\ NodeInv(m)
    BY <1>1, JobFacts DEF FlowInv
  <2> DEFINE p == ecK + ecM - 1
  <2>2. p \in ParityNodes /\ p \in Nat
    BY ParamsAssumption DEF ParityNodes
  <2> HIDE DEF p
  <2>3. PICK e \in Edges(job) : e[1] = m /\ e[2] = p
    <3>1. <<m, p, p>> \in Edges(job)
      BY <1>1, <1>4, <2>2, EdgeExists
    <3> QED BY <3>1
  <2>4. Sent(e)
    BY <1>2, <1>3, <2>2, <2>3
  <2>5. ~Waiting(m) /\ (Active(m) => Passed(e))
    BY <2>3, <2>4 DEF Sent
  <2>6. ASSUME Active(m) PROVE pi[m] >= ecM /\ npc[m] = "write"
    <3>1. cur[m].task = Role(job, m) /\ Progress(m)
      BY <1>1, <2>1, <2>6 DEF NodeInv, IsCmd
    <3>2. p < ecK + pi[m]
      BY <1>4, <2>3, <2>5, <2>6, <3>1 DEF Passed
    <3>3. pi[m] >= ecM /\ pi[m] \in Nat
      <4>1. pi[m] \in Nat
        BY <2>1 DEF IInv, TypeOK
      <4> QED BY <3>2, <4>1, ParamsAssumption DEF p
    <3>4. npc[m] \notin {"send", "exit", "recv"}
      <4>1. ~(pi[m] < ecM) /\ pi[m] # 0
        BY <3>3, ParamsAssumption
      <4> QED BY <1>4, <3>1, <4>1 DEF Progress
    <3>5. npc[m] = "write"
      BY <1>4, <3>1, <3>4 DEF Progress, Phases
    <3> QED BY <3>3, <3>5
  <2> QED BY <2>5, <2>6
<1>5. ASSUME NEW m \in TargetSet(job), Role(job, m) = 2 PROVE ~Active(m)
  <2>1. Active(m) => npc[m] = "write"
    BY <1>4, <1>5
  <2>2. Active(m) => Progress(m) /\ cur[m].task = 2
    <3>1. m \in Nodes /\ NodeInv(m)
      BY <1>1, JobFacts DEF FlowInv
    <3> QED BY <1>1, <1>5, <3>1 DEF NodeInv, IsCmd
  <2> QED BY <2>1, <2>2 DEF Progress, Phases
<1>6. \/ ~Waiting(job.collector) /\ ~Active(job.collector) /\ job.collector \in Nodes
      \/ job.policy = "delta"
  <2>1. CASE job.policy = "raid"
    <3>1. job.collector \in TargetSet(job) /\ Role(job, job.collector) = 2
          /\ job.collector \in Nodes
      BY <1>1, <2>1, JobFacts DEF TargetSet, Role
    <3> QED BY <1>4, <1>5, <3>1
  <2>2. CASE job.policy \notin {"raid", "delta"}
    BY <1>1, <1>2, <2>2, JobFacts
  <2> QED BY <2>1, <2>2
<1>7. ASSUME n \in TargetSet(job), Role(job, n) \in {1, 6}
      PROVE  ~Waiting(n) /\ (Active(n) => npc[n] = "write")
  <2>1. job.policy # "delta"
    BY <1>7 DEF Role
  <2>2. PICK e \in Edges(job) : e[1] = n /\ e[2] = job.collector
    <3>1. <<n, job.collector, n>> \in Edges(job)
      BY <1>1, <1>7, EdgeExists
    <3> QED BY <3>1
  <2>3. Sent(e)
    BY <1>3, <1>6, <2>1, <2>2
  <2>4. ~Waiting(n) /\ (Active(n) => Passed(e))
    BY <2>2, <2>3 DEF Sent
  <2>5. Active(n) => cur[n].task = Role(job, n)
    BY <1>1 DEF FlowInv, NodeInv, IsCmd
  <2> QED BY <1>7, <2>2, <2>4, <2>5 DEF Passed
<1>8. Role(job, n) \in {1, 2, 4, 6} \/ n \in ParityNodes
  BY NodeFacts DEF Role
<1>9. NodeInv(n) /\ MsgInv(n)
  BY DEF FlowInv
<1>10. ~Waiting(n)
  <2>1. CASE n \in TargetSet(job)
    BY <1>2, <1>4, <1>7, <1>8, <2>1
  <2>2. CASE n \notin TargetSet(job)
    BY <1>1, <1>9, <2>2 DEF NodeInv, Waiting
  <2> QED BY <2>1, <2>2
<1>11. cmds[n] = <<>>
  BY <1>10 DEF Waiting
<1>12. npc[n] \notin Free => Straggler(n)
  <2> SUFFICES ASSUME npc[n] \notin Free, Active(n) PROVE Straggler(n)
    BY <1>9 DEF NodeInv
  <2>1. n \in TargetSet(job) /\ Progress(n) /\ cur[n].task = Role(job, n)
    BY <1>1, <1>9 DEF NodeInv, IsCmd
  <2>2. Role(job, n) \in {1, 4, 6} /\ npc[n] = "write"
    BY <1>2, <1>4, <1>5, <1>7, <1>8, <2>1
  <2>3. Len(buf[n]) = 0 /\ buf[n] \in Seq(Msg)
    BY <2>1, <2>2 DEF Progress, Count, IInv, TypeOK
  <2>4. buf[n] = <<>>
    BY <2>3
  <2> QED BY <2>1, <2>2, <2>4 DEF Straggler
<1>13. \A k \in Keys : queue[k][n] = <<>>
  <2>1. CASE Active(n)
    <3>1. Straggler(n) /\ n \in TargetSet(job) /\ cur[n].task = Role(job, n)
      BY <1>1, <1>9, <1>12, <2>1 DEF Active, NodeInv, IsCmd
    <3>2. Role(job, n) \in {1, 4, 6} /\ Len(<<>>) = 0
      BY <3>1 DEF Straggler
    <3>3. Count(job, n) = 0
      BY <3>2 DEF Count
    <3> DEFINE q == queue[KeyFor(job)][n]
               A == Arrived(n)
    <3>4. q \in Seq(Msg) /\ Len(q) \in Nat
      <4>1. q \in Seq(Msg)
        BY ZenonT(40), KeyIs DEF IInv, TypeOK
      <4> QED BY <4>1
    <3>5. Consumed(n) + Len(q) = Cardinality(A) /\ Consumed(n) = 0
      BY <1>1, <1>9, <1>10, <2>1, <3>1, <3>2 DEF MsgInv, Consumed, Straggler
    <3>6. Cardinality(A) \in Nat /\ Cardinality(A) <= Count(job, n)
      <4>1. A \in SUBSET In(job, n)
        BY DEF Arrived
      <4> HIDE DEF A
      <4> QED BY <1>1, <4>1, ArrivedFinite
    <3> HIDE DEF q, A
    <3>7. Len(q) = 0
      BY <3>3, <3>4, <3>5, <3>6
    <3>8. q = <<>>
      BY <3>4, <3>7
    <3> QED BY <1>9, <3>8 DEF MsgInv, q
  <2>2. CASE ~Active(n)
    BY <1>3, <1>10, <2>2
  <2> QED BY <2>1, <2>2
<1> QED BY <1>11, <1>12, <1>13

\* The last ack of a stripe: nothing of it is left in any list.
LEMMA FlowRecvAck ==
    ASSUME IInv, FlowInv, RecvAck
    PROVE  FlowInv'
<1>1. /\ cpc = "ack" /\ UNCHANGED <<stripe, cmds, queue, npc, cur, buf, pi, sj>>
      /\ IF need = 1 THEN cpc' = "idle" ELSE UNCHANGED <<cpc, job, sent>>
  BY DEF RecvAck, nvars
<1>2. NoMixing'
  BY <1>1 DEF FlowInv, NoMixing
<1>3. CASE need # 1
  <2>1. UNCHANGED <<cpc, stripe, job, sent, queue>> /\ \A x \in Nodes : Same(x)
    BY <1>1, <1>3 DEF Same
  <2>2. \A x \in Nodes : NodeInv(x)'
    BY <2>1, SameOK DEF FlowInv
  <2>3. \A x \in Nodes : MsgInv(x)'
    <3>1. \A x \in Nodes : MsgInv(x)
      BY DEF FlowInv
    <3>2. \A x \in Nodes : Consumed(x)' = Consumed(x)
      BY <2>1, SameOK
    <3>3. \A e \in Edges(job) : Sent(e)' <=> Sent(e)
      <4>1. UNCHANGED <<job, sent, stripe, npc, cur, pi, sj, cmds>>
        BY <1>1, <2>1
      <4> QED BY <4>1 DEF Sent, Waiting, Active, Passed
    <3> QED BY <2>1, <3>1, <3>2, <3>3, MsgKeep
  <2> QED BY <1>2, <2>2, <2>3 DEF FlowInv
<1>4. CASE need = 1
  <2>1. Outcome /\ cpc' = "idle"
    BY <1>1, <1>4, RecvAckOK
  <2>2. Pending = {}
    BY <1>1, <2>1 DEF Outcome, BeginStep, CommitStep, CompleteStep, QuietStep
  <2>3. ASSUME NEW n \in Nodes
        PROVE  /\ cmds[n] = <<>> /\ \A k \in Keys : queue[k][n] = <<>>
               /\ npc[n] \notin Free => Straggler(n)
    BY <1>1, <2>2, Completed
  <2>4. ~Busy'
    BY <2>1 DEF Busy
  <2>5. ASSUME NEW n \in Nodes PROVE NodeInv(n)'
    <3>1. NodeInv(n)
      BY DEF FlowInv
    <3>2. npc'[n] = npc[n] /\ cur'[n] = cur[n] /\ buf'[n] = buf[n] /\ pi'[n] = pi[n]
          /\ sj'[n] = sj[n] /\ cmds'[n] = <<>> /\ stripe' = stripe
      BY <1>1, <2>3
    <3>3. npc[n] \notin Free => Straggler(n)'
      BY <2>3, <3>2 DEF Straggler
    <3> QED BY <2>4, <3>1, <3>2, <3>3 DEF NodeInv
  <2>6. \A n \in Nodes : MsgInv(n)'
    BY <1>1, <2>3, <2>4 DEF MsgInv
  <2> QED BY <1>2, <2>5, <2>6 DEF FlowInv
<1> QED BY <1>3, <1>4

\* A step taken between two stripes that changes no node.
LEMMA FlowQuiet ==
    ASSUME FlowInv, ~Busy, ~Busy', UNCHANGED <<stripe, cmds, queue, npc, cur, buf, pi, sj>>
    PROVE  FlowInv'
<1>1. ASSUME NEW n \in Nodes PROVE NodeInv(n)'
  <2>1. NodeInv(n)
    BY DEF FlowInv
  <2>2. Straggler(n)' <=> Straggler(n)
    BY DEF Straggler
  <2> QED BY <2>1, <2>2 DEF NodeInv
<1>2. \A n \in Nodes : MsgInv(n)'
  BY DEF FlowInv, MsgInv
<1>3. NoMixing'
  BY DEF FlowInv, NoMixing
<1> QED BY <1>1, <1>2, <1>3 DEF FlowInv

\* A helper starts before the first stripe; its lists are empty.
LEMMA FlowStartHelper ==
    ASSUME IInv, FlowInv, NEW n \in Nodes, StartHelper(n)
    PROVE  FlowInv'
<1> DEFINE none == <<>>
<1>1. /\ npc[n] = "off" /\ npc' = [npc EXCEPT ![n] = "idle"]
      /\ cmds' = [cmds EXCEPT ![n] = none]
      /\ queue' = [k \in Keys |-> [queue[k] EXCEPT ![n] = none]]
      /\ UNCHANGED <<cpc, stripe, job, sent, cur, buf, pi, sj>>
  BY DEF StartHelper
<1>2. cpc = "init"
  BY <1>1 DEF IInv, StartInv
<1>3. ~Busy /\ ~Busy'
  BY <1>1, <1>2 DEF Busy
<1>4. /\ npc \in [Nodes -> NodeStates] /\ cmds \in [Nodes -> Seq(Cmd)]
      /\ queue \in [Keys -> [Nodes -> Seq(Msg)]]
  BY DEF IInv, TypeOK, NodeStates
<1>5. ASSUME NEW x \in Nodes PROVE NodeInv(x) /\ MsgInv(x) /\ cmds[x] = none
  BY <1>3 DEF FlowInv, NodeInv
<1> HIDE DEF none
<1>6. ASSUME NEW x \in Nodes
      PROVE  /\ cmds'[x] = none /\ (x # n => npc'[x] = npc[x])
             /\ (x = n => npc'[x] = "idle")
             /\ \A k \in Keys : queue'[k][x] = (IF x = n THEN none ELSE queue[k][x])
  BY <1>1, <1>4, <1>5
<1>7. ASSUME NEW x \in Nodes PROVE NodeInv(x)'
  <2>1. cur'[x] = cur[x] /\ buf'[x] = buf[x] /\ pi'[x] = pi[x] /\ sj'[x] = sj[x]
        /\ stripe' = stripe /\ cmds'[x] = <<>>
    BY <1>1, <1>6 DEF none
  <2>2. NodeInv(x)
    BY <1>5
  <2>3. CASE x = n
    BY <1>1, <1>3, <1>6, <2>1, <2>2, <2>3 DEF NodeInv, Free
  <2>4. CASE x # n
    <3>1. npc'[x] = npc[x]
      BY <1>6, <2>4
    <3>2. Straggler(x)' <=> Straggler(x)
      BY <2>1, <3>1 DEF Straggler
    <3> QED BY <1>3, <2>1, <2>2, <3>1, <3>2 DEF NodeInv
  <2> QED BY <2>3, <2>4
<1>8. ASSUME NEW x \in Nodes PROVE MsgInv(x)'
  <2>1. \A k \in Keys : queue[k][x] = <<>>
    BY <1>3, <1>5 DEF MsgInv
  <2>2. \A k \in Keys : queue'[k][x] = <<>>
    BY <1>6, <2>1 DEF none
  <2> QED BY <1>3, <2>2 DEF MsgInv
<1>9. NoMixing'
  BY <1>1 DEF FlowInv, NoMixing
<1> QED BY <1>7, <1>8, <1>9 DEF FlowInv

\* Initially every list is empty and every node off.
LEMMA FlowInit == ASSUME Init PROVE FlowInv
<1> DEFINE none == <<>>
<1>1. ~Busy
  BY DEF Init, Busy
<1>2. ASSUME NEW n \in Nodes
      PROVE  /\ cmds[n] = none /\ buf[n] = none /\ npc[n] = "off" /\ cur[n].sid = 0
             /\ pi[n] = 0 /\ sj[n] = 0 /\ stripe = 0 /\ \A k \in Keys : queue[k][n] = none
  BY DEF Init, NoCmd
<1>3. \A n \in Nodes : NodeInv(n)
  BY <1>1, <1>2 DEF NodeInv, Free
<1>4. \A n \in Nodes : MsgInv(n)
  BY <1>1, <1>2 DEF MsgInv
<1>5. NoMixing
  BY <1>2 DEF NoMixing
<1> QED BY <1>3, <1>4, <1>5 DEF FlowInv

\* The induction step.
LEMMA NextFlow ==
    ASSUME IInv, IInv', FlowInv, [Next]_vars
    PROVE  FlowInv'
<1>1. CASE UNCHANGED vars
  <2>1. UNCHANGED <<cpc, stripe, job, sent, cmds, queue, npc, cur, buf, pi, sj>>
    BY <1>1 DEF vars, cvars, nvars
  <2>2. ASSUME NEW n \in Nodes PROVE NodeInv(n)' /\ Consumed(n)' = Consumed(n)
    <3>1. Same(n) /\ NodeInv(n)
      BY <2>1 DEF Same, FlowInv
    <3> QED BY <2>1, <3>1, SameOK
  <2>3. \A e \in Edges(job) : Sent(e)' <=> Sent(e)
    BY <2>1 DEF Sent, Waiting, Active, Passed
  <2>4. \A n \in Nodes : MsgInv(n)'
    <3>1. \A n \in Nodes : MsgInv(n)
      BY DEF FlowInv
    <3> QED BY <2>1, <2>2, <2>3, <3>1, MsgKeep
  <2>5. NoMixing'
    BY <2>1 DEF FlowInv, NoMixing
  <2> QED BY <2>2, <2>4, <2>5 DEF FlowInv
<1>2. CASE CoordinatorStep
  <2>1. CASE RecvTest
    <3>1. ~Busy /\ ~Busy' /\ UNCHANGED <<stripe, cmds, queue, npc, cur, buf, pi, sj>>
      BY <2>1 DEF RecvTest, Busy, nvars
    <3> QED BY <3>1, FlowQuiet
  <2>2. CASE Finish
    <3>1. ~Busy /\ ~Busy' /\ UNCHANGED <<stripe, cmds, queue, npc, cur, buf, pi, sj>>
      BY <2>2 DEF Finish, Busy, nvars
    <3> QED BY <3>1, FlowQuiet
  <2>3. ASSUME NEW p, NEW v, NEW c, StartStripe(p, v, c) PROVE FlowInv'
    BY <2>3, FlowStart
  <2> QED BY <1>2, <2>1, <2>2, <2>3, FlowSendCmd, FlowRecvAck DEF CoordinatorStep
<1>3. ASSUME NEW n \in Nodes, NodeStep(n) \/ OverreadFault(n)
      PROVE  FlowInv'
  <2>1. CASE StartHelper(n)
    BY <2>1, FlowStartHelper
  <2>2. CASE TakeCmd(n)
    BY <2>2, FlowTakeCmd
  <2>3. CASE Handle(n)
    BY <2>3, FlowHandle
  <2>4. CASE OverreadFault(n)
    <3>1. /\ cur[n].task = 4 /\ npc[n] = "send" /\ npc' = [npc EXCEPT ![n] = "exit"]
          /\ UNCHANGED <<cpc, stripe, job, sent, cmds, queue, cur, buf, pi, sj>>
      BY <2>4 DEF OverreadFault, cvars
    <3> QED BY <3>1, FlowMove
  <2> QED BY <1>3, <2>1, <2>2, <2>3, <2>4 DEF NodeStep
<1>4. CASE Terminated
  BY <1>1, <1>4 DEF Terminated
<1> QED BY <1>1, <1>2, <1>3, <1>4 DEF Next
-----------------------------------------------------------------------------
(* The theorems. *)

\* The balance of messages sent, listed and consumed holds in every reachable
\* state.
THEOREM FlowInductive == Spec => []FlowInv
<1>1. Init => FlowInv
  BY FlowInit
<1>2. IInv /\ IInv' /\ FlowInv /\ [Next]_vars => FlowInv'
  BY NextFlow
<1> QED BY <1>1, <1>2, Inductive, PTL DEF Spec

\* A handler of UPNode never consumes a data message of another stripe, though
\* the keys raidData, deltaData and crdData carry no stripe number and a data
\* node's write may outlive its stripe.
THEOREM StripesNeverMix == Spec => []NoMixing
<1>1. FlowInv => NoMixing
  BY DEF FlowInv
<1> QED BY <1>1, FlowInductive, PTL

\* No message with an unknown key ever reaches a handler (the exits and missing
\* map entries of UPNode's receive loops): a node can end in the over-read of
\* task 4 only, and its stripe is then never acknowledged as complete.
THEOREM NodesEndOnlyInOverread == Spec => []NoFalseCompletion
<1>1. FlowInv => NoFalseCompletion
  <2> SUFFICES ASSUME FlowInv, NEW n \in Nodes, npc[n] = "exit"
               PROVE  cur[n].task = 4 /\ cpc \in {"send", "ack"}
    BY DEF NoFalseCompletion
  <2>1. NodeInv(n)
    BY DEF FlowInv
  <2>2. Busy /\ Active(n)
    BY <2>1 DEF NodeInv, Straggler, Free
  <2>3. npc[n] \in Phases(cur[n].task)
    BY <2>1, <2>2 DEF NodeInv, Progress
  <2> QED BY <2>2, <2>3 DEF Phases, Busy
<1> QED BY <1>1, FlowInductive, PTL

\* start.py's flush of a node's Redis loses nothing: neither the coordinator
\* nor a node pushes to a node whose helper has not announced itself.
THEOREM FlushLosesNothing == Spec => []NothingFlushed
<1>1. IInv /\ FlowInv => NothingFlushed
  <2> SUFFICES ASSUME IInv, FlowInv, NEW n \in Nodes, npc[n] = "off"
               PROVE  cmds[n] = <<>> /\ \A k \in Keys : queue[k][n] = <<>>
    BY DEF NothingFlushed
  <2>1. cpc = "init"
    BY DEF IInv, StartInv
  <2>2. NodeInv(n) /\ MsgInv(n) /\ ~Busy
    BY <2>1 DEF FlowInv, Busy
  <2> QED BY <2>2 DEF NodeInv, MsgInv
<1> QED BY <1>1, Inductive, FlowInductive, PTL
-----------------------------------------------------------------------------
(***************************************************************************)
(* Part III: the contents of the blocks.  During a CRD stripe neither the  *)
(* data blocks nor the parity blocks are in step; the invariant names the  *)
(* data blocks b the parities encode and says of every block file, list    *)
(* and buffer which of b, the data blocks After the stripe, and the deltas *)
(* between them it holds.                                                  *)
(***************************************************************************)

\* The contents data blocks can have: their own unit values, not multiplied.
Bases == {b \in [DataNodes -> Block] :
            \A d \in DataNodes, u \in Units : \A t \in b[d][u] : t = <<Raw, d, t[3]>>}

Inside(r, u) == r.off <= u /\ u < End(r)

\* What the new data makes of block f of node d, whose range r is updated.
Renewed(f, d, r) ==
    [u \in Units |-> IF u - r.off \in 0 .. (r.size - 1)
                     THEN Placed(Pattern(d, r.size), r.off, r.size)[u] ELSE f[u]]
After(b, v) ==
    [d \in DataNodes |-> IF d \in Ids(v) THEN Renewed(b[d], d, UpdOf(v, d)) ELSE b[d]]

\* What parity block p holds when the data blocks are b.
Encoded(b, p) == [u \in Units |-> UNION {Encode(p - ecK, b[d][u]) : d \in DataNodes}]

\* The messages of CRD, for data blocks b: the delta of an updated range, and
\* the parity delta of a coding row.
Delta(b, r) == XorBlock(Slice(b[r.id], r.off, r.size), Pattern(r.id, r.size))
ParityDelta(b, v, row) ==
    [u \in Units |-> UNION {Encode(row, Placed(Delta(b, r), r.off, r.size)[u]) : r \in ToSet(v)}]
-----------------------------------------------------------------------------
(* The algebra of deltas. *)

\* Offsets of a range and units of a block.
LEMMA InsideIs ==
    ASSUME NEW r \in Upd, NEW u \in Units
    PROVE  /\ (u - r.off \in 0 .. (r.size - 1)) <=> Inside(r, u)
           /\ Inside(r, u) => u - r.off \in Units /\ u - r.off < r.size
           /\ u - r.off \in Int
<1>1. /\ r.off \in Nat /\ r.size \in Nat /\ u \in Nat /\ u < blocksize /\ blocksize \in Nat
  BY ParamsAssumption DEF Upd, Units
<1> DEFINE o == r.off
           s == r.size
           k == u - o
<1>2. End(r) = o + s
  BY DEF End
<1> HIDE DEF o, s
<1>3. o \in Nat /\ s \in Nat
  BY <1>1 DEF o, s
<1>4. k \in 0 .. (s - 1) <=> (o <= u /\ u < o + s)
  BY <1>1, <1>3
<1>5. o <= u /\ u < o + s => k \in 0 .. (blocksize - 1) /\ k < s
  BY <1>1, <1>3
<1>6. k \in Int
  BY <1>1, <1>3
<1> QED BY <1>2, <1>4, <1>5, <1>6 DEF Inside, o, s, Units

\* An updated block: the j-th unit of the range gets the j-th unit value.
LEMMA RenewedIs ==
    ASSUME NEW f, NEW d, NEW r \in Upd, NEW u \in Units
    PROVE  Renewed(f, d, r)[u] = IF Inside(r, u) THEN {<<Raw, d, u - r.off>>} ELSE f[u]
<1>1. Renewed(f, d, r)[u] = IF u - r.off \in 0 .. (r.size - 1)
                            THEN Placed(Pattern(d, r.size), r.off, r.size)[u] ELSE f[u]
  BY DEF Renewed
<1>2. CASE Inside(r, u)
  <2>1. /\ u - r.off \in 0 .. (r.size - 1) /\ u - r.off \in Units /\ u - r.off < r.size
    BY <1>2, InsideIs
  <2>2. Placed(Pattern(d, r.size), r.off, r.size)[u] = Pattern(d, r.size)[u - r.off]
    BY <2>1 DEF Placed
  <2>3. Pattern(d, r.size)[u - r.off] = {<<Raw, d, u - r.off>>}
    BY <2>1 DEF Pattern
  <2> QED BY <1>1, <1>2, <2>1, <2>2, <2>3
<1>3. CASE ~Inside(r, u)
  BY <1>1, <1>3, InsideIs
<1> QED BY <1>2, <1>3

\* The delta of a range, moved back to its offset: old and new value of each
\* unit inside, nothing outside.
LEMMA DeltaPlaced ==
    ASSUME NEW b, NEW r \in Upd, NEW u \in Units
    PROVE  Placed(Delta(b, r), r.off, r.size)[u] =
             IF Inside(r, u) THEN SymDiff(b[r.id][u], {<<Raw, r.id, u - r.off>>}) ELSE {}
<1> DEFINE j == u - r.off
           f == Slice(b[r.id], r.off, r.size)
           g == Pattern(r.id, r.size)
<1>1. Placed(Delta(b, r), r.off, r.size)[u] =
        IF j \in (0 .. (r.size - 1)) \cap Units THEN Delta(b, r)[j] ELSE {}
  BY DEF Placed
<1>2. CASE Inside(r, u)
  <2>1. j \in 0 .. (r.size - 1) /\ j \in Units /\ j < r.size
    BY <1>2, InsideIs
  <2>2. r.off + j = u
    <3>1. r.off \in Nat /\ u \in Int
      BY DEF Upd, Units
    <3> QED BY <3>1
  <2> HIDE DEF j
  <2>3. f[j] = b[r.id][u]
    BY <2>1, <2>2 DEF Slice
  <2>4. g[j] = {<<Raw, r.id, j>>}
    BY <2>1 DEF Pattern
  <2> HIDE DEF f, g
  <2>5. Delta(b, r)[j] = SymDiff(f[j], g[j])
    BY <2>1 DEF Delta, XorBlock, f, g
  <2> QED BY <1>1, <1>2, <2>1, <2>3, <2>4, <2>5 DEF j
<1>3. CASE ~Inside(r, u)
  BY <1>1, <1>3, InsideIs
<1> QED BY <1>2, <1>3

\* The updates of a job, one for each of its blocks.
LEMMA UpdOfIs ==
    ASSUME NEW j, JobOK(j)
    PROVE  /\ \A d \in Ids(j.vec) : /\ UpdOf(j.vec, d) \in Upd /\ UpdOf(j.vec, d).id = d
                                    /\ UpdOf(j.vec, d) \in ToSet(j.vec)
           /\ \A r \in ToSet(j.vec) : r \in Upd /\ r.id \in Ids(j.vec) /\ UpdOf(j.vec, r.id) = r
           /\ Ids(j.vec) \subseteq DataNodes
<1> DEFINE v == j.vec
<1>1. /\ v \in Seq(Upd) /\ DOMAIN v = 1 .. Len(v)
      /\ \A a, c \in DOMAIN v : v[a].id = v[c].id => a = c
  BY DEF JobOK
<1> HIDE DEF v
<1>2. ASSUME NEW i \in DOMAIN v PROVE v[i] \in Upd /\ UpdOf(v, v[i].id) = v[i]
  <2>1. v[i] \in Upd
    BY <1>1
  <2>2. (CHOOSE k \in DOMAIN v : v[k].id = v[i].id) = i
    <3>1. \A k \in DOMAIN v : v[k].id = v[i].id => k = i
      BY <1>1
    <3>2. \E k \in DOMAIN v : v[k].id = v[i].id
      OBVIOUS
    <3> QED BY <3>1, <3>2
  <2> QED BY <2>1, <2>2 DEF UpdOf
<1>3. ASSUME NEW d \in Ids(v)
      PROVE  UpdOf(v, d) \in Upd /\ UpdOf(v, d).id = d /\ UpdOf(v, d) \in ToSet(v)
  <2>1. PICK i \in DOMAIN v : d = v[i].id
    BY DEF Ids
  <2>2. UpdOf(v, d) = v[i] /\ v[i] \in Upd
    BY <1>2, <2>1
  <2> QED BY <2>1, <2>2 DEF ToSet
<1>4. ASSUME NEW r \in ToSet(v) PROVE r \in Upd /\ r.id \in Ids(v) /\ UpdOf(v, r.id) = r
  <2>1. PICK i \in DOMAIN v : r = v[i]
    BY DEF ToSet
  <2> QED BY <1>2, <2>1 DEF Ids
<1>5. Ids(v) \subseteq DataNodes
  BY JobFacts DEF v
<1> QED BY <1>3, <1>4, <1>5 DEF v

\* The data blocks after the stripe, unit by unit.
LEMMA AfterIs ==
    ASSUME NEW j, JobOK(j), NEW b \in Bases, NEW d \in DataNodes, NEW u \in Units
    PROVE  /\ d \in Ids(j.vec) /\ Inside(UpdOf(j.vec, d), u) =>
                 After(b, j.vec)[d][u] = {<<Raw, d, u - UpdOf(j.vec, d).off>>}
           /\ ~(d \in Ids(j.vec) /\ Inside(UpdOf(j.vec, d), u)) =>
                 After(b, j.vec)[d][u] = b[d][u]
<1> DEFINE v == j.vec
           r == UpdOf(v, d)
<1>1. CASE d \in Ids(v)
  <2>1. r \in Upd
    BY <1>1, UpdOfIs
  <2>2. After(b, v)[d] = Renewed(b[d], d, r)
    BY <1>1 DEF After
  <2> HIDE DEF v, r
  <2>3. Renewed(b[d], d, r)[u] = IF Inside(r, u) THEN {<<Raw, d, u - r.off>>} ELSE b[d][u]
    BY <2>1, RenewedIs
  <2> QED BY <1>1, <2>2, <2>3 DEF v, r
<1>2. CASE d \notin Ids(v)
  <2>1. After(b, v)[d] = b[d]
    BY <1>2 DEF After
  <2> QED BY <1>2, <2>1
<1> QED BY <1>1, <1>2

\* They are data blocks again.
LEMMA AfterOK ==
    ASSUME NEW j, JobOK(j), NEW b \in Bases
    PROVE  After(b, j.vec) \in Bases
<1> DEFINE a == After(b, j.vec)
<1>1. ASSUME NEW d \in DataNodes PROVE a[d] = [u \in Units |-> a[d][u]]
  <2>1. b[d] \in Block
    BY DEF Bases
  <2>2. b[d] = [u \in Units |-> b[d][u]]
    BY <2>1 DEF Block
  <2>3. CASE d \in Ids(j.vec)
    BY <2>3 DEF After, Renewed
  <2>4. CASE d \notin Ids(j.vec)
    BY <2>2, <2>4 DEF After
  <2> QED BY <2>3, <2>4
<1>2. ASSUME NEW d \in DataNodes, NEW u \in Units
      PROVE  a[d][u] \in SUBSET Term /\ \A t \in a[d][u] : t = <<Raw, d, t[3]>>
  <2> DEFINE k == u - UpdOf(j.vec, d).off
             new == {<<Raw, d, k>>}
  <2>1. b[d][u] \in SUBSET Term /\ \A t \in b[d][u] : t = <<Raw, d, t[3]>>
    BY DEF Bases, Block
  <2>2. CASE d \in Ids(j.vec) /\ Inside(UpdOf(j.vec, d), u)
    <3>1. a[d][u] = new
      BY <2>2, AfterIs
    <3>2. k \in Int /\ Raw \in Int /\ d \in Int
      BY <2>2, InsideIs, UpdOfIs, NodeFacts DEF Raw
    <3> HIDE DEF k, a
    <3>3. <<Raw, d, k>> \in Term
      BY <3>2 DEF Term
    <3> QED BY <3>1, <3>3
  <2>3. CASE ~(d \in Ids(j.vec) /\ Inside(UpdOf(j.vec, d), u))
    <3>1. a[d][u] = b[d][u]
      BY <2>3, AfterIs
    <3> QED BY <2>1, <3>1
  <2> QED BY <2>2, <2>3
<1>3. a = [d \in DataNodes |-> a[d]]
  BY DEF After
<1> HIDE DEF a
<1>4. ASSUME NEW d \in DataNodes PROVE a[d] \in Block
  BY <1>1, <1>2 DEF Block
<1>5. a \in [DataNodes -> Block]
  BY <1>3, <1>4
<1>6. a \in Bases
  BY <1>2, <1>5 DEF Bases
<1> QED BY <1>6 DEF a

\* A term of data block t[2], multiplied by the coefficient of row.
Of(t, row) == t = <<row, t[2], t[3]>> /\ t[2] \in DataNodes

\* The terms of a data block's unit, multiplied by the coefficient of a row.
LEMMA EncodeTerms ==
    ASSUME NEW d \in DataNodes, NEW S, \A x \in S : x = <<Raw, d, x[3]>>, NEW row, NEW t
    PROVE  t \in Encode(row, S) <=> Of(t, row) /\ t[2] = d /\ <<Raw, t[2], t[3]>> \in S
<1>1. t \in Encode(row, S) <=> \E x \in S : t = <<row, x[2], x[3]>>
  BY DEF Encode
<1>2. ASSUME NEW x \in S, t = <<row, x[2], x[3]>>
      PROVE  Of(t, row) /\ t[2] = d /\ <<Raw, t[2], t[3]>> \in S
  <2>1. x = <<Raw, d, x[3]>> /\ x[2] = d
    OBVIOUS
  <2>2. t[2] = d /\ t[3] = x[3] /\ t = <<row, t[2], t[3]>>
    BY <1>2, <2>1
  <2>3. <<Raw, t[2], t[3]>> = x
    BY <2>1, <2>2
  <2> QED BY <2>2, <2>3 DEF Of
<1>3. ASSUME Of(t, row), t[2] = d, <<Raw, t[2], t[3]>> \in S
      PROVE  \E x \in S : t = <<row, x[2], x[3]>>
  <2> DEFINE x == <<Raw, t[2], t[3]>>
  <2>1. x \in S /\ x[2] = t[2] /\ x[3] = t[3]
    BY <1>3
  <2> HIDE DEF x
  <2>2. t = <<row, x[2], x[3]>>
    BY <1>3, <2>1 DEF Of
  <2> QED BY <2>1, <2>2
<1> QED BY <1>1, <1>2, <1>3

\* The terms of a unit of the encoded data.
LEMMA EncodedTerms ==
    ASSUME NEW b \in Bases, NEW p, NEW u \in Units, NEW t
    PROVE  t \in Encoded(b, p)[u] <=>
             Of(t, p - ecK) /\ <<Raw, t[2], t[3]>> \in b[t[2]][u]
<1> DEFINE row == p - ecK
<1>1. t \in Encoded(b, p)[u] <=> \E d \in DataNodes : t \in Encode(row, b[d][u])
  BY DEF Encoded
<1> HIDE DEF row
<1>2. ASSUME NEW d \in DataNodes
      PROVE  t \in Encode(row, b[d][u]) <=>
               Of(t, row) /\ t[2] = d /\ <<Raw, t[2], t[3]>> \in b[d][u]
  <2>1. \A x \in b[d][u] : x = <<Raw, d, x[3]>>
    BY DEF Bases
  <2> QED BY <2>1, EncodeTerms
<1>3. Of(t, row) => t[2] \in DataNodes
  BY DEF Of
<1> QED BY <1>1, <1>2, <1>3 DEF row

\* The terms of a unit of the parity delta: those of the data blocks that the
\* stripe adds or removes.
LEMMA ParityDeltaTerms ==
    ASSUME NEW j, JobOK(j), NEW b \in Bases, NEW row, NEW u \in Units, NEW t
    PROVE  t \in ParityDelta(b, j.vec, row)[u] <=>
             /\ Of(t, row)
             /\ <<Raw, t[2], t[3]>> \in SymDiff(b[t[2]][u], After(b, j.vec)[t[2]][u])
<1> DEFINE v == j.vec
           P(r) == Placed(Delta(b, r), r.off, r.size)[u]
           c(d) == SymDiff(b[d][u], After(b, v)[d][u])
<1>1. t \in ParityDelta(b, v, row)[u] <=> \E r \in ToSet(v) : t \in Encode(row, P(r))
  BY DEF ParityDelta
<1>2. ASSUME NEW d \in DataNodes PROVE \A x \in c(d) : x = <<Raw, d, x[3]>>
  <2>1. After(b, v) \in Bases
    BY AfterOK
  <2> QED BY <2>1 DEF Bases, SymDiff
<1>3. ASSUME NEW r \in ToSet(v)
      PROVE  r.id \in DataNodes /\ P(r) = IF Inside(r, u) THEN c(r.id) ELSE {}
  <2>1. r \in Upd /\ r.id \in Ids(v) /\ UpdOf(v, r.id) = r /\ r.id \in DataNodes
    BY UpdOfIs
  <2>2. P(r) = IF Inside(r, u) THEN SymDiff(b[r.id][u], {<<Raw, r.id, u - r.off>>}) ELSE {}
    BY <2>1, DeltaPlaced
  <2>3. Inside(r, u) => After(b, v)[r.id][u] = {<<Raw, r.id, u - r.off>>}
    BY <2>1, AfterIs
  <2> QED BY <2>1, <2>2, <2>3
<1>4. ASSUME NEW d \in DataNodes, NEW x \in c(d)
      PROVE  \E r \in ToSet(v) : r.id = d /\ Inside(r, u)
  <2>1. d \in Ids(v) /\ Inside(UpdOf(v, d), u)
    <3> SUFFICES ASSUME ~(d \in Ids(v) /\ Inside(UpdOf(v, d), u)) PROVE FALSE
      OBVIOUS
    <3>1. After(b, v)[d][u] = b[d][u]
      BY AfterIs
    <3> QED BY <1>4, <3>1 DEF SymDiff
  <2>2. UpdOf(v, d) \in ToSet(v) /\ UpdOf(v, d).id = d
    BY <2>1, UpdOfIs
  <2> QED BY <2>1, <2>2
<1> HIDE DEF v, P, c
<1>5. ASSUME NEW r \in ToSet(v), t \in Encode(row, P(r))
      PROVE  Of(t, row) /\ <<Raw, t[2], t[3]>> \in c(t[2])
  <2>1. r.id \in DataNodes /\ P(r) = c(r.id)
    <3>1. P(r) # {}
      BY <1>5 DEF Encode
    <3> QED BY <1>3, <3>1
  <2>2. Of(t, row) /\ t[2] = r.id /\ <<Raw, t[2], t[3]>> \in P(r)
    BY <1>2, <1>5, <2>1, EncodeTerms
  <2> QED BY <2>1, <2>2
<1>6. ASSUME Of(t, row), <<Raw, t[2], t[3]>> \in c(t[2])
      PROVE  \E r \in ToSet(v) : t \in Encode(row, P(r))
  <2>1. t[2] \in DataNodes
    BY <1>6 DEF Of
  <2>2. PICK r \in ToSet(v) : r.id = t[2] /\ Inside(r, u)
    BY <1>4, <1>6, <2>1
  <2>3. P(r) = c(t[2])
    BY <1>3, <2>2
  <2>4. t \in Encode(row, P(r))
    BY <1>2, <1>6, <2>1, <2>3, EncodeTerms
  <2> QED BY <2>4
<1> QED BY <1>1, <1>5, <1>6 DEF c, v

\* Adding the parity delta of a row to the parity block brings it from the old
\* data to the new.
LEMMA DeltaAdds ==
    ASSUME NEW j, JobOK(j), NEW b \in Bases, NEW p, NEW u \in Units
    PROVE  SymDiff(Encoded(b, p)[u], ParityDelta(b, j.vec, p - ecK)[u]) =
             Encoded(After(b, j.vec), p)[u]
<1> DEFINE row == p - ecK
           a == After(b, j.vec)
           A == Encoded(b, p)[u]
           B == ParityDelta(b, j.vec, row)[u]
           C == Encoded(a, p)[u]
<1>1. a \in Bases
  BY AfterOK
<1> HIDE DEF a
<1>2. ASSUME NEW t
      PROVE  /\ t \in A <=> Of(t, row) /\ <<Raw, t[2], t[3]>> \in b[t[2]][u]
             /\ t \in C <=> Of(t, row) /\ <<Raw, t[2], t[3]>> \in a[t[2]][u]
             /\ t \in B <=> Of(t, row) /\ <<Raw, t[2], t[3]>> \in SymDiff(b[t[2]][u], a[t[2]][u])
  <2>1. t \in A <=> Of(t, row) /\ <<Raw, t[2], t[3]>> \in b[t[2]][u]
    BY EncodedTerms
  <2>2. t \in C <=> Of(t, row) /\ <<Raw, t[2], t[3]>> \in a[t[2]][u]
    BY <1>1, EncodedTerms
  <2>3. t \in B <=> Of(t, row) /\ <<Raw, t[2], t[3]>> \in SymDiff(b[t[2]][u], a[t[2]][u])
    BY ParityDeltaTerms DEF a
  <2> QED BY <2>1, <2>2, <2>3
<1> HIDE DEF row, A, B, C
<1>3. ASSUME NEW t PROVE t \in SymDiff(A, B) <=> t \in C
  <2> DEFINE x == <<Raw, t[2], t[3]>>
             X == b[t[2]][u]
             Y == a[t[2]][u]
  <2>1. /\ t \in A <=> Of(t, row) /\ x \in X
        /\ t \in C <=> Of(t, row) /\ x \in Y
        /\ t \in B <=> Of(t, row) /\ x \in SymDiff(X, Y)
    BY <1>2
  <2> HIDE DEF x, X, Y
  <2> QED BY <2>1 DEF SymDiff
<1>4. SymDiff(A, B) = C
  BY <1>3
<1> QED BY <1>4 DEF A, B, C, row, a
-----------------------------------------------------------------------------
(* The slices of the collector, put together. *)

\* The message of the collector to another parity, for sub-set s.
SliceOf(b, v, row, s) ==
    LET r == CollectorRange(v, [i \in DOMAIN v |-> SubId(v, v[i].id)], s)
    IN  Slice(ParityDelta(b, v, row), r.off, r.size)

\* Unit u is in the hull of the sub-set N.
Covers(N, u) == HullStart(N) <= u /\ u < HullEnd(N)

\* The sub-sets of a job.
LEMMA JobSubsets ==
    ASSUME NEW j, JobOK(j)
    PROVE  LET sol == get_upd_solu_crd(j.vec)
           IN  /\ j.vec \in Vecs /\ Apart(j.vec) /\ SubNum(j.vec) = Len(sol) /\ Len(sol) \in Nat
               /\ \A s \in 1 .. Len(sol) : sol[s] \in Vecs /\ sol[s] # <<>>
<1> DEFINE sol == get_upd_solu_crd(j.vec)
<1>1. j.vec \in Vecs
  <2>1. Upd \subseteq UpdBlock
    BY NodeFacts DEF Upd, UpdBlock
  <2> QED BY <2>1 DEF Vecs, JobOK
<1>2. Apart(j.vec)
  BY DEF Apart, JobOK
<1>3. Grouping(j.vec, sol)
  BY <1>1, SolutionIsGrouping
<1> HIDE DEF sol
<1>4. /\ sol \in Seq(Vecs) /\ Len(sol) \in Nat
      /\ \A s \in 1 .. Len(sol) : sol[s] \in Vecs /\ sol[s] # <<>>
  BY <1>3 DEF Grouping
<1>5. SubNum(j.vec) = Len(sol)
  BY DEF SubNum, sol
<1> QED BY <1>1, <1>2, <1>4, <1>5 DEF sol

\* The slice of a sub-set, copied to the range the coordinator sent for it: the
\* parity delta in the hull of the sub-set, except for the units LeftOut.
LEMMA SlicePlaced ==
    ASSUME NEW j, JobOK(j), j.policy \notin {"raid", "delta"}, NEW b, NEW row,
           NEW s \in 0 .. (SubNum(j.vec) - 1), NEW u \in Units,
           NEW p \in ParityNodes \ {j.collector}, <<p, u>> \notin LeftOut(j)
    PROVE  LET r == SentRange(j.vec, s)
           IN  Placed(SliceOf(b, j.vec, row, s), r.off, r.size)[u] =
                 IF Covers(get_upd_solu_crd(j.vec)[s + 1], u)
                 THEN ParityDelta(b, j.vec, row)[u] ELSE {}
<1> DEFINE sol == get_upd_solu_crd(j.vec)
           h == s + 1
           N == sol[h]
           D == ParityDelta(b, j.vec, row)
           q == SentRange(j.vec, s)
           r == CollectorRange(j.vec, [i \in DOMAIN j.vec |-> SubId(j.vec, j.vec[i].id)], s)
           S == Slice(D, r.off, r.size)
           k == u - q.off
<1>1. h \in 1 .. Len(sol) /\ h - 1 = s
  <2>1. SubNum(j.vec) = Len(sol) /\ Len(sol) \in Nat
    BY JobSubsets
  <2> HIDE DEF sol
  <2> QED BY <2>1
<1>2. N \in Vecs /\ N # <<>>
  BY <1>1, JobSubsets
<1>3. q = CoordinatorRange(N)
  BY DEF SentRange
<1>4. r = CollectorRange(j.vec,
            [i \in DOMAIN j.vec |-> get_sub_set_id(get_upd_solu_crd(j.vec), j.vec[i].id)], h - 1)
  BY <1>1 DEF SubId
<1> HIDE DEF h, r
<1>5. r.off = HullStart(N) /\ r.size \in Int /\ r.off + r.size = HullEnd(N)
  BY <1>1, <1>4, JobSubsets, CollectorRangeOK
<1> HIDE DEF q
<1>6. HullStart(N) \in Nat /\ HullEnd(N) \in Nat
  BY <1>2, HullOK
<1>7. q.off = HullStart(N) /\ q.size \in Int /\ q.off + q.size <= HullEnd(N)
  BY <1>2, <1>3, CoordinatorRangeOK
<1>8. Covers(N, u) => u < q.off + q.size
  <2> SUFFICES ASSUME HullStart(N) <= u, u < HullEnd(N), ~(u < q.off + q.size) PROVE FALSE
    BY DEF Covers
  <2> DEFINE pu == <<p, u>>
  <2>1. pu \in (ParityNodes \ {j.collector}) \X Units /\ pu[2] = u
    OBVIOUS
  <2>2. h \in DOMAIN sol
    <3>1. sol \in Seq(Vecs)
      BY JobSubsets, SolutionIsGrouping DEF Grouping
    <3> HIDE DEF sol
    <3> QED BY <1>1, <3>1
  <2> HIDE DEF pu
  <2>3. LeftOut(j) = {x \in (ParityNodes \ {j.collector}) \X Units :
                        \E t \in DOMAIN sol :
                           /\ HullStart(sol[t]) <= x[2] /\ x[2] < HullEnd(sol[t])
                           /\ ~(CoordinatorRange(sol[t]).off <= x[2] /\
                                x[2] < CoordinatorRange(sol[t]).off + CoordinatorRange(sol[t]).size)}
    BY DEF LeftOut
  <2> HIDE DEF sol
  <2>4. pu \in LeftOut(j)
    BY <1>3, <2>1, <2>2, <2>3
  <2> QED BY <2>4 DEF pu
<1>9. u \in Int /\ u \in 0 .. (blocksize - 1) /\ blocksize \in Nat
  BY ParamsAssumption DEF Units
<1>10. Placed(S, q.off, q.size)[u] = IF k \in (0 .. (q.size - 1)) \cap Units THEN S[k] ELSE {}
  BY DEF Placed
<1>11. SliceOf(b, j.vec, row, s) = S
  BY DEF SliceOf, r
<1>12. ASSUME Covers(N, u) PROVE Placed(S, q.off, q.size)[u] = D[u]
  <2>1. HullStart(N) <= u /\ u < HullEnd(N) /\ u < q.off + q.size
    BY <1>8, <1>12 DEF Covers
  <2> DEFINE o == q.off
             z == q.size
             e == HullEnd(N)
             w == r.size
  <2>2. /\ o \in Nat /\ z \in Int /\ e \in Nat /\ w \in Int
        /\ o <= u /\ u < e /\ u < o + z /\ o + w = e /\ r.off = o
    BY <1>5, <1>6, <1>7, <2>1
  <2> HIDE DEF o, z, e, w, N
  <2>3. u - o \in 0 .. (z - 1) /\ u - o \in 0 .. (blocksize - 1) /\ o + (u - o) = u
    BY <1>9, <2>2
  <2>4. u - o < w
    BY <1>9, <2>2
  <2>5. k = u - o
    BY DEF o
  <2> HIDE DEF k
  <2>6. S[k] = D[u]
    <3>1. k \in Units /\ r.off + k \in Units /\ r.off + k = u /\ k < r.size
      BY <2>2, <2>3, <2>4, <2>5 DEF Units, w
    <3> HIDE DEF D
    <3> QED BY <3>1 DEF Slice
  <2> HIDE DEF S
  <2>7. k \in (0 .. (q.size - 1)) \cap Units
    BY <2>3, <2>5 DEF Units, z
  <2> QED BY <1>10, <2>6, <2>7
<1>13. ASSUME ~Covers(N, u) PROVE Placed(S, q.off, q.size)[u] = {}
  <2>1. k \notin 0 .. (q.size - 1)
    <3> DEFINE o == q.off
               z == q.size
               e == HullEnd(N)
    <3>1. o \in Nat /\ z \in Int /\ e \in Nat /\ ~(o <= u /\ u < e) /\ o + z <= e
      BY <1>6, <1>7, <1>13 DEF Covers
    <3> HIDE DEF o, z, e
    <3>2. u - o \notin 0 .. (z - 1)
      BY <1>9, <3>1
    <3> QED BY <3>2 DEF o, z
  <2> QED BY <1>10, <2>1
<1> HIDE DEF S, D, N
<1>14. Placed(S, q.off, q.size)[u] = IF Covers(N, u) THEN D[u] ELSE {}
  BY <1>12, <1>13
<1> QED BY <1>11, <1>14 DEF D, N, h, q

\* A unit a parity delta changes is in the hull of a sub-set, and of one only.
LEMMA HullOfUnit ==
    ASSUME NEW j, JobOK(j), NEW u \in Units
    PROVE  LET sol  == get_upd_solu_crd(j.vec)
               subs == 0 .. (SubNum(j.vec) - 1)
           IN  /\ \A s, t \in subs : Covers(sol[s + 1], u) /\ Covers(sol[t + 1], u) => s = t
               /\ \A r \in ToSet(j.vec) : Inside(r, u) => \E s \in subs : Covers(sol[s + 1], u)
<1> DEFINE sol  == get_upd_solu_crd(j.vec)
           L    == Len(sol)
           subs == 0 .. (SubNum(j.vec) - 1)
<1>1. /\ j.vec \in Vecs /\ Apart(j.vec) /\ SubNum(j.vec) = L /\ L \in Nat
      /\ \A s \in 1 .. L : sol[s] \in Vecs /\ sol[s] # <<>>
  BY JobSubsets
<1>2. \A s, t \in 1 .. L : s # t => HullsApart(sol[s], sol[t])
  BY <1>1, HullsDisjoint
<1>3. \A i \in 1 .. Len(j.vec) : \E s \in 1 .. L : j.vec[i] \in Elems(sol[s])
  BY <1>1, SubsetOf
<1>4. u \in Int
  BY DEF Units
<1> HIDE DEF sol, L
<1>5. \A s \in subs : s \in Int /\ s + 1 \in 1 .. L
  BY <1>1
<1>6. ASSUME NEW s \in subs, NEW t \in subs, Covers(sol[s + 1], u), Covers(sol[t + 1], u), s # t
      PROVE  FALSE
  <2> DEFINE M == sol[s + 1]
             N == sol[t + 1]
  <2>1. s + 1 \in 1 .. L /\ t + 1 \in 1 .. L /\ s + 1 # t + 1
    BY <1>5, <1>6
  <2>2. /\ HullStart(M) \in Nat /\ HullEnd(M) \in Nat /\ HullStart(N) \in Nat /\ HullEnd(N) \in Nat
    BY <1>1, <2>1, HullOK
  <2>3. HullEnd(M) < HullStart(N) \/ HullEnd(N) < HullStart(M)
    BY <1>2, <2>1 DEF HullsApart
  <2>4. HullStart(M) <= u /\ u < HullEnd(M) /\ HullStart(N) <= u /\ u < HullEnd(N)
    BY <1>6 DEF Covers
  <2> HIDE DEF M, N
  <2> QED BY <1>4, <2>2, <2>3, <2>4
<1>7. ASSUME NEW r \in ToSet(j.vec), Inside(r, u) PROVE \E s \in subs : Covers(sol[s + 1], u)
  <2>1. PICK i \in 1 .. Len(j.vec) : j.vec[i] = r
    BY DEF JobOK, ToSet
  <2>2. PICK h \in 1 .. L : r \in Elems(sol[h])
    BY <1>3, <2>1
  <2> DEFINE N == sol[h]
  <2>3. /\ HullStart(N) \in Nat /\ HullEnd(N) \in Nat
        /\ HullStart(N) <= r.off /\ End(r) <= HullEnd(N)
    BY <1>1, <2>2, HullOK
  <2>4. r.off \in Nat /\ End(r) \in Nat
    BY UpdOfIs DEF Upd, End
  <2> HIDE DEF N
  <2>5. HullStart(N) <= u /\ u < HullEnd(N)
    BY <1>4, <1>7, <2>3, <2>4 DEF Inside
  <2> DEFINE s == h - 1
  <2>6. s \in subs /\ s + 1 = h
    BY <1>1, <2>2
  <2> HIDE DEF s
  <2> QED BY <2>5, <2>6 DEF Covers, N
<1> QED BY <1>6, <1>7 DEF sol, L

\* The XOR of all slices is the parity delta, except for the units LeftOut.
LEMMA AggregateIs ==
    ASSUME NEW j, JobOK(j), j.policy \notin {"raid", "delta"}, NEW b,
           NEW n \in ParityNodes \ {j.collector}, NEW u \in Units, <<n, u>> \notin LeftOut(j),
           cur[n].upds = j.vec,
           \A s \in 0 .. (SubNum(j.vec) - 1) : Received(n, s) = SliceOf(b, j.vec, n - ecK, s)
    PROVE  CrdAggregate(n)[u] = ParityDelta(b, j.vec, n - ecK)[u]
<1> DEFINE subs == 0 .. (SubNum(j.vec) - 1)
           row == n - ecK
           sol == get_upd_solu_crd(j.vec)
           D == ParityDelta(b, j.vec, row)[u]
           A(s) == LET r == SentRange(j.vec, s) IN Placed(Received(n, s), r.off, r.size)[u]
           H(t) == {s \in subs : t \in A(s)}
           C(s) == Covers(sol[s + 1], u)
<1>1. CrdAggregate(n)[u] = {t \in UNION {A(s) : s \in subs} : Cardinality(H(t)) % 2 = 1}
  BY DEF CrdAggregate
<1>2. ASSUME NEW s \in subs PROVE A(s) = IF C(s) THEN D ELSE {}
  <2>1. Received(n, s) = SliceOf(b, j.vec, row, s)
    OBVIOUS
  <2> HIDE DEF row
  <2>2. LET r == SentRange(j.vec, s)
        IN  Placed(SliceOf(b, j.vec, row, s), r.off, r.size)[u] =
              IF Covers(get_upd_solu_crd(j.vec)[s + 1], u)
              THEN ParityDelta(b, j.vec, row)[u] ELSE {}
    BY SlicePlaced
  <2> QED BY <2>1, <2>2
<1>3. \A s, t \in subs : C(s) /\ C(t) => s = t
  BY HullOfUnit
<1>4. ASSUME NEW t \in D PROVE \E s \in subs : C(s)
  <2>1. PICK r \in ToSet(j.vec) : t \in Encode(row, Placed(Delta(b, r), r.off, r.size)[u])
    BY DEF ParityDelta
  <2>2. Placed(Delta(b, r), r.off, r.size)[u] # {}
    BY <2>1 DEF Encode
  <2>3. r \in Upd
    BY UpdOfIs
  <2>4. Inside(r, u)
    BY <2>2, <2>3, DeltaPlaced
  <2> QED BY <2>4, HullOfUnit
<1> HIDE DEF A, C, D, subs
<1>5. ASSUME NEW t PROVE t \in {x \in UNION {A(s) : s \in subs} : Cardinality(H(x)) % 2 = 1} <=> t \in D
  <2>1. CASE t \in D
    <3>1. PICK s \in subs : C(s)
      BY <1>4, <2>1
    <3>2. H(t) = {s}
      BY <1>2, <1>3, <2>1, <3>1
    <3> DEFINE X == H(t)
    <3>3. X = {s}
      BY <3>2
    <3> HIDE DEF X
    <3>4. Cardinality(X) = 1
      BY <3>3, FS_Singleton
    <3>5. Cardinality(X) % 2 = 1
      BY <3>4
    <3>6. t \in A(s)
      BY <1>2, <2>1, <3>1
    <3> QED BY <2>1, <3>5, <3>6 DEF X
  <2>2. CASE t \notin D
    <3>1. \A s \in subs : t \notin A(s)
      BY <1>2, <2>2
    <3> QED BY <2>2, <3>1
  <2> QED BY <2>1, <2>2
<1>6. {x \in UNION {A(s) : s \in subs} : Cardinality(H(x)) % 2 = 1} = D
  BY <1>5
<1> QED BY <1>1, <1>6 DEF D
-----------------------------------------------------------------------------
(* The invariant, for the data blocks b that the parities encode. *)

\* A stripe of crd or crd_flip is at work.
Crd == Busy /\ job.policy \notin {"raid", "delta"}

\* The data blocks the parities are to encode when the stripe is over.
Goal(b) == IF Crd THEN After(b, job.vec) ELSE b

\* The range that the handler of data node d writes, and block d with a write
\* that is due.
Own(d) == IF cur[d].task = 1 THEN [id |-> d, off |-> 0, size |-> blocksize] ELSE cur[d].upds[1]
Settled(d) == IF npc[d] = "write" THEN Renewed(disk[d], d, Own(d)) ELSE disk[d]

\* CRD: data node d has sent its delta; parity p has its part still to add.
DataSent(d) == ~Waiting(d) /\ (Active(d) => npc[d] = "write")
Todo(p) ==
    \/ Waiting(p)
    \/ /\ Active(p)
       /\ IF p = job.collector
          THEN npc[p] = "recv" \/ (npc[p] = "send" /\ ecK + pi[p] <= p)
          ELSE npc[p] \in {"recv", "write"}

DataIs(d, b) == Settled(d) = IF DataSent(d) THEN Goal(b)[d] ELSE b[d]
ParityIs(p, b) ==
    \A u \in Units :
        <<p, u>> \in lost \/ disk[p][u] = Encoded(IF Todo(p) THEN b ELSE Goal(b), p)[u]

\* A message to node n carries what the handlers take it for: in CRD the delta
\* of its block or the slice of its sub-set, in delta nothing when no range has
\* a length.
RightFor(j, n, m, b) ==
    /\ j.policy = "delta" => (m.data # Zeros => \E r \in ToSet(j.vec) : r.size > 0)
    /\ j.policy \notin {"raid", "delta"} =>
          m.data = IF n = j.collector THEN Delta(b, UpdOf(j.vec, m.id))
                   ELSE SliceOf(b, j.vec, n - ecK, m.id)
Right(n, m, b) == RightFor(job, n, m, b)

List(n) == queue[KeyFor(job)][n]
MsgsRight(n, b) ==
    Busy => /\ \A i \in 1 .. Len(List(n)) : Right(n, List(n)[i], b)
            /\ \A i \in 1 .. Len(buf[n]) : Right(n, buf[n][i], b)

\* What has been sent to a node that has not finished its handler is in its
\* list or has been popped for the handler.
Kept(n) ==
    Crd /\ (Waiting(n) \/ Active(n)) =>
        \A e \in In(job, n) : Sent(e) =>
            \/ \E i \in 1 .. Len(List(n)) : List(n)[i].id = e[3]
            \/ \E i \in 1 .. Len(buf[n]) : buf[n][i].id = e[3]

BlockIs(n, b) == (n \in DataNodes => DataIs(n, b)) /\ (n \in ParityNodes => ParityIs(n, b))

CrdInv(b) ==
    /\ b \in Bases
    /\ Busy => LeftOut(job) \subseteq lost
    /\ \A n \in Nodes : BlockIs(n, b) /\ MsgsRight(n, b) /\ Kept(n)

CrdFlow == \E b \in Bases : CrdInv(b)
-----------------------------------------------------------------------------
(* What a step leaves alone. *)

\* The block of a node no step of which is taken.
LEMMA BlockSame ==
    ASSUME NEW n, NEW b, Same(n), disk'[n] = disk[n], UNCHANGED <<cpc, stripe, job, sent, lost>>,
           BlockIs(n, b)
    PROVE  BlockIs(n, b)'
<1>1. /\ npc'[n] = npc[n] /\ cur'[n] = cur[n] /\ pi'[n] = pi[n] /\ disk'[n] = disk[n]
      /\ cpc' = cpc /\ stripe' = stripe /\ job' = job /\ sent' = sent /\ lost' = lost
  BY DEF Same
<1>2. (Waiting(n)' <=> Waiting(n)) /\ (Active(n)' <=> Active(n))
  BY SameOK
<1>3. Settled(n)' = Settled(n)
  BY <1>1 DEF Settled, Own
<1>4. (DataSent(n)' <=> DataSent(n)) /\ (Todo(n)' <=> Todo(n))
  BY <1>1, <1>2 DEF DataSent, Todo
<1>5. Goal(b)' = Goal(b)
  BY <1>1 DEF Goal, Crd, Busy
<1>6. DataIs(n, b)' <=> DataIs(n, b)
  BY <1>3, <1>4, <1>5 DEF DataIs
<1>7. ParityIs(n, b)' <=> ParityIs(n, b)
  <2> DEFINE Right0 == Encoded(IF Todo(n) THEN b ELSE Goal(b), n)
  <2>1. Right0' = Right0
    BY <1>4, <1>5
  <2> HIDE DEF Right0
  <2>2. ParityIs(n, b) <=> \A u \in Units : <<n, u>> \in lost \/ disk[n][u] = Right0[u]
    BY DEF ParityIs, Right0
  <2>3. ParityIs(n, b)' <=> \A u \in Units : <<n, u>> \in lost' \/ disk'[n][u] = Right0'[u]
    BY DEF ParityIs, Right0
  <2> QED BY <1>1, <2>1, <2>2, <2>3
<1> QED BY <1>6, <1>7 DEF BlockIs

\* A step of one node: what remains to be shown.
LEMMA CrdOneNode ==
    ASSUME NEW b, CrdInv(b), NEW n \in Nodes, UNCHANGED <<cpc, stripe, job, sent, lost>>,
           \A x \in Nodes \ {n} : Same(x) /\ disk'[x] = disk[x],
           BlockIs(n, b)', \A x \in Nodes : MsgsRight(x, b)' /\ Kept(x)'
    PROVE  CrdInv(b)'
<1>1. ASSUME NEW x \in Nodes PROVE BlockIs(x, b)'
  <2>1. CASE x = n
    BY <2>1
  <2>2. CASE x # n
    <3>1. BlockIs(x, b) /\ Same(x) /\ disk'[x] = disk[x]
      BY <2>2 DEF CrdInv
    <3> QED BY <3>1, BlockSame
  <2> QED BY <2>1, <2>2
<1>2. b \in Bases /\ (Busy' => LeftOut(job') \subseteq lost')
  BY DEF CrdInv, Busy
<1>3. (LeftOut(job))' = LeftOut(job')
  BY DEF LeftOut
<1> QED BY <1>1, <1>2, <1>3 DEF CrdInv

\* A step that neither pushes nor pops: handlers that end drop their messages.
LEMMA HeldKeep ==
    ASSUME NEW b, CrdInv(b), UNCHANGED <<cpc, stripe, job, queue>>, Busy => SentSame,
           \A x \in Nodes : buf'[x] = buf[x] \/ buf'[x] = <<>>,
           \A x \in Nodes : (Waiting(x) \/ Active(x))' => (Waiting(x) \/ Active(x)) /\ buf'[x] = buf[x]
    PROVE  \A x \in Nodes : MsgsRight(x, b)' /\ Kept(x)'
<1> SUFFICES ASSUME NEW x \in Nodes PROVE MsgsRight(x, b)' /\ Kept(x)'
  OBVIOUS
<1>1. MsgsRight(x, b) /\ Kept(x)
  BY DEF CrdInv
<1>2. (Busy' <=> Busy) /\ (Crd' <=> Crd) /\ List(x)' = List(x)
  BY DEF Busy, Crd, List
<1>3. ASSUME NEW m PROVE Right(x, m, b)' <=> Right(x, m, b)
  BY DEF Right, RightFor
<1>4. MsgsRight(x, b)'
  <2>1. CASE buf'[x] = buf[x]
    BY <1>1, <1>2, <1>3, <2>1 DEF MsgsRight
  <2>2. CASE buf'[x] = <<>>
    BY <1>1, <1>2, <1>3, <2>2 DEF MsgsRight
  <2> QED BY <2>1, <2>2
<1>5. Kept(x)'
  <2> SUFFICES ASSUME Crd', (Waiting(x) \/ Active(x))', NEW e \in In(job, x), Sent(e)'
               PROVE  \/ \E i \in 1 .. Len(List(x)') : List(x)'[i].id = e[3]
                      \/ \E i \in 1 .. Len(buf'[x]) : buf'[x][i].id = e[3]
    BY DEF Kept, In
  <2>1. Crd /\ (Waiting(x) \/ Active(x)) /\ buf'[x] = buf[x]
    BY <1>2
  <2>2. Sent(e)
    BY <2>1 DEF SentSame, Crd, In
  <2> QED BY <1>1, <1>2, <2>1, <2>2 DEF Kept
<1> QED BY <1>4, <1>5

\* A push: the message is what the receiver will take it for, and it is kept.
LEMMA HeldPush ==
    ASSUME IInv, NEW b, CrdInv(b), UNCHANGED <<cpc, stripe, job>>, Busy,
           NEW e0 \in Edges(job), NEW m \in Msg, m.id = e0[3], RightFor(job, e0[2], m, b),
           Crd => SentPlus(e0),
           queue' = [queue EXCEPT ![KeyFor(job)][e0[2]] = Append(@, m)],
           \A x \in Nodes : buf'[x] = buf[x] \/ buf'[x] = <<>>,
           \A x \in Nodes : (Waiting(x) \/ Active(x))' => (Waiting(x) \/ Active(x)) /\ buf'[x] = buf[x]
    PROVE  \A x \in Nodes : MsgsRight(x, b)' /\ Kept(x)'
<1> DEFINE K == KeyFor(job)
           t == e0[2]
<1>0. JobOK(job) /\ queue \in [Keys -> [Nodes -> Seq(Msg)]]
  BY DEF IInv, CoordInv, TypeOK, Busy
<1>1. t \in Nodes /\ K \in Keys /\ KeyFor(job') = K
  BY <1>0, EdgeFacts, KeyIs
<1>2. Busy' /\ (Crd' <=> Crd)
  BY DEF Busy, Crd
<1> SUFFICES ASSUME NEW x \in Nodes PROVE MsgsRight(x, b)' /\ Kept(x)'
  OBVIOUS
<1> HIDE DEF K, t
<1>3. queue' = [queue EXCEPT ![K] = [queue[K] EXCEPT ![t] = Append(queue[K][t], m)]]
  BY <1>0, <1>1 DEF K, t
<1>4. queue[K] \in [Nodes -> Seq(Msg)]
  BY <1>0, <1>1
<1>5. queue'[K][x] = IF x = t THEN Append(queue[K][x], m) ELSE queue[K][x]
  BY <1>0, <1>1, <1>3, <1>4
<1> DEFINE q == List(x)
           r == List(x)'
           f == buf[x]
           g == buf'[x]
<1>6. q = queue[K][x] /\ q \in Seq(Msg) /\ r = queue'[K][x]
  BY <1>1, <1>4 DEF List, K
<1>7. MsgsRight(x, b) /\ Kept(x)
  BY DEF CrdInv
<1>8. \A i \in 1 .. Len(q) : RightFor(job, x, q[i], b)
  BY <1>7 DEF MsgsRight, Right
<1>9. g = f \/ g = <<>>
  OBVIOUS
<1>10. \A i \in 1 .. Len(f) : RightFor(job, x, f[i], b)
  BY <1>7 DEF MsgsRight, Right
<1> HIDE DEF q, r, f, g
<1>11. /\ x = t => /\ Len(r) = Len(q) + 1 /\ Len(q) \in Nat
                   /\ \A i \in 1 .. (Len(q) + 1) : r[i] = IF i <= Len(q) THEN q[i] ELSE m
       /\ x # t => r = q
  BY <1>5, <1>6, AppendOK
<1>12. \A i \in 1 .. Len(r) : RightFor(job, x, r[i], b)
  <2>1. CASE x = t
    <3> SUFFICES ASSUME NEW i \in 1 .. Len(r) PROVE RightFor(job, x, r[i], b)
      OBVIOUS
    <3>1. CASE i <= Len(q)
      BY <1>8, <1>11, <2>1, <3>1
    <3>2. CASE ~(i <= Len(q))
      BY <1>11, <2>1, <3>2 DEF t
    <3> QED BY <3>1, <3>2
  <2>2. CASE x # t
    BY <1>8, <1>11, <2>2
  <2> QED BY <2>1, <2>2
<1>13. \A i \in 1 .. Len(g) : RightFor(job, x, g[i], b)
  BY <1>9, <1>10
<1>15. MsgsRight(x, b)'
  BY <1>12, <1>13 DEF MsgsRight, Right, r, g
<1>16. ASSUME Crd, (Waiting(x) \/ Active(x))', NEW e \in In(job, x), Sent(e)'
       PROVE  \/ \E i \in 1 .. Len(r) : r[i].id = e[3]
              \/ \E i \in 1 .. Len(g) : g[i].id = e[3]
  <2>1. g = f /\ (Waiting(x) \/ Active(x))
    BY <1>16 DEF f, g
  <2>2. Sent(e) \/ e = e0
    BY <1>16 DEF SentPlus, In
  <2>3. CASE Sent(e)
    <3>1. \/ \E i \in 1 .. Len(q) : q[i].id = e[3]
          \/ \E i \in 1 .. Len(f) : f[i].id = e[3]
      BY <1>7, <1>16, <2>1, <2>3 DEF Kept, q, f
    <3>2. ASSUME NEW i \in 1 .. Len(q), q[i].id = e[3] PROVE \E k \in 1 .. Len(r) : r[k].id = e[3]
      <4>1. CASE x = t
        <5>1. i \in 1 .. Len(r) /\ r[i] = q[i]
          BY <1>11, <4>1
        <5> QED BY <3>2, <5>1
      <4>2. CASE x # t
        BY <1>11, <3>2, <4>2
      <4> QED BY <4>1, <4>2
    <3> QED BY <2>1, <3>1, <3>2
  <2>4. CASE e = e0
    <3>1. x = t
      BY <2>4 DEF In, t
    <3>2. Len(q) + 1 \in 1 .. Len(r) /\ r[Len(q) + 1] = m
      BY <1>11, <3>1
    <3> QED BY <2>4, <3>2
  <2> QED BY <2>2, <2>3, <2>4
<1>17. Kept(x)'
  BY <1>2, <1>16 DEF Kept, In, r, g
<1> QED BY <1>15, <1>17

\* A pop: the message moves from the list to the buffer.
LEMMA HeldPop ==
    ASSUME IInv, NEW b, CrdInv(b), UNCHANGED <<cpc, stripe, job>>, Busy, NEW t \in Nodes, SentSame,
           queue[KeyFor(job)][t] # <<>>,
           queue' = [queue EXCEPT ![KeyFor(job)][t] = Tail(@)],
           buf' = [buf EXCEPT ![t] = Append(@, Head(queue[KeyFor(job)][t]))],
           \A x \in Nodes : (Waiting(x) \/ Active(x))' => (Waiting(x) \/ Active(x))
    PROVE  \A x \in Nodes : MsgsRight(x, b)' /\ Kept(x)'
<1> DEFINE K == KeyFor(job)
<1>0. JobOK(job) /\ queue \in [Keys -> [Nodes -> Seq(Msg)]] /\ buf \in [Nodes -> Seq(Msg)]
  BY DEF IInv, CoordInv, TypeOK, Busy
<1>1. K \in Keys /\ KeyFor(job') = K
  BY KeyIs
<1>2. Busy' /\ (Crd' <=> Crd)
  BY DEF Busy, Crd
<1> SUFFICES ASSUME NEW x \in Nodes PROVE MsgsRight(x, b)' /\ Kept(x)'
  OBVIOUS
<1> HIDE DEF K
<1>3. queue' = [queue EXCEPT ![K] = [queue[K] EXCEPT ![t] = Tail(queue[K][t])]]
  BY <1>0, <1>1 DEF K
<1>4. queue[K] \in [Nodes -> Seq(Msg)]
  BY <1>0, <1>1
<1>5. queue'[K][x] = IF x = t THEN Tail(queue[K][x]) ELSE queue[K][x]
  BY <1>0, <1>1, <1>3, <1>4
<1> DEFINE q == List(x)
           r == List(x)'
           f == buf[x]
           g == buf'[x]
<1>6. q = queue[K][x] /\ q \in Seq(Msg) /\ r = queue'[K][x] /\ f \in Seq(Msg)
  BY <1>0, <1>1, <1>4 DEF List, K
<1>7. MsgsRight(x, b) /\ Kept(x)
  BY DEF CrdInv
<1>8. \A i \in 1 .. Len(q) : RightFor(job, x, q[i], b)
  BY <1>7 DEF MsgsRight, Right
<1>9. \A i \in 1 .. Len(f) : RightFor(job, x, f[i], b)
  BY <1>7 DEF MsgsRight, Right
<1>10. x = t => q # <<>> /\ r = Tail(q) /\ g = Append(f, Head(q))
  <2>1. x = t => q # <<>> /\ r = Tail(q)
    BY <1>5, <1>6 DEF K, List
  <2>2. x = t => g = Append(f, Head(q))
    BY <1>0, <1>6 DEF K
  <2> QED BY <2>1, <2>2
<1>11. x # t => r = q /\ g = f
  BY <1>0, <1>5, <1>6
<1> HIDE DEF q, r, f, g
<1>12. ASSUME x = t
       PROVE  /\ Len(q) \in Nat /\ Len(q) > 0 /\ Len(r) = Len(q) - 1
              /\ \A i \in 1 .. (Len(q) - 1) : r[i] = q[i + 1]
              /\ Len(f) \in Nat /\ Len(g) = Len(f) + 1
              /\ \A i \in 1 .. (Len(f) + 1) : g[i] = IF i <= Len(f) THEN f[i] ELSE q[1]
  <2>1. q # <<>> /\ r = Tail(q) /\ g = Append(f, Head(q))
    BY <1>10, <1>12
  <2>2. /\ Len(q) \in Nat /\ Len(q) > 0 /\ Len(r) = Len(q) - 1 /\ Head(q) = q[1] /\ Head(q) \in Msg
        /\ \A i \in 1 .. (Len(q) - 1) : r[i] = q[i + 1]
    BY <1>6, <2>1, TailOK
  <2> DEFINE m == Head(q)
  <2>3. m \in Msg /\ g = Append(f, m) /\ m = q[1]
    BY <2>1, <2>2
  <2> HIDE DEF m
  <2>4. /\ Len(f) \in Nat /\ Len(g) = Len(f) + 1
        /\ \A i \in 1 .. (Len(f) + 1) : g[i] = IF i <= Len(f) THEN f[i] ELSE m
    BY <1>6, <2>3, AppendOK
  <2> QED BY <2>2, <2>3, <2>4
<1>13. \A i \in 1 .. Len(r) : RightFor(job, x, r[i], b)
  <2>1. CASE x = t
    <3>1. \A i \in 1 .. Len(r) : i \in 1 .. (Len(q) - 1) /\ i + 1 \in 1 .. Len(q)
      BY <1>12, <2>1
    <3> QED BY <1>8, <1>12, <2>1, <3>1
  <2>2. CASE x # t
    BY <1>8, <1>11, <2>2
  <2> QED BY <2>1, <2>2
<1>14. \A i \in 1 .. Len(g) : RightFor(job, x, g[i], b)
  <2>1. CASE x = t
    <3> SUFFICES ASSUME NEW i \in 1 .. Len(g) PROVE RightFor(job, x, g[i], b)
      OBVIOUS
    <3>1. CASE i <= Len(f)
      <4>1. i \in 1 .. Len(f) /\ g[i] = f[i]
        BY <1>12, <2>1, <3>1
      <4> QED BY <1>9, <4>1
    <3>2. CASE ~(i <= Len(f))
      <4>1. g[i] = q[1] /\ 1 \in 1 .. Len(q)
        BY <1>12, <2>1, <3>2
      <4> QED BY <1>8, <4>1
    <3> QED BY <3>1, <3>2
  <2>2. CASE x # t
    BY <1>9, <1>11, <2>2
  <2> QED BY <2>1, <2>2
<1>16. MsgsRight(x, b)'
  BY <1>13, <1>14 DEF MsgsRight, Right, r, g
<1>17. ASSUME Crd, (Waiting(x) \/ Active(x))', NEW e \in In(job, x), Sent(e)'
       PROVE  \/ \E i \in 1 .. Len(r) : r[i].id = e[3]
              \/ \E i \in 1 .. Len(g) : g[i].id = e[3]
  <2>1. Sent(e) /\ (Waiting(x) \/ Active(x))
    BY <1>17 DEF SentSame, In
  <2>2. \/ \E i \in 1 .. Len(q) : q[i].id = e[3]
        \/ \E i \in 1 .. Len(f) : f[i].id = e[3]
    BY <1>7, <1>17, <2>1 DEF Kept, q, f
  <2>3. CASE x # t
    BY <1>11, <2>2, <2>3
  <2>4. ASSUME x = t, NEW i \in 1 .. Len(f), f[i].id = e[3] PROVE \E k \in 1 .. Len(g) : g[k].id = e[3]
    <3>1. i \in 1 .. Len(g) /\ g[i] = f[i]
      BY <1>12, <2>4
    <3> QED BY <2>4, <3>1
  <2>5. ASSUME x = t, NEW i \in 1 .. Len(q), q[i].id = e[3], i # 1
        PROVE  \E k \in 1 .. Len(r) : r[k].id = e[3]
    <3> DEFINE k == i - 1
    <3>1. k \in 1 .. (Len(q) - 1) /\ k + 1 = i /\ k \in 1 .. Len(r)
      BY <1>12, <2>5
    <3> HIDE DEF k
    <3>2. r[k] = q[i]
      BY <1>12, <2>5, <3>1
    <3> QED BY <2>5, <3>1, <3>2
  <2>6. ASSUME x = t, NEW i \in 1 .. Len(q), q[i].id = e[3], i = 1
        PROVE  \E k \in 1 .. Len(g) : g[k].id = e[3]
    <3>1. Len(f) + 1 \in 1 .. Len(g) /\ g[Len(f) + 1] = q[1]
      BY <1>12, <2>6
    <3> QED BY <2>6, <3>1
  <2> QED BY <2>2, <2>3, <2>4, <2>5, <2>6
<1>18. Kept(x)'
  BY <1>2, <1>17 DEF Kept, In, r, g
<1> QED BY <1>16, <1>18
-----------------------------------------------------------------------------
(* The steps of a node. *)

\* A block stays what it is when its file and its part in the stripe do.
LEMMA BlockKeep ==
    ASSUME NEW n, NEW b, UNCHANGED <<cpc, job, lost>>, BlockIs(n, b),
           n \in DataNodes => /\ Settled(n)' = Settled(n)
                              /\ Crd => (DataSent(n)' <=> DataSent(n)),
           n \in ParityNodes => /\ disk'[n] = disk[n]
                                /\ Crd => (Todo(n)' <=> Todo(n))
    PROVE  BlockIs(n, b)'
<1>1. (Crd' <=> Crd) /\ Goal(b)' = Goal(b)
  BY DEF Goal, Crd, Busy
<1>2. ASSUME n \in DataNodes PROVE DataIs(n, b)'
  <2>1. DataIs(n, b) /\ Settled(n)' = Settled(n) /\ (Crd => (DataSent(n)' <=> DataSent(n)))
    BY <1>2 DEF BlockIs
  <2>2. CASE Crd
    BY <1>1, <2>1, <2>2 DEF DataIs
  <2>3. CASE ~Crd
    BY <1>1, <2>1, <2>3 DEF DataIs, Goal
  <2> QED BY <2>2, <2>3
<1>3. ASSUME n \in ParityNodes PROVE ParityIs(n, b)'
  <2> DEFINE X == IF Todo(n) THEN b ELSE Goal(b)
             F == Encoded(X, n)
  <2>1. ParityIs(n, b) /\ disk'[n] = disk[n] /\ (Crd => (Todo(n)' <=> Todo(n)))
    BY <1>3 DEF BlockIs
  <2>2. X' = X
    <3>1. CASE Crd
      BY <1>1, <2>1, <3>1
    <3>2. CASE ~Crd
      BY <1>1, <3>2 DEF Goal
    <3> QED BY <3>1, <3>2
  <2> HIDE DEF X
  <2>3. F' = F
    BY <2>2
  <2> HIDE DEF F
  <2>4. ParityIs(n, b) <=> \A u \in Units : <<n, u>> \in lost \/ disk[n][u] = F[u]
    BY DEF ParityIs, F, X
  <2>5. ParityIs(n, b)' <=> \A u \in Units : <<n, u>> \in lost' \/ disk'[n][u] = F'[u]
    BY DEF ParityIs, F, X
  <2> QED BY <2>1, <2>3, <2>4, <2>5
<1> QED BY <1>2, <1>3 DEF BlockIs

\* The buffer of a key holds the data of a message with that key, if one came.
LEMMA ReceivedIs ==
    ASSUME buf \in [Nodes -> Seq(Msg)], NEW n \in Nodes, NEW id,
           NEW k \in 1 .. Len(buf[n]), buf[n][k].id = id
    PROVE  \E i \in 1 .. Len(buf[n]) : buf[n][i].id = id /\ Received(n, id) = buf[n][i].data
<1> DEFINE f == buf[n]
           m == Len(f)
           S == {i \in 1 .. m : f[i].id = id}
           hits == {i \in DOMAIN f : /\ f[i].id = id
                                     /\ \A j \in DOMAIN f : f[j].id = id => j <= i}
           R == {m - i : i \in S}
<1>1. m \in Nat /\ DOMAIN f = 1 .. m /\ k \in S
  OBVIOUS
<1>2. Received(n, id) = IF hits = {} THEN Zeros ELSE f[CHOOSE i \in hits : TRUE].data
  BY DEF Received
<1>3. \E i \in S : \A j \in S : j <= i
  <2>1. R \subseteq Nat /\ R # {}
    BY <1>1
  <2>2. PICK x \in R : \A y \in R : x <= y
    <3> HIDE DEF R
    <3> QED BY <2>1, LeastNat
  <2>3. PICK i \in S : x = m - i
    BY <2>2
  <2>4. ASSUME NEW j \in S PROVE j <= i
    <3>1. i \in Int /\ j \in Int /\ m - j \in R
      OBVIOUS
    <3>2. m - i <= m - j
      <4> HIDE DEF R, S, m
      <4> QED BY <2>2, <2>3, <3>1
    <3> HIDE DEF m
    <3> QED BY <1>1, <3>1, <3>2
  <2> QED BY <2>4
<1>4. PICK i \in S : \A j \in S : j <= i
  BY <1>3
<1>5. i \in hits
  <2>1. \A j \in DOMAIN f : f[j].id = id => j \in S
    BY <1>1
  <2> QED BY <1>1, <1>4, <2>1
<1>6. PICK h : h \in hits /\ h = CHOOSE i1 \in hits : TRUE
  BY <1>5
<1>7. Received(n, id) = f[h].data /\ h \in 1 .. m /\ f[h].id = id
  BY <1>1, <1>2, <1>6
<1> QED BY <1>7

\* The handlers of CRD past their receive loop: every message has come, and the
\* buffer of each key holds what was sent under it.
LEMMA AllHere ==
    ASSUME IInv, FlowInv, NEW b, CrdInv(b), Crd, NEW n \in Nodes,
           npc[n] \notin Free, ~Straggler(n), npc[n] # "recv", NEW e \in In(job, n)
    PROVE  Received(n, e[3]) = IF n = job.collector THEN Delta(b, UpdOf(job.vec, e[3]))
                               ELSE SliceOf(b, job.vec, n - ecK, e[3])
<1> DEFINE q == List(n)
           A == Arrived(n)
           c == Count(job, n)
<1>1. /\ Busy /\ Active(n) /\ ~Waiting(n) /\ Progress(n) /\ JobOK(job) /\ c \in Nat
  BY AtWork
<1>2. Len(buf[n]) = c /\ Consumed(n) = c
  BY <1>1 DEF Progress, Consumed
<1>3. q \in Seq(Msg) /\ Len(q) \in Nat
  <2> DEFINE K == KeyFor(job)
  <2>1. K \in Keys /\ queue \in [Keys -> [Nodes -> Seq(Msg)]]
    BY KeyIs DEF IInv, TypeOK
  <2> HIDE DEF K
  <2>2. queue[K] \in [Nodes -> Seq(Msg)]
    BY <2>1
  <2>3. q \in Seq(Msg)
    BY <2>2 DEF List, K
  <2> QED BY <2>3
<1>4. c + Len(q) = Cardinality(A)
  BY <1>1, <1>2 DEF FlowInv, MsgInv, List
<1>5. A \in SUBSET In(job, n)
  BY DEF Arrived
<1> HIDE DEF A, c, q
<1>6. Cardinality(A) \in Nat /\ Cardinality(A) <= c /\ (Cardinality(A) = c => A = In(job, n))
  BY <1>1, <1>5, ArrivedFinite DEF c
<1>7. Len(q) = 0 /\ A = In(job, n)
  BY <1>1, <1>3, <1>4, <1>6
<1>8. Sent(e)
  BY <1>7 DEF A, Arrived
<1>9. Kept(n) /\ MsgsRight(n, b)
  BY DEF CrdInv
<1>10. PICK k \in 1 .. Len(buf[n]) : buf[n][k].id = e[3]
  BY <1>1, <1>7, <1>8, <1>9 DEF Kept, q
<1>11. buf \in [Nodes -> Seq(Msg)]
  BY DEF IInv, TypeOK
<1>12. PICK i \in 1 .. Len(buf[n]) : buf[n][i].id = e[3] /\ Received(n, e[3]) = buf[n][i].data
  BY <1>10, <1>11, ReceivedIs
<1>13. RightFor(job, n, buf[n][i], b)
  BY <1>1, <1>9 DEF MsgsRight, Right
<1> QED BY <1>12, <1>13 DEF RightFor, Crd

\* The node, the policy and the collector that go with a task.
LEMMA TaskIs ==
    ASSUME IInv, FlowInv, NEW n \in Nodes, npc[n] \notin Free, ~Straggler(n)
    PROVE  /\ Crd <=> cur[n].task \in {6, 7, 8}
           /\ cur[n].task \in {1, 2, 3} => job.policy = "raid"
           /\ cur[n].task \in {4, 5} => job.policy = "delta"
           /\ cur[n].task \in {1, 2, 4, 6} => n \in DataNodes /\ n \notin ParityNodes
           /\ cur[n].task \in {3, 5, 7, 8} => n \in ParityNodes /\ n \notin DataNodes
           /\ cur[n].task = 7 => n = job.collector
           /\ cur[n].task = 8 => n # job.collector
           /\ cur[n].task \in 1 .. 8 /\ n \in TargetSet(job) /\ cur[n].task = Role(job, n)
<1>1. Busy /\ IsCmd(cur[n], job, n, stripe) /\ n \in TargetSet(job)
  BY AtWork
<1>2. cur[n].task = Role(job, n) /\ Role(job, n) \in 1 .. 8
  BY <1>1, KeyIs DEF IsCmd
<1>3. (n \in DataNodes <=> n \notin ParityNodes)
  BY NodeFacts
<1>4. /\ n \in DataNodes => cur[n].task \in DataTasks
      /\ n \in ParityNodes => cur[n].task \in ParityTasks
  BY DEF IInv, TaskInv
<1>5. /\ Role(job, n) \in {1, 2, 3} <=> job.policy = "raid"
      /\ Role(job, n) \in {4, 5} <=> job.policy = "delta"
      /\ Role(job, n) \in {6, 7, 8} <=> job.policy \notin {"raid", "delta"}
      /\ Role(job, n) = 7 => n = job.collector
      /\ Role(job, n) = 8 => n # job.collector
  BY DEF Role
<1>6. Crd <=> cur[n].task \in {6, 7, 8}
  BY <1>1, <1>2, <1>5 DEF Crd
<1> QED BY <1>1, <1>2, <1>3, <1>4, <1>5, <1>6 DEF DataTasks, ParityTasks

\* A pop of a receive loop.
LEMMA CrdRecv ==
    ASSUME IInv, FlowInv, FlowInv', SentSame, NEW b, CrdInv(b), NEW n \in Nodes,
           NEW known, NEW count, NEW next, Recv(n, known, count, next),
           cur[n].task \in {2, 3, 5, 7, 8},
           next = IF cur[n].task \in {2, 7} THEN "send" ELSE "write"
    PROVE  CrdInv(b)'
<1> DEFINE K == KeyFor(job)
<1>1. /\ npc[n] = "recv" /\ npc'[n] \in {"recv", "exit", next}
      /\ UNCHANGED <<cpc, stripe, job, sent, cmds, cur, pi, sj, disk, lost>>
      /\ queue[KeyOf(cur[n].task)][n] # <<>>
      /\ queue' = [queue EXCEPT ![KeyOf(cur[n].task)][n] = Tail(@)]
      /\ buf' = [buf EXCEPT ![n] = Append(@, Head(queue[KeyOf(cur[n].task)][n]))]
      /\ \A x \in Nodes \ {n} : Same(x)
  BY DEF Recv, cvars, IInv, TypeOK, Same
<1>2. /\ Busy /\ Active(n) /\ ~Waiting(n) /\ Progress(n) /\ KeyOf(cur[n].task) = K
  BY <1>1, AtWork DEF Straggler, Free
<1>3. /\ Crd <=> cur[n].task \in {6, 7, 8}
      /\ cur[n].task = 2 => n \in DataNodes /\ n \notin ParityNodes
      /\ cur[n].task \in {3, 5, 7, 8} => n \in ParityNodes /\ n \notin DataNodes
      /\ cur[n].task = 7 => n = job.collector
      /\ cur[n].task = 8 => n # job.collector
  BY <1>1, TaskIs DEF Straggler, Free
<1>4. Busy' /\ ~Waiting(n)' /\ npc'[n] # "off" /\ npc'[n] # "idle" /\ Active(n)'
  BY <1>1, <1>2 DEF Busy, Waiting, Active, Free
<1>5. npc'[n] \in {"recv", next}
  <2>1. Progress(n)'
    BY <1>4 DEF FlowInv, NodeInv
  <2>2. npc'[n] \in Phases(cur[n].task)
    BY <1>1, <2>1 DEF Progress
  <2> QED BY <1>1, <2>2 DEF Phases
<1>6. BlockIs(n, b)'
  <2>1. n \in DataNodes => Settled(n)' = Settled(n) /\ ~Crd
    BY <1>1, <1>3, <1>5 DEF Settled
  <2>2. n \in ParityNodes /\ Crd => Todo(n) /\ Todo(n)'
    <3> SUFFICES ASSUME n \in ParityNodes, Crd PROVE Todo(n) /\ Todo(n)'
      OBVIOUS
    <3>1. cur[n].task \in {7, 8}
      BY <1>3
    <3>2. CASE cur[n].task = 7
      <4>1. n = job.collector /\ npc'[n] \in {"recv", "send"} /\ pi'[n] = 0
        BY <1>1, <1>2, <1>3, <1>5, <3>2 DEF Progress
      <4>2. ecK + 0 <= n
        BY NodeFacts, ParamsAssumption DEF ParityNodes
      <4> QED BY <1>1, <1>2, <1>4, <4>1, <4>2 DEF Todo
    <3>3. CASE cur[n].task = 8
      <4>1. n # job.collector /\ npc'[n] \in {"recv", "write"}
        BY <1>3, <1>5, <3>3
      <4> QED BY <1>1, <1>2, <1>4, <4>1 DEF Todo
    <3> QED BY <3>1, <3>2, <3>3
  <2>3. BlockIs(n, b)
    BY DEF CrdInv
  <2> QED BY <1>1, <2>1, <2>2, <2>3, BlockKeep
<1>7. \A x \in Nodes : MsgsRight(x, b)' /\ Kept(x)'
  <2>1. ASSUME NEW x \in Nodes PROVE (Waiting(x) \/ Active(x))' => (Waiting(x) \/ Active(x))
    <3>1. CASE x = n
      BY <1>2, <3>1
    <3>2. CASE x # n
      BY <1>1, <3>2, SameOK
    <3> QED BY <3>1, <3>2
  <2>2. /\ queue[K][n] # <<>> /\ queue' = [queue EXCEPT ![K][n] = Tail(@)]
        /\ buf' = [buf EXCEPT ![n] = Append(@, Head(queue[K][n]))]
    BY <1>1, <1>2
  <2> QED BY <1>1, <1>2, <2>1, <2>2, HeldPop
<1> QED BY <1>1, <1>6, <1>7, CrdOneNode

\* The end of a handler: the write a data node still had to do, or an ack.
LEMMA CrdReturn ==
    ASSUME IInv, FlowInv, Busy => SentSame, NEW b, CrdInv(b), NEW n \in Nodes,
           npc' = [npc EXCEPT ![n] = "idle"], Return(n),
           UNCHANGED <<cpc, stripe, job, sent, cmds, queue, lost>>,
           \/ /\ npc[n] = "write" /\ n \in DataNodes /\ n \notin ParityNodes
              /\ disk' = [disk EXCEPT ![n] = Settled(n)]
           \/ npc[n] = "ack" /\ n \in ParityNodes /\ n \notin DataNodes /\ disk' = disk
    PROVE  CrdInv(b)'
<1>1. /\ npc'[n] = "idle" /\ buf'[n] = <<>> /\ npc[n] \notin Free
      /\ \A x \in Nodes \ {n} : Same(x) /\ disk'[x] = disk[x] /\ buf'[x] = buf[x]
  BY DEF Return, IInv, TypeOK, Same, Free
<1>2. (Waiting(n)' <=> Waiting(n)) /\ ~Active(n)'
  BY <1>1 DEF Waiting, Active, Free
<1>3. BlockIs(n, b)'
  <2>1. n \in DataNodes => Settled(n)' = Settled(n) /\ (DataSent(n)' <=> DataSent(n))
    <3> SUFFICES ASSUME n \in DataNodes PROVE Settled(n)' = Settled(n) /\ (DataSent(n)' <=> DataSent(n))
      OBVIOUS
    <3>1. npc[n] = "write" /\ disk' = [disk EXCEPT ![n] = Settled(n)]
      OBVIOUS
    <3>2. disk'[n] = Settled(n)
      <4> DEFINE s == Settled(n)
      <4>1. disk' = [disk EXCEPT ![n] = s]
        BY <3>1
      <4> HIDE DEF s
      <4>2. disk'[n] = s
        BY <4>1 DEF IInv, TypeOK
      <4> QED BY <4>2 DEF s
    <3>3. Settled(n)' = disk'[n]
      BY <1>1 DEF Settled
    <3> QED BY <1>2, <3>1, <3>2, <3>3 DEF DataSent
  <2>2. n \in ParityNodes => disk'[n] = disk[n] /\ (Todo(n)' <=> Todo(n))
    BY <1>2 DEF Todo
  <2>3. BlockIs(n, b)
    BY DEF CrdInv
  <2> QED BY <2>1, <2>2, <2>3, BlockKeep
<1>4. ASSUME NEW x \in Nodes
      PROVE  (Waiting(x) \/ Active(x))' => (Waiting(x) \/ Active(x)) /\ buf'[x] = buf[x]
  <2>1. CASE x = n
    <3>1. Waiting(n) => Straggler(n)
      BY <1>1, AtWork
    <3> QED BY <1>1, <1>2, <2>1, <3>1 DEF Straggler
  <2>2. CASE x # n
    BY <1>1, <2>2, SameOK
  <2> QED BY <2>1, <2>2
<1>5. \A x \in Nodes : buf'[x] = buf[x] \/ buf'[x] = <<>>
  BY <1>1
<1>6. \A x \in Nodes : MsgsRight(x, b)' /\ Kept(x)'
  BY <1>4, <1>5, HeldKeep
<1> QED BY <1>1, <1>3, <1>6, CrdOneNode

\* A parity block once the parity has done its part.
LEMMA ParityDone ==
    ASSUME NEW n, NEW b, ~Todo(n)', UNCHANGED <<cpc, job, lost>>,
           \A u \in Units : <<n, u>> \in lost \/ disk'[n][u] = Encoded(Goal(b), n)[u]
    PROVE  ParityIs(n, b)'
<1> DEFINE X == IF Todo(n) THEN b ELSE Goal(b)
           F == Encoded(X, n)
           G == Encoded(Goal(b), n)
<1>1. Goal(b)' = Goal(b)
  BY DEF Goal, Crd, Busy
<1>2. X' = Goal(b)
  BY <1>1
<1> HIDE DEF X
<1>3. F' = G
  BY <1>2
<1>4. \A u \in Units : <<n, u>> \in lost' \/ disk'[n][u] = G[u]
  OBVIOUS
<1> HIDE DEF F, G
<1>5. ParityIs(n, b)' <=> \A u \in Units : <<n, u>> \in lost' \/ disk'[n][u] = F'[u]
  BY DEF ParityIs, F, X
<1> QED BY <1>3, <1>4, <1>5

\* A step of a parity node's handler that sends nothing.
LEMMA CrdCommit ==
    ASSUME IInv, FlowInv, SentSame, NEW b, CrdInv(b), NEW n \in Nodes, n \notin DataNodes,
           npc[n] \notin Free, ~Straggler(n),
           UNCHANGED <<cpc, stripe, job, sent, cmds, queue, cur, buf, lost>>,
           \A x \in Nodes \ {n} : Same(x) /\ disk'[x] = disk[x],
           ParityIs(n, b)'
    PROVE  CrdInv(b)'
<1>1. Active(n)
  BY AtWork
<1>2. BlockIs(n, b)'
  BY DEF BlockIs
<1>3. ASSUME NEW x \in Nodes
      PROVE  (Waiting(x) \/ Active(x))' => (Waiting(x) \/ Active(x)) /\ buf'[x] = buf[x]
  <2>1. CASE x = n
    BY <1>1, <2>1
  <2>2. CASE x # n
    BY <2>2, SameOK
  <2> QED BY <2>1, <2>2
<1>4. \A x \in Nodes : buf'[x] = buf[x] \/ buf'[x] = <<>>
  OBVIOUS
<1>5. \A x \in Nodes : MsgsRight(x, b)' /\ Kept(x)'
  BY <1>3, <1>4, HeldKeep
<1> QED BY <1>2, <1>5, CrdOneNode

\* Task 8: adding the slices to the block gives the block after the stripe.
LEMMA AggregateAdds ==
    ASSUME IInv, FlowInv, NEW b, CrdInv(b), NEW n \in Nodes, cur[n].task = 8, npc[n] = "write",
           NEW u \in Units
    PROVE  <<n, u>> \in lost \/ XorBlock(disk[n], CrdAggregate(n))[u] = Encoded(Goal(b), n)[u]
<1> SUFFICES ASSUME <<n, u>> \notin lost
             PROVE  XorBlock(disk[n], CrdAggregate(n))[u] = Encoded(Goal(b), n)[u]
  OBVIOUS
<1> DEFINE subs == 0 .. (SubNum(job.vec) - 1)
           row  == n - ecK
<1>1. npc[n] \notin Free /\ ~Straggler(n) /\ npc[n] # "recv"
  BY DEF Free, Straggler
<1>2. Busy /\ Active(n) /\ JobOK(job) /\ IsCmd(cur[n], job, n, stripe)
  BY <1>1, AtWork
<1>3. Crd /\ n \in ParityNodes /\ n # job.collector /\ Role(job, n) = 8 /\ cur[n].upds = job.vec
  BY <1>1, <1>2, TaskIs DEF IsCmd
<1>4. Todo(n) /\ Goal(b) = After(b, job.vec) /\ b \in Bases /\ LeftOut(job) \subseteq lost
  BY <1>2, <1>3 DEF Todo, Goal, CrdInv
<1>5. disk[n][u] = Encoded(b, n)[u]
  BY <1>3, <1>4 DEF CrdInv, BlockIs, ParityIs
<1>6. ASSUME NEW s \in subs PROVE Received(n, s) = SliceOf(b, job.vec, row, s)
  <2> DEFINE c == job.collector
             e == <<c, n, s>>
  <2>1. c \in TargetSet(job) /\ Role(job, c) = 7
    BY <1>2, <1>3, JobFacts, NodeFacts DEF TargetSet, Role, Crd
  <2>2. e \in In(job, n)
    <3>1. e \in Edges(job)
      BY <1>2, <1>3, <2>1, EdgeExists
    <3> QED BY <3>1 DEF In
  <2>3. e[3] = s
    OBVIOUS
  <2> HIDE DEF e
  <2>4. Received(n, e[3]) = IF n = job.collector THEN Delta(b, UpdOf(job.vec, e[3]))
                            ELSE SliceOf(b, job.vec, n - ecK, e[3])
    BY <1>1, <1>3, <2>2, AllHere
  <2> QED BY <1>3, <2>3, <2>4
<1>7. CrdAggregate(n)[u] = ParityDelta(b, job.vec, row)[u]
  <2>1. <<n, u>> \notin LeftOut(job) /\ job.policy \notin {"raid", "delta"} /\ n \in ParityNodes \ {job.collector}
    BY <1>3, <1>4 DEF Crd
  <2>2. \A s \in 0 .. (SubNum(job.vec) - 1) : Received(n, s) = SliceOf(b, job.vec, n - ecK, s)
    BY <1>6
  <2> QED BY <1>2, <1>3, <2>1, <2>2, AggregateIs
<1>8. SymDiff(Encoded(b, n)[u], ParityDelta(b, job.vec, row)[u]) = Encoded(After(b, job.vec), n)[u]
  BY <1>2, <1>4, DeltaAdds
<1>9. XorBlock(disk[n], CrdAggregate(n))[u] = SymDiff(disk[n][u], CrdAggregate(n)[u])
  BY DEF XorBlock
<1> QED BY <1>4, <1>5, <1>7, <1>8, <1>9

\* Task 5: a unit changes only when one of the parity deltas had a length.
LEMMA DeltaLoses ==
    ASSUME IInv, FlowInv, NEW b, CrdInv(b), NEW n \in Nodes, cur[n].task = 5, npc[n] = "write",
           NEW u \in Units
    PROVE  <<n, u>> \in lost \/ DeltaParity(n)[u] = Encoded(Goal(b), n)[u]
<1> SUFFICES ASSUME <<n, u>> \notin lost PROVE DeltaParity(n)[u] = Encoded(Goal(b), n)[u]
  OBVIOUS
<1>1. npc[n] \notin Free /\ ~Straggler(n)
  BY DEF Free, Straggler
<1>2. Busy /\ Active(n) /\ JobOK(job)
  BY <1>1, AtWork
<1>3. ~Crd /\ n \in ParityNodes /\ job.policy = "delta"
  BY <1>1, TaskIs
<1>4. Goal(b) = b /\ LeftOut(job) \subseteq lost
  BY <1>2, <1>3 DEF Goal, CrdInv
<1>5. disk[n][u] = Encoded(b, n)[u] /\ MsgsRight(n, b)
  BY <1>3, <1>4 DEF CrdInv, BlockIs, ParityIs
<1>6. u = 0 => \A i \in DOMAIN buf[n] : buf[n][i].data = Zeros
  <2> SUFFICES ASSUME u = 0, NEW i \in DOMAIN buf[n], buf[n][i].data # Zeros PROVE FALSE
    OBVIOUS
  <2>1. i \in 1 .. Len(buf[n])
    BY DEF IInv, TypeOK
  <2>2. RightFor(job, n, buf[n][i], b)
    BY <1>2, <1>5, <2>1 DEF MsgsRight, Right
  <2>3. PICK r \in ToSet(job.vec) : r.size > 0
    BY <1>3, <2>2 DEF RightFor
  <2>4. r \in Range(job.vec)
    BY <2>3 DEF ToSet, Range
  <2>5. <<n, u>> \in LeftOut(job)
    BY <1>3, <2>3, <2>4 DEF LeftOut
  <2> QED BY <1>4, <2>5
<1>7. DeltaParity(n)[u] = disk[n][u]
  <2>1. disk[n] \in [Units -> SUBSET Term]
    BY DEF IInv, TypeOK, Block
  <2> QED BY <1>6, <2>1 DEF DeltaParity
<1> QED BY <1>4, <1>5, <1>7

\* The write of a parity at the end of tasks 3, 5 and 8.
LEMMA CrdParityWrite ==
    ASSUME IInv, FlowInv, SentSame, NEW b, CrdInv(b), NEW n \in Nodes, NEW f,
           Write(n, f, "ack"),
           \/ cur[n].task = 3
           \/ cur[n].task = 5 /\ f = DeltaParity(n)
           \/ cur[n].task = 8 /\ f = XorBlock(disk[n], CrdAggregate(n))
    PROVE  CrdInv(b)'
<1>1. /\ npc[n] = "write" /\ npc'[n] = "ack" /\ disk'[n] = f
      /\ UNCHANGED <<cpc, stripe, job, sent, cmds, queue, cur, buf, pi, sj, lost>>
      /\ \A x \in Nodes \ {n} : Same(x) /\ disk'[x] = disk[x]
  BY DEF Write, Stay, cvars, Same, IInv, TypeOK
<1>2. npc[n] \notin Free /\ ~Straggler(n)
  BY <1>1 DEF Free, Straggler
<1>3. Busy /\ ~Waiting(n) /\ n \in ParityNodes /\ n \notin DataNodes
  BY <1>2, TaskIs, AtWork
<1>4. ~Todo(n)'
  BY <1>1, <1>3 DEF Todo, Waiting
<1>5. ASSUME NEW u \in Units PROVE <<n, u>> \in lost \/ disk'[n][u] = Encoded(Goal(b), n)[u]
  <2>1. CASE cur[n].task = 3
    <3>1. job.policy = "raid" /\ LeftOut(job) \subseteq lost
      BY <1>2, <1>3, <2>1, TaskIs DEF CrdInv
    <3> QED BY <1>3, <3>1 DEF LeftOut
  <2>2. CASE cur[n].task = 5 /\ f = DeltaParity(n)
    BY <1>1, <2>2, DeltaLoses
  <2>3. CASE cur[n].task = 8 /\ f = XorBlock(disk[n], CrdAggregate(n))
    BY <1>1, <2>3, AggregateAdds
  <2> QED BY <2>1, <2>2, <2>3
<1>6. ParityIs(n, b)'
  BY <1>1, <1>4, <1>5, ParityDone
<1> QED BY <1>1, <1>2, <1>3, <1>6, CrdCommit

\* Past the receive loop of the collector: its parity deltas are what they
\* should be.
LEMMA OwnDelta ==
    ASSUME IInv, FlowInv, NEW b, CrdInv(b), NEW n \in Nodes, cur[n].task = 7, npc[n] = "send",
           NEW row
    PROVE  CrdParityDelta(n, row) = ParityDelta(b, job.vec, row)
<1>1. npc[n] \notin Free /\ ~Straggler(n) /\ npc[n] # "recv"
  BY DEF Free, Straggler
<1>2. Busy /\ JobOK(job) /\ IsCmd(cur[n], job, n, stripe)
  BY <1>1, AtWork
<1>3. Crd /\ n \in ParityNodes /\ n \notin DataNodes /\ n = job.collector /\ cur[n].upds = job.vec
  BY <1>1, <1>2, TaskIs DEF IsCmd
<1>4. ASSUME NEW r \in ToSet(job.vec) PROVE Received(n, r.id) = Delta(b, r)
  <2> DEFINE d == r.id
             e == <<d, n, d>>
  <2>1. d \in Ids(job.vec) /\ UpdOf(job.vec, d) = r /\ d \in DataNodes
    BY <1>2, UpdOfIs
  <2>2. d \in TargetSet(job) /\ Role(job, d) = 6
    BY <1>3, <2>1 DEF TargetSet, Role, Crd
  <2>3. e \in In(job, n)
    <3>1. <<d, job.collector, d>> \in Edges(job)
      BY <1>2, <2>2, EdgeExists
    <3> QED BY <1>3, <3>1 DEF In
  <2>4. e[3] = d
    OBVIOUS
  <2> HIDE DEF e
  <2>5. Received(n, e[3]) = IF n = job.collector THEN Delta(b, UpdOf(job.vec, e[3]))
                            ELSE SliceOf(b, job.vec, n - ecK, e[3])
    BY <1>1, <1>3, <2>3, AllHere
  <2> QED BY <1>3, <2>1, <2>4, <2>5
<1>5. ASSUME NEW u \in Units
      PROVE  UNION {Encode(row, Placed(Received(n, r.id), r.off, r.size)[u]) : r \in ToSet(job.vec)}
             = UNION {Encode(row, Placed(Delta(b, r), r.off, r.size)[u]) : r \in ToSet(job.vec)}
  BY <1>4
<1> QED BY <1>3, <1>5 DEF CrdParityDelta, ParityDelta

\* Task 7, its own block.
LEMMA CrdOwn ==
    ASSUME IInv, FlowInv, FlowInv', SentSame, NEW b, CrdInv(b), NEW n \in Nodes, cur[n].task = 7,
           CrdWriteOwn(n)
    PROVE  CrdInv(b)'
<1> DEFINE D == CrdParityDelta(n, pi[n])
<1>1. /\ npc[n] = "send" /\ ecK + pi[n] = n
      /\ disk' = [disk EXCEPT ![n] = XorBlock(@, D)] /\ npc' = [npc EXCEPT ![n] = CrdNext(n, 1)]
      /\ pi' = [pi EXCEPT ![n] = @ + 1] /\ sj' = [sj EXCEPT ![n] = 0]
      /\ UNCHANGED <<cpc, stripe, job, sent, cmds, queue, cur, buf, lost>>
  <2>1. sj[n] + 1 >= 1 /\ sj[n] \in Nat
    BY DEF IInv, TypeOK
  <2>2. npc[n] = "send" /\ ecK + pi[n] = n
    BY DEF CrdWriteOwn
  <2>3. sj[n] = 0
    <3>1. Progress(n)
      BY <2>2, AtWork DEF Straggler, Free
    <3> QED BY <2>2, <3>1 DEF Progress
  <2>4. ~(sj[n] + 1 < 1)
    BY <2>3
  <2>5. pi' = [pi EXCEPT ![n] = @ + 1] /\ sj' = [sj EXCEPT ![n] = 0] /\ UNCHANGED <<cur, buf>>
    BY <2>4 DEF CrdWriteOwn, CrdAdvance
  <2> QED BY <2>2, <2>5 DEF CrdWriteOwn, cvars
<1>2. npc[n] \notin Free /\ ~Straggler(n)
  BY <1>1 DEF Free, Straggler
<1>3. /\ Busy /\ Active(n) /\ ~Waiting(n) /\ JobOK(job)
      /\ Crd /\ n \in ParityNodes /\ n \notin DataNodes /\ n = job.collector
  BY <1>2, TaskIs, AtWork
<1> HIDE DEF D
<1>4. /\ npc'[n] \in {"send", "ack"} /\ pi'[n] = pi[n] + 1 /\ disk'[n] = XorBlock(disk[n], D)
      /\ \A x \in Nodes \ {n} : Same(x) /\ disk'[x] = disk[x]
  BY <1>1 DEF CrdNext, IInv, TypeOK, Same
<1>5. pi[n] \in Nat /\ ecK \in Nat /\ n \in Int
  BY <1>3, NodeFacts, ParamsAssumption DEF IInv, TypeOK
<1>6. ~Todo(n)' /\ Todo(n)
  <2>1. ~(ecK + pi'[n] <= n) /\ ecK + pi[n] <= n
    BY <1>1, <1>4, <1>5
  <2> QED BY <1>1, <1>3, <1>4, <2>1 DEF Todo, Waiting, Active
<1>7. ASSUME NEW u \in Units PROVE <<n, u>> \in lost \/ disk'[n][u] = Encoded(Goal(b), n)[u]
  <2> SUFFICES ASSUME <<n, u>> \notin lost PROVE disk'[n][u] = Encoded(Goal(b), n)[u]
    OBVIOUS
  <2>1. Goal(b) = After(b, job.vec) /\ b \in Bases
    BY <1>3 DEF Goal, CrdInv
  <2>2. disk[n][u] = Encoded(b, n)[u]
    BY <1>3, <1>6 DEF CrdInv, BlockIs, ParityIs
  <2>3. D = ParityDelta(b, job.vec, pi[n]) /\ pi[n] = n - ecK
    BY <1>1, <1>5, OwnDelta DEF D
  <2>4. SymDiff(Encoded(b, n)[u], ParityDelta(b, job.vec, n - ecK)[u]) = Encoded(After(b, job.vec), n)[u]
    BY <1>3, <2>1, DeltaAdds
  <2>5. XorBlock(disk[n], D)[u] = SymDiff(disk[n][u], D[u])
    BY DEF XorBlock
  <2> QED BY <1>4, <2>1, <2>2, <2>3, <2>4, <2>5
<1>8. ParityIs(n, b)'
  BY <1>1, <1>6, <1>7, ParityDone
<1> QED BY <1>1, <1>2, <1>3, <1>4, <1>8, CrdCommit

\* A push of a handler.
LEMMA HeldSend ==
    ASSUME IInv, FlowInv, NEW b, CrdInv(b), NEW n \in Nodes, NEW e0 \in Edges(job),
           Crd => SentPlus(e0), NEW data \in Block, NEW next, Push(n, e0[2], e0[3], data, next),
           \A x \in Nodes \ {n} : Same(x), buf'[n] = buf[n] \/ buf'[n] = <<>>,
           (Waiting(n) \/ Active(n))' => buf'[n] = buf[n],
           RightFor(job, e0[2], [sid |-> cur[n].sid, id |-> e0[3], data |-> data], b)
    PROVE  \A x \in Nodes : MsgsRight(x, b)' /\ Kept(x)'
<1> DEFINE m == [sid |-> cur[n].sid, id |-> e0[3], data |-> data]
           K == KeyFor(job)
<1>1. npc[n] \notin Free /\ ~Straggler(n)
  BY DEF Push, Free, Straggler
<1>2. Busy /\ Active(n) /\ JobOK(job) /\ KeyOf(cur[n].task) = K
  BY <1>1, AtWork
<1>3. m \in Msg /\ m.id = e0[3]
  <2>1. e0[3] \in Nat
    BY <1>2, EdgeFacts
  <2>2. cur[n].sid \in 0 .. MaxStripes
    <3>1. cur[n] \in Cmd
      BY DEF IInv, TypeOK
    <3> QED BY <3>1 DEF Cmd
  <2> QED BY <2>1, <2>2 DEF Msg
<1>4. queue' = [queue EXCEPT ![K][e0[2]] = Append(@, m)] /\ UNCHANGED <<cpc, stripe, job, sent>>
  BY <1>2 DEF Push, cvars
<1>5. RightFor(job, e0[2], m, b)
  OBVIOUS
<1> HIDE DEF m
<1>6. \A x \in Nodes : buf'[x] = buf[x] \/ buf'[x] = <<>>
  BY DEF Same
<1>7. ASSUME NEW x \in Nodes
      PROVE  (Waiting(x) \/ Active(x))' => (Waiting(x) \/ Active(x)) /\ buf'[x] = buf[x]
  <2>1. CASE x = n
    BY <1>2, <2>1
  <2>2. CASE x # n
    <3>1. Same(x) /\ buf'[x] = buf[x]
      BY <2>2 DEF Same
    <3> QED BY <1>4, <3>1, SameOK
  <2> QED BY <2>1, <2>2
<1> QED BY <1>2, <1>3, <1>4, <1>5, <1>6, <1>7, HeldPush DEF K

\* Task 7, a slice for another parity.
LEMMA CrdPushSlice ==
    ASSUME IInv, FlowInv, FlowInv', NEW b, CrdInv(b), NEW n \in Nodes, cur[n].task = 7,
           CrdSendSlice(n)
    PROVE  CrdInv(b)'
<1> DEFINE p == ecK + pi[n]
           s == sj[n]
           subs == SubNum(cur[n].upds)
           data == CrdSlice(n, pi[n], s)
           next == CrdNext(n, subs)
<1>1. /\ npc[n] = "send" /\ p # n /\ Push(n, p, s, data, next) /\ CrdAdvance(n, subs)
      /\ npc' = [npc EXCEPT ![n] = next]
      /\ UNCHANGED <<cpc, stripe, job, sent, cmds, cur, buf, disk, lost>>
  BY DEF CrdSendSlice, Push, cvars, CrdAdvance
<1>2. npc[n] \notin Free /\ ~Straggler(n)
  BY <1>1 DEF Free, Straggler
<1>3. /\ Busy /\ Active(n) /\ ~Waiting(n) /\ JobOK(job) /\ IsCmd(cur[n], job, n, stripe)
      /\ Crd /\ n \in ParityNodes /\ n \notin DataNodes /\ n = job.collector
      /\ cur[n].upds = job.vec /\ Progress(n)
  BY <1>2, TaskIs, AtWork DEF IsCmd
<1>4. data \in Block /\ pi[n] \in Nat /\ s \in Nat /\ pi \in [Nodes -> Nat] /\ sj \in [Nodes -> Nat]
  <2>1. pi[n] \in Nat /\ s \in Nat
    BY DEF IInv, TypeOK
  <2> QED BY <2>1, CrdSliceOK DEF IInv, TypeOK
<1>5. data = SliceOf(b, job.vec, pi[n], s)
  <2>1. CrdParityDelta(n, pi[n]) = ParityDelta(b, job.vec, pi[n])
    BY <1>1, OwnDelta
  <2> QED BY <1>3, <2>1 DEF CrdSlice, SliceOf
<1>6. /\ npc'[n] = next /\ next \in {"send", "ack"}
      /\ pi'[n] = IF s + 1 < subs THEN pi[n] ELSE pi[n] + 1
      /\ next = "ack" => pi[n] + 1 >= ecM /\ ~(s + 1 < subs)
      /\ \A x \in Nodes \ {n} : Same(x)
  <2>1. npc'[n] = next /\ next \in {"send", "ack"} /\ (next = "ack" => pi[n] + 1 >= ecM /\ ~(s + 1 < subs))
    BY <1>1, <1>4, ParamsAssumption DEF CrdNext, IInv, TypeOK
  <2> HIDE DEF next, subs, data
  <2>2. pi'[n] = IF s + 1 < subs THEN pi[n] ELSE pi[n] + 1
    BY <1>1, <1>4 DEF CrdAdvance
  <2>3. \A x \in Nodes \ {n} : Same(x)
    BY <1>1, <1>4 DEF CrdAdvance, Same, IInv, TypeOK
  <2> QED BY <2>1, <2>2, <2>3
<1> HIDE DEF subs, data, next
<1>7. PICK e0 \in Edges(job) : e0[2] = p /\ e0[3] = s /\ SentPlus(e0)
  BY FlowSlice
<1>8. RightFor(job, e0[2], [sid |-> cur[n].sid, id |-> e0[3], data |-> data], b)
  <2>1. p - ecK = pi[n]
    BY <1>4, ParamsAssumption
  <2> HIDE DEF p
  <2> QED BY <1>1, <1>3, <1>5, <1>7, <2>1 DEF RightFor, Crd
<1>9. \A x \in Nodes : MsgsRight(x, b)' /\ Kept(x)'
  <2> HIDE DEF s, p
  <2>1. Push(n, e0[2], e0[3], data, next)
    BY <1>1, <1>7
  <2> QED BY <1>1, <1>4, <1>6, <1>7, <1>8, <2>1, HeldSend
<1>10. Todo(n)' <=> Todo(n)
  <2>1. (Waiting(n)' <=> Waiting(n)) /\ Active(n)'
    BY <1>1, <1>3, <1>6 DEF Waiting, Active, Free
  <2>2. ecK \in Nat /\ n \in Int /\ n <= ecK + ecM - 1 /\ ecM \in Nat
    BY <1>3, NodeFacts, ParamsAssumption DEF ParityNodes
  <2>3. pi[n] < ecM
    BY <1>1, <1>3, TaskIs DEF Progress
  <2>4. ecK + pi'[n] <= n <=> ecK + pi[n] <= n
    BY <1>1, <1>4, <1>6, <2>2
  <2>5. npc'[n] = "ack" => ~(ecK + pi[n] <= n)
    BY <1>1, <1>4, <1>6, <2>2, <2>3
  <2> QED BY <1>1, <1>3, <1>6, <2>1, <2>4, <2>5 DEF Todo
<1>11. BlockIs(n, b)'
  <2>1. BlockIs(n, b)
    BY DEF CrdInv
  <2> QED BY <1>1, <1>3, <1>10, <2>1, BlockKeep
<1> QED BY <1>1, <1>6, <1>9, <1>11, CrdOneNode

\* Task 6: the delta of the updated range.
LEMMA CrdPushDelta ==
    ASSUME IInv, FlowInv, FlowInv', NEW b, CrdInv(b), NEW n \in Nodes, cur[n].task = 6,
           Push(n, cur[n].to, n, DataDelta(n, cur[n].upds[1].off, cur[n].upds[1].size), "write"),
           Stay
    PROVE  CrdInv(b)'
<1> DEFINE r == cur[n].upds[1]
           data == DataDelta(n, r.off, r.size)
<1>1. /\ npc[n] = "send" /\ npc'[n] = "write"
      /\ UNCHANGED <<cpc, stripe, job, sent, cmds, cur, buf, pi, sj, disk, lost>>
      /\ \A x \in Nodes \ {n} : Same(x)
  BY DEF Push, Stay, cvars, Same, IInv, TypeOK
<1>2. npc[n] \notin Free /\ ~Straggler(n)
  BY <1>1 DEF Free, Straggler
<1>3. /\ Busy /\ Active(n) /\ ~Waiting(n) /\ JobOK(job) /\ IsCmd(cur[n], job, n, stripe)
      /\ Crd /\ n \in DataNodes /\ n \notin ParityNodes /\ n \in TargetSet(job)
  BY <1>2, TaskIs, AtWork
<1>4. /\ cur[n].to = job.collector /\ r = UpdOf(job.vec, n) /\ n \in Ids(job.vec)
      /\ r \in Upd /\ r.id = n
  <2>1. cur[n].to = job.collector /\ cur[n].upds = <<UpdOf(job.vec, n)>>
    BY <1>3 DEF IsCmd
  <2>2. n \in Ids(job.vec)
    BY <1>3 DEF TargetSet
  <2>3. r = UpdOf(job.vec, n)
    BY <2>1
  <2> QED BY <1>3, <2>1, <2>2, <2>3, UpdOfIs
<1>5. data \in Block
  BY DataDeltaOK DEF IInv, TypeOK
<1>6. Settled(n) = disk[n] /\ disk[n] = b[n] /\ b \in Bases
  <2>1. ~DataSent(n)
    BY <1>1, <1>3 DEF DataSent
  <2>2. DataIs(n, b) /\ b \in Bases
    BY <1>3 DEF CrdInv, BlockIs
  <2> QED BY <1>1, <2>1, <2>2 DEF DataIs, Settled
<1>7. data = Delta(b, UpdOf(job.vec, n))
  BY <1>4, <1>6 DEF DataDelta, Delta
<1> HIDE DEF data, r
<1>8. PICK e0 \in Edges(job) : e0[2] = cur[n].to /\ e0[3] = n /\ SentPlus(e0)
  BY <1>5, FlowPushStay DEF data, r
<1>9. RightFor(job, e0[2], [sid |-> cur[n].sid, id |-> e0[3], data |-> data], b)
  BY <1>3, <1>4, <1>7, <1>8 DEF RightFor, Crd
<1>10. \A x \in Nodes : MsgsRight(x, b)' /\ Kept(x)'
  <2> DEFINE next == "write"
  <2>1. Push(n, e0[2], e0[3], data, next)
    BY <1>8 DEF data, r
  <2> HIDE DEF next
  <2> QED BY <1>1, <1>5, <1>8, <1>9, <2>1, HeldSend
<1>11. BlockIs(n, b)'
  <2>1. DataSent(n)' /\ Goal(b)' = Goal(b)
    BY <1>1, <1>3 DEF DataSent, Waiting, Goal, Crd, Busy
  <2>2. Settled(n)' = Renewed(disk[n], n, r)
    BY <1>1, <1>3, TaskIs DEF Settled, Own, r
  <2>3. Goal(b)[n] = Renewed(b[n], n, r)
    BY <1>3, <1>4 DEF Goal, After
  <2>4. DataIs(n, b)'
    BY <1>6, <2>1, <2>2, <2>3 DEF DataIs
  <2> QED BY <1>3, <2>4 DEF BlockIs
<1> QED BY <1>1, <1>10, <1>11, CrdOneNode

\* Updating a range of a data block gives a data block.
LEMMA RebaseOK ==
    ASSUME NEW b \in Bases, NEW n \in DataNodes, NEW r \in Upd
    PROVE  [b EXCEPT ![n] = Renewed(b[n], n, r)] \in Bases
<1> DEFINE f == Renewed(b[n], n, r)
           c == [b EXCEPT ![n] = f]
<1>1. b \in [DataNodes -> Block] /\ b[n] \in Block
  BY DEF Bases
<1>2. ASSUME NEW u \in Units
      PROVE  f[u] \in SUBSET Term /\ \A t \in f[u] : t = <<Raw, n, t[3]>>
  <2>1. f[u] = IF Inside(r, u) THEN {<<Raw, n, u - r.off>>} ELSE b[n][u]
    BY RenewedIs
  <2>2. b[n][u] \in SUBSET Term /\ \A t \in b[n][u] : t = <<Raw, n, t[3]>>
    BY <1>1 DEF Bases, Block
  <2> DEFINE k == u - r.off
  <2>3. k \in Int /\ n \in Int
    BY InsideIs, NodeFacts
  <2> HIDE DEF k
  <2>4. <<Raw, n, k>> \in Term /\ <<Raw, n, k>>[3] = k
    BY <2>3 DEF Term, Raw
  <2>5. f[u] = IF Inside(r, u) THEN {<<Raw, n, k>>} ELSE b[n][u]
    BY <2>1 DEF k
  <2> HIDE DEF f
  <2> QED BY <2>2, <2>4, <2>5
<1>3. f = [u \in Units |-> f[u]]
  BY DEF Renewed
<1> HIDE DEF f
<1>4. f \in Block
  BY <1>2, <1>3 DEF Block
<1>5. c \in [DataNodes -> Block] /\ c[n] = f /\ \A d \in DataNodes \ {n} : c[d] = b[d]
  BY <1>1, <1>4
<1> HIDE DEF c
<1>6. \A d \in DataNodes, u \in Units : \A t \in c[d][u] : t = <<Raw, d, t[3]>>
  <2> SUFFICES ASSUME NEW d \in DataNodes, NEW u \in Units, NEW t \in c[d][u]
               PROVE  t = <<Raw, d, t[3]>>
    OBVIOUS
  <2>1. CASE d = n
    BY <1>2, <1>5, <2>1
  <2>2. CASE d # n
    BY <1>5, <2>2 DEF Bases
  <2> QED BY <2>1, <2>2
<1>7. c \in Bases
  BY <1>5, <1>6 DEF Bases
<1> QED BY <1>7 DEF c, f

\* Outside CRD every block is in step with b.
LEMMA PlainIs ==
    ASSUME NEW b, CrdInv(b), ~Crd
    PROVE  /\ \A d \in DataNodes : Settled(d) = b[d]
           /\ \A p \in ParityNodes, u \in Units : <<p, u>> \in lost \/ disk[p][u] = Encoded(b, p)[u]
<1>1. Goal(b) = b
  BY DEF Goal
<1>2. ASSUME NEW d \in DataNodes PROVE Settled(d) = b[d]
  <2>1. BlockIs(d, b)
    BY NodeFacts DEF CrdInv
  <2> QED BY <1>1, <2>1 DEF BlockIs, DataIs
<1>3. ASSUME NEW p \in ParityNodes
      PROVE  \A u \in Units : <<p, u>> \in lost \/ disk[p][u] = Encoded(b, p)[u]
  <2>1. BlockIs(p, b)
    BY NodeFacts DEF CrdInv
  <2>2. (IF Todo(p) THEN b ELSE Goal(b)) = b
    BY <1>1
  <2> QED BY <2>1, <2>2 DEF BlockIs, ParityIs
<1> QED BY <1>2, <1>3

\* Outside CRD: when every block is in step, the invariant of the blocks holds.
LEMMA PlainBlocks ==
    ASSUME NEW b, ~Crd', NEW n \in Nodes,
           n \in DataNodes => Settled(n)' = b[n],
           n \in ParityNodes =>
             \A u \in Units : <<n, u>> \in lost' \/ disk'[n][u] = Encoded(b, n)[u]
    PROVE  BlockIs(n, b)'
<1> DEFINE X == IF Todo(n) THEN b ELSE Goal(b)
           F == Encoded(X, n)
           G == Encoded(b, n)
<1>1. Goal(b)' = b
  BY DEF Goal
<1>2. n \in DataNodes => DataIs(n, b)'
  BY <1>1 DEF DataIs
<1>3. X' = b
  BY <1>1
<1> HIDE DEF X
<1>4. F' = G
  BY <1>3
<1>5. n \in ParityNodes => \A u \in Units : <<n, u>> \in lost' \/ disk'[n][u] = G[u]
  OBVIOUS
<1> HIDE DEF F, G
<1>6. ParityIs(n, b)' <=> \A u \in Units : <<n, u>> \in lost' \/ disk'[n][u] = F'[u]
  BY DEF ParityIs, F, X
<1>7. n \in ParityNodes => ParityIs(n, b)'
  BY <1>4, <1>5, <1>6
<1> QED BY <1>2, <1>7 DEF BlockIs

\* Raid and delta: data node n has sent its part, and its new data is settled.
\* What it changes the parities of the stripe never get right.
LEMMA CrdSettle ==
    ASSUME IInv, FlowInv, NEW b, CrdInv(b), NEW n \in Nodes, cur[n].task \in {1, 4},
           npc[n] = "send", npc'[n] = "write",
           UNCHANGED <<cpc, stripe, job, sent, disk, lost>>, cur'[n] = cur[n],
           \A x \in Nodes \ {n} : Same(x),
           \A x \in Nodes : MsgsRight(x, b)' /\ Kept(x)'
    PROVE  CrdFlow'
<1> DEFINE r == IF cur[n].task = 1 THEN [id |-> n, off |-> 0, size |-> blocksize] ELSE cur[n].upds[1]
<1>1. npc[n] \notin Free /\ ~Straggler(n)
  BY DEF Free, Straggler
<1>2. /\ Busy /\ JobOK(job) /\ IsCmd(cur[n], job, n, stripe) /\ ~Crd
      /\ n \in DataNodes /\ n \notin ParityNodes /\ n \in TargetSet(job)
      /\ cur[n].task = 1 => job.policy = "raid"
      /\ cur[n].task = 4 => job.policy = "delta"
  BY <1>1, TaskIs, AtWork
<1>3. r \in Upd /\ (cur[n].task = 4 => r \in ToSet(job.vec))
  <2>1. CASE cur[n].task = 1
    BY <1>2, <2>1, ParamsAssumption DEF Upd
  <2>2. CASE cur[n].task = 4
    <3>1. cur[n].upds = <<UpdOf(job.vec, n)>> /\ n \in Ids(job.vec)
      BY <1>2, <2>2 DEF IsCmd, TargetSet
    <3>2. UpdOf(job.vec, n) \in Upd /\ UpdOf(job.vec, n) \in ToSet(job.vec)
      BY <1>2, <3>1, UpdOfIs
    <3>3. r = UpdOf(job.vec, n)
      BY <2>2, <3>1
    <3> QED BY <3>2, <3>3
  <2> QED BY <2>1, <2>2
<1>4. b \in Bases /\ Settled(n) = disk[n] /\ disk[n] = b[n] /\ LeftOut(job) \subseteq lost
  <2>1. Settled(n) = disk[n]
    BY DEF Settled
  <2> QED BY <1>2, <2>1, PlainIs DEF CrdInv
<1>5. Settled(n)' = Renewed(b[n], n, r)
  BY <1>4 DEF Settled, Own
<1> HIDE DEF r
<1>6. PICK c \in Bases : c[n] = Renewed(b[n], n, r) /\ \A d \in DataNodes \ {n} : c[d] = b[d]
  <2> DEFINE e == [b EXCEPT ![n] = Renewed(b[n], n, r)]
  <2>1. e \in Bases
    BY <1>2, <1>3, <1>4, RebaseOK
  <2>2. e[n] = Renewed(b[n], n, r) /\ \A d \in DataNodes \ {n} : e[d] = b[d]
    BY <1>2, <1>4 DEF Bases
  <2> HIDE DEF e
  <2> QED BY <2>1, <2>2
<1>7. ASSUME NEW u \in Units, c[n][u] # b[n][u], NEW p \in ParityNodes PROVE <<p, u>> \in lost
  <2>1. Inside(r, u)
    <3>1. Renewed(b[n], n, r)[u] = IF Inside(r, u) THEN {<<Raw, n, u - r.off>>} ELSE b[n][u]
      BY <1>3, RenewedIs
    <3> QED BY <1>6, <1>7, <3>1
  <2>2. <<p, u>> \in LeftOut(job)
    <3>1. CASE cur[n].task = 1
      BY <1>2, <3>1 DEF LeftOut
    <3>2. CASE cur[n].task = 4
      <4>1. r \in Range(job.vec)
        BY <1>3, <3>2 DEF ToSet, Range
      <4>2. r.size > 0 /\ r.off <= u /\ u < End(r)
        <5> DEFINE o == r.off
                   z == r.size
        <5>1. o \in Nat /\ z \in Nat /\ u \in Nat /\ o <= u /\ u < o + z
          BY <1>3, <2>1, ParamsAssumption DEF Upd, Inside, End, Units
        <5> HIDE DEF o, z
        <5>2. z > 0
          BY <5>1
        <5> QED BY <2>1, <5>2 DEF Inside, z
      <4> QED BY <1>2, <3>2, <4>1, <4>2 DEF LeftOut
    <3> QED BY <3>1, <3>2
  <2> QED BY <1>4, <2>2
<1>8. ~Crd' /\ (Busy' => LeftOut(job') \subseteq lost')
  BY <1>2, <1>4 DEF Crd, Busy
<1>9. ASSUME NEW x \in Nodes PROVE BlockIs(x, c)'
  <2>1. x \in DataNodes => Settled(x)' = c[x]
    <3>1. CASE x = n
      BY <1>5, <1>6, <3>1
    <3>2. ASSUME x # n, x \in DataNodes PROVE Settled(x)' = c[x]
      <4>1. Same(x)
        BY <3>2
      <4>2. Settled(x)' = Settled(x)
        BY <4>1 DEF Settled, Own, Same
      <4> QED BY <1>2, <1>6, <3>2, <4>2, PlainIs
    <3> QED BY <3>1, <3>2
  <2>2. ASSUME x \in ParityNodes, NEW u \in Units
        PROVE  <<x, u>> \in lost' \/ disk'[x][u] = Encoded(c, x)[u]
    <3> SUFFICES ASSUME <<x, u>> \notin lost PROVE disk'[x][u] = Encoded(c, x)[u]
      OBVIOUS
    <3>1. disk[x][u] = Encoded(b, x)[u]
      BY <1>2, <2>2, PlainIs
    <3>2. \A d \in DataNodes : c[d][u] = b[d][u]
      BY <1>6, <1>7, <2>2
    <3>3. Encoded(c, x)[u] = Encoded(b, x)[u]
      BY <3>2 DEF Encoded
    <3> QED BY <3>1, <3>3
  <2> QED BY <1>8, <2>1, <2>2, PlainBlocks
<1>10. ASSUME NEW x \in Nodes PROVE MsgsRight(x, c)' /\ Kept(x)'
  <2>1. job'.policy \in {"raid", "delta"}
    BY <1>2
  <2>2. ASSUME NEW m PROVE RightFor(job', x, m, b) <=> RightFor(job', x, m, c)
    BY <2>1 DEF RightFor
  <2>3. MsgsRight(x, b)'
    OBVIOUS
  <2> QED BY <2>2, <2>3 DEF MsgsRight, Right
<1>11. (LeftOut(job))' = LeftOut(job')
  BY DEF LeftOut
<1>12. CrdInv(c)'
  BY <1>6, <1>8, <1>9, <1>10, <1>11 DEF CrdInv
<1> QED BY <1>6, <1>12 DEF CrdFlow

\* Task 1: the delta of the block to the raid collector.
LEMMA RaidPushDelta ==
    ASSUME IInv, FlowInv, FlowInv', NEW b, CrdInv(b), NEW n \in Nodes, cur[n].task = 1,
           Push(n, cur[n].to, n, DataDelta(n, 0, blocksize), "write"), Stay
    PROVE  CrdFlow'
<1> DEFINE data == DataDelta(n, 0, blocksize)
<1>1. /\ npc[n] = "send" /\ npc'[n] = "write"
      /\ UNCHANGED <<cpc, stripe, job, sent, cmds, cur, buf, pi, sj, disk, lost>>
      /\ \A x \in Nodes \ {n} : Same(x)
  BY DEF Push, Stay, cvars, Same, IInv, TypeOK
<1>2. npc[n] \notin Free /\ ~Straggler(n)
  BY <1>1 DEF Free, Straggler
<1>3. ~Crd /\ job.policy = "raid"
  BY <1>2, TaskIs
<1>4. data \in Block
  BY DataDeltaOK DEF IInv, TypeOK
<1> HIDE DEF data
<1>5. PICK e0 \in Edges(job) : e0[2] = cur[n].to /\ e0[3] = n /\ SentPlus(e0)
  BY <1>4, FlowPushStay DEF data
<1>6. RightFor(job, e0[2], [sid |-> cur[n].sid, id |-> e0[3], data |-> data], b)
  BY <1>3 DEF RightFor
<1>7. \A x \in Nodes : MsgsRight(x, b)' /\ Kept(x)'
  <2> DEFINE next == "write"
  <2>1. Push(n, e0[2], e0[3], data, next)
    BY <1>5 DEF data
  <2> HIDE DEF next
  <2> QED BY <1>1, <1>4, <1>5, <1>6, <2>1, HeldSend
<1> QED BY <1>1, <1>7, CrdSettle

\* Tasks 2 and 4: a message for each parity.
LEMMA PlainPushToParity ==
    ASSUME IInv, FlowInv, FlowInv', NEW b, CrdInv(b), NEW n \in Nodes, NEW data \in Block, NEW last,
           \/ cur[n].task = 2 /\ last = "idle"
           \/ cur[n].task = 4 /\ last = "write" /\ data = DeltaJunk(cur[n].upds[1].size),
           PushToParity(n, data, last)
    PROVE  CrdFlow'
<1> DEFINE p == ecK + pi[n]
           over == pi[n] + 1 = ecM
           next == IF over THEN last ELSE "send"
<1>1. /\ npc[n] = "send" /\ npc' = [npc EXCEPT ![n] = next] /\ Push(n, p, p, data, next)
      /\ UNCHANGED <<cpc, stripe, job, sent, cmds, disk, lost>>
  BY DEF PushToParity, Push, cvars
<1>2. npc[n] \notin Free /\ ~Straggler(n)
  BY <1>1 DEF Free, Straggler
<1>3. /\ Busy /\ Active(n) /\ ~Waiting(n) /\ Progress(n) /\ JobOK(job)
      /\ IsCmd(cur[n], job, n, stripe) /\ ~Crd /\ n \in DataNodes /\ n \notin ParityNodes
      /\ n \in TargetSet(job) /\ cur[n].task = Role(job, n)
      /\ job.policy = IF cur[n].task = 2 THEN "raid" ELSE "delta"
  BY <1>2, TaskIs, AtWork
<1>4. p \in ParityNodes
  <2>1. pi[n] \in Nat /\ pi[n] < ecM
    BY <1>1, <1>3 DEF Progress, IInv, TypeOK
  <2> QED BY <2>1, ParamsAssumption DEF ParityNodes
<1> HIDE DEF p
<1>5. PICK e0 \in Edges(job) : e0[2] = p /\ e0[3] = p
  <2>1. <<n, p, p>> \in Edges(job)
    BY <1>3, <1>4, EdgeExists
  <2> QED BY <2>1
<1>6. /\ \A x \in Nodes \ {n} : Same(x)
      /\ over /\ last = "idle" => buf'[n] = <<>>
      /\ ~(over /\ last = "idle") => buf' = buf /\ cur' = cur
  <2>1. CASE over /\ last = "idle"
    <3>1. Return(n)
      BY <2>1 DEF PushToParity
    <3> HIDE DEF next
    <3> QED BY <1>1, <2>1, <3>1 DEF Return, Same, IInv, TypeOK
  <2>2. CASE ~(over /\ last = "idle")
    <3>1. pi' = [pi EXCEPT ![n] = @ + 1] /\ UNCHANGED <<cur, buf, sj>>
      BY <2>2 DEF PushToParity
    <3> HIDE DEF next
    <3> QED BY <1>1, <2>2, <3>1 DEF Same, IInv, TypeOK
  <2> QED BY <2>1, <2>2
<1>7. npc'[n] = next
  BY <1>1 DEF IInv, TypeOK
<1>8. (Waiting(n) \/ Active(n))' => buf'[n] = buf[n]
  <2>1. over /\ last = "idle" => ~Waiting(n)' /\ ~Active(n)'
    BY <1>1, <1>3, <1>7 DEF Waiting, Active, Free
  <2> QED BY <1>6, <2>1
<1>9. RightFor(job, e0[2], [sid |-> cur[n].sid, id |-> e0[3], data |-> data], b)
  <2>1. CASE cur[n].task = 2
    BY <1>3, <2>1 DEF RightFor
  <2>2. CASE cur[n].task = 4
    <3>1. cur[n].upds = <<UpdOf(job.vec, n)>> /\ n \in Ids(job.vec)
      BY <1>3, <2>2 DEF IsCmd, TargetSet
    <3>2. PICK r \in ToSet(job.vec) : r = UpdOf(job.vec, n) /\ r \in Upd
      BY <1>3, <3>1, UpdOfIs
    <3>3. data = DeltaJunk(r.size)
      BY <2>2, <3>1, <3>2
    <3>4. data # Zeros => r.size > 0
      <4> SUFFICES ASSUME ~(r.size > 0) PROVE data = Zeros
        OBVIOUS
      <4>1. \A j \in Units : ~(j < r.size)
        BY <3>2 DEF Upd, Units
      <4> QED BY <3>3, <4>1 DEF DeltaJunk, Zeros
    <3> QED BY <1>3, <2>2, <3>2, <3>4 DEF RightFor
  <2> QED BY <2>1, <2>2
<1> HIDE DEF next, over
<1>10. \A x \in Nodes : MsgsRight(x, b)' /\ Kept(x)'
  <2>1. Push(n, e0[2], e0[3], data, next)
    BY <1>1, <1>5
  <2>2. buf'[n] = buf[n] \/ buf'[n] = <<>>
    BY <1>6
  <2> QED BY <1>3, <1>6, <1>8, <1>9, <2>1, <2>2, HeldSend
<1>11. CASE over /\ last = "write"
  <2>1. cur[n].task = 4 /\ npc'[n] = "write" /\ cur'[n] = cur[n]
    BY <1>6, <1>7, <1>11 DEF next
  <2> QED BY <1>1, <1>6, <1>10, <2>1, CrdSettle
<1>12. CASE ~(over /\ last = "write")
  <2>1. npc'[n] # "write"
    BY <1>7, <1>12 DEF next
  <2>2. Settled(n)' = Settled(n)
    BY <1>1, <2>1 DEF Settled
  <2>3. BlockIs(n, b)'
    <3>1. BlockIs(n, b)
      BY DEF CrdInv
    <3> QED BY <1>1, <1>3, <2>2, <3>1, BlockKeep
  <2>4. CrdInv(b)'
    <3>1. \A x \in Nodes \ {n} : Same(x) /\ disk'[x] = disk[x]
      BY <1>1, <1>6
    <3> QED BY <1>1, <1>10, <2>3, <3>1, CrdOneNode
  <2> QED BY <2>4 DEF CrdFlow, CrdInv
<1> QED BY <1>11, <1>12

\* The over-read of task 4.
LEMMA CrdFault ==
    ASSUME IInv, FlowInv, SentSame, NEW b, CrdInv(b), NEW n \in Nodes, OverreadFault(n)
    PROVE  CrdInv(b)'
<1>1. /\ npc[n] = "send" /\ npc'[n] = "exit" /\ cur[n].task = 4
      /\ UNCHANGED <<cpc, stripe, job, sent, cmds, queue, cur, buf, pi, sj, disk, lost>>
      /\ \A x \in Nodes \ {n} : Same(x)
  BY DEF OverreadFault, cvars, Same, IInv, TypeOK
<1>2. npc[n] \notin Free /\ ~Straggler(n)
  BY <1>1 DEF Free, Straggler
<1>3. Active(n) /\ ~Crd /\ n \notin ParityNodes
  BY <1>1, <1>2, TaskIs, AtWork
<1>4. BlockIs(n, b)'
  <2>1. Settled(n)' = Settled(n)
    BY <1>1 DEF Settled
  <2>2. BlockIs(n, b)
    BY DEF CrdInv
  <2> QED BY <1>1, <1>3, <2>1, <2>2, BlockKeep
<1>5. ASSUME NEW x \in Nodes
      PROVE  (Waiting(x) \/ Active(x))' => (Waiting(x) \/ Active(x)) /\ buf'[x] = buf[x]
  <2>1. CASE x = n
    BY <1>1, <1>3, <2>1
  <2>2. CASE x # n
    BY <1>1, <2>2, SameOK
  <2> QED BY <2>1, <2>2
<1>6. \A x \in Nodes : buf'[x] = buf[x] \/ buf'[x] = <<>>
  BY <1>1
<1>7. \A x \in Nodes : MsgsRight(x, b)' /\ Kept(x)'
  BY <1>1, <1>5, <1>6, HeldKeep
<1> QED BY <1>1, <1>4, <1>7, CrdOneNode

\* The write of a data node, in its stripe or after it, and the acks.
LEMMA CrdDataWrite ==
    ASSUME IInv, FlowInv, NEW b, CrdInv(b), NEW n \in Nodes, cur[n].task \in {1, 4, 6},
           NEW off, NEW size, Write(n, Overwritten(n, off, size), "idle"),
           off = Own(n).off, size = Own(n).size
    PROVE  CrdInv(b)'
<1> DEFINE f == Overwritten(n, off, size)
<1>1. f = Renewed(disk[n], n, Own(n))
  BY DEF Overwritten, Renewed
<1> HIDE DEF f
<1>2. /\ npc[n] = "write" /\ npc' = [npc EXCEPT ![n] = "idle"] /\ Return(n)
      /\ disk' = [disk EXCEPT ![n] = f]
      /\ UNCHANGED <<cpc, stripe, job, sent, cmds, queue, lost>>
  BY DEF Write, cvars, f
<1>3. f = Settled(n)
  BY <1>1, <1>2 DEF Settled
<1>4. n \in DataNodes /\ n \notin ParityNodes
  <2>1. n \in ParityNodes => cur[n].task \in ParityTasks
    BY <1>2 DEF IInv, TaskInv, Free
  <2> QED BY <2>1, NodeFacts DEF ParityTasks
<1>5. Busy => SentSame
  BY <1>2, FlowReturn
<1>6. disk' = [disk EXCEPT ![n] = Settled(n)]
  BY <1>2, <1>3
<1> QED BY <1>2, <1>4, <1>5, <1>6, CrdReturn

\* The ack of a parity node changes no block.
LEMMA CrdAck ==
    ASSUME IInv, FlowInv, NEW b, CrdInv(b), NEW n \in Nodes, SendAck(n)
    PROVE  CrdInv(b)'
<1>1. /\ npc[n] = "ack" /\ npc' = [npc EXCEPT ![n] = "idle"] /\ Return(n)
      /\ disk' = disk /\ UNCHANGED <<cpc, stripe, job, sent, cmds, queue, lost>>
  BY DEF SendAck, cvars
<1>2. npc[n] \notin Free /\ ~Straggler(n)
  BY <1>1 DEF Free, Straggler
<1>3. n \in ParityNodes /\ n \notin DataNodes
  <2>1. Progress(n)
    BY <1>2, AtWork
  <2>2. cur[n].task \notin {1, 2, 4, 6}
    BY <1>1, <2>1 DEF Progress, Phases
  <2> QED BY <1>2, <2>2, TaskIs
<1>4. Busy => SentSame
  BY <1>1, FlowReturn
<1> QED BY <1>1, <1>3, <1>4, CrdReturn

\* Every step of every handler.
LEMMA CrdHandle ==
    ASSUME IInv, FlowInv, FlowInv', NEW b, CrdInv(b), NEW n \in Nodes, Handle(n)
    PROVE  CrdFlow'
<1> DEFINE r == cur[n].upds[1]
<1>0. /\ disk \in [Nodes -> Block] /\ buf \in [Nodes -> Seq(Msg)] /\ disk[n] \in Block
      /\ pi[n] \in Nat /\ n \in Nat
  BY NodeFacts DEF IInv, TypeOK
<1>1. ASSUME CrdInv(b)' PROVE CrdFlow'
  BY <1>1 DEF CrdFlow, CrdInv
<1>2. ASSUME NEW known, NEW count, NEW next, Recv(n, known, count, next),
             cur[n].task \in {2, 3, 5, 7, 8},
             next = (IF cur[n].task \in {2, 7} THEN "send" ELSE "write"),
             IsCmd(cur[n], job, n, stripe) /\ JobOK(job) =>
                /\ count = Count(job, n) /\ \A e \in In(job, n) : e[3] \in known
      PROVE  CrdFlow'
  <2>1. npc[n] = "recv"
    BY <1>2 DEF Recv
  <2>2. IsCmd(cur[n], job, n, stripe) /\ JobOK(job)
    BY <2>1, AtWork DEF Straggler, Free
  <2>3. SentSame
    BY <1>2, <2>2, FlowRecv
  <2>4. CrdInv(b)'
    BY <1>2, <2>3, CrdRecv
  <2> QED BY <1>1, <2>4
<1>3. ASSUME NEW f, Write(n, f, "ack"),
             \/ cur[n].task = 3
             \/ cur[n].task = 5 /\ f = DeltaParity(n)
             \/ cur[n].task = 8 /\ f = XorBlock(disk[n], CrdAggregate(n))
      PROVE  CrdFlow'
  <2>1. /\ npc[n] = "write" /\ npc' = [npc EXCEPT ![n] = "ack"]
        /\ UNCHANGED <<cpc, stripe, job, sent, cmds, queue, cur, buf, pi, sj>>
    BY <1>3 DEF Write, cvars, Stay
  <2> DEFINE s == "ack"
  <2>2. npc' = [npc EXCEPT ![n] = s] /\ s = "ack"
    BY <2>1
  <2>3. cur[n].task \in {3, 5, 8}
    BY <1>3
  <2> HIDE DEF s
  <2>4. SentSame
    BY <2>1, <2>2, <2>3, FlowMove
  <2>5. CrdInv(b)'
    BY <1>3, <2>4, CrdParityWrite
  <2> QED BY <1>1, <2>5
<1>4. ASSUME SendAck(n) PROVE CrdFlow'
  BY <1>1, <1>4, CrdAck
<1>5. ASSUME JobOK(job), NEW e \in In(job, n)
      PROVE  /\ Role(job, n) \in {2, 7} => e[3] \in Ids(job.vec)
             /\ Role(job, n) \in {3, 5} => e[3] \in Nodes
             /\ Role(job, n) = 8 => e[3] \in 0 .. (SubNum(job.vec) - 1)
  <2>1. e \in Edges(job) /\ e[2] = n
    BY <1>5 DEF In
  <2> QED BY <1>5, <2>1, EdgeFacts
<1>11. CASE send_data_to_collector_for_raid(n)
  <2>1. cur[n].task = 1
    BY <1>11 DEF send_data_to_collector_for_raid
  <2>2. CASE Push(n, cur[n].to, n, DataDelta(n, 0, blocksize), "write") /\ Stay
    BY <2>1, <2>2, RaidPushDelta
  <2>3. CASE Write(n, Overwritten(n, 0, blocksize), "idle")
    <3>1. PICK off, size : off = 0 /\ size = blocksize
      OBVIOUS
    <3>2. off = Own(n).off /\ size = Own(n).size
      BY <2>1, <3>1 DEF Own
    <3>3. CrdInv(b)'
      BY <2>1, <2>3, <3>1, <3>2, CrdDataWrite
    <3> QED BY <1>1, <3>3
  <2> QED BY <1>11, <2>2, <2>3 DEF send_data_to_collector_for_raid
<1>12. CASE recv_and_compute_and_send_for_raid(n)
  <2>1. cur[n].task = 2
    BY <1>12 DEF recv_and_compute_and_send_for_raid
  <2>2. CASE Recv(n, Ids(cur[n].upds), cur[n].num - 1, "send")
    <3>1. IsCmd(cur[n], job, n, stripe) /\ JobOK(job) =>
             /\ cur[n].num - 1 = Count(job, n) /\ \A e \in In(job, n) : e[3] \in Ids(cur[n].upds)
      BY <1>5, <2>1 DEF IsCmd, Count
    <3>2. "send" = IF cur[n].task \in {2, 7} THEN "send" ELSE "write"
      BY <2>1
    <3> QED BY <1>2, <2>1, <2>2, <3>1, <3>2
  <2>3. CASE PushToParity(n, RaidParity(n, ecM - pi[n] - 1), "idle")
    <3>1. ecM - pi[n] - 1 \in Int
      BY <1>0, ParamsAssumption
    <3>2. PICK data, last : data \in Block /\ data = RaidParity(n, ecM - pi[n] - 1) /\ last = "idle"
      BY <3>1, <1>0, RaidParityOK
    <3> QED BY <2>1, <2>3, <3>2, PlainPushToParity
  <2> QED BY <1>12, <2>2, <2>3 DEF recv_and_compute_and_send_for_raid
<1>13. CASE recv_and_save_for_raid(n)
  <2>1. cur[n].task = 3
    BY <1>13 DEF recv_and_save_for_raid
  <2>2. CASE Recv(n, Nodes, 1, "write")
    <3>1. IsCmd(cur[n], job, n, stripe) /\ JobOK(job) =>
             /\ 1 = Count(job, n) /\ \A e \in In(job, n) : e[3] \in Nodes
      BY <1>5, <2>1 DEF IsCmd, Count
    <3>2. "write" = IF cur[n].task \in {2, 7} THEN "send" ELSE "write"
      BY <2>1
    <3> QED BY <1>2, <2>1, <2>2, <3>1, <3>2
  <2>3. CASE Write(n, Received(n, n), "ack")
    BY <1>3, <2>1, <2>3
  <2> QED BY <1>4, <1>13, <2>2, <2>3 DEF recv_and_save_for_raid
<1>14. CASE send_parity_delta_to_each_parity_for_delta(n)
  <2>1. cur[n].task = 4
    BY <1>14 DEF send_parity_delta_to_each_parity_for_delta
  <2>2. CASE PushToParity(n, DeltaJunk(r.size), "write")
    <3>1. PICK data, last : data \in Block /\ data = DeltaJunk(r.size) /\ last = "write"
      BY DeltaJunkOK
    <3> QED BY <2>1, <2>2, <3>1, PlainPushToParity
  <2>3. CASE Write(n, Overwritten(n, r.off, r.size), "idle")
    <3>1. PICK off, size : off = r.off /\ size = r.size
      OBVIOUS
    <3>2. off = Own(n).off /\ size = Own(n).size
      BY <2>1, <3>1 DEF Own
    <3>3. CrdInv(b)'
      BY <2>1, <2>3, <3>1, <3>2, CrdDataWrite
    <3> QED BY <1>1, <3>3
  <2> QED BY <1>14, <2>2, <2>3 DEF send_parity_delta_to_each_parity_for_delta
<1>15. CASE recv_parity_delta_and_aggre_for_delta(n)
  <2>1. cur[n].task = 5
    BY <1>15 DEF recv_parity_delta_and_aggre_for_delta
  <2>2. CASE Recv(n, Nodes, cur[n].num, "write")
    <3>1. IsCmd(cur[n], job, n, stripe) /\ JobOK(job) =>
             /\ cur[n].num = Count(job, n) /\ \A e \in In(job, n) : e[3] \in Nodes
      BY <1>5, <2>1 DEF IsCmd, Count
    <3>2. "write" = IF cur[n].task \in {2, 7} THEN "send" ELSE "write"
      BY <2>1
    <3> QED BY <1>2, <2>1, <2>2, <3>1, <3>2
  <2>3. CASE Write(n, DeltaParity(n), "ack")
    BY <1>3, <2>1, <2>3
  <2> QED BY <1>4, <1>15, <2>2, <2>3 DEF recv_parity_delta_and_aggre_for_delta
<1>16. CASE send_data_delta_to_parity_collector_for_crd(n)
  <2>1. cur[n].task = 6
    BY <1>16 DEF send_data_delta_to_parity_collector_for_crd
  <2>2. CASE Push(n, cur[n].to, n, DataDelta(n, r.off, r.size), "write") /\ Stay
    BY <1>1, <2>1, <2>2, CrdPushDelta
  <2>3. CASE Write(n, Overwritten(n, r.off, r.size), "idle")
    <3>1. PICK off, size : off = r.off /\ size = r.size
      OBVIOUS
    <3>2. off = Own(n).off /\ size = Own(n).size
      BY <2>1, <3>1 DEF Own
    <3>3. CrdInv(b)'
      BY <2>1, <2>3, <3>1, <3>2, CrdDataWrite
    <3> QED BY <1>1, <3>3
  <2> QED BY <1>16, <2>2, <2>3 DEF send_data_delta_to_parity_collector_for_crd
<1>17. CASE recv_and_compute_in_parity_collector_for_crd(n)
  <2>1. cur[n].task = 7
    BY <1>17 DEF recv_and_compute_in_parity_collector_for_crd
  <2>2. CASE Recv(n, Ids(cur[n].upds), cur[n].num, "send")
    <3>1. IsCmd(cur[n], job, n, stripe) /\ JobOK(job) =>
             /\ cur[n].num = Count(job, n) /\ \A e \in In(job, n) : e[3] \in Ids(cur[n].upds)
      BY <1>5, <2>1 DEF IsCmd, Count
    <3>2. "send" = IF cur[n].task \in {2, 7} THEN "send" ELSE "write"
      BY <2>1
    <3> QED BY <1>2, <2>1, <2>2, <3>1, <3>2
  <2>3. CASE CrdSendSlice(n)
    BY <1>1, <2>1, <2>3, CrdPushSlice
  <2>4. CASE CrdWriteOwn(n)
    <3>1. SentSame
      BY <2>1, <2>4, FlowWriteOwn
    <3> QED BY <1>1, <2>1, <2>4, <3>1, CrdOwn
  <2> QED BY <1>4, <1>17, <2>2, <2>3, <2>4 DEF recv_and_compute_in_parity_collector_for_crd
<1>18. CASE recv_parity_delta_and_aggre_for_crd(n)
  <2> DEFINE subs == SubNum(cur[n].upds)
             known == 0 .. (subs - 1)
  <2>1. cur[n].task = 8
    BY <1>18 DEF recv_parity_delta_and_aggre_for_crd
  <2>2. CASE Recv(n, known, subs, "write")
    <3>1. IsCmd(cur[n], job, n, stripe) /\ JobOK(job) =>
             /\ subs = Count(job, n) /\ \A e \in In(job, n) : e[3] \in known
      BY <1>5, <2>1 DEF IsCmd, Count
    <3>2. "write" = IF cur[n].task \in {2, 7} THEN "send" ELSE "write"
      BY <2>1
    <3> HIDE DEF known, subs
    <3> QED BY <1>2, <2>1, <2>2, <3>1, <3>2
  <2>3. CASE Write(n, XorBlock(disk[n], CrdAggregate(n)), "ack")
    BY <1>3, <2>1, <2>3
  <2> QED BY <1>4, <1>18, <2>2, <2>3 DEF recv_parity_delta_and_aggre_for_crd
<1> QED BY <1>11, <1>12, <1>13, <1>14, <1>15, <1>16, <1>17, <1>18 DEF Handle

\* A node takes its command: it waited before and has everything to do after.
LEMMA CrdTakeCmd ==
    ASSUME IInv, FlowInv, FlowInv', SentSame, NEW b, CrdInv(b), NEW n \in Nodes, TakeCmd(n)
    PROVE  CrdInv(b)'
<1> DEFINE h == Head(cmds[n])
<1>1. /\ npc[n] = "idle" /\ cmds[n] # <<>> /\ npc'[n] = FirstPhase(n, h) /\ cur'[n] = h
      /\ UNCHANGED <<cpc, stripe, job, sent, queue, buf, pi, sj, disk, lost>>
      /\ \A x \in Nodes \ {n} : Same(x)
  BY DEF TakeCmd, cvars, Same, IInv, TypeOK
<1>2. /\ FirstPhase(n, h) \in {"send", "recv", "exit"}
      /\ FirstPhase(n, h) = "exit" => h.task # 4
      /\ h.task \in {3, 5, 7, 8} => FirstPhase(n, h) = "recv"
  BY DEF FirstPhase
<1> HIDE DEF h
<1>3. Waiting(n)
  BY <1>1 DEF Waiting
<1>4. Busy' /\ Active(n)'
  <2>1. npc'[n] \notin Free /\ ~Straggler(n)'
    BY <1>1, <1>2 DEF Free, Straggler
  <2> QED BY <2>1 DEF FlowInv, NodeInv
<1>5. ~Waiting(n)' /\ npc'[n] \in Phases(cur'[n].task) /\ (npc'[n] = "recv" => pi'[n] = 0)
  BY <1>4 DEF FlowInv, NodeInv, Progress
<1>6. npc'[n] \in {"send", "recv"}
  BY <1>1, <1>2, <1>5 DEF Phases
<1>7. BlockIs(n, b)'
  <2>1. Settled(n)' = Settled(n)
    BY <1>1, <1>6 DEF Settled
  <2>2. ~DataSent(n) /\ ~DataSent(n)'
    BY <1>3, <1>4, <1>6 DEF DataSent
  <2>3. n \in ParityNodes => Todo(n) /\ Todo(n)'
    <3> SUFFICES ASSUME n \in ParityNodes PROVE Todo(n)'
      BY <1>3 DEF Todo
    <3>1. cur'[n].task \in ParityTasks
      <4>1. cmds[n] \in Seq(Cmd) /\ \A i \in 1 .. Len(cmds[n]) : cmds[n][i].task \in ParityTasks
        BY DEF IInv, TypeOK, TaskInv
      <4>2. h = cmds[n][1] /\ 1 \in 1 .. Len(cmds[n])
        BY <1>1, <4>1 DEF h
      <4> QED BY <1>1, <4>1, <4>2
    <3>2. npc'[n] = "recv"
      BY <1>1, <1>2, <3>1 DEF ParityTasks
    <3> QED BY <1>4, <3>2 DEF Todo
  <2>4. BlockIs(n, b)
    BY DEF CrdInv
  <2> QED BY <1>1, <2>1, <2>2, <2>3, <2>4, BlockKeep
<1>8. ASSUME NEW x \in Nodes
      PROVE  (Waiting(x) \/ Active(x))' => (Waiting(x) \/ Active(x)) /\ buf'[x] = buf[x]
  <2>1. CASE x = n
    BY <1>1, <1>3, <2>1
  <2>2. CASE x # n
    BY <1>1, <2>2, SameOK
  <2> QED BY <2>1, <2>2
<1>9. \A x \in Nodes : buf'[x] = buf[x] \/ buf'[x] = <<>>
  BY <1>1
<1>10. \A x \in Nodes : MsgsRight(x, b)' /\ Kept(x)'
  BY <1>1, <1>8, <1>9, HeldKeep
<1> QED BY <1>1, <1>7, <1>10, CrdOneNode
-----------------------------------------------------------------------------
(* The steps of the coordinator. *)

\* A step of the coordinator within a stripe.
LEMMA CrdWithin ==
    ASSUME NEW b, CrdInv(b), SentSame, Busy, Busy',
           UNCHANGED <<stripe, job, queue, npc, cur, buf, pi, disk, lost>>,
           \A x \in Nodes : Waiting(x)' <=> Waiting(x)
    PROVE  CrdInv(b)'
<1>1. (Crd' <=> Crd) /\ Goal(b)' = Goal(b)
  BY DEF Crd, Goal
<1>2. ASSUME NEW x \in Nodes PROVE Active(x)' <=> Active(x)
  BY DEF Active
<1>3. ASSUME NEW x \in Nodes PROVE BlockIs(x, b)'
  <2>1. Settled(x)' = Settled(x)
    BY DEF Settled, Own
  <2>2. (DataSent(x)' <=> DataSent(x)) /\ (Todo(x)' <=> Todo(x))
    BY <1>2 DEF DataSent, Todo
  <2>3. BlockIs(x, b)
    BY DEF CrdInv
  <2> DEFINE X == IF Todo(x) THEN b ELSE Goal(b)
             F == Encoded(X, x)
  <2>4. X' = X
    BY <1>1, <2>2
  <2>5. DataIs(x, b) => DataIs(x, b)'
    BY <1>1, <2>1, <2>2 DEF DataIs
  <2> HIDE DEF X
  <2>6. F' = F
    BY <2>4
  <2> HIDE DEF F
  <2>7. ParityIs(x, b) <=> \A u \in Units : <<x, u>> \in lost \/ disk[x][u] = F[u]
    BY DEF ParityIs, F, X
  <2>8. ParityIs(x, b)' <=> \A u \in Units : <<x, u>> \in lost' \/ disk'[x][u] = F'[u]
    BY DEF ParityIs, F, X
  <2> QED BY <2>3, <2>5, <2>6, <2>7, <2>8 DEF BlockIs
<1>4. ASSUME NEW x \in Nodes PROVE MsgsRight(x, b)' /\ Kept(x)'
  <2>1. MsgsRight(x, b) /\ Kept(x) /\ List(x)' = List(x)
    BY DEF CrdInv, List
  <2>2. MsgsRight(x, b)'
    BY <2>1 DEF MsgsRight, Right
  <2>3. \A e \in In(job, x) : Sent(e)' <=> Sent(e)
    BY DEF SentSame, In
  <2>4. Kept(x)'
    BY <1>1, <1>2, <2>1, <2>3 DEF Kept
  <2> QED BY <2>2, <2>4
<1>5. b \in Bases /\ LeftOut(job) \subseteq lost /\ (LeftOut(job))' = LeftOut(job')
  BY DEF CrdInv, LeftOut
<1>6. LeftOut(job') = LeftOut(job)
  OBVIOUS
<1> QED BY <1>3, <1>4, <1>5, <1>6 DEF CrdInv

\* A command moves from the plan to upd_cmds.
LEMMA CrdSendCmd ==
    ASSUME IInv, FlowInv, SentSame, NEW b, CrdInv(b), SendCmd
    PROVE  CrdInv(b)'
<1> DEFINE n == Targets(job)[sent + 1]
           c == CmdFor(job, n)
<1>1. /\ cpc = "send" /\ cmds' = [cmds EXCEPT ![n] = Append(@, c)] /\ sent' = sent + 1
      /\ cpc' \in {"send", "ack"}
      /\ UNCHANGED <<stripe, job, queue, npc, cur, buf, pi, sj, disk, lost>>
  BY DEF SendCmd, nvars
<1>2. JobOK(job) /\ sent < Len(Targets(job)) /\ sent \in Nat
  BY <1>1 DEF IInv, CoordInv, TypeOK
<1>3. /\ n \in TargetSet(job) /\ n \in Plan(job, sent)
      /\ Plan(job, sent + 1) = Plan(job, sent) \ {n} /\ n \in Nodes
  BY <1>2, PlanStep, JobFacts DEF TargetSet
<1> HIDE DEF n, c
<1>4. Busy /\ Busy'
  BY <1>1 DEF Busy
<1>5. ASSUME NEW x \in Nodes PROVE Waiting(x)' <=> Waiting(x)
  <2>1. Plan(job', sent') = Plan(job, sent) \ {n}
    BY <1>1, <1>3
  <2>2. CASE x = n
    <3>1. Waiting(n)
      BY <1>3 DEF Waiting
    <3>2. cmds'[n] = Append(cmds[n], c)
      BY <1>1, <1>3 DEF IInv, TypeOK
    <3>3. cmds'[n] # <<>>
      <4>1. cmds[n] \in Seq(Cmd)
        BY <1>3 DEF IInv, TypeOK
      <4> QED BY <3>2, <4>1
    <3> QED BY <2>2, <3>1, <3>3 DEF Waiting
  <2>3. CASE x # n
    <3>1. cmds'[x] = cmds[x]
      BY <1>1, <2>3 DEF IInv, TypeOK
    <3>2. (Plan(job, sent))' = Plan(job', sent')
      BY DEF Plan
    <3> QED BY <2>1, <2>3, <3>1, <3>2 DEF Waiting
  <2> QED BY <2>2, <2>3
<1> QED BY <1>1, <1>4, <1>5, CrdWithin

\* Between two stripes nothing changes a block.
LEMMA CrdIdle ==
    ASSUME NEW b, CrdInv(b), ~Busy, ~Busy', UNCHANGED <<disk, lost>>,
           \A x \in Nodes : Settled(x)' = Settled(x)
    PROVE  CrdInv(b)'
<1>1. ~Crd /\ ~Crd'
  BY DEF Crd
<1>2. ASSUME NEW x \in Nodes PROVE BlockIs(x, b)'
  <2>1. x \in DataNodes => Settled(x)' = b[x]
    BY <1>1, PlainIs
  <2>2. ASSUME x \in ParityNodes, NEW u \in Units
        PROVE  <<x, u>> \in lost' \/ disk'[x][u] = Encoded(b, x)[u]
    <3>1. <<x, u>> \in lost \/ disk[x][u] = Encoded(b, x)[u]
      BY <1>1, <2>2, PlainIs
    <3> QED BY <3>1
  <2> QED BY <1>1, <2>1, <2>2, PlainBlocks
<1>3. ASSUME NEW x \in Nodes PROVE MsgsRight(x, b)' /\ Kept(x)'
  BY <1>1 DEF MsgsRight, Kept
<1> QED BY <1>2, <1>3 DEF CrdInv

\* A stripe starts: its parities still have everything to do, its data nodes
\* have sent nothing, and what the stripe leaves out is lost.
LEMMA CrdStart ==
    ASSUME IInv, IInv', FlowInv, NEW b, CrdInv(b), NEW policy, NEW v, NEW c0,
           StartStripe(policy, v, c0)
    PROVE  CrdInv(b)'
<1>1. /\ cpc = "idle" /\ cpc' = "send" /\ stripe' = stripe + 1 /\ sent' = 0
      /\ lost' = lost \cup LeftOut(job')
      /\ UNCHANGED <<cmds, queue, npc, cur, buf, pi, sj, disk>>
  BY DEF StartStripe, nvars
<1>2. ~Busy /\ Busy' /\ JobOK(job') /\ ~Crd
  BY <1>1 DEF Busy, IInv, CoordInv, Crd
<1>3. TargetSet(job') \subseteq Plan(job', sent')
  BY <1>1, <1>2, PlanStart DEF TargetSet
<1>4. \A x \in TargetSet(job') : Waiting(x)'
  <2>1. (Plan(job, sent))' = Plan(job', sent')
    BY DEF Plan
  <2> QED BY <1>3, <2>1 DEF Waiting
<1>5. ASSUME NEW x \in Nodes PROVE BlockIs(x, b)'
  <2>1. x \in DataNodes => DataIs(x, b)'
    <3> SUFFICES ASSUME x \in DataNodes PROVE DataIs(x, b)'
      OBVIOUS
    <3>1. Settled(x)' = b[x]
      <4>1. Settled(x)' = Settled(x)
        BY <1>1 DEF Settled, Own
      <4> QED BY <1>2, <4>1, PlainIs
    <3>2. DataSent(x)' => Goal(b)'[x] = b[x]
      <4>1. DataSent(x)' => x \notin Ids(job'.vec)
        BY <1>4 DEF DataSent, TargetSet
      <4> QED BY <4>1 DEF Goal, After
    <3> QED BY <3>1, <3>2 DEF DataIs
  <2>2. x \in ParityNodes => ParityIs(x, b)'
    <3> SUFFICES ASSUME x \in ParityNodes PROVE ParityIs(x, b)'
      OBVIOUS
    <3>1. Todo(x)'
      BY <1>4 DEF Todo, TargetSet
    <3> DEFINE X == IF Todo(x) THEN b ELSE Goal(b)
               F == Encoded(X, x)
               G == Encoded(b, x)
    <3>2. X' = b
      BY <3>1
    <3> HIDE DEF X
    <3>3. F' = G
      BY <3>2
    <3>4. \A u \in Units : <<x, u>> \in lost \/ disk[x][u] = G[u]
      BY <1>2, PlainIs
    <3> HIDE DEF F, G
    <3>5. ParityIs(x, b)' <=> \A u \in Units : <<x, u>> \in lost' \/ disk'[x][u] = F'[u]
      BY DEF ParityIs, F, X
    <3> QED BY <1>1, <3>3, <3>4, <3>5
  <2> QED BY <2>1, <2>2 DEF BlockIs
<1>6. ASSUME NEW x \in Nodes PROVE MsgsRight(x, b)' /\ Kept(x)'
  <2>1. NodeInv(x) /\ MsgInv(x)
    BY DEF FlowInv
  <2>2. buf'[x] = <<>>
    BY <1>1, <1>2, <2>1 DEF NodeInv, Straggler
  <2>3. List(x)' = <<>>
    <3>1. KeyFor(job') \in Keys
      BY KeyIs
    <3>2. queue[KeyFor(job')][x] = <<>>
      BY <1>2, <2>1, <3>1 DEF MsgInv
    <3> QED BY <1>1, <3>2 DEF List
  <2>4. MsgsRight(x, b)'
    BY <2>2, <2>3 DEF MsgsRight
  <2>5. \A e \in In(job', x) : ~Sent(e)'
    <3> SUFFICES ASSUME NEW e \in In(job', x) PROVE ~Sent(e)'
      OBVIOUS
    <3>1. e[1] \in TargetSet(job')
      BY <1>2, EdgeFacts DEF In
    <3> QED BY <1>4, <3>1 DEF Sent
  <2>6. (In(job, x))' = In(job', x)
    BY DEF In
  <2>7. Kept(x)'
    BY <2>5, <2>6 DEF Kept
  <2> QED BY <2>4, <2>7
<1>7. b \in Bases /\ (LeftOut(job))' = LeftOut(job') /\ LeftOut(job') \subseteq lost'
  BY <1>1 DEF CrdInv, LeftOut
<1> QED BY <1>5, <1>6, <1>7 DEF CrdInv

\* The last ack: every part of the stripe has been done, and the parities encode
\* the data blocks as they are after it.
LEMMA CrdRecvAck ==
    ASSUME IInv, FlowInv, NEW b, CrdInv(b), RecvAck
    PROVE  CrdFlow'
<1>1. /\ cpc = "ack" /\ UNCHANGED <<stripe, cmds, queue, npc, cur, buf, pi, sj, disk, lost>>
      /\ IF need = 1 THEN cpc' = "idle" ELSE UNCHANGED <<cpc, job, sent>>
  BY DEF RecvAck, nvars
<1>2. Busy
  BY <1>1 DEF Busy
<1>3. CASE need # 1
  <2>1. UNCHANGED <<cpc, job, sent>>
    BY <1>1, <1>3
  <2>2. SentSame
    BY <1>1, <2>1 DEF SentSame, Sent, Waiting, Active, Passed
  <2>3. \A x \in Nodes : Waiting(x)' <=> Waiting(x)
    BY <1>1, <2>1 DEF Waiting
  <2>4. Busy'
    BY <1>2, <2>1 DEF Busy
  <2>5. CrdInv(b)'
    BY <1>1, <1>2, <2>1, <2>2, <2>3, <2>4, CrdWithin
  <2> QED BY <2>5 DEF CrdFlow, CrdInv
<1>4. CASE need = 1
  <2>1. Outcome /\ cpc' = "idle"
    BY <1>1, <1>4, RecvAckOK
  <2>2. Pending = {}
    BY <1>1, <2>1 DEF Outcome, BeginStep, CommitStep, CompleteStep, QuietStep
  <2>3. ASSUME NEW n \in Nodes PROVE cmds[n] = <<>> /\ (npc[n] \notin Free => Straggler(n))
    BY <1>1, <2>2, Completed
  <2>4. JobOK(job) /\ Plan(job, sent) = {}
    BY <1>1, <1>2, PlanEnd DEF Busy, IInv, CoordInv
  <2>5. ~Busy' /\ ~Crd'
    BY <2>1 DEF Busy, Crd
  <2>6. PICK c : c = Goal(b)
    OBVIOUS
  <2>7. c \in Bases
    <3>1. b \in Bases
      BY DEF CrdInv
    <3> QED BY <2>4, <2>6, <3>1, AfterOK DEF Goal
  <2>8. ASSUME NEW x \in Nodes PROVE BlockIs(x, c)'
    <3>1. BlockIs(x, b) /\ Settled(x)' = Settled(x) /\ ~Waiting(x)
      BY <1>1, <2>3, <2>4 DEF CrdInv, Settled, Own, Waiting
    <3>2. x \in DataNodes => Settled(x)' = c[x]
      <4>1. DataSent(x)
        BY <2>3, <3>1 DEF DataSent, Active, Straggler
      <4> QED BY <2>6, <3>1, <4>1 DEF BlockIs, DataIs
    <3>3. ASSUME x \in ParityNodes, NEW u \in Units
          PROVE  <<x, u>> \in lost' \/ disk'[x][u] = Encoded(c, x)[u]
      <4>1. ~Todo(x)
        <5>1. ~Active(x)
          <6>1. Pending = PendingOf(job, sent, cmds, npc)
            BY <2>4, PendingIs
          <6>2. npc[x] \in Free
            BY <2>2, <3>3, <6>1 DEF PendingOf
          <6> QED BY <6>2 DEF Active
        <5> QED BY <3>1, <5>1 DEF Todo
      <4>2. <<x, u>> \in lost \/ disk[x][u] = Encoded(Goal(b), x)[u]
        BY <3>1, <3>3, <4>1 DEF BlockIs, ParityIs
      <4> QED BY <1>1, <2>6, <4>2
    <3> QED BY <2>5, <3>2, <3>3, PlainBlocks
  <2>9. ASSUME NEW x \in Nodes PROVE MsgsRight(x, c)' /\ Kept(x)'
    BY <2>5 DEF MsgsRight, Kept
  <2>10. CrdInv(c)'
    BY <2>5, <2>7, <2>8, <2>9 DEF CrdInv
  <2> QED BY <2>7, <2>10 DEF CrdFlow
<1> QED BY <1>3, <1>4

\* Initially the parities encode what the data blocks held at start-up.
LEMMA CrdInit == ASSUME Init PROVE CrdFlow
<1> DEFINE old == [d \in DataNodes |-> [u \in Units |-> {<<Raw, d, Old>>}]]
           none == <<>>
<1>1. IInv
  BY InitIInv
<1>2. ASSUME NEW d \in DataNodes PROVE d \in Nodes /\ disk[d] = old[d] /\ disk[d] \in Block
  <2>1. d \in Nodes
    BY NodeFacts
  <2>2. disk[d] = [u \in Units |-> {<<Raw, d, Old>>}]
    BY <2>1 DEF Init
  <2> QED BY <1>1, <2>1, <2>2 DEF IInv, TypeOK
<1>3. old \in Bases
  <2>1. ASSUME NEW d \in DataNodes, NEW u \in Units, NEW t \in old[d][u]
        PROVE  t = <<Raw, d, t[3]>>
    BY <2>1
  <2>2. old \in [DataNodes -> Block]
    <3>1. \A d \in DataNodes : old[d] \in Block
      BY <1>2
    <3>2. old = [d \in DataNodes |-> old[d]]
      OBVIOUS
    <3> HIDE DEF old
    <3> QED BY <3>1, <3>2
  <2> HIDE DEF old
  <2> QED BY <2>1, <2>2 DEF Bases
<1>4. ASSUME NEW p \in ParityNodes, NEW u \in Units
      PROVE  disk[p][u] = Encoded(old, p)[u]
  <2> DEFINE row == p - ecK
  <2>1. p \in Nodes /\ p \notin DataNodes
    BY NodeFacts
  <2>2. disk[p][u] = {<<row, d, Old>> : d \in DataNodes}
    BY <2>1 DEF Init
  <2>3. Encoded(old, p)[u] = UNION {Encode(row, old[d][u]) : d \in DataNodes}
    BY DEF Encoded
  <2> HIDE DEF row
  <2>4. ASSUME NEW d \in DataNodes PROVE Encode(row, old[d][u]) = {<<row, d, Old>>}
    <3> DEFINE S == {<<Raw, d, Old>>}
    <3>1. old[d][u] = S
      OBVIOUS
    <3>2. Encode(row, S) = {<<row, d, Old>>}
      BY DEF Encode
    <3> HIDE DEF S, old
    <3> QED BY <3>1, <3>2
  <2> HIDE DEF old
  <2>5. UNION {Encode(row, old[d][u]) : d \in DataNodes} = {<<row, d, Old>> : d \in DataNodes}
    BY <2>4
  <2> QED BY <2>2, <2>3, <2>5
<1> HIDE DEF old
<1>5. ~Busy /\ ~Crd /\ Goal(old) = old
  BY DEF Init, Busy, Crd, Goal
<1>6. ASSUME NEW x \in Nodes PROVE BlockIs(x, old)
  <2>1. x \in DataNodes => DataIs(x, old)
    <3>1. npc[x] = "off"
      BY DEF Init
    <3>2. Settled(x) = disk[x]
      BY <3>1 DEF Settled
    <3> QED BY <1>2, <1>5, <3>2 DEF DataIs
  <2>2. x \in ParityNodes => ParityIs(x, old)
    <3>1. (IF Todo(x) THEN old ELSE Goal(old)) = old
      BY <1>5
    <3> QED BY <1>4, <3>1 DEF ParityIs
  <2> QED BY <2>1, <2>2 DEF BlockIs
<1>7. ASSUME NEW x \in Nodes PROVE MsgsRight(x, old) /\ Kept(x)
  BY <1>5 DEF MsgsRight, Kept
<1>8. CrdInv(old)
  BY <1>3, <1>5, <1>6, <1>7 DEF CrdInv
<1> QED BY <1>3, <1>8 DEF CrdFlow

\* The induction step.
LEMMA NextCrd ==
    ASSUME IInv, IInv', FlowInv, FlowInv', CrdFlow, [Next]_vars
    PROVE  CrdFlow'
<1>1. PICK b \in Bases : CrdInv(b)
  BY DEF CrdFlow
<1>2. ASSUME CrdInv(b)' PROVE CrdFlow'
  BY <1>1, <1>2 DEF CrdFlow
<1>3. CASE UNCHANGED vars
  <2>1. UNCHANGED <<cpc, stripe, job, sent, cmds, queue, npc, cur, buf, pi, sj, disk, lost>>
    BY <1>3 DEF vars, cvars, nvars
  <2>2. CASE Busy
    <3>1. SentSame /\ Busy' /\ \A x \in Nodes : Waiting(x)' <=> Waiting(x)
      BY <2>1, <2>2 DEF SentSame, Sent, Waiting, Active, Passed, Busy
    <3> QED BY <1>1, <1>2, <2>1, <2>2, <3>1, CrdWithin
  <2>3. CASE ~Busy
    <3>1. ~Busy' /\ \A x \in Nodes : Settled(x)' = Settled(x)
      BY <2>1, <2>3 DEF Busy, Settled, Own
    <3> QED BY <1>1, <1>2, <2>1, <2>3, <3>1, CrdIdle
  <2> QED BY <2>2, <2>3
<1>4. CASE CoordinatorStep
  <2>1. CASE RecvTest \/ Finish
    <3>1. ~Busy /\ ~Busy' /\ UNCHANGED <<npc, cur, disk, lost>>
      BY <2>1 DEF RecvTest, Finish, Busy, nvars
    <3>2. \A x \in Nodes : Settled(x)' = Settled(x)
      BY <3>1 DEF Settled, Own
    <3> QED BY <1>1, <1>2, <3>1, <3>2, CrdIdle
  <2>2. ASSUME NEW p, NEW v, NEW c, StartStripe(p, v, c) PROVE CrdFlow'
    BY <1>1, <1>2, <2>2, CrdStart
  <2>3. CASE SendCmd
    BY <1>1, <1>2, <2>3, FlowSendCmd, CrdSendCmd
  <2>4. CASE RecvAck
    BY <1>1, <2>4, CrdRecvAck
  <2> QED BY <1>4, <2>1, <2>2, <2>3, <2>4 DEF CoordinatorStep
<1>5. ASSUME NEW n \in Nodes, NodeStep(n) \/ OverreadFault(n)
      PROVE  CrdFlow'
  <2>1. CASE StartHelper(n)
    <3>1. /\ npc[n] = "off" /\ npc' = [npc EXCEPT ![n] = "idle"]
          /\ UNCHANGED <<cpc, cur, disk, lost>>
      BY <2>1 DEF StartHelper
    <3>2. ~Busy /\ ~Busy'
      BY <3>1 DEF IInv, StartInv, Busy
    <3>3. ASSUME NEW x \in Nodes PROVE Settled(x)' = Settled(x)
      <4>1. npc'[x] = IF x = n THEN "idle" ELSE npc[x]
        BY <3>1 DEF IInv, TypeOK
      <4> QED BY <3>1, <4>1 DEF Settled, Own
    <3> QED BY <1>1, <1>2, <3>1, <3>2, <3>3, CrdIdle
  <2>2. CASE TakeCmd(n)
    BY <1>1, <1>2, <2>2, FlowTakeCmd, CrdTakeCmd
  <2>3. CASE Handle(n)
    BY <1>1, <2>3, CrdHandle
  <2>4. CASE OverreadFault(n)
    <3>1. /\ cur[n].task = 4 /\ npc[n] = "send" /\ npc' = [npc EXCEPT ![n] = "exit"]
          /\ UNCHANGED <<cpc, stripe, job, sent, cmds, queue, cur, buf, pi, sj>>
      BY <2>4 DEF OverreadFault, cvars
    <3>2. SentSame
      BY <3>1, FlowMove
    <3> QED BY <1>1, <1>2, <2>4, <3>2, CrdFault
  <2> QED BY <1>5, <2>1, <2>2, <2>3, <2>4 DEF NodeStep
<1>6. CASE Terminated
  BY <1>3, <1>6 DEF Terminated
<1> QED BY <1>3, <1>4, <1>5, <1>6 DEF Next
-----------------------------------------------------------------------------
(* The theorems. *)

\* In every reachable state there are data blocks that every parity block
\* encodes, with or without the stripe at work, and every data block, list and
\* buffer holds what that stripe makes of them.
THEOREM CrdFlowInductive == Spec => []CrdFlow
<1>1. Init => CrdFlow
  BY CrdInit
<1>2. IInv /\ IInv' /\ FlowInv /\ FlowInv' /\ CrdFlow /\ [Next]_vars => CrdFlow'
  BY NextCrd
<1> QED BY <1>1, <1>2, Inductive, FlowInductive, PTL DEF Spec

\* Whenever every UPNode is back in doProcess, every parity block encodes the
\* data blocks on disk, whatever stripes have been updated and in whatever order
\* deltas, slices, writes and acks happened, except for the units that LeftOut
\* accounts for (a hull with a gap under CRD, and everything raid and delta
\* get wrong).
THEOREM ParitiesMatchData == Spec => []CrdConsistent
<1>1. CrdFlow => CrdConsistent
  <2> SUFFICES ASSUME CrdFlow, Quiescent, NEW p \in ParityNodes, NEW u \in Units,
                      <<p, u>> \notin lost
               PROVE  disk[p][u] = EncodedData(p)[u]
    BY DEF CrdConsistent
  <2>1. PICK b \in Bases : CrdInv(b)
    BY DEF CrdFlow
  <2>2. ~Crd /\ \A n \in Nodes : npc[n] = "idle"
    BY DEF Quiescent, Crd, Busy
  <2>3. disk[p][u] = Encoded(b, p)[u]
    BY <2>1, <2>2, PlainIs
  <2>4. ASSUME NEW d \in DataNodes PROVE disk[d] = b[d]
    <3>1. npc[d] # "write"
      BY <2>2, NodeFacts
    <3> QED BY <2>1, <2>2, <3>1, PlainIs DEF Settled
  <2>5. EncodedData(p)[u] = UNION {Encode(p - ecK, disk[d][u]) : d \in DataNodes}
    BY DEF EncodedData
  <2>6. Encoded(b, p)[u] = UNION {Encode(p - ecK, b[d][u]) : d \in DataNodes}
    BY DEF Encoded
  <2> QED BY <2>3, <2>4, <2>5, <2>6
<1> QED BY <1>1, CrdFlowInductive, PTL
=============================================================================
