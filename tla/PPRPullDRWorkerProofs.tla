----------------------- MODULE PPRPullDRWorkerProofs -----------------------
(***************************************************************************)
(* Machine-checked facts about PPRPullDRWorker, for any number of requests,*)
(* nodes, helpers and packets.                                             *)
(*                                                                         *)
(* The first half is about the tree.  getChildrenIndices and getID invert  *)
(* PPRnextIP (TreeAgrees), and what a node hands on is its own packet and  *)
(* the disjoint sums of its children (SubTrees).  Both rest on where the   *)
(* node numbers lie between the multiples of the powers of two.            *)
(*                                                                         *)
(* The second half is the inductive invariant PprInv.  On a node the main  *)
(* thread is behind every puller and the pullers behind the reader, so a   *)
(* packet that is sent has been read and has every child's sum in it, once *)
(* (NodeInv).  The list between a node and its parent holds the sums from  *)
(* the next the parent takes up to the last the node sent (ListInv); that  *)
(* the two count the same request is what the order of the commands gives  *)
(* (CmdsInv).  Missed notifications only hold steps back.                  *)
(***************************************************************************)
EXTENDS PPRPullDRWorker, DataInduction

Top == Power[MaxEcK]

\* b divides m.
Divides(b, m) == \E q \in Nat : m = b * q

-----------------------------------------------------------------------------
(* Powers of two. *)

LEMMA PowerDef ==
    /\ Power \in [0..MaxEcK -> Nat \ {0}]
    /\ \A k \in 0..MaxEcK : Power[k] = IF k = 0 THEN 1 ELSE 2 * Power[k - 1]
<1> DEFINE V == Nat \ {0}
           D == 0..MaxEcK
           one == 1
           step == [x \in D \X V |-> 2 * x[2]]
           Body(F) == [k \in 0..MaxEcK |-> IF k = 0 THEN 1 ELSE 2 * F[k - 1]]
<1>0. MaxEcK \in Nat
  BY MaxEcKAssumption
<1>1. step \in [D \X V -> V] /\ one \in V /\ D = 0..MaxEcK
  OBVIOUS
<1>2. PICK F : IsCounted(F, D, V, one, step)
  <2> HIDE DEF V, D, one, step
  <2> QED BY <1>0, <1>1, CountingRecursion
<1>3. F \in [D -> V] /\ \A k \in D : F[k] = IF k = 0 THEN one ELSE step[<<k, F[k - 1]>>]
  BY <1>2 DEF IsCounted
<1>4. \A k \in D : F[k] = IF k = 0 THEN 1 ELSE 2 * F[k - 1]
  <2>1. ASSUME NEW k \in D, k # 0 PROVE F[k] = 2 * F[k - 1]
    <3>1. k - 1 \in D
      BY <1>0, <2>1
    <3>2. F[k - 1] \in V
      BY <1>3, <3>1
    <3> QED BY <1>3, <2>1, <3>2
  <2> QED BY <1>3, <2>1
<1>5. F = Body(F)
  BY <1>3, <1>4
<1>6. Power = CHOOSE G : G = Body(G)
  BY DEF Power
<1>7. Power = Body(Power)
  <2> HIDE DEF Body
  <2> QED BY <1>5, <1>6
<1>8. \A k \in D : Power[k] = IF k = 0 THEN 1 ELSE 2 * Power[k - 1]
  BY <1>7
<1> DEFINE S == {k \in Nat : k <= MaxEcK => Power[k] \in V}
<1>9. 0 \in S
  BY <1>0, <1>8
<1>10. ASSUME NEW k \in Nat, k \in S PROVE k + 1 \in S
  <2>1. SUFFICES ASSUME k + 1 <= MaxEcK PROVE Power[k + 1] \in V
    BY SMTT(40)
  <2>2. Power[k] \in V
    BY <1>0, <1>10, <2>1
  <2>3. Power[k + 1] = 2 * Power[k]
    BY <1>0, <1>8, <2>1
  <2> QED BY <2>2, <2>3
<1>11. Nat \subseteq S
  <2> HIDE DEF S
  <2> QED BY <1>9, <1>10, SetInduction
<1>12. \A k \in D : Power[k] \in V
  BY <1>0, <1>11
<1>13. Power = [k \in D |-> Power[k]]
  BY <1>7
<1> QED BY <1>8, <1>12, <1>13

\* A later power is a multiple of an earlier one.
LEMMA PowerMultiple ==
    ASSUME NEW i \in 0..MaxEcK, NEW j \in 0..MaxEcK, i <= j
    PROVE  \E q \in Nat \ {0} : Power[j] = Power[i] * q
<1> DEFINE Mul(k) == \E q \in Nat \ {0} : Power[k] = Power[i] * q
           S == {e \in Nat : i + e <= MaxEcK => Mul(i + e)}
<1>0. MaxEcK \in Nat /\ i \in Nat
  BY MaxEcKAssumption
<1>1. 0 \in S
  <2>1. Power[i] \in Nat /\ Power[i] = Power[i] * 1 /\ i + 0 = i
    BY <1>0, PowerDef
  <2>2. Mul(i)
    BY <2>1
  <2> QED BY <1>0, <2>1, <2>2
<1>2. ASSUME NEW e \in Nat, e \in S PROVE e + 1 \in S
  <2>1. SUFFICES ASSUME i + (e + 1) <= MaxEcK PROVE Mul(i + (e + 1))
    OBVIOUS
  <2>2. i + e \in 0..MaxEcK /\ i + (e + 1) \in 0..MaxEcK /\ i + (e + 1) # 0
        /\ (i + (e + 1)) - 1 = i + e
    BY <1>0, <2>1
  <2>3. PICK q \in Nat \ {0} : Power[i + e] = Power[i] * q
    BY <1>2, <2>2
  <2>4. Power[i + (e + 1)] = 2 * Power[i + e]
    BY <2>2, PowerDef
  <2>5. 2 * (Power[i] * q) = Power[i] * (2 * q)
    <3>1. Power[i] \in Nat
      BY PowerDef
    <3> QED BY <3>1
  <2> QED BY <2>3, <2>4, <2>5
<1>3. Nat \subseteq S
  <2> HIDE DEF S
  <2> QED BY <1>1, <1>2, SetInduction
<1>4. j - i \in Nat /\ i + (j - i) = j /\ j <= MaxEcK
  BY <1>0
<1>5. Mul(i + (j - i))
  <2> HIDE DEF Mul
  <2> QED BY <1>3, <1>4
<1> QED BY <1>4, <1>5

LEMMA PowersFacts ==
    /\ Powers \subseteq Nat \ {0} /\ 1 \in Powers /\ Top \in Powers /\ MaxEcK < Top
    /\ \A b \in Powers : b <= Top /\ (b # Top => 2 * b \in Powers)
    /\ \A b \in Powers : b # 1 => \E h \in Powers : b = 2 * h
    /\ \A b, c \in Powers : b < c => \E q \in Nat \ {0} : c = (2 * b) * q
<1> DEFINE D == 0..MaxEcK
<1>0. MaxEcK \in Nat /\ 0 \in D /\ MaxEcK \in D
  BY MaxEcKAssumption
<1>1. /\ \A k \in D : Power[k] \in Nat \ {0} /\ Power[k] \in Powers
      /\ \A b \in Powers : \E k \in D : b = Power[k]
  BY PowerDef DEF Powers
<1>2. Powers \subseteq Nat \ {0} /\ 1 \in Powers /\ Top \in Powers
  <2>1. Power[0] = 1
    BY <1>0, PowerDef
  <2> QED BY <1>0, <1>1, <2>1 DEF Top
<1>3. MaxEcK < Top
  <2> DEFINE S == {k \in Nat : k <= MaxEcK => k < Power[k]}
  <2>1. 0 \in S
    BY <1>0, PowerDef
  <2>2. ASSUME NEW k \in Nat, k \in S PROVE k + 1 \in S
    <3>1. SUFFICES ASSUME k + 1 <= MaxEcK PROVE k + 1 < Power[k + 1]
      BY SMTT(40)
    <3>2. k < Power[k] /\ k \in D /\ k + 1 \in D /\ k + 1 # 0 /\ (k + 1) - 1 = k
      BY <1>0, <2>2, <3>1
    <3>3. Power[k + 1] = 2 * Power[k] /\ Power[k] \in Nat
      BY <3>2, PowerDef
    <3> QED BY <3>2, <3>3
  <2>3. Nat \subseteq S
    <3> HIDE DEF S
    <3> QED BY <2>1, <2>2, SetInduction
  <2> QED BY <1>0, <2>3 DEF Top
<1>4. ASSUME NEW i \in D, NEW j \in D, i <= j PROVE Power[i] <= Power[j]
  <2>1. PICK q \in Nat \ {0} : Power[j] = Power[i] * q
    BY <1>4, PowerMultiple
  <2>2. PICK b \in Nat : b = Power[i]
    BY <1>1
  <2>3. b <= b * q
    <3>1. PICK e \in Nat : q = e + 1
      BY q - 1 \in Nat /\ q = (q - 1) + 1
    <3>2. b * q = b * e + b /\ b * e \in Nat
      BY <3>1
    <3> QED BY <3>2
  <2> QED BY <2>1, <2>2, <2>3
<1>5. ASSUME NEW b \in Powers PROVE b <= Top /\ (b # Top => 2 * b \in Powers)
  <2>1. PICK k \in D : b = Power[k]
    BY <1>1
  <2>2. b <= Top
    BY <1>0, <1>4, <2>1 DEF Top
  <2>3. ASSUME b # Top PROVE 2 * b \in Powers
    <3>1. k + 1 \in D /\ k + 1 # 0 /\ (k + 1) - 1 = k
      BY <1>0, <2>1, <2>3 DEF Top
    <3>2. Power[k + 1] = 2 * b
      BY <2>1, <3>1, PowerDef
    <3> QED BY <1>1, <3>1, <3>2
  <2> QED BY <2>2, <2>3
<1>6. ASSUME NEW b \in Powers, b # 1 PROVE \E h \in Powers : b = 2 * h
  <2>1. PICK k \in D : b = Power[k]
    BY <1>1
  <2>2. k # 0 /\ k - 1 \in D
    BY <1>0, <1>6, <2>1, PowerDef
  <2> QED BY <1>1, <2>1, <2>2, PowerDef
<1>7. ASSUME NEW b \in Powers, NEW c \in Powers, b < c
      PROVE  \E q \in Nat \ {0} : c = (2 * b) * q
  <2>1. PICK i \in D, j \in D : b = Power[i] /\ c = Power[j]
    BY <1>1
  <2>2. b \in Nat /\ c \in Nat
    BY <1>2
  <2>3. i < j
    <3>1. i \in Nat /\ j \in Nat
      BY <1>0
    <3>2. j <= i => c <= b
      BY <1>4, <2>1
    <3> QED BY <1>7, <2>2, <3>1, <3>2
  <2>4. i + 1 \in D /\ i + 1 <= j /\ i + 1 # 0 /\ (i + 1) - 1 = i
    BY <1>0, <2>3
  <2>5. Power[i + 1] = 2 * b
    BY <2>1, <2>4, PowerDef
  <2> QED BY <2>1, <2>4, <2>5, PowerMultiple
<1> QED BY <1>2, <1>3, <1>5, <1>6, <1>7

-----------------------------------------------------------------------------
(* The lowest bit of a place. *)

LEMMA DividesMod ==
    ASSUME NEW b \in Nat \ {0}, NEW m \in Nat
    PROVE  (m % b = 0) <=> Divides(b, m)
<1>1. ASSUME m % b = 0 PROVE Divides(b, m)
  <2>1. m \div b \in Nat /\ m = b * (m \div b)
    BY <1>1
  <2> QED BY <2>1 DEF Divides
<1>2. ASSUME NEW q \in Nat, m = b * q PROVE m % b = 0
  BY <1>2
<1> QED BY <1>1, <1>2 DEF Divides

LEMMA MaxOK ==
    ASSUME NEW S, S \subseteq Nat, S # {}, NEW top \in Nat, \A y \in S : y <= top
    PROVE  Max(S) \in S /\ \A y \in S : y <= Max(S)
<1> DEFINE T == {top - y : y \in S}
<1>1. T \subseteq Nat /\ T # {}
  <2>1. \A y \in S : top - y \in Nat
    OBVIOUS
  <2> QED BY <2>1
<1>2. PICK t \in T : \A u \in T : t <= u
  <2> HIDE DEF T
  <2> QED BY <1>1, LeastNat
<1>3. PICK x \in S : t = top - x
  BY <1>2
<1>4. \A y \in S : x >= y
  <2> SUFFICES ASSUME NEW y \in S PROVE x >= y
    OBVIOUS
  <2>1. top - x <= top - y
    BY <1>2, <1>3
  <2> QED BY <2>1
<1> QED BY <1>4 DEF Max

\* The places are numbers below the last power of two.
LEMMA PlaceOK ==
    ASSUME NEW m \in Places
    PROVE  /\ m \in Nat \ {0} /\ m <= Top /\ Top \in Nat \ {0}
           /\ \A b \in Powers : b \in Nat \ {0}
<1>1. Top \in Nat \ {0} /\ \A b \in Powers : b \in Nat \ {0}
  BY PowersFacts
<1> QED BY <1>1 DEF Places, Top

LEMMA LowBitOK ==
    ASSUME NEW m \in Places
    PROVE  /\ LowBit(m) \in Powers /\ Divides(LowBit(m), m)
           /\ \A c \in Powers : Divides(c, m) => c <= LowBit(m)
<1> DEFINE S == {b \in Powers : m % b = 0}
<1>1. m \in Nat /\ Powers \subseteq Nat \ {0} /\ 1 \in Powers /\ Top \in Nat
      /\ \A b \in Powers : b <= Top
  BY PowersFacts, PlaceOK
<1>2. 1 \in S
  BY <1>1
<1>3. \A b \in Powers : b \in S <=> Divides(b, m)
  <2>1. ASSUME NEW b \in Powers PROVE (m % b = 0) <=> Divides(b, m)
    BY <1>1, DividesMod
  <2> QED BY <2>1
<1>4. S \subseteq Powers /\ S \subseteq Nat /\ S # {} /\ \A y \in S : y <= Top
  BY <1>1, <1>2
<1>5. LowBit(m) = Max(S)
  BY DEF LowBit
<1> HIDE DEF S
<1>6. Max(S) \in S /\ \A y \in S : y <= Max(S)
  BY <1>1, <1>4, MaxOK
<1> QED BY <1>3, <1>4, <1>5, <1>6

\* Products with the same positive factor compare as the other factors do.
LEMMA Cancel ==
    ASSUME NEW b \in Nat \ {0}, NEW x \in Int, NEW y \in Int
    PROVE  (b * x < b * y <=> x < y) /\ (b * x = b * y <=> x = y)
<1>1. ASSUME NEW v \in Int, NEW w \in Int, v < w PROVE b * v < b * w
  <2>1. PICK e \in Nat : w = v + e + 1
    <3>1. w - v - 1 \in Nat /\ w = v + (w - v - 1) + 1
      BY <1>1
    <3> QED BY <3>1
  <2>2. b * w = b * v + b * e + b
    BY <2>1
  <2>3. b * e \in Nat /\ b * v \in Int
    BY <2>1
  <2> QED BY <2>2, <2>3
<1>2. b * x \in Int /\ b * y \in Int
  OBVIOUS
<1>3. CASE x < y
  BY <1>1, <1>2, <1>3
<1>4. CASE y < x
  BY <1>1, <1>2, <1>4
<1>5. CASE x = y
  BY <1>2, <1>5
<1> QED BY <1>3, <1>4, <1>5

\* A place is an odd multiple of its lowest bit ...
LEMMA OddPart ==
    ASSUME NEW m \in Places
    PROVE  \E t \in Nat : m = LowBit(m) * (2 * t + 1)
<1>1. PICK b : b = LowBit(m)
  OBVIOUS
<1>2. /\ b \in Powers /\ b \in Nat \ {0} /\ m \in Nat /\ 1 <= m /\ m <= Top /\ Top \in Nat \ {0}
      /\ \A c \in Powers : Divides(c, m) => c <= b
  BY <1>1, LowBitOK, PlaceOK
<1>3. PICK q \in Nat : m = b * q
  BY <1>1, LowBitOK DEF Divides
<1>4. ASSUME NEW r \in Nat, q = 2 * r PROVE FALSE
  <2>1. m = (2 * b) * r
    BY <1>2, <1>3, <1>4
  <2>2. CASE b # Top
    <3>1. 2 * b \in Powers /\ Divides(2 * b, m)
      BY <1>2, <2>1, <2>2, PowersFacts DEF Divides
    <3> QED BY <1>2, <3>1
  <2>3. CASE b = Top
    <3>1. r # 0
      BY <1>2, <2>1
    <3>2. b * 1 < b * (2 * r)
      BY <1>2, <3>1, Cancel
    <3> QED BY <1>2, <1>3, <1>4, <2>3, <3>2
  <2> QED BY <2>2, <2>3
<1>5. PICK t \in Nat : q = 2 * t \/ q = 2 * t + 1
  BY q \div 2 \in Nat
<1> QED BY <1>1, <1>3, <1>4, <1>5

\* ... and of no other power.
LEMMA LowBitIs ==
    ASSUME NEW m \in Places, NEW b \in Powers, NEW t \in Nat, m = b * (2 * t + 1)
    PROVE  LowBit(m) = b
<1>1. PICK L : L = LowBit(m)
  OBVIOUS
<1>2. L \in Powers /\ L \in Nat \ {0} /\ b \in Nat \ {0} /\ m \in Nat
  BY <1>1, LowBitOK, PlaceOK
<1>3. b <= L
  <2>1. Divides(b, m)
    <3>1. 2 * t + 1 \in Nat
      OBVIOUS
    <3> QED BY <3>1 DEF Divides
  <2> QED BY <1>1, <2>1, LowBitOK
<1>4. ASSUME b < L PROVE FALSE
  <2>1. PICK q \in Nat : L = (2 * b) * q
    <3>1. \E q \in Nat \ {0} : L = (2 * b) * q
      BY <1>2, <1>4, PowersFacts
    <3> QED BY <3>1
  <2>2. PICK s \in Nat : m = L * s
    BY <1>1, LowBitOK DEF Divides
  <2>3. PICK w \in Nat : w = q * s
    OBVIOUS
  <2>4. m = b * (2 * w)
    <3>1. ((2 * b) * q) * s = b * (2 * (q * s))
      BY <1>2
    <3> QED BY <2>1, <2>2, <2>3, <3>1
  <2>5. 2 * w = 2 * t + 1
    <3>1. 2 * w \in Int /\ 2 * t + 1 \in Int
      OBVIOUS
    <3> QED BY <1>2, <2>4, <3>1, Cancel
  <2> QED BY <2>5
<1> QED BY <1>1, <1>2, <1>3, <1>4

\* The nodes below place m: m - b, b a power of two below its lowest bit.
LEMMA Below ==
    ASSUME NEW m \in Places, NEW b \in Powers, b < LowBit(m)
    PROVE  /\ m - b \in Places /\ m - b < m /\ LowBit(m - b) = b
           /\ 2 * b <= LowBit(m) /\ LowBit(m) <= m
<1>1. PICK L : L = LowBit(m)
  OBVIOUS
<1>2. L \in Powers /\ L \in Nat \ {0} /\ b \in Nat \ {0} /\ m \in Nat \ {0} /\ m <= Top /\ Top \in Nat
  BY <1>1, LowBitOK, PlaceOK
<1>3. PICK t \in Nat : m = L * (2 * t + 1)
  BY <1>1, OddPart
<1>4. PICK q \in Nat \ {0} : L = (2 * b) * q
  BY <1>1, <1>2, PowersFacts
<1>5. PICK w \in Nat : q * (2 * t + 1) = w + 1
  <2>1. q * (2 * t + 1) = q * (2 * t) + q /\ q * (2 * t) \in Nat
    OBVIOUS
  <2>2. q * (2 * t + 1) - 1 \in Nat /\ q * (2 * t + 1) = (q * (2 * t + 1) - 1) + 1
    BY <2>1
  <2> QED BY <2>2
<1>6. m = b * (2 * (w + 1))
  <2>1. ((2 * b) * q) * (2 * t + 1) = b * (2 * (q * (2 * t + 1)))
    BY <1>2
  <2> QED BY <1>3, <1>4, <1>5, <2>1
<1>7. m - b = b * (2 * w + 1) /\ b * (2 * w) \in Nat /\ b * (2 * w + 1) = b * (2 * w) + b
  BY <1>2, <1>6
<1>8. m - b \in Places /\ m - b < m
  <2>1. m - b \in Nat /\ m - b >= 1 /\ m - b <= Top /\ m - b < m
    BY <1>2, <1>7
  <2> QED BY <1>2, <2>1 DEF Places, Top
<1>9. LowBit(m - b) = b
  BY <1>7, <1>8, LowBitIs
<1>10. 2 * b <= L
  <2>1. PICK e \in Nat : q = e + 1
    BY q - 1 \in Nat /\ q = (q - 1) + 1
  <2>2. (2 * b) * q = (2 * b) * e + 2 * b /\ (2 * b) * e \in Nat
    BY <1>2, <2>1
  <2> QED BY <1>2, <1>4, <2>2
<1>11. L <= m
  <2>1. L * (2 * t + 1) = L * (2 * t) + L /\ L * (2 * t) \in Nat
    BY <1>2
  <2> QED BY <1>2, <1>3, <2>1
<1> QED BY <1>1, <1>8, <1>9, <1>10, <1>11

\* What a place adds its lowest bit to: the last place, or one with a higher
\* lowest bit.
LEMMA Above ==
    ASSUME NEW i \in Places
    PROVE  /\ i # Top => i + LowBit(i) \in Places
           /\ i + LowBit(i) \in Places => LowBit(i) < LowBit(i + LowBit(i))
           /\ LowBit(i) \in Nat \ {0} /\ LowBit(i) <= i
<1>1. PICK b : b = LowBit(i)
  OBVIOUS
<1>2. b \in Powers /\ b \in Nat \ {0} /\ i \in Nat \ {0} /\ i <= Top /\ Top \in Nat /\ Top \in Powers
  BY <1>1, LowBitOK, PlaceOK, PowersFacts
<1>3. PICK t \in Nat : i = b * (2 * t + 1)
  BY <1>1, OddPart
<1>4. i = b * (2 * t) + b /\ b * (2 * t) \in Nat /\ i + b = b * (2 * (t + 1))
  BY <1>2, <1>3
<1>5. b <= i
  BY <1>2, <1>4
<1>6. ASSUME i # Top PROVE i + b \in Places
  <2>1. b < Top
    BY <1>2, <1>5, <1>6
  <2>2. PICK q \in Nat : Top = (2 * b) * q
    <3>1. \E q \in Nat \ {0} : Top = (2 * b) * q
      BY <1>2, <2>1, PowersFacts
    <3> QED BY <3>1
  <2>3. Top = b * (2 * q)
    BY <1>2, <2>2
  <2>4. b * (2 * t + 1) < b * (2 * q)
    BY <1>2, <1>3, <1>6, <2>3
  <2>5. 2 * t + 1 < 2 * q
    <3>1. 2 * t + 1 \in Int /\ 2 * q \in Int
      OBVIOUS
    <3> QED BY <1>2, <2>4, <3>1, Cancel
  <2>6. 2 * (t + 1) < 2 * q \/ 2 * (t + 1) = 2 * q
    BY <2>5
  <2>7. b * (2 * (t + 1)) < b * (2 * q) \/ b * (2 * (t + 1)) = b * (2 * q)
    <3>1. 2 * (t + 1) \in Int /\ 2 * q \in Int
      OBVIOUS
    <3> QED BY <1>2, <2>6, <3>1, Cancel
  <2>8. i + b <= Top
    BY <1>2, <1>4, <2>3, <2>7
  <2> QED BY <1>2, <2>8 DEF Places, Top
<1>7. ASSUME i + b \in Places PROVE b < LowBit(i + b)
  <2>1. PICK m, L : m = i + b /\ L = LowBit(m)
    OBVIOUS
  <2>2. m \in Places /\ L \in Powers /\ L \in Nat \ {0}
    BY <1>7, <2>1, LowBitOK, PlaceOK
  <2>3. PICK s \in Nat : m = L * (2 * s + 1)
    BY <2>1, <2>2, OddPart
  <2>4. CASE L = b
    <3>1. b * (2 * s + 1) = b * (2 * (t + 1))
      BY <1>4, <2>1, <2>3, <2>4
    <3>2. 2 * s + 1 = 2 * (t + 1)
      <4>1. 2 * s + 1 \in Int /\ 2 * (t + 1) \in Int
        OBVIOUS
      <4> QED BY <1>2, <3>1, <4>1, Cancel
    <3> QED BY <3>2
  <2>5. CASE L < b
    <3>1. PICK q \in Nat \ {0} : b = (2 * L) * q
      BY <1>2, <2>2, <2>5, PowersFacts
    <3>2. PICK w \in Nat : w = q * (2 * (t + 1))
      OBVIOUS
    <3>3. ((2 * L) * q) * (2 * (t + 1)) = L * (2 * (q * (2 * (t + 1))))
      BY <2>2
    <3>4. L * (2 * s + 1) = L * (2 * w)
      BY <1>4, <2>1, <2>3, <3>1, <3>2, <3>3
    <3>5. 2 * s + 1 = 2 * w
      <4>1. 2 * s + 1 \in Int /\ 2 * w \in Int
        OBVIOUS
      <4> QED BY <2>2, <3>4, <4>1, Cancel
    <3> QED BY <3>5
  <2> QED BY <1>2, <2>1, <2>2, <2>4, <2>5
<1> QED BY <1>1, <1>2, <1>5, <1>6, <1>7

\* The numbers between m - LowBit(m) and m are split into the intervals up to the
\* nodes below m.
LEMMA Split ==
    ASSUME NEW m \in Places, NEW j \in Nat, m - LowBit(m) < j, j < m
    PROVE  \E b \in Powers : b < LowBit(m) /\ m - 2 * b < j /\ j <= m - b
<1>1. PICK L, d : L = LowBit(m) /\ d = m - j
  OBVIOUS
<1>2. L \in Powers /\ L \in Nat \ {0} /\ m \in Nat \ {0} /\ L <= Top /\ Top \in Nat
      /\ d \in Nat /\ 1 <= d /\ d < L
  <2>1. L \in Powers /\ L \in Nat \ {0} /\ m \in Nat \ {0} /\ Top \in Nat
    BY <1>1, LowBitOK, PlaceOK
  <2>2. L <= Top
    BY <2>1, PowersFacts
  <2> QED BY <1>1, <2>1, <2>2
<1> DEFINE S == {b \in Powers : b <= d}
<1>3. S \subseteq Nat /\ S # {} /\ \A y \in S : y <= d
  BY <1>2, PowersFacts
<1>4. Max(S) \in S /\ \A y \in S : y <= Max(S)
  <2> HIDE DEF S
  <2> QED BY <1>2, <1>3, MaxOK
<1>5. PICK b : b = Max(S)
  OBVIOUS
<1>6. b \in Powers /\ b \in Nat \ {0} /\ b <= d /\ \A y \in Powers : y <= d => y <= b
  <2>1. b \in S /\ \A y \in S : y <= b
    BY <1>4, <1>5
  <2> QED BY <2>1, PlaceOK
<1>7. 2 * b \in Powers
  <2>1. b # Top
    BY <1>2, <1>6
  <2> QED BY <1>6, <2>1, PowersFacts
<1>8. d < 2 * b
  BY <1>2, <1>6, <1>7
<1>9. b < L /\ m - 2 * b < j /\ j <= m - b
  BY <1>1, <1>2, <1>6, <1>8
<1> QED BY <1>1, <1>6, <1>9

-----------------------------------------------------------------------------
(* The tree: whom a node waits for, and whose blocks its sum holds. *)

Up(i) == i + LowBit(i)

\* The intervals of the nodes below a place end before it.
LEMMA Nested ==
    ASSUME NEW m \in Places, NEW j \in Nat, m - LowBit(m) < j, j < m
    PROVE  j \in Places /\ Up(j) <= m
<1> DEFINE mu == [k \in Places |-> k]
           Fits(k) == \A i \in Nat : k - LowBit(k) < i /\ i < k => i \in Places /\ Up(i) <= k
           S == {k \in Places : Fits(k)}
<1>1. mu \in [Places -> Nat]
  BY PlaceOK
<1>2. ASSUME NEW k \in Places, \A n \in Places : mu[n] < mu[k] => n \in S
      PROVE  k \in S
  <2>1. SUFFICES ASSUME NEW i \in Nat, k - LowBit(k) < i, i < k
                 PROVE  i \in Places /\ Up(i) <= k
    OBVIOUS
  <2>2. PICK b \in Powers : b < LowBit(k) /\ k - 2 * b < i /\ i <= k - b
    BY <2>1, Split
  <2>3. PICK n : n = k - b
    OBVIOUS
  <2>4. n \in Places /\ n < k /\ LowBit(n) = b /\ b \in Nat /\ k \in Nat /\ n \in Nat
    <3>1. n \in Places /\ n < k /\ LowBit(n) = b
      BY <2>2, <2>3, Below
    <3> QED BY <3>1, PlaceOK
  <2>5. CASE i = n
    BY <2>3, <2>4, <2>5 DEF Up
  <2>6. CASE i < n
    <3>1. Fits(n)
      BY <1>2, <2>4
    <3>2. n - LowBit(n) < i
      BY <2>2, <2>3, <2>4
    <3>3. i \in Places /\ Up(i) <= n
      BY <2>6, <3>1, <3>2
    <3>4. Up(i) \in Nat
      <4>1. LowBit(i) \in Nat
        BY <3>3, Above
      <4> QED BY <4>1 DEF Up
    <3> QED BY <2>4, <3>3, <3>4
  <2> QED BY <2>2, <2>3, <2>4, <2>5, <2>6
<1>3. Places \subseteq S
  <2> HIDE DEF mu, S
  <2> QED BY <1>1, <1>2, MeasureInduction
<1>4. Fits(m)
  BY <1>3
<1> QED BY <1>4

\* What getChildrenIndices finds below place m among k helpers.
Kids(m, k) == {i \in 0..(k - 1) : /\ m - LowBit(m) < i + 1 /\ i + 1 < m
                                  /\ Up(i + 1) = m \/ Up(i + 1) > k}
KidsOf(F, m, k) == UNION {IF id <= k THEN {id - 1} ELSE F[id] :
                            id \in {m - b : b \in {b \in Powers : b < LowBit(m)}}}

LEMMA KidsUnfold ==
    ASSUME NEW k \in 1..MaxEcK, NEW m \in Places, NEW F,
           \A n \in Places : n < m => F[n] = Kids(n, k)
    PROVE  KidsOf(F, m, k) = Kids(m, k)
<1>0. k \in Nat /\ k < Top /\ Top \in Nat /\ m \in Nat \ {0}
  BY MaxEcKAssumption, PowersFacts, PlaceOK
<1>1. ASSUME NEW i \in Kids(m, k) PROVE i \in KidsOf(F, m, k)
  <2>1. PICK j : j = i + 1
    OBVIOUS
  <2>2. /\ j \in Nat /\ i \in 0..(k - 1) /\ i = j - 1 /\ j <= k
        /\ m - LowBit(m) < j /\ j < m /\ (Up(j) = m \/ Up(j) > k)
    BY <1>0, <2>1 DEF Kids
  <2>3. PICK b \in Powers : b < LowBit(m) /\ m - 2 * b < j /\ j <= m - b
    BY <2>2, Split
  <2>4. PICK n : n = m - b
    OBVIOUS
  <2>5. n \in Places /\ n < m /\ LowBit(n) = b /\ b \in Nat /\ n \in Nat
    <3>1. n \in Places /\ n < m /\ LowBit(n) = b
      BY <2>3, <2>4, Below
    <3> QED BY <3>1, PlaceOK
  <2>6. n \in {m - c : c \in {c \in Powers : c < LowBit(m)}}
    BY <2>3, <2>4
  <2>7. i \in IF n <= k THEN {n - 1} ELSE F[n]
    <3>1. CASE j = n
      BY <2>2, <3>1
    <3>2. CASE j # n
      <4>1. j < n /\ n - LowBit(n) < j
        BY <2>2, <2>3, <2>4, <2>5, <3>2
      <4>2. Up(j) <= n /\ Up(j) \in Nat
        <5>1. j \in Places /\ Up(j) <= n
          BY <2>2, <2>5, <4>1, Nested
        <5>2. LowBit(j) \in Nat
          BY <5>1, Above
        <5> QED BY <2>2, <5>1, <5>2 DEF Up
      <4>3. Up(j) > k /\ ~(n <= k)
        BY <1>0, <2>2, <2>5, <4>2
      <4>4. i \in Kids(n, k)
        BY <2>1, <2>2, <4>1, <4>3 DEF Kids
      <4> QED BY <2>5, <4>3, <4>4
    <3> QED BY <3>1, <3>2
  <2> QED BY <2>6, <2>7 DEF KidsOf
<1>2. ASSUME NEW i \in KidsOf(F, m, k) PROVE i \in Kids(m, k)
  <2>1. PICK b \in Powers : /\ b < LowBit(m)
                            /\ i \in IF m - b <= k THEN {(m - b) - 1} ELSE F[m - b]
    BY <1>2 DEF KidsOf
  <2>2. PICK n : n = m - b
    OBVIOUS
  <2>3. /\ n \in Places /\ n < m /\ LowBit(n) = b /\ b \in Nat \ {0} /\ n \in Nat \ {0}
        /\ 2 * b <= LowBit(m) /\ LowBit(m) \in Nat
    <3>1. n \in Places /\ n < m /\ LowBit(n) = b /\ 2 * b <= LowBit(m)
      BY <2>1, <2>2, Below
    <3>2. LowBit(m) \in Nat
      BY Above
    <3> QED BY <3>1, <3>2, PlaceOK
  <2>4. CASE n <= k
    <3>1. i = n - 1 /\ i + 1 = n
      BY <2>1, <2>2, <2>3, <2>4
    <3>2. Up(n) = m /\ m - LowBit(m) < n /\ i \in 0..(k - 1)
      BY <1>0, <2>2, <2>3, <2>4, <3>1 DEF Up
    <3> QED BY <2>3, <3>1, <3>2 DEF Kids
  <2>5. CASE ~(n <= k)
    <3>1. i \in Kids(n, k)
      BY <2>1, <2>2, <2>3, <2>5
    <3>2. PICK j : j = i + 1
      OBVIOUS
    <3>3. /\ j \in Nat /\ i \in 0..(k - 1) /\ n - LowBit(n) < j /\ j < n
          /\ Up(j) = n \/ Up(j) > k
      BY <1>0, <3>1, <3>2 DEF Kids
    <3>4. m - LowBit(m) < j /\ j < m /\ Up(j) > k
      BY <1>0, <2>2, <2>3, <2>5, <3>3
    <3> QED BY <3>2, <3>3, <3>4 DEF Kids
  <2> QED BY <2>4, <2>5
<1> QED BY <1>1, <1>2

LEMMA ChildIndices ==
    ASSUME NEW k \in 1..MaxEcK, NEW idx, idx + 1 \in Places
    PROVE  getChildrenIndices(idx, k) = Kids(idx + 1, k)
<1> DEFINE F == [m \in Places |-> Kids(m, k)]
           Body(G) == [m \in Places |->
                         UNION {IF id <= k THEN {id - 1} ELSE G[id] :
                                  id \in {m - b : b \in {b \in Powers : b < LowBit(m)}}}]
           below == CHOOSE G : G = Body(G)
           mu == [m \in Places |-> m]
           S == {m \in Places : below[m] = Kids(m, k)}
<1>1. \A G, m : m \in Places => Body(G)[m] = KidsOf(G, m, k)
  BY DEF KidsOf
<1>2. F = Body(F)
  <2>1. \A m \in Places : Body(F)[m] = Kids(m, k)
    <3> HIDE DEF Body
    <3> SUFFICES ASSUME NEW m \in Places PROVE Body(F)[m] = Kids(m, k)
      OBVIOUS
    <3>1. \A n \in Places : n < m => F[n] = Kids(n, k)
      OBVIOUS
    <3> HIDE DEF F
    <3>2. KidsOf(F, m, k) = Kids(m, k)
      BY <3>1, KidsUnfold
    <3> QED BY <1>1, <3>2
  <2>2. Body(F) = [m \in Places |-> Body(F)[m]]
    OBVIOUS
  <2> HIDE DEF Body
  <2> QED BY <2>1, <2>2
<1>3. below = Body(below)
  <2> HIDE DEF Body, F
  <2> QED BY <1>2
<1>4. mu \in [Places -> Nat]
  BY PlaceOK
<1>5. ASSUME NEW m \in Places, \A n \in Places : mu[n] < mu[m] => n \in S
      PROVE  m \in S
  <2>1. \A n \in Places : n < m => below[n] = Kids(n, k)
    <3> HIDE DEF below
    <3> QED BY <1>5
  <2> HIDE DEF Body, below
  <2>2. KidsOf(below, m, k) = Kids(m, k)
    BY <2>1, KidsUnfold
  <2>3. below[m] = Body(below)[m]
    BY <1>3
  <2> QED BY <1>1, <2>2, <2>3
<1>6. Places \subseteq S
  <2> HIDE DEF mu, S
  <2> QED BY <1>4, <1>5, MeasureInduction
<1>7. getChildrenIndices(idx, k) = below[idx + 1]
  BY DEF getChildrenIndices
<1> HIDE DEF below
<1> QED BY <1>6, <1>7

\* getID ends, at a power of two.
LEMMA RootOK ==
    ASSUME NEW k \in 1..MaxEcK
    PROVE  \E r \in Places : getID(k) = r - 1 /\ k < r /\ LowBit(r) = r
<1> DEFINE V == Places
           T == {m \in V : LowBit(m) = m}
           mu == [m \in V |-> Top - m]
           h == [m \in V |-> IF LowBit(m) = m THEN m ELSE m + LowBit(m)]
           b == [m \in V |-> m]
           c == [x \in V \X V |-> x[2]]
           Body(G) == [m \in Places |-> IF LowBit(m) = m THEN m ELSE G[m + LowBit(m)]]
           round == CHOOSE G : G = Body(G)
           Ends(m) == \E r \in Places : round[m] = r /\ m <= r /\ LowBit(r) = r
           S == {m \in Places : Ends(m)}
<1>1. ASSUME NEW m \in Places
      PROVE  /\ m \in Nat /\ LowBit(m) \in Nat \ {0} /\ Top - m \in Nat
             /\ LowBit(m) # m => /\ m + LowBit(m) \in Places
                                 /\ m < m + LowBit(m)
                                 /\ Top - (m + LowBit(m)) < Top - m
  <2>1. m \in Nat /\ m <= Top /\ Top \in Nat \ {0} /\ LowBit(m) \in Nat \ {0}
    BY PlaceOK, Above
  <2>2. LowBit(Top) = Top
    <3>1. Top \in Places /\ Top \in Powers
      BY <2>1, PowersFacts DEF Places, Top
    <3>2. Top = Top * (2 * 0 + 1)
      BY <2>1
    <3> QED BY <3>1, <3>2, LowBitIs
  <2>3. ASSUME LowBit(m) # m PROVE m + LowBit(m) \in Places
    BY <2>2, <2>3, Above
  <2> QED BY <2>1, <2>3
<1>2. mu \in [V -> Nat] /\ h \in [V -> V] /\ b \in [V -> V] /\ c \in [V \X V -> V]
  <2>1. \A m \in V : Top - m \in Nat /\ (LowBit(m) # m => m + LowBit(m) \in V)
    BY <1>1
  <2> HIDE DEF V
  <2> QED BY <2>1
<1>3. \A m \in V \ T : mu[h[m]] < mu[m]
  <2> SUFFICES ASSUME NEW m \in V \ T PROVE mu[h[m]] < mu[m]
    OBVIOUS
  <2>1. LowBit(m) # m /\ h[m] = m + LowBit(m)
    OBVIOUS
  <2>2. m + LowBit(m) \in V /\ Top - (m + LowBit(m)) < Top - m
    BY <1>1, <2>1
  <2> QED BY <2>1, <2>2
<1>4. PICK F : IsRecursive(F, V, V, T, h, b, c)
  <2>1. IsDecreasing(V, V, T, mu, h, b, c)
    BY <1>2, <1>3 DEF IsDecreasing
  <2> HIDE DEF V, T, mu, h, b, c
  <2> QED BY <2>1, RecursionExists
<1>5. F \in [V -> V] /\ \A m \in V : F[m] = IF m \in T THEN b[m] ELSE c[<<m, F[h[m]]>>]
  BY <1>4 DEF IsRecursive
<1>6. \A m \in V : F[m] = IF LowBit(m) = m THEN m ELSE F[m + LowBit(m)]
  <2> SUFFICES ASSUME NEW m \in V PROVE F[m] = IF LowBit(m) = m THEN m ELSE F[m + LowBit(m)]
    OBVIOUS
  <2>1. CASE LowBit(m) = m
    BY <1>5, <2>1
  <2>2. CASE LowBit(m) # m
    <3>1. h[m] = m + LowBit(m) /\ h[m] \in V
      BY <1>2, <2>2
    <3>2. F[h[m]] \in V
      BY <1>5, <3>1
    <3> QED BY <1>5, <2>2, <3>1, <3>2
  <2> QED BY <2>1, <2>2
<1>7. F = Body(F)
  BY <1>5, <1>6
<1>8. round = Body(round)
  <2> HIDE DEF Body
  <2> QED BY <1>7
<1>9. \A m \in V : round[m] = IF LowBit(m) = m THEN m ELSE round[m + LowBit(m)]
  <2>1. \A m \in V : Body(round)[m] = IF LowBit(m) = m THEN m ELSE round[m + LowBit(m)]
    <3> HIDE DEF round
    <3> QED OBVIOUS
  <2> HIDE DEF round, Body
  <2> QED BY <1>8, <2>1
<1> HIDE DEF round
<1>10. ASSUME NEW m \in V, \A n \in V : mu[n] < mu[m] => n \in S PROVE m \in S
  <2>1. CASE LowBit(m) = m
    BY <1>1, <1>9, <2>1
  <2>2. CASE LowBit(m) # m
    <3>1. PICK n : n = m + LowBit(m)
      OBVIOUS
    <3>2. n \in V /\ m < n /\ mu[n] < mu[m] /\ round[m] = round[n]
      BY <1>1, <1>9, <2>2, <3>1
    <3>3. Ends(n)
      BY <1>10, <3>2
    <3>4. PICK r \in Places : round[n] = r /\ n <= r /\ LowBit(r) = r
      BY <3>3
    <3>5. m <= r
      BY <1>1, <3>2, <3>4, PlaceOK
    <3> QED BY <3>2, <3>4, <3>5
  <2> QED BY <2>1, <2>2
<1>11. V \subseteq S
  <2> HIDE DEF V, mu, S
  <2> QED BY <1>2, <1>10, MeasureInduction
<1>12. k + 1 \in Places /\ k \in Nat
  <2>1. k \in Nat /\ k <= MaxEcK /\ MaxEcK < Top /\ Top \in Nat /\ MaxEcK \in Nat
    BY MaxEcKAssumption, PowersFacts
  <2> QED BY <2>1 DEF Places, Top
<1>13. PICK r \in Places : round[k + 1] = r /\ k + 1 <= r /\ LowBit(r) = r
  <2>1. Ends(k + 1)
    BY <1>11, <1>12
  <2> QED BY <2>1
<1>14. getID(k) = round[k + 1] - 1
  BY DEF getID, round
<1> QED BY <1>12, <1>13, <1>14, PlaceOK

LEMMA HelperPlaces ==
    ASSUME NEW i \in 0..EcK
    PROVE  /\ i \in Nat /\ i + 1 \in Places /\ EcK \in Nat \ {0} /\ EcK \in 1..MaxEcK
           /\ LowBit(i + 1) \in Nat \ {0} /\ LowBit(i + 1) <= i + 1
           /\ Up(i + 1) = (i + 1) + LowBit(i + 1) /\ Up(i + 1) \in Nat
           /\ PPRnextIP(i) = Up(i + 1) - 1
           /\ ParentOf(i, EcK) = IF Up(i + 1) > EcK THEN EcK ELSE Up(i + 1) - 1
<1>1. EcK \in 1..MaxEcK /\ EcK \in Nat \ {0} /\ MaxEcK \in Nat /\ EcK <= MaxEcK
  BY MaxEcKAssumption, PprAssumption
<1>2. i \in Nat /\ i + 1 \in Places
  <2>1. MaxEcK < Top /\ Top \in Nat /\ i \in Nat /\ i <= EcK
    BY <1>1, PowersFacts
  <2> QED BY <1>1, <2>1 DEF Places, Top
<1>3. LowBit(i + 1) \in Nat \ {0} /\ LowBit(i + 1) <= i + 1
  BY <1>2, Above
<1>4. Up(i + 1) = (i + 1) + LowBit(i + 1) /\ Up(i + 1) \in Nat
  BY <1>2, <1>3 DEF Up
<1>5. PPRnextIP(i) = Up(i + 1) - 1
  BY <1>2, <1>3, <1>4 DEF PPRnextIP
<1>6. ParentOf(i, EcK) = IF Up(i + 1) > EcK THEN EcK ELSE Up(i + 1) - 1
  BY <1>1, <1>4, <1>5 DEF ParentOf
<1> QED BY <1>1, <1>2, <1>3, <1>4, <1>5, <1>6

\* The place a node has in the tree: the requestor's is the root.
LEMMA PlaceInTree ==
    ASSUME NEW id \in 0..EcK
    PROVE  \E m \in Places : /\ ChildrenOf(id, EcK) = Kids(m, EcK)
                             /\ id < EcK => m = id + 1
                             /\ id = EcK => LowBit(m) = m /\ EcK < m
<1>1. EcK \in 1..MaxEcK /\ EcK \in Nat /\ id \in Nat /\ id + 1 \in Places
  BY HelperPlaces
<1>2. CASE id < EcK
  <2>1. ChildrenOf(id, EcK) = Kids(id + 1, EcK)
    BY <1>1, <1>2, ChildIndices DEF ChildrenOf
  <2> QED BY <1>1, <1>2, <2>1
<1>3. CASE ~(id < EcK)
  <2>1. id = EcK
    BY <1>1, <1>3
  <2>2. PICK r \in Places : getID(EcK) = r - 1 /\ EcK < r /\ LowBit(r) = r
    BY <1>1, RootOK
  <2>3. (r - 1) + 1 = r
    BY PlaceOK
  <2>4. ChildrenOf(id, EcK) = getChildrenIndices(r - 1, EcK)
    BY <1>3, <2>1, <2>2 DEF ChildrenOf
  <2>5. getChildrenIndices(r - 1, EcK) = Kids(r, EcK)
    <3>1. (r - 1) + 1 \in Places
      BY <2>3
    <3>2. getChildrenIndices(r - 1, EcK) = Kids((r - 1) + 1, EcK)
      BY <1>1, <3>1, ChildIndices
    <3> QED BY <2>3, <3>2
  <2> QED BY <1>1, <1>3, <2>1, <2>2, <2>4, <2>5
<1> QED BY <1>2, <1>3

\* A node of PPRPullDRWorker waits for exactly the helpers that push their sums
\* to it: getChildrenIndices, with getID for the requestor, inverts PPRnextIP,
\* whatever the number of helpers.
THEOREM TreeAgrees ==
    ASSUME NEW id \in 0..EcK
    PROVE  ChildrenOf(id, EcK) = {i \in 0..(EcK - 1) : ParentOf(i, EcK) = id}
<1>1. EcK \in Nat \ {0} /\ id \in Nat
  BY HelperPlaces
<1>2. PICK m \in Places : /\ ChildrenOf(id, EcK) = Kids(m, EcK)
                          /\ id < EcK => m = id + 1
                          /\ id = EcK => LowBit(m) = m /\ EcK < m
  BY PlaceInTree
<1>3. m \in Nat \ {0} /\ LowBit(m) \in Nat
  BY PlaceOK, Above
<1>4. ASSUME NEW i \in 0..(EcK - 1)
      PROVE  i \in Kids(m, EcK) <=> ParentOf(i, EcK) = id
  <2>1. PICK j, u, l : j = i + 1 /\ u = Up(j) /\ l = LowBit(j)
    OBVIOUS
  <2>2. i \in 0..EcK
    BY <1>1
  <2>3. /\ j \in Nat \ {0} /\ j \in Places /\ l \in Nat \ {0} /\ u = j + l /\ j <= EcK
        /\ ParentOf(i, EcK) = IF u > EcK THEN EcK ELSE u - 1
    BY <1>1, <2>1, <2>2, HelperPlaces
  <2>4. i \in Kids(m, EcK) <=> m - LowBit(m) < j /\ j < m /\ (u = m \/ u > EcK)
    BY <2>1 DEF Kids
  <2>5. CASE id < EcK
    <3>1. m = id + 1 /\ m <= EcK
      BY <1>1, <1>2, <2>5
    <3>2. m - LowBit(m) < j /\ j < m => u <= m
      BY <2>1, <2>3, Nested
    <3>3. u = m => m - LowBit(m) < j /\ j < m
      <4>1. ASSUME u = m PROVE l < LowBit(m)
        <5>1. j + LowBit(j) = m
          BY <2>1, <2>3, <4>1
        <5> QED BY <2>1, <2>3, <5>1, Above
      <4> QED BY <1>3, <2>3, <4>1
    <3> QED BY <1>1, <1>3, <2>3, <2>4, <2>5, <3>1, <3>2, <3>3
  <2>6. CASE ~(id < EcK)
    <3>1. id = EcK /\ LowBit(m) = m /\ EcK < m
      BY <1>1, <1>2, <2>6
    <3> QED BY <1>1, <1>3, <2>3, <2>4, <3>1
  <2> QED BY <2>5, <2>6
<1>5. Kids(m, EcK) \subseteq 0..(EcK - 1)
  BY DEF Kids
<1> QED BY <1>2, <1>4, <1>5

\* The helpers whose packets are in the sum a node hands on.
Sub(id) ==
  {j \in 0..(EcK - 1) : id = EcK \/ (id - LowBit(id + 1) < j /\ j <= id)}
Own(id) == {id} \ {EcK}

\* Every helper below a place is in the sum of one of its children.
LEMMA Covered ==
    ASSUME NEW m \in Places, NEW i \in 0..(EcK - 1), m - LowBit(m) < i + 1, i + 1 < m
    PROVE  \E ch \in Kids(m, EcK) : i \in Sub(ch)
<1> DEFINE mu == [k \in Places |-> k]
           Has(k) == k - LowBit(k) < i + 1 /\ i + 1 < k => \E ch \in Kids(k, EcK) : i \in Sub(ch)
           S == {k \in Places : Has(k)}
<1>1. mu \in [Places -> Nat]
  BY PlaceOK
<1>2. EcK \in Nat \ {0} /\ i \in Nat /\ EcK \in 1..MaxEcK
  BY HelperPlaces, PprAssumption, MaxEcKAssumption
<1>3. ASSUME NEW k \in Places, \A n \in Places : mu[n] < mu[k] => n \in S
      PROVE  k \in S
  <2>1. SUFFICES ASSUME k - LowBit(k) < i + 1, i + 1 < k
                 PROVE  \E ch \in Kids(k, EcK) : i \in Sub(ch)
    OBVIOUS
  <2>2. PICK b \in Powers : b < LowBit(k) /\ k - 2 * b < i + 1 /\ i + 1 <= k - b
    <3>1. i + 1 \in Nat
      BY <1>2
    <3> QED BY <2>1, <3>1, Split
  <2>3. PICK n : n = k - b
    OBVIOUS
  <2>4. /\ n \in Places /\ n < k /\ LowBit(n) = b /\ b \in Nat \ {0} /\ n \in Nat \ {0}
        /\ k \in Nat
    <3>1. n \in Places /\ n < k /\ LowBit(n) = b
      BY <2>2, <2>3, Below
    <3> QED BY <3>1, PlaceOK
  <2>5. \A x : x \in KidsOf([p \in Places |-> Kids(p, EcK)], k, EcK) <=> x \in Kids(k, EcK)
    <3>1. PICK F : F = [p \in Places |-> Kids(p, EcK)]
      OBVIOUS
    <3>2. \A p \in Places : p < k => F[p] = Kids(p, EcK)
      BY <3>1
    <3>3. KidsOf(F, k, EcK) = Kids(k, EcK)
      BY <1>2, <3>2, KidsUnfold
    <3> QED BY <3>1, <3>3
  <2>6. \A x : x \in (IF n <= EcK THEN {n - 1} ELSE Kids(n, EcK)) => x \in Kids(k, EcK)
    <3>1. PICK F : F = [p \in Places |-> Kids(p, EcK)]
      OBVIOUS
    <3>2. \A x : x \in (IF n <= EcK THEN {n - 1} ELSE F[n]) => x \in KidsOf(F, k, EcK)
      BY <2>2, <2>3 DEF KidsOf
    <3>3. F[n] = Kids(n, EcK)
      BY <2>4, <3>1
    <3> QED BY <2>5, <3>1, <3>2, <3>3
  <2>7. CASE n <= EcK
    <3>1. n - 1 \in Kids(k, EcK)
      BY <2>6, <2>7
    <3>2. i \in Sub(n - 1)
      <4>1. (n - 1) + 1 = n /\ LowBit((n - 1) + 1) = b
        BY <2>4
      <4>2. (n - 1) - b < i /\ i <= n - 1
        BY <1>2, <2>2, <2>3, <2>4
      <4> QED BY <4>1, <4>2 DEF Sub
    <3> QED BY <3>1, <3>2
  <2>8. CASE ~(n <= EcK)
    <3>1. Has(n)
      BY <1>3, <2>4
    <3>2. n - LowBit(n) < i + 1 /\ i + 1 < n
      BY <1>2, <2>2, <2>3, <2>4, <2>8
    <3>3. PICK ch \in Kids(n, EcK) : i \in Sub(ch)
      BY <3>1, <3>2
    <3> QED BY <2>6, <2>8, <3>3
  <2> QED BY <2>7, <2>8
<1>4. Places \subseteq S
  <2> HIDE DEF mu, S
  <2> QED BY <1>1, <1>3, MeasureInduction
<1>5. Has(m)
  BY <1>4
<1> QED BY <1>5

\* A node's sum is its own packet and the sums of its children, which have no
\* helper in common.
LEMMA SubTrees ==
    ASSUME NEW id \in 0..EcK
    PROVE  /\ Sub(id) = Own(id) \cup UNION {Sub(ch) : ch \in ChildrenOf(id, EcK)}
           /\ \A x \in ChildrenOf(id, EcK) : id \notin Sub(x)
           /\ \A x, y \in ChildrenOf(id, EcK) : x # y => Sub(x) \cap Sub(y) = {}
<1>1. EcK \in Nat \ {0} /\ id \in Nat /\ EcK \in 1..MaxEcK
  BY HelperPlaces
<1>2. PICK m \in Places : /\ ChildrenOf(id, EcK) = Kids(m, EcK)
                          /\ id < EcK => m = id + 1
                          /\ id = EcK => LowBit(m) = m /\ EcK < m
  BY PlaceInTree
<1>3. m \in Nat \ {0} /\ LowBit(m) \in Nat \ {0} /\ LowBit(m) <= m
  BY PlaceOK, Above
<1>4. ASSUME NEW i \in 0..(EcK - 1)
      PROVE  i \in Sub(id) <=> i \in Own(id) \/ (m - LowBit(m) < i + 1 /\ i + 1 < m)
  BY <1>1, <1>2, <1>3 DEF Sub, Own
<1>5. ASSUME NEW x \in ChildrenOf(id, EcK)
      PROVE  /\ x \in 0..(EcK - 1) /\ ParentOf(x, EcK) = id
             /\ m - LowBit(m) < x + 1 /\ x + 1 < m /\ x # id
             /\ \A i \in Sub(x) : i \in 0..(EcK - 1) /\ x - LowBit(x + 1) < i /\ i <= x
  BY <1>1, <1>2, TreeAgrees DEF Kids, Sub
<1>6. ASSUME NEW x \in ChildrenOf(id, EcK), NEW i \in Sub(x)
      PROVE  m - LowBit(m) < i + 1 /\ i + 1 < m
  <2>1. PICK j, l : j = x + 1 /\ l = LowBit(j)
    OBVIOUS
  <2>2. x \in 0..EcK /\ i \in Nat /\ x - l < i /\ i <= x /\ m - LowBit(m) < j /\ j < m
    BY <1>1, <1>5, <1>6, <2>1
  <2>3. /\ j \in Nat \ {0} /\ j \in Places /\ l \in Nat \ {0} /\ l <= j /\ Up(j) = j + l
        /\ ParentOf(x, EcK) = IF Up(j) > EcK THEN EcK ELSE Up(j) - 1
    BY <2>1, <2>2, HelperPlaces
  <2>4. CASE id < EcK
    <3>1. j + LowBit(j) = m
      BY <1>1, <1>2, <1>5, <2>1, <2>3, <2>4
    <3>2. l < LowBit(m) /\ l \in Powers
      BY <2>1, <2>3, <3>1, Above, LowBitOK
    <3>3. 2 * l <= LowBit(m)
      BY <3>2, Below
    <3> QED BY <1>3, <2>1, <2>2, <2>3, <3>1, <3>3
  <2>5. CASE ~(id < EcK)
    BY <1>1, <1>2, <1>3, <2>1, <2>2, <2>3, <2>5
  <2> QED BY <2>4, <2>5
<1>7. \A x, y \in ChildrenOf(id, EcK) : x < y => Sub(x) \cap Sub(y) = {}
  <2> SUFFICES ASSUME NEW x \in ChildrenOf(id, EcK), NEW y \in ChildrenOf(id, EcK), x < y,
                      NEW i \in Sub(x), i \in Sub(y)
               PROVE  FALSE
    OBVIOUS
  <2>1. /\ x \in 0..EcK /\ y \in 0..EcK /\ i \in Nat /\ i <= x /\ y - LowBit(y + 1) < i
        /\ ParentOf(x, EcK) = id /\ ParentOf(y, EcK) = id /\ x \in Nat /\ y \in Nat
        /\ x < EcK /\ y < EcK
    BY <1>1, <1>5
  <2>2. /\ y + 1 \in Places /\ LowBit(y + 1) \in Nat \ {0} /\ Up(y + 1) = (y + 1) + LowBit(y + 1)
        /\ Up(x + 1) \in Nat
        /\ ParentOf(x, EcK) = IF Up(x + 1) > EcK THEN EcK ELSE Up(x + 1) - 1
        /\ ParentOf(y, EcK) = IF Up(y + 1) > EcK THEN EcK ELSE Up(y + 1) - 1
    BY <2>1, HelperPlaces
  <2>3. x + 1 \in Nat /\ (y + 1) - LowBit(y + 1) < x + 1 /\ x + 1 < y + 1
    BY <2>1, <2>2
  <2>4. Up(x + 1) <= y + 1
    BY <2>2, <2>3, Nested
  <2> QED BY <1>1, <2>1, <2>2, <2>4
<1>8. \A x, y \in ChildrenOf(id, EcK) : x # y => Sub(x) \cap Sub(y) = {}
  <2>1. \A x \in ChildrenOf(id, EcK) : x \in Nat
    BY <1>1, <1>5
  <2>2. \A x, y \in ChildrenOf(id, EcK) : x # y => x < y \/ y < x
    BY <2>1
  <2> QED BY <1>7, <2>2
<1>9. ASSUME NEW i \in 0..(EcK - 1)
      PROVE  (m - LowBit(m) < i + 1 /\ i + 1 < m) <=> \E x \in ChildrenOf(id, EcK) : i \in Sub(x)
  BY <1>2, <1>6, Covered
<1>10. Own(id) \subseteq 0..(EcK - 1) /\ Sub(id) \subseteq 0..(EcK - 1)
  BY <1>1 DEF Own, Sub
<1>11. Sub(id) = Own(id) \cup UNION {Sub(ch) : ch \in ChildrenOf(id, EcK)}
  <2>1. \A ch \in ChildrenOf(id, EcK) : Sub(ch) \subseteq 0..(EcK - 1)
    BY <1>5
  <2> QED BY <1>4, <1>9, <1>10, <2>1
<1>12. \A x \in ChildrenOf(id, EcK) : id \notin Sub(x)
  <2> SUFFICES ASSUME NEW x \in ChildrenOf(id, EcK), id \in Sub(x) PROVE FALSE
    OBVIOUS
  <2>1. id < EcK
    BY <1>1, <1>5
  <2>2. id + 1 < m
    BY <1>6
  <2> QED BY <1>1, <1>2, <2>1, <2>2
<1> QED BY <1>8, <1>11, <1>12

-----------------------------------------------------------------------------
(* The invariant. *)

Packets == SUBSET (Nodes \X Requests \X Pkts)
Teams == {s \in [Places0 -> Nodes] : \A i, k \in Places0 : s[i] = s[k] => i = k}
Nums == {<<>>} \cup UNION {[X -> 0..PktCnt] : X \in SUBSET (Places0 \cup {Leaf})}

\* The types of the variables the argument needs.
Typed ==
  /\ team \in [Requests -> Teams] /\ cmds \in [Nodes -> Seq(Requests)]
  /\ cur \in [Nodes -> Requests \cup {0}] /\ redis \in [Lists -> Seq(Packets)]
  /\ pkt \in [Nodes -> [Pkts -> Packets]] /\ num \in [Nodes -> Nums]
  /\ toPull \in [Nodes -> Nat] /\ toSend \in [Nodes -> Nat] /\ se \in [Nodes -> Nat]

\* Request c waits in dr_cmds of node n.
Pending(n, c) == \E i \in 1..Len(cmds[n]) : cmds[n][i] = c

\* A node gets the commands of the requests it has a part in, in their order,
\* hence each of them once.
CmdsInv ==
  \A n \in Nodes :
    /\ \A i, k \in 1..Len(cmds[n]) : i < k => cmds[n][i] < cmds[n][k]
    /\ \A i \in 1..Len(cmds[n]) : cur[n] < cmds[n][i]
    /\ \A c \in Requests : cur[n] = c \/ Pending(n, c) => \E i \in Places0 : team[c][i] = n

\* Packet p of request c, summed over the helpers of J.
Sum(c, J, p) == {<<team[c][j], c, p>> : j \in J}

\* The helpers in the buffer of packet p at place id: its own packet once it is
\* read, and the sums of the children that have delivered.
Held(id, p, read, nums) ==
  (IF p < read THEN Own(id) ELSE {})
    \cup UNION {Sub(x) : x \in {x \in ChildrenOf(id, EcK) : p < nums[x]}}

\* The threads of node n at place id of request c: the main thread behind every
\* puller, the pullers behind the reader.
AtWork(n, c, id) ==
  /\ num[n] \in [Pullers(id) -> 0..PktCnt]
  /\ se[n] <= toSend[n] /\ toPull[n] <= PktCnt
  /\ \A x \in Pullers(id) : toSend[n] <= num[n][x] /\ num[n][x] <= toPull[n]
  /\ \A p \in Pkts : pkt[n][p] = Sum(c, Held(id, p, toPull[n], num[n]), p)

NodeInv(n) ==
  /\ \A c \in Requests, id \in Places0 : cur[n] = c /\ team[c][id] = n => AtWork(n, c, id)
  /\ cur[n] = 0 => \A p \in Pkts : pkt[n][p] = {}

\* How many packets of request c node n has pushed, and has fetched from child x:
\* none before it takes the command and all after it has carried it out.
Sent(n, c) == IF cur[n] = c THEN se[n] ELSE IF Pending(n, c) THEN 0 ELSE PktCnt
Fetched(n, c, x) == IF cur[n] = c THEN num[n][x] ELSE IF Pending(n, c) THEN 0 ELSE PktCnt

\* Nobody fetches from the list of the repaired block.
Taken(c, x) == IF x = EcK THEN 0 ELSE Fetched(team[c][ParentOf(x, EcK)], c, x)

\* The list a node pushes to holds its sums from the next its parent fetches up
\* to the last it has sent.
ListInv(c, x) ==
  LET l == redis[WriteList(c, x)] IN
  /\ Taken(c, x) + Len(l) = Sent(team[c][x], c)
  /\ \A k \in 1..Len(l) : l[k] = Sum(c, Sub(x), Taken(c, x) + k - 1)

\* The inductive invariant.
PprInv ==
  /\ Typed /\ CmdsInv
  /\ \A n \in Nodes : NodeInv(n)
  /\ \A c \in Requests, x \in Places0 : ListInv(c, x)

-----------------------------------------------------------------------------
(* Facts the steps have in common. *)

LEMMA Basics ==
    /\ EcK \in Nat \ {0} /\ EcK \in Places0 /\ R \in Nat /\ PktCnt \in Nat \ {0}
    /\ 0 \notin Requests /\ Requests = 1..R /\ Leaf \notin Places0
    /\ \A p \in Pkts : p \in Nat /\ p < PktCnt
    /\ \A i \in Places0 : i \in Nat /\ i <= EcK
BY HelperPlaces, PprAssumption, MaxEcKAssumption DEF Places0, Requests, Pkts, Leaf

\* The nodes of a request.
LEMMA TeamFacts ==
    ASSUME Typed, NEW c \in Requests
    PROVE  /\ \A i \in Places0 : team[c][i] \in Nodes
           /\ \A i, k \in Places0 : team[c][i] = team[c][k] => i = k
<1>1. team[c] \in Teams
  BY DEF Typed
<1> QED BY <1>1 DEF Teams

\* A child and its parent.
LEMMA ChildFacts ==
    ASSUME NEW id \in Places0
    PROVE  /\ ParentOf(id, EcK) \in Places0
           /\ \A x \in ChildrenOf(id, EcK) : /\ x \in Places0 /\ x # EcK /\ ParentOf(x, EcK) = id
                                             /\ x # id
           /\ \A x \in Places0 : x # EcK /\ ParentOf(x, EcK) = id => x \in ChildrenOf(id, EcK)
<1>1. ChildrenOf(id, EcK) = {i \in 0..(EcK - 1) : ParentOf(i, EcK) = id}
  BY TreeAgrees DEF Places0
<1>2. \A x \in 0..(EcK - 1) : x \in Places0 /\ x # EcK
  BY Basics DEF Places0
<1>3. \A x \in Places0 : x # EcK => x \in 0..(EcK - 1)
  BY Basics DEF Places0
<1>4. ASSUME NEW x \in ChildrenOf(id, EcK) PROVE x # id
  <2>1. x \in 0..EcK /\ x \in 0..(EcK - 1)
    BY <1>1, Basics
  <2>2. ParentOf(x, EcK) # x
    BY <2>1, HelperPlaces
  <2> QED BY <1>1, <2>2
<1>5. ParentOf(id, EcK) \in Places0
  <2>1. id \in 0..EcK
    BY DEF Places0
  <2>2. PICK u : u = Up(id + 1)
    OBVIOUS
  <2>3. u = (id + 1) + LowBit(id + 1) /\ id \in Nat /\ LowBit(id + 1) \in Nat \ {0} /\ EcK \in Nat
        /\ ParentOf(id, EcK) = IF u > EcK THEN EcK ELSE u - 1
    BY <2>1, <2>2, HelperPlaces
  <2>4. ParentOf(id, EcK) \in 0..EcK
    BY <2>3
  <2> QED BY <2>4 DEF Places0
<1> QED BY <1>1, <1>2, <1>3, <1>4, <1>5

\* The puller's threads.
LEMMA PullerFacts ==
    ASSUME NEW id \in Places0
    PROVE  /\ Pullers(id) # {} /\ Pullers(id) \subseteq Places0 \cup {Leaf}
           /\ \A x \in Pullers(id) : x # Leaf => x \in ChildrenOf(id, EcK)
           /\ \A x \in ChildrenOf(id, EcK) : x \in Pullers(id)
           /\ Leaf \in Pullers(id) => ChildrenOf(id, EcK) = {}
<1>1. \A x \in ChildrenOf(id, EcK) : x \in Places0 /\ x # Leaf
  BY ChildFacts, Basics
<1> QED BY <1>1 DEF Pullers

\* A parent reads the list its child pushes to; every other list is another one.
LEMMA ListFacts ==
    ASSUME Typed, NEW c \in Requests, NEW x \in Places0
    PROVE  /\ WriteList(c, x) \in Lists
           /\ WriteList(c, EcK) = LostList(team[c][EcK], c)
           /\ \A d, y : c # d \/ x # y => WriteList(c, x) # WriteList(d, y)
           /\ \A id \in Places0 : x \in ChildrenOf(id, EcK) => ReadList(c, id, x) = WriteList(c, x)
<1>1. /\ team[c][x] \in Nodes /\ team[c][EcK] \in Nodes
  BY TeamFacts, Basics
<1>2. WriteList(c, x) \in Lists
  <2>1. \A s \in Nodes : TmpList(s, c, x) \in Lists /\ LostList(s, c) \in Lists
    BY DEF Lists
  <2> QED BY <1>1, <2>1 DEF WriteList
<1>3. PPRnextIP(EcK) >= EcK
  <2>1. PPRnextIP(EcK) = Up(EcK + 1) - 1 /\ Up(EcK + 1) = (EcK + 1) + LowBit(EcK + 1)
        /\ LowBit(EcK + 1) \in Nat /\ EcK \in Nat
    BY HelperPlaces, Basics DEF Places0
  <2> QED BY <2>1
<1>4. WriteList(c, EcK) = LostList(team[c][EcK], c)
  BY <1>3 DEF WriteList
<1>5. ASSUME NEW d, NEW y, c # d \/ x # y PROVE WriteList(c, x) # WriteList(d, y)
  BY <1>5 DEF WriteList, TmpList, LostList
<1>6. ASSUME NEW id \in Places0, x \in ChildrenOf(id, EcK)
      PROVE  ReadList(c, id, x) = WriteList(c, x)
  <2>1. x # EcK /\ ParentOf(x, EcK) = id
    BY <1>6, ChildFacts
  <2>2. PPRnextIP(x) >= EcK => id = EcK
    BY <2>1 DEF ParentOf
  <2>3. ~(PPRnextIP(x) >= EcK) => id # EcK
    <3>1. PPRnextIP(x) = Up(x + 1) - 1 /\ Up(x + 1) \in Nat /\ EcK \in Nat
      BY HelperPlaces, Basics DEF Places0
    <3> QED BY <2>1, <3>1 DEF ParentOf
  <2> QED BY <2>1, <2>2, <2>3 DEF WriteList, ReadList
<1> QED BY <1>2, <1>4, <1>5, <1>6

\* What the parts of the invariant say of a node at work.
LEMMA AtPlace ==
    ASSUME PprInv, NEW n \in Nodes, cur[n] # 0
    PROVE  /\ cur[n] \in Requests /\ Id(n) \in Places0 /\ team[cur[n]][Id(n)] = n
           /\ AtWork(n, cur[n], Id(n))
           /\ \A id \in Places0 : team[cur[n]][id] = n => id = Id(n)
           /\ ~Pending(n, cur[n])
<1>1. Typed /\ CmdsInv /\ NodeInv(n)
  BY DEF PprInv
<1>2. PICK c : c = cur[n]
  OBVIOUS
<1>3. c \in Requests /\ c \in Nat
  BY <1>1, <1>2, Basics DEF Typed
<1>4. \E i \in Places0 : team[c][i] = n
  BY <1>1, <1>2, <1>3 DEF CmdsInv
<1>5. Id(n) = CHOOSE i \in Places0 : team[c][i] = n
  BY <1>2 DEF Id
<1>6. Id(n) \in Places0 /\ team[c][Id(n)] = n
  BY <1>4, <1>5
<1>7. \A id \in Places0 : team[c][id] = n => id = Id(n)
  BY <1>1, <1>3, <1>6, TeamFacts
<1>8. AtWork(n, c, Id(n))
  BY <1>1, <1>2, <1>3, <1>6 DEF NodeInv
<1>9. ~Pending(n, c)
  <2>1. \A i \in 1..Len(cmds[n]) : c < cmds[n][i]
    BY <1>1, <1>2 DEF CmdsInv
  <2>2. ~(c < c)
    BY <1>3
  <2> QED BY <2>1, <2>2 DEF Pending
<1> QED BY <1>2, <1>3, <1>6, <1>7, <1>8, <1>9

\* A packet that is read and that every child has delivered is the whole sum.
LEMMA HeldAll ==
    ASSUME NEW id \in Places0, NEW p, NEW read, NEW nums, p < read,
           \A x \in ChildrenOf(id, EcK) : p < nums[x]
    PROVE  Held(id, p, read, nums) = Sub(id)
<1>1. {x \in ChildrenOf(id, EcK) : p < nums[x]} = ChildrenOf(id, EcK)
  OBVIOUS
<1>2. Sub(id) = Own(id) \cup UNION {Sub(x) : x \in ChildrenOf(id, EcK)}
  BY SubTrees DEF Places0
<1> QED BY <1>1, <1>2 DEF Held

\* The commands when nobody takes or finishes one.
LEMMA CmdsSame ==
    ASSUME PprInv, UNCHANGED <<team, cmds, cur>>
    PROVE  CmdsInv' /\ \A n, c : Pending(n, c)' = Pending(n, c)
<1>1. team' = team /\ cmds' = cmds /\ cur' = cur /\ CmdsInv
  BY DEF PprInv
<1>2. \A n, c : Pending(n, c)' = Pending(n, c)
  BY <1>1 DEF Pending
<1> QED BY <1>1, <1>2 DEF CmdsInv

\* The nodes that take no part in a step.
LEMMA OthersSame ==
    ASSUME PprInv, NEW m \in Nodes, team' = team, cur'[m] = cur[m], pkt'[m] = pkt[m],
           toPull'[m] = toPull[m], toSend'[m] = toSend[m], num'[m] = num[m], se'[m] = se[m]
    PROVE  NodeInv(m)'
<1>1. NodeInv(m)
  BY DEF PprInv
<1>2. \A c, id : AtWork(m, c, id)' = AtWork(m, c, id)
  <2>1. \A c, J, p : Sum(c, J, p)' = Sum(c, J, p)
    BY DEF Sum
  <2>2. \A id, p, read, nums : Held(id, p, read, nums)' = Held(id, p, read, nums)
    BY DEF Held
  <2> QED BY <2>1, <2>2 DEF AtWork
<1> QED BY <1>1, <1>2 DEF NodeInv

\* A list that a step does not push to or pop from, its counters the same.
LEMMA ListSame ==
    ASSUME PprInv, NEW c \in Requests, NEW x \in Places0, team' = team,
           redis'[WriteList(c, x)] = redis[WriteList(c, x)],
           \A m \in Nodes : m = team[c][x] => Sent(m, c)' = Sent(m, c),
           \A m \in Nodes : x # EcK /\ m = team[c][ParentOf(x, EcK)]
                              => Fetched(m, c, x)' = Fetched(m, c, x)
    PROVE  ListInv(c, x)'
<1>1. ListInv(c, x) /\ Typed
  BY DEF PprInv
<1>2. WriteList(c, x)' = WriteList(c, x)
  BY DEF WriteList, TmpList, LostList
<1>3. Taken(c, x)' = Taken(c, x)
  <2>1. CASE x = EcK
    BY <2>1 DEF Taken
  <2>2. CASE x # EcK
    <3>1. ParentOf(x, EcK) \in Places0
      BY ChildFacts
    <3>2. PICK m : m = team[c][ParentOf(x, EcK)]
      OBVIOUS
    <3>3. m \in Nodes
      BY <1>1, <3>1, <3>2, TeamFacts
    <3>4. Fetched(m, c, x)' = Fetched(m, c, x)
      BY <2>2, <3>2, <3>3
    <3>5. Taken(c, x) = Fetched(m, c, x) /\ Taken(c, x)' = Fetched(m, c, x)'
      BY <2>2, <3>2 DEF Taken
    <3> QED BY <3>4, <3>5
  <2> QED BY <2>1, <2>2
<1>4. \A J, p : Sum(c, J, p)' = Sum(c, J, p)
  BY DEF Sum
<1>5. Sent(team[c][x], c)' = Sent(team[c][x], c)
  <2>1. PICK m \in Nodes : m = team[c][x]
    BY <1>1, TeamFacts
  <2>2. Sent(m, c)' = Sent(m, c)
    BY <2>1
  <2>3. Sent(team[c][x], c)' = Sent(m, c)'
    BY <2>1 DEF Sent, Pending
  <2> QED BY <2>1, <2>2, <2>3
<1> QED BY <1>1, <1>2, <1>3, <1>4, <1>5 DEF ListInv

-----------------------------------------------------------------------------
(* The steps. *)

LEMMA InitInv == Init => PprInv
<1> SUFFICES ASSUME Init PROVE PprInv
  OBVIOUS
<1>1. team \in [Requests -> Teams]
  BY DEF Init, Teams
<1>2. /\ \A n \in Nodes : cur[n] = 0 /\ \A p \in Pkts : pkt[n][p] = {}
      /\ \A l \in Lists : redis[l] = <<>>
  BY DEF Init
<1>3. ASSUME NEW n \in Nodes
      PROVE  /\ cmds[n] \in Seq(Requests)
             /\ \A i, k \in 1..Len(cmds[n]) : i < k => cmds[n][i] < cmds[n][k]
             /\ \A c \in Requests : Pending(n, c) <=> \E i \in Places0 : team[c][i] = n
  <2>1. PICK H : H = {c \in Requests : \E i \in Places0 : team[c][i] = n}
    OBVIOUS
  <2>2. H \subseteq 1..R /\ cmds[n] = Queued(R, H)
    BY <2>1 DEF Init, Requests
  <2>3. /\ cmds[n] \in Seq(H)
        /\ \A i, k \in 1..Len(cmds[n]) : i < k => cmds[n][i] < cmds[n][k]
        /\ \A c \in H : \E i \in 1..Len(cmds[n]) : cmds[n][i] = c
    <3>1. /\ Queued(R, H) \in Seq(H)
          /\ \A i, k \in 1..Len(Queued(R, H)) : i < k => Queued(R, H)[i] < Queued(R, H)[k]
          /\ \A c \in H : \E i \in 1..Len(Queued(R, H)) : Queued(R, H)[i] = c
      <4>1. R \in Nat /\ H \subseteq 1..R
        BY <2>2, Basics
      <4> QED BY ZenonT(40), <4>1, QueuedFacts
    <3> QED BY <2>2, <3>1
  <2>4. \A c : Pending(n, c) <=> c \in H
    BY <2>3, ElementOfSeq DEF Pending
  <2>5. cmds[n] \in Seq(Requests)
    <3>1. H \subseteq Requests /\ cmds[n] \in Seq(H)
      BY <2>1, <2>3
    <3> QED BY <3>1
  <2> QED BY <2>1, <2>3, <2>4, <2>5
<1>4. Typed
  <2>1. cmds \in [Nodes -> Seq(Requests)]
    <3>1. cmds = [n \in Nodes |-> cmds[n]]
      BY DEF Init
    <3> QED BY <1>3, <3>1
  <2>2. {} \in Packets /\ <<>> \in Seq(Packets) /\ 0 \in Nat /\ <<>> \in Nums
    BY DEF Packets, Nums
  <2>3. /\ redis \in [Lists -> Seq(Packets)] /\ cur \in [Nodes -> Requests \cup {0}]
        /\ toSend \in [Nodes -> Nat] /\ toPull \in [Nodes -> Nat] /\ se \in [Nodes -> Nat]
        /\ num \in [Nodes -> Nums] /\ pkt \in [Nodes -> [Pkts -> Packets]]
    BY <2>2 DEF Init
  <2> QED BY <1>1, <2>1, <2>3 DEF Typed
<1>5. CmdsInv
  <2>1. ASSUME NEW n \in Nodes, NEW i \in 1..Len(cmds[n]) PROVE cur[n] < cmds[n][i]
    <3>1. cmds[n] \in Seq(Requests)
      BY <1>3
    <3>2. cmds[n][i] \in 1..R
      BY Basics, <3>1, ElementOfSeq
    <3> QED BY Basics, <1>2, <3>2
  <2>2. \A n \in Nodes : \A c \in Requests : cur[n] # c
    BY <1>2, Basics
  <2> QED BY <1>3, <2>1, <2>2 DEF CmdsInv
<1>6. \A n \in Nodes : NodeInv(n)
  BY <1>2, Basics DEF NodeInv
<1>7. ASSUME NEW c \in Requests, NEW x \in Places0 PROVE ListInv(c, x)
  <2>1. \A i \in Places0 : team[c][i] \in Nodes /\ Pending(team[c][i], c) /\ cur[team[c][i]] # c
    BY <1>2, <1>3, <1>4, Basics, TeamFacts
  <2>2. Sent(team[c][x], c) = 0
    BY <2>1 DEF Sent
  <2>3. Taken(c, x) = 0
    <3>1. ParentOf(x, EcK) \in Places0
      BY ChildFacts
    <3> QED BY <2>1, <3>1 DEF Taken, Fetched
  <2>4. redis[WriteList(c, x)] = <<>>
    BY <1>2, <1>4, ListFacts
  <2> QED BY <2>2, <2>3, <2>4 DEF ListInv
<1> QED BY <1>4, <1>5, <1>6, <1>7 DEF PprInv

\* doProcess takes a command: all counters start again.
LEMMA TakeCmdInv == ASSUME PprInv, NEW n \in Nodes, TakeCmd(n) PROVE PprInv'
<1>1. Typed /\ CmdsInv /\ \A m \in Nodes : NodeInv(m)
  BY DEF PprInv
<1>2. PICK d, s, id, fresh : /\ d = Head(cmds[n]) /\ s = cmds[n]
                             /\ id = CHOOSE i \in Places0 : team[d][i] = n
                             /\ fresh = [x \in Pullers(id) |-> 0]
  OBVIOUS
<1>3. /\ cur[n] = 0 /\ s # <<>> /\ s \in Seq(Requests)
      /\ cur' = [cur EXCEPT ![n] = d] /\ cmds' = [cmds EXCEPT ![n] = Tail(s)]
      /\ toPull' = [toPull EXCEPT ![n] = 0] /\ toSend' = [toSend EXCEPT ![n] = 0]
      /\ num' = [num EXCEPT ![n] = fresh] /\ se' = [se EXCEPT ![n] = 0]
      /\ team' = team /\ redis' = redis /\ pkt' = pkt
  BY <1>1, <1>2 DEF TakeCmd, Typed
<1>4. PICK u : u = Tail(s)
  OBVIOUS
<1>5. /\ u \in Seq(Requests) /\ Len(s) \in Nat \ {0} /\ Len(u) = Len(s) - 1 /\ d = s[1]
      /\ \A i \in 1..Len(u) : u[i] = s[i + 1] /\ i + 1 \in 1..Len(s)
      /\ 1 \in 1..Len(s) /\ d \in Requests
      /\ \A i \in 1..Len(s) : i = 1 \/ (i - 1 \in 1..Len(u) /\ s[i] = u[i - 1])
  <2>1. /\ u \in Seq(Requests) /\ Len(s) \in Nat \ {0} /\ Len(u) = Len(s) - 1 /\ d = s[1]
        /\ \A i \in 1..Len(u) : u[i] = s[i + 1]
    BY <1>2, <1>3, <1>4
  <2>2. /\ \A i \in 1..Len(u) : i + 1 \in 1..Len(s)
        /\ 1 \in 1..Len(s)
    BY <2>1
  <2>3. d \in Requests
    BY <1>3, <2>1, <2>2, ElementOfSeq
  <2>4. ASSUME NEW i \in 1..Len(s), i # 1 PROVE i - 1 \in 1..Len(u) /\ s[i] = u[i - 1]
    <3>1. i - 1 \in 1..Len(u) /\ (i - 1) + 1 = i
      BY <2>1, <2>4
    <3> QED BY <2>1, <3>1
  <2> QED BY <2>1, <2>2, <2>3, <2>4
<1>6. /\ \A i, k \in 1..Len(s) : i < k => s[i] < s[k]
      /\ \A c \in Requests : Pending(n, c) => \E i \in Places0 : team[c][i] = n
      /\ \A c : Pending(n, c) <=> \E i \in 1..Len(s) : s[i] = c
  BY <1>1, <1>2 DEF CmdsInv, Pending
<1>7. /\ cur'[n] = d /\ cmds'[n] = u /\ toPull'[n] = 0 /\ toSend'[n] = 0 /\ num'[n] = fresh
      /\ se'[n] = 0
      /\ \A m \in Nodes : m # n => /\ cur'[m] = cur[m] /\ cmds'[m] = cmds[m]
                                   /\ toPull'[m] = toPull[m] /\ toSend'[m] = toSend[m]
                                   /\ num'[m] = num[m] /\ se'[m] = se[m]
  BY <1>1, <1>3, <1>4 DEF Typed
<1>8. id \in Places0 /\ team[d][id] = n /\ \A i \in Places0 : team[d][i] = n => i = id
  <2>1. \E i \in Places0 : team[d][i] = n
    BY <1>5, <1>6
  <2>2. id \in Places0 /\ team[d][id] = n
    BY <1>2, <2>1
  <2> QED BY <1>1, <1>5, <2>2, TeamFacts
<1>9. fresh \in Nums /\ fresh \in [Pullers(id) -> 0..PktCnt] /\ \A x \in Pullers(id) : fresh[x] = 0
  <2>1. 0 \in 0..PktCnt /\ Pullers(id) \in SUBSET (Places0 \cup {Leaf})
    <3>1. Pullers(id) \subseteq Places0 \cup {Leaf}
      BY <1>8, PullerFacts
    <3>2. PktCnt \in Nat
      BY Basics
    <3> QED BY <3>1, <3>2
  <2>2. fresh \in [Pullers(id) -> 0..PktCnt] /\ \A x \in Pullers(id) : fresh[x] = 0
    BY <1>2, <2>1
  <2> QED BY <2>1, <2>2 DEF Nums
<1>10. Typed'
  <2>1. /\ cur' \in [Nodes -> Requests \cup {0}] /\ cmds' \in [Nodes -> Seq(Requests)]
        /\ toSend' \in [Nodes -> Nat] /\ toPull' \in [Nodes -> Nat] /\ se' \in [Nodes -> Nat]
        /\ num' \in [Nodes -> Nums]
    BY <1>1, <1>3, <1>4, <1>5, <1>9 DEF Typed
  <2> QED BY <1>1, <1>3, <2>1 DEF Typed
<1>11. \A c \in Requests : Pending(n, c)' <=> (Pending(n, c) /\ c # d)
  <2>1. ASSUME NEW c \in Requests PROVE Pending(n, c)' <=> (Pending(n, c) /\ c # d)
    <3>1. Pending(n, c)' <=> \E i \in 1..Len(u) : u[i] = c
      BY <1>7 DEF Pending
    <3>2. ASSUME NEW i \in 1..Len(u), u[i] = c PROVE Pending(n, c) /\ c # d
      <4>1. s[i + 1] = c /\ i + 1 \in 1..Len(s) /\ 1 < i + 1
        BY <1>5, <3>2
      <4>2. d < c /\ d \in Nat /\ c \in Nat
        BY <1>5, <1>6, <4>1, Basics
      <4> QED BY <1>6, <4>1, <4>2
    <3>3. ASSUME NEW i \in 1..Len(s), s[i] = c, c # d PROVE \E k \in 1..Len(u) : u[k] = c
      BY <1>5, <3>3
    <3> QED BY <1>6, <3>1, <3>2, <3>3
  <2> QED BY <2>1
<1>12. \A m \in Nodes, c \in Requests : m # n => (Pending(m, c)' <=> Pending(m, c))
  BY <1>7 DEF Pending
<1>13. Pending(n, d)
  BY <1>5, <1>6
<1>14. CmdsInv'
  <2>1. ASSUME NEW m \in Nodes
        PROVE  /\ \A i, k \in 1..Len(cmds'[m]) : i < k => cmds'[m][i] < cmds'[m][k]
               /\ \A i \in 1..Len(cmds'[m]) : cur'[m] < cmds'[m][i]
               /\ \A c \in Requests : cur'[m] = c \/ Pending(m, c)' =>
                    \E i \in Places0 : team[c][i] = m
    <3>1. CASE m # n
      BY <1>1, <1>7, <1>12, <3>1 DEF CmdsInv
    <3>2. CASE m = n
      <4>1. ASSUME NEW i \in 1..Len(u), NEW k \in 1..Len(u), i < k PROVE u[i] < u[k]
        <5>1. i + 1 < k + 1 /\ i + 1 \in 1..Len(s) /\ k + 1 \in 1..Len(s)
          BY <1>5, <4>1
        <5> QED BY <1>5, <1>6, <5>1
      <4>2. \A i \in 1..Len(u) : d < u[i]
        BY <1>5, <1>6
      <4>3. \A c \in Requests : d = c \/ Pending(n, c)' => \E i \in Places0 : team[c][i] = n
        BY <1>6, <1>11, <1>13
      <4> QED BY <1>7, <3>2, <4>1, <4>2, <4>3
    <3> QED BY <3>1, <3>2
  <2> QED BY <1>3, <2>1 DEF CmdsInv
<1>15. ASSUME NEW m \in Nodes PROVE NodeInv(m)'
  <2>1. CASE m # n
    BY <1>3, <1>7, <2>1, OthersSame
  <2>2. CASE m = n
    <3>1. \A p \in Pkts : pkt'[n][p] = {}
      BY <1>1, <1>3 DEF NodeInv
    <3>2. \A p \in Pkts : Held(id, p, 0, fresh) = {}
      <4>1. ASSUME NEW p \in Pkts PROVE Held(id, p, 0, fresh) = {}
        <5>1. ~(p < 0)
          BY Basics
        <5>2. {x \in ChildrenOf(id, EcK) : p < fresh[x]} = {}
          BY <1>8, <1>9, <5>1, PullerFacts
        <5> QED BY <5>1, <5>2 DEF Held
      <4> QED BY <4>1
    <3>3. \A p : Sum(d, {}, p)' = {}
      BY DEF Sum
    <3>4. AtWork(n, d, id)'
      <4>1. \A p \in Pkts : pkt'[n][p] = Sum(d, Held(id, p, 0, fresh), p)'
        BY <3>1, <3>2, <3>3
      <4> QED BY <1>7, <1>9, <4>1, Basics DEF AtWork
    <3>5. \A c \in Requests, i \in Places0 : cur'[n] = c /\ team'[c][i] = n => c = d /\ i = id
      BY <1>3, <1>7, <1>8
    <3>6. cur'[n] # 0
      BY <1>5, <1>7, Basics
    <3> QED BY <2>2, <3>4, <3>5, <3>6 DEF NodeInv
  <2> QED BY <2>1, <2>2
<1>16. \A m \in Nodes, c \in Requests : Sent(m, c)' = Sent(m, c)
  <2>1. ASSUME NEW m \in Nodes, NEW c \in Requests, m # n PROVE Sent(m, c)' = Sent(m, c)
    BY <1>3, <1>7, <1>12, <2>1 DEF Sent
  <2>2. ASSUME NEW c \in Requests PROVE Sent(n, c)' = Sent(n, c)
    <3>1. CASE c = d
      BY <1>3, <1>5, <1>7, <1>13, <3>1, Basics DEF Sent
    <3>2. CASE c # d
      BY <1>3, <1>7, <1>11, <3>2, Basics DEF Sent
    <3> QED BY <3>1, <3>2
  <2> QED BY <2>1, <2>2
<1>17. \A m \in Nodes, c \in Requests, i \in Places0 : \A x \in ChildrenOf(i, EcK) :
         m = team[c][i] => Fetched(m, c, x)' = Fetched(m, c, x)
  <2>1. ASSUME NEW m \in Nodes, NEW c \in Requests, NEW x, m # n
        PROVE  Fetched(m, c, x)' = Fetched(m, c, x)
    BY <1>3, <1>7, <1>12, <2>1 DEF Fetched
  <2>2. ASSUME NEW c \in Requests, NEW i \in Places0, NEW x \in ChildrenOf(i, EcK), n = team[c][i]
        PROVE Fetched(n, c, x)' = Fetched(n, c, x)
    <3>1. CASE c = d
      <4>1. i = id /\ x \in Pullers(id)
        BY <1>8, <2>2, <3>1, PullerFacts
      <4>2. fresh[x] = 0
        BY <1>9, <4>1
      <4> QED BY <1>3, <1>5, <1>7, <1>13, <3>1, <4>2, Basics DEF Fetched
    <3>2. CASE c # d
      BY <1>3, <1>7, <1>11, <3>2, Basics DEF Fetched
    <3> QED BY <3>1, <3>2
  <2> QED BY <2>1, <2>2
<1>18. ASSUME NEW c \in Requests, NEW x \in Places0 PROVE ListInv(c, x)'
  <2>1. team[c][x] \in Nodes /\ redis'[WriteList(c, x)] = redis[WriteList(c, x)]
    BY <1>1, <1>3, TeamFacts
  <2>2. \A m \in Nodes : m = team[c][x] => Sent(m, c)' = Sent(m, c)
    BY <1>16
  <2>3. ASSUME NEW m \in Nodes, x # EcK, m = team[c][ParentOf(x, EcK)]
        PROVE  Fetched(m, c, x)' = Fetched(m, c, x)
    <3>1. PICK i \in Places0 : i = ParentOf(x, EcK)
      BY ChildFacts
    <3>2. x \in ChildrenOf(i, EcK)
      BY <2>3, <3>1, ChildFacts
    <3> QED BY <1>17, <2>3, <3>1, <3>2
  <2> QED BY <1>3, <2>1, <2>2, <2>3, ListSame
<1> QED BY <1>10, <1>14, <1>15, <1>18 DEF PprInv

\* Everything is pushed and fetched: the node is idle again.
LEMMA FinishInv == ASSUME PprInv, NEW n \in Nodes, Finish(n) PROVE PprInv'
<1>1. Typed /\ CmdsInv /\ \A m \in Nodes : NodeInv(m)
  BY DEF PprInv
<1>2. PICK d, id : d = cur[n] /\ id = Id(n)
  OBVIOUS
<1>3. /\ cur[n] # 0 /\ se[n] = PktCnt /\ \A x \in DOMAIN num[n] : num[n][x] = PktCnt
      /\ cur' = [cur EXCEPT ![n] = 0] /\ toSend' = [toSend EXCEPT ![n] = 0]
      /\ pkt' = [pkt EXCEPT ![n] = [p \in Pkts |-> {}]]
      /\ team' = team /\ cmds' = cmds /\ redis' = redis /\ toPull' = toPull /\ num' = num
      /\ se' = se
  BY DEF Finish
<1>4. /\ d \in Requests /\ id \in Places0 /\ AtWork(n, d, id) /\ ~Pending(n, d) /\ d # 0
      /\ \A i \in Places0 : team[d][i] = n => i = id
  BY <1>2, <1>3, AtPlace
<1>5. /\ cur'[n] = 0 /\ \A p \in Pkts : pkt'[n][p] = {}
      /\ \A m \in Nodes : m # n => /\ cur'[m] = cur[m] /\ toSend'[m] = toSend[m]
                                   /\ pkt'[m] = pkt[m]
  BY <1>1, <1>3 DEF Typed
<1>6. Typed'
  <2>1. [p \in Pkts |-> {}] \in [Pkts -> Packets]
    BY DEF Packets
  <2>2. /\ cur' \in [Nodes -> Requests \cup {0}] /\ toSend' \in [Nodes -> Nat]
        /\ pkt' \in [Nodes -> [Pkts -> Packets]]
    BY <1>1, <1>3, <2>1 DEF Typed
  <2> QED BY <1>1, <1>3, <2>2 DEF Typed
<1>7. \A m, c : Pending(m, c)' = Pending(m, c)
  BY <1>3 DEF Pending
<1>8. CmdsInv'
  <2>1. \A m \in Nodes : \A i \in 1..Len(cmds[m]) : cmds[m][i] \in Requests /\ cmds[m][i] \in Nat
    <3>1. ASSUME NEW m \in Nodes, NEW i \in 1..Len(cmds[m]) PROVE cmds[m][i] \in Requests
      <4>1. cmds[m] \in Seq(Requests)
        BY <1>1 DEF Typed
      <4> QED BY <4>1, ElementOfSeq
    <3> QED BY <3>1, Basics
  <2>2. \A i \in 1..Len(cmds[n]) : 0 < cmds[n][i]
    BY <2>1, Basics
  <2> QED BY <1>1, <1>3, <1>5, <1>7, <2>2, Basics DEF CmdsInv
<1>9. ASSUME NEW m \in Nodes PROVE NodeInv(m)'
  <2>1. CASE m # n
    BY <1>3, <1>5, <2>1, OthersSame
  <2>2. CASE m = n
    BY <1>5, <2>2, Basics DEF NodeInv
  <2> QED BY <2>1, <2>2
<1>10. ASSUME NEW m \in Nodes, NEW c \in Requests PROVE Sent(m, c)' = Sent(m, c)
  <2>1. CASE m # n \/ c # d
    BY <1>2, <1>3, <1>5, <1>7, <2>1, Basics DEF Sent
  <2>2. CASE m = n /\ c = d
    BY <1>2, <1>3, <1>4, <1>5, <1>7, <2>2 DEF Sent
  <2> QED BY <2>1, <2>2
<1>11. ASSUME NEW m \in Nodes, NEW c \in Requests, NEW i \in Places0,
              NEW x \in ChildrenOf(i, EcK), m = team[c][i]
       PROVE  Fetched(m, c, x)' = Fetched(m, c, x)
  <2>1. CASE m # n \/ c # d
    BY <1>2, <1>3, <1>5, <1>7, <2>1, Basics DEF Fetched
  <2>2. CASE m = n /\ c = d
    <3>1. x \in Pullers(id)
      BY <1>4, <1>11, <2>2, PullerFacts
    <3>2. num[n][x] = PktCnt
      BY <1>3, <1>4, <3>1 DEF AtWork
    <3> QED BY <1>2, <1>3, <1>4, <1>5, <1>7, <2>2, <3>2 DEF Fetched
  <2> QED BY <2>1, <2>2
<1>12. ASSUME NEW c \in Requests, NEW x \in Places0 PROVE ListInv(c, x)'
  <2>1. redis'[WriteList(c, x)] = redis[WriteList(c, x)]
    BY <1>3
  <2>2. \A m \in Nodes : m = team[c][x] => Sent(m, c)' = Sent(m, c)
    BY <1>10
  <2>3. ASSUME NEW m \in Nodes, x # EcK, m = team[c][ParentOf(x, EcK)]
        PROVE  Fetched(m, c, x)' = Fetched(m, c, x)
    <3>1. PICK i \in Places0 : i = ParentOf(x, EcK)
      BY ChildFacts
    <3>2. x \in ChildrenOf(i, EcK)
      BY <2>3, <3>1, ChildFacts
    <3> QED BY <1>11, <2>3, <3>1, <3>2
  <2> QED BY <1>3, <2>1, <2>2, <2>3, ListSame
<1> QED BY <1>6, <1>8, <1>9, <1>12 DEF PprInv

\* What has been sent and fetched when nobody takes or finishes a command and only
\* node n, at work for c, counts.
LEMMA CountsFacts ==
    ASSUME PprInv, NEW n \in Nodes, NEW c \in Requests, cur[n] = c,
           UNCHANGED <<team, cmds, cur>>,
           \A m \in Nodes : m # n => se'[m] = se[m] /\ num'[m] = num[m]
    PROVE  /\ \A m \in Nodes, d \in Requests : m # n \/ d # c =>
                /\ Sent(m, d)' = Sent(m, d)
                /\ \A x : Fetched(m, d, x)' = Fetched(m, d, x)
           /\ Sent(n, c) = se[n] /\ Sent(n, c)' = se'[n]
           /\ \A x : Fetched(n, c, x) = num[n][x] /\ Fetched(n, c, x)' = num'[n][x]
<1>1. /\ team' = team /\ cur' = cur /\ \A m, d : Pending(m, d)' = Pending(m, d)
  BY CmdsSame
<1>2. ASSUME NEW m \in Nodes, NEW d \in Requests, m # n \/ d # c
      PROVE  Sent(m, d)' = Sent(m, d) /\ \A x : Fetched(m, d, x)' = Fetched(m, d, x)
  <2>1. CASE m # n
    BY <1>1, <2>1 DEF Sent, Fetched
  <2>2. CASE m = n /\ d # c
    BY <1>1, <2>2 DEF Sent, Fetched
  <2> QED BY <1>2, <2>1, <2>2
<1>3. Sent(n, c) = se[n] /\ Sent(n, c)' = se'[n]
  BY <1>1 DEF Sent
<1>4. \A x : Fetched(n, c, x) = num[n][x] /\ Fetched(n, c, x)' = num'[n][x]
  BY <1>1 DEF Fetched
<1> QED BY <1>2, <1>3, <1>4

\* The invariant after a step of node n at work, part by part.
LEMMA WorkStep ==
    ASSUME PprInv, NEW n \in Nodes, NEW c \in Requests, NEW id \in Places0,
           cur[n] = c, id = Id(n), UNCHANGED <<team, cmds, cur>>, Typed', AtWork(n, c, id)',
           \A m \in Nodes : m # n => /\ pkt'[m] = pkt[m] /\ toPull'[m] = toPull[m]
                                     /\ toSend'[m] = toSend[m] /\ num'[m] = num[m]
                                     /\ se'[m] = se[m],
           \A d \in Requests, x \in Places0 : ListInv(d, x)'
    PROVE  PprInv'
<1>1. CmdsInv'
  BY CmdsSame
<1>2. c # 0 /\ \A i \in Places0 : team[c][i] = n => i = id
  BY AtPlace, Basics
<1>3. ASSUME NEW m \in Nodes PROVE NodeInv(m)'
  <2>1. CASE m # n
    BY <2>1, OthersSame
  <2>2. CASE m = n
    BY <1>2, <2>2 DEF NodeInv
  <2> QED BY <2>1, <2>2
<1> QED BY <1>1, <1>3 DEF PprInv

\* The lists of the nodes when a step touches none of them and node n fetches and
\* sends nothing.
LEMMA ListsUntouched ==
    ASSUME PprInv, NEW n \in Nodes, NEW c \in Requests, NEW id \in Places0,
           cur[n] = c, id = Id(n), UNCHANGED <<team, cmds, cur, redis, se>>,
           \A m \in Nodes : m # n => num'[m] = num[m],
           \A x \in ChildrenOf(id, EcK) : num'[n][x] = num[n][x]
    PROVE  \A d \in Requests, x \in Places0 : ListInv(d, x)'
<1>1. \A i \in Places0 : team[c][i] = n => i = id
  BY AtPlace, Basics
<1>2. /\ \A m \in Nodes, d \in Requests : m # n \/ d # c =>
           /\ Sent(m, d)' = Sent(m, d)
           /\ \A x : Fetched(m, d, x)' = Fetched(m, d, x)
      /\ Sent(n, c)' = Sent(n, c)
      /\ \A x : Fetched(n, c, x) = num[n][x] /\ Fetched(n, c, x)' = num'[n][x]
  BY CountsFacts
<1>3. ASSUME NEW d \in Requests, NEW x \in Places0 PROVE ListInv(d, x)'
  <2>1. \A m \in Nodes : m = team[d][x] => Sent(m, d)' = Sent(m, d)
    BY <1>2
  <2>2. ASSUME NEW m \in Nodes, x # EcK, m = team[d][ParentOf(x, EcK)]
        PROVE  Fetched(m, d, x)' = Fetched(m, d, x)
    <3>1. CASE m # n \/ d # c
      BY <1>2, <3>1
    <3>2. CASE m = n /\ d = c
      <4>1. ParentOf(x, EcK) = id
        BY <1>1, <2>2, <3>2, ChildFacts
      <4>2. x \in ChildrenOf(id, EcK)
        BY <2>2, <4>1, ChildFacts
      <4> QED BY <1>2, <3>2, <4>2
    <3> QED BY <3>1, <3>2
  <2> QED BY <2>1, <2>2, ListSame
<1> QED BY <1>3

\* readWorker: the next local packet, before any child's is added to it.
LEMMA ReadWorkerInv == ASSUME PprInv, NEW n \in Nodes, ReadWorker(n) PROVE PprInv'
<1>1. Typed
  BY DEF PprInv
<1>2. PICK c, id, i, nums : c = cur[n] /\ id = Id(n) /\ i = toPull[n] /\ nums = num[n]
  OBVIOUS
<1>3. /\ c # 0 /\ i < PktCnt
      /\ pkt' = IF id = EcK THEN pkt ELSE [pkt EXCEPT ![n][i] = {<<n, c, i>>}]
      /\ toPull' = [toPull EXCEPT ![n] = i + 1]
      /\ UNCHANGED <<team, cmds, cur, redis, toSend, num, se>>
  BY <1>2 DEF ReadWorker, Term
<1>4. /\ c \in Requests /\ id \in Places0 /\ AtWork(n, c, id) /\ team[c][id] = n
  BY <1>2, <1>3, AtPlace
<1>5. i \in Nat /\ i \in Pkts /\ PktCnt \in Nat
  BY <1>1, <1>2, <1>3, Basics DEF Typed, Pkts
<1>6. /\ toPull'[n] = i + 1
      /\ \A m \in Nodes : m # n => pkt'[m] = pkt[m] /\ toPull'[m] = toPull[m]
      /\ \A p \in Pkts : pkt'[n][p] = IF p = i /\ id # EcK THEN {<<n, c, i>>} ELSE pkt[n][p]
  BY <1>1, <1>3, <1>5 DEF Typed
<1>7. Typed'
  <2>1. {<<n, c, i>>} \in Packets
    BY <1>4, <1>5 DEF Packets
  <2>2. pkt' \in [Nodes -> [Pkts -> Packets]] /\ toPull' \in [Nodes -> Nat]
    BY <1>1, <1>3, <1>5, <2>1 DEF Typed
  <2> QED BY <1>1, <1>3, <2>2 DEF Typed
<1>8. /\ nums \in [Pullers(id) -> 0..PktCnt] /\ se[n] <= toSend[n]
      /\ \A x \in Pullers(id) : toSend[n] <= nums[x] /\ nums[x] <= i
      /\ \A p \in Pkts : pkt[n][p] = Sum(c, Held(id, p, i, nums), p)
  BY <1>2, <1>4 DEF AtWork
<1>9. \A J, p : Sum(c, J, p)' = Sum(c, J, p)
  BY <1>3 DEF Sum
<1>10. ASSUME NEW p \in Pkts PROVE pkt'[n][p] = Sum(c, Held(id, p, i + 1, nums), p)
  <2>1. CASE p # i
    <3>1. p < i + 1 <=> p < i
      BY <1>5, <2>1, Basics
    <3>2. Held(id, p, i + 1, nums) = Held(id, p, i, nums)
      BY <3>1 DEF Held
    <3> QED BY <1>6, <1>8, <2>1, <3>2
  <2>2. CASE p = i
    <3>1. {x \in ChildrenOf(id, EcK) : p < nums[x]} = {}
      <4>1. \A x \in ChildrenOf(id, EcK) : nums[x] <= i /\ nums[x] \in Nat
        BY <1>4, <1>8, PullerFacts
      <4> QED BY <1>5, <2>2, <4>1
    <3>2. Held(id, p, i + 1, nums) = Own(id) /\ Held(id, p, i, nums) = {}
      BY <1>5, <2>2, <3>1 DEF Held
    <3>3. CASE id = EcK
      BY <1>6, <1>8, <3>2, <3>3 DEF Own
    <3>4. CASE id # EcK
      BY <1>4, <1>6, <2>2, <3>2, <3>4 DEF Own, Sum
    <3> QED BY <3>3, <3>4
  <2> QED BY <2>1, <2>2
<1>11. AtWork(n, c, id)'
  <2>1. \A p \in Pkts : pkt'[n][p] = Sum(c, Held(id, p, i + 1, nums), p)'
    BY <1>9, <1>10
  <2>2. \A x \in Pullers(id) : toSend[n] <= nums[x] /\ nums[x] <= i + 1
    BY <1>5, <1>8
  <2>3. i + 1 <= PktCnt
    BY <1>3, <1>5
  <2> QED BY <1>2, <1>3, <1>6, <1>8, <2>1, <2>2, <2>3 DEF AtWork
<1>12. \A d \in Requests, x \in Places0 : ListInv(d, x)'
  BY <1>2, <1>3, <1>4, ListsUntouched
<1> QED BY <1>2, <1>3, <1>4, <1>6, <1>7, <1>11, <1>12, WorkStep

\* puller of a leaf: what is read may be sent.
LEMMA PullerInv == ASSUME PprInv, NEW n \in Nodes, Puller(n) PROVE PprInv'
<1>1. Typed
  BY DEF PprInv
<1>2. PICK c, id, nums, nums1 : c = cur[n] /\ id = Id(n) /\ nums = num[n] /\ nums1 = num'[n]
  OBVIOUS
<1>3. /\ c # 0 /\ Leaf \in DOMAIN nums /\ nums[Leaf] < toPull[n]
      /\ num' = [num EXCEPT ![n] = [nums EXCEPT ![Leaf] = nums[Leaf] + 1]]
      /\ toSend' = [toSend EXCEPT ![n] = toSend[n] + 1]
      /\ UNCHANGED <<team, cmds, cur, redis, pkt, toPull, se>>
  BY <1>1, <1>2 DEF Puller, Release, LetThrough, Typed
<1>4. /\ c \in Requests /\ id \in Places0 /\ AtWork(n, c, id)
  BY <1>2, <1>3, AtPlace
<1>5. /\ nums \in [Pullers(id) -> 0..PktCnt] /\ se[n] <= toSend[n] /\ toPull[n] <= PktCnt
      /\ \A x \in Pullers(id) : toSend[n] <= nums[x] /\ nums[x] <= toPull[n]
      /\ \A p \in Pkts : pkt[n][p] = Sum(c, Held(id, p, toPull[n], nums), p)
  BY <1>2, <1>4 DEF AtWork
<1>6. ChildrenOf(id, EcK) = {} /\ Pullers(id) = {Leaf} /\ Leaf \in Pullers(id)
  BY <1>3, <1>4, <1>5, PullerFacts DEF Pullers
<1>7. toPull[n] \in Nat /\ toSend[n] \in Nat /\ se[n] \in Nat /\ nums[Leaf] \in Nat /\ PktCnt \in Nat
  BY <1>1, <1>5, <1>6, Basics DEF Typed
<1>8. /\ nums1 \in [Pullers(id) -> 0..PktCnt] /\ nums1[Leaf] = nums[Leaf] + 1
      /\ toSend'[n] = toSend[n] + 1
      /\ \A m \in Nodes : m # n => num'[m] = num[m] /\ toSend'[m] = toSend[m]
  <2>1. nums1 = [nums EXCEPT ![Leaf] = nums[Leaf] + 1]
    BY <1>1, <1>2, <1>3 DEF Typed
  <2>2. nums[Leaf] + 1 \in 0..PktCnt
    BY <1>3, <1>5, <1>7
  <2> QED BY <1>1, <1>3, <1>5, <1>6, <2>1, <2>2 DEF Typed
<1>9. Typed'
  <2>1. nums1 \in Nums
    <3>1. Pullers(id) \in SUBSET (Places0 \cup {Leaf})
      BY <1>6
    <3> QED BY <1>8, <3>1 DEF Nums
  <2>2. num' = [num EXCEPT ![n] = nums1]
    BY <1>1, <1>2, <1>3 DEF Typed
  <2>3. num' \in [Nodes -> Nums]
    BY <1>1, <2>1, <2>2 DEF Typed
  <2>4. toSend' \in [Nodes -> Nat]
    <3>1. toSend[n] + 1 \in Nat /\ toSend \in [Nodes -> Nat]
      BY <1>1, <1>7 DEF Typed
    <3> QED BY <1>3, <3>1
  <2> QED BY <1>1, <1>3, <2>3, <2>4 DEF Typed
<1>10. AtWork(n, c, id)'
  <2>1. \A p \in Pkts : Held(id, p, toPull[n], nums1) = Held(id, p, toPull[n], nums)
    BY <1>6 DEF Held
  <2>2. \A J, p : Sum(c, J, p)' = Sum(c, J, p)
    BY <1>3 DEF Sum
  <2>3. \A p \in Pkts : pkt'[n][p] = Sum(c, Held(id, p, toPull[n], nums1), p)'
    BY <1>3, <1>5, <2>1, <2>2
  <2>4. \A x \in Pullers(id) : toSend'[n] <= nums1[x] /\ nums1[x] <= toPull[n]
    BY <1>3, <1>5, <1>6, <1>7, <1>8
  <2>5. se[n] <= toSend'[n]
    BY <1>5, <1>7, <1>8
  <2> QED BY <1>2, <1>3, <1>5, <1>8, <2>3, <2>4, <2>5 DEF AtWork
<1>11. \A d \in Requests, x \in Places0 : ListInv(d, x)'
  BY <1>2, <1>3, <1>4, <1>6, <1>8, ListsUntouched
<1> QED BY <1>2, <1>3, <1>4, <1>8, <1>9, <1>10, <1>11, WorkStep

\* What a parent has fetched is a number.
LEMMA TakenNat ==
    ASSUME PprInv, NEW c \in Requests, NEW x \in Places0
    PROVE  Taken(c, x) \in Nat
<1>1. CASE x = EcK
  BY <1>1 DEF Taken
<1>2. CASE x # EcK
  <2>1. PICK pa \in Places0 : pa = ParentOf(x, EcK)
    BY ChildFacts
  <2>2. PICK m : m = team[c][pa]
    OBVIOUS
  <2>3. Typed /\ m \in Nodes /\ NodeInv(m)
    BY <2>2, TeamFacts DEF PprInv
  <2>4. x \in Pullers(pa)
    BY <1>2, <2>1, ChildFacts, PullerFacts
  <2>5. ASSUME cur[m] = c PROVE num[m][x] \in Nat
    <3>1. num[m] \in [Pullers(pa) -> 0..PktCnt]
      BY <2>2, <2>3, <2>5 DEF NodeInv, AtWork
    <3> QED BY <2>4, <3>1
  <2>6. Fetched(m, c, x) \in Nat
    BY <2>5, Basics DEF Fetched
  <2> QED BY <1>2, <2>1, <2>2, <2>6 DEF Taken
<1> QED BY <1>1, <1>2

\* The main thread: a packet it may send is the whole sum of its place.
LEMMA SendInv == ASSUME PprInv, NEW n \in Nodes, Send(n) PROVE PprInv'
<1>1. Typed
  BY DEF PprInv
<1>2. PICK c, id, i, key, v : /\ c = cur[n] /\ id = Id(n) /\ i = se[n]
                              /\ key = WriteList(c, id) /\ v = pkt[n][i]
  OBVIOUS
<1>3. /\ c # 0 /\ i < toSend[n] /\ redis' = [redis EXCEPT ![key] = Append(redis[key], v)]
      /\ se' = [se EXCEPT ![n] = i + 1]
      /\ UNCHANGED <<team, cmds, cur, pkt, toPull, toSend, num>>
  BY <1>2 DEF Send, Push
<1>4. /\ c \in Requests /\ id \in Places0 /\ AtWork(n, c, id) /\ team[c][id] = n
      /\ \A k \in Places0 : team[c][k] = n => k = id
  BY <1>2, <1>3, AtPlace
<1>5. /\ num[n] \in [Pullers(id) -> 0..PktCnt] /\ toPull[n] <= PktCnt
      /\ \A x \in Pullers(id) : toSend[n] <= num[n][x] /\ num[n][x] <= toPull[n]
      /\ \A p \in Pkts : pkt[n][p] = Sum(c, Held(id, p, toPull[n], num[n]), p)
  BY <1>4 DEF AtWork
<1>6. i \in Nat /\ toPull[n] \in Nat /\ toSend[n] \in Nat /\ PktCnt \in Nat
  BY <1>1, <1>2, Basics DEF Typed
<1>7. \A x \in Pullers(id) : i < num[n][x] /\ i < toPull[n]
  <2>1. \A x \in Pullers(id) : num[n][x] \in Nat
    BY <1>5
  <2> QED BY <1>3, <1>5, <1>6, <2>1
<1>8. i \in Pkts /\ i < toPull[n]
  <2>1. i < toPull[n]
    BY <1>4, <1>7, PullerFacts
  <2> QED BY <1>5, <1>6, <2>1 DEF Pkts
<1>9. v = Sum(c, Sub(id), i)
  <2>1. \A x \in ChildrenOf(id, EcK) : i < num[n][x]
    BY <1>4, <1>7, PullerFacts
  <2>2. Held(id, i, toPull[n], num[n]) = Sub(id)
    BY <1>4, <1>8, <2>1, HeldAll
  <2> QED BY <1>2, <1>5, <1>8, <2>2
<1>10. key \in Lists /\ v \in Packets
  BY <1>1, <1>2, <1>4, <1>8, ListFacts DEF Typed
<1>11. /\ redis'[key] = Append(redis[key], v) /\ se'[n] = i + 1
       /\ \A m \in Nodes : m # n => se'[m] = se[m]
       /\ \A l \in Lists : l # key => redis'[l] = redis[l]
  BY <1>1, <1>3, <1>10 DEF Typed
<1>12. Typed'
  <2>1. redis' \in [Lists -> Seq(Packets)]
    <3>1. Append(redis[key], v) \in Seq(Packets)
      BY <1>1, <1>10 DEF Typed
    <3> QED BY <1>1, <1>3, <3>1 DEF Typed
  <2>2. se' \in [Nodes -> Nat]
    BY <1>1, <1>3, <1>6 DEF Typed
  <2> QED BY <1>1, <1>3, <2>1, <2>2 DEF Typed
<1>13. AtWork(n, c, id)'
  <2>1. \A J, p : Sum(c, J, p)' = Sum(c, J, p)
    BY <1>3 DEF Sum
  <2>2. se'[n] <= toSend[n]
    BY <1>3, <1>6, <1>11
  <2>3. \A p \in Pkts : pkt'[n][p] = Sum(c, Held(id, p, toPull[n], num[n]), p)'
    BY <1>3, <1>5, <2>1
  <2> QED BY <1>3, <1>5, <2>2, <2>3 DEF AtWork
<1>14. /\ \A m \in Nodes, d \in Requests : m # n \/ d # c => Sent(m, d)' = Sent(m, d)
       /\ \A m \in Nodes, d \in Requests : \A x : Fetched(m, d, x)' = Fetched(m, d, x)
       /\ Sent(n, c) = i /\ Sent(n, c)' = i + 1
  <2>1. \A m \in Nodes, d \in Requests : m # n \/ d # c =>
             /\ Sent(m, d)' = Sent(m, d)
             /\ \A x : Fetched(m, d, x)' = Fetched(m, d, x)
    BY <1>2, <1>3, <1>4, <1>11, CountsFacts
  <2>2. /\ Sent(n, c) = se[n] /\ Sent(n, c)' = se'[n]
        /\ \A x : Fetched(n, c, x) = num[n][x] /\ Fetched(n, c, x)' = num'[n][x]
    BY <1>2, <1>3, <1>4, <1>11, CountsFacts
  <2> QED BY <1>2, <1>3, <1>11, <2>1, <2>2
<1>15. ASSUME NEW d \in Requests, NEW x \in Places0 PROVE ListInv(d, x)'
  <2>1. CASE d # c \/ x # id
    <3>1. WriteList(d, x) # key /\ WriteList(d, x) \in Lists
      BY <1>1, <1>2, <1>4, <2>1, ListFacts
    <3>2. redis'[WriteList(d, x)] = redis[WriteList(d, x)]
      BY <1>11, <3>1
    <3>3. \A m \in Nodes : m = team[d][x] => Sent(m, d)' = Sent(m, d)
      BY <1>4, <1>14, <2>1
    <3> QED BY <1>3, <1>14, <3>2, <3>3, ListSame
  <2>2. CASE d = c /\ x = id
    <3>1. PICK t, l : t = Taken(c, id) /\ l = redis[key]
      OBVIOUS
    <3>2. /\ t + Len(l) = i
          /\ \A k \in 1..Len(l) : l[k] = Sum(c, Sub(id), t + k - 1)
          /\ l \in Seq(Packets)
      <4>1. ListInv(c, id)
        BY <1>4 DEF PprInv
      <4>2. l \in Seq(Packets)
        BY <1>1, <1>10, <3>1 DEF Typed
      <4> QED BY <1>2, <1>4, <1>14, <3>1, <4>1, <4>2 DEF ListInv
    <3>3. Taken(c, id)' = t
      <4>1. CASE id = EcK
        BY <3>1, <4>1 DEF Taken
      <4>2. CASE id # EcK
        <5>1. PICK m \in Nodes : m = team[c][ParentOf(id, EcK)]
          BY <1>1, <1>4, ChildFacts, TeamFacts
        <5>2. Fetched(m, c, id)' = Fetched(m, c, id)
          BY <1>4, <1>14
        <5>3. Taken(c, id) = Fetched(m, c, id) /\ Taken(c, id)' = Fetched(m, c, id)'
          BY <1>3, <4>2, <5>1 DEF Taken
        <5> QED BY <3>1, <5>2, <5>3
      <4> QED BY <4>1, <4>2
    <3>4. PICK l1 : l1 = Append(l, v)
      OBVIOUS
    <3>5. t \in Nat
      BY <1>4, <3>1, TakenNat
    <3>6. /\ Len(l) \in Nat /\ Len(l1) = Len(l) + 1 /\ l1[Len(l) + 1] = v
          /\ \A k \in 1..Len(l) : l1[k] = l[k]
      BY <1>10, <3>2, <3>4
    <3>7. t + Len(l1) = i + 1
      BY <1>6, <3>2, <3>5, <3>6
    <3>8. \A k \in 1..Len(l1) : l1[k] = Sum(c, Sub(id), t + k - 1)
      <4>1. ASSUME NEW k \in 1..Len(l1) PROVE l1[k] = Sum(c, Sub(id), t + k - 1)
        <5>1. CASE k \in 1..Len(l)
          BY <3>2, <3>6, <5>1
        <5>2. CASE k = Len(l) + 1
          <6>1. t + k - 1 = i
            BY <1>6, <3>2, <3>5, <3>6, <5>2
          <6> QED BY <1>9, <3>6, <5>2, <6>1
        <5> QED BY <3>6, <5>1, <5>2
      <4> QED BY <4>1
    <3>9. /\ WriteList(c, id)' = key /\ redis'[key] = l1
          /\ Sent(team[c][id], c)' = i + 1
          /\ \A J, p : Sum(c, J, p)' = Sum(c, J, p)
      <4>1. WriteList(c, id)' = key
        BY <1>2, <1>3 DEF WriteList, TmpList, LostList
      <4>2. Sent(team[c][id], c)' = Sent(n, c)'
        BY <1>3, <1>4 DEF Sent, Pending
      <4>3. \A J, p : Sum(c, J, p)' = Sum(c, J, p)
        BY <1>3 DEF Sum
      <4> QED BY <1>11, <1>14, <3>1, <3>4, <4>1, <4>2, <4>3
    <3>10. ListInv(c, id)'
      BY <3>3, <3>7, <3>8, <3>9 DEF ListInv
    <3> QED BY <2>2, <3>10
  <2> QED BY <2>1, <2>2
<1> QED BY <1>2, <1>3, <1>4, <1>11, <1>12, <1>13, <1>15, WorkStep

\* How many packets every child has delivered.
LEMMA MinNumFacts ==
    ASSUME NEW P, P # {}, NEW nums \in [P -> 0..PktCnt]
    PROVE  MinNum(nums) \in Nat /\ \A x \in P : MinNum(nums) <= nums[x]
<1>1. PICK S : S = {nums[y] : y \in DOMAIN nums}
  OBVIOUS
<1>2. S \subseteq Nat /\ S # {} /\ \A x \in P : nums[x] \in S
  BY <1>1
<1>3. \E x \in S : \A y \in S : x <= y
  BY <1>2, LeastNat
<1>4. Min(S) \in S /\ \A y \in S : Min(S) <= y
  BY <1>3 DEF Min
<1> QED BY <1>1, <1>2, <1>4 DEF MinNum

\* XORing the sum of other helpers into a sum.
LEMMA XorSum ==
    ASSUME Typed, NEW c \in Requests, NEW p, NEW J \in SUBSET Places0, NEW L \in SUBSET Places0,
           J \cap L = {}
    PROVE  Xor(Sum(c, J, p), Sum(c, L, p)) = Sum(c, J \cup L, p)
<1>1. \A i, k \in Places0 : team[c][i] = team[c][k] => i = k
  BY TeamFacts
<1>2. PICK A, B : A = Sum(c, J, p) /\ B = Sum(c, L, p)
  OBVIOUS
<1>3. \A t : (t \in A <=> \E j \in J : t = <<team[c][j], c, p>>)
             /\ (t \in B <=> \E j \in L : t = <<team[c][j], c, p>>)
  BY <1>2 DEF Sum
<1>4. A \cap B = {}
  <2> SUFFICES ASSUME NEW t \in A, t \in B PROVE FALSE
    OBVIOUS
  <2>1. PICK j \in J : t = <<team[c][j], c, p>>
    BY <1>3
  <2>2. PICK k \in L : t = <<team[c][k], c, p>>
    BY <1>3
  <2> QED BY <1>1, <2>1, <2>2
<1>5. Xor(A, B) = A \cup B
  BY <1>4 DEF Xor
<1>6. A \cup B = Sum(c, J \cup L, p)
  BY <1>2 DEF Sum
<1> QED BY <1>2, <1>5, <1>6

\* Child x has delivered its packet i: the helpers in that buffer and in the others.
Delivered(id, x, i, read, nums, nums1) ==
  /\ Held(id, i, read, nums1) = Held(id, i, read, nums) \cup Sub(x)
  /\ Held(id, i, read, nums) \cap Sub(x) = {}
  /\ Held(id, i, read, nums) \subseteq Places0 /\ Sub(x) \subseteq Places0
  /\ \A p \in Nat : p # i => Held(id, p, read, nums1) = Held(id, p, read, nums)

LEMMA HeldNext ==
    ASSUME NEW id \in Places0, NEW x \in ChildrenOf(id, EcK), NEW i \in Nat, NEW read,
           NEW nums \in [ChildrenOf(id, EcK) -> 0..PktCnt], nums[x] = i,
           NEW nums1, nums1 = [nums EXCEPT ![x] = i + 1]
    PROVE  Delivered(id, x, i, read, nums, nums1)
<1> DEFINE C == ChildrenOf(id, EcK)
           In(p, f) == {y \in C : p < f[y]}
           U(S) == UNION {Sub(y) : y \in S}
<1>1. \A y \in C : nums[y] \in Nat /\ nums1[y] = IF y = x THEN i + 1 ELSE nums[y]
  OBVIOUS
<1>2. In(i, nums1) = In(i, nums) \cup {x} /\ x \notin In(i, nums)
  BY <1>1
<1>3. \A p \in Nat : p # i => In(p, nums1) = In(p, nums)
  <2>1. \A p \in Nat : p # i => (p < i + 1 <=> p < i)
    OBVIOUS
  <2> QED BY <1>1, <2>1
<1>4. /\ \A y \in C : id \notin Sub(y)
      /\ \A y, z \in C : y # z => Sub(y) \cap Sub(z) = {}
  BY SubTrees DEF Places0
<1>5. /\ Own(id) \subseteq Places0 /\ \A y : Sub(y) \subseteq Places0 /\ \A j \in Own(id) : j = id
  BY Basics DEF Own, Sub, Places0
<1>6. \A p, f : Held(id, p, read, f) = (IF p < read THEN Own(id) ELSE {}) \cup U(In(p, f))
  BY DEF Held
<1>7. PICK O : O = IF i < read THEN Own(id) ELSE {}
  OBVIOUS
<1>14. \A S : U(S \cup {x}) = U(S) \cup Sub(x)
  OBVIOUS
<1>15. \A S, T : (\A y \in S : Sub(y) \cap T = {}) => U(S) \cap T = {}
  OBVIOUS
<1>16. \A S : U(S) \subseteq Places0
  BY <1>5
<1> HIDE DEF In, U
<1>8. Held(id, i, read, nums1) = Held(id, i, read, nums) \cup Sub(x)
  <2>1. U(In(i, nums1)) = U(In(i, nums)) \cup Sub(x)
    BY <1>2, <1>14
  <2>2. Held(id, i, read, nums1) = O \cup U(In(i, nums1))
    BY <1>6, <1>7
  <2>3. Held(id, i, read, nums) = O \cup U(In(i, nums))
    BY <1>6, <1>7
  <2> QED BY <2>1, <2>2, <2>3
<1>9. U(In(i, nums)) \cap Sub(x) = {}
  <2>1. \A y \in In(i, nums) : y \in C /\ y # x
    BY <1>2 DEF In
  <2>2. \A y \in In(i, nums) : Sub(y) \cap Sub(x) = {}
    BY <1>4, <2>1
  <2> QED BY <1>15, <2>2
<1>10. O \cap Sub(x) = {} /\ O \subseteq Places0
  BY <1>4, <1>5, <1>7
<1>11. Held(id, i, read, nums) = O \cup U(In(i, nums))
  BY <1>6, <1>7
<1>12. Held(id, i, read, nums) \cap Sub(x) = {} /\ Held(id, i, read, nums) \subseteq Places0
  BY <1>9, <1>10, <1>11, <1>16
<1>13. ASSUME NEW p \in Nat, p # i PROVE Held(id, p, read, nums1) = Held(id, p, read, nums)
  <2>1. In(p, nums1) = In(p, nums)
    BY <1>3, <1>13
  <2>2. PICK A : A = IF p < read THEN Own(id) ELSE {}
    OBVIOUS
  <2>3. Held(id, p, read, nums1) = A \cup U(In(p, nums1))
    BY <1>6, <2>2
  <2>4. Held(id, p, read, nums) = A \cup U(In(p, nums))
    BY <1>6, <2>2
  <2> QED BY <2>1, <2>3, <2>4
<1> QED BY <1>5, <1>8, <1>12, <1>13 DEF Delivered

\* readThread: a child's packet is added to the buffer, once.
LEMMA ReadThreadInv ==
    ASSUME PprInv, NEW n \in Nodes, NEW x \in DOMAIN num[n] \ {Leaf}, ReadThread(n, x)
    PROVE  PprInv'
<1>1. Typed
  BY DEF PprInv
<1>2. PICK c, id, i, nums, nums1, key, min, T :
             /\ c = cur[n] /\ id = Id(n) /\ i = num[n][x] /\ nums = num[n]
             /\ nums1 = [nums EXCEPT ![x] = i + 1] /\ key = ReadList(c, id, x)
             /\ min = MinNum(nums1) /\ T = toSend'[n]
  OBVIOUS
<1>3. /\ c # 0 /\ i < toPull[n] /\ redis[key] # <<>>
      /\ pkt' = [pkt EXCEPT ![n][i] = Xor(pkt[n][i], Head(redis[key]))]
      /\ redis' = [redis EXCEPT ![key] = Tail(redis[key])]
      /\ num' = [num EXCEPT ![n] = nums1]
      /\ toSend' = IF toSend[n] < min THEN [toSend EXCEPT ![n] = min] ELSE toSend
      /\ UNCHANGED <<team, cmds, cur, toPull, se>>
  BY <1>2 DEF ReadThread, LetThrough, Pop, Release
<1>4. /\ c \in Requests /\ id \in Places0 /\ AtWork(n, c, id) /\ team[c][id] = n
      /\ \A k \in Places0 : team[c][k] = n => k = id
  BY <1>2, <1>3, AtPlace
<1>5. /\ nums \in [Pullers(id) -> 0..PktCnt] /\ se[n] <= toSend[n] /\ toPull[n] <= PktCnt
      /\ \A y \in Pullers(id) : toSend[n] <= nums[y] /\ nums[y] <= toPull[n]
      /\ \A p \in Pkts : pkt[n][p] = Sum(c, Held(id, p, toPull[n], nums), p)
  BY <1>2, <1>4 DEF AtWork
<1>6. x \in ChildrenOf(id, EcK) /\ Pullers(id) = ChildrenOf(id, EcK) /\ x \in Pullers(id)
  <2>1. x \in Pullers(id) /\ x # Leaf
    BY <1>2, <1>5
  <2> QED BY <1>4, <2>1, PullerFacts DEF Pullers
<1>7. /\ toPull[n] \in Nat /\ toSend[n] \in Nat /\ se[n] \in Nat /\ PktCnt \in Nat
      /\ i \in Nat /\ i \in Pkts /\ nums[x] = i /\ i + 1 <= toPull[n] /\ i + 1 \in 0..PktCnt
  <2>1. toPull[n] \in Nat /\ toSend[n] \in Nat /\ se[n] \in Nat /\ PktCnt \in Nat
    BY <1>1, Basics DEF Typed
  <2>2. i \in 0..PktCnt /\ nums[x] = i
    BY <1>2, <1>5, <1>6
  <2>3. i < PktCnt
    BY <1>3, <1>5, <2>1, <2>2
  <2> QED BY <1>3, <2>1, <2>2, <2>3 DEF Pkts
<1>8. /\ x \in Places0 /\ x # EcK /\ ParentOf(x, EcK) = id /\ x # id
      /\ key = WriteList(c, x) /\ key \in Lists
  BY <1>1, <1>2, <1>4, <1>6, ChildFacts, ListFacts
<1>9. /\ nums1 \in [Pullers(id) -> 0..PktCnt]
      /\ \A y \in Pullers(id) : nums1[y] = IF y = x THEN i + 1 ELSE nums[y]
      /\ num'[n] = nums1
      /\ \A m \in Nodes : m # n => num'[m] = num[m] /\ pkt'[m] = pkt[m] /\ toSend'[m] = toSend[m]
  <2>1. /\ nums1 \in [Pullers(id) -> 0..PktCnt]
        /\ \A y \in Pullers(id) : nums1[y] = IF y = x THEN i + 1 ELSE nums[y]
    BY <1>2, <1>5, <1>7
  <2>2. /\ num'[n] = nums1
        /\ \A m \in Nodes : m # n => num'[m] = num[m] /\ pkt'[m] = pkt[m] /\ toSend'[m] = toSend[m]
    BY <1>1, <1>3 DEF Typed
  <2> QED BY <2>1, <2>2
<1>10. min \in Nat /\ \A y \in Pullers(id) : min <= nums1[y]
  BY <1>2, <1>6, <1>9, MinNumFacts
<1>11. PICK t, l : t = Taken(c, x) /\ l = redis[key]
  OBVIOUS
<1>12. /\ t = i /\ l \in Seq(Packets) /\ l # <<>>
       /\ i + Len(l) = Sent(team[c][x], c)
       /\ \A k \in 1..Len(l) : l[k] = Sum(c, Sub(x), i + k - 1)
  <2>1. Fetched(n, c, x) = i
    BY <1>2 DEF Fetched
  <2>2. Taken(c, x) = i
    BY <1>4, <1>8, <2>1 DEF Taken
  <2>3. ListInv(c, x)
    BY <1>4, <1>8 DEF PprInv
  <2>4. l \in Seq(Packets) /\ l # <<>>
    BY <1>1, <1>3, <1>8, <1>11 DEF Typed
  <2> QED BY <1>8, <1>11, <2>2, <2>3, <2>4 DEF ListInv
<1>13. /\ Len(l) \in Nat \ {0} /\ Head(l) = l[1] /\ Tail(l) \in Seq(Packets)
       /\ Len(Tail(l)) = Len(l) - 1 /\ \A k \in 1..(Len(l) - 1) : Tail(l)[k] = l[k + 1]
       /\ Head(l) \in Packets
  BY <1>12
<1>14. Head(l) = Sum(c, Sub(x), i)
  BY <1>7, <1>12, <1>13
<1>15. \A J, p : Sum(c, J, p)' = Sum(c, J, p)
  BY <1>3 DEF Sum
<1>16. ASSUME NEW p \in Pkts PROVE pkt'[n][p] = Sum(c, Held(id, p, toPull[n], nums1), p)
  <2>1. /\ Held(id, i, toPull[n], nums1) = Held(id, i, toPull[n], nums) \cup Sub(x)
        /\ Held(id, i, toPull[n], nums) \cap Sub(x) = {}
        /\ Held(id, i, toPull[n], nums) \subseteq Places0 /\ Sub(x) \subseteq Places0
        /\ \A q \in Nat : q # i => Held(id, q, toPull[n], nums1) = Held(id, q, toPull[n], nums)
    <3>1. nums \in [ChildrenOf(id, EcK) -> 0..PktCnt]
      BY <1>5, <1>6
    <3>2. nums1 = [nums EXCEPT ![x] = i + 1] /\ nums[x] = i
      BY <1>2, <1>7
    <3>3. PICK rd : rd = toPull[n]
      OBVIOUS
    <3>4. id \in Places0 /\ x \in ChildrenOf(id, EcK) /\ i \in Nat
      BY <1>4, <1>6, <1>7
    <3>5. Delivered(id, x, i, rd, nums, nums1)
      BY ONLY <3>1, <3>2, <3>4, HeldNext
    <3> QED BY <3>3, <3>5 DEF Delivered
  <2>2. CASE p # i
    <3>1. pkt'[n][p] = pkt[n][p]
      BY <1>1, <1>3, <1>7, <2>2 DEF Typed
    <3>2. Held(id, p, toPull[n], nums1) = Held(id, p, toPull[n], nums)
      BY <2>1, <2>2, Basics
    <3> QED BY <1>5, <3>1, <3>2
  <2>3. CASE p = i
    <3>1. pkt'[n][i] = Xor(pkt[n][i], Head(l))
      BY <1>1, <1>3, <1>7, <1>11 DEF Typed
    <3>2. pkt[n][i] = Sum(c, Held(id, i, toPull[n], nums), i)
      BY <1>5, <1>7
    <3>3. Xor(Sum(c, Held(id, i, toPull[n], nums), i), Sum(c, Sub(x), i))
            = Sum(c, Held(id, i, toPull[n], nums) \cup Sub(x), i)
      BY <1>1, <1>4, <2>1, XorSum
    <3> QED BY <1>14, <2>1, <2>3, <3>1, <3>2, <3>3
  <2> QED BY <2>2, <2>3
<1>17. Typed'
  <2>1. redis' \in [Lists -> Seq(Packets)]
    <3>1. Tail(redis[key]) \in Seq(Packets)
      BY <1>11, <1>13
    <3> QED BY <1>1, <1>3, <3>1 DEF Typed
  <2>2. num' \in [Nodes -> Nums]
    <3>1. Pullers(id) \in SUBSET (Places0 \cup {Leaf})
      BY <1>4, PullerFacts
    <3>2. nums1 \in Nums
      BY <1>9, <3>1 DEF Nums
    <3> QED BY <1>1, <1>3, <3>2 DEF Typed
  <2>3. toSend' \in [Nodes -> Nat]
    BY <1>1, <1>3, <1>10 DEF Typed
  <2>4. pkt' \in [Nodes -> [Pkts -> Packets]]
    <3>1. Xor(pkt[n][i], Head(redis[key])) \in Packets
      <4>1. pkt[n][i] \in Packets /\ Head(redis[key]) \in Packets
        BY <1>1, <1>7, <1>11, <1>13 DEF Typed
      <4> QED BY <4>1 DEF Xor, Packets
    <3> QED BY <1>1, <1>3, <3>1 DEF Typed
  <2> QED BY <1>1, <1>3, <2>1, <2>2, <2>3, <2>4 DEF Typed
<1>18. AtWork(n, c, id)'
  <2>1. \A p \in Pkts : pkt'[n][p] = Sum(c, Held(id, p, toPull[n], nums1), p)'
    BY <1>3, <1>15, <1>16
  <2>2. ASSUME NEW y \in Pullers(id) PROVE T <= nums1[y] /\ nums1[y] <= toPull[n]
    <3>1. nums[y] \in Nat /\ nums1[y] \in Nat /\ toSend[n] <= nums[y] /\ nums[y] <= toPull[n]
      BY <1>5, <1>9
    <3>2. T = min \/ T = toSend[n]
      BY <1>1, <1>2, <1>3 DEF Typed
    <3>3. toSend[n] <= nums1[y] /\ nums1[y] <= toPull[n]
      BY <1>7, <1>9, <3>1
    <3> QED BY <1>10, <3>2, <3>3
  <2>3. se[n] <= T
    <3>1. (toSend[n] < min /\ T = min) \/ T = toSend[n]
      BY <1>1, <1>2, <1>3 DEF Typed
    <3> QED BY <1>5, <1>7, <1>10, <3>1
  <2> QED BY <1>2, <1>3, <1>5, <1>9, <2>1, <2>2, <2>3 DEF AtWork
<1>19. /\ \A m \in Nodes, d \in Requests : Sent(m, d)' = Sent(m, d)
       /\ \A m \in Nodes, d \in Requests :
            ~(m = n /\ d = c) => \A y : Fetched(m, d, y)' = Fetched(m, d, y)
       /\ \A y : Fetched(n, c, y) = nums[y] /\ Fetched(n, c, y)' = nums1[y]
  <2>1. /\ \A m \in Nodes, d \in Requests : m # n \/ d # c =>
             /\ Sent(m, d)' = Sent(m, d)
             /\ \A y : Fetched(m, d, y)' = Fetched(m, d, y)
        /\ Sent(n, c) = se[n] /\ Sent(n, c)' = se'[n]
        /\ \A y : Fetched(n, c, y) = num[n][y] /\ Fetched(n, c, y)' = num'[n][y]
    BY <1>2, <1>3, <1>4, <1>9, CountsFacts
  <2>2. \A m \in Nodes, d \in Requests : Sent(m, d)' = Sent(m, d)
    BY <1>3, <2>1
  <2> QED BY <1>2, <1>9, <2>1, <2>2
<1>20. ASSUME NEW d \in Requests, NEW z \in Places0 PROVE ListInv(d, z)'
  <2>1. CASE d # c \/ z # x
    <3>1. WriteList(d, z) # key /\ WriteList(d, z) \in Lists
      BY <1>1, <1>4, <1>8, <2>1, ListFacts
    <3>2. redis'[WriteList(d, z)] = redis[WriteList(d, z)]
      BY <1>1, <1>3, <1>8, <3>1 DEF Typed
    <3>3. ASSUME NEW m \in Nodes, z # EcK, m = team[d][ParentOf(z, EcK)]
          PROVE  Fetched(m, d, z)' = Fetched(m, d, z)
      <4>1. CASE ~(m = n /\ d = c)
        BY <1>19, <4>1
      <4>2. CASE m = n /\ d = c
        <5>1. ParentOf(z, EcK) = id
          BY <1>4, <3>3, <4>2, ChildFacts
        <5>2. z \in Pullers(id) /\ z # x
          BY <1>4, <1>6, <2>1, <3>3, <4>2, <5>1, ChildFacts
        <5> QED BY <1>9, <1>19, <4>2, <5>2
      <4> QED BY <4>1, <4>2
    <3> QED BY <1>3, <1>19, <3>2, <3>3, ListSame
  <2>2. CASE d = c /\ z = x
    <3>1. /\ WriteList(c, x)' = key /\ redis'[key] = Tail(l)
          /\ \A J, p : Sum(c, J, p)' = Sum(c, J, p)
      <4>1. WriteList(c, x)' = key
        BY <1>3, <1>8 DEF WriteList, TmpList, LostList
      <4> QED BY <1>1, <1>3, <1>8, <1>11, <1>15, <4>1 DEF Typed
    <3>2. Taken(c, x)' = i + 1
      <4>1. Fetched(n, c, x)' = i + 1
        BY <1>6, <1>9, <1>19
      <4>2. Taken(c, x)' = Fetched(n, c, x)'
        BY <1>3, <1>4, <1>8 DEF Taken
      <4> QED BY <4>1, <4>2
    <3>3. Sent(team[c][x], c)' = Sent(team[c][x], c)
      <4>1. PICK m \in Nodes : m = team[c][x]
        BY <1>1, <1>4, <1>8, TeamFacts
      <4>2. Sent(m, c)' = Sent(m, c)
        BY <1>4, <1>19
      <4>3. Sent(team[c][x], c)' = Sent(m, c)'
        BY <1>3, <4>1 DEF Sent, Pending
      <4> QED BY <4>1, <4>2, <4>3
    <3>4. (i + 1) + Len(Tail(l)) = i + Len(l)
      BY <1>7, <1>13
    <3>5. ASSUME NEW k \in 1..Len(Tail(l)) PROVE Tail(l)[k] = Sum(c, Sub(x), (i + 1) + k - 1)
      <4>1. k \in 1..(Len(l) - 1) /\ k + 1 \in 1..Len(l) /\ k \in Nat
        BY <1>13
      <4>2. Tail(l)[k] = Sum(c, Sub(x), i + (k + 1) - 1)
        BY <1>12, <1>13, <4>1
      <4>3. i + (k + 1) - 1 = (i + 1) + k - 1
        BY <1>7, <4>1
      <4> QED BY <4>2, <4>3
    <3>6. ListInv(c, x)'
      BY <1>12, <3>1, <3>2, <3>3, <3>4, <3>5 DEF ListInv
    <3> QED BY <2>2, <3>6
  <2> QED BY <2>1, <2>2
<1> QED BY <1>2, <1>3, <1>4, <1>9, <1>17, <1>18, <1>20, WorkStep

LEMMA NextInv == PprInv /\ [Next]_vars => PprInv'
<1> SUFFICES ASSUME PprInv, [Next]_vars PROVE PprInv'
  OBVIOUS
<1>1. ASSUME NEW n \in Nodes, TakeCmd(n) PROVE PprInv'
  BY <1>1, TakeCmdInv
<1>2. ASSUME NEW n \in Nodes, ReadWorker(n) PROVE PprInv'
  BY <1>2, ReadWorkerInv
<1>3. ASSUME NEW n \in Nodes, Puller(n) PROVE PprInv'
  BY <1>3, PullerInv
<1>4. ASSUME NEW n \in Nodes, NEW x \in DOMAIN num[n] \ {Leaf}, ReadThread(n, x) PROVE PprInv'
  BY <1>4, ReadThreadInv
<1>5. ASSUME NEW n \in Nodes, Send(n) PROVE PprInv'
  BY <1>5, SendInv
<1>6. ASSUME NEW n \in Nodes, Finish(n) PROVE PprInv'
  BY <1>6, FinishInv
<1>7. CASE UNCHANGED vars
  <2>1. /\ team' = team /\ cmds' = cmds /\ cur' = cur /\ redis' = redis /\ pkt' = pkt
        /\ toPull' = toPull /\ toSend' = toSend /\ num' = num /\ se' = se
    BY <1>7 DEF vars
  <2>2. Typed'
    BY <2>1 DEF PprInv, Typed
  <2>3. CmdsInv' /\ \A m, c : Pending(m, c)' = Pending(m, c)
    BY <2>1, CmdsSame
  <2>4. \A m \in Nodes : NodeInv(m)'
    BY <2>1, OthersSame
  <2>5. \A m, c : Sent(m, c)' = Sent(m, c) /\ \A x : Fetched(m, c, x)' = Fetched(m, c, x)
    BY <2>1, <2>3 DEF Sent, Fetched
  <2>6. \A c \in Requests, x \in Places0 : ListInv(c, x)'
    BY <2>1, <2>5, ListSame
  <2> QED BY <2>2, <2>3, <2>4, <2>6 DEF PprInv
<1> QED BY <1>1, <1>2, <1>3, <1>4, <1>5, <1>6, <1>7 DEF Next

\* doProcess and the threads it starts keep the invariant, for every number of
\* requests, nodes, helpers and packets, in every interleaving of the nodes and
\* of the threads on a node, notifications missed or not.
THEOREM PprInductive == Spec => []PprInv
BY InitInv, NextInv, PTL DEF Spec

\* The list of the repaired block is one nobody fetches from: it holds the
\* requestor's sums from the first on, and the requestor's sum is all helpers'.
LEMMA Rebuilt == PprInv => LostBlockRebuilt
<1> SUFFICES ASSUME PprInv, NEW c \in Requests,
                    NEW k \in 1..Len(redis[LostList(team[c][EcK], c)])
             PROVE  redis[LostList(team[c][EcK], c)][k]
                      = UNION {Term(team[c][i], c, k - 1) : i \in 0..(EcK - 1)}
  BY DEF LostBlockRebuilt
<1>1. PICK l : l = redis[LostList(team[c][EcK], c)]
  OBVIOUS
<1>2. Typed /\ ListInv(c, EcK)
  BY Basics DEF PprInv
<1>3. WriteList(c, EcK) = LostList(team[c][EcK], c) /\ Taken(c, EcK) = 0
  BY <1>2, Basics, ListFacts DEF Taken
<1>4. l[k] = Sum(c, Sub(EcK), 0 + k - 1)
  BY <1>1, <1>2, <1>3 DEF ListInv
<1>5. Sub(EcK) = 0..(EcK - 1)
  BY DEF Sub
<1>6. 0 + k - 1 = k - 1
  OBVIOUS
<1>7. Sum(c, 0..(EcK - 1), k - 1) = UNION {Term(team[c][i], c, k - 1) : i \in 0..(EcK - 1)}
  BY DEF Sum, Term
<1> QED BY <1>1, <1>4, <1>5, <1>6, <1>7

\* Packet k in the requestor's Redis is the sum of packet k of every helper, each
\* exactly once, for every number of helpers the tree is built of.
THEOREM PprRebuilds == Spec => []LostBlockRebuilt
BY PprInductive, Rebuilt, PTL
=============================================================================
