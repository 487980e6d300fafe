------------------------- MODULE ConvDRWorkerProofs -------------------------
(***************************************************************************)
(* Conventional repair, for any number of requests, nodes, helpers, lost   *)
(* blocks and packets: the requestor rebuilds every packet of every lost   *)
(* block from that packet of all helpers, and frees its buffers only when  *)
(* no thread uses them.                                                    *)
(*                                                                         *)
(* The lists are named after the request, so what passes through one is    *)
(* the work of one command of the helper and one of the requestor.  A node *)
(* carries out its commands in the order of the requests, each once        *)
(* (CmdsInv); what it has sent or fetched for a request is therefore 0     *)
(* before the command, its counter during it and everything after it       *)
(* (Sent, Fetched, Rebuilt), and the list holds the packets in between     *)
(* (TmpInv).  At the requestor, the count the main thread waits for never  *)
(* exceeds what any helper has delivered (FetchInv), so a packet is        *)
(* combined from packets that are all there.                               *)
(***************************************************************************)
EXTENDS ConvDRWorker, DataInduction

\* The terms of a packet read from a block, and of a repaired one.
RawTerms == Nodes \X Requests \X Pkts
Packets == (SUBSET RawTerms) \cup SUBSET (RawTerms \X Jobs \X Ids)

\* The teams of Init: helpers by id and, last, the requestor, all different.
Teams == {s \in [0..EcK -> Nodes] : \A i, k \in 0..EcK : s[i] = s[k] => i = k}

\* The types of the variables the argument needs.
Typed ==
  /\ team \in [Requests -> Teams] /\ cmds \in [Nodes -> Seq(Requests)]
  /\ cur \in [Nodes -> Requests \cup {0}] /\ redis \in [Lists -> Seq(Packets)]
  /\ pkt \in [Nodes -> [Pkts -> Packets]] /\ flag \in [Nodes -> [Pkts -> BOOLEAN]]
  /\ toSend \in [Nodes -> Nat] /\ toPull \in [Nodes -> Nat]
  /\ num \in [Nodes -> [Ids -> Nat]] /\ alloc \in [Nodes -> BOOLEAN]
  /\ buf \in [Nodes -> [Pkts -> [Ids -> Packets]]]
  /\ sum \in [Nodes -> [Pkts -> [Jobs -> Packets]]]
  /\ rd \in [Nodes -> Nat] /\ pu \in [Nodes -> Nat] /\ se \in [Nodes -> Nat]

\* Request c waits in dr_cmds of node n.
Pending(n, c) == \E i \in 1..Len(cmds[n]) : cmds[n][i] = c

\* A node gets the commands of the requests it has a part in, in their order,
\* hence each of them once.
CmdsInv ==
  \A n \in Nodes :
    /\ \A i, k \in 1..Len(cmds[n]) : i < k => cmds[n][i] < cmds[n][k]
    /\ \A i \in 1..Len(cmds[n]) : cur[n] < cmds[n][i]
    /\ \A c \in Requests : cur[n] = c \/ Pending(n, c) => \E i \in 0..EcK : team[c][i] = n

\* The threads of a helper: the sender behind the main thread behind the reader,
\* whose progress the flags tell and whose packets are those of its block.
HelperInv(n) ==
  \A c \in Requests : cur[n] = c /\ team[c][EcK] # n =>
    /\ se[n] <= toSend[n] /\ toSend[n] = pu[n] /\ pu[n] <= rd[n] /\ rd[n] <= PktCnt
    /\ \A p \in Pkts : flag[n][p] <=> p < rd[n]
    /\ \A p \in Pkts : p < rd[n] => pkt[n][p] = Raw(n, c, p)

\* What the readThreads of the requestor n of c have stored, and counted.
FetchInv(n, c) ==
  /\ \A i \in Ids : toPull[n] <= num[n][i] /\ num[n][i] <= PktCnt
  /\ \A i \in Ids, p \in Pkts : p < num[n][i] => buf[n][p][i] = Raw(team[c][i], c, p)

\* The threads of a requestor: the sender behind the main thread, which has
\* combined only packets that every helper has delivered; the buffers are there
\* until the last one is sent.
AtWork(n, c) ==
  /\ se[n] <= toSend[n] /\ toSend[n] = pu[n] /\ pu[n] <= Nj * toPull[n]
  /\ rd[n] = 0 => toPull[n] = 0
  /\ rd[n] # 0 => rd[n] = 1 /\ FetchInv(n, c)
  /\ \A p \in Pkts, j \in Jobs : p * Nj + j < pu[n] => sum[n][p][j] = Repaired(c, j, p)
  /\ alloc[n] <=> rd[n] = 1 /\ se[n] < Total

RequestorInv(n) ==
  \A c \in Requests : cur[n] = c /\ team[c][EcK] = n => AtWork(n, c)

\* Between two requests: flags down, buffers freed.
IdleInv(n) ==
  /\ (\A c \in Requests : cur[n] = c => team[c][EcK] = n) => \A p \in Pkts : ~flag[n][p]
  /\ (\A c \in Requests : cur[n] = c => team[c][EcK] # n) => ~alloc[n]

\* How many packets of request c helper n has sent, requestor n has fetched
\* from helper i, and requestor n has sent: none before it takes the command and
\* all after it has carried it out.
Sent(n, c) == IF cur[n] = c THEN se[n] ELSE IF Pending(n, c) THEN 0 ELSE PktCnt
Fetched(n, c, i) == IF cur[n] = c THEN IF rd[n] = 0 THEN 0 ELSE num[n][i]
                    ELSE IF Pending(n, c) THEN 0 ELSE PktCnt
Rebuilt(n, c) == IF cur[n] = c THEN se[n] ELSE IF Pending(n, c) THEN 0 ELSE Total

\* List s holds the packets of helper n for request c from packet q up to t.
Between(s, n, c, q, t) ==
  q + Len(s) = t /\ \A k \in 1..Len(s) : s[k] = Raw(n, c, q + k - 1)

\* The lists from the helpers to the requestor.
TmpInv ==
  \A c \in Requests, i \in Ids : \A n, m \in Nodes :
    team[c][i] = n /\ team[c][EcK] = m =>
      Between(redis[TmpList(c, i)], n, c, Fetched(m, c, i), Sent(n, c))

\* How many of the first k results are packets of lost block j.
Rows(k, j) == k \div Nj + (IF j < k % Nj THEN 1 ELSE 0)

\* The lists of the repaired blocks.
LostInv ==
  \A c \in Requests, j \in Jobs : \A m \in Nodes : team[c][EcK] = m =>
    /\ Len(redis[LostList(c, j)]) = Rows(Rebuilt(m, c), j)
    /\ \A k \in 1..Len(redis[LostList(c, j)]) :
         redis[LostList(c, j)][k] = Repaired(c, j, k - 1)

\* The inductive invariant.
ConvInv ==
  /\ Typed /\ CmdsInv
  /\ \A n \in Nodes : HelperInv(n) /\ RequestorInv(n) /\ IdleInv(n)
  /\ TmpInv /\ LostInv

-----------------------------------------------------------------------------
\* The number k of a result and its packet and lost block.
LEMMA Position ==
    ASSUME NEW k \in Nat
    PROVE  /\ k \div Nj \in Nat /\ k % Nj \in Jobs /\ k = (k \div Nj) * Nj + (k % Nj)
           /\ \A p \in Nat, j \in Jobs : k = p * Nj + j => p = k \div Nj /\ j = k % Nj
<1>1. Nj \in Nat \ {0}
  BY ConvAssumption
<1>2. PICK P, J : P = k \div Nj /\ J = k % Nj
  OBVIOUS
<1>3. P \in Nat /\ J \in 0..(Nj - 1) /\ k = P * Nj + J
  BY <1>1, <1>2
<1>4. ASSUME NEW p \in Nat, NEW j \in 0..(Nj - 1), k = p * Nj + j PROVE p = P /\ j = J
  <2>1. P * Nj + J = p * Nj + j
    BY <1>3, <1>4
  <2>2. CASE p = P
    BY <1>1, <1>3, <2>1, <2>2
  <2>3. CASE p < P
    <3>1. p * Nj + Nj <= P * Nj
      <4>1. PICK e \in Nat : P = p + 1 + e
        <5>1. P - p - 1 \in Nat /\ P = p + 1 + (P - p - 1)
          BY <1>3, <2>3
        <5> QED BY <5>1
      <4>2. P * Nj = p * Nj + Nj + e * Nj /\ e * Nj \in Nat
        BY <1>1, <4>1
      <4>3. p * Nj \in Nat
        BY <1>1
      <4> QED BY <1>1, <4>2, <4>3
    <3>2. p * Nj \in Nat /\ P * Nj \in Nat
      BY <1>1, <1>3
    <3> QED BY <1>1, <1>3, <2>1, <3>1, <3>2
  <2>4. CASE P < p
    <3>1. P * Nj + Nj <= p * Nj
      <4>1. PICK e \in Nat : p = P + 1 + e
        <5>1. p - P - 1 \in Nat /\ p = P + 1 + (p - P - 1)
          BY <1>3, <2>4
        <5> QED BY <5>1
      <4>2. p * Nj = P * Nj + Nj + e * Nj /\ e * Nj \in Nat
        BY <1>1, <1>3, <4>1
      <4>3. P * Nj \in Nat
        BY <1>1, <1>3
      <4> QED BY <1>1, <4>2, <4>3
    <3>2. p * Nj \in Nat /\ P * Nj \in Nat
      BY <1>1, <1>3
    <3> QED BY <1>1, <1>3, <2>1, <3>1, <3>2
  <2> QED BY <1>3, <2>2, <2>3, <2>4
<1> QED BY <1>2, <1>3, <1>4 DEF Jobs

\* The result after result k: the next lost block, or the first one of the next
\* packet.
LEMMA NextPosition ==
    ASSUME NEW k \in Nat
    PROVE  IF (k % Nj) + 1 < Nj
             THEN (k + 1) \div Nj = k \div Nj /\ (k + 1) % Nj = (k % Nj) + 1
             ELSE (k + 1) \div Nj = k \div Nj + 1 /\ (k + 1) % Nj = 0
<1>1. Nj \in Nat \ {0} /\ k + 1 \in Nat
  BY ConvAssumption
<1>2. PICK P, J : P = k \div Nj /\ J = k % Nj
  OBVIOUS
<1>3. P \in Nat /\ J \in 0..(Nj - 1) /\ k = P * Nj + J
  BY <1>2, Position DEF Jobs
<1>4. CASE J + 1 < Nj
  <2>1. J + 1 \in Jobs /\ k + 1 = P * Nj + (J + 1)
    BY <1>1, <1>3, <1>4 DEF Jobs
  <2> QED BY ZenonT(40), <1>1, <1>2, <1>3, <1>4, <2>1, Position
<1>5. CASE ~(J + 1 < Nj)
  <2>1. 0 \in Jobs /\ k + 1 = (P + 1) * Nj + 0 /\ P + 1 \in Nat
    <3>1. J + 1 = Nj
      BY <1>1, <1>3, <1>5
    <3>2. (P + 1) * Nj = P * Nj + Nj /\ P * Nj \in Nat
      BY <1>1, <1>3
    <3> QED BY <1>1, <1>3, <3>1, <3>2 DEF Jobs
  <2>2. \A p \in Nat, j \in Jobs :
          k + 1 = p * Nj + j => p = (k + 1) \div Nj /\ j = (k + 1) % Nj
    BY <1>1, Position
  <2>3. P + 1 = (k + 1) \div Nj /\ 0 = (k + 1) % Nj
    BY <2>1, <2>2
  <2> QED BY <1>2, <1>5, <2>3
<1> QED BY <1>2, <1>4, <1>5

\* sendMulWorker adds one packet to the list of one lost block.
LEMMA RowsNext ==
    ASSUME NEW k \in Nat, NEW j \in Jobs
    PROVE  /\ Rows(0, j) = 0 /\ Rows(k, j) \in Nat
           /\ Rows(k + 1, j) = IF j = k % Nj THEN Rows(k, j) + 1 ELSE Rows(k, j)
           /\ j = k % Nj => Rows(k, j) = k \div Nj
<1>1. Nj \in Nat \ {0} /\ j \in 0..(Nj - 1)
  BY ConvAssumption DEF Jobs
<1>2. PICK P, J : P = k \div Nj /\ J = k % Nj
  OBVIOUS
<1>3. P \in Nat /\ J \in 0..(Nj - 1)
  BY <1>2, Position DEF Jobs
<1>4. Rows(k, j) = P + (IF j < J THEN 1 ELSE 0)
  BY <1>2 DEF Rows
<1>5. Rows(0, j) = 0
  <2>1. 0 = 0 * Nj + 0 /\ 0 \in Jobs
    BY <1>1 DEF Jobs
  <2>2. 0 \div Nj = 0 /\ 0 % Nj = 0
    BY <2>1, Position
  <2> QED BY <1>1, <2>2 DEF Rows
<1>6. CASE J + 1 < Nj
  <2>1. Rows(k + 1, j) = P + (IF j < J + 1 THEN 1 ELSE 0)
    BY <1>2, <1>6, NextPosition DEF Rows
  <2> QED BY <1>1, <1>2, <1>3, <1>4, <1>5, <2>1
<1>7. CASE ~(J + 1 < Nj)
  <2>1. Rows(k + 1, j) = (P + 1) + (IF j < 0 THEN 1 ELSE 0)
    BY <1>2, <1>7, NextPosition DEF Rows
  <2>2. J = Nj - 1
    BY <1>1, <1>3, <1>7
  <2> QED BY <1>1, <1>2, <1>3, <1>4, <1>5, <2>1, <2>2
<1> QED BY <1>6, <1>7

\* Counting in results and counting in packets.
LEMMA Counts ==
    /\ Total \in Nat \ {0} /\ Total = Nj * PktCnt
    /\ \A a, b \in Nat : a < b => Nj * a + Nj <= Nj * b
    /\ \A a \in Nat : Nj * a \in Nat /\ Nj * (a + 1) = Nj * a + Nj
<1>1. Nj \in Nat \ {0} /\ PktCnt \in Nat \ {0}
  BY ConvAssumption
<1>2. \A a \in Nat : Nj * a \in Nat /\ Nj * (a + 1) = Nj * a + Nj
  BY <1>1
<1>3. ASSUME NEW a \in Nat, NEW b \in Nat, a < b PROVE Nj * a + Nj <= Nj * b
  <2>1. PICK e \in Nat : b = a + 1 + e
    <3>1. b - a - 1 \in Nat /\ b = a + 1 + (b - a - 1)
      BY <1>3
    <3> QED BY <3>1
  <2>2. Nj * b = Nj * a + Nj + Nj * e
    BY <1>1, <2>1
  <2>3. Nj * e \in Nat /\ Nj * a \in Nat
    BY <1>2
  <2> QED BY <1>1, <2>2, <2>3
<1>4. Total \in Nat \ {0}
  <2>1. PICK e \in Nat : PktCnt = e + 1
    <3>1. PktCnt - 1 \in Nat /\ PktCnt = (PktCnt - 1) + 1
      BY <1>1
    <3> QED BY <3>1
  <2>2. Total = Nj * e + Nj /\ Nj * e \in Nat
    BY <1>2, <2>1 DEF Total
  <2> QED BY <1>1, <2>2
<1> QED BY <1>1, <1>2, <1>3, <1>4 DEF Total

\* The results up to k: their packet is below t when k is below t packets.
LEMMA PositionBelow ==
    ASSUME NEW k \in Nat, NEW t \in Nat
    PROVE  /\ k < Nj * t <=> k \div Nj < t
           /\ k <= Nj * t /\ k % Nj # 0 => k < Nj * t
<1>1. Nj \in Nat \ {0}
  BY ConvAssumption
<1>2. PICK P, J, X : P = k \div Nj /\ J = k % Nj /\ X = Nj * P
  OBVIOUS
<1>3. P \in Nat /\ J \in 0..(Nj - 1) /\ k = X + J /\ X \in Nat
  <2>1. P \in Nat /\ J \in 0..(Nj - 1) /\ k = P * Nj + J
    BY <1>2, Position DEF Jobs
  <2>2. P * Nj = X /\ X \in Nat
    BY <1>1, <1>2, <2>1
  <2> QED BY <2>1, <2>2
<1>4. PICK Y : Y = Nj * t
  OBVIOUS
<1>5. Y \in Nat /\ (P < t => X + Nj <= Y) /\ (t < P => Y + Nj <= X) /\ (t = P => Y = X)
  BY <1>2, <1>3, <1>4, Counts
<1>6. (k < Y <=> P < t) /\ (k <= Y /\ J # 0 => k < Y)
  BY <1>1, <1>3, <1>5
<1> QED BY <1>2, <1>4, <1>6

\* The minimum the readThreads compute.
LEMMA MinNumFacts ==
    ASSUME NEW nums \in [Ids -> Nat]
    PROVE  MinNum(nums) \in Nat /\ \A i \in Ids : MinNum(nums) <= nums[i]
<1>1. PICK S : S = {nums[i] : i \in Ids}
  OBVIOUS
<1>2. 0 \in Ids
  BY ConvAssumption DEF Ids
<1>3. S \subseteq Nat /\ S # {} /\ \A i \in Ids : nums[i] \in S
  BY <1>1, <1>2
<1>4. \E x \in S : \A y \in S : x <= y
  BY <1>3, LeastNat
<1>5. Min(S) \in S /\ \A y \in S : Min(S) <= y
  BY <1>4 DEF Min
<1> QED BY <1>1, <1>3, <1>5 DEF MinNum

\* The nodes of a request.
LEMMA TeamFacts ==
    ASSUME Typed, NEW c \in Requests
    PROVE  /\ EcK \in 0..EcK /\ EcK \notin Ids /\ EcK \in Nat \ {0}
           /\ \A i \in Ids : i \in 0..EcK
           /\ \A i \in 0..EcK : team[c][i] \in Nodes /\ (i # EcK => i \in Ids)
           /\ \A i, k \in 0..EcK : team[c][i] = team[c][k] => i = k
<1>1. team[c] \in Teams
  BY DEF Typed
<1>2. /\ EcK \in 0..EcK /\ EcK \notin Ids /\ EcK \in Nat \ {0}
      /\ \A i \in Ids : i \in 0..EcK
      /\ \A i \in 0..EcK : i # EcK => i \in Ids
  BY ConvAssumption DEF Ids
<1> QED BY <1>1, <1>2 DEF Teams

\* The sum over the helpers is the repaired packet.
LEMMA CombineFacts ==
    ASSUME Typed, NEW c \in Requests, NEW p \in Pkts, NEW j \in Jobs,
           NEW v \in [Ids -> Packets], \A i \in Ids : v[i] = Raw(team[c][i], c, p)
    PROVE  Combine(v, j) = Repaired(c, j, p) /\ Repaired(c, j, p) \in Packets
<1>1. EcK \in Nat /\ Ids = 0..(EcK - 1)
  BY ConvAssumption DEF Ids
<1>2. PICK D, t : D = 0..EcK /\ t = team[c]
  OBVIOUS
<1>3. \A i \in Ids : t[i] \in Nodes
  BY <1>2, TeamFacts
<1> DEFINE V == SUBSET (RawTerms \X Jobs \X Ids)
           term(i) == <<<<t[i], c, p>>, j, i>>
           Body(F) == [i \in 0..EcK |-> IF i = 0 THEN {}
                                   ELSE Xor(F[i - 1], Multiply(v[i - 1], j, i - 1))]
           step == [x \in D \X V |-> IF x[1] = 0 THEN {}
                                     ELSE Xor(x[2], {term(x[1] - 1)})]
           part(i) == {term(k) : k \in 0..(i - 1)}
<1>4. \A i \in Ids : Multiply(v[i], j, i) = {term(i)} /\ {term(i)} \in V
  <2>1. ASSUME NEW i \in Ids PROVE Multiply(v[i], j, i) = {term(i)} /\ {term(i)} \in V
    <3>1. v[i] = {<<t[i], c, p>>}
      BY <1>2 DEF Raw
    <3>2. Multiply(v[i], j, i) = {term(i)}
      BY <3>1 DEF Multiply
    <3>3. <<t[i], c, p>> \in RawTerms
      BY <1>3 DEF RawTerms
    <3> QED BY <3>2, <3>3
  <2> QED BY <2>1
<1>5. step \in [D \X V -> V]
  <2>1. ASSUME NEW x \in D \X V PROVE (IF x[1] = 0 THEN {} ELSE Xor(x[2], {term(x[1] - 1)})) \in V
    <3>1. x[1] \in D /\ x[2] \in V
      OBVIOUS
    <3>2. CASE x[1] = 0
      BY <3>2
    <3>3. CASE x[1] # 0
      <4>1. x[1] - 1 \in Ids
        BY <1>1, <1>2, <3>1, <3>3
      <4>2. {term(x[1] - 1)} \in V
        BY <1>4, <4>1
      <4> HIDE DEF term
      <4> QED BY <3>1, <3>3, <4>2 DEF Xor
    <3> QED BY <3>2, <3>3
  <2> HIDE DEF V, term
  <2> QED BY <2>1
<1>6. PICK F : IsCounted(F, D, V, {}, step)
  <2>1. {} \in V
    OBVIOUS
  <2> HIDE DEF V, step
  <2> QED BY <1>1, <1>2, <1>5, <2>1, CountingRecursion
<1>7. F \in [D -> V] /\ \A i \in D : F[i] = IF i = 0 THEN {} ELSE Xor(F[i - 1], {term(i - 1)})
  <2>1. F \in [D -> V] /\ \A i \in D : F[i] = IF i = 0 THEN {} ELSE step[<<i, F[i - 1]>>]
    BY <1>6 DEF IsCounted
  <2>2. ASSUME NEW i \in D, i # 0 PROVE step[<<i, F[i - 1]>>] = Xor(F[i - 1], {term(i - 1)})
    <3>1. i - 1 \in D
      BY <1>1, <1>2, <2>2
    <3>2. <<i, F[i - 1]>> \in D \X V
      BY <2>1, <3>1
    <3> HIDE DEF V, term
    <3> QED BY <2>2, <3>2
  <2> QED BY <2>1, <2>2
<1>8. F = Body(F)
  <2>1. \A i \in 0..EcK : i # 0 => i - 1 \in Ids
    BY <1>1
  <2>2. F = [i \in 0..EcK |-> F[i]]
    BY <1>2, <1>7
  <2>3. \A i \in 0..EcK : F[i] = IF i = 0 THEN {} ELSE Xor(F[i - 1], Multiply(v[i - 1], j, i - 1))
    <3> HIDE DEF V, term
    <3> QED BY <1>2, <1>4, <1>7, <2>1
  <2> QED BY <2>2, <2>3
<1> DEFINE q == CHOOSE G : G = Body(G)
<1>9. Combine(v, j) = q[EcK]
  BY DEF Combine
<1>10. q = Body(q)
  <2> HIDE DEF Body
  <2> QED BY <1>8
<1>11. \A i \in 0..EcK : q[i] = IF i = 0 THEN {} ELSE Xor(q[i - 1], Multiply(v[i - 1], j, i - 1))
  <2> HIDE DEF q
  <2>1. \A i \in 0..EcK : q[i] = Body(q)[i]
    <3> HIDE DEF Body
    <3> QED BY <1>10
  <2>2. \A i \in 0..EcK :
          Body(q)[i] = IF i = 0 THEN {} ELSE Xor(q[i - 1], Multiply(v[i - 1], j, i - 1))
    OBVIOUS
  <2> HIDE DEF Body
  <2> QED BY <2>1, <2>2
<1> HIDE DEF q
<1> DEFINE S == {n \in Nat : n <= EcK => q[n] = part(n)}
<1>12. 0 \in S
  <2>1. part(0) = {} /\ 0 \in 0..EcK
    BY <1>1
  <2> HIDE DEF part
  <2> QED BY <1>11, <2>1
<1>13. ASSUME NEW n \in Nat, n \in S PROVE n + 1 \in S
  <2>1. SUFFICES ASSUME n + 1 <= EcK PROVE q[n + 1] = part(n + 1)
    OBVIOUS
  <2>2. n \in Ids /\ n + 1 \in 0..EcK /\ n + 1 # 0 /\ (n + 1) - 1 = n /\ n <= EcK
    BY <1>1, <2>1
  <2>3. q[n] = part(n)
    <3> HIDE DEF part
    <3> QED BY <1>13, <2>2
  <2>4. q[n + 1] = Xor(part(n), {term(n)})
    <3> HIDE DEF term, part
    <3> QED BY <1>4, <1>11, <2>2, <2>3
  <2>5. term(n) \notin part(n)
    OBVIOUS
  <2>6. part(n + 1) = part(n) \cup {term(n)}
    <3>1. \A k : k \in 0..n <=> k \in 0..(n - 1) \/ k = n
      OBVIOUS
    <3>2. part(n + 1) = {term(k) : k \in 0..n}
      BY <2>2
    <3> HIDE DEF term
    <3> QED BY <3>1, <3>2
  <2> HIDE DEF term, part
  <2> QED BY <2>4, <2>5, <2>6 DEF Xor
<1>14. EcK \in S
  <2> HIDE DEF S
  <2> QED BY <1>1, <1>12, <1>13, SetInduction
<1>15. Combine(v, j) = part(EcK)
  <2> HIDE DEF part
  <2> QED BY <1>1, <1>9, <1>14
<1>16. part(EcK) = Repaired(c, j, p)
  BY <1>1, <1>2 DEF Repaired
<1>17. part(EcK) \in V
  <2>1. part(EcK) = {term(k) : k \in Ids}
    BY <1>1
  <2>2. \A k \in Ids : term(k) \in RawTerms \X Jobs \X Ids
    BY <1>4
  <2> HIDE DEF term, part
  <2> QED BY <2>1, <2>2
<1>18. V \subseteq Packets
  BY DEF Packets
<1> HIDE DEF V, part
<1> QED BY <1>15, <1>16, <1>17, <1>18

\* The teams never change, nor does what depends on them alone.
LEMMA Fixed ==
    ASSUME team' = team
    PROVE  /\ \A c, j, p : Repaired(c, j, p)' = Repaired(c, j, p)
           /\ \A c : Requestor(c)' = Requestor(c)
BY DEF Repaired, Requestor

\* A helper's id is its place in the team, and it is not the requestor.
LEMMA IdFacts ==
    ASSUME Typed, CmdsInv, NEW n \in Nodes, IsHelper(n)
    PROVE  /\ cur[n] \in Requests /\ team[cur[n]][EcK] # n
           /\ Id(n) \in Ids /\ team[cur[n]][Id(n)] = n
<1>1. PICK c : c = cur[n]
  OBVIOUS
<1>2. c \in Requests /\ team[c][EcK] # n
  BY <1>1 DEF IsHelper, Typed, Requestor
<1>3. \E i \in 0..EcK : team[c][i] = n
  BY <1>1, <1>2 DEF CmdsInv
<1>4. PICK i \in Ids : team[c][i] = n
  BY <1>2, <1>3, TeamFacts
<1>5. Id(n) = CHOOSE k \in Ids : team[c][k] = n
  BY <1>1 DEF Id
<1>6. Id(n) \in Ids /\ team[c][Id(n)] = n
  BY <1>4, <1>5
<1> QED BY <1>1, <1>2, <1>6

\* The nodes that take no part in a step.
LEMMA OthersSame ==
    ASSUME ConvInv, NEW m \in Nodes, team' = team,
           cur'[m] = cur[m], pkt'[m] = pkt[m], flag'[m] = flag[m], toSend'[m] = toSend[m],
           toPull'[m] = toPull[m], num'[m] = num[m], alloc'[m] = alloc[m], buf'[m] = buf[m],
           sum'[m] = sum[m], rd'[m] = rd[m], pu'[m] = pu[m], se'[m] = se[m]
    PROVE  HelperInv(m)' /\ RequestorInv(m)' /\ IdleInv(m)'
<1>1. HelperInv(m) /\ RequestorInv(m) /\ IdleInv(m)
  BY DEF ConvInv
<1>2. HelperInv(m)'
  BY <1>1 DEF HelperInv
<1>3. RequestorInv(m)'
  <2>1. \A c : FetchInv(m, c)' = FetchInv(m, c)
    BY DEF FetchInv
  <2> QED BY <1>1, <2>1, Fixed DEF RequestorInv, AtWork
<1>4. IdleInv(m)'
  BY <1>1 DEF IdleInv
<1> QED BY <1>2, <1>3, <1>4

\* The commands when nobody takes or finishes one.
LEMMA CmdsSame ==
    ASSUME ConvInv, UNCHANGED <<team, cmds, cur>>
    PROVE  CmdsInv' /\ \A n, c : Pending(n, c)' = Pending(n, c)
<1>1. team' = team /\ cmds' = cmds /\ cur' = cur /\ CmdsInv
  BY DEF ConvInv
<1>2. \A n, c : Pending(n, c)' = Pending(n, c)
  BY <1>1 DEF Pending
<1> QED BY <1>1, <1>2 DEF CmdsInv

\* The lists when nothing is pushed or popped and all that was counted stays.
LEMMA ListsSame ==
    ASSUME ConvInv, team' = team, redis' = redis,
           \A n \in Nodes, c \in Requests :
             /\ team[c][EcK] # n => Sent(n, c)' = Sent(n, c)
             /\ team[c][EcK] = n => /\ Rebuilt(n, c)' = Rebuilt(n, c)
                                    /\ \A i \in Ids : Fetched(n, c, i)' = Fetched(n, c, i)
    PROVE  TmpInv' /\ LostInv'
<1>1. Typed /\ TmpInv /\ LostInv
  BY DEF ConvInv
<1>2. TmpInv'
  <2>1. SUFFICES ASSUME NEW c \in Requests, NEW i \in Ids, NEW n \in Nodes, NEW m \in Nodes,
                        team'[c][i] = n, team'[c][EcK] = m
                 PROVE  Between(redis[TmpList(c, i)], n, c, Fetched(m, c, i), Sent(n, c))'
    BY DEF TmpInv
  <2>2. team[c][i] = n /\ team[c][EcK] = m /\ n # m
    BY <1>1, <2>1, TeamFacts
  <2>3. Between(redis[TmpList(c, i)], n, c, Fetched(m, c, i), Sent(n, c))
    BY <1>1, <2>2 DEF TmpInv
  <2>4. Fetched(m, c, i)' = Fetched(m, c, i) /\ Sent(n, c)' = Sent(n, c)
    BY <2>2
  <2> QED BY <2>3, <2>4 DEF Between, TmpList, Raw
<1>3. LostInv'
  <2>1. SUFFICES ASSUME NEW c \in Requests, NEW j \in Jobs, NEW m \in Nodes, team'[c][EcK] = m
                 PROVE  /\ Len(redis'[LostList(c, j)]) = Rows(Rebuilt(m, c), j)'
                        /\ \A k \in 1..Len(redis'[LostList(c, j)]) :
                             redis'[LostList(c, j)][k] = Repaired(c, j, k - 1)'
    BY DEF LostInv, LostList
  <2>2. Rebuilt(m, c)' = Rebuilt(m, c)
    BY <2>1
  <2>3. Rows(Rebuilt(m, c), j)' = Rows(Rebuilt(m, c), j)
    BY <2>2 DEF Rows
  <2>4. \A k : Repaired(c, j, k - 1)' = Repaired(c, j, k - 1)
    BY DEF Repaired
  <2> QED BY <1>1, <2>1, <2>3, <2>4 DEF LostInv
<1> QED BY <1>2, <1>3

\* doProcess takes a command: all counters start again.
LEMMA TakeCmdInv == ASSUME ConvInv, NEW n \in Nodes, TakeCmd(n) PROVE ConvInv'
<1>1. Typed /\ CmdsInv /\ \A m \in Nodes : HelperInv(m) /\ RequestorInv(m) /\ IdleInv(m)
  BY DEF ConvInv
<1>2. PICK d, s : d = Head(cmds[n]) /\ s = cmds[n]
  OBVIOUS
<1>3. /\ cur[n] = 0 /\ s # <<>> /\ s \in Seq(Requests)
      /\ cur' = [cur EXCEPT ![n] = d] /\ cmds' = [cmds EXCEPT ![n] = Tail(s)]
      /\ toSend' = [toSend EXCEPT ![n] = 0]
      /\ toPull' = IF team[d][EcK] = n THEN [toPull EXCEPT ![n] = 0] ELSE toPull
      /\ rd' = [rd EXCEPT ![n] = 0] /\ pu' = [pu EXCEPT ![n] = 0] /\ se' = [se EXCEPT ![n] = 0]
      /\ team' = team /\ redis' = redis /\ pkt' = pkt /\ flag' = flag /\ num' = num
      /\ alloc' = alloc /\ buf' = buf /\ sum' = sum
  BY <1>1, <1>2 DEF TakeCmd, Typed, Requestor
<1>4. PICK u : u = Tail(s)
  OBVIOUS
<1>5. /\ u \in Seq(Requests) /\ Len(s) \in Nat \ {0} /\ Len(u) = Len(s) - 1 /\ d = s[1]
      /\ \A i \in 1..Len(u) : u[i] = s[i + 1] /\ i + 1 \in 1..Len(s)
      /\ 1 \in 1..Len(s) /\ d \in Requests
      /\ \A i \in 1..Len(s) : i = 1 \/ (i - 1 \in 1..Len(u) /\ s[i] = u[i - 1])
  <2>1. /\ u \in Seq(Requests) /\ Len(s) \in Nat \ {0} /\ Len(u) = Len(s) - 1 /\ d = s[1]
        /\ \A i \in 1..Len(u) : u[i] = s[i + 1]
    BY <1>2, <1>3, <1>4
  <2>2. /\ \A i \in 1..Len(u) : i + 1 \in 1..Len(s)
        /\ 1 \in 1..Len(s)
    BY <2>1
  <2>3. d \in Requests
    BY <1>3, <2>1, <2>2, ElementOfSeq
  <2>4. ASSUME NEW i \in 1..Len(s), i # 1 PROVE i - 1 \in 1..Len(u) /\ s[i] = u[i - 1]
    <3>1. i - 1 \in 1..Len(u) /\ (i - 1) + 1 = i
      BY <2>1, <2>4
    <3> QED BY <2>1, <3>1
  <2> QED BY <2>1, <2>2, <2>3, <2>4
<1>6. /\ \A i, k \in 1..Len(s) : i < k => s[i] < s[k]
      /\ \A c \in Requests : Pending(n, c) => \E i \in 0..EcK : team[c][i] = n
      /\ \A c : Pending(n, c) <=> \E i \in 1..Len(s) : s[i] = c
  BY <1>1, <1>2 DEF CmdsInv, Pending
<1>7. /\ cur'[n] = d /\ cmds'[n] = u /\ toSend'[n] = 0 /\ rd'[n] = 0 /\ pu'[n] = 0 /\ se'[n] = 0
      /\ \A m \in Nodes : m # n => /\ cur'[m] = cur[m] /\ cmds'[m] = cmds[m]
                                   /\ toSend'[m] = toSend[m] /\ toPull'[m] = toPull[m]
                                   /\ rd'[m] = rd[m] /\ pu'[m] = pu[m] /\ se'[m] = se[m]
      /\ team[d][EcK] = n => toPull'[n] = 0
  BY <1>1, <1>3, <1>4 DEF Typed
<1>8. Typed'
  <2>1. /\ cur' \in [Nodes -> Requests \cup {0}] /\ cmds' \in [Nodes -> Seq(Requests)]
        /\ toSend' \in [Nodes -> Nat] /\ toPull' \in [Nodes -> Nat] /\ rd' \in [Nodes -> Nat]
        /\ pu' \in [Nodes -> Nat] /\ se' \in [Nodes -> Nat]
    BY <1>1, <1>3, <1>4, <1>5 DEF Typed
  <2> QED BY <1>1, <1>3, <2>1 DEF Typed
<1>9. \A c \in Requests : Pending(n, c)' <=> (Pending(n, c) /\ c # d)
  <2>1. ASSUME NEW c \in Requests PROVE Pending(n, c)' <=> (Pending(n, c) /\ c # d)
    <3>1. Pending(n, c)' <=> \E i \in 1..Len(u) : u[i] = c
      BY <1>7 DEF Pending
    <3>2. ASSUME NEW i \in 1..Len(u), u[i] = c PROVE Pending(n, c) /\ c # d
      <4>1. s[i + 1] = c /\ i + 1 \in 1..Len(s) /\ 1 < i + 1
        BY <1>5, <3>2
      <4>2. d < c /\ d \in Nat /\ c \in Nat
        BY <1>5, <1>6, <4>1 DEF Requests
      <4> QED BY <1>6, <4>1, <4>2
    <3>3. ASSUME NEW i \in 1..Len(s), s[i] = c, c # d PROVE \E k \in 1..Len(u) : u[k] = c
      BY <1>5, <3>3
    <3> QED BY <1>6, <3>1, <3>2, <3>3
  <2> QED BY <2>1
<1>10. \A m \in Nodes, c \in Requests : m # n => (Pending(m, c)' <=> Pending(m, c))
  BY <1>7 DEF Pending
<1>11. Pending(n, d)
  BY <1>5, <1>6
<1>12. CmdsInv'
  <2>1. ASSUME NEW m \in Nodes
        PROVE  /\ \A i, k \in 1..Len(cmds'[m]) : i < k => cmds'[m][i] < cmds'[m][k]
               /\ \A i \in 1..Len(cmds'[m]) : cur'[m] < cmds'[m][i]
               /\ \A c \in Requests : cur'[m] = c \/ Pending(m, c)' =>
                    \E i \in 0..EcK : team[c][i] = m
    <3>1. CASE m # n
      BY <1>1, <1>7, <1>10, <3>1 DEF CmdsInv
    <3>2. CASE m = n
      <4>1. ASSUME NEW i \in 1..Len(u), NEW k \in 1..Len(u), i < k PROVE u[i] < u[k]
        <5>1. i + 1 < k + 1 /\ i + 1 \in 1..Len(s) /\ k + 1 \in 1..Len(s)
          BY <1>5, <4>1
        <5> QED BY <1>5, <1>6, <5>1
      <4>2. \A i \in 1..Len(u) : d < u[i]
        BY <1>5, <1>6
      <4>3. \A c \in Requests : d = c \/ Pending(n, c)' => \E i \in 0..EcK : team[c][i] = n
        BY <1>6, <1>9, <1>11
      <4> QED BY <1>7, <3>2, <4>1, <4>2, <4>3
    <3> QED BY <3>1, <3>2
  <2> QED BY <1>3, <2>1 DEF CmdsInv
<1>13. ASSUME NEW m \in Nodes PROVE HelperInv(m)' /\ RequestorInv(m)' /\ IdleInv(m)'
  <2>1. CASE m # n
    BY <1>3, <1>7, <2>1, OthersSame
  <2>2. CASE m = n
    <3>1. 0 \notin Requests /\ \A p \in Pkts : ~(p < 0) /\ p \in Nat
      BY ConvAssumption DEF Requests, Pkts
    <3>2. (\A p \in Pkts : ~flag[n][p]) /\ ~alloc[n]
      BY <1>1, <1>3, <3>1 DEF IdleInv
    <3>3. HelperInv(n)'
      BY <1>3, <1>7, <3>1, <3>2, ConvAssumption DEF HelperInv
    <3>4. RequestorInv(n)'
      <4>1. \A p \in Pkts, j \in Jobs : ~(p * Nj + j < 0)
        BY ConvAssumption DEF Pkts, Jobs
      <4>2. Nj * 0 = 0
        BY ConvAssumption
      <4> QED BY <1>3, <1>7, <3>2, <4>1, <4>2 DEF RequestorInv, AtWork
    <3>5. IdleInv(n)'
      BY <1>3, <3>2 DEF IdleInv
    <3> QED BY <2>2, <3>3, <3>4, <3>5
  <2> QED BY <2>1, <2>2
<1>14. \A m \in Nodes, c \in Requests :
         /\ Sent(m, c)' = Sent(m, c) /\ Rebuilt(m, c)' = Rebuilt(m, c)
         /\ \A i \in Ids : Fetched(m, c, i)' = Fetched(m, c, i)
  <2>1. ASSUME NEW m \in Nodes, NEW c \in Requests, m # n
        PROVE  /\ Sent(m, c)' = Sent(m, c) /\ Rebuilt(m, c)' = Rebuilt(m, c)
               /\ \A i \in Ids : Fetched(m, c, i)' = Fetched(m, c, i)
    BY <1>3, <1>7, <1>10, <2>1 DEF Sent, Rebuilt, Fetched
  <2>2. ASSUME NEW c \in Requests
        PROVE  /\ Sent(n, c)' = Sent(n, c) /\ Rebuilt(n, c)' = Rebuilt(n, c)
               /\ \A i \in Ids : Fetched(n, c, i)' = Fetched(n, c, i)
    <3>1. c # 0
      BY ConvAssumption DEF Requests
    <3>2. CASE c = d
      BY <1>3, <1>7, <1>11, <3>1, <3>2 DEF Sent, Rebuilt, Fetched
    <3>3. CASE c # d
      BY <1>3, <1>7, <1>9, <3>1, <3>3 DEF Sent, Rebuilt, Fetched
    <3> QED BY <3>2, <3>3
  <2> QED BY <2>1, <2>2
<1>15. TmpInv' /\ LostInv'
  BY <1>3, <1>14, ListsSame
<1> QED BY <1>8, <1>12, <1>13, <1>15 DEF ConvInv

\* The request is done: its packets are all sent, or all fetched and rebuilt.
LEMMA FinishInv == ASSUME ConvInv, NEW n \in Nodes, Finish(n) PROVE ConvInv'
<1>1. Typed /\ CmdsInv /\ \A m \in Nodes : HelperInv(m) /\ RequestorInv(m) /\ IdleInv(m)
  BY DEF ConvInv
<1>2. PICK d : d = cur[n]
  OBVIOUS
<1>3. /\ Joined(n) /\ cur' = [cur EXCEPT ![n] = 0] /\ toSend' = [toSend EXCEPT ![n] = 0]
      /\ flag' = [flag EXCEPT ![n] = [p \in Pkts |-> FALSE]]
      /\ pkt' = [pkt EXCEPT ![n] = NoPkts]
      /\ team' = team /\ cmds' = cmds /\ redis' = redis /\ toPull' = toPull /\ num' = num
      /\ alloc' = alloc /\ buf' = buf /\ sum' = sum /\ rd' = rd /\ pu' = pu /\ se' = se
  BY DEF Finish
<1>4. /\ d \in Requests /\ d # 0 /\ 0 \notin Requests
      /\ \/ team[d][EcK] # n /\ se[n] = PktCnt
         \/ /\ team[d][EcK] = n /\ se[n] = Total /\ rd[n] = 1
            /\ \A i \in Ids : num[n][i] = PktCnt
  BY <1>1, <1>2, <1>3, ConvAssumption
     DEF Joined, IsHelper, IsRequestor, Requestor, Typed, Requests
<1>5. /\ cur'[n] = 0 /\ toSend'[n] = 0 /\ \A p \in Pkts : ~flag'[n][p]
      /\ \A m \in Nodes : m # n => /\ cur'[m] = cur[m] /\ toSend'[m] = toSend[m]
                                   /\ flag'[m] = flag[m] /\ pkt'[m] = pkt[m]
  BY <1>1, <1>3 DEF Typed
<1>6. Typed'
  <2>1. NoPkts \in [Pkts -> Packets] /\ [p \in Pkts |-> FALSE] \in [Pkts -> BOOLEAN]
    BY DEF NoPkts, Packets
  <2>2. /\ cur' \in [Nodes -> Requests \cup {0}] /\ toSend' \in [Nodes -> Nat]
        /\ flag' \in [Nodes -> [Pkts -> BOOLEAN]] /\ pkt' \in [Nodes -> [Pkts -> Packets]]
    BY <1>1, <1>3, <2>1 DEF Typed
  <2> QED BY <1>1, <1>3, <2>2 DEF Typed
<1>7. \A m, c : Pending(m, c)' = Pending(m, c)
  BY <1>3 DEF Pending
<1>8. CmdsInv'
  <2>1. \A m \in Nodes : \A i \in 1..Len(cmds[m]) : cmds[m][i] \in Requests /\ cmds[m][i] \in Nat
    <3>1. ASSUME NEW m \in Nodes, NEW i \in 1..Len(cmds[m]) PROVE cmds[m][i] \in Requests
      <4>1. cmds[m] \in Seq(Requests)
        BY <1>1 DEF Typed
      <4> QED BY <4>1, ElementOfSeq
    <3> QED BY <3>1 DEF Requests
  <2>2. \A i \in 1..Len(cmds[n]) : 0 < cmds[n][i]
    BY <1>4, <2>1
  <2> QED BY <1>1, <1>3, <1>4, <1>5, <1>7, <2>2 DEF CmdsInv
<1>9. ASSUME NEW m \in Nodes PROVE HelperInv(m)' /\ RequestorInv(m)' /\ IdleInv(m)'
  <2>1. CASE m # n
    BY <1>3, <1>5, <2>1, OthersSame
  <2>2. CASE m = n
    <3>1. HelperInv(n)' /\ RequestorInv(n)'
      BY <1>4, <1>5 DEF HelperInv, RequestorInv, AtWork
    <3>2. ~alloc[n]
      <4>1. CASE team[d][EcK] = n
        <5>1. alloc[n] => se[n] < Total
          BY <1>1, <1>2, <1>4, <4>1 DEF RequestorInv, AtWork
        <5> QED BY <1>1, <1>4, <4>1, <5>1, Counts DEF Typed
      <4>2. CASE team[d][EcK] # n
        BY <1>1, <1>2, <4>2 DEF IdleInv
      <4> QED BY <4>1, <4>2
    <3>3. IdleInv(n)'
      BY <1>3, <1>5, <3>2 DEF IdleInv
    <3> QED BY <2>2, <3>1, <3>3
  <2> QED BY <2>1, <2>2
<1>10. ~Pending(n, d)
  <2>1. \A i \in 1..Len(cmds[n]) : d < cmds[n][i]
    BY <1>1, <1>2 DEF CmdsInv
  <2>2. d \in Nat /\ ~(d < d)
    BY <1>4 DEF Requests
  <2> QED BY <2>1, <2>2 DEF Pending
<1>11. ASSUME NEW m \in Nodes, NEW c \in Requests
       PROVE  /\ team[c][EcK] # m => Sent(m, c)' = Sent(m, c)
              /\ team[c][EcK] = m => /\ Rebuilt(m, c)' = Rebuilt(m, c)
                                     /\ \A i \in Ids : Fetched(m, c, i)' = Fetched(m, c, i)
  <2>1. CASE m # n \/ c # d
    BY <1>2, <1>3, <1>4, <1>5, <1>7, <2>1 DEF Sent, Rebuilt, Fetched
  <2>2. CASE m = n /\ c = d
    <3>1. cur[n] = d /\ cur'[n] # d /\ ~Pending(n, d)'
      BY <1>2, <1>4, <1>5, <1>7, <1>10
    <3>2. Sent(n, d)' = PktCnt /\ Rebuilt(n, d)' = Total /\ \A i \in Ids : Fetched(n, d, i)' = PktCnt
      BY <3>1 DEF Sent, Rebuilt, Fetched
    <3>3. Sent(n, d) = se[n] /\ Rebuilt(n, d) = se[n]
          /\ \A i \in Ids : rd[n] = 1 => Fetched(n, d, i) = num[n][i]
      BY <3>1 DEF Sent, Rebuilt, Fetched
    <3> QED BY <1>4, <2>2, <3>2, <3>3
  <2> QED BY <2>1, <2>2
<1>12. TmpInv' /\ LostInv'
  BY <1>3, <1>11, ListsSame
<1> QED BY <1>6, <1>8, <1>9, <1>12 DEF ConvInv

\* readWorker of a helper: the next packet of its block, and its flag.
LEMMA ReadWorkerInv == ASSUME ConvInv, NEW n \in Nodes, ReadWorker(n) PROVE ConvInv'
<1>1. Typed /\ CmdsInv /\ \A m \in Nodes : HelperInv(m) /\ RequestorInv(m) /\ IdleInv(m)
  BY DEF ConvInv
<1>2. PICK i, d : i = rd[n] /\ d = cur[n]
  OBVIOUS
<1>3. /\ IsHelper(n) /\ i < PktCnt /\ pkt' = [pkt EXCEPT ![n][i] = Raw(n, d, i)]
      /\ flag' = [flag EXCEPT ![n][i] = TRUE] /\ rd' = [rd EXCEPT ![n] = i + 1]
      /\ team' = team /\ cmds' = cmds /\ cur' = cur /\ redis' = redis /\ toSend' = toSend
      /\ toPull' = toPull /\ num' = num /\ alloc' = alloc /\ buf' = buf /\ sum' = sum
      /\ pu' = pu /\ se' = se
  BY <1>2 DEF ReadWorker
<1>4. d \in Requests /\ team[d][EcK] # n
  BY <1>1, <1>2, <1>3, IdFacts
<1>5. i \in Nat /\ i \in Pkts /\ Raw(n, d, i) \in Packets
  <2>1. i \in Nat
    BY <1>1, <1>2 DEF Typed
  <2>2. i \in Pkts
    BY <1>3, <2>1, ConvAssumption DEF Pkts
  <2> QED BY <1>4, <2>1, <2>2 DEF Raw, Packets, RawTerms
<1>6. /\ rd'[n] = i + 1 /\ pkt'[n][i] = Raw(n, d, i) /\ flag'[n][i] = TRUE
      /\ \A p \in Pkts : p # i => pkt'[n][p] = pkt[n][p] /\ flag'[n][p] = flag[n][p]
      /\ \A m \in Nodes : m # n => pkt'[m] = pkt[m] /\ flag'[m] = flag[m] /\ rd'[m] = rd[m]
  BY <1>1, <1>3, <1>5 DEF Typed
<1>7. Typed'
  <2>1. pkt' \in [Nodes -> [Pkts -> Packets]] /\ flag' \in [Nodes -> [Pkts -> BOOLEAN]]
        /\ rd' \in [Nodes -> Nat]
    BY <1>1, <1>3, <1>5 DEF Typed
  <2> QED BY <1>1, <1>3, <2>1 DEF Typed
<1>8. CmdsInv' /\ \A m, c : Pending(m, c)' = Pending(m, c)
  BY <1>3, CmdsSame
<1>9. ASSUME NEW m \in Nodes PROVE HelperInv(m)' /\ RequestorInv(m)' /\ IdleInv(m)'
  <2>1. CASE m # n
    BY <1>3, <1>6, <2>1, OthersSame
  <2>2. CASE m = n
    <3>1. HelperInv(n)'
      <4>1. /\ se[n] <= toSend[n] /\ toSend[n] = pu[n] /\ pu[n] <= i
            /\ \A p \in Pkts : flag[n][p] <=> p < i
            /\ \A p \in Pkts : p < i => pkt[n][p] = Raw(n, d, p)
        BY <1>1, <1>2, <1>4 DEF HelperInv
      <4>2. \A p \in Pkts : p < i + 1 <=> p < i \/ p = i
        BY <1>5 DEF Pkts
      <4>3. pu[n] <= i + 1 /\ i + 1 <= PktCnt
        BY <1>1, <1>3, <1>5, <4>1, ConvAssumption DEF Typed
      <4>4. \A p \in Pkts : flag'[n][p] <=> p < i + 1
        BY <1>5, <1>6, <4>1, <4>2
      <4>5. \A p \in Pkts : p < i + 1 => pkt'[n][p] = Raw(n, d, p)
        BY <1>6, <4>1, <4>2
      <4> QED BY <1>2, <1>3, <1>6, <4>1, <4>3, <4>4, <4>5 DEF HelperInv, Raw
    <3>2. RequestorInv(n)' /\ IdleInv(n)'
      BY <1>1, <1>2, <1>3, <1>4 DEF RequestorInv, AtWork, IdleInv
    <3> QED BY <2>2, <3>1, <3>2
  <2> QED BY <2>1, <2>2
<1>10. ASSUME NEW m \in Nodes, NEW c \in Requests
       PROVE  /\ Sent(m, c)' = Sent(m, c) /\ Rebuilt(m, c)' = Rebuilt(m, c)
              /\ team[c][EcK] = m => \A k \in Ids : Fetched(m, c, k)' = Fetched(m, c, k)
  BY <1>2, <1>3, <1>4, <1>6, <1>8 DEF Sent, Rebuilt, Fetched
<1>11. TmpInv' /\ LostInv'
  BY <1>3, <1>10, ListsSame
<1> QED BY <1>7, <1>8, <1>9, <1>11 DEF ConvInv

\* requestorCompletion of a helper counts a packet whose flag is up.
LEMMA CountInv == ASSUME ConvInv, NEW n \in Nodes, RequestorCompletion(n) PROVE ConvInv'
<1>1. Typed /\ CmdsInv /\ \A m \in Nodes : HelperInv(m) /\ RequestorInv(m) /\ IdleInv(m)
  BY DEF ConvInv
<1>2. PICK i, d : i = pu[n] /\ d = cur[n]
  OBVIOUS
<1>3. /\ IsHelper(n) /\ i < PktCnt /\ flag[n][i]
      /\ toSend' = [toSend EXCEPT ![n] = toSend[n] + 1] /\ pu' = [pu EXCEPT ![n] = i + 1]
      /\ team' = team /\ cmds' = cmds /\ cur' = cur /\ redis' = redis /\ pkt' = pkt
      /\ flag' = flag /\ toPull' = toPull /\ num' = num /\ alloc' = alloc /\ buf' = buf
      /\ sum' = sum /\ rd' = rd /\ se' = se
  BY <1>2 DEF RequestorCompletion, CountForSender
<1>4. d \in Requests /\ team[d][EcK] # n
  BY <1>1, <1>2, <1>3, IdFacts
<1>5. i \in Nat /\ i \in Pkts
  BY <1>1, <1>2, <1>3, ConvAssumption DEF Typed, Pkts
<1>6. /\ toSend'[n] = toSend[n] + 1 /\ pu'[n] = i + 1
      /\ \A m \in Nodes : m # n => toSend'[m] = toSend[m] /\ pu'[m] = pu[m]
  BY <1>1, <1>3 DEF Typed
<1>7. Typed'
  <2>1. toSend' \in [Nodes -> Nat] /\ pu' \in [Nodes -> Nat]
    BY <1>1, <1>3, <1>5 DEF Typed
  <2> QED BY <1>1, <1>3, <2>1 DEF Typed
<1>8. CmdsInv' /\ \A m, c : Pending(m, c)' = Pending(m, c)
  BY <1>3, CmdsSame
<1>9. ASSUME NEW m \in Nodes PROVE HelperInv(m)' /\ RequestorInv(m)' /\ IdleInv(m)'
  <2>1. CASE m # n
    BY <1>3, <1>6, <2>1, OthersSame
  <2>2. CASE m = n
    <3>1. HelperInv(n)'
      <4>1. /\ se[n] <= toSend[n] /\ toSend[n] = i /\ rd[n] <= PktCnt
            /\ \A p \in Pkts : flag[n][p] <=> p < rd[n]
            /\ \A p \in Pkts : p < rd[n] => pkt[n][p] = Raw(n, d, p)
        BY <1>1, <1>2, <1>4 DEF HelperInv
      <4>2. i + 1 <= rd[n] /\ se[n] <= i + 1
        BY <1>1, <1>3, <1>5, <4>1 DEF Typed
      <4> QED BY <1>2, <1>3, <1>6, <4>1, <4>2 DEF HelperInv, Raw
    <3>2. RequestorInv(n)' /\ IdleInv(n)'
      BY <1>1, <1>2, <1>3, <1>4 DEF RequestorInv, AtWork, IdleInv
    <3> QED BY <2>2, <3>1, <3>2
  <2> QED BY <2>1, <2>2
<1>10. ASSUME NEW m \in Nodes, NEW c \in Requests
       PROVE  /\ Sent(m, c)' = Sent(m, c) /\ Rebuilt(m, c)' = Rebuilt(m, c)
              /\ \A k \in Ids : Fetched(m, c, k)' = Fetched(m, c, k)
  BY <1>3, <1>8 DEF Sent, Rebuilt, Fetched
<1>11. TmpInv' /\ LostInv'
  BY <1>3, <1>10, ListsSame
<1> QED BY <1>7, <1>8, <1>9, <1>11 DEF ConvInv

\* The lists of different requests, helpers, lost blocks and purposes.
LEMMA ListNames ==
    /\ \A c, d, i, k : TmpList(c, i) = TmpList(d, k) => c = d /\ i = k
    /\ \A c, d, i, k : LostList(c, i) = LostList(d, k) => c = d /\ i = k
    /\ \A c, d, i, k : TmpList(c, i) # LostList(d, k)
    /\ \A c \in Requests, i \in Ids : TmpList(c, i) \in Lists
    /\ \A c \in Requests, j \in Jobs : LostList(c, j) \in Lists
BY DEF TmpList, LostList, Lists

\* What was sent and fetched are numbers.
LEMMA CountedNat ==
    ASSUME Typed, NEW n \in Nodes, NEW c, NEW i \in Ids
    PROVE  Sent(n, c) \in Nat /\ Rebuilt(n, c) \in Nat /\ Fetched(n, c, i) \in Nat
<1>1. se[n] \in Nat /\ num[n][i] \in Nat /\ PktCnt \in Nat /\ Total \in Nat
  BY ConvAssumption, Counts DEF Typed
<1> QED BY <1>1 DEF Sent, Rebuilt, Fetched

\* The lists of the repaired blocks, when none is added to.
LEMMA LostSame ==
    ASSUME ConvInv, team' = team,
           \A c \in Requests, j \in Jobs : redis'[LostList(c, j)] = redis[LostList(c, j)],
           \A n \in Nodes, c \in Requests : team[c][EcK] = n => Rebuilt(n, c)' = Rebuilt(n, c)
    PROVE  LostInv'
<1>1. SUFFICES ASSUME NEW c \in Requests, NEW j \in Jobs, NEW m \in Nodes, team'[c][EcK] = m
               PROVE  /\ Len(redis'[LostList(c, j)]) = Rows(Rebuilt(m, c), j)'
                      /\ \A k \in 1..Len(redis'[LostList(c, j)]) :
                           redis'[LostList(c, j)][k] = Repaired(c, j, k - 1)'
  BY DEF LostInv, LostList
<1>2. Rows(Rebuilt(m, c), j)' = Rows(Rebuilt(m, c), j)
  BY <1>1 DEF Rows
<1>3. \A k : Repaired(c, j, k - 1)' = Repaired(c, j, k - 1)
  BY DEF Repaired
<1> QED BY <1>1, <1>2, <1>3 DEF ConvInv, LostInv

\* sendWorker of a helper: the next packet of its block goes to the requestor.
LEMMA SendWorkerInv == ASSUME ConvInv, NEW n \in Nodes, SendWorker(n) PROVE ConvInv'
<1>1. Typed /\ CmdsInv /\ TmpInv /\ \A m \in Nodes : HelperInv(m) /\ RequestorInv(m) /\ IdleInv(m)
  BY DEF ConvInv
<1>2. PICK j, d, h, key, v, s : /\ j = se[n] /\ d = cur[n] /\ h = Id(n)
                                /\ key = TmpList(d, h) /\ v = pkt[n][j] /\ s = redis[key]
  OBVIOUS
<1>3. /\ IsHelper(n) /\ j < toSend[n] /\ redis' = [redis EXCEPT ![key] = Append(s, v)]
      /\ se' = [se EXCEPT ![n] = j + 1]
      /\ team' = team /\ cmds' = cmds /\ cur' = cur /\ pkt' = pkt /\ flag' = flag
      /\ toSend' = toSend /\ toPull' = toPull /\ num' = num /\ alloc' = alloc /\ buf' = buf
      /\ sum' = sum /\ rd' = rd /\ pu' = pu
  BY <1>2 DEF SendWorker, Push
<1>4. d \in Requests /\ team[d][EcK] # n /\ h \in Ids /\ team[d][h] = n
  BY <1>1, <1>2, <1>3, IdFacts
<1>5. /\ toSend[n] = pu[n] /\ pu[n] <= rd[n] /\ rd[n] <= PktCnt
      /\ \A p \in Pkts : p < rd[n] => pkt[n][p] = Raw(n, d, p)
      /\ \A p \in Pkts : flag[n][p] <=> p < rd[n]
  BY <1>1, <1>2, <1>4 DEF HelperInv
<1>6. j \in Nat /\ j \in Pkts /\ j < rd[n] /\ j + 1 <= toSend[n]
  <2>1. j \in Nat /\ pu[n] \in Nat /\ rd[n] \in Nat /\ toSend[n] \in Nat /\ PktCnt \in Nat
    BY <1>1, <1>2, ConvAssumption DEF Typed
  <2> QED BY <1>3, <1>5, <2>1 DEF Pkts
<1>7. v = Raw(n, d, j) /\ v \in Packets
  <2>1. v = Raw(n, d, j)
    BY <1>2, <1>5, <1>6
  <2> QED BY <1>4, <1>6, <2>1 DEF Raw, Packets, RawTerms
<1>8. key \in Lists /\ s \in Seq(Packets) /\ Append(s, v) \in Seq(Packets)
  BY <1>1, <1>2, <1>4, <1>7, ListNames DEF Typed
<1>9. /\ se'[n] = j + 1 /\ \A m \in Nodes : m # n => se'[m] = se[m]
      /\ redis'[key] = Append(s, v) /\ \A l \in Lists : l # key => redis'[l] = redis[l]
  BY <1>1, <1>3, <1>8 DEF Typed
<1>10. Typed'
  <2>1. redis' \in [Lists -> Seq(Packets)] /\ se' \in [Nodes -> Nat]
    BY <1>1, <1>3, <1>6, <1>8 DEF Typed
  <2> QED BY <1>1, <1>3, <2>1 DEF Typed
<1>11. CmdsInv' /\ \A m, c : Pending(m, c)' = Pending(m, c)
  BY <1>3, CmdsSame
<1>12. ASSUME NEW m \in Nodes PROVE HelperInv(m)' /\ RequestorInv(m)' /\ IdleInv(m)'
  <2>1. CASE m # n
    BY <1>3, <1>9, <2>1, OthersSame
  <2>2. CASE m = n
    <3>1. HelperInv(n)'
      BY <1>2, <1>3, <1>5, <1>6, <1>9 DEF HelperInv, Raw
    <3>2. RequestorInv(n)' /\ IdleInv(n)'
      BY <1>1, <1>2, <1>3, <1>4 DEF RequestorInv, AtWork, IdleInv
    <3> QED BY <2>2, <3>1, <3>2
  <2> QED BY <2>1, <2>2
<1>13. /\ \A m \in Nodes, c \in Requests :
            Sent(m, c)' = IF m = n /\ c = d THEN j + 1 ELSE Sent(m, c)
       /\ Sent(n, d) = j
       /\ \A m \in Nodes, c \in Requests : team[c][EcK] = m =>
            /\ Rebuilt(m, c)' = Rebuilt(m, c)
            /\ \A i \in Ids : Fetched(m, c, i)' = Fetched(m, c, i)
  BY <1>2, <1>3, <1>4, <1>9, <1>11 DEF Sent, Rebuilt, Fetched
<1>14. TmpInv'
  <2>1. SUFFICES ASSUME NEW c \in Requests, NEW i \in Ids, NEW w \in Nodes, NEW m \in Nodes,
                        team'[c][i] = w, team'[c][EcK] = m
                 PROVE  Between(redis[TmpList(c, i)], w, c, Fetched(m, c, i), Sent(w, c))'
    BY DEF TmpInv
  <2>2. team[c][i] = w /\ team[c][EcK] = m /\ w # m
    BY <1>1, <1>3, <2>1, TeamFacts
  <2>3. PICK u, q, t : u = redis[TmpList(c, i)] /\ q = Fetched(m, c, i) /\ t = Sent(w, c)
    OBVIOUS
  <2>4. Between(u, w, c, q, t)
    BY <1>1, <2>2, <2>3 DEF TmpInv
  <2>5. q \in Nat /\ t \in Nat /\ Fetched(m, c, i)' = q
    BY <1>1, <1>13, <2>2, <2>3, CountedNat
  <2>6. CASE w = n /\ c = d
    <3>1. i = h
      BY <1>1, <1>4, <2>2, <2>6, TeamFacts
    <3>2. u = s /\ t = j /\ Sent(w, c)' = j + 1 /\ redis'[TmpList(c, i)] = Append(s, v)
      BY <1>2, <1>9, <1>13, <2>3, <2>6, <3>1
    <3>3. PICK x : x = Append(s, v)
      OBVIOUS
    <3>4. /\ Len(s) \in Nat /\ Len(x) = Len(s) + 1 /\ x[Len(s) + 1] = v
          /\ \A k \in 1..Len(s) : x[k] = s[k]
      BY <1>7, <1>8, <3>3
    <3>5. q + Len(s) = j /\ \A k \in 1..Len(s) : s[k] = Raw(w, c, q + k - 1)
      BY <2>4, <3>2 DEF Between
    <3>6. Between(x, w, c, q, j + 1)
      <4>1. q + Len(x) = j + 1
        BY <2>5, <3>4, <3>5
      <4>2. ASSUME NEW k \in 1..Len(x) PROVE x[k] = Raw(w, c, q + k - 1)
        <5>1. CASE k \in 1..Len(s)
          BY <3>4, <3>5, <5>1
        <5>2. CASE k = Len(s) + 1
          <6>1. q + k - 1 = j
            BY <2>5, <3>4, <3>5, <5>2
          <6> QED BY <1>7, <2>6, <3>4, <5>2, <6>1
        <5> QED BY <3>4, <5>1, <5>2
      <4> QED BY <4>1, <4>2 DEF Between
    <3> QED BY <2>5, <3>2, <3>3, <3>6 DEF Between, Raw, TmpList
  <2>7. CASE ~(w = n /\ c = d)
    <3>1. TmpList(c, i) # key /\ TmpList(c, i) \in Lists
      BY <1>2, <1>4, <2>2, <2>7, ListNames
    <3>2. redis'[TmpList(c, i)] = u /\ Sent(w, c)' = t
      BY <1>9, <1>13, <2>3, <2>7, <3>1
    <3> QED BY <2>4, <2>5, <3>2 DEF Between, Raw, TmpList
  <2> QED BY <2>6, <2>7
<1>15. LostInv'
  <2>1. \A c \in Requests, k \in Jobs : redis'[LostList(c, k)] = redis[LostList(c, k)]
    BY <1>2, <1>9, ListNames
  <2> QED BY <1>3, <1>13, <2>1, LostSame
<1> QED BY <1>10, <1>11, <1>12, <1>14, <1>15 DEF ConvInv

\* fetchMulWorker allocates the buffers: nothing was fetched, combined or sent.
LEMMA AllocateInv == ASSUME ConvInv, NEW n \in Nodes, Allocate(n) PROVE ConvInv'
<1>1. Typed /\ CmdsInv /\ \A m \in Nodes : HelperInv(m) /\ RequestorInv(m) /\ IdleInv(m)
  BY DEF ConvInv
<1>2. PICK d : d = cur[n]
  OBVIOUS
<1>3. /\ IsRequestor(n) /\ rd[n] = 0 /\ rd' = [rd EXCEPT ![n] = 1]
      /\ alloc' = [alloc EXCEPT ![n] = TRUE]
      /\ buf' = [buf EXCEPT ![n] = [p \in Pkts |-> [i \in Ids |-> {}]]]
      /\ sum' = [sum EXCEPT ![n] = [p \in Pkts |-> [j \in Jobs |-> {}]]]
      /\ num' = [num EXCEPT ![n] = [i \in Ids |-> 0]]
      /\ team' = team /\ cmds' = cmds /\ cur' = cur /\ redis' = redis /\ pkt' = pkt
      /\ flag' = flag /\ toSend' = toSend /\ toPull' = toPull /\ pu' = pu /\ se' = se
  BY DEF Allocate
<1>4. d \in Requests /\ team[d][EcK] = n
  BY <1>1, <1>2, <1>3 DEF IsRequestor, Requestor, Typed
<1>5. toPull[n] = 0 /\ pu[n] = 0 /\ se[n] = 0 /\ toSend[n] = 0
  <2>1. /\ se[n] <= toSend[n] /\ toSend[n] = pu[n] /\ pu[n] <= Nj * toPull[n]
        /\ toPull[n] = 0
    BY <1>1, <1>2, <1>3, <1>4 DEF RequestorInv, AtWork
  <2>2. pu[n] \in Nat /\ se[n] \in Nat /\ Nj * 0 = 0
    BY <1>1, ConvAssumption DEF Typed
  <2> QED BY <2>1, <2>2
<1>6. /\ rd'[n] = 1 /\ alloc'[n] = TRUE /\ \A i \in Ids : num'[n][i] = 0
      /\ \A m \in Nodes : m # n => /\ rd'[m] = rd[m] /\ alloc'[m] = alloc[m]
                                   /\ num'[m] = num[m] /\ buf'[m] = buf[m] /\ sum'[m] = sum[m]
  BY <1>1, <1>3 DEF Typed
<1>7. Typed'
  <2>1. {} \in Packets
    BY DEF Packets
  <2>2. /\ [p \in Pkts |-> [i \in Ids |-> {}]] \in [Pkts -> [Ids -> Packets]]
        /\ [p \in Pkts |-> [j \in Jobs |-> {}]] \in [Pkts -> [Jobs -> Packets]]
        /\ [i \in Ids |-> 0] \in [Ids -> Nat]
    BY <2>1
  <2>3. /\ rd' \in [Nodes -> Nat] /\ alloc' \in [Nodes -> BOOLEAN]
        /\ num' \in [Nodes -> [Ids -> Nat]]
        /\ buf' \in [Nodes -> [Pkts -> [Ids -> Packets]]]
        /\ sum' \in [Nodes -> [Pkts -> [Jobs -> Packets]]]
    BY <1>1, <1>3, <2>2 DEF Typed
  <2> QED BY <1>1, <1>3, <2>3 DEF Typed
<1>8. CmdsInv' /\ \A m, c : Pending(m, c)' = Pending(m, c)
  BY <1>3, CmdsSame
<1>9. ASSUME NEW m \in Nodes PROVE HelperInv(m)' /\ RequestorInv(m)' /\ IdleInv(m)'
  <2>1. CASE m # n
    BY <1>3, <1>6, <2>1, OthersSame
  <2>2. CASE m = n
    <3>1. HelperInv(n)' /\ IdleInv(n)'
      BY <1>1, <1>2, <1>3, <1>4 DEF HelperInv, IdleInv
    <3>2. FetchInv(n, d)'
      <4>1. 0 <= PktCnt /\ 0 <= 0 /\ \A p \in Pkts : ~(p < 0)
        BY ConvAssumption DEF Pkts
      <4> QED BY <1>3, <1>5, <1>6, <4>1 DEF FetchInv
    <3>3. RequestorInv(n)'
      <4>1. \A p \in Pkts, j \in Jobs : ~(p * Nj + j < 0)
        BY ConvAssumption DEF Pkts, Jobs
      <4>2. Nj * 0 = 0 /\ 0 < Total /\ 1 # 0 /\ 0 <= 0
        BY ConvAssumption, Counts
      <4> QED BY <1>2, <1>3, <1>5, <1>6, <3>2, <4>1, <4>2 DEF RequestorInv, AtWork
    <3> QED BY <2>2, <3>1, <3>3
  <2> QED BY <2>1, <2>2
<1>10. ASSUME NEW m \in Nodes, NEW c \in Requests
       PROVE  /\ Sent(m, c)' = Sent(m, c) /\ Rebuilt(m, c)' = Rebuilt(m, c)
              /\ \A k \in Ids : Fetched(m, c, k)' = Fetched(m, c, k)
  <2>1. CASE m # n
    BY <1>3, <1>6, <1>8, <2>1 DEF Sent, Rebuilt, Fetched
  <2>2. CASE m = n
    BY <1>3, <1>6, <1>8, <2>2 DEF Sent, Rebuilt, Fetched
  <2> QED BY <2>1, <2>2
<1>11. TmpInv' /\ LostInv'
  BY <1>3, <1>10, ListsSame
<1> QED BY <1>7, <1>8, <1>9, <1>11 DEF ConvInv

\* requestorMulCompletion combines a packet that every helper has delivered.
LEMMA CombineInv == ASSUME ConvInv, NEW n \in Nodes, RequestorMulCompletion(n) PROVE ConvInv'
<1>1. Typed /\ CmdsInv /\ \A m \in Nodes : HelperInv(m) /\ RequestorInv(m) /\ IdleInv(m)
  BY DEF ConvInv
<1>2. PICK d, k, p, j, v : /\ d = cur[n] /\ k = pu[n] /\ p = k \div Nj /\ j = k % Nj
                           /\ v = Combine(buf[n][p], j)
  OBVIOUS
<1>3. /\ IsRequestor(n) /\ k < Total /\ (j # 0 \/ p < toPull[n])
      /\ sum' = [sum EXCEPT ![n][p][j] = v]
      /\ toSend' = [toSend EXCEPT ![n] = toSend[n] + 1] /\ pu' = [pu EXCEPT ![n] = pu[n] + 1]
      /\ team' = team /\ cmds' = cmds /\ cur' = cur /\ redis' = redis /\ pkt' = pkt
      /\ flag' = flag /\ toPull' = toPull /\ num' = num /\ alloc' = alloc /\ buf' = buf
      /\ rd' = rd /\ se' = se
  BY <1>2 DEF RequestorMulCompletion, CountForSender
<1>4. d \in Requests /\ team[d][EcK] = n
  BY <1>1, <1>2, <1>3 DEF IsRequestor, Requestor, Typed
<1>5. /\ se[n] <= toSend[n] /\ toSend[n] = k /\ k <= Nj * toPull[n]
      /\ rd[n] = 0 => toPull[n] = 0
      /\ rd[n] # 0 => rd[n] = 1 /\ FetchInv(n, d)
      /\ \A x \in Pkts, y \in Jobs : x * Nj + y < k => sum[n][x][y] = Repaired(d, y, x)
      /\ alloc[n] <=> rd[n] = 1 /\ se[n] < Total
  BY <1>1, <1>2, <1>4 DEF RequestorInv, AtWork
<1>6. /\ k \in Nat /\ toPull[n] \in Nat /\ se[n] \in Nat /\ toSend[n] \in Nat
      /\ PktCnt \in Nat \ {0} /\ rd[n] \in Nat
  BY <1>1, <1>2, ConvAssumption DEF Typed
<1>7. /\ p \in Nat /\ j \in Jobs /\ k = p * Nj + j
      /\ \A x \in Nat, y \in Jobs : k = x * Nj + y => x = p /\ y = j
  BY <1>2, <1>6, Position
<1>8. k < Nj * toPull[n] /\ p < toPull[n]
  <2>1. k < Nj * toPull[n] <=> p < toPull[n]
    BY <1>2, <1>6, PositionBelow
  <2>2. j # 0 => k < Nj * toPull[n]
    BY <1>2, <1>5, <1>6, PositionBelow
  <2> QED BY <1>3, <2>1, <2>2
<1>9. p \in Pkts
  <2>1. k < Nj * PktCnt
    BY <1>3, Counts
  <2>2. p < PktCnt
    BY <1>2, <1>6, <2>1, PositionBelow
  <2> QED BY <1>6, <1>7, <2>2 DEF Pkts
<1>10. rd[n] = 1 /\ FetchInv(n, d)
  <2>1. toPull[n] # 0
    BY <1>6, <1>7, <1>8
  <2> QED BY <1>5, <2>1
<1>11. v = Repaired(d, j, p) /\ v \in Packets
  <2>1. PICK b : b = buf[n][p]
    OBVIOUS
  <2>2. b \in [Ids -> Packets]
    BY <1>1, <1>9, <2>1 DEF Typed
  <2>3. \A i \in Ids : b[i] = Raw(team[d][i], d, p)
    <3>1. ASSUME NEW i \in Ids PROVE b[i] = Raw(team[d][i], d, p)
      <4>1. num[n][i] \in Nat /\ toPull[n] <= num[n][i]
        BY <1>1, <1>10 DEF Typed, FetchInv
      <4>2. p < num[n][i]
        BY <1>6, <1>7, <1>8, <4>1
      <4> QED BY <1>9, <1>10, <2>1, <4>2 DEF FetchInv
    <3> QED BY <3>1
  <2>4. Typed
    BY <1>1
  <2>5. Combine(b, j) = Repaired(d, j, p) /\ Repaired(d, j, p) \in Packets
    BY <1>4, <1>7, <1>9, <2>2, <2>3, <2>4, CombineFacts
  <2> QED BY <1>2, <2>1, <2>5
<1>12. /\ pu'[n] = k + 1 /\ toSend'[n] = k + 1 /\ sum'[n][p][j] = v
       /\ \A x \in Pkts, y \in Jobs : ~(x = p /\ y = j) => sum'[n][x][y] = sum[n][x][y]
       /\ \A m \in Nodes : m # n => pu'[m] = pu[m] /\ toSend'[m] = toSend[m] /\ sum'[m] = sum[m]
  <2>1. /\ sum'[n][p][j] = v
        /\ \A x \in Pkts, y \in Jobs : ~(x = p /\ y = j) => sum'[n][x][y] = sum[n][x][y]
        /\ \A m \in Nodes : m # n => sum'[m] = sum[m]
    BY <1>1, <1>3, <1>7, <1>9 DEF Typed
  <2>2. /\ pu'[n] = k + 1 /\ toSend'[n] = k + 1
        /\ \A m \in Nodes : m # n => pu'[m] = pu[m] /\ toSend'[m] = toSend[m]
    BY <1>1, <1>2, <1>3, <1>5 DEF Typed
  <2> QED BY <2>1, <2>2
<1>13. Typed'
  <2>1. toSend' \in [Nodes -> Nat] /\ pu' \in [Nodes -> Nat]
    BY <1>1, <1>3 DEF Typed
  <2>2. sum' \in [Nodes -> [Pkts -> [Jobs -> Packets]]]
    BY <1>1, <1>3, <1>7, <1>9, <1>11 DEF Typed
  <2> QED BY <1>1, <1>3, <2>1, <2>2 DEF Typed
<1>14. CmdsInv' /\ \A m, c : Pending(m, c)' = Pending(m, c)
  BY <1>3, CmdsSame
<1>15. ASSUME NEW m \in Nodes PROVE HelperInv(m)' /\ RequestorInv(m)' /\ IdleInv(m)'
  <2>1. CASE m # n
    BY <1>3, <1>12, <2>1, OthersSame
  <2>2. CASE m = n
    <3>1. HelperInv(n)' /\ IdleInv(n)'
      BY <1>1, <1>2, <1>3, <1>4 DEF HelperInv, IdleInv
    <3>2. FetchInv(n, d)'
      BY <1>3, <1>10 DEF FetchInv
    <3>3. ASSUME NEW x \in Pkts, NEW y \in Jobs, x * Nj + y < k + 1
          PROVE  sum'[n][x][y] = Repaired(d, y, x)
      <4>1. x \in Nat /\ x * Nj + y \in Nat
        BY ConvAssumption DEF Pkts, Jobs
      <4>2. CASE x = p /\ y = j
        BY <1>11, <1>12, <4>2
      <4>3. CASE ~(x = p /\ y = j)
        <5>1. x * Nj + y # k
          BY <1>7, <4>1, <4>3
        <5>2. x * Nj + y < k
          <6>1. PICK z : z = x * Nj + y
            OBVIOUS
          <6> QED BY <1>6, <3>3, <4>1, <5>1, <6>1
        <5> QED BY <1>5, <1>12, <4>3, <5>2
      <4> QED BY <4>2, <4>3
    <3>4. se[n] <= k + 1 /\ k + 1 <= Nj * toPull[n]
      <4>1. PICK z : z = Nj * toPull[n]
        OBVIOUS
      <4>2. z \in Nat
        BY <1>6, <4>1, Counts
      <4> QED BY <1>5, <1>6, <1>8, <4>1, <4>2
    <3>5. RequestorInv(n)'
      <4>1. AtWork(n, d)'
        <5>1. se'[n] <= toSend'[n] /\ toSend'[n] = pu'[n] /\ pu'[n] <= Nj * toPull'[n]
          BY <1>3, <1>12, <3>4
        <5>2. rd'[n] = 1 /\ (rd'[n] = 0 => toPull'[n] = 0)
          BY <1>3, <1>10
        <5>3. \A x \in Pkts, y \in Jobs : x * Nj + y < pu'[n] =>
                sum'[n][x][y] = Repaired(d, y, x)'
          BY <1>3, <1>12, <3>3, Fixed
        <5>4. alloc'[n] <=> rd'[n] = 1 /\ se'[n] < Total
          BY <1>3, <1>5, <1>10
        <5> QED BY <3>2, <5>1, <5>2, <5>3, <5>4 DEF AtWork
      <4> QED BY <1>2, <1>3, <4>1 DEF RequestorInv
    <3> QED BY <2>2, <3>1, <3>5
  <2> QED BY <2>1, <2>2
<1>16. ASSUME NEW m \in Nodes, NEW c \in Requests
       PROVE  /\ Sent(m, c)' = Sent(m, c) /\ Rebuilt(m, c)' = Rebuilt(m, c)
              /\ \A i \in Ids : Fetched(m, c, i)' = Fetched(m, c, i)
  BY <1>3, <1>14 DEF Sent, Rebuilt, Fetched
<1>17. TmpInv' /\ LostInv'
  BY <1>3, <1>16, ListsSame
<1> QED BY <1>13, <1>14, <1>15, <1>17 DEF ConvInv

\* readThread: the next packet of helper id is stored at its place, and what is
\* counted for the main thread every helper has delivered.
LEMMA ReadThreadInv ==
    ASSUME ConvInv, NEW n \in Nodes, NEW id \in Ids, ReadThread(n, id)
    PROVE  ConvInv'
<1>1. Typed /\ CmdsInv /\ TmpInv /\ \A m \in Nodes : HelperInv(m) /\ RequestorInv(m) /\ IdleInv(m)
  BY DEF ConvInv
<1>2. PICK d, i, key, s, v, num1 : /\ d = cur[n] /\ i = num[n][id] /\ key = TmpList(d, id)
                                   /\ s = redis[key] /\ v = Head(s)
                                   /\ num1 = [num[n] EXCEPT ![id] = i + 1]
  OBVIOUS
<1>3. /\ IsRequestor(n) /\ rd[n] = 1 /\ i < PktCnt /\ s # <<>>
      /\ redis' = [redis EXCEPT ![key] = Tail(s)] /\ buf' = [buf EXCEPT ![n][i][id] = v]
      /\ num' = [num EXCEPT ![n] = num1]
      /\ toPull' = IF MinNum(num1) > toPull[n] THEN [toPull EXCEPT ![n] = toPull[n] + 1]
                   ELSE toPull
      /\ team' = team /\ cmds' = cmds /\ cur' = cur /\ pkt' = pkt /\ flag' = flag
      /\ toSend' = toSend /\ alloc' = alloc /\ sum' = sum /\ rd' = rd /\ pu' = pu /\ se' = se
  <2>1. /\ IsRequestor(n) /\ rd[n] = 1 /\ i < PktCnt /\ s # <<>>
        /\ redis' = [redis EXCEPT ![key] = Tail(s)] /\ buf' = [buf EXCEPT ![n][i][id] = v]
        /\ num' = [num EXCEPT ![n] = num1]
        /\ UNCHANGED <<team, cmds, cur, pkt, flag, toSend, alloc, sum, rd, pu, se>>
    BY <1>2 DEF ReadThread, Pop
  <2>2. toPull' = IF MinNum(num1) > toPull[n] THEN [toPull EXCEPT ![n] = toPull[n] + 1]
                  ELSE toPull
    BY <1>2 DEF ReadThread
  <2> QED BY <2>1, <2>2
<1>4. d \in Requests /\ team[d][EcK] = n
  BY <1>1, <1>2, <1>3 DEF IsRequestor, Requestor, Typed
<1>5. /\ se[n] <= toSend[n] /\ toSend[n] = pu[n] /\ pu[n] <= Nj * toPull[n]
      /\ FetchInv(n, d)
      /\ \A x \in Pkts, y \in Jobs : x * Nj + y < pu[n] => sum[n][x][y] = Repaired(d, y, x)
      /\ alloc[n] <=> rd[n] = 1 /\ se[n] < Total
  BY <1>1, <1>2, <1>3, <1>4 DEF RequestorInv, AtWork
<1>6. i \in Nat /\ i \in Pkts /\ toPull[n] \in Nat /\ pu[n] \in Nat /\ num[n] \in [Ids -> Nat]
  <2>1. toPull[n] \in Nat /\ pu[n] \in Nat /\ num[n] \in [Ids -> Nat]
    BY <1>1 DEF Typed
  <2>2. i \in Nat
    BY <1>2, <2>1
  <2> QED BY <1>3, <2>1, <2>2, ConvAssumption DEF Pkts
<1>7. key \in Lists /\ s \in Seq(Packets) /\ v \in Packets /\ Tail(s) \in Seq(Packets)
  BY <1>1, <1>2, <1>3, <1>4, ListNames DEF Typed
<1>8. /\ num1 \in [Ids -> Nat] /\ num1[id] = i + 1
      /\ \A x \in Ids : x # id => num1[x] = num[n][x]
  BY <1>2, <1>6
<1>9. /\ num'[n] = num1 /\ \A m \in Nodes : m # n => num'[m] = num[m]
      /\ redis'[key] = Tail(s) /\ \A l \in Lists : l # key => redis'[l] = redis[l]
  BY <1>1, <1>3, <1>7 DEF Typed
<1>10. /\ buf'[n][i][id] = v
       /\ \A p \in Pkts, x \in Ids : ~(p = i /\ x = id) => buf'[n][p][x] = buf[n][p][x]
       /\ \A m \in Nodes : m # n => buf'[m] = buf[m]
  BY <1>1, <1>3, <1>6 DEF Typed
<1>11. PICK t : t = toPull'[n]
  OBVIOUS
<1>12. /\ t \in Nat /\ toPull[n] <= t /\ \A x \in Ids : t <= num1[x]
       /\ \A m \in Nodes : m # n => toPull'[m] = toPull[m]
       /\ toPull' \in [Nodes -> Nat]
  <2>1. PICK min : min = MinNum(num1)
    OBVIOUS
  <2>2. min \in Nat /\ \A x \in Ids : min <= num1[x]
    BY <1>8, <2>1, MinNumFacts
  <2>3. toPull \in [Nodes -> Nat]
    BY <1>1 DEF Typed
  <2>4. CASE min > toPull[n]
    <3>1. toPull' = [toPull EXCEPT ![n] = toPull[n] + 1]
      BY <1>3, <2>1, <2>4
    <3>2. t = toPull[n] + 1
      BY <1>11, <2>3, <3>1
    <3> QED BY <1>6, <1>8, <2>2, <2>3, <2>4, <3>1, <3>2
  <2>5. CASE ~(min > toPull[n])
    <3>1. toPull' = toPull /\ t = toPull[n]
      BY <1>3, <1>11, <2>1, <2>5
    <3>2. ASSUME NEW x \in Ids PROVE t <= num1[x]
      <4>1. toPull[n] <= num[n][x] /\ num[n][x] \in Nat
        BY <1>5, <1>6 DEF FetchInv
      <4>2. num1[x] = num[n][x] \/ num1[x] = num[n][x] + 1
        BY <1>2, <1>8
      <4> QED BY <1>6, <3>1, <4>1, <4>2
    <3> QED BY <1>6, <2>3, <3>1, <3>2
  <2> QED BY <2>4, <2>5
<1>13. Typed'
  <2>1. redis' \in [Lists -> Seq(Packets)]
    BY <1>1, <1>3, <1>7 DEF Typed
  <2>2. num' \in [Nodes -> [Ids -> Nat]]
    BY <1>1, <1>3, <1>8 DEF Typed
  <2>3. buf' \in [Nodes -> [Pkts -> [Ids -> Packets]]]
    BY ZenonT(40), <1>1, <1>3, <1>6, <1>7 DEF Typed
  <2> QED BY <1>1, <1>3, <1>12, <2>1, <2>2, <2>3 DEF Typed
<1>14. CmdsInv' /\ \A m, c : Pending(m, c)' = Pending(m, c)
  BY <1>3, CmdsSame
<1>15. /\ \A m \in Nodes, c \in Requests :
             Sent(m, c)' = Sent(m, c) /\ Rebuilt(m, c)' = Rebuilt(m, c)
       /\ \A m \in Nodes, c \in Requests, x \in Ids :
             Fetched(m, c, x)' = IF m = n /\ c = d /\ x = id THEN i + 1 ELSE Fetched(m, c, x)
       /\ Fetched(n, d, id) = i
  <2>1. \A m \in Nodes, c \in Requests : Sent(m, c)' = Sent(m, c) /\ Rebuilt(m, c)' = Rebuilt(m, c)
    BY <1>3, <1>14 DEF Sent, Rebuilt
  <2>2. Fetched(n, d, id) = i
    BY <1>2, <1>3 DEF Fetched
  <2>3. ASSUME NEW m \in Nodes, NEW c \in Requests, NEW x \in Ids
        PROVE  Fetched(m, c, x)' = IF m = n /\ c = d /\ x = id THEN i + 1 ELSE Fetched(m, c, x)
    BY <1>2, <1>3, <1>8, <1>9, <1>14 DEF Fetched
  <2> QED BY <2>1, <2>2, <2>3
<1>16. /\ v = Raw(team[d][id], d, i)
       /\ Between(Tail(s), team[d][id], d, i + 1, Sent(team[d][id], d))
  <2>1. PICK w, e : w = team[d][id] /\ e = Sent(w, d)
    OBVIOUS
  <2>2. w \in Nodes
    BY <1>1, <1>4, <2>1, TeamFacts
  <2>3. Between(s, w, d, i, e)
    BY <1>1, <1>2, <1>4, <1>15, <2>1, <2>2 DEF TmpInv
  <2>4. i + Len(s) = e /\ \A k \in 1..Len(s) : s[k] = Raw(w, d, i + k - 1)
    BY <2>3 DEF Between
  <2>5. PICK u : u = Tail(s)
    OBVIOUS
  <2>6. /\ Len(s) \in Nat \ {0} /\ v = s[1] /\ Len(u) = Len(s) - 1
        /\ \A k \in 1..Len(u) : u[k] = s[k + 1]
    BY <1>2, <1>3, <1>7, <2>5
  <2>7. v = Raw(w, d, i)
    <3>1. i + 1 - 1 = i /\ 1 \in 1..Len(s)
      BY <1>6, <2>6
    <3> QED BY <2>4, <2>6, <3>1
  <2>8. ASSUME NEW k \in 1..Len(u) PROVE u[k] = Raw(w, d, (i + 1) + k - 1)
    <3>1. k + 1 \in 1..Len(s) /\ i + (k + 1) - 1 = (i + 1) + k - 1
      BY <1>6, <2>6
    <3>2. s[k + 1] = Raw(w, d, i + (k + 1) - 1)
      BY <2>4, <3>1
    <3> QED BY <2>6, <3>1, <3>2
  <2>9. (i + 1) + Len(u) = e
    BY <1>6, <2>4, <2>6
  <2> QED BY <2>1, <2>5, <2>7, <2>8, <2>9 DEF Between
<1>17. ASSUME NEW m \in Nodes PROVE HelperInv(m)' /\ RequestorInv(m)' /\ IdleInv(m)'
  <2>1. CASE m # n
    BY <1>3, <1>9, <1>10, <1>12, <2>1, OthersSame
  <2>2. CASE m = n
    <3>1. HelperInv(n)' /\ IdleInv(n)'
      BY <1>1, <1>2, <1>3, <1>4 DEF HelperInv, IdleInv
    <3>2. FetchInv(n, d)'
      <4>1. \A x \in Ids : num[n][x] <= PktCnt
        BY <1>5 DEF FetchInv
      <4>2. ASSUME NEW x \in Ids PROVE num1[x] <= PktCnt
        <5>1. i + 1 <= PktCnt
          BY <1>3, <1>6, ConvAssumption
        <5> QED BY <1>8, <4>1, <5>1
      <4>3. ASSUME NEW x \in Ids, NEW p \in Pkts, p < num1[x]
            PROVE  buf'[n][p][x] = Raw(team[d][x], d, p)
        <5>1. CASE p = i /\ x = id
          BY <1>10, <1>16, <5>1
        <5>2. CASE ~(p = i /\ x = id)
          <6>1. p < num[n][x]
            <7>1. p \in Nat
              BY DEF Pkts
            <7> QED BY <1>2, <1>6, <1>8, <4>3, <5>2, <7>1
          <6> QED BY <1>5, <1>10, <5>2, <6>1 DEF FetchInv
        <5> QED BY <5>1, <5>2
      <4> QED BY <1>3, <1>9, <1>11, <1>12, <4>2, <4>3 DEF FetchInv, Raw
    <3>3. pu[n] <= Nj * t
      <4>1. PICK y, z : y = Nj * toPull[n] /\ z = Nj * t
        OBVIOUS
      <4>2. y \in Nat /\ z \in Nat /\ (toPull[n] < t => y + Nj <= z) /\ Nj \in Nat
        BY <1>6, <1>12, <4>1, Counts, ConvAssumption
      <4>3. y <= z
        <5>1. CASE toPull[n] = t
          BY <4>1, <4>2, <5>1
        <5>2. CASE toPull[n] < t
          BY <4>2, <5>2
        <5> QED BY <1>6, <1>12, <5>1, <5>2
      <4> QED BY <1>5, <1>6, <4>1, <4>2, <4>3
    <3>4. RequestorInv(n)'
      <4>1. SUFFICES /\ se[n] <= toSend[n] /\ toSend[n] = pu[n] /\ pu[n] <= Nj * t
                     /\ rd[n] = 1 /\ FetchInv(n, d)'
                     /\ \A x \in Pkts, y \in Jobs : x * Nj + y < pu[n] =>
                          sum[n][x][y] = Repaired(d, y, x)'
                     /\ alloc[n] <=> rd[n] = 1 /\ se[n] < Total
        BY <1>2, <1>3, <1>11 DEF RequestorInv, AtWork
      <4> QED BY <1>3, <1>5, <3>2, <3>3, Fixed
    <3> QED BY <2>2, <3>1, <3>4
  <2> QED BY <2>1, <2>2
<1>18. TmpInv'
  <2>1. SUFFICES ASSUME NEW c \in Requests, NEW x \in Ids, NEW w \in Nodes, NEW m \in Nodes,
                        team'[c][x] = w, team'[c][EcK] = m
                 PROVE  Between(redis[TmpList(c, x)], w, c, Fetched(m, c, x), Sent(w, c))'
    BY DEF TmpInv
  <2>2. team[c][x] = w /\ team[c][EcK] = m
    BY <1>3, <2>1
  <2>3. PICK u, q, e : u = redis[TmpList(c, x)] /\ q = Fetched(m, c, x) /\ e = Sent(w, c)
    OBVIOUS
  <2>4. Between(u, w, c, q, e) /\ Sent(w, c)' = e
    BY <1>1, <1>15, <2>2, <2>3 DEF TmpInv
  <2>5. CASE c = d /\ x = id
    <3>1. m = n /\ Fetched(m, c, x)' = i + 1 /\ redis'[TmpList(c, x)] = Tail(s)
      BY <1>2, <1>4, <1>9, <1>15, <2>2, <2>5
    <3>2. Between(Tail(s), w, c, i + 1, e)
      BY <1>16, <2>2, <2>3, <2>5
    <3> QED BY <2>4, <3>1, <3>2 DEF Between, Raw, TmpList
  <2>6. CASE ~(c = d /\ x = id)
    <3>1. TmpList(c, x) # key /\ TmpList(c, x) \in Lists
      BY <1>2, <2>6, ListNames
    <3>2. redis'[TmpList(c, x)] = u /\ Fetched(m, c, x)' = q
      BY <1>9, <1>15, <2>3, <2>6, <3>1
    <3> QED BY <2>4, <3>2 DEF Between, Raw, TmpList
  <2> QED BY <2>5, <2>6
<1>19. LostInv'
  <2>1. \A c \in Requests, k \in Jobs : redis'[LostList(c, k)] = redis[LostList(c, k)]
    BY <1>2, <1>9, ListNames
  <2> QED BY <1>3, <1>15, <2>1, LostSame
<1> QED BY <1>13, <1>14, <1>17, <1>18, <1>19 DEF ConvInv

\* sendMulWorker: a result goes to the list of its lost block; the buffers are
\* freed with the last one.
LEMMA SendMulInv == ASSUME ConvInv, NEW n \in Nodes, SendMulWorker(n) PROVE ConvInv'
<1>1. Typed /\ CmdsInv /\ TmpInv /\ LostInv
      /\ \A m \in Nodes : HelperInv(m) /\ RequestorInv(m) /\ IdleInv(m)
  BY DEF ConvInv
<1>2. PICK d, k, p, j, key, s, v : /\ d = cur[n] /\ k = se[n] /\ p = k \div Nj /\ j = k % Nj
                                   /\ key = LostList(d, j) /\ s = redis[key]
                                   /\ v = sum[n][p][j]
  OBVIOUS
<1>3. /\ IsRequestor(n) /\ k < toSend[n] /\ redis' = [redis EXCEPT ![key] = Append(s, v)]
      /\ se' = [se EXCEPT ![n] = k + 1] /\ alloc' = [alloc EXCEPT ![n] = (k + 1 < Total)]
      /\ team' = team /\ cmds' = cmds /\ cur' = cur /\ pkt' = pkt /\ flag' = flag
      /\ toSend' = toSend /\ toPull' = toPull /\ num' = num /\ buf' = buf /\ sum' = sum
      /\ rd' = rd /\ pu' = pu
  BY <1>2 DEF SendMulWorker, Push, InUse
<1>4. d \in Requests /\ team[d][EcK] = n
  BY <1>1, <1>2, <1>3 DEF IsRequestor, Requestor, Typed
<1>5. /\ k <= toSend[n] /\ toSend[n] = pu[n] /\ pu[n] <= Nj * toPull[n]
      /\ rd[n] = 0 => toPull[n] = 0
      /\ rd[n] # 0 => rd[n] = 1 /\ FetchInv(n, d)
      /\ \A x \in Pkts, y \in Jobs : x * Nj + y < pu[n] => sum[n][x][y] = Repaired(d, y, x)
      /\ alloc[n] <=> rd[n] = 1 /\ k < Total
  BY <1>1, <1>2, <1>4 DEF RequestorInv, AtWork
<1>6. /\ k \in Nat /\ pu[n] \in Nat /\ toPull[n] \in Nat /\ rd[n] \in Nat /\ Nj * toPull[n] \in Nat
      /\ PktCnt \in Nat \ {0} /\ Nj \in Nat \ {0} /\ Total \in Nat
  BY <1>1, <1>2, Counts, ConvAssumption DEF Typed
<1>7. p \in Nat /\ j \in Jobs /\ k = p * Nj + j
  BY <1>2, <1>6, Position
<1>8. k < pu[n] /\ rd[n] = 1 /\ FetchInv(n, d)
  <2>1. k < pu[n]
    BY <1>3, <1>5
  <2>2. toPull[n] # 0
    <3>1. toPull[n] = 0 => Nj * toPull[n] = 0
      BY <1>6
    <3> QED BY <1>5, <1>6, <2>1, <3>1
  <2> QED BY <1>5, <2>1, <2>2
<1>9. p \in Pkts
  <2>1. PICK x : x \in Ids
    BY ConvAssumption DEF Ids
  <2>2. toPull[n] <= num[n][x] /\ num[n][x] <= PktCnt /\ num[n][x] \in Nat
    BY <1>1, <1>8, <2>1 DEF FetchInv, Typed
  <2>3. k < Nj * toPull[n]
    BY <1>5, <1>6, <1>8
  <2>4. p < toPull[n]
    BY <1>2, <1>6, <2>3, PositionBelow
  <2> QED BY <1>6, <1>7, <2>2, <2>4 DEF Pkts
<1>10. v = Repaired(d, j, p) /\ v \in Packets
  <2>1. v = Repaired(d, j, p)
    BY <1>2, <1>5, <1>7, <1>8, <1>9
  <2>2. v \in Packets
    BY <1>1, <1>2, <1>7, <1>9 DEF Typed
  <2> QED BY <2>1, <2>2
<1>11. key \in Lists /\ s \in Seq(Packets) /\ Append(s, v) \in Seq(Packets)
  <2>1. key \in Lists
    BY <1>2, <1>4, <1>7, ListNames
  <2>2. s \in Seq(Packets)
    BY <1>1, <1>2, <2>1 DEF Typed
  <2> QED BY <1>10, <2>1, <2>2
<1>12. /\ se'[n] = k + 1 /\ (alloc'[n] <=> k + 1 < Total)
       /\ \A m \in Nodes : m # n => se'[m] = se[m] /\ alloc'[m] = alloc[m]
       /\ redis'[key] = Append(s, v) /\ \A l \in Lists : l # key => redis'[l] = redis[l]
  BY <1>1, <1>3, <1>11 DEF Typed
<1>13. Typed'
  <2>1. redis' \in [Lists -> Seq(Packets)]
    BY <1>1, <1>3, <1>11 DEF Typed
  <2>2. se' \in [Nodes -> Nat] /\ alloc' \in [Nodes -> BOOLEAN]
    BY <1>1, <1>3, <1>6 DEF Typed
  <2> QED BY <1>1, <1>3, <2>1, <2>2 DEF Typed
<1>14. CmdsInv' /\ \A m, c : Pending(m, c)' = Pending(m, c)
  BY <1>3, CmdsSame
<1>15. ASSUME NEW m \in Nodes PROVE HelperInv(m)' /\ RequestorInv(m)' /\ IdleInv(m)'
  <2>1. CASE m # n
    BY <1>3, <1>12, <2>1, OthersSame
  <2>2. CASE m = n
    <3>1. HelperInv(n)' /\ IdleInv(n)'
      BY <1>1, <1>2, <1>3, <1>4 DEF HelperInv, IdleInv
    <3>2. FetchInv(n, d)'
      BY <1>3, <1>8 DEF FetchInv
    <3>3. RequestorInv(n)'
      <4>1. AtWork(n, d)'
        <5>1. se'[n] <= toSend'[n] /\ toSend'[n] = pu'[n] /\ pu'[n] <= Nj * toPull'[n]
          BY <1>3, <1>5, <1>6, <1>8, <1>12
        <5>2. rd'[n] = 1 /\ (rd'[n] = 0 => toPull'[n] = 0)
          BY <1>3, <1>8
        <5>3. \A x \in Pkts, y \in Jobs : x * Nj + y < pu'[n] =>
                sum'[n][x][y] = Repaired(d, y, x)'
          BY <1>3, <1>5, Fixed
        <5>4. alloc'[n] <=> rd'[n] = 1 /\ se'[n] < Total
          BY <1>3, <1>8, <1>12
        <5> QED BY <3>2, <5>1, <5>2, <5>3, <5>4 DEF AtWork
      <4> QED BY <1>2, <1>3, <4>1 DEF RequestorInv
    <3> QED BY <2>2, <3>1, <3>3
  <2> QED BY <2>1, <2>2
<1>16. /\ \A m \in Nodes, c \in Requests : team[c][EcK] # m => Sent(m, c)' = Sent(m, c)
       /\ \A m \in Nodes, c \in Requests : team[c][EcK] = m =>
            /\ Rebuilt(m, c)' = IF c = d THEN k + 1 ELSE Rebuilt(m, c)
            /\ \A i \in Ids : Fetched(m, c, i)' = Fetched(m, c, i)
       /\ Rebuilt(n, d) = k
  <2>1. Rebuilt(n, d) = k
    BY <1>2 DEF Rebuilt
  <2>2. ASSUME NEW m \in Nodes, NEW c \in Requests, m # n
        PROVE  /\ Sent(m, c)' = Sent(m, c) /\ Rebuilt(m, c)' = Rebuilt(m, c)
               /\ \A i \in Ids : Fetched(m, c, i)' = Fetched(m, c, i)
    BY <1>3, <1>12, <1>14, <2>2 DEF Sent, Rebuilt, Fetched
  <2>3. ASSUME NEW c \in Requests
        PROVE  /\ c # d => Sent(n, c)' = Sent(n, c) /\ Rebuilt(n, c)' = Rebuilt(n, c)
               /\ c = d => Rebuilt(n, c)' = k + 1
               /\ \A i \in Ids : Fetched(n, c, i)' = Fetched(n, c, i)
    BY <1>2, <1>3, <1>12, <1>14 DEF Sent, Rebuilt, Fetched
  <2> QED BY <1>4, <2>1, <2>2, <2>3
<1>17. TmpInv'
  <2>1. SUFFICES ASSUME NEW c \in Requests, NEW x \in Ids, NEW w \in Nodes, NEW m \in Nodes,
                        team'[c][x] = w, team'[c][EcK] = m
                 PROVE  Between(redis[TmpList(c, x)], w, c, Fetched(m, c, x), Sent(w, c))'
    BY DEF TmpInv
  <2>2. team[c][x] = w /\ team[c][EcK] = m /\ w # m
    BY <1>1, <1>3, <2>1, TeamFacts
  <2>3. Between(redis[TmpList(c, x)], w, c, Fetched(m, c, x), Sent(w, c))
    BY <1>1, <2>2 DEF TmpInv
  <2>4. /\ redis'[TmpList(c, x)] = redis[TmpList(c, x)]
        /\ Fetched(m, c, x)' = Fetched(m, c, x) /\ Sent(w, c)' = Sent(w, c)
    BY <1>2, <1>12, <1>16, <2>2, ListNames
  <2> QED BY <2>3, <2>4 DEF Between, Raw, TmpList
<1>18. LostInv'
  <2>1. SUFFICES ASSUME NEW c \in Requests, NEW y \in Jobs, NEW m \in Nodes, team'[c][EcK] = m
                 PROVE  /\ Len(redis'[LostList(c, y)]) = Rows(Rebuilt(m, c), y)'
                        /\ \A i \in 1..Len(redis'[LostList(c, y)]) :
                             redis'[LostList(c, y)][i] = Repaired(c, y, i - 1)'
    BY DEF LostInv, LostList
  <2>2. team[c][EcK] = m /\ LostList(c, y) \in Lists
    BY <1>3, <2>1, ListNames
  <2>3. \A i : Repaired(c, y, i - 1)' = Repaired(c, y, i - 1)
    BY <1>3 DEF Repaired
  <2>4. PICK r, q, u : r = Rebuilt(m, c) /\ q = Rebuilt(m, c)' /\ u = redis[LostList(c, y)]
    OBVIOUS
  <2>5. Len(u) = Rows(r, y) /\ \A i \in 1..Len(u) : u[i] = Repaired(c, y, i - 1)
    BY <1>1, <2>2, <2>4 DEF LostInv
  <2>6. Rows(Rebuilt(m, c), y)' = Rows(q, y)
    BY <2>4 DEF Rows
  <2>7. CASE c = d /\ y = j
    <3>1. u = s /\ r = k /\ q = k + 1 /\ redis'[LostList(c, y)] = Append(s, v)
      BY <1>2, <1>4, <1>12, <1>16, <2>2, <2>4, <2>7
    <3>2. PICK x : x = Append(s, v)
      OBVIOUS
    <3>3. /\ Len(s) \in Nat /\ Len(x) = Len(s) + 1 /\ x[Len(s) + 1] = v
          /\ \A i \in 1..Len(s) : x[i] = s[i]
      BY <1>10, <1>11, <3>2
    <3>4. Rows(k + 1, y) = Rows(k, y) + 1 /\ Rows(k, y) = p
      BY <1>2, <1>6, <2>7, RowsNext
    <3>5. Len(s) = p /\ Len(x) = Rows(q, y)
      BY <2>5, <3>1, <3>3, <3>4
    <3>6. ASSUME NEW i \in 1..Len(x) PROVE x[i] = Repaired(c, y, i - 1)
      <4>1. CASE i \in 1..Len(s)
        BY <2>5, <3>1, <3>3, <4>1
      <4>2. CASE i = Len(s) + 1
        <5>1. i - 1 = p
          BY <1>7, <3>5, <4>2
        <5> QED BY <1>10, <2>7, <3>3, <4>2, <5>1
      <4> QED BY <3>3, <4>1, <4>2
    <3> QED BY <2>3, <2>6, <3>1, <3>2, <3>5, <3>6
  <2>8. CASE ~(c = d /\ y = j)
    <3>1. redis'[LostList(c, y)] = u
      BY <1>2, <1>12, <2>2, <2>4, <2>8, ListNames
    <3>2. Rows(q, y) = Rows(r, y)
      <4>1. CASE c # d
        BY <1>16, <2>2, <2>4, <4>1
      <4>2. CASE c = d
        <5>1. r = k /\ q = k + 1 /\ y # j
          BY <1>4, <1>16, <2>2, <2>4, <2>8, <4>2
        <5> QED BY <1>2, <1>6, <5>1, RowsNext
      <4> QED BY <4>1, <4>2
    <3> QED BY <2>3, <2>5, <2>6, <3>1, <3>2
  <2> QED BY <2>7, <2>8
<1> QED BY <1>13, <1>14, <1>15, <1>17, <1>18 DEF ConvInv

\* The initial states: no command taken, no packet anywhere.
LEMMA InitInv == Init => ConvInv
<1> SUFFICES ASSUME Init PROVE ConvInv
  OBVIOUS
<1>1. /\ team \in [Requests -> Teams] /\ R \in Nat /\ PktCnt \in Nat \ {0} /\ 0 \notin Requests
      /\ Requests = 1..R
  BY ConvAssumption DEF Init, Teams, Requests
<1>2. /\ \A n \in Nodes : cur[n] = 0 /\ ~alloc[n] /\ \A p \in Pkts : ~flag[n][p]
      /\ \A l \in Lists : redis[l] = <<>>
  BY DEF Init
<1>3. ASSUME NEW n \in Nodes
      PROVE  /\ cmds[n] \in Seq(Requests)
             /\ \A i, k \in 1..Len(cmds[n]) : i < k => cmds[n][i] < cmds[n][k]
             /\ \A c \in Requests : Pending(n, c) <=> \E i \in 0..EcK : team[c][i] = n
  <2>1. PICK H : H = {c \in Requests : \E i \in 0..EcK : team[c][i] = n}
    OBVIOUS
  <2>2. H \subseteq 1..R /\ cmds[n] = Queued(R, H)
    BY <2>1 DEF Init, Requests
  <2>3. /\ cmds[n] \in Seq(H)
        /\ \A i, k \in 1..Len(cmds[n]) : i < k => cmds[n][i] < cmds[n][k]
        /\ \A c \in H : \E i \in 1..Len(cmds[n]) : cmds[n][i] = c
    <3>1. /\ Queued(R, H) \in Seq(H)
          /\ \A i, k \in 1..Len(Queued(R, H)) : i < k => Queued(R, H)[i] < Queued(R, H)[k]
          /\ \A c \in H : \E i \in 1..Len(Queued(R, H)) : Queued(R, H)[i] = c
      BY <1>1, <2>2, QueuedFacts
    <3> QED BY <2>2, <3>1
  <2>4. \A c : Pending(n, c) <=> c \in H
    BY <2>3, ElementOfSeq DEF Pending
  <2>5. cmds[n] \in Seq(Requests)
    <3>1. H \subseteq Requests /\ cmds[n] \in Seq(H)
      BY <2>1, <2>3
    <3> QED BY <3>1
  <2> QED BY <2>1, <2>3, <2>4, <2>5
<1>4. Typed
  <2>1. cmds \in [Nodes -> Seq(Requests)]
    <3>1. cmds = [n \in Nodes |-> cmds[n]]
      BY DEF Init
    <3> QED BY <1>3, <3>1
  <2>2. {} \in Packets /\ <<>> \in Seq(Packets) /\ 0 \in Nat
    BY DEF Packets
  <2>3. /\ redis \in [Lists -> Seq(Packets)] /\ cur \in [Nodes -> Requests \cup {0}]
        /\ toSend \in [Nodes -> Nat] /\ toPull \in [Nodes -> Nat]
        /\ rd \in [Nodes -> Nat] /\ pu \in [Nodes -> Nat] /\ se \in [Nodes -> Nat]
        /\ alloc \in [Nodes -> BOOLEAN] /\ flag \in [Nodes -> [Pkts -> BOOLEAN]]
        /\ num \in [Nodes -> [Ids -> Nat]]
    BY <2>2 DEF Init
  <2>4. /\ pkt \in [Nodes -> [Pkts -> Packets]]
        /\ buf \in [Nodes -> [Pkts -> [Ids -> Packets]]]
        /\ sum \in [Nodes -> [Pkts -> [Jobs -> Packets]]]
    BY <2>2 DEF Init, NoPkts
  <2> QED BY <1>1, <2>1, <2>3, <2>4 DEF Typed
<1>5. CmdsInv
  <2>1. ASSUME NEW n \in Nodes, NEW i \in 1..Len(cmds[n]) PROVE cur[n] < cmds[n][i]
    <3>1. cmds[n] \in Seq(Requests)
      BY <1>3
    <3>2. cmds[n][i] \in 1..R
      BY <1>1, <3>1, ElementOfSeq
    <3> QED BY <1>1, <1>2, <3>2
  <2> QED BY <1>1, <1>2, <1>3, <2>1 DEF CmdsInv
<1>6. \A n \in Nodes : HelperInv(n) /\ RequestorInv(n) /\ IdleInv(n)
  BY <1>1, <1>2 DEF HelperInv, RequestorInv, AtWork, IdleInv
<1>7. ASSUME NEW c \in Requests, NEW n \in Nodes, NEW k \in 0..EcK, team[c][k] = n
      PROVE  /\ Sent(n, c) = 0 /\ Rebuilt(n, c) = 0 /\ \A i \in Ids : Fetched(n, c, i) = 0
  <2>1. Pending(n, c)
    BY <1>3, <1>7
  <2>2. cur[n] # c
    BY <1>1, <1>2
  <2> QED BY <2>1, <2>2 DEF Sent, Rebuilt, Fetched
<1>8. TmpInv
  <2>1. SUFFICES ASSUME NEW c \in Requests, NEW i \in Ids, NEW n \in Nodes, NEW m \in Nodes,
                        team[c][i] = n, team[c][EcK] = m
                 PROVE  Between(redis[TmpList(c, i)], n, c, Fetched(m, c, i), Sent(n, c))
    BY DEF TmpInv
  <2>2. i \in 0..EcK /\ EcK \in 0..EcK
    BY <1>4, TeamFacts
  <2>3. redis[TmpList(c, i)] = <<>> /\ Fetched(m, c, i) = 0 /\ Sent(n, c) = 0
    BY <1>2, <1>7, <2>1, <2>2, ListNames
  <2>4. 0 + Len(<<>>) = 0 /\ \A k : k \notin 1..Len(<<>>)
    OBVIOUS
  <2> QED BY <2>3, <2>4 DEF Between
<1>9. LostInv
  <2>1. SUFFICES ASSUME NEW c \in Requests, NEW j \in Jobs, NEW m \in Nodes, team[c][EcK] = m
                 PROVE  /\ Len(redis[LostList(c, j)]) = Rows(Rebuilt(m, c), j)
                        /\ \A k \in 1..Len(redis[LostList(c, j)]) :
                             redis[LostList(c, j)][k] = Repaired(c, j, k - 1)
    BY DEF LostInv
  <2>2. EcK \in 0..EcK
    BY <1>4, TeamFacts
  <2>3. redis[LostList(c, j)] = <<>> /\ Rebuilt(m, c) = 0
    BY <1>2, <1>7, <2>1, <2>2, ListNames
  <2>4. Len(<<>>) = 0 /\ (\A k : k \notin 1..Len(<<>>)) /\ Rows(0, j) = 0
    BY RowsNext
  <2> QED BY <2>3, <2>4
<1> QED BY <1>4, <1>5, <1>6, <1>8, <1>9 DEF ConvInv

\* Every step of a helper's and of a requestor's threads.
LEMMA NextInv == ConvInv /\ [Next]_vars => ConvInv'
<1> SUFFICES ASSUME ConvInv, [Next]_vars PROVE ConvInv'
  OBVIOUS
<1>1. ASSUME NEW n \in Nodes, TakeCmd(n) \/ Helper(n) \/ Fetcher(n) \/ Finish(n)
      PROVE  ConvInv'
  <2>1. CASE Helper(n)
    BY <2>1, ReadWorkerInv, CountInv, SendWorkerInv DEF Helper
  <2>2. CASE Fetcher(n)
    BY <2>2, AllocateInv, ReadThreadInv, CombineInv, SendMulInv DEF Fetcher
  <2> QED BY <1>1, <2>1, <2>2, TakeCmdInv, FinishInv
<1>2. CASE UNCHANGED vars
  <2>1. /\ team' = team /\ cmds' = cmds /\ cur' = cur /\ redis' = redis /\ pkt' = pkt
        /\ flag' = flag /\ toSend' = toSend /\ toPull' = toPull /\ num' = num
        /\ alloc' = alloc /\ buf' = buf /\ sum' = sum /\ rd' = rd /\ pu' = pu /\ se' = se
    BY <1>2 DEF vars
  <2>2. Typed' /\ \A m \in Nodes : HelperInv(m)' /\ RequestorInv(m)' /\ IdleInv(m)'
    BY <2>1, OthersSame DEF ConvInv, Typed
  <2>3. CmdsInv' /\ \A m, c : Pending(m, c)' = Pending(m, c)
    BY <2>1, CmdsSame
  <2>4. \A m \in Nodes, c \in Requests :
          /\ Sent(m, c)' = Sent(m, c) /\ Rebuilt(m, c)' = Rebuilt(m, c)
          /\ \A i \in Ids : Fetched(m, c, i)' = Fetched(m, c, i)
    BY <2>1, <2>3 DEF Sent, Rebuilt, Fetched
  <2>5. TmpInv' /\ LostInv'
    BY <2>1, <2>4, ListsSame
  <2> QED BY <2>2, <2>3, <2>5 DEF ConvInv
<1> QED BY <1>1, <1>2 DEF Next

\* The invariant of the helpers, the requestors and the lists between them.
THEOREM ConvInductive == Spec => []ConvInv
<1>1. Init => ConvInv
  BY InitInv
<1>2. ConvInv /\ [Next]_vars => ConvInv'
  BY NextInv
<1> QED BY <1>1, <1>2, PTL DEF Spec

\* Every packet in the list of a repaired block is the right sum over all
\* helpers, in its place, and _diskPkts3 is freed only when no readThread and not
\* the main thread will touch it again: for any number of requests, nodes,
\* helpers, lost blocks and packets.
THEOREM ConvRebuilds == Spec => []LostBlocksRebuilt
<1>1. ConvInv => LostBlocksRebuilt
  <2> SUFFICES ASSUME ConvInv PROVE LostBlocksRebuilt
    OBVIOUS
  <2>1. Typed /\ LostInv /\ \A n \in Nodes : RequestorInv(n) /\ IdleInv(n)
    BY DEF ConvInv
  <2>2. \A c \in Requests, j \in Jobs : \A k \in 1..Len(redis[LostList(c, j)]) :
          redis[LostList(c, j)][k] = Repaired(c, j, k - 1)
    <3>1. \A c \in Requests : team[c][EcK] \in Nodes
      BY <2>1, TeamFacts
    <3> QED BY <2>1, <3>1 DEF LostInv
  <2>3. ASSUME NEW n \in Nodes, IsRequestor(n), rd[n] = 1, ~alloc[n]
        PROVE  pu[n] = Total /\ \A i \in Ids : num[n][i] = PktCnt
    <3>1. PICK d : d = cur[n]
      OBVIOUS
    <3>2. d \in Requests /\ team[d][EcK] = n
      BY <2>1, <2>3, <3>1 DEF IsRequestor, Requestor, Typed
    <3>3. /\ se[n] <= pu[n] /\ pu[n] <= Nj * toPull[n] /\ FetchInv(n, d) /\ ~(se[n] < Total)
      BY <2>1, <2>3, <3>1, <3>2 DEF RequestorInv, AtWork
    <3>4. /\ se[n] \in Nat /\ pu[n] \in Nat /\ toPull[n] \in Nat /\ PktCnt \in Nat /\ Nj \in Nat \ {0}
          /\ Total \in Nat /\ \A i \in Ids : num[n][i] \in Nat
      BY <2>1, Counts, ConvAssumption DEF Typed
    <3>5. \A i \in Ids : toPull[n] <= num[n][i] /\ num[n][i] <= PktCnt
      BY <3>3 DEF FetchInv
    <3>6. toPull[n] = PktCnt
      <4>1. toPull[n] <= PktCnt
        <5>1. PICK i : i \in Ids
          BY ConvAssumption DEF Ids
        <5> QED BY <3>4, <3>5, <5>1
      <4>2. CASE toPull[n] < PktCnt
        <5>1. PICK y : y = Nj * toPull[n]
          OBVIOUS
        <5>2. y \in Nat /\ y + Nj <= Total
          BY <3>4, <4>2, <5>1, Counts
        <5> QED BY <3>3, <3>4, <5>1, <5>2
      <4> QED BY <3>4, <4>1, <4>2
    <3>7. Nj * toPull[n] = Total
      BY <3>6, Counts
    <3> QED BY <3>3, <3>4, <3>5, <3>6, <3>7
  <2>4. ASSUME NEW n \in Nodes, ~IsRequestor(n) PROVE ~alloc[n]
    <3>1. \A c \in Requests : cur[n] = c => team[c][EcK] # n
      <4>1. \A c \in Requests : c # 0
        BY ConvAssumption DEF Requests
      <4> QED BY <2>4, <4>1 DEF IsRequestor, Requestor
    <3> QED BY <2>1, <3>1 DEF IdleInv
  <2> QED BY <2>2, <2>3, <2>4 DEF LostBlocksRebuilt
<1> QED BY <1>1, ConvInductive, PTL
=============================================================================
