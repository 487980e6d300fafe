----------------------- MODULE PipeMulDRWorkerProofs -----------------------
(***************************************************************************)
(* Machine-checked facts about PipeMulDRWorker, for any number of requests,*)
(* nodes, helpers in a chain, lost blocks and packets.                     *)
(*                                                                         *)
(* Every thread goes through packets and, within a packet, jobs; its step  *)
(* number k stands for PktAt(k) and JobAt(k), and Cnt(k, j) of the steps   *)
(* were for job j (the first part).                                        *)
(*                                                                         *)
(* In the inductive invariant MulInv a packet is Good for helper m of a    *)
(* chain when it holds the term of every helper up to m with only first    *)
(* requests from it to m, and exactly the terms of the first m helpers     *)
(* when all of them are.  On a helper at its first request the reader is   *)
(* ahead of the main thread, because all flags were down (FirstWork); on   *)
(* the others nothing is asked of the buffers but that their terms come    *)
(* from the chain.  What the main thread has counted is Good (AtWork), the *)
(* lists hold what is between the counts of their two ends, in order       *)
(* (ListInv), and so does what the client and the passive receivers have   *)
(* (ClientInv).  That the counts speak of one request is due to the order  *)
(* of the commands (CmdsInv).                                              *)
(***************************************************************************)
EXTENDS PipeMulDRWorker, DataInduction, FiniteSetTheorems

\* How many of a thread's first k steps were for job j.
Cnt(k, j) == PktAt(k) + (IF j < JobAt(k) THEN 1 ELSE 0)

-----------------------------------------------------------------------------
(* Steps, packets and jobs. *)

\* The step for packet q and the job after r others.
LEMMA StepOf ==
    ASSUME NEW q \in Nat, NEW r \in 0..(Nj - 1)
    PROVE  Nj * q + r \in Nat /\ PktAt(Nj * q + r) = q /\ JobAt(Nj * q + r) = r + 1
<1> DEFINE N == Nj
           k == N * q + r
<1>1. N \in Nat \ {0}
  BY StreamAssumption
<1>2. N * q \in Nat /\ k \in Nat
  BY <1>1
<1>3. k % N = r
  <2>1. \A s \in 0..(N - 1), i \in Nat : (N * i + s) % N = s
    BY <1>1
  <2> QED BY <2>1
<1>4. k \div N = q
  <2>1. \A s \in 0..(N - 1), i \in Nat : (N * i + s) \div N = i
    BY <1>1
  <2> QED BY <2>1
<1> QED BY <1>2, <1>3, <1>4 DEF PktAt, JobAt

\* The packet and the job of a step.
LEMMA StepIs ==
    ASSUME NEW k \in Nat
    PROVE  PktAt(k) \in Nat /\ JobAt(k) \in Jobs /\ k = Nj * PktAt(k) + (JobAt(k) - 1)
<1>1. Nj \in Nat \ {0}
  BY StreamAssumption
<1>2. k % Nj \in 0..(Nj - 1) /\ k \div Nj \in Nat /\ k = Nj * (k \div Nj) + (k % Nj)
  BY <1>1
<1>3. PICK r \in 0..(Nj - 1) : r = k % Nj
  BY <1>2
<1>4. r + 1 \in 1..Nj /\ (r + 1) - 1 = r
  BY <1>1
<1> QED BY <1>2, <1>3, <1>4 DEF PktAt, JobAt, Jobs

\* One step further, one packet further, and the ends of a run.
LEMMA StepFacts ==
    ASSUME NEW k \in Nat
    PROVE  /\ PktAt(k) \in Nat /\ JobAt(k) \in Jobs
           /\ k + 1 \in Nat /\ k + Nj \in Nat
           /\ JobAt(k + 1) = IF JobAt(k) = Nj THEN 1 ELSE JobAt(k) + 1
           /\ PktAt(k + 1) = IF JobAt(k) = Nj THEN PktAt(k) + 1 ELSE PktAt(k)
           /\ JobAt(k + Nj) = JobAt(k) /\ PktAt(k + Nj) = PktAt(k) + 1
           /\ k < Total => PktAt(k) < PktCnt
<1>1. Nj \in Nat \ {0} /\ PktCnt \in Nat \ {0}
  BY StreamAssumption
<1>2. PICK q, r : q = PktAt(k) /\ r = JobAt(k) - 1
  OBVIOUS
<1>3. q \in Nat /\ r \in 0..(Nj - 1) /\ k = Nj * q + r /\ JobAt(k) = r + 1 /\ JobAt(k) \in Jobs
  <2>1. /\ PktAt(k) \in Nat /\ JobAt(k) \in 1..Nj
        /\ k = Nj * PktAt(k) + (JobAt(k) - 1)
    BY StepIs DEF Jobs
  <2>2. q \in Nat /\ k = Nj * q + r
    BY <1>2, <2>1
  <2>3. r \in 0..(Nj - 1) /\ JobAt(k) = r + 1
    BY <1>1, <1>2, <2>1
  <2> QED BY <2>1, <2>2, <2>3 DEF Jobs
<1>4. PICK x \in Nat : x = Nj * q
  BY <1>1, <1>3
<1>5. Nj * (q + 1) = x + Nj
  BY <1>1, <1>3, <1>4
<1>6. k + Nj = Nj * (q + 1) + r /\ q + 1 \in Nat
  BY <1>1, <1>3, <1>4, <1>5
<1>7. JobAt(k + Nj) = r + 1 /\ PktAt(k + Nj) = q + 1
  BY <1>3, <1>6, StepOf
<1>8. CASE r = Nj - 1
  <2>1. k + 1 = Nj * (q + 1) + 0 /\ 0 \in 0..(Nj - 1)
    BY <1>1, <1>3, <1>4, <1>5, <1>8
  <2>2. JobAt(k + 1) = 0 + 1 /\ PktAt(k + 1) = q + 1
    BY <1>6, <2>1, StepOf
  <2>3. k + 1 \in Nat /\ k + Nj \in Nat
    BY <1>1
  <2>4. k < Total => q < PktCnt
    <3>1. ~(q < PktCnt) => x >= Total
      BY <1>1, <1>3, <1>4 DEF Total
    <3>2. Total \in Nat
      BY <1>1 DEF Total
    <3> QED BY <1>3, <1>4, <3>1, <3>2
  <2>5. JobAt(k) = Nj
    BY <1>1, <1>3, <1>8
  <2> QED BY <1>2, <1>3, <1>7, <2>2, <2>3, <2>4, <2>5
<1>9. CASE r # Nj - 1
  <2>1. k + 1 = Nj * q + (r + 1) /\ r + 1 \in 0..(Nj - 1)
    BY <1>1, <1>3, <1>4, <1>9
  <2>2. JobAt(k + 1) = (r + 1) + 1 /\ PktAt(k + 1) = q
    BY <1>3, <2>1, StepOf
  <2>3. k + 1 \in Nat /\ k + Nj \in Nat
    BY <1>1
  <2>4. k < Total => q < PktCnt
    <3>1. ~(q < PktCnt) => x >= Total
      BY <1>1, <1>3, <1>4 DEF Total
    <3>2. Total \in Nat
      BY <1>1 DEF Total
    <3> QED BY <1>3, <1>4, <3>1, <3>2
  <2>5. JobAt(k) # Nj
    BY <1>1, <1>3, <1>9
  <2> QED BY <1>2, <1>3, <1>7, <2>2, <2>3, <2>4, <2>5
<1> QED BY <1>8, <1>9

LEMMA EndFacts ==
    /\ PktAt(0) = 0 /\ JobAt(0) = 1
    /\ Total \in Nat /\ PktAt(Total) = PktCnt /\ JobAt(Total) = 1
<1>1. Nj \in Nat \ {0} /\ PktCnt \in Nat \ {0} /\ 0 \in 0..(Nj - 1)
  BY StreamAssumption
<1>2. Nj * 0 + 0 = 0 /\ Nj * PktCnt + 0 = Total /\ Total \in Nat
  BY <1>1 DEF Total
<1>3. PktAt(Nj * 0 + 0) = 0 /\ JobAt(Nj * 0 + 0) = 0 + 1
  BY <1>1, StepOf
<1>4. PktAt(Nj * PktCnt + 0) = PktCnt /\ JobAt(Nj * PktCnt + 0) = 0 + 1
  BY <1>1, StepOf
<1> QED BY <1>2, <1>3, <1>4

\* The count of a job's steps.
LEMMA CntFacts ==
    ASSUME NEW k \in Nat, NEW j \in Jobs
    PROVE  /\ Cnt(k, j) \in Nat
           /\ Cnt(k + 1, j) = IF j = JobAt(k) THEN Cnt(k, j) + 1 ELSE Cnt(k, j)
           /\ j = JobAt(k) => Cnt(k, j) = PktAt(k)
           /\ Cnt(0, j) = 0 /\ Cnt(Total, j) = PktCnt
<1>1. /\ PktAt(k) \in Nat /\ JobAt(k) \in Jobs
      /\ JobAt(k + 1) = IF JobAt(k) = Nj THEN 1 ELSE JobAt(k) + 1
      /\ PktAt(k + 1) = IF JobAt(k) = Nj THEN PktAt(k) + 1 ELSE PktAt(k)
  BY StepFacts
<1>2. Jobs = 1..Nj /\ Nj \in Nat \ {0}
  BY StreamAssumption DEF Jobs
<1>3. PktAt(0) = 0 /\ JobAt(0) = 1 /\ PktAt(Total) = PktCnt /\ JobAt(Total) = 1
  BY EndFacts
<1>4. Cnt(0, j) = 0 /\ Cnt(Total, j) = PktCnt
  BY <1>2, <1>3, StreamAssumption DEF Cnt
<1>5. Cnt(k, j) \in Nat /\ (j = JobAt(k) => Cnt(k, j) = PktAt(k))
  BY <1>1, <1>2 DEF Cnt
<1>6. Cnt(k + 1, j) = IF j = JobAt(k) THEN Cnt(k, j) + 1 ELSE Cnt(k, j)
  <2>1. CASE JobAt(k) = Nj
    <3>1. Cnt(k + 1, j) = PktAt(k) + 1
      BY <1>1, <1>2, <2>1 DEF Cnt
    <3>2. Cnt(k, j) = IF j = Nj THEN PktAt(k) ELSE PktAt(k) + 1
      BY <1>1, <1>2, <2>1 DEF Cnt
    <3> QED BY <1>1, <2>1, <3>1, <3>2
  <2>2. CASE JobAt(k) # Nj
    <3>1. Cnt(k + 1, j) = PktAt(k) + (IF j <= JobAt(k) THEN 1 ELSE 0)
      BY <1>1, <1>2, <2>2 DEF Cnt
    <3> QED BY <1>1, <1>2, <3>1 DEF Cnt
  <2> QED BY <2>1, <2>2
<1> QED BY <1>4, <1>5, <1>6

\* Steps are ordered by packet, then by job.
LEMMA StepOrder ==
    ASSUME NEW k \in Nat, NEW l \in Nat, k < l
    PROVE  PktAt(k) < PktAt(l) \/ (PktAt(k) = PktAt(l) /\ JobAt(k) < JobAt(l))
<1>1. Nj \in Nat \ {0}
  BY StreamAssumption
<1>2. PICK q, r, u, s : q = PktAt(k) /\ r = JobAt(k) /\ u = PktAt(l) /\ s = JobAt(l)
  OBVIOUS
<1>6. /\ q \in Nat /\ r \in 1..Nj /\ k = Nj * q + (r - 1)
      /\ u \in Nat /\ s \in 1..Nj /\ l = Nj * u + (s - 1)
  BY <1>2, StepIs DEF Jobs
<1>3. PICK x \in Nat : x = Nj * u /\ l = x + (s - 1)
  BY <1>1, <1>6
<1>4. ASSUME u < q PROVE FALSE
  <2>1. PICK e \in Nat : q = u + e + 1
    <3>1. q - u - 1 \in Nat /\ q = u + (q - u - 1) + 1
      BY <1>4, <1>6
    <3> QED BY <3>1
  <2>2. PICK y \in Nat : y = Nj * e
    BY <1>1, <2>1
  <2>3. Nj * q = x + y + Nj
    BY <1>1, <1>3, <1>6, <2>1, <2>2
  <2>4. k = x + y + Nj + (r - 1)
    BY <1>6, <2>3
  <2> QED BY <1>1, <1>3, <1>6, <2>4
<1>5. ASSUME u = q PROVE r < s
  <2>1. k = x + (r - 1)
    BY <1>3, <1>5, <1>6
  <2> QED BY <1>1, <1>3, <1>6, <2>1
<1> QED BY <1>2, <1>4, <1>5, <1>6

\* The steps of a job that come before step n.
LEMMA JobStep ==
    ASSUME NEW n \in Nat, NEW j \in Jobs, NEW k \in 1..Cnt(n, j)
    PROVE  /\ (k - 1) * Nj + j \in 1..n
           /\ JobAt((k - 1) * Nj + j - 1) = j /\ PktAt((k - 1) * Nj + j - 1) = k - 1
<1>1. Nj \in Nat \ {0} /\ j \in 1..Nj
  BY StreamAssumption DEF Jobs
<1>2. PICK q \in Nat, r \in 1..Nj : q = PktAt(n) /\ r = JobAt(n) /\ n = Nj * q + (r - 1)
  BY StepIs DEF Jobs
<1>3. k \in Nat \ {0} /\ k <= q + (IF j < r THEN 1 ELSE 0)
  BY <1>1, <1>2 DEF Cnt
<1>4. PICK x \in Nat : x = Nj * (k - 1) /\ x = (k - 1) * Nj
  BY <1>1, <1>3
<1>5. ASSUME k <= q PROVE x + j \in 1..n
  <2>1. PICK e \in Nat : q = (k - 1) + e + 1
    <3>1. q - k \in Nat /\ q = (k - 1) + (q - k) + 1
      BY <1>3, <1>5
    <3> QED BY <3>1
  <2>2. PICK y \in Nat : y = Nj * e
    BY <1>1, <2>1
  <2>3. Nj * q = x + y + Nj
    BY <1>1, <1>3, <1>4, <2>1, <2>2
  <2>4. n = x + y + Nj + (r - 1)
    BY <1>2, <2>3
  <2> QED BY <1>1, <1>2, <1>4, <2>4
<1>6. ASSUME k = q + 1, j < r PROVE x + j \in 1..n
  <2>1. x = Nj * q
    BY <1>4, <1>6
  <2>2. n = x + (r - 1)
    BY <1>2, <2>1
  <2> QED BY <1>1, <1>2, <1>4, <1>6, <2>2
<1>7. x + j \in 1..n
  BY <1>2, <1>3, <1>5, <1>6
<1>8. (k - 1) * Nj + j - 1 = Nj * (k - 1) + (j - 1) /\ j - 1 \in 0..(Nj - 1) /\ k - 1 \in Nat
      /\ (j - 1) + 1 = j
  BY <1>1, <1>3, <1>4
<1>9. JobAt(Nj * (k - 1) + (j - 1)) = (j - 1) + 1 /\ PktAt(Nj * (k - 1) + (j - 1)) = k - 1
  BY <1>8, StepOf
<1> QED BY <1>4, <1>7, <1>8, <1>9

\* Their number.
LEMMA JobSteps ==
    ASSUME NEW j \in Jobs, NEW n \in Nat
    PROVE  Cardinality({m \in 1..n : JobAt(m - 1) = j}) = Cnt(n, j)
<1> DEFINE T(k) == {m \in 1..k : JobAt(m - 1) = j}
           S == {k \in Nat : IsFiniteSet(T(k)) /\ Cardinality(T(k)) = Cnt(k, j)}
<1>1. 0 \in S
  <2>1. T(0) = {}
    OBVIOUS
  <2>2. Cnt(0, j) = 0
    BY CntFacts
  <2> QED BY <2>1, <2>2, FS_EmptySet
<1>2. ASSUME NEW k \in Nat, k \in S PROVE k + 1 \in S
  <2>1. IsFiniteSet(T(k)) /\ Cardinality(T(k)) = Cnt(k, j) /\ Cnt(k, j) \in Nat
        /\ Cnt(k + 1, j) = IF j = JobAt(k) THEN Cnt(k, j) + 1 ELSE Cnt(k, j)
    BY <1>2, CntFacts
  <2>2. (k + 1) - 1 = k /\ k + 1 \in Nat /\ \A m \in 1..(k + 1) : m \in 1..k \/ m = k + 1
    OBVIOUS
  <2>3. CASE j = JobAt(k)
    <3>1. T(k + 1) = T(k) \cup {k + 1} /\ k + 1 \notin T(k)
      BY <2>2, <2>3
    <3> HIDE DEF T
    <3>2. IsFiniteSet(T(k + 1)) /\ Cardinality(T(k + 1)) = Cardinality(T(k)) + 1
      BY <2>1, <3>1, FS_AddElement
    <3> QED BY <2>1, <2>2, <2>3, <3>2
  <2>4. CASE j # JobAt(k)
    <3>1. T(k + 1) = T(k)
      BY <2>2, <2>4
    <3> HIDE DEF T
    <3> QED BY <2>1, <2>2, <2>4, <3>1
  <2> QED BY <2>3, <2>4
<1>3. Nat \subseteq S
  <2> HIDE DEF S
  <2> QED BY <1>1, <1>2, SetInduction
<1> QED BY <1>3
-----------------------------------------------------------------------------
(* The invariant. *)

Terms == Nodes \X (Jobs \cup {0}) \X Requests \X Pkts \X SUBSET Nodes
Packets == SUBSET Terms

\* All of v is from the first m helpers of request c.
From(v, c, m) == \A t \in v : \E i \in 1..m : t[1] = chain[c][i]

\* Helpers i to m of request c serve their first request.
Fresh(c, i, m) == \A q \in i..m : ~Reused(c, q)

\* Packet p of lost block j as helper m of request c may push it.
Good(c, m, j, p, v) ==
    /\ From(v, c, m)
    /\ \A i \in 1..m : Fresh(c, i, m) => Term(chain[c][i], c, j, p) \in v
    /\ Fresh(c, 1, m) => v = {Term(chain[c][i], c, j, p) : i \in 1..m}

\* The packets of job j from packet q on, as helper m pushes them.
Run(s, c, m, j, q) == \A k \in 1..Len(s) : Good(c, m, j, q + k - 1, s[k])

Typed ==
    /\ warm \subseteq Nodes /\ chain \in [Requests -> Chains]
    /\ cmds \in [Nodes -> Seq(Requests \X Jobs \X Jobs)] /\ cur \in [Nodes -> Requests \cup {0}]
    /\ redis \in [Lists -> Seq(Packets)]
    /\ \A c \in Clients, j \in Jobs : fetch[c][j] = LostList(chain[c][EcK], c, j)
    /\ mulPkt \in [Nodes -> [Pkts -> [Jobs -> Packets]]] /\ flag \in [Nodes -> [Pkts -> BOOLEAN]]
    /\ toSend \in [Nodes -> [Jobs -> Nat]] /\ jobs \in [Nodes -> Seq(Requests \X Jobs)]
    /\ rd \in [Nodes -> Nat] /\ pu \in [Nodes -> Nat] /\ se \in [Nodes -> Nat]
    /\ copied \in [Nodes -> BOOLEAN]
    /\ contents \in [Clients -> Seq(Packets)] /\ processed \in [Clients -> Nat]
    /\ out \in [Clients -> Seq(Packets)]
    /\ relayed \in [Clients -> [Jobs -> Seq(Packets)]]
    /\ passive \in [Clients -> [Jobs -> Seq(Packets)]]

\* The command that starts the work on request c is still to come.
Pending(n, c) == \E k \in 1..Len(cmds[n]) : cmds[n][k] = <<c, Nj, 1>>

\* The first i jobs of request c, as TakeCmd collects them.
FirstJobs(c, i) == [k \in 1..i |-> <<c, k>>]

\* What node n has still to do: whole requests, in order, but for the first one,
\* whose jobs up to the next command are in pipeMulJobs.
CmdsInv(n) ==
    /\ \A k \in 1..Len(cmds[n]) :
         /\ n \in Helpers(cmds[n][k][1]) /\ cur[n] < cmds[n][k][1]
         /\ cmds[n][k][3] = Nj - cmds[n][k][2] + 1
         /\ IF cmds[n][k][2] < Nj
              THEN k < Len(cmds[n]) /\ cmds[n][k + 1][1] = cmds[n][k][1]
                                    /\ cmds[n][k + 1][2] = cmds[n][k][2] + 1
              ELSE k < Len(cmds[n]) => cmds[n][k + 1][2] = 1
    /\ \A k, l \in 1..Len(cmds[n]) : k < l =>
         /\ cmds[n][k][1] <= cmds[n][l][1]
         /\ cmds[n][k][2] = Nj => cmds[n][k][1] < cmds[n][l][1]
    /\ cur[n] # 0 => /\ n \in Helpers(cur[n]) /\ jobs[n] = FirstJobs(cur[n], Nj)
                     /\ cmds[n] # <<>> => cmds[n][1][2] = 1
    /\ cur[n] = 0 /\ cmds[n] # <<>> /\ cmds[n][1][2] # 1 =>
         jobs[n] = FirstJobs(cmds[n][1][1], cmds[n][1][2] - 1)

\* Node n at work on request c, its first: the main thread is behind the reader,
\* and a packet that is read and not yet added to is the node's own term.
FirstWork(n, c) ==
    /\ ~copied[n] /\ JobAt(rd[n]) = 1 /\ Cnt(pu[n], 1) <= PktAt(rd[n])
    /\ \A p \in Pkts : flag[n][p] <=> p < PktAt(rd[n])
    /\ \A p \in Pkts, j \in Jobs : p < PktAt(rd[n]) /\ Cnt(pu[n], j) <= p =>
         mulPkt[n][p][j] = {Term(n, c, j, p)}

\* Helper m of request c, node n, at work on it: what the main thread has counted
\* may be sent.
AtWork(n, c, m) ==
    /\ \A j \in Jobs : toSend[n][j] = Cnt(pu[n], j)
    /\ \A p \in Pkts, j \in Jobs : From(mulPkt[n][p][j], c, m)
    /\ \A p \in Pkts, j \in Jobs : p < Cnt(pu[n], j) => Good(c, m, j, p, mulPkt[n][p][j])
    /\ ~Reused(c, m) => FirstWork(n, c)

NodeInv(n) ==
    /\ copied[n] => cur[n] # 0 /\ rd[n] < Total /\ flag[n][PktAt(rd[n])]
    /\ \A c \in Requests, m \in 1..EcK : chain[c][m] = n =>
         /\ Pending(n, c) /\ ~Reused(c, m) => \A p \in Pkts : ~flag[n][p]
         /\ cur[n] = c => AtWork(n, c, m)

\* How many packets of job j of request c node n has sent, and added.
Sent(n, c, j) == IF cur[n] = c THEN Cnt(se[n], j) ELSE IF Pending(n, c) THEN 0 ELSE PktCnt
Pulled(n, c, j) == IF cur[n] = c THEN Cnt(pu[n], j) ELSE IF Pending(n, c) THEN 0 ELSE PktCnt

\* The list helper m pushes to and the next, or the client, takes from, and how many
\* packets have been taken from it.
Key(c, m, j) == IF m = EcK THEN LostList(chain[c][m], c, j) ELSE TmpList(chain[c][m], c, j)
Taken(c, m, j) == IF m = EcK THEN IF c \in Clients THEN Cnt(Len(contents[c]), j) ELSE 0
                             ELSE Pulled(chain[c][m + 1], c, j)

ListInv(c, m, j) ==
    /\ Taken(c, m, j) + Len(redis[Key(c, m, j)]) = Sent(chain[c][m], c, j)
    /\ Run(redis[Key(c, m, j)], c, m, j, Taken(c, m, j))

\* What a client has taken, and what of it the forwarder and the passive
\* receivers have passed on.
ClientInv(c) ==
    /\ processed[c] <= Len(contents[c])
    /\ \A k \in 1..Len(contents[c]) :
         Good(c, EcK, JobAt(k - 1), PktAt(k - 1), contents[c][k])
    /\ Len(out[c]) = Cnt(processed[c], 1)
    /\ Run(out[c], c, EcK, 1, 0)
    /\ \A j \in Jobs \ {1} :
         /\ Len(passive[c][j]) + Len(relayed[c][j]) = Cnt(processed[c], j)
         /\ Run(passive[c][j], c, EcK, j, 0)
         /\ Run(relayed[c][j], c, EcK, j, Len(passive[c][j]))

MulInv ==
    /\ Typed
    /\ \A n \in Nodes : CmdsInv(n) /\ NodeInv(n)
    /\ \A c \in Requests, m \in 1..EcK, j \in Jobs : ListInv(c, m, j)
    /\ \A c \in Clients : ClientInv(c)

-----------------------------------------------------------------------------
(* Facts the steps have in common. *)

LEMMA Basics ==
    /\ EcK \in Nat \ {0} /\ EcK \in 1..EcK /\ R \in Nat /\ Nj \in Nat \ {0}
    /\ PktCnt \in Nat \ {0} /\ Clients \subseteq Requests
    /\ 0 \notin Requests /\ Requests = 1..R
    /\ Jobs = 1..Nj /\ 1 \in Jobs /\ Nj \in Jobs
    /\ \A j \in Jobs : j \in Nat /\ 1 <= j /\ j <= Nj
    /\ \A p : p \in Pkts <=> p \in Nat /\ p < PktCnt
    /\ Total \in Nat
BY PipeMulAssumption, StreamAssumption, EndFacts DEF Requests, Pkts, Jobs

\* The chains and the helpers that were warm never change, nor does what depends
\* on them alone.
LEMMA Fixed ==
    ASSUME UNCHANGED <<warm, chain>>
    PROVE  /\ \A c : Helpers(c)' = Helpers(c)
           /\ \A c, i : Reused(c, i)' = Reused(c, i)
           /\ \A c, i, m : Fresh(c, i, m)' = Fresh(c, i, m)
           /\ \A v, c, m : From(v, c, m)' = From(v, c, m)
           /\ \A c, m, j, p, v : Good(c, m, j, p, v)' = Good(c, m, j, p, v)
           /\ \A s, c, m, j, q : Run(s, c, m, j, q)' = Run(s, c, m, j, q)
           /\ \A c, m, j : Key(c, m, j)' = Key(c, m, j)
           /\ \A c, n : Id(c, n)' = Id(c, n)
<1>1. warm' = warm /\ chain' = chain
  OBVIOUS
<1>2. /\ \A c : Helpers(c)' = Helpers(c)
      /\ \A c, m, j : Key(c, m, j)' = Key(c, m, j)
      /\ \A c, n : Id(c, n)' = Id(c, n)
      /\ \A v, c, m : From(v, c, m)' = From(v, c, m)
  BY <1>1 DEF Helpers, Key, TmpList, LostList, Id, From
<1>3. \A c, i : Reused(c, i)' = Reused(c, i)
  BY <1>1, <1>2 DEF Reused
<1>4. \A c, i, m : Fresh(c, i, m)' = Fresh(c, i, m)
  BY <1>3 DEF Fresh
<1>5. \A c, m, j, p, v : Good(c, m, j, p, v)' = Good(c, m, j, p, v)
  BY <1>1, <1>2, <1>4 DEF Good, Term
<1>6. \A s, c, m, j, q : Run(s, c, m, j, q)' = Run(s, c, m, j, q)
  BY <1>5 DEF Run
<1> QED BY <1>2, <1>3, <1>4, <1>5, <1>6

\* The helpers of a request.
LEMMA ChainFacts ==
    ASSUME Typed, NEW c \in Requests
    PROVE  /\ \A i \in 1..EcK : chain[c][i] \in Nodes /\ chain[c][i] \in Helpers(c)
           /\ \A i, k \in 1..EcK : chain[c][i] = chain[c][k] => i = k
<1>1. chain[c] \in Chains
  BY DEF Typed
<1> QED BY <1>1 DEF Chains, Helpers

LEMMA IdFacts ==
    ASSUME Typed, NEW c \in Requests, NEW n \in Helpers(c)
    PROVE  \E m \in 1..EcK : /\ chain[c][m] = n /\ Id(c, n) = m - 1
                             /\ \A i \in 1..EcK : chain[c][i] = n => i = m
<1>1. PICK i \in 1..EcK : chain[c][i] = n
  BY DEF Helpers
<1>2. PICK k : k = CHOOSE j \in 1..EcK : chain[c][j] = n
  OBVIOUS
<1>3. k \in 1..EcK /\ chain[c][k] = n
  BY <1>1, <1>2
<1>4. Id(c, n) = k - 1
  BY <1>2 DEF Id
<1>5. \A j \in 1..EcK : chain[c][j] = n => j = k
  BY <1>3, ChainFacts
<1> QED BY <1>3, <1>4, <1>5

\* The lists of different helpers, requests and jobs are different lists.
LEMMA KeyFacts ==
    ASSUME Typed, NEW c \in Requests, NEW m \in 1..EcK, NEW j \in Jobs
    PROVE  /\ Key(c, m, j) \in Lists /\ redis[Key(c, m, j)] \in Seq(Packets)
           /\ \A d, i, k : d # c \/ k # j => Key(c, m, j) # Key(d, i, k)
           /\ \A i \in 1..EcK : i # m => Key(c, m, j) # Key(c, i, j)
<1>1. chain[c][m] \in Nodes /\ \A i \in 1..EcK : chain[c][i] = chain[c][m] => i = m
  BY ChainFacts
<1>2. \A s \in Nodes : TmpList(s, c, j) \in Lists /\ LostList(s, c, j) \in Lists
  BY DEF Lists
<1>3. Key(c, m, j) \in Lists
  BY <1>1, <1>2 DEF Key
<1>4. redis[Key(c, m, j)] \in Seq(Packets)
  BY <1>3 DEF Typed
<1>5. \A d, i, k : d # c \/ k # j => Key(c, m, j) # Key(d, i, k)
  BY DEF Key, TmpList, LostList
<1>6. \A i \in 1..EcK : i # m => Key(c, m, j) # Key(c, i, j)
  BY <1>1 DEF Key, TmpList, LostList
<1> QED BY <1>3, <1>4, <1>5, <1>6

\* What the reader of a list takes, and leaves.
LEMMA RunPop ==
    ASSUME NEW s \in Seq(Packets), NEW c, NEW m, NEW j, NEW q \in Nat,
           Run(s, c, m, j, q), s # <<>>
    PROVE  /\ Good(c, m, j, q, Head(s)) /\ Run(Tail(s), c, m, j, q + 1)
           /\ Head(s) \in Packets /\ Tail(s) \in Seq(Packets)
           /\ Len(Tail(s)) \in Nat /\ Len(s) = Len(Tail(s)) + 1
<1>1. PICK u : u = Tail(s)
  OBVIOUS
<1>2. /\ Len(s) \in Nat \ {0} /\ Head(s) = s[1] /\ Len(u) = Len(s) - 1
      /\ u \in Seq(Packets) /\ \A k \in 1..(Len(s) - 1) : u[k] = s[k + 1]
  BY <1>1
<1>3. Head(s) \in Packets
  BY <1>2, ElementOfSeq
<1>4. Good(c, m, j, q, Head(s))
  <2>1. 1 \in 1..Len(s) /\ q + 1 - 1 = q
    BY <1>2
  <2> QED BY <1>2, <2>1 DEF Run
<1>5. ASSUME NEW k \in 1..Len(u) PROVE Good(c, m, j, (q + 1) + k - 1, u[k])
  <2>1. k + 1 \in 1..Len(s) /\ k \in 1..(Len(s) - 1) /\ q + (k + 1) - 1 = (q + 1) + k - 1
    BY <1>2
  <2>2. Good(c, m, j, q + (k + 1) - 1, s[k + 1])
    BY <2>1 DEF Run
  <2> QED BY <1>2, <2>1, <2>2
<1>6. Len(u) \in Nat /\ Len(s) = Len(u) + 1
  BY <1>2
<1> QED BY <1>1, <1>2, <1>3, <1>4, <1>5, <1>6 DEF Run

\* What the writer of a list adds.
LEMMA RunPush ==
    ASSUME NEW s \in Seq(Packets), NEW c, NEW m, NEW j, NEW q \in Nat, NEW t,
           Run(s, c, m, j, q), q + Len(s) = t, NEW v \in Packets, Good(c, m, j, t, v)
    PROVE  /\ Run(Append(s, v), c, m, j, q) /\ Append(s, v) \in Seq(Packets)
           /\ q + Len(Append(s, v)) = t + 1 /\ Len(Append(s, v)) = Len(s) + 1
<1>1. PICK u : u = Append(s, v)
  OBVIOUS
<1>2. /\ Len(s) \in Nat /\ Len(u) = Len(s) + 1 /\ u[Len(s) + 1] = v /\ u \in Seq(Packets)
      /\ \A k \in 1..Len(s) : u[k] = s[k]
  BY <1>1
<1>3. ASSUME NEW k \in 1..Len(u) PROVE Good(c, m, j, q + k - 1, u[k])
  <2>1. CASE k \in 1..Len(s)
    BY <1>2, <2>1 DEF Run
  <2>2. CASE k = Len(s) + 1
    <3>1. q + k - 1 = t /\ u[k] = v
      BY <1>2, <2>2
    <3> QED BY <3>1
  <2> QED BY <1>2, <2>1, <2>2
<1>4. q + Len(u) = t + 1
  BY <1>2
<1> QED BY <1>1, <1>2, <1>3, <1>4 DEF Run

\* A node at work: helper m of request c.
At(n, c, m) ==
    /\ c \in Requests /\ c # 0 /\ m \in 1..EcK
    /\ chain[c][m] = n /\ Id(c, n) = m - 1 /\ \A i \in 1..EcK : chain[c][i] = n => i = m
    /\ AtWork(n, c, m) /\ \A j \in Jobs : JobOf(n, j) = j
    /\ ~Pending(n, c)
    /\ \A d \in Requests, i \in 1..EcK : Pending(n, d) /\ chain[d][i] = n => Reused(d, i)

LEMMA AtPlace ==
    ASSUME MulInv, NEW n \in Nodes, cur[n] # 0
    PROVE  \E m \in 1..EcK : At(n, cur[n], m)
<1>1. Typed /\ CmdsInv(n) /\ NodeInv(n)
  BY DEF MulInv
<1>2. PICK c : c = cur[n]
  OBVIOUS
<1>3. c \in Requests /\ c # 0 /\ c \in Nat
  BY <1>1, <1>2, Basics DEF Typed
<1>4. n \in Helpers(c) /\ jobs[n] = FirstJobs(c, Nj)
  BY <1>1, <1>2, <1>3 DEF CmdsInv
<1>5. PICK m \in 1..EcK : /\ chain[c][m] = n /\ Id(c, n) = m - 1
                          /\ \A i \in 1..EcK : chain[c][i] = n => i = m
  BY <1>1, <1>3, <1>4, IdFacts
<1>6. AtWork(n, c, m)
  BY <1>1, <1>2, <1>3, <1>5 DEF NodeInv
<1>7. \A j \in Jobs : JobOf(n, j) = j
  <2>1. \A j \in Jobs : FirstJobs(c, Nj)[j] = <<c, j>>
    BY Basics DEF FirstJobs
  <2> QED BY <1>4, <2>1 DEF JobOf
<1>8. ASSUME NEW d \in Requests, Pending(n, d) PROVE c < d
  <2>1. PICK k \in 1..Len(cmds[n]) : cmds[n][k] = <<d, Nj, 1>>
    BY <1>8 DEF Pending
  <2>2. cur[n] < cmds[n][k][1]
    BY <1>1, <2>1 DEF CmdsInv
  <2> QED BY <1>2, <2>1, <2>2
<1>9. ~Pending(n, c)
  BY <1>3, <1>8
<1>10. ASSUME NEW d \in Requests, NEW i \in 1..EcK, Pending(n, d), chain[d][i] = n
       PROVE  Reused(d, i)
  <2>1. c < d /\ d \in Nat
    BY <1>8, <1>10, Basics
  <2>2. c \in 1..(d - 1)
    BY <1>3, <2>1
  <2> QED BY <1>4, <1>10, <2>2 DEF Reused
<1> QED BY <1>2, <1>3, <1>5, <1>6, <1>7, <1>9, <1>10 DEF At

\* The nodes that take no part in a step.
LEMMA OthersSame ==
    ASSUME MulInv, NEW n \in Nodes, UNCHANGED <<warm, chain>>,
           cmds'[n] = cmds[n], jobs'[n] = jobs[n], cur'[n] = cur[n],
           mulPkt'[n] = mulPkt[n], flag'[n] = flag[n], toSend'[n] = toSend[n],
           rd'[n] = rd[n], pu'[n] = pu[n], copied'[n] = copied[n]
    PROVE  CmdsInv(n)' /\ NodeInv(n)'
<1>1. CmdsInv(n) /\ NodeInv(n)
  BY DEF MulInv
<1>2. /\ \A c : Helpers(c)' = Helpers(c)
      /\ \A c, i : Reused(c, i)' = Reused(c, i)
      /\ \A v, c, m : From(v, c, m)' = From(v, c, m)
      /\ \A c, m, j, p, v : Good(c, m, j, p, v)' = Good(c, m, j, p, v)
  BY Fixed
<1>3. CmdsInv(n)'
  BY <1>1, <1>2 DEF CmdsInv, FirstJobs
<1>4. \A c : Pending(n, c)' = Pending(n, c)
  BY DEF Pending
<1>5. \A c, m : AtWork(n, c, m)' = AtWork(n, c, m)
  <2>1. \A c : FirstWork(n, c)' = FirstWork(n, c)
    BY DEF FirstWork, Term, Cnt, PktAt, JobAt
  <2> QED BY <1>2, <2>1 DEF AtWork, Cnt, PktAt, JobAt
<1>6. NodeInv(n)'
  BY <1>1, <1>2, <1>4, <1>5 DEF NodeInv, PktAt
<1> QED BY <1>3, <1>6

\* A list that a step does not push to or pop from, its counters the same.
LEMMA ListSame ==
    ASSUME MulInv, NEW c \in Requests, NEW m \in 1..EcK, NEW j \in Jobs,
           UNCHANGED <<warm, chain>>, redis'[Key(c, m, j)] = redis[Key(c, m, j)],
           \A n \in Nodes : n = chain[c][m] => Sent(n, c, j)' = Sent(n, c, j),
           \A n \in Nodes : m # EcK /\ n = chain[c][m + 1] => Pulled(n, c, j)' = Pulled(n, c, j),
           m = EcK /\ c \in Clients => Cnt(Len(contents'[c]), j) = Cnt(Len(contents[c]), j)
    PROVE  ListInv(c, m, j)'
<1>1. ListInv(c, m, j) /\ Typed
  BY DEF MulInv
<1>2. /\ Key(c, m, j)' = Key(c, m, j)
      /\ \A s, q : Run(s, c, m, j, q)' = Run(s, c, m, j, q)
  BY Fixed
<1>3. PICK n \in Nodes : n = chain[c][m]
  BY <1>1, ChainFacts
<1>4. Sent(chain[c][m], c, j)' = Sent(chain[c][m], c, j)
  <2>1. Sent(chain[c][m], c, j)' = Sent(n, c, j)'
    BY <1>3 DEF Sent, Pending
  <2> QED BY <1>3, <2>1
<1>5. Taken(c, m, j)' = Taken(c, m, j)
  <2>1. CASE m = EcK
    <3>1. Taken(c, m, j) = IF c \in Clients THEN Cnt(Len(contents[c]), j) ELSE 0
      BY <2>1 DEF Taken
    <3>2. Taken(c, m, j)' = IF c \in Clients THEN Cnt(Len(contents'[c]), j) ELSE 0
      BY <2>1 DEF Taken, Cnt, PktAt, JobAt
    <3> QED BY <2>1, <3>1, <3>2
  <2>2. CASE m # EcK
    <3>1. m + 1 \in 1..EcK
      BY <2>2, Basics
    <3>2. PICK k \in Nodes : k = chain[c][m + 1]
      BY <1>1, <3>1, ChainFacts
    <3>3. Taken(c, m, j) = Pulled(k, c, j) /\ Taken(c, m, j)' = Pulled(k, c, j)'
      BY <2>2, <3>2 DEF Taken, Pulled, Pending
    <3> QED BY <2>2, <3>2, <3>3
  <2> QED BY <2>1, <2>2
<1>6. PICK l, t : l = redis[Key(c, m, j)] /\ t = Taken(c, m, j)
  OBVIOUS
<1>7. redis'[Key(c, m, j)'] = l /\ Taken(c, m, j)' = t
  BY <1>2, <1>5, <1>6
<1>8. Run(l, c, m, j, t)' /\ t + Len(l) = Sent(chain[c][m], c, j)
  BY <1>1, <1>2, <1>6 DEF ListInv
<1> QED BY <1>4, <1>7, <1>8 DEF ListInv

\* What has been sent and added when nobody takes or finishes a request and only
\* node n, at work on c, counts.
LEMMA CountsFacts ==
    ASSUME NEW n \in Nodes, NEW c \in Requests, cur[n] = c, UNCHANGED <<cmds, cur>>,
           \A m \in Nodes : m # n => se'[m] = se[m] /\ pu'[m] = pu[m]
    PROVE  /\ \A m \in Nodes, d \in Requests, j \in Jobs : m # n \/ d # c =>
                Sent(m, d, j)' = Sent(m, d, j) /\ Pulled(m, d, j)' = Pulled(m, d, j)
           /\ \A j \in Jobs : /\ Sent(n, c, j) = Cnt(se[n], j) /\ Sent(n, c, j)' = Cnt(se'[n], j)
                              /\ Pulled(n, c, j) = Cnt(pu[n], j)
                              /\ Pulled(n, c, j)' = Cnt(pu'[n], j)
<1>1. cur' = cur /\ \A m, d : Pending(m, d)' = Pending(m, d)
  BY DEF Pending
<1>2. \A k, j : Cnt(k, j)' = Cnt(k, j)
  BY DEF Cnt, PktAt, JobAt
<1>3. ASSUME NEW m \in Nodes, NEW d \in Requests, NEW j \in Jobs, m # n \/ d # c
      PROVE  Sent(m, d, j)' = Sent(m, d, j) /\ Pulled(m, d, j)' = Pulled(m, d, j)
  <2>1. CASE m # n
    <3>1. Cnt(se[m], j)' = Cnt(se[m], j) /\ Cnt(pu[m], j)' = Cnt(pu[m], j)
      BY <2>1 DEF Cnt, PktAt, JobAt
    <3> QED BY <1>1, <3>1 DEF Sent, Pulled
  <2>2. CASE m = n /\ d # c
    BY <1>1, <2>2 DEF Sent, Pulled
  <2> QED BY <1>3, <2>1, <2>2
<1>4. ASSUME NEW j \in Jobs
      PROVE  /\ Sent(n, c, j) = Cnt(se[n], j) /\ Sent(n, c, j)' = Cnt(se'[n], j)
             /\ Pulled(n, c, j) = Cnt(pu[n], j) /\ Pulled(n, c, j)' = Cnt(pu'[n], j)
  <2>1. Cnt(se[n], j)' = Cnt(se'[n], j) /\ Cnt(pu[n], j)' = Cnt(pu'[n], j)
    BY DEF Cnt, PktAt, JobAt
  <2> QED BY <1>1, <2>1 DEF Sent, Pulled
<1> QED BY <1>3, <1>4

\* The clients that take no part in a step.
LEMMA ClientSame ==
    ASSUME MulInv, NEW c \in Clients, UNCHANGED <<warm, chain>>, contents'[c] = contents[c],
           processed'[c] = processed[c], out'[c] = out[c], relayed'[c] = relayed[c],
           passive'[c] = passive[c]
    PROVE  ClientInv(c)'
<1>1. ClientInv(c)
  BY DEF MulInv
<1>2. /\ \A m, j, p, v : Good(c, m, j, p, v)' = Good(c, m, j, p, v)
      /\ \A s, m, j, q : Run(s, c, m, j, q)' = Run(s, c, m, j, q)
  BY Fixed
<1>3. PICK a, b, o, r, p : /\ a = contents[c] /\ b = processed[c] /\ o = out[c]
                           /\ r = relayed[c] /\ p = passive[c]
  OBVIOUS
<1>4. /\ contents'[c] = a /\ processed'[c] = b /\ out'[c] = o /\ relayed'[c] = r
      /\ passive'[c] = p
  BY <1>3
<1>6. /\ b <= Len(a) /\ \A k \in 1..Len(a) : Good(c, EcK, JobAt(k - 1), PktAt(k - 1), a[k])
      /\ Len(o) = Cnt(b, 1) /\ Run(o, c, EcK, 1, 0)
      /\ \A j \in Jobs \ {1} : /\ Len(p[j]) + Len(r[j]) = Cnt(b, j)
                               /\ Run(p[j], c, EcK, j, 0)
                               /\ Run(r[j], c, EcK, j, Len(p[j]))
  BY <1>1, <1>3 DEF ClientInv
<1>5. /\ b <= Len(a) /\ \A k \in 1..Len(a) : Good(c, EcK, JobAt(k - 1), PktAt(k - 1), a[k])'
      /\ Len(o) = Cnt(b, 1) /\ Run(o, c, EcK, 1, 0)'
      /\ \A j \in Jobs \ {1} : /\ Len(p[j]) + Len(r[j]) = Cnt(b, j)
                               /\ Run(p[j], c, EcK, j, 0)'
                               /\ Run(r[j], c, EcK, j, Len(p[j]))'
  <2>1. \A k \in 1..Len(a) : Good(c, EcK, JobAt(k - 1), PktAt(k - 1), a[k])'
    BY <1>2, <1>6
  <2>2. Run(o, c, EcK, 1, 0)'
    BY <1>2, <1>6
  <2>3. ASSUME NEW j \in Jobs \ {1}
        PROVE  Run(p[j], c, EcK, j, 0)' /\ Run(r[j], c, EcK, j, Len(p[j]))'
    <3>1. Run(p[j], c, EcK, j, 0) /\ Run(r[j], c, EcK, j, Len(p[j]))
      BY <1>6
    <3>2. Run(p[j], c, EcK, j, 0)' = Run(p[j], c, EcK, j, 0)
      BY ONLY <1>2
    <3>3. Run(r[j], c, EcK, j, Len(p[j]))' = Run(r[j], c, EcK, j, Len(p[j]))
      BY ONLY <1>2
    <3> QED BY <3>1, <3>2, <3>3
  <2> QED BY <1>6, <2>1, <2>2, <2>3
<1> QED BY <1>4, <1>5 DEF ClientInv, Cnt, PktAt, JobAt

\* The invariant after a step of node n at work, part by part.
LEMMA WorkStep ==
    ASSUME MulInv, NEW n \in Nodes, NEW c, NEW m, cur[n] = c, At(n, c, m),
           UNCHANGED <<warm, chain, cmds, jobs, cur, clientVars, passive>>,
           Typed', AtWork(n, c, m)',
           copied'[n] => rd'[n] < Total /\ flag'[n][PktAt(rd'[n])],
           \A k \in Nodes : k # n => /\ mulPkt'[k] = mulPkt[k] /\ flag'[k] = flag[k]
                                     /\ toSend'[k] = toSend[k] /\ rd'[k] = rd[k]
                                     /\ pu'[k] = pu[k] /\ copied'[k] = copied[k],
           \A d \in Requests, i \in 1..EcK, j \in Jobs : ListInv(d, i, j)'
    PROVE  MulInv'
<1>1. /\ c \in Requests /\ c # 0 /\ \A i \in 1..EcK : chain[c][i] = n => i = m
      /\ \A d \in Requests, i \in 1..EcK : Pending(n, d) /\ chain[d][i] = n => Reused(d, i)
  BY DEF At
<1>2. \A d, i : Reused(d, i)' = Reused(d, i)
  BY Fixed
<1>3. \A d : Pending(n, d)' = Pending(n, d)
  BY DEF Pending
<1>4. \A d : Helpers(d)' = Helpers(d)
  BY Fixed
<1>5. ASSUME NEW k \in Nodes PROVE CmdsInv(k)'
  <2>1. CmdsInv(k)
    BY DEF MulInv
  <2> QED BY <1>4, <2>1 DEF CmdsInv, FirstJobs
<1>6. ASSUME NEW k \in Nodes PROVE NodeInv(k)'
  <2>1. CASE k # n
    BY <2>1, OthersSame
  <2>2. CASE k = n
    <3>1. copied'[n] => cur'[n] # 0 /\ rd'[n] < Total /\ flag'[n][PktAt(rd'[n])]
      BY <1>1
    <3>2. ASSUME NEW d \in Requests, NEW i \in 1..EcK, chain'[d][i] = n
          PROVE  /\ Pending(n, d)' /\ ~Reused(d, i)' => \A p \in Pkts : ~flag'[n][p]
                 /\ cur'[n] = d => AtWork(n, d, i)'
      BY <1>1, <1>2, <1>3, <3>2
    <3> QED BY <2>2, <3>1, <3>2 DEF NodeInv, PktAt
  <2> QED BY <2>1, <2>2
<1>7. \A d \in Clients : ClientInv(d)'
  BY ClientSame DEF clientVars
<1> QED BY <1>5, <1>6, <1>7 DEF MulInv

\* The lists when a step touches none of them and nothing is sent or taken.
LEMMA ListsUntouched ==
    ASSUME MulInv, UNCHANGED <<warm, chain, redis, contents>>,
           \A n \in Nodes, c \in Requests, j \in Jobs :
             Sent(n, c, j)' = Sent(n, c, j) /\ Pulled(n, c, j)' = Pulled(n, c, j)
    PROVE  \A c \in Requests, m \in 1..EcK, j \in Jobs : ListInv(c, m, j)'
BY ListSame

-----------------------------------------------------------------------------
(* Packets. *)

\* What the reader does to a buffer.
LEMMA ReadFacts ==
    ASSUME NEW n \in Nodes, NEW c \in Requests, NEW j \in Jobs, NEW p \in Pkts
    PROVE  /\ Raw(n, c, p) \in Packets /\ {Term(n, c, j, p)} \in Packets
           /\ Multiply(n, c, j, p, Raw(n, c, p)) = {Term(n, c, j, p)}
           /\ \A v \in Packets : Multiply(n, c, j, p, v) \in Packets
<1>1. <<n, 0, c, p, {}>> \in Terms /\ Term(n, c, j, p) \in Terms
  BY DEF Terms, Term
<1>2. Raw(n, c, p) \in Packets /\ {Term(n, c, j, p)} \in Packets
  BY <1>1 DEF Raw, Packets
<1>3. Multiply(n, c, j, p, Raw(n, c, p)) = {Term(n, c, j, p)}
  BY DEF Multiply, Raw
<1>4. ASSUME NEW v \in Packets PROVE Multiply(n, c, j, p, v) \in Packets
  <2>1. ASSUME NEW t \in v PROVE <<t[1], t[2], t[3], t[4], t[5] \cup {n}>> \in Terms
    <3>1. t \in Terms
      BY <1>4 DEF Packets
    <3>2. /\ t[1] \in Nodes /\ t[2] \in Jobs \cup {0} /\ t[3] \in Requests /\ t[4] \in Pkts
          /\ t[5] \in SUBSET Nodes
      BY <3>1 DEF Terms
    <3>3. t[5] \cup {n} \in SUBSET Nodes
      BY <3>2
    <3> QED BY <3>2, <3>3 DEF Terms
  <2> QED BY <1>1, <2>1 DEF Multiply, Packets
<1> QED BY <1>2, <1>3, <1>4

\* A helper's own term, and what it makes of a buffer, is from the helpers up to it.
LEMMA FromFacts ==
    ASSUME NEW c, NEW m \in 1..EcK, NEW n, chain[c][m] = n, NEW j, NEW p
    PROVE  /\ From(Raw(n, c, p), c, m) /\ From({Term(n, c, j, p)}, c, m)
           /\ \A v : From(v, c, m) => From(Multiply(n, c, j, p, v), c, m)
<1>1. m \in 1..m
  BY Basics
<1>2. From(Raw(n, c, p), c, m)
  BY <1>1 DEF From, Raw
<1>3. From({Term(n, c, j, p)}, c, m)
  BY <1>1 DEF From, Term
<1>4. ASSUME NEW v, From(v, c, m) PROVE From(Multiply(n, c, j, p, v), c, m)
  <2>1. ASSUME NEW u \in Multiply(n, c, j, p, v) PROVE \E i \in 1..m : u[1] = chain[c][i]
    <3>1. PICK t \in v : u = IF {t} = Raw(n, c, p) THEN Term(n, c, j, p)
                             ELSE <<t[1], t[2], t[3], t[4], t[5] \cup {n}>>
      BY DEF Multiply
    <3>2. u[1] = n \/ u[1] = t[1]
      BY <3>1 DEF Term
    <3>3. \E i \in 1..m : t[1] = chain[c][i]
      BY <1>4 DEF From
    <3> QED BY <1>1, <3>2, <3>3
  <2> QED BY <2>1 DEF From
<1> QED BY <1>2, <1>3, <1>4

\* A helper that served before may hold anything that is from the helpers up to it.
LEMMA GoodReused ==
    ASSUME NEW c, NEW m \in 1..EcK, Reused(c, m), NEW j, NEW p, NEW v, From(v, c, m)
    PROVE  Good(c, m, j, p, v)
<1>1. \A i \in 1..m : m \in i..m
  BY Basics
<1>2. 1 \in 1..m
  BY Basics
<1> QED BY <1>1, <1>2 DEF Good, Fresh

\* The first helper's own term is its packet.
LEMMA GoodFirst ==
    ASSUME NEW c, NEW j, NEW p
    PROVE  Good(c, 1, j, p, {Term(chain[c][1], c, j, p)})
<1>1. 1..1 = {1}
  OBVIOUS
<1>2. From({Term(chain[c][1], c, j, p)}, c, 1)
  BY <1>1 DEF From, Term
<1> QED BY <1>1, <1>2 DEF Good

\* A helper that serves its first request adds its term to the packet of the
\* helper before it.
LEMMA GoodAdd ==
    ASSUME Typed, NEW c \in Requests, NEW m \in 1..EcK, NEW j, NEW p, m # 1,
           NEW v, NEW w, From(v, c, m), Good(c, m - 1, j, p, w),
           ~Reused(c, m) => v = {Term(chain[c][m], c, j, p)}
    PROVE  Good(c, m, j, p, Xor(v, w))
<1>1. m \in Nat /\ m - 1 \in 1..EcK /\ m - 1 \in Nat /\ \A i : i \in 1..m <=> i \in 1..(m - 1) \/ i = m
  BY Basics
<1>2. /\ From(w, c, m - 1)
      /\ \A i \in 1..(m - 1) : Fresh(c, i, m - 1) => Term(chain[c][i], c, j, p) \in w
      /\ Fresh(c, 1, m - 1) => w = {Term(chain[c][i], c, j, p) : i \in 1..(m - 1)}
  BY DEF Good
<1>3. From(Xor(v, w), c, m)
  BY <1>1, <1>2 DEF From, Xor
<1>4. CASE Reused(c, m)
  BY <1>3, <1>4, GoodReused
<1>5. CASE ~Reused(c, m)
  <2>1. PICK e : e = Term(chain[c][m], c, j, p)
    OBVIOUS
  <2>2. \A i \in 1..(m - 1) : chain[c][i] # chain[c][m]
    <3>1. \A i \in 1..(m - 1) : i \in 1..EcK /\ i # m
      BY <1>1, Basics
    <3> QED BY <3>1, ChainFacts
  <2>3. e \notin w
    <3>1. e[1] = chain[c][m]
      BY <2>1 DEF Term
    <3> QED BY <1>2, <2>2, <3>1 DEF From
  <2>4. Xor(v, w) = w \cup {e}
    BY <1>5, <2>1, <2>3 DEF Xor
  <2>5. \A i \in 1..(m - 1) : Fresh(c, i, m) => Fresh(c, i, m - 1)
    <3>1. \A i \in 1..(m - 1) : \A q \in i..(m - 1) : q \in i..m
      BY <1>1
    <3> QED BY <3>1 DEF Fresh
  <2>6. \A i \in 1..m : Fresh(c, i, m) => Term(chain[c][i], c, j, p) \in Xor(v, w)
    BY <1>1, <1>2, <2>1, <2>4, <2>5
  <2>7. ASSUME Fresh(c, 1, m) PROVE Xor(v, w) = {Term(chain[c][i], c, j, p) : i \in 1..m}
    <3>1. 1 \in 1..(m - 1)
      BY <1>1, Basics
    <3>2. w = {Term(chain[c][i], c, j, p) : i \in 1..(m - 1)}
      BY <1>2, <2>5, <2>7, <3>1
    <3>3. {Term(chain[c][i], c, j, p) : i \in 1..m}
            = {Term(chain[c][i], c, j, p) : i \in 1..(m - 1)} \cup {Term(chain[c][m], c, j, p)}
      BY <1>1
    <3> QED BY <2>1, <2>4, <3>2, <3>3
  <2> QED BY <1>3, <2>6, <2>7 DEF Good
<1> QED BY <1>4, <1>5

-----------------------------------------------------------------------------
(* The reader. *)

\* The invariant after a step of the reader, which writes only to the buffers the
\* main thread has not counted unless the helper served before.
LEMMA ReaderStep ==
    ASSUME MulInv, NEW n \in Nodes, NEW c, NEW m, cur[n] = c, At(n, c, m),
           UNCHANGED <<redis, fetch, clientVars, warm, chain, cmds, jobs, cur, toSend, pu, se,
                       passive>>,
           mulPkt' \in [Nodes -> [Pkts -> [Jobs -> Packets]]],
           flag' \in [Nodes -> [Pkts -> BOOLEAN]], rd' \in [Nodes -> Nat],
           copied' \in [Nodes -> BOOLEAN],
           copied'[n] => rd'[n] < Total /\ flag'[n][PktAt(rd'[n])],
           \A k \in Nodes : k # n => /\ mulPkt'[k] = mulPkt[k] /\ flag'[k] = flag[k]
                                     /\ rd'[k] = rd[k] /\ copied'[k] = copied[k],
           \A p \in Pkts, j \in Jobs : From(mulPkt'[n][p][j], c, m),
           ~Reused(c, m) => /\ FirstWork(n, c)'
                            /\ \A p \in Pkts, j \in Jobs :
                                 p < Cnt(pu[n], j) => mulPkt'[n][p][j] = mulPkt[n][p][j]
    PROVE  MulInv'
<1>1. Typed
  BY DEF MulInv
<1>2. Typed'
  BY <1>1 DEF Typed, clientVars, LostList, TmpList
<1>3. /\ c \in Requests /\ m \in 1..EcK /\ AtWork(n, c, m)
  BY DEF At
<1>4. AtWork(n, c, m)'
  <2>1. \A j \in Jobs : toSend'[n][j] = Cnt(pu'[n], j)
    BY <1>3 DEF AtWork
  <2>2. ASSUME NEW p \in Pkts, NEW j \in Jobs, p < Cnt(pu[n], j)
        PROVE  Good(c, m, j, p, mulPkt'[n][p][j])
    <3>1. CASE Reused(c, m)
      BY <1>3, <3>1, GoodReused
    <3>2. CASE ~Reused(c, m)
      BY <1>3, <2>2, <3>2 DEF AtWork
    <3> QED BY <3>1, <3>2
  <2>3. \A p \in Pkts, j \in Jobs : From(mulPkt[n][p][j], c, m)'
    <3>1. \A v : From(v, c, m)' = From(v, c, m)
      BY Fixed
    <3>2. \A v : From(v, c, m) => From(v, c, m)'
      BY <3>1
    <3> QED BY <3>2
  <2>4. \A p \in Pkts, j \in Jobs : p < Cnt(pu'[n], j) => Good(c, m, j, p, mulPkt[n][p][j])'
    <3>1. \A v, j, p : Good(c, m, j, p, v) => Good(c, m, j, p, v)'
      BY Fixed
    <3> QED BY <2>2, <3>1
  <2>5. Reused(c, m)' = Reused(c, m)
    BY Fixed
  <2> QED BY <2>1, <2>3, <2>4, <2>5 DEF AtWork, Cnt, PktAt, JobAt
<1>5. \A k \in Nodes, d \in Requests, j \in Jobs :
         Sent(k, d, j)' = Sent(k, d, j) /\ Pulled(k, d, j)' = Pulled(k, d, j)
  BY DEF Sent, Pulled, Pending, Cnt, PktAt, JobAt
<1>6. \A d \in Requests, i \in 1..EcK, j \in Jobs : ListInv(d, i, j)'
  BY <1>5, ListsUntouched DEF clientVars
<1> QED BY <1>2, <1>4, <1>6, WorkStep

\* readMulWorker on a packet nobody else looks at yet: the helper's terms.
LEMMA ReadMulWorkerInv ==
    ASSUME MulInv, NEW n \in Nodes, ReadMulWorker(n)
    PROVE  MulInv'
<1>1. Typed
  BY DEF MulInv
<1>2. PICK c, p, k, w : /\ c = cur[n] /\ p = PktAt(rd[n]) /\ k = rd[n]
                        /\ w = [j \in Jobs |-> Multiply(n, c, JobOf(n, j), p, Raw(n, c, p))]
  OBVIOUS
<1>3. /\ c # 0 /\ k < Total /\ ~flag[n][p]
      /\ mulPkt' = [mulPkt EXCEPT ![n][p] = w] /\ flag' = [flag EXCEPT ![n][p] = TRUE]
      /\ rd' = [rd EXCEPT ![n] = k + Nj] /\ copied' = copied
      /\ UNCHANGED <<redis, fetch, clientVars, warm, chain, cmds, jobs, cur, toSend, pu, se,
                     passive>>
  BY <1>2 DEF ReadMulWorker, RaiseFlag
<1>4. PICK m : At(n, c, m)
  BY <1>2, <1>3, AtPlace
<1>5. /\ c \in Requests /\ m \in 1..EcK /\ chain[c][m] = n /\ AtWork(n, c, m)
      /\ \A j \in Jobs : JobOf(n, j) = j
  BY <1>4 DEF At
<1>6. /\ k \in Nat /\ p \in Nat /\ k + Nj \in Nat /\ p \in Pkts
      /\ JobAt(k + Nj) = JobAt(k) /\ PktAt(k + Nj) = p + 1
  <2>1. k \in Nat
    BY <1>1, <1>2 DEF Typed
  <2> QED BY <1>2, <1>3, <2>1, StepFacts, Basics
<1>7. w \in [Jobs -> Packets] /\ \A j \in Jobs : w[j] = {Term(n, c, j, p)}
  <2>1. \A j \in Jobs : /\ Multiply(n, c, j, p, Raw(n, c, p)) = {Term(n, c, j, p)}
                        /\ {Term(n, c, j, p)} \in Packets
    BY <1>5, <1>6, ReadFacts
  <2> QED BY <1>2, <1>5, <2>1
<1>8. ~copied[n]
  <2>1. NodeInv(n)
    BY DEF MulInv
  <2> QED BY <1>2, <1>3, <2>1 DEF NodeInv
<1>9. /\ mulPkt' \in [Nodes -> [Pkts -> [Jobs -> Packets]]]
      /\ flag' \in [Nodes -> [Pkts -> BOOLEAN]] /\ rd' \in [Nodes -> Nat]
      /\ copied' \in [Nodes -> BOOLEAN] /\ ~copied'[n]
  BY <1>1, <1>3, <1>6, <1>7, <1>8 DEF Typed
<1>10. /\ \A i \in Nodes : i # n => /\ mulPkt'[i] = mulPkt[i] /\ flag'[i] = flag[i]
                                    /\ rd'[i] = rd[i] /\ copied'[i] = copied[i]
       /\ mulPkt'[n][p] = w /\ \A q \in Pkts : q # p => mulPkt'[n][q] = mulPkt[n][q]
       /\ flag'[n][p] /\ \A q \in Pkts : q # p => flag'[n][q] = flag[n][q]
       /\ rd'[n] = k + Nj
  BY <1>1, <1>3, <1>6 DEF Typed
<1>11. ASSUME NEW q \in Pkts, NEW j \in Jobs PROVE From(mulPkt'[n][q][j], c, m)
  <2>1. From({Term(n, c, j, p)}, c, m)
    BY <1>5, FromFacts
  <2> QED BY <1>5, <1>7, <1>10, <2>1 DEF AtWork
<1>12. ASSUME ~Reused(c, m)
       PROVE  /\ FirstWork(n, c)'
              /\ \A q \in Pkts, j \in Jobs :
                   q < Cnt(pu[n], j) => mulPkt'[n][q][j] = mulPkt[n][q][j]
  <2>1. PICK a : a = pu[n]
    OBVIOUS
  <2>2. /\ JobAt(k) = 1 /\ Cnt(a, 1) <= p /\ \A q \in Pkts : flag[n][q] <=> q < p
        /\ \A q \in Pkts, j \in Jobs : q < p /\ Cnt(a, j) <= q =>
             mulPkt[n][q][j] = {Term(n, c, j, q)}
    BY <1>2, <1>5, <1>12, <2>1 DEF AtWork, FirstWork
  <2>3. a \in Nat /\ pu'[n] = a
    BY <1>1, <1>3, <2>1 DEF Typed
  <2>4. \A j \in Jobs : Cnt(a, j) \in Nat /\ Cnt(a, j) <= Cnt(a, 1)
    <3>1. PktAt(a) \in Nat /\ JobAt(a) \in Nat
      BY <2>3, StepFacts, Basics
    <3> QED BY <3>1, Basics DEF Cnt
  <2>5. \A q \in Pkts, j \in Jobs : q < Cnt(a, j) => q # p
    BY <1>6, <2>2, <2>4, Basics
  <2>6. \A q \in Pkts : q < p + 1 <=> q < p \/ q = p
    BY <1>6, Basics
  <2>7. \A q \in Pkts : flag'[n][q] <=> q < p + 1
    BY <1>6, <1>10, <2>2, <2>6
  <2>8. \A q \in Pkts, j \in Jobs : q < p + 1 /\ Cnt(a, j) <= q =>
             mulPkt'[n][q][j] = {Term(n, c, j, q)}
    BY <1>7, <1>10, <2>2, <2>6
  <2>9. Cnt(a, 1) <= p + 1
    BY <1>6, <2>2, <2>4, Basics
  <2>10. FirstWork(n, c)'
    <3>1. \A j : Cnt(pu'[n], j) = Cnt(a, j)
      BY <2>3
    <3>2. JobAt(rd'[n]) = 1 /\ PktAt(rd'[n]) = p + 1
      BY <1>6, <1>10, <2>2
    <3> QED BY <1>9, <2>7, <2>8, <2>9, <3>1, <3>2 DEF FirstWork, Cnt, PktAt, JobAt, Term
  <2> QED BY <1>10, <2>1, <2>5, <2>10
<1>13. copied'[n] => rd'[n] < Total /\ flag'[n][PktAt(rd'[n])]
  BY <1>9
<1>14. \A i \in Nodes : i # n => /\ mulPkt'[i] = mulPkt[i] /\ flag'[i] = flag[i]
                                 /\ rd'[i] = rd[i] /\ copied'[i] = copied[i]
  BY <1>10
<1>15. cur[n] = c
  BY <1>2
<1>16. UNCHANGED <<redis, fetch, clientVars, warm, chain, cmds, jobs, cur, toSend, pu, se, passive>>
  BY <1>3
<1>17. /\ mulPkt' \in [Nodes -> [Pkts -> [Jobs -> Packets]]]
       /\ flag' \in [Nodes -> [Pkts -> BOOLEAN]] /\ rd' \in [Nodes -> Nat]
       /\ copied' \in [Nodes -> BOOLEAN]
  BY <1>9
<1> QED BY ONLY MulInv, n \in Nodes, <1>4, <1>11, <1>12, <1>13, <1>14, <1>15, <1>16, <1>17, ReaderStep

\* A packet whose flag was up: the helper served before.  The copy ...
LEMMA ReadCopyInv ==
    ASSUME MulInv, NEW n \in Nodes, ReadCopy(n)
    PROVE  MulInv'
<1>1. Typed
  BY DEF MulInv
<1>2. PICK c, p, k, j, w : /\ c = cur[n] /\ p = PktAt(rd[n]) /\ k = rd[n] /\ j = JobAt(rd[n])
                           /\ w = Raw(n, c, p)
  OBVIOUS
<1>3. /\ c # 0 /\ k < Total /\ flag[n][p]
      /\ mulPkt' = [mulPkt EXCEPT ![n][p][j] = w] /\ copied' = [copied EXCEPT ![n] = TRUE]
      /\ flag' = flag /\ rd' = rd
  BY <1>2 DEF ReadCopy
<1>4. PICK m : At(n, c, m)
  BY <1>2, <1>3, AtPlace
<1>5. /\ c \in Requests /\ m \in 1..EcK /\ chain[c][m] = n /\ AtWork(n, c, m)
  BY <1>4 DEF At
<1>6. k \in Nat /\ p \in Nat /\ p \in Pkts /\ j \in Jobs
  <2>1. k \in Nat
    BY <1>1, <1>2 DEF Typed
  <2> QED BY <1>2, <1>3, <2>1, StepFacts, Basics
<1>7. w \in Packets /\ From(w, c, m)
  BY <1>2, <1>5, <1>6, ReadFacts, FromFacts
<1>8. ASSUME ~Reused(c, m) PROVE FALSE
  <2>1. p < p
    BY <1>2, <1>3, <1>5, <1>6, <1>8 DEF AtWork, FirstWork
  <2> QED BY <1>6, <2>1
<1>9. /\ mulPkt' \in [Nodes -> [Pkts -> [Jobs -> Packets]]]
      /\ flag' \in [Nodes -> [Pkts -> BOOLEAN]] /\ rd' \in [Nodes -> Nat]
      /\ copied' \in [Nodes -> BOOLEAN]
  BY <1>1, <1>3, <1>6, <1>7 DEF Typed
<1>10. \A i \in Nodes : i # n => /\ mulPkt'[i] = mulPkt[i] /\ flag'[i] = flag[i]
                                 /\ rd'[i] = rd[i] /\ copied'[i] = copied[i]
  BY <1>1, <1>3 DEF Typed
<1>11. \A q \in Pkts, i \in Jobs : From(mulPkt'[n][q][i], c, m)
  <2>1. \A q \in Pkts, i \in Jobs : mulPkt'[n][q][i] = mulPkt[n][q][i] \/ mulPkt'[n][q][i] = w
    BY <1>1, <1>3, <1>6 DEF Typed
  <2> QED BY <1>5, <1>7, <2>1 DEF AtWork
<1>12. copied'[n] => rd'[n] < Total /\ flag'[n][PktAt(rd'[n])]
  BY <1>2, <1>3
<1>13. cur[n] = c
  BY <1>2
<1>14. UNCHANGED <<redis, fetch, clientVars, warm, chain, cmds, jobs, cur, toSend, pu, se, passive>>
  BY DEF ReadCopy
<1> QED BY ONLY MulInv, n \in Nodes, <1>4, <1>8, <1>9, <1>10, <1>11, <1>12, <1>13, <1>14, ReaderStep

\* ... and the multiplication.
LEMMA ReadMultiplyInv ==
    ASSUME MulInv, NEW n \in Nodes, ReadMultiply(n)
    PROVE  MulInv'
<1>1. Typed /\ NodeInv(n)
  BY DEF MulInv
<1>2. PICK c, p, k, j, w : /\ c = cur[n] /\ p = PktAt(rd[n]) /\ k = rd[n] /\ j = JobAt(rd[n])
                           /\ w = Multiply(n, c, JobOf(n, j), p, mulPkt[n][p][j])
  OBVIOUS
<1>3. /\ copied[n]
      /\ mulPkt' = [mulPkt EXCEPT ![n][p][j] = w] /\ copied' = [copied EXCEPT ![n] = FALSE]
      /\ rd' = [rd EXCEPT ![n] = k + 1]
      /\ flag' = flag \/ flag' = [flag EXCEPT ![n][p] = TRUE]
  BY <1>2 DEF ReadMultiply, RaiseFlag
<1>4. c # 0 /\ k < Total
  BY <1>1, <1>2, <1>3 DEF NodeInv
<1>5. PICK m : At(n, c, m)
  BY <1>2, <1>4, AtPlace
<1>6. /\ c \in Requests /\ m \in 1..EcK /\ chain[c][m] = n /\ AtWork(n, c, m)
      /\ \A i \in Jobs : JobOf(n, i) = i
  BY <1>5 DEF At
<1>7. k \in Nat /\ k + 1 \in Nat /\ p \in Nat /\ p \in Pkts /\ j \in Jobs
  <2>1. k \in Nat
    BY <1>1, <1>2 DEF Typed
  <2> QED BY <1>2, <1>4, <2>1, StepFacts, Basics
<1>8. w \in Packets /\ From(w, c, m)
  <2>1. w = Multiply(n, c, j, p, mulPkt[n][p][j])
    BY <1>2, <1>6, <1>7
  <2>2. mulPkt[n][p][j] \in Packets /\ From(mulPkt[n][p][j], c, m)
    BY <1>1, <1>6, <1>7 DEF Typed, AtWork
  <2> QED BY <1>6, <1>7, <2>1, <2>2, ReadFacts, FromFacts
<1>9. ASSUME ~Reused(c, m) PROVE FALSE
  BY <1>3, <1>6, <1>9 DEF AtWork, FirstWork
<1>10. /\ mulPkt' \in [Nodes -> [Pkts -> [Jobs -> Packets]]]
       /\ flag' \in [Nodes -> [Pkts -> BOOLEAN]] /\ rd' \in [Nodes -> Nat]
       /\ copied' \in [Nodes -> BOOLEAN]
  <2>1. /\ mulPkt' \in [Nodes -> [Pkts -> [Jobs -> Packets]]]
        /\ rd' \in [Nodes -> Nat] /\ copied' \in [Nodes -> BOOLEAN]
    BY <1>1, <1>3, <1>7, <1>8 DEF Typed
  <2>2. flag' \in [Nodes -> [Pkts -> BOOLEAN]]
    <3>1. flag \in [Nodes -> [Pkts -> BOOLEAN]]
      BY <1>1 DEF Typed
    <3>2. CASE flag' = flag
      BY <3>1, <3>2
    <3>3. CASE flag' = [flag EXCEPT ![n][p] = TRUE]
      BY <1>7, <3>1, <3>3
    <3> QED BY <1>3, <3>2, <3>3
  <2> QED BY <2>1, <2>2
<1>11. \A i \in Nodes : i # n => /\ mulPkt'[i] = mulPkt[i] /\ flag'[i] = flag[i]
                                 /\ rd'[i] = rd[i] /\ copied'[i] = copied[i]
  BY <1>1, <1>3 DEF Typed
<1>12. \A q \in Pkts, i \in Jobs : From(mulPkt'[n][q][i], c, m)
  <2>1. \A q \in Pkts, i \in Jobs : mulPkt'[n][q][i] = mulPkt[n][q][i] \/ mulPkt'[n][q][i] = w
    BY <1>1, <1>3, <1>7 DEF Typed
  <2> QED BY <1>6, <1>8, <2>1 DEF AtWork
<1>13. copied'[n] => rd'[n] < Total /\ flag'[n][PktAt(rd'[n])]
  BY <1>1, <1>3 DEF Typed
<1>14. cur[n] = c
  BY <1>2
<1>15. UNCHANGED <<redis, fetch, clientVars, warm, chain, cmds, jobs, cur, toSend, pu, se, passive>>
  BY DEF ReadMultiply
<1> QED BY ONLY MulInv, n \in Nodes, <1>5, <1>9, <1>10, <1>11, <1>12, <1>13, <1>14, <1>15, ReaderStep

-----------------------------------------------------------------------------
(* The main thread and the sender. *)

\* pullRequestorMulCompletion: the previous helper's packet is added, and the
\* packet of this job counted.
LEMMA PullInv ==
    ASSUME MulInv, NEW n \in Nodes, PullRequestorMulCompletion(n)
    PROVE  MulInv'
<1>1. Typed
  BY DEF MulInv
<1>2. PICK c, p, k, j, v, key, t :
             /\ c = cur[n] /\ p = PktAt(pu[n]) /\ k = pu[n] /\ j = JobAt(pu[n])
             /\ v = mulPkt[n][p][j] /\ key = TmpList(Prev(c, n), c, JobOf(n, j))
             /\ t = toSend[n]
  OBVIOUS
<1>3. /\ c # 0 /\ k < Total /\ (j # 1 \/ flag[n][p])
      /\ IF Id(c, n) = 0
           THEN mulPkt' = mulPkt /\ redis' = redis
           ELSE /\ redis[key] # <<>>
                /\ mulPkt' = [mulPkt EXCEPT ![n][p][j] = Xor(@, Head(redis[key]))]
                /\ redis' = [redis EXCEPT ![key] = Tail(@)]
      /\ toSend' = [toSend EXCEPT ![n][j] = @ + 1]
      /\ pu' = [pu EXCEPT ![n] = k + 1]
      /\ flag' = flag /\ rd' = rd /\ copied' = copied
      /\ UNCHANGED <<fetch, clientVars, warm, chain, cmds, jobs, cur, se, passive>>
  BY <1>2 DEF PullRequestorMulCompletion, FlagSeen, Pop
<1>4. PICK m : At(n, c, m)
  BY <1>2, <1>3, AtPlace
<1>5. /\ c \in Requests /\ m \in 1..EcK /\ chain[c][m] = n /\ Id(c, n) = m - 1 /\ AtWork(n, c, m)
      /\ \A i \in Jobs : JobOf(n, i) = i
      /\ \A i \in 1..EcK : chain[c][i] = n => i = m
  BY <1>4 DEF At
<1>6. /\ k \in Nat /\ k + 1 \in Nat /\ p \in Nat /\ p \in Pkts /\ j \in Jobs
      /\ Cnt(k, j) = p /\ m \in Nat
      /\ \A i \in Jobs : Cnt(k, i) \in Nat /\ Cnt(k + 1, i) = IF i = j THEN Cnt(k, i) + 1 ELSE Cnt(k, i)
  <2>1. k \in Nat
    BY <1>1, <1>2 DEF Typed
  <2>2. k + 1 \in Nat /\ p \in Nat /\ p \in Pkts /\ j \in Jobs /\ m \in Nat
    <3>1. m \in Nat
      BY <1>5, Basics
    <3>2. k + 1 \in Nat /\ p \in Nat /\ j \in Jobs /\ p < PktCnt
      BY <1>2, <1>3, <2>1, StepFacts
    <3> QED BY <3>1, <3>2, Basics
  <2>3. Cnt(k, j) = p
    BY <1>2, <2>1, <2>2, CntFacts
  <2>4. \A i \in Jobs : Cnt(k, i) \in Nat /\ Cnt(k + 1, i) = IF i = j THEN Cnt(k, i) + 1 ELSE Cnt(k, i)
    BY <1>2, <2>1, CntFacts
  <2> QED BY <2>1, <2>2, <2>3, <2>4
<1>7. v \in Packets /\ From(v, c, m)
  BY <1>1, <1>2, <1>5, <1>6 DEF Typed, AtWork
<1>8. /\ t \in [Jobs -> Nat] /\ \A i \in Jobs : t[i] = Cnt(k, i)
      /\ \A q \in Pkts, i \in Jobs : q < Cnt(k, i) => Good(c, m, i, q, mulPkt[n][q][i])
  BY <1>1, <1>2, <1>5 DEF Typed, AtWork
\* The reader is ahead.
<1>9. ASSUME ~Reused(c, m)
      PROVE  v = {Term(n, c, j, p)} /\ p < PktAt(rd[n])
  <2>1. /\ Cnt(k, 1) <= PktAt(rd[n]) /\ \A q \in Pkts : flag[n][q] <=> q < PktAt(rd[n])
        /\ \A q \in Pkts, i \in Jobs : q < PktAt(rd[n]) /\ Cnt(k, i) <= q =>
             mulPkt[n][q][i] = {Term(n, c, i, q)}
    BY <1>2, <1>5, <1>9 DEF AtWork, FirstWork
  <2>2. PktAt(rd[n]) \in Nat
    <3>1. rd[n] \in Nat
      BY <1>1 DEF Typed
    <3> QED BY <3>1, StepFacts
  <2>3. p < PktAt(rd[n])
    <3>1. CASE j = 1
      BY <1>3, <1>6, <2>1, <3>1
    <3>2. CASE j # 1
      <4>1. Cnt(k, 1) = p + 1
        BY <1>2, <1>6, <3>2, Basics DEF Cnt
      <4> QED BY <1>6, <2>1, <2>2, <4>1
    <3> QED BY <3>1, <3>2
  <2> QED BY <1>2, <1>6, <2>1, <2>3
\* The list before the node, if it is not the first.
<1>10. ASSUME m # 1
       PROVE  /\ m - 1 \in 1..EcK /\ m - 1 # EcK /\ key = Key(c, m - 1, j) /\ Id(c, n) # 0
              /\ key \in Lists /\ redis[key] \in Seq(Packets) /\ redis[key] # <<>>
              /\ Taken(c, m - 1, j) = p /\ Run(redis[key], c, m - 1, j, p)
              /\ p + Len(redis[key]) = Sent(chain[c][m - 1], c, j)
  <2>1. m - 1 \in 1..EcK /\ m - 1 # EcK /\ (m - 1) + 1 = m /\ Id(c, n) # 0
    BY <1>5, <1>6, <1>10, Basics
  <2>2. key = Key(c, m - 1, j)
    BY <1>2, <1>5, <1>6, <2>1 DEF Key, Prev
  <2>3. key \in Lists /\ redis[key] \in Seq(Packets) /\ redis[key] # <<>>
    BY <1>1, <1>3, <1>5, <1>6, <2>1, <2>2, KeyFacts
  <2>4. Pulled(n, c, j) = p
    BY <1>2, <1>6 DEF Pulled
  <2>5. Taken(c, m - 1, j) = p
    BY <1>5, <2>1, <2>4 DEF Taken
  <2>6. ListInv(c, m - 1, j)
    BY <1>5, <1>6, <2>1 DEF MulInv
  <2> QED BY <2>1, <2>2, <2>3, <2>5, <2>6 DEF ListInv
\* The buffer is now a packet the node may push.
<1>11. PICK w : w = mulPkt'[n][p][j]
  OBVIOUS
<1>12. /\ w \in Packets /\ Good(c, m, j, p, w)
       /\ mulPkt' \in [Nodes -> [Pkts -> [Jobs -> Packets]]]
       /\ \A i \in Nodes : i # n => mulPkt'[i] = mulPkt[i]
       /\ \A q \in Pkts, i \in Jobs : q # p \/ i # j => mulPkt'[n][q][i] = mulPkt[n][q][i]
  <2>1. CASE m = 1
    <3>1. mulPkt' = mulPkt /\ w = v
      BY <1>2, <1>3, <1>5, <1>11, <2>1
    <3>2. Good(c, m, j, p, w)
      <4>1. CASE Reused(c, m)
        BY <1>5, <1>7, <3>1, <4>1, GoodReused
      <4>2. CASE ~Reused(c, m)
        BY <1>5, <1>9, <2>1, <3>1, <4>2, GoodFirst
      <4> QED BY <4>1, <4>2
    <3> QED BY <1>1, <1>7, <3>1, <3>2 DEF Typed
  <2>2. CASE m # 1
    <3>1. PICK u : u = Head(redis[key])
      OBVIOUS
    <3>2. Good(c, m - 1, j, p, u) /\ u \in Packets
      BY <1>6, <1>10, <2>2, <3>1, RunPop
    <3>3. mulPkt' = [mulPkt EXCEPT ![n][p][j] = Xor(v, u)]
      BY <1>2, <1>3, <1>10, <2>2, <3>1
    <3>4. Xor(v, u) \in Packets
      BY <1>7, <3>2 DEF Xor, Packets
    <3>5. /\ mulPkt' \in [Nodes -> [Pkts -> [Jobs -> Packets]]] /\ w = Xor(v, u)
          /\ \A i \in Nodes : i # n => mulPkt'[i] = mulPkt[i]
          /\ \A q \in Pkts, i \in Jobs : q # p \/ i # j => mulPkt'[n][q][i] = mulPkt[n][q][i]
      BY <1>1, <1>6, <1>11, <3>3, <3>4 DEF Typed
    <3>6. ~Reused(c, m) => v = {Term(chain[c][m], c, j, p)}
      BY <1>5, <1>9
    <3>7. Good(c, m, j, p, Xor(v, u))
      BY <1>1, <1>5, <1>7, <2>2, <3>2, <3>6, GoodAdd
    <3> QED BY <3>4, <3>5, <3>7
  <2> QED BY <2>1, <2>2
<1>13. /\ pu' \in [Nodes -> Nat] /\ pu'[n] = k + 1
       /\ toSend' \in [Nodes -> [Jobs -> Nat]] /\ \A i \in Jobs : toSend'[n][i] = Cnt(k + 1, i)
       /\ \A i \in Nodes : i # n => pu'[i] = pu[i] /\ toSend'[i] = toSend[i]
  <2>1. pu' \in [Nodes -> Nat] /\ pu'[n] = k + 1 /\ \A i \in Nodes : i # n => pu'[i] = pu[i]
    BY <1>1, <1>3, <1>6 DEF Typed
  <2>2. /\ toSend' = [toSend EXCEPT ![n][j] = t[j] + 1] /\ t[j] + 1 \in Nat
    BY <1>2, <1>3, <1>6, <1>8
  <2>3. /\ toSend' \in [Nodes -> [Jobs -> Nat]]
        /\ \A i \in Jobs : toSend'[n][i] = IF i = j THEN t[j] + 1 ELSE t[i]
        /\ \A i \in Nodes : i # n => toSend'[i] = toSend[i]
    BY <1>1, <1>2, <1>6, <2>2 DEF Typed
  <2> QED BY <1>6, <1>8, <2>1, <2>3
<1>14. Typed'
  <2>1. redis' \in [Lists -> Seq(Packets)]
    <3>1. CASE m = 1
      BY <1>1, <1>3, <1>5, <3>1 DEF Typed
    <3>2. CASE m # 1
      <4>1. Tail(redis[key]) \in Seq(Packets)
        BY <1>10, <3>2
      <4>2. redis' = [redis EXCEPT ![key] = Tail(redis[key])] /\ redis \in [Lists -> Seq(Packets)]
        BY <1>1, <1>3, <1>10, <3>2 DEF Typed
      <4> QED BY <4>1, <4>2
    <3> QED BY <3>1, <3>2
  <2>2. /\ warm' = warm /\ chain' = chain /\ cmds' = cmds /\ cur' = cur /\ fetch' = fetch
        /\ flag' = flag /\ jobs' = jobs /\ rd' = rd /\ se' = se /\ copied' = copied
        /\ contents' = contents /\ processed' = processed /\ out' = out /\ relayed' = relayed
        /\ passive' = passive
    BY <1>3 DEF clientVars
  <2> QED BY <1>1, <1>12, <1>13, <2>1, <2>2 DEF Typed, LostList
<1>15. AtWork(n, c, m)'
  <2>1. \A q \in Pkts, i \in Jobs : From(mulPkt'[n][q][i], c, m)
    <3>1. From(w, c, m)
      BY <1>12 DEF Good
    <3> QED BY <1>5, <1>11, <1>12, <3>1 DEF AtWork
  <2>2. ASSUME NEW q \in Pkts, NEW i \in Jobs, q < Cnt(k + 1, i)
        PROVE  Good(c, m, i, q, mulPkt'[n][q][i])
    <3>1. CASE q = p /\ i = j
      BY <1>11, <1>12, <3>1
    <3>2. CASE ~(q = p /\ i = j)
      <4>1. q < Cnt(k, i)
        <5>1. q \in Nat
          BY Basics
        <5> QED BY <1>6, <2>2, <3>2, <5>1
      <4> QED BY <1>8, <1>12, <3>2, <4>1
    <3> QED BY <3>1, <3>2
  <2>3. ASSUME ~Reused(c, m) PROVE FirstWork(n, c)'
    <3>1. /\ ~copied[n] /\ JobAt(rd[n]) = 1 /\ Cnt(k, 1) <= PktAt(rd[n])
          /\ \A q \in Pkts : flag[n][q] <=> q < PktAt(rd[n])
          /\ \A q \in Pkts, i \in Jobs : q < PktAt(rd[n]) /\ Cnt(k, i) <= q =>
               mulPkt[n][q][i] = {Term(n, c, i, q)}
      BY <1>2, <1>5, <2>3 DEF AtWork, FirstWork
    <3>2. PICK r \in Nat : r = PktAt(rd[n])
      <4>1. rd[n] \in Nat
        BY <1>1 DEF Typed
      <4> QED BY <4>1, StepFacts
    <3>3. Cnt(k + 1, 1) <= r
      <4>1. p \in Nat /\ p < r
        BY <1>6, <1>9, <2>3, <3>2
      <4>2. j = 1 => Cnt(k + 1, 1) = p + 1
        BY <1>6
      <4>3. j # 1 => Cnt(k + 1, 1) = Cnt(k, 1)
        <5>1. 1 \in Jobs
          BY Basics
        <5> QED BY <1>6, <5>1
      <4> QED BY <3>1, <3>2, <4>1, <4>2, <4>3
    <3>4. ASSUME NEW q \in Pkts, NEW i \in Jobs, q < r, Cnt(k + 1, i) <= q
          PROVE  mulPkt'[n][q][i] = {Term(n, c, i, q)}
      <4>1. q \in Nat /\ Cnt(k, i) \in Nat
        BY <1>6, Basics
      <4>2. ~(q = p /\ i = j) /\ Cnt(k, i) <= q
        BY <1>6, <3>4, <4>1
      <4> QED BY <1>12, <3>1, <3>2, <3>4, <4>2
    <3>5. JobAt(rd'[n]) = 1 /\ PktAt(rd'[n]) = r /\ ~copied'[n]
          /\ \A q \in Pkts : flag'[n][q] <=> q < r
      BY <1>3, <3>1, <3>2
    <3> QED BY <1>13, <3>3, <3>4, <3>5 DEF FirstWork, Cnt, PktAt, JobAt, Term
  <2>4. /\ \A q \in Pkts, i \in Jobs : From(mulPkt[n][q][i], c, m)'
        /\ Reused(c, m)' = Reused(c, m)
    <3>1. \A u : From(u, c, m) => From(u, c, m)'
      BY <1>3, Fixed
    <3>2. Reused(c, m)' = Reused(c, m)
      BY <1>3, Fixed
    <3> QED BY <2>1, <3>1, <3>2
  <2>5. \A q \in Pkts, i \in Jobs : q < Cnt(k + 1, i) => Good(c, m, i, q, mulPkt[n][q][i])'
    <3>1. \A u, i, q : Good(c, m, i, q, u) => Good(c, m, i, q, u)'
      BY <1>3, Fixed
    <3> QED BY <2>2, <3>1
  <2>6. \A i : Cnt(pu'[n], i) = Cnt(k + 1, i)
    BY <1>13
  <2> QED BY <1>13, <2>3, <2>4, <2>5, <2>6 DEF AtWork, Cnt, PktAt, JobAt
<1>16. ASSUME NEW d \in Requests, NEW x \in 1..EcK, NEW i \in Jobs PROVE ListInv(d, x, i)'
  <2>1. /\ \A a \in Nodes, e \in Requests, b \in Jobs : a # n \/ e # c =>
             Sent(a, e, b)' = Sent(a, e, b) /\ Pulled(a, e, b)' = Pulled(a, e, b)
        /\ \A b \in Jobs : /\ Sent(n, c, b) = Cnt(se[n], b) /\ Sent(n, c, b)' = Cnt(se'[n], b)
                           /\ Pulled(n, c, b) = Cnt(pu[n], b)
                           /\ Pulled(n, c, b)' = Cnt(pu'[n], b)
    BY <1>2, <1>3, <1>5, <1>13, CountsFacts
  <2>2. \A a \in Nodes, e \in Requests, b \in Jobs : Sent(a, e, b)' = Sent(a, e, b)
    BY <1>3, <2>1
  <2>3. CASE ~(m # 1 /\ d = c /\ x = m - 1 /\ i = j)
    <3>1. redis'[Key(d, x, i)] = redis[Key(d, x, i)]
      <4>1. CASE m = 1
        BY <1>3, <1>5, <4>1
      <4>2. CASE m # 1
        <5>1. key # Key(d, x, i)
          <6>1. CASE d # c \/ i # j
            BY <1>1, <1>5, <1>6, <1>10, <4>2, <6>1, KeyFacts
          <6>2. CASE d = c /\ i = j
            BY <1>1, <1>5, <1>6, <1>10, <2>3, <4>2, <6>2, KeyFacts
          <6> QED BY <6>1, <6>2
        <5>2. redis' = [redis EXCEPT ![key] = Tail(@)] /\ Key(d, x, i) \in Lists
          BY <1>1, <1>3, <1>10, <4>2, KeyFacts
        <5> QED BY <1>1, <5>1, <5>2 DEF Typed
      <4> QED BY <4>1, <4>2
    <3>2. ASSUME NEW a \in Nodes, x # EcK, a = chain[d][x + 1]
          PROVE  Pulled(a, d, i)' = Pulled(a, d, i)
      <4>1. CASE a # n \/ d # c
        BY <2>1, <4>1
      <4>2. CASE a = n /\ d = c
        <5>1. x + 1 \in 1..EcK /\ x \in Nat
          BY <3>2, Basics
        <5>2. x + 1 = m
          BY <1>5, <3>2, <4>2, <5>1
        <5>3. m # 1 /\ x = m - 1
          BY <5>1, <5>2, Basics
        <5>4. i # j
          BY <2>3, <4>2, <5>3
        <5>5. Pulled(n, c, i) = Cnt(k, i) /\ Pulled(n, c, i)' = Cnt(k + 1, i)
          BY <1>2, <1>13, <2>1
        <5> QED BY <1>6, <4>2, <5>4, <5>5
      <4> QED BY <4>1, <4>2
    <3>3. \A a \in Nodes : a = chain[d][x] => Sent(a, d, i)' = Sent(a, d, i)
      BY <2>2
    <3>4. Cnt(Len(contents'[d]), i) = Cnt(Len(contents[d]), i)
      BY <1>3 DEF clientVars
    <3>5. UNCHANGED <<warm, chain>>
      BY <1>3
    <3> QED BY ONLY MulInv, d \in Requests, x \in 1..EcK, i \in Jobs, <3>1, <3>2, <3>3, <3>4, <3>5, ListSame
  <2>4. CASE m # 1 /\ d = c /\ x = m - 1 /\ i = j
    <3>1. PICK l : l = redis[key]
      OBVIOUS
    <3>2. /\ Run(Tail(l), c, x, j, p + 1) /\ Len(Tail(l)) \in Nat /\ Len(l) = Len(Tail(l)) + 1
      BY <1>6, <1>10, <2>4, <3>1, RunPop
    <3>3. redis'[key] = Tail(l) /\ Key(c, x, j)' = key
      <4>1. Key(c, x, j)' = Key(c, x, j)
        BY <1>3, Fixed
      <4> QED BY <1>1, <1>3, <1>10, <2>4, <3>1, <4>1 DEF Typed
    <3>4. Taken(c, x, j)' = p + 1
      <4>1. Pulled(n, c, j)' = p + 1
        BY <1>6, <1>13, <2>1
      <4>2. x + 1 = m
        BY <1>6, <2>4
      <4>3. Taken(c, x, j)' = Pulled(n, c, j)'
        <5>1. x # EcK /\ chain[c][x + 1] = n /\ chain' = chain
          BY <1>3, <1>5, <1>10, <2>4, <4>2
        <5> QED BY <5>1 DEF Taken, Pulled, Pending
      <4> QED BY <4>1, <4>3
    <3>5. Sent(chain[c][x], c, j)' = p + Len(l)
      <4>1. PICK a \in Nodes : a = chain[c][x]
        BY <1>1, <1>5, ChainFacts
      <4>2. Sent(a, c, j)' = Sent(a, c, j)
        BY <1>5, <1>6, <2>2
      <4>3. Sent(chain[c][x], c, j)' = Sent(a, c, j)'
        BY <1>3, <4>1 DEF Sent, Pending
      <4> QED BY <1>10, <2>4, <3>1, <4>1, <4>2, <4>3
    <3>6. Run(Tail(l), c, x, j, p + 1)'
      <4>1. \A s, q : Run(s, c, x, j, q) => Run(s, c, x, j, q)'
        BY <1>3, Fixed
      <4> QED BY <3>2, <4>1
    <3>7. (p + 1) + Len(Tail(l)) = p + Len(l)
      <4>1. PICK a, b : a = Len(Tail(l)) /\ b = Len(l)
        OBVIOUS
      <4>2. a \in Nat /\ b = a + 1
        BY <3>2, <4>1
      <4>3. (p + 1) + a = p + b
        BY <1>6, <4>2
      <4> QED BY <4>1, <4>3
    <3>8. ListInv(c, x, j)'
      BY <3>3, <3>4, <3>5, <3>6, <3>7 DEF ListInv
    <3> QED BY <2>4, <3>8
  <2> QED BY <2>3, <2>4
<1>17. copied'[n] => rd'[n] < Total /\ flag'[n][PktAt(rd'[n])]
  <2>1. NodeInv(n)
    BY DEF MulInv
  <2> QED BY <1>3, <2>1 DEF NodeInv
<1>18. cur[n] = c /\ UNCHANGED <<warm, chain, cmds, jobs, cur, clientVars, passive>>
  BY <1>2, <1>3
<1>19. \A i \in Nodes : i # n => /\ mulPkt'[i] = mulPkt[i] /\ flag'[i] = flag[i]
                                 /\ toSend'[i] = toSend[i] /\ rd'[i] = rd[i]
                                 /\ pu'[i] = pu[i] /\ copied'[i] = copied[i]
  BY <1>3, <1>12, <1>13
<1> QED BY ONLY MulInv, n \in Nodes, <1>4, <1>14, <1>15, <1>16, <1>17, <1>18, <1>19, WorkStep

LEMMA CountsNat ==
    ASSUME Typed, NEW n \in Nodes, NEW c, NEW j \in Jobs
    PROVE  Sent(n, c, j) \in Nat /\ Pulled(n, c, j) \in Nat
<1>1. Cnt(se[n], j) \in Nat /\ Cnt(pu[n], j) \in Nat
  <2>1. se[n] \in Nat /\ pu[n] \in Nat
    BY DEF Typed
  <2> QED BY <2>1, CntFacts
<1> QED BY <1>1, Basics DEF Sent, Pulled

LEMMA TakenNat ==
    ASSUME Typed, NEW c \in Requests, NEW m \in 1..EcK, NEW j \in Jobs
    PROVE  Taken(c, m, j) \in Nat
<1>1. CASE m # EcK
  <2>1. m + 1 \in 1..EcK
    BY <1>1, Basics
  <2>2. PICK n \in Nodes : n = chain[c][m + 1]
    BY <2>1, ChainFacts
  <2> QED BY <1>1, <2>2, CountsNat DEF Taken
<1>2. CASE m = EcK
  <2>1. ASSUME c \in Clients PROVE Cnt(Len(contents[c]), j) \in Nat
    <3>1. Len(contents[c]) \in Nat
      BY <2>1 DEF Typed
    <3> QED BY <3>1, CntFacts
  <2> QED BY <1>2, <2>1 DEF Taken
<1> QED BY <1>1, <1>2

\* sendMulWorker: a packet that has been counted is the helper's packet.
LEMMA SendInv ==
    ASSUME MulInv, NEW n \in Nodes, SendMulWorker(n)
    PROVE  MulInv'
<1>1. Typed
  BY DEF MulInv
<1>2. PICK c, p, k, j, v, key :
             /\ c = cur[n] /\ p = PktAt(se[n]) /\ k = se[n] /\ j = JobAt(se[n])
             /\ v = mulPkt[n][p][j] /\ key = SendKey(c, n, JobOf(n, j))
  OBVIOUS
<1>3. /\ c # 0 /\ k < Total /\ p < toSend[n][j]
      /\ redis' = [redis EXCEPT ![key] = Append(@, v)] /\ se' = [se EXCEPT ![n] = k + 1]
      /\ warm' = warm /\ chain' = chain /\ cmds' = cmds /\ cur' = cur /\ fetch' = fetch
      /\ flag' = flag /\ jobs' = jobs /\ rd' = rd /\ pu' = pu /\ copied' = copied
      /\ contents' = contents /\ processed' = processed /\ out' = out /\ relayed' = relayed
      /\ passive' = passive /\ toSend' = toSend /\ mulPkt' = mulPkt
  BY <1>2 DEF SendMulWorker, Push, clientVars
<1>4. PICK m : At(n, c, m)
  BY <1>2, <1>3, AtPlace
<1>5. /\ c \in Requests /\ m \in 1..EcK /\ chain[c][m] = n /\ Id(c, n) = m - 1 /\ AtWork(n, c, m)
      /\ \A i \in Jobs : JobOf(n, i) = i
      /\ \A i \in 1..EcK : chain[c][i] = n => i = m
  BY <1>4 DEF At
<1>6. /\ k \in Nat /\ k + 1 \in Nat /\ p \in Nat /\ p \in Pkts /\ j \in Jobs /\ Cnt(k, j) = p
      /\ \A i \in Jobs : Cnt(k + 1, i) = IF i = j THEN Cnt(k, i) + 1 ELSE Cnt(k, i)
  <2>1. k \in Nat
    BY <1>1, <1>2 DEF Typed
  <2>2. k + 1 \in Nat /\ p \in Nat /\ p \in Pkts /\ j \in Jobs
    <3>1. k + 1 \in Nat /\ p \in Nat /\ j \in Jobs /\ p < PktCnt
      BY <1>2, <1>3, <2>1, StepFacts
    <3> QED BY <3>1, Basics
  <2>3. Cnt(k, j) = p
    BY <1>2, <2>1, <2>2, CntFacts
  <2>4. \A i \in Jobs : Cnt(k + 1, i) = IF i = j THEN Cnt(k, i) + 1 ELSE Cnt(k, i)
    BY <1>2, <2>1, CntFacts
  <2> QED BY <2>1, <2>2, <2>3, <2>4
<1>7. v \in Packets /\ Good(c, m, j, p, v)
  BY <1>1, <1>2, <1>3, <1>5, <1>6 DEF Typed, AtWork
<1>8. key = Key(c, m, j) /\ key \in Lists /\ redis[key] \in Seq(Packets)
  <2>1. key = Key(c, m, j)
    <3>1. Id(c, n) = EcK - 1 <=> m = EcK
      BY <1>5, Basics
    <3> QED BY <1>2, <1>5, <1>6, <3>1 DEF SendKey, Key
  <2> QED BY <1>1, <1>5, <1>6, <2>1, KeyFacts
<1>9. se' \in [Nodes -> Nat] /\ se'[n] = k + 1 /\ \A i \in Nodes : i # n => se'[i] = se[i]
  BY <1>1, <1>3, <1>6 DEF Typed
<1>10. Typed'
  <2>1. redis' \in [Lists -> Seq(Packets)]
    <3>1. Append(redis[key], v) \in Seq(Packets)
      BY <1>7, <1>8
    <3>2. redis \in [Lists -> Seq(Packets)]
      BY <1>1 DEF Typed
    <3> QED BY <1>3, <3>1, <3>2
  <2> QED BY <1>1, <1>3, <1>9, <2>1 DEF Typed, LostList
<1>11. \A i \in Nodes : CmdsInv(i)' /\ NodeInv(i)'
  BY <1>3, OthersSame
<1>12. \A d \in Clients : ClientInv(d)'
  BY <1>3, ClientSame
<1>13. ASSUME NEW d \in Requests, NEW x \in 1..EcK, NEW i \in Jobs PROVE ListInv(d, x, i)'
  <2>1. /\ \A a \in Nodes, e \in Requests, b \in Jobs : a # n \/ e # c =>
             Sent(a, e, b)' = Sent(a, e, b) /\ Pulled(a, e, b)' = Pulled(a, e, b)
        /\ \A b \in Jobs : /\ Sent(n, c, b) = Cnt(se[n], b) /\ Sent(n, c, b)' = Cnt(se'[n], b)
                           /\ Pulled(n, c, b) = Cnt(pu[n], b)
                           /\ Pulled(n, c, b)' = Cnt(pu'[n], b)
    BY <1>2, <1>3, <1>5, <1>9, CountsFacts
  <2>2. \A a \in Nodes, e \in Requests, b \in Jobs : Pulled(a, e, b)' = Pulled(a, e, b)
    BY <1>3, <2>1
  <2>3. CASE ~(d = c /\ x = m /\ i = j)
    <3>1. redis'[Key(d, x, i)] = redis[Key(d, x, i)]
      <4>1. key # Key(d, x, i)
        <5>1. CASE d # c \/ i # j
          BY <1>1, <1>5, <1>6, <1>8, <5>1, KeyFacts
        <5>2. CASE d = c /\ i = j
          BY <1>1, <1>5, <1>6, <1>8, <2>3, <5>2, KeyFacts
        <5> QED BY <5>1, <5>2
      <4>2. Key(d, x, i) \in Lists
        BY <1>1, KeyFacts
      <4> QED BY <1>1, <1>3, <4>1, <4>2 DEF Typed
    <3>2. ASSUME NEW a \in Nodes, a = chain[d][x] PROVE Sent(a, d, i)' = Sent(a, d, i)
      <4>1. CASE a # n \/ d # c
        BY <2>1, <4>1
      <4>2. CASE a = n /\ d = c
        <5>1. i # j
          BY <1>5, <2>3, <3>2, <4>2
        <5>2. Sent(n, c, i) = Cnt(k, i) /\ Sent(n, c, i)' = Cnt(k + 1, i)
          BY <1>2, <1>9, <2>1
        <5> QED BY <1>6, <4>2, <5>1, <5>2
      <4> QED BY <4>1, <4>2
    <3>3. \A a \in Nodes : x # EcK /\ a = chain[d][x + 1] => Pulled(a, d, i)' = Pulled(a, d, i)
      BY <2>2
    <3>4. Cnt(Len(contents'[d]), i) = Cnt(Len(contents[d]), i)
      BY <1>3
    <3>5. UNCHANGED <<warm, chain>>
      BY <1>3
    <3> QED BY ONLY MulInv, d \in Requests, x \in 1..EcK, i \in Jobs, <3>1, <3>2, <3>3, <3>4, <3>5, ListSame
  <2>4. CASE d = c /\ x = m /\ i = j
    <3>1. PICK l, t : l = redis[key] /\ t = Taken(c, m, j)
      OBVIOUS
    <3>2. t \in Nat /\ l \in Seq(Packets) /\ t + Len(l) = p /\ Run(l, c, m, j, t)
      <4>1. Sent(n, c, j) = p
        BY <1>2, <1>6, <2>1
      <4>2. ListInv(c, m, j)
        BY <1>5, <1>6 DEF MulInv
      <4>3. t \in Nat
        BY <1>1, <1>5, <1>6, <3>1, TakenNat
      <4> QED BY <1>5, <1>8, <3>1, <4>1, <4>2, <4>3 DEF ListInv
    <3>3. Run(Append(l, v), c, m, j, t) /\ t + Len(Append(l, v)) = p + 1
      BY <1>7, <3>2, RunPush
    <3>4. redis'[key] = Append(l, v) /\ Key(c, m, j)' = key
      <4>1. Key(c, m, j)' = Key(c, m, j)
        BY <1>3, Fixed
      <4> QED BY <1>1, <1>3, <1>8, <3>1, <4>1 DEF Typed
    <3>5. Taken(c, m, j)' = t
      <4>1. CASE m = EcK
        BY <1>3, <3>1, <4>1 DEF Taken, Cnt, PktAt, JobAt
      <4>2. CASE m # EcK
        <5>1. m + 1 \in 1..EcK
          BY <1>5, <4>2, Basics
        <5>2. PICK a \in Nodes : a = chain[c][m + 1]
          BY <1>1, <1>5, <5>1, ChainFacts
        <5>3. Pulled(a, c, j)' = Pulled(a, c, j)
          BY <1>5, <1>6, <2>2
        <5>4. Taken(c, m, j) = Pulled(a, c, j) /\ Taken(c, m, j)' = Pulled(a, c, j)'
          BY <1>3, <4>2, <5>2 DEF Taken, Pulled, Pending
        <5> QED BY <3>1, <5>3, <5>4
      <4> QED BY <4>1, <4>2
    <3>6. Sent(chain[c][m], c, j)' = p + 1
      <4>1. Sent(n, c, j)' = p + 1
        BY <1>6, <1>9, <2>1
      <4>2. Sent(chain[c][m], c, j)' = Sent(n, c, j)'
        BY <1>3, <1>5 DEF Sent, Pending
      <4> QED BY <4>1, <4>2
    <3>7. Run(Append(l, v), c, m, j, t)'
      <4>1. \A s, q : Run(s, c, m, j, q) => Run(s, c, m, j, q)'
        BY <1>3, Fixed
      <4> QED BY <3>3, <4>1
    <3>8. ListInv(c, m, j)'
      BY <3>3, <3>4, <3>5, <3>6, <3>7 DEF ListInv
    <3> QED BY <2>4, <3>8
  <2> QED BY <2>3, <2>4
<1> QED BY <1>10, <1>11, <1>12, <1>13 DEF MulInv

\* Everything is counted and sent: the node is idle again.
LEMMA FinishInv ==
    ASSUME MulInv, NEW n \in Nodes, Finish(n)
    PROVE  MulInv'
<1>1. Typed /\ CmdsInv(n) /\ NodeInv(n)
  BY DEF MulInv
<1>2. PICK c : c = cur[n]
  OBVIOUS
<1>3. /\ c # 0 /\ rd[n] = Total /\ pu[n] = Total /\ se[n] = Total
      /\ cur' = [cur EXCEPT ![n] = 0]
      /\ warm' = warm /\ chain' = chain /\ cmds' = cmds /\ redis' = redis /\ fetch' = fetch
      /\ flag' = flag /\ jobs' = jobs /\ rd' = rd /\ pu' = pu /\ se' = se /\ copied' = copied
      /\ contents' = contents /\ processed' = processed /\ out' = out /\ relayed' = relayed
      /\ passive' = passive /\ toSend' = toSend /\ mulPkt' = mulPkt
  BY <1>2 DEF Finish, clientVars
<1>4. PICK m : At(n, c, m)
  BY <1>2, <1>3, AtPlace
<1>5. c \in Requests /\ ~Pending(n, c)
  BY <1>4 DEF At
<1>6. cur' \in [Nodes -> Requests \cup {0}] /\ cur'[n] = 0 /\ \A i \in Nodes : i # n => cur'[i] = cur[i]
  BY <1>1, <1>3 DEF Typed
<1>7. Typed'
  BY <1>1, <1>3, <1>6 DEF Typed, LostList
<1>8. \A i, d : Pending(i, d)' = Pending(i, d)
  BY <1>3 DEF Pending
<1>9. CmdsInv(n)'
  <2>1. \A d : Helpers(d)' = Helpers(d)
    BY <1>3, Fixed
  <2>2. PICK s : s = cmds[n]
    OBVIOUS
  <2>3. s \in Seq(Requests \X Jobs \X Jobs) /\ cmds'[n] = s
    BY <1>1, <1>3, <2>2 DEF Typed
  <2>4. \A k \in 1..Len(s) : s[k][1] \in Requests /\ 0 < s[k][1]
    <3>1. \A k \in 1..Len(s) : s[k] \in Requests \X Jobs \X Jobs
      BY <2>3
    <3>2. \A k \in 1..Len(s) : s[k][1] \in Requests
      BY <3>1
    <3> QED BY <3>2, Basics
  <2>5. /\ \A k \in 1..Len(s) :
             /\ n \in Helpers(s[k][1])
             /\ s[k][3] = Nj - s[k][2] + 1
             /\ IF s[k][2] < Nj
                  THEN k < Len(s) /\ s[k + 1][1] = s[k][1] /\ s[k + 1][2] = s[k][2] + 1
                  ELSE k < Len(s) => s[k + 1][2] = 1
        /\ \A k, l \in 1..Len(s) : k < l => /\ s[k][1] <= s[l][1]
                                            /\ s[k][2] = Nj => s[k][1] < s[l][1]
        /\ s # <<>> => s[1][2] = 1
    BY <1>1, <1>2, <1>3, <2>2 DEF CmdsInv
  <2> QED BY <1>6, <2>1, <2>3, <2>4, <2>5 DEF CmdsInv
<1>10. NodeInv(n)'
  <2>1. ~copied[n]
    <3>1. ~(Total < Total)
      BY Basics
    <3> QED BY <1>1, <1>3, <3>1 DEF NodeInv
  <2>2. \A d, i : Reused(d, i)' = Reused(d, i)
    BY <1>3, Fixed
  <2>3. \A d \in Requests : cur'[n] # d
    BY <1>6, Basics
  <2> QED BY <1>1, <1>3, <1>8, <2>1, <2>2, <2>3 DEF NodeInv
<1>11. ASSUME NEW i \in Nodes PROVE CmdsInv(i)' /\ NodeInv(i)'
  BY <1>3, <1>6, <1>9, <1>10, OthersSame
<1>12. ASSUME NEW a \in Nodes, NEW d \in Requests, NEW j \in Jobs
       PROVE  Sent(a, d, j)' = Sent(a, d, j) /\ Pulled(a, d, j)' = Pulled(a, d, j)
  <2>1. CASE a # n \/ d # c
    BY <1>2, <1>3, <1>6, <1>8, <2>1, Basics DEF Sent, Pulled, Cnt, PktAt, JobAt
  <2>2. CASE a = n /\ d = c
    <3>1. Cnt(Total, j) = PktCnt
      BY CntFacts, Basics
    <3>2. Sent(n, c, j) = PktCnt /\ Pulled(n, c, j) = PktCnt
      BY <1>2, <1>3, <3>1 DEF Sent, Pulled
    <3>3. Sent(n, c, j)' = PktCnt /\ Pulled(n, c, j)' = PktCnt
      BY <1>3, <1>5, <1>6, <1>8 DEF Sent, Pulled
    <3> QED BY <2>2, <3>2, <3>3
  <2> QED BY <2>1, <2>2
<1>13. \A d \in Requests, i \in 1..EcK, j \in Jobs : ListInv(d, i, j)'
  BY <1>3, <1>12, ListsUntouched
<1>14. \A d \in Clients : ClientInv(d)'
  BY <1>3, ClientSame
<1> QED BY <1>7, <1>11, <1>13, <1>14 DEF MulInv

-----------------------------------------------------------------------------
(* The commands. *)

\* What the next command is: the job after those collected so far.
LEMMA NextCmd ==
    ASSUME MulInv, NEW n \in Nodes, TakeCmd(n)
    PROVE  \E d \in Requests, i \in Jobs, u \in Seq(Requests \X Jobs \X Jobs) :
             /\ n \in Helpers(d) /\ Head(cmds[n]) = <<d, i, Nj - i + 1>>
             /\ cmds'[n] = u /\ jobs'[n] = FirstJobs(d, i)
             /\ Len(cmds[n]) \in Nat \ {0} /\ cmds[n][1] = <<d, i, Nj - i + 1>>
             /\ Len(u) = Len(cmds[n]) - 1
             /\ \A k \in 1..Len(u) : u[k] = cmds[n][k + 1] /\ k + 1 \in 1..Len(cmds[n])
<1>1. Typed /\ CmdsInv(n)
  BY DEF MulInv
<1>2. PICK s, h, u : s = cmds[n] /\ h = Head(s) /\ u = Tail(s)
  OBVIOUS
<1>3. /\ cur[n] = 0 /\ s # <<>> /\ s \in Seq(Requests \X Jobs \X Jobs)
      /\ cmds' = [cmds EXCEPT ![n] = u]
      /\ jobs' = [jobs EXCEPT ![n] = Append(IF h[3] = Nj THEN <<>> ELSE @, <<h[1], h[2]>>)]
  BY <1>1, <1>2 DEF TakeCmd, Typed
<1>4. /\ Len(s) \in Nat \ {0} /\ h = s[1] /\ u \in Seq(Requests \X Jobs \X Jobs)
      /\ Len(u) = Len(s) - 1 /\ \A k \in 1..Len(u) : u[k] = s[k + 1] /\ k + 1 \in 1..Len(s)
  <2>1. /\ Len(s) \in Nat \ {0} /\ h = s[1] /\ u \in Seq(Requests \X Jobs \X Jobs)
        /\ Len(u) = Len(s) - 1 /\ \A k \in 1..Len(u) : u[k] = s[k + 1]
    BY <1>2, <1>3
  <2>2. \A k \in 1..Len(u) : k + 1 \in 1..Len(s)
    BY <2>1
  <2> QED BY <2>1, <2>2
<1>5. h \in Requests \X Jobs \X Jobs /\ 1 \in 1..Len(s)
  BY <1>3, <1>4, ElementOfSeq
<1>6. PICK d, i : d = h[1] /\ i = h[2]
  OBVIOUS
<1>7. d \in Requests /\ i \in Jobs /\ n \in Helpers(d) /\ h = <<d, i, Nj - i + 1>>
  <2>1. n \in Helpers(s[1][1]) /\ s[1][3] = Nj - s[1][2] + 1
    BY <1>1, <1>2, <1>5 DEF CmdsInv
  <2> QED BY <1>4, <1>5, <1>6, <2>1
<1>8. PICK w : w = jobs[n]
  OBVIOUS
<1>9. /\ cmds'[n] = u
      /\ jobs'[n] = Append(IF h[3] = Nj THEN <<>> ELSE w, <<d, i>>)
  BY <1>1, <1>3, <1>6, <1>8 DEF Typed
<1>10. jobs'[n] = FirstJobs(d, i)
  <2>1. CASE i = 1
    <3>1. h[3] = Nj
      BY <1>7, <2>1, Basics
    <3>2. Append(<<>>, <<d, 1>>) = <<<<d, 1>>>> /\ FirstJobs(d, 1) = <<<<d, 1>>>>
      <4>1. 1..1 = {1}
        OBVIOUS
      <4>2. FirstJobs(d, 1) = [k \in 1..1 |-> <<d, k>>]
        BY DEF FirstJobs
      <4>3. <<<<d, 1>>>> = [k \in 1..1 |-> <<d, k>>]
        BY <4>1
      <4> QED BY <4>2, <4>3
    <3> QED BY <1>9, <2>1, <3>1, <3>2
  <2>2. CASE i # 1
    <3>1. h[3] # Nj
      BY <1>7, <2>2, Basics
    <3>2. w = FirstJobs(d, i - 1)
      BY <1>1, <1>2, <1>3, <1>4, <1>6, <1>8, <2>2 DEF CmdsInv
    <3>3. Append(FirstJobs(d, i - 1), <<d, i>>) = FirstJobs(d, i)
      <4>1. i \in Nat /\ i - 1 \in Nat /\ (i - 1) + 1 = i
        BY <1>7, <2>2, Basics
      <4>2. PICK e, f : e = FirstJobs(d, i - 1) /\ f = FirstJobs(d, i)
        OBVIOUS
      <4>3. /\ e \in Seq(Requests \X Nat) /\ Len(e) = i - 1
            /\ \A k \in 1..(i - 1) : e[k] = <<d, k>>
        BY <1>7, <4>1, <4>2 DEF FirstJobs
      <4>4. f = [k \in 1..i |-> <<d, k>>]
        BY <4>2 DEF FirstJobs
      <4>5. PICK g : g = Append(e, <<d, i>>)
        OBVIOUS
      <4>6. /\ g \in Seq(Requests \X Nat) /\ Len(g) = i /\ g[i] = <<d, i>>
            /\ \A k \in 1..(i - 1) : g[k] = e[k]
        <5>1. <<d, i>> \in Requests \X Nat
          BY <1>7, <4>1
        <5> QED BY <4>1, <4>3, <4>5, <5>1
      <4>7. \A k \in 1..i : g[k] = <<d, k>>
        <5>1. \A k \in 1..i : k \in 1..(i - 1) \/ k = i
          BY <4>1
        <5> QED BY <4>3, <4>6, <5>1
      <4>8. g = [k \in 1..i |-> g[k]]
        BY <4>1, <4>6
      <4>9. g = f
        BY <4>4, <4>7, <4>8
      <4> QED BY <4>2, <4>5, <4>9
    <3> QED BY <1>9, <3>1, <3>2, <3>3
  <2> QED BY <2>1, <2>2
<1> QED BY <1>2, <1>4, <1>7, <1>9, <1>10

\* doProcess takes a command; with the last of a request all counters start again.
LEMMA TakeCmdInv ==
    ASSUME MulInv, NEW n \in Nodes, TakeCmd(n)
    PROVE  MulInv'
<1>1. Typed /\ CmdsInv(n) /\ NodeInv(n)
  BY DEF MulInv
<1>2. PICK d \in Requests, i \in Jobs, u \in Seq(Requests \X Jobs \X Jobs) :
             /\ n \in Helpers(d) /\ Head(cmds[n]) = <<d, i, Nj - i + 1>>
             /\ cmds'[n] = u /\ jobs'[n] = FirstJobs(d, i)
             /\ Len(cmds[n]) \in Nat \ {0} /\ cmds[n][1] = <<d, i, Nj - i + 1>>
             /\ Len(u) = Len(cmds[n]) - 1
             /\ \A k \in 1..Len(u) : u[k] = cmds[n][k + 1] /\ k + 1 \in 1..Len(cmds[n])
  BY NextCmd
<1>3. PICK s : s = cmds[n]
  OBVIOUS
<1>4. /\ Len(s) \in Nat \ {0} /\ s[1] = <<d, i, Nj - i + 1>> /\ Len(u) = Len(s) - 1
      /\ \A k \in 1..Len(u) : u[k] = s[k + 1] /\ k + 1 \in 1..Len(s)
      /\ 1 \in 1..Len(s) /\ i \in Nat /\ d \in Nat /\ d # 0
      /\ \A k \in 1..Len(s) : k = 1 \/ (k - 1 \in 1..Len(u) /\ s[k] = u[k - 1])
  <2>1. /\ Len(s) \in Nat \ {0} /\ s[1] = <<d, i, Nj - i + 1>> /\ Len(u) = Len(s) - 1
        /\ \A k \in 1..Len(u) : u[k] = s[k + 1] /\ k + 1 \in 1..Len(s)
    BY <1>2, <1>3
  <2>2. 1 \in 1..Len(s) /\ i \in Nat /\ d \in Nat /\ d # 0
    BY <2>1, Basics
  <2>3. ASSUME NEW k \in 1..Len(s), k # 1 PROVE k - 1 \in 1..Len(u) /\ s[k] = u[k - 1]
    <3>1. k - 1 \in 1..Len(u) /\ (k - 1) + 1 = k
      BY <2>1, <2>3
    <3> QED BY <2>1, <3>1
  <2> QED BY <2>1, <2>2, <2>3
<1>5. /\ cur[n] = 0 /\ warm' = warm /\ chain' = chain /\ redis' = redis /\ fetch' = fetch
      /\ flag' = flag /\ copied' = copied
      /\ contents' = contents /\ processed' = processed /\ out' = out /\ relayed' = relayed
      /\ passive' = passive
      /\ \E t : cmds' = [cmds EXCEPT ![n] = t]
      /\ \E t : jobs' = [jobs EXCEPT ![n] = t]
  <2>1. \E t : cmds' = [cmds EXCEPT ![n] = t]
    BY DEF TakeCmd
  <2>2. jobs' = [jobs EXCEPT ![n] = Append(IF Head(cmds[n])[3] = Nj THEN <<>> ELSE jobs[n],
                                           <<Head(cmds[n])[1], Head(cmds[n])[2]>>)]
    BY <1>1 DEF TakeCmd, Typed
  <2>3. \E t : jobs' = [jobs EXCEPT ![n] = t]
    BY <2>2
  <2> QED BY <2>1, <2>3 DEF TakeCmd, clientVars
<1>6. IF i = Nj
        THEN /\ cur' = [cur EXCEPT ![n] = d] /\ mulPkt' = [mulPkt EXCEPT ![n] = NoPkts]
             /\ toSend' = [toSend EXCEPT ![n] = [j \in Jobs |-> 0]]
             /\ rd' = [rd EXCEPT ![n] = 0] /\ pu' = [pu EXCEPT ![n] = 0]
             /\ se' = [se EXCEPT ![n] = 0]
        ELSE UNCHANGED <<cur, mulPkt, toSend, rd, pu, se>>
  <2>1. Head(cmds[n])[3] = 1 <=> i = Nj
    <3>1. PICK x : x = Head(cmds[n])[3]
      OBVIOUS
    <3>2. x = Nj - i + 1
      BY <1>2, <3>1
    <3>3. Nj \in Nat /\ i \in Nat
      BY <1>4, Basics
    <3>4. x = 1 <=> i = Nj
      BY <3>2, <3>3
    <3> QED BY <3>1, <3>4
  <2>2. Head(cmds[n])[1] = d
    BY <1>2
  <2>3. CASE i = Nj
    BY <2>1, <2>2, <2>3 DEF TakeCmd
  <2>4. CASE i # Nj
    BY <2>1, <2>4 DEF TakeCmd
  <2> QED BY <2>3, <2>4
<1>7. \A k \in Nodes : k # n => cmds'[k] = cmds[k] /\ jobs'[k] = jobs[k]
  BY <1>1, <1>5 DEF Typed
<1>8. \A k \in Nodes : k # n => /\ cur'[k] = cur[k] /\ mulPkt'[k] = mulPkt[k]
                                /\ toSend'[k] = toSend[k] /\ rd'[k] = rd[k] /\ pu'[k] = pu[k]
                                /\ se'[k] = se[k]
  BY <1>1, <1>6 DEF Typed
<1>9. Typed'
  <2>1. cmds' \in [Nodes -> Seq(Requests \X Jobs \X Jobs)] /\ jobs' \in [Nodes -> Seq(Requests \X Jobs)]
    <3>1. FirstJobs(d, i) \in Seq(Requests \X Jobs)
      <4>1. \A k \in 1..i : <<d, k>> \in Requests \X Jobs
        BY <1>4, Basics
      <4> QED BY <1>4, <4>1 DEF FirstJobs
    <3>2. cmds' \in [Nodes -> Seq(Requests \X Jobs \X Jobs)]
      BY <1>1, <1>2, <1>5 DEF Typed
    <3>3. jobs' \in [Nodes -> Seq(Requests \X Jobs)]
      <4>1. jobs \in [Nodes -> Seq(Requests \X Jobs)]
        BY <1>1 DEF Typed
      <4>2. PICK x : jobs' = [jobs EXCEPT ![n] = x]
        BY <1>5
      <4>3. x \in Seq(Requests \X Jobs)
        <5>1. jobs'[n] = x
          BY <4>1, <4>2
        <5> QED BY <1>2, <3>1, <5>1
      <4> QED BY <4>1, <4>2, <4>3
    <3> QED BY <3>2, <3>3
  <2>2. /\ cur' \in [Nodes -> Requests \cup {0}]
        /\ mulPkt' \in [Nodes -> [Pkts -> [Jobs -> Packets]]]
        /\ toSend' \in [Nodes -> [Jobs -> Nat]]
        /\ rd' \in [Nodes -> Nat] /\ pu' \in [Nodes -> Nat] /\ se' \in [Nodes -> Nat]
    <3>1. CASE i = Nj
      <4>1. [j \in Jobs |-> 0] \in [Jobs -> Nat]
        OBVIOUS
      <4>2. NoPkts \in [Pkts -> [Jobs -> Packets]]
        BY DEF NoPkts, Packets
      <4>3. /\ cur' = [cur EXCEPT ![n] = d] /\ mulPkt' = [mulPkt EXCEPT ![n] = NoPkts]
            /\ toSend' = [toSend EXCEPT ![n] = [j \in Jobs |-> 0]]
            /\ rd' = [rd EXCEPT ![n] = 0] /\ pu' = [pu EXCEPT ![n] = 0]
            /\ se' = [se EXCEPT ![n] = 0]
        BY <1>6, <3>1
      <4>4. cur' \in [Nodes -> Requests \cup {0}]
        BY <1>1, <4>3 DEF Typed
      <4>5. mulPkt' \in [Nodes -> [Pkts -> [Jobs -> Packets]]]
        BY <1>1, <4>2, <4>3 DEF Typed
      <4>6. toSend' \in [Nodes -> [Jobs -> Nat]]
        BY <1>1, <4>1, <4>3 DEF Typed
      <4>7. rd' \in [Nodes -> Nat] /\ pu' \in [Nodes -> Nat] /\ se' \in [Nodes -> Nat]
        BY <1>1, <4>3 DEF Typed
      <4> QED BY <4>4, <4>5, <4>6, <4>7
    <3>2. CASE i # Nj
      BY <1>1, <1>6, <3>2 DEF Typed
    <3> QED BY <3>1, <3>2
  <2> QED BY <1>1, <1>5, <2>1, <2>2 DEF Typed, LostList
\* The work on a request is pending until its last command is taken.
<1>10. \A c \in Requests : Pending(n, c)' <=> (Pending(n, c) /\ ~(c = d /\ i = Nj))
  <2>1. ASSUME NEW c \in Requests PROVE Pending(n, c)' <=> (Pending(n, c) /\ ~(c = d /\ i = Nj))
    <3>1. Pending(n, c)' <=> \E k \in 1..Len(u) : u[k] = <<c, Nj, 1>>
      BY <1>2 DEF Pending
    <3>2. Pending(n, c) <=> \E k \in 1..Len(s) : s[k] = <<c, Nj, 1>>
      BY <1>3 DEF Pending
    <3>3. ASSUME NEW k \in 1..Len(u), u[k] = <<c, Nj, 1>> PROVE Pending(n, c) /\ ~(c = d /\ i = Nj)
      <4>1. k + 1 \in 1..Len(s) /\ s[k + 1] = <<c, Nj, 1>> /\ 1 < k + 1
        <5>1. Len(u) \in Nat /\ k \in Nat /\ 1 < k + 1
          BY <1>4, <3>3
        <5> QED BY <1>4, <3>3, <5>1
      <4>2. i = Nj => d < c
        <5>1. s[1][2] = Nj => s[1][1] < s[k + 1][1]
          BY <1>1, <1>3, <1>4, <4>1 DEF CmdsInv
        <5>2. s[1][1] = d /\ s[1][2] = i /\ s[k + 1][1] = c
          BY <1>4, <4>1
        <5> QED BY <5>1, <5>2
      <4>3. c = d => ~(d < c)
        BY <1>4
      <4> QED BY <3>2, <4>1, <4>2, <4>3
    <3>4. ASSUME NEW k \in 1..Len(s), s[k] = <<c, Nj, 1>>, ~(c = d /\ i = Nj)
          PROVE  \E l \in 1..Len(u) : u[l] = <<c, Nj, 1>>
      <4>1. k # 1
        <5>1. k = 1 => c = d /\ Nj = i
          BY <1>4, <3>4
        <5> QED BY <3>4, <5>1
      <4> QED BY <1>4, <3>4, <4>1
    <3> QED BY <3>1, <3>2, <3>3, <3>4
  <2> QED BY <2>1
<1>11. \A m \in Nodes, c \in Requests : m # n => (Pending(m, c)' <=> Pending(m, c))
  BY <1>7 DEF Pending
<1>12. i = Nj => Pending(n, d)
  <2>1. ASSUME i = Nj PROVE s[1] = <<d, Nj, 1>>
    BY <1>4, <2>1, Basics
  <2> QED BY <1>3, <1>4, <2>1 DEF Pending
<1>13. CmdsInv(n)'
  <2>1. \A c : Helpers(c)' = Helpers(c)
    BY <1>5, Fixed
  <2>2. cur'[n] = IF i = Nj THEN d ELSE 0
    BY <1>1, <1>5, <1>6 DEF Typed
  <2>3. /\ \A k \in 1..Len(s) :
             /\ n \in Helpers(s[k][1]) /\ 0 < s[k][1] /\ s[k][3] = Nj - s[k][2] + 1
             /\ IF s[k][2] < Nj
                  THEN k < Len(s) /\ s[k + 1][1] = s[k][1] /\ s[k + 1][2] = s[k][2] + 1
                  ELSE k < Len(s) => s[k + 1][2] = 1
        /\ \A k, l \in 1..Len(s) : k < l => /\ s[k][1] <= s[l][1]
                                            /\ s[k][2] = Nj => s[k][1] < s[l][1]
    BY <1>1, <1>3, <1>5 DEF CmdsInv
  <2>4. s[1][1] = d /\ s[1][2] = i
    BY <1>4
  <2>5. ASSUME NEW k \in 1..Len(u)
        PROVE  /\ n \in Helpers(u[k][1]) /\ cur'[n] < u[k][1] /\ u[k][3] = Nj - u[k][2] + 1
               /\ IF u[k][2] < Nj
                    THEN k < Len(u) /\ u[k + 1][1] = u[k][1] /\ u[k + 1][2] = u[k][2] + 1
                    ELSE k < Len(u) => u[k + 1][2] = 1
    <3>1. u[k] = s[k + 1] /\ k + 1 \in 1..Len(s) /\ 1 < k + 1
      BY <1>4
    <3>2. cur'[n] < u[k][1]
      <4>1. s[1][2] = Nj => s[1][1] < s[k + 1][1]
        BY <1>4, <2>3, <3>1
      <4> QED BY <2>2, <2>3, <2>4, <3>1, <4>1
    <3>3. k + 1 < Len(s) => k < Len(u) /\ u[k + 1] = s[(k + 1) + 1]
      <4>1. ASSUME k + 1 < Len(s) PROVE k < Len(u) /\ k + 1 \in 1..Len(u)
        BY <1>4, <4>1
      <4> QED BY <1>4, <4>1
    <3>4. k < Len(u) => k + 1 < Len(s)
      BY <1>4
    <3>5. /\ n \in Helpers(u[k][1]) /\ u[k][3] = Nj - u[k][2] + 1
      BY <2>3, <3>1
    <3>6. CASE u[k][2] < Nj
      <4>1. k + 1 < Len(s) /\ s[(k + 1) + 1][1] = s[k + 1][1] /\ s[(k + 1) + 1][2] = s[k + 1][2] + 1
        BY <2>3, <3>1, <3>6
      <4> QED BY <3>1, <3>2, <3>3, <3>5, <3>6, <4>1
    <3>7. CASE ~(u[k][2] < Nj)
      <4>1. k + 1 < Len(s) => s[(k + 1) + 1][2] = 1
        BY <2>3, <3>1, <3>7
      <4> QED BY <3>2, <3>3, <3>4, <3>5, <3>7, <4>1
    <3> QED BY <3>6, <3>7
  <2>6. ASSUME NEW k \in 1..Len(u), NEW l \in 1..Len(u), k < l
        PROVE  u[k][1] <= u[l][1] /\ (u[k][2] = Nj => u[k][1] < u[l][1])
    <3>1. k + 1 \in 1..Len(s) /\ l + 1 \in 1..Len(s) /\ k + 1 < l + 1 /\ u[k] = s[k + 1] /\ u[l] = s[l + 1]
      <4>1. k \in Nat /\ l \in Nat /\ k + 1 < l + 1
        <5>1. Len(u) \in Nat
          BY <1>4
        <5> QED BY <2>6, <5>1
      <4> QED BY <1>4, <4>1
    <3> QED BY <2>3, <3>1
  <2>7. ASSUME u # <<>> PROVE u[1][2] = (IF i = Nj THEN 1 ELSE i + 1) /\ (i # Nj => u[1][1] = d)
    <3>1. 1 \in 1..Len(u) /\ 1 < Len(s)
      BY <1>2, <1>4, <2>7
    <3>2. u[1] = s[1 + 1]
      BY <1>4, <3>1
    <3>3. i < Nj \/ i = Nj
      <4>1. i \in Nat /\ Nj \in Nat /\ i <= Nj
        BY <1>4, Basics
      <4> QED BY <4>1
    <3>4. /\ s[1][2] < Nj => s[1 + 1][1] = s[1][1] /\ s[1 + 1][2] = s[1][2] + 1
          /\ ~(s[1][2] < Nj) => s[1 + 1][2] = 1
      BY <1>4, <2>3, <3>1
    <3>5. CASE i < Nj
      <4>1. i # Nj
        BY <1>4, <3>5, Basics
      <4> QED BY <2>4, <3>2, <3>4, <3>5, <4>1
    <3>6. CASE i = Nj
      <4>1. ~(Nj < Nj)
        BY Basics
      <4> QED BY <2>4, <3>2, <3>4, <3>6, <4>1
    <3> QED BY <3>3, <3>5, <3>6
  <2>8. /\ cur'[n] # 0 => /\ n \in Helpers(cur'[n]) /\ jobs'[n] = FirstJobs(cur'[n], Nj)
                          /\ u # <<>> => u[1][2] = 1
        /\ cur'[n] = 0 /\ u # <<>> /\ u[1][2] # 1 => jobs'[n] = FirstJobs(u[1][1], u[1][2] - 1)
    <3>1. CASE i = Nj
      BY <1>2, <1>4, <2>2, <2>7, <3>1
    <3>2. CASE i # Nj
      <4>1. i = (i + 1) - 1
        BY <1>4
      <4> QED BY <1>2, <2>2, <2>7, <3>2, <4>1
    <3> QED BY <3>1, <3>2
  <2> QED BY <1>2, <2>1, <2>5, <2>6, <2>8 DEF CmdsInv, FirstJobs
<1>14. NodeInv(n)'
  <2>1. ~copied'[n]
    BY <1>1, <1>5 DEF NodeInv
  <2>2. \A c, m : Reused(c, m)' = Reused(c, m)
    BY <1>5, Fixed
  <2>3. ASSUME NEW c \in Requests, NEW m \in 1..EcK, chain'[c][m] = n, Pending(n, c)', ~Reused(c, m)'
        PROVE  \A p \in Pkts : ~flag'[n][p]
    BY <1>1, <1>5, <1>10, <2>2, <2>3 DEF NodeInv
  <2>4. ASSUME NEW c \in Requests, NEW m \in 1..EcK, chain'[c][m] = n, cur'[n] = c
        PROVE  AtWork(n, c, m)'
    <3>1. i = Nj /\ c = d
      <4>1. c # 0
        BY Basics
      <4> QED BY <1>1, <1>5, <1>6, <2>4, <4>1 DEF Typed
    <3>2. /\ toSend'[n] = [j \in Jobs |-> 0] /\ mulPkt'[n] = NoPkts /\ rd'[n] = 0 /\ pu'[n] = 0
      BY <1>1, <1>6, <3>1 DEF Typed
    <3>3. \A j \in Jobs : Cnt(0, j) = 0
      BY CntFacts
    <3>4. PktAt(0) = 0 /\ JobAt(0) = 1
      BY EndFacts
    <3>5. \A p \in Pkts : p \in Nat /\ ~(p < 0)
      BY Basics
    <3>6. ASSUME ~Reused(c, m) PROVE FirstWork(n, c)'
      <4>1. \A p \in Pkts : ~flag'[n][p]
        BY <1>1, <1>5, <1>12, <2>4, <3>1, <3>6 DEF NodeInv
      <4>2. Cnt(0, 1) <= PktAt(0)
        BY <3>3, <3>4, Basics
      <4>3. Cnt(pu'[n], 1) = Cnt(0, 1) /\ PktAt(rd'[n]) = 0 /\ JobAt(rd'[n]) = 1
        BY <3>2, <3>4
      <4> QED BY <2>1, <3>4, <3>5, <4>1, <4>2, <4>3 DEF FirstWork, Cnt, PktAt, JobAt, Term
    <3>7. \A p \in Pkts, j \in Jobs : mulPkt'[n][p][j] = {}
      BY <3>2 DEF NoPkts
    <3>8. \A p \in Pkts, j \in Jobs : From(mulPkt[n][p][j], c, m)'
      BY <3>7 DEF From
    <3>9. \A j \in Jobs : toSend'[n][j] = Cnt(pu[n], j)'
      <4>1. \A j : Cnt(pu[n], j)' = Cnt(0, j)
        BY <3>2 DEF Cnt, PktAt, JobAt
      <4> QED BY <3>2, <3>3, <4>1
    <3>10. \A p \in Pkts, j \in Jobs : ~(p < Cnt(pu[n], j)')
      <4>1. \A j : Cnt(pu[n], j)' = Cnt(0, j)
        BY <3>2 DEF Cnt, PktAt, JobAt
      <4> QED BY <3>3, <3>5, <4>1
    <3> QED BY <2>2, <3>6, <3>8, <3>9, <3>10 DEF AtWork
  <2> QED BY <2>1, <2>3, <2>4 DEF NodeInv
<1>15. ASSUME NEW m \in Nodes PROVE CmdsInv(m)' /\ NodeInv(m)'
  BY <1>5, <1>7, <1>8, <1>13, <1>14, OthersSame
<1>16. ASSUME NEW a \in Nodes, NEW c \in Requests, NEW j \in Jobs
       PROVE  Sent(a, c, j)' = Sent(a, c, j) /\ Pulled(a, c, j)' = Pulled(a, c, j)
  <2>1. CASE a # n
    BY <1>7, <1>8, <2>1 DEF Sent, Pulled, Pending, Cnt, PktAt, JobAt
  <2>2. CASE a = n /\ i = Nj /\ c = d
    <3>1. Sent(n, d, j) = 0 /\ Pulled(n, d, j) = 0
      BY <1>4, <1>5, <1>12, <2>2 DEF Sent, Pulled
    <3>2. cur'[n] = d /\ se'[n] = 0 /\ pu'[n] = 0
      BY <1>1, <1>6, <2>2 DEF Typed
    <3>3. Sent(n, d, j)' = Cnt(0, j) /\ Pulled(n, d, j)' = Cnt(0, j)
      BY <3>2 DEF Sent, Pulled, Cnt, PktAt, JobAt
    <3>4. Cnt(0, j) = 0
      BY CntFacts
    <3> QED BY <2>2, <3>1, <3>3, <3>4
  <2>3. CASE a = n /\ ~(i = Nj /\ c = d)
    <3>1. cur[n] # c /\ cur'[n] # c
      <4>1. cur[n] = 0 /\ (cur'[n] = 0 \/ (i = Nj /\ cur'[n] = d))
        BY <1>1, <1>5, <1>6 DEF Typed
      <4> QED BY <2>3, <4>1, Basics
    <3>2. Pending(n, c)' <=> Pending(n, c)
      BY <1>10, <2>3
    <3>3. /\ Sent(n, c, j) = (IF Pending(n, c) THEN 0 ELSE PktCnt)
          /\ Pulled(n, c, j) = (IF Pending(n, c) THEN 0 ELSE PktCnt)
          /\ Sent(n, c, j)' = (IF Pending(n, c)' THEN 0 ELSE PktCnt)
          /\ Pulled(n, c, j)' = (IF Pending(n, c)' THEN 0 ELSE PktCnt)
      BY <3>1 DEF Sent, Pulled
    <3> QED BY <2>3, <3>2, <3>3
  <2> QED BY <2>1, <2>2, <2>3
<1>17. \A c \in Requests, m \in 1..EcK, j \in Jobs : ListInv(c, m, j)'
  BY <1>5, <1>16, ListsUntouched
<1>18. \A c \in Clients : ClientInv(c)'
  BY <1>5, ClientSame
<1> QED BY <1>9, <1>15, <1>17, <1>18 DEF MulInv

-----------------------------------------------------------------------------
(* The clients. *)

\* A step of client c, or of a passive receiver, that leaves the helpers alone.
LEMMA ClientStep ==
    ASSUME MulInv, NEW c \in Clients,
           UNCHANGED <<warm, chain, cmds, jobs, cur, mulPkt, flag, toSend, rd, copied, pu, se>>,
           Typed', ClientInv(c)',
           \A d \in Clients : d # c => /\ contents'[d] = contents[d]
                                       /\ processed'[d] = processed[d] /\ out'[d] = out[d]
                                       /\ relayed'[d] = relayed[d] /\ passive'[d] = passive[d],
           \A d \in Requests, m \in 1..EcK, j \in Jobs : ListInv(d, m, j)'
    PROVE  MulInv'
<1>1. \A n \in Nodes : CmdsInv(n)' /\ NodeInv(n)'
  BY OthersSame
<1>2. \A d \in Clients : ClientInv(d)'
  <2>1. \A d \in Clients : d # c => ClientInv(d)'
    BY ClientSame
  <2> QED BY <2>1
<1> QED BY <1>1, <1>2 DEF MulInv

\* What a step of a client leaves of the helpers' counts.
LEMMA ClientCounts ==
    ASSUME UNCHANGED <<warm, chain, cmds, cur, pu, se>>
    PROVE  \A n \in Nodes, c \in Requests, j \in Jobs :
             Sent(n, c, j)' = Sent(n, c, j) /\ Pulled(n, c, j)' = Pulled(n, c, j)
BY DEF Sent, Pulled, Pending, Cnt, PktAt, JobAt

\* pipeCollector: the next packet of the next job.
LEMMA CollectorInv ==
    ASSUME MulInv, NEW c \in Clients, PipeCollector(c), UNCHANGED <<mulVars, passive>>
    PROVE  MulInv'
<1>1. Typed /\ ClientInv(c) /\ c \in Requests
  BY Basics DEF MulInv
<1>2. PICK s, k, j, key, l : /\ s = contents[c] /\ k = Len(s) /\ j = JobAt(k)
                             /\ key = fetch[c][j] /\ l = redis[key]
  OBVIOUS
<1>3. /\ k < Total /\ l # <<>>
      /\ contents' = [contents EXCEPT ![c] = Append(@, Head(l))]
      /\ redis' = [redis EXCEPT ![key] = Tail(@)]
      /\ fetch' = fetch /\ processed' = processed /\ out' = out /\ relayed' = relayed
      /\ passive' = passive /\ warm' = warm /\ chain' = chain /\ cmds' = cmds /\ cur' = cur
      /\ flag' = flag /\ jobs' = jobs /\ rd' = rd /\ pu' = pu /\ se' = se /\ copied' = copied
      /\ toSend' = toSend /\ mulPkt' = mulPkt
  BY <1>2 DEF PipeCollector, Pop, mulVars
<1>4. /\ s \in Seq(Packets) /\ k \in Nat /\ j \in Jobs /\ Cnt(k, j) = PktAt(k) /\ PktAt(k) \in Nat
      /\ \A i \in Jobs : Cnt(k + 1, i) = IF i = j THEN Cnt(k, i) + 1 ELSE Cnt(k, i)
  <2>1. s \in Seq(Packets) /\ k \in Nat
    BY <1>1, <1>2 DEF Typed
  <2>2. j \in Jobs /\ PktAt(k) \in Nat
    BY <1>2, <2>1, StepFacts
  <2> QED BY <1>2, <2>1, <2>2, CntFacts
<1>5. /\ key = Key(c, EcK, j) /\ key \in Lists /\ l \in Seq(Packets)
      /\ \A d, i, x : d # c \/ x # j => key # Key(d, i, x)
      /\ \A i \in 1..EcK : i # EcK => key # Key(c, i, j)
  <2>1. key = LostList(chain[c][EcK], c, j)
    BY <1>1, <1>2, <1>4 DEF Typed
  <2>2. key = Key(c, EcK, j)
    BY <2>1 DEF Key
  <2> QED BY <1>1, <1>2, <1>4, <2>2, KeyFacts, Basics
<1>6. PICK t : t = PktAt(k)
  OBVIOUS
<1>7. /\ Taken(c, EcK, j) = t /\ Run(l, c, EcK, j, t)
      /\ t + Len(l) = Sent(chain[c][EcK], c, j)
  <2>1. Taken(c, EcK, j) = t
    BY <1>2, <1>4, <1>6 DEF Taken
  <2>2. ListInv(c, EcK, j)
    BY <1>1, <1>4, Basics DEF MulInv
  <2> QED BY <1>2, <1>5, <2>1, <2>2 DEF ListInv
<1>8. /\ Good(c, EcK, j, t, Head(l)) /\ Run(Tail(l), c, EcK, j, t + 1)
      /\ Head(l) \in Packets /\ Tail(l) \in Seq(Packets)
      /\ Len(Tail(l)) \in Nat /\ Len(l) = Len(Tail(l)) + 1
  BY <1>3, <1>4, <1>5, <1>6, <1>7, RunPop
<1>9. /\ contents' \in [Clients -> Seq(Packets)] /\ contents'[c] = Append(s, Head(l))
      /\ \A d \in Clients : d # c => contents'[d] = contents[d]
  <2>1. contents \in [Clients -> Seq(Packets)]
    BY <1>1 DEF Typed
  <2>2. Append(s, Head(l)) \in Seq(Packets)
    BY <1>4, <1>8
  <2> QED BY <1>2, <1>3, <2>1, <2>2
<1>10. /\ redis' \in [Lists -> Seq(Packets)] /\ redis'[key] = Tail(l)
       /\ \A x \in Lists : x # key => redis'[x] = redis[x]
  <2>1. redis \in [Lists -> Seq(Packets)]
    BY <1>1 DEF Typed
  <2> QED BY <1>2, <1>3, <1>5, <1>8, <2>1
<1>11. Typed'
  BY <1>1, <1>3, <1>9, <1>10 DEF Typed, LostList
<1>12. PICK u : u = Append(s, Head(l))
  OBVIOUS
<1>13. /\ Len(u) = k + 1 /\ u[k + 1] = Head(l) /\ \A x \in 1..k : u[x] = s[x]
       /\ contents'[c] = u
  <2>1. contents'[c] = u
    BY <1>9, <1>12
  <2>2. Len(u) = Len(s) + 1 /\ u[Len(s) + 1] = Head(l) /\ \A x \in 1..Len(s) : u[x] = s[x]
    BY <1>4, <1>8, <1>12
  <2> QED BY <1>2, <2>1, <2>2
<1>14. ClientInv(c)'
  <2>1. /\ processed[c] <= k
        /\ \A x \in 1..k : Good(c, EcK, JobAt(x - 1), PktAt(x - 1), s[x])
        /\ Len(out[c]) = Cnt(processed[c], 1)
        /\ Run(out[c], c, EcK, 1, 0)
        /\ \A i \in Jobs \ {1} :
             /\ Len(passive[c][i]) + Len(relayed[c][i]) = Cnt(processed[c], i)
             /\ Run(passive[c][i], c, EcK, i, 0)
             /\ Run(relayed[c][i], c, EcK, i, Len(passive[c][i]))
    BY <1>1, <1>2 DEF ClientInv
  <2>2. processed[c] \in Nat /\ processed[c] <= k + 1
    <3>1. processed[c] \in Nat
      BY <1>1 DEF Typed
    <3> QED BY <1>4, <2>1, <3>1
  <2>3. ASSUME NEW x \in 1..(k + 1) PROVE Good(c, EcK, JobAt(x - 1), PktAt(x - 1), u[x])
    <3>1. CASE x \in 1..k
      BY <1>13, <2>1, <3>1
    <3>2. CASE x = k + 1
      <4>1. x - 1 = k
        BY <1>4, <3>2
      <4> QED BY <1>2, <1>6, <1>8, <1>13, <3>2, <4>1
    <3> QED BY <1>4, <3>1, <3>2
  <2>4. \A x \in 1..(k + 1) : Good(c, EcK, JobAt(x - 1), PktAt(x - 1), u[x])'
    <3>1. \A m, i, p, v : Good(c, m, i, p, v) => Good(c, m, i, p, v)'
      BY <1>3, Fixed
    <3> QED BY <2>3, <3>1
  <2>5. Run(out[c], c, EcK, 1, 0)'
    <3>1. \A r, i, q : Run(r, c, EcK, i, q) => Run(r, c, EcK, i, q)'
      BY <1>3, Fixed
    <3>2. PICK r : r = out[c] /\ out'[c] = r
      BY <1>3
    <3>3. Run(r, c, EcK, 1, 0)'
      BY <2>1, <3>1, <3>2
    <3> QED BY <3>2, <3>3
  <2>6. ASSUME NEW i \in Jobs \ {1}
        PROVE  Run(passive[c][i], c, EcK, i, 0)' /\ Run(relayed[c][i], c, EcK, i, Len(passive[c][i]))'
    <3>1. \A r, q : Run(r, c, EcK, i, q) => Run(r, c, EcK, i, q)'
      BY <1>3, Fixed
    <3>2. PICK r, y : r = relayed[c][i] /\ y = passive[c][i] /\ relayed'[c][i] = r /\ passive'[c][i] = y
      BY <1>3
    <3>3. Run(y, c, EcK, i, 0)' /\ Run(r, c, EcK, i, Len(y))'
      BY <2>1, <3>1, <3>2
    <3> QED BY <3>2, <3>3
  <2> QED BY <1>3, <1>13, <2>1, <2>2, <2>4, <2>5, <2>6 DEF ClientInv, Cnt, PktAt, JobAt
<1>15. \A n \in Nodes, d \in Requests, i \in Jobs :
         Sent(n, d, i)' = Sent(n, d, i) /\ Pulled(n, d, i)' = Pulled(n, d, i)
  BY <1>3, ClientCounts
<1>16. ASSUME NEW d \in Requests, NEW x \in 1..EcK, NEW i \in Jobs PROVE ListInv(d, x, i)'
  <2>1. CASE ~(d = c /\ x = EcK /\ i = j)
    <3>1. redis'[Key(d, x, i)] = redis[Key(d, x, i)]
      <4>1. key # Key(d, x, i)
        BY <1>5, <2>1
      <4>2. Key(d, x, i) \in Lists
        BY <1>1, KeyFacts
      <4> QED BY <1>10, <4>1, <4>2
    <3>2. \A n \in Nodes : n = chain[d][x] => Sent(n, d, i)' = Sent(n, d, i)
      BY <1>15
    <3>3. \A n \in Nodes : x # EcK /\ n = chain[d][x + 1] => Pulled(n, d, i)' = Pulled(n, d, i)
      BY <1>15
    <3>4. x = EcK /\ d \in Clients => Cnt(Len(contents'[d]), i) = Cnt(Len(contents[d]), i)
      <4>1. CASE d # c
        BY <1>9, <4>1
      <4>2. CASE d = c /\ i # j
        BY <1>2, <1>4, <1>13, <4>2
      <4> QED BY <2>1, <4>1, <4>2
    <3>5. UNCHANGED <<warm, chain>>
      BY <1>3
    <3> QED BY ONLY MulInv, d \in Requests, x \in 1..EcK, i \in Jobs, <3>1, <3>2, <3>3, <3>4, <3>5, ListSame
  <2>2. CASE d = c /\ x = EcK /\ i = j
    <3>1. Taken(c, EcK, j)' = t + 1
      <4>1. Taken(c, EcK, j)' = Cnt(Len(contents'[c]), j)
        BY DEF Taken, Cnt, PktAt, JobAt
      <4>2. Cnt(k + 1, j) = t + 1
        BY <1>4, <1>6
      <4> QED BY <1>13, <4>1, <4>2
    <3>2. Key(c, EcK, j)' = key
      <4>1. Key(c, EcK, j)' = Key(c, EcK, j)
        BY <1>3, Fixed
      <4> QED BY <1>5, <4>1
    <3>3. Sent(chain[c][EcK], c, j)' = t + Len(l)
      <4>1. PICK a \in Nodes : a = chain[c][EcK]
        BY <1>1, Basics, ChainFacts
      <4>2. Sent(a, c, j)' = Sent(a, c, j)
        BY <1>1, <1>4, <1>15
      <4>3. Sent(chain[c][EcK], c, j)' = Sent(a, c, j)'
        BY <1>3, <4>1 DEF Sent, Pending
      <4> QED BY <1>7, <4>1, <4>2, <4>3
    <3>4. Run(Tail(l), c, EcK, j, t + 1)'
      <4>1. \A r, q : Run(r, c, EcK, j, q) => Run(r, c, EcK, j, q)'
        BY <1>3, Fixed
      <4> QED BY <1>8, <4>1
    <3>5. (t + 1) + Len(Tail(l)) = t + Len(l)
      <4>1. PICK a, b : a = Len(Tail(l)) /\ b = Len(l)
        OBVIOUS
      <4>2. a \in Nat /\ b = a + 1 /\ t \in Nat
        BY <1>4, <1>6, <1>8, <4>1
      <4>3. (t + 1) + a = t + b
        BY <4>2
      <4> QED BY <4>1, <4>3
    <3>6. ListInv(c, EcK, j)'
      BY <1>10, <3>1, <3>2, <3>3, <3>4, <3>5 DEF ListInv
    <3> QED BY <2>2, <3>6
  <2> QED BY <2>1, <2>2
<1>17. /\ UNCHANGED <<warm, chain, cmds, jobs, cur, mulPkt, flag, toSend, rd, copied, pu, se>>
       /\ \A d \in Clients : d # c => /\ contents'[d] = contents[d]
                                      /\ processed'[d] = processed[d] /\ out'[d] = out[d]
                                      /\ relayed'[d] = relayed[d] /\ passive'[d] = passive[d]
  BY <1>3, <1>9
<1> QED BY ONLY MulInv, c \in Clients, <1>11, <1>14, <1>16, <1>17, ClientStep

\* pipeForwardWorker: a packet of the first job goes to the file, one of another to
\* that job's list.
LEMMA ForwardInv ==
    ASSUME MulInv, NEW c \in Clients, PipeForwardWorker(c), UNCHANGED <<mulVars, passive>>
    PROVE  MulInv'
<1>1. Typed /\ ClientInv(c) /\ c \in Requests
  BY Basics DEF MulInv
<1>2. PICK k, v, j, b : /\ k = processed[c] /\ b = contents[c] /\ v = b[k + 1] /\ j = JobAt(k)
  OBVIOUS
<1>3. /\ k < Len(b)
      /\ processed' = [processed EXCEPT ![c] = k + 1]
      /\ out' = IF j = 1 THEN [out EXCEPT ![c] = Append(@, v)] ELSE out
      /\ relayed' = IF j = 1 THEN relayed ELSE [relayed EXCEPT ![c][j] = Append(@, v)]
      /\ contents' = contents /\ redis' = redis /\ fetch' = fetch
      /\ passive' = passive /\ warm' = warm /\ chain' = chain /\ cmds' = cmds /\ cur' = cur
      /\ flag' = flag /\ jobs' = jobs /\ rd' = rd /\ pu' = pu /\ se' = se /\ copied' = copied
      /\ toSend' = toSend /\ mulPkt' = mulPkt
  BY <1>2 DEF PipeForwardWorker, mulVars
<1>4. /\ b \in Seq(Packets) /\ k \in Nat /\ k + 1 \in Nat /\ k + 1 \in 1..Len(b) /\ v \in Packets
      /\ (k + 1) - 1 = k /\ j \in Jobs /\ Cnt(k, j) = PktAt(k) /\ PktAt(k) \in Nat
      /\ \A i \in Jobs : Cnt(k + 1, i) = IF i = j THEN Cnt(k, i) + 1 ELSE Cnt(k, i)
  <2>1. b \in Seq(Packets) /\ k \in Nat
    BY <1>1, <1>2 DEF Typed
  <2>2. j \in Jobs /\ PktAt(k) \in Nat
    BY <1>2, <2>1, StepFacts
  <2>3. k + 1 \in Nat /\ k + 1 \in 1..Len(b) /\ (k + 1) - 1 = k
    BY <1>3, <2>1
  <2>4. v \in Packets
    BY <1>2, <2>1, <2>3, ElementOfSeq
  <2>5. Cnt(k, j) = PktAt(k)
    BY <1>2, <2>1, <2>2, CntFacts
  <2>6. \A i \in Jobs : Cnt(k + 1, i) = IF i = j THEN Cnt(k, i) + 1 ELSE Cnt(k, i)
    BY <1>2, <2>1, CntFacts
  <2> QED BY <2>1, <2>2, <2>3, <2>4, <2>5, <2>6
<1>5. /\ \A x \in 1..Len(b) : Good(c, EcK, JobAt(x - 1), PktAt(x - 1), b[x])
      /\ Len(out[c]) = Cnt(k, 1) /\ Run(out[c], c, EcK, 1, 0)
      /\ \A i \in Jobs \ {1} :
           /\ Len(passive[c][i]) + Len(relayed[c][i]) = Cnt(k, i)
           /\ Run(passive[c][i], c, EcK, i, 0)
           /\ Run(relayed[c][i], c, EcK, i, Len(passive[c][i]))
  BY <1>1, <1>2 DEF ClientInv
<1>6. PICK t : t = PktAt(k)
  OBVIOUS
<1>7. Good(c, EcK, j, t, v)
  BY <1>2, <1>4, <1>5, <1>6
<1>8. /\ out[c] \in Seq(Packets) /\ relayed[c] \in [Jobs -> Seq(Packets)]
      /\ passive[c] \in [Jobs -> Seq(Packets)]
  BY <1>1 DEF Typed
<1>9. /\ processed' \in [Clients -> Nat] /\ processed'[c] = k + 1
      /\ \A d \in Clients : d # c => processed'[d] = processed[d]
  BY <1>1, <1>3, <1>4 DEF Typed
<1>10. /\ out' \in [Clients -> Seq(Packets)] /\ relayed' \in [Clients -> [Jobs -> Seq(Packets)]]
       /\ \A d \in Clients : d # c => out'[d] = out[d] /\ relayed'[d] = relayed[d]
       /\ out'[c] = IF j = 1 THEN Append(out[c], v) ELSE out[c]
       /\ \A i \in Jobs \ {1} :
            relayed'[c][i] = IF i = j THEN Append(relayed[c][i], v) ELSE relayed[c][i]
  <2>1. out \in [Clients -> Seq(Packets)] /\ relayed \in [Clients -> [Jobs -> Seq(Packets)]]
    BY <1>1 DEF Typed
  <2>2. Append(out[c], v) \in Seq(Packets)
    BY <1>4, <1>8
  <2>3. Append(relayed[c][j], v) \in Seq(Packets)
    BY <1>4, <1>8
  <2>4. CASE j = 1
    BY <1>3, <2>1, <2>2, <2>4
  <2>5. CASE j # 1
    <3>1. relayed' = [relayed EXCEPT ![c][j] = Append(relayed[c][j], v)] /\ out' = out
      BY <1>3, <1>4, <2>1, <2>5
    <3>2. relayed' \in [Clients -> [Jobs -> Seq(Packets)]]
      BY <1>4, <2>1, <2>3, <3>1
    <3>3. /\ \A d \in Clients : d # c => relayed'[d] = relayed[d]
          /\ \A i \in Jobs \ {1} :
               relayed'[c][i] = IF i = j THEN Append(relayed[c][i], v) ELSE relayed[c][i]
      BY <1>4, <2>1, <3>1
    <3> QED BY <2>1, <2>5, <3>1, <3>2, <3>3
  <2> QED BY <2>4, <2>5
<1>11. Typed'
  <2>1. /\ processed' \in [Clients -> Nat] /\ out' \in [Clients -> Seq(Packets)]
        /\ relayed' \in [Clients -> [Jobs -> Seq(Packets)]]
    BY <1>9, <1>10
  <2> QED BY <1>1, <1>3, <2>1 DEF Typed, LostList
<1>12. ClientInv(c)'
  <2>1. k + 1 <= Len(b)
    BY <1>4
  <2>2. \A x \in 1..Len(b) : Good(c, EcK, JobAt(x - 1), PktAt(x - 1), b[x])'
    <3>1. \A m, i, p, w : Good(c, m, i, p, w) => Good(c, m, i, p, w)'
      BY <1>3, Fixed
    <3> QED BY <1>5, <3>1
  <2>3. Run(out'[c], c, EcK, 1, 0) /\ Len(out'[c]) = Cnt(k + 1, 1)
    <3>1. CASE j = 1
      <4>1. 0 + Len(out[c]) = t
        BY <1>4, <1>5, <1>6, <3>1
      <4>2. PICK o : o = out[c] /\ o \in Seq(Packets)
        BY <1>8
      <4>3. Run(Append(o, v), c, EcK, 1, 0) /\ Len(Append(o, v)) = Len(o) + 1
        BY <1>4, <1>5, <1>7, <3>1, <4>1, <4>2, RunPush
      <4>4. Cnt(k + 1, 1) = Cnt(k, 1) + 1
        BY <1>4, <3>1
      <4> QED BY <1>5, <1>10, <3>1, <4>2, <4>3, <4>4
    <3>2. CASE j # 1
      BY <1>4, <1>5, <1>10, <3>2, Basics
    <3> QED BY <3>1, <3>2
  <2>4. ASSUME NEW i \in Jobs \ {1}
        PROVE  /\ Len(passive[c][i]) + Len(relayed'[c][i]) = Cnt(k + 1, i)
               /\ Run(relayed'[c][i], c, EcK, i, Len(passive[c][i]))
    <3>1. PICK y, r : y = passive[c][i] /\ r = relayed[c][i]
      OBVIOUS
    <3>2. /\ y \in Seq(Packets) /\ r \in Seq(Packets) /\ Len(y) \in Nat
          /\ Len(y) + Len(r) = Cnt(k, i) /\ Run(r, c, EcK, i, Len(y))
      <4>1. y \in Seq(Packets) /\ r \in Seq(Packets)
        BY <1>8, <3>1
      <4>2. Len(y) + Len(r) = Cnt(k, i) /\ Run(r, c, EcK, i, Len(y))
        BY <1>5, <3>1
      <4> QED BY <4>1, <4>2
    <3>3. CASE i = j
      <4>1. Len(y) + Len(r) = t
        BY <1>4, <1>6, <3>2, <3>3
      <4>2. /\ Run(Append(r, v), c, EcK, i, Len(y))
            /\ Len(y) + Len(Append(r, v)) = t + 1
        BY <1>4, <1>7, <3>2, <3>3, <4>1, RunPush
      <4>3. Cnt(k + 1, i) = t + 1
        BY <1>4, <1>6, <3>3
      <4> QED BY <1>10, <3>1, <3>3, <4>2, <4>3
    <3>4. CASE i # j
      BY <1>4, <1>10, <3>1, <3>2, <3>4
    <3> QED BY <3>3, <3>4
  <2>5. Run(out[c], c, EcK, 1, 0)'
    <3>1. \A r, i, q : Run(r, c, EcK, i, q) => Run(r, c, EcK, i, q)'
      BY <1>3, Fixed
    <3>2. PICK r : r = out'[c]
      OBVIOUS
    <3>3. Run(r, c, EcK, 1, 0)'
      BY <2>3, <3>1, <3>2
    <3> QED BY <3>2, <3>3
  <2>6. ASSUME NEW i \in Jobs \ {1}
        PROVE  Run(passive[c][i], c, EcK, i, 0)' /\ Run(relayed[c][i], c, EcK, i, Len(passive[c][i]))'
    <3>1. \A r, q : Run(r, c, EcK, i, q) => Run(r, c, EcK, i, q)'
      BY <1>3, Fixed
    <3>2. PICK r, y : r = relayed'[c][i] /\ y = passive[c][i] /\ passive'[c][i] = y
      BY <1>3
    <3>3. Run(y, c, EcK, i, 0)' /\ Run(r, c, EcK, i, Len(y))'
      BY <1>5, <2>4, <3>1, <3>2
    <3> QED BY <3>2, <3>3
  <2>7. contents'[c] = b /\ processed'[c] = k + 1 /\ passive' = passive
    BY <1>2, <1>3, <1>9
  <2> QED BY <2>1, <2>2, <2>3, <2>4, <2>5, <2>6, <2>7 DEF ClientInv, Cnt, PktAt, JobAt
<1>13. \A n \in Nodes, d \in Requests, i \in Jobs :
         Sent(n, d, i)' = Sent(n, d, i) /\ Pulled(n, d, i)' = Pulled(n, d, i)
  BY <1>3, ClientCounts
<1>14. \A d \in Requests, m \in 1..EcK, i \in Jobs : ListInv(d, m, i)'
  BY <1>3, <1>13, ListsUntouched
<1>15. /\ UNCHANGED <<warm, chain, cmds, jobs, cur, mulPkt, flag, toSend, rd, copied, pu, se>>
       /\ \A d \in Clients : d # c => /\ contents'[d] = contents[d]
                                      /\ processed'[d] = processed[d] /\ out'[d] = out[d]
                                      /\ relayed'[d] = relayed[d] /\ passive'[d] = passive[d]
  BY <1>3, <1>9, <1>10
<1> QED BY ONLY MulInv, c \in Clients, <1>11, <1>12, <1>14, <1>15, ClientStep

\* passiveReceiver: the packets go from the list to the file in order.
LEMMA PassiveInv ==
    ASSUME MulInv, NEW c \in Clients, NEW j \in Jobs, PassiveReceiver(c, j)
    PROVE  MulInv'
<1>1. Typed /\ ClientInv(c) /\ c \in Requests
  BY Basics DEF MulInv
<1>2. PICK r, y : r = relayed[c][j] /\ y = passive[c][j]
  OBVIOUS
<1>3. r \in Seq(Packets) /\ y \in Seq(Packets)
  BY <1>1, <1>2 DEF Typed
<1>4. /\ r # <<>>
      /\ passive' = [passive EXCEPT ![c][j] = Append(y, Head(r))]
      /\ relayed' = [relayed EXCEPT ![c][j] = Tail(r)]
      /\ processed' = processed /\ out' = out
      /\ contents' = contents /\ redis' = redis /\ fetch' = fetch
      /\ warm' = warm /\ chain' = chain /\ cmds' = cmds /\ cur' = cur
      /\ flag' = flag /\ jobs' = jobs /\ rd' = rd /\ pu' = pu /\ se' = se /\ copied' = copied
      /\ toSend' = toSend /\ mulPkt' = mulPkt
  BY <1>1, <1>2 DEF PassiveReceiver, mulVars, Typed
<1>5. /\ Head(r) \in Packets /\ Tail(r) \in Seq(Packets) /\ Append(y, Head(r)) \in Seq(Packets)
  <2>1. Head(r) \in Packets /\ Tail(r) \in Seq(Packets)
    <3>1. r[1] \in Packets
      <4>1. 1 \in 1..Len(r)
        BY <1>3, <1>4
      <4> QED BY <1>3, <4>1, ElementOfSeq
    <3> QED BY <1>3, <1>4, <3>1
  <2> QED BY <1>3, <2>1
<1>6. /\ passive' \in [Clients -> [Jobs -> Seq(Packets)]]
      /\ relayed' \in [Clients -> [Jobs -> Seq(Packets)]]
      /\ passive'[c][j] = Append(y, Head(r)) /\ relayed'[c][j] = Tail(r)
      /\ \A i \in Jobs : i # j => passive'[c][i] = passive[c][i] /\ relayed'[c][i] = relayed[c][i]
      /\ \A d \in Clients : d # c => passive'[d] = passive[d] /\ relayed'[d] = relayed[d]
  <2>1. passive \in [Clients -> [Jobs -> Seq(Packets)]] /\ relayed \in [Clients -> [Jobs -> Seq(Packets)]]
    BY <1>1 DEF Typed
  <2>2. /\ passive' \in [Clients -> [Jobs -> Seq(Packets)]]
        /\ passive'[c][j] = Append(y, Head(r))
        /\ \A i \in Jobs : i # j => passive'[c][i] = passive[c][i]
        /\ \A d \in Clients : d # c => passive'[d] = passive[d]
    BY <1>4, <1>5, <2>1
  <2>3. /\ relayed' \in [Clients -> [Jobs -> Seq(Packets)]]
        /\ relayed'[c][j] = Tail(r)
        /\ \A i \in Jobs : i # j => relayed'[c][i] = relayed[c][i]
        /\ \A d \in Clients : d # c => relayed'[d] = relayed[d]
    BY <1>4, <1>5, <2>1
  <2> QED BY <2>2, <2>3
<1>7. Typed'
  <2>1. /\ passive' \in [Clients -> [Jobs -> Seq(Packets)]]
        /\ relayed' \in [Clients -> [Jobs -> Seq(Packets)]]
    BY <1>6
  <2> QED BY <1>1, <1>4, <2>1 DEF Typed, LostList
<1>8. ClientInv(c)'
  <2>1. PICK k, b, o : k = processed[c] /\ b = contents[c] /\ o = out[c]
    OBVIOUS
  <2>2. /\ k <= Len(b) /\ \A x \in 1..Len(b) : Good(c, EcK, JobAt(x - 1), PktAt(x - 1), b[x])
        /\ Len(o) = Cnt(k, 1) /\ Run(o, c, EcK, 1, 0)
        /\ \A i \in Jobs \ {1} :
             /\ Len(passive[c][i]) + Len(relayed[c][i]) = Cnt(k, i)
             /\ Run(passive[c][i], c, EcK, i, 0)
             /\ Run(relayed[c][i], c, EcK, i, Len(passive[c][i]))
    BY <1>1, <2>1 DEF ClientInv
  <2>3. \A x \in 1..Len(b) : Good(c, EcK, JobAt(x - 1), PktAt(x - 1), b[x])'
    <3>1. \A m, i, p, w : Good(c, m, i, p, w) => Good(c, m, i, p, w)'
      BY <1>4, Fixed
    <3> QED BY <2>2, <3>1
  <2>4. Run(o, c, EcK, 1, 0)'
    <3>1. \A s, i, q : Run(s, c, EcK, i, q) => Run(s, c, EcK, i, q)'
      BY <1>4, Fixed
    <3> QED BY <2>2, <3>1
  <2>5. ASSUME NEW i \in Jobs \ {1}
        PROVE  /\ Len(passive'[c][i]) + Len(relayed'[c][i]) = Cnt(k, i)
               /\ Run(passive'[c][i], c, EcK, i, 0)
               /\ Run(relayed'[c][i], c, EcK, i, Len(passive'[c][i]))
    <3>1. CASE i # j
      BY <1>6, <2>2, <3>1
    <3>2. CASE i = j
      <4>1. Len(y) \in Nat /\ Len(y) + Len(r) = Cnt(k, j) /\ Run(y, c, EcK, j, 0) /\ Run(r, c, EcK, j, Len(y))
        <5>1. Len(y) \in Nat
          BY <1>3
        <5>2. Len(y) + Len(r) = Cnt(k, j) /\ Run(y, c, EcK, j, 0) /\ Run(r, c, EcK, j, Len(y))
          BY <1>2, <2>2, <3>2
        <5> QED BY <5>1, <5>2
      <4>2. /\ Good(c, EcK, j, Len(y), Head(r)) /\ Run(Tail(r), c, EcK, j, Len(y) + 1)
            /\ Len(Tail(r)) \in Nat /\ Len(r) = Len(Tail(r)) + 1
        BY <1>3, <1>4, <4>1, RunPop
      <4>3. 0 + Len(y) = Len(y)
        BY <4>1
      <4>4. Run(Append(y, Head(r)), c, EcK, j, 0) /\ Len(Append(y, Head(r))) = Len(y) + 1
        BY <1>3, <1>5, <4>1, <4>2, <4>3, RunPush
      <4>5. (Len(y) + 1) + Len(Tail(r)) = Len(y) + Len(r)
        <5>1. PICK a, e, f : a = Len(y) /\ e = Len(Tail(r)) /\ f = Len(r)
          OBVIOUS
        <5>2. a \in Nat /\ e \in Nat /\ f = e + 1
          BY <4>1, <4>2, <5>1
        <5>3. (a + 1) + e = a + f
          BY <5>2
        <5> QED BY <5>1, <5>3
      <4> QED BY <1>6, <3>2, <4>1, <4>2, <4>4, <4>5
    <3> QED BY <3>1, <3>2
  <2>6. ASSUME NEW i \in Jobs \ {1}
        PROVE  Run(passive[c][i], c, EcK, i, 0)' /\ Run(relayed[c][i], c, EcK, i, Len(passive[c][i]))'
    <3>1. \A s, q : Run(s, c, EcK, i, q) => Run(s, c, EcK, i, q)'
      BY <1>4, Fixed
    <3>2. PICK s, z : s = relayed'[c][i] /\ z = passive'[c][i]
      OBVIOUS
    <3>3. Run(z, c, EcK, i, 0)' /\ Run(s, c, EcK, i, Len(z))'
      BY <2>5, <3>1, <3>2
    <3> QED BY <3>2, <3>3
  <2>7. contents'[c] = b /\ processed'[c] = k /\ out'[c] = o
    BY <1>4, <2>1
  <2> QED BY <2>2, <2>3, <2>4, <2>5, <2>6, <2>7 DEF ClientInv, Cnt, PktAt, JobAt
<1>9. \A n \in Nodes, d \in Requests, i \in Jobs :
        Sent(n, d, i)' = Sent(n, d, i) /\ Pulled(n, d, i)' = Pulled(n, d, i)
  BY <1>4, ClientCounts
<1>10. \A d \in Requests, m \in 1..EcK, i \in Jobs : ListInv(d, m, i)'
  BY <1>4, <1>9, ListsUntouched
<1>11. /\ UNCHANGED <<warm, chain, cmds, jobs, cur, mulPkt, flag, toSend, rd, copied, pu, se>>
       /\ \A d \in Clients : d # c => /\ contents'[d] = contents[d]
                                      /\ processed'[d] = processed[d] /\ out'[d] = out[d]
                                      /\ relayed'[d] = relayed[d] /\ passive'[d] = passive[d]
  BY <1>4, <1>6
<1> QED BY ONLY MulInv, c \in Clients, <1>7, <1>8, <1>10, <1>11, ClientStep

-----------------------------------------------------------------------------
(* The initial states. *)

\* The steps of the first q packets.
LEMMA PktBound ==
    ASSUME NEW k \in Nat, NEW q \in Nat
    PROVE  /\ Nj * q \in Nat
           /\ k < Nj * q => PktAt(k) < q /\ (JobAt(k) # Nj => k + 1 < Nj * q)
<1>1. Nj \in Nat \ {0} /\ 0 \in 0..(Nj - 1)
  BY Basics
<1>2. Nj * q \in Nat
  BY <1>1
<1>3. PktAt(Nj * q + 0) = q
  BY <1>1, StepOf
<1>4. PICK x \in Nat : x = Nj * q
  BY <1>2
<1>5. x + 0 = x
  OBVIOUS
<1>6. PktAt(x) = q
  BY <1>3, <1>4, <1>5
<1>7. ASSUME k < x PROVE PktAt(k) < q /\ (JobAt(k) # Nj => k + 1 < x)
  <2>1. PktAt(k) \in Nat /\ JobAt(k) \in Nat /\ PktAt(x) \in Nat
    BY StepIs, Basics
  <2>2. PktAt(k) < q
    <3>1. PktAt(k) < PktAt(x) \/ (PktAt(k) = PktAt(x) /\ JobAt(k) < JobAt(x))
      BY <1>7, StepOrder
    <3>2. JobAt(x) = 1
      <4>1. JobAt(Nj * q + 0) = 0 + 1
        BY <1>1, StepOf
      <4> QED BY <1>4, <1>5, <4>1
    <3>3. ~(JobAt(k) < 1)
      BY StepIs, Basics
    <3> QED BY <1>6, <3>1, <3>2, <3>3
  <2>3. ASSUME JobAt(k) # Nj PROVE k + 1 < x
    <3>1. PktAt(k + 1) = PktAt(k)
      BY <2>3, StepFacts
    <3>2. k + 1 # x
      BY <1>6, <2>1, <2>2, <3>1
    <3> QED BY <1>7, <3>2
  <2> QED BY <2>2, <2>3
<1> QED BY <1>2, <1>4, <1>7

\* The commands of the requests in H, all of them, in order.
IsQueue(s, H) ==
    /\ s \in Seq(Requests \X Jobs \X Jobs)
    /\ \A k \in 1..Len(s) :
         /\ s[k][1] \in H /\ s[k][2] \in Jobs /\ s[k][3] = Nj - s[k][2] + 1
         /\ IF s[k][2] < Nj
              THEN k < Len(s) /\ s[k + 1][1] = s[k][1] /\ s[k + 1][2] = s[k][2] + 1
              ELSE k < Len(s) => s[k + 1][2] = 1
    /\ \A k, l \in 1..Len(s) : k < l => /\ s[k][1] <= s[l][1]
                                        /\ s[k][2] = Nj => s[k][1] < s[l][1]
    /\ s # <<>> => s[1][2] = 1
    /\ \A c \in H : \E k \in 1..Len(s) : s[k] = <<c, Nj, 1>>

\* What a helper has to do at first.
LEMMA QueueFacts ==
    ASSUME NEW H, H \subseteq Requests, NEW s, s = QueueOf(H)
    PROVE  IsQueue(s, H)
<1>1. PICK q : q = Queued(R, H)
  OBVIOUS
<1>2. /\ q \in Seq(H) /\ \A i, k \in 1..Len(q) : i < k => q[i] < q[k]
      /\ \A c \in H : \E i \in 1..Len(q) : q[i] = c
  <2>1. R \in Nat /\ H \subseteq 1..R
    BY Basics
  <2>2. /\ Queued(R, H) \in Seq(H)
        /\ \A i, k \in 1..Len(Queued(R, H)) : i < k => Queued(R, H)[i] < Queued(R, H)[k]
        /\ \A c \in H : \E i \in 1..Len(Queued(R, H)) : Queued(R, H)[i] = c
    BY ONLY <2>1, QueuedFacts, ZenonT(40)
  <2> QED BY <1>1, <2>2
<1>3. PICK x : x = Nj * Len(q)
  OBVIOUS
<1>4. Len(q) \in Nat /\ x \in Nat
  BY <1>2, <1>3, Basics
<1>5. s = [k \in 1..x |-> Commands(q[PktAt(k - 1) + 1])[JobAt(k - 1)]]
  BY <1>1, <1>3 DEF QueueOf
<1>6. ASSUME NEW k \in 1..x
      PROVE  /\ k - 1 \in Nat /\ k - 1 < x /\ (k - 1) + 1 = k
             /\ PktAt(k - 1) + 1 \in 1..Len(q) /\ JobAt(k - 1) \in Jobs
             /\ JobAt(k - 1) \in Nat /\ JobAt(k - 1) <= Nj
             /\ s[k] = <<q[PktAt(k - 1) + 1], JobAt(k - 1), Nj - JobAt(k - 1) + 1>>
             /\ q[PktAt(k - 1) + 1] \in H
  <2>1. k - 1 \in Nat /\ k - 1 < x /\ (k - 1) + 1 = k
    BY <1>4
  <2>2. PktAt(k - 1) \in Nat /\ JobAt(k - 1) \in Jobs /\ PktAt(k - 1) < Len(q)
    BY <1>3, <1>4, <2>1, StepIs, PktBound
  <2>3. PktAt(k - 1) + 1 \in 1..Len(q)
    BY <1>4, <2>2
  <2>4. s[k] = Commands(q[PktAt(k - 1) + 1])[JobAt(k - 1)]
    BY <1>5
  <2>5. \A c : Commands(c)[JobAt(k - 1)] = <<c, JobAt(k - 1), Nj - JobAt(k - 1) + 1>>
    BY <2>2 DEF Commands
  <2>6. q[PktAt(k - 1) + 1] \in H
    BY <1>2, <2>3, ElementOfSeq
  <2>7. JobAt(k - 1) \in Nat /\ JobAt(k - 1) <= Nj
    BY <2>2, Basics
  <2> QED BY <2>1, <2>2, <2>3, <2>4, <2>5, <2>6, <2>7
<1>7. \A k \in 1..x : s[k] \in Requests \X Jobs \X Jobs
  <2>1. ASSUME NEW k \in 1..x PROVE s[k] \in Requests \X Jobs \X Jobs
    <3>1. Nj - JobAt(k - 1) + 1 \in 1..Nj
      <4>1. JobAt(k - 1) \in 1..Nj /\ Nj \in Nat
        BY <1>6, Basics
      <4> QED BY <4>1
    <3>2. /\ s[k] = <<q[PktAt(k - 1) + 1], JobAt(k - 1), Nj - JobAt(k - 1) + 1>>
          /\ q[PktAt(k - 1) + 1] \in Requests /\ JobAt(k - 1) \in Jobs
      BY <1>6
    <3>3. Jobs = 1..Nj
      BY Basics
    <3> QED BY <3>1, <3>2, <3>3
  <2> QED BY <2>1
<1>8. s \in Seq(Requests \X Jobs \X Jobs) /\ Len(s) = x
  <2>1. s = [k \in 1..x |-> s[k]]
    BY <1>5
  <2> QED BY <1>4, <1>7, <2>1
<1>9. ASSUME NEW k \in 1..x
      PROVE  /\ s[k][1] \in H /\ s[k][2] \in Jobs /\ s[k][3] = Nj - s[k][2] + 1
             /\ IF s[k][2] < Nj
                  THEN k < x /\ s[k + 1][1] = s[k][1] /\ s[k + 1][2] = s[k][2] + 1
                  ELSE k < x => s[k + 1][2] = 1
  <2>1. PICK p, j : p = PktAt(k - 1) /\ j = JobAt(k - 1)
    OBVIOUS
  <2>2. s[k] = <<q[p + 1], j, Nj - j + 1>> /\ q[p + 1] \in H /\ j \in Jobs /\ j \in Nat /\ j <= Nj
    BY <1>6, <2>1
  <2>3. /\ JobAt(k) = IF j = Nj THEN 1 ELSE j + 1
        /\ PktAt(k) = IF j = Nj THEN p + 1 ELSE p
    BY <1>6, <2>1, StepFacts
  <2>4. k < x => s[k + 1][1] = q[PktAt(k) + 1] /\ s[k + 1][2] = JobAt(k)
    <3>1. ASSUME k < x PROVE k + 1 \in 1..x /\ (k + 1) - 1 = k
      BY <1>4, <3>1
    <3> QED BY <1>6, <3>1
  <2>5. j # Nj => k < x
    BY <1>3, <1>4, <1>6, <2>1, PktBound
  <2>6. j < Nj <=> j # Nj
    BY <2>2, Basics
  <2> QED BY <2>2, <2>3, <2>4, <2>5, <2>6
<1>10. ASSUME NEW k \in 1..x, NEW l \in 1..x, k < l
       PROVE  s[k][1] <= s[l][1] /\ (s[k][2] = Nj => s[k][1] < s[l][1])
  <2>1. PICK a, b, i, j : a = PktAt(k - 1) /\ b = PktAt(l - 1) /\ i = JobAt(k - 1) /\ j = JobAt(l - 1)
    OBVIOUS
  <2>2. /\ s[k][1] = q[a + 1] /\ s[k][2] = i /\ s[l][1] = q[b + 1] /\ s[l][2] = j
        /\ i \in Nat /\ j \in Nat /\ i <= Nj /\ j <= Nj
        /\ a + 1 \in 1..Len(q) /\ b + 1 \in 1..Len(q)
        /\ q[a + 1] \in Nat /\ q[b + 1] \in Nat
    <3>1. /\ s[k] = <<q[a + 1], i, Nj - i + 1>> /\ s[l] = <<q[b + 1], j, Nj - j + 1>>
          /\ i \in Nat /\ j \in Nat /\ i <= Nj /\ j <= Nj
          /\ a + 1 \in 1..Len(q) /\ b + 1 \in 1..Len(q)
          /\ q[a + 1] \in H /\ q[b + 1] \in H
      BY <1>6, <2>1
    <3>2. \A c \in H : c \in Nat
      BY Basics
    <3> QED BY <3>1, <3>2
  <2>3. a < b \/ (a = b /\ i < j)
    <3>1. k - 1 \in Nat /\ l - 1 \in Nat /\ k - 1 < l - 1
      BY <1>10
    <3> QED BY <2>1, <3>1, StepOrder
  <2>4. CASE a < b
    <3>1. a \in Nat /\ b \in Nat
      <4>1. k - 1 \in Nat /\ l - 1 \in Nat
        BY <1>6
      <4> QED BY <2>1, <4>1, StepIs
    <3>2. q[a + 1] < q[b + 1]
      <4>1. a + 1 < b + 1
        BY <2>4, <3>1
      <4> QED BY <1>2, <2>2, <4>1
    <3> QED BY <2>2, <3>2
  <2>5. CASE a = b /\ i < j
    BY <2>2, <2>5, Basics
  <2> QED BY <2>3, <2>4, <2>5
<1>11. s # <<>> => s[1][2] = 1
  <2>1. s # <<>> => 1 \in 1..x
    BY <1>4, <1>8
  <2>2. 1 \in 1..x => s[1][2] = JobAt(1 - 1)
    BY <1>6
  <2>3. JobAt(1 - 1) = 1
    BY EndFacts
  <2> QED BY <2>1, <2>2, <2>3
<1>12. ASSUME NEW c \in H PROVE \E k \in 1..x : s[k] = <<c, Nj, 1>>
  <2>1. PICK i \in 1..Len(q) : q[i] = c
    BY <1>2
  <2>2. i - 1 \in Nat /\ Nj - 1 \in 0..(Nj - 1) /\ Nj \in Nat \ {0}
    BY <2>1, Basics
  <2>3. PICK y \in Nat : y = Nj * (i - 1)
    BY <2>2
  <2>4. PktAt(y + (Nj - 1)) = i - 1 /\ JobAt(y + (Nj - 1)) = (Nj - 1) + 1
    BY <2>2, <2>3, StepOf
  <2>5. y + Nj \in 1..x /\ (y + Nj) - 1 = y + (Nj - 1)
    <3>1. PICK e \in Nat : Len(q) = (i - 1) + e + 1
      <4>1. Len(q) - i \in Nat /\ Len(q) = (i - 1) + (Len(q) - i) + 1
        BY <1>4
      <4> QED BY <4>1
    <3>2. PICK z \in Nat : z = Nj * e
      BY <2>2
    <3>3. x = y + z + Nj
      BY <1>3, <2>2, <2>3, <3>1, <3>2
    <3> QED BY <2>2, <2>3, <3>3
  <2>6. s[y + Nj] = <<q[(i - 1) + 1], (Nj - 1) + 1, Nj - ((Nj - 1) + 1) + 1>>
    BY <1>6, <2>4, <2>5
  <2>7. (i - 1) + 1 = i /\ (Nj - 1) + 1 = Nj /\ Nj - ((Nj - 1) + 1) + 1 = 1
    BY <2>2
  <2>8. s[y + Nj] = <<c, Nj, 1>>
    BY <2>1, <2>6, <2>7
  <2> QED BY <2>5, <2>8
<1> QED BY <1>8, <1>9, <1>10, <1>11, <1>12 DEF IsQueue

LEMMA InitInv ==
    ASSUME Init PROVE MulInv
<1>1. /\ warm \subseteq Nodes /\ chain \in [Requests -> Chains]
      /\ cmds = [n \in Nodes |-> QueueOf({c \in Requests : n \in Helpers(c)})]
      /\ redis = [l \in Lists |-> <<>>]
      /\ fetch = [c \in Clients |-> [j \in Jobs |-> LostList(chain[c][EcK], c, j)]]
      /\ jobs = [n \in Nodes |-> <<>>] /\ cur = [n \in Nodes |-> 0]
      /\ mulPkt = [n \in Nodes |-> NoPkts] /\ flag = [n \in Nodes |-> [p \in Pkts |-> n \in warm]]
      /\ toSend = [n \in Nodes |-> [j \in Jobs |-> 0]]
      /\ rd = [n \in Nodes |-> 0] /\ pu = [n \in Nodes |-> 0] /\ se = [n \in Nodes |-> 0]
      /\ copied = [n \in Nodes |-> FALSE]
      /\ passive = [c \in Clients |-> [j \in Jobs |-> <<>>]]
      /\ contents = [c \in Clients |-> <<>>] /\ processed = [c \in Clients |-> 0]
      /\ out = [c \in Clients |-> <<>>]
      /\ relayed = [c \in Clients |-> [j \in Jobs |-> <<>>]]
  BY DEF Init, StreamInit
<1>2. ASSUME NEW n \in Nodes
      PROVE  /\ cmds[n] \in Seq(Requests \X Jobs \X Jobs)
             /\ \A k \in 1..Len(cmds[n]) :
                  /\ n \in Helpers(cmds[n][k][1]) /\ cmds[n][k][1] \in Requests
                  /\ cmds[n][k][3] = Nj - cmds[n][k][2] + 1
                  /\ IF cmds[n][k][2] < Nj
                       THEN k < Len(cmds[n]) /\ cmds[n][k + 1][1] = cmds[n][k][1]
                                             /\ cmds[n][k + 1][2] = cmds[n][k][2] + 1
                       ELSE k < Len(cmds[n]) => cmds[n][k + 1][2] = 1
             /\ \A k, l \in 1..Len(cmds[n]) : k < l =>
                  /\ cmds[n][k][1] <= cmds[n][l][1]
                  /\ cmds[n][k][2] = Nj => cmds[n][k][1] < cmds[n][l][1]
             /\ cmds[n] # <<>> => cmds[n][1][2] = 1
             /\ \A c \in Requests : n \in Helpers(c) => Pending(n, c)
  <2>1. PICK H, s : H = {c \in Requests : n \in Helpers(c)} /\ s = QueueOf(H)
    OBVIOUS
  <2>2. cmds[n] = s /\ H \subseteq Requests
    BY <1>1, <2>1
  <2>3. IsQueue(s, H)
    BY <2>1, <2>2, QueueFacts
  <2>4. \A c \in Requests : n \in Helpers(c) => Pending(n, c)
    BY <2>1, <2>2, <2>3 DEF Pending, IsQueue
  <2>5. \A c \in H : n \in Helpers(c) /\ c \in Requests
    BY <2>1
  <2> QED BY <2>2, <2>3, <2>4, <2>5 DEF IsQueue
<1>3. Typed
  <2>1. cmds \in [Nodes -> Seq(Requests \X Jobs \X Jobs)]
    BY <1>1, <1>2
  <2>2. mulPkt \in [Nodes -> [Pkts -> [Jobs -> Packets]]]
    BY <1>1 DEF NoPkts, Packets
  <2>3. /\ flag \in [Nodes -> [Pkts -> BOOLEAN]] /\ copied \in [Nodes -> BOOLEAN]
    BY <1>1
  <2>4. /\ redis \in [Lists -> Seq(Packets)] /\ contents \in [Clients -> Seq(Packets)]
        /\ out \in [Clients -> Seq(Packets)] /\ relayed \in [Clients -> [Jobs -> Seq(Packets)]]
        /\ passive \in [Clients -> [Jobs -> Seq(Packets)]] /\ jobs \in [Nodes -> Seq(Requests \X Jobs)]
    BY <1>1
  <2>5. /\ toSend \in [Nodes -> [Jobs -> Nat]] /\ cur \in [Nodes -> Requests \cup {0}]
        /\ rd \in [Nodes -> Nat] /\ pu \in [Nodes -> Nat] /\ se \in [Nodes -> Nat]
        /\ processed \in [Clients -> Nat]
    BY <1>1
  <2>6. \A c \in Clients, j \in Jobs : fetch[c][j] = LostList(chain[c][EcK], c, j)
    BY <1>1
  <2> QED BY <1>1, <2>1, <2>2, <2>3, <2>4, <2>5, <2>6 DEF Typed
<1>4. ASSUME NEW n \in Nodes PROVE CmdsInv(n)
  <2>1. cur[n] = 0
    BY <1>1
  <2>2. \A c \in Requests : 0 < c
    BY Basics
  <2> QED BY <1>2, <2>1, <2>2 DEF CmdsInv
<1>5. ASSUME NEW n \in Nodes PROVE NodeInv(n)
  <2>1. cur[n] = 0 /\ ~copied[n] /\ \A p \in Pkts : flag[n][p] = (n \in warm)
    BY <1>1
  <2>2. ASSUME NEW c \in Requests, NEW m \in 1..EcK, chain[c][m] = n, ~Reused(c, m)
        PROVE  n \notin warm
    BY <2>2 DEF Reused
  <2> QED BY <2>1, <2>2, Basics DEF NodeInv
<1>6. ASSUME NEW n \in Nodes, NEW c \in Requests, NEW j \in Jobs, n \in Helpers(c)
      PROVE  Sent(n, c, j) = 0 /\ Pulled(n, c, j) = 0
  <2>1. cur[n] = 0 /\ Pending(n, c)
    BY <1>1, <1>2, <1>6
  <2> QED BY <2>1, Basics DEF Sent, Pulled
<1>7. ASSUME NEW c \in Requests, NEW m \in 1..EcK, NEW j \in Jobs PROVE ListInv(c, m, j)
  <2>1. redis[Key(c, m, j)] = <<>>
    <3>1. Key(c, m, j) \in Lists
      BY <1>3, KeyFacts
    <3> QED BY <1>1, <3>1
  <2>2. Sent(chain[c][m], c, j) = 0
    BY <1>3, <1>6, ChainFacts
  <2>3. Taken(c, m, j) = 0
    <3>1. CASE m = EcK
      <4>1. c \in Clients => Cnt(Len(contents[c]), j) = 0
        <5>1. c \in Clients => Len(contents[c]) = 0
          BY <1>1
        <5>2. Cnt(0, j) = 0
          BY CntFacts
        <5> QED BY <5>1, <5>2
      <4> QED BY <3>1, <4>1 DEF Taken
    <3>2. CASE m # EcK
      <4>1. m + 1 \in 1..EcK
        BY <3>2, Basics
      <4>2. Pulled(chain[c][m + 1], c, j) = 0
        BY <1>3, <1>6, <4>1, ChainFacts
      <4> QED BY <3>2, <4>2 DEF Taken
    <3> QED BY <3>1, <3>2
  <2> QED BY <2>1, <2>2, <2>3 DEF ListInv, Run
<1>8. ASSUME NEW c \in Clients PROVE ClientInv(c)
  <2>1. /\ contents[c] = <<>> /\ processed[c] = 0 /\ out[c] = <<>>
        /\ \A j \in Jobs : relayed[c][j] = <<>> /\ passive[c][j] = <<>>
    BY <1>1
  <2>2. \A j \in Jobs : Cnt(0, j) = 0
    BY CntFacts
  <2>3. 1 \in Jobs
    BY Basics
  <2>4. PICK x : x = <<>>
    OBVIOUS
  <2>5. Len(x) = 0 /\ 1..0 = {} /\ 0 <= 0 /\ 0 + 0 = 0
    BY <2>4
  <2>6. \A m, j, q : Run(x, c, m, j, q)
    BY <2>5 DEF Run
  <2>7. /\ contents[c] = x /\ processed[c] = 0 /\ out[c] = x
        /\ \A j \in Jobs : relayed[c][j] = x /\ passive[c][j] = x
    BY <2>1, <2>4
  <2> QED BY <2>2, <2>3, <2>5, <2>6, <2>7 DEF ClientInv
<1> QED BY <1>3, <1>4, <1>5, <1>7, <1>8 DEF MulInv

-----------------------------------------------------------------------------
(* The theorems. *)

LEMMA NextInv ==
    ASSUME MulInv, [Next]_vars PROVE MulInv'
<1>1. ASSUME NEW n \in Nodes, Reader(n) PROVE MulInv'
  BY <1>1, ReadMulWorkerInv, ReadCopyInv, ReadMultiplyInv DEF Reader
<1>2. ASSUME NEW n \in Nodes, Main(n) PROVE MulInv'
  BY <1>2, TakeCmdInv, PullInv, FinishInv DEF Main
<1>3. ASSUME NEW n \in Nodes, SendMulWorker(n) PROVE MulInv'
  BY <1>3, SendInv
<1>4. ASSUME NEW c \in Clients, Client(c) PROVE MulInv'
  BY <1>4, CollectorInv, ForwardInv DEF Client, StreamNext
<1>5. ASSUME NEW c \in Clients, NEW j \in Jobs, PassiveReceiver(c, j) PROVE MulInv'
  BY <1>5, PassiveInv
<1>6. ASSUME UNCHANGED vars PROVE MulInv'
  <2>1. /\ redis' = redis /\ fetch' = fetch /\ UNCHANGED clientVars /\ UNCHANGED mulVars
        /\ passive' = passive
    BY <1>6 DEF vars
  <2>2. /\ contents' = contents /\ processed' = processed /\ out' = out /\ relayed' = relayed
        /\ warm' = warm /\ chain' = chain /\ cmds' = cmds /\ cur' = cur
        /\ flag' = flag /\ jobs' = jobs /\ rd' = rd /\ pu' = pu /\ se' = se /\ copied' = copied
        /\ toSend' = toSend /\ mulPkt' = mulPkt
    BY <2>1 DEF clientVars, mulVars
  <2>3. Typed'
    BY <2>1, <2>2 DEF MulInv, Typed, LostList
  <2>4. \A n \in Nodes : CmdsInv(n)' /\ NodeInv(n)'
    BY <2>1, <2>2, OthersSame
  <2>5. \A n \in Nodes, c \in Requests, j \in Jobs :
          Sent(n, c, j)' = Sent(n, c, j) /\ Pulled(n, c, j)' = Pulled(n, c, j)
    BY <2>2, ClientCounts
  <2>6. \A c \in Requests, m \in 1..EcK, j \in Jobs : ListInv(c, m, j)'
    BY <2>1, <2>2, <2>5, ListsUntouched
  <2>7. \A c \in Clients : ClientInv(c)'
    BY <2>1, <2>2, ClientSame
  <2> QED BY <2>3, <2>4, <2>6, <2>7 DEF MulInv
<1> QED BY <1>1, <1>2, <1>3, <1>4, <1>5, <1>6 DEF Next

\* Helpers, lists, clients and passive receivers keep the packets of every request in
\* order and say how far each of them is, and a packet that has been counted is what
\* the helpers up to there make of it (PipeMulDRWorker::doProcess and its threads,
\* ECPipeInputStream, DRWorker::passiveReceiver).
THEOREM MulInductive == Spec => []MulInv
<1>1. Init => MulInv
  BY InitInv
<1>2. MulInv /\ [Next]_vars => MulInv'
  BY NextInv
<1> QED BY <1>1, <1>2, PTL DEF Spec

\* What the invariant says of the packets that have arrived.
LEMMA InvSpoil ==
    ASSUME MulInv PROVE OnlyReusedHelpersSpoil
<1>1. ASSUME NEW c \in Clients, \A i \in 1..EcK : ~Reused(c, i) PROVE Correct(c)
  <2>1. ClientInv(c) /\ Fresh(c, 1, EcK)
    BY <1>1 DEF MulInv, Fresh
  <2>2. ASSUME NEW s, NEW j, Run(s, c, EcK, j, 0)
        PROVE  \A k \in 1..Len(s) : s[k] = Repaired(c, j, k - 1)
    <3>1. ASSUME NEW k \in 1..Len(s) PROVE s[k] = Repaired(c, j, k - 1)
      <4>1. 0 + k - 1 = k - 1
        OBVIOUS
      <4>2. Good(c, EcK, j, k - 1, s[k])
        BY <2>2, <4>1 DEF Run
      <4> QED BY <2>1, <4>2 DEF Good, Repaired
    <3> QED BY <3>1
  <2>3. ASSUME NEW j \in Jobs PROVE Run(Delivered(c, j), c, EcK, j, 0)
    <3>1. CASE j = 1
      BY <2>1, <3>1 DEF ClientInv, Delivered
    <3>2. CASE j # 1
      BY <2>1, <3>2 DEF ClientInv, Delivered
    <3> QED BY <3>1, <3>2
  <2> QED BY <2>2, <2>3 DEF Correct
<1>2. ASSUME NEW c \in Clients, NEW j \in Jobs, NEW k \in 1..Len(Pushed(c, j)),
             NEW i \in 1..EcK, \A m \in i..EcK : ~Reused(c, m)
      PROVE  Term(chain[c][i], c, j, k - 1) \in Pushed(c, j)[k]
  <2>1. Typed /\ ClientInv(c) /\ c \in Requests /\ Fresh(c, i, EcK)
    BY <1>2, Basics DEF MulInv, Fresh
  <2>2. PICK s, l, t : /\ s = contents[c] /\ l = redis[LostList(chain[c][EcK], c, j)]
                       /\ t = Cnt(Len(s), j)
    OBVIOUS
  <2>3. s \in Seq(Packets) /\ Len(s) \in Nat /\ t \in Nat
    <3>1. s \in Seq(Packets) /\ Len(s) \in Nat
      BY <2>1, <2>2 DEF Typed
    <3> QED BY <2>2, <3>1, CntFacts
  <2>4. l \in Seq(Packets) /\ Run(l, c, EcK, j, t)
    <3>1. ListInv(c, EcK, j)
      BY <2>1, Basics DEF MulInv
    <3>2. Taken(c, EcK, j) = t /\ redis[Key(c, EcK, j)] = l
      BY <2>2 DEF Taken, Key
    <3>3. redis[Key(c, EcK, j)] \in Seq(Packets)
      BY <2>1, Basics, KeyFacts
    <3> QED BY <3>1, <3>2, <3>3 DEF ListInv
  <2>5. Cardinality({m \in DOMAIN contents[c] : JobAt(m - 1) = j}) = t
    <3>1. DOMAIN s = 1..Len(s)
      BY <2>3
    <3> QED BY <2>2, <2>3, <3>1, JobSteps
  <2>6. PICK f : f = [x \in 1..t |-> s[(x - 1) * Nj + j]]
    OBVIOUS
  <2>7. \A x \in 1..t : Good(c, EcK, j, x - 1, f[x]) /\ f[x] \in Packets
    <3>1. ASSUME NEW x \in 1..t PROVE Good(c, EcK, j, x - 1, f[x]) /\ f[x] \in Packets
      <4>1. PICK y : y = (x - 1) * Nj + j
        OBVIOUS
      <4>2. y \in 1..Len(s) /\ JobAt(y - 1) = j /\ PktAt(y - 1) = x - 1
        <5>1. PICK z \in Nat : z = Len(s)
          BY <2>3
        <5>2. x \in 1..Cnt(z, j)
          BY <2>2, <5>1
        <5>3. /\ (x - 1) * Nj + j \in 1..z
              /\ JobAt((x - 1) * Nj + j - 1) = j /\ PktAt((x - 1) * Nj + j - 1) = x - 1
          BY ONLY z \in Nat, j \in Jobs, <5>2, JobStep
        <5>4. (x - 1) * Nj + j - 1 = y - 1
          <6>1. x \in Int /\ Nj \in Int /\ j \in Int
            BY <2>3, Basics
          <6>2. PICK a \in Int : a = (x - 1) * Nj
            BY <6>1
          <6> QED BY <4>1, <6>1, <6>2
        <5>5. y \in 1..Len(s)
          BY <4>1, <5>1, <5>3
        <5> QED BY ONLY <5>3, <5>4, <5>5, Zenon
      <4>3. Good(c, EcK, JobAt(y - 1), PktAt(y - 1), s[y])
        BY <2>1, <2>2, <4>2 DEF ClientInv
      <4>4. s[y] \in Packets
        BY <2>3, <4>2, ElementOfSeq
      <4> QED BY <2>6, <4>1, <4>2, <4>3, <4>4
    <3> QED BY <3>1
  <2>8. f \in Seq(Packets) /\ Len(f) = t
    <3>1. f = [x \in 1..t |-> f[x]]
      BY <2>6
    <3> QED BY <2>3, <2>7, <3>1
  <2>9. Pushed(c, j) = f \o l
    BY <2>2, <2>5, <2>6 DEF Pushed
  <2>10. PICK b : b = f \o l
    OBVIOUS
  <2>11. k \in 1..Len(b) /\ Len(b) = t + Len(l) /\ Len(l) \in Nat
         /\ b[k] = IF k <= t THEN f[k] ELSE l[k - t]
    <3>1. k \in 1..Len(b)
      BY <2>9, <2>10
    <3>2. Len(b) = t + Len(l) /\ Len(l) \in Nat
      <4>1. \A v \in Seq(Packets), w \in Seq(Packets) :
              Len(v \o w) = Len(v) + Len(w) /\ Len(w) \in Nat
        OBVIOUS
      <4> QED BY <2>4, <2>8, <2>10, <4>1
    <3>3. \A v \in Seq(Packets), w \in Seq(Packets) : \A x \in 1..(Len(v) + Len(w)) :
            (v \o w)[x] = IF x <= Len(v) THEN v[x] ELSE w[x - Len(v)]
      OBVIOUS
    <3> QED BY <2>4, <2>8, <2>10, <3>1, <3>2, <3>3
  <2>12. Good(c, EcK, j, k - 1, b[k])
    <3>1. CASE k <= t
      BY <2>3, <2>7, <2>11, <3>1
    <3>2. CASE ~(k <= t)
      <4>1. k - t \in 1..Len(l) /\ t + (k - t) - 1 = k - 1
        BY <2>3, <2>11, <3>2
      <4>2. Good(c, EcK, j, t + (k - t) - 1, l[k - t])
        BY <2>4, <4>1 DEF Run
      <4> QED BY <2>11, <3>2, <4>1, <4>2
    <3> QED BY <3>1, <3>2
  <2>13. Term(chain[c][i], c, j, k - 1) \in b[k]
    BY <2>1, <2>12 DEF Good
  <2> QED BY <2>9, <2>10, <2>13
<1> QED BY <1>1, <1>2 DEF OnlyReusedHelpersSpoil

\* Every lost block of a request arrives as the sum of all helpers' packets as long as
\* its helpers serve their first request; otherwise the terms of the helpers after the
\* last one that served before are all there (PipeMulDRWorker.cc, which does not
\* call cleanup() between requests).
THEOREM OnlyReusedSpoil == Spec => []OnlyReusedHelpersSpoil
<1>1. MulInv => OnlyReusedHelpersSpoil
  BY InvSpoil
<1> QED BY <1>1, MulInductive, PTL
=============================================================================
