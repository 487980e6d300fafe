------------------------- MODULE PipeDRWorkerProofs -------------------------
(***************************************************************************)
(* What repair pipelining delivers, for any number of requests, nodes,     *)
(* helpers in a chain and packets in a block: the packets of a block reach *)
(* the file of the client in their order, each with the terms of all       *)
(* helpers and of nothing else.                                            *)
(*                                                                         *)
(* A helper serves one command after the other, and the lists between two  *)
(* helpers outlive the commands: when the first has finished a request and *)
(* begun the next one for the same block, the list tmp:<lost> may hold the *)
(* end of one pass and the beginning of the other.  The packets in it are  *)
(* therefore consecutive MODULO the number of packets in a block, from the *)
(* one its reader pulls next to the one its writer sent last (Between).    *)
(* This needs nothing about the order of the commands: a writer that       *)
(* starts again sends packet 0, and so does a reader that starts again     *)
(* pull packet 0.  Within a helper, the flag of a packet says that the     *)
(* reader is past it, and the counter of the sender that it was pulled     *)
(* (Threads); before that it holds the local term, after it the sum of the *)
(* chain up to here (Buffers).                                             *)
(***************************************************************************)
EXTENDS PipeDRWorker, DataInduction

\* Packets are sums of terms.
Packets == SUBSET (Nodes \X Pkts)

\* Packet p as helper i of request c, counted from 1, passes it on.
Partial(c, i, p) == {<<chain[c][j], p>> : j \in 1..i}

\* The requests for the block of c go through the same chain.
Shared(c) == \A d \in Requests : lost[d] = lost[c] => chain[d] = chain[c]

\* The types of the variables the argument needs.
Typed ==
  /\ chain \in [Requests -> Chains] /\ lost \in [Requests -> LostBlocks]
  /\ cmds \in [Nodes -> Seq(Requests)] /\ cur \in [Nodes -> Requests \cup {0}]
  /\ redis \in [Lists -> Seq(Packets)]
  /\ fetch = [c \in Clients |-> [j \in Jobs |-> LostList(chain[c][EcK], lost[c])]]
  /\ pkt \in [Nodes -> [Pkts -> Packets]] /\ flag \in [Nodes -> [Pkts -> BOOLEAN]]
  /\ toSend \in [Nodes -> Nat] /\ rd \in [Nodes -> Nat]
  /\ pu \in [Nodes -> Nat] /\ se \in [Nodes -> Nat]
  /\ contents \in [Clients -> Seq(Packets)] /\ out \in [Clients -> Seq(Packets)]
  /\ processed \in [Clients -> Nat]

\* A node gets the commands of the requests it helps in.
CmdsInv ==
  \A n \in Nodes :
    \A c \in Requests :
      cur[n] = c \/ (\E i \in 1..Len(cmds[n]) : cmds[n][i] = c) => n \in Helpers(c)

\* The three threads of a helper: the sender behind the main thread behind the
\* reader; the flags say how far the reader is; cleanup has lowered them.
Threads(n) ==
  IF cur[n] = 0 THEN \A p \in Pkts : ~flag[n][p]
  ELSE /\ se[n] <= toSend[n] /\ toSend[n] = pu[n] /\ pu[n] <= rd[n] /\ rd[n] <= PktCnt
       /\ \A p \in Pkts : flag[n][p] <=> p < rd[n]

\* What the packets hold: the local term when read, the partial sum when pulled.
Buffers(n) ==
  \A c \in Requests : cur[n] = c =>
    /\ \A p \in Pkts : pu[n] <= p /\ p < rd[n] => pkt[n][p] = Term(n, p)
    /\ Shared(c) => \A p \in Pkts : p < pu[n] => pkt[n][p] = Partial(c, Id(c, n) + 1, p)

\* How many packets of block b node n has sent, and pulled, in its command.
Sent(n, b) == IF cur[n] # 0 /\ lost[cur[n]] = b THEN se[n] ELSE 0
Pulled(n, b) == IF cur[n] # 0 /\ lost[cur[n]] = b THEN pu[n] ELSE 0

\* A list holds the packets helper i of c passes on, one after the other from
\* packet q on, and after the last packet of a block the first again.
Cyclic(s, c, i, q) == \A k \in 1..Len(s) : s[k] = Partial(c, i, (q + k - 1) % PktCnt)

\* A list between what its reader has taken (q) and its writer has sent (t).
Between(s, c, i, q, t) ==
  Cyclic(s, c, i, q) /\ (q + Len(s)) % PktCnt = t % PktCnt

\* The lists between two helpers.
TmpInv ==
  \A c \in Requests : Shared(c) =>
    \A i \in 1..(EcK - 1) :
      Between(redis[TmpList(chain[c][i], lost[c])], c, i,
              Pulled(chain[c][i + 1], lost[c]), Sent(chain[c][i], lost[c]))

\* The list of the repaired packets of c.
Result(c) == LostList(chain[c][EcK], lost[c])

\* Every packet of s is one of the repaired block.
Whole(s, c) == \A k \in 1..Len(s) : \E p \in Pkts : s[k] = Repaired(c, p)

\* The lists the clients take from.
LostInv ==
  /\ \A c \in Requests : Shared(c) => Whole(redis[Result(c)], c)
  /\ \A c \in Clients : Alone(c) =>
       Between(redis[Result(c)], c, EcK, Len(contents[c]), Sent(chain[c][EcK], lost[c]))

\* What a client has taken, and written.
ClientInv ==
  \A c \in Clients :
    /\ Len(out[c]) = processed[c] /\ processed[c] <= Len(contents[c])
    /\ Len(contents[c]) <= PktCnt
    /\ \A k \in 1..Len(out[c]) : out[c][k] = contents[c][k]
    /\ Alone(c) => \A k \in 1..Len(contents[c]) : contents[c][k] = Repaired(c, k - 1)
    /\ Shared(c) => Whole(contents[c], c)

\* The inductive invariant.
PipeInv ==
  /\ Typed /\ CmdsInv /\ (\A n \in Nodes : Threads(n) /\ Buffers(n))
  /\ TmpInv /\ LostInv /\ ClientInv

-----------------------------------------------------------------------------
\* The packet numbers within a block.
LEMMA ModSmall == ASSUME NEW a \in Nat, a < PktCnt PROVE a % PktCnt = a
<1>1. PktCnt \in Nat \ {0}
  BY StreamAssumption
<1> QED BY <1>1

\* A whole block further is the same packet number.
LEMMA ModFull == ASSUME NEW a \in Nat PROVE (PktCnt + a) % PktCnt = a % PktCnt
<1> DEFINE P == PktCnt
           q == a \div P
<1>1. P \in Nat \ {0}
  BY StreamAssumption
<1>2. a % P \in 0..(P - 1) /\ q \in Nat /\ a = P * q + (a % P)
  BY <1>1
<1>3. P + a = P * (q + 1) + (a % P)
  BY <1>1, <1>2
<1>4. \A r \in 0..(P - 1), k \in Nat : (P * k + r) % P = r
  BY <1>1
<1>5. (P * (q + 1) + (a % P)) % P = a % P
  BY <1>2, <1>4
<1> QED BY <1>3, <1>5

\* Counters that agree modulo the block do so after the next packet.
LEMMA ModNext ==
    ASSUME NEW a \in Nat, NEW b \in Nat, a % PktCnt = b % PktCnt
    PROVE  (a + 1) % PktCnt = (b + 1) % PktCnt
<1> DEFINE P == PktCnt
           r == a % P
<1>1. P \in Nat \ {0}
  BY StreamAssumption
<1>2. r \in 0..(P - 1) /\ (a \div P) \in Nat /\ (b \div P) \in Nat
      /\ a = P * (a \div P) + r /\ b = P * (b \div P) + (b % P)
  BY <1>1
<1>3. b = P * (b \div P) + r
  BY <1>1, <1>2
<1>4. PICK i \in Nat, j \in Nat : a = P * i + r /\ b = P * j + r
  BY <1>2, <1>3
<1>5. \A s \in 0..(P - 1), k \in Nat : (P * k + s) % P = s
  BY <1>1
<1> HIDE DEF P, r
<1>6. CASE r + 1 < P
  <2>1. a + 1 = P * i + (r + 1) /\ b + 1 = P * j + (r + 1) /\ r + 1 \in 0..(P - 1)
    BY <1>1, <1>2, <1>4, <1>6
  <2>2. (P * i + (r + 1)) % P = r + 1 /\ (P * j + (r + 1)) % P = r + 1
    BY <1>5, <2>1
  <2> QED BY <2>1, <2>2 DEF P
<1>7. CASE r + 1 = P
  <2>1. a + 1 = P * (i + 1) + 0 /\ b + 1 = P * (j + 1) + 0 /\ 0 \in 0..(P - 1)
    BY <1>1, <1>2, <1>4, <1>7
  <2>2. (P * (i + 1) + 0) % P = 0 /\ (P * (j + 1) + 0) % P = 0
    BY <1>5, <2>1
  <2> QED BY <2>1, <2>2 DEF P
<1> QED BY <1>1, <1>2, <1>6, <1>7

\* [_id] is the place of the helper in the chain.
LEMMA IdFacts ==
    ASSUME Typed, NEW c \in Requests, NEW n \in Helpers(c)
    PROVE  /\ n \in Nodes /\ Id(c, n) \in 0..(EcK - 1) /\ chain[c][Id(c, n) + 1] = n
           /\ \A i \in 1..EcK : chain[c][i] = n => Id(c, n) = i - 1
<1>1. chain[c] \in Chains /\ EcK \in Nat \ {0}
  BY PipeAssumption DEF Typed
<1>2. PICK i \in 1..EcK : chain[c][i] = n
  BY DEF Helpers
<1>3. PICK k : k = CHOOSE j \in 1..EcK : chain[c][j] = n
  OBVIOUS
<1>4. k \in 1..EcK /\ chain[c][k] = n
  BY <1>2, <1>3
<1>5. Id(c, n) = k - 1
  BY <1>3 DEF Id
<1>6. \A j \in 1..EcK : chain[c][j] = n => j = k
  BY <1>1, <1>4 DEF Chains
<1>7. n \in Nodes
  BY <1>1, <1>2 DEF Chains
<1> QED BY <1>1, <1>4, <1>5, <1>6, <1>7

\* The chains and the lost blocks never change, nor does what depends on them
\* alone.
LEMMA Fixed ==
    ASSUME UNCHANGED <<chain, lost>>
    PROVE  /\ \A c, i, p : Partial(c, i, p)' = Partial(c, i, p)
           /\ \A c, p : Repaired(c, p)' = Repaired(c, p)
           /\ \A c : Shared(c)' = Shared(c) /\ Alone(c)' = Alone(c)
           /\ \A c : Helpers(c)' = Helpers(c) /\ Result(c)' = Result(c)
           /\ \A c, n : Id(c, n)' = Id(c, n)
           /\ \A s, c, i, q, t : Between(s, c, i, q, t)' = Between(s, c, i, q, t)
           /\ \A s, c : Whole(s, c)' = Whole(s, c)
<1>1. chain' = chain /\ lost' = lost
  OBVIOUS
<1>2. /\ \A c, i, p : Partial(c, i, p)' = Partial(c, i, p)
      /\ \A c, p : Repaired(c, p)' = Repaired(c, p)
  BY <1>1 DEF Partial, Repaired
<1>3. /\ \A c : Shared(c)' = Shared(c) /\ Alone(c)' = Alone(c)
      /\ \A c : Helpers(c)' = Helpers(c) /\ Result(c)' = Result(c)
      /\ \A c, n : Id(c, n)' = Id(c, n)
  BY <1>1 DEF Shared, Alone, Helpers, Result, LostList, Id
<1>4. /\ \A s, c, i, q, t : Between(s, c, i, q, t)' = Between(s, c, i, q, t)
      /\ \A s, c : Whole(s, c)' = Whole(s, c)
  BY <1>2 DEF Between, Cyclic, Whole
<1> QED BY <1>2, <1>3, <1>4

\* What the reader of a list takes, and leaves.
LEMMA BetweenPop ==
    ASSUME NEW s \in Seq(Packets), NEW c, NEW i, NEW q \in Nat, NEW t,
           Between(s, c, i, q, t), s # <<>>
    PROVE  Head(s) = Partial(c, i, q % PktCnt) /\ Between(Tail(s), c, i, q + 1, t)
<1>1. Len(s) \in Nat \ {0} /\ Head(s) = s[1] /\ Len(Tail(s)) = Len(s) - 1
      /\ \A k \in 1..(Len(s) - 1) : Tail(s)[k] = s[k + 1]
  OBVIOUS
<1>2. /\ \A k \in 1..Len(s) : s[k] = Partial(c, i, (q + k - 1) % PktCnt)
      /\ (q + Len(s)) % PktCnt = t % PktCnt
  BY DEF Between, Cyclic
<1>3. s[1] = Partial(c, i, q % PktCnt)
  <2>1. q + 1 - 1 = q /\ 1 \in 1..Len(s)
    BY <1>1
  <2> QED BY <1>2, <2>1
<1>4. ASSUME NEW k \in 1..Len(Tail(s))
      PROVE  Tail(s)[k] = Partial(c, i, ((q + 1) + k - 1) % PktCnt)
  <2>1. k + 1 \in 1..Len(s) /\ q + (k + 1) - 1 = (q + 1) + k - 1 /\ k \in 1..(Len(s) - 1)
    BY <1>1
  <2>2. s[k + 1] = Partial(c, i, (q + (k + 1) - 1) % PktCnt)
    BY <1>2, <2>1
  <2> QED BY <1>1, <2>1, <2>2
<1>5. (q + 1) + Len(Tail(s)) = q + Len(s)
  BY <1>1
<1> QED BY <1>1, <1>2, <1>3, <1>4, <1>5 DEF Between, Cyclic

\* What the writer of a list adds.
LEMMA BetweenPush ==
    ASSUME NEW s \in Seq(Packets), NEW c, NEW i, NEW q \in Nat, NEW t \in Nat,
           Between(s, c, i, q, t), NEW v \in Packets, v = Partial(c, i, t % PktCnt)
    PROVE  Between(Append(s, v), c, i, q, t + 1)
<1>1. PICK u : u = Append(s, v)
  OBVIOUS
<1>2. /\ Len(s) \in Nat /\ Len(u) = Len(s) + 1 /\ u[Len(s) + 1] = v
      /\ \A k \in 1..Len(s) : u[k] = s[k]
  BY <1>1
<1>3. /\ \A k \in 1..Len(s) : s[k] = Partial(c, i, (q + k - 1) % PktCnt)
      /\ (q + Len(s)) % PktCnt = t % PktCnt
  BY DEF Between, Cyclic
<1>4. ASSUME NEW k \in 1..Len(u) PROVE u[k] = Partial(c, i, (q + k - 1) % PktCnt)
  <2>1. CASE k \in 1..Len(s)
    BY <1>2, <1>3, <2>1
  <2>2. CASE k = Len(s) + 1
    <3>1. q + k - 1 = q + Len(s) /\ u[k] = v
      BY <1>2, <2>2
    <3> QED BY <1>3, <3>1
  <2> QED BY <1>2, <2>1, <2>2
<1>5. (q + Len(u)) % PktCnt = (t + 1) % PktCnt
  <2>1. q + Len(s) \in Nat /\ q + Len(u) = (q + Len(s)) + 1
    BY <1>2
  <2> QED BY <1>3, <2>1, ModNext
<1> QED BY <1>1, <1>4, <1>5 DEF Between, Cyclic

\* All packets taken, or sent: the next command starts with the first.
LEMMA BetweenWrap ==
    ASSUME NEW s \in Seq(Packets), NEW c, NEW i, NEW q \in Nat, NEW t \in Nat,
           Between(s, c, i, q, t)
    PROVE  /\ q = PktCnt => Between(s, c, i, 0, t)
           /\ t = PktCnt => Between(s, c, i, q, 0)
<1>1. /\ \A k \in 1..Len(s) : s[k] = Partial(c, i, (q + k - 1) % PktCnt)
      /\ (q + Len(s)) % PktCnt = t % PktCnt /\ Len(s) \in Nat
  BY DEF Between, Cyclic
<1>2. ASSUME q = PktCnt PROVE Between(s, c, i, 0, t)
  <2>1. ASSUME NEW k \in 1..Len(s) PROVE s[k] = Partial(c, i, (0 + k - 1) % PktCnt)
    <3>1. k - 1 \in Nat /\ q + k - 1 = PktCnt + (k - 1) /\ 0 + k - 1 = k - 1
      BY <1>2, StreamAssumption
    <3>2. (PktCnt + (k - 1)) % PktCnt = (k - 1) % PktCnt
      BY <3>1, ModFull
    <3> QED BY <1>1, <3>1, <3>2
  <2>2. (0 + Len(s)) % PktCnt = t % PktCnt
    <3>1. 0 + Len(s) = Len(s) /\ (PktCnt + Len(s)) % PktCnt = Len(s) % PktCnt
      BY <1>1, ModFull
    <3> QED BY <1>1, <1>2, <3>1
  <2> QED BY <2>1, <2>2 DEF Between, Cyclic
<1>3. ASSUME t = PktCnt PROVE Between(s, c, i, q, 0)
  <2>1. PktCnt + 0 = PktCnt /\ (PktCnt + 0) % PktCnt = 0 % PktCnt
    BY StreamAssumption, ModFull
  <2> QED BY <1>1, <1>3, <2>1 DEF Between, Cyclic
<1> QED BY <1>2, <1>3

\* The lists of different nodes, blocks and purposes are different lists.
LEMMA ListNames ==
    ASSUME NEW m, NEW b, NEW n, NEW d
    PROVE  /\ TmpList(m, b) = TmpList(n, d) => m = n /\ b = d
           /\ LostList(m, b) = LostList(n, d) => m = n /\ b = d
           /\ TmpList(m, b) # LostList(n, d)
BY DEF TmpList, LostList

\* The lists of a request.
LEMMA ListsOf ==
    ASSUME Typed, NEW c \in Requests
    PROVE  /\ \A i \in 1..EcK : /\ chain[c][i] \in Helpers(c) /\ chain[c][i] \in Nodes
                                /\ TmpList(chain[c][i], lost[c]) \in Lists
                                /\ redis[TmpList(chain[c][i], lost[c])] \in Seq(Packets)
           /\ Result(c) \in Lists /\ redis[Result(c)] \in Seq(Packets)
           /\ \A i, k \in 1..EcK : chain[c][i] = chain[c][k] => i = k
<1>1. chain[c] \in Chains /\ EcK \in Nat \ {0} /\ lost[c] \in LostBlocks
  BY PipeAssumption DEF Typed
<1>2. \A i \in 1..EcK : /\ chain[c][i] \in Helpers(c) /\ chain[c][i] \in Nodes
                        /\ TmpList(chain[c][i], lost[c]) \in Lists
  BY <1>1 DEF Chains, Helpers, Lists
<1>3. Result(c) \in Lists
  BY <1>1, <1>2 DEF Result, Lists
<1>4. \A l \in Lists : redis[l] \in Seq(Packets)
  BY DEF Typed
<1> QED BY <1>1, <1>2, <1>3, <1>4 DEF Chains

\* The lists after a step, by the nodes and the block they are named after.
LEMMA TmpAfter ==
    ASSUME UNCHANGED <<chain, lost>>,
           \A c \in Requests : Shared(c) => \A i \in 1..(EcK - 1) : \A m, k, b :
             m = chain[c][i] /\ k = chain[c][i + 1] /\ b = lost[c] =>
               \E s, q, t : /\ redis'[TmpList(m, b)] = s /\ Pulled(k, b)' = q /\ Sent(m, b)' = t
                           /\ Between(s, c, i, q, t)
    PROVE  TmpInv'
<1>1. SUFFICES ASSUME NEW c \in Requests, Shared(c)', NEW i \in 1..(EcK - 1)
               PROVE  Between(redis[TmpList(chain[c][i], lost[c])], c, i,
                              Pulled(chain[c][i + 1], lost[c]), Sent(chain[c][i], lost[c]))'
  BY DEF TmpInv
<1>2. Shared(c) /\ chain' = chain /\ lost' = lost
  BY <1>1, Fixed
<1>3. PICK m, k, b : m = chain[c][i] /\ k = chain[c][i + 1] /\ b = lost[c]
  OBVIOUS
<1>4. PICK s, q, t : /\ redis'[TmpList(m, b)] = s /\ Pulled(k, b)' = q /\ Sent(m, b)' = t
                     /\ Between(s, c, i, q, t)
  BY <1>1, <1>2, <1>3
<1>5. Between(s, c, i, q, t)'
  BY <1>2, <1>4, Fixed
<1>6. redis[TmpList(chain[c][i], lost[c])]' = s
  BY <1>2, <1>3, <1>4 DEF TmpList
<1>7. Pulled(chain[c][i + 1], lost[c])' = q
  BY <1>2, <1>3, <1>4 DEF Pulled
<1>8. Sent(chain[c][i], lost[c])' = t
  BY <1>2, <1>3, <1>4 DEF Sent
<1> QED BY <1>5, <1>6, <1>7, <1>8 DEF Between, Cyclic

\* The same for the list of the repaired block, which its client alone takes from.
LEMMA AloneAfter ==
    ASSUME UNCHANGED <<chain, lost>>,
           \A c \in Clients : Alone(c) => \A m, b : m = chain[c][EcK] /\ b = lost[c] =>
             \E s, q, t : /\ redis'[LostList(m, b)] = s /\ Len(contents'[c]) = q
                         /\ Sent(m, b)' = t /\ Between(s, c, EcK, q, t)
    PROVE  \A c \in Clients : Alone(c)' =>
             Between(redis[Result(c)], c, EcK, Len(contents[c]), Sent(chain[c][EcK], lost[c]))'
<1>1. SUFFICES ASSUME NEW c \in Clients, Alone(c)'
               PROVE  Between(redis[Result(c)], c, EcK, Len(contents[c]),
                              Sent(chain[c][EcK], lost[c]))'
  OBVIOUS
<1>2. Alone(c) /\ chain' = chain /\ lost' = lost
  BY <1>1, Fixed
<1>3. PICK m, b : m = chain[c][EcK] /\ b = lost[c]
  OBVIOUS
<1>4. PICK s, q, t : /\ redis'[LostList(m, b)] = s /\ Len(contents'[c]) = q
                     /\ Sent(m, b)' = t /\ Between(s, c, EcK, q, t)
  BY <1>1, <1>2, <1>3
<1>5. Between(s, c, EcK, q, t)'
  BY <1>2, <1>4, Fixed
<1>6. redis[Result(c)]' = s
  BY <1>2, <1>3, <1>4 DEF Result, LostList
<1>7. Sent(chain[c][EcK], lost[c])' = t
  BY <1>2, <1>3, <1>4 DEF Sent
<1> QED BY <1>4, <1>5, <1>6, <1>7 DEF Between, Cyclic

\* The lists stay right when nothing is pushed, popped, sent or pulled.
LEMMA ListsSame ==
    ASSUME PipeInv, UNCHANGED <<chain, lost, redis, contents>>,
           \A n \in Nodes : \A b : Sent(n, b)' = Sent(n, b) /\ Pulled(n, b)' = Pulled(n, b)
    PROVE  TmpInv' /\ LostInv'
<1>1. chain' = chain /\ lost' = lost /\ redis' = redis /\ contents' = contents
  OBVIOUS
<1>2. Typed /\ TmpInv /\ LostInv
  BY DEF PipeInv
<1>3. TmpInv'
  <2>1. SUFFICES ASSUME NEW c \in Requests, Shared(c)', NEW i \in 1..(EcK - 1)
                 PROVE  Between(redis[TmpList(chain[c][i], lost[c])], c, i,
                                Pulled(chain[c][i + 1], lost[c]), Sent(chain[c][i], lost[c]))'
    BY DEF TmpInv
  <2>2. Shared(c) /\ i \in 1..EcK /\ i + 1 \in 1..EcK
    BY <2>1, <1>1, Fixed, PipeAssumption
  <2>3. chain[c][i] \in Nodes /\ chain[c][i + 1] \in Nodes
    BY <1>2, <2>2, ListsOf
  <2>4. Between(redis[TmpList(chain[c][i], lost[c])], c, i,
                Pulled(chain[c][i + 1], lost[c]), Sent(chain[c][i], lost[c]))
    BY <1>2, <2>1, <2>2 DEF TmpInv
  <2>5. /\ Pulled(chain[c][i + 1], lost[c])' = Pulled(chain[c][i + 1], lost[c])
        /\ Sent(chain[c][i], lost[c])' = Sent(chain[c][i], lost[c])
    <3>1. Pulled(chain[c][i + 1], lost[c])' = Pulled(chain[c][i + 1], lost[c])
      BY <1>1, <2>3 DEF Pulled
    <3>2. Sent(chain[c][i], lost[c])' = Sent(chain[c][i], lost[c])
      BY <1>1, <2>3 DEF Sent
    <3> QED BY <3>1, <3>2
  <2> QED BY <1>1, <2>4, <2>5, Fixed DEF TmpList, Between, Cyclic
<1>4. LostInv'
  <2>1. \A c \in Clients : c \in Requests
    BY PipeAssumption
  <2>2. \A c \in Requests : chain[c][EcK] \in Nodes
    BY <1>2, ListsOf, PipeAssumption
  <2>3. \A c \in Requests : Sent(chain[c][EcK], lost[c])' = Sent(chain[c][EcK], lost[c])
    BY <1>1, <2>2 DEF Sent
  <2> QED BY <1>1, <1>2, <2>1, <2>3, Fixed DEF LostInv
<1> QED BY <1>3, <1>4

\* The clients are not concerned.
LEMMA ClientsSame ==
    ASSUME PipeInv, UNCHANGED <<chain, lost, contents, processed, out>>
    PROVE  ClientInv'
<1>1. /\ contents' = contents /\ processed' = processed /\ out' = out
      /\ UNCHANGED <<chain, lost>>
  OBVIOUS
<1> QED BY <1>1, Fixed DEF PipeInv, ClientInv

\* doProcess takes a command: all counters start again.
LEMMA TakeCmdInv == ASSUME PipeInv, NEW n \in Nodes, TakeCmd(n) PROVE PipeInv'
<1>1. Typed /\ CmdsInv /\ \A m \in Nodes : Threads(m) /\ Buffers(m)
  BY DEF PipeInv
<1>2. PICK d : d = Head(cmds[n])
  OBVIOUS
<1>3. /\ cur[n] = 0 /\ cmds[n] # <<>> /\ cmds[n] \in Seq(Requests)
      /\ cur' = [cur EXCEPT ![n] = d] /\ cmds' = [cmds EXCEPT ![n] = Tail(cmds[n])]
      /\ toSend' = [toSend EXCEPT ![n] = 0] /\ rd' = [rd EXCEPT ![n] = 0]
      /\ pu' = [pu EXCEPT ![n] = 0] /\ se' = [se EXCEPT ![n] = 0]
      /\ chain' = chain /\ lost' = lost /\ redis' = redis /\ fetch' = fetch
      /\ contents' = contents /\ out' = out /\ processed' = processed
      /\ pkt' = pkt /\ flag' = flag
  BY <1>1, <1>2 DEF TakeCmd, Typed, clientVars
<1>4. d \in Requests /\ n \in Helpers(d) /\ Tail(cmds[n]) \in Seq(Requests)
      /\ \A i \in 1..Len(Tail(cmds[n])) :
           Tail(cmds[n])[i] = cmds[n][i + 1] /\ i + 1 \in 1..Len(cmds[n])
  <2>1. d = cmds[n][1] /\ 1 \in 1..Len(cmds[n])
    BY <1>2, <1>3
  <2> QED BY <1>1, <1>3, <2>1 DEF CmdsInv
<1>5. Typed'
  BY <1>1, <1>3, <1>4 DEF Typed
<1>6. CmdsInv'
  <2>1. \A c : Helpers(c)' = Helpers(c)
    BY <1>3, Fixed
  <2>2. \A m \in Nodes : m # n => cur'[m] = cur[m] /\ cmds'[m] = cmds[m]
    BY <1>3, <1>1 DEF Typed
  <2>3. cur'[n] = d /\ cmds'[n] = Tail(cmds[n])
    BY <1>3, <1>1 DEF Typed
  <2>4. \A c \in Requests : (\E i \in 1..Len(Tail(cmds[n])) : Tail(cmds[n])[i] = c) =>
                             n \in Helpers(c)
    BY <1>1, <1>4 DEF CmdsInv
  <2>5. \A c \in Requests : cur'[n] = c \/ (\E i \in 1..Len(cmds'[n]) : cmds'[n][i] = c) =>
                             n \in Helpers(c)
    <3> HIDE DEF CmdsInv, Helpers
    <3> QED BY <1>4, <2>3, <2>4
  <2>6. \A m \in Nodes : m # n =>
          \A c \in Requests : cur'[m] = c \/ (\E i \in 1..Len(cmds'[m]) : cmds'[m][i] = c) =>
                                m \in Helpers(c)
    BY <1>1, <2>2 DEF CmdsInv
  <2>7. \A m \in Nodes : \A c \in Requests :
          cur'[m] = c \/ (\E i \in 1..Len(cmds'[m]) : cmds'[m][i] = c) => m \in Helpers(c)
    BY <2>5, <2>6
  <2> QED BY <2>1, <2>7, Zenon DEF CmdsInv
<1>7. \A m \in Nodes : Threads(m)' /\ Buffers(m)'
  <2>1. SUFFICES ASSUME NEW m \in Nodes PROVE Threads(m)' /\ Buffers(m)'
    OBVIOUS
  <2>2. CASE m = n
    <3>1. cur'[n] = d /\ d # 0 /\ toSend'[n] = 0 /\ rd'[n] = 0 /\ pu'[n] = 0 /\ se'[n] = 0
      BY <1>1, <1>3, <1>4 DEF Typed, Requests
    <3>2. \A p \in Pkts : ~flag[n][p] /\ p \in Nat
      BY <1>1, <1>3, StreamAssumption DEF Threads, Pkts
    <3> QED BY <1>3, <2>2, <3>1, <3>2, StreamAssumption DEF Threads, Buffers
  <2>3. CASE m # n
    <3>1. /\ cur'[m] = cur[m] /\ toSend'[m] = toSend[m] /\ rd'[m] = rd[m] /\ pu'[m] = pu[m]
          /\ se'[m] = se[m]
      BY <1>1, <1>3, <2>3 DEF Typed
    <3> QED BY <1>1, <1>3, <3>1, Fixed DEF Threads, Buffers
  <2> QED BY <2>2, <2>3
<1>8. \A m \in Nodes : \A b : Sent(m, b)' = Sent(m, b) /\ Pulled(m, b)' = Pulled(m, b)
  BY <1>1, <1>3 DEF Sent, Pulled, Typed
<1> QED BY <1>3, <1>5, <1>6, <1>7, <1>8, ListsSame, ClientsSame DEF PipeInv

\* The state of the other helpers in a step of helper n.
LEMMA OthersSame ==
    ASSUME PipeInv, UNCHANGED <<chain, lost>>, NEW m \in Nodes,
           cur'[m] = cur[m], toSend'[m] = toSend[m], rd'[m] = rd[m], pu'[m] = pu[m],
           se'[m] = se[m], pkt'[m] = pkt[m], flag'[m] = flag[m]
    PROVE  Threads(m)' /\ Buffers(m)'
<1>1. Threads(m) /\ Buffers(m)
  BY DEF PipeInv
<1>2. Threads(m)'
  BY <1>1 DEF Threads
<1>3. Buffers(m)'
  BY <1>1, Fixed DEF Buffers, Term
<1> QED BY <1>2, <1>3

\* The commands in a step that takes none.
LEMMA CmdsSame ==
    ASSUME PipeInv, UNCHANGED <<chain, lost, cmds>>,
           \A n \in Nodes : cur'[n] = cur[n] \/ cur'[n] = 0
    PROVE  CmdsInv'
<1>1. cmds' = cmds /\ (\A c : Helpers(c)' = Helpers(c)) /\ CmdsInv
  BY Fixed DEF PipeInv
<1>2. \A c \in Requests : c # 0
  BY DEF Requests
<1> QED BY <1>1, <1>2 DEF CmdsInv

\* readWorker: a packet read, its flag up.
LEMMA ReadWorkerInv == ASSUME PipeInv, NEW n \in Nodes, ReadWorker(n) PROVE PipeInv'
<1>1. Typed /\ CmdsInv /\ \A m \in Nodes : Threads(m) /\ Buffers(m)
  BY DEF PipeInv
<1>2. PICK i : i = rd[n]
  OBVIOUS
<1>3. /\ cur[n] # 0 /\ i < PktCnt /\ i \in Nat
      /\ pkt' = [pkt EXCEPT ![n][i] = Term(n, i)] /\ flag' = [flag EXCEPT ![n][i] = TRUE]
      /\ rd' = [rd EXCEPT ![n] = i + 1]
      /\ chain' = chain /\ lost' = lost /\ redis' = redis /\ fetch' = fetch
      /\ contents' = contents /\ out' = out /\ processed' = processed
      /\ cmds' = cmds /\ cur' = cur /\ toSend' = toSend /\ pu' = pu /\ se' = se
  BY <1>1, <1>2 DEF ReadWorker, Busy, Typed, clientVars
<1>4. i \in Pkts /\ Term(n, i) \in Packets
  BY <1>3, StreamAssumption DEF Pkts, Term, Packets
<1>5. /\ rd'[n] = i + 1 /\ pkt'[n] = [pkt[n] EXCEPT ![i] = Term(n, i)]
      /\ flag'[n] = [flag[n] EXCEPT ![i] = TRUE]
      /\ pkt[n] \in [Pkts -> Packets] /\ flag[n] \in [Pkts -> BOOLEAN]
      /\ \A m \in Nodes : m # n => rd'[m] = rd[m] /\ pkt'[m] = pkt[m] /\ flag'[m] = flag[m]
  BY <1>1, <1>3 DEF Typed
<1>6. Typed'
  <2>1. pkt' \in [Nodes -> [Pkts -> Packets]] /\ flag' \in [Nodes -> [Pkts -> BOOLEAN]]
    BY <1>1, <1>3, <1>4 DEF Typed
  <2>2. rd' \in [Nodes -> Nat]
    BY <1>1, <1>3 DEF Typed
  <2> QED BY <1>1, <1>3, <2>1, <2>2 DEF Typed
<1>7. CmdsInv'
  BY <1>3, CmdsSame
<1>8. \A m \in Nodes : Threads(m)' /\ Buffers(m)'
  <2>1. SUFFICES ASSUME NEW m \in Nodes PROVE Threads(m)' /\ Buffers(m)'
    OBVIOUS
  <2>2. CASE m # n
    BY <1>3, <1>5, <2>2, OthersSame
  <2>3. CASE m = n
    <3>1. /\ se[n] <= toSend[n] /\ toSend[n] = pu[n] /\ pu[n] <= rd[n] /\ rd[n] <= PktCnt
          /\ \A p \in Pkts : flag[n][p] <=> p < rd[n]
          /\ se[n] \in Nat /\ pu[n] \in Nat /\ PktCnt \in Nat /\ \A p \in Pkts : p \in Nat
      BY SMTT(40), <1>1, <1>3, StreamAssumption DEF Threads, Typed, Pkts
    <3>2. \A p \in Pkts : /\ flag'[n][p] = IF p = i THEN TRUE ELSE flag[n][p]
                          /\ pkt'[n][p] = IF p = i THEN Term(n, i) ELSE pkt[n][p]
      BY <1>5
    <3>3. Threads(n)'
      BY <1>2, <1>3, <1>5, <3>1, <3>2 DEF Threads
    <3>4. Buffers(n)'
      <4>1. SUFFICES ASSUME NEW c \in Requests, cur'[n] = c
                     PROVE  /\ \A p \in Pkts : pu[n] <= p /\ p < i + 1 => pkt'[n][p] = Term(n, p)
                            /\ Shared(c) => \A p \in Pkts : p < pu[n] =>
                                 pkt'[n][p] = Partial(c, Id(c, n) + 1, p)
        BY SMTT(40), <1>3, <1>5, Fixed DEF Buffers, Term
      <4>2. /\ \A p \in Pkts : pu[n] <= p /\ p < i => pkt[n][p] = Term(n, p)
            /\ Shared(c) => \A p \in Pkts : p < pu[n] => pkt[n][p] = Partial(c, Id(c, n) + 1, p)
        BY <1>1, <1>2, <1>3, <4>1 DEF Buffers
      <4>3. \A p \in Pkts : /\ p < i + 1 => p < i \/ p = i
                            /\ p < pu[n] => p # i
        BY <1>2, <1>3, <3>1
      <4> QED BY <3>2, <4>2, <4>3
    <3> QED BY <2>3, <3>3, <3>4
  <2> QED BY <2>2, <2>3
<1>9. \A m \in Nodes : \A b : Sent(m, b)' = Sent(m, b) /\ Pulled(m, b)' = Pulled(m, b)
  BY <1>3 DEF Sent, Pulled
<1> QED BY <1>3, <1>6, <1>7, <1>8, <1>9, ListsSame, ClientsSame DEF PipeInv

\* A helper that dies leaves everything as it is.
LEMMA PullTimeoutInv == ASSUME PipeInv, NEW n \in Nodes, PullTimeout(n) PROVE PipeInv'
<1>1. /\ chain' = chain /\ lost' = lost /\ redis' = redis /\ fetch' = fetch
      /\ contents' = contents /\ out' = out /\ processed' = processed
      /\ cmds' = cmds /\ cur' = cur /\ toSend' = toSend /\ pu' = pu /\ se' = se
      /\ rd' = rd /\ pkt' = pkt /\ flag' = flag
  BY DEF PullTimeout, clientVars
<1>2. Typed' /\ CmdsInv' /\ \A m \in Nodes : Threads(m)' /\ Buffers(m)'
  BY <1>1, CmdsSame, OthersSame DEF PipeInv, Typed
<1>3. \A m \in Nodes : \A b : Sent(m, b)' = Sent(m, b) /\ Pulled(m, b)' = Pulled(m, b)
  BY <1>1 DEF Sent, Pulled
<1> QED BY <1>1, <1>2, <1>3, ListsSame, ClientsSame DEF PipeInv

\* The request is done: what was sent and pulled counts from 0 again.
LEMMA FinishInv == ASSUME PipeInv, NEW n \in Nodes, Finish(n) PROVE PipeInv'
<1>1. Typed /\ TmpInv /\ LostInv
  BY DEF PipeInv
<1>2. /\ cur[n] # 0 /\ pu[n] = PktCnt /\ se[n] = PktCnt
      /\ cur' = [cur EXCEPT ![n] = 0] /\ toSend' = [toSend EXCEPT ![n] = 0]
      /\ flag' = [flag EXCEPT ![n] = [p \in Pkts |-> FALSE]]
      /\ pkt' = [pkt EXCEPT ![n] = [p \in Pkts |-> {}]]
      /\ chain' = chain /\ lost' = lost /\ redis' = redis /\ fetch' = fetch
      /\ contents' = contents /\ out' = out /\ processed' = processed
      /\ cmds' = cmds /\ pu' = pu /\ se' = se /\ rd' = rd
  BY DEF Finish, Busy, Cleanup, clientVars
<1>3. Typed'
  <2>1. pkt' \in [Nodes -> [Pkts -> Packets]] /\ flag' \in [Nodes -> [Pkts -> BOOLEAN]]
    BY <1>1, <1>2 DEF Typed, Packets
  <2>2. cur' \in [Nodes -> Requests \cup {0}] /\ toSend' \in [Nodes -> Nat]
    BY <1>1, <1>2 DEF Typed
  <2> QED BY <1>1, <1>2, <2>1, <2>2 DEF Typed
<1>4. /\ cur'[n] = 0 /\ flag'[n] = [p \in Pkts |-> FALSE]
      /\ \A m \in Nodes : m # n => /\ cur'[m] = cur[m] /\ toSend'[m] = toSend[m]
                                   /\ flag'[m] = flag[m] /\ pkt'[m] = pkt[m]
  BY <1>1, <1>2 DEF Typed
<1>5. CmdsInv'
  BY <1>2, <1>4, CmdsSame
<1>6. \A m \in Nodes : Threads(m)' /\ Buffers(m)'
  <2>1. Threads(n)' /\ Buffers(n)'
    BY <1>4 DEF Threads, Buffers, Requests
  <2>2. ASSUME NEW m \in Nodes, m # n PROVE Threads(m)' /\ Buffers(m)'
    BY <1>2, <1>4, <2>2, OthersSame
  <2> QED BY <2>1, <2>2
<1>7. \A m \in Nodes : \A b :
        /\ Sent(m, b) \in Nat /\ Pulled(m, b) \in Nat
        /\ Sent(m, b)' = Sent(m, b) \/ (Sent(m, b) = PktCnt /\ Sent(m, b)' = 0)
        /\ Pulled(m, b)' = Pulled(m, b) \/ (Pulled(m, b) = PktCnt /\ Pulled(m, b)' = 0)
  BY <1>1, <1>2, <1>4 DEF Sent, Pulled, Typed
<1>8. TmpInv'
  <2>1. ASSUME NEW c \in Requests, Shared(c), NEW i \in 1..(EcK - 1), NEW m, NEW k, NEW b,
               m = chain[c][i], k = chain[c][i + 1], b = lost[c]
        PROVE  \E s, q, t : /\ redis'[TmpList(m, b)] = s /\ Pulled(k, b)' = q
                            /\ Sent(m, b)' = t /\ Between(s, c, i, q, t)
    <3>1. i \in 1..EcK /\ i + 1 \in 1..EcK
      BY PipeAssumption
    <3>2. PICK s, q0, t0, q, t : /\ s = redis[TmpList(m, b)] /\ q0 = Pulled(k, b)
                                 /\ t0 = Sent(m, b) /\ q = Pulled(k, b)' /\ t = Sent(m, b)'
      OBVIOUS
    <3>3. m \in Nodes /\ k \in Nodes /\ s \in Seq(Packets)
      BY <1>1, <2>1, <3>1, <3>2, ListsOf
    <3>4. /\ q0 \in Nat /\ t0 \in Nat
          /\ t = t0 \/ (t0 = PktCnt /\ t = 0)
          /\ q = q0 \/ (q0 = PktCnt /\ q = 0)
      BY <1>7, <3>2, <3>3
    <3>5. Between(s, c, i, q0, t0)
      BY <1>1, <2>1, <3>2 DEF TmpInv
    <3>6. Between(s, c, i, q, t0) /\ q \in Nat
      <4>1. CASE q = q0
        BY <3>4, <3>5, <4>1
      <4>2. CASE q0 = PktCnt /\ q = 0
        BY <3>3, <3>4, <3>5, <4>2, BetweenWrap
      <4> QED BY <3>4, <4>1, <4>2
    <3>7. Between(s, c, i, q, t)
      BY <3>3, <3>4, <3>6, BetweenWrap
    <3> QED BY <1>2, <3>2, <3>7
  <2> QED BY <1>2, <2>1, TmpAfter
<1>9. LostInv'
  <2>1. \A c \in Requests : Shared(c)' => Whole(redis[Result(c)], c)'
    BY <1>1, <1>2, Fixed DEF LostInv
  <2>2. ASSUME NEW c \in Clients, Alone(c), NEW m, NEW b, m = chain[c][EcK], b = lost[c]
        PROVE  \E s, q, t : /\ redis'[LostList(m, b)] = s /\ Len(contents'[c]) = q
                            /\ Sent(m, b)' = t /\ Between(s, c, EcK, q, t)
    <3>1. c \in Requests
      BY PipeAssumption
    <3>2. PICK s, q, t0, t : /\ s = redis[LostList(m, b)] /\ q = Len(contents[c])
                             /\ t0 = Sent(m, b) /\ t = Sent(m, b)'
      OBVIOUS
    <3>3. Between(s, c, EcK, q, t0)
      BY <1>1, <2>2, <3>2 DEF LostInv, Result
    <3>4. s \in Seq(Packets) /\ q \in Nat /\ m \in Nodes
      BY SMTT(40), <1>1, <2>2, <3>1, <3>2, ListsOf, PipeAssumption DEF Typed, Result
    <3>5. t0 \in Nat /\ (t = t0 \/ (t0 = PktCnt /\ t = 0))
      BY <1>7, <3>2, <3>4
    <3>6. Between(s, c, EcK, q, t)
      BY <3>3, <3>4, <3>5, BetweenWrap
    <3> QED BY <1>2, <3>2, <3>6
  <2> QED BY <1>2, <2>1, <2>2, AloneAfter DEF LostInv
<1> QED BY <1>2, <1>3, <1>5, <1>6, <1>8, <1>9, ClientsSame DEF PipeInv

\* A helper and the list it pushes to, when the requests for its block share
\* their chain.
LEMMA Places ==
    ASSUME Typed, NEW n \in Nodes, NEW d \in Requests, n \in Helpers(d), NEW c \in Requests,
           Shared(c), lost[d] = lost[c]
    PROVE  /\ chain[c] = chain[d] /\ Shared(d) /\ Id(c, n) = Id(d, n)
           /\ \A i \in 1..EcK : chain[c][i] = n <=> i = Id(d, n) + 1
           /\ \A i, p : Partial(c, i, p) = Partial(d, i, p)
<1>1. chain[c] = chain[d] /\ Shared(d)
  BY DEF Shared
<1>2. n \in Nodes /\ Id(d, n) \in 0..(EcK - 1) /\ chain[d][Id(d, n) + 1] = n
      /\ \A i \in 1..EcK : chain[d][i] = n => Id(d, n) = i - 1
  BY IdFacts
<1>3. Id(c, n) = Id(d, n) /\ \A i, p : Partial(c, i, p) = Partial(d, i, p)
  BY <1>1 DEF Id, Partial
<1>4. \A i \in 1..EcK : chain[c][i] = n <=> i = Id(d, n) + 1
  BY <1>1, <1>2, PipeAssumption
<1> QED BY <1>1, <1>3, <1>4

\* sendWorker pushes the next packet of its block.
LEMMA SendWorkerInv == ASSUME PipeInv, NEW n \in Nodes, SendWorker(n) PROVE PipeInv'
<1>1. Typed /\ CmdsInv /\ TmpInv /\ LostInv /\ \A m \in Nodes : Threads(m) /\ Buffers(m)
  BY DEF PipeInv
<1>2. PICK j, d, h, key, v : /\ j = se[n] /\ d = cur[n] /\ h = Id(d, n) + 1
                             /\ key = SendKey(d, n) /\ v = pkt[n][j]
  OBVIOUS
<1>3. /\ d # 0 /\ j < toSend[n] /\ redis' = [redis EXCEPT ![key] = Append(redis[key], v)]
      /\ se' = [se EXCEPT ![n] = j + 1]
      /\ chain' = chain /\ lost' = lost /\ fetch' = fetch
      /\ contents' = contents /\ out' = out /\ processed' = processed
      /\ cmds' = cmds /\ cur' = cur /\ toSend' = toSend /\ pu' = pu /\ rd' = rd
      /\ pkt' = pkt /\ flag' = flag
  BY <1>2 DEF SendWorker, Busy, clientVars, Push
<1>4. /\ d \in Requests /\ n \in Helpers(d) /\ j \in Nat /\ j < PktCnt /\ j < pu[n]
      /\ j \in Pkts /\ v \in Packets /\ pu[n] \in Nat /\ PktCnt \in Nat
  <2>1. d \in Requests /\ j \in Nat /\ pu[n] \in Nat /\ rd[n] \in Nat /\ PktCnt \in Nat
    BY <1>1, <1>2, <1>3, StreamAssumption DEF Typed
  <2>2. toSend[n] = pu[n] /\ pu[n] <= rd[n] /\ rd[n] <= PktCnt
    BY <1>1, <1>2, <1>3 DEF Threads
  <2>3. j < PktCnt /\ j < pu[n] /\ j \in Pkts
    BY <1>3, <2>1, <2>2 DEF Pkts
  <2>4. v \in Packets
    BY <1>1, <1>2, <2>3 DEF Typed
  <2>5. n \in Helpers(d)
    BY <1>1, <1>2, <2>1 DEF CmdsInv
  <2> QED BY <2>1, <2>3, <2>4, <2>5
<1>5. /\ h \in 1..EcK /\ chain[d][h] = n
      /\ h = EcK => key = LostList(n, lost[d])
      /\ h # EcK => key = TmpList(n, lost[d])
  <2>1. Id(d, n) \in 0..(EcK - 1) /\ chain[d][Id(d, n) + 1] = n
    BY <1>1, <1>4, IdFacts
  <2>2. h \in 1..EcK /\ chain[d][h] = n /\ (h = EcK <=> Id(d, n) = EcK - 1)
    BY <1>2, <2>1, PipeAssumption
  <2> QED BY <1>2, <2>2 DEF SendKey
<1>6. key \in Lists /\ redis[key] \in Seq(Packets) /\ redis \in [Lists -> Seq(Packets)]
  <2>1. redis \in [Lists -> Seq(Packets)] /\ lost[d] \in LostBlocks
    BY <1>1, <1>4 DEF Typed
  <2>2. key \in Lists
    BY <1>5, <2>1 DEF Lists
  <2> QED BY <2>1, <2>2
<1>7. Typed'
  <2>1. redis' \in [Lists -> Seq(Packets)]
    BY <1>3, <1>4, <1>6
  <2>2. se' \in [Nodes -> Nat]
    BY <1>1, <1>3, <1>4 DEF Typed
  <2> QED BY <1>1, <1>3, <2>1, <2>2 DEF Typed
<1>8. /\ se'[n] = j + 1 /\ (\A m \in Nodes : m # n => se'[m] = se[m])
      /\ redis'[key] = Append(redis[key], v)
      /\ \A l \in Lists : l # key => redis'[l] = redis[l]
  BY <1>1, <1>3, <1>6 DEF Typed
<1>9. CmdsInv' /\ \A m \in Nodes : Threads(m)' /\ Buffers(m)'
  <2>1. CmdsInv'
    BY <1>3, CmdsSame
  <2>2. ASSUME NEW m \in Nodes, m # n PROVE Threads(m)' /\ Buffers(m)'
    BY <1>3, <1>8, <2>2, OthersSame
  <2>3. Threads(n)'
    BY <1>1, <1>2, <1>3, <1>4, <1>8 DEF Threads
  <2>4. Buffers(n)'
    BY <1>1, <1>3, Fixed DEF Buffers, Term
  <2> QED BY <2>1, <2>2, <2>3, <2>4
<1>10. \A m \in Nodes : \A b :
         /\ Pulled(m, b)' = Pulled(m, b)
         /\ Sent(m, b)' = IF m = n /\ b = lost[d] THEN j + 1 ELSE Sent(m, b)
         /\ Sent(m, b) \in Nat /\ Pulled(m, b) \in Nat
         /\ m = n /\ b = lost[d] => Sent(m, b) = j
  BY <1>1, <1>2, <1>3, <1>8 DEF Sent, Pulled, Typed
<1>11. Shared(d) => v = Partial(d, h, j)
  BY <1>1, <1>2, <1>4 DEF Buffers
<1>12. j % PktCnt = j
  BY <1>4, ModSmall
<1>13. TmpInv'
  <2>1. ASSUME NEW c \in Requests, Shared(c), NEW i \in 1..(EcK - 1), NEW m, NEW k, NEW b,
               m = chain[c][i], k = chain[c][i + 1], b = lost[c]
        PROVE  \E s, q, t : /\ redis'[TmpList(m, b)] = s /\ Pulled(k, b)' = q
                            /\ Sent(m, b)' = t /\ Between(s, c, i, q, t)
    <3>1. i \in 1..EcK /\ i + 1 \in 1..EcK /\ i # EcK
      BY PipeAssumption
    <3>2. PICK s, q, t : s = redis[TmpList(m, b)] /\ q = Pulled(k, b) /\ t = Sent(m, b)
      OBVIOUS
    <3>3. /\ m \in Nodes /\ k \in Nodes /\ s \in Seq(Packets) /\ TmpList(m, b) \in Lists
          /\ q \in Nat /\ t \in Nat /\ Pulled(k, b)' = q
      BY <1>1, <1>10, <2>1, <3>1, <3>2, ListsOf
    <3>4. Between(s, c, i, q, t)
      BY <1>1, <2>1, <3>2 DEF TmpInv
    <3>5. CASE m = n /\ b = lost[d]
      <4>1. i = h /\ v = Partial(c, i, j)
        <5>1. lost[d] = lost[c] /\ chain[c][i] = n
          BY <2>1, <3>5
        <5>2. /\ Shared(d) /\ (\A x \in 1..EcK : chain[c][x] = n <=> x = Id(d, n) + 1)
              /\ \A x, p : Partial(c, x, p) = Partial(d, x, p)
          BY <1>1, <1>4, <2>1, <5>1, Places
        <5> QED BY <1>2, <1>11, <3>1, <5>1, <5>2
      <4>2. key = TmpList(m, b) /\ t = j /\ Sent(m, b)' = t + 1
        BY <1>5, <1>10, <3>1, <3>2, <3>3, <3>5, <4>1
      <4>3. redis'[TmpList(m, b)] = Append(s, v)
        BY <1>8, <3>2, <4>2
      <4>4. Between(Append(s, v), c, i, q, t + 1)
        BY <1>4, <1>12, <3>3, <3>4, <4>1, <4>2, BetweenPush
      <4> QED BY <3>3, <4>2, <4>3, <4>4
    <3>6. CASE ~(m = n /\ b = lost[d])
      <4>1. key # TmpList(m, b)
        BY <1>5, <3>6, ListNames
      <4>2. redis'[TmpList(m, b)] = s /\ Sent(m, b)' = t
        BY <1>8, <1>10, <3>2, <3>3, <3>6, <4>1
      <4> QED BY <3>3, <3>4, <4>2
    <3> QED BY <3>5, <3>6
  <2> QED BY <1>3, <2>1, TmpAfter
<1>14. LostInv'
  <2>1. ASSUME NEW c \in Requests, Shared(c) PROVE Whole(redis'[Result(c)], c)
    <3>1. PICK s : s = redis[Result(c)]
      OBVIOUS
    <3>2. Whole(s, c) /\ s \in Seq(Packets) /\ Result(c) \in Lists
      BY <1>1, <2>1, <3>1, ListsOf DEF LostInv
    <3>3. CASE key = Result(c)
      <4>1. h = EcK /\ lost[d] = lost[c]
        BY <1>5, <3>3, ListNames DEF Result
      <4>2. v = Partial(c, EcK, j)
        BY <1>1, <1>4, <1>11, <2>1, <4>1, Places
      <4>3. v = Repaired(c, j)
        BY <4>2 DEF Partial, Repaired
      <4>4. redis'[Result(c)] = Append(s, v)
        BY <1>8, <3>1, <3>3
      <4>5. Whole(Append(s, v), c)
        BY <1>4, <3>2, <4>3 DEF Whole
      <4> QED BY <4>4, <4>5
    <3>4. CASE key # Result(c)
      BY <1>8, <3>1, <3>2, <3>4
    <3> QED BY <3>3, <3>4
  <2>2. \A c \in Requests : Shared(c)' => Whole(redis[Result(c)], c)'
    BY <1>3, <2>1, Fixed
  <2>3. ASSUME NEW c \in Clients, Alone(c), NEW m, NEW b, m = chain[c][EcK], b = lost[c]
        PROVE  \E s, q, t : /\ redis'[LostList(m, b)] = s /\ Len(contents'[c]) = q
                            /\ Sent(m, b)' = t /\ Between(s, c, EcK, q, t)
    <3>1. c \in Requests /\ EcK \in 1..EcK /\ Shared(c)
      BY <2>3, PipeAssumption DEF Alone, Shared
    <3>2. PICK s, q, t : s = redis[LostList(m, b)] /\ q = Len(contents[c]) /\ t = Sent(m, b)
      OBVIOUS
    <3>3. Between(s, c, EcK, q, t)
      BY <1>1, <2>3, <3>2 DEF LostInv, Result
    <3>4. /\ s \in Seq(Packets) /\ q \in Nat /\ m \in Nodes /\ LostList(m, b) \in Lists
          /\ t \in Nat /\ Len(contents'[c]) = q
      <4>1. m \in Nodes /\ LostList(m, b) \in Lists /\ s \in Seq(Packets)
        BY <1>1, <2>3, <3>1, <3>2, ListsOf DEF Result
      <4>2. q \in Nat
        BY <1>1, <3>2 DEF Typed
      <4> QED BY <1>3, <1>10, <3>2, <4>1, <4>2
    <3>5. CASE m = n /\ b = lost[d]
      <4>1. EcK = h /\ v = Partial(c, EcK, j)
        <5>1. lost[d] = lost[c] /\ chain[c][EcK] = n
          BY <2>3, <3>5
        <5>2. /\ Shared(d) /\ (\A x \in 1..EcK : chain[c][x] = n <=> x = Id(d, n) + 1)
              /\ \A x, p : Partial(c, x, p) = Partial(d, x, p)
          BY <1>1, <1>4, <3>1, <5>1, Places
        <5> QED BY <1>2, <1>11, <3>1, <5>1, <5>2
      <4>2. key = LostList(m, b) /\ t = j /\ Sent(m, b)' = t + 1
        BY <1>5, <1>10, <3>2, <3>4, <3>5, <4>1
      <4>3. redis'[LostList(m, b)] = Append(s, v)
        BY <1>8, <3>2, <4>2
      <4>4. Between(Append(s, v), c, EcK, q, t + 1)
        BY <1>4, <1>12, <3>3, <3>4, <4>1, <4>2, BetweenPush
      <4> QED BY <3>4, <4>2, <4>3, <4>4
    <3>6. CASE ~(m = n /\ b = lost[d])
      <4>1. key # LostList(m, b)
        BY <1>5, <3>6, ListNames
      <4>2. redis'[LostList(m, b)] = s /\ Sent(m, b)' = t
        BY <1>8, <1>10, <3>2, <3>4, <3>6, <4>1
      <4> QED BY <3>3, <3>4, <4>2
    <3> QED BY <3>5, <3>6
  <2> QED BY <1>3, <2>2, <2>3, AloneAfter DEF LostInv
<1> QED BY <1>3, <1>7, <1>9, <1>13, <1>14, ClientsSame DEF PipeInv

\* The term of the next helper is not yet in the sum.
LEMMA AddTerm ==
    ASSUME Typed, NEW c \in Requests, NEW i \in 1..EcK, NEW p
    PROVE  Xor(Term(chain[c][i], p), Partial(c, i - 1, p)) = Partial(c, i, p)
<1>1. i \in Nat \ {0} /\ \A j \in 1..(i - 1) : j \in 1..EcK /\ j # i
  BY PipeAssumption
<1>2. \A j \in 1..(i - 1) : chain[c][j] # chain[c][i]
  BY <1>1, ListsOf
<1>3. \A j : j \in 1..i <=> j \in 1..(i - 1) \/ j = i
  BY <1>1
<1>4. <<chain[c][i], p>> \notin Partial(c, i - 1, p)
  BY <1>2 DEF Partial
<1>5. Partial(c, i, p) = Partial(c, i - 1, p) \cup {<<chain[c][i], p>>}
  <2> DEFINE f(j) == <<chain[c][j], p>>
  <2>1. Partial(c, i, p) = {f(j) : j \in 1..i} /\ Partial(c, i - 1, p) = {f(j) : j \in 1..(i - 1)}
    BY DEF Partial
  <2> HIDE DEF f
  <2>2. {f(j) : j \in 1..i} = {f(j) : j \in 1..(i - 1)} \cup {f(i)}
    BY <1>3
  <2> QED BY <2>1, <2>2 DEF f
<1> QED BY <1>4, <1>5 DEF Xor, Term

\* pullRequestorCompletion: the partial sum that is popped belongs to the packet
\* it is added to.
LEMMA PullInv ==
    ASSUME PipeInv, NEW n \in Nodes, PullRequestorCompletion(n)
    PROVE  PipeInv'
<1>1. Typed /\ CmdsInv /\ TmpInv /\ LostInv /\ \A m \in Nodes : Threads(m) /\ Buffers(m)
  BY DEF PipeInv
<1>2. PICK j, d, h, key : /\ j = pu[n] /\ d = cur[n] /\ h = Id(d, n)
                          /\ key = TmpList(Prev(d, n), lost[d])
  OBVIOUS
<1>3. /\ d # 0 /\ j < PktCnt /\ flag[n][j]
      /\ \/ h = 0 /\ pkt' = pkt /\ redis' = redis
         \/ /\ h # 0 /\ redis[key] # <<>>
            /\ pkt' = [pkt EXCEPT ![n][j] = Xor(pkt[n][j], Head(redis[key]))]
            /\ redis' = [redis EXCEPT ![key] = Tail(redis[key])]
      /\ toSend' = [toSend EXCEPT ![n] = toSend[n] + 1] /\ pu' = [pu EXCEPT ![n] = j + 1]
      /\ chain' = chain /\ lost' = lost /\ fetch' = fetch
      /\ contents' = contents /\ out' = out /\ processed' = processed
      /\ cmds' = cmds /\ cur' = cur /\ se' = se /\ rd' = rd /\ flag' = flag
  <2>1. /\ d # 0 /\ j < PktCnt /\ flag[n][j]
        /\ toSend' = [toSend EXCEPT ![n] = toSend[n] + 1] /\ pu' = [pu EXCEPT ![n] = j + 1]
        /\ chain' = chain /\ lost' = lost /\ fetch' = fetch
        /\ contents' = contents /\ out' = out /\ processed' = processed
        /\ cmds' = cmds /\ cur' = cur /\ se' = se /\ rd' = rd /\ flag' = flag
    BY <1>2 DEF PullRequestorCompletion, FlagSeen, Busy, clientVars
  <2>2. \/ h = 0 /\ pkt' = pkt /\ redis' = redis
        \/ /\ h # 0 /\ redis[key] # <<>>
           /\ pkt' = [pkt EXCEPT ![n][j] = Xor(@, Head(redis[key]))]
           /\ redis' = Pop(redis, key)
    BY <1>2 DEF PullRequestorCompletion
  <2> QED BY <2>1, <2>2 DEF Pop
<1>4. /\ d \in Requests /\ n \in Helpers(d) /\ j \in Nat /\ j \in Pkts /\ PktCnt \in Nat
      /\ rd[n] \in Nat /\ se[n] \in Nat /\ toSend[n] = j /\ se[n] <= j /\ j < rd[n]
      /\ rd[n] <= PktCnt /\ pkt[n][j] = Term(n, j)
  <2>1. d \in Requests /\ j \in Nat /\ PktCnt \in Nat /\ rd[n] \in Nat /\ se[n] \in Nat
    BY <1>1, <1>2, <1>3, StreamAssumption DEF Typed
  <2>2. j \in Pkts
    BY <1>3, <2>1 DEF Pkts
  <2>3. toSend[n] = j /\ se[n] <= j /\ j < rd[n] /\ rd[n] <= PktCnt
    BY <1>1, <1>2, <1>3, <2>2 DEF Threads
  <2>4. pkt[n][j] = Term(n, j)
    BY <1>1, <1>2, <2>1, <2>2, <2>3 DEF Buffers
  <2>5. n \in Helpers(d)
    BY <1>1, <1>2, <2>1 DEF CmdsInv
  <2> QED BY <2>1, <2>2, <2>3, <2>4, <2>5
<1>5. /\ h \in 0..(EcK - 1) /\ chain[d][h + 1] = n /\ h + 1 \in 1..EcK
      /\ h # 0 => h \in 1..EcK /\ h \in 1..(EcK - 1) /\ key = TmpList(chain[d][h], lost[d])
  <2>1. h \in 0..(EcK - 1) /\ chain[d][h + 1] = n
    BY <1>1, <1>2, <1>4, IdFacts
  <2> QED BY <1>2, <2>1, PipeAssumption DEF Prev
<1>6. /\ redis \in [Lists -> Seq(Packets)]
      /\ h # 0 => key \in Lists /\ redis[key] \in Seq(Packets)
  BY <1>1, <1>4, <1>5, ListsOf DEF Typed
<1>7. Typed'
  <2>1. redis' \in [Lists -> Seq(Packets)] /\ pkt' \in [Nodes -> [Pkts -> Packets]]
    <3>1. CASE h = 0
      BY <1>1, <1>3, <3>1 DEF Typed
    <3>2. CASE h # 0
      <4>1. Tail(redis[key]) \in Seq(Packets) /\ Head(redis[key]) \in Packets
        BY <1>3, <1>6, <3>2
      <4>2. pkt[n][j] \in Packets
        BY <1>1, <1>4 DEF Typed
      <4>3. Xor(pkt[n][j], Head(redis[key])) \in Packets
        BY <4>1, <4>2 DEF Xor, Packets
      <4>4. redis' \in [Lists -> Seq(Packets)]
        BY <1>3, <1>6, <3>2, <4>1
      <4>5. pkt' \in [Nodes -> [Pkts -> Packets]]
        <5>1. PICK w : w = Xor(pkt[n][j], Head(redis[key]))
          OBVIOUS
        <5>2. w \in Packets /\ pkt' = [pkt EXCEPT ![n][j] = w]
          BY <1>3, <3>2, <4>3, <5>1
        <5> QED BY <1>1, <1>4, <5>2 DEF Typed
      <4> QED BY <4>4, <4>5
    <3> QED BY <3>1, <3>2
  <2>2. pu' \in [Nodes -> Nat] /\ toSend' \in [Nodes -> Nat]
    BY <1>1, <1>3, <1>4 DEF Typed
  <2> QED BY <1>1, <1>3, <2>1, <2>2 DEF Typed
<1>8. /\ pu'[n] = j + 1 /\ toSend'[n] = j + 1
      /\ \A m \in Nodes : m # n => pu'[m] = pu[m] /\ toSend'[m] = toSend[m] /\ pkt'[m] = pkt[m]
      /\ \A p \in Pkts : p # j => pkt'[n][p] = pkt[n][p]
  BY <1>1, <1>3, <1>4 DEF Typed
<1>9. Shared(d) /\ h # 0 => Head(redis[key]) = Partial(d, h, j)
  <2>1. SUFFICES ASSUME Shared(d), h # 0 PROVE Head(redis[key]) = Partial(d, h, j)
    OBVIOUS
  <2>2. PICK s, q, t : /\ s = redis[key] /\ q = Pulled(chain[d][h + 1], lost[d])
                       /\ t = Sent(chain[d][h], lost[d])
    OBVIOUS
  <2>3. Between(s, d, h, q, t)
    BY <1>1, <1>4, <1>5, <2>1, <2>2 DEF TmpInv
  <2>4. q = j
    BY <1>2, <1>3, <1>5, <2>2 DEF Pulled
  <2>5. Head(s) = Partial(d, h, q % PktCnt)
    BY <1>3, <1>4, <1>6, <2>1, <2>2, <2>3, <2>4, BetweenPop
  <2> QED BY <1>3, <1>4, <2>2, <2>4, <2>5, ModSmall
<1>10. Shared(d) => pkt'[n][j] = Partial(d, h + 1, j)
  <2>1. SUFFICES ASSUME Shared(d) PROVE pkt'[n][j] = Partial(d, h + 1, j)
    OBVIOUS
  <2>2. Xor(Term(n, j), Partial(d, h, j)) = Partial(d, h + 1, j)
    <3>1. h + 1 - 1 = h
      BY <1>5
    <3> QED BY <1>1, <1>4, <1>5, <3>1, AddTerm
  <2>3. CASE h = 0
    <3>1. Partial(d, 1, j) = Term(n, j)
      BY <1>5, <2>3 DEF Partial, Term
    <3> QED BY <1>3, <1>4, <2>3, <3>1
  <2>4. CASE h # 0
    <3>1. pkt'[n][j] = Xor(pkt[n][j], Head(redis[key]))
      BY <1>1, <1>3, <1>4, <2>4 DEF Typed
    <3> QED BY <1>4, <1>9, <2>1, <2>2, <2>4, <3>1
  <2> QED BY <2>3, <2>4
<1>11. CmdsInv' /\ \A m \in Nodes : Threads(m)' /\ Buffers(m)'
  <2>1. CmdsInv'
    BY <1>3, CmdsSame
  <2>2. ASSUME NEW m \in Nodes, m # n PROVE Threads(m)' /\ Buffers(m)'
    BY <1>3, <1>8, <2>2, OthersSame
  <2>3. Threads(n)'
    BY <1>1, <1>2, <1>3, <1>4, <1>8 DEF Threads
  <2>4. Buffers(n)'
    <3>1. SUFFICES /\ \A p \in Pkts : j + 1 <= p /\ p < rd[n] => pkt'[n][p] = Term(n, p)
                   /\ Shared(d) => \A p \in Pkts : p < j + 1 =>
                        pkt'[n][p] = Partial(d, Id(d, n) + 1, p)
      BY <1>2, <1>3, <1>8, Fixed DEF Buffers, Term
    <3>2. /\ \A p \in Pkts : j <= p /\ p < rd[n] => pkt[n][p] = Term(n, p)
          /\ Shared(d) => \A p \in Pkts : p < j => pkt[n][p] = Partial(d, Id(d, n) + 1, p)
      BY <1>1, <1>2, <1>4 DEF Buffers
    <3>3. \A p \in Pkts : /\ j + 1 <= p => j <= p /\ p # j
                          /\ p < j + 1 => p < j \/ p = j
      BY <1>4, StreamAssumption DEF Pkts
    <3> QED BY <1>2, <1>8, <1>10, <3>2, <3>3
  <2> QED BY <2>1, <2>2, <2>3, <2>4
<1>12. \A m \in Nodes : \A b :
         /\ Sent(m, b)' = Sent(m, b)
         /\ Pulled(m, b)' = IF m = n /\ b = lost[d] THEN j + 1 ELSE Pulled(m, b)
         /\ Sent(m, b) \in Nat /\ Pulled(m, b) \in Nat
         /\ m = n /\ b = lost[d] => Pulled(m, b) = j
  BY <1>1, <1>2, <1>3, <1>8 DEF Sent, Pulled, Typed
<1>13. TmpInv'
  <2>1. ASSUME NEW c \in Requests, Shared(c), NEW i \in 1..(EcK - 1), NEW m, NEW k, NEW b,
               m = chain[c][i], k = chain[c][i + 1], b = lost[c]
        PROVE  \E s, q, t : /\ redis'[TmpList(m, b)] = s /\ Pulled(k, b)' = q
                            /\ Sent(m, b)' = t /\ Between(s, c, i, q, t)
    <3>1. i \in 1..EcK /\ i + 1 \in 1..EcK /\ i # 0 /\ i \in Nat
      BY PipeAssumption
    <3>2. PICK s, q, t : s = redis[TmpList(m, b)] /\ q = Pulled(k, b) /\ t = Sent(m, b)
      OBVIOUS
    <3>3. /\ m \in Nodes /\ k \in Nodes /\ s \in Seq(Packets) /\ TmpList(m, b) \in Lists
          /\ q \in Nat /\ t \in Nat /\ Sent(m, b)' = t
      BY <1>1, <1>12, <2>1, <3>1, <3>2, ListsOf
    <3>4. Between(s, c, i, q, t)
      BY <1>1, <2>1, <3>2 DEF TmpInv
    <3>5. CASE k = n /\ b = lost[d]
      <4>1. lost[d] = lost[c] /\ chain[c][i + 1] = n
        BY <2>1, <3>5
      <4>2. /\ chain[c] = chain[d]
            /\ \A x \in 1..EcK : chain[c][x] = n <=> x = h + 1
        BY <1>1, <1>2, <1>4, <2>1, <4>1, Places
      <4>3. i = h
        BY <1>5, <3>1, <4>1, <4>2
      <4>4. key = TmpList(m, b) /\ q = j /\ Pulled(k, b)' = q + 1
        BY <1>5, <1>12, <2>1, <3>1, <3>2, <3>3, <3>5, <4>2, <4>3
      <4>5. redis'[TmpList(m, b)] = Tail(s) /\ s # <<>>
        BY <1>3, <1>6, <3>1, <3>2, <4>3, <4>4
      <4>6. Between(Tail(s), c, i, q + 1, t)
        BY <3>3, <3>4, <4>5, BetweenPop
      <4> QED BY <3>3, <4>4, <4>5, <4>6
    <3>6. CASE ~(k = n /\ b = lost[d])
      <4>1. h # 0 => key # TmpList(m, b)
        <5>1. SUFFICES ASSUME h # 0, key = TmpList(m, b) PROVE FALSE
          OBVIOUS
        <5>2. m = chain[d][h] /\ b = lost[d]
          BY <1>5, <5>1, ListNames
        <5>3. chain[c] = chain[d]
          BY <1>4, <2>1, <5>2 DEF Shared
        <5>4. i = h
          BY <1>1, <1>5, <2>1, <3>1, <5>1, <5>2, <5>3, ListsOf
        <5> QED BY <1>5, <2>1, <3>6, <5>2, <5>3, <5>4
      <4>2. redis'[TmpList(m, b)] = s
        BY <1>3, <1>6, <3>2, <3>3, <4>1
      <4>3. Pulled(k, b)' = q
        BY <1>12, <3>2, <3>3, <3>6
      <4> QED BY <3>3, <3>4, <4>2, <4>3
    <3> QED BY <3>5, <3>6
  <2> QED BY <1>3, <2>1, TmpAfter
<1>14. LostInv'
  <2>1. \A c \in Requests : redis'[Result(c)] = redis[Result(c)] /\ Result(c) \in Lists
    <3>1. ASSUME NEW c \in Requests PROVE redis'[Result(c)] = redis[Result(c)]
      <4>1. h # 0 => key # Result(c)
        BY <1>5, ListNames DEF Result
      <4> QED BY <1>1, <1>3, <1>6, <4>1, ListsOf
    <3> QED BY <1>1, <3>1, ListsOf
  <2>2. \A c \in Requests : Shared(c)' => Whole(redis[Result(c)], c)'
    <3>1. \A c \in Requests : Shared(c) => Whole(redis'[Result(c)], c)
      BY <1>1, <2>1 DEF LostInv
    <3> QED BY <1>3, <3>1, Fixed
  <2>3. ASSUME NEW c \in Clients, Alone(c), NEW m, NEW b, m = chain[c][EcK], b = lost[c]
        PROVE  \E s, q, t : /\ redis'[LostList(m, b)] = s /\ Len(contents'[c]) = q
                            /\ Sent(m, b)' = t /\ Between(s, c, EcK, q, t)
    <3>1. c \in Requests /\ EcK \in 1..EcK
      BY PipeAssumption
    <3>2. PICK s, q, t : s = redis[LostList(m, b)] /\ q = Len(contents[c]) /\ t = Sent(m, b)
      OBVIOUS
    <3>3. Between(s, c, EcK, q, t)
      BY <1>1, <2>3, <3>2 DEF LostInv, Result
    <3>4. m \in Nodes /\ redis'[LostList(m, b)] = s
      BY <1>1, <2>1, <2>3, <3>1, <3>2, ListsOf DEF Result
    <3> QED BY <1>3, <1>12, <3>2, <3>3, <3>4
  <2> QED BY <1>3, <2>2, <2>3, AloneAfter DEF LostInv
<1> QED BY <1>3, <1>7, <1>11, <1>13, <1>14, ClientsSame DEF PipeInv

\* The workers' state in a step of a client.
LEMMA WorkersSame ==
    ASSUME PipeInv, UNCHANGED pipeVars
    PROVE  /\ CmdsInv' /\ \A m \in Nodes : Threads(m)' /\ Buffers(m)'
           /\ \A m \in Nodes : \A b : Sent(m, b)' = Sent(m, b) /\ Pulled(m, b)' = Pulled(m, b)
<1>1. /\ chain' = chain /\ lost' = lost /\ cmds' = cmds /\ cur' = cur /\ pkt' = pkt
      /\ flag' = flag /\ toSend' = toSend /\ rd' = rd /\ pu' = pu /\ se' = se
  BY DEF pipeVars
<1>2. \A m \in Nodes : \A b : Sent(m, b)' = Sent(m, b) /\ Pulled(m, b)' = Pulled(m, b)
  BY <1>1 DEF Sent, Pulled
<1> QED BY <1>1, <1>2, CmdsSame, OthersSame

\* The one lost block of a request is the first.
LEMMA OneJob ==
    /\ Total = PktCnt /\ PktCnt \in Nat \ {0}
    /\ \A k \in Nat : JobAt(k) = 1 /\ JobAt(k) \in Jobs
BY StreamAssumption, PipeAssumption DEF Total, JobAt, Jobs

\* pipeCollector takes the next packet of the block.
LEMMA CollectorInv ==
    ASSUME PipeInv, NEW c \in Clients, PipeCollector(c), UNCHANGED pipeVars
    PROVE  PipeInv'
<1>1. Typed /\ TmpInv /\ LostInv /\ ClientInv
  BY DEF PipeInv
<1>2. /\ chain' = chain /\ lost' = lost /\ cmds' = cmds /\ cur' = cur /\ pkt' = pkt
      /\ flag' = flag /\ toSend' = toSend /\ rd' = rd /\ pu' = pu /\ se' = se
  BY DEF pipeVars
<1>3. PICK j, key, s : j = Len(contents[c]) /\ key = Result(c) /\ s = redis[key]
  OBVIOUS
<1>4. c \in Requests /\ contents[c] \in Seq(Packets) /\ j \in Nat
  BY <1>1, <1>3, PipeAssumption DEF Typed
<1>5. key \in Lists /\ s \in Seq(Packets) /\ redis \in [Lists -> Seq(Packets)]
  BY <1>1, <1>3, <1>4, ListsOf DEF Typed
<1>6. fetch[c][JobAt(j)] = key
  BY <1>1, <1>3, <1>4, OneJob DEF Typed, Result
<1>7. /\ j < PktCnt /\ s # <<>>
      /\ contents' = [contents EXCEPT ![c] = Append(contents[c], Head(s))]
      /\ redis' = [redis EXCEPT ![key] = Tail(s)]
      /\ fetch' = fetch /\ processed' = processed /\ out' = out
  BY <1>3, <1>6, OneJob DEF PipeCollector, Pop
<1>8. PICK v : v = Head(s)
  OBVIOUS
<1>9. v \in Packets /\ Tail(s) \in Seq(Packets)
  BY <1>5, <1>7, <1>8
<1>10. Typed'
  <2>1. redis' \in [Lists -> Seq(Packets)]
    BY <1>5, <1>7, <1>9
  <2>2. contents' \in [Clients -> Seq(Packets)]
    BY <1>1, <1>4, <1>7, <1>8, <1>9 DEF Typed
  <2> QED BY <1>1, <1>2, <1>7, <2>1, <2>2 DEF Typed
<1>11. /\ redis'[key] = Tail(s) /\ \A l \in Lists : l # key => redis'[l] = redis[l]
       /\ contents'[c] = Append(contents[c], v)
       /\ \A d \in Clients : d # c => contents'[d] = contents[d]
  BY <1>1, <1>5, <1>7, <1>8 DEF Typed
<1>12. /\ \A m \in Nodes : \A b : Sent(m, b)' = Sent(m, b) /\ Pulled(m, b)' = Pulled(m, b)
       /\ CmdsInv' /\ \A m \in Nodes : Threads(m)' /\ Buffers(m)'
  BY WorkersSame
<1>13. TmpInv'
  <2>1. ASSUME NEW d \in Requests, Shared(d), NEW i \in 1..(EcK - 1), NEW m, NEW k, NEW b,
               m = chain[d][i], k = chain[d][i + 1], b = lost[d]
        PROVE  \E u, q, t : /\ redis'[TmpList(m, b)] = u /\ Pulled(k, b)' = q
                            /\ Sent(m, b)' = t /\ Between(u, d, i, q, t)
    <3>1. i \in 1..EcK /\ i + 1 \in 1..EcK
      BY PipeAssumption
    <3>2. m \in Nodes /\ k \in Nodes /\ TmpList(m, b) \in Lists
      BY <1>1, <2>1, <3>1, ListsOf
    <3>3. redis'[TmpList(m, b)] = redis[TmpList(m, b)]
      BY <1>3, <1>11, <3>2, ListNames DEF Result
    <3> QED BY <1>1, <1>12, <2>1, <3>2, <3>3 DEF TmpInv
  <2> QED BY <1>2, <2>1, TmpAfter
<1>14. /\ Alone(c) => /\ v = Partial(c, EcK, j)
                      /\ Between(Tail(s), c, EcK, j + 1, Sent(chain[c][EcK], lost[c]))
       /\ Shared(c) => \E p \in Pkts : v = Repaired(c, p)
  <2>1. ASSUME Alone(c)
        PROVE  /\ v = Partial(c, EcK, j)
               /\ Between(Tail(s), c, EcK, j + 1, Sent(chain[c][EcK], lost[c]))
    <3>1. PICK t : t = Sent(chain[c][EcK], lost[c])
      OBVIOUS
    <3>2. Between(s, c, EcK, j, t)
      BY <1>1, <1>3, <2>1, <3>1 DEF LostInv
    <3>3. Head(s) = Partial(c, EcK, j % PktCnt) /\ Between(Tail(s), c, EcK, j + 1, t)
      BY <1>4, <1>5, <1>7, <3>2, BetweenPop
    <3> QED BY <1>4, <1>7, <1>8, <3>1, <3>3, ModSmall
  <2>2. ASSUME Shared(c) PROVE \E p \in Pkts : v = Repaired(c, p)
    <3>1. Whole(s, c)
      BY <1>1, <1>3, <1>4, <2>2 DEF LostInv
    <3>2. v = s[1] /\ 1 \in 1..Len(s)
      BY <1>5, <1>7, <1>8
    <3> QED BY <3>1, <3>2 DEF Whole
  <2> QED BY <2>1, <2>2
<1>15. LostInv'
  <2>1. ASSUME NEW d \in Requests, Shared(d) PROVE Whole(redis'[Result(d)], d)
    <3>1. Whole(redis[Result(d)], d) /\ Result(d) \in Lists
      BY <1>1, <2>1, ListsOf DEF LostInv
    <3>2. CASE Result(d) = key
      <4>1. Whole(s, d)
        BY <1>3, <3>1, <3>2
      <4>2. Whole(Tail(s), d)
        <5>1. \A k \in 1..Len(Tail(s)) : Tail(s)[k] = s[k + 1] /\ k + 1 \in 1..Len(s)
          BY <1>5, <1>7
        <5> QED BY <4>1, <5>1 DEF Whole
      <4> QED BY <1>11, <3>2, <4>2
    <3>3. CASE Result(d) # key
      BY <1>11, <3>1, <3>3
    <3> QED BY <3>2, <3>3
  <2>2. \A d \in Requests : Shared(d)' => Whole(redis[Result(d)], d)'
    BY <1>2, <2>1, Fixed
  <2>3. ASSUME NEW d \in Clients, Alone(d), NEW m, NEW b, m = chain[d][EcK], b = lost[d]
        PROVE  \E u, q, t : /\ redis'[LostList(m, b)] = u /\ Len(contents'[d]) = q
                            /\ Sent(m, b)' = t /\ Between(u, d, EcK, q, t)
    <3>1. d \in Requests /\ EcK \in 1..EcK
      BY PipeAssumption
    <3>2. m \in Nodes /\ LostList(m, b) \in Lists
      BY <1>1, <2>3, <3>1, ListsOf DEF Result
    <3>3. CASE d = c
      <4>1. /\ redis'[LostList(m, b)] = Tail(s) /\ Len(contents'[d]) = j + 1
            /\ Sent(m, b)' = Sent(m, b)
        BY <1>3, <1>4, <1>9, <1>11, <1>12, <2>3, <3>2, <3>3 DEF Result
      <4> QED BY <1>14, <2>3, <3>3, <4>1
    <3>4. CASE d # c
      <4>1. LostList(m, b) # key
        BY <1>3, <1>4, <2>3, <3>4, ListNames DEF Result, Alone
      <4>2. /\ redis'[LostList(m, b)] = redis[LostList(m, b)]
            /\ contents'[d] = contents[d] /\ Sent(m, b)' = Sent(m, b)
        BY <1>11, <1>12, <3>2, <3>4, <4>1
      <4> QED BY <1>1, <2>3, <4>2 DEF LostInv, Result
    <3> QED BY <3>3, <3>4
  <2> QED BY <1>2, <2>2, <2>3, AloneAfter DEF LostInv
<1>16. ClientInv'
  <2>1. PICK u : u = Append(contents[c], v)
    OBVIOUS
  <2>2. /\ contents'[c] = u /\ Len(u) = j + 1 /\ u[j + 1] = v
        /\ \A k \in 1..j : u[k] = contents[c][k]
    BY <1>3, <1>4, <1>9, <1>11, <2>1
  <2>3. /\ Len(out[c]) = processed[c] /\ processed[c] <= j /\ processed[c] \in Nat
        /\ \A k \in 1..Len(out[c]) : out[c][k] = contents[c][k]
        /\ Alone(c) => \A k \in 1..j : contents[c][k] = Repaired(c, k - 1)
        /\ Shared(c) => \A k \in 1..j : \E p \in Pkts : contents[c][k] = Repaired(c, p)
    BY <1>1, <1>3 DEF ClientInv, Typed, Whole
  <2>4. \A k \in 1..(j + 1) : k \in 1..j \/ k = j + 1
    BY <1>4
  <2>5. Len(u) <= PktCnt /\ processed[c] <= Len(u)
    BY <1>4, <1>7, <2>2, <2>3, OneJob
  <2>6. \A k \in 1..Len(out[c]) : out[c][k] = u[k]
    BY <1>4, <2>2, <2>3
  <2>7. Alone(c) => \A k \in 1..Len(u) : u[k] = Repaired(c, k - 1)
    <3>1. ASSUME Alone(c) PROVE v = Repaired(c, (j + 1) - 1)
      <4>1. v = Partial(c, EcK, j) /\ (j + 1) - 1 = j
        BY <1>4, <1>14, <3>1
      <4> QED BY <4>1 DEF Partial, Repaired
    <3> QED BY <2>2, <2>3, <2>4, <3>1
  <2>8. Shared(c) => Whole(u, c)
    BY <1>14, <2>2, <2>3, <2>4 DEF Whole
  <2>9. SUFFICES ASSUME NEW d \in Clients
                 PROVE  /\ Len(out[d]) = processed[d] /\ processed[d] <= Len(contents'[d])
                        /\ Len(contents'[d]) <= PktCnt
                        /\ \A k \in 1..Len(out[d]) : out[d][k] = contents'[d][k]
                        /\ Alone(d) => \A k \in 1..Len(contents'[d]) :
                                         contents'[d][k] = Repaired(d, k - 1)
                        /\ Shared(d) => Whole(contents'[d], d)
    <3>1. \A d, k : Repaired(d, k - 1)' = Repaired(d, k - 1)
      BY <1>2 DEF Repaired
    <3> QED BY <1>2, <1>7, <3>1, Fixed DEF ClientInv
  <2>10. CASE d = c
    BY <2>2, <2>3, <2>5, <2>6, <2>7, <2>8, <2>10
  <2>11. CASE d # c
    BY <1>1, <1>11, <2>11 DEF ClientInv
  <2> QED BY <2>10, <2>11
<1> QED BY <1>10, <1>12, <1>13, <1>15, <1>16 DEF PipeInv

\* pipeForwardWorker writes the next packet taken to the file.
LEMMA ForwardInv ==
    ASSUME PipeInv, NEW c \in Clients, PipeForwardWorker(c), UNCHANGED pipeVars
    PROVE  PipeInv'
<1>1. Typed /\ TmpInv /\ LostInv /\ ClientInv
  BY DEF PipeInv
<1>2. /\ chain' = chain /\ lost' = lost /\ cmds' = cmds /\ cur' = cur /\ pkt' = pkt
      /\ flag' = flag /\ toSend' = toSend /\ rd' = rd /\ pu' = pu /\ se' = se
  BY DEF pipeVars
<1>3. PICK j, v, s : j = processed[c] /\ v = contents[c][j + 1] /\ s = out[c]
  OBVIOUS
<1>4. /\ j \in Nat /\ s \in Seq(Packets) /\ contents[c] \in Seq(Packets)
      /\ out \in [Clients -> Seq(Packets)] /\ processed \in [Clients -> Nat]
  BY <1>1, <1>3 DEF Typed
<1>5. JobAt(j) = 1
  BY <1>4, OneJob
<1>6. /\ j < Len(contents[c]) /\ processed' = [processed EXCEPT ![c] = j + 1]
      /\ out' = [out EXCEPT ![c] = Append(s, v)]
      /\ redis' = redis /\ fetch' = fetch /\ contents' = contents
  BY <1>3, <1>5 DEF PipeForwardWorker
<1>7. v \in Packets
  BY <1>3, <1>4, <1>6
<1>8. Typed'
  <2>1. out' \in [Clients -> Seq(Packets)] /\ processed' \in [Clients -> Nat]
    BY <1>4, <1>6, <1>7
  <2> QED BY <1>1, <1>2, <1>6, <2>1 DEF Typed
<1>9. /\ CmdsInv' /\ \A m \in Nodes : Threads(m)' /\ Buffers(m)'
      /\ TmpInv' /\ LostInv'
  BY <1>2, <1>6, WorkersSame, ListsSame
<1>10. ClientInv'
  <2>1. PICK u : u = Append(s, v)
    OBVIOUS
  <2>2. /\ Len(s) = j /\ j + 1 <= Len(contents[c])
        /\ \A k \in 1..Len(s) : s[k] = contents[c][k]
    BY <1>1, <1>3, <1>4, <1>6 DEF ClientInv
  <2>3. Len(u) = j + 1 /\ u[j + 1] = v /\ \A k \in 1..j : u[k] = s[k]
    BY <1>4, <1>7, <2>1, <2>2
  <2>4. \A k \in 1..Len(u) : u[k] = contents[c][k]
    <3>1. \A k \in 1..(j + 1) : k \in 1..j \/ k = j + 1
      BY <1>4
    <3> QED BY <1>3, <2>2, <2>3, <3>1
  <2>5. /\ out'[c] = u /\ processed'[c] = j + 1
        /\ \A d \in Clients : d # c => out'[d] = out[d] /\ processed'[d] = processed[d]
    BY <1>4, <1>6, <2>1
  <2>6. SUFFICES ASSUME NEW d \in Clients
                 PROVE  /\ Len(out'[d]) = processed'[d] /\ processed'[d] <= Len(contents[d])
                        /\ \A k \in 1..Len(out'[d]) : out'[d][k] = contents[d][k]
    <3>1. \A d, k : Repaired(d, k - 1)' = Repaired(d, k - 1)
      BY <1>2 DEF Repaired
    <3> QED BY <1>1, <1>2, <1>6, <3>1, Fixed DEF ClientInv
  <2>7. CASE d = c
    BY <2>2, <2>3, <2>4, <2>5, <2>7
  <2>8. CASE d # c
    BY <1>1, <2>5, <2>8 DEF ClientInv
  <2> QED BY <2>7, <2>8
<1> QED BY <1>8, <1>9, <1>10 DEF PipeInv

\* The initial states: no command taken, no packet anywhere.
LEMMA InitInv == Init => PipeInv
<1> SUFFICES ASSUME Init PROVE PipeInv
  OBVIOUS
<1>1. /\ chain \in [Requests -> Chains] /\ lost \in [Requests -> LostBlocks]
      /\ R \in Nat /\ EcK \in Nat \ {0} /\ PktCnt \in Nat \ {0} /\ Clients \subseteq Requests
  BY PipeAssumption, StreamAssumption DEF Init
<1>2. /\ \A n \in Nodes : cur[n] = 0
      /\ \A l \in Lists : redis[l] = <<>>
      /\ \A c \in Clients : contents[c] = <<>> /\ out[c] = <<>> /\ processed[c] = 0
      /\ \A n \in Nodes : \A p \in Pkts : ~flag[n][p]
  BY DEF Init, StreamInit
<1>3. ASSUME NEW n \in Nodes
      PROVE  cmds[n] \in Seq({c \in Requests : n \in Helpers(c)})
  <2>1. PICK H : H = {c \in Requests : n \in Helpers(c)}
    OBVIOUS
  <2>2. H \subseteq 1..R
    BY <2>1 DEF Requests
  <2>3. Queued(R, H) \in Seq(H)
    BY <1>1, <2>2, QueuedFacts
  <2> QED BY <2>1, <2>3 DEF Init
<1>4. Typed
  <2>1. cmds \in [Nodes -> Seq(Requests)]
    <3>1. ASSUME NEW n \in Nodes PROVE cmds[n] \in Seq(Requests)
      <4>1. PICK H : H = {c \in Requests : n \in Helpers(c)}
        OBVIOUS
      <4>2. H \subseteq Requests /\ cmds[n] \in Seq(H)
        BY <1>3, <4>1
      <4> QED BY <4>2
    <3>2. cmds = [n \in Nodes |-> cmds[n]]
      BY DEF Init
    <3> QED BY <3>1, <3>2
  <2>2. {} \in Packets /\ <<>> \in Seq(Packets) /\ 0 \in Nat
    BY DEF Packets
  <2>3. /\ redis \in [Lists -> Seq(Packets)]
        /\ contents \in [Clients -> Seq(Packets)] /\ out \in [Clients -> Seq(Packets)]
        /\ processed \in [Clients -> Nat]
    BY <2>2 DEF Init, StreamInit
  <2>4. /\ pkt \in [Nodes -> [Pkts -> Packets]] /\ flag \in [Nodes -> [Pkts -> BOOLEAN]]
    BY <2>2 DEF Init
  <2>5. /\ toSend \in [Nodes -> Nat] /\ rd \in [Nodes -> Nat]
        /\ pu \in [Nodes -> Nat] /\ se \in [Nodes -> Nat]
        /\ cur \in [Nodes -> Requests \cup {0}]
        /\ fetch = [c \in Clients |-> [j \in Jobs |-> LostList(chain[c][EcK], lost[c])]]
    BY DEF Init
  <2> QED BY <1>1, <2>1, <2>3, <2>4, <2>5 DEF Typed
<1>5. CmdsInv
  <2>1. SUFFICES ASSUME NEW n \in Nodes, NEW c \in Requests,
                        cur[n] = c \/ (\E i \in 1..Len(cmds[n]) : cmds[n][i] = c)
                 PROVE  n \in Helpers(c)
    BY DEF CmdsInv
  <2>2. c # 0
    BY <1>1 DEF Requests
  <2>3. PICK i \in 1..Len(cmds[n]) : cmds[n][i] = c
    BY <1>2, <2>1, <2>2
  <2>4. PICK H : H = {d \in Requests : n \in Helpers(d)}
    OBVIOUS
  <2>5. cmds[n] \in Seq(H)
    BY <1>3, <2>4
  <2>6. c \in H
    BY <2>3, <2>5
  <2> QED BY <2>4, <2>6
<1>6. \A n \in Nodes : Threads(n) /\ Buffers(n)
  <2>1. 0 \notin Requests
    BY <1>1 DEF Requests
  <2> QED BY <1>2, <2>1 DEF Threads, Buffers
<1>7. \A c, i : Between(<<>>, c, i, 0, 0) /\ Whole(<<>>, c)
  <2>1. 0 + Len(<<>>) = 0 /\ \A k : k \notin 1..Len(<<>>)
    OBVIOUS
  <2> QED BY <2>1 DEF Between, Cyclic, Whole
<1>8. \A n \in Nodes : \A b : Sent(n, b) = 0 /\ Pulled(n, b) = 0
  BY <1>2 DEF Sent, Pulled
<1>9. TmpInv
  <2>1. SUFFICES ASSUME NEW c \in Requests, NEW i \in 1..(EcK - 1)
                 PROVE  Between(redis[TmpList(chain[c][i], lost[c])], c, i,
                                Pulled(chain[c][i + 1], lost[c]), Sent(chain[c][i], lost[c]))
    BY DEF TmpInv
  <2>2. i \in 1..EcK /\ i + 1 \in 1..EcK
    BY <1>1
  <2>3. /\ redis[TmpList(chain[c][i], lost[c])] = <<>>
        /\ Pulled(chain[c][i + 1], lost[c]) = 0 /\ Sent(chain[c][i], lost[c]) = 0
    BY <1>2, <1>4, <1>8, <2>2, ListsOf
  <2> QED BY <1>7, <2>3
<1>10. LostInv
  <2>1. \A c \in Requests : /\ redis[Result(c)] = <<>>
                            /\ Sent(chain[c][EcK], lost[c]) = 0
    <3>1. EcK \in 1..EcK
      BY <1>1
    <3> QED BY <1>2, <1>4, <1>8, <3>1, ListsOf
  <2>2. \A c \in Clients : c \in Requests /\ Len(contents[c]) = 0
    BY <1>1, <1>2
  <2> QED BY <1>7, <2>1, <2>2 DEF LostInv
<1>11. ClientInv
  <2>1. Len(<<>>) = 0 /\ \A k : k \notin 1..Len(<<>>)
    OBVIOUS
  <2> QED BY <1>1, <1>2, <1>7, <2>1 DEF ClientInv
<1> QED BY <1>4, <1>5, <1>6, <1>9, <1>10, <1>11 DEF PipeInv

\* Every step of a helper's threads and of the clients.
LEMMA NextInv == PipeInv /\ [Next]_vars => PipeInv'
<1> SUFFICES ASSUME PipeInv, [Next]_vars PROVE PipeInv'
  OBVIOUS
<1>1. ASSUME NEW n \in Nodes, ReadWorker(n) \/ Main(n) \/ SendWorker(n) \/ PullTimeout(n)
      PROVE  PipeInv'
  BY <1>1, ReadWorkerInv, TakeCmdInv, PullInv, FinishInv, SendWorkerInv, PullTimeoutInv
     DEF Main
<1>2. ASSUME NEW c \in Clients, Client(c) PROVE PipeInv'
  BY <1>2, CollectorInv, ForwardInv DEF Client, StreamNext
<1>3. CASE UNCHANGED vars
  <2>1. /\ chain' = chain /\ lost' = lost /\ redis' = redis /\ fetch' = fetch
        /\ contents' = contents /\ out' = out /\ processed' = processed
        /\ cmds' = cmds /\ cur' = cur /\ toSend' = toSend /\ pu' = pu /\ se' = se
        /\ rd' = rd /\ pkt' = pkt /\ flag' = flag /\ UNCHANGED pipeVars
    BY <1>3 DEF vars, clientVars, pipeVars
  <2>2. Typed'
    BY <2>1 DEF PipeInv, Typed
  <2> QED BY <2>1, <2>2, WorkersSame, ListsSame, ClientsSame DEF PipeInv
<1> QED BY <1>1, <1>2, <1>3 DEF Next

\* The invariant of the pipeline, whatever the threads of the helpers, the
\* timeouts and the clients do.
THEOREM PipeInductive == Spec => []PipeInv
<1>1. Init => PipeInv
  BY InitInv
<1>2. PipeInv /\ [Next]_vars => PipeInv'
  BY NextInv
<1> QED BY <1>1, <1>2, PTL DEF Spec

\* The file of a client whose block no other request repairs holds the packets
\* of the lost block in their order, each the sum of all helpers' terms: for
\* any number of requests, nodes, helpers in a chain and packets in a block.
THEOREM BlocksRepairedInOrder == Spec => []RepairedInOrder
<1>1. PipeInv => RepairedInOrder
  <2>1. SUFFICES ASSUME PipeInv, NEW c \in Clients, Alone(c), NEW k \in 1..Len(out[c])
                 PROVE  out[c][k] = Repaired(c, k - 1)
    BY DEF RepairedInOrder
  <2>2. ClientInv /\ processed[c] \in Nat /\ contents[c] \in Seq(Packets)
    BY <2>1 DEF PipeInv, Typed
  <2>3. k \in 1..Len(contents[c]) /\ out[c][k] = contents[c][k]
    BY <2>1, <2>2 DEF ClientInv
  <2> QED BY <2>1, <2>2, <2>3 DEF ClientInv
<1> QED BY <1>1, PipeInductive, PTL

\* Clients that repair the same block at the same time through the same chain
\* take packets from each other, and every packet either gets is whole.
THEOREM SharedRepairsWhole == Spec => []SharedPacketsWhole
<1>1. PipeInv => SharedPacketsWhole
  BY DEF PipeInv, ClientInv, Whole, Shared, SharedPacketsWhole
<1> QED BY <1>1, PipeInductive, PTL
=============================================================================
