---- MODULE ConvDRWorker ----
(***************************************************************************)
(* Conventional repair (policy conv): ConvDRWorker.cc with CONV_OPT, the   *)
(* build's setting.                                                        *)
(*                                                                         *)
(* Every helper of a request reads its block and pushes the packets, not   *)
(* multiplied, to the Redis of the requestor: three threads, as in         *)
(* PipeDRWorker but without a predecessor.  The requestor node runs        *)
(*   - fetchMulWorker, which allocates the buffers and starts one          *)
(*     readThread per helper.  They count what each has received, and the  *)
(*     one that raises the minimum counts a packet for the main thread;    *)
(*   - the main thread (requestorMulCompletion), which combines the        *)
(*     helpers' packets once per lost block;                               *)
(*   - sendMulWorker, which pushes the results to the node's own Redis and *)
(*     frees the buffers when it has pushed them all.                      *)
(* A node is helper in one request and requestor in the next.              *)
(***************************************************************************)
EXTENDS Integers, Sequences, FiniteSets, FiniteSetsExt, CondVar, RedisLists

CONSTANTS R,        \* how many requests the coordinator took
          Nodes,
          EcK,      \* helpers per request
          Nj,       \* lost blocks per request
          PktCnt    \* packets per block

ASSUME ConvAssumption ==
  /\ R \in Nat
  /\ EcK \in Nat \ {0}
  /\ Nj \in Nat \ {0}
  /\ PktCnt \in Nat \ {0}

Requests == 1..R
Ids == 0..(EcK - 1)
Jobs == 0..(Nj - 1)
Pkts == 0..(PktCnt - 1)
Total == Nj * PktCnt

VARIABLES team,     \* [Requests -> [0..EcK -> Nodes]]: helpers by id, the requestor last
          cmds,     \* dr_cmds of each node
          cur,      \* the request being executed, 0 when in blpop dr_cmds
          redis,    \* lists tmp:<lost>:<id> and <lost>, all servers
          pkt,      \* _diskPkts of a helper
          flag,     \* _diskFlag
          toSend,   \* _waitingToSend
          toPull,   \* _waitingToPull
          num,      \* _waitingToPullerNum
          alloc,    \* _diskPkts3 is allocated
          buf,      \* _diskPkts3[.][id], id < ecK
          sum,      \* _diskPkts3[.][ecK + j]
          rd, pu, se,   \* how far reader, main thread and sender are
          missed    \* <<node, thread>> that sleep through a notification

vars == <<team, cmds, cur, redis, pkt, flag, toSend, toPull, num, alloc, buf, sum,
          rd, pu, se, missed>>

Requestor(c) == team[c][EcK]
IsHelper(n) == cur[n] # 0 /\ Requestor(cur[n]) # n
IsRequestor(n) == cur[n] # 0 /\ Requestor(cur[n]) = n
Id(n) == CHOOSE i \in Ids : team[cur[n]][i] = n

\* The Redis lists of a request, all on its requestor; blocks are named by
\* request and job.
TmpList(c, id) == <<"tmp", c, id>>
LostList(c, j) == <<"lost", c, j>>
Lists == {TmpList(c, i) : c \in Requests, i \in Ids}
         \cup {LostList(c, j) : c \in Requests, j \in Jobs}

\* A packet as a helper reads it, and RSUtil::multiply by its coefficient for job j.
Raw(n, c, p) == {<<n, c, p>>}
Multiply(v, j, id) == {<<t, j, id>> : t \in v}

NoPkts == [p \in Pkts |-> {}]

Init ==
  /\ team \in [Requests -> {s \in [0..EcK -> Nodes] : \A i, k \in 0..EcK : s[i] = s[k] => i = k}]
  /\ cmds = [n \in Nodes |-> Queued(R, {c \in Requests : \E i \in 0..EcK : team[c][i] = n})]
  /\ cur = [n \in Nodes |-> 0]
  /\ redis = [l \in Lists |-> <<>>]
  /\ pkt = [n \in Nodes |-> NoPkts]
  /\ flag = [n \in Nodes |-> [p \in Pkts |-> FALSE]]
  /\ toSend = [n \in Nodes |-> 0]
  /\ toPull = [n \in Nodes |-> 0]
  /\ num = [n \in Nodes |-> [i \in Ids |-> 0]]
  /\ alloc = [n \in Nodes |-> FALSE]
  /\ buf = [n \in Nodes |-> [p \in Pkts |-> [i \in Ids |-> {}]]]
  /\ sum = [n \in Nodes |-> [p \in Pkts |-> [j \in Jobs |-> {}]]]
  /\ rd = [n \in Nodes |-> 0] /\ pu = [n \in Nodes |-> 0] /\ se = [n \in Nodes |-> 0]
  /\ missed = {}

\* doProcess: a command whose coefficient is negative makes the node the
\* requestor, any other a helper.  Either way the counters start at 0.
TakeCmd(n) ==
  /\ cur[n] = 0
  /\ cmds[n] # <<>>
  /\ cur' = [cur EXCEPT ![n] = Head(cmds[n])]
  /\ cmds' = [cmds EXCEPT ![n] = Tail(@)]
  /\ toSend' = [toSend EXCEPT ![n] = 0]
  /\ toPull' = IF Requestor(Head(cmds[n])) = n THEN [toPull EXCEPT ![n] = 0] ELSE toPull
  /\ rd' = [rd EXCEPT ![n] = 0] /\ pu' = [pu EXCEPT ![n] = 0] /\ se' = [se EXCEPT ![n] = 0]
  /\ UNCHANGED <<team, redis, pkt, flag, num, alloc, buf, sum, missed>>

----------------------------------------------------------------------------
\* The helper.

\* readWorker: the packet, then under _diskMtx[i] its flag and the notification.
\* Nobody looks at a packet whose flag is down.
ReadWorker(n) ==
  LET i == rd[n] IN
  /\ IsHelper(n)
  /\ i < PktCnt
  /\ pkt' = [pkt EXCEPT ![n][i] = Raw(n, cur[n], i)]
  /\ flag' = [flag EXCEPT ![n][i] = TRUE]
  /\ rd' = [rd EXCEPT ![n] = i + 1]
  /\ missed' \in Notify(missed, {t \in {<<n, "pull">>} :
                                  t \in missed \/ (pu[n] = i /\ ~flag[n][i])})
  /\ UNCHANGED <<team, cmds, cur, redis, toSend, toPull, num, alloc, buf, sum, pu, se>>

\* _waitingToSend ++ and the notification of the sender, which waits for k.
CountForSender(n, k) ==
  /\ toSend' = [toSend EXCEPT ![n] = k + 1]
  /\ missed' \in Notify(missed, {t \in {<<n, "send">>} : t \in missed \/ se[n] = k})

\* requestorCompletion: a packet whose flag is up is counted for the sender.
RequestorCompletion(n) ==
  LET k == pu[n] IN
  /\ IsHelper(n)
  /\ k < PktCnt
  /\ flag[n][k]
  /\ <<n, "pull">> \notin missed
  /\ CountForSender(n, toSend[n])
  /\ pu' = [pu EXCEPT ![n] = k + 1]
  /\ UNCHANGED <<team, cmds, cur, redis, pkt, flag, toPull, num, alloc, buf, sum, rd, se>>

\* sendWorker: RPUSH tmp:<lost>:<id> on the requestor's Redis.
SendWorker(n) ==
  LET i == se[n]
      key == TmpList(cur[n], Id(n)) IN
  /\ IsHelper(n)
  /\ i < toSend[n]
  /\ <<n, "send">> \notin missed
  /\ redis' = Push(redis, key, pkt[n][i])
  /\ se' = [se EXCEPT ![n] = i + 1]
  /\ UNCHANGED <<team, cmds, cur, pkt, flag, toSend, toPull, num, alloc, buf, sum, rd, pu, missed>>

----------------------------------------------------------------------------
\* The requestor.

\* fetchMulWorker: the buffers and counters, then the readThreads may start.
Allocate(n) ==
  /\ IsRequestor(n)
  /\ rd[n] = 0
  /\ rd' = [rd EXCEPT ![n] = 1]
  /\ alloc' = [alloc EXCEPT ![n] = TRUE]
  /\ buf' = [buf EXCEPT ![n] = [p \in Pkts |-> [i \in Ids |-> {}]]]
  /\ sum' = [sum EXCEPT ![n] = [p \in Pkts |-> [j \in Jobs |-> {}]]]
  /\ num' = [num EXCEPT ![n] = [i \in Ids |-> 0]]
  /\ UNCHANGED <<team, cmds, cur, redis, pkt, flag, toSend, toPull, pu, se, missed>>

\* Mutants: a packet counts when one helper has sent it; the minimum starts at 0.
MinNum_Any(nums) == Max({nums[j] : j \in Ids})
MinNum_FromZero(nums) == Min({0} \cup {nums[j] : j \in Ids})

\* How many packets every helper has delivered.
MinNum(nums) == Min({nums[j] : j \in Ids})

\* readThread of helper id: stores the next packet and, under
\* _waitingToPullerMtx, counts it.  When all helpers have sent one packet more
\* than the main thread knows of, that is counted too and the thread notified.
\* The `if' is entered only by the thread that raises the minimum.
ReadThread(n, id) ==
  LET key == TmpList(cur[n], id)
      i == num[n][id]
      num1 == [num[n] EXCEPT ![id] = i + 1]
      minNum == MinNum(num1) IN
  /\ IsRequestor(n)
  /\ rd[n] = 1
  /\ i < PktCnt
  /\ redis[key] # <<>>
  /\ redis' = Pop(redis, key)
  /\ buf' = [buf EXCEPT ![n][i][id] = Head(redis[key])]
  /\ num' = [num EXCEPT ![n] = num1]
  /\ IF minNum > toPull[n]
       THEN /\ toPull' = [toPull EXCEPT ![n] = @ + 1]
            /\ missed' \in Notify(missed, {t \in {<<n, "pull">>} :
                                            t \in missed \/ pu[n] = Nj * toPull[n]})
       ELSE UNCHANGED <<toPull, missed>>
  /\ UNCHANGED <<team, cmds, cur, pkt, flag, toSend, alloc, sum, rd, pu, se>>

\* requestorMulCompletion: one lost block of one packet, summed over the helpers.
\* It tests _waitingToPull before the first job of a packet.
Combine(v, j) ==
  LET total[i \in 0..EcK] == IF i = 0 THEN {} ELSE Xor(total[i - 1], Multiply(v[i - 1], j, i - 1))
  IN  total[EcK]

RequestorMulCompletion(n) ==
  LET p == pu[n] \div Nj
      j == pu[n] % Nj IN
  /\ IsRequestor(n)
  /\ pu[n] < Total
  /\ j # 0 \/ (p < toPull[n] /\ <<n, "pull">> \notin missed)
  /\ sum' = [sum EXCEPT ![n][p][j] = Combine(buf[n][p], j)]
  /\ CountForSender(n, toSend[n])
  /\ pu' = [pu EXCEPT ![n] = @ + 1]
  /\ UNCHANGED <<team, cmds, cur, redis, pkt, flag, toPull, num, alloc, buf, rd, se>>

\* sendMulWorker has pushed k packets: the buffers are freed after the last.
InUse(k) == k < Total

\* sendMulWorker: RPUSH <lost> on the own Redis; after the last, everything is freed.
SendMulWorker(n) ==
  LET k == se[n]
      key == LostList(cur[n], k % Nj) IN
  /\ IsRequestor(n)
  /\ k < toSend[n]
  /\ <<n, "send">> \notin missed
  /\ redis' = Push(redis, key, sum[n][k \div Nj][k % Nj])
  /\ se' = [se EXCEPT ![n] = k + 1]
  /\ alloc' = [alloc EXCEPT ![n] = InUse(k + 1)]
  /\ UNCHANGED <<team, cmds, cur, pkt, flag, toSend, toPull, num, buf, sum, rd, pu, missed>>

----------------------------------------------------------------------------
Joined(n) ==
  \/ IsHelper(n) /\ rd[n] = PktCnt /\ pu[n] = PktCnt /\ se[n] = PktCnt
  \/ /\ IsRequestor(n) /\ rd[n] = 1 /\ pu[n] = Total /\ se[n] = Total
     /\ \A i \in Ids : num[n][i] = PktCnt

\* The threads are joined; DRWorker::cleanup.
Finish(n) ==
  /\ Joined(n)
  /\ cur' = [cur EXCEPT ![n] = 0]
  /\ flag' = [flag EXCEPT ![n] = [p \in Pkts |-> FALSE]]
  /\ toSend' = [toSend EXCEPT ![n] = 0]
  /\ pkt' = [pkt EXCEPT ![n] = NoPkts]
  /\ UNCHANGED <<team, cmds, redis, toPull, num, alloc, buf, sum, rd, pu, se, missed>>

Helper(n) == ReadWorker(n) \/ RequestorCompletion(n) \/ SendWorker(n)
Fetcher(n) == Allocate(n) \/ (\E id \in Ids : ReadThread(n, id))
           \/ RequestorMulCompletion(n) \/ SendMulWorker(n)

Next == \E n \in Nodes : TakeCmd(n) \/ Helper(n) \/ Fetcher(n) \/ Finish(n)

Spec == Init /\ [][Next]_vars

----------------------------------------------------------------------------
Repaired(c, j, p) == {<<<<team[c][i], c, p>>, j, i>> : i \in Ids}

\* Packet k of lost block j in the requestor's Redis is the sum, with the
\* coefficients of block j, of packet k of every helper's block, whatever the
\* helpers, the readThreads, the main thread and the sender did in between and
\* whatever requests the nodes served before.  The sender frees _diskPkts3
\* without joining anybody: by then no readThread has a packet left to store and
\* the main thread none to combine.
LostBlocksRebuilt ==
  /\ \A c \in Requests, j \in Jobs : \A k \in 1..Len(redis[LostList(c, j)]) :
       redis[LostList(c, j)][k] = Repaired(c, j, k - 1)
  /\ \A n \in Nodes :
       /\ IsRequestor(n) /\ rd[n] = 1 /\ ~alloc[n] =>
            pu[n] = Total /\ \A i \in Ids : num[n][i] = PktCnt
       /\ ~IsRequestor(n) => ~alloc[n]

PullStuck(n) ==
  /\ <<n, "pull">> \in missed
  /\ IF IsHelper(n) THEN rd[n] = PktCnt ELSE toPull[n] = PktCnt
SendStuck(n) == <<n, "send">> \in missed /\ pu[n] = IF IsHelper(n) THEN PktCnt ELSE Total

\* The nodes come to a halt only when all commands are carried out or a thread
\* missed the last notification it was to get.
HaltsOnlyOnMissedWakeup ==
  \/ ENABLED Next
  \/ \A n \in Nodes : cur[n] = 0 /\ cmds[n] = <<>>
  \/ \E n \in Nodes : PullStuck(n) \/ SendStuck(n)
====
