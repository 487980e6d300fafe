---- MODULE PPRPullDRWorker ----
(***************************************************************************)
(* Partial-parallel repair (policy ppr): PPRPullDRWorker.cc.  The helpers  *)
(* and the requestor form the tree of module PprTree.  On each node        *)
(*   - the reader loads and multiplies the local packets (the requestor    *)
(*     has none) and counts them in _waitingToPull;                        *)
(*   - one readThread per child waits for the local packet, pops the       *)
(*     child's packet, XORs it in and counts it; the one that raises the   *)
(*     minimum over the children releases the packet to the sender.  A     *)
(*     leaf's puller releases packets as they are read;                    *)
(*   - the main thread pushes released packets: to the node's own Redis,   *)
(*     or to the requestor's when the requestor is the parent.             *)
(***************************************************************************)
EXTENDS Sequences, PprTree, CondVar, RedisLists

CONSTANTS R,        \* how many requests the coordinator took
          Nodes,
          EcK,      \* helpers per request
          PktCnt    \* packets per block

ASSUME PprAssumption ==
  /\ R \in Nat
  /\ EcK \in 1..MaxEcK
  /\ PktCnt \in Nat \ {0}

Requests == 1..R
Pkts == 0..(PktCnt - 1)
Places0 == 0..EcK

VARIABLES team,     \* [Requests -> [0..EcK -> Nodes]]: holderIps, the requestor last
          cmds,     \* dr_cmds of each node
          cur,      \* the request being executed, 0 when in blpop dr_cmds
          redis,    \* lists, all servers
          pkt,      \* _diskPkts
          toPull,   \* _waitingToPull
          toSend,   \* _waitingToSend
          num,      \* _indicesWaiting, by child; for a leaf the puller's own index
          se,       \* packets the main thread has pushed
          missed

vars == <<team, cmds, cur, redis, pkt, toPull, toSend, num, se, missed>>

Id(n) == CHOOSE i \in Places0 : team[cur[n]][i] = n

\* The puller's threads on a node: one per child, or itself.
Leaf == -1
Sender == -2     \* the main thread, in `missed'
Pullers(id) == IF ChildrenOf(id, EcK) = {} THEN {Leaf} ELSE ChildrenOf(id, EcK)

\* Redis lists by server.  A node pushes to its own server unless its parent is
\* the requestor; a parent pops from the child's server, the requestor from its own.
TmpList(n, c, id) == <<n, "tmp", c, id>>
LostList(n, c) == <<n, "lost", c, 0>>
Lists == {TmpList(n, c, i) : n \in Nodes, c \in Requests, i \in Places0}
         \cup {LostList(n, c) : n \in Nodes, c \in Requests}

\* Mutant: every node pushes to its own server.
WriteList_Own(c, id) ==
  IF id = EcK THEN LostList(team[c][id], c) ELSE TmpList(team[c][id], c, id)

WriteList(c, id) ==
  LET server == IF PPRnextIP(id) >= EcK THEN team[c][EcK] ELSE team[c][id]
  IN  IF id = EcK THEN LostList(server, c) ELSE TmpList(server, c, id)
ReadList(c, id, child) == TmpList(team[c][IF id = EcK THEN EcK ELSE child], c, child)

Term(n, c, p) == {<<n, c, p>>}

Init ==
  /\ team \in [Requests -> {s \in [Places0 -> Nodes] : \A i, k \in Places0 : s[i] = s[k] => i = k}]
  /\ cmds = [n \in Nodes |-> Queued(R, {c \in Requests : \E i \in Places0 : team[c][i] = n})]
  /\ cur = [n \in Nodes |-> 0]
  /\ redis = [l \in Lists |-> <<>>]
  /\ pkt = [n \in Nodes |-> [p \in Pkts |-> {}]]
  /\ toPull = [n \in Nodes |-> 0]
  /\ toSend = [n \in Nodes |-> 0]
  /\ num = [n \in Nodes |-> <<>>]
  /\ se = [n \in Nodes |-> 0]
  /\ missed = {}

\* doProcess: parses the command, resets both counters, starts reader and
\* puller; the puller allocates a counter per child.
TakeCmd(n) ==
  LET c == Head(cmds[n])
      id == CHOOSE i \in Places0 : team[c][i] = n IN
  /\ cur[n] = 0
  /\ cmds[n] # <<>>
  /\ cur' = [cur EXCEPT ![n] = c]
  /\ cmds' = [cmds EXCEPT ![n] = Tail(@)]
  /\ toPull' = [toPull EXCEPT ![n] = 0]
  /\ toSend' = [toSend EXCEPT ![n] = 0]
  /\ num' = [num EXCEPT ![n] = [x \in Pullers(id) |-> 0]]
  /\ se' = [se EXCEPT ![n] = 0]
  /\ UNCHANGED <<team, redis, pkt, missed>>

\* readWorker: the packet, _waitingToPull ++ and notify_all.  The requestor has
\* no local block and only counts.
ReadWorker(n) ==
  LET i == toPull[n] IN
  /\ cur[n] # 0
  /\ i < PktCnt
  /\ pkt' = IF Id(n) = EcK THEN pkt ELSE [pkt EXCEPT ![n][i] = Term(n, cur[n], i)]
  /\ toPull' = [toPull EXCEPT ![n] = i + 1]
  /\ missed' \in Notify(missed, {t \in {<<n, x>> : x \in DOMAIN num[n]} :
                                  num[n][t[2]] = i \/ t \in missed})
  /\ UNCHANGED <<team, cmds, cur, redis, toSend, num, se>>

\* _waitingToSend is raised to k and the main thread notified.
Release(n, k) ==
  /\ toSend' = [toSend EXCEPT ![n] = k]
  /\ missed' \in Notify(missed, {t \in {<<n, Sender>>} : se[n] = toSend[n] \/ t \in missed})

\* The thread has been let through `while (i >= _waitingToPull)'.
LetThrough(n, x) == num[n][x] < toPull[n] /\ <<n, x>> \notin missed

\* puller of a node without children
Puller(n) ==
  /\ cur[n] # 0
  /\ Leaf \in DOMAIN num[n]
  /\ LetThrough(n, Leaf)
  /\ num' = [num EXCEPT ![n][Leaf] = @ + 1]
  /\ Release(n, toSend[n] + 1)
  /\ UNCHANGED <<team, cmds, cur, redis, pkt, toPull, se>>

\* Mutant: a packet is released when one child's has come.
MinNum_Any(nums) == Max({nums[y] : y \in DOMAIN nums})

\* How many packets every child has delivered.
MinNum(nums) == Min({nums[y] : y \in DOMAIN nums})

\* readThread: one packet of one child, under _readThreadMtx.
ReadThread(n, x) ==
  LET key == ReadList(cur[n], Id(n), x)
      i == num[n][x]
      num1 == [num[n] EXCEPT ![x] = i + 1]
      minNum == MinNum(num1) IN
  /\ cur[n] # 0
  /\ LetThrough(n, x)
  /\ redis[key] # <<>>
  /\ pkt' = [pkt EXCEPT ![n][i] = Xor(@, Head(redis[key]))]
  /\ redis' = Pop(redis, key)
  /\ num' = [num EXCEPT ![n] = num1]
  /\ IF toSend[n] < minNum THEN Release(n, minNum) ELSE UNCHANGED <<toSend, missed>>
  /\ UNCHANGED <<team, cmds, cur, toPull, se>>

\* The main thread pushes a packet that has been released.
Send(n) ==
  LET i == se[n] IN
  /\ cur[n] # 0
  /\ i < toSend[n]
  /\ <<n, Sender>> \notin missed
  /\ redis' = Push(redis, WriteList(cur[n], Id(n)), pkt[n][i])
  /\ se' = [se EXCEPT ![n] = i + 1]
  /\ UNCHANGED <<team, cmds, cur, pkt, toPull, toSend, num, missed>>

\* Everything is pushed and the threads joined; DRWorker::cleanup.
Finish(n) ==
  /\ cur[n] # 0
  /\ se[n] = PktCnt /\ toPull[n] = PktCnt /\ \A x \in DOMAIN num[n] : num[n][x] = PktCnt
  /\ cur' = [cur EXCEPT ![n] = 0]
  /\ toSend' = [toSend EXCEPT ![n] = 0]
  /\ pkt' = [pkt EXCEPT ![n] = [p \in Pkts |-> {}]]
  /\ UNCHANGED <<team, cmds, redis, toPull, num, se, missed>>

Next == \E n \in Nodes :
  \/ TakeCmd(n) \/ ReadWorker(n) \/ Puller(n) \/ Send(n) \/ Finish(n)
  \/ \E x \in DOMAIN num[n] \ {Leaf} : ReadThread(n, x)

Spec == Init /\ [][Next]_vars

----------------------------------------------------------------------------
\* Packet k in the requestor's Redis is the sum of packet k of every helper, each
\* exactly once, although the helpers' partial sums travel over different
\* servers, the threads of a node write the same buffer, and the nodes serve
\* other requests before and after.
LostBlockRebuilt ==
  \A c \in Requests : LET l == LostList(team[c][EcK], c) IN
    \A k \in 1..Len(redis[l]) : redis[l][k] = UNION {Term(team[c][i], c, k - 1) : i \in 0..(EcK - 1)}

\* The reader has counted its last packet; the pullers have all ended.
PullStuck(n) == toPull[n] = PktCnt /\ \E x \in DOMAIN num[n] : <<n, x>> \in missed
SendStuck(n) == <<n, Sender>> \in missed /\ \A x \in DOMAIN num[n] : num[n][x] = PktCnt

\* The nodes come to a halt only when all commands are carried out or a thread
\* missed the last notification it was to get: no two requests wait for each other.
HaltsOnlyOnMissedWakeup ==
  \/ ENABLED Next
  \/ \A n \in Nodes : cur[n] = 0 /\ cmds[n] = <<>>
  \/ \E n \in Nodes : PullStuck(n) \/ SendStuck(n)
====
