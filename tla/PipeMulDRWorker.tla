---- MODULE PipeMulDRWorker ----
(***************************************************************************)
(* Repair pipelining with several lost blocks per request (policy ecpipe,  *)
(* basic): PipeMulDRWorker.cc with PIPE_MUL_OPT, the build's setting, and  *)
(* the passive receivers of DRWorker.cc.                                   *)
(*                                                                         *)
(* A request with Nj lost blocks reaches every helper of its chain as Nj   *)
(* commands that count down; the last one starts the work.  The reader     *)
(* loads a packet, then copies and multiplies it for each job into         *)
(* _sendMulPkt and raises the packet's flag; the main thread XORs in the   *)
(* previous helper's packets job by job; the sender pushes them in the     *)
(* same order.  The branch does NOT call cleanup(): after its first        *)
(* request a helper's flags are all up, nothing orders the main thread     *)
(* after the reader any more, and the two write the same buffers.          *)
(***************************************************************************)
EXTENDS ECPipeInputStream

CONSTANTS R,            \* how many requests the coordinator took
          Nodes,        \* the nodes a helper runs on
          EcK           \* helpers per request

Requests == 1..R        \* in the order the coordinator took them

\* A request that is not in Clients has a client that is never scheduled.
ASSUME PipeMulAssumption ==
  /\ R \in Nat
  /\ EcK \in Nat \ {0}
  /\ Clients \subseteq Requests

VARIABLES warm,     \* helpers that have served requests before these
          chain,    \* [Requests -> chain of helpers], the same for every lost block
          cmds,     \* dr_cmds of each helper: <<request, job, jobInd>>
          jobs,     \* pipeMulJobs
          cur,      \* the request being executed, 0 when in blpop dr_cmds
          mulPkt,   \* _sendMulPkt, by packet and position in pipeMulJobs
          flag,     \* _diskFlag
          toSend,   \* waitingToSend, by position in pipeMulJobs
          rd, copied,  \* reader: packet * Nj + job, and memcpy done but not multiply
          pu, se,      \* main thread and sender: packet * Nj + job
          passive   \* what the passive receivers have written, by client and job

mulVars == <<warm, chain, cmds, jobs, cur, mulPkt, flag, toSend, rd, copied, pu, se>>
vars == <<redis, fetch, clientVars, missed, mulVars, passive>>

Helpers(c) == {chain[c][i] : i \in 1..EcK}
Id(c, n) == (CHOOSE i \in 1..EcK : chain[c][i] = n) - 1
Prev(c, n) == chain[c][Id(c, n)]

\* The lost blocks are named by request and job.
TmpList(n, c, j) == <<n, "tmp", c, j>>
LostList(n, c, j) == <<n, "lost", c, j>>
Lists == {TmpList(n, c, j) : n \in Nodes, c \in Requests, j \in Jobs}
         \cup {LostList(n, c, j) : n \in Nodes, c \in Requests, j \in Jobs}

\* PipeMulJob's sendKey
SendKey(c, n, j) == IF Id(c, n) = EcK - 1 THEN LostList(n, c, j) ELSE TmpList(n, c, j)

\* A packet of the local block as it is on disk (job 0), and RSUtil::multiply of
\* a buffer by the coefficient for job j: the local data becomes the helper's
\* term, anything else in the buffer is spoilt by this helper's coefficient.
Raw(n, c, p) == {<<n, 0, c, p, {}>>}
Term(n, c, j, p) == <<n, j, c, p, {}>>

Multiply(n, c, j, p, v) ==
  {IF {t} = Raw(n, c, p) THEN Term(n, c, j, p)
                         ELSE <<t[1], t[2], t[3], t[4], t[5] \cup {n}>> : t \in v}

Chains == {s \in [1..EcK -> Nodes] : \A i, k \in 1..EcK : s[i] = s[k] => i = k}

\* The commands of one request: jobInd counts down from the number of jobs.
Commands(c) == [i \in Jobs |-> <<c, i, Nj - i + 1>>]

\* The commands at a helper that serves the requests in S, in the same order of
\* requests at every helper.
QueueOf(S) ==
  LET q == Queued(R, S)
  IN  [k \in 1..(Nj * Len(q)) |-> Commands(q[PktAt(k - 1) + 1])[JobAt(k - 1)]]

NoPkts == [p \in Pkts |-> [j \in Jobs |-> {}]]

\* A helper that has served before is as Finish leaves it: all flags up.
Init ==
  /\ warm \in SUBSET Nodes
  /\ chain \in [Requests -> Chains]
  /\ cmds = [n \in Nodes |-> QueueOf({c \in Requests : n \in Helpers(c)})]
  /\ redis = [l \in Lists |-> <<>>]
  /\ fetch = [c \in Clients |-> [j \in Jobs |-> LostList(chain[c][EcK], c, j)]]
  /\ jobs = [n \in Nodes |-> <<>>]
  /\ cur = [n \in Nodes |-> 0]
  /\ mulPkt = [n \in Nodes |-> NoPkts]
  /\ flag = [n \in Nodes |-> [p \in Pkts |-> n \in warm]]
  /\ toSend = [n \in Nodes |-> [j \in Jobs |-> 0]]
  /\ rd = [n \in Nodes |-> 0] /\ pu = [n \in Nodes |-> 0] /\ se = [n \in Nodes |-> 0]
  /\ copied = [n \in Nodes |-> FALSE]
  /\ passive = [c \in Clients |-> [j \in Jobs |-> <<>>]]
  /\ StreamInit

\* doProcess: the first command of a request clears the vector of jobs, each
\* adds its own, the last allocates the buffers and starts the threads.
TakeCmd(n) ==
  LET cmd == Head(cmds[n])
      c == cmd[1]
      ind == cmd[3] IN
  /\ cur[n] = 0
  /\ cmds[n] # <<>>
  /\ cmds' = [cmds EXCEPT ![n] = Tail(@)]
  /\ jobs' = [jobs EXCEPT ![n] = Append(IF ind = Nj THEN <<>> ELSE @, <<c, cmd[2]>>)]
  /\ IF ind = 1
       THEN /\ cur' = [cur EXCEPT ![n] = c]
            /\ mulPkt' = [mulPkt EXCEPT ![n] = NoPkts]
            /\ toSend' = [toSend EXCEPT ![n] = [j \in Jobs |-> 0]]
            /\ rd' = [rd EXCEPT ![n] = 0]
            /\ pu' = [pu EXCEPT ![n] = 0]
            /\ se' = [se EXCEPT ![n] = 0]
       ELSE UNCHANGED <<cur, mulPkt, toSend, rd, pu, se>>
  /\ UNCHANGED <<redis, fetch, clientVars, missed, warm, chain, flag, copied, passive>>

JobOf(n, j) == jobs[n][j][2]

\* readMulWorker has stored its last job of packet p: _diskFlag[p] = true and
\* the notification, under _diskMtx[p].
RaiseFlag(n, p) ==
  /\ flag' = [flag EXCEPT ![n][p] = TRUE]
  /\ missed' \in Notify(missed, Waiting(<<n, "pull">>, pu[n] = p * Nj /\ ~flag[n][p]))

\* readMulWorker on a packet whose flag is down, which nobody else looks at: the
\* packet is read, copied and multiplied for every job, and the flag goes up.
ReadMulWorker(n) ==
  LET p == PktAt(rd[n]) IN
  /\ cur[n] # 0
  /\ rd[n] < Total
  /\ ~flag[n][p]
  /\ mulPkt' = [mulPkt EXCEPT ![n][p] =
                  [j \in Jobs |-> Multiply(n, cur[n], JobOf(n, j), p, Raw(n, cur[n], p))]]
  /\ RaiseFlag(n, p)
  /\ rd' = [rd EXCEPT ![n] = @ + Nj]
  /\ UNCHANGED <<redis, fetch, clientVars, warm, chain, cmds, jobs, cur, toSend, copied, pu, se, passive>>

\* The flag was left up by an earlier request: memcpy ...
ReadCopy(n) ==
  LET p == PktAt(rd[n]) IN
  /\ cur[n] # 0
  /\ rd[n] < Total
  /\ flag[n][p] /\ ~copied[n]
  /\ mulPkt' = [mulPkt EXCEPT ![n][p][JobAt(rd[n])] = Raw(n, cur[n], p)]
  /\ copied' = [copied EXCEPT ![n] = TRUE]
  /\ UNCHANGED <<redis, fetch, clientVars, missed, warm, chain, cmds, jobs, cur, flag, toSend,
                 rd, pu, se, passive>>

\* ... and multiply are steps the main thread and the sender can come between.
ReadMultiply(n) ==
  LET p == PktAt(rd[n])
      j == JobAt(rd[n]) IN
  /\ copied[n]
  /\ mulPkt' = [mulPkt EXCEPT ![n][p][j] = Multiply(n, cur[n], JobOf(n, j), p, @)]
  /\ copied' = [copied EXCEPT ![n] = FALSE]
  /\ rd' = [rd EXCEPT ![n] = @ + 1]
  /\ IF j = Nj THEN RaiseFlag(n, p) ELSE UNCHANGED <<flag, missed>>
  /\ UNCHANGED <<redis, fetch, clientVars, warm, chain, cmds, jobs, cur, toSend, pu, se, passive>>

\* Mutant: the main thread does not wait for the reader.
FlagSeen_NoWait(n) == pu[n] < Total

\* pullRequestorMulCompletion tests the flag of a packet before its first job.
FlagSeen(n) ==
  /\ pu[n] < Total
  /\ JobAt(pu[n]) # 1 \/ (flag[n][PktAt(pu[n])] /\ <<n, "pull">> \notin missed)

\* pullRequestorMulCompletion: the previous helper's packet of job j is XORed
\* in, the job's counter raised and senderCondVar[j] notified: that reaches the
\* sender only when it is at this job.
PullRequestorMulCompletion(n) ==
  LET c == cur[n]
      p == PktAt(pu[n])
      j == JobAt(pu[n])
      key == TmpList(Prev(c, n), c, JobOf(n, j)) IN
  /\ c # 0
  /\ FlagSeen(n)
  /\ IF Id(c, n) = 0
       THEN UNCHANGED <<mulPkt, redis>>
       ELSE /\ redis[key] # <<>>
            /\ mulPkt' = [mulPkt EXCEPT ![n][p][j] = Xor(@, Head(redis[key]))]
            /\ redis' = Pop(redis, key)
  /\ toSend' = [toSend EXCEPT ![n][j] = @ + 1]
  /\ IF se[n] < Total /\ JobAt(se[n]) = j
       THEN missed' \in Notify(missed, Waiting(<<n, "send">>, PktAt(se[n]) = toSend[n][j]))
       ELSE UNCHANGED missed
  /\ pu' = [pu EXCEPT ![n] = @ + 1]
  /\ UNCHANGED <<fetch, clientVars, warm, chain, cmds, jobs, cur, flag, rd, copied, se, passive>>

\* Mutant: the packet that was counted last is kept back.
SendMulWorker_KeepsLast(n) ==
  LET p == PktAt(se[n])
      j == JobAt(se[n]) IN
  /\ cur[n] # 0
  /\ se[n] < Total
  /\ p + 1 < toSend[n][j]
  /\ redis' = Push(redis, SendKey(cur[n], n, JobOf(n, j)), mulPkt[n][p][j])
  /\ se' = [se EXCEPT ![n] = @ + 1]
  /\ UNCHANGED <<fetch, clientVars, missed, warm, chain, cmds, jobs, cur, mulPkt, flag, toSend,
                 rd, copied, pu, passive>>

\* sendMulWorker: RPUSH of a packet that its job's counter covers.
SendMulWorker(n) ==
  LET p == PktAt(se[n])
      j == JobAt(se[n]) IN
  /\ cur[n] # 0
  /\ se[n] < Total
  /\ p < toSend[n][j]
  /\ <<n, "send">> \notin missed
  /\ redis' = Push(redis, SendKey(cur[n], n, JobOf(n, j)), mulPkt[n][p][j])
  /\ se' = [se EXCEPT ![n] = @ + 1]
  /\ UNCHANGED <<fetch, clientVars, missed, warm, chain, cmds, jobs, cur, mulPkt, flag, toSend,
                 rd, copied, pu, passive>>

\* The threads are joined and the buffers freed: the flags stay as they are.
Finish(n) ==
  /\ cur[n] # 0
  /\ rd[n] = Total /\ pu[n] = Total /\ se[n] = Total
  /\ cur' = [cur EXCEPT ![n] = 0]
  /\ UNCHANGED <<redis, fetch, clientVars, missed, warm, chain, cmds, jobs, mulPkt, flag, toSend,
                 rd, copied, pu, se, passive>>

\* DRWorker::passiveReceiver at the node that lost block j (HDFS): takes the
\* packets the client relayed to its own Redis and writes them.
PassiveReceiver(c, j) ==
  /\ relayed[c][j] # <<>>
  /\ passive' = [passive EXCEPT ![c][j] = Append(@, Head(relayed[c][j]))]
  /\ relayed' = [relayed EXCEPT ![c][j] = Tail(@)]
  /\ UNCHANGED <<redis, fetch, contents, processed, out, missed, mulVars>>

Reader(n) == ReadMulWorker(n) \/ ReadCopy(n) \/ ReadMultiply(n)
Main(n) == TakeCmd(n) \/ PullRequestorMulCompletion(n) \/ Finish(n)
Client(c) == StreamNext(c) /\ UNCHANGED <<mulVars, passive>>

Next ==
  \/ \E n \in Nodes : Reader(n) \/ Main(n) \/ SendMulWorker(n)
  \/ \E c \in Clients : Client(c) \/ \E j \in Jobs : PassiveReceiver(c, j)

Spec == Init /\ [][Next]_vars

----------------------------------------------------------------------------
\* Packet p of lost block j of request c: the sum over its helpers.
Repaired(c, j, p) == {Term(chain[c][i], c, j, p) : i \in 1..EcK}

\* Helper i of request c served a request before.
Reused(c, i) == chain[c][i] \in warm \/ \E d \in 1..(c - 1) : chain[c][i] \in Helpers(d)

\* The packets of lost block j a client or a passive receiver has, in order.
Delivered(c, j) == IF j = 1 THEN out[c] ELSE passive[c][j]

Correct(c) ==
  \A j \in Jobs : \A k \in 1..Len(Delivered(c, j)) : Delivered(c, j)[k] = Repaired(c, j, k - 1)

\* The packets of job j the last helper has pushed: those the client took and
\* those still in the list.
Pushed(c, j) ==
  [k \in 1..Cardinality({m \in DOMAIN contents[c] : JobAt(m - 1) = j}) |-> contents[c][(k - 1) * Nj + j]]
    \o redis[LostList(chain[c][EcK], c, j)]

\* Every lost block of a request arrives packet by packet as the sum of all
\* helpers' packets for that block, at the client (the first block) and at the
\* passive receivers (the others), as long as the request is the first one its
\* helpers serve.  Otherwise the damage starts at a helper that had served
\* before: the terms of the helpers after the last such one are all there.
OnlyReusedHelpersSpoil ==
  \A c \in Clients :
    /\ (\A i \in 1..EcK : ~Reused(c, i)) => Correct(c)
    /\ \A j \in Jobs : \A k \in 1..Len(Pushed(c, j)) : \A i \in 1..EcK :
         (\A m \in i..EcK : ~Reused(c, m)) => Term(chain[c][i], c, j, k - 1) \in Pushed(c, j)[k]

PullStuck(n) == <<n, "pull">> \in missed /\ rd[n] = Total

\* The sender missed a notification of job j, and the main thread has given its
\* last one for that job.
SendStuck(n) == <<n, "send">> \in missed /\ pu[n] > Total - Nj + JobAt(se[n]) - 1

\* The system halts only when every lost block has arrived or a thread missed
\* the last notification it was to get (for the sender: of the job it is at).
HaltsOnlyOnMissedWakeup ==
  \/ ENABLED Next
  \/ \A c \in Clients : StreamDone(c) /\ \A j \in Jobs \ {1} : Len(passive[c][j]) = PktCnt
  \/ \E n \in Nodes : PullStuck(n) \/ SendStuck(n)
  \/ \E c \in Clients : StreamStuck(c)
====
