---- MODULE PipeDRWorker ----
(***************************************************************************)
(* Repair pipelining with one lost block per request (policy ecpipe,       *)
(* basicSingle): PipeDRWorker.cc with the state of DRWorker.cc.            *)
(*                                                                         *)
(* The helpers of a request form a chain.  Each runs three threads: the    *)
(* reader loads the packets of the local block, multiplies them by the     *)
(* helper's coefficient and raises a flag per packet; the main thread      *)
(* (pullRequestorCompletion) waits for the flag, XORs the partial sum of   *)
(* the previous helper into the packet and counts it; the sender pushes    *)
(* what has been counted to the helper's own Redis, from where the next    *)
(* helper (list tmp:lost) or the client (list lost) takes it.              *)
(***************************************************************************)
EXTENDS ECPipeInputStream

CONSTANTS R,            \* how many requests the coordinator took
          Nodes,        \* the nodes a helper runs on
          EcK,          \* helpers per request
          LostBlocks,   \* names of lost blocks
          SlowHops      \* how many BLPOP ... 100 may run into their timeout

Requests == 1..R        \* in the order the coordinator took them

\* basicSingle: one lost block per request.  A request that is not in Clients
\* has a client that is never scheduled.
ASSUME PipeAssumption ==
  /\ R \in Nat
  /\ Nj = 1
  /\ Clients \subseteq Requests
  /\ EcK \in Nat \ {0}
  /\ SlowHops \in Nat
  \* in between, the workers' debug output takes i % (_packetCnt / 10) with a zero divisor
  /\ PktCnt <= 2 \/ PktCnt >= 10

VARIABLES chain,    \* [Requests -> chain of helpers], from the coordinator's commands
          lost,     \* [Requests -> lost block]
          cmds,     \* dr_cmds of each helper
          cur,      \* the command being executed, 0 when in blpop dr_cmds
          pkt,      \* _diskPkts
          flag,     \* _diskFlag
          toSend,   \* _waitingToSend
          rd, pu, se,   \* the packet reader, main thread and sender are at
          dead      \* helpers whose process has ended

pipeVars == <<chain, lost, cmds, cur, pkt, flag, toSend, rd, pu, se, dead>>
vars == <<redis, fetch, clientVars, missed, pipeVars>>

Helpers(c) == {chain[c][i] : i \in 1..EcK}

\* [_id] of helper n in request c, and the helper before it.
Id(c, n) == (CHOOSE i \in 1..EcK : chain[c][i] = n) - 1
Prev(c, n) == chain[c][Id(c, n)]

TmpList(n, b) == <<n, "tmp", b>>
LostList(n, b) == <<n, "lost", b>>
Lists == {TmpList(n, b) : n \in Nodes, b \in LostBlocks}
         \cup {LostList(n, b) : n \in Nodes, b \in LostBlocks}

\* sendKey: the last helper serves the client, the others their successor.
SendKey(c, n) == IF Id(c, n) = EcK - 1 THEN LostList(n, lost[c]) ELSE TmpList(n, lost[c])

\* What readWorker leaves of packet p: the local data times the coefficient.
Term(n, p) == {<<n, p>>}

Chains == {s \in [1..EcK -> Nodes] : \A i, k \in 1..EcK : s[i] = s[k] => i = k}

Init ==
  /\ chain \in [Requests -> Chains]
  /\ lost \in [Requests -> LostBlocks]
  /\ cmds = [n \in Nodes |-> Queued(R, {c \in Requests : n \in Helpers(c)})]
  /\ redis = [l \in Lists |-> <<>>]
  /\ fetch = [c \in Clients |-> [j \in Jobs |-> LostList(chain[c][EcK], lost[c])]]
  /\ cur = [n \in Nodes |-> 0]
  /\ pkt = [n \in Nodes |-> [p \in Pkts |-> {}]]
  /\ flag = [n \in Nodes |-> [p \in Pkts |-> FALSE]]
  /\ toSend = [n \in Nodes |-> 0]
  /\ rd = [n \in Nodes |-> 0] /\ pu = [n \in Nodes |-> 0] /\ se = [n \in Nodes |-> 0]
  /\ dead = {}
  /\ StreamInit

Busy(n) == cur[n] # 0 /\ n \notin dead

\* doProcess: a command starts the reader and the sender; the main thread pulls.
TakeCmd(n) ==
  /\ n \notin dead
  /\ cur[n] = 0
  /\ cmds[n] # <<>>
  /\ cur' = [cur EXCEPT ![n] = Head(cmds[n])]
  /\ cmds' = [cmds EXCEPT ![n] = Tail(@)]
  /\ toSend' = [toSend EXCEPT ![n] = 0]
  /\ rd' = [rd EXCEPT ![n] = 0] /\ pu' = [pu EXCEPT ![n] = 0] /\ se' = [se EXCEPT ![n] = 0]
  /\ UNCHANGED <<redis, fetch, clientVars, missed, chain, lost, pkt, flag, dead>>

\* readWorker: pread and RSUtil::multiply into _diskPkts[i], then, holding
\* _diskMtx[i], the flag and the notification.
ReadWorker(n) ==
  LET i == rd[n] IN
  /\ Busy(n)
  /\ i < PktCnt
  /\ pkt' = [pkt EXCEPT ![n][i] = Term(n, i)]
  /\ flag' = [flag EXCEPT ![n][i] = TRUE]
  /\ missed' \in Notify(missed, Waiting(<<n, "pull">>, pu[n] = i /\ ~flag[n][i]))
  /\ rd' = [rd EXCEPT ![n] = i + 1]
  /\ UNCHANGED <<redis, fetch, clientVars, chain, lost, cmds, cur, toSend, pu, se, dead>>

\* Mutant: the main thread does not wait for the reader.
FlagSeen_NoWait(n) == Busy(n) /\ pu[n] < PktCnt

\* `while (!_diskFlag[pktId])' has let the main thread through.
FlagSeen(n) ==
  /\ Busy(n)
  /\ pu[n] < PktCnt
  /\ flag[n][pu[n]]
  /\ <<n, "pull">> \notin missed

\* pullRequestorCompletion: the previous helper's partial sum is XORed in, and
\* the packet counted and notified to the sender.
PullRequestorCompletion(n) ==
  LET c == cur[n]
      p == pu[n]
      key == TmpList(Prev(c, n), lost[c]) IN
  /\ FlagSeen(n)
  /\ IF Id(c, n) = 0
       THEN UNCHANGED <<pkt, redis>>
       ELSE /\ redis[key] # <<>>
            /\ pkt' = [pkt EXCEPT ![n][p] = Xor(@, Head(redis[key]))]
            /\ redis' = Pop(redis, key)
  /\ toSend' = [toSend EXCEPT ![n] = @ + 1]
  /\ missed' \in Notify(missed, Waiting(<<n, "send">>, se[n] = toSend[n]))
  /\ pu' = [pu EXCEPT ![n] = p + 1]
  /\ UNCHANGED <<fetch, clientVars, chain, lost, cmds, cur, flag, rd, se, dead>>

\* The BLPOP of the previous helper's packet times out after 100 s: its nil
\* reply has no element[1], and the process ends with all its threads.
PullTimeout(n) ==
  /\ FlagSeen(n)
  /\ Id(cur[n], n) # 0
  /\ redis[TmpList(Prev(cur[n], n), lost[cur[n]])] = <<>>
  /\ Cardinality(dead) < SlowHops
  /\ dead' = dead \cup {n}
  /\ UNCHANGED <<redis, fetch, clientVars, missed, chain, lost, cmds, cur, pkt, flag, toSend,
                 rd, pu, se>>

\* Mutant: the packet that was counted last is kept back.
SendWorker_KeepsLast(n) ==
  LET i == se[n] IN
  /\ Busy(n)
  /\ i + 1 < toSend[n]
  /\ redis' = Push(redis, SendKey(cur[n], n), pkt[n][i])
  /\ se' = [se EXCEPT ![n] = i + 1]
  /\ UNCHANGED <<fetch, clientVars, missed, chain, lost, cmds, cur, pkt, flag, toSend, rd, pu, dead>>

\* sendWorker: RPUSH of a packet that has been counted.
SendWorker(n) ==
  LET i == se[n] IN
  /\ Busy(n)
  /\ i < toSend[n]
  /\ <<n, "send">> \notin missed
  /\ redis' = Push(redis, SendKey(cur[n], n), pkt[n][i])
  /\ se' = [se EXCEPT ![n] = i + 1]
  /\ UNCHANGED <<fetch, clientVars, missed, chain, lost, cmds, cur, pkt, flag, toSend, rd, pu, dead>>

\* Mutant: the flags stay set.
Cleanup_KeepsFlags(n) ==
  /\ toSend' = [toSend EXCEPT ![n] = 0]
  /\ pkt' = [pkt EXCEPT ![n] = [p \in Pkts |-> {}]]
  /\ UNCHANGED flag

\* DRWorker::cleanup
Cleanup(n) ==
  /\ flag' = [flag EXCEPT ![n] = [p \in Pkts |-> FALSE]]
  /\ toSend' = [toSend EXCEPT ![n] = 0]
  /\ pkt' = [pkt EXCEPT ![n] = [p \in Pkts |-> {}]]

\* The main thread has pulled everything and joined the other two.
Finish(n) ==
  /\ Busy(n)
  /\ rd[n] = PktCnt /\ pu[n] = PktCnt /\ se[n] = PktCnt
  /\ cur' = [cur EXCEPT ![n] = 0]
  /\ Cleanup(n)
  /\ UNCHANGED <<redis, fetch, clientVars, missed, chain, lost, cmds, rd, pu, se, dead>>

Main(n) == TakeCmd(n) \/ PullRequestorCompletion(n) \/ Finish(n)

\* A client takes no part in the helpers' state.
Client(c) == StreamNext(c) /\ UNCHANGED pipeVars

Next ==
  \/ \E n \in Nodes : ReadWorker(n) \/ Main(n) \/ SendWorker(n) \/ PullTimeout(n)
  \/ \E c \in Clients : Client(c)

\* Every thread that can take a step eventually does: the operating system
\* schedules them and Redis answers.  A timeout need never happen.
Fairness ==
  /\ \A n \in Nodes : WF_vars(ReadWorker(n)) /\ WF_vars(Main(n)) /\ WF_vars(SendWorker(n))
  /\ \A c \in Clients : /\ WF_vars(PipeCollector(c) /\ UNCHANGED pipeVars)
                        /\ WF_vars(PipeForwardWorker(c) /\ UNCHANGED pipeVars)

Spec == Init /\ [][Next]_vars /\ Fairness

----------------------------------------------------------------------------
\* Packet p of the repaired block: the sum of the terms of all its helpers.
Repaired(c, p) == {<<chain[c][i], p>> : i \in 1..EcK}

\* Two requests for the same block share the lists named after it.
Alone(c) == \A d \in Requests \ {c} : lost[d] # lost[c]

\* The file the client writes holds the packets of the lost block in their
\* order, each the XOR of every helper's packet of that number and of nothing
\* else, whatever the threads of the helpers and of earlier or later requests
\* on them did, and also when a helper died on the way.
RepairedInOrder ==
  \A c \in Clients : Alone(c) =>
    \A k \in 1..Len(out[c]) : out[c][k] = Repaired(c, k - 1)

\* Clients that repair the same block at the same time take packets from each
\* other.  As long as their requests go through the same chain, every packet that
\* is delivered still is a whole packet of the block.  (With two chains that share
\* a helper it is not: both successors pop the same list tmp:<lost> there.)
SharedPacketsWhole ==
  \A c \in Clients : (\A d \in Requests : lost[d] = lost[c] => chain[d] = chain[c]) =>
    \A k \in 1..Len(contents[c]) : \E p \in Pkts : contents[c][k] = Repaired(c, p)

\* A thread that sleeps although its predicate holds and nobody is left to
\* notify it: the last notification fell between its test and its sleep.
PullStuck(n) == <<n, "pull">> \in missed /\ rd[n] = PktCnt
SendStuck(n) == <<n, "send">> \in missed /\ pu[n] = PktCnt

\* Under the fairness of the threads, every repair ends with the whole block at
\* its client unless a helper died in a timeout or a thread missed the LAST
\* notification its peer had to give: one lost earlier is made good by the next
\* packet's, and requests that use the same helpers in opposite directions do
\* not wait for each other.
RepairsEndOrMissWakeup ==
  <>(\/ \A c \in Clients : StreamDone(c)
     \/ \E n \in Nodes : PullStuck(n) \/ SendStuck(n)
     \/ \E c \in Clients : StreamStuck(c)
     \/ dead # {})
====
