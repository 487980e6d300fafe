---------------------------- MODULE StripeUpdate ----------------------------
(***************************************************************************)
(* The update path of CoRD: one UPCoordinator drives ecK data nodes and    *)
(* ecM parity nodes (UPNode) through the updates of one stripe after the   *)
(* other.  All communication is RPUSH / BLPOP on Redis lists: upd_cmds,    *)
(* raidData, deltaData and crdData in each node's Redis, test and ack in   *)
(* the coordinator's.  A BLPOP that times out is retried by every caller,  *)
(* so a blocked reader is a disabled action.                               *)
(*                                                                         *)
(* A step is one Redis command or one disk write.  Node n serves block n,  *)
(* in one file used for every stripe ("blk_" + id).                        *)
(*                                                                         *)
(* DATA.  A block is a function from its KB units to formal XOR sums, a    *)
(* sum being the set of its terms <<row, blk, val>>: the unit value val of *)
(* data block blk multiplied by the coefficient of coding row `row' (Raw:  *)
(* not multiplied).  Different terms are treated as linearly independent.  *)
(* Unit values: Old is what the block held at start-up, j >= 0 is the j-th *)
(* KB of the pattern gene_radm_buff writes, which always starts at 0.  A   *)
(* message is a function on all units too, empty after its last one.       *)
(*                                                                         *)
(* GHOSTS.  The field sid of commands and messages (the stripe they were   *)
(* sent for) and the variable lost are read by no guard of the code; no    *)
(* Redis key or payload of the program carries a stripe number.            *)
(***************************************************************************)
EXTENDS CrdSubsets, FiniteSets

CONSTANTS
    ecK, ecM,        \* data and parity blocks of a stripe
    blocksize,       \* KB units of a block
    Policies,        \* the policies the coordinator is run with
    UpdVecs,         \* the vector<UpdBlock>s a stripe may be updated with
    MaxStripes,      \* bound: stripes updated before the coordinator stops
    OverreadFaults   \* whether the over-read of UPNode.cc:567 may fault

DataNodes   == 0 .. (ecK - 1)
ParityNodes == ecK .. (ecK + ecM - 1)
Nodes       == 0 .. (ecK + ecM - 1)
Keys        == {"raidData", "deltaData", "crdData"}
Units       == 0 .. (blocksize - 1)
Upd         == [id : DataNodes, off : Nat, size : Nat]

ASSUME ParamsAssumption ==
    /\ ecK \in Nat \ {0} /\ ecM \in Nat \ {0}
    /\ blocksize \in Nat \ {0}
    /\ MaxStripes \in Nat
    /\ OverreadFaults \in BOOLEAN
    /\ Policies \subseteq {"raid", "delta", "crd", "crd_flip"}

\* What the update log hands to trigger_update: at least one block, no block
\* twice, ranges inside the block.
ASSUME VecsAssumption ==
    \A v \in UpdVecs :
        /\ v \in Seq(Upd) /\ v # <<>>
        /\ \A i \in DOMAIN v : End(v[i]) <= blocksize
        /\ \A i, j \in DOMAIN v : v[i].id = v[j].id => i = j

VARIABLES
    cpc,        \* coordinator: "init" | "idle" | "send" | "ack" | "done"
    stripe,     \* coordinator: stripes started so far
    job,        \* coordinator: policy, upd_blk_vec and collector at work
    sent,       \* coordinator: commands of the job pushed so far
    need,       \* coordinator: the count of init() or recvAck()
    test, ack,  \* lengths of the coordinator's lists (every element is "1")
    cmds,       \* upd_cmds of each node
    queue,      \* raidData, deltaData and crdData of each node
    npc,        \* node: "off" | "idle" | "recv" | "send" | "write" | "ack" | "exit"
    cur,        \* node: the command being executed
    buf,        \* node: messages popped for it, in order (count = Len)
    pi, sj,     \* node: parity and sub-set loop indices of the sending loop
    disk,       \* node: contents of its block file
    lost        \* ghost: <<parity, unit>> that a CRD range left out

cvars == <<cpc, stripe, job, sent, need, test>>
nvars == <<npc, cur, buf, pi, sj>>
vars  == <<cvars, ack, cmds, queue, nvars, disk, lost>>
-----------------------------------------------------------------------------
(* Formal XOR sums. *)

Raw == -1
Old == -1
Junk == <<-2, 0, 0>>     \* bytes of the heap, see DeltaJunk

Encode(row, S) == {<<row, t[2], t[3]>> : t \in S}

\* jerasure_matrix_encode with all-ones coefficients, unit by unit.
XorBlock(f, g) == [u \in Units |-> SymDiff(f[u], g[u])]

\* Bytes [off, off + size) of a buffer, moved to its front, and back.
Slice(f, off, size) ==
    [j \in Units |-> IF j < size /\ off + j \in Units THEN f[off + j] ELSE {}]
Placed(f, off, size) ==
    [u \in Units |-> IF u - off \in (0 .. (size - 1)) \cap Units THEN f[u - off] ELSE {}]

\* gene_radm_buff: the new contents of a range of block n are 0, 1, 2, ...
Pattern(n, size) == [j \in Units |-> IF j < size THEN {<<Raw, n, j>>} ELSE {}]

\* The data delta of a range of block n (compute_delta of old and new).
DataDelta(n, off, size) == XorBlock(Slice(disk[n], off, size), Pattern(n, size))

\* Mutant: the file is truncated to the range that is written.
Overwritten_Truncated(n, off, size) ==
    [u \in {x \in Units : x < off + size} |->
        IF u < off THEN disk[n][u] ELSE Placed(Pattern(n, size), off, size)[u]]

\* The block after the range is overwritten with new data.
Overwritten(n, off, size) ==
    [u \in Units |-> IF u - off \in 0 .. (size - 1)
                     THEN Placed(Pattern(n, size), off, size)[u] ELSE disk[n][u]]

\* What parity block p should hold for the data on disk.
EncodedData(p) ==
    [u \in Units |-> UNION {Encode(p - ecK, disk[d][u]) : d \in DataNodes}]
-----------------------------------------------------------------------------
(* Commands and messages. *)

NoCmd == [task |-> 0, sid |-> 0, num |-> 0, upds |-> <<>>, to |-> 0]
NoJob == [policy |-> "none", vec |-> <<>>, collector |-> 0]

Ids(vec) == {vec[i].id : i \in DOMAIN vec}
IdSeq(vec) == [i \in 1 .. Len(vec) |-> vec[i].id]
UpdOf(vec, n) == vec[CHOOSE i \in DOMAIN vec : vec[i].id = n]
ParitySeq == [i \in 1 .. ecM |-> ecK + i - 1]

\* s without its i-th element: the loops that `continue' on the collector.
Except(s, i) == [k \in 1 .. (Len(s) - 1) |-> IF k < i THEN s[k] ELSE s[k + 1]]
Index(s, e)  == CHOOSE i \in DOMAIN s : s[i] = e

IsCrd(policy) == policy \in {"crd", "crd_flip"}

\* The candidates of rand(): an updated block (raid), a parity (CRD).
Collectors(policy, vec) ==
    IF policy = "raid" THEN Ids(vec)
    ELSE IF IsCrd(policy) THEN ParityNodes
    ELSE {0}

\* The nodes a stripe's commands go to, in the order of the RPUSHes.
RaidTargets(vec, c) ==
    Except(IdSeq(vec), Index(IdSeq(vec), c)) \o <<c>> \o ParitySeq
DeltaTargets(vec) == ParitySeq \o IdSeq(vec)
CrdTargets(vec, c) ==
    IdSeq(vec) \o <<c>> \o Except(ParitySeq, Index(ParitySeq, c))

Targets(j) == CASE j.policy = "raid"  -> RaidTargets(j.vec, j.collector)
                [] j.policy = "delta" -> DeltaTargets(j.vec)
                [] IsCrd(j.policy)    -> CrdTargets(j.vec, j.collector)
                [] OTHER              -> <<>>

(***************************************************************************)
(* The command for node n: num is upd_num (2, 5, 7), to is the collector   *)
(* (1, 6), upds is the node's own range (4, 6) or every updated block (2,  *)
(* 7).  Tasks 7 and 8 also carry what the coordinator computed from the    *)
(* whole vector: sub_set_num, the sub-set id of each block (7) and the     *)
(* range of each sub-set (8).  Here upds holds the vector and the handlers *)
(* read SubNum, SubId and SentRange of it, the coordinator's results.      *)
(***************************************************************************)
Command(task, num, upds, to) ==
    [task |-> task, sid |-> stripe, num |-> num, upds |-> upds, to |-> to]

RaidCmd(n, vec, c) ==
    CASE n = c                 -> Command(2, Len(vec), vec, 0)
      [] n \in DataNodes \ {c} -> Command(1, 0, <<>>, c)
      [] OTHER                 -> Command(3, 0, <<>>, 0)
DeltaCmd(n, vec) ==
    IF n \in DataNodes THEN Command(4, 0, <<UpdOf(vec, n)>>, 0)
                       ELSE Command(5, Len(vec), <<>>, 0)
CrdCmd(n, vec, c) ==
    CASE n \in DataNodes -> Command(6, 0, <<UpdOf(vec, n)>>, c)
      [] n = c           -> Command(7, Len(vec), vec, 0)
      [] OTHER           -> Command(8, 0, vec, 0)

SubNum(vec)       == Len(get_upd_solu_crd(vec))
SubId(vec, blk)   == get_sub_set_id(get_upd_solu_crd(vec), blk)
SentRange(vec, s) == CoordinatorRange(get_upd_solu_crd(vec)[s + 1])

CmdFor(j, n) == CASE j.policy = "raid"  -> RaidCmd(n, j.vec, j.collector)
                  [] j.policy = "delta" -> DeltaCmd(n, j.vec)
                  [] OTHER              -> CrdCmd(n, j.vec, j.collector)

KeyOf(task) == CASE task \in 1 .. 3 -> "raidData"
                 [] task \in 4 .. 5 -> "deltaData"
                 [] OTHER           -> "crdData"

\* The buffer of a key: the last message received for it (a later memcpy
\* overwrites an earlier one), zeros when there is none.
Zeros == [u \in Units |-> {}]
Received(n, id) ==
    LET hits == {i \in DOMAIN buf[n] :
                    /\ buf[n][i].id = id
                    /\ \A k \in DOMAIN buf[n] : buf[n][k].id = id => k <= i}
    IN  IF hits = {} THEN Zeros ELSE buf[n][CHOOSE i \in hits : TRUE].data
-----------------------------------------------------------------------------
(* Start-up. *)

Init ==
    /\ cpc = "init" /\ stripe = 0 /\ job = NoJob /\ sent = 0
    /\ need = ecK + ecM
    /\ test = 0 /\ ack = 0
    /\ cmds  = [n \in Nodes |-> <<>>]
    /\ queue = [k \in Keys |-> [n \in Nodes |-> <<>>]]
    /\ npc = [n \in Nodes |-> "off"]
    /\ cur = [n \in Nodes |-> NoCmd]
    /\ buf = [n \in Nodes |-> <<>>]
    /\ pi = [n \in Nodes |-> 0] /\ sj = [n \in Nodes |-> 0]
    /\ disk = [n \in Nodes |->
                 [u \in Units |-> IF n \in DataNodes
                                  THEN {<<Raw, n, Old>>}
                                  ELSE {<<n - ecK, d, Old>> : d \in DataNodes}]]
    /\ lost = {}

\* start.py flushes the node's Redis and starts ECHelper; UPNode::init
\* announces the node.
StartHelper(n) ==
    /\ npc[n] = "off"
    /\ npc' = [npc EXCEPT ![n] = "idle"]
    /\ cmds' = [cmds EXCEPT ![n] = <<>>]
    /\ queue' = [k \in Keys |-> [queue[k] EXCEPT ![n] = <<>>]]
    /\ test' = test + 1
    /\ UNCHANGED <<cpc, stripe, job, sent, need, ack, cur, buf, pi, sj, disk, lost>>

\* Mutant: the coordinator does not wait for the last helper.
RecvTest_OneShort ==
    /\ cpc = "init" /\ test > 0
    /\ test' = test - 1
    /\ need' = IF need = 2 THEN 0 ELSE need - 1
    /\ cpc' = IF need = 2 THEN "idle" ELSE "init"
    /\ UNCHANGED <<stripe, job, sent, ack, cmds, queue, nvars, disk, lost>>

\* The loop of UPCoordinator::init: one test message per helper.
RecvTest ==
    /\ cpc = "init" /\ test > 0
    /\ test' = test - 1
    /\ need' = need - 1
    /\ cpc' = IF need = 1 THEN "idle" ELSE "init"
    /\ UNCHANGED <<stripe, job, sent, ack, cmds, queue, nvars, disk, lost>>
-----------------------------------------------------------------------------
(* The coordinator: one iteration of trigger_update per stripe. *)

\* The <<parity, unit>>s a stripe leaves wrong.  CRD: those inside a sub-set's
\* range but outside the range the coordinator sends for it.  Delta: the range of
\* every block, whose parity delta is bytes of the heap (UPNode.cc:567), and the
\* first unit, the only one written back (DeltaParity).  Raid: all, the parity
\* blocks are overwritten by the row of another parity (UPNode.cc:403).
LeftOut(j) ==
    IF j.policy = "raid" THEN ParityNodes \X Units
    ELSE IF j.policy = "delta"
    THEN {pu \in ParityNodes \X Units :
            \E b \in Range(j.vec) :
               /\ b.size > 0
               /\ pu[2] = 0 \/ (b.off <= pu[2] /\ pu[2] < End(b))}
    ELSE
    {pu \in (ParityNodes \ {j.collector}) \X Units :
        \E s \in DOMAIN get_upd_solu_crd(j.vec) :
            LET N  == get_upd_solu_crd(j.vec)[s]
                cr == CoordinatorRange(N)
            IN  /\ HullStart(N) <= pu[2] /\ pu[2] < HullEnd(N)
                /\ ~(cr.off <= pu[2] /\ pu[2] < cr.off + cr.size)}

StartStripe(policy, v, c) ==
    LET vec == IF policy = "crd_flip" THEN FlipVec(v, blocksize) ELSE v
        j   == [policy |-> policy, vec |-> vec, collector |-> c]
    IN  /\ cpc = "idle" /\ stripe < MaxStripes
        /\ c \in Collectors(policy, vec)
        /\ cpc' = "send" /\ stripe' = stripe + 1
        /\ job' = j /\ sent' = 0 /\ need' = ecM
        /\ lost' = lost \cup LeftOut(j)
        /\ UNCHANGED <<test, ack, cmds, queue, nvars, disk>>

\* One RPUSH upd_cmds of RaidUpdate, DeltaUpdate or CrdUpdate.  CrdUpdate
\* ends the process when a block has no sub-set.
SendCmd ==
    LET n == Targets(job)[sent + 1]
        c == CmdFor(job, n)
    IN  /\ cpc = "send"
        /\ c.task = 7 => \A b \in Ids(job.vec) : SubId(job.vec, b) # -1
        /\ cmds' = [cmds EXCEPT ![n] = Append(@, c)]
        /\ sent' = sent + 1
        /\ cpc' = IF sent + 1 = Len(Targets(job)) THEN "ack" ELSE "send"
        /\ UNCHANGED <<stripe, job, need, test, ack, queue, nvars, disk, lost>>

\* Mutant: recvAck returns one ack too early.
RecvAck_OneShort ==
    /\ cpc = "ack" /\ ack > 0
    /\ ack' = ack - 1
    /\ need' = need - 1
    /\ IF need = 2 THEN /\ cpc' = "idle" /\ job' = NoJob /\ sent' = 0
                   ELSE UNCHANGED <<cpc, job, sent>>
    /\ UNCHANGED <<stripe, test, cmds, queue, nvars, disk, lost>>

\* recvAck: ecM acks, of no matter which node; then upd_blk_vec.clear().
RecvAck ==
    /\ cpc = "ack" /\ ack > 0
    /\ ack' = ack - 1
    /\ need' = need - 1
    /\ IF need = 1 THEN /\ cpc' = "idle" /\ job' = NoJob /\ sent' = 0
                   ELSE UNCHANGED <<cpc, job, sent>>
    /\ UNCHANGED <<stripe, test, cmds, queue, nvars, disk, lost>>

\* doProcess returns when the trace is exhausted.
Finish ==
    /\ cpc = "idle"
    /\ cpc' = "done"
    /\ UNCHANGED <<stripe, job, sent, need, test, ack, cmds, queue, nvars, disk, lost>>
-----------------------------------------------------------------------------
(* The steps shared by the handlers of a node. *)

\* Entry of a handler: which loop it enters first.  The raid collector waits
\* for upd_num - 1 blocks; its own block must be among the updated ones.
FirstPhase(n, c) ==
    CASE c.task \in {1, 4, 6} -> "send"
      [] c.task = 2 -> IF n \notin Ids(c.upds) THEN "exit"
                       ELSE IF c.num = 1 THEN "send" ELSE "recv"
      [] c.task \in {3, 5, 7, 8} -> "recv"
      [] OTHER -> "exit"

\* doProcess: BLPOP upd_cmds and dispatch on the task type.
TakeCmd(n) ==
    /\ npc[n] = "idle" /\ cmds[n] # <<>>
    /\ cmds' = [cmds EXCEPT ![n] = Tail(@)]
    /\ cur' = [cur EXCEPT ![n] = Head(cmds[n])]
    /\ npc' = [npc EXCEPT ![n] = FirstPhase(n, Head(cmds[n]))]
    /\ UNCHANGED <<cvars, ack, queue, buf, pi, sj, disk, lost>>

\* One BLPOP of a receive loop.  A message whose key the handler does not
\* know ends the process (exit, or a memcpy to a missing buffer).
Recv(n, known, count, next) ==
    LET k == KeyOf(cur[n].task)
        m == Head(queue[k][n])
    IN  /\ npc[n] = "recv" /\ queue[k][n] # <<>>
        /\ queue' = [queue EXCEPT ![k][n] = Tail(@)]
        /\ buf' = [buf EXCEPT ![n] = Append(@, m)]
        /\ npc' = [npc EXCEPT ![n] = IF m.id \notin known THEN "exit"
                                     ELSE IF Len(buf[n]) + 1 = count THEN next
                                     ELSE "recv"]
        /\ UNCHANGED <<cvars, ack, cmds, cur, pi, sj, disk, lost>>

\* One RPUSH of a data message.
Push(n, to, id, data, next) ==
    LET k == KeyOf(cur[n].task)
    IN  /\ npc[n] = "send"
        /\ queue' = [queue EXCEPT ![k][to] =
                        Append(@, [sid |-> cur[n].sid, id |-> id, data |-> data])]
        /\ npc' = [npc EXCEPT ![n] = next]
        /\ UNCHANGED <<cvars, ack, cmds, disk, lost>>

\* The handler returns to doProcess.
Return(n) ==
    /\ cur' = [cur EXCEPT ![n] = NoCmd]
    /\ buf' = [buf EXCEPT ![n] = <<>>]
    /\ pi' = [pi EXCEPT ![n] = 0] /\ sj' = [sj EXCEPT ![n] = 0]

Stay == UNCHANGED <<cur, buf, pi, sj>>

\* Mutant: a data node acks its write too.
Write_AllAck(n, block, next) ==
    /\ npc[n] = "write"
    /\ disk' = [disk EXCEPT ![n] = block]
    /\ npc' = [npc EXCEPT ![n] = next]
    /\ IF next = "idle" THEN Return(n) /\ ack' = ack + 1 ELSE Stay /\ UNCHANGED ack
    /\ UNCHANGED <<cvars, cmds, queue, lost>>

\* writeDataToDisk at the end of a handler: a data node returns, a parity
\* node goes on to its ack.
Write(n, block, next) ==
    /\ npc[n] = "write"
    /\ disk' = [disk EXCEPT ![n] = block]
    /\ npc' = [npc EXCEPT ![n] = next]
    /\ IF next = "idle" THEN Return(n) ELSE Stay
    /\ UNCHANGED <<cvars, ack, cmds, queue, lost>>

\* RPUSH ack, the last step of tasks 3, 5, 7 and 8.
SendAck(n) ==
    /\ npc[n] = "ack"
    /\ ack' = ack + 1
    /\ npc' = [npc EXCEPT ![n] = "idle"]
    /\ Return(n)
    /\ UNCHANGED <<cvars, cmds, queue, disk, lost>>

\* One iteration of a loop over the parity blocks that sends one message each.
PushToParity(n, data, last) ==
    /\ Push(n, ecK + pi[n], ecK + pi[n], data, IF pi[n] + 1 = ecM THEN last ELSE "send")
    /\ IF pi[n] + 1 = ecM /\ last = "idle"
       THEN Return(n)
       ELSE pi' = [pi EXCEPT ![n] = @ + 1] /\ UNCHANGED <<cur, buf, sj>>
-----------------------------------------------------------------------------
(* raid *)

\* Task 1: the delta of the whole block to the collector, then the new data.
send_data_to_collector_for_raid(n) ==
    /\ cur[n].task = 1
    /\ \/ Push(n, cur[n].to, n, DataDelta(n, 0, blocksize), "write") /\ Stay
       \/ Write(n, Overwritten(n, 0, blocksize), "idle")

\* The collector encodes the deltas it received and its own block as it is on
\* disk, and sends parity b the buffer with index ecN - b - 1.
RaidParity(n, row) ==
    [u \in Units |->
        UNION {Encode(row, IF d = n THEN disk[n][u] ELSE Received(n, d)[u]) :
                 d \in Ids(cur[n].upds)}]

\* Mutant: the collector waits for upd_num blocks, its own included.
recv_and_compute_and_send_for_raid_WaitAll(n) ==
    /\ cur[n].task = 2
    /\ \/ Recv(n, Ids(cur[n].upds), cur[n].num, "send")
       \/ PushToParity(n, RaidParity(n, ecM - pi[n] - 1), "idle")

\* Task 2: the data collector.
recv_and_compute_and_send_for_raid(n) ==
    /\ cur[n].task = 2
    /\ \/ Recv(n, Ids(cur[n].upds), cur[n].num - 1, "send")
       \/ PushToParity(n, RaidParity(n, ecM - pi[n] - 1), "idle")

\* Task 3: the parity block becomes the message.
recv_and_save_for_raid(n) ==
    /\ cur[n].task = 3
    /\ \/ Recv(n, Nodes, 1, "write")
       \/ Write(n, Received(n, n), "ack")
       \/ SendAck(n)
-----------------------------------------------------------------------------
(* delta *)

\* The message holds upd_size KB read from the address of the pointer to the
\* parity delta (UPNode.cc:567), not the parity delta.
DeltaJunk(size) == [j \in Units |-> IF j < size THEN {Junk} ELSE {}]

\* Task 4: a parity delta to every parity, then the new data.
send_parity_delta_to_each_parity_for_delta(n) ==
    /\ cur[n].task = 4
    /\ \/ PushToParity(n, DeltaJunk(cur[n].upds[1].size), "write")
       \/ Write(n, Overwritten(n, cur[n].upds[1].off, cur[n].upds[1].size), "idle")

\* The over-read of task 4 leaves the mapped heap.
OverreadFault(n) ==
    /\ OverreadFaults
    /\ cur[n].task = 4 /\ npc[n] = "send" /\ cur[n].upds[1].size > 0
    /\ npc' = [npc EXCEPT ![n] = "exit"]
    /\ UNCHANGED <<cvars, ack, cmds, queue, cur, buf, pi, sj, disk, lost>>

\* The deltas are placed at a byte offset and blocksize BYTES of the result
\* are written back (UPNode.cc:648, 666): only the first unit can change.
DeltaParity(n) ==
    [disk[n] EXCEPT ![0] = IF \E i \in DOMAIN buf[n] : buf[n][i].data # Zeros
                           THEN {Junk} ELSE @]

\* Mutant: upd_num - 1 parity deltas are enough.
recv_parity_delta_and_aggre_for_delta_OneShort(n) ==
    /\ cur[n].task = 5
    /\ \/ Recv(n, Nodes, Max({1, cur[n].num - 1}), "write")
       \/ Write(n, DeltaParity(n), "ack")
       \/ SendAck(n)

\* Task 5: upd_num parity deltas, in any order.
recv_parity_delta_and_aggre_for_delta(n) ==
    /\ cur[n].task = 5
    /\ \/ Recv(n, Nodes, cur[n].num, "write")
       \/ Write(n, DeltaParity(n), "ack")
       \/ SendAck(n)
-----------------------------------------------------------------------------
(* crd, crd_flip *)

\* Task 6: the delta of the updated range to the parity collector, then the
\* new data.
send_data_delta_to_parity_collector_for_crd(n) ==
    LET b == cur[n].upds[1]
    IN  /\ cur[n].task = 6
        /\ \/ Push(n, cur[n].to, n, DataDelta(n, b.off, b.size), "write") /\ Stay
           \/ Write(n, Overwritten(n, b.off, b.size), "idle")

\* The parity delta of a row: the deltas at their offsets, encoded.
CrdParityDelta(n, row) ==
    [u \in Units |->
        UNION {Encode(row, Placed(Received(n, b.id), b.off, b.size)[u]) :
                 b \in ToSet(cur[n].upds)}]

\* Its slice for sub-set s, by the collector's own idea of the range.
CrdSlice(n, row, s) ==
    LET r == CollectorRange(cur[n].upds,
                            [i \in DOMAIN cur[n].upds |->
                                SubId(cur[n].upds, cur[n].upds[i].id)], s)
    IN  Slice(CrdParityDelta(n, row), r.off, r.size)

\* The sending loop of the collector: for each parity either one message per
\* sub-set or, for its own block, the write.
CrdNext(n, subs) ==
    IF sj[n] + 1 < subs THEN "send" ELSE IF pi[n] + 1 < ecM THEN "send" ELSE "ack"
CrdAdvance(n, subs) ==
    /\ IF sj[n] + 1 < subs
       THEN sj' = [sj EXCEPT ![n] = @ + 1] /\ UNCHANGED pi
       ELSE sj' = [sj EXCEPT ![n] = 0] /\ pi' = [pi EXCEPT ![n] = @ + 1]
    /\ UNCHANGED <<cur, buf>>

CrdSendSlice(n) ==
    /\ ecK + pi[n] # n
    /\ Push(n, ecK + pi[n], sj[n], CrdSlice(n, pi[n], sj[n]), CrdNext(n, SubNum(cur[n].upds)))
    /\ CrdAdvance(n, SubNum(cur[n].upds))

CrdWriteOwn(n) ==
    /\ npc[n] = "send" /\ ecK + pi[n] = n
    /\ disk' = [disk EXCEPT ![n] = XorBlock(@, CrdParityDelta(n, pi[n]))]
    /\ npc' = [npc EXCEPT ![n] = CrdNext(n, 1)]
    /\ CrdAdvance(n, 1)
    /\ UNCHANGED <<cvars, ack, cmds, queue, lost>>

\* Task 7: the parity collector.
recv_and_compute_in_parity_collector_for_crd(n) ==
    /\ cur[n].task = 7
    /\ \/ Recv(n, Ids(cur[n].upds), cur[n].num, "send")
       \/ CrdSendSlice(n)
       \/ CrdWriteOwn(n)
       \/ SendAck(n)

\* The XOR of the sub-sets' slices, each copied to the range the coordinator
\* sent: a term stays when an odd number of slices hold it.
CrdAggregate(n) ==
    LET subs == 0 .. (SubNum(cur[n].upds) - 1)
        At(s, u) == LET r == SentRange(cur[n].upds, s)
                    IN  Placed(Received(n, s), r.off, r.size)[u]
    IN  [u \in Units |->
            {t \in UNION {At(s, u) : s \in subs} :
                Cardinality({s \in subs : t \in At(s, u)}) % 2 = 1}]

\* Task 8: the other parities.
recv_parity_delta_and_aggre_for_crd(n) ==
    /\ cur[n].task = 8
    /\ \/ Recv(n, 0 .. (SubNum(cur[n].upds) - 1), SubNum(cur[n].upds), "write")
       \/ Write(n, XorBlock(disk[n], CrdAggregate(n)), "ack")
       \/ SendAck(n)
-----------------------------------------------------------------------------
Handle(n) ==
    \/ send_data_to_collector_for_raid(n)
    \/ recv_and_compute_and_send_for_raid(n)
    \/ recv_and_save_for_raid(n)
    \/ send_parity_delta_to_each_parity_for_delta(n)
    \/ recv_parity_delta_and_aggre_for_delta(n)
    \/ send_data_delta_to_parity_collector_for_crd(n)
    \/ recv_and_compute_in_parity_collector_for_crd(n)
    \/ recv_parity_delta_and_aggre_for_crd(n)

NodeStep(n) == StartHelper(n) \/ TakeCmd(n) \/ Handle(n)

CoordinatorStep ==
    \/ RecvTest
    \/ \E p \in Policies, v \in UpdVecs, c \in Nodes : StartStripe(p, v, c)
    \/ SendCmd
    \/ RecvAck
    \/ Finish

\* The coordinator has returned and every node waits for its next command, or
\* a node has died.
Terminated ==
    /\ \/ cpc = "done" /\ \A n \in Nodes : npc[n] = "idle" /\ cmds[n] = <<>>
       \/ \E n \in Nodes : npc[n] = "exit"
    /\ UNCHANGED vars

Next ==
    \/ CoordinatorStep
    \/ \E n \in Nodes : NodeStep(n) \/ OverreadFault(n)
    \/ Terminated

Spec == Init /\ [][Next]_vars

\* Coordinator and nodes are processes of their own that only block in BLPOP.
FairSpec == Spec /\ WF_vars(CoordinatorStep) /\ \A n \in Nodes : WF_vars(NodeStep(n))
-----------------------------------------------------------------------------
(* Properties. *)

Term  == Int \X Int \X Int
Block == [Units -> SUBSET Term]
Cmd   == [task : 0 .. 8, sid : 0 .. MaxStripes, num : Nat,
          upds : Seq(Upd), to : Nodes]
Msg   == [sid : 0 .. MaxStripes, id : Nat, data : Block]

\* Type correctness: every queue holds well-formed commands or messages and
\* every block file keeps a value for each of its units.
TypeOK ==
    /\ cpc \in {"init", "idle", "send", "ack", "done"}
    /\ stripe \in 0 .. MaxStripes
    /\ sent \in Nat /\ need \in Nat /\ test \in Nat /\ ack \in Nat
    /\ cmds \in [Nodes -> Seq(Cmd)]
    /\ queue \in [Keys -> [Nodes -> Seq(Msg)]]
    /\ npc \in [Nodes -> {"off", "idle", "recv", "send", "write", "ack", "exit"}]
    /\ cur \in [Nodes -> Cmd]
    /\ buf \in [Nodes -> Seq(Msg)]
    /\ pi \in [Nodes -> Nat] /\ sj \in [Nodes -> Nat]
    /\ disk \in [Nodes -> Block]

\* Redis keys carry no stripe number, so what keeps the stripes apart is the
\* order of the program alone: a handler never consumes a data message that
\* was sent for another stripe than its command.
NoMixing ==
    \A n \in Nodes : \A i \in DOMAIN buf[n] : buf[n][i].sid = cur[n].sid

\* No handler meets a block or sub-set it has no buffer for (the map_loc exit
\* of the raid collector, the missing map entries of tasks 7 and 8): only the
\* over-read of task 4 (UPNode.cc:567) ends a node.  The stripe of a node that
\* dies there, in the middle of its parity deltas, is never counted as complete.
NoFalseCompletion ==
    \A n \in Nodes : npc[n] = "exit" => cur[n].task = 4 /\ cpc \in {"send", "ack"}

\* The coordinator pushes nothing to a node whose Redis is still to be flushed
\* by start.py, and a node without a helper process receives no data.
NothingFlushed ==
    \A n \in Nodes : npc[n] = "off" =>
        cmds[n] = <<>> /\ \A k \in Keys : queue[k][n] = <<>>

Quiescent == cpc \in {"idle", "done"} /\ \A n \in Nodes : npc[n] = "idle"

\* Whenever all nodes are idle, every unit of every parity block encodes the data
\* blocks, after any sequence of CRD updates and among updates by the other
\* policies, except the units LeftOut accounts for.
CrdConsistent ==
    Quiescent => \A p \in ParityNodes, u \in Units :
                    <<p, u>> \in lost \/ disk[p][u] = EncodedData(p)[u]

\* A parity node that has its part of the current stripe still to commit.
Pending ==
    {p \in ParityNodes :
        \/ \E i \in DOMAIN Targets(job) : i > sent /\ Targets(job)[i] = p
        \/ cmds[p] # <<>>
        \/ npc[p] \notin {"off", "idle"}}

\* While a stripe is at work the acks still to be counted are exactly those
\* in the list and those of the parities that have not committed: the
\* anonymous acks cannot be one too many or one too few.
AcksBalance ==
    cpc \in {"idle", "send", "ack", "done"} =>
        need = ack + Cardinality(Pending)

\* The update path implements the barrier: a parity commits a stripe with its
\* ack.
Barrier == INSTANCE StripeBarrier WITH
    Parity <- ParityNodes,
    round  <- stripe,
    busy   <- cpc \in {"send", "ack"},
    done   <- [p \in ParityNodes |-> IF p \in Pending THEN stripe - 1 ELSE stripe]

\* Each parity commits each stripe exactly once, within the stripe.
ImplementsBarrier == Barrier!Spec

\* Every stripe that is started is acknowledged by all parities, and the writes
\* the data nodes do after they have sent their part, which nobody waits for,
\* happen too.
StripesComplete ==
    /\ (cpc = "send") ~> (cpc = "idle")
    /\ (cpc = "done") ~> Quiescent
=============================================================================
