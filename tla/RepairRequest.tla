---- MODULE RepairRequest ----
(***************************************************************************)
(* From a client's request to the commands of the helpers: the client      *)
(* (ECPipeInputStream), the coordinator with one handler thread            *)
(* (PipeMulCoordinator, PipeCoordinator, ConvCoordinator, PPRCoordinator), *)
(* its metadata base (HDFS or HDFS 3), its command distributors and the    *)
(* block reports of the helpers.                                           *)
(*                                                                         *)
(* A request names the lost blocks of one stripe.  The coordinator chooses *)
(* the helpers, queues their commands in one transaction to the            *)
(* distributors, which pass them on, and answers in a Redis list that is   *)
(* named after the lost block.                                             *)
(***************************************************************************)
EXTENDS CoordinatorTables, RedisLists, FiniteSets, SequencesExt

CONSTANTS EcN, EcK,     \* blocks of the stripe, blocks that rebuild one
          Nodes,        \* IPs of the helpers, in the order of the configuration
          Dists,        \* distributor threads
          Clients

Blocks == 1..EcN        \* in the order of their ids and of their names
NodeSet == ToSet(Nodes)
Files == Blocks

ASSUME RequestAssumption ==
  /\ EcK \in 2..(EcN - 1)
  /\ Dists \in 1..Len(Nodes)
  /\ \A i, k \in DOMAIN Nodes : i < k => Nodes[i] < Nodes[k]
  /\ 0 \notin NodeSet   \* 0 is no address

VARIABLES fs, policy,       \* _fileSysType; _DRPolicy with _ECPipePolicy
          home,             \* the node that holds a block
          stripeStore,      \* the blocks the metadata base has a file of
          reqIP, lostFiles, \* of each client: its node, the blocks it asks for
          toReport,         \* blocks a helper's BlockReporter has still to push
          blk_init, blks,   \* the reports, and the blocks the metadata base waits for
          blkIp,            \* _blkName2Ip, 0 for an unknown block
          dr_requests,
          pc,               \* handler: "init", "idle", "exec", "reply", "ended"
          req, work,        \* the request in hand; its number, commands and reply
          served,           \* requests taken so far
          lastHelperStore,
          disQs, dr_cmds, dr_passive,
          replies,          \* the list named after a block
          index, cstate,    \* of each client: its next request; "run", "wait", "end", "exit"
          got               \* and the replies it has read

conf == <<fs, policy, home, stripeStore, reqIP, lostFiles>>
meta == <<toReport, blk_init, blks, blkIp>>
queues == <<disQs, dr_cmds>>
clientState == <<index, cstate, got>>
vars == <<conf, meta, dr_requests, pc, req, work, served, lastHelperStore, queues, dr_passive,
          replies, clientState>>

Policies == {"basic", "basicSingle", "conv", "ppr"}
NoWork == [r |-> 0, cmds |-> <<>>, list |-> 0, fetch |-> <<>>]

\* The blocks a client repairs of those it was given: more than one only with
\* the policies an HDFS client knows to repair several with.
LostFiles(names) ==
  IF fs = "HDFS" /\ policy \in {"basicSingle", "ppr"} THEN <<Head(names)>> ELSE names

\* Start-up with block b on node h[b], client c on node ips[c] and given names[c],
\* files of the blocks `stored' (HDFS 3 is told all), and no report of the blocks
\* `gone': the helper has lost the block or is not started.
Initially(h, ips, names, stored, gone) ==
  /\ fs \in {"HDFS", "HDFS3"} /\ policy \in Policies
  /\ home = h
  /\ stripeStore = IF fs = "HDFS" THEN stored ELSE Blocks
  /\ reqIP = ips
  /\ lostFiles = [c \in Clients |-> LostFiles(names[c])]
  /\ toReport = [n \in NodeSet |-> {b \in Blocks \ gone : home[b] = n}]
  /\ blk_init = <<>> /\ blks = stripeStore /\ blkIp = [b \in Blocks |-> 0]
  /\ dr_requests = <<>>
  /\ pc = "init" /\ req = [c |-> 0, index |-> 0] /\ work = NoWork /\ served = 0
  /\ lastHelperStore = [b \in Blocks |-> 0]
  /\ disQs = [d \in 0..(Dists - 1) |-> <<>>]
  /\ dr_cmds = [n \in NodeSet |-> <<>>] /\ dr_passive = [n \in NodeSet |-> <<>>]
  /\ replies = [b \in Blocks |-> <<>>]
  /\ index = [c \in Clients |-> 0] /\ cstate = [c \in Clients |-> "run"]
  /\ got = [c \in Clients |-> <<>>]

Init ==
  \E h \in {f \in [Blocks -> NodeSet] : \A a, b \in Blocks : f[a] = f[b] => a = b},
     ips \in [Clients -> NodeSet],
     names \in [Clients -> {s \in SetToAllKPermutations(Blocks) : Len(s) \in 1..(EcN - EcK + 1)}],
     stored \in SUBSET Blocks \ {{}}, gone \in SUBSET Blocks :
    Initially(h, ips, names, stored, gone)

----------------------------------------------------------------------------
\* Start-up.

\* BlockReporter::report: one push per file of the block directory.
Report(n) ==
  \E b \in toReport[n] :
    /\ blk_init' = Append(blk_init, <<n, b>>)
    /\ toReport' = [toReport EXCEPT ![n] = @ \ {b}]
    /\ UNCHANGED <<conf, blks, blkIp, dr_requests, pc, req, work, served, lastHelperStore, queues,
                   dr_passive, replies, clientState>>

\* The loop over blk_init: it ends with the report of the last block, and only
\* then the coordinator's threads are started.
TakeReport ==
  LET ip == Head(blk_init)[1]
      b == Head(blk_init)[2] IN
  /\ pc = "init"
  /\ blk_init # <<>>
  /\ blk_init' = Tail(blk_init)
  /\ blkIp' = IF b \in blks THEN [blkIp EXCEPT ![b] = ip] ELSE blkIp
  /\ blks' = blks \ {b}
  /\ pc' = IF blks' = {} THEN "idle" ELSE "init"
  /\ UNCHANGED <<conf, toReport, dr_requests, req, work, served, lastHelperStore, queues,
                 dr_passive, replies, clientState>>

----------------------------------------------------------------------------
\* Clients.

\* sendToCoordinator; the HDFS 3 client opens one stream after the other, each
\* with all the lost blocks and its own index.
SendRequest(c) ==
  /\ cstate[c] = "run"
  /\ dr_requests' = Append(dr_requests, [c |-> c, index |-> index[c]])
  /\ cstate' = [cstate EXCEPT ![c] = "wait"]
  /\ UNCHANGED <<conf, meta, pc, req, work, served, lastHelperStore, queues, dr_passive, replies,
                 index, got>>

\* The list the client's BLPOP waits at.
ReplyList(c) == lostFiles[c][index[c] + 1]

\* The streams the client opens: an HDFS client asks once for all its blocks.
Streams(c) == IF fs = "HDFS" THEN 1 ELSE Len(lostFiles[c])

\* `replyLen != 8 * _nj - 4': the IPs an HDFS client expects in a reply.
Expected(c) == IF policy \in {"conv", "ppr"} THEN 1 ELSE Len(lostFiles[c])

\* BLPOP <file> 0 returns.
ReadReply(c) ==
  LET r == Head(replies[ReplyList(c)]) IN
  /\ cstate[c] = "wait"
  /\ replies[ReplyList(c)] # <<>>
  /\ replies' = Pop(replies, ReplyList(c))
  /\ got' = [got EXCEPT ![c] = Append(@, r)]
  /\ index' = [index EXCEPT ![c] = @ + 1]
  /\ cstate' = [cstate EXCEPT ![c] =
        IF fs = "HDFS" /\ Len(r.fetch) # Expected(c) THEN "exit"
        ELSE IF index[c] + 1 = Streams(c) THEN "end" ELSE "run"]
  /\ UNCHANGED <<conf, meta, dr_requests, pc, req, work, served, lastHelperStore, queues, dr_passive>>

----------------------------------------------------------------------------
\* Metadata base.

\* The blocks a set is narrowed down to: the first EcK of an order.
First(s) == SubSeq(s, 1, IF Len(s) < EcK THEN Len(s) ELSE EcK)
ByIp(S) == SetToSortSeq(S, LAMBDA a, b : blkIp[a] < blkIp[b])
ByName(S) == SetToSortSeq(S, LAMBDA a, b : a < b)

\* _blk2Stripe: the blocks a block is rebuilt from, those of the first EcK others
\* whose reports were not passed over.
Recoverers(b) == ToSet(First(ByName(Blocks \ {b}))) \cap stripeStore

\* getStripeBlks: in a random order.
getStripeBlks(b) == SetToSeqs(Recoverers(b))

\* getStripeBlksMul with opt = 0: the helpers that rebuild the blocks `lost' for
\* a requestor, in the order of their IPs.
Chosen(lost, ip) ==
  LET alive == stripeStore \ lost
  IN IF fs = "HDFS" /\ Cardinality(lost) = 1
       THEN ByIp(ToSet(First(ByName(alive))))
       ELSE First(ByIp({b \in alive : blkIp[b] # ip}))

\* The map it returns: the key of a lost block's chain is the requestor for the
\* block blkName (HDFS only) and the failed node for any other.
getStripeBlksMul(blkName, lost, ip) ==
  LET other == lost \ (IF fs = "HDFS" THEN {blkName} ELSE {})
      keys == {blkIp[b] : b \in other} \cup (IF fs = "HDFS" THEN {ip} ELSE {})
  IN [k \in keys |-> IF \E b \in other : blkIp[b] = k
                       THEN CHOOSE b \in other : blkIp[b] = k ELSE blkName]

----------------------------------------------------------------------------
\* The handler.

Lost(c) == ToSet(lostFiles[c])

\* parseFRRequest: the block the requestor itself has lost, else the first.
reqFile(c) ==
  LET own == {b \in Lost(c) : blkIp[b] = reqIP[c]}
  IN IF own # {} THEN CHOOSE b \in own : TRUE ELSE lostFiles[c][1]

Command(r, file, helpers, i, ind, num) ==
  [r |-> r, role |-> "helper", to |-> blkIp[helpers[i]], files |-> {file}, block |-> helpers[i],
   id |-> i - 1, last |-> i = Len(helpers), ind |-> ind, num |-> num]

\* block: what the requestor itself contributes, 0 for nothing.
RequestorCommand(r, files, ip, block) ==
  [r |-> r, role |-> "requestor", to |-> ip, files |-> files, block |-> block, id |-> EcK,
   last |-> TRUE, ind |-> 1, num |-> 1]

\* The commands of one chain.
ChainCommands(r, file, helpers, ind, num) ==
  [i \in 1..Len(helpers) |-> Command(r, file, helpers, i, ind, num)]

Taken == served + 1

\* What every path of the handler leaves alone.
HandlerKeeps == UNCHANGED <<conf, meta, queues, replies, clientState>>

\* The request is dropped: `continue'.
Drop ==
  /\ pc' = "idle" /\ work' = NoWork
  /\ UNCHANGED <<lastHelperStore, dr_passive>>

\* exit(1), or an access beyond an empty vector.
End ==
  /\ pc' = "ended" /\ work' = NoWork
  /\ UNCHANGED <<lastHelperStore, dr_passive>>

\* A reply without commands.
ReplyOnly(list, ip) ==
  /\ pc' = "reply"
  /\ work' = [r |-> Taken, cmds |-> <<>>, list |-> list, fetch |-> <<ip>>]
  /\ UNCHANGED dr_passive

\* Mutant: the transaction is not executed.
Execute_Discarded(cmds, list, fetch) ==
  /\ pc' = "reply"
  /\ work' = [r |-> Taken, cmds |-> cmds, list |-> list, fetch |-> fetch]

Execute(cmds, list, fetch) ==
  /\ pc' = "exec"
  /\ work' = [r |-> Taken, cmds |-> cmds, list |-> list, fetch |-> fetch]

\* dr_passive: the coordinator pushes to the failed nodes' own Redis.
PushPassive(c, stripes) ==
  dr_passive' = [n \in NodeSet |->
                   IF fs = "HDFS" /\ n \in DOMAIN stripes \ {reqIP[c]}
                     THEN Append(dr_passive[n], stripes[n]) ELSE dr_passive[n]]

\* Mutant: every stream is answered in the list of the first.
BasicIndexed_FirstList(c, i) ==
  LET f == lostFiles[c][i + 1] IN
  IF fs # "HDFS3" THEN Drop
  ELSE IF lastHelperStore[f] = 0 THEN End
  ELSE /\ ReplyOnly(lostFiles[c][1], lastHelperStore[f])
       /\ lastHelperStore' = [lastHelperStore EXCEPT ![f] = 0]

\* PipeMulCoordinator, policy basic.
BasicIndexed(c, i) ==
  LET f == lostFiles[c][i + 1] IN
  IF fs # "HDFS3" THEN Drop
  ELSE IF lastHelperStore[f] = 0 THEN End
  ELSE /\ ReplyOnly(f, lastHelperStore[f])
       /\ lastHelperStore' = [lastHelperStore EXCEPT ![f] = 0]

\* Mutant: only for the first block.
Stored_First(c, repaired, last) ==
  [lastHelperStore EXCEPT ![lostFiles[c][1]] = last]

\* lastHelperStore after the chains that repair `repaired' end at node last.
Stored(c, repaired, last) ==
  [b \in Blocks |-> IF b \in Lost(c) \cap repaired THEN last ELSE lastHelperStore[b]]

Basic(c) ==
  LET file == lostFiles[c][1]
      helpers == Chosen(Lost(c), reqIP[c])
      \* HDFS 3 returns an empty map when there are not enough helpers
      enough == Len(helpers) = EcK
      stripes == IF enough THEN getStripeBlksMul(file, Lost(c), reqIP[c]) ELSE <<>>
      keys == SetToSortSeq(DOMAIN stripes, <)
      repaired == {stripes[k] : k \in DOMAIN stripes}
      store == IF enough THEN Stored(c, repaired, blkIp[helpers[EcK]]) ELSE lastHelperStore
      cmds == FlattenSeq([j \in 1..Len(keys) |->
                ChainCommands(Taken, stripes[keys[j]], helpers, Len(keys) - j + 1, Len(keys))])
  IN IF ~enough /\ fs = "HDFS" THEN End
     ELSE /\ lastHelperStore' = store
          /\ PushPassive(c, IF Len(lostFiles[c]) > 1 THEN stripes ELSE <<>>)
          /\ Execute(cmds, file, [k \in 1..Len(lostFiles[c]) |-> store[lostFiles[c][k]]])

\* PipeCoordinator, policy basicSingle.
BasicSingle(c) ==
  LET file == reqFile(c) IN
  \E stripe \in getStripeBlks(file) :
    LET holder == isRequestorHolder([i \in DOMAIN stripe |-> blkIp[stripe[i]]], reqIP[c])
        others == IF holder = -1 THEN stripe ELSE RemoveAt(stripe, holder + 1)
        cmds == ChainCommands(Taken, file, others, 1, 1)
    IN IF Len(stripe) < EcK THEN Drop
       ELSE IF holder = -1
         THEN /\ Execute(cmds, file, <<blkIp[Last(stripe)]>>)
              /\ UNCHANGED <<lastHelperStore, dr_passive>>
         \* stripe[ecK - 1] with ecK = size | 0x100 reads far beyond the vector
         ELSE \/ End
              \/ /\ Execute(<<RequestorCommand(Taken, {file}, reqIP[c], stripe[holder + 1])>> \o cmds, file,
                            <<blkIp[Last(others)]>>)
                 /\ UNCHANGED <<lastHelperStore, dr_passive>>

\* ConvCoordinator.
Conv(c) ==
  LET file == reqFile(c)
      helpers == Chosen(Lost(c), reqIP[c])
      stripes == getStripeBlksMul(file, Lost(c), reqIP[c])
  IN \* no entry of the requestor: stripe_mul[requestorIP].second is empty
     IF Len(helpers) < EcK \/ reqIP[c] \notin DOMAIN stripes THEN End
     ELSE /\ PushPassive(c, stripes)
          /\ Execute(Append(ChainCommands(Taken, file, helpers, 1, 1),
                            RequestorCommand(Taken, Lost(c), reqIP[c], 0)),
                     lostFiles[c][1], <<reqIP[c]>>)
          /\ UNCHANGED lastHelperStore

\* PPRCoordinator, with as many helpers as there are.
Ppr(c) ==
  LET file == lostFiles[c][1]
      stripe == ByIp(Recoverers(file))
  IN /\ Execute(Append(ChainCommands(Taken, file, stripe, 1, 1),
                       RequestorCommand(Taken, {file}, reqIP[c], 0)), file, <<reqIP[c]>>)
     /\ UNCHANGED <<lastHelperStore, dr_passive>>

\* requestHandler: a request that is not the first of its client is only answered.
Indexed(c, i) ==
  CASE policy = "basic" -> BasicIndexed(c, i)
    [] policy = "basicSingle" -> Drop
    [] policy = "conv" -> ReplyOnly(lostFiles[c][i + 1], reqIP[c]) /\ UNCHANGED lastHelperStore
    [] policy = "ppr" -> IF fs = "HDFS3"
         THEN /\ ReplyOnly(lostFiles[c][i + 1], blkIp[lostFiles[c][i + 1]])
              /\ UNCHANGED lastHelperStore
         ELSE Drop

FirstOf(c) ==
  CASE policy = "basic" -> Basic(c)
    [] policy = "basicSingle" -> BasicSingle(c)
    [] policy = "conv" -> Conv(c)
    [] policy = "ppr" -> Ppr(c)

requestHandler ==
  LET q == Head(dr_requests) IN
  /\ pc = "idle"
  /\ dr_requests # <<>>
  /\ dr_requests' = Tail(dr_requests)
  /\ req' = q
  /\ served' = Taken
  /\ IF ~(Lost(q.c) \subseteq stripeStore) THEN End     \* getIPfromBlk
     ELSE IF q.index > 0 THEN Indexed(q.c, q.index) ELSE FirstOf(q.c)
  /\ HandlerKeeps

\* _ip2Ctx[searchCtx(ip)]: the distributor of a node.
Distributor == [ip \in NodeSet |-> disQ(Len(Nodes), Dists)[searchCtx(Nodes, ip)]]

\* Mutant: the commands are pushed to the other end of the queues.
Exec_Lpush ==
  /\ pc = "exec"
  /\ disQs' = [d \in DOMAIN disQs |->
                 SelectSeq(work.cmds, LAMBDA m : Distributor[m.to] = d) \o disQs[d]]
  /\ pc' = "reply"
  /\ UNCHANGED <<conf, meta, dr_requests, req, work, served, lastHelperStore, dr_cmds, dr_passive,
                 replies, clientState>>

\* MULTI, an RPUSH per command, EXEC.
Exec ==
  /\ pc = "exec"
  /\ disQs' = [d \in DOMAIN disQs |->
                 disQs[d] \o SelectSeq(work.cmds, LAMBDA m : Distributor[m.to] = d)]
  /\ pc' = "reply"
  /\ UNCHANGED <<conf, meta, dr_requests, req, work, served, lastHelperStore, dr_cmds, dr_passive,
                 replies, clientState>>

Reply ==
  /\ pc = "reply"
  /\ replies' = Push(replies, work.list, [r |-> work.r, c |-> req.c, fetch |-> work.fetch])
  /\ pc' = "idle"
  /\ work' = NoWork
  /\ UNCHANGED <<conf, meta, dr_requests, req, served, lastHelperStore, queues, dr_passive,
                 clientState>>

\* cmdDistributor
cmdDistributor(d) ==
  LET m == Head(disQs[d]) IN
  /\ pc \notin {"init", "ended"}
  /\ disQs[d] # <<>>
  /\ disQs' = Pop(disQs, d)
  /\ dr_cmds' = Push(dr_cmds, m.to, m)
  /\ UNCHANGED <<conf, meta, dr_requests, pc, req, work, served, lastHelperStore, dr_passive, replies,
                 clientState>>

Handler == requestHandler \/ Exec \/ Reply
Client(c) == SendRequest(c) \/ ReadReply(c)

Next ==
  \/ \E n \in NodeSet : Report(n)
  \/ TakeReport
  \/ Handler
  \/ \E d \in DOMAIN disQs : cmdDistributor(d)
  \/ \E c \in Clients : Client(c)

\* The helpers are all started and Redis answers; a BLPOP that times out after
\* 100 s is repeated.
Fairness ==
  /\ \A n \in NodeSet : WF_vars(Report(n))
  /\ WF_vars(TakeReport) /\ WF_vars(Handler)
  /\ \A d \in 0..(Dists - 1) : WF_vars(cmdDistributor(d))
  /\ \A c \in Clients : WF_vars(Client(c))

Spec == Init /\ [][Next]_vars /\ Fairness

----------------------------------------------------------------------------
\* The commands a helper has received, and those on their way to it.
Stream(n) == dr_cmds[n] \o SelectSeq(disQs[Distributor[n]], LAMBDA m : m.to = n)

\* Every helper gets its commands in the order in which the coordinator took the
\* requests, so two helpers never meet the same two repairs in opposite orders:
\* the workers, which execute one command at a time and wait for each other's
\* packets, would wait for ever.  The commands of one request to a helper come
\* together and count down to 1: PipeMulDRWorker reads that many before it starts.
CommandsInOneOrder ==
  \A n \in NodeSet : LET s == Stream(n) IN
    \A i \in DOMAIN s :
      /\ \A k \in DOMAIN s : i < k => s[i].r <= s[k].r
      /\ s[i].ind > 1 => i < Len(s) /\ s[i + 1].r = s[i].r /\ s[i + 1].ind = s[i].ind - 1
      /\ s[i].ind = s[i].num <=> i = 1 \/ s[i - 1].r # s[i].r \/ s[i].num = 1

\* The blocks that can help client c.
Eligible(c) ==
  {b \in stripeStore \ Lost(c) : (fs = "HDFS" /\ Cardinality(Lost(c)) = 1) \/ home[b] # reqIP[c]}

Starved(c) == Cardinality(Eligible(c)) < EcK
Shares(c) == \E d \in Clients \ {c} : Lost(c) \cap Lost(d) # {}

\* The requests whose chains are not all set up although they are answered: HDFS 3
\* goes on with an empty map when there are too few helpers; HDFS keys two chains
\* by the requestor when that lost a block other than the first; PPR repairs the
\* first block only, and from too few others when the metadata base has no more.
Incomplete(c, k) ==
  \/ policy = "basic" /\ fs = "HDFS3" /\ (Starved(c) \/ \E d \in Clients : Shares(c) /\ Starved(d))
  \/ policy = "basic" /\ fs = "HDFS" /\ k = 1 /\ \E i \in 2..Len(lostFiles[c]) : home[lostFiles[c][i]] = reqIP[c]
  \/ policy = "ppr" /\ (k > 1 \/ Cardinality(Recoverers(lostFiles[c][1])) < EcK)

\* The blocks that contribute to the chain of command m.
Sources(m) ==
  {x.block : x \in {y \in UNION {ToSet(Stream(n)) : n \in NodeSet} : y.r = m.r /\ y.ind = m.ind}} \ {0}

\* Node ip has been given the last part in rebuilding block f, the k-th of its
\* request, from EcK others by the request that is answered or an earlier one.
Produced(rep, k, ip, f) ==
  \/ Incomplete(rep.c, k)
  \/ \E i \in DOMAIN Stream(ip) : LET m == Stream(ip)[i] IN
       m.r <= rep.r /\ f \in m.files /\ m.last /\ Cardinality(Sources(m)) = EcK

\* What a reply sends its client to is being produced: the nodes named in a reply
\* of PipeMulCoordinator, PipeCoordinator, ConvCoordinator or PPRCoordinator have
\* their part in rebuilding the lost blocks before the client can read the reply.
FetchedWhereProduced ==
  \A c \in Clients : \A j \in DOMAIN got[c] :
    LET rep == got[c][j]
        d == rep.c IN
    IF fs = "HDFS" /\ policy = "basic"
      THEN \A k \in DOMAIN rep.fetch : Produced(rep, k, rep.fetch[k], lostFiles[d][k])
      ELSE Produced(rep, j, rep.fetch[1], lostFiles[c][j])

\* When the coordinator's process ends, it does for a request of one of these
\* kinds.  In the last one, two clients repair the same blocks at the same time:
\* the reply to the first one's second stream clears the entry of lastHelperStore
\* that the other's needs.
EndsOnlyFor ==
  pc = "ended" =>
    LET c == req.c IN
    \/ ~(Lost(c) \subseteq stripeStore)
    \/ policy \in {"basic", "conv"} /\ Starved(c)
    \/ policy = "conv" /\ fs = "HDFS3" /\ \A b \in Lost(c) : home[b] # reqIP[c]
    \/ policy = "basicSingle" /\ \E b \in Recoverers(reqFile(c)) : home[b] = reqIP[c]
    \/ policy = "basic" /\ fs = "HDFS3" /\ req.index > 0 /\ Shares(c)

\* A block the coordinator waits for and no helper is going to report.
Unreported ==
  {b \in blks : (\A n \in NodeSet : b \notin toReport[n]) /\ \A i \in DOMAIN blk_init : blk_init[i][2] # b}

\* Again and again no request waits for a reply, whatever is still to be reported
\* when it is sent and however the threads interleave, as long as the coordinator
\* gets the reports it waits for and lives, no other client waits for the same
\* block's reply, and the request is not one that policy basicSingle never answers
\* (not the first of its client, or without enough helpers) or answers in another
\* block's list.
RequestsAnswered ==
  []<>\A c \in Clients :
    \/ cstate[c] # "wait" \/ pc = "ended" \/ Shares(c)
    \/ Unreported # {}
    \/ policy = "basicSingle" /\ (index[c] > 0 \/ Cardinality(Recoverers(reqFile(c))) < EcK)
    \/ policy = "basicSingle" /\ reqFile(c) # lostFiles[c][1]
====
