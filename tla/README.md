# A TLA+ model of CoRD (update2repair)

CoRD updates and repairs erasure-coded stripes.  A stripe has `ecK` data and
`ecM` parity blocks, one block per node.  A coordinator process tells the nodes
what to do; every message between processes is an element of a Redis list
(`RPUSH` / `BLPOP`).  This directory holds TLA+ modules that model the program,
TLC configurations that check them, and TLAPS proofs.  Paths below are relative
to `src/CoRD/src` unless they say otherwise; `qfs/` stands for
`src/CoRD/qfs-integrate/src`.

## Inventory

`ECCoordinator` runs one of two programs: with `update.policy` set it is the
*update* coordinator (`UPCoordinator`), otherwise a *degraded-read* coordinator.
`ECHelper` on each node runs `UPNode`, or a `BlockReporter` and one or more
`DRWorker`s.  A client of a degraded read is an `ECPipeInputStream`, in the
program `ECPipeClient` or inside a patched file system (QFS, HDFS-RAID, Hadoop 3).

| component | state | operations | interacts with |
|---|---|---|---|
| `UPCoordinator`, commands | `upd_blk_vec` of the stripe at work, the counts of `init` and `recvAck`; its Redis lists `test`, `ack` | `init`, `RaidUpdate`, `DeltaUpdate`, `CrdUpdate`, `recvAck`, `trigger_update` | pushes `upd_cmds` to every node, pops `test` and `ack` |
| `UPCoordinator`, sub-sets | none | `is_intersected`, `get_upd_solu_crd`, `get_sub_set_id`, ranges of sub-sets | used by `CrdUpdate`; `UPNode` computes the ranges again |
| `UPCoordinator`, log | the two maps of the update log, request counter, `<trace>-result.csv` | `single_doProcess`, `multi_doProcess`, `is_computed` | hands one vector per stripe to `trigger_update` |
| `UPNode` | command at work, receive buffers, block file `blk_<id>`; its Redis lists `upd_cmds`, `raidData`, `deltaData`, `crdData` | `init`, `doProcess`, eight task handlers | pushes data to other nodes, `test` and `ack` to the coordinator |
| `scripts/start.py`, `stop.py` | the processes and Redis contents of all hosts | flushall, kill, start | both programs |
| degraded-read coordinators (`Coordinator` and its subclasses) | request queue, `lastHelperStore`, tables of the helpers | request handler, `cmdDistributor`, `searchCtx` | client requests in, `dr_cmds` out, reply to the client |
| degraded-read workers (`DRWorker` and its six subclasses) | packet buffers, `_diskFlag`, `_waitingToSend`, condition variables | reader, puller, sender, requestor threads | packets between helpers and to the client |
| `ECPipeInputStream`, `ECPipeClient` | packets received, completion index | `sendRequest`, collector and forwarding threads | coordinator and helpers |
| metadata bases, `BlockReporter` | block → stripe and block → holder maps, repair counts | block reports, choice of helpers | coordinators |
| `PathSelection` | best path so far | greedy start, branch and bound | pipe coordinators |
| `RSUtil`, `Util/jerasure.c` | – | matrices over the field, coefficients | workers, coordinators, `UPNode` |
| QFS chunk replicator (`qfs/Replicator.cc`) | replications in flight, their chunk files, the client threads they share | run, read, write, cancel, complete | metaserver, peers, `ECPipeInputStream`, the striped Reader |
| QFS client (`qfs/KfsClient.cc`) | attribute cache with three indexes, table of open files | calls on paths and open files | metaserver |
| `Config`, entry points, `tinyxml2` | – | parsing | – |

What is hard here:

* **Concurrency without identification.**  Neither list keys nor payloads of an
  update carry a stripe number, acks are anonymous, and data nodes never ack.
  Only the order of the program keeps stripes apart.  Packets of a repair carry
  no request number either.
* **Condition variables** whose predicate is tested before the mutex is taken
  and changed without it.
* **State kept across requests**: flags and buffers of a helper, the last
  helpers of the coordinator, the log across trace files.
* **Two computations of one thing.**  The range of a CRD sub-set is computed by
  the coordinator and by the collector.
* **Start-up, restart and failure.**  A node's Redis is flushed right before its
  helper starts; the result file outlives the process; a `BLPOP` may time out.
* **Boundaries.**  Ranges that end at a block boundary, touch, or are empty; the
  log at its limit; the last group of slices; repair counts at their limit.
* **Cancellation** of a recovery that is at work in another thread, and threads
  that are shared by recoveries.
* **Caching** of attributes other clients change between the requests of a call.

`PROJECT.json` lists each of these at its line, with the properties about it.

## Modules

| module | models |
|---|---|
| `StripeUpdate` | update coordinator, nodes, Redis lists, disks |
| `StripeBarrier` | what the update path promises: one stripe at a time, each parity commits each stripe once |
| `CrdSubsets` | grouping of ranges and the ranges of the groups |
| `UpdateLog` | trace replay and the update log |
| `StripeUpdateProofs` | theorems about `CrdSubsets` and `StripeUpdate`: the sub-sets, acks and barrier, data messages, block contents |
| `UpdateLogProofs` | theorems about `UpdateLog` |
| `CondVar`, `RedisLists`, `DrCmds` | the waits of the repair threads; lists and packets; the commands of a node |
| `ECPipeInputStream` | collector and forwarder of a client; extended by the two pipe modules |
| `PipeDRWorker`, `PipeMulDRWorker` | repair pipelining, one or several lost blocks |
| `ConvDRWorker` | conventional repair |
| `PipeDRWorkerProofs`, `PipeMulDRWorkerProofs` | theorems about pipelined repair of one and of several blocks |
| `ConvDRWorkerProofs`, `PPRPullDRWorkerProofs` | theorems about conventional and partial-parallel repair |
| `DataInduction` | lemmas the proofs share: induction, recursive functions, sequences, command lists |
| `PPRPullDRWorker`, `PprTree` | partial-parallel repair and its tree |
| `CyclMulFRWorker`, `CyclSchedule` | cyclic repair with its client, and its schedule |
| `RepairRequest`, `CoordinatorTables` | clients, coordinator, distributors, block reports |
| `ScheduledBlks`, `PathSelection`, `RSCode` | choice of helpers, path search, Reed-Solomon coefficients |
| `Replicator`, `ReplicatorProofs` | the chunk replicator of QFS, and theorems about it |
| `KfsAttrCache`, `KfsClient` | the attribute cache of the QFS client and the calls on it |
| `MC*` | instances for TLC; `MCRepairTables` also holds the reference definitions of the pure algorithms |

`StripeUpdate` and `UpdateLog` meet at `trigger_update`: `UpdateLog` produces
the vectors, and its property `VecOK` is the assumption `VecsAssumption` of
`StripeUpdate` (except that the empty vector is the initial value of `vec`).
`RepairRequest` and the workers meet at `dr_cmds`: the workers start from the
commands of a request, and `CommandsInOneOrder` is the order of the command
lists they start with.  `MCRepairTables` checks the tables `RepairRequest` uses.

### StripeUpdate

A step is one Redis command or one disk write.  `BLPOP` with a timeout is
retried by every caller, so a blocked reader is a disabled action.

| code | model |
|---|---|
| `UPCoordinator::init` | `RecvTest`, one per `test` message (`need` is `count`) |
| `start.py` + `UPNode::init` | `StartHelper`: flushall and `RPUSH test` |
| one iteration of `trigger_update` | `StartStripe`, then `SendCmd` for each `RPUSH upd_cmds` in the code's order (`RaidTargets`, `DeltaTargets`, `CrdTargets`), then `RecvAck` `ecM` times |
| `rand()` for the collector | `\E c` in `Collectors` |
| `UPNode::doProcess` | `TakeCmd`; `FirstPhase` is the dispatch and the code up to the first Redis command |
| task 1 … 8 | the eight actions with the handlers' names |
| receive loops | `Recv`; `npc` goes to `exit` where the code exits or has no buffer |
| end of a handler | `Return` |

*Data.*  A block is a function from KB units to formal XOR sums: sets of terms
⟨coding row, data block, unit value⟩.  Encoding with a row relabels the terms,
XOR is symmetric difference, and different terms are taken to be independent.
`gene_radm_buff` always writes the same pattern from its start, so the new value
of a unit is its distance from the start of the range; two updates of the same
range therefore cancel in the model exactly where they do in the program.
Heap bytes (`UPNode.cc:567`) are the term `Junk`; the copy may also fault
(`OverreadFault`, enabled by the constant `OverreadFaults`).
`DeltaParity` keeps the code's units: an offset in bytes instead of KB, and
`blocksize` *bytes* written back.

*Ghosts.*  `sid` in commands and messages (the stripe they were sent for) and
`lost` are read by no guard.  `lost` collects `LeftOut` of each stripe: the units
outside the range `CrdUpdate` sends, every parity unit of a raid stripe, and for a
delta stripe the units of the updated ranges and the first unit, where the offset
in bytes makes the parity write (see below).

### UpdateLog

One action per iteration of the loops of `multi_doProcess`; `policy # "all"`
gives `single_doProcess`.  Requests are in half KB, because the code rounds
bytes to KB and the Tencent trace counts 512-byte sectors.  `logged`, `lo`, `hi`
are the map `glo_blk_id2start_end`, `list` is `stripe_id2loc_blk_id`.  The
contents of a trace are arbitrary: each line is any member of `Requests`.
`Crash` ends the process at any point; `NextExperiment` starts it again after it
has returned.  Of both only the result file survives.

### The repair workers

A packet is the set of terms ⟨helper, packet number, …⟩ XORed into it, so a
packet that lacks a part, has one twice (it cancels) or mixes two requests is
visible.  `dr_cmds` of a node starts with the commands of the requests it takes
part in, in the order of the requests (`Queued`).  A step is one access to a shared flag, counter, buffer, list or
condition variable; buffers keep what an earlier request left in them.

*Waiting.*  Every wait of the workers has the form `while (!p) { lock; wait; }`
with `p` tested before the lock and changed without it.  `CondVar` does not
split the loop into its instructions: a thread whose predicate is false may, when
the notification comes, see the new value or miss the notification, and a thread
that has missed one sleeps until the next.  This admits what the loop does and
nothing else, since a notification is lost only when it falls between a failed
test and the sleep.  Spurious wake-ups, which would only repair a missed
notification, are left out.

*Per module.*  `PipeDRWorker` has two clients, helpers that serve a second
request, and replies that take longer than the time-out of `BLPOP`
(`PipeDRWorker.cc:99`); the other modules leave the time-out out.
`PipeMulDRWorker` and `ConvDRWorker` are the branches built with `PIPE_MUL_OPT`
and `CONV_OPT`, which the build files set.  `CyclMulFRWorker` covers the policies
`cyclic` and `cyclicSingle`; writing `_toSendIds` before it is allocated and
looking up a slice before the maps are built are undefined behaviour and may
crash the helper or give any id.  The reader builds the maps in one step, and a
packet with its trace in one step, except the last packet: the first bytes of it are
printed after it has been counted (`ReaderShow`, `CyclMulFRWorker.cc:326`), when the
sender may have sent it and freed the buffers (`Freed`), and this may crash the
helper.  The constants the code compares the progress of the sender with are `Ahead` and
`AheadEnd`, scaled to the number of packets of the instance.

### RepairRequest

The coordinator has one handler thread.  A request handler is one action from
the pop of the request to the transaction that queues the commands and pushes
the reply, split where the code gives other threads a chance; distributors pass
commands on one by one; block reports arrive in any order.  `fs` selects
`HDFS_MetadataBase` or `HDFS3_MetadataBase`.  `stripeStore` are the blocks the
metadata base has a file of: reports of others are passed over, they are no helpers,
and a request for one ends the coordinator (`getIPfromBlk`).  Blocks may stay without
a report, and then start-up never ends.  `LostFiles` is what a client keeps of the
blocks it is given: all of them for the policies that repair several, the first one
otherwise.  The coordinator's ends (`exit(1)`, access outside a vector) are a state of
it, and `EndsOnlyFor` lists them; `RequestsAnswered` lists the requests without reply,
among them those of `basicSingle` with fewer than `ecK` helpers
(`PipeCoordinator.cc:113`).

### Pure algorithms

`MCRepairTables` walks through inputs, one per state: vectors of ranges for
`CrdSubsets`; all 2×2 matrices, 3×3 matrices of zeros and ones, and losses of codes up to k = m = 3 for `RSCode`, over
GF(2^3) where the code uses GF(2^8) (the routines do not depend on the width);
weights of links for `PathSelection`; lists of helpers for `CoordinatorTables`;
sequences of requests for `ScheduledBlks`, from any requestor, with any nodes that
have their block and with the coordinator on any node or none, and `MAX_ORDER` 3 for
the code's value.

### Replicator

Main thread and client threads of the QFS chunk server; a step is one section
under the mutex of the client manager or one step of a client thread.  Peer,
chunk manager, buffer manager, Reader and ECPipe are external and answer
anything they may answer, a failure included.  `GetMetaserver` deals recoveries to
the client threads in turn (`sLastIdx`; all to the main thread when there are none),
and the connection of a copy to its peer is served by any thread.  A thread runs one
handler at a time, so the requests of a thread wait while one of them is handled
(`ThreadFree`), for ever if it is `"stuck"` in `getNextPacket`.  The server dies in
`die()` and `FatalError()` and where `HandleECPipeStart` uses what it has not tested:
the `KfsClient` when the metaserver did not answer, the second stream when it has no
connection.  `GetReadSize` is kept with its arithmetic (least common multiple of
stripe and checksum block).

### KfsClient

A call holds `mMutex`; a step is one request to the metaserver with the work up
to the next one, and between two steps other clients change the namespace and
entries expire.  A request may be refused, and its reply may be lost although it
was carried out.  The cache (`KfsAttrCache`) is modelled with its indexes by key
and by path, its LRU list, the generation that invalidates everything, eviction,
and prefix invalidation as the code does it.  The ghost `unseen` holds the files
whose change leaves the cache alone by design of the code (below), `moved`
says that a directory was moved by another client, `others` that another client
acted.

## Runs

| run | question | result |
|---|---|---|
| `update_all` | four policies, two stripes, all interleavings, nodes that die in task 4: do stripes mix, do acks balance, can a stripe be counted complete after a node died in it, does the parity encode the data, is the barrier implemented? | holds, except for the units of `lost` |
| `update_live` | does every stripe complete, and every write happen? | holds |
| `log_trace` | trace and random way, one policy or all: are the vectors well formed, the maps in step, the log bounded, the rows unique, does replay end? | holds |
| `pipe_repair` | does a client get the lost block, does every repair end? | the block is right; a repair stops only after a time-out or a missed last notification |
| `mul_repair` | the same for several lost blocks and helpers that have served before | right for the first request of a helper; later ones are spoilt from a reused helper on |
| `conv_repair` | are the blocks rebuilt, is a buffer freed in use? | rebuilt, freed last |
| `ppr_repair` | is each helper's part in the sum once, does any tree stall? | holds, up to missed notifications |
| `cycl_repair` | are the slices whole, does the ring stall? | whole for `cyclic` unless the allocation race happens, and for full groups with `cyclicSingle`; the trace of freed memory takes no slice from the client |
| `repair_request` | order of commands, where the reply sends the client, ends of the coordinator, unanswered requests | the exceptions are part of the properties |
| `repair_tables` | do the pure algorithms compute their reference? | as their properties state |
| `qfs_replicator` | cancellation against completion: is a stable chunk whole, who writes it, for what does the server die, is every request answered and its replicator deleted? | holds; the server dies for three reasons, of which none is an order of events that a FatalError guards, and the answers except a recovery cancelled while ECPipe works on it and requests that share its client thread |
| `qfs_client` | do the indexes of the cache agree, does the client see its own changes, is a removed path served? | holds, with the exceptions below |

**Bounds.**  `update_*`: `ecK = ecM = 2`: two data nodes give a collector and a
sender, two parities a collector and a receiver, and rows that can be confused.
Two stripes are the least for mixing, and enough for a message to meet the
following stripe; the code keeps no state across more than one stripe boundary
except the disks.  `blocksize = 3`: the first and last unit are apart, so there
are one or two sub-sets; ranges include the whole block and the empty one.
`log_trace`: the requests lie inside a block, end at a boundary, cross a block
and a stripe, and are unaligned; the log holds three of four blocks and three
requests of a file are replayed, so that files end with a full, a partly filled
and an empty log.  `MaxCrashes` and `MaxRuns` bound crashes and experiments.
Workers: two packets are the least for order and for a notification that is not
the last; two requests over shared helpers for what one leaves to the next; two
helpers for a first and a last one (three for the smallest tree with an inner
node and for a ring); two lost blocks where a request may have several.
`SlowHops` bounds time-outs.  `cycl_repair` has k = 3 and five packets: two full
groups of two slices and a shorter one (three packets would divide by zero in the debug output,
`gettime.cpp:14`); its constraint `StillJudged` stops where neither property says
anything any more.
`repair_request`: four nodes with a block and one without, two clients, two
distributors, k = 2 of 4 blocks, so that enough, too few and just enough helpers are
alive; all blocks known and reported, or one unknown (a helper's or a requested one) or
one never reported.  `repair_tables`: up to
four blocks of four units in every order, so that chains of three ranges and
hulls with holes filled later occur.  `qfs_replicator`: two operations on one
chunk, a peer's chunk that ends inside a read and inside a checksum block or is too
long, recoveries of two reads or of one that ends early, no, one or two client
threads (`MaxClientThreads`), so that two recoveries share a thread or have one each.
`qfs_client`:
`MaxCalls = 3` calls and `MaxDisturbed = 1` action of another client or lost
reply, one directory with a file and a free name, a cache of three entries, so
that eviction, expiry and the limits of one invalidation and of one page of a
listing are reached; after the last call nothing else happens.  `SetReplicationFactorR`
stands for the recursive calls that walk the tree in the same way.

**Fairness.**  `StripeUpdate!FairSpec` has weak fairness for the coordinator and
for each node: they are separate processes that block only in `BLPOP`, and what
they wait for stays in the list.  `update_live` excludes `OverreadFaults`.
`UpdateLog!FairSpec` has weak fairness for the single thread of the coordinator
and none for crashes.  `PipeDRWorker` has weak fairness for each thread,
`RepairRequest` for each thread and for the reports of live helpers,
`Replicator!FairSpec` for each thread of the chunk server: a thread that can go on with
one of its requests does, with which is left open (the queue is finite, so none is
starved but by a handler that does not return); none for cancellations.  All of these are threads of running processes, and the
external services of the replicator answer what they are asked.

**Deadlock** is checked in `update_all` and `log_trace`.  The repair runs may
stop because a notification was missed; there the halting properties
(`HaltsOnly…`, `RepairsEndOrMissWakeup`) say exactly when, which is stronger than
TLC's check.  `update_live`, `repair_request` and `qfs_replicator` have liveness properties
instead; `repair_tables` and `qfs_client` end at their bounds.

## What the code does and a reader may not expect

These are facts of the models, taken over from the code; where a property has an
exception, it is one of them.

* `UPNode.cc:403`: the raid collector sends parity `blk_id` the buffer of the
  opposite row, and the parity overwrites its whole block with encoded deltas;
  `UPNode.cc:567` copies from the address of a pointer, so delta parities receive
  heap bytes.  `CrdConsistent` therefore speaks of crd updates.
* `UPCoordinator.cc:979` decrements the end of a sub-set once per block: the
  range sent to the other parities may be short (`PartitionIsComponents` bounds
  the loss).
* `UPCoordinator.cc:1757`: a request that ends at a block boundary logs an empty
  range of the next block; `:1807` takes the minimum of both ends when it
  merges ranges; `:1602` takes a remainder by zero for a random range at the end
  of a block; `:1671` skips a file that has a row when an experiment is repeated.
* `PipeMulDRWorker` never resets its flags for several jobs; `CyclMulFRWorker.cc:91`
  allocates `_toSendIds` after starting its users; `cyclicSingle` does not
  deliver whole slices of a last group that is not full.
* Policy `basicSingle` never answers a request for a block after the first, and
  with a requestor that holds a block it indexes `stripe[ecK - 1]` with the flag
  still in `ecK`.  `basic` with HDFS 3 and too few helpers replies with the
  helpers of an earlier request, or none; with HDFS a requestor that lost a
  block other than the first overwrites an entry of the map; two HDFS 3 clients
  that repair the same blocks can end the coordinator; `conv` with HDFS 3 and a
  requestor that owns no lost block reads an empty vector.
* `PathSelection` leaves no path when the greedy path is optimal.  The search of
  `_ip2Ctx` needs the helpers in the order of their addresses, and the sort in
  `Coordinator::init` is commented out.
* A request for a block the metadata base has no file of ends the coordinator
  (`HDFS_MetadataBase.cc:698`); `ppr` builds its tree over fewer than `ecK` helpers
  without complaint; one block without a report keeps the coordinator from serving
  any request.  The choice of helpers exits when it falls on the coordinator's node
  (`HDFS_MetadataBase.cc:758`).
* `qfs/Replicator.cc:1484`: `KfsClient::Connect` returns a null pointer when the
  metaserver does not answer its LOOKUP, and it is used untested; `:1494`: when the
  second stream of a recovery is not ready, the Reader is started and the stream
  then used without a connection.  A recovery cancelled while ECPipe works on it is
  repeated and never answered, although the comment at `:1124` says "Ignore
  completion, report completion in HandleCancel()"; its thread waits for packets for
  ever, and with it every later request that is dealt to the thread (`:1835`).
* `qfs/KfsClient.cc:3345`: the invalidation by prefix compares the length
  without the slash with the prefix that has one, so it finds nothing for a path
  without a trailing slash.  `Chmod` of a file, `Truncate` by path with a lost
  reply, and the calls on open files leave cached attributes as they were;
  `StatSelf` (`:3052`) may write attributes into an entry that another client's
  move has made one of another file.

## Proofs

Every result is for all values of the constants that the named assumptions allow.

### CRD sub-sets

`StripeUpdateProofs` begins with what `get_upd_solu_crd` computes for a vector of
any length:

* `SolutionIsGrouping`: the loops end, every block of the vector is in a sub-set,
  none in two unless it is in the vector twice, and no range of a sub-set meets
  the hull of one closed before;
* `EveryBlockHasSubset`: `get_sub_set_id` succeeds for every block;
* `HullsDisjoint`: between the hulls of two sub-sets there is at least one unit.

They are inductions over data.  A library induction theorem has a predicate as a
parameter, which the provers cannot instantiate; `DataInduction` states the
induction with membership in a *set* as the hypothesis (`SetInduction`,
`MeasureInduction`), and the existence of recursive functions with the clauses
given as functions, so that each use is a set or a function of constants.
`Closed` (the inner loop, which absorbs ranges until none meets the hull) and
`Partition` are recursive functions, both with the number of blocks left as the
measure.  For `HullsDisjoint` the induction carries that whatever is clear of the
blocks left is apart from every sub-set still to be made.

### StripeUpdate

Under `ParamsAssumption` and `VecsAssumption`, part I:

* `TypeCorrect`: `Spec => []TypeOK`;
* `AcksAlwaysBalance`: `Spec => []AcksBalance`;
* `RefinesBarrier`: `Spec => ImplementsBarrier`, the refinement of
  `StripeBarrier`.

The inductive invariant is `IInv`, the conjunction of `TypeOK` and
`AcksBalance` with

* `CoordInv`: the coordinator has a job exactly while it sends or waits, and
  knows how many commands of it are out;
* `StartInv`: `need` counts the helpers still to be heard of, and nothing is
  pushed before the last one;
* `TaskInv`: data nodes have data tasks and parities parity tasks, so only
  parities ack;
* `StageInv`: a parity is in one stage of the stripe: its command is still to be
  sent (`Plan`), or in its list while it is idle, or being executed.

`AcksBalance` alone is not inductive: when a parity acks, the number of pending
parities must drop by exactly one, which needs that the parity has no second
command on its way (`StageInv`), that the acking node is a parity (`TaskInv`),
and that each parity is the target of exactly one command of a stripe
(`TargetsOK`, for each policy and each collector).  Each action is shown to
preserve `IInv` and to be a begin, commit, complete or stuttering step of the
barrier (`Outcome`); `RefinesBarrier` follows without looking at actions again.

Part II, the data messages:

* `StripesNeverMix`: `Spec => []NoMixing`;
* `NodesEndOnlyInOverread`: `Spec => []NoFalseCompletion`;
* `FlushLosesNothing`: `Spec => []NothingFlushed`.

`NoMixing` says that a node takes only messages of its stripe, and nothing in a
message tells it so.  The inductive invariant `FlowInv` therefore counts.  A job
asks for a fixed set of messages, `Edges`, as ⟨sender, receiver, key⟩.  For every
node, what it has consumed (`Consumed`) and what is in its list together are as
many as the edges into it whose send has been executed (`Sent`, `MsgInv`), and
each message in the list has the key of such an edge.  A node that waits expects exactly
`Count` messages, the number of edges into it, so it returns with an empty list,
and since a stripe is complete only when every parity has acked (`AcksBalance`),
every message has been taken before the next stripe begins.  The only node that
may then still be at work is a data node in its disk write (`Straggler`), which
sends nothing more.  That the number of slices a parity awaits is the number the
collector sends rests on `SolutionIsGrouping`.

Part III, the contents of the blocks under CRD:

* `ParitiesMatchData`: `Spec => []CrdConsistent`.

During a stripe neither data nor parities are in step, so the inductive invariant
`CrdFlow` says that there *are* data blocks `b` that the parities encode, and
describes everything else from `b` and the job: `Goal(b)` is `b` with the stripe's
ranges renewed.  A data block is `b`'s until its delta is out (`DataSent`) and
`Goal`'s after the write (`Settled` counts a write that is due, which a straggler
may do in a later stripe); a parity is `b`'s encoding while it has its part still
to add (`Todo`) and `Goal`'s after.  Each message is the delta or the slice its receiver
takes it for (`Right`), and what has been sent to a node at work is in its list or
its buffers (`Kept`; with the counts of part II, all of it once it stops waiting).
So the collector XORs exactly the deltas of a sub-set into its slice, and by
`HullsDisjoint` every unit of a parity changes by at most one slice.  When the
stripe ends, `Goal(b)` takes the place of `b`.  Units of `lost` are exempt:
`LeftOut` of the job at work is in it, which for CRD is what the range of the
coordinator leaves of the hull, for delta the units it writes and for raid the
whole parity blocks.

### UpdateLog

`UpdateLogProofs` proves, under `LogAssumption` and for every trace, block size,
log size and number of crashes and experiments:

* `LogTypeCorrect`: `Spec => []TypeOK`;
* `VectorsWellFormed`: `Spec => []VecOK`, what `StripeUpdate` assumes of its
  vectors;
* `MapsAlwaysAgree`: `Spec => []MapsAgree`;
* `LogStaysBounded`: `Spec => []LogBounded`;
* `RowsUnique`: `Spec => []ResultsOnce`;
* `FlushFull`: `Spec => FlushOnlyWhenFull`.

The inductive invariant is `LInv`, the conjunction of these with

* `RangesOK`: each logged range lies inside its block.  The code lowers *both*
  ends when it merges, which keeps `lo <= hi` (but loses data);
* `ListsOK`: no block twice in the list of its stripe;
* `LoopsOK`: the loop over blocks stays between the first and the last block of
  the request (`RequestRange` shows, with division and remainder, that what it
  logs is a range), the random way visits its blocks in increasing order;
* `LinesOK`: fewer than `ReqNum - 1` requests were logged while a line is at
  work, which is why the second condition of the flush never decides;
* `RowsOK`: the file at work has no row yet.

`MapsAgree` needs that stripe and place determine a block (`BlockPlace`), and
`VecOK` needs `RangesOK` and `ListsOK` for the stripe handed over (`VectorOK`,
mirrored or not).

### Repair workers

`PipeDRWorkerProofs` proves, under `StreamAssumption` and `PipeAssumption`, for any
number of requests, nodes, helpers in a chain and packets:

* `BlocksRepairedInOrder`: `Spec => []RepairedInOrder`;
* `SharedRepairsWhole`: `Spec => []SharedPacketsWhole`.

The inductive invariant is `PipeInv`.  `Threads` orders the three threads of a
helper by the flags and counters they leave; `Buffers` says that a packet is the
local term between reader and puller and the sum of the chain behind the puller.
A list between two helpers outlives the commands that use it, so it may hold the
end of one repair and the beginning of the next.  `Between` is what remains true:
its packets are consecutive modulo `PktCnt`, from the one its reader pulls next to
the one its writer sent last.  No fact about the order of commands or time-outs is
needed.  `PipeAssumption` has `Nj = 1`: the pipe policies other than `PipeMul`
repair one block per request, and `PktCnt` is outside 3..9, where the debug output
of the workers divides by zero.

`ConvDRWorkerProofs` proves, under `ConvAssumption`, for any number of requests,
nodes, helpers, lost blocks and packets:

* `ConvRebuilds`: `Spec => []LostBlocksRebuilt`.

The inductive invariant is `ConvInv`.  A node carries out its commands in request
order, each once (`CmdsInv`, from `Queued`).  What it has sent or fetched for a
request is thus 0 before the command, its counter during it and everything after
it (`Sent`, `Fetched`, `Rebuilt`); a list holds what lies between (`TmpInv`,
`LostInv`).  At a requestor, the count the main thread waits for is at most the
count of every `readThread` (`FetchInv`), so a packet is combined from packets
that have all arrived, and the buffers are freed after the last send, when every
`readThread` has stored its last packet.

`PPRPullDRWorkerProofs` proves, under `PprAssumption` and `MaxEcKAssumption`, for
any number of requests, nodes, helpers and packets:

* `TreeAgrees`: a node waits for exactly the helpers that push their sums to it;
* `PprRebuilds`: `Spec => []LostBlockRebuilt`.

The code computes parents with `id & -id` (`PPRnextIP`) and children by subtracting
smaller powers of two (`getChildrenIndices`), the requestor's after rounding up
(`getID`).  The proof works with divisibility: `LowBit` is the largest power of two that
divides the number, and the nodes below place `m` are those between `m - LowBit(m)`
and `m`, so the sub-trees of the children are disjoint and cover them.  In the
inductive invariant `PprInv`, commands are carried out once, in request order; on a
node the main thread is behind every puller and the pullers are behind the reader
(`NodeInv`), so a packet that is sent has every child's sum in it, once; the list
between a node and its parent holds the sums of the node's sub-tree between what the
parent has taken and what the node has sent (`ListInv`).

`PipeMulDRWorkerProofs` proves, under `StreamAssumption` and `PipeMulAssumption`, for
any number of requests, nodes, helpers, lost blocks and packets:

* `OnlyReusedSpoil`: `Spec => []OnlyReusedHelpersSpoil`.

Threads count packets and, within a packet, jobs; `Cnt(k, j)` is how many of the
first `k` steps were for job `j`, and `JobSteps` that this is a cardinality.  The
invariant `MulInv` says what a packet may be when helper `m` pushes it (`Good`): it
holds the terms of the helpers up to `m` behind which only first requests lie, and
nothing else when all of them are first requests.  A helper at its first request
finds all flags down, so its reader is ahead of its main thread (`FirstWork`); of a
reused helper nothing is known but which helpers' terms its buffers may hold.  That
much suffices: the helper after it XORs its own term into whatever comes, and finds
it absent.  The lists (`ListInv`) and the client with the passive receivers
(`ClientInv`) keep packets in order, as the counts of both ends show.

### Replicator

`ReplicatorProofs` proves, under `ReplicatorAssumption`, for any set of requests
and chunks, any chunk size and any short read:

* `VersionOnlyForWholeChunk`: `Spec => []VersionMeansWhole`;
* `ServerDiesOnlyFor`: `Spec => []DiesOnlyFor`, for any number of client threads;
* `OneWriterOfChunk`: `Spec => []OneWriter`.

The inductive invariant is `RepInv`: each replicator is `Sound`, its entry in
`sInFlightReplications` is right (`Listed`), and requests run in order.  `Sound`
is a conjunction of parts: which side owns the recovery (`Quiet`, `StatePart`),
what a client thread may find at each place (`ThreadPart`), the Reader
(`ReaderPart`), the file and the answer (`AnswerPart`), and the alignment of
offsets, buffers and sizes (`DataPart`).  `VersionMeansWhole` needs the alignment
of every read and write before the answer; `DiesOnlyFor` needs what the threads
may find after `Handle` has read `mPendingCancelFlag` without the mutex.  The proof
has three layers: handlers take sound replicators to sound ones, the table stays
right when one replicator steps or is cancelled, every action is one of these.
The assumption says that the sizes the code uses are naturals and multiples of the
checksum block, as its constants are and `GetReadSize` computes.

### Only model-checked

* Liveness and the halting properties (`StripesComplete`, `HaltsOnly…`, …):
  fairness and `ENABLED` are beyond the prover.
* That two updated blocks share a sub-set only if a chain of meeting ranges
  connects them (the other half of `PartitionIsComponents`), which is an
  induction over paths.
* `SlicesWhole` and `HaltsOnlyOnRace` of the cyclic repair; `KfsClient`.
* `CommandsInOneOrder` and the rest of `RepairRequest`, whose properties select and
  flatten sequences with operators of the library that the prover does not define.
* The pure algorithms other than the sub-sets and the tree of the partial-parallel
  repair (`RSCode`, `PathSelection`, `ScheduledBlks`, `CoordinatorTables`), which are
  `RECURSIVE` or need induction over graphs and matrices.

`LogTypeCorrect` and `FlushFull` are proved and have no run of their own: the runs
of `UpdateLog` check the invariants that rest on them.

## Not modelled

* Update path: trace-line and XML parsing; connection errors (`initCtx` prints
  them and goes on); timing and throughput; `UpdateReqHandler` and
  `CmdDistributor` of `UPCoordinator`, which no code starts; a start of the
  cluster over a run that is still active; block files shorter than a block.
* Repair path: the request handler of `CyclCoordinator`, whose constructor is a
  test that ends in `exit(0)`, and cyclic repairs of several lost blocks, which
  only it commands; `QFS_MetadataBase` and the parsing of `fsck` output;
  rack-aware requests; functions of `PathSelection` and branches of the workers
  no build calls; more than one handler thread of a coordinator; lost Redis
  connections.
* `Util/`: `tinyxml2` (vendored parser); the bit-matrix and schedule routines of
  `jerasure.c`, which the program does not call.
* QFS: the data path of the client (reading and writing of chunks, striping,
  `ComputeFilesize`), its other calls (relative paths and the working directory,
  caches of user and group names, delegation, `O_EXCL`), listings with ids and
  types only, failing lookups of one component; a change of
  `maxRecoveryThreads` while the server runs.
* The Java sources for HDFS-RAID and Hadoop 3, which start the native client.

## Plan

1. *Done:* `CrdSubsets`, `StripeUpdate`, `StripeBarrier`, `UpdateLog`, their
   runs and proofs.
2. *Done:* the workers, the client, the request path, the pure algorithms, the
   chunk replicator and the attribute cache.
3. *Done:* the proofs above.
4. Proofs: `CommandsInOneOrder` of `RepairRequest`, once its sequences are written
   with recursive functions; `CacheIndexesAgree` from the operations of
   `KfsAttrCache`; `SlicesWhole`.
5. Restart of the cluster over an active run (`start.py`), composed with
   `StripeUpdate`; `QFS_MetadataBase`.
