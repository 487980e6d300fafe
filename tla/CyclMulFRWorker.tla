---- MODULE CyclMulFRWorker ----
(***************************************************************************)
(* The cyclic repair of one lost block: CyclMulFRWorker.cc with the client *)
(* of src/ECPipeInputStream.cc (policy cyclic), and CyclDRWorker.cc with   *)
(* the client of qfs-integrate/src/ECPipeInputStream.cc (cyclicSingle).    *)
(*                                                                         *)
(* A helper runs three threads.  The reader loads the packets in the order *)
(* of the schedule; the puller XORs each with what the previous helper     *)
(* pushed; the sender pushes it to the client's list or to its own tmp     *)
(* list, where the next helper fetches it.  With policy cyclic slices      *)
(* carry their number, the puller takes them in any order and the reader   *)
(* itself hands the starts of the rings to the sender, throttled by how    *)
(* far the sender is; both append to _toSendIds, which the main thread     *)
(* allocates after it started them.                                        *)
(*                                                                         *)
(* Undefined behaviour: a puller that looks a slice up before the reader   *)
(* has built the maps crashes; an id written before the allocation is      *)
(* lost, and the sender finds an arbitrary one in its place, or crashes;   *)
(* senderMul frees the packets when all are sent, while the reader may     *)
(* still be about to print the one it counted last.                        *)
(***************************************************************************)
EXTENDS CyclSchedule, Sequences, FiniteSets, CondVar, RedisLists

CONSTANTS Ahead,        \* 3 in the source: groups the ring starts may run ahead of the sender
          AheadEnd,     \* 10 in the source: the same once all packets have been read
          Policies      \* of {"cyclic", "cyclicSingle"}

\* With three packets pktOutput divides by 3 / 4 = 0 (Util/gettime.cpp:14).
ASSUME CyclMulAssumption == Ahead \in Nat /\ AheadEnd \in Nat /\ PktCnt # 3

VARIABLES policy,
          redis,      \* [list -> Seq(<<slice, packet>>)], all servers
          rpc,        \* reader: before the maps, reading, at the trace of the packet it
                      \* counted, at the hand-over of a ring start
          read,       \* _readCnt
          rear,       \* tmpQueueRear: ring starts handed over
          disk,       \* _diskPkts, _diskPktsMul: by packet number
          alloc,      \* _toSendIds allocated
          toSend,     \* _toSendIds; its length is _toSendCnt
          pulled,     \* packets the puller is done with
          sent,       \* packets the sender is done with
          crashed,    \* helpers that crashed
          contents,   \* client: the slices stored so far, [subset of Slices -> packet]
          pending,    \* receiver h: <<stored slice, baseIndex>> before its critical section
          taken,      \* receiver h: packets received
          complete,   \* _completePacketIndex
          out,        \* testfileOut
          missed      \* threads that slept through a notification

helperVars == <<rpc, read, rear, disk, alloc, toSend, pulled, sent, crashed>>
clientVars == <<contents, pending, taken, complete, out>>
vars == <<policy, redis, helperVars, clientVars, missed>>

Single == policy = "cyclicSingle"

\* CyclDRWorker names the client's list after the slice, CyclMulFRWorker does not.
TmpList(h) == <<h, "tmp", -1>>
LostList(h, s) == <<h, "lost", s>>
Lists == {TmpList(h) : h \in Ids} \cup {LostList(h, s) : h \in Ids, s \in Slices \cup {-1}}

\* What helper h contributes to slice s: its packet times its coefficient.
Term(h, s) == <<h, s>>

Junk == -1            \* an id that was written before the allocation
None == <<>>

Receivers == 0..(EcK - 2)
Forward == <<EcK, "forward">>

\* The threads of every helper have been started.
Init ==
  /\ policy \in Policies
  /\ redis = [l \in Lists |-> <<>>]
  /\ rpc = [h \in Ids |-> IF Single THEN "read" ELSE "maps"]
  /\ read = [h \in Ids |-> 0] /\ rear = [h \in Ids |-> 0]
  /\ disk = [h \in Ids |-> [p \in Slices |-> {}]]
  /\ alloc = [h \in Ids |-> Single]
  /\ toSend = [h \in Ids |-> <<>>]
  /\ pulled = [h \in Ids |-> 0] /\ sent = [h \in Ids |-> 0]
  /\ crashed = {}
  /\ contents = [s \in {} |-> {}]
  /\ pending = [r \in Receivers |-> None]
  /\ taken = [r \in Receivers |-> 0]
  /\ complete = 0
  /\ out = <<>>
  /\ missed = {}

Waiting(thread, predicateWasFalse) ==
  {t \in {thread} : predicateWasFalse \/ t \in missed}

\* _toSendCnt goes up by one: the sender is told.
NotifySender(h) ==
  missed' \in Notify(missed, Waiting(<<h, "send">>, sent[h] = Len(toSend[h]) /\ sent[h] < PktCnt))

\* pullerMul has slice reply in hand (or, cyclicSingle, packet number pulled) and
\* waits for it to be read.
PullerAt(h) ==
  IF ~Single THEN Sli2Pkt(h, Head(redis[TmpList(Prev(h))])[1]) ELSE pulled[h]

PullerNeedsReply(h) == ~Single \/ Fetches(h, pulled[h])

\* How many packets of h start a ring, and so are not the puller's.
Starts(h) == {p \in Slices : ~Single /\ StartsAt(h, p)}
PullerTotal(h) == PktCnt - Cardinality(Starts(h))

PullerInLoop(h) ==
  /\ alloc[h] /\ pulled[h] < PullerTotal(h)
  /\ PullerNeedsReply(h) => redis[TmpList(Prev(h))] # <<>>

----------------------------------------------------------------------------
\* doProcess: main thread, after it started reader and sender.
Allocate(h) ==
  /\ ~alloc[h]
  /\ alloc' = [alloc EXCEPT ![h] = TRUE]
  /\ UNCHANGED <<policy, redis, rpc, read, rear, disk, toSend, pulled, sent, crashed, clientVars, missed>>

\* readerMul: _pkt2sli, _sli2pkt and the buffers.
BuildMaps(h) ==
  /\ rpc[h] = "maps"
  /\ rpc' = [rpc EXCEPT ![h] = "read"]
  /\ UNCHANGED <<policy, redis, read, rear, disk, alloc, toSend, pulled, sent, crashed, clientVars, missed>>

\* What follows on the trace of packet p.
AfterShow(h, p) == IF p \in Starts(h) THEN "push" ELSE "read"

\* A packet is read, multiplied and counted, and its first bytes are printed; for
\* the last one that is a step of its own.  (A puller that tested before the
\* count is reached by the notification that follows the trace, or sleeps through it.)
Reader(h) ==
  LET p == read[h] IN
  /\ rpc[h] = "read"
  /\ p < PktCnt
  /\ disk' = [disk EXCEPT ![h][p] = {Term(h, Pkt2Sli(h, p))}]
  /\ read' = [read EXCEPT ![h] = p + 1]
  /\ missed' \in Notify(missed, Waiting(<<h, "pull">>, PullerInLoop(h) /\ PullerAt(h) >= p))
  /\ rpc' = [rpc EXCEPT ![h] = IF p = PktCnt - 1 THEN "show" ELSE AfterShow(h, p)]
  /\ UNCHANGED <<policy, redis, rear, alloc, toSend, pulled, sent, crashed, clientVars>>

\* senderMul has sent all and freed _diskPktsMul.
Freed(h) == ~Single /\ sent[h] = PktCnt

\* The first bytes of the last packet (pktOutput always picks it) are printed,
\* whatever has become of the packet since it was counted.
ReaderShow(h) ==
  /\ rpc[h] = "show"
  /\ \/ /\ rpc' = [rpc EXCEPT ![h] = AfterShow(h, PktCnt - 1)]
        /\ UNCHANGED crashed
     \/ /\ Freed(h)
        /\ crashed' = crashed \cup {h}
        /\ UNCHANGED rpc
  /\ UNCHANGED <<policy, redis, read, rear, disk, alloc, toSend, pulled, sent, clientVars, missed>>

\* tmpQueue[tmpQueueRear], the oldest ring start that has not been handed over.
Oldest(h) == CHOOSE p \in Starts(h) : Cardinality({q \in Starts(h) : q < p}) = rear[h]

HandOver(h) ==
  /\ toSend' = [toSend EXCEPT ![h] = Append(@, IF alloc[h] THEN Oldest(h) ELSE Junk)]
  /\ rear' = [rear EXCEPT ![h] = @ + 1]
  /\ NotifySender(h)

\* readerMul, having read the start of a ring: the oldest one in tmpQueue goes to
\* the sender unless too many have gone ahead of it.
ReaderPush(h) ==
  /\ rpc[h] = "push"
  /\ rpc' = [rpc EXCEPT ![h] = "read"]
  /\ IF Len(toSend[h]) \div (EcK - 1) + Ahead >= rear[h]
       THEN HandOver(h)
       ELSE UNCHANGED <<toSend, rear, missed>>
  /\ UNCHANGED <<policy, redis, read, disk, alloc, pulled, sent, crashed, clientVars>>

\* readerMul's last loop hands over what is left; until it may, it spins.
ReaderDrain(h) ==
  /\ rpc[h] = "read" /\ read[h] = PktCnt
  /\ rear[h] < Cardinality(Starts(h))
  /\ Len(toSend[h]) \div (EcK - 1) + AheadEnd >= rear[h]
  /\ HandOver(h)
  /\ UNCHANGED <<policy, redis, rpc, read, disk, alloc, pulled, sent, crashed, clientVars>>

\* pullerMul and CyclDRWorker::puller: a packet of the previous helper is XORed
\* into the packet of the same slice (cyclicSingle: into the next packet), which
\* goes to the sender.
Puller(h) ==
  LET prev == TmpList(Prev(h))
      p == PullerAt(h) IN
  /\ PullerInLoop(h)
  /\ rpc[h] # "maps"
  /\ p < read[h]
  /\ <<h, "pull">> \notin missed
  /\ IF PullerNeedsReply(h)
       THEN /\ disk' = [disk EXCEPT ![h][p] = Xor(@, Head(redis[prev])[2])]
            /\ redis' = Pop(redis, prev)
       ELSE UNCHANGED <<disk, redis>>
  /\ toSend' = [toSend EXCEPT ![h] = Append(@, p)]
  /\ pulled' = [pulled EXCEPT ![h] = @ + 1]
  /\ NotifySender(h)
  /\ UNCHANGED <<policy, rpc, read, rear, alloc, sent, crashed, clientVars>>

\* pullerMul looks a slice up in maps the reader has not built.
PullerUnmapped(h) ==
  /\ PullerInLoop(h)
  /\ rpc[h] = "maps"
  /\ crashed' = crashed \cup {h}
  /\ UNCHANGED <<policy, redis, rpc, read, rear, disk, alloc, toSend, pulled, sent, clientVars, missed>>

\* Packet p of helper h, with the number of its slice, to the client or onwards.
SendList(h, p) ==
  IF Single
    THEN IF TargetIdx(h, p) # -1 THEN LostList(h, TargetIdx(h, p)) ELSE TmpList(h)
    ELSE IF ToClient(h, p) THEN LostList(h, -1) ELSE TmpList(h)

\* senderMul and CyclDRWorker::sender: the next id of _toSendIds.
Sender(h) ==
  LET id == toSend[h][sent[h] + 1] IN
  /\ sent[h] < Len(toSend[h]) /\ sent[h] < PktCnt
  /\ <<h, "send">> \notin missed
  /\ \E p \in IF id = Junk THEN 0..(read[h] - 1) ELSE {id} :
       redis' = Push(redis, SendList(h, p), <<Pkt2Sli(h, p), disk[h][p]>>)
  /\ sent' = [sent EXCEPT ![h] = @ + 1]
  /\ UNCHANGED <<policy, rpc, read, rear, disk, alloc, toSend, pulled, crashed, clientVars, missed>>

\* senderMul uses an id that was never written.
SenderJunk(h) ==
  /\ sent[h] < Len(toSend[h]) /\ sent[h] < PktCnt
  /\ <<h, "send">> \notin missed
  /\ toSend[h][sent[h] + 1] = Junk
  /\ crashed' = crashed \cup {h}
  /\ UNCHANGED <<policy, redis, rpc, read, rear, disk, alloc, toSend, pulled, sent, clientVars, missed>>

Helper(h) ==
  /\ h \notin crashed
  /\ \/ Allocate(h) \/ BuildMaps(h)
     \/ Reader(h) \/ ReaderShow(h) \/ ReaderPush(h) \/ ReaderDrain(h)
     \/ Puller(h) \/ PullerUnmapped(h)
     \/ Sender(h) \/ SenderJunk(h)

----------------------------------------------------------------------------
\* cyclReceiver: a slice is stored under its number, and the index is read ...
CyclReceiver(r) ==
  LET key == LostList(r, -1)
      s == Head(redis[key])[1] IN
  /\ ~Single
  /\ pending[r] = None /\ taken[r] < ClientTakes(r)
  /\ redis[key] # <<>>
  /\ redis' = Pop(redis, key)
  /\ contents' = [t \in DOMAIN contents \cup {s} |-> IF t = s THEN Head(redis[key])[2] ELSE contents[t]]
  /\ taken' = [taken EXCEPT ![r] = @ + 1]
  /\ pending' = [pending EXCEPT ![r] = <<s, complete>>]
  /\ UNCHANGED <<policy, helperVars, complete, out, missed>>

\* Mutant: the slices in between are not looked at.
Contiguous_Unchecked(base, s) == TRUE

\* ... before the critical section, which raises it to the stored slice (or lowers
\* it) when all between are there.
Contiguous(base, s) == \A t \in base..(s - 1) : t \in DOMAIN contents

NotifyForward == missed' \in Notify(missed, Waiting(Forward, Len(out) < PktCnt /\ Len(out) >= complete))

CyclIndex(r) ==
  LET s == pending[r][1]
      base == pending[r][2] IN
  /\ pending[r] # None
  /\ pending' = [pending EXCEPT ![r] = None]
  /\ IF Contiguous(base, s)
       THEN complete' = s + 1 /\ NotifyForward
       ELSE UNCHANGED <<complete, missed>>
  /\ UNCHANGED <<policy, redis, helperVars, contents, taken, out>>

\* cyclCollector joined the receivers: everything is there.
CyclCollector ==
  /\ ~Single
  /\ \A r \in Receivers : pending[r] = None /\ taken[r] = ClientTakes(r)
  /\ complete # PktCnt
  /\ complete' = PktCnt
  /\ NotifyForward
  /\ UNCHANGED <<policy, redis, helperVars, contents, pending, taken, out>>

\* pipeForwardWorker: the slice at the write position goes to the file.
PipeForwardWorker ==
  LET s == Len(out) IN
  /\ ~Single
  /\ s < complete
  /\ Forward \notin missed
  /\ out' = Append(out, IF s \in DOMAIN contents THEN contents[s] ELSE {})
  /\ UNCHANGED <<policy, redis, helperVars, contents, pending, taken, complete, missed>>

\* The client of the QFS integration takes slice after slice by its name.
QfsCollector ==
  LET s == Len(out)
      key == LostList(s % groupSize, s) IN
  /\ Single
  /\ s < PktCnt
  /\ redis[key] # <<>>
  /\ out' = Append(out, Head(redis[key])[2])
  /\ redis' = Pop(redis, key)
  /\ UNCHANGED <<policy, helperVars, contents, pending, taken, complete, missed>>

Client ==
  \/ \E r \in Receivers : CyclReceiver(r) \/ CyclIndex(r)
  \/ CyclCollector \/ PipeForwardWorker \/ QfsCollector

Next == Client \/ \E h \in Ids : Helper(h)

Spec == Init /\ [][Next]_vars

----------------------------------------------------------------------------
\* The sum over all helpers.
Whole(s) == {Term(h, s) : h \in Ids}

\* The reader of helper h handed over the start of a ring before the array was there.
Raced(h) == \E i \in 1..Len(toSend[h]) : toSend[h][i] = Junk
NoRace == \A h \in Ids : ~Raced(h)

\* What the client writes is, slice by slice, the sum over all helpers: always
\* (cyclic) unless an id was written before its array was allocated, and for the
\* slices of full groups (cyclicSingle).  senderMul frees the packets and
\* _toSendIds when it has sent all: the puller is done with them by then, and the
\* reader but for the trace of the packet it counted last, which may then read
\* freed memory.
SlicesWhole ==
  NoRace =>
    /\ \A s \in 0..(Len(out) - 1) :
         (Single => s < lastGroupBase) => out[s + 1] = Whole(s)
    /\ \A h \in Ids : sent[h] = PktCnt =>
         /\ read[h] = PktCnt /\ rpc[h] \in {"show", "read"}
         /\ pulled[h] = PullerTotal(h)
         /\ rear[h] = Cardinality(Starts(h))

\* The ring halts only when the client has every slice, a helper raced or crashed
\* before it had sent all its packets (the trace of freed memory comes too late to
\* take one from the client), or a thread slept through a notification (in a ring it
\* need not be the last: two senders that each missed one wait for each other's
\* helper).  The throttle of the ring starts alone never makes the helpers wait for
\* one another.
HaltsOnlyOnRace ==
  \/ ENABLED Next
  \/ Len(out) = PktCnt
  \/ \E h \in crashed : ~Freed(h)
  \/ ~NoRace
  \/ missed # {}
====
