----------------------------- MODULE Replicator -----------------------------
(***************************************************************************)
(* The chunk replicator of the patched QFS chunk server                    *)
(* (qfs-integrate/src/Replicator.cc).  The metaserver asks for a copy of a *)
(* chunk ("copy", ReplicatorImpl) or for its recovery ("rs",               *)
(* RSReplicatorImpl); a recovery is done by ECPipe when its coordinator    *)
(* can, and by the striped Reader of QFS otherwise.                        *)
(*                                                                         *)
(* The main thread holds the mutex of the client manager while it runs the *)
(* handlers of ReplicatorImpl.  RSReplicatorImpl::Handle runs in a client  *)
(* thread without the mutex and takes it to complete a request; a step is  *)
(* one section under the mutex or one step of a client thread.  Recoveries *)
(* are dealt to the client threads in turn and share them: a thread runs   *)
(* one handler at a time, Reader events of its recoveries included.        *)
(* The peer, the chunk manager, the buffer manager, the Reader and ECPipe  *)
(* are external: they answer anything they may answer.                     *)
(***************************************************************************)
EXTENDS Integers

CONSTANTS
  Ops,                \* requests of the metaserver, numbered in their order
  Chunks,             \* chunks they are about
  CHUNKSIZE, CHECKSUM_BLOCKSIZE, kDefaultReplicationReadSize,
  ChunkSizes,         \* what a peer may report as the size of a chunk
  ShortReads,         \* lengths of reads that return less than asked for
  StripeSize, MaxReadSize, ClientQuota, IoBufferSize,
  MaxClientThreads,   \* bound of chunkServer.clientThreadCount
  sMaxRecoveryThreads \* chunkServer.rsReader.maxRecoveryThreads

None == 0

-----------------------------------------------------------------------------
(***************************************************************************)
(* GetGcd, GetLcm, GetReadSize: the size of the reads of a recovery.       *)
(***************************************************************************)
GetGcd[a, b \in Nat] == IF b = 0 THEN a ELSE GetGcd[b, a % b]

GetLcm(a, b) == IF a = 0 \/ b = 0 THEN 0 ELSE (a \div GetGcd[a, b]) * b

Larger(a, b) == IF a > b THEN a ELSE b
Smaller(a, b) == IF a < b THEN a ELSE b

GetReadSize ==
  LET quota == ClientQuota - (ClientQuota % CHECKSUM_BLOCKSIZE)
      size  == Larger(CHECKSUM_BLOCKSIZE, Smaller(MaxReadSize, quota))
      block == GetLcm(CHECKSUM_BLOCKSIZE, StripeSize)
      lcm   == IF block > size THEN GetLcm(IoBufferSize, StripeSize) ELSE block
  IN  IF size <= StripeSize THEN size
      ELSE IF lcm > size THEN lcm
      ELSE size - (size % lcm)

\* With the defaults of QFS a stripe is a checksum block long, so that
\* mReadTail, the part of a read behind the last checksum block, stays empty.
ASSUME ReplicatorAssumption ==
  /\ Ops \subseteq Nat \ {None}
  /\ CHECKSUM_BLOCKSIZE \in Nat \ {0}
  /\ {CHUNKSIZE, kDefaultReplicationReadSize, GetReadSize} \subseteq Nat
  /\ ChunkSizes \subseteq Int /\ ShortReads \subseteq Nat
  /\ MaxClientThreads \in Nat /\ sMaxRecoveryThreads \in Int
  /\ kDefaultReplicationReadSize % CHECKSUM_BLOCKSIZE = 0
  /\ CHUNKSIZE % CHECKSUM_BLOCKSIZE = 0
  /\ GetReadSize % CHECKSUM_BLOCKSIZE = 0
  /\ GetReadSize % IoBufferSize = 0

VARIABLES
  rep,                      \* the replicator of each request
  sInFlightReplications,    \* chunk -> request, or None
  sMaxCount,                \* client threads, and one for the main thread
  sLastIdx,                 \* the thread the last recovery was dealt to
  thread                    \* request -> its client thread, 0: the main thread

threadVars == <<sMaxCount, sLastIdx, thread>>
vars == <<rep, sInFlightReplications, threadVars>>

(***************************************************************************)
(* mChunkSize of a recovery is not initialised before HandleStartDone.     *)
(***************************************************************************)
Unset == -2

\* A replicator.  at: the completion it waits for ("new": not yet run,
\* "buffers", "start", "read", "write", "vers", "done": answered);
\* status, version: the answer; pc: the stage of its client thread;
\* served: the ECPipe stream has handed out its packets.
NewReplicator(c, k) ==
  [kind |-> k, chunk |-> c, at |-> "new", status |-> "none", version |-> FALSE,
   mCancelFlag |-> FALSE, mDone |-> FALSE, mFileHandle |-> FALSE,
   mOffset |-> 0, mChunkSize |-> Unset, skipVerify |-> FALSE,
   numBytes |-> 0, dataBuf |-> 0, readStatus |-> "ok", writeBytes |-> 0,
   mState |-> "kNone", pending |-> FALSE, pc |-> "idle",
   mPendingCancelFlag |-> FALSE, mReadInFlightFlag |-> FALSE,
   mPendingCloseFlag |-> FALSE, mReplicationDoneFlag |-> FALSE,
   reader |-> "closed", mIsECPipe |-> FALSE, served |-> FALSE,
   alive |-> TRUE, fatal |-> "none"]

Init ==
  /\ rep \in [Ops -> {NewReplicator(c, k) : c \in Chunks, k \in {"copy", "rs"}}]
  /\ sInFlightReplications = [c \in Chunks |-> None]
  /\ sMaxCount \in 1..(MaxClientThreads + 1)
  /\ sLastIdx = 0
  /\ thread = [o \in Ops |-> 0]

\* die(), FatalError() and the use of a null pointer end the chunk server.
FatalError(r, why) == [r EXCEPT !.fatal = why]

Died == \E o \in Ops : rep[o].fatal # "none"

-----------------------------------------------------------------------------
(***************************************************************************)
(* Completion.                                                             *)
(***************************************************************************)
Enqueue(r, s) ==
  IF r.mState # "kNone" /\ ~(r.mPendingCancelFlag /\ s = r.mState)
  THEN FatalError(r, "transition")
  ELSE [r EXCEPT !.mState = s, !.pending = TRUE]

\* Of a deleted replicator only the answer is left, and of an answer with a
\* version also how it came about.
Deleted(r) ==
  LET d == [NewReplicator(r.chunk, r.kind) EXCEPT
              !.at = "done", !.status = r.status, !.version = r.version, !.alive = FALSE]
  IN  IF ~r.version THEN d
      ELSE [d EXCEPT !.mCancelFlag = r.mCancelFlag, !.mOffset = r.mOffset,
                     !.mChunkSize = r.mChunkSize, !.dataBuf = r.dataBuf]

ReplicationDone(r) ==
  IF r.kind = "copy" THEN Deleted(r)
  ELSE IF r.mState # "kNone" THEN FatalError(r, "replication done")
  ELSE Enqueue(r, "kDone")

\* Mutant: a cancelled request is answered with the version of the chunk.
HandleReplicationDone_Cancelled(r, ok) ==
  ReplicationDone([r EXCEPT !.at = "done", !.status = IF ok THEN "ok" ELSE "failed",
                            !.version = ok, !.mFileHandle = FALSE])

HandleReplicationDone(r, ok) ==
  ReplicationDone([r EXCEPT !.at = "done", !.status = IF ok THEN "ok" ELSE "failed",
                            !.version = ok /\ ~r.mCancelFlag, !.mFileHandle = FALSE])

\* ChangeChunkVers is accepted and will complete, or fails at once.
Terminate(r) ==
  {HandleReplicationDone(r, FALSE)}
    \cup (IF r.mDone /\ ~r.mCancelFlag THEN {[r EXCEPT !.at = "vers"]} ELSE {})

-----------------------------------------------------------------------------
(***************************************************************************)
(* Start, reads and writes.  The operators give the replicators a handler  *)
(* may leave behind.                                                       *)
(***************************************************************************)
Start(r) ==
  IF r.kind = "copy" THEN [r EXCEPT !.at = "start", !.skipVerify = TRUE]
  ELSE IF r.mState # "kNone" \/ r.mCancelFlag THEN FatalError(r, "start")
  ELSE Enqueue([r EXCEPT !.at = "start"], "kStart")

ReadPeer(r) ==
  IF r.mOffset >= r.mChunkSize
  THEN Terminate([r EXCEPT !.mDone = (r.mOffset = r.mChunkSize)])
  ELSE {[r EXCEPT !.at = "read", !.dataBuf = 0, !.readStatus = "ok",
                  !.skipVerify = @ /\ r.mOffset % CHECKSUM_BLOCKSIZE = 0,
                  !.numBytes = Smaller(r.mChunkSize - r.mOffset,
                                       kDefaultReplicationReadSize)]}

Read(r) ==
  IF r.kind = "copy" THEN ReadPeer(r)
  ELSE IF r.mState # "kNone" \/ r.mCancelFlag THEN {FatalError(r, "read")}
  ELSE {Enqueue([r EXCEPT !.at = "read"], "kRead")}

\* AllocChunk fails or returns the handle of the new chunk file.
HandleStartDone(r, ok, size) ==
  LET s == [r EXCEPT !.mChunkSize = size]
  IN  IF r.mCancelFlag \/ ~ok THEN Terminate(r)
      ELSE IF size < 0 \/ size > CHUNKSIZE THEN Terminate(s)
      ELSE Terminate(s) \cup Read([s EXCEPT !.mFileHandle = TRUE])

\* Writes are aligned to checksum blocks: the rest of the chunk behind the
\* last block stays in the read buffer and is written afterwards.
WriteChunk(r) ==
  LET rest == IF r.dataBuf > CHECKSUM_BLOCKSIZE
              THEN r.dataBuf % CHECKSUM_BLOCKSIZE ELSE 0
      tail == IF r.mOffset + r.dataBuf = r.mChunkSize THEN rest ELSE 0
  IN  [r EXCEPT !.at = "write", !.writeBytes = r.dataBuf - rest,
                !.dataBuf = tail, !.numBytes = IF tail > 0 THEN tail ELSE @]

HandleReadDone(r) ==
  LET short == /\ r.dataBuf < r.numBytes
               /\ r.mOffset + r.dataBuf < r.mChunkSize
      ok    == r.readStatus = "ok" /\ ~short
  IN  IF r.mCancelFlag THEN Terminate(r)
      ELSE IF r.readStatus = "badcksum" /\ r.skipVerify
      THEN Read([r EXCEPT !.skipVerify = FALSE])
      ELSE IF ~ok \/ r.mChunkSize <= r.mOffset
      THEN Terminate([r EXCEPT !.mDone = (r.mOffset = r.mChunkSize /\ ok)])
      ELSE IF r.mOffset % CHECKSUM_BLOCKSIZE # 0
      THEN {FatalError(r, "read completion")}
      ELSE Terminate(r) \cup {WriteChunk(r)}

HandleWriteDone(r, ok) ==
  LET w == [r EXCEPT !.mOffset = @ + r.writeBytes]
  IN  IF r.mCancelFlag \/ ~ok THEN Terminate(r)
      ELSE IF r.dataBuf > 0 THEN HandleReadDone(w)
      ELSE Read(w)

-----------------------------------------------------------------------------
(***************************************************************************)
(* Cancellation.                                                           *)
(***************************************************************************)
\* Mutant: the file of a cancelled copy is kept until its answer.
CancelReplicator_KeepsFile(r) ==
  LET c == [r EXCEPT !.mCancelFlag = TRUE]
  IN  IF r.at = "buffers" THEN HandleReplicationDone(c, FALSE) ELSE c

CancelReplicator(r) ==
  LET c == [r EXCEPT !.mCancelFlag = TRUE, !.mFileHandle = FALSE]
  IN  IF r.at = "buffers" THEN HandleReplicationDone(c, FALSE) ELSE c

Cancel(r) ==
  IF r.kind = "copy" THEN CancelReplicator(r)
  ELSE IF r.mPendingCancelFlag THEN r
  ELSE IF r.mState = "kNone" THEN CancelReplicator(r)
  ELSE IF r.mState = "kDone" THEN FatalError(r, "cancel")
  ELSE LET c == [r EXCEPT !.mPendingCancelFlag = TRUE]
       IN  IF r.pending THEN c ELSE Enqueue(c, r.mState)

-----------------------------------------------------------------------------
(***************************************************************************)
(* The client thread: HandleCompletion, Done and the handlers.             *)
(***************************************************************************)
Idle(r) == [r EXCEPT !.pc = "idle"]

\* The completion of a start: ignored when a cancellation is pending.
StartCompleted(r, ok) ==
  IF r.mPendingCancelFlag THEN {Idle(r)}
  ELSE HandleStartDone(Idle([r EXCEPT !.mState = "kNone"]), ok, CHUNKSIZE)

\* The completion of a read.
ReadCompleted(r) ==
  IF r.mPendingCancelFlag THEN {Idle(r)}
  ELSE HandleReadDone(Idle([r EXCEPT !.mState = "kNone"]))

\* HandleStart: the Reader is opened, or the open fails.
HandleStart(r) ==
  StartCompleted(r, FALSE) \cup StartCompleted([r EXCEPT !.reader = "open"], TRUE)

\* HandleECPipeStart: ECPipe recovers the chunk, or the Reader does (no
\* ECPipe configured, another code, no connection, an error of EnumerateBlocks,
\* or a coordinator that refuses or stays silent for five seconds).  When the
\* metaserver does not answer the LOOKUP of KfsClient::Connect, the client is
\* null and used all the same; so is a second stream without connection, after
\* its fallback to the Reader.
HandleECPipeStart(r) ==
  HandleStart(r)
    \cup StartCompleted([r EXCEPT !.mIsECPipe = TRUE], TRUE)
    \cup {FatalError(r, why) : why \in {"no client", "no connection"}}

\* HandleRead of the Reader: the end of the chunk, an error, or a request.
HandleRead(r) ==
  LET q == [r EXCEPT !.numBytes = GetReadSize, !.dataBuf = 0]
  IN  IF r.mCancelFlag \/ r.mReadInFlightFlag THEN {FatalError(r, "handle read")}
      ELSE IF r.mOffset >= r.mChunkSize \/ r.readStatus # "ok" THEN ReadCompleted(r)
      ELSE ReadCompleted([q EXCEPT !.readStatus = "error"])
             \cup {Idle([q EXCEPT !.mReadInFlightFlag = TRUE])}

\* getNextPacket hands out each packet of the stream once, so that a second
\* request on the stream waits for ever.
getNextPacket(r) == IF r.served THEN "stuck" ELSE "pipe"

\* HandleECPipeRead up to the packets.  An mChunkSize that was never set is
\* any number.
HandleECPipeRead(r) ==
  LET repair == {[r EXCEPT !.pc = getNextPacket(r)]}
  IN  IF r.mChunkSize = Unset
      THEN ReadCompleted(r) \cup repair \cup {FatalError(r, "chunk size")}
      ELSE IF r.mOffset >= r.mChunkSize \/ r.readStatus # "ok" THEN ReadCompleted(r)
      ELSE repair

\* All packets have arrived: the whole chunk completes as one read.
ECPipeReadDone(r) ==
  ReadCompleted([r EXCEPT !.served = TRUE, !.numBytes = r.mChunkSize,
                          !.dataBuf = r.mChunkSize])

\* Done of the Reader with n bytes: fewer than asked for end the chunk.
\* Close may complete at once or later.
Done(r, n) ==
  LET d   == [r EXCEPT !.mReadInFlightFlag = FALSE, !.numBytes = n, !.dataBuf = n]
      end == GetReadSize > n \/ r.mOffset + GetReadSize >= r.mChunkSize
      e   == [d EXCEPT !.mChunkSize = r.mOffset + n]
  IN  IF end
      THEN ReadCompleted([e EXCEPT !.reader = "closed"])
             \cup ReadCompleted([e EXCEPT !.reader = "closing",
                                          !.mPendingCloseFlag = TRUE])
      ELSE ReadCompleted(d)

\* Done of the Reader with an error.
DoneError(r) ==
  ReadCompleted([r EXCEPT !.mReadInFlightFlag = FALSE, !.readStatus = "error"])

\* HandleCancel shuts the Reader down, then takes the mutex.
HandleCancel(r) ==
  LET s == [Idle(r) EXCEPT !.reader = "closed", !.mPendingCloseFlag = FALSE]
      c == [CancelReplicator(s) EXCEPT !.mState = "kNone", !.mReadInFlightFlag = FALSE]
  IN  IF r.mCancelFlag \/ r.mState \notin {"kStart", "kRead"}
      THEN {FatalError(r, "handle cancel")}
      ELSE IF r.pending THEN {s}
      ELSE Terminate(c)

\* UnRef of the last reference: the destructor.
UnRef(r) ==
  IF r.mPendingCloseFlag \/ ~r.mReplicationDoneFlag \/ r.reader # "closed"
  THEN FatalError(r, "destructor")
  ELSE Deleted(r)

\* Mutant: the replicator is deleted although its Reader is still closing.
HandleDone_NoWait(r) ==
  IF r.mReplicationDoneFlag THEN {FatalError(r, "extraneous done")}
  ELSE {UnRef([Idle(r) EXCEPT !.mReplicationDoneFlag = TRUE])}

HandleDone(r) ==
  LET d == [Idle(r) EXCEPT !.mReplicationDoneFlag = TRUE]
  IN  IF r.mReplicationDoneFlag THEN {FatalError(r, "extraneous done")}
      ELSE IF r.mPendingCancelFlag \/ r.reader = "closed" THEN {UnRef(d)}
      ELSE {[d EXCEPT !.reader = "closing", !.mPendingCloseFlag = TRUE]}
             \cup (IF r.reader = "open" THEN {UnRef([d EXCEPT !.reader = "closed"])}
                   ELSE {})

HandleECPipeDone(r) ==
  IF r.mReplicationDoneFlag THEN {FatalError(r, "extraneous done")}
  ELSE {UnRef([Idle(r) EXCEPT !.mReplicationDoneFlag = TRUE])}

\* Handle: the flag of a pending cancellation is read without the mutex.
Handle(r) ==
  CASE r.mState = "kStart" /\ ~r.mPendingCancelFlag -> "start"
    [] r.mState \in {"kStart", "kRead"} /\ r.mIsECPipe -> "ecread"
    [] r.mState \in {"kStart", "kRead"} /\ ~r.mIsECPipe /\ r.mPendingCancelFlag -> "cancel"
    [] r.mState = "kRead" /\ ~r.mIsECPipe /\ ~r.mPendingCancelFlag -> "read"
    [] r.mState = "kDone" -> IF r.mIsECPipe THEN "ecdone" ELSE "done"
    [] OTHER -> "invalid"

Handler(r) ==
  CASE r.pc = "start"  -> HandleECPipeStart(r)
    [] r.pc = "read"   -> HandleRead(r)
    [] r.pc = "ecread" -> HandleECPipeRead(r)
    [] r.pc = "pipe"   -> ECPipeReadDone(r)
    [] r.pc = "cancel" -> HandleCancel(r)
    [] r.pc = "done"   -> HandleDone(r)
    [] r.pc = "ecdone" -> HandleECPipeDone(r)
    [] r.pc = "invalid" -> {FatalError(r, "handle")}

-----------------------------------------------------------------------------
(***************************************************************************)
(* Actions.                                                                *)
(***************************************************************************)
\* HandleReplicationDone removes the replicator of an answered request.
Unlisted(inFlight, reps) ==
  [c \in Chunks |-> IF inFlight[c] # None /\ reps[inFlight[c]].at = "done"
                    THEN None ELSE inFlight[c]]

Becomes(reps, inFlight) ==
  /\ rep' = reps
  /\ sInFlightReplications' = Unlisted(inFlight, reps)

Step(o, r) ==
  Becomes([rep EXCEPT ![o] = r], sInFlightReplications) /\ UNCHANGED threadVars

\* A thread handles no request.
ThreadIdle(t) == \A o \in Ops : thread[o] = t => rep[o].pc = "idle"

\* The thread can take an event.  In the main thread Enqueue calls Handle, and
\* the thread does nothing else until it has returned.
ThreadFree(t) == ThreadIdle(t) /\ (t = 0 => \A o \in Ops : thread[o] = t => ~rep[o].pending)

MainFree == ThreadFree(0)

\* GetMetaserver deals the recoveries to the client threads in turn.
GetMetaserver ==
  IF Smaller(sMaxRecoveryThreads, sMaxCount) <= sLastIdx + 1
  THEN IF sMaxCount <= 1 \/ sMaxRecoveryThreads <= 0 THEN 0 ELSE 1
  ELSE sLastIdx + 1

\* The thread of a new replicator.  The connection to the peer of a copy is
\* served by any thread.
Create(o) ==
  \E t \in 0..(sMaxCount - 1) :
    /\ rep[o].kind = "rs" => t = GetMetaserver
    /\ thread' = [thread EXCEPT ![o] = t]
    /\ sLastIdx' = IF rep[o].kind = "rs" THEN t ELSE sLastIdx
    /\ UNCHANGED sMaxCount

\* Replicator::Run refuses a malformed request or one without a peer.
Refuse(o) ==
  /\ MainFree
  /\ rep[o].at = "new"
  /\ \A p \in Ops : p < o => rep[p].at # "new"
  /\ Step(o, Deleted([rep[o] EXCEPT !.status = "failed"]))

\* Replicator::Run and ReplicatorImpl::Run: a thread is chosen; the request of the same chunk that
\* is in flight is cancelled and replaced; then too large for the quota,
\* started, or waiting for buffers.
Run(o) ==
  LET r     == rep[o]
      other == sInFlightReplications[r.chunk]
      reps  == IF other = None THEN rep ELSE [rep EXCEPT ![other] = Cancel(@)]
  IN  /\ MainFree
      /\ r.at = "new"
      /\ \A p \in Ops : p < o => rep[p].at # "new"
      /\ Create(o)
      /\ \E s \in {HandleReplicationDone(r, FALSE), Start(r),
                   [r EXCEPT !.at = "buffers"]} :
           Becomes([reps EXCEPT ![o] = s],
                   [sInFlightReplications EXCEPT ![r.chunk] = o])

Granted(o) ==
  /\ MainFree
  /\ rep[o].at = "buffers"
  /\ Step(o, Start(rep[o]))

\* The peer answers the request for the size of the chunk.
StartDone(o) ==
  /\ MainFree /\ ThreadFree(thread[o])
  /\ rep[o].kind = "copy" /\ rep[o].at = "start"
  /\ \E ok \in BOOLEAN, size \in ChunkSizes :
       \E s \in HandleStartDone(rep[o], ok, size) : Step(o, s)

\* What a read of n bytes may return.
Lengths(n) == {n} \cup {k \in ShortReads : k < n}

\* The peer answers a read: an error, or some of the bytes.
ReadDone(o) ==
  /\ MainFree /\ ThreadFree(thread[o])
  /\ rep[o].kind = "copy" /\ rep[o].at = "read"
  /\ \/ \E e \in {"error", "badcksum"} :
          \E s \in HandleReadDone([rep[o] EXCEPT !.readStatus = e]) : Step(o, s)
     \/ \E n \in Lengths(rep[o].numBytes) :
          \E s \in HandleReadDone([rep[o] EXCEPT !.dataBuf = n]) : Step(o, s)

WriteDone(o) ==
  /\ MainFree
  /\ rep[o].at = "write"
  /\ \E ok \in BOOLEAN : \E s \in HandleWriteDone(rep[o], ok) : Step(o, s)

\* ChangeChunkVers has written the meta data of the chunk, or failed.
VersionDone(o) ==
  /\ MainFree
  /\ rep[o].at = "vers"
  /\ \E ok \in BOOLEAN : Step(o, HandleReplicationDone(rep[o], ok))

\* CancelChunkReplication, when the version of the request is the given one.
CancelChunkReplication(c) ==
  LET o == sInFlightReplications[c]
  IN  /\ MainFree
      /\ o # None
      /\ Becomes([rep EXCEPT ![o] = Cancel(@)],
                 [sInFlightReplications EXCEPT ![c] = None])
      /\ UNCHANGED threadVars

CancelAll ==
  LET listed == {o \in Ops : \E c \in Chunks : sInFlightReplications[c] = o}
  IN  /\ MainFree
      /\ listed # {}
      /\ Becomes([o \in Ops |-> IF o \in listed THEN Cancel(rep[o]) ELSE rep[o]],
                 [c \in Chunks |-> None])
      /\ UNCHANGED threadVars

\* The client thread takes the replicator from its queue.
Dequeue(o) ==
  /\ rep[o].pending /\ ThreadIdle(thread[o])
  /\ Step(o, [rep[o] EXCEPT !.pending = FALSE, !.pc = "handle"])

ReadFlags(o) ==
  /\ rep[o].pc = "handle"
  /\ Step(o, [rep[o] EXCEPT !.pc = Handle(rep[o])])

ClientStep(o) ==
  /\ rep[o].pc \notin {"idle", "handle", "stuck"}
  /\ \E s \in Handler(rep[o]) : Step(o, s)

\* The Reader completes a read.
ReaderDone(o) ==
  /\ rep[o].mReadInFlightFlag /\ rep[o].reader = "open" /\ ThreadFree(thread[o])
  /\ \/ \E n \in Lengths(GetReadSize) : \E s \in Done(rep[o], n) : Step(o, s)
     \/ \E s \in DoneError(rep[o]) : Step(o, s)

\* The Reader fails while no read is in flight.
ReaderError(o) ==
  /\ rep[o].reader = "open" /\ ~rep[o].mReadInFlightFlag
  /\ rep[o].readStatus = "ok" /\ ThreadFree(thread[o])
  /\ Step(o, [rep[o] EXCEPT !.readStatus = "error"])

\* Mutant: the completion of a pending close does not delete the replicator.
ReaderClosed_Once(o) ==
  /\ rep[o].mPendingCloseFlag /\ ThreadFree(thread[o])
  /\ Step(o, [rep[o] EXCEPT !.reader = "closed", !.mPendingCloseFlag = FALSE])

\* The Reader has closed.
ReaderClosed(o) ==
  LET c == [rep[o] EXCEPT !.reader = "closed", !.mPendingCloseFlag = FALSE]
  IN  /\ rep[o].mPendingCloseFlag /\ ThreadFree(thread[o])
      /\ Step(o, IF c.mReplicationDoneFlag THEN UnRef(c) ELSE c)

Next ==
  /\ ~Died
  /\ \/ \E o \in Ops :
          \/ Refuse(o) \/ Run(o) \/ Granted(o) \/ StartDone(o) \/ ReadDone(o)
          \/ WriteDone(o) \/ VersionDone(o) \/ Dequeue(o) \/ ReadFlags(o)
          \/ ClientStep(o) \/ ReaderDone(o) \/ ReaderError(o) \/ ReaderClosed(o)
     \/ \E c \in Chunks : CancelChunkReplication(c)
     \/ CancelAll

Spec == Init /\ [][Next]_vars

\* What a thread does for a request.  The peer, the chunk manager, the buffer
\* manager, the Reader and the coordinator of ECPipe answer in the end.
ThreadStep(t, o) ==
  \/ /\ t = 0
     /\ Granted(o) \/ WriteDone(o) \/ VersionDone(o)
  \/ /\ t = thread[o]
     /\ \/ StartDone(o) \/ ReadDone(o) \/ Dequeue(o) \/ ReadFlags(o)
        \/ ClientStep(o) \/ ReaderDone(o) \/ ReaderClosed(o)

\* Every thread runs.  Which of its requests goes next is left open, and
\* nothing is promised to the requests of a thread that is stuck in a handler.
FairSpec ==
  Spec /\ \A t \in 0..MaxClientThreads :
            WF_vars(~Died /\ \E o \in Ops : ThreadStep(t, o))

-----------------------------------------------------------------------------
(***************************************************************************)
(* Properties.                                                             *)
(***************************************************************************)
\* The chunk server dies in its replicators only for a metaserver that does
\* not answer while the layout is asked for (Replicator.cc:1484), for an ECPipe
\* stream that is used without a connection (1494), or for the size of a chunk
\* whose recovery was cancelled while it started: no order of cancellations,
\* completions and Reader events reaches a FatalError.
DiesOnlyFor ==
  \A o \in Ops :
    \/ rep[o].fatal \in {"none", "no client", "no connection"}
    \/ rep[o].fatal = "chunk size" /\ rep[o].mPendingCancelFlag

\* A request that is answered with a version has written its whole chunk and
\* was neither cancelled nor replaced by a later request for the chunk.
VersionMeansWhole ==
  \A o \in Ops : rep[o].version =>
    /\ rep[o].status = "ok" /\ ~rep[o].mCancelFlag
    /\ rep[o].mOffset = rep[o].mChunkSize /\ rep[o].dataBuf = 0

\* Two requests for a chunk have its file open only while the cancellation of
\* a recovery has not reached its client thread (Cancel only sets a flag then).
OneWriter ==
  \A o, p \in Ops :
    /\ o < p /\ rep[o].chunk = rep[p].chunk
    /\ rep[o].mFileHandle /\ rep[p].mFileHandle
    => rep[o].kind = "rs" /\ rep[o].mPendingCancelFlag

\* Again and again every request run so far is answered and its replicator
\* deleted, except a recovery that is cancelled while ECPipe works on it (Handle
\* then repeats the repair instead of calling HandleCancel), and those that share
\* their client thread with one that so waits for packets for ever
\* (Replicator.cc:1835).  The main thread is never caught like this.
AnsweredAndDeleted ==
  []<>\A o \in Ops :
    rep[o].at # "new" =>
      \/ Died
      \/ rep[o].at = "done" /\ ~rep[o].alive
      \/ rep[o].mIsECPipe /\ rep[o].mPendingCancelFlag
      \/ \E p \in Ops : rep[p].pc = "stuck" /\ thread[p] = thread[o] /\ thread[p] # 0
=============================================================================
