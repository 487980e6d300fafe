--------------------------- MODULE ReplicatorProofs ---------------------------
(***************************************************************************)
(* Proofs about the replicators of the chunk server (module Replicator).   *)
(*                                                                         *)
(* The properties of Replicator are not inductive.  That a version is      *)
(* answered for a whole chunk only depends on the alignment of every read  *)
(* and write before it; that no FatalError is reached depends on what the  *)
(* client thread may find when it takes the mutex, and on which side, main *)
(* thread or client thread, owns the replicator (mState).  RepInv says     *)
(* this for one replicator (Sound, in parts), relates the replicators of a *)
(* chunk to its entry in sInFlightReplications (Listed), and says that     *)
(* requests are run in their order.                                        *)
(*                                                                         *)
(* Handlers are operators on one replicator, so the proof has three        *)
(* layers: every handler takes a sound replicator to sound ones (OK,       *)
(* Follows); the table stays right when one replicator steps or some are   *)
(* cancelled (StepInv, RunInv, CancelledInv); every action is one of these *)
(* (NextInv).                                                              *)
(***************************************************************************)
EXTENDS Replicator, TLAPS

\* A multiple of the checksum block, as ReplicatorImpl::HandleReadDone asserts
\* of mOffset before it writes.
Aligned(n) == n % CHECKSUM_BLOCKSIZE = 0

\* The fields of a replicator.
Fields ==
  {"kind", "chunk", "at", "status", "version", "mCancelFlag", "mDone",
   "mFileHandle", "mOffset", "mChunkSize", "skipVerify", "numBytes",
   "dataBuf", "readStatus", "writeBytes", "mState", "pending", "pc",
   "mPendingCancelFlag", "mReadInFlightFlag", "mPendingCloseFlag",
   "mReplicationDoneFlag", "reader", "mIsECPipe", "served", "alive", "fatal"}

\* The types of the fields the argument needs.  fatal: the only three reasons
\* for which the handlers can end the chunk server.
Typed(r) ==
  /\ DOMAIN r = Fields
  /\ r.kind \in {"copy", "rs"} /\ r.chunk \in Chunks
  /\ r.mOffset \in Int /\ r.mChunkSize \in Int
  /\ r.numBytes \in Int /\ r.dataBuf \in Int /\ r.writeBytes \in Int
  /\ r.mState \in {"kNone", "kStart", "kRead", "kDone"}
  /\ r.pc \in {"idle", "handle", "start", "read", "ecread", "pipe", "stuck",
               "cancel", "done", "ecdone"}
  /\ r.reader \in {"closed", "open", "closing"}
  /\ r.fatal \in {"none", "no client", "no connection", "chunk size"}

\* A copy has no client thread: mState, mPendingCancelFlag and ECPipe are of
\* RSReplicatorImpl.
CopyPart(r) ==
  r.kind = "copy" =>
    /\ r.mState = "kNone" /\ ~r.mPendingCancelFlag /\ ~r.mIsECPipe

\* mState = kNone: the main thread owns the recovery; it is in no queue, no
\* client thread handles it and no read of it is in flight.
Quiet(r) ==
  r.mState = "kNone" =>
    /\ ~r.pending /\ r.pc = "idle" /\ ~r.mReadInFlightFlag /\ ~r.mPendingCancelFlag
    /\ ~r.mReplicationDoneFlag

\* mState says which completion of ReplicatorImpl a recovery waits for, and a
\* replicator is deleted only after its answer.
StatePart(r) ==
  /\ r.mState = "kStart" => r.at = "start"
  /\ r.mState = "kRead" => r.at = "read"
  /\ r.mState = "kDone" => r.at = "done" /\ r.alive
  /\ r.kind = "rs" /\ r.at = "start" => r.mState = "kStart"
  /\ r.kind = "rs" /\ r.at = "read" => r.mState = "kRead"
  /\ r.at = "done" /\ r.alive => r.mState = "kDone"
  /\ ~r.alive => r.at = "done"

\* What holds at each place of the client thread.  Handle reads
\* mPendingCancelFlag without the mutex, so that every handler but HandleCancel
\* may find it set afterwards; a second entry of the queue exists only for a
\* cancellation.
ThreadPart(r) ==
  /\ r.mState # "kStart" => r.pc # "start"
  /\ r.mState = "kStart" /\ (r.pc = "start" \/ ~r.mPendingCancelFlag)
       => /\ ~r.mIsECPipe /\ r.reader = "closed"
  /\ r.mState \in {"kStart", "kRead"} => ~r.mCancelFlag /\ r.pc \notin {"done", "ecdone"}
  /\ r.mState \in {"kStart", "kRead"} => ~r.mReplicationDoneFlag
  /\ r.pc = "read" => r.mState = "kRead" /\ ~r.mReadInFlightFlag /\ ~r.mIsECPipe
  /\ r.pc = "cancel" => ~r.mIsECPipe /\ r.mPendingCancelFlag
  /\ r.pc \in {"ecread", "pipe", "stuck"} => r.mIsECPipe
  /\ r.mState = "kStart" /\ r.pc \in {"ecread", "pipe", "stuck"} => r.mPendingCancelFlag
  /\ r.mState = "kDone" => r.pc \in {"idle", "handle", "done", "ecdone"} /\ ~r.mReadInFlightFlag
  /\ r.pending \/ r.pc # "idle" => ~r.mReplicationDoneFlag
  /\ r.pending /\ r.pc # "idle" => r.mPendingCancelFlag /\ r.mState # "kDone"
  /\ r.mReplicationDoneFlag => r.reader = "closing"
  /\ r.pc = "ecdone" => r.mIsECPipe

\* The Reader: mPendingCloseFlag is set exactly while it closes, and a read in
\* flight belongs to mState = kRead.  A recovery by ECPipe has none.
ReaderPart(r) ==
  /\ r.mPendingCloseFlag <=> r.reader = "closing"
  /\ r.mIsECPipe => r.reader = "closed"
  /\ r.mReadInFlightFlag =>
       /\ r.mState = "kRead" /\ ~r.mIsECPipe
       /\ r.mPendingCancelFlag \/ (~r.pending /\ r.pc = "idle")
  /\ r.mState = "kDone" /\ r.mPendingCancelFlag => r.reader = "closed"

\* The file of the chunk is open only between the allocation and the answer,
\* and a cancellation closes it; mDone and the version come late.
AnswerPart(r) ==
  /\ r.at \in {"new", "buffers"} =>
       r.mState = "kNone" /\ ~r.mCancelFlag /\ ~r.mIsECPipe /\ r.reader = "closed"
  /\ r.mFileHandle => r.at \in {"read", "write", "vers"} /\ ~r.mCancelFlag
  /\ r.at # "done" => ~r.version
  /\ r.at \notin {"vers", "done"} => ~r.mDone
  /\ r.kind = "rs" => r.readStatus # "badcksum" /\ ~r.skipVerify

\* All bytes of the chunk are written.
Whole(r) == r.mOffset = r.mChunkSize /\ r.dataBuf = 0

\* The offset and the buffer before a read, and while one is under way.
EarlyData(r) ==
  /\ r.at \in {"new", "buffers", "start"} => r.mOffset = 0
  /\ ~r.mPendingCancelFlag /\ r.at \in {"new", "buffers", "start", "read"}
        => r.dataBuf = 0
  /\ r.at = "read" => r.mOffset >= 0 /\ r.mChunkSize >= 0
  /\ ~r.mPendingCancelFlag /\ (r.mReadInFlightFlag \/ r.pc = "pipe")
        => r.mOffset < r.mChunkSize

\* What is asked for next starts at a checksum block or ends the chunk; a
\* stream of ECPipe gives the whole chunk.
ReadData(r) ==
  ~r.mPendingCancelFlag /\ r.at = "read" =>
    /\ Aligned(r.mOffset) \/ r.mOffset = r.mChunkSize
    /\ r.mIsECPipe => r.mChunkSize = CHUNKSIZE /\ r.mOffset \in {0, CHUNKSIZE}
    /\ r.kind = "copy" =>
         /\ r.mOffset < r.mChunkSize /\ r.readStatus # "badcksum"
         /\ r.numBytes = Smaller(r.mChunkSize - r.mOffset, kDefaultReplicationReadSize)

\* A write starts at a checksum block.  It ends at one too, or at the end of
\* the chunk; the rest that HandleReadDone keeps in the read buffer is the end
\* of the chunk.
WriteData(r) ==
  r.at = "write" =>
    /\ r.mOffset >= 0 /\ r.mChunkSize >= 0 /\ r.writeBytes >= 0 /\ r.dataBuf >= 0
    /\ Aligned(r.mOffset) /\ r.readStatus # "badcksum"
    /\ r.dataBuf > 0 =>
         /\ Aligned(r.writeBytes) /\ r.dataBuf <= CHECKSUM_BLOCKSIZE
         /\ r.numBytes = r.dataBuf
         /\ r.mOffset + r.writeBytes + r.dataBuf = r.mChunkSize
    /\ r.dataBuf = 0 => Aligned(r.writeBytes) \/ r.mOffset + r.writeBytes = r.mChunkSize
    /\ r.mIsECPipe => /\ r.mChunkSize = CHUNKSIZE /\ r.mOffset = 0
                      /\ r.writeBytes = CHUNKSIZE /\ r.dataBuf = 0

\* The version is changed, and answered, for a whole chunk only.
AnswerData(r) ==
  /\ r.at = "vers" => Whole(r) /\ r.mDone
  /\ r.version => Whole(r) /\ r.status = "ok" /\ ~r.mCancelFlag

\* The bytes of a replicator.
DataPart(r) == EarlyData(r) /\ ReadData(r) /\ WriteData(r) /\ AnswerData(r)

\* The size of a chunk is read before it is set only after a cancellation.
FatalPart(r) ==
  r.fatal = "chunk size" => r.mPendingCancelFlag

\* The invariant of one replicator.
Sound(r) == /\ CopyPart(r) /\ Quiet(r) /\ StatePart(r) /\ ThreadPart(r)
            /\ ReaderPart(r) /\ AnswerPart(r) /\ DataPart(r) /\ FatalPart(r)

\* A replicator at work that nobody has asked to stop.
Uncancelled(r) == r.at \notin {"new", "done"} /\ ~r.mCancelFlag /\ ~r.mPendingCancelFlag

\* sInFlightReplications: the entry of a chunk is the latest request for it
\* that is at work, and every uncancelled replicator is the entry of its chunk.
Listed(reps, list) ==
  /\ \A c \in Chunks : list[c] # None =>
       /\ list[c] \in Ops /\ reps[list[c]].chunk = c /\ reps[list[c]].at # "new"
       /\ \A p \in Ops : p > list[c] /\ reps[p].chunk = c => reps[p].at \in {"new", "done"}
  /\ \A o \in Ops : Uncancelled(reps[o]) => list[reps[o].chunk] = o

\* The replicators.
RepsSound == DOMAIN rep = Ops /\ \A o \in Ops : Typed(rep[o]) /\ Sound(rep[o])

\* The table of the requests in flight: HandleReplicationDone has taken the
\* answered ones out.
ListInv ==
  /\ DOMAIN sInFlightReplications = Chunks
  /\ Listed(rep, sInFlightReplications)
  /\ \A c \in Chunks : sInFlightReplications[c] # None =>
       rep[sInFlightReplications[c]].at # "done"

\* The requests are run in their order.
InOrder == \A o, p \in Ops : o < p /\ rep[p].at # "new" => rep[o].at # "new"

\* The inductive invariant.
RepInv == RepsSound /\ ListInv /\ InOrder

-----------------------------------------------------------------------------
(***************************************************************************)
(* Arithmetic.                                                             *)
(***************************************************************************)

\* Arithmetic: offsets of whole checksum blocks add up to one.
LEMMA ModSum ==
    ASSUME NEW a \in Nat, NEW b \in Nat, Aligned(a), Aligned(b)
    PROVE  Aligned(a + b)
<1> DEFINE C == CHECKSUM_BLOCKSIZE
<1>1. C \in Nat \ {0}
  BY ReplicatorAssumption
<1>2. PICK i \in Nat : a = C * i
  <2>1. a \div C \in Nat /\ a = C * (a \div C) + (a % C)
    BY <1>1
  <2>2. a % C = 0
    BY DEF Aligned
  <2>3. a = C * (a \div C)
    BY <1>1, <2>1, <2>2
  <2> QED
    BY <2>1, <2>3
<1>3. PICK j \in Nat : b = C * j
  <2>1. b \div C \in Nat /\ b = C * (b \div C) + (b % C)
    BY <1>1
  <2>2. b % C = 0
    BY DEF Aligned
  <2>3. b = C * (b \div C)
    BY <1>1, <2>1, <2>2
  <2> QED
    BY <2>1, <2>3
<1>4. a + b = C * (i + j) /\ i + j \in Nat
  BY <1>1, <1>2, <1>3
<1>5. \A k \in Nat : (C * k) % C = 0
  BY <1>1
<1>6. (a + b) % C = 0
  BY <1>4, <1>5
<1> QED
  BY <1>6 DEF Aligned

\* Arithmetic: the rest behind the last checksum block, which HandleReadDone
\* moves to the read buffer, leaves whole blocks.
LEMMA ModRest ==
    ASSUME NEW a \in Nat
    PROVE  /\ a % CHECKSUM_BLOCKSIZE \in Nat
           /\ a % CHECKSUM_BLOCKSIZE < CHECKSUM_BLOCKSIZE
           /\ a % CHECKSUM_BLOCKSIZE <= a
           /\ Aligned(a - (a % CHECKSUM_BLOCKSIZE))
<1> DEFINE C == CHECKSUM_BLOCKSIZE
           q == a \div C
<1>1. C \in Nat \ {0}
  BY ReplicatorAssumption
<1>2. q \in Nat /\ a % C \in Nat /\ a % C < C /\ a = C * q + (a % C)
  BY <1>1
<1>3. a - (a % C) = C * q /\ C * q \in Nat
  BY <1>1, <1>2
<1>4. (C * q) % C = 0
  BY <1>1, <1>2
<1> QED
  BY <1>1, <1>2, <1>3, <1>4 DEF Aligned

-----------------------------------------------------------------------------
(***************************************************************************)
(* One replicator: each handler keeps its invariant.                       *)
(***************************************************************************)

\* What a step leaves alone, by groups of fields.
SameId(r, s) ==
  /\ DOMAIN r = Fields /\ DOMAIN s = Fields
  /\ s.kind = r.kind /\ s.chunk = r.chunk /\ s.fatal = r.fatal /\ s.alive = r.alive

\* The answer and the file.
SameAnswer(r, s) ==
  /\ s.status = r.status /\ s.version = r.version /\ s.mCancelFlag = r.mCancelFlag
  /\ s.mDone = r.mDone /\ s.mFileHandle = r.mFileHandle

\* The place in the chunk.
SamePlace(r, s) == s.mOffset = r.mOffset /\ s.mChunkSize = r.mChunkSize

\* The read and write buffers.
SameBuffer(r, s) ==
  /\ s.numBytes = r.numBytes /\ s.dataBuf = r.dataBuf /\ s.writeBytes = r.writeBytes
  /\ s.readStatus = r.readStatus /\ s.skipVerify = r.skipVerify

\* The state the client thread works on.
SameState(r, s) ==
  /\ s.mState = r.mState /\ s.pending = r.pending
  /\ s.mPendingCancelFlag = r.mPendingCancelFlag
  /\ s.mReplicationDoneFlag = r.mReplicationDoneFlag

\* The Reader and the ECPipe stream.
SameReader(r, s) ==
  /\ s.reader = r.reader /\ s.mPendingCloseFlag = r.mPendingCloseFlag
  /\ s.mIsECPipe = r.mIsECPipe /\ s.served = r.served
  /\ s.mReadInFlightFlag = r.mReadInFlightFlag

\* What every handler is shown to keep.
OK(r) == Typed(r) /\ Sound(r)

\* What the table of the requests in flight needs of a step: it does not take a
\* cancellation back, and an answered request stays answered.
Follows(r, s) ==
  /\ s.chunk = r.chunk /\ s.at # "new"
  /\ Uncancelled(s) => ~r.mCancelFlag /\ ~r.mPendingCancelFlag
  /\ r.at = "done" => s.at = "done"

\* The replicator is owned by the handler of ReplicatorImpl that runs under the
\* mutex: the client thread has handed it over (mState = kNone).
Free(r) ==
  /\ Typed(r) /\ r.fatal = "none" /\ r.alive
  /\ r.mState = "kNone" /\ ~r.pending /\ r.pc = "idle"
  /\ ~r.mReadInFlightFlag /\ ~r.mReplicationDoneFlag
  /\ r.mPendingCancelFlag => r.kind = "rs" /\ r.mCancelFlag /\ r.reader = "closed"
  /\ r.mPendingCloseFlag <=> r.reader = "closing"
  /\ r.mIsECPipe => r.kind = "rs" /\ r.reader = "closed"
  /\ r.kind = "rs" => r.readStatus # "badcksum" /\ ~r.skipVerify
  /\ ~r.version

\* A new replicator is sound.
LEMMA NewOK ==
    ASSUME NEW c \in Chunks, NEW k \in {"copy", "rs"}
    PROVE  OK(NewReplicator(c, k)) /\ NewReplicator(c, k).at = "new"
<1>1. Unset \in Int
  BY DEF Unset
<1>2. PICK n : n = NewReplicator(c, k)
  OBVIOUS
<1>3. Typed(n)
  BY <1>1, <1>2 DEF NewReplicator, Typed, Fields
<1>4. Sound(n) /\ n.at = "new"
  BY <1>2 DEF NewReplicator, Sound, CopyPart, Quiet, StatePart,
       ThreadPart, ReaderPart, AnswerPart, DataPart, EarlyData, ReadData,
       WriteData, AnswerData, FatalPart
<1> QED
  BY <1>2, <1>3, <1>4 DEF OK

\* The destructor leaves the answer, and with a version the whole chunk, behind.
LEMMA DeletedOK ==
    ASSUME NEW r, Typed(r), NEW d, d = Deleted(r),
           r.version => Whole(r) /\ r.status = "ok" /\ ~r.mCancelFlag
    PROVE  OK(d) /\ d.at = "done" /\ d.chunk = r.chunk
<1>1. PICK n : n = NewReplicator(r.chunk, r.kind)
  OBVIOUS
<1>2. r.chunk \in Chunks /\ r.kind \in {"copy", "rs"}
  BY DEF Typed
<1>3. Typed(n)
  BY <1>1, <1>2, NewOK DEF OK
<1>4. /\ n.kind = r.kind /\ n.chunk = r.chunk /\ n.mState = "kNone" /\ ~n.mPendingCancelFlag
      /\ ~n.mIsECPipe /\ ~n.pending /\ n.pc = "idle" /\ ~n.mReadInFlightFlag
      /\ ~n.mReplicationDoneFlag /\ ~n.mPendingCloseFlag /\ n.reader = "closed"
      /\ ~n.mFileHandle /\ n.readStatus = "ok" /\ ~n.skipVerify /\ n.fatal = "none"
  BY <1>1 DEF NewReplicator
<1>5. PICK e : e = [n EXCEPT
     !.at = "done", !.status = r.status, !.version = r.version, !.alive = FALSE]
  OBVIOUS
<1>6. d = IF ~r.version THEN e
          ELSE [e EXCEPT !.mCancelFlag = r.mCancelFlag, !.mOffset = r.mOffset,
                         !.mChunkSize = r.mChunkSize, !.dataBuf = r.dataBuf]
  BY <1>1, <1>5 DEF Deleted
<1>7. DOMAIN n = Fields
  BY <1>3 DEF Typed
<1>8. /\ DOMAIN d = Fields /\ d.kind = n.kind /\ d.chunk = n.chunk /\ d.mState = n.mState
      /\ d.mPendingCancelFlag = n.mPendingCancelFlag /\ d.mIsECPipe = n.mIsECPipe
      /\ d.pending = n.pending /\ d.pc = n.pc /\ d.mReadInFlightFlag = n.mReadInFlightFlag
      /\ d.mReplicationDoneFlag = n.mReplicationDoneFlag /\ d.reader = n.reader
      /\ d.mPendingCloseFlag = n.mPendingCloseFlag /\ d.mFileHandle = n.mFileHandle
      /\ d.readStatus = n.readStatus /\ d.skipVerify = n.skipVerify /\ d.fatal = n.fatal
      /\ d.numBytes = n.numBytes /\ d.writeBytes = n.writeBytes
      /\ d.at = "done" /\ d.status = r.status /\ d.version = r.version /\ ~d.alive
  BY <1>5, <1>6, <1>7 DEF Fields
<1>9. /\ r.version => /\ d.mCancelFlag = r.mCancelFlag /\ d.mOffset = r.mOffset
                      /\ d.mChunkSize = r.mChunkSize /\ d.dataBuf = r.dataBuf
      /\ ~r.version => /\ d.mCancelFlag = n.mCancelFlag /\ d.mOffset = n.mOffset
                       /\ d.mChunkSize = n.mChunkSize /\ d.dataBuf = n.dataBuf
  BY <1>5, <1>6, <1>7 DEF Fields
<1>10. Typed(d)
  <2>1. CASE r.version
    BY <1>3, <1>8, <1>9, <2>1 DEF Typed
  <2>2. CASE ~r.version
    BY <1>3, <1>8, <1>9, <2>2 DEF Typed
  <2> QED
    BY <2>1, <2>2
<1>11. Sound(d)
  BY <1>4, <1>8, <1>9 DEF Sound, CopyPart, Quiet, StatePart,
       ThreadPart, ReaderPart, AnswerPart, DataPart, EarlyData, ReadData,
       WriteData, AnswerData, FatalPart, Whole
<1> QED
  BY <1>2, <1>4, <1>8, <1>10, <1>11 DEF OK

\* HandleReplicationDone answers with a version only for a whole chunk that was
\* not cancelled; a recovery is handed to its client thread for HandleDone.
LEMMA HandleReplicationDoneOK ==
    ASSUME NEW r, Free(r), r.at # "done", NEW ok \in BOOLEAN,
           ok /\ ~r.mCancelFlag => Whole(r),
           NEW s, s = HandleReplicationDone(r, ok)
    PROVE  OK(s) /\ s.at = "done" /\ s.chunk = r.chunk
<1>1. PICK q : q = [r EXCEPT !.at = "done", !.status = IF ok THEN "ok" ELSE "failed",
                             !.version = ok /\ ~r.mCancelFlag, !.mFileHandle = FALSE]
  OBVIOUS
<1>2. s = ReplicationDone(q)
  BY <1>1 DEF HandleReplicationDone
<1>3. /\ SameId(r, q) /\ SamePlace(r, q) /\ SameBuffer(r, q) /\ SameState(r, q)
      /\ SameReader(r, q) /\ q.pc = r.pc /\ q.mDone = r.mDone
      /\ q.mCancelFlag = r.mCancelFlag
      /\ q.at = "done" /\ q.status = (IF ok THEN "ok" ELSE "failed")
      /\ q.version <=> ok /\ ~r.mCancelFlag
      /\ ~q.mFileHandle
  BY <1>1 DEF Free, Typed, Fields, SameId, SamePlace, SameBuffer, SameState,
       SameReader
<1>4. /\ Typed(q) /\ q.mState = "kNone"
      /\ q.version => Whole(q) /\ q.status = "ok" /\ ~q.mCancelFlag
  BY <1>3 DEF Free, Typed, SameId, SamePlace, SameBuffer, SameState,
       SameReader, Whole
<1>7. CASE r.kind = "copy"
  <2>2. s = Deleted(q)
    BY <1>2, <1>3, <1>7 DEF ReplicationDone, SameId
  <2> QED
    BY <1>3, <1>4, <2>2, DeletedOK DEF SameId
<1>8. CASE r.kind = "rs"
  <2>2. s = [q EXCEPT !.mState = "kDone", !.pending = TRUE]
    BY <1>2, <1>3, <1>4, <1>8 DEF ReplicationDone, Enqueue, SameId
  <2>3. /\ SameId(q, s) /\ SamePlace(q, s) /\ SameBuffer(q, s) /\ SameReader(q, s)
        /\ SameAnswer(q, s)
        /\ s.mState = "kDone" /\ s.pending
        /\ s.mPendingCancelFlag = q.mPendingCancelFlag
        /\ s.mReplicationDoneFlag = q.mReplicationDoneFlag
        /\ s.at = q.at /\ s.pc = q.pc
    BY ZenonT(40), <1>4, <2>2 DEF Typed, Fields, SameId, SamePlace, SameBuffer, SameReader,
         SameAnswer
  <2>4. Typed(s)
    BY <1>4, <2>3 DEF Typed, SameId, SamePlace, SameBuffer, SameReader
  <2>5. Sound(s)
    BY <1>3, <1>4, <1>8, <2>3 DEF Free, Sound, CopyPart, Quiet,
       StatePart, ThreadPart, ReaderPart, AnswerPart, DataPart, EarlyData,
       ReadData, WriteData, AnswerData, FatalPart, Whole,
       SameId, SamePlace, SameBuffer, SameReader, SameAnswer, SameState
  <2> QED
    BY <1>3, <2>3, <2>4, <2>5 DEF OK, SameId
<1> QED
  BY <1>7, <1>8 DEF Free, Typed

USE DEF SameId, SamePlace, SameBuffer, SameState, SameReader, SameAnswer

\* Terminate: with mDone set the chunk is whole, and ChangeChunkVers may be
\* called; otherwise the request fails.
LEMMA TerminateOK ==
    ASSUME NEW r, Free(r), r.at \notin {"new", "done"},
           r.mDone /\ ~r.mCancelFlag => Whole(r),
           NEW s \in Terminate(r)
    PROVE  OK(s) /\ Follows(r, s)
<1>1. CASE s = HandleReplicationDone(r, FALSE)
  <2>1. OK(s) /\ s.at = "done" /\ s.chunk = r.chunk
    BY <1>1, HandleReplicationDoneOK
  <2> QED
    BY <2>1 DEF Follows, Uncancelled
<1>2. CASE r.mDone /\ ~r.mCancelFlag /\ s = [r EXCEPT !.at = "vers"]
  <2>1. /\ SameId(r, s) /\ SamePlace(r, s) /\ SameBuffer(r, s) /\ SameState(r, s)
        /\ SameReader(r, s) /\ SameAnswer(r, s) /\ s.pc = r.pc /\ s.at = "vers"
    BY <1>2 DEF Free, Typed, Fields
  <2>2. Typed(s)
    BY <2>1 DEF Free, Typed
  <2>3. Sound(s)
    BY ZenonT(40), <1>2, <2>1 DEF Free, Sound, CopyPart, Quiet,
       StatePart, ThreadPart, ReaderPart, AnswerPart, DataPart, EarlyData,
       ReadData, WriteData, AnswerData, FatalPart, Whole
  <2> QED
    BY <1>2, <2>1, <2>2, <2>3 DEF Follows, Uncancelled, OK, Free
<1> QED
  BY <1>1, <1>2 DEF Terminate

\* Where Read may be called: at a checksum block or at the end of the chunk.
ReadPlace(r) ==
  /\ r.mOffset >= 0 /\ r.mChunkSize >= 0 /\ r.dataBuf = 0
  /\ Aligned(r.mOffset) \/ r.mOffset = r.mChunkSize
  /\ r.mIsECPipe => r.mChunkSize = CHUNKSIZE /\ r.mOffset \in {0, CHUNKSIZE}

\* ReplicatorImpl::Read sets mDone at the end of the chunk only, and asks for
\* no byte behind it.
LEMMA ReadPeerOK ==
    ASSUME NEW r, Free(r), r.at \notin {"new", "done"}, r.kind = "copy",
           ~r.mCancelFlag, ~r.mDone, ReadPlace(r), NEW s \in ReadPeer(r)
    PROVE  OK(s) /\ Follows(r, s)
<1>1. CASE r.mOffset >= r.mChunkSize
  <2>1. PICK q : q = [r EXCEPT !.mDone = (r.mOffset = r.mChunkSize)]
    OBVIOUS
  <2>2. s \in Terminate(q)
    BY <1>1, <2>1 DEF ReadPeer
  <2>3. /\ SameId(r, q) /\ SamePlace(r, q) /\ SameBuffer(r, q) /\ SameState(r, q)
        /\ SameReader(r, q) /\ q.status = r.status /\ q.version = r.version
        /\ q.mCancelFlag = r.mCancelFlag /\ q.mFileHandle = r.mFileHandle
        /\ q.pc = r.pc /\ q.at = r.at
        /\ q.mDone <=> r.mOffset = r.mChunkSize
    BY <2>1 DEF Free, Typed, Fields
  <2>4. Free(q) /\ (q.mDone => Whole(q))
    BY <2>3 DEF Free, Typed, Whole, ReadPlace
  <2>5. OK(s) /\ Follows(q, s)
    BY <2>2, <2>3, <2>4, TerminateOK
  <2> QED
    BY <2>3, <2>5 DEF Follows
<1>2. CASE ~(r.mOffset >= r.mChunkSize)
  <2> DEFINE num == Smaller(r.mChunkSize - r.mOffset, kDefaultReplicationReadSize)
  <2>1. s = [r EXCEPT !.at = "read", !.dataBuf = 0, !.readStatus = "ok",
                  !.skipVerify = @ /\ r.mOffset % CHECKSUM_BLOCKSIZE = 0,
                  !.numBytes = num]
    BY <1>2 DEF ReadPeer
  <2>2. num \in Int
    BY ReplicatorAssumption DEF Smaller, Free, Typed
  <2>3. num = Smaller(r.mChunkSize - r.mOffset, kDefaultReplicationReadSize)
    OBVIOUS
  <2> HIDE DEF num
  <2>4. /\ SameId(r, s) /\ SamePlace(r, s) /\ SameState(r, s)
        /\ SameReader(r, s) /\ SameAnswer(r, s) /\ s.pc = r.pc /\ s.at = "read"
        /\ s.dataBuf = 0 /\ s.readStatus = "ok" /\ s.numBytes = num
        /\ s.writeBytes = r.writeBytes
    BY <2>1 DEF Free, Typed, Fields
  <2>5. Typed(s)
    BY <2>2, <2>4 DEF Free, Typed
  <2>6. Sound(s)
    BY <1>2, <2>3, <2>4 DEF Free, Sound, CopyPart, Quiet, Typed, ReadPlace,
       StatePart, ThreadPart, ReaderPart, AnswerPart, DataPart, EarlyData,
       ReadData, WriteData, AnswerData, FatalPart, Whole
  <2> QED
    BY <2>4, <2>5, <2>6 DEF Follows, Uncancelled, OK, Free
<1> QED
  BY <1>1, <1>2

\* Read of a copy and of a recovery, whose FatalErrors are not reached.
LEMMA ReadOK ==
    ASSUME NEW r, Free(r), r.at \notin {"new", "done"},
           ~r.mCancelFlag, ~r.mDone, ReadPlace(r), NEW s \in Read(r)
    PROVE  OK(s) /\ Follows(r, s)
<1>1. CASE r.kind = "copy"
  BY <1>1, ReadPeerOK DEF Read
<1>2. CASE r.kind = "rs"
  <2>0. r.mState = "kNone" /\ DOMAIN r = Fields
    BY DEF Free, Typed
  <2>1. PICK q : q = [r EXCEPT !.at = "read"]
    OBVIOUS
  <2>2. s = Enqueue(q, "kRead")
    BY <1>2, <2>0, <2>1 DEF Read
  <2>3. q.mState = "kNone"
    BY <2>0, <2>1 DEF Fields
  <2>4. s = [q EXCEPT !.mState = "kRead", !.pending = TRUE]
    BY <2>2, <2>3 DEF Enqueue
  <2>5. DOMAIN q = Fields
    BY <2>0, <2>1
  <2>6. /\ SameId(r, q) /\ SamePlace(r, q) /\ SameBuffer(r, q) /\ SameState(r, q)
        /\ SameReader(r, q) /\ SameAnswer(r, q) /\ q.pc = r.pc /\ q.at = "read"
    BY <2>0, <2>1 DEF Fields
  <2>7. /\ SameId(q, s) /\ SamePlace(q, s) /\ SameBuffer(q, s)
        /\ SameReader(q, s) /\ SameAnswer(q, s) /\ s.pc = q.pc /\ s.at = q.at
        /\ s.mState = "kRead" /\ s.pending
        /\ s.mPendingCancelFlag = q.mPendingCancelFlag
        /\ s.mReplicationDoneFlag = q.mReplicationDoneFlag
    BY <2>4, <2>5 DEF Fields
  <2>8. Typed(s)
    BY <2>6, <2>7 DEF Free, Typed
  <2>9. Sound(s)
    BY <1>2, <2>6, <2>7 DEF Free, Sound, CopyPart, Quiet, ReadPlace,
       StatePart, ThreadPart, ReaderPart, AnswerPart, DataPart, EarlyData,
       ReadData, WriteData, AnswerData, FatalPart
  <2> QED
    BY <2>6, <2>7, <2>8, <2>9 DEF Follows, Uncancelled, OK, Free
<1> QED
  BY <1>1, <1>2 DEF Free, Typed

\* Start of a copy and of a recovery, whose FatalErrors are not reached.
LEMMA StartOK ==
    ASSUME NEW r, Free(r), r.at \in {"new", "buffers"}, Sound(r), NEW s, s = Start(r)
    PROVE  OK(s) /\ Follows(r, s) /\ s.at = "start"
<1>1. CASE r.kind = "copy"
  <2>1. s = [r EXCEPT !.at = "start", !.skipVerify = TRUE]
    BY <1>1 DEF Start
  <2>2. /\ SameId(r, s) /\ SamePlace(r, s) /\ SameState(r, s)
        /\ SameReader(r, s) /\ SameAnswer(r, s) /\ s.pc = r.pc /\ s.at = "start"
        /\ s.dataBuf = r.dataBuf /\ s.readStatus = r.readStatus /\ s.numBytes = r.numBytes
        /\ s.writeBytes = r.writeBytes
    <3>1. DOMAIN r = Fields
      BY DEF Free, Typed
    <3>2. /\ SameId(r, s) /\ SamePlace(r, s) /\ s.pc = r.pc /\ s.at = "start"
      BY <2>1, <3>1 DEF Fields
    <3>3. SameState(r, s) /\ SameReader(r, s)
      BY <2>1, <3>1 DEF Fields
    <3>4. /\ SameAnswer(r, s) /\ s.dataBuf = r.dataBuf /\ s.readStatus = r.readStatus
          /\ s.numBytes = r.numBytes /\ s.writeBytes = r.writeBytes
      BY <2>1, <3>1 DEF Fields
    <3> QED BY <3>2, <3>3, <3>4
  <2>3. Typed(s)
    BY <2>2 DEF Free, Typed
  <2>4. Sound(s)
    BY <1>1, <2>2 DEF Free, Sound, CopyPart, Quiet,
       StatePart, ThreadPart, ReaderPart, AnswerPart, DataPart, EarlyData,
       ReadData, WriteData, AnswerData, FatalPart
  <2> QED
    BY <2>2, <2>3, <2>4 DEF Follows, Uncancelled, OK, Free
<1>2. CASE r.kind = "rs"
  <2>0. r.mState = "kNone" /\ DOMAIN r = Fields /\ ~r.mCancelFlag
    BY DEF Free, Typed, Sound, AnswerPart
  <2>1. PICK q : q = [r EXCEPT !.at = "start"]
    OBVIOUS
  <2>2. s = Enqueue(q, "kStart")
    BY <1>2, <2>0, <2>1 DEF Start
  <2>3. q.mState = "kNone"
    BY <2>0, <2>1 DEF Fields
  <2>4. s = [q EXCEPT !.mState = "kStart", !.pending = TRUE]
    BY <2>2, <2>3 DEF Enqueue
  <2>5. DOMAIN q = Fields
    BY <2>0, <2>1
  <2>6. /\ SameId(r, q) /\ SamePlace(r, q) /\ SameBuffer(r, q) /\ SameState(r, q)
        /\ SameReader(r, q) /\ SameAnswer(r, q) /\ q.pc = r.pc /\ q.at = "start"
    BY <2>0, <2>1 DEF Fields
  <2>7. /\ SameId(q, s) /\ SamePlace(q, s) /\ SameBuffer(q, s)
        /\ SameReader(q, s) /\ SameAnswer(q, s) /\ s.pc = q.pc /\ s.at = q.at
        /\ s.mState = "kStart" /\ s.pending
        /\ s.mPendingCancelFlag = q.mPendingCancelFlag
        /\ s.mReplicationDoneFlag = q.mReplicationDoneFlag
    BY <2>4, <2>5 DEF Fields
  <2>8. Typed(s)
    BY <2>6, <2>7 DEF Free, Typed
  <2>9. Sound(s)
    BY <1>2, <2>6, <2>7 DEF Free, Sound, CopyPart, Quiet,
       StatePart, ThreadPart, ReaderPart, AnswerPart, DataPart, EarlyData,
       ReadData, WriteData, AnswerData, FatalPart
  <2> QED
    BY <2>0, <2>6, <2>7, <2>8, <2>9 DEF Follows, Uncancelled, OK, Free
<1> QED
  BY <1>1, <1>2 DEF Free, Typed

\* HandleStartDone: the size and the allocation of the chunk; no size below
\* zero or above CHUNKSIZE is accepted.
LEMMA HandleStartDoneOK ==
    ASSUME NEW r, Free(r), r.at = "start", ~r.mDone, r.mOffset = 0, r.dataBuf = 0,
           NEW ok \in BOOLEAN, NEW size \in Int, r.mIsECPipe => size = CHUNKSIZE,
           NEW s \in HandleStartDone(r, ok, size)
    PROVE  OK(s) /\ Follows(r, s)
<1>1. PICK q : q = [r EXCEPT !.mChunkSize = size]
  OBVIOUS
<1>2. /\ SameId(r, q) /\ SameBuffer(r, q) /\ SameState(r, q) /\ SameReader(r, q)
      /\ SameAnswer(r, q) /\ q.pc = r.pc /\ q.at = r.at /\ q.mOffset = r.mOffset
      /\ q.mChunkSize = size
  BY <1>1 DEF Free, Typed, Fields
<1>3. Free(q)
  BY <1>2 DEF Free, Typed
<1>4. CASE s \in Terminate(r)
  BY <1>4, TerminateOK
<1>5. CASE s \in Terminate(q)
  <2>1. OK(s) /\ Follows(q, s)
    BY <1>2, <1>3, <1>5, TerminateOK
  <2> QED
    BY <1>2, <2>1 DEF Follows
<1>6. CASE /\ ~r.mCancelFlag /\ size >= 0
           /\ s \in Read([q EXCEPT !.mFileHandle = TRUE])
  <2>1. PICK t : t = [q EXCEPT !.mFileHandle = TRUE]
    OBVIOUS
  <2>2. /\ SameId(q, t) /\ SameBuffer(q, t) /\ SameState(q, t) /\ SameReader(q, t)
        /\ SamePlace(q, t) /\ t.pc = q.pc /\ t.at = q.at /\ t.mFileHandle
        /\ t.status = q.status /\ t.version = q.version /\ t.mCancelFlag = q.mCancelFlag
        /\ t.mDone = q.mDone
    BY <1>3, <2>1 DEF Free, Typed, Fields
  <2>3. Free(t)
    BY <1>3, <2>2 DEF Free, Typed
  <2>4. Aligned(0)
    BY ReplicatorAssumption DEF Aligned
  <2>5. ReadPlace(t)
    BY <1>2, <1>6, <2>2, <2>4 DEF ReadPlace
  <2>6. OK(s) /\ Follows(t, s)
    BY <1>2, <1>6, <2>1, <2>2, <2>3, <2>5, ReadOK
  <2> QED
    BY <1>2, <2>2, <2>6 DEF Follows
<1> QED
  BY <1>1, <1>4, <1>5, <1>6 DEF HandleStartDone

\* What a completed read leaves for HandleReadDone when it was not cancelled.
Arrived(r) ==
  /\ r.mOffset >= 0 /\ r.mChunkSize >= 0 /\ r.dataBuf >= 0
  /\ r.readStatus = "badcksum" => r.dataBuf = 0 /\ Aligned(r.mOffset) /\ ~r.mIsECPipe
  /\ r.mOffset < r.mChunkSize => Aligned(r.mOffset)
  /\ r.readStatus = "ok" /\ r.mOffset = r.mChunkSize => r.dataBuf = 0
  /\ /\ r.readStatus = "ok" /\ r.mOffset < r.mChunkSize
     /\ r.dataBuf >= r.numBytes \/ r.mOffset + r.dataBuf >= r.mChunkSize
     => /\ Aligned(r.dataBuf) \/ r.mOffset + r.dataBuf = r.mChunkSize
        /\ r.mIsECPipe => /\ r.mOffset = 0 /\ r.dataBuf = CHUNKSIZE
                          /\ r.mChunkSize = CHUNKSIZE

\* The write of HandleReadDone covers whole checksum blocks or ends the chunk,
\* and the rest it keeps is the end of the chunk.
LEMMA WriteChunkOK ==
    ASSUME NEW r, Free(r), r.at \notin {"new", "done"}, ~r.mCancelFlag, ~r.mDone,
           r.mOffset >= 0, r.mChunkSize >= 0, r.dataBuf >= 0,
           r.readStatus = "ok", Aligned(r.mOffset),
           Aligned(r.dataBuf) \/ r.mOffset + r.dataBuf = r.mChunkSize,
           r.mIsECPipe => /\ r.mOffset = 0 /\ r.dataBuf = CHUNKSIZE
                          /\ r.mChunkSize = CHUNKSIZE,
           NEW s, s = WriteChunk(r)
    PROVE  OK(s) /\ Follows(r, s)
<1> DEFINE C == CHECKSUM_BLOCKSIZE
           rest == IF r.dataBuf > C THEN r.dataBuf % C ELSE 0
           tail == IF r.mOffset + r.dataBuf = r.mChunkSize THEN rest ELSE 0
           num  == IF tail > 0 THEN tail ELSE r.numBytes
           wr   == r.dataBuf - rest
<1>1. s = [r EXCEPT !.at = "write", !.writeBytes = wr, !.dataBuf = tail, !.numBytes = num]
  BY DEF WriteChunk
<1>2. C \in Nat \ {0} /\ r.dataBuf \in Nat /\ r.mOffset \in Nat /\ r.mChunkSize \in Nat
      /\ r.numBytes \in Int
  BY ReplicatorAssumption DEF Free, Typed
<1>3. /\ rest \in Nat /\ rest <= r.dataBuf /\ rest < C
      /\ rest > 0 => Aligned(wr)
      /\ Aligned(r.dataBuf) => rest = 0
      /\ rest = 0 => wr = r.dataBuf
  <2>1. CASE r.dataBuf > C
    BY <1>2, <2>1, ModRest DEF Aligned
  <2>2. CASE ~(r.dataBuf > C)
    BY <1>2, <2>2
  <2> QED
    BY <2>1, <2>2
<1>4. wr \in Nat
  BY <1>2, <1>3
<1>5. r.mOffset + wr + rest = r.mOffset + r.dataBuf
  BY <1>2, <1>3
<1>6. tail = (IF r.mOffset + r.dataBuf = r.mChunkSize THEN rest ELSE 0)
  OBVIOUS
<1>7. num = IF tail > 0 THEN tail ELSE r.numBytes
  OBVIOUS
<1> HIDE DEF rest, wr
<1>8. tail \in Nat /\ num \in Int
  BY <1>2, <1>3
<1> HIDE DEF tail, num
<1>0. DOMAIN r = Fields
  BY DEF Free, Typed
<1>9. /\ SameId(r, s) /\ SamePlace(r, s) /\ SameState(r, s) /\ SameReader(r, s)
      /\ SameAnswer(r, s) /\ s.pc = r.pc /\ s.at = "write" /\ s.writeBytes = wr
      /\ s.dataBuf = tail /\ s.numBytes = num /\ s.readStatus = r.readStatus
      /\ s.skipVerify = r.skipVerify
  BY <1>0, <1>1 DEF Fields
<1>10. Typed(s)
  BY <1>4, <1>8, <1>9 DEF Free, Typed
<1>11. r.mIsECPipe => wr = CHUNKSIZE /\ tail = 0
  BY <1>2, <1>3, <1>6, ReplicatorAssumption DEF Aligned
<1>12. /\ tail > 0 => /\ Aligned(wr) /\ tail <= C /\ num = tail
                      /\ r.mOffset + wr + tail = r.mChunkSize
       /\ tail = 0 => Aligned(wr) \/ r.mOffset + wr = r.mChunkSize
  BY <1>2, <1>3, <1>4, <1>5, <1>6, <1>7
<1>13. DataPart(s)
  BY <1>2, <1>4, <1>8, <1>9, <1>11, <1>12 DEF DataPart, EarlyData, ReadData,
       WriteData, AnswerData, Free
<1>14. Sound(s)
  BY <1>9, <1>13 DEF Free, Sound, CopyPart, Quiet,
       StatePart, ThreadPart, ReaderPart, AnswerPart, FatalPart
<1> QED
  BY <1>9, <1>10, <1>14 DEF Follows, Uncancelled, OK, Free

\* HandleReadDone: mDone is set for a whole chunk only, and the offset of a
\* write is never unaligned.
LEMMA HandleReadDoneOK ==
    ASSUME NEW r, Free(r), r.at \notin {"new", "done"}, ~r.mDone,
           ~r.mCancelFlag => Arrived(r),
           NEW s \in HandleReadDone(r)
    PROVE  OK(s) /\ Follows(r, s)
<1> DEFINE short == r.dataBuf < r.numBytes /\ r.mOffset + r.dataBuf < r.mChunkSize
           ok == r.readStatus = "ok" /\ ~short
<1>0. /\ r.dataBuf \in Int /\ r.numBytes \in Int /\ r.mOffset \in Int /\ r.mChunkSize \in Int
      /\ DOMAIN r = Fields
  BY DEF Free, Typed
<1>1. CASE r.mCancelFlag
  BY <1>1, TerminateOK DEF HandleReadDone
<1>2. CASE ~r.mCancelFlag /\ r.readStatus = "badcksum" /\ r.skipVerify
  <2>1. PICK q : q = [r EXCEPT !.skipVerify = FALSE]
    OBVIOUS
  <2>2. s \in Read(q)
    BY <1>2, <2>1 DEF HandleReadDone
  <2>3. /\ SameId(r, q) /\ SamePlace(r, q) /\ SameState(r, q) /\ SameReader(r, q)
        /\ SameAnswer(r, q) /\ q.pc = r.pc /\ q.at = r.at /\ q.writeBytes = r.writeBytes
        /\ q.dataBuf = r.dataBuf /\ q.numBytes = r.numBytes /\ q.readStatus = r.readStatus
        /\ ~q.skipVerify
    BY <1>0, <2>1 DEF Fields
  <2>4. Free(q)
    BY <2>3 DEF Free, Typed
  <2>5. ReadPlace(q)
    BY <1>2, <2>3 DEF ReadPlace, Arrived
  <2>6. OK(s) /\ Follows(q, s)
    BY <1>2, <2>2, <2>3, <2>4, <2>5, ReadOK
  <2> QED
    BY <2>3, <2>6 DEF Follows
<1>3. CASE /\ ~r.mCancelFlag /\ ~(r.readStatus = "badcksum" /\ r.skipVerify)
           /\ ~ok \/ r.mChunkSize <= r.mOffset
  <2>1. PICK q : q = [r EXCEPT !.mDone = (r.mOffset = r.mChunkSize /\ ok)]
    OBVIOUS
  <2>2. s \in Terminate(q)
    BY <1>3, <2>1 DEF HandleReadDone
  <2>3. /\ SameId(r, q) /\ SamePlace(r, q) /\ SameBuffer(r, q) /\ SameState(r, q)
        /\ SameReader(r, q) /\ q.status = r.status /\ q.version = r.version
        /\ q.mCancelFlag = r.mCancelFlag /\ q.mFileHandle = r.mFileHandle
        /\ q.pc = r.pc /\ q.at = r.at
        /\ q.mDone <=> r.mOffset = r.mChunkSize /\ ok
    BY <1>0, <2>1 DEF Fields
  <2>4. Free(q) /\ (q.mDone => Whole(q))
    BY <1>3, <2>3 DEF Free, Typed, Whole, Arrived
  <2>5. OK(s) /\ Follows(q, s)
    BY <2>2, <2>3, <2>4, TerminateOK
  <2> QED
    BY <2>3, <2>5 DEF Follows
<1>4. CASE /\ ~r.mCancelFlag /\ ~(r.readStatus = "badcksum" /\ r.skipVerify)
           /\ ok /\ ~(r.mChunkSize <= r.mOffset)
  <2>1. Aligned(r.mOffset)
    BY <1>0, <1>4 DEF Arrived
  <2>2. s \in Terminate(r) \/ s = WriteChunk(r)
    BY <1>4, <2>1 DEF HandleReadDone, Aligned
  <2>3. CASE s \in Terminate(r)
    BY <2>3, TerminateOK
  <2>4. CASE s = WriteChunk(r)
    <3>1. r.dataBuf >= r.numBytes \/ r.mOffset + r.dataBuf >= r.mChunkSize
      BY <1>0, <1>4
    <3>2. r.readStatus = "ok" /\ r.mOffset < r.mChunkSize
      BY <1>0, <1>4
    <3>3. /\ r.mOffset >= 0 /\ r.mChunkSize >= 0 /\ r.dataBuf >= 0
          /\ Aligned(r.dataBuf) \/ r.mOffset + r.dataBuf = r.mChunkSize
          /\ r.mIsECPipe => /\ r.mOffset = 0 /\ r.dataBuf = CHUNKSIZE
                            /\ r.mChunkSize = CHUNKSIZE
      BY <1>4, <3>1, <3>2 DEF Arrived
    <3> QED
      BY <1>4, <2>1, <2>4, <3>2, <3>3, WriteChunkOK
  <2> QED
    BY <2>2, <2>3, <2>4
<1> QED
  BY <1>1, <1>2, <1>3, <1>4

\* Before the start, during a write and during the change of the version, and
\* all the time for a copy, no client thread works on the replicator.
LEMMA FreeAt ==
    ASSUME NEW r, OK(r), r.fatal = "none",
           r.at \in {"new", "buffers", "write", "vers"} \/ (r.kind = "copy" /\ r.at # "done")
    PROVE  Free(r)
<1>1. r.mState = "kNone"
  BY DEF OK, Typed, Sound, StatePart, CopyPart
<1>2. r.at # "done" /\ Typed(r) /\ r.kind \in {"copy", "rs"}
  BY DEF OK, Typed
<1> QED
  BY <1>1, <1>2 DEF OK, Free, Sound, Quiet, CopyPart, StatePart, ReaderPart,
       AnswerPart

\* HandleWriteDone: the offset moves by what was written, then the rest of the
\* chunk is written or the next read starts.
LEMMA HandleWriteDoneOK ==
    ASSUME NEW r, OK(r), r.fatal = "none", r.at = "write", NEW ok \in BOOLEAN,
           NEW s \in HandleWriteDone(r, ok)
    PROVE  OK(s) /\ Follows(r, s)
<1>1. Free(r)
  BY FreeAt
<1>2. ~r.mDone /\ DataPart(r) /\ DOMAIN r = Fields /\ Typed(r)
  BY DEF OK, Sound, AnswerPart, Typed
<1>3. CASE r.mCancelFlag \/ ~ok
  BY <1>1, <1>2, <1>3, TerminateOK DEF HandleWriteDone
<1>4. CASE ~r.mCancelFlag /\ ok
  <2>1. PICK w : w = [r EXCEPT !.mOffset = @ + r.writeBytes]
    OBVIOUS
  <2>2. /\ SameId(r, w) /\ SameBuffer(r, w) /\ SameState(r, w) /\ SameReader(r, w)
        /\ SameAnswer(r, w) /\ w.pc = r.pc /\ w.at = r.at
        /\ w.mOffset = r.mOffset + r.writeBytes /\ w.mChunkSize = r.mChunkSize
    BY <1>2, <2>1 DEF Fields
  <2>3. Typed(w)
    BY <1>2, <2>2 DEF Typed
  <2>4. Free(w)
    BY <1>1, <2>2, <2>3 DEF Free
  <2>5. /\ r.mOffset \in Nat /\ r.writeBytes \in Nat /\ r.mChunkSize \in Nat
        /\ r.dataBuf \in Nat /\ Aligned(r.mOffset) /\ r.readStatus # "badcksum"
        /\ r.dataBuf > 0 =>
             /\ Aligned(r.writeBytes) /\ r.dataBuf <= CHECKSUM_BLOCKSIZE
             /\ r.numBytes = r.dataBuf
             /\ r.mOffset + r.writeBytes + r.dataBuf = r.mChunkSize
        /\ r.dataBuf = 0 => Aligned(r.writeBytes) \/ r.mOffset + r.writeBytes = r.mChunkSize
        /\ r.mIsECPipe => /\ r.mChunkSize = CHUNKSIZE /\ r.mOffset = 0
                          /\ r.writeBytes = CHUNKSIZE /\ r.dataBuf = 0
    BY <1>2 DEF Typed, DataPart, EarlyData, ReadData, WriteData, AnswerData
  <2>6. Aligned(r.writeBytes) => Aligned(w.mOffset)
    BY <2>2, <2>5, ModSum
  <2>7. CASE r.dataBuf > 0
    <3>1. s \in HandleReadDone(w)
      BY <1>4, <2>1, <2>7 DEF HandleWriteDone
    <3>2. Arrived(w)
      BY <2>2, <2>5, <2>6, <2>7 DEF Arrived
    <3>3. OK(s) /\ Follows(w, s)
      BY <1>2, <2>2, <2>4, <3>1, <3>2, HandleReadDoneOK
    <3> QED
      BY <2>2, <3>3 DEF Follows
  <2>8. CASE ~(r.dataBuf > 0)
    <3>1. s \in Read(w)
      BY <1>4, <2>1, <2>8 DEF HandleWriteDone
    <3>2. ReadPlace(w)
      BY <2>2, <2>5, <2>6, <2>8 DEF ReadPlace
    <3>3. OK(s) /\ Follows(w, s)
      BY <1>2, <1>4, <2>2, <2>4, <3>1, <3>2, ReadOK
    <3> QED
      BY <2>2, <3>3 DEF Follows
  <2> QED
    BY <2>7, <2>8
<1> QED
  BY <1>3, <1>4

\* ReplicatorImpl::Cancel closes the file; a request that waits for buffers is
\* answered at once.
LEMMA CancelReplicatorOK ==
    ASSUME NEW r, Free(r), Sound(r), r.at \notin {"new", "done"},
           NEW s, s = CancelReplicator(r)
    PROVE  OK(s) /\ Follows(r, s) /\ ~Uncancelled(s)
<1>1. PICK c : c = [r EXCEPT !.mCancelFlag = TRUE, !.mFileHandle = FALSE]
  OBVIOUS
<1>2. /\ SameId(r, c) /\ SamePlace(r, c) /\ SameBuffer(r, c) /\ SameState(r, c)
      /\ SameReader(r, c) /\ c.pc = r.pc /\ c.at = r.at /\ c.status = r.status
      /\ c.version = r.version /\ c.mDone = r.mDone /\ c.mCancelFlag /\ ~c.mFileHandle
  BY <1>1 DEF Free, Typed, Fields
<1>3. Typed(c) /\ Free(c)
  BY <1>2 DEF Free, Typed
<1>4. CASE r.at = "buffers"
  <2>1. s = HandleReplicationDone(c, FALSE)
    BY <1>1, <1>4 DEF CancelReplicator
  <2>2. OK(s) /\ s.at = "done" /\ s.chunk = c.chunk
    BY ZenonT(40), <1>2, <1>3, <1>4, <2>1, HandleReplicationDoneOK
  <2> QED
    BY <1>2, <1>4, <2>2 DEF Follows, Uncancelled
<1>5. CASE r.at # "buffers"
  <2>1. s = c
    BY <1>1, <1>5 DEF CancelReplicator
  <2>2. Sound(c)
    BY <1>2, <1>5 DEF Free, Sound, CopyPart, Quiet,
       StatePart, ThreadPart, ReaderPart, AnswerPart, DataPart, EarlyData,
       ReadData, WriteData, AnswerData, FatalPart, Whole
  <2> QED
    BY <1>2, <1>3, <2>1, <2>2 DEF OK, Follows, Uncancelled
<1> QED
  BY <1>4, <1>5

\* RSReplicatorImpl::Cancel: the client thread is asked to cancel, by a second
\* entry of its queue when it has none, and no FatalError is reached.
LEMMA CancelOK ==
    ASSUME NEW r, OK(r), r.fatal = "none", r.at \notin {"new", "done"},
           NEW s, s = Cancel(r)
    PROVE  OK(s) /\ Follows(r, s) /\ ~Uncancelled(s)
<1>0. /\ Sound(r) /\ Typed(r) /\ DOMAIN r = Fields
      /\ r.kind \in {"copy", "rs"} /\ r.mState \in {"kNone", "kStart", "kRead", "kDone"}
  BY DEF OK, Typed
<1>1. CASE r.kind = "copy"
  <2>1. Free(r)
    BY <1>1, FreeAt
  <2> QED
    BY <1>0, <1>1, <2>1, CancelReplicatorOK DEF Cancel
<1>2. CASE r.kind = "rs" /\ r.mPendingCancelFlag
  <2>1. s = r
    BY <1>2 DEF Cancel
  <2> QED
    BY <1>2, <2>1 DEF Follows, Uncancelled
<1>3. CASE r.kind = "rs" /\ ~r.mPendingCancelFlag /\ r.mState = "kNone"
  <2>1. Free(r)
    BY <1>0, <1>3 DEF Free, Sound, Quiet, CopyPart, StatePart, ReaderPart,
         AnswerPart
  <2>2. s = CancelReplicator(r)
    BY <1>3 DEF Cancel
  <2> QED
    BY <1>0, <2>1, <2>2, CancelReplicatorOK
<1>4. CASE r.kind = "rs" /\ ~r.mPendingCancelFlag /\ r.mState \in {"kStart", "kRead"}
  <2>1. PICK c : c = [r EXCEPT !.mPendingCancelFlag = TRUE]
    OBVIOUS
  <2>2. /\ SameId(r, c) /\ SamePlace(r, c) /\ SameBuffer(r, c) /\ SameReader(r, c)
        /\ SameAnswer(r, c) /\ c.pc = r.pc /\ c.at = r.at /\ c.mState = r.mState
        /\ c.pending = r.pending /\ c.mReplicationDoneFlag = r.mReplicationDoneFlag
        /\ c.mPendingCancelFlag
    BY <1>0, <2>1 DEF Fields
  <2>3. Typed(c)
    BY <1>0, <2>2 DEF Typed
  <2>4. Sound(c)
    BY <1>0, <1>4, <2>2 DEF Sound, CopyPart, Quiet,
       StatePart, ThreadPart, ReaderPart, AnswerPart, DataPart, EarlyData,
       ReadData, WriteData, AnswerData, FatalPart, Whole
  <2>5. CASE r.pending
    <3>1. s = c
      BY <1>4, <2>1, <2>5 DEF Cancel
    <3> QED
      BY <2>2, <2>3, <2>4, <3>1 DEF OK, Follows, Uncancelled
  <2>6. CASE ~r.pending
    <3>1. s = Enqueue(c, r.mState)
      BY <1>4, <2>1, <2>6 DEF Cancel
    <3>2. s = [c EXCEPT !.mState = r.mState, !.pending = TRUE]
      BY <2>2, <3>1 DEF Enqueue
    <3>a. DOMAIN c = Fields /\ c.mState = r.mState
      BY <2>2
    <3>3. /\ SameId(c, s) /\ SamePlace(c, s) /\ SameBuffer(c, s) /\ SameReader(c, s)
          /\ SameAnswer(c, s) /\ s.pc = c.pc /\ s.at = c.at /\ s.mState = c.mState
          /\ s.pending /\ s.mReplicationDoneFlag = c.mReplicationDoneFlag
          /\ s.mPendingCancelFlag = c.mPendingCancelFlag
      BY <3>a, <3>2 DEF Fields
    <3>4. Typed(s)
      BY <2>3, <3>3 DEF Typed
    <3>5. Sound(s)
      BY <1>4, <2>2, <2>4, <3>3 DEF Sound, CopyPart, Quiet,
         StatePart, ThreadPart, ReaderPart, AnswerPart, DataPart, EarlyData,
         ReadData, WriteData, AnswerData, FatalPart, Whole
    <3> QED
      BY <2>2, <3>3, <3>4, <3>5 DEF OK, Follows, Uncancelled
  <2> QED
    BY <2>5, <2>6
<1> QED
  <2>1. r.mState # "kDone"
    BY <1>0 DEF Sound, StatePart
  <2> QED
    BY <1>0, <1>1, <1>2, <1>3, <1>4, <2>1

-----------------------------------------------------------------------------
(* The client thread. *)

\* The client thread is in a handler of a start or of a read.
Working(r) ==
  /\ Typed(r) /\ r.fatal = "none" /\ r.kind = "rs" /\ r.alive
  /\ \/ r.mState = "kStart" /\ r.at = "start" /\ r.mOffset = 0 /\ ~r.mFileHandle
     \/ r.mState = "kRead" /\ r.at = "read" /\ r.mOffset >= 0 /\ r.mChunkSize >= 0
  /\ ~r.mReplicationDoneFlag /\ ~r.mReadInFlightFlag
  /\ r.mPendingCloseFlag <=> r.reader = "closing"
  /\ r.mIsECPipe => r.reader = "closed"
  /\ r.readStatus # "badcksum" /\ ~r.skipVerify
  /\ ~r.version /\ ~r.mDone /\ ~r.mCancelFlag

\* The places of the client thread where that is so.
LEMMA WorkingAt ==
    ASSUME NEW r, OK(r), r.fatal = "none",
           r.pc \in {"start", "read", "ecread", "pipe"}
    PROVE  /\ Working(r) /\ DOMAIN r = Fields /\ DataPart(r) /\ Typed(r)
           /\ r.pc = "start" => r.mState = "kStart" /\ r.reader = "closed" /\ ~r.mIsECPipe
           /\ r.pc = "read" => r.mState = "kRead"
           /\ ~r.mPendingCancelFlag => ~r.pending
           /\ r.pc \in {"ecread", "pipe"} =>
                r.mIsECPipe /\ (r.mState = "kStart" => r.mPendingCancelFlag)
<1>1. r.mState \in {"kStart", "kRead"} /\ r.kind = "rs"
  BY DEF OK, Typed, Sound, Quiet, ThreadPart, CopyPart
<1>2. Working(r)
  BY <1>1 DEF OK, Working, Sound, CopyPart, Quiet,
         StatePart, ThreadPart, ReaderPart, AnswerPart, DataPart, EarlyData,
         ReadData, WriteData, AnswerData
<1> QED
  BY <1>1, <1>2 DEF OK, Typed, Sound, ThreadPart

\* HandleCompletion gives the replicator back to the handlers of ReplicatorImpl.
LEMMA FreedOK ==
    ASSUME NEW r, Working(r), ~r.mPendingCancelFlag, ~r.pending,
           NEW q, q = Idle([r EXCEPT !.mState = "kNone"])
    PROVE  /\ Free(q) /\ SameId(r, q) /\ SamePlace(r, q) /\ SameBuffer(r, q)
           /\ SameReader(r, q) /\ SameAnswer(r, q) /\ q.at = r.at
           /\ q.mPendingCancelFlag = r.mPendingCancelFlag
<1>1. PICK t : t = [r EXCEPT !.mState = "kNone"]
  OBVIOUS
<1>2. q = [t EXCEPT !.pc = "idle"]
  BY <1>1 DEF Idle
<1>3. DOMAIN r = Fields
  BY DEF Working, Typed
<1>4. /\ SameId(r, t) /\ SamePlace(r, t) /\ SameBuffer(r, t) /\ SameReader(r, t)
      /\ SameAnswer(r, t) /\ t.at = r.at /\ t.pending = r.pending
      /\ t.mPendingCancelFlag = r.mPendingCancelFlag
      /\ t.mReplicationDoneFlag = r.mReplicationDoneFlag /\ t.mState = "kNone"
  BY <1>1, <1>3 DEF Fields
<1>5. /\ SameId(t, q) /\ SamePlace(t, q) /\ SameBuffer(t, q) /\ SameReader(t, q)
      /\ SameAnswer(t, q) /\ q.at = t.at /\ SameState(t, q) /\ q.pc = "idle"
  BY <1>2, <1>4 DEF Fields
<1>6. /\ SameId(r, q) /\ SamePlace(r, q) /\ SameBuffer(r, q) /\ SameReader(r, q)
      /\ SameAnswer(r, q) /\ q.at = r.at /\ q.pending = r.pending
      /\ q.mPendingCancelFlag = r.mPendingCancelFlag
      /\ q.mReplicationDoneFlag = r.mReplicationDoneFlag
      /\ q.mState = "kNone" /\ q.pc = "idle"
  BY <1>4, <1>5
<1>7. Typed(r)
  BY DEF Working
<1>8. Typed(q)
  BY <1>6, <1>7 DEF Typed
<1> QED
  BY ZenonT(40), <1>6, <1>8 DEF Working, Free

\* HandleCompletion ignores a completion once a cancellation is pending.
LEMMA IdleOK ==
    ASSUME NEW r, Working(r), r.mPendingCancelFlag, NEW s, s = Idle(r)
    PROVE  OK(s) /\ Follows(r, s)
<1>1. DOMAIN r = Fields
  BY DEF Working, Typed
<1>2. /\ SameId(r, s) /\ SamePlace(r, s) /\ SameBuffer(r, s) /\ SameReader(r, s)
      /\ SameAnswer(r, s) /\ s.at = r.at /\ SameState(r, s) /\ s.pc = "idle"
  BY <1>1 DEF Fields, Idle
<1>3. Typed(s)
  BY <1>2 DEF Working, Typed
<1>4. Sound(s)
  <2>1. CASE r.mState = "kStart"
    BY <1>2, <2>1 DEF Working, Sound, CopyPart, Quiet,
         StatePart, ThreadPart, ReaderPart, AnswerPart, DataPart, EarlyData,
         ReadData, WriteData, AnswerData, FatalPart, Whole
  <2>2. CASE r.mState = "kRead"
    BY <1>2, <2>2 DEF Working, Sound, CopyPart, Quiet,
         StatePart, ThreadPart, ReaderPart, AnswerPart, DataPart, EarlyData,
         ReadData, WriteData, AnswerData, FatalPart, Whole
  <2> QED
    BY <2>1, <2>2 DEF Working
<1> QED
  BY <1>2, <1>3, <1>4 DEF OK, Follows, Uncancelled, Working

\* The completion of a start.
LEMMA StartCompletedOK ==
    ASSUME NEW r, Working(r), r.mState = "kStart",
           ~r.mPendingCancelFlag => ~r.pending /\ r.dataBuf = 0,
           NEW ok \in BOOLEAN, NEW s \in StartCompleted(r, ok)
    PROVE  OK(s) /\ Follows(r, s)
<1>1. CASE r.mPendingCancelFlag
  BY <1>1, IdleOK DEF StartCompleted
<1>2. CASE ~r.mPendingCancelFlag
  <2>1. PICK q : q = Idle([r EXCEPT !.mState = "kNone"])
    OBVIOUS
  <2>2. s \in HandleStartDone(q, ok, CHUNKSIZE)
    BY <1>2, <2>1 DEF StartCompleted
  <2>3. /\ Free(q) /\ SameId(r, q) /\ SamePlace(r, q) /\ SameBuffer(r, q)
        /\ SameReader(r, q) /\ SameAnswer(r, q) /\ q.at = r.at
        /\ q.mPendingCancelFlag = r.mPendingCancelFlag
    BY <1>2, <2>1, FreedOK
  <2>4. q.at = "start" /\ ~q.mDone /\ q.mOffset = 0 /\ q.dataBuf = 0
    BY <1>2, <2>3 DEF Working
  <2>5. CHUNKSIZE \in Int
    BY ReplicatorAssumption
  <2>6. OK(s) /\ Follows(q, s)
    BY <2>2, <2>3, <2>4, <2>5, HandleStartDoneOK
  <2> QED
    BY <2>3, <2>6 DEF Follows
<1> QED
  BY <1>1, <1>2

\* The completion of a read.
LEMMA ReadCompletedOK ==
    ASSUME NEW r, Working(r),
           ~r.mPendingCancelFlag => ~r.pending /\ Arrived(r),
           NEW s \in ReadCompleted(r)
    PROVE  OK(s) /\ Follows(r, s)
<1>1. CASE r.mPendingCancelFlag
  BY <1>1, IdleOK DEF ReadCompleted
<1>2. CASE ~r.mPendingCancelFlag
  <2>1. PICK q : q = Idle([r EXCEPT !.mState = "kNone"])
    OBVIOUS
  <2>2. s \in HandleReadDone(q)
    BY <1>2, <2>1 DEF ReadCompleted
  <2>3. /\ Free(q) /\ SameId(r, q) /\ SamePlace(r, q) /\ SameBuffer(r, q)
        /\ SameReader(r, q) /\ SameAnswer(r, q) /\ q.at = r.at
        /\ q.mPendingCancelFlag = r.mPendingCancelFlag
    BY <1>2, <2>1, FreedOK
  <2>4. q.at \notin {"new", "done"} /\ ~q.mDone
    BY <1>2, <2>3 DEF Working
  <2>5. Arrived(q)
    BY <1>2, <2>3 DEF Arrived
  <2>6. OK(s) /\ Follows(q, s)
    BY <2>2, <2>3, <2>4, <2>5, HandleReadDoneOK
  <2> QED
    BY <2>3, <2>6 DEF Follows
<1> QED
  BY <1>1, <1>2

\* FatalError leaves the replicator as it is.
LEMMA FatalOK ==
    ASSUME NEW r, OK(r), r.fatal = "none", r.at # "new",
           NEW why \in {"no client", "no connection", "chunk size"},
           why = "chunk size" => r.mPendingCancelFlag,
           NEW s, s = FatalError(r, why)
    PROVE  OK(s) /\ Follows(r, s)
<1>1. DOMAIN r = Fields
  BY DEF OK, Typed
<1>2. /\ DOMAIN s = Fields /\ s.kind = r.kind /\ s.chunk = r.chunk /\ s.alive = r.alive
      /\ SamePlace(r, s) /\ SameBuffer(r, s) /\ SameReader(r, s)
      /\ SameAnswer(r, s) /\ s.at = r.at /\ SameState(r, s) /\ s.pc = r.pc
      /\ s.fatal = why
  BY <1>1 DEF Fields, FatalError
<1>3. Typed(s)
  BY <1>2 DEF OK, Typed
<1>4. Sound(r)
  BY DEF OK
<1>5. CopyPart(s) /\ Quiet(s) /\ StatePart(s) /\ FatalPart(s)
  <2>1. CopyPart(s)
    BY <1>2, <1>4 DEF Sound, CopyPart
  <2>2. Quiet(s)
    BY <1>2, <1>4 DEF Sound, Quiet
  <2>3. StatePart(s)
    BY ZenonT(40), <1>2, <1>4 DEF Sound, StatePart
  <2>4. FatalPart(s)
    BY <1>2, <1>4 DEF Sound, FatalPart
  <2> QED BY <2>1, <2>2, <2>3, <2>4
<1>6. ThreadPart(s) /\ ReaderPart(s)
  BY ZenonT(40), <1>2, <1>4 DEF Sound, ThreadPart, ReaderPart
<1>7. AnswerPart(s)
  BY <1>2, <1>4 DEF Sound, AnswerPart
<1>8. DataPart(s)
  <2>1. /\ SamePlace(r, s) /\ SameBuffer(r, s) /\ SameReader(r, s) /\ s.pc = r.pc
        /\ SameAnswer(r, s) /\ s.at = r.at /\ s.kind = r.kind
        /\ s.mPendingCancelFlag = r.mPendingCancelFlag
    BY <1>2
  <2>2. DataPart(r) /\ Typed(r)
    BY DEF OK, Sound
  <2>3. QED
    <3>1. EarlyData(s) /\ AnswerData(s)
      BY <2>1, <2>2 DEF DataPart, EarlyData, AnswerData, Whole
    <3>2. ReadData(s)
      BY ZenonT(40), <1>3, <2>1, <2>2 DEF DataPart, ReadData, Typed
    <3>3. WriteData(s)
      BY <2>1, <2>2 DEF DataPart, WriteData
    <3> QED
      BY <3>1, <3>2, <3>3 DEF DataPart
<1> QED
  BY <1>2, <1>3, <1>5, <1>6, <1>7, <1>8 DEF OK, Sound, Follows, Uncancelled

\* HandleECPipeStart and HandleStart: by ECPipe, by the Reader, or neither.
LEMMA HandleStartOK ==
    ASSUME NEW r, OK(r), r.fatal = "none", r.pc = "start",
           NEW s \in HandleECPipeStart(r)
    PROVE  OK(s) /\ Follows(r, s)
<1>1. /\ Working(r) /\ DOMAIN r = Fields /\ DataPart(r) /\ Typed(r)
      /\ r.mState = "kStart" /\ r.reader = "closed" /\ ~r.mIsECPipe
      /\ ~r.mPendingCancelFlag => ~r.pending
  BY WorkingAt
<1>2. r.at = "start"
  BY <1>1 DEF Working
<1>3. ~r.mPendingCancelFlag => ~r.pending /\ r.dataBuf = 0
  BY <1>1, <1>2 DEF DataPart, EarlyData
<1>4. CASE s \in StartCompleted(r, FALSE)
  BY <1>1, <1>3, <1>4, StartCompletedOK
<1>5. CASE s \in StartCompleted([r EXCEPT !.reader = "open"], TRUE)
  <2>1. PICK q : q = [r EXCEPT !.reader = "open"]
    OBVIOUS
  <2>2. /\ SameId(r, q) /\ SamePlace(r, q) /\ SameBuffer(r, q) /\ SameAnswer(r, q)
        /\ q.at = r.at /\ SameState(r, q) /\ q.pc = r.pc /\ q.reader = "open"
        /\ q.mPendingCloseFlag = r.mPendingCloseFlag /\ q.mIsECPipe = r.mIsECPipe
        /\ q.mReadInFlightFlag = r.mReadInFlightFlag
    BY <1>1, <2>1 DEF Fields
  <2>3. Typed(q)
    BY <1>1, <2>2 DEF Typed
  <2>4. Working(q)
    BY <1>1, <2>2, <2>3 DEF Working
  <2>5. q.mState = "kStart" /\ (~q.mPendingCancelFlag => ~q.pending /\ q.dataBuf = 0)
    BY <1>1, <1>3, <2>2
  <2>6. s \in StartCompleted(q, TRUE)
    BY <1>5, <2>1
  <2>7. OK(s) /\ Follows(q, s)
    BY <2>4, <2>5, <2>6, StartCompletedOK
  <2> QED
    BY <2>2, <2>7 DEF Follows
<1>6. CASE s \in StartCompleted([r EXCEPT !.mIsECPipe = TRUE], TRUE)
  <2>1. PICK q : q = [r EXCEPT !.mIsECPipe = TRUE]
    OBVIOUS
  <2>2. /\ SameId(r, q) /\ SamePlace(r, q) /\ SameBuffer(r, q) /\ SameAnswer(r, q)
        /\ q.at = r.at /\ SameState(r, q) /\ q.pc = r.pc /\ q.reader = r.reader
        /\ q.mPendingCloseFlag = r.mPendingCloseFlag /\ q.mIsECPipe
        /\ q.mReadInFlightFlag = r.mReadInFlightFlag
    BY <1>1, <2>1 DEF Fields
  <2>3. Typed(q)
    BY <1>1, <2>2 DEF Typed
  <2>4. Working(q)
    BY <1>1, <2>2, <2>3 DEF Working
  <2>5. q.mState = "kStart" /\ (~q.mPendingCancelFlag => ~q.pending /\ q.dataBuf = 0)
    BY <1>1, <1>3, <2>2
  <2>6. s \in StartCompleted(q, TRUE)
    BY <1>6, <2>1
  <2>7. OK(s) /\ Follows(q, s)
    BY <2>4, <2>5, <2>6, StartCompletedOK
  <2> QED
    BY <2>2, <2>7 DEF Follows
<1>7. CASE s \in {FatalError(r, why) : why \in {"no client", "no connection"}}
  BY <1>2, <1>7, FatalOK
<1> QED
  BY <1>4, <1>5, <1>6, <1>7 DEF HandleECPipeStart, HandleStart

\* HandleRead of the Reader: its FatalError is not reached.
LEMMA HandleReadOK ==
    ASSUME NEW r, OK(r), r.fatal = "none", r.pc = "read", NEW s \in HandleRead(r)
    PROVE  OK(s) /\ Follows(r, s)
<1>1. /\ Working(r) /\ DOMAIN r = Fields /\ DataPart(r) /\ Typed(r)
      /\ r.mState = "kRead" /\ (~r.mPendingCancelFlag => ~r.pending)
  BY WorkingAt
<1>2. /\ r.at = "read" /\ ~r.mReadInFlightFlag /\ ~r.mIsECPipe /\ ~r.mCancelFlag
      /\ r.kind = "rs" /\ r.mOffset >= 0 /\ r.mChunkSize >= 0
  BY <1>1 DEF Working, OK, Sound, ThreadPart
<1>3. /\ r.mOffset \in Int /\ r.mChunkSize \in Int /\ GetReadSize \in Int
  BY <1>1, ReplicatorAssumption DEF Typed
<1>4. CASE r.mOffset >= r.mChunkSize \/ r.readStatus # "ok"
  <2>1. s \in ReadCompleted(r)
    BY <1>2, <1>4 DEF HandleRead
  <2>2. ~r.mPendingCancelFlag => Arrived(r)
    BY <1>1, <1>2, <1>3, <1>4 DEF DataPart, EarlyData, ReadData, Arrived, Working
  <2> QED
    BY <1>1, <2>1, <2>2, ReadCompletedOK
<1>5. CASE ~(r.mOffset >= r.mChunkSize \/ r.readStatus # "ok")
  <2>1. PICK q : q = [r EXCEPT !.numBytes = GetReadSize, !.dataBuf = 0]
    OBVIOUS
  <2>2. \/ s \in ReadCompleted([q EXCEPT !.readStatus = "error"])
        \/ s = Idle([q EXCEPT !.mReadInFlightFlag = TRUE])
    BY <1>2, <1>5, <2>1 DEF HandleRead
  <2>3. /\ SameId(r, q) /\ SamePlace(r, q) /\ SameReader(r, q) /\ SameAnswer(r, q)
        /\ q.at = r.at /\ SameState(r, q) /\ q.pc = r.pc /\ q.numBytes = GetReadSize
        /\ q.dataBuf = 0 /\ q.writeBytes = r.writeBytes /\ q.readStatus = r.readStatus
        /\ q.skipVerify = r.skipVerify
    BY <1>1, <2>1 DEF Fields
  <2>4. Typed(q)
    BY <1>1, <1>3, <2>3 DEF Typed
  <2>5. CASE s \in ReadCompleted([q EXCEPT !.readStatus = "error"])
    <3>1. PICK t : t = [q EXCEPT !.readStatus = "error"]
      OBVIOUS
    <3>2. /\ SameId(q, t) /\ SamePlace(q, t) /\ SameReader(q, t) /\ SameAnswer(q, t)
          /\ t.at = q.at /\ SameState(q, t) /\ t.pc = q.pc /\ t.numBytes = q.numBytes
          /\ t.dataBuf = q.dataBuf /\ t.writeBytes = q.writeBytes
          /\ t.readStatus = "error" /\ t.skipVerify = q.skipVerify
      BY <2>3, <3>1 DEF Fields
    <3>3. Typed(t)
      BY <2>4, <3>2 DEF Typed
    <3>4. Working(t)
      BY <1>1, <2>3, <3>2, <3>3 DEF Working
    <3>5. ~t.mPendingCancelFlag => ~t.pending /\ Arrived(t)
      BY <1>1, <1>2, <1>3, <2>3, <3>2 DEF DataPart, ReadData, Arrived
    <3>6. OK(s) /\ Follows(t, s)
      BY <2>5, <3>1, <3>4, <3>5, ReadCompletedOK
    <3> QED
      BY <2>3, <3>2, <3>6 DEF Follows
  <2>6. CASE s = Idle([q EXCEPT !.mReadInFlightFlag = TRUE])
    <3>1. PICK t : t = [q EXCEPT !.mReadInFlightFlag = TRUE]
      OBVIOUS
    <3>2. /\ SameId(q, t) /\ SamePlace(q, t) /\ SameBuffer(q, t) /\ SameAnswer(q, t)
          /\ t.at = q.at /\ SameState(q, t) /\ t.reader = q.reader
          /\ t.mPendingCloseFlag = q.mPendingCloseFlag /\ t.mIsECPipe = q.mIsECPipe
          /\ t.mReadInFlightFlag
      BY <2>3, <3>1 DEF Fields
    <3>3. s = [t EXCEPT !.pc = "idle"]
      BY <2>6, <3>1 DEF Idle
    <3>4. /\ SameId(t, s) /\ SamePlace(t, s) /\ SameBuffer(t, s) /\ SameAnswer(t, s)
          /\ s.at = t.at /\ SameState(t, s) /\ SameReader(t, s) /\ s.pc = "idle"
      BY <3>2, <3>3 DEF Fields
    <3>5. /\ SameId(r, s) /\ SamePlace(r, s) /\ SameAnswer(r, s)
          /\ s.at = r.at /\ SameState(r, s) /\ s.pc = "idle" /\ s.numBytes = GetReadSize
          /\ s.dataBuf = 0 /\ s.writeBytes = r.writeBytes /\ s.readStatus = r.readStatus
          /\ s.skipVerify = r.skipVerify /\ s.mReadInFlightFlag /\ s.reader = r.reader
          /\ s.mPendingCloseFlag = r.mPendingCloseFlag /\ s.mIsECPipe = r.mIsECPipe
      BY <2>3, <3>2, <3>4
    <3>6. Typed(s)
      BY <1>1, <1>3, <3>5 DEF Typed
    <3>7. DataPart(s)
      BY <1>1, <1>2, <1>3, <1>5, <3>5 DEF DataPart, EarlyData, ReadData, WriteData,
         AnswerData, Working
    <3>8. Sound(s)
      BY <1>1, <1>2, <3>5, <3>7 DEF Working, Sound, CopyPart, Quiet,
         StatePart, ThreadPart, ReaderPart, AnswerPart, FatalPart
    <3> QED
      BY <1>2, <3>5, <3>6, <3>8 DEF OK, Follows, Uncancelled
  <2> QED
    BY <2>2, <2>5, <2>6
<1> QED
  BY <1>4, <1>5

\* HandleECPipeRead: only a recovery that was cancelled while it started reads
\* a size that was never set.
LEMMA HandleECPipeReadOK ==
    ASSUME NEW r, OK(r), r.fatal = "none", r.pc = "ecread", NEW s \in HandleECPipeRead(r)
    PROVE  OK(s) /\ Follows(r, s)
<1>1. /\ Working(r) /\ DOMAIN r = Fields /\ DataPart(r) /\ Typed(r)
      /\ r.mIsECPipe /\ (r.mState = "kStart" => r.mPendingCancelFlag)
      /\ ~r.mPendingCancelFlag => ~r.pending
  BY WorkingAt
<1>2. r.at # "new" /\ r.kind = "rs" /\ r.at # "done"
      /\ (r.mState = "kRead" => r.at = "read" /\ r.mOffset >= 0 /\ r.mChunkSize >= 0)
      /\ r.mState \in {"kStart", "kRead"}
  BY <1>1 DEF Working
<1>3. r.mOffset \in Int /\ r.mChunkSize \in Int
  BY <1>1 DEF Typed
<1>4. r.mChunkSize = Unset => r.mPendingCancelFlag
  BY <1>1, <1>2, <1>3 DEF Unset
<1>5. CASE /\ s \in ReadCompleted(r)
           /\ r.mPendingCancelFlag \/ r.mOffset >= r.mChunkSize \/ r.readStatus # "ok"
  <2>1. ~r.mPendingCancelFlag => ~r.pending /\ Arrived(r)
    BY <1>1, <1>2, <1>3, <1>5 DEF DataPart, EarlyData, ReadData, Arrived, Working
  <2> QED
    BY <1>1, <1>5, <2>1, ReadCompletedOK
<1>6. CASE s = FatalError(r, "chunk size") /\ r.mPendingCancelFlag
  BY <1>2, <1>6, FatalOK
<1>7. CASE /\ s = [r EXCEPT !.pc = getNextPacket(r)]
           /\ r.mPendingCancelFlag \/ ~(r.mOffset >= r.mChunkSize)
  <2>1. getNextPacket(r) \in {"stuck", "pipe"}
    BY DEF getNextPacket
  <2>2. /\ SameId(r, s) /\ SamePlace(r, s) /\ SameBuffer(r, s) /\ SameAnswer(r, s)
        /\ SameReader(r, s) /\ s.at = r.at /\ SameState(r, s) /\ s.pc \in {"stuck", "pipe"}
    BY <1>1, <1>7, <2>1 DEF Fields
  <2>3. Typed(s)
    BY <1>1, <2>2 DEF Typed
  <2>4. DataPart(s)
    <3>1. EarlyData(s)
      BY <1>1, <1>2, <1>3, <1>7, <2>2 DEF DataPart, EarlyData
    <3>2. ReadData(s)
      BY <1>1, <1>2, <2>2 DEF DataPart, ReadData
    <3>3. WriteData(s) /\ AnswerData(s)
      BY <1>1, <2>2 DEF WriteData, AnswerData, Working
    <3> QED
      BY <3>1, <3>2, <3>3 DEF DataPart
  <2>5. Sound(s)
    BY <1>1, <1>2, <2>2, <2>4 DEF Working, Sound, CopyPart, Quiet,
         StatePart, ThreadPart, ReaderPart, AnswerPart, FatalPart
  <2> QED
    BY <1>2, <2>2, <2>3, <2>5 DEF OK, Follows, Uncancelled
<1> QED
  BY <1>4, <1>5, <1>6, <1>7 DEF HandleECPipeRead

\* The packets of ECPipe are the whole chunk.
LEMMA ECPipeReadDoneOK ==
    ASSUME NEW r, OK(r), r.fatal = "none", r.pc = "pipe", NEW s \in ECPipeReadDone(r)
    PROVE  OK(s) /\ Follows(r, s)
<1>1. /\ Working(r) /\ DOMAIN r = Fields /\ DataPart(r) /\ Typed(r)
      /\ r.mIsECPipe /\ (r.mState = "kStart" => r.mPendingCancelFlag)
      /\ ~r.mPendingCancelFlag => ~r.pending
  BY WorkingAt
<1>2. PICK q : q = [r EXCEPT !.served = TRUE, !.numBytes = r.mChunkSize,
                             !.dataBuf = r.mChunkSize]
  OBVIOUS
<1>3. /\ SameId(r, q) /\ SamePlace(r, q) /\ SameAnswer(r, q) /\ q.at = r.at
      /\ SameState(r, q) /\ q.pc = r.pc /\ q.numBytes = r.mChunkSize
      /\ q.dataBuf = r.mChunkSize /\ q.writeBytes = r.writeBytes
      /\ q.readStatus = r.readStatus /\ q.skipVerify = r.skipVerify
      /\ q.reader = r.reader /\ q.mPendingCloseFlag = r.mPendingCloseFlag
      /\ q.mIsECPipe = r.mIsECPipe /\ q.mReadInFlightFlag = r.mReadInFlightFlag
  BY <1>1, <1>2 DEF Fields
<1>4. Typed(q)
  BY <1>1, <1>3 DEF Typed
<1>5. Working(q)
  BY <1>1, <1>3, <1>4 DEF Working
<1>6. r.mOffset \in Int /\ r.mChunkSize \in Int /\ CHUNKSIZE \in Nat
  BY <1>1, ReplicatorAssumption DEF Typed
<1>7. ~r.mPendingCancelFlag => /\ r.mOffset < r.mChunkSize /\ r.mOffset \in {0, CHUNKSIZE}
                               /\ r.mChunkSize = CHUNKSIZE /\ Aligned(r.mOffset)
  BY <1>1, <1>6 DEF Working, DataPart, EarlyData, ReadData
<1>8. ~r.mPendingCancelFlag => r.mOffset = 0
  BY <1>6, <1>7
<1>9. ~q.mPendingCancelFlag => ~q.pending /\ Arrived(q)
  BY <1>1, <1>3, <1>5, <1>6, <1>7, <1>8 DEF Arrived, Working
<1>10. OK(s) /\ Follows(q, s)
  BY <1>2, <1>5, <1>9, ReadCompletedOK DEF ECPipeReadDone
<1> QED
  BY <1>3, <1>10 DEF Follows

\* A read returns no more than was asked for.
LEMMA LengthsOK ==
    ASSUME NEW num \in Int, NEW n \in Lengths(num)
    PROVE  n \in Int /\ n <= num /\ (n < num => n \in ShortReads /\ n >= 0)
BY ReplicatorAssumption DEF Lengths

\* A replicator whose read is in flight, as its completion finds it.
LEMMA InFlight ==
    ASSUME NEW r, OK(r), r.fatal = "none", r.mReadInFlightFlag, r.pc = "idle"
    PROVE  /\ Typed(r) /\ DOMAIN r = Fields /\ DataPart(r) /\ r.kind = "rs" /\ r.alive
           /\ r.mState = "kRead" /\ r.at = "read" /\ r.mOffset >= 0 /\ r.mChunkSize >= 0
           /\ ~r.mReplicationDoneFlag /\ (r.mPendingCloseFlag <=> r.reader = "closing")
           /\ ~r.mIsECPipe /\ r.readStatus # "badcksum" /\ ~r.skipVerify
           /\ ~r.version /\ ~r.mDone /\ ~r.mCancelFlag
           /\ ~r.mPendingCancelFlag => ~r.pending /\ r.mOffset < r.mChunkSize
<1>1. r.mState = "kRead" /\ r.at = "read" /\ r.kind = "rs"
  BY DEF OK, Typed, Sound, CopyPart, ReaderPart, StatePart
<1> QED
  BY <1>1 DEF OK, Typed, Sound, StatePart, ThreadPart, ReaderPart, AnswerPart,
     DataPart, EarlyData

\* Done of the Reader with an error.
LEMMA DoneErrorOK ==
    ASSUME NEW r, OK(r), r.fatal = "none", r.mReadInFlightFlag, r.pc = "idle",
           NEW s \in DoneError(r)
    PROVE  OK(s) /\ Follows(r, s)
<1>1. PICK q : q = [r EXCEPT !.mReadInFlightFlag = FALSE, !.readStatus = "error"]
  OBVIOUS
<1>2. /\ Typed(r) /\ DOMAIN r = Fields /\ DataPart(r)
  BY InFlight
<1>3. /\ SameId(r, q) /\ SamePlace(r, q) /\ SameAnswer(r, q) /\ q.at = r.at
      /\ SameState(r, q) /\ q.pc = r.pc /\ q.numBytes = r.numBytes
      /\ q.dataBuf = r.dataBuf /\ q.writeBytes = r.writeBytes
      /\ q.readStatus = "error" /\ q.skipVerify = r.skipVerify
      /\ q.reader = r.reader /\ q.mPendingCloseFlag = r.mPendingCloseFlag
      /\ q.mIsECPipe = r.mIsECPipe /\ ~q.mReadInFlightFlag
  BY <1>1, <1>2 DEF Fields
<1>4. Typed(q)
  BY <1>2, <1>3 DEF Typed
<1>5. Working(q)
  BY <1>3, <1>4, InFlight DEF Working
<1>6. r.mOffset \in Int /\ r.mChunkSize \in Int
  BY <1>2 DEF Typed
<1>7. ~q.mPendingCancelFlag => ~q.pending /\ Arrived(q)
  BY <1>2, <1>3, <1>6, InFlight DEF Arrived, DataPart, EarlyData, ReadData
<1>8. OK(s) /\ Follows(q, s)
  BY <1>1, <1>5, <1>7, ReadCompletedOK DEF DoneError
<1> QED
  BY <1>3, <1>8 DEF Follows

\* Done of the Reader: a short read ends the chunk behind the bytes that came,
\* and a full one ends at a checksum block.
LEMMA DoneOK ==
    ASSUME NEW r, OK(r), r.fatal = "none", r.mReadInFlightFlag, r.pc = "idle",
           r.reader = "open", NEW n \in Lengths(GetReadSize), NEW s \in Done(r, n)
    PROVE  OK(s) /\ Follows(r, s)
<1>0. GetReadSize \in Nat /\ Aligned(GetReadSize)
  BY ReplicatorAssumption DEF Aligned
<1>1. n \in Nat /\ n <= GetReadSize
  BY <1>0, LengthsOK
<1>2. /\ Typed(r) /\ DOMAIN r = Fields /\ DataPart(r)
      /\ r.mOffset >= 0 /\ r.mChunkSize >= 0
  BY InFlight
<1>3. r.mOffset \in Nat /\ r.mChunkSize \in Nat
  BY <1>2 DEF Typed
<1>4. PICK d : d = [r EXCEPT !.mReadInFlightFlag = FALSE, !.numBytes = n, !.dataBuf = n]
  OBVIOUS
<1>5. /\ SameId(r, d) /\ SamePlace(r, d) /\ SameAnswer(r, d) /\ d.at = r.at
      /\ SameState(r, d) /\ d.pc = r.pc /\ d.numBytes = n
      /\ d.dataBuf = n /\ d.writeBytes = r.writeBytes
      /\ d.readStatus = r.readStatus /\ d.skipVerify = r.skipVerify
      /\ d.reader = r.reader /\ d.mPendingCloseFlag = r.mPendingCloseFlag
      /\ d.mIsECPipe = r.mIsECPipe /\ ~d.mReadInFlightFlag
  BY <1>2, <1>4 DEF Fields
<1>6. Typed(d)
  BY <1>1, <1>2, <1>5 DEF Typed
<1>7. Working(d)
  BY <1>5, <1>6, InFlight DEF Working
<1>8. ~r.mPendingCancelFlag =>
        ~r.pending /\ r.mOffset < r.mChunkSize /\ Aligned(r.mOffset)
  BY <1>2, <1>3, InFlight DEF DataPart, ReadData
<1>9. CASE GetReadSize > n \/ r.mOffset + GetReadSize >= r.mChunkSize
  <2>3. PICK m \in Nat : m = r.mOffset + n
    BY <1>1, <1>3
  <2>1. PICK e : e = [d EXCEPT !.mChunkSize = m]
    OBVIOUS
  <2>2. /\ SameId(d, e) /\ SameBuffer(d, e) /\ SameAnswer(d, e) /\ e.at = d.at
        /\ SameState(d, e) /\ SameReader(d, e) /\ e.pc = d.pc
        /\ e.mOffset = d.mOffset /\ e.mChunkSize = m
    BY <1>5, <2>1 DEF Fields
  <2>a. m \in Int
    BY <2>3
  <2>4. Typed(e)
    BY <1>6, <2>2, <2>a DEF Typed
  <2>5. \/ s \in ReadCompleted([e EXCEPT !.reader = "closed"])
        \/ s \in ReadCompleted([e EXCEPT !.reader = "closing", !.mPendingCloseFlag = TRUE])
    BY <1>4, <1>9, <2>1, <2>3 DEF Done
  <2>6. ASSUME NEW t, SameId(e, t), SamePlace(e, t), SameBuffer(e, t), SameAnswer(e, t),
               t.at = e.at, SameState(e, t), t.pc = e.pc,
               t.mPendingCloseFlag <=> t.reader = "closing",
               t.reader \in {"closed", "closing"},
               t.mIsECPipe = e.mIsECPipe, t.mReadInFlightFlag = e.mReadInFlightFlag,
               s \in ReadCompleted(t)
        PROVE  OK(s) /\ Follows(r, s)
    <3>1. Typed(t)
      BY <2>4, <2>6 DEF Typed
    <3>2. Working(t)
      BY <1>5, <2>2, <2>3, <2>6, <3>1, InFlight DEF Working
    <3>3. ~t.mPendingCancelFlag => ~t.pending /\ Arrived(t)
      BY <1>1, <1>3, <1>5, <1>8, <2>2, <2>3, <2>6, InFlight DEF Arrived
    <3>4. OK(s) /\ Follows(t, s)
      BY <2>6, <3>2, <3>3, ReadCompletedOK
    <3> QED
      BY <1>5, <2>2, <2>6, <3>4 DEF Follows
  <2>7. CASE s \in ReadCompleted([e EXCEPT !.reader = "closed"])
    <3>1. PICK t : t = [e EXCEPT !.reader = "closed"]
      OBVIOUS
    <3>2. /\ SameId(e, t) /\ SamePlace(e, t) /\ SameBuffer(e, t) /\ SameAnswer(e, t)
          /\ t.at = e.at /\ SameState(e, t) /\ t.pc = e.pc
          /\ t.mPendingCloseFlag = e.mPendingCloseFlag /\ t.reader = "closed"
          /\ t.mIsECPipe = e.mIsECPipe /\ t.mReadInFlightFlag = e.mReadInFlightFlag
      BY <2>2, <3>1 DEF Fields
    <3>3. ~t.mPendingCloseFlag
      BY <1>5, <2>2, <3>2, InFlight
    <3> QED
      BY <2>6, <2>7, <3>1, <3>2, <3>3
  <2>8. CASE s \in ReadCompleted([e EXCEPT !.reader = "closing", !.mPendingCloseFlag = TRUE])
    <3>1. PICK t : t = [e EXCEPT !.reader = "closing", !.mPendingCloseFlag = TRUE]
      OBVIOUS
    <3>2. /\ SameId(e, t) /\ SamePlace(e, t) /\ SameBuffer(e, t) /\ SameAnswer(e, t)
          /\ t.at = e.at /\ SameState(e, t) /\ t.pc = e.pc
          /\ t.mPendingCloseFlag /\ t.reader = "closing"
          /\ t.mIsECPipe = e.mIsECPipe /\ t.mReadInFlightFlag = e.mReadInFlightFlag
      BY <2>2, <3>1 DEF Fields
    <3> QED
      BY <2>6, <2>8, <3>1, <3>2
  <2> QED
    BY <2>5, <2>7, <2>8
<1>10. CASE ~(GetReadSize > n \/ r.mOffset + GetReadSize >= r.mChunkSize)
  <2>1. s \in ReadCompleted(d)
    BY <1>4, <1>10 DEF Done
  <2>2. n = GetReadSize
    BY <1>0, <1>1, <1>10
  <2>3. ~d.mPendingCancelFlag => ~d.pending /\ Arrived(d)
    BY <1>0, <1>1, <1>3, <1>5, <1>8, <1>10, <2>2, InFlight DEF Arrived
  <2>4. OK(s) /\ Follows(d, s)
    BY <1>7, <2>1, <2>3, ReadCompletedOK
  <2> QED
    BY <1>5, <2>4 DEF Follows
<1> QED
  BY <1>9, <1>10

\* The destructor finds no Reader that is open or closing.
LEMMA UnRefOK ==
    ASSUME NEW r, OK(r), r.fatal = "none", r.at = "done", NEW d, Typed(d),
           d.chunk = r.chunk, SamePlace(r, d), d.dataBuf = r.dataBuf,
           d.status = r.status, d.version = r.version, d.mCancelFlag = r.mCancelFlag,
           ~d.mPendingCloseFlag, d.mReplicationDoneFlag, d.reader = "closed",
           NEW s, s = UnRef(d)
    PROVE  OK(s) /\ Follows(r, s)
<1>1. s = Deleted(d)
  BY DEF UnRef
<1>2. d.version => Whole(d) /\ d.status = "ok" /\ ~d.mCancelFlag
  BY DEF OK, Sound, DataPart, AnswerData, Whole
<1>3. OK(s) /\ s.at = "done" /\ s.chunk = d.chunk
  BY <1>1, <1>2, DeletedOK
<1> QED
  BY <1>3 DEF Follows, Uncancelled

\* HandleDone and HandleECPipeDone: the replicator is deleted when its Reader is
\* closed and waits for it otherwise.
LEMMA HandleDoneOK ==
    ASSUME NEW r, OK(r), r.fatal = "none", r.pc \in {"done", "ecdone"},
           NEW s, \/ r.pc = "done" /\ s \in HandleDone(r)
                  \/ r.pc = "ecdone" /\ s \in HandleECPipeDone(r)
    PROVE  OK(s) /\ Follows(r, s)
<1>1. r.mState = "kDone"
  BY DEF OK, Typed, Sound, Quiet, ThreadPart
<1>2. /\ r.at = "done" /\ r.alive /\ ~r.mReplicationDoneFlag /\ ~r.pending
      /\ r.kind = "rs" /\ ~r.mReadInFlightFlag
      /\ r.mPendingCloseFlag <=> r.reader = "closing"
      /\ r.mPendingCancelFlag => r.reader = "closed"
      /\ r.pc = "ecdone" => r.reader = "closed"
      /\ Typed(r) /\ DOMAIN r = Fields
  BY <1>1 DEF OK, Typed, Sound, StatePart, ThreadPart, CopyPart, ReaderPart
<1>3. PICK i : i = Idle(r)
  OBVIOUS
<1>4. PICK d : d = [i EXCEPT !.mReplicationDoneFlag = TRUE]
  OBVIOUS
<1>5. /\ SameId(r, i) /\ SamePlace(r, i) /\ SameBuffer(r, i) /\ SameAnswer(r, i)
      /\ i.at = r.at /\ SameState(r, i) /\ SameReader(r, i) /\ i.pc = "idle"
  BY <1>2, <1>3 DEF Fields, Idle
<1>6. /\ SameId(i, d) /\ SamePlace(i, d) /\ SameBuffer(i, d) /\ SameAnswer(i, d)
      /\ d.at = i.at /\ SameReader(i, d) /\ d.pc = i.pc /\ d.mReplicationDoneFlag
      /\ d.mState = i.mState /\ d.pending = i.pending
      /\ d.mPendingCancelFlag = i.mPendingCancelFlag
  BY <1>4, <1>5 DEF Fields
<1>7. /\ SameId(r, d) /\ SamePlace(r, d) /\ SameBuffer(r, d) /\ SameAnswer(r, d)
      /\ d.at = r.at /\ SameReader(r, d) /\ d.pc = "idle" /\ d.mReplicationDoneFlag
      /\ d.mState = r.mState /\ d.pending = r.pending
      /\ d.mPendingCancelFlag = r.mPendingCancelFlag
  BY <1>5, <1>6
<1>8. Typed(d)
  BY <1>2, <1>7 DEF Typed
<1>9. CASE s = UnRef(d) /\ r.reader = "closed"
  BY <1>2, <1>7, <1>8, <1>9, UnRefOK
<1>10. CASE r.reader = "open" /\ s = UnRef([d EXCEPT !.reader = "closed"])
  <2>1. PICK e : e = [d EXCEPT !.reader = "closed"]
    OBVIOUS
  <2>2. /\ SameId(d, e) /\ SamePlace(d, e) /\ SameBuffer(d, e) /\ SameAnswer(d, e)
        /\ SameState(d, e) /\ e.pc = d.pc /\ e.reader = "closed"
        /\ e.mPendingCloseFlag = d.mPendingCloseFlag
    BY <1>7, <2>1 DEF Fields
  <2>3. Typed(e)
    BY <1>8, <2>2 DEF Typed
  <2>4. /\ e.chunk = r.chunk /\ SamePlace(r, e) /\ e.dataBuf = r.dataBuf
        /\ e.status = r.status /\ e.version = r.version /\ e.mCancelFlag = r.mCancelFlag
        /\ ~e.mPendingCloseFlag /\ e.mReplicationDoneFlag /\ e.reader = "closed"
    BY <1>2, <1>7, <1>10, <2>2
  <2>5. s = UnRef(e)
    BY <1>10, <2>1
  <2> QED
    BY <1>2, <2>3, <2>4, <2>5, UnRefOK
<1>11. CASE /\ r.reader # "closed" /\ ~r.mPendingCancelFlag
            /\ s = [d EXCEPT !.reader = "closing", !.mPendingCloseFlag = TRUE]
  <2>1. /\ SameId(d, s) /\ SamePlace(d, s) /\ SameBuffer(d, s) /\ SameAnswer(d, s)
        /\ s.at = d.at /\ SameState(d, s) /\ s.pc = d.pc /\ s.reader = "closing"
        /\ s.mPendingCloseFlag /\ s.mIsECPipe = d.mIsECPipe
        /\ s.mReadInFlightFlag = d.mReadInFlightFlag
    BY <1>7, <1>11 DEF Fields
  <2>2. Typed(s)
    BY <1>8, <2>1 DEF Typed
  <2>3. DataPart(s)
    <3>1. AnswerData(r)
      BY DEF OK, Sound, DataPart
    <3> QED
      BY <1>2, <1>7, <2>1, <3>1 DEF DataPart, EarlyData, ReadData, WriteData,
         AnswerData, Whole
  <2>4. AnswerPart(r) /\ ReaderPart(r)
    BY DEF OK, Sound
  <2>5. /\ s.mState = "kDone" /\ s.at = "done" /\ s.alive /\ s.kind = "rs" /\ ~s.pending
        /\ s.pc = "idle" /\ ~s.mReadInFlightFlag /\ ~s.mPendingCancelFlag
        /\ s.mReplicationDoneFlag /\ ~s.mIsECPipe /\ s.fatal = "none"
        /\ s.readStatus = r.readStatus /\ s.skipVerify = r.skipVerify
        /\ s.mFileHandle = r.mFileHandle
    <3>1. ~r.mIsECPipe
      BY <1>11, <2>4 DEF ReaderPart
    <3>2. /\ s.mState = r.mState /\ s.at = r.at /\ s.alive = r.alive /\ s.kind = r.kind
          /\ s.pending = r.pending /\ s.pc = "idle"
          /\ s.mReadInFlightFlag = r.mReadInFlightFlag
          /\ s.mPendingCancelFlag = r.mPendingCancelFlag
          /\ s.mReplicationDoneFlag /\ s.mIsECPipe = r.mIsECPipe /\ s.fatal = r.fatal
          /\ s.readStatus = r.readStatus /\ s.skipVerify = r.skipVerify
          /\ s.mFileHandle = r.mFileHandle
      BY <1>7, <2>1
    <3> QED
      BY <1>1, <1>2, <1>11, <3>1, <3>2
  <2>6. CopyPart(s) /\ Quiet(s) /\ StatePart(s) /\ FatalPart(s) /\ ReaderPart(s)
    BY <2>1, <2>5 DEF CopyPart, Quiet, StatePart, ReaderPart, FatalPart
  <2>7. ThreadPart(s)
    BY <2>1, <2>5 DEF ThreadPart
  <2>8. AnswerPart(s)
    BY <1>2, <2>4, <2>5 DEF AnswerPart
  <2> QED
    BY <1>2, <1>7, <2>1, <2>2, <2>3, <2>6, <2>7, <2>8 DEF Sound, OK, Follows,
         Uncancelled
<1>12. CASE r.pc = "done" /\ s \in HandleDone(r)
  <2>1. \/ s = UnRef(d) /\ (r.mPendingCancelFlag \/ r.reader = "closed")
        \/ /\ ~(r.mPendingCancelFlag \/ r.reader = "closed")
           /\ \/ s = [d EXCEPT !.reader = "closing", !.mPendingCloseFlag = TRUE]
              \/ r.reader = "open" /\ s = UnRef([d EXCEPT !.reader = "closed"])
    BY <1>2, <1>3, <1>4, <1>12 DEF HandleDone
  <2> QED
    BY <1>2, <1>9, <1>10, <1>11, <2>1
<1>13. CASE r.pc = "ecdone" /\ s \in HandleECPipeDone(r)
  <2>1. s = UnRef(d)
    BY <1>2, <1>3, <1>4, <1>13 DEF HandleECPipeDone
  <2> QED
    BY <1>2, <1>9, <1>13, <2>1
<1> QED
  BY <1>12, <1>13

\* HandleCancel: the FatalErrors are not reached, and the request is answered
\* as cancelled, without a version.
LEMMA HandleCancelOK ==
    ASSUME NEW r, OK(r), r.fatal = "none", r.pc = "cancel", NEW s \in HandleCancel(r)
    PROVE  OK(s) /\ Follows(r, s)
<1>1. r.mState \in {"kStart", "kRead"} /\ r.kind = "rs"
  BY DEF OK, Typed, Sound, Quiet, ThreadPart, CopyPart
<1>2. /\ r.at \in {"start", "read"} /\ r.alive /\ ~r.mReplicationDoneFlag
      /\ ~r.mCancelFlag /\ r.mPendingCancelFlag /\ ~r.mIsECPipe
      /\ r.mReadInFlightFlag => r.mState = "kRead"
      /\ r.mState = "kStart" <=> r.at = "start"
      /\ ~r.version /\ ~r.mDone /\ r.readStatus # "badcksum" /\ ~r.skipVerify
      /\ Typed(r) /\ DOMAIN r = Fields /\ DataPart(r)
      /\ r.mFileHandle => r.at = "read"
  BY <1>1 DEF OK, Typed, Sound, StatePart, ThreadPart, ReaderPart, AnswerPart
<1>3. PICK i : i = Idle(r)
  OBVIOUS
<1>4. PICK t : t = [i EXCEPT !.reader = "closed", !.mPendingCloseFlag = FALSE]
  OBVIOUS
<1>5. /\ SameId(r, i) /\ SamePlace(r, i) /\ SameBuffer(r, i) /\ SameAnswer(r, i)
      /\ i.at = r.at /\ SameState(r, i) /\ SameReader(r, i) /\ i.pc = "idle"
  BY <1>2, <1>3 DEF Fields, Idle
<1>6. /\ SameId(i, t) /\ SamePlace(i, t) /\ SameBuffer(i, t) /\ SameAnswer(i, t)
      /\ t.at = i.at /\ SameState(i, t) /\ t.pc = i.pc /\ t.reader = "closed"
      /\ ~t.mPendingCloseFlag /\ t.mIsECPipe = i.mIsECPipe
      /\ t.mReadInFlightFlag = i.mReadInFlightFlag
  BY <1>4, <1>5 DEF Fields
<1>7. /\ SameId(r, t) /\ SamePlace(r, t) /\ SameBuffer(r, t) /\ SameAnswer(r, t)
      /\ t.at = r.at /\ SameState(r, t) /\ t.pc = "idle" /\ t.reader = "closed"
      /\ ~t.mPendingCloseFlag /\ t.mIsECPipe = r.mIsECPipe
      /\ t.mReadInFlightFlag = r.mReadInFlightFlag
  BY <1>5, <1>6
<1>8. Typed(t)
  BY <1>2, <1>7 DEF Typed
<1>9. CASE r.pending
  <2>1. s = t
    BY <1>1, <1>2, <1>3, <1>4, <1>9 DEF HandleCancel
  <2>2. DataPart(t)
    BY <1>2, <1>7 DEF DataPart, EarlyData, ReadData, WriteData, AnswerData
  <2>3. Sound(t)
    BY <1>1, <1>2, <1>7, <1>9, <2>2 DEF Sound, CopyPart, Quiet,
         StatePart, ThreadPart, ReaderPart, AnswerPart, FatalPart
  <2> QED
    BY <1>2, <1>7, <1>8, <2>1, <2>3 DEF OK, Follows, Uncancelled
<1>10. CASE ~r.pending
  <2>1. PICK u : u = [t EXCEPT !.mCancelFlag = TRUE, !.mFileHandle = FALSE]
    OBVIOUS
  <2>2. /\ SameId(t, u) /\ SamePlace(t, u) /\ SameBuffer(t, u) /\ SameReader(t, u)
        /\ u.at = t.at /\ SameState(t, u) /\ u.pc = t.pc /\ u.mCancelFlag
        /\ ~u.mFileHandle /\ u.status = t.status /\ u.version = t.version
        /\ u.mDone = t.mDone
    BY <1>7, <2>1 DEF Fields
  <2>3. u = CancelReplicator(t)
    BY <1>2, <1>7, <2>1 DEF CancelReplicator
  <2>4. PICK c : c = [u EXCEPT !.mState = "kNone", !.mReadInFlightFlag = FALSE]
    OBVIOUS
  <2>5. /\ SameId(u, c) /\ SamePlace(u, c) /\ SameBuffer(u, c) /\ SameAnswer(u, c)
        /\ c.at = u.at /\ c.pc = u.pc /\ c.pending = u.pending
        /\ c.mPendingCancelFlag = u.mPendingCancelFlag /\ c.reader = u.reader
        /\ c.mReplicationDoneFlag = u.mReplicationDoneFlag
        /\ c.mPendingCloseFlag = u.mPendingCloseFlag /\ c.mIsECPipe = u.mIsECPipe
        /\ c.mState = "kNone" /\ ~c.mReadInFlightFlag
    BY <2>2, <2>4 DEF Fields
  <2>6. s \in Terminate(c)
    BY <1>1, <1>2, <1>3, <1>4, <1>10, <2>3, <2>4 DEF HandleCancel
  <2>7. /\ SameId(r, c) /\ SamePlace(r, c) /\ SameBuffer(r, c)
        /\ c.at = r.at /\ c.pc = "idle" /\ c.pending = r.pending
        /\ c.mPendingCancelFlag = r.mPendingCancelFlag /\ c.reader = "closed"
        /\ c.mReplicationDoneFlag = r.mReplicationDoneFlag
        /\ ~c.mPendingCloseFlag /\ c.mIsECPipe = r.mIsECPipe
        /\ c.mState = "kNone" /\ ~c.mReadInFlightFlag
        /\ c.mCancelFlag /\ c.mDone = r.mDone /\ c.version = r.version
    BY <1>7, <2>2, <2>5
  <2>8. Typed(c)
    BY <1>2, <2>7 DEF Typed
  <2>9. Free(c)
    BY <1>1, <1>2, <1>10, <2>7, <2>8 DEF Free
  <2>10. OK(s) /\ Follows(c, s)
    BY <1>2, <2>6, <2>7, <2>9, TerminateOK
  <2> QED
    BY <2>7, <2>10 DEF Follows
<1> QED
  BY <1>9, <1>10

\* The handlers of the client thread.
LEMMA HandlerOK ==
    ASSUME NEW r, OK(r), r.fatal = "none", r.pc \notin {"idle", "handle", "stuck"},
           NEW s \in Handler(r)
    PROVE  OK(s) /\ Follows(r, s)
<1>1. r.pc \in {"start", "read", "ecread", "pipe", "cancel", "done", "ecdone"}
  BY DEF OK, Typed
<1>2. CASE r.pc = "start"
  <2>1. Handler(r) = HandleECPipeStart(r)
    BY <1>2, Zenon DEF Handler
  <2> QED
    BY <1>2, <2>1, HandleStartOK
<1>3. CASE r.pc = "read"
  <2>1. Handler(r) = HandleRead(r)
    BY <1>3, Zenon DEF Handler
  <2> QED
    BY <1>3, <2>1, HandleReadOK
<1>4. CASE r.pc = "ecread"
  <2>1. Handler(r) = HandleECPipeRead(r)
    BY <1>4, Zenon DEF Handler
  <2> QED
    BY <1>4, <2>1, HandleECPipeReadOK
<1>5. CASE r.pc = "pipe"
  <2>1. Handler(r) = ECPipeReadDone(r)
    BY <1>5, Zenon DEF Handler
  <2> QED
    BY <1>5, <2>1, ECPipeReadDoneOK
<1>6. CASE r.pc = "cancel"
  <2>1. Handler(r) = HandleCancel(r)
    BY <1>6, Zenon DEF Handler
  <2> QED
    BY <1>6, <2>1, HandleCancelOK
<1>7. CASE r.pc = "done"
  <2>1. Handler(r) = HandleDone(r)
    BY <1>7, Zenon DEF Handler
  <2> QED
    BY <1>7, <2>1, HandleDoneOK
<1>8. CASE r.pc = "ecdone"
  <2>1. Handler(r) = HandleECPipeDone(r)
    BY <1>8, Zenon DEF Handler
  <2> QED
    BY <1>8, <2>1, HandleDoneOK
<1> QED
  BY <1>1, <1>2, <1>3, <1>4, <1>5, <1>6, <1>7, <1>8

\* Handle finds a handler for every state it can meet.
LEMMA HandleIs ==
    ASSUME NEW r, OK(r), r.pc = "handle"
    PROVE  LET h == Handle(r) IN
           \/ /\ h = "start" /\ r.mState = "kStart" /\ ~r.mPendingCancelFlag
           \/ /\ h = "ecread" /\ r.mState \in {"kStart", "kRead"} /\ r.mIsECPipe
              /\ r.mState = "kStart" => r.mPendingCancelFlag
           \/ /\ h = "cancel" /\ r.mState \in {"kStart", "kRead"} /\ ~r.mIsECPipe
              /\ r.mPendingCancelFlag
           \/ /\ h = "read" /\ r.mState = "kRead" /\ ~r.mIsECPipe /\ ~r.mPendingCancelFlag
           \/ /\ h = "done" /\ r.mState = "kDone"
           \/ /\ h = "ecdone" /\ r.mState = "kDone" /\ r.mIsECPipe
<1>1. /\ r.mState \in {"kStart", "kRead", "kDone"}
      /\ r.mState = "kStart" /\ ~r.mPendingCancelFlag => ~r.mIsECPipe
  BY DEF OK, Typed, Sound, Quiet, ThreadPart
<1>2. CASE r.mState = "kStart" /\ ~r.mPendingCancelFlag
  <2>1. Handle(r) = "start"
    BY <1>1, <1>2, Zenon DEF Handle
  <2> QED
    BY <1>2, <2>1
<1>3. CASE r.mState \in {"kStart", "kRead"} /\ r.mIsECPipe
           /\ ~(r.mState = "kStart" /\ ~r.mPendingCancelFlag)
  <2>1. Handle(r) = "ecread"
    BY <1>3, Zenon DEF Handle
  <2> QED
    BY <1>3, <2>1
<1>4. CASE r.mState \in {"kStart", "kRead"} /\ ~r.mIsECPipe /\ r.mPendingCancelFlag
  <2>1. Handle(r) = "cancel"
    BY <1>4, Zenon DEF Handle
  <2> QED
    BY <1>4, <2>1
<1>5. CASE r.mState = "kRead" /\ ~r.mIsECPipe /\ ~r.mPendingCancelFlag
  <2>1. Handle(r) = "read"
    BY <1>5, Zenon DEF Handle
  <2> QED
    BY <1>5, <2>1
<1>6. CASE r.mState = "kDone"
  <2>1. Handle(r) = IF r.mIsECPipe THEN "ecdone" ELSE "done"
    BY <1>6, Zenon DEF Handle
  <2> QED
    BY <1>6, <2>1
<1> QED
  BY <1>1, <1>2, <1>3, <1>4, <1>5, <1>6

\* The client thread takes a replicator from its queue.
LEMMA DequeueOK ==
    ASSUME NEW r, OK(r), r.fatal = "none", r.pending, r.pc = "idle",
           NEW s, s = [r EXCEPT !.pending = FALSE, !.pc = "handle"]
    PROVE  OK(s) /\ Follows(r, s) /\ r.at # "new"
<1>0. Typed(r) /\ DOMAIN r = Fields /\ Sound(r)
  BY DEF OK, Typed
<1>1. r.mState # "kNone"
  BY <1>0 DEF Sound, Quiet
<1>2. /\ SameId(r, s) /\ SamePlace(r, s) /\ SameBuffer(r, s) /\ SameAnswer(r, s)
      /\ s.at = r.at /\ SameReader(r, s) /\ s.pc = "handle" /\ ~s.pending
      /\ s.mState = r.mState /\ s.mPendingCancelFlag = r.mPendingCancelFlag
      /\ s.mReplicationDoneFlag = r.mReplicationDoneFlag
  BY <1>0 DEF Fields
<1>3. Typed(s)
  BY <1>0, <1>2 DEF Typed
<1>4. r.at # "new"
  BY <1>0, <1>1 DEF Sound, AnswerPart
<1>5. CopyPart(s) /\ Quiet(s) /\ StatePart(s) /\ FatalPart(s)
  <2>1. CopyPart(s)
    BY <1>0, <1>1, <1>2 DEF Sound, CopyPart
  <2>2. Quiet(s)
    BY <1>0, <1>1, <1>2 DEF Sound, Quiet
  <2>3. StatePart(s)
    BY <1>0, <1>1, <1>2 DEF Sound, StatePart
  <2>4. FatalPart(s)
    BY <1>0, <1>1, <1>2 DEF Sound, FatalPart
  <2> QED BY <2>1, <2>2, <2>3, <2>4
<1>r. ReaderPart(s)
  BY <1>0, <1>1, <1>2 DEF Sound, ReaderPart
<1>s. AnswerPart(s)
  BY <1>0, <1>1, <1>2 DEF Sound, AnswerPart
<1>6. ThreadPart(s)
  BY <1>0, <1>1, <1>2 DEF Sound, ThreadPart
<1>7. EarlyData(s) /\ AnswerData(s)
  BY <1>0, <1>2 DEF Sound, DataPart, EarlyData, AnswerData, Whole
<1>8. ReadData(s)
  BY ZenonT(40), <1>0, <1>2, <1>3 DEF Sound, DataPart, ReadData, Typed
<1>9. WriteData(s)
  BY <1>0, <1>2 DEF Sound, DataPart, WriteData
<1> QED
  BY <1>2, <1>3, <1>4, <1>5, <1>r, <1>s, <1>6, <1>7, <1>8, <1>9
     DEF OK, Sound, DataPart, Follows, Uncancelled

\* Handle reads mState, mIsECPipe and mPendingCancelFlag without the mutex.
LEMMA ReadFlagsOK ==
    ASSUME NEW r, OK(r), r.fatal = "none", r.pc = "handle",
           NEW s, s = [r EXCEPT !.pc = Handle(r)]
    PROVE  OK(s) /\ Follows(r, s) /\ r.at # "new"
<1>0. Typed(r) /\ DOMAIN r = Fields /\ Sound(r)
  BY DEF OK, Typed
<1>1. r.mState # "kNone"
  BY <1>0 DEF Sound, Quiet
<1>2. /\ SameId(r, s) /\ SamePlace(r, s) /\ SameBuffer(r, s) /\ SameAnswer(r, s)
      /\ s.at = r.at /\ SameReader(r, s) /\ s.pc = Handle(r) /\ SameState(r, s)
  BY <1>0 DEF Fields
<1>3. Typed(s)
  BY <1>0, <1>2, HandleIs DEF Typed
<1>4. r.at # "new"
  BY <1>0, <1>1 DEF Sound, AnswerPart
<1>5. CopyPart(s) /\ Quiet(s) /\ StatePart(s) /\ FatalPart(s)
  <2>1. CopyPart(s)
    BY <1>0, <1>1, <1>2 DEF Sound, CopyPart
  <2>2. Quiet(s)
    BY <1>0, <1>1, <1>2 DEF Sound, Quiet
  <2>3. StatePart(s)
    BY <1>0, <1>1, <1>2 DEF Sound, StatePart
  <2>4. FatalPart(s)
    BY <1>0, <1>1, <1>2 DEF Sound, FatalPart
  <2> QED BY <2>1, <2>2, <2>3, <2>4
<1>r. ReaderPart(s)
  BY <1>0, <1>1, <1>2 DEF Sound, ReaderPart
<1>s. AnswerPart(s)
  BY <1>0, <1>1, <1>2 DEF Sound, AnswerPart
<1>6. ThreadPart(s)
  BY <1>0, <1>1, <1>2, HandleIs DEF Sound, ThreadPart, ReaderPart
<1>7. EarlyData(s) /\ AnswerData(s)
  BY <1>0, <1>2, HandleIs DEF Sound, DataPart, EarlyData, AnswerData, Whole
<1>8. ReadData(s)
  BY ZenonT(40), <1>0, <1>2, <1>3 DEF Sound, DataPart, ReadData, Typed
<1>9. WriteData(s)
  BY <1>0, <1>2 DEF Sound, DataPart, WriteData
<1> QED
  BY <1>2, <1>3, <1>4, <1>5, <1>r, <1>s, <1>6, <1>7, <1>8, <1>9
     DEF OK, Sound, DataPart, Follows, Uncancelled

\* The Reader fails while no read is in flight.
LEMMA ReaderErrorOK ==
    ASSUME NEW r, OK(r), r.fatal = "none", r.reader = "open", r.pc = "idle",
           NEW s, s = [r EXCEPT !.readStatus = "error"]
    PROVE  OK(s) /\ Follows(r, s) /\ r.at # "new"
<1>0. Typed(r) /\ DOMAIN r = Fields /\ Sound(r)
  BY DEF OK, Typed
<1>2. /\ SameId(r, s) /\ SamePlace(r, s) /\ SameAnswer(r, s) /\ s.at = r.at
      /\ SameReader(r, s) /\ s.pc = r.pc /\ SameState(r, s) /\ s.readStatus = "error"
      /\ s.numBytes = r.numBytes /\ s.dataBuf = r.dataBuf /\ s.writeBytes = r.writeBytes
      /\ s.skipVerify = r.skipVerify
  BY <1>0 DEF Fields
<1>3. Typed(s)
  BY <1>0, <1>2 DEF Typed
<1>4. r.at # "new"
  BY <1>0 DEF Sound, AnswerPart
<1>5. CopyPart(s) /\ Quiet(s) /\ StatePart(s) /\ FatalPart(s)
  <2>1. CopyPart(s)
    BY <1>0, <1>2 DEF Sound, CopyPart
  <2>2. Quiet(s)
    BY <1>0, <1>2 DEF Sound, Quiet
  <2>3. StatePart(s)
    BY <1>0, <1>2 DEF Sound, StatePart
  <2>4. FatalPart(s)
    BY <1>0, <1>2 DEF Sound, FatalPart
  <2> QED BY <2>1, <2>2, <2>3, <2>4
<1>r. ReaderPart(s)
  BY <1>0, <1>2 DEF Sound, ReaderPart
<1>s. AnswerPart(s)
  BY <1>0, <1>2 DEF Sound, AnswerPart
<1>6. ThreadPart(s)
  BY <1>0, <1>2 DEF Sound, ThreadPart
<1>7. EarlyData(s) /\ AnswerData(s)
  BY <1>0, <1>2 DEF Sound, DataPart, EarlyData, AnswerData, Whole
<1>8. ReadData(s)
  BY ZenonT(40), <1>0, <1>2, <1>3 DEF Sound, DataPart, ReadData, Typed
<1>9. WriteData(s)
  BY <1>0, <1>2 DEF Sound, DataPart, WriteData
<1> QED
  BY <1>2, <1>3, <1>4, <1>5, <1>r, <1>s, <1>6, <1>7, <1>8, <1>9
     DEF OK, Sound, DataPart, Follows, Uncancelled

\* The Reader has closed: the destructor runs when the request was done before.
LEMMA ReaderClosedOK ==
    ASSUME NEW r, OK(r), r.fatal = "none", r.mPendingCloseFlag, r.pc = "idle",
           NEW c, c = [r EXCEPT !.reader = "closed", !.mPendingCloseFlag = FALSE],
           NEW s, \/ r.mReplicationDoneFlag /\ s = UnRef(c)
                  \/ ~r.mReplicationDoneFlag /\ s = c
    PROVE  OK(s) /\ Follows(r, s) /\ r.at # "new"
<1>0. Typed(r) /\ DOMAIN r = Fields /\ Sound(r)
  BY DEF OK, Typed
<1>2. /\ SameId(r, c) /\ SamePlace(r, c) /\ SameAnswer(r, c) /\ c.at = r.at
      /\ SameBuffer(r, c) /\ c.pc = r.pc /\ SameState(r, c) /\ c.reader = "closed"
      /\ ~c.mPendingCloseFlag /\ c.mIsECPipe = r.mIsECPipe
      /\ c.mReadInFlightFlag = r.mReadInFlightFlag
  BY <1>0 DEF Fields
<1>3. Typed(c)
  BY <1>0, <1>2 DEF Typed
<1>4. r.at # "new"
  BY <1>0 DEF Sound, AnswerPart, ReaderPart
<1>a. CASE r.mReplicationDoneFlag
  <2>1. r.mState = "kDone"
    BY <1>0, <1>a DEF Sound, Quiet, ThreadPart, Typed
  <2>2. r.at = "done"
    BY <1>0, <2>1 DEF Sound, StatePart
  <2>3. s = UnRef(c)
    BY <1>a
  <2> QED
    BY <1>a, <1>2, <1>3, <1>4, <2>2, <2>3, UnRefOK
<1>b. CASE ~r.mReplicationDoneFlag
  <2>0. s = c
    BY <1>b
  <2>5. CopyPart(c) /\ Quiet(c) /\ StatePart(c) /\ FatalPart(c)
    <3>1. CopyPart(c)
      BY <1>0, <1>2 DEF Sound, CopyPart
    <3>2. Quiet(c)
      BY <1>0, <1>2 DEF Sound, Quiet
    <3>3. StatePart(c)
      BY <1>0, <1>2 DEF Sound, StatePart
    <3>4. FatalPart(c)
      BY <1>0, <1>2 DEF Sound, FatalPart
    <3> QED BY <3>1, <3>2, <3>3, <3>4
  <2>r. ReaderPart(c)
    BY <1>0, <1>2 DEF Sound, ReaderPart
  <2>s. AnswerPart(c)
    BY <1>0, <1>2 DEF Sound, AnswerPart
  <2>6. ThreadPart(c)
    BY <1>0, <1>b, <1>2 DEF Sound, ThreadPart
  <2>7. EarlyData(c) /\ AnswerData(c)
    BY <1>0, <1>2 DEF Sound, DataPart, EarlyData, AnswerData, Whole
  <2>8. ReadData(c)
    BY ZenonT(40), <1>0, <1>2, <1>3 DEF Sound, DataPart, ReadData, Typed
  <2>9. WriteData(c)
    BY <1>0, <1>2 DEF Sound, DataPart, WriteData
  <2> QED
    BY <1>2, <1>3, <1>4, <2>0, <2>5, <2>r, <2>s, <2>6, <2>7, <2>8, <2>9
       DEF OK, Sound, DataPart, Follows, Uncancelled
<1> QED
  BY <1>a, <1>b

-----------------------------------------------------------------------------
(* The completions of the main thread. *)

\* The peer answers with the size of the chunk.
LEMMA StartDoneOK ==
    ASSUME NEW r, OK(r), r.fatal = "none", r.kind = "copy", r.at = "start",
           NEW ok \in BOOLEAN, NEW size \in ChunkSizes, NEW s \in HandleStartDone(r, ok, size)
    PROVE  OK(s) /\ Follows(r, s)
<1>1. Free(r) /\ size \in Int
  BY FreeAt, ReplicatorAssumption
<1>2. ~r.mDone /\ r.mOffset = 0 /\ r.dataBuf = 0 /\ ~r.mIsECPipe
  BY DEF OK, Sound, CopyPart, AnswerPart, DataPart, EarlyData
<1> QED
  BY <1>1, <1>2, HandleStartDoneOK

\* The peer answers a read: short reads and checksum errors included.
LEMMA ReadDoneOK ==
    ASSUME NEW r, OK(r), r.fatal = "none", r.kind = "copy", r.at = "read", NEW s,
           \/ \E e \in {"error", "badcksum"} :
                s \in HandleReadDone([r EXCEPT !.readStatus = e])
           \/ \E n \in Lengths(r.numBytes) : s \in HandleReadDone([r EXCEPT !.dataBuf = n])
    PROVE  OK(s) /\ Follows(r, s)
<1>1. Free(r) /\ Typed(r) /\ DOMAIN r = Fields
  BY FreeAt DEF OK, Typed
<1>2. /\ ~r.mDone /\ ~r.mIsECPipe /\ r.dataBuf = 0
      /\ r.mOffset >= 0 /\ r.mOffset < r.mChunkSize /\ Aligned(r.mOffset)
      /\ r.readStatus # "badcksum"
      /\ r.numBytes = Smaller(r.mChunkSize - r.mOffset, kDefaultReplicationReadSize)
  <2>1. ~r.mDone /\ ~r.mIsECPipe /\ ~r.mPendingCancelFlag /\ EarlyData(r) /\ ReadData(r)
    BY DEF OK, Sound, CopyPart, AnswerPart, DataPart
  <2> QED
    BY <1>1, <2>1 DEF EarlyData, ReadData, Typed
<1>3. r.mOffset \in Nat /\ r.mChunkSize \in Nat /\ r.numBytes \in Int
  BY <1>1, <1>2 DEF Typed
<1>4. ASSUME NEW e \in {"error", "badcksum"}, s \in HandleReadDone([r EXCEPT !.readStatus = e])
      PROVE  OK(s) /\ Follows(r, s)
  <2>1. PICK q : q = [r EXCEPT !.readStatus = e]
    OBVIOUS
  <2>2. /\ SameId(r, q) /\ SamePlace(r, q) /\ SameAnswer(r, q) /\ q.at = r.at
        /\ SameReader(r, q) /\ q.pc = r.pc /\ SameState(r, q) /\ q.readStatus = e
        /\ q.numBytes = r.numBytes /\ q.dataBuf = r.dataBuf /\ q.writeBytes = r.writeBytes
        /\ q.skipVerify = r.skipVerify
    BY <1>1, <2>1 DEF Fields
  <2>3. Typed(q)
    BY <1>1, <2>2 DEF Typed
  <2>4. Free(q)
    BY <1>1, <2>2, <2>3 DEF Free
  <2>5. Arrived(q)
    BY <1>2, <1>3, <2>2 DEF Arrived
  <2>6. OK(s) /\ Follows(q, s)
    BY <1>2, <1>4, <2>1, <2>2, <2>4, <2>5, HandleReadDoneOK
  <2> QED
    BY <2>2, <2>6 DEF Follows
<1>5. ASSUME NEW n \in Lengths(r.numBytes), s \in HandleReadDone([r EXCEPT !.dataBuf = n])
      PROVE  OK(s) /\ Follows(r, s)
  <2>0. n \in Int /\ n <= r.numBytes /\ n >= 0
    <3>1. kDefaultReplicationReadSize \in Nat
      BY ReplicatorAssumption
    <3>2. r.numBytes >= 0
      BY <1>2, <1>3, <3>1 DEF Smaller
    <3> QED
      BY <1>3, <3>2, LengthsOK
  <2>1. PICK q : q = [r EXCEPT !.dataBuf = n]
    OBVIOUS
  <2>2. /\ SameId(r, q) /\ SamePlace(r, q) /\ SameAnswer(r, q) /\ q.at = r.at
        /\ SameReader(r, q) /\ q.pc = r.pc /\ SameState(r, q) /\ q.readStatus = r.readStatus
        /\ q.numBytes = r.numBytes /\ q.dataBuf = n /\ q.writeBytes = r.writeBytes
        /\ q.skipVerify = r.skipVerify
    BY <1>1, <2>1 DEF Fields
  <2>3. Typed(q)
    BY <1>1, <2>0, <2>2 DEF Typed
  <2>4. Free(q)
    BY <1>1, <2>2, <2>3 DEF Free
  <2>5. n >= r.numBytes \/ r.mOffset + n >= r.mChunkSize
          => Aligned(n) \/ r.mOffset + n = r.mChunkSize
    <3>1. /\ kDefaultReplicationReadSize \in Nat
          /\ Aligned(kDefaultReplicationReadSize)
      BY ReplicatorAssumption DEF Aligned
    <3>2. r.numBytes <= r.mChunkSize - r.mOffset
      BY <1>2, <1>3, <3>1 DEF Smaller
    <3>3. \/ r.numBytes = r.mChunkSize - r.mOffset
          \/ r.numBytes = kDefaultReplicationReadSize
      BY <1>2 DEF Smaller
    <3>4. SUFFICES ASSUME n >= r.numBytes \/ r.mOffset + n >= r.mChunkSize
                   PROVE  Aligned(n) \/ r.mOffset + n = r.mChunkSize
      OBVIOUS
    <3>5. n = r.numBytes
      BY <1>3, <2>0, <3>2, <3>4
    <3> QED
      BY <1>3, <3>1, <3>3, <3>5
  <2>6. Arrived(q)
    BY <1>2, <1>3, <2>0, <2>2, <2>5 DEF Arrived
  <2>7. OK(s) /\ Follows(q, s)
    BY <1>2, <1>5, <2>1, <2>2, <2>4, <2>6, HandleReadDoneOK
  <2> QED
    BY <2>2, <2>7 DEF Follows
<1> QED
  BY <1>4, <1>5

\* ChangeChunkVers has completed.
LEMMA VersionDoneOK ==
    ASSUME NEW r, OK(r), r.fatal = "none", r.at = "vers", NEW ok \in BOOLEAN,
           NEW s, s = HandleReplicationDone(r, ok)
    PROVE  OK(s) /\ Follows(r, s)
<1>1. Free(r) /\ Whole(r)
  BY FreeAt DEF OK, Sound, DataPart, AnswerData
<1>2. OK(s) /\ s.at = "done" /\ s.chunk = r.chunk
  BY <1>1, HandleReplicationDoneOK
<1> QED
  BY <1>2 DEF Follows, Uncancelled

-----------------------------------------------------------------------------
(* The table of replications in flight. *)

-----------------------------------------------------------------------------
(***************************************************************************)
(* The table of the requests in flight, and the actions.                   *)
(***************************************************************************)
\* Taking the answered requests out of the table keeps it right.
LEMMA UnlistedOK ==
    ASSUME NEW reps, NEW list, Listed(reps, list),
           \A o \in Ops : reps[o].chunk \in Chunks,
           NEW l, l = Unlisted(list, reps)
    PROVE  /\ DOMAIN l = Chunks /\ Listed(reps, l)
           /\ \A c \in Chunks : l[c] # None => reps[l[c]].at # "done"
<1>1. /\ DOMAIN l = Chunks
      /\ \A c \in Chunks : l[c] = IF list[c] # None /\ reps[list[c]].at = "done"
                                  THEN None ELSE list[c]
  BY DEF Unlisted
<1>2. \A c \in Chunks : l[c] # None => l[c] = list[c] /\ reps[l[c]].at # "done"
  BY <1>1
<1>3. \A o \in Ops : Uncancelled(reps[o]) => l[reps[o].chunk] = o
  <2>1. SUFFICES ASSUME NEW o \in Ops, Uncancelled(reps[o]) PROVE l[reps[o].chunk] = o
    OBVIOUS
  <2>2. list[reps[o].chunk] = o /\ reps[o].at # "done" /\ reps[o].chunk \in Chunks
    BY <2>1 DEF Listed, Uncancelled
  <2> QED
    BY <1>1, <2>2
<1> QED
  BY <1>1, <1>2, <1>3 DEF Listed

\* A step that leaves sound replicators and a right table keeps the invariant.
LEMMA BecomesInv ==
    ASSUME NEW reps, NEW list, Becomes(reps, list), DOMAIN reps = Ops,
           \A o \in Ops : OK(reps[o]), Listed(reps, list),
           \A o, p \in Ops : o < p /\ reps[p].at # "new" => reps[o].at # "new"
    PROVE  RepInv'
<1>1. rep' = reps /\ sInFlightReplications' = Unlisted(list, reps)
  BY DEF Becomes
<1>2. \A o \in Ops : reps[o].chunk \in Chunks
  BY DEF OK, Typed
<1>3. PICK l : l = Unlisted(list, reps)
  OBVIOUS
<1>4. /\ DOMAIN l = Chunks /\ Listed(reps, l)
      /\ \A c \in Chunks : l[c] # None => reps[l[c]].at # "done"
  BY <1>2, <1>3, UnlistedOK
<1>5. RepsSound'
  BY <1>1 DEF RepsSound, OK
<1>6. ListInv'
  BY <1>1, <1>3, <1>4 DEF ListInv
<1>7. InOrder'
  BY <1>1 DEF InOrder
<1> QED
  BY <1>5, <1>6, <1>7 DEF RepInv

\* A step of one replicator that has been run.
LEMMA StepInv ==
    ASSUME RepInv, NEW o \in Ops, rep[o].at # "new", NEW s, OK(s), Follows(rep[o], s),
           Step(o, s)
    PROVE  RepInv'
<1>1. PICK reps : reps = [rep EXCEPT ![o] = s]
  OBVIOUS
<1>2. /\ DOMAIN reps = Ops /\ reps[o] = s /\ \A p \in Ops : p # o => reps[p] = rep[p]
  BY <1>1 DEF RepInv, RepsSound
<1>3. Becomes(reps, sInFlightReplications)
  BY <1>1 DEF Step
<1>4. \A p \in Ops : OK(reps[p])
  BY <1>2 DEF RepInv, RepsSound, OK
<1>5. /\ s.chunk = rep[o].chunk /\ s.at # "new"
      /\ Uncancelled(s) => Uncancelled(rep[o])
      /\ rep[o].at = "done" => s.at = "done"
  BY DEF Follows, Uncancelled
<1>6. Listed(rep, sInFlightReplications)
  BY DEF RepInv, ListInv
<1>7. \A p \in Ops : /\ reps[p].chunk = rep[p].chunk
                     /\ reps[p].at = "new" <=> rep[p].at = "new"
                     /\ rep[p].at = "done" => reps[p].at = "done"
                     /\ Uncancelled(reps[p]) => Uncancelled(rep[p])
  BY <1>2, <1>5
<1>8. Listed(reps, sInFlightReplications)
  BY <1>6, <1>7 DEF Listed
<1>9. \A p, q \in Ops : p < q /\ reps[q].at # "new" => reps[p].at # "new"
  BY <1>7 DEF RepInv, InOrder
<1> QED
  BY <1>2, <1>3, <1>4, <1>8, <1>9, BecomesInv

\* Replicator::Run refuses a request.
LEMMA RefuseInv ==
    ASSUME RepInv, ~Died, NEW o \in Ops, Refuse(o)
    PROVE  RepInv'
<1>0. OK(rep[o]) /\ rep[o].at = "new" /\ \A p \in Ops : p < o => rep[p].at # "new"
  BY DEF RepInv, RepsSound, OK, Refuse
<1>1. PICK r : r = [rep[o] EXCEPT !.status = "failed"]
  OBVIOUS
<1>2. Typed(r) /\ ~r.version /\ r.chunk = rep[o].chunk
  <2>1. Typed(rep[o]) /\ ~rep[o].version /\ DOMAIN rep[o] = Fields
    BY <1>0 DEF OK, Sound, AnswerPart, Typed
  <2>2. /\ DOMAIN r = Fields /\ r.kind = rep[o].kind /\ r.chunk = rep[o].chunk
        /\ SamePlace(rep[o], r) /\ SameBuffer(rep[o], r) /\ SameState(rep[o], r)
        /\ SameReader(rep[o], r) /\ r.pc = rep[o].pc /\ r.fatal = rep[o].fatal
        /\ r.version = rep[o].version
    BY <1>1, <2>1 DEF Fields
  <2> QED
    BY <2>1, <2>2 DEF Typed
<1>3. PICK s : s = Deleted(r)
  OBVIOUS
<1>4. OK(s) /\ s.at = "done" /\ s.chunk = rep[o].chunk
  BY <1>2, <1>3, DeletedOK
<1>5. PICK reps : reps = [rep EXCEPT ![o] = s]
  OBVIOUS
<1>6. /\ DOMAIN reps = Ops /\ reps[o] = s /\ \A p \in Ops : p # o => reps[p] = rep[p]
  BY <1>5 DEF RepInv, RepsSound
<1>7. Becomes(reps, sInFlightReplications)
  BY <1>1, <1>3, <1>5 DEF Refuse, Step
<1>8. \A p \in Ops : OK(reps[p])
  BY <1>4, <1>6 DEF RepInv, RepsSound, OK
<1>9. Listed(rep, sInFlightReplications)
  BY DEF RepInv, ListInv
<1>10. \A p \in Ops : /\ reps[p].chunk = rep[p].chunk
                      /\ rep[p].at # "new" => reps[p].at # "new"
                      /\ rep[p].at \in {"new", "done"} => reps[p].at \in {"new", "done"}
                      /\ Uncancelled(reps[p]) => Uncancelled(rep[p])
  BY <1>0, <1>4, <1>6 DEF Uncancelled
<1>11. Listed(reps, sInFlightReplications)
  BY <1>9, <1>10 DEF Listed
<1>12. \A p, q \in Ops : p < q /\ reps[q].at # "new" => reps[p].at # "new"
  <2>1. SUFFICES ASSUME NEW p \in Ops, NEW q \in Ops, p < q, reps[q].at # "new"
                 PROVE  reps[p].at # "new"
    OBVIOUS
  <2>2. CASE q = o
    BY <1>0, <1>10, <2>1, <2>2
  <2>3. CASE q # o
    BY <1>6, <1>10, <2>1, <2>3 DEF RepInv, InOrder
  <2> QED
    BY <2>2, <2>3
<1> QED
  BY <1>6, <1>7, <1>8, <1>11, <1>12, BecomesInv

\* ReplicatorImpl::Run: refused for its size, started, or waiting for buffers.
LEMMA RunOK ==
    ASSUME NEW r, OK(r), r.fatal = "none", r.at = "new",
           NEW s \in {HandleReplicationDone(r, FALSE), Start(r), [r EXCEPT !.at = "buffers"]}
    PROVE  OK(s) /\ s.chunk = r.chunk /\ s.at # "new"
<1>1. Free(r) /\ Sound(r) /\ Typed(r) /\ DOMAIN r = Fields
  BY FreeAt DEF OK, Typed
<1>2. CASE s = HandleReplicationDone(r, FALSE)
  BY <1>1, <1>2, HandleReplicationDoneOK
<1>3. CASE s = Start(r)
  BY <1>1, <1>3, StartOK DEF Follows
<1>4. CASE s = [r EXCEPT !.at = "buffers"]
  <2>1. /\ SameId(r, s) /\ SamePlace(r, s) /\ SameAnswer(r, s) /\ s.at = "buffers"
        /\ SameReader(r, s) /\ s.pc = r.pc /\ SameState(r, s) /\ SameBuffer(r, s)
    BY <1>1, <1>4 DEF Fields
  <2>2. Typed(s)
    BY <1>1, <2>1 DEF Typed
  <2>3. r.mState = "kNone"
    BY <1>1 DEF Free
  <2>4. CopyPart(s) /\ Quiet(s) /\ StatePart(s) /\ FatalPart(s)
    BY <1>1, <2>1, <2>3 DEF Sound, Free, CopyPart, Quiet, StatePart, FatalPart
  <2>5. ThreadPart(s) /\ ReaderPart(s)
    BY <1>1, <2>1, <2>3 DEF Sound, ThreadPart, ReaderPart
  <2>6. AnswerPart(s)
    BY <1>1, <2>1 DEF Sound, AnswerPart
  <2>7. DataPart(s)
    BY <1>1, <2>1 DEF Sound, Free, DataPart, EarlyData, ReadData, WriteData,
         AnswerData, Whole
  <2> QED
    BY <2>1, <2>2, <2>4, <2>5, <2>6, <2>7 DEF OK, Sound
<1> QED
  BY <1>2, <1>3, <1>4

\* Replicator::Run cancels the request for the chunk that is in flight and
\* replaces it in the table.
LEMMA RunInv ==
    ASSUME RepInv, ~Died, NEW o \in Ops, Run(o)
    PROVE  RepInv'
<1> DEFINE k == rep[o].chunk
           other == sInFlightReplications[k]
<1>0. /\ \A p \in Ops : OK(rep[p]) /\ rep[p].fatal = "none" /\ rep[p].chunk \in Chunks
      /\ rep[o].at = "new"
      /\ \A p \in Ops : p < o => rep[p].at # "new"
      /\ \A p \in Ops : o < p => rep[p].at = "new"
      /\ DOMAIN rep = Ops /\ DOMAIN sInFlightReplications = Chunks
      /\ Ops \subseteq Nat \ {None}
  BY ReplicatorAssumption DEF RepInv, RepsSound, ListInv, InOrder, OK, Typed,
       Died, Run
<1>1. /\ k \in Chunks
      /\ other # None => /\ other \in Ops /\ rep[other].chunk = k
                         /\ rep[other].at \notin {"new", "done"} /\ other # o
  BY <1>0 DEF RepInv, ListInv, Listed
<1>2. PICK mid : mid = IF other = None THEN rep ELSE [rep EXCEPT ![other] = Cancel(@)]
  OBVIOUS
<1>3. PICK s \in {HandleReplicationDone(rep[o], FALSE), Start(rep[o]),
                  [rep[o] EXCEPT !.at = "buffers"]} :
         Becomes([mid EXCEPT ![o] = s], [sInFlightReplications EXCEPT ![k] = o])
  BY <1>2 DEF Run
<1>4. PICK reps : reps = [mid EXCEPT ![o] = s]
  OBVIOUS
<1>5. PICK list : list = [sInFlightReplications EXCEPT ![k] = o]
  OBVIOUS
<1>6. Becomes(reps, list)
  BY <1>3, <1>4, <1>5
<1>7. OK(s) /\ s.chunk = k /\ s.at # "new"
  BY <1>0, <1>3, RunOK
<1>8. /\ DOMAIN mid = Ops
      /\ \A p \in Ops : (other = None \/ p # other) => mid[p] = rep[p]
      /\ other # None => mid[other] = Cancel(rep[other])
  BY <1>0, <1>1, <1>2
<1>9. /\ DOMAIN reps = Ops /\ reps[o] = s
      /\ \A p \in Ops : p # o => reps[p] = mid[p]
  BY <1>4, <1>8
<1>10. other # None => /\ OK(reps[other]) /\ reps[other].chunk = k
                       /\ reps[other].at # "new" /\ ~Uncancelled(reps[other])
  <2>1. SUFFICES ASSUME other # None
                 PROVE  /\ OK(reps[other]) /\ reps[other].chunk = k
                        /\ reps[other].at # "new" /\ ~Uncancelled(reps[other])
    OBVIOUS
  <2>2. reps[other] = Cancel(rep[other])
    BY <1>1, <1>8, <1>9, <2>1
  <2>3. OK(reps[other]) /\ Follows(rep[other], reps[other]) /\ ~Uncancelled(reps[other])
    BY <1>0, <1>1, <2>1, <2>2, CancelOK
  <2> QED
    BY <1>1, <2>1, <2>3 DEF Follows
<1>11. \A p \in Ops : p # o /\ (other = None \/ p # other) => reps[p] = rep[p]
  BY <1>8, <1>9
<1>12. /\ list[k] = o
       /\ \A c \in Chunks : c # k => list[c] = sInFlightReplications[c]
  BY <1>0, <1>1, <1>5
<1> HIDE DEF other, k
<1>13. \A p \in Ops : OK(reps[p])
  BY <1>0, <1>7, <1>9, <1>10, <1>11
<1>14. \A p \in Ops : /\ reps[p].chunk = rep[p].chunk
                      /\ rep[p].at # "new" => reps[p].at # "new"
  BY <1>0, <1>1, <1>7, <1>9, <1>10, <1>11 DEF k
<1>15. Listed(rep, sInFlightReplications)
  BY DEF RepInv, ListInv
<1>16. Listed(reps, list)
  <2>1. ASSUME NEW c \in Chunks, list[c] # None
        PROVE  /\ list[c] \in Ops /\ reps[list[c]].chunk = c /\ reps[list[c]].at # "new"
               /\ \A p \in Ops : p > list[c] /\ reps[p].chunk = c
                                   => reps[p].at \in {"new", "done"}
    <3>1. CASE c = k
      <4>1. list[c] = o
        BY <1>12, <3>1
      <4>2. ASSUME NEW p \in Ops, p > o PROVE reps[p].at = "new"
        <5>1. rep[p].at = "new" /\ p # o
          BY <1>0, <4>2
        <5>2. other = None \/ p # other
          BY <1>1, <5>1
        <5> QED
          BY <1>11, <5>1, <5>2
      <4> QED
        BY <1>7, <1>9, <3>1, <4>1, <4>2
    <3>2. CASE c # k
      <4>1. list[c] = sInFlightReplications[c]
        BY <1>12, <3>2
      <4>2. /\ list[c] \in Ops /\ rep[list[c]].chunk = c /\ rep[list[c]].at # "new"
            /\ \A p \in Ops : p > list[c] /\ rep[p].chunk = c
                                => rep[p].at \in {"new", "done"}
        BY <1>15, <2>1, <4>1 DEF Listed
      <4>3. ASSUME NEW p \in Ops, p > list[c], reps[p].chunk = c
            PROVE  reps[p].at \in {"new", "done"}
        <5>1. rep[p].chunk = c
          BY <1>14, <4>3
        <5>2. p # o /\ (other = None \/ p # other)
          BY <1>1, <3>2, <5>1 DEF k
        <5> QED
          BY <1>11, <4>2, <4>3, <5>1, <5>2
      <4> QED
        BY <1>14, <4>2, <4>3
    <3> QED
      BY <3>1, <3>2
  <2>2. ASSUME NEW p \in Ops, Uncancelled(reps[p]) PROVE list[reps[p].chunk] = p
    <3>1. CASE p = o
      BY <1>7, <1>9, <1>12, <3>1
    <3>2. CASE p # o
      <4>1. other = None \/ p # other
        BY <1>10, <2>2
      <4>2. reps[p] = rep[p]
        BY <1>11, <3>2, <4>1
      <4>3. sInFlightReplications[rep[p].chunk] = p
        BY <1>15, <2>2, <4>2 DEF Listed
      <4>4. p # None /\ rep[p].chunk \in Chunks
        BY <1>0
      <4>5. rep[p].chunk # k
        BY <4>1, <4>3, <4>4 DEF other
      <4> QED
        BY <1>12, <4>2, <4>3, <4>4, <4>5
    <3> QED
      BY <3>1, <3>2
  <2> QED
    BY <2>1, <2>2 DEF Listed
<1>17. \A p, q \in Ops : p < q /\ reps[q].at # "new" => reps[p].at # "new"
  <2>1. SUFFICES ASSUME NEW p \in Ops, NEW q \in Ops, p < q, reps[q].at # "new"
                 PROVE  reps[p].at # "new"
    OBVIOUS
  <2>2. CASE q = o
    BY <1>0, <1>14, <2>1, <2>2
  <2>3. CASE q # o
    <3>1. CASE rep[q].at # "new"
      BY <1>14, <2>1, <3>1 DEF RepInv, InOrder
    <3>2. CASE rep[q].at = "new"
      <4>1. other = None \/ q # other
        BY <1>1, <3>2
      <4> QED
        BY <1>11, <2>1, <2>3, <3>2, <4>1
    <3> QED
      BY <3>1, <3>2
  <2> QED
    BY <2>2, <2>3
<1> QED
  BY <1>6, <1>9, <1>13, <1>16, <1>17, BecomesInv

\* CancelChunkReplication and CancelAll: some replicators of the table are
\* cancelled and taken out of it.
LEMMA CancelledInv ==
    ASSUME RepInv, ~Died, NEW C \in SUBSET Chunks, NEW reps, NEW list,
           Becomes(reps, list), DOMAIN reps = Ops,
           \A c \in Chunks : list[c] = IF c \in C THEN None ELSE sInFlightReplications[c],
           \A p \in Ops : reps[p] = IF \E c \in C : sInFlightReplications[c] = p
                                    THEN Cancel(rep[p]) ELSE rep[p]
    PROVE  RepInv'
<1>0. /\ \A p \in Ops : OK(rep[p]) /\ rep[p].fatal = "none" /\ rep[p].chunk \in Chunks
      /\ Ops \subseteq Nat \ {None}
      /\ Listed(rep, sInFlightReplications)
  BY ReplicatorAssumption DEF RepInv, RepsSound, ListInv, OK, Typed, Died
<1>1. ASSUME NEW p \in Ops, NEW c \in C, sInFlightReplications[c] = p
      PROVE  OK(reps[p]) /\ Follows(rep[p], reps[p]) /\ ~Uncancelled(reps[p])
             /\ rep[p].at # "new"
  <2>1. p # None /\ c \in Chunks
    BY <1>0
  <2>2. rep[p].at \notin {"new", "done"}
    BY <1>1, <2>1 DEF RepInv, ListInv, Listed
  <2>3. reps[p] = Cancel(rep[p])
    BY <1>1
  <2> QED
    BY <1>0, <2>2, <2>3, CancelOK
<1>2. ASSUME NEW p \in Ops, ~\E c \in C : sInFlightReplications[c] = p
      PROVE  reps[p] = rep[p]
  BY <1>2
<1>3. \A p \in Ops : OK(reps[p])
  BY <1>0, <1>1, <1>2
<1>4. \A p \in Ops : /\ reps[p].chunk = rep[p].chunk
                     /\ rep[p].at = "new" <=> reps[p].at = "new"
                     /\ rep[p].at = "done" => reps[p].at = "done"
                     /\ Uncancelled(reps[p]) => reps[p] = rep[p]
  <2>1. SUFFICES ASSUME NEW p \in Ops
                 PROVE  /\ reps[p].chunk = rep[p].chunk
                        /\ rep[p].at = "new" <=> reps[p].at = "new"
                        /\ rep[p].at = "done" => reps[p].at = "done"
                        /\ Uncancelled(reps[p]) => reps[p] = rep[p]
    OBVIOUS
  <2>2. CASE \E c \in C : sInFlightReplications[c] = p
    BY <1>1, <2>2 DEF Follows
  <2>3. CASE ~\E c \in C : sInFlightReplications[c] = p
    BY <1>2, <2>3
  <2> QED
    BY <2>2, <2>3
<1>5. Listed(reps, list)
  <2>1. ASSUME NEW c \in Chunks, list[c] # None
        PROVE  /\ list[c] \in Ops /\ reps[list[c]].chunk = c /\ reps[list[c]].at # "new"
               /\ \A p \in Ops : p > list[c] /\ reps[p].chunk = c
                                   => reps[p].at \in {"new", "done"}
    <3>1. list[c] = sInFlightReplications[c]
      BY <2>1
    <3>2. /\ list[c] \in Ops /\ rep[list[c]].chunk = c /\ rep[list[c]].at # "new"
          /\ \A p \in Ops : p > list[c] /\ rep[p].chunk = c
                              => rep[p].at \in {"new", "done"}
      BY <1>0, <2>1, <3>1 DEF Listed
    <3> QED
      BY <1>4, <3>2
  <2>2. ASSUME NEW p \in Ops, Uncancelled(reps[p]) PROVE list[reps[p].chunk] = p
    <3>1. reps[p] = rep[p]
      BY <1>4, <2>2
    <3>2. sInFlightReplications[rep[p].chunk] = p /\ rep[p].chunk \in Chunks
      BY <1>0, <2>2, <3>1 DEF Listed
    <3>3. rep[p].chunk \notin C
      BY <1>1, <2>2, <3>2
    <3> QED
      BY <3>1, <3>2, <3>3
  <2> QED
    BY <2>1, <2>2 DEF Listed
<1>6. \A p, q \in Ops : p < q /\ reps[q].at # "new" => reps[p].at # "new"
  BY <1>4 DEF RepInv, InOrder
<1> QED
  BY <1>3, <1>5, <1>6, BecomesInv

\* No request has been run.
LEMMA InitInv ==
    ASSUME Init
    PROVE  RepInv
<1>1. /\ DOMAIN rep = Ops /\ DOMAIN sInFlightReplications = Chunks
      /\ \A c \in Chunks : sInFlightReplications[c] = None
  BY DEF Init
<1>2. \A o \in Ops : \E c \in Chunks, k \in {"copy", "rs"} : rep[o] = NewReplicator(c, k)
  <2>1. rep \in [Ops -> {NewReplicator(c, k) : c \in Chunks, k \in {"copy", "rs"}}]
    BY DEF Init
  <2> QED
    BY <2>1
<1>3. \A o \in Ops : OK(rep[o]) /\ rep[o].at = "new"
  BY <1>2, NewOK
<1>4. RepsSound
  BY <1>1, <1>3 DEF RepsSound, OK
<1>5. ListInv
  BY <1>1, <1>3 DEF ListInv, Listed, Uncancelled
<1>6. InOrder
  BY <1>3 DEF InOrder
<1> QED
  BY <1>4, <1>5, <1>6 DEF RepInv

\* Every step keeps the invariant: one case per action.
LEMMA NextInv ==
    ASSUME RepInv, Next
    PROVE  RepInv'
<1>1. /\ \A o \in Ops : OK(rep[o]) /\ rep[o].fatal = "none"
      /\ ~Died
  BY DEF RepInv, RepsSound, OK, Died, Next
<1>2. ASSUME NEW o \in Ops, Refuse(o) PROVE RepInv'
  BY <1>1, <1>2, RefuseInv
<1>3. ASSUME NEW o \in Ops, Run(o) PROVE RepInv'
  BY <1>1, <1>3, RunInv
<1>4. ASSUME NEW o \in Ops, Granted(o) PROVE RepInv'
  <2>1. rep[o].at = "buffers" /\ Step(o, Start(rep[o]))
    BY <1>4 DEF Granted
  <2>2. Free(rep[o]) /\ Sound(rep[o])
    BY <1>1, <2>1, FreeAt DEF OK
  <2>3. OK(Start(rep[o])) /\ Follows(rep[o], Start(rep[o]))
    BY <2>1, <2>2, StartOK
  <2> QED
    BY <2>1, <2>3, StepInv
<1>5. ASSUME NEW o \in Ops, StartDone(o) PROVE RepInv'
  <2>1. rep[o].kind = "copy" /\ rep[o].at = "start"
    BY <1>5 DEF StartDone
  <2>2. PICK ok \in BOOLEAN, size \in ChunkSizes :
          \E s \in HandleStartDone(rep[o], ok, size) : Step(o, s)
    BY <1>5 DEF StartDone
  <2>3. PICK s \in HandleStartDone(rep[o], ok, size) : Step(o, s)
    BY <2>2
  <2>4. OK(s) /\ Follows(rep[o], s)
    BY <1>1, <2>1, <2>2, <2>3, StartDoneOK
  <2> QED
    BY <2>1, <2>3, <2>4, StepInv
<1>6. ASSUME NEW o \in Ops, ReadDone(o) PROVE RepInv'
  <2>1. rep[o].kind = "copy" /\ rep[o].at = "read"
    BY <1>6 DEF ReadDone
  <2>2. PICK s : /\ Step(o, s)
                 /\ \/ \E e \in {"error", "badcksum"} :
                         s \in HandleReadDone([rep[o] EXCEPT !.readStatus = e])
                    \/ \E n \in Lengths(rep[o].numBytes) :
                         s \in HandleReadDone([rep[o] EXCEPT !.dataBuf = n])
    BY <1>6 DEF ReadDone
  <2>3. OK(s) /\ Follows(rep[o], s)
    BY <1>1, <2>1, <2>2, ReadDoneOK
  <2> QED
    BY <2>1, <2>2, <2>3, StepInv
<1>7. ASSUME NEW o \in Ops, WriteDone(o) PROVE RepInv'
  <2>1. rep[o].at = "write"
    BY <1>7 DEF WriteDone
  <2>2. PICK ok \in BOOLEAN : \E s \in HandleWriteDone(rep[o], ok) : Step(o, s)
    BY <1>7 DEF WriteDone
  <2>3. PICK s \in HandleWriteDone(rep[o], ok) : Step(o, s)
    BY <2>2
  <2>4. OK(s) /\ Follows(rep[o], s)
    BY <1>1, <2>1, <2>2, <2>3, HandleWriteDoneOK
  <2> QED
    BY <2>1, <2>3, <2>4, StepInv
<1>8. ASSUME NEW o \in Ops, VersionDone(o) PROVE RepInv'
  <2>1. rep[o].at = "vers"
    BY <1>8 DEF VersionDone
  <2>2. PICK ok \in BOOLEAN : Step(o, HandleReplicationDone(rep[o], ok))
    BY <1>8 DEF VersionDone
  <2>3. PICK s : s = HandleReplicationDone(rep[o], ok)
    OBVIOUS
  <2>4. OK(s) /\ Follows(rep[o], s)
    BY <1>1, <2>1, <2>3, VersionDoneOK
  <2> QED
    BY <2>1, <2>2, <2>3, <2>4, StepInv
<1>9. ASSUME NEW o \in Ops, Dequeue(o) PROVE RepInv'
  <2>1. PICK s : s = [rep[o] EXCEPT !.pending = FALSE, !.pc = "handle"]
    OBVIOUS
  <2>2. rep[o].pending /\ rep[o].pc = "idle" /\ Step(o, s)
    BY <1>9, <2>1 DEF Dequeue, ThreadIdle
  <2>3. OK(s) /\ Follows(rep[o], s) /\ rep[o].at # "new"
    BY <1>1, <2>1, <2>2, DequeueOK
  <2> QED
    BY <2>2, <2>3, StepInv
<1>10. ASSUME NEW o \in Ops, ReadFlags(o) PROVE RepInv'
  <2>1. PICK s : s = [rep[o] EXCEPT !.pc = Handle(rep[o])]
    OBVIOUS
  <2>2. rep[o].pc = "handle" /\ Step(o, s)
    BY <1>10, <2>1 DEF ReadFlags
  <2>3. OK(s) /\ Follows(rep[o], s) /\ rep[o].at # "new"
    BY <1>1, <2>1, <2>2, ReadFlagsOK
  <2> QED
    BY <2>2, <2>3, StepInv
<1>11. ASSUME NEW o \in Ops, ClientStep(o) PROVE RepInv'
  <2>1. rep[o].pc \notin {"idle", "handle", "stuck"}
    BY <1>11 DEF ClientStep
  <2>2. PICK s \in Handler(rep[o]) : Step(o, s)
    BY <1>11 DEF ClientStep
  <2>3. OK(s) /\ Follows(rep[o], s)
    BY <1>1, <2>1, HandlerOK
  <2>4. rep[o].at # "new"
    BY <1>1, <2>1 DEF OK, Sound, AnswerPart, Quiet
  <2> QED
    BY <2>2, <2>3, <2>4, StepInv
<1>12. ASSUME NEW o \in Ops, ReaderDone(o) PROVE RepInv'
  <2>1. rep[o].mReadInFlightFlag /\ rep[o].pc = "idle" /\ rep[o].reader = "open"
    BY <1>12 DEF ReaderDone, ThreadFree, ThreadIdle
  <2>2. rep[o].at # "new"
    BY <1>1, <2>1 DEF OK, Sound, AnswerPart, Quiet
  <2>3. CASE \E n \in Lengths(GetReadSize) : \E s \in Done(rep[o], n) : Step(o, s)
    <3>1. PICK n \in Lengths(GetReadSize) : \E s \in Done(rep[o], n) : Step(o, s)
      BY <2>3
    <3>2. PICK s \in Done(rep[o], n) : Step(o, s)
      BY <3>1
    <3>3. OK(s) /\ Follows(rep[o], s)
      BY <1>1, <2>1, <3>1, <3>2, DoneOK
    <3> QED
      BY <2>2, <3>2, <3>3, StepInv
  <2>4. CASE \E s \in DoneError(rep[o]) : Step(o, s)
    <3>1. PICK s \in DoneError(rep[o]) : Step(o, s)
      BY <2>4
    <3>2. OK(s) /\ Follows(rep[o], s)
      BY <1>1, <2>1, DoneErrorOK
    <3> QED
      BY <2>2, <3>1, <3>2, StepInv
  <2> QED
    BY <1>12, <2>3, <2>4 DEF ReaderDone
<1>13. ASSUME NEW o \in Ops, ReaderError(o) PROVE RepInv'
  <2>1. PICK s : s = [rep[o] EXCEPT !.readStatus = "error"]
    OBVIOUS
  <2>2. rep[o].reader = "open" /\ rep[o].pc = "idle" /\ Step(o, s)
    BY <1>13, <2>1 DEF ReaderError, ThreadFree, ThreadIdle
  <2>3. OK(s) /\ Follows(rep[o], s) /\ rep[o].at # "new"
    BY <1>1, <2>1, <2>2, ReaderErrorOK
  <2> QED
    BY <2>2, <2>3, StepInv
<1>14. ASSUME NEW o \in Ops, ReaderClosed(o) PROVE RepInv'
  <2>1. PICK c : c = [rep[o] EXCEPT !.reader = "closed", !.mPendingCloseFlag = FALSE]
    OBVIOUS
  <2>2. c.mReplicationDoneFlag = rep[o].mReplicationDoneFlag
    <3>1. DOMAIN rep[o] = Fields
      BY <1>1 DEF OK, Typed
    <3> QED
      BY <2>1, <3>1 DEF Fields
  <2>3. PICK s : s = IF c.mReplicationDoneFlag THEN UnRef(c) ELSE c
    OBVIOUS
  <2>4. rep[o].mPendingCloseFlag /\ rep[o].pc = "idle" /\ Step(o, s)
    BY <1>14, <2>1, <2>3 DEF ReaderClosed, ThreadFree, ThreadIdle
  <2>5. \/ rep[o].mReplicationDoneFlag /\ s = UnRef(c)
        \/ ~rep[o].mReplicationDoneFlag /\ s = c
    BY <2>2, <2>3
  <2>6. OK(s) /\ Follows(rep[o], s) /\ rep[o].at # "new"
    BY <1>1, <2>1, <2>4, <2>5, ReaderClosedOK
  <2> QED
    BY <2>4, <2>6, StepInv
<1>15. ASSUME NEW c \in Chunks, CancelChunkReplication(c) PROVE RepInv'
  <2>1. PICK o : o = sInFlightReplications[c]
    OBVIOUS
  <2>2. PICK reps : reps = [rep EXCEPT ![o] = Cancel(@)]
    OBVIOUS
  <2>3. PICK list : list = [sInFlightReplications EXCEPT ![c] = None]
    OBVIOUS
  <2>4. Becomes(reps, list) /\ o # None
    BY <1>15, <2>1, <2>2, <2>3 DEF CancelChunkReplication
  <2>5. DOMAIN rep = Ops /\ DOMAIN sInFlightReplications = Chunks
    BY DEF RepInv, RepsSound, ListInv
  <2>6. o \in Ops
    BY <2>1, <2>4 DEF RepInv, ListInv, Listed
  <2>7. \A d \in Chunks : list[d] = IF d \in {c} THEN None ELSE sInFlightReplications[d]
    BY <2>3, <2>5
  <2>8. DOMAIN reps = Ops
    BY <2>2, <2>5
  <2>9. \A p \in Ops : reps[p] = IF \E d \in {c} : sInFlightReplications[d] = p
                                 THEN Cancel(rep[p]) ELSE rep[p]
    BY <2>1, <2>2, <2>5, <2>6
  <2>10. PICK C : C = {c}
    OBVIOUS
  <2>11. C \in SUBSET Chunks
    BY <1>15, <2>10
  <2>12. /\ \A d \in Chunks : list[d] = IF d \in C THEN None ELSE sInFlightReplications[d]
         /\ \A p \in Ops : reps[p] = IF \E d \in C : sInFlightReplications[d] = p
                                     THEN Cancel(rep[p]) ELSE rep[p]
    BY <2>7, <2>9, <2>10
  <2> QED
    BY <1>1, <2>4, <2>8, <2>11, <2>12, CancelledInv
<1>16. ASSUME CancelAll PROVE RepInv'
  <2> DEFINE listed == {o \in Ops : \E c \in Chunks : sInFlightReplications[c] = o}
  <2>1. PICK reps : reps = [o \in Ops |-> IF o \in listed THEN Cancel(rep[o]) ELSE rep[o]]
    OBVIOUS
  <2>2. PICK list : list = [c \in Chunks |-> None]
    OBVIOUS
  <2>3. Becomes(reps, list)
    BY <1>16, <2>1, <2>2 DEF CancelAll
  <2>4. DOMAIN reps = Ops
    BY <2>1
  <2>5. \A c \in Chunks : list[c] = IF c \in Chunks THEN None ELSE sInFlightReplications[c]
    BY <2>2
  <2>6. \A p \in Ops : reps[p] = IF \E c \in Chunks : sInFlightReplications[c] = p
                                 THEN Cancel(rep[p]) ELSE rep[p]
    BY <2>1
  <2>7. Chunks \in SUBSET Chunks
    OBVIOUS
  <2> QED
    BY <1>1, <2>3, <2>4, <2>5, <2>6, <2>7, CancelledInv
<1> QED
  BY <1>2, <1>3, <1>4, <1>5, <1>6, <1>7, <1>8, <1>9, <1>10, <1>11, <1>12, <1>13,
     <1>14, <1>15, <1>16 DEF Next

-----------------------------------------------------------------------------
(***************************************************************************)
(* The theorems.                                                           *)
(***************************************************************************)
\* The invariant holds in every state, for every set of requests and chunks,
\* every chunk size and every length a read may return.
THEOREM ReplicatorsSound == Spec => []RepInv
<1>1. Init => RepInv
  BY InitInv
<1>2. RepInv /\ [Next]_vars => RepInv'
  <2>1. SUFFICES ASSUME RepInv, [Next]_vars PROVE RepInv'
    OBVIOUS
  <2>2. CASE Next
    BY <2>1, <2>2, NextInv
  <2>3. CASE UNCHANGED vars
    BY <2>1, <2>3 DEF vars, RepInv, RepsSound, ListInv, InOrder
  <2> QED
    BY <2>1, <2>2, <2>3
<1> QED
  BY <1>1, <1>2, PTL DEF Spec

\* HandleReplicationDone answers the metaserver with a version only for a chunk
\* that is written to its end by a request that was not cancelled.
THEOREM VersionOnlyForWholeChunk == Spec => []VersionMeansWhole
<1>1. RepInv => VersionMeansWhole
  BY DEF RepInv, RepsSound, Sound, DataPart, AnswerData, Whole, VersionMeansWhole
<1> QED
  BY <1>1, ReplicatorsSound, PTL

\* The chunk server dies in Replicator.cc for a metaserver that does not answer
\* KfsClient::Connect, for an ECPipe stream without connection and for a size
\* read after a cancellation only.
THEOREM ServerDiesOnlyFor == Spec => []DiesOnlyFor
<1>1. RepInv => DiesOnlyFor
  BY DEF RepInv, RepsSound, Sound, FatalPart, Typed, DiesOnlyFor
<1> QED
  BY <1>1, ReplicatorsSound, PTL

\* Two replicators have the file of a chunk open only while the cancellation of
\* the earlier, a recovery, waits for its client thread.
THEOREM OneWriterOfChunk == Spec => []OneWriter
<1>1. RepInv => OneWriter
  <2>1. SUFFICES ASSUME RepInv, NEW o \in Ops, NEW p \in Ops, o < p,
                        rep[o].chunk = rep[p].chunk, rep[o].mFileHandle, rep[p].mFileHandle
                 PROVE  rep[o].kind = "rs" /\ rep[o].mPendingCancelFlag
    BY DEF OneWriter
  <2>2. \A q \in {o, p} : rep[q].at \in {"read", "write", "vers"} /\ ~rep[q].mCancelFlag
    BY <2>1 DEF RepInv, RepsSound, Sound, AnswerPart
  <2>3. rep[o].mPendingCancelFlag
    <3>1. SUFFICES ASSUME ~rep[o].mPendingCancelFlag PROVE FALSE
      OBVIOUS
    <3>2. rep[o].chunk \in Chunks /\ o \in Nat \ {None} /\ p \in Nat \ {None}
      BY <2>1, ReplicatorAssumption DEF RepInv, RepsSound, Typed
    <3>3. sInFlightReplications[rep[o].chunk] = o
      BY <2>1, <2>2, <3>1 DEF RepInv, ListInv, Listed, Uncancelled
    <3>4. rep[p].at \in {"new", "done"}
      BY <2>1, <3>2, <3>3 DEF RepInv, ListInv, Listed
    <3> QED
      BY <2>2, <3>4
  <2> QED
    BY <2>1, <2>3 DEF RepInv, RepsSound, Sound, CopyPart, Typed
<1> QED
  BY <1>1, ReplicatorsSound, PTL
=============================================================================
