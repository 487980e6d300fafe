---- MODULE ECPipeInputStream ----
(***************************************************************************)
(* The client of a repair: ECPipeInputStream.cc.  Once the coordinator has *)
(* told it where to fetch from, a client runs two threads.  The collector  *)
(* (pipeCollector) takes the packets of the lost blocks from Redis, packet *)
(* by packet and within a packet block by block; the forwarder             *)
(* (pipeForwardWorker) writes the packets of the first block to a file and *)
(* pushes those of the others to the client's own Redis.  They share       *)
(* _completePacketIndex and one condition variable, which the collector    *)
(* notifies WITHOUT holding the mutex: a forwarder that has just found the *)
(* predicate false and is not yet asleep misses it (module CondVar).       *)
(*                                                                         *)
(* `redis' holds the lists of every Redis server, by the name of the list  *)
(* and its server; the workers that fill them are the modules that extend  *)
(* this one.                                                               *)
(***************************************************************************)
EXTENDS Integers, Sequences, FiniteSets, CondVar, RedisLists

CONSTANTS Clients,      \* the ECPipeInputStream objects, one per request
          Nj,           \* _nj: lost blocks per request
          PktCnt        \* _packetCnt: packets per block

ASSUME StreamAssumption ==
  /\ Nj \in Nat \ {0}
  /\ PktCnt \in Nat \ {0}

Jobs == 1..Nj
Pkts == 0..(PktCnt - 1)
Total == Nj * PktCnt

VARIABLES redis,      \* [list -> Seq(packet)], all servers
          fetch,      \* _pipePullCtx and _lostFiles: [Clients -> [Jobs -> list]]
          contents,   \* _contents in the order of arrival; its length is _completePacketIndex
          processed,  \* _processedPacket
          out,        \* testfileOut: the packets of the first lost block
          relayed,    \* the lists of the other lost blocks in the client's Redis
          missed      \* threads, of clients and workers, that slept through a notification

clientVars == <<contents, processed, out, relayed>>

\* The lost block and the packet a thread is at, k steps into its run.
JobAt(k) == (k % Nj) + 1
PktAt(k) == k \div Nj

StreamInit ==
  /\ contents = [c \in Clients |-> <<>>]
  /\ processed = [c \in Clients |-> 0]
  /\ out = [c \in Clients |-> <<>>]
  /\ relayed = [c \in Clients |-> [j \in Jobs |-> <<>>]]
  /\ missed = {}

\* The thread, if its predicate was false until now or it missed what came before.
Waiting(thread, predicateWasFalse) ==
  {t \in {thread} : predicateWasFalse \/ t \in missed}

\* One reply of the BLPOPs appended in advance: stored, counted, notified.
PipeCollector(c) ==
  LET k == Len(contents[c])
      key == fetch[c][JobAt(k)] IN
  /\ k < Total
  /\ redis[key] # <<>>
  /\ contents' = [contents EXCEPT ![c] = Append(@, Head(redis[key]))]
  /\ redis' = Pop(redis, key)
  /\ missed' \in Notify(missed, Waiting(<<c, "forward">>, processed[c] = k))
  /\ UNCHANGED <<fetch, processed, out, relayed>>

\* A packet that has been counted goes to the file or to the client's Redis.
PipeForwardWorker(c) ==
  LET k == processed[c]
      v == contents[c][k + 1]
      j == JobAt(k) IN
  /\ k < Len(contents[c])
  /\ <<c, "forward">> \notin missed
  /\ processed' = [processed EXCEPT ![c] = k + 1]
  /\ out' = IF j = 1 THEN [out EXCEPT ![c] = Append(@, v)] ELSE out
  /\ relayed' = IF j = 1 THEN relayed ELSE [relayed EXCEPT ![c][j] = Append(@, v)]
  /\ UNCHANGED <<redis, fetch, contents, missed>>

StreamNext(c) == PipeCollector(c) \/ PipeForwardWorker(c)

StreamDone(c) == processed[c] = Total

\* The last notification came between the forwarder's test and its sleep.
StreamStuck(c) == Len(contents[c]) = Total /\ <<c, "forward">> \in missed
====
