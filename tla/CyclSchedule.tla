---- MODULE CyclSchedule ----
(***************************************************************************)
(* The schedule of the cyclic repair: EcK helpers in a ring, the packets   *)
(* (slices) of a block in groups of EcK - 1.  Each slice of a full group   *)
(* starts at a different helper, visits all of them and ends at the helper *)
(* before its start, which hands it to the client.  A last group with      *)
(* fewer slices than EcK - 1 is served by the same rules.                  *)
(***************************************************************************)
EXTENDS Integers

CONSTANTS EcK,          \* helpers, with ids 0..EcK-1
          PktCnt        \* _packetCnt: slices of a block

ASSUME CyclAssumption == EcK \in Nat \ {0, 1} /\ PktCnt \in Nat \ {0}

Ids == 0..(EcK - 1)
Slices == 0..(PktCnt - 1)
Prev(h) == (h + EcK - 1) % EcK

groupSize == EcK - 1
lastGroupCnt == PktCnt % groupSize
lastGroupBase == PktCnt - lastGroupCnt

Smaller(a, b) == IF a < b THEN a ELSE b

\* pkt2sli: the slice helper h handles as its packet p.  In each group the slices
\* below h come first, then the others, both in descending order.
Pkt2Sli(h, p) ==
  LET base == p - (p % groupSize)
      cnt == Smaller(groupSize, PktCnt - base)
      low == Smaller(h, cnt)
      q == p - base IN
  IF q < low THEN base + low - 1 - q ELSE base + cnt - 1 - (q - low)

\* sli2pkt, its inverse
Sli2Pkt(h, s) == CHOOSE p \in Slices : Pkt2Sli(h, p) = s

\* The ring of a slice starts at helper h with its packet p: the reader hands it
\* to the sender, the puller fetches nothing for it (CyclMulFRWorker).
StartsAt(h, p) ==
  h # 0 /\ p % groupSize = 0 /\ (p < lastGroupBase \/ h <= lastGroupCnt)

\* Mutant: a last group that is not full is forgotten.
ToClient_FullGroups(h, p) == h # EcK - 1 /\ p % groupSize = groupSize - 1

\* senderMul's test: packet p of helper h is complete and goes to the client.
ToClient(h, p) ==
  \/ h # EcK - 1 /\ p % groupSize = groupSize - 1
  \/ h < lastGroupCnt /\ p = PktCnt - 1

\* CyclDRWorker::puller fetches a packet from the ring unless it heads a group.
Fetches(h, p) == h = 0 \/ p % groupSize # 0

\* CyclDRWorker::sender: the slices of the last group, a full one included, and
\* the index under which packet p goes to the client, -1 when it goes on.
LastCnt == IF lastGroupCnt = 0 THEN groupSize ELSE lastGroupCnt
TargetIdx(h, p) ==
  IF p = PktCnt - 1
    THEN IF h < LastCnt THEN h + PktCnt - LastCnt ELSE -1
    ELSE IF h # EcK - 1 /\ p % groupSize = groupSize - 1 THEN h + p - EcK + 2 ELSE -1

\* cyclCollector: how many packets the client takes from helper h.
ClientTakes(h) == PktCnt \div groupSize + (IF h < lastGroupCnt THEN 1 ELSE 0)
====
