---- MODULE PprTree ----
(***************************************************************************)
(* The reduction tree of partial-parallel repair: the index computations   *)
(* of PPRPullDRWorker.cc and PPRCoordinator.cc.  Helpers are numbered from *)
(* 0 to ecK - 1; a helper hands its partial sum to PPRnextIP of its number *)
(* and to the requestor when that number is ecK or more.  The requestor    *)
(* takes the place of the next node of the full binary tree, and adopts    *)
(* the children of the nodes that do not exist.                            *)
(***************************************************************************)
EXTENDS Integers, FiniteSets, FiniteSetsExt

CONSTANT MaxEcK     \* the largest number of helpers

ASSUME MaxEcKAssumption == MaxEcK \in Nat

\* The powers of two, and the node numbers (from 1) up to one that getID rounds no
\* number beyond.
Power[k \in 0..MaxEcK] == IF k = 0 THEN 1 ELSE 2 * Power[k - 1]
Powers == {Power[k] : k \in 0..MaxEcK}
Places == 1..Power[MaxEcK]

\* id & (-id)
LowBit(id) == Max({b \in Powers : id % b = 0})

PPRnextIP(id) == (id + 1) + LowBit(id + 1) - 1

\* getChildrenIndices: below place idx hang the places idx - b, b the powers of
\* two below its lowest bit; one that is no helper is replaced by its children.
getChildrenIndices(idx, ecK) ==
  LET below[m \in Places] ==
        UNION {IF id <= ecK THEN {id - 1} ELSE below[id] :
                 id \in {m - b : b \in {b \in Powers : b < LowBit(m)}}}
  IN  below[idx + 1]

\* getID: the lowest bit is added until only one bit is left.
getID(k) ==
  LET round[m \in Places] == IF LowBit(m) = m THEN m ELSE round[m + LowBit(m)]
  IN  round[k + 1] - 1

\* The children a node waits for (puller), and the node that takes what id sends.
ChildrenOf(id, ecK) ==
  IF id < ecK THEN getChildrenIndices(id, ecK) ELSE getChildrenIndices(getID(id), ecK)
ParentOf(id, ecK) == IF PPRnextIP(id) >= ecK THEN ecK ELSE PPRnextIP(id)
====
