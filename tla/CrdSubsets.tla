----------------------------- MODULE CrdSubsets -----------------------------
(***************************************************************************)
(* How CrdUpdate groups the updated ranges of one stripe into sub-sets, and *)
(* which range of a parity block each sub-set covers: once as computed by  *)
(* the coordinator for the non-collector parities (UPCoordinator.cc) and   *)
(* once as computed by the parity collector (UPNode.cc).                   *)
(*                                                                         *)
(* An UpdBlock is [id, off, size]: the data block, the offset and the      *)
(* length of the updated range, in KB.  A vector<UpdBlock> is a sequence.  *)
(* Sub-set ids are 0-based in the code; solution[s + 1] is sub-set s.      *)
(***************************************************************************)
EXTENDS Integers, Sequences, FiniteSetsExt, SequencesExt

UpdBlock == [id : Nat, off : Nat, size : Nat]

End(b) == b.off + b.size

\* The hull of the ranges in N, as the fold of UPCoordinator::is_intersected.
HullStart(N) == Min({N[i].off : i \in DOMAIN N})
HullEnd(N)   == Max({0} \cup {End(N[i]) : i \in DOMAIN N})

\* Mutant: ranges that only touch are apart.
is_intersected_Open(d, N) == ~(End(d) <= HullStart(N) \/ HullEnd(N) <= d.off)

\* Ranges that touch (e1 = s2) count as intersecting: the code's test is <.
is_intersected(d, N) == ~(End(d) < HullStart(N) \/ HullEnd(N) < d.off)

(***************************************************************************)
(* The inner loop of get_upd_solu_crd: the first block of the list D that  *)
(* meets the hull of N moves to the end of N, until none does.             *)
(***************************************************************************)
Absorb[x \in Seq(UpdBlock) \X Seq(UpdBlock)] ==
    LET N    == x[1]
        D    == x[2]
        hits == {i \in DOMAIN D : is_intersected(D[i], N)}
    IN  IF hits = {}
        THEN x
        ELSE Absorb[<<Append(N, D[Min(hits)]), RemoveAt(D, Min(hits))>>]

\* The outer loop: the head of D opens the next sub-set.
Partition[D \in Seq(UpdBlock)] ==
    IF D = <<>>
    THEN <<>>
    ELSE LET nd == Absorb[<< <<Head(D)>>, Tail(D) >>]
         IN  <<nd[1]>> \o Partition[nd[2]]

get_upd_solu_crd(vec) == Partition[vec]

\* The first sub-set that holds the block, -1 when there is none.
get_sub_set_id(solution, blk) ==
    LET homes == {s \in DOMAIN solution :
                    \E i \in DOMAIN solution[s] : solution[s][i].id = blk}
    IN  IF homes = {} THEN -1 ELSE Min(homes) - 1

(***************************************************************************)
(* The range of a sub-set in a task 8 command (CrdUpdate).  The loop        *)
(* subtracts 1 from the running end on every iteration, not once.          *)
(***************************************************************************)
CoordinatorRange(N) ==
    LET start == HullStart(N)
        last[i \in 0 .. Len(N)] ==
            IF i = 0 THEN 0 ELSE Max({last[i - 1], End(N[i])}) - 1
    IN  [off |-> start, size |-> last[Len(N)] - start + 1]

\* Mutant: the last unit of the sub-set is left out.
CollectorRange_OneShort(upds, subs, s) ==
    LET mine  == {i \in DOMAIN upds : subs[i] = s}
        start == Min({upds[i].off : i \in mine})
        last  == Max({End(upds[i]) - 1 : i \in mine})
    IN  [off |-> start, size |-> last - start]

(***************************************************************************)
(* The range of sub-set s in the parity collector                          *)
(* (recv_and_compute_in_parity_collector_for_crd), from the sub-set id of   *)
(* each block: the -1 is inside the max.                                   *)
(***************************************************************************)
CollectorRange(upds, subs, s) ==
    LET mine  == {i \in DOMAIN upds : subs[i] = s}
        start == Min({upds[i].off : i \in mine})
        last  == Max({End(upds[i]) - 1 : i \in mine})
    IN  [off |-> start, size |-> last - start + 1]

\* crd_flip: a block with an odd id has its range mirrored in the block.
FlipRange(b, bs) ==
    IF b.id % 2 = 1 THEN [id |-> b.id, off |-> bs - End(b), size |-> b.size] ELSE b
FlipVec(vec, bs) == [i \in DOMAIN vec |-> FlipRange(vec[i], bs)]
=============================================================================
