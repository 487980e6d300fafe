---------------------------- MODULE StripeBarrier ----------------------------
(***************************************************************************)
(* What the update path promises about its parity blocks: stripes are      *)
(* updated one at a time, each parity node commits each stripe exactly     *)
(* once, and the next stripe begins only after every parity node has       *)
(* committed the current one.                                              *)
(***************************************************************************)
EXTENDS Naturals

CONSTANT Parity

VARIABLES
    round,   \* stripes begun
    busy,    \* a stripe is being updated
    done     \* done[p]: stripes parity p has committed

bvars == <<round, busy, done>>

Init == round = 0 /\ busy = FALSE /\ done = [p \in Parity |-> 0]

Begin ==
    /\ ~busy
    /\ round' = round + 1 /\ busy' = TRUE
    /\ UNCHANGED done

Commit(p) ==
    /\ busy /\ done[p] + 1 = round
    /\ done' = [done EXCEPT ![p] = round]
    /\ UNCHANGED <<round, busy>>

Complete ==
    /\ busy /\ \A p \in Parity : done[p] = round
    /\ busy' = FALSE
    /\ UNCHANGED <<round, done>>

Next == Begin \/ (\E p \in Parity : Commit(p)) \/ Complete

Spec == Init /\ [][Next]_bvars
=============================================================================
