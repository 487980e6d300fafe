------------------------------- MODULE DrCmds -------------------------------
(***************************************************************************)
(* The list dr_cmds of a node, as the distributors of a degraded-read      *)
(* coordinator fill it.                                                    *)
(***************************************************************************)
EXTENDS Integers, Sequences

\* dr_cmds of a node that serves the requests of H, of those numbered up to
\* `last': the distributors have queued every request's commands in the same
\* order at every node (RepairRequest shows why).
Queued(last, H) ==
  LET q[c \in 0..last] == IF c = 0 THEN <<>>
                          ELSE IF c \in H THEN Append(q[c - 1], c) ELSE q[c - 1]
  IN  q[last]
=============================================================================
