---- MODULE MCPPRPullDRWorker ----
EXTENDS PPRPullDRWorker, TLC
CONSTANTS n1, n2, n3, n4
\* The second request moves every node of the first one place on: leaves become
\* inner nodes and the requestor a leaf.
MCInit == Init /\ team[1] = (0 :> n1 @@ 1 :> n2 @@ 2 :> n3 @@ 3 :> n4)
               /\ team[2] = (0 :> n4 @@ 1 :> n1 @@ 2 :> n2 @@ 3 :> n3)

\* A node waits for exactly the helpers that send to it, and the requestor, in
\* the place getID gives it, for those that have no parent among the helpers.
ASSUME TreeAgrees ==
  \A k \in 1..MaxEcK : \A id \in 0..k :
    ChildrenOf(id, k) = {i \in 0..(k - 1) : ParentOf(i, k) = id}

MCSpec == MCInit /\ [][Next]_vars
====
