---- MODULE MCConvDRWorker ----
EXTENDS ConvDRWorker, TLC
CONSTANTS n1, n2, n3
\* Nodes are interchangeable: the first request has a fixed team.
MCInit == Init /\ team[1] = (0 :> n1 @@ 1 :> n2 @@ 2 :> n3)
MCSpec == MCInit /\ [][Next]_vars
====
