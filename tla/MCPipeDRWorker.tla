---- MODULE MCPipeDRWorker ----
EXTENDS PipeDRWorker
CONSTANTS n1, n2, n3, b1
\* Nodes and blocks are interchangeable: the first request has a fixed chain.
MCInit == Init /\ chain[1] = <<n1, n2>> /\ lost[1] = b1
MCSpec == MCInit /\ [][Next]_vars /\ Fairness
====
