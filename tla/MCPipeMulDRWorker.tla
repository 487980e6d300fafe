---- MODULE MCPipeMulDRWorker ----
EXTENDS PipeMulDRWorker
CONSTANTS n1, n2
\* Nodes are interchangeable: the request has a fixed chain.
MCInit == Init /\ chain[1] = <<n1, n2>> /\ Cardinality(warm) <= 1
MCSpec == MCInit /\ [][Next]_vars
====
