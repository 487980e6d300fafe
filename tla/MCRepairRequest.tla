---- MODULE MCRepairRequest ----
EXTENDS RepairRequest
MCNodes == <<1, 2, 3, 4, 5>>
\* Block b is on node b; node 5 holds none.  The requests cover one, two and too
\* many lost blocks, and a requestor that lost the first, another or no block.
Asks == << <<1, <<1>>>>, <<5, <<1, 2>>>>, <<2, <<1, 2>>>>, <<3, <<1, 2>>>>, <<5, <<1, 2, 3>>>>, <<5, <<4>>>> >>
\* <<stripeStore, blocks without report>>: all known and reported; block 3, which
\* helps to rebuild block 1, or block 2, which is asked for, unknown; block 4 known
\* and not reported.
Stores == {<<Blocks, {}>>, <<Blocks \ {3}, {}>>, <<Blocks \ {2}, {2}>>, <<Blocks, {4}>>}
\* The two clients are interchangeable.
MCInit ==
  \E i, k \in DOMAIN Asks, s \in Stores : LET ask == <<Asks[i], Asks[k]>> IN
    /\ i <= k
    /\ s # <<Blocks, {}>> => k - i \in {0, 1}
    /\ Initially([b \in Blocks |-> b], [c \in Clients |-> ask[c][1]], [c \in Clients |-> ask[c][2]],
                 s[1], s[2])
    /\ s[1] # Blocks => fs = "HDFS"
MCSpec == MCInit /\ [][Next]_vars /\ Fairness
====
