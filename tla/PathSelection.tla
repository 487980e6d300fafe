---- MODULE PathSelection ----
(***************************************************************************)
(* PathSelection::intelligentSearch: in which order the helpers of a       *)
(* repair are chained so that the heaviest link is as light as possible.   *)
(* Node 0 is the requestor, mat[a][b] the weight of a link, a path has     *)
(* k + 1 nodes and starts at 0.                                            *)
(***************************************************************************)
EXTENDS Integers, Sequences, FiniteSets, FiniteSetsExt, SequencesExt

Heavier(a, b) == IF a > b THEN a ELSE b

\* The first node of S with the lightest link from a.
Nearest(mat, a, S) ==
  Min({i \in S : \A j \in S : mat[a][i] <= mat[a][j]})

\* Mutant: only the first link counts.
initVal_FirstLink(mat, k) ==
  Min({mat[0][i] : i \in DOMAIN mat \ {0, Cardinality(DOMAIN mat) - 1}})

\* initVal: the greedy path.  Its first link leaves out the last node.
initVal(mat, k) ==
  LET nodes == DOMAIN mat
      first == Nearest(mat, 0, nodes \ {0, Cardinality(nodes) - 1})
      Grow(st, step) ==
        LET new == Nearest(mat, st.at, nodes \ st.used)
        IN [at |-> new, used |-> st.used \cup {new}, max |-> Heavier(st.max, mat[st.at][new])]
  IN FoldLeft(Grow, [at |-> first, used |-> {0, first}, max |-> mat[0][first]],
              [i \in 1..(k - 1) |-> i]).max

\* ISHelper: depth first over the nodes in order.  st carries _globalMax and
\* _path; links as heavy as _globalMax are pruned when they are met, and a leaf
\* replaces _path whatever its own heaviest link.
RECURSIVE ISHelper(_, _, _, _, _)
ISHelper(mat, k, st, selected, currMax) ==
  IF Len(selected) = k + 1
    THEN [globalMax |-> IF currMax < st.globalMax THEN currMax ELSE st.globalMax, path |-> selected]
    ELSE FoldLeft(LAMBDA s, i :
           IF i \in ToSet(selected) \/ mat[Last(selected)][i] >= s.globalMax THEN s
           ELSE ISHelper(mat, k, s, Append(selected, i), Heavier(currMax, mat[Last(selected)][i])),
         st, [i \in 1..Cardinality(DOMAIN mat) |-> i - 1])

intelligentSearch(mat, k) ==
  ISHelper(mat, k, [globalMax |-> initVal(mat, k), path |-> <<>>], <<0>>, 0)
====
