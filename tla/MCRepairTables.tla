---- MODULE MCRepairTables ----
(***************************************************************************)
(* The pure algorithms of the coordinator against reference definitions:   *)
(* the state is an input, built up or picked, and for the counts of        *)
(* multi-stripe scheduling what a sequence of repairs has made of them.    *)
(***************************************************************************)
EXTENDS CrdSubsets, RSCode, PathSelection, ScheduledBlks, CoordinatorTables

CONSTANTS MaxBlocks, blocksize,     \* CRD: blocks of a vector, size of a block
          MaxK, MaxM,               \* Reed-Solomon: data and parity blocks
          Weights,                  \* of the links between helpers
          Slaves                    \* nodes of the cluster

VARIABLES kind, in

vars == <<kind, in>>

Init == kind = "crd" /\ in = <<>>

\* One more updated range of the stripe.
AddBlock(off, size) ==
  /\ kind = "crd" /\ Len(in) < MaxBlocks
  /\ in' = Append(in, [id |-> Len(in), off |-> off, size |-> size])
  /\ UNCHANGED kind

Pick(k, S) == kind = "crd" /\ in = <<>> /\ kind' = k /\ in' \in S

Square(n, S) == [0..(n - 1) -> [0..(n - 1) -> S]]
Losses == UNION {{[k |-> k, m |-> m, idx |-> i, S |-> S] :
                     i \in 0..(k + m - 1), S \in kSubset(k, 0..(k + m - 1))} :
                 k \in 2..MaxK, m \in 1..MaxM}

\* Weights from node to node; those to the requestor and to the node itself are
\* not used.
Links(k) == {[a \in 0..k |-> [b \in 0..k |-> IF b \in {0, a} THEN 0 ELSE w[<<a, b>>]]] :
               w \in [{p \in (0..k) \X (1..k) : p[1] # p[2]} -> Weights]}

\* A table of helpers in some order, and the number of distributors.
Tables == {[ips |-> s, dists |-> d] : s \in {t \in SetToAllKPermutations(1..Slaves) : t # <<>>},
                                      d \in 1..Slaves}

\* A repair for which the nodes `alive' still have their block.
Repair(requestor, alive) ==
  /\ kind = "order" /\ ~in.ended
  /\ kind' = "order"
  /\ in' = getScheduledBlks(in.order, requestor, alive, in.local)
           @@ [req |-> requestor, alive |-> alive, local |-> in.local]

Next ==
  \/ \E off \in 0..(blocksize - 1), size \in 0..blocksize : off + size <= blocksize /\ AddBlock(off, size)
  \/ Pick("matrix", Square(2, GF) \cup Square(3, {0, 1}))
  \/ Pick("loss", Losses)
  \/ Pick("links", Links(2) \cup Links(3))
  \/ Pick("table", Tables)
  \/ Pick("order", {[order |-> [n \in 1..Slaves |-> 0], used |-> {}, ended |-> FALSE, req |-> 1,
                     alive |-> {}, local |-> ip] : ip \in 0..Slaves})
  \/ \E n \in 1..Slaves, alive \in SUBSET (1..Slaves) : alive # {} /\ Repair(n, alive)

Spec == Init /\ [][Next]_vars
----------------------------------------------------------------------------
solution == get_upd_solu_crd(in)
Hull(N) == HullEnd(N) - HullStart(N)

\* Reference: two blocks belong together when a chain of blocks, each touching
\* the next, links them.
Touch(a, b) == End(a) >= b.off /\ End(b) >= a.off
Linked(S, i) ==
  LET Grow[k \in Nat] ==
        IF k = 0 THEN {i}
        ELSE LET G == Grow[k - 1]
             IN G \cup {x \in S : \E y \in G : Touch(in[x], in[y])}
  IN Grow[Len(in)]

\* get_upd_solu_crd puts every block in exactly one sub-set, and its sub-sets
\* are the connected components of the touching relation, although it compares
\* with hulls and restarts its scan after every block it absorbs.  The range the
\* coordinator sends for a sub-set starts with the hull, is never negative or
\* longer, loses at most one unit per further block, and is exact just when the
\* block absorbed last reaches the end of the hull.
PartitionIsComponents ==
  kind = "crd" =>
    /\ {{b.id + 1 : b \in ToSet(solution[s])} : s \in DOMAIN solution}
         = {Linked(DOMAIN in, i) : i \in DOMAIN in}
    /\ FoldLeft(LAMBDA n, N : n + Len(N), 0, solution) = Len(in)
    /\ \A s \in DOMAIN solution :
         LET N == solution[s]
             r == CoordinatorRange(N)
         IN /\ r.off = HullStart(N)
            /\ r.size \in Max({0, Hull(N) - (Len(N) - 1)})..Hull(N)
            /\ (r.size = Hull(N)) <=> (End(N[Len(N)]) = HullEnd(N))

\* Reference: a matrix is singular when it maps a nonzero vector to zero.
IsSingular(m) ==
  \E v \in [DOMAIN m -> GF] : /\ \E i \in DOMAIN v : v[i] # 0
                             /\ \A i \in DOMAIN m : jerasure_matrix_dotprod(m[i], v, 0) = 0

\* jerasure_invert_matrix inverts every matrix that has an inverse and refuses
\* the others.  With it, any k blocks of a stripe rebuild any other block: the
\* coefficients RSUtil gives the helpers, applied to their rows of the encoding
\* matrix, are the row of the lost block.
CoefficientsRebuild ==
  /\ kind = "matrix" =>
       LET inv == jerasure_invert_matrix(in)
           product == jerasure_matrix_multiply(inv, in)
       IN IF IsSingular(in) THEN inv = Singular
          ELSE inv # Singular /\ product = Identity(Cardinality(DOMAIN in))
  /\ kind = "loss" /\ in.idx \notin in.S =>
       LET coef == getCoefficient_multi(in.k, in.m, in.idx, in.S)
           full == completeEncMat(in.k, in.m)
       IN /\ jerasure_matrix_multiply([i \in {0} |-> coef], Rows(full, in.S))[0] = full[in.idx]
          /\ in.S = FirstOthers(in.k, in.m, in.idx) => coef = getCoefficient(in.k, in.m, in.idx)

\* Reference: the lightest heaviest link of a path of k + 1 nodes from node 0.
HeaviestLink(mat, path) == Max({mat[path[i]][path[i + 1]] : i \in 1..(Len(path) - 1)})
Paths(n) == {p \in SetToSeqs(0..(n - 1)) : p[1] = 0}

\* intelligentSearch returns the optimum, and the path it leaves for the
\* coordinator is one that attains it, although a leaf replaces the path without
\* comparing; when the greedy path is already the best there is no path at all,
\* and the coordinator reads an empty vector.
SelectedPath ==
  kind = "links" =>
    LET n == Cardinality(DOMAIN in)
        r == intelligentSearch(in, n - 1)
        greedy == initVal(in, n - 1)
        best == Min({HeaviestLink(in, p) : p \in Paths(n)})
    IN /\ r.globalMax = best
       /\ (r.path = <<>>) <=> (greedy = best)
       /\ r.path # <<>> => r.path \in Paths(n) /\ HeaviestLink(in, r.path) = best

\* The binary search of _ip2Ctx finds every helper just when the configuration
\* lists them by address (the sort in Coordinator::init is commented out), and
\* every distributor serves its share of them.
HelpersFound ==
  kind = "table" =>
    LET ips == in.ips
        n == Len(ips)
        ordered == \A i, k \in DOMAIN ips : i < k => ips[i] < ips[k]
        queue == disQ(n, in.dists)
        served == [d \in 0..(in.dists - 1) |-> Cardinality({i \in 0..(n - 1) : queue[i] = d})]
    IN /\ ordered <=> \A p \in DOMAIN ips : searchCtx(ips, ips[p]) = p - 1
       /\ ordered => \A ip \in 0..(Slaves + 1) :
            LET p == isRequestorHolder(ips, ip)
            IN IF ip \in ToSet(ips) THEN ips[p + 1] = ip ELSE p = -1
       /\ \A i \in 0..(n - 1) : queue[i] \in 0..(in.dists - 1)
       /\ \A d, e \in DOMAIN served : served[d] <= served[e] + 1

\* The choice of helpers ends the coordinator just when too few nodes have their
\* block, at the limit of the counts (the requestor, counted up to MAX_ORDER for
\* its request, would have to help), or when the coordinator's own node has a
\* block and fewer than EcK others were used less (on equal use: come before it).
SchedulingEnds ==
  kind = "order" =>
    LET before == [n \in 1..Slaves |-> in.order[n] - (IF n \in in.used THEN 1 ELSE 0)]
        Preferred(m) == {n \in in.alive : before[n] < before[m] \/ (before[n] = before[m] /\ n < m)}
    IN in.alive # {} =>
         (in.ended <=> \/ Cardinality(in.alive) < EcK
                       \/ before[in.req] = MAX_ORDER /\ in.req \in in.alive /\ Cardinality(in.alive) = EcK
                       \/ in.local \in in.alive /\ Cardinality(Preferred(in.local)) < EcK)
====
