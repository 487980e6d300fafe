---- MODULE ScheduledBlks ----
(***************************************************************************)
(* HDFS_MetadataBase::getScheduledBlks: with multi-stripe scheduling the   *)
(* helpers of a repair are the nodes that took part in the fewest repairs. *)
(***************************************************************************)
EXTENDS Integers, FiniteSets, FiniteSetsExt, SequencesExt

CONSTANTS EcK,          \* helpers of a repair
          MAX_ORDER     \* 0x1000000 in the code

\* Mutant: the counts are never reset.
Recounted_NoReset(order, requestorIP) == [order EXCEPT ![requestorIP] = @ + 1]

\* The counts are reset when one has reached the limit; then the requestor is
\* counted.
Recounted(order, requestorIP) ==
  LET o == IF \E n \in DOMAIN order : order[n] >= MAX_ORDER THEN [n \in DOMAIN order |-> 0] ELSE order
  IN [o EXCEPT ![requestorIP] = @ + 1]

\* One round of the loop: the first of the least used nodes that are alive.  The
\* process ends when there is none below MAX_ORDER, and when it is the node of the
\* coordinator itself.
SelectOne(st, alive, localIP) ==
  LET free == {n \in alive \ st.used : st.order[n] < MAX_ORDER}
      ip == Min({n \in free : \A k \in free : st.order[n] <= st.order[k]})
  IN IF st.ended \/ free = {} \/ ip = localIP THEN [st EXCEPT !.ended = TRUE]
     ELSE [order |-> [st.order EXCEPT ![ip] = @ + 1], used |-> st.used \cup {ip}, ended |-> FALSE]

\* alive: the nodes whose block of the stripe is not lost; localIP: the coordinator's.
getScheduledBlks(order, requestorIP, alive, localIP) ==
  FoldLeft(LAMBDA st, i : SelectOne(st, alive, localIP),
           [order |-> Recounted(order, requestorIP), used |-> {}, ended |-> FALSE],
           [i \in 1..EcK |-> i])
====
