---- MODULE CoordinatorTables ----
(***************************************************************************)
(* The tables the degraded-read coordinator keeps of its helpers           *)
(* (Coordinator.cc): which distributor thread serves a helper, and the two *)
(* binary searches it looks a node up with.  An IP address is a number, a  *)
(* vector a sequence; positions count from 0 as in the code.               *)
(***************************************************************************)
EXTENDS Integers, Sequences

\* Coordinator::init: rightBounder[d], the number of helpers the distributors
\* 0..d serve together.
rightBounder(slaveCnt, dists) ==
  LET share == slaveCnt \div dists
      remaining == slaveCnt % dists
      rb[d \in 0..(dists - 1)] ==
        IF d = 0 THEN IF remaining = 0 THEN share ELSE share + 1
        ELSE rb[d - 1] + (IF d >= remaining THEN share ELSE share + 1)
  IN rb

\* The loop over _helpersIPs: the distributor of the helper at position idx,
\* found by moving on by at most one distributor per helper.
disQ(slaveCnt, dists) ==
  LET bound == rightBounder(slaveCnt, dists)
      q[idx \in 0..(slaveCnt - 1)] ==
        LET before == IF idx = 0 THEN 0 ELSE q[idx - 1]
        IN IF idx + 1 > bound[before] THEN before + 1 ELSE before
  IN q

\* Mutant: the upper bound of the search is taken for exclusive.
searchCtx_Exclusive(arr, target) ==
  LET n == Len(arr)
      at[r \in (0..n) \X (-1..(n - 1))] ==
        LET mid == (r[1] + r[2]) \div 2
        IN IF r[2] < 0 THEN -1
           ELSE IF r[1] >= r[2] THEN r[1]
           ELSE IF arr[mid + 1] < target THEN at[<<mid + 1, r[2]>>]
           ELSE IF arr[mid + 1] > target THEN at[<<r[1], mid - 1>>]
           ELSE mid
  IN at[<<0, n - 2>>]

\* searchCtx: the position of target in the table arr of helpers, or the
\* position the search ends at.  -1 stands for the access arr[-1] the unsigned
\* eId = mid - 1 leads to when mid = 0.
searchCtx(arr, target) ==
  LET n == Len(arr)
      at[r \in (0..n) \X (-1..(n - 1))] ==
        LET sId == r[1]
            eId == r[2]
            mid == (sId + eId) \div 2
        IN IF eId < 0 THEN -1
           ELSE IF sId >= eId THEN sId
           ELSE IF arr[mid + 1] < target THEN at[<<mid + 1, eId>>]
           ELSE IF arr[mid + 1] > target THEN at[<<sId, mid - 1>>]
           ELSE mid
  IN at[<<0, n - 1>>]

\* isRequestorHolder: the position of the requestor among the nodes of the
\* chosen helpers, -1 when the search does not meet it.
isRequestorHolder(ips, requestorIP) ==
  LET n == Len(ips)
      at[r \in (0..n) \X (-1..(n - 1))] ==
        LET sid == r[1]
            eid == r[2]
            mid == (sid + eid) \div 2
        IN IF sid >= eid THEN IF ips[sid + 1] = requestorIP THEN sid ELSE -1
           ELSE IF ips[mid + 1] = requestorIP THEN mid
           ELSE IF ips[mid + 1] > requestorIP THEN at[<<sid, mid - 1>>]
           ELSE at[<<mid + 1, eid>>]
  IN at[<<0, n - 1>>]
====
