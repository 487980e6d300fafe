---------------------------- MODULE MCUpdateLog ----------------------------
(***************************************************************************)
(* Instances of UpdateLog for TLC.  TraceRequests are byte-aligned and     *)
(* unaligned requests (in half KB) inside a block, up to a block boundary, *)
(* across one and across a stripe.                                         *)
(***************************************************************************)
EXTENDS UpdateLog

Req(o, n) == [off |-> o, size |-> n]
TraceRequests == {Req(0, 2), Req(2, 2), Req(1, 4), Req(3, 4), Req(6, 8), Req(13, 2)}
TraceFiles    == <<"a", "b">>
=============================================================================
