--------------------------- MODULE MCStripeUpdate ---------------------------
(***************************************************************************)
(* Instances of StripeUpdate for TLC: vectors of one or two blocks with    *)
(* ranges <<offset, size>>.                                                *)
(***************************************************************************)
EXTENDS StripeUpdate

Range2Upd(d, r) == [id |-> d, off |-> r[1], size |-> r[2]]
One(d, r)        == <<Range2Upd(d, r)>>
Two(d, r, e, q)  == <<Range2Upd(d, r), Range2Upd(e, q)>>

\* Ranges that coincide, lie apart in either order, contain each other, and one
\* of size zero; crd_flip turns those of block 1 round.
AllVecs == {One(0, <<1, 1>>), One(1, <<0, 3>>),
            Two(0, <<0, 1>>, 1, <<2, 1>>), Two(1, <<2, 1>>, 0, <<0, 1>>),
            Two(1, <<0, 1>>, 0, <<0, 3>>), Two(0, <<0, 0>>, 1, <<0, 1>>)}
LiveVecs == {Two(1, <<0, 1>>, 0, <<0, 1>>)}
=============================================================================
