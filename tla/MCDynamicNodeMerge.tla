------------------------- MODULE MCDynamicNodeMerge -------------------------
(* DynamicNodeMerge for TLC: two node keys, two property names with two   *)
(* values each, one asset id, batches of three.                           *)
EXTENDS DynamicNodeMerge

CONSTANTS k1, k2, p1, p2, v1, v2, h1

MCKeys == {k1, k2}
MCNames == {p1, p2}
MCVals == {v1, v2}
MCAssets == {h1}
=============================================================================
