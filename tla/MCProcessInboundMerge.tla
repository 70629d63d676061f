------------------------ MODULE MCProcessInboundMerge ------------------------
(* ProcessInboundMerge for TLC: two node keys and two addresses (so both  *)
(* refusals happen), two asset ids, timestamps 0..2, batches of three.    *)
EXTENDS ProcessInboundMerge

CONSTANTS k1, k2, i1, i2, h1, h2

MCKeys == {k1, k2}
MCAddrs == {i1, i2}
MCAssets == {h1, h2}
MCTS == 0..2
=============================================================================
