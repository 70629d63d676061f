------------------------- MODULE MCIpConnectionMerge -------------------------
(* IpConnectionMerge for TLC: two node keys, so that a refused merge      *)
(* happens, two addresses, timestamps 0 (unset), 1 and 2, batches of up   *)
(* to three nodes.                                                         *)
EXTENDS IpConnectionMerge

CONSTANTS k1, k2, a1, a2

MCKeys == {k1, k2}
MCAddrs == {a1, a2}
MCTS == 0..2
=============================================================================
