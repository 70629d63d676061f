------------------------------ MODULE MCFileMerge ------------------------------
(* FileMerge for TLC: two node keys, two names, 2-bit integers with the   *)
(* inodes 0, 1 and 3 (all ones), timestamps 0..2, batches of three.       *)
EXTENDS FileMerge

CONSTANTS k1, k2, n1, n2

MCKeys == {k1, k2}
MCNames == {n1, n2}
MCInodes == {0, 1, AllOnes}
MCTS == 0..2
=============================================================================
