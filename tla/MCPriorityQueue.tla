--------------------------- MODULE MCPriorityQueue ---------------------------
(***************************************************************************)
(* PriorityQueue for TLC: six buffers make a heap of three levels in which *)
(* the buffer moved into a hole may have to go up, and two children of one *)
(* buffer may have to be compared.                                         *)
(***************************************************************************)
EXTENDS PriorityQueue, TLC

ThreeTimes == 1 .. 3
Symmetry == Permutations(Buffers)
=============================================================================
