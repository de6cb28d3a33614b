--------------------------- MODULE MCTb6612Output ---------------------------
(* Tb6612Output with two duties in each direction, and zero.               *)
EXTENDS Tb6612Output

MCCommands == {-2, -1, 0, 1, 2}
=============================================================================
