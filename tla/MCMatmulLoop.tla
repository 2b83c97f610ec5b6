---------------------------- MODULE MCMatmulLoop ----------------------------
(* One program, one level of recursion, all three loops of the base case.  *)
EXTENDS Matmul

MCSizes == {2, 4}
MCRuntimes == {"TooManyCooks"}
=============================================================================
