------------------------------ MODULE MCMatmul ------------------------------
(* Every program, one level of recursion, one product in each base case.   *)
EXTENDS Matmul

MCSizes == {1, 2}
MCRuntimes == DOMAIN Body
=============================================================================
