-------------------------------- MODULE Queens --------------------------------
(* Boards with one queen in each row, and the placements of N queens in    *)
(* which no queen attacks another.                                         *)
EXTENDS Integers

CONSTANT N   (* nqueens_work, 14: the number of queens, rows and columns *)

ASSUME NAssumption == N \in Nat \ {0}

Rows    == 0 .. N-1
Columns == 0 .. N-1
Boards  == [Rows -> Columns]

Attacks(b, i, j) ==
  \/ b[j] = b[i]
  \/ b[j] = b[i] - (j - i)
  \/ b[j] = b[i] + (j - i)

(* Two of the programs have this test of the first n queens as a whole,    *)
(* and do not call it.                                                     *)
queens_ok(n, b) == \A i \in 0 .. n-1, j \in 0 .. n-1 : i < j => ~ Attacks(b, i, j)

(* A set map, which TLC evaluates once.                                    *)
Solutions == {b : b \in {c \in Boards : queens_ok(N, c)}}
=============================================================================
