------------------------------ MODULE MCNQueens ------------------------------
(* One program of each way to make the calls: held until the parent waits, *)
(* hot, and held with a board that is copied when the call runs.           *)
EXTENDS NQueens

MCPrograms == {"folly", "libfork", "citor"}
=============================================================================
