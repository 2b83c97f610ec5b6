--------------------------- MODULE MCFollyChannel ---------------------------
(* Six threads: three producers and three consumers share four elements.   *)
EXTENDS FollyChannel

MCWorkers == Workers(6)
=============================================================================
