-------------------------- MODULE MCLibcoroChannel --------------------------
(* Six threads: three producers and three consumers share four elements.   *)
EXTENDS LibcoroChannel

MCWorkers == Workers(6)
=============================================================================
