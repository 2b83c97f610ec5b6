---------------------------- MODULE MCTmcChannel ----------------------------
(* Six threads: three producers and three consumers share four elements.   *)
EXTENDS TmcChannel

MCWorkers == Workers(6)
=============================================================================
