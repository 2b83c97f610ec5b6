--------------------------- MODULE MCCobaltChannel ---------------------------
(* Four threads ask for two producers and two consumers.                   *)
EXTENDS CobaltChannel

MCWorkers == Workers(4)
=============================================================================
