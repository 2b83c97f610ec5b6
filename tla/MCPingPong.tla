----------------------------- MODULE MCPingPong -----------------------------
(* All programs.  Messages may arrive in two pieces, a connection may be   *)
(* reset, and the sleep in main() may be too short; in cobalt's program it *)
(* is not, whose clients would leave the server alone with its accept.     *)
EXTENDS PingPong

MCPrograms == DOMAIN How
MCPunctual == {"cobalt"}
=============================================================================
