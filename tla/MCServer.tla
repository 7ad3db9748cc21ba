------------------------------- MODULE MCServer -------------------------------
(* TLC instance of Server for a fatal error during a shutdown: two connections. *)
EXTENDS Server

CONSTANTS c1, c2
TwoConns == {c1, c2}
=============================================================================
