--------------------------- MODULE MCRequestPath ----------------------------
(* An instance of RequestPath for TLC.  Liveness is checked, so the clients *)
(* are not taken to be interchangeable.                                     *)
EXTENDS RequestPath

CONSTANTS c1, c2, c3
=============================================================================
