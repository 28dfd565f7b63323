------------------------------ MODULE MCDbFile ------------------------------
(* DbFile on instances small enough for TLC.                               *)
EXTENDS DbFile
=============================================================================
