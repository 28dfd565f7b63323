--------------------------- MODULE MCLinkService ---------------------------
(* Instances of LinkService for TLC.  Requests are numbered in the order   *)
(* they are sent, so no symmetry among them is left to remove.             *)
EXTENDS LinkService, TLC

CONSTANTS p1, p2

\* The processes are interchangeable.
Interchangeable == Permutations(Procs)
=============================================================================
