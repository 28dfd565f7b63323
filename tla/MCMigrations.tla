---------------------------- MODULE MCMigrations ----------------------------
(* Migrations on instances small enough for TLC.                           *)
EXTENDS Migrations
CONSTANTS p1, p2, p3

\* One build everywhere
OneBuild == [p \in Procs |-> Versions]

\* A branch that skipped 2, the build that has everything, and an older one
Branches == [p \in Procs |-> CASE p = p1 -> {1, 3}
                              []   p = p2 -> Versions
                              []   p = p3 -> {1, 2}]
=============================================================================
