----------------------------- MODULE MCMigration -----------------------------
(* Small instances of Migration for TLC: two controllers, as deployed.     *)
EXTENDS Fencing, TLC

CONSTANTS c1, c2

\* Every switch starts with c1; c1 and c2 are otherwise interchangeable.
MCInitialOwner == [s \in Switch |-> c1]
=============================================================================
