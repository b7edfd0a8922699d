----------------------------- MODULE MCInitRoles -----------------------------
(* Small instances of InitRoles and of OrchestratorRestart for TLC.        *)
EXTENDS OrchestratorRestart, TLC

CONSTANTS c1, c2, s1

MCInitialOwner == [s \in Switch |-> c1]

ThreadSymmetry == Permutations(InitRun) \cup Permutations(Request)

\* Bounds the run: requests ask for the other controller of the one switch, and at
\* most two of the three threads are ever at work, the request being one of them
\* only while an initialisation is still to come.
Bounded ==
  /\ \A r \in Request : input[r] = [switch |-> s1, target |-> c2]
  /\ \/ \E i \in InitRun : ipc[i] = "idle"
     \/ \A r \in Request : pc[r] = "idle"
=============================================================================
