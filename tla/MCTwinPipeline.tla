---- MODULE MCTwinPipeline ----
(* Instances of TwinPipeline for TLC. *)
EXTENDS TwinPipeline

CONSTANTS c1, c2, s1

MCInitialOwner == [s \in Switch |-> c1]
====
