-------------------------- MODULE MCControllerProcess --------------------------
(* Small instances of ControllerProcess for TLC.                           *)
EXTENDS ControllerProcess

\* Bounds the run: at most three events wait in the application's queue.
ShortQueue == Len(queue) <= 3
=============================================================================
