---- MODULE MCOutcomeService ----
(* Instances of OutcomeService for TLC. *)
EXTENDS OutcomeService

CONSTANTS c1, c2, s1
====
