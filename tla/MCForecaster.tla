---- MODULE MCForecaster ----
(* Instances of Forecaster for TLC. *)
EXTENDS Forecaster, TLC

CONSTANTS c1, c2

ControllerSymmetry == Permutations(Controller)
====
