------------------------ MODULE MCMigrationAttempt ------------------------
(* Small instances of MigrationAttempt for TLC: windows of two twin states. *)
EXTENDS MigrationAttempt
=============================================================================
