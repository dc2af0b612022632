---------------------------- MODULE MCJobRunner ----------------------------
(* JobRunner on small instances. *)
EXTENDS JobRunner
=============================================================================
