---------------------------- MODULE MCSweepCases ----------------------------
(* SweepCases on small instances. *)
EXTENDS SweepCases
=============================================================================
