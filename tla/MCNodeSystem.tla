--------------------------- MODULE MCNodeSystem ---------------------------
(* Model-checking instances of NodeSystem: the job ids are interchangeable. *)
EXTENDS NodeSystem, TLC

JobSymmetry == Permutations(Jobs)
=============================================================================
