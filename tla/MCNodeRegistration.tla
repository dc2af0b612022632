------------------------- MODULE MCNodeRegistration -------------------------
(* NodeRegistration on small instances.                                      *)
EXTENDS NodeRegistration
=============================================================================
