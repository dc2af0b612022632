----------------------------- MODULE RuleState -----------------------------
(***************************************************************************)
(* What module Rules and its parts step: in is what a rule is applied to,  *)
(* out what has been computed for it so far.                               *)
(***************************************************************************)
VARIABLES in, out

Idle == [tool |-> "backoff", attempts |-> 0]
=============================================================================
