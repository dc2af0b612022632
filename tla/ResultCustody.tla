--------------------------- MODULE ResultCustody ---------------------------
(***************************************************************************)
(* What the node network promises about the record of a job: it is always  *)
(* in exactly one place, and it only moves forward.                        *)
(*                                                                         *)
(*   open     the control plane may still hand the job to a node           *)
(*   out      a node has accepted it; nothing durable exists yet           *)
(*   disk     the finished result is on the node's disk, undelivered       *)
(*   settled  the control plane holds a terminal state for the job         *)
(*                                                                         *)
(* A node that has a result on disk takes no further job out of anyone's   *)
(* hands, so at most one result is on disk.  A job that is out may be      *)
(* given up (its node died, or its deadline passed); one that is on disk   *)
(* can only become settled.                                                *)
(***************************************************************************)
CONSTANT Jobs
VARIABLE custody

Places == {"open", "out", "disk", "settled"}

Init == custody = [j \in Jobs |-> "open"]

Move(j, from, to) ==
  /\ custody[j] = from
  /\ custody' = [custody EXCEPT ![j] = to]

HandOut(j) == Move(j, "open", "out")

Persist(j) ==
  /\ \A k \in Jobs : custody[k] # "disk"
  /\ Move(j, "out", "disk")

Settle(j) == Move(j, "disk", "settled")

Abandon(j) == Move(j, "out", "settled")

Next == \E j \in Jobs : HandOut(j) \/ Persist(j) \/ Settle(j) \/ Abandon(j)

Spec == Init /\ [][Next]_custody

(* A result on disk does not stay there. *)
Delivery == \A j \in Jobs : custody[j] = "disk" ~> custody[j] = "settled"
=============================================================================
