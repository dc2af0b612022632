------------------------------ MODULE Backoff ------------------------------
(***************************************************************************)
(* The retry arithmetic of src/src/node/backoff.h.                         *)
(***************************************************************************)
EXTENDS Integers

kResultBackoffBaseSeconds == 2
kResultBackoffCapSeconds == 60

(* The loop of resultBackoffSeconds: i doublings, none once the ceiling has *)
(* been reached.                                                            *)
doubled[i \in Nat] ==
  IF i = 0 THEN kResultBackoffBaseSeconds
  ELSE LET d == doubled[i - 1]
       IN IF d < kResultBackoffCapSeconds THEN 2 * d ELSE d

(* Seeded defect: the last doubling is not cut back to the ceiling. *)
resultBackoffUncut(attempt) == doubled[IF attempt < 0 THEN 0 ELSE attempt]

resultBackoffSeconds(attempt) ==
  LET d == doubled[IF attempt < 0 THEN 0 ELSE attempt]
  IN IF d > kResultBackoffCapSeconds THEN kResultBackoffCapSeconds ELSE d

(* The delay after one more failure, from the delay itself.                 *)
NextDelay(d) == IF 2 * d > kResultBackoffCapSeconds
                THEN kResultBackoffCapSeconds ELSE 2 * d

kMinSnapshotIntervalSeconds == 5
kMaxSnapshotIntervalSeconds == 60

clampSnapshotInterval(requested) ==
  IF requested < kMinSnapshotIntervalSeconds THEN kMinSnapshotIntervalSeconds
  ELSE IF requested > kMaxSnapshotIntervalSeconds
       THEN kMaxSnapshotIntervalSeconds ELSE requested
=============================================================================
