-------------------------- MODULE JobRunner_proofs --------------------------
(***************************************************************************)
(* Proofs of JobRunner's safety properties for every timeout, grace        *)
(* period, pipe size and number of attempts.                               *)
(***************************************************************************)
EXTENDS JobRunner, TLAPS

Alive == {"forked", "grouped", "running", "zombie"}
Before == {"prepare", "pipes", "fork"}

(* Which processes exist at which point of runJob. *)
ProcessesAtPoint ==
  /\ rpc \in Before => leader = "none" /\ ~termSent /\ result = "none"
  /\ rpc \in Loop => leader \in Alive
  /\ leader \in Alive => rpc \in Loop
  /\ rpc = "collect" => leader = "reaped"

(* Until runJob returns, its outcome records the deadline and nothing else,  *)
(* and once the directory has been prepared no stale result file exists.     *)
OutcomeSoFar ==
  /\ rpc \in Loop \cup {"collect"} =>
       result = IF termSent THEN "timeout" ELSE "none"
  /\ rpc \in Loop \cup {"pipes", "fork", "collect"} => scratch \in {"empty", "fresh"}

(* The inductive invariant. *)
IInv == TypeOK /\ ProcessesAtPoint /\ OutcomeSoFar

(* What the assumption says of the numbers. *)
LEMMA Numbers ==
  /\ Timeout \in Nat /\ Grace \in Nat /\ PipeCapacity \in Nat
  /\ MaxOutput \in Nat /\ MaxAttempts \in Nat
BY JobRunnerAssumption

(* Every counter may start at zero. *)
LEMMA Zeros ==
  /\ 0 \in 0..Timeout /\ 0 \in 0..Grace /\ 0 \in 0..PipeCapacity
  /\ 0 \in 0..MaxOutput /\ 0 \in 0..MaxAttempts
BY Numbers

(* The outcomes and statuses the actions assign, spelled out once. *)
LEMMA Names ==
  /\ {"none", "rejected", "cannot create scratch dir", "cannot create pipes",
      "cannot fork", "timeout"} \subseteq Outcomes
  /\ {"none", "exit0", "exit126", "exit127", "exitN", "signal"} \subseteq Statuses
BY DEF Outcomes, Statuses

(* What the verdict says: a success needs a result file and exit zero. *)
LEMMA VerdictIs ==
  /\ Verdict \in Outcomes \ {"none"}
  /\ Verdict = "success" => HasResultFile /\ status = "exit0" /\ result # "timeout"
BY DEF Verdict, Outcomes

USE DEF Alive, Before, Loop, Points, Return, InGroup, Exits, procVars, timeVars

(* The initial state satisfies the invariant. *)
LEMMA InitInv == Init => IInv
<1>1. Init => TypeOK BY Zeros, Names DEF Init, TypeOK
<1>2. Init => ProcessesAtPoint BY DEF Init, ProcessesAtPoint
<1>3. Init => OutcomeSoFar BY DEF Init, OutcomeSoFar
<1>4. QED BY <1>1, <1>2, <1>3 DEF IInv

(* runJob is called. *)
LEMMA BeginInv == ASSUME IInv, NEW ok \in BOOLEAN, Begin(ok) PROVE IInv'
<1>1. attempts \in 0..MaxAttempts /\ attempts < MaxAttempts /\ attempts' = attempts + 1
  BY DEF IInv, TypeOK, Begin
<1>2. attempts' \in 0..MaxAttempts BY <1>1, Numbers
<1>3. TypeOK'
  BY <1>2, Zeros, Names DEF Begin, IInv, TypeOK
<1>4. ProcessesAtPoint' BY DEF Begin, IInv, TypeOK, ProcessesAtPoint
<1>5. OutcomeSoFar'
  BY DEF Begin, IInv, TypeOK, ProcessesAtPoint, OutcomeSoFar
<1>6. QED BY <1>3, <1>4, <1>5 DEF IInv

(* The scratch directory is prepared, or cannot be. *)
LEMMA PrepareInv == ASSUME IInv, NEW ok \in BOOLEAN, Prepare(ok) PROVE IInv'
<1>1. TypeOK' BY Names DEF Prepare, IInv, TypeOK
<1>2. ProcessesAtPoint' BY DEF Prepare, IInv, TypeOK, ProcessesAtPoint
<1>3. OutcomeSoFar'
  BY DEF Prepare, IInv, TypeOK, ProcessesAtPoint, OutcomeSoFar
<1>4. QED BY <1>1, <1>2, <1>3 DEF IInv

(* The pipes are made, or cannot be. *)
LEMMA MakePipesInv == ASSUME IInv, NEW ok \in BOOLEAN, MakePipes(ok) PROVE IInv'
<1>1. TypeOK' BY Names DEF MakePipes, removeTree, IInv, TypeOK
<1>2. ProcessesAtPoint' BY DEF MakePipes, removeTree, IInv, TypeOK, ProcessesAtPoint
<1>3. OutcomeSoFar'
  BY DEF MakePipes, removeTree, IInv, TypeOK, ProcessesAtPoint, OutcomeSoFar
<1>4. QED BY <1>1, <1>2, <1>3 DEF IInv

(* The child is forked, or cannot be. *)
LEMMA ForkInv == ASSUME IInv, NEW ok \in BOOLEAN, Fork(ok) PROVE IInv'
<1>1. TypeOK' BY Names DEF Fork, removeTree, IInv, TypeOK
<1>2. ProcessesAtPoint' BY DEF Fork, removeTree, IInv, TypeOK, ProcessesAtPoint
<1>3. OutcomeSoFar'
  BY DEF Fork, removeTree, IInv, TypeOK, ProcessesAtPoint, OutcomeSoFar
<1>4. QED BY <1>1, <1>2, <1>3 DEF IInv

(* The loop reads a chunk or finds the pipe empty. *)
LEMMA DrainInv == ASSUME IInv, Drain PROVE IInv'
<1>1. TypeOK' BY Numbers DEF Drain, IInv, TypeOK
<1>2. ProcessesAtPoint' BY DEF Drain, IInv, TypeOK, ProcessesAtPoint
<1>3. OutcomeSoFar'
  BY DEF Drain, IInv, TypeOK, ProcessesAtPoint, OutcomeSoFar
<1>4. QED BY <1>1, <1>2, <1>3 DEF IInv

(* The loop looks whether the child has ended. *)
LEMMA PollInv == ASSUME IInv, Poll PROVE IInv'
<1>1. TypeOK' BY Names DEF Poll, IInv, TypeOK
<1>2. ProcessesAtPoint' BY DEF Poll, IInv, TypeOK, ProcessesAtPoint
<1>3. OutcomeSoFar'
  BY DEF Poll, IInv, TypeOK, ProcessesAtPoint, OutcomeSoFar
<1>4. QED BY <1>1, <1>2, <1>3 DEF IInv

(* The loop checks the deadline. *)
LEMMA DeadlineInv == ASSUME IInv, Deadline PROVE IInv'
<1>1. TypeOK' BY Zeros, Names DEF Deadline, IInv, TypeOK
<1>2. ProcessesAtPoint' BY DEF Deadline, IInv, TypeOK, ProcessesAtPoint
<1>3. OutcomeSoFar'
  BY DEF Deadline, IInv, TypeOK, ProcessesAtPoint, OutcomeSoFar
<1>4. QED BY <1>1, <1>2, <1>3 DEF IInv

(* The loop insists once the grace period is over. *)
LEMMA InsistInv == ASSUME IInv, Insist PROVE IInv'
<1>1. TypeOK' BY Names DEF Insist, KillGroup, IInv, TypeOK
<1>2. ProcessesAtPoint' BY DEF Insist, KillGroup, IInv, TypeOK, ProcessesAtPoint
<1>3. OutcomeSoFar'
  BY DEF Insist, KillGroup, IInv, TypeOK, ProcessesAtPoint, OutcomeSoFar
<1>4. QED BY <1>1, <1>2, <1>3 DEF IInv

(* runJob returns with its verdict. *)
LEMMA CollectInv == ASSUME IInv, Collect PROVE IInv'
<1>1. TypeOK' BY VerdictIs DEF Collect, removeTree, IInv, TypeOK
<1>2. ProcessesAtPoint' BY DEF Collect, removeTree, IInv, TypeOK, ProcessesAtPoint
<1>3. OutcomeSoFar'
  BY DEF Collect, removeTree, IInv, TypeOK, ProcessesAtPoint, OutcomeSoFar
<1>4. QED BY <1>1, <1>2, <1>3 DEF IInv

(* The child becomes a group leader. *)
LEMMA ChildMakesGroupInv == ASSUME IInv, ChildMakesGroup PROVE IInv'
<1>1. TypeOK' BY Names DEF ChildMakesGroup, IInv, TypeOK
<1>2. ProcessesAtPoint' BY DEF ChildMakesGroup, IInv, TypeOK, ProcessesAtPoint
<1>3. OutcomeSoFar'
  BY DEF ChildMakesGroup, IInv, TypeOK, ProcessesAtPoint, OutcomeSoFar
<1>4. QED BY <1>1, <1>2, <1>3 DEF IInv

(* The child cannot enter the scratch directory. *)
LEMMA ChildFailsToEnterInv == ASSUME IInv, ChildFailsToEnter PROVE IInv'
<1>1. TypeOK' BY Names DEF ChildFailsToEnter, IInv, TypeOK
<1>2. ProcessesAtPoint' BY DEF ChildFailsToEnter, IInv, TypeOK, ProcessesAtPoint
<1>3. OutcomeSoFar'
  BY DEF ChildFailsToEnter, IInv, TypeOK, ProcessesAtPoint, OutcomeSoFar
<1>4. QED BY <1>1, <1>2, <1>3 DEF IInv

(* The child becomes brae, or cannot. *)
LEMMA ChildExecsInv == ASSUME IInv, NEW ok \in BOOLEAN, ChildExecs(ok) PROVE IInv'
<1>1. TypeOK' BY Names DEF ChildExecs, IInv, TypeOK
<1>2. ProcessesAtPoint' BY DEF ChildExecs, IInv, TypeOK, ProcessesAtPoint
<1>3. OutcomeSoFar'
  BY DEF ChildExecs, IInv, TypeOK, ProcessesAtPoint, OutcomeSoFar
<1>4. QED BY <1>1, <1>2, <1>3 DEF IInv

(* brae starts a helper. *)
LEMMA SpawnInv == ASSUME IInv, Spawn PROVE IInv'
<1>1. TypeOK' BY Names DEF Spawn, IInv, TypeOK
<1>2. ProcessesAtPoint' BY DEF Spawn, IInv, TypeOK, ProcessesAtPoint
<1>3. OutcomeSoFar'
  BY DEF Spawn, IInv, TypeOK, ProcessesAtPoint, OutcomeSoFar
<1>4. QED BY <1>1, <1>2, <1>3 DEF IInv

(* The helper ends. *)
LEMMA HelperEndsInv == ASSUME IInv, HelperEnds PROVE IInv'
<1>1. TypeOK' BY Names DEF HelperEnds, IInv, TypeOK
<1>2. ProcessesAtPoint' BY DEF HelperEnds, IInv, TypeOK, ProcessesAtPoint
<1>3. OutcomeSoFar'
  BY DEF HelperEnds, IInv, TypeOK, ProcessesAtPoint, OutcomeSoFar
<1>4. QED BY <1>1, <1>2, <1>3 DEF IInv

(* An orphan ends. *)
LEMMA OrphanEndsInv == ASSUME IInv, OrphanEnds PROVE IInv'
<1>1. TypeOK' BY Names DEF OrphanEnds, IInv, TypeOK
<1>2. ProcessesAtPoint' BY DEF OrphanEnds, IInv, TypeOK, ProcessesAtPoint
<1>3. OutcomeSoFar'
  BY DEF OrphanEnds, IInv, TypeOK, ProcessesAtPoint, OutcomeSoFar
<1>4. QED BY <1>1, <1>2, <1>3 DEF IInv

(* brae writes its result file. *)
LEMMA WriteResultInv == ASSUME IInv, WriteResult PROVE IInv'
<1>1. TypeOK' BY Names DEF WriteResult, IInv, TypeOK
<1>2. ProcessesAtPoint' BY DEF WriteResult, IInv, TypeOK, ProcessesAtPoint
<1>3. OutcomeSoFar'
  BY DEF WriteResult, IInv, TypeOK, ProcessesAtPoint, OutcomeSoFar
<1>4. QED BY <1>1, <1>2, <1>3 DEF IInv

(* The job writes a chunk of output. *)
LEMMA WriteOutputInv == ASSUME IInv, WriteOutput PROVE IInv'
<1>1. TypeOK' BY Numbers DEF WriteOutput, IInv, TypeOK
<1>2. ProcessesAtPoint' BY DEF WriteOutput, IInv, TypeOK, ProcessesAtPoint
<1>3. OutcomeSoFar'
  BY DEF WriteOutput, IInv, TypeOK, ProcessesAtPoint, OutcomeSoFar
<1>4. QED BY <1>1, <1>2, <1>3 DEF IInv

(* brae exits. *)
LEMMA LeaderReturnsInv == ASSUME IInv, NEW s \in {"exit0", "exitN"}, LeaderReturns(s) PROVE IInv'
<1>1. TypeOK' BY Names DEF LeaderReturns, IInv, TypeOK
<1>2. ProcessesAtPoint' BY DEF LeaderReturns, IInv, TypeOK, ProcessesAtPoint
<1>3. OutcomeSoFar'
  BY DEF LeaderReturns, IInv, TypeOK, ProcessesAtPoint, OutcomeSoFar
<1>4. QED BY <1>1, <1>2, <1>3 DEF IInv

(* The child is killed. *)
LEMMA LeaderDiesInv == ASSUME IInv, LeaderDies PROVE IInv'
<1>1. TypeOK' BY Names DEF LeaderDies, IInv, TypeOK
<1>2. ProcessesAtPoint' BY DEF LeaderDies, IInv, TypeOK, ProcessesAtPoint
<1>3. OutcomeSoFar'
  BY DEF LeaderDies, IInv, TypeOK, ProcessesAtPoint, OutcomeSoFar
<1>4. QED BY <1>1, <1>2, <1>3 DEF IInv

(* A second passes. *)
LEMMA TickInv == ASSUME IInv, Tick PROVE IInv'
<1>1. TypeOK' BY Numbers DEF Tick, IInv, TypeOK
<1>2. ProcessesAtPoint' BY DEF Tick, IInv, TypeOK, ProcessesAtPoint
<1>3. OutcomeSoFar'
  BY DEF Tick, IInv, TypeOK, ProcessesAtPoint, OutcomeSoFar
<1>4. QED BY <1>1, <1>2, <1>3 DEF IInv

(* The agent dies with the whole job. *)
LEMMA AgentDiesInv == ASSUME IInv, AgentDies PROVE IInv'
<1>1. TypeOK' BY Zeros, Names DEF AgentDies, IInv, TypeOK
<1>2. ProcessesAtPoint' BY DEF AgentDies, IInv, TypeOK, ProcessesAtPoint
<1>3. OutcomeSoFar'
  BY DEF AgentDies, IInv, TypeOK, ProcessesAtPoint, OutcomeSoFar
<1>4. QED BY <1>1, <1>2, <1>3 DEF IInv

(* Nothing happens. *)
LEMMA StutterInv == ASSUME IInv, UNCHANGED vars PROVE IInv'
<1>1. TypeOK' BY DEF vars, IInv, TypeOK
<1>2. ProcessesAtPoint' /\ OutcomeSoFar' BY DEF vars, IInv, ProcessesAtPoint, OutcomeSoFar
<1>3. QED BY <1>1, <1>2 DEF IInv

(* Every step preserves the invariant.                                       *)
LEMMA NextInv == IInv /\ [Next]_vars => IInv'
BY BeginInv, PrepareInv, MakePipesInv, ForkInv,
   DrainInv, PollInv, DeadlineInv, InsistInv,
   CollectInv, ChildMakesGroupInv, ChildFailsToEnterInv, ChildExecsInv,
   SpawnInv, HelperEndsInv, OrphanEndsInv, WriteResultInv, WriteOutputInv,
   LeaderReturnsInv, LeaderDiesInv, TickInv, AgentDiesInv,
   StutterInv
DEF Next, RunnerStep, ChildStep

(* The inductive invariant holds in every reachable state.                   *)
THEOREM Inductive == Spec => []IInv
<1>1. QED BY InitInv, NextInv, PTL DEF Spec

(* Type correctness of runJob's state, whatever the job does.                *)
THEOREM TypeCorrect == Spec => []TypeOK
<1>1. IInv => TypeOK BY DEF IInv
<1>2. QED BY <1>1, Inductive, PTL

(* runJob signals only the group of a child it has not reaped.               *)
THEOREM SignalsOwnGroupHolds == Spec => []SignalsOwnGroup
<1>1. IInv => SignalsOwnGroup BY DEF IInv, ProcessesAtPoint, SignalsOwnGroup
<1>2. QED BY <1>1, Inductive, PTL

(* A step other than Collect does not turn the outcome into a success.       *)
LEMMA OnlyCollectSucceeds ==
  ASSUME IInv, [Next]_vars, ~Collect, result' = "success"
  PROVE  result' = result
<1>1. CASE \E accepted \in BOOLEAN : Begin(accepted)
  BY <1>1 DEF Begin
<1>2. CASE \E ok \in BOOLEAN : Prepare(ok) \/ MakePipes(ok) \/ Fork(ok)
  BY <1>2 DEF Prepare, MakePipes, Fork
<1>3. CASE Drain \/ Poll \/ Deadline \/ Insist
  BY <1>3 DEF Drain, Poll, Deadline, Insist
<1>4. CASE ChildMakesGroup \/ ChildStep
  BY <1>4 DEF ChildMakesGroup, ChildStep, ChildFailsToEnter, Spawn, HelperEnds,
              OrphanEnds, WriteResult, WriteOutput, LeaderDies, ChildExecs, LeaderReturns
<1>5. CASE Tick \/ AgentDies \/ UNCHANGED vars
  BY <1>5 DEF Tick, AgentDies, vars
<1>6. QED BY <1>1, <1>2, <1>3, <1>4, <1>5 DEF Next, RunnerStep

(* Success is reported only for a job whose own child wrote its own result   *)
(* and exited with zero before the deadline.                                 *)
THEOREM SuccessIsEarnedHolds == Spec => SuccessIsEarned
<1>1. ASSUME IInv, [Next]_vars, result # "success", result' = "success"
      PROVE  scratch = "fresh" /\ leader = "reaped" /\ status = "exit0" /\ ~termSent
  <2>1. Collect BY <1>1, OnlyCollectSucceeds
  <2>2. result' = Verdict /\ rpc = "collect" BY <2>1 DEF Collect
  <2>3. HasResultFile /\ status = "exit0" /\ result # "timeout"
    BY <1>1, <2>2, VerdictIs DEF IInv
  <2>4. QED BY <1>1, <2>2, <2>3
            DEF IInv, ProcessesAtPoint, OutcomeSoFar, HasResultFile
<1>2. IInv /\ [Next]_vars =>
        [result # "success" /\ result' = "success" =>
           /\ scratch = "fresh" /\ leader = "reaped" /\ status = "exit0"
           /\ ~termSent]_vars
  BY <1>1
<1>3. QED BY <1>2, Inductive, PTL DEF Spec, SuccessIsEarned

(* runJob returns only with its child reaped, its result file gone, and its  *)
(* directory removed unless an outliving helper is at work in it.            *)
THEOREM NothingLeftBehindHolds == Spec => NothingLeftBehind
<1>1. ASSUME IInv, [Next]_vars, rpc # "done", rpc' = "done",
             result' # "none"
      PROVE  /\ leader \in {"none", "reaped"}
             /\ helper # "alive" /\ ~orphan => scratch' = "absent"
             /\ scratch' \in {"empty", "absent"}
  <2>1. CASE Collect
    BY <1>1, <2>1 DEF Collect, removeTree, IInv, ProcessesAtPoint
  <2>2. CASE \E ok \in BOOLEAN : Prepare(ok) \/ MakePipes(ok) \/ Fork(ok)
    BY <1>1, <2>2 DEF Prepare, MakePipes, Fork, removeTree, IInv, ProcessesAtPoint
  <2>3. CASE \/ \E ok \in BOOLEAN : Begin(ok)
             \/ Drain \/ Poll \/ Deadline \/ Insist
    BY <1>1, <2>3 DEF Begin, Drain, Poll, Deadline, Insist
  <2>4. CASE ChildMakesGroup \/ ChildStep
    BY <1>1, <2>4 DEF ChildMakesGroup, ChildStep, ChildFailsToEnter, Spawn,
         HelperEnds, OrphanEnds, WriteResult, WriteOutput, LeaderDies, ChildExecs, LeaderReturns
  <2>5. CASE Tick \/ AgentDies \/ UNCHANGED vars
    BY <1>1, <2>5 DEF Tick, AgentDies, vars
  <2>6. QED BY <1>1, <2>1, <2>2, <2>3, <2>4, <2>5 DEF Next, RunnerStep
<1>2. IInv /\ [Next]_vars =>
        [rpc # "done" /\ rpc' = "done" /\ result' # "none" =>
           /\ leader \in {"none", "reaped"}
           /\ helper # "alive" /\ ~orphan => scratch' = "absent"
           /\ scratch' \in {"empty", "absent"}]_vars
  BY <1>1
<1>3. QED BY <1>2, Inductive, PTL DEF Spec, NothingLeftBehind
=============================================================================
