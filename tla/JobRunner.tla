----------------------------- MODULE JobRunner -----------------------------
(***************************************************************************)
(* One job after another through runJob (src/src/node/runner.cpp): the     *)
(* scratch directory, the forked child and its process group, the polling  *)
(* loop with its deadline, and the verdict.                                *)
(*                                                                         *)
(* The child is `brae benchmark`, which waits for one helper at a time     *)
(* (git, then the solver: benchmark.cuh, run()) and writes                 *)
(* brae-benchmark.json before it returns.  leader is that child, helper    *)
(* its current child in the same process group.  What a process does with  *)
(* SIGTERM is its own business, so SIGTERM only makes a death that is      *)
(* possible anyway likely; SIGKILL is certain for every group member.      *)
(***************************************************************************)
EXTENDS Naturals

CONSTANTS
  Timeout,       \* seconds: job.timeoutSeconds, or the default when it is 0
  Grace,         \* RunSettings::killGraceSeconds
  PipeCapacity,  \* unread chunks a pipe holds before its writer blocks
  MaxOutput,     \* bound on the chunks a job that is not chatty writes
  Chatty,        \* the job writes without end
  MaxAttempts    \* bound on the calls of runJob

ASSUME JobRunnerAssumption ==
  /\ Timeout \in Nat \ {0} /\ Grace \in Nat
  /\ PipeCapacity \in Nat \ {0} /\ MaxOutput \in Nat /\ MaxAttempts \in Nat
  /\ Chatty \in BOOLEAN

VARIABLES
  rpc,       \* where runJob is; "done": it has returned
  scratch,   \* the job's directory and whose brae-benchmark.json it holds
  leader,    \* the forked child
  status,    \* its wait status once it is a zombie
  helper,    \* the child the leader waits for
  orphan,    \* a helper of an earlier call has outlived its leader
  pipe,      \* unread output
  written,   \* output so far, capped at MaxOutput
  elapsed,   \* seconds since started, capped at Timeout
  since,     \* seconds since termAt, capped at Grace
  termSent,
  result,    \* the JobOutcome returned
  attempts   \* calls of runJob so far

vars == <<rpc, scratch, leader, status, helper, orphan, pipe, written, elapsed,
          since, termSent, result, attempts>>
procVars == <<leader, status, helper, orphan, pipe, written>>
timeVars == <<elapsed, since, termSent>>

Points == {"prepare", "pipes", "fork", "drain", "poll", "deadline", "insist",
           "collect", "done"}
Loop == {"drain", "poll", "deadline", "insist"}
Statuses == {"none", "exit0", "exit126", "exit127", "exitN", "signal"}
(* A JobOutcome: "none" as constructed (no success, no error), "success", or *)
(* the error it names.                                                      *)
Outcomes == {"none", "success", "rejected", "cannot create scratch dir",
             "cannot create pipes", "cannot fork", "timeout", "no_result_file",
             "brae_not_found", "scratch_dir_unusable", "solver_exit",
             "killed_signal"}

Init ==
  /\ rpc = "done"
  /\ scratch = "absent"
  /\ leader = "none" /\ status = "none" /\ helper = "none" /\ orphan = FALSE
  /\ pipe = 0 /\ written = 0
  /\ elapsed = 0 /\ since = 0 /\ termSent = FALSE
  /\ result = "none"
  /\ attempts = 0

Return(r) == rpc' = "done" /\ result' = r

(* removeTree: every entry is unlinked, and the directory too unless a       *)
(* surviving helper adds an entry behind readdir.                            *)
removeTree ==
  IF helper = "alive" \/ orphan THEN scratch' \in {"empty", "absent"}
  ELSE scratch' = "absent"

-----------------------------------------------------------------------------
(* runJob up to jobScratchDir.  A result file left by an attempt that died   *)
(* with the agent is a stale one from here on, and a helper that outlived    *)
(* the previous call may still be at work in the job's directory.            *)
Begin(accepted) ==
  /\ rpc = "done" /\ attempts < MaxAttempts
  /\ attempts' = attempts + 1
  /\ scratch' = IF scratch = "fresh" THEN "stale" ELSE scratch
  /\ leader' = "none" /\ status' = "none" /\ helper' = "none"
  /\ orphan' = (orphan \/ helper = "alive")
  /\ pipe' = 0 /\ written' = 0
  /\ elapsed' = 0 /\ since' = 0 /\ termSent' = FALSE
  /\ IF accepted THEN rpc' = "prepare" /\ result' = "none"
                 ELSE Return("rejected")

(* Seeded defect: the directory of an earlier attempt is kept. *)
PrepareKeeping(made) ==
  /\ rpc = "prepare"
  /\ IF made
     THEN /\ rpc' = "pipes" /\ UNCHANGED result
          /\ scratch' = IF scratch = "absent" THEN "empty" ELSE scratch
     ELSE /\ Return("cannot create scratch dir")
          /\ UNCHANGED scratch
  /\ UNCHANGED <<procVars, timeVars, attempts>>

(* removeTree, then mkdir, for which EEXIST is as good as success: a         *)
(* directory that an orphan keeps has lost its result file all the same.     *)
Prepare(made) ==
  /\ rpc = "prepare"
  /\ IF made
     THEN rpc' = "pipes" /\ scratch' = "empty" /\ UNCHANGED result
     ELSE Return("cannot create scratch dir") /\ scratch' = "absent"
  /\ UNCHANGED <<procVars, timeVars, attempts>>

MakePipes(made) ==
  /\ rpc = "pipes"
  /\ IF made
     THEN rpc' = "fork" /\ UNCHANGED <<scratch, result>>
     ELSE Return("cannot create pipes") /\ removeTree
  /\ UNCHANGED <<procVars, timeVars, attempts>>

(* Seeded defect: the failure path leaves the directory. *)
ForkLeavingScratch(forked) ==
  /\ rpc = "fork"
  /\ IF forked
     THEN rpc' = "drain" /\ leader' = "forked" /\ UNCHANGED <<scratch, result>>
     ELSE Return("cannot fork") /\ UNCHANGED <<scratch, leader>>
  /\ UNCHANGED <<status, helper, orphan, pipe, written, timeVars, attempts>>

Fork(forked) ==
  /\ rpc = "fork"
  /\ IF forked
     THEN rpc' = "drain" /\ leader' = "forked" /\ UNCHANGED <<scratch, result>>
     ELSE Return("cannot fork") /\ removeTree /\ UNCHANGED leader
  /\ UNCHANGED <<status, helper, orphan, pipe, written, timeVars, attempts>>

-----------------------------------------------------------------------------
(* The loop.  The two read loops end when the pipe is empty (EAGAIN, EOF).   *)
Drain ==
  /\ rpc = "drain"
  /\ IF pipe > 0 THEN pipe' = pipe - 1 /\ UNCHANGED rpc
                 ELSE rpc' = "poll" /\ UNCHANGED pipe
  /\ UNCHANGED <<scratch, leader, status, helper, orphan, written, timeVars,
                 result, attempts>>

(* Seeded defect: the round goes on after the child has been reaped. *)
PollWithoutBreak ==
  /\ rpc = "poll"
  /\ IF leader = "zombie" THEN leader' = "reaped" ELSE UNCHANGED leader
  /\ rpc' = IF leader = "reaped" THEN "collect" ELSE "deadline"
  /\ UNCHANGED <<scratch, status, helper, orphan, pipe, written, timeVars, result,
                 attempts>>

(* waitpid(WNOHANG). *)
Poll ==
  /\ rpc = "poll"
  /\ IF leader = "zombie" THEN leader' = "reaped" /\ rpc' = "collect"
                          ELSE rpc' = "deadline" /\ UNCHANGED leader
  /\ UNCHANGED <<scratch, status, helper, orphan, pipe, written, timeVars, result,
                 attempts>>

(* kill(-pid, SIGTERM), once.  outcome.error becomes "timeout".              *)
Deadline ==
  /\ rpc = "deadline"
  /\ rpc' = "insist"
  /\ IF ~termSent /\ elapsed >= Timeout
     THEN termSent' = TRUE /\ since' = 0 /\ result' = "timeout"
     ELSE UNCHANGED <<termSent, since, result>>
  /\ UNCHANGED <<scratch, procVars, elapsed, attempts>>

(* Seeded defect: SIGTERM is never followed by SIGKILL. *)
InsistNever ==
  /\ rpc = "insist"
  /\ rpc' = "drain"
  /\ UNCHANGED <<scratch, procVars, timeVars, result, attempts>>

InGroup == {"grouped", "running"}

(* kill(-pid, SIGKILL) in every round after the grace period, then usleep.   *)
(* A child that has not called setpgid yet is not in the group.              *)
KillGroup ==
  /\ IF leader \in InGroup THEN leader' = "zombie" /\ status' = "signal"
                           ELSE UNCHANGED <<leader, status>>
  /\ helper' = IF helper = "alive" THEN "gone" ELSE helper

Insist ==
  /\ rpc = "insist"
  /\ rpc' = "drain"
  /\ IF termSent /\ since >= Grace THEN KillGroup
                                   ELSE UNCHANGED <<leader, status, helper>>
  /\ UNCHANGED <<scratch, orphan, pipe, written, timeVars, result, attempts>>

(* Reading the result file, the verdict, removeTree and the return.          *)
HasResultFile == scratch \in {"fresh", "stale"}

Verdict ==
  CASE result = "timeout" -> "timeout"
    [] result # "timeout" /\ status = "exit0" ->
         IF HasResultFile THEN "success" ELSE "no_result_file"
    [] result # "timeout" /\ status = "exit127" -> "brae_not_found"
    [] result # "timeout" /\ status = "exit126" -> "scratch_dir_unusable"
    [] result # "timeout" /\ status = "signal" -> "killed_signal"
    [] OTHER -> "solver_exit"

Collect ==
  /\ rpc = "collect"
  /\ Return(Verdict)
  /\ removeTree
  /\ UNCHANGED <<procVars, timeVars, attempts>>

-----------------------------------------------------------------------------
(* The child between fork and exec. *)
Exits(s) == leader' = "zombie" /\ status' = s

ChildFailsToEnter ==
  /\ leader = "forked"
  /\ Exits("exit126")
  /\ UNCHANGED <<rpc, scratch, helper, orphan, pipe, written, timeVars, result, attempts>>

ChildMakesGroup ==
  /\ leader = "forked"
  /\ leader' = "grouped"
  /\ UNCHANGED <<rpc, scratch, status, helper, orphan, pipe, written, timeVars, result,
                 attempts>>

ChildExecs(found) ==
  /\ leader = "grouped"
  /\ IF found THEN leader' = "running" /\ UNCHANGED status ELSE Exits("exit127")
  /\ UNCHANGED <<rpc, scratch, helper, orphan, pipe, written, timeVars, result, attempts>>

(* brae benchmark: run() starts a helper and waits for it.                   *)
Spawn ==
  /\ leader = "running" /\ helper # "alive"
  /\ helper' = "alive"
  /\ UNCHANGED <<rpc, scratch, leader, status, orphan, pipe, written, timeVars,
                 result, attempts>>

HelperEnds ==
  /\ helper = "alive"
  /\ helper' = "gone"
  /\ UNCHANGED <<rpc, scratch, leader, status, orphan, pipe, written, timeVars,
                 result, attempts>>

OrphanEnds ==
  /\ orphan /\ orphan' = FALSE
  /\ UNCHANGED <<rpc, scratch, leader, status, helper, pipe, written, timeVars,
                 result, attempts>>

WriteResult ==
  /\ leader = "running" /\ helper # "alive" /\ scratch # "absent"
  /\ scratch' = "fresh"
  /\ UNCHANGED <<rpc, procVars, timeVars, result, attempts>>

WriteOutput ==
  /\ leader = "running" \/ helper = "alive"
  /\ rpc \in Loop                    \* a write to a closed pipe goes nowhere
  /\ pipe < PipeCapacity
  /\ Chatty \/ written < MaxOutput
  /\ pipe' = pipe + 1
  /\ written' = IF written < MaxOutput THEN written + 1 ELSE written
  /\ UNCHANGED <<rpc, scratch, leader, status, helper, orphan, timeVars, result,
                 attempts>>

LeaderReturns(s) ==
  /\ leader = "running" /\ helper # "alive"
  /\ Exits(s)
  /\ UNCHANGED <<rpc, scratch, helper, orphan, pipe, written, timeVars, result, attempts>>

LeaderDies ==
  /\ leader \in {"forked", "grouped", "running"}
  /\ Exits("signal")
  /\ UNCHANGED <<rpc, scratch, helper, orphan, pipe, written, timeVars, result, attempts>>

Tick ==
  /\ rpc \in Loop
  /\ elapsed < Timeout \/ (termSent /\ since < Grace)
  /\ elapsed' = IF elapsed < Timeout THEN elapsed + 1 ELSE elapsed
  /\ since' = IF termSent /\ since < Grace THEN since + 1 ELSE since
  /\ UNCHANGED <<rpc, scratch, procVars, termSent, result, attempts>>

(* The agent dies: systemd stops the unit's whole control group, the scratch *)
(* directory stays.                                                          *)
AgentDies ==
  /\ rpc # "done"
  /\ Return("none")
  /\ leader' = "none" /\ status' = "none" /\ helper' = "none" /\ orphan' = FALSE
  /\ pipe' = 0 /\ written' = 0
  /\ UNCHANGED <<scratch, timeVars, attempts>>

-----------------------------------------------------------------------------
RunnerStep ==
  \/ \E ok \in BOOLEAN : Prepare(ok) \/ MakePipes(ok) \/ Fork(ok)
  \/ Drain \/ Poll \/ Deadline \/ Insist \/ Collect

ChildStep ==
  \/ ChildFailsToEnter \/ Spawn \/ HelperEnds \/ OrphanEnds \/ WriteResult
  \/ WriteOutput \/ LeaderDies
  \/ \E found \in BOOLEAN : ChildExecs(found)
  \/ \E s \in {"exit0", "exitN"} : LeaderReturns(s)

Next ==
  \/ \E accepted \in BOOLEAN : Begin(accepted)
  \/ RunnerStep \/ ChildMakesGroup \/ ChildStep \/ Tick \/ AgentDies

Spec == Init /\ [][Next]_vars

(* The worker thread runs, time passes, and the kernel schedules the forked  *)
(* child up to setpgid.  Nothing is assumed of the job itself.               *)
FairSpec == Spec /\ WF_vars(RunnerStep) /\ WF_vars(Tick) /\ WF_vars(ChildMakesGroup)

-----------------------------------------------------------------------------
(* The types; the pipe never holds more than it can.                         *)
TypeOK ==
  /\ rpc \in Points
  /\ scratch \in {"absent", "empty", "stale", "fresh"}
  /\ leader \in {"none", "forked", "grouped", "running", "zombie", "reaped"}
  /\ status \in Statuses
  /\ helper \in {"none", "alive", "gone"} /\ orphan \in BOOLEAN
  /\ pipe \in 0..PipeCapacity
  /\ written \in 0..MaxOutput
  /\ elapsed \in 0..Timeout /\ since \in 0..Grace
  /\ termSent \in BOOLEAN
  /\ result \in Outcomes
  /\ attempts \in 0..MaxAttempts

(* A job is reported successful only if its own child exited with zero,      *)
(* within the deadline, after writing its own result file: never on the      *)
(* strength of a file an earlier, interrupted attempt left behind.           *)
SuccessIsEarned ==
  [][result # "success" /\ result' = "success" =>
       /\ scratch = "fresh" /\ leader = "reaped" /\ status = "exit0"
       /\ ~termSent]_vars

(* A signal is sent only while the child is unreaped, so its pid still names *)
(* this job's group and no unrelated process can be hit.                     *)
SignalsOwnGroup == rpc \in {"deadline", "insist"} =>
                     leader \in {"forked", "grouped", "running", "zombie"}

(* On every path on which runJob returns once it has looked at the scratch   *)
(* directory, its child has been reaped and the directory is gone - unless a *)
(* helper that has outlived its leader, in this call or in an earlier one,   *)
(* is still at work in it; no result file stays behind even then.            *)
NothingLeftBehind ==
  [][rpc # "done" /\ rpc' = "done" /\ result' # "none" =>
       /\ leader \in {"none", "reaped"}
       /\ helper # "alive" /\ ~orphan => scratch' = "absent"
       /\ scratch' \in {"empty", "absent"}]_vars

(* A job that hangs does not hold the node for ever: runJob returns.         *)
HardDeadline == (rpc = "prepare") ~> (rpc = "done")
=============================================================================
