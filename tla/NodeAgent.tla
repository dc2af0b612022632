----------------------------- MODULE NodeAgent -----------------------------
(***************************************************************************)
(* The brae-agent daemon (src/src/node/agent.cpp): one tick() after        *)
(* another, a worker thread that executes at most one job, and a pending   *)
(* result file that outlives the process.                                  *)
(*                                                                         *)
(* A tick is a sequence of steps separated by the blocking HTTP calls;     *)
(* pc names the step tick() is about to take.  While call.kind # "none"    *)
(* the daemon thread sits inside http_.send() and only the worker thread,  *)
(* the control plane and the crash of the process can interleave.  The     *)
(* control plane itself is external; NodeSystem composes it with this      *)
(* module.                                                                 *)
(*                                                                         *)
(* Time.  Only the comparison now < nextPendingAttemptAt_ reads the clock, *)
(* so the model keeps the remaining seconds, wait.  pendingAttempts_ is    *)
(* only ever used to compute the next retry delay, so the model keeps that *)
(* delay; module Rules shows that the two agree.                           *)
(***************************************************************************)
EXTENDS Backoff, FiniteSets

CONSTANTS
  Jobs,          \* job ids the control plane knows
  NoJob,         \* the empty job id
  CallSeconds,   \* how long an HTTP call may take (0 .. timeoutSeconds)
  SaveMayFail    \* whether open/write/rename of the pending file can fail

ASSUME NodeAgentAssumption ==
  /\ NoJob \notin Jobs
  /\ CallSeconds \subseteq 0..30
  /\ SaveMayFail \in BOOLEAN

VARIABLES
  pc,            \* where tick() is: see Points; "down" while no process runs
  call,          \* the HTTP call the daemon is blocked in
  runningJobId,  \* Agent::runningJobId_
  acceptsJobs,   \* Agent::acceptsJobs_
  interval,      \* Agent::intervalSeconds_
  delay,         \* resultBackoffSeconds(pendingAttempts_)
  wait,          \* max(0, nextPendingAttemptAt_ - now)
  authRejected,  \* the TickOutcome run() saw last
  taken,         \* collectFinishedJob's local outcome
  worker,        \* worker_: "none" (not joinable), "running" or "exited"
  workJob,       \* the job the worker thread's closure captured
  collected,     \* ThreadedExecutor::collected_
  outcome,       \* ThreadedExecutor::outcome_
  pending        \* pending_result.json on disk

agentVars == <<pc, call, runningJobId, acceptsJobs, interval, delay, wait,
               authRejected, taken>>
execVars  == <<worker, workJob, collected, outcome>>
nodeVars  == <<agentVars, execVars, pending>>

-----------------------------------------------------------------------------
Points == {"down", "collect", "save", "report1", "report2", "snapshot",
           "accept", "sleep"}

(* A job outcome as the result body states it; job = NoJob when there is   *)
(* none.                                                                   *)
OutcomeStates == {"completed", "failed"}
Outcomes  == [job : Jobs, state : OutcomeStates]
NoOutcome == [job |-> NoJob, state |-> "failed"]

(* Requests to the control plane: a snapshot (job: the one it runs), the   *)
(* acceptance of a job, or the result of one.                              *)
Requests == [kind : {"snapshot", "accept", "result"},
             job : Jobs \cup {NoJob}, state : OutcomeStates]

Call(kind, job) == [kind |-> kind, job |-> job, state |-> "failed"]
NoCall == Call("none", NoJob)

(* Seeded defect: the result body always says "completed". *)
RequestAlwaysCompleted(kind, o) ==
  [kind |-> kind, job |-> o.job, state |-> "completed"]

Request(kind, o) == [kind |-> kind, job |-> o.job, state |-> o.state]

Clipped(n) == IF n < 0 THEN 0 ELSE n

-----------------------------------------------------------------------------
(* A process that has just been started: Agent's and ThreadedExecutor's    *)
(* member initialisers.                                                    *)
FreshProcess ==
  /\ call' = NoCall
  /\ runningJobId' = NoJob
  /\ acceptsJobs' = TRUE
  /\ interval' = 10
  /\ delay' = kResultBackoffBaseSeconds
  /\ wait' = 0
  /\ authRejected' = FALSE
  /\ taken' = NoOutcome
  /\ worker' = "none"
  /\ workJob' = NoJob
  /\ collected' = TRUE
  /\ outcome' = NoOutcome

NodeInit ==
  /\ pc = "collect"
  /\ call = NoCall
  /\ runningJobId = NoJob
  /\ acceptsJobs = TRUE
  /\ interval = 10
  /\ delay = kResultBackoffBaseSeconds
  /\ wait = 0
  /\ authRejected = FALSE
  /\ taken = NoOutcome
  /\ worker = "none"
  /\ workJob = NoJob
  /\ collected = TRUE
  /\ outcome = NoOutcome
  /\ pending = NoOutcome


(* Seeded defect: only the executor is asked, so a job that has ended but   *)
(* has not been collected no longer counts. *)
busyIsExecutorRunning == worker = "running"

busy == runningJobId # NoJob \/ worker = "running"
hasPendingResult == pending # NoOutcome
Idle == call = NoCall

-----------------------------------------------------------------------------
(* collectFinishedJob, up to takeOutcome.                                  *)
takeOutcomeSucceeds == worker # "running" /\ ~collected /\ worker = "exited"


(* Seeded defect: the tick waits for the running job. *)
WaitForTheJob ==
  /\ pc = "collect"
  /\ runningJobId = NoJob
  /\ pc' = "report2"
  /\ UNCHANGED <<call, runningJobId, acceptsJobs, interval, delay, wait,
                 authRejected, taken, execVars, pending>>

NothingToCollect ==
  /\ pc = "collect"
  /\ runningJobId = NoJob \/ ~takeOutcomeSucceeds
  /\ pc' = "report2"
  /\ UNCHANGED <<call, runningJobId, acceptsJobs, interval, delay, wait,
                 authRejected, taken, execVars, pending>>

TakeOutcome ==
  /\ pc = "collect"
  /\ runningJobId # NoJob
  /\ takeOutcomeSucceeds
  /\ taken' = outcome
  /\ worker' = "none"                    \* worker_.join()
  /\ collected' = TRUE
  /\ pc' = "save"
  /\ UNCHANGED <<call, runningJobId, acceptsJobs, interval, delay, wait,
                 authRejected, workJob, outcome, pending>>

(* savePendingResult (temporary file, fsync, rename: all or nothing), whose *)
(* result collectFinishedJob ignores, and the rest of that function up to   *)
(* its own reportPendingIfAny().                                            *)
SavePendingResult(ok) ==
  /\ pc = "save"
  /\ pending' = IF ok THEN taken ELSE pending
  /\ taken' = NoOutcome
  /\ runningJobId' = NoJob
  /\ delay' = kResultBackoffBaseSeconds
  /\ wait' = 0
  /\ pc' = "report1"
  /\ UNCHANGED <<call, acceptsJobs, interval, authRejected, execVars>>

-----------------------------------------------------------------------------
(* reportPendingIfAny, called by collectFinishedJob ("report1") and again   *)
(* by tick ("report2").                                                     *)
AfterReport == IF pc = "report1" THEN "report2" ELSE "snapshot"

SkipReport ==
  /\ pc \in {"report1", "report2"}
  /\ Idle
  /\ ~hasPendingResult \/ wait > 0
  /\ pc' = AfterReport
  /\ UNCHANGED <<call, runningJobId, acceptsJobs, interval, delay, wait,
                 authRejected, taken, execVars, pending>>


(* Seeded defect: the file is removed before the POST instead of after it. *)
SendReportClearingFirst ==
  /\ pc \in {"report1", "report2"}
  /\ Idle
  /\ hasPendingResult /\ wait = 0
  /\ call' = Request("result", pending)
  /\ pending' = NoOutcome
  /\ UNCHANGED <<pc, runningJobId, acceptsJobs, interval, delay, wait,
                 authRejected, taken, execVars>>

(* Seeded defect: retrying stops once the delay has reached its ceiling. *)
SendReportGivingUp ==
  /\ pc \in {"report1", "report2"}
  /\ Idle
  /\ hasPendingResult /\ wait = 0 /\ delay < kResultBackoffCapSeconds
  /\ call' = Request("result", pending)
  /\ UNCHANGED <<pc, runningJobId, acceptsJobs, interval, delay, wait,
                 authRejected, taken, execVars, pending>>

SendReport ==
  /\ pc \in {"report1", "report2"}
  /\ Idle
  /\ hasPendingResult /\ wait = 0
  /\ call' = Request("result", pending)
  /\ UNCHANGED <<pc, runningJobId, acceptsJobs, interval, delay, wait,
                 authRejected, taken, execVars, pending>>

(* Seeded defect: the file is removed whatever the reply was. *)
ReportReturnsClearing(settled, seconds) ==
  /\ pc \in {"report1", "report2"}
  /\ call.kind = "result"
  /\ pending' = NoOutcome
  /\ delay' = kResultBackoffBaseSeconds
  /\ wait' = 0
  /\ call' = NoCall
  /\ pc' = AfterReport
  /\ UNCHANGED <<runningJobId, acceptsJobs, interval, authRejected, taken,
                 execVars>>

(* The reply to the result POST.  settled: 2xx or 409.  now was read before *)
(* the call, so the seconds the call took are already part of the window.   *)
ReportReturns(settled, seconds) ==
  /\ pc \in {"report1", "report2"}
  /\ call.kind = "result"
  /\ IF settled
     THEN /\ pending' = NoOutcome        \* clearPendingResult
          /\ delay' = kResultBackoffBaseSeconds
          /\ wait' = 0
     ELSE /\ wait' = Clipped(delay - seconds)
          /\ delay' = NextDelay(delay)
          /\ UNCHANGED pending
  /\ call' = NoCall
  /\ pc' = AfterReport
  /\ UNCHANGED <<runningJobId, acceptsJobs, interval, authRejected, taken,
                 execVars>>

-----------------------------------------------------------------------------
(* The snapshot: status "running" with the job while busy.                  *)
SendSnapshot ==
  /\ pc = "snapshot"
  /\ Idle
  /\ call' = Call("snapshot", IF busy THEN runningJobId ELSE NoJob)
  /\ UNCHANGED <<pc, runningJobId, acceptsJobs, interval, delay, wait,
                 authRejected, taken, execVars, pending>>

(* No usable reply: rejected when it is a 401, else a transport failure, an *)
(* error status or an unreadable body.                                      *)
SnapshotFails(rejected, seconds) ==
  /\ pc = "snapshot"
  /\ call.kind = "snapshot"
  /\ call' = NoCall
  /\ authRejected' = rejected
  /\ wait' = Clipped(wait - seconds)
  /\ pc' = "sleep"
  /\ UNCHANGED <<runningJobId, acceptsJobs, interval, delay, taken, execVars,
                 pending>>

(* A readable reply.  offer is the job id of an assignment the parser could *)
(* fully understand, NoJob otherwise.  acceptsJobs_ is assigned before      *)
(* maybeTakeJob reads it.                                                   *)

(* Seeded defect: the check for an undelivered result is missing. *)
mayTakeJobIfIdle(offer, accepts) == offer # NoJob /\ ~busy /\ accepts

mayTakeJob(offer, accepts) ==
  offer # NoJob /\ ~busy /\ accepts /\ ~hasPendingResult

SnapshotAnswered(accepts, requested, offer, seconds) ==
  /\ pc = "snapshot"
  /\ call.kind = "snapshot"
  /\ acceptsJobs' = accepts
  /\ interval' = clampSnapshotInterval(requested)
  /\ authRejected' = FALSE
  /\ wait' = Clipped(wait - seconds)
  /\ IF mayTakeJob(offer, accepts)
     THEN /\ call' = Call("accept", offer)
          /\ pc' = "accept"
     ELSE /\ call' = NoCall
          /\ pc' = "sleep"
  /\ UNCHANGED <<runningJobId, delay, taken, execVars, pending>>

(* ThreadedExecutor::start, which returns at once while a job runs.         *)
start(job) ==
  IF worker = "running"
  THEN UNCHANGED execVars
  ELSE /\ worker' = "running"
       /\ workJob' = job
       /\ collected' = FALSE
       /\ UNCHANGED outcome

(* Seeded defect: the job is started whether or not the accept succeeded. *)
AcceptReturnsUnchecked(ok, seconds) ==
  /\ pc = "accept"
  /\ call.kind = "accept"
  /\ runningJobId' = call.job
  /\ start(call.job)
  /\ call' = NoCall
  /\ wait' = Clipped(wait - seconds)
  /\ pc' = "sleep"
  /\ UNCHANGED <<acceptsJobs, interval, delay, authRejected, taken, pending>>

AcceptReturns(ok, seconds) ==
  /\ pc = "accept"
  /\ call.kind = "accept"
  /\ IF ok
     THEN /\ runningJobId' = call.job
          /\ start(call.job)
     ELSE UNCHANGED <<runningJobId, execVars>>
  /\ call' = NoCall
  /\ wait' = Clipped(wait - seconds)
  /\ pc' = "sleep"
  /\ UNCHANGED <<acceptsJobs, interval, delay, authRejected, taken, pending>>

(* run(): sleep, then the next tick - also after a rejected token.          *)
kAuthRejectedSleepSeconds == 60

Sleep ==
  /\ pc = "sleep"
  /\ wait' = Clipped(wait - IF authRejected THEN kAuthRejectedSleepSeconds
                            ELSE interval)
  /\ pc' = "collect"
  /\ UNCHANGED <<call, runningJobId, acceptsJobs, interval, delay,
                 authRejected, taken, execVars, pending>>

-----------------------------------------------------------------------------
(* The worker thread: runJob returns, the outcome is stored, running_ falls *)
(* and the thread ends (takeOutcome joins it before it reads the outcome).  *)
JobEnds(state) ==
  /\ worker = "running"
  /\ outcome' = [job |-> workJob, state |-> state]
  /\ worker' = "exited"
  /\ UNCHANGED <<agentVars, workJob, collected, pending>>

(* The process dies (signal, power, systemd stop) and systemd starts it     *)
(* again: everything but the pending file is gone.                          *)
Crash ==
  /\ pc # "down"
  /\ pc' = "down"
  /\ FreshProcess
  /\ UNCHANGED pending

Restart ==
  /\ pc = "down"
  /\ pc' = "collect"
  /\ FreshProcess
  /\ UNCHANGED pending

NodeTypeOK ==
  /\ pc \in Points
  /\ call \in Requests \cup {NoCall}
  /\ runningJobId \in Jobs \cup {NoJob}
  /\ acceptsJobs \in BOOLEAN
  /\ interval \in kMinSnapshotIntervalSeconds .. kMaxSnapshotIntervalSeconds
  /\ delay \in kResultBackoffBaseSeconds .. kResultBackoffCapSeconds
  /\ wait \in 0 .. kResultBackoffCapSeconds
  /\ authRejected \in BOOLEAN
  /\ taken \in Outcomes \cup {NoOutcome}
  /\ worker \in {"none", "running", "exited"}
  /\ workJob \in Jobs \cup {NoJob}
  /\ collected \in BOOLEAN
  /\ outcome \in Outcomes \cup {NoOutcome}
  /\ pending \in Outcomes \cup {NoOutcome}
=============================================================================
