------------------------- MODULE NodeSystem_proofs -------------------------
(***************************************************************************)
(* Proofs about NodeSystem, for any set of jobs, any intervals the control *)
(* plane asks for, and any bound on late requests.                         *)
(***************************************************************************)
EXTENDS NodeSystem, TLAPS

-----------------------------------------------------------------------------
(* Where the daemon is in its tick determines which call it can be in.      *)
CallShape ==
  /\ call.kind = "none" => call = NoCall /\ reply = NoReply
  /\ call.kind = "result" => /\ pc \in {"report1", "report2"}
                             /\ pending # NoOutcome
                             /\ Posted(call) = pending
  /\ call.kind = "snapshot" => pc = "snapshot"
  /\ call.kind = "accept" => /\ pc = "accept"
                             /\ call.job \in Jobs
                             /\ ~busy /\ ~hasPendingResult

(* The job the worker holds is the one the agent knows it runs.             *)
WorkerShape ==
  /\ worker = "none" => pc = "save" \/ runningJobId = NoJob
  /\ worker # "none" => /\ workJob \in Jobs /\ runningJobId = workJob
                        /\ pc \notin {"down", "save"}
  /\ worker = "exited" => outcome \in Outcomes /\ outcome.job = workJob
  /\ pc = "save" => /\ call = NoCall
                    /\ taken \in Outcomes
                    /\ runningJobId = taken.job
  /\ pc = "down" => call = NoCall

(* What the control plane holds about the job at the node.                  *)
ServerShape ==
  /\ runningJobId \in Jobs => jobState[runningJobId] \in HeldJobs
  /\ call.kind = "accept" /\ isOk(reply) => jobState[call.job] \in HeldJobs
  /\ call.kind = "result" /\ (isOk(reply) \/ isConflict(reply)) =>
       jobState[call.job] \in Terminal
  /\ pending # NoOutcome => /\ pending \in finished
                            /\ jobState[pending.job] \in {"running"} \cup Terminal
  /\ \A r \in late : r.kind \in {"accept", "result"} /\ r.job \in Jobs

IInv ==
  /\ TypeOK
  /\ CallShape
  /\ WorkerShape
  /\ ServerShape
  /\ NoWorkWhileUndelivered
  /\ HeartbeatNamesJob
  /\ PersistedBeforeSent
  /\ RecordedIsTrue

(* Every interval the control plane asks for is an integer.                 *)
LEMMA IntervalsAreInt ==
  ASSUME NEW i \in Intervals \cup {10}
  PROVE  i \in Int
BY NodeSystemAssumption

(* After savePendingResult the file holds the outcome, unless saving failed.*)
LEMMA SavedOrFailed ==
  ASSUME SaveResult
  PROVE  pending' = taken \/ (SaveMayFail /\ pending' = pending)
<1>1. SavePendingResult(TRUE) \/ (SaveMayFail /\ SavePendingResult(FALSE))
  BY DEF SaveResult, SavePendingResult
<1> QED
  BY <1>1 DEF SavePendingResult

(* The vocabulary every step below is written in.                           *)
USE NodeAgentAssumption, NodeSystemAssumption
USE DEF Call, NoCall, NoOutcome, Answer, NoReply, Outcomes, OutcomeStates, Requests, Points,
        HeldJobs, Terminal, Posted, busy, hasPendingResult, isOk, isConflict,
        nodeVars, agentVars, execVars, serverVars

(* Every answer of the control plane is well typed.                         *)
LEMMA AnswerType ==
  ASSUME NEW code \in {0, 200, 401, 409, 500}
  PROVE  Answer(code) \in Replies /\ Answer(code).status = code
BY DEF Replies, Bodies

LEMMA SnapshotReplyType ==
  ASSUME NEW b \in Bodies, NEW a \in BOOLEAN, NEW i \in Intervals,
         NEW j \in Jobs \cup {NoJob}
  PROVE  [status |-> 200, body |-> b, accepts |-> a, intervalS |-> i,
          offer |-> j] \in Replies
BY DEF Replies

(* A fresh process is well typed.                                           *)
LEMMA FreshType ==
  ASSUME FreshProcess, pc' \in Points, pending' \in Outcomes \cup {NoOutcome}
  PROVE  NodeTypeOK'
<1>1. /\ call' \in Requests \cup {NoCall}
      /\ taken' \in Outcomes \cup {NoOutcome}
      /\ outcome' \in Outcomes \cup {NoOutcome}
  BY DEF FreshProcess
<1>2. /\ acceptsJobs' \in BOOLEAN
      /\ authRejected' \in BOOLEAN
      /\ collected' \in BOOLEAN
  BY DEF FreshProcess
<1>3. interval' \in 5..60 /\ delay' \in 2..60 /\ wait' \in 0..60
  BY DEF FreshProcess, kResultBackoffBaseSeconds
<1> QED
  BY <1>1, <1>2, <1>3
  DEF FreshProcess, NodeTypeOK, kMinSnapshotIntervalSeconds,
      kMaxSnapshotIntervalSeconds, kResultBackoffBaseSeconds,
      kResultBackoffCapSeconds

(* The tick finds no finished job. *)
LEMMA NothingToCollectInv ==
  ASSUME IInv, NothingToCollect, UNCHANGED <<serverVars, reply, late, finished>>
  PROVE  IInv'
<1> USE DEF IInv
<1>1. TypeOK'
  BY DEF NothingToCollect, TypeOK, NodeTypeOK, CallShape, WorkerShape,
         Replies, Bodies, JobStates
<1>2. CallShape'
  BY DEF NothingToCollect, TypeOK, NodeTypeOK, CallShape, WorkerShape,
         NoWorkWhileUndelivered
<1>3. WorkerShape'
  BY DEF NothingToCollect, TypeOK, NodeTypeOK, CallShape, WorkerShape
<1>4. ServerShape' /\ NoWorkWhileUndelivered' /\ HeartbeatNamesJob' /\
      PersistedBeforeSent' /\ RecordedIsTrue'
  BY DEF NothingToCollect, ServerShape, NoWorkWhileUndelivered,
         HeartbeatNamesJob, PersistedBeforeSent, RecordedIsTrue
<1> QED
  BY <1>1, <1>2, <1>3, <1>4

(* takeOutcome hands the worker's outcome to the agent. *)
LEMMA TakeOutcomeInv ==
  ASSUME IInv, TakeOutcome, UNCHANGED <<serverVars, reply, late, finished>>
  PROVE  IInv'
<1> USE DEF IInv
<1>1. TypeOK'
  BY DEF TakeOutcome, takeOutcomeSucceeds, TypeOK, NodeTypeOK, CallShape,
         WorkerShape, Replies, Bodies, JobStates
<1>2. CallShape'
  BY DEF TakeOutcome, takeOutcomeSucceeds, TypeOK, NodeTypeOK, CallShape,
         WorkerShape, NoWorkWhileUndelivered
<1>3. WorkerShape'
  BY DEF TakeOutcome, takeOutcomeSucceeds, TypeOK, NodeTypeOK, CallShape,
         WorkerShape
<1>4. NoWorkWhileUndelivered'
  BY DEF TakeOutcome, takeOutcomeSucceeds, TypeOK, NodeTypeOK,
         NoWorkWhileUndelivered, WorkerShape, CallShape
<1>5. HeartbeatNamesJob'
  BY DEF TakeOutcome, takeOutcomeSucceeds, TypeOK, NodeTypeOK,
         HeartbeatNamesJob, WorkerShape, CallShape
<1>6. ServerShape' /\ PersistedBeforeSent' /\ RecordedIsTrue'
  BY DEF TakeOutcome, takeOutcomeSucceeds, ServerShape, PersistedBeforeSent,
         RecordedIsTrue
<1> QED
  BY <1>1, <1>2, <1>3, <1>4, <1>5, <1>6

(* Nothing to report, or still inside the backoff window. *)
LEMMA SkipReportInv ==
  ASSUME IInv, SkipReport, UNCHANGED <<serverVars, reply, late, finished>>
  PROVE  IInv'
<1> USE DEF IInv
<1>1. TypeOK'
  BY DEF SkipReport, AfterReport, Idle, TypeOK, NodeTypeOK, CallShape,
         WorkerShape, Replies, Bodies, JobStates
<1>2. CallShape'
  BY DEF SkipReport, AfterReport, Idle, TypeOK, NodeTypeOK, CallShape,
         WorkerShape, NoWorkWhileUndelivered
<1>3. WorkerShape'
  BY DEF SkipReport, AfterReport, Idle, TypeOK, NodeTypeOK, CallShape,
         WorkerShape
<1>4. ServerShape' /\ NoWorkWhileUndelivered' /\ HeartbeatNamesJob' /\
      PersistedBeforeSent' /\ RecordedIsTrue'
  BY DEF SkipReport, AfterReport, Idle, ServerShape, NoWorkWhileUndelivered,
         HeartbeatNamesJob, PersistedBeforeSent, RecordedIsTrue
<1> QED
  BY <1>1, <1>2, <1>3, <1>4

(* The pending result is posted. *)
LEMMA SendReportInv ==
  ASSUME IInv, SendReport, UNCHANGED <<serverVars, reply, late, finished>>
  PROVE  IInv'
<1> USE DEF IInv
<1>1. TypeOK'
  BY DEF SendReport, Idle, Request, TypeOK, NodeTypeOK, CallShape,
         WorkerShape, Replies, Bodies, JobStates
<1>2. CallShape'
  BY DEF SendReport, Idle, Request, TypeOK, NodeTypeOK, CallShape,
         WorkerShape, NoWorkWhileUndelivered
<1>3. WorkerShape'
  BY DEF SendReport, Idle, Request, TypeOK, NodeTypeOK, CallShape,
         WorkerShape
<1>4. ServerShape'
  BY DEF SendReport, Idle, Request, TypeOK, NodeTypeOK, CallShape,
         WorkerShape, ServerShape, PersistedBeforeSent,
         NoWorkWhileUndelivered
<1>5. HeartbeatNamesJob'
  BY DEF SendReport, Idle, Request, TypeOK, NodeTypeOK, HeartbeatNamesJob,
         WorkerShape, CallShape
<1>6. PersistedBeforeSent'
  BY DEF SendReport, Idle, Request, TypeOK, NodeTypeOK, PersistedBeforeSent,
         CallShape, WorkerShape, ServerShape, NoWorkWhileUndelivered
<1>7. NoWorkWhileUndelivered' /\ RecordedIsTrue'
  BY DEF SendReport, Idle, Request, NoWorkWhileUndelivered, RecordedIsTrue
<1> QED
  BY <1>1, <1>2, <1>3, <1>4, <1>5, <1>6, <1>7

(* The heartbeat is sent. *)
LEMMA SendSnapshotInv ==
  ASSUME IInv, SendSnapshot, UNCHANGED <<serverVars, reply, late, finished>>
  PROVE  IInv'
<1> USE DEF IInv
<1>1. TypeOK'
  BY DEF SendSnapshot, Idle, TypeOK, NodeTypeOK, CallShape, WorkerShape,
         Replies, Bodies, JobStates
<1>2. CallShape'
  BY DEF SendSnapshot, Idle, TypeOK, NodeTypeOK, CallShape, WorkerShape,
         NoWorkWhileUndelivered
<1>3. WorkerShape'
  BY DEF SendSnapshot, Idle, TypeOK, NodeTypeOK, CallShape, WorkerShape
<1>4. ServerShape'
  BY DEF SendSnapshot, Idle, TypeOK, NodeTypeOK, CallShape, WorkerShape,
         ServerShape, PersistedBeforeSent, NoWorkWhileUndelivered
<1>5. HeartbeatNamesJob'
  BY DEF SendSnapshot, Idle, TypeOK, NodeTypeOK, HeartbeatNamesJob,
         WorkerShape, CallShape
<1>6. PersistedBeforeSent'
  BY DEF SendSnapshot, Idle, TypeOK, NodeTypeOK, PersistedBeforeSent,
         CallShape, WorkerShape, ServerShape, NoWorkWhileUndelivered
<1>7. NoWorkWhileUndelivered' /\ RecordedIsTrue'
  BY DEF SendSnapshot, Idle, NoWorkWhileUndelivered, RecordedIsTrue
<1> QED
  BY <1>1, <1>2, <1>3, <1>4, <1>5, <1>6, <1>7

(* Between two ticks. *)
LEMMA SleepInv ==
  ASSUME IInv, Sleep, UNCHANGED <<serverVars, reply, late, finished>>
  PROVE  IInv'
<1> USE DEF IInv
<1>1. TypeOK'
  BY DEF Sleep, Clipped, kAuthRejectedSleepSeconds, TypeOK, NodeTypeOK,
         CallShape, WorkerShape, Replies, Bodies, JobStates,
         kResultBackoffBaseSeconds, kResultBackoffCapSeconds,
         kMinSnapshotIntervalSeconds, kMaxSnapshotIntervalSeconds
<1>2. CallShape'
  BY DEF Sleep, Clipped, kAuthRejectedSleepSeconds, TypeOK, NodeTypeOK,
         CallShape, WorkerShape, NoWorkWhileUndelivered
<1>3. WorkerShape'
  BY DEF Sleep, Clipped, kAuthRejectedSleepSeconds, TypeOK, NodeTypeOK,
         CallShape, WorkerShape
<1>4. ServerShape' /\ NoWorkWhileUndelivered' /\ HeartbeatNamesJob' /\
      PersistedBeforeSent' /\ RecordedIsTrue'
  BY DEF Sleep, Clipped, kAuthRejectedSleepSeconds, ServerShape,
         NoWorkWhileUndelivered, HeartbeatNamesJob, PersistedBeforeSent,
         RecordedIsTrue
<1> QED
  BY <1>1, <1>2, <1>3, <1>4

(* systemd starts the daemon again. *)
LEMMA RestartInv ==
  ASSUME IInv, Restart, UNCHANGED <<serverVars, reply, late, finished>>
  PROVE  IInv'
<1> USE DEF IInv
<1>1. TypeOK'
  BY FreshType DEF Restart, TypeOK, NodeTypeOK, Replies, Bodies, JobStates
<1>2. CallShape'
  BY DEF Restart, FreshProcess, TypeOK, NodeTypeOK, CallShape, WorkerShape,
         NoWorkWhileUndelivered
<1>3. WorkerShape'
  BY DEF Restart, FreshProcess, TypeOK, NodeTypeOK, CallShape, WorkerShape
<1>4. ServerShape'
  BY DEF Restart, FreshProcess, TypeOK, NodeTypeOK, CallShape, WorkerShape,
         ServerShape, PersistedBeforeSent, NoWorkWhileUndelivered
<1>5. NoWorkWhileUndelivered'
  BY DEF Restart, FreshProcess, TypeOK, NodeTypeOK, NoWorkWhileUndelivered,
         WorkerShape, CallShape
<1>6. HeartbeatNamesJob'
  BY DEF Restart, FreshProcess, TypeOK, NodeTypeOK, HeartbeatNamesJob,
         WorkerShape, CallShape
<1>7. PersistedBeforeSent'
  BY DEF Restart, FreshProcess, TypeOK, NodeTypeOK, PersistedBeforeSent,
         CallShape, WorkerShape, ServerShape, NoWorkWhileUndelivered
<1>8. RecordedIsTrue'
  BY DEF Restart, FreshProcess, RecordedIsTrue
<1> QED
  BY <1>1, <1>2, <1>3, <1>4, <1>5, <1>6, <1>7, <1>8

(* The finished result goes to disk (or, with SaveMayFail, nowhere). *)
LEMMA SaveResultInv ==
  ASSUME IInv, SaveResult
  PROVE  IInv'
<1> USE DEF IInv
<1>1. TypeOK'
  BY DEF SaveResult, SavePendingResult, TypeOK, NodeTypeOK, CallShape,
         WorkerShape, Replies, Bodies, JobStates, kResultBackoffBaseSeconds,
         kResultBackoffCapSeconds
<1>2. CallShape'
  BY DEF SaveResult, SavePendingResult, TypeOK, NodeTypeOK, CallShape,
         WorkerShape, NoWorkWhileUndelivered
<1>3. WorkerShape'
  BY DEF SaveResult, SavePendingResult, TypeOK, NodeTypeOK, CallShape,
         WorkerShape
<1>4. ServerShape'
  BY DEF SaveResult, SavePendingResult, TypeOK, NodeTypeOK, CallShape,
         WorkerShape, ServerShape, PersistedBeforeSent,
         NoWorkWhileUndelivered
<1>5. NoWorkWhileUndelivered'
  BY DEF SaveResult, SavePendingResult, TypeOK, NodeTypeOK,
         NoWorkWhileUndelivered, WorkerShape, CallShape
<1>6. PersistedBeforeSent'
  BY DEF SaveResult, SavePendingResult, TypeOK, NodeTypeOK,
         PersistedBeforeSent, CallShape, WorkerShape, ServerShape,
         NoWorkWhileUndelivered
<1>7. RecordedIsTrue'
  BY DEF SaveResult, SavePendingResult, TypeOK, NodeTypeOK, RecordedIsTrue,
         PersistedBeforeSent, CallShape, ServerShape
<1>8. HeartbeatNamesJob'
  BY DEF SaveResult, SavePendingResult, HeartbeatNamesJob
<1> QED
  BY <1>1, <1>2, <1>3, <1>4, <1>5, <1>6, <1>7, <1>8

(* The worker thread ends. *)
LEMMA JobEndsInv ==
  ASSUME IInv, WorkerStep
  PROVE  IInv'
<1> USE DEF IInv
<1>1. TypeOK'
  BY DEF WorkerStep, JobEnds, TypeOK, NodeTypeOK, CallShape, WorkerShape,
         Replies, Bodies, JobStates
<1>2. CallShape'
  BY DEF WorkerStep, JobEnds, TypeOK, NodeTypeOK, CallShape, WorkerShape,
         NoWorkWhileUndelivered
<1>3. WorkerShape'
  BY DEF WorkerStep, JobEnds, TypeOK, NodeTypeOK, CallShape, WorkerShape
<1>4. NoWorkWhileUndelivered'
  BY DEF WorkerStep, JobEnds, TypeOK, NodeTypeOK, NoWorkWhileUndelivered,
         WorkerShape, CallShape
<1>5. HeartbeatNamesJob'
  BY DEF WorkerStep, JobEnds, TypeOK, NodeTypeOK, HeartbeatNamesJob,
         WorkerShape, CallShape
<1>6. ServerShape' /\ PersistedBeforeSent' /\ RecordedIsTrue'
  BY DEF WorkerStep, JobEnds, ServerShape, PersistedBeforeSent,
         RecordedIsTrue
<1> QED
  BY <1>1, <1>2, <1>3, <1>4, <1>5, <1>6

(* The process dies, perhaps inside a call. *)
LEMMA CrashInv ==
  ASSUME IInv, NodeCrashes
  PROVE  IInv'
<1> USE DEF IInv
<1>1. TypeOK'
  BY FreshType DEF NodeCrashes, Crash, Straggles, TypeOK, NodeTypeOK, Replies, Bodies,
         JobStates
<1>2. CallShape'
  BY DEF NodeCrashes, Crash, FreshProcess, Straggles, TypeOK, NodeTypeOK,
         CallShape, WorkerShape, NoWorkWhileUndelivered
<1>3. WorkerShape'
  BY DEF NodeCrashes, Crash, FreshProcess, Straggles, TypeOK, NodeTypeOK,
         CallShape, WorkerShape
<1>4. ServerShape'
  BY DEF NodeCrashes, Crash, FreshProcess, Straggles, TypeOK, NodeTypeOK,
         CallShape, WorkerShape, ServerShape, PersistedBeforeSent,
         NoWorkWhileUndelivered
<1>5. NoWorkWhileUndelivered'
  BY DEF NodeCrashes, Crash, FreshProcess, Straggles, TypeOK, NodeTypeOK,
         NoWorkWhileUndelivered, WorkerShape, CallShape
<1>6. HeartbeatNamesJob'
  BY DEF NodeCrashes, Crash, FreshProcess, Straggles, TypeOK, NodeTypeOK,
         HeartbeatNamesJob, WorkerShape, CallShape
<1>7. PersistedBeforeSent'
  BY DEF NodeCrashes, Crash, FreshProcess, Straggles, TypeOK, NodeTypeOK,
         PersistedBeforeSent, CallShape, WorkerShape, ServerShape,
         NoWorkWhileUndelivered
<1>8. RecordedIsTrue'
  BY DEF NodeCrashes, Crash, FreshProcess, Straggles, RecordedIsTrue
<1> QED
  BY <1>1, <1>2, <1>3, <1>4, <1>5, <1>6, <1>7, <1>8

(* The return of any call: the reply slot is emptied, and at most the       *)
(* request itself stays behind in the network.                              *)
Environment ==
  /\ reply' = NoReply
  /\ Straggles
  /\ UNCHANGED <<serverVars, finished>>

(* The result POST returns: the file is removed only if the control plane
   holds a terminal state for the job. *)
LEMMA ReportReturnsInv ==
  ASSUME IInv, NEW r \in {reply, NoReply}, NEW s \in CallSeconds,
         ReportReturns(isOk(r) \/ isConflict(r), s), Environment
  PROVE  IInv'
<1> USE DEF IInv
<1>1. TypeOK'
  BY DEF ReportReturns, Environment, Straggles, AfterReport, TypeOK,
         NodeTypeOK, CallShape, WorkerShape, Replies, Bodies, JobStates,
         Clipped, NextDelay, kResultBackoffBaseSeconds,
         kResultBackoffCapSeconds
<1>2. CallShape'
  BY DEF ReportReturns, Environment, Straggles, AfterReport, TypeOK,
         NodeTypeOK, CallShape, WorkerShape, NoWorkWhileUndelivered
<1>3. WorkerShape'
  BY DEF ReportReturns, Environment, Straggles, AfterReport, TypeOK,
         NodeTypeOK, CallShape, WorkerShape
<1>4. ServerShape'
  BY DEF ReportReturns, Environment, Straggles, AfterReport, TypeOK,
         NodeTypeOK, CallShape, WorkerShape, ServerShape,
         PersistedBeforeSent, NoWorkWhileUndelivered
<1>5. NoWorkWhileUndelivered'
  BY DEF ReportReturns, Environment, Straggles, AfterReport, TypeOK,
         NodeTypeOK, NoWorkWhileUndelivered, WorkerShape, CallShape
<1>6. HeartbeatNamesJob'
  BY DEF ReportReturns, Environment, Straggles, AfterReport, TypeOK,
         NodeTypeOK, HeartbeatNamesJob, WorkerShape, CallShape
<1>7. PersistedBeforeSent'
  BY DEF ReportReturns, Environment, Straggles, AfterReport, TypeOK,
         NodeTypeOK, PersistedBeforeSent, CallShape, WorkerShape,
         ServerShape, NoWorkWhileUndelivered
<1>8. RecordedIsTrue'
  BY DEF ReportReturns, Environment, Straggles, AfterReport, RecordedIsTrue
<1> QED
  BY <1>1, <1>2, <1>3, <1>4, <1>5, <1>6, <1>7, <1>8

(* The snapshot gets no usable reply. *)
LEMMA SnapshotFailsInv ==
  ASSUME IInv, NEW b \in BOOLEAN, NEW s \in CallSeconds,
         SnapshotFails(b, s), Environment
  PROVE  IInv'
<1> USE DEF IInv
<1>1. TypeOK'
  BY DEF SnapshotFails, Environment, Straggles, TypeOK, NodeTypeOK,
         CallShape, WorkerShape, Replies, Bodies, JobStates, Clipped,
         kResultBackoffBaseSeconds, kResultBackoffCapSeconds
<1>2. CallShape'
  BY DEF SnapshotFails, Environment, Straggles, TypeOK, NodeTypeOK,
         CallShape, WorkerShape, NoWorkWhileUndelivered
<1>3. WorkerShape'
  BY DEF SnapshotFails, Environment, Straggles, TypeOK, NodeTypeOK,
         CallShape, WorkerShape
<1>4. ServerShape'
  BY DEF SnapshotFails, Environment, Straggles, TypeOK, NodeTypeOK,
         CallShape, WorkerShape, ServerShape, PersistedBeforeSent,
         NoWorkWhileUndelivered
<1>5. HeartbeatNamesJob'
  BY DEF SnapshotFails, Environment, Straggles, TypeOK, NodeTypeOK,
         HeartbeatNamesJob, WorkerShape, CallShape
<1>6. PersistedBeforeSent'
  BY DEF SnapshotFails, Environment, Straggles, TypeOK, NodeTypeOK,
         PersistedBeforeSent, CallShape, WorkerShape, ServerShape,
         NoWorkWhileUndelivered
<1>7. NoWorkWhileUndelivered' /\ RecordedIsTrue'
  BY DEF SnapshotFails, Environment, Straggles, NoWorkWhileUndelivered,
         RecordedIsTrue
<1> QED
  BY <1>1, <1>2, <1>3, <1>4, <1>5, <1>6, <1>7

(* The snapshot is answered and an offer perhaps accepted. *)
LEMMA SnapshotAnsweredInv ==
  ASSUME IInv, NEW a \in BOOLEAN, NEW i \in Int, NEW j \in Jobs \cup {NoJob},
         NEW s \in CallSeconds, SnapshotAnswered(a, i, j, s), Environment
  PROVE  IInv'
<1> USE DEF IInv
<1>1. TypeOK'
  <2>1. wait' \in 0 .. kResultBackoffCapSeconds
    BY DEF SnapshotAnswered, Clipped, TypeOK, NodeTypeOK,
           kResultBackoffCapSeconds
  <2>2. interval' \in kMinSnapshotIntervalSeconds .. kMaxSnapshotIntervalSeconds
    BY DEF SnapshotAnswered, clampSnapshotInterval,
           kMinSnapshotIntervalSeconds, kMaxSnapshotIntervalSeconds
  <2>3. late' \subseteq Requests
    BY DEF Environment, Straggles, TypeOK, NodeTypeOK
  <2>4. call' \in Requests \cup {NoCall} /\ pc' \in Points
    BY DEF SnapshotAnswered
  <2>5. acceptsJobs' \in BOOLEAN /\ authRejected' \in BOOLEAN
    BY DEF SnapshotAnswered
  <2>6. reply' \in Replies
    BY AnswerType DEF Environment
  <2> QED
    BY <2>1, <2>2, <2>3, <2>4, <2>5, <2>6
    DEF SnapshotAnswered, Environment, TypeOK, NodeTypeOK, Replies, Bodies
<1>2. CallShape'
  BY DEF SnapshotAnswered, mayTakeJob, Environment, Straggles, TypeOK,
         NodeTypeOK, CallShape, WorkerShape, NoWorkWhileUndelivered
<1>3. WorkerShape'
  BY DEF SnapshotAnswered, mayTakeJob, Environment, Straggles, TypeOK,
         NodeTypeOK, CallShape, WorkerShape
<1>4. ServerShape'
  BY DEF SnapshotAnswered, mayTakeJob, Environment, Straggles, TypeOK,
         NodeTypeOK, CallShape, WorkerShape, ServerShape,
         PersistedBeforeSent, NoWorkWhileUndelivered
<1>5. HeartbeatNamesJob'
  BY DEF SnapshotAnswered, mayTakeJob, Environment, Straggles, TypeOK,
         NodeTypeOK, HeartbeatNamesJob, WorkerShape, CallShape
<1>6. PersistedBeforeSent'
  BY DEF SnapshotAnswered, mayTakeJob, Environment, Straggles, TypeOK,
         NodeTypeOK, PersistedBeforeSent, CallShape, WorkerShape,
         ServerShape, NoWorkWhileUndelivered
<1>7. NoWorkWhileUndelivered' /\ RecordedIsTrue'
  BY DEF SnapshotAnswered, mayTakeJob, Environment, Straggles,
         NoWorkWhileUndelivered, RecordedIsTrue
<1> QED
  BY <1>1, <1>2, <1>3, <1>4, <1>5, <1>6, <1>7

(* The accept returns and, if it succeeded, the job is started. *)
LEMMA AcceptReturnsInv ==
  ASSUME IInv, NEW r \in {reply, NoReply}, NEW s \in CallSeconds,
         AcceptReturns(isOk(r), s), Environment
  PROVE  IInv'
<1> USE DEF IInv
<1>1. TypeOK'
  <2>1. wait' \in 0 .. kResultBackoffCapSeconds
    BY DEF AcceptReturns, Clipped, TypeOK, NodeTypeOK, kResultBackoffCapSeconds
  <2>2. late' \subseteq Requests
    BY DEF Environment, Straggles, TypeOK, NodeTypeOK
  <2>3. /\ runningJobId' \in Jobs \cup {NoJob}
        /\ workJob' \in Jobs \cup {NoJob}
        /\ worker' \in {"none", "running", "exited"}
        /\ outcome' = outcome
    BY DEF AcceptReturns, start, TypeOK, NodeTypeOK
  <2>4. collected' \in BOOLEAN
    BY DEF AcceptReturns, start, TypeOK, NodeTypeOK
  <2> QED
    BY <2>1, <2>2, <2>3, <2>4
    DEF AcceptReturns, Environment, TypeOK, NodeTypeOK, Replies, Bodies
<1>2. CallShape'
  BY DEF AcceptReturns, start, Environment, Straggles, TypeOK, NodeTypeOK,
         CallShape, WorkerShape, NoWorkWhileUndelivered
<1>3. WorkerShape'
  BY DEF AcceptReturns, start, Environment, Straggles, TypeOK, NodeTypeOK,
         CallShape, WorkerShape
<1>4. ServerShape'
  BY DEF AcceptReturns, start, Environment, Straggles, TypeOK, NodeTypeOK,
         CallShape, WorkerShape, ServerShape, PersistedBeforeSent,
         NoWorkWhileUndelivered
<1>5. NoWorkWhileUndelivered'
  BY DEF AcceptReturns, start, Environment, Straggles, TypeOK, NodeTypeOK,
         NoWorkWhileUndelivered, WorkerShape, CallShape
<1>6. HeartbeatNamesJob'
  BY DEF AcceptReturns, start, Environment, Straggles, TypeOK, NodeTypeOK,
         HeartbeatNamesJob, WorkerShape, CallShape
<1>7. PersistedBeforeSent'
  BY DEF AcceptReturns, start, Environment, Straggles, TypeOK, NodeTypeOK,
         PersistedBeforeSent, CallShape, WorkerShape, ServerShape,
         NoWorkWhileUndelivered
<1>8. RecordedIsTrue'
  BY DEF AcceptReturns, start, Environment, Straggles, RecordedIsTrue
<1> QED
  BY <1>1, <1>2, <1>3, <1>4, <1>5, <1>6, <1>7, <1>8

(* The control plane answers a snapshot. *)
LEMMA HandleSnapshotInv ==
  ASSUME IInv, HandleSnapshot
  PROVE  IInv'
<1> USE DEF IInv
<1>1. TypeOK'
  <2>1. reply' \in Replies
    <3>1. CASE reply' = Answer(500)
      BY <3>1, AnswerType
    <3>2. CASE \E b \in Bodies, a \in BOOLEAN, i \in Intervals,
                  j \in Jobs \cup {NoJob} :
                 reply' = [status |-> 200, body |-> b, accepts |-> a,
                           intervalS |-> i, offer |-> j]
      BY <3>2, SnapshotReplyType
    <3> QED
      BY <3>1, <3>2 DEF HandleSnapshot
  <2>2. jobState' \in [Jobs -> JobStates]
    BY DEF HandleSnapshot, TypeOK, JobStates
  <2> QED
    BY <2>1, <2>2 DEF HandleSnapshot, TypeOK, NodeTypeOK
<1>2. CallShape'
  BY DEF HandleSnapshot, TypeOK, NodeTypeOK, CallShape, WorkerShape,
         NoWorkWhileUndelivered
<1>3. ServerShape'
  BY DEF HandleSnapshot, TypeOK, NodeTypeOK, CallShape, WorkerShape,
         ServerShape, PersistedBeforeSent, NoWorkWhileUndelivered
<1>4. PersistedBeforeSent'
  BY DEF HandleSnapshot, TypeOK, NodeTypeOK, PersistedBeforeSent, CallShape,
         WorkerShape, ServerShape, NoWorkWhileUndelivered
<1>5. RecordedIsTrue'
  BY DEF HandleSnapshot, TypeOK, NodeTypeOK, RecordedIsTrue,
         PersistedBeforeSent, CallShape, ServerShape
<1>6. WorkerShape' /\ NoWorkWhileUndelivered' /\ HeartbeatNamesJob'
  BY DEF HandleSnapshot, WorkerShape, NoWorkWhileUndelivered,
         HeartbeatNamesJob
<1> QED
  BY <1>1, <1>2, <1>3, <1>4, <1>5, <1>6

(* The control plane handles an accept or a result. *)
LEMMA HandleRequestInv ==
  ASSUME IInv, HandleRequest
  PROVE  IInv'
<1> USE DEF IInv
<1>1. TypeOK'
  <2>1. reply' \in Replies
    <3>1. reply' = Answer(200) \/ reply' = Answer(409)
      BY DEF HandleRequest
    <3>2. CASE reply' = Answer(200)
      BY <3>2, AnswerType
    <3>3. CASE reply' = Answer(409)
      BY <3>3, AnswerType
    <3> QED
      BY <3>1, <3>2, <3>3
  <2>2. call.job \in Jobs => jobState' \in [Jobs -> JobStates]
    BY DEF HandleRequest, Apply, TypeOK, NodeTypeOK, JobStates
  <2>3. call.job \in Jobs
    BY DEF HandleRequest, CallShape, TypeOK, NodeTypeOK
  <2> QED
    BY <2>1, <2>2, <2>3 DEF HandleRequest, TypeOK, NodeTypeOK
<1>2. CallShape'
  BY DEF HandleRequest, Applies, Apply, TypeOK, NodeTypeOK, CallShape,
         WorkerShape, NoWorkWhileUndelivered
<1>3. ServerShape'
  BY DEF HandleRequest, Applies, Apply, TypeOK, NodeTypeOK, CallShape,
         WorkerShape, ServerShape, PersistedBeforeSent,
         NoWorkWhileUndelivered
<1>4. PersistedBeforeSent'
  BY DEF HandleRequest, Applies, Apply, TypeOK, NodeTypeOK,
         PersistedBeforeSent, CallShape, WorkerShape, ServerShape,
         NoWorkWhileUndelivered
<1>5. RecordedIsTrue'
  BY DEF HandleRequest, Applies, Apply, TypeOK, NodeTypeOK, RecordedIsTrue,
         PersistedBeforeSent, CallShape, ServerShape
<1>6. WorkerShape' /\ NoWorkWhileUndelivered' /\ HeartbeatNamesJob'
  BY DEF HandleRequest, Applies, Apply, WorkerShape, NoWorkWhileUndelivered,
         HeartbeatNamesJob
<1> QED
  BY <1>1, <1>2, <1>3, <1>4, <1>5, <1>6

(* The control plane fails. *)
LEMMA FailRequestInv ==
  ASSUME IInv, FailRequest
  PROVE  IInv'
<1> USE DEF IInv
<1>1. TypeOK'
  BY DEF FailRequest, TypeOK, NodeTypeOK, CallShape, WorkerShape, Replies,
         Bodies, JobStates
<1>2. CallShape'
  BY DEF FailRequest, TypeOK, NodeTypeOK, CallShape, WorkerShape,
         NoWorkWhileUndelivered
<1>3. ServerShape'
  BY DEF FailRequest, TypeOK, NodeTypeOK, CallShape, WorkerShape,
         ServerShape, PersistedBeforeSent, NoWorkWhileUndelivered
<1>4. WorkerShape' /\ NoWorkWhileUndelivered' /\ HeartbeatNamesJob' /\
      PersistedBeforeSent' /\ RecordedIsTrue'
  BY DEF FailRequest, WorkerShape, NoWorkWhileUndelivered,
         HeartbeatNamesJob, PersistedBeforeSent, RecordedIsTrue
<1> QED
  BY <1>1, <1>2, <1>3, <1>4

(* The control plane rejects the token. *)
LEMMA RejectTokenInv ==
  ASSUME IInv, RejectToken
  PROVE  IInv'
<1> USE DEF IInv
<1>1. TypeOK'
  BY DEF RejectToken, TypeOK, NodeTypeOK, CallShape, WorkerShape, Replies,
         Bodies, JobStates
<1>2. CallShape'
  BY DEF RejectToken, TypeOK, NodeTypeOK, CallShape, WorkerShape,
         NoWorkWhileUndelivered
<1>3. ServerShape'
  BY DEF RejectToken, TypeOK, NodeTypeOK, CallShape, WorkerShape,
         ServerShape, PersistedBeforeSent, NoWorkWhileUndelivered
<1>4. WorkerShape' /\ NoWorkWhileUndelivered' /\ HeartbeatNamesJob' /\
      PersistedBeforeSent' /\ RecordedIsTrue'
  BY DEF RejectToken, WorkerShape, NoWorkWhileUndelivered,
         HeartbeatNamesJob, PersistedBeforeSent, RecordedIsTrue
<1> QED
  BY <1>1, <1>2, <1>3, <1>4

(* A request is delivered after its client gave up. *)
LEMMA HandleLateInv ==
  ASSUME IInv, NEW req \in late, HandleLate(req)
  PROVE  IInv'
<1> USE DEF IInv
<1>1. TypeOK'
  BY DEF HandleLate, Applies, Apply, TypeOK, NodeTypeOK, CallShape,
         WorkerShape, Replies, Bodies, JobStates
<1>2. ServerShape'
  BY DEF HandleLate, Applies, Apply, TypeOK, NodeTypeOK, CallShape,
         WorkerShape, ServerShape, PersistedBeforeSent,
         NoWorkWhileUndelivered
<1>3. PersistedBeforeSent'
  BY DEF HandleLate, Applies, Apply, TypeOK, NodeTypeOK,
         PersistedBeforeSent, CallShape, WorkerShape, ServerShape,
         NoWorkWhileUndelivered
<1>4. RecordedIsTrue'
  BY DEF HandleLate, Applies, Apply, TypeOK, NodeTypeOK, RecordedIsTrue,
         PersistedBeforeSent, CallShape, ServerShape
<1>5. CallShape' /\ WorkerShape' /\ NoWorkWhileUndelivered' /\ HeartbeatNamesJob'
  BY DEF HandleLate, Applies, Apply, CallShape, WorkerShape,
         NoWorkWhileUndelivered, HeartbeatNamesJob
<1> QED
  BY <1>1, <1>2, <1>3, <1>4, <1>5

(* An offer expires. *)
LEMMA OfferExpiresInv ==
  ASSUME IInv, NEW j \in Jobs, OfferExpires(j)
  PROVE  IInv'
<1> USE DEF IInv
<1>1. TypeOK'
  BY DEF OfferExpires, TypeOK, NodeTypeOK, CallShape, WorkerShape, Replies,
         Bodies, JobStates
<1>2. ServerShape'
  BY DEF OfferExpires, TypeOK, NodeTypeOK, CallShape, WorkerShape,
         ServerShape, PersistedBeforeSent, NoWorkWhileUndelivered
<1>3. PersistedBeforeSent'
  BY DEF OfferExpires, TypeOK, NodeTypeOK, PersistedBeforeSent, CallShape,
         WorkerShape, ServerShape, NoWorkWhileUndelivered
<1>4. RecordedIsTrue'
  BY DEF OfferExpires, TypeOK, NodeTypeOK, RecordedIsTrue,
         PersistedBeforeSent, CallShape, ServerShape
<1>5. CallShape' /\ WorkerShape' /\ NoWorkWhileUndelivered' /\ HeartbeatNamesJob'
  BY DEF OfferExpires, CallShape, WorkerShape, NoWorkWhileUndelivered,
         HeartbeatNamesJob
<1> QED
  BY <1>1, <1>2, <1>3, <1>4, <1>5

(* A running job is given up. *)
LEMMA DeadlinePassesInv ==
  ASSUME IInv, NEW j \in Jobs, DeadlinePasses(j)
  PROVE  IInv'
<1> USE DEF IInv
<1>1. TypeOK'
  BY DEF DeadlinePasses, TypeOK, NodeTypeOK, CallShape, WorkerShape,
         Replies, Bodies, JobStates
<1>2. ServerShape'
  BY DEF DeadlinePasses, TypeOK, NodeTypeOK, CallShape, WorkerShape,
         ServerShape, PersistedBeforeSent, NoWorkWhileUndelivered
<1>3. PersistedBeforeSent'
  BY DEF DeadlinePasses, TypeOK, NodeTypeOK, PersistedBeforeSent, CallShape,
         WorkerShape, ServerShape, NoWorkWhileUndelivered
<1>4. RecordedIsTrue'
  BY DEF DeadlinePasses, TypeOK, NodeTypeOK, RecordedIsTrue,
         PersistedBeforeSent, CallShape, ServerShape
<1>5. CallShape' /\ WorkerShape' /\ NoWorkWhileUndelivered' /\ HeartbeatNamesJob'
  BY DEF DeadlinePasses, CallShape, WorkerShape, NoWorkWhileUndelivered,
         HeartbeatNamesJob
<1> QED
  BY <1>1, <1>2, <1>3, <1>4, <1>5

(* The token is revoked. *)
LEMMA RevokeInv ==
  ASSUME IInv, Revoke
  PROVE  IInv'
<1> USE DEF IInv
<1>1. TypeOK'
  BY DEF Revoke, TypeOK, NodeTypeOK, CallShape, WorkerShape, Replies,
         Bodies, JobStates
<1>2. CallShape' /\ WorkerShape' /\ ServerShape' /\ NoWorkWhileUndelivered' /\
      HeartbeatNamesJob' /\ PersistedBeforeSent' /\ RecordedIsTrue'
  BY DEF Revoke, CallShape, WorkerShape, ServerShape,
         NoWorkWhileUndelivered, HeartbeatNamesJob, PersistedBeforeSent,
         RecordedIsTrue
<1> QED
  BY <1>1, <1>2

-----------------------------------------------------------------------------
(* Whatever a call returns with, the invariant is preserved.                *)
LEMMA CallReturnsInv ==
  ASSUME IInv, NEW r \in {reply, NoReply}, CallReturns(r), Environment
  PROVE  IInv'
<1>1. r \in Replies
  <2>1. CASE r = NoReply
    BY <2>1, AnswerType
  <2>2. CASE r = reply
    BY <2>2 DEF IInv, TypeOK
  <2> QED
    BY <2>1, <2>2
<1>2. PICK s \in CallSeconds :
        \/ ReportReturns(isOk(r) \/ isConflict(r), s)
        \/ SnapshotFails(isRejected(r), s)
        \/ SnapshotAnswered(r.accepts, r.intervalS, parsedOffer(r), s)
        \/ AcceptReturns(isOk(r), s)
  BY DEF CallReturns
<1>3. CASE ReportReturns(isOk(r) \/ isConflict(r), s)
  BY <1>3, ReportReturnsInv
<1>4. CASE SnapshotFails(isRejected(r), s)
  <2>1. isRejected(r) \in BOOLEAN
    BY DEF isRejected
  <2> QED
    BY <1>4, <2>1, SnapshotFailsInv
<1>5. CASE SnapshotAnswered(r.accepts, r.intervalS, parsedOffer(r), s)
  <2>1. r.accepts \in BOOLEAN
    BY <1>1 DEF Replies
  <2>2. r.intervalS \in Int
    <3>1. r.intervalS \in Intervals \cup {10}
      BY <1>1 DEF Replies
    <3> QED
      BY <3>1, IntervalsAreInt
  <2>3. parsedOffer(r) \in Jobs \cup {NoJob}
    BY <1>1 DEF Replies, parsedOffer
  <2> QED
    BY <1>5, <2>1, <2>2, <2>3, SnapshotAnsweredInv
<1>6. CASE AcceptReturns(isOk(r), s)
  BY <1>6, AcceptReturnsInv
<1> QED
  BY <1>2, <1>3, <1>4, <1>5, <1>6

LEMMA ReceiveInv ==
  ASSUME IInv, Receive
  PROVE  IInv'
<1>1. CallReturns(reply) /\ Environment
  BY DEF Receive, Environment, Straggles
<1> QED
  BY <1>1, CallReturnsInv

LEMMA TransportFailsInv ==
  ASSUME IInv, TransportFails
  PROVE  IInv'
<1>1. CallReturns(NoReply) /\ Environment
  BY DEF TransportFails, Environment
<1> QED
  BY <1>1, CallReturnsInv

LEMMA AgentStepInv ==
  ASSUME IInv, AgentStep
  PROVE  IInv'
BY NothingToCollectInv, TakeOutcomeInv, SkipReportInv, SendReportInv,
   SendSnapshotInv, SleepInv, RestartInv
DEF AgentStep

LEMMA ServerStepInv ==
  ASSUME IInv, ServerStep
  PROVE  IInv'
<1>1. CASE \E req \in late : HandleLate(req)
  BY <1>1, HandleLateInv
<1>2. CASE \E j \in Jobs : OfferExpires(j) \/ DeadlinePasses(j)
  BY <1>2, OfferExpiresInv, DeadlinePassesInv
<1> QED
  BY <1>1, <1>2, HandleSnapshotInv, HandleRequestInv, FailRequestInv,
     RejectTokenInv, RevokeInv
  DEF ServerStep

LEMMA StutterInv ==
  ASSUME IInv, UNCHANGED vars
  PROVE  IInv'
BY DEF IInv, vars, TypeOK, NodeTypeOK, CallShape, WorkerShape, ServerShape,
       NoWorkWhileUndelivered, HeartbeatNamesJob, PersistedBeforeSent,
       RecordedIsTrue

LEMMA InitInv == Init => IInv
<1> SUFFICES ASSUME Init PROVE IInv
  OBVIOUS
<1>1. NodeTypeOK
  <2>1. interval \in 5..60 /\ delay \in 2..60 /\ wait \in 0..60
    BY DEF Init, NodeInit, kResultBackoffBaseSeconds
  <2>2. /\ acceptsJobs \in BOOLEAN /\ authRejected \in BOOLEAN
        /\ collected \in BOOLEAN
    BY DEF Init, NodeInit
  <2> QED
    BY <2>1, <2>2 DEF Init, NodeInit, NodeTypeOK,
       kMinSnapshotIntervalSeconds, kMaxSnapshotIntervalSeconds,
       kResultBackoffBaseSeconds, kResultBackoffCapSeconds
<1>2. TypeOK
  <2>1. reply \in Replies
    BY AnswerType DEF Init
  <2> QED
    BY <1>1, <2>1 DEF Init, TypeOK, JobStates
<1>3. CallShape /\ WorkerShape /\ ServerShape
  BY DEF Init, NodeInit, CallShape, WorkerShape, ServerShape
<1>4. NoWorkWhileUndelivered /\ HeartbeatNamesJob /\ PersistedBeforeSent
  BY DEF Init, NodeInit, NoWorkWhileUndelivered, HeartbeatNamesJob,
         PersistedBeforeSent
<1>5. RecordedIsTrue
  BY DEF Init, RecordedIsTrue
<1> QED
  BY <1>2, <1>3, <1>4, <1>5 DEF IInv

LEMMA NextInv == IInv /\ [Next]_vars => IInv'
BY AgentStepInv, SaveResultInv, ReceiveInv, TransportFailsInv, JobEndsInv,
   CrashInv, ServerStepInv, StutterInv
DEF Next

(* IInv is an invariant of the node and its control plane.                  *)
THEOREM Inductive == Spec => []IInv
BY InitInv, NextInv, PTL DEF Spec

-----------------------------------------------------------------------------
(* The state of the agent, the executor and the control plane stays well    *)
(* typed; clampSnapshotInterval and the backoff keep interval and delay in  *)
(* their ranges for any reply.                                              *)
THEOREM TypeCorrect == Spec => []TypeOK
<1>1. IInv => TypeOK
  BY DEF IInv
<1> QED
  BY <1>1, Inductive, PTL

(* maybeTakeJob and collectFinishedJob never let a result and a job coexist.*)
THEOREM NoWorkWhileUndeliveredHolds == Spec => []NoWorkWhileUndelivered
<1>1. IInv => NoWorkWhileUndelivered
  BY DEF IInv
<1> QED
  BY <1>1, Inductive, PTL

(* "A result is persisted before it is sent" (agent.h).                     *)
THEOREM PersistedBeforeSentHolds == Spec => []PersistedBeforeSent
<1>1. IInv => PersistedBeforeSent
  BY DEF IInv
<1> QED
  BY <1>1, Inductive, PTL

(* The worker only ever runs a job whose accept the control plane applied.  *)
THEOREM RunsOnlyAcceptedJobsHolds == Spec => []RunsOnlyAcceptedJobs
<1>1. IInv => RunsOnlyAcceptedJobs
  BY DEF IInv, WorkerShape, ServerShape, RunsOnlyAcceptedJobs
<1> QED
  BY <1>1, Inductive, PTL

(* A recorded result is one this node produced.                             *)
THEOREM RecordedIsTrueHolds == Spec => []RecordedIsTrue
<1>1. IInv => RecordedIsTrue
  BY DEF IInv
<1> QED
  BY <1>1, Inductive, PTL

(* A heartbeat names the job at the node.                                   *)
THEOREM HeartbeatNamesJobHolds == Spec => []HeartbeatNamesJob
<1>1. IInv => HeartbeatNamesJob
  BY DEF IInv
<1> QED
  BY <1>1, Inductive, PTL

-----------------------------------------------------------------------------
(* What a step may do to the pending file: the result of the finished job   *)
(* is written when there is none, or the file is removed once the control   *)
(* plane holds a terminal state for its job.                                *)
PendingStep ==
  \/ pending' = pending /\ finished' = finished
  \/ /\ pending = NoOutcome
     /\ finished' = finished \cup {taken}
     /\ pending' = taken \/ (SaveMayFail /\ pending' = pending)
     /\ jobState' = jobState
     /\ taken \in Outcomes
     /\ jobState[taken.job] \in HeldJobs
  \/ /\ pending # NoOutcome /\ pending' = NoOutcome
     /\ jobState[pending.job] \in Terminal
     /\ finished' = finished
     /\ jobState' = jobState

LEMMA ReturnPendingStep ==
  ASSUME IInv, NEW r \in {reply, NoReply}, CallReturns(r), Environment
  PROVE  PendingStep
<1>1. PICK s \in CallSeconds :
        \/ ReportReturns(isOk(r) \/ isConflict(r), s)
        \/ SnapshotFails(isRejected(r), s)
        \/ SnapshotAnswered(r.accepts, r.intervalS, parsedOffer(r), s)
        \/ AcceptReturns(isOk(r), s)
  BY DEF CallReturns
<1>2. CASE ReportReturns(isOk(r) \/ isConflict(r), s)
  BY <1>2 DEF ReportReturns, PendingStep, Environment, IInv, CallShape,
              ServerShape, TypeOK, NodeTypeOK
<1>3. CASE SnapshotFails(isRejected(r), s)
  BY <1>3 DEF SnapshotFails, PendingStep, Environment
<1>4. CASE SnapshotAnswered(r.accepts, r.intervalS, parsedOffer(r), s)
  BY <1>4 DEF SnapshotAnswered, PendingStep, Environment
<1>5. CASE AcceptReturns(isOk(r), s)
  BY <1>5 DEF AcceptReturns, PendingStep, Environment
<1> QED
  BY <1>1, <1>2, <1>3, <1>4, <1>5

LEMMA EveryPendingStep == IInv /\ [Next]_vars => PendingStep
<1> SUFFICES ASSUME IInv, [Next]_vars PROVE PendingStep
  OBVIOUS
<1>1. CASE AgentStep
  BY <1>1 DEF AgentStep, NothingToCollect, TakeOutcome, SkipReport, SendReport,
              SendSnapshot, Sleep, Restart, PendingStep
<1>2. CASE SaveResult
  <2>1. pending' = taken \/ (SaveMayFail /\ pending' = pending)
    BY <1>2, SavedOrFailed
  <2>2. /\ pc = "save" /\ finished' = finished \cup {taken}
        /\ jobState' = jobState
    BY <1>2 DEF SaveResult, SavePendingResult
  <2>3. taken \in Outcomes /\ runningJobId = taken.job
    BY <2>2 DEF IInv, WorkerShape
  <2>4. jobState[taken.job] \in HeldJobs /\ pending = NoOutcome
    BY <2>3 DEF IInv, ServerShape, NoWorkWhileUndelivered
  <2> QED
    BY <2>1, <2>2, <2>3, <2>4 DEF PendingStep
<1>3. CASE Receive
  <2>1. CallReturns(reply) /\ Environment
    BY <1>3 DEF Receive, Environment, Straggles
  <2> QED
    BY <2>1, ReturnPendingStep
<1>4. CASE TransportFails
  <2>1. CallReturns(NoReply) /\ Environment
    BY <1>4 DEF TransportFails, Environment
  <2> QED
    BY <2>1, ReturnPendingStep
<1>5. CASE WorkerStep
  BY <1>5 DEF WorkerStep, JobEnds, PendingStep
<1>6. CASE NodeCrashes
  BY <1>6 DEF NodeCrashes, Crash, PendingStep
<1>7. CASE ServerStep
  BY <1>7 DEF ServerStep, HandleSnapshot, HandleRequest, FailRequest,
              RejectToken, Revoke, HandleLate, OfferExpires, DeadlinePasses,
              PendingStep
<1>8. CASE UNCHANGED vars
  BY <1>8 DEF vars, PendingStep
<1> QED
  BY <1>1, <1>2, <1>3, <1>4, <1>5, <1>6, <1>7, <1>8 DEF Next

(* A terminal state at the control plane is final.                          *)
LEMMA TerminalIsFinal ==
  ASSUME IInv, [Next]_vars, NEW j \in Jobs, jobState[j] \in Terminal
  PROVE  jobState'[j] \in Terminal
<1>1. CASE ServerStep
  BY <1>1 DEF ServerStep, HandleSnapshot, HandleRequest, FailRequest,
              RejectToken, Revoke, HandleLate, OfferExpires, DeadlinePasses,
              Applies, Apply, IInv, TypeOK
<1>2. CASE ~ServerStep
  BY <1>2 DEF Next, AgentStep, SaveResult, Receive, TransportFails,
              WorkerStep, NodeCrashes, vars
<1> QED
  BY <1>1, <1>2

(* savePendingResult never replaces an undelivered result.                  *)
THEOREM NeverOverwrittenHolds == Spec => NeverOverwritten
<1>1. IInv /\ [Next]_vars => [pending # NoOutcome => pending' \in {pending, NoOutcome}]_vars
  BY EveryPendingStep DEF PendingStep
<1> QED
  BY <1>1, Inductive, PTL DEF Spec, NeverOverwritten

(* If writing the pending file does not fail, no finished result is lost:   *)
(* neither crashes nor restarts, losses, repetitions or late deliveries of  *)
(* any request nor a revoked token can lose one.                            *)
THEOREM ResultNeverLostHolds ==
  ASSUME SaveMayFail = FALSE
  PROVE  Spec => []ResultNeverLost
<1>1. Init => ResultNeverLost
  BY DEF Init, ResultNeverLost
<1>2. IInv /\ ResultNeverLost /\ [Next]_vars => ResultNeverLost'
  <2> SUFFICES ASSUME IInv, ResultNeverLost, [Next]_vars,
                      NEW o \in finished'
               PROVE  pending' = o \/ jobState'[o.job] \in Terminal
    BY DEF ResultNeverLost
  <2>1. PendingStep
    BY EveryPendingStep
  <2>2. finished \subseteq Outcomes
    BY DEF IInv, TypeOK
  <2>3. CASE o \in finished
    <3>1. o.job \in Jobs
      BY <2>2, <2>3
    <3>2. pending = o \/ jobState[o.job] \in Terminal
      BY <2>3 DEF ResultNeverLost
    <3>3. CASE jobState[o.job] \in Terminal
      BY <3>1, <3>3, TerminalIsFinal
    <3>4. CASE pending = o
      <4>1. pending' = pending \/ jobState[o.job] \in Terminal
        BY <2>1, <2>2, <2>3, <3>1, <3>4 DEF PendingStep
      <4> QED
        BY <3>1, <3>4, <4>1, TerminalIsFinal
    <3> QED
      BY <3>2, <3>3, <3>4
  <2>4. CASE o \notin finished
    BY <2>1, <2>4 DEF PendingStep
  <2> QED
    BY <2>3, <2>4
<1> QED
  BY <1>1, <1>2, Inductive, PTL DEF Spec

-----------------------------------------------------------------------------
(* What a step may do to the control plane's jobs.                          *)
LEMMA JobStateStep ==
  ASSUME IInv, [Next]_vars
  PROVE  \/ jobState' = jobState
         \/ /\ pending' = pending
            /\ \E j \in Jobs :
                 \/ /\ jobState[j] \in {"queued", "assigned"}
                    /\ jobState' = [jobState EXCEPT ![j] = "assigned"]
                 \/ /\ jobState[j] = "assigned"
                    /\ jobState' = [jobState EXCEPT ![j] = "queued"]
                 \/ /\ jobState[j] = "assigned"
                    /\ jobState' = [jobState EXCEPT ![j] = "running"]
                 \/ /\ jobState[j] = "running"
                    /\ \E st \in Terminal : jobState' = [jobState EXCEPT ![j] = st]
<1>1. CASE HandleSnapshot
  BY <1>1 DEF HandleSnapshot
<1>2. CASE HandleRequest
  <2>1. call \in Requests /\ call.job \in Jobs
    BY <1>2 DEF HandleRequest, IInv, TypeOK, NodeTypeOK, CallShape
  <2> QED
    BY <1>2, <2>1 DEF HandleRequest, Applies, Apply
<1>3. CASE \E req \in late : HandleLate(req)
  <2>1. PICK req \in late : HandleLate(req)
    BY <1>3
  <2>2. req \in Requests /\ req.job \in Jobs
    BY <2>1 DEF IInv, TypeOK, ServerShape
  <2> QED
    BY <2>1, <2>2 DEF HandleLate, Applies, Apply
<1>4. CASE \E j \in Jobs : OfferExpires(j) \/ DeadlinePasses(j)
  BY <1>4 DEF OfferExpires, DeadlinePasses
<1>5. CASE FailRequest \/ RejectToken \/ Revoke
  BY <1>5 DEF FailRequest, RejectToken, Revoke
<1>6. CASE ~ServerStep
  BY <1>6 DEF Next, AgentStep, SaveResult, Receive, TransportFails,
              WorkerStep, NodeCrashes, vars
<1> QED
  BY <1>1, <1>2, <1>3, <1>4, <1>5, <1>6 DEF ServerStep

(* A step that moves one job from one place to another, or none at all.     *)
LEMMA CustodyMoves ==
  ASSUME IInv, [Next]_vars
  PROVE  custodyOf' = custodyOf \/ Custody!Next
<1> USE DEF custodyOf
<1>1. /\ NoJob \notin Jobs
      /\ pending # NoOutcome => /\ pending.job \in Jobs
                                /\ jobState[pending.job] \in {"running"} \cup Terminal
      /\ pending = NoOutcome => pending.job = NoJob
      /\ jobState \in [Jobs -> JobStates]
  BY DEF IInv, TypeOK, NodeTypeOK, ServerShape
<1>2. CASE jobState' = jobState
  <2>1. PendingStep
    BY EveryPendingStep
  <2>2. CASE pending' = pending
    BY <1>2, <2>2
  <2>3. CASE /\ pending # NoOutcome /\ pending' = NoOutcome
             /\ jobState[pending.job] \in Terminal
    BY <1>1, <1>2, <2>3
  <2>4. CASE /\ pending = NoOutcome /\ pending' = taken
             /\ taken \in Outcomes /\ jobState[taken.job] \in HeldJobs
    <3> DEFINE j == taken.job
    <3>1. j \in Jobs /\ \A k \in Jobs : custodyOf[k] # "disk"
      BY <1>1, <2>4
    <3>2. CASE jobState[j] = "abandoned"
      BY <1>1, <1>2, <2>4, <3>1, <3>2
    <3>3. CASE jobState[j] = "running"
      <4>1. custodyOf[j] = "out" /\ custodyOf' = [custodyOf EXCEPT ![j] = "disk"]
        BY <1>1, <1>2, <2>4, <3>1, <3>3
      <4> QED
        BY <3>1, <4>1 DEF Custody!Next, Custody!Persist, Custody!Move
    <3> QED
      BY <2>4, <3>2, <3>3
  <2> QED
    BY <2>1, <2>2, <2>3, <2>4 DEF PendingStep
<1>3. CASE pending' = pending /\ jobState' # jobState
  <2>1. PICK j \in Jobs :
          \/ /\ jobState[j] \in {"queued", "assigned"}
             /\ jobState' = [jobState EXCEPT ![j] = "assigned"]
          \/ /\ jobState[j] = "assigned"
             /\ jobState' = [jobState EXCEPT ![j] = "queued"]
          \/ /\ jobState[j] = "assigned"
             /\ jobState' = [jobState EXCEPT ![j] = "running"]
          \/ /\ jobState[j] = "running"
             /\ \E st \in Terminal : jobState' = [jobState EXCEPT ![j] = st]
    BY <1>3, JobStateStep
  <2>2. CASE \/ /\ jobState[j] \in {"queued", "assigned"}
                /\ jobState' = [jobState EXCEPT ![j] = "assigned"]
             \/ /\ jobState[j] = "assigned"
                /\ jobState' = [jobState EXCEPT ![j] = "queued"]
    BY <1>1, <1>3, <2>2
  <2>3. CASE /\ jobState[j] = "assigned"
             /\ jobState' = [jobState EXCEPT ![j] = "running"]
    <3>1. custodyOf[j] = "open" /\ custodyOf' = [custodyOf EXCEPT ![j] = "out"]
      BY <1>1, <1>3, <2>3
    <3> QED
      BY <3>1 DEF Custody!Next, Custody!HandOut, Custody!Move
  <2>4. CASE /\ jobState[j] = "running"
             /\ \E st \in Terminal : jobState' = [jobState EXCEPT ![j] = st]
    <3>1. /\ custodyOf[j] = IF pending.job = j THEN "disk" ELSE "out"
          /\ custodyOf' = [custodyOf EXCEPT ![j] = "settled"]
      BY <1>1, <1>3, <2>4
    <3> QED
      BY <3>1 DEF Custody!Next, Custody!Settle, Custody!Abandon, Custody!Move
  <2> QED
    BY <2>1, <2>2, <2>3, <2>4
<1> QED
  BY <1>2, <1>3, JobStateStep

(* The agent and its control plane implement ResultCustody: the record of a *)
(* job is handed out, put on disk and settled, in this order, and a result  *)
(* on disk can only become settled.                                         *)
THEOREM ImplementsCustodyHolds == Spec => ImplementsCustody
<1>1. Init => Custody!Init
  BY DEF Init, NodeInit, Custody!Init, custodyOf
<1>2. IInv /\ [Next]_vars => [Custody!Next]_custodyOf
  BY CustodyMoves
<1> QED
  BY <1>1, <1>2, Inductive, PTL DEF Spec, ImplementsCustody, Custody!Spec
=============================================================================
