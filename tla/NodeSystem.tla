---------------------------- MODULE NodeSystem ----------------------------
(***************************************************************************)
(* The node agent talking to its control plane over an unreliable network. *)
(*                                                                         *)
(* The control plane is not in this repository.  It is modelled from what  *)
(* api_client.cpp sends, how it reads each reply, and the job states that  *)
(* api_client.h lists.  Its replies are as free as the client's parser     *)
(* allows: it may offer work to a busy node, answer with any error, ask    *)
(* for any interval and revoke the token.                                  *)
(*                                                                         *)
(* The network may lose a request, lose a reply, or deliver a request      *)
(* after the client has given up on it (late).  Late snapshots are left    *)
(* out: what they change is what a snapshot with a lost reply changes.     *)
(***************************************************************************)
EXTENDS NodeAgent

CONSTANTS
  Intervals,   \* snapshot_interval_s values the control plane may ask for
  CanRevoke,   \* whether the control plane may revoke the node's token
  MaxLate      \* bound on requests in flight after their client gave up

ASSUME NodeSystemAssumption ==
  /\ Intervals \subseteq Int
  /\ CanRevoke \in BOOLEAN
  /\ MaxLate \in Nat

VARIABLES
  jobState,    \* the control plane's state of every job
  revoked,     \* the node's token no longer authenticates
  reply,       \* the control plane's answer to call; status 0: none yet
  late,        \* accept and result requests delivered late, if ever
  finished     \* history: every outcome collectFinishedJob has dealt with

serverVars == <<jobState, revoked>>
vars == <<nodeVars, jobState, revoked, reply, late, finished>>

JobStates == {"queued", "assigned", "running", "completed", "failed",
              "abandoned"}
Terminal == {"completed", "failed", "abandoned"}

(* 200 with an understood body; "unusable": an assignment of an unknown     *)
(* type, without an id or with an invalid sample; "unreadable": not JSON.   *)
Bodies == {"ok", "unusable", "unreadable"}
Replies == [status : {0, 200, 401, 409, 500}, body : Bodies,
            accepts : BOOLEAN, intervalS : Intervals \cup {10},
            offer : Jobs \cup {NoJob}]
Answer(code) == [status |-> code, body |-> "ok", accepts |-> TRUE,
                 intervalS |-> 10, offer |-> NoJob]
NoReply == Answer(0)

Init ==
  /\ NodeInit
  /\ jobState = [j \in Jobs |-> "queued"]
  /\ revoked = FALSE
  /\ reply = NoReply
  /\ late = {}
  /\ finished = {}

-----------------------------------------------------------------------------
(* The client's reading of a reply: parseSnapshotResponse and               *)
(* parseSimpleResponse.                                                     *)
isOk(r)        == r.status = 200
isRejected(r)  == r.status = 401
isConflict(r)  == r.status = 409
snapshotOk(r)  == isOk(r) /\ r.body # "unreadable"
parsedOffer(r) == IF r.body = "ok" THEN r.offer ELSE NoJob

-----------------------------------------------------------------------------
(* The control plane.                                                       *)
HandleSnapshot ==
  /\ call.kind = "snapshot" /\ reply = NoReply /\ ~revoked
  /\ \/ /\ reply' = Answer(500)
        /\ UNCHANGED jobState
     \/ \E b \in Bodies, a \in BOOLEAN, i \in Intervals, j \in Jobs \cup {NoJob} :
          /\ j # NoJob => jobState[j] \in {"queued", "assigned"}
          /\ reply' = [status |-> 200, body |-> b, accepts |-> a,
                       intervalS |-> i, offer |-> j]
          /\ jobState' = IF j = NoJob THEN jobState
                         ELSE [jobState EXCEPT ![j] = "assigned"]
  /\ UNCHANGED <<nodeVars, revoked, late, finished>>

(* Accept: only a job on offer can be taken.  Result: only a running job    *)
(* takes one; a terminal job never changes again.                           *)
Applies(req) ==
  \/ req.kind = "accept" /\ jobState[req.job] = "assigned"
  \/ req.kind = "result" /\ jobState[req.job] = "running"

Apply(req) ==
  jobState' = [jobState EXCEPT ![req.job] =
                 IF req.kind = "accept" THEN "running" ELSE req.state]

HandleRequest ==
  /\ call.kind \in {"accept", "result"} /\ reply = NoReply /\ ~revoked
  /\ IF Applies(call)
     THEN reply' = Answer(200) /\ Apply(call)
     ELSE reply' = Answer(409) /\ UNCHANGED jobState
  /\ UNCHANGED <<nodeVars, revoked, late, finished>>

FailRequest ==
  /\ call.kind \in {"accept", "result"} /\ reply = NoReply /\ ~revoked
  /\ reply' = Answer(500)
  /\ UNCHANGED <<nodeVars, serverVars, late, finished>>

RejectToken ==
  /\ call # NoCall /\ reply = NoReply /\ revoked
  /\ reply' = Answer(401)
  /\ UNCHANGED <<nodeVars, serverVars, late, finished>>

HandleLate(req) ==
  /\ req \in late
  /\ late' = late \ {req}
  /\ IF Applies(req) /\ ~revoked THEN Apply(req) ELSE UNCHANGED jobState
  /\ UNCHANGED <<nodeVars, revoked, reply, finished>>

OfferExpires(j) ==
  /\ jobState[j] = "assigned"
  /\ jobState' = [jobState EXCEPT ![j] = "queued"]
  /\ UNCHANGED <<nodeVars, revoked, reply, late, finished>>

DeadlinePasses(j) ==
  /\ jobState[j] = "running"
  /\ jobState' = [jobState EXCEPT ![j] = "abandoned"]
  /\ UNCHANGED <<nodeVars, revoked, reply, late, finished>>

Revoke ==
  /\ CanRevoke /\ ~revoked
  /\ revoked' = TRUE
  /\ UNCHANGED <<nodeVars, jobState, reply, late, finished>>

-----------------------------------------------------------------------------
(* The return of a call into the agent: r is the reply, or NoReply when the *)
(* transport failed.                                                        *)
CallReturns(r) ==
  \E s \in CallSeconds :
    \/ ReportReturns(isOk(r) \/ isConflict(r), s)
    \/ ~snapshotOk(r) /\ SnapshotFails(isRejected(r), s)
    \/ snapshotOk(r) /\ SnapshotAnswered(r.accepts, r.intervalS,
                                         parsedOffer(r), s)
    \/ AcceptReturns(isOk(r), s)

Receive ==
  /\ reply # NoReply
  /\ CallReturns(reply)
  /\ reply' = NoReply
  /\ UNCHANGED <<serverVars, late, finished>>

(* A request the control plane has not seen yet may still be under way.     *)
Straggles ==
  \/ late' = late
  \/ /\ call.kind \in {"accept", "result"} /\ reply = NoReply
     /\ Cardinality(late) < MaxLate
     /\ late' = late \cup {call}

TransportFails ==
  /\ CallReturns(NoReply)
  /\ Straggles
  /\ reply' = NoReply
  /\ UNCHANGED <<serverVars, finished>>

SaveResult ==
  /\ \E ok \in BOOLEAN : (ok \/ SaveMayFail) /\ SavePendingResult(ok)
  /\ finished' = finished \cup {taken}
  /\ UNCHANGED <<serverVars, reply, late>>

AgentStep ==
  /\ \/ NothingToCollect \/ TakeOutcome \/ SkipReport \/ SendReport
     \/ SendSnapshot \/ Sleep \/ Restart
  /\ UNCHANGED <<serverVars, reply, late, finished>>

WorkerStep ==
  /\ \E st \in OutcomeStates : JobEnds(st)
  /\ UNCHANGED <<serverVars, reply, late, finished>>

NodeCrashes ==
  /\ Crash
  /\ Straggles
  /\ reply' = NoReply
  /\ UNCHANGED <<serverVars, finished>>

ServerStep ==
  \/ HandleSnapshot \/ HandleRequest \/ FailRequest \/ RejectToken \/ Revoke
  \/ \E req \in late : HandleLate(req)
  \/ \E j \in Jobs : OfferExpires(j) \/ DeadlinePasses(j)

Next ==
  \/ AgentStep \/ SaveResult \/ Receive \/ TransportFails \/ WorkerStep
  \/ NodeCrashes \/ ServerStep

Spec == Init /\ [][Next]_vars

(* Scheduling the code justifies: the daemon's thread and the worker's      *)
(* eventually run, systemd restarts the daemon, and libcurl's timeout ends  *)
(* every call.  How long a solver runs is not assumed.                      *)
Fairness ==
  /\ WF_vars(AgentStep) /\ WF_vars(SaveResult)
  /\ WF_vars(Receive \/ TransportFails)

(* In addition, a control plane and a network that do not fail for ever: a  *)
(* result that is posted again and again is handled, and that answer read.  *)
Reachable ==
  /\ SF_vars(HandleRequest /\ call.kind = "result")
  /\ SF_vars(Receive /\ call.kind = "result" /\ reply.status \in {200, 409})
  /\ WF_vars(WorkerStep)

FairSpec == Spec /\ Fairness

-----------------------------------------------------------------------------
(* Every variable stays in its type; in particular the snapshot interval    *)
(* stays within [5, 60] and the retry delay within [2, 60] whatever the     *)
(* control plane asks for.                                                  *)
TypeOK ==
  /\ NodeTypeOK
  /\ jobState \in [Jobs -> JobStates]
  /\ revoked \in BOOLEAN
  /\ reply \in Replies
  /\ late \subseteq Requests
  /\ finished \subseteq Outcomes

Posted(req) == [job |-> req.job, state |-> req.state]
HeldJobs == {"running", "abandoned"}

(* A result collectFinishedJob has dealt with is on disk until the control  *)
(* plane has a terminal state for its job: no crash, restart, lost reply,   *)
(* late delivery or revoked token loses it.                                 *)
ResultNeverLost ==
  \A o \in finished : pending = o \/ jobState[o.job] \in Terminal

(* A result is persisted before it is sent: a result request in flight, on  *)
(* time or late, is the one on disk or is already settled.                  *)
PersistedBeforeSent ==
  \A r \in late \cup {call} :
    r.kind = "result" => pending = Posted(r) \/ jobState[r.job] \in Terminal

(* The worker executes only a job the control plane holds as accepted, even *)
(* when accept requests are lost, late or repeated.                         *)
RunsOnlyAcceptedJobs ==
  worker # "none" => jobState[workJob] \in HeldJobs

(* A completed or failed state at the control plane is an outcome this node *)
(* really produced for that job.                                            *)
RecordedIsTrue ==
  \A j \in Jobs : jobState[j] \in OutcomeStates =>
                    [job |-> j, state |-> jobState[j]] \in finished

(* No work is taken or carried out while an earlier result is undelivered.  *)
NoWorkWhileUndelivered == busy => ~hasPendingResult

(* A snapshot under way names exactly the job the worker holds, although    *)
(* the worker may end at any point of the call.                             *)
HeartbeatNamesJob ==
  call.kind = "snapshot" => call.job = IF worker = "none" THEN NoJob ELSE workJob

(* savePendingResult never replaces an undelivered result by another.       *)
NeverOverwritten ==
  [][pending # NoOutcome => pending' \in {pending, NoOutcome}]_vars

(* The abstract specification of job custody, and what it is mapped to.     *)
custodyOf ==
  [j \in Jobs |-> IF jobState[j] \in Terminal THEN "settled"
                  ELSE IF pending.job = j THEN "disk"
                  ELSE IF jobState[j] = "running" THEN "out" ELSE "open"]
Custody == INSTANCE ResultCustody WITH custody <- custodyOf

(* The agent, the network and the control plane implement ResultCustody.    *)
ImplementsCustody == Custody!Spec

(* reportPendingIfAny's "never give up": if the daemon stops crashing, the  *)
(* token stays valid and the control plane can be reached, every result on  *)
(* disk is eventually settled and the node free for work.                   *)
EventuallyDelivered ==
  Reachable /\ []~revoked /\ <>[](pc # "down") =>
    Custody!Delivery /\ (hasPendingResult ~> ~hasPendingResult)

(* A job does not block the heartbeat: while the process lives and its token *)
(* is good, snapshots go on, however long the solver runs and whatever the   *)
(* network does.                                                             *)
HeartbeatGoesOn == []<>(pc = "down" \/ revoked \/ call.kind = "snapshot")
=============================================================================
