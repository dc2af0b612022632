----------------------------- MODULE SweepCases -----------------------------
(***************************************************************************)
(* `brae -cases c1 c2 ...` (sweep_cases.cuh): worker threads that draw     *)
(* case indices from an atomic counter and run each case as a child        *)
(* process on the worker's GPU.                                            *)
(*                                                                         *)
(* A worker reads its child's output through a pipe until every copy of    *)
(* the write end is closed.  The pipes are not close-on-exec, so a child   *)
(* forked while another worker still holds a write end inherits it.  Of    *)
(* the output only the lines that mark divergence (-nan, FATAL) matter.    *)
(***************************************************************************)
EXTENDS Naturals, FiniteSets

CONSTANTS
  NCases,        \* cases on the command line
  NJobs,         \* worker threads: BRAE_JOBS, or the GPU count
  NGpu           \* detectGPUs()

ASSUME SweepAssumption ==
  NCases \in Nat /\ NJobs \in Nat /\ NGpu \in Nat \ {0}

Cases   == 0 .. NCases - 1
Workers == 0 .. NJobs - 1
NoCase  == NCases

VARIABLES
  next,       \* the atomic counter
  wpc,        \* where each worker is
  mine,       \* the case each worker runs
  status,     \* CaseState::status
  child,      \* the child process of each case; "failed": fork returned -1
  code,       \* its exit status
  bad,        \* it has printed a divergence line that is still unread
  openEnd,    \* the worker still holds the write end of the case's pipe
  deaf,       \* nobody reads the case's pipe, though its read end stays open
  inherited   \* per case, the children holding the write end of its pipe

vars == <<next, wpc, mine, status, child, code, bad, openEnd, deaf, inherited>>

Init ==
  /\ next = 0
  /\ wpc = [w \in Workers |-> "fetch"]
  /\ mine = [w \in Workers |-> NoCase]
  /\ status = [c \in Cases |-> "queued"]
  /\ child = [c \in Cases |-> "none"]
  /\ code = [c \in Cases |-> "none"]
  /\ bad = [c \in Cases |-> FALSE]
  /\ openEnd = [c \in Cases |-> FALSE]
  /\ deaf = [c \in Cases |-> FALSE]
  /\ inherited = [c \in Cases |-> {}]

gpu(w) == w % NGpu
Moves(w, from, to) == wpc[w] = from /\ wpc' = [wpc EXCEPT ![w] = to]
SetStatus(w, s) == status' = [status EXCEPT ![mine[w]] = s]

-----------------------------------------------------------------------------
(* Seeded defect: the counter is not atomic, so an increment can be lost.    *)
FetchWithoutAdd(w) ==
  /\ next < NCases
  /\ Moves(w, "fetch", "pipe")
  /\ mine' = [mine EXCEPT ![w] = next]
  /\ status' = [status EXCEPT ![next] = "running"]
  /\ next' \in {next, next + 1}
  /\ UNCHANGED <<child, code, bad, openEnd, deaf, inherited>>

(* next.fetch_add, then runOne up to pipe().                                 *)
Fetch(w) ==
  /\ next < NCases
  /\ Moves(w, "fetch", "pipe")
  /\ mine' = [mine EXCEPT ![w] = next]
  /\ status' = [status EXCEPT ![next] = "running"]
  /\ next' = next + 1
  /\ UNCHANGED <<child, code, bad, openEnd, deaf, inherited>>

(* The counter is past the last case: the worker's loop ends.                *)
NoneLeft(w) ==
  /\ next >= NCases
  /\ Moves(w, "fetch", "end")
  /\ UNCHANGED <<next, mine, status, child, code, bad, openEnd, deaf, inherited>>

MakePipe(w) ==
  /\ \/ /\ Moves(w, "pipe", "fork")
        /\ openEnd' = [openEnd EXCEPT ![mine[w]] = TRUE]
        /\ UNCHANGED status
     \/ /\ Moves(w, "pipe", "fetch")
        /\ SetStatus(w, "failed")
        /\ UNCHANGED openEnd
  /\ UNCHANGED <<next, mine, child, code, bad, deaf, inherited>>

(* The child holds every write end open at this moment, its own included.    *)
Fork(w) ==
  /\ Moves(w, "fork", "close")
  /\ child' = [child EXCEPT ![mine[w]] = "running"]
  /\ inherited' = [c \in Cases |-> IF openEnd[c] THEN inherited[c] \cup {mine[w]}
                                   ELSE inherited[c]]
  /\ UNCHANGED <<next, mine, status, code, bad, openEnd, deaf>>

(* pid = -1 is not looked at.                                                *)
ForkFails(w) ==
  /\ Moves(w, "fork", "close")
  /\ child' = [child EXCEPT ![mine[w]] = "failed"]
  /\ UNCHANGED <<next, mine, status, code, bad, openEnd, deaf, inherited>>

(* Seeded defect: the parent keeps its copy of the write end.                *)
CloseNothing(w) ==
  /\ Moves(w, "close", "read")
  /\ UNCHANGED <<next, mine, status, child, code, bad, openEnd, deaf, inherited>>

CloseEnd(w) ==
  /\ Moves(w, "close", "read")
  /\ openEnd' = [openEnd EXCEPT ![mine[w]] = FALSE]
  /\ UNCHANGED <<next, mine, status, child, code, bad, deaf, inherited>>

(* fdopen returns NULL: not a line is read, the descriptor leaks, and the    *)
(* worker goes on to waitpid.                                                *)
NoReader(w) ==
  /\ Moves(w, "close", "wait")
  /\ openEnd' = [openEnd EXCEPT ![mine[w]] = FALSE]
  /\ deaf' = [deaf EXCEPT ![mine[w]] = TRUE]
  /\ UNCHANGED <<next, mine, status, child, code, bad, inherited>>

(* fgets: a divergence line.                                                 *)
ReadLine(w) ==
  /\ wpc[w] = "read" /\ bad[mine[w]]
  /\ bad' = [bad EXCEPT ![mine[w]] = FALSE]
  /\ SetStatus(w, "diverged")
  /\ UNCHANGED <<next, wpc, mine, child, code, openEnd, deaf, inherited>>

AtEOF(c) == ~bad[c] /\ ~openEnd[c] /\ \A k \in inherited[c] : child[k] # "running"

(* Seeded defect: the worker does not wait for its child.                    *)
ReadEOFEarly(w) ==
  /\ Moves(w, "read", "fetch")
  /\ UNCHANGED <<next, mine, status, child, code, bad, openEnd, deaf, inherited>>

ReadEOF(w) ==
  /\ Moves(w, "read", "wait")
  /\ AtEOF(mine[w])
  /\ UNCHANGED <<next, mine, status, child, code, bad, openEnd, deaf, inherited>>

(* Seeded defect: an exit status other than zero is not looked at.           *)
VerdictDone(w, zero) ==
  IF status[mine[w]] = "running" THEN SetStatus(w, "done") ELSE UNCHANGED status

Verdict(w, zero) ==
  IF status[mine[w]] = "running" THEN SetStatus(w, IF zero THEN "done" ELSE "failed")
  ELSE UNCHANGED status

Zombie(c) == child[c] = "exited"

(* waitpid(pid): the worker's own child.                                     *)
WaitOwn(w) ==
  /\ Moves(w, "wait", "fetch")
  /\ Zombie(mine[w])
  /\ child' = [child EXCEPT ![mine[w]] = "reaped"]
  /\ Verdict(w, code[mine[w]] = "zero")
  /\ UNCHANGED <<next, mine, code, bad, openEnd, deaf, inherited>>

(* ... which somebody else has reaped: ECHILD, and ws stays 0.               *)
WaitStolen(w) ==
  /\ Moves(w, "wait", "fetch")
  /\ child[mine[w]] = "reaped"
  /\ Verdict(w, TRUE)
  /\ UNCHANGED <<next, mine, child, code, bad, openEnd, deaf, inherited>>

(* waitpid(-1) after a failed fork: any child, or ECHILD when there is none. *)
WaitAny(w) ==
  /\ Moves(w, "wait", "fetch")
  /\ child[mine[w]] = "failed"
  /\ \/ \E c \in Cases :
          /\ Zombie(c)
          /\ child' = [child EXCEPT ![c] = "reaped"]
          /\ Verdict(w, code[c] = "zero")
     \/ /\ \A c \in Cases : child[c] \notin {"running", "exited"}
        /\ Verdict(w, TRUE)
        /\ UNCHANGED child
  /\ UNCHANGED <<next, mine, code, bad, openEnd, deaf, inherited>>

-----------------------------------------------------------------------------
(* The child: a divergence line, and its exit with either status.            *)
PrintBad(c) ==
  /\ child[c] = "running" /\ ~bad[c]
  /\ bad' = [bad EXCEPT ![c] = TRUE]
  /\ UNCHANGED <<next, wpc, mine, status, child, code, openEnd, deaf, inherited>>

Exit(c) ==
  /\ child[c] = "running"
  /\ child' = [child EXCEPT ![c] = "exited"]
  /\ \E x \in {"zero", "nonzero"} : code' = [code EXCEPT ![c] = x]
  /\ UNCHANGED <<next, wpc, mine, status, bad, openEnd, deaf, inherited>>

WorkerStep(w) ==
  \/ Fetch(w) \/ NoneLeft(w) \/ MakePipe(w) \/ Fork(w) \/ ForkFails(w)
  \/ CloseEnd(w) \/ NoReader(w) \/ ReadLine(w) \/ ReadEOF(w)
  \/ WaitOwn(w) \/ WaitStolen(w) \/ WaitAny(w)

Next ==
  \/ \E w \in Workers : WorkerStep(w)
  \/ \E c \in Cases : PrintBad(c) \/ Exit(c)

Spec == Init /\ [][Next]_vars

(* Threads run, and every case ends by itself (its endTime) - unless nobody  *)
(* reads what it prints: then a full pipe may hold it for good.              *)
FairSpec ==
  /\ Spec
  /\ \A w \in Workers : WF_vars(WorkerStep(w))
  /\ \A c \in Cases : WF_vars(~deaf[c] /\ Exit(c))

-----------------------------------------------------------------------------
(* The types; the counter never runs past the last case.                     *)
TypeOK ==
  /\ next \in 0..NCases
  /\ wpc \in [Workers -> {"fetch", "pipe", "fork", "close", "read", "wait", "end"}]
  /\ mine \in [Workers -> 0..NCases]
  /\ status \in [Cases -> {"queued", "running", "diverged", "done", "failed"}]
  /\ child \in [Cases -> {"none", "failed", "running", "exited", "reaped"}]
  /\ code \in [Cases -> {"none", "zero", "nonzero"}]
  /\ bad \in [Cases -> BOOLEAN]
  /\ openEnd \in [Cases -> BOOLEAN]
  /\ deaf \in [Cases -> BOOLEAN]
  /\ inherited \in [Cases -> SUBSET Cases]

Busy == {"pipe", "fork", "close", "read", "wait"}

(* The atomic counter hands out every case once: a worker only takes up a    *)
(* case that nobody has taken up before - not one in work, and not one that  *)
(* has had its verdict - and a case that was begun is never queued again.    *)
EachCaseOnce ==
  [][/\ \A w \in Workers : wpc[w] = "fetch" /\ wpc'[w] = "pipe" =>
                            status[mine'[w]] = "queued"
     /\ \A c \in Cases : status[c] # "queued" => status'[c] # "queued"]_vars

(* "one per GPU": as long as there are no more workers than GPUs, no two     *)
(* running children share a device - whatever the pipes do.                  *)
OnePerGpu ==
  NJobs <= NGpu =>
    \A c, k \in Cases :
      child[c] = "running" /\ child[k] = "running" /\ c # k =>
        \E v, w \in Workers :
          /\ mine[v] = c /\ wpc[v] \in Busy
          /\ mine[w] = k /\ wpc[w] \in Busy
          /\ gpu(v) # gpu(w)

(* The summary says "done" only of a case whose own child ran and exited     *)
(* with status zero ...                                                      *)
SummaryIsTrue ==
  \A c \in Cases : status[c] = "done" => child[c] = "reaped" /\ code[c] = "zero"

(* ... as long as fork has not failed for any case.                          *)
AllForked == \A c \in Cases : child[c] # "failed"
DoneMeansRan == AllForked => SummaryIsTrue

(* The study completes: every thread is joined, every case has a verdict and *)
(* no child is left, although workers may wait for each other's children -   *)
(* provided that every pipe has its reader.                                  *)
StudyCompletes ==
  [](\A c \in Cases : ~deaf[c]) =>
    <>[](/\ \A w \in Workers : wpc[w] = "end"
         /\ \A c \in Cases : /\ status[c] \in {"diverged", "done", "failed"}
                             /\ child[c] \in {"none", "failed", "reaped"})
=============================================================================
