------------------------- MODULE SweepCases_proofs -------------------------
(***************************************************************************)
(* Proofs of SweepCases' safety properties for any number of cases,        *)
(* workers and GPUs.                                                       *)
(***************************************************************************)
EXTENDS SweepCases, TLAPS

HasForked == {"close", "read", "wait"}

(* No case is run by two workers at once. *)
OneWorkerPerCase ==
  \A v, w \in Workers :
    wpc[v] \in Busy /\ wpc[w] \in Busy /\ mine[v] = mine[w] => v = w

(* A busy worker has a case below the counter, unfinished, that no other     *)
(* busy worker has.                                                          *)
Custody ==
  /\ \A w \in Workers : wpc[w] \in Busy => mine[w] < next
  /\ \A w \in Workers : wpc[w] \in Busy => status[mine[w]] \in {"running", "diverged"}
  /\ OneWorkerPerCase

(* A live child belongs to a worker that is past its fork.                   *)
Supervised ==
  \A c \in Cases : child[c] \in {"running", "exited"} =>
    \E w \in Workers : mine[w] = c /\ wpc[w] \in HasForked

(* Children of workers: none before the fork; afterwards, if no fork has     *)
(* failed, one that only this worker reaps.                                  *)
Children ==
  \A w \in Workers :
    /\ wpc[w] \in {"pipe", "fork"} => child[mine[w]] = "none"
    /\ AllForked /\ wpc[w] \in HasForked => child[mine[w]] \in {"running", "exited"}

(* Nothing has happened yet to a case at or above the counter.               *)
Untouched == \A c \in Cases : c >= next => child[c] = "none" /\ status[c] = "queued"

(* The inductive invariant. *)
IInv == TypeOK /\ Custody /\ Supervised /\ Children /\ Untouched /\ DoneMeansRan

(* Cases and counter positions are natural numbers. *)
LEMMA Numbers ==
  /\ NCases \in Nat /\ NJobs \in Nat /\ NGpu \in Nat /\ NGpu > 0
BY SweepAssumption

USE DEF Cases, Workers, NoCase, Busy, HasForked, Moves, SetStatus, Zombie

(* The initial state satisfies the invariant. *)
LEMMA InitInv == Init => IInv
<1> SUFFICES ASSUME Init PROVE IInv OBVIOUS
<1>1. TypeOK BY Numbers DEF Init, TypeOK
<1>2. Custody BY DEF Init, Custody, OneWorkerPerCase
<1>3. Supervised BY DEF Init, Supervised
<1>4. Children BY DEF Init, Children, AllForked
<1>5. Untouched BY DEF Init, Untouched
<1>6. DoneMeansRan BY DEF Init, DoneMeansRan, SummaryIsTrue, AllForked
<1>7. QED BY <1>1, <1>2, <1>3, <1>4, <1>5, <1>6 DEF IInv

(* The case of a busy worker is a case. *)
LEMMA BusyCase ==
  ASSUME TypeOK, Custody, NEW w \in Workers, wpc[w] \in Busy
  PROVE  mine[w] \in Cases
BY Numbers DEF TypeOK, Custody

(* The worker draws the next case. *)
LEMMA FetchInv == ASSUME IInv, NEW w \in Workers, Fetch(w) PROVE IInv'
<1> USE Numbers DEF Fetch
<1>1. TypeOK' BY DEF IInv, TypeOK
<1>2. Custody' BY DEF IInv, TypeOK, Custody, OneWorkerPerCase
<1>3. Supervised'
  <2>1. \A x \in Workers : wpc[x] \in HasForked =>
                             wpc'[x] = wpc[x] /\ mine'[x] = mine[x]
    BY DEF IInv, TypeOK
  <2>2. QED BY <2>1 DEF IInv, TypeOK, Supervised
<1>4. Children'
  <2>1. AllForked' => AllForked BY DEF AllForked
  <2>2. ASSUME NEW v \in Workers, v # w
        PROVE  wpc'[v] = wpc[v] /\ mine'[v] = mine[v] /\ child' = child
    BY <2>2 DEF IInv, TypeOK
  <2>3. wpc'[w] = "pipe" /\ child'[mine'[w]] = "none"
    BY DEF IInv, TypeOK, Untouched
  <2>4. QED BY <2>1, <2>2, <2>3 DEF IInv, Children
<1>5. Untouched' BY DEF IInv, TypeOK, Custody, Untouched
<1>6. DoneMeansRan' BY DEF IInv, TypeOK, Custody, Children, DoneMeansRan, SummaryIsTrue, AllForked
<1>7. QED BY <1>1, <1>2, <1>3, <1>4, <1>5, <1>6 DEF IInv

(* No case is left for the worker. *)
LEMMA NoneLeftInv == ASSUME IInv, NEW w \in Workers, NoneLeft(w) PROVE IInv'
<1> USE Numbers DEF NoneLeft
<1>1. TypeOK' BY DEF IInv, TypeOK
<1>2. Custody' BY DEF IInv, TypeOK, Custody, OneWorkerPerCase
<1>3. Supervised'
  <2>1. \A x \in Workers : wpc[x] \in HasForked => wpc'[x] = wpc[x] BY DEF IInv, TypeOK
  <2>2. QED BY <2>1 DEF IInv, TypeOK, Supervised
<1>4. Children' BY DEF IInv, TypeOK, Custody, OneWorkerPerCase, Children, Untouched, AllForked
<1>5. Untouched' BY DEF IInv, TypeOK, Custody, Untouched
<1>6. DoneMeansRan' BY DEF IInv, TypeOK, Custody, Children, DoneMeansRan, SummaryIsTrue, AllForked
<1>7. QED BY <1>1, <1>2, <1>3, <1>4, <1>5, <1>6 DEF IInv

(* The worker makes the pipe, or gives the case up. *)
LEMMA MakePipeInv == ASSUME IInv, NEW w \in Workers, MakePipe(w) PROVE IInv'
<1> USE Numbers DEF MakePipe
<1>0. mine[w] \in Cases BY BusyCase DEF IInv
<1>1. TypeOK' BY <1>0 DEF IInv, TypeOK
<1>2. Custody'
  <2>1. CASE wpc' = [wpc EXCEPT ![w] = "fork"] /\ UNCHANGED status
    BY <1>0, <2>1 DEF IInv, TypeOK, Custody, OneWorkerPerCase
  <2>2. CASE wpc' = [wpc EXCEPT ![w] = "fetch"]
    BY <1>0, <2>2 DEF IInv, TypeOK, Custody, OneWorkerPerCase
  <2>3. QED BY <2>1, <2>2
<1>3. Supervised'
  <2>1. \A x \in Workers : wpc[x] \in HasForked => wpc'[x] = wpc[x] BY DEF IInv, TypeOK
  <2>2. QED BY <2>1 DEF IInv, TypeOK, Supervised
<1>4. Children' BY <1>0 DEF IInv, TypeOK, Custody, OneWorkerPerCase, Children, Untouched, AllForked
<1>5. Untouched' BY <1>0 DEF IInv, TypeOK, Custody, Untouched
<1>6. DoneMeansRan' BY <1>0 DEF IInv, TypeOK, Custody, Children, DoneMeansRan, SummaryIsTrue, AllForked
<1>7. QED BY <1>1, <1>2, <1>3, <1>4, <1>5, <1>6 DEF IInv

(* The child is forked. *)
LEMMA ForkInv == ASSUME IInv, NEW w \in Workers, Fork(w) PROVE IInv'
<1> USE Numbers DEF Fork
<1>0. mine[w] \in Cases BY BusyCase DEF IInv
<1>1. TypeOK' BY <1>0 DEF IInv, TypeOK
<1>2. Custody' BY <1>0 DEF IInv, TypeOK, Custody, OneWorkerPerCase
<1>3. Supervised' BY <1>0 DEF IInv, TypeOK, Custody, OneWorkerPerCase, Supervised
<1>4. Children' BY <1>0 DEF IInv, TypeOK, Custody, OneWorkerPerCase, Children, Untouched, AllForked
<1>5. Untouched' BY <1>0 DEF IInv, TypeOK, Custody, Untouched
<1>6. DoneMeansRan' BY <1>0 DEF IInv, TypeOK, Custody, Children, DoneMeansRan, SummaryIsTrue, AllForked
<1>7. QED BY <1>1, <1>2, <1>3, <1>4, <1>5, <1>6 DEF IInv

(* The fork fails and nobody looks. *)
LEMMA ForkFailsInv == ASSUME IInv, NEW w \in Workers, ForkFails(w) PROVE IInv'
<1> USE Numbers DEF ForkFails
<1>0. mine[w] \in Cases BY BusyCase DEF IInv
<1>1. TypeOK' BY <1>0 DEF IInv, TypeOK
<1>2. Custody' BY <1>0 DEF IInv, TypeOK, Custody, OneWorkerPerCase
<1>3. Supervised' BY <1>0 DEF IInv, TypeOK, Custody, OneWorkerPerCase, Supervised
<1>4. Children' BY <1>0 DEF IInv, TypeOK, Custody, OneWorkerPerCase, Children, Untouched, AllForked
<1>5. Untouched' BY <1>0 DEF IInv, TypeOK, Custody, Untouched
<1>6. DoneMeansRan' BY <1>0 DEF IInv, TypeOK, Custody, Children, DoneMeansRan, SummaryIsTrue, AllForked
<1>7. QED BY <1>1, <1>2, <1>3, <1>4, <1>5, <1>6 DEF IInv

(* The worker closes its write end. *)
LEMMA CloseEndInv == ASSUME IInv, NEW w \in Workers, CloseEnd(w) PROVE IInv'
<1> USE Numbers DEF CloseEnd
<1>0. mine[w] \in Cases BY BusyCase DEF IInv
<1>1. TypeOK' BY <1>0 DEF IInv, TypeOK
<1>2. Custody' BY <1>0 DEF IInv, TypeOK, Custody, OneWorkerPerCase
<1>3. Supervised' BY <1>0 DEF IInv, TypeOK, Custody, OneWorkerPerCase, Supervised
<1>4. Children' BY <1>0 DEF IInv, TypeOK, Custody, OneWorkerPerCase, Children, Untouched, AllForked
<1>5. Untouched' BY <1>0 DEF IInv, TypeOK, Custody, Untouched
<1>6. DoneMeansRan' BY <1>0 DEF IInv, TypeOK, Custody, Children, DoneMeansRan, SummaryIsTrue, AllForked
<1>7. QED BY <1>1, <1>2, <1>3, <1>4, <1>5, <1>6 DEF IInv

(* The pipe gets no reader. *)
LEMMA NoReaderInv == ASSUME IInv, NEW w \in Workers, NoReader(w) PROVE IInv'
<1> USE Numbers DEF NoReader
<1>0. mine[w] \in Cases BY BusyCase DEF IInv
<1>1. TypeOK' BY <1>0 DEF IInv, TypeOK
<1>2. Custody' BY <1>0 DEF IInv, TypeOK, Custody, OneWorkerPerCase
<1>3. Supervised' BY <1>0 DEF IInv, TypeOK, Custody, OneWorkerPerCase, Supervised
<1>4. Children' BY <1>0 DEF IInv, TypeOK, Custody, OneWorkerPerCase, Children, Untouched, AllForked
<1>5. Untouched' BY <1>0 DEF IInv, TypeOK, Custody, Untouched
<1>6. DoneMeansRan' BY <1>0 DEF IInv, TypeOK, Custody, Children, DoneMeansRan, SummaryIsTrue, AllForked
<1>7. QED BY <1>1, <1>2, <1>3, <1>4, <1>5, <1>6 DEF IInv

(* The worker reads a divergence line. *)
LEMMA ReadLineInv == ASSUME IInv, NEW w \in Workers, ReadLine(w) PROVE IInv'
<1> USE Numbers DEF ReadLine
<1>0. mine[w] \in Cases BY BusyCase DEF IInv
<1>1. TypeOK' BY <1>0 DEF IInv, TypeOK
<1>2. Custody' BY <1>0 DEF IInv, TypeOK, Custody, OneWorkerPerCase
<1>3. Supervised' BY <1>0 DEF IInv, TypeOK, Custody, OneWorkerPerCase, Supervised
<1>4. Children' BY <1>0 DEF IInv, TypeOK, Custody, OneWorkerPerCase, Children, Untouched, AllForked
<1>5. Untouched' BY <1>0 DEF IInv, TypeOK, Custody, Untouched
<1>6. DoneMeansRan' BY <1>0 DEF IInv, TypeOK, Custody, Children, DoneMeansRan, SummaryIsTrue, AllForked
<1>7. QED BY <1>1, <1>2, <1>3, <1>4, <1>5, <1>6 DEF IInv

(* The worker sees the end of the output. *)
LEMMA ReadEOFInv == ASSUME IInv, NEW w \in Workers, ReadEOF(w) PROVE IInv'
<1> USE Numbers DEF ReadEOF, AtEOF
<1>0. mine[w] \in Cases BY BusyCase DEF IInv
<1>1. TypeOK' BY <1>0 DEF IInv, TypeOK
<1>2. Custody' BY <1>0 DEF IInv, TypeOK, Custody, OneWorkerPerCase
<1>3. Supervised' BY <1>0 DEF IInv, TypeOK, Custody, OneWorkerPerCase, Supervised
<1>4. Children' BY <1>0 DEF IInv, TypeOK, Custody, OneWorkerPerCase, Children, Untouched, AllForked
<1>5. Untouched' BY <1>0 DEF IInv, TypeOK, Custody, Untouched
<1>6. DoneMeansRan' BY <1>0 DEF IInv, TypeOK, Custody, Children, DoneMeansRan, SummaryIsTrue, AllForked
<1>7. QED BY <1>1, <1>2, <1>3, <1>4, <1>5, <1>6 DEF IInv

(* The worker reaps its child. *)
LEMMA WaitOwnInv == ASSUME IInv, NEW w \in Workers, WaitOwn(w) PROVE IInv'
<1> USE Numbers DEF WaitOwn, Verdict
<1>0. mine[w] \in Cases BY BusyCase DEF IInv
<1>1. TypeOK' BY <1>0 DEF IInv, TypeOK
<1>2. Custody' BY <1>0 DEF IInv, TypeOK, Custody, OneWorkerPerCase
<1>3. Supervised' BY <1>0 DEF IInv, TypeOK, Custody, OneWorkerPerCase, Supervised
<1>4. Children' BY <1>0 DEF IInv, TypeOK, Custody, OneWorkerPerCase, Children, Untouched, AllForked
<1>5. Untouched' BY <1>0 DEF IInv, TypeOK, Custody, Untouched
<1>6. DoneMeansRan' BY <1>0 DEF IInv, TypeOK, Custody, Children, DoneMeansRan, SummaryIsTrue, AllForked
<1>7. QED BY <1>1, <1>2, <1>3, <1>4, <1>5, <1>6 DEF IInv

(* The child has been reaped by somebody else. *)
LEMMA WaitStolenInv == ASSUME IInv, NEW w \in Workers, WaitStolen(w) PROVE IInv'
<1> USE Numbers DEF WaitStolen, Verdict
<1>0. mine[w] \in Cases BY BusyCase DEF IInv
<1>1. TypeOK' BY <1>0 DEF IInv, TypeOK
<1>2. Custody' BY <1>0 DEF IInv, TypeOK, Custody, OneWorkerPerCase
<1>3. Supervised' BY <1>0 DEF IInv, TypeOK, Custody, OneWorkerPerCase, Supervised
<1>4. Children' BY <1>0 DEF IInv, TypeOK, Custody, OneWorkerPerCase, Children, Untouched, AllForked
<1>5. Untouched' BY <1>0 DEF IInv, TypeOK, Custody, Untouched
<1>6. DoneMeansRan' BY <1>0 DEF IInv, TypeOK, Custody, Children, DoneMeansRan, SummaryIsTrue, AllForked
<1>7. QED BY <1>1, <1>2, <1>3, <1>4, <1>5, <1>6 DEF IInv

(* A worker without a child reaps any. *)
LEMMA WaitAnyInv == ASSUME IInv, NEW w \in Workers, WaitAny(w) PROVE IInv'
<1> USE Numbers DEF WaitAny, Verdict
<1>0. mine[w] \in Cases BY BusyCase DEF IInv
<1>1. TypeOK' BY <1>0, ZenonT(60) DEF IInv, TypeOK
<1>2. Custody' BY <1>0 DEF IInv, TypeOK, Custody, OneWorkerPerCase
<1>3. Supervised' BY <1>0 DEF IInv, TypeOK, Custody, OneWorkerPerCase, Supervised
<1>4. Children' BY <1>0, SMTT(30) DEF IInv, TypeOK, Custody, OneWorkerPerCase, Children, Untouched, AllForked
<1>5. Untouched' BY <1>0 DEF IInv, TypeOK, Custody, Untouched
<1>6. DoneMeansRan' BY <1>0 DEF IInv, TypeOK, Custody, Children, DoneMeansRan, SummaryIsTrue, AllForked
<1>7. QED BY <1>1, <1>2, <1>3, <1>4, <1>5, <1>6 DEF IInv

(* A child prints a divergence line. *)
LEMMA PrintBadInv == ASSUME IInv, NEW c \in Cases, PrintBad(c) PROVE IInv'
<1> USE Numbers DEF PrintBad
<1>1. TypeOK' BY DEF IInv, TypeOK
<1>2. Custody' BY DEF IInv, TypeOK, Custody, OneWorkerPerCase
<1>3. Supervised' BY DEF IInv, TypeOK, Custody, OneWorkerPerCase, Supervised
<1>4. Children' BY DEF IInv, TypeOK, Custody, OneWorkerPerCase, Children, Untouched, AllForked
<1>5. Untouched' BY DEF IInv, TypeOK, Custody, Untouched
<1>6. DoneMeansRan' BY DEF IInv, TypeOK, Custody, Children, DoneMeansRan, SummaryIsTrue, AllForked
<1>7. QED BY <1>1, <1>2, <1>3, <1>4, <1>5, <1>6 DEF IInv

(* A child exits. *)
LEMMA ExitInv == ASSUME IInv, NEW c \in Cases, Exit(c) PROVE IInv'
<1> USE Numbers DEF Exit
<1>1. TypeOK' BY DEF IInv, TypeOK
<1>2. Custody' BY DEF IInv, TypeOK, Custody, OneWorkerPerCase
<1>3. Supervised' BY DEF IInv, TypeOK, Custody, OneWorkerPerCase, Supervised
<1>4. Children' BY DEF IInv, TypeOK, Custody, OneWorkerPerCase, Children, Untouched, AllForked
<1>5. Untouched' BY DEF IInv, TypeOK, Custody, Untouched
<1>6. DoneMeansRan' BY DEF IInv, TypeOK, Custody, Children, DoneMeansRan, SummaryIsTrue, AllForked
<1>7. QED BY <1>1, <1>2, <1>3, <1>4, <1>5, <1>6 DEF IInv

(* Nothing happens. *)
LEMMA StutterInv == ASSUME IInv, UNCHANGED vars PROVE IInv'
BY DEF vars, IInv, TypeOK, Custody, OneWorkerPerCase, Supervised, Children,
       Untouched, DoneMeansRan, SummaryIsTrue, AllForked

(* Every step preserves the invariant. *)
LEMMA NextInv == IInv /\ [Next]_vars => IInv'
<1> SUFFICES ASSUME IInv, [Next]_vars PROVE IInv' OBVIOUS
<1>1. ASSUME NEW w \in Workers, WorkerStep(w) PROVE IInv'
  BY <1>1, FetchInv, NoneLeftInv, MakePipeInv, ForkInv, ForkFailsInv, CloseEndInv,
     NoReaderInv, ReadLineInv, ReadEOFInv, WaitOwnInv, WaitStolenInv, WaitAnyInv DEF WorkerStep
<1>2. ASSUME NEW c \in Cases, PrintBad(c) \/ Exit(c) PROVE IInv'
  BY <1>2, PrintBadInv, ExitInv
<1>3. QED BY <1>1, <1>2, StutterInv DEF Next

(* The inductive invariant holds in every reachable state.                   *)
THEOREM Inductive == Spec => []IInv
BY InitInv, NextInv, PTL DEF Spec

(* Type correctness of the orchestrator's state.                             *)
THEOREM TypeCorrect == Spec => []TypeOK
<1>1. IInv => TypeOK BY DEF IInv
<1>2. QED BY <1>1, Inductive, PTL

(* A step of a worker or of a child leaves no begun case queued, and what a   *)
(* worker fetches was queued.                                                *)
LEMMA StepOnce ==
  ASSUME IInv, [Next]_vars
  PROVE  /\ \A w \in Workers : wpc[w] = "fetch" /\ wpc'[w] = "pipe" =>
                               status[mine'[w]] = "queued"
         /\ \A c \in Cases : status[c] # "queued" => status'[c] # "queued"
<1> DEFINE Once ==
      /\ \A x \in Workers : wpc[x] = "fetch" /\ wpc'[x] = "pipe" =>
                             status[mine'[x]] = "queued"
      /\ \A c \in Cases : status[c] # "queued" => status'[c] # "queued"
<1> USE Numbers DEF IInv, TypeOK
<1>1. ASSUME NEW w \in Workers, Fetch(w) PROVE Once BY <1>1 DEF Fetch, Untouched
<1>2. ASSUME NEW w \in Workers, NoneLeft(w) \/ MakePipe(w) PROVE Once
  BY <1>2 DEF NoneLeft, MakePipe
<1>3. ASSUME NEW w \in Workers, Fork(w) \/ ForkFails(w) PROVE Once
  BY <1>3 DEF Fork, ForkFails
<1>4. ASSUME NEW w \in Workers, CloseEnd(w) \/ NoReader(w) PROVE Once
  BY <1>4 DEF CloseEnd, NoReader
<1>5. ASSUME NEW w \in Workers, ReadLine(w) \/ ReadEOF(w) PROVE Once
  BY <1>5 DEF ReadLine, ReadEOF
<1>6. ASSUME NEW w \in Workers, WaitOwn(w) \/ WaitStolen(w) PROVE Once
  <2>1. CASE WaitOwn(w) BY <2>1 DEF WaitOwn, Verdict
  <2>2. CASE WaitStolen(w) BY <2>2 DEF WaitStolen, Verdict
  <2> QED BY <1>6, <2>1, <2>2
<1>7. ASSUME NEW w \in Workers, WaitAny(w) PROVE Once
  BY <1>7 DEF WaitAny, Verdict
<1>8. ASSUME NEW c \in Cases, PrintBad(c) \/ Exit(c) PROVE Once
  BY <1>8 DEF PrintBad, Exit
<1>9. ASSUME UNCHANGED vars PROVE Once BY <1>9 DEF vars
<1>10. Once
  BY <1>1, <1>2, <1>3, <1>4, <1>5, <1>6, <1>7, <1>8, <1>9 DEF Next, WorkerStep
<1>11. QED BY <1>10

(* Every case is taken up once, by one worker, and never again after its     *)
(* verdict.                                                                  *)
THEOREM EachCaseOnceHolds == Spec => EachCaseOnce
<1>1. IInv /\ [Next]_vars =>
        [/\ \A w \in Workers : wpc[w] = "fetch" /\ wpc'[w] = "pipe" =>
                                status[mine'[w]] = "queued"
         /\ \A c \in Cases : status[c] # "queued" => status'[c] # "queued"]_vars
  BY StepOnce
<1>2. QED BY <1>1, Inductive, PTL DEF Spec, EachCaseOnce

(* A worker number below the GPU count is its own GPU number. *)
LEMMA OwnGpu == ASSUME NEW w \in Nat, w < NGpu PROVE w % NGpu = w
BY Numbers

(* With no more workers than GPUs, running children are on different GPUs.   *)
THEOREM OnePerGpuHolds == Spec => []OnePerGpu
<1>1. ASSUME IInv PROVE OnePerGpu
  <2> SUFFICES ASSUME NJobs <= NGpu, NEW c \in Cases, NEW k \in Cases,
                      child[c] = "running", child[k] = "running", c # k
               PROVE  \E v, w \in Workers :
                        /\ mine[v] = c /\ wpc[v] \in Busy
                        /\ mine[w] = k /\ wpc[w] \in Busy
                        /\ gpu(v) # gpu(w)
    BY DEF OnePerGpu
  <2>1. PICK v \in Workers : mine[v] = c /\ wpc[v] \in HasForked
    BY <1>1 DEF IInv, Supervised
  <2>2. PICK w \in Workers : mine[w] = k /\ wpc[w] \in HasForked
    BY <1>1 DEF IInv, Supervised
  <2>3. v # w BY <2>1, <2>2
  <2>4. gpu(v) = v /\ gpu(w) = w BY OwnGpu, Numbers DEF gpu
  <2>5. QED BY <2>1, <2>2, <2>3, <2>4
<1>2. QED BY <1>1, Inductive, PTL

(* As long as no fork has failed, "done" is said only of cases that ran to   *)
(* exit zero.                                                                *)
THEOREM DoneMeansRanHolds == Spec => []DoneMeansRan
<1>1. IInv => DoneMeansRan BY DEF IInv
<1>2. QED BY <1>1, Inductive, PTL
=============================================================================
