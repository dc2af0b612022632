# TLA+ models of brae

brae is a GPU port of OpenFOAM's finite-volume solvers with a small distributed
system around it: a node agent that registers a machine with a control plane,
takes benchmark jobs and reports results, and a set of Python tools that decide
which tests to run, whether two results agree and whether the sources are
sound. These modules model the parts of it whose correctness depends on order,
failure and concurrency and the algorithms of the tools, check them with TLC on
small instances, and prove the main safety properties with TLAPS for every
instance. Paths below are relative to the repository root.

## 1. Inventory

| Part | State it keeps | Operations | What makes it correct |
|---|---|---|---|
| Node agent loop (`src/node/agent.*`, `backoff.h`) | running job, retry delay, interval, the worker thread's outcome, `pending_result.json` | `tick` (collect, save, report, snapshot, accept), `run`, crash and restart | a finished job's result reaches the control plane, once and truthfully; snapshots never stop |
| Control-plane client (`api_client.*`, `http*`) | none | one HTTP call each for register, snapshot, accept, result, unregister | every reply is read as what it means |
| Job runner (`runner.*`, `jobs.*`) | scratch directory, pipes, child, process group, deadline | `runJob` | a deadline holds, success is earned, nothing stays behind |
| Registration (`cli.*`, `identity.*`, `service_systemd.cpp`, `agent_main.cpp`) | `node.json` (owner, mode), unit, service, registry row | `register` with rollback, `unregister`, daemon start | a command that fails undoes itself; a service always has a readable identity |
| Multi-case orchestrator (`simpleFoam/sweep_cases.cuh`) | atomic case counter, threads, pipes, children | `runSweepCases`, `runOne` | each case once, one per GPU, a true summary, an end |
| Device memory pool (`cuda/device_buffer.cuh`) | free lists by size class, step count, held bytes; pointer and length per buffer | `take`, `give`, `endOfStep`; `resize`, move, destruction | no block with two owners, none too short, none leaked |
| Benchmark command (`common/benchmark.cuh`) | sample cache, helper process, result file | `runBenchmark`, `fetchSample` | the result is about this run and this sample |
| Test-result cache (`tools/ctest_cached.py`) | recorded passes by fingerprint, a memo of file digests by size and time, ctest's result file | fingerprint, run what is not held, fingerprint again, record | a test is held back only if it passed on exactly these inputs |
| Result comparison (`tools/foam_time_compare.py`) | none | parse, compare values, files, times | unlike shapes are never called alike, the worst difference is found |
| Source audits (`tools/resize_audit.py`, `default_audit.py`, `header_odr_audit.py`, `slice_provenance.py`, `cache_key_audit.py`) | a ledger of accepted sites | read the sources, compare with the ledger | what is reported is what is wrong; the ledger is neither short nor stale |
| Porting manifest (`tools/of_manifest.py`) | the curated table, the recorded manifest | emit, `--check` | every change of what is written is seen as drift |
| AMG demo (`demo/amgpcg`) | hierarchy, frames | aggregate, coarsen, trace a cycle, replay | connected aggregates, levels that fit, a replay that shows the cycle |
| Time and write control, coded boundary libraries, object registry and memoised fields, parallel streams and AMI | time index and directories; compiled libraries; memoised gradients; halo schedules | see the plan | a cached value is never older than what it was computed from |
| Numerics (linear solvers, discretisation, turbulence, thermo, meshes) | fields in floating point | SIMPLE/PIMPLE iterations | numerical agreement with OpenFOAM, which the repository tests directly |

How they interact: `brae node register` writes the identity, hands it to the
service account and starts the service; systemd keeps `brae-agent` running,
which reads that identity; the agent's daemon thread makes blocking HTTP calls
and starts a worker thread; the worker thread calls `runJob`, which forks
`brae benchmark`, which in turn starts `git` and a solver one after another.
The sweep and the pool belong to the solver itself. The tools run beside the
program: `ctest_cached.py` wraps `ctest`, which runs the audits, the manifest
check and the comparisons as tests; `resize_audit.py` and `cache_key_audit.py`
exist because of what the device pool does (a block comes back at its old
address with its old contents).

What is hard: the worker ends at any moment of a tick; requests and replies are
lost or arrive late; the process dies between two steps of a hand-over; the
child of a job ignores signals, hangs or never stops writing; a command is
killed in the middle of a registration; threads fork while other threads hold
pipe ends; blocks of memory travel through moves, exceptions and trimming;
files change while their digests are taken and while the tests run on them;
audits that read text must agree with what the text does when it runs.
`PROJECT.json` lists each hazard at its line together with the properties that
would catch it.

## 2. Modules

| Module | Models | Composed of |
|---|---|---|
| `Backoff` | `backoff.h`: retry delay and interval clamp | |
| `NodeAgent` | `agent.cpp`: one action per step of `tick`, the worker thread, crash and restart | `Backoff` |
| `NodeSystem` | the agent with an unreliable network and an external control plane | `NodeAgent`, `ResultCustody` |
| `ResultCustody` | abstract: what becomes of each job (open, out, on disk, settled) | |
| `JobRunner` | `runner.cpp` with the child, its helper, the clock and the agent's death | |
| `NodeRegistration` | `cli.cpp`, `identity.cpp`, `service_systemd.cpp`, the daemon and the registry | |
| `SweepCases` | `sweep_cases.cuh` | |
| `SizeClass`, `DevicePool` | `device_buffer.cuh` | |
| `Rules` | the plain rules as their callers meet them: the retry counter, the sizes of requests one after another, copies compared with their donors, a mesh coarsened, a multigrid cycle traced, the manifest checked, the audits | `Backoff`, `SizeClass`, `SliceProvenance`, `Manifest`, `AuditRules`, `AmgTrace` |
| `AuditRules` | the audits as steps, each beside what the program it reads does | `ResizeAudit`, `DefaultAudit`, `SourceAudits`, `RuleState` |
| `RuleState` | no code: the two variables that `Rules` and its parts step | |
| `TestCache` | `ctest_cached.py`: invocations over one store, editors, interruptions | |
| `FoamCompare` | `foam_time_compare.py` | |
| `ResizeAudit`, `DefaultAudit`, `SourceAudits`, `SliceProvenance` | the audits of the sources | |
| `ManifestTables`, `Manifest` | `of_manifest.py`: its table, and what is done with it | |
| `Aggregation` | `make_steps.py` of the demo: the coarsening of a grid by one level, and the faces this leaves | |
| `AmgTrace` | `make_steps.py`, `replay.py`, `make_compare.py` of the demo: one action for each way a round of `build_levels` ends and for each kind of frame of a cycle; what the replay makes of the frames | `Aggregation`, `RuleState` |
| `CompareCases`, `AuditCases`, `ManifestCases`, `DemoCases` | no code: the families of inputs of the runs and, for the comparison, what must be computed for them | the module of the tool |
| `*_proofs` | theorems and their proofs | the module they name |
| `Induction` | lemmas of the proofs: least elements, sums over finite sets, loops written as recursive functions | |
| `MC*` | instances for TLC | the module they name |

### Agent and control plane

`pc` names the step of `tick` that comes next: collect, save, report (once from
`collectFinishedJob`, once from `tick`), snapshot, accept, sleep. While `call`
is set, the daemon thread sits in `http_.send()`, and only the worker thread,
the control plane and the death of the process can move. The pending file is
written all at once because the code writes a temporary file, syncs and renames
it. The clock is read by one comparison only, so the model keeps the seconds
left (`wait`) instead of absolute times, and the next retry delay instead of
the counter it is computed from; the run `algorithms` shows that the delay and
the counter agree.

The control plane is not in the repository. It is modelled from what
`api_client.cpp` sends and how it reads the replies, and is as free as the
parser allows: it may offer work to a busy node, answer with any error or an
unreadable body, ask for any interval and revoke the token. It keeps two
promises that the agent relies on: a job becomes running only by an accept of a
job on offer, and a terminal job never changes. A request may be lost, its
reply may be lost, or it may arrive after the client has given up.

### Job runner

`rpc` is the position in `runJob`; the loop is drain, poll, deadline, insist.
The child is forked, then grouped (`setpgid`), then running; SIGKILL reaches
group members only. `scratch` tells whose result file the directory holds:
`stale` is one that an attempt left which died with its agent. The helper is
the process the benchmark waits for; `orphan` says that a helper of an earlier
call is still alive, which `runJob` knows nothing of.

### Registration

Each command is a sequence of steps. `troubles` is a history variable with
three possible members, "lost" (a request or reply did not arrive), "killed"
(a command was interrupted) and "loosened" (the mode of `node.json` was
changed by somebody). The properties say which of them they tolerate.
The code ignores whether `systemctl`, `unlink` and `removeIdentity` succeeded
when it takes a registration off; `stuck` is the history of that, "service" or
"identity" for what has stayed without anybody noticing, until it is put on
anew or taken off after all. Left out: `--no-service`, the copying of binaries
to the install directory, `status`.

### Orchestrator

The pipes are not close-on-exec, so `Fork` copies every write end that is open
at that moment into the new child, and a worker sees the end of its child's
output only when every process with a copy has ended. `ForkFails` leaves the
worker with pid -1, with which `waitpid` reaps any child. `NoReader` is an
`fdopen` that returns NULL: the child's lines are not read, and a child that
prints into a pipe nobody reads may never end (`deaf`).

### Device pool

Addresses may come back after they were freed. `on` is the environment switch
`BRAE_NO_DEVICE_POOL`, read once. `give` is split into what it does to the free
list, the byte count and the driver. `ResizeThrows` is an exception in `take`
after the old block has been handed back. Copies and statistics are left out.

### Test-result cache

`bytes` and `stamp` are the disk; `Edit` changes both, from any version to any
other, and `clock` makes the new stamp new. `undone` is the history of a file
that went back to earlier bytes while an invocation was under way. `inv[p]` is one invocation: its position, the memo it loaded
(`known`), the digests it took (`fresh`), the directories and script texts it
remembers (`trees`, `texts`), the fingerprints before and after. One action is
one file: `StatFile` reads the stamp and `ReadFile` the bytes, so that an edit
falls between them; a whole directory's fingerprint is taken file by file in
the same way. `WriteTmp` and `ReplaceMemo` are the two halves of `save`,
through one temporary name that all invocations share; `Crash` may fall
anywhere. ctest is external: `RunTest` passes or fails by what the inputs are
when the test runs and may itself rewrite an input. `Parse`
drops what was remembered (`ClearedTrees`), takes the second fingerprint and
`Record` writes the passes whose fingerprint has not moved.

### Tools

A tool is a function, and its module is written as one: the text it reads is a
sequence of tokens or statements, not characters, and what its regular
expressions find is taken as found. What the answer must be is stated
independently of the tool.

`AuditRules` puts each audit beside the program that its text stands for. For
`resize_audit.py` that program is run: `LoadUnit` takes the functions of a
translation unit, `BeginFunction` to `LeaveHelper` execute them statement by
statement and collect in `bad` every accumulation into a buffer that still
holds what the pool left in its block; the audit, which searches text and knows
no order of statements, must report those. Which buffer's name is found in the
text of which argument is a parameter of the unit (`found`): a name is found
where it stands, and also where it is a part of another one. The ways in which
an accumulation escapes the audit are written out (`Overlooked`). For `header_odr_audit.py` a header is written
token by token (`WriteBetween` to `WriteBody`, one action for each place a
token can stand) while `Scan` reads it, and the functions found must at every
point be those defined so far without a word that keeps them out of other
objects; which of them really have external linkage is kept beside it
(`external`). For `default_audit.py` one reader is credited at a time in any
order (`CreditReader`), and the report is compared with what the sites set
through all the readers they reach (`Sets`). A definition there has the type
that C++ gives it and the namespace that the tool reads for it, which is only
the name of the last namespace opened before it; two types may have one
namespace in this reading, and what the audit can and cannot tell apart then is
a premise (`NamespacesRead`, `ToldApart`, `Nameable`). For `cache_key_audit.py` a guard is compared with the rebuilds that
it lets pass (`Replays`).

`AmgTrace` is stepped too. `LoadTrace` takes a solver, a matrix and, for
OpenFOAM and brae, the dumped hierarchy; `AddLevel`, `FlatLevel` and
`LastLevel` are the three ways a round of `build_levels` ends; `KrylovStart` to
`KrylovUpdate` are the frames of one iteration, with the recursion of the
V-cycle kept as the grid reached, the direction and the sweeps still to do
there. `RaiseShapes` is the exception of numpy when a vector and an operator
differ in length, and that of `run_of` when there is no coarse grid. Later
iterations repeat the same frames.

Of a printed file, the answer is the value it was printed from; of the
manifest, whether the table, the index and the cases say the same now as when
it was recorded, and what a YAML reader makes of a scalar: the reader follows
the rules of YAML for plain and quoted scalars, not the tool's list, and tells
the characters it reads, not the type it gives them. Of the demo's hierarchy,
it is the mesh. The table of `of_manifest.py` is kept entry by entry with
name, classification, status and the set of fields that are filled; the prose
in the fields is one word.

The map of `PROJECT.json` counts source lines, and `ManifestTables` stands for
about five thousand lines of that table, most of them prose. The share of lines
that the map covers therefore says little about how much of the control of the
program is modelled; section 5 and the list of components do.

## 3. Runs

| Run | Bounds | Shows |
|---|---|---|
| `algorithms` | retry counter to 40, requests to 20000 bytes; meshes of up to 4 cells with two weights, target 2, each traced for AmgX and with dumps of no, one and two aggregations for OpenFOAM and brae; drivers of 3 statements on two buffers with helpers of 1, and helpers of 3, under two ledgers, with names that are and are not found in one another; structs with one, two or three definitions, two readers, two sites; headers of 9 tokens; copies of 4 characters; every entry and field of the manifest's table | ten properties, one for each tool or function |
| `test_cache` | 2 invocations at once on two builds, 2 rewrites by an editor or a test, interruptions anywhere; a file of each kind (script, executable, fixture, outside the repository) | `HeldIsEarned`, `MemoIsTrue` |
| `node_safety` | 2 jobs, 1 late request, revocation | seven safety properties and the refinement |
| `node_live` | 1 job, calls of 0 or 15 s, intervals 0 and 20, revocation, 1 late request | `EventuallyDelivered`, `HeartbeatGoesOn` |
| `node_save_fails` | 1 job | violation |
| `job_runs` | 3 attempts, deadline 2, grace 1, pipe of 1, 2 chunks of output | safety of `runJob` and `HardDeadline` |
| `job_chatty` | 1 attempt, endless output | violation |
| `registration` | 3 node ids, 4 commands | five safety properties and `Joins` |
| `registered_twice` | 2 commands | violation |
| `sweep` | 3 cases, 2 workers, 2 GPUs | three safety properties and `StudyCompletes` |
| `sweep_fork_fails` | 2 cases, 2 workers | violation |
| `pool` | 3 buffers, 5 addresses, 3 sizes in 2 classes, keep 2, 5 steps, with and without the pool | ownership, size, trimming, accounting |

Why the bounds are enough for the cases of interest. Two jobs allow one to be
offered while the result of the other is undelivered, and one late request can
overtake its own retry; the agent runs one job at a time, so a third job adds
no new overlap. The retry counter reaches its cap of 60 seconds after five
failures, and the delays and intervals are the code's own. Three attempts of
`runJob` allow a stale directory to be made, met and met again. Four commands
allow register, a failed or killed unregister, and both again; three ids are
one more than a single stranding needs. With three cases and two workers one
worker forks while the other holds a pipe, and one of them returns for another
case. With 60 and 64 in one class and 1100 in another, buffers change size
within and across classes; five addresses are two more than buffers, so blocks
go idle, come back and are trimmed; five steps with keep 2 trim more than once.
Of the cache, one rewrite makes a fingerprint stale and a second one can undo or
repeat it; two invocations are enough for one to load, overwrite or rename what
the other is writing. Each build directory has one invocation. Meshes of four cells have
leftovers of the pairing, two coarsenings and hierarchies that end in one cell;
three statements of a driver, or of a helper, hold every order of resize,
initialise, launch and call that the audit's rules tell apart; nine tokens hold a function
inside a namespace, a class or function followed by another one, and braces in
default arguments and initialisers.
20000 bytes pass every power of two up to 16 KiB and the border at 1 KiB; `classOf` has
the same shape in every octave above it.

Node ids and jobs are interchangeable model values; symmetry is used in
`node_safety` and `pool`, where no liveness property is checked.

Deadlock is checked in the node runs, where the daemon never stops. It is not
checked where the system really ends: after the last bounded command,
attempt or invocation, at the end of a study, at the last step of a caller's
loop, or when a function has returned.

### Fairness

- Node: weak fairness of the daemon thread's own steps, of saving, and of the
  end of each call (libcurl has a timeout on every call). Nothing is assumed of
  the solver's run time. `EventuallyDelivered` states its further needs as
  premises: the daemon stops crashing, the token stays valid, jobs end, and a
  result that is posted again and again is handled and its answer read again
  and again (strong fairness, since each single attempt may fail).
- Job runner: the worker thread runs, time passes, and the kernel lets the
  forked child reach `setpgid`. Nothing is assumed of the job.
- Registration: a command takes its next step; systemd restarts the daemon
  (`Restart=always`); a daemon that is up again and again gets a snapshot
  through.
- Orchestrator: threads run, and every case ends by itself at its `endTime`,
  unless nobody reads its pipe; `StudyCompletes` is stated for studies in which
  every pipe is read.

### Mutants

Every property of a passing run has a seeded defect, marked as such in the
module, that breaks it: the file cleared before the POST, the break after
`waitpid` forgotten, the ownership not handed over, an increment lost, the
parent's copy of a pipe end kept, the free list used as a queue, the
directories remembered across the run, a digest filed under today's stamp, and
so on.

## 4. Proofs

All theorems hold for every value of the constants that satisfies the named
assumptions of the module, if it has any (`NodeAgentAssumption` and so on: types of the
bounds, and that the special model values are not members of the sets).

- `NodeSystem_proofs`. The inductive invariant ties `pc`, `call`, the worker
  and the pending file together (a result call is about the file; a job runs
  only after its accept was applied; the outcome in the executor is that of
  the running job), and extends this to late requests and to the control
  plane. It is needed because, for instance, `PersistedBeforeSent` depends on
  `NoWorkWhileUndelivered`, which depends on what the reply to a snapshot may
  still start. From it follow the type invariant, six state properties, the
  action property `NeverOverwritten`, and that `NodeSystem` implements
  `ResultCustody`. `ResultNeverLost` is proved under the assumption that the
  pending file can be written (`SaveMayFail = FALSE`); the run
  `node_save_fails` shows that the assumption is needed.
- `JobRunner_proofs`. The invariant says at which points there is a child, and
  that a fresh result file is this child's. From it: types, `SignalsOwnGroup`,
  `SuccessIsEarned`, `NothingLeftBehind`. The last one exempts two things, in
  its statement: a return before the scratch directory was looked at (a job
  that is refused, a directory that cannot be made), and the empty directory in
  which a helper that has outlived its leader is still at work.
- `NodeRegistration_proofs`. Five parts: `ComesOff` and `HasLeft` (what a
  command's position says has been taken off, each for what is not stuck),
  `PutOn` (what has been put on, unless the file was loosened or the service is
  stuck), `RowFollows` and `FailedClean` (the row follows the token, as long as
  nothing has gone wrong). From them
  all six safety properties.
- `SweepCases_proofs`. A busy worker owns its case, a live child has a worker
  past its fork, and nothing has happened to cases above the counter. From it:
  types, `EachCaseOnce` (an action property: a case is taken up only from the
  queue, and never returns to it), `OnePerGpu`, `DoneMeansRan`.
- `TestCache_proofs`. `MemoIsTrue` does not survive a rewrite by itself: a
  digest remembered under a stamp the file has not had yet would become current
  with that rewrite. The invariant adds that every stamp, every remembered
  stamp and the stamp an invocation has just taken before reading the bytes are
  not later than the clock (`Dated`, `InvocationOK`), so the new stamp of a
  rewritten file is under no remembered digest. That a rewrite leaves a new
  stamp is the model's `Edit` and `RunTest`; a rewrite that keeps size and time
  is outside it (section 6). `MemoIsTrue` needs no assumption on the constants.

  `HeldIsEarned` rests on it. Its invariant `HInv` says of every invocation
  under way that each digest it took is that of a version the file has had
  since the invocation began, in the order first fingerprint, run, second
  fingerprint; that the files of a finished fingerprint are closed under what
  their texts name; and of every passed test in a result file or in the store
  that it did pass on such inputs. A digest that is the same before and after
  the run was therefore the file's digest during the run, and the files
  reached before and after are those reached during it, because what is
  reached depends only on the texts of the scripts reached. Two premises of the
  property carry this, that no file went back while an invocation was under way
  (`~undone`) and that each build directory has one invocation (`OwnBuilds`).
  Both are needed: without either, `OnlyEarned` alone is violated, and the code
  does record a pass that nobody earned (section 6). The assumptions on
  the constants are that a file is of one kind and what is named is a file
  (`KindsAssumption`), that one digest names the same files, and how versions
  are numbered (`ContentAssumption`); a file may go from any version to any
  other.
- `DevicePool_proofs`. `resize` and the move assignment hand one block back and
  take another, so the invariant `Good` is a predicate of the buffers, sizes,
  free lists, bytes, blocks and step that is shown to hold between the two
  halves as well: once for giving back, once for each way of taking, once for
  moving, once for `endOfStep`. The parts need each other. A block taken from a list
  is long enough because idle blocks have the size of their list; it has no
  other owner because no block is twice in the lists; `TrimComplete` needs that
  no idle block is from a later step (`Past`), which keeps the lists in order
  of age when a block is appended; that the bytes held never become negative
  follows from what they are the sum of. The assumptions are the types of the
  constants, with finitely many sizes: a byte count is a `size_t`.
- `Rules_proofs`. Nine rules for every input, not only those of the run: the
  specification is `RulesSpec`, a part of the next-state relation of
  `algorithms`. The invariant says, for each tool, what the pair of argument
  and result looks like at every step.
  - The delay is the doubling cut at the cap, and doubling the cut value is
    cutting the doubled one.
  - `classOf` is read as "the least multiple of an eighth of the base not below
    the request", from which length, tightness, idempotence and order follow;
    numbers are naturals, so that `size_t` ends is not in it.
  - A copy that ends with its donor contains the donor's first line where the
    donor begins, so the place that is found is that one or an earlier one; from
    an earlier one on, the copy is too long to be the donor.
  - `AggregatesAreSound`, for meshes of any size: after each cell of
    `pairwise_aggregate` the aggregates so far are numbered without a gap,
    each is held together by faces, and every cell passed is in one that has
    two cells or has no neighbour. A leftover cell joins an aggregate across a
    face, so what it joins stays connected. From `MeshesAssumption`: a face
    has two different cells of the mesh.
  - `ReplayFollowsCycle`, for every matrix and every hierarchy, dumped or
    built. While the hierarchy is built (`BuildInv`), the grid of each level is
    the one the aggregates of the level above make, so composing the maps down
    to a grid gives cells of that grid, which is what `Painted` needs. During
    the cycle (`CycleInv`), the grid reached, the sweeps still to do there, the
    mark of the last frame and the fine sweeps drawn so far determine each
    other, going down and going up; the marks therefore never jump, and at the
    end the sweeps drawn are those charged, for AmgX and brae: OpenFOAM's
    cycle is charged four and draws two (section 6), and is exempted. A cycle meets lengths that do not
    fit only on the last grid, and only if the last aggregation merged cells
    and left no face. From `TracesAssumption`: a face has two different cells,
    and a dumped map takes each cell of its grid to a cell of the next.
  - `DriftIsSeen`, for any table, index and cases: what is emitted determines
    what it was emitted from (as far as it is written), because quoting is
    injective, and a YAML reader that is in the state "text" before the escape
    of a character is in it again after it, with that character read; what is
    left plain has no character at which a plain scalar ends or does not begin.
    A field that is not written (section 6) is no part of what is compared.
    From `ManifestAssumption`: a row has its required fields, quote and
    backslash are characters.
  - `OmissionsAreTrue`, for any number of readers, sites and structs: every
    reader is credited at least with its own assignments and at most with what
    it reaches; where nothing can be credited any more, the readers not
    credited with a field are closed under the calls, so credit is exactly
    what is reached. From `StructsAssumption`: the program compiles. Namespaces
    are not assumed to differ; what is reported of structs that the tool takes
    for one another is stated separately (every omission is reported if the
    namespaces were read right; nothing else is if a site fits its own
    definition only).
  - `SourceAuditsAreExact`, for headers of any length: the invariant ties the
    stack of scopes, the depth of parentheses and the words collected by
    `Scan` to the part of the header that is being written. From
    `WordsAssumption`: words are not punctuation. A second invariant
    (`Linkage`) says that a function with external linkage is among the
    unmarked ones; those of unnamed namespaces are found too, though they
    should not be (section 6).
  - `ResizeAuditIsExact`, for units of any functions and kernels: the invariant
    `RunInv` compares the run with the text before the statement that is next.
    A stale buffer is one the audit takes for stale there (`Doubtful`), or the
    text hides it (`Hidden`), so what has gone wrong so far is among the sites
    above it or `Overlooked` (`Seen`); where resizes are spelled apart and
    helpers do not initialise (`Trusted`), the converse holds too (`Nothing`),
    and at the end both are the whole report. Inside a helper the same is said
    of its parameters.
    From `UnitsAssumption`: launches and calls name something and hand it all
    it takes, a name is found in itself, and a helper calls nothing.
- `Induction`. The library's induction rules take an operator, which the
  provers cannot instantiate. A claim about every natural, or every finite set,
  is proved instead from a least counterexample: the set of those it fails of
  is not empty, has a least element by the well-founded order of the library,
  and that element is not a counterexample. In this way recursive functions
  are shown to exist and to satisfy their equations (`LoopExists` for a loop of
  n rounds), and `SumFunction` to add.

The type invariants of `NodeSystem`, `JobRunner`, `NodeRegistration`,
`SweepCases` and `DevicePool` are proved (`TypeCorrect` in each module) and are
therefore not checked again by the runs. That of `NodeSystem`
includes that every interval the agent sleeps is within the limits of
`clampSnapshotInterval`.

Some leaves name a prover with a longer time limit (`SMTT`, `ZenonT`): they
were near the default limit on a busy machine.

Only model-checked: every liveness property (`EventuallyDelivered`,
`HeartbeatGoesOn`, `HardDeadline`, `Joins`, `StudyCompletes`), because fairness
and ENABLED are outside the prover; and of the tools `CompareIsExact`, which is
about the recursive-descent parser of `foam_time_compare.py`: recursive
operators over nested data, which the prover does not accept. Every other
property of a passing run is a theorem.

## 5. Not modelled

- Numerics, turbulence and thermophysical models, meshes: statements about
  floating point and large meshes, not about a state machine of small size.
- The parser of replies beyond what it distinguishes, SHA-256, the NVML probe:
  pure conversions or I/O. Sample-name rules are string predicates.
- File descriptors in `runJob`: when the second `pipe` or `fork` fails, the
  ends already open are not closed by the code; the model keeps no descriptors.
- Several operator commands at once: nothing in the code locks the identity
  directory; the model runs one command at a time.
- The composition of agent and registration: a pending file of an earlier
  registration survives and is posted under a new node id. What the control
  plane answers cannot be read from this repository.
- The tools' reading of text: tokenising, comment stripping and the regular
  expressions that find launches, structs, guards and signatures. A module
  takes what they find as given, so a construct they miss is outside it.
- `pimplefoam_coverage.py`, `mirror_coverage.py`, `phase_table.py`,
  `parts_report.py`, `compare_stages.py` and the plotting scripts: set
  differences, sums and tables over what grep or another program printed.
- The numbers of the AMG demo (smoothing, Galerkin products, CG) and all
  drawing; only the control of the cycle and the sizes are modelled.
- Two registrations of the agent, two control planes (`unregister` talks to
  the default URL, not to the one the identity was registered with) and the
  time a tick may take (two attempts of 15 s before a snapshot): no wall clock
  and one control plane.
- Tests, benchmarks, other demos, `legacy/`, `factory/`: not part of the
  program.

## 6. Disagreements between code and documentation

Each of the first four is a run that is expected to fail.

- `node_save_fails`: `collectFinishedJob` ignores that the pending file could
  not be written and forgets the outcome; `agent.h` says a result "goes to disk
  first and is retried".
- `job_chatty`: `runJob` drains its pipes until they are empty before it looks
  at the deadline, so a job that writes as fast as it is read is never stopped;
  `runner.h` says a "hard deadline".
- `registered_twice`: an identity whose mode is not 0600 counts as none, and
  registering again strands the old row, which `cli.cpp` says must not happen.
- `sweep_fork_fails`: a failed `fork` is not checked; the case can be reported
  done without having run.

Five more are assumptions of `MCAlgorithms`, each a case in which a tool does
not do what its docstring says; TLC evaluates them at the start of `algorithms`,
which fails when one of them is no longer so. The properties of that run claim
no more than holds in spite of them.

- `HeaderIsNotFree`: `slice_provenance.py` refuses a faithful copy whose header
  contains the donor's first line, although "the check does not care how long
  the provenance block is or how it is worded". `CopiesAreExact` promises
  acceptance only where that line is not in the header.
- `NaNIsNotSeen`: `max(worst, nan)` is `worst` in Python, so a field of NaN
  differs by 0 from anything, although `foam_time_compare.py` promises the worst
  difference "over every number". `CompareIsExact` says nothing of the worst
  difference where a NaN is compared.
- `UnnamedIsFound`: `header_odr_audit.py` reports functions of an unnamed
  namespace as having external linkage. `SourceAuditsAreExact` says that none
  with external linkage is missed.
- `OrderIsNotSeen`: `resize_audit.py` does not look at order, so a buffer zeroed
  and then resized again counts as zeroed, although the docstring speaks of the
  last thing done to it. `ResizeAuditIsExact` says what is overlooked.
- `LedgerRots`: a ledger line of a struct that no longer exists is not stale,
  nor is a bare name once the name is qualified, although `default_audit.py`
  says that the ledger cannot rot. `OmissionsAreTrue` is about lines whose
  struct is compared.

Two are excluded by a premise of a property:

- after a 401 the daemon sleeps a minute and calls the control plane again with
  the rejected token, although `agent.h` says it "Loops until the token is
  rejected"; `HeartbeatGoesOn` is about a token that is good;
- `ctest_cached.py` does not notice an edit that is undone during the run, and
  two invocations in one build directory share one result file, so that one may
  record the other's passes; the docstring promises that a test left out has
  passed "on the same inputs". `HeldIsEarned` has both as premises (`undone`,
  `OwnBuilds`); `OnlyEarned`, the promise without them, is violated.

Seen while modelling, and outside every property: a helper that
survives SIGTERM outlives the timeout once the leader has been reaped, although
`runner.cpp` says that a timeout kills the whole tree; a lost reply to
`registerNode`, or a lost request of the rollback, leaves an active row,
although `cli.h` calls the command atomic; `unregister` says that the node has
left the network when the service or the identity did not come off; `register`
says Connected after a snapshot of its own, not after one of the agent's; and a
death of the agent between the end of a job and the save loses the outcome.
Of the tools:

- `resize_audit.py`: a resize inside the callee is not seen, only one level of
  calls is followed, and a buffer's name is found inside longer ones (all in
  `Overlooked` or `Trusted`).
- `default_audit.py` takes the last namespace opened before a struct for its
  own, whether it was closed or not; types of one innermost namespace
  (`cpu::simpleFoam` and `gpu::simpleFoam`) are compared with one another where
  a site fits both; a definition outside any namespace beside two qualified
  ones cannot be named in the ledger. Functions of one name are taken for one
  in the model, as the tool merges them.
- `header_odr_audit.py` does not find `operator` functions or definitions in an
  `extern "C"` block.
- `make_steps.py`: when a level loses its last face, `build_levels` appends the
  operator of the level above, and the cycle then fails on the shapes (a path of
  three cells does it); `run_of` without a coarse grid raises a KeyError.
  `make_compare.py` charges OpenFOAM's cycle four fine sweeps where `run_of`
  does two.
- `of_manifest.py`: `brae_files` and `notes` of one rhoSimpleFoam entry are never
  written (the fields are called `brae_existing` and `note`), `y` leaves plain
  what YAML takes for a number or a Boolean (1, on), some statuses and one
  classification are outside the vocabulary its own comment lists, and the
  default cases are simpleFoam's for every solver.
- `ctest_cached.py`: a rewrite that keeps size and time is not seen; and of two
  invocations that save at once the later rename fails and ends the invocation.

## 7. Plan

1. `SampleCache`: `fetchSample` and `lastWrittenTimeDir` of `benchmark.cuh`
   (an interrupted clone is taken for a complete one; the newest time directory
   may be an earlier run's), composed with `JobRunner`, whose timeout is what
   interrupts the clone.
2. Composition of `NodeAgent` with an abstract `runJob`, and `JobRunner` shown
   to implement it.
3. `TimeControl`: `brae_time.cuh`'s run/loop/write decisions over integer time.
4. `CodedLibrary` and `GradMemo`: caches keyed by what they were made from.
5. A proof of `CompareIsExact`, with the parser of `FoamCompare` written as steps
   over a stack of its own.
