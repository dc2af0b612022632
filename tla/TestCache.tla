----------------------------- MODULE TestCache -----------------------------
(***************************************************************************)
(* tools/ctest_cached.py: ctest without the tests that have passed before  *)
(* on the same inputs.  Invocations of the tool (Procs) share the store -  *)
(* the recorded passes and the remembered file digests - and the working   *)
(* tree, which an editor, a build or a test rewrites at any moment.  The   *)
(* bytes of a file are a version number; stamp is its (size, mtime).       *)
(***************************************************************************)
EXTENDS Naturals, FiniteSets

CONSTANTS
  Procs,            \* invocations of the tool
  Tests,
  Scripts,          \* files the tool reads the text of
  Binaries,         \* executables of the builds
  InTree,           \* data files reached through a whole directory
  Outside,          \* files outside the repository: only their stamp is taken
  Requests,         \* the options: a selection, an environment, --no-cache, --list
  Envs,             \* the BRAE_* variables, OpenFOAM, GPU and salt of an invocation
  BuildOf,          \* BuildOf[p]: the build directory p was given
  Exes(_),          \* the executables in a build directory
  Direct(_, _),     \* the files of a test's command line and DEPENDS in a build
  Writes,           \* Writes[t]: the files a run of t rewrites
  Named(_, _),      \* the files that a script or a binary with these bytes names
  DigestOf(_, _),   \* sha256 of the bytes, of an ELF file only what it loads
  Outcome(_, _, _), \* does t pass under env on these files and digests
  MaxVersion,       \* MaxVersion[f]: bound on the versions of a file
  MaxClock,         \* bound on the rewrites of files
  MaxRuns,          \* bound on the invocations
  None, Torn        \* no such file; a file that does not parse

Files == Scripts \cup Binaries \cup InTree \cup Outside
Builds == {BuildOf[p] : p \in Procs}

Versions(f) == 0..MaxVersion[f]

(* A file is of one kind, and what a test or a file names is a file.        *)
ASSUME KindsAssumption ==
  /\ IsFiniteSet(Scripts)
  /\ Scripts \cap (Binaries \cup InTree \cup Outside) = {}
  /\ Binaries \cap (InTree \cup Outside) = {} /\ InTree \cap Outside = {}
  /\ MaxVersion \in [Files -> Nat]
  /\ None \notin Tests /\ \A o \in Requests : o.sel \subseteq Tests
  /\ \A b \in Builds : Exes(b) \subseteq Files
  /\ \A b \in Builds, t \in Tests : Direct(t, b) \subseteq Files
  /\ \A f \in Scripts \cup Binaries : \A v \in Versions(f) : Named(f, v) \subseteq Files

(* Files with one digest name the same files.  How versions are numbered is *)
(* a convention: those with one digest get numbers next to each other, so   *)
(* that bytes whose digest returns have a number that does not grow (see    *)
(* Edit, which goes from any version to any other).                         *)
ASSUME ContentAssumption ==
  /\ \A f \in Scripts \cup Binaries : \A u, v \in Versions(f) :
       DigestOf(f, u) = DigestOf(f, v) => Named(f, u) = Named(f, v)
  /\ \A f \in Files : \A u, v, w \in Versions(f) :
       u <= v /\ v <= w /\ DigestOf(f, u) = DigestOf(f, w) => DigestOf(f, v) = DigestOf(f, u)

VARIABLES
  bytes, stamp,     \* the working tree
  clock,            \* the time the latest rewrite left on its file
  undone,           \* history: a file went back while an invocation was under way
  passed,           \* the store: fingerprints with a recorded pass
  memo, tmp,        \* file-memo.json and file-memo.json.tmp
  junit,            \* per build: the results of the latest ctest, or None
  inv,              \* the state of each invocation, see Fresh
  runs              \* invocations so far

disk == <<bytes, stamp, clock, undone>>
vars == <<disk, passed, memo, tmp, junit, inv, runs>>

Nothing == [x \in {} |-> None]

(* What main, Inputs and Closure hold: the options and the environment, the *)
(* fingerprints before and after the run, Inputs.memo and Inputs.fresh,     *)
(* Inputs.trees and Closure.scripts; then the fingerprint being computed    *)
(* (its test, the files left, the rows so far and the stamp taken before    *)
(* the bytes) and ctest's results so far.                                   *)
Fresh == [pc |-> "idle", phase |-> "before", opts |-> None,
          keys |-> Nothing, after |-> Nothing, known |-> Nothing, fresh |-> Nothing,
          trees |-> Nothing, texts |-> Nothing,
          todo |-> {}, cur |-> None, left |-> {}, rows |-> Nothing, at |-> None,
          results |-> Nothing]

Init ==
  /\ bytes = [f \in Files |-> 0] /\ stamp = [f \in Files |-> 0] /\ clock = 0
  /\ undone = FALSE
  /\ passed = {} /\ memo = None /\ tmp = None
  /\ junit = [b \in Builds |-> None]
  /\ inv = [p \in Procs |-> Fresh]
  /\ runs = 0
-----------------------------------------------------------------------------
(* What a test reaches and the fingerprint over it.                         *)

Extend(f, x, v) == [y \in DOMAIN f \cup {x} |-> IF y = x THEN v ELSE f[y]]
Override(f, g) == [y \in DOMAIN f \cup DOMAIN g |->
                     IF y \in DOMAIN g THEN g[y] ELSE f[y]]

(* Closure.ofScript follows scripts through scripts.  text[s] is what       *)
(* script s names.                                                          *)
Closed(S, text) ==
  LET step(T) == T \cup UNION {text[s] : s \in T \cap Scripts}
      close[n \in 0..Cardinality(Scripts)] ==
        IF n = 0 THEN step(S) ELSE step(close[n - 1])
  IN close[Cardinality(Scripts)]

(* An executable adds what is compiled into it, not followed further.  What *)
(* ofBinary remembers of an executable is read after its stamp, like a      *)
(* digest, so it is what the bytes of that stamp name.                      *)
Reach(t, b, text) ==
  LET S == Closed(Direct(t, b), text)
  IN S \cup UNION {Named(x, bytes[x]) : x \in S \cap Binaries}

RowOf(f) == IF f \in Outside THEN stamp[f] ELSE DigestOf(f, bytes[f])

(* One sha256 over the command, the environment and every input's row.      *)
Fingerprint(t, b, env, r) == <<t, b, env, r>>

(* The fingerprint and the outcome of t on the tree as it stands.           *)
TrueText == [s \in Scripts |-> Named(s, bytes[s])]
TrueInputs(t, b) ==
  LET S == Closed(Direct(t, b), TrueText)
  IN S \cup UNION {Named(x, bytes[x]) : x \in S \cap Binaries}
TrueKey(t, b, env) ==
  Fingerprint(t, b, env, [f \in TrueInputs(t, b) |-> RowOf(f)])
Passes(t, b, env) ==
  Outcome(t, env, [f \in TrueInputs(t, b) |-> DigestOf(f, bytes[f])])
-----------------------------------------------------------------------------
(* Computing a fingerprint.                                                 *)

(* main up to keysOf: the remembered digests are read - a file that does    *)
(* not parse counts as none - and the executables are hashed first.         *)
Start(p) ==
  /\ inv[p].pc = "idle" /\ runs < MaxRuns
  /\ \E o \in Requests :
       inv' = [inv EXCEPT ![p] =
                 [Fresh EXCEPT !.pc = "key", !.opts = o, !.todo = o.sel,
                               !.known = IF memo \in {None, Torn} THEN Nothing ELSE memo,
                               !.left = Exes(BuildOf[p])]]
  /\ runs' = runs + 1
  /\ UNCHANGED <<disk, passed, memo, tmp, junit>>

(* What each script's text names: as first read in this phase, or now.      *)
TextNow(p) == Override(TrueText, inv[p].texts)

(* fingerprint(t): the inputs are gathered, script texts once per phase.    *)
BeginKey(p) ==
  /\ inv[p].pc = "key" /\ inv[p].left = {} /\ inv[p].cur = None
  /\ \E t \in inv[p].todo :
       LET r == Reach(t, BuildOf[p], TextNow(p))
       IN inv' = [inv EXCEPT ![p].cur = t, ![p].todo = @ \ {t}, ![p].left = r,
                             ![p].rows = Nothing,
                             ![p].texts = Override([s \in r \cap Scripts |-> TextNow(p)[s]], @)]
  /\ UNCHANGED <<disk, passed, memo, tmp, junit, runs>>

Remembered(p, f) ==
  LET held(m) == f \in DOMAIN m /\ m[f].stamp = stamp[f]
  IN IF held(inv[p].fresh) THEN inv[p].fresh[f]
     ELSE IF held(inv[p].known) THEN inv[p].known[f] ELSE None

NextFile(p) == CHOOSE f \in inv[p].left : TRUE

(* The next row is v; a directory's row is kept for the phase.              *)
AddRow(p, f, v, m) ==
  [inv EXCEPT ![p].rows = Extend(@, f, v), ![p].left = @ \ {f}, ![p].pc = "key",
              ![p].at = None, ![p].fresh = m,
              ![p].trees = IF f \in InTree \cup Outside THEN Extend(@, f, v) ELSE @]

(* A row of a directory already hashed in this phase, of a file outside, or *)
(* of a file whose stamp is the one its digest is remembered under.         *)
TakeRow(p) ==
  /\ inv[p].pc = "key" /\ inv[p].left # {}
  /\ LET f == NextFile(p)
         r == Remembered(p, f)
     IN \/ /\ f \in DOMAIN inv[p].trees
           /\ inv' = AddRow(p, f, inv[p].trees[f], inv[p].fresh)
        \/ /\ f \notin DOMAIN inv[p].trees /\ f \in Outside
           /\ inv' = AddRow(p, f, stamp[f], inv[p].fresh)
        \/ /\ f \notin DOMAIN inv[p].trees /\ f \notin Outside /\ r # None
           /\ inv' = AddRow(p, f, r.digest, Extend(inv[p].fresh, f, r))
  /\ UNCHANGED <<disk, passed, memo, tmp, junit, runs>>

(* fileHash of a file nothing is remembered of: first its stamp ...         *)
StatFile(p) ==
  /\ inv[p].pc = "key" /\ inv[p].left # {}
  /\ LET f == NextFile(p)
     IN /\ f \notin DOMAIN inv[p].trees /\ f \notin Outside
        /\ Remembered(p, f) = None
        /\ inv' = [inv EXCEPT ![p].at = stamp[f], ![p].pc = "read"]
  /\ UNCHANGED <<disk, passed, memo, tmp, junit, runs>>

(* ... then its bytes, remembered under that stamp.                         *)
HashedUnder(p, f) == [stamp |-> inv[p].at, digest |-> DigestOf(f, bytes[f])]

ReadFile(p) ==
  /\ inv[p].pc = "read"
  /\ LET f == NextFile(p)
     IN inv' = AddRow(p, f, DigestOf(f, bytes[f]), Extend(inv[p].fresh, f, HashedUnder(p, f)))
  /\ UNCHANGED <<disk, passed, memo, tmp, junit, runs>>

EndKey(p) ==
  /\ inv[p].pc = "key" /\ inv[p].left = {} /\ inv[p].cur # None
  /\ LET k == Fingerprint(inv[p].cur, BuildOf[p], inv[p].opts.env, inv[p].rows)
     IN inv' = IF inv[p].phase = "before"
               THEN [inv EXCEPT ![p].cur = None, ![p].keys = Extend(@, inv[p].cur, k)]
               ELSE [inv EXCEPT ![p].cur = None, ![p].after = Extend(@, inv[p].cur, k)]
  /\ UNCHANGED <<disk, passed, memo, tmp, junit, runs>>
-----------------------------------------------------------------------------
(* The two saves, the run and what is recorded of it.                       *)

Step(p, s) == inv' = [inv EXCEPT ![p].pc = s]

(* Seeded defect: what is saved carries the stamps of the moment.           *)
RestampedMemo(p) ==
  LET m == Override(inv[p].known, inv[p].fresh)
  IN [f \in DOMAIN m |-> [m[f] EXCEPT !.stamp = stamp[f]]]

SavedMemo(p) == Override(inv[p].known, inv[p].fresh)

(* Inputs.save: every invocation writes the same file-memo.json.tmp ...     *)
WriteTmp(p) ==
  /\ inv[p].pc = "key" /\ inv[p].left = {} /\ inv[p].cur = None /\ inv[p].todo = {}
  /\ inv' = [inv EXCEPT ![p].pc = "replace", ![p].known = SavedMemo(p)]
  /\ \/ tmp' = SavedMemo(p)
     \/ tmp' = Torn /\ \E q \in Procs \ {p} : inv[q].pc = "replace"
  /\ UNCHANGED <<disk, passed, memo, junit, runs>>

(* ... and renames it.  When another one has renamed it away the rename     *)
(* raises and the invocation ends there.                                    *)
ReplaceMemo(p) ==
  /\ inv[p].pc = "replace"
  /\ \/ /\ tmp # None
        /\ memo' = tmp /\ tmp' = None
        /\ Step(p, IF inv[p].phase = "before" THEN "decide" ELSE "record")
     \/ /\ tmp = None
        /\ inv' = [inv EXCEPT ![p] = Fresh]
        /\ UNCHANGED <<memo, tmp>>
  /\ UNCHANGED <<disk, passed, junit, runs>>

Held(p) == {t \in inv[p].opts.sel : ~inv[p].opts.noCache /\ inv[p].keys[t] \in passed}

(* --list prints and ends, and so does a run with nothing to run; else the  *)
(* result file of the build is removed and ctest gets the rest by name.     *)
Decide(p) ==
  /\ inv[p].pc = "decide"
  /\ LET toRun == inv[p].opts.sel \ Held(p)
     IN IF inv[p].opts.list \/ toRun = {}
        THEN inv' = [inv EXCEPT ![p] = Fresh] /\ UNCHANGED junit
        ELSE /\ junit' = [junit EXCEPT ![BuildOf[p]] = None]
             /\ inv' = [inv EXCEPT ![p].pc = "run", ![p].todo = toRun]
  /\ UNCHANGED <<disk, passed, memo, tmp, runs>>

(* ctest runs one test on the tree as it stands.  It passes, fails or is    *)
(* skipped; what it writes gets a new stamp.                                *)
RunTest(p) ==
  /\ inv[p].pc = "run"
  /\ \E t \in inv[p].todo :
       /\ Writes[t] # {} => clock < MaxClock
       /\ inv' = [inv EXCEPT ![p].todo = @ \ {t},
                   ![p].results = Extend(@, t, Passes(t, BuildOf[p], inv[p].opts.env))]
       /\ bytes' = [f \in Files |-> IF f \in Writes[t] /\ bytes[f] < MaxVersion[f]
                                    THEN bytes[f] + 1 ELSE bytes[f]]
       /\ stamp' = [f \in Files |-> IF f \in Writes[t] THEN clock + 1 ELSE stamp[f]]
       /\ clock' = IF Writes[t] = {} THEN clock ELSE clock + 1
  /\ UNCHANGED <<undone, passed, memo, tmp, junit, runs>>

(* ctest ends, with its result file or - interrupted - without.             *)
EndCtest(p) ==
  /\ inv[p].pc = "run"
  /\ \/ /\ inv[p].todo = {}
        /\ junit' = [junit EXCEPT ![BuildOf[p]] = inv[p].results]
     \/ UNCHANGED junit
  /\ Step(p, "parse")
  /\ UNCHANGED <<disk, passed, memo, tmp, runs>>

(* Seeded defect: what the run remembered of directories and scripts is     *)
(* kept for the second fingerprint.                                         *)
KeptTrees(p) == [trees |-> inv[p].trees, texts |-> inv[p].texts]

ClearedTrees(p) == [trees |-> Nothing, texts |-> Nothing]

(* The passes are read back.  No result file: nothing is recorded.          *)
Parse(p) ==
  /\ inv[p].pc = "parse"
  /\ LET j == junit[BuildOf[p]]
     IN IF j = None
        THEN inv' = [inv EXCEPT ![p] = Fresh]
        ELSE inv' = [inv EXCEPT ![p].pc = "key", ![p].phase = "after",
                       ![p].todo = {t \in DOMAIN j : j[t]} \cap inv[p].opts.sel,
                       ![p].trees = ClearedTrees(p).trees,
                       ![p].texts = ClearedTrees(p).texts]
  /\ UNCHANGED <<disk, passed, memo, tmp, junit, runs>>

(* The passes whose fingerprint the run has left standing.                  *)
Unmoved(p) == {t \in DOMAIN inv[p].after : inv[p].after[t] = inv[p].keys[t]}

(* One file per pass, under the fingerprint taken before the run.           *)
Record(p) ==
  /\ inv[p].pc = "record"
  /\ IF \E t \in Unmoved(p) : inv[p].keys[t] \notin passed
     THEN \E t \in Unmoved(p) :
            /\ inv[p].keys[t] \notin passed
            /\ passed' = passed \cup {inv[p].keys[t]}
            /\ UNCHANGED inv
     ELSE inv' = [inv EXCEPT ![p] = Fresh] /\ UNCHANGED passed
  /\ UNCHANGED <<disk, memo, tmp, junit, runs>>

(* The invocation is interrupted, at any point.                             *)
Crash(p) ==
  /\ inv[p].pc # "idle"
  /\ inv' = [inv EXCEPT ![p] = Fresh]
  /\ UNCHANGED <<disk, passed, memo, tmp, junit, runs>>

(* An editor or a build rewrites a file, forwards or back to earlier bytes, *)
(* and so gives it a new stamp.  Nothing locks the tree.                    *)
Edit(f) ==
  /\ clock < MaxClock
  /\ \E v \in 0..MaxVersion[f] :
       /\ bytes' = [bytes EXCEPT ![f] = v]
       /\ undone' = (undone \/ (v < bytes[f] /\ \E p \in Procs : inv[p].pc # "idle"))
  /\ stamp' = [stamp EXCEPT ![f] = clock + 1]
  /\ clock' = clock + 1
  /\ UNCHANGED <<passed, memo, tmp, junit, inv, runs>>

Work(p) ==
  \/ Start(p) \/ BeginKey(p) \/ TakeRow(p) \/ StatFile(p) \/ ReadFile(p) \/ EndKey(p)
  \/ WriteTmp(p) \/ ReplaceMemo(p) \/ Decide(p) \/ RunTest(p) \/ EndCtest(p)
  \/ Parse(p) \/ Record(p) \/ Crash(p)

Next == (\E p \in Procs : Work(p)) \/ (\E f \in Files : Edit(f))
Spec == Init /\ [][Next]_vars
-----------------------------------------------------------------------------
(* A pass that is recorded for the tree as it stands is one the test would  *)
(* earn on it.                                                              *)
OnlyEarned ==
  \A t \in Tests, b \in Builds, e \in Envs :
    TrueKey(t, b, e) \in passed => Passes(t, b, e)

(* Invocations with one build directory share ctest's result file.          *)
OwnBuilds == \A p, q \in Procs : BuildOf[p] = BuildOf[q] => p = q

(* A held test is never one that fails, whatever was rewritten while the    *)
(* tool hashed, while ctest ran and while the second fingerprint was taken, *)
(* so long as no file went back to earlier bytes while an invocation was    *)
(* under way and no two invocations share a build directory                 *)
(* (ctest_cached.py, recorded).                                             *)
HeldIsEarned == ~undone /\ OwnBuilds => OnlyEarned

(* A digest remembered under the stamp a file has now is the digest of the  *)
(* bytes it has now, in the file on disk, in the one being written and in   *)
(* every invocation (Inputs.fileHash takes the stamp before the bytes).     *)
TrueOf(m) == \A f \in Files :
  f \in DOMAIN m /\ m[f].stamp = stamp[f] => m[f].digest = DigestOf(f, bytes[f])
MemoIsTrue ==
  /\ memo \in {None, Torn} \/ TrueOf(memo)
  /\ tmp \in {None, Torn} \/ TrueOf(tmp)
  /\ \A p \in Procs : TrueOf(inv[p].known) /\ TrueOf(inv[p].fresh)
=============================================================================
