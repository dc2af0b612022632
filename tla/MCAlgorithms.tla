---------------------------- MODULE MCAlgorithms ----------------------------
(***************************************************************************)
(* The pure functions of the repository, each run on every case of a       *)
(* bounded family: in is the case, out what the function returns for it.   *)
(* From the idle state one action per function picks a case; all but the   *)
(* comparison of results are actions of module Rules.                      *)
(***************************************************************************)
EXTENDS Rules

CONSTANTS
  MaxCells       \* the largest mesh of the demo

SX == INSTANCE SequencesExt
CC == INSTANCE CompareCases
AC == INSTANCE AuditCases
DC == INSTANCE DemoCases
MC == INSTANCE ManifestCases

SmallMeshes == DC!MeshCases
SmallTraces == DC!TraceCases

SmallGlyphs == MC!Letters
SmallScalars == MC!ScalarCases
SmallRuns == MC!Runs
SmallStructs == AC!StructCases
SmallGuards == AC!GuardCases
SmallUnits == AC!UnitCases
(* No two components of a solver share the key they are recorded under.     *)
ASSUME KeysAreDistinct ==
  \A s \in MC!Solvers : \A i, j \in DOMAIN MC!Tables[s] :
    MC!Tables[s][i].name = MC!Tables[s][j].name => i = j

CompareFiles == in = Idle /\ \E x \in CC!Cases : in' = x /\ out' = CC!Answer(x)
CompareRuns == in = Idle /\ \E x \in CC!RunCases : in' = x /\ out' = CC!RunExit(x)

Next == Apply \/ CompareFiles \/ CompareRuns
Spec == Init /\ [][Next]_vars

(* foam_time_compare.py reads back what a solver printed, calls two files   *)
(* alike exactly when their keywords, headers and shapes are (a uniform     *)
(* value standing for a list of any length), finds the worst difference of  *)
(* two numbers where none of them is a NaN, and says the same with the      *)
(* sides exchanged; it exits 0 exactly when every reference time has the    *)
(* same files with the same contents.                                       *)
CompareIsExact ==
  /\ in.tool = "compare" =>
       /\ \A v \in {out.said, out.exchanged} :
            /\ v.ok = in.promise.ok
            /\ in.promise.worst # <<>> => v.worst = in.promise.worst
       /\ out.readBack
  /\ in.tool = "compareRuns" => (out = 0) = CC!RunPromise(in)
-----------------------------------------------------------------------------
(* Where a tool does not do what its docstring says; each is evaluated by   *)
(* TLC, and fails once the tool is as it says.                              *)

(* slice_provenance.py "does not care" how the header is worded: it refuses *)
(* a faithful copy with the donor's first line in its header.               *)
ASSUME HeaderIsNotFree ==
  \E c \in Texts(MaxCopy), d \in Texts(MaxDonor) :
    FirstLine(d) # <<>> /\ Ends(c, d) /\ ~Identical(c, d)

(* foam_time_compare.py finds the worst difference "over every number": it  *)
(* is 0 where one side is a NaN and the other is none.                      *)
ASSUME NaNIsNotSeen ==
  \E x \in CC!Cases : /\ x.promise = [ok |-> TRUE, worst |-> <<>>] /\ x.a # x.b
                       /\ CC!Answer(x).said = [ok |-> TRUE, worst |-> <<0>>]

(* header_odr_audit.py finds definitions "with external linkage": it finds  *)
(* namespace { int f() { ... } }.                                           *)
ASSUME UnnamedIsFound ==
  SX!FoldLeft(Scan, Start, <<"namespace", "lbrace", "int", "f", "lpar", "rpar", "lbrace">>).found
    = <<"f">>

(* resize_audit.py asks for the last thing done to a buffer: a resize after *)
(* a zero, right before the launch that adds, is not reported.              *)
ResizedLast(fn, i, b) ==
  \E j \in 1..(i - 1) :
    /\ b \in ResizedBy(fn.body[j])
    /\ \A k \in (j + 1)..(i - 1) : \A a \in DOMAIN fn.body[k].args : fn.body[k].args[a] # b
ASSUME OrderIsNotSeen ==
  \E u \in Units : \E fn \in u.fns : \E i \in DOMAIN fn.body :
    \E b \in AddedBy(u.table, fn.body[i]) :
      /\ ResizedLast(fn, i, b) /\ ~Misread(u, fn, b)
      /\ <<fn.body[i].name, b>> \notin ReportedKeys(u)

(* default_audit.py reports an entry "whose struct, variable or field no    *)
(* longer exists" as stale: a run passes that compares sites of a struct of *)
(* the name, over an entry of a definition there is not.                    *)
Exists(p, k) ==
  \E d \in p.defs : /\ k[1] \in {<<p.name>>, <<d.ns, p.name>>} /\ k[3] \in d.fields \cup {"*"}
                    /\ \E s \in p.sites : s.var = k[2]
ASSUME LedgerRots ==
  \E p \in Structs :
    LET filled == OwnAssignments(p.fns)
    IN /\ \A f, g \in DOMAIN p.fns : ~Adds(p.fns, filled, f, g)
       /\ Evaluated(p, filled) # {} /\ Exit(p, filled, p.allow) = 0
       /\ \E k \in p.allow : ~Exists(p, k)
=============================================================================
