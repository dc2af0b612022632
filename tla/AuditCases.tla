----------------------------- MODULE AuditCases -----------------------------
(***************************************************************************)
(* Programs for the source audits.                                         *)
(***************************************************************************)
EXTENDS Naturals, Sequences, SequencesExt, FiniteSets

CONSTANTS None   \* no namespace
-----------------------------------------------------------------------------
(* resize_audit.py: a driver with two buffers and the helper h(p) it calls. *)
(* The names of y and q may end in those of x and p (say, dx and dp).       *)

Kernels == [set  |-> [names |-> <<"d">>, acc |-> {}, assign |-> {"d"}],
            add  |-> [names |-> <<"d">>, acc |-> {"d"}, assign |-> {}],
            copy |-> [names |-> <<"d", "s">>, acc |-> {}, assign |-> {"d"}]]
Stmt(op, name, args) == [op |-> op, name |-> name, args |-> args]
Basic(b) == {Stmt("resize", "", <<b>>), Stmt("zero", "", <<b>>), Stmt("launch", "add", <<b>>)}
DriverStmts == Basic("x") \cup {Stmt("call", "h", <<"x">>), Stmt("resize", "", <<"y">>),
                 Stmt("copyFrom", "", <<"y">>), Stmt("launch", "add", <<"y">>),
                 Stmt("launch", "copy", <<"y", "x">>)}
HelperStmts == Basic("p") \cup {Stmt("launch", "set", <<"p">>), Stmt("resize", "", <<"q">>)}
Driver(body) == [name |-> "driver", params |-> <<>>, body |-> body]
Helper(body) == [name |-> "h", params |-> <<"p">>, body |-> body]
Fns ==
  {{Driver(d), Helper(h)} : d \in SeqOf(DriverStmts, 3), h \in SeqOf(HelperStmts, 1)}
    \cup {{Driver(<<Stmt("resize", "", <<"x">>), Stmt("call", "h", <<"x">>)>>), Helper(h)} :
            h \in SeqOf(HelperStmts, 3)}
Same == {<<b, b>> : b \in {"x", "y", "p", "q"}}
FoundBy(more) == [op \in {"resize", "zero", "copyFrom", "launch"} |->
                    IF op = "zero" THEN Same ELSE Same \cup more]
Lists == {{}, {<<"add", "x">>}}
UnitCases == [table : {Kernels}, fns : Fns, allow : Lists,
              found : {FoundBy({}), FoundBy({<<"y", "x">>, <<"q", "p">>})}]
-----------------------------------------------------------------------------
(* default_audit.py: one controls struct, or two of a name - in namespaces  *)
(* A and B, both in A inside of others, or one in none - and two readers r  *)
(* and q that may hand the struct on, and two sites.                        *)

Def(type, fields, ns) == [type |-> type, fields |-> fields, ns |-> ns]
Defs == {{Def(1, {"f", "g", "h"}, None)},
         {Def(1, {"f", "g", "h"}, "A"), Def(2, {"f", "g", "k"}, "B")},
         {Def(1, {"f", "g", "h"}, "A"), Def(2, {"f", "g", "h"}, "A")},
         {Def(1, {"f", "g", "h"}, "A"), Def(2, {"f", "g", "k"}, None), Def(3, {"f", "g", "h"}, "B")}}
Readers == {[r |-> [sets |-> s, calls |-> c], q |-> [sets |-> {"g"}, calls |-> e]] :
              s \in {{}, {"f"}}, c \in {{}, {"q"}}, e \in {{}, {"r"}}}
Site(id, var, ns, type, sets, calls) ==
  [id |-> id, var |-> var, ns |-> ns, type |-> type, sets |-> sets, calls |-> calls]
Sites(id, var, type) == {Site(id, var, n, type, s, c) : n \in {None, "A", "B"},
                     s \in {{}, {"f"}, {"h"}, {"k"}}, c \in {{}, {"r"}}}
Ledgers == {{}, {<<<<"T">>, "c", "*">>}, {<<<<"T">>, "c", "f">>, <<<<"T">>, "e", "h">>},
            {<<<<"A", "T">>, "c", "g">>, <<<<"T">>, "e", "f">>}}

(* A program that compiles: a site sets members of its own struct.          *)
Reached(fns, s) == {g \in DOMAIN fns : g \in s.calls \/ \E f \in s.calls : g \in fns[f].calls}
Fields(fns, s) == s.sets \cup UNION {fns[g].sets : g \in Reached(fns, s)}
Compiles(defs, fns, s) == \E d \in defs : s.type = d.type /\ Fields(fns, s) \subseteq d.fields

StructCases ==
  {p \in [name : {"T"}, defs : Defs, fns : Readers, allow : Ledgers,
          sites : {{s, t} : s \in Sites(1, "c", 1), t \in Sites(2, "e", 1) \cup Sites(2, "e", 2)}] :
     \A s \in p.sites : Compiles(p.defs, p.fns, s)}
-----------------------------------------------------------------------------
(* cache_key_audit.py: the cache c compares members of what it is handed.   *)

Compared == {<<"A", "owner">>, <<"A", "diag">>, <<"c", "owner">>, <<"A", "nCells">>,
             <<"A", "addressingId">>, <<"A", "epoch">>}
GuardCases == {[cached |-> "c", compares |-> s, refuses |-> r] :
                 s \in (SUBSET Compared) \ {{}}, r \in BOOLEAN}
=============================================================================
