---------------------------- MODULE DefaultAudit ----------------------------
(***************************************************************************)
(* tools/default_audit.py: the fields of a controls struct that one hand-  *)
(* built site sets and another leaves at the default.  p is one struct:    *)
(*   name    its name                                                      *)
(*   defs    its definitions, [type, fields, ns]   (parse_structs: three   *)
(*           members or more, one with a default); ns is the last namespace *)
(*           opened above it, or None: the innermost one, if none of them  *)
(*           was closed; type, its full name, is not read                  *)
(*   fns     what fills it: name |-> [sets |-> fields assigned directly,   *)
(*           calls |-> the functions it hands the struct on to]            *)
(*   sites   [id, var, ns, type, sets, calls], every `Type var;` of the    *)
(*           scan that is not the local of a builder (in_builder); ns is   *)
(*           the qualifier it is written with, or None, and type, which    *)
(*           definition the compiler takes, is not read                    *)
(* and allow, the ledger, is a set of <<qualified name, var, field>>.      *)
(* filled is what filler_functions has credited each function with.        *)
(***************************************************************************)
EXTENDS Naturals, FiniteSets, Sequences

CONSTANTS None

(* filler_functions: each function is first credited with what it assigns,  *)
(* then, as long as that adds something, with what a function it hands the  *)
(* struct on to was credited with.  A builder (returning_builders) has its  *)
(* own assignments only: its calls are {}.                                  *)
OwnAssignments(fns) == [f \in DOMAIN fns |-> fns[f].sets]

(* Seeded defect: a function is never credited with another one's fields.   *)
HandsNothingOn(fns, filled, f, g) == FALSE

Adds(fns, filled, f, g) == g \in fns[f].calls \ {f} /\ ~(filled[g] \subseteq filled[f])
Credited(filled, f, g) == [filled EXCEPT ![f] = @ \cup filled[g]]

(* hand_built_sites: what a site sets itself and through its fillers and    *)
(* builders; a site that sets nothing is not one.                           *)
Assigned(filled, s) == s.sets \cup UNION {filled[f] : f \in s.calls}
HandBuilt(p, filled) == {s \in p.sites : Assigned(filled, s) # {}}

(* A name with definitions in two namespaces is qualified in the ledger.    *)
Qualify(p) == Cardinality({d.ns : d \in p.defs} \ {None}) > 1
Qual(p, d) == IF Qualify(p) /\ d.ns # None THEN <<d.ns, p.name>> ELSE <<p.name>>

(* The sites that could be building this definition.                        *)
SitesOf(p, filled, d) ==
  {s \in HandBuilt(p, filled) : /\ Assigned(filled, s) \subseteq d.fields
                                /\ Qualify(p) => s.ns \in {None, d.ns}}
Evaluated(p, filled) == {d \in p.defs : Cardinality(SitesOf(p, filled, d)) >= 2}

(* <<definition, site, field>>: set at another site, not at this one.       *)
Omissions(p, filled) ==
  {o \in p.defs \X p.sites \X UNION {d.fields : d \in p.defs} :
     LET here == SitesOf(p, filled, o[1])
     IN /\ o[1] \in Evaluated(p, filled) /\ o[2] \in here
        /\ o[3] \in o[1].fields \ Assigned(filled, o[2])
        /\ \E s \in here : o[3] \in Assigned(filled, s)}

KeyOf(p, o) == <<Qual(p, o[1]), o[2].var, o[3]>>
StarOf(p, o) == <<Qual(p, o[1]), o[2].var, "*">>
BareOf(p, o) == <<<<p.name>>, o[2].var, o[3]>>

Unlisted(p, filled, allow) ==
  {o \in Omissions(p, filled) : KeyOf(p, o) \notin allow /\ StarOf(p, o) \notin allow}

(* The bare name in the ledger where it does not say which type.            *)
Ambiguous(p, filled, allow) ==
  {o \in Omissions(p, filled) : Qualify(p) /\ BareOf(p, o) \in allow}

Used(p, filled, allow) ==
  {BareOf(p, o) : o \in Ambiguous(p, filled, allow)}
  \cup {k \in allow : \E o \in Omissions(p, filled) :
          k = KeyOf(p, o) \/ (k = StarOf(p, o) /\ KeyOf(p, o) \notin allow)}

(* A line of a struct this scan did not evaluate is out of scope.           *)
Stale(p, filled, allow) ==
  {k \in allow \ Used(p, filled, allow) : \E d \in Evaluated(p, filled) : k[1] = Qual(p, d)}

Exit(p, filled, allow) ==
  IF Unlisted(p, filled, allow) = {} /\ Ambiguous(p, filled, allow) = {}
     /\ Stale(p, filled, allow) = {}
  THEN 0 ELSE 1
=============================================================================
