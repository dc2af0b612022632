----------------------------- MODULE AuditRules -----------------------------
(***************************************************************************)
(* The audits of the sources as steps: in is what an audit is given, out   *)
(* how far it has come.  What each must say is stated on what the program  *)
(* does when it is compiled and run; an audit sees its text.               *)
(***************************************************************************)
EXTENDS RuleState, DefaultAudit, SourceAudits, ResizeAudit

CONSTANTS
  Structs,      \* the structs default_audit.py is run on, [name, defs, fns, sites, allow]
  HeadWords,    \* what a declaration in a header starts with: types, names, linkage
  InnerWords,   \* what stands in its parameters, initialisers and bodies
  MaxTokens,    \* bound on the length of a header
  Guards,       \* the guards of caches, [cached, compares, refuses]
  Units         \* what resize_audit.py is run on, [table, fns, allow]
-----------------------------------------------------------------------------
(* default_audit.py.                                                        *)

(* What a function or a site sets, through every function it reaches.       *)
Closed(fns, C) == \A f \in C : fns[f].calls \subseteq C
Reached(fns, calls) ==
  {g \in DOMAIN fns : \A C \in SUBSET DOMAIN fns : calls \subseteq C /\ Closed(fns, C) => g \in C}
Sets(fns, s) == s.sets \cup UNION {fns[g].sets : g \in Reached(fns, s.calls)}

(* A program that compiles: a site builds one of the definitions, and sets  *)
(* members of that one.                                                     *)
ASSUME StructsAssumption ==
  \A p \in Structs :
    /\ IsFiniteSet(p.sites)
    /\ \A f \in DOMAIN p.fns : p.fns[f].calls \subseteq DOMAIN p.fns
    /\ \A d, e \in p.defs : d.type = e.type => d = e
    /\ \A d \in p.defs : "*" \notin d.fields
    /\ \A s \in p.sites : /\ s.calls \subseteq DOMAIN p.fns
                          /\ \E d \in p.defs : s.type = d.type /\ Sets(p.fns, s) \subseteq d.fields

(* The sites of a definition, and what one of them leaves that another sets.*)
BuiltAs(p, d) == {s \in p.sites : Sets(p.fns, s) # {} /\ s.type = d.type}
LeftAt(p, d, s) == (UNION {Sets(p.fns, t) : t \in BuiltAs(p, d)}) \ Sets(p.fns, s)
LeftOut(p) ==
  {o \in p.defs \X p.sites \X UNION {d.fields : d \in p.defs} :
     o[2] \in BuiltAs(p, o[1]) /\ o[3] \in LeftAt(p, o[1], o[2])}

(* What the audit can go by: every site that is qualified is qualified with *)
(* the namespace that was read for its definition; a site fits no           *)
(* definition but its own; no definition is without a namespace where names *)
(* are qualified.                                                           *)
CouldBuild(p, s, d) == Sets(p.fns, s) \subseteq d.fields /\ (Qualify(p) => s.ns \in {None, d.ns})
NamespacesRead(p) ==
  \A s \in p.sites : \A d \in p.defs : Qualify(p) /\ s.type = d.type => s.ns \in {None, d.ns}
ToldApart(p) ==
  \A d \in p.defs : \A s \in p.sites : Sets(p.fns, s) # {} /\ CouldBuild(p, s, d) => s.type = d.type
Nameable(p) == Qualify(p) => \A d \in p.defs : d.ns # None

(* A ledger as it should be: every omission has a line, of a field or of a  *)
(* whole variable, and none an ambiguous one; every line that is about a    *)
(* struct with two sites to compare stands for an omission.                 *)
IsCompared(p, name) ==
  \E d \in p.defs : name = Qual(p, d) /\ \E s, t \in BuiltAs(p, d) : s # t
Needed(p, allow, k) ==
  \E o \in LeftOut(p) : k = KeyOf(p, o) \/ (k = StarOf(p, o) /\ KeyOf(p, o) \notin allow)
Clean(p, allow) ==
  /\ \A o \in LeftOut(p) : /\ KeyOf(p, o) \in allow \/ StarOf(p, o) \in allow
                           /\ Qualify(p) => BareOf(p, o) \notin allow
  /\ \A k \in allow : IsCompared(p, k[1]) => Needed(p, allow, k)

(* The ledger once the advice of the report is followed: stale and          *)
(* ambiguous lines removed, what is unlisted listed.                        *)
Followed(p, filled) ==
  (p.allow \ (Stale(p, filled, p.allow)
              \cup {BareOf(p, o) : o \in Ambiguous(p, filled, p.allow)}))
    \cup {KeyOf(p, o) : o \in Unlisted(p, filled, p.allow)}

ReadStruct ==
  /\ in = Idle
  /\ \E p \in Structs : /\ in' = [tool |-> "defaults", struct |-> p]
                        /\ out' = [filled |-> OwnAssignments(p.fns), omissions |-> {},
                                   exit |-> 0, done |-> FALSE]
(* One round of the loop of filler_functions, in any order of the readers.  *)
CreditReader ==
  /\ in.tool = "defaults" /\ ~out.done
  /\ \E f, g \in DOMAIN in.struct.fns :
       /\ Adds(in.struct.fns, out.filled, f, g)
       /\ out' = [out EXCEPT !.filled = Credited(@, f, g)]
  /\ UNCHANGED in
ReportOmissions ==
  /\ in.tool = "defaults" /\ ~out.done
  /\ \A f, g \in DOMAIN in.struct.fns : ~Adds(in.struct.fns, out.filled, f, g)
  /\ out' = [out EXCEPT !.done = TRUE, !.omissions = Omissions(in.struct, out.filled),
                        !.exit = Exit(in.struct, out.filled, in.struct.allow)]
  /\ UNCHANGED in

(* default_audit.py, of a program that compiles and in any order its        *)
(* functions are taken in: every field is reported that one site of a       *)
(* struct sets - itself or through readers that hand the struct on, in a    *)
(* cycle too - and another leaves, if the namespaces were read right; and   *)
(* nothing else is, where a site fits its own definition only: then the run *)
(* passes exactly when the ledger is as it should be.  Doing once what the  *)
(* report says leads to such a ledger and to a run that passes, if every    *)
(* definition has a name in it.                                             *)
OmissionsAreTrue ==
  in.tool = "defaults" /\ out.done =>
    LET p == in.struct
        after == Followed(p, out.filled)
    IN /\ NamespacesRead(p) => LeftOut(p) \subseteq out.omissions
       /\ NamespacesRead(p) /\ ToldApart(p) => /\ out.omissions \subseteq LeftOut(p)
                                               /\ (out.exit = 0) = Clean(p, p.allow)
       /\ Nameable(p) => /\ Exit(p, out.filled, after) = 0
                         /\ NamespacesRead(p) /\ ToldApart(p) => Clean(p, after)
-----------------------------------------------------------------------------
(* header_odr_audit.py reads a header while it is written, token by token:  *)
(* namespaces, declarations and definitions with anything in parentheses    *)
(* and anything in their bodies.  at is the part that is being written,     *)
(* decl the words of a declaration up to its name, unnamed the depths of    *)
(* the open namespaces without a name; unmarked are the functions that were *)
(* defined so far at namespace scope with no word that keeps a definition   *)
(* out of other objects, external the names of those with external linkage. *)

Marks == {"lpar", "rpar", "lbrace", "rbrace", "semi", "directive"}
ASSUME WordsAssumption ==
  /\ HeadWords \cap (Marks \cup {"assign"}) = {} /\ HeadWords \cap Keywords \subseteq Quiet
  /\ InnerWords \cap (Marks \cup {"namespace", "template"}) = {}

OpenHeader ==
  /\ in = Idle
  /\ in' = [tool |-> "header", at |-> "between", scopes |-> <<>>, par |-> 0, decl |-> <<>>,
            unnamed |-> {}, unmarked |-> <<>>, external |-> {}, left |-> MaxTokens]
  /\ out' = Start

Writing(part) == in.tool = "header" /\ in.at = part /\ in.left > 0
Write(tok, next) == in' = [next EXCEPT !.left = @ - 1] /\ out' = Scan(out, tok)
Scope(kind, part) == [in EXCEPT !.scopes = Append(@, kind), !.at = part, !.decl = <<>>]
Ended == [in EXCEPT !.at = "between", !.decl = <<>>]

(* Inside parentheses, and inside them only, a brace is a word like others. *)
WriteInner ==
  \/ \E w \in InnerWords : Write(w, in)
  \/ Write("lpar", [in EXCEPT !.par = @ + 1])
  \/ in.par > 0 /\ \E w \in {"lbrace", "rbrace", "semi"} : Write(w, in)

WriteBetween ==
  /\ Writing("between")
  /\ \/ Write("namespace", [in EXCEPT !.at = "namespace"])
     \/ Write("struct", [in EXCEPT !.at = "struct"])
     \/ \E w \in HeadWords : Write(w, [in EXCEPT !.at = "head", !.decl = <<w>>])
     \/ \E w \in {"semi", "directive"} : Write(w, in)
     \/ in.scopes # <<>> /\ Write("rbrace", [in EXCEPT !.scopes = Popped(@),
                                                              !.unnamed = @ \ {Len(in.scopes)}])
WriteNamespace ==
  /\ Writing("namespace")
  /\ \/ \E w \in HeadWords \ Quiet : Write(w, [in EXCEPT !.decl = Append(@, w)])
     \/ Write("lbrace", [Scope("ns", "between") EXCEPT
                      !.unnamed = IF in.decl = <<>> THEN @ \cup {Len(in.scopes) + 1} ELSE @])
WriteStruct ==
  /\ Writing("struct")
  /\ \/ \E w \in HeadWords \ Quiet : Write(w, in)
     \/ Write("lbrace", Scope("blk", "body"))
     \/ Write("semi", Ended)
WriteHead ==
  /\ Writing("head")
  /\ \/ \E w \in HeadWords : Write(w, [in EXCEPT !.decl = Append(@, w)])
     \/ /\ Len(in.decl) > 1 /\ in.decl[Len(in.decl)] \notin Quiet
        /\ \/ Write("lpar", [in EXCEPT !.at = "params", !.par = 1])
           \/ Write("assign", [in EXCEPT !.at = "initialiser"])
           \/ Write("semi", Ended)
WriteParams ==
  /\ Writing("params")
  /\ WriteInner \/ Write("rpar", [in EXCEPT !.par = @ - 1, !.at = IF in.par = 1 THEN "signature" ELSE @])
WriteInitialiser ==
  /\ Writing("initialiser")
  /\ \/ WriteInner
     \/ in.par > 0 /\ Write("rpar", [in EXCEPT !.par = @ - 1])
     \/ in.par = 0 /\ (Write("lbrace", Scope("blk", "body")) \/ Write("semi", Ended))
Unmarked(decl) == \A i \in 1..(Len(decl) - 1) : decl[i] \notin Quiet
WriteSignature ==
  /\ Writing("signature")
  /\ \/ Write("semi", Ended)
     \/ Write("lbrace", [Scope("blk", "body") EXCEPT
             !.unmarked = IF Unmarked(in.decl) THEN Append(@, in.decl[Len(in.decl)]) ELSE @,
             !.external = IF Unmarked(in.decl) /\ in.unnamed = {}
                          THEN @ \cup {in.decl[Len(in.decl)]} ELSE @])
WriteBody ==
  /\ Writing("body")
  /\ \/ WriteInner
     \/ Write("directive", in)
     \/ in.par > 0 /\ Write("rpar", [in EXCEPT !.par = @ - 1])
     \/ in.par = 0 /\ \/ Write("lbrace", Scope("blk", "body"))
                      \/ Write("semi", in)
                      \/ LET rest == Popped(in.scopes)
                         IN Write("rbrace", [in EXCEPT !.scopes = rest,
                                          !.at = IF Has(rest, "blk") THEN "body" ELSE "between"])
WriteHeader == WriteBetween \/ WriteNamespace \/ WriteStruct \/ WriteHead \/ WriteParams
               \/ WriteInitialiser \/ WriteSignature \/ WriteBody
-----------------------------------------------------------------------------
(* cache_key_audit.py: in a rebuild the pool may return every block at its  *)
(* old address and the sizes may be the same, while an identity is new.     *)
AuditGuard ==
  /\ in = Idle
  /\ \E g \in Guards : in' = [tool |-> "guard", guard |-> g] /\ out' = PointerOnly(g)

Rebuilds(g) ==
  {moved \in SUBSET g.compares : \A c \in g.compares : c[2] \in Survivors => c \in moved}
Replays(g, moved) == ~g.refuses /\ g.compares \cap moved = {}

(* header_odr_audit.py has found, at every point of a header, exactly the   *)
(* functions defined so far at namespace scope without inline, static,      *)
(* constexpr or template, whatever braces stand in default arguments,       *)
(* initialisers, bodies and classes, so none is missed that has external    *)
(* linkage (but some are found that have not: those of unnamed namespaces); *)
(* and cache_key_audit.py reports exactly the guards on another object's    *)
(* pointer that some rebuild passes unnoticed.                              *)
SourceAuditsAreExact ==
  /\ in.tool = "header" => /\ out.found = in.unmarked
                           /\ in.external \subseteq {out.found[i] : i \in DOMAIN out.found}
  /\ in.tool = "guard" =>
       out = (/\ \E c \in in.guard.compares : c[2] \in Pointers /\ c[1] # in.guard.cached
              /\ \E moved \in Rebuilds(in.guard) : Replays(in.guard, moved))
-----------------------------------------------------------------------------
(* resize_audit.py.  The functions of a unit are run one after another, a   *)
(* statement at a time, each on buffers of its own.  A buffer that was      *)
(* resized is stale: it holds what the pool left in its block               *)
(* (DeviceBuffer::resize) until it is set; the rest is what its owner made  *)
(* of it.  A helper works on the buffers it is handed; what it does with    *)
(* its own is seen when it is run itself.  left are the functions still to  *)
(* be run, at the statement that is next (0 between functions), inner the   *)
(* next one of the helper that is called (0 outside of it), and bad the     *)
(* launches and calls that added to a stale buffer, <<fn, at, buffer>>.     *)

ResizedBy(s) == IF s.op = "resize" THEN {s.args[1]} ELSE {}
AssignedBy(table, s) ==
  IF s.op = "launch"
  THEN {s.args[k] : k \in {k \in DOMAIN s.args : table[s.name].names[k] \in table[s.name].assign}}
  ELSE {}
SetBy(table, s) == IF s.op \in {"zero", "copyFrom"} THEN {s.args[1]} ELSE AssignedBy(table, s)
AddedBy(table, s) ==
  IF s.op = "launch"
  THEN {s.args[k] : k \in {k \in DOMAIN s.args : table[s.name].names[k] \in table[s.name].acc}}
  ELSE {}

(* A unit that compiles: launches and calls name a kernel or a function and *)
(* hand it all it takes; a function that is called calls none (the audit    *)
(* follows one call).  A name is found where it is written.                 *)
IsFunction(u, fn) ==
  /\ Len(fn.body) \in Nat /\ DOMAIN fn.body = 1..Len(fn.body)
  /\ \A i \in DOMAIN fn.body :
       LET s == fn.body[i]
       IN /\ \/ s.op \in {"resize", "zero", "copyFrom"} /\ DOMAIN s.args = {1}
             \/ /\ s.op = "launch" /\ s.name \in DOMAIN u.table
                /\ DOMAIN s.args = DOMAIN u.table[s.name].names
             \/ /\ s.op = "call"
                /\ \E h \in u.fns : /\ h.name = s.name /\ DOMAIN s.args = DOMAIN h.params
                                    /\ \A j \in DOMAIN h.body : h.body[j].op # "call"
          /\ s.op # "call" => \A k \in DOMAIN s.args : <<s.args[k], s.args[k]>> \in u.found[s.op]
ASSUME UnitsAssumption ==
  \A u \in Units : /\ \A fn \in u.fns : IsFunction(u, fn)
                   /\ \A f, g \in u.fns : f.name = g.name => f = g

Statement == out.fn.body[out.at]
HelperOf(u, s) == CHOOSE h \in u.fns : h.name = s.name
Callee == HelperOf(in.unit, Statement)
Handed(X) == {Statement.args[k] : k \in {k \in DOMAIN Callee.params : Callee.params[k] \in X}}
Effect(resized, set, added) ==
  [out EXCEPT !.stale = (@ \cup resized) \ set,
              !.bad = @ \cup {<<out.fn, out.at, b>> : b \in added \cap out.stale}]

LoadUnit ==
  /\ in = Idle
  /\ \E u \in Units : /\ in' = [tool |-> "resize", unit |-> u]
                      /\ out' = [left |-> u.fns, fn |-> None, at |-> 0, inner |-> 0,
                                 stale |-> {}, bad |-> {}]
Running == in.tool = "resize" /\ out.at > 0
BeginFunction ==
  /\ in.tool = "resize" /\ out.at = 0
  /\ \E f \in out.left :
       out' = [out EXCEPT !.fn = f, !.left = @ \ {f}, !.at = 1, !.stale = {}]
  /\ UNCHANGED in
EndFunction ==
  /\ Running /\ out.at > Len(out.fn.body)
  /\ out' = [out EXCEPT !.at = 0] /\ UNCHANGED in
RunStatement ==
  /\ Running /\ out.at <= Len(out.fn.body) /\ out.inner = 0 /\ Statement.op # "call"
  /\ LET s == Statement
         table == in.unit.table
     IN out' = [Effect(ResizedBy(s), SetBy(table, s), AddedBy(table, s)) EXCEPT !.at = @ + 1]
  /\ UNCHANGED in
EnterHelper ==
  /\ Running /\ out.at <= Len(out.fn.body) /\ out.inner = 0 /\ Statement.op = "call"
  /\ out' = [out EXCEPT !.inner = 1] /\ UNCHANGED in
RunInner ==
  /\ Running /\ out.inner > 0 /\ out.inner <= Len(Callee.body)
  /\ LET s == Callee.body[out.inner]
         table == in.unit.table
     IN out' = [Effect(Handed(ResizedBy(s)), Handed(SetBy(table, s)), Handed(AddedBy(table, s)))
                  EXCEPT !.inner = @ + 1]
  /\ UNCHANGED in
LeaveHelper ==
  /\ Running /\ out.inner > 0 /\ out.inner > Len(Callee.body)
  /\ out' = [out EXCEPT !.inner = 0, !.at = @ + 1] /\ UNCHANGED in
RunUnit == BeginFunction \/ EndFunction \/ RunStatement \/ EnterHelper \/ RunInner \/ LeaveHelper

(* What reads as an initialisation of b.                                    *)
Initialises(u, s, b) ==
  /\ s.op \in {"zero", "copyFrom"} \/ (s.op = "launch" /\ u.table[s.name].assign # {})
  /\ Mentions(u, s, b)

(* What hides a buffer b of fn from the audit: something that reads as an   *)
(* initialisation and does not set b, or that comes before a resize; and a  *)
(* call that resizes b, out of sight.  Of a parameter of a helper, also a   *)
(* resize that is found for it and is another's: it is then reported in the *)
(* helper, and no caller is asked.                                          *)
Misread(u, fn, b) ==
  \E j \in DOMAIN fn.body : Initialises(u, fn.body[j], b) /\ b \notin SetBy(u.table, fn.body[j])
Undone(u, fn, b) ==
  \E i, j \in DOMAIN fn.body : j < i /\ Initialises(u, fn.body[j], b) /\ b \in ResizedBy(fn.body[i])
Misspelled(u, fn, b) ==
  \E j \in DOMAIN fn.body :
    fn.body[j].op = "resize" /\ Mentions(u, fn.body[j], b) /\ b \notin ResizedBy(fn.body[j])
Resizes(fn, b) == \E i \in DOMAIN fn.body : b \in ResizedBy(fn.body[i])
ResizedAway(u, fn, b) ==
  \E i \in DOMAIN fn.body :
    /\ fn.body[i].op = "call"
    /\ \E k \in DOMAIN fn.body[i].args :
         fn.body[i].args[k] = b /\ Resizes(HelperOf(u, fn.body[i]), HelperOf(u, fn.body[i]).params[k])
Hidden(u, fn, b) == Misread(u, fn, b) \/ Undone(u, fn, b) \/ ResizedAway(u, fn, b)
Overlooked(u, e) ==
  LET s == e[1].body[e[2]]
  IN \/ Hidden(u, e[1], e[3])
     \/ /\ s.op = "call"
        /\ LET h == HelperOf(u, s)
           IN \E k \in DOMAIN s.args :
                s.args[k] = e[3] /\ (Misread(u, h, h.params[k]) \/ Misspelled(u, h, h.params[k]))
KeyOfBad(e) == <<e[1].body[e[2]].name, e[3]>>

(* No resize is found for a name that merely ends in the same letters, and  *)
(* no helper initialises what it is handed.                                 *)
Called(u, fn) ==
  \E f \in u.fns : \E i \in DOMAIN f.body : f.body[i].op = "call" /\ f.body[i].name = fn.name
Leaves(u, fn) ==
  \A i \in DOMAIN fn.body : \A k \in DOMAIN fn.params : ~Initialises(u, fn.body[i], fn.params[k])
Spelled(u, fn) ==
  \A i \in DOMAIN fn.body :
    fn.body[i].op = "resize" => \A n \in u.found["resize"] : n[1] \in ResizedBy(fn.body[i]) => n[1] = n[2]
Trusted(u) == \A fn \in u.fns : Spelled(u, fn) /\ (Called(u, fn) => Leaves(u, fn))

(* resize_audit.py, of every unit: each launch or call that adds to what    *)
(* the pool left in a block is reported, in the function or through the     *)
(* helper, unless something that reads as an initialisation and is none, a  *)
(* resize of another buffer that reads as one of the helper's parameter, or *)
(* a resize in another function, hides it; and where resizes are spelled    *)
(* apart and helpers do not initialise, nothing else is reported.  The run  *)
(* then passes exactly when the ledger is what the functions do wrong,      *)
(* neither short nor stale, if nothing hides.                               *)
ResizeAuditIsExact ==
  in.tool = "resize" =>
    LET u == in.unit
        wrong == {KeyOfBad(e) : e \in out.bad}
    IN /\ \A e \in out.bad : KeyOfBad(e) \in ReportedKeys(u) \/ Overlooked(u, e)
       /\ Trusted(u) /\ out.left = {} /\ out.at = 0 =>
            /\ ReportedKeys(u) \subseteq wrong
            /\ (\A e \in out.bad : ~Overlooked(u, e)) => (ExitCode(u) = 0) = (wrong = u.allow)
=============================================================================
