------------------------------- MODULE Rules -------------------------------
(***************************************************************************)
(* The plain rules of the program as their callers meet them: the retry    *)
(* counter of the agent, counted up by failures and reset by a settled     *)
(* report; the sizes asked of the device pool one after another; the       *)
(* comparison of a copy with its donor; the coarsening of a mesh; the      *)
(* check of the manifest; the source audits of module AuditRules; and the  *)
(* solvers traced by module AmgTrace.  in is the argument, out what is     *)
(* computed for it; the delay is computed from the delay before it, as     *)
(* module NodeAgent does.                                                  *)
(***************************************************************************)
EXTENDS Backoff, SizeClass, SliceProvenance, Manifest, AuditRules, AmgTrace

CONSTANTS
  MaxAttempts,   \* bound on the retry counter
  MaxBytes,      \* the largest request tried
  Characters,    \* what texts are written in
  MaxCopy,       \* the length of the longest copy
  MaxDonor,      \* and of the longest donor
  Meshes,        \* the meshes coarsened
  Glyphs,        \* what the manifest is written in, quote and backslash included
  Scalars,       \* the texts quoted for YAML
  ManifestRuns   \* what --check is run on: [old, new, tree, ofscan]

ASSUME MeshesAssumption == \A m \in Meshes : Mesh(m.faces, m.n)

(* A row has a text in every required field.  A manifest that was recorded  *)
(* was generated from a table, the answers of the index and some cases.     *)
IsRow(c) ==
  /\ c = [name |-> c.name, cites |-> c.cites, value |-> c.value]
  /\ REQUIRED \subseteq DOMAIN c.value /\ \A f \in DOMAIN c.value : c.value[f] \in Seq(Glyphs)
ASSUME ManifestAssumption ==
  /\ {Quote, Backslash} \subseteq Glyphs /\ \A s \in Scalars : s \in Seq(Glyphs)
  /\ \A r \in ManifestRuns :
       /\ \A i \in DOMAIN r.new.table : IsRow(r.new.table[i])
       /\ \A k \in DOMAIN r.old : \A i \in DOMAIN r.old[k].table : IsRow(r.old[k].table[i])
       /\ r.old = <<>> \/ r.old = <<r.old[1]>>

vars == <<in, out>>
Init == in = Idle /\ out = kResultBackoffBaseSeconds

(* What reportPendingIfAny does with its counter; module NodeAgent has the *)
(* whole of it.  out is the delay that the next failure waits.             *)
FailedReport ==
  /\ in.tool = "backoff" /\ in.attempts < MaxAttempts
  /\ in' = [in EXCEPT !.attempts = @ + 1]
  /\ out' = NextDelay(out)
SettledReport ==
  /\ in.tool = "backoff" /\ in.attempts > 0
  /\ in' = Idle /\ out' = kResultBackoffBaseSeconds

FirstSize ==
  /\ in = Idle
  /\ in' = [tool |-> "size", bytes |-> 1] /\ out' = classOf(1)
NextSize ==
  /\ in.tool = "size" /\ in.bytes < MaxBytes
  /\ in' = [in EXCEPT !.bytes = @ + 1]
  /\ out' = classOf(in.bytes + 1)

Texts(n) == UNION {[1..m -> Characters] : m \in 0..n}
CheckCopy ==
  /\ in = Idle
  /\ \E c \in Texts(MaxCopy), d \in Texts(MaxDonor) :
       in' = [tool |-> "copy", copy |-> c, donor |-> d] /\ out' = Identical(c, d)

CoarsenMesh ==
  /\ in = Idle
  /\ \E m \in Meshes : /\ in' = [tool |-> "coarsen", mesh |-> m]
                       /\ out' = pairwise_aggregate(m.faces, m.n)

QuoteScalar ==
  /\ in = Idle
  /\ \E s \in Scalars : in' = [tool |-> "scalar", s |-> s] /\ out' = y(s)

Generated(g) == emit(g.table, g.index, g.cases)
CheckOf(r) ==
  Check(r.new.table, r.new.index, r.new.cases, r.tree, r.ofscan,
        [k \in DOMAIN r.old |-> Generated(r.old[k])])
CheckManifest ==
  /\ in = Idle
  /\ \E r \in ManifestRuns : in' = [tool |-> "manifest", run |-> r] /\ out' = CheckOf(r)

Apply == FailedReport \/ SettledReport \/ FirstSize \/ NextSize \/ CheckCopy
         \/ CoarsenMesh \/ QuoteScalar \/ CheckManifest
         \/ ReadStruct \/ CreditReader \/ ReportOmissions
         \/ OpenHeader \/ WriteHeader \/ AuditGuard \/ LoadUnit \/ RunUnit \/ TraceSolver
RulesSpec == Init /\ [][Apply]_vars

(* The delay the agent model carries is the one resultBackoffSeconds        *)
(* computes from pendingAttempts_, after any number of failures and resets, *)
(* and it never shrinks as the counter grows.                               *)
DelayFollowsCounter ==
  in.tool = "backoff" =>
    /\ out = resultBackoffSeconds(in.attempts)
    /\ \A n \in 0..in.attempts : resultBackoffSeconds(n) <= out

(* A block is never shorter than asked; above 1 KiB it is at most 12.5%     *)
(* longer, below it is the next power of two; rounding a class gives the    *)
(* class itself and never reverses the order of two requests - so a block   *)
(* given back under its class is found again by every request of the class. *)
ClassIsTight ==
  in.tool = "size" =>
    /\ out >= in.bytes
    /\ classOf(out) = out
    /\ out <= classOf(in.bytes + 1)
    /\ in.bytes > 1024 => 8 * (out - in.bytes) < in.bytes
    /\ in.bytes <= 1024 => out < 2 * in.bytes \/ out = 64

Ends(c, d) == Len(d) <= Len(c) /\ SubSeq(c, Len(c) - Len(d) + 1, Len(c)) = d
Early(c, d) == \E i \in 1..(Len(c) - Len(d)) : OccursAt(c, FirstLine(d), i)

(* slice_provenance.py never accepts a copy that does not end with the      *)
(* whole donor, wherever the donor's first line turns up; and it accepts    *)
(* every copy that does, if that line does not occur in the header above    *)
(* (as a part of a line either, or across the end of the header).           *)
CopiesAreExact ==
  in.tool = "copy" =>
    /\ out => Ends(in.copy, in.donor)
    /\ Ends(in.copy, in.donor) /\ ~Early(in.copy, in.donor) => out

(* The cells of an aggregate, and that faces inside it hold it together: no *)
(* part of it is cut off from the rest.                                     *)
Members(map, a) == {c \in DOMAIN map : map[c] = a}
Joins(face, S, T) == (face.o \in S /\ face.nb \in T) \/ (face.o \in T /\ face.nb \in S)
Connected(faces, cells) ==
  \A part \in SUBSET cells :
    part # {} /\ part # cells => \E f \in DOMAIN faces : Joins(faces[f], part, cells \ part)

(* pairwise_aggregate: every cell gets an aggregate, the aggregates are     *)
(* numbered without a gap and without one that stays empty, every one is    *)
(* connected, and no cell is left alone that has a neighbour to join.       *)
AggregatesAreSound ==
  in.tool = "coarsen" =>
    /\ DOMAIN out.map = 1..in.mesh.n
    /\ {out.map[c] : c \in DOMAIN out.map} = 1..out.nc
    /\ \A a \in 1..out.nc : Connected(in.mesh.faces, Members(out.map, a))
    /\ \A c \in DOMAIN out.map :
         Members(out.map, out.map[c]) = {c} => Incident(in.mesh.faces, c) = {}

(* A YAML reader, by the rules of YAML: a quoted scalar goes on to the      *)
(* first quote that is not escaped, which has to be its end; a plain one    *)
(* has no indicator first, no flow indicator anywhere (emit also writes     *)
(* [a, b]), no space at an end, and does not read as a mapping or a         *)
(* comment.  <<>> is what it does not read.  Texts are of one line, as all  *)
(* of the tables are; whether a plain scalar is then taken for a text, a    *)
(* number or a Boolean is not asked.                                        *)
FlowIndicators == {",", "[", "]", "{", "}"}
FirstIndicators == {"-", "?", ":", "#", "&", "*", "!", "|", ">", "%", "@", "backtick",
                    Quote, "apostrophe"}
Reading(st, c) ==
  CASE st.at = "text" /\ c = Quote -> [st EXCEPT !.at = "end"]
    [] st.at = "text" /\ c = Backslash -> [st EXCEPT !.at = "escape"]
    [] st.at = "text" /\ c \notin {Quote, Backslash} -> [st EXCEPT !.text = Append(@, c)]
    [] st.at = "escape" /\ c \in {Quote, Backslash} -> [text |-> Append(st.text, c), at |-> "text"]
    [] OTHER -> [st EXCEPT !.at = "wrong"]
ReadQuoted(s) ==
  LET upTo[i \in 0..(Len(s) - 1)] == IF i = 0 THEN [text |-> <<>>, at |-> "text"]
                                    ELSE Reading(upTo[i - 1], s[i + 1])
  IN upTo[Len(s) - 1]
IsPlain(s) ==
  /\ s # <<>>
  /\ s[1] \notin FirstIndicators \cup {" "} /\ s[Len(s)] # " "
  /\ \A i \in DOMAIN s : s[i] \notin FlowIndicators
  /\ \A i \in DOMAIN s : s[i] = ":" => i < Len(s) /\ s[i + 1] # " "
  /\ \A i \in 2..Len(s) : s[i] = "#" => s[i - 1] # " "
Loaded(s) ==
  IF s[1] = Quote THEN IF ReadQuoted(s).at = "end" THEN <<ReadQuoted(s).text>> ELSE <<>>
  ELSE IF IsPlain(s) THEN <<s>> ELSE <<>>

(* What a reader of the manifest learns: the components in order, the text  *)
(* of every field that is written - one that is not set has none - the      *)
(* answers of the index where they are asked for, and those for the cases.  *)
Shown(c, f) == IF f \in DOMAIN c.value THEN c.value[f] ELSE <<>>
SameRow(c, d, i, j) ==
  /\ c.name = d.name
  /\ \A f \in REQUIRED \cup CURATED \cup DERIVED : Shown(c, f) = Shown(d, f)
  /\ \A f \in DERIVED : Shown(c, f) # <<>> => i[f] = j[f]
SameContents(g, h) ==
  /\ DOMAIN g.table = DOMAIN h.table
  /\ \A k \in DOMAIN g.table : SameRow(g.table[k], h.table[k], g.index, h.index)
  /\ g.cases = h.cases /\ (g.cases # {} => g.index.resolve = h.index.resolve)
CitedFilesThere(r) ==
  \A k \in DOMAIN r.new.table :
    LET c == r.new.table[k] IN c.cites /\ Shown(c, "of_file") # <<>> => c.name \in r.tree

(* of_manifest.py --check: a cited file that is gone is reported first;     *)
(* without ofscan the question is skipped, never answered; otherwise the    *)
(* run passes exactly when a manifest was recorded and what it says is what *)
(* the tool would say now - a field that emit does not write is no part of  *)
(* that.  Every scalar is one that YAML reads, with the characters it had.  *)
DriftIsSeen ==
  /\ in.tool = "manifest" =>
       LET r == in.run
       IN /\ (out = 2) = ~CitedFilesThere(r)
          /\ (out = SKIP_EXIT) = (CitedFilesThere(r) /\ ~r.ofscan)
          /\ (out = 0) = (/\ CitedFilesThere(r) /\ r.ofscan
                         /\ r.old # <<>> /\ SameContents(r.old[1], r.new))
          /\ out \in {0, 1, 2, SKIP_EXIT}
  /\ in.tool = "scalar" => Loaded(out) = <<in.s>>
=============================================================================
