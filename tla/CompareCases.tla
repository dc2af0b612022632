---------------------------- MODULE CompareCases ----------------------------
(***************************************************************************)
(* Files for foam_time_compare.py and what comparing them must say.  A     *)
(* value is [form, ents]: a uniform tuple, a list of tuples, a plain       *)
(* number or a word; Write prints a file as the solvers do.  The promise   *)
(* is stated on the values, the tool only sees the tokens.                 *)
(***************************************************************************)
EXTENDS FoamCompare

Tuples == {<<"0">>, <<"2">>, <<"5">>, <<"nan">>, <<"0", "2">>, <<"2", "5">>, <<"nan", "5">>}
Value(form, ents) == [form |-> form, ents |-> ents]
Uniforms == {Value("uniform", <<t>>) : t \in Tuples}
Lists == {Value("list", <<>>)} \cup {Value("list", <<t>>) : t \in Tuples}
         \cup {Value("list", <<t, u>>) : t, u \in {<<"0">>, <<"5">>, <<"nan">>}}
         \cup {Value("list", <<<<"0", "2">>, t>>) : t \in {<<"2", "5">>, <<"nan", "5">>}}
Values == Uniforms \cup Lists \cup {Value("plain", <<t>>) : t \in {<<"0">>, <<"nan">>}}
          \cup {Value("word", <<<<w>>>>) : w \in {"fixedValue", "zeroGradient"}}

(* How a value is printed.                                                  *)
PrintTuple(t) == IF Len(t) = 1 THEN t ELSE <<"(">> \o t \o <<")">>
Count(n) == CHOOSE x \in DOMAIN Numbers : Numbers[x] = n
PrintList(ents) == <<Count(Len(ents)), "(">> \o FlattenSeq([i \in DOMAIN ents |-> PrintTuple(ents[i])])
                   \o <<")">>
Written(v) ==
  CASE v.form = "uniform" -> <<"uniform">> \o PrintTuple(v.ents[1])
    [] v.form = "list" -> <<"nonuniform", "List">> \o PrintList(v.ents)
    [] OTHER -> v.ents[1]

(* How a file is printed.                                                   *)
RECURSIVE Write(_)
Write(es) ==
  FlattenSeq([i \in DOMAIN es |->
    IF es[i].kind = "dict" THEN <<es[i].key, "{">> \o Write(es[i].sub) \o <<"}">>
    ELSE <<es[i].key>> \o es[i].val \o <<";">>])

(* A field file: its header, dimensions, internal values and one patch.     *)
Header(class) == DictEntry("FoamFile", <<ValEntry("class", <<class>>)>>)
Field(class, dims, internal, boundary) ==
  <<Header(class), ValEntry("dimensions", <<"[", dims, "]">>),
    ValEntry("internalField", Written(internal)), DictEntry("boundaryField", boundary)>>
Patch(v) == <<DictEntry("inlet", <<ValEntry("type", <<"fixedValue">>), ValEntry("value", Written(v))>>)>>
Zero == Value("uniform", <<<<"0">>>>)

(* The promise for two values: lists of as many entries, tuples of as many  *)
(* numbers, where a uniform value has as many entries as the other side;    *)
(* words are equal.  The worst is the largest difference of two numbers; it *)
(* is <<>> - no number - where a NaN is one of them.                        *)
Spread(v, w) == IF v.form = "uniform" /\ w.form = "list" THEN [i \in DOMAIN w.ents |-> v.ents[1]]
                ELSE v.ents
Alike(v, w) ==
  IF "word" \in {v.form, w.form} THEN v = w
  ELSE /\ Len(Spread(v, w)) = Len(Spread(w, v))
       /\ \A i \in DOMAIN Spread(v, w) : Len(Spread(v, w)[i]) = Len(Spread(w, v)[i])
Pairs(v, w) ==
  IF v.form = "word" THEN {}
  ELSE {<<Spread(v, w)[q[1]][q[2]], Spread(w, v)[q[1]][q[2]]>> :
          q \in {q \in (DOMAIN Spread(v, w)) \X (1..2) : q[2] \in DOMAIN Spread(v, w)[q[1]]}}
-----------------------------------------------------------------------------
(* The cases: two values in the field or in the patch, two files of         *)
(* different structure, two bare lists.  Each carries the promise.          *)

Outcome(ok, pairs) ==
  [ok |-> ok,
   worst |-> IF ~ok THEN <<0>>
             ELSE IF \E p \in pairs : "nan" \in {p[1], p[2]} THEN <<>>
             ELSE <<Max({AbsDiff(p[1], p[2]) : p \in pairs} \cup {0})>>]
Case(a, b, ok, pairs) == [tool |-> "compare", a |-> a, b |-> b, promise |-> Outcome(ok, pairs)]

ValueCases ==
  {Case(Write(Field("vol", "0", v, Patch(Zero))), Write(Field("vol", "0", w, Patch(Zero))),
        Alike(v, w), IF Alike(v, w) THEN Pairs(v, w) ELSE {}) : v, w \in Values}
  \cup {Case(Write(Field("vol", "0", u, Patch(v))), Write(Field("vol", "0", Zero, Patch(w))),
             Alike(v, w), IF Alike(v, w) THEN Pairs(v, w) \cup Pairs(u, Zero) ELSE {}) :
          u \in {Zero, Value("uniform", <<<<"5">>>>)}, v, w \in Values}

Layouts ==
  {Field(c, d, Zero, b) : c \in {"vol", "surface"}, d \in {"0", "1"},
     b \in {Patch(Zero), <<>>, <<ValEntry("inlet", <<"0">>)>>,
            Patch(Zero) \o <<DictEntry("outlet", <<>>)>>,
            <<DictEntry("outlet", <<>>)>> \o Patch(Zero)}}
LayoutCases == {Case(Write(e), Write(f), e = f, {}) : e, f \in Layouts}

BareFile(class, v) == Write(<<Header(class)>>) \o PrintList(v.ents)
BareCases ==
  {Case(BareFile("points", v), BareFile(c, w), c = "points" /\ Alike(v, w),
        IF Alike(v, w) THEN Pairs(v, w) ELSE {}) :
     c \in {"points", "vol"}, v, w \in Lists}
  \cup {Case(BareFile("points", v), Write(Field("vol", "0", v, <<>>)), FALSE, {}) : v \in Lists}

Cases == ValueCases \cup LayoutCases \cup BareCases

(* What the tool says, with the sides as they are and exchanged, and        *)
(* whether its parser reads back what was printed.                          *)
Verdict(a, b) ==
  LET fc == compare_file(a, b, FALSE) IN [ok |-> fc.ok, worst |-> IF fc.ok THEN <<Worst(fc)>> ELSE <<0>>]
Answer(x) ==
  [said |-> Verdict(x.a, x.b), exchanged |-> Verdict(x.b, x.a),
   readBack |-> \A f \in {x.a, x.b} : bare_list(f) # <<>> \/ Write(Parsed(f)) = f]
-----------------------------------------------------------------------------
(* Whole directories: the times and files written on either side.           *)

Files == {"U", "functionObjectProperties"}
Contents == {Write(<<Header(c)>>) : c \in {"vol", "surface"}}
TimeDirs == UNION {[F -> Contents] : F \in SUBSET Files}
RunCases ==
  {[tool |-> "compareRuns", ref |-> [t \in {"1"} |-> r], other |-> o] :
     r \in TimeDirs, o \in {[t \in {} |-> <<>>]} \cup {[t \in {"1"} |-> x] : x \in TimeDirs}
                        \cup {[t \in {"1", "2"} |-> x] : x \in TimeDirs}}
RunExit(x) == ExitCode(x.ref, x.other, {"functionObjectProperties"})

(* Exit 0 means every time of the reference was written with the same files *)
(* and contents; a further time is not looked at.                           *)
RunPromise(x) == (\A t \in DOMAIN x.ref : t \in DOMAIN x.other /\ x.other[t] = x.ref[t])
=============================================================================
