--------------------------- MODULE ManifestCases ---------------------------
(***************************************************************************)
(* A manifest of one of the tables is recorded, something changes, and     *)
(* --check is run: one field of one component gets another value, one kind *)
(* of answer of the index changes, or nothing does; the OpenFOAM tree may  *)
(* have lost a file and ofscan may be absent.                              *)
(***************************************************************************)
EXTENDS Manifest, ManifestTables, SequencesExt

Old == <<"a">>
NewWords == {<<>>, <<"-">>, <<"null">>}
Index == [selection_base |-> 1, schema_for |-> 1, resolve |-> 1]
Solvers == DOMAIN COMPONENTS

Filled(c) ==
  [name |-> c.name, cites |-> c.cites, value |-> [f \in REQUIRED \cup c.fields |-> Old]]
Tables == [s \in Solvers |-> [i \in DOMAIN COMPONENTS[s] |-> Filled(COMPONENTS[s][i])]]
Names(table) == {table[i].name : i \in DOMAIN table}

(* What is recorded and what it is generated from.                          *)
Inputs(table, index, cases) == [table |-> table, index |-> index, cases |-> cases]
Run(old, new, tree, ofscan) == [old |-> old, new |-> new, tree |-> tree, ofscan |-> ofscan]

(* A field is edited in a table of the one row.                             *)
FieldEdits(c) == {[c EXCEPT !.value[f] = w] : f \in DOMAIN c.value, w \in NewWords}
FieldRuns(c) ==
  {Run(<<Inputs(<<c>>, Index, {"pitzDaily"})>>, Inputs(<<d>>, Index, {"pitzDaily"}), {c.name}, TRUE) :
     d \in FieldEdits(c)}

Indexes == {Index} \cup {[Index EXCEPT ![k] = 2] : k \in DOMAIN Index}
OtherRuns(s) ==
  {Run(old, Inputs(Tables[s], i, c), tree, b) :
     old \in {<<>>, <<Inputs(Tables[s], Index, {"pitzDaily"})>>, <<Inputs(Tables[s], Index, {})>>},
     i \in Indexes, c \in {{}, {"pitzDaily"}},
     tree \in {Names(Tables[s]), Names(Tables[s]) \ {Tables[s][1].name}}, b \in BOOLEAN}

Runs ==
  UNION {UNION {FieldRuns(Tables[s][i]) : i \in DOMAIN Tables[s]} \cup OtherRuns(s) : s \in Solvers}
Letters == {"a", "-", ":", " ", "#", ",", Quote, Backslash, "null"}
ScalarCases == SeqOf(Letters, 3)
=============================================================================
