------------------------------ MODULE Manifest ------------------------------
(***************************************************************************)
(* tools/of_manifest.py: the manifest of one solver, generated from the    *)
(* curated table and from ofscan's index of the OpenFOAM tree, and --check *)
(* against the recorded one.  A table is a sequence of rows [name, cites,  *)
(* value], value giving the fields that are set their text; a text is a    *)
(* sequence of characters, some of them standing for a whole word.  What   *)
(* is looked up in the index is one version number for each kind of        *)
(* question asked of it.                                                   *)
(***************************************************************************)
EXTENDS Naturals, Sequences

REQUIRED == {"of_symbol", "of_file", "classification", "status"}
-----------------------------------------------------------------------------
(* y: YAML scalars.                                                         *)

Quote == "quote"
Backslash == "backslash"
Indicators == {":", "#", "[", "]", "{", "}", ",", "&", "*", "?", "|", "<", ">",
               "=", "!", "%", "@", "backtick", Quote, "apostrophe"}
Reserved == {<<"yes">>, <<"no">>, <<"true">>, <<"false">>, <<"null">>, <<"~">>}

NeedsQuotes(s) ==
  \/ \E i \in DOMAIN s : s[i] \in Indicators
  \/ " " \in {s[1], s[Len(s)]}
  \/ s[1] \in {"-", "?"}
  \/ s \in Reserved

Escape(c) == IF c \in {Backslash, Quote} THEN <<Backslash, c>> ELSE <<c>>
Escaped(s) ==
  LET upTo[i \in 0..Len(s)] == IF i = 0 THEN <<>> ELSE upTo[i - 1] \o Escape(s[i])
  IN upTo[Len(s)]
y(s) == IF s = <<>> \/ NeedsQuotes(s) THEN <<Quote>> \o Escaped(s) \o <<Quote>> ELSE s
-----------------------------------------------------------------------------
(* emit: a block per component with the required fields, the curated ones   *)
(* that are set and what the index answers for the derived ones.            *)

CURATED == {"of_line", "brae_driver", "brae_existing", "brae_reference", "brae_cuda",
            "brae_target", "validation", "note"}
DERIVED == {"selection_base", "schema_for"}
RAW == {"classification", "status", "of_line"}   \* printed as they are

(* Seeded defect: the field is not in the list of those written out.        *)
NoDriver(c) ==
  REQUIRED \cup {f \in (CURATED \cup DERIVED) \ {"brae_driver"} :
                   f \in DOMAIN c.value /\ c.value[f] # <<>>}

Lines(c) ==
  REQUIRED \cup {f \in CURATED \cup DERIVED : f \in DOMAIN c.value /\ c.value[f] # <<>>}

Block(c, index) ==
  [name |-> c.name,
   scalars |-> [f \in Lines(c) |-> IF f \in RAW THEN c.value[f] ELSE y(c.value[f])],
   derived |-> [f \in Lines(c) \cap DERIVED |-> index[f]]]

(* The cases that are directories, each with what its selections resolve to. *)
emit(table, index, cases) ==
  [components |-> [i \in DOMAIN table |-> Block(table[i], index)],
   validation_cases |-> [k \in cases |-> index.resolve]]

(* verify_provenance: the cited files that are not in the OpenFOAM tree.    *)
verify_provenance(table, tree) ==
  {i \in DOMAIN table :
     table[i].cites /\ table[i].value.of_file # <<>> /\ table[i].name \notin tree}

(* main --check: a path that does not exist ends the run before the index   *)
(* is opened, a missing ofscan before the recorded text is read.  A         *)
(* manifest that was never recorded is an empty text.                       *)
SKIP_EXIT == 77
Check(table, index, cases, tree, ofscan, recorded) ==
  IF verify_provenance(table, tree) # {} THEN 2
  ELSE IF ~ofscan THEN SKIP_EXIT
  ELSE IF recorded # <<emit(table, index, cases)>> THEN 1 ELSE 0
=============================================================================
