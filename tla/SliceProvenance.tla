-------------------------- MODULE SliceProvenance --------------------------
(***************************************************************************)
(* slice_provenance.py: a copy must stay identical to its donor below the  *)
(* header that says where it came from.  A text is a sequence of           *)
(* characters, EndOfLine among them.                                       *)
(***************************************************************************)
EXTENDS Naturals, Sequences, Functions

CONSTANTS EndOfLine

FirstLine(d) ==
  IF EndOfLine \in Range(d)
  THEN SubSeq(d, 1, (CHOOSE i \in DOMAIN d :
         d[i] = EndOfLine /\ \A j \in 1..(i - 1) : d[j] # EndOfLine) - 1)
  ELSE d
OccursAt(c, x, i) == i + Len(x) - 1 <= Len(c) /\ SubSeq(c, i, i + Len(x) - 1) = x

(* Seeded defect: the last occurrence is searched for.                      *)
LastOccurrence(c, x) ==
  LET at == {i \in 1..(Len(c) + 1) : OccursAt(c, x, i)}
  IN IF at = {} THEN 1 ELSE CHOOSE i \in at : \A j \in at : j <= i

(* str.find: the first occurrence, anywhere in the text; without one the    *)
(* whole text is compared.                                                  *)
FirstOccurrence(c, x) ==
  LET at == {i \in 1..(Len(c) + 1) : OccursAt(c, x, i)}
  IN IF at = {} THEN 1 ELSE CHOOSE i \in at : \A j \in at : i <= j

body_after_header(c, d) == SubSeq(c, FirstOccurrence(c, FirstLine(d)), Len(c))
Identical(c, d) == body_after_header(c, d) = d
=============================================================================
