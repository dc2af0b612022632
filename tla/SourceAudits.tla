---------------------------- MODULE SourceAudits ----------------------------
(***************************************************************************)
(* Two small tools that read the sources: header_odr_audit.py (functions a *)
(* header defines with external linkage) and cache_key_audit.py (caches    *)
(* whose guard compares a device pointer only).                            *)
(***************************************************************************)
EXTENDS Naturals, Sequences

Has(s, x) == \E i \in DOMAIN s : s[i] = x

(* scan of header_odr_audit.py, one token at a time: the stack of open      *)
(* bodies, the open parentheses, the text since the last ; { } and the      *)
(* names found.  A preprocessor line is the token "directive"; comments are *)
(* none.                                                                    *)
Start == [stack |-> <<>>, par |-> 0, pending |-> <<>>, found |-> <<>>]

Quiet == {"inline", "static", "constexpr", "template"}
Keywords == {"if", "for", "while", "switch", "return", "else", "catch", "namespace",
             "class", "struct", "enum", "union", "using", "typedef", "template",
             "static_assert", "extern", "friend", "do", "try", "public", "private",
             "protected", "operator"}

(* A return type, a name and an opening parenthesis, no keyword first, no   *)
(* linkage word before the name and no initialiser.                         *)
OpenAt(sig) ==
  IF Has(sig, "lpar")
  THEN CHOOSE i \in DOMAIN sig : sig[i] = "lpar" /\ \A j \in 1..(i - 1) : sig[j] # "lpar"
  ELSE 0
IsExternalDefinition(sig) ==
  LET i == OpenAt(sig)
  IN /\ i >= 3
     /\ sig[1] \notin Keywords
     /\ \A j \in 1..(i - 2) : sig[j] \notin Quiet
     /\ ~Has(sig, "template")
     /\ \A j \in 1..(i - 1) : sig[j] # "assign"
DefinedName(sig) == sig[OpenAt(sig) - 1]

(* Seeded defect: a brace in a parameter list opens a body.                 *)
NoParentheses(st, tok) == 0

Parentheses(st, tok) ==
  CASE tok = "lpar" -> st.par + 1
    [] tok = "rpar" -> IF st.par > 0 THEN st.par - 1 ELSE 0
    [] OTHER -> st.par

Popped(s) == IF s = <<>> THEN s ELSE SubSeq(s, 1, Len(s) - 1)
Acts(st, tok) == tok \in {"lbrace", "rbrace", "semi"} /\ ~(st.par > 0)
Kind(st) == IF Has(st.pending, "namespace") THEN "ns" ELSE "blk"
Opens(st, tok) ==
  /\ Acts(st, tok) /\ tok = "lbrace" /\ Kind(st) = "blk"
  /\ ~Has(st.stack, "blk") /\ IsExternalDefinition(st.pending)

Scan(st, tok) ==
  [stack |-> IF Acts(st, tok) /\ tok = "lbrace" THEN Append(st.stack, Kind(st))
             ELSE IF Acts(st, tok) /\ tok = "rbrace" THEN Popped(st.stack) ELSE st.stack,
   par |-> Parentheses(st, tok),
   pending |-> IF Acts(st, tok) \/ tok = "directive" THEN <<>> ELSE Append(st.pending, tok),
   found |-> IF Opens(st, tok) THEN Append(st.found, DefinedName(st.pending)) ELSE st.found]

-----------------------------------------------------------------------------
(* cache_key_audit.py.  A guard is [cached, compares, refuses]: the object  *)
(* whose member is compared, what the whole statement compares - pairs      *)
(* <<object, member>> - and whether its body throws.                        *)

Survivors == {"addressingId", "buildCount", "epoch", "generation"}
Pointers == {"diag", "owner", "nei", "upper", "lower", "psi", "data"}

IsCacheGuard(g) ==
  /\ \E c \in g.compares : c[2] \in Pointers /\ c[1] # g.cached
  /\ ~g.refuses
PointerOnly(g) == IsCacheGuard(g) /\ \A c \in g.compares : c[2] \notin Survivors
=============================================================================
