---------------------------- MODULE FoamCompare ----------------------------
(***************************************************************************)
(* tools/foam_time_compare.py: two OpenFOAM time directories compared,     *)
(* structure exactly and values numerically.  A file is a sequence of      *)
(* tokens, all of them strings; Numbers gives the ones float() accepts     *)
(* their value.  A parsed file is a sequence of entries                    *)
(*   [key |-> k, kind |-> "dict", sub |-> entries] or                      *)
(*   [key |-> k, kind |-> "val", val |-> tokens].                          *)
(***************************************************************************)
EXTENDS Integers, Sequences, FiniteSets, FiniteSetsExt, SequencesExt

Numbers == [x \in {"0", "1", "2", "5"} |->
              CASE x = "0" -> 0 [] x = "1" -> 1 [] x = "2" -> 2 [] OTHER -> 5]
IsNumber(x) == x \in DOMAIN Numbers \cup {"nan"}
EXACT_KEYS == {"dimensions", "name", "index", "oriented"}
-----------------------------------------------------------------------------
(* parse_block.  The value of a key ends at the first ; outside brackets.   *)

DictEntry(k, e) == [key |-> k, kind |-> "dict", sub |-> e, val |-> <<>>]
ValEntry(k, v) == [key |-> k, kind |-> "val", sub |-> <<>>, val |-> v]

Depth(toks, i, j) ==
  Cardinality({n \in i..j : toks[n] \in {"(", "["}})
    - Cardinality({n \in i..j : toks[n] \in {")", "]"}})
EndOfValue(toks, i) ==
  CHOOSE j \in i..Len(toks) :
    /\ toks[j] = ";" /\ Depth(toks, i, j) = 0
    /\ \A n \in i..(j - 1) : toks[n] = ";" => Depth(toks, i, n) # 0

(* The entries from token i to the brace that closes the block, and the     *)
(* index past that brace.                                                   *)
RECURSIVE parse_block(_, _, _)
parse_block(toks, i, out) ==
  IF i > Len(toks) \/ toks[i] = "}" THEN [entries |-> out, next |-> i + 1]
  ELSE IF toks[i + 1] = "{"
  THEN LET sub == parse_block(toks, i + 2, <<>>)
       IN parse_block(toks, sub.next, Append(out, DictEntry(toks[i], sub.entries)))
  ELSE LET j == EndOfValue(toks, i + 1)
       IN parse_block(toks, j + 1, Append(out, ValEntry(toks[i], SubSeq(toks, i + 1, j - 1))))

Parsed(toks) == parse_block(Append(toks, "}"), 1, <<>>).entries

(* bare_list: `N ( ... )` after the header, or None = <<>>.                 *)
HeaderEnd(toks) ==
  LET open(n) == Cardinality({k \in 2..n : toks[k] = "{"})
      close(n) == Cardinality({k \in 2..n : toks[k] = "}"})
  IN {n \in 2..Len(toks) : toks[n] = "}" /\ open(n) = close(n)}
bare_list(toks) ==
  IF Len(toks) < 3 \/ toks[1] # "FoamFile" \/ toks[2] # "{" \/ HeaderEnd(toks) = {}
  THEN <<>>
  ELSE LET i == Min(HeaderEnd(toks))
           rest == SubSeq(toks, i + 1, Len(toks))
       IN IF Len(rest) >= 2 /\ rest[1] \in DOMAIN Numbers /\ rest[2] = "("
          THEN <<SubSeq(toks, 1, i), rest>> ELSE <<>>
-----------------------------------------------------------------------------
(* numbers and values.                                                      *)

NotNumeric == [form |-> "none", ents |-> <<>>]
Plain(form, toks) ==
  LET v == SelectSeq(toks, LAMBDA x : x \notin {"(", ")"})
  IN IF \A i \in DOMAIN v : IsNumber(v[i]) THEN [form |-> form, ents |-> <<v>>]
     ELSE NotNumeric

(* The entries of a list, one tuple each: a scalar is a tuple of one.       *)
RECURSIVE ListEntries(_, _, _, _)
ListEntries(inner, i, cur, ents) ==
  IF i > Len(inner) THEN ents
  ELSE IF inner[i] = "(" THEN ListEntries(inner, i + 1, <<"tuple">>, ents)
  ELSE IF inner[i] = ")" THEN ListEntries(inner, i + 1, <<>>, Append(ents, Tail(cur)))
  ELSE IF cur # <<>> THEN ListEntries(inner, i + 1, Append(cur, inner[i]), ents)
  ELSE ListEntries(inner, i + 1, <<>>, Append(ents, <<inner[i]>>))

numbers(val) ==
  IF val # <<>> /\ val[1] = "uniform" THEN Plain("uniform", Tail(val))
  ELSE IF val # <<>> /\ val[1] = "nonuniform"
  THEN LET body == SubSeq(val, 3, Len(val))
           start == IF body[1] # "(" THEN 2 ELSE 1
           inner == SubSeq(body, start + 1, Len(body) - 1)
       IN IF body # <<>> /\ \A i \in DOMAIN inner : inner[i] \in {"(", ")"} \/ IsNumber(inner[i])
          THEN [form |-> "list", ents |-> ListEntries(inner, 1, <<>>, <<>>)]
          ELSE NotNumeric
  ELSE Plain("plain", val)

Times(ents, n) == [i \in 1..n |-> ents[1]]

(* What one value contributes: is the structure alike, and the differences  *)
(* and magnitudes of the numbers.  max(worst, nan) is worst in Python, so a *)
(* NaN on either side contributes nothing.                                  *)
Same == [ok |-> TRUE, diffs |-> {}, mags |-> {}]
Bad == [ok |-> FALSE, diffs |-> {}, mags |-> {}]
AbsDiff(x, y) == IF Numbers[x] > Numbers[y] THEN Numbers[x] - Numbers[y] ELSE Numbers[y] - Numbers[x]

(* Seeded defect: a uniform value is not expanded to the other side's list. *)
FirstOnly(x, y, n) == x

(* `uniform v` stands for the other side's list of that value.              *)
ExpandedAgainst(x, y, n) == IF x.form = "uniform" /\ y.form = "list"
                            THEN [x EXCEPT !.ents = Times(x.ents, n)] ELSE x

values(va, vb) ==
  LET na == numbers(va)
      nb == numbers(vb)
      a == ExpandedAgainst(na, nb, Len(nb.ents)).ents
      b == ExpandedAgainst(nb, na, Len(na.ents)).ents
      at == {<<i, c>> \in (DOMAIN a) \X (1..8) : c \in DOMAIN a[i]}
      real == {p \in at : a[p[1]][p[2]] # "nan" /\ b[p[1]][p[2]] # "nan"}
  IN IF na = NotNumeric \/ nb = NotNumeric
     THEN IF va = vb THEN Same ELSE Bad
     ELSE IF Len(a) # Len(b) \/ \E i \in DOMAIN a : Len(a[i]) # Len(b[i]) THEN Bad
     ELSE [ok |-> TRUE,
           diffs |-> {AbsDiff(a[p[1]][p[2]], b[p[1]][p[2]]) : p \in real},
           mags |-> {Numbers[a[p[1]][p[2]]] : p \in {q \in at : a[q[1]][q[2]] # "nan"}}]
-----------------------------------------------------------------------------
(* FileCompare.entries: the keywords in order; then every key of the        *)
(* reference against the LAST entry of that key on the other side.          *)

Both(S) == [ok |-> \A x \in S : x.ok, diffs |-> UNION {x.diffs : x \in S},
            mags |-> UNION {x.mags : x \in S}]
Keys(e) == [i \in DOMAIN e |-> e[i].key]
LastOf(e, k) == e[Max({i \in DOMAIN e : e[i].key = k})]

(* where is the path of keywords to this block: the FoamFile header is      *)
(* compared exactly.                                                        *)
RECURSIVE entries(_, _, _)
entries(where, ea, eb) ==
  IF Keys(ea) # Keys(eb) THEN Bad
  ELSE LET one(x) ==
             LET y == LastOf(eb, x.key)
             IN IF x.kind # y.kind THEN Bad
                ELSE IF x.kind = "dict" THEN entries(Append(where, x.key), x.sub, y.sub)
                ELSE IF x.key \in EXACT_KEYS \/ where = <<"FoamFile">>
                THEN IF x.val = y.val THEN Same ELSE Bad
                ELSE values(x.val, y.val)
       IN Both({one(ea[i]) : i \in DOMAIN ea})

compare_file(ta, tb, as_text) ==
  LET la == bare_list(ta)
      lb == bare_list(tb)
  IN IF as_text THEN IF ta = tb THEN Same ELSE Bad
     ELSE IF la = <<>> /\ lb = <<>> THEN entries(<<>>, Parsed(ta), Parsed(tb))
     ELSE IF la = <<>> \/ lb = <<>> THEN Bad
     ELSE Both({entries(<<>>, Parsed(la[1]), Parsed(lb[1])),
                IF la[2][1] = lb[2][1] THEN Same ELSE Bad,
                values(<<"nonuniform", "List">> \o la[2], <<"nonuniform", "List">> \o lb[2])})

Worst(fc) == Max(fc.diffs \cup {0})

(* main: ref and other map each time to its files, a time that is not       *)
(* written to <<>>; textual names the files compared as text.               *)
StructureFailures(ref, other, textual) ==
  LET missing == {t \in DOMAIN ref : t \notin DOMAIN other}
      written == DOMAIN ref \ missing
      filesets == {t \in written : DOMAIN ref[t] # DOMAIN other[t]}
      pairs == {<<t, f>> \in written \X UNION {DOMAIN ref[t] : t \in written} :
                  f \in DOMAIN ref[t] \cap DOMAIN other[t]}
      bad == {p \in pairs : ~compare_file(ref[p[1]][p[2]], other[p[1]][p[2]], p[2] \in textual).ok}
  IN Cardinality(missing) + Cardinality(filesets) + Cardinality(bad)

ExitCode(ref, other, textual) == IF StructureFailures(ref, other, textual) > 0 THEN 1 ELSE 0
=============================================================================
