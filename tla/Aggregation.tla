---------------------------- MODULE Aggregation ----------------------------
(***************************************************************************)
(* demo/amgpcg/make_steps.py, the coarsening of a grid by one level: which *)
(* cells are merged into one, and the faces of the grid this leaves.  Of a *)
(* matrix its internal faces are kept, [o, nb, w] in index order, w the    *)
(* strength of the face; cells and aggregates are numbered from 1, and 0   *)
(* stands for a cell not mapped yet.                                       *)
(***************************************************************************)
EXTENDS Integers, Sequences, FiniteSets, FiniteSetsExt, Functions

(* A face lies between two different cells; its strength is the size of a   *)
(* coefficient.                                                             *)
Mesh(faces, n) ==
  /\ n \in Nat /\ faces \in Seq([o : 1..n, nb : 1..n, w : Nat])
  /\ \A f \in DOMAIN faces : faces[f].o # faces[f].nb
-----------------------------------------------------------------------------
(* pairwise_aggregate: cells in order, each unmapped one merged with its    *)
(* unmapped neighbour across the strongest face, else attached to the       *)
(* aggregate across the strongest face, else an aggregate of its own.       *)

Incident(faces, c) == {f \in DOMAIN faces : c \in {faces[f].o, faces[f].nb}}
Across(faces, f, c) == IF faces[f].o = c THEN faces[f].nb ELSE faces[f].o
Strongest(faces, F) ==
  CHOOSE f \in F : \A g \in F : faces[g].w < faces[f].w \/ (faces[g].w = faces[f].w /\ f <= g)

(* Seeded defect: a leftover cell opens an aggregate of its own.            *)
Unattached(faces, st, c) == st.nc + 1

(* The aggregate of a cell all of whose neighbours are taken.               *)
LeftoverGoesTo(faces, st, c) ==
  LET taken == {f \in Incident(faces, c) : st.map[Across(faces, f, c)] > 0}
  IN IF taken = {} THEN st.nc + 1 ELSE st.map[Across(faces, Strongest(faces, taken), c)]

Merge(faces, st, c) ==
  LET free == {f \in Incident(faces, c) : st.map[Across(faces, f, c)] = 0}
      to == LeftoverGoesTo(faces, st, c)
  IN IF st.map[c] > 0 THEN st
     ELSE IF free # {}
     THEN [map |-> [st.map EXCEPT ![c] = st.nc + 1,
                                  ![Across(faces, Strongest(faces, free), c)] = st.nc + 1],
           nc |-> st.nc + 1]
     ELSE [map |-> [st.map EXCEPT ![c] = to], nc |-> IF to > st.nc THEN to ELSE st.nc]

pairwise_aggregate(faces, n) ==
  LET after[c \in 0..n] == IF c = 0 THEN [map |-> [d \in 1..n |-> 0], nc |-> 0]
                           ELSE Merge(faces, after[c - 1], c)
  IN after[n]
-----------------------------------------------------------------------------
(* The faces between two aggregates become one, their strengths added, in   *)
(* the order of the pairs of aggregates they lie between.                   *)

CoarsePairs(faces, map) ==
  {<<Min({map[faces[f].o], map[faces[f].nb]}), Max({map[faces[f].o], map[faces[f].nb]})>> :
     f \in {g \in DOMAIN faces : map[faces[g].o] # map[faces[g].nb]}}
PairLess(p, q) == p[1] < q[1] \/ (p[1] = q[1] /\ p[2] < q[2])
Ordered(P) ==
  [i \in 1..Cardinality(P) |->
     CHOOSE p \in P : Cardinality({q \in P : PairLess(q, p)}) = i - 1]
Between(faces, map, p) ==
  {f \in DOMAIN faces : {map[faces[f].o], map[faces[f].nb]} = {p[1], p[2]}}
CoarseFaces(faces, map) ==
  LET ordered == Ordered(CoarsePairs(faces, map))
  IN [i \in DOMAIN ordered |->
        [o |-> ordered[i][1], nb |-> ordered[i][2],
         w |-> SumFunction([f \in Between(faces, map, ordered[i]) |-> faces[f].w])]]
=============================================================================
