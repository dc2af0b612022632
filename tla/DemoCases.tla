----------------------------- MODULE DemoCases -----------------------------
(***************************************************************************)
(* Small meshes for the multigrid demo: every graph on up to MaxCells      *)
(* cells, its faces in index order with equal or with alternating weights. *)
(***************************************************************************)
EXTENDS Aggregation

CONSTANTS
  MaxCells   \* the largest mesh

PairsOf(n) == {<<i, j>> \in (1..n) \X (1..n) : i < j}
Faces(pairs, alternating) ==
  LET ordered == Ordered(pairs)
  IN [k \in DOMAIN ordered |->
        [o |-> ordered[k][1], nb |-> ordered[k][2], w |-> IF alternating THEN 1 + (k % 2) ELSE 1]]
MeshCases ==
  UNION {{[n |-> n, faces |-> Faces(p, a)] : p \in SUBSET PairsOf(n), a \in BOOLEAN} :
           n \in 1..MaxCells}

(* The hierarchy OpenFOAM and brae dumped: up to two aggregations of the    *)
(* mesh, each of the grid the one before left.  AmgX's is built.            *)
Dumps(m) ==
  LET first == pairwise_aggregate(m.faces, m.n)
      second == pairwise_aggregate(CoarseFaces(m.faces, first.map), first.nc)
  IN {<<>>, <<first.map>>, <<first.map, second.map>>}
Trace(s, m, dumped, maps) == [solver |-> s, mesh |-> m, dumped |-> dumped, maps |-> maps]
TraceCases ==
  UNION {{Trace("amgx", m, FALSE, <<>>)}
           \cup {Trace(s, m, TRUE, maps) : s \in {"of_gamg", "brae"}, maps \in Dumps(m)} :
           m \in MeshCases}
=============================================================================
