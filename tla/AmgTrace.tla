------------------------------ MODULE AmgTrace ------------------------------
(***************************************************************************)
(* demo/amgpcg: make_steps.py expands three multigrid solvers into their   *)
(* internal steps, replay.py draws them frame by frame, make_compare.py    *)
(* charges each cycle its work.  Of a matrix its size and its internal     *)
(* faces are kept, as in module Aggregation; of a vector its length.       *)
(***************************************************************************)
EXTENDS Aggregation, RuleState

CONSTANTS
  Traces   \* what is traced, [solver, mesh, dumped, maps]

NPRE == [of_gamg |-> 0, amgx |-> 2, brae |-> 1]
NPOST == [of_gamg |-> 2, amgx |-> 2, brae |-> 1]
NFINEST_OF == 2
TARGET == 2
Solvers == DOMAIN NPRE

(* A hierarchy that was dumped maps the cells of each grid to those of the  *)
(* next.                                                                    *)
CellsOf(t, g) == IF g = 1 THEN t.mesh.n ELSE Max(Range(t.maps[g - 1]))
ASSUME TracesAssumption ==
  \A t \in Traces :
    /\ t.solver \in Solvers /\ t.dumped \in BOOLEAN
    /\ Mesh(t.mesh.faces, t.mesh.n) /\ t.mesh.n > 0
    /\ Len(t.maps) \in Nat
    /\ \A g \in 1..Len(t.maps) : t.maps[g] \in [1..CellsOf(t, g) -> Nat \ {0}]
-----------------------------------------------------------------------------
(* build_levels, one round of its loop at a time: the grid reached is out.n *)
(* and out.faces.  A level is [n, faces, map, nc], the last one without map *)
(* and nc.  The maps are the dumped ones, when there is a dump, or else     *)
(* aggregated here until the target size.                                   *)

Aggregated(t, g, faces, n) ==
  IF t.dumped THEN [map |-> t.maps[g], nc |-> Max(Range(t.maps[g]))]
  ELSE pairwise_aggregate(faces, n)
Coarsens(t, g, faces, n) ==
  IF t.dumped THEN g <= Len(t.maps)
  ELSE n > TARGET /\ pairwise_aggregate(faces, n).nc < n

Level(n, faces, agg) == [n |-> n, faces |-> faces, map |-> agg.map, nc |-> agg.nc]
Coarsest(n, faces) == [n |-> n, faces |-> faces, map |-> <<>>, nc |-> 0]

LoadTrace ==
  /\ in = Idle
  /\ \E t \in Traces :
       /\ in' = [tool |-> "trace", trace |-> t]
       /\ out' = [at |-> "build", n |-> t.mesh.n, faces |-> t.mesh.faces, levels |-> <<>>,
                  grid |-> 0, sweeps |-> 0, frames |-> <<>>]

At(where) == in.tool = "trace" /\ out.at = where
ThisLevel(agg) == Level(out.n, out.faces, agg)
Building == At("build") /\ Coarsens(in.trace, Len(out.levels) + 1, out.faces, out.n)
NextMap == Aggregated(in.trace, Len(out.levels) + 1, out.faces, out.n)

AddLevel ==
  /\ Building
  /\ LET agg == NextMap
     IN /\ CoarsePairs(out.faces, agg.map) # {}
        /\ out' = [out EXCEPT !.levels = Append(@, ThisLevel(agg)), !.n = agg.nc,
                              !.faces = CoarseFaces(out.faces, agg.map)]
  /\ UNCHANGED in
(* A level whose aggregates share no face ends the hierarchy - with the     *)
(* operator of the level above, not with the coarse one.                    *)
FlatLevel ==
  /\ Building
  /\ LET agg == NextMap
     IN /\ CoarsePairs(out.faces, agg.map) = {}
        /\ out' = [out EXCEPT !.levels = Append(Append(@, ThisLevel(agg)), Coarsest(out.n, out.faces)),
                              !.at = "begin"]
  /\ UNCHANGED in
LastLevel ==
  /\ At("build") /\ ~Coarsens(in.trace, Len(out.levels) + 1, out.faces, out.n)
  /\ out' = [out EXCEPT !.levels = Append(@, Coarsest(out.n, out.faces)), !.at = "begin"]
  /\ UNCHANGED in
-----------------------------------------------------------------------------
(* One iteration, frame by frame: [phase, grid, ngrid], grids from 0.       *)
(* sweeps are those still to be done on the grid, going down or up.         *)

Frame(phase, g, k) == [phase |-> phase, grid |-> g, ngrid |-> k]
Emit(phase, grid, ngrid, at, sweeps) ==
  /\ out' = [out EXCEPT !.frames = Append(@, Frame(phase, grid, ngrid)), !.grid = grid,
                        !.at = at, !.sweeps = sweeps]
  /\ UNCHANGED in
Here == out.levels[out.grid + 1]
Solver == in.trace.solver

KrylovStart ==
  At("begin") /\ Emit("krylov_start", 0, out.levels[1].n, "down", NPRE[Solver])
PreSmooth ==
  /\ At("down") /\ Here.nc > 0 /\ out.sweeps > 0
  /\ Emit("presmooth", out.grid, Here.n, "down", out.sweeps - 1)
(* run_of restricts the residual it has all the way down.                   *)
Residual ==
  /\ At("down") /\ Here.nc > 0 /\ out.sweeps = 0 /\ Solver # "of_gamg"
  /\ Emit("residual", out.grid, Here.n, "residual", 0)
RestrictResidual ==
  /\ At(IF Solver = "of_gamg" THEN "down" ELSE "residual") /\ Here.nc > 0
  /\ Emit("restrict", out.grid + 1, Here.nc, "down", NPRE[Solver])

(* A product of vectors and operators of different lengths raises; and so   *)
(* does run_of without a coarse grid to restrict to.                        *)
Fits == IF out.grid = 0 THEN Solver # "of_gamg" ELSE out.levels[out.grid].nc = Here.n
CoarseSolve ==
  /\ At("down") /\ Here.nc = 0 /\ Fits
  /\ Emit("coarse_solve", out.grid, Here.n, "up", 0)
RaiseShapes ==
  /\ At("down") /\ Here.nc = 0 /\ ~Fits
  /\ out' = [out EXCEPT !.at = "raised"] /\ UNCHANGED in

PostSweeps(s, g) == IF s = "of_gamg" /\ g = 0 THEN NFINEST_OF ELSE NPOST[s]
Prolong ==
  /\ At("up") /\ out.sweeps = 0 /\ out.grid > 0
  /\ Emit("prolong", out.grid - 1, out.levels[out.grid].n, "up", PostSweeps(Solver, out.grid - 1))
PostSmooth ==
  /\ At("up") /\ out.sweeps > 0
  /\ Emit("postsmooth", out.grid, Here.n, "up", out.sweeps - 1)
KrylovUpdate ==
  /\ At("up") /\ out.sweeps = 0 /\ out.grid = 0
  /\ Emit("krylov_update", 0, Here.n, "done", 0)

TraceSolver == LoadTrace \/ AddLevel \/ FlatLevel \/ LastLevel \/ KrylovStart \/ PreSmooth
               \/ Residual \/ RestrictResidual \/ CoarseSolve \/ RaiseShapes
               \/ Prolong \/ PostSmooth \/ KrylovUpdate

(* main: which cell of grid g a finest cell belongs to (aggregates.csv).    *)
aggregates(levels, g) ==
  LET chain[k \in 0..g] == IF k = 0 THEN [c \in 1..levels[1].n |-> c]
                           ELSE [c \in 1..levels[1].n |-> levels[k].map[chain[k - 1][c]]]
  IN chain[g]
-----------------------------------------------------------------------------
(* replay.py.  values[agg] paints the finest cells of a frame; the marker   *)
(* of draw_cycle_panel stands on the V of n_levels grids, as many as the    *)
(* frames show.                                                             *)

n_levels(frames) == Max({frames[i].grid : i \in DOMAIN frames}) + 1

Painted(levels, frame) == Range(aggregates(levels, frame.grid)) \subseteq 1..frame.ngrid

Descending == {"presmooth", "residual", "restrict", "krylov_start"}

(* Seeded defect: the residual counts as a step of the way up.              *)
DescendingLess(levels, frame) ==
  IF frame.phase \in Descending \ {"residual"} THEN frame.grid
  ELSE 2 * levels - 2 - frame.grid

Marker(levels, frame) ==
  IF frame.phase \in Descending THEN frame.grid ELSE 2 * levels - 2 - frame.grid

(* WORK_PER_CYCLE of make_compare.py and the sweeps on the finest grid.     *)
SweepsCharged == [of_gamg |-> 4, amgx |-> 4, brae |-> 2]
IsFineSweep(frame) == frame.grid = 0 /\ frame.phase \in {"presmooth", "postsmooth"}
FineSweeps(frames) == Cardinality({i \in DOMAIN frames : IsFineSweep(frames[i])})
-----------------------------------------------------------------------------
(* Two cells share a face; an aggregation leaves a face; the coarse grid of *)
(* a level is the one its aggregates make.                                  *)
Linked(faces, a, b) == \E f \in DOMAIN faces : {faces[f].o, faces[f].nb} = {a, b}
LeavesFace(level) ==
  \E f \in DOMAIN level.faces : level.map[level.faces[f].o] # level.map[level.faces[f].nb]
MadeOf(coarse, level) ==
  /\ coarse.n = level.nc
  /\ \A a, b \in 1..coarse.n : a # b =>
       (Linked(coarse.faces, a, b) <=>
          \E c, d \in 1..level.n : /\ level.map[c] = a /\ level.map[d] = b
                                   /\ Linked(level.faces, c, d))

(* The marker walks down the V and up again without a jump or a step back,  *)
(* and a sweep is drawn for every one charged to AmgX and brae.             *)
WalksTheV(levels, frames, s) ==
  LET n == n_levels(frames)
      mark == [i \in DOMAIN frames |-> Marker(n, frames[i])]
  IN /\ n = Len(levels) /\ mark[1] = 0 /\ mark[Len(frames)] = 2 * n - 2
     /\ \A i \in 1..(Len(frames) - 1) : mark[i + 1] - mark[i] \in {0, 1}
     /\ s # "of_gamg" /\ n > 1 => FineSweeps(frames) = SweepsCharged[s]

(* The replay paints every frame with values it has, also those of a cycle  *)
(* that is cut short; a cycle raises exactly when an aggregation that       *)
(* merges cells leaves no face, or when run_of has no coarse grid;          *)
(* otherwise each grid that has faces is the one the aggregates of the grid *)
(* above make, and the marker walks the V to its end.                       *)
ReplayFollowsCycle ==
  in.tool = "trace" =>
    LET levels == out.levels
        lost == \E g \in 1..(Len(levels) - 1) :
                  ~LeavesFace(levels[g]) /\ levels[g].nc # levels[g].n
        stuck == lost \/ (Solver = "of_gamg" /\ Len(levels) = 1)
    IN /\ \A i \in DOMAIN out.frames : Painted(levels, out.frames[i])
       /\ out.at = "raised" => stuck
       /\ out.at = "done" =>
            /\ ~stuck /\ WalksTheV(levels, out.frames, Solver)
            /\ \A g \in 1..(Len(levels) - 1) :
                 LeavesFace(levels[g]) => MadeOf(levels[g + 1], levels[g])
=============================================================================
