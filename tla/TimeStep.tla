------------------------------ MODULE TimeStep ------------------------------
(***************************************************************************)
(* One time step of Model::run (src_rust/model.rs) without wind:           *)
(* update_boundary_conditions, which takes the forcing of the time from    *)
(* the boundary series, makes the directional grid around its mean         *)
(* direction and forces the sea boundary, compute_wave_field, and the map  *)
(* record made of what is then in the arrays.  It joins BoundarySeries,    *)
(* ThetaGrid and what SweepSolver shows of a solve.                        *)
(*                                                                         *)
(* Data.  A row of the series is a height, a period and a water level, the *)
(* same at all support points; the direction of a time is any of Headings. *)
(* Levels and depths are fractions <<numerator, denominator>>, infinite or *)
(* not a number when the denominator is zero.  The spectrum of a node has  *)
(* "waves" or is "calm" (waveps and less); a result of it is "zero" when   *)
(* it is not computed, "undefined" when it is computed with a period that  *)
(* is no positive number and so is not a number, infinite, negative, or    *)
(* vanishes whatever the waves.  With them goes the time they belong to,   *)
(* and with a spectrum its directions: a leftover shows.                   *)
(*                                                                         *)
(* Faulty variants, used only to show that the properties notice the       *)
(* mistake: SolvedLeavingDry and SolveKeepingResults.                      *)
(***************************************************************************)
EXTENDS BoundarySeries, ThetaGrid

CONSTANTS
  Nodes,          \* nodes of the mesh
  msk, conn, up,  \* mask, link to a Neumann node (0: none), upwind nodes
  zb,             \* bed level of every node
  hmins,          \* the least depths explored (hmin of the configuration)
  zsini,          \* level when there is no boundary series
  RowData(_),     \* [hs, tp, zs: row -> Int], explored with a time column
  GridsFor(_),    \* grids explored with a time column
  Headings(_)     \* mean directions explored with a grid

(* hmin of the solver: it takes a node for wet above 1.1 times that depth, *)
(* in units of a centimetre.                                               *)
DryLimit == 11

ASSUME StepAssumption ==
  /\ msk \in [Nodes -> {1, 2, 3}] /\ zb \in [Nodes -> Int]
  /\ conn \in [Nodes -> Nodes \union {0}] /\ up \in [Nodes -> SUBSET Nodes]
  /\ 0 \notin Nodes
  /\ hmins \subseteq Nat \ {0} /\ zsini \in Int
  /\ \A s \in SeriesSet :
       /\ \A d \in RowData(s) : {d.hs, d.tp, d.zs} \subseteq [DOMAIN s -> Int]
       /\ \A d \in RowData(s), i \in DOMAIN s : d.hs[i] >= 0 /\ d.tp[i] > 0
       /\ GridsFor(s) \subseteq Grids
  /\ \A g \in Grids : Headings(g) \subseteq Directions(g)

VARIABLES
  rows,     \* heights, periods and levels of the series
  hmin,     \* least depth of this run
  step,     \* "points", "grid", "spectra", "solve" or "record"
  depth,    \* [node -> fraction]
  hsum,     \* heights interpolated for the time: "zero" or "some"
  tpmean,   \* their mean period: "positive" or "unusable"
  wdmean,   \* their mean direction
  ee,       \* [node -> spectrum]
  h,        \* [node -> height and direction of the waves]
  dw,       \* [node -> dissipation of the waves, by breaking and friction]
  cg        \* group velocity, of all nodes

results == <<h, dw, cg>>
stepVars == <<rows, hmin, step, depth, hsum, tpmean, wdmean, ee, results>>
timeStepVars == <<vars, gridVars, stepVars>>

Never == TStop + 1   \* a time before the first
Sea == {k \in Nodes : msk[k] = 2}
Inner == {k \in Nodes : msk[k] = 1}

(* The directions start as the window around 0 and count from the first    *)
(* time step on.                                                           *)
StepInit ==
  /\ Init
  /\ rows \in RowData(t_bwv)
  /\ grid \in GridsFor(t_bwv)
  /\ central_theta = 0
  /\ i360 = Window(grid, 0)
  /\ hmin \in hmins
  /\ step = "points"
  /\ depth = [k \in Nodes |-> <<0, 1>>]
  /\ hsum = "zero" /\ tpmean = "positive" /\ wdmean = 0
  /\ ee = [k \in Nodes |-> [is |-> "calm", of |-> Never, bins |-> i360]]
  /\ h = [k \in Nodes |-> [is |-> "zero", of |-> Never]]
  /\ dw = h
  /\ cg = [is |-> "zero", of |-> Never]
-----------------------------------------------------------------------------
(* A column of the series at time t between rows r - 1 and r, as a         *)
(* fraction.  Between rows of equal time the code divides by zero: the     *)
(* weight is infinite, or 0/0 at that time, and so is the fraction.        *)
Span(r) == t_bwv[r] - t_bwv[r - 1]
Weighted(v, r) == v[r - 1] * (t_bwv[r] - t) + v[r] * (t - t_bwv[r - 1])

(* The level of the time.  The forcing of a single row is never filled and *)
(* keeps its initial zeros.                                                *)
Level(r) ==
  IF ntwbnd = 0 THEN <<zsini, 1>>
  ELSE IF ntwbnd = 1 THEN <<0, 1>> ELSE <<Weighted(rows.zs, r), Span(r)>>

(* max(level - zb, hmin): infinite where the level is, and hmin for a      *)
(* level that is not a number, which the max of the code drops.            *)
Above(level, k) == level[1] - zb[k] * level[2]
DepthAt(level, k) ==
  IF Above(level, k) > hmin * level[2] THEN <<Above(level, k), level[2]>>
  ELSE <<hmin, 1>>
Deeper(fraction, d) == fraction[1] > d * fraction[2]

(* Heights extrapolated below zero still force waves, of their square.     *)
(* The mean direction is not a number when the heights sum to zero, or are *)
(* infinite or undefined; the grid then is made around 0, and there are no *)
(* waves.  A period is only of use above zero.                             *)
UpdatePoints ==
  /\ step = "points"
  /\ UpdateBoundaryPoints
  /\ depth' = [k \in Nodes |-> DepthAt(Level(row'), k)]
  /\ hsum' = IF ntwbnd < 2 \/ Span(row') = 0 \/ Weighted(rows.hs, row') = 0
             THEN "zero" ELSE "some"
  /\ tpmean' = IF ntwbnd = 0 \/ (ntwbnd >= 2 /\ Span(row') > 0 /\ Weighted(rows.tp, row') > 0)
               THEN "positive" ELSE "unusable"
  /\ wdmean' \in IF hsum' = "zero" THEN {0} ELSE Headings(grid)
  /\ step' = "grid"
  /\ UNCHANGED <<gridVars, rows, hmin, ee, results>>

MakeGrid ==
  /\ step = "grid"
  /\ MakeThetaGrid
  /\ central_theta' = wdmean
  /\ step' = "spectra"
  /\ UNCHANGED <<vars, rows, hmin, depth, hsum, tpmean, wdmean, ee, results>>

(* build_boundary_support_points_spectra and update_boundaries.  What is   *)
(* not a number ends as waveps in a spectrum, by the max of the solver.    *)
ForceSea ==
  /\ step = "spectra"
  /\ ee' = [k \in Nodes |->
              IF k \in Sea /\ ntwbnd > 0
              THEN [is |-> IF hsum = "zero" THEN "calm" ELSE "waves", of |-> t, bins |-> i360]
              ELSE ee[k]]
  /\ step' = "solve"
  /\ UNCHANGED <<vars, gridVars, rows, hmin, depth, hsum, tpmean, wdmean, results>>

Wet == {k \in Nodes : Deeper(depth[k], DryLimit)}

(* What a solve makes of the inner nodes (SweepSolver): waves reach no     *)
(* further than from wet node to wet node, out of the forcing and over the *)
(* Neumann nodes that copy them.  A dry node has no spectrum.  Without a   *)
(* period no group velocity is a number, nor is the solution at any node;  *)
(* the max with waveps drops what is not a number and leaves waveps.       *)
Closed(S) ==
  /\ \A k \in Sea : ee[k].is # "calm" => k \in S
  /\ \A k \in Inner \cap Wet : up[k] \cap S # {} => k \in S
  /\ \A k \in S : conn[k] # 0 => conn[k] \in S
Reached ==
  LET closed == {S \in SUBSET Nodes : Closed(S)} IN
  {k \in Nodes : \A S \in closed : k \in S}

Computed(k, reached) ==
  [is |-> IF k \in Wet \cap reached /\ tpmean = "positive" THEN "waves" ELSE "calm",
   of |-> t, bins |-> i360]
Sources(k) == {j \in Inner : conn[j] = k}

SolvedLeavingDry(k, reached) ==
  IF k \in Inner \cap Wet THEN Computed(k, reached)
  ELSE IF Sources(k) = {} THEN ee[k]
  ELSE Computed(CHOOSE j \in Sources(k) : TRUE, reached)
Solved(k, reached) ==
  IF k \in Inner THEN Computed(k, reached)
  ELSE IF Sources(k) = {} THEN ee[k]
  ELSE Computed(CHOOSE j \in Sources(k) : TRUE, reached)

(* The group velocity follows from the dispersion relation, of every node. *)
(* The solver sets the results of all nodes to zero, then computes heights *)
(* of wet nodes and of the sea boundary, dissipation of wet nodes.  A dry  *)
(* Neumann node copies dissipation while its source still has zero.        *)
Zeroed == [is |-> "zero", of |-> t]
Celerity == [is |-> IF tpmean = "positive" THEN "number" ELSE "undefined", of |-> t]
Height(k) == IF k \in Wet \union Sea THEN [is |-> ee'[k].is, of |-> t] ELSE Zeroed
Dissipation(k) == IF k \in Wet THEN Celerity ELSE Zeroed

SolveKeepingResults ==
  /\ step = "solve"
  /\ LET reached == Reached IN ee' = [k \in Nodes |-> Solved(k, reached)]
  /\ h' = [k \in Nodes |-> IF k \in Wet \union Sea THEN Height(k) ELSE h[k]]
  /\ dw' = [k \in Nodes |-> IF k \in Wet THEN Dissipation(k) ELSE dw[k]]
  /\ cg' = Celerity
  /\ step' = "record"
  /\ UNCHANGED <<vars, gridVars, rows, hmin, depth, hsum, tpmean, wdmean>>
Solve ==
  /\ step = "solve"
  /\ LET reached == Reached IN ee' = [k \in Nodes |-> Solved(k, reached)]
  /\ h' = [k \in Nodes |-> Height(k)]
  /\ dw' = [k \in Nodes |-> Dissipation(k)]
  /\ cg' = Celerity
  /\ step' = "record"
  /\ UNCHANGED <<vars, gridVars, rows, hmin, depth, hsum, tpmean, wdmean>>

(* The record is what the arrays hold in step "record".                    *)
Advance ==
  /\ step = "record"
  /\ AdvanceTime
  /\ step' = "points"
  /\ UNCHANGED <<gridVars, rows, hmin, depth, hsum, tpmean, wdmean, ee, results>>

StepNext == UpdatePoints \/ MakeGrid \/ ForceSea \/ Solve \/ Advance

StepSpec == StepInit /\ [][StepNext]_timeStepVars
-----------------------------------------------------------------------------
StepTypeOK ==
  /\ TypeOK /\ GridTypeOK
  /\ rows \in RowData(t_bwv) /\ hmin \in hmins
  /\ step \in {"points", "grid", "spectra", "solve", "record"}
  /\ updated = (step # "points")
  /\ depth \in [Nodes -> Int \X Int]
  /\ hsum \in {"zero", "some"} /\ tpmean \in {"positive", "unusable"}
  /\ wdmean \in Directions(grid)
  /\ \A k \in Nodes :
       /\ ee[k].is \in {"calm", "waves"} /\ h[k].is \in {"zero", "calm", "waves"}
       /\ dw[k].is \in {"zero", "number", "undefined"}
  /\ cg.is \in {"zero", "number", "undefined"}

(* The nodes that are under water at the level of the series, by more than *)
(* the solver asks for, whatever the arrays say.                           *)
Submerged(k) == Above(Level(row), k) > DryLimit * Level(row)[2]

(* A record holds no leftovers of an earlier step: every result is of the  *)
(* time of the record, every spectrum of that time and in the directions   *)
(* the record lists, which lie around the waves of that time, and a height *)
(* is the height of the spectrum beside it, or zero.  A node that nothing  *)
(* forces, computes or copies to stays calm as it began.                   *)
RecordsAreOfOneTime ==
  step = "record" =>
    /\ i360 = Window(grid, wdmean)
    /\ cg.of = t
    /\ \A k \in Nodes :
         /\ \/ ee[k].of = t /\ ee[k].bins = i360
            \/ ee[k].of = Never /\ ee[k].is = "calm"
         /\ h[k].of = t /\ dw[k].of = t
         /\ h[k].is \in {"zero", ee[k].is}

(* Land stays dry, tidal flats fall dry: a node above the level of the     *)
(* time has no energy of its own, and nothing is recorded of it but zero,  *)
(* not even of a Neumann node whose source is under water.  This holds if  *)
(* the least depth is one the solver takes for dry; nothing forbids a      *)
(* larger one, and then no node is ever dry.                               *)
LandStaysDry ==
  step = "record" /\ hmin <= DryLimit =>
    \A k \in Nodes \ Sea : ~ Submerged(k) =>
      /\ k \in Inner => ee[k].is = "calm"
      /\ h[k].is = "zero" /\ dw[k].is = "zero"

(* While the series covers the time the results are numbers: the forcing   *)
(* is never taken from a pair of rows, however it was found, that makes a  *)
(* period of zero or less.  Beyond the ends of the series periods are      *)
(* extrapolated, below zero too, and group velocity, dissipation and the   *)
(* waves of the inner nodes are lost.                                      *)
ResultsAreDefined ==
  /\ step = "record"
  /\ ntwbnd # 0 => ntwbnd >= 2 /\ t_bwv[1] <= t /\ t < t_bwv[ntwbnd]
  => cg.is = "number" /\ \A k \in Nodes : dw[k].is # "undefined"

(* "`where (depth < hmin)` fill mask": the map holds a fill value for a    *)
(* dry node over which the water of the time is less than hmin deep, and   *)
(* not the zero of a result that was not computed, which is a direction    *)
(* like any other.                                                         *)
Masked(k) == depth[k][1] < hmin * depth[k][2]
DryNodesAreMasked ==
  step = "record" =>
    \A k \in Nodes \ Wet : Above(Level(row), k) < hmin * Level(row)[2] => Masked(k)
=============================================================================
