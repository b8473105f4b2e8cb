# SnapWave: specification and proofs

SnapWave computes stationary wave fields on an unstructured coastal mesh. The
program is a Rust crate, `src/src_rust`; the Fortran sources in `src/src` are the
retired implementation it was ported from and is compared with. A run reads its
inputs, prepares the geometry of the mesh once, and then, for each time step,
interpolates the forcing at the boundary, turns the directional grid to the mean
wave direction, solves a stationary energy balance by sweeping over the mesh, and
collects output records. The files are written when the loop is over.

The arithmetic of the physics is not what a model checker is for. What is modelled
is the control around it: orders, cursors, schedules, masks, index arithmetic, the
layout of files, what one time step leaves behind for the next, and what is on disk
when something fails.

## 1. Inventory

| Component | Source | State | Operations | Module |
|---|---|---|---|---|
| Solver control | `solver.rs` 768-1811 | energies `ee`, `eeold`, `eemax`, `ok`, `iter` | initialise, sweep, freeze, copy, stop, save | `SweepSolver` |
| Order of the nodes | `solver.rs` 176-249 | heap of keys and nodes | `hpsort_eps_epw`, `hslt` | `HeapSort` |
| Time step | `model.rs` 565-830, `solver.rs` 768-1811 | depths, forcing, grid, spectra, heights, dissipation, group velocity, all in arrays that outlive the step | update forcing, grid, spectra, solve, record | `TimeStep` |
| Time loop, output schedule | `state.rs`, `model.rs` 500-562 | `t`, `next_*_output`, counters, records | `should_output_*`, `record_*_output`, `advance_time` | `OutputSchedule` |
| Boundary time series | `model.rs` 639-700 | cursor `itwbndlast` | `update_boundary_points` | `BoundarySeries` |
| Directional grid | `model.rs` 66-82, 737-788 | window `i360` | `make_theta_grid` | `ThetaGrid` |
| Mask and Neumann links | `geometry.rs` 455-514, 641-707 | `msk`, `neumannconnected`, lists | `neuboundaries`, refinement | `DomainMask` |
| Support points of the boundary | `geometry.rs` 535-600 | indices, weights | `find_boundary_indices` | `BoundaryIndices`, `DomainPreparation` |
| Surrounding points, upwind neighbours | `geometry.rs` 84-469 | ring `kp`, `prev`, `w` | ring walk, upwind search; plane fit, intersection | `SurroundingRing` (walk and search) |
| Observation points | `interp.rs` 196-600, `model.rs` 952-1050 | cached places, flags, `iref`, weights | `hunt`, `make_map_fm`; interpolate | `ObsMapping` (location) |
| Run, paths, exit code | `main.rs`, `paths.rs`, `run_context.rs` | file system, phase, exit code | `execute`, `prepare` | `RunLifecycle` |
| NetCDF format | `netcdf.rs` | header, offsets, bytes | `Writer::build`, readers | `NetcdfLayout` |
| Output schema | `output.rs`, `capture.rs` | none | build variables of a file | when and whether: `RunLifecycle` |
| Text inputs, keywords, dates | `text_input.rs`, `input.rs`, `date.rs` | none | parse | assumptions of the modules that use them |
| Mesh reader | `mesh.rs` | none | read | can fail, in `RunLifecycle` |
| Wind | `model.rs`, `solver.rs` | wind energy | source term | no |
| Command line, messages | `cli.rs`, `diagnostics.rs` | none | parse, print | exit code in `RunLifecycle` |
| Fortran program, vendored libraries | `src/src`, `third_party_open`, `utils_lgpl` | | | no |

What makes each component correct:

* *solver*: it changes no energy it is not to compute, lets energy travel only along
  upwind edges and Neumann links through wet nodes, and stops only when it is done;
  the number of records it leaves is one the time loop expects;
* *sort*: it loses no node, and the order it returns is wrong by no more than its
  tolerance explains;
* *time step*: a record holds the waves of its time, in the directions of its time,
  where there is water, and no leftovers of an earlier one;
* *output schedule*: every grid time is served once, by the first step close enough,
  whatever the ratio of interval and step, and the run ends;
* *boundary series*: the cursor never costs a row that a search would find;
* *geometry*: the ring around a node loses no edge; links and mask agree, and no
  chain of links closes; every boundary node is forced by the two support points
  nearest to it, weighted the right way round;
* *directional grid*: bins that are neighbours in the grid are neighbours on the
  circle, none comes twice, and the waves come from the middle;
* *observation points*: sorting, hunting and flags find what testing every point
  against every face would find;
* *run*: nothing on disk is touched without need, results are replaced only by
  results, and the exit code tells the truth;
* *file format*: header and data agree, and the readers understand the writer.

Everything runs in one thread. There is no interleaving to get wrong inside the
program; the behaviours that are hard are of another kind:

* **order dependence**: the solver updates in place, so a result depends on the
  order of the nodes, on the direction of the sweep, and on when a Neumann node is
  overwritten; the mask refinement tests a mask it is changing; the boundary nodes
  are listed twice and joined by position;
* **state kept between steps**: the cursor into the boundary series, the next
  output times, energies of Neumann nodes left from an earlier solve, arrays of
  results that are recomputed for wet nodes only, a convergence scale taken before a
  reset, nodes frozen for good, the hunt's cached place and the flags of a strip;
* **boundaries of numbers**: the seam of the circle of directions, a closeness of
  keys that is not transitive, grid times that fall between steps, one-row series,
  extrapolation beyond a series, ties between distances, padding and the 32-bit
  offsets of a file;
* **failure**: requests the operating system refuses, checks that come after
  directories were made, death between two steps, half-written files.

How the components act on each other:

* `HeapSort` gives the solver the orders of its four sweeps. That they are
  permutations is an assumption of `SweepSolver` and the theorem
  `EveryNodeIsVisited`.
* `DomainMask` produces `msk` and `neumannconnected`; the solver relies on two
  facts about them, that a link ends in a node of mask 3 and does not start in one
  of mask 2. They are an assumption of `SweepSolver` (`SweepAssumption`) and a
  theorem about `DomainMask` (`LinksAreConsistent`).
* `DomainPreparation` composes `DomainMask` and `BoundaryIndices`: the search runs
  for each node of the boundary as the finished mask has it.
* the solver reports how many iterations it saved; the time loop appends that many
  records to the map. Both modules EXTEND `IterationSaves`, whose `IterCounts`
  is the interface: `SavesMatchSchedule` shows that the solver keeps to it, and
  `OutputSchedule` is checked against every count it allows.
* `SurroundingRing` gives the upwind neighbours the solver sees as `mesh.up`, and the
  directions without any, which make a node open for `DomainMask`.
* `TimeStep` composes `BoundarySeries`, `ThetaGrid`, and a solve in one step that
  leaves what `SweepSolver` shows of one: waves where `DryNodesBlockWaves` lets them
  come (`Reached`), each wet node solved, each Neumann node the copy of its source.
* `OutputSchedule` collects the records that `RunLifecycle` writes; there the time
  loop is one step.

## 2. Modules

A definition has the name it has in the code where there is one, and
`PROJECT.json` gives the lines behind every definition. Each module also holds a
few *faulty variants*, operators named for a mistake (`SolveKeepingResults`,
`ShouldOutputExactly`): no specification uses them; replacing the right
operator by one makes the property named beside it in `PROJECT.json` fail.

**`SweepSolver`** - `compute_wave_field` and `solve_energy_balance2Dstat`.
`StartSweep` is the head of an iteration (`eeold` is stored at the first sweep of a
round), `Visit` is one turn of the node loop (skip, reset, compute, then the
Neumann copy), `EndSweep` is everything after the node loop: freezing, the new
`eemax`, stopping, saving. A node's spectrum is one energy level with 0 for "no
energy"; the tridiagonal system of a node is `mesh.response`, any function from the
largest incoming level to a level that maps 0 to 0 (no wind). Mesh, order of the
nodes in the four sweeps, wet nodes and the energy found on entry are all inputs, so
nothing depends on how the sort or the geometry arrive at them. Dropped: the memory
term `ee / dt` of the linear system (`dt` is 36000 s by default). Modules:
`SweepCases` builds meshes, `MCSweepSolver` enumerates them, `MCHeadland` is one.

**`HeapSort`** - `hpsort_eps_epw`: `Hire` and `Retire` are the two heads of a turn,
`RetireLast` the return, `Promote` and `Stay` a turn of the loop down the heap,
`Place` the store after it. Arrays start at 0. Keys are integers; `hslt` takes two
keys for equal when they are less than `Eps` apart.

**`TimeStep`** - one time step of `Model::run` without wind, as the five parts it
has: `UpdatePoints`, `MakeGrid`, `ForceSea`, `Solve`, `Advance`; the record is what
the arrays hold in between. A row of the series is a height, a period and a level;
levels and depths are fractions, in centimetres (`DryLimit` is the 1.1 * 0.1 m of
the solver), with a denominator of zero between rows of equal time, where the code
divides by zero. A spectrum is "calm" or has "waves". The results that stand for all
are the height `h`, the dissipation `dw` and the group velocity `cg`. As in the code,
`Solve` sets the results of all nodes to zero and computes those of wet nodes, heights
of the sea boundary too, so a dry node keeps nothing. Without a positive period `cg`
and `dw` are "undefined", while the maximum with `waveps` (`solver.rs:1559`), which
drops what is not a number, leaves the inner nodes "calm". Spectra and results carry
the time they belong to, spectra also the directions: a leftover would show.

**`OutputSchedule`** - one action per step of the loop body in its order: `Solve`
(with the per-iteration records), `HisOutput`, `MapOutput`, `AdvanceTime`, and
`Finish` when the loop condition fails. Times are integers, in ticks. The code adds
`f32` values widened to `f64`, sums of which are exact; what rounding leaves is that
an interval need not be a multiple of the time step, and the configurations
have intervals off by one tick. `OutputContract` is the abstract specification: it
has no memory of past outputs and says which steps write from their time
alone; `FollowsContract` says that the bookkeeping of `next_*_output` implements it.

**`BoundarySeries`** - `UpdateBoundaryPoints` is one call of
`update_boundary_points`, `AdvanceTime` the rest of the time step. All quantities of
a row are interpolated with one pair of rows, so the state is the pair. The scan is
stated as "the first row from the cursor at which `Stops` holds". The abstract
specification `BoundaryLookup` searches the whole series from its start
(`ImplementsLookup`).

**`ThetaGrid`** - `nint`, `mod2`, and the window of bins; `MakeThetaGrid` is the call
of a time step with any mean direction. Directions are integers with an even number
of units per bin, so halves are exact.

**`DomainMask`** - the loops of `compute_domain_geometry` that make the mask, one
action per turn: `Enclosure`, `Connect` (`neuboundaries`), `Refine`, `List`. Which
nodes are open, inside, or face each other are inputs; the arithmetic of polygons
and projections is not modelled.

**`BoundaryIndices`** - the one-pass search for the two nearest support points (one
action per point), then the weight as a pair of numbers.

**`DomainPreparation`** - the two together: `Mask` is any step of `DomainMask`,
`FindBoundaryIndices` the list of boundary nodes from its result, `StartSearch`,
`Search`, `Store` the search of a node, `TakeOnly` the branch for a single support
point.

**`SurroundingRing`** - for one node: `Collect` takes the edges of a cell (`EdgeEnds`,
for triangles and for the four positions of the node in a quadrilateral), `Begin`
starts the ring, `Extend`, `Prepend` and `Wipe` are the three outcomes of a turn of
the walk, `Upwind` is the search of `find_upwind_neighbours` in one direction. Which
edges the ray meets is an input. A cleared ring keeps its length, as in the code,
and `nploc` sees its zeros. When the ends of edges do not fit in `np` entries
the program panics, an outcome of `Collect`.

**`ObsMapping`** - `make_map_fm`: per face `HuntCentre` (two calls of `hunt`, strides
then bisection, from the cached places), `Flag` (the strip in x), `Pick` (the strip
in y, and the flags taken back), `Cover` (the test against the face, nodes and
weights). Which points a face covers and for which of them `bilin5` finds no weights
are inputs. `PointLocation` is the abstract specification: every point against every
face, the last one that covers it wins (`ImplementsPointLocation`).

**`RunLifecycle`** - `execute`: `ReadInputs`, `PrepareMap`, `PrepareHis`,
`LoadAndRun`, `WriteMap`, `FillMap`, `WriteHis`, `FillHis`. Any step that asks
the operating system for something may fail, `create_dir_all` may make the upper
directories and fail then, and `Die` ends the process before any step. `fs` maps
a path to what is there; `before` is what was there at the start and exists only
for the properties.

**`NetcdfLayout`** - `Writer::build` as the three loops it is: check the variables,
lay them out (fixed ones, then records), append the slabs (fixed, then record by
record). Sizes are numbers, contents are the identity of a byte: `ReadBack` is the
offset arithmetic of the readers applied to the image. Offsets are cut to `Word`,
which stands for 2^32; the properties speak of files it can address (`Fits`) and say
nothing of larger ones.

## 3. Runs

| Run | What it shows |
|---|---|
| `sweep_solver` | On every upwind relation of 4 nodes (with or without a dry node, a Neumann link whose source comes before or after its target, and energy left behind): the forcing is never changed, dry land blocks waves, a forward mesh is solved by the first sweep and declared converged within two rounds, a Neumann node follows its source, the saves agree with the schedule. |
| `sweep_solver_headland` | *violation*: a node that waves reach in the fifth sweep is frozen after the fourth. |
| `output_schedule` | No record is late, rounding within the tolerance moves none, map times increase, the bookkeeping implements the contract, the run ends. |
| `time_step` | The resumed scan brackets the time and finds what a full search finds; the window of directions is an arc around the waves; a record holds nothing of an earlier time, land has no waves and zero results, and group velocity and dissipation are numbers while the series covers the time. |
| `time_step_drying` | *violation*: a dry node is never masked in the map; it is recorded with the zero its results were set to. |
| `domain_preparation` | Links end in Neumann nodes and never start at the forcing, chains of links end, no Neumann node is without a source; the search finds the two nearest, ties included, the weight prefers the nearer; each boundary node gets the pair found for it. |
| `heap_sort` | No node is lost; the order is right where closeness of keys is transitive, and off by at most two tolerances per level of the heap where it is not; the sort ends. |
| `obs_mapping` | The hunt ends at the place of a face from any cached start; the candidates are the points of the box; the result is that of the brute-force search. |
| `surrounding_ring` | The ring passes every edge of the fan once or is cleared, and is never cleared for a proper fan, in any order and orientation of the cells; upwind neighbours are found in just the directions whose ray meets an edge. |
| `run_lifecycle` | Parents are ready, nothing needless is created, old results survive until replaced, exit code 0 means written, map and history are of one run. |
| `run_lifecycle_prepare` | *violation*: an accepted output path can be made a directory by the preparation of the other output. |
| `netcdf_layout` | Bytes are appended where the header says, and reading them back gives what was written. |

Every property of a passing run has a mutant in `PROJECT.json`, a change to the
modelled code that makes it fail under the same configuration. The type invariants
(`TypeOK`, `GridTypeOK`, `SearchTypeOK`, `RingTypeOK`, `ImageTypeOK`) are in the
modules and hold in these runs too; the configurations leave them out because they
find little, and the proofs of section 4 establish them for every value of the
constants.

### Bounds

* `SweepSolver`: 4 nodes, of which node 1 is the forcing. Any upwind relation on
  them (cycles too) times dry/linked/left-over cases; `niter` 6 and 9 stop in the
  middle of a round, and after convergence had its chance in two rounds (8). The
  first order of a case follows the waves, the second is a shuffle of it, the others
  are their reverses. Three levels of energy distinguish "some" from "more" and let a change
  be small or large against `1/CritDen`.
* `OutputSchedule`: 6 steps of 6 ticks; intervals 1, 4, 6, 7, 13, 31 and -1: several
  grid times in a step, one to one, drifting by a tick, two steps and a tick,
  longer than most of the run, disabled. Tolerance 0 and 2: the drift of a tick is
  absorbed for two records and then not.
* `TimeStep`: a row of nodes from the sea (1) over foreshore (2) and tidal flat (3) to
  land (4), and a Neumann node (5) that the flat feeds and that lies upwind of the
  land. All sorted columns of up to 4 rows over 5 times, equal times included; starts
  before and inside the series, steps 1 and 3 (skipping rows), an end beyond it; three
  courses of height, period and level (storm after calm, falling tide, dying swell).
  Least depths on both sides of the solver's limit. With the column 0, 4 every sector
  of every circle up to 6 bins and every direction in a half turn either way; with
  the others one grid, as columns and grids do not depend on each other.
* `DomainPreparation`: up to 3 facings of 4 nodes: chains, two sources of one target,
  links at the sea boundary, each with several support points and with one; and on
  the mesh without facings every sequence of 2 to 4 distances below `Huge`.
* `HeapSort`: every array of 1 to 6 keys from 0 to 5, three levels of the heap.
  `Eps` 2 is the least that is not transitive (0, 1, 2). The bound of
  `DisorderIsBounded` is attained in this instance.
* `ObsMapping`: up to 4 points, two faces of any extent in x, so that the second hunt
  starts from every place; ties in x, points on sides, points that both faces cover,
  faces that cover but part of their box, and faces without weights. Four points
  make a stride of 2 and a bisection of more than one turn.
* `SurroundingRing`: open and closed fans of up to 4 cells, triangles and
  quadrilaterals mixed, in every order; every orientation up to 3 cells (of 4 cells
  the even and the odd ones alike) and every position of the node in its face; and
  all sequences of up to 3 triangles over 4 neighbours, with fans that touch in the
  node only, repeated cells and three cells at an edge. `np` is 14, so that four
  quadrilaterals overflow it; a ray meets at most two edges.
* `RunLifecycle`: a tree of five paths of depth 3 in every state; outputs
  anywhere in it, also one below the other and both at one path.
* `NetcdfLayout`: up to 3 variables out of 12 (4 malformed), one unlimited dimension, and two
  for the refusal; `Word` is 36, so that layouts
  both fit and overflow. The header's size is a constant, 8.

`CHECK_DEADLOCK FALSE` appears where the modelled code ends: every one of these
programs returns.

### Fairness

Two liveness properties, both under `WF_vars(Next)`: `RunEnds` of the time loop and
`Terminates` of the sort. Both are sequential code in which no statement waits for
anything, so they always take their next step. Positive time steps are an assumption
(`ScheduleAssumption`): the reader does not check them, and the loop does not end
without.

## 4. Proofs

Each `*Proofs` module is checked by TLAPS for every value of the constants that
meets the assumptions named in the module it extends.

**`SweepSolverProofs`.** Assumption: `SweepAssumption` (the four orders are
permutations, links are as `DomainMask` leaves them, no response creates energy).
* `TypeCorrect`, `ForcingIsKept` and `SavesAreAsScheduled` follow from an inductive
  invariant `Typed`; the forcing is kept because a copy goes to a node of mask 3 only.
* `DryLandHolds`: "energy only in S" is inductive for any closed `S`, node by
  node, without any reference to the order of the sweeps.
* `FirstSweepSolves`: that every node is settled is not inductive. The invariant
  (`Solving`) says that during the first sweep all nodes at positions before `pos`
  are settled, that Neumann nodes whose single source was visited carry its
  energy, and that from the end of the first sweep on all are settled. The step
  that matters is a visit during the first sweep: whatever is upwind of the node
  was visited (`Forward`), so its level is final and the visit of a later node
  does not disturb it, a node being visited once in a sweep since the order is a
  permutation. Later visits recompute what is already there.
* `NeumannNodesFollow` uses the same argument on the copies of one sweep.
* `TwoRoundsSuffice`: a Neumann node may have several sources, so even when all
  nodes are settled the copies go on, and the energy of a Neumann node is that of
  whichever source came last. `FollowedLast` says so within a sweep, and `SecondRound`
  that the fourth sweep, whose order is the same in each round, leaves the same
  copy each time: at the end of the second round every energy is what it was at the
  end of the first, every change is zero, and the solve stops unless there are no
  waves at all, when the scale is zero too. Links must start at inner nodes: a
  chain of Neumann nodes takes a sweep per link.

**`HeapSortProofs`.** Assumption: `HeapAssumption` (integer keys, at least one node,
a tolerance that makes a key close to itself).
* `NoNodeIsLost`: `NothingIsLost` is the permutation invariant with a correction:
  while the node in hand has no place, the free place counts for it. With types and
  `UnderlingIsBelow` it is inductive; `EveryNodeIsVisited` is its last instance.
* `SortedWhereTransitive`, `DisorderHasABound`: the usual heap invariant, that no
  node comes before the one above it, is false here, as closeness is not transitive:
  the better of two underlings may be close to both its sibling and the key above,
  so a key may exceed the one above it by two tolerances (`Edge`). `Order` carries
  that along (`HeapOrder`, with the free place exempt while the loop looks down from
  it; `FreePlace`, its underlings against the place above it; `Retired`, what left
  the heap against what is still in it). A path from the root has at most `Depth`
  edges, which bounds what a retired key can be off by; the same invariant read with
  a transitive closeness says that nothing is.

**`TimeStepProofs`**, the series. Assumption: `SeriesAssumption` (time columns are
sorted). The invariant `SeriesInv` adds to the types that every row before the cursor
lies at or before the current time (`CursorBehindTime`), and that after an update the
row found is the first one after the time. It is needed since the code never looks
back: `RowsEncloseTime` alone does not survive a time step. `CursorImplementsLookup`
is the refinement: initial states map to initial states of `BoundaryLookup`, each
step to a step or a stutter.

**`TimeStepProofs`**, the step. Assumptions: those of the series, `StepAssumption`, and
`GridAssumption`. First `StepImplementsSeries`: a behaviour of the composition is one
of `BoundarySeries`, which gives `StepEnclosesTime` and `StepImplementsLookup`. The
invariant `StepInv` says what each statement has established when the next begins:
the grid is a window around some direction (`GridOfStep`), from the grid's statement
on around that of the time (`StepOfRun`), the depths are those of the row found
(`ForcingOfTime`), nodes that nothing computes, copies to or forces are still as at
the start (`SpectraOfNodes`), and after the solve every other spectrum is of this
time and every result is what this solve makes of it (`SolvedForTime`), which gives
`RecordIsOfItsTime` for dry and wet nodes alike. `LandIsDry` adds that a depth tells
land from water whatever the fraction (`DepthTellsLandFromSea`), `DispersionIsDefined`
that the rows found while the series covers the time make a positive period.
`DirectionsFormAnArc` and `WavesAreInTheSector` rest on lemmas about `mod2` and
`nint` for every number of bins.

**`OutputScheduleProofs`.** Assumption: `ScheduleAssumption` (time steps above twice
the tolerance, positive intervals for enabled outputs). The invariant `Scheduled`
gives `next_*_output` in closed form: the start plus `Due` intervals, `Due` being the
number of grid times that a finished check came within the tolerance of. Everything
else is read off it: that no output is late, and the refinement of `OutputContract`.
`MapTimesIncrease` needs to know where the last record lies relative to the current
step (`MapOrdered`). For `ToleranceAbsorbsRounding` the invariant `Absorbed` ties the
number of records to `Due` while the error of the next record is within the tolerance.

**`DomainPreparationProofs`.** Assumptions: `MaskAssumption` (the two nodes of a facing
differ), `IndexAssumption` (at least two support points, all nearer than `Huge`),
`PreparationAssumption` (each node has a distance to each support point) and
`FanAssumption` (the nodes of a face differ, and the node is one of them).
* The mask: the invariant relates the loop variable to mask and links: for nodes
  below `i`, a remaining link ends in a node of mask 3, and a chain of two remaining
  links descends, as a node with mask 3 at its turn loses its own link.
  `PreparationMakesMask` carries the results over to `DomainPreparation`.
* The search: the invariant says of the points looked at so far what the property
  says of all; the weight follows from the order of the distances. `EverySearchIsRight`
  needs that each search starts from scratch (`Searched`).
* `BoundaryIsForced`: that two lists can be joined by position is a fact about
  `Listing` (`ListingHolds`: the nodes of a mask value, each once, ascending) and
  about the mask, which does not change between the two listings. `Filled` says that
  each pair stored so far belongs to the node at its position.
* The ring: `HasRing` says that the edges the ring has passed and those still to
  come are together the edges of the fan, and as many as its cells have. In a proper
  fan no two edges are the same, so both lists name each once (`ListedOnce`, a
  surjection between sets of the same size). Hence the step that matters
  (`StuckIsImproper`): if neither end of the ring occurs among the edges left, no
  point of the ring does, one in the middle having its two edges already; the ring
  would then be cut off from the rest, and a proper fan hangs together. So a walk that
  is stuck was on a fan that is not proper. `WavesFindTheirWay` follows since a ring
  that is not cleared has passed every edge a ray can meet.

**`ObsMappingProofs`.** Assumption: `FacesAssumption` (faces have an extent, what a
face covers lies in its box). `HuntFindsTheCentre` is about `hunt` in arrays of any
length, from any cached place: strides up or down keep the centre on the right side of
the lower end (`StrideUp`, `StrideDown` and `Bisect` are recursive functions over
brackets, and the induction is on the width of the bracket). The place found
is not unique where coordinates are equal; that the points picked are nevertheless
those of the box (`BoxIsSearched`) needs only that everything before the place is not
to the right of the centre and everything after it not to the left (`Placed`). The
invariant `Search` adds that between flagging and picking just the strip in x is
flagged, and at any other moment nothing. With it each turn of the face loop is a step
of `PointLocation` or leaves its variables alone (`RefinesPointLocation`).

**`OutputFilesProofs`**, the run. Assumption: `PathsAssumption` (the paths explored
are closed under parents). The invariant has the shape of the tree (what exists lies
in directories), what a phase may rely on (`Running`: a file being filled is no
directory; `MapReady`: once the map's turn in `prepare` is over its parent exists and
stays), and the order of the writes (`MapDone`, `HisIsLast`), without which
`SuccessMeansWritten` and `ResultsOfOneRun` do not survive a step. `OldResultsSurvive`
is the action property: a file may change only in the steps that write.

**`OutputFilesProofs`**, the file. Assumptions: `FilesAssumption` (what the types of
`Writer` allow), `HeaderAssumption`, `WordAssumption` (header and word are multiples
of four). Each slab has a place that follows from the sizes of the slabs before it
(partial sums, `FixedBegin`, `RecordBegin`). The invariant `BuildInv` says that the
layout pass computes this place (`LaidOutSoFar`), that the data appended so far ends
where the next slab's place is (`Appended`), and that every byte appended is at its
place (`InPlace`). `FileReadsBack` then needs that the words of the header are what
the layout computed: offsets are cut to `Word`, and `Fits` makes the cut an identity
for the last offset, hence for all of them, as places grow.

**`RecursionFacts`.** The library's induction theorems take an operator as a
parameter, which the provers cannot instantiate. These lemmas say the same in first
order: a non-empty set of numbers has a least element (`LeastNumber`), and an
equation in which the value at an argument depends on values at smaller ones has
a solution (`RecursiveFunction`). The proofs about heap depth, hunt, lists and partial
sums are by least counterexample. This is also why the recursive definitions of
`HeapSort`, `ObsMapping`, `DomainMask` and `NetcdfLayout` are functions.

| Theorem | Says |
|---|---|
| `SweepSolverProofs`: `TypeCorrect`, `ForcingIsKept`, `DryLandHolds`, `FirstSweepSolves`, `NeumannNodesFollow`, `SavesAreAsScheduled`, `TwoRoundsSuffice` | types, and all six properties of `sweep_solver` |
| `OutputScheduleProofs`: `TypeCorrect`, `OutputsAreOnTime`, `RoundingIsAbsorbed`, `TimeAxisIncreases`, `ScheduleKeepsContract` | types, and all of `output_schedule` but `RunEnds` |
| `TimeStepProofs`: `CursorIsSafe`, `InterpolationEnclosesTime`, `EndsAreExtrapolated`, `CursorImplementsLookup` | the series on its own (`BoundarySeries`): types with the cursor's invariant, the rows used inside and outside the series, and the refinement |
| `TimeStepProofs`: `StepImplementsSeries`, `StepEnclosesTime`, `StepImplementsLookup`, `DirectionsFormAnArc`, `WavesAreInTheSector`, `RecordIsOfItsTime`, `LandIsDry`, `DispersionIsDefined` | all properties of `time_step` |
| `DomainPreparationProofs`: `LinksAreConsistent`, `ChainsEnd`, `NeumannNodesHaveSources`, `PreparationMakesMask` | the three invariants of the mask, and the refinement |
| `DomainPreparationProofs`: `SearchIsRight`, `EverySearchIsRight`, `WeightsAreRight`, `BoundaryIsForced` | the invariants of the search, on its own and for every boundary node, and those of what it leaves |
| `DomainPreparationProofs`: `RingIsTyped`, `RingIsWhole`, `WavesFindTheirWay` | types, and both properties of `surrounding_ring` |
| `HeapSortProofs`: `NoNodeIsLost`, `EveryNodeIsVisited`, `SortedWhereTransitive`, `DisorderHasABound` | the sort returns a permutation, and all of `heap_sort` but `Terminates` |
| `ObsMappingProofs`: `TypeInvariant`, `HuntFindsTheCentre`, `BoxIsSearched`, `RefinesPointLocation` | types, and all properties of `obs_mapping` |
| `OutputFilesProofs`: `TypeCorrect`, `OutputsHaveTheirDirectories`, `NoStrayDirectory`, `SuccessIsWhole`, `ResultsBelongTogether`, `OldResultsSurvive` | types, and all properties of `run_lifecycle` |
| `OutputFilesProofs`: `ImageIsTyped`, `PassesAgree`, `FileReadsBack` | types, and both properties of `netcdf_layout` |

Every safety property of the passing runs is stated by a theorem. Model-checked only:
`RunEnds` and `Terminates`, which are liveness under fairness and out of the provers'
reach. The three violations are counterexamples and stay with TLC. What the proofs do
not cover is the step from one module to another that is an assumption of the second:
that the orders, links and upwind neighbours `SweepAssumption` asks for come from the
sort, the mask and the ring is argued in section 1 and not proved as a composition.

## 5. Findings

* **Dry nodes are not masked** (`model.rs:1106`): the comment above speaks of a fill
  mask "`where (depth < hmin)`", and `output.rs:11` counts it among what the map
  values include. Depths are floored at `hmin` when they are made
  (`model.rs:645`, `691`), so the condition never holds and no node gets the fill
  value. The solver sets the results of all nodes to zero and computes those of wet
  nodes: a dry node is recorded with zero energy and with the direction of
  `thetam = 0`, 270 degrees. It does not keep results of an earlier time step
  (`RecordsAreOfOneTime`).
* **Prepared paths** (`paths.rs:153`): `prepare` is to reject outputs that are
  directories. A map path that does not exist is accepted, and then made a
  directory if the history is to go below it; the run fails when it writes.
* **Frozen nodes** (`solver.rs:1686`): a node is taken for converged when it did not
  change over a round, also if waves have not reached it yet. Behind a headland
  they need more than four sweeps, the node is frozen dry and stays so.

Two further disagreements between code and comments turned out harmless. Links are
documented as starting at inner points (`geometry.rs:689`), but a source can become a
Neumann node after its link was kept; chains end (`ChainsDescend`), so the effect is
a copy of a copy, a sweep late. And where coordinates are equal the place `hunt` ends
at depends on where it started, which `interp.rs:203` says it does not; the loops
that go on from there find the same points (`CandidatesAreTheBox`).

## 6. Not modelled

The definitions are translated from 13 of the Rust sources under `src/src_rust`, about
3300 of their lines. No C or Fortran file is modelled: the C sources of the repository are
vendored libraries (`src/third_party_open`: Triangle, NetCDF, mexnc) of the retired build,
which the program does not contain, so no line of C is mapped; and the Fortran is kept
as a numerical oracle.

* The physics: dispersion, breaking, friction, vegetation. They are
  floating-point functions without control of their own and appear as
  `mesh.response`.
* Wind: `update_wind_field` does not depend on time, and the wind branch of the solver
  carries a second energy array through the same control.
* Geometry of polygons, projections, upwind intersections, the plane fit, point in
  polygon and `bilin5`: inputs of the modules that use the result.
* Parsers of text, keywords, dates and meshes: they either fail (`RunLifecycle`) or
  give values, and what they do not check is an assumption of the module that
  needs it (sorted times, positive steps).
* In `TimeStep` a solve is one step. Nodes that `SweepSolver` shows frozen too early
  carry waves in `TimeStep`; the properties checked there do not tell the two apart.
* Names, attributes and byte order in NetCDF files; the CDF-2 branch of the reader.
* Legacy Fortran code and vendored libraries.

## 7. Plan

Done: the modules of section 2, in the order solver, schedule, series, mask, run,
theta grid, support points, file layout, surrounding ring, sort, time step, domain
preparation, observation points; and the proofs of section 4.

Left, in this order:

1. Open nodes of `DomainMask` from `SurroundingRing` and `UpwindCovers`, in place of
   an input of `DomainPreparation`.
2. `TextInputs` (`text_input.rs` 424-536): the five boundary files that share one
   time column.
3. The CDF-2 branch of the reader in `NetcdfLayout`, and the dimensions of length 0
   that the reader takes for the unlimited one.
4. The assumptions of one module as theorems about another: `SweepAssumption` from
   the sort and the mask, the interface of section 1.

## 8. Running it

`tlc -config X.cfg M` and `tlapm M.tla` for the pairs listed under `runs` and
`theorems` in `PROJECT.json`. The longest runs, about a million states, take a few
minutes; the longest proofs, of two to three minutes, are `OutputFilesProofs` and
`DomainPreparationProofs`.
