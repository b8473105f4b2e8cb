---------------------------- MODULE SweepSolver ----------------------------
(***************************************************************************)
(* One stationary solve: the initialisation of compute_wave_field and the  *)
(* control of solve_energy_balance2Dstat (src_rust/solver.rs), the four    *)
(* sweep directions, the freezing of converged nodes, the copies onto      *)
(* Neumann nodes, the stopping test and the per-iteration saves.           *)
(*                                                                         *)
(* Data.  The decisions of the loop are made per node, so the directional  *)
(* spectrum of a node is one energy level, 0 standing for waveps and less. *)
(* The tridiagonal solve of a node is a function of the level upwind of it *)
(* (mesh.response: dissipation, refraction, shoaling).  The memory term    *)
(* ee / dt of that solve is dropped: dt is 36000 s by default, against the *)
(* seconds a wave takes between two nodes.                                 *)
(*                                                                         *)
(* Faulty variants, used only to show that the properties notice the       *)
(* mistake: NewRoundOnce, VisitedUnmasked, VisitedDry, CopiedWhenComputed, *)
(* ReversedOrder and SavedBeforeTest.                                      *)
(***************************************************************************)
EXTENDS Integers, Sequences, FiniteSetsExt, IterationSaves

CONSTANTS
  N,         \* number of nodes
  MaxLevel,  \* largest energy level
  CritDen,   \* 1 / crit: a change is small below eemax / CritDen
  Meshes     \* the cases explored, records of the type Mesh

Nodes == 1 .. N
Levels == 0 .. MaxLevel
Sweeps == 1 .. 4

Permutation(s) ==
  /\ s \in [Nodes -> Nodes]
  /\ \A k \in Nodes : \E i \in Nodes : s[i] = k
  /\ \A i, j \in Nodes : s[i] = s[j] => i = j

(* msk, conn: the result of DomainMask.  order: the nodes sorted along the *)
(* mean wave direction, across it both ways, and against it.  carried: the *)
(* energy found in ee on entry, the forcing at sea boundary nodes.         *)
Mesh ==
  [msk : [Nodes -> {1, 2, 3}], conn : [Nodes -> 0 .. N],
   order : [Sweeps -> [Nodes -> Nodes]], up : [Nodes -> SUBSET Nodes],
   wet : SUBSET Nodes, response : [Nodes -> [Levels -> Levels]],
   carried : [Nodes -> Levels], restart : BOOLEAN, niter : Nat]

ASSUME SweepAssumption ==
  /\ N \in Nat \ {0} /\ MaxLevel \in Nat \ {0} /\ CritDen \in Nat \ {0}
  /\ Meshes \subseteq Mesh
  /\ \A m \in Meshes :
       /\ \A s \in Sweeps : Permutation(m.order[s])
       /\ \A k \in Nodes : m.conn[k] # 0 => m.msk[m.conn[k]] = 3 /\ m.msk[k] # 2
       /\ \A k \in Nodes : m.response[k][0] = 0   \* no wind

VARIABLES
  mesh,    \* the case being solved
  ee,      \* energy of every node
  eeold,   \* its value at the start of the round of four sweeps
  eemax,   \* scale of the convergence test, of the previous round
  ok,      \* the nodes taken for fully iterated
  iter,    \* iteration, from 1
  pos,     \* position in the order of the sweep; N + 1 when it is over
  saved,   \* iterations saved for the map (ja_save_each_iter = 1)
  done

vars == <<mesh, ee, eeold, eemax, ok, iter, pos, saved, done>>

Sweep == IF iter % 4 = 0 THEN 4 ELSE iter % 4
MaxOf(e) == Max({e[k] : k \in Nodes} \union {0})
Inner(k) == mesh.msk[k] = 1

(* compute_wave_field and the boundary block reset every inner node to     *)
(* waveps, restart or not, but the scale eemax is taken between the two,   *)
(* so that after a restart it still is the one of the earlier solve.       *)
Initial(m) == [k \in Nodes |-> IF m.msk[k] = 1 THEN 0 ELSE m.carried[k]]

Init ==
  /\ mesh \in Meshes
  /\ ee = Initial(mesh)
  /\ eeold = [k \in Nodes |-> 0]
  /\ eemax = MaxOf(IF mesh.restart THEN mesh.carried ELSE ee)
  /\ ok = {}
  /\ iter = 1
  /\ pos = 0
  /\ saved = 0
  /\ done = (mesh.niter = 0)

(* The head of an iteration: the first sweep of a round keeps the state.   *)
NewRoundOnce == iter = 1
NewRound == Sweep = 1

StartSweep ==
  /\ ~ done
  /\ pos = 0
  /\ eeold' = IF NewRound THEN ee ELSE eeold
  /\ pos' = 1
  /\ UNCHANGED <<mesh, ee, eemax, ok, iter, saved, done>>

Incoming(e, k) == MaxOf([j \in Nodes |-> IF j \in mesh.up[k] THEN e[j] ELSE 0])
Transported(e, k) == mesh.response[k][Incoming(e, k)]

(* The energy of node k when its turn comes, frozen nodes being skipped.   *)
VisitedUnmasked(k) ==
  IF k \in mesh.wet \ ok THEN Transported(ee, k) ELSE ee[k]
VisitedDry(k) == IF Inner(k) /\ k \notin ok THEN Transported(ee, k) ELSE ee[k]
Visited(k) ==
  CASE ~ Inner(k)                         -> ee[k]
    [] Inner(k) /\ k \notin mesh.wet      -> 0
    [] Inner(k) /\ k \in mesh.wet \ ok    -> Transported(ee, k)
    [] Inner(k) /\ k \in mesh.wet \cap ok -> ee[k]

(* The copy onto the connected Neumann node, made for a frozen or dry      *)
(* source too.                                                             *)
CopiedWhenComputed(e, k) ==
  IF mesh.conn[k] # 0 /\ k \in mesh.wet \ ok
  THEN [e EXCEPT ![mesh.conn[k]] = e[k]] ELSE e
Copied(e, k) ==
  IF mesh.conn[k] # 0 THEN [e EXCEPT ![mesh.conn[k]] = e[k]] ELSE e

ReversedOrder(s) == mesh.order[5 - s]
Order(s) == mesh.order[s]

Visit ==
  /\ ~ done
  /\ pos \in Nodes
  /\ LET k == Order(Sweep)[pos] IN
       ee' = Copied([ee EXCEPT ![k] = Visited(k)], k)
  /\ pos' = pos + 1
  /\ UNCHANGED <<mesh, eeold, eemax, ok, iter, saved, done>>

Change(k) == IF ee[k] < eeold[k] THEN eeold[k] - ee[k] ELSE ee[k] - eeold[k]
Small(change, scale) == change * CritDen < scale

(* The end of an iteration.  After the fourth sweep the nodes that changed *)
(* little, on the scale of the previous round, are frozen for good; the    *)
(* loop is left, before the save, when no change is large on the new one.  *)
Stopping == Sweep = 4 /\ Small(MaxOf([k \in Nodes |-> Change(k)]), MaxOf(ee))

Leaving == Stopping \/ iter = mesh.niter

SavedBeforeTest == saved + 1
Saved == IF Stopping THEN saved ELSE saved + 1

EndSweep ==
  /\ ~ done
  /\ pos = N + 1
  /\ IF Sweep = 4
     THEN /\ ok' = ok \union {k \in Nodes : Small(Change(k), eemax)}
          /\ eemax' = MaxOf(ee)
     ELSE UNCHANGED <<ok, eemax>>
  /\ saved' = Saved
  /\ done' = Leaving
  /\ iter' = IF done' THEN iter ELSE iter + 1
  /\ pos' = 0
  /\ UNCHANGED <<mesh, ee, eeold>>

Next == StartSweep \/ Visit \/ EndSweep

Spec == Init /\ [][Next]_vars
-----------------------------------------------------------------------------
TypeOK ==
  /\ mesh \in Mesh
  /\ ee \in [Nodes -> Levels]
  /\ eeold \in [Nodes -> Levels]
  /\ eemax \in Levels
  /\ ok \subseteq Nodes
  /\ iter \in 1 .. (IF mesh.niter = 0 THEN 1 ELSE mesh.niter)
  /\ pos \in 0 .. (N + 1)
  /\ saved \in 0 .. mesh.niter
  /\ done \in BOOLEAN

(* The forcing stands: the solver reads the energy of sea boundary nodes   *)
(* and nothing it does, the Neumann copies included, changes it.           *)
ForcingStands ==
  \A k \in Nodes : mesh.msk[k] = 2 => ee[k] = mesh.carried[k]

(* Waves do not cross dry land.  S is a set of nodes that energy cannot    *)
(* leave: it has every source, and every wet node or Neumann node it feeds *)
(* is in it.  Whatever the order of the sweeps, there is energy only in S. *)
Closed(S) ==
  /\ \A k \in Nodes : ~ Inner(k) /\ mesh.carried[k] > 0 => k \in S
  /\ \A k \in mesh.wet : Inner(k) /\ mesh.up[k] \cap S # {} => k \in S
  /\ \A k \in S : mesh.conn[k] # 0 => mesh.conn[k] \in S
DryNodesBlockWaves ==
  \A S \in SUBSET Nodes : Closed(S) => {k \in Nodes : ee[k] > 0} \subseteq S

(* A mesh is forward when all directions computed lie within a quarter     *)
(* turn of the mean one: the first sweep meets what is upwind of a node,   *)
(* and what feeds a Neumann node upwind of it, before the node.            *)
Before(j, k) ==
  \E p, q \in Nodes : p < q /\ mesh.order[1][p] = j /\ mesh.order[1][q] = k
Sources(j) == {i \in Nodes : mesh.conn[i] = j}
Forward ==
  \A k \in mesh.wet : Inner(k) =>
    \A j \in mesh.up[k] :
      IF mesh.msk[j] = 3
      THEN \E i \in Nodes : Sources(j) = {i} /\ Inner(i) /\ Before(i, k)
      ELSE Before(j, k)

(* The equation of node k holds with the energies as they are.             *)
Settled(k) == Inner(k) /\ k \in mesh.wet => ee[k] = Transported(ee, k)

(* On a forward mesh one sweep solves the problem, from whatever energy    *)
(* the Neumann nodes were left with, and the later sweeps in the three     *)
(* other orders, the copies and the freezing of nodes do not undo it.      *)
SettledAfterFirstSweep ==
  Forward /\ (iter > 1 \/ pos = N + 1) => \A k \in Nodes : Settled(k)

(* ... and the solver notices: the second round changes nothing and ends   *)
(* the iteration, if there is any energy.  A link that starts at a Neumann *)
(* node is another matter, as a copy of a copy may be a sweep late.        *)
LinksStartInside == \A k \in Nodes : mesh.conn[k] # 0 => Inner(k)
ConvergesInTwoRounds ==
  Forward /\ LinksStartInside /\ done /\ MaxOf(ee) > 0 => iter <= 8

(* Between sweeps a Neumann node with one source, an inner node, carries   *)
(* what its source carries: frozen sources are still copied.               *)
NeumannFollowsSource ==
  pos = N + 1 => \A i, j \in Nodes :
    Sources(j) = {i} /\ Inner(i) => ee[j] = ee[i]

(* The number of iterations saved is one the output schedule expects.      *)
SavesMatchSchedule == done => saved \in IterCounts(mesh.niter)

(* "Only perform computations on wet inner points not yet converged": a    *)
(* node left out of the computation satisfies its equation, up to the      *)
(* relative change below which nodes count as converged.                   *)
FrozenNodesAreSettled ==
  done => \A k \in ok :
    LET residual == IF ee[k] < Transported(ee, k)
                    THEN Transported(ee, k) - ee[k] ELSE ee[k] - Transported(ee, k)
    IN Inner(k) /\ k \in mesh.wet => residual = 0 \/ Small(residual, MaxOf(ee))
=============================================================================
