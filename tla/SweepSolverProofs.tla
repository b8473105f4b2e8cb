------------------------- MODULE SweepSolverProofs -------------------------
(***************************************************************************)
(* What SweepSolver keeps on every mesh, for every number of nodes, level  *)
(* and sweep order: the forcing, the land mask, and on forward meshes the  *)
(* solution found by the first sweep.                                      *)
(***************************************************************************)
EXTENDS SweepSolver, RecursionFacts, TLAPS

LEMMA MeshFacts ==
  ASSUME mesh \in Meshes
  PROVE  /\ mesh \in Mesh
         /\ mesh.msk \in [Nodes -> {1, 2, 3}]
         /\ mesh.conn \in [Nodes -> 0 .. N]
         /\ mesh.order \in [Sweeps -> [Nodes -> Nodes]]
         /\ mesh.up \in [Nodes -> SUBSET Nodes]
         /\ mesh.wet \subseteq Nodes
         /\ mesh.response \in [Nodes -> [Levels -> Levels]]
         /\ mesh.carried \in [Nodes -> Levels]
         /\ mesh.niter \in Nat
         /\ \A s \in Sweeps : Permutation(mesh.order[s])
         /\ \A k \in Nodes : mesh.conn[k] # 0 =>
              mesh.conn[k] \in Nodes /\ mesh.msk[mesh.conn[k]] = 3 /\ mesh.msk[k] # 2
         /\ \A k \in Nodes : mesh.response[k][0] = 0
<1>1. mesh \in Mesh
  BY SweepAssumption
<1>2. /\ \A s \in Sweeps : Permutation(mesh.order[s])
      /\ \A k \in Nodes : mesh.conn[k] # 0 => mesh.msk[mesh.conn[k]] = 3 /\ mesh.msk[k] # 2
      /\ \A k \in Nodes : mesh.response[k][0] = 0
  BY SweepAssumption
<1>3. mesh.conn \in [Nodes -> 0 .. N]
  BY <1>1 DEF Mesh
<1>4. \A k \in Nodes : mesh.conn[k] # 0 => mesh.conn[k] \in Nodes
  BY <1>3, SweepAssumption DEF Nodes
<1> QED BY <1>1, <1>2, <1>3, <1>4 DEF Mesh

LEMMA MaxLevels ==
  ASSUME NEW T \in SUBSET Levels, T # {}
  PROVE  Max(T) \in T /\ \A y \in T : Max(T) >= y
BY HasMax, SweepAssumption DEF Levels, Max

LEMMA MaxOfLevels ==
  ASSUME NEW e \in [Nodes -> Levels]
  PROVE  /\ MaxOf(e) \in Levels
         /\ \A k \in Nodes : e[k] <= MaxOf(e)
         /\ MaxOf(e) # 0 => \E k \in Nodes : e[k] = MaxOf(e)
<1> DEFINE T == {e[k] : k \in Nodes} \union {0}
<1>1. T \in SUBSET Levels /\ T # {}
  BY SweepAssumption DEF Levels
<1>2. Max(T) \in T /\ \A y \in T : Max(T) >= y
  BY <1>1, MaxLevels
<1>3. \A k \in Nodes : e[k] \in T
  OBVIOUS
<1>4. \A y \in T : y \in Int
  BY <1>1 DEF Levels
<1> QED BY <1>1, <1>2, <1>3, <1>4 DEF MaxOf

(* The energy coming in is zero unless some upwind node has some.          *)
LEMMA IncomingLevels ==
  ASSUME NEW e \in [Nodes -> Levels], NEW k \in Nodes, mesh \in Meshes
  PROVE  /\ Incoming(e, k) \in Levels
         /\ Incoming(e, k) # 0 => \E j \in mesh.up[k] : e[j] > 0
<1> DEFINE f == [j \in Nodes |-> IF j \in mesh.up[k] THEN e[j] ELSE 0]
<1>1. f \in [Nodes -> Levels]
  BY SweepAssumption DEF Levels
<1>2. Incoming(e, k) = MaxOf(f)
  BY DEF Incoming
<1>3. MaxOf(f) \in Levels /\ (MaxOf(f) # 0 => \E j \in Nodes : f[j] = MaxOf(f))
  BY <1>1, MaxOfLevels
<1>4. ASSUME MaxOf(f) # 0 PROVE \E j \in mesh.up[k] : e[j] > 0
  <2>1. PICK j \in Nodes : f[j] = MaxOf(f)
    BY <1>3, <1>4
  <2>2. j \in mesh.up[k] /\ e[j] = MaxOf(f)
    BY <1>4, <2>1
  <2> QED BY <1>3, <1>4, <2>2 DEF Levels
<1> QED BY <1>2, <1>3, <1>4

LEMMA TransportedLevels ==
  ASSUME NEW e \in [Nodes -> Levels], NEW k \in Nodes, mesh \in Meshes
  PROVE  /\ Transported(e, k) \in Levels
         /\ Transported(e, k) # 0 => \E j \in mesh.up[k] : e[j] > 0
BY IncomingLevels, MeshFacts DEF Transported

-----------------------------------------------------------------------------
(* The type invariant.  An iteration under way has saved all before it.    *)
Counting == ~ done => iter = saved + 1 /\ iter <= mesh.niter
Typed == mesh \in Meshes /\ TypeOK /\ Counting

LEMMA SweepType == Typed => Sweep \in Sweeps
BY MeshFacts DEF Typed, TypeOK, Sweep, Sweeps

LEMMA VisitedLevels ==
  ASSUME Typed, NEW k \in Nodes
  PROVE  Visited(k) \in Levels
<1>1. mesh \in Meshes /\ ee \in [Nodes -> Levels]
  BY DEF Typed, TypeOK
<1>2. Transported(ee, k) \in Levels /\ 0 \in Levels /\ ee[k] \in Levels
  BY <1>1, TransportedLevels, SweepAssumption DEF Levels
<1> QED BY <1>2 DEF Visited

LEMMA CopiedLevels ==
  ASSUME NEW e \in [Nodes -> Levels], NEW k \in Nodes, mesh \in Meshes
  PROVE  /\ Copied(e, k) \in [Nodes -> Levels]
         /\ \A j \in Nodes : j # mesh.conn[k] => Copied(e, k)[j] = e[j]
         /\ mesh.conn[k] # 0 => Copied(e, k)[mesh.conn[k]] = e[k]
BY MeshFacts DEF Copied

(* A visit computes one node of the order and copies it.                   *)
LEMMA VisitStep ==
  ASSUME Typed, Visit
  PROVE  \E k \in Nodes :
           /\ k = Order(Sweep)[pos]
           /\ ee' \in [Nodes -> Levels]
           /\ \A j \in Nodes : j # k /\ j # mesh.conn[k] => ee'[j] = ee[j]
           /\ ee'[k] = Visited(k)
           /\ mesh.conn[k] # 0 => mesh.conn[k] \in Nodes /\ ee'[mesh.conn[k]] = Visited(k)
<1>1. mesh \in Meshes /\ ee \in [Nodes -> Levels] /\ Sweep \in Sweeps /\ pos \in Nodes
  BY SweepType DEF Typed, TypeOK, Visit
<1>2. PICK k \in Nodes : k = Order(Sweep)[pos]
  BY <1>1, MeshFacts DEF Order
<1> DEFINE e == [ee EXCEPT ![k] = Visited(k)]
<1>3. e \in [Nodes -> Levels] /\ e[k] = Visited(k) /\ \A j \in Nodes : j # k => e[j] = ee[j]
  BY <1>1, VisitedLevels
<1>4. ee' = Copied(e, k)
  BY <1>2 DEF Visit
<1>5. /\ ee' \in [Nodes -> Levels]
      /\ \A j \in Nodes : j # mesh.conn[k] => ee'[j] = e[j]
      /\ mesh.conn[k] # 0 => ee'[mesh.conn[k]] = e[k]
  BY <1>1, <1>3, <1>4, CopiedLevels
<1>6. mesh.conn[k] # 0 => mesh.conn[k] \in Nodes
  BY <1>1, MeshFacts
<1> DEFINE after == ee'
<1>7. after[k] = Visited(k)
  <2>1. k # 0
    BY SweepAssumption DEF Nodes
  <2> HIDE DEF e
  <2> QED BY <1>3, <1>5, <2>1
<1> QED BY <1>2, <1>3, <1>5, <1>6, <1>7

LEMMA InitialLevels ==
  ASSUME mesh \in Meshes
  PROVE  Initial(mesh) \in [Nodes -> Levels]
<1>1. 0 \in Levels
  BY SweepAssumption DEF Levels
<1> QED BY <1>1, MeshFacts DEF Initial

LEMMA TypedInit == Init => Typed
<1> SUFFICES ASSUME Init PROVE Typed
  OBVIOUS
<1>1. mesh \in Meshes /\ mesh \in Mesh /\ mesh.niter \in Nat /\ mesh.carried \in [Nodes -> Levels]
  BY MeshFacts DEF Init
<1>2. 0 \in Levels /\ 0 \in 0 .. (N + 1)
  BY SweepAssumption DEF Levels
<1>3. ee \in [Nodes -> Levels] /\ eeold \in [Nodes -> Levels]
  BY <1>1, <1>2, InitialLevels DEF Init
<1>4. eemax \in Levels
  BY <1>1, <1>3, MaxOfLevels DEF Init
<1>5. iter \in 1 .. (IF mesh.niter = 0 THEN 1 ELSE mesh.niter) /\ saved \in 0 .. mesh.niter
  BY <1>1 DEF Init
<1>6. ok \subseteq Nodes /\ pos \in 0 .. (N + 1) /\ done \in BOOLEAN
  BY <1>2, Zenon DEF Init
<1>7. Counting
  <2>1. done <=> mesh.niter = 0
    BY Zenon DEF Init
  <2>2. iter = 1 /\ saved = 0
    BY DEF Init
  <2> QED BY <1>1, <2>1, <2>2 DEF Counting
<1> QED BY <1>1, <1>3, <1>4, <1>5, <1>6, <1>7 DEF Typed, TypeOK

LEMMA TypedNext == Typed /\ [Next]_vars => Typed'
<1> SUFFICES ASSUME Typed, [Next]_vars PROVE Typed'
  OBVIOUS
<1>0. /\ mesh \in Meshes /\ mesh.niter \in Nat /\ N \in Nat \ {0}
      /\ ee \in [Nodes -> Levels] /\ eeold \in [Nodes -> Levels]
      /\ eemax \in Levels /\ ok \subseteq Nodes /\ pos \in 0 .. (N + 1)
      /\ iter \in 1 .. (IF mesh.niter = 0 THEN 1 ELSE mesh.niter)
      /\ saved \in 0 .. mesh.niter /\ done \in BOOLEAN
  BY MeshFacts, SweepAssumption DEF Typed, TypeOK
<1>1. CASE StartSweep
  <2>1. UNCHANGED <<mesh, ee, eemax, ok, iter, saved, done>> /\ pos' = 1
    BY <1>1 DEF StartSweep
  <2>2. eeold' \in [Nodes -> Levels]
    BY <1>0, <1>1 DEF StartSweep
  <2>3. pos' \in 0 .. (N + 1)
    BY <1>0, <2>1
  <2> QED BY <2>1, <2>2, <2>3 DEF Typed, TypeOK, Counting
<1>2. CASE Visit
  <2>1. UNCHANGED <<mesh, eeold, eemax, ok, iter, saved, done>> /\ pos' = pos + 1 /\ pos \in Nodes
    BY <1>2 DEF Visit
  <2>2. ee' \in [Nodes -> Levels]
    BY <1>2, VisitStep
  <2>3. pos' \in 0 .. (N + 1)
    BY <1>0, <2>1 DEF Nodes
  <2> QED BY <2>1, <2>2, <2>3 DEF Typed, TypeOK, Counting
<1>3. CASE EndSweep
  <2>1. UNCHANGED <<mesh, ee, eeold>> /\ pos' = 0 /\ ~ done
    BY <1>3 DEF EndSweep
  <2>2. eemax' \in Levels /\ ok' \subseteq Nodes
    BY <1>0, <1>3, MaxOfLevels DEF EndSweep
  <2>3. iter = saved + 1 /\ iter <= mesh.niter
    BY <2>1 DEF Typed, Counting
  <2>4. saved' \in 0 .. mesh.niter /\ (saved' = saved \/ saved' = saved + 1)
    BY <1>0, <1>3, <2>3 DEF EndSweep, Saved
  <2>5. done' \in BOOLEAN
    BY <1>3, Zenon DEF EndSweep, Leaving, Stopping, Small
  <2>6. CASE done'
    <3>1. iter' = iter
      BY <1>3, <2>6 DEF EndSweep
    <3> QED BY <1>0, <2>1, <2>2, <2>4, <2>5, <2>6, <3>1 DEF Typed, TypeOK, Counting
  <2>7. CASE ~ done'
    <3>1. iter' = iter + 1 /\ ~ Stopping /\ iter # mesh.niter
      BY <1>3, <2>7 DEF EndSweep, Leaving
    <3>2. saved' = saved + 1
      BY <1>3, <3>1 DEF EndSweep, Saved
    <3>3. iter' \in 1 .. (IF mesh'.niter = 0 THEN 1 ELSE mesh'.niter)
      BY <1>0, <2>1, <2>3, <3>1
    <3>4. Counting'
      BY <1>0, <2>1, <2>3, <3>1, <3>2 DEF Counting
    <3> QED BY <1>0, <2>1, <2>2, <2>4, <2>5, <3>3, <3>4 DEF Typed, TypeOK
  <2> QED BY <2>6, <2>7
<1>4. CASE UNCHANGED vars
  BY <1>4 DEF vars, Typed, TypeOK, Counting
<1> QED BY <1>1, <1>2, <1>3, <1>4 DEF Next

LEMMA Typing == Spec => []Typed
BY TypedInit, TypedNext, PTL DEF Spec

(* The solver state stays well-formed and the number of saves never        *)
(* exceeds the number of iterations.                                       *)
THEOREM TypeCorrect == Spec => []TypeOK
<1>1. Typed => TypeOK
  BY DEF Typed
<1> QED BY <1>1, Typing, PTL

-----------------------------------------------------------------------------
(* Steps other than a visit leave the mesh and the energy alone.           *)
LEMMA EnergyKept ==
  [Next]_vars => Visit \/ UNCHANGED <<mesh, ee>>
BY DEF Next, StartSweep, EndSweep, vars

LEMMA MeshKept == [Next]_vars => UNCHANGED mesh
BY DEF Next, StartSweep, Visit, EndSweep, vars

(* Nothing the solver does changes the energy of a sea boundary node.      *)
THEOREM ForcingIsKept == Spec => []ForcingStands
<1>1. Init => ForcingStands
  <2> SUFFICES ASSUME Init, NEW j \in Nodes, mesh.msk[j] = 2
               PROVE  ee[j] = mesh.carried[j]
    BY DEF ForcingStands
  <2> QED BY DEF Init, Initial
<1>2. Typed /\ ForcingStands /\ [Next]_vars => ForcingStands'
  <2> SUFFICES ASSUME Typed, ForcingStands, [Next]_vars PROVE ForcingStands'
    OBVIOUS
  <2>1. CASE Visit
    <3>1. PICK k \in Nodes :
            /\ \A j \in Nodes : j # k /\ j # mesh.conn[k] => ee'[j] = ee[j]
            /\ ee'[k] = Visited(k)
            /\ mesh.conn[k] # 0 => mesh.conn[k] \in Nodes
      BY <2>1, VisitStep
    <3>2. mesh' = mesh /\ mesh \in Meshes
      BY MeshKept DEF Typed
    <3>3. ASSUME NEW j \in Nodes, mesh.msk[j] = 2 PROVE ee'[j] = ee[j]
      <4>1. j # mesh.conn[k]
        <5>1. j # 0
          BY SweepAssumption DEF Nodes
        <5>2. mesh.conn[k] # 0 => mesh.msk[mesh.conn[k]] = 3
          BY <3>2, MeshFacts
        <5> QED BY <3>3, <5>1, <5>2
      <4>2. CASE j = k
        BY <3>1, <3>3, <4>2 DEF Visited, Inner
      <4> QED BY <3>1, <4>1, <4>2
    <3> QED BY <3>2, <3>3 DEF ForcingStands
  <2>2. CASE UNCHANGED <<mesh, ee>>
    BY <2>2 DEF ForcingStands
  <2> QED BY <2>1, <2>2, EnergyKept
<1> QED BY <1>1, <1>2, Typing, PTL DEF Spec

-----------------------------------------------------------------------------
(* Energy never leaves a closed set of nodes: a dry node is no way through.*)
THEOREM DryLandHolds == Spec => []DryNodesBlockWaves
<1>1. Init => DryNodesBlockWaves
  <2> SUFFICES ASSUME Init, NEW S \in SUBSET Nodes, Closed(S), NEW k \in Nodes, ee[k] > 0
               PROVE  k \in S
    BY DEF DryNodesBlockWaves
  <2>1. ee[k] = IF mesh.msk[k] = 1 THEN 0 ELSE mesh.carried[k]
    BY DEF Init, Initial
  <2>2. ~ Inner(k) /\ mesh.carried[k] > 0
    BY <2>1 DEF Inner
  <2> QED BY <2>2 DEF Closed
<1>2. Typed /\ DryNodesBlockWaves /\ [Next]_vars => DryNodesBlockWaves'
  <2> SUFFICES ASSUME Typed, DryNodesBlockWaves, [Next]_vars PROVE DryNodesBlockWaves'
    OBVIOUS
  <2>1. CASE Visit
    <3>1. PICK k \in Nodes :
            /\ \A j \in Nodes : j # k /\ j # mesh.conn[k] => ee'[j] = ee[j]
            /\ ee'[k] = Visited(k)
            /\ mesh.conn[k] # 0 =>
                 mesh.conn[k] \in Nodes /\ ee'[mesh.conn[k]] = Visited(k)
      BY <2>1, VisitStep
    <3>2. mesh' = mesh /\ mesh \in Meshes /\ ee \in [Nodes -> Levels]
      BY MeshKept DEF Typed, TypeOK
    <3>3. ASSUME NEW S \in SUBSET Nodes, Closed(S), NEW j \in Nodes, ee'[j] > 0
          PROVE  j \in S
      <4>1. \A i \in Nodes : ee[i] > 0 => i \in S
        BY <3>3 DEF DryNodesBlockWaves
      <4>2. ASSUME Visited(k) > 0 PROVE k \in S
        <5>1. CASE ee[k] > 0
          BY <4>1, <5>1
        <5>2. CASE ~ (ee[k] > 0)
          <6>1. Inner(k) /\ k \in mesh.wet \ ok /\ Transported(ee, k) > 0
            <7>1. Visited(k) # ee[k] /\ Visited(k) # 0
              BY <4>2, <5>2
            <7> QED BY <4>2, <7>1 DEF Visited
          <6>2. PICK i \in mesh.up[k] : ee[i] > 0
            BY <3>2, <6>1, TransportedLevels
          <6>3. i \in Nodes
            BY <3>2, <6>2, MeshFacts
          <6> QED BY <3>3, <4>1, <6>1, <6>2, <6>3 DEF Closed
        <5> QED BY <5>1, <5>2
      <4>3. CASE j = k
        BY <3>1, <3>3, <4>2, <4>3
      <4>4. CASE j = mesh.conn[k] /\ j # k
        <5>1. mesh.conn[k] # 0
          BY <4>4, SweepAssumption DEF Nodes
        <5>2. k \in S
          BY <3>1, <3>3, <4>2, <4>4, <5>1
        <5> QED BY <3>3, <4>4, <5>1, <5>2 DEF Closed
      <4>5. CASE j # mesh.conn[k] /\ j # k
        BY <3>1, <3>3, <4>1, <4>5
      <4> QED BY <4>3, <4>4, <4>5
    <3>4. \A S \in SUBSET Nodes : Closed(S)' => Closed(S)
      BY <3>2 DEF Closed, Inner
    <3> QED BY <3>3, <3>4 DEF DryNodesBlockWaves
  <2>2. CASE UNCHANGED <<mesh, ee>>
    <3>1. \A S \in SUBSET Nodes : Closed(S)' => Closed(S)
      BY <2>2 DEF Closed, Inner
    <3> QED BY <2>2, <3>1 DEF DryNodesBlockWaves
  <2> QED BY <2>1, <2>2, EnergyKept
<1> QED BY <1>1, <1>2, Typing, PTL DEF Spec

-----------------------------------------------------------------------------
(* The first sweep of a forward mesh.  A node is computed after all it     *)
(* depends on; from then on its equation holds, because a later visit can  *)
(* only copy or recompute the value it already has.                        *)

(* The first sweep has met node k.                                         *)
Met(k) == iter > 1 \/ \E q \in Nodes : q < pos /\ mesh.order[1][q] = k

SolvedSoFar == Forward => \A k \in Nodes : Met(k) => Settled(k)

DryStayEmpty == \A k \in Nodes : Inner(k) /\ k \notin mesh.wet => ee[k] = 0

NothingFrozenYet == iter = 1 => ok = {}

(* Neumann nodes with one source, an inner node, equal it from the moment  *)
(* the sweep has passed that source.                                       *)
FollowedInSweep ==
  \A q \in Nodes, j \in Nodes :
    LET i == Order(Sweep)[q] IN
    q < pos /\ Sources(j) = {i} /\ Inner(i) => ee[j] = ee[i]

FollowedSince ==
  iter > 1 => \A i, j \in Nodes : Sources(j) = {i} /\ Inner(i) => ee[j] = ee[i]

Solving ==
  Typed /\ SolvedSoFar /\ DryStayEmpty /\ NothingFrozenYet /\ FollowedInSweep /\ FollowedSince

LEMMA SameUpwind ==
  ASSUME NEW e1 \in [Nodes -> Levels], NEW e2 \in [Nodes -> Levels], NEW k \in Nodes,
         \A j \in mesh.up[k] : e1[j] = e2[j]
  PROVE  Transported(e1, k) = Transported(e2, k)
<1>1. [j \in Nodes |-> IF j \in mesh.up[k] THEN e1[j] ELSE 0]
        = [j \in Nodes |-> IF j \in mesh.up[k] THEN e2[j] ELSE 0]
  OBVIOUS
<1> QED BY <1>1 DEF Transported, Incoming

(* A visit to k leaves the nodes that are fed alike alone: whatever node j *)
(* follows node i, a visit to another node than i changes neither.         *)
LEMMA VisitFollows ==
  ASSUME mesh \in Meshes, NEW k \in Nodes, NEW e \in [Nodes -> Levels],
         \A j \in Nodes : j # k /\ j # mesh.conn[k] => e[j] = ee[j],
         e[k] = Visited(k),
         mesh.conn[k] # 0 => e[mesh.conn[k]] = Visited(k),
         NEW i \in Nodes, NEW j \in Nodes, Sources(j) = {i}, Inner(i),
         i # k => ee[j] = ee[i]
  PROVE  e[j] = e[i]
<1>1. /\ mesh.conn[i] = j /\ j # 0 /\ i # 0
      /\ mesh.msk[j] = 3 /\ mesh.msk[i] = 1
      /\ mesh.conn[k] # 0 => mesh.msk[mesh.conn[k]] = 3
  <2>1. i \in Sources(j) /\ j # 0 /\ i # 0
    BY SweepAssumption DEF Nodes
  <2>2. mesh.conn[i] = j
    BY <2>1 DEF Sources
  <2>3. \A x \in Nodes : mesh.conn[x] # 0 => mesh.msk[mesh.conn[x]] = 3
    BY MeshFacts
  <2> QED BY <2>1, <2>2, <2>3 DEF Inner
<1>2. CASE i = k
  BY <1>1, <1>2
<1>3. CASE i # k
  <2>1. i # mesh.conn[k]
    BY <1>1
  <2>2. j # mesh.conn[k]
    BY <1>3 DEF Sources
  <2>3. e[j] = ee[j]
    BY <1>1, <2>2 DEF Visited, Inner
  <2> QED BY <1>3, <2>1, <2>3
<1> QED BY <1>2, <1>3

LEMMA SolvingInit == Init => Solving
<1> SUFFICES ASSUME Init PROVE Solving
  OBVIOUS
<1>1. Typed
  BY TypedInit
<1>2. iter = 1 /\ pos = 0 /\ ok = {}
  BY DEF Init
<1>3. SolvedSoFar /\ FollowedInSweep
  BY <1>2 DEF SolvedSoFar, Met, FollowedInSweep, Nodes
<1>4. DryStayEmpty
  BY DEF Init, Initial, DryStayEmpty, Inner
<1>5. NothingFrozenYet /\ FollowedSince
  BY <1>2 DEF NothingFrozenYet, FollowedSince
<1> QED BY <1>1, <1>3, <1>4, <1>5 DEF Solving

(* What can change upwind of a settled node: nothing, when node k is       *)
(* visited no earlier than that node.                                      *)
LEMMA UpwindOf ==
  ASSUME Forward, NEW m \in Nodes, Inner(m), m \in mesh.wet,
         NEW j \in mesh.up[m], NEW k \in Nodes,
         (j = k /\ mesh.msk[k] # 3) \/ j = mesh.conn[k],
         mesh \in Meshes
  PROVE  Before(k, m)
<1>1. j \in Nodes /\ j # 0 /\ (mesh.conn[k] # 0 => mesh.msk[mesh.conn[k]] = 3)
  BY MeshFacts, SweepAssumption DEF Nodes
<1>2. IF mesh.msk[j] = 3
      THEN \E i \in Nodes : Sources(j) = {i} /\ Inner(i) /\ Before(i, m)
      ELSE Before(j, m)
  BY DEF Forward
<1>3. CASE j = mesh.conn[k]
  <2>1. mesh.msk[j] = 3 /\ k \in Sources(j)
    BY <1>1, <1>3 DEF Sources
  <2> QED BY <1>2, <2>1
<1>4. CASE j = k /\ mesh.msk[k] # 3
  BY <1>2, <1>4
<1> QED BY <1>3, <1>4

LEMMA NotBeforeWhatWasMet ==
  ASSUME mesh \in Meshes, NEW p \in Nodes, NEW q \in Nodes, q <= p
  PROVE  ~ Before(mesh.order[1][p], mesh.order[1][q])
<1>1. mesh.order[1] \in [Nodes -> Nodes]
      /\ \A a, b \in Nodes : mesh.order[1][a] = mesh.order[1][b] => a = b
  <2>1. 1 \in Sweeps
    BY DEF Sweeps
  <2>2. Permutation(mesh.order[1])
    BY <2>1, MeshFacts
  <2> QED BY <2>2 DEF Permutation
<1> SUFFICES ASSUME NEW a \in Nodes, NEW b \in Nodes, a < b,
                    mesh.order[1][a] = mesh.order[1][p],
                    mesh.order[1][b] = mesh.order[1][q]
             PROVE  FALSE
  BY DEF Before
<1>2. a = p /\ b = q
  BY <1>1
<1> QED BY <1>2 DEF Nodes

LEMMA SolvingVisit == Solving /\ Visit => Solving'
<1> SUFFICES ASSUME Solving, Visit PROVE Solving'
  OBVIOUS
<1>1. Typed /\ Typed' /\ mesh' = mesh /\ mesh \in Meshes
  BY TypedNext, MeshKept DEF Solving, Typed, Next
<1>2. PICK k \in Nodes :
        /\ k = Order(Sweep)[pos]
        /\ ee' \in [Nodes -> Levels]
        /\ \A j \in Nodes : j # k /\ j # mesh.conn[k] => ee'[j] = ee[j]
        /\ ee'[k] = Visited(k)
        /\ mesh.conn[k] # 0 => mesh.conn[k] \in Nodes /\ ee'[mesh.conn[k]] = Visited(k)
  BY <1>1, VisitStep
<1>3. /\ UNCHANGED <<mesh, ok, iter>> /\ pos' = pos + 1 /\ pos \in Nodes
      /\ ee \in [Nodes -> Levels] /\ N \in Nat
  BY <1>1, SweepAssumption DEF Visit, Typed, TypeOK
<1>4. \A x \in Nodes : mesh.conn[x] # 0 => mesh.msk[mesh.conn[x]] = 3
  BY <1>1, MeshFacts
<1>5. \A m \in Nodes : Inner(m) /\ m # k => ee'[m] = ee[m]
  <2> SUFFICES ASSUME NEW m \in Nodes, Inner(m), m # k PROVE ee'[m] = ee[m]
    OBVIOUS
  <2>1. m # 0
    BY SweepAssumption DEF Nodes
  <2>2. m # mesh.conn[k]
    BY <1>4, <2>1 DEF Inner
  <2> QED BY <1>2, <2>2
<1>6. DryStayEmpty'
  <2>1. ASSUME NEW m \in Nodes, Inner(m), m \notin mesh.wet PROVE ee'[m] = 0
    <3>1. CASE m = k
      BY <1>2, <2>1, <3>1 DEF Visited
    <3>2. CASE m # k
      BY <1>5, <2>1, <3>2 DEF Solving, DryStayEmpty
    <3> QED BY <3>1, <3>2
  <2> QED BY <1>3, <2>1 DEF DryStayEmpty, Inner
<1>7. NothingFrozenYet'
  BY <1>3 DEF Solving, NothingFrozenYet
<1>8. ASSUME NEW i \in Nodes, NEW j \in Nodes, Sources(j) = {i}, Inner(i),
             i # k => ee[j] = ee[i]
      PROVE  ee'[j] = ee'[i]
  <2> DEFINE e == ee'
  <2>1. /\ e \in [Nodes -> Levels]
        /\ \A x \in Nodes : x # k /\ x # mesh.conn[k] => e[x] = ee[x]
        /\ e[k] = Visited(k)
        /\ mesh.conn[k] # 0 => e[mesh.conn[k]] = Visited(k)
    BY <1>2
  <2> HIDE DEF e
  <2>2. e[j] = e[i]
    BY <1>1, <1>8, <2>1, VisitFollows
  <2> QED BY <2>2 DEF e
<1>9. FollowedSince'
  BY <1>3, <1>8 DEF Solving, FollowedSince, Sources, Inner
<1>10. FollowedInSweep'
  <2>1. ASSUME NEW q \in Nodes, NEW j \in Nodes, NEW i \in Nodes, i = Order(Sweep)[q],
               q < pos + 1, Sources(j) = {i}, Inner(i)
        PROVE  ee'[j] = ee'[i]
    <3>1. CASE i = k
      BY <1>8, <2>1, <3>1
    <3>2. CASE i # k
      <4>1. q < pos
        BY <1>2, <1>3, <2>1, <3>2 DEF Nodes
      <4>2. ee[j] = ee[i]
        BY <2>1, <4>1 DEF Solving, FollowedInSweep
      <4> QED BY <1>8, <2>1, <4>2
    <3> QED BY <3>1, <3>2
  <2>2. \A q \in Nodes : Order(Sweep)[q] \in Nodes
    <3>1. Sweep \in Sweeps
      BY <1>1, SweepType
    <3> QED BY <1>1, <3>1, MeshFacts DEF Order
  <2>3. Order(Sweep)' = Order(Sweep) /\ \A j \in Nodes : Sources(j)' = Sources(j)
    BY <1>3 DEF Order, Sweep, Sources
  <2>4. \A q \in Nodes : Order(Sweep)'[q] = Order(Sweep)[q]
    BY <2>3
  <2> QED BY <1>3, <2>1, <2>2, <2>3, <2>4 DEF FollowedInSweep, Inner
<1>11. SolvedSoFar'
  <2> SUFFICES ASSUME Forward, NEW m \in Nodes, Met(m)', Inner(m), m \in mesh.wet
               PROVE  ee'[m] = Transported(ee', m)
    BY <1>3 DEF SolvedSoFar, Settled, Forward, Before, Sources, Inner, Transported, Incoming
  <2> DEFINE e == ee'
  <2>0. e \in [Nodes -> Levels] /\ \A j \in mesh.up[m] : j \in Nodes
    BY <1>1, <1>2, MeshFacts
  (* Whatever changes upwind of m changes because k is before m.           *)
  <2>1. ASSUME NEW j \in mesh.up[m], e[j] # ee[j] PROVE Before(k, m)
    <3>1. j = k \/ j = mesh.conn[k]
      BY <1>2, <2>0, <2>1
    <3>2. mesh.msk[k] = 3 => Visited(k) = ee[k]
      BY DEF Visited, Inner
    <3>3. (j = k /\ mesh.msk[k] # 3) \/ j = mesh.conn[k]
      BY <1>2, <2>1, <3>1, <3>2
    <3> QED BY <1>1, <3>3, UpwindOf
  <2>2. CASE iter = 1
    <3>1. ok = {} /\ k = mesh.order[1][pos]
      BY <1>2, <2>2 DEF Solving, NothingFrozenYet, Order, Sweep
    <3>2. PICK q \in Nodes : q < pos + 1 /\ mesh.order[1][q] = m
      BY <1>3, <2>2 DEF Met
    <3>3. q <= pos
      BY <1>3, <3>2 DEF Nodes
    <3>4. ~ Before(k, m)
      BY <1>1, <1>3, <3>1, <3>2, <3>3, NotBeforeWhatWasMet
    <3>5. \A j \in mesh.up[m] : ee[j] = e[j]
      BY <2>1, <3>4
    <3>6. Transported(ee, m) = Transported(e, m)
      <4> HIDE DEF e
      <4> QED BY <1>3, <2>0, <3>5, SameUpwind
    <3>7. e[m] = Transported(ee, m)
      <4>1. CASE m = k
        BY <1>2, <3>1, <4>1 DEF Visited
      <4>2. CASE m # k
        <5>1. q < pos
          BY <1>3, <3>1, <3>2, <3>3, <4>2 DEF Nodes
        <5>2. Met(m)
          BY <3>2, <5>1 DEF Met
        <5>3. Settled(m)
          BY <5>2 DEF Solving, SolvedSoFar
        <5> QED BY <1>5, <4>2, <5>3 DEF Settled
      <4> QED BY <4>1, <4>2
    <3> QED BY <3>6, <3>7
  <2>3. CASE iter # 1
    <3>1. iter > 1
      BY <1>1, <2>3 DEF Typed, TypeOK
    <3>2. \A x \in Nodes : Settled(x)
      BY <3>1 DEF Solving, SolvedSoFar, Met
    <3>3. Visited(k) = ee[k]
      BY <3>2 DEF Visited, Settled, Solving, DryStayEmpty
    <3>4. \A j \in mesh.up[m] : ee[j] = e[j]
      <4> SUFFICES ASSUME NEW j \in mesh.up[m], ee[j] # e[j] PROVE FALSE
        OBVIOUS
      <4>1. j = mesh.conn[k] /\ j # k /\ j \in Nodes /\ j # 0
        BY <1>2, <2>0, <3>3, SweepAssumption DEF Nodes
      <4>2. mesh.msk[j] = 3 /\ k \in Sources(j)
        BY <1>4, <4>1 DEF Sources
      <4>3. PICK i \in Nodes : Sources(j) = {i} /\ Inner(i)
        BY <4>2 DEF Forward
      <4>4. Sources(j) = {k} /\ Inner(k)
        BY <4>2, <4>3
      <4>5. ee[j] = ee[k]
        BY <3>1, <4>1, <4>4 DEF Solving, FollowedSince
      <4> QED BY <1>2, <3>3, <4>1, <4>5
    <3>5. Transported(ee, m) = Transported(e, m)
      <4> HIDE DEF e
      <4> QED BY <1>3, <2>0, <3>4, SameUpwind
    <3>6. e[m] = ee[m]
      BY <1>2, <1>5, <3>3
    <3> QED BY <3>2, <3>5, <3>6 DEF Settled
  <2> QED BY <2>2, <2>3
<1> QED BY <1>1, <1>6, <1>7, <1>9, <1>10, <1>11 DEF Solving

LEMMA SolvingEndSweep == Solving /\ EndSweep => Solving'
<1> SUFFICES ASSUME Solving, EndSweep PROVE Solving'
  OBVIOUS
<1>1. /\ Typed /\ Typed' /\ mesh \in Meshes /\ mesh' = mesh /\ ee' = ee
      /\ pos = N + 1 /\ pos' = 0 /\ N \in Nat /\ iter \in Nat \ {0}
  BY TypedNext, MeshFacts, SweepAssumption DEF Solving, Typed, TypeOK, EndSweep, Next
<1>2. DryStayEmpty'
  BY <1>1 DEF Solving, DryStayEmpty, Inner
<1>3. FollowedInSweep'
  BY <1>1 DEF FollowedInSweep, Nodes
<1>4. iter' = iter \/ iter' = iter + 1
  BY <1>1 DEF EndSweep
<1>5. NothingFrozenYet'
  <2> SUFFICES ASSUME iter' = 1 PROVE ok' = {}
    BY DEF NothingFrozenYet
  <2>1. iter = 1
    BY <1>1, <1>4
  <2>2. ok = {} /\ Sweep = 1
    BY <2>1 DEF Solving, NothingFrozenYet, Sweep
  <2> QED BY <2>2 DEF EndSweep
<1>6. Sweep \in Sweeps
  BY <1>1, SweepType
<1>7. \A k \in Nodes : \E q \in Nodes : Order(Sweep)[q] = k /\ q < pos
  <2>1. Permutation(Order(Sweep))
    BY <1>1, <1>6, MeshFacts DEF Order
  <2> QED BY <1>1, <2>1 DEF Permutation, Nodes
<1>8. FollowedSince'
  <2>1. ASSUME NEW i \in Nodes, NEW j \in Nodes, Sources(j) = {i}, Inner(i)
        PROVE  ee[j] = ee[i]
    <3>1. PICK q \in Nodes : Order(Sweep)[q] = i /\ q < pos
      BY <1>7
    <3> QED BY <2>1, <3>1 DEF Solving, FollowedInSweep
  <2> QED BY <1>1, <2>1 DEF FollowedSince, Sources, Inner
<1>9. SolvedSoFar'
  <2>1. ASSUME NEW k \in Nodes PROVE Met(k)
    <3>1. CASE iter = 1
      <4>1. Order(Sweep) = mesh.order[1]
        BY <3>1 DEF Order, Sweep
      <4> QED BY <1>7, <4>1 DEF Met
    <3>2. CASE iter # 1
      BY <1>1, <3>2 DEF Met
    <3> QED BY <3>1, <3>2
  <2> QED
    BY <1>1, <2>1
       DEF Solving, SolvedSoFar, Settled, Forward, Before, Sources, Inner, Transported, Incoming
<1> QED BY <1>1, <1>2, <1>3, <1>5, <1>8, <1>9 DEF Solving

LEMMA SolvingNext == Solving /\ [Next]_vars => Solving'
<1> SUFFICES ASSUME Solving, [Next]_vars PROVE Solving'
  OBVIOUS
<1>1. CASE StartSweep
  <2>1. UNCHANGED <<mesh, ee, ok, iter>> /\ pos = 0 /\ pos' = 1
    BY <1>1 DEF StartSweep
  <2>2. Typed'
    BY TypedNext DEF Solving
  <2>3. \A q \in Nodes : ~ (q < 1) /\ ~ (q < 0)
    BY SweepAssumption DEF Nodes
  <2>4. DryStayEmpty' /\ NothingFrozenYet' /\ FollowedSince' /\ FollowedInSweep'
    BY <2>1, <2>3
       DEF Solving, DryStayEmpty, NothingFrozenYet, FollowedSince, FollowedInSweep, Inner, Sources
  <2>5. SolvedSoFar'
    BY <2>1, <2>3
       DEF Solving, SolvedSoFar, Met, Settled, Forward, Before, Sources, Inner, Transported, Incoming
  <2> QED BY <2>2, <2>4, <2>5 DEF Solving
<1>2. CASE UNCHANGED vars
  <2>1. UNCHANGED <<mesh, ee, ok, iter, pos>>
    BY <1>2 DEF vars
  <2>2. Typed'
    BY TypedNext DEF Solving
  <2>3. DryStayEmpty' /\ NothingFrozenYet' /\ FollowedSince'
    BY <2>1 DEF Solving, DryStayEmpty, NothingFrozenYet, FollowedSince, Inner, Sources
  <2>4. FollowedInSweep'
    BY <2>1 DEF Solving, FollowedInSweep, Inner, Sources, Order, Sweep
  <2>5. SolvedSoFar'
    BY <2>1
       DEF Solving, SolvedSoFar, Met, Settled, Forward, Before, Sources, Inner, Transported, Incoming
  <2> QED BY <2>2, <2>3, <2>4, <2>5 DEF Solving
<1> QED BY <1>1, <1>2, SolvingVisit, SolvingEndSweep DEF Next

LEMMA SolvingHolds == Spec => []Solving
BY SolvingInit, SolvingNext, PTL DEF Spec

(* On a forward mesh the energies satisfy the equations of every node from *)
(* the end of the first sweep on.                                          *)
THEOREM FirstSweepSolves == Spec => []SettledAfterFirstSweep
<1>1. Solving => SettledAfterFirstSweep
  <2> SUFFICES ASSUME Solving, Forward, iter > 1 \/ pos = N + 1, NEW k \in Nodes
               PROVE  Settled(k)
    BY DEF SettledAfterFirstSweep
  <2>1. Met(k)
    <3>1. CASE iter > 1
      BY <3>1 DEF Met
    <3>2. CASE pos = N + 1
      <4>1. Permutation(mesh.order[1])
        BY MeshFacts DEF Solving, Typed, Sweeps
      <4>2. PICK q \in Nodes : mesh.order[1][q] = k
        BY <4>1 DEF Permutation
      <4> QED BY <3>2, <4>2, SweepAssumption DEF Met, Nodes
    <3> QED BY <3>1, <3>2
  <2> QED BY <2>1 DEF Solving, SolvedSoFar
<1> QED BY <1>1, SolvingHolds, PTL

(* At the end of a sweep a Neumann node with one source, an inner node,    *)
(* carries the energy of that source.                                      *)
THEOREM NeumannNodesFollow == Spec => []NeumannFollowsSource
<1>1. Solving => NeumannFollowsSource
  <2> SUFFICES ASSUME Solving, pos = N + 1, NEW i \in Nodes, NEW j \in Nodes,
                      Sources(j) = {i}, Inner(i)
               PROVE  ee[j] = ee[i]
    BY DEF NeumannFollowsSource
  <2>1. Sweep \in Sweeps /\ mesh \in Meshes
    BY SweepType DEF Solving, Typed
  <2>2. Permutation(Order(Sweep))
    BY <2>1, MeshFacts DEF Order
  <2>3. PICK q \in Nodes : Order(Sweep)[q] = i
    BY <2>2 DEF Permutation
  <2>4. q < pos
    BY SweepAssumption DEF Nodes
  <2> QED BY <2>3, <2>4 DEF Solving, FollowedInSweep
<1> QED BY <1>1, SolvingHolds, PTL
-----------------------------------------------------------------------------
(* The rounds after the first sweep of a forward mesh.  Only Neumann nodes *)
(* change, and what each is left with is decided by the last of its        *)
(* sources in the order of the sweep: two rounds end alike.                *)

(* Position q is the last one before p at which node j is copied to.       *)
LastCopy(s, q, p, j) ==
  /\ q < p /\ mesh.conn[mesh.order[s][q]] = j
  /\ \A r \in Nodes : q < r /\ r < p => mesh.conn[mesh.order[s][r]] # j

FollowedLast ==
  LinksStartInside =>
    \A q, j \in Nodes :
      LastCopy(Sweep, q, pos, j) => ee[j] = ee[mesh.order[Sweep][q]]

(* What the fourth sweep of a round leaves in e.                           *)
LeftByRound(e) ==
  \A q, j \in Nodes : LastCopy(4, q, N + 1, j) => e[j] = e[mesh.order[4][q]]

SecondRound ==
  Forward /\ LinksStartInside =>
    /\ iter = 5 /\ pos = 0 /\ ~ done => LeftByRound(ee)
    /\ iter \in 5 .. 8 /\ (pos > 0 \/ iter > 5) =>
         /\ LeftByRound(eeold)
         /\ \A k \in Nodes : Sources(k) = {} => eeold[k] = ee[k]
    /\ iter > 8 => \A k \in Nodes : ee[k] = 0

Converging == Solving /\ FollowedLast /\ SecondRound

(* A visit after the first sweep changes a link's target at most.          *)
LEMMA VisitKeeps ==
  ASSUME Solving, Visit, Forward, iter > 1, NEW m \in Nodes, Sources(m) = {}
  PROVE  ee'[m] = ee[m]
<1>1. PICK k \in Nodes :
        /\ \A j \in Nodes : j # k /\ j # mesh.conn[k] => ee'[j] = ee[j]
        /\ ee'[k] = Visited(k)
  BY VisitStep DEF Solving
<1>2. m # mesh.conn[k]
  BY DEF Sources
<1>3. Visited(k) = ee[k]
  <2>1. Settled(k)
    BY DEF Solving, SolvedSoFar, Met
  <2> QED BY <2>1 DEF Visited, Settled, Solving, DryStayEmpty
<1> QED BY <1>1, <1>2, <1>3

LEMMA FollowedLastVisit == Solving /\ FollowedLast /\ Visit => FollowedLast'
<1> SUFFICES ASSUME Solving, FollowedLast, Visit PROVE FollowedLast'
  OBVIOUS
<1>a. mesh' = mesh /\ iter' = iter /\ pos' = pos + 1
  BY DEF Visit
<1>b. Sweep' = Sweep
  BY <1>a DEF Sweep
<1> SUFFICES ASSUME LinksStartInside, NEW q \in Nodes, NEW j \in Nodes,
                    LastCopy(Sweep, q, pos + 1, j)
             PROVE  ee'[j] = ee'[mesh.order[Sweep][q]]
  BY <1>a, <1>b DEF FollowedLast, LastCopy, LinksStartInside, Inner
<1> DEFINE i == mesh.order[Sweep][q]
<1>1. /\ mesh \in Meshes /\ Sweep \in Sweeps /\ pos \in Nodes /\ N \in Nat
      /\ Permutation(mesh.order[Sweep])
  BY SweepType, MeshFacts, SweepAssumption DEF Solving, Typed, Visit
<1>2. PICK k \in Nodes :
        /\ k = mesh.order[Sweep][pos]
        /\ \A x \in Nodes : x # k /\ x # mesh.conn[k] => ee'[x] = ee[x]
        /\ ee'[k] = Visited(k)
        /\ mesh.conn[k] # 0 => ee'[mesh.conn[k]] = Visited(k)
  BY VisitStep DEF Solving, Order
<1>3. /\ i \in Nodes /\ mesh.conn[i] = j /\ j # 0 /\ i # 0
      /\ mesh.msk[j] = 3 /\ mesh.msk[i] = 1
      /\ mesh.conn[k] # 0 => mesh.msk[mesh.conn[k]] = 3
  <2>0. /\ mesh.conn[i] = j
        /\ i \in Nodes
        /\ \A x \in Nodes : x # 0
    <3>1. mesh.conn[i] = j
      BY DEF LastCopy
    <3>2. i \in Nodes
      BY <1>1 DEF Permutation
    <3>3. \A x \in Nodes : x # 0
      BY SweepAssumption DEF Nodes
    <3> QED BY <3>1, <3>2, <3>3
  <2>1. i \in Nodes /\ mesh.conn[i] = j /\ j # 0 /\ i # 0
    BY <2>0
  <2>2. \A x \in Nodes : mesh.conn[x] # 0 => mesh.msk[mesh.conn[x]] = 3 /\ mesh.msk[x] = 1
    BY <1>1, MeshFacts DEF LinksStartInside, Inner
  <2> QED BY <2>1, <2>2
<1>4. CASE q = pos
  BY <1>2, <1>3, <1>4
<1>5. CASE q # pos
  <2>1. q < pos
    BY <1>1, <1>5 DEF LastCopy, Nodes
  <2>2. mesh.conn[k] # j
    <3>1. pos < pos + 1
      BY <1>1 DEF Nodes
    <3> QED BY <1>1, <1>2, <2>1, <3>1 DEF LastCopy
  <2>3. LastCopy(Sweep, q, pos, j)
    <3>1. \A r \in Nodes : r < pos => r < pos + 1
      BY <1>1 DEF Nodes
    <3> QED BY <2>1, <3>1 DEF LastCopy
  <2>4. ee[j] = ee[i]
    BY <2>3 DEF FollowedLast
  <2>5. i # k
    BY <1>1, <1>2, <1>5 DEF Permutation
  <2>6. ee'[i] = ee[i]
    <3>1. i # mesh.conn[k]
      BY <1>3
    <3> QED BY <1>2, <1>3, <2>5, <3>1
  <2>7. ee'[j] = ee[j]
    <3>1. CASE j # k
      BY <1>2, <2>2, <3>1
    <3>2. CASE j = k
      <4>1. ~ Inner(k)
        BY <1>3, <3>2 DEF Inner
      <4> QED BY <1>2, <3>2, <4>1 DEF Visited
    <3> QED BY <3>1, <3>2
  <2> QED BY <2>4, <2>6, <2>7
<1> QED BY <1>4, <1>5

LEMMA SecondRoundVisit == Solving /\ SecondRound /\ Visit => SecondRound'
<1> SUFFICES ASSUME Solving, SecondRound, Visit PROVE SecondRound'
  OBVIOUS
<1>a. mesh' = mesh /\ iter' = iter /\ eeold' = eeold
  BY DEF Visit
<1> SUFFICES ASSUME Forward, LinksStartInside
             PROVE  /\ ~ (pos' = 0)
                    /\ iter \in 5 .. 8 =>
                         /\ LeftByRound(eeold)
                         /\ \A k \in Nodes : Sources(k) = {} => eeold[k] = ee'[k]
                    /\ iter > 8 => \A k \in Nodes : ee'[k] = 0
  <2>2. LeftByRound(eeold)' <=> LeftByRound(eeold)
    BY <1>a DEF LeftByRound, LastCopy
  <2> QED
    BY <1>a, <2>2 DEF SecondRound, Forward, LinksStartInside, Before, Sources, Inner
<1>1. pos \in Nodes /\ pos' = pos + 1 /\ pos > 0 /\ ~ (pos' = 0) /\ iter \in Nat
  BY MeshFacts, SweepAssumption DEF Visit, Nodes, Solving, Typed, TypeOK
<1>2. ASSUME iter \in 5 .. 8
      PROVE  /\ LeftByRound(eeold)
             /\ \A k \in Nodes : Sources(k) = {} => eeold[k] = ee'[k]
  BY <1>1, <1>2, VisitKeeps DEF SecondRound
<1>3. ASSUME iter > 8, NEW j \in Nodes PROVE ee'[j] = 0
  <2>1. \A x \in Nodes : ee[x] = 0
    BY <1>3 DEF SecondRound
  <2>2. PICK k \in Nodes :
          /\ \A x \in Nodes : x # k /\ x # mesh.conn[k] => ee'[x] = ee[x]
          /\ ee'[k] = Visited(k)
          /\ mesh.conn[k] # 0 => ee'[mesh.conn[k]] = Visited(k)
    BY VisitStep DEF Solving
  <2>3. Transported(ee, k) = 0
    <3>1. mesh \in Meshes /\ ee \in [Nodes -> Levels] /\ \A x \in mesh.up[k] : x \in Nodes
      BY MeshFacts DEF Solving, Typed, TypeOK
    <3> QED BY <2>1, <3>1, TransportedLevels
  <2>4. Visited(k) = 0
    BY <2>1, <2>3 DEF Visited
  <2>5. j # 0
    BY SweepAssumption DEF Nodes
  <2> QED BY <2>1, <2>2, <2>4, <2>5
<1> QED BY <1>1, <1>2, <1>3

(* The second round ends as the first did.                                 *)
LEMMA RoundsAgree ==
  ASSUME Converging, Forward, LinksStartInside, iter = 8, pos = N + 1, NEW k \in Nodes
  PROVE  ee[k] = eeold[k]
<1>1. /\ mesh \in Meshes /\ N \in Nat /\ 4 \in Sweeps /\ Sweep = 4
      /\ Permutation(mesh.order[4])
  BY MeshFacts, SweepAssumption DEF Converging, Solving, Typed, Sweeps, Sweep
<1>2. /\ LeftByRound(eeold)
      /\ \A m \in Nodes : Sources(m) = {} => eeold[m] = ee[m]
  BY <1>1 DEF Converging, SecondRound
<1>3. CASE Sources(k) = {}
  BY <1>2, <1>3
<1>4. CASE Sources(k) # {}
  <2> DEFINE T == {q \in Nodes : mesh.conn[mesh.order[4][q]] = k}
  <2>1. PICK i \in Nodes : mesh.conn[i] = k
    BY <1>4 DEF Sources
  <2>2. PICK p \in Nodes : mesh.order[4][p] = i
    BY <1>1 DEF Permutation
  <2>3. T # {} /\ T \in SUBSET (0 .. N)
    BY <1>1, <2>1, <2>2 DEF Nodes
  <2>4. PICK q \in T : \A r \in T : q >= r
    <3> HIDE DEF T
    <3> QED BY <1>1, <2>3, HasMax
  <2>5. LastCopy(4, q, N + 1, k)
    <3>1. \A r \in Nodes : q < r => r \notin T
      BY <2>4 DEF Nodes
    <3>2. q \in Nodes /\ q < N + 1 /\ mesh.conn[mesh.order[4][q]] = k
      BY <1>1, <2>4 DEF Nodes
    <3> QED BY <3>1, <3>2 DEF LastCopy
  <2> DEFINE last == mesh.order[4][q]
  <2>6. last \in Nodes /\ mesh.conn[last] = k /\ q \in Nodes
    BY <1>1, <2>4 DEF Permutation
  <2>7. eeold[k] = eeold[last]
    BY <1>2, <2>5, <2>6 DEF LeftByRound
  <2>8. ee[k] = ee[last]
    BY <1>1, <2>5, <2>6 DEF Converging, FollowedLast
  <2>9. Sources(last) = {}
    <3>1. mesh.msk[last] = 1
      BY <2>6, SweepAssumption DEF LinksStartInside, Inner, Nodes
    <3>2. \A x \in Nodes : mesh.conn[x] # 0 => mesh.msk[mesh.conn[x]] = 3
      BY <1>1, MeshFacts
    <3>3. last # 0
      BY <2>6, SweepAssumption DEF Nodes
    <3> QED BY <3>1, <3>2, <3>3 DEF Sources
  <2> QED BY <1>2, <2>6, <2>7, <2>8, <2>9
<1> QED BY <1>3, <1>4

LEMMA SecondRoundEndSweep == Converging /\ EndSweep => SecondRound'
<1> SUFFICES ASSUME Converging, EndSweep PROVE SecondRound'
  OBVIOUS
<1>1. /\ UNCHANGED <<mesh, ee, eeold>> /\ pos = N + 1 /\ pos' = 0 /\ iter \in Nat
      /\ mesh \in Meshes /\ ee \in [Nodes -> Levels] /\ eeold \in [Nodes -> Levels]
  BY MeshFacts DEF EndSweep, Converging, Solving, Typed, TypeOK
<1>2. pos > 0 /\ N \in Nat
  BY <1>1, SweepAssumption
<1> SUFFICES ASSUME Forward, LinksStartInside
             PROVE  /\ iter' = 5 /\ ~ done' => LeftByRound(ee)
                    /\ iter' \in 6 .. 8 =>
                         /\ LeftByRound(eeold)
                         /\ \A k \in Nodes : Sources(k) = {} => eeold[k] = ee[k]
                    /\ iter' > 8 => \A k \in Nodes : ee[k] = 0
  <2>1. /\ LeftByRound(ee)' <=> LeftByRound(ee)
        /\ LeftByRound(eeold)' <=> LeftByRound(eeold)
    BY <1>1 DEF LeftByRound, LastCopy
  <2>2. iter' \in Nat
    BY <1>1 DEF EndSweep
  <2>3. /\ Forward' <=> Forward
        /\ LinksStartInside' <=> LinksStartInside
        /\ \A k \in Nodes : Sources(k)' = Sources(k)
    BY <1>1 DEF Forward, LinksStartInside, Before, Sources, Inner
  <2> QED BY <1>1, <2>1, <2>2, <2>3 DEF SecondRound
<1>3. /\ iter \in 5 .. 8 =>
           /\ LeftByRound(eeold)
           /\ \A k \in Nodes : Sources(k) = {} => eeold[k] = ee[k]
      /\ iter > 8 => \A k \in Nodes : ee[k] = 0
  BY <1>1, <1>2 DEF Converging, SecondRound
<1>4. CASE done'
  <2>1. iter' = iter
    BY <1>4 DEF EndSweep
  <2> QED BY <1>1, <1>3, <1>4, <2>1
<1>5. CASE ~ done'
  <2>1. iter' = iter + 1 /\ ~ Stopping
    BY <1>5 DEF EndSweep, Leaving
  <2>2. ASSUME iter = 4 PROVE LeftByRound(ee)
    <3>1. Sweep = 4
      BY <2>2 DEF Sweep
    <3> QED BY <1>1, <3>1 DEF Converging, FollowedLast, LeftByRound
  <2>3. ASSUME iter = 8 PROVE \A k \in Nodes : ee[k] = 0
    <3>1. \A k \in Nodes : ee[k] = eeold[k]
      BY <1>1, <2>3, RoundsAgree
    <3> DEFINE changes == [k \in Nodes |-> Change(k)]
    <3>2. \A k \in Nodes : Change(k) = 0
      <4>1. \A k \in Nodes : ee[k] \in Int
        BY <1>1 DEF Levels
      <4> QED BY <3>1, <4>1 DEF Change
    <3>3. 0 \in Levels /\ \A k \in Nodes : changes[k] = 0
      BY <3>2, SweepAssumption DEF Levels
    <3>4. changes \in [Nodes -> Levels]
      BY <3>3
    <3> HIDE DEF changes
    <3>5. MaxOf(changes) = 0
      BY <3>3, <3>4, MaxOfLevels
    <3>6. ~ (0 * CritDen < MaxOf(ee))
      <4>1. Sweep = 4
        BY <2>3 DEF Sweep
      <4> QED BY <2>1, <3>5, <4>1 DEF Stopping, Small, changes
    <3>7. MaxOf(ee) \in Nat /\ \A k \in Nodes : ee[k] \in Nat /\ ee[k] <= MaxOf(ee)
      BY <1>1, MaxOfLevels DEF Levels
    <3>8. 0 * CritDen = 0
      BY SweepAssumption
    <3> QED BY <3>6, <3>7, <3>8
  <2>4. iter' = 5 => iter = 4
    BY <1>1, <2>1
  <2>5. iter' \in 6 .. 8 => iter \in 5 .. 8
    BY <1>1, <2>1
  <2>6. iter' > 8 => iter = 8 \/ iter > 8
    BY <1>1, <2>1
  <2> QED BY <1>3, <2>2, <2>3, <2>4, <2>5, <2>6
<1> QED BY <1>4, <1>5

LEMMA ConvergingInit == Init => Converging
<1> SUFFICES ASSUME Init PROVE Converging
  OBVIOUS
<1>1. iter = 1 /\ pos = 0
  BY DEF Init
<1>2. FollowedLast
  BY <1>1 DEF FollowedLast, LastCopy, Nodes
<1>3. SecondRound
  BY <1>1 DEF SecondRound
<1> QED BY <1>2, <1>3, SolvingInit DEF Converging

LEMMA ConvergingNext == Converging /\ [Next]_vars => Converging'
<1> SUFFICES ASSUME Converging, [Next]_vars PROVE Converging'
  OBVIOUS
<1>1. Solving'
  BY SolvingNext DEF Converging
<1>2. N \in Nat /\ \A q \in Nodes : ~ (q < 1) /\ ~ (q < 0)
  BY SweepAssumption DEF Nodes
<1>3. CASE Visit
  BY <1>1, <1>3, FollowedLastVisit, SecondRoundVisit DEF Converging
<1>4. CASE EndSweep
  <2>1. pos' = 0
    BY <1>4 DEF EndSweep
  <2>2. FollowedLast'
    BY <1>2, <2>1 DEF FollowedLast, LastCopy
  <2> QED BY <1>1, <1>4, <2>2, SecondRoundEndSweep DEF Converging
<1>5. CASE StartSweep
  <2>1. /\ UNCHANGED <<mesh, ee, iter>> /\ ~ done /\ pos = 0 /\ pos' = 1
        /\ iter \in 6 .. 8 => eeold' = eeold
        /\ iter = 5 => eeold' = ee
    BY <1>5 DEF StartSweep, NewRound, Sweep
  <2>2. FollowedLast'
    BY <1>2, <2>1 DEF FollowedLast, LastCopy
  <2>3. SecondRound'
    <3> SUFFICES ASSUME Forward, LinksStartInside
                 PROVE  /\ iter \in 5 .. 8 =>
                             /\ LeftByRound(eeold')
                             /\ \A k \in Nodes : Sources(k) = {} => eeold'[k] = ee[k]
                        /\ iter > 8 => \A k \in Nodes : ee[k] = 0
      <4>1. LeftByRound(eeold)' <=> LeftByRound(eeold')
        BY <2>1 DEF LeftByRound, LastCopy
      <4>2. /\ Forward' <=> Forward
            /\ LinksStartInside' <=> LinksStartInside
            /\ \A k \in Nodes : Sources(k)' = Sources(k)
        BY <2>1 DEF Forward, LinksStartInside, Before, Sources, Inner
      <4> QED BY <2>1, <4>1, <4>2 DEF SecondRound
    <3>1. CASE iter = 5
      BY <2>1, <3>1 DEF Converging, SecondRound
    <3>2. CASE iter # 5
      <4>1. iter \in 5 .. 8 => iter \in 6 .. 8 /\ iter > 5
        BY <3>2
      <4> QED BY <2>1, <4>1 DEF Converging, SecondRound
    <3> QED BY <3>1, <3>2
  <2> QED BY <1>1, <2>2, <2>3 DEF Converging
<1>6. CASE UNCHANGED vars
  <2>1. UNCHANGED <<mesh, ee, eeold, iter, pos, done>>
    BY <1>6 DEF vars
  <2>2. FollowedLast'
    BY <2>1 DEF Converging, FollowedLast, LastCopy, Sweep, LinksStartInside, Inner
  <2>3. SecondRound'
    <3>1. /\ LeftByRound(ee)' <=> LeftByRound(ee)
          /\ LeftByRound(eeold)' <=> LeftByRound(eeold)
      BY <2>1 DEF LeftByRound, LastCopy
    <3>2. /\ Forward' <=> Forward
          /\ LinksStartInside' <=> LinksStartInside
          /\ \A k \in Nodes : Sources(k)' = Sources(k)
      BY <2>1 DEF Forward, LinksStartInside, Before, Sources, Inner
    <3> QED BY <2>1, <3>1, <3>2 DEF Converging, SecondRound
  <2> QED BY <1>1, <2>2, <2>3 DEF Converging
<1> QED BY <1>3, <1>4, <1>5, <1>6 DEF Next

(* On a forward mesh on which no link starts at a Neumann node the solver  *)
(* stops after two rounds, as soon as there is any energy.                 *)
THEOREM TwoRoundsSuffice == Spec => []ConvergesInTwoRounds
<1>1. Converging => ConvergesInTwoRounds
  <2> SUFFICES ASSUME Converging, Forward, LinksStartInside, MaxOf(ee) > 0, ~ (iter <= 8)
               PROVE  FALSE
    BY DEF ConvergesInTwoRounds
  <2>1. iter > 8 /\ ee \in [Nodes -> Levels]
    BY MeshFacts DEF Converging, Solving, Typed, TypeOK
  <2>2. \A k \in Nodes : ee[k] = 0
    BY <2>1 DEF Converging, SecondRound
  <2>3. MaxOf(ee) # 0
    BY <2>1, MaxOfLevels
  <2> QED BY <2>1, <2>2, <2>3, MaxOfLevels
<1> QED BY <1>1, ConvergingInit, ConvergingNext, PTL DEF Spec
-----------------------------------------------------------------------------
(* Every iteration but the one the solver converges in is saved.           *)
LEMMA SavedInit == Init => SavesMatchSchedule
<1> SUFFICES ASSUME Init, mesh.niter = 0 PROVE saved \in IterCounts(mesh.niter)
  BY Zenon DEF Init, SavesMatchSchedule
<1> QED BY DEF Init, IterCounts

LEMMA SavedNext == Typed /\ SavesMatchSchedule /\ [Next]_vars => SavesMatchSchedule'
<1> SUFFICES ASSUME Typed, SavesMatchSchedule, [Next]_vars PROVE SavesMatchSchedule'
  OBVIOUS
<1>1. CASE StartSweep \/ Visit \/ UNCHANGED vars
  <2>1. UNCHANGED <<mesh, saved, done>>
    BY <1>1 DEF StartSweep, Visit, vars
  <2> QED BY <2>1 DEF SavesMatchSchedule
<1>2. CASE EndSweep
  <2>1. /\ mesh.niter \in Nat /\ iter \in 1 .. mesh.niter /\ saved = iter - 1
        /\ mesh' = mesh /\ saved' = Saved /\ done' = Leaving
    <3>1. mesh.niter \in Nat
      BY MeshFacts DEF Typed
    <3>2. ~ done
      BY <1>2 DEF EndSweep
    <3> QED BY <1>2, <3>1, <3>2 DEF EndSweep, Typed, TypeOK, Counting
  <2>2. CASE Stopping
    <3>1. iter % 4 = 0
      BY <2>1, <2>2 DEF Stopping, Sweep
    <3>2. saved' = iter - 1
      BY <2>1, <2>2 DEF Saved
    <3> QED BY <2>1, <3>1, <3>2 DEF SavesMatchSchedule, IterCounts
  <2>3. CASE ~ Stopping
    <3>1. saved' = iter
      BY <2>1, <2>3 DEF Saved
    <3>2. ASSUME done' PROVE iter = mesh.niter
      BY <2>1, <2>3, <3>2 DEF Leaving
    <3> QED BY <2>1, <3>1, <3>2 DEF SavesMatchSchedule, IterCounts
  <2> QED BY <2>2, <2>3
<1> QED
  BY <1>1, <1>2 DEF Next

(* The output schedule may count on the number of iterations a solve       *)
(* saves: all, or those before the one that completes a round of four.     *)
THEOREM SavesAreAsScheduled == Spec => []SavesMatchSchedule
BY SavedInit, SavedNext, Typing, PTL DEF Spec
=============================================================================
