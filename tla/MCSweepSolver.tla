--------------------------- MODULE MCSweepSolver ---------------------------
(***************************************************************************)
(* Meshes with any upwind relation, with cycles or without, with and       *)
(* without dry nodes and Neumann nodes (fed by a node the first sweep      *)
(* meets before or after it), energy left behind on entry or not.          *)
(***************************************************************************)
EXTENDS SweepCases

Shuffled ==
  [i \in Nodes |-> IF i % 2 = 0 THEN i - 1 ELSE IF i = N THEN N ELSE i + 1]

Upwind ==
  {[k \in Nodes |-> IF k = 1 THEN {} ELSE v[k] \ {k}] : v \in [2 .. N -> SUBSET Nodes]}

MCMeshes ==
  {Case(conn, up, wet, Shuffled, response, left, niter) :
     conn \in {NoLink, Link(2, 3), Link(4, 3)},
     up \in Upwind,
     wet \in {Nodes, Nodes \ {2}},
     response \in {[k \in Nodes |-> Keep],
                   [k \in Nodes |-> IF k = 2 THEN Shoal ELSE Dissipate]},
     left \in {0, MaxLevel}, niter \in Niters}
=============================================================================
