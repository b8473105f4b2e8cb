----------------------------- MODULE MCHeadland -----------------------------
(***************************************************************************)
(* A mesh whose waves must turn round a headland.                          *)
(***************************************************************************)
EXTENDS SweepCases

(* Six nodes.  Waves pass the headland to node 6, turn, and come back      *)
(* behind it along 5, 4 and 2 to node 3.  The nodes behind it lie so that  *)
(* every sweep of the first round advances the waves by one node.          *)
HeadlandUp ==
  [k \in Nodes |-> CASE k = 6 -> {1} [] k = 5 -> {6} [] k = 4 -> {5}
                     [] k = 2 -> {4} [] k = 3 -> {2} [] OTHER -> {}]
HeadlandMeshes ==
  {Case(NoLink, HeadlandUp, Nodes, <<1, 4, 5, 6, 2, 3>>, [k \in Nodes |-> Keep], 0, niter) :
     niter \in Niters}
=============================================================================
