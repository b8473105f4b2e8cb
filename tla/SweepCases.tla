----------------------------- MODULE SweepCases -----------------------------
(***************************************************************************)
(* How the cases of SweepSolver are put together.  Node 1 is the sea       *)
(* boundary.  Nodes are numbered along the mean wave direction, so that    *)
(* the first order is the identity; the second runs across it.             *)
(***************************************************************************)
EXTENDS SweepSolver

CONSTANTS Niters

Backwards(s) == [i \in Nodes |-> s[N + 1 - i]]
Along == [i \in Nodes |-> i]
Orders(across) ==
  [s \in Sweeps |-> CASE s = 1 -> Along [] s = 2 -> across
                      [] s = 3 -> Backwards(across) [] s = 4 -> Backwards(Along)]

Keep == [e \in Levels |-> e]
Dissipate == [e \in Levels |-> IF e = 0 THEN 0 ELSE e - 1]
Shoal == [e \in Levels |-> IF e \in {0, MaxLevel} THEN e ELSE e + 1]

NoLink == [k \in Nodes |-> 0]
Link(i, j) == [NoLink EXCEPT ![i] = j]

(* Node 1 is the sea boundary; the target of a link is a Neumann node.     *)
Msk(conn) ==
  [k \in Nodes |-> IF k = 1 THEN 2
                   ELSE IF \E i \in Nodes : conn[i] = k THEN 3 ELSE 1]

Case(conn, up, wet, across, response, left, niter) ==
  [msk |-> Msk(conn), conn |-> conn, order |-> Orders(across), up |-> up,
   wet |-> wet, response |-> response, restart |-> left > 0, niter |-> niter,
   carried |-> [k \in Nodes |-> IF k = 1 THEN MaxLevel - 1 ELSE left]]
=============================================================================
