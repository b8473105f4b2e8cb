------------------------- MODULE MCDomainPreparation -------------------------
(***************************************************************************)
(* Four nodes, a few enclosures, every way up to MaxFacings nodes can face *)
(* one another across the segments of the Neumann polyline, with one table *)
(* of distances or a single support point; and every sequence of up to     *)
(* MaxPoints distances, on a mesh without Neumann nodes.                   *)
(***************************************************************************)
EXTENDS DomainPreparation

CONSTANTS MaxFacings, MaxPoints

Pairs == {p \in Nodes \X Nodes : p[1] # p[2]}

MCFacings == UNION {[1 .. n -> Pairs] : n \in 0 .. MaxFacings}
MCOpenSets == {Nodes, {1, 3}}
MCInsideSets == {{}, {2, 3}, Nodes}

MCDistances == UNION {[1 .. n -> 0 .. Huge - 1] : n \in 2 .. MaxPoints}

(* The distances d as seen from node k.                                    *)
SeenFrom(d, k) == [c \in DOMAIN d |-> d[1 + ((c + k) % Len(d))]]
MCTables(f) ==
  IF f = <<>> THEN {[k \in Nodes |-> SeenFrom(d, k)] : d \in MCDistances}
  ELSE {[k \in Nodes |-> SeenFrom(<<0, 2, 1>>, k)], [k \in Nodes |-> <<0>>]}
=============================================================================
