--------------------------- MODULE BoundaryIndices ---------------------------
(***************************************************************************)
(* The two support points a boundary node interpolates its spectrum from:  *)
(* the one-pass search of find_boundary_indices (src_rust/geometry.rs) and *)
(* the use update_boundaries makes of its result (src_rust/model.rs).      *)
(*                                                                         *)
(* The coordinates of a node and of a support point matter only through    *)
(* the distance between the two.  Support points are numbered from 1; 0 in *)
(* ib1 or ib2 is "none found".                                             *)
(*                                                                         *)
(* DemotedForgotten and WeightOfSecond are faulty variants, used only to   *)
(* show that the properties notice the mistake.                            *)
(***************************************************************************)
EXTENDS Integers, Sequences

CONSTANTS
  Huge,      \* the initial distance, 1e10
  Distances  \* sequences of the distances of a node to the support points

(* The search is made when there are two support points or more.  That     *)
(* they are nearer than 1e10 is true on Earth, and not checked.            *)
ASSUME IndexAssumption ==
  /\ Huge \in Nat
  /\ \A d \in Distances :
       /\ d \in Seq(Nat)
       /\ Len(d) >= 2
       /\ \A i \in DOMAIN d : d[i] < Huge

VARIABLES
  dist,  \* the distances from this node
  ic,    \* support points looked at
  dst1,  \* least distance met
  dst2,  \* second least distance met
  ib1,   \* where
  ib2

searchVars == <<dist, ic, dst1, dst2, ib1, ib2>>

nwbnd == Len(dist)

SearchInit ==
  /\ dist \in Distances
  /\ ic = 0
  /\ dst1 = Huge /\ dst2 = Huge
  /\ ib1 = 0 /\ ib2 = 0

(* Support points are counted from 1.                                      *)
Point(c) == c + 1

(* The next support point is the nearest so far, and the nearest one is    *)
(* demoted; or it is the second nearest so far; or it is neither.          *)
Nearest(d) == d < dst1

DemotedForgotten == <<dst2, ib2>>
Demoted == <<dst1, ib1>>

SecondNearest(d) == d < dst2

Look ==
  /\ ic < nwbnd
  /\ LET d == dist[ic + 1] IN
       \/ /\ Nearest(d)
          /\ dst1' = d /\ ib1' = Point(ic)
          /\ dst2' = Demoted[1] /\ ib2' = Demoted[2]
       \/ /\ ~ Nearest(d) /\ SecondNearest(d)
          /\ dst2' = d /\ ib2' = Point(ic)
          /\ UNCHANGED <<dst1, ib1>>
       \/ /\ ~ Nearest(d) /\ ~ SecondNearest(d)
          /\ UNCHANGED <<dst1, dst2, ib1, ib2>>
  /\ ic' = ic + 1
  /\ UNCHANGED dist

SearchSpec == SearchInit /\ [][Look]_searchVars

Found == ic = nwbnd

(* fac = dst2 / (dst1 + dst2) as numerator and denominator: the weight of  *)
(* ib1, the rest being the weight of ib2.                                  *)
WeightOfSecond == <<dst1, dst1 + dst2>>
Weight == <<dst2, dst1 + dst2>>
-----------------------------------------------------------------------------
SearchTypeOK ==
  /\ dist \in Distances
  /\ ic \in 0 .. nwbnd
  /\ dst1 \in 0 .. Huge /\ dst2 \in 0 .. Huge
  /\ ib1 \in 0 .. nwbnd /\ ib2 \in 0 .. nwbnd

(* The first of the nearest support points, and a nearest of the others.   *)
IsNearest(i) ==
  \A j \in 1 .. ic : dist[i] < dist[j] \/ (dist[i] = dist[j] /\ i <= j)
IsNearestBut(i, k) ==
  i # k /\ \A j \in (1 .. ic) \ {k} : dist[i] <= dist[j]

(* One pass finds the two nearest support points, also when several are    *)
(* equally far and whatever the order they come in.  At the end both are   *)
(* points: update_boundaries indexes with ib1 - 1 and ib2 - 1 unchecked.   *)
FindsTheTwoNearest ==
  /\ ic >= 1 => ib1 \in 1 .. ic /\ dst1 = dist[ib1] /\ IsNearest(ib1)
  /\ ic >= 2 => ib2 \in 1 .. ic /\ dst2 = dist[ib2] /\ IsNearestBut(ib2, ib1)

(* The nearer point weighs more, and the weight is a number in 0 .. 1      *)
(* unless the node lies on two support points at once.                     *)
NearerWeighsMore ==
  Found /\ ~ (\E i, j \in 1 .. nwbnd : i # j /\ dist[i] + dist[j] = 0) =>
    /\ Weight[2] > 0
    /\ Weight[2] <= 2 * Weight[1] /\ Weight[1] <= Weight[2]
=============================================================================
