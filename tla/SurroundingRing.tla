--------------------------- MODULE SurroundingRing ---------------------------
(***************************************************************************)
(* The points around a node and its upwind neighbours: the walk of         *)
(* fm_surrounding_points and the search of find_upwind_neighbours          *)
(* (src_rust/geometry.rs), for one node and one direction.                 *)
(*                                                                         *)
(* Every cell at the node contributes the edges that do not touch it.  The *)
(* walk chains these edges into a ring, extending it at its end and, when  *)
(* that is stuck, at its start.  The upwind neighbours in a direction are  *)
(* the ends of the first edge of the ring that the ray against the waves   *)
(* meets; which edges it meets is geometry and an input.                   *)
(*                                                                         *)
(* Faulty variants, used only to show that the properties notice the       *)
(* mistake: RemoveLeading and SegmentsButLast.                             *)
(***************************************************************************)
EXTENDS Integers, Sequences, FiniteSets

CONSTANTS
  Node,   \* the node, kn
  Others, \* the numbers of the other nodes of the mesh
  Fans,   \* the cells at the node in the order of the mesh, cases explored
  np      \* room for ends of edges, 22 in the program

(* A face is the sequence of its nodes, three or four.                     *)
IsFace(f) ==
  /\ Len(f) \in {3, 4}
  /\ \A i \in DOMAIN f : f[i] \in Others \union {Node}
  /\ \A i, j \in DOMAIN f : f[i] = f[j] => i = j
  /\ \E i \in DOMAIN f : f[i] = Node

ASSUME FanAssumption ==
  /\ Node \in Nat \ {0} /\ Others \subseteq Nat \ {0, Node} /\ np \in Nat
  /\ \A cells \in Fans :
       cells \in Seq(Seq(Nat)) /\ \A c \in DOMAIN cells : IsFace(cells[c])

VARIABLES
  fan,          \* connected cells of the node
  ringPhase,    \* the part under way; "panic" when an index is out of range
  cell,         \* cells collected
  surr_points,  \* ends of the edges not yet in the ring, in pairs
  surr_pts,     \* the ring; all zeros once the walk has failed
  met,          \* edges the ray of the direction meets
  prev          \* upwind neighbours; <<1, 1>> for a closed boundary

ringVars == <<fan, ringPhase, cell, surr_points, surr_pts, met, prev>>

(* The ends of the edges a face adds: of a triangle the two other nodes in *)
(* face order, of a quadrilateral the two edges past the neighbours.       *)
Place(f) == CHOOSE ip \in DOMAIN f : f[ip] = Node
After(f, n) == f[((Place(f) + n - 1) % 4) + 1]
TwoOthers(f) == <<f[IF Place(f) = 1 THEN 2 ELSE 1], f[IF Place(f) = 3 THEN 2 ELSE 3]>>

EdgeEnds(f) ==
  IF Len(f) = 3 THEN TwoOthers(f)
  ELSE <<After(f, 1), After(f, 2), After(f, 2), After(f, 3)>>

RingInit ==
  /\ fan \in Fans
  /\ ringPhase = "collect"
  /\ cell = 0
  /\ surr_points = <<>>
  /\ surr_pts = <<>>
  /\ met = {}
  /\ prev = <<0, 0>>

Collect ==
  /\ ringPhase = "collect"
  /\ cell < Len(fan)
  /\ LET ends == EdgeEnds(fan[cell + 1]) IN
       IF Len(surr_points) + Len(ends) > np
       THEN ringPhase' = "panic" /\ UNCHANGED <<cell, surr_points>>
       ELSE /\ surr_points' = surr_points \o ends
            /\ cell' = cell + 1
            /\ UNCHANGED ringPhase
  /\ UNCHANGED <<fan, surr_pts, met, prev>>

(* The first edge starts the ring; a node without cells has none.          *)
Begin ==
  /\ ringPhase = "collect"
  /\ cell = Len(fan)
  /\ IF surr_points = <<>>
     THEN UNCHANGED <<surr_points, surr_pts>>
     ELSE /\ surr_pts' = SubSeq(surr_points, 1, 2)
          /\ surr_points' = SubSeq(surr_points, 3, Len(surr_points))
  /\ ringPhase' = "walk"
  /\ UNCHANGED <<fan, cell, met, prev>>

(* findloc_range: n is the first place of node k among the edges left.     *)
FirstAt(k, n) ==
  /\ n \in DOMAIN surr_points
  /\ surr_points[n] = k
  /\ \A m \in 1 .. (n - 1) : surr_points[m] # k
Absent(k) == \A n \in DOMAIN surr_points : surr_points[n] # k

(* The edge with an end at place n, and its other end.                     *)
PairOf(n) == IF n % 2 = 1 THEN n ELSE n - 1
Partner(n) == surr_points[IF n % 2 = 1 THEN n + 1 ELSE n - 1]
RemoveLeading(s, at) == SubSeq(s, 3, Len(s))
RemoveTwo(s, at) == SubSeq(s, 1, at - 1) \o SubSeq(s, at + 2, Len(s))

Walking == ringPhase = "walk" /\ surr_points # <<>>
FirstPoint == surr_pts[1]
LastPoint == surr_pts[Len(surr_pts)]

Extend ==
  /\ Walking
  /\ \E n \in DOMAIN surr_points :
       /\ FirstAt(LastPoint, n)
       /\ surr_pts' = Append(surr_pts, Partner(n))
       /\ surr_points' = RemoveTwo(surr_points, PairOf(n))
  /\ UNCHANGED <<fan, ringPhase, cell, met, prev>>

Prepend ==
  /\ Walking
  /\ Absent(LastPoint)
  /\ \E n \in DOMAIN surr_points :
       /\ FirstAt(FirstPoint, n)
       /\ surr_pts' = <<Partner(n)>> \o surr_pts
       /\ surr_points' = RemoveTwo(surr_points, PairOf(n))
  /\ UNCHANGED <<fan, ringPhase, cell, met, prev>>

(* No edge fits at either end: the ring is cleared, its length kept, and   *)
(* an edge given up, so that the walk fails for all that is left.          *)
Wipe ==
  /\ Walking
  /\ Absent(LastPoint)
  /\ Absent(FirstPoint)
  /\ surr_pts' = [i \in DOMAIN surr_pts |-> 0]
  /\ surr_points' = SubSeq(surr_points, 1, Len(surr_points) - 2)
  /\ UNCHANGED <<fan, ringPhase, cell, met, prev>>

(* The edges of the fan, as sets of ends.                                  *)
Edges ==
  UNION {LET e == EdgeEnds(fan[c]) IN {{e[i], e[i + 1]} : i \in {1, Len(e) - 1}} :
           c \in DOMAIN fan}

(* find_upwind_neighbours: the zeros bound the ring; without one nothing   *)
(* is set, and a ray that meets no edge has come to a closed boundary.     *)
nploc == IF 0 \in {surr_pts[i] : i \in DOMAIN surr_pts} THEN 0 ELSE Len(surr_pts)
SegmentsButLast == 1 .. (nploc - 2)
Segments == 1 .. (nploc - 1)
Hit(ip, m) == {surr_pts[ip], surr_pts[ip + 1]} \in m

Sentinel == <<1, 1>>

Upwind ==
  /\ ringPhase = "walk"
  /\ surr_points = <<>>
  /\ met' \in {m \in SUBSET Edges : Cardinality(m) <= 2}
  /\ \/ /\ nploc = 0
        /\ UNCHANGED prev
     \/ /\ nploc > 0
        /\ \A ip \in Segments : ~ Hit(ip, met')
        /\ prev' = Sentinel
     \/ \E ip \in Segments :
          /\ Hit(ip, met')
          /\ \A i \in 1 .. (ip - 1) : ~ Hit(i, met')
          /\ prev' = <<surr_pts[ip], surr_pts[ip + 1]>>
  /\ ringPhase' = "done"
  /\ UNCHANGED <<fan, cell, surr_points, surr_pts>>

RingNext == Collect \/ Begin \/ Extend \/ Prepend \/ Wipe \/ Upwind

RingSpec == RingInit /\ [][RingNext]_ringVars
-----------------------------------------------------------------------------
RingTypeOK ==
  /\ \A c \in DOMAIN fan : IsFace(fan[c])
  /\ ringPhase \in {"collect", "walk", "done", "panic"}
  /\ cell \in 0 .. Len(fan)
  /\ surr_points \in Seq(Others)
  /\ Len(surr_points) <= np /\ Len(surr_points) % 2 = 0
  /\ surr_pts \in Seq(Others) \/ surr_pts \in Seq({0})
  /\ met \subseteq Edges
  /\ prev \in {<<0, 0>>, Sentinel} \union (Others \X Others)

(* A proper fan: no neighbour is on more than two edges, no two edges are  *)
(* the same, and the cells hang together by shared edges.                  *)
Neighbours == UNION Edges
EdgeTotal ==
  LET Two == {c \in DOMAIN fan : Len(fan[c]) = 4} IN Len(fan) + Cardinality(Two)
Proper ==
  /\ Cardinality(Edges) = EdgeTotal
  /\ \A k \in Neighbours : Cardinality({e \in Edges : k \in e}) <= 2
  /\ \A S \in (SUBSET Neighbours) \ {{}, Neighbours} :
       \E e \in Edges : e \cap S # {} /\ e \ S # {}

(* The ring is all or nothing: it passes every edge of the fan once, or it *)
(* is cleared, and the ring of a proper fan is never cleared, in whatever  *)
(* order and orientation the mesh lists the cells.                         *)
RingEdges == {{surr_pts[i], surr_pts[i + 1]} : i \in 1 .. (nploc - 1)}

RingIsTheFan ==
  ringPhase = "done" =>
    /\ Proper /\ fan # <<>> => nploc > 0
    /\ nploc > 0 => nploc = EdgeTotal + 1 /\ RingEdges = Edges

(* Waves find their way in: a node with a ring has upwind neighbours in    *)
(* exactly the directions whose ray meets an edge of one of its cells, and *)
(* they are the ends of such an edge.  Elsewhere it gets the sentinel, or  *)
(* the zeros when it has no ring.                                          *)
UpwindCovers ==
  ringPhase = "done" =>
    prev \in IF nploc = 0 THEN {<<0, 0>>}
             ELSE IF met = {} THEN {<<1, 1>>}
             ELSE {p \in Others \X Others : {p[1], p[2]} \in met}
=============================================================================
