---------------------------- MODULE MCObsMapping ----------------------------
(***************************************************************************)
(* Up to MaxPoints points: one or two anywhere, more of them against the   *)
(* order of x with at most two equal.  Two faces of any extent in x, which *)
(* cover all the points of their boxes or only the first, with weights or  *)
(* without.                                                                *)
(***************************************************************************)
EXTENDS ObsMapping

CONSTANTS MaxPoints, Size

Columns(n) == {[p \in 1 .. n |-> IF n > 2 THEN (2 * p) % 3 ELSE p % 2]}
Rows(n) ==
  {x \in [1 .. n -> 0 .. Size] :
     n > 2 => \A p, q \in 1 .. n : /\ p < q => x[p] >= x[q]
                                  /\ p + 2 <= q => x[p] > x[q]}
MCPointSets ==
  UNION {{[x2 |-> x, y2 |-> y] : x \in Rows(n), y \in Columns(n)} : n \in 0 .. MaxPoints}

BoundsX == {b \in (0 .. Size) \X (0 .. Size) : b[1] < b[2]}
BoundsY == {<<0, 2>>, <<1, 1>>}
FaceOf(c, bx, by, kind) ==
  LET box == InBox(c, [x |-> bx, y |-> by])
      covered == IF kind = "first" /\ box # {} THEN {Min(box)} ELSE box
  IN [x |-> bx, y |-> by, covered |-> covered,
      singular |-> IF kind = "unweighted" THEN covered ELSE {}]
MCFaceSets(c) ==
  {<<FaceOf(c, b1, y1, "whole"), FaceOf(c, b2, y2, kind)>> :
     b1, b2 \in BoundsX, y1, y2 \in BoundsY, kind \in {"whole", "first", "unweighted"}}
=============================================================================
