----------------------------- MODULE ObsMapping -----------------------------
(***************************************************************************)
(* Finding the face of every observation point: hunt and make_map_fm       *)
(* (src_rust/interp.rs).  The points are sorted by x and by y once; for    *)
(* each face the place of its centre in both orders is hunted from where   *)
(* the previous face left off, and only the points found in its box on     *)
(* both sides of that place are tested against the face itself.            *)
(*                                                                         *)
(* Data.  A face is its box, the points it covers (ipon) and those of them *)
(* bilin5 finds no weights for.  The nodes and the weights of a point are  *)
(* the number of the face they come from.  The centre of a box is halfway  *)
(* between its bounds, so coordinates are compared doubled.                *)
(*                                                                         *)
(* Faulty variants, used only to show that the properties notice the       *)
(* mistake: HuntedAgain, BelowOpen, AboveSkipping, ClearedBelow and        *)
(* CoverOnce.                                                              *)
(***************************************************************************)
EXTENDS Integers, Sequences, FiniteSetsExt

CONSTANTS
  PointSets,  \* records of the coordinates of the points, x2 and y2
  FaceSets(_) \* the sequences of faces explored for such a record

Points(c) == 1 .. Len(c.x2)

(* The positions of an array in ascending order, however ties are broken.  *)
Sorting(nr, s) ==
  /\ nr \in [1 .. Len(s) -> 1 .. Len(s)]
  /\ \A p \in 1 .. Len(s) : \E i \in 1 .. Len(s) : nr[i] = p
  /\ \A i \in 1 .. Len(s) - 1 : s[nr[i]] <= s[nr[i + 1]]

Within(v, bounds) == bounds[1] <= v /\ v <= bounds[2]
InBox(c, face) ==
  {p \in Points(c) : Within(c.x2[p], face.x) /\ Within(c.y2[p], face.y)}

(* What a face covers lies in its box (ipon works with coordinates rounded *)
(* to f32 relative to the point, which is taken to be exact).              *)
FaceOver(c) ==
  [x : Int \X Int, y : Int \X Int,
   covered : SUBSET Points(c), singular : SUBSET Points(c)]
ASSUME FacesAssumption ==
  \A c \in PointSets :
    /\ c.x2 \in Seq(Int) /\ c.y2 \in Seq(Int) /\ Len(c.x2) = Len(c.y2)
    /\ \A fs \in FaceSets(c) :
         /\ fs \in Seq(FaceOver(c))
         /\ \A i \in 1 .. Len(fs) :
              /\ fs[i].x[1] <= fs[i].x[2] /\ fs[i].y[1] <= fs[i].y[2]
              /\ fs[i].singular \subseteq fs[i].covered
              /\ fs[i].covered \subseteq InBox(c, fs[i])

VARIABLES
  coords,      \* the observation points
  faces,       \* the faces of the mesh
  nrx, nry,    \* the points sorted by x, and by y
  i1,          \* the face whose turn it is
  step,        \* the next part of its turn
  lomnx,       \* where the centre of the last hunt lies in x: that many
  lomny,       \* points are to its left; lomny the same in y
  iflag,       \* the points in the strip of x
  near,        \* the points in the box (nrin)
  iref, wref   \* [point -> face its nodes, and its weights, come from]

inputs == <<coords, faces, nrx, nry>>
vars == <<coords, faces, nrx, nry, i1, step, lomnx, lomny, iflag, near, iref, wref>>

n2 == Len(coords.x2)
xs == [i \in 1 .. n2 |-> coords.x2[nrx[i]]]
ys == [i \in 1 .. n2 |-> coords.y2[nry[i]]]

Init ==
  /\ coords \in PointSets
  /\ nrx \in [1 .. n2 -> 1 .. n2] /\ Sorting(nrx, coords.x2)
  /\ nry \in [1 .. n2 -> 1 .. n2] /\ Sorting(nry, coords.y2)
  /\ faces \in FaceSets(coords)
  /\ i1 = 1
  /\ step = "hunt"
  /\ lomnx = 1 /\ lomny = 1
  /\ iflag = {}
  /\ near = {}
  /\ iref = [p \in 1 .. n2 |-> 0]
  /\ wref = [p \in 1 .. n2 |-> 0]
-----------------------------------------------------------------------------
(* hunt(s, x, jlo), x2 being twice the x sought: strides of doubling size  *)
(* up or down from the cached place jlo until x is passed, then bisection. *)
(* The strides compare with >=, the bisection with >.                      *)
Bracket(s) == {b \in (0 .. Len(s)) \X (1 .. Len(s) + 1) : b[1] < b[2]}
Bisect(s, x2) ==
  LET f[b \in Bracket(s)] ==
        IF b[2] - b[1] = 1 THEN b[1]
        ELSE LET m == (b[2] + b[1]) \div 2 IN
             IF x2 > 2 * s[m] THEN f[<<m, b[2]>>] ELSE f[<<b[1], m>>]
  IN f

Stride(s) == (1 .. Len(s)) \X (1 .. 2 * Len(s))  \* a place and a stride
StrideUp(s, x2) ==
  LET f[d \in Stride(s)] ==
        LET jhi == d[1] + d[2] IN
        IF jhi > Len(s) THEN <<d[1], Len(s) + 1>>
        ELSE IF x2 >= 2 * s[jhi] THEN f[<<jhi, 2 * d[2]>>]
        ELSE <<d[1], jhi>>
  IN f

StrideDown(s, x2) ==
  LET f[d \in Stride(s)] ==
        LET jlo == d[1] - d[2] IN
        IF jlo < 1 THEN <<0, d[1]>>
        ELSE IF x2 < 2 * s[jlo] THEN f[<<jlo, 2 * d[2]>>]
        ELSE <<jlo, d[1]>>
  IN f

HuntedAgain(s, x2, jlo) == jlo
Hunt(s, x2, jlo) ==
  Bisect(s, x2)[IF jlo = 0 \/ jlo > Len(s) THEN <<0, Len(s) + 1>>
                ELSE IF x2 >= 2 * s[jlo] THEN StrideUp(s, x2)[<<jlo, 1>>]
                ELSE StrideDown(s, x2)[<<jlo, 1>>]]

Face == faces[i1]
Twice(bounds) == bounds[1] + bounds[2]   \* twice the centre of a box

(* hunt reads the ends of the array unconditionally: without points, from  *)
(* an empty file, it panics at the first face.                             *)
HuntCentre ==
  /\ step = "hunt"
  /\ i1 <= Len(faces)
  /\ n2 > 0
  /\ lomnx' = Hunt(xs, Twice(Face.x), lomnx)
  /\ lomny' = Hunt(ys, Twice(Face.y), lomny)
  /\ step' = "flag"
  /\ UNCHANGED <<inputs, i1, iflag, near, iref, wref>>

(* The two loops from the centre outwards end at the first point outside.  *)
BelowOpen(s, from, low) == {i \in 1 .. from : \A j \in i .. from : s[j] > low}
Below(s, from, low) == {i \in 1 .. from : \A j \in i .. from : s[j] >= low}
AboveSkipping(s, from, high) ==
  {i \in from + 2 .. Len(s) : \A j \in from + 2 .. i : s[j] <= high}
Above(s, from, high) ==
  {i \in from + 1 .. Len(s) : \A j \in from + 1 .. i : s[j] <= high}

StripX == Below(xs, lomnx, Face.x[1]) \union Above(xs, lomnx, Face.x[2])
StripY == Below(ys, lomny, Face.y[1]) \union Above(ys, lomny, Face.y[2])

Flag ==
  /\ step = "flag"
  /\ iflag' = iflag \union {nrx[i] : i \in StripX}
  /\ step' = "pick"
  /\ UNCHANGED <<inputs, i1, lomnx, lomny, near, iref, wref>>

(* The flags are taken back over the range lominx .. lomaxx of the strip.  *)
ClearedBelow == {nrx[i] : i \in Below(xs, lomnx, Face.x[1])}
Cleared ==
  {nrx[i] : i \in Min(StripX \union {lomnx}) .. Max(StripX \union {lomnx}) \ {0}}

Pick ==
  /\ step = "pick"
  /\ near' = {nry[i] : i \in StripY} \cap iflag
  /\ iflag' = iflag \ Cleared
  /\ step' = "cover"
  /\ UNCHANGED <<inputs, i1, lomnx, lomny, iref, wref>>

(* The candidates the face covers get its nodes, and its weights too if    *)
(* bilin5 finds any; if not, w is left as it was.                          *)
CoverOnce ==
  /\ step = "cover"
  /\ LET hit == {p \in near \cap Face.covered : iref[p] = 0} IN
       /\ iref' = [p \in 1 .. n2 |-> IF p \in hit THEN i1 ELSE iref[p]]
       /\ wref' = [p \in 1 .. n2 |-> IF p \in hit \ Face.singular THEN i1 ELSE wref[p]]
  /\ i1' = i1 + 1
  /\ step' = "hunt"
  /\ UNCHANGED <<inputs, lomnx, lomny, iflag, near>>
Cover ==
  /\ step = "cover"
  /\ LET hit == near \cap Face.covered IN
       /\ iref' = [p \in 1 .. n2 |-> IF p \in hit THEN i1 ELSE iref[p]]
       /\ wref' = [p \in 1 .. n2 |-> IF p \in hit \ Face.singular THEN i1 ELSE wref[p]]
  /\ i1' = i1 + 1
  /\ step' = "hunt"
  /\ UNCHANGED <<inputs, lomnx, lomny, iflag, near>>

Next == HuntCentre \/ Flag \/ Pick \/ Cover

Spec == Init /\ [][Next]_vars
-----------------------------------------------------------------------------
TypeOK ==
  /\ i1 \in 1 .. Len(faces) + 1
  /\ step \in {"hunt", "flag", "pick", "cover"}
  /\ lomnx \in 0 .. n2 \union {1} /\ lomny \in 0 .. n2 \union {1}
  /\ iflag \subseteq Points(coords) /\ near \subseteq Points(coords)
  /\ iref \in [Points(coords) -> 0 .. Len(faces)]
  /\ wref \in [Points(coords) -> 0 .. Len(faces)]

(* Wherever the hunt starts, it ends at a place the centre of the face     *)
(* belongs to: nothing before it lies beyond, nothing after it before.     *)
HuntFindsThePlace ==
  step = "flag" =>
    /\ lomnx > 0 => 2 * xs[lomnx] <= Twice(Face.x)
    /\ lomnx < n2 => Twice(Face.x) <= 2 * xs[lomnx + 1]
    /\ lomny > 0 => 2 * ys[lomny] <= Twice(Face.y)
    /\ lomny < n2 => Twice(Face.y) <= 2 * ys[lomny + 1]

(* The two strips meet in exactly the points of the box, whatever flags    *)
(* and places earlier faces left: no point is missed, none is tested that  *)
(* a flag forgotten by an earlier face let through.                        *)
CandidatesAreTheBox == step = "cover" => near = InBox(coords, Face)

(* The sorted, cached search finds what testing every point against every  *)
(* face would find.                                                        *)
BruteForce == INSTANCE PointLocation
ImplementsPointLocation == BruteForce!LocationSpec

=============================================================================
