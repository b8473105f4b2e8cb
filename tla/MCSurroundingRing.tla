-------------------------- MODULE MCSurroundingRing --------------------------
(***************************************************************************)
(* Fans of up to MaxCells cells, triangles and quadrilaterals mixed, open  *)
(* and closed, listed in every order and with every combination of         *)
(* orientations (of MaxCells cells, the even and the odd ones alike); and  *)
(* every sequence of up to MaxLoose triangles on LooseNodes, most of which *)
(* are no proper fans.                                                     *)
(***************************************************************************)
EXTENDS SurroundingRing, SequencesExt

CONSTANTS MaxCells, MaxLoose, LooseNodes

Node1 == 1
MCOthers == 2 .. (2 * MaxCells + 2)

(* Cell c of a fan with the given numbers of edges per cell: its rim.      *)
Before(sizes, c) == c - 1 + Cardinality({d \in 1 .. (c - 1) : sizes[d] = 2})
RimNode(sizes, closed, i) ==
  IF closed /\ i = Before(sizes, Len(sizes) + 1) THEN 2 ELSE i + 2
Rim(sizes, closed, c) ==
  [i \in 1 .. (sizes[c] + 1) |-> RimNode(sizes, closed, Before(sizes, c) + i - 1)]

Rotated(s, r) == [i \in DOMAIN s |-> s[((i + r - 1) % Len(s)) + 1]]
Face(rim, flipped, r) ==
  Rotated(<<Node1>> \o (IF flipped THEN Reverse(rim) ELSE rim), r)

Cells(n) == 1 .. n
Orders(n) == {o \in [Cells(n) -> Cells(n)] : Cardinality({o[c] : c \in Cells(n)}) = n}
Rotations(n) == IF n = MaxCells THEN {1} ELSE 0 .. 3
Flips(n) ==
  IF n = MaxCells THEN {[c \in Cells(n) |-> g[c % 2]] : g \in [0 .. 1 -> BOOLEAN]}
  ELSE [Cells(n) -> BOOLEAN]

Listed(n, sizes, closed, order, flipped, r) ==
  [c \in Cells(n) |-> Face(Rim(sizes, closed, order[c]), flipped[c], r)]
ProperFans(n) ==
  {Listed(n, s, FALSE, o, f, r) : s \in [Cells(n) -> {1, 2}], o \in Orders(n),
                                  f \in Flips(n), r \in Rotations(n)}
  \union
  {Listed(n, s, TRUE, o, f, r) :
     s \in {q \in [Cells(n) -> {1, 2}] : Before(q, n + 1) >= 3}, o \in Orders(n),
     f \in Flips(n), r \in Rotations(n)}

LooseTriangles ==
  {<<Node1, p[1], p[2]>> : p \in {q \in LooseNodes \X LooseNodes : q[1] # q[2]}}

MCFans ==
  UNION {ProperFans(n) : n \in 1 .. MaxCells} \union BoundedSeq(LooseTriangles, MaxLoose)
=============================================================================
