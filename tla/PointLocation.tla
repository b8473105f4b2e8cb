---------------------------- MODULE PointLocation ----------------------------
(***************************************************************************)
(* What make_map_fm promises: every observation point is tested against    *)
(* every face, in the order of the faces, and belongs to the last one that *)
(* covers it.  Nothing is sorted, hunted or flagged.                       *)
(***************************************************************************)
EXTENDS Integers, Sequences

VARIABLES
  faces,   \* the faces, with the points each covers
  i1,      \* the face whose turn it is
  iref,    \* [point -> face its nodes are taken from, 0 for none]
  wref     \* [point -> face its weights were computed for, 0 for zeros]

locationVars == <<faces, i1, iref, wref>>

LocationInit ==
  /\ i1 = 1
  /\ \A p \in DOMAIN iref : iref[p] = 0 /\ wref[p] = 0

Locate ==
  /\ i1 <= Len(faces)
  /\ iref' = [p \in DOMAIN iref |->
                IF p \in faces[i1].covered THEN i1 ELSE iref[p]]
  /\ wref' = [p \in DOMAIN wref |->
                IF p \in faces[i1].covered \ faces[i1].singular THEN i1 ELSE wref[p]]
  /\ i1' = i1 + 1
  /\ UNCHANGED faces

LocationSpec == LocationInit /\ [][Locate]_locationVars
=============================================================================
