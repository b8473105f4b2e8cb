-------------------------- MODULE DomainPreparation --------------------------
(***************************************************************************)
(* The part of Model::new (src_rust/model.rs) that decides how the sea     *)
(* boundary is forced: the mask of DomainMask, then find_boundary_indices, *)
(* which lists the boundary nodes again and makes the search of            *)
(* BoundaryIndices for each.  update_boundaries joins the two lists by     *)
(* position.                                                               *)
(*                                                                         *)
(* BoundaryOfEnclosure is a faulty variant, used only to show that the     *)
(* properties notice the mistake.                                          *)
(***************************************************************************)
EXTENDS DomainMask, BoundaryIndices

CONSTANT
  Tables(_)  \* [node -> distances to the support points], explored with
             \* the facing of a mesh

ASSUME PreparationAssumption ==
  \A f \in Facings : \A d \in Tables(f) :
    /\ d \in [Nodes -> Distances \union {<<0>>}]
    /\ \A j, k \in Nodes : Len(d[j]) = Len(d[k])

VARIABLES
  table,  \* the distances of this mesh
  temp,   \* the boundary nodes, as find_boundary_indices lists them
  stage,  \* "mask", "node", "search" or "ready"
  inds,   \* the pairs <<ind1, ind2>> found
  fac     \* their weights

prepVars == <<table, temp, stage, inds, fac>>
preparationVars == <<vars, searchVars, prepVars>>

PreparationInit ==
  /\ Init
  /\ table \in Tables(facing)
  /\ dist = table[1] /\ ic = 0
  /\ dst1 = Huge /\ dst2 = Huge /\ ib1 = 0 /\ ib2 = 0
  /\ temp = <<>>
  /\ stage = "mask"
  /\ inds = <<>> /\ fac = <<>>

Mask ==
  /\ stage = "mask"
  /\ Next
  /\ UNCHANGED <<searchVars, prepVars>>

(* The mask searched is the refined one.                                   *)
BoundaryOfEnclosure ==
  Listing([k \in Nodes |-> IF k \in open \cap inside THEN 2 ELSE 1], 2)
BoundaryNodes == Listing(msk, 2)

FindBoundaryIndices ==
  /\ stage = "mask"
  /\ phase = "done"
  /\ temp' = BoundaryNodes
  /\ stage' = "node"
  /\ UNCHANGED <<vars, searchVars, table, inds, fac>>

(* The next boundary node.  A single support point forces it alone.        *)
Here == temp[Len(inds) + 1]

StartSearch ==
  /\ stage = "node"
  /\ Len(inds) < Len(temp)
  /\ Len(table[Here]) > 1
  /\ dist' = table[Here] /\ ic' = 0
  /\ dst1' = Huge /\ dst2' = Huge /\ ib1' = 0 /\ ib2' = 0
  /\ stage' = "search"
  /\ UNCHANGED <<vars, table, temp, inds, fac>>

TakeOnly ==
  /\ stage = "node"
  /\ Len(inds) < Len(temp)
  /\ Len(table[Here]) = 1
  /\ inds' = Append(inds, <<1, 1>>)
  /\ fac' = Append(fac, <<1, 1>>)
  /\ UNCHANGED <<vars, searchVars, table, temp, stage>>

Search ==
  /\ stage = "search"
  /\ Look
  /\ UNCHANGED <<vars, prepVars>>

Store ==
  /\ stage = "search"
  /\ Found
  /\ inds' = Append(inds, <<ib1, ib2>>)
  /\ fac' = Append(fac, Weight)
  /\ stage' = "node"
  /\ UNCHANGED <<vars, searchVars, table, temp>>

Ready ==
  /\ stage = "node"
  /\ Len(inds) = Len(temp)
  /\ stage' = "ready"
  /\ UNCHANGED <<vars, searchVars, table, temp, inds, fac>>

PreparationNext ==
  Mask \/ FindBoundaryIndices \/ StartSearch \/ TakeOnly \/ Search \/ Store \/ Ready

(* One thread prepares the domain.                                         *)
PreparationSpec ==
  PreparationInit /\ [][PreparationNext]_preparationVars
-----------------------------------------------------------------------------
(* A boundary node is forced by the support points nearest to it: position *)
(* i of ind1, ind2 and fac belongs to node i of the list the mask loop     *)
(* made, no node of the final mask is left out, and the nearest point      *)
(* weighs no less than the other.                                          *)
ForcedByItsNeighbours ==
  stage = "ready" =>
    /\ {nmindbnd[p] : p \in DOMAIN nmindbnd} = {k \in Nodes : msk[k] = 2}
    /\ Len(inds) = Len(nmindbnd) /\ Len(fac) = Len(nmindbnd)
    /\ \A p \in DOMAIN nmindbnd :
         LET d == table[nmindbnd[p]]
             one == inds[p][1]
             other == inds[p][2]
         IN /\ \A c \in DOMAIN d : d[one] <= d[c]
            /\ \A c \in DOMAIN d \ {one} : d[other] <= d[c]
            /\ other = one => Len(d) = 1
            /\ 2 * fac[p][1] >= fac[p][2]
=============================================================================
