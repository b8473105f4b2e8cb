----------------------------- MODULE DomainMask -----------------------------
(***************************************************************************)
(* Refinement of the node mask from the enclosure and Neumann polylines:   *)
(* neuboundaries and the mask loops of compute_domain_geometry             *)
(* (src_rust/geometry.rs).                                                 *)
(*                                                                         *)
(* Mask values: 1 inner point, 2 sea boundary, 3 Neumann boundary.  The    *)
(* link neumannconnected[k] = j makes the solver copy node k onto node j   *)
(* in every sweep; 0 is no link.  The geometric tests are inputs: which    *)
(* nodes lack an upwind neighbour in some direction, which lie inside the  *)
(* enclosure, and which node faces which across which Neumann segment.     *)
(*                                                                         *)
(* RefineUnchecked, RefineSource and RefineKeepingLinks are faulty         *)
(* variants, used only to show that the properties notice them.            *)
(***************************************************************************)
EXTENDS Integers, Sequences

CONSTANTS
  N,          \* number of nodes
  OpenSets,   \* sets of nodes lacking an upwind neighbour in some direction
  InsideSets, \* sets of nodes inside the enclosure polygon
  Facings     \* sequences of pairs <<k, kmin>>, in the order of the loops of
              \* neuboundaries: kmin is the node opposite to line node k

ASSUME MaskAssumption ==
  /\ N \in Nat \ {0}
  /\ OpenSets \subseteq SUBSET (1 .. N)
  /\ InsideSets \subseteq SUBSET (1 .. N)
  /\ \A f \in Facings :
       /\ f \in Seq((1 .. N) \X (1 .. N))
       /\ \A i \in 1 .. Len(f) : f[i][1] # f[i][2]

Nodes == 1 .. N

VARIABLES
  open,             \* this mesh: see OpenSets
  inside,           \* see InsideSets
  facing,           \* see Facings
  phase,            \* the loop being executed
  i,                \* its loop variable: a node, or a position of facing
  msk,              \* node mask
  neumannconnected, \* links
  nmindbnd,         \* list of sea boundary nodes
  neubnd            \* list of Neumann boundary nodes

inputs == <<open, inside, facing>>
vars == <<open, inside, facing, phase, i, msk, neumannconnected, nmindbnd, neubnd>>

Init ==
  /\ open \in OpenSets
  /\ inside \in InsideSets
  /\ facing \in Facings
  /\ phase = "enclosure"
  /\ i = 1
  /\ msk = [k \in Nodes |-> 1]
  /\ neumannconnected = [k \in Nodes |-> 0]
  /\ nmindbnd = <<>>
  /\ neubnd = <<>>

(* Moves on to the next loop when the current one is over.                 *)
Leave(loop, last, next) ==
  /\ phase = loop
  /\ i > last
  /\ phase' = next
  /\ i' = 1
  /\ UNCHANGED <<inputs, msk, neumannconnected, nmindbnd, neubnd>>

(* An open node inside the enclosure is a sea boundary.                    *)
Enclosure ==
  /\ phase = "enclosure"
  /\ i <= N
  /\ msk' = IF i \in open /\ i \in inside THEN [msk EXCEPT ![i] = 2] ELSE msk
  /\ i' = i + 1
  /\ UNCHANGED <<inputs, phase, neumannconnected, nmindbnd, neubnd>>

(* neuboundaries: the link is stored at the opposite node, so a later line *)
(* node facing the same opposite replaces an earlier one.                  *)
Connect ==
  /\ phase = "connect"
  /\ i <= Len(facing)
  /\ neumannconnected' =
       [neumannconnected EXCEPT ![facing[i][2]] = facing[i][1]]
  /\ i' = i + 1
  /\ UNCHANGED <<inputs, phase, msk, nmindbnd, neubnd>>

(* Neumann refinement: only inner nodes keep their link, and its target    *)
(* becomes a Neumann boundary.  The mask tested is the one under way.      *)
RefineUnchecked ==
  /\ phase = "refine"
  /\ i <= N
  /\ msk' = IF neumannconnected[i] > 0
            THEN [msk EXCEPT ![neumannconnected[i]] = 3] ELSE msk
  /\ i' = i + 1
  /\ UNCHANGED <<inputs, phase, neumannconnected, nmindbnd, neubnd>>

RefineSource ==
  /\ phase = "refine"
  /\ i <= N
  /\ msk' = IF neumannconnected[i] > 0 /\ msk[i] = 1
            THEN [msk EXCEPT ![i] = 3] ELSE msk
  /\ i' = i + 1
  /\ UNCHANGED <<inputs, phase, neumannconnected, nmindbnd, neubnd>>

RefineKeepingLinks ==
  /\ phase = "refine"
  /\ i <= N
  /\ msk' = IF neumannconnected[i] > 0 /\ msk[i] = 1
            THEN [msk EXCEPT ![neumannconnected[i]] = 3] ELSE msk
  /\ i' = i + 1
  /\ UNCHANGED <<inputs, phase, neumannconnected, nmindbnd, neubnd>>

Refine ==
  /\ phase = "refine"
  /\ i <= N
  /\ \/ /\ neumannconnected[i] > 0
        /\ msk[i] = 1
        /\ msk' = [msk EXCEPT ![neumannconnected[i]] = 3]
        /\ UNCHANGED neumannconnected
     \/ /\ neumannconnected[i] > 0
        /\ msk[i] # 1
        /\ neumannconnected' = [neumannconnected EXCEPT ![i] = 0]
        /\ UNCHANGED msk
     \/ /\ neumannconnected[i] = 0
        /\ UNCHANGED <<msk, neumannconnected>>
  /\ i' = i + 1
  /\ UNCHANGED <<inputs, phase, nmindbnd, neubnd>>

(* The nodes with mask value v, pushed in node order.                      *)
Listing(m, v) ==
  LET f[k \in 0 .. N] ==
        IF k = 0 THEN <<>>
        ELSE IF m[k] = v THEN Append(f[k - 1], k) ELSE f[k - 1]
  IN f[N]

List ==
  /\ phase = "list"
  /\ nmindbnd' = Listing(msk, 2)
  /\ neubnd' = Listing(msk, 3)
  /\ phase' = "done"
  /\ UNCHANGED <<inputs, i, msk, neumannconnected>>

Next ==
  \/ Enclosure
  \/ Leave("enclosure", N, "connect")
  \/ Connect
  \/ Leave("connect", Len(facing), "refine")
  \/ Refine
  \/ Leave("refine", N, "list")
  \/ List

Spec == Init /\ [][Next]_vars
-----------------------------------------------------------------------------
Linked(k) == neumannconnected[k] > 0
Refined == phase \in {"list", "done"}

TypeOK ==
  /\ open \in OpenSets /\ inside \in InsideSets /\ facing \in Facings
  /\ phase \in {"enclosure", "connect", "refine", "list", "done"}
  /\ i \in 1 .. (N + Len(facing) + 1)
  /\ msk \in [Nodes -> {1, 2, 3}]
  /\ neumannconnected \in [Nodes -> 0 .. N]
  /\ nmindbnd \in Seq(Nodes)
  /\ neubnd \in Seq(Nodes)

(* A surviving link ends in a Neumann node and never starts at a sea       *)
(* boundary: the solver must not overwrite a node it computes or that      *)
(* carries the forcing, nor copy the forcing onto a Neumann node.          *)
LinksEndInNeumannNodes ==
  Refined => \A k \in Nodes : Linked(k) =>
    /\ msk[neumannconnected[k]] = 3
    /\ msk[k] # 2

(* Links can be chained (a corner of the polyline makes a Neumann node the *)
(* source of another link), but a chain always leads to smaller node       *)
(* numbers until its last link, so it never closes: no node is fed its own *)
(* energy through copies.                                                  *)
ChainsDescend ==
  Refined => \A k \in Nodes :
    LET j == neumannconnected[k] IN
    Linked(k) /\ Linked(j) => j < k

(* A Neumann node is always the target of a link: a node is never set      *)
(* aside from the computation without a source to copy.                    *)
NeumannNodesAreFed ==
  Refined => \A j \in Nodes :
    msk[j] = 3 => \E k \in Nodes : neumannconnected[k] = j
=============================================================================
