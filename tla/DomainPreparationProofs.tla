---------------------- MODULE DomainPreparationProofs -----------------------
(***************************************************************************)
(* The preparation of the domain, for every mesh, enclosure, Neumann       *)
(* polyline and set of support points: the refined mask is consistent with *)
(* its links, one pass finds the two support points nearest to a node, the *)
(* arrays update_boundaries joins by position belong together, and the     *)
(* ring around a node loses no edge of its cells.                          *)
(***************************************************************************)
EXTENDS DomainPreparation, SurroundingRing, RecursionFacts,
        FiniteSetTheorems, SequenceTheorems, TLAPS

(* The mask.  The invariant follows the loop variable of the refinement: a *)
(* node the loop has passed keeps its link for good, the end of that link  *)
(* is a Neumann node, and the loop, when it comes to a Neumann node,       *)
(* removes the link that starts there.                                     *)

(* The refinement has dealt with node k.                                   *)
Passed(k) == (phase = "refine" /\ k < i) \/ Refined

MaskType ==
  /\ facing \in Facings
  /\ phase \in {"enclosure", "connect", "refine", "list", "done"}
  /\ i \in Nat \ {0}
  /\ msk \in [Nodes -> {1, 2, 3}]
  /\ neumannconnected \in [Nodes -> 0 .. N]

NoSelfLinks == \A k \in Nodes : neumannconnected[k] # k

PassedLinks ==
  \A k \in Nodes : Passed(k) /\ Linked(k) =>
    /\ msk[neumannconnected[k]] = 3
    /\ msk[k] # 2
    /\ Linked(neumannconnected[k]) =>
         neumannconnected[k] < k \/ ~ Passed(neumannconnected[k])

Fed ==
  \A j \in Nodes : msk[j] = 3 =>
    \E k \in Nodes : Passed(k) /\ neumannconnected[k] = j

MaskInv == MaskType /\ NoSelfLinks /\ PassedLinks /\ Fed

LEMMA MaskInvInit == Init => MaskInv
<1> SUFFICES ASSUME Init PROVE MaskInv
  OBVIOUS
<1>1. MaskType /\ NoSelfLinks
  BY MaskAssumption DEF Init, MaskType, NoSelfLinks, Nodes
<1>2. PassedLinks
  BY DEF Init, PassedLinks, Linked
<1>3. Fed
  BY DEF Init, Fed
<1> QED BY <1>1, <1>2, <1>3 DEF MaskInv

(* Between the loops nothing is passed that was not, and nothing is        *)
(* forgotten: the refinement is left only when it has passed every node.   *)
LEMMA MaskInvLeave ==
  ASSUME MaskInv,
         \/ Leave("enclosure", N, "connect")
         \/ Leave("connect", Len(facing), "refine")
         \/ Leave("refine", N, "list")
         \/ List
  PROVE  MaskInv'
<1>1. UNCHANGED <<facing, msk, neumannconnected>>
  BY DEF Leave, List, inputs
<1>2. (MaskType /\ NoSelfLinks)'
  <2>1. i' \in Nat \ {0} /\ phase' \in {"enclosure", "connect", "refine", "list", "done"}
    BY DEF MaskInv, MaskType, Leave, List
  <2> QED BY <1>1, <2>1 DEF MaskInv, MaskType, NoSelfLinks
<1>3. \A k \in Nodes : Passed(k)' = Passed(k)
  BY MaskAssumption DEF Leave, List, Passed, Refined, MaskInv, MaskType, Nodes
<1>4. \A k \in Nodes : Linked(k) => neumannconnected[k] \in Nodes
  BY MaskAssumption DEF MaskInv, MaskType, Linked, Nodes
<1>5. PassedLinks'
  BY <1>1, <1>3, <1>4 DEF MaskInv, PassedLinks, Linked
<1>6. Fed'
  BY <1>1, <1>3 DEF MaskInv, Fed
<1> QED BY <1>2, <1>5, <1>6 DEF MaskInv

LEMMA MaskInvEnclosure == MaskInv /\ Enclosure => MaskInv'
<1> SUFFICES ASSUME MaskInv, Enclosure PROVE MaskInv'
  OBVIOUS
<1>1. /\ UNCHANGED <<facing, phase, neumannconnected>>
      /\ phase = "enclosure" /\ i' = i + 1
      /\ msk' = msk \/ (i \in Nodes /\ msk' = [msk EXCEPT ![i] = 2])
  BY MaskAssumption DEF Enclosure, inputs, MaskInv, MaskType, Nodes
<1>2. MaskType' /\ NoSelfLinks'
  BY <1>1 DEF MaskInv, MaskType, NoSelfLinks
<1>3. \A k : ~ Passed(k) /\ ~ Passed(k)'
  BY <1>1 DEF Passed, Refined
<1>4. \A j \in Nodes : msk[j] # 3
  BY <1>3 DEF MaskInv, Fed
<1>5. \A j \in Nodes : msk'[j] # 3
  BY <1>1, <1>4 DEF MaskInv, MaskType
<1> QED BY <1>2, <1>3, <1>5 DEF MaskInv, PassedLinks, Fed

LEMMA MaskInvConnect == MaskInv /\ Connect => MaskInv'
<1> SUFFICES ASSUME MaskInv, Connect PROVE MaskInv'
  OBVIOUS
<1>1. /\ UNCHANGED <<facing, phase, msk>>
      /\ phase = "connect" /\ i' = i + 1
      /\ neumannconnected' =
           [neumannconnected EXCEPT ![facing[i][2]] = facing[i][1]]
  BY DEF Connect, inputs
<1>2. facing[i][1] \in Nodes /\ facing[i][2] \in Nodes /\ facing[i][1] # facing[i][2]
  <2>1. facing \in Seq(Nodes \X Nodes) /\ \A n \in 1 .. Len(facing) : facing[n][1] # facing[n][2]
    BY MaskAssumption DEF MaskInv, MaskType, Nodes
  <2>2. i \in 1 .. Len(facing)
    BY <2>1 DEF Connect, MaskInv, MaskType
  <2>3. facing[i] \in Nodes \X Nodes
    BY <2>1, <2>2
  <2> QED BY <2>1, <2>2, <2>3
<1>3. MaskType'
  BY <1>1, <1>2 DEF MaskInv, MaskType, Nodes
<1>4. NoSelfLinks'
  BY <1>1, <1>2 DEF MaskInv, MaskType, NoSelfLinks
<1>5. \A k : ~ Passed(k) /\ ~ Passed(k)'
  BY <1>1 DEF Passed, Refined
<1>6. \A j \in Nodes : msk'[j] # 3
  BY <1>1, <1>5 DEF MaskInv, Fed
<1> QED BY <1>3, <1>4, <1>5, <1>6 DEF MaskInv, PassedLinks, Fed

(* The step that matters: passing node i either turns the end of its link  *)
(* into a Neumann node, or removes the link.                               *)
LEMMA MaskInvRefine == MaskInv /\ Refine => MaskInv'
<1> SUFFICES ASSUME MaskInv, Refine PROVE MaskInv'
  OBVIOUS
<1> DEFINE target == neumannconnected[i]
<1>1. /\ UNCHANGED <<facing, phase>> /\ phase = "refine" /\ i' = i + 1
      /\ i \in Nodes /\ i \in Int /\ target \in 0 .. N
      /\ N \in Nat
  BY MaskAssumption DEF Refine, inputs, MaskInv, MaskType, Nodes
<1>2. \A k \in Nodes : Passed(k)' <=> Passed(k) \/ k = i
  BY <1>1 DEF Passed, Refined, Nodes
<1>3. \A k \in Nodes : Linked(k) => neumannconnected[k] \in Nodes
  BY <1>1 DEF MaskInv, MaskType, Linked, Nodes
<1>8. ~ Passed(i)
  BY <1>1 DEF Passed, Refined
<1>4. CASE target > 0 /\ msk[i] = 1
  <2>1. msk' = [msk EXCEPT ![target] = 3] /\ UNCHANGED neumannconnected
    BY <1>1, <1>4 DEF Refine
  <2>2. target \in Nodes /\ target # i
    BY <1>1, <1>4 DEF Nodes, MaskInv, NoSelfLinks
  <2>3. MaskType' /\ NoSelfLinks'
    BY <1>1, <2>1, <2>2 DEF MaskInv, MaskType, NoSelfLinks
  <2>4. PassedLinks'
    <3> SUFFICES ASSUME NEW k \in Nodes, Passed(k)', Linked(k)'
                 PROVE  (/\ msk[neumannconnected[k]] = 3
                         /\ msk[k] # 2
                         /\ Linked(neumannconnected[k]) =>
                              neumannconnected[k] < k \/ ~ Passed(neumannconnected[k]))'
      BY DEF PassedLinks
    <3>1. Linked(k) /\ neumannconnected[k] \in Nodes
      BY <1>3, <2>1 DEF Linked
    <3>2. CASE k = i
      <4>1. PICK j \in Nodes : j = target /\ j # k
        BY <2>2, <3>2
      <4>2. msk'[j] = 3 /\ msk'[k] = 1 /\ neumannconnected'[k] = j
        BY <1>1, <1>4, <2>1, <3>2, <4>1 DEF MaskInv, MaskType
      <4>3. j < k \/ ~ Passed(j)'
        BY <1>1, <3>2, <4>1 DEF Passed, Refined, Nodes
      <4> QED BY <4>2, <4>3
    <3>3. CASE Passed(k) /\ k # i
      <4>1. /\ msk[neumannconnected[k]] = 3
            /\ msk[k] # 2
            /\ Linked(neumannconnected[k]) =>
                 neumannconnected[k] < k \/ ~ Passed(neumannconnected[k])
        BY <3>1, <3>3 DEF MaskInv, PassedLinks
      <4>2. neumannconnected[k] # i
        BY <1>4, <4>1
      <4>3. msk'[neumannconnected[k]] = 3 /\ msk'[k] # 2
        BY <2>1, <2>2, <3>1, <4>1 DEF MaskInv, MaskType
      <4>4. Passed(neumannconnected[k])' <=> Passed(neumannconnected[k])
        BY <1>2, <2>1, <3>1, <4>2
      <4> QED BY <2>1, <4>1, <4>3, <4>4 DEF Linked
    <3> QED BY <1>2, <3>2, <3>3
  <2>5. Fed'
    <3> SUFFICES ASSUME NEW j \in Nodes, msk'[j] = 3
                 PROVE  \E k \in Nodes : Passed(k)' /\ neumannconnected'[k] = j
      BY DEF Fed
    <3>1. CASE j = target
      BY <1>1, <1>2, <2>1, <3>1
    <3>2. CASE j # target
      <4>1. msk[j] = 3
        BY <2>1, <2>2, <3>2 DEF MaskInv, MaskType
      <4> QED BY <1>2, <2>1, <4>1 DEF MaskInv, Fed
    <3> QED BY <3>1, <3>2
  <2> QED BY <2>3, <2>4, <2>5 DEF MaskInv
<1>5. CASE ~ (target > 0 /\ msk[i] = 1)
  <2>1. msk' = msk /\ neumannconnected' = [neumannconnected EXCEPT ![i] = 0]
    BY <1>1, <1>5 DEF Refine, MaskInv, MaskType
  <2>2. MaskType' /\ NoSelfLinks'
    BY <1>1, <2>1 DEF MaskInv, MaskType, NoSelfLinks, Nodes
  <2>3. \A k \in Nodes : Linked(k)' <=> Linked(k) /\ k # i
    BY <1>1, <2>1 DEF Linked, MaskInv, MaskType
  <2>4. PassedLinks'
    <3> SUFFICES ASSUME NEW k \in Nodes, Passed(k)', Linked(k)'
                 PROVE  (/\ msk[neumannconnected[k]] = 3
                         /\ msk[k] # 2
                         /\ Linked(neumannconnected[k]) =>
                              neumannconnected[k] < k \/ ~ Passed(neumannconnected[k]))'
      BY DEF PassedLinks
    <3>1. Linked(k) /\ k # i /\ Passed(k) /\ neumannconnected'[k] = neumannconnected[k]
      BY <1>2, <2>1, <2>3 DEF MaskInv, MaskType
    <3>2. neumannconnected[k] \in Nodes
      BY <1>3, <3>1
    <3>3. /\ msk[neumannconnected[k]] = 3
          /\ msk[k] # 2
          /\ Linked(neumannconnected[k]) =>
               neumannconnected[k] < k \/ ~ Passed(neumannconnected[k])
      BY <3>1 DEF MaskInv, PassedLinks
    <3>4. ASSUME Linked(neumannconnected[k])'
          PROVE  neumannconnected[k] < k \/ ~ Passed(neumannconnected[k])'
      <4>1. Linked(neumannconnected[k]) /\ neumannconnected[k] # i
        BY <2>3, <3>1, <3>2, <3>4
      <4>2. Passed(neumannconnected[k])' <=> Passed(neumannconnected[k])
        BY <1>2, <3>1, <3>2, <4>1
      <4> QED BY <3>1, <3>3, <4>1, <4>2
    <3> QED BY <2>1, <3>1, <3>3, <3>4
  <2>5. Fed'
    <3> SUFFICES ASSUME NEW j \in Nodes, msk[j] = 3
                 PROVE  \E k \in Nodes : Passed(k)' /\ neumannconnected'[k] = j
      BY <2>1 DEF Fed
    <3>1. PICK k \in Nodes : Passed(k) /\ neumannconnected[k] = j
      BY DEF MaskInv, Fed
    <3>2. k # i
      BY <1>8, <3>1
    <3> QED BY <1>2, <2>1, <3>1, <3>2 DEF MaskInv, MaskType
  <2> QED BY <2>2, <2>4, <2>5 DEF MaskInv
<1> QED BY <1>4, <1>5

LEMMA MaskInvNext == MaskInv /\ [Next]_vars => MaskInv'
<1> SUFFICES ASSUME MaskInv, [Next]_vars PROVE MaskInv'
  OBVIOUS
<1>1. CASE UNCHANGED vars
  BY <1>1 DEF vars, inputs, MaskInv, MaskType, NoSelfLinks, PassedLinks, Fed, Passed, Refined, Linked
<1>2. CASE Next
  BY <1>2, MaskInvLeave, MaskInvEnclosure, MaskInvConnect, MaskInvRefine DEF Next
<1> QED BY <1>1, <1>2

LEMMA MaskInvariance == Spec => []MaskInv
BY MaskInvInit, MaskInvNext, PTL DEF Spec

(* After the refinement every link ends in a Neumann node and none starts  *)
(* at a sea boundary, so the copies of the solver touch neither the        *)
(* forcing nor a computed node.                                            *)
THEOREM LinksAreConsistent == Spec => []LinksEndInNeumannNodes
<1>1. MaskInv => LinksEndInNeumannNodes
  BY DEF MaskInv, PassedLinks, Passed, LinksEndInNeumannNodes
<1> QED BY <1>1, MaskInvariance, PTL

(* Chains of links lead to smaller node numbers and so end: no node is fed *)
(* its own energy.                                                         *)
THEOREM ChainsEnd == Spec => []ChainsDescend
<1>1. MaskInv => ChainsDescend
  BY DEF MaskInv, PassedLinks, Passed, ChainsDescend
<1> QED BY <1>1, MaskInvariance, PTL

(* Every Neumann node has a source to copy.                                *)
THEOREM NeumannNodesHaveSources == Spec => []NeumannNodesAreFed
<1>1. MaskInv => NeumannNodesAreFed
  BY DEF MaskInv, Fed, NeumannNodesAreFed
<1> QED BY <1>1, MaskInvariance, PTL

(* The preparation of a run makes the mask and then leaves it alone, while *)
(* the support points are searched: what holds of the mask holds in it.    *)
THEOREM PreparationMakesMask == PreparationSpec => Spec
<1>1. PreparationInit => Init
  BY DEF PreparationInit
<1>2. [PreparationNext]_preparationVars => [Next]_vars
  BY DEF PreparationNext, preparationVars, Mask, FindBoundaryIndices, StartSearch, TakeOnly,
         Search, Store, Ready
<1> QED BY <1>1, <1>2, PTL DEF PreparationSpec, Spec
-----------------------------------------------------------------------------
(* The search.  The invariant says what the search has found among the     *)
(* points looked at, and that the initial distance stands for what it has  *)
(* not found.                                                              *)

(* A distance still at its initial value means that nothing was found.     *)
NothingYet ==
  /\ ic = 0 => dst1 = Huge /\ ib1 = 0
  /\ ic <= 1 => dst2 = Huge /\ ib2 = 0

SearchInv == SearchTypeOK /\ NothingYet /\ FindsTheTwoNearest

LEMMA DistancesAreNumbers ==
  ASSUME NEW d \in Distances
  PROVE  /\ Len(d) \in Nat /\ Len(d) >= 2
         /\ \A c \in 1 .. Len(d) : d[c] \in Nat /\ d[c] < Huge
BY IndexAssumption

LEMMA SearchInvInit == SearchInit => SearchInv
BY IndexAssumption, DistancesAreNumbers
   DEF SearchInit, SearchInv, SearchTypeOK, NothingYet, FindsTheTwoNearest, nwbnd

LEMMA SearchInvNext == SearchInv /\ [Look]_searchVars => SearchInv'
<1> SUFFICES ASSUME SearchInv, [Look]_searchVars PROVE SearchInv'
  OBVIOUS
<1> USE DEF SearchInv
<1>1. CASE Look
  <2> DEFINE d == dist[ic + 1]
  <2>1. dist' = dist /\ ic' = ic + 1 /\ ic < nwbnd /\ ic \in Nat
    BY <1>1 DEF Look, SearchTypeOK, nwbnd
  <2>2. /\ dist \in Distances /\ nwbnd \in Nat /\ nwbnd >= 2
        /\ \A c \in 1 .. nwbnd : dist[c] \in Nat /\ dist[c] < Huge
    BY DistancesAreNumbers DEF SearchTypeOK, nwbnd
  <2>3. d \in Nat /\ d < Huge /\ Huge \in Nat
    BY <2>1, <2>2, IndexAssumption
  <2>4. CASE Nearest(d)
    <3>1. dst1' = d /\ ib1' = ic + 1 /\ dst2' = dst1 /\ ib2' = ib1
      BY <1>1, <2>4 DEF Look, Nearest, Demoted, Point
    <3>2. SearchTypeOK'
      BY <2>1, <2>2, <2>3, <3>1 DEF SearchTypeOK, nwbnd
    <3>3. NothingYet'
      BY <2>1, <3>1 DEF NothingYet, SearchTypeOK
    <3>4. ASSUME NEW j \in 1 .. ic PROVE d < dist[j]
      <4>1. dst1 = dist[ib1] /\ ib1 \in 1 .. ic /\ dist[ib1] <= dist[j]
        BY <2>1, <2>2 DEF FindsTheTwoNearest, IsNearest
      <4>2. d < dist[ib1] /\ dist[ib1] \in Nat /\ dist[j] \in Nat
        BY <2>1, <2>2, <2>4, <4>1 DEF Nearest
      <4> QED BY <2>3, <4>1, <4>2
    <3>5. ib1' \in 1 .. ic' /\ dst1' = dist'[ib1'] /\ IsNearest(ib1)'
      BY <2>1, <2>2, <2>3, <3>1, <3>4 DEF IsNearest
    <3>6. ic' >= 2 => ib2' \in 1 .. ic' /\ dst2' = dist'[ib2'] /\ IsNearestBut(ib2, ib1)'
      BY <2>1, <2>2, <2>3, <3>1
         DEF SearchTypeOK, FindsTheTwoNearest, IsNearest, IsNearestBut, nwbnd
    <3> QED BY <3>2, <3>3, <3>5, <3>6 DEF FindsTheTwoNearest
  <2>5. CASE ~ Nearest(d) /\ SecondNearest(d)
    <3>1. dst1' = dst1 /\ ib1' = ib1 /\ dst2' = d /\ ib2' = ic + 1
      BY <1>1, <2>5 DEF Look, Nearest, SecondNearest, Point
    <3>2. ic >= 1
      BY <2>1, <2>3, <2>5 DEF NothingYet, Nearest, SearchTypeOK
    <3>3. SearchTypeOK'
      BY <2>1, <2>2, <2>3, <3>1 DEF SearchTypeOK, nwbnd
    <3>4. NothingYet'
      BY <2>1, <3>1, <3>2 DEF NothingYet, SearchTypeOK
    <3>5. dst1 <= d
      BY <2>3, <2>5 DEF Nearest, SearchTypeOK
    <3>6. ib1' \in 1 .. ic' /\ dst1' = dist'[ib1'] /\ IsNearest(ib1)'
      BY <2>1, <2>2, <2>3, <3>1, <3>2, <3>5
         DEF SearchTypeOK, FindsTheTwoNearest, IsNearest, nwbnd
    <3>7. ASSUME NEW j \in (1 .. ic) \ {ib1} PROVE d <= dist[j]
      <4>1. ib1 \in 1 .. ic /\ j \in 1 .. ic /\ j # ib1
        BY <3>2 DEF FindsTheTwoNearest
      <4>2. ic >= 2
        BY <2>1, <4>1
      <4>3. ib2 \in 1 .. ic /\ dst2 = dist[ib2]
        BY <4>2 DEF FindsTheTwoNearest
      <4>4. CASE j = ib2
        BY <2>3, <2>5, <4>3, <4>4 DEF SecondNearest, SearchTypeOK
      <4>5. CASE j # ib2
        <5>1. dist[ib2] <= dist[j]
          BY <4>1, <4>2, <4>5 DEF FindsTheTwoNearest, IsNearestBut
        <5>2. dist[ib2] \in Nat /\ dist[j] \in Nat
          BY <2>1, <2>2, <4>1, <4>3
        <5> QED BY <2>3, <2>5, <4>3, <5>1, <5>2 DEF SecondNearest
      <4> QED BY <4>4, <4>5
    <3>8. ib2' \in 1 .. ic' /\ dst2' = dist'[ib2'] /\ IsNearestBut(ib2, ib1)'
      BY <2>1, <2>2, <2>3, <3>1, <3>2, <3>7
         DEF SearchTypeOK, FindsTheTwoNearest, IsNearestBut, nwbnd
    <3> QED BY <3>3, <3>4, <3>6, <3>8 DEF FindsTheTwoNearest
  <2>6. CASE ~ Nearest(d) /\ ~ SecondNearest(d)
    <3>1. UNCHANGED <<dst1, dst2, ib1, ib2>>
      BY <1>1, <2>6 DEF Look, Nearest, SecondNearest
    <3>2. ic >= 2
      BY <2>1, <2>3, <2>6 DEF NothingYet, SecondNearest, SearchTypeOK
    <3>3. SearchTypeOK' /\ NothingYet'
      BY <2>1, <2>2, <2>3, <3>1, <3>2 DEF SearchTypeOK, NothingYet, nwbnd
    <3>4. ib1' \in 1 .. ic' /\ dst1' = dist'[ib1'] /\ IsNearest(ib1)'
      BY <2>1, <2>2, <2>3, <2>6, <3>1, <3>2
         DEF SearchTypeOK, FindsTheTwoNearest, IsNearest, Nearest, nwbnd
    <3>5. ib2' \in 1 .. ic' /\ dst2' = dist'[ib2'] /\ IsNearestBut(ib2, ib1)'
      BY <2>1, <2>2, <2>3, <2>6, <3>1, <3>2
         DEF SearchTypeOK, FindsTheTwoNearest, IsNearestBut, SecondNearest, nwbnd
    <3> QED BY <3>3, <3>4, <3>5 DEF FindsTheTwoNearest
  <2> QED BY <2>4, <2>5, <2>6
<1>2. CASE UNCHANGED searchVars
  BY <1>2 DEF searchVars, SearchTypeOK, NothingYet, FindsTheTwoNearest, IsNearest,
              IsNearestBut, nwbnd
<1> QED BY <1>1, <1>2

LEMMA SearchInvariance == SearchSpec => []SearchInv
BY SearchInvInit, SearchInvNext, PTL DEF SearchSpec

(* One pass finds the two nearest of any number of support points.         *)
THEOREM SearchIsRight == SearchSpec => [](SearchTypeOK /\ FindsTheTwoNearest)
BY SearchInvariance, PTL DEF SearchInv

(* The nearer of the two points has the larger share, at least a half.     *)
THEOREM WeightsAreRight == SearchSpec => []NearerWeighsMore
<1>1. SearchInv => NearerWeighsMore
  <2> SUFFICES ASSUME SearchInv, Found,
                      ~ (\E a, c \in 1 .. nwbnd : a # c /\ dist[a] + dist[c] = 0)
               PROVE  /\ Weight[2] > 0
                      /\ Weight[2] <= 2 * Weight[1] /\ Weight[1] <= Weight[2]
    BY DEF NearerWeighsMore
  <2>1. /\ ib1 \in 1 .. nwbnd /\ ib2 \in 1 .. nwbnd /\ ib1 # ib2
        /\ dst1 = dist[ib1] /\ dst2 = dist[ib2] /\ IsNearest(ib1)
    BY DistancesAreNumbers
       DEF SearchInv, SearchTypeOK, FindsTheTwoNearest, IsNearestBut, Found, nwbnd
  <2>2. dst1 \in Nat /\ dst2 \in Nat /\ dst1 <= dst2
    BY <2>1, DistancesAreNumbers DEF SearchInv, SearchTypeOK, IsNearest, Found, nwbnd
  <2>3. dst1 + dst2 > 0
    BY <2>1, <2>2
  <2> QED BY <2>2, <2>3 DEF Weight
<1> QED BY <1>1, SearchInvariance, PTL
-----------------------------------------------------------------------------
(* A list of nodes holds exactly the nodes with its value.                 *)
LEMMA ListingHolds ==
  ASSUME NEW m, NEW v
  PROVE  /\ Listing(m, v) \in Seq(Nodes)
         /\ {Listing(m, v)[p] : p \in 1 .. Len(Listing(m, v))} = {k \in Nodes : m[k] = v}
<1> DEFINE D == 0 .. N
           V == Seq(Nodes)
           Body(g, k) == IF k = 0 THEN <<>>
                         ELSE IF m[k] = v THEN Append(g[k - 1], k) ELSE g[k - 1]
           B == [g \in [D -> V] |-> [k \in D |-> Body(g, k)]]
           mu == [k \in D |-> k]
<1>1. N \in Nat /\ D \subseteq Nat /\ <<>> \in V
  BY MaskAssumption
<1>2. ASSUME NEW g \in [D -> V], NEW k \in D PROVE Body(g, k) \in V
  <2>1. CASE k = 0
    BY <2>1, <1>1
  <2>2. CASE k # 0
    <3>1. k \in Nodes /\ k - 1 \in D
      BY <1>1, <2>2 DEF Nodes
    <3>2. g[k - 1] \in Seq(Nodes)
      BY <3>1
    <3>3. Append(g[k - 1], k) \in Seq(Nodes)
      BY <3>1, <3>2
    <3> QED BY <2>2, <3>2, <3>3
  <2> QED BY <2>1, <2>2
<1>3. B \in [[D -> V] -> [D -> V]]
  <2> HIDE DEF D, V, Body
  <2> QED BY <1>2
<1>4. mu \in [D -> Nat]
  BY <1>1
<1>5. DependsOnSmaller(D, V, mu, B)
  <2> SUFFICES ASSUME NEW g \in [D -> V], NEW h \in [D -> V], NEW k \in D,
                      \A c \in D : mu[c] < mu[k] => g[c] = h[c]
               PROVE  Body(g, k) = Body(h, k)
    <3> HIDE DEF D, V, Body, mu
    <3> QED BY DEF DependsOnSmaller
  <2>1. CASE k # 0
    <3>1. k - 1 \in D /\ mu[k - 1] < mu[k]
      BY <1>1, <2>1
    <3> QED BY <3>1
  <2> QED BY <2>1
<1>6. \E f \in [D -> V] : f = B[f]
  <2>1. V # {}
    BY <1>1
  <2> HIDE DEF B, mu, D, V
  <2>2. HasSolution(D, V, B)
    BY <2>1, <1>3, <1>4, <1>5, RecursiveFunction
  <2> QED BY <2>2 DEF HasSolution
<1>7. \E f : f = [k \in D |-> Body(f, k)]
  <2> HIDE DEF Body, D
  <2> QED BY <1>6
<1> DEFINE f == CHOOSE f : f = [k \in D |-> Body(f, k)]
<1>8. Listing(m, v) = f[N]
  BY DEF Listing
<1>9. f = [k \in D |-> Body(f, k)]
  <2> HIDE DEF Body, D
  <2> QED BY <1>7
<1> HIDE DEF f
<1>10. \A k \in D : f[k] = Body(f, k)
  <2> HIDE DEF Body, D
  <2> QED BY <1>9
<1> DEFINE Holds(k) == /\ f[k] \in Seq(Nodes)
                       /\ {f[k][p] : p \in 1 .. Len(f[k])} = {j \in 1 .. k : m[j] = v}
           T == {k \in D : ~ Holds(k)}
<1>11. T = {}
  <2> SUFFICES ASSUME T # {} PROVE FALSE
    OBVIOUS
  <2>1. PICK k \in T : \A c \in T : k <= c
    <3>1. T \in SUBSET Nat
      BY <1>1
    <3> HIDE DEF T
    <3> QED BY <3>1, LeastNumber
  <2> HIDE DEF T
  <2>2. k \in D /\ ~ Holds(k)
    BY DEF T
  <2>3. k # 0
    <3>1. 0 \in D /\ f[0] = <<>>
      BY <1>1, <1>10
    <3>2. Holds(0)
      BY <3>1
    <3> QED BY <2>2, <3>2
  <2>4. k \in Nodes /\ k - 1 \in D /\ k \in Nat /\ k - 1 \in Nat
    BY <1>1, <2>2, <2>3 DEF Nodes
  <2>5. Holds(k - 1)
    <3>1. k - 1 \notin T
      BY <2>1, <2>4
    <3> HIDE DEF Holds
    <3> QED BY <2>4, <3>1 DEF T
  <2> DEFINE s == f[k - 1]
  <2>6. s \in Seq(Nodes) /\ {s[p] : p \in 1 .. Len(s)} = {j \in 1 .. k - 1 : m[j] = v}
    BY <2>5
  <2>7. f[k] = IF m[k] = v THEN Append(s, k) ELSE s
    BY <1>10, <2>2, <2>3
  <2> HIDE DEF s
  <2>8. CASE m[k] = v
    <3>1. /\ f[k] = Append(s, k) /\ f[k] \in Seq(Nodes)
          /\ Len(s) \in Nat /\ Len(f[k]) = Len(s) + 1
          /\ f[k][Len(s) + 1] = k /\ \A p \in 1 .. Len(s) : f[k][p] = s[p]
      BY <2>4, <2>6, <2>7, <2>8
    <3>2. ASSUME NEW p \in 1 .. Len(f[k]) PROVE f[k][p] \in {j \in 1 .. k : m[j] = v}
      <4>1. CASE p = Len(s) + 1
        BY <2>4, <2>8, <3>1, <4>1
      <4>2. CASE p # Len(s) + 1
        <5>1. p \in 1 .. Len(s) /\ f[k][p] = s[p]
          BY <3>1, <4>2
        <5>2. s[p] \in {j \in 1 .. k - 1 : m[j] = v}
          BY <2>6, <5>1
        <5> QED BY <2>4, <5>1, <5>2
      <4> QED BY <4>1, <4>2
    <3>3. ASSUME NEW j \in 1 .. k, m[j] = v PROVE \E p \in 1 .. Len(f[k]) : f[k][p] = j
      <4>1. CASE j = k
        <5>1. Len(s) + 1 \in 1 .. Len(f[k])
          BY <3>1
        <5> QED BY <3>1, <4>1, <5>1
      <4>2. CASE j # k
        <5>1. j \in 1 .. k - 1
          BY <2>4, <4>2
        <5>2. PICK p \in 1 .. Len(s) : s[p] = j
          BY <2>6, <3>3, <5>1
        <5>3. p \in 1 .. Len(f[k])
          BY <3>1
        <5> QED BY <3>1, <5>2, <5>3
      <4> QED BY <4>1, <4>2
    <3> QED BY <2>2, <3>1, <3>2, <3>3
  <2>9. CASE m[k] # v
    <3>1. {j \in 1 .. k : m[j] = v} = {j \in 1 .. k - 1 : m[j] = v}
      BY <2>4, <2>9
    <3> QED BY <2>2, <2>6, <2>7, <2>9, <3>1
  <2> QED BY <2>8, <2>9
<1>12. N \in D /\ Holds(N)
  <2>1. N \in D
    BY <1>1
  <2> HIDE DEF Holds, D
  <2> QED BY <1>11, <2>1
<1> QED
  BY <1>8, <1>12 DEF Nodes
-----------------------------------------------------------------------------
(* The preparation.  What two support points and a weight have to be for a *)
(* node at the distances d.                                                *)
Forced(d, pair, weight) ==
  /\ \A c \in DOMAIN d : d[pair[1]] <= d[c]
  /\ \A c \in DOMAIN d \ {pair[1]} : d[pair[2]] <= d[c]
  /\ pair[2] = pair[1] => Len(d) = 1
  /\ 2 * weight[1] >= weight[2]

Lists ==
  /\ table \in Tables(facing)
  /\ stage \in {"mask", "node", "search", "ready"}
  /\ phase = "done" => nmindbnd = Listing(msk, 2)
  /\ stage = "mask" => temp = <<>>
  /\ stage # "mask" => phase = "done" /\ temp = nmindbnd

(* The arrays have been filled up to the node under way, each position for *)
(* the node of the list there.                                             *)
Filled ==
  /\ inds \in Seq(Nat \X Nat) /\ fac \in Seq(Nat \X Nat)
  /\ Len(fac) = Len(inds) /\ Len(inds) <= Len(temp)
  /\ stage = "search" => Len(inds) < Len(temp) /\ dist = table[Here]
  /\ stage = "ready" => Len(inds) = Len(temp)
  /\ \A p \in 1 .. Len(inds) : Forced(table[temp[p]], inds[p], fac[p])

(* The search is under way, or at rest where the last one ended; before    *)
(* the first one no distance has been looked at.                           *)
Searched == SearchInv \/ (stage # "search" /\ ic = 0 /\ dist \in Seq(Nat) /\ Len(dist) = 1)

PreparationInv == MaskInv /\ Lists /\ Filled /\ Searched

LEMMA TableFacts ==
  ASSUME facing \in Facings, table \in Tables(facing), NEW k \in Nodes
  PROVE  /\ table[k] \in Seq(Nat) /\ Len(table[k]) \in Nat \ {0}
         /\ Len(table[k]) > 1 => table[k] \in Distances
         /\ table[k] \in Distances \/ Len(table[k]) = 1
<1>1. table[k] \in Distances \/ table[k] = <<0>>
  BY PreparationAssumption
<1>2. <<0>> \in Seq(Nat) /\ Len(<<0>>) = 1
  OBVIOUS
<1>3. \A d \in Distances : d \in Seq(Nat) /\ Len(d) \in Nat /\ Len(d) >= 2
  BY IndexAssumption
<1>4. CASE table[k] \in Distances
  BY <1>3, <1>4
<1>5. CASE table[k] = <<0>>
  <2>1. table[k] \in Seq(Nat) /\ Len(table[k]) = 1
    BY <1>2, <1>5
  <2> QED BY <2>1
<1> QED
  BY <1>1, <1>4, <1>5

LEMMA TempFacts ==
  ASSUME Lists
  PROVE  temp \in Seq(Nodes) /\ Len(temp) \in Nat
<1>1. stage # "mask" => temp = Listing(msk, 2)
  BY DEF Lists
<1>2. temp \in Seq(Nodes)
  <2>1. <<>> \in Seq(Nodes)
    OBVIOUS
  <2>2. Listing(msk, 2) \in Seq(Nodes)
    BY ListingHolds
  <2>3. stage = "mask" => temp = <<>>
    BY DEF Lists
  <2> QED BY <1>1, <2>1, <2>2, <2>3
<1> QED
  BY <1>2

LEMMA PreparationInvInit == PreparationInit => PreparationInv
<1> SUFFICES ASSUME PreparationInit PROVE PreparationInv
  OBVIOUS
<1>1. MaskInv /\ facing \in Facings /\ 1 \in Nodes /\ phase = "enclosure"
  BY MaskInvInit, MaskAssumption DEF PreparationInit, Init, Nodes
<1>2. Lists
  BY <1>1 DEF PreparationInit, Lists
<1>3. Filled
  BY DEF PreparationInit, Filled
<1>4. Searched
  <2>1. CASE dist \in Distances
    BY <2>1, SearchInvInit DEF PreparationInit, SearchInit, Searched
  <2>2. CASE Len(table[1]) = 1
    BY <1>1, <2>2, TableFacts DEF PreparationInit, Searched
  <2> QED BY <1>1, <2>1, <2>2, TableFacts DEF PreparationInit
<1> QED
  BY <1>1, <1>2, <1>3, <1>4 DEF PreparationInv

(* The search and the arrays do not depend on the mask.                    *)
LEMMA SearchAtRest ==
  ASSUME Searched, UNCHANGED searchVars, stage' # "search"
  PROVE  Searched'
BY DEF Searched, searchVars, SearchInv, SearchTypeOK, NothingYet, FindsTheTwoNearest,
       IsNearest, IsNearestBut, nwbnd

LEMMA MaskStep == PreparationInv /\ Mask => PreparationInv'
<1> SUFFICES ASSUME PreparationInv, Mask PROVE PreparationInv'
  OBVIOUS
<1>1. MaskInv'
  BY MaskInvNext DEF PreparationInv, Mask
<1>2. /\ stage = "mask" /\ UNCHANGED searchVars /\ Next
      /\ UNCHANGED <<table, temp, stage, inds, fac>>
  BY DEF Mask, prepVars
<1>3. phase' = "done" => nmindbnd' = Listing(msk', 2)
  BY <1>2 DEF Next, Enclosure, Leave, Connect, Refine, List, PreparationInv, Lists
<1>4. facing' = facing
  BY <1>2 DEF Next, Enclosure, Leave, Connect, Refine, List, inputs
<1>5. Lists'
  BY <1>2, <1>3, <1>4 DEF PreparationInv, Lists
<1>6. Filled'
  BY <1>2 DEF PreparationInv, Filled, Forced
<1> QED
  BY <1>1, <1>2, <1>5, <1>6, SearchAtRest DEF PreparationInv

LEMMA MaskStays ==
  ASSUME MaskInv, UNCHANGED vars
  PROVE  MaskInv'
BY MaskInvNext

LEMMA FindStep == PreparationInv /\ FindBoundaryIndices => PreparationInv'
<1> SUFFICES ASSUME PreparationInv, FindBoundaryIndices PROVE PreparationInv'
  OBVIOUS
<1>1. /\ UNCHANGED vars /\ UNCHANGED searchVars /\ UNCHANGED <<table, inds, fac>>
      /\ stage = "mask" /\ phase = "done" /\ temp = <<>>
      /\ temp' = Listing(msk, 2) /\ stage' = "node"
  BY DEF FindBoundaryIndices, BoundaryNodes, PreparationInv, Lists
<1>2. UNCHANGED <<facing, phase, msk, nmindbnd>>
  BY <1>1 DEF vars, inputs
<1>3. Lists'
  BY <1>1, <1>2 DEF PreparationInv, Lists
<1>4. Filled'
  <2>1. Len(inds) = 0
    BY <1>1 DEF PreparationInv, Filled
  <2>2. Len(temp') \in Nat
    BY <1>3, TempFacts, <1>1, ListingHolds
  <2> QED BY <1>1, <2>1, <2>2 DEF PreparationInv, Filled
<1> QED
  BY <1>1, <1>3, <1>4, MaskStays, SearchAtRest DEF PreparationInv

LEMMA StartSearchStep == PreparationInv /\ StartSearch => PreparationInv'
<1> SUFFICES ASSUME PreparationInv, StartSearch PROVE PreparationInv'
  OBVIOUS
<1>1. /\ UNCHANGED vars /\ UNCHANGED <<table, temp, inds, fac>>
      /\ stage = "node" /\ stage' = "search" /\ Len(inds) < Len(temp)
      /\ dist' = table[Here] /\ ic' = 0 /\ dst1' = Huge /\ dst2' = Huge
      /\ ib1' = 0 /\ ib2' = 0 /\ Len(table[Here]) > 1 /\ Here' = Here
  BY DEF StartSearch, Here
<1>2. UNCHANGED <<facing, phase, msk, nmindbnd>>
  BY <1>1 DEF vars, inputs
<1>3. Lists'
  BY <1>1, <1>2 DEF PreparationInv, Lists
<1>4. Filled'
  BY <1>1 DEF PreparationInv, Filled, Forced, Here
<1>5. Here \in Nodes
  <2>1. temp \in Seq(Nodes) /\ Len(inds) \in Nat
    BY TempFacts DEF PreparationInv, Filled
  <2> QED BY <1>1, <2>1 DEF Here
<1>6. dist' \in Distances
  BY <1>1, <1>5, TableFacts DEF PreparationInv, Lists, MaskInv, MaskType
<1>7. SearchInv'
  BY <1>1, <1>6, IndexAssumption, DistancesAreNumbers
  DEF SearchInv, SearchTypeOK, NothingYet, FindsTheTwoNearest, nwbnd
<1> QED
  BY <1>1, <1>3, <1>4, <1>7, MaskStays DEF PreparationInv, Searched

(* Storing a result for the node under way.                                *)
LEMMA AppendForced ==
  ASSUME Filled, UNCHANGED <<table, temp>>, Len(inds) < Len(temp), temp \in Seq(Nodes),
         stage' = "node", NEW pair \in Nat \X Nat, NEW weight \in Nat \X Nat,
         inds' = Append(inds, pair), fac' = Append(fac, weight),
         Forced(table[Here], pair, weight)
  PROVE  Filled'
<1> DEFINE S == Nat \X Nat
<1>1. /\ inds \in Seq(S) /\ fac \in Seq(S) /\ pair \in S /\ weight \in S
      /\ Len(fac) = Len(inds)
  BY DEF Filled
<1> HIDE DEF S
<1>2. /\ inds' \in Seq(S) /\ Len(inds) \in Nat /\ Len(inds') = Len(inds) + 1
      /\ inds'[Len(inds) + 1] = pair /\ \A p \in 1 .. Len(inds) : inds'[p] = inds[p]
  BY <1>1
<1>3. /\ fac' \in Seq(S) /\ Len(fac') = Len(inds) + 1
      /\ fac'[Len(inds) + 1] = weight /\ \A p \in 1 .. Len(inds) : fac'[p] = fac[p]
  BY <1>1
<1>4. ASSUME NEW p \in 1 .. Len(inds') PROVE Forced(table[temp[p]], inds'[p], fac'[p])
  <2>1. CASE p = Len(inds) + 1
    BY <1>2, <1>3, <2>1 DEF Here
  <2>2. CASE p # Len(inds) + 1
    <3>1. p \in 1 .. Len(inds)
      BY <1>2, <2>2
    <3> QED BY <1>2, <1>3, <3>1 DEF Filled
  <2> QED BY <2>1, <2>2
<1>5. \A p \in 1 .. Len(inds') : Forced(table[temp[p]], inds[p], fac[p])'
  BY <1>4 DEF Forced
<1>6. Len(inds') <= Len(temp') /\ Len(fac') = Len(inds')
  <2>1. Len(temp) \in Nat
    OBVIOUS
  <2> QED BY <1>2, <1>3, <2>1
<1> QED
  BY <1>2, <1>3, <1>5, <1>6 DEF Filled, S

LEMMA TakeOnlyStep == PreparationInv /\ TakeOnly => PreparationInv'
<1> SUFFICES ASSUME PreparationInv, TakeOnly PROVE PreparationInv'
  OBVIOUS
<1>1. /\ UNCHANGED vars /\ UNCHANGED searchVars /\ UNCHANGED <<table, temp, stage>>
      /\ stage = "node" /\ Len(inds) < Len(temp) /\ Len(table[Here]) = 1
      /\ inds' = Append(inds, <<1, 1>>) /\ fac' = Append(fac, <<1, 1>>)
  BY DEF TakeOnly
<1>2. UNCHANGED <<facing, phase, msk, nmindbnd>>
  BY <1>1 DEF vars, inputs
<1>3. Lists'
  BY <1>1, <1>2 DEF PreparationInv, Lists
<1>4. temp \in Seq(Nodes) /\ Len(inds) \in Nat
  BY TempFacts DEF PreparationInv, Filled
<1>5. Here \in Nodes
  BY <1>1, <1>4 DEF Here
<1>6. Forced(table[Here], <<1, 1>>, <<1, 1>>)
  <2>1. table[Here] \in Seq(Nat)
    BY <1>5, TableFacts DEF PreparationInv, Lists, MaskInv, MaskType
  <2> DEFINE d == table[Here]
  <2>2. DOMAIN d = {1} /\ d[1] \in Nat
    BY <1>1, <2>1
  <2> HIDE DEF d
  <2>3. Forced(d, <<1, 1>>, <<1, 1>>)
    BY <1>1, <2>2 DEF Forced, d
  <2> QED BY <2>3 DEF d
<1>7. Filled'
  BY <1>1, <1>4, <1>6, AppendForced DEF PreparationInv
<1> QED
  BY <1>1, <1>3, <1>7, MaskStays, SearchAtRest DEF PreparationInv

LEMMA SearchStep == PreparationInv /\ Search => PreparationInv'
<1> SUFFICES ASSUME PreparationInv, Search PROVE PreparationInv'
  OBVIOUS
<1>1. /\ UNCHANGED vars /\ UNCHANGED <<table, temp, stage, inds, fac>>
      /\ stage = "search" /\ Look /\ dist' = dist
  BY DEF Search, Look, prepVars
<1>2. UNCHANGED <<facing, phase, msk, nmindbnd>>
  BY <1>1 DEF vars, inputs
<1>3. Lists'
  BY <1>1, <1>2 DEF PreparationInv, Lists
<1>4. Filled'
  BY <1>1 DEF PreparationInv, Filled, Forced, Here
<1>5. SearchInv'
  BY <1>1, SearchInvNext DEF PreparationInv, Searched
<1> QED
  BY <1>1, <1>3, <1>4, <1>5, MaskStays DEF PreparationInv, Searched

(* A finished search has found what forces the node.                       *)
LEMMA FoundForces ==
  ASSUME SearchInv, Found
  PROVE  /\ Forced(dist, <<ib1, ib2>>, Weight)
         /\ <<ib1, ib2>> \in Nat \X Nat /\ Weight \in Nat \X Nat
<1>1. /\ dist \in Seq(Nat) /\ nwbnd \in Nat /\ nwbnd >= 2 /\ ic = nwbnd
      /\ DOMAIN dist = 1 .. nwbnd
      /\ \A c \in 1 .. nwbnd : dist[c] \in Nat
  BY DistancesAreNumbers, IndexAssumption DEF SearchInv, SearchTypeOK, Found, nwbnd
<1>2. /\ ib1 \in 1 .. nwbnd /\ dst1 = dist[ib1] /\ IsNearest(ib1)
      /\ ib2 \in 1 .. nwbnd /\ dst2 = dist[ib2] /\ IsNearestBut(ib2, ib1)
  BY <1>1 DEF SearchInv, FindsTheTwoNearest
<1>3. \A c \in 1 .. nwbnd : dist[ib1] <= dist[c]
  BY <1>1, <1>2 DEF IsNearest
<1>4. ib2 # ib1 /\ \A c \in (1 .. nwbnd) \ {ib1} : dist[ib2] <= dist[c]
  BY <1>1, <1>2 DEF IsNearestBut
<1>5. dst1 \in Nat /\ dst2 \in Nat /\ dst1 <= dst2
  BY <1>1, <1>2, <1>3
<1>6. 2 * Weight[1] >= Weight[2] /\ Weight \in Nat \X Nat
  BY <1>5 DEF Weight
<1>7. Forced(dist, <<ib1, ib2>>, Weight)
  BY <1>1, <1>3, <1>4, <1>6 DEF Forced
<1> QED
  BY <1>2, <1>6, <1>7

LEMMA StoreStep == PreparationInv /\ Store => PreparationInv'
<1> SUFFICES ASSUME PreparationInv, Store PROVE PreparationInv'
  OBVIOUS
<1>1. /\ UNCHANGED vars /\ UNCHANGED searchVars /\ UNCHANGED <<table, temp>>
      /\ stage = "search" /\ stage' = "node" /\ Found
      /\ inds' = Append(inds, <<ib1, ib2>>) /\ fac' = Append(fac, Weight)
  BY DEF Store
<1>2. UNCHANGED <<facing, phase, msk, nmindbnd>>
  BY <1>1 DEF vars, inputs
<1>3. Lists'
  BY <1>1, <1>2 DEF PreparationInv, Lists
<1>4. SearchInv /\ Len(inds) < Len(temp) /\ dist = table[Here]
  BY <1>1 DEF PreparationInv, Searched, Filled
<1>5. Filled'
  BY <1>1, <1>4, FoundForces, TempFacts, AppendForced DEF PreparationInv
<1> QED
  BY <1>1, <1>3, <1>5, MaskStays, SearchAtRest DEF PreparationInv

LEMMA ReadyStep == PreparationInv /\ Ready => PreparationInv'
<1> SUFFICES ASSUME PreparationInv, Ready PROVE PreparationInv'
  OBVIOUS
<1>1. /\ UNCHANGED vars /\ UNCHANGED searchVars /\ UNCHANGED <<table, temp, inds, fac>>
      /\ stage = "node" /\ stage' = "ready" /\ Len(inds) = Len(temp)
  BY DEF Ready
<1>2. UNCHANGED <<facing, phase, msk, nmindbnd>>
  BY <1>1 DEF vars, inputs
<1>3. Lists'
  BY <1>1, <1>2 DEF PreparationInv, Lists
<1>4. Filled'
  BY <1>1 DEF PreparationInv, Filled, Forced
<1> QED
  BY <1>1, <1>3, <1>4, MaskStays, SearchAtRest DEF PreparationInv

LEMMA PreparationInvNext ==
  PreparationInv /\ [PreparationNext]_preparationVars => PreparationInv'
<1> SUFFICES ASSUME PreparationInv, [PreparationNext]_preparationVars
             PROVE  PreparationInv'
  OBVIOUS
<1>1. CASE UNCHANGED preparationVars
  <2>1. /\ UNCHANGED vars /\ UNCHANGED searchVars
        /\ UNCHANGED <<table, temp, stage, inds, fac>>
    BY <1>1 DEF preparationVars, prepVars
  <2>2. UNCHANGED <<facing, phase, msk, nmindbnd, dist, ic, dst1, dst2, ib1, ib2>>
    BY <2>1 DEF vars, inputs, searchVars
  <2>3. Lists' /\ Filled'
    BY <2>1, <2>2 DEF PreparationInv, Lists, Filled, Forced, Here
  <2>4. Searched'
    BY <2>1, <2>2 DEF PreparationInv, Searched, SearchInv, SearchTypeOK, NothingYet,
                      FindsTheTwoNearest, IsNearest, IsNearestBut, nwbnd
  <2> QED BY <2>1, <2>3, <2>4, MaskStays DEF PreparationInv
<1> QED
  BY <1>1, MaskStep, FindStep, StartSearchStep, TakeOnlyStep, SearchStep, StoreStep,
     ReadyStep DEF PreparationNext

LEMMA PreparationInvariance == PreparationSpec => []PreparationInv
BY PreparationInvInit, PreparationInvNext, PTL DEF PreparationSpec

(* In the preparation, too, every search finds the two nearest support     *)
(* points of its node, though it starts with what the last one left.       *)
THEOREM EverySearchIsRight == PreparationSpec => []FindsTheTwoNearest
<1>1. PreparationInv => FindsTheTwoNearest
  BY DEF PreparationInv, Searched, SearchInv, FindsTheTwoNearest
<1> QED
  BY PreparationInvariance, <1>1, PTL

(* Position p of ind1, ind2 and fac belongs to node p of the list of the   *)
(* mask loop, which update_boundaries joins them with; no boundary node of *)
(* the final mask is left out; and what is found there are its nearest     *)
(* support points, the nearer one with no less than half the weight.       *)
THEOREM BoundaryIsForced == PreparationSpec => []ForcedByItsNeighbours
<1>1. PreparationInv => ForcedByItsNeighbours
  <2> SUFFICES ASSUME PreparationInv, stage = "ready" PROVE ForcedByItsNeighbours
    BY DEF ForcedByItsNeighbours
  <2>1. nmindbnd = Listing(msk, 2) /\ temp = nmindbnd
    BY DEF PreparationInv, Lists
  <2>2. /\ nmindbnd \in Seq(Nodes) /\ DOMAIN nmindbnd = 1 .. Len(nmindbnd)
        /\ {nmindbnd[p] : p \in 1 .. Len(nmindbnd)} = {k \in Nodes : msk[k] = 2}
    BY <2>1, ListingHolds
  <2>3. /\ Len(inds) = Len(nmindbnd) /\ Len(fac) = Len(nmindbnd)
        /\ \A p \in 1 .. Len(nmindbnd) : Forced(table[nmindbnd[p]], inds[p], fac[p])
    BY <2>1 DEF PreparationInv, Filled
  <2> QED BY <2>2, <2>3 DEF ForcedByItsNeighbours, Forced
<1> QED
  BY PreparationInvariance, <1>1, PTL
-----------------------------------------------------------------------------
(* The ring around a node.  The edges of the fan, listed one after the     *)
(* other, are those the ring has passed and those still to come; their     *)
(* number and their set never change until the ring is cleared.            *)

(* The pairs of a list of ends of edges, and the edges a path runs along.  *)
Pair(s, p) == {s[2 * p - 1], s[2 * p]}
Pairs(s) == {Pair(s, p) : p \in 1 .. (Len(s) \div 2)}
Path(s) == {{s[k], s[k + 1]} : k \in 1 .. (Len(s) - 1)}

EdgesOf(f) == LET e == EdgeEnds(f) IN {{e[k], e[k + 1]} : k \in {1, Len(e) - 1}}

(* The edges that the first m cells of the fan add.                        *)
Quads(m) == {c \in 1 .. m : Len(fan[c]) = 4}
TotalOf(m) == m + Cardinality(Quads(m))

LEMMA FanIs ==
  ASSUME fan \in Fans
  PROVE  /\ Len(fan) \in Nat /\ DOMAIN fan = 1 .. Len(fan)
         /\ \A c \in 1 .. Len(fan) : fan[c] \in Seq(Nat) /\ IsFace(fan[c])
BY FanAssumption

(* What a face adds: its ends are nodes of the mesh other than Node, its   *)
(* edges the pairs of them.                                                *)
LEMMA FaceAdds ==
  ASSUME NEW f \in Seq(Nat), IsFace(f)
  PROVE  /\ EdgeEnds(f) \in Seq(Others)
         /\ Len(EdgeEnds(f)) = IF Len(f) = 4 THEN 4 ELSE 2
         /\ EdgesOf(f) = Pairs(EdgeEnds(f))
<1>1. /\ Len(f) \in {3, 4} /\ DOMAIN f = 1 .. Len(f)
      /\ \A k \in 1 .. Len(f) : f[k] \in Others \union {Node}
      /\ \A k, m \in 1 .. Len(f) : f[k] = f[m] => k = m
      /\ \E k \in 1 .. Len(f) : f[k] = Node
  BY DEF IsFace
<1>2. Place(f) \in 1 .. Len(f) /\ f[Place(f)] = Node
  BY <1>1 DEF Place
<1>3. \A k \in 1 .. Len(f) : k # Place(f) => f[k] \in Others
  BY <1>1, <1>2
<1>4. CASE Len(f) = 3
  <2> DEFINE a == IF Place(f) = 1 THEN 2 ELSE 1
             b == IF Place(f) = 3 THEN 2 ELSE 3
  <2>1. EdgeEnds(f) = <<f[a], f[b]>>
    BY <1>4 DEF EdgeEnds, TwoOthers
  <2>2. f[a] \in Others /\ f[b] \in Others
    BY <1>2, <1>3, <1>4
  <2>3. EdgesOf(f) = {{f[a], f[b]}}
    <3> HIDE DEF a, b
    <3>1. Len(<<f[a], f[b]>>) - 1 = 1
      OBVIOUS
    <3> QED BY <2>1, <3>1 DEF EdgesOf
  <2>4. Pairs(EdgeEnds(f)) = {{f[a], f[b]}}
    <3> HIDE DEF a, b
    <3>1. Len(EdgeEnds(f)) \div 2 = 1
      BY <2>1
    <3>2. Pair(EdgeEnds(f), 1) = {f[a], f[b]}
      BY <2>1 DEF Pair
    <3>3. 1 .. 1 = {1}
      OBVIOUS
    <3>4. Pairs(EdgeEnds(f)) = {Pair(EdgeEnds(f), p) : p \in {1}}
      BY <3>1, <3>3, Zenon DEF Pairs
    <3> QED BY <3>2, <3>4
  <2> HIDE DEF a, b
  <2> QED BY <1>4, <2>1, <2>2, <2>3, <2>4
<1>5. CASE Len(f) = 4
  <2> DEFINE e == EdgeEnds(f)
  <2>1. e = <<After(f, 1), After(f, 2), After(f, 2), After(f, 3)>>
    BY <1>5 DEF EdgeEnds
  <2>2. \A n \in {1, 2, 3} :
          /\ ((Place(f) + n - 1) % 4) + 1 \in 1 .. 4
          /\ ((Place(f) + n - 1) % 4) + 1 # Place(f)
    BY <1>2, <1>5
  <2>3. \A n \in {1, 2, 3} : After(f, n) \in Others
    BY <2>2, <1>3, <1>5 DEF After
  <2>4. e \in Seq(Others) /\ Len(e) = 4
    BY <2>1, <2>3
  <2>5. EdgesOf(f) = {{e[1], e[2]}, {e[3], e[4]}}
    <3> HIDE DEF e
    <3>1. EdgesOf(f) = {{e[k], e[k + 1]} : k \in {1, 3}}
      BY <2>4 DEF EdgesOf, e
    <3> QED BY <3>1
  <2>6. Pairs(e) = {{e[1], e[2]}, {e[3], e[4]}}
    <3> HIDE DEF e
    <3>1. Len(e) \div 2 = 2
      BY <2>4
    <3>2. Pair(e, 1) = {e[1], e[2]} /\ Pair(e, 2) = {e[3], e[4]}
      BY DEF Pair
    <3>3. 1 .. 2 = {1, 2}
      OBVIOUS
    <3> QED BY <3>1, <3>2, <3>3 DEF Pairs
  <2> QED BY <1>5, <2>4, <2>5, <2>6
<1> QED BY <1>1, <1>4, <1>5

(* Lists of ends: appended, and with a pair taken out.                     *)
LEMMA PairsOfBoth ==
  ASSUME NEW S, NEW s \in Seq(S), NEW e \in Seq(S), Len(s) % 2 = 0, Len(e) % 2 = 0
  PROVE  /\ s \o e \in Seq(S) /\ Len(s \o e) = Len(s) + Len(e) /\ Len(s \o e) % 2 = 0
         /\ Pairs(s \o e) = Pairs(s) \union Pairs(e)
<1>1. /\ s \o e \in Seq(S) /\ Len(s \o e) = Len(s) + Len(e)
      /\ Len(s) \in Nat /\ Len(e) \in Nat
      /\ \A k \in 1 .. Len(s) : (s \o e)[k] = s[k]
      /\ \A k \in 1 .. Len(e) : (s \o e)[Len(s) + k] = e[k]
  OBVIOUS
<1> DEFINE h == Len(s) \div 2
           g == Len(e) \div 2
           t == s \o e
<1>2. h \in Nat /\ g \in Nat /\ Len(s) = 2 * h /\ Len(e) = 2 * g /\ Len(t) \div 2 = h + g
      /\ Len(t) % 2 = 0
  <2>1. h \in Nat /\ g \in Nat /\ Len(s) = 2 * h /\ Len(e) = 2 * g
    BY <1>1
  <2>2. Len(t) = Len(s) + Len(e)
    BY <1>1
  <2> HIDE DEF h, g, t
  <2>3. Len(t) = 2 * (h + g)
    BY <2>1, <2>2
  <2> QED BY <2>1, <2>3
<1>3. \A p \in 1 .. h : Pair(t, p) = Pair(s, p)
  <2> SUFFICES ASSUME NEW p \in 1 .. h PROVE Pair(t, p) = Pair(s, p)
    OBVIOUS
  <2>1. 2 * p - 1 \in 1 .. Len(s) /\ 2 * p \in 1 .. Len(s)
    BY <1>2
  <2> QED BY <1>1, <2>1 DEF Pair
<1>4. \A p \in 1 .. g : Pair(t, h + p) = Pair(e, p)
  <2> SUFFICES ASSUME NEW p \in 1 .. g PROVE Pair(t, h + p) = Pair(e, p)
    OBVIOUS
  <2>1. 2 * p - 1 \in 1 .. Len(e) /\ 2 * p \in 1 .. Len(e)
    BY <1>2
  <2>2. 2 * (h + p) - 1 = Len(s) + (2 * p - 1) /\ 2 * (h + p) = Len(s) + 2 * p
    BY <1>2
  <2>3. t[2 * (h + p) - 1] = e[2 * p - 1] /\ t[2 * (h + p)] = e[2 * p]
    BY <1>1, <2>1, <2>2
  <2> QED BY <2>3 DEF Pair
<1>5. Pairs(t) = {Pair(t, p) : p \in 1 .. (h + g)}
  BY <1>2 DEF Pairs
<1>6. 1 .. (h + g) = (1 .. h) \union {h + p : p \in 1 .. g}
  <2>1. \A q \in 1 .. (h + g) : q > h => q - h \in 1 .. g /\ q = h + (q - h)
    BY <1>2
  <2> HIDE DEF h, g
  <2> QED BY <1>2, <2>1
<1>7. Pairs(t) = Pairs(s) \union Pairs(e)
  <2>1. Pairs(s) = {Pair(s, p) : p \in 1 .. h} /\ Pairs(e) = {Pair(e, p) : p \in 1 .. g}
    BY DEF Pairs
  <2> HIDE DEF h, g, t
  <2>2. \A p \in 1 .. h : Pair(s, p) \in Pairs(t)
    BY <1>3, <1>5, <1>6
  <2>3. \A p \in 1 .. g : Pair(e, p) \in Pairs(t)
    BY <1>4, <1>5, <1>6
  <2>4. \A q \in 1 .. (h + g) : Pair(t, q) \in Pairs(s) \union Pairs(e)
    BY <1>3, <1>4, <1>6, <2>1
  <2> QED BY <1>5, <2>1, <2>2, <2>3, <2>4
<1> QED BY <1>1, <1>2, <1>7

LEMMA TakenOut ==
  ASSUME NEW S, NEW s \in Seq(S), NEW m \in 1 .. (Len(s) \div 2), Len(s) % 2 = 0
  PROVE  LET t == RemoveTwo(s, 2 * m - 1) IN
         /\ t \in Seq(S) /\ Len(t) = Len(s) - 2 /\ Len(t) % 2 = 0
         /\ Pairs(s) = Pairs(t) \union {Pair(s, m)}
<1> DEFINE h == Len(s) \div 2
           at == 2 * m - 1
           t == RemoveTwo(s, at)
           a == SubSeq(s, 1, at - 1)
           b == SubSeq(s, at + 2, Len(s))
<1>1. Len(s) \in Nat /\ h \in Nat /\ Len(s) = 2 * h /\ m \in 1 .. h
      /\ at \in 1 .. Len(s) /\ at + 1 \in 1 .. Len(s)
  OBVIOUS
<1>2. a \in Seq(S) /\ Len(a) = at - 1 /\ \A k \in 1 .. (at - 1) : a[k] = s[k]
  <2>1. \A k \in 1 .. (at - 1) : s[k] \in S
    BY <1>1
  <2> HIDE DEF at
  <2>2. /\ SubSeq(s, 1, at - 1) \in Seq(S)
        /\ Len(SubSeq(s, 1, at - 1)) = IF 1 <= at - 1 THEN (at - 1 - 1) + 1 ELSE 0
        /\ \A k \in 1 .. ((at - 1 - 1) + 1) : SubSeq(s, 1, at - 1)[k] = s[(1 + k) - 1]
    BY <1>1, <2>1, SubSeqProperties
  <2> QED BY <1>1, <2>2
<1>3. b \in Seq(S) /\ Len(b) = Len(s) - at - 1
      /\ \A k \in 1 .. (Len(s) - at - 1) : b[k] = s[at + 1 + k]
  <2>1. \A k \in (at + 2) .. Len(s) : s[k] \in S
    BY <1>1
  <2> DEFINE m2 == at + 2
             n2 == Len(s)
  <2>2. m2 \in Int /\ n2 \in Int
    BY <1>1
  <2>3. \A k \in m2 .. n2 : s[k] \in S
    BY <2>1
  <2> HIDE DEF at, m2, n2
  <2>4. /\ SubSeq(s, m2, n2) \in Seq(S)
        /\ Len(SubSeq(s, m2, n2)) = IF m2 <= n2 THEN n2 - m2 + 1 ELSE 0
        /\ \A k \in 1 .. n2 - m2 + 1 : SubSeq(s, m2, n2)[k] = s[m2 + k - 1]
    BY <2>2, <2>3, SubSeqProperties
  <2>5. n2 - m2 + 1 = Len(s) - at - 1 /\ b = SubSeq(s, m2, n2)
    BY <1>1 DEF m2, n2
  <2>6. \A k \in 1 .. (Len(s) - at - 1) : m2 + k - 1 = at + 1 + k
    BY <1>1 DEF m2
  <2> QED BY <1>1, <2>2, <2>4, <2>5, <2>6 DEF m2, n2
<1>4. /\ t \in Seq(S) /\ Len(t) = Len(s) - 2
      /\ \A k \in 1 .. Len(t) : t[k] = IF k < at THEN s[k] ELSE s[k + 2]
  <2>1. t = a \o b
    BY DEF RemoveTwo
  <2> HIDE DEF a, b, t, at
  <2>2. /\ t \in Seq(S) /\ Len(t) = Len(a) + Len(b)
        /\ \A k \in 1 .. Len(a) + Len(b) :
             t[k] = IF k <= Len(a) THEN a[k] ELSE b[k - Len(a)]
    BY <1>2, <1>3, <2>1, ConcatProperties
  <2>3. Len(t) = Len(s) - 2 /\ Len(a) \in Nat /\ Len(b) \in Nat
    BY <1>1, <1>2, <1>3, <2>2
  <2>4. ASSUME NEW k \in 1 .. Len(t)
        PROVE  t[k] = IF k < at THEN s[k] ELSE s[k + 2]
    <3>1. t[k] = IF k <= Len(a) THEN a[k] ELSE b[k - Len(a)]
      BY <2>2
    <3>2. CASE k < at
      <4>1. k <= Len(a) /\ k \in 1 .. (at - 1)
        BY <1>1, <1>2, <3>2
      <4> QED BY <1>2, <3>1, <3>2, <4>1
    <3>3. CASE ~ (k < at)
      <4>1. ~ (k <= Len(a)) /\ at + 1 + (k - Len(a)) = k + 2
        BY <1>1, <1>2, <3>3
      <4>3. k - Len(a) \in 1 .. (Len(s) - at - 1)
        BY <1>1, <1>2, <2>3, <3>3
      <4>2. b[k - Len(a)] = s[at + 1 + (k - Len(a))]
        BY <1>3, <4>3
      <4> QED BY <3>1, <3>3, <4>1, <4>2
    <3> QED BY <3>2, <3>3
  <2> QED BY <2>2, <2>3, <2>4
<1>5. Len(t) % 2 = 0 /\ Len(t) \div 2 = h - 1
  <2>1. Len(t) = 2 * (h - 1) /\ h - 1 \in Int
    BY <1>1, <1>4
  <2> HIDE DEF h, t
  <2> QED BY <2>1
<1>6. \A p \in 1 .. (h - 1) : Pair(t, p) = IF p < m THEN Pair(s, p) ELSE Pair(s, p + 1)
  <2> SUFFICES ASSUME NEW p \in 1 .. (h - 1)
               PROVE  Pair(t, p) = IF p < m THEN Pair(s, p) ELSE Pair(s, p + 1)
    OBVIOUS
  <2> HIDE DEF t
  <2>1. 2 * p - 1 \in 1 .. Len(t) /\ 2 * p \in 1 .. Len(t)
    BY <1>1, <1>4
  <2>2. CASE p < m
    <3>1. 2 * p - 1 < at /\ 2 * p < at
      BY <1>1, <2>2
    <3>2. t[2 * p - 1] = s[2 * p - 1] /\ t[2 * p] = s[2 * p]
      BY <1>4, <2>1, <3>1
    <3> QED BY <2>2, <3>2 DEF Pair
  <2>3. CASE ~ (p < m)
    <3>1. ~ (2 * p - 1 < at) /\ ~ (2 * p < at)
      BY <1>1, <2>3
    <3>2. t[2 * p - 1] = s[2 * p - 1 + 2] /\ t[2 * p] = s[2 * p + 2]
      BY <1>4, <2>1, <3>1
    <3>3. 2 * p - 1 + 2 = 2 * (p + 1) - 1 /\ 2 * p + 2 = 2 * (p + 1)
      BY <1>1
    <3> QED BY <2>3, <3>2, <3>3 DEF Pair
  <2> QED BY <2>2, <2>3
<1>7. Pairs(s) = Pairs(t) \union {Pair(s, m)}
  <2>1. Pairs(s) = {Pair(s, p) : p \in 1 .. h} /\ Pairs(t) = {Pair(t, p) : p \in 1 .. (h - 1)}
    BY <1>5 DEF Pairs
  <2> HIDE DEF h, t, at
  <2>2. \A p \in 1 .. (h - 1) : p \in 1 .. h /\ p + 1 \in 1 .. h
    BY <1>1
  <2>3. Pairs(t) \subseteq Pairs(s) /\ Pair(s, m) \in Pairs(s)
    BY <1>1, <1>6, <2>1, <2>2
  <2>4. ASSUME NEW p \in 1 .. h
        PROVE  Pair(s, p) \in Pairs(t) \union {Pair(s, m)}
    <3>1. CASE p < m
      <4>1. p \in 1 .. (h - 1)
        BY <1>1, <3>1
      <4> QED BY <1>6, <2>1, <3>1, <4>1
    <3>2. CASE p > m
      <4>1. p - 1 \in 1 .. (h - 1) /\ ~ (p - 1 < m) /\ (p - 1) + 1 = p
        BY <1>1, <3>2
      <4>2. Pair(t, p - 1) = Pair(s, p)
        BY <1>6, <4>1
      <4> QED BY <2>1, <4>1, <4>2
    <3> QED BY <3>1, <3>2, <1>1
  <2> QED BY <2>1, <2>3, <2>4
<1> QED BY <1>4, <1>5, <1>7

(* A path made longer at either end.                                       *)
LEMMA LongerAtTheEnd ==
  ASSUME NEW S, NEW r \in Seq(S), Len(r) > 0, NEW x \in S
  PROVE  /\ Append(r, x) \in Seq(S) /\ Len(Append(r, x)) = Len(r) + 1
         /\ Path(Append(r, x)) = Path(r) \union {{r[Len(r)], x}}
<1> DEFINE t == Append(r, x)
           L == Len(r)
<1>1. /\ L \in Nat /\ t \in Seq(S) /\ Len(t) = L + 1
      /\ \A k \in 1 .. L : t[k] = r[k]
      /\ t[L + 1] = x
  OBVIOUS
<1>2. Path(t) = {{t[k], t[k + 1]} : k \in 1 .. L} /\ Path(r) = {{r[k], r[k + 1]} : k \in 1 .. (L - 1)}
  BY <1>1 DEF Path
<1> HIDE DEF t, L
<1>3. \A k \in 1 .. (L - 1) : k \in 1 .. L /\ k + 1 \in 1 .. L /\ {t[k], t[k + 1]} = {r[k], r[k + 1]}
  BY <1>1
<1>4. L \in 1 .. L /\ {t[L], t[L + 1]} = {r[L], x}
  BY <1>1 DEF L
<1>5. \A k \in 1 .. L : k \in 1 .. (L - 1) \/ k = L
  BY <1>1
<1>6. Path(r) \subseteq Path(t) /\ {r[L], x} \in Path(t)
  BY <1>2, <1>3, <1>4
<1>7. \A k \in 1 .. L : {t[k], t[k + 1]} \in Path(r) \union {{r[L], x}}
  BY <1>2, <1>3, <1>4, <1>5
<1>8. Path(t) = Path(r) \union {{r[L], x}}
  <2>1. \A y \in Path(t) : \E k \in 1 .. L : y = {t[k], t[k + 1]}
    BY <1>2
  <2>2. ASSUME NEW y \in Path(t) PROVE y \in Path(r) \union {{r[L], x}}
    <3>1. PICK k \in 1 .. L : y = {t[k], t[k + 1]}
      BY <2>1
    <3>2. {t[k], t[k + 1]} \in Path(r) \union {{r[L], x}}
      BY <1>7
    <3> QED BY <3>1, <3>2
  <2> QED BY <1>6, <2>2
<1> QED BY <1>1, <1>8 DEF t, L

LEMMA LongerAtTheStart ==
  ASSUME NEW S, NEW r \in Seq(S), Len(r) > 0, NEW x \in S
  PROVE  /\ <<x>> \o r \in Seq(S) /\ Len(<<x>> \o r) = Len(r) + 1
         /\ Path(<<x>> \o r) = Path(r) \union {{r[1], x}}
<1> DEFINE t == <<x>> \o r
           L == Len(r)
<1>1. /\ L \in Nat /\ t \in Seq(S) /\ Len(t) = L + 1
      /\ \A k \in 1 .. L : t[k + 1] = r[k]
      /\ t[1] = x
  OBVIOUS
<1>2. Path(t) = {{t[k], t[k + 1]} : k \in 1 .. L} /\ Path(r) = {{r[k], r[k + 1]} : k \in 1 .. (L - 1)}
  BY <1>1 DEF Path
<1> HIDE DEF t, L
<1>3. \A k \in 1 .. (L - 1) :
        k + 1 \in 1 .. L /\ {t[k + 1], t[(k + 1) + 1]} = {r[k], r[k + 1]}
  BY <1>1
<1>4. 1 \in 1 .. L /\ {t[1], t[1 + 1]} = {r[1], x}
  BY <1>1 DEF L
<1>5. \A k \in 1 .. L : k = 1 \/ (k - 1 \in 1 .. (L - 1) /\ k = (k - 1) + 1)
  BY <1>1
<1>6. Path(r) \subseteq Path(t) /\ {r[1], x} \in Path(t)
  BY <1>2, <1>3, <1>4
<1>7. \A k \in 1 .. L : {t[k], t[k + 1]} \in Path(r) \union {{r[1], x}}
  <2>1. ASSUME NEW k \in 1 .. L, k # 1
        PROVE  {t[k], t[k + 1]} \in Path(r)
    <3>1. k - 1 \in 1 .. (L - 1) /\ k = (k - 1) + 1
      BY <1>5, <2>1
    <3>2. {t[(k - 1) + 1], t[((k - 1) + 1) + 1]} = {r[k - 1], r[(k - 1) + 1]}
      BY <1>3, <3>1
    <3> QED BY <1>2, <3>1, <3>2
  <2> QED BY <1>4, <2>1
<1>8. Path(t) = Path(r) \union {{r[1], x}}
  <2>1. \A y \in Path(t) : \E k \in 1 .. L : y = {t[k], t[k + 1]}
    BY <1>2
  <2>2. ASSUME NEW y \in Path(t) PROVE y \in Path(r) \union {{r[1], x}}
    <3>1. PICK k \in 1 .. L : y = {t[k], t[k + 1]}
      BY <2>1
    <3>2. {t[k], t[k + 1]} \in Path(r) \union {{r[1], x}}
      BY <1>7
    <3> QED BY <3>1, <3>2
  <2> QED BY <1>6, <2>2
<1> QED BY <1>1, <1>8 DEF t, L

LEMMA ThreeAreMore ==
  ASSUME NEW S, IsFiniteSet(S), NEW a \in S, NEW b \in S, NEW c \in S,
         a # b, b # c, a # c
  PROVE  Cardinality(S) >= 3
<1>1. IsFiniteSet(S \ {a}) /\ Cardinality(S \ {a}) = Cardinality(S) - 1
  BY FS_RemoveElement
<1>2. /\ IsFiniteSet((S \ {a}) \ {b})
      /\ Cardinality((S \ {a}) \ {b}) = Cardinality(S \ {a}) - 1
  BY <1>1, FS_RemoveElement
<1>3. /\ IsFiniteSet(((S \ {a}) \ {b}) \ {c})
      /\ Cardinality(((S \ {a}) \ {b}) \ {c}) = Cardinality((S \ {a}) \ {b}) - 1
  BY <1>2, FS_RemoveElement
<1>4. Cardinality(S) \in Nat /\ Cardinality(((S \ {a}) \ {b}) \ {c}) \in Nat
  BY <1>3, FS_CardinalityType
<1> QED BY <1>1, <1>2, <1>3, <1>4

(* How many edges there are, and which.                                    *)
LEMMA CountOfCells ==
  ASSUME fan \in Fans, NEW m \in 0 .. Len(fan)
  PROVE  /\ TotalOf(m) \in Nat /\ TotalOf(m) >= m
         /\ TotalOf(0) = 0
         /\ m < Len(fan) =>
              TotalOf(m + 1) = TotalOf(m) + (IF Len(fan[m + 1]) = 4 THEN 2 ELSE 1)
<1>1. Len(fan) \in Nat /\ m \in Nat
  BY FanIs
<1>2. \A k \in Nat : IsFiniteSet(Quads(k)) /\ Cardinality(Quads(k)) \in Nat
  <2> TAKE k \in Nat
  <2>1. IsFiniteSet(1 .. k) /\ Quads(k) \in SUBSET (1 .. k)
    BY FS_Interval DEF Quads
  <2> QED BY <2>1, FS_Subset, FS_CardinalityType
<1>3. Cardinality(Quads(0)) = 0
  <2>1. Quads(0) = {}
    BY DEF Quads
  <2> QED BY <2>1, FS_EmptySet
<1>4. Cardinality(Quads(m + 1)) =
        Cardinality(Quads(m)) + (IF Len(fan[m + 1]) = 4 THEN 1 ELSE 0)
  <2>1. m + 1 \notin Quads(m)
    BY <1>1 DEF Quads
  <2>2. \A c \in 1 .. (m + 1) : c \in 1 .. m \/ c = m + 1
    BY <1>1
  <2>3. \A c \in 1 .. m : c \in 1 .. (m + 1)
    BY <1>1
  <2>4. m + 1 \in 1 .. (m + 1)
    BY <1>1
  <2>5. Quads(m + 1) = IF Len(fan[m + 1]) = 4 THEN Quads(m) \union {m + 1} ELSE Quads(m)
    BY <2>2, <2>3, <2>4 DEF Quads
  <2>6. Cardinality(Quads(m) \union {m + 1}) = Cardinality(Quads(m)) + 1
    BY <1>1, <1>2, <2>1, FS_AddElement
  <2>7. Cardinality(Quads(m)) \in Nat
    BY <1>1, <1>2
  <2> QED BY <2>5, <2>6, <2>7
<1>5. Cardinality(Quads(m)) \in Nat
  BY <1>1, <1>2
<1> QED BY <1>1, <1>3, <1>4, <1>5 DEF TotalOf

LEMMA EdgesAre ==
  ASSUME fan \in Fans
  PROVE  /\ EdgeTotal = TotalOf(Len(fan))
         /\ Edges = UNION {EdgesOf(fan[c]) : c \in 1 .. Len(fan)}
<1>1. Len(fan) \in Nat /\ DOMAIN fan = 1 .. Len(fan)
  BY FanIs
<1> QED BY <1>1 DEF EdgeTotal, TotalOf, Quads, Edges, EdgesOf
-----------------------------------------------------------------------------
(* Three ways the walk may stand: a node without cells; a fan that is not  *)
(* proper, the ring of which was cleared; or a path along some of the      *)
(* edges, and the others still to come.  The number of edges is kept, and  *)
(* with it that each is listed once if no two of the fan are the same.     *)
NoCells == fan = <<>> /\ surr_points = <<>> /\ surr_pts = <<>>
Cleared == fan # <<>> /\ ~ Proper /\ surr_pts \in Seq({0}) /\ Len(surr_pts) >= 2
HasRing ==
  /\ fan # <<>>
  /\ surr_pts \in Seq(Others) /\ Len(surr_pts) >= 2
  /\ (Len(surr_pts) - 1) + (Len(surr_points) \div 2) = EdgeTotal
  /\ Path(surr_pts) \union Pairs(surr_points) = Edges

Collected ==
  ringPhase = "collect" =>
    /\ surr_pts = <<>>
    /\ Len(surr_points) = 2 * TotalOf(cell)
    /\ Pairs(surr_points) = UNION {EdgesOf(fan[c]) : c \in 1 .. cell}

Walked == ringPhase \in {"walk", "done"} => NoCells \/ Cleared \/ HasRing

UpwindLast ==
  /\ ringPhase = "done" => surr_points = <<>>
  /\ ringPhase # "done" => met = {} /\ prev = <<0, 0>>

RingInv ==
  fan \in Fans /\ RingTypeOK /\ Collected /\ Walked /\ UpwindLast /\ UpwindCovers

(* The length of the ring is what find_upwind_neighbours counts.           *)
LEMMA CountOfRing ==
  /\ NoCells => nploc = 0
  /\ Cleared => nploc = 0
  /\ HasRing => nploc = Len(surr_pts) /\ nploc >= 2
<1>1. ASSUME NoCells PROVE nploc = 0
  BY <1>1 DEF NoCells, nploc
<1>2. ASSUME Cleared PROVE nploc = 0
  <2>1. 1 \in DOMAIN surr_pts /\ surr_pts[1] = 0
    BY <1>2 DEF Cleared
  <2> QED BY <2>1 DEF nploc
<1>3. ASSUME HasRing PROVE nploc = Len(surr_pts) /\ nploc >= 2
  <2>1. \A k \in DOMAIN surr_pts : surr_pts[k] # 0
    BY <1>3, FanAssumption DEF HasRing
  <2> QED BY <1>3, <2>1 DEF HasRing, nploc
<1> QED BY <1>1, <1>2, <1>3

(* In a proper fan no edge is listed twice.                                *)
Listed(k) ==
  IF k < Len(surr_pts) THEN {surr_pts[k], surr_pts[k + 1]}
  ELSE Pair(surr_points, (k - Len(surr_pts)) + 1)

LEMMA ListedOnce ==
  ASSUME fan \in Fans, RingTypeOK, HasRing, Proper
  PROVE  /\ EdgeTotal \in Nat /\ IsFiniteSet(Edges)
         /\ \A k \in 1 .. EdgeTotal : Listed(k) \in Edges
         /\ \A k, m \in 1 .. EdgeTotal : Listed(k) = Listed(m) => k = m
<1> DEFINE L == Len(surr_pts)
           H == Len(surr_points) \div 2
           F == [k \in 1 .. EdgeTotal |-> Listed(k)]
<1>1. L \in Nat /\ L >= 2 /\ H \in Nat /\ EdgeTotal = (L - 1) + H
  BY DEF HasRing, RingTypeOK
<1>2. Edges = Path(surr_pts) \union Pairs(surr_points)
  BY DEF HasRing
<1>3. Path(surr_pts) = {{surr_pts[k], surr_pts[k + 1]} : k \in 1 .. (L - 1)}
      /\ Pairs(surr_points) = {Pair(surr_points, p) : p \in 1 .. H}
  BY DEF Path, Pairs
<1> HIDE DEF H
<1>4. \A k \in 1 .. EdgeTotal : Listed(k) \in Edges
  <2> TAKE k \in 1 .. EdgeTotal
  <2>1. CASE k < L
    <3>1. k \in 1 .. (L - 1)
      BY <1>1, <2>1
    <3> QED BY <1>2, <1>3, <2>1, <3>1 DEF Listed
  <2>2. CASE ~ (k < L)
    <3>1. (k - L) + 1 \in 1 .. H
      BY <1>1, <2>2
    <3> QED BY <1>2, <1>3, <2>2, <3>1 DEF Listed
  <2> QED BY <2>1, <2>2
<1>5. \A e \in Edges : \E k \in 1 .. EdgeTotal : Listed(k) = e
  <2> TAKE e \in Edges
  <2>1. CASE e \in Path(surr_pts)
    <3>1. PICK k \in 1 .. (L - 1) : e = {surr_pts[k], surr_pts[k + 1]}
      BY <1>3, <2>1
    <3>2. k \in 1 .. EdgeTotal /\ k < L
      BY <1>1
    <3> QED BY <3>1, <3>2 DEF Listed
  <2>2. CASE e \in Pairs(surr_points)
    <3>1. PICK p \in 1 .. H : e = Pair(surr_points, p)
      BY <1>3, <2>2
    <3>2. (L - 1) + p \in 1 .. EdgeTotal /\ ~ ((L - 1) + p < L)
          /\ (((L - 1) + p) - L) + 1 = p
      BY <1>1
    <3>3. Listed((L - 1) + p) = Pair(surr_points, p)
      BY <3>2 DEF Listed
    <3> QED BY <3>1, <3>2, <3>3
  <2> QED BY <1>2, <2>1, <2>2
<1>6. F \in Surjection(1 .. EdgeTotal, Edges)
  BY <1>4, <1>5 DEF Surjection
<1>7. IsFiniteSet(1 .. EdgeTotal) /\ Cardinality(1 .. EdgeTotal) = EdgeTotal
  <2>1. EdgeTotal \in Nat
    BY <1>1
  <2> QED BY <2>1, FS_Interval
<1>8. Cardinality(Edges) = EdgeTotal
  BY DEF Proper
<1>9. IsFiniteSet(Edges) /\ F \in Injection(1 .. EdgeTotal, Edges)
  <2> HIDE DEF F
  <2> QED BY <1>6, <1>7, <1>8, FS_Surjection
<1>10. \A k, m \in 1 .. EdgeTotal : Listed(k) = Listed(m) => k = m
  BY <1>9 DEF Injection, IsInjective
<1> QED BY <1>1, <1>4, <1>9, <1>10

(* When neither end of the ring is left on an edge, no point of it is: a   *)
(* point inside has its two edges in the ring.  So the ring would be cut   *)
(* off from the edges left, and a proper fan hangs together.               *)
LEMMA StuckIsImproper ==
  ASSUME fan \in Fans, RingTypeOK, HasRing, surr_points # <<>>,
         Absent(LastPoint), Absent(FirstPoint)
  PROVE  ~ Proper
<1> SUFFICES ASSUME Proper PROVE FALSE
  OBVIOUS
<1> DEFINE L == Len(surr_pts)
           H == Len(surr_points) \div 2
           S == {surr_pts[k] : k \in 1 .. L}
<1>1. /\ L \in Nat /\ L >= 2 /\ H \in Nat /\ H > 0 /\ Len(surr_points) = 2 * H
      /\ EdgeTotal = (L - 1) + H
      /\ DOMAIN surr_points = 1 .. Len(surr_points)
  BY DEF HasRing, RingTypeOK
<1>2. /\ Edges = Path(surr_pts) \union Pairs(surr_points)
      /\ Path(surr_pts) = {{surr_pts[k], surr_pts[k + 1]} : k \in 1 .. (L - 1)}
      /\ Pairs(surr_points) = {Pair(surr_points, p) : p \in 1 .. H}
  BY DEF HasRing, Path, Pairs
<1> HIDE DEF H
<1>3. \A p \in 1 .. H : \A x \in Pair(surr_points, p) :
        x # surr_pts[1] /\ x # surr_pts[L]
  <2> SUFFICES ASSUME NEW p \in 1 .. H, NEW x \in Pair(surr_points, p)
               PROVE  x # surr_pts[1] /\ x # surr_pts[L]
    OBVIOUS
  <2>1. 2 * p - 1 \in DOMAIN surr_points /\ 2 * p \in DOMAIN surr_points
    BY <1>1
  <2>2. x = surr_points[2 * p - 1] \/ x = surr_points[2 * p]
    BY DEF Pair
  <2> QED BY <2>1, <2>2 DEF Absent, LastPoint, FirstPoint
<1>4. ASSUME NEW k \in 2 .. (L - 1), NEW p \in 1 .. H, surr_pts[k] \in Pair(surr_points, p)
      PROVE  FALSE
  <2> DEFINE x == surr_pts[k]
             T == {e \in Edges : x \in e}
  <2>1. /\ k - 1 \in 1 .. EdgeTotal /\ k \in 1 .. EdgeTotal /\ (L - 1) + p \in 1 .. EdgeTotal
        /\ k - 1 < L /\ k < L /\ ~ ((L - 1) + p < L) /\ (((L - 1) + p) - L) + 1 = p
        /\ (k - 1) + 1 = k /\ k - 1 # k /\ k # (L - 1) + p /\ k - 1 # (L - 1) + p
    BY <1>1
  <2>2. /\ Listed(k - 1) = {surr_pts[k - 1], x} /\ Listed(k) = {x, surr_pts[k + 1]}
        /\ Listed((L - 1) + p) = Pair(surr_points, p)
    BY <2>1 DEF Listed
  <2>3. /\ Listed(k - 1) # Listed(k) /\ Listed(k) # Listed((L - 1) + p)
        /\ Listed(k - 1) # Listed((L - 1) + p)
    BY <2>1, ListedOnce
  <2>4. Listed(k - 1) \in T /\ Listed(k) \in T /\ Listed((L - 1) + p) \in T
    BY <1>4, <2>1, <2>2, ListedOnce
  <2>5. IsFiniteSet(T) /\ T \subseteq Edges
    BY ListedOnce, FS_Subset
  <2>6. x \in Neighbours
    BY <2>4 DEF Neighbours
  <2>7. Cardinality(T) <= 2
    BY <2>6 DEF Proper
  <2>8. Cardinality(T) \in Nat
    BY <2>5, FS_CardinalityType
  <2>9. Cardinality(T) >= 3
    <3> HIDE DEF T
    <3> QED BY <2>3, <2>4, <2>5, ThreeAreMore
  <2> QED BY <2>7, <2>8, <2>9
<1>5. \A p \in 1 .. H : Pair(surr_points, p) \cap S = {}
  <2> SUFFICES ASSUME NEW p \in 1 .. H, NEW k \in 1 .. L, surr_pts[k] \in Pair(surr_points, p)
               PROVE  FALSE
    OBVIOUS
  <2>1. k = 1 \/ k = L \/ k \in 2 .. (L - 1)
    BY <1>1
  <2> QED BY <1>3, <1>4, <2>1
<1>6. \A e \in Path(surr_pts) : e \subseteq S
  <2> SUFFICES ASSUME NEW k \in 1 .. (L - 1) PROVE {surr_pts[k], surr_pts[k + 1]} \subseteq S
    BY <1>2
  <2>1. k \in 1 .. L /\ k + 1 \in 1 .. L
    BY <1>1
  <2> QED BY <2>1
<1>7. S \subseteq Neighbours
  <2> SUFFICES ASSUME NEW k \in 1 .. L PROVE surr_pts[k] \in Neighbours
    OBVIOUS
  <2>1. k \in 1 .. (L - 1) \/ (k - 1 \in 1 .. (L - 1) /\ (k - 1) + 1 = k)
    BY <1>1
  <2>2. \E e \in Path(surr_pts) : surr_pts[k] \in e
    <3>1. CASE k \in 1 .. (L - 1)
      <4>1. surr_pts[k] \in {surr_pts[k], surr_pts[k + 1]}
        OBVIOUS
      <4> QED BY <1>2, <3>1, <4>1
    <3>2. CASE k - 1 \in 1 .. (L - 1) /\ (k - 1) + 1 = k
      <4>1. surr_pts[k] \in {surr_pts[k - 1], surr_pts[(k - 1) + 1]}
        BY <3>2
      <4> QED BY <1>2, <3>2, <4>1
    <3> QED BY <2>1, <3>1, <3>2
  <2> QED BY <1>2, <2>2 DEF Neighbours
<1>8. S # {}
  <2>1. 1 \in 1 .. L
    BY <1>1
  <2> QED BY <2>1
<1>9. S # Neighbours
  <2>1. 1 \in 1 .. H
    BY <1>1
  <2>2. Pair(surr_points, 1) \in Edges /\ Pair(surr_points, 1) # {}
    BY <1>2, <2>1 DEF Pair
  <2>3. Pair(surr_points, 1) \subseteq Neighbours
    BY <2>2 DEF Neighbours
  <2> QED BY <1>5, <2>1, <2>2, <2>3
<1> HIDE DEF S
<1>10. PICK e \in Edges : e \cap S # {} /\ e \ S # {}
  BY <1>7, <1>8, <1>9 DEF Proper
<1> QED BY <1>2, <1>5, <1>6, <1>10
-----------------------------------------------------------------------------
LEMMA InitRing == RingInit => RingInv
<1> SUFFICES ASSUME RingInit PROVE RingInv
  OBVIOUS
<1>1. Len(fan) \in Nat
  BY FanIs DEF RingInit
<1>2. RingTypeOK
  <2>1. \A c \in DOMAIN fan : IsFace(fan[c])
    BY FanAssumption DEF RingInit
  <2> QED BY <1>1, <2>1, FanAssumption DEF RingInit, RingTypeOK
<1>3. Collected
  <2>1. TotalOf(0) = 0
    BY <1>1, CountOfCells DEF RingInit
  <2>2. Pairs(<<>>) = {}
    BY DEF Pairs
  <2>3. UNION {EdgesOf(fan[c]) : c \in 1 .. 0} = {}
    OBVIOUS
  <2> QED BY <2>1, <2>2, <2>3 DEF RingInit, Collected
<1> QED BY <1>2, <1>3 DEF RingInit, RingInv, Walked, UpwindLast, UpwindCovers

LEMMA CollectRing == RingInv /\ Collect => RingInv'
<1> SUFFICES ASSUME RingInv, Collect PROVE RingInv'
  OBVIOUS
<1> DEFINE f == fan[cell + 1]
           e == EdgeEnds(f)
<1>1. /\ Len(fan) \in Nat /\ cell \in Nat /\ cell + 1 \in 1 .. Len(fan)
      /\ f \in Seq(Nat) /\ IsFace(f)
  BY FanIs DEF RingInv, RingTypeOK, Collect
<1>2. /\ e \in Seq(Others) /\ Len(e) = (IF Len(f) = 4 THEN 4 ELSE 2)
      /\ EdgesOf(f) = Pairs(e)
  BY <1>1, FaceAdds
<1> HIDE DEF f, e
<1>3. Len(e) % 2 = 0 /\ Len(e) \in Nat
  BY <1>2
<1>4. /\ surr_points \o e \in Seq(Others) /\ Len(surr_points \o e) = Len(surr_points) + Len(e)
      /\ Len(surr_points \o e) % 2 = 0
      /\ Pairs(surr_points \o e) = Pairs(surr_points) \union Pairs(e)
  <2>1. surr_points \in Seq(Others) /\ Len(surr_points) % 2 = 0
    BY DEF RingInv, RingTypeOK
  <2>2. e \in Seq(Others) /\ Len(e) % 2 = 0
    BY <1>2, <1>3
  <2>3. surr_points \o e \in Seq(Others) /\ Pairs(surr_points \o e) = Pairs(surr_points) \union Pairs(e)
    BY <2>1, <2>2, PairsOfBoth, SMTT(30)
  <2>4. Len(surr_points \o e) = Len(surr_points) + Len(e) /\ Len(surr_points \o e) % 2 = 0
    BY <2>1, <2>2, PairsOfBoth, Zenon
  <2> QED BY <2>3, <2>4
<1>5. CASE Len(surr_points) + Len(e) > np
  <2>1. ringPhase' = "panic" /\ UNCHANGED <<cell, surr_points, fan, surr_pts, met, prev>>
    BY <1>5 DEF f, e, Collect
  <2>2. Edges' = Edges
    BY <2>1 DEF Edges
  <2>3. RingTypeOK'
    BY <2>1, <2>2 DEF RingInv, RingTypeOK
  <2> QED BY <2>1, <2>3 DEF RingInv, Collect, Collected, Walked, UpwindLast, UpwindCovers
<1>6. CASE ~ (Len(surr_points) + Len(e) > np)
  <2>1. /\ surr_points' = surr_points \o e /\ cell' = cell + 1
        /\ UNCHANGED <<ringPhase, fan, surr_pts, met, prev>>
    BY <1>6 DEF f, e, Collect
  <2>2. RingTypeOK'
    <3>1. Len(surr_points \o e) <= np
      <4>1. surr_points \in Seq(Others) /\ np \in Nat
        BY FanAssumption DEF RingInv, RingTypeOK
      <4>2. Len(surr_points) \in Nat
        BY <4>1
      <4> QED BY <4>2, <1>3, <1>4, <1>6, <4>1
    <3>2. (cell + 1) \in 0 .. Len(fan)
      BY <1>1
    <3>3. Edges' = Edges
      BY <2>1 DEF Edges
    <3> QED BY <1>4, <2>1, <3>1, <3>2, <3>3 DEF RingInv, RingTypeOK
  <2>3. Len(surr_points \o e) = 2 * TotalOf(cell + 1)
    <3>1. /\ TotalOf(cell) \in Nat
          /\ TotalOf(cell + 1) = TotalOf(cell) + (IF Len(f) = 4 THEN 2 ELSE 1)
      <4>1. cell \in 0 .. Len(fan) /\ cell < Len(fan)
        BY <1>1
      <4> QED BY <4>1, CountOfCells DEF f, RingInv
    <3>2. Len(surr_points) = 2 * TotalOf(cell)
      BY DEF RingInv, Collect, Collected
    <3> QED BY <1>2, <1>4, <3>1, <3>2
  <2>4. Pairs(surr_points \o e) = UNION {EdgesOf(fan[c]) : c \in 1 .. (cell + 1)}
    <3>1. Pairs(surr_points) = UNION {EdgesOf(fan[c]) : c \in 1 .. cell}
      BY DEF RingInv, Collect, Collected
    <3>2. 1 .. (cell + 1) = (1 .. cell) \union {cell + 1}
      BY <1>1
    <3> QED BY <1>2, <1>4, <3>1, <3>2 DEF f
  <2>5. Collected'
    <3>1. \A c \in 1 .. (cell + 1) : EdgesOf(fan[c])' = EdgesOf(fan[c])
      BY <2>1 DEF EdgesOf, EdgeEnds, TwoOthers, After, Place
    <3>2. TotalOf(cell)' = TotalOf(cell + 1)
      BY <2>1 DEF TotalOf, Quads
    <3>3. surr_pts' = <<>>
      BY <2>1 DEF RingInv, Collect, Collected
    <3>4. Len(surr_points') = 2 * TotalOf(cell)'
      BY <2>1, <2>3, <3>2
    <3>5. Pairs(surr_points)' = UNION {EdgesOf(fan[c]) : c \in 1 .. (cell + 1)}
      BY <2>1, <2>4 DEF Pairs, Pair
    <3>6. Pairs(surr_points)' = UNION {EdgesOf(fan[c])' : c \in 1 .. cell'}
      BY <2>1, <3>1, <3>5
    <3> QED BY <3>3, <3>4, <3>6 DEF Collected
  <2> QED BY <2>1, <2>2, <2>5 DEF RingInv, Collect, Walked, UpwindLast, UpwindCovers
<1> QED BY <1>5, <1>6

(* The first two ends begin the ring.                                      *)
LEMMA FirstPair ==
  ASSUME NEW S, NEW s \in Seq(S), Len(s) % 2 = 0, s # <<>>
  PROVE  /\ SubSeq(s, 1, 2) \in Seq(S) /\ Len(SubSeq(s, 1, 2)) = 2
         /\ Path(SubSeq(s, 1, 2)) = {Pair(s, 1)}
         /\ SubSeq(s, 3, Len(s)) = RemoveTwo(s, 1)
         /\ Len(s) >= 2
<1>1. Len(s) \in Nat /\ Len(s) >= 2 /\ s[1] \in S /\ s[2] \in S
  OBVIOUS
<1> DEFINE t == SubSeq(s, 1, 2)
<1>2. t \in Seq(S) /\ Len(t) = 2 /\ t[1] = s[1] /\ t[2] = s[2]
  <2>1. \A k \in 1 .. 2 : s[k] \in S
    BY <1>1
  <2>2. /\ SubSeq(s, 1, 2) \in Seq(S)
        /\ Len(SubSeq(s, 1, 2)) = IF 1 <= 2 THEN 2 - 1 + 1 ELSE 0
        /\ \A k \in 1 .. 2 - 1 + 1 : SubSeq(s, 1, 2)[k] = s[1 + k - 1]
    BY <2>1, SubSeqProperties
  <2> HIDE DEF t
  <2>3. t = SubSeq(s, 1, 2)
    BY DEF t
  <2> QED BY <2>2, <2>3
<1> HIDE DEF t
<1>3. Path(t) = {{s[1], s[2]}}
  <2>1. Len(t) - 1 = 1 /\ 1 .. 1 = {1}
    BY <1>2
  <2>2. Path(t) = {{t[k], t[k + 1]} : k \in {1}}
    BY <2>1, Zenon DEF Path
  <2> QED BY <1>2, <2>2
<1>4. Pair(s, 1) = {s[1], s[2]}
  BY DEF Pair
<1>5. SubSeq(s, 3, Len(s)) = RemoveTwo(s, 1)
  <2>1. SubSeq(s, 1, 0) = <<>>
    BY SubSeqEmpty
  <2>2. SubSeq(s, 3, Len(s)) \in Seq(S)
    <3>1. \A k \in 3 .. Len(s) : s[k] \in S
      OBVIOUS
    <3> QED BY <1>1, <3>1, SubSeqProperties
  <2>3. <<>> \o SubSeq(s, 3, Len(s)) = SubSeq(s, 3, Len(s))
    BY <2>2, ConcatEmptySeq
  <2> QED BY <2>1, <2>3 DEF RemoveTwo
<1> QED BY <1>1, <1>2, <1>3, <1>4, <1>5 DEF t

LEMMA BeginRing == RingInv /\ Begin => RingInv'
<1> SUFFICES ASSUME RingInv, Begin PROVE RingInv'
  OBVIOUS
<1> USE DEF RingInv
<1>1. /\ ringPhase = "collect" /\ cell = Len(fan) /\ ringPhase' = "walk"
      /\ UNCHANGED <<fan, cell, met, prev>>
  BY DEF Begin
<1>2. /\ surr_pts = <<>> /\ Len(surr_points) = 2 * EdgeTotal
      /\ Pairs(surr_points) = Edges
  BY <1>1, EdgesAre DEF Collected
<1>3. EdgeTotal \in Nat /\ EdgeTotal >= Len(fan) /\ Len(fan) \in Nat /\ EdgeTotal = TotalOf(Len(fan))
  <2>1. Len(fan) \in Nat /\ Len(fan) \in 0 .. Len(fan)
    BY FanIs
  <2> QED BY <2>1, EdgesAre, CountOfCells
<1>4. Edges' = Edges /\ EdgeTotal' = EdgeTotal
  BY <1>1 DEF Edges, EdgeTotal
<1>5. Collected' /\ UpwindLast' /\ UpwindCovers'
  BY <1>1 DEF Collected, UpwindLast, UpwindCovers
<1>6. CASE surr_points = <<>>
  <2>1. UNCHANGED <<surr_points, surr_pts>>
    BY <1>6 DEF Begin
  <2>2. RingTypeOK'
    BY <1>1, <1>4, <2>1 DEF RingTypeOK
  <2>3. fan = <<>>
    <3>1. Len(fan) = 0
      BY <1>2, <1>3, <1>6
    <3>2. fan \in Seq(Seq(Nat))
      BY FanAssumption
    <3> QED BY <3>1, <3>2
  <2>4. NoCells'
    BY <1>1, <1>2, <1>6, <2>1, <2>3 DEF NoCells
  <2> QED BY <1>1, <1>5, <2>2, <2>4 DEF Walked
<1>7. CASE surr_points # <<>>
  <2>1. /\ surr_pts' = SubSeq(surr_points, 1, 2)
        /\ surr_points' = SubSeq(surr_points, 3, Len(surr_points))
    BY <1>7 DEF Begin
  <2>2. /\ surr_pts' \in Seq(Others) /\ Len(surr_pts') = 2
        /\ Path(surr_pts') = {Pair(surr_points, 1)}
        /\ surr_points' = RemoveTwo(surr_points, 1)
        /\ Len(surr_points) >= 2
    BY <1>7, <2>1, FirstPair DEF RingTypeOK
  <2>3. 1 \in 1 .. (Len(surr_points) \div 2) /\ 2 * 1 - 1 = 1
    BY <2>2 DEF RingTypeOK
  <2>4. /\ surr_points' \in Seq(Others) /\ Len(surr_points') = Len(surr_points) - 2
        /\ Len(surr_points') % 2 = 0
        /\ Pairs(surr_points) = Pairs(surr_points') \union {Pair(surr_points, 1)}
    BY <2>2, <2>3, TakenOut DEF RingTypeOK
  <2>5. RingTypeOK'
    <3>1. Len(surr_points') <= np
      BY <2>4, FanAssumption DEF RingTypeOK
    <3> QED BY <1>1, <1>4, <2>2, <2>4, <3>1 DEF RingTypeOK
  <2>6. fan # <<>>
    BY <1>2, <1>3, <2>2, EdgesAre, CountOfCells
  <2>7. (Len(surr_pts') - 1) + (Len(surr_points') \div 2) = EdgeTotal
    BY <1>2, <1>3, <2>2, <2>4
  <2>8. Path(surr_pts') \union Pairs(surr_points') = Edges
    BY <1>2, <2>2, <2>4
  <2>9. HasRing'
    BY <1>1, <1>4, <2>2, <2>6, <2>7, <2>8 DEF HasRing, Path, Pairs, Pair
  <2> QED BY <1>1, <1>5, <2>5, <2>9 DEF Walked
<1> QED BY <1>6, <1>7

(* The pair an end is found in.                                            *)
LEMMA PairFound ==
  ASSUME NEW S, surr_points \in Seq(S), Len(surr_points) % 2 = 0,
         NEW n \in DOMAIN surr_points
  PROVE  /\ Partner(n) \in S
         /\ \E m \in 1 .. (Len(surr_points) \div 2) :
              /\ PairOf(n) = 2 * m - 1
              /\ Pair(surr_points, m) = {surr_points[n], Partner(n)}
<1>1. Len(surr_points) \in Nat /\ n \in 1 .. Len(surr_points)
  OBVIOUS
<1>2. CASE n % 2 = 1
  <2> DEFINE m == (n + 1) \div 2
  <2>1. m \in 1 .. (Len(surr_points) \div 2) /\ 2 * m - 1 = n /\ 2 * m = n + 1
        /\ n + 1 \in 1 .. Len(surr_points)
    BY <1>1, <1>2
  <2>2. PairOf(n) = n /\ Partner(n) = surr_points[n + 1]
    BY <1>2 DEF PairOf, Partner
  <2>3. Pair(surr_points, m) = {surr_points[n], surr_points[n + 1]}
    BY <2>1 DEF Pair
  <2> HIDE DEF m
  <2> QED BY <2>1, <2>2, <2>3
<1>3. CASE n % 2 # 1
  <2> DEFINE m == n \div 2
  <2>1. m \in 1 .. (Len(surr_points) \div 2) /\ 2 * m - 1 = n - 1 /\ 2 * m = n
        /\ n - 1 \in 1 .. Len(surr_points)
    BY <1>1, <1>3
  <2>2. PairOf(n) = n - 1 /\ Partner(n) = surr_points[n - 1]
    BY <1>3 DEF PairOf, Partner
  <2>3. Pair(surr_points, m) = {surr_points[n], surr_points[n - 1]}
    BY <2>1 DEF Pair
  <2> HIDE DEF m
  <2> QED BY <2>1, <2>2, <2>3
<1> QED BY <1>2, <1>3

(* The walk stands where there is something to walk.                       *)
LEMMA Underway ==
  RingInv /\ Walking =>
    /\ Cleared \/ HasRing
    /\ Cleared => Absent(FirstPoint) /\ Absent(LastPoint)
<1> SUFFICES ASSUME RingInv, Walking
             PROVE  /\ Cleared \/ HasRing
                    /\ Cleared => Absent(FirstPoint) /\ Absent(LastPoint)
  OBVIOUS
<1>1. Cleared \/ HasRing
  BY DEF RingInv, Walked, Walking, NoCells
<1>2. ASSUME Cleared PROVE Absent(FirstPoint) /\ Absent(LastPoint)
  <2>1. FirstPoint = 0 /\ LastPoint = 0
    BY <1>2 DEF Cleared, FirstPoint, LastPoint
  <2>2. \A n \in DOMAIN surr_points : surr_points[n] \in Others
    BY DEF RingInv, RingTypeOK
  <2> QED BY <2>1, <2>2, FanAssumption DEF Absent
<1> QED BY <1>1, <1>2

(* One more edge in the ring, one less to come.                            *)
LEMMA RingGrows ==
  ASSUME RingInv, Walking, HasRing, UNCHANGED <<fan, ringPhase, cell, met, prev>>,
         NEW m \in 1 .. (Len(surr_points) \div 2),
         surr_points' = RemoveTwo(surr_points, 2 * m - 1),
         surr_pts' \in Seq(Others), Len(surr_pts') = Len(surr_pts) + 1,
         Path(surr_pts') = Path(surr_pts) \union {Pair(surr_points, m)}
  PROVE  RingInv'
<1>1. surr_points \in Seq(Others) /\ Len(surr_points) % 2 = 0 /\ Len(surr_points) \in Nat
  <2>1. surr_points \in Seq(Others) /\ Len(surr_points) % 2 = 0
    BY DEF RingInv, RingTypeOK
  <2>2. Len(surr_points) \in Nat
    BY <2>1
  <2> QED BY <2>1, <2>2
<1>2. /\ surr_points' \in Seq(Others) /\ Len(surr_points') = Len(surr_points) - 2
      /\ Len(surr_points') % 2 = 0
      /\ Pairs(surr_points) = Pairs(surr_points') \union {Pair(surr_points, m)}
  BY <1>1, TakenOut
<1>3. Edges' = Edges /\ EdgeTotal' = EdgeTotal
  BY DEF Edges, EdgeTotal
<1>4. RingTypeOK'
  <2>1. Len(surr_points') <= np
    BY <1>1, <1>2, FanAssumption DEF RingInv, RingTypeOK
  <2> QED BY <1>2, <1>3, <2>1 DEF RingInv, RingTypeOK
<1>5. HasRing'
  <2>1. surr_pts \in Seq(Others) /\ Len(surr_pts) >= 2 /\ Len(surr_pts) \in Nat
    BY DEF HasRing
  <2>2. (Len(surr_pts) - 1) + (Len(surr_points) \div 2) = EdgeTotal
    BY DEF HasRing
  <2>3. (Len(surr_pts') - 1) + (Len(surr_points') \div 2) = EdgeTotal
    <3>1. Len(surr_points') \div 2 = (Len(surr_points) \div 2) - 1
          /\ Len(surr_points) \div 2 \in Int
      BY <1>1, <1>2
    <3>2. Len(surr_pts') = Len(surr_pts) + 1
      OBVIOUS
    <3> QED BY <2>1, <2>2, <3>1, <3>2
  <2>4. Path(surr_pts') \union Pairs(surr_points') = Edges
    BY <1>2 DEF HasRing
  <2>5. Len(surr_pts') >= 2
    BY <2>1
  <2> QED BY <1>3, <2>3, <2>4, <2>5 DEF HasRing, Path, Pairs, Pair
<1> QED BY <1>4, <1>5 DEF RingInv, Walking, Collected, Walked, UpwindLast, UpwindCovers

LEMMA ExtendRing == RingInv /\ Extend => RingInv'
<1> SUFFICES ASSUME RingInv, Extend PROVE RingInv'
  OBVIOUS
<1>1. Walking /\ UNCHANGED <<fan, ringPhase, cell, met, prev>>
  BY DEF Extend
<1>2. PICK n \in DOMAIN surr_points :
        /\ FirstAt(LastPoint, n)
        /\ surr_pts' = Append(surr_pts, Partner(n))
        /\ surr_points' = RemoveTwo(surr_points, PairOf(n))
  BY DEF Extend
<1>3. surr_points[n] = LastPoint
  BY <1>2 DEF FirstAt
<1>4. HasRing
  BY <1>1, <1>3, Underway DEF Absent
<1>5. surr_points \in Seq(Others) /\ Len(surr_points) % 2 = 0
  BY DEF RingInv, RingTypeOK
<1>6. PICK m \in 1 .. (Len(surr_points) \div 2) :
        /\ PairOf(n) = 2 * m - 1
        /\ Pair(surr_points, m) = {surr_points[n], Partner(n)}
  BY <1>5, PairFound
<1>7. Partner(n) \in Others
  BY <1>5, PairFound
<1>8. surr_pts \in Seq(Others) /\ Len(surr_pts) > 0
  BY <1>4 DEF HasRing
<1>9. /\ surr_pts' \in Seq(Others) /\ Len(surr_pts') = Len(surr_pts) + 1
      /\ Path(surr_pts') = Path(surr_pts) \union {Pair(surr_points, m)}
  BY <1>2, <1>3, <1>6, <1>7, <1>8, LongerAtTheEnd DEF LastPoint
<1>10. surr_points' = RemoveTwo(surr_points, 2 * m - 1)
  BY <1>2, <1>6
<1> QED BY <1>1, <1>4, <1>9, <1>10, RingGrows

LEMMA PrependRing == RingInv /\ Prepend => RingInv'
<1> SUFFICES ASSUME RingInv, Prepend PROVE RingInv'
  OBVIOUS
<1>1. Walking /\ UNCHANGED <<fan, ringPhase, cell, met, prev>>
  BY DEF Prepend
<1>2. PICK n \in DOMAIN surr_points :
        /\ FirstAt(FirstPoint, n)
        /\ surr_pts' = <<Partner(n)>> \o surr_pts
        /\ surr_points' = RemoveTwo(surr_points, PairOf(n))
  BY DEF Prepend
<1>3. surr_points[n] = FirstPoint
  BY <1>2 DEF FirstAt
<1>4. HasRing
  BY <1>1, <1>3, Underway DEF Absent
<1>5. surr_points \in Seq(Others) /\ Len(surr_points) % 2 = 0
  BY DEF RingInv, RingTypeOK
<1>6. PICK m \in 1 .. (Len(surr_points) \div 2) :
        /\ PairOf(n) = 2 * m - 1
        /\ Pair(surr_points, m) = {surr_points[n], Partner(n)}
  BY <1>5, PairFound
<1>7. Partner(n) \in Others
  BY <1>5, PairFound
<1>8. surr_pts \in Seq(Others) /\ Len(surr_pts) > 0
  BY <1>4 DEF HasRing
<1>9. /\ surr_pts' \in Seq(Others) /\ Len(surr_pts') = Len(surr_pts) + 1
      /\ Path(surr_pts') = Path(surr_pts) \union {Pair(surr_points, m)}
  BY <1>2, <1>3, <1>6, <1>7, <1>8, LongerAtTheStart DEF FirstPoint
<1>10. surr_points' = RemoveTwo(surr_points, 2 * m - 1)
  BY <1>2, <1>6
<1> QED BY <1>1, <1>4, <1>9, <1>10, RingGrows

LEMMA WipeRing == RingInv /\ Wipe => RingInv'
<1> SUFFICES ASSUME RingInv, Wipe PROVE RingInv'
  OBVIOUS
<1>1. /\ Walking /\ UNCHANGED <<fan, ringPhase, cell, met, prev>>
      /\ Absent(LastPoint) /\ Absent(FirstPoint)
      /\ surr_pts' = [p \in DOMAIN surr_pts |-> 0]
      /\ surr_points' = SubSeq(surr_points, 1, Len(surr_points) - 2)
  BY DEF Wipe
<1>2. fan # <<>> /\ Len(surr_pts) \in Nat /\ Len(surr_pts) >= 2 /\ DOMAIN surr_pts = 1 .. Len(surr_pts)
  BY <1>1, Underway DEF Cleared, HasRing
<1>3. ~ Proper
  BY <1>1, Underway, StuckIsImproper DEF RingInv, Cleared, Walking
<1>4. surr_pts' \in Seq({0}) /\ Len(surr_pts') >= 2
  BY <1>1, <1>2
<1>5. surr_points \in Seq(Others) /\ Len(surr_points) % 2 = 0 /\ Len(surr_points) <= np
      /\ Len(surr_points) \in Nat /\ Len(surr_points) >= 2
  BY <1>1 DEF RingInv, RingTypeOK, Walking
<1>6. surr_points' \in Seq(Others) /\ Len(surr_points') = Len(surr_points) - 2
  <2> DEFINE m2 == Len(surr_points) - 2
  <2>1. m2 \in Int /\ m2 >= 0 /\ 1 \in Int
    BY <1>5
  <2>2. \A p \in 1 .. m2 : surr_points[p] \in Others
    BY <1>5
  <2> HIDE DEF m2
  <2>3. /\ SubSeq(surr_points, 1, m2) \in Seq(Others)
        /\ Len(SubSeq(surr_points, 1, m2)) = IF 1 <= m2 THEN m2 - 1 + 1 ELSE 0
    BY <2>1, <2>2, SubSeqProperties
  <2>4. surr_points' = SubSeq(surr_points, 1, m2)
    BY <1>1 DEF m2
  <2>5. m2 - 1 + 1 = m2
    BY <2>1
  <2>6. Len(surr_points') = m2
    BY <2>1, <2>3, <2>4, <2>5
  <2> QED BY <2>3, <2>4, <2>6 DEF m2
<1>7. Edges' = Edges /\ EdgeTotal' = EdgeTotal /\ Neighbours' = Neighbours
  BY <1>1 DEF Edges, EdgeTotal, Neighbours
<1>8. RingTypeOK'
  <2>1. Len(surr_points') % 2 = 0 /\ Len(surr_points') <= np
    BY <1>5, <1>6, FanAssumption
  <2> QED BY <1>1, <1>4, <1>6, <1>7, <2>1 DEF RingInv, RingTypeOK
<1>9. Cleared'
  BY <1>1, <1>2, <1>3, <1>4, <1>7 DEF Cleared, Proper
<1> QED BY <1>1, <1>8, <1>9 DEF RingInv, Walking, Collected, Walked, UpwindLast, UpwindCovers

LEMMA UpwindRing == RingInv /\ Upwind => RingInv'
<1> SUFFICES ASSUME RingInv, Upwind PROVE RingInv'
  OBVIOUS
<1>1. /\ ringPhase = "walk" /\ surr_points = <<>> /\ met' \subseteq Edges /\ ringPhase' = "done"
      /\ UNCHANGED <<fan, cell, surr_points, surr_pts>>
  BY DEF Upwind
<1>2. Edges' = Edges /\ EdgeTotal' = EdgeTotal /\ Neighbours' = Neighbours /\ nploc' = nploc
  BY <1>1 DEF Edges, EdgeTotal, Neighbours, nploc
<1>3. Walked'
  BY <1>1, <1>2 DEF RingInv, Walked, NoCells, Cleared, HasRing, Proper, Path, Pairs, Pair
<1>4. prev = <<0, 0>>
  BY <1>1 DEF RingInv, UpwindLast
<1>5. ASSUME nploc > 0, nploc \in Nat
      PROVE  /\ surr_pts \in Seq(Others) /\ nploc = Len(surr_pts)
             /\ Edges = {{surr_pts[ip], surr_pts[ip + 1]} : ip \in Segments}
  <2>1. HasRing
    BY <1>1, <1>5, CountOfRing DEF RingInv, Walked
  <2>2. nploc = Len(surr_pts)
    BY <2>1, CountOfRing
  <2>3. Pairs(surr_points) = {}
    BY <1>1 DEF Pairs
  <2>4. Edges = Path(surr_pts)
    BY <2>1, <2>3 DEF HasRing
  <2> QED BY <2>1, <2>2, <2>4 DEF HasRing, Path, Segments
<1>6. nploc \in Nat
  BY <1>1, CountOfRing DEF RingInv, Walked, HasRing
<1>7. /\ prev' \in {<<0, 0>>, Sentinel} \union (Others \X Others)
      /\ prev' \in IF nploc = 0 THEN {<<0, 0>>}
                   ELSE IF met' = {} THEN {<<1, 1>>}
                   ELSE {p \in Others \X Others : {p[1], p[2]} \in met'}
  <2>1. CASE nploc = 0 /\ UNCHANGED prev
    BY <1>4, <2>1
  <2>2. CASE /\ nploc > 0
             /\ \A ip \in Segments : ~ Hit(ip, met')
             /\ prev' = Sentinel
    <3>1. met' = {}
      BY <1>1, <1>5, <1>6, <2>2 DEF Hit
    <3> QED BY <1>6, <2>2, <3>1 DEF Sentinel
  <2>3. ASSUME NEW ip \in Segments, Hit(ip, met'), prev' = <<surr_pts[ip], surr_pts[ip + 1]>>
        PROVE  /\ prev' \in Others \X Others
               /\ {prev'[1], prev'[2]} \in met' /\ nploc # 0
    <3>1. nploc > 0 /\ ip \in 1 .. nploc /\ ip + 1 \in 1 .. nploc
      BY <1>6 DEF Segments
    <3>2. surr_pts[ip] \in Others /\ surr_pts[ip + 1] \in Others
      BY <1>5, <1>6, <3>1
    <3> QED BY <2>3, <3>1, <3>2 DEF Hit
  <2> QED BY <2>1, <2>2, <2>3 DEF Upwind
<1>8. RingTypeOK'
  BY <1>1, <1>2, <1>7 DEF RingInv, RingTypeOK
<1>9. UpwindCovers'
  BY <1>2, <1>7 DEF UpwindCovers
<1> QED BY <1>1, <1>3, <1>8, <1>9 DEF RingInv, Collected, UpwindLast

LEMMA NextRing == RingInv /\ [RingNext]_ringVars => RingInv'
<1>1. ASSUME RingInv, UNCHANGED ringVars PROVE RingInv'
  <2>1. UNCHANGED <<fan, ringPhase, cell, surr_points, surr_pts, met, prev>>
    BY <1>1 DEF ringVars
  <2>2. Edges' = Edges /\ EdgeTotal' = EdgeTotal /\ Neighbours' = Neighbours /\ nploc' = nploc
    BY <2>1 DEF Edges, EdgeTotal, Neighbours, nploc
  <2>3. RingTypeOK' /\ UpwindCovers' /\ UpwindLast'
    BY <1>1, <2>1, <2>2 DEF RingInv, RingTypeOK, UpwindCovers, UpwindLast
  <2>4. Collected'
    <3>1. TotalOf(cell)' = TotalOf(cell) /\ Pairs(surr_points)' = Pairs(surr_points)
      BY <2>1 DEF TotalOf, Quads, Pairs, Pair
    <3>2. UNION {EdgesOf(fan[c])' : c \in 1 .. cell'} = UNION {EdgesOf(fan[c]) : c \in 1 .. cell}
      BY <2>1 DEF EdgesOf, EdgeEnds, TwoOthers, After, Place
    <3> QED BY <1>1, <2>1, <3>1, <3>2 DEF RingInv, Collected
  <2>5. Walked'
    BY <1>1, <2>1, <2>2 DEF RingInv, Walked, NoCells, Cleared, HasRing, Proper, Path, Pairs, Pair
  <2> QED BY <1>1, <2>1, <2>3, <2>4, <2>5 DEF RingInv
<1> QED BY <1>1, CollectRing, BeginRing, ExtendRing, PrependRing, WipeRing, UpwindRing DEF RingNext

(* The walk is type-correct: the ring holds nodes of the mesh around the   *)
(* node, or zeros only, and the list of ends of edges fits its room        *)
(* (fm_surrounding_points).                                                *)
THEOREM RingIsTyped == RingSpec => []RingTypeOK
<1>1. RingInv => RingTypeOK
  BY DEF RingInv
<1> QED BY InitRing, NextRing, <1>1, PTL DEF RingSpec

(* The ring of a node is all or nothing: it passes every edge of the fan   *)
(* of its cells once or it is cleared, and that of a proper fan is never   *)
(* cleared, for every fan, in every order and orientation of the cells     *)
(* (fm_surrounding_points).                                                *)
THEOREM RingIsWhole == RingSpec => []RingIsTheFan
<1>1. RingInv => RingIsTheFan
  <2> SUFFICES ASSUME RingInv, ringPhase = "done"
               PROVE  /\ Proper /\ fan # <<>> => nploc > 0
                      /\ nploc > 0 => nploc = EdgeTotal + 1 /\ RingEdges = Edges
    BY DEF RingIsTheFan
  <2>1. surr_points = <<>> /\ (NoCells \/ Cleared \/ HasRing)
    BY DEF RingInv, UpwindLast, Walked
  <2>2. CASE NoCells \/ Cleared
    BY <2>2, CountOfRing DEF NoCells, Cleared
  <2>3. CASE HasRing
    <3>1. nploc = Len(surr_pts) /\ nploc >= 2 /\ nploc \in Nat
      BY <2>3, CountOfRing DEF HasRing
    <3>2. Len(surr_points) \div 2 = 0 /\ Pairs(surr_points) = {}
      BY <2>1 DEF Pairs
    <3>3. (nploc - 1) + 0 = EdgeTotal
      BY <2>3, <3>1, <3>2 DEF HasRing
    <3>4. RingEdges = Edges
      BY <2>3, <3>1, <3>2 DEF HasRing, RingEdges, Path
    <3> QED BY <3>1, <3>3, <3>4
  <2> QED BY <2>1, <2>2, <2>3
<1> QED BY InitRing, NextRing, <1>1, PTL DEF RingSpec

(* A node with a ring has upwind neighbours in exactly the directions      *)
(* whose ray meets an edge of its cells, and they are the ends of such an  *)
(* edge; a node without gets none (find_upwind_neighbours).                *)
THEOREM WavesFindTheirWay == RingSpec => []UpwindCovers
<1>1. RingInv => UpwindCovers
  BY DEF RingInv
<1> QED BY InitRing, NextRing, <1>1, PTL DEF RingSpec
=============================================================================
