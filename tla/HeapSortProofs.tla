--------------------------- MODULE HeapSortProofs ---------------------------
(***************************************************************************)
(* The sort, for every number of nodes, all keys and every tolerance.  It  *)
(* loses no node, which is what SweepSolver assumes of its orders; and the *)
(* order it leaves is that of the keys where closeness is transitive, and  *)
(* wrong by at most two tolerances per level of the heap where it is not.  *)
(***************************************************************************)
EXTENDS HeapSort, RecursionFacts, TLAPS

(* While a place is looked for, the underling looked at is below the place *)
(* that is free.                                                           *)
UnderlingIsBelow == step = "compare" /\ j <= ir => i < j

Inv == TypeOK /\ UnderlingIsBelow /\ NothingIsLost

(* The better underling is one of the places of the heap, below i.         *)
LEMMA BetterIsAPlace ==
  ASSUME TypeOK, UnderlingIsBelow, step = "compare", j <= ir
  PROVE  Better \in Places /\ i < Better /\ Better <= ir
BY HeapAssumption DEF TypeOK, UnderlingIsBelow, Better, Places

LEMMA InitInv == Init => Inv
<1> SUFFICES ASSUME Init PROVE Inv
  OBVIOUS
<1>1. n \in Nat \ {0} /\ key \in [1 .. n -> Keys]
  BY HeapAssumption DEF Init
<1>2. \A p \in Places : p + 1 \in 1 .. n /\ ra[p] = key[p + 1] /\ ind[p] = p + 1
  BY <1>1 DEF Init, Places
<1>3. TypeOK
  BY <1>1, <1>2 DEF Init, TypeOK, Places
<1>4. UnderlingIsBelow
  BY DEF Init, UnderlingIsBelow
<1>5. \A p \in Places : NodeAt(p) = p + 1 /\ KeyAt(p) = key[p + 1]
  BY <1>2 DEF Init, NodeAt, KeyAt
<1>6. \A k \in 1 .. n : k - 1 \in Places /\ NodeAt(k - 1) = k
  BY <1>1, <1>5 DEF Places
<1>7. \A p, q \in Places : p + 1 = q + 1 => p = q
  BY <1>1 DEF Places
<1> QED
  BY <1>3, <1>4, <1>5, <1>6, <1>7 DEF Inv, NothingIsLost

(* Exchanging the nodes of two places, with their keys, loses nothing.     *)
LEMMA SwapKeeps ==
  ASSUME NothingIsLost, n' = n, key' = key,
         NEW a \in Places, NEW b \in Places,
         NodeAt(a)' = NodeAt(b), NodeAt(b)' = NodeAt(a),
         KeyAt(a)' = KeyAt(b), KeyAt(b)' = KeyAt(a),
         \A p \in Places \ {a, b} : NodeAt(p)' = NodeAt(p) /\ KeyAt(p)' = KeyAt(p)
  PROVE  NothingIsLost'
<1> DEFINE Back(p) == IF p = a THEN b ELSE IF p = b THEN a ELSE p
<1>1. Places' = Places
  BY DEF Places
<1>2. \A p \in Places : /\ Back(p) \in Places /\ Back(Back(p)) = p
                        /\ NodeAt(p)' = NodeAt(Back(p))
                        /\ KeyAt(p)' = KeyAt(Back(p))
  OBVIOUS
<1> HIDE DEF Back
<1>3. \A k \in 1 .. n : \E p \in Places : NodeAt(p)' = k
  <2> TAKE k \in 1 .. n
  <2>1. PICK p \in Places : NodeAt(p) = k
    BY DEF NothingIsLost
  <2> QED BY <2>1, <1>2
<1>4. \A p, q \in Places : NodeAt(p)' = NodeAt(q)' => p = q
  <2> SUFFICES ASSUME NEW p \in Places, NEW q \in Places, NodeAt(p)' = NodeAt(q)'
               PROVE  p = q
    OBVIOUS
  <2>1. Back(p) = Back(q)
    BY <1>2 DEF NothingIsLost
  <2> QED BY <2>1, <1>2
<1>5. \A p \in Places : KeyAt(p)' = key[NodeAt(p)']
  BY <1>2 DEF NothingIsLost
<1> QED
  BY <1>1, <1>3, <1>4, <1>5 DEF NothingIsLost

LEMMA SameKeeps ==
  ASSUME NothingIsLost, n' = n, key' = key,
         \A p \in Places : NodeAt(p)' = NodeAt(p) /\ KeyAt(p)' = KeyAt(p)
  PROVE  NothingIsLost'
<1>1. Places' = Places
  BY DEF Places
<1> QED
  BY <1>1 DEF NothingIsLost

LEMMA HireInv == Inv /\ Hire => Inv'
<1> SUFFICES ASSUME Inv, Hire PROVE Inv'
  OBVIOUS
<1>1. l' \in 0 .. n \div 2 /\ l' \in Places /\ l' < 2 * l' + 1 /\ 2 * l' + 1 \in 0 .. 2 * n
  BY HeapAssumption DEF Inv, TypeOK, Hire, input, Places
<1>2. TypeOK' /\ UnderlingIsBelow'
  BY <1>1 DEF Inv, TypeOK, UnderlingIsBelow, Hire, input, Places
<1>3. \A p \in Places : NodeAt(p)' = NodeAt(p) /\ KeyAt(p)' = KeyAt(p)
  BY <1>1 DEF Hire, NodeAt, KeyAt
<1> QED
  BY <1>2, <1>3, SameKeeps DEF Inv, Hire, input

LEMMA RetireInv == Inv /\ Retire => Inv'
<1> SUFFICES ASSUME Inv, Retire PROVE Inv'
  OBVIOUS
<1>1. /\ ir \in Places /\ 0 \in Places /\ ir # 0 /\ ir - 1 \in Places
      /\ 1 \in 0 .. 2 * n
  BY HeapAssumption DEF Inv, TypeOK, Retire, Places
<1>2. TypeOK' /\ UnderlingIsBelow'
  BY <1>1 DEF Inv, TypeOK, UnderlingIsBelow, Retire, input, Places
<1>3. PICK a \in Places : a = ir
  BY <1>1
<1>4. /\ NodeAt(0)' = NodeAt(a) /\ NodeAt(a)' = NodeAt(0)
      /\ KeyAt(0)' = KeyAt(a) /\ KeyAt(a)' = KeyAt(0)
      /\ \A p \in Places \ {0, a} : NodeAt(p)' = NodeAt(p) /\ KeyAt(p)' = KeyAt(p)
  BY <1>1, <1>3 DEF Inv, TypeOK, Retire, NodeAt, KeyAt
<1> QED
  BY <1>1, <1>2, <1>4, SwapKeeps DEF Inv, Retire, input

LEMMA RetireLastInv == Inv /\ RetireLast => Inv'
<1> SUFFICES ASSUME Inv, RetireLast PROVE Inv'
  OBVIOUS
<1>1. 0 \in Places
  BY HeapAssumption DEF Inv, TypeOK, Places
<1>2. TypeOK' /\ UnderlingIsBelow'
  BY <1>1 DEF Inv, TypeOK, UnderlingIsBelow, RetireLast, input, Places
<1>3. \A p \in Places : NodeAt(p)' = NodeAt(p) /\ KeyAt(p)' = KeyAt(p)
  BY DEF RetireLast, NodeAt, KeyAt
<1> QED
  BY <1>2, <1>3, SameKeeps DEF Inv, RetireLast, input

LEMMA PromoteInv == Inv /\ Promote => Inv'
<1> SUFFICES ASSUME Inv, Promote PROVE Inv'
  OBVIOUS
<1>1. i \in Places /\ Better \in Places /\ i < Better /\ i # Better
  BY BetterIsAPlace DEF Inv, TypeOK, Promote, Places
<1> DEFINE b == Better
<1> HIDE DEF b
<1>2. TypeOK' /\ UnderlingIsBelow'
  <2>1. b \in 0 .. n - 1 /\ b < 2 * b + 1 /\ 2 * b + 1 \in 0 .. 2 * n
    BY <1>1, HeapAssumption DEF b, Inv, TypeOK, Places
  <2>2. i' = b /\ j' = 2 * b + 1
    BY DEF Promote, b
  <2>3. ra' \in [Places -> Keys] /\ ind' \in [Places -> 1 .. n]
    BY <1>1 DEF Inv, TypeOK, Promote
  <2> QED
    BY <2>1, <2>2, <2>3 DEF Inv, TypeOK, UnderlingIsBelow, Promote, input, hand, Places
<1>3. PICK a \in Places, c \in Places : a = i /\ c = b
  BY <1>1 DEF b
<1>4. /\ ra' = [ra EXCEPT ![a] = ra[c]] /\ ind' = [ind EXCEPT ![a] = ind[c]]
      /\ i' = c /\ i = a /\ a # c
      /\ step = "compare" /\ step' = "compare" /\ UNCHANGED <<rra, iind>>
  BY <1>1, <1>3 DEF b, Promote, hand
<1>5. /\ NodeAt(a)' = NodeAt(c) /\ NodeAt(c)' = NodeAt(a)
      /\ KeyAt(a)' = KeyAt(c) /\ KeyAt(c)' = KeyAt(a)
      /\ \A p \in Places \ {a, c} : NodeAt(p)' = NodeAt(p) /\ KeyAt(p)' = KeyAt(p)
  BY <1>4 DEF Inv, TypeOK, NodeAt, KeyAt
<1> QED
  BY <1>2, <1>5, SwapKeeps DEF Inv, Promote, input

LEMMA StayInv == Inv /\ Stay => Inv'
<1> SUFFICES ASSUME Inv, Stay PROVE Inv'
  OBVIOUS
<1>1. TypeOK' /\ UnderlingIsBelow'
  BY HeapAssumption
  DEF Inv, TypeOK, UnderlingIsBelow, Stay, StopBelow, input, hand, Places
<1>2. \A p \in Places : NodeAt(p)' = NodeAt(p) /\ KeyAt(p)' = KeyAt(p)
  BY DEF Inv, TypeOK, Stay, hand, NodeAt, KeyAt
<1> QED
  BY <1>1, <1>2, SameKeeps DEF Inv, Stay, input

LEMMA PlaceInv == Inv /\ Place => Inv'
<1> SUFFICES ASSUME Inv, Place PROVE Inv'
  OBVIOUS
<1>1. TypeOK' /\ UnderlingIsBelow'
  BY DEF Inv, TypeOK, UnderlingIsBelow, Place, input, hand, Places
<1>2. \A p \in Places : NodeAt(p)' = NodeAt(p) /\ KeyAt(p)' = KeyAt(p)
  BY DEF Inv, TypeOK, Place, NodeAt, KeyAt
<1> QED
  BY <1>1, <1>2, SameKeeps DEF Inv, Place, input

THEOREM StepInv == Inv /\ [Next]_vars => Inv'
<1> SUFFICES ASSUME Inv, [Next]_vars PROVE Inv'
  OBVIOUS
<1>1. CASE UNCHANGED vars
  BY <1>1 DEF Inv, TypeOK, UnderlingIsBelow, NothingIsLost, NodeAt, KeyAt, Places,
              vars, input, hand
<1> QED
  BY <1>1, HireInv, RetireInv, RetireLastInv, PromoteInv, StayInv, PlaceInv DEF Next

(* Every variable keeps its type.                                          *)
THEOREM TypeInvariant == Spec => []TypeOK
<1>1. Inv => TypeOK
  BY DEF Inv
<1> QED
  BY InitInv, StepInv, <1>1, PTL DEF Spec

(* At every moment of the sort every node has exactly one place, the node  *)
(* in hand the free one, and carries its key.                              *)
THEOREM NoNodeIsLost == Spec => []NothingIsLost
<1>1. Inv => NothingIsLost
  BY DEF Inv
<1> QED
  BY InitInv, StepInv, <1>1, PTL DEF Spec

(* The result is a permutation of the nodes, their keys in the same order: *)
(* a sweep of the solver visits every node exactly once, whatever the keys *)
(* and although closeness is no equivalence.                               *)
THEOREM EveryNodeIsVisited == Spec => []VisitsEveryNode
<1>1. NothingIsLost => VisitsEveryNode
  BY DEF NothingIsLost, VisitsEveryNode, NodeAt, KeyAt
<1> QED
  BY NoNodeIsLost, <1>1, PTL
-----------------------------------------------------------------------------
(* The order the sort leaves.  Of two keys the second is beyond the first  *)
(* if it is larger by the tolerance.                                       *)
LEMMA BeyondByTheTolerance ==
  ASSUME NEW a \in Int, NEW b \in Int
  PROVE  hslt(a, b) <=> b - a >= Eps
BY HeapAssumption DEF hslt, Close

(* A place of the heap and one below it: the key below may be larger by    *)
(* two tolerances, one to its sibling and one from the sibling to the key  *)
(* above.                                                                  *)
Edge(a, b) == b - a <= 2 * (Eps - 1) /\ (CloseIsTransitive => ~ hslt(a, b))

Parent(c) == (c - 1) \div 2
Looking == step = "compare" /\ j <= ir

Counters ==
  /\ l > 0 => ir = n - 1
  /\ step = "compare" => l <= i /\ i <= ir
  /\ Looking => j = 2 * i + 1
  /\ step = "done" => ir = 0

(* The places from l to ir are a heap, except below the place that is free *)
(* as long as it may go down further.                                      *)
HeapOrder ==
  \A c \in Places :
    c <= ir /\ Parent(c) >= l /\ (Looking => Parent(c) # i) =>
      Edge(KeyAt(Parent(c)), KeyAt(c))

(* The underlings of the free place are in order with the place above it.  *)
FreePlace ==
  Looking /\ Parent(i) >= l =>
    \A c \in Places : c <= ir /\ Parent(c) = i => Edge(ra[Parent(i)], ra[c])

(* What has retired follows everything that has not.                       *)
Retired ==
  \A p, q \in Places : p < q /\ ir < q =>
    /\ KeyAt(p) - ra[q] <= (2 * Depth) * (Eps - 1)
    /\ CloseIsTransitive => ~ hslt(ra[q], KeyAt(p))

Order == Counters /\ HeapOrder /\ FreePlace /\ Retired

LEMMA ParentIsAbove ==
  ASSUME NEW c \in Nat
  PROVE  /\ Parent(c) \in Int /\ Parent(c) < c
         /\ c = 2 * Parent(c) + 1 \/ c = 2 * Parent(c) + 2
BY DEF Parent

LEMMA KeysAreNumbers ==
  ASSUME TypeOK
  PROVE  /\ n \in Nat \ {0} /\ ir \in Nat /\ l \in Nat /\ i \in Nat /\ j \in Nat
         /\ Places \subseteq Nat /\ rra \in Int
         /\ \A p \in Places : ra[p] \in Int /\ KeyAt(p) \in Int
<1>1. Places \subseteq Nat /\ n \in Nat \ {0} /\ rra \in Int
  BY HeapAssumption DEF TypeOK, Places
<1>2. ASSUME NEW p \in Places PROVE ra[p] \in Int
  BY HeapAssumption DEF TypeOK
<1>3. \A p \in Places : KeyAt(p) \in Int
  BY <1>1, <1>2 DEF KeyAt
<1> QED
  BY <1>1, <1>2, <1>3 DEF TypeOK, Places

(* Where closeness is transitive, so is not being beyond.                  *)
LEMMA NotBeyondIsTransitive ==
  ASSUME TypeOK, NothingIsLost, CloseIsTransitive,
         NEW p \in Places, NEW q \in Places, NEW r \in Places,
         ~ hslt(KeyAt(p), KeyAt(q)), ~ hslt(KeyAt(q), KeyAt(r))
  PROVE  ~ hslt(KeyAt(p), KeyAt(r))
<1>1. PICK a \in 1 .. n, b \in 1 .. n, c \in 1 .. n :
        KeyAt(p) = key[a] /\ KeyAt(q) = key[b] /\ KeyAt(r) = key[c]
  <2>1. \A s \in Places : NodeAt(s) \in 1 .. n
    BY DEF TypeOK, NodeAt
  <2> QED BY <2>1 DEF NothingIsLost
<1>2. key[a] \in Int /\ key[b] \in Int /\ key[c] \in Int
  BY HeapAssumption DEF TypeOK
<1>3. Close(key[a], key[b]) /\ Close(key[b], key[c]) => Close(key[a], key[c])
  BY DEF CloseIsTransitive
<1> QED
  BY <1>1, <1>2, <1>3, HeapAssumption DEF hslt, Close

(* The level of a place is a number that grows with the place.             *)
LEMMA LevelIs ==
  /\ Level \in [Nat -> Nat]
  /\ Level[0] = 0
  /\ \A p \in Nat \ {0} : Parent(p) \in Nat /\ Level[p] = 1 + Level[Parent(p)]
<1> DEFINE Body(g, p) == IF p = 0 THEN 0 ELSE 1 + g[(p - 1) \div 2]
           B == [g \in [Nat -> Nat] |-> [p \in Nat |-> Body(g, p)]]
           mu == [p \in Nat |-> p]
<1>1. \A p \in Nat \ {0} : (p - 1) \div 2 \in Nat /\ (p - 1) \div 2 < p
  OBVIOUS
<1>2. \A g \in [Nat -> Nat] : \A p \in Nat : Body(g, p) \in Nat
  BY <1>1
<1>3. B \in [[Nat -> Nat] -> [Nat -> Nat]]
  BY <1>2
<1>4. mu \in [Nat -> Nat]
  OBVIOUS
<1>5. DependsOnSmaller(Nat, Nat, mu, B)
  BY <1>1 DEF DependsOnSmaller
<1>6. \E f \in [Nat -> Nat] : f = B[f]
  <2>1. Nat # {}
    OBVIOUS
  <2> HIDE DEF B, mu
  <2>2. HasSolution(Nat, Nat, B)
    BY <2>1, <1>3, <1>4, <1>5, RecursiveFunction
  <2> QED BY <2>2 DEF HasSolution
<1>7. \E f : f = [p \in Nat |-> Body(f, p)]
  BY <1>6
<1>8. Level = [p \in Nat |-> Body(Level, p)]
  BY <1>7 DEF Level
<1>9. Level \in [Nat -> Nat]
  <2> DEFINE T == {p \in Nat : Level[p] \notin Nat}
  <2>1. T = {}
    <3> SUFFICES ASSUME T # {} PROVE FALSE
      OBVIOUS
    <3>1. PICK m \in T : \A p \in T : m <= p
      BY LeastNumber
    <3>2. Level[m] = Body(Level, m)
      BY <1>8
    <3>3. m # 0 => (m - 1) \div 2 \in Nat /\ (m - 1) \div 2 \notin T
      BY <1>1, <3>1
    <3> QED BY <3>2, <3>3
  <2> QED BY <1>8, <2>1
<1> QED
  BY <1>1, <1>8, <1>9 DEF Parent

LEMMA LevelGrows == \A q \in Nat : \A p \in 0 .. q : Level[p] <= Level[q]
<1> DEFINE T == {q \in Nat : ~ \A p \in 0 .. q : Level[p] <= Level[q]}
<1> SUFFICES ASSUME T # {} PROVE FALSE
  OBVIOUS
<1>1. PICK m \in T : \A q \in T : m <= q
  <2>1. T \in SUBSET Nat
    OBVIOUS
  <2> HIDE DEF T
  <2> QED BY <2>1, LeastNumber
<1>2. PICK p \in 0 .. m : ~ (Level[p] <= Level[m])
  OBVIOUS
<1>3. p # 0 /\ m # 0 /\ p \in Nat \ {0} /\ m \in Nat \ {0}
  BY <1>2, LevelIs
<1>4. /\ Parent(p) \in Nat /\ Parent(m) \in Nat
      /\ Parent(p) \in 0 .. Parent(m) /\ Parent(m) < m
  <2>1. Parent(p) \in Nat /\ Parent(m) \in Nat /\ Parent(m) < m
    BY <1>3, LevelIs, ParentIsAbove
  <2>2. (p - 1) \div 2 <= (m - 1) \div 2
    BY <1>2, <1>3
  <2> QED BY <2>1, <2>2 DEF Parent
<1>5. Level[Parent(p)] <= Level[Parent(m)]
  BY <1>1, <1>4
<1> QED
  BY <1>2, <1>3, <1>4, <1>5, LevelIs

LEMMA MoreLevelsMore ==
  ASSUME NEW a \in Nat, NEW b \in Nat, a <= b, NEW e \in Nat
  PROVE  /\ (2 * a) * e \in Nat /\ (2 * b) * e \in Nat
         /\ (2 * a) * e <= (2 * b) * e
         /\ (2 * (1 + a)) * e = (2 * a) * e + 2 * e
<1>1. PICK d \in Nat : b = a + d
  <2>1. b - a \in Nat /\ b = a + (b - a)
    OBVIOUS
  <2> QED BY <2>1
<1>2. (2 * b) * e = (2 * a) * e + (2 * d) * e
  BY <1>1
<1>3. (2 * d) * e \in Nat /\ (2 * a) * e \in Nat
  OBVIOUS
<1> QED
  BY <1>2, <1>3

(* From the root of a heap to any of its places there are at most Depth    *)
(* edges, and where closeness is transitive nothing is beyond the root.    *)
LEMMA RootIsBest ==
  ASSUME Inv, Order, step = "turn", l = 0
  PROVE  \A p \in Places : p <= ir =>
           /\ ra[p] - ra[0] <= (2 * Depth) * (Eps - 1)
           /\ CloseIsTransitive => ~ hslt(ra[0], ra[p])
<1>0. /\ n \in Nat \ {0} /\ ir \in Nat /\ Places \subseteq Nat
      /\ \A p \in Places : ra[p] \in Int /\ KeyAt(p) = ra[p]
      /\ 0 \in Places /\ Eps - 1 \in Nat /\ ~ Looking
  BY KeysAreNumbers, HeapAssumption DEF Inv, KeyAt, Places, Looking
<1> DEFINE Bound(p) == (2 * Level[p]) * (Eps - 1)
           Good(p) == /\ ra[p] - ra[0] <= Bound(p)
                      /\ CloseIsTransitive => ~ hslt(ra[0], ra[p])
<1>1. \A p \in Places : p <= ir => Good(p)
  <2> DEFINE T == {p \in Places : p <= ir /\ ~ Good(p)}
  <2> SUFFICES ASSUME T # {} PROVE FALSE
    OBVIOUS
  <2>1. PICK m \in T : \A q \in T : m <= q
    <3>1. T \in SUBSET Nat
      BY <1>0
    <3> HIDE DEF T
    <3> QED BY <3>1, LeastNumber
  <2>2. m # 0
    <3>1. Bound(0) = 0
      BY <1>0, LevelIs
    <3>2. ra[0] \in Int /\ ~ hslt(ra[0], ra[0])
      BY <1>0, BeyondByTheTolerance, HeapAssumption
    <3> HIDE DEF Bound
    <3> QED BY <3>1, <3>2
  <2>3. PICK u \in Places : u = Parent(m) /\ u \in Nat /\ u < m /\ Level[m] = 1 + Level[u]
    <3>1. m \in Nat \ {0} /\ m \in 0 .. n - 1
      BY <1>0, <2>2 DEF Places
    <3>2. Parent(m) \in Nat /\ Parent(m) < m
      BY <3>1, LevelIs, ParentIsAbove
    <3>3. Parent(m) \in Places
      BY <1>0, <3>1, <3>2 DEF Places
    <3> QED BY <3>1, <3>2, <3>3, LevelIs
  <2>4. u <= ir /\ m <= ir /\ Good(u)
    <3>1. u <= ir /\ m <= ir
      BY <1>0, <2>3
    <3>2. u \notin T
      BY <1>0, <2>1, <2>3
    <3> HIDE DEF Good
    <3> QED BY <3>1, <3>2
  <2>5. Edge(ra[u], ra[m])
    <3>1. Parent(m) >= l
      BY <2>3
    <3> QED BY <1>0, <2>3, <2>4, <3>1 DEF Order, HeapOrder
  <2>6. Bound(m) = Bound(u) + 2 * (Eps - 1) /\ Bound(u) \in Int
    <3>1. Level[u] \in Nat
      BY <2>3, LevelIs
    <3> HIDE DEF Bound
    <3>2. Bound(m) = (2 * (1 + Level[u])) * (Eps - 1) /\ Bound(u) = (2 * Level[u]) * (Eps - 1)
      BY <2>3 DEF Bound
    <3> QED BY <1>0, <3>1, <3>2, MoreLevelsMore
  <2>7. ra[0] \in Int /\ ra[u] \in Int /\ ra[m] \in Int
    BY <1>0
  <2> HIDE DEF Bound
  <2>8. ra[m] - ra[0] <= Bound(m)
    BY <1>0, <2>4, <2>5, <2>6, <2>7 DEF Edge
  <2>9. CloseIsTransitive => ~ hslt(ra[0], ra[m])
    BY <1>0, <2>4, <2>5, NotBeyondIsTransitive DEF Inv, Edge
  <2> QED BY <2>8, <2>9
<1>2. ASSUME NEW p \in Places PROVE Bound(p) <= (2 * Depth) * (Eps - 1)
  <2>1. p \in 0 .. n - 1 /\ n - 1 \in Nat /\ p \in Nat
    BY <1>0 DEF Places
  <2>2. Level[p] \in Nat /\ Depth \in Nat /\ Level[p] <= Depth
    BY <2>1, LevelIs, LevelGrows DEF Depth
  <2> QED BY <1>0, <2>2, MoreLevelsMore
<1>3. ASSUME NEW p \in Places
      PROVE  Bound(p) \in Int /\ (2 * Depth) * (Eps - 1) \in Int
  <2>1. p \in Nat /\ n - 1 \in Nat
    BY <1>0
  <2>2. Level[p] \in Nat /\ Depth \in Nat
    BY <2>1, LevelIs DEF Depth
  <2> QED BY <1>0, <2>2, MoreLevelsMore
<1> DEFINE most == (2 * Depth) * (Eps - 1)
<1> HIDE DEF Bound, most
<1>4. \A p \in Places : p <= ir => ra[p] - ra[0] <= most
  <2> SUFFICES ASSUME NEW p \in Places, p <= ir PROVE ra[p] - ra[0] <= most
    OBVIOUS
  <2>1. ra[p] \in Int /\ ra[0] \in Int /\ Bound(p) \in Int /\ most \in Int
    BY <1>0, <1>3 DEF most
  <2>2. ra[p] - ra[0] <= Bound(p) /\ Bound(p) <= most
    BY <1>1, <1>2 DEF most
  <2> QED BY <2>1, <2>2
<1> QED
  BY <1>1, <1>4 DEF most

(* The parts of the order, one action at a time.                           *)
LEMMA InitOrder == Init => Order
<1> SUFFICES ASSUME Init PROVE Order
  OBVIOUS
<1>1. TypeOK
  BY InitInv DEF Inv
<1>2. Counters /\ ~ Looking /\ ir = n - 1 /\ l = n \div 2
  BY <1>1, KeysAreNumbers DEF Init, Counters, Looking
<1>3. HeapOrder
  <2> SUFFICES ASSUME NEW c \in Places, Parent(c) >= l PROVE FALSE
    BY DEF HeapOrder
  <2>1. n \in Nat \ {0} /\ c \in 0 .. n - 1 /\ c \in Nat
    BY <1>1, KeysAreNumbers DEF Places
  <2> QED BY <1>2, <2>1, ParentIsAbove
<1>4. Retired
  BY <1>1, <1>2, KeysAreNumbers DEF Retired, Places
<1> QED
  BY <1>2, <1>3, <1>4 DEF Order, FreePlace

(* What has to be shown of a step.                                         *)
LEMMA HeapOrderAfter ==
  ASSUME n' = n, key' = key,
         \A c \in Places :
           c <= ir' /\ Parent(c) >= l' /\ (Looking' => Parent(c) # i') =>
             Edge(KeyAt(Parent(c))', KeyAt(c)')
  PROVE  HeapOrder'
<1>1. Places' = Places /\ (CloseIsTransitive' <=> CloseIsTransitive)
  BY DEF Places, CloseIsTransitive
<1>2. \A a, b : Edge(a, b)' <=> Edge(a', b')
  BY <1>1 DEF Edge, hslt, Close
<1> QED
  BY <1>1, <1>2 DEF HeapOrder, Edge, hslt, Close, Parent

LEMMA HireOrder == Inv /\ Order /\ Hire => Order'
<1> SUFFICES ASSUME Inv, Order, Hire PROVE Order'
  OBVIOUS
<1>0. /\ n \in Nat \ {0} /\ ir = n - 1 /\ ~ Looking
      /\ l \in Nat /\ l > 0 /\ l <= n \div 2
      /\ l' = l - 1 /\ i' = l - 1 /\ j' = 2 * (l - 1) + 1 /\ step' = "compare"
      /\ ir' = ir /\ n' = n /\ key' = key /\ ra' = ra /\ Places' = Places
  BY KeysAreNumbers DEF Inv, TypeOK, Order, Counters, Hire, input, Looking, Places
<1>1. \A p \in Places : KeyAt(p)' = KeyAt(p)
  BY <1>0 DEF Hire, KeyAt
<1>2. Counters'
  BY <1>0 DEF Counters, Looking
<1>4. \A c \in Places : c \in Nat /\ c <= ir
  BY <1>0 DEF Places
<1>5. HeapOrder'
  <2> SUFFICES ASSUME NEW c \in Places, Parent(c) >= l - 1, Looking' => Parent(c) # i'
               PROVE  Edge(KeyAt(Parent(c))', KeyAt(c)')
    BY <1>0, HeapOrderAfter
  <2>1. Parent(c) >= l
    <3>1. Looking' <=> 2 * (l - 1) + 1 <= ir
      BY <1>0 DEF Looking
    <3> QED BY <1>0, <1>4, <3>1, ParentIsAbove
  <2>2. Parent(c) \in Places
    BY <1>0, <1>4, <2>1, ParentIsAbove DEF Places
  <2> QED
    BY <1>0, <1>1, <1>4, <2>1, <2>2 DEF Order, HeapOrder
<1>6. FreePlace'
  <2>1. ~ (Parent(l - 1) >= l - 1)
    BY <1>0, ParentIsAbove
  <2> QED BY <1>0, <2>1 DEF FreePlace, Parent
<1>7. Retired'
  BY <1>0, <1>4 DEF Retired
<1> QED
  BY <1>2, <1>5, <1>6, <1>7 DEF Order

(* Exchanging the keys of two places that have not both retired leaves     *)
(* what has retired in order.                                              *)
LEMMA RetiredAfterSwap ==
  ASSUME TypeOK, Retired, n' = n, key' = key, ir' = ir,
         NEW a \in Places, NEW b \in Places, a <= ir, b <= ir,
         KeyAt(a)' = KeyAt(b), KeyAt(b)' = KeyAt(a),
         \A p \in Places \ {a, b} : KeyAt(p)' = KeyAt(p) /\ ra'[p] = ra[p]
  PROVE  Retired'
<1> DEFINE Back(p) == IF p = a THEN b ELSE IF p = b THEN a ELSE p
<1>1. /\ Places' = Places /\ Places \subseteq Nat /\ ir \in Nat
      /\ Depth' = Depth /\ (CloseIsTransitive' <=> CloseIsTransitive)
  BY KeysAreNumbers DEF Places, CloseIsTransitive, Depth
<1>2. \A p \in Places : Back(p) \in Places /\ KeyAt(p)' = KeyAt(Back(p))
  OBVIOUS
<1>3. \A p, q \in Places : p < q /\ ir < q => Back(p) < q
  BY <1>1
<1>4. \A q \in Places : ir < q => ra'[q] = ra[q]
  BY <1>1
<1> HIDE DEF Back
<1>5. \A p, q \in Places : p < q /\ ir < q =>
        /\ KeyAt(p)' - ra'[q] <= (2 * Depth) * (Eps - 1)
        /\ CloseIsTransitive => ~ hslt(ra'[q], KeyAt(p)')
  BY <1>2, <1>3, <1>4 DEF Retired
<1>6. \A p, q : hslt(p, q)' <=> hslt(p', q')
  BY DEF hslt, Close
<1> QED
  BY <1>1, <1>5, <1>6 DEF Retired, hslt, Close

LEMMA RetireOrder == Inv /\ Order /\ Retire => Order'
<1> SUFFICES ASSUME Inv, Order, Retire PROVE Order'
  OBVIOUS
<1>0. /\ n \in Nat \ {0} /\ ir \in Nat \ {0} /\ ir \in Places /\ 0 \in Places
      /\ ~ Looking /\ step = "turn" /\ l = 0 /\ l' = 0
      /\ ir' = ir - 1 /\ i' = 0 /\ j' = 1 /\ step' = "compare"
      /\ n' = n /\ key' = key /\ Places' = Places /\ Places \subseteq Nat
  BY KeysAreNumbers DEF Inv, TypeOK, Retire, input, Looking, Places
<1>1. /\ KeyAt(0)' = ra[ir] /\ ra'[ir] = ra[0]
      /\ \A p \in Places \ {ir} : ra'[p] = ra[p]
      /\ \A p \in Places \ {0} : KeyAt(p)' = ra'[p]
      /\ \A p \in Places : KeyAt(p) = ra[p]
  BY <1>0 DEF Inv, TypeOK, Retire, KeyAt
<1>2. Counters'
  BY <1>0 DEF Counters, Looking
<1>3. HeapOrder'
  <2> SUFFICES ASSUME NEW c \in Places, c <= ir - 1, Parent(c) >= 0, Looking' => Parent(c) # 0
               PROVE  Edge(KeyAt(Parent(c))', KeyAt(c)')
    BY <1>0, HeapOrderAfter
  <2>1. c \in Nat /\ Parent(c) \in Int /\ Parent(c) < c
    BY <1>0, ParentIsAbove
  <2>2. Parent(c) # 0
    BY <1>0, <2>1 DEF Looking
  <2>3. Parent(c) \in Places \ {0, ir} /\ c \in Places \ {0, ir} /\ c <= ir
    BY <1>0, <2>1, <2>2 DEF Places
  <2> QED
    BY <1>0, <1>1, <2>3 DEF Order, HeapOrder
<1>4. FreePlace'
  <2>1. ~ (Parent(0) >= 0)
    BY ParentIsAbove
  <2> QED BY <1>0, <2>1 DEF FreePlace, Parent
<1>5. Retired'
  <2> SUFFICES ASSUME NEW p \in Places, NEW q \in Places, p < q, ir - 1 < q
               PROVE  /\ KeyAt(p)' - ra'[q] <= (2 * Depth) * (Eps - 1)
                      /\ CloseIsTransitive => ~ hslt(ra'[q], KeyAt(p)')
    <3>1. Depth' = Depth /\ (CloseIsTransitive' <=> CloseIsTransitive)
      BY <1>0 DEF CloseIsTransitive, Depth
    <3>2. \A u, v : hslt(u, v)' <=> hslt(u', v')
      BY DEF hslt, Close
    <3> QED BY <1>0, <3>1, <3>2 DEF Retired, hslt, Close
  <2>1. PICK b \in Places : /\ KeyAt(p)' = ra[b]
                            /\ p < ir => b <= ir
                            /\ ir < q => b < q
    <3>1. CASE p = 0
      BY <1>0, <1>1, <3>1
    <3>2. CASE p = ir
      BY <1>0, <1>1, <3>2
    <3>3. CASE p # 0 /\ p # ir
      BY <1>0, <1>1, <3>3
    <3> QED BY <3>1, <3>2, <3>3
  <2>2. CASE q = ir
    <3>1. p < ir /\ b <= ir /\ ra'[q] = ra[0]
      BY <1>1, <2>1, <2>2
    <3> QED BY <1>0, <2>1, <3>1, RootIsBest
  <2>3. CASE q # ir
    <3>1. ir < q /\ b < q /\ ra'[q] = ra[q]
      BY <1>0, <1>1, <2>1, <2>3
    <3> QED BY <1>1, <2>1, <3>1 DEF Order, Retired
  <2> QED BY <2>2, <2>3
<1> QED
  BY <1>2, <1>3, <1>4, <1>5 DEF Order

LEMMA RetireLastOrder == Inv /\ Order /\ RetireLast => Order'
<1> SUFFICES ASSUME Inv, Order, RetireLast PROVE Order'
  OBVIOUS
<1>0. /\ ~ Looking /\ ~ Looking' /\ l' = l /\ ir' = 0 /\ ir = 0 /\ step' = "done" /\ l = 0
      /\ n' = n /\ key' = key /\ ra' = ra /\ Places' = Places
  BY DEF RetireLast, input, Looking, Places
<1>1. \A p \in Places : KeyAt(p)' = KeyAt(p)
  BY DEF RetireLast, KeyAt
<1>2. Counters' /\ FreePlace'
  BY <1>0 DEF Counters, FreePlace, Looking
<1>3. HeapOrder'
  <2> SUFFICES ASSUME NEW c \in Places, c <= 0, Parent(c) >= 0 PROVE FALSE
    BY <1>0, HeapOrderAfter
  <2>1. c = 0
    BY KeysAreNumbers DEF Inv
  <2> QED BY <2>1, ParentIsAbove
<1>4. Retired'
  <2>1. Depth' = Depth /\ (CloseIsTransitive' <=> CloseIsTransitive)
    BY <1>0 DEF CloseIsTransitive, Depth
  <2> QED BY <1>0, <1>1, <2>1 DEF Order, Retired, hslt, Close
<1> QED
  BY <1>2, <1>3, <1>4 DEF Order

(* The better underling is the place below i the other underlings of which *)
(* are not beyond.                                                         *)
LEMMA BetterIsBest ==
  ASSUME Inv, Order, Looking
  PROVE  /\ Better \in Places /\ i < Better /\ Better <= ir /\ Parent(Better) = i
         /\ \A c \in Places : c <= ir /\ Parent(c) = i => ra[c] - ra[Better] <= Eps - 1
<1>1. j = 2 * i + 1 /\ step = "compare" /\ j <= ir
  BY DEF Order, Counters, Looking
<1>2. Better \in Places /\ i < Better /\ Better <= ir
  BY <1>1, BetterIsAPlace DEF Inv
<1>3. /\ i \in Nat /\ j \in Nat /\ ir \in Nat /\ n \in Nat /\ Places \subseteq Nat
      /\ \A p \in Places : ra[p] \in Int
  BY KeysAreNumbers DEF Inv
<1>4. Parent(Better) = i
  BY <1>1, <1>3 DEF Better, Parent
<1>5. ASSUME NEW c \in Places, c <= ir, Parent(c) = i
      PROVE  ra[c] - ra[Better] <= Eps - 1
  <2>1. c = j \/ c = j + 1
    BY <1>1, <1>3, <1>5, ParentIsAbove
  <2>2. j \in Places
    BY <1>1, <1>3 DEF Inv, TypeOK, Places
  <2>3. CASE c = j
    <3>1. CASE j < ir /\ hslt(ra[j], ra[j + 1])
      <4>1. j + 1 \in Places /\ Better = j + 1
        BY <1>3, <3>1 DEF Inv, TypeOK, Places, Better
      <4> QED
        BY <1>3, <2>2, <2>3, <3>1, <4>1, BeyondByTheTolerance, HeapAssumption
    <3>2. CASE ~ (j < ir /\ hslt(ra[j], ra[j + 1]))
      <4>1. Better = j
        BY <3>2 DEF Better
      <4> QED BY <1>3, <2>2, <2>3, <4>1, HeapAssumption
    <3> QED BY <3>1, <3>2
  <2>4. CASE c = j + 1
    <3>1. j < ir
      BY <1>3, <1>5, <2>4
    <3>2. CASE hslt(ra[j], ra[j + 1])
      <4>1. Better = j + 1
        BY <3>1, <3>2 DEF Better
      <4>2. ra[c] \in Int
        BY <1>3
      <4> QED BY <2>4, <4>1, <4>2, HeapAssumption
    <3>3. CASE ~ hslt(ra[j], ra[j + 1])
      <4>1. Better = j
        BY <3>3 DEF Better
      <4> QED
        BY <1>3, <2>2, <2>4, <3>3, <4>1, BeyondByTheTolerance, HeapAssumption
    <3> QED BY <3>2, <3>3
  <2> QED BY <2>1, <2>3, <2>4
<1> QED
  BY <1>2, <1>4, <1>5

LEMMA NotBeyondIsAnEdge ==
  ASSUME NEW a \in Int, NEW b \in Int, b - a <= Eps - 1
  PROVE  Edge(a, b)
BY BeyondByTheTolerance, HeapAssumption DEF Edge

LEMMA PromoteOrder == Inv /\ Order /\ Promote => Order'
<1> SUFFICES ASSUME Inv, Order, Promote PROVE Order'
  OBVIOUS
<1>0. Looking /\ step = "compare" /\ j = 2 * i + 1
  BY DEF Promote, Looking, Order, Counters
<1>1. PICK a \in Places, b \in Places :
        /\ a = i /\ b = Better /\ a < b /\ b <= ir /\ Parent(b) = a
        /\ \A c \in Places : c <= ir /\ Parent(c) = a => ra[c] - ra[b] <= Eps - 1
  BY <1>0, BetterIsBest DEF Inv, TypeOK
<1>2. /\ ra' = [ra EXCEPT ![a] = ra[b]] /\ i' = b /\ j' = 2 * b + 1
      /\ n' = n /\ key' = key /\ l' = l /\ ir' = ir /\ rra' = rra /\ step' = step
      /\ hslt(rra, ra[b]) /\ Places' = Places
  BY <1>1 DEF Promote, input, hand, Places
<1>3. /\ n \in Nat /\ ir \in Nat /\ l \in Nat /\ Places \subseteq Nat /\ rra \in Int
      /\ \A p \in Places : ra[p] \in Int
  BY KeysAreNumbers DEF Inv
<1>4. /\ KeyAt(a)' = KeyAt(b) /\ KeyAt(b)' = KeyAt(a)
      /\ KeyAt(a)' = ra[b] /\ KeyAt(b)' = rra
      /\ \A p \in Places \ {a, b} : KeyAt(p)' = KeyAt(p) /\ ra'[p] = ra[p]
      /\ \A p \in Places \ {a} : KeyAt(p) = ra[p]
  <2>1. i = a /\ i' = b /\ a # b /\ a \in Places /\ b \in Places
    BY <1>1, <1>2, <1>3
  <2>2. step = "compare" /\ step' = "compare" /\ rra' = rra
    BY <1>0, <1>2
  <2>3. ra'[a] = ra[b] /\ \A p \in Places \ {a} : ra'[p] = ra[p]
    BY <1>2, <2>1 DEF Inv, TypeOK
  <2>4. \A p \in Places : /\ KeyAt(p) = IF p = a THEN rra ELSE ra[p]
                          /\ KeyAt(p)' = IF p = b THEN rra ELSE ra'[p]
    BY <2>1, <2>2 DEF KeyAt
  <2> QED BY <2>1, <2>3, <2>4
<1>5. Counters'
  BY <1>0, <1>1, <1>2, <1>3 DEF Counters, Order, Looking
<1>6. HeapOrder'
  <2> SUFFICES ASSUME NEW c \in Places, c <= ir, Parent(c) >= l, Looking' => Parent(c) # b
               PROVE  Edge(KeyAt(Parent(c))', KeyAt(c)')
    BY <1>2, HeapOrderAfter
  <2>0. c \in Nat /\ Parent(c) \in Places /\ Parent(c) < c
    BY <1>3, ParentIsAbove DEF Places
  <2>1. Parent(c) # b
    <3>1. Looking' <=> 2 * b + 1 <= ir
      BY <1>0, <1>2 DEF Looking
    <3>2. Parent(c) = b => 2 * b + 1 <= ir
      BY <1>3, <2>0, ParentIsAbove
    <3> QED BY <3>1, <3>2
  <2>2. CASE c = b
    <3>1. ra[b] \in Int /\ rra - ra[b] <= Eps - 1
      BY <1>2, <1>3, BeyondByTheTolerance, HeapAssumption
    <3> QED BY <1>1, <1>3, <1>4, <2>2, <3>1, NotBeyondIsAnEdge
  <2>3. CASE c = a
    <3>1. Edge(ra[Parent(a)], ra[b])
      BY <1>0, <1>1, <2>3 DEF Order, FreePlace
    <3>2. Parent(a) \in Places \ {a, b}
      BY <1>1, <1>3, <2>0, <2>1, <2>3
    <3> QED BY <1>4, <2>3, <3>1, <3>2
  <2>4. CASE c # b /\ Parent(c) = a
    <3>1. ra[c] - ra[b] <= Eps - 1 /\ ra[b] \in Int /\ ra[c] \in Int /\ c # a
      BY <1>1, <1>3, <2>0, <2>4
    <3>2. Edge(ra[b], ra[c])
      BY <3>1, NotBeyondIsAnEdge
    <3> QED BY <1>4, <2>4, <3>1, <3>2
  <2>5. CASE c # b /\ c # a /\ Parent(c) # a
    <3>1. Edge(KeyAt(Parent(c)), KeyAt(c))
      BY <1>1, <2>5 DEF Order, HeapOrder
    <3>2. Parent(c) \in Places \ {a, b} /\ c \in Places \ {a, b}
      BY <2>0, <2>1, <2>5
    <3> QED BY <1>4, <3>1, <3>2
  <2> QED BY <2>2, <2>3, <2>4, <2>5
<1>7. FreePlace'
  <2>1. ASSUME NEW c \in Places, c <= ir, Parent(c) = b, a >= l
        PROVE  Edge(ra'[a], ra'[c])
    <3>1. c # a /\ c # b
      BY <1>1, <1>3, <2>1, ParentIsAbove
    <3>2. Edge(KeyAt(b), KeyAt(c))
      BY <1>1, <1>3, <2>1 DEF Order, HeapOrder
    <3>3. KeyAt(b) = ra[b] /\ KeyAt(c) = ra[c] /\ ra'[a] = ra[b] /\ ra'[c] = ra[c]
      BY <1>1, <1>2, <1>3, <1>4, <3>1 DEF Inv, TypeOK
    <3> QED BY <3>2, <3>3
  <2>2. CloseIsTransitive' <=> CloseIsTransitive
    BY <1>2 DEF CloseIsTransitive
  <2>3. \A u, v : Edge(u, v)' <=> Edge(u', v')
    BY <2>2 DEF Edge, hslt, Close
  <2> QED
    BY <1>1, <1>2, <2>1, <2>2 DEF FreePlace, Parent, Edge, hslt, Close
<1>8. Retired'
  <2>1. a <= ir /\ b <= ir /\ TypeOK /\ Retired
    BY <1>1, <1>3 DEF Inv, Order
  <2> QED BY <1>2, <1>4, <2>1, RetiredAfterSwap
<1> QED
  BY <1>5, <1>6, <1>7, <1>8 DEF Order

LEMMA StayOrder == Inv /\ Order /\ Stay => Order'
<1> SUFFICES ASSUME Inv, Order, Stay PROVE Order'
  OBVIOUS
<1>0. /\ Looking /\ ~ Looking' /\ step = "compare" /\ step' = "compare"
      /\ n' = n /\ key' = key /\ ra' = ra /\ l' = l /\ ir' = ir /\ rra' = rra /\ i' = i
      /\ Places' = Places
  BY KeysAreNumbers DEF Inv, Stay, StopBelow, Looking, input, hand, Places
<1>1. \A p \in Places : KeyAt(p)' = KeyAt(p)
  BY <1>0 DEF KeyAt
<1>2. /\ n \in Nat /\ ir \in Nat /\ l \in Nat /\ Places \subseteq Nat /\ rra \in Int
      /\ i \in Places /\ \A p \in Places : ra[p] \in Int
  BY KeysAreNumbers DEF Inv, TypeOK
<1>3. Counters' /\ FreePlace'
  BY <1>0 DEF Order, Counters, FreePlace
<1>4. HeapOrder'
  <2> SUFFICES ASSUME NEW c \in Places, c <= ir, Parent(c) >= l
               PROVE  Edge(KeyAt(Parent(c))', KeyAt(c)')
    BY <1>0, HeapOrderAfter
  <2>1. c \in Nat /\ Parent(c) \in Places /\ Parent(c) < c
    BY <1>2, ParentIsAbove DEF Places
  <2>2. CASE Parent(c) # i
    BY <1>1, <2>1, <2>2 DEF Order, HeapOrder
  <2>3. CASE Parent(c) = i
    <3>1. PICK b \in Places : b = Better /\ ra[c] - ra[b] <= Eps - 1
      BY <1>0, <2>3, BetterIsBest
    <3>2. ra[b] - rra <= Eps - 1
      <4>1. ~ hslt(rra, ra[b])
        BY <3>1 DEF Stay
      <4> QED BY <1>2, <4>1, BeyondByTheTolerance, HeapAssumption
    <3>3. KeyAt(i) = rra /\ KeyAt(c) = ra[c] /\ c # i
      BY <1>0, <1>2, <2>1, <2>3 DEF KeyAt
    <3>4. ra[c] \in Int /\ ra[b] \in Int
      BY <1>2
    <3>5. ra[c] - rra <= 2 * (Eps - 1)
      BY <1>2, <3>1, <3>2, <3>4, HeapAssumption
    <3>6. CloseIsTransitive => ~ hslt(rra, ra[c])
      <4> SUFFICES ASSUME CloseIsTransitive PROVE ~ hslt(rra, ra[c])
        OBVIOUS
      <4>1. b # i
        BY <1>0, <1>2, <3>1, BetterIsBest
      <4>2. KeyAt(b) = ra[b]
        BY <4>1 DEF KeyAt
      <4>3. ~ hslt(KeyAt(i), KeyAt(b)) /\ ~ hslt(KeyAt(b), KeyAt(c))
        BY <1>2, <3>1, <3>2, <3>3, <3>4, <4>2, BeyondByTheTolerance, HeapAssumption
      <4> QED BY <1>2, <3>3, <4>3, NotBeyondIsTransitive DEF Inv
    <3>7. Edge(KeyAt(i), KeyAt(c))
      BY <3>3, <3>5, <3>6 DEF Edge
    <3> QED BY <1>1, <1>2, <2>3, <3>7
  <2> QED BY <2>2, <2>3
<1>5. Retired'
  <2>1. Depth' = Depth /\ (CloseIsTransitive' <=> CloseIsTransitive)
    BY <1>0 DEF CloseIsTransitive, Depth
  <2> QED BY <1>0, <1>1, <2>1 DEF Order, Retired, hslt, Close
<1> QED
  BY <1>3, <1>4, <1>5 DEF Order

LEMMA PlaceOrder == Inv /\ Order /\ Place => Order'
<1> SUFFICES ASSUME Inv, Order, Place PROVE Order'
  OBVIOUS
<1>0. /\ ~ Looking /\ ~ Looking' /\ step = "compare" /\ step' = "turn"
      /\ n' = n /\ key' = key /\ l' = l /\ ir' = ir /\ rra' = rra /\ i' = i
      /\ ra' = [ra EXCEPT ![i] = rra] /\ Places' = Places /\ i <= ir
  BY KeysAreNumbers DEF Inv, Order, Counters, Place, Looking, input, hand, Places
<1>1. \A p \in Places : KeyAt(p)' = KeyAt(p)
  BY <1>0 DEF Inv, TypeOK, KeyAt
<1>2. Counters' /\ FreePlace'
  BY <1>0 DEF Order, Counters, FreePlace
<1>3. HeapOrder'
  <2> SUFFICES ASSUME NEW c \in Places, c <= ir, Parent(c) >= l
               PROVE  Edge(KeyAt(Parent(c))', KeyAt(c)')
    BY <1>0, HeapOrderAfter
  <2>1. Parent(c) \in Places
    BY KeysAreNumbers, ParentIsAbove DEF Inv, Places
  <2> QED BY <1>0, <1>1, <2>1 DEF Order, HeapOrder
<1>4. Retired'
  <2>1. Depth' = Depth /\ (CloseIsTransitive' <=> CloseIsTransitive)
    BY <1>0 DEF CloseIsTransitive, Depth
  <2>2. \A q \in Places : ir < q => ra'[q] = ra[q]
    BY <1>0, KeysAreNumbers DEF Inv
  <2> QED BY <1>0, <1>1, <2>1, <2>2 DEF Order, Retired, hslt, Close
<1> QED
  BY <1>2, <1>3, <1>4 DEF Order

LEMMA StepOrder == Inv /\ Order /\ [Next]_vars => Order'
<1> SUFFICES ASSUME Inv, Order, [Next]_vars PROVE Order'
  OBVIOUS
<1>1. CASE UNCHANGED vars
  <2>1. /\ n' = n /\ key' = key /\ ra' = ra /\ l' = l /\ ir' = ir /\ rra' = rra
        /\ i' = i /\ j' = j /\ step' = step
    BY <1>1 DEF vars, input, hand
  <2>2. /\ Counters' /\ FreePlace' /\ HeapOrder' /\ Retired'
    BY <2>1 DEF Order, Counters, FreePlace, HeapOrder, Retired, Edge, Parent, Looking,
                KeyAt, Places, CloseIsTransitive, Depth, hslt, Close
  <2> QED BY <2>2 DEF Order
<1> QED
  BY <1>1, HireOrder, RetireOrder, RetireLastOrder, PromoteOrder, StayOrder, PlaceOrder
  DEF Next

LEMMA OrderAlways == Spec => [](Inv /\ Order)
<1>1. Init => Inv /\ Order
  BY InitInv, InitOrder
<1>2. Inv /\ Order /\ [Next]_vars => (Inv /\ Order)'
  BY StepInv, StepOrder
<1> QED
  BY <1>1, <1>2, PTL DEF Spec

(* Where closeness is transitive, as with keys in well separated groups,   *)
(* the sort leaves no node after one that lies beyond it: what the sweeps  *)
(* of the solver need of their order.                                      *)
THEOREM SortedWhereTransitive == Spec => []SortedUpToEps
<1>1. Inv /\ Order => SortedUpToEps
  <2> SUFFICES ASSUME Inv, Order, step = "done", CloseIsTransitive,
                      NEW p \in Places, NEW q \in Places, p < q
               PROVE  ~ hslt(ra[q], ra[p])
    BY DEF SortedUpToEps
  <2>1. ir = 0 /\ p \in Nat /\ q \in Nat /\ KeyAt(p) = ra[p]
    BY KeysAreNumbers DEF Inv, Order, Counters, KeyAt
  <2> QED BY <2>1 DEF Order, Retired
<1> QED
  BY OrderAlways, <1>1, PTL

(* Where it is not, a node may come before one it should follow, but by no *)
(* more than two tolerances per level of the heap: two on every edge from  *)
(* the root, which retires first, to a leaf.                               *)
THEOREM DisorderHasABound == Spec => []DisorderIsBounded
<1>1. Inv /\ Order => DisorderIsBounded
  <2> SUFFICES ASSUME Inv, Order, step = "done",
                      NEW p \in Places, NEW q \in Places, p < q
               PROVE  ra[p] - ra[q] <= (2 * Depth) * (Eps - 1)
    BY DEF DisorderIsBounded
  <2>1. ir = 0 /\ p \in Nat /\ q \in Nat /\ KeyAt(p) = ra[p]
    BY KeysAreNumbers DEF Inv, Order, Counters, KeyAt
  <2> QED BY <2>1 DEF Order, Retired
<1> QED
  BY OrderAlways, <1>1, PTL
=============================================================================
