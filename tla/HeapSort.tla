------------------------------ MODULE HeapSort ------------------------------
(***************************************************************************)
(* hpsort_eps_epw (src_rust/solver.rs): the heap sort that puts the nodes  *)
(* of the mesh in the order of a sweep.  Keys closer than eps count as     *)
(* equal, which is no equivalence, so that what the sort promises is less  *)
(* than an ascending array.  The arrays start at 0, as in the code; keys   *)
(* are integers.  With Eps = 1 this is indexx of interp.rs as well, which  *)
(* leaves one turn earlier.                                                *)
(*                                                                         *)
(* Faulty variants, used only to show that the properties notice the       *)
(* mistake: BetterAlways, RetireKeyOnly and StopBelowStuck.                *)
(***************************************************************************)
EXTENDS Integers

CONSTANTS
  Sizes,  \* numbers of nodes explored
  Keys,   \* coordinates along the sweep
  Eps     \* keys closer than this are equal

ASSUME HeapAssumption ==
  /\ Sizes \subseteq Nat \ {0}
  /\ Keys \subseteq Int
  /\ Eps \in Nat \ {0}

VARIABLES
  n, key,     \* what is to be sorted: the key of node k is key[k]
  ra, ind,    \* the keys and the nodes, being sorted
  l, ir,      \* l: nodes still to be hired;  ir: end of the heap
  rra, iind,  \* the key and the node in hand
  i, j,       \* the free place of the heap and its better underling
  step        \* "turn", "compare" or "done"

input == <<n, key>>
hand == <<rra, iind>>
vars == <<n, key, ra, ind, l, ir, rra, iind, i, j, step>>

Places == 0 .. n - 1

(* The index array is zero on entry and filled with the nodes 1 .. n; less *)
(* than two nodes need no sorting.                                         *)
Init ==
  /\ n \in Sizes
  /\ key \in [1 .. n -> Keys]
  /\ ra = [p \in Places |-> key[p + 1]]
  /\ ind = [p \in Places |-> p + 1]
  /\ l = n \div 2
  /\ ir = n - 1
  /\ rra = key[1] /\ iind = 1
  /\ i = 0 /\ j = 0
  /\ step = IF n < 2 THEN "done" ELSE "turn"

Close(a, b) == IF a < b THEN b - a < Eps ELSE a - b < Eps
hslt(a, b) == ~ Close(a, b) /\ a < b

(* The head of a turn.  While nodes remain to be hired the next one is     *)
(* taken in hand; then the last of the heap is, and the top retires to its *)
(* place.                                                                  *)
Hire ==
  /\ step = "turn"
  /\ l > 0
  /\ l' = l - 1
  /\ rra' = ra[l'] /\ iind' = ind[l']
  /\ i' = l' /\ j' = 2 * l' + 1
  /\ step' = "compare"
  /\ UNCHANGED <<input, ra, ind, ir>>

RetireKeyOnly ==
  /\ step = "turn"
  /\ l = 0 /\ ir > 0
  /\ rra' = ra[ir] /\ iind' = ind[ir]
  /\ ra' = [ra EXCEPT ![ir] = ra[0]]
  /\ ir' = ir - 1
  /\ i' = 0 /\ j' = 1
  /\ step' = "compare"
  /\ UNCHANGED <<input, ind, l>>
Retire ==
  /\ step = "turn"
  /\ l = 0 /\ ir > 0
  /\ rra' = ra[ir] /\ iind' = ind[ir]
  /\ ra' = [ra EXCEPT ![ir] = ra[0]]
  /\ ind' = [ind EXCEPT ![ir] = ind[0]]
  /\ ir' = ir - 1
  /\ i' = 0 /\ j' = 1
  /\ step' = "compare"
  /\ UNCHANGED <<input, l>>

(* The last one of the heap takes its own place.                           *)
RetireLast ==
  /\ step = "turn"
  /\ l = 0 /\ ir = 0
  /\ rra' = ra[0] /\ iind' = ind[0]
  /\ step' = "done"
  /\ UNCHANGED <<input, ra, ind, l, ir, i, j>>

(* Down the heap: the better of the two underlings moves up if it is       *)
(* better than the one in hand, which otherwise stays here.                *)
BetterAlways == IF j < ir THEN j + 1 ELSE j
Better == IF j < ir /\ hslt(ra[j], ra[j + 1]) THEN j + 1 ELSE j

Promote ==
  /\ step = "compare"
  /\ j <= ir
  /\ hslt(rra, ra[Better])
  /\ ra' = [ra EXCEPT ![i] = ra[Better]]
  /\ ind' = [ind EXCEPT ![i] = ind[Better]]
  /\ i' = Better
  /\ j' = 2 * Better + 1
  /\ UNCHANGED <<input, l, ir, hand, step>>

StopBelowStuck == Better
StopBelow == ir + 1

Stay ==
  /\ step = "compare"
  /\ j <= ir
  /\ ~ hslt(rra, ra[Better])
  /\ j' = StopBelow
  /\ UNCHANGED <<input, ra, ind, l, ir, hand, i, step>>

Place ==
  /\ step = "compare"
  /\ j > ir
  /\ ra' = [ra EXCEPT ![i] = rra]
  /\ ind' = [ind EXCEPT ![i] = iind]
  /\ step' = "turn"
  /\ UNCHANGED <<input, l, ir, hand, i, j>>

Next == Hire \/ Retire \/ RetireLast \/ Promote \/ Stay \/ Place

(* The sort is one thread, which runs until it returns.                    *)
Spec == Init /\ [][Next]_vars /\ WF_vars(Next)
-----------------------------------------------------------------------------
TypeOK ==
  /\ n \in Sizes
  /\ key \in [1 .. n -> Keys]
  /\ ra \in [Places -> Keys]
  /\ ind \in [Places -> 1 .. n]
  /\ l \in 0 .. n \div 2
  /\ ir \in Places
  /\ rra \in Keys /\ iind \in 1 .. n
  /\ i \in Places /\ j \in 0 .. 2 * n
  /\ step \in {"turn", "compare", "done"}

(* The place without an owner counts for the node in hand: at every moment *)
(* every node has exactly one place, and its key goes where it goes.       *)
NodeAt(p) == IF step = "compare" /\ p = i THEN iind ELSE ind[p]
KeyAt(p) == IF step = "compare" /\ p = i THEN rra ELSE ra[p]
NothingIsLost ==
  /\ \A k \in 1 .. n : \E p \in Places : NodeAt(p) = k
  /\ \A p, q \in Places : NodeAt(p) = NodeAt(q) => p = q
  /\ \A p \in Places : KeyAt(p) = key[NodeAt(p)]

(* A sweep visits every node exactly once: the result is a permutation of  *)
(* the nodes, and ra holds their keys in that order.                       *)
VisitsEveryNode ==
  step = "done" =>
    /\ \A k \in 1 .. n : \E p \in Places : ind[p] = k
    /\ \A p, q \in Places : ind[p] = ind[q] => p = q
    /\ \A p \in Places : ra[p] = key[ind[p]]

(* Where closeness is transitive, as with keys in well separated groups,   *)
(* no node comes after one that lies beyond it.                            *)
CloseIsTransitive ==
  \A a, b, c \in 1 .. n :
    Close(key[a], key[b]) /\ Close(key[b], key[c]) => Close(key[a], key[c])
SortedUpToEps ==
  step = "done" /\ CloseIsTransitive =>
    \A p, q \in Places : p < q => ~ hslt(ra[q], ra[p])

(* Where it is not, a node may come before one it should follow, but not   *)
(* by more than two tolerances per level of the heap.                      *)
Level[p \in Nat] == IF p = 0 THEN 0 ELSE 1 + Level[(p - 1) \div 2]
Depth == Level[n - 1]
DisorderIsBounded ==
  step = "done" =>
    \A p, q \in Places : p < q => ra[p] - ra[q] <= 2 * Depth * (Eps - 1)

(* The sort ends.                                                          *)
Terminates == <>(step = "done")
=============================================================================
