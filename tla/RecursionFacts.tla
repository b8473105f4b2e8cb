--------------------------- MODULE RecursionFacts ---------------------------
(***************************************************************************)
(* Induction over numbers, and the existence of recursive functions, in a  *)
(* form first-order provers can use: a set of numbers in the place of a    *)
(* predicate, a function on functions in the place of a defining equation. *)
(***************************************************************************)
EXTENDS Integers, WellFoundedInduction, TLAPS

(* A non-empty set of natural numbers has a least element: a statement     *)
(* about all numbers is proved by refuting its least counterexample.       *)
LEMMA LeastNumber ==
  ASSUME NEW T \in SUBSET Nat, T # {}
  PROVE  \E m \in T : \A k \in T : m <= k
<1> DEFINE R == {ss \in Nat \X Nat : ss[1] < ss[2]}
<1>1. IsWellFoundedOn(R, Nat)
  BY NatLessThanWellFounded, Zenon DEF OpToRel
<1>2. PICK m \in T : \A k \in T : ~ (<<k, m>> \in R)
  <2> HIDE DEF R
  <2> QED BY <1>1, WFMin
<1>3. \A k \in T : ~ (k < m)
  BY <1>2
<1> QED BY <1>3

(* A non-empty set of numbers up to b has a maximum.                       *)
LEMMA HasMax ==
  ASSUME NEW b \in Nat, NEW T \in SUBSET (0 .. b), T # {}
  PROVE  \E u \in T : \A y \in T : u >= y
<1> DEFINE Depths == {b - y : y \in T}
<1>1. \A y \in T : y \in Nat /\ y <= b
  OBVIOUS
<1>2. Depths \in SUBSET Nat /\ Depths # {}
  <2>1. \A y \in T : b - y \in Nat
    BY <1>1
  <2> QED BY <2>1
<1>3. PICK n \in Depths : \A m \in Depths : n <= m
  <2> HIDE DEF Depths
  <2> QED BY <1>2, LeastNumber
<1>4. PICK x \in T : n = b - x
  OBVIOUS
<1>5. \A y \in T : x >= y
  <2> SUFFICES ASSUME NEW y \in T PROVE x >= y
    OBVIOUS
  <2>1. n <= b - y
    BY <1>3
  <2> QED BY <1>1, <1>4, <2>1
<1> QED BY <1>5

(* The value of B[f] at an argument depends only on the values of f at     *)
(* arguments of smaller measure.                                           *)
DependsOnSmaller(D, V, mu, B) ==
  \A g, h \in [D -> V] : \A d \in D :
    (\A c \in D : mu[c] < mu[d] => g[c] = h[c]) => B[g][d] = B[h][d]

HasSolution(D, V, B) == \E f \in [D -> V] : f = B[f]

(* Then the equation f = B[f] has a solution.                              *)
LEMMA RecursiveFunction ==
  ASSUME NEW D, NEW V, NEW mu \in [D -> Nat], NEW B \in [[D -> V] -> [D -> V]],
         V # {}, DependsOnSmaller(D, V, mu, B)
  PROVE  HasSolution(D, V, B)
<1> PICK v \in V : TRUE
  OBVIOUS
<1>0. \A g, h \in [D -> V] : \A d \in D :
        (\A c \in D : mu[c] < mu[d] => g[c] = h[c]) => B[g][d] = B[h][d]
  BY DEF DependsOnSmaller
<1> DEFINE Solves(g, k) == \A d \in D : mu[d] < k => g[d] = B[g][d]
<1>1. \A k \in Nat : \E g \in [D -> V] : Solves(g, k)
  <2> DEFINE T == {k \in Nat : ~ \E g \in [D -> V] : Solves(g, k)}
  <2> SUFFICES ASSUME T # {} PROVE FALSE
    OBVIOUS
  <2>1. PICK m \in T : \A k \in T : m <= k
    <3> HIDE DEF T
    <3>1. T \in SUBSET Nat
      BY DEF T
    <3> QED BY <3>1, LeastNumber
  <2>2. [d \in D |-> v] \in [D -> V] /\ Solves([d \in D |-> v], 0)
    OBVIOUS
  <2>3. m # 0
    BY <2>2
  <2>4. m - 1 \in Nat /\ ~ (m - 1 \in T)
    BY <2>1, <2>3
  <2>5. PICK g \in [D -> V] : Solves(g, m - 1)
    BY <2>4
  <2>6. B[g] \in [D -> V]
    OBVIOUS
  <2>7. Solves(B[g], m)
    <3> SUFFICES ASSUME NEW d \in D, mu[d] < m PROVE B[g][d] = B[B[g]][d]
      OBVIOUS
    <3>1. \A c \in D : mu[c] < mu[d] => mu[c] < m - 1
      BY <2>4
    <3>2. \A c \in D : mu[c] < mu[d] => g[c] = B[g][c]
      BY <2>5, <3>1
    <3> QED BY <1>0, <3>2, <2>6
  <2> QED BY <2>6, <2>7
<1>2. ASSUME NEW g \in [D -> V], NEW h \in [D -> V], NEW k \in Nat,
             Solves(g, k), Solves(h, k)
      PROVE  \A d \in D : mu[d] < k => g[d] = h[d]
  <2> DEFINE T == {mu[d] : d \in {c \in D : mu[c] < k /\ g[c] # h[c]}}
  <2> SUFFICES ASSUME NEW b \in D, mu[b] < k, g[b] # h[b] PROVE FALSE
    OBVIOUS
  <2>1. PICK m \in T : \A y \in T : m <= y
    <3>1. T \in SUBSET Nat /\ mu[b] \in T
      OBVIOUS
    <3> HIDE DEF T
    <3> QED BY <3>1, LeastNumber
  <2>2. PICK d \in D : mu[d] = m /\ m < k /\ g[d] # h[d]
    OBVIOUS
  <2>3. \A c \in D : mu[c] < mu[d] => g[c] = h[c]
    <3> SUFFICES ASSUME NEW c \in D, mu[c] < mu[d], g[c] # h[c] PROVE FALSE
      OBVIOUS
    <3>1. mu[c] \in Nat /\ mu[d] \in Nat /\ mu[c] < k
      BY <2>2
    <3>2. mu[c] \in T
      BY <3>1
    <3> HIDE DEF T
    <3> QED BY <2>1, <2>2, <3>1, <3>2
  <2>4. B[g][d] = B[h][d]
    BY <1>0, <2>3
  <2> QED BY <1>2, <2>2, <2>4
<1> DEFINE G == [k \in Nat |-> CHOOSE g \in [D -> V] : Solves(g, k)]
<1>3. \A k \in Nat : G[k] \in [D -> V] /\ Solves(G[k], k)
  <2> SUFFICES ASSUME NEW k \in Nat PROVE G[k] \in [D -> V] /\ Solves(G[k], k)
    OBVIOUS
  <2> HIDE DEF Solves
  <2> QED BY <1>1
<1> HIDE DEF G
<1> DEFINE f == [d \in D |-> G[mu[d] + 1][d]]
<1>4. f \in [D -> V]
  BY <1>3
<1>5. \A d \in D : f[d] = B[f][d]
  <2> SUFFICES ASSUME NEW d \in D PROVE f[d] = B[f][d]
    OBVIOUS
  <2>1. PICK g \in [D -> V] : g = G[mu[d] + 1] /\ Solves(g, mu[d] + 1)
    BY <1>3
  <2>2. f[d] = B[g][d]
    BY <2>1
  <2>3. \A c \in D : mu[c] < mu[d] => g[c] = f[c]
    <3> SUFFICES ASSUME NEW c \in D, mu[c] < mu[d] PROVE g[c] = f[c]
      OBVIOUS
    <3>1. PICK h \in [D -> V] : h = G[mu[c] + 1] /\ Solves(h, mu[c] + 1)
      BY <1>3
    <3>2. Solves(g, mu[c] + 1) /\ mu[c] + 1 \in Nat /\ mu[c] < mu[c] + 1
      BY <2>1
    <3> HIDE DEF Solves
    <3>3. g[c] = h[c]
      BY <1>2, <3>1, <3>2
    <3> QED BY <3>1, <3>3
  <2> HIDE DEF f
  <2>4. B[g][d] = B[f][d]
    BY <1>0, <1>4, <2>3
  <2> QED BY <2>2, <2>4
<1>6. B[f] \in [D -> V]
  BY <1>4
<1> HIDE DEF f
<1>7. f = B[f]
  BY <1>4, <1>5, <1>6
<1> QED BY <1>4, <1>7 DEF HasSolution
=============================================================================
