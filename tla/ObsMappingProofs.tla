-------------------------- MODULE ObsMappingProofs --------------------------
(***************************************************************************)
(* The search for the faces of the observation points, for every set of    *)
(* points, every mesh and however ties are sorted: the hunt finds the      *)
(* place of a centre wherever it starts, the candidates of a face are the  *)
(* points of its box, and the search finds what testing every point        *)
(* against every face would find.                                          *)
(***************************************************************************)
EXTENDS ObsMapping, RecursionFacts, TLAPS

LEMMA SequenceIs ==
  ASSUME NEW s \in Seq(Int)
  PROVE  Len(s) \in Nat /\ \A k \in 1 .. Len(s) : s[k] \in Int
OBVIOUS

(* The bisection is the function its recursion describes.                  *)
LEMMA BisectIs ==
  ASSUME NEW s \in Seq(Int), NEW x2 \in Int
  PROVE  \A b \in Bracket(s) :
           Bisect(s, x2)[b] =
             IF b[2] - b[1] = 1 THEN b[1]
             ELSE LET m == (b[2] + b[1]) \div 2 IN
                  IF x2 > 2 * s[m] THEN Bisect(s, x2)[<<m, b[2]>>]
                  ELSE Bisect(s, x2)[<<b[1], m>>]
<1> DEFINE D == Bracket(s)
           V == 0 .. Len(s)
           Body(g, b) == IF b[2] - b[1] = 1 THEN b[1]
                         ELSE LET m == (b[2] + b[1]) \div 2 IN
                              IF x2 > 2 * s[m] THEN g[<<m, b[2]>>] ELSE g[<<b[1], m>>]
           B == [g \in [D -> V] |-> [b \in D |-> Body(g, b)]]
           mu == [b \in D |-> b[2] - b[1]]
<1>1. Len(s) \in Nat /\ \A k \in 1 .. Len(s) : s[k] \in Int
  BY SequenceIs
<1>2. ASSUME NEW b \in D
      PROVE  /\ b[1] \in V /\ b[2] \in Nat /\ b[1] < b[2] /\ b[2] - b[1] \in Nat
             /\ b[2] - b[1] # 1 =>
                  /\ <<(b[2] + b[1]) \div 2, b[2]>> \in D
                  /\ <<b[1], (b[2] + b[1]) \div 2>> \in D
                  /\ b[2] - ((b[2] + b[1]) \div 2) < b[2] - b[1]
                  /\ ((b[2] + b[1]) \div 2) - b[1] < b[2] - b[1]
  <2>1. b[1] \in 0 .. Len(s) /\ b[2] \in 1 .. Len(s) + 1 /\ b[1] < b[2]
    BY <1>1 DEF Bracket
  <2>2. ASSUME b[2] - b[1] # 1, NEW m, m = (b[2] + b[1]) \div 2
        PROVE  m \in Int /\ b[1] < m /\ m < b[2]
    BY <1>1, <2>1, <2>2
  <2> QED
    BY <1>1, <2>1, <2>2 DEF Bracket
<1>3. ASSUME NEW g \in [D -> V], NEW b \in D PROVE Body(g, b) \in V
  BY <1>2
<1>4. B \in [[D -> V] -> [D -> V]]
  <2> HIDE DEF D, V, Body
  <2> QED BY <1>3
<1>5. mu \in [D -> Nat]
  BY <1>2
<1>6. DependsOnSmaller(D, V, mu, B)
  <2> SUFFICES ASSUME NEW g \in [D -> V], NEW h \in [D -> V], NEW b \in D,
                      \A c \in D : mu[c] < mu[b] => g[c] = h[c]
               PROVE  Body(g, b) = Body(h, b)
    <3> HIDE DEF D, V, Body, mu
    <3> QED BY DEF DependsOnSmaller
  <2> DEFINE m == (b[2] + b[1]) \div 2
  <2>1. CASE b[2] - b[1] # 1
    <3>1. <<m, b[2]>> \in D /\ <<b[1], m>> \in D
      BY <1>2, <2>1
    <3>2. mu[<<m, b[2]>>] = b[2] - m /\ mu[<<b[1], m>>] = m - b[1] /\ mu[b] = b[2] - b[1]
      <4> HIDE DEF D, m
      <4> QED BY <3>1
    <3>3. mu[<<m, b[2]>>] < mu[b] /\ mu[<<b[1], m>>] < mu[b]
      <4> HIDE DEF mu
      <4> QED BY <1>2, <2>1, <3>2
    <3>4. g[<<m, b[2]>>] = h[<<m, b[2]>>] /\ g[<<b[1], m>>] = h[<<b[1], m>>]
      <4> HIDE DEF mu, m, D
      <4> QED BY <3>1, <3>3
    <3> QED BY <3>4
  <2> QED BY <2>1
<1>7. \E f \in [D -> V] : f = B[f]
  <2>1. V # {}
    BY <1>1
  <2> HIDE DEF B, mu, D, V
  <2>2. HasSolution(D, V, B)
    BY <2>1, <1>4, <1>5, <1>6, RecursiveFunction
  <2> QED BY <2>2 DEF HasSolution
<1>8. \E f : f = [b \in D |-> Body(f, b)]
  <2> HIDE DEF Body, D
  <2> QED BY <1>7
<1>9. Bisect(s, x2) = CHOOSE f : f = [b \in D |-> Body(f, b)]
  BY DEF Bisect
<1> DEFINE f == Bisect(s, x2)
<1>10. f = [b \in D |-> Body(f, b)]
  <2> HIDE DEF Body, D
  <2> QED BY <1>8, <1>9
<1> HIDE DEF f
<1>11. \A b \in D : f[b] = Body(f, b)
  <2> HIDE DEF Body, D
  <2> QED BY <1>10
<1> QED
  BY <1>11 DEF f

(* The strides up and down as well.                                        *)
LEMMA StrideUpIs ==
  ASSUME NEW s \in Seq(Int), NEW x2 \in Int
  PROVE  \A d \in Stride(s) :
           StrideUp(s, x2)[d] =
             LET jhi == d[1] + d[2] IN
             IF jhi > Len(s) THEN <<d[1], Len(s) + 1>>
             ELSE IF x2 >= 2 * s[jhi] THEN StrideUp(s, x2)[<<jhi, 2 * d[2]>>]
             ELSE <<d[1], jhi>>
<1> DEFINE D == Stride(s)
           V == (0 .. Len(s)) \X (1 .. Len(s) + 1)
           Body(g, d) == LET jhi == d[1] + d[2] IN
                         IF jhi > Len(s) THEN <<d[1], Len(s) + 1>>
                         ELSE IF x2 >= 2 * s[jhi] THEN g[<<jhi, 2 * d[2]>>]
                         ELSE <<d[1], jhi>>
           B == [g \in [D -> V] |-> [d \in D |-> Body(g, d)]]
           mu == [d \in D |-> Len(s) - d[1]]
<1>1. Len(s) \in Nat
  BY SequenceIs
<1>2. ASSUME NEW d \in D
      PROVE  /\ Len(s) - d[1] \in Nat /\ d[1] \in Int
             /\ d[1] + d[2] \in Int
             /\ <<d[1], Len(s) + 1>> \in V
             /\ ~ (d[1] + d[2] > Len(s)) =>
                  /\ <<d[1], d[1] + d[2]>> \in V
                  /\ <<d[1] + d[2], 2 * d[2]>> \in D
                  /\ Len(s) - (d[1] + d[2]) < Len(s) - d[1]
  <2>1. d[1] \in 1 .. Len(s) /\ d[2] \in 1 .. 2 * Len(s)
    BY DEF Stride
  <2>2. ASSUME ~ (d[1] + d[2] > Len(s))
        PROVE  d[1] + d[2] \in 1 .. Len(s) /\ 2 * d[2] \in 1 .. 2 * Len(s)
    BY <1>1, <2>1, <2>2
  <2>3. /\ d[1] \in Int /\ d[1] + d[2] \in Int /\ Len(s) - d[1] \in Nat
        /\ d[1] \in 0 .. Len(s) /\ Len(s) + 1 \in 1 .. Len(s) + 1
        /\ Len(s) - (d[1] + d[2]) < Len(s) - d[1]
        /\ d[1] + d[2] \in 1 .. Len(s) => d[1] + d[2] \in 1 .. Len(s) + 1
    BY <1>1, <2>1
  <2>4. <<d[1], Len(s) + 1>> \in V
    BY <2>3
  <2>5. ASSUME ~ (d[1] + d[2] > Len(s))
        PROVE  <<d[1], d[1] + d[2]>> \in V /\ <<d[1] + d[2], 2 * d[2]>> \in D
    BY <2>2, <2>3, <2>5 DEF Stride
  <2> HIDE DEF V, D
  <2> QED
    BY <2>3, <2>4, <2>5
<1>3. ASSUME NEW g \in [D -> V], NEW d \in D PROVE Body(g, d) \in V
  <2> HIDE DEF D, V
  <2> QED BY <1>2
<1>4. B \in [[D -> V] -> [D -> V]]
  <2> HIDE DEF D, V, Body
  <2> QED BY <1>3
<1>5. mu \in [D -> Nat]
  <2> HIDE DEF D
  <2> QED BY <1>2
<1>6. DependsOnSmaller(D, V, mu, B)
  <2> SUFFICES ASSUME NEW g \in [D -> V], NEW h \in [D -> V], NEW d \in D,
                      \A c \in D : mu[c] < mu[d] => g[c] = h[c]
               PROVE  Body(g, d) = Body(h, d)
    <3> HIDE DEF D, V, Body, mu
    <3> QED BY DEF DependsOnSmaller
  <2> DEFINE c == <<d[1] + d[2], 2 * d[2]>>
  <2>1. CASE ~ (d[1] + d[2] > Len(s))
    <3>1. c \in D /\ mu[c] = Len(s) - (d[1] + d[2]) /\ mu[d] = Len(s) - d[1]
      <4> HIDE DEF D
      <4> QED BY <1>2, <2>1
    <3>2. mu[c] < mu[d]
      <4> HIDE DEF mu, c
      <4> QED BY <1>2, <2>1, <3>1
    <3>3. g[c] = h[c]
      <4> HIDE DEF mu, c, D
      <4> QED BY <3>1, <3>2
    <3> QED BY <3>3
  <2> QED BY <2>1
<1>7. \E f \in [D -> V] : f = B[f]
  <2>1. V # {}
    <3>1. 0 \in 0 .. Len(s) /\ 1 \in 1 .. Len(s) + 1
      BY <1>1
    <3>2. <<0, 1>> \in V
      BY <3>1
    <3> QED BY <3>2
  <2> HIDE DEF B, mu, D, V
  <2>2. HasSolution(D, V, B)
    BY <2>1, <1>4, <1>5, <1>6, RecursiveFunction
  <2> QED BY <2>2 DEF HasSolution
<1>8. \E f : f = [d \in D |-> Body(f, d)]
  <2> HIDE DEF Body, D
  <2> QED BY <1>7
<1>9. StrideUp(s, x2) = CHOOSE f : f = [d \in D |-> Body(f, d)]
  BY DEF StrideUp
<1> DEFINE f == StrideUp(s, x2)
<1>10. f = [d \in D |-> Body(f, d)]
  <2> HIDE DEF Body, D
  <2> QED BY <1>8, <1>9
<1> HIDE DEF f
<1>11. \A d \in D : f[d] = Body(f, d)
  <2> HIDE DEF Body, D
  <2> QED BY <1>10
<1> QED
  BY <1>11 DEF f

LEMMA StrideDownIs ==
  ASSUME NEW s \in Seq(Int), NEW x2 \in Int
  PROVE  \A d \in Stride(s) :
           StrideDown(s, x2)[d] =
             LET jlo == d[1] - d[2] IN
             IF jlo < 1 THEN <<0, d[1]>>
             ELSE IF x2 < 2 * s[jlo] THEN StrideDown(s, x2)[<<jlo, 2 * d[2]>>]
             ELSE <<jlo, d[1]>>
<1> DEFINE D == Stride(s)
           V == (0 .. Len(s)) \X (1 .. Len(s) + 1)
           Body(g, d) == LET jlo == d[1] - d[2] IN
                         IF jlo < 1 THEN <<0, d[1]>>
                         ELSE IF x2 < 2 * s[jlo] THEN g[<<jlo, 2 * d[2]>>]
                         ELSE <<jlo, d[1]>>
           B == [g \in [D -> V] |-> [d \in D |-> Body(g, d)]]
           mu == [d \in D |-> d[1]]
<1>1. Len(s) \in Nat
  BY SequenceIs
<1>2. ASSUME NEW d \in D
      PROVE  /\ d[1] \in Nat
             /\ d[1] - d[2] \in Int
             /\ <<0, d[1]>> \in V
             /\ ~ (d[1] - d[2] < 1) =>
                  /\ <<d[1] - d[2], d[1]>> \in V
                  /\ <<d[1] - d[2], 2 * d[2]>> \in D
                  /\ d[1] - d[2] < d[1]
  <2>1. d[1] \in 1 .. Len(s) /\ d[2] \in 1 .. 2 * Len(s)
    BY DEF Stride
  <2> QED
    BY <1>1, <2>1 DEF Stride
<1>3. ASSUME NEW g \in [D -> V], NEW d \in D PROVE Body(g, d) \in V
  <2> HIDE DEF D, V
  <2> QED BY <1>2
<1>4. B \in [[D -> V] -> [D -> V]]
  <2> HIDE DEF D, V, Body
  <2> QED BY <1>3
<1>5. mu \in [D -> Nat]
  <2> HIDE DEF D
  <2> QED BY <1>2
<1>6. DependsOnSmaller(D, V, mu, B)
  <2> SUFFICES ASSUME NEW g \in [D -> V], NEW h \in [D -> V], NEW d \in D,
                      \A c \in D : mu[c] < mu[d] => g[c] = h[c]
               PROVE  Body(g, d) = Body(h, d)
    <3> HIDE DEF D, V, Body, mu
    <3> QED BY DEF DependsOnSmaller
  <2> DEFINE c == <<d[1] - d[2], 2 * d[2]>>
  <2>1. CASE ~ (d[1] - d[2] < 1)
    <3>1. c \in D /\ mu[c] = d[1] - d[2] /\ mu[d] = d[1]
      <4> HIDE DEF D
      <4> QED BY <1>2, <2>1
    <3>2. mu[c] < mu[d]
      <4> HIDE DEF mu, c
      <4> QED BY <1>2, <2>1, <3>1
    <3>3. g[c] = h[c]
      <4> HIDE DEF mu, c, D
      <4> QED BY <3>1, <3>2
    <3> QED BY <3>3
  <2> QED BY <2>1
<1>7. \E f \in [D -> V] : f = B[f]
  <2>1. V # {}
    <3>1. 0 \in 0 .. Len(s) /\ 1 \in 1 .. Len(s) + 1
      BY <1>1
    <3>2. <<0, 1>> \in V
      BY <3>1
    <3> QED BY <3>2
  <2> HIDE DEF B, mu, D, V
  <2>2. HasSolution(D, V, B)
    BY <2>1, <1>4, <1>5, <1>6, RecursiveFunction
  <2> QED BY <2>2 DEF HasSolution
<1>8. \E f : f = [d \in D |-> Body(f, d)]
  <2> HIDE DEF Body, D
  <2> QED BY <1>7
<1>9. StrideDown(s, x2) = CHOOSE f : f = [d \in D |-> Body(f, d)]
  BY DEF StrideDown
<1> DEFINE f == StrideDown(s, x2)
<1>10. f = [d \in D |-> Body(f, d)]
  <2> HIDE DEF Body, D
  <2> QED BY <1>8, <1>9
<1> HIDE DEF f
<1>11. \A d \in D : f[d] = Body(f, d)
  <2> HIDE DEF Body, D
  <2> QED BY <1>10
<1> QED
  BY <1>11 DEF f

(* A bracket of twice a coordinate: what is up to its lower end does not   *)
(* lie beyond it, what is from its upper end on not before it.             *)
Bracketed(s, x2, b) ==
  /\ b \in Bracket(s)
  /\ b[1] > 0 => 2 * s[b[1]] <= x2
  /\ b[2] <= Len(s) => x2 <= 2 * s[b[2]]

(* Its place in s.                                                         *)
Placed(s, x2, r) ==
  /\ r \in 0 .. Len(s)
  /\ r > 0 => 2 * s[r] <= x2
  /\ r < Len(s) => x2 <= 2 * s[r + 1]

LEMMA BisectFindsThePlace ==
  ASSUME NEW s \in Seq(Int), NEW x2 \in Int
  PROVE  \A b \in Bracket(s) : Bracketed(s, x2, b) => Placed(s, x2, Bisect(s, x2)[b])
<1> DEFINE T == {b[2] - b[1] : b \in {c \in Bracket(s) : /\ Bracketed(s, x2, c)
                                                       /\ ~ Placed(s, x2, Bisect(s, x2)[c])}}
<1>1. Len(s) \in Nat /\ \A k \in 1 .. Len(s) : s[k] \in Int
  BY SequenceIs
<1>2. \A b \in Bracket(s) : /\ b[1] \in 0 .. Len(s) /\ b[2] \in 1 .. Len(s) + 1
                            /\ b[1] < b[2] /\ b[2] - b[1] \in Nat
  BY <1>1 DEF Bracket
<1> SUFFICES ASSUME T # {} PROVE FALSE
  <2> HIDE DEF Bracketed, Placed
  <2> QED OBVIOUS
<1>3. PICK w \in T : \A y \in T : w <= y
  <2>1. T \in SUBSET Nat
    BY <1>2
  <2> HIDE DEF T
  <2> QED BY <2>1, LeastNumber
<1>4. PICK b \in Bracket(s) : /\ w = b[2] - b[1] /\ Bracketed(s, x2, b)
                              /\ ~ Placed(s, x2, Bisect(s, x2)[b])
  <2> HIDE DEF Bracketed, Placed
  <2> QED OBVIOUS
<1>0. /\ b[1] \in 0 .. Len(s) /\ b[2] \in 1 .. Len(s) + 1
      /\ b[1] \in Int /\ b[2] \in Int /\ b[1] < b[2]
  BY <1>1, <1>2
<1>5. ASSUME NEW c \in Bracket(s), Bracketed(s, x2, c), c[2] - c[1] < w
      PROVE  Placed(s, x2, Bisect(s, x2)[c])
  <2>1. c[2] - c[1] \notin T /\ c[2] - c[1] \in Int /\ w \in Int
    <3>1. c[2] - c[1] \in Int /\ w \in Int
      BY <1>2, <1>4
    <3> HIDE DEF T
    <3> QED BY <1>3, <1>5, <3>1
  <2> HIDE DEF Bracketed, Placed
  <2> QED BY <1>5, <2>1
<1> HIDE DEF T
<1>6. CASE b[2] - b[1] = 1
  <2>1. Bisect(s, x2)[b] = b[1]
    BY <1>6, BisectIs
  <2>2. b[1] \in 0 .. Len(s) /\ b[2] = b[1] + 1
    BY <1>0, <1>1, <1>6
  <2> QED BY <1>1, <1>4, <2>1, <2>2 DEF Bracketed, Placed
<1>7. CASE b[2] - b[1] # 1
  <2>1. PICK m \in 1 .. Len(s) : m = (b[2] + b[1]) \div 2 /\ b[1] < m /\ m < b[2]
    <3> DEFINE c == (b[2] + b[1]) \div 2
    <3>0. b[1] + 1 < b[2]
      BY <1>0, <1>7
    <3>1. c \in Int /\ b[1] < c /\ c < b[2]
      <4>1. \A u, v \in Int : u + 1 < v => u < (v + u) \div 2 /\ (v + u) \div 2 < v
        OBVIOUS
      <4> QED BY <1>0, <3>0, <4>1
    <3>2. c \in 1 .. Len(s)
      <4> HIDE DEF c
      <4> QED BY <1>0, <1>1, <3>1
    <3> QED BY <3>1, <3>2
  <2>2. <<m, b[2]>> \in Bracket(s) /\ <<b[1], m>> \in Bracket(s)
    BY <1>0, <1>1, <2>1 DEF Bracket
  <2>3. s[m] \in Int /\ b[1] \in Int /\ b[2] \in Int
    BY <1>0, <1>1
  <2>4. CASE x2 > 2 * s[m]
    <3>1. Bisect(s, x2)[b] = Bisect(s, x2)[<<m, b[2]>>]
      BY <1>7, <2>1, <2>4, BisectIs
    <3>2. Bracketed(s, x2, <<m, b[2]>>)
      BY <1>4, <2>1, <2>2, <2>3, <2>4 DEF Bracketed
    <3>3. b[2] - m < w
      BY <1>4, <2>1, <2>3
    <3> QED BY <1>4, <1>5, <2>2, <3>1, <3>2, <3>3
  <2>5. CASE ~ (x2 > 2 * s[m])
    <3>1. Bisect(s, x2)[b] = Bisect(s, x2)[<<b[1], m>>]
      BY <1>7, <2>1, <2>5, BisectIs
    <3>2. Bracketed(s, x2, <<b[1], m>>)
      BY <1>4, <2>1, <2>2, <2>3, <2>5 DEF Bracketed
    <3>3. m - b[1] < w
      BY <1>4, <2>1, <2>3
    <3> QED BY <1>4, <1>5, <2>2, <3>1, <3>2, <3>3
  <2> QED BY <2>4, <2>5
<1> QED
  BY <1>6, <1>7

LEMMA StrideUpBrackets ==
  ASSUME NEW s \in Seq(Int), NEW x2 \in Int
  PROVE  \A d \in Stride(s) : x2 >= 2 * s[d[1]] => Bracketed(s, x2, StrideUp(s, x2)[d])
<1> DEFINE Fails(d) == x2 >= 2 * s[d[1]] /\ ~ Bracketed(s, x2, StrideUp(s, x2)[d])
           T == {Len(s) - d[1] : d \in {c \in Stride(s) : Fails(c)}}
<1>1. Len(s) \in Nat /\ \A k \in 1 .. Len(s) : s[k] \in Int
  BY SequenceIs
<1>2. \A d \in Stride(s) : /\ d[1] \in 1 .. Len(s) /\ d[2] \in 1 .. 2 * Len(s)
                           /\ d[1] \in Int /\ d[2] \in Int /\ Len(s) - d[1] \in Nat
  BY <1>1 DEF Stride
<1> SUFFICES ASSUME T # {} PROVE FALSE
  <2> HIDE DEF Bracketed
  <2> QED OBVIOUS
<1>3. PICK w \in T : \A y \in T : w <= y
  <2>1. T \in SUBSET Nat
    BY <1>2
  <2> HIDE DEF T
  <2> QED BY <2>1, LeastNumber
<1>4. PICK d \in Stride(s) : w = Len(s) - d[1] /\ Fails(d)
  <2> HIDE DEF Fails
  <2> QED OBVIOUS
<1>0. /\ d[1] \in 1 .. Len(s) /\ d[2] \in 1 .. 2 * Len(s)
      /\ d[1] \in Int /\ d[2] \in Int
  BY <1>1, <1>2
<1>5. ASSUME NEW c \in Stride(s), d[1] < c[1] PROVE ~ Fails(c)
  <2>1. Len(s) - c[1] \notin T
    <3>1. Len(s) - c[1] < w /\ Len(s) - c[1] \in Int /\ w \in Int
      BY <1>0, <1>1, <1>2, <1>4, <1>5
    <3> HIDE DEF T
    <3> QED BY <1>3, <3>1
  <2> HIDE DEF Fails
  <2> QED BY <2>1
<1> HIDE DEF T
<1>6. CASE d[1] + d[2] > Len(s)
  <2>1. StrideUp(s, x2)[d] = <<d[1], Len(s) + 1>>
    BY <1>6, StrideUpIs
  <2>2. <<d[1], Len(s) + 1>> \in Bracket(s)
    BY <1>0, <1>1 DEF Bracket
  <2> QED BY <1>1, <1>4, <2>1, <2>2 DEF Bracketed
<1>7. CASE ~ (d[1] + d[2] > Len(s))
  <2>1. PICK hi \in 1 .. Len(s) : hi = d[1] + d[2] /\ d[1] < hi /\ s[hi] \in Int
    <3> DEFINE c == d[1] + d[2]
    <3>1. c \in 1 .. Len(s) /\ d[1] < c
      BY <1>0, <1>1, <1>7
    <3>2. s[c] \in Int
      <4> HIDE DEF c
      <4> QED BY <1>1, <3>1
    <3> HIDE DEF c
    <3>3. \E hi \in 1 .. Len(s) : hi = c /\ d[1] < hi /\ s[hi] \in Int
      BY <3>1, <3>2
    <3> QED BY <3>3 DEF c
  <2>2. CASE x2 >= 2 * s[hi]
    <3>1. StrideUp(s, x2)[d] = StrideUp(s, x2)[<<hi, 2 * d[2]>>]
      BY <1>7, <2>1, <2>2, StrideUpIs
    <3>2. <<hi, 2 * d[2]>> \in Stride(s)
      <4>1. 2 * d[2] \in 1 .. 2 * Len(s)
        BY <1>0, <1>1, <1>7
      <4> QED BY <2>1, <4>1 DEF Stride
    <3> QED BY <1>4, <1>5, <2>1, <2>2, <3>1, <3>2
  <2>3. CASE ~ (x2 >= 2 * s[hi])
    <3>1. StrideUp(s, x2)[d] = <<d[1], hi>>
      BY <1>7, <2>1, <2>3, StrideUpIs
    <3>2. <<d[1], hi>> \in Bracket(s)
      BY <1>0, <1>1, <2>1 DEF Bracket
    <3> QED BY <1>1, <1>4, <2>1, <2>3, <3>1, <3>2 DEF Bracketed
  <2> QED BY <2>2, <2>3
<1> QED
  BY <1>6, <1>7

LEMMA StrideDownBrackets ==
  ASSUME NEW s \in Seq(Int), NEW x2 \in Int
  PROVE  \A d \in Stride(s) : x2 < 2 * s[d[1]] => Bracketed(s, x2, StrideDown(s, x2)[d])
<1> DEFINE Fails(d) == x2 < 2 * s[d[1]] /\ ~ Bracketed(s, x2, StrideDown(s, x2)[d])
           T == {d[1] : d \in {c \in Stride(s) : Fails(c)}}
<1>1. Len(s) \in Nat /\ \A k \in 1 .. Len(s) : s[k] \in Int
  BY SequenceIs
<1>2. \A d \in Stride(s) : /\ d[1] \in 1 .. Len(s) /\ d[2] \in 1 .. 2 * Len(s)
                           /\ d[1] \in Nat /\ d[2] \in Int
  BY <1>1 DEF Stride
<1> SUFFICES ASSUME T # {} PROVE FALSE
  <2> HIDE DEF Bracketed
  <2> QED OBVIOUS
<1>3. PICK w \in T : \A y \in T : w <= y
  <2>1. T \in SUBSET Nat
    BY <1>2
  <2> HIDE DEF T
  <2> QED BY <2>1, LeastNumber
<1>4. PICK d \in Stride(s) : w = d[1] /\ Fails(d)
  <2> HIDE DEF Fails
  <2> QED OBVIOUS
<1>0. /\ d[1] \in 1 .. Len(s) /\ d[2] \in 1 .. 2 * Len(s)
      /\ d[1] \in Int /\ d[2] \in Int
  BY <1>1, <1>2
<1>5. ASSUME NEW c \in Stride(s), c[1] < d[1] PROVE ~ Fails(c)
  <2>1. c[1] \notin T
    <3>1. c[1] < w /\ c[1] \in Int /\ w \in Int
      BY <1>0, <1>1, <1>2, <1>4, <1>5
    <3> HIDE DEF T
    <3> QED BY <1>3, <3>1
  <2> HIDE DEF Fails
  <2> QED BY <2>1
<1> HIDE DEF T
<1>6. CASE d[1] - d[2] < 1
  <2>1. StrideDown(s, x2)[d] = <<0, d[1]>>
    BY <1>6, StrideDownIs
  <2>2. <<0, d[1]>> \in Bracket(s)
    BY <1>0, <1>1 DEF Bracket
  <2>3. s[d[1]] \in Int
    BY <1>1, <1>2
  <2> QED BY <1>1, <1>4, <2>1, <2>2, <2>3 DEF Bracketed
<1>7. CASE ~ (d[1] - d[2] < 1)
  <2>1. PICK lo \in 1 .. Len(s) : lo = d[1] - d[2] /\ lo < d[1] /\ s[lo] \in Int
    <3> DEFINE c == d[1] - d[2]
    <3>1. c \in 1 .. Len(s) /\ c < d[1]
      BY <1>0, <1>1, <1>7
    <3>2. s[c] \in Int
      <4> HIDE DEF c
      <4> QED BY <1>1, <3>1
    <3> HIDE DEF c
    <3>3. \E lo \in 1 .. Len(s) : lo = c /\ lo < d[1] /\ s[lo] \in Int
      BY <3>1, <3>2
    <3> QED BY <3>3 DEF c
  <2>2. CASE x2 < 2 * s[lo]
    <3>1. StrideDown(s, x2)[d] = StrideDown(s, x2)[<<lo, 2 * d[2]>>]
      BY <1>7, <2>1, <2>2, StrideDownIs
    <3>2. <<lo, 2 * d[2]>> \in Stride(s)
      <4>1. 2 * d[2] \in 1 .. 2 * Len(s)
        BY <1>0, <1>1, <1>7
      <4> QED BY <2>1, <4>1 DEF Stride
    <3> QED BY <1>4, <1>5, <2>1, <2>2, <3>1, <3>2
  <2>3. CASE ~ (x2 < 2 * s[lo])
    <3>1. StrideDown(s, x2)[d] = <<lo, d[1]>>
      BY <1>7, <2>1, <2>3, StrideDownIs
    <3>2. <<lo, d[1]>> \in Bracket(s)
      BY <1>0, <1>1, <2>1 DEF Bracket
    <3>3. s[d[1]] \in Int
      BY <1>1, <1>2
    <3> QED BY <1>1, <1>4, <2>1, <2>3, <3>1, <3>2, <3>3 DEF Bracketed
  <2> QED BY <2>2, <2>3
<1> QED
  BY <1>6, <1>7

(* Wherever the hunt starts, it ends at the place of what it looks for,    *)
(* sorted or not.                                                          *)
LEMMA HuntFinds ==
  ASSUME NEW s \in Seq(Int), NEW x2 \in Int, NEW jlo \in 0 .. Len(s), Len(s) > 0
  PROVE  Placed(s, x2, Hunt(s, x2, jlo))
<1>1. Len(s) \in Nat /\ \A k \in 1 .. Len(s) : s[k] \in Int
  BY SequenceIs
<1>2. CASE jlo = 0
  <2>1. Bracketed(s, x2, <<0, Len(s) + 1>>)
    BY <1>1 DEF Bracketed, Bracket
  <2> QED BY <1>2, <2>1, BisectFindsThePlace DEF Hunt, Bracketed
<1>3. CASE jlo # 0
  <2>1. <<jlo, 1>> \in Stride(s) /\ ~ (jlo = 0 \/ jlo > Len(s))
    BY <1>1, <1>3 DEF Stride
  <2>2. s[jlo] \in Int
    BY <1>1, <1>3
  <2>3. CASE x2 >= 2 * s[jlo]
    <3>1. Bracketed(s, x2, StrideUp(s, x2)[<<jlo, 1>>])
      BY <2>1, <2>3, StrideUpBrackets
    <3> QED BY <2>1, <2>3, <3>1, BisectFindsThePlace DEF Hunt, Bracketed
  <2>4. CASE ~ (x2 >= 2 * s[jlo])
    <3>1. Bracketed(s, x2, StrideDown(s, x2)[<<jlo, 1>>])
      BY <2>1, <2>2, <2>4, StrideDownBrackets
    <3> QED BY <2>1, <2>4, <3>1, BisectFindsThePlace DEF Hunt, Bracketed
  <2> QED BY <2>3, <2>4
<1> QED BY <1>2, <1>3
-----------------------------------------------------------------------------
(* A sorted array is in order from any place to any later one.             *)
InOrder(s) == \A a, b \in 1 .. Len(s) : a <= b => s[a] <= s[b]

LEMMA SortedIsInOrder ==
  ASSUME NEW s \in Seq(Int), \A k \in 1 .. Len(s) - 1 : s[k] <= s[k + 1]
  PROVE  InOrder(s)
<1>1. Len(s) \in Nat /\ \A k \in 1 .. Len(s) : s[k] \in Int
  BY SequenceIs
<1> SUFFICES ASSUME NEW a \in 1 .. Len(s) PROVE \A b \in 1 .. Len(s) : a <= b => s[a] <= s[b]
  BY DEF InOrder
<1> DEFINE T == {b \in 1 .. Len(s) : a <= b /\ ~ (s[a] <= s[b])}
<1> SUFFICES ASSUME T # {} PROVE FALSE
  OBVIOUS
<1>2. PICK m \in T : \A b \in T : m <= b
  <2>1. T \in SUBSET Nat
    BY <1>1
  <2> HIDE DEF T
  <2> QED BY <2>1, LeastNumber
<1>3. m # a
  BY <1>1
<1>4. m - 1 \in 1 .. Len(s) - 1 /\ m - 1 \in 1 .. Len(s) /\ a <= m - 1 /\ m \in 1 .. Len(s)
  BY <1>1, <1>3
<1>5. s[a] <= s[m - 1]
  BY <1>2, <1>4
<1>6. s[m - 1] <= s[m]
  BY <1>4
<1> QED
  BY <1>1, <1>4, <1>5, <1>6

LEMMA ArrayIsSorted ==
  ASSUME NEW c \in Seq(Int), NEW nr, Sorting(nr, c),
         NEW s, s = [i \in 1 .. Len(c) |-> c[nr[i]]]
  PROVE  s \in Seq(Int) /\ Len(s) = Len(c) /\ InOrder(s)
<1>1. Len(c) \in Nat /\ \A k \in 1 .. Len(c) : nr[k] \in 1 .. Len(c) /\ c[nr[k]] \in Int
  BY SequenceIs DEF Sorting
<1>2. s \in Seq(Int) /\ Len(s) = Len(c)
  BY <1>1
<1>3. \A k \in 1 .. Len(s) - 1 : s[k] <= s[k + 1]
  BY <1>1, <1>2 DEF Sorting
<1> QED
  BY <1>2, <1>3, SortedIsInOrder

(* From the place of the centre of some bounds the two loops find what is  *)
(* within them, all of it and nothing else.                                *)
LEMMA StripIs ==
  ASSUME NEW s \in Seq(Int), InOrder(s), NEW low \in Int, NEW high \in Int, low <= high,
         NEW r, Placed(s, low + high, r)
  PROVE  Below(s, r, low) \union Above(s, r, high) =
           {k \in 1 .. Len(s) : low <= s[k] /\ s[k] <= high}
<1>1. Len(s) \in Nat /\ r \in 0 .. Len(s) /\ \A k \in 1 .. Len(s) : s[k] \in Int
  BY SequenceIs DEF Placed
<1>2. ASSUME NEW k \in 1 .. r
      PROVE  /\ k \in 1 .. Len(s) /\ s[k] <= high
             /\ k \in Below(s, r, low) <=> low <= s[k]
             /\ k \notin Above(s, r, high)
  <2>1. /\ k \in 1 .. Len(s) /\ r \in 1 .. Len(s) /\ k <= r
        /\ s[k] \in Int /\ s[r] \in Int
    BY <1>1
  <2>2. s[k] <= s[r] /\ 2 * s[r] <= low + high
    BY <2>1 DEF InOrder, Placed
  <2>3. \A q \in k .. r : q \in 1 .. Len(s) /\ s[k] <= s[q] /\ s[q] \in Int
    BY <1>1, <2>1 DEF InOrder
  <2>4. k \in Below(s, r, low) <=> low <= s[k]
    BY <1>1, <2>1, <2>3 DEF Below
  <2>5. k \notin Above(s, r, high)
    BY <1>1, <2>1 DEF Above
  <2> QED BY <2>1, <2>2, <2>4, <2>5
<1>3. ASSUME NEW k \in r + 1 .. Len(s)
      PROVE  /\ k \in 1 .. Len(s) /\ low <= s[k]
             /\ k \in Above(s, r, high) <=> s[k] <= high
             /\ k \notin Below(s, r, low)
  <2>1. /\ k \in 1 .. Len(s) /\ r + 1 \in 1 .. Len(s) /\ r + 1 <= k /\ r < Len(s)
        /\ s[k] \in Int /\ s[r + 1] \in Int
    BY <1>1
  <2>2. s[r + 1] <= s[k] /\ low + high <= 2 * s[r + 1]
    BY <2>1 DEF InOrder, Placed
  <2>3. \A q \in r + 1 .. k : q \in 1 .. Len(s) /\ s[q] <= s[k] /\ s[q] \in Int
    BY <1>1, <2>1 DEF InOrder
  <2>4. k \in Above(s, r, high) <=> s[k] <= high
    BY <1>1, <2>1, <2>3 DEF Above
  <2>5. k \notin Below(s, r, low)
    BY <1>1, <2>1 DEF Below
  <2> QED BY <2>1, <2>2, <2>4, <2>5
<1>4. \A k \in 1 .. Len(s) : k \in 1 .. r \/ k \in r + 1 .. Len(s)
  BY <1>1
<1>5. Below(s, r, low) \subseteq 1 .. r /\ Above(s, r, high) \subseteq r + 1 .. Len(s)
  BY DEF Below, Above
<1> QED
  BY <1>2, <1>3, <1>4, <1>5

LEMMA MinAndMax ==
  ASSUME NEW b \in Nat, NEW T \in SUBSET (0 .. b), T # {}
  PROVE  \A y \in T : y \in Min(T) .. Max(T)
<1>1. \E u \in T : \A y \in T : u <= y
  <2>1. T \in SUBSET Nat
    OBVIOUS
  <2> QED BY <2>1, LeastNumber
<1>2. \E u \in T : \A y \in T : u >= y
  BY HasMax
<1>3. Min(T) \in T /\ \A y \in T : Min(T) <= y
  BY <1>1 DEF Min
<1>4. Max(T) \in T /\ \A y \in T : Max(T) >= y
  BY <1>2 DEF Max
<1> QED
  BY <1>3, <1>4
-----------------------------------------------------------------------------
Given ==
  /\ coords \in PointSets /\ faces \in FaceSets(coords)
  /\ Sorting(nrx, coords.x2) /\ Sorting(nry, coords.y2)

(* The points in the strip of x of a face.                                 *)
InStrip(face) == {p \in Points(coords) : Within(coords.x2[p], face.x)}

(* From the hunt to the flags the places are those of the centre.  Between *)
(* flagging and picking exactly the points of the strip are flagged, at    *)
(* any other moment none.                                                  *)
Search ==
  /\ step # "hunt" => i1 <= Len(faces) /\ n2 > 0
  /\ step \in {"flag", "pick"} =>
       /\ Placed(xs, Twice(Face.x), lomnx)
       /\ Placed(ys, Twice(Face.y), lomny)
  /\ iflag = IF step = "pick" THEN InStrip(Face) ELSE {}
  /\ step = "cover" => near = InBox(coords, Face)

Inv == Given /\ TypeOK /\ Search

LEMMA GivenFacts ==
  ASSUME Given
  PROVE  /\ n2 \in Nat /\ Points(coords) = 1 .. n2
         /\ coords.x2 \in Seq(Int) /\ coords.y2 \in Seq(Int) /\ Len(coords.y2) = n2
         /\ xs \in Seq(Int) /\ Len(xs) = n2 /\ InOrder(xs)
         /\ ys \in Seq(Int) /\ Len(ys) = n2 /\ InOrder(ys)
         /\ Len(faces) \in Nat
         /\ nrx \in [1 .. n2 -> 1 .. n2] /\ nry \in [1 .. n2 -> 1 .. n2]
<1>1. coords.x2 \in Seq(Int) /\ coords.y2 \in Seq(Int) /\ Len(coords.y2) = n2
  BY FacesAssumption DEF Given, n2
<1>2. n2 \in Nat /\ Points(coords) = 1 .. n2
  BY <1>1 DEF n2, Points
<1>3. nrx \in [1 .. n2 -> 1 .. n2] /\ nry \in [1 .. n2 -> 1 .. n2]
  BY <1>1 DEF Given, Sorting, n2
<1>4. xs \in Seq(Int) /\ Len(xs) = n2 /\ InOrder(xs)
  BY <1>1, ArrayIsSorted DEF Given, xs, n2
<1>5. ys \in Seq(Int) /\ Len(ys) = n2 /\ InOrder(ys)
  <2>1. ys = [i \in 1 .. Len(coords.y2) |-> coords.y2[nry[i]]]
    BY <1>1 DEF ys
  <2>2. Sorting(nry, coords.y2)
    BY DEF Given
  <2> QED BY <1>1, <2>1, <2>2, ArrayIsSorted
<1>6. Len(faces) \in Nat
  <2>1. faces \in Seq(FaceOver(coords))
    BY FacesAssumption DEF Given
  <2> QED BY <2>1
<1> QED
  BY <1>1, <1>2, <1>3, <1>4, <1>5, <1>6

LEMMA FaceFacts ==
  ASSUME Given, i1 \in 1 .. Len(faces)
  PROVE  /\ Face.x[1] \in Int /\ Face.x[2] \in Int /\ Face.x[1] <= Face.x[2]
         /\ Face.y[1] \in Int /\ Face.y[2] \in Int /\ Face.y[1] <= Face.y[2]
         /\ Twice(Face.x) \in Int /\ Twice(Face.y) \in Int
         /\ Face.singular \subseteq Face.covered
         /\ Face.covered \subseteq InBox(coords, Face)
<1>1. faces \in Seq(FaceOver(coords))
  BY FacesAssumption DEF Given
<1>2. Face \in FaceOver(coords)
  BY <1>1 DEF Face
<1>3. Face.x \in Int \X Int /\ Face.y \in Int \X Int
  BY <1>2 DEF FaceOver
<1>4. /\ Face.x[1] <= Face.x[2] /\ Face.y[1] <= Face.y[2]
      /\ Face.singular \subseteq Face.covered
      /\ Face.covered \subseteq InBox(coords, Face)
  BY FacesAssumption DEF Given, Face
<1> QED
  BY <1>3, <1>4 DEF Twice

LEMMA InitInv == Init => Inv
<1> SUFFICES ASSUME Init PROVE Inv
  OBVIOUS
<1>1. Given
  BY DEF Init, Given
<1>2. TypeOK
  BY <1>1, GivenFacts DEF Init, TypeOK
<1>3. Search
  BY DEF Init, Search
<1> QED
  BY <1>1, <1>2, <1>3 DEF Inv

LEMMA HuntCentreInv == Inv /\ HuntCentre => Inv'
<1> SUFFICES ASSUME Inv, HuntCentre PROVE Inv'
  OBVIOUS
<1>1. /\ Given' /\ n2' = n2 /\ xs' = xs /\ ys' = ys /\ Face' = Face
      /\ faces' = faces /\ coords' = coords /\ i1' = i1 /\ step = "hunt" /\ step' = "flag"
      /\ iflag' = iflag /\ near' = near /\ iref' = iref /\ wref' = wref
      /\ Points(coords)' = Points(coords)
  BY DEF HuntCentre, inputs, Inv, Given, n2, xs, ys, Face, Points
<1>2. /\ n2 \in Nat /\ n2 > 0 /\ i1 \in 1 .. Len(faces)
      /\ lomnx \in 0 .. n2 /\ lomny \in 0 .. n2
  BY GivenFacts DEF Inv, TypeOK, HuntCentre
<1>3. Placed(xs, Twice(Face.x), lomnx')
  BY <1>2, GivenFacts, FaceFacts, HuntFinds DEF Inv, HuntCentre
<1>4. Placed(ys, Twice(Face.y), lomny')
  BY <1>2, GivenFacts, FaceFacts, HuntFinds DEF Inv, HuntCentre
<1>5. lomnx' \in 0 .. n2 /\ lomny' \in 0 .. n2
  BY <1>3, <1>4, GivenFacts DEF Inv, Placed
<1>6. TypeOK'
  BY <1>1, <1>5 DEF Inv, TypeOK
<1>7. Search'
  <2>1. Placed(xs, Twice(Face.x), lomnx)' /\ Placed(ys, Twice(Face.y), lomny)'
    BY <1>1, <1>3, <1>4 DEF Placed, Twice
  <2>2. iflag = {}
    BY <1>1 DEF Inv, Search
  <2> QED BY <1>1, <1>2, <2>1, <2>2 DEF Search
<1> QED
  BY <1>1, <1>6, <1>7 DEF Inv

(* What the loops of the flags and of the candidates find.                 *)
LEMMA StripsFind ==
  ASSUME Inv, step \in {"flag", "pick"}
  PROVE  /\ {nrx[i] : i \in StripX} = InStrip(Face)
         /\ {nry[i] : i \in StripY} = {p \in Points(coords) : Within(coords.y2[p], Face.y)}
         /\ StripX \subseteq 1 .. n2 /\ lomnx \in 0 .. n2
<1>1. /\ Given /\ i1 \in 1 .. Len(faces) /\ n2 \in Nat
      /\ Placed(xs, Twice(Face.x), lomnx) /\ Placed(ys, Twice(Face.y), lomny)
  BY GivenFacts DEF Inv, TypeOK, Search
<1>2. StripX = {k \in 1 .. Len(xs) : Face.x[1] <= xs[k] /\ xs[k] <= Face.x[2]}
  <2>1. xs \in Seq(Int) /\ InOrder(xs)
    BY <1>1, GivenFacts
  <2>2. Face.x[1] \in Int /\ Face.x[2] \in Int /\ Face.x[1] <= Face.x[2]
    BY <1>1, FaceFacts
  <2>3. Placed(xs, Face.x[1] + Face.x[2], lomnx)
    BY <1>1 DEF Twice
  <2> QED BY <2>1, <2>2, <2>3, StripIs DEF StripX
<1>3. StripY = {k \in 1 .. Len(ys) : Face.y[1] <= ys[k] /\ ys[k] <= Face.y[2]}
  <2>1. ys \in Seq(Int) /\ InOrder(ys)
    BY <1>1, GivenFacts
  <2>2. Face.y[1] \in Int /\ Face.y[2] \in Int /\ Face.y[1] <= Face.y[2]
    BY <1>1, FaceFacts
  <2>3. Placed(ys, Face.y[1] + Face.y[2], lomny)
    BY <1>1 DEF Twice
  <2> QED BY <2>1, <2>2, <2>3, StripIs DEF StripY
<1>4. {nrx[i] : i \in StripX} =
        {p \in 1 .. n2 : Face.x[1] <= coords.x2[p] /\ coords.x2[p] <= Face.x[2]}
  <2>1. Len(xs) = n2 /\ Len(coords.x2) = n2
    BY <1>1, GivenFacts DEF n2
  <2>2. StripX = {k \in 1 .. Len(coords.x2) : Face.x[1] <= xs[k] /\ xs[k] <= Face.x[2]}
    BY <1>2, <2>1
  <2>3. coords.x2 \in Seq(Int) /\ Sorting(nrx, coords.x2)
    BY <1>1, GivenFacts DEF Given
  <2>4. xs = [i \in 1 .. Len(coords.x2) |-> coords.x2[nrx[i]]]
    BY DEF xs, n2
  <2>5. {nrx[i] : i \in {k \in 1 .. Len(coords.x2) :
                            Face.x[1] <= xs[k] /\ xs[k] <= Face.x[2]}} =
          {p \in 1 .. Len(coords.x2) :
             Face.x[1] <= coords.x2[p] /\ coords.x2[p] <= Face.x[2]}
    BY <2>3, <2>4 DEF Sorting
  <2> QED BY <2>1, <2>2, <2>5
<1>5. {nry[i] : i \in StripY} =
        {p \in 1 .. n2 : Face.y[1] <= coords.y2[p] /\ coords.y2[p] <= Face.y[2]}
  <2>1. Len(ys) = n2 /\ Len(coords.y2) = n2
    BY <1>1, GivenFacts
  <2>2. StripY = {k \in 1 .. Len(coords.y2) : Face.y[1] <= ys[k] /\ ys[k] <= Face.y[2]}
    BY <1>3, <2>1
  <2>3. coords.y2 \in Seq(Int) /\ Sorting(nry, coords.y2)
    BY <1>1, GivenFacts DEF Given
  <2>4. ys = [i \in 1 .. Len(coords.y2) |-> coords.y2[nry[i]]]
    BY <2>1 DEF ys
  <2>5. {nry[i] : i \in {k \in 1 .. Len(coords.y2) :
                            Face.y[1] <= ys[k] /\ ys[k] <= Face.y[2]}} =
          {p \in 1 .. Len(coords.y2) :
             Face.y[1] <= coords.y2[p] /\ coords.y2[p] <= Face.y[2]}
    BY <2>3, <2>4 DEF Sorting
  <2> QED BY <2>1, <2>2, <2>5
<1>6. StripX \subseteq 1 .. n2 /\ lomnx \in 0 .. n2
  BY <1>1, <1>2, GivenFacts DEF Placed
<1> QED
  BY <1>1, <1>4, <1>5, <1>6, GivenFacts DEF InStrip, Within

LEMMA FlagInv == Inv /\ Flag => Inv'
<1> SUFFICES ASSUME Inv, Flag PROVE Inv'
  OBVIOUS
<1>1. /\ Given' /\ n2' = n2 /\ xs' = xs /\ ys' = ys /\ Face' = Face
      /\ faces' = faces /\ coords' = coords /\ i1' = i1 /\ step = "flag" /\ step' = "pick"
      /\ lomnx' = lomnx /\ lomny' = lomny /\ near' = near /\ iref' = iref /\ wref' = wref
      /\ Points(coords)' = Points(coords) /\ InStrip(Face)' = InStrip(Face)
  BY DEF Flag, inputs, Inv, Given, n2, xs, ys, Face, Points, InStrip, Within
<1>2. iflag' = InStrip(Face)
  BY <1>1, StripsFind DEF Inv, Search, Flag
<1>3. TypeOK'
  BY <1>1, <1>2 DEF Inv, TypeOK, InStrip
<1>4. Search'
  <2>1. Placed(xs, Twice(Face.x), lomnx)' /\ Placed(ys, Twice(Face.y), lomny)'
    BY <1>1 DEF Inv, Search, Placed, Twice
  <2> QED BY <1>1, <1>2, <2>1 DEF Inv, Search
<1> QED
  BY <1>1, <1>3, <1>4 DEF Inv

(* The range of places taken back holds all that was flagged.              *)
LEMMA PickInv == Inv /\ Pick => Inv'
<1> SUFFICES ASSUME Inv, Pick PROVE Inv'
  OBVIOUS
<1>1. /\ Given' /\ n2' = n2 /\ xs' = xs /\ ys' = ys /\ Face' = Face
      /\ faces' = faces /\ coords' = coords /\ i1' = i1 /\ step = "pick" /\ step' = "cover"
      /\ lomnx' = lomnx /\ lomny' = lomny /\ iref' = iref /\ wref' = wref
      /\ Points(coords)' = Points(coords)
      /\ InBox(coords, Face)' = InBox(coords, Face)
  BY DEF Pick, inputs, Inv, Given, n2, xs, ys, Face, Points, InBox, Within
<1>2. iflag = InStrip(Face)
  BY <1>1 DEF Inv, Search
<1>3. near' = InBox(coords, Face)
  BY <1>1, <1>2, StripsFind DEF Pick, InStrip, InBox
<1>4. iflag \subseteq Cleared
  <2> DEFINE S == StripX \union {lomnx}
  <2>1. n2 \in Nat /\ S \in SUBSET (0 .. n2) /\ S # {}
    BY <1>1, StripsFind, GivenFacts DEF Inv
  <2>2. \A y \in S : y \in Min(S) .. Max(S)
    <3> HIDE DEF S
    <3> QED BY <2>1, MinAndMax
  <2>3. ASSUME NEW i \in StripX PROVE i \in (Min(S) .. Max(S)) \ {0}
    <3>1. i \in S /\ i # 0
      BY <1>1, StripsFind DEF Inv
    <3> QED BY <2>2, <3>1
  <2>4. Cleared = {nrx[i] : i \in (Min(S) .. Max(S)) \ {0}}
    BY DEF Cleared
  <2>5. iflag = {nrx[i] : i \in StripX}
    BY <1>1, <1>2, StripsFind
  <2> HIDE DEF S
  <2> QED BY <2>3, <2>4, <2>5
<1>5. iflag' = {}
  BY <1>4 DEF Pick
<1>6. TypeOK'
  BY <1>1, <1>3, <1>5 DEF Inv, TypeOK, InBox
<1>7. Search'
  BY <1>1, <1>3, <1>5 DEF Inv, Search
<1> QED
  BY <1>1, <1>6, <1>7 DEF Inv

LEMMA CoverInv == Inv /\ Cover => Inv'
<1> SUFFICES ASSUME Inv, Cover PROVE Inv'
  OBVIOUS
<1>1. /\ Given' /\ n2' = n2 /\ faces' = faces /\ coords' = coords /\ i1' = i1 + 1
      /\ step = "cover" /\ step' = "hunt" /\ iflag' = iflag /\ near' = near
      /\ lomnx' = lomnx /\ lomny' = lomny /\ Points(coords)' = Points(coords)
  BY DEF Cover, inputs, Inv, Given, n2, Points
<1>2. i1 \in 1 .. Len(faces) /\ Len(faces) \in Nat /\ Points(coords) = 1 .. n2
  BY <1>1, GivenFacts DEF Inv, TypeOK, Search
<1>3. /\ iref' \in [Points(coords) -> 0 .. Len(faces)]
      /\ wref' \in [Points(coords) -> 0 .. Len(faces)]
  BY <1>2 DEF Inv, TypeOK, Cover
<1>4. TypeOK'
  BY <1>1, <1>2, <1>3 DEF Inv, TypeOK
<1>5. Search'
  BY <1>1 DEF Inv, Search
<1> QED
  BY <1>1, <1>4, <1>5 DEF Inv

LEMMA StepInv == Inv /\ [Next]_vars => Inv'
<1> SUFFICES ASSUME Inv, [Next]_vars PROVE Inv'
  OBVIOUS
<1>1. CASE UNCHANGED vars
  BY <1>1 DEF vars, inputs, Inv, Given, TypeOK, Search, n2, xs, ys, Face, Points, InStrip,
              InBox, Within, Placed, Twice
<1> QED
  BY <1>1, HuntCentreInv, FlagInv, PickInv, CoverInv DEF Next

LEMMA InvAlways == Spec => []Inv
BY InitInv, StepInv, PTL DEF Spec

(* Every variable keeps its type.                                          *)
THEOREM TypeInvariant == Spec => []TypeOK
<1>1. Inv => TypeOK
  BY DEF Inv
<1> QED
  BY InvAlways, <1>1, PTL

(* Wherever the last hunt left off and however the points are sorted, the  *)
(* hunt ends at a place the centre of the face belongs to.                 *)
THEOREM HuntFindsTheCentre == Spec => []HuntFindsThePlace
<1>1. Inv => HuntFindsThePlace
  <2> SUFFICES ASSUME Inv, step = "flag" PROVE HuntFindsThePlace
    BY DEF HuntFindsThePlace
  <2>1. Len(xs) = n2 /\ Len(ys) = n2
    BY GivenFacts DEF Inv
  <2> QED BY <2>1 DEF Inv, Search, Placed, HuntFindsThePlace
<1> QED
  BY InvAlways, <1>1, PTL

(* The candidates of a face are the points of its box: the hunted places   *)
(* miss none of them, and no flag of an earlier face lets another through. *)
THEOREM BoxIsSearched == Spec => []CandidatesAreTheBox
<1>1. Inv => CandidatesAreTheBox
  BY DEF Inv, Search, CandidatesAreTheBox
<1> QED
  BY InvAlways, <1>1, PTL

(* The sorted, cached search implements testing every point against every  *)
(* face: every turn of a face is one step of the brute force.              *)
THEOREM RefinesPointLocation == Spec => ImplementsPointLocation
<1>1. Init => BruteForce!LocationInit
  BY DEF Init, BruteForce!LocationInit
<1>2. Inv /\ [Next]_vars => [BruteForce!Locate]_(BruteForce!locationVars)
  <2> SUFFICES ASSUME Inv, [Next]_vars
               PROVE  BruteForce!Locate \/ UNCHANGED <<faces, i1, iref, wref>>
    BY DEF BruteForce!locationVars
  <2>1. CASE Cover
    <3>1. step = "cover" /\ i1 \in 1 .. Len(faces) /\ Points(coords) = 1 .. n2
      BY <2>1, GivenFacts DEF Inv, TypeOK, Search, Cover
    <3>2. near \cap Face.covered = Face.covered
      BY <3>1, FaceFacts DEF Inv, Search
    <3>3. DOMAIN iref = 1 .. n2 /\ DOMAIN wref = 1 .. n2
      BY <3>1 DEF Inv, TypeOK
    <3>4. iref' = [p \in 1 .. n2 |-> IF p \in Face.covered THEN i1 ELSE iref[p]]
      BY <2>1, <3>2 DEF Cover
    <3>5. wref' = [p \in 1 .. n2 |->
                     IF p \in Face.covered \ Face.singular THEN i1 ELSE wref[p]]
      BY <2>1, <3>2 DEF Cover
    <3>6. i1' = i1 + 1 /\ faces' = faces /\ i1 <= Len(faces)
      BY <2>1, <3>1 DEF Cover, inputs
    <3> QED
      BY <3>3, <3>4, <3>5, <3>6 DEF BruteForce!Locate, Face
  <2>2. CASE HuntCentre \/ Flag \/ Pick \/ UNCHANGED vars
    BY <2>2 DEF HuntCentre, Flag, Pick, vars, inputs
  <2> QED BY <2>1, <2>2 DEF Next
<1> QED
  BY <1>1, <1>2, InvAlways, PTL
  DEF Spec, ImplementsPointLocation, BruteForce!LocationSpec
=============================================================================
