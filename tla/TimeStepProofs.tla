--------------------------- MODULE TimeStepProofs ---------------------------
(***************************************************************************)
(* What a record of a time step holds, for every mesh, series of boundary  *)
(* conditions, circle of directions and start.  The series is first looked *)
(* at on its own; the time step implements BoundarySeries, so what holds   *)
(* of the series holds in it, and so do the facts about the grid.  From    *)
(* there on the proofs follow the arrays from one statement of the step to *)
(* the next.                                                               *)
(***************************************************************************)
EXTENDS TimeStep, TLAPS

(* The series: the resumed scan finds what a search from the start would   *)
(* find.  The reason is CursorBehindTime: time never goes back, so a row   *)
(* once behind the current time stays behind it.                           *)
(* The row of the last update is where the cursor stands.                  *)
RowAtCursor ==
  updated /\ ntwbnd >= 2 => row = itwbndlast /\ Stops(row)

SeriesInv == TypeOK /\ CursorBehindTime /\ RowAtCursor

LEMMA SeriesType ==
  ASSUME NEW s \in SeriesSet
  PROVE  /\ Len(s) \in Nat
         /\ \A i \in 1 .. Len(s) : s[i] \in Int
         /\ \A i, j \in 1 .. Len(s) : i < j => s[i] <= s[j]
BY SeriesAssumption DEF Sorted

LEMMA SeriesInvInit == Init => SeriesInv
<1> SUFFICES ASSUME Init PROVE SeriesInv
  OBVIOUS
<1>1. TypeOK
  <2>1. t_bwv \in SeriesSet /\ ntwbnd \in Nat
    BY SeriesType DEF Init, ntwbnd
  <2>2. itwbndlast \in 2 .. (IF ntwbnd < 2 THEN 2 ELSE ntwbnd)
    BY <2>1 DEF Init
  <2> QED BY <2>1, <2>2, SeriesAssumption DEF Init, TypeOK
<1>2. CursorBehindTime
  <2>1. itwbndlast = 2
    BY DEF Init
  <2> QED BY <2>1 DEF CursorBehindTime
<1>3. RowAtCursor
  BY Zenon DEF Init, RowAtCursor
<1> QED BY <1>1, <1>2, <1>3 DEF SeriesInv

(* An update that scans keeps the rows before the cursor behind the time.  *)
LEMMA SeriesInvUpdate == SeriesInv /\ UpdateBoundaryPoints => SeriesInv'
<1> SUFFICES ASSUME SeriesInv, UpdateBoundaryPoints PROVE SeriesInv'
  OBVIOUS
<1>1. /\ t_bwv' = t_bwv /\ timestep' = timestep /\ t' = t /\ updated' = TRUE
      /\ t_bwv \in SeriesSet /\ t \in Int /\ ntwbnd \in Nat
  BY SeriesType DEF UpdateBoundaryPoints, SeriesInv, TypeOK, ntwbnd
<1>2. CASE itwbndlast > ntwbnd
  <2>1. UNCHANGED <<itwbndlast, row>>
    BY <1>2 DEF UpdateBoundaryPoints
  <2>2. ntwbnd < 2
    BY <1>1, <1>2 DEF SeriesInv, TypeOK
  <2> QED
    BY <1>1, <2>1, <2>2
       DEF SeriesInv, TypeOK, CursorBehindTime, RowAtCursor, ntwbnd
<1>3. CASE ~ (itwbndlast > ntwbnd)
  <2>1. PICK itb \in itwbndlast .. ntwbnd :
          /\ Stops(itb)
          /\ \A j \in itwbndlast .. (itb - 1) : ~ Stops(j)
          /\ row' = itb
          /\ itwbndlast' = itb
    BY <1>3 DEF UpdateBoundaryPoints
  <2>2. itwbndlast \in Int /\ itwbndlast >= 2 /\ ntwbnd >= 2
    BY <1>1, <1>3 DEF SeriesInv, TypeOK
  <2>3. TypeOK'
    BY <1>1, <2>1, <2>2 DEF SeriesInv, TypeOK, ntwbnd
  <2>4. CursorBehindTime'
    <3>1. ASSUME NEW j \in 2 .. (itb - 1) PROVE j < ntwbnd /\ t_bwv[j] <= t
      <4>1. CASE j < itwbndlast
        BY <2>1, <2>2, <4>1 DEF SeriesInv, CursorBehindTime
      <4>2. CASE ~ (j < itwbndlast)
        <5>1. j \in itwbndlast .. (itb - 1) /\ j \in 1 .. ntwbnd
          BY <1>1, <2>1, <2>2, <4>2
        <5>2. ~ Stops(j) /\ t_bwv[j] \in Int
          BY <1>1, <2>1, <5>1, SeriesType DEF ntwbnd
        <5> QED BY <1>1, <5>1, <5>2 DEF Stops
      <4> QED BY <4>1, <4>2
    <3> QED BY <1>1, <2>1, <2>2, <3>1 DEF CursorBehindTime, ntwbnd
  <2>5. RowAtCursor'
    BY <1>1, <2>1 DEF RowAtCursor, Stops, ntwbnd
  <2> QED BY <2>3, <2>4, <2>5 DEF SeriesInv
<1> QED BY <1>2, <1>3

(* Time only grows, so rows behind it stay behind it.                      *)
LEMMA SeriesInvAdvance == SeriesInv /\ AdvanceTime => SeriesInv'
<1> SUFFICES ASSUME SeriesInv, AdvanceTime PROVE SeriesInv'
  OBVIOUS
<1>1. /\ UNCHANGED <<t_bwv, timestep, itwbndlast, row>> /\ updated' = FALSE
      /\ t' = t + timestep /\ timestep \in Nat /\ t \in Int
  BY SeriesAssumption DEF AdvanceTime, SeriesInv, TypeOK
<1>2. RowAtCursor'
  BY <1>1, Zenon DEF RowAtCursor
<1>5. TypeOK'
  <2>1. t_bwv' \in SeriesSet /\ timestep' \in Timesteps /\ updated' \in BOOLEAN
    BY <1>1, Zenon DEF SeriesInv, TypeOK
  <2>3. t' \in Int
    BY <1>1
  <2>4. (row \in {0} \union 2 .. ntwbnd)'
    BY <1>1, Zenon DEF SeriesInv, TypeOK, ntwbnd
  <2>2. (itwbndlast \in 2 .. (IF ntwbnd < 2 THEN 2 ELSE ntwbnd))'
    BY <1>1 DEF SeriesInv, TypeOK, ntwbnd
  <2> QED BY <2>1, <2>2, <2>3, <2>4 DEF TypeOK
<1>3. ASSUME NEW j \in 2 .. (itwbndlast - 1) PROVE j < ntwbnd /\ t_bwv[j] <= t + timestep
  <2>1. j < ntwbnd /\ t_bwv[j] <= t /\ j \in 1 .. ntwbnd
    BY <1>3, SeriesType DEF SeriesInv, TypeOK, CursorBehindTime, ntwbnd
  <2>2. t_bwv[j] \in Int
    BY <2>1, SeriesType DEF SeriesInv, TypeOK, ntwbnd
  <2> QED BY <1>1, <2>1, <2>2
<1>4. CursorBehindTime'
  BY <1>1, <1>3 DEF SeriesInv, CursorBehindTime, ntwbnd
<1> QED BY <1>2, <1>4, <1>5 DEF SeriesInv

LEMMA SeriesInvNext == SeriesInv /\ [Next]_vars => SeriesInv'
<1>1. SeriesInv /\ UNCHANGED vars => SeriesInv'
  BY DEF vars, SeriesInv, TypeOK, CursorBehindTime, RowAtCursor, Stops, ntwbnd
<1> QED BY <1>1, SeriesInvUpdate, SeriesInvAdvance DEF Next

LEMMA SeriesInvariance == Spec => []SeriesInv
BY SeriesInvInit, SeriesInvNext, PTL DEF Spec

(* The cursor stays in the series and every row before it lies at or       *)
(* before the current time.                                                *)
THEOREM CursorIsSafe == Spec => [](TypeOK /\ CursorBehindTime)
BY SeriesInvariance, PTL DEF SeriesInv

LEMMA SeriesInvEncloses == SeriesInv => RowsEncloseTime
<1> SUFFICES ASSUME SeriesInv, updated, ntwbnd >= 2, t_bwv[1] <= t, t < t_bwv[ntwbnd]
             PROVE  t_bwv[row - 1] <= t /\ t < t_bwv[row]
  BY DEF RowsEncloseTime
<1>1. row = itwbndlast /\ Stops(row) /\ row \in 2 .. ntwbnd
  BY SeriesType DEF SeriesInv, TypeOK, RowAtCursor, ntwbnd
<1>2. t < t_bwv[row]
  BY <1>1, SeriesType DEF SeriesInv, TypeOK, Stops, ntwbnd
<1>3. CASE row = 2
  BY <1>2, <1>3
<1>4. CASE row # 2
  <2>1. row - 1 \in 2 .. (itwbndlast - 1)
    BY <1>1, <1>4, SeriesType DEF SeriesInv, TypeOK, ntwbnd
  <2> QED BY <1>2, <2>1 DEF SeriesInv, CursorBehindTime
<1> QED BY <1>3, <1>4

(* While the series covers the time, the forcing is interpolated between   *)
(* the two rows around it, never extrapolated from a stale pair.           *)
THEOREM InterpolationEnclosesTime == Spec => []RowsEncloseTime
BY SeriesInvEncloses, SeriesInvariance, PTL

(* Outside the series the two rows at that end are used.                   *)
THEOREM EndsAreExtrapolated == Spec => []ExtrapolatesAtTheEnds
<1>1. SeriesInv => ExtrapolatesAtTheEnds
  <2> SUFFICES ASSUME SeriesInv, updated, ntwbnd >= 2
               PROVE  /\ t >= t_bwv[ntwbnd] => row = ntwbnd
                      /\ t < t_bwv[1] => row = 2
    BY DEF ExtrapolatesAtTheEnds
  <2>1. /\ row = itwbndlast /\ Stops(row) /\ row \in 2 .. ntwbnd
        /\ ntwbnd \in Nat /\ t \in Int
    BY SeriesType DEF SeriesInv, TypeOK, RowAtCursor, ntwbnd
  <2>2. /\ \A i \in 1 .. ntwbnd : t_bwv[i] \in Int
        /\ \A i, j \in 1 .. ntwbnd : i < j => t_bwv[i] <= t_bwv[j]
    BY SeriesType DEF SeriesInv, TypeOK, ntwbnd
  <2>3. ASSUME t >= t_bwv[ntwbnd], row # ntwbnd PROVE FALSE
    <3>1. t_bwv[row] > t
      BY <2>1, <2>3 DEF Stops
    <3>2. t_bwv[row] <= t_bwv[ntwbnd] /\ t_bwv[row] \in Int /\ t_bwv[ntwbnd] \in Int
      BY <2>1, <2>2, <2>3
    <3> QED BY <2>1, <2>3, <3>1, <3>2
  <2>4. ASSUME t < t_bwv[1], row # 2 PROVE FALSE
    <3>1. row - 1 \in 2 .. (itwbndlast - 1) /\ row - 1 \in 1 .. ntwbnd
      BY <2>1, <2>4
    <3>2. t_bwv[row - 1] <= t
      BY <3>1 DEF SeriesInv, CursorBehindTime
    <3>3. t_bwv[1] <= t_bwv[row - 1] /\ t_bwv[1] \in Int /\ t_bwv[row - 1] \in Int
      BY <2>1, <2>2, <3>1
    <3> QED BY <2>1, <2>4, <3>2, <3>3
  <2> QED BY <2>3, <2>4
<1> QED BY <1>1, SeriesInvariance, PTL

(* Resuming at the cursor implements the search of the whole series.       *)
THEOREM CursorImplementsLookup == Spec => ImplementsLookup
<1>1. Init => Stateless!LookupInit
  BY DEF Init, Stateless!LookupInit
<1>2. SeriesInv /\ [Next]_vars => [Stateless!LookupNext]_(Stateless!lookupVars)
  <2> SUFFICES ASSUME SeriesInv, [Next]_vars
               PROVE  Stateless!LookupNext \/ UNCHANGED Stateless!lookupVars
    OBVIOUS
  <2>1. CASE UpdateBoundaryPoints
    <3>1. CASE itwbndlast > ntwbnd
      <4>1. ntwbnd < 2
        BY <3>1, SeriesType DEF SeriesInv, TypeOK, ntwbnd
      <4> QED
        BY <2>1, <3>1, <4>1
           DEF UpdateBoundaryPoints, ntwbnd, Stateless!LookupNext, Stateless!Lookup
    <3>2. CASE ~ (itwbndlast > ntwbnd)
      <4>1. PICK itb \in itwbndlast .. ntwbnd :
              /\ Stops(itb)
              /\ \A j \in itwbndlast .. (itb - 1) : ~ Stops(j)
              /\ row' = itb
        BY <2>1, <3>2 DEF UpdateBoundaryPoints
      <4>2. itwbndlast \in Int /\ itwbndlast >= 2 /\ ntwbnd \in Nat
        BY SeriesType DEF SeriesInv, TypeOK, ntwbnd
      <4>3. ASSUME NEW j \in 2 .. (itb - 1) PROVE ~ Stops(j)
        <5>1. CASE j < itwbndlast
          <6>1. j < ntwbnd /\ t_bwv[j] <= t
            BY <4>2, <5>1 DEF SeriesInv, CursorBehindTime
          <6>2. t_bwv[j] \in Int /\ t \in Int
            BY <4>1, <4>2, <5>1, <6>1, SeriesType DEF SeriesInv, TypeOK, ntwbnd
          <6> QED BY <4>2, <6>1, <6>2 DEF Stops
        <5>2. CASE ~ (j < itwbndlast)
          BY <4>1, <4>2, <5>2
        <5> QED BY <5>1, <5>2
      <4>4. Stateless!IsBracket(row', 2, t)
        BY <4>1, <4>2, <4>3 DEF Stops, ntwbnd, Stateless!IsBracket, Stateless!Beyond
      <4> QED
        BY <2>1, <4>4
           DEF UpdateBoundaryPoints, Stateless!LookupNext, Stateless!Lookup
    <3> QED BY <3>1, <3>2
  <2>2. CASE AdvanceTime
    BY <2>2 DEF AdvanceTime, Stateless!LookupNext, Stateless!Proceed
  <2>3. CASE UNCHANGED vars
    BY <2>3 DEF vars, Stateless!lookupVars
  <2> QED BY <2>1, <2>2, <2>3 DEF Next
<1> QED
  BY <1>1, <1>2, SeriesInvariance, PTL DEF Spec, ImplementsLookup, Stateless!LookupSpec
-----------------------------------------------------------------------------
(* Directions are counted round a circle of bins.                          *)

(* The remainder the directions are wrapped with, always a bin.            *)
LEMMA Wraps ==
  ASSUME NEW a \in Int, NEW b \in Nat \ {0}
  PROVE  mod2(a, b) \in 1 .. b /\ \E q \in Int : a = q * b + mod2(a, b)
<1> DEFINE r == mod2(a, b)
<1> SUFFICES ASSUME TRUE
             PROVE  r \in 1 .. b /\ \E q \in Int : a = q * b + r
  OBVIOUS
<1>1. CASE a >= 0
  <2> DEFINE d == a \div b
  <2>1. a % b \in 0 .. b - 1 /\ a = d * b + (a % b) /\ d \in Int
    BY <1>1
  <2>2. CASE a % b = 0
    <3>1. r = b
      BY <1>1, <2>2 DEF mod2, Rem
    <3> HIDE DEF d, r
    <3>2. a = (d - 1) * b + r /\ d - 1 \in Int /\ r \in 1 .. b
      BY <2>1, <2>2, <3>1
    <3> QED BY <3>2, Zenon
  <2>3. CASE a % b # 0
    <3>1. r = a % b
      BY <1>1, <2>1, <2>3 DEF mod2, Rem
    <3> HIDE DEF d, r
    <3>2. a = d * b + r /\ r \in 1 .. b
      BY <2>1, <2>3, <3>1
    <3> QED BY <2>1, <3>2, Zenon
  <2> QED BY <2>2, <2>3
<1>2. CASE a < 0
  <2> DEFINE m == -a
             d == m \div b
  <2>1. m \in Nat /\ m % b \in 0 .. b - 1 /\ m = d * b + (m % b) /\ d \in Int
    BY <1>2
  <2>2. CASE m % b = 0
    <3>1. r = b
      BY <1>2, <2>2 DEF mod2, Rem
    <3>2. a = -m
      OBVIOUS
    <3> HIDE DEF d, r, m
    <3>3. a = (-d - 1) * b + r /\ -d - 1 \in Int /\ r \in 1 .. b
      BY <2>1, <2>2, <3>1, <3>2
    <3> QED BY <3>3, Zenon
  <2>3. CASE m % b # 0
    <3>1. r = b - (m % b)
      BY <1>2, <2>1, <2>3 DEF mod2, Rem
    <3>2. a = -m
      OBVIOUS
    <3> HIDE DEF d, r, m
    <3>3. a = (-d - 1) * b + r /\ -d - 1 \in Int /\ r \in 1 .. b
      BY <2>1, <2>3, <3>1, <3>2
    <3> QED BY <3>3, Zenon
  <2> QED BY <2>2, <2>3
<1> QED
  BY <1>1, <1>2

(* Bins that differ by less than a circle and are wrapped alike are one.   *)
LEMMA WrapIsInjective ==
  ASSUME NEW b \in Nat \ {0}, NEW p \in Int, NEW q \in Int,
         NEW x \in Int, NEW y \in Int,
         x + p * b = y + q * b, x - y \in -(b - 1) .. b - 1
  PROVE  x = y
<1>1. CASE p = q
  BY <1>1
<1>2. CASE p > q
  <2>1. PICK n \in Nat : p = q + 1 + n
    <3>1. p = q + 1 + (p - q - 1) /\ p - q - 1 \in Nat
      BY <1>2
    <3> QED BY <3>1
  <2>2. p * b = q * b + b + n * b /\ n * b >= 0 /\ n * b \in Int /\ q * b \in Int
    BY <2>1
  <2> QED BY <2>2
<1>3. CASE q > p
  <2>1. PICK n \in Nat : q = p + 1 + n
    <3>1. q = p + 1 + (q - p - 1) /\ q - p - 1 \in Nat
      BY <1>3
    <3> QED BY <3>1
  <2>2. q * b = p * b + b + n * b /\ n * b >= 0 /\ n * b \in Int /\ p * b \in Int
    BY <2>1
  <2> QED BY <2>2
<1> QED
  BY <1>1, <1>2, <1>3

LEMMA WrapNext ==
  ASSUME NEW a \in Int, NEW b \in Nat \ {0}
  PROVE  mod2(a + 1, b) = IF mod2(a, b) = b THEN 1 ELSE mod2(a, b) + 1
<1> DEFINE r == mod2(a, b)
           s == mod2(a + 1, b)
<1>1. a + 1 \in Int
  OBVIOUS
<1>2. r \in 1 .. b /\ s \in 1 .. b
  BY <1>1, Wraps
<1>3. PICK q \in Int : a = q * b + r
  BY Wraps
<1>4. PICK p \in Int : a + 1 = p * b + s
  BY <1>1, Wraps
<1> SUFFICES ASSUME TRUE PROVE s = IF r = b THEN 1 ELSE r + 1
  OBVIOUS
<1> HIDE DEF r, s
<1>5. CASE r = b
  <2>1. s + p * b = 1 + (q + 1) * b /\ q + 1 \in Int /\ s - 1 \in -(b - 1) .. b - 1
    BY <1>2, <1>3, <1>4, <1>5
  <2>2. s = 1
    BY <1>2, <2>1, WrapIsInjective
  <2> QED BY <1>5, <2>2
<1>6. CASE r # b
  <2>1. s + p * b = (r + 1) + q * b /\ s - (r + 1) \in -(b - 1) .. b - 1
    BY <1>2, <1>3, <1>4, <1>6
  <2>2. s = r + 1
    BY <1>2, <2>1, WrapIsInjective
  <2> QED BY <1>6, <2>2
<1> QED
  BY <1>5, <1>6

LEMMA WrapDistinct ==
  ASSUME NEW a \in Int, NEW c \in Int, NEW b \in Nat \ {0},
         a - c \in -(b - 1) .. b - 1, mod2(a, b) = mod2(c, b)
  PROVE  a = c
<1> DEFINE r == mod2(a, b)
<1>1. PICK p \in Int : a = p * b + r
  BY Wraps
<1>2. PICK q \in Int : c = q * b + r
  BY Wraps
<1>3. r \in 1 .. b
  BY Wraps
<1> HIDE DEF r
<1>4. a + (-p) * b = r /\ c + (-q) * b = r /\ -p \in Int /\ -q \in Int
  BY <1>1, <1>2, <1>3
<1> QED
  BY <1>4, WrapIsInjective
-----------------------------------------------------------------------------
(* The grid: the window around a direction is an arc of the circle.        *)
LEMMA GridNumbers ==
  ASSUME NEW g \in Grids
  PROVE  /\ g[1] \in Nat \ {0} /\ g[2] \in Nat \ {0} /\ g[1] <= g[2]
         /\ PerBin \in Nat \ {0} /\ HalfTurn(g) \in Nat
         /\ \A theta \in Directions(g) : theta \in Int /\ Ind(g, theta) \in Int
         /\ 0 \in Directions(g)
<1>1. /\ g[1] \in Nat \ {0} /\ g[2] \in Nat \ {0} /\ g[1] <= g[2]
      /\ PerBin \in Nat \ {0}
  BY GridAssumption
<1>2. HalfTurn(g) \in Nat
  <2>1. g[2] * PerBin \in Nat
    BY <1>1
  <2> QED BY <2>1 DEF HalfTurn
<1>3. 0 \in Directions(g) /\ Directions(g) \subseteq Int
  BY <1>2 DEF Directions
<1>4. ASSUME NEW theta \in Int PROVE Ind(g, theta) \in Int
  <2>1. nint(theta) \in Int
    BY <1>1 DEF nint
  <2> QED BY <1>1, <2>1 DEF Ind
<1> QED
  BY <1>1, <1>2, <1>3, <1>4

LEMMA WindowShape ==
  ASSUME NEW g \in Grids, NEW theta \in Directions(g)
  PROVE  /\ Window(g, theta) \in [Bins(g) -> 1 .. g[2]]
         /\ \A b \in 1 .. (g[1] - 1) :
              Window(g, theta)[b + 1] =
                IF Window(g, theta)[b] = g[2] THEN 1 ELSE Window(g, theta)[b] + 1
         /\ \A b, c \in Bins(g) : Window(g, theta)[b] = Window(g, theta)[c] => b = c
<1> DEFINE n == Ind(g, theta)
           w == Window(g, theta)
<1>1. g[1] \in Nat \ {0} /\ g[2] \in Nat \ {0} /\ g[1] <= g[2] /\ n \in Int
  BY GridNumbers
<1> HIDE DEF n
<1>2. \A b \in Bins(g) : b + n \in Int /\ b \in 1 .. g[1]
  BY <1>1 DEF Bins
<1>3. \A b \in Bins(g) : w[b] = mod2(b + n, g[2])
  BY DEF Window, n
<1>4. w \in [Bins(g) -> 1 .. g[2]]
  <2>1. \A b \in Bins(g) : mod2(b + n, g[2]) \in 1 .. g[2]
    BY <1>1, <1>2, Wraps
  <2> QED BY <2>1 DEF Window, n
<1> HIDE DEF w
<1>5. ASSUME NEW b \in 1 .. (g[1] - 1)
      PROVE  w[b + 1] = IF w[b] = g[2] THEN 1 ELSE w[b] + 1
  <2>1. b \in Bins(g) /\ b + 1 \in Bins(g)
    BY <1>1 DEF Bins
  <2>2. (b + 1) + n = (b + n) + 1 /\ b + n \in Int
    BY <1>1
  <2>3. w[b + 1] = mod2((b + n) + 1, g[2]) /\ w[b] = mod2(b + n, g[2])
    BY <1>3, <2>1, <2>2
  <2> QED BY <1>1, <2>2, <2>3, WrapNext
<1>6. ASSUME NEW b \in Bins(g), NEW c \in Bins(g), w[b] = w[c] PROVE b = c
  <2>1. /\ b + n \in Int /\ c + n \in Int
        /\ (b + n) - (c + n) \in -(g[2] - 1) .. g[2] - 1
    BY <1>1, <1>2
  <2>2. mod2(b + n, g[2]) = mod2(c + n, g[2])
    BY <1>3, <1>6
  <2>3. b + n = c + n
    BY <1>1, <2>1, <2>2, WrapDistinct
  <2> QED BY <1>1, <1>2, <2>3
<1> QED
  BY <1>4, <1>5, <1>6 DEF w
-----------------------------------------------------------------------------
(* What a time step has established by each of its statements.             *)
GridOfStep ==
  /\ grid \in Grids
  /\ central_theta \in Directions(grid)
  /\ i360 = Window(grid, central_theta)

StepOfRun ==
  /\ rows \in RowData(t_bwv) /\ hmin \in hmins
  /\ step \in {"points", "grid", "spectra", "solve", "record"}
  /\ updated = (step # "points")
  /\ step \in {"spectra", "solve", "record"} => central_theta = wdmean

(* The series covers time u, or there is none.                             *)
Covers(u) == ntwbnd # 0 => ntwbnd >= 2 /\ t_bwv[1] <= u /\ u < t_bwv[ntwbnd]

ForcingOfTime ==
  step # "points" =>
    /\ depth = [k \in Nodes |-> DepthAt(Level(row), k)]
    /\ Covers(t) => tpmean = "positive"

(* Nodes that nothing computes or copies to, and of them those that        *)
(* nothing forces either.                                                  *)
Uncomputed(k) == k \notin Inner /\ Sources(k) = {}
Idle(k) == Uncomputed(k) /\ ~ (k \in Sea /\ ntwbnd > 0)
SpectraOfNodes ==
  \A k \in Nodes :
    /\ Idle(k) => ee[k].is = "calm" /\ ee[k].of = Never
    /\ step = "solve" /\ k \in Sea /\ ntwbnd > 0 =>
         ee[k].of = t /\ ee[k].bins = i360

(* Between the solver and the end of the step.                             *)
SolvedForTime ==
  step = "record" =>
    /\ cg = Celerity
    /\ \A k \in Nodes :
         /\ ~ Idle(k) => ee[k].of = t /\ ee[k].bins = i360
         /\ k \in Inner \ Wet => ee[k].is = "calm"
         /\ h[k] = IF k \in Wet \union Sea THEN [is |-> ee[k].is, of |-> t] ELSE Zeroed
         /\ dw[k] = Dissipation(k)

StepInv ==
  /\ SeriesInv /\ GridOfStep /\ StepOfRun /\ ForcingOfTime
  /\ SpectraOfNodes /\ SolvedForTime

LEMMA SeaIsNotInner == \A k \in Sea : k \in Nodes /\ k \notin Inner
BY DEF Sea, Inner

LEMMA StepInvInit == StepInit => StepInv
<1> SUFFICES ASSUME StepInit PROVE StepInv
  OBVIOUS
<1>1. SeriesInv
  BY SeriesInvInit DEF StepInit
<1>2. GridOfStep
  <2>1. grid \in Grids /\ central_theta = 0 /\ i360 = Window(grid, 0)
    BY StepAssumption DEF StepInit, Init
  <2> QED BY <2>1, GridNumbers DEF GridOfStep
<1>3. step = "points" /\ updated = FALSE
  BY DEF StepInit, Init
<1>4. StepOfRun /\ ForcingOfTime /\ SolvedForTime
  BY <1>3 DEF StepInit, StepOfRun, ForcingOfTime, SolvedForTime
<1>5. SpectraOfNodes
  BY <1>3 DEF StepInit, SpectraOfNodes
<1> QED
  BY <1>1, <1>2, <1>4, <1>5 DEF StepInv

(* The scan of the series is that of BoundarySeries, and nothing else      *)
(* moves its cursor.                                                       *)
LEMMA StepIsAStepOfTheSeries == [StepNext]_timeStepVars => [Next]_vars
<1> SUFFICES ASSUME [StepNext]_timeStepVars PROVE [Next]_vars
  OBVIOUS
<1>1. CASE UpdatePoints \/ Advance
  BY <1>1 DEF UpdatePoints, Advance, Next
<1>2. CASE MakeGrid \/ ForceSea \/ Solve
  <2>1. CASE MakeGrid
    BY <2>1 DEF MakeGrid
  <2>2. CASE ForceSea
    BY <2>2 DEF ForceSea
  <2>3. CASE Solve
    BY <2>3 DEF Solve
  <2> QED BY <1>2, <2>1, <2>2, <2>3
<1>3. CASE UNCHANGED timeStepVars
  BY <1>3 DEF timeStepVars
<1> QED
  BY <1>1, <1>2, <1>3 DEF StepNext

(* What does not change in a run.                                          *)
LEMMA InputsStay ==
  ASSUME SeriesInv, [StepNext]_timeStepVars
  PROVE  /\ SeriesInv' /\ UNCHANGED <<t_bwv, grid, rows, hmin>> /\ ntwbnd' = ntwbnd
         /\ \A u : Covers(u)' <=> Covers(u)
<1>1. SeriesInv'
  BY StepIsAStepOfTheSeries, SeriesInvNext
<1>2. UNCHANGED t_bwv
  BY StepIsAStepOfTheSeries DEF Next, UpdateBoundaryPoints, AdvanceTime, vars
<1>3. UNCHANGED <<grid, rows, hmin>>
  <2>1. CASE UpdatePoints
    BY <2>1 DEF UpdatePoints, gridVars
  <2>2. CASE MakeGrid
    BY <2>2 DEF MakeGrid, MakeThetaGrid
  <2>3. CASE ForceSea
    BY <2>3 DEF ForceSea, gridVars
  <2>6. CASE Solve
    BY <2>6 DEF Solve, gridVars
  <2>4. CASE Advance
    BY <2>4 DEF Advance, gridVars
  <2>5. CASE UNCHANGED timeStepVars
    BY <2>5 DEF timeStepVars, gridVars, stepVars
  <2> QED BY <2>1, <2>2, <2>3, <2>4, <2>5, <2>6 DEF StepNext
<1> QED
  BY <1>1, <1>2, <1>3 DEF ntwbnd, Covers
-----------------------------------------------------------------------------
(* Within the series the weighted mean of positive periods is positive.    *)
ForcedInSeries ==
  SeriesInv /\ updated /\ Covers(t) /\ ntwbnd # 0 /\ rows \in RowData(t_bwv)

LEMMA PeriodIsPositive ==
  ForcedInSeries => ntwbnd >= 2 /\ Span(row) > 0 /\ Weighted(rows.tp, row) > 0
<1> SUFFICES ASSUME SeriesInv, updated, Covers(t), ntwbnd # 0, rows \in RowData(t_bwv)
             PROVE  ntwbnd >= 2 /\ Span(row) > 0 /\ Weighted(rows.tp, row) > 0
  BY DEF ForcedInSeries
<1>1. ntwbnd >= 2 /\ t_bwv[row - 1] <= t /\ t < t_bwv[row]
  BY SeriesInvEncloses DEF Covers, RowsEncloseTime
<1>2. /\ row \in 2 .. ntwbnd /\ ntwbnd \in Nat /\ t \in Int /\ t_bwv \in SeriesSet
      /\ \A j \in 1 .. ntwbnd : t_bwv[j] \in Int
  BY <1>1, SeriesType DEF SeriesInv, TypeOK, RowAtCursor, ntwbnd
<1>3. row \in 1 .. ntwbnd /\ row - 1 \in 1 .. ntwbnd
  BY <1>2
<1>4. \A j \in 1 .. ntwbnd : rows.tp[j] \in Int /\ rows.tp[j] > 0
  <2>1. DOMAIN t_bwv = 1 .. ntwbnd
    BY <1>2, SeriesAssumption DEF ntwbnd
  <2> QED BY <1>2, <2>1, StepAssumption
<1> DEFINE lower == rows.tp[row - 1]
           upper == rows.tp[row]
           from == t_bwv[row - 1]
           to == t_bwv[row]
<1>5. /\ lower \in Int /\ upper \in Int /\ lower > 0 /\ upper > 0
      /\ from \in Int /\ to \in Int /\ t \in Int /\ from <= t /\ t < to
  BY <1>1, <1>2, <1>3, <1>4
<1>6. Span(row) = to - from /\ Weighted(rows.tp, row) = lower * (to - t) + upper * (t - from)
  BY DEF Span, Weighted
<1> HIDE DEF lower, upper, from, to
<1>7. to - from > 0
  BY <1>5
<1>8. lower * (to - t) + upper * (t - from) > 0
  <2>1. lower * (to - t) > 0 /\ lower * (to - t) \in Int
    BY <1>5
  <2>2. upper * (t - from) >= 0 /\ upper * (t - from) \in Int
    BY <1>5
  <2> QED BY <2>1, <2>2
<1> QED
  BY <1>1, <1>6, <1>7, <1>8

LEMMA StepInvUpdatePoints == StepInv /\ UpdatePoints => StepInv'
<1> SUFFICES ASSUME StepInv, UpdatePoints PROVE StepInv'
  OBVIOUS
<1>1. /\ SeriesInv' /\ UNCHANGED <<t_bwv, grid, rows, hmin>> /\ ntwbnd' = ntwbnd
      /\ \A u : Covers(u)' <=> Covers(u)
  BY InputsStay DEF StepInv, StepNext
<1>2. /\ step = "points" /\ step' = "grid" /\ updated' = TRUE /\ t' = t
      /\ UNCHANGED <<central_theta, i360, ee, results>>
  BY DEF UpdatePoints, UpdateBoundaryPoints, gridVars
<1>3. GridOfStep' /\ StepOfRun'
  BY <1>1, <1>2 DEF StepInv, GridOfStep, StepOfRun
<1>4. ForcingOfTime'
  <2>1. depth' = [k \in Nodes |-> DepthAt(Level(row), k)]'
    BY <1>1, <1>2 DEF UpdatePoints, DepthAt, Level, Weighted, Span
  <2>2. ASSUME Covers(t)' PROVE tpmean' = "positive"
    <3>1. CASE ntwbnd = 0
      BY <3>1 DEF UpdatePoints
    <3>2. CASE ntwbnd # 0
      <4>1. (ntwbnd >= 2 /\ Span(row) > 0 /\ Weighted(rows.tp, row) > 0)'
        <5>1. ForcedInSeries'
          BY <1>1, <1>2, <1>3, <2>2, <3>2 DEF ForcedInSeries, StepOfRun
        <5> QED BY <5>1, PeriodIsPositive, PTL
      <4> QED BY <1>1, <1>2, <4>1 DEF UpdatePoints, Span, Weighted
    <3> QED BY <3>1, <3>2
  <2> QED BY <2>1, <2>2 DEF ForcingOfTime
<1>5. SpectraOfNodes' /\ SolvedForTime'
  BY <1>1, <1>2
     DEF StepInv, SpectraOfNodes, SolvedForTime, Idle, Uncomputed,
         Inner, Sea, Sources
<1> QED
  BY <1>1, <1>3, <1>4, <1>5 DEF StepInv

LEMMA StepInvMakeGrid == StepInv /\ MakeGrid => StepInv'
<1> SUFFICES ASSUME StepInv, MakeGrid PROVE StepInv'
  OBVIOUS
<1>1. /\ SeriesInv' /\ UNCHANGED <<t_bwv, grid, rows, hmin>> /\ ntwbnd' = ntwbnd
      /\ \A u : Covers(u)' <=> Covers(u)
  BY InputsStay DEF StepInv, StepNext
<1>2. /\ step = "grid" /\ step' = "spectra"
      /\ UNCHANGED <<updated, t, row, depth, tpmean, wdmean, ee, results>>
  BY DEF MakeGrid, vars
<1>3. GridOfStep' /\ StepOfRun'
  BY <1>1, <1>2
     DEF MakeGrid, MakeThetaGrid, Window, StepInv, GridOfStep, StepOfRun
<1>4. ForcingOfTime'
  BY <1>1, <1>2 DEF StepInv, ForcingOfTime, DepthAt, Level, Weighted, Span
<1>5. SpectraOfNodes' /\ SolvedForTime'
  BY <1>1, <1>2
     DEF StepInv, SpectraOfNodes, SolvedForTime, Idle, Uncomputed,
         Inner, Sea, Sources
<1> QED
  BY <1>1, <1>3, <1>4, <1>5 DEF StepInv

LEMMA StepInvForceSea == StepInv /\ ForceSea => StepInv'
<1> SUFFICES ASSUME StepInv, ForceSea PROVE StepInv'
  OBVIOUS
<1>1. /\ SeriesInv' /\ UNCHANGED <<t_bwv, grid, rows, hmin>> /\ ntwbnd' = ntwbnd
      /\ \A u : Covers(u)' <=> Covers(u)
  BY InputsStay DEF StepInv, StepNext
<1>2. /\ step = "spectra" /\ step' = "solve"
      /\ UNCHANGED <<central_theta, i360, updated, t, row, depth, tpmean, wdmean, results>>
  BY DEF ForceSea, vars, gridVars
<1>3. GridOfStep' /\ StepOfRun'
  BY <1>1, <1>2 DEF StepInv, GridOfStep, StepOfRun
<1>4. ForcingOfTime'
  BY <1>1, <1>2 DEF StepInv, ForcingOfTime, DepthAt, Level, Weighted, Span
<1>5. SpectraOfNodes'
  <2> SUFFICES ASSUME NEW k \in Nodes
               PROVE  /\ Idle(k) => ee'[k].is = "calm" /\ ee'[k].of = Never
                      /\ k \in Sea /\ ntwbnd > 0 => ee'[k].of = t /\ ee'[k].bins = i360
    BY <1>1, <1>2 DEF SpectraOfNodes, Idle, Uncomputed, Inner, Sea, Sources
  <2>1. CASE k \in Sea /\ ntwbnd > 0
    <3>1. ee'[k].of = t /\ ee'[k].bins = i360
      BY <2>1 DEF ForceSea
    <3> QED BY <2>1, <3>1 DEF Idle
  <2>2. CASE ~ (k \in Sea /\ ntwbnd > 0)
    <3>1. ee'[k] = ee[k]
      BY <2>2 DEF ForceSea
    <3> QED BY <2>2, <3>1 DEF StepInv, SpectraOfNodes
  <2> QED BY <2>1, <2>2
<1>6. SolvedForTime'
  BY <1>1, <1>2 DEF StepInv, SolvedForTime
<1> QED
  BY <1>1, <1>3, <1>4, <1>5, <1>6 DEF StepInv

(* What the solver leaves in the spectrum of a node.                       *)
LEMMA SpectrumSolved ==
  ASSUME StepInv, Solve, NEW k \in Nodes
  PROVE  \/ /\ Uncomputed(k) /\ ee'[k] = ee[k]
         \/ /\ ~ Uncomputed(k)
            /\ ee'[k].of = t /\ ee'[k].bins = i360
            /\ k \in Inner \ Wet => ee'[k].is = "calm"
<1> DEFINE r == Reached
<1>1. ee'[k] = Solved(k, r)
  BY DEF Solve
<1> HIDE DEF r
<1>2. CASE k \in Inner
  BY <1>1, <1>2 DEF Solved, Computed, Uncomputed
<1>3. CASE Uncomputed(k)
  BY <1>1, <1>3 DEF Solved, Uncomputed
<1>4. CASE k \notin Inner /\ ~ Uncomputed(k)
  <2> DEFINE j == CHOOSE n \in Sources(k) : TRUE
  <2>1. ee'[k] = Computed(j, r)
    BY <1>1, <1>4 DEF Solved, Uncomputed
  <2> HIDE DEF j
  <2> QED BY <1>4, <2>1 DEF Computed
<1> QED
  BY <1>2, <1>3, <1>4

LEMMA StepInvSolve == StepInv /\ Solve => StepInv'
<1> SUFFICES ASSUME StepInv, Solve PROVE StepInv'
  OBVIOUS
<1>1. /\ SeriesInv' /\ UNCHANGED <<t_bwv, grid, rows, hmin>> /\ ntwbnd' = ntwbnd
      /\ \A u : Covers(u)' <=> Covers(u)
  BY InputsStay DEF StepInv, StepNext
<1>2. /\ step = "solve" /\ step' = "record"
      /\ UNCHANGED <<central_theta, i360, updated, t, row, depth, tpmean, wdmean>>
  BY DEF Solve, vars, gridVars
<1>3. GridOfStep' /\ StepOfRun'
  BY <1>1, <1>2 DEF StepInv, GridOfStep, StepOfRun
<1>4. ForcingOfTime'
  BY <1>1, <1>2 DEF StepInv, ForcingOfTime, DepthAt, Level, Weighted, Span
<1>5. \A k \in Nodes : (Uncomputed(k)' <=> Uncomputed(k)) /\ (Idle(k)' <=> Idle(k))
  BY <1>1 DEF Uncomputed, Idle, Inner, Sea, Sources
<1>6. SpectraOfNodes'
  <2> SUFFICES ASSUME NEW k \in Nodes
               PROVE  Idle(k) => ee'[k].is = "calm" /\ ee'[k].of = Never
    BY <1>2, <1>5 DEF SpectraOfNodes
  <2>1. CASE Uncomputed(k)
    BY <2>1, SpectrumSolved DEF StepInv, SpectraOfNodes
  <2>2. CASE ~ Uncomputed(k)
    BY <2>2 DEF Idle
  <2> QED BY <2>1, <2>2
<1>7. SolvedForTime'
  <2>1. /\ Wet' = Wet /\ Sea' = Sea /\ Inner' = Inner
        /\ Zeroed' = Zeroed /\ Celerity' = Celerity
        /\ \A k : Dissipation(k)' = Dissipation(k)
    BY <1>2 DEF Wet, Sea, Inner, Zeroed, Celerity, Dissipation
  <2>2. cg' = Celerity'
    BY <2>1 DEF Solve
  <2>3. ASSUME NEW k \in Nodes
        PROVE  /\ h'[k] = IF k \in Wet \union Sea THEN [is |-> ee'[k].is, of |-> t]
                          ELSE Zeroed
               /\ dw'[k] = Dissipation(k)
    BY <2>3 DEF Solve, Height
  <2>4. ASSUME NEW k \in Nodes
        PROVE  /\ ~ Idle(k) => ee'[k].of = t /\ ee'[k].bins = i360
               /\ k \in Inner \ Wet => ee'[k].is = "calm"
    <3>1. CASE Uncomputed(k)
      <4>1. ee'[k] = ee[k] /\ k \notin Inner
        BY <3>1, SpectrumSolved DEF Uncomputed
      <4>2. ~ Idle(k) => ee[k].of = t /\ ee[k].bins = i360
        BY <1>2, <3>1 DEF Idle, StepInv, SpectraOfNodes
      <4> QED BY <4>1, <4>2
    <3>2. CASE ~ Uncomputed(k)
      BY <3>2, SpectrumSolved
    <3> QED BY <3>1, <3>2
  <2> QED BY <1>2, <1>5, <2>1, <2>2, <2>3, <2>4 DEF SolvedForTime
<1> QED
  BY <1>1, <1>3, <1>4, <1>6, <1>7 DEF StepInv

LEMMA StepInvAdvance == StepInv /\ (Advance \/ UNCHANGED timeStepVars) => StepInv'
<1> SUFFICES ASSUME StepInv, Advance \/ UNCHANGED timeStepVars PROVE StepInv'
  OBVIOUS
<1>1. /\ SeriesInv' /\ UNCHANGED <<t_bwv, grid, rows, hmin>> /\ ntwbnd' = ntwbnd
      /\ \A u : Covers(u)' <=> Covers(u)
  BY InputsStay DEF StepInv, StepNext
<1>2. CASE Advance
  <2>1. /\ step' = "points" /\ updated' = FALSE
        /\ UNCHANGED <<central_theta, i360, ee, results>>
    BY <1>2 DEF Advance, AdvanceTime, gridVars
  <2>2. GridOfStep' /\ StepOfRun' /\ ForcingOfTime'
    BY <1>1, <2>1 DEF StepInv, GridOfStep, StepOfRun, ForcingOfTime
  <2>3. SpectraOfNodes' /\ SolvedForTime'
    BY <1>1, <2>1
       DEF StepInv, SpectraOfNodes, SolvedForTime, Idle, Uncomputed,
           Inner, Sea, Sources
  <2> QED BY <1>1, <2>2, <2>3 DEF StepInv
<1>3. CASE UNCHANGED timeStepVars
  <2>1. UNCHANGED <<t, row, updated, central_theta, i360, step, depth, tpmean,
                    wdmean, ee, results>>
    BY <1>3 DEF timeStepVars, vars, gridVars, stepVars
  <2>2. GridOfStep' /\ StepOfRun' /\ ForcingOfTime'
    BY <1>1, <2>1
       DEF StepInv, GridOfStep, StepOfRun, ForcingOfTime, DepthAt, Level, Weighted, Span
  <2>3. SpectraOfNodes'
    BY <1>1, <2>1 DEF StepInv, SpectraOfNodes, Idle, Uncomputed, Inner, Sea, Sources
  <2>4. /\ Wet' = Wet /\ Sea' = Sea /\ Inner' = Inner
        /\ Zeroed' = Zeroed /\ Celerity' = Celerity
        /\ h' = h /\ dw' = dw /\ cg' = cg
        /\ \A k : (Dissipation(k)' = Dissipation(k)) /\ (Idle(k)' <=> Idle(k))
    BY <1>1, <2>1
       DEF Wet, Sea, Inner, Zeroed, Celerity, Dissipation, results, Idle, Uncomputed, Sources
  <2>5. SolvedForTime'
    BY <2>1, <2>4 DEF StepInv, SolvedForTime
  <2> QED BY <1>1, <2>2, <2>3, <2>5 DEF StepInv
<1> QED
  BY <1>2, <1>3

LEMMA StepInvariance == StepSpec => []StepInv
<1>1. StepInv /\ [StepNext]_timeStepVars => StepInv'
  BY StepInvUpdatePoints, StepInvMakeGrid, StepInvForceSea, StepInvSolve, StepInvAdvance
     DEF StepNext
<1> QED
  BY StepInvInit, <1>1, PTL DEF StepSpec
(* The centre of the window on the circle.                                 *)
LEMMA NearestBin ==
  ASSUME NEW theta \in Int, PerBin \in Nat \ {0}
  PROVE  /\ nint(theta) \in Int
         /\ 2 * (nint(theta) * PerBin) - 2 * theta \in -PerBin .. PerBin
<1> DEFINE half == PerBin \div 2
<1>1. half \in Nat /\ 2 * half = PerBin
  BY GridAssumption
<1> HIDE DEF half
<1>2. CASE theta >= 0
  <2> DEFINE a == theta + half
             n == a \div PerBin
  <2>1. n \in Int /\ a = n * PerBin + (a % PerBin) /\ a % PerBin \in 0 .. PerBin - 1
    BY <1>1, <1>2
  <2>2. nint(theta) = n
    BY <1>2 DEF nint, half
  <2> QED BY <1>1, <2>1, <2>2
<1>3. CASE theta < 0
  <2> DEFINE a == half - theta
             n == a \div PerBin
  <2>1. n \in Int /\ a = n * PerBin + (a % PerBin) /\ a % PerBin \in 0 .. PerBin - 1
    BY <1>1, <1>3
  <2>2. nint(theta) = -n
    BY <1>3 DEF nint, half
  <2>3. (-n) * PerBin = -(n * PerBin) /\ n * PerBin \in Int
    BY <2>1
  <2> HIDE DEF n
  <2> QED BY <1>1, <2>1, <2>2, <2>3
<1> QED
  BY <1>2, <1>3

LEMMA Division ==
  ASSUME NEW a \in Int, NEW b \in Nat \ {0}
  PROVE  /\ a \div b \in Int /\ a % b \in 0 .. b - 1
         /\ a = (a \div b) * b + (a % b)
OBVIOUS

(* Going round the circle brings nothing further away than it was.         *)
LEMMA RoundTheCircle ==
  ASSUME NEW H \in Nat \ {0}, NEW x \in Int, NEW e \in -(2 * H) .. 2 * H,
         NEW q \in Int, x = e + q * (2 * H)
  PROVE  (IF x % (2 * H) <= H THEN x % (2 * H) ELSE 2 * H - (x % (2 * H)))
           <= IF e >= 0 THEN e ELSE -e
<1> DEFINE M == 2 * H
           r == x % M
           k == x \div M
<1>1. M = 2 * H /\ M \in Nat \ {0}
  OBVIOUS
<1>2. x = e + q * M /\ e \in -M .. M
  OBVIOUS
<1>3. M \in Nat \ {0} /\ r \in 0 .. M - 1 /\ k \in Int /\ x = k * M + r
  <2> HIDE DEF M
  <2> QED BY <1>1, Division
<1> SUFFICES ASSUME TRUE
             PROVE (IF r <= H THEN r ELSE M - r) <= IF e >= 0 THEN e ELSE -e
  OBVIOUS
<1> HIDE DEF M, r, k
<1> DEFINE z == k - q
<1>4. z \in Int
  BY <1>3
<1>5. e = r + z * M
  BY <1>3, <1>2
<1> HIDE DEF z
<1> DEFINE turns == z * M
<1>6. turns \in Int /\ e = r + turns /\ e \in Int
  BY <1>3, <1>4, <1>5
<1>7. CASE z = 0
  BY <1>3, <1>1, <1>5, <1>7
<1>8. CASE z >= 1
  <2>1. turns >= M
    BY <1>3, <1>4, <1>8
  <2> HIDE DEF turns
  <2> QED BY <1>3, <1>2, <1>1, <1>6, <2>1
<1>9. CASE z = -1
  BY <1>3, <1>2, <1>1, <1>5, <1>9
<1>10. CASE z <= -2
  <2>1. turns <= -2 * M
    BY <1>3, <1>4, <1>10
  <2> HIDE DEF turns
  <2> QED BY <1>3, <1>2, <1>6, <2>1
<1> QED
  BY <1>4, <1>7, <1>8, <1>9, <1>10

LEMMA SectorIsCentred == GridOfStep => SectorFollowsWaves
<1> SUFFICES ASSUME GridOfStep PROVE SectorFollowsWaves
  OBVIOUS
<1> DEFINE n == ntheta360
           m == ntheta
           P == PerBin
           theta == central_theta
           near == nint(theta)
           odd == m - 2 * (m \div 2)
           first == i360[1]
<1>1. /\ n \in Nat \ {0} /\ m \in Nat \ {0} /\ P \in Nat \ {0} /\ theta \in Int
      /\ m \div 2 \in Int
  BY GridNumbers DEF GridOfStep, ntheta, ntheta360
<1>2. near \in Int /\ 2 * (near * P) - 2 * theta \in -P .. P
  BY <1>1, NearestBin
<1>3. odd = m % 2 /\ odd \in {0, 1}
  BY <1>1
<1> DEFINE b == 1 + (near - m \div 2)
<1>4. first = mod2(b, n)
  BY <1>1 DEF GridOfStep, Window, Ind, Bins, ntheta, ntheta360
<1>5. b \in Int
  BY <1>1, <1>2
<1>6. PICK q \in Int : b = q * n + first
  <2> HIDE DEF b, n, first
  <2> QED BY <1>1, <1>4, <1>5, Wraps
<1>7. first \in Int
  <2> HIDE DEF b, n, first
  <2> QED BY <1>1, <1>4, <1>5, Wraps
<1> DEFINE e == 2 * (near * P) + odd * P - 2 * theta
           x == (2 * first - 2 + m) * P - 2 * theta
           H == n * P
<1>8. H \in Nat \ {0} /\ H >= P
  BY <1>1
<1>9. x = e + (-q) * (2 * H)
  <2>1. 2 * first - 2 + m = 2 * near + odd - 2 * (q * n)
    <3> HIDE DEF first, near, n, m
    <3> QED BY <1>1, <1>2, <1>6, <1>7
  <2>2. (2 * near + odd - 2 * (q * n)) * P = 2 * (near * P) + odd * P - q * (2 * (n * P))
    <3> HIDE DEF odd, near, n, P
    <3>1. odd \in Int
      BY <1>3
    <3>2. (q * n) * P = q * (n * P)
      BY <1>1
    <3> QED BY <1>1, <1>2, <3>1, <3>2
  <2> HIDE DEF first, near, n, m, P, theta, odd
  <2>3. odd \in Int
    BY <1>3
  <2> QED BY <1>1, <1>2, <1>7, <2>1, <2>2, <2>3
<1>10. /\ e \in -(2 * H) .. 2 * H /\ -q \in Int /\ x \in Int
       /\ e <= P + odd * P /\ -e <= P
  <2>1. P + odd * P <= 2 * H /\ e \in -P .. P + odd * P
    <3> DEFINE d == 2 * (near * P) - 2 * theta
    <3>1. d \in -P .. P /\ e = d + odd * P
      BY <1>1, <1>2, <1>3
    <3> HIDE DEF d, e, H
    <3> QED BY <1>1, <1>3, <1>8, <3>1
  <2> HIDE DEF e, H
  <2> QED BY <1>1, <1>3, <1>7, <1>8, <2>1
<1>11. (IF x % (2 * H) <= H THEN x % (2 * H) ELSE 2 * H - (x % (2 * H)))
         <= IF e >= 0 THEN e ELSE -e
  <2> HIDE DEF x, e, H
  <2> QED BY <1>8, <1>9, <1>10, RoundTheCircle
<1>12. Distance(Centre, 2 * central_theta) =
         IF x % (2 * H) <= H THEN x % (2 * H) ELSE 2 * H - (x % (2 * H))
  <2>1. 2 * ntheta360 * PerBin = 2 * H
    BY <1>1
  <2>2. OnCircle(Centre - 2 * central_theta) = x % (2 * H)
    BY <2>1 DEF OnCircle, Centre
  <2> QED BY <2>1, <2>2 DEF Distance
<1>13. (IF e >= 0 THEN e ELSE -e) <= IF m % 2 = 0 THEN P ELSE 2 * P
  <2>1. e \in Int
    BY <1>10
  <2> HIDE DEF e
  <2> QED BY <1>1, <1>3, <1>10, <2>1
<1>14. x % (2 * H) \in Int
  <2>1. 2 * H \in Nat \ {0} /\ x \in Int
    BY <1>8, <1>10
  <2> HIDE DEF x, H
  <2> QED BY <2>1, Division
<1> DEFINE D == Distance(Centre, 2 * central_theta)
<1>15. D \in Int /\ e \in Int
  <2> HIDE DEF x, H, e
  <2> QED BY <1>8, <1>10, <1>12, <1>14
<1>16. D <= IF e >= 0 THEN e ELSE -e
  <2> HIDE DEF x, H, e
  <2> QED BY <1>11, <1>12
<1> QED
  <2> SUFFICES D <= IF m % 2 = 0 THEN P ELSE 2 * P
    BY DEF SectorFollowsWaves
  <2> HIDE DEF D, e, P, m
  <2> QED BY <1>1, <1>13, <1>15, <1>16
-----------------------------------------------------------------------------
(* A level is a fraction of integers, and what is under water or dry by    *)
(* the level is so by the depth of the time.                               *)
LEMMA LevelIsAFraction ==
  ASSUME SeriesInv, updated, rows \in RowData(t_bwv)
  PROVE  Level(row)[1] \in Int /\ Level(row)[2] \in Nat
<1>1. CASE ntwbnd = 0 \/ ntwbnd = 1
  BY <1>1, StepAssumption DEF Level
<1>2. CASE ~ (ntwbnd = 0 \/ ntwbnd = 1)
  <2>1. ntwbnd \in Nat /\ t \in Int /\ t_bwv \in SeriesSet /\ ntwbnd >= 2
    <3>1. t \in Int /\ t_bwv \in SeriesSet
      BY DEF SeriesInv, TypeOK
    <3>2. ntwbnd \in Nat
      BY <3>1, SeriesType DEF ntwbnd
    <3> QED BY <1>2, <3>1, <3>2
  <2>2. /\ row \in 2 .. ntwbnd
        /\ \A j \in 1 .. ntwbnd : t_bwv[j] \in Int
    BY <2>1, SeriesType DEF SeriesInv, TypeOK, RowAtCursor, ntwbnd
  <2>3. row \in 1 .. ntwbnd /\ row - 1 \in 1 .. ntwbnd
    BY <2>1, <2>2
  <2>4. \A j \in 1 .. ntwbnd : rows.zs[j] \in Int
    <3>1. DOMAIN t_bwv = 1 .. ntwbnd
      BY <2>1, SeriesAssumption DEF ntwbnd
    <3> QED BY <2>1, <3>1, StepAssumption
  <2>5. Weighted(rows.zs, row) \in Int /\ Span(row) \in Nat
    <3>1. /\ rows.zs[row] \in Int /\ rows.zs[row - 1] \in Int /\ t_bwv[row] \in Int
          /\ t_bwv[row - 1] \in Int /\ t_bwv[row - 1] <= t_bwv[row]
      BY <2>1, <2>2, <2>3, <2>4, SeriesType DEF ntwbnd
    <3> QED BY <2>1, <3>1 DEF Weighted, Span
  <2> QED BY <1>2, <2>5 DEF Level
<1> QED
  BY <1>1, <1>2

LEMMA DepthTellsLandFromSea ==
  ASSUME StepInv, step = "record", NEW k \in Nodes
  PROVE  /\ Submerged(k) => k \in Wet
         /\ hmin <= DryLimit /\ k \in Wet => Submerged(k)
<1> DEFINE num == Level(row)[1]
           den == Level(row)[2]
           bed == zb[k]
<1>1. /\ num \in Int /\ den \in Nat /\ bed \in Int /\ hmin \in Nat \ {0}
      /\ DryLimit = 11
  <2>1. updated /\ rows \in RowData(t_bwv) /\ SeriesInv /\ hmin \in hmins
    BY DEF StepInv, StepOfRun
  <2> QED BY <2>1, LevelIsAFraction, StepAssumption DEF DryLimit
<1> DEFINE above == Above(Level(row), k)
<1>2. above \in Int
  BY <1>1 DEF Above
<1>3. depth[k] = IF above > hmin * den THEN <<above, den>> ELSE <<hmin, 1>>
  BY DEF StepInv, ForcingOfTime, DepthAt
<1>4. k \in Wet <=> depth[k][1] > DryLimit * depth[k][2]
  BY DEF Wet, Deeper
<1>5. Submerged(k) <=> above > DryLimit * den
  BY DEF Submerged
<1> HIDE DEF num, den, bed, above
<1>6. CASE above > hmin * den
  BY <1>3, <1>4, <1>5, <1>6
<1>7. CASE ~ (above > hmin * den)
  <2>1. k \in Wet <=> hmin > 11
    BY <1>1, <1>3, <1>4, <1>7
  <2>2. ASSUME Submerged(k) PROVE hmin > 11
    <3>1. above > 11 * den /\ ~ (above > hmin * den)
      BY <1>1, <1>5, <1>7, <2>2
    <3>2. ASSUME hmin <= 11 PROVE hmin * den <= 11 * den
      <4>1. 11 - hmin \in Nat
        BY <1>1, <3>2
      <4>2. (11 - hmin) * den >= 0
        BY <1>1, <4>1
      <4> QED BY <1>1, <4>2
    <3> QED BY <1>1, <1>2, <3>1, <3>2
  <2> QED BY <1>1, <2>1, <2>2
<1> QED
  BY <1>6, <1>7

(* Seen from the boundary series the time step is a time step of           *)
(* BoundarySeries: the grid, the solver and the record leave its cursor    *)
(* alone.                                                                  *)
THEOREM StepImplementsSeries == StepSpec => Spec
<1>1. StepInit => Init
  BY DEF StepInit
<1> QED
  BY <1>1, StepIsAStepOfTheSeries, PTL DEF StepSpec, Spec

(* A time step takes its forcing from the two rows around its time.        *)
THEOREM StepEnclosesTime == StepSpec => []RowsEncloseTime
BY StepImplementsSeries, InterpolationEnclosesTime, PTL

(* A time step finds its rows as a search of the whole series would.       *)
THEOREM StepImplementsLookup == StepSpec => ImplementsLookup
BY StepImplementsSeries, CursorImplementsLookup, PTL

(* The directions of every time step are neighbours on the circle, each    *)
(* of them once, whichever way the waves come from.                        *)
THEOREM DirectionsFormAnArc == StepSpec => [](GridTypeOK /\ WindowIsAnArc)
<1>1. StepInv => GridTypeOK /\ WindowIsAnArc
  <2> SUFFICES ASSUME GridOfStep PROVE GridTypeOK /\ WindowIsAnArc
    BY DEF StepInv
  <2>1. grid \in Grids /\ i360 = Window(grid, central_theta)
    BY DEF GridOfStep
  <2>2. central_theta \in Int
    BY GridNumbers DEF GridOfStep
  <2>3. GridTypeOK
    BY <2>1, <2>2, WindowShape DEF GridOfStep, GridTypeOK, ntheta360
  <2>4. WindowIsAnArc
    BY <2>1, WindowShape DEF GridOfStep, WindowIsAnArc, ntheta, ntheta360
  <2> QED BY <2>3, <2>4
<1> QED
  BY <1>1, StepInvariance, PTL

(* The waves of the time come in through the middle of the directions,     *)
(* half a bin off at most, or a bin when their number is odd.              *)
THEOREM WavesAreInTheSector == StepSpec => []SectorFollowsWaves
<1>1. StepInv => SectorFollowsWaves
  BY SectorIsCentred DEF StepInv
<1> QED
  BY <1>1, StepInvariance, PTL

(* What a record says of a node, dry or wet, was made in its own time step *)
(* and in its own directions; a height is that of the spectrum beside it.  *)
THEOREM RecordIsOfItsTime == StepSpec => []RecordsAreOfOneTime
<1>1. StepInv => RecordsAreOfOneTime
  <2> SUFFICES ASSUME StepInv, step = "record"
               PROVE  /\ i360 = Window(grid, wdmean)
                      /\ cg.of = t
                      /\ \A k \in Nodes :
                           /\ \/ ee[k].of = t /\ ee[k].bins = i360
                              \/ ee[k].of = Never /\ ee[k].is = "calm"
                           /\ h[k].of = t /\ dw[k].of = t
                           /\ h[k].is \in {"zero", ee[k].is}
    BY DEF RecordsAreOfOneTime
  <2>1. i360 = Window(grid, wdmean)
    BY DEF StepInv, GridOfStep, StepOfRun
  <2>2. cg.of = t
    BY DEF StepInv, SolvedForTime, Celerity
  <2>3. ASSUME NEW k \in Nodes
        PROVE  \/ ee[k].of = t /\ ee[k].bins = i360
               \/ ee[k].of = Never /\ ee[k].is = "calm"
    BY DEF StepInv, SolvedForTime, SpectraOfNodes
  <2>4. ASSUME NEW k \in Nodes
        PROVE  h[k].of = t /\ dw[k].of = t /\ h[k].is \in {"zero", ee[k].is}
    <3>1. /\ h[k] = IF k \in Wet \union Sea THEN [is |-> ee[k].is, of |-> t] ELSE Zeroed
          /\ dw[k] = Dissipation(k)
      BY DEF StepInv, SolvedForTime
    <3> QED BY <3>1 DEF Zeroed, Dissipation, Celerity
  <2> QED BY <2>1, <2>2, <2>3, <2>4
<1> QED
  BY <1>1, StepInvariance, PTL

(* A node the level of the time leaves dry has no waves, and zero results. *)
THEOREM LandIsDry == StepSpec => []LandStaysDry
<1>1. StepInv => LandStaysDry
  <2> SUFFICES ASSUME StepInv, step = "record", hmin <= DryLimit,
                      NEW k \in Nodes \ Sea, ~ Submerged(k)
               PROVE  /\ k \in Inner => ee[k].is = "calm"
                      /\ h[k].is = "zero" /\ dw[k].is = "zero"
    BY DEF LandStaysDry
  <2>1. k \notin Wet
    BY DepthTellsLandFromSea
  <2>2. /\ k \in Inner \ Wet => ee[k].is = "calm"
        /\ h[k] = Zeroed /\ dw[k] = Dissipation(k)
    BY <2>1 DEF StepInv, SolvedForTime
  <2> QED BY <2>1, <2>2 DEF Zeroed, Dissipation
<1> QED
  BY <1>1, StepInvariance, PTL

(* Within the series the forcing has a period, so group velocities and     *)
(* dissipation are numbers.                                                *)
THEOREM DispersionIsDefined == StepSpec => []ResultsAreDefined
<1>1. StepInv => ResultsAreDefined
  <2> SUFFICES ASSUME StepInv, step = "record", Covers(t)
               PROVE  cg.is = "number" /\ \A k \in Nodes : dw[k].is # "undefined"
    BY DEF ResultsAreDefined, Covers
  <2>1. tpmean = "positive"
    BY DEF StepInv, ForcingOfTime
  <2>2. cg = Celerity /\ \A k \in Nodes : dw[k] = Dissipation(k)
    BY DEF StepInv, SolvedForTime
  <2> QED BY <2>1, <2>2 DEF Celerity, Dissipation, Zeroed
<1> QED
  BY <1>1, StepInvariance, PTL
=============================================================================
