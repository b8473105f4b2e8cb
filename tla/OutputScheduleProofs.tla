------------------------ MODULE OutputScheduleProofs ------------------------
(***************************************************************************)
(* The output schedule for every configuration: any time step, interval    *)
(* and tolerance the input may hold.  The bookkeeping is right because the *)
(* next output time always is the first grid time that no earlier step     *)
(* came within the tolerance of.                                           *)
(***************************************************************************)
EXTENDS OutputSchedule, SequenceTheorems, TLAPS

LEMMA ConfigTypes ==
  ASSUME NEW c \in Configs
  PROVE  /\ c.tstart \in Int /\ c.tstop \in Int /\ c.timestep \in Int /\ c.tol \in Nat
         /\ c.niter \in Nat /\ c.nobs \in Nat /\ c.saveEachIter \in Int
         /\ c.mapFile \in BOOLEAN /\ c.hisFile \in BOOLEAN
         /\ c.interval \in [Families -> Int]
         /\ c.timestep > 2 * c.tol /\ c.timestep > 0
         /\ \A f \in Families : Enabled(c, f) => c.interval[f] > 0
<1>1. c \in Config
  BY ScheduleAssumption DEF ConfigAssumption
<1>2. /\ c.tstart \in Int /\ c.tstop \in Int /\ c.timestep \in Int /\ c.tol \in Nat
      /\ c.niter \in Nat /\ c.nobs \in Nat /\ c.saveEachIter \in Int
      /\ c.mapFile \in BOOLEAN /\ c.hisFile \in BOOLEAN
      /\ c.interval \in [Families -> Int]
  BY <1>1 DEF Config
<1>3. /\ c.timestep > 2 * c.tol
      /\ \A f \in Families : Enabled(c, f) => c.interval[f] > 0
  BY ScheduleAssumption DEF ConfigAssumption, Enabled, Families
<1> QED
  BY <1>2, <1>3

(* Whole numbers: x reaches the n-th multiple of i when its quotient does. *)
LEMMA Quotient ==
  ASSUME NEW x \in Int, NEW i \in Nat \ {0}
  PROVE  /\ x \div i \in Int /\ (x >= 0 => x \div i >= 0)
         /\ (x \div i) * i <= x /\ x < (x \div i) * i + i
<1>1. /\ x \div i \in Int /\ x % i \in 0 .. i - 1
      /\ x = (x \div i) * i + (x % i)
  OBVIOUS
<1>2. (x \div i) * i <= x /\ x < (x \div i) * i + i
  BY <1>1
<1>3. x >= 0 => x \div i >= 0
  OBVIOUS
<1> QED
  BY <1>1, <1>2, <1>3

LEMMA QuotientUnique ==
  ASSUME NEW x \in Int, NEW i \in Nat \ {0}, NEW n \in Int,
         n * i <= x, x < n * i + i
  PROVE  x \div i = n
<1> DEFINE d == x \div i
<1>1. d \in Int /\ d * i <= x /\ x < d * i + i
  BY Quotient
<1> HIDE DEF d
<1> DEFINE z == d - n
<1>2. z \in Int /\ z * i < i /\ -i < z * i
  BY <1>1
<1> HIDE DEF z
<1>3. CASE z >= 1
  <2>1. z * i >= i
    BY <1>2, <1>3
  <2> QED BY <1>2, <2>1
<1>4. CASE z <= -1
  <2>1. z * i <= -i
    BY <1>2, <1>4
  <2> QED BY <1>2, <2>1
<1>5. z = 0
  BY <1>2, <1>3, <1>4
<1> QED
  BY <1>1, <1>5 DEF z, d

LEMMA QuotientReaches ==
  ASSUME NEW x \in Int, NEW i \in Nat \ {0}, NEW n \in Int
  PROVE  n * i <= x <=> n <= x \div i
<1> DEFINE d == x \div i
<1>1. d \in Int /\ d * i <= x /\ x < d * i + i
  BY Quotient
<1> HIDE DEF d
<1> DEFINE z == d - n
<1>2. z \in Int /\ n * i + z * i <= x /\ x < n * i + z * i + i
  BY <1>1
<1>3. ASSUME n <= d PROVE n * i <= x
  <2>1. z \in Nat
    BY <1>1, <1>3
  <2>2. z * i >= 0
    BY <2>1
  <2> HIDE DEF z
  <2> QED BY <1>2, <2>2
<1>4. ASSUME n > d PROVE ~ (n * i <= x)
  <2>1. z <= -1
    BY <1>1, <1>4
  <2> HIDE DEF z
  <2>2. z * i <= -i
    BY <1>2, <2>1
  <2> QED BY <1>2, <2>2
<1> QED
  BY <1>1, <1>3, <1>4 DEF d

(* The loop that moves the next output time past the limit ends at the     *)
(* first multiple beyond it.                                               *)
GridTime(start, n, i) == start + n * i

LEMMA NextMultiple ==
  ASSUME NEW start \in Int, NEW n \in Int, NEW i \in Nat \ {0}, NEW limit \in Int,
         GridTime(start, n, i) <= limit
  PROVE  Advanced(GridTime(start, n, i), limit, i)
           = GridTime(start, ((limit - start) \div i) + 1, i)
<1> DEFINE x == limit - start
           d == x \div i
           at == start + n * i
<1>1. x \in Int /\ d \in Int /\ d * i <= x /\ x < d * i + i
  BY Quotient
<1>2. limit - at = x - n * i /\ at <= limit /\ n * i \in Int
  BY DEF GridTime
<1>3. Advanced(at, limit, i) = at + i * (((limit - at) \div i) + 1)
  BY <1>2 DEF Advanced
<1> HIDE DEF d, x
<1>4. (x - n * i) \div i = d - n
  <2>1. (d - n) * i = d * i - n * i /\ d - n \in Int /\ x - n * i \in Int /\ d * i \in Int
    BY <1>1
  <2>2. (d - n) * i <= x - n * i /\ x - n * i < (d - n) * i + i
    BY <1>1, <2>1
  <2> QED BY <2>1, <2>2, QuotientUnique
<1>5. at + i * ((d - n) + 1) = start + (d + 1) * i
  BY <1>1
<1> HIDE DEF at
<1>6. Advanced(at, limit, i) = start + (d + 1) * i
  BY <1>2, <1>3, <1>4, <1>5
<1> QED
  BY <1>6 DEF GridTime, at, d, x
-----------------------------------------------------------------------------
(* The number of grid times within the tolerance of time u.                *)
Due(f, u) ==
  IF u + cfg.tol < cfg.tstart THEN 0
  ELSE ((u + cfg.tol - cfg.tstart) \div cfg.interval[f]) + 1

Clock ==
  /\ t >= cfg.tstart
  /\ t = cfg.tstart \/ t - cfg.timestep >= cfg.tstart
  /\ pc \in {"his", "map", "advance"} => t <= cfg.tstop /\ it > 0

Scheduled ==
  \A f \in Families : Enabled(cfg, f) =>
    next[f] = cfg.tstart + Due(f, CheckedUpTo(f)) * cfg.interval[f]

LEMMA DueIsNatural ==
  ASSUME cfg \in Configs, NEW f \in Families, Enabled(cfg, f), NEW u \in Int
  PROVE  /\ Due(f, u) \in Nat
         /\ u < cfg.tstart - cfg.tol => Due(f, u) = 0
         /\ \A v \in Int : u <= v => Due(f, u) <= Due(f, v)
<1> DEFINE I == cfg.interval[f]
           d(v) == (v + cfg.tol - cfg.tstart) \div I
<1>1. /\ I \in Nat \ {0} /\ cfg.tol \in Int /\ cfg.tstart \in Int
  BY ConfigTypes
<1>2. \A v \in Int : Due(f, v) = IF v + cfg.tol < cfg.tstart THEN 0 ELSE d(v) + 1
  BY DEF Due
<1>3. \A v \in Int : v + cfg.tol >= cfg.tstart => d(v) \in Nat
  BY <1>1, Quotient
<1>4. ASSUME NEW v \in Int, u <= v, u + cfg.tol >= cfg.tstart PROVE d(u) <= d(v)
  <2>1. d(u) * I <= u + cfg.tol - cfg.tstart /\ d(u) \in Int
    <3>1. u + cfg.tol - cfg.tstart \in Int
      BY <1>1
    <3> QED BY <1>1, <3>1, Quotient
  <2>2. d(u) * I \in Int
    BY <1>1, <2>1
  <2>3. v + cfg.tol - cfg.tstart \in Int /\ d(u) * I <= v + cfg.tol - cfg.tstart
    <3> HIDE DEF d
    <3> QED BY <1>1, <1>4, <2>1, <2>2
  <2>4. \A n \in Int : n * I <= v + cfg.tol - cfg.tstart => n <= d(v)
    BY <1>1, <2>3, QuotientReaches
  <2> HIDE DEF d, I
  <2> QED BY <2>1, <2>3, <2>4
<1> HIDE DEF d
<1> QED
  BY <1>1, <1>2, <1>3, <1>4

(* One check: a record is due exactly when a grid time has come within the *)
(* tolerance since the step before.                                        *)
LEMMA CheckIsRight ==
  ASSUME cfg \in Configs, NEW f \in Families, Enabled(cfg, f),
         t \in Int, t >= cfg.tstart,
         next[f] = cfg.tstart + Due(f, t - cfg.timestep) * cfg.interval[f]
  PROVE  /\ ShouldOutput(f) <=> Due(f, t) > Due(f, t - cfg.timestep)
         /\ ShouldOutput(f) =>
              Advanced(next[f], t + cfg.tol, cfg.interval[f])
                = cfg.tstart + Due(f, t) * cfg.interval[f]
         /\ ~ ShouldOutput(f) => Due(f, t) = Due(f, t - cfg.timestep)
         /\ t = cfg.tstart => ShouldOutput(f)
<1> DEFINE I == cfg.interval[f]
           n == Due(f, t - cfg.timestep)
           x == t + cfg.tol - cfg.tstart
           d == x \div I
           start == cfg.tstart
<1>1. /\ I \in Nat \ {0} /\ cfg.tol \in Nat /\ start \in Int /\ x \in Nat
      /\ cfg.timestep \in Int /\ cfg.timestep > 2 * cfg.tol /\ cfg.timestep > 0
  BY ConfigTypes
<1>2. n \in Nat /\ n <= Due(f, t)
  BY <1>1, DueIsNatural
<1>3. Due(f, t) = d + 1 /\ d \in Int
  BY <1>1 DEF Due
<1>4. next[f] = start + n * I /\ n * I \in Int
  BY <1>1, <1>2
<1>5. ShouldOutput(f) <=> n * I <= x
  <2> HIDE DEF n, I
  <2> QED BY <1>1, <1>4 DEF ShouldOutput
<1>6. n * I <= x <=> n <= d
  BY <1>1, <1>2, QuotientReaches
<1>7. ASSUME ShouldOutput(f)
      PROVE  Advanced(next[f], t + cfg.tol, I) = start + (d + 1) * I
  <2> DEFINE limit == t + cfg.tol
  <2>1. limit \in Int /\ n \in Int /\ next[f] = GridTime(start, n, I)
    BY <1>1, <1>2, <1>4 DEF GridTime
  <2>2. GridTime(start, n, I) <= limit
    <3> HIDE DEF n, I
    <3> QED BY <1>1, <1>4, <1>5, <1>7 DEF GridTime
  <2>3. (limit - start) \div I = d
    <3>1. limit - start = x
      BY <1>1
    <3> QED BY <3>1
  <2> HIDE DEF n, I, limit, d
  <2>4. Advanced(next[f], limit, I) = GridTime(start, d + 1, I)
    <3>1. I \in Nat \ {0} /\ start \in Int
      BY <1>1
    <3>2. Advanced(GridTime(start, n, I), limit, I)
            = GridTime(start, ((limit - start) \div I) + 1, I)
      BY <2>1, <2>2, <3>1, NextMultiple
    <3> QED BY <2>1, <2>3, <3>2
  <2> QED BY <2>4 DEF GridTime, limit
<1>8. t = start => n = 0
  BY <1>1, DueIsNatural
<1> HIDE DEF n, d, I
<1>9. t = start => ShouldOutput(f)
  BY <1>1, <1>5, <1>8
<1> QED
  BY <1>2, <1>3, <1>5, <1>6, <1>7, <1>9 DEF I, n
-----------------------------------------------------------------------------
(* The map records of one solve.                                           *)
Iterations(n) ==
  [i \in 1 .. n |-> [time |-> t + i * Second, ntmapout |-> i, it |-> it + 1]]

LEMMA SolveStep ==
  ASSUME TypeOK, Solve
  PROVE  \/ UNCHANGED records
         \/ /\ ~ Enabled(cfg, "map") /\ cfg.saveEachIter = 1
            /\ \E n \in 0 .. cfg.niter :
                 /\ Iterations(n) \in Seq(RecordType) /\ Len(Iterations(n)) = n
                 /\ \A i \in 1 .. n : Iterations(n)[i].time = t + i * Second
                 /\ records' = [records EXCEPT !["map"] = @ \o Iterations(n)]
<1> SUFFICES ASSUME cfg.saveEachIter = 1 /\ cfg.mapFile
             PROVE  \E n \in 0 .. cfg.niter :
                      /\ Iterations(n) \in Seq(RecordType) /\ Len(Iterations(n)) = n
                      /\ \A i \in 1 .. n : Iterations(n)[i].time = t + i * Second
                      /\ records' = [records EXCEPT !["map"] = @ \o Iterations(n)]
  BY DEF Solve, Enabled
<1>1. PICK n \in IterCounts(cfg.niter) :
        records' = [records EXCEPT !["map"] = @ \o Iterations(n)]
  BY DEF Solve, Iterations
<1>2. cfg \in Configs /\ t \in Int /\ it \in Nat
  BY DEF TypeOK
<1>3. n \in 0 .. cfg.niter /\ n \in Nat /\ Second \in Nat
  BY <1>2, ConfigTypes, ScheduleAssumption DEF IterCounts
<1>4. \A i \in 1 .. n : t + i * Second \in Int /\ i \in Nat \ {0} /\ it + 1 \in Nat \ {0}
  BY <1>2, <1>3
<1>5. /\ \A i \in 1 .. n : Iterations(n)[i] \in RecordType
      /\ \A i \in 1 .. n : Iterations(n)[i].time = t + i * Second
      /\ Iterations(n) = [i \in 1 .. n |-> Iterations(n)[i]]
  BY <1>4 DEF Iterations, RecordType
<1>6. Iterations(n) \in Seq(RecordType) /\ Len(Iterations(n)) = n
  BY <1>3, <1>5
<1> QED
  BY <1>1, <1>3, <1>5, <1>6

(* One check of an output family.                                          *)
LEMMA OutputStep ==
  ASSUME TypeOK, Clock, NEW f \in Families, NEW at, NEW then, Output(f, at, then),
         at \in {"his", "map"}
  PROVE  /\ UNCHANGED <<cfg, t, it>> /\ pc = at /\ pc' = then
         /\ \A g \in Families \ {f} :
              next'[g] = next[g] /\ count'[g] = count[g] /\ records'[g] = records[g]
         /\ next' \in [Families -> Int] /\ count' \in [Families -> Nat]
         /\ records' \in [Families -> Seq(RecordType)]
         /\ \/ /\ ShouldOutput(f)
               /\ next'[f] = Advanced(next[f], t + cfg.tol, cfg.interval[f])
               /\ records'[f] = Append(records[f], Record(t, count[f] + 1))
               /\ Record(t, count[f] + 1) \in RecordType
               /\ Record(t, count[f] + 1).time = t /\ Record(t, count[f] + 1).it = it
            \/ ~ ShouldOutput(f) /\ UNCHANGED <<next, records>>
<1>1. /\ cfg \in Configs /\ t \in Int /\ it \in Nat /\ next \in [Families -> Int]
      /\ count \in [Families -> Nat] /\ records \in [Families -> Seq(RecordType)]
  BY DEF TypeOK
<1>2. /\ UNCHANGED <<cfg, t, it>> /\ pc = at /\ pc' = then
  BY DEF Output
<1>3. CASE ~ ShouldOutput(f)
  BY <1>1, <1>2, <1>3 DEF Output
<1>4. CASE ShouldOutput(f)
  <2> DEFINE r == Record(t, count[f] + 1)
             n == Advanced(next[f], t + cfg.tol, cfg.interval[f])
  <2>1. it > 0
    BY <1>2 DEF Clock
  <2>2. r \in RecordType /\ r.time = t /\ r.it = it
    BY <1>1, <2>1 DEF Record, RecordType
  <2>3. n \in Int
    <3>1. cfg.interval[f] \in Nat \ {0} /\ t + cfg.tol \in Int /\ next[f] \in Int
      BY <1>1, <1>4, ConfigTypes DEF ShouldOutput
    <3> QED BY <3>1 DEF Advanced
  <2>4. /\ count' = [count EXCEPT ![f] = @ + 1]
        /\ next' = [next EXCEPT ![f] = n]
        /\ records' = [records EXCEPT ![f] = Append(@, r)]
    BY <1>4 DEF Output
  <2> HIDE DEF n, r
  <2>5. Append(records[f], r) \in Seq(RecordType)
    BY <1>1, <2>2
  <2> QED BY <1>1, <1>2, <1>4, <2>2, <2>3, <2>4, <2>5 DEF n, r
<1> QED
  BY <1>3, <1>4

Typed == TypeOK /\ Clock

LEMMA TypedInit == Init => Typed
<1> SUFFICES ASSUME Init PROVE Typed
  OBVIOUS
<1>1. cfg \in Configs /\ cfg.tstart \in Int
  BY ConfigTypes DEF Init
<1>2. records \in [Families -> Seq(RecordType)]
  BY DEF Init
<1>3. next \in [Families -> Int] /\ count \in [Families -> Nat]
  BY <1>1 DEF Init
<1> QED
  BY <1>1, <1>2, <1>3 DEF Init, Typed, TypeOK, Clock

LEMMA TypedNext == Typed /\ [Next]_vars => Typed'
<1> SUFFICES ASSUME Typed, [Next]_vars PROVE Typed'
  OBVIOUS
<1>1. /\ cfg \in Configs /\ t \in Int /\ it \in Nat /\ t >= cfg.tstart
      /\ cfg.tstart \in Int /\ cfg.timestep \in Int /\ cfg.timestep > 0
      /\ cfg.tstop \in Int /\ records \in [Families -> Seq(RecordType)]
  BY ConfigTypes DEF Typed, TypeOK, Clock
<1>2. CASE Solve
  <2>1. records' \in [Families -> Seq(RecordType)]
    <3>1. CASE UNCHANGED records
      BY <1>1, <3>1
    <3>2. CASE ~ UNCHANGED records
      <4>1. PICK n \in 0 .. cfg.niter :
              /\ Iterations(n) \in Seq(RecordType)
              /\ records' = [records EXCEPT !["map"] = @ \o Iterations(n)]
        BY <1>2, <3>2, SolveStep DEF Typed
      <4>2. records["map"] \o Iterations(n) \in Seq(RecordType)
        BY <1>1, <4>1, ConcatProperties DEF Families
      <4> QED BY <1>1, <4>1, <4>2
    <3> QED BY <3>1, <3>2
  <2> QED BY <1>1, <1>2, <2>1 DEF Solve, Typed, TypeOK, Clock
<1>3. CASE HisOutput \/ MapOutput
  <2>1. PICK f \in Families, at \in {"his", "map"}, then \in {"map", "advance"} :
          Output(f, at, then)
    BY <1>3 DEF HisOutput, MapOutput, Families
  <2> QED BY <1>1, <2>1, OutputStep DEF Typed, TypeOK, Clock
<1>4. CASE AdvanceTime \/ Finish
  BY <1>1, <1>4 DEF AdvanceTime, Finish, Typed, TypeOK, Clock
<1>5. CASE UNCHANGED vars
  BY <1>5 DEF vars, Typed, TypeOK, Clock
<1> QED
  BY <1>2, <1>3, <1>4, <1>5 DEF Next

LEMMA Typing == Spec => []Typed
BY TypedInit, TypedNext, PTL DEF Spec

(* The state of the time loop stays well-formed: times are numbers, and    *)
(* records have a number and the step they belong to.                      *)
THEOREM TypeCorrect == Spec => []TypeOK
<1>1. Typed => TypeOK
  BY DEF Typed
<1> QED
  BY <1>1, Typing, PTL
-----------------------------------------------------------------------------
(* What a step does to the output families, at the time each has been      *)
(* checked up to.                                                          *)
Unchecked ==
  /\ UNCHANGED <<cfg, next>>
  /\ \A g \in Families :
       /\ CheckedUpTo(g)' = CheckedUpTo(g)
       /\ Enabled(cfg, g) => records'[g] = records[g]

Checked(f) ==
  /\ UNCHANGED <<cfg, t>> /\ t <= cfg.tstop /\ pc \in {"his", "map"}
  /\ CheckedUpTo(f) = t - cfg.timestep /\ CheckedUpTo(f)' = t
  /\ \A g \in Families \ {f} :
       /\ CheckedUpTo(g)' = CheckedUpTo(g) /\ next'[g] = next[g]
       /\ records'[g] = records[g]
  /\ \/ /\ ShouldOutput(f)
        /\ next'[f] = Advanced(next[f], t + cfg.tol, cfg.interval[f])
        /\ \E r \in RecordType :
             r.time = t /\ r.it = it /\ records'[f] = Append(records[f], r)
     \/ ~ ShouldOutput(f) /\ UNCHANGED <<next, records>>

LEMMA StepsCheck ==
  ASSUME Typed, [Next]_vars
  PROVE  Unchecked \/ \E f \in Families : Checked(f)
<1>1. /\ cfg \in Configs /\ t \in Int /\ cfg.timestep \in Int
      /\ records \in [Families -> Seq(RecordType)]
  BY ConfigTypes DEF Typed, TypeOK
<1>2. CASE Solve
  <2>1. \A g \in Families : Enabled(cfg, g) => records'[g] = records[g]
    BY <1>1, <1>2, SolveStep DEF Typed
  <2> QED BY <1>2, <2>1 DEF Solve, Unchecked, CheckedUpTo
<1>3. CASE HisOutput
  <2>1. Checked("his")
    BY <1>3, OutputStep DEF HisOutput, Checked, CheckedUpTo, Families, Typed, Clock
  <2> QED BY <2>1 DEF Families
<1>4. CASE MapOutput
  <2>1. Checked("map")
    BY <1>4, OutputStep DEF MapOutput, Checked, CheckedUpTo, Families, Typed, Clock
  <2> QED BY <2>1 DEF Families
<1>5. CASE AdvanceTime
  <2>1. (t + cfg.timestep) - cfg.timestep = t
    BY <1>1
  <2> QED BY <1>5, <2>1 DEF AdvanceTime, Unchecked, CheckedUpTo
<1>6. CASE Finish
  BY <1>6 DEF Finish, Unchecked, CheckedUpTo
<1>7. CASE UNCHANGED vars
  BY <1>7 DEF vars, Unchecked, CheckedUpTo
<1> QED
  BY <1>2, <1>3, <1>4, <1>5, <1>6, <1>7 DEF Next

LEMMA DueLater ==
  ASSUME cfg' = cfg, NEW g
  PROVE  Due(g, CheckedUpTo(g))' = Due(g, CheckedUpTo(g)')
BY DEF Due

LEMMA ScheduledInit == Init => Scheduled
<1> SUFFICES ASSUME Init, NEW f \in Families, Enabled(cfg, f)
             PROVE  next[f] = cfg.tstart + Due(f, CheckedUpTo(f)) * cfg.interval[f]
  BY DEF Scheduled
<1>1. /\ cfg \in Configs /\ cfg.tstart \in Int /\ cfg.timestep \in Int /\ cfg.tol \in Int
      /\ cfg.timestep > 2 * cfg.tol /\ cfg.tol >= 0 /\ cfg.interval[f] \in Int
  BY ConfigTypes DEF Init
<1>2. CheckedUpTo(f) = cfg.tstart - cfg.timestep /\ next[f] = cfg.tstart
  BY DEF Init, CheckedUpTo
<1>3. Due(f, CheckedUpTo(f)) = 0
  BY <1>1, <1>2, DueIsNatural
<1> QED
  BY <1>1, <1>2, <1>3

LEMMA ScheduledNext == Typed /\ Scheduled /\ [Next]_vars => Scheduled'
<1> SUFFICES ASSUME Typed, Scheduled, [Next]_vars PROVE Scheduled'
  OBVIOUS
<1>1. cfg' = cfg
  BY StepsCheck DEF Unchecked, Checked
<1> SUFFICES ASSUME NEW g \in Families, Enabled(cfg, g)
             PROVE  next'[g] = cfg.tstart + Due(g, CheckedUpTo(g)') * cfg.interval[g]
  BY <1>1, DueLater DEF Scheduled
<1>2. next[g] = cfg.tstart + Due(g, CheckedUpTo(g)) * cfg.interval[g]
  BY DEF Scheduled
<1>3. CASE Unchecked
  BY <1>2, <1>3 DEF Unchecked
<1>4. CASE \E f \in Families : Checked(f)
  <2>1. PICK f \in Families : Checked(f)
    BY <1>4
  <2>2. CASE g # f
    BY <1>2, <2>1, <2>2 DEF Checked
  <2>3. CASE g = f
    <3>1. /\ cfg \in Configs /\ t \in Int /\ t >= cfg.tstart
          /\ next[g] = cfg.tstart + Due(g, t - cfg.timestep) * cfg.interval[g]
          /\ CheckedUpTo(g)' = t
      BY <1>2, <2>1, <2>3 DEF Checked, Typed, TypeOK, Clock
    <3>2. CASE ShouldOutput(g)
      <4>1. next'[g] = Advanced(next[g], t + cfg.tol, cfg.interval[g])
        BY <2>1, <2>3, <3>2 DEF Checked
      <4> QED BY <3>1, <3>2, <4>1, CheckIsRight
    <3>3. CASE ~ ShouldOutput(g)
      <4>1. next' = next
        BY <2>1, <2>3, <3>3 DEF Checked
      <4> QED BY <3>1, <3>3, <4>1, CheckIsRight
    <3> QED BY <3>2, <3>3
  <2> QED BY <2>2, <2>3
<1> QED
  BY <1>3, <1>4, StepsCheck

LEMMA Scheduling == Spec => [](Typed /\ Scheduled)
BY TypedInit, TypedNext, ScheduledInit, ScheduledNext, PTL DEF Spec
-----------------------------------------------------------------------------
(* Grid time k is among those counted when time u has come near it.        *)
LEMMA DueMeaning ==
  ASSUME cfg \in Configs, NEW f \in Families, Enabled(cfg, f), NEW u \in Int, NEW k \in Nat
  PROVE  k < Due(f, u) <=> cfg.tstart + k * cfg.interval[f] - cfg.tol <= u
<1> DEFINE I == cfg.interval[f]
           x == u + cfg.tol - cfg.tstart
           d == x \div I
<1>1. /\ I \in Nat \ {0} /\ cfg.tol \in Nat /\ cfg.tstart \in Int /\ x \in Int
  BY ConfigTypes
<1>2. k * I \in Nat /\ d \in Int
  BY <1>1
<1>3. k * I <= x <=> k <= d
  <2> HIDE DEF I, x
  <2>1. k \in Int /\ x \in Int /\ I \in Nat \ {0}
    BY <1>1
  <2> QED BY <2>1, QuotientReaches
<1>4. Due(f, u) = IF u + cfg.tol < cfg.tstart THEN 0 ELSE d + 1
  BY DEF Due
<1> HIDE DEF d
<1>5. cfg.tstart + k * I - cfg.tol <= u <=> k * I <= x
  <2> DEFINE y == k * I
  <2>1. y \in Nat
    BY <1>2
  <2> HIDE DEF y
  <2>2. cfg.tstart + y - cfg.tol <= u <=> y <= x
    BY <1>1, <2>1
  <2> QED BY <2>2 DEF y
<1> HIDE DEF I
<1>6. CASE u + cfg.tol < cfg.tstart
  <2>1. ~ (k * I <= x)
    BY <1>1, <1>2, <1>6
  <2> QED BY <1>4, <1>5, <1>6, <2>1 DEF I
<1>7. CASE ~ (u + cfg.tol < cfg.tstart)
  <2>1. k < Due(f, u) <=> k <= d
    BY <1>2, <1>4, <1>7
  <2> QED BY <1>3, <1>5, <2>1 DEF I
<1> QED
  BY <1>6, <1>7

(* Grid time k of family f was served when it was reached.                 *)
DueTime(f, k) == cfg.tstart + k * cfg.interval[f] - cfg.tol
ServedIn(f, k, s) ==
  \E i \in DOMAIN s : DueTime(f, k) <= s[i].time /\ s[i].time < DueTime(f, k) + cfg.timestep

OnTime ==
  \A f \in Families : Enabled(cfg, f) =>
    \A k \in 0 .. (cfg.tstop - cfg.tstart) :
      DueTime(f, k) <= CheckedUpTo(f) /\ cfg.tstart <= CheckedUpTo(f) =>
        ServedIn(f, k, records[f])

LEMMA OnTimeInit == Init => OnTime
<1> SUFFICES ASSUME Init, NEW f \in Families, cfg.tstart <= CheckedUpTo(f) PROVE FALSE
  BY DEF OnTime
<1> QED
  BY ConfigTypes DEF Init, CheckedUpTo

LEMMA OnTimeNext == Typed /\ Scheduled /\ OnTime /\ [Next]_vars => OnTime'
<1> SUFFICES ASSUME Typed, Scheduled, OnTime, [Next]_vars PROVE OnTime'
  OBVIOUS
<1>1. cfg' = cfg
  BY StepsCheck DEF Unchecked, Checked
<1> SUFFICES ASSUME NEW g \in Families, Enabled(cfg, g),
                    NEW k \in 0 .. (cfg.tstop - cfg.tstart),
                    DueTime(g, k) <= CheckedUpTo(g)', cfg.tstart <= CheckedUpTo(g)'
             PROVE  ServedIn(g, k, records'[g])
  BY <1>1 DEF OnTime, ServedIn, DueTime
<1>2. DueTime(g, k) <= CheckedUpTo(g) /\ cfg.tstart <= CheckedUpTo(g) =>
        ServedIn(g, k, records[g])
  BY DEF OnTime
<1>3. CASE Unchecked
  BY <1>2, <1>3 DEF Unchecked
<1>4. CASE \E f \in Families : Checked(f)
  <2>1. PICK f \in Families : Checked(f)
    BY <1>4
  <2>2. CASE g # f
    BY <1>2, <2>1, <2>2 DEF Checked
  <2>3. CASE g = f
    <3>1. /\ cfg \in Configs /\ t \in Int /\ records[g] \in Seq(RecordType)
          /\ CheckedUpTo(g) = t - cfg.timestep /\ CheckedUpTo(g)' = t
          /\ next[g] = cfg.tstart + Due(g, t - cfg.timestep) * cfg.interval[g]
          /\ t >= cfg.tstart /\ (t = cfg.tstart \/ t - cfg.timestep >= cfg.tstart)
      BY <2>1, <2>3 DEF Checked, Typed, TypeOK, Clock, Scheduled
    <3>2. /\ cfg.tstart \in Int /\ cfg.timestep \in Int /\ cfg.timestep > 0
          /\ cfg.tol \in Nat /\ cfg.timestep > 2 * cfg.tol /\ k \in Nat
          /\ DueTime(g, k) \in Int
      <4>1. cfg.interval[g] \in Int /\ cfg.tstart \in Int /\ cfg.tol \in Int /\ k \in Nat
        BY <3>1, ConfigTypes
      <4>2. k * cfg.interval[g] \in Int
        BY <4>1
      <4>3. DueTime(g, k) \in Int
        BY <4>1, <4>2 DEF DueTime
      <4> QED BY <3>1, <4>1, <4>3, ConfigTypes
    <3>3. CASE DueTime(g, k) <= t - cfg.timestep
      <4>1. k < Due(g, t - cfg.timestep)
        BY <3>1, <3>2, <3>3, DueMeaning DEF DueTime
      <4>2. t # cfg.tstart
        <5>1. t - cfg.timestep \in Int
          BY <3>1, <3>2
        <5>2. t = cfg.tstart => t - cfg.timestep < cfg.tstart - cfg.tol
          BY <3>1, <3>2
        <5>3. t = cfg.tstart => Due(g, t - cfg.timestep) = 0
          BY <3>1, <5>1, <5>2, DueIsNatural
        <5>4. ~ (k < 0)
          BY <3>2
        <5> QED BY <4>1, <5>3, <5>4
      <4>3. ServedIn(g, k, records[g])
        BY <1>2, <3>1, <3>3, <4>2
      <4>4. CASE ShouldOutput(g)
        <5>1. PICK r \in RecordType : records'[g] = Append(records[g], r)
          BY <2>1, <2>3, <4>4 DEF Checked
        <5>2. /\ DOMAIN records[g] \subseteq DOMAIN records'[g]
              /\ \A i \in DOMAIN records[g] : records'[g][i] = records[g][i]
          BY <3>1, <5>1
        <5> QED BY <4>3, <5>2 DEF ServedIn
      <4>5. CASE ~ ShouldOutput(g)
        BY <2>1, <2>3, <4>3, <4>5 DEF Checked
      <4> QED BY <4>4, <4>5
    <3>4. CASE DueTime(g, k) > t - cfg.timestep
      <4>1. k < Due(g, t)
        BY <3>1, <3>2, DueMeaning DEF DueTime
      <4>2. ~ (k < Due(g, t - cfg.timestep))
        BY <3>1, <3>2, <3>4, DueMeaning DEF DueTime
      <4>3. Due(g, t) \in Nat /\ Due(g, t - cfg.timestep) \in Nat
        <5>1. t - cfg.timestep \in Int /\ t \in Int
          BY <3>1, <3>2
        <5> QED BY <3>1, <5>1, DueIsNatural
      <4>4. ShouldOutput(g)
        BY <3>1, <3>2, <4>1, <4>2, <4>3, CheckIsRight
      <4>5. PICK r \in RecordType : r.time = t /\ records'[g] = Append(records[g], r)
        BY <2>1, <2>3, <4>4 DEF Checked
      <4>6. /\ Len(records[g]) + 1 \in DOMAIN records'[g]
            /\ records'[g][Len(records[g]) + 1].time = t
        BY <3>1, <4>5
      <4>7. DueTime(g, k) <= t /\ t < DueTime(g, k) + cfg.timestep
        BY <3>1, <3>2, <3>4
      <4> QED BY <4>6, <4>7 DEF ServedIn
    <3> QED BY <3>1, <3>2, <3>3, <3>4
  <2> QED BY <2>2, <2>3
<1> QED
  BY <1>3, <1>4, StepsCheck

(* No output is late: a grid time is served by the first step that comes   *)
(* within the tolerance of it, whatever the time step and the interval.    *)
THEOREM OutputsAreOnTime == Spec => []NoOutputIsLate
<1>1. OnTime => NoOutputIsLate
  BY DEF OnTime, NoOutputIsLate, ServedIn, DueTime
<1> QED
  BY <1>1, OnTimeInit, OnTimeNext, Scheduling, PTL DEF Spec
-----------------------------------------------------------------------------
(* The map records up to now lie before the present step, and once the     *)
(* step has written its own they lie before the next one.                  *)
Apart == cfg.niter * Second < cfg.timestep
Strictly(s) == \A i, j \in DOMAIN s : i < j => s[i].time < s[j].time
Before(s, u) == \A i \in DOMAIN s : s[i].time < u

StepUnrecorded ==
  \/ pc \in {"solve", "write"}
  \/ Enabled(cfg, "map") /\ pc # "advance"

MapOrdered ==
  Apart =>
    /\ Strictly(records["map"])
    /\ Before(records["map"], t + cfg.timestep)
    /\ StepUnrecorded => Before(records["map"], t)

LEMMA AppendOrdered ==
  ASSUME NEW s \in Seq(RecordType), NEW r \in RecordType, Strictly(s), Before(s, r.time)
  PROVE  Strictly(Append(s, r)) /\ \A u \in Int : r.time < u => Before(Append(s, r), u)
<1>1. /\ DOMAIN Append(s, r) = 1 .. Len(s) + 1 /\ DOMAIN s = 1 .. Len(s) /\ Len(s) \in Nat
      /\ Append(s, r)[Len(s) + 1] = r
      /\ \A i \in 1 .. Len(s) : Append(s, r)[i] = s[i] /\ s[i].time \in Int
  <2>1. \A q \in RecordType : q.time \in Int
    BY DEF RecordType
  <2> QED BY <2>1
<1>2. r.time \in Int
  BY DEF RecordType
<1>3. ASSUME NEW i \in DOMAIN Append(s, r), NEW j \in DOMAIN Append(s, r), i < j
      PROVE  Append(s, r)[i].time < Append(s, r)[j].time
  <2>1. CASE j \in 1 .. Len(s)
    BY <1>1, <1>3, <2>1 DEF Strictly
  <2>2. CASE j = Len(s) + 1
    BY <1>1, <1>3, <2>2 DEF Before
  <2> QED BY <1>1, <1>3, <2>1, <2>2
<1>4. ASSUME NEW u \in Int, r.time < u, NEW i \in DOMAIN Append(s, r)
      PROVE  Append(s, r)[i].time < u
  <2>1. CASE i \in 1 .. Len(s)
    BY <1>1, <1>2, <1>4, <2>1 DEF Before
  <2>2. CASE i = Len(s) + 1
    BY <1>1, <1>4, <2>2
  <2> QED BY <1>1, <1>4, <2>1, <2>2
<1> QED
  BY <1>3, <1>4 DEF Strictly, Before

LEMMA ConcatOrdered ==
  ASSUME NEW s \in Seq(RecordType), NEW n \in Nat, NEW z \in Seq(RecordType),
         Len(z) = n, NEW u \in Int, NEW step \in Int, n * Second < step,
         \A i \in 1 .. n : z[i].time = u + i * Second,
         Strictly(s), Before(s, u)
  PROVE  Strictly(s \o z) /\ Before(s \o z, u + step)
<1>1. /\ DOMAIN (s \o z) = 1 .. Len(s) + n /\ Len(s) \in Nat /\ DOMAIN s = 1 .. Len(s)
      /\ \A i \in 1 .. Len(s) : (s \o z)[i] = s[i] /\ s[i].time \in Int
      /\ \A i \in Len(s) + 1 .. Len(s) + n : (s \o z)[i] = z[i - Len(s)]
  <2>1. \A q \in RecordType : q.time \in Int
    BY DEF RecordType
  <2>2. \A i \in 1 .. Len(s) : s[i].time \in Int
    BY <2>1
  <2>3. /\ s \o z \in Seq(RecordType) /\ Len(s \o z) = Len(s) + n /\ Len(s) \in Nat
        /\ DOMAIN s = 1 .. Len(s)
    <3>1. Len(s) \in Nat /\ DOMAIN s = 1 .. Len(s)
      OBVIOUS
    <3>2. s \o z \in Seq(RecordType) /\ Len(s \o z) = Len(s) + n
      BY ConcatProperties
    <3> QED BY <3>1, <3>2
  <2>4. \A i \in 1 .. Len(s) + n :
          (s \o z)[i] = IF i <= Len(s) THEN s[i] ELSE z[i - Len(s)]
    BY ConcatProperties
  <2>5. \A i \in Len(s) + 1 .. Len(s) + n : i \in 1 .. Len(s) + n /\ ~ (i <= Len(s))
    BY <2>3
  <2>6. \A i \in 1 .. Len(s) : i \in 1 .. Len(s) + n /\ i <= Len(s)
    BY <2>3
  <2>7. DOMAIN (s \o z) = 1 .. Len(s) + n
    BY <2>3
  <2> QED BY <2>2, <2>3, <2>4, <2>5, <2>6, <2>7
<1>2. Second \in Nat \ {0}
  BY ScheduleAssumption
<1>3. \A i, j \in 1 .. n : i < j => i * Second < j * Second
  <2> SUFFICES ASSUME NEW i \in 1 .. n, NEW j \in 1 .. n, i < j
               PROVE  i * Second < j * Second
    OBVIOUS
  <2>1. (j - i) * Second >= Second /\ j * Second = i * Second + (j - i) * Second
    <3>1. j - i \in Nat \ {0}
      OBVIOUS
    <3>2. j * Second = i * Second + (j - i) * Second
      BY <1>2
    <3> DEFINE k == j - i
    <3> HIDE DEF k
    <3>3. k \in Nat \ {0} => k * Second >= Second
      BY <1>2
    <3> QED BY <3>1, <3>2, <3>3 DEF k
  <2>2. i * Second \in Int /\ j * Second \in Int /\ (j - i) * Second \in Int
    BY <1>2
  <2> QED BY <1>2, <2>1, <2>2
<1>4. \A i \in 1 .. n : i * Second \in Int /\ i * Second > 0 /\ i * Second <= n * Second
  <2> SUFFICES ASSUME NEW i \in 1 .. n
               PROVE  i * Second \in Int /\ i * Second > 0 /\ i * Second <= n * Second
    OBVIOUS
  <2>1. i * Second \in Int /\ n * Second \in Int /\ i * Second > 0
    BY <1>2
  <2>2. i = n \/ i < n
    OBVIOUS
  <2>3. n \in 1 .. n
    OBVIOUS
  <2> QED BY <1>3, <2>1, <2>2, <2>3
<1> DEFINE shift(i) == i * Second
<1>5. /\ \A i, j \in 1 .. n : i < j => shift(i) < shift(j)
      /\ \A i \in 1 .. n : shift(i) \in Int /\ shift(i) > 0 /\ shift(i) < step
      /\ \A i \in 1 .. n : z[i].time = u + shift(i)
  <2>1. n * Second \in Int
    BY <1>2
  <2> QED BY <1>3, <1>4, <2>1
<1> HIDE DEF shift
<1>6. \A i \in Len(s) + 1 .. Len(s) + n :
        /\ i - Len(s) \in 1 .. n
        /\ (s \o z)[i].time = u + shift(i - Len(s))
  <2> SUFFICES ASSUME NEW i \in Len(s) + 1 .. Len(s) + n
               PROVE  i - Len(s) \in 1 .. n /\ (s \o z)[i].time = u + shift(i - Len(s))
    OBVIOUS
  <2>1. i - Len(s) \in 1 .. n
    BY <1>1
  <2> QED BY <1>1, <1>5, <2>1
<1>7. ASSUME NEW i \in DOMAIN (s \o z), NEW j \in DOMAIN (s \o z), i < j
      PROVE  (s \o z)[i].time < (s \o z)[j].time
  <2>1. CASE j \in 1 .. Len(s)
    BY <1>1, <1>7, <2>1 DEF Strictly
  <2>2. CASE i \in 1 .. Len(s) /\ j \in Len(s) + 1 .. Len(s) + n
    <3>1. (s \o z)[i].time < u /\ (s \o z)[i].time \in Int
      BY <1>1, <2>2 DEF Before
    <3>2. (s \o z)[j].time = u + shift(j - Len(s)) /\ shift(j - Len(s)) \in Int
          /\ shift(j - Len(s)) > 0
      BY <1>5, <1>6, <2>2
    <3> QED BY <3>1, <3>2
  <2>3. CASE i \in Len(s) + 1 .. Len(s) + n /\ j \in Len(s) + 1 .. Len(s) + n
    <3>1. i - Len(s) < j - Len(s)
      BY <1>1, <1>7, <2>3
    <3>2. shift(i - Len(s)) < shift(j - Len(s))
          /\ shift(i - Len(s)) \in Int /\ shift(j - Len(s)) \in Int
      BY <1>5, <1>6, <2>3, <3>1
    <3>3. /\ (s \o z)[i].time = u + shift(i - Len(s))
          /\ (s \o z)[j].time = u + shift(j - Len(s))
      BY <1>6, <2>3
    <3> QED BY <3>2, <3>3
  <2> QED BY <1>1, <1>7, <2>1, <2>2, <2>3
<1>8. ASSUME NEW i \in DOMAIN (s \o z)
      PROVE  (s \o z)[i].time < u + step
  <2>1. CASE i \in 1 .. Len(s)
    <3>1. n * Second \in Nat
      BY <1>2
    <3>2. step > 0
      BY <3>1
    <3> QED BY <1>1, <2>1, <3>2 DEF Before
  <2>2. CASE i \in Len(s) + 1 .. Len(s) + n
    <3>1. (s \o z)[i].time = u + shift(i - Len(s)) /\ shift(i - Len(s)) \in Int
          /\ shift(i - Len(s)) < step
      BY <1>5, <1>6, <2>2
    <3> QED BY <3>1
  <2> QED BY <1>1, <2>1, <2>2
<1> QED
  BY <1>7, <1>8 DEF Strictly, Before

LEMMA MapOrderedInit == Init => MapOrdered
<1> SUFFICES ASSUME Init PROVE DOMAIN records["map"] = {}
  BY DEF MapOrdered, Strictly, Before
<1> QED
  BY DEF Init, Families

LEMMA MapOrderedNext == Typed /\ MapOrdered /\ [Next]_vars => MapOrdered'
<1> SUFFICES ASSUME Typed, MapOrdered, [Next]_vars PROVE MapOrdered'
  OBVIOUS
<1>0. cfg' = cfg
  BY StepsCheck DEF Unchecked, Checked
<1> SUFFICES ASSUME Apart PROVE MapOrdered'
  BY <1>0 DEF MapOrdered, Apart
<1> DEFINE s == records["map"]
<1>1. /\ cfg \in Configs /\ t \in Int /\ cfg.timestep \in Int /\ cfg.timestep > 0
      /\ t >= cfg.tstart /\ s \in Seq(RecordType) /\ records \in [Families -> Seq(RecordType)]
      /\ "map" \in Families /\ "his" \in Families /\ "map" # "his"
  BY ConfigTypes DEF Typed, TypeOK, Clock, Families
<1>2. /\ Strictly(s) /\ Before(s, t + cfg.timestep)
      /\ StepUnrecorded => Before(s, t)
  BY DEF MapOrdered
<1>3. CASE Solve
  <2>1. /\ UNCHANGED <<cfg, t>> /\ pc = "solve" /\ pc' = "his" /\ Before(s, t)
    BY <1>2, <1>3 DEF Solve, StepUnrecorded
  <2>2. CASE UNCHANGED records
    BY <1>2, <2>1, <2>2 DEF MapOrdered, StepUnrecorded
  <2>3. CASE ~ UNCHANGED records
    <3>1. PICK n \in 0 .. cfg.niter :
            /\ ~ Enabled(cfg, "map")
            /\ Iterations(n) \in Seq(RecordType) /\ Len(Iterations(n)) = n
            /\ \A i \in 1 .. n : Iterations(n)[i].time = t + i * Second
            /\ records' = [records EXCEPT !["map"] = @ \o Iterations(n)]
      BY <1>3, <2>3, SolveStep DEF Typed
    <3>2. n \in Nat /\ n * Second < cfg.timestep
      <4>1. n \in Nat /\ cfg.niter \in Nat /\ n <= cfg.niter /\ Second \in Nat
        BY <1>1, <3>1, ConfigTypes, ScheduleAssumption
      <4>2. n * Second <= cfg.niter * Second
        BY <4>1
      <4>3. n * Second \in Int /\ cfg.niter * Second \in Int
        BY <4>1
      <4> QED BY <1>1, <4>1, <4>2, <4>3 DEF Apart
    <3>3. records'["map"] = s \o Iterations(n)
      BY <1>1, <3>1
    <3>4. Strictly(s \o Iterations(n)) /\ Before(s \o Iterations(n), t + cfg.timestep)
      BY <1>1, <1>2, <2>1, <3>1, <3>2, ConcatOrdered
    <3> QED BY <2>1, <3>1, <3>3, <3>4 DEF MapOrdered, StepUnrecorded
  <2> QED BY <2>2, <2>3
<1>4. CASE HisOutput
  <2>1. /\ UNCHANGED <<cfg, t>> /\ pc = "his" /\ pc' = "map" /\ records'["map"] = s
    BY <1>1, <1>4, OutputStep DEF HisOutput, Typed
  <2> QED BY <1>2, <2>1 DEF MapOrdered, StepUnrecorded
<1>5. CASE MapOutput
  <2>1. UNCHANGED <<cfg, t>> /\ pc = "map" /\ pc' = "advance"
    BY <1>1, <1>5, OutputStep DEF MapOutput, Typed
  <2>2. CASE ShouldOutput("map")
    <3>1. Before(s, t)
      BY <1>2, <2>1, <2>2 DEF ShouldOutput, StepUnrecorded
    <3>2. PICK r \in RecordType : r.time = t /\ records'["map"] = Append(s, r)
      BY <1>1, <1>5, <2>2, OutputStep DEF MapOutput, Typed
    <3>3. t + cfg.timestep \in Int /\ t < t + cfg.timestep
      BY <1>1
    <3>4. Strictly(Append(s, r)) /\ Before(Append(s, r), t + cfg.timestep)
      BY <1>1, <1>2, <3>1, <3>2, <3>3, AppendOrdered
    <3> QED BY <2>1, <3>2, <3>4 DEF MapOrdered, StepUnrecorded
  <2>3. CASE ~ ShouldOutput("map")
    <3>1. records' = records
      BY <1>1, <1>5, <2>3, OutputStep DEF MapOutput, Typed
    <3> QED BY <1>2, <2>1, <3>1 DEF MapOrdered, StepUnrecorded
  <2> QED BY <2>2, <2>3
<1>6. CASE AdvanceTime
  <2>1. /\ UNCHANGED <<cfg, records>> /\ pc' = "solve" /\ t' = t + cfg.timestep
    BY <1>6 DEF AdvanceTime
  <2>2. Before(s, t') /\ Before(s, t' + cfg.timestep)
    <3>1. \A i \in DOMAIN s : s[i].time \in Int
      <4>1. \A q \in RecordType : q.time \in Int
        BY DEF RecordType
      <4> QED BY <1>1, <4>1
    <3>2. t' + cfg.timestep > t' /\ t' \in Int /\ t' + cfg.timestep \in Int
      BY <1>1, <2>1
    <3> QED BY <1>2, <2>1, <3>1, <3>2 DEF Before
  <2> QED BY <1>2, <2>1, <2>2 DEF MapOrdered, StepUnrecorded
<1>7. CASE Finish
  BY <1>2, <1>7 DEF Finish, MapOrdered, StepUnrecorded
<1>8. CASE UNCHANGED vars
  BY <1>2, <1>8 DEF vars, MapOrdered, StepUnrecorded
<1> QED
  BY <1>3, <1>4, <1>5, <1>6, <1>7, <1>8 DEF Next

(* The time axis of the map file increases: neither the iterations of a    *)
(* step nor the steps themselves ever put a record before an older one.    *)
THEOREM TimeAxisIncreases == Spec => []MapTimesIncrease
<1>1. MapOrdered => MapTimesIncrease
  BY DEF MapOrdered, Apart, Strictly, MapTimesIncrease
<1> QED
  BY <1>1, MapOrderedInit, MapOrderedNext, Typing, PTL DEF Spec
-----------------------------------------------------------------------------
(* The time of step s + 1, and the step a time belongs to.                 *)
StepTime(s) == cfg.tstart + s * cfg.timestep
Paced == t = StepTime(IF pc \in {"solve", "write"} THEN it ELSE it - 1)

LEMMA PacedInit == Init => Paced
<1> SUFFICES ASSUME Init PROVE Paced
  OBVIOUS
<1>1. cfg.tstart \in Int /\ cfg.timestep \in Int
  BY ConfigTypes DEF Init
<1>2. StepTime(0) = cfg.tstart
  BY <1>1 DEF StepTime
<1> QED BY <1>2 DEF Init, Paced

LEMMA PacedNext == Typed /\ Paced /\ [Next]_vars => Paced'
<1> SUFFICES ASSUME Typed, Paced, [Next]_vars PROVE Paced'
  OBVIOUS
<1>1. /\ cfg.tstart \in Int /\ cfg.timestep \in Int /\ it \in Nat /\ t \in Int
      /\ cfg \in Configs
  BY ConfigTypes DEF Typed, TypeOK
<1>2. CASE Solve
  <2>1. (it + 1) - 1 = it
    BY <1>1
  <2> QED BY <1>2, <2>1 DEF Solve, Paced, StepTime
<1>3. CASE HisOutput \/ MapOutput
  BY <1>3 DEF HisOutput, MapOutput, Output, Paced, StepTime
<1>4. CASE AdvanceTime
  <2>1. t = StepTime(it - 1) /\ t' = t + cfg.timestep /\ UNCHANGED <<cfg, it>> /\ pc' = "solve"
    BY <1>4 DEF AdvanceTime, Paced
  <2>2. (it - 1) * cfg.timestep = it * cfg.timestep - cfg.timestep
        /\ it * cfg.timestep \in Int
    BY <1>1
  <2>3. StepTime(it - 1) + cfg.timestep = StepTime(it)
    BY <1>1, <2>2 DEF StepTime
  <2> QED BY <2>1, <2>3 DEF Paced, StepTime
<1>5. CASE Finish
  BY <1>5 DEF Finish, Paced, StepTime
<1>6. CASE UNCHANGED vars
  BY <1>6 DEF vars, Paced, StepTime
<1> QED
  BY <1>2, <1>3, <1>4, <1>5, <1>6 DEF Next

(* The error of grid time k is within the tolerance.                       *)
Early(f, k) == k * Magnitude(Delta(f)) <= cfg.tol

LEMMA StepNumbers ==
  ASSUME cfg \in Configs, NEW f \in Families, Enabled(cfg, f)
  PROVE  /\ Steps(f) \in Int /\ Delta(f) \in Int /\ Magnitude(Delta(f)) \in Nat
         /\ cfg.interval[f] = Steps(f) * cfg.timestep + Delta(f)
<1> DEFINE I == cfg.interval[f]
<1>1. I \in Int /\ cfg.timestep \in Nat \ {0}
  BY ConfigTypes
<1>2. 2 * I + cfg.timestep \in Int /\ 2 * cfg.timestep \in Nat \ {0}
  BY <1>1
<1>3. Steps(f) \in Int
  BY <1>2, Quotient DEF Steps
<1>4. Steps(f) * cfg.timestep \in Int
  BY <1>1, <1>3
<1>5. Delta(f) \in Int /\ I = Steps(f) * cfg.timestep + Delta(f)
  BY <1>1, <1>4 DEF Delta
<1>6. Magnitude(Delta(f)) \in Nat
  BY <1>5 DEF Magnitude
<1> QED BY <1>3, <1>5, <1>6

LEMMA Distribute ==
  ASSUME NEW a \in Int, NEW b \in Int
  PROVE  /\ a * b \in Int
         /\ (a + 1) * b = a * b + b
         /\ (a - 1) * b = a * b - b
OBVIOUS

LEMMA EarlyBefore ==
  ASSUME cfg \in Configs, NEW f \in Families, Enabled(cfg, f), NEW k \in Nat, Early(f, k + 1)
  PROVE  Early(f, k)
<1> DEFINE m == Magnitude(Delta(f))
<1>1. m \in Nat /\ cfg.tol \in Nat
  BY StepNumbers, ConfigTypes
<1> HIDE DEF m
<1>2. (k + 1) * m = k * m + m /\ k * m \in Nat
  BY <1>1
<1>3. (k + 1) * m <= cfg.tol
  BY DEF Early, m
<1>4. k * m <= cfg.tol
  BY <1>1, <1>2, <1>3
<1> QED BY <1>4 DEF Early, m

(* A grid time with an error that small is due from a step that depends on *)
(* the number of steps in an interval alone.                               *)
LEMMA DueOnItsStep ==
  ASSUME cfg \in Configs, NEW f \in Families, Enabled(cfg, f), NEW k \in Nat,
         Early(f, k), NEW s \in Int
  PROVE  k < Due(f, StepTime(s)) <=> k * Steps(f) <= s
<1> DEFINE I == cfg.interval[f]
           ts == cfg.timestep
           a == k * Steps(f)
           e == k * Delta(f)
           m == Magnitude(Delta(f))
<1>1. /\ ts \in Int /\ cfg.tol \in Nat /\ ts > 2 * cfg.tol /\ cfg.tstart \in Int
      /\ Steps(f) \in Int /\ Delta(f) \in Int /\ m \in Nat
      /\ I = Steps(f) * ts + Delta(f)
  BY StepNumbers, ConfigTypes
<1>2. k * m <= cfg.tol
  BY DEF Early
<1>3. -cfg.tol <= e /\ e <= cfg.tol /\ e \in Int
  <2>1. CASE Delta(f) >= 0
    <3>1. m = Delta(f)
      BY <1>1, <2>1 DEF Magnitude
    <3>2. e = k * m /\ e >= 0
      BY <1>1, <2>1, <3>1
    <3> QED BY <1>1, <1>2, <3>2
  <2>2. CASE Delta(f) < 0
    <3>1. m = - Delta(f)
      BY <1>1, <2>2 DEF Magnitude
    <3>2. e = -(k * m) /\ k * m >= 0 /\ k * m \in Int
      BY <1>1, <3>1
    <3> QED BY <1>1, <1>2, <3>2
  <2> QED BY <1>1, <2>1, <2>2
<1>4. k * I = a * ts + e /\ a \in Int
  <2> DEFINE S == Steps(f)
             D == Delta(f)
  <2> HIDE DEF S, D, I, ts
  <2>1. S \in Int /\ D \in Int /\ ts \in Int /\ I = S * ts + D
    BY <1>1 DEF S, D
  <2>2. k * (S * ts + D) = (k * S) * ts + k * D /\ k * S \in Int
    BY <2>1
  <2> QED BY <2>1, <2>2 DEF S, D
<1> HIDE DEF a, e, m, I
<1>5. a * ts \in Int /\ s * ts \in Int
  BY <1>1, <1>4
<1>6. k < Due(f, StepTime(s)) <=> a * ts + (e - cfg.tol) <= s * ts
  <2>1. StepTime(s) \in Int
    BY <1>1, <1>5 DEF StepTime
  <2>2. k < Due(f, StepTime(s)) <=> cfg.tstart + (k * I - cfg.tol) <= StepTime(s)
    BY <2>1, DueMeaning DEF I
  <2>3. cfg.tstart + (k * I - cfg.tol) <= StepTime(s) <=> a * ts + (e - cfg.tol) <= s * ts
    <3> DEFINE p == a * ts
               q == s * ts
               w == k * I
    <3>1. p \in Int /\ q \in Int /\ w = p + e /\ StepTime(s) = cfg.tstart + q
      BY <1>4, <1>5 DEF StepTime
    <3> HIDE DEF p, q, w
    <3>2. cfg.tstart + (w - cfg.tol) <= StepTime(s) <=> p + (e - cfg.tol) <= q
      BY <1>1, <1>3, <3>1
    <3> QED BY <3>2 DEF p, q, w
  <2> QED BY <2>2, <2>3
<1>7. CASE a <= s
  <2>1. a * ts <= s * ts
    BY <1>1, <1>4, <1>7
  <2>2. a * ts + (e - cfg.tol) <= s * ts
    BY <1>1, <1>3, <1>5, <2>1
  <2> QED BY <1>6, <1>7, <2>2 DEF a
<1>8. CASE ~ (a <= s)
  <2>1. s * ts <= a * ts - ts
    <3>1. s <= a - 1
      BY <1>4, <1>8
    <3>2. s * ts <= (a - 1) * ts
      BY <1>1, <1>4, <3>1
    <3>3. (a - 1) * ts = a * ts - ts
      BY <1>1, <1>4, Distribute
    <3> QED BY <3>2, <3>3
  <2>2. ~ (a * ts + (e - cfg.tol) <= s * ts)
    BY <1>1, <1>3, <1>5, <2>1
  <2> QED BY <1>6, <1>8, <2>2 DEF a
<1> QED BY <1>7, <1>8

(* While the errors are within the tolerance there was one record for each *)
(* grid time that was due.                                                 *)
Absorbed ==
  \A f \in Families : Enabled(cfg, f) /\ Steps(f) > 0 =>
    /\ \A n \in DOMAIN records[f] :
         Early(f, n - 1) => records[f][n].it = (n - 1) * Steps(f) + 1
    /\ Early(f, Len(records[f])) => Due(f, CheckedUpTo(f)) = Len(records[f])

LEMMA AbsorbedInit == Init => Absorbed
<1> SUFFICES ASSUME Init, NEW f \in Families, Enabled(cfg, f)
             PROVE  /\ DOMAIN records[f] = {} /\ Len(records[f]) = 0
                    /\ Due(f, CheckedUpTo(f)) = 0
  BY DEF Absorbed
<1>1. /\ cfg \in Configs /\ cfg.tstart \in Int /\ cfg.timestep \in Int /\ cfg.tol \in Int
      /\ cfg.timestep > 2 * cfg.tol /\ cfg.tol >= 0
  BY ConfigTypes DEF Init
<1>2. CheckedUpTo(f) = cfg.tstart - cfg.timestep
  BY DEF Init, CheckedUpTo
<1>3. Due(f, CheckedUpTo(f)) = 0
  BY <1>1, <1>2, DueIsNatural
<1> QED BY <1>3 DEF Init

LEMMA AbsorbedNext ==
  Typed /\ Scheduled /\ Paced /\ Absorbed /\ [Next]_vars => Absorbed'
<1> SUFFICES ASSUME Typed, Scheduled, Paced, Absorbed, [Next]_vars PROVE Absorbed'
  OBVIOUS
<1>1. cfg' = cfg
  BY StepsCheck DEF Unchecked, Checked
<1> SUFFICES ASSUME NEW g \in Families, Enabled(cfg, g), Steps(g) > 0
             PROVE  /\ \A n \in DOMAIN records'[g] :
                         Early(g, n - 1) => records'[g][n].it = (n - 1) * Steps(g) + 1
                    /\ Early(g, Len(records'[g])) =>
                         Due(g, CheckedUpTo(g)') = Len(records'[g])
  BY <1>1 DEF Absorbed, Early, Steps, Delta, Due
<1>2. /\ \A n \in DOMAIN records[g] :
           Early(g, n - 1) => records[g][n].it = (n - 1) * Steps(g) + 1
      /\ Early(g, Len(records[g])) => Due(g, CheckedUpTo(g)) = Len(records[g])
  BY DEF Absorbed
<1>3. CASE Unchecked
  BY <1>2, <1>3 DEF Unchecked
<1>4. CASE \E f \in Families : Checked(f)
  <2>1. PICK f \in Families : Checked(f)
    BY <1>4
  <2>2. CASE g # f
    BY <1>2, <2>1, <2>2 DEF Checked
  <2>3. CASE g = f
    <3> DEFINE L == Len(records[g])
               S == Steps(g)
               before == t - cfg.timestep
    <3>1. /\ cfg \in Configs /\ t \in Int /\ t >= cfg.tstart
          /\ records[g] \in Seq(RecordType) /\ it \in Nat
          /\ CheckedUpTo(g) = before /\ CheckedUpTo(g)' = t
          /\ next[g] = cfg.tstart + Due(g, before) * cfg.interval[g]
      BY <2>1, <2>3 DEF Checked, Typed, TypeOK, Clock, Scheduled
    <3>2. /\ ShouldOutput(g) <=> Due(g, t) > Due(g, before)
          /\ ~ ShouldOutput(g) => Due(g, t) = Due(g, before)
      BY <3>1, CheckIsRight
    <3>3. t = StepTime(it - 1) /\ before = StepTime(it - 2)
      <4>1. t = StepTime(it - 1)
        BY <2>1 DEF Paced, Checked
      <4>2. cfg.timestep \in Int /\ cfg.tstart \in Int
        BY <3>1, ConfigTypes
      <4>3. (it - 2) * cfg.timestep = (it - 1) * cfg.timestep - cfg.timestep
            /\ (it - 1) * cfg.timestep \in Int
        BY <3>1, <4>2
      <4> QED BY <3>1, <4>1, <4>2, <4>3 DEF StepTime
    <3>4. CASE ~ ShouldOutput(g)
      <4>1. records' = records
        BY <2>1, <2>3, <3>4 DEF Checked
      <4> QED BY <1>2, <3>1, <3>2, <3>4, <4>1
    <3>5. CASE ShouldOutput(g)
      <4>1. PICK r \in RecordType : r.it = it /\ records'[g] = Append(records[g], r)
        BY <2>1, <2>3, <3>5 DEF Checked
      <4>2. /\ L \in Nat /\ Len(records'[g]) = L + 1 /\ DOMAIN records'[g] = 1 .. L + 1
            /\ DOMAIN records[g] = 1 .. L /\ records'[g][L + 1] = r
            /\ \A n \in 1 .. L : records'[g][n] = records[g][n]
        BY <3>1, <4>1
      <4>3. S \in Int /\ S > 0 /\ Due(g, t) \in Nat
        BY <3>1, StepNumbers, DueIsNatural
      <4>4. ASSUME Early(g, L) PROVE it - 1 = L * S /\ L < Due(g, t)
        <5>1. Due(g, before) = L
          BY <1>2, <3>1, <4>4
        <5>2. L < Due(g, t) /\ ~ (L < Due(g, before))
          BY <3>2, <3>5, <4>2, <4>3, <5>1
        <5>3. it - 1 \in Int /\ it - 2 \in Int
          BY <3>1
        <5>4. L * S <= it - 1 /\ ~ (L * S <= it - 2)
          BY <3>1, <3>3, <4>2, <4>4, <5>2, <5>3, DueOnItsStep
        <5>5. L * S \in Int
          BY <4>2, <4>3
        <5> QED BY <3>1, <5>2, <5>4, <5>5
      <4>5. ASSUME NEW n \in DOMAIN records'[g], Early(g, n - 1)
            PROVE  records'[g][n].it = (n - 1) * S + 1
        <5>1. CASE n \in 1 .. L
          BY <1>2, <4>2, <4>5, <5>1
        <5>2. CASE n = L + 1
          <6>1. n - 1 = L
            BY <4>2, <5>2
          <6>2. it = L * S + 1
            <7>1. L * S \in Int
              BY <4>2, <4>3
            <7> QED BY <3>1, <4>4, <4>5, <6>1, <7>1
          <6> QED BY <4>1, <4>2, <5>2, <6>1, <6>2
        <5> QED BY <4>2, <4>5, <5>1, <5>2
      <4>6. ASSUME Early(g, L + 1) PROVE Due(g, t) = L + 1
        <5>1. it - 1 = L * S /\ L < Due(g, t)
          BY <3>1, <4>2, <4>4, <4>6, EarlyBefore
        <5>2. ~ ((L + 1) * S <= it - 1)
          <6>1. (L + 1) * S = L * S + S /\ L * S \in Int
            <7>1. L \in Int /\ S \in Int
              BY <4>2, <4>3
            <7> HIDE DEF L, S
            <7> QED BY <7>1, Distribute
          <6> QED BY <4>3, <5>1, <6>1
        <5>3. L + 1 \in Nat /\ it - 1 \in Int
          BY <3>1, <4>2
        <5>4. ~ (L + 1 < Due(g, t))
          BY <3>1, <3>3, <4>6, <5>2, <5>3, DueOnItsStep
        <5> QED BY <4>2, <4>3, <5>1, <5>4
      <4> QED BY <3>1, <4>2, <4>5, <4>6
    <3> QED BY <3>4, <3>5
  <2> QED BY <2>2, <2>3
<1> QED
  BY <1>3, <1>4, StepsCheck

(* Rounding of the input moves no record: as long as the accumulated error *)
(* of an interval is within the tolerance, each record is written by the   *)
(* step a whole number of steps per interval would give it.                *)
THEOREM RoundingIsAbsorbed == Spec => []ToleranceAbsorbsRounding
<1>1. Absorbed => ToleranceAbsorbsRounding
  BY DEF Absorbed, Early, ToleranceAbsorbsRounding
<1> QED
  BY <1>1, PacedInit, PacedNext, AbsorbedInit, AbsorbedNext, Scheduling, PTL DEF Spec
-----------------------------------------------------------------------------
(* Refinement: every step of the loop is a step of the contract.           *)
LEMMA ContractDue ==
  ASSUME NEW f \in Families, NEW u
  PROVE  Law!DueCount(f, u) = Due(f, u)
BY DEF Law!DueCount, ContractConfig, Due

LEMMA ContractStart == Init => Law!ContractInit
<1> SUFFICES ASSUME Init PROVE Law!ContractInit
  OBVIOUS
<1>1. ContractConfig(cfg) \in {ContractConfig(c) : c \in Configs}
  BY DEF Init
<1>2. t = ContractConfig(cfg).tstart
  BY DEF Init, ContractConfig
<1>3. CheckedFamilies = {}
  BY DEF Init, CheckedFamilies
<1>4. \A f \in Families : TimesWritten(f) = {}
  <2>1. \A f \in Families : DOMAIN records[f] = {}
    BY DEF Init
  <2> QED BY <2>1 DEF TimesWritten
<1> QED
  BY <1>1, <1>2, <1>3, <1>4 DEF Law!ContractInit, Law!Families, Families

(* A check of family f, with the set of families checked before it.        *)
LEMMA CheckServes ==
  ASSUME Typed, Scheduled, NEW f \in Families, Checked(f),
         CheckedFamilies' = CheckedFamilies \union {f}, f \notin CheckedFamilies
  PROVE  Law!Serve(f)
<1>1. /\ cfg \in Configs /\ t \in Int /\ t >= cfg.tstart /\ cfg' = cfg /\ t' = t
      /\ t <= cfg.tstop /\ cfg.timestep \in Int /\ t - cfg.timestep \in Int
      /\ records \in [Families -> Seq(RecordType)]
  BY ConfigTypes DEF Typed, TypeOK, Clock, Checked
<1>2. /\ ContractConfig(cfg).tstop = cfg.tstop /\ ContractConfig(cfg).tstart = cfg.tstart
      /\ ContractConfig(cfg).timestep = cfg.timestep
      /\ Law!Active(f) <=> Enabled(cfg, f)
  BY DEF ContractConfig, Law!Active
<1> DEFINE due == /\ Law!Active(f)
                  /\ \/ t = ContractConfig(cfg).tstart
                     \/ Law!DueCount(f, t)
                          > Law!DueCount(f, t - ContractConfig(cfg).timestep)
           W == [g \in Families |-> TimesWritten(g)]
<1>3. due <=> ShouldOutput(f)
  <2>1. CASE ~ Enabled(cfg, f)
    BY <1>2, <2>1 DEF ShouldOutput
  <2>2. CASE Enabled(cfg, f)
    <3>1. next[f] = cfg.tstart + Due(f, t - cfg.timestep) * cfg.interval[f]
      BY <2>2 DEF Scheduled, Checked
    <3>2. /\ ShouldOutput(f) <=> Due(f, t) > Due(f, t - cfg.timestep)
          /\ t = cfg.tstart => ShouldOutput(f)
      BY <1>1, <2>2, <3>1, CheckIsRight
    <3>3. /\ Law!DueCount(f, t) = Due(f, t)
          /\ Law!DueCount(f, t - ContractConfig(cfg).timestep) = Due(f, t - cfg.timestep)
      BY <1>2, ContractDue
    <3> QED BY <1>2, <2>2, <3>2, <3>3
  <2> QED BY <2>1, <2>2
<1>4. \A g \in Families \ {f} : TimesWritten(g)' = TimesWritten(g)
  BY <1>1 DEF TimesWritten, Checked
<1>5. ASSUME ShouldOutput(f) PROVE TimesWritten(f)' = TimesWritten(f) \union {t}
  <2>1. PICK r \in RecordType : r.time = t /\ records'[f] = Append(records[f], r)
    BY <1>5 DEF Checked
  <2>2. /\ DOMAIN records'[f] = DOMAIN records[f] \union {Len(records[f]) + 1}
        /\ records'[f][Len(records[f]) + 1] = r
        /\ \A i \in DOMAIN records[f] : records'[f][i] = records[f][i]
    BY <1>1, <2>1
  <2>3. {records'[f][i].time : i \in DOMAIN records'[f]}
          = {records[f][i].time : i \in DOMAIN records[f]} \union {t}
    BY <2>1, <2>2
  <2>4. Enabled(cfg, f)
    BY <1>5 DEF ShouldOutput
  <2> QED BY <1>1, <2>3, <2>4 DEF TimesWritten
<1>6. ASSUME ~ ShouldOutput(f) PROVE TimesWritten(f)' = TimesWritten(f)
  BY <1>1, <1>6 DEF TimesWritten, Checked
<1>7. W' = IF due THEN [W EXCEPT ![f] = @ \union {t}] ELSE W
  <2>1. W' = [g \in Families |-> TimesWritten(g)']
    OBVIOUS
  <2> HIDE DEF due
  <2> QED BY <1>3, <1>4, <1>5, <1>6, <2>1
<1>8. ContractConfig(cfg)' = ContractConfig(cfg)
  BY <1>1 DEF ContractConfig
<1> QED
  BY <1>1, <1>2, <1>7, <1>8 DEF Law!Serve

LEMMA ContractStep ==
  Typed /\ Scheduled /\ [Next]_vars => [Law!ContractNext]_(Law!contractVars)
<1> SUFFICES ASSUME Typed, Scheduled, [Next]_vars
             PROVE  Law!ContractNext \/ UNCHANGED Law!contractVars
  OBVIOUS
<1>1. CASE HisOutput
  <2>1. Checked("his") /\ "his" \in Families
    BY <1>1, OutputStep DEF HisOutput, Checked, CheckedUpTo, Families, Typed, Clock
  <2>2. CheckedFamilies = {} /\ CheckedFamilies' = {"his"}
    BY <1>1 DEF HisOutput, Output, CheckedFamilies
  <2>3. Law!Serve("his")
    BY <2>1, <2>2, CheckServes
  <2> QED BY <2>3 DEF Law!ContractNext, Law!Families
<1>2. CASE MapOutput
  <2>1. Checked("map") /\ "map" \in Families
    BY <1>2, OutputStep DEF MapOutput, Checked, CheckedUpTo, Families, Typed, Clock
  <2>2. CheckedFamilies = {"his"} /\ CheckedFamilies' = {"his"} \union {"map"}
    BY <1>2 DEF MapOutput, Output, CheckedFamilies, Families
  <2>3. Law!Serve("map")
    BY <2>1, <2>2, CheckServes
  <2> QED BY <2>3 DEF Law!ContractNext, Law!Families
<1>3. CASE AdvanceTime
  <2>1. CheckedFamilies = Families /\ CheckedFamilies' = {}
    BY <1>3 DEF AdvanceTime, CheckedFamilies
  <2>2. UNCHANGED <<cfg, records>> /\ t' = t + ContractConfig(cfg).timestep
    BY <1>3 DEF AdvanceTime, ContractConfig
  <2>3. Law!Tick
    BY <2>1, <2>2 DEF Law!Tick, Law!Families, Families, ContractConfig, TimesWritten
  <2> QED BY <2>3 DEF Law!ContractNext
<1>4. CASE Solve
  <2>1. \A g \in Families : Enabled(cfg, g) => records'[g] = records[g]
    BY <1>4, SolveStep DEF Typed, TypeOK
  <2>2. UNCHANGED <<cfg, t>> /\ pc = "solve" /\ pc' = "his"
    BY <1>4 DEF Solve
  <2>3. \A g \in Families : TimesWritten(g)' = TimesWritten(g)
    BY <2>1, <2>2 DEF TimesWritten
  <2> QED BY <2>2, <2>3 DEF Law!contractVars, CheckedFamilies, ContractConfig
<1>5. CASE Finish
  BY <1>5 DEF Finish, Law!contractVars, CheckedFamilies, ContractConfig, TimesWritten
<1>6. CASE UNCHANGED vars
  BY <1>6 DEF vars, Law!contractVars, CheckedFamilies, ContractConfig, TimesWritten
<1> QED
  BY <1>1, <1>2, <1>3, <1>4, <1>5, <1>6 DEF Next

(* The bookkeeping of the next output times implements the history-free    *)
(* contract: a step writes a record exactly when it is the first to come   *)
(* within the tolerance of a grid time.                                    *)
THEOREM ScheduleKeepsContract == Spec => FollowsContract
<1>1. Typed /\ Scheduled /\ [Next]_vars => [Law!ContractNext]_(Law!contractVars)
  BY ContractStep
<1> QED
  BY <1>1, ContractStart, Scheduling, PTL DEF Spec, FollowsContract, Law!Contract
=============================================================================
