--------------------------- MODULE OutputSchedule ---------------------------
(***************************************************************************)
(* The time loop of a run and the scheduling of its output records:        *)
(* ModelState (src_rust/state.rs) as driven by Model::run                  *)
(* (src_rust/model.rs).                                                    *)
(*                                                                         *)
(* Times are integers, in ticks: the values the code adds are f32 numbers  *)
(* widened to f64, so the sums are exact as long as they fit 53 bits.      *)
(* What a tick cannot hide is that an interval need not be a multiple of   *)
(* the time step (0.3f32 is not 3 * 0.1f32); the configurations include    *)
(* such pairs.                                                             *)
(*                                                                         *)
(* Operators named for a mistake (ShouldOutputExactly, AdvancedFromNow...) *)
(* are faulty variants of the operator defined after them.  No             *)
(* specification uses them; they are there to show that the properties     *)
(* would notice the mistake.                                               *)
(***************************************************************************)
EXTENDS Integers, Sequences, IterationSaves

CONSTANTS
  Configs,  (* the configurations explored, records with the fields        *)
            (* tstart, tstop, timestep, interval, tol, niter, mapFile,     *)
            (* hisFile, nobs and saveEachIter                              *)
  Second    (* ticks in a second: solver iterations are stamped a second   *)
            (* apart                                                       *)

Families == {"map", "his"}

Config ==
  [tstart : Int, tstop : Int, timestep : Int, interval : [Families -> Int],
   tol : Nat, niter : Nat, mapFile : BOOLEAN, hisFile : BOOLEAN,
   nobs : Nat, saveEachIter : Int]

(* The reader accepts a non-positive interval only for an output that is   *)
(* disabled.  Nothing checks the time step: that it is positive (and       *)
(* larger than the microsecond to which the tolerance is floored) is left  *)
(* to the user.                                                            *)
ConfigAssumption ==
  /\ Configs \subseteq Config
  /\ \A c \in Configs :
       /\ c.timestep > 2 * c.tol
       /\ c.mapFile => c.interval["map"] > 0
       /\ c.hisFile => c.interval["his"] > 0

ASSUME ScheduleAssumption == ConfigAssumption /\ Second \in Nat \ {0}

VARIABLES
  cfg,      \* the parsed input, fixed for the run
  pc,       \* the next statement of the loop body
  t,        \* current model time
  it,       \* time steps started
  next,     \* [family -> next scheduled output time]
  count,    \* [family -> records scheduled so far]
  records   \* [family -> records collected for the file]

vars == <<cfg, pc, t, it, next, count, records>>

RecordType == [time : Int, ntmapout : Nat \ {0}, it : Nat \ {0}]

Record(time, ntmapout) == [time |-> time, ntmapout |-> ntmapout, it |-> it]

(* The condition of should_output_* that does not depend on time.          *)
EnabledWithIterations(c, f) ==
  IF f = "map" THEN c.mapFile ELSE c.hisFile /\ c.nobs > 0
Enabled(c, f) ==
  IF f = "map" THEN c.mapFile /\ c.saveEachIter = 0
               ELSE c.hisFile /\ c.nobs > 0

(* should_output_map, should_output_his                                    *)
ShouldOutputExactly(f) == Enabled(cfg, f) /\ t >= next[f]
ShouldOutputStrictly(f) == Enabled(cfg, f) /\ t > next[f] - cfg.tol
ShouldOutput(f) == Enabled(cfg, f) /\ t >= next[f] - cfg.tol

(* The `while next <= t + tol { next += interval }` of record_*_output.    *)
AdvancedFromNow(n, limit, interval) == limit + interval
Advanced(n, limit, interval) ==
  IF n <= limit THEN n + interval * (((limit - n) \div interval) + 1) ELSE n

Init ==
  /\ cfg \in Configs
  /\ pc = "solve"
  /\ t = cfg.tstart
  /\ it = 0
  /\ next = [f \in Families |-> cfg.tstart]
  /\ count = [f \in Families |-> 0]
  /\ records = [f \in Families |-> <<>>]

(* advance_iteration, the solver, and the map records of the iterations it *)
(* reports (IterCounts, see SweepSolver).                                  *)
Solve ==
  /\ pc = "solve"
  /\ t <= cfg.tstop
  /\ it' = it + 1
  /\ IF cfg.saveEachIter = 1 /\ cfg.mapFile
     THEN \E n \in IterCounts(cfg.niter) :
            records' = [records EXCEPT !["map"] =
              @ \o [i \in 1 .. n |->
                     [time |-> t + i * Second, ntmapout |-> i, it |-> it + 1]]]
     ELSE UNCHANGED records
  /\ pc' = "his"
  /\ UNCHANGED <<cfg, t, next, count>>

(* One output check: record_*_output and the push of the record.           *)
Output(f, at, then) ==
  /\ pc = at
  /\ IF ShouldOutput(f)
     THEN /\ count' = [count EXCEPT ![f] = @ + 1]
          /\ next' = [next EXCEPT ![f] =
                        Advanced(@, t + cfg.tol, cfg.interval[f])]
          /\ records' = [records EXCEPT ![f] =
                           Append(@, Record(t, count[f] + 1))]
     ELSE UNCHANGED <<count, next, records>>
  /\ pc' = then
  /\ UNCHANGED <<cfg, t, it>>

HisOutput == Output("his", "his", "map")
MapOutput == Output("map", "map", "advance")

AdvanceTime ==
  /\ pc = "advance"
  /\ t' = t + cfg.timestep
  /\ pc' = "solve"
  /\ UNCHANGED <<cfg, it, next, count, records>>

(* The loop condition fails: the collected records are written.            *)
FinishExactly ==
  /\ pc = "solve"
  /\ t = cfg.tstop
  /\ pc' = "write"
  /\ UNCHANGED <<cfg, t, it, next, count, records>>
Finish ==
  /\ pc = "solve"
  /\ t > cfg.tstop
  /\ pc' = "write"
  /\ UNCHANGED <<cfg, t, it, next, count, records>>

Next == Solve \/ HisOutput \/ MapOutput \/ AdvanceTime \/ Finish

Spec == Init /\ [][Next]_vars

(* The loop is sequential code that waits for nothing.                     *)
FairSpec == Spec /\ WF_vars(Next)
-----------------------------------------------------------------------------
TypeOK ==
  /\ cfg \in Configs
  /\ pc \in {"solve", "his", "map", "advance", "write"}
  /\ t \in Int
  /\ it \in Nat
  /\ next \in [Families -> Int]
  /\ count \in [Families -> Nat]
  /\ records \in [Families -> Seq(RecordType)]

(* The time of the last step whose check of family f is over.              *)
CheckedUpTo(f) ==
  IF \/ pc = "advance"
     \/ pc = "map" /\ f = "his"
  THEN t ELSE t - cfg.timestep

(* A record is late when its grid time was already within the tolerance at *)
(* an earlier step.  No enabled output is ever late: each grid time that a *)
(* finished check could have served was served, by the first step that     *)
(* came within output_tol of it (record_*_output must neither skip a grid  *)
(* time nor leave one behind when the step is longer than the interval).   *)
NoOutputIsLate ==
  \A f \in Families : Enabled(cfg, f) =>
    \A k \in 0 .. (cfg.tstop - cfg.tstart) :
      LET due == cfg.tstart + k * cfg.interval[f] - cfg.tol IN
      due <= CheckedUpTo(f) /\ cfg.tstart <= CheckedUpTo(f) =>
        \E i \in DOMAIN records[f] :
          /\ due <= records[f][i].time
          /\ records[f][i].time < due + cfg.timestep

(* Rounding of the input must not move a record to a neighbouring step:    *)
(* when an interval is m steps up to an error of delta ticks, record n is  *)
(* written by step (n - 1) * m + 1 for as long as the accumulated error is *)
(* within output_tol.  This is what the tolerance is for.                  *)
Steps(f) == (2 * cfg.interval[f] + cfg.timestep) \div (2 * cfg.timestep)
Delta(f) == cfg.interval[f] - Steps(f) * cfg.timestep
Magnitude(x) == IF x < 0 THEN -x ELSE x

ToleranceAbsorbsRounding ==
  \A f \in Families : Enabled(cfg, f) /\ Steps(f) > 0 =>
    \A n \in DOMAIN records[f] :
      (n - 1) * Magnitude(Delta(f)) <= cfg.tol =>
        records[f][n].it = (n - 1) * Steps(f) + 1

(* Per-iteration records borrow their times from the seconds after the     *)
(* step; the map's time axis stays strictly increasing as long as niter    *)
(* seconds are less than a time step.                                      *)
MapTimesIncrease ==
  cfg.niter * Second < cfg.timestep =>
    \A i, j \in DOMAIN records["map"] :
      i < j => records["map"][i].time < records["map"][j].time

(* The run ends: a positive time step reaches tstop and the files are      *)
(* written.                                                                *)
RunEnds == <>(pc = "write")

(* The bookkeeping of next_*_output implements the history-free contract:  *)
(* what a step writes depends on its own time alone.                       *)
CheckedFamilies ==
  CASE pc = "map" -> {"his"} [] pc = "advance" -> Families [] OTHER -> {}

TimesWritten(f) ==
  IF Enabled(cfg, f) THEN {records[f][i].time : i \in DOMAIN records[f]} ELSE {}

ContractConfig(c) ==
  [tstart |-> c.tstart, tstop |-> c.tstop, timestep |-> c.timestep,
   interval |-> c.interval, tol |-> c.tol,
   active |-> {f \in Families : Enabled(c, f)}]

Law == INSTANCE OutputContract WITH
  Configs <- {ContractConfig(c) : c \in Configs},
  cfg     <- ContractConfig(cfg),
  served  <- CheckedFamilies,
  written <- [f \in Families |-> TimesWritten(f)]

FollowsContract == Law!Contract
=============================================================================
