--------------------------- MODULE OutputContract ---------------------------
(***************************************************************************)
(* What the output schedule of a SnapWave run promises, without the        *)
(* bookkeeping that keeps the promise: whether a time step writes a        *)
(* record is a function of the two times the step lies between, never of   *)
(* what earlier steps did.                                                 *)
(*                                                                         *)
(* The grid of an output family is tstart, tstart + interval, ...  A step  *)
(* at model time t writes one record exactly when it is the first step to  *)
(* come within the tolerance of a grid time.  Grid times overtaken by the  *)
(* same step share its record.                                             *)
(***************************************************************************)
EXTENDS Integers

CONSTANTS
  Configs   \* the configurations a run may start with (see OutputSchedule)

VARIABLES
  cfg,      \* the configuration of this run
  t,        \* model time of the step being served
  served,   \* families whose output check of this step is over
  written   \* [family -> set of times at which a record was written]

contractVars == <<cfg, t, served, written>>

Families == {"map", "his"}

(* The number of grid times of family f within the tolerance of time u.    *)
DueCount(f, u) ==
  IF u + cfg.tol < cfg.tstart
  THEN 0
  ELSE ((u + cfg.tol - cfg.tstart) \div cfg.interval[f]) + 1

(* A family is active when its file is configured and nothing suppresses   *)
(* it.                                                                     *)
Active(f) == f \in cfg.active

ContractInit ==
  /\ cfg \in Configs
  /\ t = cfg.tstart
  /\ served = {}
  /\ written = [f \in Families |-> {}]

(* Family f is checked once per step; the first step always writes.        *)
Serve(f) ==
  /\ t <= cfg.tstop
  /\ f \notin served
  /\ served' = served \union {f}
  /\ written' =
       IF /\ Active(f)
          /\ \/ t = cfg.tstart
             \/ DueCount(f, t) > DueCount(f, t - cfg.timestep)
       THEN [written EXCEPT ![f] = @ \union {t}]
       ELSE written
  /\ UNCHANGED <<cfg, t>>

(* The next step begins when both families were served.                    *)
Tick ==
  /\ served = Families
  /\ t' = t + cfg.timestep
  /\ served' = {}
  /\ UNCHANGED <<cfg, written>>

ContractNext == Tick \/ \E f \in Families : Serve(f)

Contract == ContractInit /\ [][ContractNext]_contractVars
=============================================================================
