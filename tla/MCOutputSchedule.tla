-------------------------- MODULE MCOutputSchedule --------------------------
(***************************************************************************)
(* Instances of OutputSchedule: every combination of a few time steps,     *)
(* intervals (equal, shorter, longer than the step, and off a multiple of  *)
(* it by a tick) and output switches.  A run has at most MaxSteps steps.   *)
(***************************************************************************)
EXTENDS OutputSchedule

CONSTANTS MaxSteps, SaveModes

BaseConfig ==
  [timestep : {6}, tol : {0, 2}, niter : {0, 5}, saveEachIter : SaveModes]

MCConfigs ==
  {[tstart |-> 3, tstop |-> 4 + (MaxSteps - 1) * b.timestep,
    timestep |-> b.timestep, tol |-> b.tol, niter |-> b.niter,
    saveEachIter |-> b.saveEachIter,
    interval |-> [f \in Families |-> IF f = "map" THEN m ELSE h],
    mapFile |-> m > 0, hisFile |-> h > 0, nobs |-> o] :
      b \in BaseConfig, m \in {-1, 1, 4, 6, 7, 13, 31}, h \in {-1, 11}, o \in {0, 2}}
=============================================================================
