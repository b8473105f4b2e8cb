--------------------------- MODULE IterationSaves ---------------------------
(***************************************************************************)
(* How many iterations one solve reports to the map file when              *)
(* ja_save_each_iter = 1.  SweepSolver shows that this is what the solver  *)
(* does; OutputSchedule relies on it.                                      *)
(***************************************************************************)
EXTENDS Integers

(* All niter iterations, or those before the last one of the round of four *)
(* at whose end the solver converged.                                      *)
IterCounts(niter) ==
  {niter} \union {n \in 0 .. niter - 1 : (n + 1) % 4 = 0}
=============================================================================
