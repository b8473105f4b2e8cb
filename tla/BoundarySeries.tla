--------------------------- MODULE BoundarySeries ---------------------------
(***************************************************************************)
(* Interpolation of the boundary forcing in time: the scan of              *)
(* update_boundary_points (src_rust/model.rs), which resumes at the row    *)
(* where the previous time step stopped (itwbndlast) instead of searching  *)
(* the series again.                                                       *)
(*                                                                         *)
(* Rows are numbered from 1.  The heights, periods, directions, spreads    *)
(* and levels of a row all use one pair of rows and one weight, so the     *)
(* model keeps the rows: t_bwv[row - 1] and t_bwv[row], with the weight of *)
(* the upper row being                                                     *)
(*   (t - t_bwv[row - 1]) / (t_bwv[row] - t_bwv[row - 1]).                 *)
(*                                                                         *)
(* UpdateFromNextRow and StopsAtTime are faulty variants, used only to     *)
(* show that the properties notice the mistake.                            *)
(***************************************************************************)
EXTENDS Integers, Sequences

CONSTANTS
  SeriesSet,  \* the time columns explored
  Starts,     \* start times explored
  Timesteps,  \* time steps explored
  TStop       \* last model time

Sorted(s) == \A i, j \in DOMAIN s : i < j => s[i] <= s[j]

(* The readers do not check that a time column is sorted; the cursor is    *)
(* only right when it is.                                                  *)
ASSUME SeriesAssumption ==
  /\ \A s \in SeriesSet : s \in Seq(Int) /\ Sorted(s)
  /\ Starts \subseteq Int
  /\ Timesteps \subseteq Nat
  /\ TStop \in Int

VARIABLES
  t_bwv,       \* time column of the series
  timestep,    \* time step of the run
  t,           \* model time
  itwbndlast,  \* row at which the last scan stopped
  row,         \* upper row of the interpolation, 0 before the first update
  updated      \* update_boundary_points was called for the current time

vars == <<t_bwv, timestep, t, itwbndlast, row, updated>>

ntwbnd == Len(t_bwv)

(* The scan stops at row itb.                                              *)
StopsAtTime(itb) == t_bwv[itb] >= t \/ itb = ntwbnd
Stops(itb) == t_bwv[itb] > t \/ itb = ntwbnd

Init ==
  /\ t_bwv \in SeriesSet
  /\ timestep \in Timesteps
  /\ t \in Starts
  /\ itwbndlast = 2
  /\ row = 0
  /\ updated = FALSE

(* One call of update_boundary_points.  A series of fewer than two rows    *)
(* never enters the loop: the forcing stays what it was.                   *)
UpdateFromNextRow ==
  /\ ~ updated
  /\ IF itwbndlast > ntwbnd
     THEN UNCHANGED <<itwbndlast, row>>
     ELSE \E itb \in itwbndlast .. ntwbnd :
            /\ Stops(itb)
            /\ \A j \in itwbndlast .. (itb - 1) : ~ Stops(j)
            /\ row' = itb
            /\ itwbndlast' = itb + 1
  /\ updated' = TRUE
  /\ UNCHANGED <<t_bwv, timestep, t>>

UpdateBoundaryPoints ==
  /\ ~ updated
  /\ IF itwbndlast > ntwbnd
     THEN UNCHANGED <<itwbndlast, row>>
     ELSE \E itb \in itwbndlast .. ntwbnd :
            /\ Stops(itb)
            /\ \A j \in itwbndlast .. (itb - 1) : ~ Stops(j)
            /\ row' = itb
            /\ itwbndlast' = itb
  /\ updated' = TRUE
  /\ UNCHANGED <<t_bwv, timestep, t>>

(* The rest of the time step, and advance_time.                            *)
AdvanceTime ==
  /\ updated
  /\ t + timestep <= TStop
  /\ t' = t + timestep
  /\ updated' = FALSE
  /\ UNCHANGED <<t_bwv, timestep, itwbndlast, row>>

Next == UpdateBoundaryPoints \/ AdvanceTime

Spec == Init /\ [][Next]_vars
-----------------------------------------------------------------------------
TypeOK ==
  /\ t_bwv \in SeriesSet
  /\ timestep \in Timesteps
  /\ t \in Int
  /\ itwbndlast \in 2 .. (IF ntwbnd < 2 THEN 2 ELSE ntwbnd)
  /\ row \in {0} \union 2 .. ntwbnd
  /\ updated \in BOOLEAN

(* No step interpolates outside its bracket while the series covers the    *)
(* time: the two rows used enclose t and are distinct, so the weight is    *)
(* defined and lies in [0, 1).  A stale cursor would extrapolate instead.  *)
RowsEncloseTime ==
  /\ updated
  /\ ntwbnd >= 2
  /\ t_bwv[1] <= t
  /\ t < t_bwv[ntwbnd]
  => t_bwv[row - 1] <= t /\ t < t_bwv[row]

(* Past the end of the series, and only there, the last two rows are       *)
(* extended; before its start the first two are.                           *)
ExtrapolatesAtTheEnds ==
  updated /\ ntwbnd >= 2 =>
    /\ t >= t_bwv[ntwbnd] => row = ntwbnd
    /\ t < t_bwv[1] => row = 2

(* The cursor never skips a row that a search of the whole series would    *)
(* have found: resuming at itwbndlast implements the memoryless lookup.    *)
Stateless == INSTANCE BoundaryLookup
ImplementsLookup == Stateless!LookupSpec

(* What makes the resumed scan right: every row before the cursor lies at  *)
(* or before the current time.                                             *)
CursorBehindTime ==
  /\ itwbndlast >= 2
  /\ \A j \in 2 .. (itwbndlast - 1) : j < ntwbnd /\ t_bwv[j] <= t
=============================================================================
