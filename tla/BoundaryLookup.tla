--------------------------- MODULE BoundaryLookup ---------------------------
(***************************************************************************)
(* What the interpolation of the boundary time series promises: the rows   *)
(* used at time t are found by searching the whole series for t.  Nothing  *)
(* is remembered from one update to the next.                              *)
(***************************************************************************)
EXTENDS Integers, Sequences

CONSTANTS
  SeriesSet,  \* the time columns explored
  Starts,     \* start times explored
  Timesteps   \* time steps explored

VARIABLES
  t_bwv,      \* time column of the series
  timestep,   \* time step of the run
  t,          \* model time of the update
  row,        \* upper row of the interpolation, 0 before the first update
  updated     \* the rows of the current time have been looked up

lookupVars == <<t_bwv, timestep, t, row, updated>>

(* Row i is the first from row `from` on that lies beyond time u, or the   *)
(* last row when none does.                                                *)
Beyond(i, u) == t_bwv[i] > u \/ i = Len(t_bwv)
IsBracket(i, from, u) ==
  /\ i \in from .. Len(t_bwv)
  /\ Beyond(i, u)
  /\ \A j \in from .. (i - 1) : ~ Beyond(j, u)

LookupInit ==
  /\ t_bwv \in SeriesSet
  /\ timestep \in Timesteps
  /\ t \in Starts
  /\ row = 0
  /\ updated = FALSE

(* Search from row 2: the lower row of the bracket is the one before.  A   *)
(* series of a single row has no bracket and leaves the forcing as it was. *)
Lookup ==
  /\ ~ updated
  /\ \/ IsBracket(row', 2, t)
     \/ Len(t_bwv) < 2 /\ UNCHANGED row
  /\ updated' = TRUE
  /\ UNCHANGED <<t_bwv, timestep, t>>

Proceed ==
  /\ updated
  /\ t' = t + timestep
  /\ updated' = FALSE
  /\ UNCHANGED <<t_bwv, timestep, row>>

LookupNext == Lookup \/ Proceed

LookupSpec == LookupInit /\ [][LookupNext]_lookupVars
=============================================================================
