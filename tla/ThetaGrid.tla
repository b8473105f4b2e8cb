------------------------------ MODULE ThetaGrid ------------------------------
(***************************************************************************)
(* The directional grid of a time step: mod2, nint and make_theta_grid     *)
(* (src_rust/model.rs).  Geometry is tabulated once for the ntheta360      *)
(* directions of the full circle; every time step selects the ntheta of    *)
(* them around the mean wave direction (i360), and the solver takes the    *)
(* selected bins for neighbours in direction.                              *)
(*                                                                         *)
(* Directions are integers, PerBin units to a bin; bin i covers the        *)
(* directions from (i - 1) * PerBin to i * PerBin.  The mean direction     *)
(* comes out of an atan2, so it lies within half a turn of zero, and the   *)
(* window can reach below bin 1 and, for a wide sector, past the last one. *)
(*                                                                         *)
(* mod2Once and nintTruncating are faulty variants, used only to show that *)
(* the properties notice the mistake.                                      *)
(***************************************************************************)
EXTENDS Integers

CONSTANTS
  Grids,   \* pairs <<ntheta, ntheta360>>: bins of the sector, of the circle
  PerBin   \* direction units in a bin, even

(* sector and dtheta are not checked against each other; a sector wider    *)
(* than the circle is left to the user.                                    *)
ASSUME GridAssumption ==
  /\ Grids \subseteq (Nat \ {0}) \X (Nat \ {0})
  /\ \A g \in Grids : g[1] <= g[2]
  /\ PerBin \in Nat \ {0} /\ PerBin % 2 = 0

VARIABLES
  grid,           \* the bins of this run
  central_theta,  \* mean direction the grid was made for
  i360            \* [selected bin -> bin of the circle]

gridVars == <<grid, central_theta, i360>>

ntheta == grid[1]
ntheta360 == grid[2]
Bins(g) == 1 .. g[1]
HalfTurn(g) == (g[2] * PerBin) \div 2
Directions(g) == -HalfTurn(g) .. HalfTurn(g)

(* a % b of Rust: the remainder has the sign of a.                         *)
Rem(a, b) == IF a >= 0 THEN a % b ELSE -((-a) % b)

mod2Once(a, b) == IF a <= 0 THEN a + b ELSE a
mod2(a, b) ==
  LET c == IF Rem(a, b) = 0 THEN b ELSE Rem(a, b) IN IF c < 0 THEN c + b ELSE c

(* nint(theta / dtheta): half away from zero.                              *)
nintTruncating(theta) ==
  IF theta >= 0 THEN theta \div PerBin ELSE -((-theta) \div PerBin)
nint(theta) ==
  LET half == PerBin \div 2 IN
  IF theta >= 0 THEN (theta + half) \div PerBin ELSE -((half - theta) \div PerBin)

(* The bin before the window, as an unwrapped bin number.                  *)
Ind(g, theta) == nint(theta) - (g[1] \div 2)

Window(g, theta) ==
  [itheta \in Bins(g) |-> mod2(itheta + Ind(g, theta), g[2])]

GridInit ==
  /\ grid \in Grids
  /\ central_theta \in Directions(grid)
  /\ i360 = Window(grid, central_theta)

(* The grid of the next time step, around the direction of that step.      *)
MakeThetaGrid ==
  /\ central_theta' \in Directions(grid)
  /\ i360' = Window(grid, central_theta')
  /\ UNCHANGED grid

GridSpec == GridInit /\ [][MakeThetaGrid]_gridVars
-----------------------------------------------------------------------------
GridTypeOK ==
  /\ grid \in Grids
  /\ central_theta \in Int
  /\ i360 \in [Bins(grid) -> 1 .. ntheta360]

(* Neighbours in the grid are neighbours on the circle, across its seam    *)
(* too: refraction moves energy between directions that touch.  And no     *)
(* direction is computed twice, which would count its energy twice.        *)
WindowIsAnArc ==
  /\ \A itheta \in 1 .. (ntheta - 1) :
       i360[itheta + 1] = IF i360[itheta] = ntheta360 THEN 1 ELSE i360[itheta] + 1
  /\ \A a, b \in Bins(grid) : i360[a] = i360[b] => a = b

(* The waves stay in the middle of the sector: its centre is within a bin  *)
(* of the mean direction, half a bin when ntheta is even.  Distances on    *)
(* the circle are in half units.                                           *)
OnCircle(x) == x % (2 * ntheta360 * PerBin)
Distance(a, b) ==
  LET d == OnCircle(a - b) IN
  IF d <= ntheta360 * PerBin THEN d ELSE 2 * ntheta360 * PerBin - d
Centre == (2 * i360[1] - 2 + ntheta) * PerBin

SectorFollowsWaves ==
  Distance(Centre, 2 * central_theta) <= IF ntheta % 2 = 0 THEN PerBin ELSE 2 * PerBin
=============================================================================
