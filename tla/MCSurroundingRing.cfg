CONSTANTS
  Node = 1
  Others <- MCOthers
  Fans <- MCFans
  np = 14
  MaxCells = 4
  MaxLoose = 3
  LooseNodes = {2, 3, 4, 5}
SPECIFICATION RingSpec
INVARIANTS
  RingIsTheFan
  UpwindCovers
\* The walk ends.
CHECK_DEADLOCK FALSE
