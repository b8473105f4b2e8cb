CONSTANTS
  N = 4
  MaxFacings = 3
  Huge = 4
  MaxPoints = 4
  OpenSets <- MCOpenSets
  InsideSets <- MCInsideSets
  Facings <- MCFacings
  Distances <- MCDistances
  Tables <- MCTables
SPECIFICATION PreparationSpec
INVARIANTS
  LinksEndInNeumannNodes
  ChainsDescend
  NeumannNodesAreFed
  FindsTheTwoNearest
  NearerWeighsMore
  ForcedByItsNeighbours
CHECK_DEADLOCK FALSE
