CONSTANTS
  MaxPoints = 4
  Size = 3
  PointSets <- MCPointSets
  FaceSets <- MCFaceSets
SPECIFICATION Spec
INVARIANTS
  HuntFindsThePlace
  CandidatesAreTheBox
PROPERTY ImplementsPointLocation
CHECK_DEADLOCK FALSE
