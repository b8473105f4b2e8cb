CONSTANTS
  Sizes = {1, 2, 3, 4, 5, 6}
  Keys = {0, 1, 2, 3, 4, 5}
  Eps = 2
SPECIFICATION Spec
INVARIANTS
  VisitsEveryNode
  SortedUpToEps
  DisorderIsBounded
PROPERTY Terminates
CHECK_DEADLOCK FALSE
