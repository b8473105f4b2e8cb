CONSTANTS
  N = 4
  MaxLevel = 3
  CritDen = 4
  Niters = {6, 9}
  Meshes <- MCMeshes
SPECIFICATION Spec
INVARIANTS
  ForcingStands
  DryNodesBlockWaves
  SettledAfterFirstSweep
  ConvergesInTwoRounds
  NeumannFollowsSource
  SavesMatchSchedule
CHECK_DEADLOCK FALSE
