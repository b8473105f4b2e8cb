CONSTANTS
  N = 6
  MaxLevel = 3
  CritDen = 4
  Niters = {10}
  Meshes <- HeadlandMeshes
SPECIFICATION Spec
INVARIANT FrozenNodesAreSettled
CHECK_DEADLOCK FALSE
