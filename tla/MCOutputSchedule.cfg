CONSTANTS
  Configs <- MCConfigs
  Second = 1
  MaxSteps = 6
  SaveModes = {0, 1, 2}
SPECIFICATION FairSpec
INVARIANTS
  NoOutputIsLate
  ToleranceAbsorbsRounding
  MapTimesIncrease
PROPERTIES
  FollowsContract
  RunEnds
CHECK_DEADLOCK FALSE
