CONSTANT Paths <- MCPaths
SPECIFICATION Spec
INVARIANTS
  ParentsReady
  OnlyNeededDirectories
  SuccessMeansWritten
  ResultsOfOneRun
PROPERTY ResultsSurviveUntilWriting
CHECK_DEADLOCK FALSE
