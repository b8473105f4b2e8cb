CONSTANTS
  SeriesSet <- MCSeriesSet
  Starts <- MCStarts
  Timesteps = {1, 3}
  TStop = 6
  MaxRows = 4
  MaxBins = 6
  PerBin = 4
  Grids <- Circles
  Nodes <- MCNodes
  msk <- MCmsk
  conn <- MCconn
  up <- MCup
  zb <- MCzb
  hmins = {10, 12}
  zsini = 0
  RowData <- MCRowData
  GridsFor <- MCGridsFor
  Headings <- MCHeadings
SPECIFICATION StepSpec
INVARIANTS
  RowsEncloseTime
  WindowIsAnArc
  SectorFollowsWaves
  
  LandStaysDry
  ResultsAreDefined
PROPERTY ImplementsLookup
CHECK_DEADLOCK FALSE
