SPECIFICATION Spec
CONSTANTS
  Window = 2
  LastLayout = 1
  Outcomes <- MCOutcomes
  OldFiles <- MCOldFiles
INVARIANTS
  PlotsSeeFinishedRuns
  SequentialIsComplete
  PassAgrees
  PassMeansOrder
PROPERTIES
  BatchEnds
CHECK_DEADLOCK FALSE
