CONSTANTS
  Windows = 5
  BatchSize = 2
  Accumulation = 2
  Seeds = {1, 2}
  Targets = {1, 2}
  Intervals = {0, 1}
  Keeps = {1}
  MaxStarts = 2
  MaxResumes = 1
  NoBundle = NoBundle
SPECIFICATION FairSpec
INVARIANTS
  CursorMatchesModel
  NeverRejectsOwnCheckpoint
  BundleIsWholeRun
  LatestIsLoadable
PROPERTIES
  RefinesTrajectory
  NewestSurvives
  RunEnds
CHECK_DEADLOCK FALSE
