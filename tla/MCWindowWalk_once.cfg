CONSTANTS
  TrainWindows = {2}
  Strides = {0}
  CorpusSizes = {5}
  FlushThreshold = 4
SPECIFICATION WalkSpec
INVARIANT
  EveryCorpusTokenSupervisedOnce
CHECK_DEADLOCK FALSE
