CONSTANTS
  Windows = 3
  BatchSize = 1
  Accumulation = 2
  Seeds = {1}
  Targets = {1, 2}
  Intervals = {1}
  Keeps = {1}
  MaxStarts = 2
  MaxResumes = 0
  NoBundle = NoBundle
SPECIFICATION Spec
INVARIANT
  SavedIsRetained
CHECK_DEADLOCK FALSE
