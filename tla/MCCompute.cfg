SPECIFICATION ComputeSpec
CONSTANTS
  Low = Low
  High = High
  Layouts <- MCLayouts
  Sizes = {1}
  MaxEntries = 2
  Reloads = FALSE
  MaxWrites = 3
  MaxDue = 2
  None = None
  NONE = NONE
  Threads <- MCThreads
  Cpus <- MCCpus
  Caps <- MCCaps
  Calls <- MCCalls
  MinWork = 20
  Modulus = 1000
  Nets <- MCNets
  Windows <- MCWindows
  MaxPasses = 2
  MaxSteps = 1
  Modulo = 9973
  Content <- MCContent
  Most = 3
  MaxLen = 3
  VocabSize = 2
  SizeMax = 1000000
  Samples <- MCSamples
INVARIANTS
  ProductsUseCurrentWeights
  CurrentCopiesAgree
  GradientIsComplete
  ProductIsExact
  ExecutableHere
  ShapesAreConsistent
  TensorsSurvive
  GradientMatchesTangent
CHECK_DEADLOCK FALSE
