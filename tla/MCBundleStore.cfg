SPECIFICATION Spec
CONSTANTS
  a = a
  b = b
  NONE = NONE
  SizeMax = 100000
  Procs <- MCProcs
  Models <- MCModels
  Policies <- MCPolicies
  OldModels <- MCOldModels
  OldPolicies <- MCOldPolicies
  LegacyModels <- MCLegacyModels
  Sidecar <- MCSidecar
  Edits <- MCEdits
  MaxFiles = 2
  MaxTraining = 2
SYMMETRY Symmetry
INVARIANTS
  PathIsWhole
  DamageIsRefused
  LoadersAgree
  MappedModelIsStable
CHECK_DEADLOCK FALSE
