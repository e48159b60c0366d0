CONSTANTS
  Low = Low
  High = High
  Layouts <- MCLayouts
  Sizes = {1}
  MaxEntries = 2
  Reloads = TRUE
  MaxWrites = 3
  MaxDue = 2
  None = None
SPECIFICATION Spec
INVARIANT ProductsUseCurrentWeights
