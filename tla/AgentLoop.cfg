SPECIFICATION Spec
CONSTANTS
  MaxTurns = 3
  MaxPlannerRetries = 1
  MaxUse <- SmallBudgets
  MaxBatch = 2
INVARIANTS
  HistoryIsComplete
  SelectionExists
  CallsAccounted
  Bounded
  SettledUnlessRetryable
PROPERTIES
  SelectionStands
