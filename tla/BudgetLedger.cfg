SPECIFICATION FairSpec
CONSTANTS
  Callers = {c1, c2}
  Keys = {k1, k2, k3}
  MaxRequests = 2
  MaxTokens = 1
  MaxRetries = 1
  MaxUsage = 1
  MaxCalls = 4
  MaxFaults = 1
  None = None
INVARIANTS
  LedgerMatchesCache
  RequestsWithinBudget
  TokensWithinBudget
  BoughtOncePerCaller
PROPERTIES
  RowsStay
  CallsEnd
