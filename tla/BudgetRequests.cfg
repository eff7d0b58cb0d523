SPECIFICATION Spec
CONSTANTS
  Callers = {c1}
  Keys = {k1, k2, k3}
  MaxRequests = 2
  MaxTokens = 5
  MaxRetries = 1
  MaxUsage = 1
  MaxCalls = 4
  MaxFaults = 0
  None = None
INVARIANT ExternalRequestsBudgeted
