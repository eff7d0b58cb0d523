SPECIFICATION Spec
CONSTANTS
  r1 = r1
  r2 = r2
  r3 = r3
  k1 = k1
  k2 = k2
  Requests = {r1, r2, r3}
  Keys = {k1, k2}
  KeyOf <- TwoAndOne
  PolicyOf <- BothPolicies
  LongKeys = {}
  Versions = {v1}
  Capacity = 1
  ServerDrains = TRUE
  MaxRestarts = 0
  None = None
INVARIANT CostChargedOnce
