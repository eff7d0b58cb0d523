SPECIFICATION Spec
CONSTANTS
  r1 = r1
  r2 = r2
  r3 = r3
  k1 = k1
  k2 = k2
  Requests = {r1, r2, r3}
  Keys = {k1}
  KeyOf <- SameQuestion
  PolicyOf <- OnePolicy
  LongKeys = {}
  Versions = {v1, v2}
  Capacity = 1
  ServerDrains = TRUE
  MaxRestarts = 1
  None = None
INVARIANTS
  InferencePaidOnce
PROPERTIES
  AnswersAreCurrent
