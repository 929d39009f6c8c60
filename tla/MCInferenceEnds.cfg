SPECIFICATION IFairSpec
CONSTANTS
  Tenants = {t1}
  Instances = {i1, i2}
  Requests = {r1}
  Attempts = {a1, a2}
  Keys = {}
  Estimates = {1}
  Costs = {0, 1, 2, 3, 4}
  Limits = {}
  Deltas = {}
  TTL = 3
  MaxMicrounits = 4
  NoLimit = NoLimit
  NoKey = NoKey
  None = None
  Candidates = 1
  Usages = {1}
  Punctual = TRUE
INVARIANTS LiveIsNotReconciled
PROPERTIES  OrphansReleased
CHECK_DEADLOCK FALSE
