SPECIFICATION ISpec
CONSTANTS
  Tenants = {t1}
  Instances = {i1}
  Requests = {r1}
  Attempts = {a1, a2, a3}
  Keys = {}
  Estimates = {1}
  Costs = {0, 1, 2, 3, 4, 5, 6, 7, 8, 9}
  Limits = {}
  Deltas = {}
  TTL = 1
  MaxMicrounits = 9
  NoLimit = NoLimit
  NoKey = NoKey
  None = None
  Candidates = 2
  Usages = {1}
  Punctual = TRUE
SYMMETRY Symmetry
INVARIANTS AttemptRowsKeepOwnUsage
CHECK_DEADLOCK FALSE
