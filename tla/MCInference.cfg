SPECIFICATION ISpec
CONSTANTS
  Tenants = {t1}
  Instances = {i1, i2}
  Requests = {r1}
  Attempts = {a1, a2, a3}
  Keys = {}
  Estimates = {1}
  Costs = {0, 1, 2, 3, 4, 5}
  Limits = {}
  Deltas = {}
  TTL = 1
  MaxMicrounits = 5
  NoLimit = NoLimit
  NoKey = NoKey
  None = None
  Candidates = 2
  Usages = {2}
  Punctual = FALSE
SYMMETRY Symmetry
INVARIANTS FlowOK OnlySentIsCharged CompletedTotalsExact BufferedAttemptsKeepOwnUsage
 
CHECK_DEADLOCK FALSE
