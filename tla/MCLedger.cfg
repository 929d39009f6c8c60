SPECIFICATION Spec
CONSTANTS
  Tenants = {t1}
  Instances = {i1, i2}
  Requests = {r1}
  Attempts = {a1, a2}
  Keys = {}
  Estimates = {1, 2}
  Costs = {1, 2}
  Limits = {3}
  Deltas <- MCDeltas
  TTL = 1
  MaxMicrounits = 4
  NoLimit = NoLimit
  NoKey = NoKey
  None = None
SYMMETRY Symmetry
INVARIANTS TypeOK BudgetConserved HardAdmission AttemptMatchesReservation
PROPERTIES HistoryIsFinal KeepsPromise
