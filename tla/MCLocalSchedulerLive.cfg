SPECIFICATION ConnectedSpec
CONSTANTS
  Calls = {c1, c2, c3}
  u1 = u1
  u2 = u2
  Users = {u1, u2}
  Profiles <- MCTwoClasses
  ExecutingPerUser = 1
  QueuedPerUser = 2
  QueueLimit <- MCQueueOfTwo
  OverflowAfter = 5
  InitService = 5
  Elapsed = {10}
  Free = Free

PROPERTIES NobodyStranded
CHECK_DEADLOCK FALSE
