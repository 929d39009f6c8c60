SPECIFICATION Spec
CONSTANTS
  Calls = {c1, c2, c3}
  u1 = u1
  u2 = u2
  Users = {u1, u2}
  Profiles <- MCProfiles
  ExecutingPerUser = 1
  QueuedPerUser = 2
  QueueLimit <- MCQueues
  OverflowAfter = 5
  InitService = 2
  Elapsed = {10}
  Free = Free
SYMMETRY Symmetry
INVARIANTS TypeOK OneLocalExecution QueuesAgree NoLostWakeup ServedInOrder
CHECK_DEADLOCK FALSE
