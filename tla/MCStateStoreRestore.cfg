SPECIFICATION PolledSpec
CONSTANTS
  Instances = {i1}
  Namespaces = {"auth", "control", "governance"}
  Probed = {"auth", "control"}
  Writes = {w1}
  Restored = Restored
  None = None
INVARIANTS RestoreKeepsACopy
 
CHECK_DEADLOCK FALSE
