SPECIFICATION Spec
CONSTANTS
  Instances = {i1, i2}
  Namespaces = {"auth"}
  Probed = {"auth"}
  Writes = {w1, w2}
  Restored = Restored
  None = None
SYMMETRY Symmetry
INVARIANTS TypeOK MemoryIsCommitted ReadyIsCurrent NoLostUpdate
CHECK_DEADLOCK FALSE
