SPECIFICATION Spec
CONSTANTS
  Admins = {a1, a2}
  Changes = {c1}
  Handlers = {h1, h2}
  None = None
SYMMETRY Symmetry
PROPERTIES AppliedIdNotReused

CHECK_DEADLOCK FALSE
