SPECIFICATION Spec
CONSTANTS
  Admins = {a1, a2, a3}
  Changes = {c1, c2}
  Handlers = {h1, h2, h3}
  None = None
SYMMETRY Symmetry
INVARIANTS TypeOK TwoAdministrators PolicyIsApproved
PROPERTIES AppliedIsFinal

CHECK_DEADLOCK FALSE
