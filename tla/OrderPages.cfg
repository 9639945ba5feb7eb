SPECIFICATION Spec
CONSTANTS
  None = None
  Ids = {1, 2, 3, 4}
  Times = {1, 2}
  Filters = {f, g}
  Limits = {1, 2}
SYMMETRY MCSymmetry
INVARIANTS
  TypeOK
  InOrder
  Complete
