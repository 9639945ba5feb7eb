SPECIFICATION Spec
CONSTANTS
  o1 = o1
  o2 = o2
  Owners <- MCOwners
  Shares = {1, 2}
  Notionals = {2}
  Prices = {1, 2}
  Choices <- MCChoices
  QuoteLife = 0
  DraftLife = 1
  MaxTime = 2
  MaxVersion = 2
  MaxChanges = 2
SYMMETRY Symmetry
INVARIANTS TypeOK SentWithinLimits
PROPERTY NoLostUpdate
CHECK_DEADLOCK FALSE
