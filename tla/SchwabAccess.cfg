SPECIFICATION Spec
CONSTANTS
  None = None
  Accounts = {a1, a2}
  Hashes = {h1, h2}
  Owner = {o1}
  MaxTokens = 2
SYMMETRY MCSymmetry
INVARIANTS
  TypeOK
  ReadyDistinct
PROPERTIES
  TokenReplaced
