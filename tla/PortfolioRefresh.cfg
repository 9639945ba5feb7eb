SPECIFICATION Spec
CONSTANTS
  a1 = a1
  a2 = a2
  p1 = p1
  p2 = p2
  Accounts = {a1, a2}
  Providers = {p1, p2}
  ProviderOf <- MCProviderOf
  Runs = {r1, r2}
  t1 = t1
  Transactions = {t1}
  AccountOf <- MCAccountOf
SYMMETRY MCSymmetry
INVARIANTS
  TypeOK
  FreshIsRecent
  CoverageMatches
  OverviewComplete
  TradableIsRecent
PROPERTIES
  NothingLost
