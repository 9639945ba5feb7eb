SPECIFICATION OverviewSpec
CONSTANTS
  a1 = a1
  a2 = a2
  Missing = Missing
  Accounts <- MCAccounts
  Offers <- MCOffers
  Days = 2
SYMMETRY Symmetry
INVARIANTS OverviewTypeOK TotalsAddUp SharesAddUp HistoryAgrees
