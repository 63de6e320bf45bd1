SPECIFICATION MCSpec
CONSTANTS
  Reports <- MCReports
  Derivations <- MCDerivations
  Contexts <- MCContexts
  MaxValues = 4
  MaxPrecision = 3
  Outgoing <- MCOutgoing
  Altered <- Changed
  MaxChanges = 2
INVARIANTS
  AddressNamesComputation
  AddressDecidesValue
  WeakestReportDecides
  NothingLostUnasked
  CurrenciesStayApart
  RoundedAsAsked
  RoundTrips
  NothingInvented
CHECK_DEADLOCK FALSE
