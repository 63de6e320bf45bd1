SPECIFICATION MCSpec
CONSTANTS
  Reports <- MCReports
  Derivations <- JoinedDerivations
  Contexts <- MCContexts
  MaxValues = 4
  MaxPrecision = 3
  Outgoing <- MCOutgoing
  Altered <- Changed
  MaxChanges = 2
INVARIANT AddressNamesComputation
CHECK_DEADLOCK FALSE
