SPECIFICATION BridgeSpec
CONSTANTS
  d1 = d1
  d2 = d2
  Deliveries = {d1, d2}
  Terminal = {d2}
  InFlightLimit = 2
  UncertainLimit = 1
  MaxTries = 1
  Budgets <- MCBudgets
INVARIANTS NothingLost ShownOnce RequestsAwait
PROPERTIES WakesForNews AllAreRead
