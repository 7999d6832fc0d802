SPECIFICATION Spec
CONSTANTS
  alice = alice
  bob = bob
  Callers <- TwoCallers
  Cost = 2
  Burst = 1
  Horizon = 7
  Lifetime = 3
  RefreshLife = 4
  Margin = 2
  Timeout = 1
INVARIANTS TypeOK TakenWithinRate AdmittedWithinRates SentTokenIsValid
CHECK_DEADLOCK FALSE
