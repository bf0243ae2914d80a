SPECIFICATION AllFairSpec
CONSTANTS
  d1 = d1
  d2 = d2
  w1 = w1
  Deposit = {d1}
  Worker = {w1, w2, w3}
  NoDeposit = NoDeposit
  Known = {d1}
  Closed = {}
  Exempt = {}
  MaxErrors = 1
  MaxCrashes = 1
  Env = {"hold", "noPrice"}
INVARIANT CreditedOnlyIfSuccessful
INVARIANT DepositRowOnce
INVARIANT FeeOnce
PROPERTY CreditStays
PROPERTY CalmIsCredited
CHECK_DEADLOCK FALSE
