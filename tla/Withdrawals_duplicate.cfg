SPECIFICATION Spec
CONSTANTS
  Withdrawal = {"w1"}
  Transfer = {}
  Run = {r1}
  Hook = {h1}
  NoOne = NoOne
  Amount <- MCAmount
  Funds <- MCFunds
  Ceiling <- MCCeiling
  MaxRetries = 1
  MaxCrashes = 0
  Env = {"slowInitiation"}
INVARIANT PaidStaysDebited
CHECK_DEADLOCK FALSE
