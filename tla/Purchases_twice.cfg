SPECIFICATION Spec
CONSTANTS
  Purchase = {p1}
  Run = {r1, r2}
  NoPurchase = NoPurchase
  Price <- MCPrice
  Checked = {p1}
  Funds <- MCFunds
  MaxRetries = 2
  MaxCrashes = 0
  Env = {}
INVARIANT DebitedOnce
CHECK_DEADLOCK FALSE
