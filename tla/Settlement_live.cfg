SPECIFICATION AllFairSpec
CONSTANTS
  Purchase = {p1, p2}
  Run = {r1}
  NoPurchase = NoPurchase
  Price <- MCPrice
  Checked = {p1}
  Funds = 3
  MaxRetries = 2
  MaxCrashes = 1
  Env = {"unreached", "deletion"}
  Withdrawal = {w1}
  Hook = {h1}
  NoOne = NoOne
INVARIANT GivingUpIsSafe
PROPERTY PayoutsSettle
PROPERTY SuccessIsAnnounced
PROPERTY BillsSettle
CHECK_DEADLOCK FALSE
