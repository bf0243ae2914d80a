SPECIFICATION AllSpec
CONSTANTS
  Withdrawal = {"w1", "w2"}
  Transfer = {"t1"}
  Run = {r1, r2}
  Hook = {h1, h2}
  NoOne = NoOne
  Amount <- AccountAmount
  Funds = 4
  Ceiling <- AccountCeiling
  MaxRetries = 2
  MaxCrashes = 1
  Env = {"unheard"}
SYMMETRY Symmetry
INVARIANT PaidStaysDebited
INVARIANT AttemptClaimedOnce
INVARIANT SuccessOnlyIfPaid
INVARIANT NoOverdraft
PROPERTY ImplementsPayoutLedger
PROPERTY WithinDailyCap
CHECK_DEADLOCK FALSE
