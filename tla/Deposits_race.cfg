SPECIFICATION FairSpec
CONSTANTS
  Deposit = {d1}
  Worker = {w1, w2}
  NoDeposit = NoDeposit
  Known = {d1}
  Closed = {}
  Exempt = {}
  MaxErrors = 0
  MaxCrashes = 0
  Env = {}
PROPERTY SuccessfulIsCredited
CHECK_DEADLOCK FALSE
