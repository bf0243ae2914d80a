SPECIFICATION AllSpec
CONSTANTS
  Slot = {s1, s2}
  Network = {btc, sol}
  Family <- MCFamily
  Lenient <- MCLenient
  Swallowing <- MCSwallowing
  Silent <- MCLenient
  Unchecked <- MCLenient
  MaxIndex = 1
  Legacy = Legacy
  MaxTx = 2
  MaxDeposits = 1
  MaxCrashes = 1
  Account = {u1}
  MaxCodes = 2
  User = {u1, u2}
  Bvn = {b1, b2, b3}
  ExcerptOf <- MCExcerptOf
  Matches <- MCMatches
  MaxStops = 1
  KycEnv = {}
  Tx = {s1, s2}
  Country <- MCCountry
  Asset <- MCAsset
  Length <- MCLength
  MaxDays = 2
  LongDays = 1
  MaxTime = 3
  MaxChanges = 3
  Report = {"overview", "perUser", "cashFlow", "deposits", "volume", "daily", "funnel", "locations"}
  u1 = u1
  u2 = u2
  b1 = b1
  b2 = b2
  b3 = b3
  btc = btc
  sol = sol
SYMMETRY Symmetry
INVARIANT AllTypesOK
INVARIANT CodesHold
INVARIANT OneUserPerBvn
INVARIANT CreditIsBacked
INVARIANT MovedIsCredited
INVARIANT FiguresAgree
PROPERTY DeletedIsOver
PROPERTY VerifiedIsNotLost
PROPERTY SweptIsPaidIn
CHECK_DEADLOCK FALSE
