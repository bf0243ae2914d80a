SPECIFICATION Spec
CONSTANTS
  User = {u1, u2}
  Tx = {}
  Country <- MCCountry
  Length <- MCLength
  Asset <- MCAsset
  MaxDays = 2
  LongDays = 1
  MaxTime = 4
  MaxChanges = 3
  Report = {"overview"}
INVARIANT PendingIsUnverified
CHECK_DEADLOCK FALSE
