SPECIFICATION AllFairSpec
CONSTANTS
  User = {u1, u2}
  Pair = {p1, p2}
  MaxAccounts = 3
  Window = 3
  MaxFailures = 2
  Env = {}
  Admin = {a1, a2}
  Seeded = {a1}
  Slot = {s1, s2}
  MaxInvites = 2
  DoubleAccept = FALSE
  Broken = {u2}
  MaxDeposits = 2
  Reader = {r1}
  Timer = timer
  Token = {k1, k2, k3}
  MaxCrashes = 1
INVARIANT AllTypesOK
INVARIANT RowsPayIn
PROPERTY SuspensionSticks
PROPERTY SuspendedIsShutOut
PROPERTY AllProvisioned
PROPERTY EveryBalanceSwept
PROPERTY TokenComesBack
CHECK_DEADLOCK FALSE
