SPECIFICATION FairSpec
CONSTANTS
  u1 = u1
  u2 = u2
  r1 = r1
  r2 = r2
  r3 = r3
  h1 = h1
  h2 = h2
  q1 = q1
  q2 = q2
  q3 = q3
  User = {u1}
  Referee = {r1, r2}
  Referrer <- OneReferrer
  Worker = {nightly, h1}
  Nightly = nightly
  NoReferee = NoReferee
  Request = {q1, q2}
  Threshold = 1
  Figures = {1500}
  Leaving = {r1}
  Unsettled = {r1}
  MaxDeposits = 1
  MaxErrors = 1
  MaxCrashes = 1
INVARIANT RewardsAreDue
INVARIANT EarningsConserved
PROPERTY ImplementsLedger
PROPERTY QualifiedIsRewarded
PROPERTY TapEnds
CHECK_DEADLOCK FALSE
