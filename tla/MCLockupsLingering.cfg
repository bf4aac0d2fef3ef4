\* Is a fully claimed lockup unlisted?
SPECIFICATION Spec
CONSTANTS
  None = None
  alice = alice
  dao = dao
  ops = ops
  Accounts = {alice, dao}
  LockupCreates <- Terminable
  Deposits = {1, 2}
  ClaimAmounts = {1, None}
  InitialWhitelist = {dao}
  Operators = {}
  MaxTime = 3
  MaxLockups = 2
  MaxPromises = 3
  MaxOpenClaims = 2
INVARIANTS
  FullyClaimedIsUnlisted
CHECK_DEADLOCK FALSE
