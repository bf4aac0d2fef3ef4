\* Every kind of vesting, also one that is behind between its checkpoints,
\* one claim of an account in flight at a time.
SPECIFICATION Spec
CONSTANTS
  None = None
  alice = alice
  dao = dao
  ops = ops
  Accounts = {alice, dao}
  LockupCreates <- EveryKind
  Deposits = {1, 2}
  ClaimAmounts = {1, None}
  InitialWhitelist = {dao}
  Operators = {}
  MaxTime = 3
  MaxLockups = 2
  MaxPromises = 3
  MaxOpenClaims = 1
INVARIANTS
  Conservation
  ClaimedWithinTotalButOne
  UnclaimedIsListed
CHECK_DEADLOCK FALSE
