\* Who may terminate a lockup?
SPECIFICATION Spec
CONSTANTS
  None = None
  alice = alice
  dao = dao
  ops = ops
  Accounts = {alice, dao, ops}
  LockupCreates <- Terminable
  Deposits = {1, 2}
  ClaimAmounts = {1, None}
  InitialWhitelist = {dao, ops}
  Operators = {}
  MaxTime = 3
  MaxLockups = 2
  MaxPromises = 3
  MaxOpenClaims = 2
INVARIANTS
  OnlyBeneficiaryTerminates
CHECK_DEADLOCK FALSE
