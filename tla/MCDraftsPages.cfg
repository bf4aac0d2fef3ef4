\* Paging over the groups that are left.
SPECIFICATION DraftsSpec
CONSTANTS
  None = None
  alice = alice
  dao = dao
  ops = ops
  Accounts = {alice, dao}
  LockupCreates <- OneOrTwo
  Deposits = {}
  ClaimAmounts = {None}
  InitialWhitelist = {dao}
  Operators = {}
  MaxTime = 1
  MaxLockups = 3
  MaxPromises = 0
  MaxOpenClaims = 0
  InitialDraftOperators = {alice}
  Funders = {alice, dao}
  FundingAmounts = {1, 2, 3}
  MaxAmount = 4
  MaxGroups = 2
  MaxDrafts = 3
  MaxBatch = 2
  MaxFundings = 1
INVARIANTS
  PagesAreClamped
CHECK_DEADLOCK FALSE
