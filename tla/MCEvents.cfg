\* Deposits, claims and terminations next to drafts: the whole contract.
SPECIFICATION EventsSpec
CONSTANTS
  None = None
  alice = alice
  dao = dao
  ops = ops
  Accounts = {alice, dao}
  LockupCreates <- One
  Deposits = {1}
  ClaimAmounts = {None}
  InitialWhitelist = {dao}
  Operators = {}
  MaxTime = 2
  MaxLockups = 3
  MaxPromises = 2
  MaxOpenClaims = 1
  InitialDraftOperators = {alice}
  Funders = {dao}
  FundingAmounts = {1}
  MaxAmount = 4
  MaxGroups = 1
  MaxDrafts = 1
  MaxBatch = 1
  MaxFundings = 1
INVARIANTS
  TotalConservation
  MirrorAgrees
PROPERTIES
  WholeImplementsEscrow
CHECK_DEADLOCK FALSE
