\* Two fundings of a group in flight, and whitelists that change.
SPECIFICATION EventsFairSpec
CONSTANTS
  None = None
  alice = alice
  dao = dao
  ops = ops
  Accounts = {alice, dao}
  LockupCreates <- One
  Deposits = {}
  ClaimAmounts = {None}
  InitialWhitelist = {alice, dao}
  Operators = {alice, dao}
  MaxTime = 1
  MaxLockups = 2
  MaxPromises = 0
  MaxOpenClaims = 0
  InitialDraftOperators = {}
  Funders = {alice, dao}
  FundingAmounts = {1, 2}
  MaxAmount = 4
  MaxGroups = 1
  MaxDrafts = 2
  MaxBatch = 2
  MaxFundings = 2
INVARIANTS
  TotalConservation
  FundingBuysItsDrafts
  ConvertedAsWritten
  MirrorAgrees
PROPERTIES
  EveryFundingSettles
  WholeImplementsEscrow
CHECK_DEADLOCK FALSE
