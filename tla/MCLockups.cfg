\* Two overlapping claims per account, terminations, failing transfers.
SPECIFICATION FairSpec
CONSTANTS
  None = None
  alice = alice
  dao = dao
  ops = ops
  Accounts = {alice, dao}
  LockupCreates <- Terminable
  Deposits = {1, 2}
  ClaimAmounts = {1, None}
  InitialWhitelist = {dao}
  Operators = {}
  MaxTime = 3
  MaxLockups = 2
  MaxPromises = 3
  MaxOpenClaims = 2
INVARIANTS
  TypeOK
  Conservation
  IndexerAgrees
  ClaimedWithinTotal
  NothingClaimedEarly
  ListedAreOwnAndNotEmpty
  PaidOutIsUnlisted
PROPERTIES
  ImplementsEscrow
  EveryTransferSettles
CHECK_DEADLOCK FALSE
