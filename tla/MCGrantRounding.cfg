\* Every lockup the contract accepts: is its vesting ahead at any time?
SPECIFICATION Spec
CONSTANTS
  None = None
  alice = alice
  dao = dao
  Accounts <- MCAccounts
  Instants = {0, 4}
  VestingInstants = {0, 1, 4}
  MaxBalance = 3
  MaxTime = 5
  NewLockups <- AcceptedLockups
INVARIANTS
  VestingAheadAtAnyTime
CHECK_DEADLOCK FALSE
