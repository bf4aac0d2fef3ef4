\* Vesting ahead of the schedule: does claim(None) always compute?
SPECIFICATION Spec
CONSTANTS
  None = None
  alice = alice
  dao = dao
  Accounts <- MCAccounts
  Instants = {0, 4}
  VestingInstants = {0, 4}
  MaxBalance = 6
  MaxTime = 5
  NewLockups <- VestedAheadLockups
INVARIANTS
  ClaimAllNeverPanics
CHECK_DEADLOCK FALSE
