\* Every lockup of the bounds whose vesting is ahead of its schedule.
SPECIFICATION Spec
CONSTANTS
  None = None
  alice = alice
  dao = dao
  Accounts <- MCAccounts
  Instants = {0, 1, 4}
  VestingInstants = {0, 1, 3}
  MaxBalance = 6
  MaxTime = 6
  NewLockups <- VestedAheadLockups
INVARIANTS
  TypeOK
  UnlockedOnTheLine
  NeverAheadOfGrant
  LagsAtMostOneSecond
  ClaimedUnlockedNextSecond
  ValidatedCanBeRevealed
PROPERTIES
  TerminatedIsWellFormed
  TerminationKeepsUnlocked
  TerminationNeverEndsLater
CHECK_DEADLOCK FALSE
