------------------------------ MODULE MCDrafts ------------------------------
(* Bounded instances of Drafts: the accounts and the messages.             *)
EXTENDS Drafts, TLC

CONSTANTS alice, dao, ops

Point(t, b) == [timestamp |-> t, balance |-> b]

Message(total) ==
  [account_id |-> alice, schedule |-> << Point(1, 0), Point(2, total) >>,
   vesting_schedule |-> [kind |-> "SameAsLockupSchedule", schedule |-> <<>>]]

(* Drafts that differ in their balance, so that totals tell them apart.    *)
One == { Message(1) }
OneOrTwo == { Message(1), Message(2) }
=============================================================================
