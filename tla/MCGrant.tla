------------------------------ MODULE MCGrant ------------------------------
(* Bounded instances of Grant: every lockup the contract accepts whose     *)
(* schedules have two or three checkpoints at instants of Instants and     *)
(* balances up to MaxBalance.                                              *)
EXTENDS Grant, TLC

CONSTANTS Instants, VestingInstants, MaxBalance, alice, dao

MCAccounts == {alice, dao}

SchedulesAt(instants) ==
  LET checkpoints == [timestamp : instants, balance : 0..MaxBalance]
  IN  { s \in [1..2 -> checkpoints] \cup [1..3 -> checkpoints] :
          Increasing(s) /\ total_balance(s) > 0 }

Granted(schedule, config) ==
  [account_id |-> alice, schedule |-> schedule, claimed_balance |-> 0,
   termination_config |-> config]

Config(kind, schedule) ==
  [beneficiary_id |-> dao, vesting_schedule |-> [kind |-> kind, schedule |-> schedule]]

LockupSchedules  == SchedulesAt(Instants)
VestingSchedules == SchedulesAt(VestingInstants)

(* Everything assert_new_valid accepts.                                    *)
AcceptedLockups ==
  LET plain  == { Granted(s, c) : s \in LockupSchedules,
                                  c \in {None, Config("SameAsLockupSchedule", <<>>)} }
      vested == { Granted(s, Config(kind, v)) :
                    s \in LockupSchedules, v \in VestingSchedules, kind \in {"Schedule", "Hash"} }
  IN  plain \cup { l \in vested : assert_new_valid(l, total_balance(l.schedule)) }

(* Of these, the ones whose vesting really is ahead at every instant, or   *)
(* is hidden behind a hash that can never be revealed.                     *)
VestedAheadLockups ==
  { l \in AcceptedLockups :
      \/ l.termination_config = None
      \/ ~ can_terminate(l, vesting_schedule(l))
      \/ AheadUpTo(l.schedule, vesting_schedule(l), MaxTime) }
=============================================================================
