------------------------------- MODULE Lockup -------------------------------
(***************************************************************************)
(* The lockup record of model/src/lockup.rs and its termination in         *)
(* model/src/termination.rs: what one call computes from one record.  The  *)
(* modules that keep lockups in variables (Grant, Lockups) are built from  *)
(* these operators.  Option::None is the model value None.                 *)
(***************************************************************************)
EXTENDS Schedule

CONSTANT Accounts,  \* account IDs
         None       \* Option::None

(* The variants of the enum; `schedule' is the payload of Schedule, the    *)
(* preimage of the payload of Hash (SHA-256 is taken to be injective), and *)
(* <<>> for SameAsLockupSchedule.                                          *)
VestingConditions == [kind : {"SameAsLockupSchedule", "Hash", "Schedule"}, schedule : Schedules]

TerminationConfig == [beneficiary_id : Accounts, vesting_schedule : VestingConditions]

LockupType == [account_id : Accounts, schedule : Schedules, claimed_balance : Nat,
               termination_config : TerminationConfig \cup {None}]

LockupCreate == [account_id : Accounts, schedule : Schedules,
                 vesting_schedule : VestingConditions \cup {None}]

ASSUME NoneIsNoValue == /\ None \notin VestingConditions
                        /\ None \notin TerminationConfig
                        /\ None \notin Nat
                        /\ None \notin Accounts
                        /\ None \notin Schedules

new_lockup_unlocked_since(account_id, total, timestamp) ==
  [account_id |-> account_id, schedule |-> new_unlocked_since(total, timestamp),
   claimed_balance |-> 0, termination_config |-> None]

into_lockup(lockup_create, payer_id) ==
  [account_id |-> lockup_create.account_id, schedule |-> lockup_create.schedule,
   claimed_balance |-> 0,
   termination_config |->
     IF lockup_create.vesting_schedule = None THEN None
     ELSE [beneficiary_id |-> payer_id, vesting_schedule |-> lockup_create.vesting_schedule]]

assert_new_valid(lockup, total) ==
  /\ lockup.claimed_balance = 0
  /\ assert_valid(lockup.schedule, total)
  /\ lockup.termination_config # None =>
       LET vesting == lockup.termination_config.vesting_schedule IN
       vesting.kind = "Schedule" =>
         /\ assert_valid(vesting.schedule, total)
         /\ assert_valid_termination_schedule(lockup.schedule, vesting.schedule)

(* The view by which a payer tries schedules before they are deposited or  *)
(* hashed: it answers, or panics.                                          *)
validate_schedule(schedule, total, termination_schedule) ==
  /\ assert_valid(schedule, total)
  /\ termination_schedule # None =>
       /\ assert_valid(termination_schedule, total)
       /\ assert_valid_termination_schedule(schedule, termination_schedule)

(* unlocked_balance - claimed_balance, as claim and the views compute it:  *)
(* they panic when it is negative.                                         *)
unclaimed_balance(lockup, t) == unlocked_balance(lockup.schedule, t) - lockup.claimed_balance

(* Mutant: what was claimed before is forgotten.                           *)
ForgetsClaimed(lockup, t, claim_amount) == claim_amount <= unlocked_balance(lockup.schedule, t)

(* Lockup::claim succeeds: the claimed balance stays within the unlocked.  *)
can_claim(lockup, t, claim_amount) ==
  lockup.claimed_balance + claim_amount <= unlocked_balance(lockup.schedule, t)

(* Mutant: final only when everything is claimed at once.                  *)
FinalAtOnce(lockup, claim_amount) == claim_amount = total_balance(lockup.schedule)

is_final(lockup, claim_amount) ==
  lockup.claimed_balance + claim_amount = total_balance(lockup.schedule)

(* The schedule the termination measures the vested balance by.            *)
vesting_schedule(lockup) ==
  LET vesting == lockup.termination_config.vesting_schedule
  IN  IF vesting.kind = "SameAsLockupSchedule" THEN lockup.schedule ELSE vesting.schedule

(* Mutant: a revealed schedule is not compared with the lockup's.          *)
RevealedUnchecked(lockup, hashed_schedule) ==
  /\ lockup.termination_config # None
  /\ lockup.termination_config.vesting_schedule.kind = "Hash" =>
       /\ hashed_schedule = vesting_schedule(lockup)
       /\ assert_valid(hashed_schedule, total_balance(lockup.schedule))

(* Mutant: a revealed schedule has to end at what is not claimed yet.      *)
RevealedForTheRest(lockup, hashed_schedule) ==
  /\ lockup.termination_config # None
  /\ lockup.termination_config.vesting_schedule.kind = "Hash" =>
       /\ hashed_schedule = vesting_schedule(lockup)
       /\ assert_valid(hashed_schedule, total_balance(lockup.schedule) - lockup.claimed_balance)
       /\ assert_valid_termination_schedule(lockup.schedule, hashed_schedule)

(* Lockup::terminate succeeds: a hashed vesting schedule is only checked   *)
(* now that it is revealed.                                                *)
can_terminate(lockup, hashed_schedule) ==
  /\ lockup.termination_config # None
  /\ lockup.termination_config.vesting_schedule.kind = "Hash" =>
       /\ hashed_schedule = vesting_schedule(lockup)
       /\ assert_valid(hashed_schedule, total_balance(lockup.schedule))
       /\ assert_valid_termination_schedule(lockup.schedule, hashed_schedule)

(* Mutant: vested one second before the termination.                       *)
VestedBefore(lockup, termination_timestamp) ==
  unlocked_balance(vesting_schedule(lockup), termination_timestamp - 1)

vested_balance(lockup, termination_timestamp) ==
  unlocked_balance(vesting_schedule(lockup), termination_timestamp)

(* Mutant: the unvested balance measured by the lockup's own schedule.     *)
UnvestedBySchedule(lockup, termination_timestamp) ==
  total_balance(lockup.schedule) - unlocked_balance(lockup.schedule, termination_timestamp)

unvested_balance(lockup, termination_timestamp) ==
  total_balance(lockup.schedule) - vested_balance(lockup, termination_timestamp)

(* Mutant: the configuration stays, so that the lockup can be terminated   *)
(* again.                                                                  *)
KeepsConfig(lockup, termination_timestamp) ==
  [lockup EXCEPT
     !.schedule = IF unvested_balance(lockup, termination_timestamp) > 0
                  THEN terminate(@, vested_balance(lockup, termination_timestamp),
                                 termination_timestamp)
                  ELSE @]

(* The record Lockup::terminate leaves behind: the configuration is taken  *)
(* whether or not anything is unvested.                                    *)
terminate_lockup(lockup, termination_timestamp) ==
  [lockup EXCEPT
     !.termination_config = None,
     !.schedule = IF unvested_balance(lockup, termination_timestamp) > 0
                  THEN terminate(@, vested_balance(lockup, termination_timestamp),
                                 termination_timestamp)
                  ELSE @]
=============================================================================
