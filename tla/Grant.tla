-------------------------------- MODULE Grant --------------------------------
(***************************************************************************)
(* The life of one lockup, for every schedule and every vesting schedule   *)
(* of a set: time passes, the owner claims, the payer terminates.  Claims  *)
(* are taken to be paid at once: module Lockups has the transfers.         *)
(***************************************************************************)
EXTENDS Lockup

CONSTANT NewLockups,    \* records that passed assert_new_valid
         MaxTime        \* bound on the clock

VARIABLE now,           \* block timestamp, in seconds
         lockup,        \* the stored record
         granted        \* the record as it was created (history)

vars == <<now, lockup, granted>>

ASSUME MaxTimeAssumption == MaxTime \in Nat \ {0}

ASSUME NewLockupsAccepted ==
  \A l \in NewLockups : l \in LockupType /\ assert_new_valid(l, total_balance(l.schedule))

Init == /\ now = 1
        /\ lockup \in NewLockups
        /\ granted = lockup

Tick == /\ now < MaxTime
        /\ now' = now + 1
        /\ UNCHANGED <<lockup, granted>>

(* Mutant: a claim is subtracted from the claimed balance.                 *)
ClaimSubtracts(claim_amount) ==
  /\ can_claim(lockup, now, claim_amount)
  /\ lockup' = [lockup EXCEPT !.claimed_balance = @ - claim_amount]
  /\ UNCHANGED <<now, granted>>

(* claim: the record's side of it.                                         *)
Claim(claim_amount) ==
  /\ can_claim(lockup, now, claim_amount)
  /\ lockup' = [lockup EXCEPT !.claimed_balance = @ + claim_amount]
  /\ UNCHANGED <<now, granted>>

(* Mutant: the termination may be dated back.                              *)
TerminateInThePast(termination_timestamp) ==
  /\ lockup.termination_config # None
  /\ can_terminate(lockup, vesting_schedule(lockup))
  /\ lockup' = terminate_lockup(lockup, termination_timestamp)
  /\ UNCHANGED <<now, granted>>

(* Contract::terminate asserts termination_timestamp >= now.  The revealed *)
(* schedule, where one is needed, is the one that was hashed.              *)
Terminate(termination_timestamp) ==
  /\ termination_timestamp >= now
  /\ lockup.termination_config # None
  /\ can_terminate(lockup, vesting_schedule(lockup))
  /\ lockup' = terminate_lockup(lockup, termination_timestamp)
  /\ UNCHANGED <<now, granted>>

Next == \/ Tick
        \/ \E claim_amount \in 1..total_balance(granted.schedule) : Claim(claim_amount)
        \/ \E termination_timestamp \in 0..MaxTime : Terminate(termination_timestamp)

Spec == Init /\ [][Next]_vars

-----------------------------------------------------------------------------
TypeOK == /\ now \in 1..MaxTime
          /\ lockup \in LockupType
          /\ granted \in LockupType

(* unlocked_balance is the piecewise linear curve through the checkpoints, *)
(* rounded down: the reference states it without the binary search, as the *)
(* bounds that every segment around an instant puts on the value, for the  *)
(* granted and for the terminated schedule (schedule.rs:99-129).           *)
OnTheLine(s, t) ==
  LET b == unlocked_balance(s, t) IN
  /\ t <= s[1].timestamp => b = 0
  /\ t >= s[Len(s)].timestamp => b = total_balance(s)
  /\ \A k \in 1..(Len(s) - 1) :
       t \in s[k].timestamp .. s[k + 1].timestamp =>
         LET duration == s[k + 1].timestamp - s[k].timestamp
             grown    == (t - s[k].timestamp) * (s[k + 1].balance - s[k].balance)
         IN  /\ (b - s[k].balance) * duration <= grown
             /\ grown < (b - s[k].balance + 1) * duration

UnlockedOnTheLine == \A t \in 0..MaxTime : OnTheLine(lockup.schedule, t)

(* A termination leaves a schedule that the rest of the code can read, of  *)
(* two checkpoints at least and increasing, and that ends at the balance   *)
(* which the vesting schedule the lockup was granted with has released at  *)
(* the instant of the termination, whatever was claimed before             *)
(* (schedule.rs:137-171, termination.rs:24-51).                            *)
TerminatedIsWellFormed ==
  [][\A t \in 0..MaxTime : Terminate(t) =>
       /\ Increasing(lockup'.schedule)
       /\ total_balance(lockup'.schedule) = unlocked_balance(vesting_schedule(granted), t)]_vars

(* Termination never releases a token earlier than the schedule the lockup *)
(* was granted with (schedule.rs:158 rounds the new timestamp up).         *)
NeverAheadOfGrant ==
  \A t \in 0..MaxTime :
    unlocked_balance(lockup.schedule, t) <= unlocked_balance(granted.schedule, t)

(* A termination takes nothing the owner could already have claimed: what  *)
(* is left to the lockup covers all that was unlocked when it was called.  *)
TerminationKeepsUnlocked ==
  [][total_balance(lockup'.schedule) >= unlocked_balance(lockup.schedule, now)]_vars

(* A termination never moves the end of a schedule to a later instant,     *)
(* although its instant is rounded up and an empty schedule must not end   *)
(* before it starts.  So the 32 bits that as_u32 narrows the new end to    *)
(* hold it (schedule.rs:138-161).                                          *)
Finish(l) == l.schedule[Len(l.schedule)].timestamp

TerminationNeverEndsLater == [][Finish(lockup') <= Finish(lockup)]_vars

(* The rounding delays what was unlocked by less than two seconds: at any  *)
(* instant a terminated lockup has released at least what the granted      *)
(* schedule had one second before, up to the vested balance.               *)
LagsAtMostOneSecond ==
  \A t \in 0..(MaxTime - 1) :
    LET before == unlocked_balance(granted.schedule, t)
        total  == total_balance(lockup.schedule)
    IN  unlocked_balance(lockup.schedule, t + 1) >= IF before < total THEN before ELSE total

(* Where accepted vesting schedules are ahead of the lockup schedule, what *)
(* was claimed is unlocked within a second: the subtraction of claimed     *)
(* from unlocked in claim(None) and in every view (lib.rs:184,             *)
(* lockup.rs:152) cannot keep panicking.  After a termination by one that  *)
(* is behind (VestingAheadAtAnyTime) it can.                               *)
ClaimedUnlockedNextSecond == unclaimed_balance(lockup, now + 1) >= 0

(* A payer who keeps the vesting schedule secret tries it with             *)
(* validate_schedule first (view.rs:63-74), as nobody can check its hash.  *)
(* If that accepts, revealing it later works, whatever was claimed         *)
(* meanwhile: the tokens cannot get stuck behind a hash.                   *)
ValidatedCanBeRevealed ==
  LET config == lockup.termination_config
      total  == total_balance(granted.schedule)
  IN
  (/\ config # None
   /\ config.vesting_schedule.kind = "Hash"
   /\ validate_schedule(granted.schedule, total, config.vesting_schedule.schedule))
  => can_terminate(lockup, config.vesting_schedule.schedule)

-----------------------------------------------------------------------------
(* schedule.rs:80 says of assert_valid_termination_schedule that it        *)
(* "Verifies that this schedule is ahead of the given termination schedule *)
(* at any point of time" (README.md:11: the vesting schedule "should be    *)
(* ahead of the lockup schedule"): a vesting schedule that was checked on  *)
(* creation is at no instant behind the schedule it vests.                 *)
VestingAheadAtAnyTime ==
  \/ lockup.termination_config = None
  \/ lockup.termination_config.vesting_schedule.kind = "Hash"
  \/ AheadUpTo(lockup.schedule, vesting_schedule(lockup), MaxTime)

(* README.md:13 "Claiming all account's lockups in a single transaction.": *)
(* claim(None) computes unlocked - claimed for every listed lockup and     *)
(* panics for all of them when one is negative.                            *)
ClaimAllNeverPanics == unclaimed_balance(lockup, now) >= 0
=============================================================================
