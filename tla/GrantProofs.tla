---------------------------- MODULE GrantProofs ----------------------------
(***************************************************************************)
(* The life of one lockup, for every lockup the contract accepts and every *)
(* bound on the clock: what a termination does to the owner's schedule.    *)
(* All of it follows from IInv, whose parts the runs of MCGrant check.     *)
(***************************************************************************)
EXTENDS Grant, ScheduleProofs

(* A lockup that can still be terminated is as it was granted, but for     *)
(* what was claimed.                                                       *)
Untouched == lockup.termination_config # None =>
               /\ lockup.schedule = granted.schedule
               /\ lockup.termination_config = granted.termination_config

IInv == /\ TypeOK
        /\ granted \in NewLockups
        /\ Increasing(lockup.schedule)
        /\ Untouched
        /\ NeverAheadOfGrant
        /\ LagsAtMostOneSecond

-----------------------------------------------------------------------------
(* What the types and the assertions at creation say of one record.        *)

LEMMA RecordFields ==
  ASSUME NEW l \in LockupType
  PROVE  /\ l.account_id \in Accounts
         /\ l.schedule \in Schedules
         /\ l.claimed_balance \in Nat
         /\ l.termination_config \in TerminationConfig \cup {None}
         /\ l.termination_config # None => vesting_schedule(l) \in Schedules
BY DEF LockupType, TerminationConfig, VestingConditions, vesting_schedule

LEMMA RecordIs ==
  ASSUME NEW l \in LockupType, NEW s \in Schedules, NEW c \in Nat
  PROVE  /\ [l EXCEPT !.claimed_balance = c] \in LockupType
         /\ [l EXCEPT !.termination_config = None, !.schedule = s] \in LockupType
BY DEF LockupType

LEMMA NewLockupIs ==
  ASSUME NEW l \in NewLockups
  PROVE  /\ l \in LockupType
         /\ l.schedule \in Schedules
         /\ l.claimed_balance = 0
         /\ Increasing(l.schedule)
         /\ total_balance(l.schedule) > 0
BY NewLockupsAccepted, RecordFields DEF assert_new_valid, assert_valid

(* The schedule a termination measures by was checked, when the lockup was *)
(* created or when it is revealed (lockup.rs:66-98, termination.rs:19-35). *)
LEMMA VestingChecked ==
  ASSUME NEW l \in NewLockups, l.termination_config # None,
         can_terminate(l, vesting_schedule(l))
  PROVE  LET v == vesting_schedule(l) IN
         /\ v \in Schedules
         /\ Increasing(v)
         /\ total_balance(v) = total_balance(l.schedule)
         /\ v = l.schedule \/ assert_valid_termination_schedule(l.schedule, v)
<1> DEFINE v == vesting_schedule(l)
           vesting == l.termination_config.vesting_schedule
<1>1. l \in LockupType /\ Increasing(l.schedule) /\ v \in Schedules
  BY NewLockupIs, RecordFields
<1>2. vesting \in VestingConditions
  BY <1>1 DEF LockupType, TerminationConfig
<1>3. CASE vesting.kind = "SameAsLockupSchedule"
  BY <1>1, <1>3 DEF vesting_schedule
<1>4. CASE vesting.kind = "Schedule"
  <2>1. v = vesting.schedule
    BY <1>4 DEF vesting_schedule
  <2>2. assert_new_valid(l, total_balance(l.schedule))
    BY NewLockupsAccepted
  <2>3. /\ assert_valid(v, total_balance(l.schedule))
        /\ assert_valid_termination_schedule(l.schedule, v)
    BY <1>4, <2>1, <2>2 DEF assert_new_valid
  <2> QED
    BY <1>1, <2>3 DEF assert_valid
<1>5. CASE vesting.kind = "Hash"
  BY <1>1, <1>5 DEF can_terminate, assert_valid
<1> QED
  BY <1>2, <1>3, <1>4, <1>5 DEF VestingConditions

(* An earlier claim makes no difference to a termination.                  *)
LEMMA UntouchedTerminates ==
  ASSUME Untouched, lockup.termination_config # None,
         can_terminate(lockup, vesting_schedule(lockup))
  PROVE  /\ granted.termination_config # None
         /\ vesting_schedule(lockup) = vesting_schedule(granted)
         /\ can_terminate(granted, vesting_schedule(granted))
BY DEF Untouched, can_terminate, vesting_schedule

-----------------------------------------------------------------------------
(* The schedule a termination leaves, n, against the one it found, s.      *)

LEMMA TerminateRecord ==
  ASSUME IInv, NEW f \in 0..MaxTime, Terminate(f)
  PROVE  LET s == lockup.schedule
             v == vesting_schedule(granted)
             n == lockup'.schedule
         IN  /\ lockup' = [lockup EXCEPT !.termination_config = None, !.schedule = n]
             /\ s = granted.schedule
             /\ granted \in NewLockups
             /\ granted.termination_config # None
             /\ can_terminate(granted, v)
             /\ vested_balance(lockup, f) = unlocked_balance(v, f)
             /\ \/ /\ unlocked_balance(v, f) < total_balance(s)
                   /\ n = terminate(s, unlocked_balance(v, f), f)
                \/ /\ unlocked_balance(v, f) = total_balance(s)
                   /\ n = s
<1> DEFINE s == lockup.schedule
           v == vesting_schedule(granted)
           n == lockup'.schedule
           b == unlocked_balance(v, f)
<1>1. /\ lockup.termination_config # None
      /\ can_terminate(lockup, vesting_schedule(lockup))
      /\ lockup' = terminate_lockup(lockup, f)
  BY DEF Terminate
<1>2. /\ lockup \in LockupType /\ granted \in NewLockups /\ Untouched
  BY DEF IInv, TypeOK
<1>3. s = granted.schedule
  BY <1>1, <1>2 DEF Untouched
<1>4. /\ granted.termination_config # None
      /\ vesting_schedule(lockup) = v
      /\ can_terminate(granted, v)
  BY <1>1, <1>2, UntouchedTerminates
<1>5. v \in Schedules /\ Increasing(v) /\ total_balance(v) = total_balance(s)
  BY <1>2, <1>3, <1>4, VestingChecked
<1>6. f \in Nat
  BY MaxTimeAssumption
<1>7. b \in Nat /\ b <= total_balance(s) /\ total_balance(s) \in Nat
  BY <1>5, <1>6, UnlockedBounds
<1>8. vested_balance(lockup, f) = b /\ unvested_balance(lockup, f) = total_balance(s) - b
  BY <1>4 DEF vested_balance, unvested_balance
<1> HIDE DEF b, v
<1>9. lockup' = [lockup EXCEPT !.termination_config = None,
                               !.schedule = IF total_balance(s) - b > 0 THEN terminate(s, b, f)
                                                                        ELSE s]
  BY <1>1, <1>8 DEF terminate_lockup
<1>10. n = IF total_balance(s) - b > 0 THEN terminate(s, b, f) ELSE s
  BY <1>2, <1>9 DEF LockupType
<1>11. lockup' = [lockup EXCEPT !.termination_config = None, !.schedule = n]
  BY <1>9, <1>10
<1>12. \/ b < total_balance(s) /\ n = terminate(s, b, f)
       \/ b = total_balance(s) /\ n = s
  <2> HIDE DEF s, n
  <2> QED
    BY <1>7, <1>10
<1> QED
  BY <1>2, <1>3, <1>4, <1>8, <1>11, <1>12 DEF b, v

(* It can be read, is never ahead of the other, follows it by a second,    *)
(* and ends no later.                                                      *)
Follows(n, s) ==
  /\ n \in Schedules
  /\ Increasing(n)
  /\ \A t \in Nat : unlocked_balance(n, t) <= unlocked_balance(s, t)
  /\ \A t \in Nat : \/ total_balance(n) <= unlocked_balance(n, t + 1)
                    \/ unlocked_balance(s, t) <= unlocked_balance(n, t + 1)
  /\ n[Len(n)].timestamp <= s[Len(s)].timestamp

LEMMA FollowsItself ==
  ASSUME NEW s \in Schedules, Increasing(s)
  PROVE  Follows(s, s)
<1>1. ASSUME NEW t \in Nat
      PROVE  /\ unlocked_balance(s, t) \in Nat
             /\ unlocked_balance(s, t) <= unlocked_balance(s, t + 1)
  <2>1. t + 1 \in Nat /\ t <= t + 1
    OBVIOUS
  <2> QED
    BY <2>1, UnlockedBounds, UnlockedMonotone
<1>2. s[Len(s)].timestamp <= s[Len(s)].timestamp
  <2>1. Len(s) \in 1..Len(s)
    BY ScheduleElements DEF Increasing
  <2>2. s[Len(s)].timestamp \in Nat
    BY <2>1, ScheduleElements
  <2> QED
    BY <2>2
<1>3. \A t \in Nat : unlocked_balance(s, t) <= unlocked_balance(s, t)
  BY <1>1
<1>4. \A t \in Nat : unlocked_balance(s, t) <= unlocked_balance(s, t + 1)
  BY <1>1
<1> QED
  BY <1>2, <1>3, <1>4 DEF Follows

LEMMA TerminatedFollows ==
  ASSUME NEW s \in Schedules, Increasing(s), NEW f \in Nat,
         NEW b \in Nat, b <= total_balance(s), b = 0 => f <= s[Len(s)].timestamp
  PROVE  Follows(terminate(s, b, f), s) /\ total_balance(terminate(s, b, f)) = b
<1> DEFINE n == terminate(s, b, f)
<1>1. n \in Schedules /\ Increasing(n) /\ total_balance(n) = b
  BY TerminateWellFormed
<1>2. n[Len(n)].timestamp <= s[Len(s)].timestamp
  BY TerminateEndsNoLater
<1>3. \A t \in Nat : unlocked_balance(n, t) <= unlocked_balance(s, t)
  BY TerminateNeverAhead
<1>4. \A t \in Nat : b <= unlocked_balance(n, t + 1) \/ unlocked_balance(s, t) <= unlocked_balance(n, t + 1)
  BY TerminateOneSecondLate
<1> HIDE DEF n
<1>5. Follows(n, s)
  BY <1>1, <1>2, <1>3, <1>4 DEF Follows
<1> QED
  BY <1>1, <1>5 DEF n

LEMMA TerminateFollows ==
  ASSUME IInv, NEW f \in 0..MaxTime, Terminate(f)
  PROVE  /\ Follows(lockup'.schedule, lockup.schedule)
         /\ total_balance(lockup'.schedule) = unlocked_balance(vesting_schedule(granted), f)
<1> DEFINE s == lockup.schedule
           v == vesting_schedule(granted)
           n == lockup'.schedule
           b == unlocked_balance(v, f)
           end == s[Len(s)].timestamp
<1>1. /\ s = granted.schedule
      /\ granted \in NewLockups
      /\ granted.termination_config # None
      /\ can_terminate(granted, v)
      /\ \/ b < total_balance(s) /\ n = terminate(s, b, f)
         \/ b = total_balance(s) /\ n = s
  BY TerminateRecord
<1>2. s \in Schedules /\ Increasing(s) /\ total_balance(s) > 0
  BY <1>1, NewLockupIs
<1>3. /\ v \in Schedules /\ Increasing(v)
      /\ v = s \/ assert_valid_termination_schedule(s, v)
  BY <1>1, VestingChecked
<1>4. f \in Nat
  BY MaxTimeAssumption
<1> HIDE DEF n, s, v
<1>5. b \in Nat /\ total_balance(s) \in Nat
  BY <1>2, <1>3, <1>4, UnlockedBounds
<1>6. Len(s) \in 1..Len(s) /\ end \in Nat
  <2>1. Len(s) \in 1..Len(s)
    BY <1>2, ScheduleElements DEF Increasing
  <2> QED
    BY <1>2, <2>1, ScheduleElements
<1>7. total_balance(s) <= unlocked_balance(v, end)
  <2>1. CASE v = s
    <3>1. unlocked_balance(s, end) = total_balance(s)
      BY <1>2, <1>6, UnlockedAfterEnd
    <3> QED
      BY <1>5, <2>1, <3>1
  <2>2. CASE assert_valid_termination_schedule(s, v)
    BY <1>6, <2>2 DEF assert_valid_termination_schedule, total_balance
  <2> QED
    BY <1>3, <2>1, <2>2
<1>8. b = 0 => f <= end
  <2>1. ASSUME end <= f
        PROVE  unlocked_balance(v, end) <= b
    BY <1>3, <1>4, <1>6, <2>1, UnlockedMonotone
  <2>2. unlocked_balance(v, end) \in Nat
    BY <1>3, <1>6, UnlockedBounds
  <2> HIDE DEF b, end
  <2> QED
    BY <1>2, <1>4, <1>5, <1>6, <1>7, <2>1, <2>2
<1>9. CASE b < total_balance(s) /\ n = terminate(s, b, f)
  <2>1. b <= total_balance(s)
    BY <1>5, <1>9
  <2> HIDE DEF b
  <2>2. Follows(n, s) /\ total_balance(n) = b
    BY <1>2, <1>4, <1>5, <1>8, <1>9, <2>1, TerminatedFollows
  <2> QED
    BY <2>2 DEF b, n, s, v
<1>10. CASE b = total_balance(s) /\ n = s
  BY <1>2, <1>10, FollowsItself DEF n, s, v
<1> QED
  BY <1>1, <1>9, <1>10

-----------------------------------------------------------------------------
(* IInv is inductive.                                                      *)

LEMMA InitIInv == Init => IInv
<1> SUFFICES ASSUME Init PROVE IInv
  OBVIOUS
<1>1. lockup \in NewLockups /\ granted = lockup /\ now = 1
  BY DEF Init
<1>2. lockup \in LockupType /\ lockup.schedule \in Schedules /\ Increasing(lockup.schedule)
  BY <1>1, NewLockupIs
<1>3. now \in 1..MaxTime
  BY <1>1, MaxTimeAssumption
<1>4. ASSUME NEW t \in Nat
      PROVE  /\ unlocked_balance(lockup.schedule, t) \in Nat
             /\ unlocked_balance(lockup.schedule, t + 1) \in Nat
             /\ unlocked_balance(lockup.schedule, t) <= unlocked_balance(lockup.schedule, t + 1)
             /\ total_balance(lockup.schedule) \in Nat
  <2>1. t + 1 \in Nat /\ t <= t + 1
    OBVIOUS
  <2> QED
    BY <1>2, <2>1, UnlockedBounds, UnlockedMonotone
<1>5. NeverAheadOfGrant
  <2>1. ASSUME NEW t \in 0..MaxTime
        PROVE  unlocked_balance(lockup.schedule, t) <= unlocked_balance(granted.schedule, t)
    <3>1. t \in Nat
      BY MaxTimeAssumption
    <3> QED
      BY <1>1, <1>4, <3>1
  <2> QED
    BY <2>1 DEF NeverAheadOfGrant
<1>6. LagsAtMostOneSecond
  <2>1. ASSUME NEW t \in 0..(MaxTime - 1)
        PROVE  unlocked_balance(lockup.schedule, t + 1)
                 >= IF unlocked_balance(granted.schedule, t) < total_balance(lockup.schedule)
                    THEN unlocked_balance(granted.schedule, t) ELSE total_balance(lockup.schedule)
    <3>1. t \in Nat
      BY MaxTimeAssumption
    <3> QED
      BY <1>1, <1>4, <3>1
  <2> QED
    BY <2>1 DEF LagsAtMostOneSecond
<1> QED
  BY <1>1, <1>2, <1>3, <1>5, <1>6 DEF IInv, TypeOK, Untouched

(* A step that leaves the schedule and the configuration alone.            *)
LEMMA KeepsIInv ==
  ASSUME IInv, granted' = granted, now' \in 1..MaxTime, lockup' \in LockupType,
         lockup'.schedule = lockup.schedule,
         lockup'.termination_config = lockup.termination_config
  PROVE  IInv'
BY DEF IInv, TypeOK, Untouched, NeverAheadOfGrant, LagsAtMostOneSecond

LEMMA TickIInv ==
  ASSUME IInv, Tick
  PROVE  IInv'
<1>1. now' \in 1..MaxTime
  BY MaxTimeAssumption DEF IInv, TypeOK, Tick
<1> QED
  BY <1>1, KeepsIInv DEF IInv, TypeOK, Tick

LEMMA ClaimIInv ==
  ASSUME IInv, NEW claim_amount \in Nat, Claim(claim_amount)
  PROVE  IInv'
<1> DEFINE c == lockup.claimed_balance + claim_amount
<1>1. lockup \in LockupType /\ c \in Nat
  BY RecordFields DEF IInv, TypeOK
<1> HIDE DEF c
<1>2. lockup' = [lockup EXCEPT !.claimed_balance = c]
  BY DEF Claim, c
<1>3. /\ lockup'.schedule = lockup.schedule
      /\ lockup'.termination_config = lockup.termination_config
  BY <1>1, <1>2 DEF LockupType
<1>4. lockup' \in LockupType
  BY <1>1, <1>2, RecordFields, RecordIs
<1> QED
  BY <1>3, <1>4, KeepsIInv DEF IInv, TypeOK, Claim

LEMMA TerminateIInv ==
  ASSUME IInv, NEW f \in 0..MaxTime, Terminate(f)
  PROVE  IInv'
<1> DEFINE s == lockup.schedule
           n == lockup'.schedule
<1>1. /\ lockup' = [lockup EXCEPT !.termination_config = None, !.schedule = n]
      /\ s = granted.schedule
      /\ granted \in NewLockups
  BY TerminateRecord
<1>2. Follows(n, s)
  BY TerminateFollows
<1>3. granted' = granted /\ now' = now
  BY DEF Terminate
<1>4. lockup \in LockupType /\ s \in Schedules /\ Increasing(s)
  BY <1>1, NewLockupIs DEF IInv, TypeOK
<1>5. n \in Schedules /\ Increasing(n)
  BY <1>2 DEF Follows
<1>6. /\ \A t \in Nat : unlocked_balance(n, t) <= unlocked_balance(s, t)
      /\ \A t \in Nat : \/ total_balance(n) <= unlocked_balance(n, t + 1)
                        \/ unlocked_balance(s, t) <= unlocked_balance(n, t + 1)
  BY <1>2 DEF Follows
<1>7. TypeOK'
  <2>1. lockup' \in LockupType
    <3> HIDE DEF n
    <3> QED
      BY <1>1, <1>4, <1>5, RecordIs
  <2> QED
    BY <1>3, <2>1 DEF IInv, TypeOK
<1>8. Untouched'
  <2>1. lockup'.termination_config = None
    <3> HIDE DEF n
    <3> QED
      BY <1>1, <1>4 DEF LockupType
  <2> QED
    BY <2>1 DEF Untouched
<1>9. NeverAheadOfGrant'
  <2>1. \A t \in 0..MaxTime : t \in Nat
    BY MaxTimeAssumption
  <2> QED
    BY <1>1, <1>3, <1>6, <2>1 DEF NeverAheadOfGrant
<1>10. LagsAtMostOneSecond'
  <2>1. ASSUME NEW t \in 0..(MaxTime - 1)
        PROVE  unlocked_balance(n, t + 1)
                 >= IF unlocked_balance(s, t) < total_balance(n)
                    THEN unlocked_balance(s, t) ELSE total_balance(n)
    <3>1. t \in Nat /\ t + 1 \in Nat
      BY MaxTimeAssumption
    <3>2. /\ unlocked_balance(n, t + 1) \in Nat /\ total_balance(n) \in Nat
          /\ unlocked_balance(s, t) \in Nat
      BY <1>4, <1>5, <3>1, UnlockedBounds
    <3>3. \/ total_balance(n) <= unlocked_balance(n, t + 1)
          \/ unlocked_balance(s, t) <= unlocked_balance(n, t + 1)
      BY <1>6, <3>1
    <3> HIDE DEF n, s
    <3> QED
      BY <3>2, <3>3
  <2> QED
    BY <1>1, <1>3, <2>1 DEF LagsAtMostOneSecond
<1>11. Increasing(lockup'.schedule)
  BY <1>5
<1> QED
  BY <1>1, <1>3, <1>7, <1>8, <1>9, <1>10, <1>11 DEF IInv

LEMMA NextIInv == IInv /\ [Next]_vars => IInv'
<1> SUFFICES ASSUME IInv, [Next]_vars PROVE IInv'
  OBVIOUS
<1>1. CASE Tick
  BY <1>1, TickIInv
<1>2. ASSUME NEW claim_amount \in 1..total_balance(granted.schedule), Claim(claim_amount)
      PROVE  IInv'
  <2>1. total_balance(granted.schedule) \in Nat
    <3>1. granted.schedule \in Schedules /\ Increasing(granted.schedule)
      BY NewLockupIs DEF IInv
    <3>2. 0 \in Nat
      OBVIOUS
    <3> QED
      BY <3>1, <3>2, UnlockedBounds
  <2>2. claim_amount \in Nat
    BY <2>1
  <2> QED
    BY <1>2, <2>2, ClaimIInv
<1>3. ASSUME NEW f \in 0..MaxTime, Terminate(f)
      PROVE  IInv'
  BY <1>3, TerminateIInv
<1>4. CASE UNCHANGED vars
  BY <1>4 DEF vars, IInv, TypeOK, Untouched, NeverAheadOfGrant, LagsAtMostOneSecond
<1> QED
  BY <1>1, <1>2, <1>3, <1>4 DEF Next

LEMMA AlwaysIInv == Spec => []IInv
BY InitIInv, NextIInv, PTL DEF Spec

-----------------------------------------------------------------------------
(* The invariants, for every lockup the contract accepts.                  *)

(* The record keeps its type through claims and the termination            *)
(* (lockup.rs:26-40), and the clock its bound.                             *)
THEOREM RecordTypeCorrect == Spec => []TypeOK
<1>1. IInv => TypeOK
  BY DEF IInv
<1> QED
  BY <1>1, AlwaysIInv, PTL

(* Lockup::terminate leaves a schedule that unlocked_balance and the views *)
(* can read, whatever it cuts, and that ends at what was vested by the     *)
(* schedule the lockup was granted with (schedule.rs:137-171,              *)
(* termination.rs:24-51).                                                  *)
THEOREM TerminatedReadable == Spec => TerminatedIsWellFormed
<1>1. ASSUME IInv, NEW t \in 0..MaxTime, Terminate(t)
      PROVE  /\ Increasing(lockup'.schedule)
             /\ total_balance(lockup'.schedule) = unlocked_balance(vesting_schedule(granted), t)
  BY <1>1, TerminateFollows DEF Follows
<1>2. IInv /\ [Next]_vars
      => [\A t \in 0..MaxTime : Terminate(t) =>
            /\ Increasing(lockup'.schedule)
            /\ total_balance(lockup'.schedule)
                 = unlocked_balance(vesting_schedule(granted), t)]_vars
  BY <1>1
<1> QED
  BY <1>2, AlwaysIInv, PTL DEF Spec, TerminatedIsWellFormed

(* Terminating a lockup never releases a token earlier than it was granted *)
(* (schedule.rs:158).                                                      *)
THEOREM NeverAhead == Spec => []NeverAheadOfGrant
<1>1. IInv => NeverAheadOfGrant
  BY DEF IInv
<1> QED
  BY <1>1, AlwaysIInv, PTL

(* Nor does it delay what was vested by two seconds or more                *)
(* (schedule.rs:158 rounds the new end up to a second).                    *)
THEOREM LagsOneSecond == Spec => []LagsAtMostOneSecond
<1>1. IInv => LagsAtMostOneSecond
  BY DEF IInv
<1> QED
  BY <1>1, AlwaysIInv, PTL

(* unlocked_balance is the line through the checkpoints, rounded down, at  *)
(* every instant and for every schedule (schedule.rs:99-129).              *)
LEMMA EveryScheduleOnTheLine ==
  ASSUME NEW s \in Schedules, Increasing(s), NEW t \in Nat
  PROVE  OnTheLine(s, t)
<1> DEFINE b == unlocked_balance(s, t)
<1>1. t <= s[1].timestamp => b = 0
  <2>1. 1 \in 1..Len(s) /\ s[1].timestamp \in Nat /\ s[1].balance = 0
    <3>1. 1 \in 1..Len(s)
      BY ScheduleElements DEF Increasing
    <3> QED
      BY <3>1, ScheduleElements DEF Increasing
  <2>2. CASE t < s[1].timestamp
    BY <2>2, UnlockedBeforeStart
  <2>3. CASE t = s[1].timestamp
    BY <2>1, <2>3, UnlockedIsCheckpoint
  <2> QED
    BY <2>1, <2>2, <2>3
<1>2. t >= s[Len(s)].timestamp => b = total_balance(s)
  BY UnlockedAfterEnd
<1>3. ASSUME NEW k \in 1..(Len(s) - 1), t \in s[k].timestamp .. s[k + 1].timestamp
      PROVE  LET duration == s[k + 1].timestamp - s[k].timestamp
                 grown    == (t - s[k].timestamp) * (s[k + 1].balance - s[k].balance)
             IN  /\ (b - s[k].balance) * duration <= grown
                 /\ grown < (b - s[k].balance + 1) * duration
  <2>1. s[k].timestamp <= t /\ t <= s[k + 1].timestamp
    <3>1. s[k].timestamp \in Nat /\ s[k + 1].timestamp \in Nat
      BY SegmentTypes
    <3> QED
      BY <1>3, <3>1
  <2> QED
    BY <2>1, UnlockedBetween
<1> QED
  BY <1>1, <1>2, <1>3 DEF OnTheLine

(* The record's schedule unlocks along the rounded-down line, also once a  *)
(* termination has cut it (schedule.rs:111-135).                           *)
THEOREM UnlockedIsLinear == Spec => []UnlockedOnTheLine
<1>1. IInv => UnlockedOnTheLine
  <2> SUFFICES ASSUME IInv, NEW t \in 0..MaxTime
               PROVE  OnTheLine(lockup.schedule, t)
    BY DEF UnlockedOnTheLine
  <2>1. lockup.schedule \in Schedules /\ Increasing(lockup.schedule) /\ t \in Nat
    BY RecordFields, MaxTimeAssumption DEF IInv, TypeOK
  <2> QED
    BY <2>1, EveryScheduleOnTheLine
<1> QED
  BY <1>1, AlwaysIInv, PTL

(* What validate_schedule accepts can be revealed later, whatever was      *)
(* claimed in between (view.rs:63-74, termination.rs:19-35).               *)
THEOREM ValidatedReveals == Spec => []ValidatedCanBeRevealed
<1>1. IInv => ValidatedCanBeRevealed
  <2> DEFINE config == lockup.termination_config
             hashed == config.vesting_schedule.schedule
             total  == total_balance(granted.schedule)
  <2> SUFFICES ASSUME IInv, config # None, config.vesting_schedule.kind = "Hash",
                      validate_schedule(granted.schedule, total, hashed)
               PROVE  can_terminate(lockup, hashed)
    BY DEF ValidatedCanBeRevealed
  <2>1. lockup.schedule = granted.schedule
    BY DEF IInv, Untouched
  <2>2. hashed \in Schedules
    BY DEF IInv, TypeOK, LockupType, TerminationConfig, VestingConditions
  <2>3. hashed # None
    BY <2>2, NoneIsNoValue
  <2>4. vesting_schedule(lockup) = hashed
    BY DEF vesting_schedule
  <2>5. /\ assert_valid(hashed, total)
        /\ assert_valid_termination_schedule(granted.schedule, hashed)
    BY <2>3 DEF validate_schedule
  <2> QED
    BY <2>1, <2>4, <2>5 DEF can_terminate
<1> QED
  BY <1>1, AlwaysIInv, PTL

(* No step moves the end of the schedule to a later instant, although a    *)
(* termination rounds it up, so as_u32 narrows nothing away                *)
(* (schedule.rs:138-161).                                                  *)
THEOREM EndsNoLater == Spec => TerminationNeverEndsLater
<1>1. IInv /\ [Next]_vars => [Finish(lockup') <= Finish(lockup)]_vars
  <2> SUFFICES ASSUME IInv, Next
               PROVE  Finish(lockup') <= Finish(lockup)
    OBVIOUS
  <2>1. Finish(lockup) \in Nat
    <3>1. lockup.schedule \in Schedules /\ Increasing(lockup.schedule)
      BY RecordFields DEF IInv, TypeOK
    <3>2. Len(lockup.schedule) \in 1..Len(lockup.schedule)
      BY <3>1, ScheduleElements DEF Increasing
    <3> QED
      BY <3>1, <3>2, ScheduleElements DEF Finish
  <2>2. CASE Tick
    BY <2>1, <2>2 DEF Tick
  <2>3. ASSUME NEW claim_amount \in 1..total_balance(granted.schedule), Claim(claim_amount)
        PROVE  Finish(lockup') <= Finish(lockup)
    <3>1. lockup'.schedule = lockup.schedule
      BY <2>3 DEF Claim, IInv, TypeOK, LockupType
    <3> QED
      BY <2>1, <3>1 DEF Finish
  <2>4. ASSUME NEW f \in 0..MaxTime, Terminate(f)
        PROVE  Finish(lockup') <= Finish(lockup)
    BY <2>4, TerminateFollows DEF Follows, Finish
  <2> QED
    BY <2>2, <2>3, <2>4 DEF Next
<1> QED
  BY <1>1, AlwaysIInv, PTL DEF Spec, TerminationNeverEndsLater

-----------------------------------------------------------------------------
(* What a termination leaves to the owner depends on how far the vesting   *)
(* schedule can be behind the lockup's: by at most k tokens.               *)

VestingBehindBy(k) ==
  \A l \in NewLockups :
    l.termination_config # None /\ can_terminate(l, vesting_schedule(l)) =>
      \A t \in 0..MaxTime :
        unlocked_balance(l.schedule, t) <= unlocked_balance(vesting_schedule(l), t) + k

(* What the README asks of a vesting schedule, of every lockup.            *)
VestingIsAhead ==
  \A l \in NewLockups :
    l.termination_config # None /\ can_terminate(l, vesting_schedule(l)) =>
      AheadUpTo(l.schedule, vesting_schedule(l), MaxTime)

(* The checks of the contract leave it one token behind at most.           *)
LEMMA CheckedIsBehindByOne == VestingBehindBy(1)
<1> SUFFICES ASSUME NEW l \in NewLockups, l.termination_config # None,
                    can_terminate(l, vesting_schedule(l)), NEW t \in 0..MaxTime
             PROVE  unlocked_balance(l.schedule, t) <= unlocked_balance(vesting_schedule(l), t) + 1
  BY DEF VestingBehindBy
<1> DEFINE s == l.schedule
           v == vesting_schedule(l)
<1>1. /\ s \in Schedules /\ Increasing(s) /\ v \in Schedules /\ Increasing(v)
      /\ v = s \/ assert_valid_termination_schedule(s, v)
  BY NewLockupIs, VestingChecked
<1>2. t \in Nat
  BY MaxTimeAssumption
<1> HIDE DEF s, v
<1>3. unlocked_balance(s, t) <= unlocked_balance(v, t) + 1
  <2>1. unlocked_balance(s, t) \in Nat
    BY <1>1, <1>2, UnlockedBounds
  <2>2. CASE v = s
    BY <2>1, <2>2
  <2>3. CASE assert_valid_termination_schedule(s, v)
    BY <1>1, <1>2, <2>3, VestingAlmostAhead
  <2> QED
    BY <1>1, <2>2, <2>3
<1> QED
  BY <1>3 DEF s, v

LEMMA AheadIsNotBehind ==
  ASSUME VestingIsAhead
  PROVE  VestingBehindBy(0)
<1> SUFFICES ASSUME NEW l \in NewLockups, l.termination_config # None,
                    can_terminate(l, vesting_schedule(l)), NEW t \in 0..MaxTime
             PROVE  unlocked_balance(l.schedule, t) <= unlocked_balance(vesting_schedule(l), t) + 0
  BY DEF VestingBehindBy
<1>1. unlocked_balance(l.schedule, t) <= unlocked_balance(vesting_schedule(l), t)
  BY DEF VestingIsAhead, AheadUpTo
<1>2. unlocked_balance(vesting_schedule(l), t) \in Nat
  BY VestingChecked, UnlockedBounds, MaxTimeAssumption
<1> QED
  BY <1>1, <1>2

(* A termination takes at most k of what was unlocked.                     *)
LEMMA TerminateTakesAtMost ==
  ASSUME IInv, NEW k \in Nat, VestingBehindBy(k), NEW f \in 0..MaxTime, Terminate(f)
  PROVE  unlocked_balance(lockup.schedule, now) <= total_balance(lockup'.schedule) + k
<1> DEFINE s == lockup.schedule
           v == vesting_schedule(granted)
<1>1. /\ s = granted.schedule
      /\ granted \in NewLockups
      /\ granted.termination_config # None
      /\ can_terminate(granted, v)
  BY TerminateRecord
<1>2. total_balance(lockup'.schedule) = unlocked_balance(v, f)
  BY TerminateFollows
<1>3. now \in 0..MaxTime /\ now \in Nat /\ f \in Nat /\ now <= f
  BY MaxTimeAssumption DEF IInv, TypeOK, Terminate
<1>4. unlocked_balance(s, now) <= unlocked_balance(v, now) + k
  BY <1>1, <1>3 DEF VestingBehindBy
<1>5. /\ s \in Schedules /\ Increasing(s) /\ v \in Schedules /\ Increasing(v)
  BY <1>1, NewLockupIs, VestingChecked
<1> HIDE DEF s, v
<1>6. unlocked_balance(v, now) <= unlocked_balance(v, f)
  BY <1>3, <1>5, UnlockedMonotone
<1>7. /\ unlocked_balance(s, now) \in Nat /\ unlocked_balance(v, now) \in Nat
      /\ unlocked_balance(v, f) \in Nat
  BY <1>3, <1>5, UnlockedBounds
<1>8. unlocked_balance(s, now) <= unlocked_balance(v, f) + k
  BY <1>4, <1>6, <1>7
<1> QED
  BY <1>2, <1>8 DEF s

KeepsUnlockedBut(k) ==
  total_balance(lockup'.schedule) + k >= unlocked_balance(lockup.schedule, now)

LEMMA StepKeepsUnlocked ==
  ASSUME NEW k \in Nat, VestingBehindBy(k)
  PROVE  IInv /\ [Next]_vars => [KeepsUnlockedBut(k)]_vars
<1> SUFFICES ASSUME IInv, Next
             PROVE  KeepsUnlockedBut(k)
  OBVIOUS
<1>1. /\ unlocked_balance(lockup.schedule, now) \in Nat
      /\ unlocked_balance(lockup.schedule, now) <= total_balance(lockup.schedule)
      /\ total_balance(lockup.schedule) \in Nat
  <2>1. lockup.schedule \in Schedules /\ Increasing(lockup.schedule) /\ now \in Nat
    BY RecordFields DEF IInv, TypeOK
  <2> QED
    BY <2>1, UnlockedBounds
<1>2. CASE lockup'.schedule = lockup.schedule
  BY <1>1, <1>2 DEF KeepsUnlockedBut
<1>3. CASE Tick
  BY <1>2, <1>3 DEF Tick
<1>4. ASSUME NEW claim_amount \in 1..total_balance(granted.schedule), Claim(claim_amount)
      PROVE  KeepsUnlockedBut(k)
  BY <1>2, <1>4 DEF Claim, IInv, TypeOK, LockupType
<1>5. ASSUME NEW f \in 0..MaxTime, Terminate(f)
      PROVE  KeepsUnlockedBut(k)
  <2>1. unlocked_balance(lockup.schedule, now) <= total_balance(lockup'.schedule) + k
    BY <1>5, TerminateTakesAtMost
  <2>2. lockup'.schedule \in Schedules /\ Increasing(lockup'.schedule)
    BY <1>5, TerminateFollows DEF Follows
  <2>3. total_balance(lockup'.schedule) \in Nat
    <3>1. 0 \in Nat
      OBVIOUS
    <3> QED
      BY <2>2, <3>1, UnlockedBounds
  <2> QED
    BY <1>1, <2>1, <2>3 DEF KeepsUnlockedBut
<1> QED
  BY <1>3, <1>4, <1>5 DEF Next

(* Where the vesting really is ahead, a termination takes nothing that was *)
(* unlocked when it was called (termination.rs:37-61).                     *)
THEOREM KeepsUnlocked ==
  ASSUME VestingIsAhead
  PROVE  Spec => TerminationKeepsUnlocked
<1>1. IInv /\ [Next]_vars => [KeepsUnlockedBut(0)]_vars
  BY AheadIsNotBehind, StepKeepsUnlocked
<1>2. IInv /\ IInv' /\ [KeepsUnlockedBut(0)]_vars
        => [total_balance(lockup'.schedule) >= unlocked_balance(lockup.schedule, now)]_vars
  <2> SUFFICES ASSUME IInv, IInv', KeepsUnlockedBut(0)
               PROVE  total_balance(lockup'.schedule) >= unlocked_balance(lockup.schedule, now)
    OBVIOUS
  <2>1. total_balance(lockup'.schedule) \in Nat
    <3>1. lockup'.schedule \in Schedules /\ Increasing(lockup'.schedule) /\ 0 \in Nat
      BY RecordFields DEF IInv, TypeOK
    <3> QED
      BY <3>1, UnlockedBounds
  <2> QED
    BY <2>1 DEF KeepsUnlockedBut
<1> QED
  BY <1>1, <1>2, AlwaysIInv, PTL DEF Spec, TerminationKeepsUnlocked

(* Whatever schedules the contract accepted, it takes one token at most of *)
(* what was unlocked: that is all that comparing rounded balances at       *)
(* checkpoints lets through (schedule.rs:79-97, termination.rs:37-61).     *)
THEOREM KeepsAllButOne == Spec => [][KeepsUnlockedBut(1)]_vars
<1>1. IInv /\ [Next]_vars => [KeepsUnlockedBut(1)]_vars
  BY CheckedIsBehindByOne, StepKeepsUnlocked
<1> QED
  BY <1>1, AlwaysIInv, PTL DEF Spec

-----------------------------------------------------------------------------
(* What was claimed is unlocked within a second, but for k tokens.         *)

ClaimedWithin(k) ==
  /\ lockup.claimed_balance <= unlocked_balance(lockup.schedule, now + 1) + k
  /\ lockup.termination_config # None =>
       lockup.claimed_balance <= unlocked_balance(lockup.schedule, now)

LEMMA UnlockedNow ==
  ASSUME IInv
  PROVE  /\ lockup.schedule \in Schedules /\ Increasing(lockup.schedule)
         /\ lockup.claimed_balance \in Nat
         /\ now \in Nat /\ now + 1 \in Nat
         /\ unlocked_balance(lockup.schedule, now) \in Nat
         /\ unlocked_balance(lockup.schedule, now + 1) \in Nat
         /\ unlocked_balance(lockup.schedule, now) <= unlocked_balance(lockup.schedule, now + 1)
<1>1. /\ lockup.schedule \in Schedules /\ Increasing(lockup.schedule)
      /\ lockup.claimed_balance \in Nat
  BY RecordFields DEF IInv, TypeOK
<1>2. now \in Nat /\ now + 1 \in Nat /\ now <= now + 1
  BY DEF IInv, TypeOK
<1> QED
  BY <1>1, <1>2, UnlockedBounds, UnlockedMonotone

LEMMA InitClaimedWithin ==
  ASSUME NEW k \in Nat
  PROVE  Init => ClaimedWithin(k)
<1> SUFFICES ASSUME Init PROVE ClaimedWithin(k)
  OBVIOUS
<1>1. IInv /\ lockup.claimed_balance = 0
  BY InitIInv, NewLockupIs DEF Init
<1>2. /\ unlocked_balance(lockup.schedule, now) \in Nat
      /\ unlocked_balance(lockup.schedule, now + 1) \in Nat
  BY <1>1, UnlockedNow
<1> QED
  BY <1>1, <1>2 DEF ClaimedWithin

LEMMA NextClaimedWithin ==
  ASSUME NEW k \in Nat, VestingBehindBy(k)
  PROVE  IInv /\ ClaimedWithin(k) /\ [Next]_vars => ClaimedWithin(k)'
<1> SUFFICES ASSUME IInv, ClaimedWithin(k), [Next]_vars
             PROVE  ClaimedWithin(k)'
  OBVIOUS
<1> DEFINE s == lockup.schedule
           n == lockup'.schedule
           c == lockup.claimed_balance
<1>1. /\ s \in Schedules /\ Increasing(s) /\ c \in Nat /\ now \in Nat /\ now + 1 \in Nat
      /\ unlocked_balance(s, now) \in Nat /\ unlocked_balance(s, now + 1) \in Nat
      /\ unlocked_balance(s, now) <= unlocked_balance(s, now + 1)
  BY UnlockedNow
<1>2. /\ c <= unlocked_balance(s, now + 1) + k
      /\ lockup.termination_config # None => c <= unlocked_balance(s, now)
  BY DEF ClaimedWithin
<1>3. CASE Tick
  <2>1. now' = now + 1 /\ lockup' = lockup
    BY <1>3 DEF Tick
  <2>2. now' + 1 \in Nat /\ now + 1 <= now' + 1
    BY <1>1, <2>1
  <2>3. /\ unlocked_balance(s, now + 1) <= unlocked_balance(s, now' + 1)
        /\ unlocked_balance(s, now' + 1) \in Nat
    BY <1>1, <2>2, UnlockedBounds, UnlockedMonotone
  <2>4. c <= unlocked_balance(s, now' + 1) + k
    BY <1>1, <1>2, <2>3
  <2>5. lockup.termination_config # None => c <= unlocked_balance(s, now')
    BY <1>1, <1>2, <2>1
  <2> QED
    BY <2>1, <2>4, <2>5 DEF ClaimedWithin
<1>4. ASSUME NEW claim_amount \in 1..total_balance(granted.schedule), Claim(claim_amount)
      PROVE  ClaimedWithin(k)'
  <2>1. /\ lockup \in LockupType
        /\ lockup' = [lockup EXCEPT !.claimed_balance = c + claim_amount]
        /\ now' = now
        /\ c + claim_amount <= unlocked_balance(s, now)
    BY <1>4 DEF Claim, can_claim, IInv, TypeOK
  <2>2. n = s /\ lockup'.claimed_balance = c + claim_amount
    <3> HIDE DEF c
    <3> QED
      BY <2>1 DEF LockupType
  <2>3. claim_amount \in Int
    OBVIOUS
  <2>4. c + claim_amount <= unlocked_balance(s, now + 1) + k
    <3> HIDE DEF c, s
    <3> QED
      BY <1>1, <2>1, <2>3
  <2> QED
    BY <2>1, <2>2, <2>4 DEF ClaimedWithin
<1>5. ASSUME NEW f \in 0..MaxTime, Terminate(f)
      PROVE  ClaimedWithin(k)'
  <2>1. /\ lockup' = [lockup EXCEPT !.termination_config = None, !.schedule = n]
        /\ lockup \in LockupType
    BY <1>5, TerminateRecord DEF IInv, TypeOK
  <2>2. lockup'.claimed_balance = c /\ lockup'.termination_config = None /\ now' = now
    <3>1. now' = now
      BY <1>5 DEF Terminate
    <3> HIDE DEF n
    <3> QED
      BY <2>1, <3>1 DEF LockupType
  <2>3. c <= unlocked_balance(s, now)
    BY <1>2, <1>5 DEF Terminate
  <2>4. Follows(n, s)
    BY <1>5, TerminateFollows
  <2>5. unlocked_balance(s, now) <= total_balance(n) + k
    BY <1>5, TerminateTakesAtMost
  <2>6. \/ total_balance(n) <= unlocked_balance(n, now + 1)
        \/ unlocked_balance(s, now) <= unlocked_balance(n, now + 1)
    BY <1>1, <2>4 DEF Follows
  <2>7. total_balance(n) \in Nat /\ unlocked_balance(n, now + 1) \in Nat
    BY <1>1, <2>4, UnlockedBounds DEF Follows
  <2>8. c <= unlocked_balance(n, now + 1) + k
    <3> HIDE DEF c, s, n
    <3> QED
      BY <1>1, <2>3, <2>5, <2>6, <2>7
  <2> QED
    BY <2>2, <2>8 DEF ClaimedWithin
<1>6. CASE UNCHANGED vars
  BY <1>2, <1>6 DEF vars, ClaimedWithin
<1> QED
  BY <1>3, <1>4, <1>5, <1>6 DEF Next

(* Where the vesting really is ahead, everything claimed is unlocked one   *)
(* second later, so that claim(None) and the views, which subtract claimed *)
(* from unlocked, panic for a second at most (lib.rs:184, lockup.rs:152).  *)
THEOREM ClaimedUnlocks ==
  ASSUME VestingIsAhead
  PROVE  Spec => []ClaimedUnlockedNextSecond
<1>1. Init => ClaimedWithin(0)
  BY InitClaimedWithin
<1>2. IInv /\ ClaimedWithin(0) /\ [Next]_vars => ClaimedWithin(0)'
  BY AheadIsNotBehind, NextClaimedWithin
<1>3. IInv /\ ClaimedWithin(0) => ClaimedUnlockedNextSecond
  <2> SUFFICES ASSUME IInv, ClaimedWithin(0)
               PROVE  ClaimedUnlockedNextSecond
    OBVIOUS
  <2> QED
    BY UnlockedNow DEF ClaimedWithin, ClaimedUnlockedNextSecond, unclaimed_balance
<1> QED
  BY <1>1, <1>2, <1>3, AlwaysIInv, PTL DEF Spec

(* Whatever schedules the contract accepted, one second after anything     *)
(* claimed exceeds what is unlocked by one token at most.                  *)
THEOREM ClaimedUnlocksButOne ==
  Spec => [](lockup.claimed_balance <= unlocked_balance(lockup.schedule, now + 1) + 1)
<1>1. Init => ClaimedWithin(1)
  BY InitClaimedWithin
<1>2. IInv /\ ClaimedWithin(1) /\ [Next]_vars => ClaimedWithin(1)'
  BY CheckedIsBehindByOne, NextClaimedWithin
<1>3. ClaimedWithin(1) => lockup.claimed_balance <= unlocked_balance(lockup.schedule, now + 1) + 1
  BY DEF ClaimedWithin
<1> QED
  BY <1>1, <1>2, <1>3, AlwaysIInv, PTL DEF Spec
=============================================================================
