--------------------------- MODULE LockupsProofs ---------------------------
(***************************************************************************)
(* The registry of lockups, for every set of accounts and messages and for *)
(* every bound: its types, that no lockup pays more than it holds, and     *)
(* that nothing is claimed early.  All three follow from IInv.             *)
(***************************************************************************)
EXTENDS Lockups, ScheduleProofs, FiniteSetTheorems

-----------------------------------------------------------------------------
(* Sequences built as functions, which the library only offers for an      *)
(* operator argument.                                                      *)
LEMMA FunctionIsSeq ==
  ASSUME NEW S, NEW n \in Nat, NEW f \in [1..n -> S]
  PROVE  f \in Seq(S) /\ Len(f) = n
OBVIOUS

(* The conditions of Room leave a place for one more lockup.               *)
LEMMA RoomBound ==
  ASSUME TypeOK, Room
  PROVE  Len(lockups) < MaxLockups
<1>1. Len(promises) \in Nat /\ Len(lockups) \in Nat /\ MaxLockups \in Nat
  BY BoundsAssumption, LenProperties DEF TypeOK
<1>2. IsFiniteSet(1..Len(promises))
  BY <1>1, FS_Interval
<1>3. IsFiniteSet(OpenTerminations)
  BY <1>2, FS_Subset DEF OpenTerminations
<1>4. Cardinality(OpenTerminations) \in Nat
  BY <1>3, FS_CardinalityType
<1> QED
  BY <1>1, <1>4 DEF Room

-----------------------------------------------------------------------------
(* What every step of the contract does to one record keeps it sound.      *)

LEMMA LockupFields ==
  ASSUME NEW l \in LockupType
  PROVE  /\ l.account_id \in Accounts
         /\ l.schedule \in Schedules
         /\ l.claimed_balance \in Nat
         /\ l.termination_config # None => /\ l.termination_config \in TerminationConfig
                                           /\ l.termination_config.vesting_schedule \in VestingConditions
                                           /\ l.termination_config.beneficiary_id \in Accounts
BY DEF LockupType, TerminationConfig

(* Time only unlocks more.                                                 *)
LEMMA SoundLater ==
  ASSUME NEW l \in LockupType, NEW g \in LockupType, NEW t \in Nat, NEW u \in Nat,
         t <= u, SoundLockup(l, g, t)
  PROVE  SoundLockup(l, g, u)
<1>1. l.schedule \in Schedules /\ g.schedule \in Schedules /\ l.claimed_balance \in Nat
  BY LockupFields
<1>2. Increasing(l.schedule) /\ Increasing(g.schedule)
  BY DEF SoundLockup
<1>3. /\ unlocked_balance(l.schedule, t) <= unlocked_balance(l.schedule, u)
      /\ unlocked_balance(g.schedule, t) <= unlocked_balance(g.schedule, u)
  BY <1>1, <1>2, UnlockedMonotone
<1>4. /\ unlocked_balance(l.schedule, t) \in Nat /\ unlocked_balance(l.schedule, u) \in Nat
      /\ unlocked_balance(g.schedule, t) \in Nat /\ unlocked_balance(g.schedule, u) \in Nat
  BY <1>1, <1>2, UnlockedBounds
<1> QED
  BY <1>1, <1>3, <1>4 DEF SoundLockup

(* Claiming what is unlocked, or nothing.                                  *)
LEMMA SoundClaim ==
  ASSUME NEW l \in LockupType, NEW g \in LockupType, NEW t \in 1..MaxTime, NEW a \in Nat,
         SoundLockup(l, g, t), a = 0 \/ can_claim(l, t, a)
  PROVE  LET n == [l EXCEPT !.claimed_balance = @ + a]
         IN  n \in LockupType /\ SoundLockup(n, g, t)
<1> DEFINE n == [l EXCEPT !.claimed_balance = @ + a]
<1>1. /\ n \in LockupType
      /\ n.schedule = l.schedule /\ n.termination_config = l.termination_config
      /\ n.claimed_balance = l.claimed_balance + a
  BY DEF LockupType
<1>2. l.schedule \in Schedules /\ g.schedule \in Schedules /\ l.claimed_balance \in Nat
  BY LockupFields
<1>3. t \in Nat /\ t \in 0..MaxTime
  BY BoundsAssumption
<1>4. /\ unlocked_balance(l.schedule, t) \in Nat /\ unlocked_balance(g.schedule, t) \in Nat
      /\ unlocked_balance(l.schedule, t) <= total_balance(l.schedule)
      /\ total_balance(l.schedule) \in Nat
  BY <1>2, <1>3, UnlockedBounds DEF SoundLockup
<1>5. \/ n.claimed_balance = l.claimed_balance
      \/ n.claimed_balance <= unlocked_balance(l.schedule, t)
  BY <1>1, <1>2 DEF can_claim
<1>6. unlocked_balance(l.schedule, t) <= unlocked_balance(g.schedule, t)
  BY <1>3 DEF SoundLockup
<1> HIDE DEF n
<1>7. Terminatable(l) => Terminatable(n)
  BY <1>1 DEF Terminatable
<1>8. SoundLockup(n, g, t)
  BY <1>1, <1>2, <1>4, <1>5, <1>6, <1>7 DEF SoundLockup
<1> QED
  BY <1>1, <1>8 DEF n

LEMMA SoundRefund ==
  ASSUME NEW l \in LockupType, NEW g \in LockupType, NEW t \in 1..MaxTime, NEW a \in Nat,
         SoundLockup(l, g, t), a <= l.claimed_balance
  PROVE  LET n == [l EXCEPT !.claimed_balance = @ - a]
         IN  n \in LockupType /\ SoundLockup(n, g, t)
<1> DEFINE n == [l EXCEPT !.claimed_balance = @ - a]
<1>1. l.schedule \in Schedules /\ g.schedule \in Schedules /\ l.claimed_balance \in Nat
  BY LockupFields
<1>2. /\ n \in LockupType
      /\ n.schedule = l.schedule /\ n.termination_config = l.termination_config
      /\ n.claimed_balance = l.claimed_balance - a
  BY <1>1 DEF LockupType
<1>3. t \in Nat
  BY BoundsAssumption
<1>4. /\ unlocked_balance(l.schedule, t) \in Nat /\ unlocked_balance(g.schedule, t) \in Nat
      /\ total_balance(l.schedule) \in Nat
  BY <1>1, <1>3, UnlockedBounds DEF SoundLockup
<1> HIDE DEF n
<1>5. Terminatable(l) => Terminatable(n)
  BY <1>2 DEF Terminatable
<1>6. n.claimed_balance <= l.claimed_balance /\ n.claimed_balance \in Nat
  BY <1>1, <1>2
<1>7. SoundLockup(n, g, t)
  BY <1>1, <1>2, <1>4, <1>5, <1>6 DEF SoundLockup
<1> QED
  BY <1>2, <1>7 DEF n

(* What the contract measures the vested balance by is a schedule of the   *)
(* same total, behind the lockup's by a token at most, and ahead of it if  *)
(* its check decided rightly and from when all of the lockup is unlocked.  *)
LEMMA VestingAhead ==
  ASSUME NEW l \in LockupType, NEW g \in LockupType, NEW t \in 1..MaxTime, NEW h,
         SoundLockup(l, g, t), can_terminate(l, h), NEW u \in 1..MaxTime
  PROVE  LET v == vesting_schedule(l)
         IN  /\ v \in Schedules
             /\ Increasing(v)
             /\ total_balance(v) = total_balance(l.schedule)
             /\ unlocked_balance(l.schedule, u) <= unlocked_balance(v, u) + 1
             /\ ChecksDecideRightly \/ l.schedule[Len(l.schedule)].timestamp <= u =>
                  unlocked_balance(l.schedule, u) <= unlocked_balance(v, u)
<1> DEFINE s == l.schedule
           vesting == l.termination_config.vesting_schedule
           v == vesting_schedule(l)
<1>1. l.termination_config # None
  BY DEF can_terminate
<1>2. /\ s \in Schedules /\ Increasing(s) /\ u \in Nat /\ u \in 0..MaxTime
      /\ vesting \in VestingConditions
  BY <1>1, LockupFields, BoundsAssumption DEF SoundLockup
<1>3. /\ unlocked_balance(s, u) \in Nat
      /\ assert_valid(s, total_balance(s))
  BY <1>1, <1>2, UnlockedBounds DEF SoundLockup, Terminatable
<1>4. CASE vesting.kind = "SameAsLockupSchedule"
  <2>1. v = s
    BY <1>4 DEF vesting_schedule
  <2> QED
    BY <1>2, <1>3, <2>1
<1>5. CASE vesting.kind # "SameAsLockupSchedule"
  <2>1. v = vesting.schedule /\ vesting.kind \in {"Hash", "Schedule"} /\ v \in Schedules
    BY <1>2, <1>5 DEF vesting_schedule, VestingConditions
  <2>2. /\ assert_valid(v, total_balance(s))
        /\ assert_valid_termination_schedule(s, v)
    BY <1>1, <2>1 DEF can_terminate, SoundLockup, Terminatable
  <2>3. PICK c \in LockupCreates : c.schedule = s /\ c.vesting_schedule = vesting
    BY <1>1 DEF SoundLockup, Terminatable
  <2>4. Increasing(v) /\ total_balance(v) = total_balance(s)
    BY <2>2 DEF assert_valid
  <2>5. unlocked_balance(s, u) <= unlocked_balance(v, u) + 1
    BY <1>2, <2>1, <2>2, <2>4, VestingAlmostAhead
  <2>6. ASSUME ChecksDecideRightly
        PROVE  unlocked_balance(s, u) <= unlocked_balance(v, u)
    <3>1. CheckDecidesRightly(c) /\ c.vesting_schedule # None
      BY <1>2, <2>3, <2>6, NoneIsNoValue DEF ChecksDecideRightly
    <3>2. AheadUpTo(s, v, MaxTime)
      BY <1>3, <2>1, <2>2, <2>3, <3>1 DEF CheckDecidesRightly
    <3> QED
      BY <1>2, <3>2 DEF AheadUpTo
  <2>7. ASSUME s[Len(s)].timestamp <= u
        PROVE  unlocked_balance(s, u) <= unlocked_balance(v, u)
    <3> DEFINE end == s[Len(s)].timestamp
    <3>1. Len(s) \in 1..Len(s) /\ end \in Nat /\ total_balance(s) = s[Len(s)].balance
      BY <1>2, ScheduleElements DEF Increasing, total_balance
    <3>2. total_balance(s) <= unlocked_balance(v, end)
      BY <2>2, <3>1 DEF assert_valid_termination_schedule
    <3> HIDE DEF end
    <3>3. /\ unlocked_balance(v, end) <= unlocked_balance(v, u)
          /\ unlocked_balance(v, end) \in Nat /\ unlocked_balance(v, u) \in Nat
      BY <1>2, <2>1, <2>4, <2>7, <3>1, UnlockedMonotone, UnlockedBounds DEF end
    <3>4. unlocked_balance(s, u) <= total_balance(s) /\ total_balance(s) \in Nat
      BY <1>2, UnlockedBounds
    <3> QED
      BY <1>3, <3>2, <3>3, <3>4
  <2> QED
    BY <2>1, <2>4, <2>5, <2>6, <2>7
<1> QED
  BY <1>4, <1>5

(* A termination takes back no more than is locked at its timestamp, and   *)
(* that is no sooner than now: everything claimed stays covered.           *)
LEMMA SoundTerminate ==
  ASSUME NEW l \in LockupType, NEW g \in LockupType, NEW t \in 1..MaxTime, NEW h,
         SoundLockup(l, g, t), can_terminate(l, h), NEW f \in 1..MaxTime, t <= f
  PROVE  /\ terminate_lockup(l, f) \in LockupType
         /\ terminate_lockup(l, f).account_id = l.account_id
         /\ SoundLockup(terminate_lockup(l, f), g, t)
         /\ unvested_balance(l, f) \in Nat
<1> DEFINE s == l.schedule
           v == vested_balance(l, f)
           n == terminate_lockup(l, f)
<1>1. /\ s \in Schedules /\ Increasing(s) /\ g.schedule \in Schedules /\ Increasing(g.schedule)
      /\ l.claimed_balance \in Nat /\ t \in Nat /\ f \in Nat
      /\ l.termination_config # None
  BY LockupFields, BoundsAssumption DEF SoundLockup, can_terminate
<1>2. /\ v \in Nat
      /\ v <= total_balance(s)
      /\ unlocked_balance(s, f) <= v + 1
      /\ ChecksDecideRightly => unlocked_balance(s, f) <= v
  BY <1>1, VestingAhead, UnlockedBounds DEF vested_balance
<1>3. /\ total_balance(s) \in Nat
      /\ unlocked_balance(s, t) \in Nat
      /\ unlocked_balance(s, f) \in Nat
      /\ unlocked_balance(s, t) <= unlocked_balance(s, f)
  BY <1>1, UnlockedBounds, UnlockedMonotone
<1>4. unvested_balance(l, f) \in Nat /\ unvested_balance(l, f) = total_balance(s) - v
  BY <1>2, <1>3 DEF unvested_balance
<1>5. /\ l.claimed_balance <= v + 1
      /\ ChecksDecideRightly => l.claimed_balance <= v
  <2>1. l.claimed_balance <= unlocked_balance(s, t)
    BY <1>1 DEF SoundLockup
  <2> HIDE DEF v, s
  <2> QED
    BY <1>1, <1>2, <1>3, <2>1
<1> DEFINE w == IF unvested_balance(l, f) > 0 THEN terminate(s, v, f) ELSE s
<1>6. /\ w \in Schedules
      /\ Increasing(w)
      /\ total_balance(w) \in Nat
      /\ v <= total_balance(w)
  <2>1. CASE unvested_balance(l, f) > 0
    <3> HIDE DEF v, s
    <3> QED
      BY <1>1, <1>2, <2>1, TerminateWellFormed
  <2>2. CASE ~ (unvested_balance(l, f) > 0)
    BY <1>1, <1>2, <1>3, <2>2
  <2> QED
    BY <2>1, <2>2
<1>7. \A u \in 0..MaxTime : unlocked_balance(w, u) <= unlocked_balance(g.schedule, u)
  <2> SUFFICES ASSUME NEW u \in 0..MaxTime
               PROVE  unlocked_balance(w, u) <= unlocked_balance(g.schedule, u)
    OBVIOUS
  <2>1. u \in Nat
    BY BoundsAssumption
  <2>2. unlocked_balance(w, u) <= unlocked_balance(s, u)
    <3>1. unlocked_balance(s, u) \in Nat
      BY <1>1, <2>1, UnlockedBounds
    <3> HIDE DEF v, s
    <3>2. unlocked_balance(terminate(s, v, f), u) <= unlocked_balance(s, u)
      BY <1>1, <1>2, <2>1, TerminateNeverAhead
    <3> QED
      BY <3>1, <3>2
  <2>3. unlocked_balance(s, u) <= unlocked_balance(g.schedule, u)
    BY DEF SoundLockup
  <2>4. /\ unlocked_balance(w, u) \in Nat /\ unlocked_balance(s, u) \in Nat
        /\ unlocked_balance(g.schedule, u) \in Nat
    BY <1>1, <1>6, <2>1, UnlockedBounds
  <2> HIDE DEF w, s
  <2> QED
    BY <2>2, <2>3, <2>4
<1>8. /\ n.schedule = w
      /\ n.claimed_balance = l.claimed_balance
      /\ n.account_id = l.account_id
      /\ n.termination_config = None
      /\ n \in LockupType
  <2> HIDE DEF v
  <2> QED
    BY <1>6 DEF terminate_lockup, LockupType, v
<1>9. /\ l.claimed_balance <= total_balance(w) + 1
      /\ ChecksDecideRightly => l.claimed_balance <= total_balance(w)
  <2> HIDE DEF w, v
  <2> QED
    BY <1>1, <1>2, <1>5, <1>6
<1>10. SoundLockup(n, g, t)
  <2>1. /\ l.claimed_balance <= unlocked_balance(g.schedule, t)
        /\ g.termination_config # None
    BY <1>1 DEF SoundLockup
  <2> HIDE DEF w, n
  <2> QED
    BY <1>1, <1>6, <1>7, <1>8, <1>9, <2>1 DEF SoundLockup
<1> QED
  BY <1>4, <1>8, <1>10

(* The record a LockupCreate message makes, if the assertions accept it.   *)
LEMMA SoundCreate ==
  ASSUME NEW c \in LockupCreates, NEW payer_id \in Accounts, NEW amount \in Nat,
         assert_new_valid(into_lockup(c, payer_id), amount), NEW t \in Nat
  PROVE  LET l == into_lockup(c, payer_id)
         IN  l \in LockupType /\ SoundLockup(l, l, t)
<1> DEFINE l == into_lockup(c, payer_id)
<1>1. /\ c.account_id \in Accounts /\ c.schedule \in Schedules
      /\ c.vesting_schedule # None => c.vesting_schedule \in VestingConditions
  BY LockupCreatesAssumption DEF LockupCreate
<1>2. /\ l.account_id = c.account_id
      /\ l.schedule = c.schedule
      /\ l.claimed_balance = 0
      /\ l.termination_config = IF c.vesting_schedule = None THEN None
                                ELSE [beneficiary_id |-> payer_id,
                                      vesting_schedule |-> c.vesting_schedule]
  BY DEF into_lockup
<1>3. l.termination_config \in TerminationConfig \cup {None}
  BY <1>1, <1>2 DEF TerminationConfig
<1>4. l \in LockupType
  BY <1>1, <1>3 DEF into_lockup, LockupType
<1>5. assert_valid(l.schedule, amount)
  BY DEF assert_new_valid
<1>6. /\ Increasing(l.schedule)
      /\ total_balance(l.schedule) = amount
      /\ assert_valid(l.schedule, total_balance(l.schedule))
  BY <1>5 DEF assert_valid
<1>7. unlocked_balance(l.schedule, t) \in Nat /\ total_balance(l.schedule) \in Nat
  BY <1>1, <1>2, <1>6, UnlockedBounds
<1>8. \A u \in 0..MaxTime : unlocked_balance(l.schedule, u) <= unlocked_balance(l.schedule, u)
  BY <1>1, <1>2, <1>6, UnlockedBounds, BoundsAssumption
<1>9. ASSUME l.termination_config # None PROVE Terminatable(l)
  <2>1. c.vesting_schedule # None /\ l.termination_config.vesting_schedule = c.vesting_schedule
    BY <1>2, <1>9
  <2>2. LET vesting == l.termination_config.vesting_schedule IN
        vesting.kind = "Schedule" =>
          /\ assert_valid(vesting.schedule, amount)
          /\ assert_valid_termination_schedule(l.schedule, vesting.schedule)
    BY <1>9 DEF assert_new_valid
  <2> HIDE DEF l
  <2> QED
    BY <1>2, <1>6, <2>1, <2>2 DEF Terminatable
<1> HIDE DEF l
<1>10. SoundLockup(l, l, t)
  BY <1>2, <1>6, <1>7, <1>8, <1>9 DEF SoundLockup
<1> QED
  BY <1>4, <1>10 DEF l

(* The record a failed return leaves for its beneficiary.                  *)
LEMMA SoundRefundLockup ==
  ASSUME NEW a \in Accounts, NEW amount \in Nat, NEW t \in 1..MaxTime
  PROVE  LET l == new_lockup_unlocked_since(a, amount, t)
         IN  l \in LockupType /\ SoundLockup(l, l, t)
<1> DEFINE l == new_lockup_unlocked_since(a, amount, t)
           s == new_unlocked_since(amount, t)
<1>1. /\ l.account_id = a /\ l.schedule = s /\ l.claimed_balance = 0
      /\ l.termination_config = None
  BY DEF new_lockup_unlocked_since
<1>2. t \in Nat /\ t - 1 \in Nat
  BY BoundsAssumption
<1>3. s \in Schedules /\ Len(s) = 2
  BY <1>2 DEF new_unlocked_since, Schedules, Checkpoint
<1>4. /\ s[1].timestamp = t - 1 /\ s[1].balance = 0
      /\ s[2].timestamp = t /\ s[2].balance = amount
  BY DEF new_unlocked_since
<1> HIDE DEF s
<1>5. Increasing(s)
  BY <1>2, <1>3, <1>4 DEF Increasing
<1>6. unlocked_balance(s, t) \in Nat /\ total_balance(s) \in Nat
  BY <1>2, <1>3, <1>5, UnlockedBounds
<1>7. \A u \in 0..MaxTime : unlocked_balance(s, u) <= unlocked_balance(s, u)
  BY <1>3, <1>5, UnlockedBounds, BoundsAssumption
<1>8. l \in LockupType
  BY <1>3 DEF new_lockup_unlocked_since, LockupType, s
<1> HIDE DEF l
<1>9. SoundLockup(l, l, t)
  BY <1>1, <1>5, <1>6, <1>7 DEF SoundLockup
<1> QED
  BY <1>8, <1>9 DEF l

-----------------------------------------------------------------------------
(* What the steps do to the vectors and to the promises.                   *)

LEMMA TypeFacts ==
  ASSUME TypeOK
  PROVE  /\ now \in 1..MaxTime /\ now \in Nat
         /\ Len(lockups) \in Nat /\ Len(indexer) = Len(lockups) /\ Len(promises) \in Nat
         /\ \A i \in Indices : lockups[i] \in LockupType
         /\ \A i \in Indices : /\ indexer[i].lockup \in LockupType
                               /\ indexer[i] \in [lockup : LockupType, claimed : Nat, unvested : Nat]
         /\ \A k \in 1..Len(promises) : promises[k] \in Promise
<1>1. now \in 1..MaxTime /\ now \in Nat
  BY BoundsAssumption DEF TypeOK
<1>2. /\ lockups \in Seq(LockupType) /\ promises \in Seq(Promise)
      /\ indexer \in Seq([lockup : LockupType, claimed : Nat, unvested : Nat])
      /\ Len(indexer) = Len(lockups)
  BY DEF TypeOK
<1>3. Len(lockups) \in Nat /\ Len(promises) \in Nat
  BY <1>2, LenProperties
<1>4. \A i \in Indices : lockups[i] \in LockupType
  BY <1>2, ElementOfSeq DEF Indices
<1>5. \A i \in Indices : indexer[i] \in [lockup : LockupType, claimed : Nat, unvested : Nat]
  BY <1>2, ElementOfSeq DEF Indices
<1>6. \A k \in 1..Len(promises) : promises[k] \in Promise
  BY <1>2, ElementOfSeq
<1> QED
  BY <1>1, <1>2, <1>3, <1>4, <1>5, <1>6

(* A lockup is pushed and announced.                                       *)
LEMMA InvCreated ==
  ASSUME IInv, Len(lockups) < MaxLockups, NEW l \in LockupType, SoundLockup(l, l, now),
         internal_add_lockup(l), indexer' = Append(indexer, Created(l)), now' = now,
         deposit_whitelist' = deposit_whitelist, promises' \in Seq(Promise), custody' \in Nat
  PROVE  IInv'
<1>1. /\ TypeOK
      /\ \A i \in Indices : SoundLockup(lockups[i], indexer[i].lockup, now)
  BY DEF IInv
<1>2. /\ lockups' = Append(lockups, l)
      /\ account_lockups' = [account_lockups EXCEPT ![l.account_id] = @ \cup {Len(lockups) + 1}]
  BY DEF internal_add_lockup
<1>3. Created(l) \in [lockup : LockupType, claimed : Nat, unvested : Nat] /\ Created(l).lockup = l
  BY DEF Created
<1>4. /\ lockups' \in Seq(LockupType)
      /\ Len(lockups') = Len(lockups) + 1
      /\ \A i \in 1..Len(lockups) : lockups'[i] = lockups[i]
      /\ lockups'[Len(lockups) + 1] = l
  BY <1>1, <1>2, AppendProperties DEF TypeOK
<1>5. /\ indexer' \in Seq([lockup : LockupType, claimed : Nat, unvested : Nat])
      /\ Len(indexer') = Len(lockups) + 1
      /\ \A i \in 1..Len(lockups) : indexer'[i] = indexer[i]
      /\ indexer'[Len(lockups) + 1].lockup = l
  BY <1>1, <1>3, AppendProperties DEF TypeOK
<1>6. Indices' = Indices \cup {Len(lockups) + 1}
  BY <1>1, <1>4, TypeFacts DEF Indices
<1>7. account_lockups' \in [Accounts -> SUBSET Indices']
  BY <1>1, <1>2, <1>6 DEF TypeOK, LockupType
<1>8. TypeOK'
  BY <1>1, <1>4, <1>5, <1>7 DEF TypeOK
<1>9. \A i \in Indices' : SoundLockup(lockups'[i], indexer'[i].lockup, now')
  BY <1>1, <1>4, <1>5, <1>6 DEF Indices
<1>10. Len(lockups') <= MaxLockups
  BY <1>1, <1>4, TypeFacts, BoundsAssumption
<1> QED
  BY <1>8, <1>9, <1>10 DEF IInv

(* Every lockup is rewritten to a sound one, and nothing is announced that *)
(* changes what a lockup was created with.                                 *)
LEMMA InvRewritten ==
  ASSUME IInv, Len(lockups') = Len(lockups), lockups' \in Seq(LockupType),
         Len(indexer') = Len(lockups),
         indexer' \in Seq([lockup : LockupType, claimed : Nat, unvested : Nat]),
         \A i \in Indices : SoundLockup(lockups'[i], indexer'[i].lockup, now'),
         now' \in 1..MaxTime,
         account_lockups' \in [Accounts -> SUBSET Indices],
         deposit_whitelist' \in SUBSET Accounts, promises' \in Seq(Promise), custody' \in Nat
  PROVE  IInv'
<1>1. Indices' = Indices
  BY DEF Indices
<1>2. TypeOK'
  BY <1>1 DEF TypeOK
<1> QED
  BY <1>1, <1>2 DEF IInv

LEMMA PromiseUpdated ==
  ASSUME TypeOK, NEW k \in 1..Len(promises),
         NEW st \in {"pending", "transferred", "failed", "settled"}
  PROVE  [promises EXCEPT ![k].status = st] \in Seq(Promise)
<1>1. promises \in Seq(Promise) /\ promises[k] \in Promise
  BY TypeFacts DEF TypeOK
<1>2. [promises[k] EXCEPT !.status = st] \in Promise
  BY <1>1 DEF Promise
<1> QED
  BY <1>1, <1>2, ExceptSeq

LEMMA NoClaimsType == NoClaims \in [1..MaxLockups -> LockupClaim]
BY DEF NoClaims, LockupClaim

-----------------------------------------------------------------------------
LEMMA InvInit == Init => IInv
<1> SUFFICES ASSUME Init PROVE IInv
  OBVIOUS
<1>1. Len(lockups) = 0 /\ Indices = {}
  BY DEF Init, Indices
<1>2. TypeOK
  BY <1>1, BoundsAssumption, WhitelistAssumption DEF Init, TypeOK
<1> QED
  BY <1>1, <1>2, BoundsAssumption DEF IInv

LEMMA InvFtOnTransfer ==
  ASSUME IInv, NEW sender_id \in Accounts, NEW amount \in Deposits, NEW c \in LockupCreates,
         FtOnTransfer(sender_id, amount, c)
  PROVE  IInv'
<1> DEFINE l == into_lockup(c, sender_id)
<1>1. TypeOK /\ now \in Nat /\ amount \in Nat
  BY TypeFacts, AmountsAssumption DEF IInv
<1>2. l \in LockupType /\ SoundLockup(l, l, now)
  BY <1>1, SoundCreate DEF FtOnTransfer
<1>3. Len(lockups) < MaxLockups
  BY <1>1, RoomBound DEF FtOnTransfer
<1>4. /\ internal_add_lockup(l) /\ indexer' = Append(indexer, Created(l))
      /\ now' = now /\ deposit_whitelist' = deposit_whitelist
      /\ promises' = promises /\ custody' = custody + amount
  BY DEF FtOnTransfer
<1>5. promises' \in Seq(Promise) /\ custody' \in Nat
  BY <1>1, <1>4 DEF TypeOK
<1> HIDE DEF l
<1> QED
  BY <1>2, <1>3, <1>4, <1>5, InvCreated

(* What a claim asks of a lockup is a natural, no more than is unlocked    *)
(* and unclaimed, and nothing of a lockup the account does not list.       *)
Requested(amounts) ==
  [i \in Indices |-> IF i \in DOMAIN amounts THEN requested_amount(amounts, i) ELSE 0]

LEMMA RequestedAmounts ==
  ASSUME IInv, NEW a \in Accounts, NEW amounts \in AmountRequests(a), Claim(a, amounts),
         NEW i \in Indices
  PROVE  /\ Requested(amounts)[i] \in Nat
         /\ Requested(amounts)[i] = 0 \/ can_claim(lockups[i], now, Requested(amounts)[i])
         /\ Requested(amounts)[i] > 0 => i \in account_lockups[a]
<1> DEFINE requested == Requested(amounts)
<1>1. TypeOK /\ SoundLockup(lockups[i], indexer[i].lockup, now)
  BY DEF IInv
<1>2. /\ \A j \in DOMAIN amounts : /\ requested[j] >= 0
                                   /\ can_claim(lockups[j], now, requested[j])
      /\ DOMAIN amounts \subseteq account_lockups[a]
  BY DEF Claim, Requested
<1>3. PICK S \in SUBSET account_lockups[a] : amounts \in [S -> ClaimAmounts]
  BY DEF AmountRequests
<1>4. \A j \in DOMAIN amounts : amounts[j] \in Nat \cup {None}
  BY <1>3, AmountsAssumption
<1>5. /\ now \in Nat /\ lockups[i].schedule \in Schedules /\ lockups[i].claimed_balance \in Nat
  BY <1>1, TypeFacts, LockupFields
<1>6. unlocked_balance(lockups[i].schedule, now) \in Nat
  BY <1>1, <1>5, UnlockedBounds DEF SoundLockup
<1>7. CASE i \in DOMAIN amounts
  <2>1. requested[i] = requested_amount(amounts, i)
    BY <1>7 DEF Requested
  <2>2. requested_amount(amounts, i) \in Int
    BY <1>4, <1>5, <1>6, <1>7 DEF requested_amount, unclaimed_balance
  <2>3. requested[i] >= 0 /\ can_claim(lockups[i], now, requested[i])
    BY <1>2, <1>7
  <2> HIDE DEF requested
  <2>4. requested[i] \in Nat
    BY <2>1, <2>2, <2>3
  <2> QED
    BY <1>2, <1>7, <2>3, <2>4 DEF requested
<1>8. CASE i \notin DOMAIN amounts
  <2>1. requested[i] = 0
    BY <1>8 DEF Requested
  <2> HIDE DEF requested
  <2>2. requested[i] \in Nat /\ ~ (requested[i] > 0)
    BY <2>1
  <2> QED
    BY <2>1, <2>2 DEF requested
<1> QED
  BY <1>7, <1>8

LEMMA InvClaim ==
  ASSUME IInv, NEW a \in Accounts, NEW amounts \in AmountRequests(a), Claim(a, amounts)
  PROVE  IInv'
<1> DEFINE requested == Requested(amounts)
           total == SumTo(requested, Len(lockups))
           claim(i) == [claim_amount |-> requested[i],
                        is_final |-> requested[i] > 0 /\ is_final(lockups[i], requested[i])]
           claims == [i \in 1..MaxLockups |-> IF i \in Indices THEN claim(i) ELSE NoClaims[i]]
           promise == [kind |-> "claim", account_id |-> a, amount |-> total, status |-> "pending",
                       claims |-> claims]
           charged(i) == [lockups[i] EXCEPT !.claimed_balance = @ + requested[i]]
<1>1. TypeOK /\ \A i \in Indices : SoundLockup(lockups[i], indexer[i].lockup, now)
  BY DEF IInv
<1>2. /\ lockups' = [i \in Indices |-> charged(i)]
      /\ promises' = Append(promises, promise)
      /\ UNCHANGED <<now, account_lockups, deposit_whitelist, custody, indexer>>
  BY DEF Claim, Requested
<1>3. \A i \in Indices : requested[i] \in Nat
  BY RequestedAmounts
<1>4. \A i \in Indices : /\ requested[i] \in Nat
                         /\ charged(i) \in LockupType
                         /\ SoundLockup(charged(i), indexer[i].lockup, now)
  <2> SUFFICES ASSUME NEW i \in Indices
               PROVE  /\ requested[i] \in Nat
                      /\ charged(i) \in LockupType
                      /\ SoundLockup(charged(i), indexer[i].lockup, now)
    OBVIOUS
  <2>1. /\ lockups[i] \in LockupType /\ now \in 1..MaxTime /\ now \in Nat
        /\ lockups[i].schedule \in Schedules
        /\ lockups[i].claimed_balance \in Nat
        /\ indexer[i].lockup \in LockupType
    BY <1>1, TypeFacts, LockupFields
  <2>2. requested[i] \in Nat /\ (requested[i] = 0 \/ can_claim(lockups[i], now, requested[i]))
    BY RequestedAmounts
  <2> HIDE DEF requested
  <2> QED
    BY <1>1, <2>1, <2>2, SoundClaim
<1> HIDE DEF requested
<1>5. total \in Nat
  BY <1>1, <1>3, TypeFacts, SumOfNaturals DEF Indices
<1>6. claims \in [1..MaxLockups -> LockupClaim]
  <2>1. \A i \in Indices : claim(i) \in LockupClaim
    BY <1>4 DEF LockupClaim, is_final
  <2> HIDE DEF claim
  <2> QED
    BY <2>1, NoClaimsType
<1> HIDE DEF claims, total
<1>7. promises' \in Seq(Promise)
  <2>1. promise \in Promise
    BY <1>5, <1>6 DEF Promise
  <2> HIDE DEF promise
  <2> QED
    BY <1>1, <1>2, <2>1, AppendProperties DEF TypeOK
<1> HIDE DEF charged
<1>8. lockups' \in Seq(LockupType) /\ Len(lockups') = Len(lockups)
  <2>1. lockups' \in [1..Len(lockups) -> LockupType]
    BY <1>2, <1>4 DEF Indices
  <2> QED
    BY <1>1, <2>1, TypeFacts, FunctionIsSeq
<1>9. \A i \in Indices : SoundLockup(lockups'[i], indexer'[i].lockup, now')
  BY <1>2, <1>4
<1> QED
  BY <1>1, <1>2, <1>7, <1>8, <1>9, InvRewritten DEF TypeOK

LEMMA InvTerminate ==
  ASSUME IInv, NEW caller \in Accounts, NEW i \in Indices, NEW h, NEW f \in 1..MaxTime,
         Terminate(caller, i, h, f)
  PROVE  IInv'
<1> DEFINE n == terminate_lockup(lockups[i], f)
           unvested == unvested_balance(lockups[i], f)
           promise == [kind |-> "termination", amount |-> unvested, status |-> "pending",
                       claims |-> NoClaims,
                       account_id |-> lockups[i].termination_config.beneficiary_id]
<1>1. TypeOK /\ \A j \in Indices : SoundLockup(lockups[j], indexer[j].lockup, now)
  BY DEF IInv
<1>2. /\ now <= f
      /\ can_terminate(lockups[i], h)
      /\ lockups' = [lockups EXCEPT ![i] = n]
      /\ account_lockups' = IF total_balance(n.schedule) = 0
                            THEN [account_lockups EXCEPT ![n.account_id] = @ \ {i}]
                            ELSE account_lockups
      /\ indexer' = [indexer EXCEPT ![i].unvested = unvested]
      /\ promises' = IF unvested > 0 THEN Append(promises, promise) ELSE promises
      /\ UNCHANGED <<now, deposit_whitelist, custody>>
  BY <1>1, TypeFacts DEF Terminate
<1>3. /\ lockups[i] \in LockupType /\ now \in 1..MaxTime /\ indexer[i].lockup \in LockupType
      /\ i \in 1..Len(lockups) /\ i \in 1..Len(indexer)
      /\ indexer[i] \in [lockup : LockupType, claimed : Nat, unvested : Nat]
  BY <1>1, TypeFacts DEF Indices
<1>4. /\ n \in LockupType
      /\ n.account_id = lockups[i].account_id
      /\ SoundLockup(n, indexer[i].lockup, now)
      /\ unvested \in Nat
  BY <1>1, <1>2, <1>3, SoundTerminate
<1>5. promise \in Promise
  <2>1. lockups[i].termination_config.beneficiary_id \in Accounts
    BY <1>2, <1>3, LockupFields DEF can_terminate
  <2> HIDE DEF unvested
  <2> QED
    BY <1>4, <2>1, NoClaimsType DEF Promise
<1> HIDE DEF n, unvested, promise
<1>6. promises' \in Seq(Promise)
  BY <1>1, <1>2, <1>5, AppendProperties DEF TypeOK
<1>7. /\ lockups' \in Seq(LockupType)
      /\ Len(lockups') = Len(lockups)
      /\ \A j \in Indices : lockups'[j] = IF j = i THEN n ELSE lockups[j]
  <2>1. /\ lockups \in Seq(LockupType) /\ n \in LockupType
        /\ lockups' = [lockups EXCEPT ![i] = n]
    BY <1>1, <1>2, <1>4 DEF TypeOK
  <2> QED
    BY <1>3, <2>1, ExceptSeq DEF Indices
<1>8. /\ indexer' \in Seq([lockup : LockupType, claimed : Nat, unvested : Nat])
      /\ Len(indexer') = Len(lockups)
      /\ \A j \in Indices : indexer'[j].lockup = indexer[j].lockup
  <2> DEFINE e == [indexer[i] EXCEPT !.unvested = unvested]
  <2>1. e \in [lockup : LockupType, claimed : Nat, unvested : Nat] /\ e.lockup = indexer[i].lockup
    BY <1>3, <1>4
  <2>2. indexer' = [indexer EXCEPT ![i] = e]
    BY <1>2
  <2> HIDE DEF e
  <2> QED
    BY <1>1, <1>3, <2>1, <2>2, ExceptSeq DEF TypeOK, Indices
<1>9. account_lockups' \in [Accounts -> SUBSET Indices]
  BY <1>1, <1>2 DEF TypeOK
<1>10. \A j \in Indices : SoundLockup(lockups'[j], indexer'[j].lockup, now')
  BY <1>1, <1>2, <1>4, <1>7, <1>8
<1> QED
  BY <1>1, <1>2, <1>6, <1>7, <1>8, <1>9, <1>10, InvRewritten DEF TypeOK

LEMMA InvFtTransfer ==
  ASSUME IInv, NEW k \in 1..Len(promises), FtTransfer(k)
  PROVE  IInv'
<1>1. TypeOK /\ \A i \in Indices : SoundLockup(lockups[i], indexer[i].lockup, now)
  BY DEF IInv
<1>2. promises[k].amount \in Nat /\ custody \in Nat
  BY <1>1, TypeFacts DEF Promise, TypeOK
<1>3. promises' \in Seq(Promise)
  BY <1>1, PromiseUpdated DEF FtTransfer
<1>4. custody' \in Nat
  BY <1>2 DEF FtTransfer
<1>5. UNCHANGED <<now, lockups, account_lockups, deposit_whitelist, indexer>>
  BY DEF FtTransfer
<1> QED
  BY <1>1, <1>3, <1>4, <1>5, InvRewritten DEF TypeOK

LEMMA InvAfterFtTransferOk ==
  ASSUME IInv, NEW k \in 1..Len(promises), AfterFtTransferOk(k)
  PROVE  IInv'
<1> DEFINE claims == promises[k].claims
           reported(i) == [indexer[i] EXCEPT !.claimed = @ + claims[i].claim_amount]
<1>1. /\ TypeOK /\ Len(lockups) <= MaxLockups
      /\ \A i \in Indices : SoundLockup(lockups[i], indexer[i].lockup, now)
  BY DEF IInv
<1>2. claims \in [1..MaxLockups -> LockupClaim]
  BY <1>1, TypeFacts DEF Promise
<1>3. /\ promises' \in Seq(Promise)
      /\ account_lockups' \in [Accounts -> SUBSET Indices]
      /\ indexer' = [i \in Indices |-> reported(i)]
      /\ UNCHANGED <<now, lockups, deposit_whitelist, custody>>
  BY <1>1, PromiseUpdated DEF AfterFtTransferOk, TypeOK
<1>4. \A i \in Indices : i \in 1..MaxLockups
  BY <1>1, TypeFacts, BoundsAssumption DEF Indices
<1> HIDE DEF claims
<1>5. ASSUME NEW i \in Indices
      PROVE  /\ reported(i) \in [lockup : LockupType, claimed : Nat, unvested : Nat]
             /\ reported(i).lockup = indexer[i].lockup
  <2>1. indexer[i] \in [lockup : LockupType, claimed : Nat, unvested : Nat]
    BY <1>1, TypeFacts
  <2>2. claims[i] \in LockupClaim
    BY <1>2, <1>4
  <2>3. claims[i].claim_amount \in Nat
    BY <2>2 DEF LockupClaim
  <2> QED
    BY <2>1, <2>3
<1> HIDE DEF reported
<1>6. /\ indexer' \in Seq([lockup : LockupType, claimed : Nat, unvested : Nat])
      /\ Len(indexer') = Len(lockups)
  <2>1. indexer' \in [1..Len(lockups) -> [lockup : LockupType, claimed : Nat, unvested : Nat]]
    BY <1>3, <1>5 DEF Indices
  <2> QED
    BY <1>1, <2>1, TypeFacts, FunctionIsSeq
<1>7. \A i \in Indices : SoundLockup(lockups'[i], indexer'[i].lockup, now')
  BY <1>1, <1>3, <1>5
<1> QED
  BY <1>1, <1>3, <1>6, <1>7, InvRewritten DEF TypeOK

LEMMA InvAfterFtTransferFailed ==
  ASSUME IInv, NEW k \in 1..Len(promises), AfterFtTransferFailed(k)
  PROVE  IInv'
<1> DEFINE claims == promises[k].claims
           refunded(i) == [lockups[i] EXCEPT !.claimed_balance = @ - claims[i].claim_amount]
<1>1. /\ TypeOK /\ Len(lockups) <= MaxLockups
      /\ \A i \in Indices : SoundLockup(lockups[i], indexer[i].lockup, now)
  BY DEF IInv
<1>2. claims \in [1..MaxLockups -> LockupClaim]
  BY <1>1, TypeFacts DEF Promise
<1>3. /\ promises' \in Seq(Promise)
      /\ account_lockups' \in [Accounts -> SUBSET Indices]
      /\ \A i \in Indices : claims[i].claim_amount <= lockups[i].claimed_balance
      /\ lockups' = [i \in Indices |-> refunded(i)]
      /\ UNCHANGED <<now, deposit_whitelist, custody, indexer>>
  BY <1>1, PromiseUpdated DEF AfterFtTransferFailed, TypeOK
<1>4. \A i \in Indices : i \in 1..MaxLockups
  BY <1>1, TypeFacts, BoundsAssumption DEF Indices
<1> HIDE DEF claims
<1>5. \A i \in Indices : claims[i].claim_amount \in Nat
  BY <1>2, <1>4 DEF LockupClaim
<1>6. \A i \in Indices : /\ refunded(i) \in LockupType
                         /\ SoundLockup(refunded(i), indexer[i].lockup, now)
  BY <1>1, <1>3, <1>5, TypeFacts, SoundRefund
<1> HIDE DEF refunded
<1>7. lockups' \in Seq(LockupType) /\ Len(lockups') = Len(lockups)
  <2>1. lockups' \in [1..Len(lockups) -> LockupType]
    BY <1>3, <1>6 DEF Indices
  <2> QED
    BY <1>1, <2>1, TypeFacts, FunctionIsSeq
<1>8. \A i \in Indices : SoundLockup(lockups'[i], indexer'[i].lockup, now')
  BY <1>3, <1>6
<1> QED
  BY <1>1, <1>3, <1>7, <1>8, InvRewritten DEF TypeOK

LEMMA InvAfterLockupTermination ==
  ASSUME IInv, NEW k \in 1..Len(promises), AfterLockupTermination(k)
  PROVE  IInv'
<1> DEFINE l == new_lockup_unlocked_since(promises[k].account_id, promises[k].amount, now)
<1>1. TypeOK /\ \A i \in Indices : SoundLockup(lockups[i], indexer[i].lockup, now)
  BY DEF IInv
<1>2. promises' \in Seq(Promise) /\ UNCHANGED <<now, deposit_whitelist, custody>>
  BY <1>1, PromiseUpdated DEF AfterLockupTermination
<1>3. CASE UNCHANGED <<lockups, account_lockups, indexer>>
  BY <1>1, <1>2, <1>3, InvRewritten DEF TypeOK
<1>4. CASE /\ Len(lockups) < MaxLockups
           /\ internal_add_lockup(l)
           /\ indexer' = Append(indexer, Created(l))
  <2>1. promises[k].account_id \in Accounts /\ promises[k].amount \in Nat /\ now \in 1..MaxTime
    BY <1>1, TypeFacts DEF Promise
  <2>2. l \in LockupType /\ SoundLockup(l, l, now)
    BY <2>1, SoundRefundLockup
  <2>3. custody' \in Nat
    BY <1>1, <1>2 DEF TypeOK
  <2> HIDE DEF l
  <2> QED
    BY <1>2, <1>4, <2>2, <2>3, InvCreated
<1> QED
  BY <1>3, <1>4 DEF AfterLockupTermination

LEMMA InvWhitelist ==
  ASSUME IInv, NEW caller \in Accounts, NEW account_ids \in SUBSET Operators,
         \/ AddToDepositWhitelist(caller, account_ids)
         \/ RemoveFromDepositWhitelist(caller, account_ids)
  PROVE  IInv'
<1>1. TypeOK /\ \A i \in Indices : SoundLockup(lockups[i], indexer[i].lockup, now)
  BY DEF IInv
<1>2. deposit_whitelist' \in SUBSET Accounts
  BY <1>1, WhitelistAssumption DEF TypeOK, AddToDepositWhitelist, RemoveFromDepositWhitelist
<1>3. UNCHANGED <<now, lockups, account_lockups, promises, custody, indexer>>
  BY DEF AddToDepositWhitelist, RemoveFromDepositWhitelist
<1> QED
  BY <1>1, <1>2, <1>3, InvRewritten DEF TypeOK

LEMMA InvTick ==
  ASSUME IInv, Tick
  PROVE  IInv'
<1>1. TypeOK /\ \A i \in Indices : SoundLockup(lockups[i], indexer[i].lockup, now)
  BY DEF IInv
<1>2. /\ now \in Nat /\ now' = now + 1 /\ now' \in 1..MaxTime
      /\ UNCHANGED <<lockups, account_lockups, deposit_whitelist, promises, custody, indexer>>
  BY <1>1, TypeFacts, BoundsAssumption DEF Tick
<1>3. \A i \in Indices : SoundLockup(lockups[i], indexer[i].lockup, now')
  BY <1>1, <1>2, TypeFacts, SoundLater
<1> QED
  BY <1>1, <1>2, <1>3, InvRewritten DEF TypeOK

LEMMA InvStutter ==
  ASSUME IInv, UNCHANGED vars
  PROVE  IInv'
<1>1. TypeOK /\ \A i \in Indices : SoundLockup(lockups[i], indexer[i].lockup, now)
  BY DEF IInv
<1> QED
  BY <1>1, InvRewritten DEF vars, TypeOK

LEMMA InvNext == IInv /\ [Next]_vars => IInv'
<1> SUFFICES ASSUME IInv, [Next]_vars PROVE IInv'
  OBVIOUS
<1>1. ASSUME NEW sender_id \in Accounts, NEW amount \in Deposits, NEW c \in LockupCreates,
             FtOnTransfer(sender_id, amount, c)
      PROVE  IInv'
  BY <1>1, InvFtOnTransfer
<1>2. ASSUME NEW a \in Accounts, NEW amounts \in AmountRequests(a), Claim(a, amounts)
      PROVE  IInv'
  BY <1>2, InvClaim
<1>3. ASSUME NEW caller \in Accounts, NEW i \in Indices, NEW h \in RevealedSchedules,
             NEW t \in 1..MaxTime, Terminate(caller, i, h, t)
      PROVE  IInv'
  BY <1>3, InvTerminate
<1>4. ASSUME NEW k \in 1..Len(promises),
             \/ FtTransfer(k) \/ AfterFtTransferOk(k)
             \/ AfterFtTransferFailed(k) \/ AfterLockupTermination(k)
      PROVE  IInv'
  BY <1>4, InvFtTransfer, InvAfterFtTransferOk, InvAfterFtTransferFailed, InvAfterLockupTermination
<1>5. ASSUME NEW caller \in Accounts, NEW account_ids \in (SUBSET Operators) \ {{}},
             \/ AddToDepositWhitelist(caller, account_ids)
             \/ RemoveFromDepositWhitelist(caller, account_ids)
      PROVE  IInv'
  BY <1>5, InvWhitelist
<1>6. CASE Tick
  BY <1>6, InvTick
<1>7. CASE UNCHANGED vars
  BY <1>7, InvStutter
<1> QED
  BY <1>1, <1>2, <1>3, <1>4, <1>5, <1>6, <1>7 DEF Next

LEMMA Invariance == Spec => []IInv
BY InvInit, InvNext, PTL DEF Spec

-----------------------------------------------------------------------------
(* The variables keep their types, whatever is called in whatever order:   *)
(* no balance is ever negative and no index dangling (lib.rs:56-80).       *)
THEOREM TypeCorrect == Spec => []TypeOK
<1>1. IInv => TypeOK
  BY DEF IInv
<1> QED
  BY <1>1, Invariance, PTL

LEMMA InvSafe ==
  IInv => /\ ClaimedWithinTotalButOne /\ NothingClaimedEarly
          /\ ChecksDecideRightly => ClaimedWithinTotal
BY DEF IInv, ClaimedWithinTotal, ClaimedWithinTotalButOne, NothingClaimedEarly, SoundLockup

(* No lockup ever pays more than it holds, in flight or not, however       *)
(* claims, failed transfers and terminations interleave (lib.rs:153-279,   *)
(* callbacks.rs:26-78), as long as vesting schedules that the contract     *)
(* accepts are ahead (schedule.rs:80-97).                                  *)
THEOREM ClaimsCovered ==
  ASSUME ChecksDecideRightly
  PROVE  Spec => []ClaimedWithinTotal
<1>1. IInv => ClaimedWithinTotal
  BY InvSafe
<1> QED
  BY <1>1, Invariance, PTL

(* Whatever vesting schedules it accepted, it pays one token too many at   *)
(* most, and that only out of a lockup that was terminated.                *)
THEOREM ClaimsCoveredButOne == Spec => []ClaimedWithinTotalButOne
BY InvSafe, Invariance, PTL

(* No token is ever claimed before the schedule a lockup was created with  *)
(* unlocks it (lockup.rs:51-68), also after a termination rewrote that     *)
(* schedule (schedule.rs:135-171).                                         *)
THEOREM ClaimsNotEarly == Spec => []NothingClaimedEarly
BY InvSafe, Invariance, PTL
=============================================================================
