--------------------------- MODULE ScheduleProofs ---------------------------
(***************************************************************************)
(* Facts about the arithmetic of module Schedule, for all schedules and    *)
(* all instants: the ones the invariants of the lockups rest on.           *)
(***************************************************************************)
EXTENDS Schedule, SumsProofs, SequenceTheorems, TLAPS

-----------------------------------------------------------------------------
LEMMA ProductMonotone ==
  ASSUME NEW a \in Nat, NEW b \in Nat, NEW c \in Nat, a <= b
  PROVE  a * c <= b * c /\ c * a <= c * b
<1>1. (b - a) * c >= 0 /\ b - a \in Nat
  OBVIOUS
<1>2. (b - a) * c = b * c - a * c
  OBVIOUS
<1> QED
  BY <1>1, <1>2

(* Division rounds down: its result is the only number that fits.          *)
LEMMA DivisionRoundsDown ==
  ASSUME NEW a \in Nat, NEW d \in Nat \ {0}
  PROVE  /\ a \div d \in Nat
         /\ (a \div d) * d <= a
         /\ a < (a \div d + 1) * d
OBVIOUS

LEMMA DivisionAtLeast ==
  ASSUME NEW a \in Nat, NEW d \in Nat \ {0}, NEW m \in Nat, m * d <= a
  PROVE  m <= a \div d
<1>1. a < (a \div d + 1) * d /\ a \div d \in Nat
  BY DivisionRoundsDown
<1>2. ASSUME a \div d + 1 <= m PROVE FALSE
  <2>1. (a \div d + 1) * d <= m * d
    BY <1>1, <1>2, ProductMonotone
  <2> QED
    BY <1>1, <2>1
<1> QED
  BY <1>1, <1>2

LEMMA DivisionAtMost ==
  ASSUME NEW a \in Nat, NEW d \in Nat \ {0}, NEW m \in Nat, a < (m + 1) * d
  PROVE  a \div d <= m
<1>1. (a \div d) * d <= a /\ a \div d \in Nat
  BY DivisionRoundsDown
<1>2. ASSUME m + 1 <= a \div d PROVE FALSE
  <2>1. (m + 1) * d <= (a \div d) * d
    BY <1>1, <1>2, ProductMonotone
  <2> QED
    BY <1>1, <2>1
<1> QED
  BY <1>1, <1>2

LEMMA DivisionMonotone ==
  ASSUME NEW a \in Nat, NEW b \in Nat, NEW d \in Nat \ {0}, a <= b
  PROVE  a \div d <= b \div d
<1>1. (a \div d) * d <= a /\ a \div d \in Nat
  BY DivisionRoundsDown
<1> QED
  BY <1>1, DivisionAtLeast

LEMMA ProductCancel ==
  ASSUME NEW a \in Nat, NEW b \in Nat, NEW c \in Nat \ {0}, a * c <= b * c
  PROVE  a <= b
<1>1. ASSUME b + 1 <= a PROVE FALSE
  <2>1. (b + 1) * c <= a * c
    BY <1>1, ProductMonotone
  <2>2. (b + 1) * c = b * c + c
    OBVIOUS
  <2> QED
    BY <2>1, <2>2
<1> QED
  BY <1>1

(* A line that rises by b in d, cut where it has risen by r: rounding up   *)
(* where it is cut makes the cut line no steeper, and less than one second *)
(* longer than it had to be.                                               *)
LEMMA CutDuration ==
  ASSUME NEW d \in Nat \ {0}, NEW b \in Nat, NEW r \in 1..b
  PROVE  LET e == (d * r + (b - 1)) \div b
         IN  /\ e \in 1..d
             /\ d * r <= e * b
             /\ e * b < d * r + b
<1> DEFINE a == d * r + (b - 1)
           e == a \div b
<1>1. r \in Nat \ {0} /\ b \in Nat \ {0} /\ r <= b
  OBVIOUS
<1>2. d * r \in Nat \ {0} /\ d * r <= d * b /\ d * b \in Nat
  BY <1>1, ProductMonotone
<1>3. a \in Nat /\ 1 * b <= a /\ a < (d + 1) * b
  BY <1>1, <1>2
<1> HIDE DEF a
<1>4. e \in Nat /\ a < (e + 1) * b /\ e * b <= a
  BY <1>1, <1>3, DivisionRoundsDown
<1>5. 1 <= e
  BY <1>1, <1>3, DivisionAtLeast
<1>6. e <= d
  BY <1>1, <1>3, DivisionAtMost
<1> HIDE DEF e
<1>7. (e + 1) * b = e * b + b /\ e * b \in Nat
  BY <1>1, <1>4
<1>8. d * r <= e * b
  BY <1>1, <1>2, <1>4, <1>7 DEF a
<1>9. e * b < d * r + b
  BY <1>1, <1>2, <1>4, <1>7 DEF a
<1> QED
  BY <1>4, <1>5, <1>6, <1>8, <1>9 DEF e, a

LEMMA CutNotSteeper ==
  ASSUME NEW d \in Nat \ {0}, NEW b \in Nat \ {0}, NEW r \in Nat \ {0}, NEW e \in Nat \ {0},
         d * r <= e * b, NEW p \in Nat
  PROVE  (p * r) \div e <= (p * b) \div d
<1> DEFINE q == (p * r) \div e
<1>1. p * r \in Nat /\ p * b \in Nat /\ d * r \in Nat /\ e * b \in Nat
  OBVIOUS
<1>2. q \in Nat /\ q * e <= p * r
  BY <1>1, DivisionRoundsDown
<1> HIDE DEF q
<1>3. q * e \in Nat /\ (q * e) * b <= (p * r) * b
  BY <1>1, <1>2, ProductMonotone
<1>4. q * (d * r) <= q * (e * b)
  BY <1>1, <1>2, ProductMonotone
<1>5. /\ q * (d * r) = (q * d) * r
      /\ q * (e * b) = (q * e) * b
      /\ (p * r) * b = (p * b) * r
  BY <1>2
<1>6. q * d \in Nat /\ (q * d) * r <= (p * b) * r
  BY <1>1, <1>2, <1>3, <1>4, <1>5
<1>7. q * d <= p * b
  BY <1>1, <1>6, ProductCancel
<1>8. q <= (p * b) \div d
  BY <1>1, <1>2, <1>7, DivisionAtLeast
<1> QED
  BY <1>8 DEF q

(* Nor does it make it much flatter: one second later, the cut line is     *)
(* where the other one was, unless it has ended by then.                   *)
LEMMA CutOneSecondLate ==
  ASSUME NEW d \in Nat \ {0}, NEW b \in Nat \ {0}, NEW r \in Nat \ {0}, NEW e \in Nat \ {0},
         e * b < d * r + b, NEW p \in Nat, p + 1 < e
  PROVE  (p * b) \div d <= ((p + 1) * r) \div e
<1> DEFINE q == (p * b) \div d
<1>1. p * b \in Nat /\ d * r \in Nat /\ e * b \in Nat /\ (p + 1) * r \in Nat
  OBVIOUS
<1>2. q \in Nat /\ q * d <= p * b
  BY <1>1, DivisionRoundsDown
<1> HIDE DEF q
<1>3. q * d \in Nat /\ (q * d) * e <= (p * b) * e
  BY <1>1, <1>2, ProductMonotone
<1>4. p * b < d * r
  <2>1. (p + 1) * b <= e * b
    BY ProductMonotone
  <2>2. (p + 1) * b = p * b + b
    OBVIOUS
  <2> QED
    BY <1>1, <2>1, <2>2
<1>5. p * (e * b) <= p * (d * r + b)
  BY <1>1, ProductMonotone
<1>6. /\ p * (e * b) = (p * b) * e
      /\ p * (d * r + b) = p * (d * r) + p * b
      /\ ((p + 1) * r) * d = p * (d * r) + d * r
      /\ (q * e) * d = (q * d) * e
      /\ p * (d * r) \in Nat
  BY <1>2
<1>7. q * e \in Nat /\ (q * e) * d <= ((p + 1) * r) * d
  <2>1. q * e \in Nat
    BY <1>2
  <2>2. (q * d) * e <= p * (d * r) + p * b
    BY <1>1, <1>2, <1>3, <1>5, <1>6
  <2> QED
    BY <1>1, <1>4, <1>6, <2>1, <2>2
<1>8. q * e <= (p + 1) * r
  BY <1>1, <1>7, ProductCancel
<1>9. q <= ((p + 1) * r) \div e
  BY <1>1, <1>2, <1>8, DivisionAtLeast
<1> QED
  BY <1>9 DEF q

-----------------------------------------------------------------------------
LEMMA ScheduleElements ==
  ASSUME NEW s \in Schedules
  PROVE  /\ Len(s) \in Nat
         /\ \A k \in 1..Len(s) : /\ s[k] \in Checkpoint
                                 /\ s[k].timestamp \in Nat
                                 /\ s[k].balance \in Nat
<1>1. \A k \in 1..Len(s) : s[k] \in Checkpoint
  BY ElementOfSeq DEF Schedules
<1> QED
  BY <1>1 DEF Schedules, Checkpoint

(* Neighbouring checkpoints are ordered, so any two are.                   *)
LEMMA CheckpointsOrdered ==
  ASSUME NEW s \in Schedules, Increasing(s),
         NEW i \in 1..Len(s), NEW j \in 1..Len(s), i <= j
  PROVE  /\ s[i].timestamp <= s[j].timestamp
         /\ s[i].balance <= s[j].balance
<1> DEFINE Ordered(k) == s[i].timestamp <= s[k].timestamp /\ s[i].balance <= s[k].balance
           Bad == { k \in i..Len(s) : ~ Ordered(k) }
<1>1. ASSUME Bad # {} PROVE FALSE
  <2>1. Bad \subseteq Nat
    BY ScheduleElements
  <2>2. PICK k \in Bad : \A m \in Bad : k <= m
    BY <1>1, <2>1, LeastNatural
  <2>3. k # i
    BY <2>2, ScheduleElements
  <2>4. /\ k - 1 \in i..Len(s)
        /\ k - 1 \in 1..(Len(s) - 1)
        /\ k - 1 \in 1..Len(s)
        /\ k \in 1..Len(s)
        /\ (k - 1) + 1 = k
    BY <2>2, <2>3, ScheduleElements
  <2>5. /\ s[k - 1].timestamp < s[k].timestamp
        /\ s[k - 1].balance <= s[k].balance
    BY <2>4 DEF Increasing
  <2>6. Ordered(k - 1)
    BY <2>2, <2>4
  <2>7. /\ s[i].timestamp \in Nat /\ s[i].balance \in Nat
        /\ s[k].timestamp \in Nat /\ s[k].balance \in Nat
        /\ s[k - 1].timestamp \in Nat /\ s[k - 1].balance \in Nat
    BY <2>4, ScheduleElements
  <2>8. Ordered(k)
    BY ONLY <2>5, <2>6, <2>7, SMTT(30)
  <2> QED
    BY <2>2, <2>8
<1>2. j \in i..Len(s)
  BY ScheduleElements
<1> QED
  BY <1>1, <1>2

(* The binary search finds the checkpoint reached last.                    *)
LEMMA CurrentCheckpoint ==
  ASSUME NEW s \in Schedules, Increasing(s), NEW t \in Nat, s[1].timestamp <= t
  PROVE  LET k == current_checkpoint(s, t)
         IN  /\ k \in 1..Len(s)
             /\ s[k].timestamp <= t
             /\ k < Len(s) => t < s[k + 1].timestamp
<1> DEFINE Reached == { k \in 1..Len(s) : s[k].timestamp <= t }
<1>1. Len(s) \in Nat /\ 1 \in Reached
  BY ScheduleElements DEF Increasing
<1>2. PICK k \in Reached : \A m \in Reached : m <= k
  <2>1. Reached \subseteq 0..Len(s) /\ Reached # {}
    BY <1>1
  <2> HIDE DEF Reached
  <2> QED
    BY <1>1, <2>1, GreatestNatural
<1>3. k < Len(s) => t < s[k + 1].timestamp
  <2> SUFFICES ASSUME k < Len(s) PROVE t < s[k + 1].timestamp
    OBVIOUS
  <2>1. k + 1 \in 1..Len(s) /\ k + 1 \notin Reached
    BY <1>1, <1>2
  <2> QED
    BY <2>1, ScheduleElements
<1>4. \E j \in 1..Len(s) : s[j].timestamp <= t /\ (j < Len(s) => t < s[j + 1].timestamp)
  BY <1>2, <1>3
<1> QED
  BY <1>4 DEF current_checkpoint

(* Only one checkpoint is the one reached last.                            *)
LEMMA CurrentCheckpointIs ==
  ASSUME NEW s \in Schedules, Increasing(s), NEW t \in Nat, NEW k \in 1..Len(s),
         s[k].timestamp <= t, k < Len(s) => t < s[k + 1].timestamp
  PROVE  /\ s[1].timestamp <= t
         /\ current_checkpoint(s, t) = k
<1> DEFINE j == current_checkpoint(s, t)
<1>1. Len(s) \in Nat /\ 1 \in 1..Len(s)
  BY ScheduleElements
<1>2. s[1].timestamp <= t
  BY <1>1, CheckpointsOrdered, ScheduleElements
<1>3. /\ j \in 1..Len(s)
      /\ s[j].timestamp <= t
      /\ j < Len(s) => t < s[j + 1].timestamp
  BY <1>2, CurrentCheckpoint
<1> HIDE DEF j
<1>4. ASSUME j < k PROVE FALSE
  <2>1. j + 1 \in 1..Len(s) /\ j + 1 <= k /\ j < Len(s)
    BY <1>1, <1>3, <1>4
  <2>2. s[j + 1].timestamp <= s[k].timestamp
    BY <2>1, CheckpointsOrdered
  <2> QED
    BY <1>3, <2>1, <2>2, ScheduleElements
<1>5. ASSUME k < j PROVE FALSE
  <2>1. k + 1 \in 1..Len(s) /\ k + 1 <= j /\ k < Len(s)
    BY <1>1, <1>3, <1>5
  <2>2. s[k + 1].timestamp <= s[j].timestamp
    BY <1>3, <2>1, CheckpointsOrdered
  <2> QED
    BY <1>3, <2>1, <2>2, ScheduleElements
<1>6. j = k
  BY <1>1, <1>3, <1>4, <1>5
<1> QED
  BY <1>2, <1>6 DEF j

-----------------------------------------------------------------------------
(* What has unlocked since checkpoint k, before the next one.              *)
Growth(s, k, t) == ((t - s[k].timestamp) * (s[k + 1].balance - s[k].balance))
                     \div (s[k + 1].timestamp - s[k].timestamp)

LEMMA GrowthBounds ==
  ASSUME NEW s \in Schedules, Increasing(s), NEW k \in 1..(Len(s) - 1), NEW t \in Nat,
         s[k].timestamp <= t, t <= s[k + 1].timestamp
  PROVE  /\ Growth(s, k, t) \in Nat
         /\ Growth(s, k, t) <= s[k + 1].balance - s[k].balance
<1> DEFINE p == t - s[k].timestamp
           b == s[k + 1].balance - s[k].balance
           d == s[k + 1].timestamp - s[k].timestamp
<1>1. k \in 1..Len(s) /\ k + 1 \in 1..Len(s)
  BY ScheduleElements
<1>2. /\ s[k].timestamp \in Nat /\ s[k].balance \in Nat
      /\ s[k + 1].timestamp \in Nat /\ s[k + 1].balance \in Nat
  BY <1>1, ScheduleElements
<1>3. s[k].timestamp < s[k + 1].timestamp /\ s[k].balance <= s[k + 1].balance
  BY DEF Increasing
<1>4. p \in Nat /\ b \in Nat /\ d \in Nat \ {0} /\ p <= d
  <2>1. t \in Nat /\ s[k].timestamp <= t /\ t <= s[k + 1].timestamp
    OBVIOUS
  <2> QED
    BY ONLY <1>2, <1>3, <2>1, SMTT(30)
<1>5. Growth(s, k, t) = (p * b) \div d
  BY DEF Growth
<1> HIDE DEF p, b, d
<1>6. p * b \in Nat /\ p * b <= d * b /\ d * b < (b + 1) * d
  <2>1. p * b <= d * b
    BY <1>4, ProductMonotone
  <2>2. (b + 1) * d = d * b + d /\ p * b \in Nat /\ d * b \in Nat
    BY <1>4
  <2> QED
    BY <1>4, <2>1, <2>2
<1>7. (p * b) \div d \in Nat /\ (p * b) \div d <= b
  BY <1>4, <1>6, DivisionRoundsDown, DivisionAtMost
<1> QED
  BY <1>5, <1>7 DEF b

LEMMA GrowthMonotone ==
  ASSUME NEW s \in Schedules, Increasing(s), NEW k \in 1..(Len(s) - 1),
         NEW t \in Nat, NEW u \in Nat, s[k].timestamp <= t, t <= u
  PROVE  Growth(s, k, t) <= Growth(s, k, u)
<1> DEFINE p == t - s[k].timestamp
           q == u - s[k].timestamp
           b == s[k + 1].balance - s[k].balance
           d == s[k + 1].timestamp - s[k].timestamp
<1>1. k \in 1..Len(s) /\ k + 1 \in 1..Len(s)
  BY ScheduleElements
<1>2. /\ s[k].timestamp \in Nat /\ s[k].balance \in Nat
      /\ s[k + 1].timestamp \in Nat /\ s[k + 1].balance \in Nat
  BY <1>1, ScheduleElements
<1>3. s[k].timestamp < s[k + 1].timestamp /\ s[k].balance <= s[k + 1].balance
  BY DEF Increasing
<1>4. p \in Nat /\ q \in Nat /\ p <= q /\ b \in Nat /\ d \in Nat \ {0}
  <2>1. p \in Nat /\ q \in Nat /\ p <= q
    <3>1. t \in Nat /\ u \in Nat /\ s[k].timestamp <= t /\ t <= u
      OBVIOUS
    <3> QED
      BY ONLY <1>2, <3>1, SMTT(30)
  <2>2. b \in Nat /\ d \in Nat \ {0}
    BY <1>2, <1>3
  <2> QED
    BY <2>1, <2>2
<1>5. Growth(s, k, t) = (p * b) \div d /\ Growth(s, k, u) = (q * b) \div d
  BY DEF Growth
<1> HIDE DEF p, q, b, d
<1>6. p * b \in Nat /\ q * b \in Nat /\ p * b <= q * b
  BY <1>4, ProductMonotone
<1> QED
  BY <1>4, <1>5, <1>6, DivisionMonotone

(* The three cases of unlocked_balance.                                    *)
LEMMA UnlockedBeforeStart ==
  ASSUME NEW s, NEW t, t < s[1].timestamp
  PROVE  unlocked_balance(s, t) = 0
BY DEF unlocked_balance

LEMMA UnlockedInSegment ==
  ASSUME NEW s \in Schedules, Increasing(s), NEW k \in 1..(Len(s) - 1), NEW t \in Nat,
         s[k].timestamp <= t, t < s[k + 1].timestamp
  PROVE  /\ unlocked_balance(s, t) = s[k].balance + Growth(s, k, t)
         /\ unlocked_balance(s, t) \in Nat
         /\ s[k].balance <= unlocked_balance(s, t)
         /\ unlocked_balance(s, t) <= s[k + 1].balance
<1>1. /\ Len(s) \in Nat /\ k \in 1..Len(s) /\ k + 1 \in 1..Len(s) /\ k # Len(s)
      /\ 1 \in 1..Len(s)
  BY ScheduleElements
<1>2. s[1].timestamp <= t /\ current_checkpoint(s, t) = k
  BY <1>1, CurrentCheckpointIs
<1>3. ~ (t < s[1].timestamp)
  BY <1>1, <1>2, ScheduleElements
<1>4. unlocked_balance(s, t) = s[k].balance + Growth(s, k, t)
  BY <1>1, <1>2, <1>3 DEF unlocked_balance, Growth
<1>5. t <= s[k + 1].timestamp
  BY <1>1, ScheduleElements
<1>6. Growth(s, k, t) \in Nat /\ Growth(s, k, t) <= s[k + 1].balance - s[k].balance
  BY <1>5, GrowthBounds
<1>7. s[k].balance \in Nat /\ s[k + 1].balance \in Nat
  BY <1>1, ScheduleElements
<1> QED
  BY <1>4, <1>6, <1>7

LEMMA UnlockedAfterEnd ==
  ASSUME NEW s \in Schedules, Increasing(s), NEW t \in Nat, s[Len(s)].timestamp <= t
  PROVE  unlocked_balance(s, t) = total_balance(s)
<1>1. Len(s) \in Nat /\ Len(s) \in 1..Len(s) /\ 1 \in 1..Len(s)
  BY ScheduleElements DEF Increasing
<1>2. s[1].timestamp <= t /\ current_checkpoint(s, t) = Len(s)
  BY <1>1, CurrentCheckpointIs
<1>3. ~ (t < s[1].timestamp)
  BY <1>1, <1>2, ScheduleElements
<1> QED
  BY <1>2, <1>3 DEF unlocked_balance, total_balance

(* Any instant from the first checkpoint on is in a segment or at the end. *)
LEMMA SegmentOf ==
  ASSUME NEW s \in Schedules, Increasing(s), NEW t \in Nat, s[1].timestamp <= t
  PROVE  \/ s[Len(s)].timestamp <= t
         \/ \E k \in 1..(Len(s) - 1) : s[k].timestamp <= t /\ t < s[k + 1].timestamp
<1> DEFINE k == current_checkpoint(s, t)
<1>1. /\ k \in 1..Len(s)
      /\ s[k].timestamp <= t
      /\ k < Len(s) => t < s[k + 1].timestamp
  BY CurrentCheckpoint
<1> HIDE DEF k
<1>2. k = Len(s) \/ k \in 1..(Len(s) - 1)
  BY <1>1, ScheduleElements
<1> QED
  BY <1>1, <1>2

-----------------------------------------------------------------------------
(* The unlocked balance is a balance, and never more than the total        *)
(* (schedule.rs:99): the subtraction at termination.rs:46 cannot underflow.*)
LEMMA UnlockedBounds ==
  ASSUME NEW s \in Schedules, Increasing(s), NEW t \in Nat
  PROVE  /\ unlocked_balance(s, t) \in Nat
         /\ unlocked_balance(s, t) <= total_balance(s)
         /\ total_balance(s) \in Nat
<1>1. Len(s) \in Nat /\ Len(s) \in 1..Len(s) /\ 1 \in 1..Len(s)
  BY ScheduleElements DEF Increasing
<1>2. total_balance(s) \in Nat
  BY <1>1, ScheduleElements DEF total_balance
<1>3. CASE t < s[1].timestamp
  BY <1>2, <1>3, UnlockedBeforeStart
<1>4. CASE s[Len(s)].timestamp <= t
  BY <1>2, <1>4, UnlockedAfterEnd
<1>5. ASSUME NEW k \in 1..(Len(s) - 1), s[k].timestamp <= t, t < s[k + 1].timestamp
      PROVE  unlocked_balance(s, t) \in Nat /\ unlocked_balance(s, t) <= total_balance(s)
  <2>1. k + 1 \in 1..Len(s) /\ k + 1 <= Len(s)
    BY <1>1
  <2>2. unlocked_balance(s, t) \in Nat /\ unlocked_balance(s, t) <= s[k + 1].balance
    BY <1>5, UnlockedInSegment
  <2>3. s[k + 1].balance <= total_balance(s)
    BY <1>1, <2>1, CheckpointsOrdered DEF total_balance
  <2>4. s[k + 1].balance \in Nat
    BY <2>1, ScheduleElements
  <2> QED
    BY <1>2, <2>2, <2>3, <2>4
<1>6. s[1].timestamp \in Nat
  BY <1>1, ScheduleElements
<1>7. t < s[1].timestamp \/ s[1].timestamp <= t
  BY <1>6
<1> QED
  BY <1>2, <1>3, <1>4, <1>5, <1>7, SegmentOf

(* What is unlocked stays unlocked: the balance never falls with time.     *)
LEMMA UnlockedMonotone ==
  ASSUME NEW s \in Schedules, Increasing(s), NEW t \in Nat, NEW u \in Nat, t <= u
  PROVE  unlocked_balance(s, t) <= unlocked_balance(s, u)
<1>1. Len(s) \in Nat /\ Len(s) \in 1..Len(s) /\ 1 \in 1..Len(s)
  BY ScheduleElements DEF Increasing
<1>2. s[1].timestamp \in Nat /\ s[Len(s)].timestamp \in Nat
  BY <1>1, ScheduleElements
<1>3. CASE t < s[1].timestamp
  BY <1>3, UnlockedBeforeStart, UnlockedBounds
<1>4. CASE s[Len(s)].timestamp <= u
  BY <1>4, UnlockedAfterEnd, UnlockedBounds
<1>5. ASSUME s[1].timestamp <= t, u < s[Len(s)].timestamp
      PROVE  unlocked_balance(s, t) <= unlocked_balance(s, u)
  <2>1. ~ (s[Len(s)].timestamp <= t) /\ ~ (s[Len(s)].timestamp <= u) /\ s[1].timestamp <= u
    BY <1>2, <1>5
  <2>2. PICK j \in 1..(Len(s) - 1) : s[j].timestamp <= t /\ t < s[j + 1].timestamp
    BY <1>5, <2>1, SegmentOf
  <2>3. PICK k \in 1..(Len(s) - 1) : s[k].timestamp <= u /\ u < s[k + 1].timestamp
    BY <2>1, SegmentOf
  <2>4. /\ j \in 1..Len(s) /\ j + 1 \in 1..Len(s)
        /\ k \in 1..Len(s) /\ k + 1 \in 1..Len(s)
    BY <1>1
  <2>5. /\ unlocked_balance(s, t) = s[j].balance + Growth(s, j, t)
        /\ unlocked_balance(s, t) \in Nat
        /\ unlocked_balance(s, t) <= s[j + 1].balance
    BY <2>2, UnlockedInSegment
  <2>6. /\ unlocked_balance(s, u) = s[k].balance + Growth(s, k, u)
        /\ unlocked_balance(s, u) \in Nat
        /\ s[k].balance <= unlocked_balance(s, u)
    BY <2>3, UnlockedInSegment
  <2>7. CASE j = k
    <3>1. Growth(s, j, t) <= Growth(s, j, u)
      BY <2>2, GrowthMonotone
    <3>2. /\ Growth(s, j, t) \in Nat /\ Growth(s, j, u) \in Nat
      <4>1. t <= s[j + 1].timestamp /\ u <= s[j + 1].timestamp /\ s[j].timestamp <= u
        BY <2>2, <2>3, <2>4, <2>7, ScheduleElements
      <4> QED
        BY <2>2, <4>1, GrowthBounds
    <3>3. s[j].balance \in Nat
      BY <2>4, ScheduleElements
    <3> QED
      BY <2>5, <2>6, <2>7, <3>1, <3>2, <3>3
  <2>8. CASE j < k
    <3>1. j + 1 <= k
      BY <2>4, <2>8
    <3>2. s[j + 1].balance <= s[k].balance
      BY <2>4, <3>1, CheckpointsOrdered
    <3>3. s[j + 1].balance \in Nat /\ s[k].balance \in Nat
      BY <2>4, ScheduleElements
    <3> QED
      BY <2>5, <2>6, <3>2, <3>3
  <2>9. ASSUME k < j PROVE FALSE
    <3>1. k + 1 <= j
      BY <2>4, <2>9
    <3>2. s[k + 1].timestamp <= s[j].timestamp
      BY <2>4, <3>1, CheckpointsOrdered
    <3>3. s[k + 1].timestamp \in Nat /\ s[j].timestamp \in Nat
      BY <2>4, ScheduleElements
    <3> QED
      BY <2>2, <2>3, <3>2, <3>3
  <2> QED
    BY <2>4, <2>7, <2>8, <2>9
<1>6. t < s[1].timestamp \/ s[1].timestamp <= t
  BY <1>2
<1>7. s[Len(s)].timestamp <= u \/ u < s[Len(s)].timestamp
  BY <1>2
<1> QED
  BY <1>3, <1>4, <1>5, <1>6, <1>7

-----------------------------------------------------------------------------
(* A termination that vests nothing leaves an empty schedule: two zero     *)
(* checkpoints, whatever timestamp was asked for (schedule.rs:138-150).    *)
LEMMA TerminateEmpty ==
  ASSUME NEW s \in Schedules, Increasing(s), NEW f \in Nat
  PROVE  LET n == terminate(s, 0, f)
         IN  /\ n \in Schedules
             /\ Increasing(n)
             /\ total_balance(n) = 0
<1> DEFINE finish == IF f > s[1].timestamp THEN f ELSE s[1].timestamp + 1
           n == << [timestamp |-> s[1].timestamp, balance |-> 0],
                   [timestamp |-> finish, balance |-> 0] >>
<1>1. 1 \in 1..Len(s)
  BY ScheduleElements DEF Increasing
<1>2. s[1].timestamp \in Nat /\ finish \in Nat /\ s[1].timestamp < finish
  BY <1>1, ScheduleElements
<1>3. terminate(s, 0, f) = n
  BY DEF terminate, new_zero_balance_from_to
<1>4. n \in Schedules
  BY <1>2 DEF Schedules, Checkpoint
<1>5. Increasing(n)
  BY <1>2 DEF Increasing
<1>6. total_balance(n) = 0
  BY DEF total_balance
<1> QED
  BY <1>3, <1>4, <1>5, <1>6

(* The checkpoint the popping of Schedule::terminate stops at exists.      *)
LEMMA CutCheckpoint ==
  ASSUME NEW s \in Schedules, Increasing(s), NEW v \in Nat \ {0}, v <= total_balance(s)
  PROVE  LET k == cut_checkpoint(s, v)
         IN  /\ k \in 1..(Len(s) - 1)
             /\ s[k].balance < v
             /\ v <= s[k + 1].balance
<1> DEFINE Below == { k \in 1..Len(s) : s[k].balance < v }
<1>1. Len(s) \in Nat /\ Len(s) \in 1..Len(s) /\ 1 \in Below
  BY ScheduleElements DEF Increasing
<1>2. PICK k \in Below : \A m \in Below : m <= k
  <2>1. Below \subseteq 0..Len(s) /\ Below # {}
    BY <1>1
  <2> HIDE DEF Below
  <2> QED
    BY <1>1, <2>1, GreatestNatural
<1>3. k # Len(s)
  BY <1>1, <1>2, ScheduleElements DEF total_balance
<1>4. k \in 1..(Len(s) - 1) /\ k + 1 \in 1..Len(s) /\ k + 1 \notin Below
  BY <1>1, <1>2, <1>3
<1>5. v <= s[k + 1].balance
  BY <1>4, ScheduleElements
<1>6. \E j \in 1..(Len(s) - 1) : s[j].balance < v /\ v <= s[j + 1].balance
  BY <1>2, <1>4, <1>5
<1> QED
  BY <1>6 DEF cut_checkpoint

(* A termination that vests something keeps the checkpoints up to the cut  *)
(* and puts the last one on, or just after, the line it cuts.              *)
LEMMA TerminateCut ==
  ASSUME NEW s \in Schedules, Increasing(s), NEW f \in Nat,
         NEW v \in Nat \ {0}, v <= total_balance(s)
  PROVE  LET n == terminate(s, v, f)
             k == cut_checkpoint(s, v)
             e == n[k + 1].timestamp - s[k].timestamp
         IN  /\ n \in Schedules
             /\ Len(n) = k + 1
             /\ \A i \in 1..k : n[i] = s[i]
             /\ n[k + 1].balance = v
             /\ n[k + 1].timestamp \in Nat
             /\ e \in 1..(s[k + 1].timestamp - s[k].timestamp)
             /\ (s[k + 1].timestamp - s[k].timestamp) * (v - s[k].balance)
                  <= e * (s[k + 1].balance - s[k].balance)
             /\ e * (s[k + 1].balance - s[k].balance)
                  < (s[k + 1].timestamp - s[k].timestamp) * (v - s[k].balance)
                      + (s[k + 1].balance - s[k].balance)
<1> DEFINE k == cut_checkpoint(s, v)
           d == s[k + 1].timestamp - s[k].timestamp
           b == s[k + 1].balance - s[k].balance
           r == v - s[k].balance
           e == (d * r + (b - 1)) \div b
           c == [timestamp |-> s[k].timestamp + e, balance |-> v]
           n == Append(SubSeq(s, 1, k), c)
<1>1. k \in 1..(Len(s) - 1) /\ s[k].balance < v /\ v <= s[k + 1].balance
  BY CutCheckpoint
<1> HIDE DEF k
<1>2. k \in 1..Len(s) /\ k + 1 \in 1..Len(s) /\ Len(s) \in Nat
  BY <1>1, ScheduleElements
<1>3. /\ s[k].timestamp \in Nat /\ s[k].balance \in Nat
      /\ s[k + 1].timestamp \in Nat /\ s[k + 1].balance \in Nat
  BY <1>2, ScheduleElements
<1>4. s[k].timestamp < s[k + 1].timestamp
  BY <1>1 DEF Increasing
<1>5. d \in Nat \ {0} /\ b \in Nat /\ r \in 1..b
  BY ONLY <1>1, <1>3, <1>4, SMTT(30)
<1>6. terminate(s, v, f) = n
  BY DEF terminate, k
<1>7. e \in 1..d /\ d * r <= e * b /\ e * b < d * r + b
  <2> HIDE DEF d, b, r
  <2> QED
    BY <1>5, CutDuration
<1> HIDE DEF e
<1>8. c \in Checkpoint
  BY <1>3, <1>5, <1>7 DEF Checkpoint
<1> HIDE DEF c
<1>9. /\ SubSeq(s, 1, k) \in Seq(Checkpoint)
      /\ Len(SubSeq(s, 1, k)) = k
      /\ \A i \in 1..k : SubSeq(s, 1, k)[i] = s[i]
  <2>1. \A i \in 1..k : s[i] \in Checkpoint
    BY <1>2, ScheduleElements
  <2>2. 1 \in Int /\ k \in Int /\ 1 <= k /\ k - 1 + 1 = k /\ \A i \in 1..k : 1 + i - 1 = i
    BY <1>2
  <2>3. /\ SubSeq(s, 1, k) \in Seq(Checkpoint)
        /\ Len(SubSeq(s, 1, k)) = IF 1 <= k THEN k - 1 + 1 ELSE 0
        /\ \A i \in 1..k - 1 + 1 : SubSeq(s, 1, k)[i] = s[1 + i - 1]
    BY <2>1, <2>2, SubSeqProperties
  <2> QED
    BY <2>2, <2>3
<1> DEFINE front == SubSeq(s, 1, k)
<1>10. /\ n \in Schedules
       /\ Len(n) = k + 1
       /\ \A i \in 1..k : n[i] = s[i]
       /\ n[k + 1] = c
  <2>1. front \in Seq(Checkpoint) /\ Len(front) = k /\ \A i \in 1..k : front[i] = s[i]
    BY <1>9
  <2>2. k \in Nat /\ k >= 1
    BY <1>2
  <2> HIDE DEF front
  <2>3. /\ Append(front, c) \in Schedules
        /\ Len(Append(front, c)) = k + 1
        /\ \A i \in 1..k : Append(front, c)[i] = s[i]
        /\ Append(front, c)[k + 1] = c
    BY <1>8, <2>1, <2>2 DEF Schedules
  <2> QED
    BY <2>3 DEF front
<1> HIDE DEF n
<1>11. c.timestamp = s[k].timestamp + e /\ c.balance = v
  BY DEF c
<1>12. n[k + 1].timestamp - s[k].timestamp = e /\ n[k + 1].timestamp \in Nat
  <2>1. e \in Nat
    <3> HIDE DEF d
    <3> QED
      BY <1>5, <1>7
  <2>2. n[k + 1].timestamp = s[k].timestamp + e
    BY <1>10, <1>11
  <2> QED
    BY <1>3, <2>1, <2>2
<1> QED
  BY <1>6, <1>7, <1>10, <1>11, <1>12 DEF k

(* A terminated schedule is increasing and ends at the vested balance, so  *)
(* everything that reads schedules can read it (schedule.rs:137-171).      *)
LEMMA TerminateWellFormed ==
  ASSUME NEW s \in Schedules, Increasing(s), NEW f \in Nat,
         NEW v \in Nat, v <= total_balance(s)
  PROVE  LET n == terminate(s, v, f)
         IN  /\ n \in Schedules
             /\ Increasing(n)
             /\ total_balance(n) = v
<1>1. CASE v = 0
  BY <1>1, TerminateEmpty
<1>2. CASE v # 0
  <2> DEFINE n == terminate(s, v, f)
             k == cut_checkpoint(s, v)
             e == n[k + 1].timestamp - s[k].timestamp
  <2>1. /\ n \in Schedules
        /\ Len(n) = k + 1
        /\ \A i \in 1..k : n[i] = s[i]
        /\ n[k + 1].balance = v
        /\ n[k + 1].timestamp \in Nat
        /\ e \in 1..(s[k + 1].timestamp - s[k].timestamp)
    BY <1>2, TerminateCut
  <2>2. k \in 1..(Len(s) - 1) /\ s[k].balance < v
    BY <1>2, CutCheckpoint
  <2> HIDE DEF n, k
  <2>3. k \in 1..Len(s) /\ k + 1 \in 1..Len(s) /\ Len(s) \in Nat
    BY <2>2, ScheduleElements
  <2>4. /\ s[k].timestamp \in Nat /\ s[k].balance \in Nat /\ s[k + 1].timestamp \in Nat
    BY <2>3, ScheduleElements
  <2>5. s[k].timestamp < n[k + 1].timestamp /\ s[k].balance <= n[k + 1].balance
    BY <2>1, <2>2, <2>4
  <2>6. n[1].balance = 0
    BY <2>1, <2>3 DEF Increasing
  <2>7. ASSUME NEW i \in 1..(Len(n) - 1)
        PROVE  n[i].timestamp < n[i + 1].timestamp /\ n[i].balance <= n[i + 1].balance
    <3>1. i \in 1..k
      BY <2>1, <2>3
    <3>2. CASE i = k
      BY <2>1, <2>5, <3>1, <3>2
    <3>3. CASE i # k
      <4>1. i \in 1..(Len(s) - 1) /\ i + 1 \in 1..k
        BY <2>3, <3>1, <3>3
      <4> QED
        BY <2>1, <3>1, <4>1 DEF Increasing
    <3> QED
      BY <3>2, <3>3
  <2>8. Increasing(n)
    BY <2>1, <2>3, <2>6, <2>7 DEF Increasing
  <2>9. total_balance(n) = v
    BY <2>1 DEF total_balance
  <2> QED
    BY <2>1, <2>8, <2>9 DEF n
<1> QED
  BY <1>1, <1>2

(* At a checkpoint everything up to its balance is unlocked.               *)
LEMMA UnlockedAtCheckpoint ==
  ASSUME NEW s \in Schedules, Increasing(s), NEW k \in 1..Len(s)
  PROVE  s[k].balance <= unlocked_balance(s, s[k].timestamp)
<1>1. Len(s) \in Nat /\ s[k].timestamp \in Nat /\ s[k].balance \in Nat
  BY ScheduleElements
<1>2. CASE k = Len(s)
  BY <1>1, <1>2, UnlockedAfterEnd DEF total_balance
<1>3. CASE k # Len(s)
  <2>1. k \in 1..(Len(s) - 1)
    BY <1>1, <1>3
  <2>2. s[k].timestamp < s[k + 1].timestamp
    BY <2>1 DEF Increasing
  <2> QED
    BY <1>1, <2>1, <2>2, UnlockedInSegment
<1> QED
  BY <1>2, <1>3

(* Two schedules that share their first checkpoints unlock the same until  *)
(* the last one they share.                                                *)
LEMMA SharedCheckpoints ==
  ASSUME NEW s \in Schedules, Increasing(s), NEW n \in Schedules, Increasing(n),
         NEW k \in 1..Len(s), k \in 1..Len(n), \A i \in 1..k : n[i] = s[i],
         NEW t \in Nat, t < s[k].timestamp
  PROVE  unlocked_balance(n, t) = unlocked_balance(s, t)
<1>1. /\ Len(s) \in Nat /\ Len(n) \in Nat /\ 1 \in 1..Len(s) /\ 1 \in 1..k /\ Len(s) \in 1..Len(s)
      /\ s[1].timestamp \in Nat /\ s[k].timestamp \in Nat /\ s[Len(s)].timestamp \in Nat
  BY ScheduleElements
<1>2. n[1] = s[1]
  BY <1>1
<1>3. CASE t < s[1].timestamp
  BY <1>2, <1>3, UnlockedBeforeStart
<1>4. CASE s[1].timestamp <= t
  <2>1. ~ (s[Len(s)].timestamp <= t)
    <3>1. s[k].timestamp <= s[Len(s)].timestamp
      BY <1>1, CheckpointsOrdered
    <3> QED
      BY <1>1, <3>1
  <2>2. PICK j \in 1..(Len(s) - 1) : s[j].timestamp <= t /\ t < s[j + 1].timestamp
    BY <1>4, <2>1, SegmentOf
  <2>3. j \in 1..Len(s) /\ s[j].timestamp \in Nat
    BY <1>1, ScheduleElements
  <2>4. j < k
    <3>1. ASSUME k <= j PROVE FALSE
      <4>1. s[k].timestamp <= s[j].timestamp
        BY <2>3, <3>1, CheckpointsOrdered
      <4> QED
        BY <1>1, <2>2, <2>3, <4>1
    <3> QED
      BY <1>1, <2>3, <3>1
  <2>5. j \in 1..k /\ j + 1 \in 1..k /\ j \in 1..(Len(n) - 1)
    BY <1>1, <2>3, <2>4
  <2>6. n[j] = s[j] /\ n[j + 1] = s[j + 1]
    BY <2>5
  <2>7. unlocked_balance(s, t) = s[j].balance + Growth(s, j, t)
    BY <2>2, UnlockedInSegment
  <2>8. unlocked_balance(n, t) = n[j].balance + Growth(n, j, t)
    BY <2>2, <2>5, <2>6, UnlockedInSegment
  <2>9. Growth(s, j, t) = Growth(n, j, t)
    BY <2>6 DEF Growth
  <2> QED
    BY <2>6, <2>7, <2>8, <2>9
<1> QED
  BY <1>1, <1>3, <1>4

(* Termination never brings an unlock forward: at every instant the        *)
(* terminated schedule has unlocked at most what the original had.         *)
THEOREM TerminateNeverAhead ==
  ASSUME NEW s \in Schedules, Increasing(s), NEW f \in Nat,
         NEW v \in Nat, v <= total_balance(s), NEW t \in Nat
  PROVE  unlocked_balance(terminate(s, v, f), t) <= unlocked_balance(s, t)
<1> DEFINE n == terminate(s, v, f)
           k == cut_checkpoint(s, v)
           e == n[k + 1].timestamp - s[k].timestamp
           d == s[k + 1].timestamp - s[k].timestamp
           b == s[k + 1].balance - s[k].balance
           r == v - s[k].balance
<1> SUFFICES unlocked_balance(n, t) <= unlocked_balance(s, t)
  OBVIOUS
<1>1. n \in Schedules /\ Increasing(n) /\ total_balance(n) = v
  BY TerminateWellFormed
<1>2. v # 0 => /\ Len(n) = k + 1
               /\ \A i \in 1..k : n[i] = s[i]
               /\ n[k + 1].balance = v
               /\ n[k + 1].timestamp \in Nat
               /\ e \in 1..d
               /\ d * r <= e * b
  BY TerminateCut
<1>3. v # 0 => k \in 1..(Len(s) - 1) /\ s[k].balance < v /\ v <= s[k + 1].balance
  BY CutCheckpoint
<1> HIDE DEF n, k
<1>4. /\ unlocked_balance(n, t) \in Nat /\ unlocked_balance(n, t) <= v
      /\ unlocked_balance(s, t) \in Nat
  BY <1>1, UnlockedBounds
<1>5. CASE v = 0
  BY <1>4, <1>5
<1>6. CASE v # 0
  <2>1. /\ Len(n) = k + 1
        /\ \A i \in 1..k : n[i] = s[i]
        /\ n[k + 1].balance = v
        /\ n[k + 1].timestamp \in Nat
        /\ e \in 1..d
        /\ d * r <= e * b
    BY <1>2, <1>6
  <2>2. k \in 1..(Len(s) - 1) /\ s[k].balance < v /\ v <= s[k + 1].balance
    BY <1>3, <1>6
  <2>3. /\ k \in 1..Len(s) /\ k + 1 \in 1..Len(s) /\ Len(s) \in Nat /\ 1 \in 1..Len(s)
        /\ k \in 1..(Len(n) - 1) /\ 1 \in 1..k
    BY <2>1, <2>2, ScheduleElements
  <2>4. /\ s[k].timestamp \in Nat /\ s[k].balance \in Nat /\ s[1].timestamp \in Nat
        /\ s[k + 1].timestamp \in Nat /\ s[k + 1].balance \in Nat
    BY <2>3, ScheduleElements
  <2>5. s[k].timestamp < s[k + 1].timestamp
    BY <2>2 DEF Increasing
  <2>6. n[1] = s[1] /\ n[k] = s[k]
    BY <2>1, <2>3
  <2>7. s[k].timestamp < n[k + 1].timestamp /\ n[k + 1].timestamp <= s[k + 1].timestamp
    <3>1. n[k + 1].timestamp - s[k].timestamp \in 1..d
      BY <2>1
    <3> QED
      BY ONLY <2>1, <2>4, <3>1, SMTT(30)
  <2>8. /\ d \in Nat \ {0} /\ b \in Nat \ {0} /\ r \in Nat \ {0} /\ e \in Nat \ {0}
        /\ d * r <= e * b
    <3>1. d \in Nat \ {0}
      BY <2>4, <2>5
    <3>2. b \in Nat \ {0} /\ r \in Nat \ {0}
      <4>1. s[k].balance < v /\ v <= s[k + 1].balance
        BY <2>2
      <4> QED
        BY <2>4, <4>1
    <3>3. e \in Nat \ {0}
      BY <2>1, <2>4, <2>7
    <3> QED
      BY <2>1, <3>1, <3>2, <3>3
  <2> HIDE DEF e, d, b, r
  <2>9. ASSUME NEW u \in Nat, s[k].timestamp <= u
        PROVE  Growth(n, k, u) <= Growth(s, k, u)
    <3> DEFINE p == u - s[k].timestamp
    <3>1. p \in Nat
      BY <2>4, <2>9
    <3>2. Growth(n, k, u) = (p * r) \div e /\ Growth(s, k, u) = (p * b) \div d
      BY <2>1, <2>6 DEF Growth, r, e, b, d
    <3> HIDE DEF p
    <3>3. (p * r) \div e <= (p * b) \div d
      BY <2>8, <3>1, CutNotSteeper
    <3> QED
      BY <3>2, <3>3
  <2>11. ASSUME n[k + 1].timestamp <= t
         PROVE  v <= unlocked_balance(s, t)
    <3> DEFINE end == n[k + 1].timestamp
    <3>1. end \in Nat /\ s[k].timestamp <= end /\ end <= t
      BY <2>1, <2>4, <2>7, <2>11
    <3>2. unlocked_balance(s, end) <= unlocked_balance(s, t)
      BY <3>1, UnlockedMonotone
    <3>3. unlocked_balance(s, end) \in Nat
      BY <3>1, UnlockedBounds
    <3>4. CASE end = s[k + 1].timestamp
      <4>1. s[k + 1].balance <= unlocked_balance(s, end)
        BY <2>3, <3>4, UnlockedAtCheckpoint
      <4> QED
        BY <1>4, <2>2, <2>4, <3>2, <3>3, <4>1
    <3>5. CASE end < s[k + 1].timestamp
      <4>1. unlocked_balance(s, end) = s[k].balance + Growth(s, k, end)
        BY <2>2, <3>1, <3>5, UnlockedInSegment
      <4>2. Growth(s, k, end) = (e * b) \div d
        BY DEF Growth, e, b, d
      <4>3. r <= (e * b) \div d
        <5>1. r * d <= e * b /\ e * b \in Nat
          BY <2>8
        <5> QED
          BY <2>8, <5>1, DivisionAtLeast
      <4>4. v = s[k].balance + r
        BY <2>4 DEF r
      <4>5. (e * b) \div d \in Nat
        BY <2>8, DivisionRoundsDown
      <4>6. v <= unlocked_balance(s, end)
        BY <2>4, <2>8, <4>1, <4>2, <4>3, <4>4, <4>5
      <4> QED
        BY <1>4, <3>2, <3>3, <4>6
    <3> QED
      BY <2>4, <2>7, <3>1, <3>4, <3>5
  <2>12. CASE n[k + 1].timestamp <= t
    BY <1>4, <2>11, <2>12
  <2>13. CASE s[k].timestamp <= t /\ t < n[k + 1].timestamp
    <3>1. unlocked_balance(n, t) = n[k].balance + Growth(n, k, t)
      BY <1>1, <2>3, <2>6, <2>13, UnlockedInSegment
    <3>2. t < s[k + 1].timestamp /\ t <= s[k + 1].timestamp /\ t <= n[k + 1].timestamp
      BY <2>1, <2>4, <2>7, <2>13
    <3>3. unlocked_balance(s, t) = s[k].balance + Growth(s, k, t)
      BY <2>2, <2>13, <3>2, UnlockedInSegment
    <3>4. Growth(n, k, t) <= Growth(s, k, t)
      BY <2>9, <2>13
    <3>5. Growth(n, k, t) \in Nat /\ Growth(s, k, t) \in Nat
      BY <1>1, <2>2, <2>3, <2>6, <2>13, <3>2, GrowthBounds
    <3> QED
      BY <2>4, <2>6, <3>1, <3>3, <3>4, <3>5
  <2>14. CASE t < s[k].timestamp
    <3>1. k \in 1..Len(n) /\ k \in 1..Len(s)
      BY <2>1, <2>3
    <3>2. unlocked_balance(n, t) = unlocked_balance(s, t)
      BY <1>1, <2>1, <2>14, <3>1, SharedCheckpoints
    <3> QED
      BY <1>4, <3>2
  <2> QED
    BY <2>1, <2>4, <2>12, <2>13, <2>14
<1> QED
  BY <1>5, <1>6

(* At a checkpoint exactly its balance is unlocked.                        *)
LEMMA UnlockedIsCheckpoint ==
  ASSUME NEW s \in Schedules, Increasing(s), NEW k \in 1..Len(s)
  PROVE  unlocked_balance(s, s[k].timestamp) = s[k].balance
<1>1. Len(s) \in Nat /\ s[k].timestamp \in Nat /\ s[k].balance \in Nat
  BY ScheduleElements
<1>2. CASE k = Len(s)
  BY <1>1, <1>2, UnlockedAfterEnd DEF total_balance
<1>3. CASE k # Len(s)
  <2> DEFINE b == s[k + 1].balance - s[k].balance
             d == s[k + 1].timestamp - s[k].timestamp
  <2>1. k \in 1..(Len(s) - 1) /\ k + 1 \in 1..Len(s)
    BY <1>1, <1>3
  <2>2. s[k].timestamp < s[k + 1].timestamp /\ s[k].balance <= s[k + 1].balance
    BY <2>1 DEF Increasing
  <2>3. unlocked_balance(s, s[k].timestamp) = s[k].balance + Growth(s, k, s[k].timestamp)
    BY <1>1, <2>1, <2>2, UnlockedInSegment
  <2>4. b \in Nat /\ d \in Nat \ {0}
    BY <1>1, <2>1, <2>2, ScheduleElements
  <2>5. Growth(s, k, s[k].timestamp) = (0 * b) \div d
    BY <1>1 DEF Growth
  <2> HIDE DEF b, d
  <2>6. (0 * b) \div d = 0
    BY <2>4
  <2> QED
    BY <1>1, <2>3, <2>5, <2>6
<1> QED
  BY <1>2, <1>3

(* Between two neighbouring checkpoints the unlocked balance is the line   *)
(* through them, rounded down.                                             *)
LEMMA UnlockedBetween ==
  ASSUME NEW s \in Schedules, Increasing(s), NEW k \in 1..(Len(s) - 1), NEW t \in Nat,
         s[k].timestamp <= t, t <= s[k + 1].timestamp
  PROVE  LET duration == s[k + 1].timestamp - s[k].timestamp
             grown    == (t - s[k].timestamp) * (s[k + 1].balance - s[k].balance)
         IN  /\ (unlocked_balance(s, t) - s[k].balance) * duration <= grown
             /\ grown < (unlocked_balance(s, t) - s[k].balance + 1) * duration
<1> DEFINE p == t - s[k].timestamp
           b == s[k + 1].balance - s[k].balance
           d == s[k + 1].timestamp - s[k].timestamp
           g == unlocked_balance(s, t) - s[k].balance
<1>1. /\ k + 1 \in 1..Len(s)
      /\ s[k].timestamp \in Nat /\ s[k].balance \in Nat
      /\ s[k + 1].timestamp \in Nat /\ s[k + 1].balance \in Nat
  BY ScheduleElements
<1>2. s[k].timestamp < s[k + 1].timestamp /\ s[k].balance <= s[k + 1].balance
  BY DEF Increasing
<1>3. p \in Nat
  BY <1>1
<1>4. b \in Nat /\ d \in Nat \ {0}
  BY <1>1, <1>2
<1>5. CASE t < s[k + 1].timestamp
  <2>1. unlocked_balance(s, t) = s[k].balance + Growth(s, k, t)
    BY <1>5, UnlockedInSegment
  <2>2. Growth(s, k, t) = (p * b) \div d
    BY DEF Growth
  <2> HIDE DEF p, b, d
  <2>3. /\ (p * b) \div d \in Nat
        /\ ((p * b) \div d) * d <= p * b
        /\ p * b < ((p * b) \div d + 1) * d
    <3>1. p * b \in Nat
      BY <1>3, <1>4
    <3> QED
      BY <1>4, <3>1, DivisionRoundsDown
  <2>4. g = (p * b) \div d
    BY <1>1, <2>1, <2>2, <2>3
  <2> QED
    BY <2>3, <2>4 DEF p, b, d
<1>6. CASE t = s[k + 1].timestamp
  <2>1. g = b /\ p = d
    BY <1>1, <1>6, UnlockedIsCheckpoint
  <2> HIDE DEF p, b, d, g
  <2>2. g * d <= p * b /\ p * b < (g + 1) * d
    BY <1>4, <2>1
  <2> QED
    BY <2>2 DEF p, b, d, g
<1> QED
  BY <1>1, <1>5, <1>6

(* Termination delays what is vested by less than two seconds: after one   *)
(* second the terminated schedule has unlocked what the original had, or   *)
(* everything that is left to it (schedule.rs:158 rounds up).              *)
THEOREM TerminateOneSecondLate ==
  ASSUME NEW s \in Schedules, Increasing(s), NEW f \in Nat,
         NEW v \in Nat, v <= total_balance(s), NEW t \in Nat
  PROVE  LET later == unlocked_balance(terminate(s, v, f), t + 1)
         IN  v <= later \/ unlocked_balance(s, t) <= later
<1> DEFINE n == terminate(s, v, f)
           k == cut_checkpoint(s, v)
           e == n[k + 1].timestamp - s[k].timestamp
           d == s[k + 1].timestamp - s[k].timestamp
           b == s[k + 1].balance - s[k].balance
           r == v - s[k].balance
           u == t + 1
<1> SUFFICES v <= unlocked_balance(n, u) \/ unlocked_balance(s, t) <= unlocked_balance(n, u)
  OBVIOUS
<1>1. n \in Schedules /\ Increasing(n) /\ total_balance(n) = v
  BY TerminateWellFormed
<1>2. v # 0 => /\ Len(n) = k + 1
               /\ \A i \in 1..k : n[i] = s[i]
               /\ n[k + 1].balance = v
               /\ n[k + 1].timestamp \in Nat
               /\ e \in 1..d
               /\ e * b < d * r + b
  BY TerminateCut
<1>3. v # 0 => k \in 1..(Len(s) - 1) /\ s[k].balance < v /\ v <= s[k + 1].balance
  BY CutCheckpoint
<1> HIDE DEF n, k
<1>4. u \in Nat /\ t <= u
  OBVIOUS
<1>5. /\ unlocked_balance(n, t) \in Nat /\ unlocked_balance(n, u) \in Nat
      /\ unlocked_balance(n, t) <= unlocked_balance(n, u)
      /\ unlocked_balance(s, t) \in Nat
  BY <1>1, <1>4, UnlockedBounds, UnlockedMonotone
<1>6. CASE v = 0
  BY <1>5, <1>6
<1>7. CASE v # 0
  <2>1. /\ Len(n) = k + 1
        /\ \A i \in 1..k : n[i] = s[i]
        /\ n[k + 1].balance = v
        /\ n[k + 1].timestamp \in Nat
        /\ e \in 1..d
    BY <1>2, <1>7
  <2>2. k \in 1..(Len(s) - 1) /\ s[k].balance < v /\ v <= s[k + 1].balance
    BY <1>3, <1>7
  <2>3. /\ k \in 1..Len(s) /\ k \in 1..Len(n) /\ k + 1 \in 1..Len(s)
        /\ k \in 1..(Len(n) - 1) /\ k \in 1..k
    BY <2>1, <2>2, ScheduleElements
  <2>4. /\ s[k].timestamp \in Nat /\ s[k].balance \in Nat
        /\ s[k + 1].timestamp \in Nat /\ s[k + 1].balance \in Nat
    BY <2>3, ScheduleElements
  <2>5. n[k] = s[k]
    BY <2>1, <2>3
  <2>6. s[k].timestamp < n[k + 1].timestamp /\ n[k + 1].timestamp <= s[k + 1].timestamp
    BY <2>1, <2>4
  <2>7. CASE n[k + 1].timestamp <= u
    BY <1>1, <1>4, <1>5, <2>1, <2>7, UnlockedAfterEnd
  <2>8. CASE t < s[k].timestamp
    <3>1. unlocked_balance(n, t) = unlocked_balance(s, t)
      BY <1>1, <2>1, <2>3, <2>8, SharedCheckpoints
    <3> QED
      BY <1>5, <3>1
  <2>9. CASE s[k].timestamp <= t /\ u < n[k + 1].timestamp
    <3> DEFINE p == t - s[k].timestamp
    <3>1. /\ p \in Nat /\ p + 1 < e
          /\ d \in Nat \ {0} /\ b \in Nat \ {0} /\ r \in Nat \ {0} /\ e \in Nat \ {0}
      <4>1. p \in Nat /\ p + 1 < e
        <5>1. s[k].timestamp <= t /\ t + 1 < n[k + 1].timestamp /\ n[k + 1].timestamp \in Nat
          BY <2>1, <2>9
        <5>2. s[k].timestamp \in Nat
          BY <2>4
        <5> QED
          BY <5>1, <5>2
      <4>2. d \in Nat \ {0} /\ e \in Nat \ {0}
        BY <2>1, <2>4, <2>6
      <4>3. b \in Nat \ {0} /\ r \in Nat \ {0}
        <5>1. s[k].balance < v /\ v <= s[k + 1].balance
          BY <2>2
        <5> QED
          BY <2>4, <5>1
      <4> QED
        BY <4>1, <4>2, <4>3
    <3>2. t < s[k + 1].timestamp /\ t <= s[k + 1].timestamp
      <4>1. /\ t + 1 < n[k + 1].timestamp /\ n[k + 1].timestamp \in Nat
            /\ n[k + 1].timestamp <= s[k + 1].timestamp /\ s[k + 1].timestamp \in Nat
        BY <2>1, <2>4, <2>6, <2>9
      <4> HIDE DEF u, e, d, b, r, p
      <4> QED
        BY <4>1
    <3>3. unlocked_balance(s, t) = s[k].balance + Growth(s, k, t)
      BY <2>2, <2>9, <3>2, UnlockedInSegment
    <3>4. s[k].timestamp <= u /\ u <= n[k + 1].timestamp
      BY <1>4, <2>1, <2>4, <2>9
    <3>5. unlocked_balance(n, u) = n[k].balance + Growth(n, k, u)
      BY <1>1, <1>4, <2>3, <2>5, <2>9, <3>4, UnlockedInSegment
    <3>6. Growth(s, k, t) = (p * b) \div d
      BY DEF Growth
    <3>7. Growth(n, k, u) = ((p + 1) * r) \div e
      <4>1. u - s[k].timestamp = p + 1
        BY <2>4
      <4> QED
        BY <2>1, <2>5, <4>1 DEF Growth
    <3>8. Growth(s, k, t) \in Nat /\ Growth(n, k, u) \in Nat
      BY <1>1, <1>4, <2>2, <2>3, <2>5, <2>9, <3>2, <3>4, GrowthBounds
    <3>9. e * b < d * r + b
      BY <1>2, <1>7
    <3> HIDE DEF p, e, d, b, r
    <3>10. (p * b) \div d <= ((p + 1) * r) \div e
      BY <3>1, <3>9, CutOneSecondLate
    <3> QED
      BY <2>4, <2>5, <3>3, <3>5, <3>6, <3>7, <3>8, <3>10
  <2>10. n[k + 1].timestamp \in Nat /\ s[k].timestamp \in Nat
    BY <2>1, <2>4
  <2> HIDE DEF u
  <2> QED
    BY <1>4, <2>7, <2>8, <2>9, <2>10
<1> QED
  BY <1>6, <1>7

(* A terminated schedule ends no later than the original, whose 32 bits    *)
(* its end therefore fits (schedule.rs:138-161).                           *)
LEMMA TerminateEndsNoLater ==
  ASSUME NEW s \in Schedules, Increasing(s), NEW f \in Nat,
         NEW v \in Nat, v <= total_balance(s), v = 0 => f <= s[Len(s)].timestamp
  PROVE  LET n == terminate(s, v, f)
         IN  n[Len(n)].timestamp <= s[Len(s)].timestamp
<1> DEFINE n == terminate(s, v, f)
           k == cut_checkpoint(s, v)
<1>1. /\ 1 \in 1..Len(s) /\ 2 \in 1..Len(s) /\ 1 \in 1..(Len(s) - 1) /\ Len(s) \in 1..Len(s)
      /\ Len(s) \in Nat /\ s[1].timestamp \in Nat /\ s[2].timestamp \in Nat
      /\ s[Len(s)].timestamp \in Nat
  BY ScheduleElements DEF Increasing
<1>2. CASE v = 0
  <2>1. s[1].timestamp < s[2].timestamp /\ s[2].timestamp <= s[Len(s)].timestamp
    BY <1>1, CheckpointsOrdered DEF Increasing
  <2>2. /\ Len(n) = 2
        /\ n[2].timestamp = IF f > s[1].timestamp THEN f ELSE s[1].timestamp + 1
    BY <1>2 DEF terminate, new_zero_balance_from_to
  <2> HIDE DEF n
  <2> SUFFICES n[2].timestamp <= s[Len(s)].timestamp
    BY <2>2 DEF n
  <2> QED
    BY <1>1, <1>2, <2>1, <2>2
<1>3. CASE v # 0
  <2>1. /\ Len(n) = k + 1
        /\ n[k + 1].timestamp \in Nat
        /\ n[k + 1].timestamp - s[k].timestamp \in 1..(s[k + 1].timestamp - s[k].timestamp)
    BY <1>3, TerminateCut
  <2>2. k \in 1..(Len(s) - 1)
    BY <1>3, CutCheckpoint
  <2> HIDE DEF n, k
  <2>3. /\ k \in 1..Len(s) /\ k + 1 \in 1..Len(s) /\ k + 1 <= Len(s)
        /\ s[k].timestamp \in Nat /\ s[k + 1].timestamp \in Nat
    BY <1>1, <2>2, ScheduleElements
  <2>4. s[k + 1].timestamp <= s[Len(s)].timestamp
    BY <1>1, <2>3, CheckpointsOrdered
  <2>5. n[k + 1].timestamp <= s[k + 1].timestamp
    BY <2>1, <2>3
  <2>6. n[Len(n)].timestamp <= s[Len(s)].timestamp
    BY ONLY <1>1, <2>1, <2>3, <2>4, <2>5, SMTT(30)
  <2> QED
    BY <2>6 DEF n
<1> QED
  BY <1>2, <1>3

-----------------------------------------------------------------------------
(* assert_valid_termination_schedule compares two schedules at their       *)
(* checkpoints only, and on rounded balances.  What follows is how much    *)
(* that says of the instants between: the exact lines are straight between *)
(* checkpoints, and at one of them rounding hides less than one token.     *)

(* A line that is positive at both ends is positive between them.          *)
LEMMA PositiveBetween ==
  ASSUME NEW a \in Int, NEW m \in Int, NEW lo \in Int, NEW hi \in Int, NEW t \in Int,
         lo <= t, t <= hi, a + m * lo > 0, a + m * hi > 0
  PROVE  a + m * t > 0
<1>1. m * lo \in Int /\ m * hi \in Int /\ m * t \in Int
  OBVIOUS
<1>2. CASE m >= 0
  <2>1. m * (t - lo) >= 0
    BY <1>2
  <2>2. m * (t - lo) = m * t - m * lo
    OBVIOUS
  <2> QED
    BY <1>1, <2>1, <2>2
<1>3. CASE m < 0
  <2>1. (0 - m) * (hi - t) >= 0
    BY <1>3
  <2>2. (0 - m) * (hi - t) = m * t - m * hi
    OBVIOUS
  <2> QED
    BY <1>1, <2>1, <2>2
<1> QED
  BY <1>2, <1>3

(* The lead of the exact line of v over that of s, plus one token: x and y *)
(* are what s and v have grown since balances c and g, times the durations *)
(* d and e of their segments.                                              *)
Lead(c, d, x, g, e, y) == (g - c + 1) * (d * e) + y * d - x * e

(* Where s has a checkpoint, its balance a is exact, and is at most the    *)
(* rounded balance b of v.                                                 *)
LEMMA LeadAtFirst ==
  ASSUME NEW c \in Int, NEW d \in Nat \ {0}, NEW x \in Int,
         NEW g \in Int, NEW e \in Nat \ {0}, NEW y \in Int,
         NEW a \in Int, NEW b \in Int, a <= b, x = (a - c) * d, (b - g) * e <= y
  PROVE  Lead(c, d, x, g, e, y) > 0
<1> DEFINE p == d * e
<1>1. p \in Nat \ {0} /\ y * d \in Int /\ x * e \in Int
  OBVIOUS
<1>2. ((b - g) * e) * d <= y * d
  OBVIOUS
<1>3. ((b - g) * e) * d = b * p - g * p
  OBVIOUS
<1>4. ((a - c) * d) * e = a * p - c * p
  OBVIOUS
<1>5. (g - c + 1) * p = g * p - c * p + p
  OBVIOUS
<1>6. Lead(c, d, x, g, e, y) = (g - c + 1) * p + y * d - x * e
  BY DEF Lead
<1> HIDE DEF p
<1>7. a * p <= b * p /\ a * p \in Int /\ b * p \in Int /\ c * p \in Int /\ g * p \in Int
  BY <1>1
<1>8. x * e = a * p - c * p
  BY <1>4
<1> QED
  BY <1>1, <1>2, <1>3, <1>5, <1>6, <1>7, <1>8

(* Where v has a checkpoint, its balance b is exact, and is at least the   *)
(* rounded balance a of s.                                                 *)
LEMMA LeadAtSecond ==
  ASSUME NEW c \in Int, NEW d \in Nat \ {0}, NEW x \in Int,
         NEW g \in Int, NEW e \in Nat \ {0}, NEW y \in Int,
         NEW a \in Int, NEW b \in Int, a <= b, y = (b - g) * e, x < (a - c + 1) * d
  PROVE  Lead(c, d, x, g, e, y) > 0
<1> DEFINE p == d * e
<1>1. p \in Nat \ {0} /\ y * d \in Int /\ x * e \in Int
  OBVIOUS
<1>2. x * e < ((a - c + 1) * d) * e
  OBVIOUS
<1>3. ((a - c + 1) * d) * e = a * p - c * p + p
  OBVIOUS
<1>4. ((b - g) * e) * d = b * p - g * p
  OBVIOUS
<1>5. (g - c + 1) * p = g * p - c * p + p
  OBVIOUS
<1>6. Lead(c, d, x, g, e, y) = (g - c + 1) * p + y * d - x * e
  BY DEF Lead
<1> HIDE DEF p
<1>7. a * p <= b * p /\ a * p \in Int /\ b * p \in Int /\ c * p \in Int /\ g * p \in Int
  BY <1>1
<1>8. y * d = b * p - g * p
  BY <1>4
<1> QED
  BY <1>1, <1>2, <1>3, <1>5, <1>6, <1>7, <1>8

(* A lead bounds the rounded balances: v is at most one token behind.      *)
LEMMA LeadBounds ==
  ASSUME NEW c \in Int, NEW d \in Nat \ {0}, NEW x \in Int,
         NEW g \in Int, NEW e \in Nat \ {0}, NEW y \in Int,
         NEW a \in Int, NEW b \in Int,
         (a - c) * d <= x, y < (b - g + 1) * e, Lead(c, d, x, g, e, y) > 0
  PROVE  a <= b + 1
<1> DEFINE p == d * e
<1>1. p \in Nat \ {0} /\ y * d \in Int /\ x * e \in Int
  OBVIOUS
<1>2. ((a - c) * d) * e <= x * e
  OBVIOUS
<1>3. y * d < ((b - g + 1) * e) * d
  OBVIOUS
<1>4. ((a - c) * d) * e = a * p - c * p
  OBVIOUS
<1>5. ((b - g + 1) * e) * d = b * p - g * p + p
  OBVIOUS
<1>6. (g - c + 1) * p = g * p - c * p + p
  OBVIOUS
<1>7. (g - c + 1) * p + y * d - x * e > 0
  BY DEF Lead
<1>8. (b + 2) * p = b * p + p + p
  OBVIOUS
<1> HIDE DEF p
<1>9. a * p \in Int /\ b * p \in Int /\ c * p \in Int /\ g * p \in Int
  BY <1>1
<1>10. a * p < (b + 2) * p
  BY <1>1, <1>2, <1>3, <1>4, <1>5, <1>6, <1>7, <1>8, <1>9
<1>11. ASSUME b + 2 <= a PROVE FALSE
  <2>1. (b + 2) * p <= a * p
    BY <1>1, <1>11
  <2> QED
    BY <1>1, <1>9, <1>10, <2>1
<1> QED
  BY <1>11

(* The two lines over segment i of s and segment j of v.                   *)
Grown(s, i, u) == (u - s[i].timestamp) * (s[i + 1].balance - s[i].balance)

Duration(s, i) == s[i + 1].timestamp - s[i].timestamp

InSegment(s, i, u) == s[i].timestamp <= u /\ u <= s[i + 1].timestamp

LeadIn(s, i, v, j, u) == Lead(s[i].balance, Duration(s, i), Grown(s, i, u),
                              v[j].balance, Duration(v, j), Grown(v, j, u))

LEMMA SegmentTypes ==
  ASSUME NEW s \in Schedules, Increasing(s), NEW i \in 1..(Len(s) - 1), NEW u \in Nat
  PROVE  /\ i \in 1..Len(s) /\ i + 1 \in 1..Len(s)
         /\ s[i].timestamp \in Nat /\ s[i].balance \in Nat
         /\ s[i + 1].timestamp \in Nat /\ s[i + 1].balance \in Nat
         /\ Duration(s, i) \in Nat \ {0}
         /\ Grown(s, i, u) \in Int
<1>1. /\ i \in 1..Len(s) /\ i + 1 \in 1..Len(s)
      /\ s[i].timestamp \in Nat /\ s[i].balance \in Nat
      /\ s[i + 1].timestamp \in Nat /\ s[i + 1].balance \in Nat
  BY ScheduleElements
<1>2. s[i].timestamp < s[i + 1].timestamp
  BY DEF Increasing
<1>3. Duration(s, i) \in Nat \ {0}
  BY <1>1, <1>2 DEF Duration
<1>4. Grown(s, i, u) \in Int
  BY <1>1 DEF Grown
<1> QED
  BY <1>1, <1>3, <1>4

(* The rounded balance is within one token below the line.                 *)
LEMMA SegmentRounds ==
  ASSUME NEW s \in Schedules, Increasing(s), NEW i \in 1..(Len(s) - 1), NEW u \in Nat,
         InSegment(s, i, u)
  PROVE  /\ unlocked_balance(s, u) \in Nat
         /\ (unlocked_balance(s, u) - s[i].balance) * Duration(s, i) <= Grown(s, i, u)
         /\ Grown(s, i, u) < (unlocked_balance(s, u) - s[i].balance + 1) * Duration(s, i)
BY UnlockedBounds, UnlockedBetween DEF InSegment, Grown, Duration

(* At either end of the segment it is on the line.                         *)
LEMMA SegmentEnds ==
  ASSUME NEW s \in Schedules, Increasing(s), NEW i \in 1..(Len(s) - 1), NEW k \in {i, i + 1}
  PROVE  /\ k \in 1..Len(s) /\ s[k].balance \in Nat /\ s[k].timestamp \in Nat
         /\ unlocked_balance(s, s[k].timestamp) = s[k].balance
         /\ Grown(s, i, s[k].timestamp) = (s[k].balance - s[i].balance) * Duration(s, i)
<1>1. /\ i \in 1..Len(s) /\ i + 1 \in 1..Len(s)
      /\ s[i].timestamp \in Nat /\ s[i].balance \in Nat
      /\ s[i + 1].timestamp \in Nat /\ s[i + 1].balance \in Nat
  BY SegmentTypes
<1>2. k \in 1..Len(s) /\ s[k].balance \in Nat /\ s[k].timestamp \in Nat
  BY <1>1
<1>3. unlocked_balance(s, s[k].timestamp) = s[k].balance
  BY <1>2, UnlockedIsCheckpoint
<1>4. Grown(s, i, s[k].timestamp) = (s[k].balance - s[i].balance) * Duration(s, i)
  BY <1>1 DEF Grown, Duration
<1> QED
  BY <1>2, <1>3, <1>4

(* The lead is positive wherever a checkpoint of either was compared.      *)
LEMMA LeadAtCheckpoints ==
  ASSUME NEW s \in Schedules, Increasing(s), NEW v \in Schedules, Increasing(v),
         assert_valid_termination_schedule(s, v),
         NEW i \in 1..(Len(s) - 1), NEW j \in 1..(Len(v) - 1), NEW u \in Nat,
         InSegment(s, i, u), InSegment(v, j, u),
         u \in {s[i].timestamp, s[i + 1].timestamp, v[j].timestamp, v[j + 1].timestamp}
  PROVE  LeadIn(s, i, v, j, u) > 0
<1> DEFINE a == unlocked_balance(s, u)
           b == unlocked_balance(v, u)
<1>1. /\ s[i].balance \in Int /\ Duration(s, i) \in Nat \ {0} /\ Grown(s, i, u) \in Int
      /\ v[j].balance \in Int /\ Duration(v, j) \in Nat \ {0} /\ Grown(v, j, u) \in Int
  <2>1. s[i].balance \in Nat /\ Duration(s, i) \in Nat \ {0} /\ Grown(s, i, u) \in Int
    BY SegmentTypes
  <2>2. v[j].balance \in Nat /\ Duration(v, j) \in Nat \ {0} /\ Grown(v, j, u) \in Int
    BY SegmentTypes
  <2> QED
    BY <2>1, <2>2
<1>2. /\ a \in Int
      /\ Grown(s, i, u) < (a - s[i].balance + 1) * Duration(s, i)
  BY SegmentRounds
<1>3. /\ b \in Int
      /\ (b - v[j].balance) * Duration(v, j) <= Grown(v, j, u)
  BY SegmentRounds
<1>4. CASE u \in {s[i].timestamp, s[i + 1].timestamp}
  <2>1. PICK k \in {i, i + 1} : u = s[k].timestamp
    BY <1>4
  <2>2. k \in 1..Len(s) /\ a = s[k].balance
        /\ Grown(s, i, u) = (a - s[i].balance) * Duration(s, i)
    BY <2>1, SegmentEnds
  <2>3. a <= b
    BY <2>1, <2>2 DEF assert_valid_termination_schedule
  <2> HIDE DEF a, b
  <2> QED
    BY <1>1, <1>2, <1>3, <2>2, <2>3, LeadAtFirst DEF LeadIn
<1>5. CASE u \in {v[j].timestamp, v[j + 1].timestamp}
  <2>1. PICK k \in {j, j + 1} : u = v[k].timestamp
    BY <1>5
  <2>2. k \in 1..Len(v) /\ b = v[k].balance
        /\ Grown(v, j, u) = (b - v[j].balance) * Duration(v, j)
    BY <2>1, SegmentEnds
  <2>3. a <= b
    BY <1>2, <1>3, <2>1, <2>2 DEF assert_valid_termination_schedule
  <2> HIDE DEF a, b
  <2> QED
    BY <1>1, <1>2, <1>3, <2>2, <2>3, LeadAtSecond DEF LeadIn
<1> QED
  BY <1>4, <1>5

(* Over one segment of each, the lead is a straight line.                  *)
LinesLead(c, d, x, p, g, e, y, q, u) == Lead(c, d, (u - p) * x, g, e, (u - q) * y)

StraightLead(c, d, x, p, g, e, y, q) ==
  \E a \in Int, m \in Int : \A u \in Nat : LinesLead(c, d, x, p, g, e, y, q, u) = a + m * u

LEMMA LeadOfLines ==
  ASSUME NEW c \in Int, NEW d \in Int, NEW x \in Int, NEW p \in Int,
         NEW g \in Int, NEW e \in Int, NEW y \in Int, NEW q \in Int
  PROVE  StraightLead(c, d, x, p, g, e, y, q)
<1> DEFINE h == (g - c + 1) * (d * e)
           m == y * d - x * e
           a == h - (q * y) * d + (p * x) * e
<1>1. h \in Int
  OBVIOUS
<1>2. a \in Int /\ m \in Int
  <2>1. (q * y) * d \in Int /\ (p * x) * e \in Int /\ y * d \in Int /\ x * e \in Int
    OBVIOUS
  <2> HIDE DEF h
  <2> QED
    BY <1>1, <2>1
<1>3. ASSUME NEW u \in Nat
      PROVE  LinesLead(c, d, x, p, g, e, y, q, u) = a + m * u
  <2>1. LinesLead(c, d, x, p, g, e, y, q, u)
          = h + ((u - q) * y) * d - ((u - p) * x) * e
    BY DEF LinesLead, Lead
  <2> HIDE DEF h
  <2>2. ((u - q) * y) * d = (y * d) * u - (q * y) * d
    OBVIOUS
  <2>3. ((u - p) * x) * e = (x * e) * u - (p * x) * e
    OBVIOUS
  <2>4. m * u = (y * d) * u - (x * e) * u
    OBVIOUS
  <2>5. /\ (y * d) * u \in Int /\ (x * e) * u \in Int
        /\ (q * y) * d \in Int /\ (p * x) * e \in Int
    OBVIOUS
  <2> QED
    BY <1>1, <2>1, <2>2, <2>3, <2>4, <2>5
<1> QED
  BY <1>2, <1>3 DEF StraightLead

LEMMA LineTypes ==
  ASSUME NEW s \in Schedules, Increasing(s), NEW i \in 1..(Len(s) - 1)
  PROVE  /\ s[i].balance \in Int /\ Duration(s, i) \in Int /\ s[i].timestamp \in Int
         /\ s[i + 1].balance - s[i].balance \in Int
<1>1. 0 \in Nat
  OBVIOUS
<1>2. /\ s[i].balance \in Nat /\ Duration(s, i) \in Nat /\ s[i].timestamp \in Nat
      /\ s[i + 1].balance \in Nat
  BY <1>1, SegmentTypes
<1> QED
  BY <1>2

LEMMA LeadIsStraight ==
  ASSUME NEW s \in Schedules, Increasing(s), NEW v \in Schedules, Increasing(v),
         NEW i \in 1..(Len(s) - 1), NEW j \in 1..(Len(v) - 1)
  PROVE  \E a \in Int, m \in Int : \A u \in Nat : LeadIn(s, i, v, j, u) = a + m * u
<1> DEFINE c == s[i].balance
           d == Duration(s, i)
           x == s[i + 1].balance - s[i].balance
           p == s[i].timestamp
           g == v[j].balance
           e == Duration(v, j)
           y == v[j + 1].balance - v[j].balance
           q == v[j].timestamp
<1>2. c \in Int /\ d \in Int /\ x \in Int /\ p \in Int
  BY LineTypes
<1>3. g \in Int /\ e \in Int /\ y \in Int /\ q \in Int
  BY LineTypes
<1>4. ASSUME NEW u \in Nat
      PROVE  LeadIn(s, i, v, j, u) = LinesLead(c, d, x, p, g, e, y, q, u)
  BY DEF LeadIn, Grown, LinesLead
<1> HIDE DEF c, d, x, p, g, e, y, q
<1>5. StraightLead(c, d, x, p, g, e, y, q)
  BY <1>2, <1>3, LeadOfLines
<1> QED
  BY <1>4, <1>5 DEF StraightLead

(* At an instant that lies in a segment of each.                           *)
LEMMA AlmostAheadInside ==
  ASSUME NEW s \in Schedules, Increasing(s), NEW v \in Schedules, Increasing(v),
         assert_valid_termination_schedule(s, v),
         NEW i \in 1..(Len(s) - 1), NEW j \in 1..(Len(v) - 1), NEW t \in Nat,
         InSegment(s, i, t), InSegment(v, j, t)
  PROVE  unlocked_balance(s, t) <= unlocked_balance(v, t) + 1
<1>1. s[i].timestamp \in Nat /\ s[i + 1].timestamp \in Nat
  BY SegmentTypes
<1>2. v[j].timestamp \in Nat /\ v[j + 1].timestamp \in Nat
  BY SegmentTypes
<1>3. /\ s[i].timestamp <= t /\ t <= s[i + 1].timestamp
      /\ v[j].timestamp <= t /\ t <= v[j + 1].timestamp
  BY DEF InSegment
<1>4. \E lo \in {s[i].timestamp, v[j].timestamp} :
         lo \in Nat /\ s[i].timestamp <= lo /\ v[j].timestamp <= lo /\ lo <= t
  <2>1. CASE s[i].timestamp <= v[j].timestamp
    <3> WITNESS v[j].timestamp \in {s[i].timestamp, v[j].timestamp}
    <3> QED
      BY <1>1, <1>2, <1>3, <2>1
  <2>2. CASE v[j].timestamp <= s[i].timestamp
    <3> WITNESS s[i].timestamp \in {s[i].timestamp, v[j].timestamp}
    <3> QED
      BY <1>1, <1>2, <1>3, <2>2
  <2> QED
    BY <1>1, <1>2, <2>1, <2>2
<1>5. \E hi \in {s[i + 1].timestamp, v[j + 1].timestamp} :
         hi \in Nat /\ hi <= s[i + 1].timestamp /\ hi <= v[j + 1].timestamp /\ t <= hi
  <2>1. CASE s[i + 1].timestamp <= v[j + 1].timestamp
    <3> WITNESS s[i + 1].timestamp \in {s[i + 1].timestamp, v[j + 1].timestamp}
    <3> QED
      BY <1>1, <1>2, <1>3, <2>1
  <2>2. CASE v[j + 1].timestamp <= s[i + 1].timestamp
    <3> WITNESS v[j + 1].timestamp \in {s[i + 1].timestamp, v[j + 1].timestamp}
    <3> QED
      BY <1>1, <1>2, <1>3, <2>2
  <2> QED
    BY <1>1, <1>2, <2>1, <2>2
<1>6. PICK lo \in {s[i].timestamp, v[j].timestamp} :
         lo \in Nat /\ s[i].timestamp <= lo /\ v[j].timestamp <= lo /\ lo <= t
  BY <1>4
<1>7. PICK hi \in {s[i + 1].timestamp, v[j + 1].timestamp} :
         hi \in Nat /\ hi <= s[i + 1].timestamp /\ hi <= v[j + 1].timestamp /\ t <= hi
  BY <1>5
<1>8. lo \in Nat /\ InSegment(s, i, lo) /\ InSegment(v, j, lo)
  BY ONLY <1>1, <1>2, <1>3, <1>6, t \in Nat, SMTT(30) DEF InSegment
<1>9. hi \in Nat /\ InSegment(s, i, hi) /\ InSegment(v, j, hi)
  BY ONLY <1>1, <1>2, <1>3, <1>7, t \in Nat, SMTT(30) DEF InSegment
<1>10. LeadIn(s, i, v, j, lo) > 0
  BY <1>6, <1>8, LeadAtCheckpoints
<1>11. LeadIn(s, i, v, j, hi) > 0
  BY <1>7, <1>9, LeadAtCheckpoints
<1>12. PICK a \in Int, m \in Int : \A u \in Nat : LeadIn(s, i, v, j, u) = a + m * u
  BY LeadIsStraight
<1>13. LeadIn(s, i, v, j, t) > 0
  <2>1. a + m * lo > 0 /\ a + m * hi > 0
    BY <1>8, <1>9, <1>10, <1>11, <1>12
  <2>2. lo \in Int /\ hi \in Int /\ t \in Int /\ lo <= t /\ t <= hi
    BY <1>6, <1>7
  <2>3. a + m * t > 0
    BY <2>1, <2>2, PositiveBetween
  <2> QED
    BY <1>12, <2>3
<1> DEFINE x == unlocked_balance(s, t)
           y == unlocked_balance(v, t)
<1>14. /\ x \in Nat
       /\ (x - s[i].balance) * Duration(s, i) <= Grown(s, i, t)
  BY SegmentRounds
<1>15. /\ y \in Nat
       /\ Grown(v, j, t) < (y - v[j].balance + 1) * Duration(v, j)
  BY SegmentRounds
<1>16. s[i].balance \in Nat /\ Duration(s, i) \in Nat \ {0} /\ Grown(s, i, t) \in Int
  BY SegmentTypes
<1>17. v[j].balance \in Nat /\ Duration(v, j) \in Nat \ {0} /\ Grown(v, j, t) \in Int
  BY SegmentTypes
<1> HIDE DEF x, y
<1>18. x <= y + 1
  <2>1. x \in Int /\ y \in Int /\ s[i].balance \in Int /\ v[j].balance \in Int
    BY ONLY <1>14, <1>15, <1>16, <1>17, SMTT(30)
  <2> QED
    BY ONLY <1>13, <1>14, <1>15, <1>16, <1>17, <2>1, LeadBounds DEF LeadIn
<1> QED
  BY <1>18 DEF x, y

(* README.md:11 wants a vesting schedule "ahead of the lockup schedule",   *)
(* and schedule.rs:79-97 checks it at the checkpoints, on rounded          *)
(* balances.  That is nearly enough: at any instant whatever, a vesting    *)
(* schedule that passed is behind by at most one token.                    *)
THEOREM VestingAlmostAhead ==
  ASSUME NEW s \in Schedules, Increasing(s), NEW v \in Schedules, Increasing(v),
         assert_valid_termination_schedule(s, v), NEW t \in Nat
  PROVE  unlocked_balance(s, t) <= unlocked_balance(v, t) + 1
<1> DEFINE end == s[Len(s)].timestamp
           start == v[1].timestamp
<1>1. /\ Len(s) \in 1..Len(s) /\ end \in Nat /\ s[1].timestamp \in Nat
      /\ total_balance(s) = s[Len(s)].balance
  <2>1. Len(s) \in 1..Len(s) /\ 1 \in 1..Len(s)
    BY ScheduleElements DEF Increasing
  <2> QED
    BY <2>1, ScheduleElements DEF total_balance
<1>2. 1 \in 1..Len(v) /\ v[Len(v)].timestamp \in Nat /\ start \in Nat /\ v[1].balance = 0
  <2>1. Len(v) \in 1..Len(v) /\ 1 \in 1..Len(v)
    BY ScheduleElements DEF Increasing
  <2> QED
    BY <2>1, ScheduleElements DEF Increasing
<1>3. total_balance(s) <= unlocked_balance(v, end) /\ unlocked_balance(s, start) <= 0
  BY <1>1, <1>2 DEF assert_valid_termination_schedule
<1> HIDE DEF end, start
<1>4. /\ unlocked_balance(s, t) \in Nat /\ unlocked_balance(v, t) \in Nat
      /\ unlocked_balance(s, t) <= total_balance(s) /\ total_balance(s) \in Nat
  BY UnlockedBounds
<1>5. /\ unlocked_balance(v, end) \in Nat /\ unlocked_balance(v, end) <= total_balance(v)
      /\ total_balance(v) \in Nat /\ unlocked_balance(s, start) \in Nat
  BY <1>1, <1>2, UnlockedBounds
<1>6. CASE t < s[1].timestamp
  <2>1. unlocked_balance(s, t) = 0
    BY <1>6, UnlockedBeforeStart
  <2> QED
    BY <1>4, <2>1
<1>7. CASE t < start
  <2>1. unlocked_balance(s, t) <= unlocked_balance(s, start)
    BY <1>2, <1>7, UnlockedMonotone
  <2> QED
    BY <1>3, <1>4, <1>5, <2>1
<1>8. CASE end <= t
  <2>1. unlocked_balance(v, end) <= unlocked_balance(v, t)
    BY <1>1, <1>8, UnlockedMonotone
  <2> QED
    BY <1>3, <1>4, <1>5, <2>1
<1>9. CASE v[Len(v)].timestamp <= t
  <2>1. unlocked_balance(v, t) = total_balance(v)
    BY <1>9, UnlockedAfterEnd
  <2> QED
    BY <1>3, <1>4, <1>5, <2>1
<1>10. CASE /\ s[1].timestamp <= t /\ ~ (end <= t)
            /\ start <= t /\ ~ (v[Len(v)].timestamp <= t)
  <2>1. PICK i \in 1..(Len(s) - 1) : s[i].timestamp <= t /\ t < s[i + 1].timestamp
    BY <1>10, SegmentOf DEF end
  <2>2. PICK j \in 1..(Len(v) - 1) : v[j].timestamp <= t /\ t < v[j + 1].timestamp
    BY <1>10, SegmentOf DEF start
  <2>3. s[i + 1].timestamp \in Nat /\ v[j + 1].timestamp \in Nat
    BY SegmentTypes
  <2>4. InSegment(s, i, t) /\ InSegment(v, j, t)
    BY <2>1, <2>2, <2>3 DEF InSegment
  <2> QED
    BY <2>4, AlmostAheadInside
<1> QED
  BY <1>1, <1>2, <1>6, <1>7, <1>8, <1>9, <1>10
=============================================================================
