------------------------------ MODULE Schedule ------------------------------
(***************************************************************************)
(* The arithmetic of model/src/schedule.rs.  A schedule is a sequence of   *)
(* checkpoints; between two of them the unlocked balance grows linearly,   *)
(* rounded down.  Lockup schedules and vesting schedules are both such     *)
(* sequences.  An `assert!' of the code is a Boolean operator here: a      *)
(* caller whose assertion is FALSE panics and its step does not happen.    *)
(* The code computes in U256 and narrows the result, which never exceeds   *)
(* the u128 balance of a checkpoint, so integers need no width.            *)
(***************************************************************************)
EXTENDS Integers, Sequences

Checkpoint == [timestamp : Nat, balance : Nat]

(* The Vec<Checkpoint> a message may carry, before any assertion on it.    *)
Schedules == Seq(Checkpoint)

new_zero_balance_from_to(start_timestamp, finish_timestamp) ==
  << [timestamp |-> start_timestamp,  balance |-> 0],
     [timestamp |-> finish_timestamp, balance |-> 0] >>

(* Asserts timestamp > 0 in the code: a precondition of every use.         *)
new_unlocked_since(total, timestamp) ==
  << [timestamp |-> timestamp - 1, balance |-> 0],
     [timestamp |-> timestamp,     balance |-> total] >>

total_balance(s) == s[Len(s)].balance

(* Balances that start at zero and never fall, at rising timestamps: what  *)
(* assert_valid asks, apart from the total being positive and announced.   *)
Increasing(s) ==
  /\ Len(s) >= 2
  /\ s[1].balance = 0
  /\ \A k \in 1..(Len(s) - 1) : /\ s[k].timestamp < s[k + 1].timestamp
                                /\ s[k].balance <= s[k + 1].balance

assert_valid(s, total) ==
  /\ Increasing(s)
  /\ total_balance(s) > 0
  /\ total_balance(s) = total

(* The index the binary search of unlocked_balance finds: the checkpoint   *)
(* reached last.                                                           *)
current_checkpoint(s, t) ==
  CHOOSE k \in 1..Len(s) : /\ s[k].timestamp <= t
                           /\ k < Len(s) => t < s[k + 1].timestamp

(* Mutant: the division rounds up.                                         *)
RoundedUp(s, t) ==
  IF t < s[1].timestamp THEN 0
  ELSE LET k == current_checkpoint(s, t) IN
       IF k = Len(s) THEN s[k].balance
       ELSE s[k + 1].balance - ((s[k + 1].timestamp - t) * (s[k + 1].balance - s[k].balance))
                                 \div (s[k + 1].timestamp - s[k].timestamp)

unlocked_balance(s, t) ==
  IF t < s[1].timestamp THEN 0
  ELSE LET k == current_checkpoint(s, t) IN
       IF k = Len(s) THEN s[k].balance
       ELSE s[k].balance + ((t - s[k].timestamp) * (s[k + 1].balance - s[k].balance))
                             \div (s[k + 1].timestamp - s[k].timestamp)

(* Schedule s may be terminated by vesting schedule v: compared at the     *)
(* checkpoints of both, on the rounded balances.                           *)
assert_valid_termination_schedule(s, v) ==
  /\ \A k \in 1..Len(s) : s[k].balance <= unlocked_balance(v, s[k].timestamp)
  /\ \A k \in 1..Len(v) : v[k].balance >= unlocked_balance(s, v[k].timestamp)

(* What the documentation of that assertion says it verifies, for the      *)
(* instants up to a horizon.                                               *)
AheadUpTo(s, v, horizon) ==
  \A t \in 0..horizon : unlocked_balance(s, t) <= unlocked_balance(v, t)

(* The checkpoint after which popping stops: the last one whose balance is *)
(* still below the new total.                                              *)
cut_checkpoint(s, new_total) ==
  CHOOSE k \in 1..(Len(s) - 1) : /\ s[k].balance < new_total
                                 /\ new_total <= s[k + 1].balance

(* Mutants: an empty schedule may finish before it starts; the instant of  *)
(* the cut rounds down; it stays at the checkpoint that was popped.        *)
FinishUnchecked(s, new_total, finish_timestamp) ==
  IF new_total = 0 THEN new_zero_balance_from_to(s[1].timestamp, finish_timestamp)
  ELSE Append(SubSeq(s, 1, cut_checkpoint(s, new_total)),
              [timestamp |-> finish_timestamp, balance |-> new_total])

CutRoundedDown(s, new_total, finish_timestamp) ==
  IF new_total = 0 THEN new_zero_balance_from_to(s[1].timestamp, s[1].timestamp + 1)
  ELSE LET k == cut_checkpoint(s, new_total)
       IN  Append(SubSeq(s, 1, k),
                  [timestamp |-> s[k].timestamp
                       + ((s[k + 1].timestamp - s[k].timestamp) * (new_total - s[k].balance))
                           \div (s[k + 1].balance - s[k].balance),
                   balance   |-> new_total])

CutLate(s, new_total, finish_timestamp) ==
  IF new_total = 0 THEN new_zero_balance_from_to(s[1].timestamp, s[1].timestamp + 1)
  ELSE LET k == cut_checkpoint(s, new_total)
       IN  Append(SubSeq(s, 1, k), [timestamp |-> s[k + 1].timestamp, balance |-> new_total])

(* Mutant: the time to the new total is counted as if the segment that is  *)
(* cut began at zero.                                                      *)
CutFromZero(s, new_total, finish_timestamp) ==
  IF new_total = 0
  THEN new_zero_balance_from_to(s[1].timestamp, IF finish_timestamp > s[1].timestamp
                                                THEN finish_timestamp ELSE s[1].timestamp + 1)
  ELSE LET k == cut_checkpoint(s, new_total)
           balance_diff == s[k + 1].balance - s[k].balance
       IN  Append(SubSeq(s, 1, k),
                  [timestamp |-> s[k].timestamp
                       + ((s[k + 1].timestamp - s[k].timestamp) * new_total + balance_diff - 1)
                            \div balance_diff,
                   balance   |-> new_total])

(* Schedule::terminate.  Assumes new_total <= total_balance(s).            *)
terminate(s, new_total, finish_timestamp) ==
  IF new_total = 0
  THEN LET start == s[1].timestamp
       IN  new_zero_balance_from_to(start, IF finish_timestamp > start
                                           THEN finish_timestamp ELSE start + 1)
  ELSE LET k == cut_checkpoint(s, new_total)
           timestamp_diff == s[k + 1].timestamp - s[k].timestamp
           balance_diff   == s[k + 1].balance - s[k].balance
           required       == new_total - s[k].balance
       IN  Append(SubSeq(s, 1, k),
                  [timestamp |-> s[k].timestamp
                       + (timestamp_diff * required + (balance_diff - 1)) \div balance_diff,
                   balance   |-> new_total])
=============================================================================
