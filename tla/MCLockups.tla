----------------------------- MODULE MCLockups -----------------------------
(* Bounded instances of Lockups: the accounts and the messages.            *)
EXTENDS Lockups, TLC

CONSTANTS alice, dao, ops

Point(t, b) == [timestamp |-> t, balance |-> b]

Message(schedule, vesting) ==
  [account_id |-> alice, schedule |-> schedule, vesting_schedule |-> vesting]

Vesting(kind, schedule) == [kind |-> kind, schedule |-> schedule]

Linear == << Point(0, 0), Point(2, 2) >>
Cliff  == << Point(1, 0), Point(2, 0), Point(3, 2) >>
Early  == << Point(0, 0), Point(1, 1), Point(2, 2) >>
Late   == << Point(1, 0), Point(3, 2) >>
AtLast == << Point(2, 0), Point(3, 2) >>
Slow   == << Point(0, 0), Point(4, 2) >>
Slower == << Point(0, 0), Point(1, 0), Point(4, 2) >>

(* A lockup terminated by its own schedule, before or after it starts.     *)
Terminable == { Message(Late, Vesting("SameAsLockupSchedule", <<>>)) }

(* One that cannot be terminated, and two with a vesting schedule of their *)
(* own, of which the second is refused.                                    *)
Mixed == { Message(Linear, None),
           Message(Cliff, Vesting("Schedule", Early)), Message(Linear, Vesting("Schedule", AtLast)) }

(* Vesting hidden behind a hash: of a schedule that is ahead, and of one   *)
(* that is not, so that it is refused when it is revealed.                 *)
Hashed == { Message(Cliff, Vesting("Hash", Early)), Message(Linear, Vesting("Hash", AtLast)) }

(* One that is accepted though it is behind at 2, between its checkpoints. *)
Rounded == { Message(Slow, Vesting("Schedule", Slower)) }

EveryKind == Mixed \cup Hashed \cup Rounded
=============================================================================
