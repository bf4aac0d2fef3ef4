---------------------------- MODULE LedgerProofs ----------------------------
(***************************************************************************)
(* The books of the registry, for every set of accounts and messages and   *)
(* for every bound: what the contract holds is what it owes, what the      *)
(* events say is what the records say, and the index lists only lockups of *)
(* the account that are not empty.  All of it follows from Ledger, which   *)
(* relates a lockup to the transfers that are in flight from it.           *)
(***************************************************************************)
EXTENDS LockupsProofs

Statuses == {"pending", "transferred", "failed", "settled"}

(* What a transfer weighs in a sum over all transfers: what it has taken   *)
(* from lockup i without having reported, and what is still to be sent.    *)
TakenFrom(i) ==
  [p \in Promise |-> IF p.status # "settled" THEN p.claims[i].claim_amount ELSE 0]

ToSend == [p \in Promise |-> IF p.status \in {"pending", "failed"} THEN p.amount ELSE 0]

(* What a lockup weighs: the tokens it still holds.                        *)
Readable == { l \in LockupType : Increasing(l.schedule) }

Rest == [l \in Readable |-> total_balance(l.schedule) - l.claimed_balance]

Booked == SumSeq(Rest, lockups) + SumSeq(ToSend, promises)

(* A transfer of a claim sends what its claims take together, each from a  *)
(* lockup of the account; the transfer of a termination claims nothing.    *)
InOrder(p, ls) ==
  /\ p.amount > 0
  /\ p.kind = "termination" => p.claims = NoClaims
  /\ p.kind = "claim" =>
       p.amount = SumTo([i \in 1..MaxLockups |-> p.claims[i].claim_amount], MaxLockups)
  /\ \A i \in 1..MaxLockups : p.claims[i].claim_amount > 0 =>
       i \in 1..Len(ls) /\ ls[i].account_id = p.account_id

(* The events of a lockup and its record agree, given what is in flight:   *)
(* as long as it can be terminated it is as it was created.                *)
Announced(l, e, in_flight) ==
  /\ e.lockup.account_id = l.account_id
  /\ e.claimed + in_flight = l.claimed_balance
  /\ total_balance(e.lockup.schedule) - e.unvested = total_balance(l.schedule)
  /\ l.termination_config # None => /\ e.unvested = 0
                                    /\ e.lockup.schedule = l.schedule
                                    /\ e.lockup.termination_config = l.termination_config

(* The index of an account lists only lockups of that account, and none    *)
(* that is empty: all of it unless a wrong check let a termination empty   *)
(* a lockup that had a claim in flight.                                    *)
NotEmptied(l, e) ==
  ChecksDecideRightly \/ l.termination_config = e.lockup.termination_config =>
    total_balance(l.schedule) > 0

ListedRightly ==
  \A a \in Accounts : \A i \in account_lockups[a] :
    lockups[i].account_id = a /\ NotEmptied(lockups[i], indexer[i])

Ledger ==
  /\ \A k \in 1..Len(promises) : InOrder(promises[k], lockups)
  /\ \A i \in Indices : Announced(lockups[i], indexer[i], SumSeq(TakenFrom(i), promises))
  /\ ListedRightly

(* A step changes what is held by as much as what is owed.                 *)
Balanced == custody' + Booked = custody + Booked'

-----------------------------------------------------------------------------
(* The sums of the invariants are sums of these weights.                   *)

LEMMA Weighing ==
  ASSUME NEW S, NEW W \in [S -> Nat]
  PROVE  W \in [S -> Int]
<1>1. \A p \in S : W[p] \in Int
  OBVIOUS
<1> QED
  BY <1>1

LEMMA Weights ==
  /\ ToSend \in [Promise -> Nat] /\ ToSend \in [Promise -> Int]
  /\ \A i \in 1..MaxLockups : /\ TakenFrom(i) \in [Promise -> Nat]
                              /\ TakenFrom(i) \in [Promise -> Int]
<1>1. ASSUME NEW p \in Promise
      PROVE  /\ p.amount \in Nat
             /\ \A i \in 1..MaxLockups : p.claims[i].claim_amount \in Nat
  BY <1>1 DEF Promise, LockupClaim
<1> QED
  BY <1>1, Weighing DEF ToSend, TakenFrom

LEMMA WeightsRest == Rest \in [Readable -> Int]
<1> SUFFICES ASSUME NEW l \in Readable
             PROVE  total_balance(l.schedule) - l.claimed_balance \in Int
  BY DEF Rest
<1>1. l.schedule \in Schedules /\ l.claimed_balance \in Nat /\ Increasing(l.schedule)
  BY LockupFields DEF Readable
<1>2. total_balance(l.schedule) \in Nat
  BY <1>1, UnlockedBounds
<1> QED
  BY <1>1, <1>2

(* The status of one transfer changes, and so do the sums.                 *)
InStatus(p, st) == [p EXCEPT !.status = st]
WithStatus(ps, k, st) == [ps EXCEPT ![k].status = st]

LEMMA StatusChanged ==
  ASSUME NEW ps \in Seq(Promise), NEW k \in 1..Len(ps), NEW st \in Statuses,
         NEW q, q = InStatus(ps[k], st),
         NEW qs, qs = WithStatus(ps, k, st)
  PROVE  /\ q \in Promise /\ ps[k] \in Promise
         /\ q.status = st /\ q.kind = ps[k].kind /\ q.account_id = ps[k].account_id
         /\ q.amount = ps[k].amount /\ q.claims = ps[k].claims
         /\ qs \in Seq(Promise)
         /\ Len(qs) = Len(ps)
         /\ \A j \in 1..Len(ps) : qs[j] = IF j = k THEN q ELSE ps[j]
         /\ \A W \in [Promise -> Nat] : /\ SumSeq(W, qs) + W[ps[k]] = SumSeq(W, ps) + W[q]
                                        /\ SumSeq(W, ps) \in Nat
                                        /\ SumSeq(W, qs) \in Nat
<1>1. ps[k] \in Promise
  BY ElementOfSeq
<1>2. /\ q \in Promise
      /\ q.status = st /\ q.kind = ps[k].kind /\ q.account_id = ps[k].account_id
      /\ q.amount = ps[k].amount /\ q.claims = ps[k].claims
  BY <1>1 DEF Promise, Statuses, InStatus
<1>3. qs = [ps EXCEPT ![k] = q]
  BY DEF WithStatus, InStatus
<1>4. /\ qs \in Seq(Promise)
      /\ Len(qs) = Len(ps)
      /\ \A j \in 1..Len(ps) : qs[j] = IF j = k THEN q ELSE ps[j]
  BY <1>2, <1>3, ExceptSeq
<1>5. ASSUME NEW W \in [Promise -> Nat]
      PROVE  /\ SumSeq(W, qs) + W[ps[k]] = SumSeq(W, ps) + W[q]
             /\ SumSeq(W, ps) \in Nat
             /\ SumSeq(W, qs) \in Nat
  <2>1. SumSeq(W, qs) = SumSeq(W, ps) + (W[q] - W[ps[k]])
    <3>1. W \in [Promise -> Int]
      BY Weighing
    <3>2. IsReplaced(ps, k, q, qs)
      BY <1>4 DEF IsReplaced
    <3> QED
      BY <1>2, <3>1, <3>2, SumSeqReplace
  <2>2. SumSeq(W, ps) \in Nat /\ SumSeq(W, qs) \in Nat
    BY <1>4, SumSeqNatural
  <2>3. W[ps[k]] \in Nat /\ W[q] \in Nat
    BY <1>1, <1>2
  <2> QED
    BY <2>1, <2>2, <2>3
<1> QED
  BY <1>1, <1>2, <1>4, <1>5

(* Transfer p of ps has become q in qs, and every sum has changed with it. *)
Moved(p, q, st, ps, qs) ==
  /\ p \in Promise /\ q \in Promise
  /\ q.status = st /\ q.kind = p.kind /\ q.account_id = p.account_id
  /\ q.amount = p.amount /\ q.claims = p.claims
  /\ \A W \in [Promise -> Nat] : /\ SumSeq(W, qs) + W[p] = SumSeq(W, ps) + W[q]
                                 /\ SumSeq(W, ps) \in Nat
                                 /\ SumSeq(W, qs) \in Nat

LEMMA StatusMoved ==
  ASSUME NEW ps \in Seq(Promise), NEW k \in 1..Len(ps), NEW st \in Statuses,
         NEW p, p = ps[k], NEW q, q = InStatus(p, st), NEW qs, qs = WithStatus(ps, k, st)
  PROVE  Moved(p, q, st, ps, qs)
<1>1. q = InStatus(ps[k], st)
  OBVIOUS
<1>2. Moved(ps[k], q, st, ps, qs)
  <2>1. /\ ps[k] \in Promise /\ q \in Promise
        /\ q.status = st /\ q.kind = ps[k].kind /\ q.account_id = ps[k].account_id
        /\ q.amount = ps[k].amount /\ q.claims = ps[k].claims
    BY <1>1, StatusChanged
  <2>2. \A W \in [Promise -> Nat] : /\ SumSeq(W, qs) + W[ps[k]] = SumSeq(W, ps) + W[q]
                                    /\ SumSeq(W, ps) \in Nat
                                    /\ SumSeq(W, qs) \in Nat
    BY <1>1, StatusChanged, SMTT(30)
  <2> QED
    BY <2>1, <2>2 DEF Moved
<1> QED
  BY <1>2

LEMMA RestChanged ==
  ASSUME NEW ls \in Seq(Readable), NEW ms \in Seq(Readable), Len(ms) = Len(ls), NEW d,
         \A i \in 1..Len(ls) : d[i] \in Int /\ Rest[ls[i]] = Rest[ms[i]] + d[i]
  PROVE  SumSeq(Rest, ls) = SumSeq(Rest, ms) + SumTo(d, Len(ls))
<1> DEFINE n == Len(ls)
           f == [i \in 1..n |-> Rest[ls[i]]]
           g == [i \in 1..n |-> Rest[ms[i]]]
<1>1. n \in Nat
  BY LenProperties
<1>2. \A i \in 1..n : ms[i] \in Readable
  BY ElementOfSeq
<1>3. \A i \in 1..n : g[i] \in Int /\ d[i] \in Int /\ f[i] = g[i] + d[i]
  BY <1>2, WeightsRest
<1>4. SumSeq(Rest, ls) = SumTo(f, n) /\ SumSeq(Rest, ms) = SumTo(g, n)
  BY DEF SumSeq
<1> HIDE DEF f, g, n
<1>5. SumTo(f, n) = SumTo(g, n) + SumTo(d, n)
  BY <1>1, <1>3, SumOfSums
<1> QED
  BY <1>4, <1>5 DEF n

LEMMA RestOf ==
  ASSUME NEW l \in LockupType, Increasing(l.schedule)
  PROVE  /\ l \in Readable
         /\ Rest[l] = total_balance(l.schedule) - l.claimed_balance
         /\ total_balance(l.schedule) \in Nat
         /\ l.claimed_balance \in Nat
<1>1. l.schedule \in Schedules /\ l.claimed_balance \in Nat
  BY LockupFields
<1> QED
  BY <1>1, UnlockedBounds DEF Readable, Rest

LEMMA ReadableSeq ==
  ASSUME NEW ls \in Seq(LockupType), \A i \in 1..Len(ls) : Increasing(ls[i].schedule)
  PROVE  ls \in Seq(Readable)
<1>1. Len(ls) \in Nat /\ \A i \in 1..Len(ls) : ls[i] \in LockupType
  BY LenProperties, ElementOfSeq
<1>2. ls = [i \in 1..Len(ls) |-> ls[i]]
  OBVIOUS
<1>3. \A i \in 1..Len(ls) : ls[i] \in Readable
  BY <1>1 DEF Readable
<1>4. [i \in 1..Len(ls) |-> ls[i]] \in [1..Len(ls) -> Readable]
  BY <1>3
<1> QED
  BY <1>1, <1>2, <1>4, FunctionIsSeq

(* The sums of the module Lockups.                                         *)
LEMMA InFlightIs ==
  ASSUME TypeOK, NEW i \in 1..MaxLockups
  PROVE  InFlight(i) = SumSeq(TakenFrom(i), promises)
<1>1. \A k \in 1..Len(promises) : InClaim(k, i) = TakenFrom(i)[promises[k]]
  BY TypeFacts DEF InClaim, TakenFrom
<1>2. [k \in 1..Len(promises) |-> InClaim(k, i)]
        = [k \in 1..Len(promises) |-> TakenFrom(i)[promises[k]]]
  BY <1>1
<1> QED
  BY <1>2 DEF InFlight, SumSeq

LEMMA BookedIs ==
  ASSUME IInv
  PROVE  /\ SumTo([i \in Indices |-> Locked(i)], Len(lockups)) = SumSeq(Rest, lockups)
         /\ SumTo([k \in 1..Len(promises) |-> Unsent(k)], Len(promises)) = SumSeq(ToSend, promises)
<1>1. \A k \in 1..Len(promises) : Unsent(k) = ToSend[promises[k]]
  BY TypeFacts DEF Unsent, ToSend, IInv
<1>2. [k \in 1..Len(promises) |-> Unsent(k)] = [k \in 1..Len(promises) |-> ToSend[promises[k]]]
  BY <1>1
<1>3. \A i \in Indices : Locked(i) = Rest[lockups[i]]
  BY TypeFacts, RestOf DEF Locked, IInv, SoundLockup
<1>4. [i \in Indices |-> Locked(i)] = [i \in 1..Len(lockups) |-> Rest[lockups[i]]]
  BY <1>3 DEF Indices
<1> QED
  BY <1>2, <1>4 DEF SumSeq

(* What the steps may take for granted.                                    *)
LEMMA LedgerFacts ==
  ASSUME IInv
  PROVE  /\ promises \in Seq(Promise) /\ Len(promises) \in Nat
         /\ lockups \in Seq(Readable) /\ Len(lockups) \in Nat
         /\ Len(indexer) = Len(lockups)
         /\ custody \in Nat
         /\ SumSeq(Rest, lockups) \in Int
         /\ SumSeq(ToSend, promises) \in Nat
         /\ \A k \in 1..Len(promises) : promises[k] \in Promise
         /\ \A i \in Indices : /\ i \in 1..MaxLockups
                               /\ lockups[i] \in LockupType
                               /\ lockups[i] \in Readable
                               /\ Increasing(lockups[i].schedule)
                               /\ indexer[i] \in [lockup : LockupType, claimed : Nat, unvested : Nat]
                               /\ SumSeq(TakenFrom(i), promises) \in Nat
<1>1. /\ TypeOK /\ Len(lockups) <= MaxLockups
      /\ \A i \in Indices : Increasing(lockups[i].schedule)
  BY DEF IInv, SoundLockup
<1>2. /\ promises \in Seq(Promise) /\ Len(promises) \in Nat /\ custody \in Nat
      /\ lockups \in Seq(LockupType) /\ Len(lockups) \in Nat /\ Len(indexer) = Len(lockups)
      /\ \A k \in 1..Len(promises) : promises[k] \in Promise
      /\ \A i \in Indices : lockups[i] \in LockupType
      /\ \A i \in Indices : indexer[i] \in [lockup : LockupType, claimed : Nat, unvested : Nat]
  BY <1>1, TypeFacts DEF TypeOK
<1>3. lockups \in Seq(Readable)
  BY <1>1, <1>2, ReadableSeq DEF Indices
<1>4. \A i \in Indices : i \in 1..MaxLockups /\ lockups[i] \in Readable
  BY <1>1, <1>2, BoundsAssumption DEF Indices, Readable
<1>5. SumSeq(Rest, lockups) \in Int
  BY <1>3, WeightsRest, SumSeqInteger
<1>6. SumSeq(ToSend, promises) \in Nat
  BY <1>2, Weights, SumSeqNatural
<1>7. \A i \in Indices : SumSeq(TakenFrom(i), promises) \in Nat
  BY <1>2, <1>4, Weights, SumSeqNatural
<1> QED
  BY <1>1, <1>2, <1>3, <1>4, <1>5, <1>6, <1>7

-----------------------------------------------------------------------------
(* What keeps a transfer in order, and a lockup announced.                 *)

LEMMA InOrderKept ==
  ASSUME NEW ls, NEW ms, Len(ls) \in Nat, Len(ms) \in Nat, Len(ls) <= Len(ms),
         \A i \in 1..Len(ls) : ms[i].account_id = ls[i].account_id,
         NEW p, InOrder(p, ls), NEW q, q.kind = p.kind, q.amount = p.amount,
         q.claims = p.claims, q.account_id = p.account_id
  PROVE  InOrder(q, ms)
BY DEF InOrder

(* The lockups of ls are in ms, with their accounts.                       *)
SameOwners(ls, ms) == /\ Len(ls) \in Nat /\ Len(ms) \in Nat /\ Len(ls) <= Len(ms)
                      /\ \A i \in 1..Len(ls) : ms[i].account_id = ls[i].account_id

LEMMA InOrderLater ==
  ASSUME NEW ls, NEW ms, SameOwners(ls, ms), NEW p, InOrder(p, ls)
  PROVE  InOrder(p, ms)
BY DEF InOrder, SameOwners

(* A transfer's status changes; the lockups keep their accounts.           *)
LEMMA StatusInOrder ==
  ASSUME IInv, Ledger, NEW k \in 1..Len(promises), NEW st \in Statuses,
         promises' = WithStatus(promises, k, st),
         Len(lockups') \in Nat, Len(lockups) <= Len(lockups'),
         \A i \in Indices : lockups'[i].account_id = lockups[i].account_id
  PROVE  \A j \in 1..Len(promises') : InOrder(promises'[j], lockups')
<1> DEFINE q == InStatus(promises[k], st)
<1>1. promises \in Seq(Promise) /\ q = InStatus(promises[k], st)
  BY LedgerFacts
<1> HIDE DEF q
<1>2. /\ Len(promises') = Len(promises)
      /\ \A j \in 1..Len(promises) : promises'[j] = IF j = k THEN q ELSE promises[j]
      /\ q.kind = promises[k].kind /\ q.amount = promises[k].amount
      /\ q.claims = promises[k].claims /\ q.account_id = promises[k].account_id
  BY <1>1, StatusChanged
<1>3. /\ Len(lockups) \in Nat
      /\ \A j \in 1..Len(promises) : InOrder(promises[j], lockups)
      /\ \A i \in 1..Len(lockups) : lockups'[i].account_id = lockups[i].account_id
  BY LedgerFacts DEF Ledger, Indices
<1>4. InOrder(q, lockups')
  BY <1>2, <1>3, InOrderKept
<1>5. \A j \in 1..Len(promises) : InOrder(promises[j], lockups')
  <2> SUFFICES ASSUME NEW j \in 1..Len(promises) PROVE InOrder(promises[j], lockups')
    OBVIOUS
  <2> QED
    BY <1>3, InOrderKept
<1> QED
  BY <1>2, <1>4, <1>5

(* The index lists no more, and lockups keep what makes them rightly so.   *)
LEMMA ListedRightlyKept ==
  ASSUME IInv, ListedRightly, \A a \in Accounts : account_lockups'[a] \subseteq account_lockups[a],
         \A i \in Indices : /\ lockups'[i].account_id = lockups[i].account_id
                            /\ lockups'[i].schedule = lockups[i].schedule
                            /\ lockups'[i].termination_config = lockups[i].termination_config
                            /\ indexer'[i].lockup = indexer[i].lockup
  PROVE  ListedRightly'
<1>1. account_lockups \in [Accounts -> SUBSET Indices]
  BY DEF IInv, TypeOK
<1>2. ASSUME NEW a \in Accounts, NEW i \in account_lockups'[a]
      PROVE  /\ lockups'[i].account_id = a
             /\ NotEmptied(lockups'[i], indexer'[i])
  <2>1. i \in account_lockups[a] /\ i \in Indices
    BY <1>1
  <2>2. lockups[i].account_id = a /\ NotEmptied(lockups[i], indexer[i])
    BY <2>1 DEF ListedRightly
  <2> QED
    BY <2>1, <2>2 DEF NotEmptied
<1> QED
  BY <1>2 DEF ListedRightly

(* The claims of a transfer that is not settled are covered by what was    *)
(* claimed: taking them back does not underflow.                           *)
LEMMA ClaimsTaken ==
  ASSUME IInv, Ledger, NEW k \in 1..Len(promises), promises[k].status # "settled",
         NEW i \in Indices
  PROVE  /\ promises[k].claims[i].claim_amount \in Nat
         /\ promises[k].claims[i].claim_amount <= SumSeq(TakenFrom(i), promises)
         /\ promises[k].claims[i].claim_amount <= lockups[i].claimed_balance
         /\ ChecksDecideRightly \/ lockups[i].termination_config = indexer[i].lockup.termination_config
              => promises[k].claims[i].claim_amount <= total_balance(lockups[i].schedule)
<1> DEFINE W == TakenFrom(i)
<1>1. /\ promises[k] \in Promise /\ promises \in Seq(Promise) /\ i \in 1..MaxLockups
      /\ lockups[i] \in LockupType /\ Increasing(lockups[i].schedule)
      /\ indexer[i].claimed \in Nat
      /\ SumSeq(W, promises) \in Nat
  BY LedgerFacts
<1>2. W[promises[k]] = promises[k].claims[i].claim_amount /\ W[promises[k]] \in Nat
  BY <1>1, Weights DEF TakenFrom
<1>3. W[promises[k]] <= SumSeq(W, promises)
  BY <1>1, Weights, SumSeqCovers
<1>4. indexer[i].claimed + SumSeq(W, promises) = lockups[i].claimed_balance
  BY DEF Ledger, Announced
<1>5. ChecksDecideRightly \/ lockups[i].termination_config = indexer[i].lockup.termination_config
        => lockups[i].claimed_balance <= total_balance(lockups[i].schedule)
  BY DEF IInv, SoundLockup
<1>6. total_balance(lockups[i].schedule) \in Nat /\ lockups[i].claimed_balance \in Nat
  BY <1>1, RestOf
<1>7. indexer[i].claimed \in Nat /\ SumSeq(W, promises) \in Nat
  BY <1>1
<1> HIDE DEF W
<1>8. /\ promises[k].claims[i].claim_amount \in Nat
      /\ promises[k].claims[i].claim_amount <= SumSeq(W, promises)
  BY <1>2, <1>3
<1>9. SumSeq(W, promises) <= lockups[i].claimed_balance
  BY <1>4, <1>6, <1>7
<1>10. ChecksDecideRightly \/ lockups[i].termination_config = indexer[i].lockup.termination_config
         => SumSeq(W, promises) <= total_balance(lockups[i].schedule)
  BY <1>5, <1>6, <1>7, <1>9
<1> QED
  BY <1>5, <1>6, <1>7, <1>8, <1>9, <1>10 DEF W

-----------------------------------------------------------------------------
(* Every step keeps the ledger and is balanced.                            *)

LEMMA LedgerInit == Init => Ledger /\ custody = Booked
<1> SUFFICES ASSUME Init PROVE Ledger /\ custody = Booked
  OBVIOUS
<1>1. Len(lockups) = 0 /\ Len(promises) = 0 /\ Indices = {} /\ custody = 0
  BY DEF Init, Indices
<1>2. Booked = 0
  BY <1>1, SumToZero DEF Booked, SumSeq
<1>3. ListedRightly
  BY DEF Init, ListedRightly
<1> QED
  BY <1>1, <1>2, <1>3 DEF Ledger

LEMMA LedgerFtTransfer ==
  ASSUME IInv, Ledger, NEW k \in 1..Len(promises), FtTransfer(k)
  PROVE  Ledger' /\ Balanced
<1>1. PICK st \in {"transferred", "failed"} :
        /\ promises' = WithStatus(promises, k, st)
        /\ st = "transferred" => custody' = custody - promises[k].amount
        /\ st = "failed" => custody' = custody
  BY DEF FtTransfer, WithStatus
<1>2. promises[k].status = "pending" /\ UNCHANGED <<now, lockups, account_lockups, indexer>>
  BY DEF FtTransfer
<1> DEFINE p == promises[k]
           q == InStatus(p, st)
<1>3. /\ promises \in Seq(Promise) /\ st \in Statuses /\ p.amount \in Nat
      /\ custody \in Nat /\ SumSeq(Rest, lockups) \in Int /\ Len(lockups) \in Nat
  BY <1>1, LedgerFacts DEF Statuses, Promise
<1>4. \A j \in 1..Len(promises') : InOrder(promises'[j], lockups')
  BY <1>1, <1>2, <1>3, StatusInOrder
<1> HIDE DEF q
<1>5. /\ q \in Promise /\ p \in Promise
      /\ q.status = st /\ q.amount = p.amount /\ q.claims = p.claims
      /\ \A W \in [Promise -> Nat] : /\ SumSeq(W, promises') + W[p] = SumSeq(W, promises) + W[q]
                                     /\ SumSeq(W, promises) \in Nat
                                     /\ SumSeq(W, promises') \in Nat
  <2>1. promises \in Seq(Promise) /\ st \in Statuses
    BY <1>3
  <2>2. promises' = WithStatus(promises, k, st)
    BY <1>1
  <2>3. q = InStatus(p, st) /\ p = promises[k]
    BY DEF q
  <2> HIDE DEF p
  <2>4. Moved(p, q, st, promises, promises')
    BY <2>1, <2>2, <2>3, StatusMoved
  <2> QED
    BY <2>4 DEF Moved
<1>6. /\ ToSend[p] = p.amount
      /\ ToSend[q] = IF st = "transferred" THEN 0 ELSE p.amount
  BY <1>1, <1>2, <1>5 DEF ToSend
<1>7. ASSUME NEW i \in Indices
      PROVE  SumSeq(TakenFrom(i), promises') = SumSeq(TakenFrom(i), promises)
  <2>1. TakenFrom(i) \in [Promise -> Nat]
    BY LedgerFacts, Weights
  <2>2. TakenFrom(i)[q] = TakenFrom(i)[p] /\ TakenFrom(i)[p] \in Nat
    BY <1>1, <1>2, <1>5, <2>1 DEF TakenFrom
  <2> QED
    BY <1>5, <2>1, <2>2
<1>8. Balanced
  <2>1. /\ SumSeq(ToSend, promises') + ToSend[p] = SumSeq(ToSend, promises) + ToSend[q]
        /\ SumSeq(ToSend, promises) \in Nat /\ SumSeq(ToSend, promises') \in Nat
    BY <1>5, Weights
  <2>2. custody' + ToSend[p] = custody + ToSend[q] /\ ToSend[p] \in Nat /\ ToSend[q] \in Nat
    <3>1. CASE st = "transferred"
      BY <1>1, <1>3, <1>6, <3>1
    <3>2. CASE st = "failed"
      BY <1>1, <1>3, <1>6, <3>2
    <3> QED
      BY <1>1, <3>1, <3>2
  <2>3. custody' \in Int /\ lockups' = lockups
    BY <1>1, <1>2, <1>3
  <2>4. custody \in Int /\ SumSeq(Rest, lockups) \in Int
    BY <1>3
  <2> HIDE DEF p
  <2>5. Booked' = SumSeq(Rest, lockups) + SumSeq(ToSend, promises')
    BY <2>3 DEF Booked
  <2>6. Booked = SumSeq(Rest, lockups) + SumSeq(ToSend, promises)
    BY DEF Booked
  <2>7. PICK x \in Int, y \in Int : x = ToSend[p] /\ y = ToSend[q]
    BY <2>2
  <2>8. PICK r \in Int, s \in Int, t \in Int :
          r = SumSeq(Rest, lockups) /\ s = SumSeq(ToSend, promises) /\ t = SumSeq(ToSend, promises')
    BY <2>1, <2>4
  <2>9. t + x = s + y
    BY <2>1, <2>7, <2>8
  <2>10. PICK c \in Int, d \in Int : c = custody /\ d = custody'
    BY <2>3, <2>4
  <2>11. d + x = c + y
    BY <2>2, <2>7, <2>10
  <2>12. Booked' = r + t /\ Booked = r + s
    BY <2>5, <2>6, <2>8
  <2>13. d + (r + s) = c + (r + t)
    BY <2>9, <2>11
  <2>14. custody' + Booked = custody + Booked'
    BY <2>10, <2>12, <2>13
  <2> QED
    BY <2>14 DEF Balanced
<1>9. Ledger'
  BY <1>2, <1>4, <1>7 DEF Ledger, Indices, ListedRightly
<1> QED
  BY <1>8, <1>9

LEMMA LedgerAfterFtTransferOk ==
  ASSUME IInv, Ledger, NEW k \in 1..Len(promises), AfterFtTransferOk(k)
  PROVE  Ledger' /\ Balanced
<1> DEFINE p == promises[k]
           q == InStatus(p, "settled")
<1>1. /\ p.status = "transferred"
      /\ promises' = WithStatus(promises, k, "settled")
      /\ indexer' = [i \in Indices |-> [indexer[i] EXCEPT !.claimed = @ + p.claims[i].claim_amount]]
      /\ account_lockups' = [account_lockups EXCEPT ![p.account_id] =
                               @ \ { i \in Indices : p.claims[i].is_final }]
      /\ UNCHANGED <<now, lockups, deposit_whitelist, custody>>
  BY DEF AfterFtTransferOk, WithStatus
<1>2. /\ promises \in Seq(Promise) /\ "settled" \in Statuses
      /\ custody \in Nat /\ SumSeq(Rest, lockups) \in Int /\ Len(lockups) \in Nat
  BY LedgerFacts DEF Statuses
<1>3. \A j \in 1..Len(promises') : InOrder(promises'[j], lockups')
  BY <1>1, <1>2, StatusInOrder
<1>4. ListedRightly'
  <2>1. \A a \in Accounts : account_lockups'[a] \subseteq account_lockups[a]
    BY <1>1 DEF IInv, TypeOK
  <2>2. \A i \in Indices : indexer'[i].lockup = indexer[i].lockup
    <3>1. \A i \in Indices : indexer[i] \in [lockup : LockupType, claimed : Nat, unvested : Nat]
      BY LedgerFacts
    <3> QED
      BY <1>1, <3>1
  <2>3. lockups' = lockups /\ ListedRightly
    BY <1>1 DEF Ledger
  <2> QED
    BY <2>1, <2>2, <2>3, ListedRightlyKept
<1> HIDE DEF p, q
<1>5. q = InStatus(promises[k], "settled") /\ p = promises[k]
  BY DEF p, q
<1>6. promises' = WithStatus(promises, k, "settled")
  BY <1>1
<1>7. /\ q \in Promise /\ p \in Promise /\ q.status = "settled"
      /\ \A W \in [Promise -> Nat] : /\ SumSeq(W, promises') + W[p] = SumSeq(W, promises) + W[q]
                                     /\ SumSeq(W, promises) \in Nat
                                     /\ SumSeq(W, promises') \in Nat
  <2>1. q = InStatus(p, "settled") /\ p = promises[k]
    BY <1>5
  <2>2. Moved(p, q, "settled", promises, promises')
    BY <1>2, <1>6, <2>1, StatusMoved
  <2> QED
    BY <2>2 DEF Moved
<1>8. ASSUME NEW i \in Indices
      PROVE  Announced(lockups'[i], indexer'[i], SumSeq(TakenFrom(i), promises'))
  <2> DEFINE W == TakenFrom(i)
             e == indexer[i]
             c == p.claims[i].claim_amount
  <2>1. /\ W \in [Promise -> Nat]
        /\ e \in [lockup : LockupType, claimed : Nat, unvested : Nat]
    BY LedgerFacts, Weights
  <2>2. W[p] = c /\ W[q] = 0 /\ c \in Nat
    BY <1>1, <1>7, <2>1 DEF TakenFrom
  <2>3. /\ indexer'[i].claimed = e.claimed + c
        /\ indexer'[i].lockup = e.lockup /\ indexer'[i].unvested = e.unvested
        /\ e.claimed \in Nat
    BY <1>1, <2>1
  <2>4. Announced(lockups[i], e, SumSeq(W, promises)) /\ lockups'[i] = lockups[i]
    BY <1>1 DEF Ledger
  <2> HIDE DEF W, e, c
  <2>5. /\ SumSeq(W, promises') + W[p] = SumSeq(W, promises) + W[q]
        /\ SumSeq(W, promises) \in Nat /\ SumSeq(W, promises') \in Nat
    BY <1>7, <2>1
  <2>6. e.claimed + c + SumSeq(W, promises') = e.claimed + SumSeq(W, promises)
    BY <2>2, <2>3, <2>5
  <2> QED
    BY <2>3, <2>4, <2>6 DEF Announced, W
<1>9. Balanced
  <2>1. ToSend[p] = 0 /\ ToSend[q] = 0
    BY <1>1, <1>7 DEF ToSend
  <2>2. SumSeq(ToSend, promises') = SumSeq(ToSend, promises)
    BY <1>7, <2>1, Weights
  <2> QED
    BY <1>1, <2>2 DEF Balanced, Booked
<1>10. Ledger'
  BY <1>1, <1>3, <1>4, <1>8 DEF Ledger, Indices
<1> QED
  BY <1>9, <1>10

(* A lockup is pushed, announced and listed.                               *)
LEMMA LedgerCreated ==
  ASSUME IInv, Ledger, Len(lockups) < MaxLockups,
         NEW l \in LockupType, Increasing(l.schedule), l.claimed_balance = 0,
         total_balance(l.schedule) > 0,
         internal_add_lockup(l), indexer' = Append(indexer, Created(l)),
         \A k \in 1..Len(promises') : InOrder(promises'[k], lockups'),
         \A i \in 1..MaxLockups : SumSeq(TakenFrom(i), promises') = SumSeq(TakenFrom(i), promises)
  PROVE  /\ Ledger'
         /\ SumSeq(Rest, lockups') = SumSeq(Rest, lockups) + total_balance(l.schedule)
<1> DEFINE n == Len(lockups)
<1>1. /\ lockups \in Seq(Readable) /\ n \in Nat /\ l \in Readable
      /\ indexer \in Seq([lockup : LockupType, claimed : Nat, unvested : Nat]) /\ Len(indexer) = n
      /\ n + 1 \in 1..MaxLockups
      /\ account_lockups \in [Accounts -> SUBSET Indices]
      /\ promises \in Seq(Promise)
  BY LedgerFacts, BoundsAssumption DEF IInv, TypeOK, Readable
<1>2. /\ lockups' = Append(lockups, l)
      /\ account_lockups' = [account_lockups EXCEPT ![l.account_id] = @ \cup {n + 1}]
  BY DEF internal_add_lockup
<1>3. /\ Len(lockups') = n + 1
      /\ \A i \in 1..n : lockups'[i] = lockups[i]
      /\ lockups'[n + 1] = l
  BY <1>1, <1>2, AppendProperties
<1>4. /\ \A i \in 1..n : indexer'[i] = indexer[i]
      /\ indexer'[n + 1] = Created(l)
  BY <1>1, AppendProperties DEF Created
<1>5. SumSeq(TakenFrom(n + 1), promises) = 0
  <2>1. TakenFrom(n + 1) \in [Promise -> Nat]
    BY <1>1, Weights
  <2>2. ASSUME NEW k \in 1..Len(promises) PROVE TakenFrom(n + 1)[promises[k]] = 0
    <3>1. promises[k] \in Promise /\ InOrder(promises[k], lockups)
      BY LedgerFacts DEF Ledger
    <3>2. ~ (promises[k].claims[n + 1].claim_amount > 0)
      BY <1>1, <3>1 DEF InOrder
    <3>3. promises[k].claims[n + 1].claim_amount \in Nat
      BY <1>1, <3>1 DEF Promise, LockupClaim
    <3> QED
      BY <3>1, <3>2, <3>3 DEF TakenFrom
  <2> QED
    BY <1>1, <2>1, <2>2, SumSeqZero
<1>6. Announced(l, Created(l), 0)
  <2>1. total_balance(l.schedule) \in Nat
    BY RestOf
  <2> QED
    BY <2>1 DEF Announced, Created
<1>7. Indices' = Indices \cup {n + 1} /\ Indices = 1..n
  BY <1>1, <1>3 DEF Indices
<1>8. \A i \in Indices' : Announced(lockups'[i], indexer'[i], SumSeq(TakenFrom(i), promises'))
  <2>1. ASSUME NEW i \in 1..n
        PROVE  Announced(lockups'[i], indexer'[i], SumSeq(TakenFrom(i), promises'))
    <3>1. i \in 1..MaxLockups
      BY <1>7, LedgerFacts
    <3> QED
      BY <1>3, <1>4, <1>7, <3>1 DEF Ledger
  <2>2. Announced(lockups'[n + 1], indexer'[n + 1], SumSeq(TakenFrom(n + 1), promises'))
    BY <1>1, <1>3, <1>4, <1>5, <1>6
  <2> QED
    BY <1>7, <2>1, <2>2
<1>9. ListedRightly'
  <2> SUFFICES ASSUME NEW a \in Accounts, NEW i \in account_lockups'[a]
               PROVE  lockups'[i].account_id = a /\ NotEmptied(lockups'[i], indexer'[i])
    BY DEF ListedRightly
  <2>1. CASE i \in account_lockups[a]
    <3>1. i \in 1..n /\ lockups[i].account_id = a /\ NotEmptied(lockups[i], indexer[i])
      BY <1>1, <1>7, <2>1 DEF Ledger, ListedRightly
    <3> QED
      BY <1>3, <1>4, <3>1
  <2>2. CASE i \notin account_lockups[a]
    <3>1. a = l.account_id /\ lockups'[i] = l
      BY <1>1, <1>2, <1>3, <2>2
    <3> QED
      BY <3>1 DEF NotEmptied
  <2> QED
    BY <2>1, <2>2
<1>10. SumSeq(Rest, lockups') = SumSeq(Rest, lockups) + total_balance(l.schedule)
  <2>1. SumSeq(Rest, lockups') = SumSeq(Rest, lockups) + Rest[l]
    BY <1>1, <1>2, WeightsRest, SumSeqAppend
  <2>2. Rest[l] = total_balance(l.schedule)
    BY RestOf
  <2> QED
    BY <2>1, <2>2
<1> QED
  BY <1>8, <1>9, <1>10 DEF Ledger

LEMMA LedgerFtOnTransfer ==
  ASSUME IInv, Ledger, NEW sender_id \in Accounts, NEW amount \in Deposits, NEW c \in LockupCreates,
         FtOnTransfer(sender_id, amount, c)
  PROVE  Ledger' /\ Balanced
<1> DEFINE l == into_lockup(c, sender_id)
<1>1. amount \in Nat /\ now \in Nat /\ TypeOK
  BY AmountsAssumption, TypeFacts DEF IInv
<1>2. l \in LockupType /\ Increasing(l.schedule) /\ l.claimed_balance = 0
  BY <1>1, SoundCreate DEF FtOnTransfer, SoundLockup, assert_new_valid
<1>3. total_balance(l.schedule) = amount /\ amount > 0
  BY DEF FtOnTransfer, assert_new_valid, assert_valid
<1>4. Len(lockups) < MaxLockups
  BY <1>1, RoomBound DEF FtOnTransfer
<1>5. /\ internal_add_lockup(l) /\ indexer' = Append(indexer, Created(l))
      /\ promises' = promises /\ custody' = custody + amount
  BY DEF FtOnTransfer
<1> HIDE DEF l
<1>6. /\ Len(lockups) \in Nat /\ Len(lockups') = Len(lockups) + 1
      /\ \A i \in 1..Len(lockups) : lockups'[i] = lockups[i]
  BY <1>1, <1>2, <1>5, TypeFacts, AppendProperties DEF internal_add_lockup, TypeOK
<1>7. \A k \in 1..Len(promises) : InOrder(promises[k], lockups')
  <2> SUFFICES ASSUME NEW k \in 1..Len(promises) PROVE InOrder(promises[k], lockups')
    OBVIOUS
  <2>1. InOrder(promises[k], lockups)
    BY DEF Ledger
  <2> QED
    BY <1>6, <2>1, InOrderKept
<1>8. /\ Ledger'
      /\ SumSeq(Rest, lockups') = SumSeq(Rest, lockups) + total_balance(l.schedule)
  BY <1>2, <1>3, <1>4, <1>5, <1>7, LedgerCreated
<1>9. custody \in Nat /\ SumSeq(Rest, lockups) \in Int /\ SumSeq(ToSend, promises) \in Nat
  BY LedgerFacts
<1> QED
  BY <1>1, <1>3, <1>5, <1>8, <1>9 DEF Balanced, Booked

LEMMA LedgerAfterLockupTermination ==
  ASSUME IInv, Ledger, NEW k \in 1..Len(promises), AfterLockupTermination(k)
  PROVE  Ledger' /\ Balanced
<1> DEFINE p == promises[k]
           q == InStatus(p, "settled")
           l == new_lockup_unlocked_since(p.account_id, p.amount, now)
<1>1. /\ p.kind = "termination" /\ custody' = custody
      /\ \/ p.status = "transferred" /\ UNCHANGED <<lockups, account_lockups, indexer>>
         \/ /\ p.status = "failed" /\ Len(lockups) < MaxLockups
            /\ internal_add_lockup(l) /\ indexer' = Append(indexer, Created(l))
  BY DEF AfterLockupTermination
<1>2. promises' = WithStatus(promises, k, "settled")
  BY DEF AfterLockupTermination, WithStatus
<1>3. /\ promises \in Seq(Promise) /\ "settled" \in Statuses /\ now \in 1..MaxTime /\ lockups \in Seq(LockupType)
      /\ p \in Promise /\ p.account_id \in Accounts /\ p.amount \in Nat
      /\ custody \in Nat /\ SumSeq(Rest, lockups) \in Int /\ Len(lockups) \in Nat
  BY LedgerFacts DEF Statuses, Promise, IInv, TypeOK
<1>4. p.amount > 0 /\ p.claims = NoClaims
  BY <1>1 DEF Ledger, InOrder
<1>5. q = InStatus(promises[k], "settled") /\ p = promises[k]
  OBVIOUS
<1>6. /\ l \in LockupType /\ Increasing(l.schedule) /\ l.claimed_balance = 0
      /\ total_balance(l.schedule) = p.amount
  BY <1>3, SoundRefundLockup
     DEF SoundLockup, new_lockup_unlocked_since, new_unlocked_since, total_balance
<1> HIDE DEF p, q, l
<1>7. /\ q \in Promise /\ q.status = "settled" /\ q.claims = p.claims
      /\ \A W \in [Promise -> Nat] : /\ SumSeq(W, promises') + W[p] = SumSeq(W, promises) + W[q]
                                     /\ SumSeq(W, promises) \in Nat
                                     /\ SumSeq(W, promises') \in Nat
  <2>1. promises \in Seq(Promise) /\ "settled" \in Statuses
    BY <1>3
  <2>2. q = InStatus(p, "settled") /\ p = promises[k]
    BY <1>5
  <2>3. Moved(p, q, "settled", promises, promises')
    BY <1>2, <2>1, <2>2, StatusMoved
  <2> QED
    BY <2>3 DEF Moved
<1>8. ASSUME NEW i \in 1..MaxLockups
      PROVE  SumSeq(TakenFrom(i), promises') = SumSeq(TakenFrom(i), promises)
  <2>1. TakenFrom(i) \in [Promise -> Nat]
    BY Weights
  <2>2. NoClaims[i].claim_amount = 0
    BY DEF NoClaims
  <2>3. TakenFrom(i)[q] = 0 /\ TakenFrom(i)[p] = 0
    BY <1>3, <1>4, <1>7, <2>2 DEF TakenFrom
  <2> QED
    BY <1>7, <2>1, <2>3
<1>9. /\ SumSeq(ToSend, promises') + ToSend[p] = SumSeq(ToSend, promises) + ToSend[q]
      /\ SumSeq(ToSend, promises) \in Nat /\ SumSeq(ToSend, promises') \in Nat
      /\ ToSend[q] = 0
      /\ ToSend[p] = IF p.status = "failed" THEN p.amount ELSE IF p.status = "pending" THEN p.amount ELSE 0
  BY <1>3, <1>7, Weights DEF ToSend
<1>10. CASE p.status = "transferred" /\ UNCHANGED <<lockups, account_lockups, indexer>>
  <2>1. \A j \in 1..Len(promises') : InOrder(promises'[j], lockups')
    BY <1>2, <1>3, <1>10, StatusInOrder
  <2>2. \A i \in Indices : i \in 1..MaxLockups
    BY LedgerFacts
  <2>3. Ledger'
    BY <1>8, <1>10, <2>1, <2>2 DEF Ledger, Indices, ListedRightly
  <2> QED
    BY <1>1, <1>3, <1>9, <1>10, <2>3 DEF Balanced, Booked
<1>11. CASE /\ p.status = "failed" /\ Len(lockups) < MaxLockups
            /\ internal_add_lockup(l) /\ indexer' = Append(indexer, Created(l))
  <2>1. /\ Len(lockups') = Len(lockups) + 1
        /\ \A i \in 1..Len(lockups) : lockups'[i] = lockups[i]
    BY <1>3, <1>6, <1>11, AppendProperties DEF internal_add_lockup
  <2>2. \A j \in 1..Len(promises') : InOrder(promises'[j], lockups')
    BY <1>2, <1>3, <2>1, StatusInOrder DEF Indices
  <2>3. total_balance(l.schedule) > 0
    BY <1>4, <1>6
  <2>4. /\ Ledger'
        /\ SumSeq(Rest, lockups') = SumSeq(Rest, lockups) + total_balance(l.schedule)
    BY <1>6, <1>8, <1>11, <2>2, <2>3, LedgerCreated
  <2> QED
    BY <1>1, <1>3, <1>6, <1>9, <1>11, <2>4 DEF Balanced, Booked
<1> QED
  BY <1>1, <1>10, <1>11

(* What the claims of a transfer take together is what it sends: the ones  *)
(* of lockups that exist.                                                  *)
LEMMA ClaimsAddUp ==
  ASSUME IInv, Ledger, NEW k \in 1..Len(promises), promises[k].kind = "claim"
  PROVE  LET d == [i \in 1..MaxLockups |-> promises[k].claims[i].claim_amount]
         IN  SumTo(d, Len(lockups)) = promises[k].amount
<1> DEFINE d == [i \in 1..MaxLockups |-> promises[k].claims[i].claim_amount]
<1>1. promises[k] \in Promise /\ InOrder(promises[k], lockups)
  BY LedgerFacts DEF Ledger
<1>2. MaxLockups \in Nat /\ Len(lockups) \in 0..MaxLockups
  BY LedgerFacts, BoundsAssumption DEF IInv
<1>3. \A i \in 1..MaxLockups : d[i] \in Nat /\ (d[i] > 0 => i \in 1..Len(lockups))
  BY <1>1 DEF Promise, LockupClaim, InOrder
<1>4. promises[k].amount = SumTo(d, MaxLockups)
  BY <1>1 DEF InOrder
<1> HIDE DEF d
<1>5. /\ \A i \in 1..Len(lockups) : d[i] \in Int
      /\ \A i \in (Len(lockups) + 1)..MaxLockups : d[i] = 0
  <2>1. \A i \in 1..Len(lockups) : i \in 1..MaxLockups
    BY <1>2
  <2>2. \A i \in (Len(lockups) + 1)..MaxLockups : i \in 1..MaxLockups /\ i \notin 1..Len(lockups)
    BY <1>2
  <2>3. ASSUME NEW i \in 1..MaxLockups, i \notin 1..Len(lockups) PROVE d[i] = 0
    BY <1>3, <2>3
  <2> QED
    BY <1>3, <2>1, <2>2, <2>3
<1>6. SumTo(d, MaxLockups) = SumTo(d, Len(lockups))
  BY <1>2, <1>5, SumEndsAt
<1> QED
  BY <1>4, <1>6 DEF d

LEMMA LedgerAfterFtTransferFailed ==
  ASSUME IInv, Ledger, NEW k \in 1..Len(promises), AfterFtTransferFailed(k)
  PROVE  Ledger' /\ Balanced
<1> DEFINE p == promises[k]
           q == InStatus(p, "settled")
           c(i) == p.claims[i].claim_amount
           d == [i \in 1..MaxLockups |-> p.claims[i].claim_amount]
           refunded(i) == [lockups[i] EXCEPT !.claimed_balance = @ - c(i)]
<1>1. /\ p.kind = "claim" /\ p.status = "failed" /\ custody' = custody /\ indexer' = indexer
      /\ account_lockups' = [account_lockups EXCEPT ![p.account_id] =
                               @ \cup { i \in Indices : c(i) > 0 }]
      /\ lockups' = [i \in Indices |-> refunded(i)]
  BY DEF AfterFtTransferFailed
<1>2. promises' = WithStatus(promises, k, "settled")
  BY DEF AfterFtTransferFailed, WithStatus
<1>3. /\ promises \in Seq(Promise) /\ "settled" \in Statuses
      /\ p \in Promise /\ p.amount \in Nat /\ p.account_id \in Accounts
      /\ lockups \in Seq(Readable) /\ Len(lockups) \in Nat
      /\ custody \in Nat /\ SumSeq(Rest, lockups) \in Int
  BY LedgerFacts DEF Statuses, Promise
<1>4. q = InStatus(promises[k], "settled") /\ p = promises[k]
  OBVIOUS
<1>5. ASSUME NEW i \in Indices
      PROVE  /\ c(i) \in Nat /\ d[i] = c(i)
             /\ c(i) <= lockups[i].claimed_balance
             /\ c(i) > 0 => NotEmptied(lockups[i], indexer[i])
             /\ lockups[i].claimed_balance \in Nat
             /\ refunded(i) \in Readable
             /\ refunded(i).account_id = lockups[i].account_id
             /\ refunded(i).schedule = lockups[i].schedule
             /\ refunded(i).termination_config = lockups[i].termination_config
             /\ refunded(i).claimed_balance = lockups[i].claimed_balance - c(i)
             /\ Rest[refunded(i)] = Rest[lockups[i]] + c(i)
  <2>1. /\ c(i) \in Nat /\ c(i) <= lockups[i].claimed_balance
        /\ i \in 1..MaxLockups
        /\ ChecksDecideRightly \/ lockups[i].termination_config = indexer[i].lockup.termination_config
             => c(i) <= total_balance(lockups[i].schedule)
    BY <1>1, ClaimsTaken, LedgerFacts
  <2>2. lockups[i] \in LockupType /\ Increasing(lockups[i].schedule)
    BY LedgerFacts
  <2>3. /\ Rest[lockups[i]] = total_balance(lockups[i].schedule) - lockups[i].claimed_balance
        /\ total_balance(lockups[i].schedule) \in Nat /\ lockups[i].claimed_balance \in Nat
    BY <2>2, RestOf
  <2> HIDE DEF c
  <2>4. /\ refunded(i) \in LockupType
        /\ refunded(i).account_id = lockups[i].account_id
        /\ refunded(i).schedule = lockups[i].schedule
        /\ refunded(i).termination_config = lockups[i].termination_config
        /\ refunded(i).claimed_balance = lockups[i].claimed_balance - c(i)
    BY <2>1, <2>2, <2>3 DEF LockupType
  <2> HIDE DEF refunded
  <2>5. refunded(i) \in Readable /\ Rest[refunded(i)] = total_balance(lockups[i].schedule) - refunded(i).claimed_balance
    BY <2>2, <2>4, RestOf
  <2>6. c(i) > 0 => NotEmptied(lockups[i], indexer[i])
    BY <2>1, <2>3 DEF NotEmptied
  <2> QED
    BY <2>1, <2>3, <2>4, <2>5, <2>6 DEF c
<1> HIDE DEF p, q, c, d, refunded
<1>6. /\ q \in Promise /\ q.status = "settled" /\ q.claims = p.claims
      /\ \A W \in [Promise -> Nat] : /\ SumSeq(W, promises') + W[p] = SumSeq(W, promises) + W[q]
                                     /\ SumSeq(W, promises) \in Nat
                                     /\ SumSeq(W, promises') \in Nat
  <2>1. promises \in Seq(Promise) /\ "settled" \in Statuses
    BY <1>3
  <2>2. q = InStatus(p, "settled") /\ p = promises[k]
    BY <1>4
  <2>3. Moved(p, q, "settled", promises, promises')
    BY <1>2, <2>1, <2>2, StatusMoved
  <2> QED
    BY <2>3 DEF Moved
<1>7. /\ lockups' \in Seq(Readable) /\ Len(lockups') = Len(lockups)
      /\ \A i \in Indices : lockups'[i] = refunded(i)
  <2>1. lockups' \in [1..Len(lockups) -> Readable]
    BY <1>1, <1>5 DEF Indices
  <2> QED
    BY <1>1, <1>3, <2>1, FunctionIsSeq
<1>8. \A j \in 1..Len(promises') : InOrder(promises'[j], lockups')
  BY <1>2, <1>3, <1>5, <1>7, StatusInOrder
<1>9. ASSUME NEW i \in Indices
      PROVE  Announced(lockups'[i], indexer'[i], SumSeq(TakenFrom(i), promises'))
  <2> DEFINE W == TakenFrom(i)
  <2>1. W \in [Promise -> Nat] /\ indexer[i].claimed \in Nat
    BY LedgerFacts, Weights
  <2>2. W[p] = c(i) /\ W[q] = 0
    BY <1>1, <1>3, <1>6 DEF TakenFrom, c
  <2>3. Announced(lockups[i], indexer[i], SumSeq(W, promises))
    BY DEF Ledger
  <2> HIDE DEF W
  <2>4. /\ SumSeq(W, promises') + c(i) = SumSeq(W, promises)
        /\ SumSeq(W, promises) \in Nat /\ SumSeq(W, promises') \in Nat
    BY <1>6, <2>1, <2>2
  <2>5. indexer[i].claimed + SumSeq(W, promises') = lockups[i].claimed_balance - c(i)
    <3>1. indexer[i].claimed + SumSeq(W, promises) = lockups[i].claimed_balance
      BY <2>3 DEF Announced
    <3>2. c(i) \in Nat /\ lockups[i].claimed_balance \in Nat
      BY <1>5
    <3> HIDE DEF c
    <3>3. indexer[i].claimed \in Nat
      BY <2>1
    <3>4. PICK x \in Int, y \in Int, z \in Int, t \in Int, m \in Int :
            /\ x = indexer[i].claimed /\ y = SumSeq(W, promises) /\ z = lockups[i].claimed_balance
            /\ t = SumSeq(W, promises') /\ m = c(i)
      BY <2>4, <3>2, <3>3
    <3>5. x + y = z /\ t + m = y
      BY <2>4, <3>1, <3>4
    <3>6. x + t = z - m
      BY <3>5
    <3> QED
      BY <3>4, <3>6
  <2> QED
    BY <1>1, <1>5, <1>7, <2>3, <2>5 DEF Announced, W
<1>10. ListedRightly'
  <2> SUFFICES ASSUME NEW a \in Accounts, NEW i \in account_lockups'[a]
               PROVE  lockups'[i].account_id = a /\ NotEmptied(lockups'[i], indexer'[i])
    BY DEF ListedRightly
  <2>1. account_lockups \in [Accounts -> SUBSET Indices]
    BY DEF IInv, TypeOK
  <2>2. i \in Indices /\ lockups[i].account_id = a /\ NotEmptied(lockups[i], indexer[i])
    <3>1. CASE i \in account_lockups[a]
      BY <2>1, <3>1 DEF Ledger, ListedRightly
    <3>2. CASE i \notin account_lockups[a]
      <4>1. a = p.account_id /\ i \in Indices /\ c(i) > 0
        BY <1>1, <2>1, <3>2
      <4>2. i \in 1..MaxLockups /\ InOrder(p, lockups)
        BY <1>4, <4>1, LedgerFacts DEF Ledger
      <4>3. lockups[i].account_id = p.account_id
        BY <4>1, <4>2 DEF InOrder, c
      <4> QED
        BY <1>5, <4>1, <4>3
    <3> QED
      BY <3>1, <3>2
  <2>3. /\ lockups'[i].account_id = lockups[i].account_id
        /\ lockups'[i].schedule = lockups[i].schedule
        /\ lockups'[i].termination_config = lockups[i].termination_config
        /\ indexer'[i] = indexer[i]
    BY <1>1, <1>5, <1>7, <2>2
  <2> QED
    BY <2>2, <2>3 DEF NotEmptied
<1>11. Balanced
  <2>1. ToSend[p] = p.amount /\ ToSend[q] = 0
    BY <1>1, <1>3, <1>6 DEF ToSend
  <2>2. /\ SumSeq(ToSend, promises') + p.amount = SumSeq(ToSend, promises)
        /\ SumSeq(ToSend, promises') \in Nat /\ SumSeq(ToSend, promises) \in Nat
    BY <1>6, <2>1, Weights
  <2>3. SumTo(d, Len(lockups)) = p.amount
    BY <1>1, <1>4, ClaimsAddUp DEF d
  <2>4. \A i \in 1..Len(lockups) : d[i] \in Int /\ Rest[lockups'[i]] = Rest[lockups[i]] + d[i]
    BY <1>5, <1>7 DEF Indices
  <2>5. SumSeq(Rest, lockups') = SumSeq(Rest, lockups) + SumTo(d, Len(lockups))
    BY <1>3, <1>7, <2>4, RestChanged
  <2> QED
    BY <1>1, <1>3, <2>2, <2>3, <2>5 DEF Balanced, Booked
<1>12. Ledger'
  BY <1>7, <1>8, <1>9, <1>10 DEF Ledger, Indices
<1> QED
  BY <1>11, <1>12

(* A transfer is appended.                                                 *)
IsStarted(ps, p, qs) == qs = Append(ps, p)

LEMMA TransferStarted ==
  ASSUME NEW ps \in Seq(Promise), NEW p \in Promise, NEW qs, IsStarted(ps, p, qs)
  PROVE  /\ Len(ps) \in Nat /\ Len(qs) = Len(ps) + 1
         /\ \A k \in 1..Len(qs) : qs[k] = IF k = Len(ps) + 1 THEN p ELSE ps[k]
         /\ \A W \in [Promise -> Nat] : /\ SumSeq(W, qs) = SumSeq(W, ps) + W[p]
                                        /\ SumSeq(W, ps) \in Nat
                                        /\ W[p] \in Nat
<1>1. /\ Len(ps) \in Nat /\ Len(qs) = Len(ps) + 1
      /\ \A k \in 1..Len(qs) : qs[k] = IF k = Len(ps) + 1 THEN p ELSE ps[k]
  BY AppendProperties, LenProperties DEF IsStarted
<1>2. ASSUME NEW W \in [Promise -> Nat]
      PROVE  SumSeq(W, qs) = SumSeq(W, ps) + W[p] /\ SumSeq(W, ps) \in Nat /\ W[p] \in Nat
  <2>1. W \in [Promise -> Int]
    BY Weighing
  <2>2. SumSeq(W, Append(ps, p)) = SumSeq(W, ps) + W[p]
    BY <2>1, SumSeqAppend
  <2>3. SumSeq(W, ps) \in Nat
    BY SumSeqNatural
  <2> QED
    BY <2>2, <2>3 DEF IsStarted
<1> QED
  BY <1>1, <1>2

LEMMA LedgerClaim ==
  ASSUME IInv, Ledger, NEW a \in Accounts, NEW amounts \in AmountRequests(a), Claim(a, amounts)
  PROVE  Ledger' /\ Balanced
<1> DEFINE r == Requested(amounts)
           total == SumTo(r, Len(lockups))
           claim(i) == [claim_amount |-> r[i], is_final |-> r[i] > 0 /\ is_final(lockups[i], r[i])]
           claims == [i \in 1..MaxLockups |-> IF i \in Indices THEN claim(i) ELSE NoClaims[i]]
           p == [kind |-> "claim", account_id |-> a, amount |-> total, status |-> "pending",
                 claims |-> claims]
           charged(i) == [lockups[i] EXCEPT !.claimed_balance = @ + r[i]]
<1>1. /\ total > 0
      /\ lockups' = [i \in Indices |-> charged(i)]
      /\ promises' = Append(promises, p)
      /\ UNCHANGED <<now, account_lockups, deposit_whitelist, custody, indexer>>
  BY DEF Claim, Requested
<1>2. \A i \in Indices : r[i] \in Nat /\ (r[i] > 0 => i \in account_lockups[a])
  BY RequestedAmounts
<1> HIDE DEF r
<1>3. /\ promises \in Seq(Promise) /\ lockups \in Seq(Readable) /\ Len(lockups) \in Nat
      /\ MaxLockups \in Nat /\ Len(lockups) \in 0..MaxLockups
      /\ custody \in Nat /\ SumSeq(Rest, lockups) \in Int
  BY LedgerFacts, BoundsAssumption DEF IInv
<1>4. /\ claims \in [1..MaxLockups -> LockupClaim]
      /\ \A i \in 1..MaxLockups : claims[i].claim_amount = IF i \in Indices THEN r[i] ELSE 0
  <2>1. \A i \in Indices : claim(i) \in LockupClaim /\ claim(i).claim_amount = r[i]
    BY <1>2 DEF LockupClaim, is_final
  <2>2. \A i \in 1..MaxLockups : NoClaims[i] \in LockupClaim /\ NoClaims[i].claim_amount = 0
    BY DEF LockupClaim, NoClaims
  <2> HIDE DEF claim
  <2> QED
    BY <2>1, <2>2
<1>5. total \in Nat
  BY <1>2, <1>3, SumOfNaturals DEF Indices
<1> HIDE DEF claims, total
<1>6. /\ p \in Promise /\ p.kind = "claim" /\ p.account_id = a /\ p.amount = total
      /\ p.claims = claims /\ p.status = "pending"
  BY <1>4, <1>5 DEF Promise
<1>7. ASSUME NEW i \in Indices
      PROVE  /\ charged(i) \in Readable
             /\ charged(i).account_id = lockups[i].account_id
             /\ charged(i).schedule = lockups[i].schedule
             /\ charged(i).termination_config = lockups[i].termination_config
             /\ charged(i).claimed_balance = lockups[i].claimed_balance + r[i]
             /\ r[i] \in Nat /\ lockups[i].claimed_balance \in Nat
             /\ Rest[lockups[i]] = Rest[charged(i)] + r[i]
  <2>1. lockups[i] \in LockupType /\ Increasing(lockups[i].schedule) /\ r[i] \in Nat
    BY <1>2, LedgerFacts
  <2>2. /\ Rest[lockups[i]] = total_balance(lockups[i].schedule) - lockups[i].claimed_balance
        /\ total_balance(lockups[i].schedule) \in Nat /\ lockups[i].claimed_balance \in Nat
    BY <2>1, RestOf
  <2>3. /\ charged(i) \in LockupType
        /\ charged(i).account_id = lockups[i].account_id
        /\ charged(i).schedule = lockups[i].schedule
        /\ charged(i).termination_config = lockups[i].termination_config
        /\ charged(i).claimed_balance = lockups[i].claimed_balance + r[i]
    BY <2>1, <2>2 DEF LockupType
  <2> HIDE DEF charged
  <2>4. /\ charged(i) \in Readable
        /\ Rest[charged(i)] = total_balance(lockups[i].schedule) - charged(i).claimed_balance
    BY <2>1, <2>3, RestOf
  <2> QED
    BY <2>1, <2>2, <2>3, <2>4
<1> HIDE DEF p, charged
<1>8. /\ Len(promises) \in Nat /\ Len(promises') = Len(promises) + 1
      /\ \A k \in 1..Len(promises') : promises'[k] = IF k = Len(promises) + 1 THEN p ELSE promises[k]
      /\ \A W \in [Promise -> Nat] : /\ SumSeq(W, promises') = SumSeq(W, promises) + W[p]
                                     /\ SumSeq(W, promises) \in Nat
                                     /\ W[p] \in Nat
  <2>1. IsStarted(promises, p, promises') /\ p \in Promise /\ promises \in Seq(Promise)
    BY <1>1, <1>3, <1>6 DEF IsStarted
  <2> QED
    BY <2>1, TransferStarted
<1>9. /\ lockups' \in Seq(Readable) /\ Len(lockups') = Len(lockups)
      /\ \A i \in Indices : lockups'[i] = charged(i)
  <2>1. lockups' \in [1..Len(lockups) -> Readable]
    BY <1>1, <1>7 DEF Indices
  <2> QED
    BY <1>1, <1>3, <2>1, FunctionIsSeq
<1>10. \A i \in 1..Len(lockups) : lockups'[i].account_id = lockups[i].account_id
  BY <1>7, <1>9 DEF Indices
<1>11. InOrder(p, lockups')
  <2> DEFINE d == [i \in 1..MaxLockups |-> p.claims[i].claim_amount]
  <2>1. \A i \in 1..MaxLockups : d[i] = IF i \in Indices THEN r[i] ELSE 0
    BY <1>4, <1>6
  <2>2. \A i \in 1..MaxLockups : p.claims[i].claim_amount > 0 =>
          i \in 1..Len(lockups') /\ lockups'[i].account_id = p.account_id
    <3> SUFFICES ASSUME NEW i \in 1..MaxLockups, p.claims[i].claim_amount > 0
                 PROVE  i \in 1..Len(lockups') /\ lockups'[i].account_id = p.account_id
      OBVIOUS
    <3>1. i \in Indices /\ r[i] > 0
      BY <1>4, <1>6
    <3>2. lockups[i].account_id = a
      BY <1>2, <3>1 DEF Ledger, ListedRightly
    <3> QED
      BY <1>6, <1>9, <1>10, <3>1, <3>2 DEF Indices
  <2> HIDE DEF d
  <2>3. SumTo(d, MaxLockups) = total
    <3>1. \A i \in 1..Len(lockups) : d[i] = r[i] /\ d[i] \in Int
      BY <1>2, <1>3, <2>1 DEF Indices
    <3>2. \A i \in (Len(lockups) + 1)..MaxLockups : d[i] = 0
      BY <1>3, <2>1 DEF Indices
    <3>3. SumTo(d, MaxLockups) = SumTo(d, Len(lockups))
      BY <1>3, <3>1, <3>2, SumEndsAt
    <3>4. SumTo(d, Len(lockups)) = SumTo(r, Len(lockups))
      BY <1>3, <3>1, SumOfEquals
    <3> QED
      BY <3>3, <3>4 DEF total
  <2> QED
    BY <1>1, <1>6, <2>2, <2>3 DEF InOrder, d
<1>12. \A k \in 1..Len(promises') : InOrder(promises'[k], lockups')
  <2>1. ASSUME NEW k \in 1..Len(promises) PROVE InOrder(promises[k], lockups')
    <3>1. InOrder(promises[k], lockups)
      BY DEF Ledger
    <3> QED
      BY <1>3, <1>9, <1>10, <3>1, InOrderKept
  <2> QED
    BY <1>8, <1>11, <2>1
<1>13. ASSUME NEW i \in Indices
       PROVE  Announced(lockups'[i], indexer'[i], SumSeq(TakenFrom(i), promises'))
  <2> DEFINE W == TakenFrom(i)
  <2>1. W \in [Promise -> Nat] /\ indexer[i].claimed \in Nat /\ i \in 1..MaxLockups
    BY LedgerFacts, Weights
  <2>2. W[p] = r[i]
    BY <1>4, <1>6, <2>1 DEF TakenFrom
  <2>3. Announced(lockups[i], indexer[i], SumSeq(W, promises))
    BY DEF Ledger
  <2> HIDE DEF W
  <2>4. SumSeq(W, promises') = SumSeq(W, promises) + r[i] /\ SumSeq(W, promises) \in Nat
    BY <1>8, <2>1, <2>2
  <2>5. indexer[i].claimed + SumSeq(W, promises') = lockups[i].claimed_balance + r[i]
    BY <1>7, <2>1, <2>3, <2>4 DEF Announced
  <2> QED
    BY <1>1, <1>7, <1>9, <2>3, <2>5 DEF Announced, W
<1>14. ListedRightly'
  <2>1. \A i \in Indices : /\ lockups'[i].account_id = lockups[i].account_id
                           /\ lockups'[i].schedule = lockups[i].schedule
                           /\ lockups'[i].termination_config = lockups[i].termination_config
    BY <1>7, <1>9
  <2>2. account_lockups' = account_lockups /\ indexer' = indexer /\ ListedRightly
    BY <1>1 DEF Ledger
  <2> QED
    BY <2>1, <2>2, ListedRightlyKept
<1>15. Balanced
  <2>1. SumSeq(ToSend, promises') = SumSeq(ToSend, promises) + total /\ SumSeq(ToSend, promises) \in Nat
    <3>1. ToSend[p] = total
      BY <1>6 DEF ToSend
    <3> QED
      BY <1>8, <3>1, Weights
  <2>2. \A i \in 1..Len(lockups) : r[i] \in Int /\ Rest[lockups[i]] = Rest[lockups'[i]] + r[i]
    BY <1>7, <1>9 DEF Indices
  <2>3. SumSeq(Rest, lockups) = SumSeq(Rest, lockups') + total
    BY <1>3, <1>9, <2>2, RestChanged DEF total
  <2>4. SumSeq(Rest, lockups') \in Int
    BY <1>9, WeightsRest, SumSeqInteger
  <2> QED
    BY <1>1, <1>3, <1>5, <2>1, <2>3, <2>4 DEF Balanced, Booked
<1>16. Ledger'
  BY <1>9, <1>12, <1>13, <1>14 DEF Ledger, Indices
<1> QED
  BY <1>15, <1>16

(* A termination leaves what is vested: the rest is unvested.              *)
LEMMA TerminatedRecord ==
  ASSUME NEW l \in LockupType, NEW g \in LockupType, NEW t \in 1..MaxTime, NEW h,
         SoundLockup(l, g, t), can_terminate(l, h), NEW f \in 1..MaxTime, t <= f
  PROVE  LET n == terminate_lockup(l, f)
             unvested == unvested_balance(l, f)
         IN  /\ n \in Readable
             /\ n.account_id = l.account_id
             /\ n.claimed_balance = l.claimed_balance
             /\ n.termination_config = None
             /\ unvested \in Nat
             /\ total_balance(n.schedule) = total_balance(l.schedule) - unvested
             /\ total_balance(n.schedule) \in Nat
             /\ ChecksDecideRightly => l.claimed_balance <= total_balance(n.schedule)
             /\ Rest[l] = Rest[n] + unvested
<1> DEFINE n == terminate_lockup(l, f)
           unvested == unvested_balance(l, f)
           s == l.schedule
           v == vested_balance(l, f)
<1>1. /\ n \in LockupType /\ n.account_id = l.account_id
      /\ SoundLockup(n, g, t) /\ unvested \in Nat
  BY SoundTerminate
<1>2. /\ s \in Schedules /\ Increasing(s) /\ total_balance(s) \in Nat /\ l.claimed_balance \in Nat
      /\ Rest[l] = total_balance(s) - l.claimed_balance /\ f \in Nat
  BY RestOf, LockupFields, BoundsAssumption DEF SoundLockup
<1>3. v \in Nat /\ v <= total_balance(s)
  BY <1>2, VestingAhead, UnlockedBounds DEF vested_balance
<1>4. unvested = total_balance(s) - v
  BY DEF unvested_balance
<1>5. /\ n.claimed_balance = l.claimed_balance
      /\ n.termination_config = None
      /\ n.schedule = IF unvested > 0 THEN terminate(s, v, f) ELSE s
  BY DEF terminate_lockup, LockupType
<1>6. total_balance(terminate(s, v, f)) = v
  <2> HIDE DEF s, v
  <2> QED
    BY <1>2, <1>3, TerminateWellFormed
<1> HIDE DEF n, v, unvested, s
<1>7. total_balance(n.schedule) = total_balance(s) - unvested /\ total_balance(n.schedule) = v
  BY <1>1, <1>2, <1>3, <1>4, <1>5, <1>6
<1>8. /\ ChecksDecideRightly => l.claimed_balance <= total_balance(n.schedule)
      /\ Increasing(n.schedule)
  BY <1>1, <1>5 DEF SoundLockup
<1>9. n \in Readable /\ Rest[n] = total_balance(n.schedule) - n.claimed_balance
  BY <1>1, <1>8, RestOf
<1>10. Rest[l] = Rest[n] + unvested
  BY <1>1, <1>2, <1>5, <1>7, <1>9
<1> QED
  BY <1>1, <1>3, <1>5, <1>7, <1>8, <1>9, <1>10 DEF n, unvested, s

LEMMA LedgerTerminate ==
  ASSUME IInv, Ledger, NEW caller \in Accounts, NEW i \in Indices, NEW h, NEW f \in 1..MaxTime,
         Terminate(caller, i, h, f)
  PROVE  Ledger' /\ Balanced
<1> DEFINE l == lockups[i]
           n == terminate_lockup(l, f)
           unvested == unvested_balance(l, f)
           p == [kind |-> "termination", amount |-> unvested, status |-> "pending",
                 claims |-> NoClaims, account_id |-> l.termination_config.beneficiary_id]
           e == [indexer[i] EXCEPT !.unvested = unvested]
<1>1. /\ now <= f
      /\ can_terminate(l, h)
      /\ account_lockups' = IF total_balance(n.schedule) = 0
                            THEN [account_lockups EXCEPT ![n.account_id] = @ \ {i}]
                            ELSE account_lockups
      /\ custody' = custody
  BY TypeFacts DEF Terminate, IInv
<1>2. lockups' = [lockups EXCEPT ![i] = n] /\ indexer' = [indexer EXCEPT ![i] = e]
  BY DEF Terminate
<1>3. IF unvested > 0 THEN IsStarted(promises, p, promises') ELSE promises' = promises
  BY DEF Terminate, IsStarted
<1>4. /\ lockups \in Seq(Readable) /\ promises \in Seq(Promise)
      /\ indexer \in Seq([lockup : LockupType, claimed : Nat, unvested : Nat])
      /\ Len(lockups) \in Nat /\ Len(indexer) = Len(lockups)
      /\ i \in 1..Len(lockups) /\ i \in 1..Len(indexer)
      /\ l \in Readable /\ l \in LockupType
      /\ indexer[i] \in [lockup : LockupType, claimed : Nat, unvested : Nat]
      /\ custody \in Nat /\ SumSeq(Rest, lockups) \in Int /\ SumSeq(ToSend, promises) \in Nat
      /\ account_lockups \in [Accounts -> SUBSET Indices]
  BY LedgerFacts DEF IInv, TypeOK, Indices
<1>5. /\ n \in Readable
      /\ n.account_id = l.account_id
      /\ n.claimed_balance = l.claimed_balance
      /\ n.termination_config = None
      /\ unvested \in Nat
      /\ total_balance(n.schedule) = total_balance(l.schedule) - unvested
      /\ total_balance(n.schedule) \in Nat
      /\ Rest[l] = Rest[n] + unvested
  <2> DEFINE g == indexer[i].lockup
  <2>1. now \in 1..MaxTime /\ g \in LockupType /\ SoundLockup(l, g, now)
    BY TypeFacts DEF IInv
  <2>2. l \in LockupType /\ can_terminate(l, h) /\ now <= f
    BY <1>1, <1>4
  <2> HIDE DEF l, g
  <2> QED
    BY <2>1, <2>2, TerminatedRecord
<1>6. l.termination_config # None /\ l.termination_config.beneficiary_id \in Accounts
  BY <1>1, <1>4, LockupFields DEF can_terminate
<1>7. /\ p \in Promise /\ p.kind = "termination" /\ p.amount = unvested /\ p.claims = NoClaims
      /\ p.status = "pending"
  <2> HIDE DEF unvested
  <2> QED
    BY <1>5, <1>6, NoClaimsType DEF Promise
<1>8. /\ e \in [lockup : LockupType, claimed : Nat, unvested : Nat]
      /\ e.lockup = indexer[i].lockup /\ e.claimed = indexer[i].claimed /\ e.unvested = unvested
  <2> HIDE DEF unvested
  <2> QED
    BY <1>4, <1>5
<1> HIDE DEF n, unvested, p, e, l
<1>9. /\ Len(lockups') = Len(lockups) /\ lockups' \in Seq(Readable)
      /\ \A j \in 1..Len(lockups) : lockups'[j] = IF j = i THEN n ELSE lockups[j]
  <2>1. lockups \in Seq(Readable) /\ i \in 1..Len(lockups) /\ n \in Readable
    BY <1>4, <1>5
  <2> QED
    BY <1>2, <2>1, ExceptSeq
<1>10. \A j \in 1..Len(lockups) : indexer'[j] = IF j = i THEN e ELSE indexer[j]
  <2>1. /\ indexer \in Seq([lockup : LockupType, claimed : Nat, unvested : Nat])
        /\ i \in 1..Len(indexer) /\ Len(indexer) = Len(lockups)
        /\ e \in [lockup : LockupType, claimed : Nat, unvested : Nat]
    BY <1>4, <1>8
  <2> DEFINE Entry == [lockup : LockupType, claimed : Nat, unvested : Nat]
  <2>2. indexer' = [indexer EXCEPT ![i] = e]
    BY <1>2
  <2>3. indexer \in Seq(Entry) /\ e \in Entry /\ i \in 1..Len(indexer)
    BY <2>1
  <2> HIDE DEF Entry
  <2>4. \A j \in 1..Len(indexer) : indexer'[j] = IF j = i THEN e ELSE indexer[j]
    BY <2>2, <2>3, ExceptSeq
  <2>5. Len(indexer) = Len(lockups)
    BY <2>1
  <2> QED
    BY <2>4, <2>5
<1>11. \A j \in 1..Len(lockups) : lockups'[j].account_id = lockups[j].account_id
  BY <1>5, <1>9 DEF l
<1>12. ASSUME unvested > 0
       PROVE  /\ Len(promises) \in Nat /\ Len(promises') = Len(promises) + 1
              /\ \A k \in 1..Len(promises') :
                   promises'[k] = IF k = Len(promises) + 1 THEN p ELSE promises[k]
              /\ \A W \in [Promise -> Nat] : /\ SumSeq(W, promises') = SumSeq(W, promises) + W[p]
                                             /\ SumSeq(W, promises) \in Nat
                                             /\ W[p] \in Nat
  <2>1. IsStarted(promises, p, promises')
    BY <1>3, <1>12
  <2> QED
    BY <1>4, <1>7, <2>1, TransferStarted
<1>13. \A k \in 1..Len(promises') : InOrder(promises'[k], lockups')
  <2>1. ASSUME NEW k \in 1..Len(promises) PROVE InOrder(promises[k], lockups')
    <3>1. InOrder(promises[k], lockups)
      BY DEF Ledger
    <3>2. SameOwners(lockups, lockups')
      BY <1>4, <1>9, <1>11 DEF SameOwners
    <3> QED
      BY <3>1, <3>2, InOrderLater
  <2>2. unvested > 0 => InOrder(p, lockups')
    <3>1. \A j \in 1..MaxLockups : ~ (NoClaims[j].claim_amount > 0)
      BY DEF NoClaims
    <3> QED
      BY <1>7, <3>1 DEF InOrder
  <2> QED
    BY <1>3, <1>5, <1>12, <2>1, <2>2
<1>14. ASSUME NEW j \in Indices
       PROVE  Announced(lockups'[j], indexer'[j], SumSeq(TakenFrom(j), promises'))
  <2>1. SumSeq(TakenFrom(j), promises') = SumSeq(TakenFrom(j), promises)
    <3>1. CASE unvested > 0
      <4>1. TakenFrom(j) \in [Promise -> Nat] /\ j \in 1..MaxLockups
        BY LedgerFacts, Weights
      <4>2. NoClaims[j].claim_amount = 0
        BY <4>1 DEF NoClaims
      <4>3. TakenFrom(j)[p] = 0
        BY <1>7, <4>2 DEF TakenFrom
      <4> QED
        BY <1>12, <3>1, <4>1, <4>3
    <3> QED
      BY <1>3, <3>1
  <2>2. Announced(lockups[j], indexer[j], SumSeq(TakenFrom(j), promises))
    BY DEF Ledger
  <2>3. j \in 1..Len(lockups)
    BY DEF Indices
  <2>4. CASE j # i
    BY <1>9, <1>10, <2>1, <2>2, <2>3, <2>4
  <2>5. CASE j = i
    <3>1. Announced(n, e, SumSeq(TakenFrom(j), promises))
      BY <1>5, <1>6, <1>8, <2>2, <2>5 DEF Announced, l
    <3> QED
      BY <1>9, <1>10, <2>1, <2>3, <2>5, <3>1
  <2> QED
    BY <2>4, <2>5
<1>15. ListedRightly'
  <2> SUFFICES ASSUME NEW a \in Accounts, NEW j \in account_lockups'[a]
               PROVE  lockups'[j].account_id = a /\ NotEmptied(lockups'[j], indexer'[j])
    BY DEF ListedRightly
  <2>1. j \in account_lockups[a] /\ j \in 1..Len(lockups)
    BY <1>1, <1>4 DEF Indices
  <2>2. lockups[j].account_id = a /\ NotEmptied(lockups[j], indexer[j])
    BY <2>1 DEF Ledger, ListedRightly
  <2>3. CASE j # i
    BY <1>9, <1>10, <2>1, <2>2, <2>3
  <2>4. CASE j = i
    <3>1. total_balance(n.schedule) # 0
      BY <1>1, <1>4, <1>5, <2>2, <2>4 DEF l
    <3>2. total_balance(lockups'[j].schedule) > 0
      BY <1>5, <1>9, <2>1, <2>4, <3>1
    <3> QED
      BY <1>11, <2>1, <2>2, <3>2 DEF NotEmptied
  <2> QED
    BY <2>3, <2>4
<1>16. Balanced
  <2>1. SumSeq(Rest, lockups') = SumSeq(Rest, lockups) + (Rest[n] - Rest[l])
    <3>1. IsReplaced(lockups, i, n, lockups')
      BY <1>9 DEF IsReplaced
    <3>2. lockups \in Seq(Readable) /\ i \in 1..Len(lockups) /\ n \in Readable
      BY <1>4, <1>5
    <3>3. SumSeq(Rest, lockups') = SumSeq(Rest, lockups) + (Rest[n] - Rest[lockups[i]])
      BY <3>1, <3>2, WeightsRest, SumSeqReplace
    <3> QED
      BY <3>3 DEF l
  <2>2. SumSeq(ToSend, promises') = SumSeq(ToSend, promises) + unvested
    <3>1. CASE unvested > 0
      <4>1. ToSend[p] = unvested
        BY <1>7 DEF ToSend
      <4> QED
        BY <1>12, <3>1, <4>1, Weights
    <3>2. CASE ~ (unvested > 0)
      BY <1>3, <1>4, <1>5, <3>2
    <3> QED
      BY <3>1, <3>2
  <2>3. /\ Rest[n] \in Int /\ Rest[l] \in Int /\ Rest[l] = Rest[n] + unvested /\ unvested \in Nat
        /\ SumSeq(Rest, lockups) \in Int /\ SumSeq(ToSend, promises) \in Nat
        /\ custody' = custody /\ custody \in Nat
    BY <1>1, <1>4, <1>5, WeightsRest
  <2>4. Booked' = Booked
    BY <2>1, <2>2, <2>3 DEF Booked
  <2> QED
    BY <2>3, <2>4 DEF Balanced
<1>17. Ledger'
  BY <1>9, <1>13, <1>14, <1>15 DEF Ledger, Indices
<1> QED
  BY <1>16, <1>17

LEMMA LedgerUntouched ==
  ASSUME IInv, Ledger, UNCHANGED <<lockups, account_lockups, promises, custody, indexer>>
  PROVE  Ledger' /\ Balanced
BY DEF Ledger, Balanced, Booked, Indices, ListedRightly

LEMMA LedgerNext ==
  ASSUME IInv, Ledger, [Next]_vars
  PROVE  Ledger' /\ Balanced
<1>1. ASSUME NEW sender_id \in Accounts, NEW amount \in Deposits, NEW c \in LockupCreates,
             FtOnTransfer(sender_id, amount, c)
      PROVE  Ledger' /\ Balanced
  BY <1>1, LedgerFtOnTransfer
<1>2. ASSUME NEW a \in Accounts, NEW amounts \in AmountRequests(a), Claim(a, amounts)
      PROVE  Ledger' /\ Balanced
  BY <1>2, LedgerClaim
<1>3. ASSUME NEW caller \in Accounts, NEW i \in Indices, NEW h \in RevealedSchedules,
             NEW t \in 1..MaxTime, Terminate(caller, i, h, t)
      PROVE  Ledger' /\ Balanced
  BY <1>3, LedgerTerminate
<1>4. ASSUME NEW k \in 1..Len(promises),
             \/ FtTransfer(k) \/ AfterFtTransferOk(k)
             \/ AfterFtTransferFailed(k) \/ AfterLockupTermination(k)
      PROVE  Ledger' /\ Balanced
  BY <1>4, LedgerFtTransfer, LedgerAfterFtTransferOk, LedgerAfterFtTransferFailed,
     LedgerAfterLockupTermination
<1>5. ASSUME NEW caller \in Accounts, NEW account_ids \in (SUBSET Operators) \ {{}},
             \/ AddToDepositWhitelist(caller, account_ids)
             \/ RemoveFromDepositWhitelist(caller, account_ids)
      PROVE  Ledger' /\ Balanced
  BY <1>5, LedgerUntouched DEF AddToDepositWhitelist, RemoveFromDepositWhitelist
<1>6. CASE Tick
  BY <1>6, LedgerUntouched DEF Tick
<1>7. CASE UNCHANGED vars
  BY <1>7, LedgerUntouched DEF vars
<1> QED
  BY <1>1, <1>2, <1>3, <1>4, <1>5, <1>6, <1>7 DEF Next

-----------------------------------------------------------------------------
(* What the books say is owed is never negative.                           *)
LEMMA RestsNatural == IInv /\ ChecksDecideRightly => SumSeq(Rest, lockups) \in Nat
<1> SUFFICES ASSUME IInv, ChecksDecideRightly PROVE SumSeq(Rest, lockups) \in Nat
  OBVIOUS
<1> DEFINE rest == [i \in 1..Len(lockups) |-> Rest[lockups[i]]]
<1>1. ASSUME NEW i \in 1..Len(lockups) PROVE rest[i] \in Nat
  <2>1. /\ lockups[i] \in LockupType /\ Increasing(lockups[i].schedule)
        /\ lockups[i].claimed_balance <= total_balance(lockups[i].schedule)
    BY LedgerFacts DEF Indices, IInv, SoundLockup
  <2>2. /\ rest[i] = total_balance(lockups[i].schedule) - lockups[i].claimed_balance
        /\ total_balance(lockups[i].schedule) \in Nat /\ lockups[i].claimed_balance \in Nat
    BY <2>1, RestOf
  <2> HIDE DEF rest
  <2> QED
    BY <2>1, <2>2
<1>2. Len(lockups) \in Nat
  BY LedgerFacts
<1> HIDE DEF rest
<1>3. SumTo(rest, Len(lockups)) \in Nat
  BY <1>1, <1>2, SumOfNaturals
<1> QED
  BY <1>3 DEF SumSeq, rest

LEMMA BookedNatural == IInv /\ ChecksDecideRightly => Booked \in Nat
<1> SUFFICES ASSUME IInv, ChecksDecideRightly PROVE Booked \in Nat
  OBVIOUS
<1>1. SumSeq(Rest, lockups) \in Nat
  BY RestsNatural
<1>2. SumSeq(ToSend, promises) \in Nat
  BY LedgerFacts
<1> QED
  BY <1>1, <1>2 DEF Booked

LEMMA BookedInteger == IInv => Booked \in Int
BY LedgerFacts DEF Booked

-----------------------------------------------------------------------------
(* The inductive invariant of the books.                                   *)
Books == IInv /\ Ledger /\ custody = Booked

LEMMA BooksNext == Books /\ [Next]_vars => Books'
<1> SUFFICES ASSUME Books, [Next]_vars PROVE Books'
  OBVIOUS
<1>1. IInv /\ Ledger /\ custody = Booked
  BY DEF Books
<1>2. IInv' /\ Ledger' /\ Balanced
  BY <1>1, InvNext, LedgerNext
<1>3. Booked \in Int /\ custody \in Nat /\ custody' \in Nat
  BY <1>1, <1>2, BookedInteger DEF IInv, TypeOK
<1>4. (Booked \in Int)'
  BY <1>2, BookedInteger, PTL
<1>5. custody' = Booked'
  BY <1>1, <1>2, <1>3, <1>4 DEF Balanced
<1> QED
  BY <1>2, <1>5 DEF Books

LEMMA BooksInvariance == Spec => []Books
<1>1. Init => Books
  BY InvInit, LedgerInit DEF Books
<1> QED
  BY <1>1, BooksNext, PTL DEF Spec

(* The contract always holds exactly what its lockups still owe plus the   *)
(* transfers that have not left, however claims, terminations, failed      *)
(* transfers and refund lockups interleave (lib.rs:153-279,                *)
(* callbacks.rs:26-117).                                                   *)
THEOREM TokensConserved == Spec => []Conservation
<1>1. Books => Conservation
  BY BookedIs DEF Books, Booked, Conservation
<1> QED
  BY <1>1, BooksInvariance, PTL

(* What follows from the ledger, whatever else the contract may hold.      *)
LEMMA LedgerAgrees == IInv /\ Ledger => IndexerAgrees
<1> SUFFICES ASSUME IInv, Ledger, NEW i \in Indices
             PROVE  /\ indexer[i].claimed + InFlight(i) = lockups[i].claimed_balance
                    /\ total_balance(indexer[i].lockup.schedule) - indexer[i].unvested
                         = total_balance(lockups[i].schedule)
  BY DEF IndexerAgrees
<1>1. Announced(lockups[i], indexer[i], SumSeq(TakenFrom(i), promises))
  BY DEF Ledger
<1>2. InFlight(i) = SumSeq(TakenFrom(i), promises)
  BY LedgerFacts, InFlightIs DEF IInv
<1> QED
  BY <1>1, <1>2 DEF Announced

(* Neither the token contract nor the callback of a failed claim finds too *)
(* little.                                                                 *)
TransfersCovered ==
  \A k \in 1..Len(promises) :
    /\ promises[k].status = "pending" => promises[k].amount <= custody
    /\ promises[k].status = "failed" =>
         \A i \in Indices : promises[k].claims[i].claim_amount <= lockups[i].claimed_balance

RefundsCovered ==
  \A k \in 1..Len(promises) :
    promises[k].status = "failed" =>
      \A i \in Indices : promises[k].claims[i].claim_amount <= lockups[i].claimed_balance

LEMMA LedgerRefunds == IInv /\ Ledger => RefundsCovered
BY ClaimsTaken DEF RefundsCovered

LEMMA LedgerLists == ChecksDecideRightly /\ Ledger => ListedAreOwnAndNotEmpty
BY DEF Ledger, ListedRightly, NotEmptied, ListedAreOwnAndNotEmpty

LEMMA LedgerCovers ==
  ChecksDecideRightly /\ IInv /\ Ledger /\ Booked <= custody => TransfersCovered
<1> SUFFICES ASSUME ChecksDecideRightly, IInv, Ledger, Booked <= custody, NEW k \in 1..Len(promises)
             PROVE  /\ promises[k].status = "pending" => promises[k].amount <= custody
                    /\ promises[k].status = "failed" =>
                         \A i \in Indices :
                           promises[k].claims[i].claim_amount <= lockups[i].claimed_balance
  BY DEF TransfersCovered
<1>1. SumSeq(Rest, lockups) + SumSeq(ToSend, promises) <= custody /\ custody \in Nat
  BY DEF Booked, IInv, TypeOK
<1>2. /\ promises \in Seq(Promise) /\ promises[k] \in Promise
      /\ SumSeq(ToSend, promises) \in Nat /\ Len(lockups) \in Nat
  BY LedgerFacts
<1>3. SumSeq(Rest, lockups) \in Nat
  BY RestsNatural
<1>4. ToSend[promises[k]] <= SumSeq(ToSend, promises) /\ ToSend[promises[k]] \in Nat
  BY <1>2, Weights, SumSeqCovers
<1>5. promises[k].status = "pending" => promises[k].amount <= custody
  <2>1. promises[k].status = "pending" => ToSend[promises[k]] = promises[k].amount
    BY <1>2 DEF ToSend
  <2>2. ToSend[promises[k]] <= custody
    BY <1>1, <1>2, <1>3, <1>4
  <2> QED
    BY <2>1, <2>2
<1> QED
  BY <1>5, ClaimsTaken

(* What the events say of a lockup, with what is in flight, is what its    *)
(* record says (callbacks.rs:43-56, lib.rs:256, event.rs).                 *)
THEOREM EventsAgree == Spec => []IndexerAgrees
<1>1. Books => IndexerAgrees
  BY LedgerAgrees DEF Books
<1> QED
  BY <1>1, BooksInvariance, PTL

(* The index of an account lists only lockups of that account, also after  *)
(* a callback has listed lockups again (lib.rs:249, callbacks.rs:58-70),   *)
(* and of those no termination has touched none that is empty.             *)
THEOREM ListedOwn == Spec => []ListedRightly
<1>1. Books => ListedRightly
  BY DEF Books, Ledger
<1> QED
  BY <1>1, BooksInvariance, PTL

(* Nor does it list one that a termination has emptied, as long as vesting *)
(* schedules that the contract accepts are ahead: one that is not can take *)
(* the claim in flight with it (schedule.rs:80-97).                        *)
THEOREM ListedSound ==
  ASSUME ChecksDecideRightly
  PROVE  Spec => []ListedAreOwnAndNotEmpty
<1>1. Books => ListedAreOwnAndNotEmpty
  BY LedgerLists DEF Books
<1> QED
  BY <1>1, BooksInvariance, PTL

(* Taking a failed claim back never underflows (callbacks.rs:60-66).       *)
THEOREM NoRefundStuck == Spec => []RefundsCovered
<1>1. Books => RefundsCovered
  BY LedgerRefunds DEF Books
<1> QED
  BY <1>1, BooksInvariance, PTL

(* A pending transfer is always covered by what the contract holds, so     *)
(* that no claim is left neither paid nor returned by a panic, as long as  *)
(* vesting schedules that the contract accepts are ahead.                  *)
THEOREM NoTransferStuck ==
  ASSUME ChecksDecideRightly
  PROVE  Spec => []TransfersCovered
<1>1. Books => TransfersCovered
  <2> SUFFICES ASSUME Books PROVE TransfersCovered
    OBVIOUS
  <2>1. IInv /\ Ledger /\ custody = Booked
    BY DEF Books
  <2>2. Booked \in Int
    BY <2>1, BookedInteger
  <2>3. Booked <= custody
    BY <2>1, <2>2
  <2> QED
    BY <2>1, <2>3, LedgerCovers
<1> QED
  BY <1>1, BooksInvariance, PTL

-----------------------------------------------------------------------------
(* Which lockups are listed: one is only unlisted when nothing is left of  *)
(* it, and nothing is left of one that a claim in flight will unlist.      *)
Spent(l) == l.claimed_balance >= total_balance(l.schedule)

InFlightClaim(p) == p.kind = "claim" /\ p.status # "settled"

FinalIsSpent(p, ls) ==
  InFlightClaim(p) => \A i \in 1..MaxLockups : p.claims[i].is_final =>
                        p.claims[i].claim_amount > 0 /\ Spent(ls[i])

Listing ==
  /\ \A i \in Indices :
       i \notin account_lockups[lockups[i].account_id] => Spent(lockups[i])
  /\ \A k \in 1..Len(promises) : FinalIsSpent(promises[k], lockups)

(* A failed claim takes back nothing from a lockup that another claim in   *)
(* flight will unlist.                                                     *)
RefundsNoFinal ==
  \A k, j \in 1..Len(promises) :
    AfterFtTransferFailed(k) /\ j # k /\ InFlightClaim(promises[j]) =>
      \A i \in 1..MaxLockups :
        promises[j].claims[i].is_final => promises[k].claims[i].claim_amount = 0

(* Lockups of ls that are spent are spent in ms.                           *)
SpentStays(ls, ms) == \A i \in 1..Len(ls) : Spent(ls[i]) => Spent(ms[i])

LEMMA FinalsKept ==
  ASSUME NEW ls, NEW ms, SpentStays(ls, ms), NEW p, InOrder(p, ls), FinalIsSpent(p, ls),
         NEW q, q.kind = p.kind, q.claims = p.claims, InFlightClaim(q) => InFlightClaim(p)
  PROVE  FinalIsSpent(q, ms)
BY DEF SpentStays, InOrder, FinalIsSpent, InFlightClaim

(* A transfer that is not settled goes on; the lockups stay spent.         *)
LEMMA ListingStatus ==
  ASSUME IInv, Ledger, Listing, NEW k \in 1..Len(promises), promises[k].status # "settled",
         NEW st \in Statuses, promises' = WithStatus(promises, k, st),
         SpentStays(lockups, lockups')
  PROVE  \A j \in 1..Len(promises') : FinalIsSpent(promises'[j], lockups')
<1> DEFINE p == promises[k]
           q == InStatus(p, st)
<1>1. promises \in Seq(Promise) /\ q = InStatus(promises[k], st)
  BY LedgerFacts
<1> HIDE DEF q
<1>2. /\ Len(promises') = Len(promises)
      /\ \A j \in 1..Len(promises) : promises'[j] = IF j = k THEN q ELSE promises[j]
      /\ q.kind = promises[k].kind /\ q.claims = promises[k].claims
  BY <1>1, StatusChanged
<1>3. InFlightClaim(q) => InFlightClaim(promises[k])
  BY <1>2 DEF InFlightClaim
<1>4. /\ \A j \in 1..Len(promises) : InOrder(promises[j], lockups)
      /\ \A j \in 1..Len(promises) : FinalIsSpent(promises[j], lockups)
  BY DEF Ledger, Listing
<1>5. FinalIsSpent(q, lockups')
  BY <1>2, <1>3, <1>4, FinalsKept
<1>6. \A j \in 1..Len(promises) : FinalIsSpent(promises[j], lockups')
  <2> SUFFICES ASSUME NEW j \in 1..Len(promises) PROVE FinalIsSpent(promises[j], lockups')
    OBVIOUS
  <2> QED
    BY <1>4, FinalsKept
<1> QED
  BY <1>2, <1>5, <1>6

LEMMA ListingFtTransfer ==
  ASSUME IInv, Ledger, Listing, NEW k \in 1..Len(promises), FtTransfer(k)
  PROVE  Listing'
<1>1. PICK st \in {"transferred", "failed"} : promises' = WithStatus(promises, k, st)
  BY DEF FtTransfer, WithStatus
<1>2. /\ promises[k].status = "pending" /\ st \in Statuses
      /\ UNCHANGED <<lockups, account_lockups>>
  BY <1>1 DEF FtTransfer, Statuses
<1>3. SpentStays(lockups, lockups')
  BY <1>2 DEF SpentStays
<1>4. \A j \in 1..Len(promises') : FinalIsSpent(promises'[j], lockups')
  BY <1>1, <1>2, <1>3, ListingStatus
<1> QED
  BY <1>2, <1>4 DEF Listing, Indices

LEMMA ListingAfterFtTransferOk ==
  ASSUME IInv, Ledger, Listing, NEW k \in 1..Len(promises), AfterFtTransferOk(k)
  PROVE  Listing'
<1> DEFINE p == promises[k]
<1>1. /\ p.status = "transferred" /\ p.kind = "claim" /\ "settled" \in Statuses
      /\ promises' = WithStatus(promises, k, "settled")
      /\ account_lockups' = [account_lockups EXCEPT ![p.account_id] =
                               @ \ { i \in Indices : p.claims[i].is_final }]
      /\ lockups' = lockups
  BY DEF AfterFtTransferOk, WithStatus, Statuses
<1>2. SpentStays(lockups, lockups')
  BY <1>1 DEF SpentStays
<1>3. \A j \in 1..Len(promises') : FinalIsSpent(promises'[j], lockups')
  BY <1>1, <1>2, ListingStatus
<1>4. ASSUME NEW i \in Indices, i \notin account_lockups'[lockups[i].account_id]
      PROVE  Spent(lockups[i])
  <2>1. /\ account_lockups \in [Accounts -> SUBSET Indices]
        /\ lockups[i].account_id \in Accounts /\ i \in 1..MaxLockups
    BY LedgerFacts, LockupFields DEF IInv, TypeOK
  <2>2. CASE i \notin account_lockups[lockups[i].account_id]
    BY <2>2 DEF Listing
  <2>3. CASE i \in account_lockups[lockups[i].account_id]
    <3>1. p.claims[i].is_final
      BY <1>1, <1>4, <2>1, <2>3
    <3>2. FinalIsSpent(p, lockups)
      BY DEF Listing
    <3> QED
      BY <1>1, <2>1, <3>1, <3>2 DEF FinalIsSpent, InFlightClaim
  <2> QED
    BY <2>2, <2>3
<1> QED
  BY <1>1, <1>3, <1>4 DEF Listing, Indices

LEMMA ListingAfterFtTransferFailed ==
  ASSUME IInv, Ledger, Listing, NEW k \in 1..Len(promises), AfterFtTransferFailed(k),
         RefundsNoFinal
  PROVE  Listing'
<1> DEFINE p == promises[k]
           q == InStatus(p, "settled")
           c(i) == p.claims[i].claim_amount
<1>1. /\ p.kind = "claim" /\ p.status = "failed" /\ "settled" \in Statuses
      /\ promises' = WithStatus(promises, k, "settled")
      /\ account_lockups' = [account_lockups EXCEPT ![p.account_id] =
                               @ \cup { i \in Indices : c(i) > 0 }]
      /\ lockups' = [i \in Indices |-> [lockups[i] EXCEPT !.claimed_balance = @ - c(i)]]
  BY DEF AfterFtTransferFailed, WithStatus, Statuses
<1>2. /\ promises \in Seq(Promise) /\ p \in Promise /\ q = InStatus(promises[k], "settled")
      /\ p = promises[k] /\ Len(lockups) \in Nat
      /\ account_lockups \in [Accounts -> SUBSET Indices]
  BY LedgerFacts DEF IInv, TypeOK
<1>3. ASSUME NEW i \in Indices
      PROVE  /\ c(i) \in Nat
             /\ lockups'[i].account_id = lockups[i].account_id
             /\ lockups[i].account_id \in Accounts
             /\ c(i) = 0 /\ Spent(lockups[i]) => Spent(lockups'[i])
  <2>1. c(i) \in Nat /\ lockups[i] \in LockupType /\ lockups[i].claimed_balance \in Nat
    BY <1>1, ClaimsTaken, LedgerFacts, LockupFields
  <2>2. /\ lockups'[i].account_id = lockups[i].account_id
        /\ lockups'[i].schedule = lockups[i].schedule
        /\ lockups'[i].claimed_balance = lockups[i].claimed_balance - c(i)
    BY <1>1, <2>1 DEF LockupType
  <2> HIDE DEF c
  <2> QED
    BY <2>1, <2>2, LockupFields DEF Spent
<1>4. Len(lockups') = Len(lockups)
  BY <1>1, <1>2 DEF Indices
<1> HIDE DEF p, q, c
<1>5. /\ Len(promises') = Len(promises) /\ q.status = "settled"
      /\ \A j \in 1..Len(promises) : promises'[j] = IF j = k THEN q ELSE promises[j]
      /\ q.kind = p.kind /\ q.claims = p.claims /\ q.account_id = p.account_id
  BY <1>1, <1>2, StatusChanged
<1>6. ASSUME NEW j \in 1..Len(promises), j # k
      PROVE  FinalIsSpent(promises[j], lockups')
  <2> DEFINE r == promises[j]
  <2> SUFFICES ASSUME InFlightClaim(r), NEW i \in 1..MaxLockups, r.claims[i].is_final
               PROVE  r.claims[i].claim_amount > 0 /\ Spent(lockups'[i])
    BY DEF FinalIsSpent
  <2>1. r.claims[i].claim_amount > 0 /\ Spent(lockups[i])
    BY DEF Listing, FinalIsSpent
  <2>2. i \in Indices
    BY <2>1 DEF Ledger, InOrder, Indices
  <2>3. c(i) = 0
    BY <1>2, <1>6 DEF RefundsNoFinal, c
  <2> QED
    BY <1>3, <2>1, <2>2, <2>3
<1>7. ~ InFlightClaim(q)
  BY <1>5 DEF InFlightClaim
<1>8. \A j \in 1..Len(promises') : FinalIsSpent(promises'[j], lockups')
  BY <1>5, <1>6, <1>7 DEF FinalIsSpent
<1>9. ASSUME NEW i \in Indices, i \notin account_lockups'[lockups'[i].account_id]
      PROVE  Spent(lockups'[i])
  <2>1. c(i) = 0
    <3> SUFFICES ASSUME c(i) > 0 PROVE FALSE
      BY <1>3
    <3>1. i \in 1..MaxLockups /\ InOrder(p, lockups)
      BY <1>2, LedgerFacts DEF Ledger
    <3>2. lockups[i].account_id = p.account_id
      BY <3>1 DEF InOrder, c
    <3> QED
      BY <1>1, <1>2, <1>3, <1>9, <3>2
  <2>2. i \notin account_lockups[lockups[i].account_id]
    BY <1>1, <1>2, <1>3, <1>9
  <2> QED
    BY <1>3, <2>1, <2>2 DEF Listing
<1> QED
  BY <1>4, <1>8, <1>9 DEF Listing, Indices

(* A lockup is pushed and listed; the transfers do not change, or one that *)
(* was not a claim does.                                                   *)
LEMMA ListingCreated ==
  ASSUME IInv, Ledger, Listing, Len(lockups) < MaxLockups, NEW l \in LockupType,
         internal_add_lockup(l),
         SpentStays(lockups, lockups') =>
           \A j \in 1..Len(promises') : FinalIsSpent(promises'[j], lockups')
  PROVE  Listing'
<1> DEFINE n == Len(lockups)
<1>1. /\ lockups \in Seq(LockupType) /\ n \in Nat
      /\ account_lockups \in [Accounts -> SUBSET Indices] /\ l.account_id \in Accounts
      /\ \A i \in Indices : lockups[i].account_id \in Accounts
  BY LedgerFacts, LockupFields DEF IInv, TypeOK
<1>2. /\ lockups' = Append(lockups, l)
      /\ account_lockups' = [account_lockups EXCEPT ![l.account_id] = @ \cup {n + 1}]
  BY DEF internal_add_lockup
<1>3. /\ Len(lockups') = n + 1
      /\ \A i \in 1..n : lockups'[i] = lockups[i]
      /\ lockups'[n + 1] = l
  BY <1>1, <1>2, AppendProperties
<1>4. SpentStays(lockups, lockups')
  BY <1>3 DEF SpentStays
<1>5. ASSUME NEW i \in 1..(n + 1), i \notin account_lockups'[lockups'[i].account_id]
      PROVE  Spent(lockups'[i])
  <2>1. i # n + 1
    BY <1>1, <1>2, <1>3, <1>5
  <2>2. i \in 1..n /\ i \in Indices
    BY <1>1, <2>1 DEF Indices
  <2>3. i \notin account_lockups[lockups[i].account_id]
    BY <1>1, <1>2, <1>3, <1>5, <2>2
  <2> QED
    BY <1>3, <2>2, <2>3 DEF Listing
<1> QED
  BY <1>3, <1>4, <1>5 DEF Listing, Indices

LEMMA ListingFtOnTransfer ==
  ASSUME IInv, Ledger, Listing, NEW sender_id \in Accounts, NEW amount \in Deposits,
         NEW c \in LockupCreates, FtOnTransfer(sender_id, amount, c)
  PROVE  Listing'
<1> DEFINE l == into_lockup(c, sender_id)
<1>1. amount \in Nat /\ now \in Nat /\ TypeOK
  BY AmountsAssumption, TypeFacts DEF IInv
<1>2. l \in LockupType
  BY <1>1, SoundCreate DEF FtOnTransfer
<1>3. Len(lockups) < MaxLockups
  BY <1>1, RoomBound DEF FtOnTransfer
<1>4. internal_add_lockup(l) /\ promises' = promises
  BY DEF FtOnTransfer
<1> HIDE DEF l
<1>5. SpentStays(lockups, lockups') =>
        \A j \in 1..Len(promises') : FinalIsSpent(promises'[j], lockups')
  <2> SUFFICES ASSUME SpentStays(lockups, lockups'), NEW j \in 1..Len(promises)
               PROVE  FinalIsSpent(promises[j], lockups')
    BY <1>4 DEF Listing
  <2>1. InOrder(promises[j], lockups) /\ FinalIsSpent(promises[j], lockups)
    BY DEF Ledger, Listing
  <2> QED
    BY <2>1, FinalsKept
<1> QED
  BY <1>2, <1>3, <1>4, <1>5, ListingCreated

LEMMA ListingAfterLockupTermination ==
  ASSUME IInv, Ledger, Listing, NEW k \in 1..Len(promises), AfterLockupTermination(k)
  PROVE  Listing'
<1> DEFINE p == promises[k]
           l == new_lockup_unlocked_since(p.account_id, p.amount, now)
<1>1. /\ p.status # "settled" /\ "settled" \in Statuses
      /\ promises' = WithStatus(promises, k, "settled")
      /\ \/ UNCHANGED <<lockups, account_lockups>>
         \/ Len(lockups) < MaxLockups /\ internal_add_lockup(l)
  BY DEF AfterLockupTermination, WithStatus, Statuses
<1>2. l \in LockupType
  <2>1. p.account_id \in Accounts /\ p.amount \in Nat /\ now \in 1..MaxTime
    BY LedgerFacts DEF Promise, IInv, TypeOK
  <2> QED
    BY <2>1, SoundRefundLockup
<1> HIDE DEF l
<1>3. SpentStays(lockups, lockups') =>
        \A j \in 1..Len(promises') : FinalIsSpent(promises'[j], lockups')
  BY <1>1, ListingStatus
<1>4. CASE UNCHANGED <<lockups, account_lockups>>
  <2>1. SpentStays(lockups, lockups')
    BY <1>4 DEF SpentStays
  <2> QED
    BY <1>3, <1>4, <2>1 DEF Listing, Indices
<1>5. CASE Len(lockups) < MaxLockups /\ internal_add_lockup(l)
  BY <1>2, <1>3, <1>5, ListingCreated
<1> QED
  BY <1>1, <1>4, <1>5

LEMMA ListingClaim ==
  ASSUME IInv, Ledger, Listing,
         NEW a \in Accounts, NEW amounts \in AmountRequests(a), Claim(a, amounts)
  PROVE  Listing'
<1> DEFINE r == Requested(amounts)
           total == SumTo(r, Len(lockups))
           claim(i) == [claim_amount |-> r[i], is_final |-> r[i] > 0 /\ is_final(lockups[i], r[i])]
           claims == [i \in 1..MaxLockups |-> IF i \in Indices THEN claim(i) ELSE NoClaims[i]]
           p == [kind |-> "claim", account_id |-> a, amount |-> total, status |-> "pending",
                 claims |-> claims]
<1>1. /\ lockups' = [i \in Indices |-> [lockups[i] EXCEPT !.claimed_balance = @ + r[i]]]
      /\ promises' = Append(promises, p)
      /\ account_lockups' = account_lockups
  BY DEF Claim, Requested
<1>2. \A i \in Indices : r[i] \in Nat
  BY RequestedAmounts
<1> HIDE DEF r
<1>3. /\ promises \in Seq(Promise) /\ Len(promises) \in Nat /\ Len(lockups) \in Nat
  BY LedgerFacts
<1>4. Len(lockups') = Len(lockups)
  BY <1>1, <1>3 DEF Indices
<1>5. ASSUME NEW i \in Indices
      PROVE  /\ lockups'[i].account_id = lockups[i].account_id
             /\ lockups'[i].schedule = lockups[i].schedule
             /\ lockups'[i].claimed_balance = lockups[i].claimed_balance + r[i]
             /\ lockups[i].claimed_balance \in Nat /\ r[i] \in Nat
             /\ total_balance(lockups[i].schedule) \in Nat
  <2>1. /\ lockups[i] \in LockupType /\ Increasing(lockups[i].schedule) /\ r[i] \in Nat
    BY <1>2, LedgerFacts
  <2>2. lockups[i].claimed_balance \in Nat /\ total_balance(lockups[i].schedule) \in Nat
    BY <2>1, RestOf
  <2>3. /\ lockups'[i].account_id = lockups[i].account_id
        /\ lockups'[i].schedule = lockups[i].schedule
        /\ lockups'[i].claimed_balance = lockups[i].claimed_balance + r[i]
    BY <1>1, <2>1 DEF LockupType
  <2> QED
    BY <2>1, <2>2, <2>3
<1>6. SpentStays(lockups, lockups')
  <2> SUFFICES ASSUME NEW i \in Indices, Spent(lockups[i]) PROVE Spent(lockups'[i])
    BY DEF SpentStays, Indices
  <2> QED
    BY <1>5 DEF Spent
<1>7. /\ p.account_id = a /\ p.kind = "claim" /\ p.claims = claims
  OBVIOUS
<1>8. FinalIsSpent(p, lockups')
  <2> SUFFICES ASSUME NEW i \in 1..MaxLockups, claims[i].is_final
               PROVE  claims[i].claim_amount > 0 /\ Spent(lockups'[i])
    BY <1>7 DEF FinalIsSpent
  <2>1. i \in Indices
    BY DEF NoClaims
  <2>2. claims[i].claim_amount = r[i] /\ r[i] > 0 /\ is_final(lockups[i], r[i])
    BY <2>1
  <2> QED
    BY <1>5, <2>1, <2>2 DEF is_final, Spent
<1> HIDE DEF p, claims
<1>9. /\ Len(promises') = Len(promises) + 1
      /\ \A k \in 1..Len(promises) : promises'[k] = promises[k]
      /\ promises'[Len(promises) + 1] = p
  BY <1>1, <1>3, AppendProperties
<1>10. ASSUME NEW k \in 1..Len(promises) PROVE FinalIsSpent(promises[k], lockups')
  <2>1. InOrder(promises[k], lockups) /\ FinalIsSpent(promises[k], lockups)
    BY DEF Ledger, Listing
  <2> QED
    BY <1>6, <2>1, FinalsKept
<1>11. \A k \in 1..Len(promises') : FinalIsSpent(promises'[k], lockups')
  <2>1. \A k \in 1..Len(promises') : k \in 1..Len(promises) \/ k = Len(promises) + 1
    BY <1>3, <1>9
  <2> QED
    BY <1>8, <1>9, <1>10, <2>1
<1>12. ASSUME NEW i \in Indices, i \notin account_lockups[lockups[i].account_id]
       PROVE  Spent(lockups'[i])
  BY <1>6, <1>12 DEF Listing, SpentStays, Indices
<1> QED
  BY <1>1, <1>4, <1>5, <1>11, <1>12 DEF Listing, Indices

LEMMA ListingTerminate ==
  ASSUME IInv, Ledger, Listing, NEW caller \in Accounts, NEW i \in Indices, NEW h,
         NEW f \in 1..MaxTime, Terminate(caller, i, h, f)
  PROVE  Listing'
<1> DEFINE l == lockups[i]
           n == terminate_lockup(l, f)
           unvested == unvested_balance(l, f)
           p == [kind |-> "termination", amount |-> unvested, status |-> "pending",
                 claims |-> NoClaims, account_id |-> l.termination_config.beneficiary_id]
<1>1. /\ now <= f
      /\ can_terminate(l, h)
      /\ account_lockups' = IF total_balance(n.schedule) = 0
                            THEN [account_lockups EXCEPT ![n.account_id] = @ \ {i}]
                            ELSE account_lockups
      /\ lockups' = [lockups EXCEPT ![i] = n]
      /\ promises' = promises \/ promises' = Append(promises, p)
  BY TypeFacts DEF Terminate, IInv
<1>2. /\ lockups \in Seq(Readable) /\ promises \in Seq(Promise) /\ Len(promises) \in Nat
      /\ Len(lockups) \in Nat /\ i \in 1..Len(lockups) /\ l \in LockupType /\ l \in Readable
      /\ account_lockups \in [Accounts -> SUBSET Indices]
      /\ \A j \in Indices : lockups[j].account_id \in Accounts
  BY LedgerFacts, LockupFields DEF IInv, TypeOK, Indices
<1>3. /\ n \in Readable
      /\ n.account_id = l.account_id
      /\ n.claimed_balance = l.claimed_balance
      /\ unvested \in Nat
      /\ total_balance(n.schedule) = total_balance(l.schedule) - unvested
      /\ total_balance(n.schedule) \in Nat
  <2>1. now \in 1..MaxTime /\ indexer[i].lockup \in LockupType /\ SoundLockup(l, indexer[i].lockup, now)
    BY TypeFacts DEF IInv
  <2>2. can_terminate(l, h) /\ now <= f /\ l \in LockupType
    BY <1>1, <1>2
  <2> HIDE DEF l
  <2> QED
    BY <2>1, <2>2, TerminatedRecord
<1>4. l.claimed_balance \in Nat /\ total_balance(l.schedule) \in Nat
  BY <1>2, RestOf DEF Readable
<1>5. p.kind # "claim"
  OBVIOUS
<1> HIDE DEF n, unvested, p, l
<1>6. /\ Len(lockups') = Len(lockups)
      /\ \A j \in 1..Len(lockups) : lockups'[j] = IF j = i THEN n ELSE lockups[j]
  BY <1>1, <1>2, <1>3, ExceptSeq
<1>7. Spent(l) => Spent(n)
  BY <1>3, <1>4 DEF Spent
<1>8. SpentStays(lockups, lockups')
  BY <1>6, <1>7 DEF SpentStays, l
<1>9. ASSUME NEW j \in Indices, j \notin account_lockups'[lockups'[j].account_id]
      PROVE  Spent(lockups'[j])
  <2>1. j \in 1..Len(lockups) /\ lockups'[j].account_id = lockups[j].account_id
    BY <1>3, <1>6 DEF Indices, l
  <2>2. CASE j \notin account_lockups[lockups[j].account_id]
    BY <1>8, <2>1, <2>2 DEF Listing, SpentStays
  <2>3. CASE j \in account_lockups[lockups[j].account_id]
    <3>1. j = i /\ total_balance(n.schedule) = 0
      BY <1>1, <1>2, <1>9, <2>1, <2>3
    <3>2. Spent(n)
      BY <1>3, <1>4, <3>1 DEF Spent
    <3> QED
      BY <1>6, <2>1, <3>1, <3>2
  <2> QED
    BY <2>2, <2>3
<1>10. ASSUME NEW k \in 1..Len(promises) PROVE FinalIsSpent(promises[k], lockups')
  <2>1. InOrder(promises[k], lockups) /\ FinalIsSpent(promises[k], lockups)
    BY DEF Ledger, Listing
  <2> QED
    BY <1>8, <2>1, FinalsKept
<1>11. \A k \in 1..Len(promises') : FinalIsSpent(promises'[k], lockups')
  <2>1. CASE promises' = promises
    BY <1>10, <2>1
  <2>2. CASE promises' = Append(promises, p)
    <3>1. /\ Len(promises') = Len(promises) + 1
          /\ \A k \in 1..Len(promises) : promises'[k] = promises[k]
          /\ promises'[Len(promises) + 1] = p
      BY <1>2, <2>2, AppendProperties
    <3>2. ~ InFlightClaim(p)
      BY <1>5 DEF InFlightClaim
    <3>3. FinalIsSpent(p, lockups')
      BY <3>2 DEF FinalIsSpent
    <3>4. \A k \in 1..Len(promises') : k \in 1..Len(promises) \/ k = Len(promises) + 1
      BY <1>2, <3>1
    <3> QED
      BY <1>10, <3>1, <3>3, <3>4
  <2> QED
    BY <1>1, <2>1, <2>2
<1> QED
  BY <1>6, <1>9, <1>11 DEF Listing, Indices

LEMMA ListingUntouched ==
  ASSUME Listing, UNCHANGED <<lockups, account_lockups, promises>>
  PROVE  Listing'
BY DEF Listing, Indices

LEMMA ListingNext ==
  ASSUME IInv, Ledger, Listing, RefundsNoFinal, [Next]_vars
  PROVE  Listing'
<1>1. ASSUME NEW sender_id \in Accounts, NEW amount \in Deposits, NEW c \in LockupCreates,
             FtOnTransfer(sender_id, amount, c)
      PROVE  Listing'
  BY <1>1, ListingFtOnTransfer
<1>2. ASSUME NEW a \in Accounts, NEW amounts \in AmountRequests(a), Claim(a, amounts)
      PROVE  Listing'
  BY <1>2, InvClaim, ListingClaim
<1>3. ASSUME NEW caller \in Accounts, NEW i \in Indices, NEW h \in RevealedSchedules,
             NEW t \in 1..MaxTime, Terminate(caller, i, h, t)
      PROVE  Listing'
  BY <1>3, ListingTerminate
<1>4. ASSUME NEW k \in 1..Len(promises),
             \/ FtTransfer(k) \/ AfterFtTransferOk(k)
             \/ AfterFtTransferFailed(k) \/ AfterLockupTermination(k)
      PROVE  Listing'
  BY <1>4, ListingFtTransfer, ListingAfterFtTransferOk, ListingAfterFtTransferFailed,
     ListingAfterLockupTermination
<1>5. ASSUME NEW caller \in Accounts, NEW account_ids \in (SUBSET Operators) \ {{}},
             \/ AddToDepositWhitelist(caller, account_ids)
             \/ RemoveFromDepositWhitelist(caller, account_ids)
      PROVE  Listing'
  BY <1>5, ListingUntouched DEF AddToDepositWhitelist, RemoveFromDepositWhitelist
<1>6. CASE Tick
  BY <1>6, ListingUntouched DEF Tick
<1>7. CASE UNCHANGED vars
  BY <1>7, ListingUntouched DEF vars
<1> QED
  BY <1>1, <1>2, <1>3, <1>4, <1>5, <1>6, <1>7 DEF Next

LEMMA ListingInit == Init => Listing
<1> SUFFICES ASSUME Init PROVE Listing
  OBVIOUS
<1>1. Indices = {} /\ Len(promises) = 0
  BY DEF Init, Indices
<1> QED
  BY <1>1 DEF Listing

LEMMA ListingListed == IInv /\ Listing => UnclaimedIsListed
<1> SUFFICES ASSUME IInv, Listing, NEW i \in Indices, Locked(i) > 0
             PROVE  i \in account_lockups[lockups[i].account_id]
  BY DEF UnclaimedIsListed
<1>1. lockups[i] \in LockupType /\ Increasing(lockups[i].schedule)
  BY LedgerFacts
<1>2. /\ lockups[i].claimed_balance \in Nat
      /\ total_balance(lockups[i].schedule) \in Nat
  BY <1>1, RestOf
<1>3. ~ Spent(lockups[i])
  BY <1>2 DEF Locked, Spent
<1> QED
  BY <1>3 DEF Listing

(* Never does a failed claim take back from a lockup that another claim in *)
(* flight will unlist.                                                     *)
NoStaleRefund == [][RefundsNoFinal]_vars

(* A refund under a final claim in flight is the only way by which a       *)
(* lockup with tokens left is lost to its owner: as long as no claim fails *)
(* while another one that will unlist the same lockup is in flight, every  *)
(* such lockup is listed, however many claims are in flight at once        *)
(* (callbacks.rs:39-70, internal.rs:55).                                   *)
THEOREM OnlyStaleRefundsUnlist == Spec /\ NoStaleRefund => []UnclaimedIsListed
<1>1. Books /\ Listing /\ [Next]_vars /\ [RefundsNoFinal]_vars => Listing'
  <2> SUFFICES ASSUME Books, Listing, [Next]_vars, [RefundsNoFinal]_vars PROVE Listing'
    OBVIOUS
  <2>1. CASE RefundsNoFinal
    BY <2>1, ListingNext DEF Books
  <2>2. CASE UNCHANGED vars
    BY <2>2, ListingUntouched DEF vars
  <2> QED
    BY <2>1, <2>2
<1>2. Books /\ Listing => UnclaimedIsListed
  BY ListingListed DEF Books
<1> QED
  BY <1>1, <1>2, ListingInit, BooksInvariance, PTL DEF Spec, NoStaleRefund

-----------------------------------------------------------------------------
(* When an account may have one claim in flight only, there is no other    *)
(* claim that a failed one could take back from.                           *)
OneClaimEach ==
  \A j, k \in 1..Len(promises) :
    /\ InFlightClaim(promises[j]) /\ InFlightClaim(promises[k])
    /\ promises[j].account_id = promises[k].account_id
    => j = k

LEMMA OpenClaimsFinite ==
  ASSUME IInv, MaxOpenClaims <= 1, NEW a, Cardinality(OpenClaims(a)) < MaxOpenClaims
  PROVE  OpenClaims(a) = {}
<1>1. IsFiniteSet(1..Len(promises))
  BY LedgerFacts, FS_Interval
<1>2. IsFiniteSet(OpenClaims(a))
  BY <1>1, FS_Subset DEF OpenClaims
<1>3. Cardinality(OpenClaims(a)) \in Nat
  BY <1>2, FS_CardinalityType
<1>4. Cardinality(OpenClaims(a)) = 0
  BY <1>3, BoundsAssumption
<1> QED
  BY <1>2, <1>4, FS_EmptySet

LEMMA OneClaimStatus ==
  ASSUME IInv, OneClaimEach, NEW k \in 1..Len(promises), promises[k].status # "settled",
         NEW st \in Statuses, promises' = WithStatus(promises, k, st)
  PROVE  OneClaimEach'
<1> DEFINE q == InStatus(promises[k], st)
<1>1. promises \in Seq(Promise) /\ q = InStatus(promises[k], st)
  BY LedgerFacts
<1> HIDE DEF q
<1>2. /\ Len(promises') = Len(promises)
      /\ \A j \in 1..Len(promises) : promises'[j] = IF j = k THEN q ELSE promises[j]
      /\ q.kind = promises[k].kind /\ q.account_id = promises[k].account_id
  BY <1>1, StatusChanged
<1> QED
  BY <1>2 DEF OneClaimEach, InFlightClaim

LEMMA OneClaimStarted ==
  ASSUME IInv, OneClaimEach, NEW p, promises' = Append(promises, p),
         InFlightClaim(p) => OpenClaims(p.account_id) = {}
  PROVE  OneClaimEach'
<1>1. promises \in Seq(Promise) /\ Len(promises) \in Nat
  BY LedgerFacts
<1>2. /\ Len(promises') = Len(promises) + 1
      /\ \A k \in 1..Len(promises) : promises'[k] = promises[k]
      /\ promises'[Len(promises) + 1] = p
  BY <1>1, AppendProperties
<1>3. \A k \in 1..Len(promises) :
        InFlightClaim(promises[k]) /\ InFlightClaim(p) => promises[k].account_id # p.account_id
  BY DEF OpenClaims, InFlightClaim
<1>4. \A k \in 1..Len(promises') : k \in 1..Len(promises) \/ k = Len(promises) + 1
  BY <1>1, <1>2
<1> QED
  BY <1>2, <1>3, <1>4 DEF OneClaimEach

LEMMA OneClaimNext ==
  ASSUME IInv, MaxOpenClaims <= 1, OneClaimEach, [Next]_vars
  PROVE  OneClaimEach'
<1>1. ASSUME promises' = promises PROVE OneClaimEach'
  BY <1>1 DEF OneClaimEach
<1>2. ASSUME NEW a \in Accounts, NEW amounts \in AmountRequests(a), Claim(a, amounts)
      PROVE  OneClaimEach'
  <2>1. OpenClaims(a) = {}
    BY <1>2, OpenClaimsFinite DEF Claim
  <2> DEFINE requested == Requested(amounts)
             claim(i) == [claim_amount |-> requested[i],
                          is_final |-> requested[i] > 0 /\ is_final(lockups[i], requested[i])]
             claims == [i \in 1..MaxLockups |-> IF i \in Indices THEN claim(i) ELSE NoClaims[i]]
             p == [kind |-> "claim", account_id |-> a, amount |-> SumTo(requested, Len(lockups)),
                   status |-> "pending", claims |-> claims]
  <2>2. promises' = Append(promises, p)
    BY <1>2 DEF Claim, Requested
  <2>3. p.account_id = a
    OBVIOUS
  <2> HIDE DEF p
  <2> QED
    BY <2>1, <2>2, <2>3, OneClaimStarted
<1>3. ASSUME NEW caller \in Accounts, NEW i \in Indices, NEW h \in RevealedSchedules,
             NEW t \in 1..MaxTime, Terminate(caller, i, h, t)
      PROVE  OneClaimEach'
  <2>1. CASE promises' # promises
    <3>1. PICK p : promises' = Append(promises, p) /\ p.kind = "termination"
      BY <1>3, <2>1 DEF Terminate
    <3>2. ~ InFlightClaim(p)
      BY <3>1 DEF InFlightClaim
    <3> QED
      BY <3>1, <3>2, OneClaimStarted
  <2> QED
    BY <1>1, <2>1
<1>4. ASSUME NEW k \in 1..Len(promises), FtTransfer(k) PROVE OneClaimEach'
  <2>1. PICK st \in {"transferred", "failed"} : promises' = WithStatus(promises, k, st)
    BY <1>4 DEF FtTransfer, WithStatus
  <2>2. st \in Statuses /\ promises[k].status # "settled"
    BY <1>4 DEF FtTransfer, Statuses
  <2> QED
    BY <2>1, <2>2, OneClaimStatus
<1>5. ASSUME NEW k \in 1..Len(promises),
             AfterFtTransferOk(k) \/ AfterFtTransferFailed(k) \/ AfterLockupTermination(k)
      PROVE  OneClaimEach'
  <2>1. /\ promises' = WithStatus(promises, k, "settled") /\ "settled" \in Statuses
        /\ promises[k].status # "settled"
    BY <1>5 DEF AfterFtTransferOk, AfterFtTransferFailed, AfterLockupTermination, WithStatus, Statuses
  <2> QED
    BY <2>1, OneClaimStatus
<1>6. ASSUME \/ \E sender_id \in Accounts, amount \in Deposits, c \in LockupCreates :
                  FtOnTransfer(sender_id, amount, c)
             \/ \E caller \in Accounts, account_ids \in (SUBSET Operators) \ {{}} :
                  \/ AddToDepositWhitelist(caller, account_ids)
                  \/ RemoveFromDepositWhitelist(caller, account_ids)
             \/ Tick \/ UNCHANGED vars
      PROVE  promises' = promises
  BY <1>6 DEF FtOnTransfer, AddToDepositWhitelist, RemoveFromDepositWhitelist, Tick, vars
<1> QED
  BY <1>1, <1>2, <1>3, <1>4, <1>5, <1>6 DEF Next

(* Two claims that name one lockup are claims of one account.              *)
LEMMA OneClaimRefunds ==
  ASSUME IInv, Ledger, Listing, OneClaimEach
  PROVE  RefundsNoFinal
<1> SUFFICES ASSUME NEW k \in 1..Len(promises), NEW j \in 1..Len(promises),
                    AfterFtTransferFailed(k), j # k, InFlightClaim(promises[j]),
                    NEW i \in 1..MaxLockups, promises[j].claims[i].is_final
             PROVE  promises[k].claims[i].claim_amount = 0
  BY DEF RefundsNoFinal
<1>1. promises[j].claims[i].claim_amount > 0
  BY DEF Listing, FinalIsSpent
<1>2. promises[j].account_id = lockups[i].account_id
  BY <1>1 DEF Ledger, InOrder
<1>3. InFlightClaim(promises[k]) /\ promises[k].claims[i].claim_amount \in Nat
  BY LedgerFacts DEF AfterFtTransferFailed, InFlightClaim, Promise, LockupClaim
<1>4. promises[k].claims[i].claim_amount > 0 => promises[k].account_id = lockups[i].account_id
  BY DEF Ledger, InOrder
<1> QED
  BY <1>2, <1>3, <1>4 DEF OneClaimEach

(* When no account has two claims in flight, a lockup with tokens left and *)
(* no claim in flight is listed, so that its owner can claim them: after a *)
(* failed transfer it is listed again and after a paid one only an emptied *)
(* lockup is not (callbacks.rs:43-70, internal.rs:55).  With two claims in *)
(* flight it fails: the run MCLockupsStaleFinal shows how.                 *)
THEOREM LeftoversListed ==
  ASSUME MaxOpenClaims <= 1
  PROVE  Spec => []UnclaimedIsListed
<1>1. Init => OneClaimEach
  BY DEF Init, OneClaimEach
<1>2. Books /\ Listing /\ OneClaimEach /\ [Next]_vars => Listing' /\ OneClaimEach'
  BY ListingNext, OneClaimNext, OneClaimRefunds DEF Books
<1>3. Books /\ Listing => UnclaimedIsListed
  BY ListingListed DEF Books
<1> QED
  BY <1>1, <1>2, <1>3, ListingInit, BooksInvariance, PTL DEF Spec

-----------------------------------------------------------------------------
(* A lockup that claims have emptied has the claim that took the last of   *)
(* it still in flight, and that claim will unlist it.                      *)
UnlistedBy(ps, i) ==
  \E k \in 1..Len(ps) : /\ InFlightClaim(ps[k])
                        /\ ps[k].claims[i].is_final
                        /\ ps[k].claims[i].claim_amount > 0

ListedSpent(i) ==
  /\ i \in account_lockups[lockups[i].account_id]
  /\ Spent(lockups[i])
  /\ lockups[i].termination_config = indexer[i].lockup.termination_config

Outgoing == \A i \in Indices : ListedSpent(i) => UnlistedBy(promises, i)

LEMMA OutgoingKept ==
  ASSUME Outgoing, Len(lockups') = Len(lockups),
         \A i \in Indices : ListedSpent(i)' =>
           \/ ListedSpent(i) /\ (UnlistedBy(promises, i) => UnlistedBy(promises', i))
           \/ UnlistedBy(promises', i)
  PROVE  Outgoing'
BY DEF Outgoing, Indices

LEMMA OutgoingFtTransfer ==
  ASSUME IInv, Outgoing, NEW k \in 1..Len(promises), FtTransfer(k)
  PROVE  Outgoing'
<1>1. PICK st \in {"transferred", "failed"} : promises' = WithStatus(promises, k, st)
  BY DEF FtTransfer, WithStatus
<1>2. /\ promises[k].status = "pending" /\ st \in Statuses /\ st # "settled"
      /\ UNCHANGED <<lockups, account_lockups, indexer>>
  BY <1>1 DEF FtTransfer, Statuses
<1> DEFINE q == InStatus(promises[k], st)
<1>3. promises \in Seq(Promise) /\ q = InStatus(promises[k], st)
  BY LedgerFacts
<1> HIDE DEF q
<1>4. /\ Len(promises') = Len(promises) /\ q.status = st
      /\ \A j \in 1..Len(promises) : promises'[j] = IF j = k THEN q ELSE promises[j]
      /\ q.kind = promises[k].kind /\ q.claims = promises[k].claims
  BY <1>1, <1>2, <1>3, StatusChanged
<1>5. \A i \in Indices : UnlistedBy(promises, i) => UnlistedBy(promises', i)
  BY <1>2, <1>4 DEF UnlistedBy, InFlightClaim
<1> QED
  <2>1. \A i \in Indices : ListedSpent(i)' => ListedSpent(i)
    BY <1>2 DEF ListedSpent
  <2> QED
    BY <1>2, <1>5, <2>1, OutgoingKept

(* A transfer that names nothing of lockup i, or will not unlist it, is    *)
(* settled.                                                                *)
LEMMA UnlistedStill ==
  ASSUME IInv, NEW k \in 1..Len(promises), promises' = WithStatus(promises, k, "settled"), NEW i,
         \/ ~ InFlightClaim(promises[k])
         \/ ~ promises[k].claims[i].is_final
         \/ ~ (promises[k].claims[i].claim_amount > 0),
         UnlistedBy(promises, i)
  PROVE  UnlistedBy(promises', i)
<1> DEFINE q == InStatus(promises[k], "settled")
<1>1. /\ promises \in Seq(Promise) /\ q = InStatus(promises[k], "settled")
      /\ "settled" \in Statuses
  BY LedgerFacts DEF Statuses
<1> HIDE DEF q
<1>2. /\ Len(promises') = Len(promises)
      /\ \A j \in 1..Len(promises) : promises'[j] = IF j = k THEN q ELSE promises[j]
  BY <1>1, StatusChanged
<1> QED
  BY <1>2 DEF UnlistedBy

LEMMA OutgoingAfterFtTransferOk ==
  ASSUME IInv, Ledger, Outgoing, NEW k \in 1..Len(promises), AfterFtTransferOk(k)
  PROVE  Outgoing'
<1> DEFINE p == promises[k]
<1>1. /\ promises' = WithStatus(promises, k, "settled")
      /\ account_lockups' = [account_lockups EXCEPT ![p.account_id] =
                               @ \ { i \in Indices : p.claims[i].is_final }]
      /\ lockups' = lockups
      /\ indexer' = [i \in Indices |-> [indexer[i] EXCEPT !.claimed = @ + p.claims[i].claim_amount]]
  BY DEF AfterFtTransferOk, WithStatus
<1>2. /\ account_lockups \in [Accounts -> SUBSET Indices] /\ p.account_id \in Accounts
      /\ \A i \in Indices : i \in 1..MaxLockups
      /\ \A i \in Indices : indexer[i] \in [lockup : LockupType, claimed : Nat, unvested : Nat]
  BY LedgerFacts DEF IInv, TypeOK, Promise
<1>3. \A i \in Indices : indexer'[i].lockup = indexer[i].lockup
  BY <1>1, <1>2
<1>4. ASSUME NEW i \in Indices, ListedSpent(i)'
      PROVE  ListedSpent(i) /\ (UnlistedBy(promises, i) => UnlistedBy(promises', i))
  <2>1. /\ i \in account_lockups'[lockups[i].account_id]
        /\ ListedSpent(i)
    <3>1. /\ i \in account_lockups'[lockups[i].account_id] /\ Spent(lockups[i])
          /\ lockups[i].termination_config = indexer'[i].lockup.termination_config
      BY <1>1, <1>4 DEF ListedSpent
    <3>2. lockups[i].termination_config = indexer[i].lockup.termination_config
      BY <1>3, <3>1
    <3>3. account_lockups'[lockups[i].account_id] \subseteq account_lockups[lockups[i].account_id]
      <4>1. /\ lockups[i].account_id \in Accounts
            /\ account_lockups \in [Accounts -> SUBSET Indices]
        BY <1>2, LedgerFacts DEF LockupType
      <4> QED
        BY <1>1, <4>1
    <3> QED
      BY <3>1, <3>2, <3>3 DEF ListedSpent
  <2>2. CASE lockups[i].account_id = p.account_id
    <3>1. ~ p.claims[i].is_final
      BY <1>1, <1>2, <2>1, <2>2
    <3> QED
      BY <1>1, <2>1, <3>1, UnlistedStill
  <2>3. CASE lockups[i].account_id # p.account_id
    <3>1. ~ (p.claims[i].claim_amount > 0)
      BY <1>2, <2>3 DEF Ledger, InOrder
    <3> QED
      BY <1>1, <2>1, <3>1, UnlistedStill
  <2> QED
    BY <2>2, <2>3
<1> QED
  BY <1>1, <1>4, OutgoingKept

(* A failed claim leaves something in each lockup it names.                *)
LEMMA OutgoingAfterFtTransferFailed ==
  ASSUME IInv, Ledger, Outgoing, NEW k \in 1..Len(promises), AfterFtTransferFailed(k)
  PROVE  Outgoing'
<1> DEFINE p == promises[k]
           c(i) == p.claims[i].claim_amount
<1>1. /\ promises[k].status # "settled"
      /\ promises' = WithStatus(promises, k, "settled")
      /\ account_lockups' = [account_lockups EXCEPT ![p.account_id] =
                               @ \cup { i \in Indices : c(i) > 0 }]
      /\ lockups' = [i \in Indices |-> [lockups[i] EXCEPT !.claimed_balance = @ - c(i)]]
      /\ indexer' = indexer
  BY DEF AfterFtTransferFailed, WithStatus
<1>2. /\ account_lockups \in [Accounts -> SUBSET Indices] /\ Len(lockups) \in Nat
  BY LedgerFacts DEF IInv, TypeOK
<1>3. Len(lockups') = Len(lockups)
  BY <1>1, <1>2 DEF Indices
<1>4. ASSUME NEW i \in Indices, ListedSpent(i)'
      PROVE  ListedSpent(i) /\ (UnlistedBy(promises, i) => UnlistedBy(promises', i))
  <2>1. /\ c(i) \in Nat /\ c(i) <= lockups[i].claimed_balance
        /\ lockups[i] \in LockupType
        /\ lockups[i].claimed_balance \in Nat /\ total_balance(lockups[i].schedule) \in Nat
    BY <1>1, ClaimsTaken, LedgerFacts, RestOf
  <2>2. /\ lockups'[i].account_id = lockups[i].account_id
        /\ lockups'[i].schedule = lockups[i].schedule
        /\ lockups'[i].termination_config = lockups[i].termination_config
        /\ lockups'[i].claimed_balance = lockups[i].claimed_balance - c(i)
    BY <1>1, <2>1 DEF LockupType
  <2>3. Spent(lockups'[i])
    BY <1>4 DEF ListedSpent
  <2>4. c(i) = 0
    <3>1. lockups[i].termination_config = indexer[i].lockup.termination_config
      BY <1>1, <1>4, <2>2 DEF ListedSpent
    <3>2. lockups[i].claimed_balance <= total_balance(lockups[i].schedule)
      BY <3>1 DEF IInv, SoundLockup
    <3> HIDE DEF c
    <3> QED
      BY <2>1, <2>2, <2>3, <3>2 DEF Spent
  <2>5. Spent(lockups[i])
    <3> HIDE DEF c
    <3> QED
      BY <2>1, <2>2, <2>3, <2>4 DEF Spent
  <2>6. i \in account_lockups[lockups[i].account_id]
    <3> HIDE DEF c
    <3>1. i \in account_lockups'[lockups[i].account_id]
      BY <1>4, <2>2 DEF ListedSpent
    <3> QED
      BY <1>1, <1>2, <2>4, <3>1
  <2>7. ListedSpent(i)
    BY <1>1, <1>4, <2>2, <2>5, <2>6 DEF ListedSpent
  <2>8. ~ (promises[k].claims[i].claim_amount > 0)
    BY <2>4
  <2> QED
    BY <1>1, <2>7, <2>8, UnlistedStill
<1> QED
  BY <1>3, <1>4, OutgoingKept

(* A new lockup is not spent: what is listed is not empty.                 *)
LEMMA OutgoingCreated ==
  ASSUME IInv, Outgoing, ListedRightly', NEW l \in LockupType, l.claimed_balance = 0,
         Increasing(l.schedule),
         internal_add_lockup(l), indexer' = Append(indexer, Created(l)),
         \A i \in Indices : UnlistedBy(promises, i) => UnlistedBy(promises', i)
  PROVE  Outgoing'
<1> DEFINE n == Len(lockups)
<1>1. /\ lockups \in Seq(LockupType) /\ n \in Nat /\ Len(indexer) = n
      /\ Len(lockups) = n /\ Indices = 1..n
      /\ indexer \in Seq([lockup : LockupType, claimed : Nat, unvested : Nat])
      /\ account_lockups \in [Accounts -> SUBSET Indices] /\ l.account_id \in Accounts
      /\ Created(l) \in [lockup : LockupType, claimed : Nat, unvested : Nat]
  BY LedgerFacts, LockupFields DEF IInv, TypeOK, Created, Indices
<1>2. /\ lockups' = Append(lockups, l)
      /\ account_lockups' = [account_lockups EXCEPT ![l.account_id] = @ \cup {n + 1}]
  BY DEF internal_add_lockup
<1> HIDE DEF n
<1>3. /\ Len(lockups') = n + 1
      /\ \A i \in 1..n : lockups'[i] = lockups[i]
      /\ lockups'[n + 1] = l
      /\ \A i \in 1..n : indexer'[i] = indexer[i]
  BY <1>1, <1>2, AppendProperties
<1>4. ASSUME NEW i \in 1..(n + 1), ListedSpent(i)'
      PROVE  UnlistedBy(promises', i)
  <2>1. i \in account_lockups'[lockups'[i].account_id] /\ Spent(lockups'[i])
    BY <1>4 DEF ListedSpent
  <2>2. i # n + 1
    <3> SUFFICES ASSUME i = n + 1 PROVE FALSE
      OBVIOUS
    <3>1. total_balance(l.schedule) > 0
      BY <1>1, <1>3, <1>4, <2>1 DEF ListedRightly, NotEmptied, ListedSpent
    <3>2. total_balance(l.schedule) <= 0
      BY <1>3, <2>1 DEF Spent
    <3> QED
      BY <3>1, <3>2, RestOf
  <2>3. i \in 1..n /\ i \in Indices
    BY <1>1, <2>2
  <2>4. i \in account_lockups[lockups[i].account_id]
    BY <1>1, <1>2, <1>3, <2>1, <2>3
  <2>5. ListedSpent(i)
    BY <1>3, <1>4, <2>3, <2>4 DEF ListedSpent
  <2> QED
    BY <2>3, <2>5 DEF Outgoing
<1> QED
  BY <1>3, <1>4 DEF Outgoing, Indices

LEMMA OutgoingFtOnTransfer ==
  ASSUME IInv, Outgoing, ListedRightly', NEW sender_id \in Accounts,
         NEW amount \in Deposits, NEW c \in LockupCreates, FtOnTransfer(sender_id, amount, c)
  PROVE  Outgoing'
<1> DEFINE l == into_lockup(c, sender_id)
<1>1. amount \in Nat /\ now \in Nat
  BY AmountsAssumption, TypeFacts DEF IInv
<1>2. l \in LockupType /\ Increasing(l.schedule)
  BY <1>1, SoundCreate DEF FtOnTransfer, SoundLockup
<1>3. /\ l.claimed_balance = 0 /\ internal_add_lockup(l) /\ promises' = promises
      /\ indexer' = Append(indexer, Created(l))
  BY DEF FtOnTransfer, into_lockup
<1> HIDE DEF l
<1> QED
  BY <1>2, <1>3, OutgoingCreated

LEMMA OutgoingAfterLockupTermination ==
  ASSUME IInv, Outgoing, ListedRightly', NEW k \in 1..Len(promises),
         AfterLockupTermination(k)
  PROVE  Outgoing'
<1> DEFINE p == promises[k]
           l == new_lockup_unlocked_since(p.account_id, p.amount, now)
<1>1. /\ promises' = WithStatus(promises, k, "settled") /\ ~ InFlightClaim(promises[k])
      /\ \/ UNCHANGED <<lockups, account_lockups, indexer>>
         \/ internal_add_lockup(l) /\ indexer' = Append(indexer, Created(l))
  BY DEF AfterLockupTermination, WithStatus, InFlightClaim
<1>2. l \in LockupType /\ l.claimed_balance = 0 /\ Increasing(l.schedule)
  <2>1. p.account_id \in Accounts /\ p.amount \in Nat /\ now \in 1..MaxTime
    BY LedgerFacts DEF Promise, IInv, TypeOK
  <2> QED
    BY <2>1, SoundRefundLockup DEF new_lockup_unlocked_since, SoundLockup
<1> HIDE DEF l
<1>3. \A i \in Indices : UnlistedBy(promises, i) => UnlistedBy(promises', i)
  BY <1>1, UnlistedStill
<1>4. CASE UNCHANGED <<lockups, account_lockups, indexer>>
  <2>1. \A i \in Indices : ListedSpent(i)' => ListedSpent(i)
    BY <1>4 DEF ListedSpent
  <2> QED
    BY <1>3, <1>4, <2>1, OutgoingKept
<1>5. CASE internal_add_lockup(l) /\ indexer' = Append(indexer, Created(l))
  BY <1>2, <1>3, <1>5, OutgoingCreated
<1> QED
  BY <1>1, <1>4, <1>5

LEMMA UnlistedLater ==
  ASSUME NEW ps \in Seq(Promise), NEW p, NEW i, UnlistedBy(ps, i)
  PROVE  UnlistedBy(Append(ps, p), i)
<1>1. /\ Len(ps) \in Nat /\ Len(Append(ps, p)) = Len(ps) + 1
      /\ \A k \in 1..Len(ps) : Append(ps, p)[k] = ps[k]
  BY AppendProperties
<1> QED
  BY <1>1 DEF UnlistedBy

(* A claim takes no more than a lockup has.                                *)
LEMMA RequestedFits ==
  ASSUME IInv, NEW a \in Accounts, NEW amounts \in AmountRequests(a), Claim(a, amounts),
         NEW i \in Indices, Requested(amounts)[i] # 0
  PROVE  lockups[i].claimed_balance + Requested(amounts)[i] <= total_balance(lockups[i].schedule)
<1>1. can_claim(lockups[i], now, Requested(amounts)[i]) /\ Requested(amounts)[i] \in Nat
  BY RequestedAmounts
<1>2. /\ now \in Nat /\ Increasing(lockups[i].schedule)
      /\ lockups[i].schedule \in Schedules /\ lockups[i].claimed_balance \in Nat
  BY LedgerFacts, LockupFields, TypeFacts DEF IInv
<1>3. /\ unlocked_balance(lockups[i].schedule, now) \in Nat
      /\ unlocked_balance(lockups[i].schedule, now) <= total_balance(lockups[i].schedule)
      /\ total_balance(lockups[i].schedule) \in Nat
  BY <1>2, UnlockedBounds
<1> QED
  BY <1>1, <1>2, <1>3 DEF can_claim

(* The claim that takes the last tokens of a lockup is final for it.       *)
LEMMA OutgoingClaim ==
  ASSUME IInv, Outgoing, NEW a \in Accounts, NEW amounts \in AmountRequests(a), Claim(a, amounts)
  PROVE  Outgoing'
<1> DEFINE r == Requested(amounts)
           claim(i) == [claim_amount |-> r[i], is_final |-> r[i] > 0 /\ is_final(lockups[i], r[i])]
           claims == [i \in 1..MaxLockups |-> IF i \in Indices THEN claim(i) ELSE NoClaims[i]]
           p == [kind |-> "claim", account_id |-> a, amount |-> SumTo(r, Len(lockups)),
                 status |-> "pending", claims |-> claims]
<1>1. /\ lockups' = [i \in Indices |-> [lockups[i] EXCEPT !.claimed_balance = @ + r[i]]]
      /\ promises' = Append(promises, p)
      /\ account_lockups' = account_lockups /\ indexer' = indexer
  BY DEF Claim, Requested
<1>2. \A i \in Indices :
        /\ r[i] \in Nat
        /\ r[i] # 0 => lockups[i].claimed_balance + r[i] <= total_balance(lockups[i].schedule)
  BY RequestedAmounts, RequestedFits
<1>3. InFlightClaim(p) /\ p.claims = claims
  BY DEF InFlightClaim
<1>4. \A i \in Indices : i \in 1..MaxLockups
  BY LedgerFacts
<1>5. \A i \in Indices : /\ claims[i].claim_amount = r[i]
                         /\ claims[i].is_final = (r[i] > 0 /\ is_final(lockups[i], r[i]))
  BY <1>4
<1> HIDE DEF r, claims, p
<1>6. /\ promises \in Seq(Promise) /\ Len(promises) \in Nat /\ Len(lockups) \in Nat
  BY LedgerFacts
<1>7. Len(lockups') = Len(lockups)
  BY <1>1, <1>6 DEF Indices
<1>8. /\ Len(promises') = Len(promises) + 1
      /\ promises'[Len(promises) + 1] = p
  BY <1>1, <1>6, AppendProperties
<1>9. ASSUME NEW i \in Indices, ListedSpent(i)'
      PROVE  \/ ListedSpent(i) /\ (UnlistedBy(promises, i) => UnlistedBy(promises', i))
             \/ UnlistedBy(promises', i)
  <2>1. /\ lockups[i] \in LockupType /\ Increasing(lockups[i].schedule) /\ r[i] \in Nat
    BY <1>2, LedgerFacts
  <2>2. lockups[i].claimed_balance \in Nat /\ total_balance(lockups[i].schedule) \in Nat
    BY <2>1, RestOf
  <2>3. /\ lockups'[i].account_id = lockups[i].account_id
        /\ lockups'[i].schedule = lockups[i].schedule
        /\ lockups'[i].termination_config = lockups[i].termination_config
        /\ lockups'[i].claimed_balance = lockups[i].claimed_balance + r[i]
    BY <1>1, <2>1 DEF LockupType
  <2>4. Spent(lockups'[i])
    BY <1>9 DEF ListedSpent
  <2>5. CASE r[i] = 0
    <3>1. Spent(lockups[i])
      BY <2>2, <2>3, <2>4, <2>5 DEF Spent
    <3>2. ListedSpent(i)
      BY <1>1, <1>9, <2>3, <3>1 DEF ListedSpent
    <3>3. UnlistedBy(promises, i) => UnlistedBy(promises', i)
      BY <1>1, <1>6, UnlistedLater
    <3> QED
      BY <3>2, <3>3
  <2>6. CASE r[i] # 0
    <3>1. is_final(lockups[i], r[i]) /\ r[i] > 0
      BY <1>2, <2>1, <2>2, <2>3, <2>4, <2>6 DEF Spent, is_final
    <3>2. p.claims[i].is_final /\ p.claims[i].claim_amount > 0
      BY <1>3, <1>5, <3>1
    <3>3. Len(promises) + 1 \in 1..Len(promises')
      BY <1>6, <1>8
    <3> QED
      BY <1>3, <1>8, <3>2, <3>3 DEF UnlistedBy
  <2> QED
    BY <2>5, <2>6
<1> QED
  BY <1>7, <1>9, OutgoingKept

(* A terminated lockup has lost its configuration.                         *)
LEMMA OutgoingTerminate ==
  ASSUME IInv, Ledger, Outgoing, NEW caller \in Accounts, NEW i \in Indices, NEW h,
         NEW f \in 1..MaxTime, Terminate(caller, i, h, f)
  PROVE  Outgoing'
<1> DEFINE l == lockups[i]
           n == terminate_lockup(l, f)
           unvested == unvested_balance(l, f)
           p == [kind |-> "termination", amount |-> unvested, status |-> "pending",
                 claims |-> NoClaims, account_id |-> l.termination_config.beneficiary_id]
<1>1. /\ l.termination_config # None
      /\ account_lockups' = IF total_balance(n.schedule) = 0
                            THEN [account_lockups EXCEPT ![n.account_id] = @ \ {i}]
                            ELSE account_lockups
      /\ lockups' = [lockups EXCEPT ![i] = n]
      /\ indexer' = [indexer EXCEPT ![i].unvested = unvested]
      /\ promises' = promises \/ promises' = Append(promises, p)
  BY DEF Terminate, can_terminate
<1>2. /\ lockups \in Seq(LockupType) /\ promises \in Seq(Promise)
      /\ Len(lockups) \in Nat /\ i \in 1..Len(lockups) /\ l \in LockupType
      /\ account_lockups \in [Accounts -> SUBSET Indices]
      /\ indexer \in Seq([lockup : LockupType, claimed : Nat, unvested : Nat])
      /\ Len(indexer) = Len(lockups)
      /\ \A j \in Indices : indexer[j] \in [lockup : LockupType, claimed : Nat, unvested : Nat]
  BY LedgerFacts DEF IInv, TypeOK, Indices
<1>3. n.termination_config = None /\ n.account_id = l.account_id
  BY <1>2 DEF terminate_lockup, LockupType
<1>4. indexer[i].lockup.termination_config = l.termination_config
  BY <1>1 DEF Ledger, Announced
<1>5. \A j \in Indices : indexer'[j].lockup = indexer[j].lockup
  BY <1>1, <1>2 DEF Indices
<1> HIDE DEF n, unvested, p, l
<1>6. /\ Len(lockups') = Len(lockups)
      /\ \A j \in Indices : lockups'[j] = IF j = i THEN n ELSE lockups[j]
  <2>1. lockups' = [lockups EXCEPT ![i] = n]
    BY <1>1
  <2>2. lockups \in Seq(LockupType)
    BY <1>2
  <2> QED
    BY <2>1, <2>2 DEF Indices
<1>7. ASSUME NEW j \in Indices
      PROVE  UnlistedBy(promises, j) => UnlistedBy(promises', j)
  BY <1>1, <1>2, UnlistedLater
<1>8. ASSUME NEW j \in Indices, ListedSpent(j)'
      PROVE  ListedSpent(j)
  <2>1. j # i
    BY <1>1, <1>3, <1>4, <1>5, <1>6, <1>8 DEF ListedSpent
  <2>2. lockups'[j] = lockups[j] /\ j \in account_lockups'[lockups[j].account_id]
    BY <1>6, <1>8, <2>1 DEF ListedSpent
  <2>3. j \in account_lockups[lockups[j].account_id]
    <3>1. lockups[j].account_id \in Accounts
      BY LedgerFacts DEF LockupType
    <3>2. account_lockups \in [Accounts -> SUBSET Indices]
      BY <1>2
    <3>3. CASE account_lockups' = [account_lockups EXCEPT ![n.account_id] = @ \ {i}]
      BY <2>2, <3>1, <3>2, <3>3
    <3>4. CASE account_lockups' = account_lockups
      BY <2>2, <3>4
    <3> QED
      BY <1>1, <3>3, <3>4
  <2> QED
    BY <1>5, <1>8, <2>2, <2>3 DEF ListedSpent
<1> QED
  BY <1>6, <1>7, <1>8, OutgoingKept

LEMMA OutgoingUntouched ==
  ASSUME Outgoing, UNCHANGED <<lockups, account_lockups, promises, indexer>>
  PROVE  Outgoing'
BY DEF Outgoing, ListedSpent, UnlistedBy, Indices

LEMMA OutgoingNext ==
  ASSUME IInv, Ledger, Outgoing, ListedRightly', [Next]_vars
  PROVE  Outgoing'
<1>1. ASSUME NEW sender_id \in Accounts, NEW amount \in Deposits, NEW c \in LockupCreates,
             FtOnTransfer(sender_id, amount, c)
      PROVE  Outgoing'
  BY <1>1, OutgoingFtOnTransfer
<1>2. ASSUME NEW a \in Accounts, NEW amounts \in AmountRequests(a), Claim(a, amounts)
      PROVE  Outgoing'
  BY <1>2, OutgoingClaim
<1>3. ASSUME NEW caller \in Accounts, NEW i \in Indices, NEW h \in RevealedSchedules,
             NEW t \in 1..MaxTime, Terminate(caller, i, h, t)
      PROVE  Outgoing'
  BY <1>3, OutgoingTerminate
<1>4. ASSUME NEW k \in 1..Len(promises),
             \/ FtTransfer(k) \/ AfterFtTransferOk(k)
             \/ AfterFtTransferFailed(k) \/ AfterLockupTermination(k)
      PROVE  Outgoing'
  BY <1>4, OutgoingFtTransfer, OutgoingAfterFtTransferOk, OutgoingAfterFtTransferFailed,
     OutgoingAfterLockupTermination
<1>5. ASSUME NEW caller \in Accounts, NEW account_ids \in (SUBSET Operators) \ {{}},
             \/ AddToDepositWhitelist(caller, account_ids)
             \/ RemoveFromDepositWhitelist(caller, account_ids)
      PROVE  Outgoing'
  BY <1>5, OutgoingUntouched DEF AddToDepositWhitelist, RemoveFromDepositWhitelist
<1>6. CASE Tick
  BY <1>6, OutgoingUntouched DEF Tick
<1>7. CASE UNCHANGED vars
  BY <1>7, OutgoingUntouched DEF vars
<1> QED
  BY <1>1, <1>2, <1>3, <1>4, <1>5, <1>6, <1>7 DEF Next

LEMMA OutgoingInit == Init => Outgoing
<1> SUFFICES ASSUME Init PROVE Outgoing
  OBVIOUS
<1>1. Indices = {}
  BY DEF Init, Indices
<1> QED
  BY <1>1 DEF Outgoing

LEMMA OutgoingUnlisted == IInv /\ Ledger /\ Outgoing => PaidOutIsUnlisted
<1> SUFFICES ASSUME IInv, Ledger, Outgoing, NEW i \in Indices, Locked(i) = 0, InFlight(i) = 0,
                    lockups[i].termination_config = indexer[i].lockup.termination_config,
                    i \in account_lockups[lockups[i].account_id]
             PROVE  FALSE
  BY DEF PaidOutIsUnlisted
<1>1. /\ lockups[i] \in LockupType /\ Increasing(lockups[i].schedule) /\ i \in 1..MaxLockups
      /\ TypeOK
  BY LedgerFacts DEF IInv
<1>2. Spent(lockups[i])
  <2>1. lockups[i].claimed_balance \in Nat /\ total_balance(lockups[i].schedule) \in Nat
    BY <1>1, RestOf
  <2> QED
    BY <2>1 DEF Locked, Spent
<1>3. PICK k \in 1..Len(promises) : promises[k].status # "settled" /\ promises[k].claims[i].claim_amount > 0
  BY <1>2 DEF Outgoing, ListedSpent, UnlistedBy, InFlightClaim
<1>4. /\ promises[k].claims[i].claim_amount \in Nat
      /\ promises[k].claims[i].claim_amount <= SumSeq(TakenFrom(i), promises)
  BY <1>3, ClaimsTaken
<1>5. SumSeq(TakenFrom(i), promises) = 0
  BY <1>1, InFlightIs
<1> QED
  BY <1>3, <1>4, <1>5

(* A lockup that claims alone have paid out is not listed any more,        *)
(* whatever claims of it were in flight at once and failed.  Only a        *)
(* termination leaves a paid out lockup in the index, as in the run        *)
(* MCLockupsLingering (lockup.rs:66, lib.rs:250, callbacks.rs:39-70).      *)
THEOREM PaidOutUnlisted == Spec => []PaidOutIsUnlisted
<1>1. Books /\ Books' /\ Outgoing /\ [Next]_vars => Outgoing'
  BY OutgoingNext DEF Books, Ledger
<1>2. Books /\ Outgoing => PaidOutIsUnlisted
  BY OutgoingUnlisted DEF Books
<1> QED
  BY <1>1, <1>2, OutgoingInit, BooksInvariance, PTL DEF Spec
=============================================================================
