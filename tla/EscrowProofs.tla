---------------------------- MODULE EscrowProofs ----------------------------
(***************************************************************************)
(* The registry implements the escrow, for every set of accounts and       *)
(* messages and for every bound: each of its steps is one the escrow       *)
(* allows, or changes nothing the escrow sees.                             *)
(***************************************************************************)
EXTENDS LedgerProofs

(* What a transfer weighs in the mapping: what it claims from lockup i and *)
(* has not paid, and what it still is to return to account a.              *)
UnpaidFrom(i) ==
  [p \in Promise |-> IF p.status \in {"pending", "failed"} THEN p.claims[i].claim_amount ELSE 0]

OwedTo(a) ==
  [p \in Promise |-> IF p.kind = "termination" /\ p.account_id = a
                     THEN ToSend[p] ELSE 0]

(* The escrow of some records, events and transfers.                       *)
GrantOf(l, e, unpaid) ==
  [owner    |-> l.account_id,
   payer    |-> IF e.lockup.termination_config = None
                THEN None ELSE e.lockup.termination_config.beneficiary_id,
   granted  |-> total_balance(e.lockup.schedule),
   paid     |-> l.claimed_balance - unpaid,
   returned |-> e.unvested]

GrantsOf(ls, es, ps) == [i \in 1..Len(ls) |-> GrantOf(ls[i], es[i], SumSeq(UnpaidFrom(i), ps))]

OwedOf(ps) == [a \in Accounts |-> SumSeq(OwedTo(a), ps)]

LEMMA EscrowWeights ==
  /\ \A i \in 1..MaxLockups : UnpaidFrom(i) \in [Promise -> Nat]
  /\ \A a : OwedTo(a) \in [Promise -> Nat]
<1>1. ASSUME NEW p \in Promise
      PROVE  /\ ToSend[p] \in Nat
             /\ \A i \in 1..MaxLockups : p.claims[i].claim_amount \in Nat
  BY <1>1, Weights DEF Promise, LockupClaim
<1> QED
  BY <1>1 DEF UnpaidFrom, OwedTo

(* The escrow the contract is mapped to is the one of its variables.       *)
Mapped == /\ EscrowGrants = GrantsOf(lockups, indexer, promises)
          /\ EscrowOwed = OwedOf(promises)

LEMMA Mapping == IInv => Mapped
<1> SUFFICES ASSUME IInv
             PROVE  /\ EscrowGrants = GrantsOf(lockups, indexer, promises)
                    /\ EscrowOwed = OwedOf(promises)
  BY DEF Mapped
<1>1. \A k \in 1..Len(promises) : promises[k] \in Promise
  BY LedgerFacts
<1>2. ASSUME NEW i \in Indices
      PROVE  Paid(i) = lockups[i].claimed_balance - SumSeq(UnpaidFrom(i), promises)
  <2>1. ASSUME NEW k \in 1..Len(promises)
        PROVE  (IF promises[k].status = "transferred" THEN 0 ELSE InClaim(k, i))
                 = UnpaidFrom(i)[promises[k]]
    BY <1>1 DEF InClaim, UnpaidFrom, Promise
  <2>2. [k \in 1..Len(promises) |-> IF promises[k].status = "transferred" THEN 0 ELSE InClaim(k, i)]
          = [k \in 1..Len(promises) |-> UnpaidFrom(i)[promises[k]]]
    BY <2>1
  <2> QED
    BY <2>2 DEF Paid, SumSeq
<1>3. EscrowGrants = GrantsOf(lockups, indexer, promises)
  BY <1>2 DEF EscrowGrants, GrantsOf, GrantOf, Indices
<1>4. ASSUME NEW a \in Accounts
      PROVE  EscrowOwed[a] = SumSeq(OwedTo(a), promises)
  <2>1. ASSUME NEW k \in 1..Len(promises)
        PROVE  (IF promises[k].kind = "termination" /\ promises[k].account_id = a
                THEN Unsent(k) ELSE 0) = OwedTo(a)[promises[k]]
    BY <1>1 DEF Unsent, OwedTo, ToSend
  <2>2. [k \in 1..Len(promises) |->
           IF promises[k].kind = "termination" /\ promises[k].account_id = a
           THEN Unsent(k) ELSE 0] = [k \in 1..Len(promises) |-> OwedTo(a)[promises[k]]]
    BY <2>1
  <2> QED
    BY <2>2 DEF EscrowOwed, SumSeq
<1>5. EscrowOwed = OwedOf(promises)
  BY <1>4 DEF EscrowOwed, OwedOf
<1> QED
  BY <1>3, <1>5

LEMMA MappingLater == IInv' => Mapped'
BY Mapping, PTL

(* The sums of the two modules are the same.                               *)
LEMMA SameSum ==
  ASSUME NEW f, NEW n
  PROVE  TheEscrow!SumTo(f, n) = SumTo(f, n)
BY DEF TheEscrow!SumTo, SumTo

LEMMA EscrowInit == Init => TheEscrow!Init
<1> SUFFICES ASSUME Init PROVE TheEscrow!Init
  OBVIOUS
<1>1. IInv /\ Len(lockups) = 0 /\ Len(promises) = 0 /\ custody = 0
  BY InvInit DEF Init
<1>2. EscrowGrants = << >>
  BY <1>1, Mapping DEF Mapped, GrantsOf
<1>3. EscrowOwed = [a \in Accounts |-> 0]
  BY <1>1, Mapping, SumToZero DEF Mapped, OwedOf, SumSeq
<1> QED
  BY <1>1, <1>2, <1>3 DEF TheEscrow!Init

-----------------------------------------------------------------------------
(* What the escrow sees of a state.                                        *)

LEMMA GrantsFacts ==
  ASSUME NEW ls, Len(ls) \in Nat, NEW es, NEW ps
  PROVE  /\ Len(GrantsOf(ls, es, ps)) = Len(ls)
         /\ DOMAIN GrantsOf(ls, es, ps) = 1..Len(ls)
         /\ GrantsOf(ls, es, ps) = [i \in 1..Len(ls) |-> GrantsOf(ls, es, ps)[i]]
         /\ \A i \in 1..Len(ls) :
              GrantsOf(ls, es, ps)[i] = GrantOf(ls[i], es[i], SumSeq(UnpaidFrom(i), ps))
<1> DEFINE g(i) == GrantOf(ls[i], es[i], SumSeq(UnpaidFrom(i), ps))
           n == Len(ls)
<1>1. GrantsOf(ls, es, ps) = [i \in 1..n |-> g(i)]
  BY DEF GrantsOf
<1> HIDE DEF g, n
<1>2. [i \in 1..n |-> g(i)] \in [1..n -> { g(i) : i \in 1..n }]
  OBVIOUS
<1>3. Len([i \in 1..n |-> g(i)]) = n
  BY <1>2, FunctionIsSeq DEF n
<1> QED
  BY <1>1, <1>3 DEF g, n

LEMMA GrantsSame ==
  ASSUME NEW ls, NEW ms, NEW es, NEW fs, NEW ps, NEW qs, Len(ms) = Len(ls),
         \A i \in 1..Len(ls) : GrantOf(ms[i], fs[i], SumSeq(UnpaidFrom(i), qs))
                                 = GrantOf(ls[i], es[i], SumSeq(UnpaidFrom(i), ps))
  PROVE  GrantsOf(ms, fs, qs) = GrantsOf(ls, es, ps)
BY DEF GrantsOf

LEMMA OwedSame ==
  ASSUME NEW ps, NEW qs, \A a \in Accounts : SumSeq(OwedTo(a), qs) = SumSeq(OwedTo(a), ps)
  PROVE  OwedOf(qs) = OwedOf(ps)
BY DEF OwedOf

LEMMA EscrowStutter ==
  ASSUME IInv, IInv', custody' = custody,
         GrantsOf(lockups', indexer', promises') = GrantsOf(lockups, indexer, promises),
         OwedOf(promises') = OwedOf(promises)
  PROVE  UNCHANGED TheEscrow!evars
BY Mapping, MappingLater DEF Mapped, TheEscrow!evars

(* A grant holds what is left of its lockup and what is claimed, unpaid.   *)
LEMMA HeldFacts ==
  ASSUME ChecksDecideRightly, IInv, Ledger, NEW i \in Indices
  PROVE  LET g == GrantOf(lockups[i], indexer[i], SumSeq(UnpaidFrom(i), promises))
         IN  /\ g.granted - g.paid - g.returned
                  = total_balance(lockups[i].schedule) - lockups[i].claimed_balance
                      + SumSeq(UnpaidFrom(i), promises)
             /\ lockups[i].claimed_balance <= total_balance(lockups[i].schedule)
             /\ SumSeq(UnpaidFrom(i), promises) \in Nat
             /\ lockups[i].claimed_balance \in Nat
             /\ total_balance(lockups[i].schedule) \in Nat
             /\ g.owner = lockups[i].account_id
             /\ g.paid \in Int
<1> DEFINE u == SumSeq(UnpaidFrom(i), promises)
           l == lockups[i]
           e == indexer[i]
<1>1. u \in Nat
  BY LedgerFacts, EscrowWeights, SumSeqNatural
<1>2. /\ l.claimed_balance \in Nat /\ total_balance(l.schedule) \in Nat
      /\ l.claimed_balance <= total_balance(l.schedule)
  BY LedgerFacts, RestOf DEF IInv, SoundLockup
<1>3. /\ e.lockup \in LockupType /\ Increasing(e.lockup.schedule) /\ e.unvested \in Nat
  BY LedgerFacts, TypeFacts DEF IInv, SoundLockup
<1>4. total_balance(e.lockup.schedule) \in Nat
  BY <1>3, RestOf
<1>5. total_balance(e.lockup.schedule) - e.unvested = total_balance(l.schedule)
  BY DEF Ledger, Announced
<1> HIDE DEF u, l, e
<1>6. GrantOf(l, e, u).granted - GrantOf(l, e, u).paid - GrantOf(l, e, u).returned
        = total_balance(l.schedule) - l.claimed_balance + u
  BY <1>1, <1>2, <1>3, <1>4, <1>5 DEF GrantOf
<1>7. GrantOf(l, e, u).owner = l.account_id /\ GrantOf(l, e, u).paid \in Int
  BY <1>1, <1>2 DEF GrantOf
<1> QED
  BY <1>1, <1>2, <1>6, <1>7 DEF u, l, e

PaidBy(l, u, v, c) == /\ l.claimed_balance \in Int
                      /\ u \in Int /\ v \in Int /\ c \in Int /\ v + c = u

PaysGrant(g, h, c) == h = [g EXCEPT !.paid = @ + c] /\ h.paid - g.paid = c

LEMMA GrantPaid ==
  ASSUME NEW l, NEW e, NEW u, NEW v, NEW c, PaidBy(l, u, v, c)
  PROVE  PaysGrant(GrantOf(l, e, u), GrantOf(l, e, v), c)
<1>1. l.claimed_balance - v = (l.claimed_balance - u) + c
  BY DEF PaidBy
<1>2. (l.claimed_balance - v) - (l.claimed_balance - u) = c
  BY DEF PaidBy
<1> DEFINE x == l.claimed_balance - u
           y == l.claimed_balance - v
<1> HIDE DEF x, y
<1>3. /\ GrantOf(l, e, v) = [GrantOf(l, e, u) EXCEPT !.paid = y]
      /\ GrantOf(l, e, v).paid = y /\ GrantOf(l, e, u).paid = x
  BY DEF GrantOf, x, y
<1> QED
  BY <1>1, <1>2, <1>3 DEF PaysGrant, x, y

(* A transfer the token contract executes for a claim pays its owner.      *)
LEMMA EscrowPay ==
  ASSUME ChecksDecideRightly, IInv, Ledger, IInv', NEW k \in 1..Len(promises),
         promises[k].kind = "claim", promises[k].status = "pending",
         promises' = WithStatus(promises, k, "transferred"),
         custody' = custody - promises[k].amount, UNCHANGED <<lockups, indexer>>
  PROVE  TheEscrow!Next
<1> DEFINE p == promises[k]
           q == InStatus(p, "transferred")
           G == EscrowGrants
           c(i) == p.claims[i].claim_amount
           paid == [i \in 1..Len(lockups) |-> G'[i].paid - G[i].paid]
<1>1. /\ promises \in Seq(Promise) /\ "transferred" \in Statuses /\ p \in Promise
      /\ Len(lockups) \in Nat /\ custody \in Nat /\ p.amount \in Nat /\ p.account_id \in Accounts
  BY LedgerFacts DEF Statuses, Promise
<1>2. p.amount > 0 /\ InOrder(p, lockups)
  BY DEF Ledger, InOrder
<1>3. ASSUME NEW i \in Indices
      PROVE  c(i) \in Nat /\ (c(i) > 0 => lockups[i].account_id = p.account_id)
  BY <1>1, <1>2, LedgerFacts DEF InOrder, Promise, LockupClaim
<1>4. /\ q = InStatus(promises[k], "transferred") /\ p = promises[k]
      /\ p.kind = "claim" /\ p.status = "pending"
  OBVIOUS
<1> HIDE DEF p, q, G, c, paid
<1>5. /\ q \in Promise /\ q.status = "transferred" /\ q.kind = p.kind /\ q.claims = p.claims
      /\ \A W \in [Promise -> Nat] : /\ SumSeq(W, promises') + W[p] = SumSeq(W, promises) + W[q]
                                     /\ SumSeq(W, promises) \in Nat
                                     /\ SumSeq(W, promises') \in Nat
  <2>1. q = InStatus(p, "transferred") /\ p = promises[k]
    BY <1>4
  <2>2. Moved(p, q, "transferred", promises, promises')
    BY <1>1, <2>1, StatusMoved
  <2> QED
    BY <2>2 DEF Moved
<1>6. ASSUME NEW a \in Accounts PROVE SumSeq(OwedTo(a), promises') = SumSeq(OwedTo(a), promises)
  <2>1. OwedTo(a)[p] = 0 /\ OwedTo(a)[q] = 0
    BY <1>1, <1>4, <1>5 DEF OwedTo
  <2> QED
    BY <1>5, <2>1, EscrowWeights
<1>7. EscrowOwed' = EscrowOwed
  BY <1>6, OwedSame, Mapping, MappingLater DEF Mapped
<1>8. /\ G = GrantsOf(lockups, indexer, promises) /\ G' = GrantsOf(lockups, indexer, promises')
      /\ Len(G) = Len(lockups) /\ Len(G') = Len(lockups)
  BY <1>1, Mapping, MappingLater, GrantsFacts DEF Mapped, G
<1>9. ASSUME NEW i \in Indices
      PROVE  /\ G'[i] = [G[i] EXCEPT !.paid = @ + c(i)]
             /\ paid[i] = c(i)
             /\ c(i) \in 0..(G[i].granted - G[i].paid - G[i].returned)
             /\ G[i].owner = lockups[i].account_id
  <2> DEFINE u == SumSeq(UnpaidFrom(i), promises)
             v == SumSeq(UnpaidFrom(i), promises')
  <2>1. i \in 1..MaxLockups /\ i \in 1..Len(lockups)
    BY LedgerFacts DEF Indices
  <2>2. G[i] = GrantOf(lockups[i], indexer[i], u) /\ G'[i] = GrantOf(lockups[i], indexer[i], v)
    BY <1>1, <1>8, <2>1, GrantsFacts
  <2>3. UnpaidFrom(i)[p] = c(i) /\ UnpaidFrom(i)[q] = 0
    BY <1>1, <1>4, <1>5 DEF UnpaidFrom, c
  <2>4. v + c(i) = u /\ u \in Nat /\ v \in Nat
    BY <1>3, <1>5, <2>1, <2>3, EscrowWeights
  <2>5. /\ G[i].granted - G[i].paid - G[i].returned
             = total_balance(lockups[i].schedule) - lockups[i].claimed_balance + u
        /\ lockups[i].claimed_balance <= total_balance(lockups[i].schedule)
        /\ lockups[i].claimed_balance \in Nat /\ total_balance(lockups[i].schedule) \in Nat
        /\ G[i].owner = lockups[i].account_id
    BY <2>2, HeldFacts
  <2> HIDE DEF u, v
  <2>6. G'[i] = [G[i] EXCEPT !.paid = @ + c(i)] /\ G'[i].paid - G[i].paid = c(i)
    <3>1. PaidBy(lockups[i], u, v, c(i))
      BY <1>3, <2>4, <2>5 DEF PaidBy
    <3>2. PaysGrant(G[i], G'[i], c(i))
      BY <2>2, <3>1, GrantPaid
    <3> QED
      BY <3>2 DEF PaysGrant
  <2>7. paid[i] = G'[i].paid - G[i].paid
    BY <2>1 DEF paid
  <2>8. c(i) <= G[i].granted - G[i].paid - G[i].returned
    BY <1>3, <2>4, <2>5
  <2>9. c(i) \in 0..(G[i].granted - G[i].paid - G[i].returned)
    <3>1. G[i].granted - G[i].paid - G[i].returned \in Int
      BY <2>4, <2>5
    <3> QED
      BY <1>3, <2>8, <3>1
  <2> QED
    BY <2>5, <2>6, <2>7, <2>9
<1>10. SumTo(paid, Len(lockups)) = p.amount
  <2> DEFINE d == [i \in 1..MaxLockups |-> p.claims[i].claim_amount]
  <2>1. SumTo(d, Len(lockups)) = p.amount
    BY <1>4, ClaimsAddUp
  <2>2. \A i \in 1..Len(lockups) : paid[i] = d[i]
    BY <1>9, LedgerFacts DEF Indices, c
  <2> HIDE DEF d
  <2>3. SumTo(paid, Len(lockups)) = SumTo(d, Len(lockups))
    BY <1>1, <2>2, SumOfEquals
  <2> QED
    BY <2>1, <2>3
<1>11. TheEscrow!Pay(p.account_id)
  <2>1. custody' < custody /\ custody' = custody - p.amount
    BY <1>1, <1>2, <1>4
  <2>2. TheEscrow!Grants = 1..Len(lockups)
    BY <1>8 DEF TheEscrow!Grants, G
  <2>3. [i \in TheEscrow!Grants |-> EscrowGrants'[i].paid - EscrowGrants[i].paid] = paid
    BY <2>2 DEF paid, G
  <2>4. ASSUME NEW i \in 1..Len(lockups)
        PROVE  /\ EscrowGrants'[i] = [EscrowGrants[i] EXCEPT !.paid = @ + paid[i]]
               /\ paid[i] \in 0..TheEscrow!Held(i)
               /\ paid[i] > 0 => EscrowGrants[i].owner = p.account_id
    BY <1>3, <1>9 DEF TheEscrow!Held, G, Indices
  <2>5. custody' = custody - TheEscrow!SumTo(paid, Len(EscrowGrants))
    BY <1>8, <1>10, <2>1, SameSum DEF G
  <2>6. Len(EscrowGrants') = Len(EscrowGrants)
    BY <1>8 DEF G
  <2> QED
    BY <1>7, <2>1, <2>2, <2>3, <2>4, <2>5, <2>6 DEF TheEscrow!Pay
<1> QED
  BY <1>1, <1>11 DEF TheEscrow!Next

(* A return the token contract executes pays what is owed.                 *)
LEMMA EscrowPayBack ==
  ASSUME IInv, Ledger, IInv', NEW k \in 1..Len(promises),
         promises[k].kind = "termination", promises[k].status = "pending",
         promises' = WithStatus(promises, k, "transferred"),
         custody' = custody - promises[k].amount, UNCHANGED <<lockups, indexer>>
  PROVE  TheEscrow!Next
<1> DEFINE p == promises[k]
           q == InStatus(p, "transferred")
<1>1. /\ promises \in Seq(Promise) /\ "transferred" \in Statuses /\ p \in Promise
      /\ Len(lockups) \in Nat /\ p.amount \in Nat /\ p.account_id \in Accounts
  BY LedgerFacts DEF Statuses, Promise
<1>2. p.amount > 0 /\ p.claims = NoClaims
  BY DEF Ledger, InOrder
<1>3. /\ q = InStatus(promises[k], "transferred") /\ p = promises[k]
      /\ p.kind = "termination" /\ p.status = "pending" /\ custody' = custody - p.amount
  OBVIOUS
<1> HIDE DEF p, q
<1>4. /\ q \in Promise /\ q.status = "transferred" /\ q.claims = p.claims
      /\ \A W \in [Promise -> Nat] : /\ SumSeq(W, promises') + W[p] = SumSeq(W, promises) + W[q]
                                     /\ SumSeq(W, promises) \in Nat
                                     /\ SumSeq(W, promises') \in Nat
  <2>1. q = InStatus(p, "transferred") /\ p = promises[k]
    BY <1>3
  <2>2. Moved(p, q, "transferred", promises, promises')
    BY <1>1, <2>1, StatusMoved
  <2> QED
    BY <2>2 DEF Moved
<1>5. ASSUME NEW a \in Accounts
      PROVE  SumSeq(OwedTo(a), promises') = IF a = p.account_id
                                            THEN SumSeq(OwedTo(a), promises) - p.amount
                                            ELSE SumSeq(OwedTo(a), promises)
  <2>1. /\ OwedTo(a)[p] = IF a = p.account_id THEN p.amount ELSE 0
        /\ OwedTo(a)[q] = 0
    BY <1>1, <1>3, <1>4 DEF OwedTo, ToSend
  <2>2. /\ SumSeq(OwedTo(a), promises') + OwedTo(a)[p] = SumSeq(OwedTo(a), promises) + OwedTo(a)[q]
        /\ SumSeq(OwedTo(a), promises) \in Nat /\ SumSeq(OwedTo(a), promises') \in Nat
    BY <1>4, EscrowWeights
  <2> QED
    BY <1>1, <2>1, <2>2
<1>6. EscrowOwed' = [EscrowOwed EXCEPT ![p.account_id] = @ - p.amount]
  BY <1>5, Mapping, MappingLater DEF Mapped, OwedOf
<1>7. p.amount \in 1..EscrowOwed[p.account_id]
  <2>1. EscrowOwed[p.account_id] = SumSeq(OwedTo(p.account_id), promises)
    BY <1>1, Mapping DEF Mapped, OwedOf
  <2>2. /\ OwedTo(p.account_id) \in [Promise -> Nat]
        /\ OwedTo(p.account_id)[p] = p.amount
    BY <1>1, <1>3, EscrowWeights DEF OwedTo, ToSend
  <2>3. OwedTo(p.account_id)[p] <= SumSeq(OwedTo(p.account_id), promises)
    BY <1>1, <1>3, <2>2, SumSeqCovers
  <2>4. SumSeq(OwedTo(p.account_id), promises) \in Nat
    BY <1>4, <2>2
  <2> QED
    BY <1>1, <1>2, <2>1, <2>2, <2>3, <2>4
<1>8. EscrowGrants' = EscrowGrants
  <2>1. ASSUME NEW i \in Indices
        PROVE  SumSeq(UnpaidFrom(i), promises') = SumSeq(UnpaidFrom(i), promises)
    <3>1. UnpaidFrom(i) \in [Promise -> Nat] /\ i \in 1..MaxLockups
      BY LedgerFacts, EscrowWeights
    <3>2. NoClaims[i].claim_amount = 0
      BY <3>1 DEF NoClaims
    <3>3. UnpaidFrom(i)[p] = 0 /\ UnpaidFrom(i)[q] = 0
      BY <1>1, <1>2, <1>4, <3>2 DEF UnpaidFrom
    <3> QED
      BY <1>4, <3>1, <3>3
  <2>2. GrantsOf(lockups, indexer, promises') = GrantsOf(lockups, indexer, promises)
    BY <2>1 DEF GrantsOf, Indices
  <2> QED
    BY <2>2, Mapping, MappingLater DEF Mapped
<1>9. TheEscrow!PayBack(p.account_id, p.amount)
  BY <1>3, <1>6, <1>8 DEF TheEscrow!PayBack
<1> QED
  BY <1>1, <1>7, <1>9 DEF TheEscrow!Next

(* A transfer's status changes while what it has not paid and what it owes *)
(* stay: nothing the escrow sees.                                          *)
LEMMA EscrowSettles ==
  ASSUME IInv, Ledger, IInv', NEW k \in 1..Len(promises), NEW st \in Statuses,
         promises' = WithStatus(promises, k, st), custody' = custody,
         \A a \in Accounts : OwedTo(a)[InStatus(promises[k], st)] = OwedTo(a)[promises[k]],
         Len(lockups') = Len(lockups),
         \A i \in Indices : \A u \in Nat, v \in Nat :
           v + UnpaidFrom(i)[promises[k]] = u + UnpaidFrom(i)[InStatus(promises[k], st)]
             => GrantOf(lockups'[i], indexer'[i], v) = GrantOf(lockups[i], indexer[i], u)
  PROVE  UNCHANGED TheEscrow!evars
<1> DEFINE p == promises[k]
           q == InStatus(p, st)
<1>1. promises \in Seq(Promise) /\ p \in Promise /\ Len(lockups) \in Nat
  BY LedgerFacts
<1>2. /\ q = InStatus(promises[k], st) /\ p = promises[k]
      /\ \A a \in Accounts : OwedTo(a)[q] = OwedTo(a)[p]
      /\ \A i \in Indices : \A u \in Nat, v \in Nat :
           v + UnpaidFrom(i)[p] = u + UnpaidFrom(i)[q]
             => GrantOf(lockups'[i], indexer'[i], v) = GrantOf(lockups[i], indexer[i], u)
  OBVIOUS
<1> HIDE DEF p, q
<1>3. \A W \in [Promise -> Nat] : /\ SumSeq(W, promises') + W[p] = SumSeq(W, promises) + W[q]
                                  /\ SumSeq(W, promises) \in Nat
                                  /\ SumSeq(W, promises') \in Nat
                                  /\ W[p] \in Nat
  <2>1. q = InStatus(p, st) /\ p = promises[k]
    BY <1>2
  <2>2. Moved(p, q, st, promises, promises')
    BY <1>1, <2>1, StatusMoved
  <2> QED
    BY <2>2 DEF Moved
<1>4. ASSUME NEW a \in Accounts PROVE SumSeq(OwedTo(a), promises') = SumSeq(OwedTo(a), promises)
  BY <1>2, <1>3, EscrowWeights
<1>5. ASSUME NEW i \in 1..Len(lockups)
      PROVE  GrantOf(lockups'[i], indexer'[i], SumSeq(UnpaidFrom(i), promises'))
               = GrantOf(lockups[i], indexer[i], SumSeq(UnpaidFrom(i), promises))
  <2>1. i \in Indices /\ UnpaidFrom(i) \in [Promise -> Nat]
    BY LedgerFacts, EscrowWeights DEF Indices
  <2> DEFINE u == SumSeq(UnpaidFrom(i), promises)
             v == SumSeq(UnpaidFrom(i), promises')
  <2>2. u \in Nat /\ v \in Nat /\ v + UnpaidFrom(i)[p] = u + UnpaidFrom(i)[q]
    BY <1>3, <2>1
  <2> HIDE DEF u, v
  <2>3. GrantOf(lockups'[i], indexer'[i], v) = GrantOf(lockups[i], indexer[i], u)
    BY <1>2, <2>1, <2>2
  <2> QED
    BY <2>3 DEF u, v
<1>6. OwedOf(promises') = OwedOf(promises)
  BY <1>4, OwedSame
<1>7. GrantsOf(lockups', indexer', promises') = GrantsOf(lockups, indexer, promises)
  BY <1>5, GrantsSame
<1> QED
  BY <1>6, <1>7, EscrowStutter

LEMMA EscrowFtTransfer ==
  ASSUME ChecksDecideRightly, IInv, Ledger, IInv', NEW k \in 1..Len(promises), FtTransfer(k)
  PROVE  [TheEscrow!Next]_(TheEscrow!evars)
<1>1. promises[k] \in Promise /\ promises[k].kind \in {"claim", "termination"}
  BY LedgerFacts DEF Promise
<1>2. promises[k].status = "pending" /\ UNCHANGED <<lockups, indexer>>
  BY DEF FtTransfer
<1>3. CASE /\ promises' = WithStatus(promises, k, "transferred")
           /\ custody' = custody - promises[k].amount
  BY <1>1, <1>2, <1>3, EscrowPay, EscrowPayBack
<1>4. CASE promises' = WithStatus(promises, k, "failed") /\ custody' = custody
  <2> DEFINE q == InStatus(promises[k], "failed")
  <2>1. /\ q \in Promise /\ q.status = "failed" /\ q.kind = promises[k].kind
        /\ q.account_id = promises[k].account_id /\ q.amount = promises[k].amount
        /\ q.claims = promises[k].claims /\ "failed" \in Statuses
    BY <1>1 DEF Promise, InStatus, Statuses
  <2> HIDE DEF q
  <2>2. \A a \in Accounts : OwedTo(a)[q] = OwedTo(a)[promises[k]]
    BY <1>1, <1>2, <2>1 DEF OwedTo, ToSend
  <2>3. \A i \in Indices : /\ UnpaidFrom(i)[promises[k]] = UnpaidFrom(i)[q]
                           /\ UnpaidFrom(i)[q] \in Nat
    <3>1. \A i \in Indices : UnpaidFrom(i)[promises[k]] = UnpaidFrom(i)[q]
      BY <1>1, <1>2, <2>1 DEF UnpaidFrom
    <3> QED
      BY <2>1, <3>1, LedgerFacts, EscrowWeights
  <2>4. \A i \in Indices : \A u \in Nat, v \in Nat :
          v + UnpaidFrom(i)[promises[k]] = u + UnpaidFrom(i)[q] => v = u
    BY <2>3
  <2> QED
    BY <1>2, <1>4, <2>1, <2>2, <2>4, EscrowSettles DEF q
<1> QED
  BY <1>3, <1>4 DEF FtTransfer, WithStatus

LEMMA EscrowAfterFtTransferOk ==
  ASSUME IInv, Ledger, IInv', NEW k \in 1..Len(promises), AfterFtTransferOk(k)
  PROVE  UNCHANGED TheEscrow!evars
<1> DEFINE p == promises[k]
           q == InStatus(p, "settled")
<1>1. /\ p.kind = "claim" /\ p.status = "transferred" /\ "settled" \in Statuses
      /\ promises' = WithStatus(promises, k, "settled")
      /\ indexer' = [i \in Indices |-> [indexer[i] EXCEPT !.claimed = @ + p.claims[i].claim_amount]]
      /\ UNCHANGED <<lockups, custody>>
  BY DEF AfterFtTransferOk, WithStatus, Statuses
<1>2. p \in Promise /\ q \in Promise /\ q.status = "settled" /\ q.kind = p.kind
  BY LedgerFacts DEF Promise, InStatus
<1>3. \A a \in Accounts : OwedTo(a)[q] = OwedTo(a)[p]
  BY <1>1, <1>2 DEF OwedTo
<1>4. ASSUME NEW i \in Indices
      PROVE  /\ UnpaidFrom(i)[p] = 0 /\ UnpaidFrom(i)[q] = 0
             /\ \A u : GrantOf(lockups'[i], indexer'[i], u) = GrantOf(lockups[i], indexer[i], u)
  <2>1. UnpaidFrom(i)[p] = 0 /\ UnpaidFrom(i)[q] = 0
    BY <1>1, <1>2 DEF UnpaidFrom
  <2>2. indexer[i] \in [lockup : LockupType, claimed : Nat, unvested : Nat]
    BY LedgerFacts
  <2>3. /\ indexer'[i].lockup = indexer[i].lockup /\ indexer'[i].unvested = indexer[i].unvested
        /\ lockups'[i] = lockups[i]
    BY <1>1, <2>2
  <2> QED
    BY <2>1, <2>3 DEF GrantOf
<1>5. \A i \in Indices : \A u \in Nat, v \in Nat :
        v + UnpaidFrom(i)[p] = u + UnpaidFrom(i)[q]
          => GrantOf(lockups'[i], indexer'[i], v) = GrantOf(lockups[i], indexer[i], u)
  <2> SUFFICES ASSUME NEW i \in Indices, NEW u \in Nat, NEW v \in Nat,
                      v + UnpaidFrom(i)[p] = u + UnpaidFrom(i)[q]
               PROVE  GrantOf(lockups'[i], indexer'[i], v) = GrantOf(lockups[i], indexer[i], u)
    OBVIOUS
  <2>1. u = v
    BY <1>4
  <2> QED
    BY <1>4, <2>1
<1> QED
  BY <1>1, <1>3, <1>5, EscrowSettles

LEMMA EscrowAfterFtTransferFailed ==
  ASSUME IInv, Ledger, IInv', NEW k \in 1..Len(promises), AfterFtTransferFailed(k)
  PROVE  UNCHANGED TheEscrow!evars
<1> DEFINE p == promises[k]
           q == InStatus(p, "settled")
           c(i) == p.claims[i].claim_amount
<1>1. /\ p.kind = "claim" /\ p.status = "failed" /\ "settled" \in Statuses
      /\ promises' = WithStatus(promises, k, "settled")
      /\ lockups' = [i \in Indices |-> [lockups[i] EXCEPT !.claimed_balance = @ - c(i)]]
      /\ UNCHANGED <<indexer, custody>>
  BY DEF AfterFtTransferFailed, WithStatus, Statuses
<1>2. p \in Promise /\ q \in Promise /\ q.status = "settled" /\ q.kind = p.kind
  BY LedgerFacts DEF Promise, InStatus
<1>3. \A a \in Accounts : OwedTo(a)[q] = OwedTo(a)[p]
  BY <1>1, <1>2 DEF OwedTo
<1>4. Len(lockups') = Len(lockups)
  BY <1>1, LedgerFacts DEF Indices
<1>5. ASSUME NEW i \in Indices, NEW u \in Nat, NEW v \in Nat,
             v + UnpaidFrom(i)[p] = u + UnpaidFrom(i)[q]
      PROVE  GrantOf(lockups'[i], indexer'[i], v) = GrantOf(lockups[i], indexer[i], u)
  <2>1. UnpaidFrom(i)[p] = c(i) /\ UnpaidFrom(i)[q] = 0
    BY <1>1, <1>2 DEF UnpaidFrom
  <2>2. c(i) \in Nat /\ lockups[i] \in LockupType /\ lockups[i].claimed_balance \in Nat
    BY <1>1, ClaimsTaken, LedgerFacts, LockupFields
  <2> HIDE DEF c, p, q
  <2>3. /\ lockups'[i].account_id = lockups[i].account_id
        /\ lockups'[i].claimed_balance = lockups[i].claimed_balance - c(i)
    BY <1>1, <2>2 DEF LockupType
  <2>4. lockups'[i].claimed_balance - v = lockups[i].claimed_balance - u
    BY <1>5, <2>1, <2>2, <2>3
  <2> QED
    BY <1>1, <2>3, <2>4 DEF GrantOf
<1> QED
  BY <1>1, <1>3, <1>4, <1>5, EscrowSettles

(* A lockup is pushed and announced: the escrow sees one more grant, of    *)
(* all the lockup holds.                                                   *)
LEMMA GrantAdded ==
  ASSUME IInv, Ledger, IInv', Len(lockups) < MaxLockups, NEW l \in LockupType,
         l.claimed_balance = 0, internal_add_lockup(l), indexer' = Append(indexer, Created(l)),
         \A i \in 1..MaxLockups : SumSeq(UnpaidFrom(i), promises') = SumSeq(UnpaidFrom(i), promises)
  PROVE  /\ Len(EscrowGrants) = Len(lockups) /\ Len(EscrowGrants') = Len(lockups) + 1
         /\ Len(lockups) \in Nat
         /\ \A i \in 1..Len(lockups) : EscrowGrants'[i] = EscrowGrants[i]
         /\ EscrowGrants'[Len(lockups) + 1]
              = [owner |-> l.account_id,
                 payer |-> IF l.termination_config = None THEN None
                           ELSE l.termination_config.beneficiary_id,
                 granted |-> total_balance(l.schedule), paid |-> 0, returned |-> 0]
         /\ EscrowGrants = [i \in 1..Len(lockups) |-> EscrowGrants[i]]
         /\ EscrowGrants' = [i \in 1..(Len(lockups) + 1) |-> EscrowGrants'[i]]
<1> DEFINE n == Len(lockups)
<1>1. /\ lockups \in Seq(Readable) /\ n \in Nat /\ promises \in Seq(Promise)
      /\ indexer \in Seq([lockup : LockupType, claimed : Nat, unvested : Nat]) /\ Len(indexer) = n
      /\ n + 1 \in 1..MaxLockups
  <2>1. /\ lockups \in Seq(Readable) /\ n \in Nat /\ promises \in Seq(Promise)
        /\ Len(indexer) = n
    BY LedgerFacts
  <2>2. indexer \in Seq([lockup : LockupType, claimed : Nat, unvested : Nat])
    BY DEF IInv, TypeOK
  <2>3. n < MaxLockups /\ MaxLockups \in Nat
    BY BoundsAssumption
  <2> HIDE DEF n
  <2>4. n + 1 \in 1..MaxLockups
    BY <2>1, <2>3
  <2> QED
    BY <2>1, <2>2, <2>4
<1>2. lockups' = Append(lockups, l)
  BY DEF internal_add_lockup
<1>3. Len(lockups') = n + 1 /\ lockups'[n + 1] = l /\ \A i \in 1..n : lockups'[i] = lockups[i]
  BY <1>1, <1>2, AppendProperties
<1>4. /\ \A i \in 1..n : indexer'[i] = indexer[i]
      /\ indexer'[n + 1] = Created(l)
  BY <1>1, AppendProperties DEF Created
<1>5. SumSeq(UnpaidFrom(n + 1), promises) = 0
  <2>1. UnpaidFrom(n + 1) \in [Promise -> Nat]
    BY <1>1, EscrowWeights
  <2>2. ASSUME NEW k \in 1..Len(promises) PROVE UnpaidFrom(n + 1)[promises[k]] = 0
    <3>1. promises[k] \in Promise /\ InOrder(promises[k], lockups)
      BY LedgerFacts DEF Ledger
    <3>2. ~ (promises[k].claims[n + 1].claim_amount > 0)
      BY <1>1, <3>1 DEF InOrder
    <3>3. promises[k].claims[n + 1].claim_amount \in Nat
      BY <1>1, <3>1 DEF Promise, LockupClaim
    <3> QED
      BY <3>1, <3>2, <3>3 DEF UnpaidFrom
  <2> QED
    BY <1>1, <2>1, <2>2, SumSeqZero
<1> DEFINE G == GrantsOf(lockups, indexer, promises)
           H == GrantsOf(lockups', indexer', promises')
<1>6. EscrowGrants = G /\ EscrowGrants' = H
  BY Mapping, MappingLater DEF Mapped
<1>7. /\ Len(G) = n /\ G = [i \in 1..n |-> G[i]]
      /\ \A i \in 1..n : G[i] = GrantOf(lockups[i], indexer[i], SumSeq(UnpaidFrom(i), promises))
  BY <1>1, GrantsFacts
<1>8. /\ Len(H) = n + 1 /\ H = [i \in 1..(n + 1) |-> H[i]]
      /\ \A i \in 1..(n + 1) :
           H[i] = GrantOf(lockups'[i], indexer'[i], SumSeq(UnpaidFrom(i), promises'))
  <2>1. Len(lockups') \in Nat /\ Len(lockups') = n + 1
    BY <1>1, <1>3
  <2>2. Len(lockups') \in Nat
    BY <2>1
  <2> HIDE DEF n
  <2>3. Len(H) = Len(lockups')
    BY <2>2, GrantsFacts
  <2>4. H = [i \in 1..Len(lockups') |-> H[i]]
    BY <2>2, GrantsFacts
  <2>5. \A i \in 1..Len(lockups') :
          H[i] = GrantOf(lockups'[i], indexer'[i], SumSeq(UnpaidFrom(i), promises'))
    BY DEF GrantsOf
  <2> HIDE DEF H
  <2> QED
    BY <2>1, <2>3, <2>4, <2>5
<1> HIDE DEF G, H
<1>9. ASSUME NEW i \in 1..n PROVE H[i] = G[i]
  <2>1. i \in 1..MaxLockups /\ i \in 1..(n + 1)
    BY <1>1, BoundsAssumption
  <2>2. H[i] = GrantOf(lockups'[i], indexer'[i], SumSeq(UnpaidFrom(i), promises'))
    BY <1>8, <2>1
  <2>3. G[i] = GrantOf(lockups[i], indexer[i], SumSeq(UnpaidFrom(i), promises))
    BY <1>7
  <2>4. SumSeq(UnpaidFrom(i), promises') = SumSeq(UnpaidFrom(i), promises)
    BY <2>1
  <2> QED
    BY <1>3, <1>4, <2>2, <2>3, <2>4
<1>10. GrantOf(l, Created(l), 0)
         = [owner |-> l.account_id,
            payer |-> IF l.termination_config = None THEN None
                      ELSE l.termination_config.beneficiary_id,
            granted |-> total_balance(l.schedule), paid |-> 0, returned |-> 0]
  BY DEF GrantOf, Created
<1>11. H[n + 1] = GrantOf(l, Created(l), 0)
  <2>1. n + 1 \in 1..(n + 1)
    BY <1>1
  <2>2. H[n + 1] = GrantOf(lockups'[n + 1], indexer'[n + 1], SumSeq(UnpaidFrom(n + 1), promises'))
    BY <1>8, <2>1
  <2>3. SumSeq(UnpaidFrom(n + 1), promises') = 0
    BY <1>1, <1>5
  <2> QED
    BY <1>3, <1>4, <2>2, <2>3
<1> QED
  BY <1>1, <1>6, <1>7, <1>8, <1>9, <1>10, <1>11

(* What is deposited opens a grant.                                        *)
LEMMA EscrowFtOnTransfer ==
  ASSUME IInv, Ledger, IInv', NEW sender_id \in Accounts, NEW amount \in Deposits,
         NEW c \in LockupCreates, FtOnTransfer(sender_id, amount, c)
  PROVE  TheEscrow!Open
<1> DEFINE l == into_lockup(c, sender_id)
           n == Len(lockups)
           G == EscrowGrants
           H == EscrowGrants'
<1>1. amount \in Nat /\ now \in Nat /\ TypeOK /\ custody \in Nat
  BY AmountsAssumption, TypeFacts DEF IInv, TypeOK
<1>2. l \in LockupType /\ l.claimed_balance = 0
  BY <1>1, SoundCreate DEF FtOnTransfer, assert_new_valid
<1>3. total_balance(l.schedule) = amount /\ amount > 0
  BY DEF FtOnTransfer, assert_new_valid, assert_valid
<1>4. n < MaxLockups
  BY <1>1, RoomBound DEF FtOnTransfer
<1>5. /\ internal_add_lockup(l) /\ indexer' = Append(indexer, Created(l))
      /\ promises' = promises /\ custody' = custody + amount
  BY DEF FtOnTransfer
<1>6. /\ l.account_id \in Accounts
      /\ l.termination_config # None => l.termination_config.beneficiary_id \in Accounts
  BY <1>2, LockupFields
<1> HIDE DEF l
<1>7. /\ Len(G) = n /\ Len(H) = n + 1 /\ n \in Nat
      /\ \A i \in 1..n : H[i] = G[i]
      /\ H[n + 1] = [owner |-> l.account_id,
                     payer |-> IF l.termination_config = None THEN None
                               ELSE l.termination_config.beneficiary_id,
                     granted |-> total_balance(l.schedule), paid |-> 0, returned |-> 0]
      /\ G = [i \in 1..n |-> G[i]]
      /\ H = [i \in 1..(n + 1) |-> H[i]]
  BY <1>2, <1>4, <1>5, GrantAdded
<1>8. EscrowOwed' = EscrowOwed
  BY <1>5, Mapping, MappingLater DEF Mapped
<1> HIDE DEF n, G, H
<1>9. H[n + 1] \in TheEscrow!New /\ H[n + 1].granted = amount
  BY <1>1, <1>3, <1>6, <1>7 DEF TheEscrow!New
<1>10. SubSeq(H, 1, n) = G
  <2>1. SubSeq(H, 1, n) = [i \in 1..n |-> H[i]]
    BY <1>7
  <2> QED
    BY <1>7, <2>1
<1> DEFINE opened == (n + 1)..(n + 1)
           f == [i \in 1..(n + 1) |-> IF i \in opened THEN H[i].granted ELSE 0]
<1>11. SumTo(f, n + 1) = amount
  <2>1. \A i \in 1..n : f[i] = 0
    BY <1>7
  <2>2. f[n + 1] = amount
    BY <1>7, <1>9
  <2> HIDE DEF f
  <2>3. SumTo(f, n) = 0
    BY <1>7, <2>1, SumOfZeros
  <2>4. SumTo(f, n + 1) = SumTo(f, n) + f[n + 1]
    BY <1>7, SumToNext
  <2> QED
    BY <1>1, <2>2, <2>3, <2>4
<1>12. (Len(EscrowGrants) + 1)..Len(EscrowGrants') = opened
  BY <1>7 DEF G, H
<1>13. [i \in 1..Len(EscrowGrants') |->
          IF i \in opened THEN EscrowGrants'[i].granted ELSE 0] = f
  BY <1>7 DEF G, H
<1>14. \A i \in opened : EscrowGrants'[i] \in TheEscrow!New
  BY <1>7, <1>9 DEF H
<1> HIDE DEF opened, f
<1>15. custody' = custody + TheEscrow!SumTo(f, Len(EscrowGrants'))
  BY <1>5, <1>7, <1>11, SameSum DEF H
<1>16. SubSeq(EscrowGrants', 1, Len(EscrowGrants)) = EscrowGrants
  BY <1>7, <1>10 DEF G, H
<1>17. custody' > custody
  BY <1>1, <1>3, <1>5
<1> QED
  BY <1>8, <1>12, <1>13, <1>14, <1>15, <1>16, <1>17 DEF TheEscrow!Open

(* The callback of a return: what could not be returned is granted.        *)
LEMMA EscrowAfterLockupTermination ==
  ASSUME IInv, Ledger, IInv', NEW k \in 1..Len(promises), AfterLockupTermination(k)
  PROVE  [TheEscrow!Next]_(TheEscrow!evars)
<1> DEFINE p == promises[k]
           q == InStatus(p, "settled")
           l == new_lockup_unlocked_since(p.account_id, p.amount, now)
<1>1. /\ p.kind = "termination" /\ custody' = custody /\ "settled" \in Statuses
      /\ promises' = WithStatus(promises, k, "settled")
      /\ \/ p.status = "transferred" /\ UNCHANGED <<lockups, account_lockups, indexer>>
         \/ /\ p.status = "failed" /\ Len(lockups) < MaxLockups
            /\ internal_add_lockup(l) /\ indexer' = Append(indexer, Created(l))
  BY DEF AfterLockupTermination, WithStatus, Statuses
<1>2. /\ promises \in Seq(Promise) /\ p \in Promise /\ p.account_id \in Accounts
      /\ p.amount \in Nat /\ now \in 1..MaxTime
  BY LedgerFacts DEF Promise, IInv, TypeOK
<1>3. p.amount > 0 /\ p.claims = NoClaims
  BY <1>1 DEF Ledger, InOrder
<1>4. /\ l \in LockupType /\ l.claimed_balance = 0 /\ l.account_id = p.account_id
      /\ l.termination_config = None /\ total_balance(l.schedule) = p.amount
  BY <1>2, SoundRefundLockup DEF new_lockup_unlocked_since, new_unlocked_since, total_balance
<1>5. q = InStatus(promises[k], "settled") /\ p = promises[k]
  OBVIOUS
<1> HIDE DEF p, q, l
<1>6. /\ q \in Promise /\ q.status = "settled" /\ q.kind = p.kind /\ q.claims = p.claims
      /\ \A W \in [Promise -> Nat] : /\ SumSeq(W, promises') + W[p] = SumSeq(W, promises) + W[q]
                                     /\ SumSeq(W, promises) \in Nat
                                     /\ SumSeq(W, promises') \in Nat
  <2>1. q = InStatus(p, "settled") /\ p = promises[k]
    BY <1>5
  <2>2. Moved(p, q, "settled", promises, promises')
    BY <1>1, <1>2, <2>1, StatusMoved
  <2> QED
    BY <2>2 DEF Moved
<1>7. ASSUME NEW i \in 1..MaxLockups
      PROVE  SumSeq(UnpaidFrom(i), promises') = SumSeq(UnpaidFrom(i), promises)
  <2>1. UnpaidFrom(i) \in [Promise -> Nat]
    BY EscrowWeights
  <2>2. NoClaims[i].claim_amount = 0
    BY DEF NoClaims
  <2>3. UnpaidFrom(i)[p] = 0 /\ UnpaidFrom(i)[q] = 0
    BY <1>2, <1>3, <1>6, <2>2 DEF UnpaidFrom
  <2> QED
    BY <1>6, <2>1, <2>3
<1>8. ASSUME NEW a \in Accounts
      PROVE  SumSeq(OwedTo(a), promises') = IF a = p.account_id /\ p.status = "failed"
                                            THEN SumSeq(OwedTo(a), promises) - p.amount
                                            ELSE SumSeq(OwedTo(a), promises)
  <2>1. /\ OwedTo(a)[p] = IF a = p.account_id /\ p.status = "failed" THEN p.amount ELSE 0
        /\ OwedTo(a)[q] = 0
    BY <1>1, <1>2, <1>6 DEF OwedTo, ToSend
  <2>2. /\ SumSeq(OwedTo(a), promises') + OwedTo(a)[p] = SumSeq(OwedTo(a), promises) + OwedTo(a)[q]
        /\ SumSeq(OwedTo(a), promises) \in Nat /\ SumSeq(OwedTo(a), promises') \in Nat
    BY <1>6, EscrowWeights
  <2> QED
    BY <1>2, <2>1, <2>2
<1>9. CASE p.status = "transferred" /\ UNCHANGED <<lockups, account_lockups, indexer>>
  <2>1. OwedOf(promises') = OwedOf(promises)
    BY <1>8, <1>9, OwedSame
  <2>2. GrantsOf(lockups', indexer', promises') = GrantsOf(lockups, indexer, promises)
    <3>1. \A i \in 1..Len(lockups) : i \in 1..MaxLockups
      BY LedgerFacts DEF Indices
    <3> QED
      BY <1>7, <1>9, <3>1 DEF GrantsOf
  <2> QED
    BY <1>1, <2>1, <2>2, EscrowStutter
<1>10. CASE /\ p.status = "failed" /\ Len(lockups) < MaxLockups
            /\ internal_add_lockup(l) /\ indexer' = Append(indexer, Created(l))
  <2> DEFINE n == Len(lockups)
             g == [owner |-> p.account_id, payer |-> None, granted |-> p.amount,
                   paid |-> 0, returned |-> 0]
  <2>1. /\ Len(EscrowGrants) = n /\ Len(EscrowGrants') = n + 1 /\ n \in Nat
        /\ \A i \in 1..n : EscrowGrants'[i] = EscrowGrants[i]
        /\ EscrowGrants'[n + 1] = g
        /\ EscrowGrants = [i \in 1..n |-> EscrowGrants[i]]
        /\ EscrowGrants' = [i \in 1..(n + 1) |-> EscrowGrants'[i]]
    BY <1>4, <1>7, <1>10, GrantAdded
  <2> HIDE DEF n, g
  <2>2. EscrowGrants' = Append(EscrowGrants, g)
    <3>1. Append(EscrowGrants, g) = [i \in 1..(n + 1) |-> IF i = n + 1 THEN g ELSE EscrowGrants[i]]
      BY <2>1
    <3> QED
      BY <2>1, <3>1
  <2>3. EscrowOwed' = [EscrowOwed EXCEPT ![p.account_id] = @ - p.amount]
    BY <1>8, <1>10, Mapping, MappingLater DEF Mapped, OwedOf
  <2>4. p.amount \in 1..EscrowOwed[p.account_id]
    <3>1. EscrowOwed[p.account_id] = SumSeq(OwedTo(p.account_id), promises)
      BY <1>2, Mapping DEF Mapped, OwedOf
    <3>2. /\ OwedTo(p.account_id) \in [Promise -> Nat]
          /\ OwedTo(p.account_id)[p] = p.amount
      BY <1>1, <1>2, <1>10, EscrowWeights DEF OwedTo, ToSend
    <3>3. OwedTo(p.account_id)[p] <= SumSeq(OwedTo(p.account_id), promises)
      BY <1>2, <1>5, <3>2, SumSeqCovers
    <3>4. SumSeq(OwedTo(p.account_id), promises) \in Nat
      BY <1>6, <3>2
    <3> QED
      BY <1>2, <1>3, <3>1, <3>2, <3>3, <3>4
  <2>5. TheEscrow!Regrant(p.account_id, p.amount)
    BY <1>1, <2>2, <2>3 DEF TheEscrow!Regrant, g
  <2> QED
    BY <1>2, <2>4, <2>5 DEF TheEscrow!Next
<1> QED
  BY <1>1, <1>9, <1>10

(* A claim is taken from its lockups, and not paid yet: nothing the escrow *)
(* sees.                                                                   *)
LEMMA EscrowClaim ==
  ASSUME IInv, Ledger, IInv', NEW a \in Accounts, NEW amounts \in AmountRequests(a),
         Claim(a, amounts)
  PROVE  UNCHANGED TheEscrow!evars
<1> DEFINE r == Requested(amounts)
           total == SumTo(r, Len(lockups))
           claim(i) == [claim_amount |-> r[i], is_final |-> r[i] > 0 /\ is_final(lockups[i], r[i])]
           claims == [i \in 1..MaxLockups |-> IF i \in Indices THEN claim(i) ELSE NoClaims[i]]
           p == [kind |-> "claim", account_id |-> a, amount |-> total, status |-> "pending",
                 claims |-> claims]
<1>1. /\ lockups' = [i \in Indices |-> [lockups[i] EXCEPT !.claimed_balance = @ + r[i]]]
      /\ promises' = Append(promises, p)
      /\ UNCHANGED <<custody, indexer>>
  BY DEF Claim, Requested
<1>2. \A i \in Indices : r[i] \in Nat
  BY RequestedAmounts
<1> HIDE DEF r
<1>3. promises \in Seq(Promise) /\ Len(lockups) \in Nat /\ Len(promises) \in Nat
  BY LedgerFacts
<1>4. /\ p.kind = "claim" /\ p.status = "pending"
      /\ \A i \in Indices : i \in 1..MaxLockups => p.claims[i].claim_amount = r[i]
  OBVIOUS
<1> HIDE DEF claims, total, p
<1>5. p \in Promise
  <2>1. promises' \in Seq(Promise) /\ Len(promises') = Len(promises) + 1
    BY <1>1, <1>3, AppendProperties DEF IInv, TypeOK
  <2>2. promises'[Len(promises) + 1] = p /\ Len(promises) + 1 \in 1..Len(promises')
    BY <1>1, <1>3, <2>1, AppendProperties
  <2>3. promises'[Len(promises) + 1] \in Promise
    BY <2>1, <2>2, ElementOfSeq
  <2> QED
    BY <2>2, <2>3
<1>6. \A W \in [Promise -> Nat] : /\ SumSeq(W, promises') = SumSeq(W, promises) + W[p]
                                  /\ SumSeq(W, promises) \in Nat
                                  /\ W[p] \in Nat
  <2>1. IsStarted(promises, p, promises')
    BY <1>1 DEF IsStarted
  <2> QED
    BY <1>3, <1>5, <2>1, TransferStarted
<1>7. ASSUME NEW b \in Accounts PROVE SumSeq(OwedTo(b), promises') = SumSeq(OwedTo(b), promises)
  <2>1. OwedTo(b)[p] = 0
    BY <1>4, <1>5 DEF OwedTo
  <2> QED
    BY <1>6, <2>1, EscrowWeights
<1>8. Len(lockups') = Len(lockups)
  BY <1>1, <1>3 DEF Indices
<1>9. ASSUME NEW i \in 1..Len(lockups)
      PROVE  GrantOf(lockups'[i], indexer'[i], SumSeq(UnpaidFrom(i), promises'))
               = GrantOf(lockups[i], indexer[i], SumSeq(UnpaidFrom(i), promises))
  <2> DEFINE u == SumSeq(UnpaidFrom(i), promises)
             v == SumSeq(UnpaidFrom(i), promises')
  <2>1. /\ i \in Indices /\ i \in 1..MaxLockups /\ UnpaidFrom(i) \in [Promise -> Nat]
        /\ lockups[i] \in LockupType /\ lockups[i].claimed_balance \in Nat /\ r[i] \in Nat
    BY <1>2, LedgerFacts, LockupFields, EscrowWeights DEF Indices
  <2>2. UnpaidFrom(i)[p] = r[i]
    BY <1>4, <1>5, <2>1 DEF UnpaidFrom
  <2>3. v = u + r[i] /\ u \in Nat
    BY <1>6, <2>1, <2>2
  <2>4. /\ lockups'[i].account_id = lockups[i].account_id
        /\ lockups'[i].claimed_balance = lockups[i].claimed_balance + r[i]
    BY <1>1, <2>1 DEF LockupType
  <2> HIDE DEF u, v
  <2>5. lockups'[i].claimed_balance - v = lockups[i].claimed_balance - u
    BY <2>1, <2>3, <2>4
  <2>6. GrantOf(lockups'[i], indexer'[i], v) = GrantOf(lockups[i], indexer[i], u)
    BY <1>1, <2>4, <2>5 DEF GrantOf
  <2> QED
    BY <2>6 DEF u, v
<1>10. OwedOf(promises') = OwedOf(promises)
  BY <1>7, OwedSame
<1>11. GrantsOf(lockups', indexer', promises') = GrantsOf(lockups, indexer, promises)
  BY <1>8, <1>9, GrantsSame
<1> QED
  BY <1>1, <1>10, <1>11, EscrowStutter

(* A termination cuts the grant by what is unvested, if anything is.       *)
LEMMA EscrowTerminate ==
  ASSUME ChecksDecideRightly, IInv, Ledger, IInv', NEW caller \in Accounts, NEW i \in Indices, NEW h,
         NEW f \in 1..MaxTime, Terminate(caller, i, h, f)
  PROVE  [TheEscrow!Next]_(TheEscrow!evars)
<1> DEFINE l == lockups[i]
           n == terminate_lockup(l, f)
           unvested == unvested_balance(l, f)
           b == l.termination_config.beneficiary_id
           p == [kind |-> "termination", amount |-> unvested, status |-> "pending",
                 claims |-> NoClaims, account_id |-> b]
           e == [indexer[i] EXCEPT !.unvested = unvested]
           G == EscrowGrants
           H == EscrowGrants'
<1>1. /\ now <= f
      /\ can_terminate(l, h)
      /\ custody' = custody
  BY TypeFacts DEF Terminate, IInv
<1>2. lockups' = [lockups EXCEPT ![i] = n] /\ indexer' = [indexer EXCEPT ![i] = e]
  BY DEF Terminate
<1>3. IF unvested > 0 THEN IsStarted(promises, p, promises') ELSE promises' = promises
  BY DEF Terminate, IsStarted
<1>4. /\ lockups \in Seq(Readable) /\ promises \in Seq(Promise)
      /\ indexer \in Seq([lockup : LockupType, claimed : Nat, unvested : Nat])
      /\ Len(lockups) \in Nat /\ Len(indexer) = Len(lockups)
      /\ i \in 1..Len(lockups) /\ i \in 1..Len(indexer) /\ i \in Indices
      /\ l \in Readable /\ l \in LockupType
      /\ indexer[i] \in [lockup : LockupType, claimed : Nat, unvested : Nat]
  BY LedgerFacts DEF IInv, TypeOK, Indices
<1>5. /\ n \in Readable
      /\ n.account_id = l.account_id
      /\ n.claimed_balance = l.claimed_balance
      /\ unvested \in Nat
      /\ total_balance(n.schedule) = total_balance(l.schedule) - unvested
      /\ total_balance(n.schedule) \in Nat
      /\ l.claimed_balance <= total_balance(n.schedule)
  <2>1. now \in 1..MaxTime /\ indexer[i].lockup \in LockupType /\ SoundLockup(l, indexer[i].lockup, now)
    BY TypeFacts DEF IInv
  <2>2. can_terminate(l, h) /\ now <= f /\ l \in LockupType
    BY <1>1, <1>4
  <2> HIDE DEF l
  <2> QED
    BY <2>1, <2>2, TerminatedRecord
<1>6. l.termination_config # None /\ b \in Accounts
  BY <1>1, <1>4, LockupFields DEF can_terminate
<1>7. /\ indexer[i].unvested = 0 /\ indexer[i].lockup.termination_config = l.termination_config
  BY <1>6 DEF Ledger, Announced
<1>8. p \in Promise /\ p.kind = "termination" /\ p.amount = unvested /\ p.claims = NoClaims
      /\ p.status = "pending" /\ p.account_id = b
  <2> HIDE DEF unvested, b
  <2> QED
    BY <1>5, <1>6, NoClaimsType DEF Promise
<1>9. /\ e \in [lockup : LockupType, claimed : Nat, unvested : Nat]
      /\ e.lockup = indexer[i].lockup /\ e.unvested = unvested
  <2> HIDE DEF unvested
  <2> QED
    BY <1>4, <1>5
<1> HIDE DEF n, unvested, p, e, l, b, G, H
<1>10. /\ Len(lockups') = Len(lockups)
       /\ \A j \in 1..Len(lockups) : lockups'[j] = IF j = i THEN n ELSE lockups[j]
  <2>1. lockups \in Seq(Readable) /\ i \in 1..Len(lockups) /\ n \in Readable
    BY <1>4, <1>5
  <2>2. lockups' = [lockups EXCEPT ![i] = n]
    BY <1>2
  <2> QED
    BY ONLY <2>1, <2>2, ExceptSeq
<1>11. \A j \in 1..Len(lockups) : indexer'[j] = IF j = i THEN e ELSE indexer[j]
  <2> DEFINE E == [lockup : LockupType, claimed : Nat, unvested : Nat]
  <2>1. /\ indexer \in Seq(E) /\ i \in 1..Len(indexer) /\ e \in E
        /\ Len(indexer) = Len(lockups)
    BY <1>4, <1>9
  <2>2. indexer' = [indexer EXCEPT ![i] = e]
    BY <1>2
  <2> HIDE DEF E
  <2> QED
    BY ONLY <2>1, <2>2, ExceptSeq
<1>12. /\ G = GrantsOf(lockups, indexer, promises) /\ H = GrantsOf(lockups', indexer', promises')
       /\ EscrowOwed = OwedOf(promises) /\ EscrowOwed' = OwedOf(promises')
  BY Mapping, MappingLater DEF Mapped, G, H
<1>13. CASE ~ (unvested > 0)
  <2>1. promises' = promises /\ unvested = 0
    BY <1>3, <1>5, <1>13
  <2>2. ASSUME NEW j \in 1..Len(lockups), NEW u
        PROVE  GrantOf(lockups'[j], indexer'[j], u) = GrantOf(lockups[j], indexer[j], u)
    <3>1. CASE j = i
      BY <1>5, <1>7, <1>9, <1>10, <1>11, <2>1, <3>1 DEF GrantOf, l
    <3>2. CASE j # i
      BY <1>10, <1>11, <3>2
    <3> QED
      BY <3>1, <3>2
  <2>3. GrantsOf(lockups', indexer', promises') = GrantsOf(lockups, indexer, promises)
    BY <1>10, <2>1, <2>2, GrantsSame
  <2> QED
    BY <1>1, <2>1, <2>3, EscrowStutter
<1>14. CASE unvested > 0
  <2>1. \A W \in [Promise -> Nat] : /\ SumSeq(W, promises') = SumSeq(W, promises) + W[p]
                                    /\ SumSeq(W, promises) \in Nat
                                    /\ W[p] \in Nat
    BY <1>3, <1>4, <1>8, <1>14, TransferStarted
  <2>2. ASSUME NEW j \in 1..Len(lockups)
        PROVE  /\ SumSeq(UnpaidFrom(j), promises') = SumSeq(UnpaidFrom(j), promises)
               /\ SumSeq(UnpaidFrom(j), promises) \in Nat
    <3>1. j \in 1..MaxLockups /\ UnpaidFrom(j) \in [Promise -> Nat]
      BY LedgerFacts, EscrowWeights DEF Indices
    <3>2. NoClaims[j].claim_amount = 0
      BY <3>1 DEF NoClaims
    <3>3. UnpaidFrom(j)[p] = 0
      BY <1>8, <3>2 DEF UnpaidFrom
    <3> QED
      BY <2>1, <3>1, <3>3
  <2>3. ASSUME NEW a \in Accounts
        PROVE  /\ SumSeq(OwedTo(a), promises') = SumSeq(OwedTo(a), promises)
                                                   + IF a = b THEN unvested ELSE 0
               /\ SumSeq(OwedTo(a), promises) \in Nat
    <3>1. OwedTo(a)[p] = IF a = b THEN unvested ELSE 0
      BY <1>8 DEF OwedTo, ToSend
    <3> QED
      BY <2>1, <3>1, EscrowWeights
  <2>4. EscrowOwed' = [EscrowOwed EXCEPT ![b] = @ + unvested]
    <3>1. \A a \in Accounts : SumSeq(OwedTo(a), promises')
            = IF a = b THEN SumSeq(OwedTo(a), promises) + unvested ELSE SumSeq(OwedTo(a), promises)
      BY <1>5, <2>3
    <3> QED
      BY <1>6, <1>12, <3>1 DEF OwedOf
  <2>5. EscrowOwed' # EscrowOwed
    <3>1. EscrowOwed[b] \in Nat /\ EscrowOwed'[b] = EscrowOwed[b] + unvested
      BY <1>5, <1>6, <1>12, <2>3 DEF OwedOf
    <3> QED
      BY <1>5, <1>14, <3>1
  <2>6. /\ Len(G) = Len(lockups) /\ Len(H) = Len(lockups)
        /\ \A j \in 1..Len(lockups) :
             G[j] = GrantOf(lockups[j], indexer[j], SumSeq(UnpaidFrom(j), promises))
    BY <1>4, <1>10, <1>12, GrantsFacts
  <2>7. H = [j \in 1..Len(lockups) |->
               GrantOf(lockups'[j], indexer'[j], SumSeq(UnpaidFrom(j), promises'))]
    BY <1>10, <1>12 DEF GrantsOf
  <2>8. G = [j \in 1..Len(lockups) |->
               GrantOf(lockups[j], indexer[j], SumSeq(UnpaidFrom(j), promises))]
    BY <1>12 DEF GrantsOf
  <2>9. ASSUME NEW j \in 1..Len(lockups)
        PROVE  GrantOf(lockups'[j], indexer'[j], SumSeq(UnpaidFrom(j), promises'))
                 = IF j = i THEN [G[i] EXCEPT !.returned = unvested] ELSE G[j]
    <3> DEFINE u == SumSeq(UnpaidFrom(j), promises)
    <3> HIDE DEF u
    <3>1. SumSeq(UnpaidFrom(j), promises') = u /\ G[j] = GrantOf(lockups[j], indexer[j], u)
      BY <2>2, <2>6 DEF u
    <3>2. CASE j = i
      <4>1. GrantOf(n, e, u) = [GrantOf(l, indexer[i], u) EXCEPT !.returned = unvested]
        BY <1>5, <1>9 DEF GrantOf
      <4> QED
        BY <1>10, <1>11, <3>1, <3>2, <4>1 DEF l
    <3>3. CASE j # i
      BY <1>10, <1>11, <3>1, <3>3
    <3> QED
      BY <3>2, <3>3
  <2>10. H = [G EXCEPT ![i].returned = unvested]
    <3>1. H = [j \in 1..Len(lockups) |->
                 IF j = i THEN [G[i] EXCEPT !.returned = unvested] ELSE G[j]]
      BY <2>7, <2>9
    <3>2. DOMAIN G = 1..Len(lockups)
      BY <2>8
    <3> QED
      BY <3>1, <3>2
  <2>11. /\ G[i].payer = b /\ G[i].returned = 0
         /\ H[i].returned = unvested
         /\ unvested \in 1..(G[i].granted - G[i].paid - G[i].returned)
    <3> DEFINE u == SumSeq(UnpaidFrom(i), promises)
    <3>1. G[i] = GrantOf(l, indexer[i], u)
      BY <1>4, <2>6 DEF l
    <3>2. /\ G[i].granted - G[i].paid - G[i].returned
               = total_balance(l.schedule) - l.claimed_balance + u
          /\ u \in Nat /\ l.claimed_balance \in Nat /\ total_balance(l.schedule) \in Nat
      BY <3>1, HeldFacts DEF l
    <3> HIDE DEF u
    <3>3. /\ G[i].payer = b /\ G[i].returned = 0
      BY <1>6, <1>7, <3>1 DEF GrantOf, b
    <3>4. H[i].returned = unvested
      <4>1. H[i] = GrantOf(n, e, SumSeq(UnpaidFrom(i), promises'))
        BY <1>4, <1>10, <1>11, <2>7
      <4> QED
        BY <1>9, <4>1 DEF GrantOf
    <3>5. unvested <= total_balance(l.schedule) - l.claimed_balance + u
      BY <1>5, <3>2
    <3> QED
      BY <1>5, <1>14, <3>2, <3>3, <3>4, <3>5
  <2>12. b # None
    BY <1>6, NoneIsNoValue
  <2>13. TheEscrow!Return(i)
    BY <1>1, <2>4, <2>5, <2>10, <2>11, <2>12 DEF TheEscrow!Return, TheEscrow!Held, G, H
  <2>14. i \in TheEscrow!Grants
    BY <1>4, <2>6 DEF TheEscrow!Grants, G
  <2> QED
    BY <2>13, <2>14 DEF TheEscrow!Next
<1> QED
  BY <1>13, <1>14

LEMMA EscrowUntouched ==
  ASSUME IInv, IInv', UNCHANGED <<lockups, indexer, promises, custody>>
  PROVE  UNCHANGED TheEscrow!evars
BY EscrowStutter

LEMMA EscrowNext ==
  ASSUME ChecksDecideRightly, IInv, Ledger, IInv', [Next]_vars
  PROVE  [TheEscrow!Next]_(TheEscrow!evars)
<1>1. ASSUME NEW sender_id \in Accounts, NEW amount \in Deposits, NEW c \in LockupCreates,
             FtOnTransfer(sender_id, amount, c)
      PROVE  [TheEscrow!Next]_(TheEscrow!evars)
  BY <1>1, EscrowFtOnTransfer DEF TheEscrow!Next
<1>2. ASSUME NEW a \in Accounts, NEW amounts \in AmountRequests(a), Claim(a, amounts)
      PROVE  [TheEscrow!Next]_(TheEscrow!evars)
  BY <1>2, EscrowClaim
<1>3. ASSUME NEW caller \in Accounts, NEW i \in Indices, NEW h \in RevealedSchedules,
             NEW t \in 1..MaxTime, Terminate(caller, i, h, t)
      PROVE  [TheEscrow!Next]_(TheEscrow!evars)
  BY <1>3, EscrowTerminate
<1>4. ASSUME NEW k \in 1..Len(promises),
             \/ FtTransfer(k) \/ AfterFtTransferOk(k)
             \/ AfterFtTransferFailed(k) \/ AfterLockupTermination(k)
      PROVE  [TheEscrow!Next]_(TheEscrow!evars)
  BY <1>4, EscrowFtTransfer, EscrowAfterFtTransferOk, EscrowAfterFtTransferFailed,
     EscrowAfterLockupTermination
<1>5. ASSUME NEW caller \in Accounts, NEW account_ids \in (SUBSET Operators) \ {{}},
             \/ AddToDepositWhitelist(caller, account_ids)
             \/ RemoveFromDepositWhitelist(caller, account_ids)
      PROVE  [TheEscrow!Next]_(TheEscrow!evars)
  BY <1>5, EscrowUntouched DEF AddToDepositWhitelist, RemoveFromDepositWhitelist
<1>6. CASE Tick
  BY <1>6, EscrowUntouched DEF Tick
<1>7. CASE UNCHANGED vars
  BY <1>7, EscrowUntouched DEF vars
<1> QED
  BY <1>1, <1>2, <1>3, <1>4, <1>5, <1>6, <1>7 DEF Next

-----------------------------------------------------------------------------
(* The contract implements the escrow: each token of a lockup goes to its  *)
(* owner or back to its payer, once, however claims, terminations, failed  *)
(* transfers and refund lockups interleave (lib.rs:153-279,                *)
(* callbacks.rs:26-117), as long as vesting schedules that the contract    *)
(* accepts are ahead: one that is not can cut a grant by a token that was  *)
(* claimed (schedule.rs:80-97).                                            *)
THEOREM EscrowImplemented ==
  ASSUME ChecksDecideRightly
  PROVE  Spec => ImplementsEscrow
<1>1. Books /\ Books' /\ [Next]_vars => [TheEscrow!Next]_(TheEscrow!evars)
  BY EscrowNext DEF Books
<1> QED
  BY <1>1, EscrowInit, BooksInvariance, PTL DEF Spec, ImplementsEscrow, TheEscrow!Spec
=============================================================================
