---------------------------- MODULE DraftsProofs ----------------------------
(***************************************************************************)
(* The whole contract, with drafts and their groups: the two maps agree, a *)
(* group is funded once by what its drafts cost, each of them becomes one  *)
(* lockup at most, and the registry keeps what is proved of it alone.      *)
(***************************************************************************)
EXTENDS Drafts, LedgerProofs

-----------------------------------------------------------------------------
(* The balance of a set of drafts.                                         *)

LEMMA DraftBounds ==
  /\ MaxDrafts \in Nat /\ MaxGroups \in Nat /\ MaxAmount \in Nat
  /\ None \notin Draft /\ None \notin DraftGroup
BY DraftBoundsAssumption, NoneIsNoDraft

(* balance_of is a number for every draft in S.                            *)
Counted(S, f) == \A d \in S : balance_of(f[d]) \in Nat

(* What a draft weighs in the balance of S.                                *)
Weight(S, f) == [d \in DraftIds |-> IF d \in S THEN balance_of(f[d]) ELSE 0]

LEMMA BalanceIsWeight ==
  ASSUME NEW S, NEW f
  PROVE  /\ BalanceOf(S, f) = SumTo(Weight(S, f), MaxDrafts)
         /\ \A d \in 1..MaxDrafts : Weight(S, f)[d] = IF d \in S THEN balance_of(f[d]) ELSE 0
BY DEF BalanceOf, Weight, DraftIds

LEMMA BalanceNatural ==
  ASSUME NEW S, NEW f, Counted(S, f)
  PROVE  BalanceOf(S, f) \in Nat
<1>1. \A d \in 1..MaxDrafts : Weight(S, f)[d] \in Nat
  BY BalanceIsWeight DEF Counted
<1> QED
  BY <1>1, BalanceIsWeight, SumOfNaturals, DraftBounds

LEMMA BalanceOfNone ==
  ASSUME NEW f
  PROVE  BalanceOf({}, f) = 0
<1>1. \A d \in 1..MaxDrafts : Weight({}, f)[d] = 0
  BY BalanceIsWeight
<1> QED
  BY <1>1, BalanceIsWeight, SumOfZeros, DraftBounds

LEMMA BalanceOfEquals ==
  ASSUME NEW S, NEW f, NEW g, \A d \in S : f[d] = g[d]
  PROVE  BalanceOf(S, f) = BalanceOf(S, g)
<1>1. \A d \in 1..MaxDrafts : Weight(S, f)[d] = Weight(S, g)[d]
  BY BalanceIsWeight
<1> QED
  BY <1>1, BalanceIsWeight, SumOfEquals, DraftBounds

LEMMA BalanceOfUnion ==
  ASSUME NEW S, NEW T, NEW f, S \cap T = {}, Counted(S, f), Counted(T, f)
  PROVE  BalanceOf(S \cup T, f) = BalanceOf(S, f) + BalanceOf(T, f)
<1>1. ASSUME NEW d \in 1..MaxDrafts
      PROVE  /\ Weight(S, f)[d] \in Int /\ Weight(T, f)[d] \in Int
             /\ Weight(S \cup T, f)[d] = Weight(S, f)[d] + Weight(T, f)[d]
  <2>1. /\ Weight(S, f)[d] = IF d \in S THEN balance_of(f[d]) ELSE 0
        /\ Weight(T, f)[d] = IF d \in T THEN balance_of(f[d]) ELSE 0
        /\ Weight(S \cup T, f)[d] = IF d \in S \cup T THEN balance_of(f[d]) ELSE 0
    BY BalanceIsWeight
  <2>2. d \in S \cup T => balance_of(f[d]) \in Nat
    BY DEF Counted
  <2> QED
    BY <2>1, <2>2
<1> QED
  BY <1>1, BalanceIsWeight, SumOfSums, DraftBounds

LEMMA BalanceOfOne ==
  ASSUME NEW d \in DraftIds, NEW f, balance_of(f[d]) \in Nat
  PROVE  BalanceOf({d}, f) = balance_of(f[d])
<1> DEFINE none == Weight({}, f)
           one == Weight({d}, f)
           w == balance_of(f[d])
<1>1. \A e \in 1..MaxDrafts : none[e] \in Int /\ none[e] = 0
  BY BalanceIsWeight
<1>2. \A e \in 1..MaxDrafts : one[e] = IF e = d THEN none[e] + w ELSE none[e]
  BY <1>1, BalanceIsWeight
<1>3. d \in 1..MaxDrafts /\ w \in Int /\ MaxDrafts \in Nat
  BY DraftBounds DEF DraftIds
<1>4. BalanceOf({d}, f) = SumTo(one, MaxDrafts) /\ SumTo(none, MaxDrafts) = 0
  BY BalanceIsWeight, BalanceOfNone
<1> HIDE DEF none, one, w
<1>5. \A e \in 1..MaxDrafts : none[e] \in Int
  BY <1>1
<1>6. SumTo(one, MaxDrafts) = SumTo(none, MaxDrafts) + w
  BY <1>2, <1>3, <1>5, SumUpdated
<1>7. BalanceOf({d}, f) = w
  BY <1>3, <1>4, <1>6
<1> QED
  BY <1>7 DEF w

LEMMA BalanceOfPart ==
  ASSUME NEW S, NEW T, NEW f, S \subseteq T, Counted(T, f)
  PROVE  /\ BalanceOf(T, f) = BalanceOf(S, f) + BalanceOf(T \ S, f)
         /\ BalanceOf(S, f) \in Nat /\ BalanceOf(T \ S, f) \in Nat /\ BalanceOf(T, f) \in Nat
<1>1. Counted(S, f) /\ Counted(T \ S, f)
  BY DEF Counted
<1>2. S \cap (T \ S) = {} /\ S \cup (T \ S) = T
  OBVIOUS
<1> QED
  BY <1>1, <1>2, BalanceOfUnion, BalanceNatural

-----------------------------------------------------------------------------
(* Balances counted in another order.                                      *)

(* Two sums one after the other.                                           *)
LEMMA SumJoined ==
  ASSUME NEW f, NEW m \in Nat, \A k \in 1..m : f[k] \in Int,
         NEW g, NEW n \in Nat, \A k \in 1..n : g[k] \in Int,
         NEW h, \A k \in 1..m : h[k] = f[k], \A k \in 1..n : h[m + k] = g[k]
  PROVE  SumTo(h, m + n) = SumTo(f, m) + SumTo(g, n)
<1> DEFINE Bad == { k \in 0..n : SumTo(h, m + k) # SumTo(f, m) + SumTo(g, k) }
<1>1. ASSUME Bad # {} PROVE FALSE
  <2>1. PICK k \in Bad : \A j \in Bad : k <= j
    <3>1. Bad \subseteq Nat
      OBVIOUS
    <3> HIDE DEF Bad
    <3> QED
      BY <1>1, <3>1, LeastNatural
  <2>2. k \in 0..n /\ SumTo(h, m + k) # SumTo(f, m) + SumTo(g, k)
    BY <2>1
  <2>3. SumTo(f, m) \in Int
    BY SumOfIntegers
  <2>4. CASE k = 0
    <3>1. SumTo(h, m) = SumTo(f, m)
      BY SumOfEquals
    <3>2. SumTo(g, 0) = 0
      BY SumToZero
    <3> QED
      BY <2>2, <2>3, <2>4, <3>1, <3>2
  <2>5. CASE k # 0
    <3>1. k - 1 \in 0..n /\ k - 1 \notin Bad
      BY <2>1, <2>2, <2>5
    <3>2. SumTo(h, m + (k - 1)) = SumTo(f, m) + SumTo(g, k - 1)
      BY <3>1
    <3>3. k \in Nat \ {0} /\ m + k \in Nat \ {0} /\ (m + k) - 1 = m + (k - 1)
      BY <2>2, <2>5
    <3>4. SumTo(h, m + k) = SumTo(h, m + (k - 1)) + h[m + k]
      <4>1. SumTo(h, m + k) = SumTo(h, (m + k) - 1) + h[m + k]
        BY <3>3, SumToLast
      <4> QED
        BY <3>3, <4>1
    <3>5. SumTo(g, k) = SumTo(g, k - 1) + g[k]
      BY <3>3, SumToLast
    <3>6. h[m + k] = g[k] /\ g[k] \in Int
      BY <2>2, <3>3
    <3>7. SumTo(g, k - 1) \in Int
      BY <3>1, SumOfIntegers
    <3> QED
      BY <2>2, <2>3, <3>2, <3>4, <3>5, <3>6, <3>7
  <2> QED
    BY <2>4, <2>5
<1>2. n \notin Bad
  BY <1>1
<1> QED
  BY <1>2

(* The drafts of S, group by group: `group' says which one each is in.     *)
InGroup(S, group, g) == { d \in S : group[d] = g }

LEMMA BalanceByGroup ==
  ASSUME NEW S, NEW f, Counted(S, f),
         NEW group, \A d \in S : group[d] \in GroupIds,
         NEW p, \A g \in GroupIds : p[g] = BalanceOf(InGroup(S, group, g), f)
  PROVE  SumTo(p, MaxGroups) = BalanceOf(S, f)
<1> DEFINE upto(n) == { d \in S : group[d] \in 1..n }
           Bad == { n \in 0..MaxGroups : SumTo(p, n) # BalanceOf(upto(n), f) }
<1>1. ASSUME Bad # {} PROVE FALSE
  <2>1. PICK n \in Bad : \A j \in Bad : n <= j
    <3>1. Bad \subseteq Nat
      BY DraftBounds
    <3> HIDE DEF Bad
    <3> QED
      BY <1>1, <3>1, LeastNatural
  <2>2. n \in 0..MaxGroups /\ n \in Nat /\ SumTo(p, n) # BalanceOf(upto(n), f)
    BY <2>1, DraftBounds
  <2>3. CASE n = 0
    <3>1. upto(0) = {}
      OBVIOUS
    <3> HIDE DEF upto
    <3> QED
      BY <2>2, <2>3, <3>1, SumToZero, BalanceOfNone
  <2>4. CASE n # 0
    <3> DEFINE last == { d \in S : group[d] = n }
               before == upto(n - 1)
    <3>1. n - 1 \in 0..MaxGroups /\ n - 1 \notin Bad /\ n \in Nat \ {0} /\ n \in GroupIds
      BY <2>1, <2>2, <2>4, DraftBounds DEF GroupIds
    <3>2. SumTo(p, n - 1) = BalanceOf(before, f)
      BY <3>1
    <3>3. SumTo(p, n) = SumTo(p, n - 1) + p[n]
      BY <3>1, SumToLast
    <3>4. p[n] = BalanceOf(last, f)
      BY <3>1 DEF InGroup
    <3>5. upto(n) = before \cup last /\ before \cap last = {}
      BY <3>1 DEF GroupIds
    <3>6. Counted(before, f) /\ Counted(last, f)
      BY DEF Counted
    <3> HIDE DEF upto, before, last
    <3>7. BalanceOf(upto(n), f) = BalanceOf(before, f) + BalanceOf(last, f)
      BY <3>5, <3>6, BalanceOfUnion
    <3> QED
      BY <2>2, <3>2, <3>3, <3>4, <3>7
  <2> QED
    BY <2>3, <2>4
<1>2. MaxGroups \notin Bad
  BY <1>1
<1>3. upto(MaxGroups) = S
  BY DEF GroupIds
<1>4. SumTo(p, MaxGroups) = BalanceOf(upto(MaxGroups), f)
  BY <1>2, DraftBounds
<1> QED
  BY <1>3, <1>4

(* The drafts a sequence names, in the order it names them.                *)
Named(ids, n) == { ids[k] : k \in 1..n }

LEMMA BalanceInOrder ==
  ASSUME NEW f, NEW n \in Nat, NEW ids, \A k \in 1..n : ids[k] \in DraftIds,
         \A j, k \in 1..n : ids[j] = ids[k] => j = k,
         Counted(Named(ids, n), f),
         NEW w, \A k \in 1..n : w[k] = balance_of(f[ids[k]])
  PROVE  SumTo(w, n) = BalanceOf(Named(ids, n), f)
<1> DEFINE Bad == { m \in 0..n : SumTo(w, m) # BalanceOf(Named(ids, m), f) }
<1>1. ASSUME Bad # {} PROVE FALSE
  <2>1. PICK m \in Bad : \A j \in Bad : m <= j
    <3>1. Bad \subseteq Nat
      OBVIOUS
    <3> HIDE DEF Bad
    <3> QED
      BY <1>1, <3>1, LeastNatural
  <2>2. m \in 0..n /\ m \in Nat /\ SumTo(w, m) # BalanceOf(Named(ids, m), f)
    BY <2>1
  <2>3. CASE m = 0
    <3>1. Named(ids, 0) = {}
      BY DEF Named
    <3> QED
      BY <2>2, <2>3, <3>1, SumToZero, BalanceOfNone
  <2>4. CASE m # 0
    <3> DEFINE before == Named(ids, m - 1)
               d == ids[m]
    <3>1. m - 1 \in 0..n /\ m - 1 \notin Bad /\ m \in Nat \ {0} /\ m \in 1..n
      BY <2>1, <2>2, <2>4
    <3>2. SumTo(w, m - 1) = BalanceOf(before, f)
      BY <3>1
    <3>3. SumTo(w, m) = SumTo(w, m - 1) + w[m]
      BY <3>1, SumToLast
    <3>4. d \in DraftIds /\ d \in Named(ids, n) /\ w[m] = balance_of(f[d])
      BY <3>1 DEF Named
    <3>5. Named(ids, m) = before \cup {d}
      BY <3>1 DEF Named
    <3>6. before \cap {d} = {}
      BY <3>1 DEF Named
    <3>7. Counted(before, f) /\ Counted({d}, f) /\ balance_of(f[d]) \in Nat
      BY <3>1, <3>4 DEF Counted, Named
    <3> HIDE DEF before, d
    <3>8. BalanceOf(before \cup {d}, f) = BalanceOf(before, f) + BalanceOf({d}, f)
      BY <3>6, <3>7, BalanceOfUnion
    <3>9. BalanceOf({d}, f) = balance_of(f[d])
      BY <3>4, <3>7, BalanceOfOne
    <3> QED
      BY <2>2, <3>2, <3>3, <3>4, <3>5, <3>8, <3>9
  <2> QED
    BY <2>3, <2>4
<1>2. n \notin Bad
  BY <1>1
<1> QED
  BY <1>2

-----------------------------------------------------------------------------
(* The inductive invariant.                                                *)

(* What create_drafts checked of a draft, whoever will pay for it.         *)
Checked(draft) ==
  /\ assert_valid(draft.lockup_create.schedule, balance_of(draft))
  /\ \A p \in Accounts : assert_new_valid(into_lockup(draft.lockup_create, p), balance_of(draft))

(* A draft is as it was written and not converted; ids count up.           *)
History ==
  \A d \in DraftIds :
    /\ drafts[d] # None => drafts[d] = written[d] /\ converted[d] = 0
    /\ converted[d] # 0 => written[d] # None
    /\ written[d] # None => /\ d < next_draft_id
                            /\ written[d].draft_group_id < next_draft_group_id
                            /\ Checked(written[d])

(* A group has a payer exactly when a funding of it was accepted, and is   *)
(* then not discarded; until it has one it keeps all its drafts.           *)
FinancedGroup(g) ==
  /\ \A f \in Accepted(g) : g < next_draft_group_id
  /\ g >= next_draft_group_id => draft_groups[g] = None
  /\ draft_groups[g] # None =>
       /\ draft_groups[g].payer_id = None => Accepted(g) = {}
       /\ draft_groups[g].payer_id # None =>
            /\ ~draft_groups[g].discarded
            /\ \E f \in Accepted(g) : fundings[f].sender_id = draft_groups[g].payer_id
       /\ Open(g) => \A d \in WrittenFor(g) : drafts[d] # None

Financed == \A g \in GroupIds : FinancedGroup(g)

(* The maps alone; the registry is carried along by its own invariants.    *)
DraftsInv == /\ DraftsTypeOK
             /\ GroupsAddUp
             /\ History
             /\ Financed
             /\ FundingBuysItsDrafts
             /\ ConvertedAsWritten

-----------------------------------------------------------------------------
(* What the types say of single drafts, groups and fundings.               *)

LEMMA DraftTypes ==
  ASSUME DraftsTypeOK
  PROVE  /\ next_draft_id \in Nat /\ next_draft_group_id \in Nat
         /\ Len(lockups) \in Nat /\ Len(fundings) \in Nat
         /\ \A d \in DraftIds : /\ d \in Nat
                                /\ drafts[d] # None => drafts[d] \in Draft
                                /\ written[d] # None => written[d] \in Draft
                                /\ converted[d] \in 0..Len(lockups)
         /\ \A g \in GroupIds : /\ g \in Nat
                                /\ draft_groups[g] # None => draft_groups[g] \in DraftGroup
         /\ \A f \in 1..Len(fundings) : fundings[f] \in Funding
<1>1. TypeOK /\ Len(lockups) \in Nat
  BY TypeFacts DEF DraftsTypeOK
<1>2. fundings \in Seq(Funding)
  BY DEF DraftsTypeOK
<1>3. Len(fundings) \in Nat /\ \A f \in 1..Len(fundings) : fundings[f] \in Funding
  BY <1>2, LenProperties, ElementOfSeq
<1> QED
  BY <1>1, <1>3, DraftBounds DEF DraftsTypeOK, DraftIds, GroupIds

LEMMA DraftFields ==
  ASSUME NEW draft \in Draft
  PROVE  /\ draft # None
         /\ draft.draft_group_id \in GroupIds
         /\ draft.lockup_create \in LockupCreates
         /\ draft.lockup_create.schedule \in Schedules
         /\ draft.lockup_create.account_id \in Accounts
BY DraftBounds, LockupCreatesAssumption DEF Draft, LockupCreate

LEMMA CheckedBalance ==
  ASSUME NEW draft \in Draft, Checked(draft)
  PROVE  balance_of(draft) \in Nat /\ balance_of(draft) > 0
<1> DEFINE s == draft.lockup_create.schedule
<1>1. s \in Schedules /\ Increasing(s) /\ total_balance(s) > 0 /\ balance_of(draft) = total_balance(s)
  BY DraftFields DEF Checked, assert_valid, balance_of
<1>2. Len(s) \in 1..Len(s) /\ s[Len(s)].balance \in Nat
  <2>1. Len(s) \in Nat /\ Len(s) >= 2
    BY <1>1, ScheduleElements DEF Increasing
  <2> QED
    BY <1>1, <2>1, ScheduleElements
<1> QED
  BY <1>1, <1>2 DEF total_balance

(* Every draft weighs what it was checked to.                              *)
LEMMA DraftsCounted ==
  ASSUME DraftsTypeOK, History
  PROVE  /\ \A d \in DraftIds : drafts[d] # None => balance_of(drafts[d]) \in Nat
         /\ \A d \in DraftIds : written[d] # None => balance_of(written[d]) \in Nat
         /\ \A g \in GroupIds : Counted(DraftsOf(g), drafts) /\ Counted(WrittenFor(g), written)
<1>1. \A d \in DraftIds : written[d] # None => balance_of(written[d]) \in Nat
  BY DraftTypes, CheckedBalance DEF History
<1>2. \A d \in DraftIds : drafts[d] # None => balance_of(drafts[d]) \in Nat
  <2> SUFFICES ASSUME NEW d \in DraftIds, drafts[d] # None PROVE balance_of(drafts[d]) \in Nat
    OBVIOUS
  <2>1. drafts[d] = written[d]
    BY DEF History
  <2> QED
    BY <1>1, <2>1
<1> QED
  BY <1>1, <1>2 DEF Counted, DraftsOf, WrittenFor

(* No step of the registry changes how many lockups there were, or what    *)
(* they were created as.                                                   *)
CreatedKept == /\ Len(lockups) <= Len(lockups')
               /\ \A i \in Indices : indexer'[i].lockup = indexer[i].lockup

LEMMA KeepsCreated ==
  ASSUME IInv, [Next]_vars
  PROVE  CreatedKept
<1>1. /\ Len(lockups) \in Nat /\ Len(indexer) = Len(lockups)
      /\ lockups \in Seq(LockupType)
      /\ indexer \in Seq([lockup : LockupType, claimed : Nat, unvested : Nat])
      /\ \A i \in Indices : indexer[i] \in [lockup : LockupType, claimed : Nat, unvested : Nat]
  BY TypeFacts DEF IInv, TypeOK
<1>2. ASSUME NEW l, lockups' = Append(lockups, l), NEW e, indexer' = Append(indexer, e)
      PROVE  CreatedKept
  BY <1>1, <1>2, AppendProperties DEF CreatedKept, Indices
<1>3. ASSUME Len(lockups') = Len(lockups),
             \A i \in Indices : indexer'[i].lockup = indexer[i].lockup
      PROVE  CreatedKept
  BY <1>1, <1>3 DEF CreatedKept
<1>4. ASSUME NEW sender_id \in Accounts, NEW amount \in Deposits, NEW c \in LockupCreates,
             FtOnTransfer(sender_id, amount, c)
      PROVE  CreatedKept
  BY <1>2, <1>4 DEF FtOnTransfer, internal_add_lockup
<1>5. ASSUME NEW a \in Accounts, NEW amounts \in AmountRequests(a), Claim(a, amounts)
      PROVE  CreatedKept
  <2>1. indexer' = indexer /\ DOMAIN lockups' = 1..Len(lockups)
    BY <1>5 DEF Claim, Indices
  <2>2. lockups' \in Seq({ lockups'[i] : i \in Indices }) /\ Len(lockups') = Len(lockups)
    <3> DEFINE f == [i \in 1..Len(lockups) |->
                  [lockups[i] EXCEPT !.claimed_balance =
                     @ + (IF i \in DOMAIN amounts THEN requested_amount(amounts, i) ELSE 0)]]
    <3>1. lockups' = f
      BY <1>5 DEF Claim, Indices
    <3>2. f \in [1..Len(lockups) -> { f[i] : i \in Indices }]
      BY DEF Indices
    <3>3. Len(lockups) \in Nat
      BY <1>1
    <3> HIDE DEF f
    <3>4. f \in Seq({ f[i] : i \in Indices }) /\ Len(f) = Len(lockups)
      BY ONLY <3>2, <3>3, FunctionIsSeq
    <3> QED
      BY ONLY <3>1, <3>4
  <2> QED
    BY <1>3, <2>1, <2>2
<1>6. ASSUME NEW caller \in Accounts, NEW i \in Indices, NEW h, NEW f \in 1..MaxTime,
             Terminate(caller, i, h, f)
      PROVE  CreatedKept
  <2> DEFINE u == unvested_balance(lockups[i], f)
             l == terminate_lockup(lockups[i], f)
  <2>1. lockups' = [lockups EXCEPT ![i] = l] /\ indexer' = [indexer EXCEPT ![i].unvested = u]
    BY <1>6 DEF Terminate
  <2> HIDE DEF u, l
  <2>2. Len(lockups') = Len(lockups)
    BY <1>1, <2>1
  <2>3. \A j \in Indices : indexer'[j].lockup = indexer[j].lockup
    BY <1>1, <2>1 DEF Indices
  <2> QED
    BY <1>3, <2>2, <2>3
<1>7. ASSUME NEW k \in 1..Len(promises), FtTransfer(k)
      PROVE  CreatedKept
  BY <1>3, <1>7 DEF FtTransfer
<1>8. ASSUME NEW k \in 1..Len(promises), AfterFtTransferOk(k)
      PROVE  CreatedKept
  <2>1. lockups' = lockups
    BY <1>8 DEF AfterFtTransferOk
  <2>2. \A i \in Indices : indexer'[i] = [indexer[i] EXCEPT !.claimed =
                                            @ + promises[k].claims[i].claim_amount]
    BY <1>8 DEF AfterFtTransferOk
  <2>3. \A i \in Indices : indexer'[i].lockup = indexer[i].lockup
    BY <1>1, <2>2
  <2> QED
    BY <1>3, <2>1, <2>3
<1>9. ASSUME NEW k \in 1..Len(promises), AfterFtTransferFailed(k)
      PROVE  CreatedKept
  <2>1. indexer' = indexer
    BY <1>9 DEF AfterFtTransferFailed
  <2> DEFINE f == [i \in 1..Len(lockups) |-> [lockups[i] EXCEPT !.claimed_balance =
                                                @ - promises[k].claims[i].claim_amount]]
  <2>2. lockups' = f
    BY <1>9 DEF AfterFtTransferFailed, Indices
  <2>3. f \in [1..Len(lockups) -> { f[i] : i \in Indices }]
    BY DEF Indices
  <2> HIDE DEF f
  <2>4. Len(lockups') = Len(lockups)
    BY <1>1, <2>2, <2>3, FunctionIsSeq
  <2> QED
    BY <1>3, <2>1, <2>4
<1>10. ASSUME NEW k \in 1..Len(promises), AfterLockupTermination(k)
       PROVE  CreatedKept
  BY <1>2, <1>3, <1>10 DEF AfterLockupTermination, internal_add_lockup
<1>11. ASSUME UNCHANGED <<lockups, indexer>>
       PROVE  CreatedKept
  BY <1>3, <1>11
<1> QED
  BY <1>4, <1>5, <1>6, <1>7, <1>8, <1>9, <1>10, <1>11
     DEF Next, vars, AddToDepositWhitelist, RemoveFromDepositWhitelist, Tick

-----------------------------------------------------------------------------
(* What create_drafts does to single drafts and groups.                    *)

NewIds(batch) == next_draft_id..(next_draft_id + Len(batch) - 1)

(* The drafts of N that are of group g, as records in the function f.      *)
OfGroup(N, f, g) == { d \in N : f[d].draft_group_id = g }

(* Drafts N come to the map, open and checked; the others stay.            *)
DraftsAdded(N) ==
  /\ N \subseteq DraftIds
  /\ \A d \in DraftIds \ N : drafts'[d] = drafts[d] /\ written'[d] = written[d]
  /\ \A d \in N : /\ drafts'[d] \in Draft /\ written'[d] = drafts'[d] /\ Checked(drafts'[d])
                  /\ next_draft_id <= d /\ d < next_draft_id'
                  /\ Open(drafts'[d].draft_group_id)

(* Their groups take them up.                                              *)
GroupsExtended(N) ==
  \A g \in GroupIds :
    /\ OfGroup(N, drafts', g) = {} => draft_groups'[g] = draft_groups[g]
    /\ OfGroup(N, drafts', g) # {} =>
         LET total == draft_groups[g].total_amount + BalanceOf(OfGroup(N, drafts', g), drafts')
         IN  /\ total <= MaxAmount
             /\ draft_groups'[g] =
                  [draft_groups[g] EXCEPT !.total_amount = total,
                                          !.draft_indices = @ \cup OfGroup(N, drafts', g)]

LEMMA CheckedForAll ==
  ASSUME NEW draft \in Draft, NEW caller \in Accounts,
         assert_new_valid(into_lockup(draft.lockup_create, caller), balance_of(draft))
  PROVE  Checked(draft)
<1> DEFINE c == draft.lockup_create
           b == balance_of(draft)
           Vested == c.vesting_schedule.kind = "Schedule" =>
                       /\ assert_valid(c.vesting_schedule.schedule, b)
                       /\ assert_valid_termination_schedule(c.schedule, c.vesting_schedule.schedule)
<1>1. c.vesting_schedule # None => c.vesting_schedule \in VestingConditions
  BY LockupCreatesAssumption DEF Draft, LockupCreate
<1>2. ASSUME NEW p \in Accounts
      PROVE  assert_new_valid(into_lockup(c, p), b) <=>
               assert_valid(c.schedule, b) /\ (c.vesting_schedule # None => Vested)
  <2> DEFINE l == into_lockup(c, p)
             config == [beneficiary_id |-> p, vesting_schedule |-> c.vesting_schedule]
  <2>1. /\ l.schedule = c.schedule /\ l.claimed_balance = 0
        /\ l.termination_config = IF c.vesting_schedule = None THEN None ELSE config
    BY DEF into_lockup
  <2>2. c.vesting_schedule # None => config # None
    <3>1. c.vesting_schedule # None => config \in TerminationConfig
      BY <1>1 DEF TerminationConfig
    <3> QED
      BY <3>1, NoneIsNoValue
  <2>3. config.vesting_schedule = c.vesting_schedule
    OBVIOUS
  <2> HIDE DEF l, config, c, b
  <2> QED
    BY <2>1, <2>2, <2>3 DEF assert_new_valid, l
<1> QED
  BY <1>2 DEF Checked

LEMMA BatchLength ==
  ASSUME NEW batch \in Batches
  PROVE  /\ Len(batch) \in Nat /\ Len(batch) >= 1
         /\ \A k \in 1..Len(batch) : batch[k] \in Draft
<1>1. PICK n \in 1..MaxBatch : batch \in [1..n -> Draft]
  BY DEF Batches
<1>2. n \in Nat /\ n >= 1
  BY <1>1, DraftBoundsAssumption
<1>3. Len(batch) = n
  BY <1>1, <1>2, FunctionIsSeq
<1> QED
  BY <1>1, <1>2, <1>3

LEMMA BatchAdded ==
  ASSUME DraftsTypeOK, NEW caller \in Accounts, NEW batch \in Batches, CreateDrafts(caller, batch)
  PROVE  /\ next_draft_id' \in next_draft_id..(MaxDrafts + 1)
         /\ DraftsAdded(NewIds(batch))
<1> DEFINE N == NewIds(batch)
           n == Len(batch)
           old == next_draft_id
<1>1. n \in Nat /\ n >= 1 /\ \A k \in 1..n : batch[k] \in Draft
  BY BatchLength
<1>2. old \in Nat /\ old >= 1 /\ MaxDrafts \in Nat /\ old <= MaxDrafts + 1
  BY DraftTypes, DraftBounds DEF DraftsTypeOK
<1>3. N = old..(old + n - 1) /\ next_draft_id' = old + n /\ N \subseteq DraftIds
  BY DEF CreateDrafts, NewIds
<1>4. old + n - 1 \in N
  BY <1>1, <1>2, <1>3
<1>5. next_draft_id' \in old..(MaxDrafts + 1)
  BY <1>1, <1>2, <1>3, <1>4 DEF DraftIds
<1>6. /\ drafts' = [d \in DraftIds |-> IF d \in N THEN batch[d - old + 1] ELSE drafts[d]]
      /\ written' = [d \in DraftIds |-> IF d \in N THEN batch[d - old + 1] ELSE written[d]]
  BY DEF CreateDrafts, NewIds
<1>7. \A k \in 1..n : /\ Open(batch[k].draft_group_id)
                      /\ assert_new_valid(into_lockup(batch[k].lockup_create, caller),
                                          balance_of(batch[k]))
  BY DEF CreateDrafts
<1>8. \A k \in 1..n : Checked(batch[k])
  BY <1>1, <1>7, CheckedForAll
<1> HIDE DEF N, n, old
<1>9. ASSUME NEW d \in N
      PROVE  /\ drafts'[d] \in Draft /\ written'[d] = drafts'[d] /\ Checked(drafts'[d])
             /\ old <= d /\ d < next_draft_id'
             /\ Open(drafts'[d].draft_group_id)
  <2> DEFINE k == d - old + 1
  <2>1. d \in DraftIds /\ k \in 1..n /\ old <= d /\ d < old + n
    BY <1>1, <1>2, <1>3, <1>9
  <2>2. drafts'[d] = batch[k] /\ written'[d] = batch[k]
    BY <1>6, <1>9, <2>1
  <2> HIDE DEF k
  <2> QED
    BY <1>1, <1>3, <1>7, <1>8, <2>1, <2>2
<1>10. \A d \in DraftIds \ N : drafts'[d] = drafts[d] /\ written'[d] = written[d]
  BY <1>6
<1> QED
  BY <1>3, <1>5, <1>9, <1>10 DEF DraftsAdded, N, old

LEMMA BatchGrouped ==
  ASSUME DraftsTypeOK, NEW caller \in Accounts, NEW batch \in Batches, CreateDrafts(caller, batch)
  PROVE  GroupsExtended(NewIds(batch))
<1> DEFINE N == NewIds(batch)
           of(g) == OfGroup(N, drafts', g)
<1>1. N \subseteq DraftIds /\ \A d \in N : drafts'[d] \in Draft /\ Checked(drafts'[d])
                                           /\ Open(drafts'[d].draft_group_id)
  BY BatchAdded DEF DraftsAdded
<1>2. ASSUME NEW g \in GroupIds
      PROVE  of(g) = { d \in N : batch[d - next_draft_id + 1].draft_group_id = g }
  <2>1. drafts' = [d \in DraftIds |-> IF d \in N THEN batch[d - next_draft_id + 1] ELSE drafts[d]]
    BY DEF CreateDrafts, NewIds
  <2>2. \A d \in N : drafts'[d] = batch[d - next_draft_id + 1]
    BY <1>1, <2>1
  <2> QED
    BY <2>2 DEF OfGroup
<1>3. ASSUME NEW g \in GroupIds
      PROVE  /\ of(g) # {} => checked_add(draft_groups[g], of(g), drafts')
             /\ draft_groups'[g] = IF of(g) = {} THEN draft_groups[g]
                                   ELSE WithDrafts(draft_groups[g], of(g), drafts')
  <2> HIDE DEF of
  <2> QED
    BY <1>2 DEF CreateDrafts, NewIds, N
<1>4. ASSUME NEW g \in GroupIds, of(g) # {}
      PROVE  LET total == draft_groups[g].total_amount + BalanceOf(of(g), drafts')
             IN  /\ total <= MaxAmount
                 /\ draft_groups'[g] = [draft_groups[g] EXCEPT !.total_amount = total,
                                                               !.draft_indices = @ \cup of(g)]
  <2> DEFINE a == draft_groups[g].total_amount
             b == BalanceOf(of(g), drafts')
  <2>1. Open(g)
    BY <1>1, <1>4 DEF OfGroup
  <2>2. draft_groups[g] \in DraftGroup
    BY <2>1, DraftTypes DEF Open
  <2>3. a \in Nat
    BY <2>2, DraftBounds DEF DraftGroup
  <2>4. Counted(of(g), drafts')
    BY <1>1, CheckedBalance DEF Counted, OfGroup
  <2>5. b \in Nat
    BY <2>4, BalanceNatural
  <2>6. a + b <= MaxAmount /\ draft_groups'[g] = WithDrafts(draft_groups[g], of(g), drafts')
    BY <1>3, <1>4 DEF checked_add
  <2>7. draft_groups'[g] =
          [draft_groups[g] EXCEPT !.total_amount = (a + b) % (MaxAmount + 1),
                                  !.draft_indices = @ \cup of(g)]
    BY <2>6 DEF WithDrafts
  <2> HIDE DEF a, b, of
  <2>8. (a + b) % (MaxAmount + 1) = a + b
    BY <2>3, <2>5, <2>6, DraftBounds
  <2> QED
    BY <2>6, <2>7, <2>8 DEF a, b
<1> QED
  BY <1>3, <1>4 DEF GroupsExtended

-----------------------------------------------------------------------------
(* New drafts keep the invariant.                                          *)

(* The drafts of a group are the ones it had and the new ones.             *)
LEMMA AddedDraftsOf ==
  ASSUME DraftsTypeOK, History, NEW N, DraftsAdded(N), NEW g \in GroupIds
  PROVE  /\ DraftsOf(g)' = DraftsOf(g) \cup OfGroup(N, drafts', g)
         /\ DraftsOf(g) \cap OfGroup(N, drafts', g) = {}
         /\ \A d \in DraftsOf(g) : drafts'[d] = drafts[d]
         /\ WrittenFor(g)' = WrittenFor(g) \cup OfGroup(N, drafts', g)
         /\ \A d \in WrittenFor(g) : written'[d] = written[d]
         /\ Counted(DraftsOf(g), drafts') /\ Counted(OfGroup(N, drafts', g), drafts')
<1>1. N \subseteq DraftIds /\ \A d \in N : /\ drafts'[d] \in Draft /\ drafts'[d] # None
                                           /\ written'[d] = drafts'[d]
                                           /\ balance_of(drafts'[d]) \in Nat
  BY CheckedBalance, DraftFields DEF DraftsAdded
<1>2. \A d \in DraftIds \ N : drafts'[d] = drafts[d] /\ written'[d] = written[d]
  BY DEF DraftsAdded
<1>3. \A d \in N : written[d] = None /\ drafts[d] = None
  <2> SUFFICES ASSUME NEW d \in N PROVE written[d] = None /\ drafts[d] = None
    OBVIOUS
  <2>1. d \in DraftIds /\ d \in Nat /\ next_draft_id \in Nat /\ next_draft_id <= d
    BY <1>1, DraftTypes DEF DraftsAdded
  <2>2. written[d] = None
    BY <2>1 DEF History
  <2> QED
    BY <2>1, <2>2 DEF History
<1>4. \A d \in DraftsOf(g) : balance_of(drafts[d]) \in Nat
  BY DraftsCounted DEF Counted
<1> QED
  BY <1>1, <1>2, <1>3, <1>4 DEF DraftsOf, WrittenFor, OfGroup, Counted

LEMMA GroupsTyped ==
  ASSUME DraftsTypeOK, History, NEW N, DraftsAdded(N), GroupsExtended(N),
         NEW g \in GroupIds, draft_groups[g] # None
  PROVE  /\ draft_groups'[g] \in DraftGroup
         /\ draft_groups'[g].payer_id = draft_groups[g].payer_id
         /\ draft_groups'[g].discarded = draft_groups[g].discarded
<1> DEFINE of == OfGroup(N, drafts', g)
           total == draft_groups[g].total_amount + BalanceOf(of, drafts')
<1>1. draft_groups[g] \in DraftGroup
  BY DraftTypes
<1>2. of \subseteq DraftIds
  BY DEF DraftsAdded, OfGroup
<1>3. BalanceOf(of, drafts') \in Nat
  BY AddedDraftsOf, BalanceNatural
<1>4. total \in Nat
  <2>1. draft_groups[g].total_amount \in Nat
    BY <1>1, DraftBounds DEF DraftGroup
  <2> HIDE DEF of
  <2> QED
    BY <1>3, <2>1
<1>5. CASE of = {}
  BY <1>1, <1>5 DEF GroupsExtended
<1>6. CASE of # {}
  <2>1. total <= MaxAmount /\ draft_groups'[g] =
           [draft_groups[g] EXCEPT !.total_amount = total, !.draft_indices = @ \cup of]
    BY <1>6 DEF GroupsExtended
  <2> HIDE DEF total, of
  <2>2. total \in 0..MaxAmount
    BY <1>4, <2>1, DraftBounds
  <2> QED
    BY <1>1, <1>2, <2>1, <2>2 DEF DraftGroup
<1> QED
  BY <1>5, <1>6

LEMMA AddUpAdded ==
  ASSUME DraftsTypeOK, GroupsAddUp, History, NEW N, DraftsAdded(N), GroupsExtended(N)
  PROVE  GroupsAddUp'
<1> DEFINE of(g) == OfGroup(N, drafts', g)
<1>1. ASSUME NEW g \in GroupIds, draft_groups'[g] # None
      PROVE  /\ draft_groups[g] # None
             /\ draft_groups'[g].draft_indices = DraftsOf(g)'
             /\ draft_groups'[g].total_amount = BalanceOf(DraftsOf(g)', drafts')
             /\ DraftsOf(g)' = {} => Open(g)'
  <2>1. /\ DraftsOf(g)' = DraftsOf(g) \cup of(g) /\ DraftsOf(g) \cap of(g) = {}
        /\ \A d \in DraftsOf(g) : drafts[d] = drafts'[d]
        /\ Counted(DraftsOf(g), drafts') /\ Counted(of(g), drafts')
    BY AddedDraftsOf
  <2>2. BalanceOf(DraftsOf(g), drafts) = BalanceOf(DraftsOf(g), drafts')
    BY <2>1, BalanceOfEquals
  <2>3. CASE of(g) = {}
    <3>1. draft_groups'[g] = draft_groups[g] /\ DraftsOf(g)' = DraftsOf(g)
      BY <2>1, <2>3 DEF GroupsExtended
    <3>2. g \in Groups
      BY <1>1, <3>1 DEF Groups
    <3>3. DraftsOf(g) = {} => Open(g)'
      BY <3>1, <3>2 DEF GroupsAddUp, Open
    <3> QED
      BY <2>2, <3>1, <3>2, <3>3 DEF GroupsAddUp, Groups
  <2>4. CASE of(g) # {}
    <3>1. Open(g)
      BY <2>4 DEF DraftsAdded, OfGroup
    <3>2. g \in Groups /\ draft_groups[g] \in DraftGroup
      BY <3>1, DraftTypes DEF Open, Groups
    <3>3. draft_groups'[g] = [draft_groups[g] EXCEPT
            !.total_amount = draft_groups[g].total_amount + BalanceOf(of(g), drafts'),
            !.draft_indices = @ \cup of(g)]
      BY <2>4 DEF GroupsExtended
    <3>4. draft_groups[g].draft_indices = DraftsOf(g)
          /\ draft_groups[g].total_amount = BalanceOf(DraftsOf(g), drafts)
      BY <3>2 DEF GroupsAddUp
    <3>5. BalanceOf(DraftsOf(g) \cup of(g), drafts')
            = BalanceOf(DraftsOf(g), drafts') + BalanceOf(of(g), drafts')
      BY <2>1, BalanceOfUnion
    <3> HIDE DEF of
    <3>6. draft_groups'[g].draft_indices = DraftsOf(g) \cup of(g)
          /\ draft_groups'[g].total_amount
               = BalanceOf(DraftsOf(g), drafts) + BalanceOf(of(g), drafts')
      BY <3>2, <3>3, <3>4 DEF DraftGroup
    <3>7. DraftsOf(g)' # {}
      BY <2>1, <2>4
    <3> QED
      BY <2>1, <2>2, <3>2, <3>5, <3>6, <3>7 DEF Groups
  <2> QED
    BY <2>3, <2>4
<1>2. ASSUME NEW d \in DraftIds, drafts'[d] # None
      PROVE  drafts'[d].draft_group_id \in Groups'
  <2> DEFINE g == drafts'[d].draft_group_id
  <2>1. g \in GroupIds /\ draft_groups[g] # None
    <3>1. CASE d \in N
      BY <3>1, DraftFields DEF DraftsAdded, Open
    <3>2. CASE d \notin N
      BY <1>2, <3>2 DEF DraftsAdded, GroupsAddUp, Groups
    <3> QED
      BY <3>1, <3>2
  <2> HIDE DEF g
  <2>2. draft_groups'[g] # None
    BY <2>1, GroupsTyped, DraftBounds
  <2> QED
    BY <2>1, <2>2 DEF g, Groups
<1> QED
  BY <1>1, <1>2 DEF GroupsAddUp, Groups

(* Nothing happens to the accepted fundings.                               *)
AcceptedKept ==
  \A g \in GroupIds :
    /\ Accepted(g)' = Accepted(g)
    /\ \A f \in Accepted(g) : /\ fundings'[f].sender_id = fundings[f].sender_id
                              /\ fundings'[f].amount = fundings[f].amount

LEMMA SameFundings ==
  ASSUME fundings' = fundings
  PROVE  AcceptedKept
BY DEF AcceptedKept, Accepted

LEMMA SamePurchases ==
  ASSUME FundingBuysItsDrafts,
         fundings' = fundings, drafts' = drafts, written' = written, converted' = converted
  PROVE  FundingBuysItsDrafts'
<1> SUFFICES ASSUME NEW g \in GroupIds, NEW f \in Accepted(g)'
             PROVE  /\ Accepted(g)' = {f}
                    /\ fundings'[f].amount = BalanceOf(WrittenFor(g)', written')
                    /\ \A d \in WrittenFor(g)' : converted'[d] = 0 <=> drafts'[d] # None
  BY DEF FundingBuysItsDrafts
<1>1. Accepted(g)' = Accepted(g) /\ WrittenFor(g)' = WrittenFor(g)
  BY DEF Accepted, WrittenFor
<1> QED
  BY <1>1 DEF FundingBuysItsDrafts

LEMMA HistoryAdded ==
  ASSUME DraftsTypeOK, History, NEW N, DraftsAdded(N),
         next_draft_id' \in Nat, next_draft_id <= next_draft_id',
         next_draft_group_id' = next_draft_group_id, converted' = converted, Financed
  PROVE  History'
<1> SUFFICES ASSUME NEW d \in DraftIds
             PROVE  /\ drafts'[d] # None => drafts'[d] = written'[d] /\ converted'[d] = 0
                    /\ converted'[d] # 0 => written'[d] # None
                    /\ written'[d] # None => /\ d < next_draft_id'
                                             /\ written'[d].draft_group_id < next_draft_group_id'
                                             /\ Checked(written'[d])
  BY DEF History, Checked, balance_of
<1>1. d \in Nat /\ next_draft_id \in Nat /\ next_draft_group_id \in Nat
  BY DraftTypes
<1>2. CASE d \in N
  <2>1. /\ drafts'[d] \in Draft /\ written'[d] = drafts'[d] /\ Checked(drafts'[d])
        /\ next_draft_id <= d /\ d < next_draft_id' /\ Open(drafts'[d].draft_group_id)
    BY <1>2 DEF DraftsAdded
  <2>2. written[d] = None /\ converted[d] = 0
    BY <1>1, <2>1 DEF History
  <2>3. drafts'[d].draft_group_id \in GroupIds /\ drafts'[d].draft_group_id \in Nat
    BY <2>1, DraftFields, DraftTypes
  <2>4. ~(drafts'[d].draft_group_id >= next_draft_group_id)
    BY <2>1, <2>3 DEF Financed, FinancedGroup, Open
  <2> QED
    BY <1>1, <2>1, <2>2, <2>3, <2>4
<1>3. CASE d \notin N
  <2>1. drafts'[d] = drafts[d] /\ written'[d] = written[d]
    BY <1>3 DEF DraftsAdded
  <2> QED
    BY <1>1, <2>1 DEF History
<1> QED
  BY <1>2, <1>3

LEMMA FinancedAdded ==
  ASSUME DraftsTypeOK, History, Financed, NEW N, DraftsAdded(N), GroupsExtended(N),
         AcceptedKept, next_draft_group_id' = next_draft_group_id
  PROVE  Financed'
<1> SUFFICES ASSUME NEW g \in GroupIds PROVE FinancedGroup(g)'
  BY DEF Financed
<1>1. FinancedGroup(g)
  BY DEF Financed
<1>2. draft_groups[g] = None => draft_groups'[g] = None
  <2>1. OfGroup(N, drafts', g) # {} => draft_groups[g] # None
    BY DEF DraftsAdded, OfGroup, Open
  <2> QED
    BY <2>1 DEF GroupsExtended
<1>3. draft_groups[g] # None => /\ draft_groups'[g].payer_id = draft_groups[g].payer_id
                                /\ draft_groups'[g].discarded = draft_groups[g].discarded
  BY GroupsTyped
<1>4. /\ Accepted(g)' = Accepted(g)
      /\ \A f \in Accepted(g) : fundings'[f].sender_id = fundings[f].sender_id
  BY DEF AcceptedKept
<1>5. ASSUME Open(g)', NEW d \in WrittenFor(g)' PROVE drafts'[d] # None
  <2>1. Open(g)
    BY <1>2, <1>3, <1>5 DEF Open
  <2>2. CASE d \in WrittenFor(g)
    <3>1. drafts[d] # None /\ d \in DraftIds
      BY <1>1, <2>1, <2>2 DEF FinancedGroup, Open, WrittenFor
    <3>2. d \in N => drafts'[d] # None
      BY DraftFields DEF DraftsAdded
    <3> QED
      BY <3>1, <3>2 DEF DraftsAdded
  <2>3. CASE d \notin WrittenFor(g)
    <3>1. d \in OfGroup(N, drafts', g)
      BY <1>5, <2>3, AddedDraftsOf
    <3>2. d \in N
      BY <3>1 DEF OfGroup
    <3> QED
      BY <3>2, DraftFields DEF DraftsAdded
  <2> QED
    BY <2>2, <2>3
<1> QED
  BY <1>1, <1>2, <1>3, <1>4, <1>5 DEF FinancedGroup

LEMMA FundingAdded ==
  ASSUME DraftsTypeOK, History, Financed, FundingBuysItsDrafts, NEW N, DraftsAdded(N),
         AcceptedKept, converted' = converted
  PROVE  FundingBuysItsDrafts'
<1> SUFFICES ASSUME NEW g \in GroupIds, NEW f \in Accepted(g)'
             PROVE  /\ Accepted(g)' = {f}
                    /\ fundings'[f].amount = BalanceOf(WrittenFor(g)', written')
                    /\ \A d \in WrittenFor(g)' : (converted'[d] = 0) <=> (drafts'[d] # None)
  BY DEF FundingBuysItsDrafts
<1>1. Accepted(g)' = Accepted(g) /\ f \in Accepted(g) /\ fundings'[f].amount = fundings[f].amount
  BY DEF AcceptedKept
<1>2. /\ Accepted(g) = {f}
      /\ fundings[f].amount = BalanceOf(WrittenFor(g), written)
      /\ \A d \in WrittenFor(g) : (converted[d] = 0) <=> (drafts[d] # None)
  BY <1>1 DEF FundingBuysItsDrafts
<1>3. OfGroup(N, drafts', g) = {}
  <2>1. ~Open(g)
    BY <1>1 DEF Financed, FinancedGroup, Open
  <2> QED
    BY <2>1 DEF DraftsAdded, OfGroup
<1>4. WrittenFor(g)' = WrittenFor(g) /\ \A d \in WrittenFor(g) : written[d] = written'[d]
  BY <1>3, AddedDraftsOf
<1>5. BalanceOf(WrittenFor(g), written) = BalanceOf(WrittenFor(g), written')
  BY <1>4, BalanceOfEquals
<1>6. \A d \in WrittenFor(g) : drafts'[d] = drafts[d]
  <2> SUFFICES ASSUME NEW d \in WrittenFor(g), d \in N PROVE FALSE
    BY DEF DraftsAdded, WrittenFor
  <2>1. d \in DraftIds /\ written[d] # None /\ d \in Nat /\ next_draft_id \in Nat
    BY DraftTypes DEF WrittenFor
  <2> QED
    BY <2>1 DEF History, DraftsAdded
<1> QED
  BY <1>1, <1>2, <1>4, <1>5, <1>6

(* Draft d of group g became the lockup it was written as.                 *)
AsWritten(d, g) ==
  /\ written[d].draft_group_id = g
  /\ \E f \in Accepted(g) :
       indexer[converted[d]].lockup = into_lockup(written[d].lockup_create, fundings[f].sender_id)

ConvertedOnce ==
  \A d, e \in DraftIds : converted[d] # 0 /\ converted[d] = converted[e] => d = e

LEMMA ConvertedMeans ==
  ASSUME DraftsTypeOK, History, ConvertedAsWritten
  PROVE  /\ ConvertedOnce
         /\ \A d \in DraftIds : converted[d] # 0 => /\ written[d] \in Draft
                                                    /\ d < next_draft_id
                                                    /\ \E g \in GroupIds : AsWritten(d, g)
<1> SUFFICES ASSUME NEW d \in DraftIds, converted[d] # 0
             PROVE  /\ written[d] \in Draft
                    /\ d < next_draft_id
                    /\ \E g \in GroupIds : AsWritten(d, g)
  BY DEF ConvertedAsWritten, ConvertedOnce
<1>1. written[d] # None
  BY DEF History
<1>2. written[d] \in Draft /\ d < next_draft_id
  BY <1>1, DraftTypes DEF History
<1>3. AsWritten(d, written[d].draft_group_id) /\ written[d].draft_group_id \in GroupIds
  BY <1>2, DraftFields DEF ConvertedAsWritten, AsWritten
<1> QED
  BY <1>2, <1>3

LEMMA MeansConverted ==
  ASSUME ConvertedOnce',
         \A d \in DraftIds : converted'[d] # 0 => \E g \in GroupIds : AsWritten(d, g)'
  PROVE  ConvertedAsWritten'
BY DEF ConvertedAsWritten, ConvertedOnce, AsWritten, Accepted

LEMMA ConvertedKept ==
  ASSUME AcceptedKept, NEW d \in DraftIds, NEW g \in GroupIds, AsWritten(d, g),
         written'[d] = written[d], converted'[d] = converted[d],
         indexer'[converted[d]].lockup = indexer[converted[d]].lockup
  PROVE  AsWritten(d, g)'
BY DEF AcceptedKept, AsWritten

LEMMA ConvertedAdded ==
  ASSUME DraftsTypeOK, History, ConvertedAsWritten, NEW N, DraftsAdded(N),
         AcceptedKept, converted' = converted, indexer' = indexer
  PROVE  ConvertedAsWritten'
<1>1. ASSUME NEW d \in DraftIds, converted'[d] # 0
      PROVE  \E g \in GroupIds : AsWritten(d, g)'
  <2>1. PICK g \in GroupIds : AsWritten(d, g)
    BY <1>1, ConvertedMeans
  <2>2. d < next_draft_id /\ d \in Nat /\ next_draft_id \in Nat
    BY <1>1, ConvertedMeans, DraftTypes
  <2>3. d \notin N
    BY <2>2 DEF DraftsAdded
  <2>4. written'[d] = written[d]
    BY <2>3 DEF DraftsAdded
  <2>5. AsWritten(d, g)'
    BY <2>1, <2>4, ConvertedKept
  <2> QED
    BY <2>5
<1>2. ConvertedOnce'
  BY ConvertedMeans DEF ConvertedOnce
<1> QED
  BY <1>1, <1>2, MeansConverted

-----------------------------------------------------------------------------
(* Drafts that are removed, deleted or converted, keep it too.             *)

DraftsRemoved(S) ==
  /\ S \subseteq DraftIds
  /\ \A d \in S : drafts[d] # None /\ ~Open(drafts[d].draft_group_id)
  /\ drafts' = [d \in DraftIds |-> IF d \in S THEN None ELSE drafts[d]]
  /\ written' = written
  /\ \A d \in DraftIds \ S : converted'[d] = converted[d]

(* What is left of group g without the drafts of S.                        *)
Left(S, g) == DraftsOf(g) \ OfGroup(S, drafts, g)

GroupsCut(S) ==
  \A g \in GroupIds :
    /\ OfGroup(S, drafts, g) = {} => draft_groups'[g] = draft_groups[g]
    /\ OfGroup(S, drafts, g) # {} /\ Left(S, g) = {} => draft_groups'[g] = None
    /\ OfGroup(S, drafts, g) # {} /\ Left(S, g) # {} =>
         /\ draft_groups[g] # None
         /\ draft_groups'[g] = [draft_groups[g] EXCEPT
              !.total_amount = BalanceOf(Left(S, g), drafts), !.draft_indices = Left(S, g)]

LEMMA RemovedOf ==
  ASSUME DraftsTypeOK, GroupsAddUp, NEW S, S \subseteq DraftIds, \A d \in S : drafts[d] # None,
         NEW g \in GroupIds
  PROVE  /\ OfGroup(S, drafts, g) \subseteq DraftsOf(g)
         /\ OfGroup(S, drafts, g) # {} => draft_groups[g] # None
BY DEF OfGroup, DraftsOf, GroupsAddUp, Groups

LEMMA RemovedGrouped ==
  ASSUME DraftsTypeOK, GroupsAddUp, History, NEW S, S \subseteq DraftIds,
         \A d \in S : drafts[d] # None, RemoveDrafts(S)
  PROVE  GroupsCut(S)
<1> SUFFICES ASSUME NEW g \in GroupIds
             PROVE  LET of == OfGroup(S, drafts, g) IN
                    /\ of = {} => draft_groups'[g] = draft_groups[g]
                    /\ of # {} /\ Left(S, g) = {} => draft_groups'[g] = None
                    /\ of # {} /\ Left(S, g) # {} =>
                         /\ draft_groups[g] # None
                         /\ draft_groups'[g] = [draft_groups[g] EXCEPT
                              !.total_amount = BalanceOf(Left(S, g), drafts),
                              !.draft_indices = Left(S, g)]
  BY DEF GroupsCut
<1> DEFINE of == OfGroup(S, drafts, g)
           rest == [draft_groups[g] EXCEPT !.total_amount = @ - BalanceOf(of, drafts),
                                           !.draft_indices = @ \ of]
<1>1. draft_groups'[g] = IF of = {} THEN draft_groups[g]
                         ELSE IF rest.draft_indices = {} THEN None ELSE rest
  BY DEF RemoveDrafts, OfGroup
<1>2. CASE of = {}
  BY <1>1, <1>2
<1>3. CASE of # {}
  <2>1. of \subseteq DraftsOf(g) /\ draft_groups[g] # None
    BY <1>3, RemovedOf
  <2>2. /\ draft_groups[g] \in DraftGroup
        /\ draft_groups[g].draft_indices = DraftsOf(g)
        /\ draft_groups[g].total_amount = BalanceOf(DraftsOf(g), drafts)
    BY <2>1, DraftTypes DEF GroupsAddUp, Groups
  <2>3. /\ BalanceOf(DraftsOf(g), drafts) = BalanceOf(of, drafts) + BalanceOf(Left(S, g), drafts)
        /\ BalanceOf(of, drafts) \in Nat /\ BalanceOf(Left(S, g), drafts) \in Nat
    <3>1. Counted(DraftsOf(g), drafts)
      BY DraftsCounted
    <3> HIDE DEF of
    <3>2. BalanceOf(DraftsOf(g), drafts) = BalanceOf(of, drafts) + BalanceOf(DraftsOf(g) \ of, drafts)
          /\ BalanceOf(of, drafts) \in Nat /\ BalanceOf(DraftsOf(g) \ of, drafts) \in Nat
      BY <2>1, <3>1, BalanceOfPart
    <3> QED
      BY <3>2 DEF Left, of
  <2> HIDE DEF of
  <2>4. BalanceOf(DraftsOf(g), drafts) - BalanceOf(of, drafts) = BalanceOf(Left(S, g), drafts)
    BY <2>3
  <2>5. DraftsOf(g) \ of = Left(S, g)
    BY DEF Left, of
  <2>6. rest = [draft_groups[g] EXCEPT !.total_amount = BalanceOf(Left(S, g), drafts),
                                       !.draft_indices = Left(S, g)]
    BY <2>2, <2>4, <2>5
  <2>7. rest.draft_indices = Left(S, g)
    BY <2>2, <2>6 DEF DraftGroup
  <2> HIDE DEF rest
  <2> QED
    BY <1>1, <1>3, <2>1, <2>6, <2>7 DEF of
<1> QED
  BY <1>2, <1>3

(* A group that is cut is a group, of the same payer.                      *)
LEMMA CutRecord ==
  ASSUME DraftsTypeOK, History, GroupsAddUp, NEW S, GroupsCut(S), NEW g \in GroupIds,
         draft_groups[g] # None, OfGroup(S, drafts, g) = {} \/ Left(S, g) # {}
  PROVE  /\ draft_groups'[g] \in DraftGroup
         /\ draft_groups'[g].payer_id = draft_groups[g].payer_id
         /\ draft_groups'[g].discarded = draft_groups[g].discarded
<1>1. CASE OfGroup(S, drafts, g) = {}
  BY <1>1, DraftTypes DEF GroupsCut
<1>2. CASE OfGroup(S, drafts, g) # {}
  <2> DEFINE b == BalanceOf(Left(S, g), drafts)
  <2>1. draft_groups[g] \in DraftGroup
    BY DraftTypes
  <2>2. draft_groups'[g] = [draft_groups[g] EXCEPT !.total_amount = b, !.draft_indices = Left(S, g)]
    BY <1>2 DEF GroupsCut
  <2>3. Left(S, g) \subseteq DraftIds
    BY DEF Left, DraftsOf
  <2>4. b \in 0..MaxAmount
    <3>1. Counted(DraftsOf(g), drafts) /\ Left(S, g) \subseteq DraftsOf(g)
      BY DraftsCounted DEF Left
    <3>2. /\ b \in Nat
          /\ BalanceOf(DraftsOf(g) \ Left(S, g), drafts) \in Nat
          /\ BalanceOf(DraftsOf(g), drafts) = b + BalanceOf(DraftsOf(g) \ Left(S, g), drafts)
      BY <3>1, BalanceOfPart
    <3>3. BalanceOf(DraftsOf(g), drafts) \in 0..MaxAmount
      BY <2>1 DEF GroupsAddUp, Groups, DraftGroup
    <3> HIDE DEF b
    <3> QED
      BY <3>2, <3>3, DraftBounds
  <2> HIDE DEF b
  <2> QED
    BY <2>1, <2>2, <2>3, <2>4 DEF DraftGroup
<1> QED
  BY <1>1, <1>2

LEMMA CutTyped ==
  ASSUME DraftsTypeOK, History, GroupsAddUp, NEW S, GroupsCut(S),
         NEW g \in GroupIds, draft_groups'[g] # None
  PROVE  /\ draft_groups[g] # None
         /\ draft_groups'[g] \in DraftGroup
         /\ draft_groups'[g].payer_id = draft_groups[g].payer_id
         /\ draft_groups'[g].discarded = draft_groups[g].discarded
<1>1. draft_groups[g] # None /\ (OfGroup(S, drafts, g) = {} \/ Left(S, g) # {})
  BY DEF GroupsCut
<1> QED
  BY <1>1, CutRecord

LEMMA AddUpRemoved ==
  ASSUME DraftsTypeOK, History, GroupsAddUp, NEW S, DraftsRemoved(S), GroupsCut(S)
  PROVE  GroupsAddUp'
<1>1. S \subseteq DraftIds /\ \A d \in S : drafts[d] # None
  BY DEF DraftsRemoved
<1>2. \A d \in DraftIds : drafts'[d] = IF d \in S THEN None ELSE drafts[d]
  BY DEF DraftsRemoved
<1>3. ASSUME NEW g \in GroupIds
      PROVE  /\ DraftsOf(g)' = Left(S, g)
             /\ \A d \in Left(S, g) : drafts[d] = drafts'[d]
  BY <1>1, <1>2 DEF DraftsOf, Left, OfGroup
<1>4. ASSUME NEW g \in GroupIds, draft_groups'[g] # None
      PROVE  /\ draft_groups'[g].draft_indices = DraftsOf(g)'
             /\ draft_groups'[g].total_amount = BalanceOf(DraftsOf(g)', drafts')
             /\ DraftsOf(g)' = {} => Open(g)'
  <2>1. /\ DraftsOf(g)' = Left(S, g)
        /\ BalanceOf(Left(S, g), drafts) = BalanceOf(Left(S, g), drafts')
    BY <1>3, BalanceOfEquals
  <2>2. CASE OfGroup(S, drafts, g) = {}
    <3>1. draft_groups'[g] = draft_groups[g] /\ Left(S, g) = DraftsOf(g)
      BY <2>2 DEF GroupsCut, Left
    <3>2. g \in Groups
      BY <1>4, <3>1 DEF Groups
    <3>3. DraftsOf(g) = {} => Open(g)'
      BY <3>1, <3>2 DEF GroupsAddUp, Open
    <3> QED
      BY <2>1, <3>1, <3>2, <3>3 DEF GroupsAddUp
  <2>3. CASE OfGroup(S, drafts, g) # {}
    <3>1. Left(S, g) # {} /\ draft_groups[g] # None
      BY <1>4, <2>3 DEF GroupsCut
    <3>2. draft_groups[g] \in DraftGroup
      BY <3>1, DraftTypes
    <3>3. draft_groups'[g] = [draft_groups[g] EXCEPT
            !.total_amount = BalanceOf(Left(S, g), drafts), !.draft_indices = Left(S, g)]
      BY <2>3, <3>1 DEF GroupsCut
    <3>4. draft_groups'[g].draft_indices = Left(S, g)
          /\ draft_groups'[g].total_amount = BalanceOf(Left(S, g), drafts)
      BY <3>2, <3>3 DEF DraftGroup
    <3> QED
      BY <2>1, <3>1, <3>4
  <2> QED
    BY <2>2, <2>3
<1>5. ASSUME NEW d \in DraftIds, drafts'[d] # None
      PROVE  drafts'[d].draft_group_id \in Groups'
  <2> DEFINE g == drafts[d].draft_group_id
  <2>1. d \notin S /\ drafts'[d] = drafts[d] /\ drafts[d] # None
    BY <1>2, <1>5
  <2>2. g \in GroupIds /\ draft_groups[g] # None /\ d \in Left(S, g)
    BY <2>1 DEF GroupsAddUp, Groups, Left, DraftsOf, OfGroup
  <2> HIDE DEF g
  <2>3. draft_groups'[g] # None
    BY <2>2, CutRecord, DraftBounds
  <2> QED
    BY <2>1, <2>2, <2>3 DEF Groups, g
<1> QED
  BY <1>4, <1>5 DEF GroupsAddUp, Groups

LEMMA HistoryRemoved ==
  ASSUME DraftsTypeOK, History, NEW S, DraftsRemoved(S),
         next_draft_id' = next_draft_id, next_draft_group_id' = next_draft_group_id
  PROVE  History'
<1> SUFFICES ASSUME NEW d \in DraftIds
             PROVE  /\ drafts'[d] # None => drafts'[d] = written'[d] /\ converted'[d] = 0
                    /\ converted'[d] # 0 => written'[d] # None
                    /\ written'[d] # None => /\ d < next_draft_id'
                                             /\ written'[d].draft_group_id < next_draft_group_id'
                                             /\ Checked(written'[d])
  BY DEF History, Checked, balance_of
<1>1. /\ drafts'[d] = (IF d \in S THEN None ELSE drafts[d])
      /\ written' = written
      /\ d \in S => drafts[d] # None
      /\ d \notin S => converted'[d] = converted[d]
  BY DEF DraftsRemoved
<1> QED
  BY <1>1 DEF History

LEMMA FinancedRemoved ==
  ASSUME DraftsTypeOK, History, GroupsAddUp, Financed, NEW S, DraftsRemoved(S), GroupsCut(S),
         AcceptedKept, next_draft_group_id' = next_draft_group_id
  PROVE  Financed'
<1> SUFFICES ASSUME NEW g \in GroupIds PROVE FinancedGroup(g)'
  BY DEF Financed
<1>1. FinancedGroup(g)
  BY DEF Financed
<1>2. draft_groups'[g] # None => /\ draft_groups[g] # None
                                 /\ draft_groups'[g].payer_id = draft_groups[g].payer_id
                                 /\ draft_groups'[g].discarded = draft_groups[g].discarded
  BY CutTyped
<1>3. /\ Accepted(g)' = Accepted(g)
      /\ \A f \in Accepted(g) : fundings'[f].sender_id = fundings[f].sender_id
  BY DEF AcceptedKept
<1>4. ASSUME Open(g)', NEW d \in WrittenFor(g)' PROVE drafts'[d] # None
  <2>1. Open(g)
    BY <1>2, <1>4 DEF Open
  <2>2. d \in WrittenFor(g) /\ d \in DraftIds
    BY <1>4 DEF WrittenFor, DraftsRemoved
  <2>3. drafts[d] # None
    BY <1>1, <2>1, <2>2 DEF FinancedGroup, Open
  <2>4. drafts[d].draft_group_id = g
    BY <2>2, <2>3 DEF History, WrittenFor
  <2>5. d \notin S
    BY <2>1, <2>4 DEF DraftsRemoved
  <2> QED
    BY <2>2, <2>3, <2>5 DEF DraftsRemoved
<1> QED
  BY <1>1, <1>2, <1>3, <1>4 DEF FinancedGroup

(* Drafts of a paid group only leave as lockups.                           *)
LEMMA FundingRemoved ==
  ASSUME DraftsTypeOK, History, FundingBuysItsDrafts, NEW S, DraftsRemoved(S), AcceptedKept,
         \A d \in S : converted'[d] # 0 \/ Accepted(drafts[d].draft_group_id) = {}
  PROVE  FundingBuysItsDrafts'
<1> SUFFICES ASSUME NEW g \in GroupIds, NEW f \in Accepted(g)'
             PROVE  /\ Accepted(g)' = {f}
                    /\ fundings'[f].amount = BalanceOf(WrittenFor(g)', written')
                    /\ \A d \in WrittenFor(g)' : (converted'[d] = 0) <=> (drafts'[d] # None)
  BY DEF FundingBuysItsDrafts
<1>1. Accepted(g)' = Accepted(g) /\ f \in Accepted(g) /\ fundings'[f].amount = fundings[f].amount
  BY DEF AcceptedKept
<1>2. /\ Accepted(g) = {f}
      /\ fundings[f].amount = BalanceOf(WrittenFor(g), written)
      /\ \A d \in WrittenFor(g) : (converted[d] = 0) <=> (drafts[d] # None)
  BY <1>1 DEF FundingBuysItsDrafts
<1>3. WrittenFor(g)' = WrittenFor(g) /\ written' = written
  BY DEF WrittenFor, DraftsRemoved
<1>4. ASSUME NEW d \in WrittenFor(g) PROVE (converted'[d] = 0) <=> (drafts'[d] # None)
  <2>1. d \in DraftIds
    BY DEF WrittenFor
  <2>2. CASE d \in S
    <3>1. drafts[d] # None /\ drafts'[d] = None
      BY <2>1, <2>2 DEF DraftsRemoved
    <3>2. drafts[d].draft_group_id = g
      BY <2>1, <3>1 DEF History, WrittenFor
    <3> QED
      BY <1>1, <2>2, <3>1, <3>2
  <2>3. CASE d \notin S
    BY <1>2, <2>1, <2>3 DEF DraftsRemoved
  <2> QED
    BY <2>2, <2>3
<1> QED
  BY <1>1, <1>2, <1>3, <1>4

-----------------------------------------------------------------------------
(* The lockups a conversion makes, and the registry they come into.        *)

(* The arguments of a conversion: an order of the drafts in T.             *)
OrderOf(ids, T) ==
  /\ Len(ids) \in Nat
  /\ \A k \in 1..Len(ids) : ids[k] \in DraftIds
  /\ \A j, k \in 1..Len(ids) : ids[j] = ids[k] => j = k
  /\ Named(ids, Len(ids)) = T

LEMMA BijectionOrders ==
  ASSUME NEW T, T \subseteq DraftIds, NEW ids \in Bijection(1..Cardinality(T), T)
  PROVE  OrderOf(ids, T)
<1> DEFINE n == Cardinality(T)
<1>1. IsFiniteSet(1..MaxDrafts)
  BY DraftBounds, FS_Interval
<1>2. IsFiniteSet(T)
  BY <1>1, FS_Subset DEF DraftIds
<1>3. n \in Nat
  BY <1>2, FS_CardinalityType
<1>4. /\ ids \in [1..n -> T]
      /\ \A j, k \in 1..n : ids[j] = ids[k] => j = k
      /\ \A d \in T : \E k \in 1..n : ids[k] = d
  BY DEF Bijection, Injection, Surjection, IsInjective
<1> HIDE DEF n
<1>5. Len(ids) = n
  BY <1>3, <1>4, FunctionIsSeq
<1> QED
  BY <1>3, <1>4, <1>5 DEF OrderOf, Named

(* n lockups `made' are added at the end, each with its own event.         *)
LotAdded(made, n) ==
  /\ n \in Nat /\ Len(lockups) + n <= MaxLockups
  /\ made \in [1..n -> LockupType]
  /\ \A k \in 1..n : /\ SoundLockup(made[k], made[k], now)
                     /\ made[k].claimed_balance = 0
                     /\ total_balance(made[k].schedule) > 0
  /\ lockups' = lockups \o made
  /\ account_lockups' = [a \in Accounts |-> account_lockups[a] \cup
                           { Len(lockups) + k : k \in { j \in 1..n : made[j].account_id = a } }]
  /\ indexer' = indexer \o [k \in 1..n |-> Created(made[k])]
  /\ UNCHANGED <<now, deposit_whitelist, promises, custody>>

IsJoined(s, t, u) == u = s \o t

LEMMA JoinedElements ==
  ASSUME NEW E, NEW s \in Seq(E), NEW t \in Seq(E), NEW u, IsJoined(s, t, u)
  PROVE  /\ u \in Seq(E) /\ Len(u) = Len(s) + Len(t)
         /\ \A i \in 1..Len(s) : u[i] = s[i]
         /\ \A k \in 1..Len(t) : u[Len(s) + k] = t[k]
<1>1. Len(s) \in Nat /\ Len(t) \in Nat
  OBVIOUS
<1>2. /\ u \in Seq(E) /\ Len(u) = Len(s) + Len(t)
      /\ \A i \in 1..(Len(s) + Len(t)) : u[i] = IF i <= Len(s) THEN s[i] ELSE t[i - Len(s)]
  BY ConcatProperties DEF IsJoined
<1>3. \A i \in 1..Len(s) : u[i] = s[i]
  BY <1>1, <1>2
<1>4. ASSUME NEW k \in 1..Len(t) PROVE u[Len(s) + k] = t[k]
  <2> DEFINE i == Len(s) + k
  <2>1. i \in 1..(Len(s) + Len(t)) /\ ~(i <= Len(s)) /\ i - Len(s) = k
    BY <1>1
  <2> HIDE DEF i
  <2>2. u[i] = t[k]
    BY <1>2, <2>1
  <2> QED
    BY <2>2 DEF i
<1> QED
  BY <1>2, <1>3, <1>4

LEMMA LotElements ==
  ASSUME IInv, NEW made, NEW n, LotAdded(made, n)
  PROVE  /\ Len(lockups') = Len(lockups) + n /\ Len(indexer') = Len(lockups) + n
         /\ \A i \in 1..Len(lockups) : lockups'[i] = lockups[i] /\ indexer'[i] = indexer[i]
         /\ \A k \in 1..n : /\ lockups'[Len(lockups) + k] = made[k]
                            /\ indexer'[Len(lockups) + k] = Created(made[k])
         /\ lockups' \in Seq(LockupType)
         /\ indexer' \in Seq([lockup : LockupType, claimed : Nat, unvested : Nat])
         /\ \A i \in 1..(Len(lockups) + n) :
              i \in 1..Len(lockups) \/ \E k \in 1..n : i = Len(lockups) + k
<1> DEFINE E == [lockup : LockupType, claimed : Nat, unvested : Nat]
           events == [k \in 1..n |-> Created(made[k])]
           m == Len(lockups)
<1>1. /\ m \in Nat /\ Len(indexer) = m /\ lockups \in Seq(LockupType) /\ indexer \in Seq(E)
  BY TypeFacts DEF IInv, TypeOK
<1>2. /\ n \in Nat /\ made \in [1..n -> LockupType]
      /\ lockups' = lockups \o made /\ indexer' = indexer \o events
  BY DEF LotAdded
<1>3. events \in [1..n -> E]
  BY <1>2 DEF Created
<1>4. made \in Seq(LockupType) /\ Len(made) = n /\ events \in Seq(E) /\ Len(events) = n
  <2> HIDE DEF E, events
  <2> QED
    BY <1>2, <1>3, FunctionIsSeq
<1>5. \A k \in 1..n : events[k] = Created(made[k])
  OBVIOUS
<1>6. \A i \in 1..(m + n) : i \in 1..m \/ \E k \in 1..n : i = m + k
  <2> SUFFICES ASSUME NEW i \in 1..(m + n), i \notin 1..m PROVE \E k \in 1..n : i = m + k
    OBVIOUS
  <2>1. i - m \in 1..n /\ i = m + (i - m)
    BY <1>1, <1>2
  <2> QED
    BY <2>1
<1> HIDE DEF E, events, m
<1>7. /\ lockups' \in Seq(LockupType) /\ Len(lockups') = m + n
      /\ \A i \in 1..m : lockups'[i] = lockups[i]
      /\ \A k \in 1..n : lockups'[m + k] = made[k]
  <2>1. IsJoined(lockups, made, lockups')
    BY <1>2 DEF IsJoined
  <2>2. lockups \in Seq(LockupType) /\ made \in Seq(LockupType)
    BY <1>1, <1>4
  <2>3. /\ lockups' \in Seq(LockupType) /\ Len(lockups') = Len(lockups) + Len(made)
        /\ \A i \in 1..Len(lockups) : lockups'[i] = lockups[i]
        /\ \A k \in 1..Len(made) : lockups'[Len(lockups) + k] = made[k]
    BY ONLY <2>1, <2>2, JoinedElements
  <2>4. Len(made) = n /\ Len(lockups) = m
    BY <1>4 DEF m
  <2> QED
    BY ONLY <2>3, <2>4
<1>8. /\ indexer' \in Seq(E) /\ Len(indexer') = m + n
      /\ \A i \in 1..m : indexer'[i] = indexer[i]
      /\ \A k \in 1..n : indexer'[m + k] = events[k]
  <2>1. IsJoined(indexer, events, indexer')
    BY <1>2 DEF IsJoined
  <2>2. indexer \in Seq(E) /\ events \in Seq(E)
    BY <1>1, <1>4
  <2>3. /\ indexer' \in Seq(E) /\ Len(indexer') = Len(indexer) + Len(events)
        /\ \A i \in 1..Len(indexer) : indexer'[i] = indexer[i]
        /\ \A k \in 1..Len(events) : indexer'[Len(indexer) + k] = events[k]
    BY ONLY <2>1, <2>2, JoinedElements
  <2> QED
    BY <1>1, <1>4, <2>3
<1> QED
  BY <1>5, <1>6, <1>7, <1>8 DEF m, E

LEMMA LotInv ==
  ASSUME IInv, NEW made, NEW n, LotAdded(made, n)
  PROVE  IInv'
<1> DEFINE m == Len(lockups)
<1>1. /\ m \in Nat /\ n \in Nat /\ m + n <= MaxLockups
      /\ Len(lockups') = m + n /\ Len(indexer') = m + n
      /\ lockups' \in Seq(LockupType)
      /\ indexer' \in Seq([lockup : LockupType, claimed : Nat, unvested : Nat])
  <2>1. m \in Nat
    BY TypeFacts DEF IInv
  <2>2. n \in Nat /\ m + n <= MaxLockups
    BY DEF LotAdded
  <2>3. /\ Len(lockups') = m + n /\ Len(indexer') = m + n
        /\ lockups' \in Seq(LockupType)
        /\ indexer' \in Seq([lockup : LockupType, claimed : Nat, unvested : Nat])
    BY LotElements
  <2> QED
    BY ONLY <2>1, <2>2, <2>3
<1>2. UNCHANGED <<now, deposit_whitelist, promises, custody>>
  BY DEF LotAdded
<1>3. account_lockups' \in [Accounts -> SUBSET (1..(m + n))]
  <2>1. account_lockups \in [Accounts -> SUBSET (1..m)]
    BY DEF IInv, TypeOK, Indices
  <2>2. account_lockups' = [a \in Accounts |-> account_lockups[a] \cup
                              { m + k : k \in { j \in 1..n : made[j].account_id = a } }]
    BY DEF LotAdded
  <2> HIDE DEF m
  <2>3. ASSUME NEW a \in Accounts PROVE account_lockups'[a] \subseteq 1..(m + n)
    <3>1. /\ account_lockups[a] \subseteq 1..m
          /\ account_lockups'[a] = account_lockups[a] \cup
                                   { m + k : k \in { j \in 1..n : made[j].account_id = a } }
      BY <2>1, <2>2
    <3>2. m \in Nat /\ n \in Nat
      BY <1>1
    <3>3. { m + k : k \in { j \in 1..n : made[j].account_id = a } } \subseteq 1..(m + n)
      BY ONLY <3>2
    <3>4. 1..m \subseteq 1..(m + n)
      BY ONLY <3>2
    <3> QED
      BY ONLY <3>1, <3>3, <3>4
  <2> QED
    BY <2>2, <2>3
<1>4. Indices' = 1..(m + n)
  BY <1>1 DEF Indices
<1>5. TypeOK'
  BY <1>1, <1>2, <1>3, <1>4 DEF TypeOK, IInv
<1>6. ASSUME NEW i \in 1..(m + n) PROVE SoundLockup(lockups'[i], indexer'[i].lockup, now)
  <2>1. CASE i \in 1..m
    BY <2>1, LotElements DEF IInv, Indices
  <2>2. ASSUME NEW k \in 1..n, i = m + k
        PROVE  SoundLockup(lockups'[i], indexer'[i].lockup, now)
    <3> DEFINE e == Created(made[k])
    <3>1. lockups'[i] = made[k] /\ indexer'[i] = e
      BY <2>2, LotElements
    <3>3. e.lockup = made[k]
      BY DEF Created
    <3>2. SoundLockup(made[k], made[k], now)
      BY DEF LotAdded
    <3> HIDE DEF e
    <3> QED
      BY <3>1, <3>2, <3>3
  <2> QED
    BY <2>1, <2>2, LotElements
<1> HIDE DEF m
<1>7. \A i \in Indices' : SoundLockup(lockups'[i], indexer'[i].lockup, now')
  BY <1>2, <1>4, <1>6
<1> QED
  BY <1>1, <1>5, <1>7 DEF IInv, SoundLockup, Terminatable

LEMMA LotLedger ==
  ASSUME IInv, Ledger, NEW made, NEW n, LotAdded(made, n)
  PROVE  /\ Ledger'
         /\ Booked' = Booked + SumTo([k \in 1..n |-> total_balance(made[k].schedule)], n)
<1> DEFINE m == Len(lockups)
           worth == [k \in 1..n |-> total_balance(made[k].schedule)]
<1>0. /\ m \in Nat /\ n \in Nat /\ m + n <= MaxLockups /\ MaxLockups \in Nat
  <2>1. TypeOK
    BY DEF IInv
  <2>2. Len(lockups) \in Nat
    BY <2>1, TypeFacts
  <2> QED
    BY <2>2, BoundsAssumption DEF LotAdded
<1>1. /\ m \in Nat /\ n \in Nat /\ m + n <= MaxLockups /\ MaxLockups \in Nat
      /\ Len(lockups') = m + n
      /\ \A i \in 1..m : lockups'[i] = lockups[i] /\ indexer'[i] = indexer[i]
      /\ \A k \in 1..n : lockups'[m + k] = made[k] /\ indexer'[m + k] = Created(made[k])
      /\ \A i \in 1..(m + n) : i \in 1..m \/ \E k \in 1..n : i = m + k
  BY <1>0, LotElements
<1>2. promises' = promises /\ Indices = 1..m /\ Indices' = 1..(m + n)
  BY <1>1 DEF LotAdded, Indices
<1>3. \A k \in 1..n : /\ made[k] \in Readable /\ Rest[made[k]] = total_balance(made[k].schedule)
                      /\ total_balance(made[k].schedule) \in Nat
                      /\ total_balance(made[k].schedule) > 0
                      /\ made[k].claimed_balance = 0
  <2> SUFFICES ASSUME NEW k \in 1..n
               PROVE  /\ made[k] \in Readable /\ Rest[made[k]] = total_balance(made[k].schedule)
                      /\ total_balance(made[k].schedule) \in Nat
                      /\ total_balance(made[k].schedule) > 0
                      /\ made[k].claimed_balance = 0
    OBVIOUS
  <2>1. made[k] \in LockupType /\ Increasing(made[k].schedule)
        /\ made[k].claimed_balance = 0 /\ total_balance(made[k].schedule) > 0
    BY DEF LotAdded, SoundLockup
  <2> QED
    BY <2>1, RestOf
<1>4. ASSUME NEW k \in 1..Len(promises') PROVE InOrder(promises'[k], lockups')
  <2>1. SameOwners(lockups, lockups')
    BY <1>1 DEF SameOwners
  <2>2. InOrder(promises[k], lockups)
    BY <1>2 DEF Ledger
  <2> QED
    BY <1>2, <2>1, <2>2, InOrderLater
<1>5. ASSUME NEW i \in (m + 1)..(m + n) PROVE SumSeq(TakenFrom(i), promises) = 0
  <2>1. i \in 1..MaxLockups /\ i \notin 1..m
    BY <1>1
  <2>2. TakenFrom(i) \in [Promise -> Nat] /\ promises \in Seq(Promise)
    BY <2>1, Weights, LedgerFacts
  <2>3. ASSUME NEW k \in 1..Len(promises) PROVE TakenFrom(i)[promises[k]] = 0
    <3>1. promises[k] \in Promise /\ InOrder(promises[k], lockups)
      BY LedgerFacts DEF Ledger
    <3>2. ~ (promises[k].claims[i].claim_amount > 0)
      BY <2>1, <3>1 DEF InOrder
    <3>3. promises[k].claims[i].claim_amount \in Nat
      BY <2>1, <3>1 DEF Promise, LockupClaim
    <3> QED
      BY <3>1, <3>2, <3>3 DEF TakenFrom
  <2> QED
    BY <2>2, <2>3, SumSeqZero
<1>6. ASSUME NEW i \in 1..(m + n)
      PROVE  Announced(lockups'[i], indexer'[i], SumSeq(TakenFrom(i), promises))
  <2>1. CASE i \in 1..m
    BY <1>1, <1>2, <2>1 DEF Ledger
  <2>2. ASSUME NEW k \in 1..n, i = m + k
        PROVE  Announced(lockups'[i], indexer'[i], SumSeq(TakenFrom(i), promises))
    <3>1. SumSeq(TakenFrom(i), promises) = 0
      BY <1>1, <1>5, <2>2
    <3>2. lockups'[i] = made[k] /\ indexer'[i] = Created(made[k])
      BY <1>1, <2>2
    <3>3. Announced(made[k], Created(made[k]), 0)
      BY <1>3 DEF Announced, Created
    <3> QED
      BY <3>1, <3>2, <3>3
  <2> QED
    BY <1>1, <2>1, <2>2
<1>7. ListedRightly'
  <2> SUFFICES ASSUME NEW a \in Accounts, NEW i \in account_lockups'[a]
               PROVE  lockups'[i].account_id = a /\ NotEmptied(lockups'[i], indexer'[i])
    BY DEF ListedRightly
  <2>1. account_lockups'[a] = account_lockups[a] \cup
                              { m + k : k \in { j \in 1..n : made[j].account_id = a } }
    BY DEF LotAdded
  <2>2. CASE i \in account_lockups[a]
    <3>1. i \in 1..m
      BY <1>2, <2>2 DEF IInv, TypeOK
    <3> QED
      BY <1>1, <2>2, <3>1 DEF Ledger, ListedRightly
  <2>3. CASE i \notin account_lockups[a]
    <3>1. PICK k \in 1..n : made[k].account_id = a /\ i = m + k
      BY <2>1, <2>3
    <3> QED
      BY <1>1, <1>3, <3>1 DEF NotEmptied
  <2> QED
    BY <2>2, <2>3
<1>8. Ledger'
  BY <1>2, <1>4, <1>6, <1>7 DEF Ledger
<1>9. SumSeq(Rest, lockups') = SumSeq(Rest, lockups) + SumTo(worth, n)
  <2> DEFINE old == [i \in 1..m |-> Rest[lockups[i]]]
             new == [i \in 1..(m + n) |-> Rest[lockups'[i]]]
  <2>1. SumSeq(Rest, lockups) = SumTo(old, m) /\ SumSeq(Rest, lockups') = SumTo(new, m + n)
    BY <1>1 DEF SumSeq
  <2>2. \A i \in 1..m : old[i] \in Int
    <3>1. \A i \in 1..m : lockups[i] \in Readable
      BY <1>2, LedgerFacts
    <3> QED
      BY <3>1, WeightsRest
  <2>3. \A k \in 1..n : worth[k] \in Int
    BY <1>3
  <2>4. \A i \in 1..m : new[i] = old[i]
    BY <1>1
  <2>5. \A k \in 1..n : new[m + k] = worth[k]
    <3> SUFFICES ASSUME NEW k \in 1..n PROVE new[m + k] = worth[k]
      OBVIOUS
    <3>1. m + k \in 1..(m + n)
      BY <1>1
    <3> QED
      BY <1>1, <1>3, <3>1
  <2> HIDE DEF old, new, worth, m
  <2>6. m \in Nat /\ n \in Nat
    BY <1>1
  <2>7. SumTo(new, m + n) = SumTo(old, m) + SumTo(worth, n)
    BY ONLY <2>2, <2>3, <2>4, <2>5, <2>6, SumJoined
  <2> QED
    BY <2>1, <2>7
<1>10. Booked' = Booked + SumTo(worth, n)
  <2>1. /\ SumSeq(Rest, lockups) \in Int /\ SumSeq(ToSend, promises) \in Nat
        /\ SumTo(worth, n) \in Int
    <3>1. \A k \in 1..n : worth[k] \in Int
      BY <1>3
    <3> HIDE DEF worth
    <3> QED
      BY <1>1, <3>1, LedgerFacts, SumOfIntegers
  <2> HIDE DEF worth
  <2> QED
    BY <1>2, <1>9, <2>1 DEF Booked
<1> QED
  BY <1>8, <1>10

-----------------------------------------------------------------------------
(* What convert_drafts does to single drafts, groups and lockups.          *)

Lot(ids) == [k \in 1..Len(ids) |-> lockup_of(drafts[ids[k]])]

(* A draft that can be converted has a group that was paid for, and makes  *)
(* the lockup that was checked when the draft was written.                 *)
LEMMA LotSound ==
  ASSUME DraftsTypeOK, History, NEW d \in DraftIds, drafts[d] # None,
         assert_can_convert_draft(drafts[d].draft_group_id)
  PROVE  LET draft == drafts[d]
             payer_id == draft_groups[draft.draft_group_id].payer_id
             lockup == lockup_of(draft)
         IN  /\ payer_id \in Accounts
             /\ lockup = into_lockup(draft.lockup_create, payer_id)
             /\ lockup \in LockupType
             /\ SoundLockup(lockup, lockup, now)
             /\ lockup.claimed_balance = 0
             /\ total_balance(lockup.schedule) = balance_of(draft)
             /\ balance_of(draft) \in Nat /\ balance_of(draft) > 0
<1> DEFINE draft == drafts[d]
           c == draft.lockup_create
           g == draft.draft_group_id
           payer_id == draft_groups[g].payer_id
           lockup == into_lockup(c, payer_id)
<1>1. draft \in Draft /\ c \in LockupCreates /\ g \in GroupIds
  BY DraftTypes, DraftFields
<1>2. payer_id \in Accounts
  <2>1. draft_groups[g] \in DraftGroup /\ payer_id # None
    BY <1>1, DraftTypes DEF assert_can_convert_draft
  <2> QED
    BY <2>1 DEF DraftGroup
<1>3. Checked(draft)
  BY DEF History
<1>4. balance_of(draft) \in Nat /\ balance_of(draft) > 0
  BY <1>1, <1>3, CheckedBalance
<1>5. assert_new_valid(into_lockup(c, payer_id), balance_of(draft))
  BY <1>2, <1>3 DEF Checked
<1>6. now \in Nat
  BY TypeFacts DEF DraftsTypeOK
<1>7. lockup_of(draft) = lockup /\ lockup.claimed_balance = 0 /\ lockup.schedule = c.schedule
  BY DEF lockup_of, into_lockup
<1>8. total_balance(c.schedule) = balance_of(draft)
  BY DEF balance_of
<1> HIDE DEF draft, c, g, payer_id
<1>9. lockup \in LockupType /\ SoundLockup(lockup, lockup, now)
  BY <1>1, <1>2, <1>4, <1>5, <1>6, SoundCreate
<1> HIDE DEF lockup
<1> QED
  BY <1>2, <1>4, <1>7, <1>8, <1>9 DEF draft, c, g, payer_id, lockup

LEMMA RoomForBound ==
  ASSUME TypeOK, NEW n \in Nat, RoomFor(n)
  PROVE  Len(lockups) + n <= MaxLockups
<1>1. Len(promises) \in Nat /\ Len(lockups) \in Nat /\ MaxLockups \in Nat
  BY BoundsAssumption, TypeFacts
<1>2. IsFiniteSet(1..Len(promises))
  BY <1>1, FS_Interval
<1>3. IsFiniteSet(OpenTerminations)
  BY <1>2, FS_Subset DEF OpenTerminations
<1>4. Cardinality(OpenTerminations) \in Nat
  BY <1>3, FS_CardinalityType
<1> QED
  BY <1>1, <1>4 DEF RoomFor

LEMMA LotConverted ==
  ASSUME DraftsTypeOK, History, NEW T, T \subseteq DraftIds, NEW ids, OrderOf(ids, T),
         convert_drafts(ids)
  PROVE  LotAdded(Lot(ids), Len(ids))
<1> DEFINE n == Len(ids)
           made == Lot(ids)
<1>1. /\ n \in Nat
      /\ \A k \in 1..n : ids[k] \in DraftIds /\ drafts[ids[k]] # None
                         /\ assert_can_convert_draft(drafts[ids[k]].draft_group_id)
  BY DEF OrderOf, convert_drafts, Convertible
<1>2. \A k \in 1..n : made[k] = lockup_of(drafts[ids[k]])
  BY DEF Lot
<1>3. ASSUME NEW k \in 1..n
      PROVE  /\ made[k] \in LockupType
             /\ SoundLockup(made[k], made[k], now)
             /\ made[k].claimed_balance = 0
             /\ total_balance(made[k].schedule) > 0
  BY <1>1, <1>2, LotSound
<1>4. made \in [1..n -> LockupType]
  BY <1>3 DEF Lot
<1>5. Len(lockups) + n <= MaxLockups
  BY <1>1, RoomForBound DEF convert_drafts, DraftsTypeOK
<1>6. /\ lockups' = lockups \o made
      /\ account_lockups' = [a \in Accounts |-> account_lockups[a] \cup
                               { Len(lockups) + k : k \in { j \in 1..n : made[j].account_id = a } }]
      /\ indexer' = indexer \o [k \in 1..n |-> Created(made[k])]
      /\ UNCHANGED <<now, deposit_whitelist, promises, custody>>
  BY DEF convert_drafts, Lot
<1> QED
  BY <1>1, <1>3, <1>4, <1>5, <1>6 DEF LotAdded

(* The drafts are gone, and say which lockup they became.                  *)
LEMMA DraftsConverted ==
  ASSUME DraftsTypeOK, GroupsAddUp, History, NEW T, T \subseteq DraftIds, NEW ids,
         OrderOf(ids, T), convert_drafts(ids)
  PROVE  /\ DraftsRemoved(T) /\ GroupsCut(T)
         /\ \A k \in 1..Len(ids) : converted'[ids[k]] = Len(lockups) + k
<1> DEFINE n == Len(ids)
<1>1. /\ \A k \in 1..n : /\ ids[k] \in DraftIds /\ drafts[ids[k]] # None
                         /\ assert_can_convert_draft(drafts[ids[k]].draft_group_id)
      /\ T = { ids[k] : k \in 1..n }
      /\ \A j, k \in 1..n : ids[j] = ids[k] => j = k
  BY DEF OrderOf, Named, convert_drafts, Convertible
<1>2. \A d \in T : drafts[d] # None /\ ~Open(drafts[d].draft_group_id)
  BY <1>1 DEF assert_can_convert_draft, Open
<1>3. RemoveDrafts(T) /\ written' = written
  BY <1>1 DEF convert_drafts
<1>4. converted' = [d \in DraftIds |-> IF \E k \in 1..n : ids[k] = d
                                       THEN Len(lockups) + (CHOOSE k \in 1..n : ids[k] = d)
                                       ELSE converted[d]]
  BY DEF convert_drafts
<1>5. drafts' = [d \in DraftIds |-> IF d \in T THEN None ELSE drafts[d]]
  BY <1>3 DEF RemoveDrafts
<1> HIDE DEF n
<1>6. \A d \in DraftIds \ T : converted'[d] = converted[d]
  BY <1>1, <1>4
<1>7. DraftsRemoved(T)
  BY <1>2, <1>3, <1>5, <1>6 DEF DraftsRemoved
<1>8. GroupsCut(T)
  BY <1>2, <1>3, RemovedGrouped
<1>9. ASSUME NEW k \in 1..n PROVE converted'[ids[k]] = Len(lockups) + k
  <2>1. (CHOOSE j \in 1..n : ids[j] = ids[k]) = k
    BY <1>1
  <2> QED
    BY <1>1, <1>4, <2>1
<1> QED
  BY <1>7, <1>8, <1>9 DEF n

LEMMA ConvertedLot ==
  ASSUME DraftsTypeOK, IInv, GroupsAddUp, History, Financed, ConvertedAsWritten, AcceptedKept,
         NEW T, T \subseteq DraftIds, NEW ids, OrderOf(ids, T), convert_drafts(ids)
  PROVE  ConvertedAsWritten'
<1> DEFINE n == Len(ids)
           m == Len(lockups)
           made == Lot(ids)
<1>1. /\ n \in Nat /\ m \in Nat
      /\ \A k \in 1..n : ids[k] \in T
      /\ \A d \in T : \E k \in 1..n : d = ids[k]
  BY DraftTypes DEF OrderOf, Named
<1>2. /\ DraftsRemoved(T)
      /\ \A k \in 1..n : converted'[ids[k]] = m + k
  BY DraftsConverted
<1>3. /\ \A i \in 1..m : indexer'[i] = indexer[i]
      /\ \A k \in 1..n : indexer'[m + k] = Created(made[k])
  BY LotConverted, LotElements
<1>4. \A d \in DraftIds \ T : converted'[d] = converted[d]
  BY <1>2 DEF DraftsRemoved
<1>5. \A d \in DraftIds : converted[d] \in 0..m
  BY DraftTypes
<1>6. ASSUME NEW d \in DraftIds, d \notin T, converted'[d] # 0
      PROVE  \E g \in GroupIds : AsWritten(d, g)'
  <2>1. converted[d] # 0 /\ converted'[d] = converted[d] /\ converted[d] \in 1..m
    BY <1>1, <1>4, <1>5, <1>6
  <2>2. PICK g \in GroupIds : AsWritten(d, g)
    BY <2>1, ConvertedMeans
  <2>3. indexer'[converted[d]].lockup = indexer[converted[d]].lockup
    BY <1>3, <2>1
  <2>4. written'[d] = written[d]
    BY <1>2 DEF DraftsRemoved
  <2>5. AsWritten(d, g)'
    BY <2>1, <2>2, <2>3, <2>4, ConvertedKept
  <2> QED
    BY <2>5
<1>7. ASSUME NEW d \in T
      PROVE  \E g \in GroupIds : AsWritten(d, g)'
  <2> DEFINE draft == drafts[d]
             c == draft.lockup_create
  <2>1. PICK k \in 1..n : d = ids[k]
    BY <1>1
  <2>2. d \in DraftIds /\ drafts[d] # None /\ assert_can_convert_draft(draft.draft_group_id)
    BY <2>1 DEF convert_drafts, Convertible
  <2>3. draft \in Draft /\ written'[d] = draft
    BY <1>2, <2>2, DraftTypes DEF History, DraftsRemoved
  <2>4. PICK g \in GroupIds : g = draft.draft_group_id
    BY <2>3, DraftFields
  <2>5. PICK p : p = draft_groups[g].payer_id
    OBVIOUS
  <2>6. lockup_of(draft) = into_lockup(c, p)
    BY <2>4, <2>5 DEF lockup_of
  <2>7. made[k] = lockup_of(draft)
    BY <2>1 DEF Lot
  <2>8. converted'[d] = m + k /\ indexer'[m + k] = Created(made[k])
    BY <1>2, <1>3, <2>1
  <2>9. PICK f \in Accepted(g) : fundings[f].sender_id = p
    BY <2>2, <2>4, <2>5 DEF Financed, FinancedGroup, assert_can_convert_draft
  <2>10. f \in Accepted(g)' /\ fundings'[f].sender_id = p
    BY <2>9 DEF AcceptedKept
  <2>11. indexer'[converted'[d]].lockup = into_lockup(c, p)
    <3> DEFINE e == Created(made[k])
    <3>1. e.lockup = made[k]
      BY DEF Created
    <3> HIDE DEF e, made, m, c
    <3> QED
      BY <2>6, <2>7, <2>8, <3>1 DEF e
  <2>12. written'[d].draft_group_id = g /\ written'[d].lockup_create = c
    BY <2>3, <2>4
  <2> HIDE DEF draft, c
  <2>13. AsWritten(d, g)'
    BY <2>10, <2>11, <2>12 DEF AsWritten
  <2> QED
    BY <2>13
<1>8. ConvertedOnce'
  <2> SUFFICES ASSUME NEW d \in DraftIds, NEW e \in DraftIds, converted'[d] # 0,
                      converted'[d] = converted'[e]
               PROVE  d = e
    BY DEF ConvertedOnce
  <2>1. ConvertedOnce
    BY ConvertedMeans
  <2>2. CASE d \in T /\ e \in T
    <3>1. PICK j, k \in 1..n : d = ids[j] /\ e = ids[k]
      BY <1>1, <2>2
    <3>2. m + j = m + k
      BY <1>2, <3>1
    <3> QED
      BY <1>1, <3>1, <3>2
  <2>3. CASE d \notin T /\ e \notin T
    BY <1>4, <2>1, <2>3 DEF ConvertedOnce
  <2>4. ASSUME NEW a \in T, NEW b \in DraftIds \ T PROVE converted'[a] # converted'[b]
    <3>1. PICK k \in 1..n : a = ids[k]
      BY <1>1
    <3>2. converted'[a] = m + k /\ converted'[b] \in 0..m
      BY <1>2, <1>4, <1>5, <3>1
    <3> QED
      BY <1>1, <3>2
  <2> QED
    BY <2>2, <2>3, <2>4
<1> QED
  BY <1>6, <1>7, <1>8, MeansConverted

(* The types of the maps, when drafts are removed.                         *)
LEMMA TypesRemoved ==
  ASSUME DraftsTypeOK, History, GroupsAddUp, NEW S, DraftsRemoved(S), GroupsCut(S), RemoveDrafts(S),
         TypeOK', fundings' \in Seq(Funding), converted' \in [DraftIds -> 0..Len(lockups')],
         UNCHANGED <<next_draft_id, next_draft_group_id, draft_operators_whitelist>>
  PROVE  DraftsTypeOK'
<1>1. drafts' \in [DraftIds -> Draft \cup {None}]
  BY DEF DraftsTypeOK, DraftsRemoved
<1>2. draft_groups' \in [GroupIds -> DraftGroup \cup {None}]
  <2>1. draft_groups' = [g \in GroupIds |-> draft_groups'[g]]
    BY DEF RemoveDrafts
  <2>2. \A g \in GroupIds : draft_groups'[g] \in DraftGroup \cup {None}
    BY CutTyped
  <2> QED
    BY <2>1, <2>2
<1>3. written' \in [DraftIds -> Draft \cup {None}]
  BY DEF DraftsTypeOK, DraftsRemoved
<1> QED
  BY <1>1, <1>2, <1>3 DEF DraftsTypeOK

-----------------------------------------------------------------------------
(* Conversion and deletion keep the invariant.                             *)

LEMMA InvConverted ==
  ASSUME DraftsInv, IInv, AcceptedKept, fundings' \in Seq(Funding),
         NEW T, T \subseteq DraftIds, NEW ids, OrderOf(ids, T), convert_drafts(ids)
  PROVE  DraftsInv' /\ IInv'
<1>1. /\ DraftsTypeOK /\ GroupsAddUp /\ History /\ Financed
      /\ FundingBuysItsDrafts /\ ConvertedAsWritten
  BY DEF DraftsInv
<1>2. /\ DraftsRemoved(T) /\ GroupsCut(T)
      /\ \A k \in 1..Len(ids) : converted'[ids[k]] = Len(lockups) + k
  BY <1>1, DraftsConverted
<1>3. UNCHANGED <<next_draft_id, next_draft_group_id, draft_operators_whitelist>>
  BY DEF convert_drafts
<1>4. RemoveDrafts(T)
  BY DEF convert_drafts, OrderOf, Named
<1>5. LotAdded(Lot(ids), Len(ids))
  BY <1>1, LotConverted
<1>6. IInv'
  BY <1>5, LotInv
<1>7. /\ Len(ids) \in Nat /\ Len(lockups) \in Nat
      /\ Len(lockups') = Len(lockups) + Len(ids)
      /\ \A d \in T : \E k \in 1..Len(ids) : d = ids[k]
  BY <1>1, <1>5, LotElements, DraftTypes DEF OrderOf, Named
<1>8. \A d \in T : converted'[d] # 0 /\ converted'[d] \in 0..Len(lockups')
  BY <1>2, <1>7
<1>9. converted' \in [DraftIds -> 0..Len(lockups')]
  <2>1. converted' = [d \in DraftIds |-> converted'[d]]
    BY DEF convert_drafts
  <2>2. \A d \in DraftIds \ T : converted'[d] \in 0..Len(lockups')
    <3>1. \A d \in DraftIds \ T : converted'[d] \in 0..Len(lockups)
      BY <1>1, <1>2, DraftTypes DEF DraftsRemoved
    <3> QED
      BY <1>7, <3>1
  <2> QED
    BY <1>8, <2>1, <2>2
<1>10. DraftsTypeOK'
  BY <1>1, <1>2, <1>3, <1>4, <1>6, <1>9, TypesRemoved DEF IInv
<1>11. GroupsAddUp'
  BY <1>1, <1>2, AddUpRemoved
<1>12. History'
  BY <1>1, <1>2, <1>3, HistoryRemoved
<1>13. Financed'
  BY <1>1, <1>2, <1>3, FinancedRemoved
<1>14. FundingBuysItsDrafts'
  BY <1>1, <1>2, <1>8, FundingRemoved
<1>15. ConvertedAsWritten'
  BY <1>1, ConvertedLot
<1> QED
  BY <1>6, <1>10, <1>11, <1>12, <1>13, <1>14, <1>15 DEF DraftsInv

LEMMA InvDeleted ==
  ASSUME DraftsInv, IInv, NEW S \in SomeIds, DeleteDrafts(S)
  PROVE  DraftsInv' /\ IInv'
<1>1. /\ DraftsTypeOK /\ GroupsAddUp /\ History /\ Financed
      /\ FundingBuysItsDrafts /\ ConvertedAsWritten
  BY DEF DraftsInv
<1>2. /\ S \subseteq DraftIds /\ RemoveDrafts(S) /\ UNCHANGED vars
      /\ UNCHANGED <<next_draft_id, next_draft_group_id, draft_operators_whitelist,
                     fundings, written, converted>>
      /\ \A d \in S : drafts[d] # None /\ assert_can_delete_draft(drafts[d].draft_group_id)
  BY DEF DeleteDrafts, SomeIds
<1>3. DraftsRemoved(S)
  BY <1>2 DEF DraftsRemoved, RemoveDrafts, assert_can_delete_draft, Open
<1>4. GroupsCut(S)
  BY <1>1, <1>2, RemovedGrouped
<1>5. AcceptedKept
  BY <1>2, SameFundings
<1>6. IInv'
  BY <1>2, InvStutter
<1>7. DraftsTypeOK'
  <2>1. fundings' \in Seq(Funding) /\ converted' \in [DraftIds -> 0..Len(lockups')]
    BY <1>1, <1>2 DEF vars, DraftsTypeOK
  <2> QED
    BY <1>1, <1>2, <1>3, <1>4, <1>6, <2>1, TypesRemoved DEF IInv
<1>8. GroupsAddUp'
  BY <1>1, <1>3, <1>4, AddUpRemoved
<1>9. History'
  BY <1>1, <1>2, <1>3, HistoryRemoved
<1>10. Financed'
  BY <1>1, <1>2, <1>3, <1>4, <1>5, FinancedRemoved
<1>11. FundingBuysItsDrafts'
  <2>1. ASSUME NEW d \in S PROVE Accepted(drafts[d].draft_group_id) = {}
    <3>1. d \in DraftIds /\ drafts[d] # None /\ assert_can_delete_draft(drafts[d].draft_group_id)
      BY <1>2
    <3>2. drafts[d].draft_group_id \in GroupIds
      BY <1>1, <3>1, DraftTypes, DraftFields
    <3> QED
      BY <1>1, <3>1, <3>2 DEF Financed, FinancedGroup, assert_can_delete_draft
  <2> QED
    BY <1>1, <1>3, <1>5, <2>1, FundingRemoved
<1>12. ConvertedAsWritten'
  BY <1>1, <1>2 DEF ConvertedAsWritten, Accepted, vars
<1> QED
  BY <1>6, <1>7, <1>8, <1>9, <1>10, <1>11, <1>12 DEF DraftsInv

LEMMA InvAdded ==
  ASSUME DraftsInv, IInv, NEW caller \in Accounts, NEW batch \in Batches,
         CreateDrafts(caller, batch)
  PROVE  DraftsInv' /\ IInv'
<1> DEFINE N == NewIds(batch)
<1>1. /\ DraftsTypeOK /\ GroupsAddUp /\ History /\ Financed
      /\ FundingBuysItsDrafts /\ ConvertedAsWritten
  BY DEF DraftsInv
<1>2. /\ next_draft_id' \in next_draft_id..(MaxDrafts + 1)
      /\ DraftsAdded(N) /\ GroupsExtended(N)
  BY <1>1, BatchAdded, BatchGrouped
<1>3. UNCHANGED vars /\ UNCHANGED <<next_draft_group_id, draft_operators_whitelist, fundings, converted>>
  BY DEF CreateDrafts
<1>4. /\ drafts' = [d \in DraftIds |-> drafts'[d]]
      /\ written' = [d \in DraftIds |-> written'[d]]
      /\ draft_groups' = [g \in GroupIds |-> draft_groups'[g]]
  BY DEF CreateDrafts
<1> HIDE DEF N
<1>5. AcceptedKept
  BY <1>3, SameFundings
<1>6. IInv'
  BY <1>3, InvStutter
<1>7. DraftsTypeOK'
  <2>1. \A d \in DraftIds : drafts'[d] \in Draft \cup {None} /\ written'[d] \in Draft \cup {None}
    BY <1>1, <1>2 DEF DraftsAdded, DraftsTypeOK
  <2>2. ASSUME NEW g \in GroupIds PROVE draft_groups'[g] \in DraftGroup \cup {None}
    <3>1. CASE draft_groups[g] = None
      <4>1. OfGroup(N, drafts', g) = {}
        BY <1>2, <3>1 DEF DraftsAdded, OfGroup, Open
      <4> QED
        BY <1>2, <3>1, <4>1 DEF GroupsExtended
    <3>2. CASE draft_groups[g] # None
      BY <1>1, <1>2, <3>2, GroupsTyped
    <3> QED
      BY <3>1, <3>2
  <2>3. drafts' \in [DraftIds -> Draft \cup {None}] /\ written' \in [DraftIds -> Draft \cup {None}]
    BY <1>4, <2>1
  <2>4. draft_groups' \in [GroupIds -> DraftGroup \cup {None}]
    BY <1>4, <2>2
  <2>5. next_draft_id' \in 1..(MaxDrafts + 1)
    BY <1>1, <1>2, DraftBounds DEF DraftsTypeOK
  <2> QED
    BY <1>1, <1>3, <1>6, <2>3, <2>4, <2>5 DEF DraftsTypeOK, IInv, vars
<1>8. GroupsAddUp'
  BY <1>1, <1>2, AddUpAdded
<1>9. History'
  <2>1. next_draft_id' \in Nat /\ next_draft_id <= next_draft_id'
    BY <1>1, <1>2, DraftTypes
  <2> QED
    BY <1>1, <1>2, <1>3, <2>1, HistoryAdded
<1>10. Financed'
  BY <1>1, <1>2, <1>3, <1>5, FinancedAdded
<1>11. FundingBuysItsDrafts'
  BY <1>1, <1>2, <1>3, <1>5, FundingAdded
<1>12. ConvertedAsWritten'
  BY <1>1, <1>2, <1>3, <1>5, ConvertedAdded DEF vars
<1> QED
  BY <1>6, <1>7, <1>8, <1>9, <1>10, <1>11, <1>12 DEF DraftsInv

-----------------------------------------------------------------------------
(* Steps that leave the maps alone.                                        *)

MapsKept == UNCHANGED <<drafts, draft_groups, next_draft_id, next_draft_group_id, written, converted>>

LEMMA InvMapsKept ==
  ASSUME DraftsInv, IInv', MapsKept, CreatedKept, AcceptedKept,
         fundings' \in Seq(Funding), draft_operators_whitelist' \subseteq Accounts
  PROVE  DraftsInv'
<1>1. /\ DraftsTypeOK /\ GroupsAddUp /\ History /\ Financed
      /\ FundingBuysItsDrafts /\ ConvertedAsWritten
  BY DEF DraftsInv
<1>2. /\ drafts' = drafts /\ draft_groups' = draft_groups
      /\ next_draft_id' = next_draft_id /\ next_draft_group_id' = next_draft_group_id
      /\ written' = written /\ converted' = converted
  BY DEF MapsKept
<1>3. DraftsTypeOK'
  <2>1. Len(lockups) \in Nat /\ Len(lockups') \in Nat /\ Len(lockups) <= Len(lockups')
    <3>1. lockups' \in Seq(LockupType)
      BY DEF IInv, TypeOK
    <3> QED
      BY <1>1, <3>1, DraftTypes DEF CreatedKept
  <2>2. 0..Len(lockups) \subseteq 0..Len(lockups')
    BY <2>1
  <2>3. converted' \in [DraftIds -> 0..Len(lockups')]
    BY <1>1, <1>2, <2>2 DEF DraftsTypeOK
  <2> QED
    BY <1>1, <1>2, <2>3 DEF DraftsTypeOK, IInv
<1>4. GroupsAddUp'
  <2>1. \A g \in GroupIds : DraftsOf(g)' = DraftsOf(g)
    BY <1>2 DEF DraftsOf
  <2>2. Groups' = Groups /\ \A g \in GroupIds : Open(g)' <=> Open(g)
    BY <1>2 DEF Groups, Open
  <2>3. Groups \subseteq GroupIds
    BY DEF Groups
  <2> QED
    BY <1>1, <1>2, <2>1, <2>2, <2>3 DEF GroupsAddUp
<1>5. History'
  BY <1>1, <1>2 DEF History, Checked, balance_of
<1>6. Financed'
  <2> SUFFICES ASSUME NEW g \in GroupIds PROVE FinancedGroup(g)'
    BY DEF Financed
  <2>1. FinancedGroup(g)
    BY <1>1 DEF Financed
  <2>2. /\ Accepted(g)' = Accepted(g)
        /\ \A f \in Accepted(g) : fundings'[f].sender_id = fundings[f].sender_id
    BY DEF AcceptedKept
  <2>3. Open(g)' <=> Open(g)
    BY <1>2 DEF Open
  <2>4. WrittenFor(g)' = WrittenFor(g)
    BY <1>2 DEF WrittenFor
  <2> QED
    BY <1>2, <2>1, <2>2, <2>3, <2>4 DEF FinancedGroup
<1>7. FundingBuysItsDrafts'
  <2> SUFFICES ASSUME NEW g \in GroupIds, NEW f \in Accepted(g)'
               PROVE  /\ Accepted(g)' = {f}
                      /\ fundings'[f].amount = BalanceOf(WrittenFor(g)', written')
                      /\ \A d \in WrittenFor(g)' : (converted'[d] = 0) <=> (drafts'[d] # None)
    BY DEF FundingBuysItsDrafts
  <2>1. Accepted(g)' = Accepted(g) /\ f \in Accepted(g) /\ fundings'[f].amount = fundings[f].amount
    BY DEF AcceptedKept
  <2>2. WrittenFor(g)' = WrittenFor(g)
    BY <1>2 DEF WrittenFor
  <2> QED
    BY <1>1, <1>2, <2>1, <2>2 DEF FundingBuysItsDrafts
<1>8. ConvertedAsWritten'
  <2>1. ASSUME NEW d \in DraftIds, converted'[d] # 0
        PROVE  \E g \in GroupIds : AsWritten(d, g)'
    <3>1. PICK g \in GroupIds : AsWritten(d, g)
      BY <1>1, <1>2, <2>1, ConvertedMeans
    <3>2. converted[d] \in Indices
      BY <1>1, <1>2, <2>1, DraftTypes DEF Indices
    <3>3. indexer'[converted[d]].lockup = indexer[converted[d]].lockup
      BY <3>2 DEF CreatedKept
    <3>4. AsWritten(d, g)'
      BY <1>2, <3>1, <3>3, ConvertedKept
    <3> QED
      BY <3>4
  <2>2. ConvertedOnce'
    BY <1>1, <1>2, ConvertedMeans DEF ConvertedOnce
  <2> QED
    BY <2>1, <2>2, MeansConverted
<1> QED
  BY <1>3, <1>4, <1>5, <1>6, <1>7, <1>8 DEF DraftsInv

FundingStates == {"sent", "refused", "returned", "accepted", "converting"}
Paying == {"accepted", "converting"}

(* Funding f gets further, and may remember drafts to convert.             *)
FundingMoved(f, status, ids) ==
  fundings' = [fundings EXCEPT ![f].status = status, ![f].draft_indices = ids]

LEMMA MovedFunding ==
  ASSUME fundings \in Seq(Funding), NEW f \in 1..Len(fundings), NEW status \in FundingStates,
         NEW ids \in SUBSET DraftIds, FundingMoved(f, status, ids)
  PROVE  /\ fundings' \in Seq(Funding)
         /\ Len(fundings') = Len(fundings) /\ Len(fundings) \in Nat
         /\ \A e \in 1..Len(fundings) :
              /\ e # f => fundings'[e] = fundings[e]
              /\ fundings[e] \in Funding
              /\ fundings'[e].sender_id = fundings[e].sender_id
              /\ fundings'[e].amount = fundings[e].amount
              /\ fundings'[e].draft_group_id = fundings[e].draft_group_id
         /\ fundings'[f].status = status
<1> DEFINE n == Len(fundings)
           x == [fundings[f] EXCEPT !.status = status, !.draft_indices = ids]
<1>1. n \in Nat /\ fundings \in [1..n -> Funding]
  BY LenProperties
<1>2. fundings[f] \in Funding
  BY <1>1
<1>3. /\ x \in Funding /\ x.status = status
      /\ x.sender_id = fundings[f].sender_id /\ x.amount = fundings[f].amount
      /\ x.draft_group_id = fundings[f].draft_group_id
  BY <1>2 DEF Funding, FundingStates
<1>4. fundings' = [fundings EXCEPT ![f] = x]
  BY <1>1 DEF FundingMoved
<1> HIDE DEF x
<1>5. fundings' \in [1..n -> Funding] /\ \A e \in 1..n : fundings'[e] = IF e = f THEN x ELSE fundings[e]
  BY <1>1, <1>3, <1>4
<1> HIDE DEF n
<1>6. fundings' \in Seq(Funding) /\ Len(fundings') = n
  BY <1>1, <1>5, FunctionIsSeq
<1> QED
  BY <1>1, <1>3, <1>5, <1>6 DEF n

LEMMA MovedKeeps ==
  ASSUME fundings \in Seq(Funding), NEW f \in 1..Len(fundings), NEW status \in FundingStates,
         NEW ids \in SUBSET DraftIds, FundingMoved(f, status, ids),
         status \in Paying <=> fundings[f].status \in Paying
  PROVE  AcceptedKept
<1> SUFFICES ASSUME NEW g \in GroupIds
             PROVE  /\ Accepted(g)' = Accepted(g)
                    /\ \A e \in Accepted(g) : /\ fundings'[e].sender_id = fundings[e].sender_id
                                              /\ fundings'[e].amount = fundings[e].amount
  BY DEF AcceptedKept
<1>1. /\ Len(fundings') = Len(fundings)
      /\ \A e \in 1..Len(fundings) :
              /\ e # f => fundings'[e] = fundings[e]
              /\ fundings'[e].sender_id = fundings[e].sender_id
              /\ fundings'[e].amount = fundings[e].amount
              /\ fundings'[e].draft_group_id = fundings[e].draft_group_id
      /\ fundings'[f].status = status
  BY MovedFunding
<1>2. \A e \in 1..Len(fundings) : fundings'[e].status \in Paying <=> fundings[e].status \in Paying
  BY <1>1
<1>3. /\ Accepted(g) = { e \in 1..Len(fundings) : fundings[e].draft_group_id = g
                                                  /\ fundings[e].status \in Paying }
      /\ Accepted(g)' = { e \in 1..Len(fundings') : fundings'[e].draft_group_id = g
                                                    /\ fundings'[e].status \in Paying }
  BY DEF Accepted, Paying
<1>4. Accepted(g)' = Accepted(g)
  BY <1>1, <1>2, <1>3
<1>5. \A e \in Accepted(g) : e \in 1..Len(fundings)
  BY <1>3
<1> QED
  BY <1>1, <1>4, <1>5

(* A change of the status alone.                                           *)
LEMMA StatusMoves ==
  ASSUME fundings \in Seq(Funding), NEW f \in 1..Len(fundings), NEW status \in FundingStates,
         fundings' = [fundings EXCEPT ![f].status = status]
  PROVE  /\ fundings[f].draft_indices \in SUBSET DraftIds
         /\ FundingMoved(f, status, fundings[f].draft_indices)
<1>1. fundings[f] \in Funding /\ fundings \in [1..Len(fundings) -> Funding]
  BY LenProperties
<1>2. [fundings[f] EXCEPT !.status = status]
        = [fundings[f] EXCEPT !.status = status, !.draft_indices = fundings[f].draft_indices]
  BY <1>1 DEF Funding
<1>3. fundings[f].draft_indices \in SUBSET DraftIds
  BY <1>1 DEF Funding
<1> QED
  BY <1>1, <1>2, <1>3 DEF FundingMoved

LEMMA SentKeeps ==
  ASSUME fundings \in Seq(Funding), NEW x \in Funding, x.status = "sent",
         fundings' = Append(fundings, x)
  PROVE  AcceptedKept /\ fundings' \in Seq(Funding)
<1>1. /\ fundings' \in Seq(Funding) /\ Len(fundings') = Len(fundings) + 1 /\ Len(fundings) \in Nat
      /\ \A e \in 1..Len(fundings) : fundings'[e] = fundings[e]
      /\ fundings'[Len(fundings) + 1] = x
  BY AppendProperties, LenProperties
<1>2. ASSUME NEW g \in GroupIds PROVE Accepted(g)' = Accepted(g)
  <2>1. \A e \in 1..Len(fundings') : e \in 1..Len(fundings) \/ e = Len(fundings) + 1
    BY <1>1
  <2>2. \A e \in 1..Len(fundings) : e \in 1..Len(fundings')
    BY <1>1
  <2> QED
    BY <1>1, <2>1, <2>2 DEF Accepted
<1> QED
  BY <1>1, <1>2 DEF AcceptedKept, Accepted

-----------------------------------------------------------------------------
(* The registry's own steps, and the receipts of a funding.                *)

LEMMA InvRegistry ==
  ASSUME DraftsInv, IInv, [Next]_vars, UNCHANGED draftVars
  PROVE  DraftsInv' /\ IInv'
<1>1. IInv' /\ CreatedKept
  BY InvNext, KeepsCreated
<1>2. MapsKept /\ AcceptedKept
  BY SameFundings DEF draftVars, MapsKept
<1>3. fundings' \in Seq(Funding) /\ draft_operators_whitelist' \subseteq Accounts
  BY DEF draftVars, DraftsInv, DraftsTypeOK
<1> QED
  BY <1>1, <1>2, <1>3, InvMapsKept

(* What the registry sees of a deposit that arrives or is taken back.      *)
LEMMA InvCustody ==
  ASSUME IInv, UNCHANGED <<now, lockups, account_lockups, deposit_whitelist, promises, indexer>>,
         custody' \in Nat
  PROVE  IInv' /\ CreatedKept
<1>1. IInv'
  BY DEF IInv, TypeOK, Indices, SoundLockup, Terminatable
<1>2. Len(lockups) \in Nat
  BY TypeFacts DEF IInv
<1> QED
  BY <1>1, <1>2 DEF CreatedKept

LEMMA InvUntouched ==
  ASSUME IInv, UNCHANGED vars
  PROVE  IInv' /\ CreatedKept
<1>1. custody' \in Nat
  BY DEF IInv, TypeOK, vars
<1> QED
  BY <1>1, InvCustody DEF vars

LEMMA InvFtTransferCall ==
  ASSUME DraftsInv, IInv, NEW sender_id \in Accounts, NEW amount \in FundingAmounts,
         NEW g \in GroupIds, NEW try_convert \in BOOLEAN,
         FtTransferCall(sender_id, amount, g, try_convert)
  PROVE  DraftsInv' /\ IInv' /\ custody' = custody + amount
<1> DEFINE x == [sender_id |-> sender_id, amount |-> amount, draft_group_id |-> g,
                 try_convert |-> try_convert, draft_indices |-> {}, status |-> "sent"]
<1>1. x \in Funding /\ x.status = "sent"
  BY DEF Funding
<1>2. fundings' = Append(fundings, x)
  BY DEF FtTransferCall
<1> HIDE DEF x
<1>3. AcceptedKept /\ fundings' \in Seq(Funding)
  BY <1>1, <1>2, SentKeeps DEF DraftsInv, DraftsTypeOK
<1>4. MapsKept /\ draft_operators_whitelist' \subseteq Accounts /\ custody' = custody + amount
  BY DEF FtTransferCall, MapsKept, DraftsInv, DraftsTypeOK
<1>5. custody' \in Nat
  BY <1>4, FundingAmountsAssumption DEF IInv, TypeOK
<1>6. IInv' /\ CreatedKept
  BY <1>5, InvCustody DEF FtTransferCall
<1> QED
  BY <1>3, <1>4, <1>6, InvMapsKept

LEMMA InvRefused ==
  ASSUME DraftsInv, IInv, NEW f \in 1..Len(fundings), FtOnTransferRefused(f)
  PROVE  DraftsInv' /\ IInv'
<1>1. fundings \in Seq(Funding) /\ "refused" \in FundingStates
  BY DEF DraftsInv, DraftsTypeOK, FundingStates
<1>2. fundings[f].draft_indices \in SUBSET DraftIds
      /\ FundingMoved(f, "refused", fundings[f].draft_indices)
  BY <1>1, StatusMoves DEF FtOnTransferRefused
<1>3. AcceptedKept
  <2>1. fundings[f].status \notin Paying /\ "refused" \notin Paying
    BY DEF FtOnTransferRefused, Paying
  <2> QED
    BY <1>1, <1>2, <2>1, MovedKeeps
<1>4. fundings' \in Seq(Funding)
  BY <1>1, <1>2, MovedFunding
<1>5. MapsKept /\ draft_operators_whitelist' \subseteq Accounts /\ UNCHANGED vars
  BY DEF FtOnTransferRefused, MapsKept, DraftsInv, DraftsTypeOK
<1> QED
  BY <1>3, <1>4, <1>5, InvUntouched, InvMapsKept

LEMMA InvResolved ==
  ASSUME DraftsInv, IInv, NEW f \in 1..Len(fundings), FtResolveTransfer(f)
  PROVE  DraftsInv' /\ IInv'
<1>1. fundings \in Seq(Funding) /\ "returned" \in FundingStates
  BY DEF DraftsInv, DraftsTypeOK, FundingStates
<1>2. fundings[f].draft_indices \in SUBSET DraftIds
      /\ FundingMoved(f, "returned", fundings[f].draft_indices)
  BY <1>1, StatusMoves DEF FtResolveTransfer
<1>3. AcceptedKept
  <2>1. fundings[f].status \notin Paying /\ "returned" \notin Paying
    BY DEF FtResolveTransfer, Paying
  <2> QED
    BY <1>1, <1>2, <2>1, MovedKeeps
<1>4. fundings' \in Seq(Funding) /\ fundings[f] \in Funding
  BY <1>1, <1>2, MovedFunding
<1>5. MapsKept /\ draft_operators_whitelist' \subseteq Accounts
  BY DEF FtResolveTransfer, MapsKept, DraftsInv, DraftsTypeOK
<1>6. custody' \in Nat
  <2>1. fundings[f].amount \in Nat /\ custody \in Nat
    BY <1>4, FundingAmountsAssumption DEF Funding, IInv, TypeOK
  <2> QED
    BY <2>1 DEF FtResolveTransfer
<1>7. IInv' /\ CreatedKept
  BY <1>6, InvCustody DEF FtResolveTransfer
<1> QED
  BY <1>3, <1>4, <1>5, <1>7, InvMapsKept

(* A conversion asked for by a funding, whether it succeeds or panics.     *)
LEMMA ConversionEnds ==
  ASSUME DraftsInv, NEW f \in 1..Len(fundings), RunConversion(f)
  PROVE  /\ AcceptedKept /\ fundings' \in Seq(Funding)
         /\ fundings[f].draft_indices \in SUBSET DraftIds
         /\ FundingMoved(f, "accepted", fundings[f].draft_indices)
<1>1. fundings \in Seq(Funding) /\ "accepted" \in FundingStates
  BY DEF DraftsInv, DraftsTypeOK, FundingStates
<1>2. fundings[f].draft_indices \in SUBSET DraftIds
      /\ FundingMoved(f, "accepted", fundings[f].draft_indices)
  BY <1>1, StatusMoves DEF RunConversion
<1>3. fundings[f].status \in Paying /\ "accepted" \in Paying
  BY DEF RunConversion, Paying
<1> QED
  BY <1>1, <1>2, <1>3, MovedKeeps, MovedFunding

LEMMA InvRunConversion ==
  ASSUME DraftsInv, IInv, NEW f \in 1..Len(fundings), RunConversion(f)
  PROVE  DraftsInv' /\ IInv'
<1> DEFINE T == fundings[f].draft_indices
<1>1. AcceptedKept /\ fundings' \in Seq(Funding) /\ T \subseteq DraftIds
  BY ConversionEnds
<1>2. ASSUME NEW ids \in Bijection(1..Cardinality(T), T), convert_drafts(ids)
      PROVE  DraftsInv' /\ IInv'
  <2> HIDE DEF T
  <2> QED
    BY <1>1, <1>2, BijectionOrders, InvConverted
<1>3. ASSUME UNCHANGED <<vars, drafts, draft_groups, next_draft_id, next_draft_group_id,
                         draft_operators_whitelist, written, converted>>
      PROVE  DraftsInv' /\ IInv'
  <2>1. MapsKept /\ draft_operators_whitelist' \subseteq Accounts /\ UNCHANGED vars
    BY <1>3 DEF MapsKept, DraftsInv, DraftsTypeOK
  <2> QED
    BY <1>1, <2>1, InvUntouched, InvMapsKept
<1> QED
  BY <1>2, <1>3 DEF RunConversion

LEMMA InvConvertDrafts ==
  ASSUME DraftsInv, IInv, NEW S \in SomeIds, NEW ids \in Bijection(1..Cardinality(S), S),
         ConvertDrafts(ids)
  PROVE  DraftsInv' /\ IInv'
<1>1. S \subseteq DraftIds
  BY DEF SomeIds
<1>2. convert_drafts(ids) /\ fundings' = fundings
  BY DEF ConvertDrafts
<1>3. AcceptedKept /\ fundings' \in Seq(Funding)
  BY <1>2, SameFundings DEF DraftsInv, DraftsTypeOK
<1> QED
  BY <1>1, <1>2, <1>3, BijectionOrders, InvConverted

-----------------------------------------------------------------------------
(* A group that is created, discarded or funded.                           *)

LEMMA InvCreateGroup ==
  ASSUME DraftsInv, IInv, NEW caller \in Accounts, CreateDraftGroup(caller)
  PROVE  DraftsInv' /\ IInv'
<1> DEFINE n == next_draft_group_id
           empty == [total_amount |-> 0, payer_id |-> None, draft_indices |-> {}, discarded |-> FALSE]
<1>1. /\ DraftsTypeOK /\ GroupsAddUp /\ History /\ Financed
      /\ FundingBuysItsDrafts /\ ConvertedAsWritten
  BY DEF DraftsInv
<1>2. /\ UNCHANGED vars /\ drafts' = drafts /\ next_draft_id' = next_draft_id
      /\ draft_operators_whitelist' = draft_operators_whitelist
      /\ fundings' = fundings /\ written' = written /\ converted' = converted
      /\ n \in GroupIds /\ n \in Nat /\ next_draft_group_id' = n + 1
      /\ draft_groups' = [draft_groups EXCEPT ![n] = empty]
  BY <1>1, DraftBounds DEF CreateDraftGroup, DraftsTypeOK, GroupIds
<1>3. empty \in DraftGroup /\ empty.payer_id = None /\ ~empty.discarded /\ empty # None
      /\ empty.total_amount = 0 /\ empty.draft_indices = {}
  <2>1. 0 \in 0..MaxAmount
    BY DraftBounds
  <2>2. empty \in DraftGroup
    BY <2>1 DEF DraftGroup
  <2>3. empty # None
    BY <2>2, DraftBounds
  <2> QED
    BY <2>2, <2>3
<1>4. draft_groups[n] = None /\ Accepted(n) = {}
  <2>1. FinancedGroup(n)
    BY <1>1, <1>2 DEF Financed
  <2> QED
    BY <1>2, <2>1 DEF FinancedGroup
<1>5. DraftsOf(n) = {} /\ WrittenFor(n) = {}
  BY <1>1, <1>2, <1>4 DEF DraftsOf, WrittenFor, GroupsAddUp, Groups, History
<1> HIDE DEF empty
<1>6. \A g \in GroupIds : draft_groups'[g] = IF g = n THEN empty ELSE draft_groups[g]
  BY <1>1, <1>2 DEF DraftsTypeOK
<1>7. AcceptedKept
  BY <1>2, SameFundings
<1>8. IInv'
  BY <1>2, InvStutter
<1>9. DraftsTypeOK'
  <2>1. draft_groups' \in [GroupIds -> DraftGroup \cup {None}]
    BY <1>1, <1>2, <1>3 DEF DraftsTypeOK
  <2>2. next_draft_group_id' \in 1..(MaxGroups + 1)
    BY <1>2, DraftBounds DEF GroupIds
  <2> QED
    BY <1>1, <1>2, <1>8, <2>1, <2>2 DEF DraftsTypeOK, IInv, vars
<1>10. GroupsAddUp'
  <2>1. ASSUME NEW g \in GroupIds, draft_groups'[g] # None
        PROVE  /\ draft_groups'[g].draft_indices = DraftsOf(g)
               /\ draft_groups'[g].total_amount = BalanceOf(DraftsOf(g), drafts)
               /\ DraftsOf(g) = {} => Open(g)'
    <3>1. CASE g = n
      BY <1>3, <1>5, <1>6, <3>1, BalanceOfNone DEF Open
    <3>2. CASE g # n
      BY <1>1, <1>6, <2>1, <3>2 DEF GroupsAddUp, Groups, Open
    <3> QED
      BY <3>1, <3>2
  <2>2. \A g \in GroupIds : DraftsOf(g)' = DraftsOf(g)
    BY <1>2 DEF DraftsOf
  <2>3. \A d \in DraftIds : drafts'[d] # None => drafts'[d].draft_group_id \in Groups'
    BY <1>1, <1>2, <1>3, <1>6 DEF GroupsAddUp, Groups
  <2> QED
    BY <1>2, <2>1, <2>2, <2>3 DEF GroupsAddUp, Groups
<1>11. History'
  <2> SUFFICES ASSUME NEW d \in DraftIds, written[d] # None
               PROVE  written[d].draft_group_id < n + 1
    BY <1>1, <1>2 DEF History, Checked, balance_of
  <2>1. written[d].draft_group_id < n /\ written[d].draft_group_id \in Nat
    BY <1>1, DraftTypes, DraftFields DEF History
  <2> QED
    BY <1>2, <2>1
<1>12. Financed'
  <2> SUFFICES ASSUME NEW g \in GroupIds PROVE FinancedGroup(g)'
    BY DEF Financed
  <2>1. FinancedGroup(g) /\ g \in Nat
    BY <1>1, DraftTypes DEF Financed
  <2>2. /\ Accepted(g)' = Accepted(g) /\ WrittenFor(g)' = WrittenFor(g)
        /\ \A f \in Accepted(g) : fundings'[f].sender_id = fundings[f].sender_id
    BY <1>2, <1>7 DEF AcceptedKept, WrittenFor
  <2>3. CASE g = n
    BY <1>2, <1>3, <1>4, <1>5, <1>6, <2>2, <2>3 DEF FinancedGroup
  <2>4. CASE g # n
    <3>1. draft_groups'[g] = draft_groups[g]
      BY <1>6, <2>4
    <3>2. Open(g)' <=> Open(g)
      BY <3>1 DEF Open
    <3> QED
      BY <1>2, <2>1, <2>2, <3>1, <3>2 DEF FinancedGroup
  <2> QED
    BY <2>3, <2>4
<1>13. FundingBuysItsDrafts'
  BY <1>1, <1>2, SamePurchases
<1>14. ConvertedAsWritten'
  BY <1>1, <1>2 DEF ConvertedAsWritten, Accepted, vars
<1> QED
  BY <1>8, <1>9, <1>10, <1>11, <1>12, <1>13, <1>14 DEF DraftsInv

LEMMA InvDiscarded ==
  ASSUME DraftsInv, IInv, NEW caller \in Accounts, NEW g \in GroupIds, DiscardDraftGroup(caller, g)
  PROVE  DraftsInv' /\ IInv'
<1> DEFINE group == draft_groups[g]
           kept == [group EXCEPT !.discarded = TRUE]
<1>1. /\ DraftsTypeOK /\ GroupsAddUp /\ History /\ Financed
      /\ FundingBuysItsDrafts /\ ConvertedAsWritten
  BY DEF DraftsInv
<1>2. /\ UNCHANGED vars /\ drafts' = drafts /\ next_draft_id' = next_draft_id
      /\ draft_operators_whitelist' = draft_operators_whitelist
      /\ fundings' = fundings /\ written' = written /\ converted' = converted
      /\ next_draft_group_id' = next_draft_group_id
      /\ Open(g)
      /\ draft_groups' = [draft_groups EXCEPT ![g] = IF group.draft_indices = {} THEN None ELSE kept]
  BY <1>1 DEF DiscardDraftGroup, DraftsTypeOK
<1>3. group \in DraftGroup /\ group # None /\ Accepted(g) = {}
      /\ group.draft_indices = DraftsOf(g)
      /\ group.total_amount = BalanceOf(DraftsOf(g), drafts)
  BY <1>1, <1>2, DraftTypes DEF Open, Financed, FinancedGroup, GroupsAddUp, Groups
<1>4. kept \in DraftGroup /\ kept # None /\ kept.discarded /\ kept.payer_id = None
      /\ kept.draft_indices = group.draft_indices /\ kept.total_amount = group.total_amount
  BY <1>2, <1>3, DraftBounds DEF DraftGroup, Open
<1>5. /\ draft_groups'[g] = IF DraftsOf(g) = {} THEN None ELSE kept
      /\ \A h \in GroupIds : h # g => draft_groups'[h] = draft_groups[h]
  BY <1>1, <1>2, <1>3 DEF DraftsTypeOK
<1>6. draft_groups' \in [GroupIds -> DraftGroup \cup {None}]
  BY <1>1, <1>2, <1>4 DEF DraftsTypeOK
<1> HIDE DEF kept
<1>7. AcceptedKept
  BY <1>2, SameFundings
<1>8. IInv'
  BY <1>2, InvStutter
<1>9. DraftsTypeOK'
  BY <1>1, <1>2, <1>6, <1>8 DEF DraftsTypeOK, IInv, vars
<1>10. GroupsAddUp'
  <2>1. ASSUME NEW h \in GroupIds, draft_groups'[h] # None
        PROVE  /\ draft_groups'[h].draft_indices = DraftsOf(h)
               /\ draft_groups'[h].total_amount = BalanceOf(DraftsOf(h), drafts)
               /\ DraftsOf(h) = {} => Open(h)'
    <3>1. CASE h = g
      BY <1>3, <1>4, <1>5, <2>1, <3>1
    <3>2. CASE h # g
      BY <1>1, <1>5, <2>1, <3>2 DEF GroupsAddUp, Groups, Open
    <3> QED
      BY <3>1, <3>2
  <2>2. \A h \in GroupIds : DraftsOf(h)' = DraftsOf(h)
    BY <1>2 DEF DraftsOf
  <2>3. ASSUME NEW d \in DraftIds, drafts[d] # None PROVE drafts[d].draft_group_id \in Groups'
    <3>1. drafts[d].draft_group_id \in Groups
      BY <1>1, <2>3 DEF GroupsAddUp
    <3>2. drafts[d].draft_group_id = g => DraftsOf(g) # {}
      BY <2>3 DEF DraftsOf
    <3> QED
      BY <1>4, <1>5, <3>1, <3>2 DEF Groups
  <2> QED
    BY <1>2, <2>1, <2>2, <2>3 DEF GroupsAddUp, Groups
<1>11. History'
  BY <1>1, <1>2 DEF History, Checked, balance_of
<1>12. Financed'
  <2> SUFFICES ASSUME NEW h \in GroupIds PROVE FinancedGroup(h)'
    BY DEF Financed
  <2>1. FinancedGroup(h)
    BY <1>1 DEF Financed
  <2>2. /\ Accepted(h)' = Accepted(h) /\ WrittenFor(h)' = WrittenFor(h)
        /\ \A f \in Accepted(h) : fundings'[f].sender_id = fundings[f].sender_id
    BY <1>2, <1>7 DEF AcceptedKept, WrittenFor
  <2>3. CASE h = g
    <3>1. ~Open(g)'
      BY <1>4, <1>5 DEF Open
    <3>2. draft_groups'[g] # None => draft_groups'[g].payer_id = None
      BY <1>4, <1>5
    <3>3. ~(g >= next_draft_group_id)
      BY <1>3, <2>1, <2>3 DEF FinancedGroup
    <3> QED
      BY <1>2, <1>3, <2>2, <2>3, <3>1, <3>2, <3>3 DEF FinancedGroup
  <2>4. CASE h # g
    <3>1. draft_groups'[h] = draft_groups[h]
      BY <1>5, <2>4
    <3>2. Open(h)' <=> Open(h)
      BY <3>1 DEF Open
    <3> QED
      BY <1>2, <2>1, <2>2, <3>1, <3>2 DEF FinancedGroup
  <2> QED
    BY <2>3, <2>4
<1>13. FundingBuysItsDrafts'
  BY <1>1, <1>2, SamePurchases
<1>14. ConvertedAsWritten'
  BY <1>1, <1>2 DEF ConvertedAsWritten, Accepted, vars
<1> QED
  BY <1>8, <1>9, <1>10, <1>11, <1>12, <1>13, <1>14 DEF DraftsInv

(* What the receiver does with a deposit that fits.                        *)
Financing(f, g) ==
  /\ g = fundings[f].draft_group_id
  /\ fundings[f].status = "sent" /\ Open(g)
  /\ draft_groups[g].total_amount = fundings[f].amount
  /\ draft_groups' = [draft_groups EXCEPT ![g].payer_id = fundings[f].sender_id]
  /\ \E status \in Paying, ids \in SUBSET DraftIds : FundingMoved(f, status, ids)
  /\ UNCHANGED <<vars, drafts, next_draft_id, next_draft_group_id, draft_operators_whitelist,
                 written, converted>>

LEMMA FundingFinances ==
  ASSUME DraftsInv, NEW f \in 1..Len(fundings), FtOnTransferFunding(f)
  PROVE  /\ fundings[f].draft_group_id \in GroupIds
         /\ Financing(f, fundings[f].draft_group_id)
<1> DEFINE g == fundings[f].draft_group_id
<1>1. DraftsTypeOK
  BY DEF DraftsInv
<1>2. g \in GroupIds
  BY <1>1, DraftTypes DEF Funding
<1>3. /\ fundings[f].status = "sent" /\ Open(g)
      /\ draft_groups[g].total_amount = fundings[f].amount
      /\ draft_groups' = [draft_groups EXCEPT ![g].payer_id = fundings[f].sender_id]
      /\ UNCHANGED <<vars, drafts, next_draft_id, next_draft_group_id, draft_operators_whitelist,
                     written, converted>>
  BY DEF FtOnTransferFunding, Fundable
<1>4. PICK converts \in {FALSE, fundings[f].try_convert} :
         fundings' = [fundings EXCEPT
           ![f].status = IF converts THEN "converting" ELSE "accepted",
           ![f].draft_indices = IF converts THEN draft_groups[g].draft_indices ELSE {}]
  BY DEF FtOnTransferFunding
<1>5. draft_groups[g].draft_indices \in SUBSET DraftIds
  BY <1>1, <1>2, <1>3, DraftTypes DEF Open, DraftGroup
<1>6. \E status \in Paying, ids \in SUBSET DraftIds : FundingMoved(f, status, ids)
  <2> DEFINE status == IF converts THEN "converting" ELSE "accepted"
             ids == IF converts THEN draft_groups[g].draft_indices ELSE {}
  <2>1. status \in Paying /\ ids \in SUBSET DraftIds
    BY <1>5 DEF Paying
  <2>2. FundingMoved(f, status, ids)
    BY <1>4 DEF FundingMoved
  <2> HIDE DEF status, ids
  <2> QED
    BY <2>1, <2>2
<1> QED
  BY <1>2, <1>3, <1>6 DEF Financing

(* The other groups' fundings stay as they are; this is the group's first. *)
LEMMA FinancingAccepts ==
  ASSUME DraftsInv, NEW f \in 1..Len(fundings), NEW g \in GroupIds, Financing(f, g)
  PROVE  /\ fundings' \in Seq(Funding)
         /\ Accepted(g) = {} /\ Accepted(g)' = {f}
         /\ fundings[f].sender_id \in Accounts /\ fundings[f].amount \in Nat \ {0}
         /\ fundings'[f].sender_id = fundings[f].sender_id
         /\ fundings'[f].amount = fundings[f].amount
         /\ \A h \in GroupIds : h # g =>
              /\ Accepted(h)' = Accepted(h)
              /\ \A e \in Accepted(h) : /\ fundings'[e].sender_id = fundings[e].sender_id
                                        /\ fundings'[e].amount = fundings[e].amount
<1>1. fundings \in Seq(Funding) /\ DraftsTypeOK /\ Financed
  BY DEF DraftsInv, DraftsTypeOK
<1>2. PICK status \in Paying, ids \in SUBSET DraftIds : FundingMoved(f, status, ids)
  BY DEF Financing
<1>3. status \in FundingStates
  BY <1>2 DEF Paying, FundingStates
<1>4. /\ fundings' \in Seq(Funding)
      /\ Len(fundings') = Len(fundings)
      /\ \A e \in 1..Len(fundings) :
              /\ e # f => fundings'[e] = fundings[e]
              /\ fundings[e] \in Funding
              /\ fundings'[e].sender_id = fundings[e].sender_id
              /\ fundings'[e].amount = fundings[e].amount
              /\ fundings'[e].draft_group_id = fundings[e].draft_group_id
      /\ fundings'[f].status = status
  BY <1>1, <1>2, <1>3, MovedFunding
<1>5. \A h : /\ Accepted(h) = { e \in 1..Len(fundings) : fundings[e].draft_group_id = h
                                                         /\ fundings[e].status \in Paying }
             /\ Accepted(h)' = { e \in 1..Len(fundings') : fundings'[e].draft_group_id = h
                                                           /\ fundings'[e].status \in Paying }
  BY DEF Accepted, Paying
<1>6. g = fundings[f].draft_group_id /\ fundings[f].status \notin Paying
  BY DEF Financing, Paying
<1>7. Accepted(g) = {}
  BY <1>1 DEF Financing, Financed, FinancedGroup, Open
<1>8. Accepted(g)' = {f}
  <2>1. f \in Accepted(g)'
    BY <1>2, <1>4, <1>5, <1>6
  <2>2. ASSUME NEW e \in Accepted(g)', e # f PROVE FALSE
    <3>1. e \in 1..Len(fundings) /\ fundings'[e] = fundings[e]
      BY <1>4, <1>5, <2>2
    <3>2. e \in Accepted(g)
      BY <1>5, <2>2, <3>1
    <3> QED
      BY <1>7, <3>2
  <2> QED
    BY <2>1, <2>2
<1>9. ASSUME NEW h \in GroupIds, h # g PROVE Accepted(h)' = Accepted(h)
  <2>1. f \notin Accepted(h) /\ f \notin Accepted(h)'
    BY <1>4, <1>5, <1>6, <1>9
  <2>2. ASSUME NEW e, e # f PROVE e \in Accepted(h)' <=> e \in Accepted(h)
    <3>1. Len(fundings') = Len(fundings)
      BY <1>4
    <3>2. e \in 1..Len(fundings) => fundings'[e] = fundings[e]
      BY <1>4, <2>2
    <3>3. /\ e \in Accepted(h) <=> /\ e \in 1..Len(fundings)
                                  /\ fundings[e].draft_group_id = h
                                  /\ fundings[e].status \in Paying
          /\ e \in Accepted(h)' <=> /\ e \in 1..Len(fundings')
                                   /\ fundings'[e].draft_group_id = h
                                   /\ fundings'[e].status \in Paying
      BY <1>5
    <3> QED
      BY ONLY <3>1, <3>2, <3>3
  <2>3. \A e : e \in Accepted(h)' <=> e \in Accepted(h)
    BY ONLY <2>1, <2>2
  <2> QED
    BY ONLY <2>3
<1>10. fundings[f].sender_id \in Accounts /\ fundings[f].amount \in Nat \ {0}
  BY <1>4, FundingAmountsAssumption DEF Funding
<1>11. \A h \in GroupIds : \A e \in Accepted(h) : e \in 1..Len(fundings)
  BY <1>5
<1> QED
  BY <1>4, <1>7, <1>8, <1>9, <1>10, <1>11

(* An open group has all its drafts; its funding buys these.               *)
LEMMA OpenHasAll ==
  ASSUME DraftsInv, NEW g \in GroupIds, Open(g)
  PROVE  /\ WrittenFor(g) = DraftsOf(g)
         /\ \A d \in DraftsOf(g) : drafts[d] # None /\ written[d] = drafts[d] /\ converted[d] = 0
         /\ draft_groups[g].total_amount = BalanceOf(WrittenFor(g), written)
         /\ draft_groups[g].total_amount = BalanceOf(DraftsOf(g), drafts)
<1>1. History /\ Financed /\ GroupsAddUp /\ DraftsTypeOK
  BY DEF DraftsInv
<1>2. \A d \in WrittenFor(g) : d \in DraftIds /\ drafts[d] # None
  BY <1>1 DEF Financed, FinancedGroup, Open, WrittenFor
<1>3. \A d \in DraftIds : drafts[d] # None =>
        drafts[d] = written[d] /\ converted[d] = 0 /\ written[d] # None
  BY <1>1 DEF History
<1>4. WrittenFor(g) = DraftsOf(g)
  BY <1>2, <1>3 DEF WrittenFor, DraftsOf
<1>5. \A d \in DraftsOf(g) : drafts[d] # None /\ written[d] = drafts[d] /\ converted[d] = 0
  BY <1>3 DEF DraftsOf
<1>6. BalanceOf(DraftsOf(g), written) = BalanceOf(DraftsOf(g), drafts)
  <2>1. \A d \in DraftsOf(g) : written[d] = drafts[d]
    BY <1>5
  <2> QED
    BY <2>1, BalanceOfEquals
<1>7. draft_groups[g].total_amount = BalanceOf(DraftsOf(g), drafts)
  BY <1>1 DEF GroupsAddUp, Groups, Open
<1> QED
  BY <1>4, <1>5, <1>6, <1>7

LEMMA InvFinanced ==
  ASSUME DraftsInv, IInv, NEW f \in 1..Len(fundings), NEW g \in GroupIds, Financing(f, g)
  PROVE  DraftsInv' /\ IInv'
<1> DEFINE group == draft_groups[g]
           p == fundings[f].sender_id
           paid == [group EXCEPT !.payer_id = p]
<1>1. /\ DraftsTypeOK /\ GroupsAddUp /\ History /\ Financed
      /\ FundingBuysItsDrafts /\ ConvertedAsWritten
  BY DEF DraftsInv
<1>2. /\ UNCHANGED vars /\ drafts' = drafts /\ next_draft_id' = next_draft_id
      /\ draft_operators_whitelist' = draft_operators_whitelist
      /\ written' = written /\ converted' = converted
      /\ next_draft_group_id' = next_draft_group_id
      /\ Open(g) /\ group.total_amount = fundings[f].amount
      /\ draft_groups' = [draft_groups EXCEPT ![g].payer_id = p]
  BY DEF Financing
<1>3. /\ fundings' \in Seq(Funding)
      /\ Accepted(g) = {} /\ Accepted(g)' = {f}
      /\ p \in Accounts /\ fundings[f].amount \in Nat \ {0}
      /\ fundings'[f].sender_id = p
      /\ fundings'[f].amount = fundings[f].amount
      /\ \A h \in GroupIds : h # g =>
           /\ Accepted(h)' = Accepted(h)
           /\ \A e \in Accepted(h) : /\ fundings'[e].sender_id = fundings[e].sender_id
                                     /\ fundings'[e].amount = fundings[e].amount
  BY FinancingAccepts
<1>4. group \in DraftGroup /\ group # None /\ ~group.discarded
      /\ group.draft_indices = DraftsOf(g)
      /\ group.total_amount = BalanceOf(DraftsOf(g), drafts)
  BY <1>1, <1>2, DraftTypes DEF Open, GroupsAddUp, Groups
<1>5. p # None
  BY <1>3, NoneIsNoValue
<1>6. paid \in DraftGroup /\ paid # None /\ ~paid.discarded /\ paid.payer_id = p
      /\ paid.draft_indices = group.draft_indices /\ paid.total_amount = group.total_amount
  BY <1>3, <1>4, DraftBounds DEF DraftGroup
<1>7. /\ draft_groups'[g] = paid
      /\ \A h \in GroupIds : h # g => draft_groups'[h] = draft_groups[h]
      /\ draft_groups' \in [GroupIds -> DraftGroup \cup {None}]
  BY <1>1, <1>2, <1>6 DEF DraftsTypeOK
<1>8. DraftsOf(g) # {}
  BY <1>2, <1>3, <1>4, BalanceOfNone
<1> HIDE DEF paid, p
<1>9. IInv'
  BY <1>2, InvStutter
<1>10. DraftsTypeOK'
  BY <1>1, <1>2, <1>3, <1>7, <1>9 DEF DraftsTypeOK, IInv, vars
<1>11. GroupsAddUp'
  <2>1. ASSUME NEW h \in GroupIds, draft_groups'[h] # None
        PROVE  /\ draft_groups'[h].draft_indices = DraftsOf(h)
               /\ draft_groups'[h].total_amount = BalanceOf(DraftsOf(h), drafts)
               /\ DraftsOf(h) = {} => Open(h)'
    <3>1. CASE h = g
      BY <1>4, <1>6, <1>7, <1>8, <3>1
    <3>2. CASE h # g
      BY <1>1, <1>7, <2>1, <3>2 DEF GroupsAddUp, Groups, Open
    <3> QED
      BY <3>1, <3>2
  <2>2. \A h \in GroupIds : DraftsOf(h)' = DraftsOf(h)
    BY <1>2 DEF DraftsOf
  <2>3. ASSUME NEW d \in DraftIds, drafts[d] # None PROVE drafts[d].draft_group_id \in Groups'
    <3>1. drafts[d].draft_group_id \in Groups
      BY <1>1, <2>3 DEF GroupsAddUp
    <3> QED
      BY <1>6, <1>7, <3>1 DEF Groups
  <2> QED
    BY <1>2, <2>1, <2>2, <2>3 DEF GroupsAddUp, Groups
<1>12. History'
  BY <1>1, <1>2 DEF History, Checked, balance_of
<1>13. Financed'
  <2> SUFFICES ASSUME NEW h \in GroupIds PROVE FinancedGroup(h)'
    BY DEF Financed
  <2>1. FinancedGroup(h)
    BY <1>1 DEF Financed
  <2>2. WrittenFor(h)' = WrittenFor(h)
    BY <1>2 DEF WrittenFor
  <2>3. CASE h = g
    <3>1. ~Open(g)'
      BY <1>5, <1>6, <1>7 DEF Open
    <3>2. g < next_draft_group_id /\ ~(g >= next_draft_group_id)
      <4>1. ~(g >= next_draft_group_id)
        BY <1>4, <2>1, <2>3 DEF FinancedGroup
      <4> QED
        BY <1>1, <4>1, DraftTypes
    <3> QED
      BY <1>2, <1>3, <1>5, <1>6, <1>7, <2>3, <3>1, <3>2 DEF FinancedGroup
  <2>4. CASE h # g
    <3>1. draft_groups'[h] = draft_groups[h]
      BY <1>7, <2>4
    <3>2. Open(h)' <=> Open(h)
      BY <3>1 DEF Open
    <3>3. Accepted(h)' = Accepted(h)
          /\ \A e \in Accepted(h) : fundings'[e].sender_id = fundings[e].sender_id
      BY <1>3, <2>4
    <3> QED
      BY <1>2, <2>1, <2>2, <3>1, <3>2, <3>3 DEF FinancedGroup
  <2> QED
    BY <2>3, <2>4
<1>14. FundingBuysItsDrafts'
  <2> SUFFICES ASSUME NEW h \in GroupIds, NEW e \in Accepted(h)'
               PROVE  /\ Accepted(h)' = {e}
                      /\ fundings'[e].amount = BalanceOf(WrittenFor(h)', written')
                      /\ \A d \in WrittenFor(h)' : (converted'[d] = 0) <=> (drafts'[d] # None)
    BY DEF FundingBuysItsDrafts
  <2>1. WrittenFor(h)' = WrittenFor(h)
    BY <1>2 DEF WrittenFor
  <2>2. CASE h = g
    <3>1. e = f
      BY <1>3, <2>2
    <3>2. /\ WrittenFor(g) = DraftsOf(g)
          /\ \A d \in DraftsOf(g) : drafts[d] # None /\ converted[d] = 0
          /\ group.total_amount = BalanceOf(WrittenFor(g), written)
      BY <1>2, OpenHasAll
    <3> QED
      BY <1>2, <1>3, <2>1, <2>2, <3>1, <3>2
  <2>3. CASE h # g
    <3>1. Accepted(h)' = Accepted(h) /\ fundings'[e].amount = fundings[e].amount
      BY <1>3, <2>3
    <3> QED
      BY <1>1, <1>2, <2>1, <3>1 DEF FundingBuysItsDrafts
  <2> QED
    BY <2>2, <2>3
<1>15. ConvertedAsWritten'
  <2>1. ASSUME NEW d \in DraftIds, converted'[d] # 0
        PROVE  \E h \in GroupIds : AsWritten(d, h)'
    <3>1. PICK h \in GroupIds : AsWritten(d, h)
      BY <1>1, <1>2, <2>1, ConvertedMeans
    <3>2. PICK e \in Accepted(h) :
            indexer[converted[d]].lockup = into_lockup(written[d].lockup_create, fundings[e].sender_id)
      BY <3>1 DEF AsWritten
    <3>3. h # g
      BY <1>3, <3>2
    <3>4. e \in Accepted(h)' /\ fundings'[e].sender_id = fundings[e].sender_id
      BY <1>3, <3>2, <3>3
    <3>5. indexer' = indexer
      BY <1>2 DEF vars
    <3>6. AsWritten(d, h)'
      BY <1>2, <3>1, <3>2, <3>4, <3>5 DEF AsWritten
    <3> QED
      BY <3>6
  <2>2. ConvertedOnce'
    BY <1>1, <1>2, ConvertedMeans DEF ConvertedOnce
  <2> QED
    BY <2>1, <2>2, MeansConverted
<1> QED
  BY <1>9, <1>10, <1>11, <1>12, <1>13, <1>14, <1>15 DEF DraftsInv

-----------------------------------------------------------------------------
(* Every step keeps the invariant.                                         *)

LEMMA InvOperators ==
  ASSUME DraftsInv, IInv, NEW caller \in Accounts, NEW account_ids \in SUBSET Operators,
         \/ AddToDraftOperatorsWhitelist(caller, account_ids)
         \/ RemoveFromDraftOperatorsWhitelist(caller, account_ids)
  PROVE  DraftsInv' /\ IInv'
<1>1. UNCHANGED vars /\ fundings' = fundings /\ MapsKept
  BY DEF AddToDraftOperatorsWhitelist, RemoveFromDraftOperatorsWhitelist, MapsKept
<1>2. draft_operators_whitelist' \subseteq Accounts
  BY WhitelistAssumption DEF AddToDraftOperatorsWhitelist, RemoveFromDraftOperatorsWhitelist,
                             DraftsInv, DraftsTypeOK
<1>3. AcceptedKept /\ fundings' \in Seq(Funding)
  BY <1>1, SameFundings DEF DraftsInv, DraftsTypeOK
<1> QED
  BY <1>1, <1>2, <1>3, InvUntouched, InvMapsKept

LEMMA DraftsInvNext ==
  ASSUME DraftsInv, IInv, [DraftsNext]_allVars
  PROVE  DraftsInv' /\ IInv'
<1>1. CASE Next /\ UNCHANGED draftVars
  BY <1>1, InvRegistry
<1>2. CASE UNCHANGED allVars
  BY <1>2, InvRegistry DEF allVars
<1>3. ASSUME NEW caller \in Accounts, CreateDraftGroup(caller)
      PROVE  DraftsInv' /\ IInv'
  BY <1>3, InvCreateGroup
<1>4. ASSUME NEW caller \in Accounts, NEW batch \in Batches, CreateDrafts(caller, batch)
      PROVE  DraftsInv' /\ IInv'
  BY <1>4, InvAdded
<1>5. ASSUME NEW caller \in Accounts, NEW g \in GroupIds, DiscardDraftGroup(caller, g)
      PROVE  DraftsInv' /\ IInv'
  BY <1>5, InvDiscarded
<1>6. ASSUME NEW caller \in Accounts, NEW account_ids \in (SUBSET Operators) \ {{}},
             \/ AddToDraftOperatorsWhitelist(caller, account_ids)
             \/ RemoveFromDraftOperatorsWhitelist(caller, account_ids)
      PROVE  DraftsInv' /\ IInv'
  BY <1>6, InvOperators
<1>7. ASSUME NEW S \in SomeIds, DeleteDrafts(S)
      PROVE  DraftsInv' /\ IInv'
  BY <1>7, InvDeleted
<1>8. ASSUME NEW S \in SomeIds, NEW ids \in Bijection(1..Cardinality(S), S), ConvertDrafts(ids)
      PROVE  DraftsInv' /\ IInv'
  BY <1>8, InvConvertDrafts
<1>9. ASSUME NEW sender_id \in Funders, NEW amount \in FundingAmounts, NEW g \in GroupIds,
             NEW try_convert \in BOOLEAN, FtTransferCall(sender_id, amount, g, try_convert)
      PROVE  DraftsInv' /\ IInv'
  BY <1>9, FundersAssumption, InvFtTransferCall
<1>10. ASSUME NEW f \in 1..Len(fundings), FtOnTransferFunding(f)
       PROVE  DraftsInv' /\ IInv'
  BY <1>10, FundingFinances, InvFinanced
<1>11. ASSUME NEW f \in 1..Len(fundings), FtOnTransferRefused(f)
       PROVE  DraftsInv' /\ IInv'
  BY <1>11, InvRefused
<1>12. ASSUME NEW f \in 1..Len(fundings), FtResolveTransfer(f)
       PROVE  DraftsInv' /\ IInv'
  BY <1>12, InvResolved
<1>13. ASSUME NEW f \in 1..Len(fundings), RunConversion(f)
       PROVE  DraftsInv' /\ IInv'
  BY <1>13, InvRunConversion
<1> QED
  BY <1>1, <1>2, <1>3, <1>4, <1>5, <1>6, <1>7, <1>8, <1>9, <1>10, <1>11, <1>12, <1>13
     DEF DraftsNext

LEMMA DraftsInvInit == DraftsInit => DraftsInv /\ IInv
<1> SUFFICES ASSUME DraftsInit PROVE DraftsInv /\ IInv
  OBVIOUS
<1>1. IInv /\ TypeOK
  BY InvInit DEF DraftsInit, IInv
<1>2. /\ \A d \in DraftIds : drafts[d] = None /\ written[d] = None /\ converted[d] = 0
      /\ \A g \in GroupIds : draft_groups[g] = None
      /\ fundings = <<>>
  BY DEF DraftsInit
<1>3. \A g : Accepted(g) = {}
  BY <1>2 DEF Accepted
<1>4. DraftsTypeOK
  <2>1. 0 \in 0..Len(lockups)
    BY <1>1, TypeFacts
  <2>2. fundings \in Seq(Funding)
    BY <1>2
  <2> QED
    BY <1>1, <2>1, <2>2, DraftBounds, DraftOperatorsAssumption DEF DraftsInit, DraftsTypeOK
<1>5. GroupsAddUp /\ History
  BY <1>2 DEF GroupsAddUp, Groups, History
<1>6. Financed /\ FundingBuysItsDrafts /\ ConvertedAsWritten
  BY <1>2, <1>3 DEF Financed, FinancedGroup, FundingBuysItsDrafts, ConvertedAsWritten
<1> QED
  BY <1>1, <1>4, <1>5, <1>6 DEF DraftsInv

-----------------------------------------------------------------------------
LEMMA DraftsInvariance == DraftsSpec => [](DraftsInv /\ IInv)
<1>1. DraftsInit => DraftsInv /\ IInv
  BY DraftsInvInit
<1>2. DraftsInv /\ IInv /\ [DraftsNext]_allVars => (DraftsInv /\ IInv)'
  BY DraftsInvNext
<1> QED
  BY <1>1, <1>2, PTL DEF DraftsSpec

(* Every key of the two maps holds a draft or a group as the code writes   *)
(* them, the totals stay within u128 and the ids below their counters      *)
(* (model/src/draft.rs, create_drafts and convert_drafts in lib.rs).       *)
THEOREM DraftsTyped == DraftsSpec => []DraftsTypeOK
<1>1. DraftsInv => DraftsTypeOK
  BY DEF DraftsInv
<1> QED
  BY <1>1, DraftsInvariance, PTL

(* A group lists exactly the drafts that name it and its total is what     *)
(* they are worth, after any batches of create_drafts, delete_drafts and   *)
(* convert_drafts (lib.rs:405-467): the checked subtractions never panic.  *)
THEOREM GroupsAgree == DraftsSpec => []GroupsAddUp
<1>1. DraftsInv => GroupsAddUp
  BY DEF DraftsInv
<1> QED
  BY <1>1, DraftsInvariance, PTL

(* ft_on_transfer accepts one deposit for a group, of exactly what all the *)
(* drafts ever written for it are worth, whatever came between the funder  *)
(* reading the total and the receipt; none of these drafts is lost.        *)
THEOREM FundedOnceInFull == DraftsSpec => []FundingBuysItsDrafts
<1>1. DraftsInv => FundingBuysItsDrafts
  BY DEF DraftsInv
<1> QED
  BY <1>1, DraftsInvariance, PTL

(* A draft becomes one lockup at most, as it was written, for the sender   *)
(* who paid for its group, whether the funding's own conversion or another *)
(* caller of convert_drafts made it, and in whichever order.               *)
THEOREM ConvertedOnceAsWritten == DraftsSpec => []ConvertedAsWritten
<1>1. DraftsInv => ConvertedAsWritten
  BY DEF DraftsInv
<1> QED
  BY <1>1, DraftsInvariance, PTL

-----------------------------------------------------------------------------
(* What was paid for drafts, and the deposits on their way, as sums.       *)

(* What a group adds to the pot, and a funding to the deposits in flight.  *)
Share(group) == IF group # None /\ group.payer_id # None THEN group.total_amount ELSE 0
PotOf(groups) == SumTo([g \in GroupIds |-> Share(groups[g])], MaxGroups)
Awaited == [x \in Funding |-> IF x.status \in {"sent", "refused"} THEN x.amount ELSE 0]

LEMMA PotIsShares == Pot = PotOf(draft_groups)
<1>1. \A g \in GroupIds : (IF g \in Funded THEN draft_groups[g].total_amount ELSE 0)
                            = Share(draft_groups[g])
  BY DEF Funded, Groups, Share
<1>2. [g \in GroupIds |-> IF g \in Funded THEN draft_groups[g].total_amount ELSE 0]
        = [g \in GroupIds |-> Share(draft_groups[g])]
  BY <1>1
<1> QED
  BY <1>2 DEF Pot, PotOf

LEMMA PotBecomes == Pot' = PotOf(draft_groups')
<1>1. (Pot = PotOf(draft_groups))'
  BY PotIsShares, PTL
<1> QED
  BY <1>1

(* The shares of the groups, in one sum.                                   *)
LEMMA Shares ==
  ASSUME NEW groups
  PROVE  LET share == [g \in GroupIds |-> Share(groups[g])]
         IN  /\ PotOf(groups) = SumTo(share, MaxGroups)
             /\ \A g \in 1..MaxGroups : share[g] = Share(groups[g])
BY DEF PotOf, GroupIds

LEMMA ShareNatural ==
  ASSUME DraftsTypeOK, NEW g \in GroupIds
  PROVE  Share(draft_groups[g]) \in Nat
<1>1. draft_groups[g] # None => draft_groups[g].total_amount \in 0..MaxAmount
  BY DraftTypes DEF DraftGroup
<1> QED
  BY <1>1 DEF Share

LEMMA PotNatural == DraftsTypeOK => Pot \in Nat
<1> SUFFICES ASSUME DraftsTypeOK PROVE Pot \in Nat
  OBVIOUS
<1> DEFINE share == [g \in GroupIds |-> Share(draft_groups[g])]
<1>1. \A g \in 1..MaxGroups : share[g] \in Nat
  BY ShareNatural DEF GroupIds
<1>2. Pot = SumTo(share, MaxGroups)
  BY PotIsShares, Shares
<1> HIDE DEF share
<1> QED
  BY <1>1, <1>2, SumOfNaturals, DraftBounds

LEMMA PotKept ==
  ASSUME \A g \in GroupIds : Share(draft_groups'[g]) = Share(draft_groups[g])
  PROVE  Pot' = Pot
<1>1. [g \in GroupIds |-> Share(draft_groups'[g])] = [g \in GroupIds |-> Share(draft_groups[g])]
  OBVIOUS
<1>2. PotOf(draft_groups') = PotOf(draft_groups)
  BY <1>1 DEF PotOf
<1> QED
  BY <1>2, PotIsShares, PotBecomes

LEMMA PotSame ==
  ASSUME draft_groups' = draft_groups
  PROVE  Pot' = Pot
BY PotKept

LEMMA AwaitedWeights == Awaited \in [Funding -> Nat] /\ Awaited \in [Funding -> Int]
<1>1. \A x \in Funding : x.amount \in Nat
  BY FundingAmountsAssumption DEF Funding
<1> QED
  BY <1>1, Weighing DEF Awaited

LEMMA InFlightIsAwaited ==
  fundings \in Seq(Funding) => InFlightDeposits = SumSeq(Awaited, fundings)
<1> SUFFICES ASSUME fundings \in Seq(Funding)
             PROVE  InFlightDeposits = SumSeq(Awaited, fundings)
  OBVIOUS
<1>1. \A f \in 1..Len(fundings) : fundings[f] \in Funding
  BY ElementOfSeq
<1>2. \A f \in 1..Len(fundings) : InFlightDeposit(f) = Awaited[fundings[f]]
  BY <1>1 DEF InFlightDeposit, Awaited
<1>3. [f \in 1..Len(fundings) |-> InFlightDeposit(f)]
        = [f \in 1..Len(fundings) |-> Awaited[fundings[f]]]
  BY <1>2
<1> QED
  BY <1>3 DEF InFlightDeposits, SumSeq

LEMMA InFlightBecomes ==
  ASSUME fundings' \in Seq(Funding)
  PROVE  InFlightDeposits' = SumSeq(Awaited, fundings')
<1>1. (fundings \in Seq(Funding))'
  OBVIOUS
<1>2. (InFlightDeposits = SumSeq(Awaited, fundings))'
  BY <1>1, InFlightIsAwaited, PTL
<1> QED
  BY <1>2

LEMMA InFlightNatural == DraftsTypeOK => InFlightDeposits \in Nat
<1> SUFFICES ASSUME DraftsTypeOK PROVE InFlightDeposits \in Nat
  OBVIOUS
<1>1. fundings \in Seq(Funding)
  BY DEF DraftsTypeOK
<1>2. SumSeq(Awaited, fundings) \in Nat
  BY <1>1, AwaitedWeights, SumSeqNatural
<1> QED
  BY <1>1, <1>2, InFlightIsAwaited

(* The pot loses what the drafts cost that leave groups which are paid.    *)
LEMMA PotConverted ==
  ASSUME DraftsTypeOK, GroupsAddUp, History, NEW T, T \subseteq DraftIds, GroupsCut(T),
         \A d \in T : drafts[d] # None /\ assert_can_convert_draft(drafts[d].draft_group_id)
  PROVE  /\ BalanceOf(T, drafts) \in Nat /\ PotOf(draft_groups') \in Int
         /\ Pot = Pot' + BalanceOf(T, drafts)
<1> DEFINE of(g) == OfGroup(T, drafts, g)
           cut == [g \in GroupIds |-> BalanceOf(of(g), drafts)]
           before == [g \in GroupIds |-> Share(draft_groups[g])]
           after == [g \in GroupIds |-> Share(draft_groups'[g])]
           group == [d \in DraftIds |-> drafts[d].draft_group_id]
<1>1. Counted(T, drafts)
  BY DraftsCounted DEF Counted
<1>2. ASSUME NEW g \in GroupIds
      PROVE  /\ Share(draft_groups[g]) = Share(draft_groups'[g]) + BalanceOf(of(g), drafts)
             /\ BalanceOf(of(g), drafts) \in Nat /\ Share(draft_groups'[g]) \in Int
  <2> DEFINE part == OfGroup(T, drafts, g)
  <2>1. Share(draft_groups[g]) \in Nat
    BY ShareNatural
  <2>2. CASE part = {}
    <3>1. draft_groups'[g] = draft_groups[g]
      BY <2>2 DEF GroupsCut
    <3>2. BalanceOf(part, drafts) = 0
      BY <2>2, BalanceOfNone
    <3> QED
      BY <2>1, <3>1, <3>2
  <2>3. CASE part # {}
    <3>1. part \subseteq DraftsOf(g) /\ draft_groups[g] # None
      BY <2>3, RemovedOf
    <3>2. /\ draft_groups[g].total_amount = BalanceOf(DraftsOf(g), drafts)
          /\ draft_groups[g] \in DraftGroup
      BY <3>1, DraftTypes DEF GroupsAddUp, Groups
    <3>3. draft_groups[g].payer_id # None
      BY <2>3 DEF OfGroup, assert_can_convert_draft
    <3>4. Share(draft_groups[g]) = BalanceOf(DraftsOf(g), drafts)
      BY <3>1, <3>2, <3>3 DEF Share
    <3>5. Counted(DraftsOf(g), drafts)
      BY DraftsCounted
    <3> HIDE DEF part
    <3>6. /\ BalanceOf(DraftsOf(g), drafts) = BalanceOf(part, drafts) + BalanceOf(DraftsOf(g) \ part, drafts)
          /\ BalanceOf(part, drafts) \in Nat /\ BalanceOf(DraftsOf(g) \ part, drafts) \in Nat
      BY <3>1, <3>5, BalanceOfPart
    <3>7. Left(T, g) = DraftsOf(g) \ part
      BY DEF Left, part
    <3>8. Share(draft_groups'[g]) = BalanceOf(Left(T, g), drafts)
      <4>1. CASE Left(T, g) = {}
        <5>1. draft_groups'[g] = None
          BY <2>3, <4>1 DEF GroupsCut, part
        <5> QED
          BY <4>1, <5>1, BalanceOfNone DEF Share
      <4>2. CASE Left(T, g) # {}
        <5>1. /\ draft_groups'[g].payer_id = draft_groups[g].payer_id
              /\ draft_groups'[g] \in DraftGroup
          BY <3>1, <4>2, CutRecord
        <5>2. draft_groups'[g].total_amount = BalanceOf(Left(T, g), drafts)
          BY <2>3, <3>2, <4>2 DEF GroupsCut, part, DraftGroup
        <5> QED
          BY <3>3, <5>1, <5>2, DraftBounds DEF Share
      <4> QED
        BY <4>1, <4>2
    <3> QED
      BY <3>4, <3>6, <3>7, <3>8 DEF part
  <2> QED
    BY <2>2, <2>3
<1>3. \A g \in 1..MaxGroups : /\ before[g] = after[g] + cut[g]
                              /\ after[g] \in Int /\ cut[g] \in Int
  BY <1>2 DEF GroupIds
<1>4. PotOf(draft_groups) = SumTo(before, MaxGroups) /\ PotOf(draft_groups') = SumTo(after, MaxGroups)
  BY Shares
<1>5. SumTo(cut, MaxGroups) = BalanceOf(T, drafts)
  <2>1. \A d \in T : group[d] \in GroupIds
    BY DraftTypes, DraftFields
  <2>2. \A g \in GroupIds : cut[g] = BalanceOf(InGroup(T, group, g), drafts)
    <3> SUFFICES ASSUME NEW g \in GroupIds PROVE of(g) = InGroup(T, group, g)
      OBVIOUS
    <3> QED
      BY DEF OfGroup, InGroup
  <2> HIDE DEF group, cut, of
  <2> QED
    BY <1>1, <2>1, <2>2, BalanceByGroup
<1> HIDE DEF before, after, cut, of
<1>6. SumTo(before, MaxGroups) = SumTo(after, MaxGroups) + SumTo(cut, MaxGroups)
  <2>1. MaxGroups \in Nat
    BY DraftBounds
  <2> QED
    BY <1>3, <2>1, SumOfSums
<1>7. SumTo(after, MaxGroups) \in Int
  <2>1. MaxGroups \in Nat
    BY DraftBounds
  <2> QED
    BY <1>3, <2>1, SumOfIntegers
<1>8. BalanceOf(T, drafts) \in Nat
  BY <1>1, BalanceNatural
<1> QED
  BY <1>4, <1>5, <1>6, <1>7, <1>8, PotIsShares, PotBecomes

(* What is taken out of the pot is what the new lockups owe.               *)
LEMMA LotWorth ==
  ASSUME DraftsTypeOK, History, NEW T, T \subseteq DraftIds, NEW ids, OrderOf(ids, T),
         convert_drafts(ids)
  PROVE  SumTo([k \in 1..Len(ids) |-> total_balance(Lot(ids)[k].schedule)], Len(ids))
           = BalanceOf(T, drafts)
<1> DEFINE n == Len(ids)
           worth == [k \in 1..n |-> total_balance(Lot(ids)[k].schedule)]
<1>1. /\ n \in Nat
      /\ \A k \in 1..n : ids[k] \in DraftIds
      /\ \A j, k \in 1..n : ids[j] = ids[k] => j = k
      /\ Named(ids, n) = T
  BY DEF OrderOf
<1>2. \A k \in 1..n : /\ drafts[ids[k]] # None
                      /\ assert_can_convert_draft(drafts[ids[k]].draft_group_id)
  BY DEF convert_drafts, Convertible
<1>3. \A k \in 1..n : worth[k] = balance_of(drafts[ids[k]])
  <2> SUFFICES ASSUME NEW k \in 1..n
               PROVE  total_balance(lockup_of(drafts[ids[k]]).schedule) = balance_of(drafts[ids[k]])
    BY DEF Lot
  <2> QED
    BY <1>1, <1>2, LotSound
<1>4. Counted(Named(ids, n), drafts)
  <2>1. \A d \in T : drafts[d] # None
    BY <1>1, <1>2 DEF Named
  <2> QED
    BY <1>1, <2>1, DraftsCounted DEF Counted
<1> HIDE DEF worth, n
<1>5. SumTo(worth, n) = BalanceOf(Named(ids, n), drafts)
  BY <1>1, <1>3, <1>4, BalanceInOrder
<1> QED
  BY <1>1, <1>5 DEF worth, n

(* The deposit of a group that is paid goes from one sum to the other.     *)
LEMMA PotFunded ==
  ASSUME DraftsInv, NEW f \in 1..Len(fundings), NEW g \in GroupIds, Financing(f, g)
  PROVE  Pot' = Pot + fundings[f].amount
<1> DEFINE amount == fundings[f].amount
           before == [h \in GroupIds |-> Share(draft_groups[h])]
           after == [h \in GroupIds |-> Share(draft_groups'[h])]
<1>1. /\ DraftsTypeOK /\ draft_groups[g] # None /\ draft_groups[g].payer_id = None
      /\ draft_groups[g].total_amount = amount
      /\ draft_groups' = [draft_groups EXCEPT ![g].payer_id = fundings[f].sender_id]
  BY DEF DraftsInv, Financing, Open
<1>2. draft_groups[g] \in DraftGroup /\ fundings[f] \in Funding
  BY <1>1, DraftTypes
<1>3. fundings[f].sender_id \in Accounts /\ fundings[f].sender_id # None /\ amount \in Nat
  BY <1>2, NoneIsNoValue, FundingAmountsAssumption DEF Funding
<1>4. draft_groups \in [GroupIds -> DraftGroup \cup {None}]
  BY <1>1 DEF DraftsTypeOK
<1>5. draft_groups'[g] = [draft_groups[g] EXCEPT !.payer_id = fundings[f].sender_id]
  BY <1>1, <1>4
<1>6. /\ draft_groups'[g] \in DraftGroup
      /\ draft_groups'[g].payer_id = fundings[f].sender_id
      /\ draft_groups'[g].total_amount = amount
  BY <1>1, <1>2, <1>3, <1>5 DEF DraftGroup
<1>7. Share(draft_groups[g]) = 0 /\ Share(draft_groups'[g]) = amount
  BY <1>1, <1>3, <1>6, DraftBounds DEF Share
<1>8. \A h \in GroupIds : h # g => draft_groups'[h] = draft_groups[h]
  BY <1>1, <1>4
<1>9. \A h \in GroupIds : Share(draft_groups[h]) \in Int
  BY <1>1, ShareNatural
<1> HIDE DEF amount
<1>10. /\ \A h \in 1..MaxGroups : before[h] \in Int
       /\ \A h \in 1..MaxGroups : after[h] = IF h = g THEN before[h] + amount ELSE before[h]
  BY <1>3, <1>7, <1>8, <1>9 DEF GroupIds
<1>11. PotOf(draft_groups) = SumTo(before, MaxGroups) /\ PotOf(draft_groups') = SumTo(after, MaxGroups)
  BY Shares
<1>12. MaxGroups \in Nat /\ g \in 1..MaxGroups /\ amount \in Int
  BY <1>3, DraftBounds DEF GroupIds
<1> HIDE DEF before, after
<1>13. SumTo(after, MaxGroups) = SumTo(before, MaxGroups) + amount
  <2>1. Bumped(before, after, MaxGroups, g, amount)
    BY <1>10, <1>12 DEF Bumped
  <2> QED
    BY ONLY <2>1, SumBumped
<1> QED
  BY <1>11, <1>13, PotIsShares, PotBecomes DEF amount

LEMMA FundingAmount ==
  ASSUME NEW x \in Funding
  PROVE  x.amount \in Nat
<1>1. x.amount \in FundingAmounts
  BY DEF Funding
<1> QED
  BY <1>1, FundingAmountsAssumption

LEMMA InFlightSent ==
  ASSUME DraftsTypeOK, NEW x \in Funding, x.status = "sent", fundings' = Append(fundings, x)
  PROVE  InFlightDeposits' = InFlightDeposits + x.amount
<1>1. fundings \in Seq(Funding)
  BY DEF DraftsTypeOK
<1>2. fundings' \in Seq(Funding)
  BY <1>1, AppendProperties
<1>3. Awaited[x] = x.amount
  BY DEF Awaited
<1>4. SumSeq(Awaited, Append(fundings, x)) = SumSeq(Awaited, fundings) + Awaited[x]
  BY <1>1, AwaitedWeights, SumSeqAppend
<1> QED
  BY <1>1, <1>2, <1>3, <1>4, InFlightIsAwaited, InFlightBecomes

(* What a funding is awaited for, before and after a change of its status. *)
LEMMA InFlightMoved ==
  ASSUME DraftsTypeOK, NEW f \in 1..Len(fundings), NEW status \in FundingStates,
         NEW ids \in SUBSET DraftIds, FundingMoved(f, status, ids)
  PROVE  LET was == fundings[f].status \in {"sent", "refused"}
             is == status \in {"sent", "refused"}
             amount == fundings[f].amount
         IN  /\ (was <=> is) => InFlightDeposits' = InFlightDeposits
             /\ was /\ ~is => InFlightDeposits' = InFlightDeposits - amount
<1> DEFINE x == fundings'[f]
<1>1. fundings \in Seq(Funding)
  BY DEF DraftsTypeOK
<1>2. /\ fundings' \in Seq(Funding)
      /\ Len(fundings') = Len(fundings) /\ Len(fundings) \in Nat
      /\ \A e \in 1..Len(fundings) : e # f => fundings'[e] = fundings[e]
      /\ fundings[f] \in Funding
      /\ x.amount = fundings[f].amount /\ x.status = status
  BY <1>1, MovedFunding
<1>3. x \in Funding
  <2>1. f \in 1..Len(fundings')
    BY <1>2
  <2> QED
    BY <1>2, <2>1, ElementOfSeq
<1>4. IsReplaced(fundings, f, x, fundings')
  BY <1>2 DEF IsReplaced
<1> HIDE DEF x
<1>5. SumSeq(Awaited, fundings') = SumSeq(Awaited, fundings) + (Awaited[x] - Awaited[fundings[f]])
  BY <1>1, <1>3, <1>4, AwaitedWeights, SumSeqReplace
<1>6. /\ Awaited[x] = IF status \in {"sent", "refused"} THEN fundings[f].amount ELSE 0
      /\ Awaited[fundings[f]] = IF fundings[f].status \in {"sent", "refused"}
                                THEN fundings[f].amount ELSE 0
  BY <1>2, <1>3 DEF Awaited
<1>7. /\ InFlightDeposits = SumSeq(Awaited, fundings)
      /\ InFlightDeposits' = SumSeq(Awaited, fundings')
  BY <1>1, <1>2, InFlightIsAwaited, InFlightBecomes
<1>8. PICK s \in Int, t \in Int, a \in Int :
        s = InFlightDeposits /\ t = InFlightDeposits' /\ a = fundings[f].amount
  <2>1. fundings[f].amount \in Nat
    BY <1>2, FundingAmountsAssumption DEF Funding
  <2>2. SumSeq(Awaited, fundings) \in Int /\ SumSeq(Awaited, fundings') \in Int
    BY <1>1, <1>2, AwaitedWeights, SumSeqInteger
  <2> QED
    BY <1>7, <2>1, <2>2
<1>9. t = s + (Awaited[x] - Awaited[fundings[f]])
  BY <1>5, <1>7, <1>8
<1>10. CASE fundings[f].status \in {"sent", "refused"} /\ status \notin {"sent", "refused"}
  <2>1. Awaited[x] = 0 /\ Awaited[fundings[f]] = a
    BY <1>6, <1>8, <1>10
  <2>2. t = s - a
    BY <1>9, <2>1
  <2> QED
    BY <1>8, <1>10, <2>2
<1>11. CASE fundings[f].status \in {"sent", "refused"} <=> status \in {"sent", "refused"}
  <2>1. Awaited[x] = Awaited[fundings[f]] /\ Awaited[x] \in Int
    BY <1>6, <1>8, <1>11
  <2>2. t = s
    BY <1>9, <2>1
  <2> QED
    BY <1>8, <1>11, <2>2
<1> QED
  BY <1>10, <1>11

-----------------------------------------------------------------------------
(* The books of the whole contract.                                        *)
(* Of a refused deposit the token contract takes back what it still finds: *)
(* all of it, unless a wrong check let a termination unbalance the books.  *)
Whole == Booked + Pot + InFlightDeposits
WholeHeld == ChecksDecideRightly => custody = Whole
WholeBooks == DraftsInv /\ IInv /\ Ledger /\ WholeHeld

LEMMA WholeNaturals ==
  DraftsInv /\ IInv => /\ Booked \in Int /\ Pot \in Nat
                       /\ InFlightDeposits \in Nat /\ custody \in Nat
BY BookedInteger, PotNatural, InFlightNatural DEF DraftsInv, IInv, TypeOK

(* What a step adds to the parts it adds to the whole.                     *)
LEMMA WholeMoves ==
  ASSUME WholeBooks, NEW b \in Int, NEW p \in Int, NEW q \in Int,
         custody' = custody + (b + p + q),
         Booked' = Booked + b, Pot' = Pot + p, InFlightDeposits' = InFlightDeposits + q
  PROVE  WholeHeld'
<1> SUFFICES ASSUME ChecksDecideRightly PROVE custody' = Whole'
  BY DEF WholeHeld
<1>1. PICK B \in Int, P \in Int, Q \in Int, c \in Int :
        B = Booked /\ P = Pot /\ Q = InFlightDeposits /\ c = custody
  BY WholeNaturals DEF WholeBooks
<1>2. c = B + P + Q
  BY <1>1 DEF WholeBooks, WholeHeld, Whole
<1>3. Booked' = B + b /\ Pot' = P + p /\ InFlightDeposits' = Q + q /\ custody' = c + (b + p + q)
  BY <1>1
<1>4. Whole' = (B + b) + (P + p) + (Q + q)
  BY <1>3 DEF Whole
<1>5. c + (b + p + q) = (B + b) + (P + p) + (Q + q)
  BY <1>2
<1> QED
  BY <1>3, <1>4, <1>5

LEMMA LedgerKept ==
  ASSUME IInv, Ledger, UNCHANGED <<lockups, account_lockups, promises, indexer>>
  PROVE  Ledger' /\ Booked' = Booked
BY DEF Ledger, Booked, Indices, ListedRightly

(* A step that moves no token.                                             *)
LEMMA WholeKept ==
  ASSUME WholeBooks, UNCHANGED vars, Pot' = Pot, InFlightDeposits' = InFlightDeposits
  PROVE  Ledger' /\ WholeHeld'
<1>1. Ledger' /\ Booked' = Booked /\ custody' = custody
  BY LedgerKept DEF WholeBooks, vars
<1>2. /\ Booked \in Int /\ Pot \in Int /\ InFlightDeposits \in Int /\ custody \in Int
  BY WholeNaturals DEF WholeBooks
<1>3. /\ custody' = custody + (0 + 0 + 0) /\ Booked' = Booked + 0
      /\ Pot' = Pot + 0 /\ InFlightDeposits' = InFlightDeposits + 0
  BY <1>1, <1>2
<1>4. WholeHeld'
  BY <1>3, WholeMoves
<1> QED
  BY <1>1, <1>4

LEMMA WholeRegistry ==
  ASSUME WholeBooks, [Next]_vars, UNCHANGED draftVars
  PROVE  Ledger' /\ WholeHeld'
<1>1. IInv' /\ Ledger' /\ Balanced
  BY InvNext, LedgerNext DEF WholeBooks
<1>2. (Booked \in Int)' /\ (custody \in Nat)'
  <2>1. (Booked \in Int)'
    BY <1>1, BookedInteger, PTL
  <2> QED
    BY <1>1, <2>1 DEF IInv, TypeOK
<1>3. Pot' = Pot /\ InFlightDeposits' = InFlightDeposits
  <2>1. draft_groups' = draft_groups /\ fundings' = fundings
    BY DEF draftVars
  <2>2. InFlightDeposits' = InFlightDeposits
    BY <2>1 DEF InFlightDeposits, InFlightDeposit
  <2> QED
    BY <2>1, <2>2, PotSame
<1>4. PICK B \in Int, P \in Int, Q \in Int, c \in Int, D \in Int, e \in Int :
        /\ B = Booked /\ P = Pot /\ Q = InFlightDeposits /\ c = custody
        /\ D = Booked' /\ e = custody'
  BY <1>2, WholeNaturals DEF WholeBooks
<1>5. e + B = c + D
  BY <1>1, <1>4 DEF Balanced
<1>6. (D - B) \in Int /\ e = c + ((D - B) + 0 + 0) /\ D = B + (D - B) /\ P = P + 0 /\ Q = Q + 0
  BY <1>5
<1>7. /\ custody' = custody + ((D - B) + 0 + 0) /\ Booked' = Booked + (D - B)
      /\ Pot' = Pot + 0 /\ InFlightDeposits' = InFlightDeposits + 0
  BY <1>3, <1>4, <1>6
<1> QED
  BY <1>1, <1>6, <1>7, WholeMoves

(* A conversion, of any caller or of a funding.                            *)
LEMMA WholeConverted ==
  ASSUME WholeBooks, NEW T, T \subseteq DraftIds, NEW ids, OrderOf(ids, T), convert_drafts(ids),
         InFlightDeposits' = InFlightDeposits
  PROVE  Ledger' /\ WholeHeld'
<1> DEFINE w == BalanceOf(T, drafts)
           n == Len(ids)
<1>1. DraftsTypeOK /\ GroupsAddUp /\ History /\ IInv /\ Ledger
  BY DEF WholeBooks, DraftsInv
<1>2. LotAdded(Lot(ids), n) /\ GroupsCut(T)
  BY <1>1, LotConverted, DraftsConverted
<1>3. Ledger' /\ Booked' = Booked + w
  <2>1. SumTo([k \in 1..n |-> total_balance(Lot(ids)[k].schedule)], n) = w
    BY <1>1, LotWorth
  <2>2. /\ Ledger'
        /\ Booked' = Booked + SumTo([k \in 1..n |-> total_balance(Lot(ids)[k].schedule)], n)
    BY <1>1, <1>2, LotLedger
  <2> QED
    BY <2>1, <2>2
<1>4. \A d \in T : drafts[d] # None /\ assert_can_convert_draft(drafts[d].draft_group_id)
  BY DEF OrderOf, Named, convert_drafts, Convertible
<1>5. w \in Nat /\ Pot' \in Int /\ Pot = Pot' + w
  BY <1>1, <1>2, <1>4, PotConverted, PotBecomes
<1>6. custody' = custody
  BY DEF convert_drafts
<1> HIDE DEF w, n
<1>7. PICK Q \in Int, c \in Int, R \in Int, v \in Int :
        Q = InFlightDeposits /\ c = custody /\ R = Pot' /\ v = w
  BY <1>5, WholeNaturals DEF WholeBooks
<1>8. (0 - v) \in Int /\ c = c + (v + (0 - v) + 0) /\ R = (R + v) + (0 - v) /\ Q = Q + 0
  OBVIOUS
<1>9. /\ custody' = custody + (v + (0 - v) + 0) /\ Booked' = Booked + v
      /\ Pot' = Pot + (0 - v) /\ InFlightDeposits' = InFlightDeposits + 0
  BY <1>3, <1>5, <1>6, <1>7, <1>8
<1> QED
  BY <1>3, <1>8, <1>9, WholeMoves

(* The steps of a funding.                                                 *)
LEMMA WholeSent ==
  ASSUME WholeBooks, NEW sender_id \in Accounts, NEW amount \in FundingAmounts,
         NEW g \in GroupIds, NEW try_convert \in BOOLEAN,
         FtTransferCall(sender_id, amount, g, try_convert)
  PROVE  Ledger' /\ WholeHeld'
<1> DEFINE x == [sender_id |-> sender_id, amount |-> amount, draft_group_id |-> g,
                 try_convert |-> try_convert, draft_indices |-> {}, status |-> "sent"]
<1>1. x \in Funding /\ x.status = "sent" /\ x.amount = amount
  BY DEF Funding
<1>2. fundings' = Append(fundings, x)
  BY DEF FtTransferCall
<1> HIDE DEF x
<1>3. InFlightDeposits' = InFlightDeposits + amount
  BY <1>1, <1>2, InFlightSent DEF WholeBooks, DraftsInv
<1>4. Ledger' /\ Booked' = Booked
  BY LedgerKept DEF WholeBooks, FtTransferCall
<1>5. Pot' = Pot
  BY PotSame DEF FtTransferCall
<1>6. custody' = custody + amount
  BY DEF FtTransferCall
<1>7. amount \in Int /\ Booked \in Int /\ Pot \in Int
  BY WholeNaturals, FundingAmountsAssumption DEF WholeBooks
<1>8. custody' = custody + (0 + 0 + amount) /\ Booked' = Booked + 0 /\ Pot' = Pot + 0
  BY <1>4, <1>5, <1>6, <1>7
<1> QED
  BY <1>3, <1>4, <1>7, <1>8, WholeMoves

LEMMA WholeFunded ==
  ASSUME WholeBooks, NEW f \in 1..Len(fundings), FtOnTransferFunding(f)
  PROVE  Ledger' /\ WholeHeld'
<1> DEFINE g == fundings[f].draft_group_id
           amount == fundings[f].amount
<1>1. DraftsTypeOK /\ DraftsInv
  BY DEF WholeBooks, DraftsInv
<1>2. g \in GroupIds /\ Financing(f, g)
  BY <1>1, FundingFinances
<1>3. Pot' = Pot + amount
  BY <1>1, <1>2, PotFunded
<1>4. InFlightDeposits' = InFlightDeposits - amount
  <2>1. PICK status \in Paying, ids \in SUBSET DraftIds : FundingMoved(f, status, ids)
    BY <1>2 DEF Financing
  <2>2. status \in FundingStates /\ status \notin {"sent", "refused"}
    BY DEF Paying, FundingStates
  <2>3. fundings[f].status \in {"sent", "refused"}
    BY <1>2 DEF Financing
  <2> QED
    BY <1>1, <2>1, <2>2, <2>3, InFlightMoved
<1>5. UNCHANGED vars
  BY <1>2 DEF Financing
<1>6. Ledger' /\ Booked' = Booked /\ custody' = custody
  BY <1>5, LedgerKept DEF WholeBooks, vars
<1>7. amount \in Int
  <2>1. fundings[f] \in Funding
    BY <1>1, DraftTypes
  <2> QED
    BY <2>1, FundingAmount
<1> HIDE DEF amount
<1>8. PICK B \in Int, Q \in Int, c \in Int, a \in Int :
        B = Booked /\ Q = InFlightDeposits /\ c = custody /\ a = amount
  BY <1>7, WholeNaturals DEF WholeBooks
<1>9. (0 - a) \in Int /\ c = c + (0 + a + (0 - a)) /\ B = B + 0 /\ Q - a = Q + (0 - a)
  OBVIOUS
<1>10. /\ custody' = custody + (0 + a + (0 - a)) /\ Booked' = Booked + 0
       /\ Pot' = Pot + a /\ InFlightDeposits' = InFlightDeposits + (0 - a)
  BY <1>3, <1>4, <1>6, <1>8, <1>9
<1> QED
  BY <1>6, <1>9, <1>10, WholeMoves

LEMMA WholeRefused ==
  ASSUME WholeBooks, NEW f \in 1..Len(fundings), FtOnTransferRefused(f)
  PROVE  Ledger' /\ WholeHeld'
<1>1. DraftsTypeOK /\ fundings \in Seq(Funding)
  BY DEF WholeBooks, DraftsInv, DraftsTypeOK
<1>2. /\ fundings[f].draft_indices \in SUBSET DraftIds
      /\ FundingMoved(f, "refused", fundings[f].draft_indices)
  BY <1>1, StatusMoves DEF FtOnTransferRefused, FundingStates
<1>3. InFlightDeposits' = InFlightDeposits
  <2>1. fundings[f].status \in {"sent", "refused"}
    BY DEF FtOnTransferRefused
  <2>2. "refused" \in FundingStates /\ "refused" \in {"sent", "refused"}
    BY DEF FundingStates
  <2> QED
    BY <1>1, <1>2, <2>1, <2>2, InFlightMoved
<1>4. Pot' = Pot /\ UNCHANGED vars
  BY PotSame DEF FtOnTransferRefused
<1> QED
  BY <1>3, <1>4, WholeKept

(* What is taken back is still there: it is part of the whole.             *)
LEMMA WholeResolved ==
  ASSUME WholeBooks, NEW f \in 1..Len(fundings), FtResolveTransfer(f)
  PROVE  Ledger' /\ WholeHeld'
<1> DEFINE amount == fundings[f].amount
<1>1. DraftsTypeOK /\ fundings \in Seq(Funding) /\ fundings[f] \in Funding
  BY DraftTypes DEF WholeBooks, DraftsInv, DraftsTypeOK
<1>2. /\ fundings[f].draft_indices \in SUBSET DraftIds
      /\ FundingMoved(f, "returned", fundings[f].draft_indices)
  BY <1>1, StatusMoves DEF FtResolveTransfer, FundingStates
<1>3. fundings[f].status = "refused"
  BY DEF FtResolveTransfer
<1>4. InFlightDeposits' = InFlightDeposits - amount
  <2>1. fundings[f].status \in {"sent", "refused"}
    BY <1>3
  <2>2. "returned" \in FundingStates /\ "returned" \notin {"sent", "refused"}
    BY DEF FundingStates
  <2> QED
    BY <1>1, <1>2, <2>1, <2>2, InFlightMoved
<1>5. Ledger' /\ Booked' = Booked
  BY LedgerKept DEF WholeBooks, FtResolveTransfer
<1>6. Pot' = Pot
  BY PotSame DEF FtResolveTransfer
<1>7. amount \in Int
  BY <1>1, FundingAmount
<1>8. amount <= InFlightDeposits
  <2>1. Awaited[fundings[f]] = amount
    BY <1>1, <1>3 DEF Awaited
  <2>2. Awaited[fundings[f]] <= SumSeq(Awaited, fundings)
    BY <1>1, AwaitedWeights, SumSeqCovers
  <2> QED
    BY <1>1, <2>1, <2>2, InFlightIsAwaited
<1>9. custody' = IF amount <= custody THEN custody - amount ELSE 0
  BY DEF FtResolveTransfer
<1> HIDE DEF amount
<1> SUFFICES ASSUME ChecksDecideRightly PROVE Ledger' /\ WholeHeld'
  BY <1>5 DEF WholeHeld
<1>10. PICK B \in Nat, P \in Nat, Q \in Nat, c \in Nat, a \in Int :
         B = Booked /\ P = Pot /\ Q = InFlightDeposits /\ c = custody /\ a = amount
  BY <1>7, WholeNaturals, BookedNatural DEF WholeBooks
<1>11. c = B + P + Q
  BY <1>10 DEF WholeBooks, WholeHeld, Whole
<1>12. a <= c
  <2>1. a <= Q
    BY <1>8, <1>10
  <2> QED
    BY <1>11, <2>1
<1>13. custody' = c - a
  BY <1>9, <1>10, <1>12
<1>14. (0 - a) \in Int /\ c - a = c + (0 + 0 + (0 - a)) /\ B = B + 0 /\ P = P + 0 /\ Q - a = Q + (0 - a)
  OBVIOUS
<1>15. /\ custody' = custody + (0 + 0 + (0 - a)) /\ Booked' = Booked + 0
       /\ Pot' = Pot + 0 /\ InFlightDeposits' = InFlightDeposits + (0 - a)
  BY <1>4, <1>5, <1>6, <1>10, <1>13, <1>14
<1> QED
  BY <1>5, <1>14, <1>15, WholeMoves

(* A conversion that fails as a whole moves nothing.                       *)
LEMMA WholeRunConversion ==
  ASSUME WholeBooks, NEW f \in 1..Len(fundings), RunConversion(f)
  PROVE  Ledger' /\ WholeHeld'
<1> DEFINE T == fundings[f].draft_indices
<1>1. /\ DraftsInv /\ DraftsTypeOK
      /\ T \in SUBSET DraftIds /\ FundingMoved(f, "accepted", T)
  BY ConversionEnds DEF WholeBooks, DraftsInv
<1>2. InFlightDeposits' = InFlightDeposits
  <2>1. fundings[f].status \notin {"sent", "refused"}
    BY DEF RunConversion
  <2>2. "accepted" \in FundingStates /\ "accepted" \notin {"sent", "refused"}
    BY DEF FundingStates
  <2> QED
    BY <1>1, <2>1, <2>2, InFlightMoved
<1>3. ASSUME NEW ids \in Bijection(1..Cardinality(T), T), convert_drafts(ids)
      PROVE  Ledger' /\ WholeHeld'
  <2>1. T \subseteq DraftIds
    BY <1>1
  <2> HIDE DEF T
  <2>2. OrderOf(ids, T)
    BY <2>1, BijectionOrders
  <2> QED
    BY <1>2, <1>3, <2>1, <2>2, WholeConverted
<1>4. ASSUME UNCHANGED <<vars, drafts, draft_groups, next_draft_id, next_draft_group_id,
                         draft_operators_whitelist, written, converted>>
      PROVE  Ledger' /\ WholeHeld'
  BY <1>2, <1>4, PotSame, WholeKept
<1> QED
  BY <1>3, <1>4 DEF RunConversion

LEMMA WholeBooksNext ==
  ASSUME WholeBooks, [DraftsNext]_allVars
  PROVE  WholeBooks'
<1> SUFFICES Ledger' /\ WholeHeld'
  BY DraftsInvNext DEF WholeBooks
<1>1. CASE Next /\ UNCHANGED draftVars
  BY <1>1, WholeRegistry
<1>2. CASE UNCHANGED allVars
  BY <1>2, WholeRegistry DEF allVars
<1>3. ASSUME NEW caller \in Accounts, CreateDraftGroup(caller)
      PROVE  Ledger' /\ WholeHeld'
  <2> DEFINE g == next_draft_group_id
  <2>1. g \in GroupIds /\ draft_groups[g] = None
    <3>1. DraftsTypeOK /\ g \in Nat /\ g <= MaxGroups /\ g >= 1
      BY <1>3, DraftTypes DEF CreateDraftGroup, WholeBooks, DraftsInv, DraftsTypeOK
    <3>2. g \in GroupIds /\ g >= g
      BY <3>1, DraftBounds DEF GroupIds
    <3> QED
      BY <3>2 DEF WholeBooks, DraftsInv, Financed, FinancedGroup
  <2>2. draft_groups' = [draft_groups EXCEPT ![g] =
          [total_amount |-> 0, payer_id |-> None, draft_indices |-> {}, discarded |-> FALSE]]
    BY <1>3 DEF CreateDraftGroup
  <2>3. draft_groups \in [GroupIds -> DraftGroup \cup {None}]
    BY DEF WholeBooks, DraftsInv, DraftsTypeOK
  <2> HIDE DEF g
  <2>4. \A h \in GroupIds : Share(draft_groups'[h]) = Share(draft_groups[h])
    BY <2>1, <2>2, <2>3 DEF Share
  <2>5. Pot' = Pot
    BY <2>4, PotKept
  <2>6. UNCHANGED vars /\ InFlightDeposits' = InFlightDeposits
    BY <1>3 DEF CreateDraftGroup, InFlightDeposits, InFlightDeposit
  <2> QED
    BY <2>5, <2>6, WholeKept
<1>4. ASSUME NEW caller \in Accounts, NEW batch \in Batches, CreateDrafts(caller, batch)
      PROVE  Ledger' /\ WholeHeld'
  <2> DEFINE N == NewIds(batch)
  <2>1. DraftsTypeOK /\ History /\ GroupsAddUp
    BY DEF WholeBooks, DraftsInv
  <2>2. DraftsAdded(N) /\ GroupsExtended(N)
    BY <1>4, <2>1, BatchAdded, BatchGrouped
  <2> HIDE DEF N
  <2>3. ASSUME NEW g \in GroupIds PROVE Share(draft_groups'[g]) = Share(draft_groups[g])
    <3>1. CASE OfGroup(N, drafts', g) = {}
      BY <2>2, <3>1 DEF GroupsExtended
    <3>2. CASE OfGroup(N, drafts', g) # {}
      <4>1. Open(g)
        BY <2>2, <3>2 DEF DraftsAdded, OfGroup
      <4>2. draft_groups[g] \in DraftGroup /\ draft_groups[g].payer_id = None
        BY <2>1, <4>1, DraftTypes DEF Open
      <4>3. draft_groups'[g].payer_id = None
        BY <2>2, <3>2, <4>2 DEF GroupsExtended, DraftGroup
      <4> QED
        BY <4>2, <4>3 DEF Share
    <3> QED
      BY <3>1, <3>2
  <2>4. Pot' = Pot
    BY <2>3, PotKept
  <2>5. UNCHANGED vars /\ InFlightDeposits' = InFlightDeposits
    BY <1>4 DEF CreateDrafts, InFlightDeposits, InFlightDeposit
  <2> QED
    BY <2>4, <2>5, WholeKept
<1>5. ASSUME NEW caller \in Accounts, NEW g \in GroupIds, DiscardDraftGroup(caller, g)
      PROVE  Ledger' /\ WholeHeld'
  <2>1. DraftsTypeOK /\ Open(g)
    BY <1>5 DEF WholeBooks, DraftsInv, DiscardDraftGroup
  <2>2. draft_groups[g] \in DraftGroup /\ draft_groups[g].payer_id = None
    BY <2>1, DraftTypes DEF Open
  <2>3. draft_groups' = [draft_groups EXCEPT ![g] =
          IF @.draft_indices = {} THEN None ELSE [@ EXCEPT !.discarded = TRUE]]
    BY <1>5 DEF DiscardDraftGroup
  <2>4. draft_groups \in [GroupIds -> DraftGroup \cup {None}]
    BY <2>1 DEF DraftsTypeOK
  <2>5. draft_groups'[g] = None \/ draft_groups'[g].payer_id = None
    BY <2>2, <2>3, <2>4 DEF DraftGroup
  <2>6. \A h \in GroupIds : Share(draft_groups'[h]) = Share(draft_groups[h])
    BY <2>2, <2>3, <2>4, <2>5 DEF Share
  <2>7. Pot' = Pot
    BY <2>6, PotKept
  <2>8. UNCHANGED vars /\ InFlightDeposits' = InFlightDeposits
    BY <1>5 DEF DiscardDraftGroup, InFlightDeposits, InFlightDeposit
  <2> QED
    BY <2>7, <2>8, WholeKept
<1>6. ASSUME NEW caller \in Accounts, NEW account_ids \in (SUBSET Operators) \ {{}},
             \/ AddToDraftOperatorsWhitelist(caller, account_ids)
             \/ RemoveFromDraftOperatorsWhitelist(caller, account_ids)
      PROVE  Ledger' /\ WholeHeld'
  <2>1. UNCHANGED vars /\ draft_groups' = draft_groups /\ fundings' = fundings
    BY <1>6 DEF AddToDraftOperatorsWhitelist, RemoveFromDraftOperatorsWhitelist
  <2>2. InFlightDeposits' = InFlightDeposits
    BY <2>1 DEF InFlightDeposits, InFlightDeposit
  <2> QED
    BY <2>1, <2>2, PotSame, WholeKept
<1>7. ASSUME NEW S \in SomeIds, DeleteDrafts(S)
      PROVE  Ledger' /\ WholeHeld'
  <2>1. DraftsTypeOK /\ GroupsAddUp /\ History
    BY DEF WholeBooks, DraftsInv
  <2>2. /\ S \subseteq DraftIds
        /\ \A d \in S : drafts[d] # None /\ assert_can_delete_draft(drafts[d].draft_group_id)
    BY <1>7 DEF SomeIds, DeleteDrafts
  <2>3. GroupsCut(S)
    BY <1>7, <2>1, <2>2, RemovedGrouped DEF DeleteDrafts
  <2>4. ASSUME NEW g \in GroupIds PROVE Share(draft_groups'[g]) = Share(draft_groups[g])
    <3>1. CASE OfGroup(S, drafts, g) = {}
      BY <2>3, <3>1 DEF GroupsCut
    <3>2. CASE OfGroup(S, drafts, g) # {}
      <4>1. draft_groups[g] # None /\ draft_groups[g].payer_id = None
        BY <2>2, <3>2 DEF OfGroup, assert_can_delete_draft
      <4>2. CASE Left(S, g) = {}
        BY <2>3, <3>2, <4>1, <4>2 DEF GroupsCut, Share
      <4>3. CASE Left(S, g) # {}
        BY <2>1, <2>3, <4>1, <4>3, CutRecord DEF Share
      <4> QED
        BY <4>2, <4>3
    <3> QED
      BY <3>1, <3>2
  <2>5. Pot' = Pot
    BY <2>4, PotKept
  <2>6. UNCHANGED vars /\ InFlightDeposits' = InFlightDeposits
    BY <1>7 DEF DeleteDrafts, InFlightDeposits, InFlightDeposit
  <2> QED
    BY <2>5, <2>6, WholeKept
<1>8. ASSUME NEW S \in SomeIds, NEW ids \in Bijection(1..Cardinality(S), S), ConvertDrafts(ids)
      PROVE  Ledger' /\ WholeHeld'
  <2>1. S \subseteq DraftIds /\ convert_drafts(ids)
    BY <1>8 DEF SomeIds, ConvertDrafts
  <2>2. InFlightDeposits' = InFlightDeposits
    BY <1>8 DEF ConvertDrafts, InFlightDeposits, InFlightDeposit
  <2> QED
    BY <2>1, <2>2, BijectionOrders, WholeConverted
<1>9. ASSUME NEW sender_id \in Funders, NEW amount \in FundingAmounts, NEW g \in GroupIds,
             NEW try_convert \in BOOLEAN, FtTransferCall(sender_id, amount, g, try_convert)
      PROVE  Ledger' /\ WholeHeld'
  BY <1>9, FundersAssumption, WholeSent
<1>10. ASSUME NEW f \in 1..Len(fundings),
              \/ FtOnTransferFunding(f) \/ FtOnTransferRefused(f)
              \/ FtResolveTransfer(f) \/ RunConversion(f)
       PROVE  Ledger' /\ WholeHeld'
  BY <1>10, WholeFunded, WholeRefused, WholeResolved, WholeRunConversion
<1> QED
  BY <1>1, <1>2, <1>3, <1>4, <1>5, <1>6, <1>7, <1>8, <1>9, <1>10 DEF DraftsNext

LEMMA NothingPaidYet == DraftsInit => Pot = 0 /\ InFlightDeposits = 0
<1> SUFFICES ASSUME DraftsInit PROVE Pot = 0 /\ InFlightDeposits = 0
  OBVIOUS
<1>1. DraftsTypeOK
  BY DraftsInvInit DEF DraftsInv
<1>2. Pot = 0
  <2> DEFINE share == [g \in GroupIds |-> Share(draft_groups[g])]
  <2>1. \A g \in GroupIds : draft_groups[g] = None
    BY DEF DraftsInit
  <2>2. \A g \in 1..MaxGroups : share[g] = 0
    BY <2>1 DEF Share, GroupIds
  <2>3. Pot = SumTo(share, MaxGroups)
    BY <1>1, PotIsShares, Shares
  <2> HIDE DEF share
  <2> QED
    BY <2>2, <2>3, SumOfZeros, DraftBounds
<1>3. InFlightDeposits = 0
  <2>1. Len(fundings) = 0
    BY DEF DraftsInit
  <2> QED
    BY <2>1, SumToZero DEF InFlightDeposits
<1> QED
  BY <1>2, <1>3

LEMMA WholeBooksInit == DraftsInit => WholeBooks
<1> SUFFICES ASSUME DraftsInit PROVE WholeBooks
  OBVIOUS
<1>1. DraftsInv /\ IInv /\ Ledger /\ custody = Booked
  BY DraftsInvInit, LedgerInit DEF DraftsInit
<1>2. Pot = 0 /\ InFlightDeposits = 0 /\ Booked \in Int
  BY <1>1, NothingPaidYet, BookedInteger
<1> QED
  BY <1>1, <1>2 DEF WholeBooks, WholeHeld, Whole

LEMMA WholeInvariance == DraftsSpec => []WholeBooks
<1>1. DraftsInit => WholeBooks
  BY WholeBooksInit
<1>2. WholeBooks /\ [DraftsNext]_allVars => WholeBooks'
  BY WholeBooksNext
<1> QED
  BY <1>1, <1>2, PTL DEF DraftsSpec

(* The contract holds exactly what its lockups owe, the transfers that     *)
(* have not left, what was paid for drafts not converted, and the deposits *)
(* in flight, whatever fundings, conversions, refunds, claims and          *)
(* terminations come in whatever order (lib.rs:153-467, callbacks.rs,      *)
(* ft_token_receiver.rs): a refused deposit is always there to be taken    *)
(* back, and what was paid for drafts is there when they are converted, as *)
(* long as vesting schedules that the contract accepts are ahead           *)
(* (schedule.rs:80-97).                                                    *)
THEOREM WholeConserved ==
  ASSUME ChecksDecideRightly
  PROVE  DraftsSpec => []TotalConservation
<1>1. WholeBooks => TotalConservation
  BY BookedIs DEF WholeBooks, WholeHeld, Whole, Booked, TotalConservation
<1> QED
  BY <1>1, WholeInvariance, PTL

(* With drafts, fundings and conversions next to them, the lockups keep    *)
(* what is proved of the registry alone: what is claimed is unlocked and   *)
(* covered by the lockup, but for a token that a termination takes back,   *)
(* the events agree with the records, an account lists only its own, and   *)
(* taking a failed claim back never underflows (lib.rs:153-279,            *)
(* callbacks.rs).                                                          *)
THEOREM RegistryKept ==
  DraftsSpec => [](/\ ClaimedWithinTotalButOne /\ NothingClaimedEarly /\ IndexerAgrees
                   /\ ListedRightly /\ RefundsCovered)
<1>1. WholeBooks => /\ ClaimedWithinTotalButOne /\ NothingClaimedEarly /\ IndexerAgrees
                    /\ ListedRightly /\ RefundsCovered
  BY InvSafe, LedgerAgrees, LedgerRefunds DEF WholeBooks, Ledger
<1> QED
  BY <1>1, WholeInvariance, PTL

(* And the rest of it, as long as vesting schedules that the contract      *)
(* accepts are ahead (schedule.rs:80-97): lockups cover what is claimed of *)
(* them, no empty one is listed, and no transfer waits for tokens that are *)
(* not there.                                                              *)
THEOREM RegistryCovered ==
  ASSUME ChecksDecideRightly
  PROVE  DraftsSpec => [](ClaimedWithinTotal /\ ListedAreOwnAndNotEmpty /\ TransfersCovered)
<1>1. WholeBooks => ClaimedWithinTotal /\ ListedAreOwnAndNotEmpty /\ TransfersCovered
  <2> SUFFICES ASSUME WholeBooks
               PROVE  ClaimedWithinTotal /\ ListedAreOwnAndNotEmpty /\ TransfersCovered
    OBVIOUS
  <2>1. IInv /\ Ledger
    BY DEF WholeBooks
  <2>2. Booked <= custody
    <3>1. /\ Booked \in Int /\ Pot \in Nat /\ InFlightDeposits \in Nat
          /\ custody = Booked + Pot + InFlightDeposits
      BY WholeNaturals DEF WholeBooks, WholeHeld, Whole
    <3> QED
      BY <3>1
  <2> QED
    BY <2>1, <2>2, InvSafe, LedgerLists, LedgerCovers
<1> QED
  BY <1>1, WholeInvariance, PTL

(* Every draft has a group that can be discarded, or converted from, or    *)
(* deleted from, and taking any of a group's drafts out of it passes the   *)
(* checked subtractions: the guards behind NoDraftIsStuck.                 *)
DraftsCanLeave ==
  \A d \in DraftIds : drafts[d] # None =>
    LET g == drafts[d].draft_group_id
    IN  /\ Open(g) \/ assert_can_convert_draft(g) \/ assert_can_delete_draft(g)
        /\ d \in draft_groups[g].draft_indices
        /\ \A S \in SUBSET draft_groups[g].draft_indices :
             BalanceOf(S, drafts) <= draft_groups[g].total_amount

(* No batch, funding or deletion leaves a draft that nothing can take out  *)
(* of its group any more (lib.rs:405-467, model/src/draft.rs:49-87).       *)
THEOREM NoDraftTrapped == DraftsSpec => []DraftsCanLeave
<1>1. DraftsInv => DraftsCanLeave
  <2> SUFFICES ASSUME DraftsInv, NEW d \in DraftIds, drafts[d] # None,
                      NEW g, g = drafts[d].draft_group_id
               PROVE  /\ Open(g) \/ assert_can_convert_draft(g) \/ assert_can_delete_draft(g)
                      /\ d \in draft_groups[g].draft_indices
                      /\ \A S \in SUBSET draft_groups[g].draft_indices :
                           BalanceOf(S, drafts) <= draft_groups[g].total_amount
    BY DEF DraftsCanLeave
  <2>1. DraftsTypeOK /\ GroupsAddUp /\ History /\ Financed
    BY DEF DraftsInv
  <2>2. /\ g \in GroupIds /\ draft_groups[g] # None
        /\ draft_groups[g].draft_indices = DraftsOf(g) /\ d \in DraftsOf(g)
        /\ draft_groups[g].total_amount = BalanceOf(DraftsOf(g), drafts)
    <3>1. g \in Groups
      BY <2>1 DEF GroupsAddUp
    <3>2. /\ draft_groups[g].draft_indices = DraftsOf(g)
          /\ draft_groups[g].total_amount = BalanceOf(DraftsOf(g), drafts)
      BY <2>1, <3>1 DEF GroupsAddUp
    <3> QED
      BY <3>1, <3>2 DEF Groups, DraftsOf
  <2>3. draft_groups[g].payer_id # None => ~draft_groups[g].discarded
    <3>1. FinancedGroup(g)
      BY <2>1, <2>2 DEF Financed
    <3> QED
      BY ONLY <2>2, <3>1 DEF FinancedGroup
  <2>4. Open(g) \/ assert_can_convert_draft(g) \/ assert_can_delete_draft(g)
    BY <2>2, <2>3 DEF Open, assert_can_convert_draft, assert_can_delete_draft
  <2>5. ASSUME NEW S \in SUBSET DraftsOf(g)
        PROVE  BalanceOf(S, drafts) <= BalanceOf(DraftsOf(g), drafts)
    <3>1. Counted(DraftsOf(g), drafts)
      BY <2>1, <2>2, DraftsCounted
    <3>2. /\ BalanceOf(DraftsOf(g), drafts) = BalanceOf(S, drafts) + BalanceOf(DraftsOf(g) \ S, drafts)
          /\ BalanceOf(S, drafts) \in Nat /\ BalanceOf(DraftsOf(g) \ S, drafts) \in Nat
      BY <3>1, BalanceOfPart
    <3> QED
      BY <3>2
  <2> QED
    BY <2>2, <2>4, <2>5
<1> QED
  BY <1>1, DraftsInvariance, PTL

-----------------------------------------------------------------------------
(* What a step of the whole does to the registry: a step of the registry   *)
(* alone, nothing, or new lockups.                                         *)
LEMMA RegistrySteps ==
  ASSUME DraftsInv, IInv, [DraftsNext]_allVars
  PROVE  \/ [Next]_vars
         \/ UNCHANGED <<lockups, account_lockups, deposit_whitelist, promises, indexer>>
         \/ \E made, n : LotAdded(made, n)
<1>1. ASSUME NEW T, T \subseteq DraftIds, NEW ids, OrderOf(ids, T), convert_drafts(ids)
      PROVE  \E made, n : LotAdded(made, n)
  BY <1>1, LotConverted DEF DraftsInv
<1>2. ASSUME NEW S \in SomeIds, NEW ids \in Bijection(1..Cardinality(S), S), ConvertDrafts(ids)
      PROVE  \E made, n : LotAdded(made, n)
  <2>1. S \subseteq DraftIds /\ convert_drafts(ids)
    BY <1>2 DEF SomeIds, ConvertDrafts
  <2> QED
    BY <1>1, <2>1, BijectionOrders
<1>3. ASSUME NEW f \in 1..Len(fundings), RunConversion(f)
      PROVE  UNCHANGED vars \/ \E made, n : LotAdded(made, n)
  <2> DEFINE T == fundings[f].draft_indices
  <2>1. T \subseteq DraftIds
    BY DraftTypes DEF DraftsInv, Funding
  <2>2. ASSUME NEW ids \in Bijection(1..Cardinality(T), T), convert_drafts(ids)
        PROVE  \E made, n : LotAdded(made, n)
    <3> HIDE DEF T
    <3> QED
      BY <1>1, <2>1, <2>2, BijectionOrders
  <2> QED
    BY <1>3, <2>2 DEF RunConversion
<1>4. ASSUME \/ \E caller \in Accounts : \/ CreateDraftGroup(caller)
                                         \/ \E batch \in Batches : CreateDrafts(caller, batch)
                                         \/ \E g \in GroupIds : DiscardDraftGroup(caller, g)
             \/ \E caller \in Accounts, account_ids \in (SUBSET Operators) \ {{}} :
                  \/ AddToDraftOperatorsWhitelist(caller, account_ids)
                  \/ RemoveFromDraftOperatorsWhitelist(caller, account_ids)
             \/ \E S \in SomeIds : DeleteDrafts(S)
             \/ \E f \in 1..Len(fundings) : FtOnTransferFunding(f) \/ FtOnTransferRefused(f)
      PROVE  UNCHANGED vars
  BY <1>4 DEF CreateDraftGroup, CreateDrafts, DiscardDraftGroup, AddToDraftOperatorsWhitelist,
              RemoveFromDraftOperatorsWhitelist, DeleteDrafts, FtOnTransferFunding,
              FtOnTransferRefused
<1>5. ASSUME \/ \E sender_id \in Funders, amount \in FundingAmounts, g \in GroupIds,
                   try_convert \in BOOLEAN : FtTransferCall(sender_id, amount, g, try_convert)
             \/ \E f \in 1..Len(fundings) : FtResolveTransfer(f)
      PROVE  UNCHANGED <<lockups, account_lockups, deposit_whitelist, promises, indexer>>
  BY <1>5 DEF FtTransferCall, FtResolveTransfer
<1>6. CASE UNCHANGED allVars
  BY <1>6 DEF allVars
<1> QED
  BY <1>2, <1>3, <1>4, <1>5, <1>6 DEF DraftsNext

(* A converted draft is listed and not spent.                              *)
LEMMA LotListed ==
  ASSUME IInv, Ledger, NEW made, NEW n, LotAdded(made, n)
  PROVE  /\ \A i \in Indices :
              i \in account_lockups'[lockups[i].account_id]
                <=> i \in account_lockups[lockups[i].account_id]
         /\ \A k \in 1..n :
              /\ Len(lockups) + k \in account_lockups'[made[k].account_id]
              /\ ~ Spent(made[k])
<1> DEFINE m == Len(lockups)
<1>1. /\ m \in Nat /\ n \in Nat /\ Indices = 1..m
      /\ made \in [1..n -> LockupType]
      /\ \A i \in Indices : lockups[i].account_id \in Accounts
      /\ \A k \in 1..n : made[k].account_id \in Accounts
  <2>1. \A i \in Indices : lockups[i] \in LockupType
    BY LedgerFacts
  <2>2. made \in [1..n -> LockupType] /\ n \in Nat
    BY DEF LotAdded
  <2> QED
    BY <2>1, <2>2, LedgerFacts, LockupFields DEF Indices
<1>2. account_lockups' = [a \in Accounts |-> account_lockups[a] \cup
                            { m + k : k \in { j \in 1..n : made[j].account_id = a } }]
  BY DEF LotAdded
<1>3. ASSUME NEW k \in 1..n PROVE ~ Spent(made[k])
  <2>1. /\ made[k] \in LockupType /\ Increasing(made[k].schedule)
        /\ made[k].claimed_balance = 0 /\ total_balance(made[k].schedule) > 0
    BY <1>1 DEF LotAdded, SoundLockup
  <2> QED
    BY <2>1, RestOf DEF Spent
<1> HIDE DEF m
<1>4. \A k \in 1..n : m + k \in account_lockups'[made[k].account_id]
  BY <1>1, <1>2
<1>5. \A i \in Indices, k \in 1..n : i # m + k
  BY <1>1
<1>6. \A i \in Indices : i \in account_lockups'[lockups[i].account_id]
                           <=> i \in account_lockups[lockups[i].account_id]
  BY <1>1, <1>2, <1>5
<1> QED
  BY <1>3, <1>4, <1>6 DEF m

LEMMA LotListing ==
  ASSUME IInv, Ledger, Listing, NEW made, NEW n, LotAdded(made, n)
  PROVE  Listing'
<1>1. /\ Len(lockups') = Len(lockups) + n
      /\ \A i \in 1..Len(lockups) : lockups'[i] = lockups[i]
      /\ \A k \in 1..n : lockups'[Len(lockups) + k] = made[k]
      /\ \A i \in 1..(Len(lockups) + n) :
           i \in 1..Len(lockups) \/ \E k \in 1..n : i = Len(lockups) + k
  BY LotElements
<1>2. ASSUME NEW i \in 1..(Len(lockups) + n), i \notin account_lockups'[lockups'[i].account_id]
      PROVE  Spent(lockups'[i])
  <2>1. ASSUME NEW k \in 1..n, i = Len(lockups) + k PROVE FALSE
    <3>1. lockups'[i] = made[k] /\ i \in account_lockups'[made[k].account_id]
      BY <1>1, <2>1, LotListed
    <3> QED
      BY <1>2, <3>1
  <2>2. i \in Indices
    BY <1>1, <2>1 DEF Indices
  <2>3. i \notin account_lockups[lockups[i].account_id] /\ lockups'[i] = lockups[i]
    BY <1>1, <1>2, <2>2, LotListed DEF Indices
  <2> QED
    BY <2>2, <2>3 DEF Listing
<1>3. promises' = promises /\ SpentStays(lockups, lockups')
  BY <1>1 DEF SpentStays, LotAdded
<1>4. ASSUME NEW k \in 1..Len(promises) PROVE FinalIsSpent(promises[k], lockups')
  <2>1. InOrder(promises[k], lockups) /\ FinalIsSpent(promises[k], lockups)
    BY DEF Ledger, Listing
  <2> QED
    BY <1>3, <2>1, FinalsKept
<1> QED
  BY <1>1, <1>2, <1>3, <1>4 DEF Listing, Indices

LEMMA LotOutgoing ==
  ASSUME IInv, Ledger, Outgoing, NEW made, NEW n, LotAdded(made, n)
  PROVE  Outgoing'
<1>1. /\ Len(lockups') = Len(lockups) + n
      /\ \A i \in 1..Len(lockups) : lockups'[i] = lockups[i] /\ indexer'[i] = indexer[i]
      /\ \A k \in 1..n : lockups'[Len(lockups) + k] = made[k]
      /\ \A i \in 1..(Len(lockups) + n) :
           i \in 1..Len(lockups) \/ \E k \in 1..n : i = Len(lockups) + k
  BY LotElements
<1>2. ASSUME NEW i \in 1..(Len(lockups) + n), ListedSpent(i)'
      PROVE  UnlistedBy(promises', i)
  <2>1. ASSUME NEW k \in 1..n, i = Len(lockups) + k PROVE FALSE
    <3>1. lockups'[i] = made[k] /\ ~ Spent(made[k])
      BY <1>1, <2>1, LotListed
    <3> QED
      BY <1>2, <3>1 DEF ListedSpent
  <2>2. i \in Indices
    BY <1>1, <2>1 DEF Indices
  <2>3. ListedSpent(i)
    BY <1>1, <1>2, <2>2, LotListed DEF ListedSpent, Indices
  <2>4. promises' = promises
    BY DEF LotAdded
  <2> QED
    BY <2>2, <2>3, <2>4 DEF Outgoing
<1> QED
  BY <1>1, <1>2 DEF Outgoing, Indices

LEMMA OutgoingSteps ==
  ASSUME WholeBooks, WholeBooks', Outgoing, [DraftsNext]_allVars
  PROVE  Outgoing'
<1>1. DraftsInv /\ IInv /\ Ledger /\ ListedRightly'
  BY DEF WholeBooks, Ledger
<1>2. CASE [Next]_vars
  BY <1>1, <1>2, OutgoingNext
<1>3. CASE UNCHANGED <<lockups, account_lockups, deposit_whitelist, promises, indexer>>
  BY <1>3, OutgoingUntouched
<1>4. ASSUME NEW made, NEW n, LotAdded(made, n) PROVE Outgoing'
  BY <1>1, <1>4, LotOutgoing
<1> QED
  BY <1>1, <1>2, <1>3, <1>4, RegistrySteps

LEMMA ListingSteps ==
  ASSUME WholeBooks, Listing, [DraftsNext]_allVars, [RefundsNoFinal]_vars
  PROVE  Listing'
<1>1. DraftsInv /\ IInv /\ Ledger
  BY DEF WholeBooks
<1>2. CASE UNCHANGED <<lockups, account_lockups, deposit_whitelist, promises, indexer>>
  BY <1>2, ListingUntouched
<1>3. CASE [Next]_vars
  <2>1. CASE RefundsNoFinal
    BY <1>1, <1>3, <2>1, ListingNext
  <2>2. CASE UNCHANGED vars
    BY <1>2, <2>2 DEF vars
  <2> QED
    BY <2>1, <2>2
<1>4. ASSUME NEW made, NEW n, LotAdded(made, n) PROVE Listing'
  BY <1>1, <1>4, LotListing
<1> QED
  BY <1>1, <1>2, <1>3, <1>4, RegistrySteps

(* Drafts, fundings and conversions next to the registry do not change     *)
(* what its index promises: a lockup paid out by claims alone is unlisted, *)
(* one that was a draft too (callbacks.rs:39-70, lib.rs:449-467).          *)
THEOREM PaidOutUnlistedWhole == DraftsSpec => []PaidOutIsUnlisted
<1>1. DraftsInit => Outgoing
  BY OutgoingInit DEF DraftsInit
<1>2. WholeBooks /\ Outgoing => PaidOutIsUnlisted
  BY OutgoingUnlisted DEF WholeBooks
<1> QED
  BY <1>1, <1>2, OutgoingSteps, WholeInvariance, PTL DEF DraftsSpec

(* Nor do they add a way by which a lockup with tokens left is lost to its *)
(* owner: a refund under a final claim in flight remains the only one      *)
(* (callbacks.rs:39-70, lib.rs:449-467).                                   *)
THEOREM OnlyStaleRefundsUnlistWhole == DraftsSpec /\ NoStaleRefund => []UnclaimedIsListed
<1>1. DraftsInit => Listing
  BY ListingInit DEF DraftsInit
<1>2. WholeBooks /\ Listing => UnclaimedIsListed
  BY ListingListed DEF WholeBooks
<1> QED
  BY <1>1, <1>2, ListingSteps, WholeInvariance, PTL DEF DraftsSpec, NoStaleRefund
=============================================================================
