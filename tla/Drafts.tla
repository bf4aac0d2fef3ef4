------------------------------- MODULE Drafts -------------------------------
(***************************************************************************)
(* The whole contract: the registry of Lockups together with drafts, the   *)
(* groups they are funded in, and the transfers that fund them             *)
(* (contract/src/lib.rs, callbacks.rs, ft_token_receiver.rs and            *)
(* model/src/draft.rs).  A funding is an ft_transfer_call: the token       *)
(* contract moves the deposit, the receiver accepts it or panics in a      *)
(* later receipt, and in a third the token contract takes a refused        *)
(* deposit back.  A conversion the receiver asks for is a receipt of its   *)
(* own, whose failure nobody handles.                                      *)
(***************************************************************************)
EXTENDS Lockups, Functions

CONSTANTS
  InitialDraftOperators, \* draft_operators_whitelist given to `new'
  Funders,               \* who sends fundings
  FundingAmounts,        \* the amounts they send
  MaxAmount,             \* u128::MAX
  MaxGroups,             \* bound on the draft groups ever created
  MaxDrafts,             \* bound on the drafts ever created
  MaxBatch,              \* bound on the drafts one call creates
  MaxFundings            \* bound on the fundings ever sent

ASSUME FundersAssumption == Funders \subseteq Accounts
ASSUME FundingAmountsAssumption == FundingAmounts \subseteq Nat \ {0}
ASSUME DraftOperatorsAssumption == InitialDraftOperators \subseteq Accounts
ASSUME DraftBoundsAssumption ==
  /\ MaxAmount \in Nat
  /\ \A c \in LockupCreates : c.schedule # <<>> => total_balance(c.schedule) <= MaxAmount
  /\ MaxGroups \in Nat /\ MaxDrafts \in Nat /\ MaxBatch \in Nat /\ MaxFundings \in Nat

VARIABLES
  drafts,                    \* id -> draft; None for an absent key
  draft_groups,              \* id -> group; None for an absent key
  next_draft_id,             \* one more than in the code: ids start at 1
  next_draft_group_id,
  draft_operators_whitelist,
  fundings,                  \* every funding sent, with how far it got
  written,                   \* what the FtLockupCreateDraft events say (history)
  converted                  \* draft -> index of its lockup, or 0 (history)

draftVars == <<drafts, draft_groups, next_draft_id, next_draft_group_id,
               draft_operators_whitelist, fundings, written, converted>>
allVars == <<vars, draftVars>>

DraftIds == 1..MaxDrafts
GroupIds == 1..MaxGroups

Draft == [draft_group_id : GroupIds, lockup_create : LockupCreates]

DraftGroup == [total_amount : 0..MaxAmount, payer_id : Accounts \cup {None},
               draft_indices : SUBSET DraftIds, discarded : BOOLEAN]

ASSUME NoneIsNoDraft == None \notin Draft /\ None \notin DraftGroup

(* A funding is sent, then accepted or refused; a refused one is returned; *)
(* one accepted with a conversion is converting until that has run.        *)
Funding == [sender_id : Accounts, amount : FundingAmounts, draft_group_id : GroupIds,
            try_convert : BOOLEAN, draft_indices : SUBSET DraftIds,
            status : {"sent", "refused", "returned", "accepted", "converting"}]

balance_of(draft) == total_balance(draft.lockup_create.schedule)

(* The total balance of the drafts in S, as records in the function f.     *)
BalanceOf(S, f) == SumTo([d \in DraftIds |-> IF d \in S THEN balance_of(f[d]) ELSE 0], MaxDrafts)

(* assert_draft_operators_whitelist.                                       *)
IsDraftOperator(caller) == caller \in deposit_whitelist \cup draft_operators_whitelist

(* Mutant: whether the group is funded is not asked.                       *)
OpenOrFunded(g) == draft_groups[g] # None /\ ~draft_groups[g].discarded

(* assert_can_add_draft, assert_can_fund and assert_can_discard ask the    *)
(* same of a group.                                                        *)
Open(g) == /\ draft_groups[g] # None
           /\ ~draft_groups[g].discarded
           /\ draft_groups[g].payer_id = None

assert_can_convert_draft(g) == /\ draft_groups[g] # None
                               /\ ~draft_groups[g].discarded
                               /\ draft_groups[g].payer_id # None

assert_can_delete_draft(g) == /\ draft_groups[g] # None
                              /\ draft_groups[g].discarded
                              /\ draft_groups[g].payer_id = None

DraftsInit == /\ Init
              /\ drafts = [d \in DraftIds |-> None]
              /\ draft_groups = [g \in GroupIds |-> None]
              /\ next_draft_id = 1
              /\ next_draft_group_id = 1
              /\ draft_operators_whitelist = InitialDraftOperators
              /\ fundings = <<>>
              /\ written = [d \in DraftIds |-> None]
              /\ converted = [d \in DraftIds |-> 0]

-----------------------------------------------------------------------------
(* add_to_draft_operators_whitelist and remove_from_...: only accounts of  *)
(* the deposit whitelist administer the operators.                         *)
AddToDraftOperatorsWhitelist(caller, account_ids) ==
  /\ caller \in deposit_whitelist
  /\ draft_operators_whitelist' = draft_operators_whitelist \cup account_ids
  /\ UNCHANGED <<vars, drafts, draft_groups, next_draft_id, next_draft_group_id,
                 fundings, written, converted>>

RemoveFromDraftOperatorsWhitelist(caller, account_ids) ==
  /\ caller \in deposit_whitelist
  /\ draft_operators_whitelist' = draft_operators_whitelist \ account_ids
  /\ UNCHANGED <<vars, drafts, draft_groups, next_draft_id, next_draft_group_id,
                 fundings, written, converted>>

CreateDraftGroup(caller) ==
  /\ IsDraftOperator(caller)
  /\ next_draft_group_id <= MaxGroups
  /\ draft_groups' = [draft_groups EXCEPT ![next_draft_group_id] =
       [total_amount |-> 0, payer_id |-> None, draft_indices |-> {}, discarded |-> FALSE]]
  /\ next_draft_group_id' = next_draft_group_id + 1
  /\ UNCHANGED <<vars, drafts, next_draft_id, draft_operators_whitelist,
                 fundings, written, converted>>

(* Mutant: each draft of a batch is added to the group as it was stored    *)
(* before the call, so that only the last one counts.                      *)
WithLastDraft(group, ids, f) ==
  LET last == { d \in ids : \A e \in ids : e <= d }
  IN  [group EXCEPT !.total_amount = @ + BalanceOf(last, f), !.draft_indices = @ \cup ids]

(* Mutant: the id is read after the counter was increased.                 *)
WithNextIds(group, ids, f) == [group EXCEPT !.total_amount = @ + BalanceOf(ids, f),
                                            !.draft_indices = @ \cup { d + 1 : d \in ids }]

(* A group with the drafts `ids' added, as records in the function f: a    *)
(* sum of 128 bits.                                                        *)
WithDrafts(group, ids, f) == [group EXCEPT !.total_amount = (@ + BalanceOf(ids, f)) % (MaxAmount + 1),
                                           !.draft_indices = @ \cup ids]

(* Mutant: the addition is not a checked one.                              *)
NotChecked(group, ids, f) == TRUE

(* checked_add: drafts cost nothing, so their balances may be anything.    *)
checked_add(group, ids, f) == group.total_amount + BalanceOf(ids, f) <= MaxAmount

(* create_drafts, and create_draft with a batch of one: all drafts of a    *)
(* batch are created, or none.                                             *)
CreateDrafts(caller, batch) ==
  LET ids == next_draft_id..(next_draft_id + Len(batch) - 1)
      created(f) == [d \in DraftIds |-> IF d \in ids THEN batch[d - next_draft_id + 1] ELSE f[d]]
      of(g) == { d \in ids : batch[d - next_draft_id + 1].draft_group_id = g }
  IN
  /\ IsDraftOperator(caller)
  /\ ids \subseteq DraftIds
  /\ \A k \in 1..Len(batch) :
       /\ Open(batch[k].draft_group_id)
       /\ assert_new_valid(into_lockup(batch[k].lockup_create, caller), balance_of(batch[k]))
  /\ drafts' = created(drafts)
  /\ written' = created(written)
  /\ next_draft_id' = next_draft_id + Len(batch)
  /\ \A g \in GroupIds : of(g) # {} => checked_add(draft_groups[g], of(g), drafts')
  /\ draft_groups' = [g \in GroupIds |-> IF of(g) = {} THEN draft_groups[g]
                                         ELSE WithDrafts(draft_groups[g], of(g), drafts')]
  /\ UNCHANGED <<vars, next_draft_group_id, draft_operators_whitelist, fundings, converted>>

(* discard_draft_group: an empty group is removed at once.                 *)
DiscardDraftGroup(caller, g) ==
  /\ IsDraftOperator(caller)
  /\ Open(g)
  /\ draft_groups' = [draft_groups EXCEPT ![g] =
       IF @.draft_indices = {} THEN None ELSE [@ EXCEPT !.discarded = TRUE]]
  /\ UNCHANGED <<vars, drafts, next_draft_id, next_draft_group_id, draft_operators_whitelist,
                 fundings, written, converted>>

(* Mutant: a group is removed with the first of its drafts.                *)
RemoveWithFirst(ids) ==
  LET of(g) == { d \in ids : drafts[d].draft_group_id = g }
  IN  /\ drafts' = [d \in DraftIds |-> IF d \in ids THEN None ELSE drafts[d]]
      /\ draft_groups' = [g \in GroupIds |-> IF of(g) = {} THEN draft_groups[g] ELSE None]

(* What delete_drafts and convert_drafts do to the maps: the drafts are    *)
(* removed from their groups, and a group with its last draft.             *)
RemoveDrafts(ids) ==
  LET of(g) == { d \in ids : drafts[d].draft_group_id = g }
      rest(g) == [draft_groups[g] EXCEPT !.total_amount = @ - BalanceOf(of(g), drafts),
                                         !.draft_indices = @ \ of(g)]
  IN
  /\ \A g \in GroupIds : of(g) # {} => /\ BalanceOf(of(g), drafts) <= draft_groups[g].total_amount
                                       /\ of(g) \subseteq draft_groups[g].draft_indices
  /\ drafts' = [d \in DraftIds |-> IF d \in ids THEN None ELSE drafts[d]]
  /\ draft_groups' = [g \in GroupIds |->
       IF of(g) = {} THEN draft_groups[g]
       ELSE IF rest(g).draft_indices = {} THEN None ELSE rest(g)]

(* delete_drafts: anybody may, once the group is discarded.                *)
DeleteDrafts(ids) ==
  /\ \A d \in ids : drafts[d] # None /\ assert_can_delete_draft(drafts[d].draft_group_id)
  /\ RemoveDrafts(ids)
  /\ UNCHANGED <<vars, next_draft_id, next_draft_group_id, draft_operators_whitelist,
                 fundings, written, converted>>

(* convert_drafts and convert_draft: anybody may, once the group is        *)
(* funded.  The lockups are added in the order of the argument, which      *)
(* names no draft twice, or the second removal would panic.                *)
Convertible(ids) ==
  /\ IsInjective(ids)
  /\ \A k \in 1..Len(ids) : /\ drafts[ids[k]] # None
                            /\ assert_can_convert_draft(drafts[ids[k]].draft_group_id)

(* Bound: as for a lockup that is created, refund lockups keep their room. *)
RoomFor(n) == Len(lockups) + n + Cardinality(OpenTerminations) <= MaxLockups

(* Mutant: the lockups are the drafts', but the payer is its own owner.    *)
PayerIsOwner(draft) == into_lockup(draft.lockup_create, draft.lockup_create.account_id)

lockup_of(draft) == into_lockup(draft.lockup_create, draft_groups[draft.draft_group_id].payer_id)

convert_drafts(ids) ==
  LET n == Len(ids)
      made == [k \in 1..n |-> lockup_of(drafts[ids[k]])]
  IN
  /\ RoomFor(n)
  /\ Convertible(ids)
  /\ RemoveDrafts({ ids[k] : k \in 1..n })
  /\ lockups' = lockups \o made
  /\ account_lockups' = [a \in Accounts |-> account_lockups[a] \cup
                           { Len(lockups) + k : k \in { j \in 1..n : made[j].account_id = a } }]
  /\ indexer' = indexer \o [k \in 1..n |-> Created(made[k])]
  /\ converted' = [d \in DraftIds |-> IF \E k \in 1..n : ids[k] = d
                                      THEN Len(lockups) + (CHOOSE k \in 1..n : ids[k] = d)
                                      ELSE converted[d]]
  /\ UNCHANGED <<now, deposit_whitelist, promises, custody, next_draft_id, next_draft_group_id,
                 draft_operators_whitelist, written>>

ConvertDrafts(ids) == convert_drafts(ids) /\ UNCHANGED fundings

-----------------------------------------------------------------------------
(* ft_transfer_call: the token contract moves the deposit and calls the    *)
(* receiver, which runs any number of calls later.                         *)
FtTransferCall(sender_id, amount, g, try_convert) ==
  /\ Len(fundings) < MaxFundings
  /\ fundings' = Append(fundings,
       [sender_id |-> sender_id, amount |-> amount, draft_group_id |-> g,
        try_convert |-> try_convert, draft_indices |-> {}, status |-> "sent"])
  /\ custody' = custody + amount
  /\ UNCHANGED <<now, lockups, account_lockups, deposit_whitelist, promises, indexer,
                 drafts, draft_groups, next_draft_id, next_draft_group_id,
                 draft_operators_whitelist, written, converted>>

(* Mutant: a deposit that is more than the group needs is accepted.        *)
FundableWithMore(funding) ==
  /\ funding.sender_id \in deposit_whitelist
  /\ Open(funding.draft_group_id)
  /\ draft_groups[funding.draft_group_id].total_amount <= funding.amount

(* Mutant: a group that is funded already is funded again.                 *)
FundableAgain(funding) ==
  LET group == draft_groups[funding.draft_group_id] IN
  /\ funding.sender_id \in deposit_whitelist
  /\ group # None
  /\ ~group.discarded
  /\ group.total_amount = funding.amount

(* The receiver accepts a deposit of exactly what the group needs now.     *)
Fundable(funding) ==
  /\ funding.sender_id \in deposit_whitelist
  /\ Open(funding.draft_group_id)
  /\ draft_groups[funding.draft_group_id].total_amount = funding.amount

(* ft_on_transfer with a DraftGroupFunding message.  Whether the gas that  *)
(* remains suffices to ask for the conversion is not modelled: either.     *)
FtOnTransferFunding(f) ==
  LET funding == fundings[f]
      g == funding.draft_group_id
  IN
  /\ funding.status = "sent"
  /\ Fundable(funding)
  /\ draft_groups' = [draft_groups EXCEPT ![g].payer_id = funding.sender_id]
  /\ \E converts \in {FALSE, funding.try_convert} :
       fundings' = [fundings EXCEPT
         ![f].status = IF converts THEN "converting" ELSE "accepted",
         ![f].draft_indices = IF converts THEN draft_groups[g].draft_indices ELSE {}]
  /\ UNCHANGED <<vars, drafts, next_draft_id, next_draft_group_id, draft_operators_whitelist,
                 written, converted>>

(* The receiver panics, and later the token contract takes the deposit     *)
(* back: all of it, or what is left on the contract's account.             *)
FtOnTransferRefused(f) ==
  /\ fundings[f].status = "sent"
  /\ ~Fundable(fundings[f])
  /\ fundings' = [fundings EXCEPT ![f].status = "refused"]
  /\ UNCHANGED <<vars, drafts, draft_groups, next_draft_id, next_draft_group_id,
                 draft_operators_whitelist, written, converted>>

FtResolveTransfer(f) ==
  /\ fundings[f].status = "refused"
  /\ fundings' = [fundings EXCEPT ![f].status = "returned"]
  /\ custody' = IF fundings[f].amount <= custody THEN custody - fundings[f].amount ELSE 0
  /\ UNCHANGED <<now, lockups, account_lockups, deposit_whitelist, promises, indexer,
                 drafts, draft_groups, next_draft_id, next_draft_group_id,
                 draft_operators_whitelist, written, converted>>

(* Mutant: a conversion that fails is tried again until it succeeds.       *)
RetriesConversion(f) ==
  LET ids == fundings[f].draft_indices IN
  /\ fundings[f].status = "converting"
  /\ fundings' = [fundings EXCEPT ![f].status = "accepted"]
  /\ \E order \in Bijection(1..Cardinality(ids), ids) : convert_drafts(order)

(* The detached convert_drafts: it converts the drafts the group had when  *)
(* it was funded, in the order of a hash set, or panics as a whole, when   *)
(* one of them was converted already or the gas runs out.                  *)
RunConversion(f) ==
  LET ids == fundings[f].draft_indices IN
  /\ fundings[f].status = "converting"
  /\ fundings' = [fundings EXCEPT ![f].status = "accepted"]
  /\ \/ \E order \in Bijection(1..Cardinality(ids), ids) : convert_drafts(order)
     \/ UNCHANGED <<vars, drafts, draft_groups, next_draft_id, next_draft_group_id,
                    draft_operators_whitelist, written, converted>>

-----------------------------------------------------------------------------
Batches == UNION { [1..n -> Draft] : n \in 1..MaxBatch }
SomeIds == { S \in SUBSET { d \in DraftIds : drafts[d] # None } : S # {} }

DraftsNext ==
  \/ Next /\ UNCHANGED draftVars
  \/ \E caller \in Accounts : \/ CreateDraftGroup(caller)
                              \/ \E batch \in Batches : CreateDrafts(caller, batch)
                              \/ \E g \in GroupIds : DiscardDraftGroup(caller, g)
  \/ \E caller \in Accounts, account_ids \in (SUBSET Operators) \ {{}} :
       \/ AddToDraftOperatorsWhitelist(caller, account_ids)
       \/ RemoveFromDraftOperatorsWhitelist(caller, account_ids)
  \/ \E S \in SomeIds : \/ DeleteDrafts(S)
                        \/ \E ids \in Bijection(1..Cardinality(S), S) : ConvertDrafts(ids)
  \/ \E sender_id \in Funders, amount \in FundingAmounts, g \in GroupIds, try_convert \in BOOLEAN :
       FtTransferCall(sender_id, amount, g, try_convert)
  \/ \E f \in 1..Len(fundings) : \/ FtOnTransferFunding(f)
                                 \/ FtOnTransferRefused(f)
                                 \/ FtResolveTransfer(f)
                                 \/ RunConversion(f)

DraftsSpec == DraftsInit /\ [][DraftsNext]_allVars

(* NEAR delivers every receipt of a funding; the receiver's runs whether   *)
(* it then accepts or panics.                                              *)
DraftsFairness ==
  \A f \in 1..MaxFundings :
    /\ WF_allVars(f <= Len(fundings) /\ (FtOnTransferFunding(f) \/ FtOnTransferRefused(f)))
    /\ WF_allVars(f <= Len(fundings) /\ FtResolveTransfer(f))
    /\ WF_allVars(f <= Len(fundings) /\ RunConversion(f))

-----------------------------------------------------------------------------
DraftsTypeOK ==
  /\ TypeOK
  /\ drafts \in [DraftIds -> Draft \cup {None}]
  /\ draft_groups \in [GroupIds -> DraftGroup \cup {None}]
  /\ next_draft_id \in 1..(MaxDrafts + 1)
  /\ next_draft_group_id \in 1..(MaxGroups + 1)
  /\ draft_operators_whitelist \subseteq Accounts
  /\ fundings \in Seq(Funding)
  /\ written \in [DraftIds -> Draft \cup {None}]
  /\ converted \in [DraftIds -> 0..Len(lockups)]

(* The drafts that exist of a group, and the ones ever written for it.     *)
DraftsOf(g) == { d \in DraftIds : drafts[d] # None /\ drafts[d].draft_group_id = g }
WrittenFor(g) == { d \in DraftIds : written[d] # None /\ written[d].draft_group_id = g }

Groups == { g \in GroupIds : draft_groups[g] # None }
Funded == { g \in Groups : draft_groups[g].payer_id # None }

(* The two maps agree, whatever batches created, deleted and converted the *)
(* drafts: a group lists its drafts and adds up their balances, every      *)
(* draft has its group, and a group goes with its last draft.              *)
GroupsAddUp ==
  /\ \A g \in Groups : /\ draft_groups[g].draft_indices = DraftsOf(g)
                       /\ draft_groups[g].total_amount = BalanceOf(DraftsOf(g), drafts)
                       /\ DraftsOf(g) = {} => Open(g)
  /\ \A d \in DraftIds : drafts[d] # None => drafts[d].draft_group_id \in Groups

InFlightDeposit(f) == IF fundings[f].status \in {"sent", "refused"} THEN fundings[f].amount ELSE 0

(* The deposits neither accepted nor taken back, and what was paid for     *)
(* drafts that are not converted.                                          *)
InFlightDeposits == SumTo([f \in 1..Len(fundings) |-> InFlightDeposit(f)], Len(fundings))
Pot == SumTo([g \in GroupIds |-> IF g \in Funded THEN draft_groups[g].total_amount ELSE 0], MaxGroups)

(* The contract holds exactly what its lockups owe, the transfers that     *)
(* have not left, what was paid for drafts that are not converted, and the *)
(* deposits not yet accepted or taken back: no order of fundings,          *)
(* conversions, claims and terminations spends a token twice or strands    *)
(* one.                                                                    *)
TotalConservation ==
  custody = SumTo([i \in Indices |-> Locked(i)], Len(lockups))
              + SumTo([k \in 1..Len(promises) |-> Unsent(k)], Len(promises))
              + Pot + InFlightDeposits

Accepted(g) == { f \in 1..Len(fundings) : /\ fundings[f].draft_group_id = g
                                          /\ fundings[f].status \in {"accepted", "converting"} }

(* A group is funded once, by exactly the balances of all the drafts ever  *)
(* written for it, and none of these is lost: each is still there or has   *)
(* become a lockup (lib.rs:353-467: the amount is compared when the        *)
(* receiver runs, other calls having come in between).                     *)
FundingBuysItsDrafts ==
  \A g \in GroupIds : \A f \in Accepted(g) :
    /\ Accepted(g) = {f}
    /\ fundings[f].amount = BalanceOf(WrittenFor(g), written)
    /\ \A d \in WrittenFor(g) : (converted[d] = 0) <=> (drafts[d] # None)

(* A draft becomes at most one lockup, the one it was written as, with the *)
(* sender of the group's funding as the beneficiary of a termination, also *)
(* when others ask for the conversion and the group is gone by then.       *)
ConvertedAsWritten ==
  /\ \A d \in DraftIds : converted[d] # 0 =>
       \E f \in Accepted(written[d].draft_group_id) :
         indexer[converted[d]].lockup = into_lockup(written[d].lockup_create, fundings[f].sender_id)
  /\ \A d, e \in DraftIds : converted[d] # 0 /\ converted[d] = converted[e] => d = e

(* Every draft can leave: as a lockup once its group is funded, by         *)
(* deletion once it is discarded, and an open group can still be           *)
(* discarded.  No sequence of batches leaves one that only panics.         *)
NoDraftIsStuck ==
  \A d \in DraftIds : drafts[d] # None =>
    \/ (ENABLED ConvertDrafts(<<d>>)) \/ (ENABLED DeleteDrafts({d}))
    \/ \E caller \in Accounts : ENABLED DiscardDraftGroup(caller, drafts[d].draft_group_id)

(* The positions get_draft_groups_paged reads: the end of the range is cut *)
(* to the number of groups ever created, where positions start at 0.       *)
get_draft_groups_paged(from_index, to_index) ==
  LET created == next_draft_group_id - 1
  IN  from_index..((IF created < to_index THEN created ELSE to_index) - 1)

(* tests/draft.rs:54 pages with a `to_index' beyond the number of groups   *)
(* and expects the groups there are (view.rs:102): every position that is  *)
(* read holds a group, or the call panics.                                 *)
PagesAreClamped ==
  \A from_index, to_index \in 0..MaxGroups :
    \A index \in get_draft_groups_paged(from_index, to_index) : index < Cardinality(Groups)

(* Every funding is accepted or its deposit taken back, and a conversion   *)
(* that was asked for has run or failed.                                   *)
EveryFundingSettles ==
  \A f \in 1..MaxFundings :
    (f <= Len(fundings)) ~> (f <= Len(fundings) /\ fundings[f].status \in {"accepted", "returned"})

-----------------------------------------------------------------------------
(* The drafts implement the prepaid notes.                                 *)
Phase(d) ==
  LET g == written[d].draft_group_id IN
  IF drafts[d] = None THEN IF converted[d] # 0 THEN "granted" ELSE "dropped"
  ELSE IF draft_groups[g].discarded THEN "void"
  ELSE IF draft_groups[g].payer_id # None THEN "paid" ELSE "open"

PrepaidNotes == [d \in 1..(next_draft_id - 1) |->
  [bundle |-> written[d].draft_group_id, amount |-> balance_of(written[d]), phase |-> Phase(d)]]

ThePrepaid == INSTANCE Prepaid WITH notes <- PrepaidNotes, pot <- Pot

(* Every step of the contract is a step of the notes, or none: a group is  *)
(* paid for as a whole or voided, and its drafts are granted once.         *)
ImplementsPrepaid == ThePrepaid!Spec

(* The whole contract still implements the escrow: what fundings bring     *)
(* comes into it when the drafts are converted, several grants at once.    *)
WholeEscrow == INSTANCE Escrow WITH
  Owners <- Accounts, Nobody <- None, grants <- EscrowGrants, owed <- EscrowOwed,
  balance <- custody - Pot - InFlightDeposits

(* No conversion, funding or refund moves a token of a lockup that exists, *)
(* and what a conversion opens is backed by what was paid for its drafts.  *)
WholeImplementsEscrow == WholeEscrow!Spec
=============================================================================
