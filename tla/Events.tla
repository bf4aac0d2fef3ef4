------------------------------- MODULE Events -------------------------------
(***************************************************************************)
(* The events of contract/src/event.rs, each emitted by its handler, and   *)
(* the views of contract/src/view.rs.  An indexer sees the events alone    *)
(* and keeps a mirror of the contract.  No event says that a group was     *)
(* removed, who paid for it, or that a claim has started or failed.        *)
(***************************************************************************)
EXTENDS Drafts

VARIABLE mirror  \* what the indexer has gathered from the events (history)

eventVars == <<allVars, mirror>>

start(s) == s[1].timestamp
finish(s) == s[Len(s)].timestamp

(* The events that create something, and what an indexer keeps of a lockup *)
(* and of a draft group.                                                   *)
CreateLockupEvent == [id : 1..MaxLockups, account_id : Accounts, balance : Nat, start : Nat,
                      finish : Nat, terminatable : BOOLEAN, draft_id : DraftIds \cup {None}]

CreateDraftEvent == [id : DraftIds, draft_group_id : GroupIds, account_id : Accounts,
                     balance : Nat, start : Nat, finish : Nat, terminatable : BOOLEAN]

KnownLockup == [created : CreateLockupEvent, claimed : Nat, unvested : Nat, terminated : BOOLEAN]

KnownGroup == [amount : Nat, discarded : BOOLEAN]

ASSUME NoneIsNoEvent == /\ None \notin CreateDraftEvent
                        /\ None \notin KnownLockup
                        /\ None \notin KnownGroup

FtLockupCreateLockup(id, lockup, draft_id) ==
  [id |-> id, account_id |-> lockup.account_id, balance |-> total_balance(lockup.schedule),
   start |-> start(lockup.schedule), finish |-> finish(lockup.schedule),
   terminatable |-> lockup.termination_config # None, draft_id |-> draft_id]

FtLockupCreateDraft(id, draft) ==
  LET c == draft.lockup_create IN
  [id |-> id, draft_group_id |-> draft.draft_group_id, account_id |-> c.account_id,
   balance |-> total_balance(c.schedule), start |-> start(c.schedule),
   finish |-> finish(c.schedule), terminatable |-> c.vesting_schedule # None]

FtLockupClaimLockup(id, amount) == [id |-> id, amount |-> amount]

FtLockupTerminateLockup(id, termination_timestamp, unvested) ==
  [id |-> id, termination_timestamp |-> termination_timestamp, unvested_balance |-> unvested]

-----------------------------------------------------------------------------
(* The events of one call, which have an `id' each.                        *)
ById(events) == [id \in { e.id : e \in events } |-> CHOOSE e \in events : e.id = id]

(* What the indexer knows, with something new of some ids.                 *)
Noting(known, new) == [id \in DOMAIN known |-> IF id \in DOMAIN new THEN new[id] ELSE known[id]]

(* A draft is gone once a lockup names it.                                 *)
SeesCreateLockup(events) ==
  LET created == ById(events)
      named == { e.draft_id : e \in events }
  IN
  mirror' = [mirror EXCEPT
    !.lockups = Noting(@, [id \in DOMAIN created |->
      [created |-> created[id], claimed |-> 0, unvested |-> 0, terminated |-> FALSE]]),
    !.drafts = [d \in DraftIds |-> IF d \in named THEN None ELSE @[d]]]

SeesClaimLockup(events) ==
  LET claims == ById(events)
      paid(id) == [mirror.lockups[id] EXCEPT !.claimed = @ + claims[id].amount]
  IN  mirror' = [mirror EXCEPT !.lockups = Noting(@, [id \in DOMAIN claims |-> paid(id)])]

(* The event does not tell the new end of the schedule.                    *)
SeesTerminateLockup(event) ==
  mirror' = [mirror EXCEPT !.lockups[event.id].terminated = TRUE,
                           !.lockups[event.id].unvested = event.unvested_balance]

SeesCreateDraft(events) == mirror' = [mirror EXCEPT !.drafts = Noting(@, ById(events))]

SeesDeleteDraft(ids) ==
  mirror' = [mirror EXCEPT !.drafts = [d \in DraftIds |-> IF d \in ids THEN None ELSE @[d]]]

SeesCreateDraftGroup(id) ==
  mirror' = [mirror EXCEPT !.draft_groups[id] = [amount |-> 0, discarded |-> FALSE]]

SeesFundDraftGroup(id, amount) == mirror' = [mirror EXCEPT !.draft_groups[id].amount = amount]

SeesDiscardDraftGroup(id) == mirror' = [mirror EXCEPT !.draft_groups[id].discarded = TRUE]

SeesDepositWhitelist(accounts) == mirror' = [mirror EXCEPT !.deposit_whitelist = accounts]

SeesDraftOperatorsWhitelist(accounts) ==
  mirror' = [mirror EXCEPT !.draft_operators_whitelist = accounts]

-----------------------------------------------------------------------------
(* `new' announces both whitelists.                                        *)
EventsInit == /\ DraftsInit
              /\ mirror = [lockups |-> [i \in 1..MaxLockups |-> None],
                           drafts |-> [d \in DraftIds |-> None],
                           draft_groups |-> [g \in GroupIds |-> None],
                           deposit_whitelist |-> InitialWhitelist,
                           draft_operators_whitelist |-> InitialDraftOperators]

(* ft_on_transfer: a lockup from a deposit has no draft.                   *)
EmitsLockup(sender_id, amount, c) ==
  /\ FtOnTransfer(sender_id, amount, c)
  /\ SeesCreateLockup({FtLockupCreateLockup(Len(lockups) + 1, into_lockup(c, sender_id), None)})

(* after_ft_transfer: the claims are announced when they are paid.         *)
EmitsClaim(k) ==
  LET claims == promises[k].claims IN
  /\ AfterFtTransferOk(k)
  /\ SeesClaimLockup({ FtLockupClaimLockup(i, claims[i].claim_amount) :
                         i \in { j \in Indices : claims[j].claim_amount > 0 } })

(* Mutant: a termination is announced only when something is unvested.     *)
AnnouncesUnvested(caller, i, hashed_schedule, t) ==
  /\ Terminate(caller, i, hashed_schedule, t)
  /\ IF unvested_balance(lockups[i], t) > 0
     THEN SeesTerminateLockup(FtLockupTerminateLockup(i, t, unvested_balance(lockups[i], t)))
     ELSE UNCHANGED mirror

(* terminate: announced whether or not anything is unvested.               *)
EmitsTerminate(caller, i, hashed_schedule, t) ==
  /\ Terminate(caller, i, hashed_schedule, t)
  /\ SeesTerminateLockup(FtLockupTerminateLockup(i, t, unvested_balance(lockups[i], t)))

(* after_lockup_termination: a failed return announces the refund lockup.  *)
EmitsRefundLockup(k) ==
  LET lockup == new_lockup_unlocked_since(promises[k].account_id, promises[k].amount, now) IN
  /\ AfterLockupTermination(k)
  /\ IF promises[k].status = "failed"
     THEN SeesCreateLockup({FtLockupCreateLockup(Len(lockups) + 1, lockup, None)})
     ELSE UNCHANGED mirror

EmitsDrafts(caller, batch) ==
  /\ CreateDrafts(caller, batch)
  /\ SeesCreateDraft({ FtLockupCreateDraft(next_draft_id + k - 1, batch[k]) : k \in 1..Len(batch) })

(* Mutant: the lockups of a conversion do not name their drafts.           *)
ConversionUnnamed ==
  LET ids == { d \in DraftIds : converted'[d] # converted[d] }
  IN  { FtLockupCreateLockup(converted'[d], lockup_of(drafts[d]), None) : d \in ids }

(* convert_drafts: each new lockup names the draft it was; when it panics  *)
(* nothing is announced.                                                   *)
ConversionEvents ==
  LET ids == { d \in DraftIds : converted'[d] # converted[d] }
  IN  { FtLockupCreateLockup(converted'[d], lockup_of(drafts[d]), d) : d \in ids }

(* Mutant: a funding that asks for the conversion announces that alone.    *)
AnnouncesUnconverted(f) ==
  /\ FtOnTransferFunding(f)
  /\ IF fundings'[f].status = "converting" THEN UNCHANGED mirror
     ELSE SeesFundDraftGroup(fundings[f].draft_group_id, fundings[f].amount)

(* ft_on_transfer: a funding is announced, before its drafts convert.      *)
EmitsFunding(f) == /\ FtOnTransferFunding(f)
                   /\ SeesFundDraftGroup(fundings[f].draft_group_id, fundings[f].amount)

(* The steps that emit nothing: a claim's start and its refund, and the    *)
(* steps of the token contract and of the clock.                           *)
Silent ==
  \/ Tick
  \/ \E a \in Accounts : \E amounts \in AmountRequests(a) : Claim(a, amounts)
  \/ \E k \in 1..Len(promises) : FtTransfer(k) \/ AfterFtTransferFailed(k)

SilentFunding ==
  \/ \E sender_id \in Funders, amount \in FundingAmounts, g \in GroupIds, try_convert \in BOOLEAN :
       FtTransferCall(sender_id, amount, g, try_convert)
  \/ \E f \in 1..Len(fundings) : FtOnTransferRefused(f) \/ FtResolveTransfer(f)

LockupEvents ==
  \/ \E sender_id \in Accounts, amount \in Deposits, c \in LockupCreates :
       EmitsLockup(sender_id, amount, c)
  \/ \E k \in 1..Len(promises) : EmitsClaim(k) \/ EmitsRefundLockup(k)
  \/ \E caller \in Accounts, i \in Indices, hashed_schedule \in RevealedSchedules, t \in 1..MaxTime :
       EmitsTerminate(caller, i, hashed_schedule, t)
  \/ \E caller \in Accounts, account_ids \in (SUBSET Operators) \ {{}} :
       \/ /\ AddToDepositWhitelist(caller, account_ids)
          /\ SeesDepositWhitelist(mirror.deposit_whitelist \cup account_ids)
       \/ /\ RemoveFromDepositWhitelist(caller, account_ids)
          /\ SeesDepositWhitelist(mirror.deposit_whitelist \ account_ids)

DraftEvents ==
  \/ \E caller \in Accounts :
       \/ CreateDraftGroup(caller) /\ SeesCreateDraftGroup(next_draft_group_id)
       \/ \E batch \in Batches : EmitsDrafts(caller, batch)
       \/ \E g \in GroupIds : DiscardDraftGroup(caller, g) /\ SeesDiscardDraftGroup(g)
  \/ \E caller \in Accounts, account_ids \in (SUBSET Operators) \ {{}} :
       \/ /\ AddToDraftOperatorsWhitelist(caller, account_ids)
          /\ SeesDraftOperatorsWhitelist(mirror.draft_operators_whitelist \cup account_ids)
       \/ /\ RemoveFromDraftOperatorsWhitelist(caller, account_ids)
          /\ SeesDraftOperatorsWhitelist(mirror.draft_operators_whitelist \ account_ids)
  \/ \E S \in SomeIds :
       \/ DeleteDrafts(S) /\ SeesDeleteDraft(S)
       \/ \E ids \in Bijection(1..Cardinality(S), S) :
            ConvertDrafts(ids) /\ SeesCreateLockup(ConversionEvents)
  \/ \E f \in 1..Len(fundings) :
       \/ EmitsFunding(f)
       \/ RunConversion(f) /\ SeesCreateLockup(ConversionEvents)

EventsNext == \/ Silent /\ UNCHANGED <<draftVars, mirror>>
              \/ SilentFunding /\ UNCHANGED mirror
              \/ LockupEvents /\ UNCHANGED draftVars
              \/ DraftEvents

EventsSpec == EventsInit /\ [][EventsNext]_eventVars

EventsFairSpec == EventsSpec /\ DraftsFairness

-----------------------------------------------------------------------------
(* The views, without the fields no event speaks of.                       *)
get_lockup(i) ==
  IF i \notin Indices THEN None
  ELSE [account_id |-> lockups[i].account_id, claimed_balance |-> lockups[i].claimed_balance,
        total_balance |-> total_balance(lockups[i].schedule),
        terminatable |-> lockups[i].termination_config # None,
        start |-> start(lockups[i].schedule)]

get_draft_group(g) ==
  IF draft_groups[g] = None THEN None
  ELSE [total_amount |-> draft_groups[g].total_amount,
        draft_indices |-> draft_groups[g].draft_indices,
        discarded |-> draft_groups[g].discarded,
        funded |-> draft_groups[g].payer_id # None]

get_draft(d) ==
  IF drafts[d] = None THEN None
  ELSE LET c == drafts[d].lockup_create IN
       [id |-> d, draft_group_id |-> drafts[d].draft_group_id, account_id |-> c.account_id,
        balance |-> balance_of(drafts[d]), terminatable |-> c.vesting_schedule # None,
        start |-> start(c.schedule), finish |-> finish(c.schedule)]

(* The same, as the indexer answers.  It counts the transfers in flight,   *)
(* which the token contract shows, as claimed.                             *)
mirrored_lockup(i) ==
  LET known == mirror.lockups[i] IN
  IF known = None THEN None
  ELSE [account_id |-> known.created.account_id, claimed_balance |-> known.claimed + InFlight(i),
        total_balance |-> known.created.balance - known.unvested,
        terminatable |-> known.created.terminatable /\ ~known.terminated,
        start |-> known.created.start]

mirrored_drafts(g) ==
  { d \in DraftIds : mirror.drafts[d] # None /\ mirror.drafts[d].draft_group_id = g }

(* A group without drafts is still there only if it is open.               *)
mirrored_draft_group(g) ==
  LET known == mirror.draft_groups[g]
      ids == mirrored_drafts(g)
  IN
  IF known = None \/ (ids = {} /\ (known.discarded \/ known.amount > 0)) THEN None
  ELSE [total_amount |-> SumTo([d \in DraftIds |-> IF d \in ids THEN mirror.drafts[d].balance ELSE 0],
                               MaxDrafts),
        draft_indices |-> ids, discarded |-> known.discarded, funded |-> known.amount > 0]

(* The events tell all that the views answer, in whatever order batches,   *)
(* fundings, conversions, claims, terminations and their callbacks happen: *)
(* also that a group is gone, which no event says (event.rs:139-161).      *)
(* Only of the end of a schedule that was cut they tell no more than the   *)
(* end it had.                                                             *)
MirrorAgrees ==
  /\ \A i \in 1..MaxLockups : mirrored_lockup(i) = get_lockup(i)
  /\ \A i \in Indices :
       LET known == mirror.lockups[i] IN
       /\ finish(lockups[i].schedule) <= known.created.finish
       /\ known.unvested = 0 => finish(lockups[i].schedule) = known.created.finish
  /\ \A g \in GroupIds : mirrored_draft_group(g) = get_draft_group(g)
  /\ \A d \in DraftIds : mirror.drafts[d] = get_draft(d)
  /\ mirror.deposit_whitelist = deposit_whitelist
  /\ mirror.draft_operators_whitelist = draft_operators_whitelist
=============================================================================
