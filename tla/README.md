# hodl-lockup in TLA+

A verification project for the HODL lockup contract (`contract/`, `model/`):
TLA+ modules of what the contract does, TLC runs on small instances, and
theorems with proofs that TLAPS checks. Paths below are relative to the
repository.

## The system

The contract holds tokens of one NEP-141 token contract in *lockups*. A lockup
belongs to an account and unlocks along a schedule of checkpoints. Whitelisted
accounts deposit tokens together with a message that creates a lockup, or fund
groups of prepared *drafts*. Owners claim what is unlocked. A lockup with a
termination configuration can be terminated: what has not vested goes back to
the account that paid.

| component | state it keeps | operations | works with |
|---|---|---|---|
| schedule arithmetic (`model/src/schedule.rs`) | none | validate, compare, unlocked balance, terminate | lockup record |
| lockup record (`model/src/lockup.rs`, `termination.rs`) | owner, schedule, claimed balance, termination configuration | create, claim, terminate | schedules |
| registry (`contract/src/lib.rs`, `internal.rs`) | `lockups`, `account_lockups` | `claim`, `terminate`, add | token contract by promise |
| callbacks (`contract/src/callbacks.rs`) | (arguments carried by the receipt) | `after_ft_transfer`, `after_lockup_termination`, `convert_drafts` | registry, drafts |
| token receiver (`ft_token_receiver.rs`) | none | `ft_on_transfer` | registry, drafts |
| access control | `deposit_whitelist`, `draft_operators_whitelist` | add, remove, assert | all handlers |
| drafts (`model/src/draft.rs`, `lib.rs:353-467`) | `drafts`, `draft_groups`, two counters | create, fund, convert, discard, delete | receiver, registry |
| events (`event.rs`) | none; what an indexer gathers from them | emitted by every handler | indexers |
| views (`view.rs`) | none | read | |
| migration (`migration.rs`, `update.rs`) | none | carry the state over | |
| token contract (not in the repository) | balances | `ft_transfer`, `ft_transfer_call` | receiver, callbacks |

**Execution.** NEAR runs a contract one receipt at a time, and a panic undoes
the receipt's changes. So one handler is one action, and its assertions are
guards. What interleaves is what lies *between* receipts: `claim` and
`terminate` change the state, send an `ft_transfer`, and learn in a callback,
any number of other calls later, whether it worked.

**What is hard**, and what the properties are for:

- two claims of one lockup in flight, one failing and one succeeding;
- a termination between a claim and its refund;
- a termination's return that fails after the schedule was cut;
- a decision (`is_final`) taken before a promise and applied after it;
- rounding: balances down, the instant of a termination up, comparisons of two
  schedules at checkpoints only;
- a vesting schedule that is not known until a termination reveals it;
- a funding that arrives when its group has changed, was funded or discarded;
- a conversion nobody waits for, of drafts that somebody else may convert first;
- batches that touch several groups and panic as a whole;
- drafts that cost nothing until funded, so that their total may overflow;
- events that arrive in another order than the calls, and that leave out what
  an indexer must conclude.

Every hazard is listed at its line in `PROJECT.json`, with the properties that
would show it going wrong.

## Modules

| module | models |
|---|---|
| `Schedule` | `schedule.rs`: the curve, its validation, its termination |
| `Lockup` | the lockup record, what one call computes from it, and `validate_schedule` |
| `Grant` | the life of one lockup: time, claims, terminations; for sets of schedules |
| `Lockups` | the registry, the deposit whitelist, the transfers and their callbacks, the token contract's side |
| `Escrow` | what the contract promises, abstractly: every token of a grant is paid to its owner or owed to its payer, once. `Lockups` implements it, and so does `Drafts` |
| `Drafts` | the whole contract: `Lockups` and the drafts, their groups, fundings, conversions, the draft operators |
| `Prepaid` | what drafts promise, abstractly: a bundle of notes is paid as a whole or voided, a paid note is granted once |
| `Events` | the events of every handler of `Drafts`, what an indexer makes of them, and the views |
| `Sums` | sums over `1..n` |
| `MCGrant`, `MCLockups`, `MCDrafts`, `MCEvents` | bounded instances |
| `SumsProofs`, `ScheduleProofs` | lemmas about sums and schedules, and the arithmetic of a termination |
| `GrantProofs` | the properties of `Grant`, for every lockup the contract accepts |
| `LockupsProofs`, `LedgerProofs`, `EscrowProofs` | types and claims of the registry; its tokens, events and index; that it implements `Escrow` |
| `DraftsProofs` | drafts, groups and fundings; the tokens of the whole contract |
| `WholeProofs` | that the whole contract implements `Prepaid` and `Escrow`; that its events tell what the views answer |

### How the model corresponds to the code

- `Lockups` keeps `lockups` and `account_lockups` of the `Contract` struct;
  index `i` of the code is `i + 1`. An absent key of `account_lockups` is the
  empty set (`internal_save_account_lockups` removes it).
- `promises` holds every transfer started, with the arguments of its callback.
  `status` says how far it is: `pending`, executed by the token contract
  (`transferred` or `failed`), `settled` once the callback ran.
- `custody` is the contract's balance in the token contract. `indexer` is a
  history variable: what the emitted events say of each lockup.
- `claim(amounts)` is `Claim` with a function from the named indices to an
  amount or `None`. `claim(None)` is the function that maps every listed index
  to `None`. Lockups in a claim are visited in the order of a hash map in the
  code; the order cannot matter, because each is charged by itself and a panic
  undoes all.
- `ft_on_transfer` and the deposit it comes with are one action: when the
  receiver panics the token contract gives the deposit back.
- A schedule's hash is its preimage. The balances of a lockup need no width:
  each stays within a checkpoint's balance, and the code multiplies in `U256`.
  A subtraction that would go below zero is a guard: the contract is built with
  `overflow-checks = true` (`.cargo/config.toml`) and panics. The total of a
  draft group does have a width, `MaxAmount`: it wraps beyond it, as `+=` would
  without checks, and `checked_add` is the guard that prevents it.
- `Escrow` sees the contract through `EscrowGrants` and `EscrowOwed`. A claim
  counts as paid when the token contract executes its transfer; a return is
  owed from the call of `terminate` until the transfer is executed or the
  callback turns it into a lockup.
- `Drafts` extends `Lockups`; a step of `DraftsSpec` is one of the registry that
  leaves the drafts alone, or one of a draft handler. Ids start at 1; an absent
  key of `drafts` or `draft_groups` is `None`. `create_draft` and
  `convert_draft` are batches of one.
- The two loops that remove drafts (`delete_drafts`, `convert_drafts`) share
  `RemoveDrafts`. The cached groups and the write-back at the end of a batch
  come to adding up per group.
- A funding takes up to four steps: `FtTransferCall` (the token contract moves
  the deposit), `FtOnTransferFunding` or `FtOnTransferRefused` (the receiver
  accepts or panics), `FtResolveTransfer` (a refused deposit is taken back),
  `RunConversion` (the detached promise). Gas is not modelled: whether the
  conversion is asked for, and whether it completes, is a free choice, so the
  model has both outcomes wherever the code may have either.
- `written` and `converted` are history variables: the drafts the creation
  events announce, and the lockup each conversion event names for a draft.
- `Prepaid` sees a draft through `Phase`; its `pot` is the total of the funded
  groups.
- `WholeImplementsEscrow` sees the same grants in the whole contract. The escrow
  then holds `custody` less the deposits that are not accepted yet and less the
  pot of the funded groups; a conversion opens all its lockups in one step, out
  of what leaves the pot.
- `Events` conjoins each handler with the events it emits; the handlers that
  emit none are `Silent` and `SilentFunding`. `mirror` is a history variable:
  what an indexer has gathered that sees the events and nothing else. The
  constructors have the names and fields of the structs in `event.rs`. No event
  tells that a group was removed, who paid for it, that a claim started or that
  it failed; the indexer has to conclude the first and does not need the others,
  as it can see the transfers in flight at the token contract. `mirror` adds no
  states: it is a function of the others.
- Definitions whose comment says *Mutant* are no part of the model: each is a
  plausible mistake in the definition that follows, kept to show that a run's
  property notices it.

## Runs

| run | question | states |
|---|---|---|
| `grant` | Is the unlocked balance the rounded-down line? Is a terminated schedule well formed, ending at what was vested, never ahead of the granted one, at most a second behind, never ending later, and does it cover what was unlocked? Can a hashed schedule that `validate_schedule` accepts be revealed? | 78 000 |
| `lockups` | With two overlapping claims of an account, terminations and failing transfers: are tokens conserved, do the events agree with the state, is nothing overpaid, claimed early, or wrongly listed, and a lockup that claims have paid out unlisted? Does that implement `Escrow`? Does every transfer settle? | 47 000 |
| `lockups_vesting` | With every kind of vesting, some behind a hash, one refused when revealed, one accepted although it is behind: are tokens conserved, and claimed ones kept but for one? With one claim in flight at a time, does a lockup with tokens left stay claimable? | 198 000 |
| `drafts` | With batches across two groups in every order with funding and discarding, and totals that reach the width: do the maps agree, can every draft leave, do the events tell what the views answer, and does that implement `Prepaid`? | 86 000 |
| `fundings` | With two fundings of a group in flight and whitelists that change: are tokens conserved, does one funding buy exactly the drafts, does each become the lockup it was written as, do the events tell which groups are paid for and who is listed, does every funding settle, and is a conversion of several drafts at once a step of `Escrow`? | 112 000 |
| `whole_contract` | With deposits, drafts, claims, terminations and failed transfers over one registry: are tokens conserved, can an indexer answer as the views do, and does the whole implement `Escrow`? | 201 000 |

Six more runs end in a counterexample and are *findings*: the code does not do
what its documentation, comments or tests say.

| run | what it shows |
|---|---|
| `stale_final` | Claim 1 of 2, claim the other 1 while the first transfer is in flight (final), the first fails and is refunded, the second succeeds: the lockup holds 1 token and is not listed, so `claim` no longer reaches it (`callbacks.rs:39`). |
| `grant_rounding` | An accepted vesting schedule can be a token behind the lockup schedule between checkpoints (`schedule.rs:82`): a termination can then return a token that was already claimed, and the contract owes more than it has. |
| `grant_claim_all` | A termination in the future rounds its end up (`schedule.rs:158`); until the next second what was claimed may exceed what is unlocked, and `claim(None)`, for all lockups of the account, panics on the subtraction (`lib.rs:184`). |
| `terminator` | Any whitelisted account terminates, not a specific one (`lib.rs:238`). |
| `lingering` | A lockup terminated at what was already claimed stays listed for ever (`lib.rs:250`). |
| `pages` | After a group was discarded, `get_draft_groups_paged` with an end beyond the groups that are left reads a position that is not there and panics (`view.rs:102`); it cuts the range by the groups ever created. |

### Bounds, and why they are enough

- `grant`: all schedules of 2 or 3 checkpoints at instants {0, 1, 4} (vesting
  {0, 1, 3}) with balances 0..6, so that slopes divide and do not divide, are
  flat, and are steeper than a token a second; the clock goes to 6. Messages of
  the hashed kind include schedules that a reveal refuses. Lockups whose
  vesting the code accepts although it falls behind are left to
  `grant_rounding`, where they are all present.
- `lockups*`: two lockups (or one and a refund lockup), three transfers, two in
  flight for one account; schedules whose tokens unlock one by one, so that a
  claim may be partial or final. `lockups_vesting` has a message for which
  `CheckDecidesRightly` is false (`Rounded`), so that a termination does take a
  claimed token, and schedules that a refusal must keep from taking two.
  `MaxLockups` reserves a place for every refund
  lockup that a running termination may create, and `Room` is the guard for
  that; no callback is stopped by a bound.
- `drafts`: two groups, three drafts of two balances, batches of up to two to
  create and of any size to delete or convert, one funding. Two groups are what
  a batch needs to touch one that allows it and one that does not; balances
  differ so that a total tells drafts apart, and `MaxAmount` is 4, which three
  drafts of 2 exceed: without the check their total would wrap. No account is short of room:
  `MaxLockups` is `MaxDrafts` and nothing else creates lockups.
- `fundings`: one group, two drafts, two fundings with or without conversion,
  amounts that match one draft or both. Two is the least for a race; the second
  may come before, between and after every step of the first. Both accounts may
  be added to and removed from both whitelists.
- `whole_contract`: three lockups, of which one may come from a draft, and two
  transfers. Fundings come from the whitelisted account (`Funders`); `fundings`
  has those of others. A second draft would add nothing that `drafts` (batches) and
  `fundings` (batches that convert into grants of `Escrow`) do not have.
- No run checks for deadlock: with the clock and the number of transfers
  bounded, the model stops where the system would go on.

### Fairness

`FairSpec` is weakly fair to the execution of a transfer and to each callback,
because NEAR delivers every receipt. It is not fair to accounts, who need not
call, nor to the clock. A callback that would panic is disabled in the model;
so `EveryTransferSettles` says that none panics for ever.

`DraftsFairness`, of `EventsFairSpec`, is weakly fair to each receipt of a funding: to the receiver,
*whether it accepts or panics* (a whitelist that changes back and forth makes
neither outcome continuously possible, but the receipt runs all the same), to
the refund, and to the conversion, which may fail. It is not fair to anybody
who might convert, discard or delete drafts.

## Theorems

Each holds for every set of accounts, messages and schedules and for every
bound; those marked \* where the vesting schedules in the messages that the
contract accepts are ahead (`ChecksDecideRightly`, see *Assumptions*). Where a property of a run is stated, the theorem has the run's
definition on its right-hand side.

| theorem | says |
|---|---|
| `TerminateNeverAhead`, `TerminateOneSecondLate`, `VestingAlmostAhead` | of all schedules: a cut brings nothing forward and delays by less than two seconds; an accepted vesting schedule is behind the lockup schedule by one token at most |
| `RecordTypeCorrect`, `UnlockedIsLinear`, `TerminatedReadable`, `NeverAhead`, `LagsOneSecond`, `ValidatedReveals`, `EndsNoLater` | the properties of run `grant`, of every lockup the contract accepts |
| `KeepsUnlocked`, `ClaimedUnlocks` | the other two of run `grant`, where the vesting schedule is ahead (`VestingIsAhead`) |
| `KeepsAllButOne`, `ClaimedUnlocksButOne` | without that: a termination takes one unlocked token at most |
| `TypeCorrect`, `ClaimsNotEarly`, `ClaimsCoveredButOne` | `TypeOK`, `NothingClaimedEarly`, `ClaimedWithinTotalButOne` |
| `ClaimsCovered` \* | `ClaimedWithinTotal` |
| `TokensConserved`, `EventsAgree` | `Conservation`, `IndexerAgrees` |
| `ListedOwn`, `ListedSound` \* | the index lists only lockups of the account, and no empty one but for a terminated one; `ListedAreOwnAndNotEmpty` |
| `NoRefundStuck`, `NoTransferStuck` \* | taking a failed claim back never underflows; and a transfer that has not left is covered |
| `PaidOutUnlisted` | `PaidOutIsUnlisted`: only a termination leaves a paid out lockup listed, as in `lingering` |
| `OnlyStaleRefundsUnlist` | `UnclaimedIsListed`, unless a claim fails while a final one of the same lockup is in flight, as in `stale_final` |
| `LeftoversListed` | `UnclaimedIsListed`, when an account has one claim in flight at a time |
| `EscrowImplemented` \* | `Lockups` implements `Escrow` |
| `DraftsTyped`, `GroupsAgree`, `FundedOnceInFull`, `ConvertedOnceAsWritten` | `DraftsTypeOK`, `GroupsAddUp`, `FundingBuysItsDrafts`, `ConvertedAsWritten` |
| `WholeConserved` \* | `TotalConservation` |
| `RegistryKept`, `RegistryCovered` \* | the registry keeps its invariants next to the drafts |
| `NoDraftTrapped` | every draft can leave |
| `PaidOutUnlistedWhole`, `OnlyStaleRefundsUnlistWhole` | `PaidOutIsUnlisted` and what `OnlyStaleRefundsUnlist` says, of the whole contract |
| `EventsAreOfDrafts` | `EventsSpec`, which the runs check, implements `DraftsSpec`, which the theorems above and the next one are about |
| `PrepaidImplemented`, `WholeEscrowImplemented` \* | the whole contract implements `Prepaid`, and `Escrow` |
| `EventsTellTheViews` | `MirrorAgrees` |

### Schedules and one lockup

A termination cuts a schedule in one segment. The segment keeps its start and,
because the instant of the cut rounds up, becomes no steeper (`CutDuration`,
`CutNotSteeper`); before it nothing changes, and after it the cut schedule is at
a total the other has already reached (`TerminateNeverAhead`). Rounding up adds
less than a second, and the balance at the cut is rounded down by less than a
token; together they bound the delay (`TerminateOneSecondLate`).

`IInv` of `GrantProofs` says that the record is as it was granted until it is
terminated (`Untouched`), so that what the code checked at creation still
counts then, and the schedule ends at what the *granted* vesting schedule had
released (`TerminatedReadable`); the two properties about claims need also that no more was claimed
than is unlocked a second later, up to the tokens that the vesting schedule may
be behind (`ClaimedWithin`, `VestingBehindBy`). The code
compares a vesting schedule with the lockup schedule at their checkpoints and
in rounded balances only. `KeepsUnlocked` and `ClaimedUnlocks` therefore have
`VestingIsAhead` as a hypothesis, which some messages meet and others do not:
without it both are false, the finding `grant_rounding`. What holds of *every*
lockup is proved beside them: the rounding costs one token at most.

### The registry

`ClaimedWithinTotal` and `NothingClaimedEarly` are not inductive: whether a
termination leaves enough to cover the claims depends on claims never exceeding
what *its vesting schedule* has released. `IInv` says of each lockup
(`SoundLockup`) that its schedule is well formed and nowhere ahead of the one it
was created with, and, *while it can still be terminated*, that no more was
claimed than its schedule has unlocked now and that its vesting schedule is a
checked one. A termination is dated now or later, so where the vesting schedule
is ahead (`ChecksDecideRightly`) what it leaves covers the claims; where it is
not, it leaves one token less at most (`VestingAlmostAhead`). It takes the
configuration away, so it happens once, and there is no second token to take
(`ClaimsCoveredButOne`). After such a termination `ClaimedWithinTotal` is false,
and the contract owes a token more than it has. The proof has one lemma per operation on a record
(`SoundClaim`, `SoundRefund`, `SoundTerminate`, `SoundCreate`,
`SoundRefundLockup`, `SoundLater`) and one per action.

Conservation needs to know what the transfers in flight are about. `Ledger`
says, per lockup, that what is claimed in the record is what the events
announced and what is in flight, and that the total is what was created less
what was returned; per account, that the index lists its own (`ListedRightly`). None of
this needs the hypothesis, so a refund never underflows whatever schedules were
accepted (`NoRefundStuck`). A lockup that a wrong comparison let a termination
empty under a claim in flight may be listed again when that claim fails, which
is why `ListedRightly` leaves out the terminated ones where the hypothesis does
not hold. With `IInv` and
`custody = Booked`, where `Booked` is what lockups owe and transfers have not
taken out, it is inductive (`Books`): a claim moves tokens from the first sum to
the second, a failed one moves them back, a termination moves what is unvested,
a refund lockup brings it back. That each sum moves by the amount of the call
rests on `SumsProofs`.

`UnclaimedIsListed` is false in general (`stale_final`). `Listing` says that a
lockup that is not listed is spent, and that a claim in flight marked final has
spent its lockup. One step breaks it: a refund of a lockup that another claim in
flight will unlist. `OnlyStaleRefundsUnlist` has as its hypothesis that no step
is one (`NoStaleRefund`), and nothing else: what the finding shows is all that
can go wrong. When an account has one claim in flight there is no such step, so
`LeftoversListed` follows from `MaxOpenClaims <= 1`, the bound of the run that
checks the property.

`PaidOutIsUnlisted` is the other direction and needs no hypothesis on the calls.
`Outgoing` says that a lockup that is spent, listed and not terminated has a claim in
flight that was found final. The claim that takes the last tokens is one. A
refund of another claim leaves the lockup with tokens; a success of another
leaves the final one in flight; and when the final one fails it gives its tokens back.
That the claim in flight is gone when nothing is in flight rests on `Ledger`.
A termination can leave a lockup spent without a final claim, which is the
finding `lingering`.

`EscrowImplemented` maps each action, under `Books`, to a step of `Escrow`: a
deposit and a refund lockup to `Open` and `Regrant`, a transfer that succeeds
to `Pay` or `PayBack`, a termination with something unvested to `Return`, and
everything else to no step. A claim is paid when its transfer is executed, so
the claims in flight do not appear in the grants; that `Pay` pays only what the
grant holds is `ClaimedWithinTotal`; the theorem has its hypothesis, as the
contract that pays a token it took back breaks the escrow's promise.

### Drafts

`DraftsInv` is `DraftsTypeOK`, `GroupsAddUp`, `FundingBuysItsDrafts` and
`ConvertedAsWritten` with two parts that tie the history together. `History`:
ids below the counters were written and those above were not, a draft that is
there is the one that was written, and passed the checks of its creation.
`Financed`: an open group has all the drafts that were written for it, a group
without a payer has no accepted funding, one with a payer has an accepted
funding by that payer and is not discarded, and funded groups have ids below the
counter. Without them nothing would keep a group that was funded and went with
its last draft from being funded again, or a funding from paying for fewer
drafts than were written.

`WholeBooks` is `DraftsInv`, `IInv`, `Ledger` and, under `ChecksDecideRightly`,
`custody = Whole` (`WholeHeld`), where
`Whole` is `Booked`, the pot of the funded groups and the deposits in flight. A
funding that is accepted moves its amount from the deposits to the pot, because
it is exactly the group's total; a conversion moves the worth of its drafts from
the pot to the lockups, however many groups it touches (`PotConverted`,
`LotWorth`); and a refused deposit is still there when it is taken back. This last step is
what needs the hypothesis: the token contract takes back what it finds, and
finds less where a termination has taken a claimed token. From `WholeBooks`
come `WholeConserved`, `RegistryKept` and `RegistryCovered`. A step of the whole is one of the
registry, one that leaves it alone, or one that adds the lot of a conversion
(`RegistrySteps`), whose lockups are listed and have tokens (`LotListed`). So `Outgoing` and
`Listing` are kept as well: `PaidOutUnlistedWhole`,
`OnlyStaleRefundsUnlistWhole`.

`NoDraftIsStuck` is stated with `ENABLED`, which TLAPS cannot reason about.
`NoDraftTrapped` proves what it rests on: each draft's group is open, funded or
discarded, and taking drafts out of it passes every checked subtraction.

### The whole contract

Both refinements go step by step. `PrepaidImplemented` needs of the history only
that every id below the counter was written (`AllWritten`): a note's phase then
follows from the two maps. Creating, deleting, funding, discarding and
converting are one step of `Prepaid` each, whatever the batch; everything else
is none. The hard ones take notes out of several bundles at once
(`NotesLeave`, under `NotesDropped` and `NotesGranted`): the pot must fall by exactly the notes that were
granted, also when the group goes with its last note.

`WholeEscrowImplemented` takes over the steps of the registry from
`EscrowProofs`. What the escrow holds is `Backing`, the balance less the pot and
the deposits in flight; `WholeBooks` makes it equal to `Booked`. A funding that
is accepted, refused or returned moves tokens between the parts that are
subtracted and so is no step of the escrow, and a conversion opens the grants of
its lot out of what leaves the pot (`EscrowConverted`).

`MirrorAgrees` is not inductive: it says what the indexer answers and not what
it must have kept. A claim event adds to what was announced before, and not to
the claimed balance, which has the claims in flight in it; a termination is
announced by what it returns and not by what is left; and an indexer must still
know of a group that is gone that it was funded or discarded, since only so it
can tell it from an open group without drafts. `MirrorInv` says what is known of
each lockup (`Knows`), draft and group (`KnowsGroup`), in the terms of what was
announced. With `WholeBooks` it is inductive (`MirrorNext`) and gives the answers
(`MirrorAnswers`): `Ledger` turns what was announced and what is in flight into
the claimed balance, and `GroupsAddUp` makes a group without drafts one that is
gone unless it is open.

### Assumptions

The constants have their types; `None` is no account, schedule, draft, group or event record (`NoneIsNoEvent`);
time is a natural number; the messages are `LockupCreate` records
(`LockupCreatesAssumption`).

`ChecksDecideRightly` is no assumption but the hypothesis of the theorems marked
\*: that the vesting schedules in the messages are ones that the code's
comparison decides rightly. Many sets of messages meet it (those without
vesting, with the lockup schedule itself, or whose schedules are ahead at every
instant or are refused), others do not. Without it `ClaimedWithinTotal`,
`ListedAreOwnAndNotEmpty`, `TotalConservation` and both refinements of `Escrow`
are false, which is the finding `grant_rounding`. What is left without it is
proved beside them: one token at most, once per lockup
(`ClaimsCoveredButOne`); the index lists own lockups (`ListedOwn`); refunds do
not panic (`NoRefundStuck`). All other theorems do without it.

### Only model-checked

- Liveness: `EveryTransferSettles` and `EveryFundingSettles`. TLAPS has no
  proof rules for fairness that are within its reach here.
- `NoDraftIsStuck` as it is stated, because of `ENABLED`.

Every other property of a passing run is stated by a theorem.

## Not modelled

- Views beyond those in `Events`: the batch and paged forms of the lookups,
  counters, and `hash_schedule`. Of the paging of groups, the range is modelled,
  not the order of the map. `unclaimed_balance` of `LockupView` is covered by `Grant`.
- `FtLockupNew` and `FtLockupUpdateContract`, which tell nothing that changes;
  the JSON text of events, and the unit tests of that text, which are most of
  the lines of `event.rs`.
- The end of a schedule that was cut: the termination event does not tell it,
  so an indexer knows only a bound, and `MirrorAgrees` asks for no more.
- Migration and self update: the state is read and written back unchanged, and
  replacing the code is the host's.
- Gas, beyond that a conversion may not be asked for or may fail; storage
  deposits, the one-yocto assertions (they change no state), Borsh formats,
  memo texts. That the fixed gas of `after_ft_transfer` suffices for every claim
  is assumed.
- The integration scripts and the test harness: no logic of the contract.

## Plan

1. `Schedule`, `Lockup`, `Grant`, `Lockups`, `Escrow` and their runs: done.
   Types, the bounds on claims and `NothingClaimedEarly`: proved.
2. `Drafts`, `Prepaid`, `Events` and their runs, over the one registry: done.
3. Proofs about `Grant`, `Lockups` (its tokens, events and index, and
   `Escrow`), `Drafts` (its invariants, and the tokens of the whole) and
   `Events`: done, with both refinements of the whole contract.
4. Left: the long proofs of `WholeProofs` about one batch (`EscrowConverted`,
   `ConversionMirrored`) could share more lemmas.
