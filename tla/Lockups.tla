------------------------------ MODULE Lockups ------------------------------
(***************************************************************************)
(* The registry of lockups of contract/src/lib.rs and the asynchronous     *)
(* transfers around it.  A NEAR contract runs one receipt at a time and a  *)
(* panic undoes the receipt, so every handler is one action whose guards   *)
(* are the conditions under which it does not panic.  What interleaves is  *)
(* everything between claim or terminate, the ft_transfer executed by the  *)
(* token contract, and the callback that learns its result.                *)
(***************************************************************************)
EXTENDS Lockup, Sums, FiniteSets

CONSTANTS
  LockupCreates,     \* the LockupCreate messages depositors send
  Deposits,          \* the amounts that come with them
  ClaimAmounts,      \* the amounts a claim may name; None asks for all
  InitialWhitelist,  \* deposit_whitelist given to `new'
  Operators,         \* the accounts whitelist calls name (bound)
  MaxTime,           \* bound on the clock
  MaxLockups,        \* bound on the lockups ever created
  MaxPromises,       \* bound on the transfers ever started
  MaxOpenClaims      \* bound on the claims of one account in flight

VARIABLES
  now,               \* block timestamp, in seconds
  lockups,           \* Vector<Lockup>; index i of the code is i + 1 here
  account_lockups,   \* account -> set of indices ({} for an absent key)
  deposit_whitelist, \* accounts that may deposit and terminate
  promises,          \* every transfer started, with how far it got
  custody,           \* the contract's balance in the token contract
  indexer            \* what the emitted events say of each lockup (history)

vars == <<now, lockups, account_lockups, deposit_whitelist, promises, custody, indexer>>

(* The check that accepts a vesting schedule compares rounded balances, at *)
(* checkpoints only.  It decides a message rightly if what it accepts is   *)
(* ahead at every instant, which not every message makes sure of.          *)
CheckDecidesRightly(c) ==
  c.vesting_schedule # None =>
    LET s == c.schedule
        v == c.vesting_schedule.schedule
    IN  assert_valid(s, total_balance(s)) /\ assert_valid(v, total_balance(s))
          /\ assert_valid_termination_schedule(s, v) => AheadUpTo(s, v, MaxTime)

ChecksDecideRightly == \A c \in LockupCreates : CheckDecidesRightly(c)

ASSUME LockupCreatesAssumption == LockupCreates \subseteq LockupCreate
ASSUME AmountsAssumption == /\ Deposits \subseteq Nat
                            /\ ClaimAmounts \subseteq Nat \cup {None}
ASSUME WhitelistAssumption == /\ InitialWhitelist \subseteq Accounts
                              /\ Operators \subseteq Accounts
ASSUME BoundsAssumption == /\ MaxTime \in Nat \ {0}
                           /\ MaxLockups \in Nat
                           /\ MaxPromises \in Nat
                           /\ MaxOpenClaims \in Nat

-----------------------------------------------------------------------------
Indices == 1..Len(lockups)

(* What after_ft_transfer is told of a lockup: LockupClaim.  A claim names *)
(* every lockup here, with nothing for the ones it does not claim from.    *)
LockupClaim == [claim_amount : Nat, is_final : BOOLEAN]

NoClaims == [i \in 1..MaxLockups |-> [claim_amount |-> 0, is_final |-> FALSE]]

(* A promise is a claim's transfer or a termination's, with its callback.  *)
Promise == [kind : {"claim", "termination"}, account_id : Accounts, amount : Nat,
            claims : [1..MaxLockups -> LockupClaim],
            status : {"pending", "transferred", "failed", "settled"}]

OpenClaims(a) == { k \in 1..Len(promises) : /\ promises[k].kind = "claim"
                                            /\ promises[k].account_id = a
                                            /\ promises[k].status # "settled" }

OpenTerminations == { k \in 1..Len(promises) : /\ promises[k].kind = "termination"
                                               /\ promises[k].status # "settled" }

(* What an indexer of the events knows of a lockup: FtLockupCreateLockup   *)
(* with the record pushed, the sum of its FtLockupClaimLockup amounts, and *)
(* the unvested balance of its FtLockupTerminateLockup.                    *)
Created(lockup) == [lockup |-> lockup, claimed |-> 0, unvested |-> 0]

(* Bound: a lockup may only be created while the refunds that failed       *)
(* terminations may create still fit.                                      *)
Room == Len(lockups) + Cardinality(OpenTerminations) < MaxLockups

Init == /\ now = 1
        /\ lockups = <<>>
        /\ account_lockups = [a \in Accounts |-> {}]
        /\ deposit_whitelist = InitialWhitelist
        /\ promises = <<>>
        /\ custody = 0
        /\ indexer = <<>>

(* Mutant: the index is read after the push.                               *)
AddLockupIndexAfterPush(lockup) ==
  /\ lockups' = Append(lockups, lockup)
  /\ account_lockups' = [account_lockups EXCEPT ![lockup.account_id] = @ \cup {Len(lockups) + 2}]

(* The index of the new lockup is the length of the vector before.         *)
internal_add_lockup(lockup) ==
  /\ lockups' = Append(lockups, lockup)
  /\ account_lockups' = [account_lockups EXCEPT ![lockup.account_id] = @ \cup {Len(lockups) + 1}]

(* ft_on_transfer with a LockupCreate message.  The deposit arrives with   *)
(* it; when the receiver panics the token contract takes the deposit back. *)
FtOnTransfer(sender_id, amount, lockup_create) ==
  LET lockup == into_lockup(lockup_create, sender_id) IN
  /\ Room
  /\ sender_id \in deposit_whitelist
  /\ assert_new_valid(lockup, amount)
  /\ internal_add_lockup(lockup)
  /\ indexer' = Append(indexer, Created(lockup))
  /\ custody' = custody + amount
  /\ UNCHANGED <<now, deposit_whitelist, promises>>

(* claim(amounts): `amounts' maps the requested indices to an amount or to *)
(* None; claim(None) is the request of None for every listed lockup.       *)
requested_amount(amounts, i) ==
  IF amounts[i] = None THEN unclaimed_balance(lockups[i], now) ELSE amounts[i]

Claim(account_id, amounts) ==
  LET requested == [i \in Indices |-> IF i \in DOMAIN amounts
                                      THEN requested_amount(amounts, i) ELSE 0]
      total == SumTo(requested, Len(lockups))
      claim(i) == [claim_amount |-> requested[i],
                   is_final |-> requested[i] > 0 /\ is_final(lockups[i], requested[i])]
  IN
  /\ Cardinality(OpenClaims(account_id)) < MaxOpenClaims
  /\ Len(promises) < MaxPromises
  /\ DOMAIN amounts \subseteq account_lockups[account_id]
  /\ \A i \in DOMAIN amounts : /\ requested[i] >= 0
                               /\ can_claim(lockups[i], now, requested[i])
  /\ total > 0
  /\ lockups' = [i \in Indices |-> [lockups[i] EXCEPT !.claimed_balance = @ + requested[i]]]
  /\ promises' = Append(promises,
       [kind |-> "claim", account_id |-> account_id, amount |-> total, status |-> "pending",
        claims |-> [i \in 1..MaxLockups |-> IF i \in Indices THEN claim(i) ELSE NoClaims[i]]])
  /\ UNCHANGED <<now, account_lockups, deposit_whitelist, custody, indexer>>

(* terminate(i, hashed_schedule, termination_timestamp)                    *)
Terminate(caller, i, hashed_schedule, termination_timestamp) ==
  LET unvested == unvested_balance(lockups[i], termination_timestamp)
      terminated == terminate_lockup(lockups[i], termination_timestamp)
  IN
  /\ caller \in deposit_whitelist
  /\ termination_timestamp >= now
  /\ can_terminate(lockups[i], hashed_schedule)
  /\ unvested > 0 => Room /\ Len(promises) < MaxPromises
  /\ lockups' = [lockups EXCEPT ![i] = terminated]
  /\ account_lockups' =
       IF total_balance(terminated.schedule) = 0
       THEN [account_lockups EXCEPT ![terminated.account_id] = @ \ {i}]
       ELSE account_lockups
  /\ indexer' = [indexer EXCEPT ![i].unvested = unvested]
  /\ promises' =
       IF unvested > 0
       THEN Append(promises,
              [kind |-> "termination", amount |-> unvested, status |-> "pending", claims |-> NoClaims,
               account_id |-> lockups[i].termination_config.beneficiary_id])
       ELSE promises
  /\ UNCHANGED <<now, deposit_whitelist, custody>>

(* The token contract executes an ft_transfer.  It may fail for reasons of *)
(* its own, such as a receiver that is not registered.                     *)
FtTransfer(k) ==
  /\ promises[k].status = "pending"
  /\ \/ /\ promises[k].amount <= custody
        /\ custody' = custody - promises[k].amount
        /\ promises' = [promises EXCEPT ![k].status = "transferred"]
     \/ /\ promises' = [promises EXCEPT ![k].status = "failed"]
        /\ UNCHANGED custody
  /\ UNCHANGED <<now, lockups, account_lockups, deposit_whitelist, indexer>>

(* Mutant: every lockup claimed from is unlisted.                          *)
UnlistsClaimed(k) ==
  LET claims == promises[k].claims IN
  /\ promises[k].kind = "claim" /\ promises[k].status = "transferred"
  /\ account_lockups' = [account_lockups EXCEPT ![promises[k].account_id] =
                           @ \ { i \in Indices : claims[i].claim_amount > 0 }]
  /\ indexer' = [i \in Indices |-> [indexer[i] EXCEPT !.claimed = @ + claims[i].claim_amount]]
  /\ promises' = [promises EXCEPT ![k].status = "settled"]
  /\ UNCHANGED <<now, lockups, deposit_whitelist, custody>>

(* after_ft_transfer, is_promise_success(): final lockups are unlisted.    *)
AfterFtTransferOk(k) ==
  LET claims == promises[k].claims IN
  /\ promises[k].kind = "claim" /\ promises[k].status = "transferred"
  /\ account_lockups' = [account_lockups EXCEPT ![promises[k].account_id] =
                           @ \ { i \in Indices : claims[i].is_final }]
  /\ indexer' = [i \in Indices |-> [indexer[i] EXCEPT !.claimed = @ + claims[i].claim_amount]]
  /\ promises' = [promises EXCEPT ![k].status = "settled"]
  /\ UNCHANGED <<now, lockups, deposit_whitelist, custody>>

(* Mutants of the failure: the lockups are listed but not refunded; all of *)
(* the account's lockups are listed; what is refunded must be less than    *)
(* what was claimed.                                                       *)
ListsWithoutRefund(k) ==
  /\ promises[k].kind = "claim" /\ promises[k].status = "failed"
  /\ account_lockups' = [account_lockups EXCEPT ![promises[k].account_id] =
                           @ \cup { i \in Indices : promises[k].claims[i].claim_amount > 0 }]
  /\ promises' = [promises EXCEPT ![k].status = "settled"]
  /\ UNCHANGED <<now, lockups, deposit_whitelist, custody, indexer>>

Refunded(k) ==
  /\ lockups' = [i \in Indices |->
                   [lockups[i] EXCEPT !.claimed_balance = @ - promises[k].claims[i].claim_amount]]
  /\ promises' = [promises EXCEPT ![k].status = "settled"]
  /\ UNCHANGED <<now, deposit_whitelist, custody, indexer>>

ListsAll(k) ==
  /\ promises[k].kind = "claim" /\ promises[k].status = "failed"
  /\ account_lockups' = [account_lockups EXCEPT ![promises[k].account_id] =
                           { i \in Indices : lockups[i].account_id = promises[k].account_id }]
  /\ Refunded(k)

RefundsLess(k) ==
  LET claims == promises[k].claims IN
  /\ promises[k].kind = "claim" /\ promises[k].status = "failed"
  /\ \A i \in Indices : claims[i].claim_amount > 0 =>
                          claims[i].claim_amount < lockups[i].claimed_balance
  /\ account_lockups' = [account_lockups EXCEPT ![promises[k].account_id] =
                           @ \cup { i \in Indices : claims[i].claim_amount > 0 }]
  /\ Refunded(k)

(* after_ft_transfer otherwise: the claimed balances are taken back and    *)
(* the lockups listed again; an underflow panics.                          *)
AfterFtTransferFailed(k) ==
  LET claims == promises[k].claims IN
  /\ promises[k].kind = "claim" /\ promises[k].status = "failed"
  /\ \A i \in Indices : claims[i].claim_amount <= lockups[i].claimed_balance
  /\ account_lockups' = [account_lockups EXCEPT ![promises[k].account_id] =
                           @ \cup { i \in Indices : claims[i].claim_amount > 0 }]
  /\ lockups' = [i \in Indices |->
                   [lockups[i] EXCEPT !.claimed_balance = @ - claims[i].claim_amount]]
  /\ promises' = [promises EXCEPT ![k].status = "settled"]
  /\ UNCHANGED <<now, deposit_whitelist, custody, indexer>>

(* Mutant: a failed return is forgotten.                                   *)
ForgetsFailedReturn(k) ==
  /\ promises[k].kind = "termination"
  /\ promises[k].status \in {"transferred", "failed"}
  /\ promises' = [promises EXCEPT ![k].status = "settled"]
  /\ UNCHANGED <<now, lockups, account_lockups, deposit_whitelist, custody, indexer>>

(* after_lockup_termination: a failed return becomes an unlocked lockup of *)
(* the beneficiary.                                                        *)
AfterLockupTermination(k) ==
  /\ promises[k].kind = "termination"
  /\ \/ /\ promises[k].status = "transferred"
        /\ UNCHANGED <<lockups, account_lockups, indexer>>
     \/ LET lockup == new_lockup_unlocked_since(promises[k].account_id, promises[k].amount, now) IN
        /\ promises[k].status = "failed"
        /\ now > 0
        /\ Len(lockups) < MaxLockups      \* bound: Room keeps the place free
        /\ internal_add_lockup(lockup)
        /\ indexer' = Append(indexer, Created(lockup))
  /\ promises' = [promises EXCEPT ![k].status = "settled"]
  /\ UNCHANGED <<now, deposit_whitelist, custody>>

(* add_to_deposit_whitelist: any whitelisted account adds any.             *)
AddToDepositWhitelist(caller, account_ids) ==
  /\ caller \in deposit_whitelist
  /\ deposit_whitelist' = deposit_whitelist \cup account_ids
  /\ UNCHANGED <<now, lockups, account_lockups, promises, custody, indexer>>

(* remove_from_deposit_whitelist: any whitelisted account removes any.     *)
RemoveFromDepositWhitelist(caller, account_ids) ==
  /\ caller \in deposit_whitelist
  /\ deposit_whitelist \ account_ids # {}
  /\ deposit_whitelist' = deposit_whitelist \ account_ids
  /\ UNCHANGED <<now, lockups, account_lockups, promises, custody, indexer>>

Tick == /\ now < MaxTime
        /\ now' = now + 1
        /\ UNCHANGED <<lockups, account_lockups, deposit_whitelist, promises, custody, indexer>>

-----------------------------------------------------------------------------
(* The argument `amounts' of a claim, by the account's listed lockups.     *)
AmountRequests(a) == UNION { [S -> ClaimAmounts] : S \in SUBSET account_lockups[a] }

(* The argument hashed_schedule: none, or a schedule some message hashed.  *)
RevealedSchedules ==
  {<<>>} \cup { c.vesting_schedule.schedule : c \in { d \in LockupCreates : d.vesting_schedule # None } }

Next ==
  \/ \E sender_id \in Accounts, amount \in Deposits, c \in LockupCreates :
       FtOnTransfer(sender_id, amount, c)
  \/ \E a \in Accounts : \E amounts \in AmountRequests(a) : Claim(a, amounts)
  \/ \E caller \in Accounts, i \in Indices, hashed_schedule \in RevealedSchedules, t \in 1..MaxTime :
       Terminate(caller, i, hashed_schedule, t)
  \/ \E k \in 1..Len(promises) : \/ FtTransfer(k)
                                 \/ AfterFtTransferOk(k)
                                 \/ AfterFtTransferFailed(k)
                                 \/ AfterLockupTermination(k)
  \/ \E caller \in Accounts, account_ids \in (SUBSET Operators) \ {{}} :
       \/ AddToDepositWhitelist(caller, account_ids)
       \/ RemoveFromDepositWhitelist(caller, account_ids)
  \/ Tick

Spec == Init /\ [][Next]_vars

(* NEAR delivers every receipt: transfers are executed and their callbacks *)
(* run.  Nothing obliges an account to call, or the clock to advance.      *)
FairSpec == /\ Spec
            /\ \A k \in 1..MaxPromises :
                 /\ WF_vars(k <= Len(promises) /\ FtTransfer(k))
                 /\ WF_vars(k <= Len(promises) /\ AfterFtTransferOk(k))
                 /\ WF_vars(k <= Len(promises) /\ AfterFtTransferFailed(k))
                 /\ WF_vars(k <= Len(promises) /\ AfterLockupTermination(k))

-----------------------------------------------------------------------------
TypeOK == /\ now \in 1..MaxTime
          /\ lockups \in Seq(LockupType)
          /\ account_lockups \in [Accounts -> SUBSET Indices]
          /\ deposit_whitelist \in SUBSET Accounts
          /\ promises \in Seq(Promise)
          /\ custody \in Nat
          /\ indexer \in Seq([lockup : LockupType, claimed : Nat, unvested : Nat])
          /\ Len(indexer) = Len(lockups)

(* What transfer k has taken from lockup i and not yet reported.           *)
InClaim(k, i) ==
  IF promises[k].status # "settled" THEN promises[k].claims[i].claim_amount ELSE 0

InFlight(i) == SumTo([k \in 1..Len(promises) |-> InClaim(k, i)], Len(promises))

(* The tokens of transfer k that the token contract still has on the       *)
(* contract's account.                                                     *)
Unsent(k) == IF promises[k].status \in {"pending", "failed"} THEN promises[k].amount ELSE 0

Locked(i) == total_balance(lockups[i].schedule) - lockups[i].claimed_balance

(* The contract always holds exactly what its lockups still owe plus the   *)
(* transfers that have not left: no order of claims, terminations, failed  *)
(* transfers and refund lockups loses or doubles a token.                  *)
Conservation ==
  custody = SumTo([i \in Indices |-> Locked(i)], Len(lockups))
              + SumTo([k \in 1..Len(promises) |-> Unsent(k)], Len(promises))

(* An indexer that only sees the events and the transfers in flight knows  *)
(* the claimed and the total balance of every lockup, although a claim's   *)
(* event comes with its callback and none comes when it fails              *)
(* (callbacks.rs:43-56, lib.rs:256).                                       *)
IndexerAgrees ==
  \A i \in Indices :
    /\ indexer[i].claimed + InFlight(i) = lockups[i].claimed_balance
    /\ total_balance(indexer[i].lockup.schedule) - indexer[i].unvested
         = total_balance(lockups[i].schedule)

(* No lockup pays more than it holds, in flight or not, not even one that  *)
(* was terminated while a claim of it was in flight.                       *)
ClaimedWithinTotal ==
  \A i \in Indices : lockups[i].claimed_balance <= total_balance(lockups[i].schedule)

(* The same of every message the contract accepts: a vesting schedule can  *)
(* be behind between its checkpoints (schedule.rs:80-97), and a            *)
(* termination then takes back one claimed token, never more.              *)
ClaimedWithinTotalButOne ==
  \A i \in Indices : lockups[i].claimed_balance <= total_balance(lockups[i].schedule) + 1

(* No token is claimed before the schedule the lockup was created with     *)
(* unlocks it, terminated or not.                                          *)
NothingClaimedEarly ==
  \A i \in Indices :
    lockups[i].claimed_balance <= unlocked_balance(indexer[i].lockup.schedule, now)

(* The index of an account's lockups only lists lockups of that account,   *)
(* and none that a termination has emptied: lib.rs:249 "no need to store   *)
(* empty lockup", also when a callback lists lockups again later.          *)
ListedAreOwnAndNotEmpty ==
  \A a \in Accounts : \A i \in account_lockups[a] :
    /\ lockups[i].account_id = a
    /\ total_balance(lockups[i].schedule) > 0

(* A lockup with tokens left and no claim in flight is listed, so that its *)
(* owner can claim them: README.md:12 "Automatic rollbacks if a FT         *)
(* transfer fails."  Claims only reach listed lockups (internal.rs:55).    *)
UnclaimedIsListed ==
  \A i \in Indices :
    Locked(i) > 0 /\ InFlight(i) = 0 => i \in account_lockups[lockups[i].account_id]

(* tests/terminate.rs:249 "User's lockups should be empty, since fully     *)
(* claimed.": once everything was paid a lockup is no longer listed.       *)
FullyClaimedIsUnlisted ==
  \A i \in Indices :
    Locked(i) = 0 /\ InFlight(i) = 0 => i \notin account_lockups[lockups[i].account_id]

(* A lockup paid out by claims alone is no longer listed: only one that a  *)
(* termination has cut to what was claimed lingers.  The claim that takes  *)
(* the last tokens is known to be final when it is made and unlists the    *)
(* lockup when it is paid, whatever other claims of it were in flight and  *)
(* failed meanwhile (lockup.rs:66, callbacks.rs:39-70).                   *)
PaidOutIsUnlisted ==
  \A i \in Indices :
    /\ Locked(i) = 0 /\ InFlight(i) = 0
    /\ lockups[i].termination_config = indexer[i].lockup.termination_config
    => i \notin account_lockups[lockups[i].account_id]

(* README.md:10 "A single lockup can be only terminated by a specific      *)
(* account ID.", the beneficiary its configuration names.                  *)
OnlyBeneficiaryTerminates ==
  \A caller \in Accounts, i \in Indices :
    (ENABLED \E s \in RevealedSchedules, t \in 1..MaxTime : Terminate(caller, i, s, t))
      => caller = lockups[i].termination_config.beneficiary_id

(* Every transfer's callback runs to its end: none panics for ever, which  *)
(* would leave claimed tokens neither paid nor returned to their lockup.   *)
EveryTransferSettles ==
  \A k \in 1..MaxPromises :
    (k <= Len(promises)) ~> (k <= Len(promises) /\ promises[k].status = "settled")

-----------------------------------------------------------------------------
(* The inductive invariant behind ClaimedWithinTotal and                   *)
(* NothingClaimedEarly.  A lockup l, created as g, is sound at instant t:  *)
(* its schedule is one the arithmetic is defined on and never ahead of the *)
(* granted one; it covers what was claimed, up to the token that a wrong   *)
(* check lets a termination cut too much; and as long as it can still be   *)
(* terminated, nothing was claimed that is not unlocked and its vesting    *)
(* schedule is a checked one.                                              *)
Terminatable(l) ==
  LET vesting == l.termination_config.vesting_schedule IN
  /\ assert_valid(l.schedule, total_balance(l.schedule))
  /\ vesting.kind = "Schedule" =>
       /\ assert_valid(vesting.schedule, total_balance(l.schedule))
       /\ assert_valid_termination_schedule(l.schedule, vesting.schedule)
  /\ \E c \in LockupCreates : c.schedule = l.schedule /\ c.vesting_schedule = vesting

SoundLockup(l, g, t) ==
  /\ Increasing(l.schedule) /\ Increasing(g.schedule)
  /\ l.claimed_balance <= total_balance(l.schedule) + 1
  /\ ChecksDecideRightly \/ l.termination_config = g.termination_config =>
       l.claimed_balance <= total_balance(l.schedule)
  /\ l.claimed_balance <= unlocked_balance(g.schedule, t)
  /\ \A u \in 0..MaxTime : unlocked_balance(l.schedule, u) <= unlocked_balance(g.schedule, u)
  /\ l.termination_config # None =>
       /\ l.termination_config = g.termination_config
       /\ l.claimed_balance <= unlocked_balance(l.schedule, t)
       /\ Terminatable(l)

IInv == /\ TypeOK
        /\ Len(lockups) <= MaxLockups
        /\ \A i \in Indices : SoundLockup(lockups[i], indexer[i].lockup, now)

-----------------------------------------------------------------------------
(* The contract implements the escrow: a grant is paid when the token      *)
(* contract executes the transfer, cut when the termination is called, and *)
(* owed until the return is executed or becomes a refund lockup.           *)
Paid(i) == lockups[i].claimed_balance
           - SumTo([k \in 1..Len(promises) |->
                      IF promises[k].status = "transferred" THEN 0 ELSE InClaim(k, i)],
                   Len(promises))

EscrowGrants == [i \in Indices |->
  LET created == indexer[i].lockup IN
  [owner    |-> lockups[i].account_id,
   payer    |-> IF created.termination_config = None
                THEN None ELSE created.termination_config.beneficiary_id,
   granted  |-> total_balance(created.schedule),
   paid     |-> Paid(i),
   returned |-> indexer[i].unvested]]

EscrowOwed == [a \in Accounts |->
  SumTo([k \in 1..Len(promises) |->
           IF promises[k].kind = "termination" /\ promises[k].account_id = a
           THEN Unsent(k) ELSE 0], Len(promises))]

TheEscrow == INSTANCE Escrow WITH Owners <- Accounts, Nobody <- None, grants <- EscrowGrants,
                                  owed <- EscrowOwed, balance <- custody

(* Every step of the contract is a step the escrow allows, or none: each   *)
(* token of a lockup goes to its owner or back to its payer, once, however *)
(* claims, terminations, failed transfers and refund lockups interleave.   *)
ImplementsEscrow == TheEscrow!Spec
=============================================================================
