------------------------------- MODULE Escrow -------------------------------
(***************************************************************************)
(* What the lockup contract promises the people whose tokens it holds, and *)
(* nothing of how: every token deposited into a grant is paid to the owner *)
(* of the grant or owed back to who paid for it, never both.  Module       *)
(* Lockups implements this one.                                            *)
(***************************************************************************)
EXTENDS Integers, Sequences, Sums

CONSTANTS Owners,   \* accounts that own and pay for grants
          Nobody    \* the payer of a grant that cannot be cut

VARIABLES grants,   \* one record per grant, in the order they were made
          owed,     \* account -> tokens on their way back to it
          balance   \* tokens held

evars == <<grants, owed, balance>>

Grants == 1..Len(grants)

(* What a grant still holds.                                               *)
Held(i) == grants[i].granted - grants[i].paid - grants[i].returned

Init == /\ grants = <<>>
        /\ owed = [a \in Owners |-> 0]
        /\ balance = 0

(* A grant of which nothing is paid or returned yet.                       *)
New == [owner : Owners, payer : Owners \cup {Nobody}, granted : Nat \ {0}, paid : {0}, returned : {0}]

(* One or more grants are opened at once, by exactly what comes in.        *)
Open ==
  LET opened == (Len(grants) + 1)..Len(grants') IN
  /\ balance' > balance
  /\ SubSeq(grants', 1, Len(grants)) = grants
  /\ \A i \in opened : grants'[i] \in New
  /\ balance' = balance + SumTo([i \in 1..Len(grants') |->
                                   IF i \in opened THEN grants'[i].granted ELSE 0], Len(grants'))
  /\ UNCHANGED owed

(* One transfer pays an owner from any of the owner's grants.              *)
Pay(owner) ==
  LET paid == [i \in Grants |-> grants'[i].paid - grants[i].paid] IN
  /\ balance' < balance
  /\ UNCHANGED owed
  /\ Len(grants') = Len(grants)
  /\ \A i \in Grants : /\ grants'[i] = [grants[i] EXCEPT !.paid = @ + paid[i]]
                       /\ paid[i] \in 0..Held(i)
                       /\ paid[i] > 0 => grants[i].owner = owner
  /\ balance' = balance - SumTo(paid, Len(grants))

(* A grant is cut once, by at most what it still holds.                    *)
Return(i) ==
  LET amount == grants'[i].returned IN
  /\ owed' # owed
  /\ UNCHANGED balance
  /\ grants[i].payer # Nobody
  /\ grants[i].returned = 0
  /\ amount \in 1..Held(i)
  /\ grants' = [grants EXCEPT ![i].returned = amount]
  /\ owed' = [owed EXCEPT ![grants[i].payer] = @ + amount]

(* What is owed is paid out, or granted to the account it is owed to.      *)
PayBack(payer, amount) == /\ owed' = [owed EXCEPT ![payer] = @ - amount]
                          /\ balance' = balance - amount
                          /\ UNCHANGED grants

Regrant(payer, amount) ==
  /\ owed' = [owed EXCEPT ![payer] = @ - amount]
  /\ grants' = Append(grants, [owner |-> payer, payer |-> Nobody,
                               granted |-> amount, paid |-> 0, returned |-> 0])
  /\ UNCHANGED balance

Next == \/ Open
        \/ \E owner \in Owners : Pay(owner)
        \/ \E i \in Grants : Return(i)
        \/ \E payer \in Owners : \E amount \in 1..owed[payer] : \/ PayBack(payer, amount)
                                                               \/ Regrant(payer, amount)

Spec == Init /\ [][Next]_evars
=============================================================================
