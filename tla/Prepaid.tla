------------------------------- MODULE Prepaid -------------------------------
(***************************************************************************)
(* What drafts promise, and nothing of how: notes are written into a       *)
(* bundle, the bundle is paid for as a whole or voided, and each note of a *)
(* paid bundle is granted once, out of what was paid for it.  Module       *)
(* Drafts implements this one.                                             *)
(***************************************************************************)
EXTENDS Integers, Sequences, Sums

VARIABLES
  notes,  \* one record per note, in the order they were written
  pot     \* tokens paid for notes that are not granted yet

pvars == <<notes, pot>>

Notes == 1..Len(notes)
Bundle(b) == { n \in Notes : notes[n].bundle = b }
Worth(S) == SumTo([n \in Notes |-> IF n \in S THEN notes[n].amount ELSE 0], Len(notes))

Move(S, phase) ==
  notes' = [n \in Notes |-> IF n \in S THEN [notes[n] EXCEPT !.phase = phase] ELSE notes[n]]

Init == notes = <<>> /\ pot = 0

(* Notes are only added to bundles all of whose notes are open.            *)
Write == /\ Len(notes') > Len(notes)
         /\ SubSeq(notes', 1, Len(notes)) = notes
         /\ \A n \in (Len(notes) + 1)..Len(notes') :
              /\ notes'[n].phase = "open" /\ notes'[n].amount > 0
              /\ \A m \in Bundle(notes'[n].bundle) : notes[m].phase = "open"
         /\ UNCHANGED pot

(* All notes of a bundle are paid for at once, by exactly their worth.     *)
Pay(b) == /\ \A n \in Bundle(b) : notes[n].phase = "open"
          /\ Move(Bundle(b), "paid")
          /\ pot' = pot + Worth(Bundle(b))

Void(b) == /\ \A n \in Bundle(b) : notes[n].phase = "open"
           /\ Move(Bundle(b), "void")
           /\ UNCHANGED pot

Drop(S) == /\ \A n \in S : notes[n].phase = "void"
           /\ Move(S, "dropped")
           /\ UNCHANGED pot

Grant(S) == /\ \A n \in S : notes[n].phase = "paid"
            /\ Move(S, "granted")
            /\ pot' = pot - Worth(S)

Next == \/ Write
        \/ \E b \in { notes[n].bundle : n \in Notes } : Pay(b) \/ Void(b)
        \/ \E S \in (SUBSET Notes) \ {{}} : Drop(S) \/ Grant(S)

Spec == Init /\ [][Next]_pvars
=============================================================================
