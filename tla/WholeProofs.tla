----------------------------- MODULE WholeProofs -----------------------------
(***************************************************************************)
(* What the whole contract promises, for every set of accounts and         *)
(* messages and for every bound: its handlers, with the events they emit,  *)
(* are steps of Drafts; these are steps of the escrow and of the prepaid   *)
(* notes, or none; and the events tell what the views answer.              *)
(***************************************************************************)
EXTENDS Events, DraftsProofs, EscrowProofs

-----------------------------------------------------------------------------
(* The events are added to the handlers and change none of them.           *)

LEMMA EventsStep ==
  ASSUME [EventsNext]_eventVars
  PROVE  [DraftsNext]_allVars
<1>1. CASE Silent /\ UNCHANGED <<draftVars, mirror>>
  <2>1. Next
    BY <1>1 DEF Silent, Next
  <2> QED
    BY <1>1, <2>1 DEF DraftsNext
<1>2. CASE SilentFunding /\ UNCHANGED mirror
  BY <1>2 DEF SilentFunding, DraftsNext
<1>3. CASE LockupEvents /\ UNCHANGED draftVars
  <2>1. Next
    BY <1>3 DEF LockupEvents, Next, EmitsLockup, EmitsClaim, EmitsRefundLockup, EmitsTerminate
  <2> QED
    BY <1>3, <2>1 DEF DraftsNext
<1>4. CASE DraftEvents
  BY <1>4 DEF DraftEvents, EmitsDrafts, EmitsFunding, DraftsNext
<1>5. CASE UNCHANGED eventVars
  BY <1>5 DEF eventVars
<1> QED
  BY <1>1, <1>2, <1>3, <1>4, <1>5 DEF EventsNext

(* A handler with its events is a step of Drafts, so that all that is      *)
(* proved of DraftsSpec holds of the contract with its events, which the   *)
(* runs check (event.rs, and the emit calls of lib.rs, callbacks.rs and    *)
(* ft_token_receiver.rs).                                                  *)
THEOREM EventsAreOfDrafts == EventsSpec => DraftsSpec
<1>1. EventsInit => DraftsInit
  BY DEF EventsInit
<1>2. [EventsNext]_eventVars => [DraftsNext]_allVars
  BY EventsStep
<1> QED
  BY <1>1, <1>2, PTL DEF EventsSpec, DraftsSpec

-----------------------------------------------------------------------------
(* The prepaid notes.  A note is a draft that was written, and its phase   *)
(* follows from the maps.                                                  *)

(* Every id below the counter was written.                                 *)
AllWritten == \A d \in 1..(next_draft_id - 1) : d \in DraftIds /\ written[d] # None

PhaseOf(draft, lockup_index, group) ==
  IF draft = None THEN IF lockup_index # 0 THEN "granted" ELSE "dropped"
  ELSE IF group.discarded THEN "void"
  ELSE IF group.payer_id # None THEN "paid" ELSE "open"

NoteOf(draft, phase) ==
  [bundle |-> draft.draft_group_id, amount |-> balance_of(draft), phase |-> phase]

LEMMA PhaseIs ==
  ASSUME NEW d
  PROVE  /\ Phase(d) = PhaseOf(drafts[d], converted[d], draft_groups[written[d].draft_group_id])
         /\ Phase(d)' = PhaseOf(drafts'[d], converted'[d], draft_groups'[written'[d].draft_group_id])
BY DEF Phase, PhaseOf

(* What the notes are.                                                     *)
NotesAre ==
  /\ next_draft_id - 1 \in Nat
  /\ PrepaidNotes = [d \in 1..(next_draft_id - 1) |-> NoteOf(written[d], Phase(d))]
  /\ Len(PrepaidNotes) = next_draft_id - 1
  /\ DOMAIN PrepaidNotes = 1..(next_draft_id - 1)
  /\ \A d \in 1..(next_draft_id - 1) : PrepaidNotes[d] = NoteOf(written[d], Phase(d))

LEMMA NotesFacts == DraftsTypeOK => NotesAre
<1> SUFFICES ASSUME DraftsTypeOK PROVE NotesAre
  OBVIOUS
<1> DEFINE n == next_draft_id - 1
           note(d) == NoteOf(written[d], Phase(d))
<1>1. n \in Nat
  BY DraftBounds DEF DraftsTypeOK
<1>2. PrepaidNotes = [d \in 1..n |-> note(d)]
  BY DEF PrepaidNotes, NoteOf
<1> HIDE DEF n, note
<1>3. [d \in 1..n |-> note(d)] \in [1..n -> { note(d) : d \in 1..n }]
  OBVIOUS
<1>4. Len([d \in 1..n |-> note(d)]) = n
  BY <1>1, <1>3, FunctionIsSeq
<1> QED
  BY <1>1, <1>2, <1>4 DEF NotesAre, n, note

LEMMA NotesLater == DraftsTypeOK' => NotesAre'
BY NotesFacts, PTL

(* Some notes come to a phase, and the others stay in theirs.              *)
Rephased(S, phase) ==
  /\ next_draft_id' = next_draft_id
  /\ \A d \in 1..(next_draft_id - 1) :
       /\ written'[d] = written[d]
       /\ Phase(d)' = IF d \in S THEN phase ELSE Phase(d)

LEMMA NotesMove ==
  ASSUME DraftsTypeOK, DraftsTypeOK', NEW S, NEW phase, Rephased(S, phase)
  PROVE  ThePrepaid!Move(S, phase)
<1> DEFINE n == next_draft_id - 1
<1>1. /\ PrepaidNotes' = [d \in 1..n |-> NoteOf(written'[d], Phase(d)')]
      /\ Len(PrepaidNotes) = n
      /\ \A d \in 1..n : PrepaidNotes[d] = NoteOf(written[d], Phase(d))
  BY NotesFacts, NotesLater DEF NotesAre, Rephased
<1> HIDE DEF n
<1>2. ASSUME NEW d \in 1..n
      PROVE  NoteOf(written'[d], Phase(d)')
               = IF d \in S THEN [PrepaidNotes[d] EXCEPT !.phase = phase] ELSE PrepaidNotes[d]
  BY <1>1 DEF Rephased, NoteOf, n
<1> QED
  BY <1>1, <1>2 DEF ThePrepaid!Move, ThePrepaid!Notes

LEMMA NotesStay ==
  ASSUME DraftsTypeOK, DraftsTypeOK', next_draft_id' = next_draft_id,
         \A d \in 1..(next_draft_id - 1) : written'[d] = written[d] /\ Phase(d)' = Phase(d)
  PROVE  PrepaidNotes' = PrepaidNotes
BY NotesFacts, NotesLater DEF NotesAre

LEMMA SameNoteSum ==
  ASSUME NEW f, NEW n
  PROVE  ThePrepaid!SumTo(f, n) = SumTo(f, n)
BY DEF ThePrepaid!SumTo, SumTo

(* The worth of notes is the balance of their drafts.                      *)
LEMMA WorthIs ==
  ASSUME DraftsTypeOK, NEW S, S \subseteq 1..(next_draft_id - 1), Counted(S, written)
  PROVE  ThePrepaid!Worth(S) = BalanceOf(S, written)
<1> DEFINE n == next_draft_id - 1
           w == Weight(S, written)
           v == [d \in 1..n |-> IF d \in S THEN PrepaidNotes[d].amount ELSE 0]
<1>1. /\ n \in Nat /\ Len(PrepaidNotes) = n
      /\ \A d \in 1..n : PrepaidNotes[d].amount = balance_of(written[d])
  BY NotesFacts DEF NotesAre, NoteOf
<1>2. n \in 0..MaxDrafts
  BY DraftBounds DEF DraftsTypeOK
<1>3. MaxDrafts \in Nat
  BY DraftBounds
<1>4. BalanceOf(S, written) = SumTo(w, MaxDrafts)
  BY BalanceIsWeight
<1>5. \A d \in 1..MaxDrafts : w[d] = IF d \in S THEN balance_of(written[d]) ELSE 0
  BY BalanceIsWeight
<1>6. ThePrepaid!Worth(S) = SumTo(v, n)
  BY <1>1, SameNoteSum DEF ThePrepaid!Worth, ThePrepaid!Notes
<1>7. S \subseteq 1..n
  OBVIOUS
<1>8. \A d \in 1..n : v[d] = IF d \in S THEN balance_of(written[d]) ELSE 0
  BY <1>1
<1> HIDE DEF n, w, v
<1>9. \A d \in 1..n : v[d] = w[d] /\ w[d] \in Int
  BY <1>2, <1>3, <1>5, <1>8 DEF Counted
<1>10. \A d \in (n + 1)..MaxDrafts : w[d] = 0
  <2> SUFFICES ASSUME NEW d \in (n + 1)..MaxDrafts PROVE w[d] = 0
    OBVIOUS
  <2>1. d \in 1..MaxDrafts /\ d \notin 1..n
    BY <1>1, <1>3
  <2> QED
    BY <1>5, <1>7, <2>1
<1>11. SumTo(w, MaxDrafts) = SumTo(w, n)
  BY <1>2, <1>3, <1>9, <1>10, SumEndsAt
<1>12. SumTo(v, n) = SumTo(w, n)
  BY <1>1, <1>9, SumOfEquals
<1> QED
  BY <1>4, <1>6, <1>11, <1>12

-----------------------------------------------------------------------------
(* Every step of the contract moves the notes as the notes allow, or not.  *)

NotesInv == DraftsInv /\ AllWritten

PrepaidStep == \/ ThePrepaid!Next
               \/ PrepaidNotes' = PrepaidNotes /\ Pot' = Pot

(* The notes written into a bundle are the drafts written for the group.   *)
LEMMA BundleIs ==
  ASSUME NotesInv, NEW g
  PROVE  /\ ThePrepaid!Notes = 1..(next_draft_id - 1)
         /\ 1..(next_draft_id - 1) \subseteq DraftIds
         /\ ThePrepaid!Bundle(g) = WrittenFor(g)
         /\ \A d \in WrittenFor(g) : PrepaidNotes[d].bundle = g /\ d \in ThePrepaid!Notes
<1>1. DraftsTypeOK /\ History /\ AllWritten
  BY DEF NotesInv, DraftsInv
<1>2. /\ next_draft_id - 1 \in Nat
      /\ Len(PrepaidNotes) = next_draft_id - 1
      /\ \A d \in 1..(next_draft_id - 1) : PrepaidNotes[d].bundle = written[d].draft_group_id
  BY <1>1, NotesFacts DEF NotesAre, NoteOf
<1>3. \A d \in DraftIds : written[d] # None <=> d \in 1..(next_draft_id - 1)
  <2>1. \A d \in DraftIds : written[d] # None => d < next_draft_id
    BY <1>1 DEF History
  <2>2. \A d \in DraftIds : d \in Nat /\ 1 <= d
    BY DraftBounds DEF DraftIds
  <2>3. next_draft_id \in Nat
    BY <1>1, DraftTypes
  <2> QED
    BY <1>1, <2>1, <2>2, <2>3 DEF AllWritten
<1>4. 1..(next_draft_id - 1) \subseteq DraftIds
  BY <1>1 DEF AllWritten
<1>5. ThePrepaid!Notes = 1..(next_draft_id - 1)
  BY <1>2 DEF ThePrepaid!Notes
<1>6. \A d : d \in ThePrepaid!Bundle(g) <=> d \in WrittenFor(g)
  BY <1>2, <1>3, <1>4, <1>5 DEF ThePrepaid!Bundle, WrittenFor
<1> QED
  BY <1>2, <1>3, <1>4, <1>5, <1>6 DEF WrittenFor

(* A note's phase is the state of its group.                               *)
LEMMA PhaseOfNote ==
  ASSUME NotesInv, NEW d \in ThePrepaid!Notes
  PROVE  /\ PrepaidNotes[d].phase
               = PhaseOf(drafts[d], converted[d], draft_groups[written[d].draft_group_id])
         /\ d \in DraftIds /\ d < next_draft_id /\ d \in Nat
         /\ written[d] \in Draft /\ written[d].draft_group_id \in GroupIds
         /\ written[d].draft_group_id < next_draft_group_id
         /\ balance_of(written[d]) \in Nat /\ balance_of(written[d]) > 0
         /\ drafts[d] # None => /\ drafts[d] = written[d] /\ converted[d] = 0
                                /\ draft_groups[written[d].draft_group_id] # None
                                /\ d \in DraftsOf(written[d].draft_group_id)
<1>1. DraftsTypeOK /\ History /\ AllWritten /\ GroupsAddUp
  BY DEF NotesInv, DraftsInv
<1>2. d \in 1..(next_draft_id - 1)
  BY BundleIs
<1>3. PrepaidNotes[d].phase = Phase(d)
  BY <1>1, <1>2, NotesFacts DEF NotesAre, NoteOf
<1>4. d \in DraftIds /\ written[d] # None
  BY <1>1, <1>2 DEF AllWritten
<1>5. /\ d < next_draft_id /\ written[d].draft_group_id < next_draft_group_id
      /\ Checked(written[d])
      /\ drafts[d] # None => drafts[d] = written[d] /\ converted[d] = 0
  BY <1>1, <1>4 DEF History
<1>6. written[d] \in Draft /\ d \in Nat
  BY <1>1, <1>4, DraftTypes
<1>7. written[d].draft_group_id \in GroupIds
  BY <1>6, DraftFields
<1>8. balance_of(written[d]) \in Nat /\ balance_of(written[d]) > 0
  BY <1>5, <1>6, CheckedBalance
<1>9. drafts[d] # None => /\ draft_groups[written[d].draft_group_id] # None
                          /\ d \in DraftsOf(written[d].draft_group_id)
  BY <1>1, <1>4, <1>5 DEF GroupsAddUp, Groups, DraftsOf
<1> QED
  BY <1>3, <1>4, <1>5, <1>6, <1>7, <1>8, <1>9, PhaseIs

LEMMA NotesKept ==
  ASSUME NotesInv, DraftsTypeOK',
         UNCHANGED <<drafts, draft_groups, next_draft_id, written, converted>>
  PROVE  PrepaidStep /\ AllWritten'
<1>1. DraftsTypeOK
  BY DEF NotesInv, DraftsInv
<1>2. \A d \in 1..(next_draft_id - 1) : written'[d] = written[d] /\ Phase(d)' = Phase(d)
  BY PhaseIs
<1>3. PrepaidNotes' = PrepaidNotes
  BY <1>1, <1>2, NotesStay
<1>4. Pot' = Pot
  BY PotSame
<1> QED
  BY <1>3, <1>4 DEF PrepaidStep, AllWritten, NotesInv

LEMMA AllWrittenKept ==
  ASSUME AllWritten, UNCHANGED <<next_draft_id, written>>
  PROVE  AllWritten'
BY DEF AllWritten

(* An open group has open notes, all of those written into it.             *)
LEMMA OpenNotes ==
  ASSUME NotesInv, NEW g \in GroupIds, Open(g)
  PROVE  /\ \A d \in ThePrepaid!Bundle(g) : PrepaidNotes[d].phase = "open"
         /\ ThePrepaid!Bundle(g) = DraftsOf(g)
         /\ \A d \in ThePrepaid!Notes :
              d \in ThePrepaid!Bundle(g) <=> written[d].draft_group_id = g
<1>1. DraftsInv
  BY DEF NotesInv
<1>2. ThePrepaid!Bundle(g) = WrittenFor(g)
  BY BundleIs
<1>3. /\ WrittenFor(g) = DraftsOf(g)
      /\ \A d \in DraftsOf(g) : drafts[d] # None /\ written[d] = drafts[d] /\ converted[d] = 0
  BY <1>1, OpenHasAll
<1>4. ASSUME NEW d \in ThePrepaid!Bundle(g)
      PROVE  PrepaidNotes[d].phase = "open"
  <2>1. d \in ThePrepaid!Notes /\ written[d].draft_group_id = g /\ drafts[d] # None
    BY <1>2, <1>3, BundleIs DEF WrittenFor
  <2> QED
    BY <2>1, PhaseOfNote DEF PhaseOf, Open
<1>5. \A d \in ThePrepaid!Notes :
        d \in ThePrepaid!Bundle(g) <=> written[d].draft_group_id = g
  <2>1. ASSUME NEW d \in ThePrepaid!Notes
        PROVE  d \in WrittenFor(g) <=> written[d].draft_group_id = g
    <3>1. d \in DraftIds /\ written[d] \in Draft
      BY PhaseOfNote
    <3>2. written[d] # None
      BY <3>1, DraftFields
    <3> QED
      BY <3>1, <3>2 DEF WrittenFor
  <2> QED
    BY <1>2, <2>1
<1> QED
  BY <1>2, <1>3, <1>4, <1>5

(* One open group changes: its notes come to a phase.                      *)
LEMMA GroupMoves ==
  ASSUME NotesInv, DraftsTypeOK', NEW g \in GroupIds, Open(g), NEW phase,
         UNCHANGED <<drafts, next_draft_id, written, converted>>,
         \A h \in GroupIds : h # g => draft_groups'[h] = draft_groups[h],
         \A d \in DraftsOf(g) : PhaseOf(drafts[d], 0, draft_groups'[g]) = phase
  PROVE  ThePrepaid!Move(ThePrepaid!Bundle(g), phase)
<1>1. DraftsTypeOK
  BY DEF NotesInv, DraftsInv
<1>2. ThePrepaid!Notes = 1..(next_draft_id - 1)
  BY BundleIs
<1>3. ASSUME NEW d \in ThePrepaid!Notes
      PROVE  Phase(d)' = IF d \in ThePrepaid!Bundle(g) THEN phase ELSE Phase(d)
  <2>1. Phase(d)' = PhaseOf(drafts[d], converted[d], draft_groups'[written[d].draft_group_id])
    BY PhaseIs
  <2>2. Phase(d) = PhaseOf(drafts[d], converted[d], draft_groups[written[d].draft_group_id])
    BY PhaseIs
  <2>3. written[d].draft_group_id \in GroupIds
    BY PhaseOfNote
  <2>4. CASE d \in ThePrepaid!Bundle(g)
    <3>1. d \in DraftsOf(g) /\ written[d].draft_group_id = g
      BY <2>4, OpenNotes
    <3>2. drafts[d] # None
      BY <3>1 DEF DraftsOf
    <3>3. converted[d] = 0
      BY <3>2, PhaseOfNote
    <3> QED
      BY <2>1, <2>4, <3>1, <3>3
  <2>5. CASE d \notin ThePrepaid!Bundle(g)
    <3>1. written[d].draft_group_id # g
      BY <2>5, OpenNotes
    <3> QED
      BY <2>1, <2>2, <2>3, <2>5, <3>1
  <2> QED
    BY <2>4, <2>5
<1>4. Rephased(ThePrepaid!Bundle(g), phase)
  BY <1>2, <1>3 DEF Rephased
<1> QED
  BY <1>1, <1>4, NotesMove

LEMMA NoteGroupCreated ==
  ASSUME NotesInv, DraftsTypeOK', NEW caller \in Accounts, CreateDraftGroup(caller)
  PROVE  PrepaidStep /\ AllWritten'
<1> DEFINE n == next_draft_group_id
           new == [total_amount |-> 0, payer_id |-> None, draft_indices |-> {}, discarded |-> FALSE]
<1>1. DraftsTypeOK /\ Financed /\ AllWritten
  BY DEF NotesInv, DraftsInv
<1>2. n \in GroupIds
  BY <1>1, DraftBounds DEF CreateDraftGroup, DraftsTypeOK, GroupIds
<1>3. n \in Nat
  BY <1>1, DraftTypes
<1>4. draft_groups[n] = None
  BY <1>1, <1>2, <1>3 DEF Financed, FinancedGroup
<1>5. /\ draft_groups' = [draft_groups EXCEPT ![n] = new]
      /\ UNCHANGED <<drafts, next_draft_id, written, converted>>
  BY DEF CreateDraftGroup
<1>6. draft_groups \in [GroupIds -> DraftGroup \cup {None}]
  BY <1>1 DEF DraftsTypeOK
<1>7. /\ draft_groups'[n].payer_id = None
      /\ \A g \in GroupIds : g # n => draft_groups'[g] = draft_groups[g]
  BY <1>2, <1>5, <1>6
<1> HIDE DEF n, new
<1>8. ASSUME NEW d \in 1..(next_draft_id - 1)
      PROVE  written'[d] = written[d] /\ Phase(d)' = Phase(d)
  <2>1. d \in ThePrepaid!Notes
    BY <1>8, BundleIs
  <2>2. written[d].draft_group_id \in GroupIds /\ written[d].draft_group_id < n
    BY <2>1, PhaseOfNote DEF n
  <2>3. written[d].draft_group_id # n
    BY <1>3, <2>2, DraftBounds DEF GroupIds
  <2> QED
    BY <1>5, <1>7, <2>2, <2>3, PhaseIs
<1>9. PrepaidNotes' = PrepaidNotes
  BY <1>1, <1>5, <1>8, NotesStay
<1>10. \A g \in GroupIds : Share(draft_groups'[g]) = Share(draft_groups[g])
  BY <1>4, <1>7 DEF Share
<1>11. Pot' = Pot
  BY <1>10, PotKept
<1> QED
  BY <1>1, <1>5, <1>9, <1>11, AllWrittenKept DEF PrepaidStep

LEMMA NoteDiscarded ==
  ASSUME NotesInv, DraftsTypeOK', NEW caller \in Accounts, NEW g \in GroupIds,
         DiscardDraftGroup(caller, g)
  PROVE  PrepaidStep /\ AllWritten'
<1>1. DraftsTypeOK /\ GroupsAddUp /\ AllWritten
  BY DEF NotesInv, DraftsInv
<1>2. /\ Open(g)
      /\ draft_groups' = [draft_groups EXCEPT ![g] =
           IF @.draft_indices = {} THEN None ELSE [@ EXCEPT !.discarded = TRUE]]
      /\ UNCHANGED <<drafts, next_draft_id, written, converted>>
  BY DEF DiscardDraftGroup
<1>3. draft_groups \in [GroupIds -> DraftGroup \cup {None}]
  BY <1>1 DEF DraftsTypeOK
<1>4. draft_groups[g] \in DraftGroup
  BY <1>2, <1>3 DEF Open
<1>5. /\ \A h \in GroupIds : h # g => draft_groups'[h] = draft_groups[h]
      /\ draft_groups'[g] = IF draft_groups[g].draft_indices = {} THEN None
                            ELSE [draft_groups[g] EXCEPT !.discarded = TRUE]
  BY <1>2, <1>3
<1>6. draft_groups[g].draft_indices = DraftsOf(g)
  BY <1>1, <1>2 DEF GroupsAddUp, Groups, Open
<1>7. draft_groups[g].payer_id = None /\ draft_groups[g] # None
  BY <1>2 DEF Open
<1>8. \A h \in GroupIds : Share(draft_groups'[h]) = Share(draft_groups[h])
  BY <1>4, <1>5, <1>7 DEF Share, DraftGroup
<1>9. Pot' = Pot
  BY <1>8, PotKept
<1>10. \A d \in DraftsOf(g) : PhaseOf(drafts[d], 0, draft_groups'[g]) = "void"
  BY <1>4, <1>5, <1>6 DEF PhaseOf, DraftsOf, DraftGroup
<1>11. ThePrepaid!Move(ThePrepaid!Bundle(g), "void")
  BY <1>2, <1>5, <1>10, GroupMoves
<1>12. CASE DraftsOf(g) = {}
  <2>1. ThePrepaid!Bundle(g) = {}
    BY <1>2, <1>12, OpenNotes
  <2>2. PrepaidNotes = [d \in 1..Len(PrepaidNotes) |-> PrepaidNotes[d]]
    <3>1. NotesAre
      BY <1>1, NotesFacts
    <3> QED
      BY <3>1 DEF NotesAre
  <2>3. PrepaidNotes' = PrepaidNotes
    BY <1>11, <2>1, <2>2 DEF ThePrepaid!Move, ThePrepaid!Notes
  <2> QED
    BY <1>1, <1>2, <1>9, <2>3, AllWrittenKept DEF PrepaidStep
<1>13. CASE DraftsOf(g) # {}
  <2>1. PICK d \in ThePrepaid!Bundle(g) : TRUE
    BY <1>2, <1>13, OpenNotes
  <2>2. d \in ThePrepaid!Notes /\ PrepaidNotes[d].bundle = g
    BY <2>1 DEF ThePrepaid!Bundle
  <2>3. ThePrepaid!Void(g)
    BY <1>2, <1>9, <1>11, OpenNotes DEF ThePrepaid!Void
  <2> QED
    BY <1>1, <1>2, <2>2, <2>3, AllWrittenKept DEF PrepaidStep, ThePrepaid!Next
<1> QED
  BY <1>12, <1>13

(* Drafts leave the map: their notes come to a phase.                      *)
LEMMA NotesLeave ==
  ASSUME NotesInv, DraftsTypeOK', NEW S, DraftsRemoved(S), GroupsCut(S),
         next_draft_id' = next_draft_id, NEW phase,
         \A d \in S : phase = IF converted'[d] # 0 THEN "granted" ELSE "dropped"
  PROVE  /\ ThePrepaid!Move(S, phase)
         /\ S = {} => PrepaidNotes' = PrepaidNotes
         /\ S \subseteq ThePrepaid!Notes
         /\ \A d \in S : PrepaidNotes[d].phase
                           = PhaseOf(drafts[d], 0, draft_groups[drafts[d].draft_group_id])
         /\ AllWritten'
<1>1. /\ DraftsTypeOK /\ History /\ GroupsAddUp /\ AllWritten
  BY DEF NotesInv, DraftsInv
<1>2. ThePrepaid!Notes = 1..(next_draft_id - 1)
  BY BundleIs
<1>3. /\ S \subseteq DraftIds /\ written' = written
      /\ \A d \in DraftIds : drafts'[d] = IF d \in S THEN None ELSE drafts[d]
      /\ \A d \in S : drafts[d] # None
      /\ \A d \in DraftIds \ S : converted'[d] = converted[d]
  BY DEF DraftsRemoved
<1>4. ASSUME NEW d \in ThePrepaid!Notes
      PROVE  Phase(d)' = IF d \in S THEN phase ELSE Phase(d)
  <2> DEFINE g == written[d].draft_group_id
  <2>1. d \in DraftIds /\ g \in GroupIds
    BY PhaseOfNote
  <2>2. /\ Phase(d)' = PhaseOf(drafts'[d], converted'[d], draft_groups'[g])
        /\ Phase(d) = PhaseOf(drafts[d], converted[d], draft_groups[g])
    BY <1>3, PhaseIs
  <2>3. CASE d \in S
    <3>1. drafts'[d] = None
      BY <1>3, <2>1, <2>3
    <3> QED
      BY <2>2, <2>3, <3>1 DEF PhaseOf
  <2>4. CASE d \notin S
    <3>1. drafts'[d] = drafts[d] /\ converted'[d] = converted[d]
      BY <1>3, <2>1, <2>4
    <3>2. CASE drafts[d] = None
      BY <2>2, <2>4, <3>1, <3>2 DEF PhaseOf
    <3>3. CASE drafts[d] # None
      <4>1. draft_groups[g] # None /\ d \in DraftsOf(g)
        BY <3>3, PhaseOfNote
      <4>2. d \in Left(S, g)
        BY <2>4, <4>1 DEF Left, OfGroup
      <4>3. /\ draft_groups'[g].payer_id = draft_groups[g].payer_id
            /\ draft_groups'[g].discarded = draft_groups[g].discarded
        BY <1>1, <2>1, <4>1, <4>2, CutRecord
      <4> QED
        BY <2>2, <2>4, <3>1, <3>3, <4>3 DEF PhaseOf
    <3> QED
      BY <3>2, <3>3
  <2> QED
    BY <2>3, <2>4
<1>5. Rephased(S, phase)
  BY <1>2, <1>3, <1>4 DEF Rephased
<1>6. ThePrepaid!Move(S, phase)
  BY <1>1, <1>5, NotesMove
<1>7. S = {} => PrepaidNotes' = PrepaidNotes
  BY <1>1, <1>2, <1>3, <1>4, NotesStay
<1>8. ASSUME NEW d \in S
      PROVE  /\ d \in ThePrepaid!Notes
             /\ PrepaidNotes[d].phase
                  = PhaseOf(drafts[d], 0, draft_groups[drafts[d].draft_group_id])
  <2>1. d \in DraftIds /\ drafts[d] # None
    BY <1>3
  <2>2. written[d] = drafts[d] /\ drafts[d] \in Draft
    BY <1>1, <2>1, DraftTypes DEF History
  <2>3. d \in WrittenFor(written[d].draft_group_id)
    BY <2>1, <2>2 DEF WrittenFor
  <2>4. d \in ThePrepaid!Notes
    BY <2>3, BundleIs
  <2> QED
    BY <2>1, <2>2, <2>4, PhaseOfNote
<1> QED
  BY <1>1, <1>3, <1>6, <1>7, <1>8, AllWrittenKept

LEMMA NotesDropped ==
  ASSUME NotesInv, DraftsTypeOK', NEW S \in SomeIds, DeleteDrafts(S)
  PROVE  PrepaidStep /\ AllWritten'
<1>1. DraftsTypeOK /\ GroupsAddUp /\ History
  BY DEF NotesInv, DraftsInv
<1>2. /\ S \subseteq DraftIds /\ S # {} /\ RemoveDrafts(S)
      /\ UNCHANGED <<next_draft_id, written, converted>>
      /\ \A d \in S : drafts[d] # None /\ assert_can_delete_draft(drafts[d].draft_group_id)
  BY DEF DeleteDrafts, SomeIds
<1>3. DraftsRemoved(S)
  BY <1>2 DEF DraftsRemoved, RemoveDrafts, assert_can_delete_draft, Open
<1>4. GroupsCut(S)
  BY <1>1, <1>2, RemovedGrouped
<1>5. \A d \in S : "dropped" = IF converted'[d] # 0 THEN "granted" ELSE "dropped"
  BY <1>1, <1>2 DEF History
<1>6. /\ ThePrepaid!Move(S, "dropped") /\ S \subseteq ThePrepaid!Notes /\ AllWritten'
      /\ \A d \in S : PrepaidNotes[d].phase
                        = PhaseOf(drafts[d], 0, draft_groups[drafts[d].draft_group_id])
  BY <1>2, <1>3, <1>4, <1>5, NotesLeave
<1>7. \A d \in S : PrepaidNotes[d].phase = "void"
  BY <1>2, <1>6 DEF PhaseOf, assert_can_delete_draft
<1>8. ASSUME NEW g \in GroupIds PROVE Share(draft_groups'[g]) = Share(draft_groups[g])
  <2>1. CASE OfGroup(S, drafts, g) = {}
    BY <1>4, <2>1 DEF GroupsCut
  <2>2. CASE OfGroup(S, drafts, g) # {}
    <3>1. draft_groups[g] # None /\ draft_groups[g].payer_id = None
      BY <1>2, <2>2 DEF OfGroup, assert_can_delete_draft
    <3>2. CASE Left(S, g) = {}
      BY <1>4, <2>2, <3>1, <3>2 DEF GroupsCut, Share
    <3>3. CASE Left(S, g) # {}
      BY <1>1, <1>4, <3>1, <3>3, CutRecord DEF Share
    <3> QED
      BY <3>2, <3>3
  <2> QED
    BY <2>1, <2>2
<1>9. Pot' = Pot
  BY <1>8, PotKept
<1>10. ThePrepaid!Drop(S)
  BY <1>6, <1>7, <1>9 DEF ThePrepaid!Drop
<1> QED
  BY <1>2, <1>6, <1>10 DEF PrepaidStep, ThePrepaid!Next

LEMMA NotesGranted ==
  ASSUME NotesInv, DraftsTypeOK', NEW T, T \subseteq DraftIds, NEW ids, OrderOf(ids, T),
         convert_drafts(ids)
  PROVE  PrepaidStep /\ AllWritten'
<1>1. DraftsTypeOK /\ GroupsAddUp /\ History
  BY DEF NotesInv, DraftsInv
<1>2. /\ DraftsRemoved(T) /\ GroupsCut(T)
      /\ \A k \in 1..Len(ids) : converted'[ids[k]] = Len(lockups) + k
  BY <1>1, DraftsConverted
<1>3. next_draft_id' = next_draft_id
  BY DEF convert_drafts
<1>4. \A d \in T : drafts[d] # None /\ assert_can_convert_draft(drafts[d].draft_group_id)
  BY DEF OrderOf, Named, convert_drafts, Convertible
<1>5. ASSUME NEW d \in T PROVE converted'[d] # 0
  <2>1. PICK k \in 1..Len(ids) : ids[k] = d
    BY DEF OrderOf, Named
  <2>2. converted'[d] = Len(lockups) + k
    BY <1>2, <2>1
  <2>3. Len(lockups) \in Nat
    BY <1>1, DraftTypes
  <2>4. Len(ids) \in Nat
    BY DEF OrderOf
  <2> QED
    BY <2>2, <2>3, <2>4
<1>6. /\ ThePrepaid!Move(T, "granted") /\ T \subseteq ThePrepaid!Notes /\ AllWritten'
      /\ T = {} => PrepaidNotes' = PrepaidNotes
      /\ \A d \in T : PrepaidNotes[d].phase
                        = PhaseOf(drafts[d], 0, draft_groups[drafts[d].draft_group_id])
  BY <1>2, <1>3, <1>5, NotesLeave
<1>7. \A d \in T : PrepaidNotes[d].phase = "paid"
  BY <1>4, <1>6 DEF PhaseOf, assert_can_convert_draft
<1>8. /\ BalanceOf(T, drafts) \in Nat /\ Pot' \in Int
      /\ Pot = Pot' + BalanceOf(T, drafts)
  BY <1>1, <1>2, <1>4, PotConverted, PotBecomes
<1>9. ThePrepaid!Worth(T) = BalanceOf(T, drafts)
  <2>1. T \subseteq 1..(next_draft_id - 1)
    BY <1>6, BundleIs
  <2>2. \A d \in T : drafts[d] = written[d]
    BY <1>1, <1>4 DEF History
  <2>3. Counted(T, written)
    BY <1>1, <1>4, <2>2, DraftsCounted DEF Counted
  <2>4. ThePrepaid!Worth(T) = BalanceOf(T, written)
    BY <1>1, <2>1, <2>3, WorthIs
  <2>5. BalanceOf(T, written) = BalanceOf(T, drafts)
    BY <2>2, BalanceOfEquals
  <2> QED
    BY <2>4, <2>5
<1>10. CASE T = {}
  <2>1. BalanceOf(T, drafts) = 0
    BY <1>10, BalanceOfNone
  <2>2. Pot = Pot' + 0
    BY <1>8, <2>1, Zenon
  <2>3. PICK R \in Int : R = Pot'
    BY <1>8
  <2>4. R + 0 = R
    OBVIOUS
  <2>5. Pot' = Pot
    BY <2>2, <2>3, <2>4, Zenon
  <2> QED
    BY <1>6, <1>10, <2>5 DEF PrepaidStep
<1>11. CASE T # {}
  <2>1. PICK R \in Int, w \in Nat : R = Pot' /\ w = ThePrepaid!Worth(T) /\ Pot = R + w
    BY <1>8, <1>9
  <2>2. R = (R + w) - w
    OBVIOUS
  <2>3. Pot' = Pot - ThePrepaid!Worth(T)
    BY <2>1, <2>2
  <2>4. ThePrepaid!Grant(T)
    BY <1>6, <1>7, <2>3 DEF ThePrepaid!Grant
  <2> QED
    BY <1>6, <1>11, <2>4 DEF PrepaidStep, ThePrepaid!Next
<1> QED
  BY <1>10, <1>11

LEMMA NotesPaid ==
  ASSUME NotesInv, DraftsTypeOK', NEW f \in 1..Len(fundings), FtOnTransferFunding(f)
  PROVE  PrepaidStep /\ AllWritten'
<1> DEFINE g == fundings[f].draft_group_id
           p == fundings[f].sender_id
<1>1. DraftsInv /\ DraftsTypeOK /\ History
  BY DEF NotesInv, DraftsInv
<1>2. g \in GroupIds /\ Financing(f, g)
  BY <1>1, FundingFinances
<1>3. /\ Open(g) /\ draft_groups[g].total_amount = fundings[f].amount
      /\ draft_groups' = [draft_groups EXCEPT ![g].payer_id = p]
      /\ UNCHANGED <<drafts, next_draft_id, written, converted>>
  BY <1>2 DEF Financing
<1>4. p \in Accounts /\ fundings[f].amount \in Nat \ {0}
  BY <1>1, <1>2, FinancingAccepts
<1>5. Pot' = Pot + fundings[f].amount
  BY <1>1, <1>2, PotFunded
<1>6. p # None
  BY <1>4, NoneIsNoValue
<1> HIDE DEF g, p
<1>7. draft_groups \in [GroupIds -> DraftGroup \cup {None}]
  BY <1>1 DEF DraftsTypeOK
<1>8. draft_groups[g] \in DraftGroup /\ ~draft_groups[g].discarded
  BY <1>2, <1>3, <1>7 DEF Open
<1>9. /\ \A h \in GroupIds : h # g => draft_groups'[h] = draft_groups[h]
      /\ draft_groups'[g] = [draft_groups[g] EXCEPT !.payer_id = p]
  BY <1>2, <1>3, <1>7
<1>10. \A d \in DraftsOf(g) : PhaseOf(drafts[d], 0, draft_groups'[g]) = "paid"
  BY <1>6, <1>8, <1>9 DEF PhaseOf, DraftsOf, DraftGroup
<1>11. ThePrepaid!Move(ThePrepaid!Bundle(g), "paid")
  BY <1>2, <1>3, <1>9, <1>10, GroupMoves
<1>12. ThePrepaid!Worth(ThePrepaid!Bundle(g)) = fundings[f].amount
  <2>1. ThePrepaid!Bundle(g) = WrittenFor(g) /\ WrittenFor(g) \subseteq 1..(next_draft_id - 1)
    BY BundleIs
  <2>2. Counted(WrittenFor(g), written)
    BY <1>1, <1>2, DraftsCounted
  <2>3. ThePrepaid!Worth(WrittenFor(g)) = BalanceOf(WrittenFor(g), written)
    BY <1>1, <2>1, <2>2, WorthIs
  <2>4. draft_groups[g].total_amount = BalanceOf(WrittenFor(g), written)
    BY <1>1, <1>2, <1>3, OpenHasAll
  <2> QED
    BY <1>3, <2>1, <2>3, <2>4
<1>13. PICK d \in ThePrepaid!Bundle(g) : TRUE
  <2>1. draft_groups[g].total_amount = BalanceOf(DraftsOf(g), drafts)
    BY <1>1, <1>2, <1>3, OpenHasAll
  <2>2. DraftsOf(g) # {}
    BY <1>3, <1>4, <2>1, BalanceOfNone
  <2> QED
    BY <1>2, <1>3, <2>2, OpenNotes
<1>14. d \in ThePrepaid!Notes /\ PrepaidNotes[d].bundle = g
  BY <1>13 DEF ThePrepaid!Bundle
<1>15. ThePrepaid!Pay(g)
  BY <1>2, <1>3, <1>5, <1>11, <1>12, OpenNotes DEF ThePrepaid!Pay
<1> QED
  BY <1>3, <1>14, <1>15, AllWrittenKept DEF PrepaidStep, ThePrepaid!Next, NotesInv

LEMMA NotesWritten ==
  ASSUME NotesInv, DraftsTypeOK', NEW caller \in Accounts, NEW batch \in Batches,
         CreateDrafts(caller, batch)
  PROVE  PrepaidStep /\ AllWritten'
<1> DEFINE N == NewIds(batch)
           n == next_draft_id - 1
           m == next_draft_id' - 1
<1>1. DraftsTypeOK /\ History /\ GroupsAddUp /\ AllWritten
  BY DEF NotesInv, DraftsInv
<1>2. DraftsAdded(N) /\ GroupsExtended(N)
  BY <1>1, BatchAdded, BatchGrouped
<1>3. n \in Nat /\ m \in Nat /\ m > n /\ N = (n + 1)..m
  <2>1. Len(batch) \in Nat /\ Len(batch) >= 1
    BY BatchLength
  <2>2. next_draft_id' = next_draft_id + Len(batch)
    BY DEF CreateDrafts
  <2>3. next_draft_id \in Nat /\ next_draft_id >= 1
    BY <1>1, DraftBounds DEF DraftsTypeOK
  <2> QED
    BY <2>1, <2>2, <2>3 DEF NewIds
<1>4. converted' = converted
  BY DEF CreateDrafts
<1>5. /\ Len(PrepaidNotes) = n
      /\ PrepaidNotes = [d \in 1..n |-> NoteOf(written[d], Phase(d))]
  BY <1>1, NotesFacts DEF NotesAre
<1>6. /\ Len(PrepaidNotes') = m
      /\ PrepaidNotes' = [d \in 1..m |-> NoteOf(written'[d], Phase(d)')]
  BY NotesLater DEF NotesAre
<1>7. 1..n \subseteq DraftIds /\ ThePrepaid!Notes = 1..n
  BY BundleIs
<1> HIDE DEF N, n, m
<1>8. \A d \in 1..n : d \notin N
  BY <1>3
<1>9. ASSUME NEW d \in 1..n PROVE written'[d] = written[d] /\ Phase(d)' = Phase(d)
  <2> DEFINE g == written[d].draft_group_id
  <2>1. drafts'[d] = drafts[d] /\ written'[d] = written[d]
    BY <1>2, <1>7, <1>8 DEF DraftsAdded
  <2>2. /\ Phase(d)' = PhaseOf(drafts[d], converted[d], draft_groups'[g])
        /\ Phase(d) = PhaseOf(drafts[d], converted[d], draft_groups[g])
    BY <1>4, <2>1, PhaseIs
  <2>3. drafts[d] # None => g \in GroupIds /\ draft_groups[g] # None
    BY <1>7, PhaseOfNote
  <2>4. drafts[d] # None => /\ draft_groups'[g].payer_id = draft_groups[g].payer_id
                            /\ draft_groups'[g].discarded = draft_groups[g].discarded
    BY <1>1, <1>2, <2>3, GroupsTyped
  <2> QED
    BY <2>1, <2>2, <2>4 DEF PhaseOf
<1>10. ASSUME NEW d \in N
       PROVE  /\ PrepaidNotes'[d].phase = "open" /\ PrepaidNotes'[d].amount > 0
              /\ written'[d] # None /\ d \in DraftIds
              /\ \A e \in ThePrepaid!Bundle(PrepaidNotes'[d].bundle) :
                   PrepaidNotes[e].phase = "open"
  <2> DEFINE g == written'[d].draft_group_id
  <2>1. /\ d \in DraftIds /\ written'[d] \in Draft /\ drafts'[d] = written'[d]
        /\ Checked(written'[d]) /\ Open(g)
    BY <1>2 DEF DraftsAdded
  <2>2. g \in GroupIds /\ written'[d] # None
    BY <2>1, DraftFields
  <2>3. balance_of(written'[d]) > 0
    BY <2>1, CheckedBalance
  <2>4. d \in 1..m
    BY <1>3
  <2>5. PrepaidNotes'[d] = NoteOf(written'[d], Phase(d)')
    BY <1>6, <2>4
  <2>6. Phase(d)' = "open"
    <3>1. draft_groups[g] # None /\ ~draft_groups[g].discarded /\ draft_groups[g].payer_id = None
      BY <2>1 DEF Open
    <3>2. /\ draft_groups'[g].payer_id = draft_groups[g].payer_id
          /\ draft_groups'[g].discarded = draft_groups[g].discarded
      BY <1>1, <1>2, <2>2, <3>1, GroupsTyped
    <3> QED
      BY <2>1, <2>2, <3>1, <3>2, PhaseIs DEF PhaseOf
  <2>7. \A e \in ThePrepaid!Bundle(g) : PrepaidNotes[e].phase = "open"
    BY <2>1, <2>2, OpenNotes
  <2> QED
    BY <2>1, <2>2, <2>3, <2>5, <2>6, <2>7 DEF NoteOf
<1>11. AllWritten'
  <2> SUFFICES ASSUME NEW d \in 1..m PROVE d \in DraftIds /\ written'[d] # None
    BY DEF AllWritten, m
  <2>1. CASE d \in N
    BY <1>10, <2>1
  <2>2. CASE d \notin N
    <3>1. d \in 1..n
      BY <1>3, <2>2
    <3> QED
      BY <1>1, <1>9, <3>1 DEF AllWritten, n
  <2> QED
    BY <2>1, <2>2
<1>12. SubSeq(PrepaidNotes', 1, Len(PrepaidNotes)) = PrepaidNotes
  <2>1. SubSeq(PrepaidNotes', 1, n) = [d \in 1..n |-> PrepaidNotes'[d]]
    BY <1>3
  <2>2. ASSUME NEW d \in 1..n PROVE PrepaidNotes'[d] = NoteOf(written[d], Phase(d))
    <3>1. d \in 1..m
      BY <1>3
    <3> QED
      BY <1>6, <1>9, <3>1
  <2> QED
    BY <1>5, <2>1, <2>2
<1>13. ASSUME NEW g \in GroupIds PROVE Share(draft_groups'[g]) = Share(draft_groups[g])
  <2>1. CASE OfGroup(N, drafts', g) = {}
    BY <1>2, <2>1 DEF GroupsExtended
  <2>2. CASE OfGroup(N, drafts', g) # {}
    <3>1. Open(g)
      BY <1>2, <2>2 DEF DraftsAdded, OfGroup
    <3>2. draft_groups[g] # None /\ draft_groups[g].payer_id = None
      BY <3>1 DEF Open
    <3>3. draft_groups'[g].payer_id = None
      BY <1>1, <1>2, <3>2, GroupsTyped
    <3> QED
      BY <3>2, <3>3 DEF Share
  <2> QED
    BY <2>1, <2>2
<1>14. Pot' = Pot
  BY <1>13, PotKept
<1>15. ThePrepaid!Write
  BY <1>3, <1>5, <1>6, <1>10, <1>12, <1>14 DEF ThePrepaid!Write
<1> QED
  BY <1>11, <1>15 DEF PrepaidStep, ThePrepaid!Next

LEMMA PrepaidNext ==
  ASSUME NotesInv, DraftsTypeOK', [DraftsNext]_allVars
  PROVE  PrepaidStep /\ AllWritten'
<1>1. CASE Next /\ UNCHANGED draftVars
  BY <1>1, NotesKept DEF draftVars
<1>2. CASE UNCHANGED allVars
  BY <1>2, NotesKept DEF allVars, draftVars
<1>3. ASSUME NEW caller \in Accounts, CreateDraftGroup(caller)
      PROVE  PrepaidStep /\ AllWritten'
  BY <1>3, NoteGroupCreated
<1>4. ASSUME NEW caller \in Accounts, NEW batch \in Batches, CreateDrafts(caller, batch)
      PROVE  PrepaidStep /\ AllWritten'
  BY <1>4, NotesWritten
<1>5. ASSUME NEW caller \in Accounts, NEW g \in GroupIds, DiscardDraftGroup(caller, g)
      PROVE  PrepaidStep /\ AllWritten'
  BY <1>5, NoteDiscarded
<1>6. ASSUME NEW caller \in Accounts, NEW account_ids \in (SUBSET Operators) \ {{}},
             \/ AddToDraftOperatorsWhitelist(caller, account_ids)
             \/ RemoveFromDraftOperatorsWhitelist(caller, account_ids)
      PROVE  PrepaidStep /\ AllWritten'
  BY <1>6, NotesKept DEF AddToDraftOperatorsWhitelist, RemoveFromDraftOperatorsWhitelist
<1>7. ASSUME NEW S \in SomeIds, DeleteDrafts(S)
      PROVE  PrepaidStep /\ AllWritten'
  BY <1>7, NotesDropped
<1>8. ASSUME NEW S \in SomeIds, NEW ids \in Bijection(1..Cardinality(S), S), ConvertDrafts(ids)
      PROVE  PrepaidStep /\ AllWritten'
  <2>1. S \subseteq DraftIds /\ convert_drafts(ids)
    BY <1>8 DEF SomeIds, ConvertDrafts
  <2> QED
    BY <2>1, BijectionOrders, NotesGranted
<1>9. ASSUME NEW sender_id \in Funders, NEW amount \in FundingAmounts, NEW g \in GroupIds,
             NEW try_convert \in BOOLEAN, FtTransferCall(sender_id, amount, g, try_convert)
      PROVE  PrepaidStep /\ AllWritten'
  BY <1>9, NotesKept DEF FtTransferCall
<1>10. ASSUME NEW f \in 1..Len(fundings), FtOnTransferFunding(f)
       PROVE  PrepaidStep /\ AllWritten'
  BY <1>10, NotesPaid
<1>11. ASSUME NEW f \in 1..Len(fundings), FtOnTransferRefused(f) \/ FtResolveTransfer(f)
       PROVE  PrepaidStep /\ AllWritten'
  BY <1>11, NotesKept DEF FtOnTransferRefused, FtResolveTransfer
<1>12. ASSUME NEW f \in 1..Len(fundings), RunConversion(f)
       PROVE  PrepaidStep /\ AllWritten'
  <2> DEFINE T == fundings[f].draft_indices
  <2>1. T \in SUBSET DraftIds
    BY <1>12, ConversionEnds DEF NotesInv
  <2>2. ASSUME NEW ids \in Bijection(1..Cardinality(T), T), convert_drafts(ids)
        PROVE  PrepaidStep /\ AllWritten'
    <3>1. T \subseteq DraftIds
      BY <2>1
    <3> HIDE DEF T
    <3>2. OrderOf(ids, T)
      BY <3>1, BijectionOrders
    <3> QED
      BY <2>2, <3>1, <3>2, NotesGranted
  <2>3. ASSUME UNCHANGED <<drafts, draft_groups, next_draft_id, written, converted>>
        PROVE  PrepaidStep /\ AllWritten'
    BY <2>3, NotesKept
  <2> QED
    BY <1>12, <2>2, <2>3 DEF RunConversion
<1> QED
  BY <1>1, <1>2, <1>3, <1>4, <1>5, <1>6, <1>7, <1>8, <1>9, <1>10, <1>11, <1>12 DEF DraftsNext

LEMMA NotesInitially == DraftsInit => NotesInv /\ ThePrepaid!Init
<1> SUFFICES ASSUME DraftsInit PROVE NotesInv /\ ThePrepaid!Init
  OBVIOUS
<1>1. DraftsInv /\ DraftsTypeOK
  BY DraftsInvInit DEF DraftsInv
<1>2. next_draft_id - 1 = 0
  BY DEF DraftsInit
<1>3. PrepaidNotes = <<>>
  BY <1>2 DEF PrepaidNotes
<1>4. Pot = 0
  BY NothingPaidYet
<1> QED
  BY <1>1, <1>2, <1>3, <1>4 DEF ThePrepaid!Init, NotesInv, AllWritten

(* Every step of the contract is a step of the prepaid notes, or none: a   *)
(* note is written into a bundle that nobody paid for or voided, a bundle  *)
(* is paid for as a whole, by exactly the worth of all its notes, or       *)
(* voided, and a note of a paid bundle is granted once, out of what was    *)
(* paid (lib.rs:281-467, model/src/draft.rs, ft_token_receiver.rs).        *)
THEOREM PrepaidImplemented == DraftsSpec => ImplementsPrepaid
<1>1. DraftsInit => NotesInv /\ ThePrepaid!Init
  BY NotesInitially
<1>2. NotesInv /\ [DraftsNext]_allVars /\ (DraftsInv)'
        => PrepaidStep /\ AllWritten'
  BY PrepaidNext DEF DraftsInv
<1>3. PrepaidStep => [ThePrepaid!Next]_(ThePrepaid!pvars)
  BY DEF PrepaidStep, ThePrepaid!pvars
<1>4. NotesInv <=> DraftsInv /\ AllWritten
  BY DEF NotesInv
<1> QED
  BY <1>1, <1>2, <1>3, <1>4, DraftsInvariance, PTL
     DEF DraftsSpec, ImplementsPrepaid, ThePrepaid!Spec

-----------------------------------------------------------------------------
(* The escrow of the whole contract holds what is not paid for drafts and  *)
(* not in flight: what the registry books.                                 *)

Backing == custody - Pot - InFlightDeposits

LEMMA BackingIs ==
  ASSUME ChecksDecideRightly
  PROVE  WholeBooks => Backing = Booked /\ Booked \in Nat
<1> SUFFICES ASSUME WholeBooks PROVE Backing = Booked /\ Booked \in Nat
  OBVIOUS
<1>1. PICK b \in Nat, p \in Nat, q \in Nat :
        b = Booked /\ p = Pot /\ q = InFlightDeposits
  BY WholeNaturals, BookedNatural DEF WholeBooks
<1>2. custody = b + p + q
  BY <1>1 DEF WholeBooks, WholeHeld, Whole
<1>3. (b + p + q) - p - q = b
  OBVIOUS
<1> QED
  BY <1>1, <1>2, <1>3 DEF Backing

LEMMA BackingLater ==
  ASSUME ChecksDecideRightly
  PROVE  WholeBooks' => (Backing = Booked /\ Booked \in Nat)'
<1>1. WholeBooks => Backing = Booked /\ Booked \in Nat
  BY BackingIs
<1> QED
  BY <1>1, PTL

(* It moves with the contract's own account while no draft is paid for and *)
(* no funding on its way.                                                  *)
SameClaims == WholeBooks /\ custody' \in Nat /\ Pot' = Pot /\ InFlightDeposits' = InFlightDeposits

LEMMA BackingMoves ==
  ASSUME SameClaims
  PROVE  /\ \A s \in Int : /\ custody' = custody + s => Backing' = Backing + s
                           /\ custody' = custody - s => Backing' = Backing - s
         /\ custody' = custody => Backing' = Backing
         /\ custody' > custody => Backing' > Backing
         /\ custody' < custody => Backing' < Backing
<1>1. PICK c \in Nat, d \in Nat, p \in Nat, q \in Nat :
        /\ c = custody /\ d = custody' /\ p = Pot /\ q = InFlightDeposits
        /\ p = Pot' /\ q = InFlightDeposits'
  BY WholeNaturals DEF SameClaims, WholeBooks
<1>2. Backing = c - p - q /\ Backing' = d - p - q
  BY <1>1 DEF Backing
<1>3. /\ \A s \in Int : /\ d = c + s => d - p - q = (c - p - q) + s
                        /\ d = c - s => d - p - q = (c - p - q) - s
      /\ d = c => d - p - q = c - p - q
      /\ d > c => d - p - q > c - p - q
      /\ d < c => d - p - q < c - p - q
  OBVIOUS
<1> QED
  BY <1>1, <1>2, <1>3

LEMMA WholeSum ==
  ASSUME NEW f, NEW n
  PROVE  WholeEscrow!SumTo(f, n) = SumTo(f, n)
BY DEF WholeEscrow!SumTo, SumTo

(* What the registry's escrow allows, the whole contract's does.           *)
LEMMA RegistryOpens ==
  ASSUME SameClaims, Len(EscrowGrants') \in Nat, TheEscrow!Open
  PROVE  WholeEscrow!Open
<1> DEFINE opened == (Len(EscrowGrants) + 1)..Len(EscrowGrants')
           f == [i \in 1..Len(EscrowGrants') |->
                   IF i \in opened THEN EscrowGrants'[i].granted ELSE 0]
           s == SumTo(f, Len(EscrowGrants'))
<1>1. /\ custody' > custody /\ SubSeq(EscrowGrants', 1, Len(EscrowGrants)) = EscrowGrants
      /\ \A i \in opened : EscrowGrants'[i] \in TheEscrow!New
      /\ custody' = custody + TheEscrow!SumTo(f, Len(EscrowGrants'))
      /\ EscrowOwed' = EscrowOwed
  BY DEF TheEscrow!Open
<1>2. \A i \in opened : EscrowGrants'[i] \in WholeEscrow!New
  BY <1>1 DEF TheEscrow!New, WholeEscrow!New
<1>3. \A i \in 1..Len(EscrowGrants') : f[i] \in Int
  BY <1>1 DEF TheEscrow!New
<1> HIDE DEF opened, f
<1>4. s \in Int
  BY <1>3, SumOfIntegers
<1>5. custody' = custody + s /\ s = WholeEscrow!SumTo(f, Len(EscrowGrants'))
  BY <1>1, SameSum, WholeSum
<1> HIDE DEF s
<1>6. Backing' = Backing + WholeEscrow!SumTo(f, Len(EscrowGrants')) /\ Backing' > Backing
  BY <1>1, <1>4, <1>5, BackingMoves
<1> QED
  BY <1>1, <1>2, <1>6 DEF WholeEscrow!Open, Backing, opened, f

LEMMA RegistryPays ==
  ASSUME SameClaims, Len(EscrowGrants) \in Nat, NEW owner, TheEscrow!Pay(owner)
  PROVE  WholeEscrow!Pay(owner)
<1> DEFINE paid == [i \in 1..Len(EscrowGrants) |-> EscrowGrants'[i].paid - EscrowGrants[i].paid]
           s == SumTo(paid, Len(EscrowGrants))
<1>1. /\ custody' < custody /\ EscrowOwed' = EscrowOwed
      /\ Len(EscrowGrants') = Len(EscrowGrants)
      /\ \A i \in 1..Len(EscrowGrants) :
           /\ EscrowGrants'[i] = [EscrowGrants[i] EXCEPT !.paid = @ + paid[i]]
           /\ paid[i] \in 0..(EscrowGrants[i].granted - EscrowGrants[i].paid - EscrowGrants[i].returned)
           /\ paid[i] > 0 => EscrowGrants[i].owner = owner
      /\ custody' = custody - TheEscrow!SumTo(paid, Len(EscrowGrants))
  BY DEF TheEscrow!Pay, TheEscrow!Grants, TheEscrow!Held
<1> DEFINE held(i) == EscrowGrants[i].granted - EscrowGrants[i].paid - EscrowGrants[i].returned
<1>2. ASSUME NEW i \in 1..Len(EscrowGrants) PROVE paid[i] \in Int
  <2>1. paid[i] \in 0..held(i)
    BY <1>1
  <2> HIDE DEF paid, held
  <2> QED
    BY ONLY <2>1
<1> HIDE DEF paid
<1>3. s \in Int
  BY <1>2, SumOfIntegers
<1>4. custody' = custody - s /\ s = WholeEscrow!SumTo(paid, Len(EscrowGrants))
  BY <1>1, SameSum, WholeSum
<1> HIDE DEF s
<1>5. Backing' = Backing - WholeEscrow!SumTo(paid, Len(EscrowGrants)) /\ Backing' < Backing
  BY <1>1, <1>3, <1>4, BackingMoves
<1> QED
  BY <1>1, <1>5 DEF WholeEscrow!Pay, WholeEscrow!Grants, WholeEscrow!Held, Backing, paid

LEMMA RegistryReturns ==
  ASSUME SameClaims, NEW i, TheEscrow!Return(i)
  PROVE  WholeEscrow!Return(i)
<1>1. Backing' = Backing
  BY BackingMoves DEF TheEscrow!Return
<1> QED
  BY <1>1 DEF TheEscrow!Return, TheEscrow!Held, WholeEscrow!Return, WholeEscrow!Held, Backing

LEMMA RegistryPaysBack ==
  ASSUME SameClaims, NEW payer, NEW amount \in Int,
         TheEscrow!PayBack(payer, amount) \/ TheEscrow!Regrant(payer, amount)
  PROVE  WholeEscrow!PayBack(payer, amount) \/ WholeEscrow!Regrant(payer, amount)
<1>1. CASE TheEscrow!PayBack(payer, amount)
  <2>1. Backing' = Backing - amount
    BY <1>1, BackingMoves DEF TheEscrow!PayBack
  <2> QED
    BY <1>1, <2>1 DEF TheEscrow!PayBack, WholeEscrow!PayBack, Backing
<1>2. CASE TheEscrow!Regrant(payer, amount)
  <2>1. Backing' = Backing
    BY <1>2, BackingMoves DEF TheEscrow!Regrant
  <2> QED
    BY <1>2, <2>1 DEF TheEscrow!Regrant, WholeEscrow!Regrant, Backing
<1> QED
  BY <1>1, <1>2

EscrowStep == [WholeEscrow!Next]_(WholeEscrow!evars)

LEMMA GrantsLength == IInv => Len(EscrowGrants) = Len(lockups) /\ Len(lockups) \in Nat
<1> SUFFICES ASSUME IInv PROVE Len(EscrowGrants) = Len(lockups) /\ Len(lockups) \in Nat
  OBVIOUS
<1>1. Len(lockups) \in Nat
  BY TypeFacts DEF IInv
<1>2. Len(GrantsOf(lockups, indexer, promises)) = Len(lockups)
  BY <1>1, GrantsFacts
<1> QED
  BY <1>1, <1>2, Mapping DEF Mapped

LEMMA GrantsLengthLater == IInv' => (Len(EscrowGrants) = Len(lockups) /\ Len(lockups) \in Nat)'
BY GrantsLength, PTL

LEMMA EscrowRegistry ==
  ASSUME ChecksDecideRightly, WholeBooks, WholeBooks', [Next]_vars, UNCHANGED draftVars
  PROVE  EscrowStep
<1>1. IInv /\ Ledger /\ IInv'
  BY DEF WholeBooks
<1>2. Pot' = Pot /\ InFlightDeposits' = InFlightDeposits
  BY PotSame DEF draftVars, InFlightDeposits, InFlightDeposit
<1>3. SameClaims
  <2>1. custody' \in Nat
    BY <1>1 DEF IInv, TypeOK
  <2> QED
    BY <1>2, <2>1 DEF SameClaims
<1>4. Len(EscrowGrants) \in Nat /\ Len(EscrowGrants') \in Nat
  BY <1>1, GrantsLength, GrantsLengthLater
<1>5. [TheEscrow!Next]_(TheEscrow!evars)
  BY <1>1, EscrowNext
<1>6. CASE TheEscrow!Open
  BY <1>3, <1>4, <1>6, RegistryOpens DEF EscrowStep, WholeEscrow!Next
<1>7. ASSUME NEW owner \in Accounts, TheEscrow!Pay(owner) PROVE EscrowStep
  BY <1>3, <1>4, <1>7, RegistryPays DEF EscrowStep, WholeEscrow!Next
<1>8. ASSUME NEW i \in 1..Len(EscrowGrants), TheEscrow!Return(i) PROVE EscrowStep
  BY <1>3, <1>8, RegistryReturns DEF EscrowStep, WholeEscrow!Next, WholeEscrow!Grants
<1>9. ASSUME NEW payer \in Accounts, NEW amount \in 1..EscrowOwed[payer],
             TheEscrow!PayBack(payer, amount) \/ TheEscrow!Regrant(payer, amount)
      PROVE  EscrowStep
  BY <1>3, <1>9, RegistryPaysBack DEF EscrowStep, WholeEscrow!Next
<1>10. CASE UNCHANGED TheEscrow!evars
  <2>1. EscrowGrants' = EscrowGrants /\ EscrowOwed' = EscrowOwed /\ custody' = custody
    BY <1>10 DEF TheEscrow!evars
  <2>2. Backing' = Backing
    BY <1>3, <2>1, BackingMoves
  <2> QED
    BY <2>1, <2>2 DEF EscrowStep, WholeEscrow!evars, Backing
<1> QED
  BY <1>5, <1>6, <1>7, <1>8, <1>9, <1>10 DEF TheEscrow!Next, TheEscrow!Grants

(* What leaves the lockups and their transfers alone leaves the escrow     *)
(* alone: fundings and refunds only move what is not its own.              *)
LEMMA EscrowAlone ==
  ASSUME ChecksDecideRightly, WholeBooks, WholeBooks',
         UNCHANGED <<lockups, account_lockups, promises, indexer>>
  PROVE  EscrowStep
<1>1. IInv /\ Ledger /\ IInv'
  BY DEF WholeBooks
<1>2. Booked' = Booked
  BY <1>1, LedgerKept
<1>3. Backing' = Backing
  BY <1>2, BackingIs, BackingLater
<1>4. EscrowGrants' = EscrowGrants /\ EscrowOwed' = EscrowOwed
  BY <1>1, Mapping, MappingLater DEF Mapped
<1> QED
  BY <1>3, <1>4 DEF EscrowStep, WholeEscrow!evars, Backing

(* A grant of which nothing is paid or returned.                           *)
LEMMA GrantIsNew ==
  ASSUME NEW l \in LockupType, l.claimed_balance = 0,
         total_balance(l.schedule) \in Nat \ {0}
  PROVE  /\ GrantOf(l, Created(l), 0) \in WholeEscrow!New
         /\ GrantOf(l, Created(l), 0).granted = total_balance(l.schedule)
<1>1. /\ l.account_id \in Accounts
      /\ l.termination_config # None => l.termination_config.beneficiary_id \in Accounts
  BY LockupFields
<1>2. GrantOf(l, Created(l), 0)
        = [owner |-> l.account_id,
           payer |-> IF l.termination_config = None THEN None
                     ELSE l.termination_config.beneficiary_id,
           granted |-> total_balance(l.schedule), paid |-> 0, returned |-> 0]
  BY DEF GrantOf, Created
<1> QED
  BY <1>1, <1>2 DEF WholeEscrow!New

(* The grants of the lockups a conversion makes.                           *)
LEMMA LotGrants ==
  ASSUME IInv, Ledger, IInv', NEW made, NEW n, LotAdded(made, n)
  PROVE  /\ Len(EscrowGrants) = Len(lockups) /\ Len(EscrowGrants') = Len(lockups) + n
         /\ \A i \in 1..Len(lockups) : EscrowGrants'[i] = EscrowGrants[i]
         /\ \A k \in 1..n :
              EscrowGrants'[Len(lockups) + k] = GrantOf(made[k], Created(made[k]), 0)
         /\ EscrowGrants = [i \in 1..Len(lockups) |-> EscrowGrants[i]]
         /\ EscrowGrants' = [i \in 1..(Len(lockups) + n) |-> EscrowGrants'[i]]
<1> DEFINE m == Len(lockups)
           G == GrantsOf(lockups, indexer, promises)
           H == GrantsOf(lockups', indexer', promises')
<1>1. m \in Nat /\ n \in Nat /\ m + n <= MaxLockups /\ MaxLockups \in Nat
  BY BoundsAssumption, TypeFacts DEF LotAdded, IInv
<1>2. /\ Len(lockups') = m + n
      /\ \A i \in 1..m : lockups'[i] = lockups[i] /\ indexer'[i] = indexer[i]
      /\ \A k \in 1..n : lockups'[m + k] = made[k] /\ indexer'[m + k] = Created(made[k])
  BY LotElements
<1>3. promises' = promises /\ promises \in Seq(Promise)
  BY LedgerFacts DEF LotAdded
<1>4. EscrowGrants = G /\ EscrowGrants' = H
  BY Mapping, MappingLater DEF Mapped
<1>5. /\ Len(G) = m /\ G = [i \in 1..m |-> G[i]]
      /\ \A i \in 1..m : G[i] = GrantOf(lockups[i], indexer[i], SumSeq(UnpaidFrom(i), promises))
  BY <1>1, GrantsFacts
<1>6. /\ Len(H) = m + n /\ H = [i \in 1..(m + n) |-> H[i]]
      /\ \A i \in 1..(m + n) :
           H[i] = GrantOf(lockups'[i], indexer'[i], SumSeq(UnpaidFrom(i), promises))
  <2>1. Len(lockups') \in Nat /\ Len(lockups') = m + n
    BY <1>1, <1>2
  <2> HIDE DEF m
  <2>2. /\ Len(H) = Len(lockups') /\ H = [i \in 1..Len(lockups') |-> H[i]]
        /\ \A i \in 1..Len(lockups') :
             H[i] = GrantOf(lockups'[i], indexer'[i], SumSeq(UnpaidFrom(i), promises'))
    BY <2>1, GrantsFacts
  <2> HIDE DEF H
  <2> QED
    BY <1>3, <2>1, <2>2
<1> HIDE DEF G, H, m
<1>7. ASSUME NEW i \in 1..m PROVE H[i] = G[i]
  <2>1. i \in 1..(m + n)
    BY <1>1
  <2> QED
    BY <1>2, <1>5, <1>6, <2>1
<1>8. ASSUME NEW k \in 1..n
      PROVE  H[m + k] = GrantOf(made[k], Created(made[k]), 0)
  <2>1. m + k \in 1..(m + n) /\ m + k \in 1..MaxLockups /\ m + k \notin 1..m
    BY <1>1
  <2>2. UnpaidFrom(m + k) \in [Promise -> Nat]
    BY <2>1, EscrowWeights
  <2>3. ASSUME NEW j \in 1..Len(promises) PROVE UnpaidFrom(m + k)[promises[j]] = 0
    <3>1. promises[j] \in Promise /\ InOrder(promises[j], lockups)
      BY LedgerFacts DEF Ledger
    <3>2. ~ (promises[j].claims[m + k].claim_amount > 0)
      BY <2>1, <3>1 DEF InOrder, m
    <3>3. promises[j].claims[m + k].claim_amount \in Nat
      BY <2>1, <3>1 DEF Promise, LockupClaim
    <3> QED
      BY <3>1, <3>2, <3>3 DEF UnpaidFrom
  <2>4. SumSeq(UnpaidFrom(m + k), promises) = 0
    BY <1>3, <2>2, <2>3, SumSeqZero
  <2> QED
    BY <1>2, <1>6, <2>1, <2>4
<1> QED
  BY <1>4, <1>5, <1>6, <1>7, <1>8 DEF m

(* A conversion opens one grant for each draft, backed by what was paid.   *)
LEMMA EscrowConverted ==
  ASSUME ChecksDecideRightly, WholeBooks, WholeBooks', NEW T, T \subseteq DraftIds, NEW ids, OrderOf(ids, T),
         convert_drafts(ids)
  PROVE  EscrowStep
<1> DEFINE m == Len(lockups)
           n == Len(ids)
           made == Lot(ids)
           worth == [k \in 1..n |-> total_balance(made[k].schedule)]
<1>1. DraftsTypeOK /\ History /\ IInv /\ Ledger /\ IInv'
  BY DEF WholeBooks, DraftsInv
<1>2. LotAdded(made, n)
  BY <1>1, LotConverted
<1>3. m \in Nat /\ n \in Nat
  BY <1>1, <1>2, TypeFacts DEF LotAdded, IInv
<1> HIDE DEF made, n
<1>4. /\ Len(EscrowGrants) = m /\ Len(EscrowGrants') = m + n
      /\ \A i \in 1..m : EscrowGrants'[i] = EscrowGrants[i]
      /\ \A k \in 1..n : EscrowGrants'[m + k] = GrantOf(made[k], Created(made[k]), 0)
      /\ EscrowGrants = [i \in 1..m |-> EscrowGrants[i]]
      /\ EscrowGrants' = [i \in 1..(m + n) |-> EscrowGrants'[i]]
  BY <1>1, <1>2, LotGrants
<1>5. EscrowOwed' = EscrowOwed
  BY <1>1, <1>2, Mapping, MappingLater DEF Mapped, LotAdded
<1>6. ASSUME NEW k \in 1..n
      PROVE  /\ worth[k] \in Nat \ {0}
             /\ EscrowGrants'[m + k] \in WholeEscrow!New
             /\ EscrowGrants'[m + k].granted = worth[k]
  <2>1. /\ made[k] \in LockupType /\ Increasing(made[k].schedule)
        /\ made[k].claimed_balance = 0 /\ total_balance(made[k].schedule) > 0
    BY <1>2 DEF LotAdded, SoundLockup
  <2>2. total_balance(made[k].schedule) \in Nat
    BY <2>1, RestOf
  <2>3. worth[k] = total_balance(made[k].schedule) /\ worth[k] \in Nat \ {0}
    BY <2>1, <2>2
  <2> QED
    BY <1>4, <2>1, <2>3, GrantIsNew
<1> DEFINE opened == (m + 1)..(m + n)
           f == [i \in 1..(m + n) |-> IF i \in opened THEN EscrowGrants'[i].granted ELSE 0]
           s == SumTo(worth, n)
<1>7. Booked' = Booked + s
  BY <1>1, <1>2, LotLedger
<1>8. \A k \in 1..n : worth[k] \in Nat
  BY <1>6
<1>9. \A i \in 1..m : f[i] = 0
  BY <1>3
<1>10. \A k \in 1..n : f[m + k] = worth[k]
  <2> SUFFICES ASSUME NEW k \in 1..n PROVE f[m + k] = worth[k]
    OBVIOUS
  <2>1. m + k \in opened /\ m + k \in 1..(m + n)
    BY <1>3
  <2> QED
    BY <1>6, <2>1
<1>11. SubSeq(EscrowGrants', 1, m) = EscrowGrants
  <2>1. SubSeq(EscrowGrants', 1, m) = [i \in 1..m |-> EscrowGrants'[i]]
    BY <1>3, <1>4
  <2> QED
    BY <1>4, <2>1
<1>12. \A i \in opened : EscrowGrants'[i] \in WholeEscrow!New
  <2> SUFFICES ASSUME NEW i \in opened PROVE EscrowGrants'[i] \in WholeEscrow!New
    OBVIOUS
  <2>1. i - m \in 1..n /\ m + (i - m) = i
    BY <1>3
  <2> QED
    BY <1>6, <2>1
<1>13. [i \in 1..Len(EscrowGrants') |->
          IF i \in opened THEN EscrowGrants'[i].granted ELSE 0] = f
  BY <1>4
<1> HIDE DEF worth, f, opened, m
<1>14. SumTo(f, m + n) = s
  <2> DEFINE z == [i \in 1..m |-> 0]
  <2>1. \A i \in 1..m : z[i] \in Int /\ f[i] = z[i] /\ z[i] = 0
    BY <1>9
  <2>2. \A k \in 1..n : worth[k] \in Int
    BY <1>8
  <2> HIDE DEF z
  <2>3. SumTo(f, m + n) = SumTo(z, m) + SumTo(worth, n)
    BY <1>3, <1>10, <2>1, <2>2, SumJoined
  <2>4. SumTo(z, m) = 0
    BY <1>3, <2>1, SumOfZeros
  <2>5. SumTo(worth, n) \in Nat
    BY <1>3, <1>8, SumOfNaturals
  <2> QED
    BY <2>3, <2>4, <2>5
<1>15. s \in Nat /\ (n > 0 => s > 0)
  <2>1. SumTo(worth, n) \in Nat
    BY <1>3, <1>8, SumOfNaturals
  <2>2. ASSUME n > 0 PROVE s > 0
    <3>1. 1 \in 1..n
      BY <1>3, <2>2
    <3>2. worth[1] \in Nat \ {0} /\ worth[1] <= SumTo(worth, n)
      BY <1>3, <1>6, <1>8, <3>1, SumCovers
    <3> QED
      BY <2>1, <3>2
  <2> QED
    BY <2>1, <2>2
<1> HIDE DEF s
<1>16. /\ Backing \in Nat /\ Backing' = Backing + s
  BY <1>7, BackingIs, BackingLater
<1>17. CASE n = 0
  <2>1. s = 0
    BY <1>3, <1>17, SumToZero DEF s
  <2>2. Backing + 0 = Backing
    BY <1>16
  <2>3. Backing' = Backing
    BY <1>16, <2>1, <2>2, Zenon
  <2>4. EscrowGrants' = EscrowGrants
    BY <1>3, <1>4, <1>17
  <2> QED
    BY <1>5, <2>3, <2>4 DEF EscrowStep, WholeEscrow!evars, Backing
<1>18. CASE n # 0
  <2>1. PICK b \in Nat, d \in Int : b = Backing /\ d = Backing' /\ d = b + s
    BY <1>15, <1>16
  <2>2. d > b
    BY <1>3, <1>15, <1>18, <2>1
  <2>3. Backing' > Backing
    BY <2>1, <2>2
  <2>4. Backing' = Backing + WholeEscrow!SumTo(f, Len(EscrowGrants'))
    BY <1>4, <1>14, <1>16, WholeSum
  <2>5. (Len(EscrowGrants) + 1)..Len(EscrowGrants') = opened
    BY <1>4 DEF opened
  <2>6. WholeEscrow!Open
    BY <1>4, <1>5, <1>11, <1>12, <1>13, <2>3, <2>4, <2>5 DEF WholeEscrow!Open, Backing
  <2> QED
    BY <2>6 DEF EscrowStep, WholeEscrow!Next
<1> QED
  BY <1>17, <1>18

LEMMA WholeEscrowNext ==
  ASSUME ChecksDecideRightly, WholeBooks, WholeBooks', [DraftsNext]_allVars
  PROVE  EscrowStep
<1>1. CASE Next /\ UNCHANGED draftVars
  BY <1>1, EscrowRegistry
<1>2. CASE UNCHANGED allVars
  BY <1>2, EscrowRegistry DEF allVars
<1>3. ASSUME NEW caller \in Accounts,
             \/ CreateDraftGroup(caller)
             \/ \E batch \in Batches : CreateDrafts(caller, batch)
             \/ \E g \in GroupIds : DiscardDraftGroup(caller, g)
      PROVE  EscrowStep
  BY <1>3, EscrowAlone DEF CreateDraftGroup, CreateDrafts, DiscardDraftGroup, vars
<1>4. ASSUME NEW caller \in Accounts, NEW account_ids \in (SUBSET Operators) \ {{}},
             \/ AddToDraftOperatorsWhitelist(caller, account_ids)
             \/ RemoveFromDraftOperatorsWhitelist(caller, account_ids)
      PROVE  EscrowStep
  BY <1>4, EscrowAlone DEF AddToDraftOperatorsWhitelist, RemoveFromDraftOperatorsWhitelist, vars
<1>5. ASSUME NEW S \in SomeIds, DeleteDrafts(S)
      PROVE  EscrowStep
  BY <1>5, EscrowAlone DEF DeleteDrafts, vars
<1>6. ASSUME NEW S \in SomeIds, NEW ids \in Bijection(1..Cardinality(S), S), ConvertDrafts(ids)
      PROVE  EscrowStep
  <2>1. S \subseteq DraftIds /\ convert_drafts(ids)
    BY <1>6 DEF SomeIds, ConvertDrafts
  <2> QED
    BY <2>1, BijectionOrders, EscrowConverted
<1>7. ASSUME NEW sender_id \in Funders, NEW amount \in FundingAmounts, NEW g \in GroupIds,
             NEW try_convert \in BOOLEAN, FtTransferCall(sender_id, amount, g, try_convert)
      PROVE  EscrowStep
  BY <1>7, EscrowAlone DEF FtTransferCall
<1>8. ASSUME NEW f \in 1..Len(fundings),
             FtOnTransferFunding(f) \/ FtOnTransferRefused(f) \/ FtResolveTransfer(f)
      PROVE  EscrowStep
  <2>1. UNCHANGED <<lockups, account_lockups, promises, indexer>>
    BY <1>8 DEF FtOnTransferFunding, FtOnTransferRefused, FtResolveTransfer, vars
  <2> QED
    BY <2>1, EscrowAlone
<1>9. ASSUME NEW f \in 1..Len(fundings), RunConversion(f)
      PROVE  EscrowStep
  <2> DEFINE T == fundings[f].draft_indices
  <2>1. T \in SUBSET DraftIds
    BY <1>9, ConversionEnds DEF WholeBooks
  <2>2. ASSUME NEW ids \in Bijection(1..Cardinality(T), T), convert_drafts(ids)
        PROVE  EscrowStep
    <3>1. T \subseteq DraftIds
      BY <2>1
    <3> HIDE DEF T
    <3>2. OrderOf(ids, T)
      BY <3>1, BijectionOrders
    <3> QED
      BY <2>2, <3>1, <3>2, EscrowConverted
  <2>3. ASSUME UNCHANGED vars PROVE EscrowStep
    BY <2>3, EscrowAlone DEF vars
  <2> QED
    BY <1>9, <2>2, <2>3 DEF RunConversion
<1> QED
  BY <1>1, <1>2, <1>3, <1>4, <1>5, <1>6, <1>7, <1>8, <1>9 DEF DraftsNext

LEMMA WholeEscrowInit == DraftsInit => WholeEscrow!Init
<1> SUFFICES ASSUME DraftsInit PROVE WholeEscrow!Init
  OBVIOUS
<1>1. EscrowGrants = <<>> /\ EscrowOwed = [a \in Accounts |-> 0]
  BY EscrowInit DEF DraftsInit, TheEscrow!Init
<1>2. custody = 0 /\ Pot = 0 /\ InFlightDeposits = 0
  BY NothingPaidYet DEF DraftsInit, Init
<1>3. custody - Pot - InFlightDeposits = 0
  BY <1>2
<1> QED
  BY <1>1, <1>3 DEF WholeEscrow!Init

(* The whole contract still implements the escrow: drafts, fundings,       *)
(* refunds and conversions never touch a token of a lockup that exists,    *)
(* and the grants a conversion opens are backed, to the token, by what was *)
(* paid for its drafts (lib.rs:353-467, ft_token_receiver.rs), as long as  *)
(* vesting schedules that the contract accepts are ahead                   *)
(* (schedule.rs:80-97).                                                    *)
THEOREM WholeEscrowImplemented ==
  ASSUME ChecksDecideRightly
  PROVE  DraftsSpec => WholeImplementsEscrow
<1>1. WholeBooks /\ WholeBooks' /\ [DraftsNext]_allVars
        => [WholeEscrow!Next]_(WholeEscrow!evars)
  BY WholeEscrowNext DEF EscrowStep
<1> QED
  BY <1>1, WholeEscrowInit, WholeInvariance, PTL
     DEF DraftsSpec, WholeImplementsEscrow, WholeEscrow!Spec

-----------------------------------------------------------------------------
(* What an indexer knows.  MirrorAgrees alone is not inductive: a claim    *)
(* event adds to what was announced before, not to the claimed balance, a  *)
(* termination is announced by what it returns, and of a group that is     *)
(* gone the indexer still has to know that it was no longer open.          *)

(* What is known of a lockup l of which e was announced.                   *)
Knows(known, l, e) ==
  /\ known \in KnownLockup
  /\ known.claimed = e.claimed
  /\ known.unvested = e.unvested
  /\ known.created.account_id = l.account_id
  /\ known.created.balance = total_balance(e.lockup.schedule)
  /\ known.created.start = start(l.schedule)
  /\ known.created.terminatable /\ ~known.terminated <=> l.termination_config # None
  /\ finish(l.schedule) <= known.created.finish
  /\ known.unvested = 0 => finish(l.schedule) = known.created.finish

(* What is known of a group: once it is gone, that it was funded or        *)
(* discarded.                                                              *)
KnowsGroup(known, group) ==
  /\ known \in KnownGroup
  /\ group = None => known.discarded \/ known.amount > 0
  /\ group # None => /\ known.discarded = group.discarded
                     /\ known.amount > 0 <=> group.payer_id # None

LockupsMirrored ==
  /\ mirror.lockups \in [1..MaxLockups -> KnownLockup \cup {None}]
  /\ \A i \in 1..MaxLockups : IF i \in Indices THEN Knows(mirror.lockups[i], lockups[i], indexer[i])
                              ELSE mirror.lockups[i] = None

DraftsMirrored == mirror.drafts = [d \in DraftIds |-> get_draft(d)]

GroupsMirrored ==
  /\ mirror.draft_groups \in [GroupIds -> KnownGroup \cup {None}]
  /\ \A g \in GroupIds : IF g < next_draft_group_id
                         THEN KnowsGroup(mirror.draft_groups[g], draft_groups[g])
                         ELSE mirror.draft_groups[g] = None

(* The parts of the mirror are known one by one.                           *)
MirrorShape ==
  mirror = [lockups |-> mirror.lockups, drafts |-> mirror.drafts,
            draft_groups |-> mirror.draft_groups, deposit_whitelist |-> mirror.deposit_whitelist,
            draft_operators_whitelist |-> mirror.draft_operators_whitelist]

MirrorInv ==
  /\ MirrorShape
  /\ LockupsMirrored /\ DraftsMirrored /\ GroupsMirrored
  /\ mirror.deposit_whitelist = deposit_whitelist
  /\ mirror.draft_operators_whitelist = draft_operators_whitelist

-----------------------------------------------------------------------------
(* The lockups.                                                            *)

LEMMA ScheduleEnds ==
  ASSUME NEW s \in Schedules, Increasing(s)
  PROVE  start(s) \in Nat /\ finish(s) \in Nat /\ total_balance(s) \in Nat
<1>1. Len(s) \in Nat /\ Len(s) \in 1..Len(s) /\ 1 \in 1..Len(s)
  BY ScheduleElements DEF Increasing
<1> QED
  BY <1>1, ScheduleElements DEF start, finish, total_balance

LEMMA ByIdIs ==
  ASSUME NEW events, NEW e \in events, \A x \in events : x.id = e.id => x = e
  PROVE  e.id \in DOMAIN ById(events) /\ ById(events)[e.id] = e
<1>1. e.id \in DOMAIN ById(events) /\ ById(events)[e.id] = CHOOSE x \in events : x.id = e.id
  BY DEF ById
<1>2. (CHOOSE x \in events : x.id = e.id) \in events /\ (CHOOSE x \in events : x.id = e.id).id = e.id
  OBVIOUS
<1> QED
  BY <1>1, <1>2

(* What an indexer takes from the events of new lockups.                   *)
NewlyKnown(events) ==
  [id \in DOMAIN ById(events) |->
     [created |-> ById(events)[id], claimed |-> 0, unvested |-> 0, terminated |-> FALSE]]

(* The other parts of the mirror are not touched.                          *)
KeepsAllBut(fields) ==
  /\ MirrorShape'
  /\ "lockups" \notin fields => mirror'.lockups = mirror.lockups
  /\ "drafts" \notin fields => mirror'.drafts = mirror.drafts
  /\ "draft_groups" \notin fields => mirror'.draft_groups = mirror.draft_groups
  /\ "deposit_whitelist" \notin fields => mirror'.deposit_whitelist = mirror.deposit_whitelist
  /\ "draft_operators_whitelist" \notin fields =>
       mirror'.draft_operators_whitelist = mirror.draft_operators_whitelist

LEMMA SawCreateLockup ==
  ASSUME MirrorShape, NEW events, SeesCreateLockup(events)
  PROVE  /\ KeepsAllBut({"lockups", "drafts"})
         /\ mirror'.lockups = Noting(mirror.lockups, NewlyKnown(events))
         /\ mirror'.drafts = [d \in DraftIds |-> IF d \in { e.draft_id : e \in events }
                                                 THEN None ELSE mirror.drafts[d]]
<1> DEFINE x == Noting(mirror.lockups, NewlyKnown(events))
           y == [d \in DraftIds |-> IF d \in { e.draft_id : e \in events }
                                    THEN None ELSE mirror.drafts[d]]
<1>1. mirror' = [mirror EXCEPT !.lockups = x, !.drafts = y]
  BY DEF SeesCreateLockup, NewlyKnown
<1> HIDE DEF x, y
<1>2. /\ KeepsAllBut({"lockups", "drafts"})
      /\ mirror'.lockups = x /\ mirror'.drafts = y
  BY <1>1 DEF MirrorShape, KeepsAllBut
<1> QED
  BY <1>2 DEF x, y

LEMMA LockupEvent ==
  ASSUME NEW id \in 1..MaxLockups, NEW l \in LockupType, Increasing(l.schedule),
         NEW draft_id \in DraftIds \cup {None}
  PROVE  LET e == FtLockupCreateLockup(id, l, draft_id)
         IN  /\ e \in CreateLockupEvent
             /\ e.id = id
             /\ e.account_id = l.account_id
             /\ e.balance = total_balance(l.schedule)
             /\ e.start = start(l.schedule) /\ e.finish = finish(l.schedule)
             /\ e.terminatable <=> l.termination_config # None
             /\ e.draft_id = draft_id
<1>1. l.account_id \in Accounts /\ l.schedule \in Schedules
  BY DEF LockupType
<1>2. start(l.schedule) \in Nat /\ finish(l.schedule) \in Nat /\ total_balance(l.schedule) \in Nat
  BY <1>1, ScheduleEnds
<1> QED
  BY <1>1, <1>2 DEF FtLockupCreateLockup, CreateLockupEvent

LEMMA NewLockupKnown ==
  ASSUME NEW id \in 1..MaxLockups, NEW l \in LockupType, Increasing(l.schedule),
         NEW draft_id \in DraftIds \cup {None}
  PROVE  Knows([created |-> FtLockupCreateLockup(id, l, draft_id), claimed |-> 0, unvested |-> 0,
                terminated |-> FALSE], l, Created(l))
<1> DEFINE e == FtLockupCreateLockup(id, l, draft_id)
           known == [created |-> e, claimed |-> 0, unvested |-> 0, terminated |-> FALSE]
<1>1. /\ e \in CreateLockupEvent
      /\ e.account_id = l.account_id
      /\ e.balance = total_balance(l.schedule)
      /\ e.start = start(l.schedule) /\ e.finish = finish(l.schedule)
      /\ e.terminatable <=> l.termination_config # None
  BY LockupEvent
<1> HIDE DEF e
<1>2. known \in KnownLockup
  BY <1>1 DEF KnownLockup
<1>3. finish(l.schedule) \in Nat
  BY ScheduleEnds DEF LockupType
<1>4. /\ Created(l).claimed = 0 /\ Created(l).unvested = 0 /\ Created(l).lockup = l
  BY DEF Created
<1>5. Knows(known, l, Created(l))
  BY <1>1, <1>2, <1>3, <1>4 DEF Knows
<1> QED
  BY <1>5 DEF e

(* The lockups made[1..n] are added at the end, with an event each.        *)
Announces(events, made, n, draft_ids) ==
  events = { FtLockupCreateLockup(Len(lockups) + k, made[k], draft_ids[k]) : k \in 1..n }

Pushed(made, n) ==
  /\ Len(lockups') = Len(lockups) + n
  /\ \A i \in 1..Len(lockups) : lockups'[i] = lockups[i] /\ indexer'[i] = indexer[i]
  /\ \A k \in 1..n : /\ lockups'[Len(lockups) + k] = made[k]
                     /\ indexer'[Len(lockups) + k] = Created(made[k])

LEMMA LotMirrored ==
  ASSUME Len(lockups) \in Nat, LockupsMirrored, NEW n \in Nat, NEW made, NEW draft_ids, NEW events,
         Len(lockups) + n <= MaxLockups,
         \A k \in 1..n : /\ made[k] \in LockupType /\ Increasing(made[k].schedule)
                         /\ draft_ids[k] \in DraftIds \cup {None},
         Pushed(made, n), Announces(events, made, n, draft_ids),
         mirror'.lockups = Noting(mirror.lockups, NewlyKnown(events))
  PROVE  LockupsMirrored'
<1> DEFINE m == Len(lockups)
           e(k) == FtLockupCreateLockup(m + k, made[k], draft_ids[k])
           new == NewlyKnown(events)
           known(k) == [created |-> e(k), claimed |-> 0, unvested |-> 0, terminated |-> FALSE]
<1>1. ASSUME NEW k \in 1..n
      PROVE  /\ m + k \in 1..MaxLockups /\ e(k) \in events /\ e(k).id = m + k
             /\ Knows(known(k), made[k], Created(made[k]))
  <2>1. m + k \in 1..MaxLockups
    BY BoundsAssumption
  <2>2. e(k) \in events
    BY DEF Announces
  <2>3. made[k] \in LockupType /\ Increasing(made[k].schedule) /\ draft_ids[k] \in DraftIds \cup {None}
    OBVIOUS
  <2>4. e(k).id = m + k
    BY DEF FtLockupCreateLockup
  <2> HIDE DEF m
  <2>5. Knows(known(k), made[k], Created(made[k]))
    BY ONLY <2>1, <2>3, NewLockupKnown
  <2> QED
    BY <2>1, <2>2, <2>4, <2>5
<1>2. events = { e(k) : k \in 1..n }
  BY DEF Announces
<1>3. m \in Nat
  OBVIOUS
<1> HIDE DEF e, m
<1>4. ASSUME NEW k \in 1..n PROVE m + k \in DOMAIN ById(events) /\ ById(events)[m + k] = e(k)
  <2>1. \A x \in events : x.id = e(k).id => x = e(k)
    <3> SUFFICES ASSUME NEW j \in 1..n, e(j).id = e(k).id PROVE e(j) = e(k)
      BY <1>2
    <3>1. m + j = m + k
      BY <1>1
    <3>2. j = k
      BY ONLY <3>1, <1>3, n \in Nat, j \in 1..n, k \in 1..n
    <3> QED
      BY <3>2
  <2>2. e(k) \in events /\ e(k).id = m + k
    BY <1>1
  <2>3. e(k).id \in DOMAIN ById(events) /\ ById(events)[e(k).id] = e(k)
    BY <2>1, <2>2, ByIdIs
  <2> QED
    BY <2>2, <2>3
<1>5. ASSUME NEW i \in DOMAIN ById(events) PROVE \E k \in 1..n : i = m + k
  <2>1. PICK x \in events : x.id = i
    BY DEF ById
  <2> QED
    BY <1>1, <1>2, <2>1
<1>6. /\ DOMAIN new = DOMAIN ById(events)
      /\ \A k \in 1..n : new[m + k] = known(k)
  BY <1>4 DEF NewlyKnown
<1> HIDE DEF new, known
<1>7. /\ mirror.lockups \in [1..MaxLockups -> KnownLockup \cup {None}]
      /\ mirror'.lockups =
           [i \in 1..MaxLockups |-> IF i \in DOMAIN new THEN new[i] ELSE mirror.lockups[i]]
  BY DEF LockupsMirrored, Noting, new
<1>8. Indices = 1..m /\ Indices' = 1..(m + n)
  BY DEF Indices, Pushed, m
<1>9. ASSUME NEW i \in 1..MaxLockups
      PROVE  IF i \in 1..(m + n) THEN Knows(mirror'.lockups[i], lockups'[i], indexer'[i])
             ELSE mirror'.lockups[i] = None
  <2>1. CASE i \in DOMAIN new
    <3>1. PICK k \in 1..n : i = m + k
      BY <1>5, <1>6, <2>1
    <3>2. mirror'.lockups[i] = known(k)
      BY <1>6, <1>7, <2>1, <3>1
    <3>3. lockups'[i] = made[k] /\ indexer'[i] = Created(made[k])
      BY <3>1 DEF Pushed, m
    <3>4. i \in 1..(m + n)
      BY <1>3, <3>1
    <3> QED
      BY <1>1, <3>2, <3>3, <3>4 DEF known
  <2>2. CASE i \notin DOMAIN new
    <3>1. mirror'.lockups[i] = mirror.lockups[i]
      BY <1>7, <2>2
    <3>2. CASE i \in 1..m
      <4>1. lockups'[i] = lockups[i] /\ indexer'[i] = indexer[i] /\ i \in 1..(m + n)
        BY <1>3, <3>2 DEF Pushed, m
      <4>2. Knows(mirror.lockups[i], lockups[i], indexer[i])
        BY <1>8, <3>2 DEF LockupsMirrored
      <4> QED
        BY <3>1, <4>1, <4>2
    <3>3. CASE i \notin 1..m
      <4>1. i \notin 1..(m + n)
        <5> SUFFICES ASSUME i \in 1..(m + n) PROVE FALSE
          OBVIOUS
        <5>1. i - m \in 1..n /\ i = m + (i - m)
          BY <1>3, <3>3
        <5> QED
          BY <1>4, <1>6, <2>2, <5>1
      <4>2. mirror.lockups[i] = None
        BY <1>8, <3>3 DEF LockupsMirrored
      <4> QED
        BY <3>1, <4>1, <4>2
    <3> QED
      BY <3>2, <3>3
  <2> QED
    BY <2>1, <2>2
<1>10. mirror'.lockups \in [1..MaxLockups -> KnownLockup \cup {None}]
  <2>1. \A i \in 1..MaxLockups : mirror'.lockups[i] \in KnownLockup \cup {None}
    BY <1>9 DEF Knows
  <2> QED
    BY <1>7, <2>1
<1> QED
  BY <1>8, <1>9, <1>10 DEF LockupsMirrored

LEMMA DraftsStay ==
  ASSUME DraftsMirrored, mirror'.drafts = mirror.drafts, drafts' = drafts
  PROVE  DraftsMirrored'
BY DEF DraftsMirrored, get_draft

(* Nothing an indexer knows of a lockup changes.                           *)
SameTerms(l, m) == /\ m.account_id = l.account_id
                   /\ m.schedule = l.schedule
                   /\ m.termination_config = l.termination_config

LEMMA LockupsStay ==
  ASSUME LockupsMirrored, mirror'.lockups = mirror.lockups, indexer' = indexer,
         Len(lockups') = Len(lockups), \A i \in Indices : SameTerms(lockups[i], lockups'[i])
  PROVE  LockupsMirrored'
<1>1. Indices' = Indices
  BY DEF Indices
<1>2. \A i \in Indices : Knows(mirror.lockups[i], lockups[i], indexer[i])
                           => Knows(mirror.lockups[i], lockups'[i], indexer[i])
  BY DEF Knows, SameTerms
<1> QED
  BY <1>1, <1>2 DEF LockupsMirrored

(* A lockup that is not made of a draft is announced.                      *)
LEMMA OneMirrored ==
  ASSUME IInv, MirrorShape, LockupsMirrored, DraftsMirrored, Len(lockups) < MaxLockups,
         NEW l \in LockupType, Increasing(l.schedule),
         internal_add_lockup(l), indexer' = Append(indexer, Created(l)), drafts' = drafts,
         SeesCreateLockup({FtLockupCreateLockup(Len(lockups) + 1, l, None)})
  PROVE  KeepsAllBut({"lockups", "drafts"}) /\ LockupsMirrored' /\ DraftsMirrored'
<1> DEFINE m == Len(lockups)
           e == FtLockupCreateLockup(m + 1, l, None)
           made == [k \in 1..1 |-> l]
           draft_ids == [k \in 1..1 |-> None]
           E == [lockup : LockupType, claimed : Nat, unvested : Nat]
<1>1. /\ m \in Nat /\ Len(indexer) = m /\ lockups \in Seq(LockupType) /\ indexer \in Seq(E)
      /\ m + 1 <= MaxLockups
  BY TypeFacts, BoundsAssumption DEF IInv, TypeOK
<1>2. /\ Len(lockups') = m + 1
      /\ \A i \in 1..m : lockups'[i] = lockups[i]
      /\ lockups'[m + 1] = l
  BY <1>1, AppendProperties DEF internal_add_lockup
<1>3. /\ \A i \in 1..m : indexer'[i] = indexer[i]
      /\ indexer'[m + 1] = Created(l)
  BY <1>1, AppendProperties DEF Created
<1>4. \A k \in 1..1 : k = 1 /\ made[k] = l /\ draft_ids[k] = None
  OBVIOUS
<1>5. Pushed(made, 1)
  BY <1>2, <1>3, <1>4 DEF Pushed
<1>6. Announces({e}, made, 1, draft_ids)
  <2>1. 1 \in 1..1
    OBVIOUS
  <2> HIDE DEF made, draft_ids
  <2> QED
    BY <1>4, <2>1 DEF Announces
<1>7. /\ KeepsAllBut({"lockups", "drafts"})
      /\ mirror'.lockups = Noting(mirror.lockups, NewlyKnown({e}))
      /\ mirror'.drafts = [d \in DraftIds |-> IF d \in { x.draft_id : x \in {e} }
                                              THEN None ELSE mirror.drafts[d]]
  BY SawCreateLockup
<1>8. \A k \in 1..1 : /\ made[k] \in LockupType /\ Increasing(made[k].schedule)
                      /\ draft_ids[k] \in DraftIds \cup {None}
  BY <1>4
<1>9. LockupsMirrored'
  <2>1. 1 \in Nat
    OBVIOUS
  <2>2. Len(lockups) \in Nat /\ Len(lockups) + 1 <= MaxLockups
    BY <1>1
  <2> HIDE DEF made, draft_ids, e, m
  <2> QED
    BY <1>5, <1>6, <1>7, <1>8, <2>1, <2>2, LotMirrored
<1>10. DraftsMirrored'
  <2>1. e.draft_id = None
    BY DEF FtLockupCreateLockup
  <2>2. \A d \in DraftIds : d # None
    BY NoneIsNoValue, DraftBounds DEF DraftIds
  <2>3. mirror'.drafts = mirror.drafts
    BY <1>7, <2>1, <2>2 DEF DraftsMirrored
  <2> QED
    BY <2>3, DraftsStay
<1> QED
  BY <1>7, <1>9, <1>10

(* The claims of a transfer that was executed are announced.               *)
Reported(claims) == { i \in Indices : claims[i].claim_amount > 0 }

LEMMA ClaimMirrored ==
  ASSUME IInv, MirrorShape, LockupsMirrored, NEW k \in 1..Len(promises), EmitsClaim(k)
  PROVE  KeepsAllBut({"lockups"}) /\ LockupsMirrored'
<1> DEFINE claims == promises[k].claims
           S == Reported(claims)
           events == { FtLockupClaimLockup(i, claims[i].claim_amount) : i \in S }
           known(i) == mirror.lockups[i]
           new == [i \in DOMAIN ById(events) |->
                     [known(i) EXCEPT !.claimed = @ + ById(events)[i].amount]]
           x == Noting(mirror.lockups, new)
<1>1. /\ AfterFtTransferOk(k) /\ mirror' = [mirror EXCEPT !.lockups = x]
  <2>1. AfterFtTransferOk(k) /\ SeesClaimLockup(events)
    BY DEF EmitsClaim, Reported
  <2> HIDE DEF events
  <2> QED
    BY <2>1 DEF SeesClaimLockup
<1>2. KeepsAllBut({"lockups"}) /\ mirror'.lockups = x
  <2> HIDE DEF x
  <2> QED
    BY <1>1 DEF MirrorShape, KeepsAllBut
<1>3. /\ lockups' = lockups
      /\ indexer' = [i \in Indices |-> [indexer[i] EXCEPT !.claimed = @ + claims[i].claim_amount]]
  BY <1>1 DEF AfterFtTransferOk
<1>4. /\ TypeOK /\ Indices \subseteq 1..MaxLockups
  BY TypeFacts, BoundsAssumption DEF IInv, Indices
<1>5. claims \in [1..MaxLockups -> LockupClaim]
  BY <1>4, TypeFacts DEF Promise
<1> HIDE DEF claims
<1>6. \A i \in Indices : claims[i].claim_amount \in Nat
  BY <1>4, <1>5 DEF LockupClaim
<1> DEFINE e(i) == FtLockupClaimLockup(i, claims[i].claim_amount)
<1>7. \A i \in S : e(i).id = i /\ e(i).amount = claims[i].claim_amount
  BY DEF FtLockupClaimLockup
<1>8. events = { e(i) : i \in S }
  OBVIOUS
<1> HIDE DEF e
<1>9. ASSUME NEW i \in S PROVE i \in DOMAIN ById(events) /\ ById(events)[i] = e(i)
  <2>1. e(i) \in events /\ \A y \in events : y.id = e(i).id => y = e(i)
    BY <1>7, <1>8
  <2> HIDE DEF events
  <2> QED
    BY <1>7, <2>1, ByIdIs
<1>10. DOMAIN ById(events) = S
  <2>1. ASSUME NEW i \in DOMAIN ById(events) PROVE i \in S
    <3>1. PICK y \in events : y.id = i
      BY DEF ById
    <3> QED
      BY <1>7, <1>8, <3>1
  <2> QED
    BY <1>9, <2>1
<1>11. S \subseteq Indices /\ \A i \in Indices \ S : claims[i].claim_amount = 0
  BY <1>6 DEF Reported
<1> HIDE DEF events, S
<1>12. /\ mirror.lockups \in [1..MaxLockups -> KnownLockup \cup {None}]
       /\ mirror'.lockups = [i \in 1..MaxLockups |-> IF i \in S THEN new[i] ELSE mirror.lockups[i]]
  BY <1>2, <1>10 DEF LockupsMirrored, Noting
<1>13. \A i \in S : new[i] = [known(i) EXCEPT !.claimed = @ + claims[i].claim_amount]
  BY <1>7, <1>9, <1>10
<1> HIDE DEF new
<1>14. ASSUME NEW i \in Indices
       PROVE  Knows(mirror'.lockups[i], lockups'[i], indexer'[i])
  <2> DEFINE a == claims[i].claim_amount
             c == indexer[i]
  <2>1. Knows(known(i), lockups[i], c) /\ i \in 1..MaxLockups
    BY <1>4 DEF LockupsMirrored
  <2>2. a \in Nat /\ c \in [lockup : LockupType, claimed : Nat, unvested : Nat]
    BY <1>4, <1>6, TypeFacts
  <2>3. lockups'[i] = lockups[i] /\ indexer'[i] = [c EXCEPT !.claimed = @ + a]
    BY <1>3
  <2>4. mirror'.lockups[i] = IF i \in S THEN [known(i) EXCEPT !.claimed = @ + a] ELSE known(i)
    BY <1>12, <1>13, <2>1
  <2>5. i \notin S => a = 0
    BY <1>11
  <2> HIDE DEF a, c, known
  <2>6. /\ known(i) \in KnownLockup /\ known(i).claimed = c.claimed
    BY <2>1 DEF Knows
  <2>7. PICK z \in Nat : z = c.claimed + a
    BY <2>2
  <2>8. indexer'[i] = [c EXCEPT !.claimed = z]
    BY <2>3, <2>7
  <2>9. mirror'.lockups[i] = [known(i) EXCEPT !.claimed = z]
    <3>1. CASE i \in S
      BY <2>4, <2>6, <2>7, <3>1
    <3>2. CASE i \notin S
      <4>1. a = 0
        BY <2>5, <3>2
      <4>2. z = known(i).claimed
        BY ONLY <2>2, <2>6, <2>7, <4>1
      <4> QED
        BY <2>4, <2>6, <3>2, <4>2 DEF KnownLockup
    <3> QED
      BY <3>1, <3>2
  <2>10. Knows([known(i) EXCEPT !.claimed = z], lockups[i], [c EXCEPT !.claimed = z])
    BY <2>1, <2>2, <2>6, <2>7 DEF Knows, KnownLockup
  <2> QED
    BY <2>3, <2>8, <2>9, <2>10
<1>15. \A i \in (1..MaxLockups) \ Indices : mirror'.lockups[i] = None
  BY <1>11, <1>12 DEF LockupsMirrored
<1>16. mirror'.lockups \in [1..MaxLockups -> KnownLockup \cup {None}]
  <2>1. \A i \in 1..MaxLockups : mirror'.lockups[i] \in KnownLockup \cup {None}
    BY <1>14, <1>15 DEF Knows
  <2> QED
    BY <1>12, <2>1
<1>17. Indices' = Indices
  BY <1>3 DEF Indices
<1> QED
  BY <1>2, <1>14, <1>15, <1>16, <1>17 DEF LockupsMirrored

(* A termination keeps the start, and the end comes no later.              *)
LEMMA TerminatedEnds ==
  ASSUME NEW l \in LockupType, NEW g \in LockupType, NEW t \in 1..MaxTime, NEW h,
         SoundLockup(l, g, t), can_terminate(l, h), NEW f \in 1..MaxTime, t <= f
  PROVE  LET n == terminate_lockup(l, f)
         IN  /\ start(n.schedule) = start(l.schedule)
             /\ finish(n.schedule) <= finish(l.schedule)
             /\ unvested_balance(l, f) = 0 => n.schedule = l.schedule
<1> DEFINE n == terminate_lockup(l, f)
           s == l.schedule
           v == vested_balance(l, f)
           u == unvested_balance(l, f)
           cut == terminate(s, v, f)
<1>1. /\ s \in Schedules /\ Increasing(s) /\ total_balance(s) \in Nat /\ f \in Nat
      /\ finish(s) \in Nat
  BY LockupFields, ScheduleEnds, BoundsAssumption DEF SoundLockup
<1>2. /\ v \in Nat /\ v <= total_balance(s) /\ unlocked_balance(s, f) \in Nat
      /\ s[Len(s)].timestamp <= f => unlocked_balance(s, f) <= v
  BY <1>1, VestingAhead, UnlockedBounds DEF vested_balance
<1>3. u = total_balance(s) - v
  BY DEF unvested_balance
<1>4. n.schedule = IF u > 0 THEN cut ELSE s
  BY DEF terminate_lockup, LockupType
<1>5. total_balance(s) > 0
  BY DEF SoundLockup, can_terminate, Terminatable, assert_valid
<1>6. v = 0 => f <= s[Len(s)].timestamp
  <2> SUFFICES ASSUME v = 0, ~(f <= s[Len(s)].timestamp) PROVE FALSE
    OBVIOUS
  <2>1. s[Len(s)].timestamp \in Nat
    BY <1>1 DEF finish
  <2> HIDE DEF s, v
  <2>2. s[Len(s)].timestamp <= f
    BY <1>1, <2>1
  <2>3. unlocked_balance(s, f) = total_balance(s)
    BY <1>1, <2>2, UnlockedAfterEnd
  <2> QED
    BY <1>1, <1>2, <1>5, <2>2, <2>3
<1>7. finish(cut) <= finish(s)
  <2> HIDE DEF s, v
  <2> QED
    BY <1>1, <1>2, <1>6, TerminateEndsNoLater DEF finish
<1>8. start(cut) = start(s)
  <2> HIDE DEF s, v
  <2>1. CASE v = 0
    BY <2>1 DEF start, terminate, new_zero_balance_from_to
  <2>2. CASE v # 0
    <3> DEFINE k == cut_checkpoint(s, v)
    <3>4. v \in Nat \ {0}
      BY <1>2, <2>2
    <3>5. k \in 1..(Len(s) - 1)
      BY <1>1, <1>2, <3>4, CutCheckpoint
    <3>6. \A j \in 1..k : cut[j] = s[j]
      BY ONLY <1>1, <1>2, <3>4, TerminateCut
    <3>1. k \in 1..(Len(s) - 1) /\ \A j \in 1..k : cut[j] = s[j]
      BY <3>5, <3>6
    <3>2. Len(s) \in Nat
      BY <1>1, ScheduleElements
    <3> HIDE DEF k, cut
    <3>3. 1 \in 1..k
      BY <3>1, <3>2
    <3> QED
      BY <3>1, <3>3 DEF start
  <2> QED
    BY <2>1, <2>2
<1> HIDE DEF n, s, v, u, cut
<1>9. /\ start(n.schedule) = start(s) /\ finish(n.schedule) <= finish(s)
      /\ u = 0 => n.schedule = s
  <2>1. CASE u > 0
    BY <1>4, <1>7, <1>8, <2>1
  <2>2. CASE ~(u > 0)
    BY <1>1, <1>4, <2>2
  <2> QED
    BY <2>1, <2>2
<1> QED
  BY <1>9 DEF n, s, u

LEMMA TerminationMirrored ==
  ASSUME IInv, Ledger, MirrorShape, LockupsMirrored,
         NEW caller \in Accounts, NEW i \in Indices, NEW h, NEW f \in 1..MaxTime,
         EmitsTerminate(caller, i, h, f)
  PROVE  KeepsAllBut({"lockups"}) /\ LockupsMirrored'
<1> DEFINE l == lockups[i]
           n == terminate_lockup(l, f)
           u == unvested_balance(l, f)
           e == FtLockupTerminateLockup(i, f, u)
           c == indexer[i]
           known == mirror.lockups[i]
           told == [known EXCEPT !.terminated = TRUE, !.unvested = u]
<1>1. /\ Terminate(caller, i, h, f) /\ SeesTerminateLockup(e)
  BY DEF EmitsTerminate
<1>2. /\ now <= f
      /\ can_terminate(l, h)
      /\ lockups' = [lockups EXCEPT ![i] = n]
      /\ indexer' = [indexer EXCEPT ![i].unvested = u]
  <2>1. now \in Nat /\ f \in Nat
    BY TypeFacts, BoundsAssumption DEF IInv
  <2> QED
    BY <1>1, <2>1 DEF Terminate
<1>3. /\ TypeOK /\ Indices = 1..Len(lockups) /\ Len(lockups) \in Nat /\ Len(indexer) = Len(lockups)
      /\ now \in 1..MaxTime /\ i \in 1..MaxLockups /\ Indices \subseteq 1..MaxLockups
      /\ lockups \in Seq(LockupType)
      /\ indexer \in Seq([lockup : LockupType, claimed : Nat, unvested : Nat])
      /\ l \in LockupType /\ c.lockup \in LockupType
      /\ c \in [lockup : LockupType, claimed : Nat, unvested : Nat]
      /\ SoundLockup(l, c.lockup, now)
  <2>1. /\ TypeOK /\ Len(lockups) <= MaxLockups /\ MaxLockups \in Nat
        /\ SoundLockup(l, c.lockup, now)
    BY BoundsAssumption DEF IInv
  <2>2. Len(lockups) \in Nat /\ Indices = 1..Len(lockups)
    BY <2>1, TypeFacts DEF Indices
  <2>3. Indices \subseteq 1..MaxLockups
    BY <2>1, <2>2
  <2> QED
    BY <2>1, <2>2, <2>3, TypeFacts DEF TypeOK
<1>4. /\ Knows(known, l, c) /\ known \in KnownLockup
      /\ mirror.lockups \in [1..MaxLockups -> KnownLockup \cup {None}]
  BY <1>3 DEF LockupsMirrored, Knows
<1>5. c.unvested = 0
  BY <1>2 DEF Ledger, Announced, can_terminate
<1>6. e.id = i /\ e.unvested_balance = u
  BY DEF FtLockupTerminateLockup
<1>7. /\ n.account_id = l.account_id /\ n.termination_config = None /\ u \in Nat
  <2> HIDE DEF l, n, u, c
  <2>1. /\ terminate_lockup(l, f).account_id = l.account_id
        /\ terminate_lockup(l, f).termination_config = None /\ unvested_balance(l, f) \in Nat
    BY <1>2, <1>3, TerminatedRecord
  <2> QED
    BY <2>1 DEF n, u
<1>8. /\ start(n.schedule) = start(l.schedule)
      /\ finish(n.schedule) <= finish(l.schedule)
      /\ u = 0 => n.schedule = l.schedule
  <2> HIDE DEF l, n, u, c
  <2> QED
    BY <1>2, <1>3, TerminatedEnds DEF n, u
<1>9. mirror' = [mirror EXCEPT !.lockups[i].terminated = TRUE, !.lockups[i].unvested = u]
  <2> HIDE DEF e, u
  <2> QED
    BY <1>1, <1>6 DEF SeesTerminateLockup
<1>10. /\ KeepsAllBut({"lockups"})
       /\ mirror'.lockups = [mirror.lockups EXCEPT ![i] = told]
  <2> HIDE DEF u
  <2> QED
    BY <1>3, <1>4, <1>9 DEF MirrorShape, KeepsAllBut, KnownLockup
<1>11. finish(n.schedule) \in Nat /\ finish(l.schedule) \in Nat
  <2>1. n \in Readable
    <3> HIDE DEF l, n, u, c
    <3> QED
      BY <1>2, <1>3, TerminatedRecord DEF n
  <2>2. Increasing(l.schedule)
    BY <1>3 DEF SoundLockup
  <2> HIDE DEF n, l
  <2> QED
    BY <1>3, <2>1, <2>2, ScheduleEnds DEF Readable, LockupType
<1>12. lockups'[i] = n /\ indexer'[i] = [c EXCEPT !.unvested = u]
  <2> HIDE DEF n, u
  <2> QED
    BY <1>2, <1>3 DEF Indices
<1>13. \A j \in Indices \ {i} : lockups'[j] = lockups[j] /\ indexer'[j] = indexer[j]
  <2> HIDE DEF n, u
  <2> QED
    BY <1>2, <1>3
<1>14. Indices' = Indices
  <2> HIDE DEF n, u
  <2> QED
    BY <1>2, <1>3 DEF Indices
<1> HIDE DEF l, n, u, c, e, known
<1>15. told \in KnownLockup
  BY <1>4, <1>7 DEF KnownLockup
<1>16. Knows(told, n, [c EXCEPT !.unvested = u])
  <2>1. /\ told.created = known.created /\ told.claimed = known.claimed
        /\ told.unvested = u /\ told.terminated = TRUE
    BY <1>4 DEF KnownLockup
  <2>2. known.created.finish \in Nat
    BY <1>4 DEF KnownLockup, CreateLockupEvent
  <2>3. /\ [c EXCEPT !.unvested = u].claimed = c.claimed
        /\ [c EXCEPT !.unvested = u].unvested = u
        /\ [c EXCEPT !.unvested = u].lockup = c.lockup
    BY <1>3
  <2>4. /\ known.claimed = c.claimed /\ known.unvested = c.unvested
        /\ known.created.account_id = l.account_id
        /\ known.created.balance = total_balance(c.lockup.schedule)
        /\ known.created.start = start(l.schedule)
        /\ finish(l.schedule) <= known.created.finish
        /\ finish(l.schedule) = known.created.finish
    BY <1>4, <1>5 DEF Knows
  <2>5. finish(n.schedule) <= known.created.finish
    BY <1>8, <2>4
  <2>6. u = 0 => finish(n.schedule) = known.created.finish
    BY <1>8, <2>4
  <2> HIDE DEF told
  <2> QED
    BY <1>7, <1>8, <1>15, <2>1, <2>3, <2>4, <2>5, <2>6 DEF Knows
<1> HIDE DEF told
<1>17. ASSUME NEW j \in 1..MaxLockups
       PROVE  IF j \in Indices THEN Knows(mirror'.lockups[j], lockups'[j], indexer'[j])
              ELSE mirror'.lockups[j] = None
  <2>1. CASE j = i
    BY <1>4, <1>10, <1>12, <1>16, <2>1
  <2>2. CASE j # i
    <3>1. mirror'.lockups[j] = mirror.lockups[j]
      BY <1>4, <1>10, <2>2
    <3> QED
      BY <1>13, <2>2, <3>1 DEF LockupsMirrored
  <2> QED
    BY <2>1, <2>2
<1>18. mirror'.lockups \in [1..MaxLockups -> KnownLockup \cup {None}]
  BY <1>4, <1>10, <1>15
<1> QED
  BY <1>10, <1>14, <1>17, <1>18 DEF LockupsMirrored

LEMMA OnePartChanged ==
  ASSUME MirrorShape, NEW x
  PROVE  /\ mirror' = [mirror EXCEPT !.drafts = x]
              => KeepsAllBut({"drafts"}) /\ mirror'.drafts = x
         /\ mirror' = [mirror EXCEPT !.draft_groups = x]
              => KeepsAllBut({"draft_groups"}) /\ mirror'.draft_groups = x
         /\ mirror' = [mirror EXCEPT !.deposit_whitelist = x]
              => KeepsAllBut({"deposit_whitelist"}) /\ mirror'.deposit_whitelist = x
         /\ mirror' = [mirror EXCEPT !.draft_operators_whitelist = x]
              => KeepsAllBut({"draft_operators_whitelist"}) /\ mirror'.draft_operators_whitelist = x
         /\ mirror' = mirror => KeepsAllBut({})
BY DEF MirrorShape, KeepsAllBut

-----------------------------------------------------------------------------
(* The drafts.                                                             *)

LEMMA DraftsGone ==
  ASSUME DraftsMirrored, NEW T,
         drafts' = [d \in DraftIds |-> IF d \in T THEN None ELSE drafts[d]],
         mirror'.drafts = [d \in DraftIds |-> IF d \in T THEN None ELSE mirror.drafts[d]]
  PROVE  DraftsMirrored'
<1>1. \A d \in DraftIds : d \in T => get_draft(d)' = None
  BY DEF get_draft
<1>2. \A d \in DraftIds : d \notin T => drafts'[d] = drafts[d]
  OBVIOUS
<1>3. \A d \in DraftIds : d \notin T => get_draft(d)' = get_draft(d)
  BY <1>2 DEF get_draft
<1>4. \A d \in DraftIds : mirror'.drafts[d] = get_draft(d)'
  BY <1>1, <1>3 DEF DraftsMirrored
<1>5. mirror'.drafts = [d \in DraftIds |-> get_draft(d)']
  BY <1>4
<1> QED
  BY <1>5 DEF DraftsMirrored

LEMMA DraftsWritten ==
  ASSUME DraftsTypeOK, MirrorShape, DraftsMirrored, NEW caller \in Accounts, NEW batch \in Batches,
         EmitsDrafts(caller, batch)
  PROVE  KeepsAllBut({"drafts"}) /\ DraftsMirrored'
<1> DEFINE n == Len(batch)
           old == next_draft_id
           N == NewIds(batch)
           e(k) == FtLockupCreateDraft(old + k - 1, batch[k])
           events == { e(k) : k \in 1..n }
           x == Noting(mirror.drafts, ById(events))
<1>1. CreateDrafts(caller, batch) /\ mirror' = [mirror EXCEPT !.drafts = x]
  <2>1. CreateDrafts(caller, batch) /\ SeesCreateDraft(events)
    BY DEF EmitsDrafts
  <2> HIDE DEF events
  <2> QED
    BY <2>1 DEF SeesCreateDraft
<1>2. KeepsAllBut({"drafts"}) /\ mirror'.drafts = x
  <2> HIDE DEF x
  <2> QED
    BY <1>1, OnePartChanged
<1>3. n \in Nat /\ \A k \in 1..n : batch[k] \in Draft
  BY BatchLength
<1>4. old \in Nat
  BY DraftTypes
<1>5. N = old..(old + n - 1) /\ N \subseteq DraftIds
      /\ drafts' = [d \in DraftIds |-> IF d \in N THEN batch[d - old + 1] ELSE drafts[d]]
  BY <1>1 DEF CreateDrafts, NewIds
<1>6. \A k \in 1..n : e(k).id = old + k - 1
  BY DEF FtLockupCreateDraft
<1> HIDE DEF e, n, old, N
<1>7. ASSUME NEW k \in 1..n
      PROVE  old + k - 1 \in DOMAIN ById(events) /\ ById(events)[old + k - 1] = e(k)
  <2>1. ASSUME NEW j \in 1..n, e(j).id = e(k).id PROVE e(j) = e(k)
    <3>1. old + j - 1 = old + k - 1
      BY <1>6, <2>1
    <3>2. j = k
      BY ONLY <3>1, <1>3, <1>4, j \in 1..n, k \in 1..n
    <3> QED
      BY <3>2
  <2>2. e(k) \in events /\ \A y \in events : y.id = e(k).id => y = e(k)
    BY <2>1
  <2> HIDE DEF events
  <2> QED
    BY <1>6, <2>2, ByIdIs
<1>8. ASSUME NEW d \in N
      PROVE  LET k == d - old + 1
             IN  k \in 1..n /\ old + k - 1 = d /\ batch[k] \in Draft /\ drafts'[d] = batch[k]
  <2> DEFINE k == d - old + 1
  <2>1. k \in 1..n /\ old + k - 1 = d
    BY <1>3, <1>4, <1>5
  <2>2. drafts'[d] = batch[k]
    BY <1>5
  <2> HIDE DEF k
  <2>3. batch[k] \in Draft
    BY <1>3, <2>1
  <2> QED
    BY <2>1, <2>2, <2>3 DEF k
<1>9. DOMAIN ById(events) = N
  <2>1. ASSUME NEW d \in DOMAIN ById(events) PROVE d \in N
    <3>1. PICK y \in events : y.id = d
      BY DEF ById
    <3>2. PICK k \in 1..n : d = old + k - 1
      BY <1>6, <3>1
    <3> QED
      BY <1>3, <1>4, <1>5, <3>2
  <2>2. ASSUME NEW d \in N PROVE d \in DOMAIN ById(events)
    BY <1>7, <1>8
  <2> QED
    BY <2>1, <2>2
<1>10. \A id, draft : draft # None =>
         FtLockupCreateDraft(id, draft) =
           [id |-> id, draft_group_id |-> draft.draft_group_id,
            account_id |-> draft.lockup_create.account_id, balance |-> balance_of(draft),
            terminatable |-> draft.lockup_create.vesting_schedule # None,
            start |-> start(draft.lockup_create.schedule),
            finish |-> finish(draft.lockup_create.schedule)]
  BY DEF FtLockupCreateDraft, balance_of
<1>11. ASSUME NEW d \in N PROVE ById(events)[d] = get_draft(d)'
  <2> DEFINE k == d - old + 1
  <2>1. k \in 1..n /\ old + k - 1 = d /\ batch[k] \in Draft /\ drafts'[d] = batch[k]
    BY <1>8
  <2> HIDE DEF k, events
  <2>2. ById(events)[d] = FtLockupCreateDraft(d, batch[k])
    BY <1>7, <2>1 DEF e
  <2>3. batch[k] # None
    BY <2>1, DraftFields
  <2>4. get_draft(d)' = FtLockupCreateDraft(d, batch[k])
    BY <1>10, <2>1, <2>3 DEF get_draft
  <2> QED
    BY <2>2, <2>4
<1> HIDE DEF events
<1>12. ASSUME NEW d \in DraftIds PROVE mirror'.drafts[d] = get_draft(d)'
  <2>1. mirror'.drafts[d] = IF d \in N THEN ById(events)[d] ELSE mirror.drafts[d]
    BY <1>2, <1>9 DEF DraftsMirrored, Noting
  <2>2. CASE d \in N
    BY <1>11, <2>1, <2>2
  <2>3. CASE d \notin N
    <3>1. drafts'[d] = drafts[d]
      BY <1>5, <2>3
    <3>2. get_draft(d)' = get_draft(d)
      BY <3>1 DEF get_draft
    <3> QED
      BY <2>1, <2>3, <3>2 DEF DraftsMirrored
  <2> QED
    BY <2>2, <2>3
<1>13. mirror'.drafts = [d \in DraftIds |-> get_draft(d)']
  BY <1>2, <1>12 DEF DraftsMirrored, Noting
<1> QED
  BY <1>2, <1>13 DEF DraftsMirrored

(* A conversion announces its lockups, each naming the draft it was.       *)
LEMMA ConversionMirrored ==
  ASSUME DraftsInv, IInv, MirrorShape, LockupsMirrored, DraftsMirrored,
         NEW T, T \subseteq DraftIds, NEW ids, OrderOf(ids, T), convert_drafts(ids),
         SeesCreateLockup(ConversionEvents)
  PROVE  KeepsAllBut({"lockups", "drafts"}) /\ LockupsMirrored' /\ DraftsMirrored'
<1> DEFINE n == Len(ids)
           m == Len(lockups)
           made == Lot(ids)
           C == { d \in DraftIds : converted'[d] # converted[d] }
           e(d) == FtLockupCreateLockup(converted'[d], lockup_of(drafts[d]), d)
<1>1. DraftsTypeOK /\ GroupsAddUp /\ History
  BY DEF DraftsInv
<1>2. /\ n \in Nat /\ m \in Nat
      /\ \A k \in 1..n : ids[k] \in T /\ ids[k] \in DraftIds
      /\ \A d \in T : \E k \in 1..n : d = ids[k]
  BY <1>1, DraftTypes DEF OrderOf, Named
<1>3. /\ DraftsRemoved(T)
      /\ \A k \in 1..n : converted'[ids[k]] = m + k
  BY <1>1, DraftsConverted
<1>4. LotAdded(made, n)
  BY <1>1, LotConverted
<1>5. \A k \in 1..n : made[k] = lockup_of(drafts[ids[k]])
  BY DEF Lot
<1> HIDE DEF made, n, m
<1>6. C = T
  <2>1. ASSUME NEW d \in T PROVE converted'[d] # converted[d]
    <3>1. PICK k \in 1..n : d = ids[k]
      BY <1>2
    <3>2. converted'[d] = m + k
      BY <1>3, <3>1
    <3>3. converted[d] = 0
      BY <1>1, <1>3 DEF DraftsRemoved, History
    <3> QED
      BY <1>2, <3>2, <3>3
  <2>2. \A d \in DraftIds \ T : converted'[d] = converted[d]
    BY <1>3 DEF DraftsRemoved
  <2> QED
    BY <2>1, <2>2
<1>7. ConversionEvents = { e(d) : d \in T }
  <2>1. ConversionEvents = { e(d) : d \in C }
    BY DEF ConversionEvents
  <2> HIDE DEF e, C
  <2> QED
    BY <1>6, <2>1
<1>8. ASSUME NEW k \in 1..n
      PROVE  e(ids[k]) = FtLockupCreateLockup(m + k, made[k], ids[k])
  BY <1>3, <1>5
<1>9. \A d \in T : e(d).draft_id = d
  BY DEF FtLockupCreateLockup
<1> HIDE DEF e, C
<1>10. Announces(ConversionEvents, made, n, ids)
  <2> DEFINE F == { FtLockupCreateLockup(m + k, made[k], ids[k]) : k \in 1..n }
  <2>1. ASSUME NEW x \in ConversionEvents PROVE x \in F
    <3>1. PICK d \in T : x = e(d)
      BY <1>7
    <3>2. PICK k \in 1..n : d = ids[k]
      BY <1>2
    <3> QED
      BY <1>8, <3>1, <3>2
  <2>2. ASSUME NEW x \in F PROVE x \in ConversionEvents
    <3>1. PICK k \in 1..n : x = FtLockupCreateLockup(m + k, made[k], ids[k])
      OBVIOUS
    <3>2. x = e(ids[k]) /\ ids[k] \in T
      BY <1>2, <1>8, <3>1
    <3> QED
      BY <1>7, <3>2
  <2>3. ConversionEvents = F
    BY <2>1, <2>2
  <2> QED
    BY <2>3 DEF Announces, m
<1>11. /\ KeepsAllBut({"lockups", "drafts"})
       /\ mirror'.lockups = Noting(mirror.lockups, NewlyKnown(ConversionEvents))
       /\ mirror'.drafts = [d \in DraftIds |-> IF d \in { x.draft_id : x \in ConversionEvents }
                                               THEN None ELSE mirror.drafts[d]]
  BY SawCreateLockup
<1>12. LockupsMirrored'
  <2>1. Pushed(made, n)
    BY <1>4, LotElements DEF Pushed
  <2>2. /\ Len(lockups) \in Nat /\ Len(lockups) + n <= MaxLockups
        /\ \A k \in 1..n : made[k] \in LockupType /\ Increasing(made[k].schedule)
    BY <1>2, <1>4 DEF LotAdded, SoundLockup, m
  <2>3. \A k \in 1..n : ids[k] \in DraftIds \cup {None}
    BY <1>2
  <2> QED
    BY <1>2, <1>10, <1>11, <2>1, <2>2, <2>3, LotMirrored
<1>13. DraftsMirrored'
  <2>1. { x.draft_id : x \in ConversionEvents } = T
    BY <1>7, <1>9
  <2>2. drafts' = [d \in DraftIds |-> IF d \in T THEN None ELSE drafts[d]]
    BY <1>3 DEF DraftsRemoved
  <2>3. mirror'.drafts = [d \in DraftIds |-> IF d \in T THEN None ELSE mirror.drafts[d]]
    BY <1>11, <2>1
  <2> QED
    BY <2>2, <2>3, DraftsGone
<1> QED
  BY <1>11, <1>12, <1>13

-----------------------------------------------------------------------------
(* The draft groups.                                                       *)

(* A group that goes was no longer open; another keeps what is known of it.*)
SameFate(g) ==
  \/ draft_groups'[g] = draft_groups[g]
  \/ draft_groups[g] # None /\ ~Open(g) /\ draft_groups'[g] = None
  \/ /\ draft_groups[g] # None /\ draft_groups'[g] # None
     /\ draft_groups'[g].discarded = draft_groups[g].discarded
     /\ draft_groups'[g].payer_id = draft_groups[g].payer_id

LEMMA GroupsStay ==
  ASSUME GroupsMirrored, mirror'.draft_groups = mirror.draft_groups,
         next_draft_group_id' = next_draft_group_id, \A g \in GroupIds : SameFate(g)
  PROVE  GroupsMirrored'
<1>1. ASSUME NEW g \in GroupIds, KnowsGroup(mirror.draft_groups[g], draft_groups[g])
      PROVE  KnowsGroup(mirror.draft_groups[g], draft_groups'[g])
  BY <1>1 DEF SameFate, KnowsGroup, Open
<1> QED
  BY <1>1 DEF GroupsMirrored

LEMMA GroupCreatedMirrored ==
  ASSUME DraftsTypeOK, MirrorShape, GroupsMirrored, NEW caller \in Accounts,
         CreateDraftGroup(caller), SeesCreateDraftGroup(next_draft_group_id)
  PROVE  KeepsAllBut({"draft_groups"}) /\ GroupsMirrored'
<1> DEFINE n == next_draft_group_id
           group == [total_amount |-> 0, payer_id |-> None, draft_indices |-> {}, discarded |-> FALSE]
           known == [amount |-> 0, discarded |-> FALSE]
           x == [mirror.draft_groups EXCEPT ![n] = known]
<1>1. /\ n \in GroupIds /\ n \in Nat /\ next_draft_group_id' = n + 1
      /\ draft_groups' = [draft_groups EXCEPT ![n] = group]
      /\ draft_groups \in [GroupIds -> DraftGroup \cup {None}]
  BY DraftBounds DEF CreateDraftGroup, DraftsTypeOK, GroupIds
<1>2. mirror' = [mirror EXCEPT !.draft_groups = x]
  BY DEF SeesCreateDraftGroup, MirrorShape
<1>3. KeepsAllBut({"draft_groups"}) /\ mirror'.draft_groups = x
  <2> HIDE DEF x
  <2> QED
    BY <1>2, OnePartChanged
<1>4. known \in KnownGroup /\ KnowsGroup(known, group)
  <2>1. known \in KnownGroup
    BY DEF KnownGroup
  <2>2. ~known.discarded /\ known.amount = 0 /\ ~group.discarded /\ group.payer_id = None
    OBVIOUS
  <2>3. group # None
    <3>1. 0 \in 0..MaxAmount
      BY DraftBounds
    <3>2. group \in DraftGroup
      BY <3>1 DEF DraftGroup
    <3> QED
      BY <3>2, DraftBounds
  <2> QED
    BY <2>1, <2>2, <2>3 DEF KnowsGroup
<1> HIDE DEF group, known, n
<1>5. mirror.draft_groups \in [GroupIds -> KnownGroup \cup {None}]
  BY DEF GroupsMirrored
<1>6. ASSUME NEW g \in GroupIds
      PROVE  IF g < n + 1 THEN KnowsGroup(mirror'.draft_groups[g], draft_groups'[g])
             ELSE mirror'.draft_groups[g] = None
  <2>1. g \in Nat
    BY DraftTypes
  <2>2. CASE g = n
    <3>1. draft_groups'[g] = group /\ mirror'.draft_groups[g] = known /\ g < n + 1
      BY <1>1, <1>3, <1>5, <2>2
    <3> QED
      BY <1>4, <3>1
  <2>3. CASE g # n
    <3>1. /\ draft_groups'[g] = draft_groups[g]
          /\ mirror'.draft_groups[g] = mirror.draft_groups[g]
      BY <1>1, <1>3, <1>5, <2>3
    <3>2. g < n + 1 <=> g < n
      BY <1>1, <2>1, <2>3
    <3> QED
      BY <3>1, <3>2 DEF GroupsMirrored, n
  <2> QED
    BY <2>2, <2>3
<1>7. mirror'.draft_groups \in [GroupIds -> KnownGroup \cup {None}]
  BY <1>3, <1>4, <1>5
<1> QED
  BY <1>1, <1>3, <1>6, <1>7 DEF GroupsMirrored

(* One group is told about, and what is known of it then is right.         *)
LEMMA GroupTold ==
  ASSUME GroupsMirrored, next_draft_group_id' = next_draft_group_id, NEW n \in GroupIds,
         n < next_draft_group_id, NEW known,
         mirror'.draft_groups = [mirror.draft_groups EXCEPT ![n] = known],
         \A g \in GroupIds \ {n} : draft_groups'[g] = draft_groups[g],
         KnowsGroup(known, draft_groups'[n])
  PROVE  GroupsMirrored'
<1>1. mirror.draft_groups \in [GroupIds -> KnownGroup \cup {None}]
  BY DEF GroupsMirrored
<1>2. mirror'.draft_groups \in [GroupIds -> KnownGroup \cup {None}]
  BY <1>1 DEF KnowsGroup
<1>3. mirror'.draft_groups[n] = known
  BY <1>1
<1>4. \A g \in GroupIds \ {n} : mirror'.draft_groups[g] = mirror.draft_groups[g]
  BY <1>1
<1>5. ASSUME NEW g \in GroupIds
      PROVE  IF g < next_draft_group_id THEN KnowsGroup(mirror'.draft_groups[g], draft_groups'[g])
             ELSE mirror'.draft_groups[g] = None
  <2>1. CASE g = n
    BY <1>3, <2>1
  <2>2. CASE g # n
    BY <1>4, <2>2 DEF GroupsMirrored
  <2> QED
    BY <2>1, <2>2
<1> QED
  BY <1>2, <1>5 DEF GroupsMirrored

LEMMA KnownIs ==
  ASSUME DraftsTypeOK, Financed, GroupsMirrored, NEW g \in GroupIds, draft_groups[g] # None
  PROVE  /\ g < next_draft_group_id
         /\ KnowsGroup(mirror.draft_groups[g], draft_groups[g])
         /\ mirror.draft_groups[g] \in KnownGroup
<1>1. g \in Nat /\ next_draft_group_id \in Nat
  BY DraftTypes
<1>2. g < next_draft_group_id
  BY <1>1 DEF Financed, FinancedGroup
<1> QED
  BY <1>2 DEF GroupsMirrored, KnowsGroup

LEMMA DiscardMirrored ==
  ASSUME DraftsTypeOK, Financed, MirrorShape, GroupsMirrored, NEW caller \in Accounts,
         NEW g \in GroupIds, DiscardDraftGroup(caller, g), SeesDiscardDraftGroup(g)
  PROVE  KeepsAllBut({"draft_groups"}) /\ GroupsMirrored'
<1> DEFINE group == draft_groups[g]
           known == mirror.draft_groups[g]
           told == [known EXCEPT !.discarded = TRUE]
           x == [mirror.draft_groups EXCEPT ![g] = told]
<1>1. /\ Open(g) /\ group # None /\ next_draft_group_id' = next_draft_group_id
      /\ draft_groups' = [draft_groups EXCEPT ![g] =
           IF @.draft_indices = {} THEN None ELSE [@ EXCEPT !.discarded = TRUE]]
      /\ draft_groups \in [GroupIds -> DraftGroup \cup {None}]
  BY DEF DiscardDraftGroup, Open, DraftsTypeOK
<1>2. g < next_draft_group_id /\ KnowsGroup(known, group) /\ known \in KnownGroup
  BY <1>1, KnownIs
<1>3. mirror.draft_groups \in [GroupIds -> KnownGroup \cup {None}]
  BY DEF GroupsMirrored
<1>4. mirror' = [mirror EXCEPT !.draft_groups[g].discarded = TRUE]
  BY DEF SeesDiscardDraftGroup
<1>5. mirror' = [mirror EXCEPT !.draft_groups = x]
  BY <1>3, <1>4 DEF MirrorShape
<1>6. KeepsAllBut({"draft_groups"}) /\ mirror'.draft_groups = x
  <2> HIDE DEF x
  <2> QED
    BY <1>5, OnePartChanged
<1>7. group \in DraftGroup /\ group.payer_id = None
  BY <1>1, DraftTypes DEF Open
<1>8. \/ draft_groups'[g] = None
      \/ draft_groups'[g].discarded = TRUE /\ draft_groups'[g].payer_id = None
  BY <1>1, <1>7 DEF DraftGroup
<1>9. told \in KnownGroup /\ told.discarded = TRUE /\ told.amount = known.amount
  BY <1>2 DEF KnownGroup
<1>10. KnowsGroup(told, draft_groups'[g])
  BY <1>1, <1>2, <1>7, <1>8, <1>9 DEF KnowsGroup
<1>11. \A h \in GroupIds \ {g} : draft_groups'[h] = draft_groups[h]
  BY <1>1
<1> HIDE DEF told, known
<1>12. GroupsMirrored'
  BY <1>1, <1>2, <1>6, <1>10, <1>11, GroupTold
<1> QED
  BY <1>6, <1>12

LEMMA FundingMirrored ==
  ASSUME DraftsInv, MirrorShape, GroupsMirrored, NEW f \in 1..Len(fundings), EmitsFunding(f)
  PROVE  KeepsAllBut({"draft_groups"}) /\ GroupsMirrored'
<1> DEFINE g == fundings[f].draft_group_id
           amount == fundings[f].amount
           group == draft_groups[g]
           known == mirror.draft_groups[g]
           told == [known EXCEPT !.amount = amount]
           x == [mirror.draft_groups EXCEPT ![g] = told]
<1>1. DraftsTypeOK /\ Financed
  BY DEF DraftsInv
<1>2. FtOnTransferFunding(f) /\ SeesFundDraftGroup(g, amount)
  BY DEF EmitsFunding
<1>3. g \in GroupIds /\ Financing(f, g)
  BY <1>2, FundingFinances
<1>4. fundings[f].sender_id \in Accounts /\ amount \in Nat /\ amount > 0
  <2>1. fundings[f] \in Funding
    BY <1>1, DraftTypes
  <2>2. fundings[f].sender_id \in Accounts /\ amount \in FundingAmounts
    BY <2>1 DEF Funding
  <2> HIDE DEF amount
  <2>3. amount \in Nat \ {0}
    BY <2>2, FundingAmountsAssumption
  <2> QED
    BY <2>2, <2>3
<1>5. /\ Open(g) /\ group # None /\ next_draft_group_id' = next_draft_group_id
      /\ draft_groups' = [draft_groups EXCEPT ![g].payer_id = fundings[f].sender_id]
      /\ draft_groups \in [GroupIds -> DraftGroup \cup {None}]
  BY <1>1, <1>3 DEF Financing, Open, DraftsTypeOK
<1> HIDE DEF g, amount
<1>6. g < next_draft_group_id /\ KnowsGroup(known, group) /\ known \in KnownGroup
  BY <1>1, <1>3, <1>5, KnownIs
<1>7. mirror.draft_groups \in [GroupIds -> KnownGroup \cup {None}]
  BY DEF GroupsMirrored
<1>8. mirror' = [mirror EXCEPT !.draft_groups[g].amount = amount]
  BY <1>2 DEF SeesFundDraftGroup
<1>9. mirror' = [mirror EXCEPT !.draft_groups = x]
  BY <1>3, <1>7, <1>8 DEF MirrorShape
<1>10. KeepsAllBut({"draft_groups"}) /\ mirror'.draft_groups = x
  <2> HIDE DEF x
  <2> QED
    BY <1>9, OnePartChanged
<1>11. group \in DraftGroup
  BY <1>1, <1>3, <1>5, DraftTypes
<1>12. /\ draft_groups'[g] = [group EXCEPT !.payer_id = fundings[f].sender_id]
       /\ \A h \in GroupIds \ {g} : draft_groups'[h] = draft_groups[h]
  BY <1>3, <1>5
<1>13. /\ draft_groups'[g].discarded = group.discarded
       /\ draft_groups'[g].payer_id = fundings[f].sender_id
       /\ draft_groups'[g] \in DraftGroup
  BY <1>4, <1>11, <1>12 DEF DraftGroup
<1>14. told \in KnownGroup /\ told.discarded = known.discarded /\ told.amount = amount
  BY <1>4, <1>6 DEF KnownGroup
<1>15. fundings[f].sender_id # None /\ draft_groups'[g] # None
  BY <1>4, <1>13, NoneIsNoValue, DraftBounds
<1>16. KnowsGroup(told, draft_groups'[g])
  BY <1>4, <1>5, <1>6, <1>13, <1>14, <1>15 DEF KnowsGroup
<1> HIDE DEF told, known
<1>17. GroupsMirrored'
  BY <1>3, <1>5, <1>6, <1>10, <1>12, <1>16, GroupTold
<1> QED
  BY <1>10, <1>17

LEMMA CutMirrored ==
  ASSUME DraftsTypeOK, History, GroupsAddUp, GroupsMirrored, NEW S, DraftsRemoved(S), GroupsCut(S),
         mirror'.draft_groups = mirror.draft_groups, next_draft_group_id' = next_draft_group_id
  PROVE  GroupsMirrored'
<1>1. ASSUME NEW g \in GroupIds PROVE SameFate(g)
  <2>1. CASE OfGroup(S, drafts, g) = {}
    BY <2>1 DEF GroupsCut, SameFate
  <2>2. CASE OfGroup(S, drafts, g) # {}
    <3>1. ~Open(g) /\ draft_groups[g] # None
      BY <2>2, RemovedOf DEF DraftsRemoved, OfGroup
    <3>2. CASE Left(S, g) = {}
      BY <2>2, <3>1, <3>2 DEF GroupsCut, SameFate
    <3>3. CASE Left(S, g) # {}
      <4>1. /\ draft_groups'[g] \in DraftGroup
            /\ draft_groups'[g].payer_id = draft_groups[g].payer_id
            /\ draft_groups'[g].discarded = draft_groups[g].discarded
        BY <3>1, <3>3, CutRecord
      <4> QED
        BY <3>1, <4>1, DraftBounds DEF SameFate
    <3> QED
      BY <3>2, <3>3
  <2> QED
    BY <2>1, <2>2
<1> QED
  BY <1>1, GroupsStay

LEMMA ExtendedMirrored ==
  ASSUME DraftsTypeOK, GroupsMirrored, NEW N, DraftsAdded(N), GroupsExtended(N),
         mirror'.draft_groups = mirror.draft_groups, next_draft_group_id' = next_draft_group_id,
         \A g \in GroupIds : draft_groups[g] # None => draft_groups'[g] # None
  PROVE  GroupsMirrored'
<1>1. ASSUME NEW g \in GroupIds PROVE SameFate(g)
  <2>1. CASE OfGroup(N, drafts', g) = {}
    BY <2>1 DEF GroupsExtended, SameFate
  <2>2. CASE OfGroup(N, drafts', g) # {}
    <3>1. Open(g)
      BY <2>2 DEF DraftsAdded, OfGroup
    <3>2. draft_groups[g] \in DraftGroup /\ draft_groups[g] # None
      BY <3>1, DraftTypes DEF Open
    <3>3. /\ draft_groups'[g].payer_id = draft_groups[g].payer_id
          /\ draft_groups'[g].discarded = draft_groups[g].discarded
      BY <2>2, <3>2 DEF GroupsExtended, DraftGroup
    <3> QED
      BY <3>2, <3>3 DEF SameFate
  <2> QED
    BY <2>1, <2>2
<1> QED
  BY <1>1, GroupsStay

-----------------------------------------------------------------------------
(* Every handler and its events keep what the indexer knows.               *)

LEMMA PartsMirrored ==
  ASSUME MirrorInv, MirrorShape',
         \/ LockupsMirrored'
         \/ mirror'.lockups = mirror.lockups /\ lockups' = lockups /\ indexer' = indexer,
         \/ DraftsMirrored'
         \/ mirror'.drafts = mirror.drafts /\ drafts' = drafts,
         \/ GroupsMirrored'
         \/ /\ mirror'.draft_groups = mirror.draft_groups
            /\ draft_groups' = draft_groups /\ next_draft_group_id' = next_draft_group_id,
         \/ mirror'.deposit_whitelist = deposit_whitelist'
         \/ /\ mirror'.deposit_whitelist = mirror.deposit_whitelist
            /\ deposit_whitelist' = deposit_whitelist,
         \/ mirror'.draft_operators_whitelist = draft_operators_whitelist'
         \/ /\ mirror'.draft_operators_whitelist = mirror.draft_operators_whitelist
            /\ draft_operators_whitelist' = draft_operators_whitelist
  PROVE  MirrorInv'
<1>1. LockupsMirrored'
  BY LockupsStay DEF SameTerms, MirrorInv
<1>2. DraftsMirrored'
  BY DraftsStay DEF MirrorInv
<1>3. GroupsMirrored'
  BY GroupsStay DEF SameFate, MirrorInv
<1>4. mirror'.deposit_whitelist = deposit_whitelist'
  BY DEF MirrorInv
<1>5. mirror'.draft_operators_whitelist = draft_operators_whitelist'
  BY DEF MirrorInv
<1> QED
  BY <1>1, <1>2, <1>3, <1>4, <1>5 DEF MirrorInv, MirrorShape

(* The lockups are charged or paid back: the indexer knows nothing of it.  *)
LEMMA ChargedMirrored ==
  ASSUME TypeOK, MirrorInv, mirror' = mirror, indexer' = indexer, NEW charged,
         lockups' = [i \in Indices |-> [lockups[i] EXCEPT !.claimed_balance = charged[i]]],
         deposit_whitelist' = deposit_whitelist, UNCHANGED draftVars
  PROVE  MirrorInv'
<1> DEFINE l(i) == [lockups[i] EXCEPT !.claimed_balance = charged[i]]
<1>1. Len(lockups) \in Nat /\ \A i \in Indices : lockups[i] \in LockupType
  BY TypeFacts
<1>2. \A i \in Indices : SameTerms(lockups[i], l(i))
  BY <1>1 DEF SameTerms, LockupType
<1>3. lockups' = [i \in 1..Len(lockups) |-> l(i)]
  BY DEF Indices
<1> HIDE DEF l
<1>4. Len(lockups') = Len(lockups)
  <2>1. lockups' \in [1..Len(lockups) -> { l(i) : i \in 1..Len(lockups) }]
    BY <1>3
  <2> QED
    BY <1>1, <2>1, FunctionIsSeq
<1>5. \A i \in Indices : SameTerms(lockups[i], lockups'[i])
  BY <1>2, <1>3 DEF Indices
<1>6. LockupsMirrored'
  BY <1>4, <1>5, LockupsStay DEF MirrorInv
<1>7. KeepsAllBut({})
  BY OnePartChanged DEF MirrorInv, MirrorShape
<1> QED
  BY <1>6, <1>7, PartsMirrored DEF draftVars, KeepsAllBut

LEMMA SilentMirrored ==
  ASSUME IInv, MirrorInv, Silent, UNCHANGED <<draftVars, mirror>>
  PROVE  MirrorInv'
<1>1. TypeOK
  BY DEF IInv
<1>2. KeepsAllBut({})
  BY OnePartChanged DEF MirrorInv, MirrorShape
<1>3. CASE Tick \/ \E k \in 1..Len(promises) : FtTransfer(k)
  <2>1. UNCHANGED <<lockups, indexer, deposit_whitelist>>
    BY <1>3 DEF Tick, FtTransfer
  <2> QED
    BY <1>2, <2>1, PartsMirrored DEF draftVars, KeepsAllBut
<1>4. ASSUME NEW a \in Accounts, NEW amounts \in AmountRequests(a), Claim(a, amounts)
      PROVE  MirrorInv'
  <2> DEFINE r == Requested(amounts)
             charged == [i \in Indices |-> lockups[i].claimed_balance + r[i]]
  <2>1. /\ lockups' = [i \in Indices |-> [lockups[i] EXCEPT !.claimed_balance = @ + r[i]]]
        /\ indexer' = indexer /\ deposit_whitelist' = deposit_whitelist
    BY <1>4 DEF Claim, Requested
  <2> HIDE DEF r
  <2>2. lockups' = [i \in Indices |-> [lockups[i] EXCEPT !.claimed_balance = charged[i]]]
    BY <2>1
  <2> HIDE DEF charged
  <2> QED
    BY <1>1, <2>1, <2>2, ChargedMirrored
<1>5. ASSUME NEW k \in 1..Len(promises), AfterFtTransferFailed(k)
      PROVE  MirrorInv'
  <2> DEFINE c == promises[k].claims
             charged == [i \in Indices |-> lockups[i].claimed_balance - c[i].claim_amount]
  <2>1. /\ lockups' = [i \in Indices |-> [lockups[i] EXCEPT !.claimed_balance = @ - c[i].claim_amount]]
        /\ indexer' = indexer /\ deposit_whitelist' = deposit_whitelist
    BY <1>5 DEF AfterFtTransferFailed
  <2> HIDE DEF c
  <2>2. lockups' = [i \in Indices |-> [lockups[i] EXCEPT !.claimed_balance = charged[i]]]
    BY <2>1
  <2> HIDE DEF charged
  <2> QED
    BY <1>1, <2>1, <2>2, ChargedMirrored
<1> QED
  BY <1>3, <1>4, <1>5 DEF Silent

LEMMA SilentFundingMirrored ==
  ASSUME MirrorInv, SilentFunding, UNCHANGED mirror
  PROVE  MirrorInv'
<1>1. KeepsAllBut({})
  BY OnePartChanged DEF MirrorInv, MirrorShape
<1>2. UNCHANGED <<lockups, indexer, deposit_whitelist, drafts, draft_groups, next_draft_group_id,
                  draft_operators_whitelist>>
  BY DEF SilentFunding, FtTransferCall, FtOnTransferRefused, FtResolveTransfer, vars
<1> QED
  BY <1>1, <1>2, PartsMirrored DEF KeepsAllBut

LEMMA LockupEventsMirrored ==
  ASSUME IInv, Ledger, MirrorInv, LockupEvents, UNCHANGED draftVars
  PROVE  MirrorInv'
<1>1. MirrorShape /\ LockupsMirrored /\ DraftsMirrored
  BY DEF MirrorInv, MirrorShape
<1>2. /\ drafts' = drafts /\ draft_groups' = draft_groups
      /\ next_draft_group_id' = next_draft_group_id
      /\ draft_operators_whitelist' = draft_operators_whitelist
  BY DEF draftVars
<1>3. ASSUME NEW l \in LockupType, Increasing(l.schedule), Len(lockups) < MaxLockups,
             internal_add_lockup(l), indexer' = Append(indexer, Created(l)),
             SeesCreateLockup({FtLockupCreateLockup(Len(lockups) + 1, l, None)}),
             deposit_whitelist' = deposit_whitelist
      PROVE  MirrorInv'
  <2>1. KeepsAllBut({"lockups", "drafts"}) /\ LockupsMirrored' /\ DraftsMirrored'
    BY <1>1, <1>2, <1>3, OneMirrored
  <2> QED
    BY <1>2, <1>3, <2>1, PartsMirrored DEF KeepsAllBut
<1>4. ASSUME NEW sender_id \in Accounts, NEW amount \in Deposits, NEW c \in LockupCreates,
             EmitsLockup(sender_id, amount, c)
      PROVE  MirrorInv'
  <2> DEFINE l == into_lockup(c, sender_id)
  <2>1. /\ Room /\ assert_new_valid(l, amount) /\ internal_add_lockup(l)
        /\ indexer' = Append(indexer, Created(l)) /\ deposit_whitelist' = deposit_whitelist
        /\ SeesCreateLockup({FtLockupCreateLockup(Len(lockups) + 1, l, None)})
    BY <1>4 DEF EmitsLockup, FtOnTransfer
  <2>2. Len(lockups) < MaxLockups
    BY <2>1, RoomBound DEF IInv
  <2>3. amount \in Nat /\ 0 \in Nat
    BY AmountsAssumption
  <2>4. l \in LockupType /\ Increasing(l.schedule)
    BY <2>1, <2>3, SoundCreate DEF SoundLockup
  <2> HIDE DEF l
  <2> QED
    BY <1>3, <2>1, <2>2, <2>4
<1>5. ASSUME NEW k \in 1..Len(promises), EmitsClaim(k)
      PROVE  MirrorInv'
  <2>1. KeepsAllBut({"lockups"}) /\ LockupsMirrored'
    BY <1>1, <1>5, ClaimMirrored
  <2>2. deposit_whitelist' = deposit_whitelist
    BY <1>5 DEF EmitsClaim, AfterFtTransferOk
  <2> QED
    BY <1>2, <2>1, <2>2, PartsMirrored DEF KeepsAllBut
<1>6. ASSUME NEW k \in 1..Len(promises), EmitsRefundLockup(k)
      PROVE  MirrorInv'
  <2> DEFINE a == promises[k].account_id
             amount == promises[k].amount
             l == new_lockup_unlocked_since(a, amount, now)
  <2>1. deposit_whitelist' = deposit_whitelist
    BY <1>6 DEF EmitsRefundLockup, AfterLockupTermination
  <2>2. CASE promises[k].status = "failed"
    <3>1. /\ internal_add_lockup(l) /\ indexer' = Append(indexer, Created(l))
          /\ Len(lockups) < MaxLockups
          /\ SeesCreateLockup({FtLockupCreateLockup(Len(lockups) + 1, l, None)})
      BY <1>6, <2>2 DEF EmitsRefundLockup, AfterLockupTermination
    <3>2. a \in Accounts /\ amount \in Nat /\ now \in 1..MaxTime
      BY TypeFacts DEF IInv, Promise
    <3> HIDE DEF a, amount
    <3>3. l \in LockupType /\ Increasing(l.schedule)
      BY <3>2, SoundRefundLockup DEF SoundLockup
    <3> HIDE DEF l
    <3> QED
      BY <1>3, <2>1, <3>1, <3>3
  <2>3. CASE promises[k].status # "failed"
    <3>1. lockups' = lockups /\ indexer' = indexer /\ mirror' = mirror
      BY <1>6, <2>3 DEF EmitsRefundLockup, AfterLockupTermination
    <3>2. KeepsAllBut({})
      BY <1>1, <3>1, OnePartChanged
    <3> QED
      BY <1>2, <2>1, <3>1, <3>2, PartsMirrored DEF KeepsAllBut
  <2> QED
    BY <2>2, <2>3
<1>7. ASSUME NEW caller \in Accounts, NEW i \in Indices, NEW h, NEW t \in 1..MaxTime,
             EmitsTerminate(caller, i, h, t)
      PROVE  MirrorInv'
  <2>1. KeepsAllBut({"lockups"}) /\ LockupsMirrored'
    BY <1>1, <1>7, TerminationMirrored
  <2>2. deposit_whitelist' = deposit_whitelist
    BY <1>7 DEF EmitsTerminate, Terminate
  <2> QED
    BY <1>2, <2>1, <2>2, PartsMirrored DEF KeepsAllBut
<1>8. ASSUME NEW caller \in Accounts, NEW account_ids,
             \/ /\ AddToDepositWhitelist(caller, account_ids)
                /\ SeesDepositWhitelist(mirror.deposit_whitelist \cup account_ids)
             \/ /\ RemoveFromDepositWhitelist(caller, account_ids)
                /\ SeesDepositWhitelist(mirror.deposit_whitelist \ account_ids)
      PROVE  MirrorInv'
  <2>1. lockups' = lockups /\ indexer' = indexer
    BY <1>8 DEF AddToDepositWhitelist, RemoveFromDepositWhitelist
  <2>2. mirror' = [mirror EXCEPT !.deposit_whitelist = deposit_whitelist']
    BY <1>8 DEF AddToDepositWhitelist, RemoveFromDepositWhitelist, SeesDepositWhitelist, MirrorInv
  <2>3. KeepsAllBut({"deposit_whitelist"}) /\ mirror'.deposit_whitelist = deposit_whitelist'
    BY <1>1, <2>2, OnePartChanged
  <2> QED
    BY <1>2, <2>1, <2>3, PartsMirrored DEF KeepsAllBut
<1>9. CASE \E sender_id \in Accounts, amount \in Deposits, c \in LockupCreates :
             EmitsLockup(sender_id, amount, c)
  BY <1>4, <1>9
<1>10. CASE \E k \in 1..Len(promises) : EmitsClaim(k) \/ EmitsRefundLockup(k)
  BY <1>5, <1>6, <1>10
<1>11. CASE \E caller \in Accounts, i \in Indices, h \in RevealedSchedules, t \in 1..MaxTime :
              EmitsTerminate(caller, i, h, t)
  BY <1>7, <1>11
<1> QED
  BY <1>8, <1>9, <1>10, <1>11 DEF LockupEvents

(* The drafts S leave their groups; no lockup changes.                     *)
LEMMA DeletionMirrored ==
  ASSUME DraftsInv, MirrorInv, NEW S \in SomeIds, DeleteDrafts(S), SeesDeleteDraft(S)
  PROVE  MirrorInv'
<1>1. DraftsTypeOK /\ GroupsAddUp /\ History
  BY DEF DraftsInv
<1>2. /\ S \subseteq DraftIds /\ RemoveDrafts(S)
      /\ UNCHANGED <<vars, next_draft_group_id, draft_operators_whitelist, written, converted>>
      /\ \A d \in S : drafts[d] # None /\ assert_can_delete_draft(drafts[d].draft_group_id)
  BY DEF DeleteDrafts, SomeIds
<1>3. DraftsRemoved(S)
  BY <1>2 DEF DraftsRemoved, RemoveDrafts, assert_can_delete_draft, Open
<1>4. GroupsCut(S)
  BY <1>1, <1>2, RemovedGrouped
<1>5. mirror' = [mirror EXCEPT !.drafts = [d \in DraftIds |-> IF d \in S THEN None ELSE mirror.drafts[d]]]
  BY DEF SeesDeleteDraft
<1>6. KeepsAllBut({"drafts"})
      /\ mirror'.drafts = [d \in DraftIds |-> IF d \in S THEN None ELSE mirror.drafts[d]]
  BY <1>5, OnePartChanged DEF MirrorInv, MirrorShape
<1>7. DraftsMirrored'
  BY <1>3, <1>6, DraftsGone DEF MirrorInv, DraftsRemoved
<1>8. mirror'.draft_groups = mirror.draft_groups
  BY <1>6 DEF KeepsAllBut
<1>9. GroupsMirrored'
  BY <1>1, <1>2, <1>3, <1>4, <1>8, CutMirrored DEF MirrorInv
<1>10. UNCHANGED <<lockups, indexer, deposit_whitelist>>
  BY <1>2 DEF vars
<1>11. /\ MirrorShape'
       /\ mirror'.lockups = mirror.lockups
       /\ mirror'.deposit_whitelist = mirror.deposit_whitelist
       /\ mirror'.draft_operators_whitelist = mirror.draft_operators_whitelist
  BY <1>6 DEF KeepsAllBut
<1>12. LockupsMirrored'
  BY <1>10, <1>11, LockupsStay DEF MirrorInv, SameTerms
<1> QED
  BY <1>2, <1>7, <1>9, <1>10, <1>11, <1>12 DEF MirrorInv, MirrorShape

(* They leave as lockups.                                                  *)
LEMMA ConvertedMirrored ==
  ASSUME DraftsInv, IInv, MirrorInv, NEW T, T \subseteq DraftIds, NEW ids, OrderOf(ids, T),
         convert_drafts(ids), SeesCreateLockup(ConversionEvents)
  PROVE  MirrorInv'
<1>1. DraftsTypeOK /\ GroupsAddUp /\ History
  BY DEF DraftsInv
<1>2. KeepsAllBut({"lockups", "drafts"}) /\ LockupsMirrored' /\ DraftsMirrored'
  BY ConversionMirrored DEF MirrorInv, MirrorShape
<1>3. DraftsRemoved(T) /\ GroupsCut(T)
  BY <1>1, DraftsConverted
<1>4. /\ next_draft_group_id' = next_draft_group_id /\ deposit_whitelist' = deposit_whitelist
      /\ draft_operators_whitelist' = draft_operators_whitelist
  BY DEF convert_drafts
<1>5. mirror'.draft_groups = mirror.draft_groups
  BY <1>2 DEF KeepsAllBut
<1>6. GroupsMirrored'
  BY <1>1, <1>3, <1>4, <1>5, CutMirrored DEF MirrorInv
<1>7. /\ MirrorShape'
      /\ mirror'.deposit_whitelist = mirror.deposit_whitelist
      /\ mirror'.draft_operators_whitelist = mirror.draft_operators_whitelist
  BY <1>2 DEF KeepsAllBut
<1> QED
  BY <1>2, <1>4, <1>6, <1>7 DEF MirrorInv, MirrorShape

(* A conversion that panics announces nothing.                             *)
LEMMA PanicMirrored ==
  ASSUME MirrorInv, UNCHANGED <<vars, drafts, draft_groups, next_draft_group_id,
                                draft_operators_whitelist, converted>>,
         SeesCreateLockup(ConversionEvents)
  PROVE  MirrorInv'
<1>1. ConversionEvents = {}
  BY DEF ConversionEvents
<1>2. /\ KeepsAllBut({"lockups", "drafts"})
      /\ mirror'.lockups = Noting(mirror.lockups, NewlyKnown({}))
      /\ mirror'.drafts = [d \in DraftIds |-> IF d \in { e.draft_id : e \in {} }
                                              THEN None ELSE mirror.drafts[d]]
  BY <1>1, SawCreateLockup DEF MirrorInv, MirrorShape
<1>3. DOMAIN NewlyKnown({}) = {}
  BY DEF NewlyKnown, ById
<1>4. mirror.lockups \in [1..MaxLockups -> KnownLockup \cup {None}]
  BY DEF MirrorInv, LockupsMirrored
<1>5. mirror'.lockups = mirror.lockups
  BY <1>2, <1>3, <1>4 DEF Noting
<1>6. mirror'.drafts = mirror.drafts
  BY <1>2 DEF MirrorInv, DraftsMirrored
<1>7. KeepsAllBut({})
  BY <1>2, <1>5, <1>6 DEF KeepsAllBut
<1>8. UNCHANGED <<lockups, indexer, deposit_whitelist>>
  BY DEF vars
<1> QED
  BY <1>7, <1>8, PartsMirrored DEF KeepsAllBut

LEMMA BatchMirrored ==
  ASSUME DraftsInv, DraftsTypeOK', MirrorInv, NEW caller \in Accounts, NEW batch \in Batches,
         EmitsDrafts(caller, batch)
  PROVE  MirrorInv'
<1>1. DraftsTypeOK /\ History
  BY DEF DraftsInv
<1>2. CreateDrafts(caller, batch)
  BY DEF EmitsDrafts
<1>3. KeepsAllBut({"drafts"}) /\ DraftsMirrored'
  BY <1>1, DraftsWritten DEF MirrorInv, MirrorShape
<1>4. DraftsAdded(NewIds(batch)) /\ GroupsExtended(NewIds(batch))
  BY <1>1, <1>2, BatchAdded, BatchGrouped
<1>5. \A g \in GroupIds : draft_groups[g] # None => draft_groups'[g] # None
  BY <1>1, <1>4, GroupsTyped, DraftBounds
<1>6. /\ UNCHANGED <<lockups, indexer, deposit_whitelist>>
      /\ next_draft_group_id' = next_draft_group_id
      /\ draft_operators_whitelist' = draft_operators_whitelist
  BY <1>2 DEF CreateDrafts, vars
<1>7. mirror'.draft_groups = mirror.draft_groups
  BY <1>3 DEF KeepsAllBut
<1>8. GroupsMirrored'
  BY <1>1, <1>4, <1>5, <1>6, <1>7, ExtendedMirrored DEF MirrorInv
<1>9. /\ MirrorShape'
      /\ mirror'.lockups = mirror.lockups
      /\ mirror'.deposit_whitelist = mirror.deposit_whitelist
      /\ mirror'.draft_operators_whitelist = mirror.draft_operators_whitelist
  BY <1>3 DEF KeepsAllBut
<1>10. LockupsMirrored'
  BY <1>6, <1>9, LockupsStay DEF MirrorInv, SameTerms
<1> QED
  BY <1>3, <1>6, <1>8, <1>9, <1>10 DEF MirrorInv, MirrorShape

LEMMA DraftEventsMirrored ==
  ASSUME DraftsInv, IInv, MirrorInv, DraftEvents
  PROVE  MirrorInv'
<1>1. DraftsTypeOK /\ Financed /\ MirrorShape /\ GroupsMirrored
  BY DEF DraftsInv, MirrorInv, MirrorShape
<1>2. ASSUME NEW caller \in Accounts, CreateDraftGroup(caller),
             SeesCreateDraftGroup(next_draft_group_id)
      PROVE  MirrorInv'
  <2>1. KeepsAllBut({"draft_groups"}) /\ GroupsMirrored'
    BY <1>1, <1>2, GroupCreatedMirrored
  <2>2. UNCHANGED <<lockups, indexer, deposit_whitelist, drafts, draft_operators_whitelist>>
    BY <1>2 DEF CreateDraftGroup, vars
  <2> QED
    BY <2>1, <2>2, PartsMirrored DEF KeepsAllBut
<1>3. ASSUME NEW caller \in Accounts, NEW batch \in Batches, EmitsDrafts(caller, batch)
      PROVE  MirrorInv'
  <2>1. DraftsTypeOK'
    <3>1. [DraftsNext]_allVars
      BY <1>3 DEF EmitsDrafts, DraftsNext
    <3> QED
      BY <3>1, DraftsInvNext DEF DraftsInv
  <2> QED
    BY <1>3, <2>1, BatchMirrored
<1>4. ASSUME NEW caller \in Accounts, NEW g \in GroupIds, DiscardDraftGroup(caller, g),
             SeesDiscardDraftGroup(g)
      PROVE  MirrorInv'
  <2>1. KeepsAllBut({"draft_groups"}) /\ GroupsMirrored'
    BY <1>1, <1>4, DiscardMirrored
  <2>2. UNCHANGED <<lockups, indexer, deposit_whitelist, drafts, draft_operators_whitelist>>
    BY <1>4 DEF DiscardDraftGroup, vars
  <2> QED
    BY <2>1, <2>2, PartsMirrored DEF KeepsAllBut
<1>5. ASSUME NEW caller \in Accounts, NEW account_ids,
             \/ /\ AddToDraftOperatorsWhitelist(caller, account_ids)
                /\ SeesDraftOperatorsWhitelist(mirror.draft_operators_whitelist \cup account_ids)
             \/ /\ RemoveFromDraftOperatorsWhitelist(caller, account_ids)
                /\ SeesDraftOperatorsWhitelist(mirror.draft_operators_whitelist \ account_ids)
      PROVE  MirrorInv'
  <2>1. UNCHANGED <<lockups, indexer, deposit_whitelist, drafts, draft_groups, next_draft_group_id>>
    BY <1>5 DEF AddToDraftOperatorsWhitelist, RemoveFromDraftOperatorsWhitelist, vars
  <2>2. mirror' = [mirror EXCEPT !.draft_operators_whitelist = draft_operators_whitelist']
    BY <1>5 DEF AddToDraftOperatorsWhitelist, RemoveFromDraftOperatorsWhitelist,
                SeesDraftOperatorsWhitelist, MirrorInv
  <2>3. /\ KeepsAllBut({"draft_operators_whitelist"})
        /\ mirror'.draft_operators_whitelist = draft_operators_whitelist'
    BY <1>1, <2>2, OnePartChanged
  <2> QED
    BY <2>1, <2>3, PartsMirrored DEF KeepsAllBut
<1>6. ASSUME NEW S \in SomeIds, DeleteDrafts(S), SeesDeleteDraft(S)
      PROVE  MirrorInv'
  BY <1>6, DeletionMirrored
<1>7. ASSUME NEW S \in SomeIds, NEW ids \in Bijection(1..Cardinality(S), S), ConvertDrafts(ids),
             SeesCreateLockup(ConversionEvents)
      PROVE  MirrorInv'
  <2>1. S \subseteq DraftIds /\ convert_drafts(ids)
    BY <1>7 DEF SomeIds, ConvertDrafts
  <2>2. OrderOf(ids, S)
    BY <2>1, BijectionOrders
  <2> QED
    BY <1>7, <2>1, <2>2, ConvertedMirrored
<1>8. ASSUME NEW f \in 1..Len(fundings), EmitsFunding(f)
      PROVE  MirrorInv'
  <2>1. KeepsAllBut({"draft_groups"}) /\ GroupsMirrored'
    BY <1>1, <1>8, FundingMirrored
  <2>2. UNCHANGED <<lockups, indexer, deposit_whitelist, drafts, draft_operators_whitelist>>
    BY <1>8 DEF EmitsFunding, FtOnTransferFunding, vars
  <2> QED
    BY <2>1, <2>2, PartsMirrored DEF KeepsAllBut
<1>9. ASSUME NEW f \in 1..Len(fundings), RunConversion(f), SeesCreateLockup(ConversionEvents)
       PROVE  MirrorInv'
  <2> DEFINE T == fundings[f].draft_indices
  <2>1. T \subseteq DraftIds
    BY <1>9, ConversionEnds
  <2>2. ASSUME NEW ids \in Bijection(1..Cardinality(T), T), convert_drafts(ids)
        PROVE  MirrorInv'
    <3> HIDE DEF T
    <3>1. OrderOf(ids, T)
      BY <2>1, BijectionOrders
    <3> QED
      BY <1>9, <2>1, <2>2, <3>1, ConvertedMirrored
  <2>3. CASE UNCHANGED <<vars, drafts, draft_groups, next_draft_id, next_draft_group_id,
                         draft_operators_whitelist, written, converted>>
    BY <1>9, <2>3, PanicMirrored
  <2> QED
    BY <1>9, <2>2, <2>3 DEF RunConversion
<1>10. CASE \E caller \in Accounts :
              \/ CreateDraftGroup(caller) /\ SeesCreateDraftGroup(next_draft_group_id)
              \/ \E batch \in Batches : EmitsDrafts(caller, batch)
              \/ \E g \in GroupIds : DiscardDraftGroup(caller, g) /\ SeesDiscardDraftGroup(g)
  BY <1>2, <1>3, <1>4, <1>10
<1>11. CASE \E S \in SomeIds :
              \/ DeleteDrafts(S) /\ SeesDeleteDraft(S)
              \/ \E ids \in Bijection(1..Cardinality(S), S) :
                   ConvertDrafts(ids) /\ SeesCreateLockup(ConversionEvents)
  BY <1>6, <1>7, <1>11
<1>12. CASE \E f \in 1..Len(fundings) :
              \/ EmitsFunding(f)
              \/ RunConversion(f) /\ SeesCreateLockup(ConversionEvents)
  BY <1>8, <1>9, <1>12
<1> QED
  BY <1>5, <1>10, <1>11, <1>12 DEF DraftEvents

LEMMA MirrorNext ==
  ASSUME WholeBooks, MirrorInv, [EventsNext]_eventVars
  PROVE  MirrorInv'
<1>1. DraftsInv /\ IInv /\ Ledger
  BY DEF WholeBooks
<1>2. CASE UNCHANGED eventVars
  <2>1. /\ mirror' = mirror
        /\ UNCHANGED <<lockups, indexer, deposit_whitelist, drafts, draft_groups,
                       next_draft_group_id, draft_operators_whitelist>>
    BY <1>2 DEF eventVars, allVars, vars, draftVars
  <2>2. KeepsAllBut({})
    BY <2>1, OnePartChanged DEF MirrorInv, MirrorShape
  <2> QED
    BY <2>1, <2>2, PartsMirrored DEF KeepsAllBut
<1> QED
  BY <1>1, <1>2, SilentMirrored, SilentFundingMirrored, LockupEventsMirrored, DraftEventsMirrored
     DEF EventsNext

LEMMA MirrorInit == EventsInit => MirrorInv
<1> SUFFICES ASSUME EventsInit PROVE MirrorInv
  OBVIOUS
<1>1. /\ MirrorShape
      /\ mirror.lockups = [i \in 1..MaxLockups |-> None]
      /\ mirror.drafts = [d \in DraftIds |-> None]
      /\ mirror.draft_groups = [g \in GroupIds |-> None]
      /\ mirror.deposit_whitelist = InitialWhitelist
      /\ mirror.draft_operators_whitelist = InitialDraftOperators
  BY DEF EventsInit, MirrorShape
<1>2. /\ Len(lockups) = 0 /\ deposit_whitelist = InitialWhitelist
      /\ \A d \in DraftIds : drafts[d] = None
      /\ next_draft_group_id = 1 /\ draft_operators_whitelist = InitialDraftOperators
  BY DEF EventsInit, DraftsInit, Init
<1>3. LockupsMirrored
  <2>1. Indices = {}
    BY <1>2 DEF Indices
  <2> QED
    BY <1>1, <2>1 DEF LockupsMirrored
<1>4. DraftsMirrored
  BY <1>1, <1>2 DEF DraftsMirrored, get_draft
<1>5. GroupsMirrored
  <2>1. \A g \in GroupIds : ~(g < next_draft_group_id)
    BY <1>2, DraftBounds DEF GroupIds
  <2> QED
    BY <1>1, <2>1 DEF GroupsMirrored
<1> QED
  BY <1>1, <1>2, <1>3, <1>4, <1>5 DEF MirrorInv, MirrorShape

(* What the indexer answers of a lockup.                                   *)
LEMMA LockupAnswered ==
  ASSUME IInv, Ledger, LockupsMirrored, NEW i \in 1..MaxLockups
  PROVE  /\ mirrored_lockup(i) = get_lockup(i)
         /\ i \in Indices =>
              /\ finish(lockups[i].schedule) <= mirror.lockups[i].created.finish
              /\ mirror.lockups[i].unvested = 0
                   => finish(lockups[i].schedule) = mirror.lockups[i].created.finish
<1> DEFINE known == mirror.lockups[i]
           l == lockups[i]
<1>1. CASE i \notin Indices
  BY <1>1 DEF LockupsMirrored, mirrored_lockup, get_lockup
<1>2. CASE i \in Indices
  <2>1. /\ Knows(known, l, indexer[i]) /\ known # None
        /\ known \in KnownLockup
    BY <1>2, NoneIsNoEvent DEF LockupsMirrored, Knows
  <2>2. /\ indexer[i].claimed + InFlight(i) = l.claimed_balance
        /\ total_balance(indexer[i].lockup.schedule) - indexer[i].unvested
             = total_balance(l.schedule)
    BY <1>2, LedgerAgrees DEF IndexerAgrees
  <2>3. mirrored_lockup(i)
          = [account_id |-> known.created.account_id,
             claimed_balance |-> known.claimed + InFlight(i),
             total_balance |-> known.created.balance - known.unvested,
             terminatable |-> known.created.terminatable /\ ~known.terminated,
             start |-> known.created.start]
    BY <2>1 DEF mirrored_lockup
  <2>4. get_lockup(i)
          = [account_id |-> l.account_id, claimed_balance |-> l.claimed_balance,
             total_balance |-> total_balance(l.schedule),
             terminatable |-> l.termination_config # None, start |-> start(l.schedule)]
    BY <1>2 DEF get_lockup
  <2>5. /\ known.created.account_id = l.account_id
        /\ known.claimed + InFlight(i) = l.claimed_balance
        /\ known.created.balance - known.unvested = total_balance(l.schedule)
        /\ known.created.start = start(l.schedule)
    BY <2>1, <2>2 DEF Knows
  <2>6. (known.created.terminatable /\ ~known.terminated) = (l.termination_config # None)
    <3>1. known.created.terminatable \in BOOLEAN /\ known.terminated \in BOOLEAN
      BY <2>1 DEF KnownLockup, CreateLockupEvent
    <3> QED
      BY <2>1, <3>1 DEF Knows
  <2>7. mirrored_lockup(i) = get_lockup(i)
    <3> HIDE DEF known, l
    <3> QED
      BY <2>3, <2>4, <2>5, <2>6
  <2> QED
    BY <2>1, <2>7 DEF Knows
<1> QED
  BY <1>1, <1>2

LEMMA DraftAnswered ==
  ASSUME DraftsTypeOK, History, NEW d \in DraftIds, drafts[d] # None
  PROVE  /\ get_draft(d) # None
         /\ get_draft(d).draft_group_id = drafts[d].draft_group_id
         /\ get_draft(d).balance = balance_of(drafts[d])
<1> DEFINE draft == drafts[d]
           c == draft.lockup_create
<1>1. draft \in Draft /\ Checked(draft)
  BY DraftTypes DEF History
<1>2. /\ draft.draft_group_id \in GroupIds /\ c.account_id \in Accounts /\ c.schedule \in Schedules
      /\ balance_of(draft) \in Nat
  BY <1>1, DraftFields, CheckedBalance
<1>3. Increasing(c.schedule)
  BY <1>1 DEF Checked, assert_valid
<1>4. start(c.schedule) \in Nat /\ finish(c.schedule) \in Nat
  BY <1>2, <1>3, ScheduleEnds
<1>5. get_draft(d)
        = [id |-> d, draft_group_id |-> draft.draft_group_id, account_id |-> c.account_id,
           balance |-> balance_of(draft), terminatable |-> c.vesting_schedule # None,
           start |-> start(c.schedule), finish |-> finish(c.schedule)]
  BY DEF get_draft
<1> HIDE DEF draft, c
<1>6. get_draft(d) \in CreateDraftEvent
  BY <1>2, <1>4, <1>5 DEF CreateDraftEvent
<1> QED
  BY <1>5, <1>6, NoneIsNoEvent DEF draft

(* What the indexer answers of a draft group.                              *)
LEMMA GroupAnswered ==
  ASSUME DraftsInv, DraftsMirrored, GroupsMirrored, NEW g \in GroupIds
  PROVE  mirrored_draft_group(g) = get_draft_group(g)
<1> DEFINE known == mirror.draft_groups[g]
           group == draft_groups[g]
           ids == DraftsOf(g)
<1>1. DraftsTypeOK /\ History /\ GroupsAddUp /\ Financed
  BY DEF DraftsInv
<1>2. \A d \in DraftIds : mirror.drafts[d] = get_draft(d)
  BY DEF DraftsMirrored
<1>3. \A d \in DraftIds : drafts[d] = None => get_draft(d) = None
  BY DEF get_draft
<1>4. mirrored_drafts(g) = ids
  <2>1. ASSUME NEW d \in DraftIds
        PROVE  (mirror.drafts[d] # None /\ mirror.drafts[d].draft_group_id = g)
                 <=> (drafts[d] # None /\ drafts[d].draft_group_id = g)
    BY <1>1, <1>2, <1>3, DraftAnswered
  <2> QED
    BY <2>1 DEF mirrored_drafts, DraftsOf
<1>5. [d \in DraftIds |-> IF d \in ids THEN mirror.drafts[d].balance ELSE 0]
        = [d \in DraftIds |-> IF d \in ids THEN balance_of(drafts[d]) ELSE 0]
  <2>1. \A d \in ids : mirror.drafts[d].balance = balance_of(drafts[d])
    BY <1>1, <1>2, DraftAnswered DEF DraftsOf
  <2> HIDE DEF ids
  <2> QED
    BY <2>1
<1>6. mirrored_draft_group(g)
        = IF known = None \/ (ids = {} /\ (known.discarded \/ known.amount > 0)) THEN None
          ELSE [total_amount |-> BalanceOf(ids, drafts), draft_indices |-> ids,
                discarded |-> known.discarded, funded |-> known.amount > 0]
  <2> HIDE DEF ids
  <2> QED
    BY <1>4, <1>5 DEF mirrored_draft_group, BalanceOf
<1> HIDE DEF ids
<1>7. g \in Nat /\ next_draft_group_id \in Nat
  BY <1>1, DraftTypes
<1>8. CASE group # None
  <2>1. g < next_draft_group_id /\ KnowsGroup(known, group) /\ known \in KnownGroup
    BY <1>1, <1>8, KnownIs
  <2>2. /\ group.draft_indices = ids /\ group.total_amount = BalanceOf(ids, drafts)
        /\ ids = {} => ~group.discarded /\ group.payer_id = None
    BY <1>1, <1>8 DEF GroupsAddUp, Groups, ids, Open
  <2>3. /\ known # None /\ known.discarded = group.discarded
        /\ known.discarded \in BOOLEAN /\ known.amount \in Nat
        /\ known.amount > 0 <=> group.payer_id # None
    BY <1>8, <2>1, NoneIsNoEvent DEF KnowsGroup, KnownGroup
  <2>4. (known.amount > 0) = (group.payer_id # None)
    BY <2>3
  <2>5. get_draft_group(g)
          = [total_amount |-> group.total_amount, draft_indices |-> group.draft_indices,
             discarded |-> group.discarded, funded |-> group.payer_id # None]
    BY <1>8 DEF get_draft_group
  <2> HIDE DEF known, group
  <2> QED
    BY <1>6, <2>2, <2>3, <2>4, <2>5
<1>9. CASE group = None
  <2>1. get_draft_group(g) = None
    BY <1>9 DEF get_draft_group
  <2>2. ids = {}
    BY <1>1, <1>9 DEF GroupsAddUp, Groups, ids, DraftsOf
  <2>3. known = None \/ known.discarded \/ known.amount > 0
    BY <1>9 DEF GroupsMirrored, KnowsGroup
  <2> QED
    BY <1>6, <2>1, <2>2, <2>3
<1> QED
  BY <1>8, <1>9

LEMMA MirrorAnswers == WholeBooks /\ MirrorInv => MirrorAgrees
<1> SUFFICES ASSUME WholeBooks, MirrorInv PROVE MirrorAgrees
  OBVIOUS
<1>1. DraftsInv /\ IInv /\ Ledger /\ LockupsMirrored /\ DraftsMirrored /\ GroupsMirrored
  BY DEF WholeBooks, MirrorInv
<1>2. Indices \subseteq 1..MaxLockups
  BY <1>1, TypeFacts, BoundsAssumption DEF IInv, Indices
<1>3. \A i \in 1..MaxLockups : mirrored_lockup(i) = get_lockup(i)
  BY <1>1, LockupAnswered
<1>4. \A i \in Indices :
        LET known == mirror.lockups[i] IN
        /\ finish(lockups[i].schedule) <= known.created.finish
        /\ known.unvested = 0 => finish(lockups[i].schedule) = known.created.finish
  BY <1>1, <1>2, LockupAnswered
<1>5. \A g \in GroupIds : mirrored_draft_group(g) = get_draft_group(g)
  BY <1>1, GroupAnswered
<1>6. \A d \in DraftIds : mirror.drafts[d] = get_draft(d)
  BY <1>1 DEF DraftsMirrored
<1>7. /\ mirror.deposit_whitelist = deposit_whitelist
      /\ mirror.draft_operators_whitelist = draft_operators_whitelist
  BY DEF MirrorInv
<1> QED
  BY <1>3, <1>4, <1>5, <1>6, <1>7 DEF MirrorAgrees

(* The events tell all that the views answer, in whatever order batches,   *)
(* fundings, conversions, claims, terminations and their callbacks come:   *)
(* who only gathers the events of event.rs answers get_lockup, get_draft   *)
(* and get_draft_group of view.rs rightly after every call, also that a    *)
(* group is gone, which no event says.                                     *)
THEOREM EventsTellTheViews == EventsSpec => []MirrorAgrees
<1>1. EventsInit => MirrorInv
  BY MirrorInit
<1>2. WholeBooks /\ MirrorInv /\ [EventsNext]_eventVars => (MirrorInv)'
  BY MirrorNext
<1>3. EventsSpec => []WholeBooks
  BY EventsAreOfDrafts, WholeInvariance, PTL
<1> QED
  BY <1>1, <1>2, <1>3, MirrorAnswers, PTL DEF EventsSpec
=============================================================================
