------------------------- MODULE PrCommentsProofs -------------------------
(***************************************************************************)
(* Proofs about PrComments: types, and that no comment is sent on twice as *)
(* long as GitHub takes a note for every comment.                          *)
(***************************************************************************)
EXTENDS PrComments, FiniteSetTheorems, TLAPS

USE DEF Comments, Patches, NoPatch

-----------------------------------------------------------------------------
(* Types. *)

LEMMA BySubjectType ==
    ASSUME NEW t, NEW known \in SUBSET Patches
    PROVE  PatchBySubject(t, known) \subseteq Patches
BY DEF PatchBySubject

LEMMA InitType == ASSUME PrCommentsAssumption, Init PROVE TypeOK
BY DEF PrCommentsAssumption, Init, TypeOK, Untagged

LEMMA PeopleType ==
    ASSUME PrCommentsAssumption, TypeOK, People PROVE TypeOK'
<1> USE DEF PrCommentsAssumption, TypeOK, locals, listing, history
<1>1. CASE WriteComment
  BY <1>1 DEF People, WriteComment
<1>2. CASE EditComment
  <2>1. PICK c \in 1..count, t \in Tags \cup {NoTag} : tag' = [tag EXCEPT ![c] = t]
    BY <1>2 DEF EditComment
  <2>2. tag' \in [Comments -> Tags \cup {NoTag}]
    BY <2>1
  <2>3. edits' \in 0..MaxEdits
    BY <1>2 DEF EditComment
  <2> QED BY <1>2, <2>2, <2>3 DEF People, EditComment
<1>3. CASE PatchArrives
  BY <1>3 DEF People, PatchArrives
<1> QED BY <1>1, <1>2, <1>3 DEF People

LEMMA DaemonType ==
    ASSUME PrCommentsAssumption, TypeOK, Daemon PROVE TypeOK'
<1> USE DEF PrCommentsAssumption, TypeOK, people, listing, history
<1>1. CASE StartSync
  BY <1>1 DEF StartSync
<1>2. CASE ListComments
  BY <1>2 DEF ListComments, Forwarded
<1>3. CASE ListingDone
  BY <1>3 DEF ListingDone
<1>4. CASE IgnoreComment
  BY <1>4 DEF IgnoreComment, NextComment
<1>5. CASE PostNote
  <2>1. reply' \in Patches
    BY <1>5, BySubjectType DEF PostNote
  <2>2. notes' \subseteq 1..count
    BY <1>5 DEF PostNote, Note
  <2> QED BY <1>5, <2>1, <2>2 DEF PostNote
<1>6. CASE FetchMbox
  <2>1. at \in Comments
    BY <1>6 DEF FetchMbox
  <2>2. CASE reply \in Reachable
    BY <1>6, <2>2 DEF FetchMbox
  <2>3. CASE reply \notin Reachable
    <3>1. dropped' \subseteq Comments
      BY <1>6, <2>1, <2>3 DEF FetchMbox
    <3>2. at' \in 1..(last + 1) /\ reply' = NoPatch /\ pc' = "look"
      BY <1>6, <2>3 DEF FetchMbox, NextComment
    <3> QED BY <1>6, <2>3, <3>1, <3>2 DEF FetchMbox
  <2> QED BY <2>2, <2>3
<1>7. CASE SendEmail
  BY <1>7 DEF SendEmail, NextComment
<1> QED BY <1>1, <1>2, <1>3, <1>4, <1>5, <1>6, <1>7 DEF Daemon

LEMMA FaultType ==
    ASSUME PrCommentsAssumption, TypeOK, CurlFails \/ Fault PROVE TypeOK'
<1> USE DEF PrCommentsAssumption, TypeOK, people, listing, SpendFault
<1>1. CASE CurlFails
  BY <1>1 DEF CurlFails, NextComment
<1>2. CASE Fault
  BY <1>2 DEF Fault
<1> QED BY <1>1, <1>2

LEMMA NextType ==
    ASSUME PrCommentsAssumption, TypeOK, [Next]_vars PROVE TypeOK'
<1>1. CASE UNCHANGED vars
  BY <1>1 DEF TypeOK, vars, people, locals, listing, history
<1> QED BY <1>1, PeopleType, DaemonType, FaultType DEF Next

\* Every reachable state of the forwarding has the right types: in particular a
\* comment is at hand whenever a note or an email is about to be written.
THEOREM TypeCorrect == Spec => []TypeOK
<1>1. Init => TypeOK
  BY InitType, PrCommentsAssumption
<1>2. TypeOK /\ [Next]_vars => TypeOK'
  BY NextType, PrCommentsAssumption
<1> QED BY <1>1, <1>2, PTL DEF Spec

-----------------------------------------------------------------------------
(***************************************************************************)
(* No comment is sent twice.  Inductive: what was sent has its note, and a *)
(* call that is under way has seen it among the notes or is past it.       *)
(***************************************************************************)
Looking == pc \in {"look", "mbox", "mail"}

IInv ==
    /\ sent \subseteq notes
    /\ Looking => \A c \in sent : c \in forwarded \/ c < at \/ c > last
    /\ pc \in {"mbox", "mail"} => at \in notes \ forwarded
    /\ repeats = {}

\* There is room for the note of a comment that has none.
LEMMA RoomForNote ==
    ASSUME TypeOK, Room \in Nat, NumComments \in Nat, Room >= 2 * NumComments,
           NEW c \in 1..count, c \notin notes
    PROVE  ~IsFull
<1>1. IsFiniteSet(1..count) /\ Cardinality(1..count) = count
  BY FS_Interval DEF TypeOK
<1>2. notes \subseteq 1..count /\ notes # 1..count
  BY DEF TypeOK
<1>3. IsFiniteSet(notes) /\ Cardinality(notes) <= count /\ Cardinality(notes) # count
  <2>1. /\ IsFiniteSet(notes)
        /\ Cardinality(notes) <= Cardinality(1..count)
        /\ Cardinality(notes) = Cardinality(1..count) => notes = 1..count
    BY <1>1, <1>2, FS_Subset, Zenon
  <2> QED BY <1>1, <1>2, <2>1
<1>4. Cardinality(notes) \in Nat
  BY <1>3, FS_CardinalityType
<1> QED BY <1>3, <1>4 DEF IsFull, TypeOK

LEMMA NextIInv ==
    ASSUME PrCommentsAssumption, Room >= 2 * NumComments, TypeOK, TypeOK', IInv,
           [Next]_vars
    PROVE  IInv'
<1> USE DEF IInv, Looking, TypeOK, people, listing, history
<1>1. CASE UNCHANGED vars
  BY <1>1 DEF vars, locals
<1>2. CASE People
  BY <1>2 DEF People, WriteComment, EditComment, PatchArrives, locals
<1>3. CASE StartSync
  BY <1>3 DEF StartSync
<1>4. CASE ListComments
  BY <1>4 DEF ListComments, Forwarded
<1>5. CASE ListingDone
  BY <1>5 DEF ListingDone
<1>6. CASE IgnoreComment
  BY <1>6 DEF IgnoreComment, NextComment
<1>7. CASE PostNote
  <2>1. at \in 1..count
    BY <1>7 DEF PostNote
  <2>2. at \in notes'
    <3>1. CASE at \in notes
      BY <1>7, <3>1 DEF PostNote
    <3>2. CASE at \notin notes
      <4>1. ~IsFull
        BY <2>1, <3>2, RoomForNote DEF PrCommentsAssumption
      <4> QED BY <1>7, <4>1 DEF PostNote, Note
    <3> QED BY <3>1, <3>2
  <2> QED BY <1>7, <2>2 DEF PostNote
<1>8. CASE FetchMbox
  BY <1>8 DEF FetchMbox, NextComment
<1>9. CASE SendEmail
  <2>1. at \notin sent
    BY <1>9 DEF SendEmail
  <2> QED BY <1>9, <2>1 DEF SendEmail, NextComment
<1>10. CASE CurlFails
  BY <1>10 DEF CurlFails, NextComment
<1>11. CASE Fault
  BY <1>11 DEF Fault
<1> QED BY <1>1, <1>2, <1>3, <1>4, <1>5, <1>6, <1>7, <1>8, <1>9, <1>10, <1>11
        DEF Next, Daemon

\* However many comments are written and edited, and however many calls fail, no
\* comment is sent on twice, provided GitHub takes a note for each of them.
THEOREM CommentsAreSentOnce ==
    ASSUME Room >= 2 * NumComments
    PROVE  Spec => []SentOnce
<1>1. Init => IInv
  BY DEF Init, IInv, Looking
<1>2. TypeOK /\ TypeOK' /\ IInv /\ [Next]_vars => IInv'
  BY NextIInv, PrCommentsAssumption
<1>3. IInv => SentOnce
  BY DEF IInv, SentOnce
<1> QED BY <1>1, <1>2, <1>3, TypeCorrect, PTL DEF Spec
=============================================================================
