----------------------------- MODULE PrComments -----------------------------
(***************************************************************************)
(* forward_pr_comments: comments people write on a pull request are sent   *)
(* on as replies to the patch they name.  What was sent on is remembered   *)
(* nowhere but in notes, comments of the daemon's own, one of which is     *)
(* posted before each email.  The comments are listed once per call, which *)
(* goes through them while people write and edit others.                   *)
(*                                                                         *)
(* GitHub refuses comments on an issue that has too many of them, and      *)
(* _add_pull_request_comment lets that pass.                               *)
(***************************************************************************)
EXTENDS Naturals, FiniteSets

CONSTANTS
    NumComments,  \* bound: comments people write
    NumPatches,   \* patches of the series, in its order
    Tags,         \* what an In-Reply-To-Subject line may say
    NoTag,        \* the comment has no such line, or its author is not allowed
    InNames,      \* tag |-> the patches whose name contains it
    Reachable,    \* patches with a recipient that the lists let through
    Room,         \* comments GitHub takes, 2500
    MaxEdits,     \* bound
    MaxFaults     \* bound: exceptions, restarts and emails that curl cannot send

Comments == 1..NumComments
Patches == 1..NumPatches
NoPatch == 0

ASSUME PrCommentsAssumption ==
    /\ NumComments \in Nat /\ NumPatches \in Nat
    /\ NoTag \notin Tags
    /\ InNames \in [Tags -> SUBSET Patches]
    /\ Reachable \subseteq Patches
    /\ Room \in Nat /\ MaxEdits \in Nat /\ MaxFaults \in Nat

VARIABLES
    count,        \* GitHub: comments written by people, in order
    tag,          \* GitHub: what each of them says
    notes,        \* GitHub: the comments that have a note
    received,     \* Patchwork: the patches of the series that came in so far
    pc,           \* next step of the daemon
    patches,      \* series.patches, as of this cycle
    listed,       \* what the comments listed say
    forwarded,    \* forwarded_set
    at, last,     \* the comment of the second loop, and the last one listed
    reply,        \* the patch it is a reply to
    sent,         \* history: comments that were sent on
    repeats,      \* history: comments that were sent on again
    dropped,      \* history: comments that got their note but no email
    edits, faults \* how much of the bounds is used up

people == <<count, tag, received, edits>>
listing == <<listed, forwarded, last>>
locals == <<pc, patches, listing, at, reply>>
history == <<sent, repeats, dropped>>
vars == <<people, notes, locals, history, faults>>

TypeOK ==
    /\ count \in 0..NumComments
    /\ tag \in [Comments -> Tags \cup {NoTag}]
    /\ notes \subseteq 1..count
    /\ received \subseteq Patches /\ patches \subseteq Patches
    /\ pc \in {"idle", "list", "look", "mbox", "mail"}
    /\ listed \in [Comments -> Tags \cup {NoTag}]
    /\ forwarded \subseteq Comments
    /\ last \in 0..count /\ at \in 1..(last + 1)
    /\ pc \in {"mbox", "mail"} => at <= last
    /\ reply \in Patches \cup {NoPatch}
    /\ sent \subseteq Comments /\ repeats \subseteq sent /\ dropped \subseteq Comments
    /\ edits \in 0..MaxEdits /\ faults \in 0..MaxFaults

Untagged == [c \in Comments |-> NoTag]

Init ==
    /\ count = 0 /\ tag = Untagged
    /\ notes = {}
    /\ received = {}
    /\ pc = "idle" /\ patches = {} /\ reply = NoPatch
    /\ listed = Untagged /\ forwarded = {} /\ last = 0 /\ at = 1
    /\ sent = {} /\ repeats = {} /\ dropped = {}
    /\ edits = 0 /\ faults = 0

(***************************************************************************)
(* People, and GitHub, external to src/.                                   *)
(***************************************************************************)
IsFull == count + Cardinality(notes) >= Room

WriteComment ==
    /\ count < NumComments /\ ~IsFull
    /\ count' = count + 1
    /\ \E t \in Tags \cup {NoTag} : tag' = [tag EXCEPT ![count + 1] = t]
    /\ UNCHANGED <<received, edits>>

EditComment ==
    /\ edits < MaxEdits /\ edits' = edits + 1
    /\ \E c \in 1..count, t \in Tags \cup {NoTag} : tag' = [tag EXCEPT ![c] = t]
    /\ UNCHANGED <<count, received>>

\* The mails of a series come in one after the other, in any order.
PatchArrives ==
    /\ \E p \in Patches \ received : received' = received \cup {p}
    /\ UNCHANGED <<count, tag, edits>>

People ==
    /\ WriteComment \/ EditComment \/ PatchArrives
    /\ UNCHANGED <<notes, locals, history, faults>>

(***************************************************************************)
(* forward_pr_comments.                                                    *)
(***************************************************************************)
\* patch_by_subject: the first of the series to have the tag in its name, in a
\* set, which is empty if there is none.
PatchBySubject(t, known) ==
    LET found == {p \in known : t # NoTag /\ p \in InNames[t]}
    IN  {p \in found : \A q \in found : p <= q}

\* The series, as this cycle got it.
StartSync ==
    /\ pc = "idle"
    /\ patches' = received
    /\ pc' = "list"
    /\ UNCHANGED <<people, notes, listing, at, reply, history, faults>>

\* Mutant: the notes are not looked at.
ForwardedNone(noted) == {}

\* Mutant: what is older than the last one forwarded counts as forwarded.
ForwardedUpTo(noted) == {c \in Comments : \E n \in noted : c <= n}

Forwarded(noted) == noted

ListComments ==
    /\ pc = "list"
    /\ listed' = tag /\ forwarded' = Forwarded(notes) /\ last' = count
    /\ at' = 1
    /\ pc' = "look"
    /\ UNCHANGED <<people, notes, patches, reply, history, faults>>

ListingDone ==
    /\ pc = "look" /\ at > last
    /\ pc' = "idle"
    /\ UNCHANGED <<people, notes, patches, listing, at, reply, history, faults>>

\* Mutant: looks at every other comment.
NextCommentButOne == pc' = "look" /\ at' = at + 2 /\ reply' = NoPatch

NextComment == pc' = "look" /\ at' = at + 1 /\ reply' = NoPatch

\* A note already, no tag, or a patch that is not in the series.
IgnoreComment ==
    /\ pc = "look" /\ at <= last
    /\ at \in forwarded \/ PatchBySubject(listed[at], patches) = {}
    /\ NextComment
    /\ UNCHANGED <<people, notes, patches, listing, history, faults>>

\* Mutant: the note is left for after the email.
NoteNone(c) == {}

Note(c) == {c}

\* _add_pull_request_comment: that GitHub takes no more comments is logged.
PostNote ==
    /\ pc = "look" /\ at <= last /\ at \notin forwarded
    /\ reply' \in PatchBySubject(listed[at], patches)
    /\ notes' = IF IsFull THEN notes ELSE notes \cup Note(at)
    /\ pc' = "mbox"
    /\ UNCHANGED <<people, patches, listing, at, history, faults>>

\* get_blob, and the recipients found in it.  Without any there is no email.
FetchMbox ==
    /\ pc = "mbox"
    /\ \/ /\ reply \in Reachable
          /\ pc' = "mail" /\ UNCHANGED <<at, reply, dropped>>
       \/ /\ reply \notin Reachable
          /\ dropped' = dropped \cup {at}
          /\ NextComment
    /\ UNCHANGED <<people, notes, patches, listing, sent, repeats, faults>>

SendEmail ==
    /\ pc = "mail"
    /\ sent' = sent \cup {at}
    /\ repeats' = repeats \cup (sent \cap {at})
    /\ NextComment
    /\ UNCHANGED <<people, notes, patches, listing, dropped, faults>>

SpendFault == faults < MaxFaults /\ faults' = faults + 1

\* send_email logs that curl failed and returns a Message-Id all the same.
CurlFails ==
    /\ pc = "mail" /\ SpendFault
    /\ dropped' = dropped \cup {at}
    /\ NextComment
    /\ UNCHANGED <<people, notes, patches, listing, sent, repeats>>

\* A call raises, which ends the cycle, or the process restarts.
Fault ==
    /\ pc # "idle" /\ SpendFault
    /\ dropped' = dropped \cup IF pc \in {"mbox", "mail"} THEN {at} ELSE {}
    /\ pc' = "idle" /\ reply' = NoPatch
    /\ UNCHANGED <<people, notes, patches, listing, at, sent, repeats>>

Daemon ==
    \/ StartSync \/ ListComments \/ ListingDone \/ IgnoreComment
    \/ PostNote \/ FetchMbox \/ SendEmail

Next == People \/ Daemon \/ CurlFails \/ Fault

Spec == Init /\ [][Next]_vars

\* The pull request is synced again in every cycle, and calls end.
FairSpec == Spec /\ WF_vars(Daemon)

(***************************************************************************)
(* Properties.                                                             *)
(***************************************************************************)
\* "Look for comments indicating what has already been forwarded to filter
\* them out" (forward_pr_comments): no comment is sent on twice, though the
\* daemon forgets everything between cycles, may fail between any two calls,
\* and comments are edited to name another patch.
SentOnce == repeats = {}

Wanted(c) ==
    /\ c <= count
    /\ PatchBySubject(tag[c], received) # {}
    /\ PatchBySubject(tag[c], received) \subseteq Reachable

\* A comment that goes on naming a patch of the series is sent on, be it that
\* the tag was put into an old comment.  The one attempt that is made can fail
\* after the note: that loses the email for good.
WantedIsSent ==
    \A c \in Comments : <>[]Wanted(c) => <>(c \in sent \cup dropped)
=============================================================================
