----------------------------- MODULE BranchLife -----------------------------
(***************************************************************************)
(* What the daemon promises about the pull requests of each branch it      *)
(* keeps, whatever else it does in between: there is never a second one    *)
(* open, a closed one is re-opened rather than followed by a new one as    *)
(* long as GitHub would re-open it, and neither a force-push nor the       *)
(* deletion of a branch takes that chance, or an open pull request, away   *)
(* while the branch is wanted.                                             *)
(***************************************************************************)
CONSTANT Branches

VARIABLES
    there,        \* the branches that exist
    life          \* state of the pull requests of each branch

\* none    there never was one
\* open    one is open
\* closed  none is open, one can be re-opened
\* lost    none is open, and none can be re-opened any more
Lives == {"none", "open", "closed", "lost"}

Init ==
    /\ there = {}
    /\ life = [b \in Branches |-> "none"]

\* A force-push would lose a closed pull request, so it waits for an open one.
Push(b) ==
    /\ life[b] # "closed"
    /\ there' = there \cup {b}
    /\ UNCHANGED life

Create(b) ==
    /\ b \in there
    /\ life[b] \in {"none", "lost"}
    /\ life' = [life EXCEPT ![b] = "open"]
    /\ UNCHANGED there

Reopen(b) ==
    /\ b \in there
    /\ life[b] = "closed"
    /\ life' = [life EXCEPT ![b] = "open"]
    /\ UNCHANGED there

Close(b) ==
    /\ life[b] = "open"
    /\ life' = [life EXCEPT ![b] = "closed"]
    /\ UNCHANGED there

\* Branches go together, never one with an open pull request.
Delete(S) ==
    /\ \A b \in S : life[b] # "open"
    /\ there' = there \ S
    /\ life' = [b \in Branches |->
                   IF b \in S /\ life[b] = "closed" THEN "lost" ELSE life[b]]

Next ==
    \/ \E b \in Branches : Push(b) \/ Create(b) \/ Reopen(b) \/ Close(b)
    \/ \E S \in SUBSET there : Delete(S)

Spec == Init /\ [][Next]_<<there, life>>
=============================================================================
