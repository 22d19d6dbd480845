------------------------------- MODULE GitHub -------------------------------
(***************************************************************************)
(* The target repositories as GitHub keeps them: the branches the daemon   *)
(* pushes, named "series/<id>=><target>", and the pull requests from them  *)
(* to "<target>_base".  External to src/: modelled from the calls          *)
(* branch_worker.py makes and from what its comments say of the answers.   *)
(*                                                                         *)
(* One GitHub call is one operator that gives the new value of `heads' or  *)
(* of `pulls'; the daemon's actions combine them.                          *)
(***************************************************************************)
EXTENDS Patchwork, Integers

\* A branch is named for a series, or "None" where Subject.branch has no
\* series to name it for.
NoSeries == 0
BranchNames == Series \cup {NoSeries}

Refs == BranchNames \X Workers
SeriesOf(ref) == ref[1]
TargetOf(ref) == ref[2]

\* Contents of a branch: absent, something other than one series on the
\* current base (a dummy commit, or a series on an older base), or the
\* patches of a series on the current base.
Gone == -1
Outdated == 0
Contents == {Gone, Outdated} \cup Series

\* Results of `git am' of a series on a target's current base: it applies; it
\* applies and changes nothing; it fails; it fails because upstream has it.
Outcomes == {"clean", "empty", "conflict", "merged"}
Unknown == "unknown"

VARIABLES
    heads,        \* contents of every branch
    pulls,        \* every pull request ever opened, in order of number
    applies       \* result of applying each series to each target's upstream

ghVars == <<heads, pulls, applies>>

\* `conflict' is the merge-conflict label.  A closed pull request is `frozen'
\* once its branch was deleted or force-pushed: it cannot be re-opened.
PullRequest ==
    [head: Refs, title: Subjects, open: BOOLEAN,
     conflict: BOOLEAN, frozen: BOOLEAN]

GitHubTypeOK ==
    /\ heads \in [Refs -> Contents]
    /\ pulls \in Seq(PullRequest)
    /\ applies \in [Refs -> Outcomes \cup {Unknown}]

GitHubInit ==
    /\ heads = [r \in Refs |-> Gone]
    /\ pulls = <<>>
    /\ applies = [r \in Refs |-> Unknown]

Numbers == DOMAIN pulls
OpenPulls == {n \in Numbers : pulls[n].open}
ClosedPulls == Numbers \ OpenPulls
OpenFrom(ref) == {n \in OpenPulls : pulls[n].head = ref}

\* Force-push, which also creates the branch, and deletion of a branch: both
\* freeze the branch's closed pull requests, deletion closes the open one.
Frozen(ref) ==
    [n \in Numbers |->
        [pulls[n] EXCEPT !.frozen = @ \/ (pulls[n].head = ref /\ ~pulls[n].open)]]

Closed(n) == [pulls EXCEPT ![n].open = FALSE]

ForcePush(ref, contents) ==
    /\ heads' = [heads EXCEPT ![ref] = contents]
    /\ pulls' = Frozen(ref)

DeleteRefs(refs) ==
    /\ heads' = [r \in Refs |-> IF r \in refs THEN Gone ELSE heads[r]]
    /\ pulls' = [n \in Numbers |->
                    IF pulls[n].head \in refs
                    THEN [pulls[n] EXCEPT !.open = FALSE, !.frozen = TRUE]
                    ELSE pulls[n]]

\* GitHub refuses a second open pull request for the same head and base, and
\* one from a branch that does not exist.
CanCreate(ref) == heads[ref] # Gone /\ OpenFrom(ref) = {}

CreatedPull(ref, title) ==
    Append(pulls, [head |-> ref, title |-> title, open |-> TRUE,
                   conflict |-> FALSE, frozen |-> FALSE])

CanReopen(n) ==
    /\ ~pulls[n].frozen
    /\ CanCreate(pulls[n].head)

\* The upstream of target w moved: no branch for w is up to date any more, and
\* any series may apply differently.
MoveUpstream(w) ==
    /\ heads' = [r \in Refs |->
                    IF TargetOf(r) = w /\ heads[r] # Gone
                    THEN Outdated ELSE heads[r]]
    /\ applies' = [r \in Refs |-> IF TargetOf(r) = w THEN Unknown ELSE applies[r]]
=============================================================================
