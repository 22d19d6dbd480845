SPECIFICATION FairSpec
CONSTANTS
    r1 = r1
    r2 = r2
    j1 = j1
    j2 = j2
    Patches = {p1}
    p1 = p1
    Runs = {r1, r2}
    Jobs = {j1, j2}
    JobsOf <- OneJobEach
    NameOf <- OwnNames
    MailRuns = {r1}
    Conclusions = {"success", "failure", "skipped", "cancelled", "interrupted"}
    MaxSyncs = 1
    MaxMoves = 1
    MaxFaults = 0
INVARIANTS
    TypeOK
    EmailIsNews
PROPERTIES
    ConclusiveStays
    SubmitterIsTold
