SPECIFICATION FairSpec
CONSTANTS
    r1 = r1
    r2 = r2
    j1 = j1
    j2 = j2
    Patches = {p1}
    p1 = p1
    Runs = {r1}
    Jobs = {j1}
    JobsOf <- OneJobEach
    NameOf <- OwnNames
    MailRuns = {r1}
    Conclusions = {"success", "failure", "interrupted"}
    MaxSyncs = 2
    MaxMoves = 1
    MaxFaults = 1
PROPERTIES
    ChecksConverge
    LabelsConverge
    ReportsSettle
