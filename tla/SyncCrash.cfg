SPECIFICATION FairSpec
CONSTANTS
  w1 = w1
  w2 = w2
  Workers = {w1}
  Subjects = {T}
  MaxSeries = 2
  Statuses = {"relevant", "closed", "expired"}
  Mappings <- OneTarget
  MaxEvents = 4
  NumPatterns = 2
  MaxFaults = 1
  PeopleClose = FALSE
  PeopleRename = FALSE
  CacheExpires = FALSE
INVARIANTS
  TypeOK
  OpenPrsKnown
  NoDuplicatePr
  CheckedPrMatches
PROPERTIES
  BranchOutlivesPr
  ImplementsBranchLife
  CycleEnds
  Settles
  Converges
  ClosedPrsEnd
