SPECIFICATION Spec
CONSTANTS
  w1 = w1
  w2 = w2
  Workers = {w1}
  Subjects = {T}
  MaxSeries = 2
  Statuses = {"relevant", "closed", "unmatched"}
  Mappings <- OneTargetOrNone
  MaxEvents = 4
  NumPatterns = 2
  MaxFaults = 1
  PeopleClose = TRUE
  PeopleRename = FALSE
  CacheExpires = TRUE
INVARIANTS
  NoDuplicatePr
PROPERTIES
  BranchOutlivesPr
