SPECIFICATION FairSpec
CONSTANTS
  w1 = w1
  w2 = w2
  Workers = {w1, w2}
  Subjects = {T}
  MaxSeries = 2
  Statuses = {"relevant", "closed"}
  Mappings <- TwoTargets
  MaxEvents = 3
  NumPatterns = 1
  MaxFaults = 1
  PeopleClose = FALSE
  PeopleRename = FALSE
  CacheExpires = FALSE
INVARIANTS
  CheckedPrMatches
  ReplacedByOpenPr
PROPERTIES
  Settles
  Converges
