SPECIFICATION Spec
CONSTANTS
  w1 = w1
  w2 = w2
  Workers = {w1}
  Subjects = {T, U}
  MaxSeries = 2
  Statuses = {"relevant", "closed"}
  Mappings <- OneTarget
  MaxEvents = 4
  NumPatterns = 1
  MaxFaults = 1
  PeopleClose = FALSE
  PeopleRename = TRUE
  CacheExpires = FALSE
INVARIANTS
  CheckedPrMatches
PROPERTIES
  PushKeepsReopenable
