SPECIFICATION FairSpec
CONSTANTS
  w1 = w1
  w2 = w2
  Workers = {w1}
  Subjects = {T}
  MaxSeries = 2
  Statuses = {"relevant", "closed"}
  Mappings <- OneTarget
  MaxEvents = 3
  NumPatterns = 1
  MaxFaults = 0
  PeopleClose = FALSE
  PeopleRename = FALSE
  CacheExpires = FALSE
PROPERTIES
  ClosedSubjectsEnd
