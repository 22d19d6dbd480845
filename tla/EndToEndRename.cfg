SPECIFICATION FairSpec
CONSTANTS
  MaxEvents = 1
  MaxFaults = 0
  MaxApplies = 1
  SharedCi = FALSE
  PeopleRename = TRUE
PROPERTIES
  SeriesGetTheirTurn
