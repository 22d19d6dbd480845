SPECIFICATION FairSpec
CONSTANTS
  MaxEvents = 3
  MaxFaults = 2
  MaxApplies = 1
  SharedCi = TRUE
  PeopleRename = FALSE
INVARIANTS
  DaemonTypeOK
  AppliesToPublishedBase
  StopSparesClones
PROPERTIES
  StopEnds
  MirrorSettles
  PushesCease
  SeriesGetTheirTurn
  StalePrsClose
