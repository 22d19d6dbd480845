SPECIFICATION FairSpec
CONSTANTS
  NumComments = 3
  NumPatches = 2
  Tags = {"b", "c"}
  NoTag = "none"
  InNames <- TwoNames
  Reachable = {1}
  Room = 6
  MaxEdits = 1
  MaxFaults = 1
INVARIANTS
  TypeOK
  SentOnce
PROPERTIES
  WantedIsSent
