SPECIFICATION Spec
CONSTANTS
  NumComments = 2
  NumPatches = 2
  Tags = {"b", "c"}
  NoTag = "none"
  InNames <- TwoNames
  Reachable = {1}
  Room = 2
  MaxEdits = 0
  MaxFaults = 0
INVARIANTS
  SentOnce
