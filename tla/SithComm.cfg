CONSTANTS
  Players = {server, c1, c2}
  Server = server
  All = all
  NumSlots = 2
  NumPairs = 1
  MaxTries = 2
  HalfIds = 2
  Dialogue = {2}
  MaxMsgs = 2
  MaxJoins = 1
  MaxNet = 1
SPECIFICATION Spec
SYMMETRY Symmetry
INVARIANTS TypeOK OnlyFirstSlot WaitingIsCounted TwiceOnlyAfterTurn
PROPERTIES StruckOffMeansTaken
CHECK_DEADLOCK FALSE
