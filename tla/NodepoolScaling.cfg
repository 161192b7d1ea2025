SPECIFICATION FairSpec
CONSTANTS
  NoSize = NoSize
  NoCall = NoCall
  Specs <- Edits
  MaxFaults = 2
  MaxEdits = 1
  MaxMoves = 1
INVARIANTS TypeOK ScalesExactly
PROPERTIES Converges Reported
