SPECIFICATION FairSpec
CONSTANTS
  r1 = r1
  r2 = r2
  r3 = r3
  s1 = s1
  s2 = s2
  Rules = {r1, r2, r3}
  Services = {s1, s2}
  Specs <- Edits
  MaxOps = 2
  MaxCopies = 2
  MaxFaults = 2
  MaxEdits = 1
  MaxMoves = 1
INVARIANTS TypeOK NoDuplicates
PROPERTIES LinksBehindRules Converges
CHECK_DEADLOCK FALSE
