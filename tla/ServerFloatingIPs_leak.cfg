SPECIFICATION FairSpec
CONSTANTS
  s1 = s1
  f1 = f1
  f2 = f2
  Free = Free
  Elsewhere = Elsewhere
  Servers = {s1}
  FIPs = {f1}
  Rank <- Listed
  MaxMoves = 0
PROPERTY Released
CHECK_DEADLOCK FALSE
