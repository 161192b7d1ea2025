SPECIFICATION FairSpec
CONSTANTS
  s1 = s1
  f1 = f1
  f2 = f2
  Free = Free
  Elsewhere = Elsewhere
  Servers = {s1}
  FIPs = {f1, f2}
  Rank <- Listed
  MaxMoves = 1
PROPERTIES Converges UnbindsRecordedFirst ReleasesRecorded
CHECK_DEADLOCK FALSE
