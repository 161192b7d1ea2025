SPECIFICATION Spec
CONSTANTS
  s1 = s1
  s2 = s2
  f1 = f1
  f2 = f2
  Free = Free
  Elsewhere = Elsewhere
  Servers = {s1, s2}
  FIPs = {f1, f2}
  Rank <- AnyOrder
  MaxMoves = 0
SYMMETRY Symmetry
INVARIANT TypeOK
PROPERTY KeepsLeases
CHECK_DEADLOCK FALSE
