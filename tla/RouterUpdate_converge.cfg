SPECIFICATION FairSpec
CONSTANTS
  n1 = n1
  n2 = n2
  a1 = a1
  a2 = a2
  s1 = s1
  NoAddr = NoAddr
  NoHop = NoHop
  NoNet = NoNet
  Tier = Tier
  Networks = {n1, n2}
  Addrs = {a1, a2}
  Subnets = {s1}
  Specs <- AnyEdit
  Forwarded = {a2}
  MaxOps = 2
  MaxFaults = 2
  MaxEdits = 2
INVARIANTS BudgetKept
PROPERTIES Converges NeverDetachesLast KeepsLeases
CHECK_DEADLOCK FALSE
