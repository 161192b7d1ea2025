SPECIFICATION SpecShapes
CONSTANTS
  a = a
  b = b
  NoId = NoId
  Unset = Unset
  Omitted = {"configurator"}
  MRs = {a, b}
  Ids = {i1, i2, i3}
  Identity <- SameName
  Kind = "KubernetesClusterNodepool"
  Faults = {"crash", "lostAnswer", "stomp", "outOfBand"}
  MaxTime = 3
SYMMETRY IdSymmetry
INVARIANTS TypeOK AtMostOnePerIdentity SoleOwner
