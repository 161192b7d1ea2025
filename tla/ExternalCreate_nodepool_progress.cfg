CONSTANTS
  a = a
  NoId = NoId
  Unset = Unset
  Omitted = {"configurator"}
  MRs = {a}
  Ids = {i1, i2, i3}
  Identity <- OneMR
  Kind = "KubernetesClusterNodepool"
  Faults = {"crash", "lostAnswer", "stomp", "outOfBand"}
  MaxTime = 4
SPECIFICATION FairSpec
PROPERTIES Reattaches DeletionCompletes
