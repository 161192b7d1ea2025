CONSTANTS
  a = a
  NoId = NoId
  Unset = Unset
  Omitted = {"configurator"}
  MRs = {a}
  Ids = {i1, i2}
  Identity <- OneMR
  Kind = "KubernetesClusterNodepool"
  Faults = {}
  MaxTime = 2
SPECIFICATION Spec
INVARIANTS DeletionLeavesNothing
