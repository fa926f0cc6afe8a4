\* A fleet of two, deployments only, under fairness and interruptions.
CONSTANTS
  N = 2
  MinAvailable = 1
  r1 = r1
  r2 = r2
  Releases = {r1, r2}
  NoRelease = NoRelease
  NoPlan = NoPlan
  NoReceipt = NoReceipt
  NoEvidence = NoEvidence
  NoSource = NoSource
  Faults <- Interruptions
SPECIFICATION FairDeploySpec
INVARIANTS CapacityFloor
PROPERTY DeployStops
