\* A fleet of three, every failure.
CONSTANTS
  N = 3
  MinAvailable = 1
  r1 = r1
  r2 = r2
  Releases = {r1, r2}
  NoRelease = NoRelease
  NoPlan = NoPlan
  NoReceipt = NoReceipt
  NoEvidence = NoEvidence
  NoSource = NoSource
  Faults <- AllFaults
SYMMETRY ReleaseSymmetry
SPECIFICATION Spec
INVARIANTS TypeOK CanaryFirst BlastRadius ActsOnTruth SucceededMeansDeployed NeverRefused
PROPERTIES NoSecondUpdate FollowsPlan
