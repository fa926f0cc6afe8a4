\* A fleet of two without any failure: does a rollback restore the baseline?
CONSTANTS
  N = 2
  MinAvailable = 1
  r1 = r1
  r2 = r2
  Releases = {r1, r2}
  NoRelease = NoRelease
  NoPlan = NoPlan
  NoReceipt = NoReceipt
  NoEvidence = NoEvidence
  NoSource = NoSource
  Faults = {}
SPECIFICATION FairSpec
PROPERTY RollbackRestores
