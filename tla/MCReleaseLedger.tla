---------------------------- MODULE MCReleaseLedger ----------------------------
EXTENDS ReleaseLedger, TLC

CONSTANTS feature, fix, chore

MCImpact == [f \in Fragments |-> IF f = feature THEN "minor" ELSE "patch"]

ReleaserSymmetry == Permutations(Releasers)
===============================================================================
