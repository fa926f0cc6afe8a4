----------------------- MODULE MCDeploymentController -----------------------
(***************************************************************************)
(* Instances of the deployment controller for TLC.                         *)
(***************************************************************************)
EXTENDS DeploymentInvariants, TLC

CONSTANTS r1, r2

\* Releases are only compared, so they may be exchanged.
ReleaseSymmetry == Permutations(Releases)

AllFaults == FaultKinds
\* What a restarted or repeated command may run into.
Interruptions == {"crash", "job_lost", "cli", "observe"}
\* Deployments only: no receipt is offered to a rollback.
FairDeploySpec == Init /\ [][Next /\ source' = NoSource]_vars /\ Fairness
=============================================================================
