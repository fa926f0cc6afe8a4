------------------------- MODULE DeploymentInvariants -------------------------
(***************************************************************************)
(* The inductive invariant of the deployment controller: what relates the  *)
(* two receipts, the evidence, the plan and the hosts in every state.      *)
(* Model-checked with the controller, proved in DeploymentControllerProofs.*)
(***************************************************************************)
EXTENDS DeploymentController

\* The receipts that exist: the job's and the authority's.
Receipts == {local, retained} \ {NoReceipt}

Working == pc # "idle"

\* The steps of one host's update, up to its record and up to its probe.
Updating == pc \in {"capacity", "update", "draining", "verify"}
Proving  == pc = "probe"

\* Whose absence goes with whose: there is a retained receipt from the
\* admission on, a command runs in a job that has receipts, such a job has
\* evidence, and that of another job is newer than the last change of a host.
Presence ==
  /\ plan # NoPlan <=> retained # NoReceipt
  /\ local # NoReceipt => retained # NoReceipt /\ evidence # NoEvidence
  /\ Working => local # NoReceipt
  /\ local = NoReceipt /\ evidence # NoEvidence => evidence.fleet = live

\* The canary's observation comes before any other host is touched.
SoakedFirst ==
  /\ \A rec \in Receipts : rec.trans[Canary].observation = "passed" => soaked
  /\ (Updating \/ Proving) /\ target # Canary => soaked
  /\ plan # NoPlan =>
       \A r \in Runner \ {Canary} : live[r] # plan.start[r] => soaked

\* A deployment starts from one release, a rollback returns to the observed
\* one, and a host never runs a third.
PlanShape ==
  plan # NoPlan =>
    /\ plan.action = "deploy" => \A r \in Runner : plan.start[r] = plan.observed
    /\ plan.action = "rollback" => plan.selected = plan.observed
    /\ \A r \in Runner : live[r] \in {plan.start[r], plan.selected}

\* The transitions of a receipt follow the plan's order: proved hosts, at most
\* one that is not, then hosts untouched since the plan was admitted.
InOrder(rec) ==
  /\ ValidReceipt(rec, plan.selected)
  /\ \A r \in Runner : LET t == rec.trans[r] IN
       /\ t.state \in Applied => t.release = plan.selected
       /\ t.state \notin Applied => t.probe = "not_run"
       /\ t.state = "absent" => t = Absent /\ rec.final[r] = plan.start[r]
       /\ t.state = "unknown" => rec.outcome \in {"failed", "interrupted"}
       /\ t.probe \in {"failed", "timeout"} => rec.outcome = "failed"
       /\ ~ Proved(r, t) => \A q \in r + 1 .. N : rec.trans[q].state = "absent"

\* The job's receipt and evidence are right about every host but the one that
\* is to be done next; and a move they show has happened.
LocalTruth ==
  local # NoReceipt =>
    \A r \in Runner :
      /\ local.trans[r].state \in Applied => live[r] = plan.selected
      /\ evidence.fleet[r] = plan.selected => live[r] = plan.selected
      /\ ~ Proved(r, local.trans[r]) =>
           \A q \in r + 1 .. N : /\ live[q] = plan.start[q]
                                 /\ evidence.fleet[q] = plan.start[q]

\* A command works on the first host that is not proved, and only where the
\* receipt lets it.
WorksInOrder ==
  /\ pc # "refused"
  /\ Working =>
       /\ local.outcome \in {"admitted", "in_progress", "interrupted"}
       /\ Unknowns(local) = {}
       /\ \A q \in 1 .. target - 1 : Proved(q, local.trans[q])
  /\ Updating => local.trans[target].state = "absent"
  /\ Proving => /\ local.trans[target].state \in Applied
                /\ local.trans[target].probe = "not_run"
  /\ pc = "observe" => ObservationPending(target)
  /\ pc = "finish" => \A q \in Runner : Proved(q, local.trans[q])
  /\ pc \in {"draining", "verify"} => target \notin proven
  /\ pc = "verify" => live[target] = plan.selected

\* A probe that a receipt has as passed is one that passed, and the job's
\* receipt forgets none; a host that moved and passed is one the job's receipt
\* has, or is about to reconcile.
ProvenRecorded ==
  /\ \A rec \in Receipts : \A r \in Runner :
       rec.trans[r].probe = "passed" => r \in proven
  /\ local # NoReceipt =>
       \A r \in Runner :
         /\ retained.trans[r].probe = "passed" => local.trans[r].probe = "passed"
         /\ r \in proven /\ live[r] # plan.start[r] =>
              /\ local.trans[r].state # "absent"
              /\ local.trans[r].state = "unknown" =>
                   evidence.fleet[r] = plan.selected

RolloutInv ==
  /\ TypeOK
  /\ Presence
  /\ SoakedFirst
  /\ PlanShape
  /\ \A rec \in Receipts : InOrder(rec)
  /\ LocalTruth
  /\ WorksInOrder
  /\ ProvenRecorded
  /\ BlastRadius
=============================================================================
