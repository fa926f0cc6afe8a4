------------------------ MODULE DeploymentController ------------------------
(***************************************************************************)
(* The sequential rollout of a release over a fleet of runner hosts        *)
(* (scripts/container_deployment_controller.py): plan admission, execute,  *)
(* reconcile, resume from the retained receipts, rollback.                 *)
(*                                                                         *)
(* One controller job at a time works on a local directory of receipts;    *)
(* the retained copy survives the job.  A command works on the evidence    *)
(* collected last, which may be older than the fleet it describes.  Hosts, *)
(* the deployment CLI and the workflow that calls the commands are the     *)
(* environment: Faults names the kinds of failure it may show.             *)
(***************************************************************************)
EXTENDS DeploymentReceipt

CONSTANTS
  MinAvailable,  \* fleet["minimumAvailable"]
  NoPlan, NoReceipt, NoEvidence, NoSource,
  Faults         \* the failures the environment may show

FaultKinds == {"crash",      \* the command dies between two of its steps
               "job_lost",   \* the job dies and its local receipts with it
               "cli",        \* the deployment CLI ends without evidence
               "evidence",   \* a host export or an admission token is missing
               "observe",    \* the canary observation is interrupted
               "host_down",  \* a host stops between two commands
               "host_drops"} \* a host stops at any time

ASSUME CapacityAssumption == MinAvailable \in 1 .. N - 1
ASSUME FaultAssumption == Faults \subseteq FaultKinds

VARIABLES
  live,      \* the release each host runs
  up,        \* the hosts that are online, idle and admitted
  evidence,  \* the evidence file the job collected last
  plan,      \* the admitted plan of the latest attempt
  authorized,\* the job's authorization is the one the plan was built with
  local,     \* the latest receipt of the job's directory
  retained,  \* the latest receipt the authority retains
  source,    \* the receipt a rollback would name
  pc,        \* where execute_plan stands
  target,    \* the runner it works on
  proven,    \* history: hosts whose last probe since their last update passed
  soaked     \* history: the canary was observed in this attempt

hostVars == <<live, up>>
recordVars == <<plan, authorized, local, retained, source>>
historyVars == <<proven, soaked>>
vars == <<hostVars, recordVars, historyVars, evidence, pc, target>>

Plan == [action   : {"deploy", "rollback"},
         selected : Releases,               \* selectedRelease, targetDigest
         observed : Releases,               \* observedDeployedRelease
         start    : [Runner -> Releases]]   \* the fleet of revision 0

Evidence == [fleet : [Runner -> Releases], admitted : BOOLEAN]

\* What a rollback reads of the failed or interrupted receipt it names.
Source == [observed : Releases, final : [Runner -> Releases \cup {NoRelease}]]

\* What the hosts know of a plan: where its attempt started, what it selected.
Goal == [start : [Runner -> Releases], selected : Releases]

\* The absent values are none of the values they stand for the absence of.
ASSUME AbsenceAssumption ==
  /\ NoPlan \notin Plan \cup Goal
  /\ NoReceipt \notin Receipt
  /\ NoEvidence \notin Evidence
  /\ NoSource \notin Source

TypeOK ==
  /\ live \in [Runner -> Releases]
  /\ up \subseteq Runner
  /\ evidence \in Evidence \cup {NoEvidence}
  /\ plan \in Plan \cup {NoPlan}
  /\ authorized \in BOOLEAN
  /\ local \in Receipt \cup {NoReceipt}
  /\ retained \in Receipt \cup {NoReceipt}
  /\ source \in Source \cup {NoSource}
  /\ pc \in {"idle", "capacity", "update", "draining", "verify",
             "probe", "observe", "finish", "refused"}
  /\ target \in Runner
  /\ proven \subseteq Runner
  /\ soaked \in BOOLEAN

Init ==
  /\ \E rel \in Releases : live = [r \in Runner |-> rel]
  /\ up = Runner
  /\ evidence = NoEvidence
  /\ plan = NoPlan
  /\ authorized = FALSE
  /\ local = NoReceipt
  /\ retained = NoReceipt
  /\ source = NoSource
  /\ pc = "idle"
  /\ target = Canary
  /\ proven = {}
  /\ soaked = FALSE

-----------------------------------------------------------------------------
(***************************************************************************)
(* collect-evidence, plan and admit                                        *)
(***************************************************************************)
Collect ==
  /\ pc = "idle"
  /\ evidence' = [fleet |-> live, admitted |-> up = Runner]
  /\ UNCHANGED <<hostVars, recordVars, historyVars, pc, target>>

\* The plan and its admitted receipt, both from one evidence file, in a job
\* that restored no receipt.
Admit(action, selected, observed) ==
  /\ pc = "idle"
  /\ local = NoReceipt
  /\ evidence # NoEvidence
  /\ evidence.admitted
  /\ plan' = [action |-> action, selected |-> selected, observed |-> observed,
              start |-> evidence.fleet]
  /\ authorized' = TRUE
  /\ local' = AdmittedReceipt(evidence.fleet)
  /\ retained' = local'
  /\ proven' = {}
  /\ soaked' = FALSE
  /\ UNCHANGED <<hostVars, evidence, source, pc, target>>

Deploy(rel) ==
  \E observed \in Releases :
    /\ Admit("deploy", rel, observed)
    /\ evidence.fleet = [r \in Runner |-> observed]

Rollback ==
  /\ source # NoSource
  /\ Admit("rollback", source.observed, source.observed)
  /\ evidence.fleet = source.final

\* The attempt can go on in a later job.
Resumable(rec) ==
  \/ rec.outcome \in {"admitted", "in_progress", "interrupted"}
  \/ rec.outcome = "failed" /\ Unknowns(rec) # {}

\* It is restored whatever authorization the job has: that of another run names
\* that run, so it is not the plan's.
Resume ==
  /\ pc = "idle"
  /\ local = NoReceipt
  /\ retained # NoReceipt
  /\ evidence # NoEvidence
  /\ Resumable(retained)
  /\ \A r \in Runner :
       IF retained.final[r] = NoRelease
       THEN evidence.fleet[r] \in {plan.selected, plan.observed}
       ELSE evidence.fleet[r] = retained.final[r]
  /\ local' = retained
  /\ authorized' \in BOOLEAN
  /\ UNCHANGED <<hostVars, plan, retained, source, historyVars, evidence, pc, target>>

-----------------------------------------------------------------------------
(***************************************************************************)
(* execute: one call of execute_plan with max_hosts = 1                    *)
(***************************************************************************)
\* Mutants: any updated host counts as completed; reconciled hosts never do.
UpdatedIsCompleted(r) ==
  local.trans[r].state \in Applied /\ local.trans[r].release = plan.selected
OnlyUpdatedCompletes(r) ==
  local.trans[r].state = "updated" /\ Proved(r, local.trans[r])

Completed(r) ==
  LET t == local.trans[r]
  IN  t.state \in Applied /\ t.release = plan.selected /\ Proved(r, t)

\* Updated in an earlier step, and not probed yet.
Pending(r) ==
  LET t == local.trans[r]
  IN  t.state \in Applied /\ t.release = plan.selected /\ t.probe = "not_run"

\* Mutant: the steps are not taken in the plan's order.
AnyStep(r) == ~ Completed(r)

NextStep(r) == ~ Completed(r) /\ \A q \in 1 .. r - 1 : Completed(q)

ObservationPending(r) ==
  local.trans[r].probe = "passed" /\ local.trans[r].observation = "pending"

Remaining(trans) == {r \in Runner : ~ Proved(r, trans[r])}

\* Writing a revision.  The receipt preflight runs first: a revision it
\* refuses is not written and the command dies.
Record(outcome, trans, next) ==
  LET rec == NextRevision(local, outcome, trans)
  IN  IF ValidReceipt(rec, plan.selected)
      THEN local' = rec /\ pc' = next
      ELSE local' = local /\ pc' = "refused"

Fail(outcome) == Record(outcome, local.trans, "idle")

\* The update of the target ended without verified evidence.
LoseTarget(outcome) ==
  Record(outcome, [local.trans EXCEPT ![target] = Unknown], "idle")

\* The resume checks: the evidence shows exactly the recorded fleet, and
\* nothing outside the plan's two releases.
MatchesReceipt ==
  /\ evidence # NoEvidence
  /\ evidence.admitted
  /\ \A r \in Runner : /\ evidence.fleet[r] = local.final[r]
                       /\ evidence.fleet[r] \in {plan.selected, plan.observed}

Execute ==
  /\ pc = "idle"
  /\ local # NoReceipt
  /\ authorized
  /\ local.outcome \in {"admitted", "in_progress", "interrupted"}
  /\ MatchesReceipt
  /\ IF \A r \in Runner : Completed(r)
     THEN pc' = "finish" /\ target' = target
     ELSE \E r \in Runner :
            /\ NextStep(r)
            /\ target' = r
            /\ pc' = IF ObservationPending(r) THEN "observe"
                     ELSE IF Pending(r) THEN "probe" ELSE "capacity"
  /\ UNCHANGED <<hostVars, recordVars, historyVars, evidence>>

\* Mutant: the host to be drained is counted as available.
CapacityOffByOne ==
  /\ pc = "capacity"
  /\ Cardinality(up) >= MinAvailable
  /\ pc' = "update"
  /\ UNCHANGED <<hostVars, recordVars, historyVars, evidence, target>>

\* adapter.available_capacity(), read from a host export.
CapacityFree ==
  /\ pc = "capacity"
  /\ Cardinality(up) >= MinAvailable + 1
  /\ pc' = "update"
  /\ UNCHANGED <<hostVars, recordVars, historyVars, evidence, target>>

CapacityShort ==
  /\ pc = "capacity"
  /\ Cardinality(up) < MinAvailable + 1 \/ "evidence" \in Faults
  /\ Fail("failed")
  /\ UNCHANGED <<hostVars, plan, authorized, retained, source, historyVars, evidence, target>>

\* The deployment CLI drains the host and replaces its container.
UpdateStarts ==
  /\ pc = "update"
  /\ up' = up \ {target}
  /\ proven' = proven \ {target}
  /\ pc' = "draining"
  /\ UNCHANGED <<live, recordVars, soaked, evidence, target>>

\* The CLI cannot be started: a token or its executable is missing.
UpdateRefused ==
  /\ "evidence" \in Faults
  /\ pc = "update"
  /\ LoseTarget("failed")
  /\ UNCHANGED <<hostVars, plan, authorized, retained, source, historyVars, evidence, target>>

UpdateReturns ==
  /\ pc = "draining"
  /\ live' = [live EXCEPT ![target] = plan.selected]
  /\ up' = up \cup {target}
  /\ pc' = "verify"
  /\ UNCHANGED <<recordVars, historyVars, evidence, target>>

\* Mutant: a host whose update was interrupted runs no release at all.
HostLeftEmpty ==
  /\ live' = [live EXCEPT ![target] = NoRelease]
  /\ up' = up

\* The host of an update nobody sees the end of: moved or not, up or not.
HostLeftAnyhow ==
  /\ \/ live' = live
     \/ live' = [live EXCEPT ![target] = plan.selected]
  /\ \/ up' = up
     \/ up' = up \cup {target}

\* DeploymentInterrupted: the CLI fails or is timed out.
UpdateInterrupted ==
  /\ "cli" \in Faults
  /\ pc = "draining"
  /\ HostLeftAnyhow
  /\ LoseTarget("interrupted")
  /\ UNCHANGED <<plan, authorized, retained, source, historyVars, evidence, target>>

\* The post-update host export and _validate_runner_result.
UpdateVerified ==
  /\ pc = "verify"
  /\ target \in up
  /\ Cardinality(up) >= MinAvailable
  /\ Record("in_progress",
            [local.trans EXCEPT ![target] =
               Moved(target,
                     IF plan.action = "rollback" THEN "restored" ELSE "updated",
                     plan.selected)],
            "probe")
  /\ UNCHANGED <<hostVars, plan, authorized, retained, source, historyVars, evidence, target>>

UpdateUnverified ==
  /\ pc = "verify"
  /\ \/ target \notin up
     \/ Cardinality(up) < MinAvailable
     \/ "evidence" \in Faults
  /\ LoseTarget("failed")
  /\ UNCHANGED <<hostVars, plan, authorized, retained, source, historyVars, evidence, target>>

\* Mutant: succeeded is recorded without looking at the remaining steps.
AlwaysFinish(trans) == "finish"

\* Where execute goes after a step that left `trans`: it stops after one
\* host, unless that host was the last one.
AfterHost(trans) == IF Remaining(trans) = {} THEN "finish" ELSE "idle"

ProbePasses ==
  LET trans == [local.trans EXCEPT ![target].probe = "passed"]
  IN  /\ pc = "probe"
      /\ Record("in_progress", trans,
                IF target = Canary THEN "observe" ELSE AfterHost(trans))
      /\ proven' = proven \cup {target}
      /\ UNCHANGED <<hostVars, plan, authorized, retained, source, soaked, evidence, target>>

\* A failed probe, or one without a valid answer, ends the attempt.
ProbeFails ==
  /\ pc = "probe"
  /\ \E result \in {"failed", "timeout"} :
       Record("failed",
              [local.trans EXCEPT ![target] =
                 [@ EXCEPT !.probe = result, !.observation = "not_required"]],
              "idle")
  /\ proven' = proven \ {target}
  /\ UNCHANGED <<hostVars, plan, authorized, retained, source, soaked, evidence, target>>

ObservationEnds ==
  LET trans == [local.trans EXCEPT ![target].observation = "passed"]
  IN  /\ pc = "observe"
      /\ Record("in_progress", trans, AfterHost(trans))
      /\ soaked' = TRUE
      /\ UNCHANGED <<hostVars, plan, authorized, retained, source, proven, evidence, target>>

ObservationInterrupted ==
  /\ "observe" \in Faults
  /\ pc = "observe"
  /\ Fail("interrupted")
  /\ UNCHANGED <<hostVars, plan, authorized, retained, source, historyVars, evidence, target>>

Finish ==
  /\ pc = "finish"
  /\ Record("succeeded", local.trans, "idle")
  /\ UNCHANGED <<hostVars, plan, authorized, retained, source, historyVars, evidence, target>>

-----------------------------------------------------------------------------
(***************************************************************************)
(* reconcile                                                               *)
(***************************************************************************)
\* Mutant: a runner found on the baseline stays unknown.
BaselineStaysUnknown(r) ==
  IF evidence.fleet[r] = plan.selected
  THEN Moved(r, "reconciled", plan.selected)
  ELSE Unknown

\* An unknown runner found on the selected release is probed next; one
\* found on the baseline is as if the attempt had not touched it.
Reconciled(r) ==
  IF evidence.fleet[r] = plan.selected
  THEN Moved(r, "reconciled", plan.selected)
  ELSE Absent

Reconcile ==
  LET unknown == Unknowns(local)
      rec == [outcome |-> "in_progress",
              trans   |-> [r \in Runner |-> IF r \in unknown THEN Reconciled(r)
                                            ELSE local.trans[r]],
              final   |-> evidence.fleet]
  IN  /\ pc = "idle"
      /\ local # NoReceipt
      /\ evidence # NoEvidence
      /\ local.outcome \in {"failed", "interrupted"}
      /\ unknown # {}
      /\ \A r \in Touched(local) :
           IF r \in unknown
           THEN evidence.fleet[r] \in {plan.selected, plan.observed}
           ELSE evidence.fleet[r] = local.final[r]
      /\ ValidReceipt(rec, plan.selected)
      /\ local' = rec
      /\ UNCHANGED <<hostVars, plan, authorized, retained, source, historyVars, evidence, pc, target>>

-----------------------------------------------------------------------------
(***************************************************************************)
(* The workflow around the commands, the hosts, and the failures           *)
(***************************************************************************)
\* The receipts are uploaded; a failed or interrupted one may be named by a
\* later rollback.
Upload ==
  /\ pc = "idle"
  /\ local # NoReceipt
  /\ local # retained
  /\ retained' = local
  /\ \/ source' = source
     \/ /\ local.outcome \in {"failed", "interrupted"}
        /\ source' = [observed |-> plan.observed, final |-> local.final]
  /\ UNCHANGED <<hostVars, plan, authorized, local, historyVars, evidence, pc, target>>

\* The job ends once the attempt has stopped, or execute refuses the job's
\* authorization, and its receipts are uploaded.
JobEnds ==
  /\ pc = "idle"
  /\ local # NoReceipt
  /\ local = retained
  /\ local.outcome \in {"succeeded", "failed", "interrupted"} \/ ~ authorized
  /\ local' = NoReceipt
  /\ authorized' = FALSE
  /\ evidence' = NoEvidence
  /\ UNCHANGED <<hostVars, plan, retained, source, historyVars, pc, target>>

\* A death during the CLI call leaves the host in any state.
Dies ==
  /\ pc' = "idle"
  /\ IF pc = "draining" THEN HostLeftAnyhow ELSE UNCHANGED hostVars
  /\ UNCHANGED <<plan, retained, source, historyVars, target>>

Crash ==
  /\ "crash" \in Faults
  /\ pc # "idle"
  /\ Dies
  /\ UNCHANGED <<authorized, local, evidence>>

JobLost ==
  /\ "job_lost" \in Faults
  /\ local # NoReceipt
  /\ Dies
  /\ local' = NoReceipt
  /\ authorized' = FALSE
  /\ evidence' = NoEvidence

HostStops ==
  /\ "host_drops" \in Faults \/ ("host_down" \in Faults /\ pc = "idle")
  /\ \E r \in up : up' = up \ {r}
  /\ UNCHANGED <<live, recordVars, historyVars, evidence, pc, target>>

HostReturns ==
  /\ \E r \in Runner \ up :
       /\ ~ (pc = "draining" /\ r = target)
       /\ up' = up \cup {r}
  /\ UNCHANGED <<live, recordVars, historyVars, evidence, pc, target>>

-----------------------------------------------------------------------------
UpdateHost ==
  \/ CapacityFree \/ CapacityShort
  \/ UpdateStarts \/ UpdateRefused
  \/ UpdateReturns \/ UpdateInterrupted
  \/ UpdateVerified \/ UpdateUnverified

ProveHost ==
  \/ ProbePasses \/ ProbeFails
  \/ ObservationEnds \/ ObservationInterrupted
  \/ Finish

Next ==
  \/ Collect
  \/ \E rel \in Releases : Deploy(rel)
  \/ Rollback
  \/ Resume
  \/ Execute
  \/ UpdateHost
  \/ ProveHost
  \/ Reconcile
  \/ Upload \/ JobEnds
  \/ Crash \/ JobLost
  \/ HostStops \/ HostReturns

Spec == Init /\ [][Next]_vars

-----------------------------------------------------------------------------
(***************************************************************************)
(* What the rollout promises                                               *)
(***************************************************************************)
\* A host other than the canary is touched only after the canary was probed
\* and observed on the selected release in the same attempt: whatever dies,
\* is resumed, reconciled or retried in between, execute_plan's order holds
\* of the hosts, not only of one receipt.
CanaryFirst ==
  plan # NoPlan =>
    \A r \in Runner \ {Canary} :
      live[r] # plan.start[r] \/ (pc = "draining" /\ target = r) => soaked

\* At most one host of an attempt runs a release that its last
\* representative probe did not pass on: a failed probe stops the rollout
\* before a second update, also across a resume.
BlastRadius ==
  plan # NoPlan =>
    \A r, q \in Runner :
      /\ live[r] # plan.start[r] /\ r \notin proven
      /\ live[q] # plan.start[q] /\ q \notin proven
      => r = q

\* While execute_plan runs, its receipt is right about every host but the one
\* it works on, however old the evidence it was admitted with.
ActsOnTruth ==
  pc # "idle" => \A r \in Runner \ {target} : local.final[r] = live[r]

\* A succeeded receipt says what the hosts run: every one on the selected
\* release and probed there, the canary observed.
SucceededMeansDeployed ==
  (local # NoReceipt /\ local.outcome = "succeeded") =>
    /\ \A r \in Runner : live[r] = plan.selected
    /\ proven = Runner
    /\ soaked

\* No revision that execute_plan builds is one validate_receipt refuses: the
\* command never dies between changing a host and recording it.
NeverRefused == pc # "refused"

\* While a host is drained, minimumAvailable others are in service, although
\* the evidence the command was admitted with may be older than the last host
\* that stopped or was left down; only a host that stops after the capacity
\* check can break it.
CapacityFloor ==
  "host_drops" \notin Faults /\ pc = "draining" => Cardinality(up) >= MinAvailable

\* Retrying, resuming or reconciling never updates again a host that the
\* attempt has moved and proved.
NoSecondUpdate ==
  [][pc = "update" /\ pc' = "draining" =>
       ~ (target \in proven /\ live[target] # plan.start[target])]_vars

\* The sequential rollout the controller implements: its hosts, its plan and
\* the two histories, whatever happens to jobs, receipts and evidence.
Rollout == INSTANCE SequentialRollout WITH
  NoGoal <- NoPlan,
  goal   <- IF plan = NoPlan THEN NoPlan
            ELSE [start |-> plan.start, selected |-> plan.selected]

\* Every step of the controller is a step of the sequential rollout or leaves
\* the hosts and their proofs alone.
FollowsPlan == Rollout!Spec

-----------------------------------------------------------------------------
(***************************************************************************)
(* Progress, when the workflow keeps calling the commands                  *)
(***************************************************************************)
\* The job whose receipts are the latest ones, running or not.
Latest == IF local # NoReceipt THEN local ELSE retained

\* A run repeats the commands, hosts come back, and a step that keeps being
\* reached is not interrupted every time.
Fairness ==
  /\ WF_vars(Collect) /\ WF_vars(HostReturns) /\ WF_vars(Upload)
  /\ SF_vars(Execute) /\ SF_vars(Reconcile)
  /\ SF_vars(CapacityFree) /\ SF_vars(UpdateStarts)
  /\ SF_vars(UpdateReturns) /\ SF_vars(UpdateVerified)
  /\ SF_vars(ProbePasses) /\ SF_vars(ObservationEnds) /\ SF_vars(Finish)

FairSpec == Spec /\ Fairness

\* A host runs another release than the latest receipt says: the controller
\* died between an update and its record.
Torn ==
  /\ Latest # NoReceipt
  /\ \E r \in Runner : Latest.final[r] \notin {NoRelease, live[r]}

Stopped ==
  /\ Latest # NoReceipt
  /\ Latest.outcome \in {"succeeded", "failed"}
  /\ Unknowns(Latest) = {}

\* A run that has the plan's authorization stops the deployment, succeeded or
\* failed, through any number of interrupted commands, unless a crash tore a
\* receipt from its host or the run is over first.  execute_plan refuses any
\* other run, and nothing is promised of one.
DeployStops ==
  (plan # NoPlan /\ plan.action = "deploy" /\ authorized) ~>
    (Stopped \/ Torn \/ ~ authorized)

\* docs/runner-deployment-onboarding.md:151-152: an independently admitted
\* rollback to the exact previous release.  It brings every host back, or
\* stops because a host fails its probe on that release.
RollbackRestores ==
  (plan # NoPlan /\ plan.action = "rollback") ~>
    (\/ Stopped
     \/ plan # NoPlan /\ (\A r \in Runner : live[r] = plan.selected))
=============================================================================
