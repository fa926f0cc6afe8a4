-------------------------- MODULE DeploymentReceipt --------------------------
(***************************************************************************)
(* The deployment receipt: what the controller records of an attempt, how  *)
(* a revision is derived from the previous one, and which revisions the    *)
(* preflight accepts (scripts/container_deployment_preflight.py).          *)
(*                                                                         *)
(* Runners are numbered in the plan's order, so the canary is runner 1     *)
(* and the code's list of transitions, which execute_plan appends in that  *)
(* order, is a function of the runner.  Digests, timestamps and texts are  *)
(* abstracted: a release stands for its manifest and image digests.        *)
(***************************************************************************)
EXTENDS Naturals, FiniteSets

CONSTANTS
  N,          \* number of runners of the fleet
  Releases,   \* the releases a host may run
  NoRelease   \* a null release: the runner's state is unknown

ASSUME FleetAssumption == N \in Nat /\ N >= 2
ASSUME ReleaseAssumption == NoRelease \notin Releases

Runner == 1..N
Canary == 1

Applied == {"updated", "restored", "reconciled"}

Transition == [state       : Applied \cup {"absent", "unknown"},
               release     : Releases \cup {NoRelease},
               probe       : {"not_run", "passed", "failed", "timeout"},
               observation : {"not_required", "pending", "passed"}]

Outcome == {"admitted", "in_progress", "succeeded", "failed", "interrupted"}

Receipt == [outcome : Outcome,
            trans   : [Runner -> Transition],
            final   : [Runner -> Releases \cup {NoRelease}]]

-----------------------------------------------------------------------------
\* A runner the attempt has not touched.
Absent == [state |-> "absent", release |-> NoRelease,
           probe |-> "not_run", observation |-> "not_required"]

\* A runner whose update ended without verified evidence.
Unknown == [Absent EXCEPT !.state = "unknown"]

\* A runner just moved to `rel`; only the canary owes an observation.
Moved(r, how, rel) ==
  [state |-> how, release |-> rel, probe |-> "not_run",
   observation |-> IF r = Canary THEN "pending" ELSE "not_required"]

Touched(rec)  == {r \in Runner : rec.trans[r].state # "absent"}
Unknowns(rec) == {r \in Runner : rec.trans[r].state = "unknown"}

\* The revision recording `trans` after `prev`; an untouched runner keeps the
\* final state the previous revision gave it.
NextRevision(prev, outcome, trans) ==
  [outcome |-> outcome,
   trans   |-> trans,
   final   |-> [r \in Runner |-> IF trans[r].state = "absent"
                                 THEN prev.final[r]
                                 ELSE trans[r].release]]

\* Revision 0, taken from the fleet the plan was admitted on.
AdmittedReceipt(fleet) ==
  [outcome |-> "admitted", trans |-> [r \in Runner |-> Absent], final |-> fleet]

-----------------------------------------------------------------------------
\* The observation a transition of runner r may claim.
ObservationAllowed(r, t) ==
  IF r = Canary /\ t.state # "unknown" /\ t.probe \in {"not_run", "passed"}
  THEN t.observation = "pending" \/ (t.probe = "passed" /\ t.observation = "passed")
  ELSE t.observation = "not_required"

\* Mutant: the canary's observation is forgotten.
ProbeSuffices(r, t) == t.probe = "passed"

\* Nothing is left to do for the runner.
Proved(r, t) == t.probe = "passed" /\ (r = Canary => t.observation = "passed")

ValidReceipt(rec, selected) ==
  /\ Touched(rec) # {} => Canary \in Touched(rec)
  /\ rec.outcome = "admitted" => Touched(rec) = {}
  /\ \A r \in Touched(rec) :
       /\ (rec.trans[r].release = NoRelease) <=> (rec.trans[r].state = "unknown")
       /\ ObservationAllowed(r, rec.trans[r])
       /\ rec.final[r] = rec.trans[r].release
  /\ Unknowns(rec) = {r \in Runner : rec.final[r] = NoRelease}
  /\ rec.outcome = "succeeded" =>
       \A r \in Runner : /\ rec.trans[r].state # "absent"
                         /\ Proved(r, rec.trans[r])
                         /\ rec.final[r] = selected
=============================================================================
