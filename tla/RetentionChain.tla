---------------------------- MODULE RetentionChain ----------------------------
(***************************************************************************)
(* The weekly GHCR retention workflow (.github/workflows/ghcr-retention    *)
(* .yml) around scripts/ghcr_retention.py: inventory, prior-evidence, plan *)
(* and preview, one job at a time, over a registry that others change      *)
(* between any two steps.  A version's age is carried from plan to plan,   *)
(* so the chain of plans is the state that matters.                        *)
(*                                                                         *)
(* A plan stands for its bytes, its hash and the artifact that holds it: a *)
(* reference to a plan is its place in the log `plans`.                    *)
(***************************************************************************)
EXTENDS RetentionGraph, Sequences

CONSTANTS Graphs,         \* the OCI graphs a registry may hold
          MinimumAge,     \* MINIMUM_AGE_DAYS
          MaximumGap,     \* MAXIMUM_OBSERVATION_GAP_DAYS
          MaxTime,        \* bound of the clock
          MaxRuns,        \* bound of the workflow runs
          MaxEvents       \* bound of the registry changes, branch runs,
                          \* further attempts and failures, together

ASSUME RetentionBounds ==
    /\ MinimumAge \in Nat /\ MaximumGap \in Nat
    /\ MaxTime \in Nat /\ MaxRuns \in Nat /\ MaxEvents \in Nat
ASSUME RetentionGraphs == Graphs \subseteq Graph

VARIABLES now,        \* the clock of the planner, in units of the policy
          graph,      \* manifests are immutable: the edges never change
          registry,   \* version -> what GitHub's inventory says of it
          runs,       \* workflow runs in the order of their ids
          plans,      \* uploaded plan artifacts, oldest first
          job,        \* the job that holds the concurrency group
          events      \* what was not an undisturbed run on main, counted

vars == <<now, graph, registry, runs, plans, job, events>>

Idle == [step |-> "idle", run |-> 0, inventory |-> <<>>, prior |-> 0]

Present == {v \in Versions : registry[v].present}

Init ==
    /\ now = 0
    /\ graph \in Graphs
    /\ registry \in [Versions -> [present : {TRUE}, id : {1}, created : {0},
                                  tagged : BOOLEAN]]
    /\ runs = <<>>
    /\ plans = <<>>
    /\ job = Idle
    /\ events = 0

-------------------------------------------------------------------------------
(* The registry.                                                           *)

Tick == /\ now < MaxTime
        /\ now' = now + 1
        /\ UNCHANGED <<graph, registry, runs, plans, job, events>>

Disturb == events < MaxEvents /\ events' = events + 1

Change(v, entry) ==
    /\ Disturb
    /\ registry' = [registry EXCEPT ![v] = entry]
    /\ UNCHANGED <<now, graph, runs, plans, job>>

(* A tag moves to v, or away from it.                                      *)
Retag(v) == /\ registry[v].present
            /\ Change(v, [registry[v] EXCEPT !.tagged = ~ @])

Delete(v) == /\ registry[v].present
             /\ Change(v, [registry[v] EXCEPT !.present = FALSE, !.tagged = FALSE])

(* The same digest pushed again is another package version.                *)
Push(v, tag) == /\ ~ registry[v].present
                /\ Change(v, [present |-> TRUE, id |-> registry[v].id + 1,
                              created |-> now, tagged |-> tag])

-------------------------------------------------------------------------------
(* Runs of the workflow.  The concurrency group lets one job run.          *)

Begin(r) == job' = [Idle EXCEPT !.step = "snapshot", !.run = r]

Trigger(main) ==
    /\ job = Idle
    /\ Len(runs) < MaxRuns
    /\ IF main THEN UNCHANGED events ELSE Disturb
    /\ runs' = Append(runs, [main |-> main, attempt |-> 1, conclusion |-> "running"])
    /\ Begin(Len(runs) + 1)
    /\ UNCHANGED <<now, graph, registry, plans>>

Rerun(r) ==
    /\ job = Idle
    /\ Disturb
    /\ runs' = [runs EXCEPT ![r].attempt = @ + 1, ![r].conclusion = "running"]
    /\ Begin(r)
    /\ UNCHANGED <<now, graph, registry, plans>>

(* The latest run on main that succeeded: GitHub lists by run id, and only *)
(* the conclusion of a run's last attempt counts.                          *)
Successful == {r \in DOMAIN runs : runs[r].main /\ runs[r].conclusion = "success"}

Latest == {r \in Successful : \A s \in Successful : s <= r}

(* The artifact is named after the run and its attempt and bound to both.  *)
ArtifactsOf(r) ==
    {i \in DOMAIN plans : plans[i].run = r /\ plans[i].attempt = runs[r].attempt}

(* previous_plan_evidence: the latest successful run, unless it is this    *)
(* one, with exactly one artifact of that name.                            *)
Evidence == UNION {ArtifactsOf(r) : r \in Latest \ {job.run}}

(* The step "Snapshot GitHub evidence".  inventory: every version with its *)
(* id, its age and its tags.  prior-evidence: off main there is no         *)
(* predecessor; any failure of the API or of the archive's checks leaves   *)
(* none.                                                                   *)
Snapshot(prior) ==
    /\ job' = [job EXCEPT !.step = "plan", !.prior = prior,
                          !.inventory = [v \in Present |-> registry[v]]]
    /\ UNCHANGED <<now, graph, registry, runs, plans>>

PriorEvidence(i) == /\ job.step = "snapshot"
                    /\ runs[job.run].main
                    /\ i \in Evidence
                    /\ Snapshot(i)
                    /\ UNCHANGED events

NoPriorEvidence == /\ job.step = "snapshot"
                   /\ ~ runs[job.run].main \/ Evidence = {}
                   /\ Snapshot(0)
                   /\ UNCHANGED events

PriorEvidenceLost == /\ job.step = "snapshot"
                     /\ Disturb
                     /\ runs[job.run].main /\ Evidence # {}
                     /\ Snapshot(0)

-------------------------------------------------------------------------------
(* plan.                                                                   *)

\* Mutant: any plan on main before this one continues the chain.
PredecessorAnyAge ==
    IF job.prior # 0 /\ plans[job.prior].status # "non_main_source"
    THEN job.prior ELSE 0

\* Mutant: the chain need not continue a run before this one.
PredecessorAnyRun ==
    IF /\ job.prior # 0
       /\ now - plans[job.prior].time <= MaximumGap
       /\ plans[job.prior].status # "non_main_source"
    THEN job.prior ELSE 0

(* verified_prior_observations: which plan the chain continues, 0 when it  *)
(* starts again.                                                           *)
Predecessor ==
    IF /\ job.prior # 0
       /\ plans[job.prior].run < job.run
       /\ plans[job.prior].time < now
       /\ now - plans[job.prior].time <= MaximumGap
       /\ plans[job.prior].status # "non_main_source"
    THEN job.prior ELSE 0

ChainStatus ==
    CASE ~ runs[job.run].main -> "non_main_source"
      [] runs[job.run].main /\ job.prior = 0 -> "missing_prior_evidence"
      [] runs[job.run].main /\ job.prior # 0 /\ Predecessor = 0 ->
           "untrusted_or_discontinuous_prior_evidence"
      [] OTHER -> "continued"

(* The prior plan's observations, by version id and digest.                *)
Observed(p, v) == p # 0 /\ v \in DOMAIN plans[p].first
                        /\ plans[p].ids[v] = job.inventory[v].id

Later(a, b) == IF a < b THEN b ELSE a

FirstObserved(v) ==
    Later(IF Observed(Predecessor, v) THEN plans[Predecessor].first[v] ELSE now,
          job.inventory[v].created)

TaggedVersions == {v \in DOMAIN job.inventory : job.inventory[v].tagged}

Untagged == DOMAIN job.inventory \ TaggedVersions

Protected == Reachable(graph, DOMAIN job.inventory, TaggedVersions)

\* Mutant: a day too late.
CandidatesLater ==
    {v \in Untagged : FirstObserved(v) + MinimumAge + 1 < now /\ v \notin Protected}

Candidates ==
    {v \in Untagged : FirstObserved(v) + MinimumAge < now /\ v \notin Protected}

(* A manifest that is gone since the inventory cannot be inspected.        *)
InspectManifests == DOMAIN job.inventory \subseteq Present

(* build_plan refuses an empty inventory and an incomplete graph.          *)
Plannable ==
    /\ DOMAIN job.inventory # {}
    /\ InspectManifests
    /\ Complete(graph, DOMAIN job.inventory)

(* The plan is built and uploaded.                                         *)
Plan ==
    /\ job.step = "plan"
    /\ Plannable
    /\ plans' = Append(plans,
         [run |-> job.run, attempt |-> runs[job.run].attempt, time |-> now,
          status |-> ChainStatus, previous |-> Predecessor,
          ids |-> [v \in DOMAIN job.inventory |-> job.inventory[v].id],
          first |-> [v \in Untagged |-> FirstObserved(v)],
          protected |-> Protected, candidates |-> Candidates])
    /\ job' = [job EXCEPT !.step = "preview"]
    /\ UNCHANGED <<now, graph, registry, runs, events>>

(* build_deletion_preview refuses a candidate that the plan protects.      *)
Previewable == LET p == plans[Len(plans)] IN p.candidates \cap p.protected = {}

Conclude(conclusion) ==
    /\ runs' = [runs EXCEPT ![job.run].conclusion = conclusion]
    /\ job' = Idle
    /\ UNCHANGED <<now, graph, registry, plans>>

Preview ==
    /\ job.step = "preview" /\ Previewable
    /\ Conclude("success")
    /\ UNCHANGED events

(* A command of the job exits with an error.                               *)
Refuse ==
    /\ ~ ((job.step = "plan" => Plannable) /\ (job.step = "preview" => Previewable))
    /\ Conclude("failure")
    /\ UNCHANGED events

(* A step of the job fails: the registry, an upload, the runner.           *)
Fail ==
    /\ job # Idle
    /\ Disturb
    /\ Conclude("failure")

-------------------------------------------------------------------------------
Next ==
    \/ Tick
    \/ \E v \in Versions : Retag(v) \/ Delete(v)
    \/ \E v \in Versions, tag \in BOOLEAN : Push(v, tag)
    \/ \E main \in BOOLEAN : Trigger(main)
    \/ \E r \in DOMAIN runs : Rerun(r)
    \/ \E i \in DOMAIN plans : PriorEvidence(i)
    \/ NoPriorEvidence \/ PriorEvidenceLost
    \/ Plan \/ Preview \/ Refuse \/ Fail

Spec == Init /\ [][Next]_vars
-------------------------------------------------------------------------------
PlanStatus == {"non_main_source", "missing_prior_evidence",
               "untrusted_or_discontinuous_prior_evidence", "continued"}

(* A plan classifies the untagged part of its inventory.                   *)
PlanOK(p) ==
    /\ p.run \in DOMAIN runs /\ p.attempt \in 1..runs[p.run].attempt
    /\ p.time \in 0..now
    /\ p.status \in PlanStatus
    /\ DOMAIN p.first \subseteq DOMAIN p.ids /\ DOMAIN p.ids \subseteq Versions
    /\ \A v \in DOMAIN p.first : p.first[v] \in 0..p.time
    /\ \A v \in DOMAIN p.ids : p.ids[v] \in Nat
    /\ p.candidates \subseteq DOMAIN p.first

Entry == [present : BOOLEAN, id : Nat, created : 0..now, tagged : BOOLEAN]

Run == [main : BOOLEAN, attempt : 1..(events + 1),
        conclusion : {"running", "success", "failure"}]

(* The job works for a run that is running, on an inventory of its own and *)
(* with a predecessor only on main.                                        *)
JobOK ==
    /\ job.step \in {"idle", "snapshot", "plan", "preview"}
    /\ job.run \in 0..Len(runs) /\ (job.run = 0 <=> job.step = "idle")
    /\ DOMAIN job.inventory \subseteq Versions
    /\ \A v \in DOMAIN job.inventory : job.inventory[v] \in Entry
    /\ job.prior \in 0..Len(plans)
    /\ job.prior # 0 => job.run # 0 /\ runs[job.run].main
    /\ job.step = "preview" => plans # <<>>
    /\ \A r \in DOMAIN runs : runs[r].conclusion = "running" <=> r = job.run

(* The state of a retention workflow: a log of well-formed plans and at    *)
(* most one job.                                                           *)
TypeOK ==
    /\ now \in 0..MaxTime
    /\ graph \in Graphs
    /\ registry \in [Versions -> Entry]
    /\ runs \in Seq(Run) /\ Len(runs) <= MaxRuns
    /\ \A i \in DOMAIN plans : PlanOK(plans[i]) /\ plans[i].previous \in 0..(i - 1)
    /\ JobOK
    /\ events \in 0..MaxEvents

-------------------------------------------------------------------------------
(* Plan a saw version v of plan i, by its id, without tags.                *)
SawUntagged(a, i, v) ==
    v \in DOMAIN plans[a].first /\ plans[a].ids[v] = plans[i].ids[v]

OnMain(a) == plans[a].status # "non_main_source"

(* S are plans on main up to plan i that saw v untagged, none of them more *)
(* than the maximum gap before the next.                                   *)
Watch(S, i, v) ==
    /\ i \in S
    /\ \A a \in S : OnMain(a) /\ SawUntagged(a, i, v)
    /\ \A a \in S \ {i} : \E b \in S :
          /\ plans[a].time < plans[b].time
          /\ plans[b].time - plans[a].time <= MaximumGap

(* Decision 0008: a candidate was seen without tags, as the same package   *)
(* version, by plans on main that lie no further apart than the allowed    *)
(* gap and reach back beyond the age floor - whatever runs failed, were    *)
(* run again, or came from other branches in between.                      *)
CandidateWasWatched ==
    \A i \in DOMAIN plans : \A v \in plans[i].candidates :
       \E S \in SUBSET (1..i) :
          /\ Watch(S, i, v)
          /\ \E a \in S : plans[a].time + MinimumAge < plans[i].time

(* The converse: evidence is not lost.  A version that nothing holds and   *)
(* that a line of plans, each continuing the one before, saw untagged for  *)
(* longer than the floor is a candidate of the last of them.               *)
WatchedIsCandidate ==
    \A i \in DOMAIN plans : \A v \in DOMAIN plans[i].first \ plans[i].protected :
       (\E S \in SUBSET (1..i) :
          /\ i \in S
          /\ \A a \in S : SawUntagged(a, i, v)
          /\ \E o \in S : /\ \A a \in S \ {o} : plans[a].previous \in S
                          /\ plans[o].time + MinimumAge < plans[i].time)
       => v \in plans[i].candidates

(* A plan protects exactly what a tagged version holds, through indexes,   *)
(* attachments and indexes that wrap attachments in any order.             *)
ProtectedIsHeld ==
    \A i \in DOMAIN plans :
       LET inventory == DOMAIN plans[i].ids
           held == Held(graph, inventory, inventory \ DOMAIN plans[i].first)
       IN  plans[i].protected = held /\ plans[i].candidates \cap held = {}

(* Plans that a later run can select: the last attempt of a run on main    *)
(* that succeeded.                                                         *)
Selectable == {i \in DOMAIN plans : /\ plans[i].run \in Successful
                                   /\ plans[i].attempt = runs[plans[i].run].attempt}

(* The observations that count form one line: however runs fail and are    *)
(* run again, no two plans that can be selected continue the same plan.    *)
ChainNeverForks ==
    \A i, j \in Selectable :
       i # j /\ plans[i].previous # 0 => plans[i].previous # plans[j].previous
===============================================================================
