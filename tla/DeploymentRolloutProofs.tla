------------------------ MODULE DeploymentRolloutProofs ------------------------
(***************************************************************************)
(* RolloutInv is an inductive invariant of the deployment controller, and  *)
(* the safety properties and the refinement follow from it.                *)
(***************************************************************************)
EXTENDS DeploymentControllerProofs

-----------------------------------------------------------------------------
(***************************************************************************)
(* Receipts                                                                *)
(***************************************************************************)
LEMMA CanaryIsRunner == Canary \in Runner /\ \A r \in Runner : r # Canary => Canary \in 1 .. r - 1
  BY FleetAssumption DEF Canary, Runner

\* What a job with receipts has.
LEMMA AtWork ==
  ASSUME RolloutInv, local # NoReceipt
  PROVE  /\ local \in Receipt /\ InOrder(local)
         /\ retained \in Receipt /\ InOrder(retained)
         /\ plan \in Plan /\ evidence \in Evidence
         /\ plan # NoPlan /\ retained # NoReceipt /\ evidence # NoEvidence
  BY DEF RolloutInv, TypeOK, Presence, Receipts

\* A proved host has been touched, and its transition is on the selected
\* release.
LEMMA ProvedTouched ==
  ASSUME NEW rec \in Receipt, InOrder(rec), NEW r \in Runner,
         rec.trans[r].probe = "passed"
  PROVE  /\ rec.trans[r].state \in Applied
         /\ rec.trans[r].state # "absent" /\ rec.trans[r].state # "unknown"
         /\ rec.trans[r].release = plan.selected
         /\ rec.final[r] = plan.selected
  BY DEF InOrder, ValidReceipt, Touched, Applied

\* A revision that repeats the transitions of one in order is in order.
LEMMA SameTransitions ==
  ASSUME NEW rec \in Receipt, InOrder(rec),
         NEW outcome \in Outcome \ {"admitted"},
         Unknowns(rec) = {},
         \A r \in Runner : rec.trans[r].probe \notin {"failed", "timeout"},
         outcome = "succeeded" => \A r \in Runner : Proved(r, rec.trans[r])
  PROVE  InOrder(NextRevision(rec, outcome, rec.trans))
<1> DEFINE new == NextRevision(rec, outcome, rec.trans)
<1>1. new.trans = rec.trans /\ new.outcome = outcome
  BY DEF NextRevision
<1>2. \A r \in Runner : new.final[r] = rec.final[r]
  BY DEF NextRevision, InOrder, ValidReceipt, Touched
<1>3. Touched(new) = Touched(rec) /\ Unknowns(new) = Unknowns(rec)
  BY <1>1 DEF Touched, Unknowns
<1> HIDE DEF new
<1>4. outcome = "succeeded" =>
        \A r \in Runner : rec.trans[r].state # "absent" /\ rec.final[r] = plan.selected
  BY ProvedTouched DEF Proved
<1>5. ValidReceipt(new, plan.selected)
  <2>1. {r \in Runner : new.final[r] = NoRelease} = {r \in Runner : rec.final[r] = NoRelease}
    BY <1>2
  <2>2. Touched(new) \subseteq Runner /\ outcome # "admitted"
    BY DEF Touched
  <2>3. ValidReceipt(rec, plan.selected)
    BY DEF InOrder
  <2> QED BY <1>1, <1>2, <1>3, <1>4, <2>1, <2>2, <2>3 DEF ValidReceipt
<1>6. \A r \in Runner : rec.trans[r].state # "unknown"
  BY DEF Unknowns
<1>7. InOrder(new)
  BY <1>1, <1>2, <1>5, <1>6 DEF InOrder
<1> QED BY <1>7 DEF new

\* So is one that changes the transition of one runner, under the conditions
\* every step of execute_plan meets.
LEMMA OneTransition ==
  ASSUME plan \in Plan, NEW rec \in Receipt, InOrder(rec),
         NEW outcome \in {"in_progress", "failed", "interrupted"},
         NEW r \in Runner, NEW t \in Transition,
         \A q \in Runner \ {r} : /\ rec.trans[q].state # "unknown"
                                 /\ rec.trans[q].probe \notin {"failed", "timeout"},
         \A q \in 1 .. r - 1 : Proved(q, rec.trans[q]),
         \A q \in r + 1 .. N : rec.trans[q].state = "absent",
         t.state # "absent",
         t.state \in Applied => t.release = plan.selected,
         t.state = "unknown" => /\ t = Unknown
                                /\ outcome \in {"failed", "interrupted"},
         t.probe \in {"failed", "timeout"} => outcome = "failed",
         ObservationAllowed(r, t)
  PROVE  InOrder(NextRevision(rec, outcome, [rec.trans EXCEPT ![r] = t]))
<1> USE FleetAssumption, ReleaseAssumption
<1> DEFINE new == NextRevision(rec, outcome, [rec.trans EXCEPT ![r] = t])
<1>0. rec.trans \in [Runner -> Transition]
  BY DEF Receipt
<1>1. /\ new.outcome = outcome
      /\ new.trans[r] = t /\ new.final[r] = t.release
      /\ \A q \in Runner \ {r} : /\ new.trans[q] = rec.trans[q]
                                 /\ new.final[q] = rec.final[q]
  <2>1. \A q \in Runner \ {r} : rec.trans[q].state # "absent" => rec.final[q] = rec.trans[q].release
    BY DEF InOrder, ValidReceipt, Touched
  <2> QED BY <1>0, <2>1 DEF NextRevision
<1> HIDE DEF new
<1>2. t.state \in Applied \/ t = Unknown
  BY DEF Transition
<1>3. t.release = NoRelease <=> t.state = "unknown"
  BY <1>2 DEF Plan, Unknown, Absent, Applied
<1>4. Canary \in Touched(new)
  <2>1. CASE r = Canary
    BY <1>1, <2>1, CanaryIsRunner DEF Touched
  <2>2. CASE r # Canary
    <3>1. Proved(Canary, rec.trans[Canary])
      BY <2>2, CanaryIsRunner
    <3>2. rec.trans[Canary].state # "absent"
      BY <3>1, ProvedTouched, CanaryIsRunner DEF Proved
    <3> QED BY <1>1, <2>2, <3>2, CanaryIsRunner DEF Touched
  <2> QED BY <2>1, <2>2
<1>5. \A q \in Runner :
        /\ q \in Touched(new) =>
             /\ (new.trans[q].release = NoRelease) <=> (new.trans[q].state = "unknown")
             /\ ObservationAllowed(q, new.trans[q])
             /\ new.final[q] = new.trans[q].release
        /\ q \in Unknowns(new) <=> new.final[q] = NoRelease
  <2> TAKE q \in Runner
  <2>1. CASE q = r
    BY <1>1, <1>3, <2>1 DEF Unknowns
  <2>2. CASE q # r
    BY <1>1, <2>2 DEF InOrder, ValidReceipt, Touched, Unknowns
  <2> QED BY <2>1, <2>2
<1>6. ValidReceipt(new, plan.selected)
  BY <1>1, <1>4, <1>5 DEF ValidReceipt, Touched, Unknowns
<1>7. ASSUME NEW q \in Runner
      PROVE  LET u == new.trans[q] IN
             /\ u.state \in Applied => u.release = plan.selected
             /\ u.state \notin Applied => u.probe = "not_run"
             /\ u.state = "absent" => u = Absent /\ new.final[q] = plan.start[q]
             /\ u.state = "unknown" => new.outcome \in {"failed", "interrupted"}
             /\ u.probe \in {"failed", "timeout"} => new.outcome = "failed"
             /\ ~ Proved(q, u) => \A p \in q + 1 .. N : new.trans[p].state = "absent"
  <2>1. CASE q = r
    <3>1. \A p \in r + 1 .. N : p \in Runner \ {r}
      BY DEF Runner
    <3> QED BY <1>1, <1>2, <2>1, <3>1 DEF Unknown, Absent, Applied
  <2>2. CASE q # r
    <3>1. q \in 1 .. r - 1 => Proved(q, new.trans[q])
      BY <1>1, <2>2
    <3>2. q \notin 1 .. r - 1 => q \in r + 1 .. N /\ \A p \in q + 1 .. N : p \in r + 1 .. N /\ p \in Runner \ {r}
      BY <2>2 DEF Runner
    <3>3. ~ Proved(q, new.trans[q]) => \A p \in q + 1 .. N : new.trans[p].state = "absent"
      BY <1>1, <3>1, <3>2
    <3> QED BY <1>1, <2>2, <3>3 DEF InOrder
  <2> QED BY <2>1, <2>2
<1>8. InOrder(new)
  BY <1>6, <1>7 DEF InOrder
<1> QED BY <1>8 DEF new

\* InOrder speaks of the plan only.
LEMMA OrderKept ==
  ASSUME NEW rec, plan' = plan, InOrder(rec)
  PROVE  InOrder(rec)'
  BY DEF InOrder, ValidReceipt

\* Both receipts, after a step that leaves the plan alone.
LEMMA ReceiptsOrdered ==
  ASSUME \A rec \in Receipts : InOrder(rec), plan' = plan,
         retained' \in {retained, local},
         local' \in {local, retained, NoReceipt} \/ InOrder(local')
  PROVE  (\A rec \in Receipts : InOrder(rec))'
<1> SUFFICES ASSUME NEW rec \in Receipts' PROVE InOrder(rec)'
  OBVIOUS
<1>1. InOrder(rec)
  BY DEF Receipts
<1> QED BY <1>1, OrderKept

-----------------------------------------------------------------------------
(***************************************************************************)
(* The steps of execute_plan                                               *)
(***************************************************************************)
\* A revision the preflight accepts is written.
LEMMA Written ==
  ASSUME NEW outcome, NEW trans, NEW next, Record(outcome, trans, next),
         InOrder(NextRevision(local, outcome, trans))
  PROVE  local' = NextRevision(local, outcome, trans) /\ pc' = next
  BY DEF Record, InOrder

\* What surrounds the runner a command works on.
LEMMA AroundTarget ==
  ASSUME RolloutInv, Working, ~ Proved(target, local.trans[target])
  PROVE  /\ target \in Runner
         /\ \A q \in 1 .. target - 1 : Proved(q, local.trans[q]) /\ q \in proven
         /\ \A q \in target + 1 .. N : /\ local.trans[q] = Absent
                                       /\ local.final[q] = plan.start[q]
                                       /\ live[q] = plan.start[q]
                                       /\ evidence.fleet[q] = plan.start[q]
         /\ \A q \in Runner \ {target} :
              /\ q \in 1 .. target - 1 \/ q \in target + 1 .. N
              /\ local.trans[q].state # "unknown"
              /\ local.trans[q].probe \notin {"failed", "timeout"}
<1> USE FleetAssumption
<1>1. local # NoReceipt
  BY DEF RolloutInv, Presence
<1>2. target \in Runner
  BY DEF RolloutInv, TypeOK
<1>3. \A q \in 1 .. target - 1 : q \in Runner /\ Proved(q, local.trans[q])
  BY <1>2 DEF RolloutInv, WorksInOrder, Runner
<1>4. \A q \in target + 1 .. N : q \in Runner
  BY <1>2 DEF Runner
<1>5. \A q \in 1 .. target - 1 : q \in proven
  BY <1>1, <1>3 DEF RolloutInv, ProvenRecorded, Receipts, Proved
<1>6. \A q \in target + 1 .. N : /\ local.trans[q] = Absent
                                 /\ local.final[q] = plan.start[q]
  BY <1>1, <1>2, <1>4, AtWork DEF InOrder
<1>7. \A q \in target + 1 .. N : /\ live[q] = plan.start[q]
                                 /\ evidence.fleet[q] = plan.start[q]
  BY <1>1, <1>2 DEF RolloutInv, LocalTruth
<1>8. \A q \in Runner \ {target} : q \in 1 .. target - 1 \/ q \in target + 1 .. N
  BY <1>2 DEF Runner
<1>9. \A q \in 1 .. target - 1 : /\ local.trans[q].state # "unknown"
                                 /\ local.trans[q].probe \notin {"failed", "timeout"}
  BY <1>1, <1>3, AtWork, ProvedTouched DEF Proved
<1>10. \A q \in target + 1 .. N : /\ local.trans[q].state # "unknown"
                                  /\ local.trans[q].probe \notin {"failed", "timeout"}
  BY <1>6 DEF Absent
<1> QED BY <1>2, <1>3, <1>5, <1>6, <1>7, <1>8, <1>9, <1>10

\* A command that records a transition of its target: the revision is in
\* order, so the preflight accepts it.
LEMMA TransitionStep ==
  ASSUME RolloutInv, Working, ~ Proved(target, local.trans[target]),
         NEW outcome \in {"in_progress", "failed", "interrupted"},
         NEW t \in Transition, NEW next,
         Record(outcome, [local.trans EXCEPT ![target] = t], next),
         t.state # "absent",
         t.state \in Applied => t.release = plan.selected,
         t.state = "unknown" => t = Unknown /\ outcome \in {"failed", "interrupted"},
         t.probe \in {"failed", "timeout"} => outcome = "failed",
         ObservationAllowed(target, t),
         UNCHANGED <<plan, retained>>
  PROVE  /\ local' \in Receipt /\ local' # NoReceipt
         /\ local'.outcome = outcome /\ pc' = next
         /\ local'.trans[target] = t
         /\ \A q \in Runner \ {target} : local'.trans[q] = local.trans[q]
         /\ \A q \in 1 .. target - 1 : /\ q \in Runner \ {target}
                                       /\ Proved(q, local'.trans[q])
         /\ (\A rec \in Receipts : InOrder(rec))'
<1> DEFINE rec == NextRevision(local, outcome, [local.trans EXCEPT ![target] = t])
<1>1. local # NoReceipt
  BY DEF RolloutInv, Presence
<1>2. local.trans \in [Runner -> Transition]
  BY <1>1, AtWork DEF Receipt
<1>3. /\ \A q \in 1 .. target - 1 : Proved(q, local.trans[q])
      /\ \A q \in target + 1 .. N : local.trans[q].state = "absent"
  BY AroundTarget DEF Absent
<1>4. InOrder(rec)
  BY <1>1, <1>3, AtWork, AroundTarget, OneTransition
<1>5. local' = rec /\ pc' = next
  BY <1>4, Written
<1>6. rec \in Receipt
  BY <1>1, <1>2, <1>5, AtWork, RecordTyped DEF Outcome
<1>7. /\ rec.outcome = outcome /\ rec.trans[target] = t
      /\ \A q \in Runner \ {target} : rec.trans[q] = local.trans[q]
  BY <1>2, AroundTarget DEF NextRevision
<1> HIDE DEF rec
<1>8. \A q \in 1 .. target - 1 : q \in Runner \ {target}
  BY AroundTarget, FleetAssumption DEF Runner
<1>9. (\A r \in Receipts : InOrder(r))'
  BY <1>4, <1>5, ReceiptsOrdered DEF RolloutInv
<1> QED
  BY <1>3, <1>5, <1>6, <1>7, <1>8, <1>9, AbsenceAssumption

\* The host is moved and verified.
LEMMA UpdateVerifiedStep ==
  ASSUME RolloutInv, TypedInv', UpdateVerified
  PROVE  RolloutInv'
<1> DEFINE how == IF plan.action = "rollback" THEN "restored" ELSE "updated"
           new == Moved(target, how, plan.selected)
<1>1. /\ Working /\ Updating /\ pc = "verify" /\ local # NoReceipt
      /\ UNCHANGED <<live, proven, soaked, plan, retained, evidence, target>>
  BY DEF UpdateVerified, Working, Updating, RolloutInv, Presence, hostVars, historyVars
<1>2. local.trans[target] = Absent
  BY <1>1, AtWork DEF RolloutInv, WorksInOrder, InOrder, TypeOK
<1>3. ~ Proved(target, local.trans[target])
  BY <1>2 DEF Absent, Proved
<1>4. new \in Transition
  BY <1>1, AtWork, MovedTyped DEF Plan, Applied
<1>5. /\ new.state \in Applied /\ new.release = plan.selected /\ new.probe = "not_run"
      /\ new.state # "absent" /\ new.state # "unknown"
      /\ new.observation # "passed" /\ ObservationAllowed(target, new)
  BY DEF Moved, Applied, ObservationAllowed
<1>6. Record("in_progress", [local.trans EXCEPT ![target] = new], "probe")
  BY DEF UpdateVerified
<1> HIDE DEF new
<1>7. /\ local' # NoReceipt /\ local'.outcome = "in_progress" /\ pc' = "probe"
      /\ local'.trans[target] = new
      /\ \A q \in Runner \ {target} : local'.trans[q] = local.trans[q]
      /\ \A q \in 1 .. target - 1 : /\ q \in Runner \ {target}
                                    /\ Proved(q, local'.trans[q])
      /\ (\A rec \in Receipts : InOrder(rec))'
  BY <1>1, <1>3, <1>4, <1>5, <1>6, TransitionStep
<1>8. SoakedFirst'
  BY <1>1, <1>5, <1>7, CanaryIsRunner DEF RolloutInv, SoakedFirst, Receipts, Updating, Proving
<1>9. PlanShape'
  BY <1>1 DEF RolloutInv, PlanShape
<1>10. LocalTruth'
  BY <1>1, <1>3, <1>5, <1>7, AroundTarget DEF RolloutInv, LocalTruth, WorksInOrder, Proved
<1>11. WorksInOrder'
  <2>1. Unknowns(local') = {}
    BY <1>1, <1>3, <1>5, <1>7, AroundTarget DEF Unknowns
  <2> QED
    BY <1>1, <1>5, <1>7, <2>1 DEF WorksInOrder, Working, Updating, Proving, Unknowns
<1>12. ProvenRecorded'
  BY <1>1, <1>2, <1>5, <1>7 DEF RolloutInv, ProvenRecorded, Receipts, WorksInOrder, Absent
<1>13. BlastRadius'
  BY <1>1 DEF RolloutInv, BlastRadius
<1> QED
  BY <1>7, <1>8, <1>9, <1>10, <1>11, <1>12, <1>13 DEF RolloutInv, TypedInv

\* A step that moves or probes the target leaves at most that one unproven.
LEMMA OnlyTarget ==
  ASSUME RolloutInv, Working, ~ Proved(target, local.trans[target]), plan' = plan,
         \A q \in Runner \ {target} : /\ live'[q] = live[q]
                                      /\ q \in proven => q \in proven'
  PROVE  BlastRadius'
<1>1. \A q \in Runner \ {target} : q \in proven' \/ live'[q] = plan.start[q]
  BY AroundTarget
<1> QED BY <1>1 DEF BlastRadius

\* The update of the target ends without evidence: the receipt says so.
LEMMA LoseTargetStep ==
  ASSUME RolloutInv, TypedInv', Updating,
         NEW outcome \in {"failed", "interrupted"}, LoseTarget(outcome),
         UNCHANGED <<plan, retained, evidence, target, proven, soaked>>,
         \/ live' = live
         \/ pc = "draining" /\ live' = [live EXCEPT ![target] = plan.selected]
  PROVE  RolloutInv'
<1>1. Working /\ local # NoReceipt
  BY DEF Updating, Working, RolloutInv, Presence
<1>2. local.trans[target] = Absent /\ target \in Runner
  BY <1>1, AtWork DEF RolloutInv, WorksInOrder, InOrder, TypeOK
<1>3. ~ Proved(target, local.trans[target])
  BY <1>2 DEF Absent, Proved
<1>4. /\ Unknown.state = "unknown" /\ Unknown.probe = "not_run"
      /\ Unknown.observation = "not_required"
      /\ Unknown.state \notin Applied /\ ObservationAllowed(target, Unknown)
  BY DEF Unknown, Absent, Applied, ObservationAllowed
<1>5. /\ local' # NoReceipt /\ local'.outcome = outcome /\ pc' = "idle"
      /\ local'.trans[target] = Unknown
      /\ \A q \in Runner \ {target} : local'.trans[q] = local.trans[q]
      /\ (\A rec \in Receipts : InOrder(rec))'
  BY <1>1, <1>3, <1>4, AbsentTyped, TransitionStep DEF LoseTarget
<1>6. live \in [Runner -> Releases]
  BY DEF RolloutInv, TypeOK
<1>7. /\ \A q \in Runner \ {target} : live'[q] = live[q]
      /\ live'[target] \in {live[target], plan.selected}
  BY <1>2, <1>6
<1>8. SoakedFirst'
  BY <1>4, <1>5, <1>7, CanaryIsRunner
  DEF RolloutInv, SoakedFirst, Receipts, Updating, Proving
<1>9. PlanShape'
  BY <1>7 DEF RolloutInv, PlanShape
<1>10. LocalTruth'
  <2>1. \A q \in target + 1 .. N : q \in Runner \ {target}
    BY <1>2, FleetAssumption DEF Runner
  <2>2. \A r \in Runner : \A q \in r + 1 .. N :
          q = target => r \in 1 .. target - 1
    BY <1>2, FleetAssumption DEF Runner
  <2>3. \A r \in 1 .. target - 1 : Proved(r, local.trans[r]) /\ r \in Runner \ {target}
    BY <1>1, <1>2, <1>3, AroundTarget, FleetAssumption DEF Runner
  <2>4. \A r \in Runner : \A q \in r + 1 .. N : q \in Runner
    BY <1>2, FleetAssumption DEF Runner
  <2> QED
    BY <1>1, <1>3, <1>4, <1>5, <1>7, <2>1, <2>2, <2>3, <2>4
    DEF RolloutInv, LocalTruth
<1>11. WorksInOrder'
  BY <1>5 DEF WorksInOrder, Working, Updating, Proving
<1>12. target \in proven => live' = live /\ live[target] = plan.start[target]
  BY <1>1, <1>2 DEF Updating, RolloutInv, WorksInOrder, ProvenRecorded, Absent
<1>13. ProvenRecorded'
  BY <1>1, <1>2, <1>4, <1>5, <1>7, <1>12 DEF RolloutInv, ProvenRecorded, Receipts, Absent
<1>14. BlastRadius'
  BY <1>1, <1>3, <1>7, OnlyTarget
<1> QED
  BY <1>5, <1>8, <1>9, <1>10, <1>11, <1>13, <1>14 DEF RolloutInv, TypedInv

LEMMA ProbePassesStep ==
  ASSUME RolloutInv, TypedInv', ProbePasses
  PROVE  RolloutInv'
<1> DEFINE t == [local.trans[target] EXCEPT !.probe = "passed"]
           trans == [local.trans EXCEPT ![target] = t]
           next == IF target = Canary THEN "observe" ELSE AfterHost(trans)
<1>1. /\ Working /\ Proving /\ pc = "probe" /\ local # NoReceipt
      /\ UNCHANGED <<live, soaked, plan, retained, evidence, target>>
      /\ proven' = proven \cup {target}
  BY DEF ProbePasses, Working, Proving, RolloutInv, Presence, hostVars
<1>2. /\ local.trans \in [Runner -> Transition] /\ target \in Runner
      /\ local.trans[target] \in Transition
      /\ local.trans[target].state \in Applied /\ local.trans[target].probe = "not_run"
      /\ local.trans[target].release = plan.selected
      /\ local.trans[target].observation =
           IF target = Canary THEN "pending" ELSE "not_required"
  <2>1. /\ local.trans \in [Runner -> Transition] /\ target \in Runner
        /\ local.trans[target].state \in Applied /\ local.trans[target].probe = "not_run"
    BY <1>1, AtWork DEF RolloutInv, WorksInOrder, TypeOK, Receipt
  <2>2. local.trans[target].state # "absent" /\ local.trans[target].state # "unknown"
    BY <2>1 DEF Applied
  <2>3. InOrder(local) /\ ValidReceipt(local, plan.selected)
    BY <1>1, AtWork DEF InOrder
  <2>4. local.trans[target].release = plan.selected
    BY <2>1, <2>3 DEF InOrder
  <2>5. ObservationAllowed(target, local.trans[target])
    BY <2>1, <2>2, <2>3 DEF ValidReceipt, Touched
  <2> QED BY <2>1, <2>2, <2>4, <2>5 DEF ObservationAllowed
<1>3. ~ Proved(target, local.trans[target])
  BY <1>2 DEF Proved
<1>4. /\ t \in Transition /\ t.state \in Applied /\ t.state # "absent" /\ t.state # "unknown"
      /\ t.release = plan.selected /\ t.probe = "passed"
      /\ t.observation = IF target = Canary THEN "pending" ELSE "not_required"
  BY <1>2 DEF Transition, Applied
<1>5. ObservationAllowed(target, t)
  BY <1>4 DEF ObservationAllowed
<1>6. Record("in_progress", trans, next)
  BY DEF ProbePasses
<1>7. next \in {"observe", "finish", "idle"} /\ (next = "observe" <=> target = Canary)
  BY DEF AfterHost
<1>8. next = "finish" => \A q \in Runner : Proved(q, trans[q])
  BY DEF AfterHost, Remaining
<1> HIDE DEF t, next
<1>9. /\ local' # NoReceipt /\ local'.outcome = "in_progress" /\ pc' = next
      /\ local'.trans[target] = t
      /\ \A q \in Runner \ {target} : local'.trans[q] = local.trans[q]
      /\ \A q \in 1 .. target - 1 : /\ q \in Runner \ {target}
                                    /\ Proved(q, local'.trans[q])
      /\ (\A rec \in Receipts : InOrder(rec))'
  BY <1>1, <1>3, <1>4, <1>5, <1>6, TransitionStep
<1>10. \A q \in Runner : local'.trans[q] = trans[q]
  BY <1>2, <1>9
<1> HIDE DEF trans
<1>11. SoakedFirst'
  BY <1>1, <1>2, <1>4, <1>7, <1>9, CanaryIsRunner
  DEF RolloutInv, SoakedFirst, Receipts, Updating, Proving
<1>12. PlanShape'
  BY <1>1 DEF RolloutInv, PlanShape
<1>13. LocalTruth'
  BY <1>1, <1>2, <1>3, <1>9 DEF RolloutInv, LocalTruth
<1>14. WorksInOrder'
  <2>1. Unknowns(local') = {}
    BY <1>1, <1>3, <1>4, <1>9, AroundTarget DEF Unknowns
  <2>2. pc' = "observe" => ObservationPending(target)'
    BY <1>1, <1>4, <1>7, <1>9 DEF ObservationPending
  <2>3. pc' = "finish" => \A q \in Runner : Proved(q, local'.trans[q])
    BY <1>8, <1>9, <1>10
  <2> QED
    BY <1>1, <1>7, <1>9, <2>1, <2>2, <2>3 DEF WorksInOrder, Working, Updating, Proving
<1>15. ProvenRecorded'
  BY <1>1, <1>2, <1>4, <1>9 DEF RolloutInv, ProvenRecorded, Receipts
<1>16. BlastRadius'
  BY <1>1, <1>3, OnlyTarget
<1> QED
  BY <1>9, <1>11, <1>12, <1>13, <1>14, <1>15, <1>16 DEF RolloutInv, TypedInv

LEMMA ProbeFailsStep ==
  ASSUME RolloutInv, TypedInv', ProbeFails
  PROVE  RolloutInv'
<1>1. /\ Working /\ Proving /\ pc = "probe" /\ local # NoReceipt
      /\ UNCHANGED <<live, soaked, plan, retained, evidence, target>>
      /\ proven' = proven \ {target}
  BY DEF ProbeFails, Working, Proving, RolloutInv, Presence, hostVars
<1>2. PICK result \in {"failed", "timeout"} :
        Record("failed",
               [local.trans EXCEPT ![target] =
                  [@ EXCEPT !.probe = result, !.observation = "not_required"]],
               "idle")
  BY DEF ProbeFails
<1> DEFINE t == [local.trans[target] EXCEPT !.probe = result,
                                            !.observation = "not_required"]
<1>3. /\ local.trans \in [Runner -> Transition] /\ target \in Runner
      /\ local.trans[target] \in Transition
      /\ local.trans[target].state \in Applied /\ local.trans[target].probe = "not_run"
      /\ local.trans[target].release = plan.selected
  BY <1>1, AtWork DEF RolloutInv, WorksInOrder, TypeOK, Receipt, InOrder
<1>4. ~ Proved(target, local.trans[target])
  BY <1>3 DEF Proved
<1>5. /\ t \in Transition /\ t.state \in Applied /\ t.state # "absent" /\ t.state # "unknown"
      /\ t.release = plan.selected /\ t.probe = result /\ t.observation = "not_required"
  BY <1>2, <1>3 DEF Transition, Applied
<1>6. ObservationAllowed(target, t)
  BY <1>2, <1>5 DEF ObservationAllowed
<1>7. Record("failed", [local.trans EXCEPT ![target] = t], "idle")
  BY <1>2, <1>3
<1> HIDE DEF t
<1>8. /\ local' # NoReceipt /\ local'.outcome = "failed" /\ pc' = "idle"
      /\ local'.trans[target] = t
      /\ \A q \in Runner \ {target} : local'.trans[q] = local.trans[q]
      /\ (\A rec \in Receipts : InOrder(rec))'
  BY <1>1, <1>4, <1>5, <1>6, <1>7, TransitionStep
<1>9. SoakedFirst'
  BY <1>1, <1>5, <1>8, CanaryIsRunner
  DEF RolloutInv, SoakedFirst, Receipts, Updating, Proving
<1>10. PlanShape'
  BY <1>1 DEF RolloutInv, PlanShape
<1>11. LocalTruth'
  BY <1>1, <1>3, <1>4, <1>8 DEF RolloutInv, LocalTruth
<1>12. WorksInOrder'
  BY <1>8 DEF WorksInOrder, Working, Updating, Proving
<1>13. ProvenRecorded'
  BY <1>1, <1>2, <1>3, <1>5, <1>8 DEF RolloutInv, ProvenRecorded, Receipts
<1>14. BlastRadius'
  BY <1>1, <1>4, OnlyTarget
<1> QED
  BY <1>8, <1>9, <1>10, <1>11, <1>12, <1>13, <1>14 DEF RolloutInv, TypedInv

\* Only the canary is observed.
LEMMA ObservationEndsStep ==
  ASSUME RolloutInv, TypedInv', ObservationEnds
  PROVE  RolloutInv'
<1> DEFINE t == [local.trans[target] EXCEPT !.observation = "passed"]
           trans == [local.trans EXCEPT ![target] = t]
           next == AfterHost(trans)
<1>1. /\ Working /\ pc = "observe" /\ local # NoReceipt
      /\ UNCHANGED <<live, proven, plan, retained, evidence, target>>
      /\ soaked' = TRUE
  BY DEF ObservationEnds, Working, RolloutInv, Presence, hostVars
<1>2. /\ local.trans \in [Runner -> Transition] /\ target = Canary
      /\ local.trans[target] \in Transition
      /\ local.trans[target].state \in Applied /\ local.trans[target].probe = "passed"
      /\ local.trans[target].release = plan.selected
      /\ local.trans[target].observation = "pending"
  <2>1. /\ local.trans \in [Runner -> Transition] /\ target \in Runner
        /\ local.trans[target].probe = "passed" /\ local.trans[target].observation = "pending"
    BY <1>1, AtWork DEF RolloutInv, WorksInOrder, TypeOK, Receipt, ObservationPending
  <2>2. /\ local.trans[target].state \in Applied /\ local.trans[target].release = plan.selected
        /\ target \in Touched(local)
    BY <1>1, <2>1, AtWork, ProvedTouched DEF Touched
  <2>3. ObservationAllowed(target, local.trans[target])
    BY <1>1, <2>2, AtWork DEF InOrder, ValidReceipt
  <2> QED BY <2>1, <2>2, <2>3 DEF ObservationAllowed
<1>3. ~ Proved(target, local.trans[target]) /\ target \in Runner
  BY <1>2, CanaryIsRunner DEF Proved
<1>4. /\ t \in Transition /\ t.state \in Applied /\ t.state # "absent" /\ t.state # "unknown"
      /\ t.release = plan.selected /\ t.probe = "passed" /\ t.observation = "passed"
  BY <1>2 DEF Transition, Applied
<1>5. ObservationAllowed(target, t)
  BY <1>2, <1>4 DEF ObservationAllowed
<1>6. Record("in_progress", trans, next)
  BY DEF ObservationEnds
<1>7. next \in {"finish", "idle"}
  BY DEF AfterHost
<1>8. next = "finish" => \A q \in Runner : Proved(q, trans[q])
  BY DEF AfterHost, Remaining
<1> HIDE DEF t, next
<1>9. /\ local' # NoReceipt /\ local'.outcome = "in_progress" /\ pc' = next
      /\ local'.trans[target] = t
      /\ \A q \in Runner \ {target} : local'.trans[q] = local.trans[q]
      /\ \A q \in 1 .. target - 1 : /\ q \in Runner \ {target}
                                    /\ Proved(q, local'.trans[q])
      /\ (\A rec \in Receipts : InOrder(rec))'
  BY <1>1, <1>3, <1>4, <1>5, <1>6, TransitionStep
<1>10. \A q \in Runner : local'.trans[q] = trans[q]
  BY <1>2, <1>3, <1>9
<1> HIDE DEF trans
<1>11. SoakedFirst'
  BY <1>1, <1>7, <1>9 DEF RolloutInv, SoakedFirst, Updating, Proving
<1>12. PlanShape'
  BY <1>1 DEF RolloutInv, PlanShape
<1>13. LocalTruth'
  BY <1>1, <1>2, <1>3, <1>9 DEF RolloutInv, LocalTruth
<1>14. WorksInOrder'
  <2>1. Unknowns(local') = {}
    BY <1>1, <1>3, <1>4, <1>9, AroundTarget DEF Unknowns
  <2>2. pc' = "finish" => \A q \in Runner : Proved(q, local'.trans[q])
    BY <1>8, <1>9, <1>10
  <2> QED
    BY <1>1, <1>7, <1>9, <2>1, <2>2 DEF WorksInOrder, Working, Updating, Proving
<1>15. ProvenRecorded'
  BY <1>1, <1>2, <1>4, <1>9 DEF RolloutInv, ProvenRecorded, Receipts
<1>16. BlastRadius'
  BY <1>1, <1>3, OnlyTarget
<1> QED
  BY <1>9, <1>11, <1>12, <1>13, <1>14, <1>15, <1>16 DEF RolloutInv, TypedInv

\* A command stops, or finishes, without another transition.
LEMMA SameTransitionsStep ==
  ASSUME RolloutInv, TypedInv', Working,
         NEW outcome \in {"failed", "interrupted", "succeeded"},
         Record(outcome, local.trans, "idle"),
         outcome = "succeeded" => \A q \in Runner : Proved(q, local.trans[q]),
         UNCHANGED <<live, plan, retained, evidence, target, proven, soaked>>
  PROVE  RolloutInv'
<1>1. local # NoReceipt
  BY DEF RolloutInv, Presence
<1>2. /\ Unknowns(local) = {}
      /\ \A r \in Runner : local.trans[r].probe \notin {"failed", "timeout"}
  BY <1>1, AtWork DEF RolloutInv, WorksInOrder, InOrder
<1>3. InOrder(NextRevision(local, outcome, local.trans))
  BY <1>1, <1>2, AtWork, SameTransitions DEF Outcome
<1>4. local' = NextRevision(local, outcome, local.trans) /\ pc' = "idle"
  BY <1>3, Written
<1>5. local'.trans = local.trans /\ local' # NoReceipt
  BY <1>1, <1>4, AtWork, RecordTyped, AbsenceAssumption DEF NextRevision, Outcome, Receipt
<1>6. (\A rec \in Receipts : InOrder(rec))'
  BY <1>3, <1>4, ReceiptsOrdered DEF RolloutInv
<1>7. SoakedFirst'
  BY <1>1, <1>4, <1>5 DEF RolloutInv, SoakedFirst, Receipts, Updating, Proving
<1>8. PlanShape'
  BY DEF RolloutInv, PlanShape
<1>9. LocalTruth'
  BY <1>1, <1>5 DEF RolloutInv, LocalTruth
<1>10. WorksInOrder'
  BY <1>4 DEF WorksInOrder, Working, Updating, Proving
<1>11. ProvenRecorded'
  BY <1>1, <1>5 DEF RolloutInv, ProvenRecorded, Receipts
<1>12. BlastRadius'
  BY DEF RolloutInv, BlastRadius
<1> QED
  BY <1>6, <1>7, <1>8, <1>9, <1>10, <1>11, <1>12 DEF RolloutInv, TypedInv

LEMMA UpdateStartsStep ==
  ASSUME RolloutInv, TypedInv', UpdateStarts
  PROVE  RolloutInv'
<1>1. /\ Working /\ Updating /\ local # NoReceipt
      /\ UNCHANGED <<live, soaked, plan, local, retained, evidence, target>>
      /\ proven' = proven \ {target} /\ pc' = "draining"
  BY DEF UpdateStarts, Working, Updating, RolloutInv, Presence, recordVars
<1>2. local.trans[target] = Absent /\ target \in Runner
  BY <1>1, AtWork DEF RolloutInv, WorksInOrder, InOrder, TypeOK
<1>3. ~ Proved(target, local.trans[target])
  BY <1>2 DEF Absent, Proved
<1>4. local.trans[target].probe # "passed" /\ retained.trans[target].probe # "passed"
  BY <1>1, <1>2 DEF Absent, RolloutInv, ProvenRecorded
<1>5. SoakedFirst'
  BY <1>1 DEF RolloutInv, SoakedFirst, Receipts, Updating, Proving
<1>6. PlanShape'
  BY <1>1 DEF RolloutInv, PlanShape
<1>7. (\A rec \in Receipts : InOrder(rec))'
  BY <1>1, ReceiptsOrdered DEF RolloutInv
<1>8. LocalTruth'
  BY <1>1 DEF RolloutInv, LocalTruth
<1>9. WorksInOrder'
  BY <1>1 DEF RolloutInv, WorksInOrder, Working, Updating, Proving
<1>10. ProvenRecorded'
  BY <1>1, <1>4 DEF RolloutInv, ProvenRecorded, Receipts
<1>11. BlastRadius'
  BY <1>1, <1>3, OnlyTarget
<1> QED
  BY <1>5, <1>6, <1>7, <1>8, <1>9, <1>10, <1>11 DEF RolloutInv, TypedInv

LEMMA UpdateReturnsStep ==
  ASSUME RolloutInv, TypedInv', UpdateReturns
  PROVE  RolloutInv'
<1>1. /\ Working /\ Updating /\ pc = "draining" /\ local # NoReceipt
      /\ UNCHANGED <<soaked, plan, local, retained, evidence, target, proven>>
      /\ live' = [live EXCEPT ![target] = plan.selected] /\ pc' = "verify"
  BY DEF UpdateReturns, Working, Updating, RolloutInv, Presence, recordVars, historyVars
<1>2. /\ local.trans[target] = Absent /\ target \in Runner
      /\ live \in [Runner -> Releases] /\ target \notin proven
  BY <1>1, AtWork DEF RolloutInv, WorksInOrder, InOrder, TypeOK
<1>3. ~ Proved(target, local.trans[target])
  BY <1>2 DEF Absent, Proved
<1>4. /\ \A q \in Runner \ {target} : live'[q] = live[q]
      /\ live'[target] = plan.selected
  BY <1>1, <1>2
<1>5. SoakedFirst'
  BY <1>1, <1>4 DEF RolloutInv, SoakedFirst, Receipts, Updating, Proving
<1>6. PlanShape'
  BY <1>1, <1>4 DEF RolloutInv, PlanShape
<1>7. (\A rec \in Receipts : InOrder(rec))'
  BY <1>1, ReceiptsOrdered DEF RolloutInv
<1>8. LocalTruth'
  <2>1. \A r \in Runner : ~ Proved(r, local.trans[r]) =>
          \A q \in r + 1 .. N : q \in Runner \ {target}
    BY <1>1, <1>2, <1>3, AroundTarget, FleetAssumption DEF Runner
  <2> QED
    BY <1>1, <1>4, <2>1 DEF RolloutInv, LocalTruth
<1>9. WorksInOrder'
  BY <1>1, <1>4 DEF RolloutInv, WorksInOrder, Working, Updating, Proving
<1>10. ProvenRecorded'
  BY <1>1, <1>2, <1>4 DEF RolloutInv, ProvenRecorded, Receipts
<1>11. BlastRadius'
  BY <1>1, <1>3, <1>4, OnlyTarget
<1> QED
  BY <1>5, <1>6, <1>7, <1>8, <1>9, <1>10, <1>11 DEF RolloutInv, TypedInv

\* A command picks the first host that is not completed, and what is left to
\* do for it.
LEMMA ExecuteStep ==
  ASSUME RolloutInv, TypedInv', Execute
  PROVE  RolloutInv'
<1>1. /\ local # NoReceipt
      /\ UNCHANGED <<live, soaked, proven, plan, local, retained, evidence>>
      /\ local.outcome \in {"admitted", "in_progress", "interrupted"}
      /\ \A r \in Runner : evidence.fleet[r] = local.final[r]
  BY DEF Execute, MatchesReceipt, hostVars, recordVars, historyVars
<1>2. Unknowns(local) = {}
  <2>1. \A r \in Runner : evidence.fleet[r] # NoRelease
    BY <1>1, AtWork, ReleaseAssumption DEF Evidence
  <2> QED BY <1>1, <2>1, AtWork DEF InOrder, ValidReceipt
<1>3. \A r \in Runner : Completed(r) => Proved(r, local.trans[r])
  BY DEF Completed
<1>4. \A r \in Runner : \A q \in 1 .. r - 1 : q \in Runner
  BY FleetAssumption DEF Runner
<1>5. ASSUME NEW r \in Runner, ~ Completed(r), ~ ObservationPending(r), ~ Pending(r)
      PROVE  local.trans[r].state = "absent"
  <2> SUFFICES ASSUME local.trans[r].state # "absent" PROVE FALSE
    OBVIOUS
  <2>1. local.trans[r] \in Transition /\ local.trans[r].state # "unknown"
    BY <1>1, <1>2, AtWork DEF Receipt, Unknowns
  <2>2. local.trans[r].state \in Applied /\ local.trans[r].release = plan.selected
    BY <1>1, <2>1, AtWork DEF InOrder, Transition
  <2>3. local.trans[r].probe = "passed"
    BY <1>1, <1>5, <2>1, <2>2, AtWork DEF Pending, InOrder, Transition
  <2>4. ObservationAllowed(r, local.trans[r])
    BY <1>1, AtWork DEF InOrder, ValidReceipt, Touched
  <2> QED
    BY <1>5, <2>1, <2>2, <2>3, <2>4 DEF Completed, Proved, ObservationPending, ObservationAllowed
<1>6. /\ target' \in Runner
      /\ \A q \in 1 .. target' - 1 : Proved(q, local.trans[q])
      /\ pc' \in {"finish", "observe", "probe", "capacity"}
      /\ pc' = "finish" => \A q \in Runner : Proved(q, local.trans[q])
      /\ pc' = "observe" => ObservationPending(target')
      /\ pc' = "probe" => Pending(target')
      /\ pc' = "capacity" => local.trans[target'].state = "absent"
  <2>1. CASE \A r \in Runner : Completed(r)
    BY <1>3, <1>4, <2>1 DEF Execute, RolloutInv, TypeOK
  <2>2. CASE ~ \A r \in Runner : Completed(r)
    <3>1. PICK r \in Runner :
            /\ NextStep(r)
            /\ target' = r
            /\ pc' = IF ObservationPending(r) THEN "observe"
                     ELSE IF Pending(r) THEN "probe" ELSE "capacity"
      BY <2>2 DEF Execute
    <3> QED BY <1>3, <1>4, <1>5, <3>1 DEF NextStep
  <2> QED BY <2>1, <2>2
<1>7. SoakedFirst'
  <2>1. target' # Canary => Proved(Canary, local.trans[Canary])
    BY <1>6, CanaryIsRunner
  <2>2. target' # Canary => soaked
    BY <1>1, <2>1 DEF Proved, RolloutInv, SoakedFirst, Receipts
  <2> QED
    BY <1>1, <2>2 DEF RolloutInv, SoakedFirst, Receipts
<1>8. PlanShape'
  BY <1>1 DEF RolloutInv, PlanShape
<1>9. (\A rec \in Receipts : InOrder(rec))'
  BY <1>1, ReceiptsOrdered DEF RolloutInv
<1>10. LocalTruth'
  BY <1>1 DEF RolloutInv, LocalTruth
<1>11. WorksInOrder'
  <2>1. pc' = "observe" => ObservationPending(target)'
    BY <1>1, <1>6 DEF ObservationPending
  <2> QED
    BY <1>1, <1>2, <1>6, <2>1 DEF WorksInOrder, Working, Updating, Proving, Pending
<1>12. ProvenRecorded'
  BY <1>1 DEF RolloutInv, ProvenRecorded, Receipts
<1>13. BlastRadius'
  BY <1>1 DEF RolloutInv, BlastRadius
<1> QED
  BY <1>7, <1>8, <1>9, <1>10, <1>11, <1>12, <1>13 DEF RolloutInv, TypedInv

-----------------------------------------------------------------------------
(***************************************************************************)
(* The steps between the commands                                          *)
(***************************************************************************)
\* One runner at most is unknown, and it is the first one not proved.
LEMMA OneUnknown ==
  ASSUME NEW rec \in Receipt, InOrder(rec), NEW u \in Unknowns(rec)
  PROVE  /\ u \in Runner /\ rec.trans[u].probe = "not_run"
         /\ \A q \in Runner : \/ q \in 1 .. u - 1 /\ Proved(q, rec.trans[q])
                              \/ q = u
                              \/ q \in u + 1 .. N /\ rec.trans[q] = Absent
<1>1. u \in Runner /\ rec.trans[u].state = "unknown"
  BY DEF Unknowns
<1>2. rec.trans[u].probe = "not_run"
  BY <1>1 DEF InOrder, Applied
<1>3. \A q \in 1 .. u - 1 : q \in Runner /\ u \in q + 1 .. N
  BY <1>1, FleetAssumption DEF Runner
<1>4. \A q \in 1 .. u - 1 : Proved(q, rec.trans[q])
  BY <1>1, <1>3 DEF InOrder
<1>5. \A q \in u + 1 .. N : q \in Runner /\ rec.trans[q] = Absent
  <2>1. ~ Proved(u, rec.trans[u])
    BY <1>2 DEF Proved
  <2>2. \A q \in u + 1 .. N : q \in Runner
    BY <1>1, FleetAssumption DEF Runner
  <2> QED BY <1>1, <2>1, <2>2 DEF InOrder
<1>6. \A q \in Runner : q \in 1 .. u - 1 \/ q = u \/ q \in u + 1 .. N
  BY <1>1, FleetAssumption DEF Runner
<1>7. ASSUME NEW q \in Runner
      PROVE  \/ q \in 1 .. u - 1 /\ Proved(q, rec.trans[q])
             \/ q = u
             \/ q \in u + 1 .. N /\ rec.trans[q] = Absent
  BY <1>4, <1>5, <1>6
<1> QED BY <1>1, <1>2, <1>7

LEMMA ReconcileStep ==
  ASSUME RolloutInv, TypedInv', Reconcile
  PROVE  RolloutInv'
<1>1. /\ local # NoReceipt /\ pc = "idle" /\ pc' = "idle"
      /\ UNCHANGED <<live, soaked, proven, plan, retained, evidence, target>>
  BY DEF Reconcile, hostVars, historyVars
<1>2. PICK u : u \in Unknowns(local)
  BY DEF Reconcile
<1>3. /\ u \in Runner /\ local.trans[u].probe = "not_run" /\ local.trans[u].state = "unknown"
      /\ \A q \in Runner : \/ q \in 1 .. u - 1 /\ Proved(q, local.trans[q])
                           \/ q = u
                           \/ q \in u + 1 .. N /\ local.trans[q] = Absent
  BY <1>1, <1>2, AtWork, OneUnknown DEF Unknowns
<1>4. \A q \in Runner : q \in Unknowns(local) <=> q = u
  <2>1. \A q \in Runner : q # u => local.trans[q].state # "unknown"
    BY <1>1, <1>3, AtWork, ProvedTouched DEF Proved, Absent
  <2> QED BY <1>3, <2>1 DEF Unknowns
<1>5. /\ local'.outcome = "in_progress"
      /\ local'.trans[u] = Reconciled(u)
      /\ \A q \in Runner \ {u} : local'.trans[q] = local.trans[q]
      /\ local'.final = evidence.fleet
      /\ ValidReceipt(local', plan.selected)
  BY <1>3, <1>4 DEF Reconcile
<1>6. local' # NoReceipt
  BY ReconcileTyped, AbsenceAssumption DEF RolloutInv, TypedInv
<1>7. evidence.fleet[u] = plan.selected \/ evidence.fleet[u] = plan.observed
  BY <1>2, <1>3 DEF Reconcile, Touched
<1>8. \/ /\ evidence.fleet[u] = plan.selected
         /\ local'.trans[u].state \in Applied /\ local'.trans[u].state # "absent"
         /\ local'.trans[u].state # "unknown"
         /\ local'.trans[u].release = plan.selected
         /\ local'.trans[u].observation # "passed"
         /\ local'.trans[u].probe = "not_run"
      \/ /\ evidence.fleet[u] # plan.selected
         /\ evidence.fleet[u] = plan.start[u]
         /\ local'.trans[u] = Absent
  <2>1. CASE evidence.fleet[u] = plan.selected
    BY <1>5, <2>1 DEF Reconciled, Moved, Applied
  <2>2. CASE evidence.fleet[u] # plan.selected
    <3>1. plan.action = "deploy"
      BY <1>1, <1>7, <2>2, AtWork DEF RolloutInv, PlanShape, Plan
    <3>2. evidence.fleet[u] = plan.start[u]
      BY <1>1, <1>3, <1>7, <2>2, <3>1, AtWork DEF RolloutInv, PlanShape
    <3> QED BY <1>5, <2>2, <3>2 DEF Reconciled
  <2> QED BY <2>1, <2>2
<1>9. InOrder(local')
  <2>1. \A q \in u + 1 .. N : evidence.fleet[q] = plan.start[q]
    BY <1>1, <1>3 DEF RolloutInv, LocalTruth, Proved
  <2>2. ASSUME NEW r \in Runner
        PROVE  LET t == local'.trans[r] IN
               /\ t.state \in Applied => t.release = plan.selected
               /\ t.state \notin Applied => t.probe = "not_run"
               /\ t.state = "absent" => t = Absent /\ local'.final[r] = plan.start[r]
               /\ t.state = "unknown" => local'.outcome \in {"failed", "interrupted"}
               /\ t.probe \in {"failed", "timeout"} => local'.outcome = "failed"
               /\ ~ Proved(r, t) => \A q \in r + 1 .. N : local'.trans[q].state = "absent"
    <3>1. CASE r = u
      <4>1. \A q \in u + 1 .. N : q \in Runner \ {u} /\ q \notin 1 .. u - 1
        BY <1>3, FleetAssumption DEF Runner
      <4>2. \A q \in u + 1 .. N : local'.trans[q].state = "absent"
        BY <1>3, <1>5, <4>1 DEF Absent
      <4> QED BY <1>5, <1>8, <3>1, <4>2 DEF Absent, Applied
    <3>2. CASE r \in 1 .. u - 1 /\ Proved(r, local.trans[r]) /\ r # u
      BY <1>1, <1>5, <3>2, AtWork, ProvedTouched DEF Proved
    <3>3. CASE r \in u + 1 .. N /\ local.trans[r] = Absent /\ r # u
      <4>1. \A q \in r + 1 .. N : q \in Runner \ {u} /\ q \notin 1 .. u - 1
        BY <1>3, <3>3, FleetAssumption DEF Runner
      <4>2. \A q \in r + 1 .. N : local'.trans[q].state = "absent"
        BY <1>3, <1>5, <4>1 DEF Absent
      <4> QED BY <1>5, <2>1, <3>3, <4>2 DEF Absent, Applied
    <3> QED BY <1>3, <3>1, <3>2, <3>3
  <2> QED BY <1>5, <2>2 DEF InOrder
<1>10. SoakedFirst'
  <2>1. /\ local'.trans[Canary].observation = "passed" => soaked
        /\ retained'.trans[Canary].observation = "passed" => soaked
    BY <1>1, <1>3, <1>5, <1>8, AtWork, CanaryIsRunner DEF RolloutInv, SoakedFirst, Receipts, Absent
  <2> QED
    BY <1>1, <2>1 DEF RolloutInv, SoakedFirst, Receipts, Updating, Proving
<1>11. PlanShape'
  BY <1>1 DEF RolloutInv, PlanShape
<1>12. (\A rec \in Receipts : InOrder(rec))'
  BY <1>1, <1>9, ReceiptsOrdered DEF RolloutInv
<1>13. LocalTruth'
  BY <1>1, <1>3, <1>5, <1>8 DEF RolloutInv, LocalTruth, Proved, Absent, Applied
<1>14. WorksInOrder'
  BY <1>1 DEF WorksInOrder, Working, Updating, Proving
<1>15. ProvenRecorded'
  BY <1>1, <1>3, <1>5, <1>8 DEF RolloutInv, ProvenRecorded, Receipts, Absent
<1>16. BlastRadius'
  BY <1>1 DEF RolloutInv, BlastRadius
<1> QED
  BY <1>10, <1>11, <1>12, <1>13, <1>14, <1>15, <1>16 DEF RolloutInv, TypedInv

\* The evidence of a job that restores the retained receipt is newer than the
\* last change of a host, so it shows what the receipt lost.
LEMMA ResumeStep ==
  ASSUME RolloutInv, TypedInv', Resume
  PROVE  RolloutInv'
<1>1. /\ pc = "idle" /\ local' = retained /\ retained # NoReceipt
      /\ evidence # NoEvidence /\ evidence.fleet = live
      /\ UNCHANGED <<live, soaked, proven, plan, retained, evidence, target, pc>>
  BY DEF Resume, hostVars, historyVars, RolloutInv, Presence
<1>2. /\ plan # NoPlan /\ plan \in Plan /\ retained \in Receipt /\ InOrder(retained)
      /\ live \in [Runner -> Releases]
  BY <1>1 DEF RolloutInv, Presence, TypeOK, Receipts
<1>3. \A r \in Runner : /\ plan.start[r] \in Releases /\ plan.selected \in Releases
                       /\ live[r] \in {plan.start[r], plan.selected}
  BY <1>1, <1>2 DEF Plan, RolloutInv, PlanShape
<1>4. ASSUME NEW r \in Runner
      PROVE  /\ retained.trans[r].state \in Applied => live[r] = plan.selected
             /\ retained.trans[r].state = "absent" => live[r] = plan.start[r]
             /\ retained.trans[r].state = "unknown" /\ live[r] # plan.start[r] =>
                  live[r] = plan.selected
  <2>1. retained.final[r] # NoRelease => live[r] = retained.final[r]
    BY <1>1 DEF Resume
  <2>2. /\ retained.trans[r].state \in Applied => retained.final[r] = plan.selected
        /\ retained.trans[r].state = "absent" => retained.final[r] = plan.start[r]
    BY <1>2 DEF InOrder, ValidReceipt, Touched, Applied
  <2> QED BY <1>3, <2>1, <2>2, ReleaseAssumption
<1>5. \A r \in Runner : ~ Proved(r, retained.trans[r]) =>
        \A q \in r + 1 .. N : q \in Runner /\ live[q] = plan.start[q]
  BY <1>2, <1>4, FleetAssumption DEF InOrder, Runner
<1>6. SoakedFirst'
  BY <1>1 DEF RolloutInv, SoakedFirst, Receipts, Updating, Proving
<1>7. PlanShape'
  BY <1>1 DEF RolloutInv, PlanShape
<1>8. (\A rec \in Receipts : InOrder(rec))'
  BY <1>1, ReceiptsOrdered DEF RolloutInv
<1>9. LocalTruth'
  BY <1>1, <1>4, <1>5 DEF LocalTruth
<1>10. WorksInOrder'
  BY <1>1 DEF WorksInOrder, Working, Updating, Proving
<1>11. ProvenRecorded'
  BY <1>1, <1>4 DEF RolloutInv, ProvenRecorded, Receipts
<1>12. BlastRadius'
  BY <1>1 DEF RolloutInv, BlastRadius
<1> QED
  BY <1>6, <1>7, <1>8, <1>9, <1>10, <1>11, <1>12 DEF RolloutInv, TypedInv

\* A plan is admitted on the fleet there is.
LEMMA AdmitStep ==
  ASSUME RolloutInv, TypedInv',
         NEW action \in {"deploy", "rollback"}, NEW selected, NEW observed,
         Admit(action, selected, observed),
         action = "deploy" => evidence.fleet = [r \in Runner |-> observed],
         action = "rollback" => selected = observed
  PROVE  RolloutInv'
<1>1. /\ plan' = [action |-> action, selected |-> selected, observed |-> observed,
                  start |-> live]
      /\ local' = AdmittedReceipt(live) /\ retained' = AdmittedReceipt(live)
      /\ evidence.fleet = live /\ evidence # NoEvidence /\ pc = "idle"
      /\ proven' = {} /\ soaked' = FALSE
      /\ UNCHANGED <<live, evidence, target, pc>>
  BY DEF Admit, hostVars, RolloutInv, Presence
<1>2. /\ plan'.action = action /\ plan'.selected = selected
      /\ plan'.observed = observed /\ plan'.start = live
  BY <1>1
<1>3. live \in [Runner -> Releases]
  BY DEF RolloutInv, TypeOK
<1> DEFINE new == AdmittedReceipt(live)
<1>4. /\ new.outcome = "admitted" /\ new.final = live
      /\ \A r \in Runner : new.trans[r] = Absent
  BY DEF AdmittedReceipt
<1> HIDE DEF new
<1>5. Absent.state = "absent" /\ Absent.probe = "not_run" /\ Absent.observation = "not_required"
  BY DEF Absent
<1>6. /\ Touched(new) = {} /\ Unknowns(new) = {}
      /\ {r \in Runner : new.final[r] = NoRelease} = {}
  BY <1>3, <1>4, <1>5, ReleaseAssumption DEF Touched, Unknowns
<1>7. ASSUME NEW rec, rec = new PROVE InOrder(rec)'
  <2>1. ValidReceipt(rec, plan'.selected)
    BY <1>4, <1>6, <1>7 DEF ValidReceipt
  <2>2. \A r \in Runner : \A q \in r + 1 .. N : q \in Runner
    BY FleetAssumption DEF Runner
  <2> QED BY <1>2, <1>4, <1>5, <1>7, <2>1, <2>2 DEF InOrder, Applied
<1>8. (\A rec \in Receipts : InOrder(rec))'
  BY <1>1, <1>7 DEF Receipts, new
<1>9. local' = new /\ retained' = new
  BY <1>1 DEF new
<1>10. SoakedFirst'
  BY <1>1, <1>2, <1>4, <1>5, <1>9, CanaryIsRunner DEF SoakedFirst, Receipts, Updating, Proving
<1>11. PlanShape'
  BY <1>1, <1>2 DEF PlanShape
<1>12. LocalTruth'
  <2>1. \A r \in Runner : \A q \in r + 1 .. N : q \in Runner
    BY FleetAssumption DEF Runner
  <2> QED BY <1>1, <1>2, <1>4, <1>5, <1>9, <2>1 DEF LocalTruth, Applied
<1>13. WorksInOrder'
  BY <1>1 DEF WorksInOrder, Working, Updating, Proving
<1>14. ProvenRecorded'
  BY <1>1, <1>4, <1>5, <1>9 DEF ProvenRecorded, Receipts
<1>15. BlastRadius'
  BY <1>1, <1>2 DEF BlastRadius
<1> QED
  BY <1>8, <1>10, <1>11, <1>12, <1>13, <1>14, <1>15 DEF RolloutInv, TypedInv

\* New evidence shows the fleet there is.
LEMMA CollectStep ==
  ASSUME RolloutInv, TypedInv', Collect
  PROVE  RolloutInv'
<1>1. /\ pc = "idle" /\ evidence'.fleet = live
      /\ UNCHANGED <<live, soaked, proven, plan, local, retained, target, pc>>
  BY DEF Collect, hostVars, recordVars, historyVars
<1>2. SoakedFirst'
  BY <1>1 DEF RolloutInv, SoakedFirst, Receipts, Updating, Proving
<1>3. PlanShape'
  BY <1>1 DEF RolloutInv, PlanShape
<1>4. (\A rec \in Receipts : InOrder(rec))'
  BY <1>1, ReceiptsOrdered DEF RolloutInv
<1>5. LocalTruth'
  BY <1>1 DEF RolloutInv, LocalTruth
<1>6. WorksInOrder'
  BY <1>1 DEF WorksInOrder, Working, Updating, Proving
<1>7. ProvenRecorded'
  <2>1. local # NoReceipt => \A r \in Runner : live[r] \in {plan.start[r], plan.selected}
    BY AtWork DEF RolloutInv, PlanShape
  <2> QED BY <1>1, <2>1 DEF RolloutInv, ProvenRecorded, Receipts
<1>8. BlastRadius'
  BY <1>1 DEF RolloutInv, BlastRadius
<1> QED
  BY <1>2, <1>3, <1>4, <1>5, <1>6, <1>7, <1>8 DEF RolloutInv, TypedInv

\* Steps that touch neither host nor record: at most hosts come and go, and a
\* command goes on to its update.
LEMMA QuietStep ==
  ASSUME RolloutInv, TypedInv',
         UNCHANGED <<live, soaked, proven, plan, local, retained, evidence, target>>,
         \/ pc' = pc
         \/ pc' = "idle"
         \/ pc = "capacity" /\ pc' = "update"
  PROVE  RolloutInv'
<1>1. SoakedFirst'
  BY DEF RolloutInv, SoakedFirst, Receipts, Updating, Proving
<1>2. PlanShape'
  BY DEF RolloutInv, PlanShape
<1>3. (\A rec \in Receipts : InOrder(rec))'
  BY ReceiptsOrdered DEF RolloutInv
<1>4. LocalTruth'
  BY DEF RolloutInv, LocalTruth
<1>5. WorksInOrder'
  <2>1. CASE pc' = pc
    BY <2>1 DEF RolloutInv, WorksInOrder, Working, Updating, Proving, ObservationPending
  <2>2. CASE pc' = "idle"
    BY <2>2 DEF WorksInOrder, Working, Updating, Proving
  <2>3. CASE pc = "capacity" /\ pc' = "update"
    BY <2>3 DEF RolloutInv, WorksInOrder, Working, Updating, Proving
  <2> QED BY <2>1, <2>2, <2>3
<1>6. ProvenRecorded'
  BY DEF RolloutInv, ProvenRecorded, Receipts
<1>7. BlastRadius'
  BY DEF RolloutInv, BlastRadius
<1> QED
  BY <1>1, <1>2, <1>3, <1>4, <1>5, <1>6, <1>7 DEF RolloutInv, TypedInv

\* A command dies, with or without its job: the host it was draining may have
\* moved, and no receipt says so.
LEMMA DeathStep ==
  ASSUME RolloutInv, TypedInv', Crash \/ JobLost
  PROVE  RolloutInv'
<1>1. /\ local # NoReceipt /\ pc' = "idle"
      /\ UNCHANGED <<soaked, proven, plan, retained, target>>
      /\ \/ local' = local /\ evidence' = evidence
         \/ local' = NoReceipt
      /\ \/ live' = live
         \/ pc = "draining" /\ live' = [live EXCEPT ![target] = plan.selected]
  <2>1. CASE pc = "draining"
    BY <2>1 DEF Crash, JobLost, Dies, HostLeftAnyhow, historyVars, RolloutInv, Presence, Working
  <2>2. CASE pc # "draining"
    BY <2>2 DEF Crash, JobLost, Dies, hostVars, historyVars, RolloutInv, Presence, Working
  <2> QED BY <2>1, <2>2
<1>2. live \in [Runner -> Releases] /\ target \in Runner
  BY DEF RolloutInv, TypeOK
<1>3. live' # live =>
        /\ Working /\ Updating /\ target \notin proven
        /\ local.trans[target] = Absent /\ ~ Proved(target, local.trans[target])
  BY <1>1, <1>2, AtWork
  DEF Working, Updating, RolloutInv, WorksInOrder, InOrder, Proved, Absent
<1>4. /\ \A q \in Runner \ {target} : live'[q] = live[q]
      /\ live'[target] \in {live[target], plan.selected}
  BY <1>1, <1>2
<1>5. \A r \in Runner : \A q \in r + 1 .. N : q \in Runner
  BY FleetAssumption DEF Runner
<1>6. SoakedFirst'
  BY <1>1, <1>3, <1>4 DEF RolloutInv, SoakedFirst, Receipts, Updating, Proving
<1>7. PlanShape'
  BY <1>1, <1>4 DEF RolloutInv, PlanShape
<1>8. (\A rec \in Receipts : InOrder(rec))'
  BY <1>1, ReceiptsOrdered DEF RolloutInv
<1>9. LocalTruth'
  <2>1. CASE live' = live
    BY <1>1, <2>1 DEF RolloutInv, LocalTruth
  <2>2. CASE live' # live
    <3>1. \A r \in Runner : ~ Proved(r, local.trans[r]) =>
            \A q \in r + 1 .. N : q \in Runner \ {target}
      BY <1>2, <1>3, <2>2, AroundTarget, FleetAssumption DEF Runner
    <3> QED BY <1>1, <1>4, <3>1 DEF RolloutInv, LocalTruth
  <2> QED BY <2>1, <2>2
<1>10. WorksInOrder'
  BY <1>1 DEF WorksInOrder, Working, Updating, Proving
<1>11. ProvenRecorded'
  BY <1>1, <1>2, <1>3, <1>4 DEF RolloutInv, ProvenRecorded, Receipts
<1>12. BlastRadius'
  <2>1. CASE live' = live
    BY <1>1, <2>1 DEF RolloutInv, BlastRadius
  <2>2. CASE live' # live
    BY <1>1, <1>3, <1>4, <2>2, OnlyTarget
  <2> QED BY <2>1, <2>2
<1> QED
  BY <1>6, <1>7, <1>8, <1>9, <1>10, <1>11, <1>12 DEF RolloutInv, TypedInv

\* The receipts go to the authority, or the job ends.
LEMMA HandOverStep ==
  ASSUME RolloutInv, TypedInv', Upload \/ JobEnds
  PROVE  RolloutInv'
<1>1. /\ local # NoReceipt /\ pc = "idle"
      /\ UNCHANGED <<live, soaked, proven, plan, target, pc>>
      /\ \/ local' = local /\ retained' = local /\ evidence' = evidence
         \/ local' = NoReceipt /\ retained' = retained
  BY DEF Upload, JobEnds, hostVars, historyVars
<1>2. SoakedFirst'
  BY <1>1 DEF RolloutInv, SoakedFirst, Receipts, Updating, Proving
<1>3. PlanShape'
  BY <1>1 DEF RolloutInv, PlanShape
<1>4. (\A rec \in Receipts : InOrder(rec))'
  BY <1>1, ReceiptsOrdered DEF RolloutInv
<1>5. LocalTruth'
  BY <1>1 DEF RolloutInv, LocalTruth
<1>6. WorksInOrder'
  BY <1>1 DEF WorksInOrder, Working, Updating, Proving
<1>7. ProvenRecorded'
  BY <1>1 DEF RolloutInv, ProvenRecorded, Receipts
<1>8. BlastRadius'
  BY <1>1 DEF RolloutInv, BlastRadius
<1> QED
  BY <1>2, <1>3, <1>4, <1>5, <1>6, <1>7, <1>8 DEF RolloutInv, TypedInv

-----------------------------------------------------------------------------
(***************************************************************************)
(* The invariant and what follows from it                                  *)
(***************************************************************************)
LEMMA RolloutInit == Init => RolloutInv
<1> SUFFICES ASSUME Init PROVE RolloutInv
  OBVIOUS
<1>1. TypedInv
  BY TypedInit
<1>2. Receipts = {}
  BY DEF Init, Receipts
<1> QED
  BY <1>1, <1>2
  DEF Init, RolloutInv, TypedInv, SoakedFirst, PlanShape, LocalTruth, WorksInOrder,
      ProvenRecorded, BlastRadius, Working, Updating, Proving

LEMMA RolloutStep == RolloutInv /\ [Next]_vars => RolloutInv'
<1> SUFFICES ASSUME RolloutInv, [Next]_vars PROVE RolloutInv'
  OBVIOUS
<1>0. TypedInv'
  BY TypedStep DEF RolloutInv, TypedInv
<1>1. CASE Collect
  BY <1>0, <1>1, CollectStep
<1>2. ASSUME NEW rel \in Releases, Deploy(rel) PROVE RolloutInv'
  <2>1. PICK observed \in Releases :
          /\ Admit("deploy", rel, observed)
          /\ evidence.fleet = [r \in Runner |-> observed]
    BY <1>2 DEF Deploy
  <2> QED BY <1>0, <2>1, AdmitStep
<1>3. CASE Rollback
  <2>1. Admit("rollback", source.observed, source.observed)
    BY <1>3 DEF Rollback
  <2> QED BY <1>0, <2>1, AdmitStep
<1>4. CASE Resume
  BY <1>0, <1>4, ResumeStep
<1>5. CASE Execute
  BY <1>0, <1>5, ExecuteStep
<1>6. CASE CapacityFree
  BY <1>0, <1>6, QuietStep DEF CapacityFree, hostVars, recordVars, historyVars
<1>7. CASE CapacityShort
  BY <1>0, <1>7, SameTransitionsStep DEF CapacityShort, Fail, Working, hostVars, historyVars
<1>8. CASE UpdateStarts
  BY <1>0, <1>8, UpdateStartsStep
<1>9. CASE UpdateRefused
  BY <1>0, <1>9, LoseTargetStep DEF UpdateRefused, Updating, hostVars, historyVars
<1>10. CASE UpdateReturns
  BY <1>0, <1>10, UpdateReturnsStep
<1>11. CASE UpdateInterrupted
  BY <1>0, <1>11, LoseTargetStep DEF UpdateInterrupted, HostLeftAnyhow, Updating, historyVars
<1>12. CASE UpdateVerified
  BY <1>0, <1>12, UpdateVerifiedStep
<1>13. CASE UpdateUnverified
  BY <1>0, <1>13, LoseTargetStep DEF UpdateUnverified, Updating, hostVars, historyVars
<1>14. CASE ProbePasses
  BY <1>0, <1>14, ProbePassesStep
<1>15. CASE ProbeFails
  BY <1>0, <1>15, ProbeFailsStep
<1>16. CASE ObservationEnds
  BY <1>0, <1>16, ObservationEndsStep
<1>17. CASE ObservationInterrupted
  BY <1>0, <1>17, SameTransitionsStep
  DEF ObservationInterrupted, Fail, Working, hostVars, historyVars
<1>18. CASE Finish
  <2>1. Working /\ \A q \in Runner : Proved(q, local.trans[q])
    BY <1>18 DEF Finish, Working, RolloutInv, WorksInOrder
  <2> QED BY <1>0, <1>18, <2>1, SameTransitionsStep DEF Finish, hostVars, historyVars
<1>19. CASE Reconcile
  BY <1>0, <1>19, ReconcileStep
<1>20. CASE Upload \/ JobEnds
  BY <1>0, <1>20, HandOverStep
<1>21. CASE Crash \/ JobLost
  BY <1>0, <1>21, DeathStep
<1>22. CASE HostStops \/ HostReturns
  BY <1>0, <1>22, QuietStep DEF HostStops, HostReturns, recordVars, historyVars
<1>23. CASE UNCHANGED vars
  BY <1>0, <1>23, QuietStep DEF vars, hostVars, recordVars, historyVars
<1> QED
  BY <1>1, <1>2, <1>3, <1>4, <1>5, <1>6, <1>7, <1>8, <1>9, <1>10, <1>11, <1>12, <1>13,
     <1>14, <1>15, <1>16, <1>17, <1>18, <1>19, <1>20, <1>21, <1>22, <1>23
  DEF Next, UpdateHost, ProveHost

\* The relation between receipts, evidence, plan and hosts is kept by every
\* step of every command, job and host, and by every failure.
THEOREM RolloutInvariant == Spec => []RolloutInv
  BY RolloutInit, RolloutStep, PTL DEF Spec

\* No host but the canary is touched before the canary was probed and observed
\* in the same attempt.
THEOREM CanaryFirstHolds == Spec => []CanaryFirst
<1>1. RolloutInv => CanaryFirst
  BY DEF RolloutInv, SoakedFirst, CanaryFirst, Updating
<1> QED BY <1>1, RolloutInvariant, PTL

\* At most one host at a time runs a release it was not probed on.
THEOREM BlastRadiusHolds == Spec => []BlastRadius
<1>1. RolloutInv => BlastRadius
  BY DEF RolloutInv
<1> QED BY <1>1, RolloutInvariant, PTL

LEMMA TargetNotProved ==
  ASSUME RolloutInv, Working, pc # "finish"
  PROVE  ~ Proved(target, local.trans[target])
<1>1. local # NoReceipt /\ target \in Runner
  BY DEF RolloutInv, Presence, TypeOK
<1>2. CASE Updating
  BY <1>1, <1>2, AtWork DEF RolloutInv, WorksInOrder, InOrder, Proved, Absent
<1>3. CASE Proving
  BY <1>3 DEF RolloutInv, WorksInOrder, Proved
<1>4. CASE pc = "observe"
  <2>1. local.trans[target].probe = "passed" /\ local.trans[target].observation = "pending"
    BY <1>4 DEF RolloutInv, WorksInOrder, ObservationPending
  <2>2. ObservationAllowed(target, local.trans[target])
    BY <1>1, <2>1, AtWork, ProvedTouched DEF InOrder, ValidReceipt, Touched
  <2> QED BY <2>1, <2>2 DEF ObservationAllowed, Proved
<1> QED
  BY <1>2, <1>3, <1>4 DEF Updating, Proving, Working, RolloutInv, TypeOK, WorksInOrder

\* A command acts on a receipt that is right about every other host.
THEOREM ActsOnTruthHolds == Spec => []ActsOnTruth
<1>1. RolloutInv => ActsOnTruth
  <2> SUFFICES ASSUME RolloutInv, pc # "idle", NEW r \in Runner \ {target}
               PROVE  local.final[r] = live[r]
    BY DEF ActsOnTruth
  <2>1. Working /\ local # NoReceipt
    BY DEF Working, RolloutInv, Presence
  <2>2. target \in Runner
    BY DEF RolloutInv, TypeOK
  <2>3. CASE Proved(r, local.trans[r])
    BY <2>1, <2>3, AtWork, ProvedTouched DEF Proved, RolloutInv, LocalTruth
  <2>4. CASE ~ Proved(r, local.trans[r])
    <3>1. r \in target + 1 .. N /\ pc # "finish"
      BY <2>1, <2>2, <2>4, FleetAssumption DEF RolloutInv, WorksInOrder, Runner
    <3>2. ~ Proved(target, local.trans[target])
      BY <2>1, <3>1, TargetNotProved
    <3> QED BY <2>1, <3>1, <3>2, AroundTarget
  <2> QED BY <2>3, <2>4
<1> QED BY <1>1, RolloutInvariant, PTL

\* A succeeded receipt says what the hosts run.
THEOREM SucceededMeansDeployedHolds == Spec => []SucceededMeansDeployed
<1>1. RolloutInv => SucceededMeansDeployed
  <2> SUFFICES ASSUME RolloutInv, local # NoReceipt, local.outcome = "succeeded"
               PROVE  /\ \A r \in Runner : live[r] = plan.selected
                      /\ proven = Runner
                      /\ soaked
    BY DEF SucceededMeansDeployed
  <2>1. \A r \in Runner : Proved(r, local.trans[r])
    BY AtWork DEF InOrder, ValidReceipt
  <2>2. \A r \in Runner : live[r] = plan.selected
    BY <2>1, AtWork, ProvedTouched DEF Proved, RolloutInv, LocalTruth
  <2>3. \A r \in Runner : r \in proven
    BY <2>1 DEF Proved, RolloutInv, ProvenRecorded, Receipts
  <2>4. soaked
    BY <2>1, CanaryIsRunner DEF Proved, RolloutInv, SoakedFirst, Receipts
  <2> QED BY <2>2, <2>3, <2>4 DEF RolloutInv, TypeOK
<1> QED BY <1>1, RolloutInvariant, PTL

\* The preflight refuses no revision that execute_plan builds.
THEOREM NeverRefusedHolds == Spec => []NeverRefused
<1>1. RolloutInv => NeverRefused
  BY DEF RolloutInv, WorksInOrder, NeverRefused
<1> QED BY <1>1, RolloutInvariant, PTL

\* A host that was moved and proved is not updated again in the attempt.
THEOREM NoSecondUpdateHolds == Spec => NoSecondUpdate
<1>1. RolloutInv /\ [Next]_vars =>
        [pc = "update" /\ pc' = "draining" =>
           ~ (target \in proven /\ live[target] # plan.start[target])]_vars
  <2> SUFFICES ASSUME RolloutInv, pc = "update",
                      target \in proven, live[target] # plan.start[target]
               PROVE  FALSE
    OBVIOUS
  <2> QED
    BY DEF RolloutInv, TypeOK, Presence, Working, Updating, WorksInOrder, ProvenRecorded
<1> QED BY <1>1, RolloutInvariant, PTL DEF Spec, NoSecondUpdate

-----------------------------------------------------------------------------
(***************************************************************************)
(* The controller implements the sequential rollout                        *)
(***************************************************************************)
LEMMA GoalOfPlan ==
  ASSUME TypedInv, plan # NoPlan
  PROVE  [start |-> plan.start, selected |-> plan.selected] # NoPlan
  BY AbsenceAssumption DEF TypedInv, TypeOK, Plan, Goal

\* It is the target's turn.
LEMMA TargetsTurn ==
  ASSUME RolloutInv, Updating \/ Proving
  PROVE  Rollout!Turn(target)
<1>1. Working /\ pc # "finish" /\ local # NoReceipt /\ TypedInv
  BY DEF Updating, Proving, Working, RolloutInv, TypedInv, Presence
<1>2. ~ Proved(target, local.trans[target])
  BY <1>1, TargetNotProved
<1>3. \A q \in 1 .. target - 1 : q \in Runner /\ q \in proven /\ live[q] = plan.selected
  <2>1. \A q \in 1 .. target - 1 : q \in Runner /\ Proved(q, local.trans[q]) /\ q \in proven
    BY <1>1, <1>2, AroundTarget, FleetAssumption DEF Runner
  <2> QED BY <1>1, <2>1, AtWork, ProvedTouched DEF Proved, RolloutInv, LocalTruth
<1>4. target # Canary => soaked
  BY DEF RolloutInv, SoakedFirst
<1>5. plan # NoPlan
  BY <1>1, AtWork
<1> QED
  BY <1>1, <1>3, <1>4, <1>5, GoalOfPlan DEF Rollout!Turn, Rollout!Canary, Canary

LEMMA RefinesInit == Init => Rollout!Init
  BY DEF Init, Rollout!Init, Rollout!Runner, Runner

LEMMA RefinesStep ==
  RolloutInv /\ RolloutInv' /\ [Next]_vars => [Rollout!Next]_(Rollout!vars)
<1> SUFFICES ASSUME RolloutInv, RolloutInv', [Next]_vars
             PROVE  Rollout!Next \/ UNCHANGED Rollout!vars
  OBVIOUS
<1>0. TypedInv /\ TypedInv'
  BY DEF RolloutInv, TypedInv
<1>1. ASSUME UNCHANGED <<live, plan, proven, soaked>>
      PROVE  UNCHANGED Rollout!vars
  BY <1>1 DEF Rollout!vars
<1>2. ASSUME NEW action \in {"deploy", "rollback"}, NEW selected \in Releases,
             NEW observed \in Releases, Admit(action, selected, observed)
      PROVE  Rollout!Next
  <2>1. /\ plan'.start = live /\ plan'.selected = selected
        /\ UNCHANGED live /\ proven' = {} /\ soaked' = FALSE
    BY <1>2 DEF Admit, hostVars, RolloutInv, Presence
  <2>2. plan' # NoPlan
    <3>1. evidence.fleet \in [Runner -> Releases]
      BY <1>2 DEF Admit, RolloutInv, TypeOK, Evidence
    <3>2. plan' \in Plan
      BY <1>2, <3>1 DEF Admit, Plan
    <3> QED BY <3>2, AbsenceAssumption
  <2> QED BY <2>1, <2>2 DEF Rollout!Next, Rollout!Begin
<1>3. ASSUME NEW r \in Runner, Rollout!Withdraw(r) \/ Rollout!Move(r) \/ Rollout!Prove(r)
      PROVE  Rollout!Next
  BY <1>3 DEF Rollout!Next, Rollout!Runner, Runner
<1>4. target \in Runner
  BY DEF RolloutInv, TypeOK
<1>5. CASE Collect
  BY <1>1, <1>5 DEF Collect, hostVars, recordVars, historyVars
<1>6. ASSUME NEW rel \in Releases, Deploy(rel) PROVE Rollout!Next
  BY <1>2, <1>6 DEF Deploy
<1>7. CASE Rollback
  <2>1. source.observed \in Releases
    BY <1>7 DEF Rollback, RolloutInv, TypeOK, Source
  <2> QED BY <1>2, <1>7, <2>1 DEF Rollback
<1>8. CASE Resume \/ Execute \/ CapacityFree \/ CapacityShort
  BY <1>1, <1>8 DEF Resume, Execute, CapacityFree, CapacityShort, hostVars, recordVars, historyVars
<1>9. CASE UpdateStarts
  <2>1. Rollout!Turn(target)
    BY <1>9, TargetsTurn DEF UpdateStarts, Updating
  <2>2. Rollout!Withdraw(target)
    BY <1>9, <2>1 DEF UpdateStarts, Rollout!Withdraw, recordVars
  <2> QED BY <1>3, <1>4, <2>2
<1>10. CASE UpdateRefused \/ UpdateVerified \/ UpdateUnverified \/ ObservationInterrupted \/ Finish
  BY <1>1, <1>10
  DEF UpdateRefused, UpdateVerified, UpdateUnverified, ObservationInterrupted, Finish,
      hostVars, historyVars
<1>11. ASSUME pc = "draining", UNCHANGED <<plan, proven, soaked>>,
              live' = live \/ live' = [live EXCEPT ![target] = plan.selected]
       PROVE  Rollout!Next \/ UNCHANGED Rollout!vars
  <2>1. CASE live' = live
    BY <1>1, <1>11, <2>1
  <2>2. CASE live' = [live EXCEPT ![target] = plan.selected]
    <3>1. Rollout!Turn(target) /\ target \notin proven /\ plan # NoPlan
      BY <1>11, TargetsTurn, AtWork DEF Updating, Working, RolloutInv, Presence, WorksInOrder
    <3>2. Rollout!Move(target)
      BY <1>11, <2>2, <3>1 DEF Rollout!Move
    <3> QED BY <1>3, <1>4, <3>2
  <2> QED BY <1>11, <2>1, <2>2
<1>12. CASE UpdateReturns \/ UpdateInterrupted
  BY <1>11, <1>12 DEF UpdateReturns, UpdateInterrupted, HostLeftAnyhow, recordVars, historyVars
<1>13. CASE ProbePasses
  <2>1. Rollout!Turn(target) /\ plan # NoPlan /\ live[target] = plan.selected
    BY <1>13, TargetsTurn, AtWork
    DEF ProbePasses, Proving, Working, RolloutInv, TypeOK, Presence, WorksInOrder, LocalTruth
  <2>2. Rollout!Prove(target)
    BY <1>13, <2>1 DEF ProbePasses, Rollout!Prove, hostVars
  <2> QED BY <1>3, <1>4, <2>2
<1>14. CASE ProbeFails
  <2>1. Rollout!Turn(target)
    BY <1>14, TargetsTurn DEF ProbeFails, Proving
  <2>2. Rollout!Withdraw(target)
    BY <1>14, <2>1 DEF ProbeFails, Rollout!Withdraw, hostVars
  <2> QED BY <1>3, <1>4, <2>2
<1>15. CASE ObservationEnds
  <2>1. Working /\ pc = "observe" /\ local # NoReceipt /\ plan # NoPlan
    BY <1>15, AtWork DEF ObservationEnds, Working, RolloutInv, Presence
  <2>2. local.trans[target].probe = "passed" /\ local.trans[target].observation = "pending"
    BY <2>1 DEF RolloutInv, WorksInOrder, ObservationPending
  <2>3. ObservationAllowed(target, local.trans[target])
    BY <1>4, <2>1, <2>2, AtWork, ProvedTouched DEF InOrder, ValidReceipt, Touched
  <2>4. target = Canary
    BY <2>2, <2>3 DEF ObservationAllowed
  <2>5. Canary \in proven
    BY <1>4, <2>1, <2>2, <2>4 DEF RolloutInv, ProvenRecorded, Receipts
  <2>6. live[Canary] = plan.selected
    BY <1>4, <2>1, <2>2, <2>4, AtWork, ProvedTouched DEF RolloutInv, LocalTruth
  <2>7. Rollout!Soak
    BY <1>0, <1>15, <2>1, <2>5, <2>6, GoalOfPlan
    DEF ObservationEnds, Rollout!Soak, Rollout!Canary, Canary, hostVars
  <2> QED BY <2>7 DEF Rollout!Next
<1>16. CASE Reconcile \/ Upload \/ JobEnds
  BY <1>1, <1>16 DEF Reconcile, Upload, JobEnds, hostVars, historyVars
<1>17. CASE Crash \/ JobLost
  <2>1. CASE pc = "draining"
    BY <1>11, <1>17, <2>1 DEF Crash, JobLost, Dies, HostLeftAnyhow, historyVars
  <2>2. CASE pc # "draining"
    BY <1>1, <1>17, <2>2 DEF Crash, JobLost, Dies, hostVars, historyVars
  <2> QED BY <2>1, <2>2
<1>18. CASE HostStops \/ HostReturns
  BY <1>1, <1>18 DEF HostStops, HostReturns, recordVars, historyVars
<1>19. CASE UNCHANGED vars
  BY <1>1, <1>19 DEF vars, hostVars, recordVars, historyVars
<1> QED
  BY <1>5, <1>6, <1>7, <1>8, <1>9, <1>10, <1>12, <1>13, <1>14, <1>15, <1>16, <1>17,
     <1>18, <1>19
  DEF Next, UpdateHost, ProveHost

\* The controller, with its jobs, receipts, evidence and failures, implements
\* the sequential rollout.
THEOREM Refinement == Spec => FollowsPlan
  BY RefinesInit, RefinesStep, RolloutInvariant, PTL
  DEF Spec, FollowsPlan, Rollout!Spec
===============================================================================
