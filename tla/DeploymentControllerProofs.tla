---------------------- MODULE DeploymentControllerProofs ----------------------
(***************************************************************************)
(* Proofs about the deployment controller for every fleet, every set of    *)
(* releases, every capacity floor and every set of faults.                 *)
(***************************************************************************)
EXTENDS DeploymentInvariants, FiniteSetTheorems, TLAPS

\* What a revision is, whether the preflight accepts it or not.
LEMMA RecordTyped ==
  ASSUME local \in Receipt,
         NEW outcome \in Outcome,
         NEW trans \in [Runner -> Transition],
         NEW next,
         Record(outcome, trans, next)
  PROVE  local' \in Receipt /\ pc' \in {next, "refused"}
<1>1. NextRevision(local, outcome, trans) \in Receipt
  BY DEF NextRevision, Receipt, Transition
<1> QED BY <1>1 DEF Record

LEMMA AbsentTyped == Absent \in Transition /\ Unknown \in Transition
  BY DEF Absent, Unknown, Transition, Applied

LEMMA MovedTyped ==
  ASSUME NEW r, NEW how \in Applied, NEW rel \in Releases
  PROVE  Moved(r, how, rel) \in Transition
  BY DEF Moved, Transition

\* Type correctness, with what goes absent together.
TypedInv == TypeOK /\ Presence

LEMMA ReconcileTyped ==
  ASSUME TypedInv, Reconcile
  PROVE  local' \in Receipt
<1>1. local \in Receipt /\ plan \in Plan /\ evidence.fleet \in [Runner -> Releases]
  BY DEF Reconcile, TypedInv, TypeOK, Presence, Evidence
<1>2. ASSUME NEW r \in Runner PROVE Reconciled(r) \in Transition
  BY <1>1, MovedTyped, AbsentTyped DEF Reconciled, Applied, Plan
<1>3. local' = [outcome |-> "in_progress",
                trans   |-> [r \in Runner |-> IF r \in Unknowns(local)
                                              THEN Reconciled(r) ELSE local.trans[r]],
                final   |-> evidence.fleet]
  BY DEF Reconcile
<1> QED
  BY <1>1, <1>2, <1>3 DEF Receipt, Outcome

LEMMA TypedInit == Init => TypedInv
<1> SUFFICES ASSUME Init PROVE TypedInv
  OBVIOUS
<1> USE FleetAssumption
<1>1. Canary \in Runner
  BY DEF Canary, Runner
<1> QED
  BY <1>1 DEF Init, TypedInv, TypeOK, Presence, Working

LEMMA TypedStep == TypedInv /\ [Next]_vars => TypedInv'
<1> SUFFICES ASSUME TypedInv, [Next]_vars PROVE TypedInv'
  OBVIOUS
<1> USE FleetAssumption, AbsenceAssumption DEF TypedInv
<1>0. Canary \in Runner
  BY DEF Canary, Runner
<1>1. CASE Collect
  <2>1. (up = Runner) \in BOOLEAN
    OBVIOUS
  <2>2. evidence' \in Evidence
    BY <1>1, <2>1 DEF Collect, TypeOK, Evidence
  <2> QED
    BY <1>1, <2>2 DEF Collect, TypeOK, Presence, Working,
                      hostVars, recordVars, historyVars
<1>2. ASSUME NEW rel \in Releases, Deploy(rel) PROVE TypedInv'
  <2>1. PICK observed \in Releases : Admit("deploy", rel, observed)
    BY <1>2 DEF Deploy
  <2>2. plan' \in Plan /\ local' \in Receipt
    <3>1. evidence.fleet \in [Runner -> Releases]
      BY <2>1 DEF Admit, TypeOK, Evidence
    <3>2. AdmittedReceipt(evidence.fleet) \in Receipt
      BY <3>1, AbsentTyped DEF AdmittedReceipt, Receipt, Outcome
    <3> QED BY <2>1, <3>1, <3>2 DEF Admit, Plan
  <2> QED
    BY <2>1, <2>2 DEF Admit, TypeOK, Presence, Working, hostVars
<1>3. CASE Rollback
  <2>1. Admit("rollback", source.observed, source.observed)
    BY <1>3 DEF Rollback
  <2>2. plan' \in Plan /\ local' \in Receipt
    <3>1. evidence.fleet \in [Runner -> Releases]
      BY <2>1 DEF Admit, TypeOK, Evidence
    <3>2. AdmittedReceipt(evidence.fleet) \in Receipt
      BY <3>1, AbsentTyped DEF AdmittedReceipt, Receipt, Outcome
    <3>3. source.observed \in Releases
      BY <1>3 DEF Rollback, TypeOK, Source
    <3> QED BY <2>1, <3>1, <3>2, <3>3 DEF Admit, Plan
  <2> QED
    BY <2>1, <2>2 DEF Admit, TypeOK, Presence, Working, hostVars
<1>4. CASE Resume
  BY <1>4 DEF Resume, TypeOK, Presence, Working, hostVars, historyVars
<1>5. CASE Execute
  BY <1>5 DEF Execute, TypeOK, Presence, Working, hostVars, recordVars, historyVars, MatchesReceipt
<1>6. CASE CapacityFree
  BY <1>6 DEF CapacityFree, TypeOK, Presence, Working, hostVars, recordVars, historyVars
<1>7. CASE CapacityShort
  <2>1. local \in Receipt
    BY <1>7 DEF CapacityShort, TypeOK, Presence, Working
  <2>2. local' \in Receipt /\ pc' \in {"idle", "refused"}
    BY <1>7, <2>1, RecordTyped DEF CapacityShort, Fail, Receipt, Outcome
  <2> QED
    BY <1>7, <2>2 DEF CapacityShort, TypeOK, Presence, Working, hostVars, historyVars
<1>8. CASE UpdateStarts
  BY <1>8 DEF UpdateStarts, TypeOK, Presence, Working, recordVars
<1>9. ASSUME NEW outcome \in Outcome, LoseTarget(outcome), pc # "idle"
      PROVE  local' \in Receipt /\ pc' \in {"idle", "refused"}
  <2>1. local \in Receipt
    BY <1>9 DEF TypeOK, Presence, Working
  <2>2. [local.trans EXCEPT ![target] = Unknown] \in [Runner -> Transition]
    BY <2>1, AbsentTyped DEF Receipt
  <2> QED BY <1>9, <2>1, <2>2, RecordTyped DEF LoseTarget
<1>10. CASE UpdateRefused
  <2>1. local' \in Receipt /\ pc' \in {"idle", "refused"}
    BY <1>9, <1>10 DEF UpdateRefused, Outcome
  <2> QED
    BY <1>10, <2>1 DEF UpdateRefused, TypeOK, Presence, Working, hostVars, historyVars
<1>11. CASE UpdateReturns
  <2>1. plan \in Plan
    BY <1>11 DEF UpdateReturns, TypeOK, Presence, Working
  <2> QED
    BY <1>11, <2>1 DEF UpdateReturns, TypeOK, Presence, Working, recordVars, historyVars, Plan
<1>12. ASSUME HostLeftAnyhow, pc # "idle"
       PROVE  live' \in [Runner -> Releases] /\ up' \subseteq Runner
  <2>1. plan \in Plan
    BY <1>12 DEF TypeOK, Presence, Working
  <2> QED
    BY <1>12, <2>1 DEF HostLeftAnyhow, TypeOK, Plan
<1>13. CASE UpdateInterrupted
  <2>1. local' \in Receipt /\ pc' \in {"idle", "refused"}
    BY <1>9, <1>13 DEF UpdateInterrupted, Outcome
  <2>2. live' \in [Runner -> Releases] /\ up' \subseteq Runner
    BY <1>12, <1>13 DEF UpdateInterrupted
  <2> QED
    BY <1>13, <2>1, <2>2 DEF UpdateInterrupted, TypeOK, Presence, Working, historyVars
<1>14. CASE UpdateVerified
  <2>1. local \in Receipt /\ plan \in Plan
    BY <1>14 DEF UpdateVerified, TypeOK, Presence, Working
  <2>2. ASSUME NEW how \in Applied
        PROVE  [local.trans EXCEPT ![target] = Moved(target, how, plan.selected)]
                 \in [Runner -> Transition]
    <3>1. Moved(target, how, plan.selected) \in Transition
      BY <2>1, MovedTyped DEF Plan
    <3> QED BY <2>1, <3>1 DEF Receipt
  <2>3. local' \in Receipt /\ pc' \in {"probe", "refused"}
    BY <1>14, <2>1, <2>2, RecordTyped DEF UpdateVerified, Applied, Outcome
  <2> QED
    BY <1>14, <2>3 DEF UpdateVerified, TypeOK, Presence, Working, hostVars, historyVars
<1>15. CASE UpdateUnverified
  <2>1. local' \in Receipt /\ pc' \in {"idle", "refused"}
    BY <1>9, <1>15 DEF UpdateUnverified, Outcome
  <2> QED
    BY <1>15, <2>1 DEF UpdateUnverified, TypeOK, Presence, Working, hostVars, historyVars
<1>16. CASE ProbePasses
  <2>1. local \in Receipt
    BY <1>16 DEF ProbePasses, TypeOK, Presence, Working
  <2> DEFINE trans == [local.trans EXCEPT ![target].probe = "passed"]
  <2>2. trans \in [Runner -> Transition]
    BY <2>1 DEF Receipt, Transition
  <2> DEFINE next == IF target = Canary THEN "observe" ELSE AfterHost(trans)
  <2>3. next \in {"observe", "finish", "idle"}
    BY DEF AfterHost
  <2>4. Record("in_progress", trans, next)
    BY <1>16 DEF ProbePasses
  <2>5. "in_progress" \in Outcome
    BY DEF Outcome
  <2> HIDE DEF trans, next
  <2>6. local' \in Receipt /\ pc' \in {next, "refused"}
    BY <2>1, <2>2, <2>4, <2>5, RecordTyped
  <2> QED
    BY <1>16, <2>3, <2>6 DEF ProbePasses, TypeOK, Presence, Working, hostVars
<1>17. CASE ProbeFails
  <2>1. local \in Receipt
    BY <1>17 DEF ProbeFails, TypeOK, Presence, Working
  <2>2. PICK result \in {"failed", "timeout"} :
          Record("failed",
                 [local.trans EXCEPT ![target] =
                    [@ EXCEPT !.probe = result, !.observation = "not_required"]],
                 "idle")
    BY <1>17 DEF ProbeFails
  <2>3. [local.trans EXCEPT ![target] =
           [@ EXCEPT !.probe = result, !.observation = "not_required"]]
          \in [Runner -> Transition]
    BY <2>1, <2>2 DEF Receipt, Transition
  <2>4. local' \in Receipt /\ pc' \in {"idle", "refused"}
    BY <2>1, <2>2, <2>3, RecordTyped DEF Outcome
  <2> QED
    BY <1>17, <2>4 DEF ProbeFails, TypeOK, Presence, Working, hostVars
<1>18. CASE ObservationEnds
  <2>1. local \in Receipt
    BY <1>18 DEF ObservationEnds, TypeOK, Presence, Working
  <2> DEFINE trans == [local.trans EXCEPT ![target].observation = "passed"]
  <2>2. trans \in [Runner -> Transition]
    BY <2>1 DEF Receipt, Transition
  <2>3. Record("in_progress", trans, AfterHost(trans))
    BY <1>18 DEF ObservationEnds
  <2>4. AfterHost(trans) \in {"finish", "idle"}
    BY DEF AfterHost
  <2> HIDE DEF trans
  <2>5. local' \in Receipt /\ pc' \in {AfterHost(trans), "refused"}
    BY <2>1, <2>2, <2>3, RecordTyped DEF Outcome
  <2> QED
    BY <1>18, <2>4, <2>5 DEF ObservationEnds, TypeOK, Presence, Working, hostVars
<1>19. CASE ObservationInterrupted
  <2>1. local \in Receipt
    BY <1>19 DEF ObservationInterrupted, TypeOK, Presence, Working
  <2>2. local' \in Receipt /\ pc' \in {"idle", "refused"}
    BY <1>19, <2>1, RecordTyped DEF ObservationInterrupted, Fail, Receipt, Outcome
  <2> QED
    BY <1>19, <2>2 DEF ObservationInterrupted, TypeOK, Presence, Working, hostVars, historyVars
<1>20. CASE Finish
  <2>1. local \in Receipt
    BY <1>20 DEF Finish, TypeOK, Presence, Working
  <2>2. local' \in Receipt /\ pc' \in {"idle", "refused"}
    BY <1>20, <2>1, RecordTyped DEF Finish, Receipt, Outcome
  <2> QED
    BY <1>20, <2>2 DEF Finish, TypeOK, Presence, Working, hostVars, historyVars
<1>21. CASE Reconcile
  BY <1>21, ReconcileTyped DEF Reconcile, TypeOK, Presence, Working, hostVars, historyVars
<1>22. CASE Upload
  <2>1. local \in Receipt /\ plan \in Plan
    BY <1>22 DEF Upload, TypeOK, Presence
  <2>2. source' \in Source \cup {NoSource}
    BY <1>22, <2>1 DEF Upload, TypeOK, Source, Receipt, Plan
  <2> QED
    BY <1>22, <2>1, <2>2 DEF Upload, TypeOK, Presence, Working, hostVars, historyVars
<1>23. CASE JobEnds
  BY <1>23 DEF JobEnds, TypeOK, Presence, Working, hostVars, historyVars
<1>24. ASSUME Dies, local # NoReceipt
       PROVE  live' \in [Runner -> Releases] /\ up' \subseteq Runner
  <2>1. CASE pc = "draining"
    BY <1>12, <1>24, <2>1 DEF Dies
  <2> QED BY <1>24, <2>1 DEF Dies, TypeOK, hostVars
<1>25. CASE Crash
  BY <1>24, <1>25 DEF Crash, Dies, TypeOK, Presence, Working, historyVars
<1>26. CASE JobLost
  BY <1>24, <1>26 DEF JobLost, Dies, TypeOK, Presence, Working, historyVars
<1>27. CASE HostStops
  BY <1>27 DEF HostStops, TypeOK, Presence, Working, recordVars, historyVars
<1>28. CASE HostReturns
  BY <1>28 DEF HostReturns, TypeOK, Presence, Working, recordVars, historyVars
<1>29. CASE UNCHANGED vars
  BY <1>29 DEF vars, hostVars, recordVars, historyVars, TypeOK, Presence, Working
<1> QED
  BY <1>1, <1>2, <1>3, <1>4, <1>5, <1>6, <1>7, <1>8, <1>10, <1>11, <1>13, <1>14,
     <1>15, <1>16, <1>17, <1>18, <1>19, <1>20, <1>21, <1>22, <1>23, <1>25, <1>26,
     <1>27, <1>28, <1>29
  DEF Next, UpdateHost, ProveHost

\* Every variable keeps its type, and nothing is absent that goes with
\* something present: for every fleet and every set of faults.
THEOREM TypeCorrect == Spec => []TypeOK
<1>1. Spec => []TypedInv
  BY TypedInit, TypedStep, PTL DEF Spec
<1>2. TypedInv => TypeOK
  BY DEF TypedInv
<1> QED BY <1>1, <1>2, PTL

-----------------------------------------------------------------------------
(***************************************************************************)
(* The capacity floor                                                      *)
(***************************************************************************)
\* The spare host that the capacity check saw is still there when the drain
\* starts.
SpareInv ==
  "host_drops" \notin Faults =>
    /\ pc = "update" => Cardinality(up) >= MinAvailable + 1
    /\ pc = "draining" => Cardinality(up) >= MinAvailable

LEMMA HostsFinite ==
  ASSUME TypeOK
  PROVE  /\ IsFiniteSet(up) /\ Cardinality(up) \in Nat
         /\ \A r : /\ Cardinality(up \ {r}) \in Nat
                  /\ Cardinality(up \ {r}) >= Cardinality(up) - 1
         /\ \A r : /\ Cardinality(up \cup {r}) \in Nat
                  /\ Cardinality(up \cup {r}) >= Cardinality(up)
<1>1. IsFiniteSet(Runner)
  BY FleetAssumption, FS_Interval DEF Runner
<1>2. IsFiniteSet(up)
  BY <1>1, FS_Subset DEF TypeOK
<1>3. Cardinality(up) \in Nat
  BY <1>2, FS_CardinalityType
<1>4. ASSUME NEW r
      PROVE  /\ Cardinality(up \ {r}) \in Nat
             /\ Cardinality(up \ {r}) >= Cardinality(up) - 1
  <2>1. /\ IsFiniteSet(up \ {r})
        /\ \/ Cardinality(up \ {r}) = Cardinality(up) - 1
           \/ Cardinality(up \ {r}) = Cardinality(up)
    BY <1>2, FS_RemoveElement
  <2>2. Cardinality(up \ {r}) \in Nat
    BY <2>1, FS_CardinalityType
  <2> QED BY <1>3, <2>1, <2>2
<1>5. ASSUME NEW r
      PROVE  /\ Cardinality(up \cup {r}) \in Nat
             /\ Cardinality(up \cup {r}) >= Cardinality(up)
  BY <1>2, <1>3, FS_AddElement, FS_CardinalityType
<1> QED BY <1>2, <1>3, <1>4, <1>5

LEMMA SpareStep == TypedInv /\ SpareInv /\ [Next]_vars => SpareInv'
<1> SUFFICES ASSUME TypedInv, SpareInv, [Next]_vars, "host_drops" \notin Faults
             PROVE  /\ pc' = "update" => Cardinality(up') >= MinAvailable + 1
                    /\ pc' = "draining" => Cardinality(up') >= MinAvailable
  BY DEF SpareInv
<1> USE DEF SpareInv
<1>1. TypeOK /\ MinAvailable \in Nat
  BY CapacityAssumption, FleetAssumption DEF TypedInv
<1> DEFINE Spared == /\ pc' = "update" => Cardinality(up') >= MinAvailable + 1
                     /\ pc' = "draining" => Cardinality(up') >= MinAvailable
<1>2. ASSUME pc' \notin {"update", "draining"} PROVE Spared
  BY <1>2
<1>3. ASSUME pc = "idle", pc' = pc PROVE Spared
  BY <1>3
<1>4. ASSUME NEW outcome, NEW trans, NEW next, next \notin {"update", "draining"},
             Record(outcome, trans, next)
      PROVE  Spared
  BY <1>2, <1>4 DEF Record
<1>5. CASE Collect \/ Resume \/ Rollback \/ Reconcile \/ Upload \/ JobEnds
           \/ \E rel \in Releases : Deploy(rel)
  BY <1>3, <1>5
  DEF Collect, Resume, Rollback, Deploy, Admit, Reconcile, Upload, JobEnds
<1>6. CASE Execute
  BY <1>2, <1>6 DEF Execute
<1>7. CASE CapacityFree
  BY <1>7 DEF CapacityFree, hostVars
<1>8. CASE UpdateStarts
  BY <1>1, <1>8, HostsFinite DEF UpdateStarts
<1>9. CASE UpdateReturns
  BY <1>2, <1>9 DEF UpdateReturns
<1>10. CASE CapacityShort \/ UpdateRefused \/ UpdateInterrupted \/ UpdateVerified
            \/ UpdateUnverified \/ ProbeFails \/ ObservationInterrupted \/ Finish
  BY <1>4, <1>10
  DEF CapacityShort, UpdateRefused, UpdateInterrupted, UpdateVerified, UpdateUnverified,
      ProbeFails, ObservationInterrupted, Finish, Fail, LoseTarget
<1>11. CASE ProbePasses \/ ObservationEnds
  <2>1. \A trans : AfterHost(trans) \notin {"update", "draining"}
    BY DEF AfterHost
  <2> QED BY <1>4, <1>11, <2>1 DEF ProbePasses, ObservationEnds
<1>12. CASE Crash \/ JobLost
  BY <1>2, <1>12 DEF Crash, JobLost, Dies
<1>13. CASE HostStops
  BY <1>3, <1>13 DEF HostStops
<1>14. CASE HostReturns
  <2>1. PICK r : up' = up \cup {r} /\ pc' = pc
    BY <1>14 DEF HostReturns
  <2>2. /\ Cardinality(up) \in Nat /\ Cardinality(up') \in Nat
        /\ Cardinality(up') >= Cardinality(up)
    BY <1>1, <2>1, HostsFinite
  <2> QED BY <1>1, <2>1, <2>2
<1>15. CASE UNCHANGED vars
  BY <1>15 DEF vars, hostVars
<1> QED
  BY <1>5, <1>6, <1>7, <1>8, <1>9, <1>10, <1>11, <1>12, <1>13, <1>14, <1>15
  DEF Next, UpdateHost, ProveHost

\* Whatever the age of the evidence a command was admitted with, a drain leaves
\* minimumAvailable hosts in service, as long as hosts stop between commands
\* only.
THEOREM CapacityFloorHolds == Spec => []CapacityFloor
<1>1. Init => SpareInv
  BY DEF Init, SpareInv
<1>2. SpareInv => CapacityFloor
  BY DEF SpareInv, CapacityFloor
<1> QED
  BY <1>1, <1>2, TypedInit, TypedStep, SpareStep, PTL DEF Spec
===============================================================================
