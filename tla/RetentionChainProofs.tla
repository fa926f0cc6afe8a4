------------------------- MODULE RetentionChainProofs -------------------------
(***************************************************************************)
(* Proofs about RetentionChain, for every graph, floor, gap and bound: the *)
(* plans are well-formed, a candidate was watched and what was watched is  *)
(* a candidate, the observations that count form a line, and what is held  *)
(* is protected.                                                           *)
(***************************************************************************)
EXTENDS RetentionChain, FiniteSetTheorems, WellFoundedInduction, TLAPS

(* Plans are kept in a sequence, and the job is a record.                  *)
Shape ==
    /\ \E T : plans \in Seq(T)
    /\ DOMAIN job = {"step", "run", "inventory", "prior"}
    /\ job.step = "idle" => job = Idle

Inv == TypeOK /\ Shape

(* What a plan appended to the log leaves and adds.                        *)
LEMMA AppendPlan ==
    ASSUME NEW T, NEW s \in Seq(T), NEW e
    PROVE  /\ Append(s, e) \in Seq(T \cup {e})
           /\ Len(Append(s, e)) = Len(s) + 1
           /\ DOMAIN s = 1..Len(s) /\ Len(s) \in Nat
           /\ DOMAIN Append(s, e) = 1..(Len(s) + 1)
           /\ \A i \in 1..Len(s) : Append(s, e)[i] = s[i]
           /\ Append(s, e)[Len(s) + 1] = e
<1>1. s \in Seq(T \cup {e}) /\ e \in T \cup {e}
  OBVIOUS
<1> QED
  BY <1>1

LEMMA PlansDomain == Shape => DOMAIN plans = 1..Len(plans) /\ Len(plans) \in Nat
BY DEF Shape

(* A change to the registry or to the run list keeps the plans' types.     *)
LEMMA PlansKept ==
    ASSUME TypeOK, Shape, plans' = plans, now' \in Nat, now <= now',
           DOMAIN runs \subseteq DOMAIN runs',
           \A r \in DOMAIN runs : runs'[r].attempt \in Nat /\ runs[r].attempt <= runs'[r].attempt
    PROVE  \A i \in DOMAIN plans' : PlanOK(plans[i])' /\ (plans[i].previous \in 0..(i - 1))'
<1> SUFFICES ASSUME NEW i \in DOMAIN plans
    PROVE PlanOK(plans[i])' /\ (plans[i].previous \in 0..(i - 1))'
  OBVIOUS
<1>1. PlanOK(plans[i]) /\ plans[i].previous \in 0..(i - 1)
  BY DEF TypeOK
<1>2. now \in Nat /\ MaxTime \in Nat
  BY RetentionBounds DEF TypeOK
<1>3. runs \in Seq(Run) /\ events \in Nat
  BY RetentionBounds DEF TypeOK
<1>4. plans[i].run \in DOMAIN runs'
  BY <1>1 DEF PlanOK
<1>5. plans[i].attempt \in 1..runs'[plans[i].run].attempt
  <2>1. plans[i].run \in DOMAIN runs /\ plans[i].attempt \in 1..runs[plans[i].run].attempt
    BY <1>1 DEF PlanOK
  <2>2. runs[plans[i].run] \in Run
    BY <1>3, <2>1
  <2>3. runs[plans[i].run].attempt \in Nat
    BY <1>3, <2>2 DEF Run
  <2>4. /\ runs'[plans[i].run].attempt \in Nat
        /\ runs[plans[i].run].attempt <= runs'[plans[i].run].attempt
    BY <2>1
  <2> QED
    BY <2>1, <2>3, <2>4
<1>6. plans[i].time \in 0..now'
  BY <1>1, <1>2 DEF PlanOK
<1> QED
  BY <1>1, <1>4, <1>5, <1>6 DEF PlanOK

-------------------------------------------------------------------------------
LEMMA SeqGrows == ASSUME NEW S, NEW T, S \subseteq T, NEW s \in Seq(S) PROVE s \in Seq(T)
OBVIOUS

(* The types of what a run list, a clock and a count of events bound.      *)
LEMMA RunGrows == ASSUME events \in Nat, events' \in Nat, events <= events' PROVE Run \subseteq Run'
BY DEF Run

LEMMA EntryGrows == ASSUME now \in Nat, now' \in Nat, now <= now' PROVE Entry \subseteq Entry'
BY DEF Entry

LEMMA NatTypes ==
    ASSUME TypeOK
    PROVE  /\ now \in Nat /\ events \in Nat /\ MaxTime \in Nat /\ MaxEvents \in Nat
           /\ DOMAIN runs = 1..Len(runs) /\ Len(runs) \in Nat
           /\ \A r \in DOMAIN runs : runs[r] \in Run
           /\ \A r \in DOMAIN runs : runs[r].attempt \in Nat /\ runs[r].attempt >= 1
<1>1. now \in Nat /\ events \in Nat /\ MaxTime \in Nat /\ MaxEvents \in Nat
  BY RetentionBounds DEF TypeOK
<1>2. runs \in Seq(Run)
  BY DEF TypeOK
<1>3. DOMAIN runs = 1..Len(runs) /\ Len(runs) \in Nat /\ \A r \in DOMAIN runs : runs[r] \in Run
  BY <1>2
<1>4. \A r \in DOMAIN runs : runs[r].attempt \in Nat /\ runs[r].attempt >= 1
  BY <1>1, <1>3 DEF Run
<1> QED
  BY <1>1, <1>3, <1>4

LEMMA InitOK == Init => Inv
<1> SUFFICES ASSUME Init PROVE Inv
  OBVIOUS
<1>1. runs = << >> /\ plans = << >> /\ now = 0 /\ events = 0 /\ job = Idle
  BY DEF Init
<1>2. Shape
  <2>1. plans \in Seq({}) /\ DOMAIN job = {"step", "run", "inventory", "prior"}
    BY <1>1 DEF Idle
  <2> QED
    BY <1>1, <2>1 DEF Shape
<1>3. registry \in [Versions -> Entry]
  <2>1. {0} \subseteq 0..now /\ {1} \subseteq Nat /\ {TRUE} \subseteq BOOLEAN
    <3>1. 0 \in 0..now
      BY <1>1
    <3> QED
      BY <3>1
  <2>2. [present : {TRUE}, id : {1}, created : {0}, tagged : BOOLEAN] \subseteq Entry
    BY <2>1, Zenon DEF Entry
  <2> QED
    BY <2>2 DEF Init
<1>4. JobOK
  <2>1. DOMAIN runs = {} /\ Len(runs) = 0 /\ Len(plans) = 0
    BY <1>1
  <2>2. /\ job.step = "idle" /\ job.run = 0 /\ job.prior = 0
        /\ job.inventory = << >> /\ DOMAIN job.inventory = {}
    BY <1>1 DEF Idle
  <2> QED
    BY <2>1, <2>2 DEF JobOK
<1>5. graph \in Graphs
  BY DEF Init
<1>6. now \in 0..MaxTime /\ events \in 0..MaxEvents /\ runs \in Seq(Run) /\ Len(runs) <= MaxRuns
  BY <1>1, RetentionBounds
<1>7. DOMAIN plans = {}
  BY <1>1
<1> QED
  BY <1>2, <1>3, <1>4, <1>5, <1>6, <1>7 DEF Inv, TypeOK

LEMMA TickOK == Inv /\ Tick => Inv'
<1> SUFFICES ASSUME Inv, Tick PROVE Inv'
  OBVIOUS
<1>1. /\ now < MaxTime /\ now' = now + 1
      /\ UNCHANGED <<graph, registry, runs, plans, job, events>>
  BY DEF Tick
<1>2. TypeOK /\ Shape /\ JobOK
  BY DEF Inv, TypeOK
<1>3. now' \in Nat /\ now <= now' /\ now' \in 0..MaxTime
  BY <1>1, <1>2, NatTypes
<1>4. Run' = Run
  BY <1>1 DEF Run
<1>5. Entry \subseteq Entry'
  BY <1>2, <1>3, NatTypes, EntryGrows
<1>6. registry' \in [Versions -> Entry']
  BY <1>1, <1>2, <1>5 DEF TypeOK
<1>7. JobOK'
  BY <1>1, <1>2, <1>5 DEF JobOK
<1>8. \A i \in DOMAIN plans' : PlanOK(plans[i])' /\ (plans[i].previous \in 0..(i - 1))'
  BY <1>1, <1>2, <1>3, NatTypes, PlansKept
<1> QED
  BY <1>1, <1>2, <1>3, <1>4, <1>6, <1>7, <1>8 DEF Inv, TypeOK, Shape

LEMMA ChangeOK ==
    ASSUME Inv, NEW v \in Versions, NEW entry \in Entry, Change(v, entry)
    PROVE  Inv'
<1>1. /\ events < MaxEvents /\ events' = events + 1
      /\ registry' = [registry EXCEPT ![v] = entry]
      /\ UNCHANGED <<now, graph, runs, plans, job>>
  BY DEF Change, Disturb
<1>2. TypeOK /\ Shape /\ JobOK
  BY DEF Inv, TypeOK
<1>3. Entry' = Entry
  BY <1>1 DEF Entry
<1>4. registry' \in [Versions -> Entry']
  BY <1>1, <1>2, <1>3 DEF TypeOK
<1>5. events' \in 0..MaxEvents /\ events <= events' /\ events' \in Nat
  BY <1>1, <1>2, NatTypes
<1>6. runs' \in Seq(Run')
  BY <1>1, <1>2, <1>5, NatTypes, RunGrows, SeqGrows DEF TypeOK
<1>7. JobOK'
  BY <1>1, <1>2, <1>3 DEF JobOK
<1>8. \A i \in DOMAIN plans' : PlanOK(plans[i])' /\ (plans[i].previous \in 0..(i - 1))'
  BY <1>1, <1>2, NatTypes, PlansKept
<1> QED
  BY <1>1, <1>2, <1>4, <1>5, <1>6, <1>7, <1>8 DEF Inv, TypeOK, Shape

LEMMA RegistryOK ==
    ASSUME Inv, NEW v \in Versions,
           Retag(v) \/ Delete(v) \/ \E tag \in BOOLEAN : Push(v, tag)
    PROVE  Inv'
<1>1. registry \in [Versions -> Entry] /\ now \in Nat
  BY NatTypes DEF Inv, TypeOK
<1>2. /\ registry[v].present \in BOOLEAN /\ registry[v].id \in Nat
      /\ registry[v].created \in 0..now /\ registry[v].tagged \in BOOLEAN
      /\ registry[v] \in Entry
  BY <1>1 DEF Entry
<1>3. CASE Retag(v)
  <2>1. [registry[v] EXCEPT !.tagged = ~ @] \in Entry
    BY <1>2 DEF Entry
  <2> QED
    BY <1>3, <2>1, ChangeOK DEF Retag
<1>4. CASE Delete(v)
  <2>1. [registry[v] EXCEPT !.present = FALSE, !.tagged = FALSE] \in Entry
    BY <1>2 DEF Entry
  <2> QED
    BY <1>4, <2>1, ChangeOK DEF Delete
<1>5. ASSUME NEW tag \in BOOLEAN, Push(v, tag) PROVE Inv'
  <2>1. [present |-> TRUE, id |-> registry[v].id + 1, created |-> now, tagged |-> tag] \in Entry
    BY <1>1, <1>2 DEF Entry
  <2> QED
    BY <1>5, <2>1, ChangeOK DEF Push
<1> QED
  BY <1>3, <1>4, <1>5

-------------------------------------------------------------------------------
(* The run list after a job begins, or a run ends.                         *)
LEMMA FromOne == \A n \in Nat : 1 \in 1..(n + 1)
OBVIOUS

LEMMA TriggerOK == ASSUME Inv, NEW main \in BOOLEAN, Trigger(main) PROVE Inv'
<1> DEFINE new == [main |-> main, attempt |-> 1, conclusion |-> "running"]
<1> HIDE DEF new
<1>1. /\ job = Idle /\ Len(runs) < MaxRuns
      /\ events' = events \/ (events < MaxEvents /\ events' = events + 1)
      /\ runs' = Append(runs, new)
      /\ job' = [Idle EXCEPT !.step = "snapshot", !.run = Len(runs) + 1]
      /\ UNCHANGED <<now, graph, registry, plans>>
  BY DEF Trigger, Begin, Disturb, new
<1>2. TypeOK /\ Shape /\ JobOK
  BY DEF Inv, TypeOK
<1>3. events' \in 0..MaxEvents /\ events <= events' /\ events' \in Nat
  BY <1>1, <1>2, NatTypes DEF TypeOK
<1>4. runs \in Seq(Run')
  BY <1>2, <1>3, NatTypes, RunGrows, SeqGrows DEF TypeOK
<1>5. new \in Run'
  <2>1. 1 \in 1..(events' + 1)
    <3>1. events' \in Nat
      BY <1>3
    <3> QED
      BY <3>1, FromOne
  <2> QED
    BY <2>1 DEF Run, new
<1>6. /\ runs' \in Seq(Run') /\ Len(runs') = Len(runs) + 1
      /\ DOMAIN runs' = 1..(Len(runs) + 1) /\ DOMAIN runs = 1..Len(runs) /\ Len(runs) \in Nat
      /\ \A r \in DOMAIN runs : runs'[r] = runs[r]
      /\ runs'[Len(runs) + 1] = new
  BY <1>1, <1>4, <1>5
<1>7. \A r \in DOMAIN runs : runs'[r].attempt \in Nat /\ runs[r].attempt <= runs'[r].attempt
  BY <1>2, <1>6, NatTypes
<1>8. \A i \in DOMAIN plans' : PlanOK(plans[i])' /\ (plans[i].previous \in 0..(i - 1))'
  BY <1>1, <1>2, <1>6, <1>7, NatTypes, PlansKept
<1>9. JobOK'
  <2>1. /\ job'.step = "snapshot" /\ job'.run = Len(runs) + 1 /\ job'.prior = 0
        /\ DOMAIN job'.inventory = {}
    BY <1>1 DEF Idle
  <2>2. \A r \in DOMAIN runs : runs[r].conclusion # "running"
    <3>1. job.run = 0
      BY <1>1 DEF Idle
    <3> QED
      BY <1>2, <1>6, <3>1 DEF JobOK
  <2>3. \A r \in DOMAIN runs' : runs'[r].conclusion = "running" <=> r = job'.run
    <3> SUFFICES ASSUME NEW r \in DOMAIN runs'
        PROVE runs'[r].conclusion = "running" <=> r = job'.run
      OBVIOUS
    <3>1. CASE r \in DOMAIN runs
      <4>1. runs'[r] = runs[r] /\ runs[r].conclusion # "running" /\ r # Len(runs) + 1
        BY <1>6, <2>2, <3>1
      <4> QED
        BY <2>1, <4>1
    <3>2. CASE r = Len(runs) + 1
      <4>1. runs'[r].conclusion = "running"
        BY <1>6, <3>2 DEF new
      <4> QED
        BY <2>1, <3>2, <4>1
    <3> QED
      BY <1>6, <3>1, <3>2
  <2>4. job'.run \in 0..Len(runs') /\ job'.run # 0
    BY <1>6, <2>1
  <2>5. job'.prior \in 0..Len(plans')
    BY <1>1, <1>2, <2>1 DEF JobOK
  <2> QED
    BY <2>1, <2>3, <2>4, <2>5 DEF JobOK
<1>10. registry' \in [Versions -> Entry'] /\ now' \in 0..MaxTime /\ graph' \in Graphs
  BY <1>1, <1>2 DEF TypeOK, Entry
<1>11. Len(runs') <= MaxRuns
  BY <1>1, <1>6, RetentionBounds
<1>12. Shape'
  BY <1>1, <1>2 DEF Shape, Idle
<1> QED
  BY <1>3, <1>6, <1>8, <1>9, <1>10, <1>11, <1>12 DEF Inv, TypeOK

LEMMA RerunOK == ASSUME Inv, NEW r \in DOMAIN runs, Rerun(r) PROVE Inv'
<1>1. /\ job = Idle /\ events < MaxEvents /\ events' = events + 1
      /\ runs' = [runs EXCEPT ![r].attempt = @ + 1, ![r].conclusion = "running"]
      /\ job' = [Idle EXCEPT !.step = "snapshot", !.run = r]
      /\ UNCHANGED <<now, graph, registry, plans>>
  BY DEF Rerun, Begin, Disturb
<1>2. TypeOK /\ Shape /\ JobOK
  BY DEF Inv, TypeOK
<1>3. events' \in 0..MaxEvents /\ events <= events' /\ events' \in Nat /\ events' = events + 1
  BY <1>1, <1>2, NatTypes
<1>4. runs \in Seq(Run') /\ runs \in Seq(Run)
  BY <1>2, <1>3, NatTypes, RunGrows, SeqGrows DEF TypeOK
<1>5. /\ runs[r].main \in BOOLEAN /\ runs[r].attempt \in 1..(events + 1) /\ runs[r] \in Run
  <2>1. runs[r] \in Run
    BY <1>2, NatTypes
  <2> QED
    BY <2>1 DEF Run
<1> DEFINE again == [runs[r] EXCEPT !.attempt = @ + 1, !.conclusion = "running"]
<1>6. again \in Run'
  <2>1. runs[r].attempt + 1 \in 1..(events' + 1)
    BY <1>2, <1>3, <1>5, NatTypes
  <2>2. [runs[r] EXCEPT !.attempt = runs[r].attempt + 1] \in Run'
    BY <1>5, <2>1 DEF Run
  <2> QED
    BY <1>5, <2>1, <2>2 DEF Run
<1>7. runs' = [runs EXCEPT ![r] = again]
  BY <1>1
<1>a. again.attempt = runs[r].attempt + 1 /\ again.conclusion = "running"
  BY <1>5 DEF Run
<1> HIDE DEF again
<1>8. /\ runs' \in Seq(Run') /\ Len(runs') = Len(runs) /\ DOMAIN runs' = DOMAIN runs
      /\ DOMAIN runs = 1..Len(runs) /\ Len(runs) \in Nat
      /\ \A s \in DOMAIN runs \ {r} : runs'[s] = runs[s]
      /\ runs'[r] = again
  BY <1>4, <1>6, <1>7
<1>9. \A s \in DOMAIN runs : runs'[s].attempt \in Nat /\ runs[s].attempt <= runs'[s].attempt
  <2> SUFFICES ASSUME NEW s \in DOMAIN runs
      PROVE runs'[s].attempt \in Nat /\ runs[s].attempt <= runs'[s].attempt
    OBVIOUS
  <2>1. runs[s].attempt \in Nat
    BY <1>2, NatTypes
  <2>2. CASE s = r
    BY <1>8, <1>a, <2>1, <2>2
  <2>3. CASE s # r
    BY <1>8, <2>1, <2>3
  <2> QED
    BY <2>2, <2>3
<1>10. \A i \in DOMAIN plans' : PlanOK(plans[i])' /\ (plans[i].previous \in 0..(i - 1))'
  BY <1>1, <1>2, <1>8, <1>9, NatTypes, PlansKept
<1>11. JobOK'
  <2>1. /\ job'.step = "snapshot" /\ job'.run = r /\ job'.prior = 0
        /\ DOMAIN job'.inventory = {}
    BY <1>1 DEF Idle
  <2>2. \A s \in DOMAIN runs : runs[s].conclusion # "running"
    <3>1. job.run = 0
      BY <1>1 DEF Idle
    <3> QED
      BY <1>2, <1>8, <3>1 DEF JobOK
  <2>4. \A s \in DOMAIN runs' : runs'[s].conclusion = "running" <=> s = job'.run
    BY <1>8, <1>a, <2>1, <2>2
  <2>5. job'.run \in 0..Len(runs') /\ job'.run # 0
    BY <1>8, <2>1
  <2>6. job'.prior \in 0..Len(plans')
    BY <1>1, <1>2, <2>1 DEF JobOK
  <2> QED
    BY <2>1, <2>4, <2>5, <2>6 DEF JobOK
<1>12. registry' \in [Versions -> Entry'] /\ now' \in 0..MaxTime /\ graph' \in Graphs
  BY <1>1, <1>2 DEF TypeOK, Entry
<1>13. Len(runs') <= MaxRuns
  BY <1>2, <1>8 DEF TypeOK
<1>14. Shape'
  BY <1>1, <1>2 DEF Shape, Idle
<1> QED
  BY <1>3, <1>8, <1>10, <1>11, <1>12, <1>13, <1>14 DEF Inv, TypeOK

(* What a job at work stands on.                                           *)
LEMMA JobAtWork ==
    ASSUME TypeOK, job.step # "idle"
    PROVE  /\ job.run \in DOMAIN runs /\ job.run # 0 /\ runs[job.run] \in Run
           /\ \A v \in DOMAIN job.inventory : /\ job.inventory[v].created \in 0..now
                                             /\ job.inventory[v].id \in Nat
           /\ DOMAIN job.inventory \subseteq Versions
           /\ job.prior \in 0..Len(plans)
           /\ job.prior # 0 => runs[job.run].main
<1>1. JobOK /\ runs \in Seq(Run)
  BY DEF TypeOK
<1>2. job.run \in 0..Len(runs) /\ job.run # 0
  BY <1>1 DEF JobOK
<1>3. job.run \in DOMAIN runs
  BY <1>2, NatTypes
<1>4. ASSUME NEW v \in DOMAIN job.inventory
      PROVE job.inventory[v].created \in 0..now /\ job.inventory[v].id \in Nat
  <2>1. job.inventory[v] \in Entry
    BY <1>1 DEF JobOK
  <2> QED
    BY <2>1 DEF Entry
<1> QED
  BY <1>1, <1>2, <1>3, <1>4, NatTypes DEF JobOK

LEMMA SnapshotOK ==
    ASSUME Inv, PriorEvidenceLost \/ NoPriorEvidence \/ \E i \in DOMAIN plans : PriorEvidence(i)
    PROVE  Inv'
<1>1. PICK prior \in {0} \cup DOMAIN plans :
         /\ job.step = "snapshot"
         /\ job' = [job EXCEPT !.step = "plan", !.prior = prior,
                               !.inventory = [v \in Present |-> registry[v]]]
         /\ UNCHANGED <<now, graph, registry, runs, plans>>
         /\ prior # 0 => runs[job.run].main
         /\ events' = events \/ (events < MaxEvents /\ events' = events + 1)
  BY DEF PriorEvidenceLost, NoPriorEvidence, PriorEvidence, Snapshot, Disturb
<1>2. TypeOK /\ Shape /\ JobOK
  BY DEF Inv, TypeOK
<1>3. events' \in 0..MaxEvents /\ events <= events' /\ events' \in Nat
  BY <1>1, <1>2, NatTypes DEF TypeOK
<1>4. runs' \in Seq(Run')
  BY <1>1, <1>2, <1>3, NatTypes, RunGrows, SeqGrows DEF TypeOK
<1>5. \A i \in DOMAIN plans' : PlanOK(plans[i])' /\ (plans[i].previous \in 0..(i - 1))'
  BY <1>1, <1>2, NatTypes, PlansKept
<1>6. JobOK'
  <2>1. /\ job'.step = "plan" /\ job'.run = job.run /\ job'.prior = prior
        /\ job'.inventory = [v \in Present |-> registry[v]]
    BY <1>1, <1>2 DEF Shape
  <2>2. \A v \in Present : v \in Versions /\ registry[v] \in Entry
    BY <1>2 DEF TypeOK, Present
  <2>3. /\ DOMAIN job'.inventory \subseteq Versions
        /\ \A v \in DOMAIN job'.inventory : job'.inventory[v] \in Entry
    BY <2>1, <2>2
  <2>4. Entry' = Entry
    BY <1>1 DEF Entry
  <2>5. job'.run \in 0..Len(runs') /\ job'.run # 0
    BY <1>1, <1>2, <2>1 DEF JobOK
  <2>6. job'.prior \in 0..Len(plans') /\ (job'.prior # 0 => runs'[job'.run].main)
    BY <1>1, <1>2, <2>1, PlansDomain
  <2>7. \A r \in DOMAIN runs' : runs'[r].conclusion = "running" <=> r = job'.run
    BY <1>1, <1>2, <2>1 DEF JobOK
  <2> QED
    BY <2>1, <2>3, <2>4, <2>5, <2>6, <2>7 DEF JobOK
<1>7. Shape'
  BY <1>1, <1>2 DEF Shape
<1> QED
  BY <1>1, <1>2, <1>3, <1>4, <1>5, <1>6, <1>7 DEF Inv, TypeOK, Entry

(* A job that ends, with whatever conclusion.                              *)
LEMMA ConcludeOK ==
    ASSUME Inv, job.step # "idle", NEW conclusion \in {"success", "failure"}, Conclude(conclusion),
           events' = events \/ (events < MaxEvents /\ events' = events + 1)
    PROVE  Inv'
<1> DEFINE done == [runs[job.run] EXCEPT !.conclusion = conclusion]
<1>1. /\ runs' = [runs EXCEPT ![job.run] = done] /\ job' = Idle
      /\ UNCHANGED <<now, graph, registry, plans>>
  BY DEF Conclude
<1>2. TypeOK /\ Shape /\ JobOK
  BY DEF Inv, TypeOK
<1>3. events' \in 0..MaxEvents /\ events <= events' /\ events' \in Nat
  BY <1>2, NatTypes DEF TypeOK
<1>4. runs \in Seq(Run')
  BY <1>2, <1>3, NatTypes, RunGrows, SeqGrows DEF TypeOK
<1>5. job.run \in DOMAIN runs /\ runs[job.run] \in Run /\ runs[job.run] \in Run'
  BY <1>2, <1>3, JobAtWork, NatTypes, RunGrows
<1>6. done \in Run' /\ done.attempt = runs[job.run].attempt /\ done.conclusion = conclusion
  BY <1>5 DEF Run
<1> HIDE DEF done
<1>7. /\ runs' \in Seq(Run') /\ Len(runs') = Len(runs) /\ DOMAIN runs' = DOMAIN runs
      /\ \A s \in DOMAIN runs \ {job.run} : runs'[s] = runs[s]
      /\ runs'[job.run] = done
  BY <1>1, <1>4, <1>5, <1>6
<1>8. \A s \in DOMAIN runs : runs'[s].attempt \in Nat /\ runs[s].attempt <= runs'[s].attempt
  <2> SUFFICES ASSUME NEW s \in DOMAIN runs
      PROVE runs'[s].attempt \in Nat /\ runs[s].attempt <= runs'[s].attempt
    OBVIOUS
  <2>1. runs[s].attempt \in Nat
    BY <1>2, NatTypes
  <2>2. runs'[s].attempt = runs[s].attempt
    BY <1>6, <1>7
  <2> QED
    BY <2>1, <2>2
<1>9. \A i \in DOMAIN plans' : PlanOK(plans[i])' /\ (plans[i].previous \in 0..(i - 1))'
  BY <1>1, <1>2, <1>7, <1>8, NatTypes, PlansKept
<1>10. JobOK'
  <2>1. /\ job'.step = "idle" /\ job'.run = 0 /\ job'.prior = 0
        /\ job'.inventory = << >> /\ DOMAIN job'.inventory = {}
    BY <1>1 DEF Idle
  <2>2. DOMAIN runs' = 1..Len(runs) /\ Len(runs) \in Nat /\ Len(runs') = Len(runs)
    BY <1>2, <1>7, NatTypes
  <2>3. ASSUME NEW s \in DOMAIN runs' PROVE runs'[s].conclusion # "running" /\ s # 0
    <3>1. s # 0
      BY <2>2
    <3>2. CASE s = job.run
      BY <1>6, <1>7, <3>1, <3>2
    <3>3. CASE s # job.run
      BY <1>2, <1>7, <3>1, <3>3 DEF JobOK
    <3> QED
      BY <3>2, <3>3
  <2>4. job'.run \in 0..Len(runs') /\ job'.prior \in 0..Len(plans')
    BY <1>1, <1>2, <2>1, <2>2, PlansDomain
  <2> QED
    BY <2>1, <2>3, <2>4 DEF JobOK
<1>11. registry' \in [Versions -> Entry'] /\ now' \in 0..MaxTime /\ graph' \in Graphs
  BY <1>1, <1>2 DEF TypeOK, Entry
<1>12. Len(runs') <= MaxRuns
  BY <1>2, <1>7 DEF TypeOK
<1>13. Shape'
  BY <1>1, <1>2 DEF Shape, Idle
<1> QED
  BY <1>3, <1>7, <1>9, <1>10, <1>11, <1>12, <1>13 DEF Inv, TypeOK

LEMMA EndOK == Inv /\ (Preview \/ Refuse \/ Fail) => Inv'
<1> SUFFICES ASSUME Inv, Preview \/ Refuse \/ Fail PROVE Inv'
  OBVIOUS
<1>1. job.step # "idle"
  <2>1. JobOK /\ Shape
    BY DEF Inv, TypeOK
  <2>2. CASE Preview
    BY <2>2 DEF Preview
  <2>3. CASE Refuse
    BY <2>3 DEF Refuse
  <2>4. CASE Fail
    BY <2>1, <2>4 DEF Fail, Shape
  <2> QED
    BY <2>2, <2>3, <2>4
<1> QED
  BY <1>1, ConcludeOK DEF Preview, Refuse, Fail, Disturb

-------------------------------------------------------------------------------
(* The plan that the action Plan appends.                                  *)
NewPlan ==
    [run |-> job.run, attempt |-> runs[job.run].attempt, time |-> now,
     status |-> ChainStatus, previous |-> Predecessor,
     ids |-> [v \in DOMAIN job.inventory |-> job.inventory[v].id],
     first |-> [v \in Untagged |-> FirstObserved(v)],
     protected |-> Protected, candidates |-> Candidates]

LEMMA NewPlanFields ==
    /\ NewPlan.run = job.run /\ NewPlan.attempt = runs[job.run].attempt
    /\ NewPlan.time = now /\ NewPlan.status = ChainStatus /\ NewPlan.previous = Predecessor
    /\ NewPlan.ids = [v \in DOMAIN job.inventory |-> job.inventory[v].id]
    /\ NewPlan.first = [v \in Untagged |-> FirstObserved(v)]
    /\ NewPlan.protected = Protected /\ NewPlan.candidates = Candidates
BY DEF NewPlan

LEMMA StatusOf ==
    ASSUME runs[job.run].main \in BOOLEAN, job.prior # 0 => runs[job.run].main
    PROVE  /\ ChainStatus \in PlanStatus
           /\ ChainStatus # "non_main_source" <=> runs[job.run].main
<1>1. CASE ~ runs[job.run].main
  BY <1>1, Zenon DEF ChainStatus, PlanStatus
<1>2. CASE runs[job.run].main /\ job.prior = 0
  <2>1. ChainStatus = "missing_prior_evidence"
    BY <1>2, Zenon DEF ChainStatus
  <2> QED
    BY <1>2, <2>1 DEF PlanStatus
<1>3. CASE runs[job.run].main /\ job.prior # 0 /\ Predecessor = 0
  <2>1. ChainStatus = "untrusted_or_discontinuous_prior_evidence"
    BY <1>3, Zenon DEF ChainStatus
  <2> QED
    BY <1>3, <2>1 DEF PlanStatus
<1>4. CASE runs[job.run].main /\ job.prior # 0 /\ Predecessor # 0
  <2>1. ChainStatus = "continued"
    BY <1>4, Zenon DEF ChainStatus
  <2> QED
    BY <1>4, <2>1 DEF PlanStatus
<1> QED
  BY <1>1, <1>2, <1>3, <1>4

(* What the chain continues is an earlier plan on main, within the gap.    *)
LEMMA PredecessorOK ==
    ASSUME Inv, job.step = "plan"
    PROVE  /\ Predecessor \in 0..Len(plans)
           /\ Predecessor # 0 => /\ Predecessor \in DOMAIN plans /\ PlanOK(plans[Predecessor])
                                 /\ OnMain(Predecessor)
                                 /\ plans[Predecessor].time < now
                                 /\ now - plans[Predecessor].time <= MaximumGap
                                 /\ runs[job.run].main
<1>1. TypeOK /\ Shape
  BY DEF Inv
<1>2. job.prior \in 0..Len(plans) /\ (job.prior # 0 => runs[job.run].main)
  BY <1>1, JobAtWork
<1>3. Predecessor = 0 \/ Predecessor = job.prior
  BY DEF Predecessor
<1>4. Predecessor # 0 => /\ plans[Predecessor].time < now
                        /\ now - plans[Predecessor].time <= MaximumGap
                        /\ OnMain(Predecessor)
  BY DEF Predecessor, OnMain
<1>5. DOMAIN plans = 1..Len(plans) /\ Len(plans) \in Nat
  BY <1>1, PlansDomain
<1>6. Predecessor # 0 => Predecessor \in DOMAIN plans
  BY <1>2, <1>3, <1>5
<1> QED
  BY <1>1, <1>2, <1>3, <1>4, <1>5, <1>6 DEF TypeOK

(* An observation lies between its predecessor's, or now, and now.         *)
LEMMA FirstOK ==
    ASSUME Inv, job.step = "plan", NEW v \in DOMAIN job.inventory
    PROVE  /\ FirstObserved(v) \in 0..now
           /\ Observed(Predecessor, v) => FirstObserved(v) >= plans[Predecessor].first[v]
           /\ ~ Observed(Predecessor, v) => FirstObserved(v) = now
<1>1. TypeOK /\ now \in Nat
  BY NatTypes DEF Inv
<1>2. job.inventory[v].created \in 0..now
  BY <1>1, JobAtWork
<1>3. CASE Observed(Predecessor, v)
  <2>1. Predecessor # 0 /\ v \in DOMAIN plans[Predecessor].first
    BY <1>3 DEF Observed
  <2>2. PlanOK(plans[Predecessor])
    BY <2>1, PredecessorOK
  <2>3. plans[Predecessor].first[v] \in 0..now
    BY <1>1, <2>1, <2>2 DEF PlanOK
  <2>4. FirstObserved(v) = Later(plans[Predecessor].first[v], job.inventory[v].created)
    BY <1>3 DEF FirstObserved
  <2> QED
    BY <1>1, <1>2, <1>3, <2>3, <2>4 DEF Later
<1>4. CASE ~ Observed(Predecessor, v)
  <2>1. FirstObserved(v) = Later(now, job.inventory[v].created)
    BY <1>4 DEF FirstObserved
  <2> QED
    BY <1>1, <1>2, <1>4, <2>1 DEF Later
<1> QED
  BY <1>3, <1>4

LEMMA PlanStepFacts ==
    ASSUME Inv, Plan
    PROVE  /\ job.step = "plan" /\ plans' = Append(plans, NewPlan)
           /\ job' = [job EXCEPT !.step = "preview"]
           /\ UNCHANGED <<now, graph, registry, runs, events>>
           /\ DOMAIN plans = 1..Len(plans) /\ Len(plans) \in Nat
           /\ DOMAIN plans' = 1..(Len(plans) + 1) /\ Len(plans') = Len(plans) + 1
           /\ \A i \in 1..Len(plans) : plans'[i] = plans[i]
           /\ plans'[Len(plans) + 1] = NewPlan
           /\ \E T : plans' \in Seq(T)
<1>1. /\ job.step = "plan" /\ plans' = Append(plans, NewPlan)
      /\ job' = [job EXCEPT !.step = "preview"]
      /\ UNCHANGED <<now, graph, registry, runs, events>>
  BY DEF Plan, NewPlan
<1>2. PICK T : plans \in Seq(T)
  BY DEF Inv, Shape
<1> HIDE DEF NewPlan
<1>3. plans' \in Seq(T \cup {NewPlan})
  BY <1>1, <1>2, AppendPlan
<1> QED
  BY <1>1, <1>2, <1>3, AppendPlan

LEMMA PlanStepOK == Inv /\ Plan => Inv'
<1> SUFFICES ASSUME Inv, Plan PROVE Inv'
  OBVIOUS
<1>1. TypeOK /\ Shape /\ JobOK
  BY DEF Inv, TypeOK
<1>2. /\ job.step = "plan" /\ job' = [job EXCEPT !.step = "preview"]
      /\ UNCHANGED <<now, graph, registry, runs, events>>
  BY PlanStepFacts
<1>3. /\ job.run \in DOMAIN runs /\ runs[job.run] \in Run
      /\ \A v \in DOMAIN job.inventory : job.inventory[v].id \in Nat
      /\ DOMAIN job.inventory \subseteq Versions
      /\ job.prior # 0 => runs[job.run].main
  BY <1>1, <1>2, JobAtWork
<1>4. PlanOK(NewPlan)
  <2>1. NewPlan.run \in DOMAIN runs /\ NewPlan.attempt \in 1..runs[NewPlan.run].attempt
    <3>1. runs[job.run].attempt \in Nat /\ runs[job.run].attempt >= 1
      BY <1>1, <1>3, NatTypes
    <3>2. NewPlan.run = job.run /\ NewPlan.attempt = runs[job.run].attempt
      BY NewPlanFields
    <3> QED
      BY <1>3, <3>1, <3>2
  <2>2. NewPlan.time \in 0..now
    <3>1. now \in Nat /\ NewPlan.time = now
      BY <1>1, NatTypes, NewPlanFields
    <3> QED
      BY <3>1
  <2>3. NewPlan.status \in PlanStatus
    <3>1. runs[job.run].main \in BOOLEAN
      BY <1>3, Zenon DEF Run
    <3> QED
      BY <1>3, <3>1, StatusOf, NewPlanFields
  <2>4. /\ DOMAIN NewPlan.ids = DOMAIN job.inventory
        /\ DOMAIN NewPlan.first = Untagged
        /\ \A v \in DOMAIN job.inventory : NewPlan.ids[v] = job.inventory[v].id
        /\ \A v \in Untagged : NewPlan.first[v] = FirstObserved(v)
        /\ NewPlan.candidates \subseteq Untagged
        /\ Untagged \subseteq DOMAIN job.inventory
    BY NewPlanFields DEF Untagged, Candidates
  <2>5. \A v \in DOMAIN NewPlan.first : NewPlan.first[v] \in 0..NewPlan.time
    BY <1>2, <2>4, FirstOK, NewPlanFields
  <2> QED
    BY <1>3, <2>1, <2>2, <2>3, <2>4, <2>5 DEF PlanOK
<1>5. \A i \in DOMAIN plans' : PlanOK(plans[i])' /\ (plans[i].previous \in 0..(i - 1))'
  <2> SUFFICES ASSUME NEW i \in DOMAIN plans'
      PROVE PlanOK(plans[i])' /\ (plans[i].previous \in 0..(i - 1))'
    OBVIOUS
  <2>1. CASE i \in 1..Len(plans)
    <3>1. plans'[i] = plans[i] /\ i \in DOMAIN plans
      BY <2>1, PlanStepFacts
    <3>2. PlanOK(plans[i]) /\ plans[i].previous \in 0..(i - 1)
      BY <1>1, <3>1 DEF TypeOK
    <3> QED
      BY <1>2, <3>1, <3>2 DEF PlanOK
  <2>2. CASE i = Len(plans) + 1
    <3>1. plans'[i] = NewPlan /\ Len(plans) \in Nat
      BY <2>2, PlanStepFacts
    <3>2. NewPlan.previous \in 0..Len(plans)
      BY <1>2, PredecessorOK, NewPlanFields
    <3> QED
      BY <1>2, <1>4, <2>2, <3>1, <3>2 DEF PlanOK
  <2> QED
    BY <2>1, <2>2, PlanStepFacts
<1>6. JobOK'
  <2>1. /\ job'.step = "preview" /\ job'.run = job.run /\ job'.prior = job.prior
        /\ job'.inventory = job.inventory
    BY <1>1, <1>2 DEF Shape
  <2>2. plans' # << >> /\ job'.prior \in 0..Len(plans')
    <3>1. job.prior \in 0..Len(plans)
      BY <1>1 DEF JobOK
    <3> QED
      BY <2>1, <3>1, PlanStepFacts
  <2>3. Entry' = Entry
    BY <1>2 DEF Entry
  <2>4. \A r \in DOMAIN runs' : runs'[r].conclusion = "running" <=> r = job'.run
    BY <1>1, <1>2, <2>1 DEF JobOK
  <2> QED
    BY <1>1, <1>2, <1>3, <2>1, <2>2, <2>3, <2>4 DEF JobOK
<1>7. Shape'
  BY <1>1, <1>2, PlanStepFacts DEF Shape
<1> QED
  BY <1>1, <1>2, <1>5, <1>6, <1>7 DEF Inv, TypeOK, Entry, Run

-------------------------------------------------------------------------------
LEMMA TypeStep == Inv /\ [Next]_vars => Inv'
<1> SUFFICES ASSUME Inv, [Next]_vars PROVE Inv'
  OBVIOUS
<1>1. CASE Tick
  BY <1>1, TickOK
<1>2. ASSUME NEW v \in Versions, Retag(v) \/ Delete(v) PROVE Inv'
  BY <1>2, RegistryOK
<1>3. ASSUME NEW v \in Versions, NEW tag \in BOOLEAN, Push(v, tag) PROVE Inv'
  BY <1>3, RegistryOK
<1>4. ASSUME NEW main \in BOOLEAN, Trigger(main) PROVE Inv'
  BY <1>4, TriggerOK
<1>5. ASSUME NEW r \in DOMAIN runs, Rerun(r) PROVE Inv'
  BY <1>5, RerunOK
<1>6. CASE NoPriorEvidence \/ PriorEvidenceLost \/ \E i \in DOMAIN plans : PriorEvidence(i)
  BY <1>6, SnapshotOK
<1>7. CASE Plan
  BY <1>7, PlanStepOK
<1>8. CASE Preview \/ Refuse \/ Fail
  BY <1>8, EndOK
<1>9. CASE UNCHANGED vars
  BY <1>9 DEF vars, Inv, Shape, TypeOK, JobOK, PlanOK, Entry, Run
<1> QED
  BY <1>1, <1>2, <1>3, <1>4, <1>5, <1>6, <1>7, <1>8, <1>9 DEF Next

(* Every reachable state of the retention workflow is well-formed.         *)
THEOREM RetentionTypeCorrect == Spec => []TypeOK
<1>1. Inv => TypeOK
  BY DEF Inv
<1> QED
  BY InitOK, TypeStep, <1>1, PTL DEF Spec

-------------------------------------------------------------------------------
(* Why a candidate was watched: the age that a plan on main carries for a  *)
(* version reaches back to a plan that saw it, along plans that lie within *)
(* the gap; a plan off main carries no age; candidates are beyond the age. *)
WatchedSince(S, i, v) ==
    Watch(S, i, v) /\ \E a \in S : plans[a].time <= plans[i].first[v]

PlanWatched(i) ==
    \A v \in DOMAIN plans[i].first :
       /\ OnMain(i) => \E S \in SUBSET (1..i) : WatchedSince(S, i, v)
       /\ ~ OnMain(i) => plans[i].first[v] >= plans[i].time
       /\ v \in plans[i].candidates => plans[i].first[v] + MinimumAge < plans[i].time

Watched == \A i \in DOMAIN plans : PlanWatched(i)

LEMMA WatchedImplies == Inv /\ Watched => CandidateWasWatched
<1> SUFFICES ASSUME Inv, Watched, NEW i \in DOMAIN plans, NEW v \in plans[i].candidates
    PROVE  \E S \in SUBSET (1..i) : /\ Watch(S, i, v)
                                  /\ \E a \in S : plans[a].time + MinimumAge < plans[i].time
  BY DEF CandidateWasWatched
<1>1. PlanOK(plans[i]) /\ now \in Nat
  BY NatTypes DEF Inv, TypeOK
<1>2. v \in DOMAIN plans[i].first /\ plans[i].time \in Nat /\ plans[i].first[v] \in Nat
  BY <1>1 DEF PlanOK
<1>3. plans[i].first[v] + MinimumAge < plans[i].time
  BY <1>2 DEF Watched, PlanWatched
<1>4. OnMain(i)
  BY <1>2, <1>3, RetentionBounds DEF Watched, PlanWatched
<1>5. PICK S \in SUBSET (1..i) : WatchedSince(S, i, v)
  BY <1>2, <1>4 DEF Watched, PlanWatched
<1>6. PICK a \in S : plans[a].time <= plans[i].first[v]
  BY <1>5 DEF WatchedSince
<1>7. a \in DOMAIN plans /\ PlanOK(plans[a])
  <2>1. a \in DOMAIN plans
    BY <1>6, PlansDomain DEF Inv
  <2> QED
    BY <2>1 DEF Inv, TypeOK
<1>8. plans[a].time \in Nat
  BY <1>1, <1>7 DEF PlanOK
<1>9. plans[a].time + MinimumAge < plans[i].time
  BY <1>2, <1>3, <1>6, <1>8, RetentionBounds
<1> QED
  BY <1>5, <1>9 DEF WatchedSince

LEMMA WatchedKept ==
    ASSUME Inv, Watched, DOMAIN plans \subseteq DOMAIN plans',
           \A j \in DOMAIN plans : plans'[j] = plans[j]
    PROVE  \A i \in DOMAIN plans : PlanWatched(i)'
<1> SUFFICES ASSUME NEW i \in DOMAIN plans, NEW v \in DOMAIN plans'[i].first
    PROVE  /\ OnMain(i)' => \E S \in SUBSET (1..i) : WatchedSince(S, i, v)'
           /\ ~ OnMain(i)' => plans'[i].first[v] >= plans'[i].time
           /\ v \in plans'[i].candidates => plans'[i].first[v] + MinimumAge < plans'[i].time
  BY DEF PlanWatched
<1>1. plans'[i] = plans[i] /\ v \in DOMAIN plans[i].first /\ PlanWatched(i)
  BY DEF Watched
<1>2. ASSUME NEW S \in SUBSET (1..i), WatchedSince(S, i, v) PROVE WatchedSince(S, i, v)'
  <2>1. S \subseteq DOMAIN plans
    BY PlansDomain DEF Inv
  <2>2. \A a \in S : plans'[a] = plans[a]
    BY <2>1
  <2> QED
    BY <1>1, <1>2, <2>2 DEF WatchedSince, Watch, SawUntagged, OnMain
<1>3. OnMain(i)' = OnMain(i)
  BY <1>1 DEF OnMain
<1> QED
  BY <1>1, <1>2, <1>3 DEF PlanWatched

(* The new plan's observations.                                            *)
LEMMA NewPlanWatched ==
    ASSUME Inv, Watched, Plan, NEW CONSTANT n, n = Len(plans) + 1
    PROVE  PlanWatched(n)'
<1>1. TypeOK /\ job.step = "plan" /\ plans'[n] = NewPlan /\ Len(plans) \in Nat /\ now \in Nat
  BY PlanStepFacts, NatTypes DEF Inv
<1>2. /\ runs[job.run] \in Run /\ (job.prior # 0 => runs[job.run].main)
      /\ \A v \in DOMAIN job.inventory : job.inventory[v].id \in Nat
  BY <1>1, JobAtWork
<1>3. runs[job.run].main \in BOOLEAN
  BY <1>2, Zenon DEF Run
<1>4. OnMain(n)' <=> runs[job.run].main
  BY <1>1, <1>2, <1>3, StatusOf, NewPlanFields DEF OnMain
<1>5. /\ DOMAIN plans'[n].ids = DOMAIN job.inventory
      /\ DOMAIN plans'[n].first = Untagged /\ Untagged \subseteq DOMAIN job.inventory
      /\ \A v \in DOMAIN job.inventory : plans'[n].ids[v] = job.inventory[v].id
      /\ \A v \in Untagged : plans'[n].first[v] = FirstObserved(v)
      /\ plans'[n].candidates = Candidates /\ plans'[n].time = now
  BY <1>1, NewPlanFields DEF Untagged
<1> SUFFICES ASSUME NEW v \in Untagged
    PROVE  /\ OnMain(n)' => \E S \in SUBSET (1..n) : WatchedSince(S, n, v)'
           /\ ~ OnMain(n)' => plans'[n].first[v] >= plans'[n].time
           /\ v \in plans'[n].candidates => plans'[n].first[v] + MinimumAge < plans'[n].time
  BY <1>5 DEF PlanWatched
<1>6. v \in DOMAIN job.inventory /\ plans'[n].first[v] = FirstObserved(v)
  BY <1>5
<1>7. v \in plans'[n].candidates => plans'[n].first[v] + MinimumAge < plans'[n].time
  BY <1>5, <1>6 DEF Candidates
<1>8. /\ FirstObserved(v) \in 0..now
      /\ Observed(Predecessor, v) => FirstObserved(v) >= plans[Predecessor].first[v]
      /\ ~ Observed(Predecessor, v) => FirstObserved(v) = now
  BY <1>1, <1>6, FirstOK
<1>9. SawUntagged(n, n, v)'
  BY <1>5 DEF SawUntagged
<1>10. CASE ~ Observed(Predecessor, v)
  <2>1. plans'[n].first[v] = now /\ plans'[n].time <= plans'[n].first[v]
    BY <1>1, <1>5, <1>6, <1>8, <1>10
  <2>2. ASSUME OnMain(n)' PROVE WatchedSince({n}, n, v)'
    BY <1>9, <2>1, <2>2 DEF WatchedSince, Watch
  <2>3. {n} \in SUBSET (1..n)
    BY <1>1
  <2> QED
    BY <1>1, <1>5, <1>7, <2>1, <2>2, <2>3
<1>11. CASE Observed(Predecessor, v)
  <2> DEFINE p == Predecessor
  <2>1. /\ p # 0 /\ v \in DOMAIN plans[p].first /\ plans[p].ids[v] = job.inventory[v].id
    BY <1>11 DEF Observed
  <2>2. /\ p \in DOMAIN plans /\ OnMain(p) /\ plans[p].time < now
        /\ now - plans[p].time <= MaximumGap /\ runs[job.run].main
    BY <1>1, <2>1, PredecessorOK
  <2> HIDE DEF p
  <2>3. PICK S \in SUBSET (1..p) : WatchedSince(S, p, v)
    BY <2>1, <2>2 DEF Watched, PlanWatched
  <2> DEFINE T == S \cup {n}
  <2>4. /\ p \in 1..Len(plans) /\ S \subseteq 1..Len(plans) /\ n \notin S
        /\ T \in SUBSET (1..n)
    BY <1>1, <2>2, <2>3, PlanStepFacts
  <2>5. \A a \in S : plans'[a] = plans[a]
    BY <2>4, PlanStepFacts
  <2>6. \A a \in T : OnMain(a)' /\ SawUntagged(a, n, v)'
    <3>1. ASSUME NEW a \in S PROVE OnMain(a)' /\ SawUntagged(a, n, v)'
      <4>1. OnMain(a) /\ SawUntagged(a, p, v)
        BY <2>3 DEF WatchedSince, Watch
      <4>2. plans'[n].ids[v] = plans[p].ids[v]
        BY <1>5, <1>6, <2>1
      <4> QED
        BY <2>5, <4>1, <4>2 DEF OnMain, SawUntagged
    <3> QED
      BY <1>4, <1>9, <2>2, <3>1
  <2>7. \A a \in T \ {n} : \E b \in T : /\ plans'[a].time < plans'[b].time
                                      /\ plans'[b].time - plans'[a].time <= MaximumGap
    <3> SUFFICES ASSUME NEW a \in S
        PROVE \E b \in T : /\ plans'[a].time < plans'[b].time
                           /\ plans'[b].time - plans'[a].time <= MaximumGap
      BY <2>4
    <3>1. CASE a = p
      <4>1. /\ plans'[a].time < plans'[n].time
            /\ plans'[n].time - plans'[a].time <= MaximumGap
        BY <1>5, <2>2, <2>5, <3>1
      <4> QED
        BY <4>1
    <3>2. CASE a # p
      <4>1. PICK b \in S : /\ plans[a].time < plans[b].time
                           /\ plans[b].time - plans[a].time <= MaximumGap
        BY <2>3, <3>2 DEF WatchedSince, Watch
      <4>2. plans'[a] = plans[a] /\ plans'[b] = plans[b]
        BY <2>5
      <4> QED
        BY <4>1, <4>2
    <3> QED
      BY <3>1, <3>2
  <2>8. Watch(T, n, v)'
    BY <2>6, <2>7 DEF Watch
  <2>9. \E a \in T : plans'[a].time <= plans'[n].first[v]
    <3>1. PICK a \in S : plans[a].time <= plans[p].first[v]
      BY <2>3 DEF WatchedSince
    <3>2. plans[a].time \in Nat /\ plans[p].first[v] \in Nat
      <4>1. a \in DOMAIN plans /\ p \in DOMAIN plans
        BY <2>2, <2>4, PlanStepFacts
      <4>2. PlanOK(plans[a]) /\ PlanOK(plans[p])
        BY <1>1, <4>1 DEF TypeOK
      <4> QED
        BY <1>1, <2>1, <4>2 DEF PlanOK
    <3>3. plans'[n].first[v] >= plans[p].first[v] /\ plans'[n].first[v] \in Nat
      BY <1>1, <1>6, <1>8, <1>11 DEF p
    <3>4. plans'[a].time <= plans'[n].first[v]
      BY <2>5, <3>1, <3>2, <3>3
    <3> QED
      BY <3>4
  <2>10. WatchedSince(T, n, v)'
    BY <2>8, <2>9 DEF WatchedSince
  <2> QED
    BY <1>4, <1>7, <2>2, <2>4, <2>10
<1> QED
  BY <1>10, <1>11

LEMMA WatchedStep == Inv /\ Watched /\ [Next]_vars => Watched'
<1> SUFFICES ASSUME Inv, Watched, [Next]_vars PROVE Watched'
  OBVIOUS
<1>1. CASE Plan
  <2>1. /\ DOMAIN plans = 1..Len(plans) /\ Len(plans) \in Nat
        /\ DOMAIN plans' = 1..(Len(plans) + 1)
        /\ \A i \in 1..Len(plans) : plans'[i] = plans[i]
    BY <1>1, PlanStepFacts
  <2>2. \A i \in DOMAIN plans : PlanWatched(i)'
    BY <2>1, WatchedKept
  <2>3. ASSUME NEW i, i = Len(plans) + 1 PROVE PlanWatched(i)'
    BY <1>1, <2>3, NewPlanWatched
  <2>4. \A i \in DOMAIN plans' : i \in DOMAIN plans \/ i = Len(plans) + 1
    BY <2>1
  <2> QED
    BY <2>2, <2>3, <2>4 DEF Watched
<1>2. CASE plans' = plans
  BY <1>2, WatchedKept DEF Watched
<1>3. Plan \/ plans' = plans
  BY DEF Next, vars, Tick, Retag, Delete, Push, Change, Trigger, Rerun, PriorEvidence,
         NoPriorEvidence, PriorEvidenceLost, Snapshot, Preview, Refuse, Fail, Conclude
<1> QED
  BY <1>1, <1>2, <1>3

(* Decision 0008: whatever runs fail, are run again, or come from other    *)
(* branches, a candidate was watched for longer than the age floor.        *)
THEOREM CandidatesAreWatched == Spec => []CandidateWasWatched
<1>1. Init => Watched
  <2>1. Init => plans = << >>
    BY DEF Init
  <2> QED
    BY <2>1 DEF Watched
<1> QED
  BY InitOK, TypeStep, WatchedStep, WatchedImplies, <1>1, PTL DEF Spec

-------------------------------------------------------------------------------
(* Why the chain of plans is one line.  A plan is alive while its attempt  *)
(* is its run's last and has not failed: what can be selected, and what    *)
(* the job at work may still make so.                                      *)
Alive == {i \in DOMAIN plans : /\ plans[i].attempt = runs[plans[i].run].attempt
                               /\ runs[plans[i].run].conclusion # "failure"}

(* A plan continues a plan of a run before its own, and only on main.      *)
Ascending ==
    \A i \in DOMAIN plans : plans[i].previous # 0 =>
       /\ plans[plans[i].previous].run < plans[i].run
       /\ runs[plans[i].run].main

(* An attempt uploads one plan.                                            *)
OnePlanPerAttempt ==
    \A i, j \in DOMAIN plans :
       plans[i].run = plans[j].run /\ plans[i].attempt = plans[j].attempt => i = j

NoPlanYet ==
    job.step \in {"snapshot", "plan"} =>
       \A i \in DOMAIN plans :
          ~ (plans[i].run = job.run /\ plans[i].attempt = runs[job.run].attempt)

(* The plan that a job would continue is still of the latest successful    *)
(* run, because one job runs at a time.                                    *)
PriorIsLatest == job.step = "plan" /\ job.prior # 0 => plans[job.prior].run \in Latest

AliveNeverFork ==
    \A i, j \in Alive :
       i # j /\ plans[i].previous # 0 => plans[i].previous # plans[j].previous

Line == Ascending /\ OnePlanPerAttempt /\ NoPlanYet /\ PriorIsLatest /\ AliveNeverFork

LEMMA LineImplies == Inv /\ Line => ChainNeverForks
<1> SUFFICES ASSUME Inv, Line PROVE ChainNeverForks
  OBVIOUS
<1>1. Selectable \subseteq Alive
  BY DEF Selectable, Successful, Alive
<1>2. AliveNeverFork
  BY DEF Line
<1> QED
  BY <1>1, <1>2 DEF ChainNeverForks, AliveNeverFork

(* Where no plan is added, a run on main stays one and no plan revives.    *)
LEMMA LineKept ==
    ASSUME Inv, Line, plans' = plans, Alive' \subseteq Alive,
           \A r \in DOMAIN runs : runs'[r].main = runs[r].main,
           NoPlanYet', PriorIsLatest'
    PROVE  Line'
<1>1. Ascending'
  <2> SUFFICES ASSUME NEW i \in DOMAIN plans, plans[i].previous # 0
      PROVE  /\ plans[plans[i].previous].run < plans[i].run
             /\ runs'[plans[i].run].main
    BY DEF Ascending
  <2>1. plans[i].run \in DOMAIN runs
    BY DEF Inv, TypeOK, PlanOK
  <2>2. /\ plans[plans[i].previous].run < plans[i].run
        /\ runs[plans[i].run].main
    BY DEF Line, Ascending
  <2>3. runs'[plans[i].run].main = runs[plans[i].run].main
    BY <2>1
  <2> QED
    BY <2>2, <2>3, Zenon
<1>2. OnePlanPerAttempt'
  BY DEF Line, OnePlanPerAttempt
<1>3. AliveNeverFork'
  BY DEF Line, AliveNeverFork
<1> QED
  BY <1>1, <1>2, <1>3 DEF Line

LEMMA LineTrigger == ASSUME Inv, Line, NEW main \in BOOLEAN, Trigger(main) PROVE Line'
<1> DEFINE new == [main |-> main, attempt |-> 1, conclusion |-> "running"]
<1> HIDE DEF new
<1>1. /\ runs' = Append(runs, new) /\ plans' = plans
      /\ job' = [Idle EXCEPT !.step = "snapshot", !.run = Len(runs) + 1]
  BY DEF Trigger, Begin, new
<1>2. runs \in Seq(Run) /\ TypeOK
  BY DEF Inv, TypeOK
<1>3. /\ DOMAIN runs = 1..Len(runs) /\ Len(runs) \in Nat
      /\ \A r \in DOMAIN runs : runs'[r] = runs[r]
  BY <1>1, <1>2
<1>4. \A i \in DOMAIN plans : plans[i].run \in DOMAIN runs
  BY <1>2 DEF TypeOK, PlanOK
<1>5. Alive' \subseteq Alive
  BY <1>1, <1>3, <1>4 DEF Alive
<1>6. job'.step = "snapshot" /\ job'.run = Len(runs) + 1
  BY <1>1 DEF Idle
<1>7. Len(runs) + 1 \notin DOMAIN runs
  BY <1>3
<1>8. NoPlanYet'
  BY <1>1, <1>4, <1>6, <1>7 DEF NoPlanYet
<1>9. PriorIsLatest'
  BY <1>6 DEF PriorIsLatest
<1> QED
  BY <1>1, <1>3, <1>5, <1>8, <1>9, LineKept

(* An attempt that begins again leaves the plan of the last one behind.    *)
LEMMA LineRerun == ASSUME Inv, Line, NEW r \in DOMAIN runs, Rerun(r) PROVE Line'
<1>1. /\ runs' = [runs EXCEPT ![r].attempt = @ + 1, ![r].conclusion = "running"]
      /\ plans' = plans
      /\ job' = [Idle EXCEPT !.step = "snapshot", !.run = r]
  BY DEF Rerun, Begin
<1>2. TypeOK /\ runs \in Seq(Run)
  BY DEF Inv, TypeOK
<1>3. /\ DOMAIN runs' = DOMAIN runs
      /\ \A s \in DOMAIN runs \ {r} : runs'[s] = runs[s]
      /\ runs'[r] = [runs[r] EXCEPT !.attempt = @ + 1, !.conclusion = "running"]
  BY <1>1, <1>2
<1>4. runs[r] \in Run /\ runs[r].attempt \in Nat
  BY <1>2, NatTypes
<1>5. runs'[r].attempt = runs[r].attempt + 1 /\ runs'[r].main = runs[r].main
  BY <1>3, <1>4 DEF Run
<1>6. \A i \in DOMAIN plans : plans[i].run = r => plans[i].attempt # runs'[r].attempt
  <2> SUFFICES ASSUME NEW i \in DOMAIN plans, plans[i].run = r
      PROVE plans[i].attempt # runs'[r].attempt
    OBVIOUS
  <2>1. plans[i].attempt \in 1..runs[r].attempt
    BY <1>2 DEF TypeOK, PlanOK
  <2> QED
    BY <1>4, <1>5, <2>1
<1>7. \A i \in DOMAIN plans : plans[i].run \in DOMAIN runs
  BY <1>2 DEF TypeOK, PlanOK
<1>8. Alive' \subseteq Alive
  BY <1>1, <1>3, <1>6, <1>7 DEF Alive
<1>9. job'.step = "snapshot" /\ job'.run = r
  BY <1>1 DEF Idle
<1>10. NoPlanYet'
  BY <1>1, <1>6, <1>9 DEF NoPlanYet
<1>11. PriorIsLatest'
  BY <1>9 DEF PriorIsLatest
<1>12. \A s \in DOMAIN runs : runs'[s].main = runs[s].main
  BY <1>3, <1>5
<1> QED
  BY <1>1, <1>8, <1>10, <1>11, <1>12, LineKept

LEMMA LineSnapshot ==
    ASSUME Inv, Line,
           PriorEvidenceLost \/ NoPriorEvidence \/ \E i \in DOMAIN plans : PriorEvidence(i)
    PROVE  Line'
<1>1. PICK prior \in {0} \cup Evidence :
         /\ job.step = "snapshot"
         /\ job' = [job EXCEPT !.step = "plan", !.prior = prior,
                               !.inventory = [v \in Present |-> registry[v]]]
         /\ UNCHANGED <<now, graph, registry, runs, plans>>
  BY DEF PriorEvidenceLost, NoPriorEvidence, PriorEvidence, Snapshot
<1>2. job'.step = "plan" /\ job'.run = job.run /\ job'.prior = prior
  BY <1>1 DEF Inv, Shape
<1>3. Alive' = Alive /\ Latest' = Latest
  BY <1>1 DEF Alive, Latest, Successful
<1>4. NoPlanYet'
  BY <1>1, <1>2 DEF Line, NoPlanYet
<1>5. 0 \notin DOMAIN plans
  BY PlansDomain DEF Inv
<1>6. \A i \in Evidence : plans[i].run \in Latest
  BY DEF Evidence, ArtifactsOf
<1>7. PriorIsLatest'
  BY <1>1, <1>2, <1>3, <1>6 DEF PriorIsLatest
<1> QED
  BY <1>1, <1>3, <1>4, <1>7, LineKept

(* A job that ends idles, and changes the conclusion of its run alone.     *)
LEMMA LineEnd == ASSUME Inv, Line, Preview \/ Refuse \/ Fail PROVE Line'
<1>1. PICK conclusion \in {"success", "failure"} : Conclude(conclusion)
  BY DEF Preview, Refuse, Fail
<1>2. /\ runs' = [runs EXCEPT ![job.run].conclusion = conclusion]
      /\ job' = Idle /\ plans' = plans
  BY <1>1 DEF Conclude
<1>3. TypeOK /\ runs \in Seq(Run) /\ JobOK
  BY DEF Inv, TypeOK
<1>4. job.step # "idle"
  <2>1. CASE Preview
    BY <2>1 DEF Preview
  <2>2. CASE Refuse
    BY <2>2 DEF Refuse
  <2>3. CASE Fail
    BY <2>3 DEF Fail, Inv, Shape
  <2> QED
    BY <2>1, <2>2, <2>3
<1>5. job.run \in DOMAIN runs /\ runs[job.run] \in Run /\ runs[job.run].conclusion = "running"
  BY <1>3, <1>4, JobAtWork DEF JobOK
<1>6. \A r \in DOMAIN runs : /\ runs'[r].main = runs[r].main
                            /\ runs'[r].attempt = runs[r].attempt
                            /\ r # job.run => runs'[r] = runs[r]
  BY <1>2, <1>3, <1>5 DEF Run
<1>7. \A i \in DOMAIN plans : plans[i].run \in DOMAIN runs
  BY <1>3 DEF TypeOK, PlanOK
<1>8. Alive' \subseteq Alive
  BY <1>2, <1>5, <1>6, <1>7 DEF Alive
<1>9. job'.step = "idle"
  BY <1>2 DEF Idle
<1> QED
  BY <1>2, <1>6, <1>8, <1>9, LineKept DEF NoPlanYet, PriorIsLatest

(* The new plan continues a plan of the latest successful run.  An alive   *)
(* plan that does so already is of a later run on main: one that succeeded *)
(* would be later than the latest, one that is running is of this attempt, *)
(* which has no plan yet.                                                  *)
LEMMA LinePlan == ASSUME Inv, Line, Plan PROVE Line'
<1>1. PICK n : n = Len(plans) + 1
  OBVIOUS
<1>2. /\ job.step = "plan" /\ job' = [job EXCEPT !.step = "preview"]
      /\ UNCHANGED <<now, graph, registry, runs, events>>
      /\ DOMAIN plans = 1..Len(plans) /\ Len(plans) \in Nat /\ DOMAIN plans' = 1..n
      /\ \A i \in DOMAIN plans : plans'[i] = plans[i]
      /\ plans'[n] = NewPlan
  BY <1>1, PlanStepFacts
<1>3. DOMAIN plans' = DOMAIN plans \cup {n} /\ n \notin DOMAIN plans
  BY <1>1, <1>2
<1>4. /\ plans'[n].run = job.run /\ plans'[n].attempt = runs[job.run].attempt
      /\ plans'[n].previous = Predecessor
  BY <1>2, NewPlanFields
<1>5. TypeOK /\ JobOK /\ Ascending /\ OnePlanPerAttempt /\ NoPlanYet
      /\ PriorIsLatest /\ AliveNeverFork
  BY DEF Inv, TypeOK, Line
<1>6. /\ job.run \in DOMAIN runs /\ runs[job.run].conclusion = "running"
      /\ job.prior # 0 => runs[job.run].main
  BY <1>2, <1>5, JobAtWork DEF JobOK
<1>7. Predecessor # 0 => /\ Predecessor = job.prior /\ Predecessor \in DOMAIN plans
                        /\ plans[Predecessor].run < job.run
  BY <1>2, PredecessorOK DEF Predecessor
<1>8. \A i \in DOMAIN plans : plans[i].previous # 0 => plans[i].previous \in DOMAIN plans
  <2> SUFFICES ASSUME NEW i \in DOMAIN plans, plans[i].previous # 0
      PROVE plans[i].previous \in DOMAIN plans
    OBVIOUS
  <2>1. plans[i].previous \in 0..(i - 1)
    BY <1>5 DEF TypeOK
  <2> QED
    BY <1>2, <2>1
<1>9. Ascending'
  <2> SUFFICES ASSUME NEW i \in DOMAIN plans', plans'[i].previous # 0
      PROVE  /\ plans'[plans'[i].previous].run < plans'[i].run
             /\ runs[plans'[i].run].main
    BY <1>2 DEF Ascending
  <2>1. CASE i = n
    BY <1>2, <1>4, <1>6, <1>7, <2>1, Zenon
  <2>2. CASE i \in DOMAIN plans
    <3>1. plans'[i] = plans[i] /\ plans[i].previous # 0
      BY <1>2, <2>2
    <3>2. plans'[plans[i].previous] = plans[plans[i].previous]
      BY <1>2, <1>8, <2>2, <3>1
    <3> QED
      BY <1>5, <2>2, <3>1, <3>2, Zenon DEF Ascending
  <2> QED
    BY <1>3, <2>1, <2>2
<1>10. OnePlanPerAttempt'
  <2> SUFFICES ASSUME NEW i \in DOMAIN plans', NEW j \in DOMAIN plans',
                      plans'[i].run = plans'[j].run, plans'[i].attempt = plans'[j].attempt
      PROVE i = j
    BY DEF OnePlanPerAttempt
  <2>1. \A k \in DOMAIN plans : ~ (/\ plans'[k].run = plans'[n].run
                                  /\ plans'[k].attempt = plans'[n].attempt)
    BY <1>2, <1>4, <1>5 DEF NoPlanYet
  <2> QED
    BY <1>2, <1>3, <1>5, <2>1 DEF OnePlanPerAttempt
<1>11. job'.step = "preview"
  BY <1>2 DEF Inv, Shape
<1>12. NoPlanYet' /\ PriorIsLatest'
  BY <1>11 DEF NoPlanYet, PriorIsLatest
<1>13. ASSUME NEW i \in DOMAIN plans, i \in Alive', Predecessor # 0
       PROVE plans[i].previous # Predecessor
  <2> SUFFICES ASSUME plans[i].previous = Predecessor PROVE FALSE
    OBVIOUS
  <2> DEFINE r == plans[i].run
  <2>1. /\ plans[i].attempt = runs[r].attempt /\ runs[r].conclusion # "failure"
        /\ r \in DOMAIN runs /\ runs[r] \in Run
    <3>1. r \in DOMAIN runs
      BY <1>5 DEF TypeOK, PlanOK
    <3> QED
      BY <1>2, <1>5, <1>13, <3>1, NatTypes DEF Alive
  <2>2. runs[r].main /\ plans[Predecessor].run < r
    BY <1>5, <1>13 DEF Ascending
  <2>3. runs[r].conclusion # "running"
    BY <1>2, <1>5, <2>1 DEF NoPlanYet, JobOK
  <2>4. r \in Successful
    BY <2>1, <2>2, <2>3, Zenon DEF Run, Successful
  <2>5. plans[Predecessor].run \in Latest
    BY <1>2, <1>5, <1>7, <1>13 DEF PriorIsLatest
  <2>6. r <= plans[Predecessor].run
    BY <2>4, <2>5 DEF Latest
  <2>7. r \in Nat /\ plans[Predecessor].run \in Nat
    <3>1. plans[Predecessor].run \in DOMAIN runs
      BY <1>5, <1>7, <1>13 DEF TypeOK, PlanOK
    <3> QED
      BY <1>5, <2>1, <3>1, NatTypes
  <2> QED
    BY <2>2, <2>6, <2>7
<1>14. \A i \in DOMAIN plans : i \in Alive' => i \in Alive
  BY <1>2 DEF Alive
<1>15. AliveNeverFork'
  <2> SUFFICES ASSUME NEW i \in Alive', NEW j \in Alive', i # j, plans'[i].previous # 0
      PROVE plans'[i].previous # plans'[j].previous
    BY DEF AliveNeverFork
  <2>1. i \in DOMAIN plans' /\ j \in DOMAIN plans'
    BY DEF Alive
  <2>2. CASE i \in DOMAIN plans /\ j \in DOMAIN plans
    BY <1>2, <1>5, <1>14, <2>2 DEF AliveNeverFork
  <2>3. CASE i = n /\ j \in DOMAIN plans
    BY <1>2, <1>4, <1>13, <2>3
  <2>4. CASE i \in DOMAIN plans /\ j = n
    BY <1>2, <1>4, <1>13, <2>4
  <2> QED
    BY <1>3, <2>1, <2>2, <2>3, <2>4
<1> QED
  BY <1>9, <1>10, <1>12, <1>15 DEF Line

LEMMA LineStep == Inv /\ Line /\ [Next]_vars => Line'
<1> SUFFICES ASSUME Inv, Line, [Next]_vars PROVE Line'
  OBVIOUS
<1>1. CASE UNCHANGED <<runs, plans, job>>
  BY <1>1 DEF Line, Ascending, OnePlanPerAttempt, NoPlanYet, PriorIsLatest, AliveNeverFork,
              Alive, Latest, Successful
<1>2. ASSUME NEW main \in BOOLEAN, Trigger(main) PROVE Line'
  BY <1>2, LineTrigger
<1>3. ASSUME NEW r \in DOMAIN runs, Rerun(r) PROVE Line'
  BY <1>3, LineRerun
<1>4. CASE NoPriorEvidence \/ PriorEvidenceLost \/ \E i \in DOMAIN plans : PriorEvidence(i)
  BY <1>4, LineSnapshot
<1>5. CASE Plan
  BY <1>5, LinePlan
<1>6. CASE Preview \/ Refuse \/ Fail
  BY <1>6, LineEnd
<1>7. Tick \/ (\E v \in Versions : Retag(v) \/ Delete(v))
           \/ (\E v \in Versions, tag \in BOOLEAN : Push(v, tag)) \/ UNCHANGED vars
      => UNCHANGED <<runs, plans, job>>
  BY DEF Tick, Retag, Delete, Push, Change, vars
<1> QED
  BY <1>1, <1>2, <1>3, <1>4, <1>5, <1>6, <1>7 DEF Next

LEMMA LineInit == Init => Line
<1> SUFFICES ASSUME Init PROVE Line
  OBVIOUS
<1>1. plans = << >> /\ job = Idle
  BY DEF Init
<1>2. DOMAIN plans = {} /\ job.step = "idle"
  BY <1>1 DEF Idle
<1> QED
  BY <1>2 DEF Line, Ascending, OnePlanPerAttempt, NoPlanYet, PriorIsLatest, AliveNeverFork, Alive

(* However runs fail and are run again, no two plans that a later run can  *)
(* select continue the same plan: the observations that count form a line. *)
THEOREM ObservationsFormALine == Spec => []ChainNeverForks
BY InitOK, TypeStep, LineInit, LineStep, LineImplies, PTL DEF Spec

-------------------------------------------------------------------------------
(* Why evidence is not lost.  An id is handed out once, so what the        *)
(* registry, an inventory and a plan say of the same id agrees: no age     *)
(* that a plan carries is lifted by a later date of creation.              *)
Inventoried ==
    job.step = "plan" => \A v \in DOMAIN job.inventory :
       /\ job.inventory[v].id <= registry[v].id
       /\ job.inventory[v].id = registry[v].id =>
             job.inventory[v].created = registry[v].created

ObservedSinceCreation ==
    \A a \in DOMAIN plans : \A v \in DOMAIN plans[a].first :
       /\ plans[a].ids[v] <= registry[v].id
       /\ plans[a].ids[v] = registry[v].id => registry[v].created <= plans[a].first[v]

ObservationsStand ==
    job.step = "plan" => \A a \in DOMAIN plans : \A v \in DOMAIN plans[a].first :
       v \in DOMAIN job.inventory /\ job.inventory[v].id = plans[a].ids[v] =>
          job.inventory[v].created <= plans[a].first[v]

(* A plan that continues another says of what both saw that it was         *)
(* untagged for as long; a plan's candidates are what is old enough.       *)
Continues(i) ==
    \A v \in DOMAIN plans[i].first :
       plans[i].previous # 0 /\ SawUntagged(plans[i].previous, i, v) =>
          plans[i].first[v] <= plans[plans[i].previous].first[v]

Judges(i) ==
    plans[i].candidates = {v \in DOMAIN plans[i].first :
       plans[i].first[v] + MinimumAge < plans[i].time /\ v \notin plans[i].protected}

Seen == Inventoried /\ ObservedSinceCreation /\ ObservationsStand

Evident == Seen /\ \A i \in DOMAIN plans : Continues(i) /\ Judges(i)

LEMMA LeastNat == ASSUME NEW T \in SUBSET Nat, T # {} PROVE \E x \in T : \A y \in T : x <= y
<1>1. PICK x \in T : \A y \in T : ~ (<<y, x>> \in OpToRel(<, Nat))
  BY NatLessThanWellFounded, WFMin, Zenon
<1>2. \A y \in T : ~ (y < x)
  BY <1>1 DEF OpToRel
<1> QED
  BY <1>2

LEMMA PlanNumbers ==
    ASSUME Inv, NEW i \in DOMAIN plans
    PROVE  /\ plans[i].time \in Nat /\ plans[i].previous \in 0..(i - 1) /\ i \in Nat \ {0}
           /\ DOMAIN plans[i].first \subseteq DOMAIN plans[i].ids
           /\ DOMAIN plans[i].ids \subseteq Versions
           /\ \A v \in DOMAIN plans[i].first : /\ plans[i].first[v] \in 0..plans[i].time
                                              /\ plans[i].first[v] \in Nat
                                              /\ plans[i].ids[v] \in Nat
<1>1. PlanOK(plans[i]) /\ plans[i].previous \in 0..(i - 1) /\ now \in Nat
  BY NatTypes DEF Inv, TypeOK
<1>2. plans[i].time \in Nat
  BY <1>1 DEF PlanOK
<1>3. i \in Nat \ {0}
  BY PlansDomain DEF Inv
<1> QED
  BY <1>1, <1>2, <1>3 DEF PlanOK

(* The age of a version at the end of a line is at least its age at the    *)
(* start: otherwise take the earliest plan of the line that says as much   *)
(* as the last; it has a predecessor, which says as much and is earlier.   *)
LEMMA EvidentImplies == Inv /\ Evident => WatchedIsCandidate
<1> SUFFICES ASSUME Inv, Evident,
                    NEW i \in DOMAIN plans, NEW v \in DOMAIN plans[i].first \ plans[i].protected,
                    NEW S \in SUBSET (1..i), i \in S,
                    \A a \in S : SawUntagged(a, i, v),
                    NEW o \in S, \A a \in S \ {o} : plans[a].previous \in S,
                    plans[o].time + MinimumAge < plans[i].time
    PROVE  v \in plans[i].candidates
  BY DEF WatchedIsCandidate
<1>1. DOMAIN plans = 1..Len(plans) /\ Len(plans) \in Nat /\ S \subseteq DOMAIN plans
  <2>1. DOMAIN plans = 1..Len(plans) /\ Len(plans) \in Nat
    BY PlansDomain DEF Inv
  <2> QED
    BY <2>1
<1>2. \A a \in S : v \in DOMAIN plans[a].first /\ plans[a].ids[v] = plans[i].ids[v]
  BY DEF SawUntagged
<1> DEFINE T == {a \in S : plans[i].first[v] <= plans[a].first[v]}
<1>3. \A a \in S : plans[a].first[v] \in Nat
  BY <1>1, <1>2, PlanNumbers
<1>4. T \in SUBSET Nat /\ i \in T
  <2>1. \A n \in Nat : n <= n
    OBVIOUS
  <2>2. plans[i].first[v] <= plans[i].first[v]
    BY <1>3, <2>1, Zenon
  <2>3. S \subseteq Nat
    BY <1>1
  <2> QED
    BY <2>2, <2>3, Zenon
<1>5. PICK a \in T : \A b \in T : a <= b
  <2> HIDE DEF T
  <2> QED
    BY <1>4, LeastNat
<1>6. CASE a # o
  <2> DEFINE b == plans[a].previous
  <2>1. a \in S /\ b \in S /\ plans[i].first[v] <= plans[a].first[v]
    BY <1>5, <1>6
  <2>2. a \in Nat /\ b \in 0..(a - 1) /\ b # 0 /\ b < a
    BY <1>1, <2>1, PlanNumbers
  <2>3. SawUntagged(b, a, v) /\ v \in DOMAIN plans[a].first
    BY <1>2, <2>1 DEF SawUntagged
  <2>4. plans[a].first[v] <= plans[b].first[v]
    BY <1>1, <2>1, <2>2, <2>3 DEF Evident, Continues
  <2>5. plans[i].first[v] <= plans[b].first[v]
    <3>1. \A x, y, z \in Nat : x <= y /\ y <= z => x <= z
      OBVIOUS
    <3>2. /\ plans[i].first[v] \in Nat /\ plans[a].first[v] \in Nat
          /\ plans[b].first[v] \in Nat
      BY <1>3, <2>1
    <3> QED
      BY <2>1, <2>4, <3>1, <3>2, Zenon
  <2>6. b \in T
    BY <2>1, <2>5, Zenon
  <2>7. a <= b
    BY <1>5, <2>6
  <2> QED
    BY <2>2, <2>7
<1>7. CASE a = o
  <2>1. plans[i].first[v] <= plans[o].first[v]
    BY <1>5, <1>7
  <2>2. plans[o].first[v] <= plans[o].time /\ plans[o].time \in Nat /\ plans[i].time \in Nat
    <3>1. v \in DOMAIN plans[o].first /\ o \in DOMAIN plans
      BY <1>1, <1>2
    <3>2. plans[o].first[v] \in 0..plans[o].time /\ plans[o].time \in Nat /\ plans[i].time \in Nat
      BY <3>1, PlanNumbers
    <3> QED
      BY <3>2
  <2>3. plans[i].first[v] + MinimumAge < plans[i].time
    <3>1. plans[i].first[v] \in Nat /\ plans[o].first[v] \in Nat /\ MinimumAge \in Nat
      BY <1>3, RetentionBounds
    <3> QED
      BY <2>1, <2>2, <3>1
  <2> QED
    BY <2>3 DEF Evident, Judges
<1> QED
  BY <1>6, <1>7

(* A package version is created once: a digest that is pushed again is     *)
(* another version, with a later id.                                       *)
Succeeds(v) ==
    /\ registry[v].id <= registry'[v].id
    /\ registry[v].id = registry'[v].id => registry'[v].created = registry[v].created

LEMMA RegistryMoves ==
    ASSUME Inv, [Next]_vars
    PROVE  /\ \A v \in Versions : Succeeds(v)
           /\ \A v \in Versions : registry[v].id \in Nat /\ registry'[v].id \in Nat
           /\ \A v \in Versions : registry[v].created \in Nat
<1>1. registry \in [Versions -> Entry] /\ now \in Nat
  BY NatTypes DEF Inv, TypeOK
<1>2. \A v \in Versions : registry[v].id \in Nat /\ registry[v].created \in Nat /\ registry[v] \in Entry
  BY <1>1 DEF Entry
<1>3. CASE registry' = registry
  BY <1>2, <1>3 DEF Succeeds
<1>4. ASSUME NEW v \in Versions, NEW entry, registry' = [registry EXCEPT ![v] = entry],
             \/ entry.id = registry[v].id /\ entry.created = registry[v].created
             \/ entry.id = registry[v].id + 1
      PROVE  \A w \in Versions : Succeeds(w) /\ registry'[w].id \in Nat
  <2> SUFFICES ASSUME NEW w \in Versions PROVE Succeeds(w) /\ registry'[w].id \in Nat
    OBVIOUS
  <2>1. registry[v].id \in Nat /\ registry[w].id \in Nat
    BY <1>2
  <2>2. CASE w = v
    <3>1. registry'[w] = entry
      BY <1>1, <1>4, <2>2
    <3> QED
      BY <1>4, <2>1, <2>2, <3>1 DEF Succeeds
  <2>3. CASE w # v
    <3>1. registry'[w] = registry[w]
      BY <1>1, <1>4, <2>3
    <3> QED
      BY <2>1, <3>1 DEF Succeeds
  <2> QED
    BY <2>2, <2>3
<1>5. ASSUME NEW v \in Versions, Retag(v) \/ Delete(v) \/ \E tag \in BOOLEAN : Push(v, tag)
      PROVE  \A w \in Versions : Succeeds(w) /\ registry'[w].id \in Nat
  <2>1. registry[v] \in Entry
    BY <1>2
  <2>2. CASE Retag(v)
    <3> DEFINE entry == [registry[v] EXCEPT !.tagged = ~ @]
    <3>1. entry.id = registry[v].id /\ entry.created = registry[v].created
      BY <2>1 DEF Entry
    <3>2. registry' = [registry EXCEPT ![v] = entry]
      BY <2>2 DEF Retag, Change
    <3> HIDE DEF entry
    <3> QED
      BY <1>4, <3>1, <3>2
  <2>3. CASE Delete(v)
    <3> DEFINE entry == [registry[v] EXCEPT !.present = FALSE, !.tagged = FALSE]
    <3>1. entry.id = registry[v].id /\ entry.created = registry[v].created
      BY <2>1 DEF Entry
    <3>2. registry' = [registry EXCEPT ![v] = entry]
      BY <2>3 DEF Delete, Change
    <3> HIDE DEF entry
    <3> QED
      BY <1>4, <3>1, <3>2
  <2>4. ASSUME NEW tag \in BOOLEAN, Push(v, tag)
        PROVE  \A w \in Versions : Succeeds(w) /\ registry'[w].id \in Nat
    <3> DEFINE entry == [present |-> TRUE, id |-> registry[v].id + 1,
                         created |-> now, tagged |-> tag]
    <3>1. entry.id = registry[v].id + 1
      OBVIOUS
    <3>2. registry' = [registry EXCEPT ![v] = entry]
      BY <2>4 DEF Push, Change
    <3> HIDE DEF entry
    <3> QED
      BY <1>4, <3>1, <3>2
  <2> QED
    BY <1>5, <2>2, <2>3, <2>4
<1>6. \/ registry' = registry
      \/ \E v \in Versions : Retag(v) \/ Delete(v) \/ \E tag \in BOOLEAN : Push(v, tag)
  BY DEF Next, vars, Tick, Trigger, Rerun, PriorEvidence, NoPriorEvidence, PriorEvidenceLost,
         Snapshot, Plan, Preview, Refuse, Fail, Conclude
<1> QED
  BY <1>2, <1>3, <1>5, <1>6

(* Where no plan is added and no inventory changes under a job.            *)
LEMMA SeenKept ==
    ASSUME Inv, Seen, [Next]_vars, plans' = plans, job'.step # "plan" \/ UNCHANGED job
    PROVE  Seen'
<1>1. \A v \in Versions : /\ Succeeds(v) /\ registry[v].id \in Nat /\ registry'[v].id \in Nat
                          /\ registry[v].created \in Nat
  BY RegistryMoves
<1>2. Inventoried'
  <2> SUFFICES ASSUME job'.step = "plan", NEW v \in DOMAIN job'.inventory
      PROVE  /\ job'.inventory[v].id <= registry'[v].id
             /\ job'.inventory[v].id = registry'[v].id =>
                   job'.inventory[v].created = registry'[v].created
    BY DEF Inventoried
  <2>1. job' = job /\ job.step = "plan" /\ v \in DOMAIN job.inventory
    OBVIOUS
  <2>2. v \in Versions /\ job.inventory[v].id \in Nat
    BY <2>1, JobAtWork DEF Inv
  <2>3. /\ job.inventory[v].id <= registry[v].id
        /\ job.inventory[v].id = registry[v].id =>
              job.inventory[v].created = registry[v].created
    BY <2>1 DEF Seen, Inventoried
  <2> QED
    BY <1>1, <2>1, <2>2, <2>3 DEF Succeeds
<1>3. ObservedSinceCreation'
  <2> SUFFICES ASSUME NEW a \in DOMAIN plans, NEW v \in DOMAIN plans[a].first
      PROVE  /\ plans[a].ids[v] <= registry'[v].id
             /\ plans[a].ids[v] = registry'[v].id => registry'[v].created <= plans[a].first[v]
    BY DEF ObservedSinceCreation
  <2>1. v \in Versions /\ plans[a].ids[v] \in Nat /\ plans[a].first[v] \in Nat
    BY PlanNumbers
  <2>2. /\ plans[a].ids[v] <= registry[v].id
        /\ plans[a].ids[v] = registry[v].id => registry[v].created <= plans[a].first[v]
    BY DEF Seen, ObservedSinceCreation
  <2> DEFINE id == plans[a].ids[v]
             first == plans[a].first[v]
  <2>3. /\ id \in Nat /\ first \in Nat /\ id <= registry[v].id
        /\ id = registry[v].id => registry[v].created <= first
    BY <2>1, <2>2
  <2> HIDE DEF id, first
  <2>4. id <= registry'[v].id /\ (id = registry'[v].id => registry'[v].created <= first)
    BY <1>1, <2>1, <2>3 DEF Succeeds
  <2> QED
    BY <2>4 DEF id, first
<1>4. ObservationsStand'
  BY DEF Seen, ObservationsStand
<1> QED
  BY <1>2, <1>3, <1>4 DEF Seen

LEMMA SeenSnapshot ==
    ASSUME Inv, Seen,
           PriorEvidenceLost \/ NoPriorEvidence \/ \E i \in DOMAIN plans : PriorEvidence(i)
    PROVE  Seen'
<1>1. /\ \E prior : job' = [job EXCEPT !.step = "plan", !.prior = prior,
                                      !.inventory = [v \in Present |-> registry[v]]]
      /\ UNCHANGED <<now, graph, registry, runs, plans>>
  BY DEF PriorEvidenceLost, NoPriorEvidence, PriorEvidence, Snapshot
<1>2. job'.inventory = [v \in Present |-> registry[v]]
  BY <1>1 DEF Inv, Shape
<1>3. \A v \in DOMAIN job'.inventory : job'.inventory[v] = registry[v] /\ v \in Versions
  BY <1>2 DEF Present
<1>4. \A v \in Versions : registry[v].id \in Nat
  BY DEF Inv, TypeOK, Entry
<1>5. Inventoried'
  BY <1>1, <1>3, <1>4 DEF Inventoried
<1>6. ObservedSinceCreation'
  BY <1>1 DEF Seen, ObservedSinceCreation
<1>7. ObservationsStand'
  BY <1>1, <1>3 DEF Seen, ObservedSinceCreation, ObservationsStand
<1> QED
  BY <1>5, <1>6, <1>7 DEF Seen

(* What a new plan says of a version is not less than its date of          *)
(* creation, and where it goes by its predecessor not more than that says. *)
LEMMA NewFirst ==
    ASSUME Inv, Seen, job.step = "plan", NEW v \in DOMAIN job.inventory
    PROVE  /\ job.inventory[v].created <= FirstObserved(v)
           /\ Observed(Predecessor, v) => FirstObserved(v) <= plans[Predecessor].first[v]
<1>1. TypeOK /\ now \in Nat
  BY NatTypes DEF Inv
<1>2. job.inventory[v].created \in 0..now /\ job.inventory[v].created \in Nat
  <2>1. job.inventory[v].created \in 0..now
    BY <1>1, JobAtWork
  <2> QED
    BY <1>1, <2>1
<1>3. CASE Observed(Predecessor, v)
  <2>1. Predecessor # 0 /\ v \in DOMAIN plans[Predecessor].first
        /\ plans[Predecessor].ids[v] = job.inventory[v].id
    BY <1>3 DEF Observed
  <2>2. Predecessor \in DOMAIN plans
    BY <2>1, PredecessorOK
  <2>3. job.inventory[v].created <= plans[Predecessor].first[v]
    BY <2>1, <2>2 DEF Seen, ObservationsStand
  <2>4. FirstObserved(v) = Later(plans[Predecessor].first[v], job.inventory[v].created)
    BY <1>3 DEF FirstObserved
  <2>5. plans[Predecessor].first[v] \in Nat
    BY <2>1, <2>2, PlanNumbers
  <2>6. FirstObserved(v) = plans[Predecessor].first[v]
    BY <1>2, <2>3, <2>4, <2>5 DEF Later
  <2>7. \A n \in Nat : n <= n
    OBVIOUS
  <2> QED
    BY <2>3, <2>5, <2>6, <2>7, Zenon
<1>4. CASE ~ Observed(Predecessor, v)
  <2>1. FirstObserved(v) = Later(now, job.inventory[v].created)
    BY <1>4 DEF FirstObserved
  <2> QED
    BY <1>1, <1>2, <1>4, <2>1 DEF Later
<1> QED
  BY <1>3, <1>4

LEMMA EvidentPlan == ASSUME Inv, Evident, Plan PROVE Evident'
<1>1. PICK n : n = Len(plans) + 1
  OBVIOUS
<1>2. /\ job.step = "plan" /\ job' = [job EXCEPT !.step = "preview"]
      /\ UNCHANGED <<now, graph, registry, runs, events>>
      /\ DOMAIN plans = 1..Len(plans) /\ Len(plans) \in Nat /\ DOMAIN plans' = 1..n
      /\ \A i \in DOMAIN plans : plans'[i] = plans[i]
      /\ plans'[n] = NewPlan
  BY <1>1, PlanStepFacts
<1>3. DOMAIN plans' = DOMAIN plans \cup {n} /\ n \notin DOMAIN plans
  BY <1>1, <1>2
<1>4. /\ DOMAIN plans'[n].ids = DOMAIN job.inventory
      /\ DOMAIN plans'[n].first = Untagged /\ Untagged \subseteq DOMAIN job.inventory
      /\ \A v \in DOMAIN job.inventory : plans'[n].ids[v] = job.inventory[v].id
      /\ \A v \in Untagged : plans'[n].first[v] = FirstObserved(v)
      /\ plans'[n].time = now /\ plans'[n].previous = Predecessor
      /\ plans'[n].candidates = Candidates /\ plans'[n].protected = Protected
  BY <1>2, NewPlanFields DEF Untagged
<1>5. /\ \A v \in DOMAIN job.inventory : job.inventory[v].id \in Nat
      /\ DOMAIN job.inventory \subseteq Versions
  BY <1>2, JobAtWork DEF Inv
<1>6. job'.step = "preview"
  BY <1>2 DEF Inv, Shape
<1>7. ObservedSinceCreation'
  <2> SUFFICES ASSUME NEW a \in DOMAIN plans', NEW v \in DOMAIN plans'[a].first
      PROVE  /\ plans'[a].ids[v] <= registry[v].id
             /\ plans'[a].ids[v] = registry[v].id => registry[v].created <= plans'[a].first[v]
    BY <1>2 DEF ObservedSinceCreation
  <2>1. CASE a \in DOMAIN plans
    <3>1. plans'[a] = plans[a] /\ v \in DOMAIN plans[a].first
      BY <1>2, <2>1
    <3>2. /\ plans[a].ids[v] <= registry[v].id
          /\ plans[a].ids[v] = registry[v].id => registry[v].created <= plans[a].first[v]
      BY <2>1, <3>1 DEF Evident, Seen, ObservedSinceCreation
    <3> QED
      BY <3>1, <3>2, Zenon
  <2>2. CASE a = n
    <3>1. v \in DOMAIN job.inventory /\ v \in Untagged
      BY <1>4, <2>2
    <3>2. /\ job.inventory[v].id <= registry[v].id
          /\ job.inventory[v].id = registry[v].id =>
                job.inventory[v].created = registry[v].created
      BY <1>2, <3>1 DEF Evident, Seen, Inventoried
    <3>3. job.inventory[v].created <= FirstObserved(v)
      BY <1>2, <3>1, NewFirst DEF Evident
    <3>4. plans'[a].ids[v] = job.inventory[v].id /\ plans'[a].first[v] = FirstObserved(v)
      BY <1>4, <2>2, <3>1
    <3> QED
      BY <3>2, <3>3, <3>4, Zenon
  <2> QED
    BY <1>3, <2>1, <2>2
<1>8. Seen'
  BY <1>6, <1>7 DEF Seen, Inventoried, ObservationsStand
<1>9. ASSUME NEW i \in DOMAIN plans PROVE Continues(i)' /\ Judges(i)'
  <2>1. plans'[i] = plans[i] /\ Continues(i) /\ Judges(i)
    BY <1>2, <1>9 DEF Evident
  <2>2. plans[i].previous # 0 => plans'[plans[i].previous] = plans[plans[i].previous]
    <3>1. plans[i].previous \in 0..(i - 1) /\ i \in 1..Len(plans)
      BY <1>2, <1>9, PlanNumbers
    <3> QED
      BY <1>2, <3>1
  <2>3. Continues(i)'
    BY <2>1, <2>2 DEF Continues, SawUntagged
  <2> QED
    BY <2>1, <2>3 DEF Judges
<1>10. Continues(n)'
  <2>1. PICK p : p = Predecessor
    OBVIOUS
  <2> SUFFICES ASSUME NEW v \in Untagged, p # 0, SawUntagged(p, n, v)'
      PROVE  plans'[n].first[v] <= plans'[p].first[v]
    BY <1>4, <2>1 DEF Continues
  <2>2. p \in DOMAIN plans /\ plans'[p] = plans[p]
    BY <1>2, <2>1, PredecessorOK
  <2>3. v \in DOMAIN plans[p].first /\ plans[p].ids[v] = job.inventory[v].id
    BY <1>4, <2>2 DEF SawUntagged
  <2>4. Observed(p, v) /\ v \in DOMAIN job.inventory
    BY <1>4, <2>3 DEF Observed
  <2> QED
    BY <1>2, <1>4, <2>1, <2>2, <2>4, NewFirst DEF Evident
<1>11. Judges(n)'
  BY <1>4 DEF Judges, Candidates
<1> QED
  BY <1>3, <1>8, <1>9, <1>10, <1>11 DEF Evident

LEMMA EvidentStep == Inv /\ Evident /\ [Next]_vars => Evident'
<1> SUFFICES ASSUME Inv, Evident, [Next]_vars PROVE Evident'
  OBVIOUS
<1>1. ASSUME plans' = plans, Seen' PROVE Evident'
  BY <1>1 DEF Evident, Continues, Judges, SawUntagged
<1>2. CASE Plan
  BY <1>2, EvidentPlan
<1>3. CASE NoPriorEvidence \/ PriorEvidenceLost \/ \E i \in DOMAIN plans : PriorEvidence(i)
  <2>1. plans' = plans
    BY <1>3 DEF NoPriorEvidence, PriorEvidenceLost, PriorEvidence, Snapshot
  <2> QED
    BY <1>1, <1>3, <2>1, SeenSnapshot DEF Evident
<1>4. CASE plans' = plans /\ (job'.step # "plan" \/ UNCHANGED job)
  BY <1>1, <1>4, SeenKept DEF Evident
<1>5. ASSUME (\E main \in BOOLEAN : Trigger(main)) \/ (\E r \in DOMAIN runs : Rerun(r))
      PROVE  plans' = plans /\ job'.step # "plan"
  <2>1. CASE \E main \in BOOLEAN : Trigger(main)
    <3>1. plans' = plans /\ job' = [Idle EXCEPT !.step = "snapshot", !.run = Len(runs) + 1]
      BY <2>1, Zenon DEF Trigger, Begin
    <3> QED
      BY <3>1 DEF Idle
  <2>2. CASE \E r \in DOMAIN runs : Rerun(r)
    <3>1. PICK r \in DOMAIN runs : Rerun(r)
      BY <2>2
    <3>2. plans' = plans /\ job' = [Idle EXCEPT !.step = "snapshot", !.run = r]
      BY <3>1, Zenon DEF Rerun, Begin
    <3> QED
      BY <3>2 DEF Idle
  <2> QED
    BY <1>5, <2>1, <2>2
<1>6. Preview \/ Refuse \/ Fail => plans' = plans /\ job'.step # "plan"
  BY DEF Preview, Refuse, Fail, Conclude, Idle
<1>7. Tick \/ (\E v \in Versions : Retag(v) \/ Delete(v))
           \/ (\E v \in Versions, tag \in BOOLEAN : Push(v, tag)) \/ UNCHANGED vars
      => UNCHANGED <<plans, job>>
  BY DEF Tick, Retag, Delete, Push, Change, vars
<1> QED
  BY <1>2, <1>3, <1>4, <1>5, <1>6, <1>7 DEF Next

LEMMA EvidentInit == Init => Evident
<1> SUFFICES ASSUME Init PROVE Evident
  OBVIOUS
<1>1. plans = << >> /\ job = Idle
  BY DEF Init
<1>2. DOMAIN plans = {} /\ job.step = "idle"
  BY <1>1 DEF Idle
<1> QED
  BY <1>2 DEF Evident, Seen, Inventoried, ObservedSinceCreation, ObservationsStand

(* Evidence is not lost: a version that nothing holds, and that a line of  *)
(* plans saw untagged for longer than the floor, is a candidate of the     *)
(* last of them, whatever was deleted, pushed again or retagged meanwhile. *)
THEOREM EvidenceIsNotLost == Spec => []WatchedIsCandidate
BY InitOK, TypeStep, EvidentInit, EvidentStep, EvidentImplies, PTL DEF Spec

-------------------------------------------------------------------------------
(* The worklist computes the least closed set.  By well-founded induction, *)
(* as minimal counterexamples: each turn reaches one version more, or      *)
(* takes a version that was reached off what is pending.                   *)
Closed(g, inventory, S) == \A u \in S : Dependencies(g, inventory, u) \subseteq S

LEMMA HoldsIsClosed ==
    ASSUME NEW g, NEW inventory, Complete(g, inventory), NEW S \in SUBSET inventory
    PROVE  Holds(g, inventory, S) <=> Closed(g, inventory, S)
<1>1. \A v \in S : \A w : w \in Dependencies(g, inventory, v) <=>
         \/ w \in g.children[v]
         \/ w \in inventory /\ g.subject[w] = v
         \/ w \in inventory /\ \E r \in inventory : g.subject[r] = v /\ r \in g.children[w]
  BY DEF Dependencies, Referrers, Parents
<1>2. \A v \in S : g.children[v] \subseteq inventory
  BY DEF Complete
<1>3. ASSUME Holds(g, inventory, S), NEW v \in S, NEW w \in Dependencies(g, inventory, v)
      PROVE  w \in S
  <2>1. w \in inventory
    BY <1>1, <1>2, <1>3
  <2>2. \/ w \in g.children[v] \/ g.subject[w] = v
        \/ \E r \in g.children[w] : r \in inventory /\ g.subject[r] = v
    BY <1>1, <1>3
  <2> QED
    BY <1>3, <2>1, <2>2 DEF Holds
<1>4. ASSUME Closed(g, inventory, S), NEW v \in S, NEW w \in inventory,
             \/ w \in g.children[v] \/ g.subject[w] = v
             \/ \E r \in g.children[w] : r \in inventory /\ g.subject[r] = v
      PROVE  w \in S
  BY <1>1, <1>4 DEF Closed
<1> QED
  BY <1>3, <1>4 DEF Holds, Closed

LEMMA DependenciesInside ==
    ASSUME NEW g, NEW inventory, Complete(g, inventory), NEW v \in inventory
    PROVE  Dependencies(g, inventory, v) \subseteq inventory
<1>1. g.children[v] \subseteq inventory
  BY DEF Complete
<1> QED
  BY <1>1 DEF Dependencies, Referrers, Parents

LEMMA TurnIs ==
    ASSUME NEW g, NEW inventory, Complete(g, inventory), NEW w \in Worklist(inventory),
           w.pending # {}
    PROVE  /\ Turn(g, inventory, w) \in Worklist(inventory)
           /\ \E v \in w.pending :
                 /\ Turn(g, inventory, w).reached = w.reached \cup {v}
                 /\ Turn(g, inventory, w).pending =
                       (w.pending \ {v}) \cup
                       (IF v \in w.reached THEN {}
                        ELSE Dependencies(g, inventory, v) \ w.reached)
<1>1. PICK v : v = CHOOSE u \in w.pending : TRUE
  OBVIOUS
<1>2. v \in w.pending
  BY <1>1, Zenon
<1>3. w.pending \subseteq inventory /\ w.reached \subseteq inventory
  BY DEF Worklist
<1>4. Dependencies(g, inventory, v) \subseteq inventory
  BY <1>2, <1>3, DependenciesInside
<1> DEFINE new == IF v \in w.reached THEN {} ELSE Dependencies(g, inventory, v) \ w.reached
<1>5. Turn(g, inventory, w) =
         [pending |-> (w.pending \ {v}) \cup new, reached |-> w.reached \cup {v}]
  BY <1>1, Zenon DEF Turn
<1>6. new \subseteq inventory
  BY <1>4
<1>7. Turn(g, inventory, w).reached = w.reached \cup {v}
      /\ Turn(g, inventory, w).pending = (w.pending \ {v}) \cup new
  BY <1>5
<1>8. Turn(g, inventory, w) \in Worklist(inventory)
  <2> HIDE DEF new
  <2> QED
    BY <1>2, <1>3, <1>5, <1>6 DEF Worklist
<1> QED
  BY <1>2, <1>7, <1>8

(* A function that the recursive definition may stand for.                 *)
Explores(g, inventory, f) ==
    f = [w \in Worklist(inventory) |->
            IF w.pending = {} THEN w.reached ELSE f[Turn(g, inventory, w)]]

LEMMA SmallestSet ==
    ASSUME NEW A, IsFiniteSet(A), NEW T \in SUBSET (SUBSET A), T # {}
    PROVE  \E x \in T : \A y \in T : y \subseteq x => y = x
<1>1. IsWellFoundedOn(StrictSubsetOrdering(A), SUBSET A)
  BY FS_StrictSubsetOrderingWellFounded, FS_FiniteSubsetsOfFinite, Zenon
<1>2. PICK x \in T : \A y \in T : ~ (<<y, x>> \in StrictSubsetOrdering(A))
  BY <1>1, WFMin, Zenon
<1>3. \A y \in T : ~ (y \subseteq x /\ y # x)
  BY <1>2 DEF StrictSubsetOrdering
<1> QED
  BY <1>3

LEMMA ExploresOnce ==
    ASSUME NEW g, NEW inventory, IsFiniteSet(inventory), Complete(g, inventory),
           NEW e, Explores(g, inventory, e), NEW f, Explores(g, inventory, f)
    PROVE  e = f
<1> DEFINE D == {w \in Worklist(inventory) : e[w] # f[w]}
<1>1. ASSUME D = {} PROVE e = f
  <2>1. e = [w \in Worklist(inventory) |->
               IF w.pending = {} THEN w.reached ELSE e[Turn(g, inventory, w)]]
    BY Zenon DEF Explores
  <2>2. f = [w \in Worklist(inventory) |->
               IF w.pending = {} THEN w.reached ELSE f[Turn(g, inventory, w)]]
    BY Zenon DEF Explores
  <2>3. \A w \in Worklist(inventory) : e[w] = f[w]
    BY <1>1
  <2>4. e = [w \in Worklist(inventory) |-> e[w]] /\ f = [w \in Worklist(inventory) |-> f[w]]
    BY <2>1, <2>2
  <2> QED
    BY <2>3, <2>4
<1>2. \A w \in Worklist(inventory) :
         /\ e[w] = IF w.pending = {} THEN w.reached ELSE e[Turn(g, inventory, w)]
         /\ f[w] = IF w.pending = {} THEN w.reached ELSE f[Turn(g, inventory, w)]
  BY Zenon DEF Explores
<1>3. ASSUME NEW w \in D
      PROVE  w.pending # {} /\ Turn(g, inventory, w) \in D
  <2>1. w \in Worklist(inventory) /\ e[w] # f[w]
    OBVIOUS
  <2>2. w.pending # {}
    BY <1>2, <2>1
  <2>3. e[Turn(g, inventory, w)] # f[Turn(g, inventory, w)]
    BY <1>2, <2>1, <2>2
  <2>4. Turn(g, inventory, w) \in Worklist(inventory)
    BY <2>1, <2>2, TurnIs
  <2> QED
    BY <2>2, <2>3, <2>4
<1>4. D \subseteq Worklist(inventory)
  OBVIOUS
<1> HIDE DEF D
<1> SUFFICES ASSUME D # {} PROVE FALSE
  BY <1>1
<1> DEFINE U == {inventory \ w.reached : w \in D}
<1>5. PICK u \in U : \A y \in U : y \subseteq u => y = u
  <2>1. U # {} /\ U \in SUBSET (SUBSET inventory)
    OBVIOUS
  <2> HIDE DEF U
  <2> QED
    BY <2>1, SmallestSet
<1> DEFINE P == {w.pending : w \in {x \in D : inventory \ x.reached = u}}
<1>6. PICK p \in P : \A y \in P : y \subseteq p => y = p
  <2>1. P # {}
    BY <1>5
  <2>2. P \in SUBSET (SUBSET inventory)
    BY <1>4 DEF Worklist
  <2> HIDE DEF P
  <2> QED
    BY <2>1, <2>2, SmallestSet
<1>7. PICK w \in D : inventory \ w.reached = u /\ w.pending = p
  BY <1>6
<1> DEFINE t == Turn(g, inventory, w)
<1>8. w \in Worklist(inventory) /\ w.pending # {} /\ t \in D
  BY <1>3, <1>4
<1>9. PICK v \in w.pending :
         /\ t.reached = w.reached \cup {v}
         /\ t.pending = (w.pending \ {v}) \cup
                        (IF v \in w.reached THEN {}
                         ELSE Dependencies(g, inventory, v) \ w.reached)
  BY <1>8, TurnIs
<1>10. w.pending \subseteq inventory /\ w.reached \subseteq inventory
  BY <1>8 DEF Worklist
<1>11. inventory \ t.reached \in U
  BY <1>8
<1> HIDE DEF t, U
<1>12. inventory \ t.reached = u
  <2>1. inventory \ t.reached \subseteq u
    BY <1>7, <1>9
  <2> QED
    BY <1>5, <1>11, <2>1
<1>13. v \in w.reached
  BY <1>7, <1>9, <1>10, <1>12
<1>14. t.pending \in P
  BY <1>8, <1>12
<1> HIDE DEF P
<1>15. t.pending = w.pending \ {v}
  BY <1>9, <1>13
<1>16. t.pending = p
  BY <1>6, <1>7, <1>14, <1>15
<1> QED
  BY <1>7, <1>9, <1>15, <1>16

(* What is left to be reached from a worklist: the least set that holds    *)
(* what is on it and the dependencies of what was not yet reached.         *)
Covered(g, inventory, w, S) ==
    /\ w.reached \cup w.pending \subseteq S
    /\ \A u \in S \ w.reached : Dependencies(g, inventory, u) \subseteq S

Hull(g, inventory, w) ==
    {v \in inventory : \A S \in SUBSET inventory : Covered(g, inventory, w, S) => v \in S}

LEMMA HullExplores ==
    ASSUME NEW g, NEW inventory, Complete(g, inventory)
    PROVE  Explores(g, inventory, [w \in Worklist(inventory) |-> Hull(g, inventory, w)])
<1> DEFINE f == [w \in Worklist(inventory) |-> Hull(g, inventory, w)]
<1>1. ASSUME NEW w \in Worklist(inventory), w.pending = {}
      PROVE  Hull(g, inventory, w) = w.reached
  <2>1. w.reached \in SUBSET inventory
    BY DEF Worklist
  <2>2. Covered(g, inventory, w, w.reached)
    BY <1>1 DEF Covered
  <2>3. \A S : Covered(g, inventory, w, S) => w.reached \subseteq S
    BY DEF Covered
  <2> QED
    BY <2>1, <2>2, <2>3 DEF Hull
<1>2. ASSUME NEW w \in Worklist(inventory), w.pending # {}
      PROVE  Hull(g, inventory, w) = Hull(g, inventory, Turn(g, inventory, w))
  <2> DEFINE t == Turn(g, inventory, w)
  <2>1. PICK v \in w.pending :
           /\ t.reached = w.reached \cup {v}
           /\ t.pending = (w.pending \ {v}) \cup
                          (IF v \in w.reached THEN {}
                           ELSE Dependencies(g, inventory, v) \ w.reached)
    BY <1>2, TurnIs
  <2> HIDE DEF t
  <2>2. ASSUME NEW S \in SUBSET inventory
        PROVE  Covered(g, inventory, w, S) <=> Covered(g, inventory, t, S)
    <3>1. CASE v \in w.reached
      <4>1. t.reached = w.reached /\ t.pending = w.pending \ {v}
        BY <2>1, <3>1
      <4>2. t.reached \cup t.pending = w.reached \cup w.pending
        BY <3>1, <4>1
      <4> QED
        BY <4>1, <4>2 DEF Covered
    <3>2. CASE v \notin w.reached
      <4>1. t.reached = w.reached \cup {v}
            /\ t.pending = (w.pending \ {v}) \cup (Dependencies(g, inventory, v) \ w.reached)
        BY <2>1, <3>2
      <4>2. ASSUME Covered(g, inventory, w, S) PROVE Covered(g, inventory, t, S)
        <5>1. v \in S \ w.reached
          BY <3>2, <4>2 DEF Covered
        <5>2. Dependencies(g, inventory, v) \subseteq S
          BY <4>2, <5>1 DEF Covered
        <5> QED
          BY <4>1, <4>2, <5>1, <5>2 DEF Covered
      <4>3. ASSUME Covered(g, inventory, t, S) PROVE Covered(g, inventory, w, S)
        <5>1. w.reached \cup w.pending \subseteq S /\ Dependencies(g, inventory, v) \subseteq S
          BY <4>1, <4>3 DEF Covered
        <5>2. \A u \in S \ w.reached : Dependencies(g, inventory, u) \subseteq S
          BY <4>1, <4>3, <5>1 DEF Covered
        <5> QED
          BY <5>1, <5>2 DEF Covered
      <4> QED
        BY <4>2, <4>3
    <3> QED
      BY <3>1, <3>2
  <2>3. Hull(g, inventory, w) = Hull(g, inventory, t)
    BY <2>2 DEF Hull
  <2> QED
    BY <2>3 DEF t
<1>3. \A w \in Worklist(inventory) : w.pending # {} => Turn(g, inventory, w) \in Worklist(inventory)
  BY TurnIs
<1>4. \A w \in Worklist(inventory) :
         f[w] = IF w.pending = {} THEN w.reached ELSE f[Turn(g, inventory, w)]
  BY <1>1, <1>2, <1>3
<1>5. f = [w \in Worklist(inventory) |-> f[w]]
  OBVIOUS
<1> HIDE DEF f
<1>6. f = [w \in Worklist(inventory) |->
             IF w.pending = {} THEN w.reached ELSE f[Turn(g, inventory, w)]]
  BY <1>4, <1>5
<1>7. Explores(g, inventory, f)
  BY <1>6, Zenon DEF Explores
<1> QED
  BY <1>7 DEF f

(* For every complete graph, the worklist of build_plan ends with the      *)
(* least set that holds the tagged versions and all they keep.             *)
THEOREM WorklistFindsWhatIsHeld ==
    ASSUME NEW g, NEW inventory \in SUBSET Versions, Complete(g, inventory),
           NEW tagged \in SUBSET inventory
    PROVE  Reachable(g, inventory, tagged) = Held(g, inventory, tagged)
<1>1. IsFiniteSet(inventory)
  BY FiniteVersions, FS_Subset
<1> DEFINE f == [w \in Worklist(inventory) |-> Hull(g, inventory, w)]
           e == CHOOSE h : Explores(g, inventory, h)
           start == [pending |-> tagged, reached |-> {}]
<1>2. Explores(g, inventory, f)
  BY HullExplores
<1>3. Explores(g, inventory, e)
  <2> HIDE DEF f
  <2> QED
    BY <1>2, Zenon
<1>4. Reachable(g, inventory, tagged) = e[start]
  BY Zenon DEF Reachable, Explores
<1>5. start \in Worklist(inventory) /\ start.pending = tagged /\ start.reached = {}
  BY DEF Worklist
<1>6. f[start] = Hull(g, inventory, start)
  <2> HIDE DEF start
  <2> QED
    BY <1>5
<1> HIDE DEF f, e, start
<1>7. e = f
  BY <1>1, <1>2, <1>3, ExploresOnce
<1>8. Reachable(g, inventory, tagged) = Hull(g, inventory, start)
  BY <1>4, <1>6, <1>7
<1>9. \A S \in SUBSET inventory :
         Covered(g, inventory, start, S) <=> tagged \subseteq S /\ Holds(g, inventory, S)
  BY <1>5, HoldsIsClosed DEF Covered, Closed
<1>10. Hull(g, inventory, start) = Held(g, inventory, tagged)
  BY <1>9 DEF Hull, Held
<1> QED
  BY <1>8, <1>10

(* What a plan protects, over the graph that it was made of.               *)
Protects(i) ==
    LET inventory == DOMAIN plans[i].ids
    IN  /\ Complete(graph, inventory)
        /\ plans[i].protected = Held(graph, inventory, inventory \ DOMAIN plans[i].first)

Protecting == Evident /\ \A i \in DOMAIN plans : Protects(i)

LEMMA ProtectingImplies == Protecting => ProtectedIsHeld
<1> SUFFICES ASSUME Protecting, NEW i \in DOMAIN plans
    PROVE  LET inventory == DOMAIN plans[i].ids
               held == Held(graph, inventory, inventory \ DOMAIN plans[i].first)
           IN  plans[i].protected = held /\ plans[i].candidates \cap held = {}
  BY DEF ProtectedIsHeld
<1>1. Protects(i) /\ Judges(i)
  BY DEF Protecting, Evident
<1>2. plans[i].candidates \cap plans[i].protected = {}
  BY <1>1 DEF Judges
<1> QED
  BY <1>1, <1>2 DEF Protects

LEMMA ProtectingStep == Inv /\ Protecting /\ [Next]_vars => Protecting'
<1> SUFFICES ASSUME Inv, Protecting, [Next]_vars PROVE Protecting'
  OBVIOUS
<1>1. Evident'
  BY EvidentStep DEF Protecting
<1>2. CASE Plan
  <2>1. PICK n : n = Len(plans) + 1
    OBVIOUS
  <2>2. /\ job.step = "plan" /\ graph' = graph /\ UNCHANGED registry
        /\ DOMAIN plans = 1..Len(plans) /\ Len(plans) \in Nat /\ DOMAIN plans' = 1..n
        /\ \A i \in DOMAIN plans : plans'[i] = plans[i]
        /\ plans'[n] = NewPlan
    BY <1>2, <2>1, PlanStepFacts
  <2>3. DOMAIN plans' = DOMAIN plans \cup {n}
    BY <2>1, <2>2
  <2>4. ASSUME NEW i \in DOMAIN plans PROVE Protects(i)'
    <3>1. Protects(i) /\ plans'[i] = plans[i]
      BY <2>2, <2>4 DEF Protecting
    <3> QED
      BY <2>2, <3>1 DEF Protects
  <2>5. PICK inventory : inventory = DOMAIN job.inventory
    OBVIOUS
  <2>6. PICK tagged : tagged = TaggedVersions
    OBVIOUS
  <2>7. /\ DOMAIN plans'[n].ids = inventory /\ DOMAIN plans'[n].first = inventory \ tagged
        /\ plans'[n].protected = Reachable(graph, inventory, tagged)
    BY <2>2, <2>5, <2>6, NewPlanFields DEF Untagged, Protected
  <2>8. inventory \in SUBSET Versions /\ tagged \in SUBSET inventory
    BY <2>2, <2>5, <2>6, JobAtWork DEF Inv, TaggedVersions
  <2>9. Complete(graph, inventory)
    BY <1>2, <2>5 DEF Plan, Plannable
  <2>10. Reachable(graph, inventory, tagged) = Held(graph, inventory, tagged)
    BY <2>8, <2>9, WorklistFindsWhatIsHeld
  <2>11. inventory \ (inventory \ tagged) = tagged
    BY <2>8
  <2>12. Protects(n)'
    BY <2>2, <2>7, <2>9, <2>10, <2>11 DEF Protects
  <2> QED
    BY <1>1, <2>3, <2>4, <2>12 DEF Protecting
<1>3. CASE plans' = plans /\ graph' = graph
  BY <1>1, <1>3 DEF Protecting, Protects
<1>4. Plan \/ (plans' = plans /\ graph' = graph)
  BY DEF Next, vars, Tick, Retag, Delete, Push, Change, Trigger, Rerun, PriorEvidence,
         NoPriorEvidence, PriorEvidenceLost, Snapshot, Preview, Refuse, Fail, Conclude
<1> QED
  BY <1>2, <1>3, <1>4

(* A plan protects exactly what a tagged version holds, through indexes,   *)
(* attachments and the indexes that wrap them, and none of it is a         *)
(* candidate - in every graph, not only in the ones a run tries.           *)
THEOREM PlansProtectWhatIsHeld == Spec => []ProtectedIsHeld
<1>1. Init => Protecting
  <2> SUFFICES ASSUME Init PROVE Protecting
    OBVIOUS
  <2>1. plans = << >>
    BY DEF Init
  <2>2. DOMAIN plans = {}
    BY <2>1
  <2> QED
    BY <2>2, EvidentInit DEF Protecting
<1> QED
  BY InitOK, TypeStep, ProtectingStep, ProtectingImplies, <1>1, PTL DEF Spec

-------------------------------------------------------------------------------
(* A preview reads the plan of its own attempt, and finds nothing in it to *)
(* refuse.                                                                 *)
PreviewsOwnPlan ==
    job.step = "preview" =>
       LET p == plans[Len(plans)]
       IN  /\ p.run = job.run /\ p.attempt = runs[job.run].attempt
           /\ Previewable

OwnPlan ==
    job.step = "preview" => /\ plans[Len(plans)].run = job.run
                            /\ plans[Len(plans)].attempt = runs[job.run].attempt

LEMMA OwnPlanStep == Inv /\ OwnPlan /\ [Next]_vars => OwnPlan'
<1> SUFFICES ASSUME Inv, OwnPlan, [Next]_vars, job'.step = "preview" PROVE OwnPlan'
  BY DEF OwnPlan
<1>1. CASE UNCHANGED <<runs, plans, job>>
  BY <1>1 DEF OwnPlan
<1>2. CASE Plan
  <2>1. /\ job' = [job EXCEPT !.step = "preview"] /\ runs' = runs
        /\ plans'[Len(plans')] = NewPlan
    BY <1>2, PlanStepFacts
  <2>2. job'.run = job.run
    BY <2>1 DEF Inv, Shape
  <2> QED
    BY <2>1, <2>2, NewPlanFields DEF OwnPlan
<1>3. CASE NoPriorEvidence \/ PriorEvidenceLost \/ \E i \in DOMAIN plans : PriorEvidence(i)
  <2>1. \E prior : job' = [job EXCEPT !.step = "plan", !.prior = prior,
                                      !.inventory = [v \in Present |-> registry[v]]]
    BY <1>3 DEF NoPriorEvidence, PriorEvidenceLost, PriorEvidence, Snapshot
  <2>2. job'.step = "plan"
    BY <2>1 DEF Inv, Shape
  <2> QED
    BY <2>2
<1>4. ASSUME NEW main \in BOOLEAN, Trigger(main) PROVE FALSE
  <2>1. job' = [Idle EXCEPT !.step = "snapshot", !.run = Len(runs) + 1]
    BY <1>4 DEF Trigger, Begin
  <2> QED
    BY <2>1 DEF Idle
<1>5. ASSUME NEW r \in DOMAIN runs, Rerun(r) PROVE FALSE
  <2>1. job' = [Idle EXCEPT !.step = "snapshot", !.run = r]
    BY <1>5 DEF Rerun, Begin
  <2> QED
    BY <2>1 DEF Idle
<1>6. CASE Preview \/ Refuse \/ Fail
  <2>1. job' = Idle
    BY <1>6 DEF Preview, Refuse, Fail, Conclude
  <2> QED
    BY <2>1 DEF Idle
<1>7. Tick \/ (\E v \in Versions : Retag(v) \/ Delete(v))
           \/ (\E v \in Versions, tag \in BOOLEAN : Push(v, tag)) \/ UNCHANGED vars
      => UNCHANGED <<runs, plans, job>>
  BY DEF Tick, Retag, Delete, Push, Change, vars
<1> QED
  BY <1>1, <1>2, <1>3, <1>4, <1>5, <1>6, <1>7 DEF Next

(* The preview of a run never refuses: the plan it reads is the one of its *)
(* own attempt, and protects none of its candidates                        *)
(* (build_deletion_preview).                                               *)
THEOREM PreviewIsOfOwnPlan == Spec => []PreviewsOwnPlan
<1>1. Init => OwnPlan
  BY DEF Init, Idle, OwnPlan
<1>2. Inv /\ Evident /\ OwnPlan => PreviewsOwnPlan
  <2> SUFFICES ASSUME Inv, Evident, OwnPlan, job.step = "preview" PROVE Previewable
    BY DEF OwnPlan, PreviewsOwnPlan
  <2>1. plans # << >> /\ DOMAIN plans = 1..Len(plans) /\ Len(plans) \in Nat
    BY PlansDomain DEF Inv, TypeOK, JobOK
  <2>2. Len(plans) \in DOMAIN plans
    BY <2>1 DEF Inv, Shape
  <2>3. Judges(Len(plans))
    BY <2>2 DEF Evident
  <2> QED
    BY <2>3 DEF Judges, Previewable
<1> QED
  BY InitOK, TypeStep, EvidentInit, EvidentStep, OwnPlanStep, <1>1, <1>2, PTL DEF Spec
===============================================================================
