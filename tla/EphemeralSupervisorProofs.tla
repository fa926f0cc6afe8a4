--------------------- MODULE EphemeralSupervisorProofs ---------------------
(***************************************************************************)
(* Proofs about the ephemeral supervisor, for any bound on jobs, any number *)
(* of lives and any set of faults.                                          *)
(***************************************************************************)
EXTENDS SupervisorInvariants, TLAPS

USE DEF NoChild, Phases

\* What a child can become but a fresh or a registered one.
Shrinks == \/ child' = child
           \/ child' = NoChild
           \/ Exists /\ child' = [child EXCEPT !.phase = "dead"]

\* The steps that leave the numbers, the requests and the deliveries alone.
Removal == Shrinks /\ UNCHANGED <<requests, runs, latest, delivered>>

(* docker rm -f, docker stop and --rm only ever take a child away.          *)
LEMMA RemovalSteps ==
  ASSUME TypeOK,
         Sweep \/ RemoveAfter \/ StopChild \/ RemoveStopped \/ JobEnds \/ AutoRemove
  PROVE  Removal
  <1>1. RemoveChild => Shrinks
    BY DEF RemoveChild, Shrinks
  <1>2. CASE Sweep
    BY <1>1, <1>2 DEF Sweep, Removal
  <1>3. CASE RemoveAfter
    BY <1>1, <1>3 DEF RemoveAfter, Removal
  <1>4. CASE RemoveStopped
    BY <1>1, <1>4 DEF RemoveStopped, Removal
  <1>5. CASE StopChild
    BY <1>5 DEF StopChild, Removal, Shrinks, Alive, Exists
  <1>6. CASE JobEnds
    BY <1>6 DEF JobEnds, Removal, Shrinks, Exists
  <1>7. CASE AutoRemove
    BY <1>7 DEF AutoRemove, Removal, Shrinks
  <1> QED BY <1>2, <1>3, <1>4, <1>5, <1>6, <1>7

(* The shell goes to a known place, and keeps its client or loses it.       *)
LEMMA GotoType ==
  ASSUME TypeOK, NEW to \in PCs, Goto(to)
  PROVE  pc' \in PCs /\ stopping' \in BOOLEAN /\ client' \in {client, 0}
  BY DEF TypeOK, Goto, PCs, Ended, Foreground

(* The daemon starts the container of the request, or nothing happens.      *)
LEMMA StartsOrNot ==
  ASSUME TypeOK, NEW q \in requests, DaemonStarts(q)
  PROVE  \/ UNCHANGED <<child, delivered, latest>>
         \/ /\ q.op = "start" /\ child.run = q.run /\ child.phase = "created"
            /\ \E t \in {q.token, 0} :
                 /\ child' = [run |-> q.run, phase |-> "booting", token |-> t]
                 /\ delivered' = delivered \cup {[run |-> q.run, token |-> t]}
                 /\ latest' = q.run
  <1>1. CASE child.run = q.run /\ child.phase = "created"
    <2> DEFINE Ts == IF q.run = client THEN {q.token} ELSE {q.token, 0}
    <2>1. PICK t \in Ts :
            /\ child' = [child EXCEPT !.phase = "booting", !.token = t]
            /\ delivered' = delivered \cup {[run |-> q.run, token |-> t]}
            /\ latest' = q.run
      BY <1>1, Zenon DEF DaemonStarts
    <2>2. t \in {q.token, 0} /\ q.op = "start"
      BY DEF DaemonStarts
    <2>3. child \in [run : Nat, phase : Phases, token : Nat]
      BY DEF TypeOK
    <2>4. child' = [run |-> q.run, phase |-> "booting", token |-> t]
      BY <1>1, <2>1, <2>3
    <2> QED BY <1>1, <2>1, <2>2, <2>4
  <1>2. CASE ~(child.run = q.run /\ child.phase = "created")
    BY <1>2 DEF DaemonStarts
  <1> QED BY <1>1, <1>2

LEMMA ShrunkType ==
  ASSUME TypeOK, Shrinks
  PROVE  child' \in [run : Nat, phase : Phases, token : Nat]
  BY DEF TypeOK, Shrinks
-----------------------------------------------------------------------------
LEMMA TypeInit == Init => TypeOK
  <1> SUFFICES ASSUME Init PROVE TypeOK
    OBVIOUS
  <1>1. pc \in PCs /\ stopping \in BOOLEAN /\ daemon \in {"up", "down", "back"}
    BY DEF Init, PCs, Ended
  <1>2. child \in [run : Nat, phase : Phases, token : Nat]
    BY DEF Init
  <1>3. requests = {} /\ delivered = {} /\ torn = {} /\ missed = FALSE
    BY DEF Init
  <1> QED BY <1>1, <1>2, <1>3 DEF Init, TypeOK

LEMMA TypeStep == TypeOK /\ [Next]_vars => TypeOK'
  <1> SUFFICES ASSUME TypeOK, [Next]_vars PROVE TypeOK'
    OBVIOUS
  <1> USE DEF supervisorVars, daemonVars
  <1>0. /\ {"sweep", "admit", "mint", "attest", "start", "wait", "remove", "inspect"} \subseteq PCs
        /\ {"stop", "rm", "verify", "exit", "off", "done", "failed", "killed"} \subseteq PCs
    BY DEF PCs, Ended, Foreground
  <1>1. CASE Sweep \/ RemoveAfter \/ StopChild \/ RemoveStopped \/ JobEnds \/ AutoRemove
    <2>1. child' \in [run : Nat, phase : Phases, token : Nat]
      BY <1>1, RemovalSteps, ShrunkType DEF Removal
    <2>2. \/ \E to \in PCs : Goto(to)
          \/ UNCHANGED <<pc, stopping, client>>
      BY <1>0, <1>1 DEF Sweep, RemoveAfter, StopChild, RemoveStopped, JobEnds, AutoRemove
    <2>3. pc' \in PCs /\ stopping' \in BOOLEAN /\ client' \in Nat
      BY <2>2, GotoType DEF TypeOK
    <2>4. UNCHANGED <<completed, token, base, requests, lives, runs, minted,
                      latest, delivered, torn, missed>>
      BY <1>1 DEF Sweep, RemoveAfter, StopChild, RemoveStopped, JobEnds, AutoRemove
    <2>5. daemon' \in {daemon, "up"}
      BY <1>1 DEF Sweep, RemoveAfter, StopChild, RemoveStopped, JobEnds, AutoRemove
    <2> QED BY <2>1, <2>3, <2>4, <2>5 DEF TypeOK
  <1>2. CASE Admit \/ AttestMetadata
    <2>1. \E to \in PCs : Goto(to)
      BY <1>0, <1>2 DEF Admit, AttestMetadata
    <2>2. pc' \in PCs /\ stopping' \in BOOLEAN /\ client' \in Nat
      BY <2>1, GotoType DEF TypeOK
    <2> QED BY <1>2, <2>2 DEF Admit, AttestMetadata, TypeOK
  <1>3. CASE Mint
    <2>1. \E to \in PCs : Goto(to)
      BY <1>0, <1>3 DEF Mint
    <2>2. pc' \in PCs /\ stopping' \in BOOLEAN /\ client' \in Nat
      BY <2>1, GotoType DEF TypeOK
    <2>3. token' \in Nat /\ minted' \in Nat
      BY <1>3 DEF Mint, TypeOK
    <2> QED BY <1>3, <2>2, <2>3 DEF Mint, TypeOK
  <1>4. CASE StartChild
    <2>1. [run |-> runs + 1, op |-> "create", token |-> token] \in Request
      BY DEF TypeOK, Request
    <2> QED BY <1>0, <1>4, <2>1 DEF StartChild, TypeOK
  <1>5. CASE ClientReturns
    BY <1>0, <1>5 DEF ClientReturns, TypeOK
  <1>6. CASE Inspect
    <2>1. \E to \in PCs : Goto(to)
      BY <1>0, <1>6 DEF Inspect
    <2>2. pc' \in PCs /\ stopping' \in BOOLEAN /\ client' \in Nat
      BY <2>1, GotoType DEF TypeOK
    <2>3. /\ torn' = torn \/ torn' = torn \cup {runs}
          /\ completed' = completed \/ completed' = completed + 1
      BY <1>6 DEF Inspect
    <2>4. torn' \subseteq Nat /\ completed' \in Nat
      <3>1. torn \subseteq Nat /\ runs \in Nat /\ completed \in Nat
        BY DEF TypeOK
      <3>2. torn' \subseteq Nat
        BY <2>3, <3>1, Zenon
      <3> QED BY <2>3, <3>1, <3>2
    <2> QED BY <1>6, <2>2, <2>4 DEF Inspect, TypeOK
  <1>7. CASE Verify
    <2>1. \E to \in PCs : Goto(to)
      BY <1>0, <1>7 DEF Verify
    <2>2. pc' \in PCs /\ stopping' \in BOOLEAN /\ client' \in Nat
      BY <2>1, GotoType DEF TypeOK
    <2>3. missed' \in BOOLEAN
      <3>1. CASE UNCHANGED missed
        BY <3>1 DEF TypeOK
      <3>2. CASE missed' = \E q \in requests : q.run = client /\ q.op = "create"
        BY <3>2, Zenon
      <3> QED BY <1>7, <3>1, <3>2, Zenon DEF Verify
    <2> QED BY <1>7, <2>2, <2>3 DEF Verify, TypeOK
  <1>8. CASE Stop \/ Kill \/ Launch
    <2>1. CASE Stop
      BY <1>0, <2>1 DEF Stop, TypeOK
    <2>2. CASE Kill
      BY <1>0, <2>2 DEF Kill, TypeOK
    <2>3. CASE Launch
      <3>1. missed' \in BOOLEAN
        BY <2>3, Zenon DEF Launch
      <3>2. /\ pc' = "sweep" /\ lives' = lives + 1 /\ completed' = 0 /\ token' = 0 /\ base' = runs
            /\ UNCHANGED <<stopping, client, daemonVars, runs, minted, latest, delivered, torn>>
        BY <2>3, Zenon DEF Launch
      <3> QED BY <1>0, <3>1, <3>2 DEF TypeOK
    <2> QED BY <1>8, <2>1, <2>2, <2>3
  <1>15. CASE Exit
    <2>1. pc' \in PCs /\ stopping' \in BOOLEAN /\ client' \in Nat
      BY <1>0, <1>15, GotoType DEF Exit, TypeOK
    <2> QED BY <1>15, <2>1 DEF Exit, TypeOK
  <1>9. ASSUME NEW q \in requests, DaemonCreates(q) PROVE TypeOK'
    <2>1. q \in Request /\ [q EXCEPT !.op = "start"] \in Request
      BY DEF TypeOK, Request
    <2>2. [run |-> q.run, phase |-> "created", token |-> 0] \in [run : Nat, phase : Phases, token : Nat]
      BY <2>1 DEF Request
    <2> QED BY <1>9, <2>1, <2>2 DEF DaemonCreates, TypeOK
  <1>10. ASSUME NEW q \in requests, DaemonStarts(q) PROVE TypeOK'
    <2>1. q \in Request
      BY DEF TypeOK
    <2>2. q.run \in Nat /\ q.token \in Nat
      BY <2>1 DEF Request
    <2>3. CASE UNCHANGED <<child, delivered, latest>>
      BY <1>10, <2>3 DEF DaemonStarts, TypeOK
    <2>4. CASE ~UNCHANGED <<child, delivered, latest>>
      <3>1. PICK t \in {q.token, 0} :
              /\ child' = [run |-> q.run, phase |-> "booting", token |-> t]
              /\ delivered' = delivered \cup {[run |-> q.run, token |-> t]}
              /\ latest' = q.run
        BY <1>10, <2>4, StartsOrNot
      <3>2. child' \in [run : Nat, phase : Phases, token : Nat]
        BY <2>2, <3>1
      <3>3. delivered' \subseteq [run : Nat, token : Nat] /\ latest' \in Nat
        BY <2>2, <3>1 DEF TypeOK
      <3> QED BY <1>10, <3>2, <3>3 DEF DaemonStarts, TypeOK
    <2> QED BY <2>3, <2>4
  <1>11. ASSUME NEW q \in requests, DaemonRefuses(q) PROVE TypeOK'
    BY <1>11 DEF DaemonRefuses, TypeOK
  <1>12. CASE ChildBoots
    BY <1>12 DEF ChildBoots, TypeOK
  <1>13. CASE DaemonGoes \/ DaemonReturns
    BY <1>13 DEF DaemonGoes, DaemonReturns, TypeOK
  <1>14. CASE UNCHANGED vars
    BY <1>14 DEF vars, TypeOK
  <1> QED
    BY <1>1, <1>2, <1>3, <1>4, <1>5, <1>6, <1>7, <1>8, <1>9, <1>10, <1>11, <1>12, <1>13, <1>14,
       <1>15 DEF Next, SupervisorStep, DaemonStep, ChildStep

(* Every reachable state is well typed: the controller is at a program     *)
(* point of supervise_ephemeral or its trap, with one child by its name.    *)
THEOREM SupervisorTypeCorrect == Spec => []TypeOK
  BY TypeInit, TypeStep, PTL DEF Spec
-----------------------------------------------------------------------------
\* What happens to requests and containers.
DaemonCase(q) == DaemonCreates(q) \/ DaemonStarts(q) \/ DaemonRefuses(q)

LEMMA NextCases ==
  ASSUME TypeOK, [Next]_vars
  PROVE  \/ Removal \/ StartChild \/ ClientReturns \/ ChildBoots
         \/ \E q \in requests : DaemonCase(q)
  <1> USE DEF supervisorVars, daemonVars
  <1>1. Sweep \/ RemoveAfter \/ StopChild \/ RemoveStopped \/ JobEnds \/ AutoRemove => Removal
    BY RemovalSteps
  <1>2. Admit \/ AttestMetadata \/ Mint \/ Inspect \/ Verify \/ Exit => Removal
    BY DEF Admit, AttestMetadata, Mint, Inspect, Verify, Exit, Removal, Shrinks
  <1>3. Stop \/ Kill \/ Launch \/ DaemonGoes \/ DaemonReturns \/ UNCHANGED vars => Removal
    BY DEF Stop, Kill, Launch, DaemonGoes, DaemonReturns, vars, Removal, Shrinks
  <1> QED BY <1>1, <1>2, <1>3 DEF Next, SupervisorStep, DaemonStep, ChildStep, DaemonCase

LEMMA NumberedRemoval ==
  ASSUME TypeOK, Numbered, Ordered, Removal
  PROVE  Numbered' /\ Ordered'
  <1>1. child \in [run : Nat, phase : Phases, token : Nat] /\ runs \in Nat
    BY DEF TypeOK
  <1>2. /\ child'.run = child.run \/ child'.run = 0
        /\ child' # NoChild => child # NoChild /\ child'.run = child.run /\ child'.phase # "none"
        /\ child'.phase = "created" => child' = child
    BY <1>1 DEF Removal, Shrinks, Numbered, Exists
  <1>3. UNCHANGED <<requests, runs, latest, delivered>>
    BY DEF Removal
  <1>4. Numbered'
    BY <1>1, <1>2, <1>3 DEF Numbered, Exists
  <1>5. Ordered'
    BY <1>1, <1>2, <1>3 DEF Ordered, Startable, Numbered
  <1> QED BY <1>4, <1>5

LEMMA NumberedStart ==
  ASSUME TypeOK, Numbered, Ordered, StartChild
  PROVE  Numbered' /\ Ordered'
  <1> DEFINE new == [run |-> runs + 1, op |-> "create", token |-> token]
  <1>1. /\ runs' = runs + 1 /\ requests' = requests \cup {new}
        /\ UNCHANGED <<child, latest, delivered>>
    BY DEF StartChild
  <1>2. /\ runs \in Nat /\ latest \in Nat /\ child.run \in Nat
        /\ requests \subseteq Request /\ delivered \subseteq [run : Nat, token : Nat]
    BY DEF TypeOK
  <1>3. \A q \in requests : q.run \in Nat
    BY <1>2 DEF Request
  <1>4. new.run = runs + 1 /\ new.op = "create"
    OBVIOUS
  <1> HIDE DEF new
  <1>5. Numbered'
    BY <1>1, <1>2, <1>3, <1>4 DEF Numbered, Exists
  <1>6. Ordered'
    BY <1>1, <1>2, <1>3, <1>4 DEF Ordered, Startable, Numbered
  <1> QED BY <1>5, <1>6

LEMMA NumberedCreates ==
  ASSUME TypeOK, Attached, Numbered, Ordered, NEW q \in requests, DaemonCreates(q)
  PROVE  Numbered' /\ Ordered'
  <1> USE DEF supervisorVars
  <1> DEFINE start == [q EXCEPT !.op = "start"]
  <1>1. /\ runs \in Nat /\ latest \in Nat /\ child.run \in Nat /\ client \in Nat
        /\ requests \subseteq Request /\ delivered \subseteq [run : Nat, token : Nat]
    BY DEF TypeOK
  <1>2. \A p \in requests : p.run \in Nat
    BY <1>1 DEF Request
  <1>3. start.run = q.run /\ start.op = "start"
    BY <1>1 DEF Request
  <1> HIDE DEF start
  <1>4. CASE Exists
    <2>1. requests' = requests \ {q} /\ UNCHANGED <<child, runs, latest, delivered>>
      BY <1>4 DEF DaemonCreates
    <2> QED BY <2>1, <1>1, <1>2 DEF Numbered, Ordered, Startable, Exists
  <1>5. CASE ~Exists
    <2>1. /\ child' = [run |-> q.run, phase |-> "created", token |-> 0]
          /\ requests' = (requests \ {q}) \cup IF q.run = client THEN {start} ELSE {}
          /\ UNCHANGED <<runs, latest, delivered>>
      BY <1>5 DEF DaemonCreates, start
    <2>2. \A p \in requests' : (p \in requests /\ p # q) \/ (p = start /\ q.run = client)
      BY <2>1
    <2>3. Numbered'
      BY <2>1, <2>2, <1>1, <1>2, <1>3 DEF Numbered, Exists
    <2>4. \A p \in requests' : p.op = "create" => p.run # child'.run
      BY <2>1, <2>2, <1>3 DEF Numbered
    <2>5. ASSUME NEW p \in requests', p.op = "start", p.run = child'.run
          PROVE  child'.run > latest'
      BY <2>1, <2>2, <2>5, <1>1, <1>2, <1>3 DEF Numbered, Attached
    <2> QED BY <2>3, <2>4, <2>5 DEF Ordered, Startable
  <1> QED BY <1>4, <1>5

LEMMA NumberedStarts ==
  ASSUME TypeOK, Numbered, Ordered, NEW q \in requests, DaemonStarts(q)
  PROVE  Numbered' /\ Ordered'
  <1> USE DEF supervisorVars
  <1>1. /\ runs \in Nat /\ latest \in Nat /\ child.run \in Nat
        /\ requests \subseteq Request /\ delivered \subseteq [run : Nat, token : Nat]
    BY DEF TypeOK
  <1>2. \A p \in requests : p.run \in Nat
    BY <1>1 DEF Request
  <1>3. requests' = requests \ {q} /\ UNCHANGED runs
    BY DEF DaemonStarts
  <1>4. CASE UNCHANGED <<child, delivered, latest>>
    BY <1>1, <1>2, <1>3, <1>4 DEF Numbered, Ordered, Startable, Exists
  <1>5. CASE ~UNCHANGED <<child, delivered, latest>>
    <2>1. PICK t \in {q.token, 0} :
            /\ child' = [run |-> q.run, phase |-> "booting", token |-> t]
            /\ delivered' = delivered \cup {[run |-> q.run, token |-> t]}
            /\ latest' = q.run
      BY <1>5, StartsOrNot
    <2>2. \A e \in delivered' : e \in delivered \/ e.run = q.run
      BY <2>1
    <2>3. Numbered'
      BY <1>1, <1>2, <1>3, <2>1, <2>2 DEF Numbered, Exists
    <2>4. Ordered'
      BY <1>1, <1>2, <1>3, <2>1 DEF Numbered, Ordered, Startable
    <2> QED BY <2>3, <2>4
  <1> QED BY <1>4, <1>5

LEMMA NumberedStep ==
  ASSUME TypeOK, Attached, Numbered, Ordered, [Next]_vars
  PROVE  Numbered' /\ Ordered'
  <1> USE DEF supervisorVars
  <1>1. CASE Removal
    BY <1>1, NumberedRemoval
  <1>2. CASE StartChild
    BY <1>2, NumberedStart
  <1>3. CASE ClientReturns
    BY <1>3 DEF ClientReturns, Numbered, Ordered, Startable, Exists
  <1>4. CASE ChildBoots
    <2>1. child'.run = child.run /\ child'.phase \in {"working", "dead"} /\ Exists
      BY <1>4 DEF ChildBoots, TypeOK, Exists
    <2> QED BY <1>4, <2>1 DEF ChildBoots, Numbered, Ordered, Startable, Exists
  <1>5. ASSUME NEW q \in requests, DaemonCreates(q) PROVE Numbered' /\ Ordered'
    BY <1>5, NumberedCreates
  <1>6. ASSUME NEW q \in requests, DaemonStarts(q) PROVE Numbered' /\ Ordered'
    BY <1>6, NumberedStarts
  <1>7. ASSUME NEW q \in requests, DaemonRefuses(q) PROVE Numbered' /\ Ordered'
    <2>1. requests' = requests \ {q} /\ (child' = child \/ child' = NoChild)
      BY <1>7 DEF DaemonRefuses
    <2>2. UNCHANGED <<runs, latest, delivered>>
      BY <1>7 DEF DaemonRefuses
    <2> QED BY <2>1, <2>2 DEF Numbered, Ordered, Startable, Exists, TypeOK
  <1> QED BY <1>1, <1>2, <1>3, <1>4, <1>5, <1>6, <1>7, NextCases DEF DaemonCase
-----------------------------------------------------------------------------
LEMMA GotoCases ==
  ASSUME NEW to, Goto(to)
  PROVE  /\ pc' = to \/ (stopping /\ pc \in Foreground /\ pc' = "stop")
         /\ client' = client \/ client' = 0
         /\ pc' \in Ended => client' = 0
  BY DEF Goto

\* The look at the child changes no more than the program point.
LEMMA VerifyMoves ==
  ASSUME Verify
  PROVE  /\ pc = "verify" /\ pc' \in {"exit", "failed"}
         /\ client' = client \/ client' = 0
         /\ pc' = "failed" => client' = 0
         /\ UNCHANGED <<completed, token, base, daemonVars, lives, runs, minted, latest, delivered, torn>>
  <1>1. \/ Goto("exit")
        \/ Goto("failed")
    BY Zenon DEF Verify
  <1>2. pc = "verify"
    BY Zenon DEF Verify
  <1>3. UNCHANGED <<completed, token, base, daemonVars, lives, runs, minted, latest, delivered, torn>>
    BY Zenon DEF Verify
  <1> QED BY <1>1, <1>2, <1>3 DEF Goto, Foreground, Ended

\* The daemon's work leaves the controller where it is.
LEMMA DaemonLeaves ==
  ASSUME TypeOK, NEW q \in requests, DaemonCase(q)
  PROVE  /\ UNCHANGED <<supervisorVars, client, daemon, lives, runs, minted, torn, missed>>
         /\ \A p \in requests' : \E r \in requests : p.run = r.run /\ p.token = r.token
  <1>1. [q EXCEPT !.op = "start"].run = q.run /\ [q EXCEPT !.op = "start"].token = q.token
    BY DEF TypeOK, Request
  <1>2. CASE DaemonCreates(q)
    BY <1>1, <1>2 DEF DaemonCreates
  <1>3. CASE DaemonStarts(q)
    BY <1>3 DEF DaemonStarts
  <1>4. CASE DaemonRefuses(q)
    BY <1>4 DEF DaemonRefuses
  <1> QED BY <1>2, <1>3, <1>4 DEF DaemonCase

LEMMA AttachedStep ==
  ASSUME TypeOK, Attached, Numbered, Counted, [Next]_vars
  PROVE  Attached'
  <1> USE DEF supervisorVars, daemonVars, Ended, Foreground
  <1>0. runs \in Nat /\ client \in Nat
    BY DEF TypeOK
  <1>1. CASE Sweep
    BY <1>1, GotoCases DEF Sweep, Attached
  <1>2. CASE Admit
    BY <1>2, GotoCases DEF Admit, Attached
  <1>3. CASE Mint
    BY <1>3, GotoCases DEF Mint, Attached
  <1>4. CASE AttestMetadata
    BY <1>4, GotoCases DEF AttestMetadata, Attached
  <1>5. CASE StartChild
    BY <1>0, <1>5 DEF StartChild, Attached
  <1>6. CASE ClientReturns
    BY <1>6 DEF ClientReturns, Attached
  <1>7. CASE RemoveAfter
    BY <1>7, GotoCases DEF RemoveAfter, Attached
  <1>8. CASE Inspect
    BY <1>8, GotoCases DEF Inspect, Attached
  <1>9. CASE StopChild
    BY <1>9, GotoCases DEF StopChild, Attached
  <1>10. CASE RemoveStopped
    BY <1>10, GotoCases DEF RemoveStopped, Attached
  <1>11. CASE Verify
    BY <1>11, VerifyMoves DEF Attached
  <1>18. CASE Exit
    BY <1>18, GotoCases DEF Exit, Attached
  <1>12. CASE Stop
    BY <1>12 DEF Stop, Attached
  <1>13. CASE Kill
    BY <1>13 DEF Kill, Attached
  <1>14. CASE Launch
    BY <1>14 DEF Launch, Attached
  <1>15. ASSUME NEW q \in requests, DaemonCase(q) PROVE Attached'
    BY <1>15, DaemonLeaves DEF Attached
  <1>16. CASE ChildBoots \/ JobEnds \/ AutoRemove
    BY <1>16 DEF ChildBoots, JobEnds, AutoRemove, Attached
  <1>17. CASE DaemonGoes \/ DaemonReturns \/ UNCHANGED vars
    BY <1>17 DEF DaemonGoes, DaemonReturns, vars, Attached
  <1> QED
    BY <1>1, <1>2, <1>3, <1>4, <1>5, <1>6, <1>7, <1>8, <1>9, <1>10, <1>11, <1>12, <1>13, <1>14,
       <1>15, <1>16, <1>17, <1>18 DEF Next, SupervisorStep, DaemonStep, ChildStep, DaemonCase

LEMMA CountedStep ==
  ASSUME TypeOK, Counted, [Next]_vars
  PROVE  Counted'
  <1> USE DEF supervisorVars, daemonVars, Ended, Foreground
  <1>0. /\ runs \in Nat /\ base \in Nat /\ completed \in Nat /\ MaxJobs \in Nat
        /\ pc \in PCs
    BY MaxJobsAssumption DEF TypeOK
  <1>1. CASE Sweep
    BY <1>0, <1>1, GotoCases DEF Sweep, Counted
  <1>2. CASE Admit
    BY <1>0, <1>2, GotoCases DEF Admit, Counted
  <1>3. CASE Mint
    BY <1>0, <1>3, GotoCases DEF Mint, Counted
  <1>4. CASE AttestMetadata
    BY <1>0, <1>4, GotoCases DEF AttestMetadata, Counted
  <1>5. CASE StartChild
    BY <1>0, <1>5 DEF StartChild, Counted
  <1>6. CASE ClientReturns
    BY <1>0, <1>6 DEF ClientReturns, Counted
  <1>7. CASE RemoveAfter
    BY <1>0, <1>7, GotoCases DEF RemoveAfter, Counted
  <1>8. CASE Inspect
    BY <1>0, <1>8, GotoCases DEF Inspect, Counted, BoundReached
  <1>9. CASE StopChild \/ RemoveStopped \/ Exit
    BY <1>0, <1>9, GotoCases DEF StopChild, RemoveStopped, Exit, Counted
  <1>15. CASE Verify
    BY <1>0, <1>15, VerifyMoves DEF Counted
  <1>10. CASE Stop \/ Kill
    BY <1>0, <1>10 DEF Stop, Kill, Counted
  <1>11. CASE Launch
    BY <1>0, <1>11 DEF Launch, Counted
  <1>12. ASSUME NEW q \in requests, DaemonCase(q) PROVE Counted'
    BY <1>12, DaemonLeaves DEF Counted
  <1>13. CASE ChildBoots \/ JobEnds \/ AutoRemove
    BY <1>13 DEF ChildBoots, JobEnds, AutoRemove, Counted
  <1>14. CASE DaemonGoes \/ DaemonReturns \/ UNCHANGED vars
    BY <1>14 DEF DaemonGoes, DaemonReturns, vars, Counted
  <1> QED
    BY <1>1, <1>2, <1>3, <1>4, <1>5, <1>6, <1>7, <1>8, <1>9, <1>10, <1>11, <1>12, <1>13, <1>14,
       <1>15 DEF Next, SupervisorStep, DaemonStep, ChildStep, DaemonCase
-----------------------------------------------------------------------------
\* A step that brings no token into being and hands none over.
TokensStay == /\ UNCHANGED <<minted, delivered>>
              /\ token' \in {token, 0}
              /\ \A p \in requests' : p \in requests
              /\ pc' \in {"attest", "start"} => token' # 0

LEMMA TokensKept ==
  ASSUME TypeOK, Tokens, TokensStay
  PROVE  Tokens'
  <1>1. minted \in Nat /\ token \in Nat
    BY DEF TypeOK
  <1>2. \A q \in requests : q.token \in Nat
    BY DEF TypeOK, Request
  <1> QED BY <1>1, <1>2 DEF Tokens, TokensStay, OneTokenPerChild

LEMMA TokensStarts ==
  ASSUME TypeOK, Numbered, Tokens, NEW q \in requests, DaemonStarts(q)
  PROVE  Tokens'
  <1> USE DEF supervisorVars
  <1>1. requests' = requests \ {q} /\ UNCHANGED <<pc, token, minted>>
    BY DEF DaemonStarts
  <1>2. minted \in Nat /\ token \in Nat /\ \A p \in requests : p.token \in Nat
    BY DEF TypeOK, Request
  <1>3. CASE UNCHANGED <<child, delivered, latest>>
    BY <1>1, <1>3, TokensKept DEF TokensStay, Tokens
  <1>4. CASE ~UNCHANGED <<child, delivered, latest>>
    <2>1. PICK t \in {q.token, 0} : delivered' = delivered \cup {[run |-> q.run, token |-> t]}
      BY <1>4, StartsOrNot
    <2> DEFINE new == [run |-> q.run, token |-> t]
    <2>2. new.run = q.run /\ new.token = t /\ delivered' = delivered \cup {new}
      BY <2>1
    <2> HIDE DEF new
    <2>3. t <= minted /\ (t # 0 => t # token)
      BY <1>2 DEF Tokens
    <2>4. \A p \in requests' : p.token # new.token
      BY <1>1, <1>2, <2>2 DEF Tokens
    <2>5. \A e \in delivered : e.run # new.run /\ e.token # q.token
      BY <2>2 DEF Numbered, Tokens
    <2>6. OneTokenPerChild'
      BY <2>2, <2>5 DEF Tokens, OneTokenPerChild
    <2> QED BY <1>1, <1>2, <2>2, <2>3, <2>4, <2>6 DEF Tokens
  <1> QED BY <1>3, <1>4

LEMMA TokensStep ==
  ASSUME TypeOK, Numbered, Tokens, [Next]_vars
  PROVE  Tokens'
  <1> USE DEF supervisorVars, daemonVars, Ended, Foreground
  <1>0. minted \in Nat /\ token \in Nat /\ \A p \in requests : p.token \in Nat
    BY DEF TypeOK, Request
  <1>1. CASE Sweep \/ Admit \/ AttestMetadata \/ RemoveAfter \/ Inspect
    <2>1. TokensStay
      BY <1>1, GotoCases DEF Sweep, Admit, AttestMetadata, RemoveAfter, Inspect, Tokens, TokensStay
    <2> QED BY <2>1, TokensKept
  <1>2. CASE StopChild \/ RemoveStopped \/ Exit
    <2>1. TokensStay
      BY <1>2, GotoCases DEF StopChild, RemoveStopped, Exit, Tokens, TokensStay
    <2> QED BY <2>1, TokensKept
  <1>11. CASE Verify
    <2>1. TokensStay
      BY <1>11, VerifyMoves DEF Tokens, TokensStay
    <2> QED BY <2>1, TokensKept
  <1>3. CASE Stop \/ Kill \/ Launch \/ ClientReturns
    <2>1. TokensStay
      BY <1>3 DEF Stop, Kill, Launch, ClientReturns, Tokens, TokensStay
    <2> QED BY <2>1, TokensKept
  <1>4. CASE ChildBoots \/ JobEnds \/ AutoRemove
    <2>1. TokensStay
      BY <1>4 DEF ChildBoots, JobEnds, AutoRemove, Tokens, TokensStay
    <2> QED BY <2>1, TokensKept
  <1>5. CASE DaemonGoes \/ DaemonReturns \/ UNCHANGED vars
    <2>1. TokensStay
      BY <1>5 DEF DaemonGoes, DaemonReturns, vars, Tokens, TokensStay
    <2> QED BY <2>1, TokensKept
  <1>6. CASE Mint
    <2>1. CASE minted' = minted + 1 /\ token' = minted + 1
      <3>1. UNCHANGED <<requests, delivered>>
        BY <1>6 DEF Mint
      <3>2. \A d \in delivered : d.token \in Nat
        BY DEF TypeOK
      <3> QED BY <1>0, <2>1, <3>1, <3>2 DEF Tokens, OneTokenPerChild
    <2>2. CASE UNCHANGED <<token, minted>> /\ Goto("failed")
      <3>1. TokensStay
        BY <1>6, <2>2, GotoCases DEF Mint, TokensStay
      <3> QED BY <3>1, TokensKept
    <2> QED BY <1>6, <2>1, <2>2 DEF Mint
  <1>7. CASE StartChild
    <2> DEFINE new == [run |-> runs + 1, op |-> "create", token |-> token]
    <2>1. /\ requests' = requests \cup {new} /\ token' = 0
          /\ UNCHANGED <<minted, delivered>> /\ pc' = "wait" /\ token # 0
      BY <1>7 DEF StartChild, Tokens
    <2>2. new.token = token
      OBVIOUS
    <2> HIDE DEF new
    <2>3. /\ \A q \in requests' : 1 <= q.token /\ q.token <= minted
          /\ \A p, q \in requests' : p.token = q.token => p = q
          /\ \A d \in delivered, q \in requests' : q.token # d.token
      BY <1>0, <2>1, <2>2 DEF Tokens
    <2> QED BY <1>0, <2>1, <2>3 DEF Tokens, OneTokenPerChild
  <1>8. ASSUME NEW q \in requests, DaemonCreates(q) PROVE Tokens'
    <2> DEFINE start == [q EXCEPT !.op = "start"]
    <2>1. start.token = q.token
      BY DEF TypeOK, Request
    <2>2. \A p \in requests' : (p \in requests /\ p # q) \/ p = start
      BY <1>8 DEF DaemonCreates
    <2>3. UNCHANGED <<pc, token, minted, delivered>>
      BY <1>8 DEF DaemonCreates
    <2> HIDE DEF start
    <2> QED BY <1>0, <2>1, <2>2, <2>3 DEF Tokens, OneTokenPerChild
  <1>9. ASSUME NEW q \in requests, DaemonStarts(q) PROVE Tokens'
    BY <1>9, TokensStarts
  <1>10. ASSUME NEW q \in requests, DaemonRefuses(q) PROVE Tokens'
    <2>1. TokensStay
      BY <1>10 DEF DaemonRefuses, Tokens, TokensStay
    <2> QED BY <2>1, TokensKept
  <1> QED
    BY <1>1, <1>2, <1>3, <1>4, <1>5, <1>6, <1>7, <1>8, <1>9, <1>10, <1>11
       DEF Next, SupervisorStep, DaemonStep, ChildStep
-----------------------------------------------------------------------------
LEMMA QuietRemoval ==
  ASSUME TypeOK, Removal, ~Alive, ~Startable
  PROVE  ~Alive' /\ ~Startable'
  <1>1. child \in [run : Nat, phase : Phases, token : Nat]
    BY DEF TypeOK
  <1>2. child'.phase \in {"dead", "none"} \/ child' = child
    BY <1>1 DEF Removal, Shrinks
  <1> QED BY <1>2 DEF Removal, Alive, Startable

\* A step of the controller that takes it no nearer to a settled place.
QuietKept == /\ UNCHANGED <<child, requests, daemon, missed>>
             /\ client' \in {client, 0}
             /\ Settled' => Settled
             /\ missed => pc' \in Ended \cup {"exit"}

LEMMA QuietGoto ==
  ASSUME TypeOK, Numbered, Quiet, QuietKept
  PROVE  Quiet'
  <1>1. \A q \in requests : q.run # 0
    BY DEF Numbered, TypeOK, Request
  <1> QED BY <1>1 DEF Quiet, QuietKept, Alive, Startable

LEMMA QuietVerify ==
  ASSUME TypeOK, Numbered, Quiet, Verify
  PROVE  Quiet'
  <1> USE DEF daemonVars, Ended, Foreground
  <1>0. \A q \in requests : q.run # 0
    BY DEF Numbered, TypeOK, Request
  <1>1. UNCHANGED <<child, requests, daemon>> /\ pc = "verify" /\ client' \in {client, 0}
    BY GotoCases DEF Verify
  <1>2. CASE InspectFails /\ Goto("exit") /\ missed' = \E q \in requests : q.run = client /\ q.op = "create"
    <2>1. pc' = "exit"
      BY <1>1, <1>2, GotoCases
    <2>2. ~missed' => \A q \in requests : q.op = "create" => q.run # client
      BY <1>2, Zenon
    <2>3. \A q \in requests : q.run # client => q.run # client'
      BY <1>0, <1>1
    <2>4. daemon = "up" => ~Alive /\ ~Startable
      BY <1>2 DEF InspectFails, Exists, Reachable, Alive, Startable
    <2>5. daemon' = "up" => (~Alive /\ ~Startable)'
      BY <1>1, <2>4 DEF Alive, Startable
    <2>6. Settled' => \A q \in requests' : q.op = "create" => q.run # client'
      BY <1>1, <2>2, <2>3 DEF Settled
    <2> QED BY <2>1, <2>5, <2>6 DEF Quiet
  <1>3. CASE ~InspectFails /\ Goto("failed") /\ UNCHANGED missed
    <2>1. pc' = "failed"
      BY <1>1, <1>3, GotoCases
    <2> QED BY <2>1 DEF Quiet, Settled
  <1> QED BY <1>2, <1>3 DEF Verify

LEMMA QuietStep ==
  ASSUME TypeOK, Numbered, Ordered, Attached, Quiet, [Next]_vars
  PROVE  Quiet'
  <1> USE DEF supervisorVars, daemonVars, Ended, Foreground
  <1>0. child \in [run : Nat, phase : Phases, token : Nat]
    BY DEF TypeOK
  <1>1. CASE Sweep
    <2>1. /\ UNCHANGED <<requests, missed>> /\ pc = "sweep" /\ pc' \in {"admit", "stop"}
          /\ client' \in {client, 0}
      BY <1>1, GotoCases DEF Sweep
    <2>2. client = 0 /\ ~missed
      BY <2>1 DEF Attached, Quiet
    <2>3. \A q \in requests' : q.run # client'
      BY <2>1, <2>2 DEF Numbered, TypeOK, Request
    <2>4. daemon' = "up" => (~Alive /\ ~Startable)'
      <3>1. CASE Reachable
        <4>1. child'.phase \in {"none", "dead"}
          BY <1>0, <1>1, <3>1 DEF Sweep, RemoveChild
        <4> QED BY <4>1 DEF Alive, Startable
      <3>2. CASE ~Reachable
        BY <1>1, <3>2 DEF Sweep, Reachable
      <3> QED BY <3>1, <3>2
    <2> QED BY <2>1, <2>2, <2>3, <2>4 DEF Quiet
  <1>2. CASE Admit \/ Mint \/ AttestMetadata
    <2>1. QuietKept
      BY <1>2, GotoCases DEF Admit, Mint, AttestMetadata, QuietKept, Settled, Quiet
    <2> QED BY <2>1, QuietGoto
  <1>3. CASE Exit
    <2>1. QuietKept
      BY <1>3, GotoCases DEF Exit, QuietKept, Settled, Quiet
    <2> QED BY <2>1, QuietGoto
  <1>4. CASE StartChild \/ ClientReturns \/ Kill
    BY <1>4 DEF StartChild, ClientReturns, Kill, Quiet, Settled
  <1>5. CASE Launch
    BY <1>5 DEF Launch, Quiet, Settled
  <1>6. CASE RemoveAfter \/ StopChild \/ RemoveStopped
    <2>1. ~missed /\ UNCHANGED missed /\ pc' \in {"inspect", "rm", "verify", "stop"}
      BY <1>6, GotoCases DEF RemoveAfter, StopChild, RemoveStopped, Quiet
    <2> QED BY <2>1 DEF Quiet, Settled
  <1>7. CASE Inspect
    <2>1. UNCHANGED <<child, requests, daemon, missed>> /\ ~missed
      BY <1>7 DEF Inspect, Quiet
    <2>2. pc' \in {"done", "failed", "sweep", "stop"} /\ client' \in {client, 0} /\ client = 0
      BY <1>7, GotoCases DEF Inspect, Attached
    <2>3. pc' = "done" => InspectFails
      BY <1>7, GotoCases DEF Inspect
    <2>4. \A q \in requests' : q.run # client'
      BY <2>1, <2>2 DEF Numbered, TypeOK, Request
    <2>5. ~Exists => ~Alive /\ ~Startable
      BY DEF Exists, Alive, Startable
    <2>6. pc' = "done" /\ daemon' = "up" => (~Alive /\ ~Startable)'
      BY <2>1, <2>3, <2>5 DEF InspectFails, Reachable, Alive, Startable
    <2> QED BY <2>1, <2>2, <2>4, <2>6 DEF Quiet, Settled
  <1>8. CASE Verify
    BY <1>8, QuietVerify
  <1>9. CASE Stop
    <2>1. QuietKept
      BY <1>9 DEF Stop, QuietKept, Settled, Quiet
    <2> QED BY <2>1, QuietGoto
  <1>10. ASSUME NEW q \in requests, DaemonCreates(q) PROVE Quiet'
    <2>1. UNCHANGED <<pc, daemon, client, missed>>
      BY <1>10 DEF DaemonCreates
    <2>2. ASSUME Settled
          PROVE  /\ \A p \in requests' : p.op = "create" => p.run # client
                 /\ daemon = "up" => (~Alive /\ ~Startable)'
      <3>1. q.run # client
        BY <1>10, <2>2 DEF Quiet, DaemonCreates
      <3>2. requests' \subseteq requests /\ q \notin requests'
        BY <1>10, <3>1 DEF DaemonCreates
      <3>3. child' = child \/ child' = [run |-> q.run, phase |-> "created", token |-> 0]
        BY <1>10 DEF DaemonCreates
      <3> QED BY <2>2, <3>2, <3>3 DEF Quiet, Alive, Startable, Numbered
    <2> QED BY <2>1, <2>2 DEF Quiet, Settled
  <1>11. ASSUME NEW q \in requests, DaemonStarts(q) PROVE Quiet'
    <2>1. UNCHANGED <<pc, daemon, client, missed>> /\ requests' = requests \ {q}
      BY <1>11 DEF DaemonStarts
    <2>2. Startable \/ UNCHANGED child
      BY <1>11, StartsOrNot DEF Startable
    <2> QED BY <2>1, <2>2 DEF Quiet, Settled, Alive, Startable
  <1>12. ASSUME NEW q \in requests, DaemonRefuses(q) PROVE Quiet'
    BY <1>12 DEF DaemonRefuses, Quiet, Settled, Alive, Startable
  <1>13. CASE ChildBoots
    BY <1>0, <1>13 DEF ChildBoots, Quiet, Settled, Alive, Startable
  <1>14. CASE JobEnds \/ AutoRemove
    <2>1. UNCHANGED <<pc, daemon, client, requests, missed>>
      BY <1>14 DEF JobEnds, AutoRemove
    <2> QED BY <1>14, <2>1, RemovalSteps, QuietRemoval DEF Quiet, Settled
  <1>15. CASE DaemonGoes \/ DaemonReturns \/ UNCHANGED vars
    BY <1>15 DEF DaemonGoes, DaemonReturns, vars, Quiet, Settled, Alive, Startable
  <1> QED
    BY <1>1, <1>2, <1>3, <1>4, <1>5, <1>6, <1>7, <1>8, <1>9, <1>10, <1>11, <1>12, <1>13, <1>14,
       <1>15 DEF Next, SupervisorStep, DaemonStep, ChildStep

LEMMA ReportedStep ==
  ASSUME TypeOK, Numbered, Attached, Reported, [Next]_vars
  PROVE  Reported'
  <1> USE DEF supervisorVars, daemonVars, LoopReceiptTrue
  <1>0. /\ runs \in Nat /\ torn \subseteq Nat
        /\ child \in [run : Nat, phase : Phases, token : Nat]
        /\ \A q \in requests : q.run \in Nat
    BY DEF TypeOK, Request
  <1>1. CASE Inspect
    <2>1. UNCHANGED <<child, requests, runs>>
      BY <1>1 DEF Inspect
    <2>2. CASE UNCHANGED torn
      BY <2>1, <2>2 DEF Reported, Exists
    <2>3. CASE ~UNCHANGED torn
      <3>1. ~Exists /\ pc = "inspect" /\ torn' = torn \cup {runs}
        BY <1>1, <2>3 DEF Inspect, InspectFails, Reachable
      <3>2. \A q \in requests : q.run # runs
        BY <3>1 DEF Attached
      <3> QED BY <1>0, <2>1, <3>1, <3>2 DEF Reported, Exists
    <2> QED BY <2>2, <2>3
  <1>2. CASE Verify
    BY <1>2 DEF Verify, Reported, Exists
  <1>3. CASE ~Inspect /\ ~Verify
    <2>1. UNCHANGED torn
      BY <1>3 DEF Next, SupervisorStep, DaemonStep, ChildStep, Sweep, Admit, Mint, AttestMetadata,
         StartChild, ClientReturns, RemoveAfter, StopChild, RemoveStopped, Exit, DaemonCreates,
         DaemonStarts, DaemonRefuses, ChildBoots, JobEnds, AutoRemove, Stop, Kill, Launch,
         DaemonGoes, DaemonReturns, vars
    <2>2. CASE Removal
      <3>1. child' # NoChild => child # NoChild /\ child'.run = child.run
        BY <1>0, <2>2 DEF Removal, Shrinks, Exists
      <3> QED BY <2>1, <2>2, <3>1 DEF Removal, Reported, Exists
    <2>3. CASE StartChild
      BY <1>0, <2>1, <2>3 DEF StartChild, Reported, Exists
    <2>4. CASE ClientReturns
      BY <2>1, <2>4 DEF ClientReturns, Reported, Exists
    <2>5. CASE ChildBoots
      <3>1. child'.run = child.run /\ Exists
        BY <1>0, <2>5 DEF ChildBoots, Exists
      <3> QED BY <2>1, <2>5, <3>1 DEF ChildBoots, Reported, Exists
    <2>6. ASSUME NEW q \in requests, DaemonCase(q) PROVE Reported'
      <3>1. UNCHANGED runs /\ \A p \in requests' : \E r \in requests : p.run = r.run
        BY <2>6, DaemonLeaves
      <3>2. Exists' => child'.run = q.run \/ (Exists /\ child'.run = child.run)
        <4>1. CASE DaemonCreates(q)
          BY <4>1 DEF DaemonCreates, Exists
        <4>2. CASE DaemonStarts(q)
          BY <4>2, StartsOrNot DEF Exists
        <4>3. CASE DaemonRefuses(q)
          BY <4>3 DEF DaemonRefuses, Exists
        <4> QED BY <2>6, <4>1, <4>2, <4>3 DEF DaemonCase
      <3> QED BY <2>1, <3>1, <3>2 DEF Reported, Exists
    <2> QED BY <2>2, <2>3, <2>4, <2>5, <2>6, NextCases
  <1> QED BY <1>1, <1>2, <1>3
-----------------------------------------------------------------------------
LEMMA SupervisorInit == Init => SupervisorInv
  <1> SUFFICES ASSUME Init PROVE SupervisorInv
    OBVIOUS
  <1>1. TypeOK
    BY TypeInit
  <1>2. Numbered /\ Ordered /\ Attached /\ Tokens
    BY DEF Init, Numbered, Ordered, Startable, Attached, Tokens, OneTokenPerChild, Exists
  <1>3. Counted
    BY MaxJobsAssumption DEF Init, Counted, Foreground
  <1>4. Quiet /\ Reported
    BY DEF Init, Quiet, Settled, Reported, LoopReceiptTrue, Exists
  <1> QED BY <1>1, <1>2, <1>3, <1>4 DEF SupervisorInv

LEMMA SupervisorStepInv == SupervisorInv /\ [Next]_vars => SupervisorInv'
  <1> SUFFICES ASSUME SupervisorInv, [Next]_vars PROVE SupervisorInv'
    OBVIOUS
  <1> USE DEF SupervisorInv
  <1>1. TypeOK'
    BY TypeStep
  <1>2. Numbered' /\ Ordered'
    BY NumberedStep
  <1>3. Attached' /\ Tokens' /\ Counted'
    BY AttachedStep, TokensStep, CountedStep
  <1>4. Quiet' /\ Reported'
    BY QuietStep, ReportedStep
  <1> QED BY <1>1, <1>2, <1>3, <1>4

(* The parts of SupervisorInv hold together in every daemon state of the *)
(* controller and its daemon (entrypoint.sh 205-312).                       *)
THEOREM SupervisorInvariant == Spec => []SupervisorInv
  BY SupervisorInit, SupervisorStepInv, PTL DEF Spec

(* Tokens are never shared or replayed, whatever fails and however often    *)
(* the controller is killed and launched again (entrypoint.sh 270-293).     *)
THEOREM OneTokenPerChildHolds == Spec => []OneTokenPerChild
  <1>1. SupervisorInv => OneTokenPerChild
    BY DEF SupervisorInv, Tokens
  <1> QED BY <1>1, SupervisorInvariant, PTL

(* A life of the controller never runs more containers than                 *)
(* RUNNER_EPHEMERAL_MAX_JOBS (entrypoint.sh 306-310).                       *)
THEOREM JobBoundHolds == Spec => []JobBound
  <1>1. SupervisorInv => JobBound
    BY DEF SupervisorInv, Counted, JobBound
  <1> QED BY <1>1, SupervisorInvariant, PTL

(* The container of a generation that the loop reported removed, by a       *)
(* daemon that answered, never comes back (entrypoint.sh 299-305).          *)
THEOREM LoopReceiptTrueHolds == Spec => []LoopReceiptTrue
  <1>1. SupervisorInv => LoopReceiptTrue
    BY DEF SupervisorInv, Reported
  <1> QED BY <1>1, SupervisorInvariant, PTL

(* A controller that ends well leaves no job, and none that could begin,    *)
(* unless its trap looked too early (entrypoint.sh 107-118, 289-291).       *)
THEOREM StopIsCleanHolds == Spec => []StopIsClean
  <1>1. SupervisorInv => StopIsClean
    BY DEF SupervisorInv, Quiet, Settled, StopIsClean
  <1> QED BY <1>1, SupervisorInvariant, PTL

(* No generation is started beside a live one, whoever left it, unless the  *)
(* daemon went away since the sweep (entrypoint.sh 232-234, 299-303).       *)
THEOREM AloneAtStartHolds == Spec => AloneAtStart
  <1>1. SupervisorInv /\ [Next]_vars => [runs' # runs /\ daemon = "up" => ~Alive]_vars
    <2> SUFFICES ASSUME SupervisorInv, [Next]_vars, runs' # runs, daemon = "up" PROVE ~Alive
      OBVIOUS
    <2>1. StartChild
      <3>1. ~StartChild /\ [Next]_vars => runs' = runs
        BY DEF supervisorVars, daemonVars, Next, SupervisorStep, DaemonStep, ChildStep, Sweep,
           Admit, Mint, AttestMetadata, ClientReturns, RemoveAfter, Inspect, StopChild,
           RemoveStopped, Verify, Exit, DaemonCreates, DaemonStarts, DaemonRefuses, ChildBoots,
           JobEnds, AutoRemove, Stop, Kill, Launch, DaemonGoes, DaemonReturns, vars
      <3> QED BY <3>1
    <2> QED BY <2>1 DEF StartChild, SupervisorInv, Quiet, Settled, Ended
  <1> QED BY <1>1, SupervisorInvariant, PTL DEF Spec, AloneAtStart
-----------------------------------------------------------------------------
\* The mapped variables of SerialJobs.
Running == IF Alive THEN child.run ELSE 0

LEMMA SerialInit == Init => Serial!Init
  BY DEF Init, Serial!Init, Alive

LEMMA SerialStep ==
  ASSUME SupervisorInv, [Next]_vars
  PROVE  [Serial!Next]_<<Running, latest>>
  <1> USE DEF supervisorVars, daemonVars, Serial!Next, Serial!Begins, Serial!Ends, Running
  <1>0. /\ TypeOK /\ Numbered /\ Ordered
        /\ child \in [run : Nat, phase : Phases, token : Nat]
        /\ latest \in Nat
    BY DEF SupervisorInv, TypeOK
  <1>1. Alive => child.run >= 1
    BY <1>0 DEF Alive, Numbered, Exists
  <1>2. CASE Removal
    <2>1. ~Alive' \/ child' = child
      BY <1>0, <1>2 DEF Removal, Shrinks, Alive
    <2> QED BY <1>0, <1>1, <1>2, <2>1 DEF Removal, Alive
  <1>3. CASE StartChild \/ ClientReturns
    BY <1>3 DEF StartChild, ClientReturns, Alive
  <1>4. CASE ChildBoots
    <2>1. Alive /\ child'.run = child.run /\ child'.phase \in {"working", "dead"} /\ latest' = latest
      BY <1>0, <1>4 DEF ChildBoots, Alive
    <2> QED BY <1>0, <1>1, <2>1 DEF Alive
  <1>5. ASSUME NEW q \in requests, DaemonCreates(q) PROVE [Serial!Next]_<<Running, latest>>
    <2>1. latest' = latest /\ (child' = child \/ (~Alive /\ ~Alive'))
      BY <1>5 DEF DaemonCreates, Exists, Alive
    <2> QED BY <2>1 DEF Alive
  <1>6. ASSUME NEW q \in requests, DaemonStarts(q) PROVE [Serial!Next]_<<Running, latest>>
    <2>1. CASE UNCHANGED <<child, delivered, latest>>
      BY <2>1 DEF Alive
    <2>2. CASE ~UNCHANGED <<child, delivered, latest>>
      <3>1. /\ q.op = "start" /\ child.run = q.run /\ child.phase = "created"
            /\ child'.run = q.run /\ child'.phase = "booting" /\ latest' = q.run
        BY <1>0, <1>6, <2>2, StartsOrNot
      <3>2. Startable
        BY <3>1 DEF Startable
      <3>3. q.run > latest /\ q.run \in Nat
        BY <1>0, <3>1, <3>2 DEF Ordered
      <3> QED BY <3>1, <3>3 DEF Alive
    <2> QED BY <2>1, <2>2
  <1>7. ASSUME NEW q \in requests, DaemonRefuses(q) PROVE [Serial!Next]_<<Running, latest>>
    <2>1. latest' = latest /\ (child' = child \/ ~Alive')
      BY <1>7 DEF DaemonRefuses, Alive
    <2> QED BY <1>0, <1>1, <2>1 DEF Alive
  <1> QED BY <1>0, <1>2, <1>3, <1>4, <1>5, <1>6, <1>7, NextCases DEF DaemonCase

(* The supervisor, its daemon and its operators implement SerialJobs: job   *)
(* containers live one after the other, each once, in the order in which    *)
(* they were asked for, also when the daemon fails (entrypoint.sh 281-294). *)
THEOREM JobsAreSerialHolds == Spec => JobsAreSerial
  <1>1. SupervisorInv /\ [Next]_vars => [Serial!Next]_<<Running, latest>>
    BY SerialStep
  <1> QED BY <1>1, SerialInit, SupervisorInvariant, PTL
          DEF Spec, JobsAreSerial, Serial!Spec, Running
=============================================================================
