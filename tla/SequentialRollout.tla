-------------------------- MODULE SequentialRollout --------------------------
(***************************************************************************)
(* What the controller promises of the hosts, without its receipts, jobs,  *)
(* evidence and failures: an attempt starts from the fleet there is, and   *)
(* moves hosts to the selected release in the plan's order, each after the *)
(* ones before it have been probed and the canary has been observed.       *)
(***************************************************************************)
EXTENDS Naturals

CONSTANTS N, Releases, NoGoal

VARIABLES live,    \* the release each host runs
          goal,    \* where the attempt started and what it selected
          proven,  \* the hosts whose last probe passed
          soaked   \* the canary has been observed

vars == <<live, goal, proven, soaked>>

Runner == 1..N
Canary == 1

Init ==
  /\ live \in [Runner -> Releases]
  /\ goal = NoGoal
  /\ proven = {}
  /\ soaked = FALSE

Begin(rel) ==
  /\ goal' = [start |-> live, selected |-> rel]
  /\ proven' = {}
  /\ soaked' = FALSE
  /\ UNCHANGED live

\* The turn of runner r: what comes before it in the plan is done.
Turn(r) ==
  /\ goal # NoGoal
  /\ \A q \in 1 .. r - 1 : q \in proven /\ live[q] = goal.selected
  /\ r # Canary => soaked

\* From here on the last probe of r says nothing: its host is being replaced.
Withdraw(r) ==
  /\ Turn(r)
  /\ proven' = proven \ {r}
  /\ UNCHANGED <<live, goal, soaked>>

Move(r) ==
  /\ Turn(r)
  /\ r \notin proven
  /\ live' = [live EXCEPT ![r] = goal.selected]
  /\ UNCHANGED <<goal, proven, soaked>>

Prove(r) ==
  /\ Turn(r)
  /\ live[r] = goal.selected
  /\ proven' = proven \cup {r}
  /\ UNCHANGED <<live, goal, soaked>>

Soak ==
  /\ goal # NoGoal
  /\ Canary \in proven
  /\ live[Canary] = goal.selected
  /\ soaked' = TRUE
  /\ UNCHANGED <<live, goal, proven>>

Next ==
  \/ \E rel \in Releases : Begin(rel)
  \/ \E r \in Runner : Withdraw(r) \/ Move(r) \/ Prove(r)
  \/ Soak

Spec == Init /\ [][Next]_vars
=============================================================================
