--------------------------- MODULE PatDeliveryProofs ---------------------------
(***************************************************************************)
(* Proofs about PatDelivery, for every set of launchers and faults and any *)
(* number of launches.                                                     *)
(***************************************************************************)
EXTENDS PatDelivery, TLAPS

(* Where launcher and container can be at the same time: nothing is read   *)
(* before the line is written, and who waits beside a launcher that has    *)
(* written has the line before it.                                         *)
Phases ==
  /\ lpc \in {"idle", "run", "failed"} => cpc = "none"
  /\ lpc \in {"clean", "ok"} => cpc \notin {"none", "host"}
  /\ lpc \notin {"clean", "ok"} => taken = 0 /\ cpc \notin {"unlink", "has"}

Lines ==
  /\ buffer = TRUE => lpc \in {"clean", "ok"} /\ cpc \in Reading
  /\ lpc \in {"clean", "ok"} /\ cpc \in Reading => buffer = TRUE
  /\ cpc \in {"none", "host"} \cup Reading => taken = 0
  /\ cpc \in {"unlink", "has"} => taken = 1
  /\ cpc = "has" => fifo = "gone"
  /\ taken \in {0, 1}

PatInv == TypeOK /\ Phases /\ Lines

LEMMA Properties == PatInv => TypeOK /\ NoWaiterLeft /\ PatIsGone
<1> SUFFICES ASSUME PatInv PROVE TypeOK /\ NoWaiterLeft /\ PatIsGone
  OBVIOUS
<1>1. buffer \in BOOLEAN
  BY DEF PatInv, TypeOK
<1>2. NoWaiterLeft
  BY <1>1 DEF PatInv, Phases, Lines, NoWaiterLeft, Reading
<1>3. PatIsGone
  BY <1>1 DEF PatInv, Lines, PatIsGone, Reading
<1> QED
  BY <1>2, <1>3 DEF PatInv

LEMMA InitInv == Init => PatInv
<1> SUFFICES ASSUME Init PROVE PatInv
  OBVIOUS
<1>1. late \in BOOLEAN /\ buffer \in BOOLEAN /\ buffer # TRUE
  BY Zenon DEF Init
<1>2. TypeOK
  BY <1>1 DEF Init, TypeOK, LauncherPCs, LauncherEnded, ContainerPCs
<1>3. Phases
  BY DEF Init, Phases
<1>4. Lines
  BY <1>1 DEF Init, Lines
<1> QED
  BY <1>2, <1>3, <1>4 DEF PatInv

LEMMA LaunchInv == ASSUME PatInv, NEW l \in Launchers, Launch(l) PROVE PatInv'
<1>1. late' \in BOOLEAN /\ buffer' \in BOOLEAN /\ buffer' # TRUE
  BY Zenon DEF Launch
<1>2. TypeOK'
  BY <1>1 DEF Launch, PatInv, TypeOK, LauncherPCs, ContainerPCs
<1>3. Phases'
  BY DEF Launch, Phases
<1>4. Lines'
  BY <1>1 DEF Launch, Lines
<1> QED
  BY <1>2, <1>3, <1>4 DEF PatInv

LEMMA LauncherInv ==
  ASSUME PatInv, LauncherStep \/ Deadline \/ Interrupt
  PROVE  PatInv'
<1> USE DEF PatInv, TypeOK, Phases, Lines, Reading, LauncherPCs, LauncherEnded, ContainerPCs
<1>1. CASE RunContainer
  BY <1>1 DEF RunContainer
<1>2. CASE OpenFifo
  BY <1>2 DEF OpenFifo
<1>3. CASE WritePat
  BY <1>3 DEF WritePat
<1>4. CASE CleanUp
  BY <1>4 DEF CleanUp
<1>5. CASE Abort
  BY <1>5 DEF Abort
<1>6. CASE Deadline
  BY <1>6 DEF Deadline
<1>7. CASE Interrupt
  BY <1>7 DEF Interrupt
<1> QED
  BY <1>1, <1>2, <1>3, <1>4, <1>5, <1>6, <1>7 DEF LauncherStep

LEMMA ContainerInv ==
  ASSUME PatInv, ContainerStep \/ ContainerDies
  PROVE  PatInv'
<1> USE DEF PatInv, TypeOK, Phases, Lines, Reading, LauncherPCs, LauncherEnded, ContainerPCs
<1>1. CASE AttestHost
  BY <1>1 DEF AttestHost
<1>2. CASE OpenReturns
  BY <1>2 DEF OpenReturns, Writing
<1>3. CASE ReadPat
  <2>1. buffer' = FALSE /\ buffer' \in BOOLEAN /\ buffer' # TRUE
    BY <1>3, Zenon DEF ReadPat
  <2>2. buffer = TRUE /\ cpc = "reading" /\ taken = 0 /\ lpc \in {"clean", "ok"}
    BY <1>3 DEF ReadPat
  <2>3. TypeOK'
    BY <1>3, <2>1 DEF ReadPat
  <2> QED
    BY <1>3, <2>1, <2>2, <2>3 DEF ReadPat
<1>4. CASE ReadInterrupted
  BY <1>4 DEF ReadInterrupted, Writing
<1>5. CASE UnlinkFifo
  BY <1>5 DEF UnlinkFifo
<1>6. CASE ContainerDies
  BY <1>6 DEF ContainerDies
<1> QED
  BY <1>1, <1>2, <1>3, <1>4, <1>5, <1>6 DEF ContainerStep

LEMMA StepInv == PatInv /\ [Next]_vars => PatInv'
<1> SUFFICES ASSUME PatInv, [Next]_vars PROVE PatInv'
  OBVIOUS
<1>1. ASSUME NEW l \in Launchers, Launch(l) PROVE PatInv'
  BY <1>1, LaunchInv
<1>2. CASE LauncherStep \/ Deadline \/ Interrupt
  BY <1>2, LauncherInv
<1>3. CASE ContainerStep \/ ContainerDies
  BY <1>3, ContainerInv
<1>4. CASE UNCHANGED vars
  BY <1>4 DEF vars, PatInv, TypeOK, Phases, Lines, Reading
<1> QED
  BY <1>1, <1>2, <1>3, <1>4 DEF Next

(* Every reachable state of a delivery is well typed.                      *)
THEOREM PatTypeCorrect == Spec => []TypeOK
BY InitInv, StepInv, Properties, PTL DEF Spec

(* A launcher that reports an end leaves no container waiting for a PAT    *)
(* (dockerx.go 88-91, setup.sh 22-26).                                     *)
THEOREM NoWaiterIsLeft == Spec => []NoWaiterLeft
BY InitInv, StepInv, Properties, PTL DEF Spec

(* The PAT is read once, and its path is destroyed before it is used       *)
(* (entrypoint.sh 54-60).                                                  *)
THEOREM ThePatIsGone == Spec => []PatIsGone
BY InitInv, StepInv, Properties, PTL DEF Spec
===============================================================================
