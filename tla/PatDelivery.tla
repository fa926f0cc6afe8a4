---------------------------- MODULE PatDelivery ----------------------------
(***************************************************************************)
(* The one-use delivery of a PAT: a launcher starts a runner container and  *)
(* hands it the PAT through a FIFO in a private directory (ADR 0002).  Two  *)
(* launchers are modelled: `gha` (app/internal/dockerx/dockerx.go: Run and  *)
(* deliverPATWithin) and `setup` (setup.sh).  The container is the part of  *)
(* src/entrypoint.sh up to consume_github_pat.                              *)
(*                                                                          *)
(* A FIFO has a reader from the moment the container calls open, a writer   *)
(* likewise; a blocking open waits for the other side, and a non-blocking   *)
(* open for writing fails while there is no reader.                         *)
(***************************************************************************)
EXTENDS Naturals

CONSTANTS
  Launchers,   \* the launchers used
  MaxLaunches, \* bound: launches of the one container name
  Faults       \* what may go wrong

LauncherKinds == {"gha", "setup"}
FaultKinds == {"run", "admission", "container", "interrupt"}

ASSUME LaunchersAssumption == Launchers \subseteq LauncherKinds
ASSUME MaxLaunchesAssumption == MaxLaunches \in Nat
ASSUME FaultsAssumption == Faults \subseteq FaultKinds

VARIABLES
  launcher,  \* which launcher runs, or ran last
  lpc,       \* where it is
  late,      \* its ten seconds are over
  fifo,      \* the path of the FIFO: "none", "there" or "gone"
  buffer,    \* the PAT is in the FIFO
  cpc,       \* where the container is
  launches,  \* launches so far
  taken      \* history: how often the PAT of this launch was read

vars == <<launcher, lpc, late, fifo, buffer, cpc, launches, taken>>

LauncherEnded == {"idle", "ok", "failed", "interrupted"}
LauncherPCs == LauncherEnded \cup {"run", "open", "write", "clean", "abort"}
Reading == {"opening", "reading"}
ContainerPCs == Reading \cup {"none", "host", "unlink", "has", "exited"}

TypeOK ==
  /\ launcher \in Launchers /\ lpc \in LauncherPCs /\ late \in BOOLEAN
  /\ fifo \in {"none", "there", "gone"} /\ buffer \in BOOLEAN
  /\ cpc \in ContainerPCs
  /\ launches \in Nat /\ taken \in Nat

Init ==
  /\ launcher \in Launchers /\ lpc = "idle" /\ late = FALSE
  /\ fifo = "none" /\ buffer = FALSE /\ cpc = "none"
  /\ launches = 0 /\ taken = 0

Writing == lpc = "write"
-----------------------------------------------------------------------------
(* The old container goes, the directory and the FIFO are made.             *)
Launch(l) ==
  /\ lpc \in LauncherEnded /\ launches < MaxLaunches
  /\ launcher' = l /\ lpc' = "run" /\ late' = FALSE
  /\ fifo' = "there" /\ buffer' = FALSE
  /\ cpc' = "none"
  /\ launches' = launches + 1 /\ taken' = 0

RunContainer ==
  /\ lpc = "run"
  /\ \/ lpc' = "open" /\ cpc' = "host"
     \/ "run" \in Faults /\ lpc' = "abort" /\ UNCHANGED cpc
  /\ UNCHANGED <<launcher, late, fifo, buffer, launches, taken>>

\* Mutant: gha opens the FIFO as setup does.
OpenAndWait ==
  /\ lpc = "open" /\ cpc \in Reading /\ lpc' = "write"
  /\ UNCHANGED <<launcher, late, fifo, buffer, cpc, launches, taken>>

(* Opening for writing: setup waits for a reader, gha tries again until its *)
(* deadline.  A path that is gone is an error for gha.                      *)
OpenFifo ==
  /\ lpc = "open"
  /\ \/ /\ fifo = "there" /\ cpc \in Reading
        /\ lpc' = "write"
     \/ /\ launcher = "gha" /\ fifo # "there"
        /\ lpc' = "abort"
     \/ /\ launcher = "gha" /\ fifo = "there" /\ cpc \notin Reading /\ late
        /\ lpc' = "abort"
  /\ UNCHANGED <<launcher, late, fifo, buffer, cpc, launches, taken>>

(* The deadline of deliverPAT passes.                                       *)
Deadline ==
  /\ launcher = "gha" /\ lpc = "open" /\ ~late
  /\ late' = TRUE
  /\ UNCHANGED <<launcher, lpc, fifo, buffer, cpc, launches, taken>>

(* One line; without a reader it is an error.                               *)
WritePat ==
  /\ lpc = "write"
  /\ IF cpc \in Reading THEN lpc' = "clean" /\ buffer' = TRUE
                        ELSE lpc' = "abort" /\ UNCHANGED buffer
  /\ UNCHANGED <<launcher, late, fifo, cpc, launches, taken>>

(* The launcher removes the directory; a reader keeps what it has open.     *)
CleanUp ==
  /\ lpc = "clean"
  /\ lpc' = "ok" /\ fifo' = "gone"
  /\ UNCHANGED <<launcher, late, buffer, cpc, launches, taken>>

\* Mutant: only the directory is removed.
AbortKeepsContainer ==
  /\ lpc = "abort"
  /\ lpc' = "failed" /\ fifo' = "gone" /\ buffer' = FALSE
  /\ UNCHANGED <<launcher, late, cpc, launches, taken>>

(* Delivery failed: docker rm -f, and the directory goes too.               *)
Abort ==
  /\ lpc = "abort"
  /\ lpc' = "failed" /\ fifo' = "gone" /\ buffer' = FALSE /\ cpc' = "none"
  /\ UNCHANGED <<launcher, late, launches, taken>>

(* SIGINT: setup.sh has a trap that cleans up and opens a FIFO in vain      *)
(* then; gha just ends.                                                     *)
Interrupt ==
  /\ "interrupt" \in Faults /\ lpc \in {"open", "write"}
  /\ lpc' = IF launcher = "setup" THEN "abort" ELSE "interrupted"
  /\ UNCHANGED <<launcher, late, fifo, buffer, cpc, launches, taken>>
-----------------------------------------------------------------------------
(* attest_host_capacity and attest_general_bridge_routing, before the FIFO; *)
(* then it has to be a FIFO of mode 0600, and open waits for a writer.      *)
AttestHost ==
  /\ cpc = "host"
  /\ \/ fifo = "there" /\ cpc' = "opening"
     \/ ("admission" \in Faults \/ fifo # "there") /\ cpc' = "exited"
  /\ UNCHANGED <<launcher, lpc, late, fifo, buffer, launches, taken>>

(* open returns when there is, or was, a writer.                            *)
OpenReturns ==
  /\ cpc = "opening" /\ (Writing \/ buffer)
  /\ cpc' = "reading"
  /\ UNCHANGED <<launcher, lpc, late, fifo, buffer, launches, taken>>

ReadPat ==
  /\ cpc = "reading" /\ buffer
  /\ cpc' = "unlink" /\ buffer' = FALSE /\ taken' = taken + 1
  /\ UNCHANGED <<launcher, lpc, late, fifo, launches>>

(* The end of file that a writer leaves that wrote nothing.                 *)
ReadInterrupted ==
  /\ cpc = "reading" /\ ~buffer /\ ~Writing
  /\ cpc' = "exited" /\ fifo' = "gone"
  /\ UNCHANGED <<launcher, lpc, late, buffer, launches, taken>>

\* Mutant: the FIFO is left for the launcher to remove.
KeepFifo ==
  /\ cpc = "unlink"
  /\ cpc' = "has"
  /\ UNCHANGED <<launcher, lpc, late, fifo, buffer, launches, taken>>

UnlinkFifo ==
  /\ cpc = "unlink"
  /\ cpc' = "has" /\ fifo' = "gone"
  /\ UNCHANGED <<launcher, lpc, late, buffer, launches, taken>>

(* The container is killed, and what its reader did not read is lost.  An   *)
(* ended container is never started again: a restart is a new launch.       *)
ContainerDies ==
  /\ "container" \in Faults /\ cpc \in Reading \cup {"host", "unlink", "has"}
  /\ cpc' = "exited" /\ buffer' = FALSE
  /\ UNCHANGED <<launcher, lpc, late, fifo, launches, taken>>

LauncherStep == RunContainer \/ OpenFifo \/ WritePat \/ CleanUp \/ Abort
ContainerStep == AttestHost \/ OpenReturns \/ ReadPat \/ ReadInterrupted \/ UnlinkFifo

Next == \/ \E l \in Launchers : Launch(l)
        \/ LauncherStep \/ Deadline \/ Interrupt
        \/ ContainerStep \/ ContainerDies

Spec == Init /\ [][Next]_vars
(* Processes run and time passes.                                           *)
FairSpec == /\ Spec
            /\ WF_vars(LauncherStep) /\ WF_vars(ContainerStep) /\ WF_vars(Deadline)
-----------------------------------------------------------------------------
(* A launcher that reports success or failure leaves no container that goes *)
(* on to wait for a PAT (dockerx.go 88-91, setup.sh 22-26).                 *)
NoWaiterLeft == lpc \in {"ok", "failed"} =>
  cpc # "host" /\ (cpc = "opening" => buffer)

(* The PAT is read once, and the container that has it has destroyed the    *)
(* path it came by (entrypoint.sh 54-60).                                   *)
PatIsGone == /\ taken <= 1
             /\ cpc = "has" => fifo = "gone" /\ ~buffer /\ taken = 1

(* The manager's delivery ends with whatever container there is to deliver  *)
(* to (dockerx.go 183-185): what ADR 0002 says of failed deliveries needs   *)
(* them to fail.  setup.sh has no deadline, and waits for a container that  *)
(* refused its host for ever.                                               *)
LaunchEnds == (lpc = "open" /\ launcher = "gha") ~> lpc \in LauncherEnded

(* A container that waits for its PAT is served or removed, unless its      *)
(* launcher was interrupted, which gha does not handle.                     *)
WaiterServed ==
  (cpc = "opening" /\ lpc # "interrupted") ~> (cpc # "opening" \/ lpc = "interrupted")
=============================================================================
