------------------------ MODULE EphemeralSupervisor ------------------------
(***************************************************************************)
(* `entrypoint.sh supervise`: a controller container that runs one fresh    *)
(* job container after the other, all of them under the same name, and the *)
(* Docker daemon they share with the operator who launches, stops, removes  *)
(* and relaunches the controller (app/internal/dockerx/dockerx.go).         *)
(*                                                                          *)
(* The Docker client is a background process of the controller.  Between    *)
(* its requests and the daemon's work on them anything may happen, and a    *)
(* request outlives its client: the daemon carries it out or drops it.      *)
(*                                                                          *)
(* This is the isolated lane.  The others skip the metadata proof and count *)
(* their generations without printing a receipt.                            *)
(***************************************************************************)
EXTENDS Naturals

CONSTANTS
  MaxJobs,    \* RUNNER_EPHEMERAL_MAX_JOBS; 0: no bound
  MaxLives,   \* bound: how often the controller is launched
  Faults      \* what may go wrong

FaultKinds == {"admission", "mint", "attest", "run", "stuck", "daemon", "kill"}

ASSUME MaxJobsAssumption == MaxJobs \in Nat
ASSUME MaxLivesAssumption == MaxLives \in Nat
ASSUME FaultsAssumption == Faults \subseteq FaultKinds

VARIABLES
  pc,         \* where the controller is
  stopping,   \* a signal waits for the foreground command to end
  completed,  \* generations of this life
  token,      \* RUNNER_TOKEN; 0: unset
  client,     \* the `docker run` in the background, by its number; 0: none
  requests,   \* what the daemon was asked and has not done
  child,      \* the container of the runner's job name
  daemon,     \* "up": it answered since the sweep, "down", or "back" from that
  lives,      \* launches so far
  runs,       \* history: `docker run` commands so far
  minted,     \* history: registration tokens so far
  base,       \* history: runs when this life began
  latest,     \* history: the latest container that came up; 0: none
  delivered,  \* history: which container came up, with which token
  torn,       \* history: runs the loop reported removed, with the daemon up
  missed      \* history: the trap found no child while one was being created

supervisorVars == <<pc, stopping, completed, token, base>>
daemonVars == <<requests, child, daemon>>
vars == <<supervisorVars, daemonVars, client, lives, runs, minted, latest, delivered, torn, missed>>

Ended == {"off", "done", "failed", "killed"}
Foreground == {"sweep", "admit", "mint", "attest", "remove", "inspect"}
PCs == Ended \cup Foreground \cup {"start", "wait", "stop", "rm", "verify", "exit"}

NoChild == [run |-> 0, phase |-> "none", token |-> 0]
Phases == {"none", "created", "booting", "working", "dead"}
Request == [run : Nat, op : {"create", "start"}, token : Nat]

Reachable == daemon # "down"
Exists == child # NoChild
Alive == child.phase \in {"booting", "working"}

TypeOK ==
  /\ pc \in PCs /\ stopping \in BOOLEAN /\ daemon \in {"up", "down", "back"}
  /\ completed \in Nat /\ token \in Nat /\ client \in Nat /\ lives \in Nat
  /\ runs \in Nat /\ minted \in Nat /\ base \in Nat /\ latest \in Nat
  /\ requests \subseteq Request
  /\ child \in [run : Nat, phase : Phases, token : Nat]
  /\ delivered \subseteq [run : Nat, token : Nat]
  /\ torn \subseteq Nat /\ missed \in BOOLEAN

Init ==
  /\ pc = "off" /\ stopping = FALSE /\ daemon = "up"
  /\ completed = 0 /\ token = 0 /\ client = 0 /\ lives = 0
  /\ runs = 0 /\ minted = 0 /\ base = 0 /\ latest = 0
  /\ requests = {} /\ child = NoChild /\ delivered = {} /\ torn = {} /\ missed = FALSE
-----------------------------------------------------------------------------
\* Mutant: a signal that comes during a foreground command is lost.
LoseSignal(to) ==
  /\ pc' = to
  /\ client' = IF to \in Ended THEN 0 ELSE client
  /\ stopping' = (stopping /\ pc \notin Foreground /\ to \notin Ended)

(* The next program point: a pending signal is handled between commands.    *)
(* An ended controller takes its Docker client with it.                     *)
Goto(to) ==
  LET next == IF stopping /\ pc \in Foreground THEN "stop" ELSE to IN
  /\ pc' = next
  /\ client' = IF next \in Ended THEN 0 ELSE client
  /\ stopping' = (stopping /\ next \notin Ended)

(* docker rm -f NAME: kills and removes, unless removing fails or the       *)
(* daemon does not answer.  Its status is ignored.                          *)
RemoveChild ==
  child' \in IF ~Reachable THEN {child}
             ELSE {NoChild} \cup IF "stuck" \in Faults /\ Exists
                                   THEN {[child EXCEPT !.phase = "dead"]} ELSE {}

\* Mutant: a controller trusts that its name is free.
TrustedSweep ==
  /\ pc = "sweep" /\ Goto("admit")
  /\ daemon' = IF Reachable THEN "up" ELSE daemon
  /\ UNCHANGED <<completed, token, base, requests, child, lives, runs, minted, latest, delivered, torn, missed>>

(* The child an earlier life left is removed before anything else.          *)
Sweep ==
  /\ pc = "sweep" /\ Goto("admit")
  /\ RemoveChild
  /\ daemon' = IF Reachable THEN "up" ELSE daemon
  /\ UNCHANGED <<completed, token, base, requests, lives, runs, minted,
                 latest, delivered, torn, missed>>

(* attest_child_image: a candidate without credentials.                     *)
Admit ==
  /\ pc = "admit"
  /\ \/ Goto("mint")
     \/ ("admission" \in Faults \/ ~Reachable) /\ Goto("failed")
  /\ UNCHANGED <<completed, token, base, daemonVars, lives, runs, minted, latest, delivered, torn, missed>>

\* Mutant: one token is enough for all the generations.
MintOnce ==
  /\ pc = "mint"
  /\ \/ /\ Goto("attest")
        /\ minted' = 1 /\ token' = 1
     \/ "mint" \in Faults /\ Goto("failed") /\ UNCHANGED <<token, minted>>
  /\ UNCHANGED <<completed, base, daemonVars, lives, runs, latest, delivered, torn, missed>>

(* resolve_token: a fresh registration token for each generation.           *)
Mint ==
  /\ pc = "mint"
  /\ \/ /\ Goto("attest")
        /\ minted' = minted + 1 /\ token' = minted + 1
     \/ "mint" \in Faults /\ Goto("failed") /\ UNCHANGED <<token, minted>>
  /\ UNCHANGED <<completed, base, daemonVars, lives, runs, latest, delivered, torn, missed>>

(* The isolated lane proves that metadata is denied.                        *)
AttestMetadata ==
  /\ pc = "attest"
  /\ \/ Goto("start")
     \/ "attest" \in Faults /\ Goto("failed")
  /\ UNCHANGED <<completed, token, base, daemonVars, lives, runs, minted, latest, delivered, torn, missed>>

(* printf TOKEN | docker run --rm -i ... &: the token goes into the pipe    *)
(* and is unset.                                                            *)
StartChild ==
  /\ pc = "start"
  /\ pc' = "wait"
  /\ runs' = runs + 1 /\ client' = runs + 1
  /\ requests' = requests \cup {[run |-> runs + 1, op |-> "create", token |-> token]}
  /\ token' = 0
  /\ UNCHANGED <<stopping, completed, base, child, daemon, lives, minted,
                 latest, delivered, torn, missed>>

(* The client returns when its container was removed or could not be run,   *)
(* or when it lost the daemon; a failure is followed by a pause.            *)
ClientReturns ==
  /\ pc = "wait"
  /\ \/ ~Reachable
     \/ /\ \A q \in requests : q.run # client
        /\ child.run = client => child.phase = "dead"
  /\ pc' = "remove" /\ client' = 0
  /\ requests' = {q \in requests : q.run # client}
  /\ UNCHANGED <<stopping, completed, token, base, child, daemon, lives, runs,
                 minted, latest, delivered, torn, missed>>

RemoveAfter ==
  /\ pc = "remove" /\ Goto("inspect")
  /\ RemoveChild
  /\ UNCHANGED <<completed, token, base, requests, daemon, lives, runs, minted,
                 latest, delivered, torn, missed>>

\* `docker container inspect` fails: the container is not there, or the
\* daemon does not answer.
InspectFails == ~Exists \/ ~Reachable

\* Mutant: the bound is checked one generation late.
BoundPassed(n) == MaxJobs > 0 /\ n > MaxJobs

BoundReached(n) == MaxJobs > 0 /\ n >= MaxJobs

\* Mutant: the receipt is printed without looking.
CountGeneration ==
  /\ pc = "inspect"
  /\ torn' = torn \cup {runs}
  /\ completed' = completed + 1
  /\ Goto(IF BoundReached(completed + 1) THEN "done" ELSE "sweep")
  /\ UNCHANGED <<token, base, daemonVars, lives, runs, minted, latest, delivered, missed>>

(* The teardown receipt and the generation count, if the name is free.  A   *)
(* signal that waited is handled before them.                               *)
Inspect ==
  /\ pc = "inspect"
  /\ \/ /\ InspectFails /\ ~stopping
        /\ torn' = IF daemon = "up" THEN torn \cup {runs} ELSE torn
        /\ completed' = completed + 1
        /\ Goto(IF BoundReached(completed + 1) THEN "done" ELSE "sweep")
     \/ /\ ~InspectFails \/ stopping
        /\ Goto("failed")
        /\ UNCHANGED <<torn, completed>>
  /\ UNCHANGED <<token, base, daemonVars, lives, runs, minted, latest, delivered, missed>>
-----------------------------------------------------------------------------
(* SIGTERM or SIGINT.  The trap runs at once while the shell waits, and     *)
(* otherwise when the command in the foreground ends.                       *)
Stop ==
  /\ pc \in Foreground \cup {"start", "wait"} /\ ~stopping
  /\ stopping' = TRUE
  /\ \/ pc' = "stop"
     \/ pc \in Foreground /\ pc' = pc
  /\ UNCHANGED <<completed, token, base, daemonVars, client, lives, runs, minted,
                 latest, delivered, torn, missed>>

(* stop_ephemeral_child: docker stop, docker rm -f, then a look for the     *)
(* container, repeated for two seconds.                                     *)
StopChild ==
  /\ pc = "stop" /\ Goto("rm")
  /\ child' = IF Reachable /\ Alive THEN [child EXCEPT !.phase = "dead"] ELSE child
  /\ UNCHANGED <<completed, token, base, requests, daemon, lives, runs, minted,
                 latest, delivered, torn, missed>>

RemoveStopped ==
  /\ pc = "rm" /\ Goto("verify")
  /\ RemoveChild
  /\ UNCHANGED <<completed, token, base, requests, daemon, lives, runs, minted,
                 latest, delivered, torn, missed>>

\* Mutant: the trap prints its receipt without looking.
VerifyBlindly ==
  /\ pc = "verify" /\ Goto("exit")
  /\ UNCHANGED <<completed, token, base, daemonVars, lives, runs, minted, latest, delivered, torn, missed>>

\* Mutant: the trap looks until the container is gone.
VerifyForever ==
  /\ pc = "verify" /\ InspectFails /\ Goto("exit")
  /\ UNCHANGED <<completed, token, base, daemonVars, lives, runs, minted, latest, delivered, torn, missed>>

(* The client is still there when the container is not, and may be creating *)
(* it.                                                                      *)
Verify ==
  /\ pc = "verify"
  /\ \/ /\ InspectFails /\ Goto("exit")
        /\ missed' = \E q \in requests : q.run = client /\ q.op = "create"
     \/ ~InspectFails /\ Goto("failed") /\ UNCHANGED missed
  /\ UNCHANGED <<completed, token, base, daemonVars, lives, runs, minted, latest, delivered, torn>>

(* exit 0 in the trap                                                       *)
Exit ==
  /\ pc = "exit" /\ Goto("done")
  /\ UNCHANGED <<completed, token, base, daemonVars, lives, runs, minted,
                 latest, delivered, torn, missed>>

(* docker rm -f of the controller, the end of a docker stop's grace period, *)
(* or a kill by the kernel: no trap runs.                                   *)
Kill ==
  /\ "kill" \in Faults /\ pc \notin Ended
  /\ pc' = "killed" /\ client' = 0 /\ stopping' = FALSE
  /\ UNCHANGED <<completed, token, base, daemonVars, lives, runs, minted, latest, delivered, torn, missed>>

(* dockerx.Run: a new controller of the same name.                          *)
Launch ==
  /\ pc \in Ended /\ lives < MaxLives
  /\ pc' = "sweep" /\ lives' = lives + 1
  /\ completed' = 0 /\ token' = 0 /\ base' = runs /\ missed' = FALSE
  /\ UNCHANGED <<stopping, client, daemonVars, runs, minted, latest, delivered, torn>>
-----------------------------------------------------------------------------
(* The daemon creates the container, unless its name is taken; a client     *)
(* that is there asks for its start then.                                   *)
DaemonCreates(q) ==
  /\ Reachable /\ q \in requests /\ q.op = "create"
  /\ IF Exists
       THEN child' = child /\ requests' = requests \ {q}
       ELSE /\ child' = [run |-> q.run, phase |-> "created", token |-> 0]
            /\ requests' = (requests \ {q}) \cup
                 IF q.run = client THEN {[q EXCEPT !.op = "start"]} ELSE {}
  /\ UNCHANGED <<supervisorVars, client, daemon, lives, runs, minted, latest, delivered, torn, missed>>

(* The token is in the container's standard input when the client was there *)
(* to send it; a client that is gone may have sent it or not.               *)
DaemonStarts(q) ==
  /\ Reachable /\ q \in requests /\ q.op = "start"
  /\ requests' = requests \ {q}
  /\ IF child.run = q.run /\ child.phase = "created"
       THEN \E t \in IF q.run = client THEN {q.token} ELSE {q.token, 0} :
              /\ child' = [child EXCEPT !.phase = "booting", !.token = t]
              /\ delivered' = delivered \cup {[run |-> q.run, token |-> t]}
              /\ latest' = q.run
       ELSE UNCHANGED <<child, delivered, latest>>
  /\ UNCHANGED <<supervisorVars, client, daemon, lives, runs, minted, torn, missed>>

(* A request fails, or is dropped with its client.  --rm removes what a     *)
(* failed start leaves.                                                     *)
DaemonRefuses(q) ==
  /\ q \in requests /\ (q.run # client \/ "run" \in Faults)
  /\ requests' = requests \ {q}
  /\ child' = IF q.run = client /\ child.run = client THEN NoChild ELSE child
  /\ UNCHANGED <<supervisorVars, client, daemon, lives, runs, minted, latest, delivered, torn, missed>>

(* The child registers with its token, or ends without one.                 *)
ChildBoots ==
  /\ child.phase = "booting"
  /\ child' \in {[child EXCEPT !.phase = p] :
                   p \in IF child.token = 0 THEN {"dead"} ELSE {"working", "dead"}}
  /\ UNCHANGED <<supervisorVars, client, requests, daemon, lives, runs, minted,
                 latest, delivered, torn, missed>>

(* One job, and the container ends.                                         *)
JobEnds ==
  /\ child.phase = "working"
  /\ child' = [child EXCEPT !.phase = "dead"]
  /\ UNCHANGED <<supervisorVars, client, requests, daemon, lives, runs, minted,
                 latest, delivered, torn, missed>>

\* Mutant: the job container has a restart policy instead of --rm.
AutoRestart ==
  /\ child.phase = "dead" /\ Reachable
  /\ child' = [child EXCEPT !.phase = "booting"]
  /\ UNCHANGED <<supervisorVars, client, requests, daemon, lives, runs, minted,
                 latest, delivered, torn, missed>>

(* --rm                                                                     *)
AutoRemove ==
  /\ child.phase = "dead" /\ Reachable
  /\ child' = NoChild
  /\ UNCHANGED <<supervisorVars, client, requests, daemon, lives, runs, minted,
                 latest, delivered, torn, missed>>

DaemonGoes ==
  /\ "daemon" \in Faults /\ Reachable
  /\ daemon' = "down"
  /\ UNCHANGED <<supervisorVars, client, requests, child, lives, runs, minted,
                 latest, delivered, torn, missed>>

DaemonReturns ==
  /\ ~Reachable
  /\ daemon' = "back"
  /\ UNCHANGED <<supervisorVars, client, requests, child, lives, runs, minted,
                 latest, delivered, torn, missed>>

SupervisorStep == \/ Sweep \/ Admit \/ Mint \/ AttestMetadata \/ StartChild
                  \/ ClientReturns \/ RemoveAfter \/ Inspect
                  \/ StopChild \/ RemoveStopped \/ Verify \/ Exit
DaemonStep == \E q \in requests :
                DaemonCreates(q) \/ DaemonStarts(q) \/ DaemonRefuses(q)
ChildStep == ChildBoots \/ JobEnds

Next == \/ SupervisorStep \/ DaemonStep \/ ChildStep \/ AutoRemove
        \/ Stop \/ Kill \/ Launch \/ DaemonGoes \/ DaemonReturns

Spec == Init /\ [][Next]_vars

(* The controller, the daemon and the job go on.  A launch, a signal, a     *)
(* failure and the removal of a container never have to happen.             *)
Fairness == /\ WF_vars(SupervisorStep) /\ WF_vars(DaemonStep)
            /\ WF_vars(ChildStep) /\ WF_vars(DaemonReturns)
FairSpec == Spec /\ Fairness
-----------------------------------------------------------------------------
(* No generation is started beside a live one, also not beside a child that *)
(* a killed controller left or that the daemon brings up late, unless the   *)
(* daemon went away since the sweep (entrypoint.sh 232-234, 295-303).       *)
AloneAtStart == [][runs' # runs /\ daemon = "up" => ~Alive]_vars

(* A registration token reaches at most one container, and a container at   *)
(* most one token, whichever life minted it (entrypoint.sh 270-293).        *)
OneTokenPerChild == \A d, e \in delivered :
  d.run = e.run \/ (d.token = e.token /\ d.token # 0) => d = e

(* A life runs at most MaxJobs containers, however they end.                *)
JobBound == MaxJobs > 0 => runs <= base + MaxJobs

(* The receipts of the loop stay true: no child of a generation that was    *)
(* reported removed comes up later (entrypoint.sh 295-305).                 *)
LoopReceiptTrue == Exists => child.run \notin torn

\* The daemon would bring up the container that is there.
Startable == \E q \in requests :
  q.op = "start" /\ q.run = child.run /\ child.phase = "created"

(* A controller that reports a clean end, by its bound or its trap, leaves  *)
(* no job and none that could still begin, unless the trap looked for its   *)
(* child while the daemon was creating it (entrypoint.sh 107-118, 289-291). *)
StopIsClean == pc = "done" /\ daemon = "up" /\ ~missed => ~Alive /\ ~Startable

(* Jobs are serial: SerialJobs, in which no controller, name or daemon      *)
(* appears, is implemented by all of them (ADR 0005).                       *)
Serial == INSTANCE SerialJobs WITH
  alive <- IF Alive THEN child.run ELSE 0,
  last <- latest
JobsAreSerial == Serial!Spec

(* A controller ends: with its bound, with a signal, or refused; and with a *)
(* signal, wherever it comes, before it starts another generation, so that  *)
(* it is not the bound that ends it (entrypoint.sh 229, 290).               *)
ControllerEnds ==
  /\ pc = "sweep" ~> pc \in Ended
  /\ \A n \in 0 .. MaxLives * MaxJobs :
       (stopping /\ runs = n) ~> (pc \in Ended /\ runs = n)
=============================================================================
