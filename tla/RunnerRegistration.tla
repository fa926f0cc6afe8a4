------------------------- MODULE RunnerRegistration -------------------------
(***************************************************************************)
(* Runner processes on the persistent path of src/entrypoint.sh: admission, *)
(* the exclusive claim of a work root, registration with GitHub, jobs, and  *)
(* the de-registration of a runner that is stopped.                         *)
(*                                                                          *)
(* A runner is the shell that runs `main` and the listener (run.sh) it      *)
(* starts.  The claim is a flock on file descriptor 9, which the listener   *)
(* inherits, so the lock is held while either of them lives.                *)
(***************************************************************************)
EXTENDS FiniteSets

CONSTANTS
  Runners,    \* processes (containers, or entrypoints on a bare host)
  Names,      \* RUNNER_NAME values
  Dirs,       \* RUNNER_DIR values, as places on the shared disk
  Works,      \* RUNNER_WORKDIR values
  NoDir,      \* no directory: an absolute work root is below none
  NoRunner,   \* no registration under a name
  Configs,    \* environments a runner may be started with
  Faults      \* what may go wrong

(* A runner's environment.  `absolute`: RUNNER_WORKDIR starts with a slash. *)
(* `removable`: a PAT or RUNNER_REMOVE_TOKEN_CMD is there.  `contained`:    *)
(* the shell is the first process of a container, which dies with it.       *)
Config == [name : Names, dir : Dirs, work : Works,
           absolute : BOOLEAN, removable : BOOLEAN, contained : BOOLEAN]

FaultKinds == {"admission", "token", "config", "api", "listener", "shell", "container"}

ASSUME ConfigsAssumption == Configs \subseteq Config
ASSUME NoDirAssumption == NoDir \notin Dirs
ASSUME NoRunnerAssumption == NoRunner \notin Runners
ASSUME FaultsAssumption == Faults \subseteq FaultKinds

VARIABLES
  env,        \* the environment each runner was started with
  pc,         \* where its shell is
  cred,       \* the shell holds a credential that can remove the registration
  attested,   \* the label contract was proved in this life
  stopping,   \* SIGTERM or SIGINT is pending in the shell
  listener,   \* run.sh is alive
  busy,       \* run.sh runs a job, in the work root
  locks,      \* who holds which lock file: [runner, process]
  registered  \* GitHub's runner of each name

vars == <<env, pc, cred, attested, stopping, listener, busy, locks, registered>>

PCs == {"off", "admit", "claim", "labels", "mint", "config", "registered",
        "unset", "listen", "cleanup"}

\* Where config.sh --work puts the checkouts: a relative path is below the
\* runner's directory, an absolute one is itself.
RootOf(c) == IF c.absolute THEN [dir |-> NoDir, work |-> c.work]
                           ELSE [dir |-> c.dir, work |-> c.work]
\* The lock file: root="$(pwd)/${RUNNER_WORKDIR}", whatever the path is.
LockOf(c) == [dir |-> c.dir, work |-> c.work]

Process(r, kind) == [runner |-> r, process |-> kind]
Processes == [runner : Runners, process : {"shell", "listener"}]

\* Mutant: the listener is started without the lock's file descriptor.
ShellHolders(file) == {p \in locks : p.process = "shell" /\ LockOf(env[p.runner]) = file}

LockHolders(file) == {p \in locks : LockOf(env[p.runner]) = file}

TypeOK ==
  /\ env \in [Runners -> Configs]
  /\ pc \in [Runners -> PCs]
  /\ cred \in [Runners -> BOOLEAN] /\ attested \in [Runners -> BOOLEAN]
  /\ stopping \in [Runners -> BOOLEAN]
  /\ listener \in [Runners -> BOOLEAN] /\ busy \in [Runners -> BOOLEAN]
  /\ locks \subseteq Processes
  /\ registered \in [Names -> Runners \cup {NoRunner}]

Init ==
  /\ env \in [Runners -> Configs]
  /\ pc = [r \in Runners |-> "off"]
  /\ cred = [r \in Runners |-> FALSE]
  /\ attested = [r \in Runners |-> FALSE]
  /\ stopping = [r \in Runners |-> FALSE]
  /\ listener = [r \in Runners |-> FALSE]
  /\ busy = [r \in Runners |-> FALSE]
  /\ locks = {}
  /\ registered = [n \in Names |-> NoRunner]
-----------------------------------------------------------------------------
(* The shell of r ends.  In a container everything else ends with it.       *)
ShellEnds(r) ==
  /\ pc' = [pc EXCEPT ![r] = "off"]
  /\ cred' = [cred EXCEPT ![r] = FALSE]
  /\ attested' = [attested EXCEPT ![r] = FALSE]
  /\ stopping' = [stopping EXCEPT ![r] = FALSE]
  /\ IF env[r].contained
       THEN /\ listener' = [listener EXCEPT ![r] = FALSE]
            /\ busy' = [busy EXCEPT ![r] = FALSE]
            /\ locks' = {p \in locks : p.runner # r}
       ELSE /\ locks' = locks \ {Process(r, "shell")}
            /\ UNCHANGED <<listener, busy>>

\* `return 1` of main.
Fails(r) == ShellEnds(r) /\ UNCHANGED <<env, registered>>

Goto(r, from, to) == pc[r] = from /\ pc' = [pc EXCEPT ![r] = to]

Start(r, c) ==
  /\ ~listener[r]
  /\ Goto(r, "off", "admit")
  /\ env' = [env EXCEPT ![r] = c]
  /\ UNCHANGED <<cred, attested, stopping, listener, busy, locks, registered>>

(* Host capacity, bridge routing, then the PAT is taken from its pipe.      *)
Admit(r) ==
  \/ /\ Goto(r, "admit", "claim")
     /\ cred' = [cred EXCEPT ![r] = env[r].removable]
     /\ UNCHANGED <<env, attested, stopping, listener, busy, locks, registered>>
  \/ "admission" \in Faults /\ pc[r] = "admit" /\ Fails(r)

\* Mutant: a claim that fails is reported and the runner goes on.
ClaimOrWarn(r) ==
  \/ /\ Goto(r, "claim", "labels")
     /\ locks' = IF LockHolders(LockOf(env[r])) = {}
                   THEN locks \cup {Process(r, "shell")} ELSE locks
     /\ UNCHANGED <<env, cred, attested, stopping, listener, busy, registered>>

(* claim_work_root: flock -n on the lock file.                              *)
Claim(r) ==
  \/ /\ Goto(r, "claim", "labels")
     /\ LockHolders(LockOf(env[r])) = {}
     /\ locks' = locks \cup {Process(r, "shell")}
     /\ UNCHANGED <<env, cred, attested, stopping, listener, busy, registered>>
  \/ pc[r] = "claim" /\ LockHolders(LockOf(env[r])) # {} /\ Fails(r)

AttestLabels(r) ==
  \/ /\ Goto(r, "labels", "mint")
     /\ attested' = [attested EXCEPT ![r] = TRUE]
     /\ UNCHANGED <<env, cred, stopping, listener, busy, locks, registered>>
  \/ "admission" \in Faults /\ pc[r] = "labels" /\ Fails(r)

(* resolve_token, then the traps are set.                                   *)
ResolveToken(r) ==
  \/ /\ Goto(r, "mint", "config")
     /\ UNCHANGED <<env, cred, attested, stopping, listener, busy, locks, registered>>
  \/ "token" \in Faults /\ pc[r] = "mint" /\ Fails(r)

(* config.sh --replace: the name becomes this runner's.  When it fails the  *)
(* shell ends without its traps, and GitHub may have taken the name or not. *)
Register(r) ==
  \/ /\ Goto(r, "config", "registered")
     /\ registered' = [registered EXCEPT ![env[r].name] = r]
     /\ UNCHANGED <<env, cred, attested, stopping, listener, busy, locks>>
  \/ /\ "config" \in Faults /\ pc[r] = "config"
     /\ registered' \in {registered, [registered EXCEPT ![env[r].name] = r]}
     /\ ShellEnds(r) /\ UNCHANGED env

\* Mutant: the credentials stay, for the removal later.
KeepCredentials(r) ==
  /\ ~stopping[r]
  /\ Goto(r, "registered", "unset")
  /\ UNCHANGED <<env, cred, attested, stopping, listener, busy, locks, registered>>

(* The credentials are unset; the traps are still set.                      *)
UnsetCredentials(r) ==
  /\ ~stopping[r]
  /\ Goto(r, "registered", "unset")
  /\ cred' = [cred EXCEPT ![r] = FALSE]
  /\ UNCHANGED <<env, attested, stopping, listener, busy, locks, registered>>

(* run.sh starts in the background and inherits the lock; then `wait`.      *)
Listen(r) ==
  /\ ~stopping[r]
  /\ Goto(r, "unset", "listen")
  /\ listener' = [listener EXCEPT ![r] = TRUE]
  /\ locks' = locks \cup {Process(r, "listener")}
  /\ UNCHANGED <<env, cred, attested, stopping, busy, registered>>

(* `wait` returns when run.sh ends, and the shell ends with it.             *)
ListenerEnds(r) ==
  /\ "listener" \in Faults /\ listener[r]
  /\ listener' = [listener EXCEPT ![r] = FALSE]
  /\ busy' = [busy EXCEPT ![r] = FALSE]
  /\ UNCHANGED <<env, registered>>
  /\ IF pc[r] = "listen" /\ ~stopping[r]
       THEN /\ pc' = [pc EXCEPT ![r] = "off"]
            /\ attested' = [attested EXCEPT ![r] = FALSE]
            /\ locks' = {p \in locks : p.runner # r}
            /\ UNCHANGED <<cred, stopping>>
       ELSE /\ locks' = locks \ {Process(r, "listener")}
            /\ UNCHANGED <<pc, cred, attested, stopping>>

(* The operator stops a runner whose traps are set.  Before that the signal *)
(* kills a bare shell (ShellDies) and is ignored by a container's.          *)
Stop(r) ==
  /\ pc[r] \in {"config", "registered", "unset", "listen"} /\ ~stopping[r]
  /\ stopping' = [stopping EXCEPT ![r] = TRUE]
  /\ UNCHANGED <<env, pc, cred, attested, listener, busy, locks, registered>>

\* Mutant: run.sh is a foreground command, and the trap runs after it.
TrapAfterListener(r) ==
  /\ stopping[r] /\ pc[r] \in {"registered", "unset", "listen"} /\ ~listener[r]
  /\ pc' = [pc EXCEPT ![r] = "cleanup"]
  /\ UNCHANGED <<env, cred, attested, stopping, listener, busy, locks, registered>>

(* A pending signal interrupts `wait` at once, but config.sh runs first.    *)
Trap(r) ==
  /\ stopping[r] /\ pc[r] \in {"registered", "unset", "listen"}
  /\ pc' = [pc EXCEPT ![r] = "cleanup"]
  /\ UNCHANGED <<env, cred, attested, stopping, listener, busy, locks, registered>>

Removed(r) == [n \in Names |-> IF registered[n] = r THEN NoRunner ELSE registered[n]]

(* config.sh remove --token where there is a credential for it, --local     *)
(* where there is none or GitHub refuses; then exit 0.                      *)
Cleanup(r) ==
  /\ pc[r] = "cleanup"
  /\ \/ /\ cred[r]
        /\ registered' = Removed(r)
     \/ /\ ~cred[r] \/ "api" \in Faults
        /\ UNCHANGED registered
  /\ ShellEnds(r) /\ UNCHANGED env

(* SIGKILL: of the shell alone, or of its container.                        *)
ShellDies(r) ==
  /\ pc[r] # "off"
  /\ (IF env[r].contained THEN "container" ELSE "shell") \in Faults
  /\ Fails(r)

(* GitHub gives a job to the runner a name belongs to.                      *)
JobStarts(r) ==
  /\ listener[r] /\ ~busy[r] /\ registered[env[r].name] = r
  /\ busy' = [busy EXCEPT ![r] = TRUE]
  /\ UNCHANGED <<env, pc, cred, attested, stopping, listener, locks, registered>>

JobEnds(r) ==
  /\ busy[r]
  /\ busy' = [busy EXCEPT ![r] = FALSE]
  /\ UNCHANGED <<env, pc, cred, attested, stopping, listener, locks, registered>>

ShellStep(r) == \/ Admit(r) \/ Claim(r) \/ AttestLabels(r) \/ ResolveToken(r)
                \/ Register(r) \/ UnsetCredentials(r) \/ Listen(r)
                \/ Trap(r) \/ Cleanup(r)

Next == \E r \in Runners :
  \/ \E c \in Configs : Start(r, c)
  \/ ShellStep(r)
  \/ Stop(r) \/ ListenerEnds(r) \/ ShellDies(r) \/ JobStarts(r) \/ JobEnds(r)

Spec == Init /\ [][Next]_vars
(* A shell takes its next step; nothing else has to happen.                 *)
FairSpec == Spec /\ \A r \in Runners : WF_vars(ShellStep(r))
-----------------------------------------------------------------------------
(* Two jobs never share a checkout: the listeners that are alive, with      *)
(* their shells or orphaned by them, have different work roots              *)
(* (entrypoint.sh 593-598).                                                 *)
OneRunnerPerRoot == \A r, s \in Runners :
  r # s /\ listener[r] /\ listener[s] => RootOf(env[r]) # RootOf(env[s])

(* GitHub can schedule on a runner only after the labels it advertises were *)
(* proved and while it has its work root (entrypoint.sh 757-761).           *)
SchedulableIsReady == [][\A r \in Runners :
  (\E n \in Names : registered'[n] = r /\ registered[n] # r)
    => attested[r] /\ Process(r, "shell") \in locks]_vars

(* While a runner listens, and so while a job may run, its shell has no     *)
(* credential left, whichever way it was started or is being stopped        *)
(* (entrypoint.sh 795).                                                     *)
NoCredentialBesideJobs == \A r \in Runners : listener[r] => ~cred[r]

(* A stop request ends the shell: it is never held up by a listener that    *)
(* does not end (entrypoint.sh 798-799).                                    *)
StopEnds == \A r \in Runners : stopping[r] ~> pc[r] = "off"

(* What README.md:344 says of `docker compose down`: a runner stopped by a  *)
(* signal, with GitHub reachable, leaves no registration.                   *)
StopDeregisters == [][\A r \in Runners :
  pc[r] = "cleanup" /\ pc'[r] = "off" /\ env[r].removable
    => \A n \in Names : registered'[n] # r]_vars
=============================================================================
