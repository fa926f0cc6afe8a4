---------------------- MODULE RunnerRegistrationProofs ----------------------
(***************************************************************************)
(* Theorems about RunnerRegistration, for any runners, names, directories,  *)
(* configurations and faults.                                               *)
(***************************************************************************)
EXTENDS RunnerRegistration, TLAPS

\* After claim_work_root the shell holds its lock ...
Claimed == {"labels", "mint", "config", "registered", "unset", "listen", "cleanup"}
\* ... and until the listener is forked there is none.
BeforeListener == {"admit", "claim", "labels", "mint", "config", "registered", "unset"}

(* The lock files are held by the processes that are alive, and no two      *)
(* runners hold the same one.                                               *)
LockInv ==
  /\ \A r \in Runners : Process(r, "shell") \in locks <=> pc[r] \in Claimed
  /\ \A r \in Runners : Process(r, "listener") \in locks <=> listener[r]
  /\ \A p, q \in locks : p.runner # q.runner => LockOf(env[p.runner]) # LockOf(env[q.runner])

(* What a shell has done when it is somewhere.                              *)
ShellInv == \A r \in Runners :
  /\ pc[r] \in {"mint", "config", "registered", "unset", "listen", "cleanup"} => attested[r]
  /\ pc[r] \in BeforeListener => ~listener[r]
  /\ pc[r] = "unset" \/ listener[r] => ~cred[r]

Inv == TypeOK /\ LockInv /\ ShellInv

(* Typing, by itself.                                                       *)
LEMMA TypeStep == TypeOK /\ [Next]_vars => TypeOK'
<1> SUFFICES ASSUME TypeOK, [Next]_vars PROVE TypeOK'
  OBVIOUS
<1> USE ConfigsAssumption, NoRunnerAssumption
<1> USE DEF TypeOK, PCs, Goto, Processes, Process
<1>1. CASE UNCHANGED vars
  BY <1>1 DEF vars
<1>2. ASSUME NEW r \in Runners, ShellEnds(r)
      PROVE  /\ pc' \in [Runners -> PCs]
             /\ cred' \in [Runners -> BOOLEAN] /\ attested' \in [Runners -> BOOLEAN]
             /\ stopping' \in [Runners -> BOOLEAN] /\ listener' \in [Runners -> BOOLEAN]
             /\ busy' \in [Runners -> BOOLEAN] /\ locks' \subseteq Processes
  BY <1>2 DEF ShellEnds
<1>3. ASSUME NEW r \in Runners, Fails(r) PROVE TypeOK'
  BY <1>2, <1>3 DEF Fails
<1>4. ASSUME NEW r \in Runners, NEW c \in Configs, Start(r, c) PROVE TypeOK'
  BY <1>4 DEF Start
<1>5. ASSUME NEW r \in Runners, Admit(r) PROVE TypeOK'
  BY <1>3, <1>5 DEF Admit, Config
<1>6. ASSUME NEW r \in Runners, Claim(r) PROVE TypeOK'
  BY <1>3, <1>6 DEF Claim
<1>7. ASSUME NEW r \in Runners, AttestLabels(r) PROVE TypeOK'
  BY <1>3, <1>7 DEF AttestLabels
<1>8. ASSUME NEW r \in Runners, ResolveToken(r) PROVE TypeOK'
  BY <1>3, <1>8 DEF ResolveToken
<1>9. ASSUME NEW r \in Runners, Register(r) PROVE TypeOK'
  <2>1. [registered EXCEPT ![env[r].name] = r] \in [Names -> Runners \cup {NoRunner}]
    OBVIOUS
  <2> QED BY <1>2, <1>9, <2>1 DEF Register
<1>10. ASSUME NEW r \in Runners, Listen(r) PROVE TypeOK'
  BY <1>10 DEF Listen
<1>11. ASSUME NEW r \in Runners, ListenerEnds(r) PROVE TypeOK'
  BY <1>11 DEF ListenerEnds
<1>12. ASSUME NEW r \in Runners, Stop(r) PROVE TypeOK'
  BY <1>12 DEF Stop
<1>13. ASSUME NEW r \in Runners, Trap(r) PROVE TypeOK'
  BY <1>13 DEF Trap
<1>14. ASSUME NEW r \in Runners, Cleanup(r) PROVE TypeOK'
  BY <1>2, <1>14 DEF Cleanup, Removed
<1>15. ASSUME NEW r \in Runners, ShellDies(r) PROVE TypeOK'
  BY <1>3, <1>15 DEF ShellDies
<1>16. ASSUME NEW r \in Runners, JobStarts(r) PROVE TypeOK'
  BY <1>16 DEF JobStarts
<1>17. ASSUME NEW r \in Runners, JobEnds(r) PROVE TypeOK'
  BY <1>17 DEF JobEnds
<1>18. ASSUME NEW r \in Runners, UnsetCredentials(r) PROVE TypeOK'
  BY <1>18 DEF UnsetCredentials
<1> QED
  BY <1>1, <1>4, <1>5, <1>6, <1>7, <1>8, <1>9, <1>10, <1>11, <1>12, <1>13,
     <1>14, <1>15, <1>16, <1>17, <1>18 DEF Next, ShellStep

(* Every step keeps the locks with their processes and apart.               *)
LEMMA LockStep == Inv /\ [Next]_vars => LockInv'
<1> SUFFICES ASSUME Inv, [Next]_vars PROVE LockInv'
  OBVIOUS
<1> USE DEF Inv, TypeOK, LockInv, ShellInv, Claimed, BeforeListener, PCs, Goto, Processes, Process
<1>1. CASE UNCHANGED vars
  BY <1>1 DEF vars
<1>2. ASSUME NEW r \in Runners, ShellEnds(r), UNCHANGED env PROVE LockInv'
  BY <1>2 DEF ShellEnds
<1>3. ASSUME NEW r \in Runners, Fails(r) PROVE LockInv'
  BY <1>2, <1>3 DEF Fails
<1>4. ASSUME NEW r \in Runners, NEW c \in Configs, Start(r, c) PROVE LockInv'
  <2>1. \A p \in locks : p.runner # r
    BY <1>4 DEF Start
  <2>2. \A p \in locks : env'[p.runner] = env[p.runner]
    BY <1>4, <2>1 DEF Start
  <2> QED BY <1>4, <2>2 DEF Start
<1>5. ASSUME NEW r \in Runners, Admit(r) PROVE LockInv'
  BY <1>3, <1>5 DEF Admit
<1>6. ASSUME NEW r \in Runners, Claim(r) PROVE LockInv'
  <2>1. CASE Fails(r)
    BY <1>3, <2>1
  <2>2. CASE LockHolders(LockOf(env[r])) = {} /\ ~Fails(r)
    <3>1. \A p \in locks : LockOf(env[p.runner]) # LockOf(env[r])
      BY <2>2 DEF LockHolders
    <3> QED BY <1>6, <2>2, <3>1 DEF Claim
  <2> QED BY <1>6, <2>1, <2>2 DEF Claim
<1>7. ASSUME NEW r \in Runners, AttestLabels(r) PROVE LockInv'
  BY <1>3, <1>7 DEF AttestLabels
<1>8. ASSUME NEW r \in Runners, ResolveToken(r) PROVE LockInv'
  BY <1>3, <1>8 DEF ResolveToken
<1>9. ASSUME NEW r \in Runners, Register(r) PROVE LockInv'
  BY <1>2, <1>9 DEF Register
<1>10. ASSUME NEW r \in Runners, Listen(r) PROVE LockInv'
  <2>1. Process(r, "shell") \in locks /\ Process(r, "shell").runner = r
    BY <1>10 DEF Listen
  <2>2. \A p \in locks : p.runner # r => LockOf(env[p.runner]) # LockOf(env[r])
    BY <2>1
  <2> QED BY <1>10, <2>2 DEF Listen
<1>11. ASSUME NEW r \in Runners, ListenerEnds(r) PROVE LockInv'
  BY <1>11 DEF ListenerEnds
<1>12. ASSUME NEW r \in Runners, Stop(r) PROVE LockInv'
  BY <1>12 DEF Stop
<1>13. ASSUME NEW r \in Runners, Trap(r) PROVE LockInv'
  BY <1>13 DEF Trap
<1>14. ASSUME NEW r \in Runners, Cleanup(r) PROVE LockInv'
  BY <1>2, <1>14 DEF Cleanup
<1>15. ASSUME NEW r \in Runners, ShellDies(r) PROVE LockInv'
  BY <1>3, <1>15 DEF ShellDies
<1>16. ASSUME NEW r \in Runners, JobStarts(r) PROVE LockInv'
  BY <1>16 DEF JobStarts
<1>17. ASSUME NEW r \in Runners, JobEnds(r) PROVE LockInv'
  BY <1>17 DEF JobEnds
<1>18. ASSUME NEW r \in Runners, UnsetCredentials(r) PROVE LockInv'
  BY <1>18 DEF UnsetCredentials
<1> QED
  BY <1>1, <1>4, <1>5, <1>6, <1>7, <1>8, <1>9, <1>10, <1>11, <1>12, <1>13,
     <1>14, <1>15, <1>16, <1>17, <1>18 DEF Next, ShellStep

(* Every step keeps a shell's place and what it has done together.          *)
LEMMA ShellStepInv == Inv /\ [Next]_vars => ShellInv'
<1> SUFFICES ASSUME Inv, [Next]_vars PROVE ShellInv'
  OBVIOUS
<1> USE DEF Inv, TypeOK, ShellInv, BeforeListener, PCs, Goto
<1>1. CASE UNCHANGED vars
  BY <1>1 DEF vars
<1>2. ASSUME NEW r \in Runners, ShellEnds(r) PROVE ShellInv'
  BY <1>2 DEF ShellEnds
<1>3. ASSUME NEW r \in Runners, Fails(r) PROVE ShellInv'
  BY <1>2, <1>3 DEF Fails
<1>4. ASSUME NEW r \in Runners, NEW c \in Configs, Start(r, c) PROVE ShellInv'
  BY <1>4 DEF Start
<1>5. ASSUME NEW r \in Runners, Admit(r) PROVE ShellInv'
  BY <1>3, <1>5 DEF Admit
<1>6. ASSUME NEW r \in Runners, Claim(r) PROVE ShellInv'
  BY <1>3, <1>6 DEF Claim
<1>7. ASSUME NEW r \in Runners, AttestLabels(r) PROVE ShellInv'
  BY <1>3, <1>7 DEF AttestLabels
<1>8. ASSUME NEW r \in Runners, ResolveToken(r) PROVE ShellInv'
  BY <1>3, <1>8 DEF ResolveToken
<1>9. ASSUME NEW r \in Runners, Register(r) PROVE ShellInv'
  BY <1>2, <1>9 DEF Register
<1>10. ASSUME NEW r \in Runners, Listen(r) PROVE ShellInv'
  BY <1>10 DEF Listen
<1>11. ASSUME NEW r \in Runners, ListenerEnds(r) PROVE ShellInv'
  BY <1>11 DEF ListenerEnds
<1>12. ASSUME NEW r \in Runners, Stop(r) PROVE ShellInv'
  BY <1>12 DEF Stop
<1>13. ASSUME NEW r \in Runners, Trap(r) PROVE ShellInv'
  BY <1>13 DEF Trap
<1>14. ASSUME NEW r \in Runners, Cleanup(r) PROVE ShellInv'
  BY <1>2, <1>14 DEF Cleanup
<1>15. ASSUME NEW r \in Runners, ShellDies(r) PROVE ShellInv'
  BY <1>3, <1>15 DEF ShellDies
<1>16. ASSUME NEW r \in Runners, JobStarts(r) PROVE ShellInv'
  BY <1>16 DEF JobStarts
<1>17. ASSUME NEW r \in Runners, JobEnds(r) PROVE ShellInv'
  BY <1>17 DEF JobEnds
<1>18. ASSUME NEW r \in Runners, UnsetCredentials(r) PROVE ShellInv'
  BY <1>18 DEF UnsetCredentials
<1> QED
  BY <1>1, <1>4, <1>5, <1>6, <1>7, <1>8, <1>9, <1>10, <1>11, <1>12, <1>13,
     <1>14, <1>15, <1>16, <1>17, <1>18 DEF Next, ShellStep

(* The inductive invariant.                                                 *)
THEOREM RegistrationInvariant == Spec => []Inv
<1>1. Init => Inv
  BY ConfigsAssumption, NoRunnerAssumption
  DEF Init, Inv, TypeOK, LockInv, ShellInv, Claimed, BeforeListener, PCs, Process
<1>2. Inv /\ [Next]_vars => Inv'
  BY TypeStep, LockStep, ShellStepInv DEF Inv
<1> QED BY <1>1, <1>2, PTL DEF Spec

(* Every reachable state is well typed.                                     *)
THEOREM RegistrationTypeCorrect == Spec => []TypeOK
<1>1. Inv => TypeOK
  BY DEF Inv
<1> QED BY <1>1, RegistrationInvariant, PTL

(* Two listeners never share a work root, whatever processes die when, as   *)
(* long as no RUNNER_WORKDIR is absolute.                                   *)
THEOREM OneRunnerPerRootHolds ==
  ASSUME \A c \in Configs : ~c.absolute
  PROVE  Spec => []OneRunnerPerRoot
<1>1. Inv => OneRunnerPerRoot
  <2> SUFFICES ASSUME Inv, NEW r \in Runners, NEW s \in Runners,
                      r # s, listener[r], listener[s]
               PROVE  RootOf(env[r]) # RootOf(env[s])
    BY DEF OneRunnerPerRoot
  <2>1. Process(r, "listener") \in locks /\ Process(s, "listener") \in locks
    BY DEF Inv, LockInv
  <2>2. LockOf(env[r]) # LockOf(env[s])
    BY <2>1 DEF Inv, LockInv, Process
  <2>3. env[r] \in Configs /\ env[s] \in Configs
    BY DEF Inv, TypeOK
  <2> QED BY <2>2, <2>3 DEF RootOf, LockOf
<1> QED BY <1>1, RegistrationInvariant, PTL

(* No credential is in the shell beside a listener.                         *)
THEOREM NoCredentialBesideJobsHolds == Spec => []NoCredentialBesideJobs
<1>1. Inv => NoCredentialBesideJobs
  BY DEF Inv, ShellInv, NoCredentialBesideJobs
<1> QED BY <1>1, RegistrationInvariant, PTL

(* GitHub learns of a runner only when it is attested and has its root.     *)
THEOREM SchedulableIsReadyHolds == Spec => SchedulableIsReady
<1> DEFINE Ready == \A r \in Runners :
      (\E n \in Names : registered'[n] = r /\ registered[n] # r)
        => attested[r] /\ Process(r, "shell") \in locks
<1>1. Inv /\ [Next]_vars => [Ready]_vars
  <2> SUFFICES ASSUME Inv, Next, NEW r \in Runners, NEW n \in Names,
                      registered'[n] = r, registered[n] # r
               PROVE  attested[r] /\ Process(r, "shell") \in locks
    BY DEF vars
  <2>1. ASSUME NEW s \in Runners, Register(s) PROVE r = s /\ pc[r] = "config"
    BY <2>1 DEF Register, Inv, TypeOK, Goto
  <2>2. ASSUME NEW s \in Runners, Cleanup(s) PROVE FALSE
    BY <2>2, NoRunnerAssumption DEF Cleanup, Removed
  <2>3. \E s \in Runners : Register(s) \/ Cleanup(s)
    BY DEF Next, ShellStep, Start, Admit, Claim, AttestLabels, ResolveToken,
           UnsetCredentials, Listen, ListenerEnds, Stop, Trap, ShellDies, JobStarts, JobEnds, Fails
  <2> QED BY <2>1, <2>2, <2>3 DEF Inv, ShellInv, LockInv, Claimed
<1> QED BY <1>1, RegistrationInvariant, PTL DEF Spec, SchedulableIsReady
=============================================================================
