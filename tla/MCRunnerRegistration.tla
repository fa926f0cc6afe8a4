------------------------ MODULE MCRunnerRegistration ------------------------
(***************************************************************************)
(* Instances of RunnerRegistration for TLC.                                 *)
(***************************************************************************)
EXTENDS RunnerRegistration

CONSTANTS a, b, home, other, work, n1, n2

\* Two directories, one of them shared, and names that may clash.
RelativeConfigs ==
  [name : Names, dir : Dirs, work : Works, absolute : {FALSE},
   removable : {TRUE}, contained : BOOLEAN]
\* Containers, each with its own directory, one RUNNER_WORKDIR from the root.
AbsoluteConfigs ==
  [name : Names, dir : Dirs, work : Works, absolute : {TRUE},
   removable : {TRUE}, contained : {TRUE}]
\* One container as docker-compose.yml starts it.
ComposeConfigs ==
  [name : {n1}, dir : {home}, work : Works, absolute : {FALSE},
   removable : {TRUE}, contained : {TRUE}]
=============================================================================
