----------------------- MODULE MCEphemeralSupervisor -----------------------
(***************************************************************************)
(* Instances of EphemeralSupervisor for TLC.                                *)
(***************************************************************************)
EXTENDS SupervisorInvariants

EveryFault == FaultKinds
=============================================================================
