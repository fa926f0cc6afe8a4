--------------------------- MODULE MCPatDelivery ---------------------------
(***************************************************************************)
(* Instances of PatDelivery for TLC.                                        *)
(***************************************************************************)
EXTENDS PatDelivery

AnyFault == FaultKinds
=============================================================================
