----------------------------- MODULE SerialJobs -----------------------------
(***************************************************************************)
(* What an ephemeral runner promises of its job containers: at most one is  *)
(* alive, each lives once, and they come in the order they were asked for - *)
(* through kills, relaunches and a daemon that answers late.                *)
(***************************************************************************)
EXTENDS Naturals

VARIABLES
  alive,  \* the container that is alive; 0: none
  last    \* the latest container that ever was

Init == alive = 0 /\ last = 0

Begins == /\ alive = 0
          /\ alive' \in Nat /\ alive' > last /\ last' = alive'

Ends == alive # 0 /\ alive' = 0 /\ last' = last

Next == Begins \/ Ends

Spec == Init /\ [][Next]_<<alive, last>>
=============================================================================
