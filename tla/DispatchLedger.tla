---------------------------- MODULE DispatchLedger ----------------------------
(***************************************************************************)
(* What the probe operation promises of one request: an output path is     *)
(* entered before its probe is dispatched, dispatches it once, and all     *)
(* answers there ever are name one dispatched run.  No entry is taken      *)
(* back, whatever fails.                                                   *)
(***************************************************************************)
EXTENDS Naturals

CONSTANTS Outputs, Runs

VARIABLES intended,    \* the outputs that were entered
          dispatched,  \* pairs of an output and the run it dispatched
          answered     \* pairs of an output and the run that answered

vars == <<intended, dispatched, answered>>

Init == intended = {} /\ dispatched = {} /\ answered = {}

Dispatches(o, r) ==
    /\ o \in intended
    /\ \A d \in dispatched : d[1] # o /\ d[2] < r
    /\ dispatched' = dispatched \cup {<<o, r>>}
    /\ UNCHANGED <<intended, answered>>

(* Outputs are entered; others get their answer, which is everybody's.     *)
Answer(who, r) ==
    /\ \E d \in dispatched : d[2] = r
    /\ \A a \in answered : a[2] = r
    /\ answered' = answered \cup {<<o, r>> : o \in who}

Settles ==
    /\ \E new \in SUBSET Outputs : intended' = intended \cup new
    /\ answered' = answered \/ \E who \in SUBSET intended, r \in Runs : Answer(who, r)
    /\ UNCHANGED dispatched

Next == Settles \/ \E o \in Outputs, r \in Runs : Dispatches(o, r)

Spec == Init /\ [][Next]_vars
===============================================================================
