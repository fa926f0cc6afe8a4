------------------------ MODULE SupervisorInvariants ------------------------
(***************************************************************************)
(* The inductive invariant of EphemeralSupervisor, in parts.                *)
(***************************************************************************)
EXTENDS EphemeralSupervisor

(* Every `docker run` has its number, and is asked for, created and started *)
(* at most once.                                                            *)
Numbered ==
  /\ latest <= runs /\ child.run <= runs
  /\ Exists => child.run >= 1 /\ child.phase # "none"
  /\ \A q \in requests : 1 <= q.run /\ q.run <= runs /\ q.run # latest
  /\ \A p, q \in requests : p.run = q.run => p = q
  /\ \A d \in delivered : d.run <= runs /\ \A q \in requests : q.run # d.run

(* What is to be created is not there, and what is to be started is newer   *)
(* than everything that was.                                                *)
Ordered ==
  /\ \A q \in requests : q.op = "create" => q.run # child.run
  /\ Startable => child.run > latest

(* The client is the latest `docker run`, and leaves no request behind when *)
(* it returns to a controller that waits for it.                            *)
Attached ==
  /\ client \in {0, runs}
  /\ client # 0 => pc \in {"wait", "stop", "rm", "verify", "exit"}
  /\ pc = "wait" => client = runs
  /\ pc \in {"remove", "inspect"} => \A q \in requests : q.run # runs

(* A token is in one place: the controller, a request or a container.       *)
Tokens ==
  /\ token <= minted
  /\ pc \in {"attest", "start"} => token # 0
  /\ \A q \in requests : 1 <= q.token /\ q.token <= minted /\ q.token # token
  /\ \A p, q \in requests : p.token = q.token => p = q
  /\ \A d \in delivered :
       /\ d.token <= minted /\ (d.token # 0 => d.token # token)
       /\ \A q \in requests : q.token # d.token
  /\ OneTokenPerChild

(* The generations of a life are numbered after the ones before it.         *)
Counted ==
  /\ pc \in {"sweep", "admit", "mint", "attest", "start"} => runs = base + completed
  /\ pc \in {"wait", "remove", "inspect"} => runs = base + completed + 1
  /\ MaxJobs > 0 =>
       /\ pc \in (Foreground \cup {"start", "wait"}) => completed < MaxJobs
       /\ runs <= base + MaxJobs

\* The controller knows that there is no child and that none is asked for.
Settled == pc \in {"admit", "mint", "attest", "start", "exit", "done"} /\ ~missed

(* With the daemon up since the sweep, nothing is alive and nothing can     *)
(* come to life until the controller starts it, nor after it ended well.    *)
Quiet ==
  /\ missed => pc \in Ended \cup {"exit"}
  /\ Settled => \A q \in requests : q.op = "create" => q.run # client
  /\ Settled /\ daemon = "up" => ~Alive /\ ~Startable

(* A generation reported by the loop is in nobody's hands any more.         *)
Reported ==
  /\ LoopReceiptTrue
  /\ \A n \in torn : n <= runs /\ \A q \in requests : q.run # n

SupervisorInv == /\ TypeOK /\ Numbered /\ Ordered /\ Attached /\ Tokens /\ Counted
                 /\ Quiet /\ Reported
=============================================================================
