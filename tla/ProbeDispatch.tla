---------------------------- MODULE ProbeDispatch ----------------------------
(***************************************************************************)
(* The probe operation of scripts/container_deployment_transport.py: one   *)
(* request, with its nonce and its lifetime, for which the transport is    *)
(* called any number of times, on one output path or on several.  A call   *)
(* lists the runs of the canary workflow, writes its intent down,          *)
(* dispatches the workflow once, polls for the run with the request's      *)
(* nonce in its title and writes the result down.                          *)
(*                                                                         *)
(* GitHub numbers the runs as it creates them and may list a run later;    *)
(* once listed, a run stays.  An answer may be lost, a process may die,    *)
(* and with its host every file that was not yet synced.                   *)
(***************************************************************************)
EXTENDS Naturals, Sequences, FiniteSets

CONSTANTS Calls,            \* invocations of the transport
          Outputs,          \* values of --output
          None,             \* the dispatcher of a run that is not a probe's
          PageSize,         \* RUNS_PAGE_SIZE
          MaxRunRecords,    \* MAX_RUN_RECORDS
          MaxRunRequests,   \* MAX_RUN_REQUESTS
          Expiry,           \* expiresAt of the request; it is issued at 0
          MaxRuns,          \* bound of the workflow's runs
          MaxAttempts       \* bound of a run's attempts

ASSUME ProbeNumbers ==
    /\ PageSize \in Nat \ {0}
    /\ MaxRunRecords \in Nat /\ MaxRunRequests \in Nat /\ Expiry \in Nat
    /\ MaxRuns \in Nat /\ MaxAttempts \in Nat \ {0}
ASSUME ProbeNone == None \notin Outputs

VARIABLES now,
          runs,      \* the workflow's runs, in the order of their ids
          listed,    \* those that an inventory shows
          intent,    \* the dispatch intent beside each output
          result,    \* each output
          call       \* the invocations

vars == <<now, runs, listed, intent, result, call>>

NoFile == [state |-> "none", run |-> 0]

Fresh == [pc |-> "idle", output |-> None, budget |-> 0, maximum |-> 0,
          found |-> 0]

Init == /\ now = 0
        /\ runs = <<>>
        /\ listed = {}
        /\ intent = [o \in Outputs |-> NoFile]
        /\ result = [o \in Outputs |-> NoFile]
        /\ call = [c \in Calls |-> Fresh]

(* A process that ended keeps nothing.                                     *)
Gone == [Fresh EXCEPT !.pc = "ended"]

Active(c) == call[c].pc \notin {"idle", "ended"}

(* validate_request: the request is alive.                                 *)
Alive == now < Expiry

Newest(S) == CHOOSE m \in S \cup {0} : \A r \in S : r <= m

-------------------------------------------------------------------------------
(* GitHub and the clock.                                                   *)

Tick == /\ now < Expiry
        /\ now' = now + 1
        /\ UNCHANGED <<runs, listed, intent, result, call>>

CreateRun(by) ==
    /\ Len(runs) < MaxRuns
    /\ runs' = Append(runs, [by |-> by, attempt |-> 1, status |-> "running",
                             receipts |-> {}])

ForeignRun == /\ CreateRun(None)
              /\ UNCHANGED <<now, listed, intent, result, call>>

Show(r) == /\ r \notin listed
           /\ listed' = listed \cup {r}
           /\ UNCHANGED <<now, runs, intent, result, call>>

(* A canary that succeeds uploads its receipt.  What becomes of runs that  *)
(* are not the probe's does not matter.                                    *)
Conclude(r, conclusion) ==
    /\ runs[r].by # None
    /\ runs[r].status = "running"
    /\ runs' = [runs EXCEPT ![r].status = conclusion,
                            ![r].receipts = IF conclusion = "success"
                                            THEN @ \cup {runs[r].attempt} ELSE @]
    /\ UNCHANGED <<now, listed, intent, result, call>>

Rerun(r) ==
    /\ runs[r].status # "running"
    /\ runs[r].attempt < MaxAttempts
    /\ runs' = [runs EXCEPT ![r].attempt = @ + 1, ![r].status = "running"]
    /\ UNCHANGED <<now, listed, intent, result, call>>

-------------------------------------------------------------------------------
(* One call.                                                               *)

Goto(c, pc) == call' = [call EXCEPT ![c].pc = pc]

End(c) == call' = [call EXCEPT ![c] = Gone]

(* main: neither file exists, the request is alive; then the workflow and  *)
(* the tag are looked up.                                                  *)
Start(c, o) ==
    /\ call[c].pc = "idle"
    /\ intent[o].state = "none" /\ result[o].state = "none"
    /\ Alive
    /\ call' = [call EXCEPT ![c].pc = "baseline", ![c].output = o,
                            ![c].budget = MaxRunRequests]
    /\ UNCHANGED <<now, runs, listed, intent, result>>

Pages(n) == IF n = 0 THEN 1 ELSE (n + PageSize - 1) \div PageSize

(* complete_workflow_runs: a bounded inventory that the budget can pay     *)
(* for.  Its pages are read one after the other and must all name the same *)
(* total; as the list only grows, it was the same all the while.           *)
Inventory(c) ==
    /\ Cardinality(listed) <= MaxRunRecords
    /\ Pages(Cardinality(listed)) <= call[c].budget

\* Mutant: the first page is paid for twice.
BudgetAfterTwice(c) == call[c].budget - Pages(Cardinality(listed)) - 1

BudgetAfter(c) == call[c].budget - Pages(Cardinality(listed))

(* The runs whose title has the nonce.                                     *)
Matching == {r \in listed : runs[r].by # None}

(* Before the dispatch: the nonce is unused, there is budget to poll with. *)
Baseline(c) ==
    /\ call[c].pc = "baseline"
    /\ Inventory(c)
    /\ Matching = {}
    /\ BudgetAfter(c) > 0
    /\ Alive
    /\ call' = [call EXCEPT ![c].pc = "intent", ![c].budget = BudgetAfter(c),
                            ![c].maximum = Newest(listed)]
    /\ UNCHANGED <<now, runs, listed, intent, result>>

(* persist_record: the file is new, and then it is synced.                 *)
RecordIntent(c) ==
    LET o == call[c].output IN
    /\ call[c].pc = "intent"
    /\ intent[o].state = "none"
    /\ intent' = [intent EXCEPT ![o] = [state |-> "written", run |-> call[c].maximum]]
    /\ Goto(c, "sync_intent")
    /\ UNCHANGED <<now, runs, listed, result>>

\* Mutant: the intent is left in the page cache.
FlushIntent(c) ==
    /\ call[c].pc = "sync_intent"
    /\ Goto(c, "dispatch")
    /\ UNCHANGED <<now, runs, listed, intent, result>>

SyncIntent(c) ==
    /\ call[c].pc = "sync_intent"
    /\ intent' = [intent EXCEPT ![call[c].output].state = "durable"]
    /\ Goto(c, "dispatch")
    /\ UNCHANGED <<now, runs, listed, result>>

\* Mutant: a dispatch whose answer was lost is repeated.
DispatchAgain(c) ==
    /\ call[c].pc = "dispatch"
    /\ CreateRun(call[c].output)
    /\ Goto(c, "poll") \/ UNCHANGED call
    /\ UNCHANGED <<now, listed, intent, result>>

(* The dispatch is accepted, and its answer arrives or does not.           *)
Dispatch(c) ==
    /\ call[c].pc = "dispatch"
    /\ CreateRun(call[c].output)
    /\ Goto(c, "poll") \/ End(c)
    /\ UNCHANGED <<now, listed, intent, result>>

\* Mutant: the title is enough.
IdentifiedByTitle(c, r) == runs[r].attempt = 1

(* The run that answers is newer than the baseline and was never rerun.    *)
Identified(c, r) == r > call[c].maximum /\ runs[r].attempt = 1

\* Mutant: any run with the nonce will do.
AnyMatch == TRUE

(* At most one run has the nonce.                                          *)
Unambiguous == Cardinality(Matching) <= 1

(* One round of polling; a run that failed, or that is not the probe's,    *)
(* ends the call.                                                          *)
Poll(c) ==
    /\ call[c].pc = "poll"
    /\ Alive
    /\ Inventory(c)
    /\ Unambiguous
    /\ \/ /\ Matching = {}
          /\ call' = [call EXCEPT ![c].budget = BudgetAfter(c)]
       \/ \E r \in Matching :
          /\ Identified(c, r)
          /\ \/ /\ runs[r].status = "running"
                /\ call' = [call EXCEPT ![c].budget = BudgetAfter(c)]
             \/ /\ runs[r].status = "success"
                /\ call' = [call EXCEPT ![c].pc = "fetch", ![c].found = r]
    /\ UNCHANGED <<now, runs, listed, intent, result>>

(* The run's only artifact is the receipt of its first attempt.            *)
ReceiptArtifact(r) == runs[r].receipts = {1}

(* validate_probe_receipt still finds the request alive.                   *)
FetchReceipt(c) ==
    /\ call[c].pc = "fetch"
    /\ ReceiptArtifact(call[c].found)
    /\ Alive
    /\ Goto(c, "result")
    /\ UNCHANGED <<now, runs, listed, intent, result>>

RecordResult(c) ==
    LET o == call[c].output IN
    /\ call[c].pc = "result"
    /\ result[o].state = "none"
    /\ result' = [result EXCEPT ![o] = [state |-> "written", run |-> call[c].found]]
    /\ Goto(c, "sync_result")
    /\ UNCHANGED <<now, runs, listed, intent>>

SyncResult(c) ==
    /\ call[c].pc = "sync_result"
    /\ result' = [result EXCEPT ![call[c].output].state = "durable"]
    /\ End(c)
    /\ UNCHANGED <<now, runs, listed, intent>>

(* A requirement is not met, a request fails, time runs out or the process *)
(* dies: the call ends and leaves its files.                               *)
Fail(c) ==
    /\ Active(c)
    /\ End(c)
    /\ UNCHANGED <<now, runs, listed, intent, result>>

(* The host goes down.  A file that was not synced may be lost.            *)
Reboot(files, lost) ==
    [o \in Outputs |-> IF files[o].state # "written" THEN files[o]
                       ELSE IF o \in lost THEN NoFile
                       ELSE [files[o] EXCEPT !.state = "durable"]]

HostCrash(lost) ==
    /\ \E c \in Calls : Active(c)
    /\ call' = [c \in Calls |-> IF Active(c) THEN Gone ELSE call[c]]
    /\ intent' = Reboot(intent, lost)
    /\ result' = Reboot(result, lost)
    /\ UNCHANGED <<now, runs, listed>>

-------------------------------------------------------------------------------
Step(c) ==
    \/ Baseline(c) \/ RecordIntent(c) \/ SyncIntent(c) \/ Dispatch(c)
    \/ Poll(c) \/ FetchReceipt(c) \/ RecordResult(c) \/ SyncResult(c)

GitHub ==
    \/ ForeignRun
    \/ \E r \in DOMAIN runs :
          Show(r) \/ Rerun(r) \/ \E how \in {"success", "failure"} : Conclude(r, how)

Next ==
    \/ Tick \/ GitHub
    \/ \E c \in Calls : Step(c) \/ Fail(c) \/ \E o \in Outputs : Start(c, o)
    \/ \E lost \in SUBSET Outputs : HostCrash(lost)

Spec == Init /\ [][Next]_vars
-------------------------------------------------------------------------------
File == [state : {"none", "written", "durable"}, run : 0..Len(runs)]

Run == [by : Outputs \cup {None}, attempt : 1..MaxAttempts,
        status : {"running", "success", "failure"}, receipts : SUBSET (1..MaxAttempts)]

(* Files, runs and calls are well-formed; a call that is past the          *)
(* dispatch, or about to make it, has its intent on the disk.              *)
TypeOK ==
    /\ now \in 0..Expiry
    /\ runs \in Seq(Run) /\ Len(runs) <= MaxRuns
    /\ listed \subseteq DOMAIN runs
    /\ intent \in [Outputs -> File] /\ result \in [Outputs -> File]
    /\ call \in [Calls -> [pc : {"idle", "baseline", "intent", "sync_intent", "dispatch",
                                 "poll", "fetch", "result", "sync_result", "ended"},
                           output : Outputs \cup {None}, budget : 0..MaxRunRequests,
                           maximum : 0..Len(runs), found : 0..Len(runs)]]

Dispatched(o) == {r \in DOMAIN runs : runs[r].by = o}

(* However often a call is repeated, interrupted or raced on one output    *)
(* path, the probe is dispatched once for it.                              *)
OneDispatchPerOutput ==
    \A o \in Outputs : \A r, s \in Dispatched(o) : r = s

(* Whatever was dispatched can be reconciled: a durable intent says so and *)
(* names an older run.                                                     *)
DispatchIsOnRecord ==
    \A o \in Outputs : \A r \in Dispatched(o) :
       intent[o].state = "durable" /\ intent[o].run < r

(* A result names a run of the probe that is newer than all runs of the    *)
(* baseline and succeeded at its first attempt, and unless other outputs   *)
(* dispatched the probe too, it is the run that this output dispatched.    *)
ResultIsTheProbe ==
    \A o \in Outputs : result[o].state # "none" =>
       LET r == result[o].run
       IN  /\ r \in DOMAIN runs /\ 1 \in runs[r].receipts
           /\ intent[o].state = "durable" /\ intent[o].run < r
           /\ \E other \in Outputs : r \in Dispatched(other)
           /\ (\A other \in Outputs \ {o} : Dispatched(other) = {}) => r \in Dispatched(o)

(* Outputs that dispatched the same probe do not disagree on the run that  *)
(* answered it.                                                            *)
AnswersAgree ==
    \A o, p \in Outputs :
       result[o].state # "none" /\ result[p].state # "none" => result[o].run = result[p].run

(* A call that goes on to dispatch can afford to look for its run, however *)
(* many runs a bounded inventory has.                                      *)
PollIsAffordable ==
    \A c \in Calls : call[c].pc \in {"intent", "sync_intent", "dispatch"} =>
       Pages(MaxRunRecords) <= call[c].budget

-------------------------------------------------------------------------------
Durable(files) == {o \in Outputs : files[o].state = "durable"}

Ledger == INSTANCE DispatchLedger WITH
    Runs <- 1..MaxRuns,
    intended <- Durable(intent),
    dispatched <- {pair \in Outputs \X DOMAIN runs : runs[pair[2]].by = pair[1]},
    answered <- {<<o, result[o].run>> : o \in Durable(result)}

(* Each output is entered before it dispatches, dispatches once, and keeps *)
(* its entry and its answer for good: refinement of DispatchLedger.        *)
KeepsLedger == Ledger!Spec
===============================================================================
