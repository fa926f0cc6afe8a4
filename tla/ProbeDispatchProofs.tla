-------------------------- MODULE ProbeDispatchProofs --------------------------
(***************************************************************************)
(* Proofs about ProbeDispatch, for every set of calls and outputs, every   *)
(* page size, limit and lifetime: one dispatch per output path, on record, *)
(* and results that name the probe's run and agree.                        *)
(***************************************************************************)
EXTENDS ProbeDispatch, FiniteSetTheorems, WellFoundedInduction, TLAPS

CallRecord ==
    [pc : {"idle", "baseline", "intent", "sync_intent", "dispatch",
           "poll", "fetch", "result", "sync_result", "ended"},
     output : Outputs \cup {None}, budget : 0..MaxRunRequests,
     maximum : 0..Len(runs), found : 0..Len(runs)]

LEMMA TypeFacts ==
    ASSUME TypeOK
    PROVE  /\ Len(runs) \in Nat /\ DOMAIN runs = 1..Len(runs)
           /\ \A r \in DOMAIN runs : runs[r] \in Run
           /\ call \in [Calls -> CallRecord]
           /\ MaxRunRequests \in Nat /\ MaxAttempts \in Nat /\ MaxRuns \in Nat /\ Expiry \in Nat
<1>1. runs \in Seq(Run)
  BY DEF TypeOK
<1>2. Len(runs) \in Nat /\ DOMAIN runs = 1..Len(runs) /\ \A r \in DOMAIN runs : runs[r] \in Run
  BY <1>1
<1>3. call \in [Calls -> CallRecord]
  BY DEF TypeOK, CallRecord
<1> QED
  BY <1>2, <1>3, ProbeNumbers

(* Longer lists of runs only widen the types.                              *)
LEMMA TypesGrow ==
    ASSUME Len(runs) \in Nat, Len(runs') \in Nat, Len(runs) <= Len(runs')
    PROVE  File \subseteq File' /\ CallRecord \subseteq CallRecord'
<1>1. 0..Len(runs) \subseteq 0..Len(runs')
  OBVIOUS
<1> QED
  BY <1>1 DEF File, CallRecord

LEMMA LeastNumber ==
    ASSUME NEW T, T \subseteq Nat, T # {}
    PROVE  \E x \in T : \A y \in T : x <= y
<1> DEFINE R == {pair \in Nat \X Nat : pair[1] < pair[2]}
<1>1. IsWellFoundedOn(R, Nat)
  BY NatLessThanWellFounded DEF OpToRel
<1>2. \A x, y \in Nat : <<y, x>> \in R <=> y < x
  OBVIOUS
<1> HIDE DEF R
<1>3. PICK x \in T : \A y \in T : ~ (<<y, x>> \in R)
  BY <1>1, WFMin
<1>4. ASSUME NEW y \in T PROVE x <= y
  <2>1. ~ (y < x) /\ x \in Nat /\ y \in Nat
    BY <1>2, <1>3
  <2> QED
    BY <2>1
<1> QED
  BY <1>4

LEMMA NewestOK ==
    ASSUME NEW n \in Nat, NEW S, S \subseteq 1..n
    PROVE  Newest(S) \in 0..n /\ \A r \in S : r <= Newest(S)
<1> DEFINE Above == {m \in Nat : \A r \in S : r <= m}
<1>1. n \in Above
  OBVIOUS
<1>2. PICK m \in Above : \A k \in Above : m <= k
  BY <1>1, LeastNumber
<1>3. m \in S \cup {0}
  <2> SUFFICES ASSUME m # 0, m \notin S PROVE FALSE
    OBVIOUS
  <2>1. m - 1 \in Above
    <3>1. m - 1 \in Nat /\ \A r \in S : r \in Nat /\ r <= m /\ r # m
      BY <1>2
    <3> QED
      BY <3>1
  <2> QED
    BY <1>2, <2>1
<1>4. m \in 0..n /\ \A r \in S : r <= m
  BY <1>1, <1>2
<1>5. \E k \in S \cup {0} : \A r \in S : r <= k
  BY <1>3, <1>4
<1>6. Newest(S) \in S \cup {0} /\ \A r \in S : r <= Newest(S)
  BY <1>5 DEF Newest
<1>7. S \cup {0} \subseteq 0..n
  OBVIOUS
<1>8. Newest(S) \in 0..n
  BY <1>6, <1>7
<1> QED
  BY <1>6, <1>8

LEMMA DivIsMonotone ==
    \A d \in Nat \ {0} : /\ \A n \in Nat : n \div d \in Nat
                         /\ \A m, n \in Nat : m <= n => m \div d <= n \div d
                         /\ d \div d = 1
OBVIOUS

LEMMA PagesOK ==
    /\ \A n \in Nat : Pages(n) \in Nat /\ Pages(n) >= 1
    /\ \A m, n \in Nat : m <= n => Pages(m) <= Pages(n)
<1>1. PageSize \in Nat \ {0}
  BY ProbeNumbers
<1>2. \A n \in Nat : n \div PageSize \in Nat
  BY <1>1, DivIsMonotone
<1>3. \A m, n \in Nat : m <= n => m \div PageSize <= n \div PageSize
  BY <1>1, DivIsMonotone
<1>4. PageSize \div PageSize = 1
  BY <1>1, DivIsMonotone
<1>5. ASSUME NEW n \in Nat \ {0}
      PROVE /\ Pages(n) = (n + PageSize - 1) \div PageSize
            /\ n + PageSize - 1 \in Nat /\ PageSize <= n + PageSize - 1
  <2>1. Pages(n) = (n + PageSize - 1) \div PageSize
    BY <1>5 DEF Pages
  <2>2. n + PageSize - 1 \in Nat /\ PageSize <= n + PageSize - 1
    BY <1>1, <1>5
  <2> QED
    BY <2>1, <2>2
<1>6. \A n \in Nat : Pages(n) \in Nat /\ Pages(n) >= 1
  <2> TAKE n \in Nat
  <2>1. CASE n = 0
    BY <2>1 DEF Pages
  <2>2. CASE n # 0
    BY <1>1, <1>2, <1>3, <1>4, <1>5, <2>2
  <2> QED
    BY <2>1, <2>2
<1>7. ASSUME NEW m \in Nat, NEW n \in Nat, m <= n PROVE Pages(m) <= Pages(n)
  <2>1. CASE m = 0
    <3>1. Pages(m) = 1
      BY <2>1 DEF Pages
    <3> QED
      BY <1>6, <3>1
  <2>2. CASE m # 0
    <3>1. m + PageSize - 1 <= n + PageSize - 1
      BY <1>1, <1>7
    <3> QED
      BY <1>3, <1>5, <1>7, <2>2, <3>1
  <2> QED
    BY <2>1, <2>2
<1> QED
  BY <1>6, <1>7

(* An inventory leaves a budget.                                           *)
LEMMA BudgetOK ==
    ASSUME TypeOK, NEW c \in Calls, Inventory(c)
    PROVE  /\ BudgetAfter(c) \in 0..MaxRunRequests
           /\ IsFiniteSet(listed) /\ Cardinality(listed) \in 0..MaxRunRecords
<1>1. listed \subseteq 1..Len(runs) /\ Len(runs) \in Nat
  BY TypeFacts DEF TypeOK
<1>2. IsFiniteSet(1..Len(runs))
  BY <1>1, FS_Interval
<1>3. IsFiniteSet(listed)
  BY <1>1, <1>2, FS_Subset
<1>4. Cardinality(listed) \in Nat
  BY <1>3, FS_CardinalityType
<1>5. Pages(Cardinality(listed)) \in Nat
  BY <1>4, PagesOK
<1>6. call[c].budget \in 0..MaxRunRequests /\ MaxRunRequests \in Nat /\ MaxRunRecords \in Nat
  BY TypeFacts, ProbeNumbers DEF CallRecord
<1>7. Pages(Cardinality(listed)) <= call[c].budget /\ Cardinality(listed) <= MaxRunRecords
  BY DEF Inventory
<1> QED
  BY <1>3, <1>4, <1>5, <1>6, <1>7 DEF BudgetAfter

LEMMA AtMostOne ==
    ASSUME NEW S, IsFiniteSet(S), Cardinality(S) <= 1, NEW x \in S, NEW y \in S
    PROVE  x = y
<1>1. Cardinality(S) \in Nat /\ IsFiniteSet(S \ {x})
  BY FS_CardinalityType, FS_RemoveElement
<1>2. Cardinality(S \ {x}) = Cardinality(S) - 1 /\ Cardinality(S \ {x}) \in Nat
  BY <1>1, FS_CardinalityType, FS_RemoveElement
<1>3. S \ {x} = {}
  BY <1>1, <1>2, FS_EmptySet
<1> QED
  BY <1>3

-------------------------------------------------------------------------------
(* Types.                                                                  *)
LEMMA InitType == Init => TypeOK
<1> SUFFICES ASSUME Init PROVE TypeOK
  OBVIOUS
<1>1. runs = << >> /\ Len(runs) = 0 /\ now = 0 /\ listed = {}
  BY DEF Init
<1>2. NoFile \in File
  BY <1>1 DEF NoFile, File
<1>3. Fresh \in CallRecord
  BY <1>1, ProbeNumbers DEF Fresh, CallRecord
<1>4. /\ intent \in [Outputs -> File] /\ result \in [Outputs -> File]
      /\ call \in [Calls -> CallRecord]
  BY <1>2, <1>3 DEF Init
<1>5. now \in 0..Expiry /\ runs \in Seq(Run) /\ Len(runs) <= MaxRuns /\ listed \subseteq DOMAIN runs
  BY <1>1, ProbeNumbers
<1> QED
  BY <1>4, <1>5 DEF TypeOK, CallRecord

(* A list of runs that does not shrink leaves files and calls well-formed. *)
LEMMA RunsType ==
    ASSUME TypeOK, runs' \in Seq(Run), Len(runs') <= MaxRuns, Len(runs) <= Len(runs'),
           listed' \subseteq DOMAIN runs', intent' = intent, result' = result,
           now' \in 0..Expiry, call' \in [Calls -> CallRecord']
    PROVE  TypeOK'
<1>1. Len(runs) \in Nat /\ Len(runs') \in Nat
  BY TypeFacts
<1>2. File \subseteq File'
  BY <1>1, TypesGrow
<1>3. intent' \in [Outputs -> File'] /\ result' \in [Outputs -> File']
  BY <1>2 DEF TypeOK
<1>4. Run' = Run
  BY DEF Run
<1> QED
  BY <1>3, <1>4 DEF TypeOK, CallRecord

(* A call that changes itself and its files.                               *)
LEMMA CallType ==
    ASSUME TypeOK, UNCHANGED <<now, runs, listed>>,
           intent' \in [Outputs -> File], result' \in [Outputs -> File],
           call' \in [Calls -> CallRecord]
    PROVE  TypeOK'
<1>1. CallRecord' = CallRecord /\ File' = File /\ Run' = Run
  BY DEF CallRecord, File, Run
<1> QED
  BY <1>1 DEF TypeOK, CallRecord

LEMMA CreateRunType ==
    ASSUME TypeOK, NEW by \in Outputs \cup {None}, CreateRun(by)
    PROVE  /\ runs' \in Seq(Run) /\ Len(runs') <= MaxRuns /\ Len(runs') = Len(runs) + 1
           /\ Len(runs) \in Nat /\ DOMAIN runs = 1..Len(runs)
           /\ DOMAIN runs' = 1..(Len(runs) + 1)
           /\ \A r \in DOMAIN runs : runs'[r] = runs[r]
           /\ runs'[Len(runs) + 1].by = by
<1> DEFINE new == [by |-> by, attempt |-> 1, status |-> "running", receipts |-> {}]
<1>1. Len(runs) < MaxRuns /\ runs' = Append(runs, new)
  BY DEF CreateRun
<1>2. new \in Run /\ new.by = by
  BY ProbeNumbers DEF Run
<1>3. runs \in Seq(Run)
  BY DEF TypeOK
<1> HIDE DEF new
<1>4. /\ runs' \in Seq(Run) /\ Len(runs') = Len(runs) + 1 /\ Len(runs) \in Nat
      /\ DOMAIN runs = 1..Len(runs) /\ DOMAIN runs' = 1..(Len(runs) + 1)
      /\ \A r \in DOMAIN runs : runs'[r] = runs[r]
      /\ runs'[Len(runs) + 1] = new
  BY <1>1, <1>2, <1>3
<1> QED
  BY <1>1, <1>2, <1>4, ProbeNumbers

(* A run that is concluded or run again.                                   *)
LEMMA RunType ==
    ASSUME TypeOK, NEW r \in DOMAIN runs, Rerun(r) \/ \E how \in {"success", "failure"} : Conclude(r, how)
    PROVE  /\ runs' \in Seq(Run) /\ Len(runs') = Len(runs) /\ DOMAIN runs' = DOMAIN runs
           /\ \A s \in DOMAIN runs : /\ runs'[s].by = runs[s].by
                                    /\ runs[s].receipts \subseteq runs'[s].receipts
           /\ UNCHANGED <<now, listed, intent, result, call>>
<1>1. /\ runs[r].by \in Outputs \cup {None} /\ runs[r].attempt \in 1..MaxAttempts
      /\ runs[r].status \in {"running", "success", "failure"}
      /\ runs[r].receipts \in SUBSET (1..MaxAttempts) /\ runs[r] \in Run
      /\ DOMAIN runs = 1..Len(runs) /\ runs \in Seq(Run)
  BY TypeFacts DEF Run, TypeOK
<1>2. PICK new \in Run : /\ runs' = [runs EXCEPT ![r] = new]
                         /\ new.by = runs[r].by /\ runs[r].receipts \subseteq new.receipts
  <2>1. CASE Rerun(r)
    <3> DEFINE new == [runs[r] EXCEPT !.attempt = @ + 1, !.status = "running"]
    <3>1. runs[r].attempt + 1 \in 1..MaxAttempts
      BY <1>1, <2>1, ProbeNumbers DEF Rerun
    <3>2. new \in Run /\ new.by = runs[r].by /\ new.receipts = runs[r].receipts
      BY <1>1, <3>1 DEF Run
    <3>3. runs' = [runs EXCEPT ![r] = new]
      BY <2>1 DEF Rerun
    <3> QED
      BY <3>2, <3>3
  <2>2. ASSUME NEW how \in {"success", "failure"}, Conclude(r, how)
        PROVE \E new \in Run : /\ runs' = [runs EXCEPT ![r] = new]
                               /\ new.by = runs[r].by /\ runs[r].receipts \subseteq new.receipts
    <3> DEFINE receipts == IF how = "success" THEN runs[r].receipts \cup {runs[r].attempt}
                           ELSE runs[r].receipts
               new == [runs[r] EXCEPT !.status = how, !.receipts = receipts]
    <3>1. receipts \in SUBSET (1..MaxAttempts) /\ runs[r].receipts \subseteq receipts
      BY <1>1
    <3> HIDE DEF receipts
    <3>2. new \in Run /\ new.by = runs[r].by /\ new.receipts = receipts
      BY <1>1, <3>1 DEF Run
    <3>3. runs' = [runs EXCEPT ![r] = new]
      BY <2>2 DEF Conclude, receipts
    <3> QED
      BY <3>1, <3>2, <3>3
  <2> QED
    BY <2>1, <2>2
<1>3. /\ runs' \in Seq(Run) /\ Len(runs') = Len(runs) /\ DOMAIN runs' = DOMAIN runs
      /\ runs'[r] = new /\ \A s \in DOMAIN runs \ {r} : runs'[s] = runs[s]
  BY <1>1, <1>2
<1>4. UNCHANGED <<now, listed, intent, result, call>>
  BY DEF Rerun, Conclude
<1> QED
  BY <1>2, <1>3, <1>4

LEMMA CallFields ==
    ASSUME TypeOK, NEW c \in Calls
    PROVE  /\ call[c] \in CallRecord /\ call[c].output \in Outputs \cup {None}
           /\ call[c].budget \in 0..MaxRunRequests
           /\ call[c].maximum \in 0..Len(runs) /\ call[c].found \in 0..Len(runs)
           /\ DOMAIN call = Calls /\ Len(runs) \in Nat
BY TypeFacts DEF CallRecord

LEMMA GoneType == ASSUME TypeOK PROVE Gone \in CallRecord
BY TypeFacts DEF Gone, Fresh, CallRecord

LEMMA GotoType ==
    ASSUME TypeOK, NEW c \in Calls,
           NEW pc \in {"intent", "sync_intent", "dispatch", "poll", "fetch", "result", "sync_result"}
    PROVE  [call EXCEPT ![c].pc = pc] \in [Calls -> CallRecord]
<1>1. [call[c] EXCEPT !.pc = pc] \in CallRecord
  BY CallFields DEF CallRecord
<1> QED
  BY <1>1, TypeFacts

LEMMA EndType == ASSUME TypeOK, NEW c \in Calls PROVE [call EXCEPT ![c] = Gone] \in [Calls -> CallRecord]
BY GoneType, TypeFacts

LEMMA BaselineMaximum ==
    ASSUME TypeOK PROVE Newest(listed) \in 0..Len(runs) /\ \A r \in listed : r <= Newest(listed)
BY TypeFacts, NewestOK DEF TypeOK

(* Calls that leave the runs alone.                                        *)
LEMMA StepType ==
    ASSUME TypeOK, NEW c \in Calls,
           (Step(c) /\ ~ Dispatch(c)) \/ Fail(c) \/ \E o \in Outputs : Start(c, o)
    PROVE  TypeOK'
<1> USE DEF Goto, End
<1>1. intent \in [Outputs -> File] /\ result \in [Outputs -> File] /\ call \in [Calls -> CallRecord]
  BY TypeFacts DEF TypeOK
<1>2. ASSUME NEW o \in Outputs, Start(c, o) PROVE TypeOK'
  <2> DEFINE new == [call[c] EXCEPT !.pc = "baseline", !.output = o, !.budget = MaxRunRequests]
  <2>1. new \in CallRecord
    <3>1. MaxRunRequests \in 0..MaxRunRequests
      BY TypeFacts
    <3> QED
      BY <3>1, CallFields DEF CallRecord
  <2>2. call' = [call EXCEPT ![c] = new]
    BY <1>2 DEF Start
  <2> HIDE DEF new
  <2>3. UNCHANGED <<now, runs, listed, intent, result>>
    BY <1>2 DEF Start
  <2>4. call' \in [Calls -> CallRecord]
    BY <1>1, <2>1, <2>2
  <2> QED
    BY <1>1, <2>3, <2>4, CallType
<1>3. CASE Baseline(c)
  <2> DEFINE new == [call[c] EXCEPT !.pc = "intent", !.budget = BudgetAfter(c),
                                    !.maximum = Newest(listed)]
  <2>1. BudgetAfter(c) \in 0..MaxRunRequests /\ Newest(listed) \in 0..Len(runs)
    BY <1>3, BudgetOK, BaselineMaximum DEF Baseline
  <2>2. new \in CallRecord
    BY <2>1, CallFields DEF CallRecord
  <2>3. call' = [call EXCEPT ![c] = new]
    BY <1>3 DEF Baseline
  <2> HIDE DEF new
  <2> QED
    BY <1>1, <1>3, <2>2, <2>3, CallType DEF Baseline
<1>4. CASE RecordIntent(c)
  <2>1. [state |-> "written", run |-> call[c].maximum] \in File
    BY CallFields DEF File
  <2>2. intent' \in [Outputs -> File]
    BY <1>1, <1>4, <2>1 DEF RecordIntent
  <2>3. call' \in [Calls -> CallRecord]
    BY <1>4, GotoType DEF RecordIntent
  <2> QED
    BY <1>1, <1>4, <2>2, <2>3, CallType DEF RecordIntent
<1>5. CASE SyncIntent(c)
  <2>1. \A o \in Outputs : [intent[o] EXCEPT !.state = "durable"] \in File
    BY <1>1 DEF File
  <2>2. intent' \in [Outputs -> File]
    BY <1>1, <1>5, <2>1 DEF SyncIntent
  <2>3. call' \in [Calls -> CallRecord]
    BY <1>5, GotoType DEF SyncIntent
  <2> QED
    BY <1>1, <1>5, <2>2, <2>3, CallType DEF SyncIntent
<1>6. CASE Poll(c)
  <2>1. BudgetAfter(c) \in 0..MaxRunRequests
    BY <1>6, BudgetOK DEF Poll
  <2>2. \E new \in CallRecord : call' = [call EXCEPT ![c] = new]
    <3>1. ASSUME call' = [call EXCEPT ![c].budget = BudgetAfter(c)]
          PROVE \E new \in CallRecord : call' = [call EXCEPT ![c] = new]
      <4>1. [call[c] EXCEPT !.budget = BudgetAfter(c)] \in CallRecord
        BY <2>1, CallFields DEF CallRecord
      <4> QED
        BY <3>1, <4>1
    <3>2. ASSUME NEW r \in Matching, call' = [call EXCEPT ![c].pc = "fetch", ![c].found = r]
          PROVE \E new \in CallRecord : call' = [call EXCEPT ![c] = new]
      <4>1. r \in 0..Len(runs)
        BY TypeFacts DEF Matching, TypeOK
      <4>2. [call[c] EXCEPT !.pc = "fetch", !.found = r] \in CallRecord
        BY <4>1, CallFields DEF CallRecord
      <4> QED
        BY <3>2, <4>2
    <3> QED
      BY <1>6, <3>1, <3>2 DEF Poll
  <2> QED
    BY <1>1, <1>6, <2>2, CallType DEF Poll
<1>7. CASE FetchReceipt(c)
  <2>1. call' \in [Calls -> CallRecord]
    BY <1>7, GotoType DEF FetchReceipt
  <2> QED
    BY <1>1, <1>7, <2>1, CallType DEF FetchReceipt
<1>8. CASE RecordResult(c)
  <2>1. [state |-> "written", run |-> call[c].found] \in File
    BY CallFields DEF File
  <2>2. result' \in [Outputs -> File]
    BY <1>1, <1>8, <2>1 DEF RecordResult
  <2>3. call' \in [Calls -> CallRecord]
    BY <1>8, GotoType DEF RecordResult
  <2> QED
    BY <1>1, <1>8, <2>2, <2>3, CallType DEF RecordResult
<1>9. CASE SyncResult(c)
  <2>1. \A o \in Outputs : [result[o] EXCEPT !.state = "durable"] \in File
    BY <1>1 DEF File
  <2>2. result' \in [Outputs -> File]
    BY <1>1, <1>9, <2>1 DEF SyncResult
  <2>3. call' \in [Calls -> CallRecord]
    BY <1>9, EndType DEF SyncResult
  <2> QED
    BY <1>1, <1>9, <2>2, <2>3, CallType DEF SyncResult
<1>10. CASE Fail(c)
  <2>1. call' \in [Calls -> CallRecord]
    BY <1>10, EndType DEF Fail
  <2> QED
    BY <1>1, <1>10, <2>1, CallType DEF Fail
<1> QED
  BY <1>2, <1>3, <1>4, <1>5, <1>6, <1>7, <1>8, <1>9, <1>10 DEF Step

LEMMA DispatchType == ASSUME TypeOK, NEW c \in Calls, Dispatch(c), call[c].output \in Outputs PROVE TypeOK'
<1>1. /\ runs' \in Seq(Run) /\ Len(runs') <= MaxRuns /\ Len(runs) <= Len(runs')
      /\ Len(runs') \in Nat /\ Len(runs) \in Nat /\ DOMAIN runs \subseteq DOMAIN runs'
  BY CreateRunType DEF Dispatch
<1>2. call' \in [Calls -> CallRecord]
  <2>1. CASE Goto(c, "poll")
    BY <2>1, GotoType DEF Goto
  <2>2. CASE End(c)
    BY <2>2, EndType DEF End
  <2> QED
    BY <2>1, <2>2 DEF Dispatch
<1>3. CallRecord \subseteq CallRecord'
  BY <1>1, TypesGrow
<1>4. UNCHANGED <<now, listed, intent, result>>
  BY DEF Dispatch
<1> QED
  BY <1>1, <1>2, <1>3, <1>4, RunsType DEF TypeOK

LEMMA CrashType == ASSUME TypeOK, NEW lost \in SUBSET Outputs, HostCrash(lost) PROVE TypeOK'
<1>1. ASSUME NEW files \in [Outputs -> File] PROVE Reboot(files, lost) \in [Outputs -> File]
  <2>1. NoFile \in File
    BY TypeFacts DEF NoFile, File
  <2>2. \A o \in Outputs : files[o] \in File /\ [files[o] EXCEPT !.state = "durable"] \in File
    BY DEF File
  <2> QED
    BY <2>1, <2>2 DEF Reboot
<1>2. intent' \in [Outputs -> File] /\ result' \in [Outputs -> File]
  BY <1>1 DEF HostCrash, TypeOK
<1>3. call' \in [Calls -> CallRecord]
  BY GoneType, TypeFacts DEF HostCrash
<1> QED
  BY <1>2, <1>3, CallType DEF HostCrash

LEMMA GitHubType == ASSUME TypeOK, Tick \/ GitHub PROVE TypeOK'
<1>1. call \in [Calls -> CallRecord] /\ runs \in Seq(Run) /\ Len(runs) \in Nat /\ Len(runs) <= MaxRuns
  BY TypeFacts DEF TypeOK
<1>2. CASE Tick
  <2>1. now' \in 0..Expiry /\ UNCHANGED <<runs, listed, intent, result, call>>
    BY <1>2, ProbeNumbers DEF Tick, TypeOK
  <2>2. CallRecord' = CallRecord
    BY <2>1 DEF CallRecord
  <2> QED
    BY <1>1, <2>1, <2>2, RunsType DEF TypeOK
<1>3. CASE ForeignRun
  <2>1. /\ runs' \in Seq(Run) /\ Len(runs') <= MaxRuns /\ Len(runs) <= Len(runs')
        /\ Len(runs') \in Nat /\ DOMAIN runs \subseteq DOMAIN runs'
    BY <1>3, CreateRunType DEF ForeignRun
  <2>2. UNCHANGED <<now, listed, intent, result, call>>
    BY <1>3 DEF ForeignRun
  <2>3. CallRecord \subseteq CallRecord'
    BY <1>1, <2>1, TypesGrow
  <2> QED
    BY <1>1, <2>1, <2>2, <2>3, RunsType DEF TypeOK
<1>4. ASSUME NEW r \in DOMAIN runs, Show(r) PROVE TypeOK'
  <2>1. listed' \subseteq DOMAIN runs' /\ UNCHANGED <<now, runs, intent, result, call>>
    BY <1>4 DEF Show, TypeOK
  <2>2. CallRecord' = CallRecord
    BY <2>1 DEF CallRecord
  <2> QED
    BY <1>1, <2>1, <2>2, RunsType DEF TypeOK
<1>5. ASSUME NEW r \in DOMAIN runs, Rerun(r) \/ \E how \in {"success", "failure"} : Conclude(r, how)
      PROVE TypeOK'
  <2>1. /\ runs' \in Seq(Run) /\ Len(runs') = Len(runs) /\ DOMAIN runs' = DOMAIN runs
        /\ UNCHANGED <<now, listed, intent, result, call>>
    BY <1>5, RunType
  <2>2. CallRecord' = CallRecord
    BY <2>1 DEF CallRecord
  <2> QED
    BY <1>1, <2>1, <2>2, RunsType DEF TypeOK
<1> QED
  BY <1>2, <1>3, <1>4, <1>5 DEF GitHub

-------------------------------------------------------------------------------
(* A call that has written its intent owns the output until it ends, and   *)
(* what it found is the probe's.                                           *)
Past == {"sync_intent", "dispatch", "poll", "fetch", "result", "sync_result"}

Answering == {"fetch", "result", "sync_result"}

CallOK(c) ==
    /\ Active(c) => call[c].output \in Outputs
    /\ call[c].pc \in Past => /\ intent[call[c].output].state # "none"
                             /\ intent[call[c].output].run = call[c].maximum
    /\ call[c].pc \in Past \ {"sync_intent"} => intent[call[c].output].state = "durable"
    /\ call[c].pc \in {"sync_intent", "dispatch"} => Dispatched(call[c].output) = {}
    /\ call[c].pc \in Answering => call[c].found \in Matching /\ call[c].maximum < call[c].found
    /\ call[c].pc \in {"result", "sync_result"} => 1 \in runs[call[c].found].receipts
    /\ call[c].pc = "sync_result" => /\ result[call[c].output].state # "none"
                                     /\ result[call[c].output].run = call[c].found

Alone ==
    \A c, d \in Calls :
       (call[c].pc \in Past /\ call[d].pc \in Past /\ call[c].output = call[d].output) => c = d

ResultOK(o) ==
    result[o].state # "none" =>
       /\ result[o].run \in Matching /\ 1 \in runs[result[o].run].receipts
       /\ intent[o].state = "durable" /\ intent[o].run < result[o].run

Answers == {call[c].found : c \in {d \in Calls : call[d].pc \in Answering}}
           \cup {result[o].run : o \in {p \in Outputs : result[p].state # "none"}}

ProbeInv ==
    /\ TypeOK
    /\ \A c \in Calls : CallOK(c)
    /\ Alone
    /\ OneDispatchPerOutput /\ DispatchIsOnRecord
    /\ \A o \in Outputs : ResultOK(o)
    /\ \A x, y \in Answers : x = y

LEMMA Safety == ProbeInv => OneDispatchPerOutput /\ DispatchIsOnRecord /\ ResultIsTheProbe /\ AnswersAgree
<1> SUFFICES ASSUME ProbeInv PROVE ResultIsTheProbe /\ AnswersAgree
  BY DEF ProbeInv
<1>1. ResultIsTheProbe
  <2> SUFFICES ASSUME NEW o \in Outputs, result[o].state # "none"
      PROVE /\ result[o].run \in DOMAIN runs /\ 1 \in runs[result[o].run].receipts
            /\ intent[o].state = "durable" /\ intent[o].run < result[o].run
            /\ \E other \in Outputs : result[o].run \in Dispatched(other)
            /\ (\A other \in Outputs \ {o} : Dispatched(other) = {}) => result[o].run \in Dispatched(o)
    BY DEF ResultIsTheProbe
  <2>1. /\ result[o].run \in Matching /\ 1 \in runs[result[o].run].receipts
        /\ intent[o].state = "durable" /\ intent[o].run < result[o].run
    BY DEF ProbeInv, ResultOK
  <2>2. result[o].run \in DOMAIN runs /\ runs[result[o].run].by # None
    BY <2>1 DEF ProbeInv, TypeOK, Matching
  <2>3. runs[result[o].run].by \in Outputs
    <3>1. runs[result[o].run] \in Run
      BY <2>2, TypeFacts DEF ProbeInv
    <3> QED
      BY <2>2, <3>1 DEF Run
  <2> QED
    BY <2>1, <2>2, <2>3 DEF Dispatched
<1>2. AnswersAgree
  BY DEF AnswersAgree, ProbeInv, Answers
<1> QED
  BY <1>1, <1>2

LEMMA InitProbe == Init => ProbeInv
<1> SUFFICES ASSUME Init PROVE ProbeInv
  OBVIOUS
<1>1. \A c \in Calls : call[c].pc = "idle"
  BY DEF Init, Fresh
<1>2. \A o \in Outputs : result[o].state = "none"
  BY DEF Init, NoFile
<1>3. \A o \in Outputs : Dispatched(o) = {}
  BY DEF Init, Dispatched
<1>4. Answers = {}
  BY <1>1, <1>2 DEF Answers, Answering
<1>5. (\A c \in Calls : CallOK(c)) /\ Alone
  <2>1. \A c \in Calls : /\ ~ Active(c) /\ call[c].pc \notin Past /\ call[c].pc \notin Answering
                         /\ call[c].pc \notin {"dispatch", "result", "sync_result"}
    BY <1>1 DEF Past, Answering, Active
  <2>2. Alone
    BY <2>1 DEF Alone
  <2>3. \A c \in Calls : CallOK(c)
    BY <1>1, <2>1 DEF CallOK
  <2> QED
    BY <2>2, <2>3
<1>6. \A o \in Outputs : ResultOK(o)
  BY <1>2 DEF ResultOK
<1> QED
  BY <1>3, <1>4, <1>5, <1>6, InitType DEF ProbeInv, OneDispatchPerOutput, DispatchIsOnRecord

(* More runs, none of which is the probe's, and more receipts: nothing     *)
(* else changes.                                                           *)
LEMMA GrowProbe ==
    ASSUME ProbeInv, TypeOK', UNCHANGED <<intent, result, call>>,
           DOMAIN runs \subseteq DOMAIN runs', listed \subseteq listed',
           \A r \in DOMAIN runs : /\ runs'[r].by = runs[r].by
                                /\ runs[r].receipts \subseteq runs'[r].receipts,
           \A r \in DOMAIN runs' \ DOMAIN runs : runs'[r].by = None
    PROVE  ProbeInv'
<1>1. \A o \in Outputs : Dispatched(o)' = Dispatched(o)
  BY ProbeNone DEF Dispatched
<1>2. Matching \subseteq Matching' /\ Matching \subseteq DOMAIN runs
  BY DEF Matching, ProbeInv, TypeOK
<1>3. \A c \in Calls : CallOK(c)'
  BY <1>1, <1>2 DEF ProbeInv, CallOK, Active, Past, Answering
<1>4. Alone' /\ Answers' = Answers
  BY DEF ProbeInv, Alone, Answers
<1>5. OneDispatchPerOutput' /\ DispatchIsOnRecord'
  BY <1>1 DEF ProbeInv, OneDispatchPerOutput, DispatchIsOnRecord
<1>6. \A o \in Outputs : ResultOK(o)'
  BY <1>2 DEF ProbeInv, ResultOK
<1> QED
  BY <1>3, <1>4, <1>5, <1>6 DEF ProbeInv

LEMMA GitHubProbe == ASSUME ProbeInv, Tick \/ GitHub PROVE ProbeInv'
<1>1. TypeOK /\ TypeOK'
  BY GitHubType DEF ProbeInv
<1>2. CASE Tick
  BY <1>1, <1>2, GrowProbe DEF Tick
<1>3. CASE ForeignRun
  <2>1. /\ DOMAIN runs \subseteq DOMAIN runs' /\ \A r \in DOMAIN runs : runs'[r] = runs[r]
        /\ \A r \in DOMAIN runs' \ DOMAIN runs : runs'[r].by = None
    BY <1>1, <1>3, CreateRunType DEF ForeignRun
  <2> QED
    BY <1>1, <1>3, <2>1, GrowProbe DEF ForeignRun
<1>4. ASSUME NEW r \in DOMAIN runs, Show(r) PROVE ProbeInv'
  BY <1>1, <1>4, GrowProbe DEF Show
<1>5. ASSUME NEW r \in DOMAIN runs, Rerun(r) \/ \E how \in {"success", "failure"} : Conclude(r, how)
      PROVE ProbeInv'
  BY <1>1, <1>5, RunType, GrowProbe
<1> QED
  BY <1>2, <1>3, <1>4, <1>5 DEF GitHub

(* A step of call c that leaves GitHub alone: what has to be shown of c    *)
(* and of its output, as the other calls and outputs keep theirs.          *)
LEMMA CallProbe ==
    ASSUME ProbeInv, TypeOK', UNCHANGED <<runs, listed>>, NEW c \in Calls,
           NEW o \in Outputs,
           \A d \in Calls \ {c} : call'[d] = call[d],
           \A p \in Outputs \ {o} : intent'[p] = intent[p] /\ result'[p] = result[p],
           intent'[o] = intent[o] \/ (call[c].output = o /\ call[c].pc = "intent" /\ intent[o].state = "none")
              \/ (call[c].output = o /\ call[c].pc \in Past),
           result'[o] = result[o] \/ (call[c].output = o /\ call[c].pc \in Past),
           CallOK(c)', ResultOK(o)',
           call'[c].pc \in Past =>
              \/ (call[c].pc \in Past /\ call'[c].output = call[c].output)
              \/ (call'[c].output = o /\ intent[o].state = "none"),
           intent[o].state = "durable" => intent'[o] = intent[o],
           \A x, y \in Answers' : x = y
    PROVE  ProbeInv'
<1>1. Matching' = Matching /\ \A p \in Outputs : Dispatched(p)' = Dispatched(p)
  BY DEF Matching, Dispatched
<1>2. ASSUME NEW d \in Calls \ {c}, call[d].pc \in Past, call[c].pc \in Past
      PROVE call[d].output # call[c].output
  BY <1>2 DEF ProbeInv, Alone
<1>3. ASSUME NEW d \in Calls \ {c} PROVE CallOK(d)'
  <2>1. CallOK(d) /\ call'[d] = call[d]
    BY DEF ProbeInv
  <2>2. call[d].pc \in Past => /\ call[d].output \in Outputs /\ intent[call[d].output].state # "none"
    BY <2>1 DEF CallOK, Active, Past
  <2>3. call[d].pc \in Past => /\ intent'[call[d].output] = intent[call[d].output]
                             /\ result'[call[d].output] = result[call[d].output]
    BY <1>2, <2>2
  <2> QED
    BY <1>1, <2>1, <2>2, <2>3 DEF CallOK, Active, Past, Answering
<1>4. Alone'
  <2> SUFFICES ASSUME NEW d \in Calls \ {c}, call'[c].pc \in Past, call'[d].pc \in Past,
                      call'[c].output = call'[d].output
      PROVE FALSE
    BY DEF Alone, ProbeInv
  <2>1. call[d].pc \in Past /\ call[d].output = call'[d].output
    OBVIOUS
  <2>2. intent[call[d].output].state # "none"
    BY <2>1 DEF ProbeInv, CallOK
  <2> QED
    BY <1>2, <2>1, <2>2
<1>5. OneDispatchPerOutput'
  BY <1>1 DEF ProbeInv, OneDispatchPerOutput
<1>6. DispatchIsOnRecord'
  <2> SUFFICES ASSUME NEW p \in Outputs, NEW r \in Dispatched(p)
      PROVE intent'[p].state = "durable" /\ intent'[p].run < r
    BY <1>1 DEF DispatchIsOnRecord
  <2>1. intent[p].state = "durable" /\ intent[p].run < r
    BY DEF ProbeInv, DispatchIsOnRecord
  <2> QED
    BY <2>1
<1>7. \A p \in Outputs : ResultOK(p)'
  <2>1. ASSUME NEW p \in Outputs \ {o} PROVE ResultOK(p)'
    BY <1>1 DEF ProbeInv, ResultOK
  <2> QED
    BY <2>1
<1> QED
  BY <1>3, <1>4, <1>5, <1>6, <1>7 DEF ProbeInv

LEMMA AnswersKept ==
    ASSUME NEW c \in Calls, \A d \in Calls \ {c} : call'[d] = call[d],
           call'[c].pc \in Answering => call'[c].found \in Answers,
           \A p \in Outputs : result'[p].state # "none" =>
              \/ (result[p].state # "none" /\ result'[p].run = result[p].run)
              \/ result'[p].run \in Answers
    PROVE  Answers' \subseteq Answers
<1>1. ASSUME NEW d \in Calls, call'[d].pc \in Answering PROVE call'[d].found \in Answers
  <2>1. CASE d = c
    BY <1>1, <2>1
  <2>2. CASE d # c
    BY <1>1, <2>2 DEF Answers
  <2> QED
    BY <2>1, <2>2
<1>2. ASSUME NEW p \in Outputs, result'[p].state # "none" PROVE result'[p].run \in Answers
  BY <1>2 DEF Answers
<1> QED
  BY <1>1, <1>2 DEF Answers

(* All answers known so far are runs of the probe that an inventory shows. *)
LEMMA AnswersMatch == ASSUME ProbeInv PROVE Answers \subseteq Matching
<1>1. \A c \in Calls : call[c].pc \in Answering => call[c].found \in Matching
  BY DEF ProbeInv, CallOK
<1>2. \A o \in Outputs : result[o].state # "none" => result[o].run \in Matching
  BY DEF ProbeInv, ResultOK
<1> QED
  BY <1>1, <1>2 DEF Answers

(* One call only moves on, or ends.                                        *)
LEMMA MoveProbe ==
    ASSUME ProbeInv, TypeOK', UNCHANGED <<runs, listed, intent, result>>, NEW c \in Calls,
           \A d \in Calls \ {c} : call'[d] = call[d], CallOK(c)',
           call'[c].pc \in Past => call[c].pc \in Past /\ call'[c].output = call[c].output,
           Answers' \subseteq Answers \/ \A x, y \in Answers' : x = y
    PROVE  ProbeInv'
<1>1. \A x, y \in Answers' : x = y
  BY DEF ProbeInv
<1>2. CASE Outputs = {}
  <2>1. Alone'
    <3>1. \A d \in Calls : call[d].pc \notin Past
      BY <1>2 DEF ProbeInv, CallOK, Active, Past
    <3> QED
      BY <3>1 DEF Alone
  <2>2. \A d \in Calls : CallOK(d)'
    <3>1. \A d \in Calls \ {c} : CallOK(d)'
      BY DEF ProbeInv, CallOK, Active, Dispatched, Matching
    <3> QED
      BY <3>1
  <2> QED
    BY <1>1, <1>2, <2>1, <2>2 DEF ProbeInv, OneDispatchPerOutput, DispatchIsOnRecord
<1>3. ASSUME NEW o \in Outputs PROVE ProbeInv'
  <2>1. ResultOK(o)'
    BY DEF ProbeInv, ResultOK, Matching
  <2> QED
    BY <1>1, <2>1, CallProbe
<1> QED
  BY <1>2, <1>3

LEMMA StepProbe ==
    ASSUME ProbeInv, NEW c \in Calls,
           (Step(c) /\ ~ Dispatch(c)) \/ Fail(c) \/ \E o \in Outputs : Start(c, o)
    PROVE  ProbeInv'
<1> USE DEF Goto, End
<1>1. TypeOK /\ TypeOK' /\ DOMAIN call = Calls
  BY StepType, TypeFacts DEF ProbeInv
<1>2. CallOK(c) /\ \A x, y \in Answers : x = y
  BY DEF ProbeInv
<1>3. call[c].pc \in Answering => call[c].found \in Answers
  BY DEF Answers
<1>4. UNCHANGED <<runs, listed>> => Matching' = Matching /\ \A p : Dispatched(p)' = Dispatched(p)
  BY DEF Matching, Dispatched
<1>5. ASSUME NEW o \in Outputs, Start(c, o) PROVE ProbeInv'
  <2>1. /\ call'[c].pc = "baseline" /\ call'[c].output = o
        /\ \A d \in Calls \ {c} : call'[d] = call[d]
        /\ UNCHANGED <<runs, listed, intent, result>>
    BY <1>1, <1>5, CallFields DEF Start, CallRecord
  <2>2. CallOK(c)'
    BY <2>1 DEF CallOK, Past, Answering
  <2>3. Answers' \subseteq Answers
    BY <2>1, AnswersKept DEF Answering
  <2> QED
    BY <1>1, <2>1, <2>2, <2>3, MoveProbe DEF Past
<1>6. CASE Baseline(c)
  <2>1. /\ call'[c].pc = "intent" /\ call'[c].output = call[c].output
        /\ \A d \in Calls \ {c} : call'[d] = call[d]
        /\ UNCHANGED <<runs, listed, intent, result>> /\ call[c].pc = "baseline"
    BY <1>1, <1>6, CallFields DEF Baseline, CallRecord
  <2>2. CallOK(c)'
    BY <1>2, <2>1 DEF CallOK, Past, Answering, Active
  <2>3. Answers' \subseteq Answers
    BY <2>1, AnswersKept DEF Answering
  <2> QED
    BY <1>1, <2>1, <2>2, <2>3, MoveProbe DEF Past
<1>7. CASE Fail(c)
  <2>1. /\ call'[c].pc = "ended"
        /\ \A d \in Calls \ {c} : call'[d] = call[d]
        /\ UNCHANGED <<runs, listed, intent, result>>
    BY <1>1, <1>7 DEF Fail, Gone, Fresh
  <2>2. CallOK(c)'
    BY <2>1 DEF CallOK, Past, Answering, Active
  <2>3. Answers' \subseteq Answers
    BY <2>1, AnswersKept DEF Answering
  <2> QED
    BY <1>1, <2>1, <2>2, <2>3, MoveProbe DEF Past
<1>8. CASE FetchReceipt(c)
  <2>1. /\ call'[c] = [call[c] EXCEPT !.pc = "result"] /\ call[c].pc = "fetch"
        /\ \A d \in Calls \ {c} : call'[d] = call[d]
        /\ UNCHANGED <<runs, listed, intent, result>> /\ 1 \in runs[call[c].found].receipts
    BY <1>1, <1>8 DEF FetchReceipt, ReceiptArtifact
  <2>2. /\ call'[c].pc = "result" /\ call'[c].output = call[c].output
        /\ call'[c].maximum = call[c].maximum /\ call'[c].found = call[c].found
    BY <1>1, <2>1, CallFields DEF CallRecord
  <2>3. CallOK(c)'
    BY <1>2, <1>4, <2>1, <2>2 DEF CallOK, Past, Answering, Active
  <2>4. Answers' \subseteq Answers
    BY <1>3, <2>1, <2>2, AnswersKept DEF Answering
  <2> QED
    BY <1>1, <2>1, <2>2, <2>3, <2>4, MoveProbe DEF Past
<1>9. CASE Poll(c)
  <2>1. /\ call[c].pc = "poll" /\ UNCHANGED <<runs, listed, intent, result>>
        /\ IsFiniteSet(listed) /\ Cardinality(Matching) <= 1
    BY <1>1, <1>9, BudgetOK DEF Poll, Unambiguous
  <2>2. CASE call' = [call EXCEPT ![c].budget = BudgetAfter(c)]
    <3>1. /\ call'[c].pc = "poll" /\ call'[c].output = call[c].output
          /\ call'[c].maximum = call[c].maximum /\ \A d \in Calls \ {c} : call'[d] = call[d]
      BY <1>1, <2>1, <2>2, CallFields DEF CallRecord
    <3>2. CallOK(c)'
      BY <1>2, <2>1, <3>1 DEF CallOK, Past, Answering, Active
    <3>3. Answers' \subseteq Answers
      BY <2>1, <3>1, AnswersKept DEF Answering
    <3> QED
      BY <1>1, <2>1, <3>1, <3>2, <3>3, MoveProbe DEF Past
  <2>3. ASSUME NEW r \in Matching, Identified(c, r),
               call' = [call EXCEPT ![c].pc = "fetch", ![c].found = r]
        PROVE ProbeInv'
    <3>1. /\ call'[c].pc = "fetch" /\ call'[c].output = call[c].output /\ call'[c].found = r
          /\ call'[c].maximum = call[c].maximum /\ \A d \in Calls \ {c} : call'[d] = call[d]
      BY <1>1, <2>1, <2>3, CallFields DEF CallRecord
    <3>2. call[c].maximum < r
      <4>1. r \in DOMAIN runs
        BY <1>1, <2>3 DEF Matching, TypeOK
      <4>2. r \in Nat
        BY <1>1, <4>1, TypeFacts
      <4>3. call[c].maximum \in Nat
        BY <1>1, CallFields
      <4> QED
        BY <2>3, <4>2, <4>3 DEF Identified
    <3>3. CallOK(c)'
      BY <1>2, <1>4, <2>1, <2>3, <3>1, <3>2 DEF CallOK, Past, Answering, Active
    <3>4. Answers' \subseteq Answers \cup {r}
      BY <2>1, <3>1 DEF Answers
    <3>5. IsFiniteSet(Matching)
      BY <2>1, FS_Subset DEF Matching
    <3>6. \A x, y \in Matching : x = y
      BY <2>1, <3>5, AtMostOne
    <3>7. \A x, y \in Answers' : x = y
      BY <3>4, <3>6, AnswersMatch
    <3> QED
      BY <1>1, <2>1, <3>1, <3>3, <3>7, MoveProbe DEF Past
  <2> QED
    BY <1>9, <2>2, <2>3 DEF Poll
<1>10. CASE RecordIntent(c)
  <2> DEFINE o == call[c].output
             file == [state |-> "written", run |-> call[c].maximum]
  <2>1. /\ call[c].pc = "intent" /\ intent[o].state = "none" /\ UNCHANGED <<runs, listed, result>>
        /\ intent' = [intent EXCEPT ![o] = file] /\ call' = [call EXCEPT ![c].pc = "sync_intent"]
    BY <1>10 DEF RecordIntent
  <2>2. o \in Outputs
    BY <1>2, <2>1 DEF CallOK, Active
  <2>3. /\ call'[c].pc = "sync_intent" /\ call'[c].output = o /\ call'[c].maximum = call[c].maximum
        /\ \A d \in Calls \ {c} : call'[d] = call[d]
    BY <1>1, <2>1, CallFields DEF CallRecord
  <2>4. /\ intent'[o].state = "written" /\ intent'[o].run = call[c].maximum
        /\ \A p \in Outputs \ {o} : intent'[p] = intent[p]
    BY <1>1, <2>1, <2>2 DEF TypeOK
  <2>5. Dispatched(o) = {}
    BY <2>1, <2>2 DEF ProbeInv, DispatchIsOnRecord
  <2>6. CallOK(c)'
    BY <1>4, <2>1, <2>2, <2>3, <2>4, <2>5 DEF CallOK, Past, Answering, Active
  <2>7. ResultOK(o)'
    BY <2>1, <2>2 DEF ProbeInv, ResultOK
  <2>8. Answers' \subseteq Answers
    BY <2>1, <2>3, AnswersKept DEF Answering
  <2> HIDE DEF o, file
  <2> QED
    BY <1>1, <1>2, <2>1, <2>2, <2>3, <2>4, <2>6, <2>7, <2>8, CallProbe DEF o
<1>11. CASE SyncIntent(c)
  <2> DEFINE o == call[c].output
  <2>1. /\ call[c].pc = "sync_intent" /\ UNCHANGED <<runs, listed, result>>
        /\ intent' = [intent EXCEPT ![o].state = "durable"] /\ call' = [call EXCEPT ![c].pc = "dispatch"]
    BY <1>11 DEF SyncIntent
  <2>2. o \in Outputs
    BY <1>2, <2>1 DEF CallOK, Active
  <2>3. /\ call'[c].pc = "dispatch" /\ call'[c].output = o /\ call'[c].maximum = call[c].maximum
        /\ \A d \in Calls \ {c} : call'[d] = call[d]
    BY <1>1, <2>1, CallFields DEF CallRecord
  <2>4. /\ intent'[o].state = "durable" /\ intent'[o].run = intent[o].run
        /\ (intent[o].state = "durable" => intent'[o] = intent[o])
        /\ \A p \in Outputs \ {o} : intent'[p] = intent[p]
    BY <1>1, <2>1, <2>2 DEF TypeOK, File
  <2>5. intent[o].run = call[c].maximum /\ Dispatched(o) = {}
    BY <1>2, <2>1 DEF CallOK, Past
  <2>6. CallOK(c)'
    BY <1>4, <2>1, <2>2, <2>3, <2>4, <2>5 DEF CallOK, Past, Answering, Active
  <2>7. ResultOK(o)'
    BY <1>4, <2>1, <2>2, <2>4 DEF ProbeInv, ResultOK
  <2>8. Answers' \subseteq Answers
    BY <2>1, <2>3, AnswersKept DEF Answering
  <2> HIDE DEF o
  <2> QED
    BY <1>1, <1>2, <2>1, <2>2, <2>3, <2>4, <2>6, <2>7, <2>8, CallProbe DEF o, Past
<1>12. CASE RecordResult(c)
  <2> DEFINE o == call[c].output
             file == [state |-> "written", run |-> call[c].found]
  <2>1. /\ call[c].pc = "result" /\ UNCHANGED <<runs, listed, intent>>
        /\ result' = [result EXCEPT ![o] = file] /\ call' = [call EXCEPT ![c].pc = "sync_result"]
    BY <1>12 DEF RecordResult
  <2>2. o \in Outputs
    BY <1>2, <2>1 DEF CallOK, Active
  <2>3. /\ call'[c].pc = "sync_result" /\ call'[c].output = o /\ call'[c].maximum = call[c].maximum
        /\ call'[c].found = call[c].found /\ \A d \in Calls \ {c} : call'[d] = call[d]
    BY <1>1, <2>1, CallFields DEF CallRecord
  <2>4. /\ result'[o].state = "written" /\ result'[o].run = call[c].found
        /\ \A p \in Outputs \ {o} : result'[p] = result[p]
    BY <1>1, <2>1, <2>2 DEF TypeOK
  <2>5. /\ intent[o].state = "durable" /\ intent[o].run = call[c].maximum
        /\ call[c].found \in Matching /\ call[c].maximum < call[c].found
        /\ 1 \in runs[call[c].found].receipts /\ call[c].found \in Answers
    BY <1>2, <1>3, <2>1 DEF CallOK, Past, Answering
  <2>6. CallOK(c)'
    BY <1>4, <2>1, <2>2, <2>3, <2>4, <2>5 DEF CallOK, Past, Answering, Active
  <2>7. ResultOK(o)'
    BY <1>4, <2>1, <2>4, <2>5 DEF ResultOK
  <2>8. Answers' \subseteq Answers
    BY <2>3, <2>4, <2>5, AnswersKept
  <2> HIDE DEF o, file
  <2> QED
    BY <1>1, <1>2, <2>1, <2>2, <2>3, <2>4, <2>6, <2>7, <2>8, CallProbe DEF o, Past
<1>13. CASE SyncResult(c)
  <2>2. PICK o \in Outputs : o = call[c].output
    BY <1>2, <1>13 DEF SyncResult, CallOK, Active
  <2>1. /\ call[c].pc = "sync_result" /\ UNCHANGED <<runs, listed, intent>>
        /\ result' = [result EXCEPT ![o].state = "durable"] /\ call' = [call EXCEPT ![c] = Gone]
    BY <1>13, <2>2 DEF SyncResult
  <2>3. call'[c].pc = "ended" /\ \A d \in Calls \ {c} : call'[d] = call[d]
    BY <1>1, <2>1 DEF Gone, Fresh
  <2>4. /\ result'[o].run = result[o].run /\ \A p \in Outputs \ {o} : result'[p] = result[p]
    BY <1>1, <2>1, <2>2 DEF TypeOK, File
  <2>5. result[o].state # "none"
    BY <1>2, <2>1, <2>2 DEF CallOK
  <2>6. CallOK(c)'
    BY <2>3 DEF CallOK, Past, Answering, Active
  <2>7. ResultOK(o)'
    <3>1. ResultOK(o)
      BY <2>2 DEF ProbeInv
    <3> QED
      BY <1>4, <2>1, <2>4, <2>5, <3>1 DEF ResultOK
  <2>8. Answers' \subseteq Answers
    BY <2>3, <2>4, <2>5, AnswersKept DEF Answering
  <2>9. /\ UNCHANGED <<runs, listed, intent>> /\ call[c].pc = "sync_result" /\ call[c].output = o
        /\ call'[c].pc \notin Past /\ call[c].pc \in Past
    BY <2>1, <2>2, <2>3 DEF Past
  <2>10. \A x, y \in Answers' : x = y
    BY <1>2, <2>8
  <2> QED
    BY <1>1, <2>2, <2>3, <2>4, <2>6, <2>7, <2>9, <2>10, CallProbe
<1> QED
  BY <1>5, <1>6, <1>7, <1>8, <1>9, <1>10, <1>11, <1>12, <1>13 DEF Step

(* The new run is its output's first, and newer than the intent.           *)
LEMMA DispatchProbe == ASSUME ProbeInv, NEW c \in Calls, Dispatch(c) PROVE ProbeInv'
<1>1. PICK o \in Outputs : o = call[c].output
  BY DEF ProbeInv, CallOK, Active, Dispatch
<1>2. /\ TypeOK /\ TypeOK' /\ DOMAIN call = Calls /\ CallOK(c)
      /\ call[c].pc = "dispatch" /\ UNCHANGED <<listed, intent, result>>
  BY <1>1, DispatchType, TypeFacts DEF ProbeInv, Dispatch
<1>3. PICK n \in Nat : /\ n = Len(runs) + 1 /\ n \notin DOMAIN runs
                       /\ DOMAIN runs = 1..Len(runs) /\ Len(runs) \in Nat
                       /\ DOMAIN runs' = DOMAIN runs \cup {n}
                       /\ runs'[n].by = o /\ \A r \in DOMAIN runs : runs'[r] = runs[r]
  <2>1. /\ Len(runs) \in Nat /\ DOMAIN runs = 1..Len(runs) /\ DOMAIN runs' = 1..(Len(runs) + 1)
        /\ \A r \in DOMAIN runs : runs'[r] = runs[r]
        /\ runs'[Len(runs) + 1].by = o
    BY <1>1, <1>2, CreateRunType DEF Dispatch
  <2>2. /\ Len(runs) + 1 \in Nat /\ Len(runs) + 1 \notin DOMAIN runs
        /\ 1..(Len(runs) + 1) = (1..Len(runs)) \cup {Len(runs) + 1}
    BY <2>1
  <2> QED
    BY <2>1, <2>2
<1>4. /\ call'[c].pc \in {"poll", "ended"}
      /\ call'[c].pc = "poll" => call'[c] = [call[c] EXCEPT !.pc = "poll"]
      /\ \A d \in Calls \ {c} : call'[d] = call[d]
  <2>1. CASE Goto(c, "poll")
    <3>1. call' = [call EXCEPT ![c] = [call[c] EXCEPT !.pc = "poll"]]
      BY <1>2, <2>1 DEF Goto
    <3>2. call'[c] = [call[c] EXCEPT !.pc = "poll"] /\ \A d \in Calls \ {c} : call'[d] = call[d]
      BY <1>2, <3>1
    <3>3. call'[c].pc = "poll"
      BY <1>2, <3>2, CallFields DEF CallRecord
    <3> QED
      BY <3>2, <3>3
  <2>2. CASE End(c)
    BY <1>2, <2>2 DEF End, Gone, Fresh
  <2> QED
    BY <2>1, <2>2 DEF Dispatch
<1>5. call'[c].pc = "poll" => call'[c].output = o /\ call'[c].maximum = call[c].maximum
  BY <1>1, <1>2, <1>4, CallFields DEF CallRecord
<1>6. /\ Dispatched(o) = {} /\ Dispatched(o)' = {n}
      /\ \A p \in Outputs \ {o} : Dispatched(p)' = Dispatched(p)
  <2>1. Dispatched(o) = {}
    BY <1>1, <1>2 DEF CallOK
  <2> QED
    BY <1>3, <2>1 DEF Dispatched
<1>7. intent[o].state = "durable" /\ intent[o].run < n
  <2>1. intent[o].state = "durable" /\ intent[o].run = call[c].maximum
    BY <1>1, <1>2 DEF CallOK, Past
  <2>2. call[c].maximum \in 0..Len(runs) /\ Len(runs) \in Nat
    BY <1>2, CallFields
  <2> QED
    BY <1>3, <2>1, <2>2
<1>8. Matching' = Matching /\ Matching \subseteq DOMAIN runs
  BY <1>2, <1>3 DEF TypeOK, Matching
<1>9. Answers' \subseteq Answers
  BY <1>2, <1>4, AnswersKept DEF Answering
<1>10. ASSUME NEW d \in Calls PROVE CallOK(d)'
  <2>1. CASE d = c
    <3>1. CASE call'[c].pc = "poll"
      <4>1. intent[o].run = call[c].maximum
        BY <1>1, <1>2 DEF CallOK, Past
      <4>2. /\ call'[d].output = o /\ call'[d].maximum = call[c].maximum /\ call'[d].pc = "poll"
            /\ intent'[o] = intent[o]
        BY <1>2, <1>5, <2>1, <3>1
      <4> QED
        BY <1>7, <4>1, <4>2 DEF CallOK, Past, Answering, Active
    <3>2. CASE call'[c].pc = "ended"
      BY <2>1, <3>2 DEF CallOK, Past, Answering, Active
    <3> QED
      BY <1>4, <3>1, <3>2
  <2>2. CASE d # c
    <3>1. CallOK(d) /\ call'[d] = call[d]
      BY <1>4, <2>2 DEF ProbeInv
    <3>2. call[d].pc \in Past => call[d].output \in Outputs \ {o}
      BY <1>1, <1>2, <2>2, <3>1 DEF ProbeInv, Alone, CallOK, Active, Past
    <3>3. call[d].pc \in {"sync_intent", "dispatch"} => Dispatched(call[d].output)' = {}
      BY <1>6, <3>1, <3>2 DEF CallOK, Past
    <3>4. call[d].pc \in {"result", "sync_result"} => 1 \in runs'[call[d].found].receipts
      BY <1>3, <1>8, <3>1 DEF CallOK, Answering
    <3> QED
      BY <1>2, <1>8, <3>1, <3>3, <3>4 DEF CallOK, Past, Answering, Active
  <2> QED
    BY <2>1, <2>2
<1>11. Alone'
  <2>1. call'[c].pc \in Past => call[c].pc \in Past /\ call'[c].output = call[c].output
    BY <1>1, <1>2, <1>4, <1>5 DEF Past
  <2> QED
    BY <1>4, <2>1 DEF ProbeInv, Alone
<1>12. OneDispatchPerOutput'
  BY <1>6 DEF ProbeInv, OneDispatchPerOutput
<1>13. DispatchIsOnRecord'
  <2>1. ASSUME NEW p \in Outputs, NEW r \in Dispatched(p)'
        PROVE intent'[p].state = "durable" /\ intent'[p].run < r
    BY <1>2, <1>6, <1>7 DEF ProbeInv, DispatchIsOnRecord
  <2> QED
    BY <2>1 DEF DispatchIsOnRecord
<1>14. \A p \in Outputs : ResultOK(p)'
  BY <1>2, <1>3, <1>8 DEF ProbeInv, ResultOK
<1> QED
  BY <1>2, <1>9, <1>10, <1>11, <1>12, <1>13, <1>14 DEF ProbeInv

(* What is on the disk outlives the calls.                                 *)
LEMMA CrashProbe == ASSUME ProbeInv, NEW lost \in SUBSET Outputs, HostCrash(lost) PROVE ProbeInv'
<1>1. TypeOK /\ TypeOK' /\ UNCHANGED <<runs, listed>>
  BY CrashType DEF ProbeInv, HostCrash
<1>2. \A d \in Calls : ~ Active(d)' /\ call'[d].pc \in {"idle", "ended"}
  BY DEF HostCrash, Active, Gone, Fresh
<1>3. ASSUME NEW files, NEW o \in Outputs,
             files \in [Outputs -> File], files[o].state = "durable"
      PROVE Reboot(files, lost)[o] = files[o]
  BY <1>3 DEF Reboot
<1>4. ASSUME NEW o \in Outputs PROVE intent[o].state = "durable" => intent'[o] = intent[o]
  BY <1>1, <1>3 DEF HostCrash, TypeOK
<1>5. ASSUME NEW o \in Outputs, result'[o].state # "none"
      PROVE result[o].state # "none" /\ result'[o].run = result[o].run
  <2>1. result'[o] = IF result[o].state # "written" THEN result[o]
                     ELSE IF o \in lost THEN NoFile ELSE [result[o] EXCEPT !.state = "durable"]
    BY DEF HostCrash, Reboot
  <2>2. result[o] \in File
    BY <1>1 DEF TypeOK
  <2> QED
    BY <1>5, <2>1, <2>2 DEF NoFile, File
<1>6. Answers' \subseteq Answers
  BY <1>2, <1>5 DEF Answers, Answering
<1>7. Matching' = Matching /\ \A o \in Outputs : Dispatched(o)' = Dispatched(o)
  BY <1>1 DEF Matching, Dispatched
<1>8. \A o \in Outputs : ResultOK(o)'
  BY <1>1, <1>4, <1>5, <1>7 DEF ProbeInv, ResultOK
<1>9. (\A d \in Calls : CallOK(d)') /\ Alone'
  BY <1>2 DEF CallOK, Past, Answering, Alone
<1>10. OneDispatchPerOutput' /\ DispatchIsOnRecord'
  BY <1>4, <1>7 DEF ProbeInv, OneDispatchPerOutput, DispatchIsOnRecord
<1> QED
  BY <1>1, <1>6, <1>8, <1>9, <1>10 DEF ProbeInv

LEMMA ProbeStep == ProbeInv /\ [Next]_vars => ProbeInv'
<1> SUFFICES ASSUME ProbeInv, [Next]_vars PROVE ProbeInv'
  OBVIOUS
<1>1. CASE Tick \/ GitHub
  BY <1>1, GitHubProbe
<1>2. ASSUME NEW c \in Calls, Step(c) \/ Fail(c) \/ \E o \in Outputs : Start(c, o) PROVE ProbeInv'
  <2>1. CASE Dispatch(c)
    BY <2>1, DispatchProbe
  <2>2. CASE ~ Dispatch(c)
    BY <1>2, <2>2, StepProbe
  <2> QED
    BY <2>1, <2>2
<1>3. ASSUME NEW lost \in SUBSET Outputs, HostCrash(lost) PROVE ProbeInv'
  BY <1>3, CrashProbe
<1>4. CASE UNCHANGED vars
  BY <1>4 DEF vars, ProbeInv, TypeOK, File, Run, CallOK, Active, Alone, OneDispatchPerOutput,
              DispatchIsOnRecord, Dispatched, ResultOK, Matching, Answers
<1> QED
  BY <1>1, <1>2, <1>3, <1>4 DEF Next

LEMMA ProbeInvariant == Spec => []ProbeInv
BY InitProbe, ProbeStep, PTL DEF Spec

-------------------------------------------------------------------------------
(* Files, runs and calls are well-formed.                                  *)
THEOREM ProbeTypeCorrect == Spec => []TypeOK
<1>1. ProbeInv => TypeOK
  BY DEF ProbeInv
<1> QED
  BY <1>1, ProbeInvariant, PTL

(* However often a call is repeated, interrupted or raced on one output    *)
(* path, persist_record lets the probe be dispatched once for it.          *)
THEOREM OneDispatch == Spec => []OneDispatchPerOutput
BY Safety, ProbeInvariant, PTL

(* What was dispatched can be reconciled after any crash: the intent is on *)
(* the disk and names an older run.                                        *)
THEOREM DispatchRecorded == Spec => []DispatchIsOnRecord
BY Safety, ProbeInvariant, PTL

(* A result names a run of the probe that is newer than the intent's and   *)
(* has a receipt of its first attempt.                                     *)
THEOREM ResultsAreTheProbe == Spec => []ResultIsTheProbe
BY Safety, ProbeInvariant, PTL

(* Two outputs never name different runs as the answer of one probe.       *)
THEOREM AnswersDoAgree == Spec => []AnswersAgree
BY Safety, ProbeInvariant, PTL

-------------------------------------------------------------------------------
(* A budget for two full inventories is one for the poll after a dispatch. *)
Budgets ==
    /\ TypeOK
    /\ \A c \in Calls : call[c].pc = "baseline" => call[c].budget = MaxRunRequests
    /\ PollIsAffordable

LEMMA BudgetsStep ==
    ASSUME 2 * Pages(MaxRunRecords) <= MaxRunRequests, Budgets, ProbeInv, ProbeInv', [Next]_vars
    PROVE  Budgets'
<1> DEFINE Paid(c) ==
               /\ call[c].pc = "baseline" => call[c].budget = MaxRunRequests
               /\ call[c].pc \in {"intent", "sync_intent", "dispatch"} =>
                     Pages(MaxRunRecords) <= call[c].budget
<1>1. TypeOK /\ TypeOK' /\ DOMAIN call = Calls /\ \A c \in Calls : Paid(c)
  BY TypeFacts DEF Budgets, ProbeInv, PollIsAffordable
<1>2. /\ Pages(MaxRunRecords) \in Nat /\ MaxRunRequests \in Nat /\ MaxRunRecords \in Nat
      /\ \A n \in 0..MaxRunRecords : Pages(n) \in Nat /\ Pages(n) <= Pages(MaxRunRecords)
  BY PagesOK, ProbeNumbers
<1>3. SUFFICES \A d \in Calls : Paid(d)'
  BY <1>1 DEF Budgets, PollIsAffordable
<1>4. ASSUME NEW c \in Calls, NEW d \in Calls, Step(c) \/ Fail(c) \/ \E o \in Outputs : Start(c, o)
      PROVE  Paid(d)'
  <2>1. CASE d # c
    <3>1. call'[d] = call[d]
      BY <1>1, <1>4, <2>1 DEF Step, Baseline, RecordIntent, SyncIntent, Dispatch, Poll, FetchReceipt,
                              RecordResult, SyncResult, Fail, Start, Goto, End
    <3> QED
      BY <1>1, <3>1
  <2>2. CASE d = c /\ \E o \in Outputs : Start(c, o)
    <3>1. call'[c].pc = "baseline" /\ call'[c].budget = MaxRunRequests
      BY <1>1, <2>2, CallFields DEF Start, CallRecord
    <3> QED
      BY <2>2, <3>1
  <2>3. CASE d = c /\ Baseline(c)
    <3>1. call'[c].pc = "intent" /\ call'[c].budget = call[c].budget - Pages(Cardinality(listed))
      BY <1>1, <2>3, CallFields DEF Baseline, BudgetAfter, CallRecord
    <3>2. Cardinality(listed) \in 0..MaxRunRecords
      BY <1>1, <2>3, BudgetOK DEF Baseline
    <3>3. call[c].budget = MaxRunRequests
      BY <1>1, <2>3 DEF Baseline
    <3>4. Pages(MaxRunRecords) <= MaxRunRequests - Pages(Cardinality(listed))
      BY <1>2, <3>2
    <3> QED
      BY <2>3, <3>1, <3>3, <3>4
  <2>4. CASE d = c /\ (RecordIntent(c) \/ SyncIntent(c))
    <3>1. /\ call[c].pc \in {"intent", "sync_intent"} /\ call'[c].budget = call[c].budget
          /\ call'[c].pc \in {"sync_intent", "dispatch"}
      BY <1>1, <2>4, CallFields DEF RecordIntent, SyncIntent, Goto, CallRecord
    <3> QED
      BY <1>1, <2>4, <3>1
  <2>5. CASE d = c /\ (Dispatch(c) \/ Poll(c) \/ FetchReceipt(c) \/ RecordResult(c)
                       \/ SyncResult(c) \/ Fail(c))
    <3>1. call'[c].pc \notin {"baseline", "intent", "sync_intent", "dispatch"}
      BY <1>1, <2>5, CallFields DEF Dispatch, Poll, FetchReceipt, RecordResult, SyncResult, Fail,
                                    Goto, End, Gone, Fresh, CallRecord
    <3> QED
      BY <2>5, <3>1
  <2> QED
    BY <1>4, <2>1, <2>2, <2>3, <2>4, <2>5 DEF Step
<1>5. CASE Tick \/ GitHub \/ UNCHANGED vars
  <2>1. UNCHANGED call
    BY <1>5 DEF Tick, GitHub, ForeignRun, Show, Rerun, Conclude, vars
  <2> QED
    BY <1>1, <2>1
<1>6. ASSUME NEW lost \in SUBSET Outputs, HostCrash(lost), NEW d \in Calls PROVE Paid(d)'
  BY <1>6 DEF HostCrash, Active, Gone, Fresh
<1> QED
  BY <1>4, <1>5, <1>6 DEF Next

(* When the budget pays for two inventories of the largest admitted size,  *)
(* as the code's forty requests do, a call that goes on to dispatch can    *)
(* afford to look for its run.                                             *)
THEOREM PollsAreAffordable ==
    ASSUME 2 * Pages(MaxRunRecords) <= MaxRunRequests
    PROVE  Spec => []PollIsAffordable
<1>1. Init => Budgets
  BY InitType DEF Init, Fresh, Budgets, PollIsAffordable
<1>2. Budgets /\ ProbeInv /\ ProbeInv' /\ [Next]_vars => Budgets'
  BY BudgetsStep
<1>3. Budgets => PollIsAffordable
  BY DEF Budgets
<1> QED
  BY <1>1, <1>2, <1>3, ProbeInvariant, PTL DEF Spec

-------------------------------------------------------------------------------
(* The refinement of DispatchLedger.                                       *)
Pairs == {pair \in Outputs \X DOMAIN runs : runs[pair[2]].by = pair[1]}

Given == {<<o, result[o].run>> : o \in Durable(result)}

LEMMA LedgerInit == Init => Ledger!Init
BY DEF Init, Ledger!Init, Durable, NoFile

LEMMA LedgerStutters ==
    ASSUME ProbeInv, UNCHANGED <<intent, result>>, DOMAIN runs \subseteq DOMAIN runs',
           \A r \in DOMAIN runs : runs'[r].by = runs[r].by,
           \A r \in DOMAIN runs' \ DOMAIN runs : runs'[r].by = None
    PROVE  UNCHANGED Ledger!vars
<1>1. \A o \in Outputs : Dispatched(o)' = Dispatched(o)
  BY ProbeNone DEF Dispatched
<1>2. Pairs' = Pairs
  <2>1. Pairs = {pair \in Outputs \X DOMAIN runs : pair[2] \in Dispatched(pair[1])}
    BY DEF Pairs, Dispatched
  <2>2. Pairs' = {pair \in Outputs \X DOMAIN runs' : pair[2] \in Dispatched(pair[1])'}
    BY DEF Pairs, Dispatched
  <2>3. \A o \in Outputs : Dispatched(o) \subseteq DOMAIN runs
    BY DEF Dispatched
  <2> QED
    BY <1>1, <2>1, <2>2, <2>3
<1>3. Durable(intent)' = Durable(intent) /\ Durable(result)' = Durable(result) /\ Given' = Given
  BY DEF Durable, Given
<1> QED
  BY <1>2, <1>3 DEF Ledger!vars, Pairs, Given

(* Files that become durable are entries and answers of the ledger.        *)
LEMMA LedgerSettles ==
    ASSUME ProbeInv, ProbeInv', UNCHANGED runs,
           Durable(intent) \subseteq Durable(intent)',
           \A o \in Durable(result) : result'[o] = result[o],
           Durable(result) \subseteq Durable(result)',
           \A o \in Durable(result)' : result[o].state # "none"
    PROVE  Ledger!Next
<1>1. Pairs' = Pairs
  BY DEF Pairs
<1>2. \E new \in SUBSET Outputs : Durable(intent)' = Durable(intent) \cup new
  <2>1. Durable(intent)' \subseteq Outputs
    BY DEF Durable
  <2> QED
    BY <2>1
<1>3. Given' = Given \/ \E who \in SUBSET Durable(intent), r \in 1..MaxRuns :
                           /\ \E d \in Pairs : d[2] = r
                           /\ \A a \in Given : a[2] = r
                           /\ Given' = Given \cup {<<o, r>> : o \in who}
  <2>1. CASE Durable(result)' = {}
    BY <2>1 DEF Given
  <2>2. ASSUME NEW p \in Durable(result)'
        PROVE \E who \in SUBSET Durable(intent), r \in 1..MaxRuns :
                 /\ \E d \in Pairs : d[2] = r
                 /\ \A a \in Given : a[2] = r
                 /\ Given' = Given \cup {<<o, r>> : o \in who}
    <3>1. PICK r : r = result'[p].run
      OBVIOUS
    <3>2. p \in Outputs /\ result'[p].state # "none"
      BY <2>2 DEF Durable
    <3>3. r \in DOMAIN runs /\ runs[r].by # None /\ r \in 1..MaxRuns
      <4>1. r \in Matching'
        BY <3>1, <3>2 DEF ProbeInv, ResultOK
      <4>2. r \in DOMAIN runs /\ runs[r].by # None
        BY <4>1 DEF Matching, ProbeInv, TypeOK
      <4>3. TypeOK /\ MaxRuns \in Nat /\ Len(runs) <= MaxRuns
        BY ProbeNumbers DEF ProbeInv, TypeOK
      <4>4. DOMAIN runs = 1..Len(runs) /\ Len(runs) \in Nat
        BY <4>3, TypeFacts
      <4> QED
        BY <4>2, <4>3, <4>4
    <3>4. \E d \in Pairs : d[2] = r
      <4>1. runs[r] \in Run
        BY <3>3, TypeFacts DEF ProbeInv
      <4>2. runs[r].by \in Outputs
        BY <3>3, <4>1 DEF Run
      <4>3. <<runs[r].by, r>> \in Pairs
        BY <3>3, <4>2 DEF Pairs
      <4> QED
        BY <4>3
    <3>5. \A o \in Durable(result)' : o \in Outputs /\ result'[o].run = r /\ o \in Durable(intent)
      <4> TAKE o \in Durable(result)'
      <4>1. o \in Outputs /\ result'[o].state # "none" /\ result[o].state # "none"
        BY DEF Durable
      <4>2. result'[o].run \in Answers' /\ r \in Answers'
        BY <3>1, <3>2, <4>1 DEF Answers
      <4>3. intent[o].state = "durable"
        BY <4>1 DEF ProbeInv, ResultOK
      <4> QED
        BY <4>1, <4>2, <4>3 DEF ProbeInv, Durable
    <3>6. \A a \in Given : a[2] = r
      BY <3>5 DEF Given
    <3>7. Given' = {<<o, r>> : o \in Durable(result)'} /\ Given \subseteq Given'
      BY <3>5 DEF Given
    <3>8. Given' = Given \cup {<<o, r>> : o \in Durable(result)'} /\ Durable(result)' \subseteq Durable(intent)
      BY <3>5, <3>7
    <3> QED
      BY <3>3, <3>4, <3>6, <3>8
  <2> QED
    BY <2>1, <2>2
<1> QED
  BY <1>1, <1>2, <1>3 DEF Ledger!Next, Ledger!Settles, Ledger!Answer, Pairs, Given

LEMMA LedgerDispatches ==
    ASSUME ProbeInv, ProbeInv', NEW c \in Calls, Dispatch(c) PROVE Ledger!Next
<1>1. PICK o \in Outputs : o = call[c].output
  BY DEF ProbeInv, CallOK, Active, Dispatch
<1>2. TypeOK /\ CallOK(c) /\ UNCHANGED <<intent, result>> /\ CreateRun(o) /\ call[c].pc = "dispatch"
  BY <1>1 DEF ProbeInv, Dispatch
<1>3. o \in Durable(intent) /\ Dispatched(o) = {}
  BY <1>1, <1>2 DEF CallOK, Past, Durable
<1>4. PICK n \in 1..MaxRuns :
         /\ DOMAIN runs' = DOMAIN runs \cup {n} /\ runs'[n].by = o
         /\ \A r \in DOMAIN runs : runs'[r] = runs[r] /\ r < n
  <2>1. /\ Len(runs) \in Nat /\ DOMAIN runs = 1..Len(runs) /\ DOMAIN runs' = 1..(Len(runs) + 1)
        /\ \A r \in DOMAIN runs : runs'[r] = runs[r]
        /\ runs'[Len(runs) + 1].by = o /\ Len(runs) + 1 <= MaxRuns
    BY <1>2, CreateRunType
  <2>2. /\ Len(runs) + 1 \in 1..MaxRuns /\ \A r \in DOMAIN runs : r < Len(runs) + 1
        /\ 1..(Len(runs) + 1) = (1..Len(runs)) \cup {Len(runs) + 1}
    BY <2>1, ProbeNumbers
  <2> QED
    BY <2>1, <2>2
<1>5. Pairs' = Pairs \cup {<<o, n>>}
  BY <1>4 DEF Pairs
<1>6. \A d \in Pairs : d[1] # o /\ d[2] < n
  BY <1>3, <1>4 DEF Pairs, Dispatched
<1>7. Durable(intent)' = Durable(intent) /\ Given' = Given
  BY <1>2 DEF Durable, Given
<1> QED
  BY <1>3, <1>5, <1>6, <1>7 DEF Ledger!Next, Ledger!Dispatches, Pairs, Given

LEMMA LedgerStep == ProbeInv /\ ProbeInv' /\ [Next]_vars => [Ledger!Next]_Ledger!vars
<1> SUFFICES ASSUME ProbeInv, ProbeInv', [Next]_vars PROVE Ledger!Next \/ UNCHANGED Ledger!vars
  OBVIOUS
<1>1. /\ TypeOK /\ DOMAIN intent = Outputs /\ DOMAIN result = Outputs
      /\ \A o \in Outputs : intent[o] \in File /\ result[o] \in File
  BY DEF ProbeInv, TypeOK
<1>2. CASE Tick \/ GitHub
  <2>1. CASE ForeignRun
    <3>1. /\ DOMAIN runs \subseteq DOMAIN runs' /\ \A r \in DOMAIN runs : runs'[r] = runs[r]
          /\ \A r \in DOMAIN runs' \ DOMAIN runs : runs'[r].by = None
      BY <1>1, <2>1, CreateRunType DEF ForeignRun
    <3> QED
      BY <2>1, <3>1, LedgerStutters DEF ForeignRun
  <2>2. ASSUME NEW r \in DOMAIN runs, Rerun(r) \/ \E how \in {"success", "failure"} : Conclude(r, how)
        PROVE UNCHANGED Ledger!vars
    BY <1>1, <2>2, RunType, LedgerStutters
  <2>3. CASE Tick \/ \E r \in DOMAIN runs : Show(r)
    BY <2>3, LedgerStutters DEF Tick, Show
  <2> QED
    BY <1>2, <2>1, <2>2, <2>3 DEF GitHub
<1>3. ASSUME NEW c \in Calls, Step(c) \/ Fail(c) \/ \E o \in Outputs : Start(c, o)
      PROVE Ledger!Next \/ UNCHANGED Ledger!vars
  <2>1. CASE Dispatch(c)
    BY <2>1, LedgerDispatches
  <2>2. Active(c) => call[c].output \in Outputs
    BY DEF ProbeInv, CallOK
  <2>3. CASE Baseline(c) \/ Poll(c) \/ FetchReceipt(c) \/ Fail(c) \/ \E o \in Outputs : Start(c, o)
    BY <2>3, LedgerStutters DEF Baseline, Poll, FetchReceipt, Fail, Start
  <2>4. CASE RecordIntent(c) \/ SyncIntent(c)
    <3>1. UNCHANGED <<runs, result>>
      BY <2>4 DEF RecordIntent, SyncIntent
    <3>2. Durable(intent) \subseteq Durable(intent)'
      <4>1. PICK o \in Outputs : o = call[c].output
        <5>1. call[c].pc \in {"intent", "sync_intent"}
          BY <2>4 DEF RecordIntent, SyncIntent
        <5> QED
          BY <2>2, <5>1 DEF Active
      <4>2. \A p \in Outputs \ {o} : intent'[p] = intent[p]
        BY <1>1, <2>4, <4>1 DEF RecordIntent, SyncIntent
      <4>3. intent[o].state = "durable" => intent'[o].state = "durable"
        <5>1. DOMAIN intent = Outputs
          BY <1>1 DEF TypeOK
        <5>2. CASE RecordIntent(c)
          BY <4>1, <5>2 DEF RecordIntent
        <5>3. CASE SyncIntent(c)
          <6>1. intent' = [intent EXCEPT ![o].state = "durable"]
            BY <4>1, <5>3 DEF SyncIntent
          <6> QED
            BY <1>1, <5>1, <6>1 DEF File
        <5> QED
          BY <2>4, <5>2, <5>3
      <4> QED
        BY <4>2, <4>3 DEF Durable
    <3>3. Durable(result)' = Durable(result) /\ \A o \in Durable(result) : result[o].state # "none"
      BY <3>1 DEF Durable
    <3> QED
      BY <3>1, <3>2, <3>3, LedgerSettles
  <2>5. CASE RecordResult(c) \/ SyncResult(c)
    <3>1. UNCHANGED <<runs, intent>> /\ Durable(intent)' = Durable(intent)
      BY <2>5 DEF RecordResult, SyncResult, Durable
    <3>2. PICK o \in Outputs : o = call[c].output
      <4>1. call[c].pc \in {"result", "sync_result"}
        BY <2>5 DEF RecordResult, SyncResult
      <4> QED
        BY <2>2, <4>1 DEF Active
    <3>3. \A p \in Outputs \ {o} : result'[p] = result[p]
      BY <1>1, <2>5, <3>2 DEF RecordResult, SyncResult
    <3>4. /\ result[o].state = "durable" => result'[o] = result[o]
          /\ result'[o].state = "durable" => result[o].state # "none"
      <4>1. DOMAIN result = Outputs
        BY <1>1 DEF TypeOK
      <4>2. CASE RecordResult(c)
        BY <3>2, <4>1, <4>2 DEF RecordResult
      <4>3. CASE SyncResult(c)
        <5>1. call[c].pc = "sync_result" /\ result' = [result EXCEPT ![o].state = "durable"]
          BY <3>2, <4>3 DEF SyncResult
        <5>2. result[o].state # "none"
          BY <3>2, <5>1 DEF ProbeInv, CallOK
        <5> QED
          BY <1>1, <4>1, <5>1, <5>2 DEF File
      <4> QED
        BY <2>5, <4>2, <4>3
    <3>5. /\ \A p \in Durable(result) : result'[p] = result[p]
          /\ Durable(result) \subseteq Durable(result)'
          /\ \A p \in Durable(result)' : result[p].state # "none"
      BY <3>3, <3>4 DEF Durable
    <3> QED
      BY <3>1, <3>5, LedgerSettles
  <2> QED
    BY <1>3, <2>1, <2>3, <2>4, <2>5 DEF Step
<1>4. ASSUME NEW lost \in SUBSET Outputs, HostCrash(lost) PROVE Ledger!Next
  <2>1. \A o \in Outputs : /\ intent[o].state = "durable" => intent'[o] = intent[o]
                           /\ result[o].state = "durable" => result'[o] = result[o]
                           /\ result[o].state = "none" => result'[o] = result[o]
    BY <1>4 DEF HostCrash, Reboot
  <2>2. /\ Durable(intent) \subseteq Durable(intent)' /\ Durable(result) \subseteq Durable(result)'
        /\ \A o \in Durable(result) : result'[o] = result[o]
        /\ \A o \in Durable(result)' : result[o].state # "none"
    BY <2>1 DEF Durable
  <2> QED
    BY <1>4, <2>2, LedgerSettles DEF HostCrash
<1>5. CASE UNCHANGED vars
  BY <1>5, LedgerStutters DEF vars
<1> QED
  BY <1>2, <1>3, <1>4, <1>5 DEF Next

(* Every behaviour of the transport keeps the ledger: an output is entered *)
(* before its one dispatch, and no entry or answer is taken back by a      *)
(* retry, a race or a crash.                                               *)
THEOREM LedgerRefinement == Spec => KeepsLedger
<1>1. ProbeInv /\ ProbeInv' /\ [Next]_vars => [Ledger!Next]_Ledger!vars
  BY LedgerStep
<1> QED
  BY <1>1, LedgerInit, ProbeInvariant, PTL DEF Spec, KeepsLedger, Ledger!Spec
===============================================================================
