-------------------------- MODULE ReleaseLedgerProofs --------------------------
(***************************************************************************)
(* Proofs about ReleaseLedger, for any fragments, any number of releasers, *)
(* commits and deaths: nothing is lost, tags name their releases and what  *)
(* they name stays; and where no release died halfway, every fragment is   *)
(* released once and the versions follow.                                  *)
(***************************************************************************)
EXTENDS ReleaseLedger, FiniteSetTheorems, WellFoundedInduction, TLAPS

(* A process past the lock.                                                *)
Holding == {"select", "snapshot", "unlink", "add", "commit", "tag"}

Shape(t) == t = [next |-> t.next, log |-> t.log, aggregate |-> t.aggregate,
                 permits |-> t.permits, moved |-> t.moved]

Sequence ==
    /\ \E T : commits \in Seq(T)
    /\ Len(commits) \in Nat \ {0}
    /\ \A v \in DOMAIN tags : tags[v] \in DOMAIN commits
    /\ torn \in Nat
    /\ commits[1].release = None

Processes ==
    /\ proc = [p \in Releasers |-> proc[p]]
    /\ \A p \in Releasers : proc[p] = [pc |-> proc[p].pc, version |-> proc[p].version,
                                       names |-> proc[p].names, selected |-> proc[p].selected]

LockOK == \A p \in Releasers : proc[p].pc \in Holding <=> lock = p

(* t has what the branch has: what is missing from NEXT/ is in a new       *)
(* snapshot, and the tagged snapshots are there as they were tagged.       *)
Covers(t) ==
    /\ Shape(t)
    /\ DOMAIN Branch.log \subseteq DOMAIN t.log
    /\ \A f \in Branch.next \ t.next :
          \E v \in DOMAIN t.log \ DOMAIN Branch.log : f \in t.log[v]
    /\ \A v \in DOMAIN tags : v \in DOMAIN t.log /\ t.log[v] = After(tags[v]).log[v]

(* How far the holder of the lock has come.                                *)
StageOK(p) ==
    /\ proc[p].pc = "snapshot" => proc[p].version \notin DOMAIN tree.log
    /\ proc[p].pc \in {"unlink", "add", "commit"} =>
          /\ proc[p].version \in DOMAIN tree.log \ DOMAIN Branch.log
          /\ tree.log[proc[p].version] = proc[p].selected
    /\ proc[p].pc \in {"add", "commit"} => tree.aggregate = DOMAIN tree.log
    /\ proc[p].pc = "commit" => index = tree
    /\ proc[p].pc = "tag" =>
          /\ index = Branch /\ tree = Branch
          /\ commits[Len(commits)].release = proc[p].version
          /\ proc[p].version \in DOMAIN Branch.log
          /\ Branch.aggregate = DOMAIN Branch.log

History == NothingLost /\ TagIsRelease /\ TaggedStays

LedgerInv ==
    /\ Sequence /\ Processes /\ LockOK
    /\ Covers(tree) /\ Covers(index) /\ Covers(Branch)
    /\ \A p \in Releasers : StageOK(p)
    /\ History

-------------------------------------------------------------------------------
LEMMA CommitsFacts ==
    ASSUME Sequence
    PROVE  /\ DOMAIN commits = 1..Len(commits) /\ Len(commits) \in Nat /\ Len(commits) >= 1
           /\ Len(commits) \in DOMAIN commits /\ Branch = After(Len(commits))
BY DEF Sequence, Branch, After

LEMMA AppendCommit ==
    ASSUME Sequence, NEW c, commits' = Append(commits, c)
    PROVE  /\ \E T : commits' \in Seq(T)
           /\ Len(commits') = Len(commits) + 1 /\ Len(commits') \in Nat \ {0}
           /\ DOMAIN commits' = DOMAIN commits \cup {Len(commits')}
           /\ Len(commits') \notin DOMAIN commits
           /\ \A k \in DOMAIN commits : commits'[k] = commits[k] /\ k < Len(commits')
           /\ commits'[Len(commits')] = c
<1>1. PICK T : commits \in Seq(T)
  BY DEF Sequence
<1>2. commits \in Seq(T \cup {c}) /\ c \in T \cup {c}
  BY <1>1
<1>3. /\ commits' \in Seq(T \cup {c}) /\ Len(commits') = Len(commits) + 1
      /\ DOMAIN commits = 1..Len(commits) /\ DOMAIN commits' = 1..(Len(commits) + 1)
      /\ \A k \in 1..Len(commits) : commits'[k] = commits[k]
      /\ commits'[Len(commits) + 1] = c /\ Len(commits) \in Nat
  BY <1>2
<1>4. 1..(Len(commits) + 1) = (1..Len(commits)) \cup {Len(commits) + 1}
  BY <1>3
<1> QED
  BY <1>3, <1>4

LEMMA NewLog ==
    ASSUME NEW t, Shape(t), NEW log
    PROVE  LET u == [t EXCEPT !.log = log]
           IN  /\ Shape(u) /\ u.log = log /\ u.next = t.next /\ u.aggregate = t.aggregate
               /\ u.permits = t.permits /\ u.moved = t.moved
<1> DEFINE u == [t EXCEPT !.log = log]
<1>1. u = [next |-> t.next, log |-> log, aggregate |-> t.aggregate,
           permits |-> t.permits, moved |-> t.moved]
  <2>1. t = [next |-> t.next, log |-> t.log, aggregate |-> t.aggregate,
             permits |-> t.permits, moved |-> t.moved]
    BY DEF Shape
  <2> QED
    BY <2>1
<1> HIDE DEF u
<1>2. Shape(u) /\ u.log = log /\ u.next = t.next /\ u.aggregate = t.aggregate
      /\ u.permits = t.permits /\ u.moved = t.moved
  BY <1>1 DEF Shape
<1> QED
  BY <1>2 DEF u

LEMMA OneHolder ==
    ASSUME LockOK, NEW p \in Releasers, proc[p].pc \in Holding
    PROVE  lock = p /\ \A q \in Releasers \ {p} : proc[q].pc \notin Holding
BY DEF LockOK

LEMMA Vacuous == ASSUME NEW q \in Releasers, proc[q].pc \notin Holding PROVE StageOK(q)
BY DEF StageOK, Holding

-------------------------------------------------------------------------------
LEMMA InitLedger == Init => LedgerInv
<1> SUFFICES ASSUME Init PROVE LedgerInv
  OBVIOUS
<1> DEFINE first == [release |-> None, tree |-> FirstTree]
<1>1. commits = <<first>> /\ tree = FirstTree /\ index = FirstTree /\ tags = << >> /\ torn = 0
  BY DEF Init
<1>2. commits \in Seq({first}) /\ Len(commits) = 1 /\ DOMAIN commits = {1} /\ commits[1] = first
  BY <1>1
<1>3. DOMAIN tags = {}
  BY <1>1
<1>4. Branch = FirstTree /\ commits[1].release = None
  BY <1>2 DEF Branch
<1>5. Shape(FirstTree)
  BY DEF Shape, FirstTree
<1>6. Covers(tree) /\ Covers(index) /\ Covers(Branch)
  BY <1>1, <1>3, <1>4, <1>5 DEF Covers
<1>7. \A p \in Releasers : proc[p] = Idle
  BY DEF Init
<1>8. Sequence /\ Processes
  <2>1. Processes
    <3>1. proc = [p \in Releasers |-> proc[p]]
      BY DEF Init
    <3>2. \A p \in Releasers : proc[p] = [pc |-> proc[p].pc, version |-> proc[p].version,
                                       names |-> proc[p].names, selected |-> proc[p].selected]
      BY <1>7 DEF Idle
    <3> QED
      BY <3>1, <3>2 DEF Processes
  <2>2. \E T : commits \in Seq(T)
    BY <1>2
  <2>3. Len(commits) \in Nat \ {0} /\ torn \in Nat /\ \A v \in DOMAIN tags : tags[v] \in DOMAIN commits
    BY <1>1, <1>2, <1>3
  <2> QED
    BY <1>2, <1>4, <2>1, <2>2, <2>3 DEF Sequence
<1>9. LockOK /\ \A p \in Releasers : StageOK(p)
  <2>1. \A p \in Releasers : proc[p].pc \notin Holding /\ lock # p
    BY <1>7, LedgerBounds DEF Init, Idle, Holding
  <2> QED
    BY <2>1, Vacuous DEF LockOK
<1>10. History
  <2>1. Releases = {}
    BY <1>2, <1>4 DEF Releases
  <2> QED
    BY <1>3, <2>1 DEF History, NothingLost, TagIsRelease, TaggedStays
<1> QED
  BY <1>6, <1>8, <1>9, <1>10 DEF LedgerInv

(* No commit is made and no tag is set.                                    *)
LEMMA WorkLedger ==
    ASSUME LedgerInv, UNCHANGED <<commits, tags>>, torn' \in Nat, Processes', LockOK',
           Covers(tree)', Covers(index)', \A q \in Releasers : StageOK(q)'
    PROVE  LedgerInv'
<1>1. Sequence'
  BY DEF LedgerInv, Sequence
<1>2. /\ Branch' = Branch
      /\ \A k : After(k)' = After(k) /\ Before(k)' = Before(k) /\ NewSnapshots(k)' = NewSnapshots(k)
  BY DEF Branch, After, Before, NewSnapshots
<1>3. Covers(Branch)'
  BY <1>2 DEF LedgerInv, Covers, Shape
<1>4. History'
  <2>1. Releases' = Releases
    BY DEF Releases
  <2> QED
    BY <1>2, <2>1 DEF LedgerInv, History, NothingLost, TagIsRelease, TaggedStays
<1> QED
  BY <1>1, <1>3, <1>4 DEF LedgerInv

LEMMA SameCovers ==
    ASSUME UNCHANGED <<commits, tags>>
    PROVE  /\ tree' = tree /\ Covers(tree) => Covers(tree)'
           /\ index' = index /\ Covers(index) => Covers(index)'
           /\ index' = tree /\ Covers(tree) => Covers(index)'
<1>1. Branch' = Branch /\ \A k : After(k)' = After(k)
  BY DEF Branch, After
<1> QED
  BY <1>1 DEF Covers, Shape

(* Only p moves.                                                           *)
Alone(p) == \A q \in Releasers \ {p} : proc'[q] = proc[q]

LEMMA GotoFacts ==
    ASSUME Processes, NEW p \in Releasers, NEW pc, Goto(p, pc)
    PROVE  /\ Processes' /\ Alone(p) /\ proc'[p].pc = pc
           /\ proc'[p].version = proc[p].version /\ proc'[p].selected = proc[p].selected
<1>1. proc'[p] = [proc[p] EXCEPT !.pc = pc] /\ Alone(p) /\ proc' = [q \in Releasers |-> proc'[q]]
  BY DEF Processes, Goto, Alone
<1>2. proc[p] = [pc |-> proc[p].pc, version |-> proc[p].version,
                 names |-> proc[p].names, selected |-> proc[p].selected]
  BY DEF Processes
<1>3. /\ proc'[p].pc = pc /\ proc'[p].version = proc[p].version
      /\ proc'[p].names = proc[p].names /\ proc'[p].selected = proc[p].selected
      /\ proc'[p] = [pc |-> proc'[p].pc, version |-> proc'[p].version,
                     names |-> proc'[p].names, selected |-> proc'[p].selected]
  BY <1>1, <1>2
<1> QED
  BY <1>1, <1>3 DEF Processes, Alone

(* The holder of the lock moves on.                                        *)
LEMMA HolderMoves ==
    ASSUME LockOK, NEW p \in Releasers, proc[p].pc \in Holding, proc'[p].pc \in Holding,
           Alone(p), UNCHANGED lock, StageOK(p)'
    PROVE  LockOK' /\ \A q \in Releasers : StageOK(q)'
<1>1. \A q \in Releasers \ {p} : proc'[q].pc \notin Holding
  BY OneHolder DEF Alone
<1>2. LockOK'
  BY <1>1, OneHolder DEF LockOK
<1>3. ASSUME NEW q \in Releasers \ {p} PROVE StageOK(q)'
  BY <1>1 DEF StageOK, Holding
<1> QED
  BY <1>2, <1>3

(* A process without the lock moves, and gets none.                        *)
LEMMA OutsiderMoves ==
    ASSUME LedgerInv, NEW p \in Releasers, proc[p].pc \notin Holding, proc'[p].pc \notin Holding,
           Alone(p), Processes', UNCHANGED <<tree, index, commits, tags, lock, torn>>
    PROVE  LedgerInv'
<1>1. LockOK'
  BY DEF LedgerInv, LockOK, Alone
<1>2. Branch' = Branch
  BY DEF Branch
<1>3. ASSUME NEW q \in Releasers PROVE StageOK(q)'
  <2>1. CASE q = p
    BY <2>1 DEF StageOK, Holding
  <2>2. CASE q # p
    BY <1>2, <2>2 DEF LedgerInv, StageOK, Alone
  <2> QED
    BY <2>1, <2>2
<1>4. torn' \in Nat
  BY DEF LedgerInv, Sequence
<1> QED
  BY <1>1, <1>3, <1>4, SameCovers, WorkLedger DEF LedgerInv

-------------------------------------------------------------------------------
LEMMA StartLedger ==
    ASSUME LedgerInv, NEW p \in Releasers, NEW names, Start(p, names)
    PROVE  LedgerInv'
<1>1. proc'[p].pc = "status" /\ Alone(p) /\ Processes'
  BY DEF LedgerInv, Processes, Start, Alone
<1> QED
  BY <1>1, OutsiderMoves DEF Start, Holding

LEMMA StatusLedger ==
    ASSUME LedgerInv, NEW p \in Releasers, CheckStatus(p)
    PROVE  LedgerInv'
<1>1. proc'[p].pc = "lock" /\ Alone(p) /\ Processes'
  BY GotoFacts DEF LedgerInv, CheckStatus
<1> QED
  BY <1>1, OutsiderMoves DEF CheckStatus, Holding

LEMMA LockLedger ==
    ASSUME LedgerInv, NEW p \in Releasers, Lock(p)
    PROVE  LedgerInv'
<1>1. proc'[p].pc = "select" /\ Alone(p) /\ Processes'
  BY GotoFacts DEF LedgerInv, Lock
<1>2. \A q \in Releasers : proc[q].pc \notin Holding
  BY LedgerBounds DEF LedgerInv, LockOK, Lock
<1>3. LockOK'
  BY <1>1, <1>2 DEF LockOK, Alone, Lock, Holding
<1>4. \A q \in Releasers : StageOK(q)'
  BY <1>1, <1>2 DEF StageOK, Alone, Holding
<1> QED
  BY <1>1, <1>3, <1>4, SameCovers, WorkLedger DEF LedgerInv, Sequence, Lock

LEMMA SelectFacts ==
    ASSUME Processes, NEW p \in Releasers, Select(p)
    PROVE  /\ proc'[p].pc = "snapshot" /\ proc'[p].version = proc[p].version
           /\ proc'[p].selected = Selected(proc[p].names) /\ Alone(p) /\ Processes'
<1>1. /\ proc'[p] = [proc[p] EXCEPT !.pc = "snapshot", !.selected = Selected(proc[p].names)]
      /\ Alone(p) /\ proc' = [q \in Releasers |-> proc'[q]]
  BY DEF Processes, Select, Alone
<1>2. proc[p] = [pc |-> proc[p].pc, version |-> proc[p].version,
                 names |-> proc[p].names, selected |-> proc[p].selected]
  BY DEF Processes
<1>3. /\ proc'[p].pc = "snapshot" /\ proc'[p].version = proc[p].version
      /\ proc'[p].selected = Selected(proc[p].names)
      /\ proc'[p] = [pc |-> proc'[p].pc, version |-> proc'[p].version,
                     names |-> proc'[p].names, selected |-> proc'[p].selected]
  BY <1>1, <1>2
<1> QED
  BY <1>1, <1>3 DEF Processes, Alone

LEMMA SelectLedger ==
    ASSUME LedgerInv, NEW p \in Releasers, Select(p)
    PROVE  LedgerInv'
<1>1. proc'[p].pc = "snapshot" /\ proc'[p].version = proc[p].version /\ Alone(p) /\ Processes'
  BY SelectFacts DEF LedgerInv
<1>2. StageOK(p)'
  BY <1>1 DEF StageOK, Select
<1> QED
  BY <1>1, <1>2, HolderMoves, SameCovers, WorkLedger DEF LedgerInv, Sequence, Select, Holding

LEMMA WriteSnapshotLedger ==
    ASSUME LedgerInv, NEW p \in Releasers, WriteSnapshot(p)
    PROVE  LedgerInv'
<1>1. proc'[p].pc = "unlink" /\ proc'[p].version = proc[p].version
      /\ proc'[p].selected = proc[p].selected /\ Alone(p) /\ Processes'
  BY GotoFacts DEF LedgerInv, WriteSnapshot
<1>2. proc[p].version \notin DOMAIN tree.log
  BY DEF LedgerInv, StageOK, WriteSnapshot
<1>3. /\ tree' = [tree EXCEPT !.log = Beside(Entry(proc[p].version, proc[p].selected), @)]
      /\ Shape(tree)
  BY DEF WriteSnapshot, LedgerInv, Covers
<1>4. /\ tree'.next = tree.next /\ Shape(tree')
      /\ tree'.log = Beside(Entry(proc[p].version, proc[p].selected), tree.log)
  BY <1>3, NewLog
<1>5. /\ DOMAIN tree'.log = {proc[p].version} \cup DOMAIN tree.log
      /\ tree'.log[proc[p].version] = proc[p].selected
      /\ \A w \in DOMAIN tree.log : tree'.log[w] = tree.log[w]
  <2>1. /\ DOMAIN tree'.log = {proc[p].version} \cup DOMAIN tree.log
        /\ tree'.log[proc[p].version] = proc[p].selected
        /\ \A w \in DOMAIN tree.log \ {proc[p].version} : tree'.log[w] = tree.log[w]
    BY <1>4 DEF Beside, Entry
  <2> QED
    BY <1>2, <2>1
<1>6. Branch' = Branch /\ \A k : After(k)' = After(k)
  BY DEF Branch, After, WriteSnapshot
<1>7. Covers(tree)'
  BY <1>4, <1>5, <1>6 DEF LedgerInv, Covers, Shape, WriteSnapshot
<1>8. StageOK(p)'
  BY <1>1, <1>2, <1>5, <1>6 DEF LedgerInv, Covers, StageOK, WriteSnapshot
<1> QED
  BY <1>1, <1>7, <1>8, HolderMoves, SameCovers, WorkLedger
     DEF LedgerInv, Sequence, WriteSnapshot, Holding

LEMMA UnlinkLedger ==
    ASSUME LedgerInv, NEW p \in Releasers, Unlink(p)
    PROVE  LedgerInv'
<1>1. proc' = proc /\ Processes' /\ Alone(p)
  BY DEF LedgerInv, Processes, Alone, Unlink
<1>2. PICK f \in proc[p].selected \cap tree.next : tree' = [tree EXCEPT !.next = @ \ {f}]
  BY DEF Unlink, Unlinked
<1>3. /\ tree = [next |-> tree.next, log |-> tree.log, aggregate |-> tree.aggregate,
                permits |-> tree.permits, moved |-> tree.moved]
      /\ proc[p].version \in DOMAIN tree.log \ DOMAIN Branch.log
      /\ tree.log[proc[p].version] = proc[p].selected
  BY DEF LedgerInv, Covers, Shape, StageOK, Unlink
<1>4. tree'.next = tree.next \ {f} /\ tree'.log = tree.log /\ Shape(tree')
  <2>1. tree' = [next |-> tree.next \ {f}, log |-> tree.log, aggregate |-> tree.aggregate,
                 permits |-> tree.permits, moved |-> tree.moved]
    BY <1>2, <1>3
  <2> QED
    BY <2>1 DEF Shape
<1>5. Branch' = Branch /\ \A k : After(k)' = After(k)
  BY DEF Branch, After, Unlink
<1>6. Covers(tree)'
  <2>1. Shape(tree)'
    BY <1>4 DEF Shape
  <2>2. \A g \in Branch.next \ tree'.next : \E v \in DOMAIN tree.log \ DOMAIN Branch.log : g \in tree.log[v]
    BY <1>2, <1>3, <1>4 DEF LedgerInv, Covers
  <2> QED
    BY <1>4, <1>5, <2>1, <2>2 DEF LedgerInv, Covers, Unlink
<1>7. StageOK(p)'
  BY <1>1, <1>3, <1>4, <1>5 DEF StageOK, Unlink
<1> QED
  BY <1>1, <1>6, <1>7, HolderMoves, SameCovers, WorkLedger DEF LedgerInv, Sequence, Unlink, Holding

LEMMA WriteAggregateLedger ==
    ASSUME LedgerInv, NEW p \in Releasers, WriteAggregate(p)
    PROVE  LedgerInv'
<1>1. proc'[p].pc = "add" /\ proc'[p].version = proc[p].version
      /\ proc'[p].selected = proc[p].selected /\ Alone(p) /\ Processes'
  BY GotoFacts DEF LedgerInv, WriteAggregate
<1>2. tree = [next |-> tree.next, log |-> tree.log, aggregate |-> tree.aggregate,
              permits |-> tree.permits, moved |-> tree.moved]
  BY DEF LedgerInv, Covers, Shape
<1>3. tree' = [next |-> tree.next, log |-> tree.log, aggregate |-> DOMAIN tree.log,
               permits |-> tree.permits, moved |-> tree.moved]
  BY <1>2 DEF WriteAggregate
<1>4. /\ tree'.next = tree.next /\ tree'.log = tree.log /\ Shape(tree')
      /\ tree'.aggregate = DOMAIN tree.log
  BY <1>3 DEF Shape
<1>5. Branch' = Branch /\ \A k : After(k)' = After(k)
  BY DEF Branch, After, WriteAggregate
<1>6. Covers(tree)'
  BY <1>4, <1>5 DEF LedgerInv, Covers, Shape, WriteAggregate
<1>7. StageOK(p)'
  BY <1>1, <1>4, <1>5 DEF LedgerInv, StageOK, WriteAggregate
<1> QED
  BY <1>1, <1>6, <1>7, HolderMoves, SameCovers, WorkLedger
     DEF LedgerInv, Sequence, WriteAggregate, Holding

LEMMA AddLedger ==
    ASSUME LedgerInv, NEW p \in Releasers, Add(p)
    PROVE  LedgerInv'
<1>1. proc'[p].pc = "commit" /\ proc'[p].version = proc[p].version
      /\ proc'[p].selected = proc[p].selected /\ Alone(p) /\ Processes'
  BY GotoFacts DEF LedgerInv, Add
<1>2. StageOK(p)'
  BY <1>1 DEF LedgerInv, StageOK, Add, Branch
<1> QED
  BY <1>1, <1>2, HolderMoves, SameCovers, WorkLedger DEF LedgerInv, Sequence, Add, Holding

LEMMA QuitLedger ==
    ASSUME LedgerInv, NEW p \in Releasers, Quit(p)
    PROVE  LedgerInv'
<1>1. proc'[p].pc = "idle" /\ Alone(p) /\ Processes'
  BY DEF LedgerInv, Processes, Quit, Alone, Idle
<1>2. torn' \in Nat
  BY DEF LedgerInv, Sequence, Quit
<1>3. LockOK'
  <2>1. lock' # p
    BY LedgerBounds DEF Quit
  <2>2. \A q \in Releasers \ {p} : lock' = q <=> lock = q
    BY LedgerBounds DEF Quit
  <2> QED
    BY <1>1, <2>1, <2>2 DEF LedgerInv, LockOK, Alone, Holding
<1>4. ASSUME NEW q \in Releasers PROVE StageOK(q)'
  <2>1. CASE q = p
    BY <1>1, <2>1 DEF StageOK
  <2>2. CASE q # p
    BY <1>1, <2>2 DEF LedgerInv, StageOK, Alone, Quit, Branch
  <2> QED
    BY <2>1, <2>2
<1> QED
  BY <1>1, <1>2, <1>3, <1>4, SameCovers, WorkLedger DEF LedgerInv, Quit

LEMMA RestoreLedger ==
    ASSUME LedgerInv, NEW cleaned \in BOOLEAN, Restore(cleaned)
    PROVE  LedgerInv'
<1>1. \A q \in Releasers : proc'[q] = proc[q] /\ proc[q].pc \notin Holding
  BY LedgerBounds DEF LedgerInv, LockOK, Restore
<1>2. LockOK' /\ Processes' /\ \A q \in Releasers : StageOK(q)'
  BY <1>1 DEF LedgerInv, LockOK, Processes, StageOK, Holding, Restore
<1>3. Branch' = Branch /\ \A k : After(k)' = After(k)
  BY DEF Branch, After, Restore
<1>4. Covers(index)'
  BY <1>3 DEF LedgerInv, Covers, Shape, Restore
<1> DEFINE log == IF cleaned THEN Branch.log ELSE Beside(Branch.log, tree.log)
<1>5. /\ DOMAIN Branch.log \subseteq DOMAIN log
      /\ \A v \in DOMAIN Branch.log : log[v] = Branch.log[v]
  BY DEF Beside
<1>6. tree' = [Branch EXCEPT !.log = log] /\ Shape(Branch)
  BY DEF LedgerInv, Covers, Restore
<1> HIDE DEF log
<1>7. Shape(tree') /\ tree'.log = log /\ tree'.next = Branch.next
  BY <1>6, NewLog
<1>8. Covers(tree)'
  BY <1>3, <1>5, <1>7 DEF LedgerInv, Covers, Shape, Restore
<1> QED
  BY <1>2, <1>4, <1>8, WorkLedger DEF LedgerInv, Sequence, Restore

-------------------------------------------------------------------------------
(* The branch grows by c.                                                  *)
LEMMA BranchGrows ==
    ASSUME Sequence, NEW c, commits' = Append(commits, c), UNCHANGED <<tags, torn>>
    PROVE  /\ Sequence' /\ Branch' = c.tree /\ Len(commits') \in DOMAIN commits'
           /\ DOMAIN commits' = DOMAIN commits \cup {Len(commits')}
           /\ \A k \in DOMAIN commits : /\ commits'[k] = commits[k] /\ After(k)' = After(k)
                                        /\ k < Len(commits')
           /\ \A k \in Releases : /\ k \in DOMAIN commits /\ Before(k)' = Before(k)
                                  /\ NewSnapshots(k)' = NewSnapshots(k)
           /\ commits'[Len(commits')] = c
           /\ commits'[Len(commits') - 1].tree = Branch
           /\ Releases' = Releases \cup (IF c.release = None THEN {} ELSE {Len(commits')})
<1>1. /\ \E T : commits' \in Seq(T)
      /\ Len(commits') = Len(commits) + 1 /\ Len(commits') \in Nat \ {0}
      /\ DOMAIN commits' = DOMAIN commits \cup {Len(commits')}
      /\ Len(commits') \notin DOMAIN commits
      /\ \A k \in DOMAIN commits : commits'[k] = commits[k] /\ k < Len(commits')
      /\ commits'[Len(commits')] = c
  BY AppendCommit
<1>2. /\ DOMAIN commits = 1..Len(commits) /\ Len(commits) \in Nat /\ Len(commits) >= 1
      /\ Len(commits) \in DOMAIN commits
  BY CommitsFacts
<1>3. Sequence'
  BY <1>1, <1>2 DEF Sequence
<1>4. \A k \in DOMAIN commits : After(k)' = After(k)
  BY <1>1 DEF After
<1>5. Releases' = Releases \cup (IF c.release = None THEN {} ELSE {Len(commits')})
  BY <1>1 DEF Releases
<1>6. ASSUME NEW k \in Releases
      PROVE  k \in DOMAIN commits /\ Before(k)' = Before(k) /\ NewSnapshots(k)' = NewSnapshots(k)
  <2>1. k \in DOMAIN commits /\ k # 1
    BY DEF Releases, Sequence
  <2>2. k - 1 \in DOMAIN commits
    BY <1>2, <2>1
  <2>3. Before(k)' = Before(k)
    BY <1>1, <2>2 DEF Before
  <2> QED
    BY <1>4, <2>1, <2>3 DEF NewSnapshots
<1>7. Len(commits') - 1 = Len(commits)
  BY <1>1, <1>2
<1>8. commits'[Len(commits') - 1].tree = Branch
  BY <1>1, <1>2, <1>7 DEF Branch
<1> QED
  BY <1>1, <1>3, <1>4, <1>5, <1>6, <1>8 DEF Branch

LEMMA HistoryGrows ==
    ASSUME LedgerInv, NEW c, commits' = Append(commits, c), UNCHANGED <<tags, torn>>,
           c.release # None => \A f \in Branch.next \ c.tree.next :
              \E v \in DOMAIN c.tree.log \ DOMAIN Branch.log : f \in c.tree.log[v],
           \A v \in DOMAIN tags :
              v \in DOMAIN c.tree.log /\ c.tree.log[v] = After(tags[v]).log[v]
    PROVE  History'
<1>0. PICK n : n = Len(commits')
  OBVIOUS
<1>1. /\ Sequence' /\ DOMAIN commits' = DOMAIN commits \cup {n} /\ commits'[n] = c
      /\ \A k \in DOMAIN commits : commits'[k] = commits[k] /\ After(k)' = After(k) /\ k < n
      /\ \A k \in Releases : /\ k \in DOMAIN commits /\ Before(k)' = Before(k)
                             /\ NewSnapshots(k)' = NewSnapshots(k)
      /\ commits'[n - 1].tree = Branch
      /\ Releases' = Releases \cup (IF c.release = None THEN {} ELSE {n})
  BY <1>0, BranchGrows DEF LedgerInv
<1>2. After(n)' = c.tree /\ Before(n)' = Branch
      /\ NewSnapshots(n)' = DOMAIN c.tree.log \ DOMAIN Branch.log
  BY <1>1 DEF After, Before, NewSnapshots
<1>3. \A v \in DOMAIN tags : tags[v] \in DOMAIN commits /\ tags[v] < n
  BY <1>1 DEF LedgerInv, Sequence
<1>4. NothingLost'
  <2>1. ASSUME NEW k \in Releases', NEW f \in Before(k)'.next \ After(k)'.next
        PROVE  \E v \in NewSnapshots(k)' : f \in After(k)'.log[v]
    <3>1. CASE k \in Releases
      BY <1>1, <2>1, <3>1 DEF LedgerInv, History, NothingLost
    <3>2. CASE k \notin Releases
      <4>1. k = n /\ c.release # None
        BY <1>1, <3>2
      <4>2. f \in Branch.next \ c.tree.next
        BY <1>2, <4>1
      <4>3. \E v \in DOMAIN c.tree.log \ DOMAIN Branch.log : f \in c.tree.log[v]
        BY <4>1, <4>2
      <4> QED
        BY <1>2, <4>1, <4>3
    <3> QED
      BY <3>1, <3>2
  <2> QED
    BY <2>1 DEF NothingLost
<1>5. TagIsRelease'
  BY <1>1, <1>3 DEF LedgerInv, History, TagIsRelease
<1>6. TaggedStays'
  <2>1. ASSUME NEW v \in DOMAIN tags, NEW k \in DOMAIN commits', k > tags[v]
        PROVE  v \in DOMAIN After(k)'.log /\ After(k)'.log[v] = After(tags[v])'.log[v]
    <3>1. CASE k \in DOMAIN commits
      BY <1>1, <1>3, <2>1, <3>1 DEF LedgerInv, History, TaggedStays
    <3>2. CASE k \notin DOMAIN commits
      BY <1>1, <1>2, <1>3, <3>2
    <3> QED
      BY <3>1, <3>2
  <2> QED
    BY <2>1 DEF TaggedStays
<1> QED
  BY <1>4, <1>5, <1>6 DEF History

LEMMA CommitLedger ==
    ASSUME LedgerInv, NEW p \in Releasers, Commit(p)
    PROVE  LedgerInv'
<1> DEFINE c == [release |-> proc[p].version, tree |-> index]
<1>1. /\ commits' = Append(commits, c) /\ c.tree = index /\ c.release = proc[p].version
      /\ UNCHANGED <<tree, index, tags, lock, torn>> /\ proc[p].pc = "commit"
  BY DEF Commit
<1>2. proc'[p].pc = "tag" /\ proc'[p].version = proc[p].version /\ Alone(p) /\ Processes'
  BY GotoFacts DEF LedgerInv, Commit
<1> HIDE DEF c
<1>3. /\ Sequence' /\ Branch' = index /\ commits'[Len(commits')] = c
      /\ \A k \in DOMAIN commits : After(k)' = After(k)
  BY <1>1, BranchGrows DEF LedgerInv
<1>4. History'
  BY <1>1, HistoryGrows DEF LedgerInv, Covers
<1>5. index = tree /\ proc[p].version \in DOMAIN tree.log /\ tree.aggregate = DOMAIN tree.log
  BY <1>1 DEF LedgerInv, StageOK
<1>6. \A v \in DOMAIN tags : tags[v] \in DOMAIN commits
  BY DEF LedgerInv, Sequence
<1>7. Covers(index)' /\ Covers(tree)' /\ Covers(Branch)'
  BY <1>1, <1>3, <1>5, <1>6 DEF LedgerInv, Covers, Shape
<1>8. StageOK(p)'
  BY <1>1, <1>2, <1>3, <1>5 DEF StageOK
<1>9. LockOK' /\ \A q \in Releasers : StageOK(q)'
  BY <1>1, <1>2, <1>8, HolderMoves DEF LedgerInv, Holding
<1> QED
  BY <1>2, <1>3, <1>4, <1>7, <1>9 DEF LedgerInv

LEMMA TagLedger ==
    ASSUME LedgerInv, NEW p \in Releasers, Tag(p)
    PROVE  LedgerInv'
<1> DEFINE v == proc[p].version
<1>1. /\ UNCHANGED <<tree, index, commits, torn>> /\ lock' = None /\ v \notin DOMAIN tags
      /\ tags' = Beside(Entry(v, Len(commits)), tags)
  BY DEF Tag
<1>2. proc'[p].pc = "idle" /\ Alone(p) /\ Processes'
  BY DEF LedgerInv, Processes, Tag, Alone, Idle
<1>3. /\ index = Branch /\ tree = Branch /\ commits[Len(commits)].release = v
      /\ v \in DOMAIN Branch.log /\ Branch.aggregate = DOMAIN Branch.log
  BY DEF LedgerInv, StageOK, Tag
<1>4. \A q \in Releasers : proc'[q].pc \notin Holding
  <2>1. \A q \in Releasers \ {p} : proc[q].pc \notin Holding
    BY OneHolder DEF LedgerInv, Tag, Holding
  <2> QED
    BY <1>2, <2>1 DEF Alone, Holding
<1>5. LockOK' /\ \A q \in Releasers : StageOK(q)'
  BY <1>1, <1>4, LedgerBounds DEF LockOK, StageOK, Holding
<1> HIDE DEF v
<1>6. DOMAIN tags' = {v} \cup DOMAIN tags
  BY <1>1 DEF Beside, Entry
<1>7. tags'[v] = Len(commits) /\ \A w \in DOMAIN tags : tags'[w] = tags[w]
  BY <1>1 DEF Beside, Entry
<1>8. /\ DOMAIN commits = 1..Len(commits) /\ Len(commits) \in Nat /\ Len(commits) >= 1
      /\ Len(commits) \in DOMAIN commits /\ Branch = After(Len(commits))
  BY CommitsFacts DEF LedgerInv
<1>9. /\ Branch' = Branch /\ Releases' = Releases
      /\ \A k : After(k)' = After(k) /\ Before(k)' = Before(k) /\ NewSnapshots(k)' = NewSnapshots(k)
  BY <1>1 DEF Branch, After, Before, NewSnapshots, Releases
<1>10. Sequence'
  BY <1>1, <1>6, <1>7, <1>8 DEF LedgerInv, Sequence
<1>11. Covers(Branch)'
  <2>1. \A w \in DOMAIN tags' : w \in DOMAIN Branch.log /\ Branch.log[w] = After(tags'[w]).log[w]
    BY <1>3, <1>6, <1>7, <1>8 DEF LedgerInv, Covers
  <2>2. \A w \in DOMAIN tags' : After(tags[w])' = After(tags'[w])
    BY <1>1 DEF After
  <2> QED
    BY <1>9, <2>1, <2>2 DEF LedgerInv, Covers, Shape
<1>12. Covers(tree)' /\ Covers(index)'
  BY <1>1, <1>3, <1>9, <1>11 DEF Covers, Shape
<1>13. NothingLost'
  BY <1>9 DEF LedgerInv, History, NothingLost
<1>14. TagIsRelease'
  BY <1>1, <1>3, <1>6, <1>7, <1>8 DEF LedgerInv, History, TagIsRelease, After
<1>15. TaggedStays'
  BY <1>1, <1>6, <1>7, <1>8 DEF LedgerInv, History, TaggedStays, After
<1> QED
  BY <1>2, <1>5, <1>10, <1>11, <1>12, <1>13, <1>14, <1>15 DEF LedgerInv, History

(* What a tag has, a pull request leaves alone.                            *)
LEMMA CheckedPr ==
    ASSUME LedgerInv, NEW new, NEW renamed, CheckPr(Branch, new, Tagged, renamed),
           NEW v \in DOMAIN tags
    PROVE  v \in DOMAIN new.log /\ new.log[v] = After(tags[v]).log[v]
<1>1. v \in DOMAIN Branch.log /\ Branch.log[v] = After(tags[v]).log[v]
  BY DEF LedgerInv, Covers
<1>2. v \in Tagged
  <2>1. v \in DOMAIN commits[tags[v]].tree.log
    BY DEF LedgerInv, History, TagIsRelease, After
  <2> QED
    BY <2>1 DEF Tagged
<1>3. v \notin ChangedSnapshots(Branch, new)
  BY <1>2 DEF CheckPr, Migrated
<1> QED
  BY <1>1, <1>3 DEF ChangedSnapshots

LEMMA ProposalShape ==
    ASSUME Shape(Branch)
    PROVE  /\ \A gone, added : Shape(Replace(gone, added).tree)
           /\ \A v : Shape(Permit(v).tree)
           /\ \A v, permits : Shape(Move(v, permits).tree)
<1>1. Branch = [next |-> Branch.next, log |-> Branch.log, aggregate |-> Branch.aggregate,
                permits |-> Branch.permits, moved |-> Branch.moved]
  BY DEF Shape
<1>2. ASSUME NEW gone, NEW added PROVE Shape(Replace(gone, added).tree)
  <2>1. Replace(gone, added).tree =
           [next |-> (Branch.next \ gone) \cup added, log |-> Branch.log,
            aggregate |-> Branch.aggregate, permits |-> Branch.permits, moved |-> Branch.moved]
    BY <1>1 DEF Replace
  <2> QED
    BY <2>1 DEF Shape
<1>3. ASSUME NEW v PROVE Shape(Permit(v).tree)
  <2>1. Permit(v).tree =
           [next |-> Branch.next, log |-> Branch.log, aggregate |-> Branch.aggregate,
            permits |-> Branch.permits \cup {v}, moved |-> Branch.moved]
    BY <1>1 DEF Permit
  <2> QED
    BY <2>1 DEF Shape
<1>4. ASSUME NEW v, NEW permits PROVE Shape(Move(v, permits).tree)
  <2>1. Move(v, permits).tree =
           [next |-> Branch.next, log |-> WithoutSnapshot(Branch.log, v),
            aggregate |-> Branch.aggregate, permits |-> Branch.permits \cup permits,
            moved |-> Branch.moved \cup {v}]
    BY <1>1 DEF Move
  <2> QED
    BY <2>1 DEF Shape
<1> QED
  BY <1>2, <1>3, <1>4

LEMMA MergeLedger ==
    ASSUME LedgerInv, NEW pr, Shape(pr.tree), Merge(pr)
    PROVE  LedgerInv'
<1> DEFINE c == [release |-> None, tree |-> pr.tree]
           extra == [v \in DOMAIN tree.log \ DOMAIN index.log |-> tree.log[v]]
<1>1. /\ commits' = Append(commits, c) /\ c.tree = pr.tree /\ c.release = None
      /\ UNCHANGED <<tags, lock, proc, torn>> /\ lock = None /\ index' = pr.tree
      /\ tree' = [pr.tree EXCEPT !.log = Beside(@, extra)]
      /\ CheckPr(Branch, pr.tree, Tagged, pr.renamed)
  BY DEF Merge
<1>2. \A q \in Releasers : proc'[q] = proc[q] /\ proc[q].pc \notin Holding
  BY <1>1, LedgerBounds DEF LedgerInv, LockOK
<1>3. LockOK' /\ Processes' /\ \A q \in Releasers : StageOK(q)'
  BY <1>1, <1>2 DEF LedgerInv, LockOK, Processes, StageOK, Holding
<1> HIDE DEF c, extra
<1>4. /\ Sequence' /\ Branch' = pr.tree
      /\ \A k \in DOMAIN commits : After(k)' = After(k)
  BY <1>1, BranchGrows DEF LedgerInv
<1>5. \A v \in DOMAIN tags : v \in DOMAIN pr.tree.log /\ pr.tree.log[v] = After(tags[v]).log[v]
  BY <1>1, CheckedPr
<1>6. History'
  BY <1>1, <1>5, HistoryGrows
<1>7. \A v \in DOMAIN tags : tags[v] \in DOMAIN commits
  BY DEF LedgerInv, Sequence
<1>8. Shape(pr.tree)
  OBVIOUS
<1>9. Covers(Branch)' /\ Covers(index)'
  BY <1>1, <1>4, <1>5, <1>7, <1>8 DEF Covers, Shape
<1> DEFINE log == Beside(pr.tree.log, extra)
<1>10. /\ DOMAIN pr.tree.log \subseteq DOMAIN log
       /\ \A v \in DOMAIN pr.tree.log : log[v] = pr.tree.log[v]
  BY DEF Beside
<1>11. tree' = [pr.tree EXCEPT !.log = log]
  BY <1>1
<1> HIDE DEF log
<1>12. Shape(tree') /\ tree'.log = log /\ tree'.next = pr.tree.next
  BY <1>8, <1>11, NewLog
<1>13. Covers(tree)'
  BY <1>1, <1>4, <1>5, <1>7, <1>10, <1>12 DEF Covers, Shape
<1> QED
  BY <1>3, <1>4, <1>6, <1>9, <1>13 DEF LedgerInv

LEMMA PullRequestLedger == ASSUME LedgerInv, PullRequest PROVE LedgerInv'
<1>1. Shape(Branch)
  BY DEF LedgerInv, Covers
<1>2. CASE \E gone, added : Merge(Replace(gone, added))
  <2>1. PICK gone, added : Merge(Replace(gone, added))
    BY <1>2
  <2> QED
    BY <1>1, <2>1, ProposalShape, MergeLedger
<1>3. CASE \E v : Merge(Permit(v))
  <2>1. PICK v : Merge(Permit(v))
    BY <1>3
  <2> QED
    BY <1>1, <2>1, ProposalShape, MergeLedger
<1>4. CASE \E v, permits : Merge(Move(v, permits))
  <2>1. PICK v, permits : Merge(Move(v, permits))
    BY <1>4
  <2> QED
    BY <1>1, <2>1, ProposalShape, MergeLedger
<1> QED
  BY <1>2, <1>3, <1>4 DEF PullRequest

LEMMA NextLedger == LedgerInv /\ [Next]_vars => LedgerInv'
<1> SUFFICES ASSUME LedgerInv, [Next]_vars PROVE LedgerInv'
  OBVIOUS
<1>1. CASE UNCHANGED vars
  <2>1. LockOK' /\ Processes' /\ \A q \in Releasers : StageOK(q)'
    BY <1>1 DEF vars, LedgerInv, LockOK, Processes, StageOK, Branch
  <2> QED
    BY <1>1, <2>1, SameCovers, WorkLedger DEF vars, LedgerInv, Sequence
<1>2. ASSUME NEW p \in Releasers, Release(p) PROVE LedgerInv'
  BY <1>2, StartLedger, StatusLedger, LockLedger, SelectLedger, WriteSnapshotLedger, UnlinkLedger,
     WriteAggregateLedger, AddLedger, CommitLedger, TagLedger, QuitLedger DEF Release
<1>3. CASE PullRequest
  BY <1>3, PullRequestLedger
<1>4. ASSUME NEW cleaned \in BOOLEAN, Restore(cleaned) PROVE LedgerInv'
  BY <1>4, RestoreLedger
<1> QED
  BY <1>1, <1>2, <1>3, <1>4 DEF Next

(* The invariant: the working tree, the index and the branch each have     *)
(* what the branch has, or a new snapshot of it.                           *)
THEOREM LedgerHolds == Spec => []LedgerInv
<1> QED
  BY InitLedger, NextLedger, PTL DEF Spec

(* No fragment leaves NEXT/ but into a snapshot that is released with it,  *)
(* however many releases died before (release, git add and commit).        *)
THEOREM NothingIsLost == Spec => []NothingLost
<1>1. LedgerInv => NothingLost
  BY DEF LedgerInv, History
<1> QED
  BY <1>1, LedgerHolds, PTL

(* A tag names the commit of its release, with its snapshot and a          *)
(* CHANGELOG.md of all of them (release, git tag).                         *)
THEOREM TagsAreReleases == Spec => []TagIsRelease
<1>1. LedgerInv => TagIsRelease
  BY DEF LedgerInv, History
<1> QED
  BY <1>1, LedgerHolds, PTL

(* What a tag has stays as it was, through releases and the pull requests  *)
(* that check-pr accepts.                                                  *)
THEOREM TaggedIsImmutable == Spec => []TaggedStays
<1>1. LedgerInv => TaggedStays
  BY DEF LedgerInv, History
<1> QED
  BY <1>1, LedgerHolds, PTL

-------------------------------------------------------------------------------
(* Unless a release died halfway, the tree has what the branch has, and    *)
(* what the release in progress has made of it.                            *)

IsLog(log) == log = [v \in DOMAIN log |-> log[v]]

Kept == tree.log = Branch.log /\ tree.next = Branch.next

(* The checks of the release have passed.                                  *)
Chosen(p) ==
    /\ proc[p].selected \subseteq Branch.next
    /\ proc[p].version \notin DOMAIN Branch.log
    /\ Branch.log # << >> => proc[p].version = NextVersion(Branch.log, proc[p].selected)

CourseOK(p) ==
    /\ proc[p].pc \in {"select", "snapshot", "tag"} => Kept
    /\ proc[p].pc \in {"snapshot", "unlink", "add", "commit"} => Chosen(p)
    /\ proc[p].pc \in {"unlink", "add", "commit"} =>
          /\ tree.log = Beside(Entry(proc[p].version, proc[p].selected), Branch.log)
          /\ tree.next \subseteq Branch.next
    /\ proc[p].pc \in {"add", "commit"} => tree.next \cap proc[p].selected = {}

(* A fragment that is in a snapshot was in NEXT/ once and is there no more.*)
Moved ==
    \A v \in DOMAIN Branch.log :
       /\ Branch.log[v] \cap Branch.next = {}
       /\ \A f \in Branch.log[v] : ~ NewFragment(f)

Undisturbed ==
    torn = 0 =>
       /\ IsLog(Branch.log) /\ Moved
       /\ lock = None => Kept
       /\ \A p \in Releasers : CourseOK(p)

OrderInv == LedgerInv /\ Undisturbed /\ ReleasedOnce /\ VersionFollows

LEMMA InitOrder == Init => OrderInv
<1> SUFFICES ASSUME Init PROVE OrderInv
  OBVIOUS
<1>1. commits = <<[release |-> None, tree |-> FirstTree]>> /\ tree = FirstTree
  BY DEF Init
<1>2. DOMAIN commits = {1} /\ Len(commits) = 1 /\ commits[1].tree = FirstTree /\ commits[1].release = None
  BY <1>1
<1>3. Branch = FirstTree
  BY <1>2 DEF Branch
<1>4. /\ IsLog(FirstTree.log) /\ DOMAIN FirstTree.log = {<<0, 1, 0>>}
      /\ \A v \in DOMAIN FirstTree.log : FirstTree.log[v] = {}
  BY DEF FirstTree, Entry, IsLog
<1>5. Moved /\ Kept
  BY <1>1, <1>3, <1>4 DEF Moved, Kept
<1>6. \A p \in Releasers : CourseOK(p)
  BY DEF Init, Idle, CourseOK
<1>7. Undisturbed
  BY <1>3, <1>4, <1>5, <1>6 DEF Undisturbed
<1>8. ReleasedOnce
  BY <1>2, <1>4 DEF ReleasedOnce, After
<1>9. VersionFollows
  BY <1>2 DEF VersionFollows, Releases
<1> QED
  BY <1>7, <1>8, <1>9, InitLedger DEF OrderInv

(* No commit is made.                                                      *)
LEMMA WorkOrder ==
    ASSUME OrderInv, LedgerInv', UNCHANGED commits,
           torn' = 0 => /\ torn = 0 /\ (lock' = None => Kept')
                        /\ \A q \in Releasers : CourseOK(q)'
    PROVE  OrderInv'
<1>1. /\ Branch' = Branch /\ Releases' = Releases
      /\ \A k : /\ After(k)' = After(k) /\ Before(k)' = Before(k)
                /\ NewSnapshots(k)' = NewSnapshots(k)
      /\ \A f : NewFragment(f)' = NewFragment(f)
  BY DEF Branch, Releases, After, Before, NewSnapshots, NewFragment
<1>2. Undisturbed'
  BY <1>1 DEF OrderInv, Undisturbed, IsLog, Moved
<1>3. ReleasedOnce' /\ VersionFollows'
  BY <1>1 DEF OrderInv, ReleasedOnce, VersionFollows
<1> QED
  BY <1>2, <1>3 DEF OrderInv

LEMMA HolderCourse ==
    ASSUME LockOK, NEW p \in Releasers, proc[p].pc \in Holding, Alone(p), CourseOK(p)'
    PROVE  lock # None /\ \A q \in Releasers : CourseOK(q)'
<1>1. lock # None
  BY OneHolder, LedgerBounds
<1>2. ASSUME NEW q \in Releasers \ {p} PROVE CourseOK(q)'
  <2>1. proc'[q].pc \notin Holding
    BY OneHolder DEF Alone
  <2> QED
    BY <2>1 DEF CourseOK, Holding
<1> QED
  BY <1>1, <1>2

LEMMA SameCourse ==
    ASSUME UNCHANGED <<tree, commits>>
    PROVE  /\ Branch' = Branch /\ Kept' = Kept
           /\ \A q \in Releasers : proc'[q] = proc[q] /\ CourseOK(q) => CourseOK(q)'
<1>1. Branch' = Branch
  BY DEF Branch
<1>2. Kept' = Kept
  BY <1>1 DEF Kept
<1>3. ASSUME NEW q \in Releasers, proc'[q] = proc[q], CourseOK(q) PROVE CourseOK(q)'
  BY <1>1, <1>2, <1>3 DEF CourseOK, Chosen
<1> QED
  BY <1>1, <1>2, <1>3

LEMMA OutsiderOrder ==
    ASSUME OrderInv, LedgerInv', NEW p \in Releasers, proc'[p].pc \notin Holding, Alone(p),
           UNCHANGED <<tree, commits, lock, torn>>
    PROVE  OrderInv'
<1>1. CourseOK(p)'
  BY DEF CourseOK, Holding
<1> QED
  BY <1>1, SameCourse, WorkOrder DEF OrderInv, Undisturbed, Alone

LEMMA StartOrder ==
    ASSUME OrderInv, LedgerInv', NEW p \in Releasers,
           CheckStatus(p) \/ \E names \in SUBSET Fragments : Start(p, names)
    PROVE  OrderInv'
<1>1. proc'[p].pc \in {"status", "lock"} /\ Alone(p)
  BY DEF OrderInv, LedgerInv, Processes, CheckStatus, Start, Goto, Alone
<1> QED
  BY <1>1, OutsiderOrder DEF CheckStatus, Start, Holding

LEMMA LockOrder ==
    ASSUME OrderInv, LedgerInv', NEW p \in Releasers, Lock(p)
    PROVE  OrderInv'
<1>1. proc'[p].pc = "select" /\ Alone(p)
  BY GotoFacts DEF OrderInv, LedgerInv, Lock
<1>2. lock = None /\ lock' # None /\ UNCHANGED <<tree, commits, torn>>
  BY LedgerBounds DEF Lock
<1>3. ASSUME torn = 0 PROVE \A q \in Releasers : CourseOK(q)'
  <2>1. Kept'
    BY <1>2, <1>3, SameCourse DEF OrderInv, Undisturbed
  <2>2. CourseOK(p)'
    BY <1>1, <2>1 DEF CourseOK
  <2> QED
    BY <1>1, <1>2, <1>3, <2>2, SameCourse DEF OrderInv, Undisturbed, Alone
<1> QED
  BY <1>2, <1>3, WorkOrder

LEMMA SelectOrder ==
    ASSUME OrderInv, LedgerInv', NEW p \in Releasers, Select(p)
    PROVE  OrderInv'
<1>1. /\ proc[p].pc = "select" /\ UNCHANGED <<tree, commits, lock, torn>>
      /\ proc[p].version \notin DOMAIN tree.log /\ Selected(proc[p].names) \subseteq tree.next
      /\ BumpFits(proc[p].version, Selected(proc[p].names))
  BY DEF Select
<1>2. /\ proc'[p].pc = "snapshot" /\ proc'[p].version = proc[p].version
      /\ proc'[p].selected = Selected(proc[p].names) /\ Alone(p)
  BY SelectFacts DEF OrderInv, LedgerInv
<1>3. ASSUME torn = 0 PROVE CourseOK(p)'
  <2>1. Kept
    BY <1>1, <1>3 DEF OrderInv, Undisturbed, CourseOK
  <2>2. Kept' /\ Branch' = Branch
    BY <1>1, <2>1, SameCourse
  <2>3. Chosen(p)'
    BY <1>1, <1>2, <2>1, <2>2 DEF Chosen, Kept, BumpFits
  <2> QED
    BY <1>2, <2>2, <2>3 DEF CourseOK
<1> QED
  BY <1>1, <1>2, <1>3, HolderCourse, WorkOrder DEF OrderInv, LedgerInv, Holding

LEMMA WriteSnapshotOrder ==
    ASSUME OrderInv, LedgerInv', NEW p \in Releasers, WriteSnapshot(p)
    PROVE  OrderInv'
<1>1. /\ proc[p].pc = "snapshot" /\ UNCHANGED <<commits, lock, torn>>
      /\ tree' = [tree EXCEPT !.log = Beside(Entry(proc[p].version, proc[p].selected), @)]
  BY DEF WriteSnapshot
<1>2. /\ proc'[p].pc = "unlink" /\ proc'[p].version = proc[p].version
      /\ proc'[p].selected = proc[p].selected /\ Alone(p)
  BY GotoFacts DEF OrderInv, LedgerInv, WriteSnapshot
<1>3. /\ tree'.log = Beside(Entry(proc[p].version, proc[p].selected), tree.log)
      /\ tree'.next = tree.next
  BY <1>1, NewLog DEF OrderInv, LedgerInv, Covers
<1>4. ASSUME torn = 0 PROVE CourseOK(p)'
  <2>1. Kept /\ Chosen(p)
    BY <1>1, <1>4 DEF OrderInv, Undisturbed, CourseOK
  <2>2. Branch' = Branch
    BY <1>1 DEF Branch
  <2>3. Chosen(p)'
    BY <1>2, <2>1, <2>2 DEF Chosen
  <2> QED
    BY <1>2, <1>3, <2>1, <2>2, <2>3 DEF CourseOK, Kept
<1> QED
  BY <1>1, <1>2, <1>4, HolderCourse, WorkOrder DEF OrderInv, LedgerInv, Holding

LEMMA UnlinkOrder ==
    ASSUME OrderInv, LedgerInv', NEW p \in Releasers, Unlink(p)
    PROVE  OrderInv'
<1>1. proc[p].pc = "unlink" /\ UNCHANGED <<commits, lock, proc, torn>> /\ Alone(p)
  BY DEF Unlink, Alone
<1>2. PICK f : tree' = [tree EXCEPT !.next = @ \ {f}]
  BY DEF Unlink
<1>3. tree'.log = tree.log /\ tree'.next = tree.next \ {f}
  <2>1. tree = [next |-> tree.next, log |-> tree.log, aggregate |-> tree.aggregate,
                permits |-> tree.permits, moved |-> tree.moved]
    BY DEF OrderInv, LedgerInv, Covers, Shape
  <2> QED
    BY <1>2, <2>1
<1>4. ASSUME torn = 0 PROVE CourseOK(p)'
  <2>1. Branch' = Branch
    BY <1>1 DEF Branch
  <2> QED
    BY <1>1, <1>3, <1>4, <2>1 DEF OrderInv, Undisturbed, CourseOK, Chosen
<1> QED
  BY <1>1, <1>4, HolderCourse, WorkOrder DEF OrderInv, LedgerInv, Holding

LEMMA WriteAggregateOrder ==
    ASSUME OrderInv, LedgerInv', NEW p \in Releasers, WriteAggregate(p)
    PROVE  OrderInv'
<1>1. /\ proc[p].pc = "unlink" /\ UNCHANGED <<commits, lock, torn>>
      /\ proc[p].selected \cap tree.next = {}
      /\ tree' = [tree EXCEPT !.aggregate = DOMAIN tree.log]
  BY DEF WriteAggregate, Unlinked
<1>2. /\ proc'[p].pc = "add" /\ proc'[p].version = proc[p].version
      /\ proc'[p].selected = proc[p].selected /\ Alone(p)
  BY GotoFacts DEF OrderInv, LedgerInv, WriteAggregate
<1>3. tree'.log = tree.log /\ tree'.next = tree.next
  <2>1. tree = [next |-> tree.next, log |-> tree.log, aggregate |-> tree.aggregate,
                permits |-> tree.permits, moved |-> tree.moved]
    BY DEF OrderInv, LedgerInv, Covers, Shape
  <2> QED
    BY <1>1, <2>1
<1>4. ASSUME torn = 0 PROVE CourseOK(p)'
  <2>1. Branch' = Branch
    BY <1>1 DEF Branch
  <2> QED
    BY <1>1, <1>2, <1>3, <1>4, <2>1 DEF OrderInv, Undisturbed, CourseOK, Chosen
<1> QED
  BY <1>1, <1>2, <1>4, HolderCourse, WorkOrder DEF OrderInv, LedgerInv, Holding

LEMMA AddOrder ==
    ASSUME OrderInv, LedgerInv', NEW p \in Releasers, Add(p)
    PROVE  OrderInv'
<1>1. proc[p].pc = "add" /\ UNCHANGED <<tree, commits, lock, torn>>
  BY DEF Add
<1>2. /\ proc'[p].pc = "commit" /\ proc'[p].version = proc[p].version
      /\ proc'[p].selected = proc[p].selected /\ Alone(p)
  BY GotoFacts DEF OrderInv, LedgerInv, Add
<1>3. ASSUME torn = 0 PROVE CourseOK(p)'
  <2>1. Branch' = Branch
    BY <1>1 DEF Branch
  <2> QED
    BY <1>1, <1>2, <1>3, <2>1 DEF OrderInv, Undisturbed, CourseOK, Chosen
<1> QED
  BY <1>1, <1>2, <1>3, HolderCourse, WorkOrder DEF OrderInv, LedgerInv, Holding

LEMMA TagOrder ==
    ASSUME OrderInv, LedgerInv', NEW p \in Releasers, Tag(p)
    PROVE  OrderInv'
<1>1. proc[p].pc = "tag" /\ UNCHANGED <<tree, commits, torn>>
  BY DEF Tag
<1>2. proc'[p].pc = "idle" /\ Alone(p)
  BY DEF OrderInv, LedgerInv, Processes, Tag, Alone, Idle
<1>3. ASSUME torn = 0 PROVE Kept' /\ \A q \in Releasers : CourseOK(q)'
  <2>1. Kept'
    BY <1>1, <1>3, SameCourse DEF OrderInv, Undisturbed, CourseOK
  <2>2. CourseOK(p)'
    BY <1>2 DEF CourseOK
  <2> QED
    BY <1>1, <1>2, <1>3, <2>1, <2>2, SameCourse DEF OrderInv, Undisturbed, Alone
<1> QED
  BY <1>1, <1>3, WorkOrder

LEMMA QuitOrder ==
    ASSUME OrderInv, LedgerInv', NEW p \in Releasers, Quit(p)
    PROVE  OrderInv'
<1>1. /\ UNCHANGED <<tree, commits>> /\ lock' = IF lock = p THEN None ELSE lock
      /\ proc[p].pc \in {"unlink", "add", "commit"} => torn' = torn + 1
      /\ proc[p].pc \notin {"unlink", "add", "commit"} => torn' = torn
  BY DEF Quit
<1>2. proc'[p].pc = "idle" /\ Alone(p)
  BY DEF OrderInv, LedgerInv, Processes, Quit, Alone, Idle
<1>3. CourseOK(p)'
  BY <1>2 DEF CourseOK
<1>4. ASSUME torn' = 0 PROVE torn = 0 /\ proc[p].pc \notin {"unlink", "add", "commit"}
  BY <1>1, <1>4 DEF OrderInv, LedgerInv, Sequence
<1>5. ASSUME torn' = 0, lock' = None PROVE Kept
  <2>1. CASE lock = p
    BY <1>4, <1>5, <2>1 DEF OrderInv, LedgerInv, LockOK, Holding, Undisturbed, CourseOK
  <2>2. CASE lock # p
    BY <1>1, <1>4, <1>5, <2>2 DEF OrderInv, Undisturbed
  <2> QED
    BY <2>1, <2>2
<1> QED
  BY <1>1, <1>2, <1>3, <1>4, <1>5, SameCourse, WorkOrder DEF OrderInv, Undisturbed, Alone

LEMMA BesideNothing ==
    ASSUME NEW log, IsLog(log), NEW more, \A v \in DOMAIN more : v \in DOMAIN log
    PROVE  Beside(log, more) = log
BY DEF Beside, IsLog

LEMMA RestoreOrder ==
    ASSUME OrderInv, LedgerInv', NEW cleaned \in BOOLEAN, Restore(cleaned)
    PROVE  OrderInv'
<1>1. /\ lock = None /\ UNCHANGED <<commits, lock, proc, torn>>
      /\ tree' = [Branch EXCEPT !.log = IF cleaned THEN @ ELSE Beside(@, tree.log)]
  BY DEF Restore
<1>2. \A q \in Releasers : proc'[q].pc \notin Holding
  BY <1>1, LedgerBounds DEF OrderInv, LedgerInv, LockOK
<1>3. \A q \in Releasers : CourseOK(q)'
  BY <1>2 DEF CourseOK, Holding
<1>4. ASSUME torn = 0 PROVE Kept'
  <2> DEFINE log == IF cleaned THEN Branch.log ELSE Beside(Branch.log, tree.log)
  <2>1. tree.log = Branch.log /\ IsLog(Branch.log)
    BY <1>1, <1>4 DEF OrderInv, Undisturbed, Kept
  <2>2. log = Branch.log
    BY <2>1, BesideNothing
  <2>3. tree' = [Branch EXCEPT !.log = log] /\ Shape(Branch)
    BY <1>1 DEF OrderInv, LedgerInv, Covers
  <2> HIDE DEF log
  <2>4. tree'.log = log /\ tree'.next = Branch.next
    BY <2>3, NewLog
  <2> QED
    BY <1>1, <2>2, <2>4 DEF Kept, Branch
<1> QED
  BY <1>1, <1>3, <1>4, WorkOrder

-------------------------------------------------------------------------------
(* The branch grows by c.                                                  *)
LEMMA OrderGrows ==
    ASSUME LedgerInv, ReleasedOnce, VersionFollows,
           NEW c, commits' = Append(commits, c), UNCHANGED <<tags, torn>>,
           torn = 0 =>
              /\ \A v, w \in DOMAIN c.tree.log : v # w => c.tree.log[v] \cap c.tree.log[w] = {}
              /\ c.release # None =>
                    /\ DOMAIN c.tree.log \ DOMAIN Branch.log = {c.release}
                    /\ Branch.log # << >> =>
                          c.release = NextVersion(Branch.log, c.tree.log[c.release])
    PROVE  ReleasedOnce' /\ VersionFollows'
<1>0. PICK n : n = Len(commits')
  OBVIOUS
<1>1. /\ DOMAIN commits' = DOMAIN commits \cup {n} /\ commits'[n] = c
      /\ \A k \in DOMAIN commits : commits'[k] = commits[k] /\ After(k)' = After(k)
      /\ \A k \in Releases : /\ k \in DOMAIN commits /\ Before(k)' = Before(k)
                             /\ NewSnapshots(k)' = NewSnapshots(k)
      /\ commits'[n - 1].tree = Branch
      /\ Releases' = Releases \cup (IF c.release = None THEN {} ELSE {n})
  BY <1>0, BranchGrows DEF LedgerInv
<1>2. After(n)' = c.tree /\ Before(n)' = Branch
      /\ NewSnapshots(n)' = DOMAIN c.tree.log \ DOMAIN Branch.log
  BY <1>1 DEF After, Before, NewSnapshots
<1>3. ASSUME torn = 0, NEW k \in DOMAIN commits', NEW v \in DOMAIN After(k)'.log,
             NEW w \in DOMAIN After(k)'.log, v # w
      PROVE  After(k)'.log[v] \cap After(k)'.log[w] = {}
  BY <1>1, <1>2, <1>3 DEF ReleasedOnce
<1>4. ReleasedOnce'
  BY <1>3 DEF ReleasedOnce
<1>5. ASSUME torn = 0, NEW k \in Releases'
      PROVE  /\ NewSnapshots(k)' = {commits'[k].release}
             /\ Before(k)'.log # << >> =>
                   commits'[k].release = NextVersion(Before(k)'.log, After(k)'.log[commits'[k].release])
  <2>1. CASE k \in Releases
    BY <1>1, <1>5, <2>1 DEF VersionFollows
  <2>2. CASE k \notin Releases
    <3>1. k = n /\ c.release # None
      BY <1>1, <2>2
    <3> QED
      BY <1>1, <1>2, <1>5, <3>1
  <2> QED
    BY <2>1, <2>2
<1>6. VersionFollows'
  BY <1>5 DEF VersionFollows
<1> QED
  BY <1>4, <1>6

LEMMA OldNames ==
    ASSUME Sequence, NEW c, commits' = Append(commits, c), UNCHANGED <<tags, torn>>
    PROVE  /\ \A f : ~ NewFragment(f) => ~ NewFragment(f)'
           /\ \A f \in Branch.next : ~ NewFragment(f)'
<1>1. /\ DOMAIN commits \subseteq DOMAIN commits'
      /\ \A k \in DOMAIN commits : commits'[k] = commits[k]
  BY BranchGrows
<1>2. Len(commits) \in DOMAIN commits /\ Branch = commits[Len(commits)].tree
  BY CommitsFacts DEF Branch
<1> QED
  BY <1>1, <1>2 DEF NewFragment

LEMMA CommitOrder ==
    ASSUME OrderInv, LedgerInv', NEW p \in Releasers, Commit(p)
    PROVE  OrderInv'
<1> DEFINE c == [release |-> proc[p].version, tree |-> index]
           new == proc[p].version
           added == proc[p].selected
<1>1. /\ commits' = Append(commits, c) /\ c.tree = index /\ c.release = new
      /\ UNCHANGED <<tree, index, tags, lock, torn>> /\ proc[p].pc = "commit"
  BY DEF Commit
<1>2. proc'[p].pc = "tag" /\ Alone(p)
  BY GotoFacts DEF OrderInv, LedgerInv, Commit
<1> HIDE DEF c
<1>3. index = tree
  BY <1>1 DEF OrderInv, LedgerInv, StageOK
<1>4. Branch' = tree
  BY <1>1, <1>3, BranchGrows DEF OrderInv, LedgerInv
<1>5. Kept'
  BY <1>1, <1>4 DEF Kept
<1>6. CourseOK(p)'
  BY <1>2, <1>5 DEF CourseOK
<1>7. lock # None /\ \A q \in Releasers : CourseOK(q)'
  BY <1>1, <1>2, <1>6, HolderCourse DEF OrderInv, LedgerInv, Holding
<1>8. ASSUME torn = 0
      PROVE  /\ IsLog(Branch.log) /\ Moved /\ Chosen(p)
             /\ tree.log = Beside(Entry(new, added), Branch.log)
             /\ tree.next \subseteq Branch.next /\ tree.next \cap added = {}
  BY <1>1, <1>8 DEF OrderInv, Undisturbed, CourseOK
<1>9. ASSUME torn = 0
      PROVE  /\ DOMAIN tree.log = DOMAIN Branch.log \cup {new} /\ new \notin DOMAIN Branch.log
             /\ tree.log[new] = added /\ added \subseteq Branch.next
             /\ \A v \in DOMAIN Branch.log : tree.log[v] = Branch.log[v]
             /\ IsLog(tree.log)
  <2>1. new \notin DOMAIN Branch.log /\ added \subseteq Branch.next
    BY <1>8, <1>9 DEF Chosen
  <2>2. tree.log = Beside(Entry(new, added), Branch.log)
    BY <1>8, <1>9
  <2> QED
    BY <2>1, <2>2 DEF Beside, Entry, IsLog
<1>10. ASSUME torn = 0 PROVE Moved'
  <2>1. /\ \A f : ~ NewFragment(f) => ~ NewFragment(f)'
        /\ \A f \in Branch.next : ~ NewFragment(f)'
    BY <1>1, OldNames DEF OrderInv, LedgerInv
  <2>2. ASSUME NEW v \in DOMAIN tree.log
        PROVE  tree.log[v] \cap tree.next = {} /\ \A f \in tree.log[v] : ~ NewFragment(f)'
    <3>1. CASE v = new
      BY <1>8, <1>9, <1>10, <2>1, <3>1
    <3>2. CASE v \in DOMAIN Branch.log
      BY <1>8, <1>9, <1>10, <2>1, <3>2 DEF Moved
    <3> QED
      BY <1>9, <1>10, <3>1, <3>2
  <2> QED
    BY <1>4, <2>2 DEF Moved
<1>11. Undisturbed'
  BY <1>1, <1>4, <1>5, <1>7, <1>9, <1>10 DEF Undisturbed, IsLog
<1>12. ASSUME torn = 0
       PROVE  /\ \A v, w \in DOMAIN c.tree.log : v # w => c.tree.log[v] \cap c.tree.log[w] = {}
              /\ c.release # None =>
                    /\ DOMAIN c.tree.log \ DOMAIN Branch.log = {c.release}
                    /\ Branch.log # << >> =>
                          c.release = NextVersion(Branch.log, c.tree.log[c.release])
  <2>1. \A v, w \in DOMAIN Branch.log : v # w => Branch.log[v] \cap Branch.log[w] = {}
    <3>1. Len(commits) \in DOMAIN commits /\ Branch = After(Len(commits))
      BY CommitsFacts DEF OrderInv, LedgerInv
    <3> QED
      BY <1>12, <3>1 DEF OrderInv, ReleasedOnce
  <2>2. \A v \in DOMAIN Branch.log : Branch.log[v] \cap added = {}
    BY <1>8, <1>9, <1>12 DEF Moved
  <2>3. \A v, w \in DOMAIN tree.log : v # w => tree.log[v] \cap tree.log[w] = {}
    BY <1>9, <1>12, <2>1, <2>2
  <2>4. DOMAIN tree.log \ DOMAIN Branch.log = {new}
    BY <1>9, <1>12
  <2>5. Branch.log # << >> => new = NextVersion(Branch.log, tree.log[new])
    BY <1>8, <1>9, <1>12 DEF Chosen
  <2> QED
    BY <1>1, <1>3, <2>3, <2>4, <2>5
<1>13. ReleasedOnce' /\ VersionFollows'
  BY <1>1, <1>12, OrderGrows DEF OrderInv
<1> QED
  BY <1>11, <1>13 DEF OrderInv

LEMMA MergeOrder ==
    ASSUME OrderInv, LedgerInv', NEW pr, Shape(pr.tree), Merge(pr),
           IsLog(Branch.log) => IsLog(pr.tree.log),
           \A f \in pr.tree.next \ Branch.next : NewFragment(f)
    PROVE  OrderInv'
<1> DEFINE c == [release |-> None, tree |-> pr.tree]
           extra == [v \in DOMAIN tree.log \ DOMAIN index.log |-> tree.log[v]]
<1>1. /\ commits' = Append(commits, c) /\ c.tree = pr.tree /\ c.release = None
      /\ UNCHANGED <<tags, lock, proc, torn>> /\ lock = None
      /\ tree' = [pr.tree EXCEPT !.log = Beside(@, extra)] /\ index = Branch
      /\ CheckPr(Branch, pr.tree, Tagged, pr.renamed)
  BY DEF Merge, Clean
<1>2. \A q \in Releasers : CourseOK(q)'
  <2>1. \A q \in Releasers : proc'[q].pc \notin Holding
    BY <1>1, LedgerBounds DEF OrderInv, LedgerInv, LockOK
  <2> QED
    BY <2>1 DEF CourseOK, Holding
<1> HIDE DEF c
<1>3. Branch' = pr.tree
  BY <1>1, BranchGrows DEF OrderInv, LedgerInv
<1>4. \A v \in DOMAIN pr.tree.log : v \in DOMAIN Branch.log /\ pr.tree.log[v] = Branch.log[v]
  BY <1>1 DEF CheckPr, Migrated, ChangedSnapshots
<1>5. ASSUME torn = 0
      PROVE  tree.log = Branch.log /\ IsLog(Branch.log) /\ Moved
  BY <1>1, <1>5 DEF OrderInv, Undisturbed, Kept
<1>6. ASSUME torn = 0 PROVE Kept'
  <2>1. IsLog(pr.tree.log)
    BY <1>5, <1>6
  <2>2. DOMAIN extra = {}
    BY <1>1, <1>5, <1>6
  <2> HIDE DEF extra
  <2>3. Beside(pr.tree.log, extra) = pr.tree.log
    BY <2>1, <2>2, BesideNothing
  <2> DEFINE log == Beside(pr.tree.log, extra)
  <2>4. tree' = [pr.tree EXCEPT !.log = log]
    BY <1>1
  <2> HIDE DEF log
  <2>5. tree'.log = log /\ tree'.next = pr.tree.next
    BY <2>4, NewLog
  <2> QED
    BY <1>3, <2>3, <2>5 DEF Kept, log
<1>7. ASSUME torn = 0 PROVE Moved'
  <2>1. \A f : ~ NewFragment(f) => ~ NewFragment(f)'
    BY <1>1, OldNames DEF OrderInv, LedgerInv
  <2>2. \A v \in DOMAIN Branch.log :
           Branch.log[v] \cap Branch.next = {} /\ \A f \in Branch.log[v] : ~ NewFragment(f)
    BY <1>5, <1>7 DEF Moved
  <2>3. ASSUME NEW v \in DOMAIN pr.tree.log
        PROVE  pr.tree.log[v] \cap pr.tree.next = {} /\ \A f \in pr.tree.log[v] : ~ NewFragment(f)'
    BY <1>4, <2>1, <2>2
  <2> QED
    BY <1>3, <2>3 DEF Moved
<1>8. Undisturbed'
  BY <1>1, <1>2, <1>3, <1>5, <1>6, <1>7 DEF Undisturbed
<1>9. ASSUME torn = 0
      PROVE  \A v, w \in DOMAIN c.tree.log : v # w => c.tree.log[v] \cap c.tree.log[w] = {}
  <2>1. Len(commits) \in DOMAIN commits /\ Branch = After(Len(commits))
    BY CommitsFacts DEF OrderInv, LedgerInv
  <2>2. \A v, w \in DOMAIN Branch.log : v # w => Branch.log[v] \cap Branch.log[w] = {}
    BY <1>9, <2>1 DEF OrderInv, ReleasedOnce
  <2> QED
    BY <1>1, <1>4, <2>2
<1>10. ReleasedOnce' /\ VersionFollows'
  BY <1>1, <1>9, OrderGrows DEF OrderInv
<1> QED
  BY <1>8, <1>10 DEF OrderInv

LEMMA PullRequestOrder == ASSUME OrderInv, LedgerInv', PullRequest PROVE OrderInv'
<1>1. Shape(Branch)
  BY DEF OrderInv, LedgerInv, Covers
<1>2. Branch = [next |-> Branch.next, log |-> Branch.log, aggregate |-> Branch.aggregate,
                permits |-> Branch.permits, moved |-> Branch.moved]
  BY <1>1 DEF Shape
<1>3. CASE \E gone : \E added \in OneOrNone({f \in Fragments : NewFragment(f)}) :
              Merge(Replace(gone, added))
  <2>1. PICK gone, added : /\ Merge(Replace(gone, added))
                           /\ \A f \in added : NewFragment(f)
    BY <1>3 DEF OneOrNone
  <2>2. /\ Replace(gone, added).tree.log = Branch.log
        /\ Replace(gone, added).tree.next = (Branch.next \ gone) \cup added
    BY <1>2 DEF Replace
  <2> QED
    BY <1>1, <2>1, <2>2, ProposalShape, MergeOrder
<1>4. CASE \E v : Merge(Permit(v))
  <2>1. PICK v : Merge(Permit(v))
    BY <1>4
  <2>2. Permit(v).tree.log = Branch.log /\ Permit(v).tree.next = Branch.next
    BY <1>2 DEF Permit
  <2> QED
    BY <1>1, <2>1, <2>2, ProposalShape, MergeOrder
<1>5. CASE \E v, permits : Merge(Move(v, permits))
  <2>1. PICK v, permits : Merge(Move(v, permits))
    BY <1>5
  <2>2. /\ Move(v, permits).tree.log = WithoutSnapshot(Branch.log, v)
        /\ Move(v, permits).tree.next = Branch.next
    BY <1>2 DEF Move
  <2>3. IsLog(WithoutSnapshot(Branch.log, v))
    BY DEF IsLog, WithoutSnapshot
  <2> QED
    BY <1>1, <2>1, <2>2, <2>3, ProposalShape, MergeOrder
<1> QED
  BY <1>3, <1>4, <1>5 DEF PullRequest

LEMMA NextOrder == OrderInv /\ [Next]_vars => OrderInv'
<1> SUFFICES ASSUME OrderInv, [Next]_vars PROVE OrderInv'
  OBVIOUS
<1>1. LedgerInv'
  BY NextLedger DEF OrderInv
<1>2. CASE UNCHANGED vars
  BY <1>1, <1>2, SameCourse, WorkOrder DEF vars, OrderInv, Undisturbed
<1>3. ASSUME NEW p \in Releasers, Release(p) PROVE OrderInv'
  BY <1>1, <1>3, StartOrder, LockOrder, SelectOrder, WriteSnapshotOrder, UnlinkOrder,
     WriteAggregateOrder, AddOrder, CommitOrder, TagOrder, QuitOrder DEF Release
<1>4. CASE PullRequest
  BY <1>1, <1>4, PullRequestOrder
<1>5. ASSUME NEW cleaned \in BOOLEAN, Restore(cleaned) PROVE OrderInv'
  BY <1>1, <1>5, RestoreOrder
<1> QED
  BY <1>2, <1>3, <1>4, <1>5 DEF Next

(* The invariant: where no release died halfway, the tree has what the     *)
(* branch has and what the release in progress added, and no fragment of a *)
(* snapshot comes back to NEXT/.                                           *)
THEOREM OrderHolds == Spec => []OrderInv
<1> QED
  BY InitOrder, NextOrder, PTL DEF Spec

(* Unless a release died between its snapshot and its commit, a fragment   *)
(* is in one snapshot at most (release, check_pr).                         *)
THEOREM FragmentsReleasedOnce == Spec => []ReleasedOnce
<1>1. OrderInv => ReleasedOnce
  BY DEF OrderInv
<1> QED
  BY <1>1, OrderHolds, PTL

(* Unless a release died there, every release adds its own snapshot, and   *)
(* its version is the one that its fragments make of those before it,      *)
(* although it was computed before the lock was taken                      *)
(* (validate_release_bump).                                                *)
THEOREM VersionsFollow == Spec => []VersionFollows
<1>1. OrderInv => VersionFollows
  BY DEF OrderInv
<1> QED
  BY <1>1, OrderHolds, PTL

-------------------------------------------------------------------------------
(* The types.  A log is finite, so that it has a newest version, which the *)
(* next one follows.                                                       *)
LogOK(log) ==
    /\ IsLog(log)
    /\ IsFiniteSet(DOMAIN log) /\ DOMAIN log \subseteq Version
    /\ \A v \in DOMAIN log : log[v] \subseteq Fragments

TreeOK(t) ==
    /\ Shape(t)
    /\ t.next \subseteq Fragments /\ LogOK(t.log)
    /\ t.aggregate \subseteq Version /\ t.permits \subseteq Version /\ t.moved \subseteq Version

ProcOK(p) ==
    /\ proc[p].pc \in {"idle", "status", "lock"} \cup Holding
    /\ proc[p].pc # "idle" => proc[p].version \in Version
    /\ proc[p].names \subseteq Fragments /\ proc[p].selected \subseteq Fragments

Typed ==
    /\ TreeOK(tree) /\ TreeOK(index)
    /\ \A k \in DOMAIN commits : TreeOK(commits[k].tree)
    /\ lock \in Releasers \cup {None}
    /\ \A p \in Releasers : ProcOK(p)

TypeInv == LedgerInv /\ Typed

LEMMA TypedImplies == TypeInv => TypeOK
<1> SUFFICES ASSUME TypeInv PROVE TypeOK
  OBVIOUS
<1>1. ASSUME NEW t, TreeOK(t),
             t \in {tree, index} \cup {commits[k].tree : k \in DOMAIN commits}
      PROVE  t \in Tree
  <2>1. t.log \in {tree.log, index.log} \cup {commits[k].tree.log : k \in DOMAIN commits}
    BY <1>1
  <2>2. t = [next |-> t.next, log |-> t.log, aggregate |-> t.aggregate,
             permits |-> t.permits, moved |-> t.moved]
    BY <1>1 DEF TreeOK, Shape
  <2>3. /\ t.next \subseteq Fragments /\ t.aggregate \subseteq Version
        /\ t.permits \subseteq Version /\ t.moved \subseteq Version
    BY <1>1 DEF TreeOK
  <2> DEFINE logs == {tree.log, index.log} \cup {commits[k].tree.log : k \in DOMAIN commits}
  <2>4. t.log \in logs
    BY <2>1
  <2> HIDE DEF logs
  <2>5. t \in [next : SUBSET Fragments, log : logs, aggregate : SUBSET Version,
               permits : SUBSET Version, moved : SUBSET Version]
    BY <2>2, <2>3, <2>4
  <2> QED
    BY <2>5 DEF Tree, logs
<1>2. {tree, index} \subseteq Tree /\ \A k \in DOMAIN commits : commits[k].tree \in Tree
  <2>1. TreeOK(tree) /\ TreeOK(index) /\ \A k \in DOMAIN commits : TreeOK(commits[k].tree)
    BY DEF TypeInv, Typed
  <2> QED
    BY <1>1, <2>1
<1>3. \A v \in DOMAIN tree.log : v \in Version /\ tree.log[v] \subseteq Fragments
  BY DEF TypeInv, Typed, TreeOK, LogOK
<1>4. ASSUME NEW p \in Releasers
      PROVE  /\ proc[p].pc \in {"idle", "status", "lock", "select", "snapshot", "unlink",
                                "add", "commit", "tag"}
             /\ proc[p].pc \in {"idle", "status", "lock"} <=> lock # p
  <2>1. /\ proc[p].pc \in {"idle", "status", "lock"} \cup Holding
        /\ proc[p].pc \in Holding <=> lock = p
    BY DEF TypeInv, Typed, ProcOK, LedgerInv, LockOK
  <2> QED
    BY <2>1 DEF Holding
<1>5. /\ \A v \in DOMAIN tags : tags[v] \in DOMAIN commits
      /\ lock \in Releasers \cup {None}
  BY DEF TypeInv, Typed, LedgerInv, Sequence
<1> QED
  BY <1>2, <1>3, <1>4, <1>5 DEF TypeOK

(* Of finitely many versions one has no newer: the one with the fewest     *)
(* newer ones.                                                             *)
LEMMA SmallestSet ==
    ASSUME NEW A, IsFiniteSet(A), NEW T \in SUBSET (SUBSET A), T # {}
    PROVE  \E x \in T : \A y \in T : y \subseteq x => y = x
<1>1. IsWellFoundedOn(StrictSubsetOrdering(A), SUBSET A)
  BY FS_StrictSubsetOrderingWellFounded, FS_FiniteSubsetsOfFinite, Zenon
<1>2. PICK x \in T : \A y \in T : ~ (<<y, x>> \in StrictSubsetOrdering(A))
  BY <1>1, WFMin, Zenon
<1>3. \A y \in T : ~ (y \subseteq x /\ y # x)
  BY <1>2 DEF StrictSubsetOrdering
<1> QED
  BY <1>3

LEMMA VersionParts ==
    ASSUME NEW v \in Version
    PROVE  v[1] \in Nat /\ v[2] \in Nat /\ v[3] \in Nat
BY DEF Version

LEMMA OlderOrders ==
    /\ \A a \in Version : ~ Older(a, a)
    /\ \A a, b, c \in Version : Older(a, b) /\ Older(b, c) => Older(a, c)
<1>1. \A a \in Version : ~ Older(a, a)
  BY VersionParts DEF Older
<1>2. ASSUME NEW a \in Version, NEW b \in Version, NEW c \in Version, Older(a, b), Older(b, c)
      PROVE  Older(a, c)
  <2>1. /\ a[1] \in Nat /\ a[2] \in Nat /\ a[3] \in Nat
        /\ b[1] \in Nat /\ b[2] \in Nat /\ b[3] \in Nat
        /\ c[1] \in Nat /\ c[2] \in Nat /\ c[3] \in Nat
    BY VersionParts
  <2> QED
    BY <1>2, <2>1 DEF Older
<1> QED
  BY <1>1, <1>2

LEMMA NewestIs ==
    ASSUME NEW log, IsFiniteSet(DOMAIN log), DOMAIN log \subseteq Version, DOMAIN log # {}
    PROVE  /\ Newest(log) \in DOMAIN log
           /\ \A w \in DOMAIN log : ~ Older(Newest(log), w)
<1> DEFINE Newer(v) == {w \in DOMAIN log : Older(v, w)}
           T == {Newer(v) : v \in DOMAIN log}
<1>1. PICK x \in T : \A y \in T : y \subseteq x => y = x
  <2>1. T \in SUBSET (SUBSET DOMAIN log) /\ T # {}
    OBVIOUS
  <2> HIDE DEF T
  <2> QED
    BY <2>1, SmallestSet
<1>2. PICK v \in DOMAIN log : x = Newer(v)
  BY <1>1
<1>3. ASSUME NEW w \in DOMAIN log, Older(v, w) PROVE FALSE
  <2>1. Newer(w) \subseteq Newer(v)
    BY <1>3, OlderOrders
  <2>2. Newer(w) \in T
    OBVIOUS
  <2>3. Newer(w) = Newer(v)
    BY <1>1, <1>2, <2>1, <2>2
  <2>4. w \in Newer(v) /\ w \notin Newer(w)
    BY <1>3, OlderOrders
  <2> QED
    BY <2>3, <2>4
<1>4. \E u \in DOMAIN log : \A w \in DOMAIN log : ~ Older(u, w)
  BY <1>3
<1> QED
  BY <1>4, Zenon DEF Newest

LEMMA NextVersionIs ==
    ASSUME NEW log, LogOK(log), NEW selected
    PROVE  NextVersion(log, selected) \in Version
<1>1. CASE log = << >>
  BY <1>1 DEF NextVersion, Version
<1>2. CASE log # << >>
  <2>1. DOMAIN log # {}
    <3> SUFFICES ASSUME DOMAIN log = {} PROVE log = << >>
      BY <1>2
    <3>1. log = [v \in {} |-> log[v]]
      BY DEF LogOK, IsLog
    <3> QED
      BY <3>1
  <2>2. Newest(log) \in Version
    BY <2>1, NewestIs DEF LogOK
  <2> DEFINE v == Newest(log)
  <2>3. v[1] \in Nat /\ v[2] \in Nat /\ v[3] \in Nat
    BY <2>2, VersionParts
  <2> HIDE DEF v
  <2>4. \A impact : Bump(v, impact) \in Version
    BY <2>3 DEF Bump, Version
  <2>5. NextVersion(log, selected) = Bump(v, ReleaseImpact(selected))
    BY <1>2 DEF NextVersion, v
  <2> QED
    BY <2>4, <2>5
<1> QED
  BY <1>1, <1>2

(* For every log and every selection: the version that next-version prints *)
(* is newer than every snapshot (derived_release_bump).                    *)
THEOREM NextVersionIsNewest ==
    ASSUME NEW log, LogOK(log), log # << >>, NEW selected, NEW w \in DOMAIN log
    PROVE  Older(w, NextVersion(log, selected))
<1> DEFINE v == Newest(log)
<1>1. DOMAIN log # {} /\ DOMAIN log \subseteq Version /\ IsFiniteSet(DOMAIN log)
  BY DEF LogOK
<1>2. v \in Version /\ w \in Version /\ ~ Older(v, w)
  BY <1>1, NewestIs
<1>3. /\ v[1] \in Nat /\ v[2] \in Nat /\ v[3] \in Nat
      /\ w[1] \in Nat /\ w[2] \in Nat /\ w[3] \in Nat
  BY <1>2, VersionParts
<1> HIDE DEF v
<1>4. NextVersion(log, selected) = Bump(v, ReleaseImpact(selected))
  BY DEF NextVersion, v
<1>5. ASSUME NEW impact PROVE Older(w, Bump(v, impact))
  <2>1. CASE impact = "major"
    <3>1. Bump(v, impact) = <<v[1] + 1, 0, 0>>
      BY <2>1 DEF Bump
    <3> QED
      BY <1>2, <1>3, <3>1 DEF Older
  <2>2. CASE impact = "minor"
    <3>1. Bump(v, impact) = <<v[1], v[2] + 1, 0>>
      BY <2>2 DEF Bump
    <3> QED
      BY <1>2, <1>3, <3>1 DEF Older
  <2>3. CASE impact # "major" /\ impact # "minor"
    <3>1. Bump(v, impact) = <<v[1], v[2], v[3] + 1>>
      BY <2>3 DEF Bump
    <3> QED
      BY <1>2, <1>3, <3>1 DEF Older
  <2> QED
    BY <2>1, <2>2, <2>3
<1> QED
  BY <1>4, <1>5

-------------------------------------------------------------------------------
(* How a log changes: entries come beside it or leave it.                  *)
LEMMA LogGrows ==
    ASSUME NEW more, LogOK(more), NEW log, LogOK(log)
    PROVE  LogOK(Beside(more, log))
<1>1. DOMAIN Beside(more, log) = DOMAIN more \cup DOMAIN log
  BY DEF Beside
<1>2. IsFiniteSet(DOMAIN Beside(more, log))
  BY <1>1, FS_Union DEF LogOK
<1>3. IsLog(Beside(more, log))
  BY DEF IsLog, Beside
<1>4. \A v \in DOMAIN more \cup DOMAIN log : Beside(more, log)[v] \subseteq Fragments
  BY DEF LogOK, Beside
<1> QED
  BY <1>1, <1>2, <1>3, <1>4 DEF LogOK

LEMMA LogShrinks ==
    ASSUME NEW log, LogOK(log), NEW S, S \subseteq DOMAIN log
    PROVE  LogOK([v \in S |-> log[v]])
<1>1. IsFiniteSet(S)
  BY FS_Subset DEF LogOK
<1> QED
  BY <1>1 DEF LogOK, IsLog

LEMMA LogOfOne ==
    ASSUME NEW v \in Version, NEW what \in SUBSET Fragments
    PROVE  LogOK(Entry(v, what))
<1>1. DOMAIN Entry(v, what) = {v} /\ Entry(v, what)[v] = what /\ IsLog(Entry(v, what))
  BY DEF Entry, IsLog
<1>2. IsFiniteSet({v})
  BY FS_Singleton
<1> QED
  BY <1>1, <1>2 DEF LogOK

LEMMA TreeWithLog ==
    ASSUME NEW t, TreeOK(t), NEW log, LogOK(log)
    PROVE  TreeOK([t EXCEPT !.log = log])
BY NewLog DEF TreeOK

LEMMA BranchOK == ASSUME TypeInv PROVE TreeOK(Branch)
<1>1. Len(commits) \in DOMAIN commits
  BY CommitsFacts DEF TypeInv, LedgerInv
<1> QED
  BY <1>1 DEF TypeInv, Typed, Branch

(* Where the branch stays and the types of a tree, the index and the       *)
(* processes are known.                                                    *)
LEMMA TypedWork ==
    ASSUME Typed, UNCHANGED commits, TreeOK(tree'), TreeOK(index'),
           lock' \in Releasers \cup {None}, \A p \in Releasers : ProcOK(p)'
    PROVE  Typed'
<1>1. \A t : TreeOK(t)' <=> TreeOK(t)
  BY DEF TreeOK, Shape, LogOK, IsLog
<1>2. TreeOK(tree)' /\ TreeOK(index)'
  BY DEF TreeOK, Shape, LogOK, IsLog
<1>3. \A k \in DOMAIN commits' : TreeOK(commits[k].tree)'
  BY DEF Typed, TreeOK, Shape, LogOK, IsLog
<1> QED
  BY <1>2, <1>3 DEF Typed

LEMMA GotoOK ==
    ASSUME TypeInv, NEW p \in Releasers, proc[p].pc # "idle",
           NEW pc \in {"status", "lock"} \cup Holding, Goto(p, pc)
    PROVE  \A q \in Releasers : ProcOK(q)'
<1>1. /\ proc' = [proc EXCEPT ![p].pc = pc]
      /\ proc = [q \in Releasers |-> proc[q]]
      /\ proc[p] = [pc |-> proc[p].pc, version |-> proc[p].version,
                    names |-> proc[p].names, selected |-> proc[p].selected]
  BY DEF Goto, TypeInv, LedgerInv, Processes
<1>2. /\ proc'[p].pc = pc /\ proc'[p].version = proc[p].version
      /\ proc'[p].names = proc[p].names /\ proc'[p].selected = proc[p].selected
  BY <1>1
<1>3. \A q \in Releasers \ {p} : proc'[q] = proc[q]
  BY <1>1
<1>4. ProcOK(p) /\ \A q \in Releasers : ProcOK(q)
  BY DEF TypeInv, Typed
<1>5. ProcOK(p)'
  BY <1>2, <1>4 DEF ProcOK, Holding
<1>6. \A q \in Releasers \ {p} : ProcOK(q)'
  BY <1>3, <1>4 DEF ProcOK
<1> QED
  BY <1>5, <1>6

LEMMA IdleOK ==
    ASSUME TypeInv, NEW p \in Releasers, proc' = [proc EXCEPT ![p] = Idle]
    PROVE  \A q \in Releasers : ProcOK(q)'
<1>1. /\ proc'[p] = Idle /\ \A q \in Releasers \ {p} : proc'[q] = proc[q]
  BY DEF TypeInv, LedgerInv, Processes
<1>2. \A q \in Releasers : ProcOK(q)
  BY DEF TypeInv, Typed
<1>3. ProcOK(p)'
  BY <1>1 DEF ProcOK, Idle
<1>4. \A q \in Releasers \ {p} : ProcOK(q)'
  BY <1>1, <1>2 DEF ProcOK
<1> QED
  BY <1>3, <1>4

LEMMA InitTyped == Init => Typed
<1> SUFFICES ASSUME Init PROVE Typed
  OBVIOUS
<1>1. <<0, 1, 0>> \in Version
  BY DEF Version
<1>2. TreeOK(FirstTree)
  <2>1. LogOK(FirstTree.log)
    BY <1>1, LogOfOne DEF FirstTree
  <2> QED
    BY <1>1, <2>1, LedgerBounds DEF FirstTree, TreeOK, Shape
<1>3. \A k \in DOMAIN commits : commits[k].tree = FirstTree
  <2>1. commits = <<[release |-> None, tree |-> FirstTree]>>
    BY DEF Init
  <2>2. DOMAIN commits = {1} /\ commits[1].tree = FirstTree
    BY <2>1
  <2> QED
    BY <2>2
<1>4. \A p \in Releasers : ProcOK(p)
  BY DEF Init, Idle, ProcOK
<1> QED
  BY <1>2, <1>3, <1>4 DEF Typed, Init

LEMMA StartTyped == ASSUME TypeInv, NEW p \in Releasers, NEW names, Start(p, names) PROVE Typed'
<1>1. NextVersion(tree.log, Selected(names)) \in Version /\ names \subseteq Fragments
  BY NextVersionIs DEF TypeInv, Typed, TreeOK, Start
<1> DEFINE version == NextVersion(tree.log, Selected(names))
<1>2. /\ proc'[p] = [pc |-> "status", version |-> version, names |-> names, selected |-> {}]
      /\ \A q \in Releasers \ {p} : proc'[q] = proc[q]
  BY DEF Start, TypeInv, LedgerInv, Processes
<1> HIDE DEF version
<1>3. ProcOK(p)'
  <2>1. version \in Version
    BY <1>1 DEF version
  <2> QED
    BY <1>1, <1>2, <2>1 DEF ProcOK
<1>4. \A q \in Releasers \ {p} : ProcOK(q)'
  BY <1>2 DEF TypeInv, Typed, ProcOK
<1> QED
  BY <1>3, <1>4, TypedWork DEF TypeInv, Typed, Start

LEMMA SelectTyped == ASSUME TypeInv, NEW p \in Releasers, Select(p) PROVE Typed'
<1>1. /\ proc'[p].pc = "snapshot" /\ proc'[p].version = proc[p].version
      /\ proc'[p].selected = Selected(proc[p].names) /\ Alone(p)
  BY SelectFacts DEF TypeInv, LedgerInv
<1>2. proc'[p].names = proc[p].names
  <2>1. /\ proc = [q \in Releasers |-> proc[q]]
        /\ proc[p] = [pc |-> proc[p].pc, version |-> proc[p].version,
                      names |-> proc[p].names, selected |-> proc[p].selected]
    BY DEF TypeInv, LedgerInv, Processes
  <2>2. proc'[p] = [proc[p] EXCEPT !.pc = "snapshot", !.selected = Selected(proc[p].names)]
    BY <2>1 DEF Select
  <2> QED
    BY <2>1, <2>2
<1>3. \A q \in Releasers : ProcOK(q)
  BY DEF TypeInv, Typed
<1>4. Selected(proc[p].names) \subseteq Fragments
  BY <1>3 DEF Selected, TypeInv, Typed, TreeOK, ProcOK
<1>5. ProcOK(p)'
  BY <1>1, <1>2, <1>3, <1>4 DEF ProcOK, Select, Holding
<1>6. \A q \in Releasers \ {p} : ProcOK(q)'
  BY <1>1, <1>3 DEF ProcOK, Alone
<1> QED
  BY <1>5, <1>6, TypedWork DEF TypeInv, Typed, Select

LEMMA WriteSnapshotTyped ==
    ASSUME TypeInv, NEW p \in Releasers, WriteSnapshot(p) PROVE Typed'
<1>1. proc[p].version \in Version /\ proc[p].selected \in SUBSET Fragments
  BY DEF TypeInv, Typed, ProcOK, WriteSnapshot
<1> DEFINE log == Beside(Entry(proc[p].version, proc[p].selected), tree.log)
<1>2. LogOK(log)
  BY <1>1, LogOfOne, LogGrows DEF TypeInv, Typed, TreeOK
<1>3. tree' = [tree EXCEPT !.log = log]
  BY DEF WriteSnapshot
<1> HIDE DEF log
<1>4. TreeOK(tree')
  BY <1>2, <1>3, TreeWithLog DEF TypeInv, Typed
<1>5. \A q \in Releasers : ProcOK(q)'
  BY GotoOK DEF WriteSnapshot, Holding
<1> QED
  BY <1>4, <1>5, TypedWork DEF TypeInv, Typed, WriteSnapshot

LEMMA UnlinkTyped == ASSUME TypeInv, NEW p \in Releasers, Unlink(p) PROVE Typed'
<1>1. PICK f : tree' = [tree EXCEPT !.next = @ \ {f}]
  BY DEF Unlink
<1>2. TreeOK(tree) /\ tree = [next |-> tree.next, log |-> tree.log, aggregate |-> tree.aggregate,
                              permits |-> tree.permits, moved |-> tree.moved]
  BY DEF TypeInv, Typed, TreeOK, Shape
<1>3. tree' = [next |-> tree.next \ {f}, log |-> tree.log, aggregate |-> tree.aggregate,
               permits |-> tree.permits, moved |-> tree.moved]
  BY <1>1, <1>2
<1>4. TreeOK(tree')
  BY <1>2, <1>3 DEF TreeOK, Shape
<1>5. \A q \in Releasers : ProcOK(q)'
  BY DEF TypeInv, Typed, ProcOK, Unlink
<1> QED
  BY <1>4, <1>5, TypedWork DEF TypeInv, Typed, Unlink

LEMMA WriteAggregateTyped ==
    ASSUME TypeInv, NEW p \in Releasers, WriteAggregate(p) PROVE Typed'
<1>1. TreeOK(tree) /\ tree = [next |-> tree.next, log |-> tree.log, aggregate |-> tree.aggregate,
                              permits |-> tree.permits, moved |-> tree.moved]
  BY DEF TypeInv, Typed, TreeOK, Shape
<1>2. tree' = [next |-> tree.next, log |-> tree.log, aggregate |-> DOMAIN tree.log,
               permits |-> tree.permits, moved |-> tree.moved]
  BY <1>1 DEF WriteAggregate
<1>3. TreeOK(tree')
  BY <1>1, <1>2 DEF TreeOK, Shape, LogOK
<1>4. \A q \in Releasers : ProcOK(q)'
  BY GotoOK DEF WriteAggregate, Holding
<1> QED
  BY <1>3, <1>4, TypedWork DEF TypeInv, Typed, WriteAggregate

(* The status, the lock, git add, and the end of a release.                *)
LEMMA OtherTyped ==
    ASSUME TypeInv, NEW p \in Releasers,
           CheckStatus(p) \/ Lock(p) \/ Add(p) \/ Tag(p) \/ Quit(p)
    PROVE  Typed'
<1>1. CASE CheckStatus(p)
  <2>1. \A q \in Releasers : ProcOK(q)'
    BY <1>1, GotoOK DEF CheckStatus
  <2> QED
    BY <1>1, <2>1, TypedWork DEF TypeInv, Typed, CheckStatus
<1>2. CASE Lock(p)
  <2>1. \A q \in Releasers : ProcOK(q)'
    BY <1>2, GotoOK DEF Lock, Holding
  <2> QED
    BY <1>2, <2>1, TypedWork DEF TypeInv, Typed, Lock
<1>3. CASE Add(p)
  <2>1. \A q \in Releasers : ProcOK(q)'
    BY <1>3, GotoOK DEF Add, Holding
  <2> QED
    BY <1>3, <2>1, TypedWork DEF TypeInv, Typed, Add
<1>4. CASE Tag(p)
  <2>1. \A q \in Releasers : ProcOK(q)'
    BY <1>4, IdleOK DEF Tag
  <2> QED
    BY <1>4, <2>1, TypedWork DEF TypeInv, Typed, Tag
<1>5. CASE Quit(p)
  <2>1. \A q \in Releasers : ProcOK(q)'
    BY <1>5, IdleOK DEF Quit
  <2> QED
    BY <1>5, <2>1, TypedWork DEF TypeInv, Typed, Quit
<1> QED
  BY <1>1, <1>2, <1>3, <1>4, <1>5

(* The branch grows by a commit whose tree is well-formed.                 *)
LEMMA TypedGrows ==
    ASSUME TypeInv, NEW c, commits' = Append(commits, c), TreeOK(c.tree),
           TreeOK(tree'), TreeOK(index'), lock' \in Releasers \cup {None},
           \A p \in Releasers : ProcOK(p)'
    PROVE  Typed'
<1>1. \A t : TreeOK(t)' <=> TreeOK(t)
  BY DEF TreeOK, Shape, LogOK, IsLog
<1>2. TreeOK(tree)' /\ TreeOK(index)'
  BY DEF TreeOK, Shape, LogOK, IsLog
<1>3. PICK n : n = Len(commits')
  OBVIOUS
<1>4. /\ DOMAIN commits' = DOMAIN commits \cup {n} /\ commits'[n] = c
      /\ \A k \in DOMAIN commits : commits'[k] = commits[k]
  BY <1>3, AppendCommit DEF TypeInv, LedgerInv
<1>5. \A k \in DOMAIN commits' : TreeOK(commits'[k].tree)
  BY <1>4 DEF TypeInv, Typed
<1>6. \A k \in DOMAIN commits' : TreeOK(commits[k].tree)'
  BY <1>5 DEF TreeOK, Shape, LogOK, IsLog
<1> QED
  BY <1>2, <1>6 DEF Typed

LEMMA CommitTyped == ASSUME TypeInv, NEW p \in Releasers, Commit(p) PROVE Typed'
<1> DEFINE c == [release |-> proc[p].version, tree |-> index]
<1>1. commits' = Append(commits, c) /\ c.tree = index /\ UNCHANGED <<tree, index, lock>>
  BY DEF Commit
<1> HIDE DEF c
<1>2. \A q \in Releasers : ProcOK(q)'
  BY GotoOK DEF Commit, Holding
<1> QED
  BY <1>1, <1>2, TypedGrows DEF TypeInv, Typed

LEMMA RestoreTyped == ASSUME TypeInv, NEW cleaned \in BOOLEAN, Restore(cleaned) PROVE Typed'
<1> DEFINE log == IF cleaned THEN Branch.log ELSE Beside(Branch.log, tree.log)
<1>1. LogOK(log)
  BY BranchOK, LogGrows DEF TypeInv, Typed, TreeOK
<1>2. tree' = [Branch EXCEPT !.log = log]
  BY DEF Restore
<1> HIDE DEF log
<1>3. TreeOK(tree') /\ TreeOK(index')
  BY <1>1, <1>2, BranchOK, TreeWithLog DEF Restore
<1>4. \A q \in Releasers : ProcOK(q)'
  BY DEF TypeInv, Typed, ProcOK, Restore
<1> QED
  BY <1>3, <1>4, TypedWork DEF TypeInv, Typed, Restore

LEMMA MergeTyped == ASSUME TypeInv, NEW pr, TreeOK(pr.tree), Merge(pr) PROVE Typed'
<1> DEFINE c == [release |-> None, tree |-> pr.tree]
           extra == [v \in DOMAIN tree.log \ DOMAIN index.log |-> tree.log[v]]
           log == Beside(pr.tree.log, extra)
<1>1. /\ commits' = Append(commits, c) /\ c.tree = pr.tree
      /\ UNCHANGED <<lock, proc>> /\ index' = pr.tree
      /\ tree' = [pr.tree EXCEPT !.log = log]
  BY DEF Merge
<1>2. LogOK(extra)
  <2>1. DOMAIN tree.log \ DOMAIN index.log \subseteq DOMAIN tree.log
    OBVIOUS
  <2> QED
    BY <2>1, LogShrinks DEF TypeInv, Typed, TreeOK
<1> HIDE DEF c, extra
<1>3. LogOK(log)
  BY <1>2, LogGrows DEF TreeOK
<1> HIDE DEF log
<1>4. TreeOK(tree')
  BY <1>1, <1>3, TreeWithLog
<1>5. \A q \in Releasers : ProcOK(q)'
  BY <1>1 DEF TypeInv, Typed, ProcOK
<1> QED
  BY <1>1, <1>4, <1>5, TypedGrows DEF TypeInv, Typed

LEMMA ProposalTyped ==
    ASSUME TreeOK(Branch)
    PROVE  /\ \A gone, added : added \subseteq Fragments => TreeOK(Replace(gone, added).tree)
           /\ \A v \in DOMAIN Branch.log : TreeOK(Permit(v).tree)
           /\ \A v \in DOMAIN Branch.log : \A permits \in SUBSET DOMAIN Branch.log :
                 TreeOK(Move(v, permits).tree)
<1>1. Branch = [next |-> Branch.next, log |-> Branch.log, aggregate |-> Branch.aggregate,
                permits |-> Branch.permits, moved |-> Branch.moved]
  BY DEF TreeOK, Shape
<1>2. DOMAIN Branch.log \subseteq Version /\ LogOK(Branch.log)
  BY DEF TreeOK, LogOK
<1>3. ASSUME NEW gone, NEW added, added \subseteq Fragments
      PROVE  TreeOK(Replace(gone, added).tree)
  <2>1. Replace(gone, added).tree =
           [next |-> (Branch.next \ gone) \cup added, log |-> Branch.log,
            aggregate |-> Branch.aggregate, permits |-> Branch.permits, moved |-> Branch.moved]
    BY <1>1 DEF Replace
  <2> QED
    BY <1>3, <2>1 DEF TreeOK, Shape
<1>4. ASSUME NEW v \in DOMAIN Branch.log PROVE TreeOK(Permit(v).tree)
  <2>1. Permit(v).tree =
           [next |-> Branch.next, log |-> Branch.log, aggregate |-> Branch.aggregate,
            permits |-> Branch.permits \cup {v}, moved |-> Branch.moved]
    BY <1>1 DEF Permit
  <2> QED
    BY <1>2, <2>1 DEF TreeOK, Shape
<1>5. ASSUME NEW v \in DOMAIN Branch.log, NEW permits \in SUBSET DOMAIN Branch.log
      PROVE  TreeOK(Move(v, permits).tree)
  <2>1. Move(v, permits).tree =
           [next |-> Branch.next, log |-> WithoutSnapshot(Branch.log, v),
            aggregate |-> Branch.aggregate, permits |-> Branch.permits \cup permits,
            moved |-> Branch.moved \cup {v}]
    BY <1>1 DEF Move
  <2>2. LogOK(WithoutSnapshot(Branch.log, v))
    <3>1. DOMAIN Branch.log \ {v} \subseteq DOMAIN Branch.log
      OBVIOUS
    <3> QED
      BY <1>2, <3>1, LogShrinks DEF WithoutSnapshot
  <2> QED
    BY <1>2, <2>1, <2>2 DEF TreeOK, Shape
<1> QED
  BY <1>3, <1>4, <1>5

LEMMA PullRequestTyped == ASSUME TypeInv, PullRequest PROVE Typed'
<1>1. TreeOK(Branch)
  BY BranchOK
<1>2. ASSUME NEW gone, NEW added \in OneOrNone({f \in Fragments : NewFragment(f)}),
             Merge(Replace(gone, added))
      PROVE  Typed'
  <2>1. added \subseteq Fragments
    BY DEF OneOrNone
  <2> QED
    BY <1>1, <1>2, <2>1, ProposalTyped, MergeTyped
<1>3. ASSUME NEW v \in DOMAIN Branch.log, Merge(Permit(v)) PROVE Typed'
  BY <1>1, <1>3, ProposalTyped, MergeTyped
<1>4. ASSUME NEW v \in DOMAIN Branch.log, NEW permits \in SUBSET DOMAIN Branch.log,
             Merge(Move(v, permits))
      PROVE  Typed'
  BY <1>1, <1>4, ProposalTyped, MergeTyped
<1> QED
  BY <1>2, <1>3, <1>4 DEF PullRequest

LEMMA NextTyped == TypeInv /\ [Next]_vars => TypeInv'
<1> SUFFICES ASSUME TypeInv, [Next]_vars PROVE Typed'
  BY NextLedger DEF TypeInv
<1>1. CASE UNCHANGED vars
  <2>1. \A q \in Releasers : ProcOK(q)'
    BY <1>1 DEF vars, TypeInv, Typed, ProcOK
  <2> QED
    BY <1>1, <2>1, TypedWork DEF vars, TypeInv, Typed
<1>2. ASSUME NEW p \in Releasers, Release(p) PROVE Typed'
  BY <1>2, StartTyped, SelectTyped, WriteSnapshotTyped, UnlinkTyped, WriteAggregateTyped,
     OtherTyped, CommitTyped DEF Release
<1>3. CASE PullRequest
  BY <1>3, PullRequestTyped
<1>4. ASSUME NEW cleaned \in BOOLEAN, Restore(cleaned) PROVE Typed'
  BY <1>4, RestoreTyped
<1> QED
  BY <1>1, <1>2, <1>3, <1>4 DEF Next

(* In every reachable state the trees, the tags and the processes are      *)
(* well-formed: logs are finite, versions are versions, and one process at *)
(* most is past the lock (release).                                        *)
THEOREM LedgerTypeCorrect == Spec => []TypeOK
<1>1. Init => TypeInv
  BY InitLedger, InitTyped DEF TypeInv
<1> QED
  BY NextTyped, TypedImplies, <1>1, PTL DEF Spec

-------------------------------------------------------------------------------
(* Whatever died before it, a release is newer than what its branch has:   *)
(* select_fragments and validate_release_bump look at the tree under the   *)
(* lock, the tree has every snapshot of the branch, and the branch stays   *)
(* until the release commits.                                              *)
ReleasesAscend ==
    \A k \in Releases : \A v \in DOMAIN Before(k).log : Older(v, commits[k].release)

Passed == {"snapshot", "unlink", "add", "commit"}

Ahead(p) == proc[p].pc \in Passed => \A v \in DOMAIN Branch.log : Older(v, proc[p].version)

AscendInv == TypeInv /\ (\A p \in Releasers : Ahead(p)) /\ ReleasesAscend

(* The branch stays, and no process but q passes the checks.               *)
LEMMA AscendWork ==
    ASSUME AscendInv, TypeInv', UNCHANGED commits,
           \A p \in Releasers : \/ /\ proc'[p].pc \in Passed => proc[p].pc \in Passed
                                   /\ proc'[p].version = proc[p].version
                                \/ proc'[p].pc \notin Passed
                                \/ Ahead(p)'
    PROVE  AscendInv'
<1>1. Branch' = Branch /\ \A k : Before(k)' = Before(k)
  BY DEF Branch, Before
<1>2. Releases' = Releases
  BY DEF Releases
<1>3. ReleasesAscend'
  BY <1>1, <1>2 DEF AscendInv, ReleasesAscend
<1>4. \A p \in Releasers : Ahead(p)'
  BY <1>1 DEF AscendInv, Ahead
<1> QED
  BY <1>3, <1>4 DEF AscendInv

(* The branch grows by c while no other process is past the checks.        *)
LEMMA AscendGrows ==
    ASSUME AscendInv, TypeInv', NEW c, commits' = Append(commits, c),
           \A p \in Releasers : proc'[p].pc \notin Passed,
           c.release # None => \A v \in DOMAIN Branch.log : Older(v, c.release)
    PROVE  AscendInv'
<1>1. PICK n : n = Len(commits')
  OBVIOUS
<1>2. Sequence
  BY DEF AscendInv, TypeInv, LedgerInv
<1>3. /\ DOMAIN commits' = DOMAIN commits \cup {n} /\ n \notin DOMAIN commits
      /\ commits'[n] = c /\ \A k \in DOMAIN commits : commits'[k] = commits[k]
      /\ n = Len(commits) + 1 /\ Len(commits) \in DOMAIN commits /\ Len(commits) \in Nat
      /\ DOMAIN commits = 1..Len(commits) /\ commits[1].release = None
  BY <1>1, <1>2, AppendCommit, CommitsFacts DEF Sequence
<1>4. ASSUME NEW k \in DOMAIN commits', commits'[k].release # None,
             NEW v \in DOMAIN commits'[k - 1].tree.log
      PROVE  Older(v, commits'[k].release)
  <2>1. CASE k = n
    <3>1. k - 1 = Len(commits) /\ commits'[k - 1] = commits[Len(commits)] /\ commits'[k] = c
      BY <1>3, <2>1
    <3> QED
      BY <1>4, <3>1 DEF Branch
  <2>2. CASE k \in DOMAIN commits
    <3>1. commits'[k] = commits[k] /\ commits[k].release # None
      BY <1>3, <1>4, <2>2
    <3>2. k # 1 /\ k - 1 \in DOMAIN commits
      BY <1>3, <2>2, <3>1
    <3>3. commits'[k - 1] = commits[k - 1]
      BY <1>3, <3>2
    <3> QED
      BY <1>4, <2>2, <3>1, <3>3 DEF AscendInv, ReleasesAscend, Releases, Before
  <2> QED
    BY <1>3, <2>1, <2>2
<1>5. ReleasesAscend'
  BY <1>4 DEF ReleasesAscend, Releases, Before
<1>6. \A p \in Releasers : Ahead(p)'
  BY DEF Ahead
<1> QED
  BY <1>5, <1>6 DEF AscendInv

LEMMA AscendSelect == ASSUME AscendInv, TypeInv', NEW p \in Releasers, Select(p) PROVE AscendInv'
<1>1. /\ proc'[p].version = proc[p].version /\ Alone(p)
  BY SelectFacts DEF AscendInv, TypeInv, LedgerInv
<1>2. PICK selected : tree.log = << >> \/ proc[p].version = NextVersion(tree.log, selected)
  BY DEF Select, BumpFits
<1>3. LogOK(tree.log) /\ DOMAIN Branch.log \subseteq DOMAIN tree.log
  BY DEF AscendInv, TypeInv, Typed, TreeOK, LedgerInv, Covers
<1>4. ASSUME NEW v \in DOMAIN Branch.log PROVE Older(v, proc[p].version)
  <2>1. v \in DOMAIN tree.log
    BY <1>3
  <2>2. tree.log # << >>
    BY <2>1
  <2> QED
    BY <1>2, <1>3, <2>1, <2>2, NextVersionIsNewest
<1>5. Branch' = Branch
  BY DEF Branch, Select
<1>6. Ahead(p)'
  BY <1>1, <1>4, <1>5 DEF Ahead
<1> QED
  BY <1>1, <1>6, AscendWork DEF Select, Alone

LEMMA AscendCommit == ASSUME AscendInv, TypeInv', NEW p \in Releasers, Commit(p) PROVE AscendInv'
<1> DEFINE c == [release |-> proc[p].version, tree |-> index]
<1>1. commits' = Append(commits, c) /\ c.release = proc[p].version /\ proc[p].pc = "commit"
  BY DEF Commit
<1> HIDE DEF c
<1>2. proc'[p].pc = "tag" /\ Alone(p)
  BY GotoFacts DEF AscendInv, TypeInv, LedgerInv, Commit
<1>3. \A q \in Releasers \ {p} : proc[q].pc \notin Holding
  BY <1>1, OneHolder DEF AscendInv, TypeInv, LedgerInv, Holding
<1>4. \A q \in Releasers : proc'[q].pc \notin Passed
  BY <1>2, <1>3 DEF Alone, Holding, Passed
<1>5. \A v \in DOMAIN Branch.log : Older(v, c.release)
  BY <1>1 DEF AscendInv, Ahead, Passed
<1> QED
  BY <1>1, <1>4, <1>5, AscendGrows

LEMMA AscendMerge == ASSUME AscendInv, TypeInv', NEW pr, Merge(pr) PROVE AscendInv'
<1> DEFINE c == [release |-> None, tree |-> pr.tree]
<1>1. commits' = Append(commits, c) /\ c.release = None /\ lock = None /\ UNCHANGED proc
  BY DEF Merge
<1> HIDE DEF c
<1>2. \A q \in Releasers : proc'[q].pc \notin Passed
  BY <1>1, LedgerBounds DEF AscendInv, TypeInv, LedgerInv, LockOK, Holding, Passed
<1> QED
  BY <1>1, <1>2, AscendGrows

LEMMA AscendRelease ==
    ASSUME AscendInv, TypeInv', NEW p \in Releasers, Release(p)
    PROVE  AscendInv'
<1>1. Processes
  BY DEF AscendInv, TypeInv, LedgerInv
<1>2. ASSUME UNCHANGED commits, Alone(p),
             \/ proc'[p].pc \notin Passed
             \/ proc[p].pc \in Passed /\ proc'[p].version = proc[p].version
      PROVE  AscendInv'
  BY <1>2, AscendWork DEF Alone
<1>3. ASSUME NEW names, Start(p, names) PROVE AscendInv'
  <2>1. proc'[p].pc = "status" /\ Alone(p)
    BY <1>1, <1>3 DEF Processes, Start, Alone
  <2> QED
    BY <1>2, <1>3, <2>1 DEF Start, Passed
<1>4. CASE CheckStatus(p) \/ Lock(p)
  <2>1. Alone(p) /\ proc'[p].pc \in {"lock", "select"} /\ UNCHANGED commits
    BY <1>1, <1>4, GotoFacts DEF CheckStatus, Lock
  <2> QED
    BY <1>2, <2>1 DEF Passed
<1>5. CASE WriteSnapshot(p) \/ WriteAggregate(p) \/ Add(p)
  <2>1. Alone(p) /\ proc'[p].version = proc[p].version /\ UNCHANGED commits
        /\ proc[p].pc \in Passed
    BY <1>1, <1>5, GotoFacts DEF WriteSnapshot, WriteAggregate, Add, Passed
  <2> QED
    BY <1>2, <2>1
<1>6. CASE Unlink(p)
  BY <1>2, <1>6 DEF Unlink, Alone, Passed
<1>7. CASE Tag(p) \/ Quit(p)
  <2>1. proc'[p].pc = "idle" /\ Alone(p) /\ UNCHANGED commits
    BY <1>1, <1>7 DEF Tag, Quit, Processes, Alone, Idle
  <2> QED
    BY <1>2, <2>1 DEF Passed
<1> QED
  BY <1>3, <1>4, <1>5, <1>6, <1>7, AscendSelect, AscendCommit DEF Release

LEMMA AscendNext == AscendInv /\ [Next]_vars => AscendInv'
<1> SUFFICES ASSUME AscendInv, [Next]_vars PROVE AscendInv'
  OBVIOUS
<1>1. TypeInv'
  BY NextTyped DEF AscendInv
<1>2. CASE UNCHANGED <<commits, proc>>
  BY <1>1, <1>2, AscendWork
<1>3. ASSUME NEW p \in Releasers, Release(p) PROVE AscendInv'
  BY <1>1, <1>3, AscendRelease
<1>4. CASE PullRequest
  <2>1. PICK pr : Merge(pr)
    BY <1>4 DEF PullRequest
  <2> QED
    BY <1>1, <2>1, AscendMerge
<1> QED
  BY <1>2, <1>3, <1>4 DEF Next, Restore, vars

(* Every release is newer than every snapshot of the branch it is made on, *)
(* also after releases that died halfway and a tree that was not cleaned.  *)
THEOREM VersionsAscend == Spec => []ReleasesAscend
<1>1. Init => AscendInv
  <2> SUFFICES ASSUME Init PROVE AscendInv
    OBVIOUS
  <2>1. TypeInv
    BY InitLedger, InitTyped DEF TypeInv
  <2>2. \A p \in Releasers : Ahead(p)
    BY DEF Init, Idle, Ahead, Passed
  <2>3. Releases = {}
    <3>1. commits = <<[release |-> None, tree |-> FirstTree]>>
      BY DEF Init
    <3>2. DOMAIN commits = {1} /\ commits[1].release = None
      BY <3>1
    <3> QED
      BY <3>2 DEF Releases
  <2> QED
    BY <2>1, <2>2, <2>3 DEF AscendInv, ReleasesAscend
<1>2. AscendInv => ReleasesAscend
  BY DEF AscendInv
<1> QED
  BY AscendNext, <1>1, <1>2, PTL DEF Spec
===============================================================================
