---------------------------- MODULE ReleaseLedger ----------------------------
(***************************************************************************)
(* The release command of scripts/changelog.py in one clone: what it does  *)
(* to the working tree, the index, the branch and the tags, one file       *)
(* operation or git command at a time, while other releases are started in *)
(* the same clone, pull requests arrive between releases, and a process    *)
(* may die at any point.                                                   *)
(***************************************************************************)
EXTENDS ChangelogPolicy, Sequences, FiniteSets

CONSTANTS Unreleased,    \* fragments that are there at first
          Releasers,     \* processes that run `changelog.py release`
          None,          \* a free lock; the version of a merge
          MaxCommits,    \* bound of the branch
          MaxDeaths      \* bound of the releases that die halfway

ASSUME LedgerBounds == /\ Unreleased \subseteq Fragments
                       /\ MaxCommits \in Nat /\ MaxDeaths \in Nat /\ None \notin Releasers

VARIABLES tree,       \* the working tree
          index,      \* what is staged
          commits,    \* the branch: the release or None, and its tree
          tags,       \* version -> the commit it names
          lock,       \* who holds changelog-release.lock
          proc,       \* the processes
          torn        \* history: releases that died between snapshot and commit

vars == <<tree, index, commits, tags, lock, proc, torn>>

Idle == [pc |-> "idle", version |-> None, names |-> {}, selected |-> {}]

Branch == commits[Len(commits)].tree

(* Entries that are added; the ones of `new` win.                          *)
Beside(new, old) ==
    [v \in DOMAIN new \cup DOMAIN old |-> IF v \in DOMAIN new THEN new[v] ELSE old[v]]

Entry(v, what) == [w \in {v} |-> what]

(* One snapshot from before the contract, which has no tag.                *)
FirstTree == [next |-> Unreleased, log |-> Entry(<<0, 1, 0>>, {}), aggregate |-> {<<0, 1, 0>>},
              permits |-> {}, moved |-> {}]

Init ==
    /\ tree = FirstTree
    /\ index = FirstTree
    /\ commits = <<[release |-> None, tree |-> FirstTree]>>
    /\ tags = << >>
    /\ lock = None
    /\ proc = [p \in Releasers |-> Idle]
    /\ torn = 0

-------------------------------------------------------------------------------
(* git status --untracked-files=no: the index is the head, and every file  *)
(* that it tracks is in the tree.  A new snapshot is untracked.            *)
Clean ==
    /\ index = Branch
    /\ [tree EXCEPT !.log = index.log] = index
    /\ \A v \in DOMAIN index.log : v \in DOMAIN tree.log /\ tree.log[v] = index.log[v]

Selected(names) == IF names = {} THEN tree.next ELSE names

Goto(p, pc) == proc' = [proc EXCEPT ![p].pc = pc]

(* The caller asks next-version for the version and then calls release.    *)
Start(p, names) ==
    /\ proc[p].pc = "idle"
    /\ names \subseteq tree.next /\ Selected(names) # {}
    /\ proc' = [proc EXCEPT ![p] =
          [pc |-> "status", version |-> NextVersion(tree.log, Selected(names)),
           names |-> names, selected |-> {}]]
    /\ UNCHANGED <<tree, index, commits, tags, lock, torn>>

CheckStatus(p) ==
    /\ proc[p].pc = "status"
    /\ Clean
    /\ Goto(p, "lock")
    /\ UNCHANGED <<tree, index, commits, tags, lock, torn>>

\* Mutant: the lock is taken whether or not it is free.
LockShared(p) ==
    /\ proc[p].pc = "lock"
    /\ lock' = p
    /\ Goto(p, "select")
    /\ UNCHANGED <<tree, index, commits, tags, torn>>

(* flock without waiting.                                                  *)
Lock(p) ==
    /\ proc[p].pc = "lock"
    /\ lock = None
    /\ lock' = p
    /\ Goto(p, "select")
    /\ UNCHANGED <<tree, index, commits, tags, torn>>

\* Mutant: any new version may be released.
BumpUnchecked(version, selected) == TRUE

(* validate_release_bump: the first release may have any version.          *)
BumpFits(version, selected) ==
    tree.log = << >> \/ version = NextVersion(tree.log, selected)

(* The version is new, the fragments are there, and they make this version.*)
Select(p) ==
    LET version == proc[p].version
        selected == Selected(proc[p].names)
    IN  /\ proc[p].pc = "select"
        /\ version \notin DOMAIN tree.log /\ version \notin DOMAIN tags
        /\ selected \subseteq tree.next /\ selected # {}
        /\ BumpFits(version, selected)
        /\ proc' = [proc EXCEPT ![p].pc = "snapshot", ![p].selected = selected]
        /\ UNCHANGED <<tree, index, commits, tags, lock, torn>>

WriteSnapshot(p) ==
    /\ proc[p].pc = "snapshot"
    /\ tree' = [tree EXCEPT !.log = Beside(Entry(proc[p].version, proc[p].selected), @)]
    /\ Goto(p, "unlink")
    /\ UNCHANGED <<index, commits, tags, lock, torn>>

\* Mutant: the release empties NEXT/, whatever it selected.
UnlinkedAll(p) == tree.next

(* The fragments that the release removes.                                 *)
Unlinked(p) == proc[p].selected

Unlink(p) ==
    /\ proc[p].pc = "unlink"
    /\ \E f \in Unlinked(p) \cap tree.next : tree' = [tree EXCEPT !.next = @ \ {f}]
    /\ UNCHANGED <<index, commits, tags, lock, proc, torn>>

\* Mutant: CHANGELOG.md is rendered from the snapshots git tracks.
AggregateTracked(p) ==
    /\ proc[p].pc = "unlink"
    /\ Unlinked(p) \cap tree.next = {}
    /\ tree' = [tree EXCEPT !.aggregate = DOMAIN index.log]
    /\ Goto(p, "add")
    /\ UNCHANGED <<index, commits, tags, lock, torn>>

(* render_released: every snapshot in the tree.                            *)
WriteAggregate(p) ==
    /\ proc[p].pc = "unlink"
    /\ Unlinked(p) \cap tree.next = {}
    /\ tree' = [tree EXCEPT !.aggregate = DOMAIN tree.log]
    /\ Goto(p, "add")
    /\ UNCHANGED <<index, commits, tags, lock, torn>>

\* Mutant: git add stages no deletions.
AddWithoutDeletions(p) ==
    /\ proc[p].pc = "add"
    /\ index' = [tree EXCEPT !.next = index.next]
    /\ Goto(p, "commit")
    /\ UNCHANGED <<tree, commits, tags, lock, torn>>

Add(p) ==
    /\ proc[p].pc = "add"
    /\ index' = tree
    /\ Goto(p, "commit")
    /\ UNCHANGED <<tree, commits, tags, lock, torn>>

Commit(p) ==
    /\ proc[p].pc = "commit"
    /\ Len(commits) < MaxCommits
    /\ commits' = Append(commits, [release |-> proc[p].version, tree |-> index])
    /\ Goto(p, "tag")
    /\ UNCHANGED <<tree, index, tags, lock, torn>>

(* The new head gets the tag; it is read back, and the lock goes with the  *)
(* process.                                                                *)
Tag(p) ==
    /\ proc[p].pc = "tag"
    /\ proc[p].version \notin DOMAIN tags
    /\ tags' = Beside(Entry(proc[p].version, Len(commits)), tags)
    /\ lock' = None
    /\ proc' = [proc EXCEPT ![p] = Idle]
    /\ UNCHANGED <<tree, index, commits, torn>>

(* A check of the release fails, a git command does, or the process dies:  *)
(* nothing is rolled back.                                                 *)
Quit(p) ==
    /\ proc[p].pc # "idle"
    /\ proc' = [proc EXCEPT ![p] = Idle]
    /\ lock' = IF lock = p THEN None ELSE lock
    /\ IF proc[p].pc \in {"unlink", "add", "commit"}
       THEN torn < MaxDeaths /\ torn' = torn + 1 ELSE UNCHANGED torn
    /\ UNCHANGED <<tree, index, commits, tags>>

-------------------------------------------------------------------------------
(* Nobody else works in the clone while a release holds the lock.          *)

(* git reset --hard, with or without git clean.                            *)
Restore(cleaned) ==
    /\ lock = None
    /\ tree # Branch \/ index # Branch
    /\ tree' = [Branch EXCEPT !.log = IF cleaned THEN @ ELSE Beside(@, tree.log)]
    /\ index' = Branch
    /\ UNCHANGED <<commits, tags, lock, proc, torn>>

(* The snapshots that source_exists_in_any_tag finds.                      *)
Tagged == UNION {DOMAIN commits[tags[v]].tree.log : v \in DOMAIN tags}

NewFragment(f) == \A k \in DOMAIN commits : f \notin commits[k].tree.next

(* Proposals: a fragment is added, deleted or replaced by another that is  *)
(* much like it; a snapshot may be moved, or is, or both at once.          *)
WithoutSnapshot(log, v) == [w \in DOMAIN log \ {v} |-> log[w]]

Replace(gone, added) ==
    [tree |-> [Branch EXCEPT !.next = (@ \ gone) \cup added],
     renamed |-> IF added = {} THEN {} ELSE gone]

Permit(v) == [tree |-> [Branch EXCEPT !.permits = @ \cup {v}], renamed |-> {}]

Move(v, permits) ==
    [tree |-> [Branch EXCEPT !.log = WithoutSnapshot(@, v), !.moved = @ \cup {v},
                             !.permits = @ \cup permits],
     renamed |-> {}]

OneOrNone(S) == {{}} \cup {{x} : x \in S}

(* A pull request is merged if check-pr accepts it.                        *)
Merge(pr) ==
    /\ lock = None
    /\ Clean
    /\ Len(commits) < MaxCommits
    /\ pr.tree # Branch
    /\ CheckPr(Branch, pr.tree, Tagged, pr.renamed)
    /\ commits' = Append(commits, [release |-> None, tree |-> pr.tree])
    /\ tree' = [pr.tree EXCEPT !.log =
          Beside(@, [v \in DOMAIN tree.log \ DOMAIN index.log |-> tree.log[v]])]
    /\ index' = pr.tree
    /\ UNCHANGED <<tags, lock, proc, torn>>

PullRequest ==
    \/ \E gone \in OneOrNone(Branch.next) :
          \E added \in OneOrNone({f \in Fragments : NewFragment(f)}) : Merge(Replace(gone, added))
    \/ \E v \in DOMAIN Branch.log : Merge(Permit(v))
    \/ \E v \in DOMAIN Branch.log : \E permits \in SUBSET DOMAIN Branch.log : Merge(Move(v, permits))

-------------------------------------------------------------------------------
Release(p) ==
    \/ \E names \in SUBSET Fragments : Start(p, names)
    \/ CheckStatus(p) \/ Lock(p) \/ Select(p) \/ WriteSnapshot(p) \/ Unlink(p)
    \/ WriteAggregate(p) \/ Add(p) \/ Commit(p) \/ Tag(p) \/ Quit(p)

Next ==
    \/ \E p \in Releasers : Release(p)
    \/ PullRequest
    \/ \E cleaned \in BOOLEAN : Restore(cleaned)

Spec == Init /\ [][Next]_vars
-------------------------------------------------------------------------------
Tree == [next : SUBSET Fragments, log : {tree.log, index.log} \cup
           {commits[k].tree.log : k \in DOMAIN commits},
         aggregate : SUBSET Version, permits : SUBSET Version, moved : SUBSET Version]

(* Trees, tags and processes are well-formed, and one process at most is   *)
(* past the lock.                                                          *)
TypeOK ==
    /\ {tree, index} \subseteq Tree /\ \A k \in DOMAIN commits : commits[k].tree \in Tree
    /\ \A v \in DOMAIN tree.log : v \in Version /\ tree.log[v] \subseteq Fragments
    /\ \A v \in DOMAIN tags : tags[v] \in DOMAIN commits
    /\ lock \in Releasers \cup {None}
    /\ \A p \in Releasers :
          /\ proc[p].pc \in {"idle", "status", "lock", "select", "snapshot", "unlink",
                             "add", "commit", "tag"}
          /\ proc[p].pc \in {"idle", "status", "lock"} <=> lock # p

(* The commits of the release command, and what each did.                  *)
Releases == {k \in DOMAIN commits : commits[k].release # None}

Before(k) == commits[k - 1].tree
After(k) == commits[k].tree
NewSnapshots(k) == DOMAIN After(k).log \ DOMAIN Before(k).log

(* What leaves NEXT/ in a release is in a snapshot that comes with it,     *)
(* even when the release picks up what a dead one left behind.             *)
NothingLost ==
    \A k \in Releases : \A f \in Before(k).next \ After(k).next :
       \E v \in NewSnapshots(k) : f \in After(k).log[v]

(* Unless a release died halfway, a fragment is released once.             *)
ReleasedOnce ==
    torn = 0 => \A k \in DOMAIN commits : \A v, w \in DOMAIN After(k).log :
                 v # w => After(k).log[v] \cap After(k).log[w] = {}

(* Unless a release died halfway, the version of a release is the one that *)
(* its fragments make of the snapshots before it.                          *)
VersionFollows ==
    torn = 0 => \A k \in Releases :
                 /\ NewSnapshots(k) = {commits[k].release}
                 /\ Before(k).log # << >> =>
                       commits[k].release =
                          NextVersion(Before(k).log, After(k).log[commits[k].release])

(* A tag names the commit of its release, whose CHANGELOG.md shows exactly *)
(* the snapshots beside it.                                                *)
TagIsRelease ==
    \A v \in DOMAIN tags :
       /\ commits[tags[v]].release = v
       /\ v \in DOMAIN After(tags[v]).log
       /\ After(tags[v]).aggregate = DOMAIN After(tags[v]).log

(* What a tag has is immutable: neither releases nor pull requests, with   *)
(* whatever permits, change or remove the snapshot later.                  *)
TaggedStays ==
    \A v \in DOMAIN tags : \A k \in DOMAIN commits : k > tags[v] =>
       /\ v \in DOMAIN After(k).log
       /\ After(k).log[v] = After(tags[v]).log[v]

(* An ordinary pull request consumes no fragment                           *)
(* (scripts/changelog-contract.test.sh 1718-1719): what is in NEXT/ stays  *)
(* there until it is released.  Git shows a fragment that is replaced by a *)
(* similar one as renamed, and check-pr lets that pass.                    *)
PullRequestsConsumeNothing ==
    \A k \in DOMAIN commits : k > 1 /\ commits[k].release = None =>
       Before(k).next \subseteq After(k).next
===============================================================================
