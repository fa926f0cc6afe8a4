--------------------------- MODULE ChangelogPolicy ---------------------------
(***************************************************************************)
(* What scripts/changelog.py decides without changing anything: the        *)
(* version that follows a selection of fragments, and whether a pull       *)
(* request may go in (check-pr).                                           *)
(*                                                                         *)
(* The changelog's part of a tree is a record                              *)
(*   next       the fragments in NEXT/, by identity                        *)
(*   log        the snapshots in CHANGELOG/: version -> its fragments      *)
(*   aggregate  the versions that CHANGELOG.md shows                       *)
(*   permits    the pre-contract migrations that may be made               *)
(*   moved      snapshots that such a migration put elsewhere              *)
(* A snapshot stands for its text, a version <<major, minor, patch>> for   *)
(* its tag name.                                                           *)
(***************************************************************************)
EXTENDS Naturals

CONSTANTS Fragments,
          Impact        \* the impact that a fragment's metadata states

ASSUME ImpactOfEach == Impact \in [Fragments -> {"major", "minor", "patch"}]

Version == Nat \X Nat \X Nat

Older(a, b) ==
    \/ a[1] < b[1]
    \/ a[1] = b[1] /\ a[2] < b[2]
    \/ a[1] = b[1] /\ a[2] = b[2] /\ a[3] < b[3]

(* The largest impact among the fragments.                                 *)
ReleaseImpact(selected) ==
    CASE \E f \in selected : Impact[f] = "major" -> "major"
      [] /\ \A f \in selected : Impact[f] # "major"
         /\ \E f \in selected : Impact[f] = "minor" -> "minor"
      [] OTHER -> "patch"

Bump(v, impact) ==
    CASE impact = "major" -> <<v[1] + 1, 0, 0>>
      [] impact = "minor" -> <<v[1], v[2] + 1, 0>>
      [] OTHER -> <<v[1], v[2], v[3] + 1>>

Newest(log) == CHOOSE v \in DOMAIN log : \A w \in DOMAIN log : ~ Older(v, w)

(* derived_release_bump, from the newest snapshot; the first version is    *)
(* for the caller to choose.                                               *)
NextVersion(log, selected) ==
    IF log = << >> THEN <<0, 1, 0>> ELSE Bump(Newest(log), ReleaseImpact(selected))

-------------------------------------------------------------------------------
(* A pull request turns `base` into `new`; git shows `renamed` of the       *)
(* fragments it deletes as renamed to others that it adds.                 *)

ChangedSnapshots(base, new) ==
    {v \in DOMAIN base.log \cup DOMAIN new.log :
        \/ v \notin DOMAIN base.log \cap DOMAIN new.log
        \/ base.log[v] # new.log[v]}

\* Mutant: a permitted snapshot is moved although a tag has it.
MigratedTagged(base, new, tagged) ==
    {v \in base.permits : /\ new.permits = base.permits
                          /\ ChangedSnapshots(base, new) = {v}
                          /\ v \notin DOMAIN new.log
                          /\ new.moved = base.moved \cup {v} /\ v \notin base.moved}

(* authorize_pre_contract_migration: one permitted snapshot, which no tag  *)
(* has, is moved, by a pull request that leaves the permits alone.         *)
Migrated(base, new, tagged) ==
    {v \in base.permits : /\ new.permits = base.permits
                          /\ ChangedSnapshots(base, new) = {v}
                          /\ v \notin DOMAIN new.log
                          /\ new.moved = base.moved \cup {v} /\ v \notin base.moved
                          /\ v \notin tagged}

(* validate_permit_update.                                                 *)
PermitsGrow(base, new) == base.permits \subseteq new.permits

(* Fragments that are deleted, or renamed out of NEXT/.                    *)
Consumed(base, new, renamed) == base.next \ (new.next \cup renamed)

CheckPr(base, new, tagged, renamed) ==
    /\ PermitsGrow(base, new)
    /\ ChangedSnapshots(base, new) \subseteq Migrated(base, new, tagged)
    /\ new.aggregate = base.aggregate
    /\ Consumed(base, new, renamed) = {}
===============================================================================
