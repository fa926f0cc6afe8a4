---------------------------- MODULE RetentionGraph ----------------------------
(***************************************************************************)
(* The OCI graph that build_plan (scripts/ghcr_retention.py) reads from    *)
(* the manifests of an inventory.  A graph g says for every version which  *)
(* manifests its index lists (g.children) and which one it is attached to  *)
(* (g.subject, None for a manifest without a subject).  An image or an     *)
(* artifact manifest has no children.                                      *)
(***************************************************************************)
EXTENDS Naturals, FiniteSets

CONSTANTS Versions,     \* package versions, one per digest
          None          \* no subject

(* An inventory is what GitHub lists, page by page.                        *)
ASSUME FiniteVersions == IsFiniteSet(Versions)

Graph == [children : [Versions -> SUBSET Versions],
          subject  : [Versions -> Versions \cup {None}]]

(* build_plan aborts on an edge that leaves the inventory or returns to    *)
(* its own manifest.                                                       *)
Complete(g, inventory) ==
    \A v \in inventory :
       /\ g.children[v] \subseteq inventory \ {v}
       /\ g.subject[v] \in (inventory \ {v}) \cup {None}

Parents(g, inventory, v) == {p \in inventory : v \in g.children[p]}

Referrers(g, inventory, v) == {r \in inventory : g.subject[r] = v}

\* Mutant: the indexes that wrap an attachment are forgotten.
DependenciesUnwrapped(g, inventory, v) ==
    g.children[v] \cup Referrers(g, inventory, v)

(* What keeping v keeps: its children, what refers to it and the indexes   *)
(* that wrap those referrers.                                              *)
Dependencies(g, inventory, v) ==
    g.children[v] \cup
    UNION {{r} \cup Parents(g, inventory, r) : r \in Referrers(g, inventory, v)}

(* The worklist: what is pending, and what has been reached.               *)
Worklist(inventory) == [pending : SUBSET inventory, reached : SUBSET inventory]

(* One turn of it: a pending version is taken off, and the first time its  *)
(* dependencies become pending.                                            *)
Turn(g, inventory, w) ==
    LET v == CHOOSE v \in w.pending : TRUE
        new == IF v \in w.reached THEN {} ELSE Dependencies(g, inventory, v) \ w.reached
    IN  [pending |-> (w.pending \ {v}) \cup new, reached |-> w.reached \cup {v}]

(* From every tagged version, each digest once, until nothing is pending.  *)
Reachable(g, inventory, tagged) ==
    LET Explore[w \in Worklist(inventory)] ==
          IF w.pending = {} THEN w.reached ELSE Explore[Turn(g, inventory, w)]
    IN  Explore[[pending |-> tagged, reached |-> {}]]

(* The reference: the least set that holds the tagged versions, what a     *)
(* held index lists, what is attached to a held version, and each index    *)
(* that lists such an attachment.                                          *)
Holds(g, inventory, S) ==
    \A v \in S, w \in inventory :
       \/ w \in g.children[v]
       \/ g.subject[w] = v
       \/ \E r \in g.children[w] : r \in inventory /\ g.subject[r] = v
       => w \in S

Held(g, inventory, tagged) ==
    {v \in inventory : \A S \in SUBSET inventory :
        tagged \subseteq S /\ Holds(g, inventory, S) => v \in S}
===============================================================================
