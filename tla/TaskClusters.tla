---------------------------- MODULE TaskClusters ----------------------------
(***************************************************************************)
(* The clustering of an apprentice's task graph before a proposal:         *)
(* _find_clusters and _find_cross_cluster_edges of proposal_engine.py.     *)
(*                                                                         *)
(* _find_clusters is a union-find: find follows parent pointers and halves *)
(* the path on its way, union hangs one root below the other.  The call    *)
(* contains no await, so the graph does not change meanwhile; one action   *)
(* is one turn of one of its loops.  The order of the query's rows is left *)
(* open.                                                                   *)
(***************************************************************************)
EXTENDS Naturals, FiniteSets

CONSTANTS
    Nodes,            \* ids of the concepts in namespace task
    General,          \* the id of the cluster of left-overs, "general"
    Graphs,           \* the sets of RELATES_TO edges the graph may hold
    MinClusterSize    \* MIN_CLUSTER_SIZE

\* handoff: the relation is one of CROSS_CLUSTER_RELATIONS.
Edge == [source : Nodes, target : Nodes, handoff : BOOLEAN]

ASSUME GraphAssumption == /\ Graphs \subseteq SUBSET Edge
                          /\ General \notin Nodes
                          /\ IsFiniteSet(Nodes)

ASSUME SizeAssumption == MinClusterSize \in Nat

VARIABLES
    edges,        \* what _load_task_edges returns
    parent,       \* the forest: node -> node
    todo,         \* the edges still to be looked at
    pc,           \* "scan", "union", "find" or "done"
    left,         \* node_id in find, for the left end of union
    right,        \* the same for its right end
    member,       \* the node being put into its group
    groups,       \* groups: node -> root, for the nodes grouped so far
    cluster_of,   \* node_to_cluster
    cross_edges   \* the result of _find_cross_cluster_edges

vars == <<edges, parent, todo, pc, left, right, member, groups, cluster_of, cross_edges>>

results == <<groups, cluster_of, cross_edges>>

Init ==
    /\ edges \in Graphs
    /\ parent = [n \in Nodes |-> n]
    /\ todo = edges
    /\ pc = "scan"
    /\ left = General /\ right = General /\ member = General
    /\ groups = [n \in {} |-> n]
    /\ cluster_of = [n \in Nodes |-> General]
    /\ cross_edges = {}

-----------------------------------------------------------------------------
\* _is_cross_cluster_relation: such an edge separates clusters.
Skipped(e) == e.handoff

SkipEdge(e) ==
    /\ pc = "scan" /\ e \in todo
    /\ Skipped(e)
    /\ todo' = todo \ {e}
    /\ UNCHANGED <<edges, parent, pc, left, right, member, results>>

\* union(source_id, target_id) is called.
TakeEdge(e) ==
    /\ pc = "scan" /\ e \in todo
    /\ ~Skipped(e)
    /\ todo' = todo \ {e}
    /\ left' = e.source /\ right' = e.target
    /\ pc' = "union"
    /\ UNCHANGED <<edges, parent, member, results>>

IsRoot(n) == parent[n] = n

\* One turn of find's loop at node n: parent[n] = parent[parent[n]].
HalvePath(n) == parent' = [parent EXCEPT ![n] = parent[parent[n]]]

\* Slip: find shortens the path but forgets to move along it.
HalveInPlace ==
    /\ pc = "union" /\ ~IsRoot(left)
    /\ HalvePath(left)
    /\ UNCHANGED <<edges, todo, pc, left, right, member, results>>

\* left_root = find(left)
ClimbLeft ==
    /\ pc = "union" /\ ~IsRoot(left)
    /\ HalvePath(left)
    /\ left' = parent[parent[left]]
    /\ UNCHANGED <<edges, todo, pc, right, member, results>>

\* right_root = find(right)
ClimbRight ==
    /\ pc = "union" /\ IsRoot(left) /\ ~IsRoot(right)
    /\ HalvePath(right)
    /\ right' = parent[parent[right]]
    /\ UNCHANGED <<edges, todo, pc, left, member, results>>

\* Slip: the node itself is moved, not the root of its tree.
LinkWithoutFind ==
    /\ pc = "union"
    /\ parent' = [parent EXCEPT ![right] = left]
    /\ pc' = "scan"
    /\ UNCHANGED <<edges, todo, left, right, member, results>>

\* parent[right_root] = left_root; nothing to do when they are the same.
Link ==
    /\ pc = "union" /\ IsRoot(left) /\ IsRoot(right)
    /\ parent' = [parent EXCEPT ![right] = left]
    /\ pc' = "scan"
    /\ UNCHANGED <<edges, todo, left, right, member, results>>

\* groups.setdefault(find(node_id), []).append(node_id), for every node.
PickMember(n) ==
    /\ pc = "scan" /\ todo = {} /\ n \notin DOMAIN groups
    /\ member' = n /\ left' = n
    /\ pc' = "find"
    /\ UNCHANGED <<edges, parent, todo, right, results>>

ClimbMember ==
    /\ pc = "find" /\ ~IsRoot(left)
    /\ HalvePath(left)
    /\ left' = parent[parent[left]]
    /\ UNCHANGED <<edges, todo, pc, right, member, results>>

\* Slip: the node is filed under the last root that union has found.
PlaceUnderRight ==
    /\ pc = "find" /\ IsRoot(left)
    /\ groups' = [n \in DOMAIN groups \cup {member} |->
                     IF n = member THEN right ELSE groups[n]]
    /\ pc' = "scan"
    /\ UNCHANGED <<edges, parent, todo, left, right, member, cluster_of, cross_edges>>

Place ==
    /\ pc = "find" /\ IsRoot(left)
    /\ groups' = [n \in DOMAIN groups \cup {member} |->
                     IF n = member THEN left ELSE groups[n]]
    /\ pc' = "scan"
    /\ UNCHANGED <<edges, parent, todo, left, right, member, cluster_of, cross_edges>>

Group(r) == {n \in DOMAIN groups : groups[n] = r}

\* Slip: a cluster must be larger than MIN_CLUSTER_SIZE.
LargerThanMin(r) == Cardinality(Group(r)) > MinClusterSize

\* len(member_ids) >= MIN_CLUSTER_SIZE
IsCluster(r) == Cardinality(Group(r)) >= MinClusterSize

\* Slip: the left-overs have no entry in node_to_cluster.
CrossesBetweenClusters(e) ==
    /\ cluster_of'[e.source] # cluster_of'[e.target]
    /\ General \notin {cluster_of'[e.source], cluster_of'[e.target]}

Crosses(e) == cluster_of'[e.source] # cluster_of'[e.target]

\* Groups become clusters or go into "general"; then the relations between
\* different clusters are collected.
MakeClusters ==
    /\ pc = "scan" /\ todo = {} /\ DOMAIN groups = Nodes
    /\ cluster_of' = [n \in Nodes |-> IF IsCluster(groups[n]) THEN groups[n] ELSE General]
    /\ cross_edges' = {e \in edges : Crosses(e)}
    /\ pc' = "done"
    /\ UNCHANGED <<edges, parent, todo, left, right, member, groups>>

Next == \/ \E e \in todo : SkipEdge(e) \/ TakeEdge(e)
        \/ ClimbLeft \/ ClimbRight \/ Link
        \/ \E n \in Nodes : PickMember(n)
        \/ ClimbMember \/ Place
        \/ MakeClusters

Spec == Init /\ [][Next]_vars

\* The function runs until it returns.
FairSpec == Spec /\ WF_vars(Next)

-----------------------------------------------------------------------------
(***************************************************************************)
(* The reference: m and n are connected when every set of nodes that no    *)
(* relation but a hand-off leaves, and that has m, has n.                  *)
(***************************************************************************)
Closed(S) == \A e \in edges : e.handoff \/ (e.source \in S <=> e.target \in S)

Connected(m, n) == \A S \in SUBSET Nodes : Closed(S) /\ m \in S => n \in S

Component(n) == {k \in Nodes : Connected(n, k)}

Small(n) == Cardinality(Component(n)) < MinClusterSize

\* The root of every node, over the forest f.
RootIn(f) == LET root[n \in Nodes] == IF f[n] = n THEN n ELSE root[f[n]]
             IN  root

TypeOK ==
    /\ edges \in Graphs /\ todo \subseteq edges
    /\ parent \in [Nodes -> Nodes]
    /\ pc \in {"scan", "union", "find", "done"}
    /\ {left, right, member} \subseteq Nodes \cup {General}
    /\ pc = "union" => {left, right} \subseteq Nodes
    /\ pc = "find" => {left, member} \subseteq Nodes
    /\ DOMAIN groups \subseteq Nodes /\ groups \in [DOMAIN groups -> Nodes]
    /\ cluster_of \in [Nodes -> Nodes \cup {General}]
    /\ cross_edges \subseteq edges

\* The result is the set of connected components, whatever the order of nodes
\* and edges and whatever the halving did to the paths: two concepts share a
\* cluster if and only if relations connect them or both are left-overs.
ClustersAreComponents ==
    pc = "done" =>
        \A m, n \in Nodes :
            cluster_of[m] = cluster_of[n] <=> Connected(m, n) \/ (Small(m) /\ Small(n))

\* What the model is shown as candidate hand-offs are hand-off relations only,
\* and all of them that join different components, except between left-overs.
CrossEdgesAreHandoffs ==
    pc = "done" =>
        cross_edges = {e \in edges : /\ e.handoff
                                     /\ ~Connected(e.source, e.target)
                                     /\ ~(Small(e.source) /\ Small(e.target))}

\* No halving or linking makes a cycle of the parent pointers: find returns.
Terminates == <>(pc = "done")

Merging == INSTANCE Components WITH class <- RootIn(parent)

\* Seen through find, the forest only joins whole classes along relations: a
\* halving changes no class, a union joins exactly the two it is called for.
ImplementsComponents == Merging!Spec
=============================================================================
