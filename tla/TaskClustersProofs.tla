------------------------- MODULE TaskClustersProofs -------------------------
(***************************************************************************)
(* Proofs about TaskClusters, for every graph: the union-find returns the  *)
(* connected components, and refines the joining of classes.               *)
(*                                                                         *)
(* The parent pointers form a forest.  Forest(f, c, d) says it with two    *)
(* witnesses: c gives every node its root, d a number that falls along     *)
(* every pointer.  Halving a path keeps both; linking root r below root l  *)
(* moves the tree of r into that of l and raises d in it by d[l] + 1.  On  *)
(* a forest the recursion of RootIn has c as its only solution.            *)
(***************************************************************************)
EXTENDS TaskClusters, WellFoundedInduction, FiniteSetTheorems, TLAPS

Forest(f, c, d) ==
    /\ c \in [Nodes -> Nodes] /\ d \in [Nodes -> Nat]
    /\ \A n \in Nodes : /\ c[f[n]] = c[n]
                        /\ f[c[n]] = c[n]
                        /\ f[n] = n => c[n] = n
                        /\ f[n] # n => d[f[n]] < d[n]

IsForest == \E c, d : Forest(parent, c, d)

Root == RootIn(parent)

\* Every relation looked at, but one that union is busy with, joins two nodes
\* of one tree; union's ends are in the trees of such a relation.
Joined(e) == e.handoff \/ Root[e.source] = Root[e.target]

EdgesJoined ==
    /\ pc # "union" => \A e \in edges \ todo : Joined(e)
    /\ pc = "union" => \E e \in edges :
           /\ ~e.handoff
           /\ Root[left] = Root[e.source] /\ Root[right] = Root[e.target]
           /\ \A f \in edges \ todo : f = e \/ Joined(f)

\* A tree never spans two components.
RootsConnected ==
    \A S \in SUBSET Nodes : Closed(S) => \A n \in Nodes : n \in S <=> Root[n] \in S

GroupedByRoot ==
    /\ \A n \in DOMAIN groups : groups[n] = Root[n]
    /\ DOMAIN groups # {} \/ pc \in {"find", "done"} => todo = {} /\ pc # "union"
    /\ pc = "find" => Root[left] = Root[member]

ResultsMade ==
    pc = "done" =>
        /\ DOMAIN groups = Nodes
        /\ cluster_of = [n \in Nodes |-> IF IsCluster(groups[n]) THEN groups[n] ELSE General]
        /\ cross_edges = {e \in edges : cluster_of[e.source] # cluster_of[e.target]}

IInv == /\ TypeOK /\ IsForest
        /\ EdgesJoined /\ RootsConnected
        /\ GroupedByRoot /\ ResultsMade

-----------------------------------------------------------------------------
(***************************************************************************)
(* The forest.                                                             *)
(***************************************************************************)
\* On a forest find's recursion has exactly one solution, the witness c.
LEMMA RootOfForest ==
    ASSUME NEW f \in [Nodes -> Nodes], NEW c, NEW d, Forest(f, c, d)
    PROVE  RootIn(f) = c
<1> DEFINE IsRootFn(g) == g = [n \in Nodes |-> IF f[n] = n THEN n ELSE g[f[n]]]
           r == CHOOSE g : IsRootFn(g)
<1>1. IsRootFn(c)
  BY DEF Forest
<1>2. IsRootFn(r)
  BY <1>1
<1>3. \A n \in Nodes : r[n] = c[n]
  <2> HIDE DEF r
  <2> SUFFICES ASSUME NEW n \in Nodes, r[n] # c[n] PROVE FALSE
    OBVIOUS
  <2> DEFINE D == {d[m] : m \in {k \in Nodes : r[k] # c[k]}}
  <2>1. D \in SUBSET Nat /\ D # {}
    BY DEF Forest
  <2>2. PICK i \in D : \A j \in D : ~(j < i)
    <3> HIDE DEF D
    <3>1. PICK i \in D : \A j \in D : <<j, i>> \notin OpToRel(<, Nat)
      BY <2>1, WFMin, NatLessThanWellFounded
    <3> QED  BY <2>1, <3>1 DEF OpToRel
  <2>3. PICK m \in Nodes : r[m] # c[m] /\ d[m] = i
    OBVIOUS
  <2>4. r[m] = IF f[m] = m THEN m ELSE r[f[m]]
    BY <1>2
  <2>5. f[m] # m /\ r[f[m]] # c[f[m]]
    BY <2>3, <2>4 DEF Forest
  <2>6. d[f[m]] \in D /\ d[f[m]] < d[m]
    BY <2>5 DEF Forest
  <2> QED  BY <2>1, <2>2, <2>3, <2>6
<1>4. r = c
  <2> HIDE DEF r
  <2> QED  BY <1>2, <1>3 DEF Forest
<1> QED  BY <1>4 DEF RootIn

\* In a forest the root is a function that fixes the roots.
LEMMA RootFacts ==
    ASSUME parent \in [Nodes -> Nodes], IsForest
    PROVE  /\ Root \in [Nodes -> Nodes]
           /\ \E d : Forest(parent, Root, d)
           /\ \A n \in Nodes : IsRoot(n) => Root[n] = n
BY RootOfForest DEF IsForest, Forest, Root, IsRoot

\* find changes the shape of a tree, not its nodes nor its root.
LEMMA Halving ==
    ASSUME parent \in [Nodes -> Nodes], IsForest, NEW n \in Nodes,
           ~IsRoot(n), HalvePath(n)
    PROVE  /\ parent' \in [Nodes -> Nodes] /\ IsForest' /\ Root' = Root
           /\ Root[parent[parent[n]]] = Root[n]
<1>1. PICK d : Forest(parent, Root, d)
  BY RootFacts
<1>2. parent' \in [Nodes -> Nodes]
  BY DEF HalvePath
<1>3. Forest(parent', Root, d)
  <2> SUFFICES ASSUME NEW m \in Nodes
               PROVE  /\ Root[parent'[m]] = Root[m] /\ parent'[Root[m]] = Root[m]
                      /\ parent'[m] = m => Root[m] = m
                      /\ parent'[m] # m => d[parent'[m]] < d[m]
    BY <1>1 DEF Forest
  <2>1. CASE m = n
    <3>1. /\ parent'[m] = parent[parent[m]]
          /\ parent[m] # m /\ parent[m] \in Nodes /\ parent[parent[m]] \in Nodes
      BY <2>1 DEF HalvePath, IsRoot
    <3>2. Root[m] # m /\ Root[m] \in Nodes
      BY <1>1, <3>1 DEF Forest
    <3>3. d[parent[m]] < d[m] /\ d[parent[parent[m]]] <= d[parent[m]]
      BY <1>1, <3>1 DEF Forest
    <3>4. d[m] \in Nat /\ d[parent[m]] \in Nat /\ d[parent[parent[m]]] \in Nat
      BY <1>1, <3>1 DEF Forest
    <3>5. parent'[m] # m
      BY <3>1, <3>3, <3>4
    <3>6. parent'[Root[m]] = Root[m]
      BY <1>1, <2>1, <3>2 DEF HalvePath, Forest
    <3> QED  BY <1>1, <3>1, <3>3, <3>4, <3>5, <3>6 DEF Forest
  <2>2. CASE m # n
    BY <1>1, <2>2 DEF HalvePath, Forest, IsRoot
  <2> QED  BY <2>1, <2>2
<1>4. RootIn(parent') = Root
  BY <1>2, <1>3, RootOfForest
<1>5. Root' = Root
  BY <1>4 DEF Root
<1>6. IsForest'
  BY <1>3 DEF IsForest
<1>7. Root[parent[parent[n]]] = Root[n]
  BY <1>1 DEF Forest
<1> QED  BY <1>2, <1>5, <1>6, <1>7

\* union moves one tree below the root of the other.
LEMMA Linking ==
    ASSUME parent \in [Nodes -> Nodes], IsForest,
           left \in Nodes, right \in Nodes, IsRoot(left), IsRoot(right),
           parent' = [parent EXCEPT ![right] = left]
    PROVE  /\ parent' \in [Nodes -> Nodes] /\ IsForest'
           /\ Root' = [n \in Nodes |-> IF Root[n] = right THEN left ELSE Root[n]]
<1>1. PICK d : Forest(parent, Root, d)
  BY RootFacts
<1> DEFINE c2 == [n \in Nodes |-> IF Root[n] = right THEN left ELSE Root[n]]
           d2 == [n \in Nodes |-> IF Root[n] = right /\ left # right
                                  THEN d[n] + d[left] + 1 ELSE d[n]]
<1>2. parent' \in [Nodes -> Nodes] /\ Root[left] = left /\ Root[right] = right
  BY RootFacts
<1>3. c2 \in [Nodes -> Nodes] /\ d2 \in [Nodes -> Nat]
  <2>1. Root \in [Nodes -> Nodes] /\ d \in [Nodes -> Nat] /\ d[left] \in Nat
    BY <1>1 DEF Forest
  <2>2. ASSUME NEW n \in Nodes PROVE d[n] + d[left] + 1 \in Nat
    <3>1. d[n] \in Nat  BY <2>1
    <3> QED  BY <2>1, <3>1
  <2> QED  BY <2>1, <2>2
<1>4. ASSUME NEW n \in Nodes
      PROVE  /\ c2[parent'[n]] = c2[n] /\ parent'[c2[n]] = c2[n]
             /\ parent'[n] = n => c2[n] = n
  <2>1. /\ parent'[n] = IF n = right THEN left ELSE parent[n]
        /\ parent[n] \in Nodes /\ Root[n] \in Nodes
        /\ Root[parent[n]] = Root[n] /\ parent[Root[n]] = Root[n]
        /\ parent[n] = n => Root[n] = n
    BY <1>1 DEF Forest
  <2>2. c2[parent'[n]] = c2[n]
    BY <1>2, <2>1
  <2>3. parent'[c2[n]] = c2[n]
    <3>1. CASE Root[n] = right
      <4>1. c2[n] = left  BY <3>1
      <4> QED  BY <4>1 DEF IsRoot
    <3>2. CASE Root[n] # right
      <4>1. c2[n] = Root[n]  BY <3>2
      <4>2. parent'[Root[n]] = parent[Root[n]]  BY <2>1, <3>2
      <4> QED  BY <2>1, <4>1, <4>2
    <3> QED  BY <3>1, <3>2
  <2>4. parent'[n] = n => c2[n] = n
    BY <1>2, <2>1
  <2> QED  BY <2>2, <2>3, <2>4
<1>5. ASSUME NEW n \in Nodes, parent'[n] # n
      PROVE  d2[parent'[n]] < d2[n]
  <2>1. CASE n = right
    BY <1>1, <1>2, <1>5, <2>1 DEF Forest, IsRoot
  <2>2. CASE n # right
    <3>1. parent'[n] = parent[n] /\ parent[n] \in Nodes
      BY <2>2
    <3>2. Root[parent[n]] = Root[n] /\ d[parent[n]] < d[n]
      BY <1>1, <1>5, <3>1 DEF Forest
    <3>3. d[n] \in Nat /\ d[parent[n]] \in Nat /\ d[left] \in Nat
      BY <1>1, <3>1 DEF Forest
    <3> QED  BY <3>1, <3>2, <3>3
  <2> QED  BY <2>1, <2>2
<1>6. Forest(parent', c2, d2)
  BY <1>3, <1>4, <1>5 DEF Forest
<1> QED  BY <1>2, <1>6, RootOfForest DEF IsForest, Root


-----------------------------------------------------------------------------
(***************************************************************************)
(* The invariant.                                                          *)
(***************************************************************************)
\* Relations join concepts of the graph.
LEMMA EdgeEnds ==
    ASSUME TypeOK
    PROVE  \A e \in edges : e.source \in Nodes /\ e.target \in Nodes /\ e.handoff \in BOOLEAN
BY GraphAssumption DEF TypeOK, Edge

\* Every node is its own root initially, and the invariant holds.
LEMMA InitIInv == ASSUME Init PROVE IInv /\ Root = [n \in Nodes |-> n]
<1>1. TypeOK
  BY DEF Init, TypeOK
<1> DEFINE id == [n \in Nodes |-> n]
<1>2. Forest(parent, id, [n \in Nodes |-> 0])
  BY DEF Init, Forest
<1>3. IsForest
  BY <1>2 DEF IsForest
<1>4. RootIn(parent) = id
  BY <1>1, <1>2, RootOfForest DEF TypeOK
<1>5. Root = id
  BY <1>4 DEF Root
<1>6. EdgesJoined /\ RootsConnected /\ GroupedByRoot /\ ResultsMade
  BY <1>5 DEF Init, EdgesJoined, RootsConnected, GroupedByRoot, ResultsMade
<1> QED  BY <1>1, <1>3, <1>5, <1>6 DEF IInv

\* Every step keeps the types.
LEMMA NextTypeOK == ASSUME TypeOK, [Next]_vars PROVE TypeOK'
<1> USE DEF TypeOK, results
<1>1. CASE \E e \in todo : SkipEdge(e)
  BY <1>1 DEF SkipEdge
<1>2. CASE \E e \in todo : TakeEdge(e)
  BY <1>2, EdgeEnds DEF TakeEdge
<1>3. CASE ClimbLeft
  BY <1>3 DEF ClimbLeft, HalvePath
<1>4. CASE ClimbRight
  BY <1>4 DEF ClimbRight, HalvePath
<1>5. CASE Link
  BY <1>5 DEF Link
<1>6. CASE \E n \in Nodes : PickMember(n)
  BY <1>6 DEF PickMember
<1>7. CASE ClimbMember
  BY <1>7 DEF ClimbMember, HalvePath
<1>8. CASE Place
  BY <1>8 DEF Place
<1>9. CASE MakeClusters
  BY <1>9 DEF MakeClusters
<1>10. CASE UNCHANGED vars
  BY <1>10 DEF vars
<1> QED  BY <1>1, <1>2, <1>3, <1>4, <1>5, <1>6, <1>7, <1>8, <1>9, <1>10 DEF Next

\* A step that leaves the parents alone leaves the roots alone.
LEMMA SameParent ==
    ASSUME parent' = parent, IsForest
    PROVE  IsForest' /\ Root' = Root
BY DEF IsForest, Forest, Root

\* A step that leaves every root alone breaks only what its own changes of
\* todo, pc, left, right, member and the results break.
LEMMA SameRoots ==
    ASSUME Root' = Root, UNCHANGED edges, RootsConnected
    PROVE  RootsConnected'
BY DEF RootsConnected, Closed

\* A turn of find's loop keeps the invariant.
LEMMA ClimbStep ==
    ASSUME IInv, TypeOK', ClimbLeft \/ ClimbRight \/ ClimbMember
    PROVE  IInv'
<1> USE DEF IInv, results
<1>1. CASE ClimbLeft
  <2>1. IsForest' /\ Root' = Root /\ Root[left'] = Root[left]
    BY <1>1, Halving DEF ClimbLeft, TypeOK
  <2>2. EdgesJoined'
    BY <1>1, <2>1 DEF ClimbLeft, EdgesJoined, Joined
  <2>3. GroupedByRoot' /\ ResultsMade'
    BY <1>1, <2>1 DEF ClimbLeft, GroupedByRoot, ResultsMade
  <2> QED  BY <1>1, <2>1, <2>2, <2>3, SameRoots DEF ClimbLeft
<1>2. CASE ClimbRight
  <2>1. IsForest' /\ Root' = Root /\ Root[right'] = Root[right]
    BY <1>2, Halving DEF ClimbRight, TypeOK
  <2>2. EdgesJoined'
    BY <1>2, <2>1 DEF ClimbRight, EdgesJoined, Joined
  <2>3. GroupedByRoot' /\ ResultsMade'
    BY <1>2, <2>1 DEF ClimbRight, GroupedByRoot, ResultsMade
  <2> QED  BY <1>2, <2>1, <2>2, <2>3, SameRoots DEF ClimbRight
<1>3. CASE ClimbMember
  <2>1. IsForest' /\ Root' = Root /\ Root[left'] = Root[left]
    BY <1>3, Halving DEF ClimbMember, TypeOK
  <2>2. EdgesJoined'
    BY <1>3, <2>1 DEF ClimbMember, EdgesJoined, Joined
  <2>3. GroupedByRoot' /\ ResultsMade'
    BY <1>3, <2>1 DEF ClimbMember, GroupedByRoot, ResultsMade
  <2> QED  BY <1>3, <2>1, <2>2, <2>3, SameRoots DEF ClimbMember
<1> QED  BY <1>1, <1>2, <1>3

\* A union keeps the invariant.
LEMMA LinkStep == ASSUME IInv, TypeOK', Link PROVE IInv'
<1> USE DEF IInv, results
<1>1. /\ IsForest'
      /\ Root' = [n \in Nodes |-> IF Root[n] = right THEN left ELSE Root[n]]
  BY Linking DEF Link, TypeOK
<1>2. Root \in [Nodes -> Nodes] /\ Root[left] = left /\ Root[right] = right
  BY RootFacts DEF Link, TypeOK
<1>3. PICK e \in edges :
         /\ ~e.handoff
         /\ Root[e.source] = left /\ Root[e.target] = right
         /\ \A f \in edges \ todo : f = e \/ Joined(f)
  BY <1>2 DEF Link, EdgesJoined
<1>4. EdgesJoined'
  <2> SUFFICES ASSUME NEW f \in edges \ todo PROVE Joined(f)'
    BY DEF Link, EdgesJoined
  <2>1. f.source \in Nodes /\ f.target \in Nodes
    BY EdgeEnds
  <2>2. CASE f = e
    BY <1>1, <1>3, <2>1, <2>2 DEF Joined
  <2>3. CASE Joined(f)
    BY <1>1, <2>1, <2>3 DEF Joined
  <2> QED  BY <1>3, <2>2, <2>3
<1>5. RootsConnected'
  <2> SUFFICES ASSUME NEW S \in SUBSET Nodes, Closed(S), NEW n \in Nodes
               PROVE  n \in S <=> Root'[n] \in S
    BY DEF Link, RootsConnected, Closed
  <2>1. left \in S <=> right \in S
    BY <1>3, EdgeEnds DEF Closed, RootsConnected
  <2>2. n \in S <=> Root[n] \in S
    BY DEF RootsConnected
  <2> QED  BY <1>1, <2>1, <2>2
<1>6. GroupedByRoot' /\ ResultsMade'
  <2>1. DOMAIN groups = {} /\ UNCHANGED groups /\ pc' = "scan"
    BY DEF Link, GroupedByRoot
  <2> QED  BY <2>1 DEF GroupedByRoot, ResultsMade
<1> QED  BY <1>1, <1>4, <1>5, <1>6

\* So do the steps that leave the forest alone.
LEMMA OtherSteps ==
    ASSUME IInv, TypeOK',
           \/ \E e \in todo : SkipEdge(e) \/ TakeEdge(e)
           \/ \E n \in Nodes : PickMember(n)
           \/ Place \/ MakeClusters \/ UNCHANGED vars
    PROVE  IInv'
<1> USE DEF IInv, results
<1>1. UNCHANGED <<edges, parent>>
  BY DEF SkipEdge, TakeEdge, PickMember, Place, MakeClusters, vars
<1>2. IsForest' /\ Root' = Root /\ RootsConnected'
  BY <1>1, SameParent, SameRoots
<1>3. CASE \E e \in todo : SkipEdge(e)
  <2>1. DOMAIN groups = {} /\ pc = "scan"
    BY <1>3 DEF SkipEdge, GroupedByRoot
  <2> QED  BY <1>2, <1>3, <2>1
           DEF SkipEdge, Skipped, EdgesJoined, Joined, GroupedByRoot, ResultsMade
<1>4. CASE \E e \in todo : TakeEdge(e)
  <2>1. PICK e \in todo : TakeEdge(e)
    BY <1>4
  <2>2. DOMAIN groups = {} /\ pc = "scan" /\ e \in edges /\ ~e.handoff
    BY <2>1 DEF TakeEdge, Skipped, GroupedByRoot, TypeOK
  <2>3. EdgesJoined'
    BY <1>2, <2>1, <2>2 DEF TakeEdge, EdgesJoined, Joined
  <2> QED  BY <1>2, <2>1, <2>2, <2>3 DEF TakeEdge, GroupedByRoot, ResultsMade
<1>5. CASE \E n \in Nodes : PickMember(n)
  BY <1>2, <1>5 DEF PickMember, EdgesJoined, Joined, GroupedByRoot, ResultsMade
<1>6. CASE Place
  BY <1>2, <1>6, RootFacts DEF Place, IsRoot, TypeOK, EdgesJoined, Joined, GroupedByRoot, ResultsMade
<1>7. CASE MakeClusters
  <2>1. cross_edges' = {e \in edges : cluster_of'[e.source] # cluster_of'[e.target]}
    BY <1>7 DEF MakeClusters, Crosses
  <2>2. ResultsMade'
    BY <1>7, <2>1 DEF MakeClusters, ResultsMade, IsCluster, Group
  <2> QED  BY <1>2, <1>7, <2>2 DEF MakeClusters, EdgesJoined, Joined, GroupedByRoot
<1>8. CASE UNCHANGED vars
  BY <1>2, <1>8 DEF vars, EdgesJoined, Joined, GroupedByRoot, ResultsMade, IsCluster, Group
<1> QED  BY <1>3, <1>4, <1>5, <1>6, <1>7, <1>8

\* The invariant is inductive.
LEMMA NextIInv == ASSUME IInv, [Next]_vars PROVE IInv'
<1>1. TypeOK'
  BY NextTypeOK DEF IInv
<1> QED  BY <1>1, ClimbStep, LinkStep, OtherSteps DEF Next

\* Every reachable state of the clustering satisfies the inductive invariant.
THEOREM Invariance == Spec => []IInv
<1> QED  BY InitIInv, NextIInv, PTL DEF Spec

-----------------------------------------------------------------------------
(***************************************************************************)
(* The results.                                                            *)
(***************************************************************************)
\* The program's variables stay in their types.
THEOREM TypeCorrect == Spec => []TypeOK
<1>1. IInv => TypeOK
  BY DEF IInv
<1> QED  BY <1>1, Invariance, PTL

\* Once every edge is looked at, being in one tree is being connected.
LEMMA RootsAreComponents ==
    ASSUME IInv, todo = {}, pc # "union", NEW m \in Nodes, NEW n \in Nodes
    PROVE  Connected(m, n) <=> Root[m] = Root[n]
<1>1. Root \in [Nodes -> Nodes]
  BY RootFacts DEF IInv, TypeOK
<1>2. ASSUME Root[m] = Root[n] PROVE Connected(m, n)
  <2> SUFFICES ASSUME NEW S \in SUBSET Nodes, Closed(S), m \in S PROVE n \in S
    BY DEF Connected
  <2> QED  BY <1>2 DEF IInv, RootsConnected
<1>3. ASSUME Connected(m, n) PROVE Root[m] = Root[n]
  <2> DEFINE S == {x \in Nodes : Root[x] = Root[m]}
  <2>1. \A e \in edges : e.handoff \/ Root[e.source] = Root[e.target]
    BY DEF IInv, EdgesJoined, Joined
  <2>2. Closed(S)
    BY <2>1, EdgeEnds DEF IInv, Closed
  <2>3. S \in SUBSET Nodes /\ m \in S
    OBVIOUS
  <2>4. n \in S
    <3> HIDE DEF S
    <3> QED  BY <1>3, <2>2, <2>3 DEF Connected
  <2> QED  BY <2>4
<1> QED  BY <1>2, <1>3

\* A node is filed under its root, or under the left-overs.
LEMMA ResultsByComponent ==
    ASSUME IInv, pc = "done"
    PROVE  \A n \in Nodes : cluster_of[n] = IF Small(n) THEN General ELSE Root[n]
<1> SUFFICES ASSUME NEW n \in Nodes
             PROVE  cluster_of[n] = IF Small(n) THEN General ELSE Root[n]
  OBVIOUS
<1>1. todo = {} /\ DOMAIN groups = Nodes /\ groups[n] = Root[n]
  BY DEF IInv, GroupedByRoot, ResultsMade
<1>2. Group(groups[n]) = {k \in Nodes : Root[k] = Root[n]}
  BY <1>1 DEF IInv, GroupedByRoot, Group
<1>3. Component(n) = Group(groups[n])
  BY <1>1, <1>2, RootsAreComponents DEF Component
<1>4. cluster_of[n] = IF IsCluster(groups[n]) THEN groups[n] ELSE General
  BY DEF IInv, ResultsMade
<1>5. IsFiniteSet(Component(n))
  BY GraphAssumption, FS_Subset DEF Component
<1>6. Cardinality(Component(n)) \in Nat
  BY <1>5, FS_CardinalityType
<1>7. Small(n) <=> ~IsCluster(groups[n])
  BY <1>3, <1>6, SizeAssumption DEF Small, IsCluster
<1> QED  BY <1>1, <1>4, <1>7

\* Nodes of one component are left over together.
LEMMA SmallTogether ==
    ASSUME IInv, pc = "done", NEW m \in Nodes, NEW n \in Nodes, Root[m] = Root[n]
    PROVE  Small(m) <=> Small(n)
<1>1. todo = {}
  BY DEF IInv, GroupedByRoot
<1>2. Component(m) = Component(n)
  BY <1>1, RootsAreComponents DEF Component
<1> QED  BY <1>2 DEF Small

\* Two nodes share a cluster when connected, or both left over.
LEMMA SameClusterIff ==
    ASSUME IInv, pc = "done", NEW m \in Nodes, NEW n \in Nodes
    PROVE  cluster_of[m] = cluster_of[n] <=> Connected(m, n) \/ (Small(m) /\ Small(n))
<1>1. todo = {} /\ Root[m] # General /\ Root[n] # General
  BY RootFacts, GraphAssumption DEF IInv, TypeOK, GroupedByRoot
<1>2. Connected(m, n) <=> Root[m] = Root[n]
  BY <1>1, RootsAreComponents
<1> QED  BY <1>1, <1>2, ResultsByComponent, SmallTogether

\* The clusters are the connected components, whatever the graph and whatever
\* the order in which its rows come.
THEOREM ClustersCorrect == Spec => []ClustersAreComponents
<1>1. IInv => ClustersAreComponents
  BY SameClusterIff DEF ClustersAreComponents
<1> QED  BY <1>1, Invariance, PTL

\* And the candidate hand-offs are the hand-off relations between them.
THEOREM CrossEdgesCorrect == Spec => []CrossEdgesAreHandoffs
<1>1. ASSUME IInv, pc = "done", NEW e \in edges
      PROVE  cluster_of[e.source] # cluster_of[e.target] <=>
                /\ e.handoff
                /\ ~Connected(e.source, e.target)
                /\ ~(Small(e.source) /\ Small(e.target))
  <2>1. e.source \in Nodes /\ e.target \in Nodes /\ todo = {}
    BY <1>1, EdgeEnds DEF IInv, GroupedByRoot
  <2>2. e.handoff \/ Connected(e.source, e.target)
    BY <1>1, <2>1, RootsAreComponents DEF IInv, EdgesJoined, Joined
  <2> QED  BY <1>1, <2>1, <2>2, SameClusterIff
<1>2. IInv => CrossEdgesAreHandoffs
  BY <1>1 DEF CrossEdgesAreHandoffs, IInv, ResultsMade
<1> QED  BY <1>2, Invariance, PTL

\* Every step of the union-find joins two classes along a relation, or none.
LEMMA StepJoins ==
    ASSUME IInv, [Next]_vars
    PROVE  Merging!Next \/ UNCHANGED <<edges, Root>>
<1>1. CASE Link
  <2>1. Root' = [n \in Nodes |-> IF Root[n] = right THEN left ELSE Root[n]]
    BY <1>1, Linking DEF IInv, Link, TypeOK
  <2>2. Root[left] = left /\ Root[right] = right
    BY <1>1, RootFacts DEF IInv, Link, TypeOK
  <2>3. PICK e \in edges : ~e.handoff /\ Root[e.source] = left /\ Root[e.target] = right
    BY <1>1, <2>2 DEF IInv, EdgesJoined, Link
  <2>4. Root' = [n \in Nodes |-> IF Root[n] = Root[e.target]
                                 THEN Root[e.source] ELSE Root[n]]
    BY <2>1, <2>3
  <2>5. UNCHANGED edges
    BY <1>1 DEF Link
  <2>6. Merging!Join(e)
    BY <2>3, <2>4, <2>5 DEF Merging!Join, Root
  <2> QED  BY <2>6 DEF Merging!Next
<1>2. CASE ClimbLeft
  BY <1>2, Halving DEF IInv, ClimbLeft, TypeOK
<1>3. CASE ClimbRight
  BY <1>3, Halving DEF IInv, ClimbRight, TypeOK
<1>4. CASE ClimbMember
  BY <1>4, Halving DEF IInv, ClimbMember, TypeOK
<1>5. CASE \/ \E e \in todo : SkipEdge(e) \/ TakeEdge(e)
           \/ \E n \in Nodes : PickMember(n)
           \/ Place \/ MakeClusters \/ UNCHANGED vars
  <2>1. UNCHANGED <<edges, parent>>
    BY <1>5 DEF SkipEdge, TakeEdge, PickMember, Place, MakeClusters, vars, results
  <2> QED  BY <2>1, SameParent DEF IInv
<1> QED  BY <1>1, <1>2, <1>3, <1>4, <1>5 DEF Next

\* The union-find implements the joining of classes.
THEOREM Refinement == Spec => ImplementsComponents
<1>1. Init => Merging!Init
  BY InitIInv DEF Init, Merging!Init, Root
<1>2. IInv /\ [Next]_vars => [Merging!Next]_(<<edges, RootIn(parent)>>)
  BY StepJoins DEF Root
<1> QED  BY <1>1, <1>2, Invariance, PTL DEF Spec, ImplementsComponents, Merging!Spec

-----------------------------------------------------------------------------
(***************************************************************************)
(* Why the union-find returns.  TurnsLeft counts the turns of the outer    *)
(* loops that are still to come; a turn of find's loop leaves it alone,    *)
(* but lowers the node that climbs by every measure of the forest, and     *)
(* leaves the forest measurable.                                           *)
(***************************************************************************)
\* d falls along every pointer.
Height(d) == /\ d \in [Nodes -> Nat]
             /\ \A n \in Nodes : parent[n] # n => d[parent[n]] < d[n]

Phase == CASE pc = "union" -> 2 [] pc = "scan" -> 1 [] OTHER -> 0

TurnsLeft == Cardinality(todo) + Cardinality(todo)
             + Cardinality(Nodes \ DOMAIN groups) + Cardinality(Nodes \ DOMAIN groups)
             + Phase

Climbs(d) == /\ Height(d)'
             /\ \/ d[left'] < d[left] /\ right' = right
                \/ d[right'] < d[right] /\ left' = left

\* The node that is being filed has not been filed yet.
Unfiled == pc = "find" => member \notin DOMAIN groups

\* A graph has finitely many relations.
LEMMA FinitelyManyEdges == IsFiniteSet(Edge)
<1> DEFINE P == Nodes \X Nodes
           Q == P \X BOOLEAN
           f == [q \in Q |-> [source |-> q[1][1], target |-> q[1][2], handoff |-> q[2]]]
<1>1. IsFiniteSet(P)  BY GraphAssumption, FS_Product
<1>2. IsFiniteSet({FALSE} \cup {TRUE})  BY FS_EmptySet, FS_Singleton, FS_Union
<1>3. BOOLEAN = {FALSE} \cup {TRUE}  OBVIOUS
<1>4. IsFiniteSet(Q)
  <2>1. IsFiniteSet(BOOLEAN)  BY <1>2, <1>3
  <2> HIDE DEF P
  <2> QED  BY <1>1, <2>1, FS_Product
<1>5. f \in [Q -> Edge]
  <2> SUFFICES ASSUME NEW q \in Q PROVE f[q] \in Edge
    OBVIOUS
  <2> QED  BY DEF Edge
<1>6. \A e \in Edge : \E q \in Q : f[q] = e
  <2> SUFFICES ASSUME NEW e \in Edge PROVE \E q \in Q : f[q] = e
    OBVIOUS
  <2>1. <<<<e.source, e.target>>, e.handoff>> \in Q  BY DEF Edge
  <2>2. f[<<<<e.source, e.target>>, e.handoff>>] = e  BY <2>1 DEF Edge
  <2> QED  BY <2>1, <2>2
<1>7. f \in Surjection(Q, Edge)
  <2> HIDE DEF f, Q
  <2> QED  BY <1>5, <1>6 DEF Surjection
<1> QED  BY <1>4, <1>7, FS_Surjection

\* The work that is left can be counted.
LEMMA WorkIsFinite ==
    ASSUME TypeOK
    PROVE  /\ IsFiniteSet(todo) /\ Cardinality(todo) \in Nat
           /\ IsFiniteSet(Nodes \ DOMAIN groups)
           /\ Cardinality(Nodes \ DOMAIN groups) \in Nat
<1>1. todo \subseteq Edge  BY GraphAssumption DEF TypeOK
<1>2. IsFiniteSet(todo)  BY <1>1, FinitelyManyEdges, FS_Subset
<1>3. IsFiniteSet(Nodes \ DOMAIN groups)  BY GraphAssumption, FS_Subset
<1> QED  BY <1>2, <1>3, FS_CardinalityType

\* A turn of find's loop at n lowers n, for every measure of the forest.
LEMMA ClimbingIsFalling ==
    ASSUME parent \in [Nodes -> Nodes], NEW n \in Nodes, ~IsRoot(n), HalvePath(n),
           NEW d, Height(d)
    PROVE  Height(d)' /\ d[parent[parent[n]]] < d[n]
<1>1. /\ parent[n] \in Nodes /\ parent[parent[n]] \in Nodes
      /\ d[n] \in Nat /\ d[parent[n]] \in Nat /\ d[parent[parent[n]]] \in Nat
      /\ d[parent[n]] < d[n]
  BY DEF Height, IsRoot
<1>2. d[parent[parent[n]]] <= d[parent[n]]
  BY <1>1 DEF Height
<1>3. d[parent[parent[n]]] < d[n]
  BY <1>1, <1>2
<1>4. \A m \in Nodes : parent'[m] # m => d[parent'[m]] < d[m]
  BY <1>3 DEF Height, HalvePath
<1> QED  BY <1>3, <1>4 DEF Height

\* Whoever is being filed stays unfiled until Place.
LEMMA UnfiledStep == TypeOK /\ Unfiled /\ [Next]_vars => Unfiled'
BY DEF Unfiled, TypeOK, Next, vars, results, SkipEdge, TakeEdge, ClimbLeft, ClimbRight,
       Link, PickMember, ClimbMember, Place, MakeClusters

\* The turns of the outer loops use the work up.
LEMMA OuterTurn ==
    ASSUME TypeOK, Unfiled,
           \/ \E e \in todo : SkipEdge(e) \/ TakeEdge(e)
           \/ \E n \in Nodes : PickMember(n)
           \/ Link \/ Place \/ MakeClusters
    PROVE  TurnsLeft' < TurnsLeft
<1> DEFINE T == Cardinality(todo)
           G == Cardinality(Nodes \ DOMAIN groups)
<1>1. T \in Nat /\ G \in Nat /\ IsFiniteSet(todo) /\ IsFiniteSet(Nodes \ DOMAIN groups)
  BY WorkIsFinite
<1>2. TurnsLeft = T + T + G + G + Phase /\ TurnsLeft' = T' + T' + G' + G' + Phase'
  BY DEF TurnsLeft
<1>3. ASSUME NEW e \in todo, SkipEdge(e) \/ TakeEdge(e)
      PROVE  TurnsLeft' < TurnsLeft
  <2>1. T' = T - 1  BY <1>1, <1>3, FS_RemoveElement DEF SkipEdge, TakeEdge
  <2>2. G' = G  BY <1>3 DEF SkipEdge, TakeEdge, results
  <2>3. Phase = 1 /\ (Phase' = 1 \/ Phase' = 2)  BY <1>3 DEF SkipEdge, TakeEdge, Phase
  <2> HIDE DEF T, G
  <2> QED  BY <1>1, <1>2, <2>1, <2>2, <2>3
<1>4. CASE (\E n \in Nodes : PickMember(n)) \/ Link \/ MakeClusters
  <2>1. T' = T /\ G' = G  BY <1>4 DEF PickMember, Link, MakeClusters, results
  <2>2. \/ Phase' = 0 /\ Phase = 1
        \/ Phase' = 1 /\ Phase = 2
    BY <1>4 DEF PickMember, Link, MakeClusters, Phase
  <2> HIDE DEF T, G
  <2> QED  BY <1>1, <1>2, <2>1, <2>2
<1>5. CASE Place
  <2>1. T' = T  BY <1>5 DEF Place
  <2>2. member \in Nodes \ DOMAIN groups
    BY <1>5 DEF Place, Unfiled, TypeOK
  <2>3. DOMAIN groups' = DOMAIN groups \cup {member}  BY <1>5 DEF Place
  <2>4. Nodes \ DOMAIN groups' = (Nodes \ DOMAIN groups) \ {member}  BY <2>3
  <2>5. G' = G - 1
    <3> DEFINE U == Nodes \ DOMAIN groups
    <3>1. IsFiniteSet(U) /\ member \in U  BY <1>1, <2>2
    <3> HIDE DEF U
    <3>2. Cardinality(U \ {member}) = Cardinality(U) - 1
      BY <3>1, FS_RemoveElement
    <3> QED  BY <2>4, <3>2 DEF U
  <2>6. Phase = 0 /\ Phase' = 1  BY <1>5 DEF Place, Phase
  <2> HIDE DEF T, G
  <2> QED  BY <1>1, <1>2, <2>1, <2>5, <2>6
<1> QED  BY <1>3, <1>4, <1>5

\* The safety half of Terminates: every turn uses up work of the outer loops,
\* or climbs towards the root of a forest that stays measurable.  Both orders
\* are well founded, so no behaviour has infinitely many turns, whatever the
\* graph, the order of its rows and the halvings.
THEOREM EveryTurnCounts ==
    Spec => [][ \/ TurnsLeft' < TurnsLeft
                \/ /\ TurnsLeft' = TurnsLeft
                   /\ \E d : Height(d)
                   /\ \A d : Height(d) => Climbs(d) ]_vars
<1>1. Init => Unfiled
  BY DEF Init, Unfiled
<1>2. ASSUME IInv, Unfiled, Next
      PROVE  \/ TurnsLeft' < TurnsLeft
             \/ /\ TurnsLeft' = TurnsLeft
                /\ \E d : Height(d)
                /\ \A d : Height(d) => Climbs(d)
  <2>1. TypeOK  BY <1>2 DEF IInv
  <2>2. \E d : Height(d)
    BY <1>2 DEF IInv, IsForest, Forest, Height
  <2>3. CASE ClimbLeft \/ ClimbRight \/ ClimbMember
    <3>1. UNCHANGED <<todo, groups, pc>>
      BY <2>3 DEF ClimbLeft, ClimbRight, ClimbMember, results
    <3>2. TurnsLeft' = TurnsLeft  BY <3>1 DEF TurnsLeft, Phase
    <3>3. ASSUME NEW d, Height(d) PROVE Climbs(d)
      <4>1. CASE ClimbLeft \/ ClimbMember
        BY <2>1, <3>3, <4>1, ClimbingIsFalling DEF ClimbLeft, ClimbMember, Climbs, TypeOK
      <4>2. CASE ClimbRight
        BY <2>1, <3>3, <4>2, ClimbingIsFalling DEF ClimbRight, Climbs, TypeOK
      <4> QED  BY <2>3, <4>1, <4>2
    <3> QED  BY <2>2, <3>2, <3>3
  <2> QED  BY <1>2, <2>1, <2>3, OuterTurn DEF Next
<1>3. IInv /\ Unfiled /\ [Next]_vars => Unfiled'
  BY UnfiledStep DEF IInv
<1>4. IInv /\ Unfiled /\ [Next]_vars =>
        [ \/ TurnsLeft' < TurnsLeft
          \/ /\ TurnsLeft' = TurnsLeft
             /\ \E d : Height(d)
             /\ \A d : Height(d) => Climbs(d) ]_vars
  BY <1>2
<1> QED  BY <1>1, <1>3, <1>4, Invariance, PTL DEF Spec
=============================================================================
