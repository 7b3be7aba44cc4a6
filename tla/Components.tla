----------------------------- MODULE Components -----------------------------
(***************************************************************************)
(* What the clustering of the task graph promises (T1.7, step 1): it       *)
(* starts from single concepts and only ever joins the two classes that a  *)
(* relation connects, as wholes.  A hand-off relation joins nothing.       *)
(* TaskClusters, the union-find of proposal_engine.py, implements this.    *)
(***************************************************************************)

CONSTANTS Nodes,      \* the task concepts
          Graphs      \* the sets of relations the graph may hold

VARIABLES edges,      \* the relations between them
          class       \* concept -> the representative of its class

Init == /\ edges \in Graphs
        /\ class = [n \in Nodes |-> n]

\* The class of e's target is absorbed by the class of e's source.
Join(e) == /\ ~e.handoff
           /\ class' = [n \in Nodes |-> IF class[n] = class[e.target]
                                        THEN class[e.source] ELSE class[n]]
           /\ UNCHANGED edges

Next == \E e \in edges : Join(e)

Spec == Init /\ [][Next]_<<edges, class>>
=============================================================================
