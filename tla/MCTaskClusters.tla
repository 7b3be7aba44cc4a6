--------------------------- MODULE MCTaskClusters ---------------------------
(***************************************************************************)
(* Small graphs of four concepts for TLC.                                  *)
(***************************************************************************)
EXTENDS TaskClusters, FiniteSetsExt

CONSTANTS n1, n2, n3, n4

MCNodes == {n1, n2, n3, n4}

Says(s, t) == [source |-> s, target |-> t, handoff |-> FALSE]
HandsOff(s, t) == [source |-> s, target |-> t, handoff |-> TRUE]

\* Every relation between two of the concepts, one of a concept to itself, and
\* three hand-offs: along, across and at the end of a path.
MCEdges == ({Says(s, t) : s \in MCNodes, t \in MCNodes}
               \ {Says(n, n) : n \in MCNodes \ {n1}})
           \cup {HandsOff(n1, n2), HandsOff(n2, n3), HandsOff(n4, n1)}

\* Every graph of at most four of these relations.
MCGraphs == {G \in SUBSET MCEdges : Cardinality(G) <= 4}
=============================================================================
