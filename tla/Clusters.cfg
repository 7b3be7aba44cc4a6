SPECIFICATION FairSpec
CONSTANTS
    n1 = n1
    n2 = n2
    n3 = n3
    n4 = n4
    Nodes <- MCNodes
    General = General
    Graphs <- MCGraphs
    MinClusterSize = 2
INVARIANTS
    TypeOK
    ClustersAreComponents
    CrossEdgesAreHandoffs
PROPERTIES
    Terminates
    ImplementsComponents
\* The function returns.
CHECK_DEADLOCK FALSE
