SPECIFICATION Spec
CONSTANTS
    Creators = {c1, c2, c3, c4}
    NumTopics = 2
SYMMETRY Symmetry
INVARIANTS
    TypeOK
    CreatedIsComplete
    FreeNameIsClean
PROPERTY
    ImplementsAgentName
\* The requests are finitely many: when all are answered nothing is left to do.
CHECK_DEADLOCK FALSE
