SPECIFICATION Spec
CONSTANTS
    a = a
    b = b
    x = x
    ok = ok
    new = new
    secret = secret
    Sessions = {s1, s2}
    Compositions <- MCTwoVersions
    Fields <- MCFields
    Messages <- MCMessages
    MaxTurns = 2
    MaxWrites = 2
CONSTRAINT FewTurns
SYMMETRY Symmetry
INVARIANTS
    TypeOK
    PendingOnlyInLastTurn
    PausedMeansPending
    ClarificationTakesEffect
    SummaryNotUnderstated
    SummarisedOnce
    HandoffsWereObserved
    RolesCoverContract
