SPECIFICATION Spec
CONSTANTS
    Requests = {r1, r2, r3}
    Experts = {e1}
    NoExpert = NoExpert
INVARIANTS
    ApprovedMeansSigned
\* The requests are finitely many: when all are answered nothing is left to do.
CHECK_DEADLOCK FALSE
