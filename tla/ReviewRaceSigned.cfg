SPECIFICATION Spec
CONSTANTS
    Requests = {r1, r2, r3}
    Experts = {e1, e2}
    NoExpert = NoExpert
PROPERTIES
    SignedRowsFrozen
\* The requests are finitely many: when all are answered nothing is left to do.
CHECK_DEADLOCK FALSE
