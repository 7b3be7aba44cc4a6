SPECIFICATION Spec
CONSTANTS
    Requests = {r1, r2, r3, r4}
    MaxSessions = 2
    MaxViolations = 1
SYMMETRY Symmetry
INVARIANTS
    TypeOK
    JourneymanHasApproval
    ReadyOnEvidence
PROPERTIES
    ApprovalIsCarriedOut
    ImplementsCertification
