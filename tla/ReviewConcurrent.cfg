SPECIFICATION FairSpec
CONSTANTS
    Requests = {r1, r2, r3, r4}
    Experts = {e1}
    NoExpert = NoExpert
INVARIANTS
    TypeOK
    VersionsContiguous
    EditedVersionStands
    SignatureIsTheApprovers
    NoSilentDeadEnd
PROPERTIES
    HistoryIsKept
    LedgerUnlessOvertaken
    RejectionLeadsToProposal
\* The requests are finitely many: when all are answered nothing is left to do.
CHECK_DEADLOCK FALSE
