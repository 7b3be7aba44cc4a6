SPECIFICATION LSpec
CONSTANTS
    Requests = {r1, r2, r3}
    Experts = {e1}
    NoExpert = NoExpert
    Deciders = {d1}
    Simulators = {s1, s2}
    MaxSessions = 2
    MaxViolations = 1
SYMMETRY Symmetry
INVARIANTS
    LTypeOK
    ReadyOnApprovedComposition
    StaleOnlyByRace
