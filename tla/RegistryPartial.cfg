SPECIFICATION Spec
CONSTANTS
    Creators = {c1, c2}
    NumTopics = 2
INVARIANT NoPartialAgent
CHECK_DEADLOCK FALSE
