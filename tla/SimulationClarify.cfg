SPECIFICATION Spec
CONSTANTS
    a = a
    b = b
    x = x
    ok = ok
    new = new
    secret = secret
    Sessions = {s1, s2}
    Compositions <- MCOneVersion
    Fields <- MCFields
    Messages <- MCMessages
    MaxTurns = 2
    MaxWrites = 2
PROPERTIES
    ClarificationsSurvive
