SPECIFICATION Spec
CONSTANTS
    p1 = p1
    p2 = p2
    r1 = r1
    r2 = r2
    r3 = r3
    Proc = {p1, p2}
    RunOrder <- MCRunOrder
    Mine <- MCMine
    Prompts <- MCPrompts
    MaxCalls = 1
    MaxCrashes = 1
    Torn = Torn
    Garbled = Garbled
    NoFile = NoFile
INVARIANT
    DecisionsLogged
