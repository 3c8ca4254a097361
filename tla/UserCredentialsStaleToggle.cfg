CONSTANTS
    k1 = k1
    k2 = k2
    k3 = k3
    Null = Null
    MaxCreates = 2
    Keys <- MCKeys
    InitialKeys <- MCInitialKeys

SPECIFICATION Spec

INVARIANT TableShowsKeys
