CONSTANTS
    u1 = u1
    u2 = u2
    u3 = u3
    Users <- MCUsers
    InitialMembers <- MCInitialMembers
    MaxRemoves = 1
    MaxAttach = 2
    MaxInFlight = 2
    MaxAttaches = 2

SPECIFICATION Spec
INVARIANT TypeOK
