--------------------------- MODULE MC_GroupMembers ---------------------------
EXTENDS GroupMembers, TLC

CONSTANTS u1, u2, u3

MCUsers == {u1, u2, u3}
MCInitialMembers == {u1, u2}

\* The users are interchangeable except for initial membership.
MCSymmetry == Permutations({u1, u2})
=============================================================================
