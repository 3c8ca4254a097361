------------------------- MODULE MC_UserCredentials -------------------------
EXTENDS UserCredentials, TLC

CONSTANTS k1, k2, k3

MCKeys == {k1, k2, k3}
MCInitialKeys == {k1}
=============================================================================
