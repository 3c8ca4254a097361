---------------------------- MODULE MC_SearchUsers ----------------------------
EXTENDS SearchUsers
=============================================================================
