-------------------------- MODULE MCPassiveService --------------------------
EXTENDS PassiveService, TLC
CONSTANTS a1, a2
=============================================================================
