------------------------------- MODULE MCHub -------------------------------
EXTENDS Hub, TLC
CONSTANTS c1, c2
=============================================================================
