---------------------------- MODULE MCHotReload ----------------------------
EXTENDS HotReload, TLC
CONSTANTS l1, l2, l3
=============================================================================
