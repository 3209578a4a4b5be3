-------------------------- MODULE MCBreakerPolling --------------------------
EXTENDS BreakerPolling, TLC
=============================================================================
