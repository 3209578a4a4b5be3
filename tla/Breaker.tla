------------------------------ MODULE Breaker ------------------------------
(***************************************************************************)
(* The circuit breaker of one service, as the operations of                *)
(* apps/engine/internal/circuit/breaker.go on a record.  Every Go method   *)
(* holds b.mu from its first line to its last, so each of them is one      *)
(* atomic step of whoever calls it; the modules that poll services apply   *)
(* these operators in their actions.                                       *)
(*                                                                         *)
(* The two counters are compared with their thresholds only, so they are   *)
(* kept saturated there (Sat); `openedAt' is read only through             *)
(* time.Since(openedAt) >= Timeout while OPEN, so it is kept as the ticks  *)
(* spent in OPEN since then, saturated at Timeout.                         *)
(***************************************************************************)
EXTENDS Naturals

CONSTANTS
  FailureThreshold,  \* consecutive failures that open a CLOSED breaker
  SuccessThreshold,  \* consecutive successes that close a HALF_OPEN breaker
  Timeout            \* ticks an OPEN breaker waits before it probes

\* validateCircuit (config/validator.go) refuses thresholds below 1 and a
\* timeout that is not positive.
ASSUME BreakerAssumption ==
  /\ FailureThreshold \in Nat \ {0}
  /\ SuccessThreshold \in Nat \ {0}
  /\ Timeout \in Nat \ {0}

Sat(n, max) == IF n < max THEN n ELSE max

BreakerState == {"CLOSED", "OPEN", "HALF_OPEN"}

BreakerRecord ==
  [state            : BreakerState,
   consecutiveFails : 0 .. FailureThreshold,
   consecutiveOK    : 0 .. SuccessThreshold,
   openFor          : 0 .. Timeout]

NewBreaker ==
  [state |-> "CLOSED", consecutiveFails |-> 0, consecutiveOK |-> 0, openFor |-> 0]

\* b with other counts, and b after one more success or failure.
Counted(b, fails, oks) ==
  [state |-> b.state, consecutiveFails |-> fails, consecutiveOK |-> oks,
   openFor |-> b.openFor]

OneMoreOK(b)   == Counted(b, 0, Sat(b.consecutiveOK + 1, SuccessThreshold))
OneMoreFail(b) == Counted(b, Sat(b.consecutiveFails + 1, FailureThreshold), 0)

\* Mutant: openedAt is written the first time only.
transitionTo_KeepsOpenedAt(b, next) ==
  [b EXCEPT !.state            = next,
            !.consecutiveOK    = IF next = "OPEN" THEN 0 ELSE @,
            !.consecutiveFails = IF next = "CLOSED" THEN 0 ELSE @]

transitionTo(b, next) ==
  [state            |-> next,
   consecutiveFails |-> IF next = "CLOSED" THEN 0 ELSE b.consecutiveFails,
   consecutiveOK    |-> IF next = "OPEN" THEN 0 ELSE b.consecutiveOK,
   openFor          |-> IF next = "OPEN" THEN 0 ELSE b.openFor]

-----------------------------------------------------------------------------

\* IsOpen answers, and as a side effect turns an expired OPEN into HALF_OPEN.
IsOpen(b) == b.state = "OPEN" /\ b.openFor < Timeout

\* Mutant: the expired circuit lets the check through and stays OPEN.
AfterIsOpen_StaysOpen(b) == b

AfterIsOpen(b) ==
  IF b.state = "OPEN" /\ b.openFor >= Timeout
    THEN transitionTo(b, "HALF_OPEN")
    ELSE b

\* Mutants: a success leaves the failures counted; closes an OPEN circuit; is
\* compared with > in HALF_OPEN.
RecordSuccess_KeepsFails(b) ==
  LET counted == Counted(b, b.consecutiveFails, OneMoreOK(b).consecutiveOK)
  IN IF b.state = "CLOSED" THEN counted ELSE transitionTo(counted, "CLOSED")

RecordSuccess_ClosesOpen(b) ==
  LET counted == OneMoreOK(b)
  IN IF b.state = "OPEN" THEN transitionTo(counted, "CLOSED") ELSE counted

RecordSuccess_OneMore(b) ==
  LET counted == OneMoreOK(b)
  IN IF b.state = "OPEN" THEN transitionTo(counted, "HALF_OPEN")
     ELSE IF b.state = "HALF_OPEN" /\ counted.consecutiveOK > SuccessThreshold
       THEN transitionTo(counted, "CLOSED")
       ELSE counted

RecordSuccess(b) ==
  LET counted == OneMoreOK(b)
  IN IF b.state = "OPEN" THEN transitionTo(counted, "HALF_OPEN")
     ELSE IF b.state = "HALF_OPEN" /\ counted.consecutiveOK >= SuccessThreshold
       THEN transitionTo(counted, "CLOSED")
       ELSE counted

\* Mutant: a failed probe does not reopen the circuit.
RecordFailure_ProbeIgnored(b) ==
  LET counted == OneMoreFail(b)
  IN IF b.state = "CLOSED" /\ counted.consecutiveFails >= FailureThreshold
       THEN transitionTo(counted, "OPEN")
       ELSE counted

RecordFailure(b) ==
  LET counted == OneMoreFail(b)
  IN IF \/ b.state = "CLOSED" /\ counted.consecutiveFails >= FailureThreshold
        \/ b.state = "HALF_OPEN"
       THEN transitionTo(counted, "OPEN")
       ELSE counted

ResetBreaker(b) ==
  transitionTo(Counted(b, 0, 0), "CLOSED")

\* One tick of the clock, as an OPEN breaker sees it.
AgeBreaker(b) ==
  IF b.state = "OPEN" THEN [b EXCEPT !.openFor = Sat(@ + 1, Timeout)] ELSE b
=============================================================================
