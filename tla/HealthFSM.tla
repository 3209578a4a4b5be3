----------------------------- MODULE HealthFSM -----------------------------
(***************************************************************************)
(* The health state machine of one service: ServiceState.Transition and    *)
(* its transition table (apps/engine/internal/health/state.go), on a       *)
(* record.  Transition holds s.mu throughout, so it is one atomic step.    *)
(*                                                                         *)
(* The two counters are compared with constants only (at most 5 failures,  *)
(* at most 3 successes) and are kept saturated there; SaturationIsExact in *)
(* HealthFSM_proofs says that nothing is lost by it.                       *)
(***************************************************************************)
EXTENDS Naturals

State == {"UNKNOWN", "HEALTHY", "DEGRADED", "UNHEALTHY", "DEAD", "RECOVERING"}

Bad == {"DEGRADED", "UNHEALTHY", "DEAD"}

\* The largest counts the table distinguishes.
MaxFails == 5
MaxOK    == 3

CountTo(n, max) == IF n < max THEN n ELSE max

\* PreviousState is the empty string until the first transition.
ServiceState ==
  [cur : State, prev : State \cup {""}, fails : 0 .. MaxFails, oks : 0 .. MaxOK]

NewServiceState == [cur |-> "UNKNOWN", prev |-> "", fails |-> 0, oks |-> 0]

-----------------------------------------------------------------------------

\* Mutant: a DEAD service that answers again stays DEAD.
NextOnSuccess_DeadSticks(cur, oks) ==
  CASE cur = "DEGRADED"   -> IF oks >= 2 THEN "HEALTHY" ELSE "DEGRADED"
    [] cur = "UNHEALTHY"  -> "RECOVERING"
    [] cur = "RECOVERING" -> IF oks >= 3 THEN "HEALTHY" ELSE "RECOVERING"
    [] cur = "DEAD"       -> "DEAD"
    [] OTHER              -> "HEALTHY"

NextOnSuccess(cur, oks) ==
  CASE cur = "DEGRADED"              -> IF oks >= 2 THEN "HEALTHY" ELSE "DEGRADED"
    [] cur \in {"UNHEALTHY", "DEAD"} -> "RECOVERING"
    [] cur = "RECOVERING"            -> IF oks >= 3 THEN "HEALTHY" ELSE "RECOVERING"
    [] OTHER                         -> "HEALTHY"

\* Mutant: a relapse while RECOVERING goes straight to DEAD.
NextOnFailure_RelapseDead(cur, fails) ==
  CASE cur = "DEGRADED"   -> IF fails >= 3 THEN "UNHEALTHY" ELSE "DEGRADED"
    [] cur = "UNHEALTHY"  -> IF fails >= 5 THEN "DEAD" ELSE "UNHEALTHY"
    [] cur = "RECOVERING" -> IF fails >= 2 THEN "DEAD" ELSE "RECOVERING"
    [] cur = "DEAD"       -> "DEAD"
    [] OTHER              -> "DEGRADED"

NextOnFailure(cur, fails) ==
  CASE cur = "DEGRADED"   -> IF fails >= 3 THEN "UNHEALTHY" ELSE "DEGRADED"
    [] cur = "UNHEALTHY"  -> IF fails >= 5 THEN "DEAD" ELSE "UNHEALTHY"
    [] cur = "DEAD"       -> "DEAD"
    [] cur = "RECOVERING" -> IF fails >= 2 THEN "UNHEALTHY" ELSE "RECOVERING"
    [] OTHER              -> IF fails >= 1 THEN "DEGRADED" ELSE "HEALTHY"

\* computeNextState, after Transition has counted the result.
computeNextState(cur, ok, fails, oks) ==
  IF ok THEN NextOnSuccess(cur, oks) ELSE NextOnFailure(cur, fails)

\* Mutant: PreviousState is not updated.
Transition_KeepsPrev(s, ok) ==
  LET fails == IF ok THEN 0 ELSE CountTo(s.fails + 1, MaxFails)
      oks   == IF ok THEN CountTo(s.oks + 1, MaxOK) ELSE 0
  IN [cur |-> computeNextState(s.cur, ok, fails, oks), prev |-> s.prev,
      fails |-> fails, oks |-> oks]

Transition(s, ok) ==
  LET fails == IF ok THEN 0 ELSE CountTo(s.fails + 1, MaxFails)
      oks   == IF ok THEN CountTo(s.oks + 1, MaxOK) ELSE 0
      next  == computeNextState(s.cur, ok, fails, oks)
  IN [cur   |-> next,
      prev  |-> IF next = s.cur THEN s.prev ELSE s.cur,
      fails |-> fails,
      oks   |-> oks]

\* The second result of Transition: did the state change?
Changed(s, ok) == Transition(s, ok).cur # s.cur

-----------------------------------------------------------------------------

\* What the counters say of each state: how many checks in a row agree, and
\* how far an outage or a recovery has come.
StateMatchesRun(s) ==
  /\ s.cur = "UNKNOWN"    => s.fails = 0 /\ s.oks = 0
  /\ s.cur = "HEALTHY"    => s.fails = 0 /\ s.oks >= 1
  /\ s.cur = "DEGRADED"   => \/ s.fails \in 1 .. 2 /\ s.oks = 0
                             \/ s.fails = 0 /\ s.oks = 1
  /\ s.cur = "UNHEALTHY"  => s.fails \in 2 .. 4 /\ s.oks = 0
  /\ s.cur = "DEAD"       => s.fails = 5 /\ s.oks = 0
  /\ s.cur = "RECOVERING" => \/ s.fails = 0 /\ s.oks \in 1 .. 2
                             \/ s.fails = 1 /\ s.oks = 0
=============================================================================
