----------------------------- MODULE Dispatcher -----------------------------
(***************************************************************************)
(* The alert dispatcher's decision for one service: which channels an      *)
(* alert goes to, and the outage lifecycle it keeps to suppress repeats    *)
(* (selectChannelsForAlert in apps/engine/internal/alerts/dispatcher.go).  *)
(* The whole decision holds d.mu and is one atomic step.  A missing map    *)
(* entry is NoLifecycle, as in Go.                                         *)
(***************************************************************************)
EXTENDS HealthFSM, FiniteSets

CONSTANTS
  Channels,    \* channels that state_rules names
  Enabled,     \* the ones NewDispatcher created
  StateRules,  \* state -> channels, as configured or by default
  Escalate     \* escalate_on_worsening

ASSUME DispatcherAssumption ==
  /\ Enabled \subseteq Channels
  /\ StateRules \in [State -> SUBSET Channels]
  /\ Escalate \in BOOLEAN

Recovered == {"RECOVERING", "HEALTHY"}

Lifecycle ==
  [inBad : BOOLEAN, badState : State \cup {""}, active : SUBSET Channels]

NoLifecycle == [inBad |-> FALSE, badState |-> "", active |-> {}]

severity(st) ==
  CASE st = "DEGRADED"  -> 1
    [] st = "UNHEALTHY" -> 2
    [] st = "DEAD"      -> 3
    [] OTHER            -> 0

isWorsening(lc, st) == severity(st) > severity(lc.badState)

Onset(lc, st)     == st \in Bad /\ ~lc.inBad
Escalation(lc, st) == st \in Bad /\ lc.inBad /\ Escalate /\ isWorsening(lc, st)
Recovery(lc, st)  == st \in Recovered /\ lc.inBad

\* Mutant: a recovery is announced where the rules of its state say.
SelectChannels_RecoveryByRule(lc, st) ==
  IF Escalation(lc, st) THEN lc.active \cup StateRules[st]
  ELSE IF Onset(lc, st) \/ Recovery(lc, st) THEN StateRules[st]
  ELSE {}

\* Channels the alert goes to (of these, Dispatch skips those not enabled).
SelectChannels(lc, st) ==
  IF Onset(lc, st) THEN StateRules[st]
  ELSE IF Escalation(lc, st) THEN lc.active \cup StateRules[st]
  ELSE IF Recovery(lc, st) THEN lc.active
  ELSE IF st \in Bad \cup Recovered THEN {}
  ELSE StateRules[st]

\* Mutants: an escalation forgets the channels alerted at the onset; recovery
\* is only noticed at HEALTHY.
AfterSelect_ReplacesActive(lc, st) ==
  IF Onset(lc, st) \/ Escalation(lc, st)
    THEN [inBad |-> TRUE, badState |-> st, active |-> StateRules[st]]
    ELSE IF Recovery(lc, st) THEN NoLifecycle ELSE lc

AfterSelect_OnlyHealthy(lc, st) ==
  IF Onset(lc, st) \/ Escalation(lc, st)
    THEN [inBad |-> TRUE, badState |-> st, active |-> lc.active \cup StateRules[st]]
    ELSE IF Recovery(lc, st) /\ st = "HEALTHY" THEN NoLifecycle ELSE lc

\* The lifecycle afterwards; NoLifecycle's active set is empty.
AfterSelect(lc, st) ==
  IF Onset(lc, st) \/ Escalation(lc, st)
    THEN [inBad |-> TRUE, badState |-> st, active |-> lc.active \cup StateRules[st]]
    ELSE IF Recovery(lc, st) THEN NoLifecycle ELSE lc
=============================================================================
