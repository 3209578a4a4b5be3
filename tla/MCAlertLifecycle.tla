-------------------------- MODULE MCAlertLifecycle --------------------------
(* An instance of AlertLifecycle: two enabled channels, one that is not,   *)
(* and rules under which DEAD is not announced where UNHEALTHY was.        *)
EXTENDS AlertLifecycle, TLC

CONSTANTS slack, pagerduty, email

Rules ==
  [st \in State |->
     CASE st \in {"DEGRADED", "UNHEALTHY", "RECOVERING"} -> {slack}
       [] st = "DEAD" -> {pagerduty, email}
       [] OTHER -> {}]

\* The rules applyDefaults fills in (config.go:255-261).
DefaultRules ==
  [st \in State |->
     CASE st \in {"DEGRADED", "UNHEALTHY", "RECOVERING"} -> {slack}
       [] st = "DEAD" -> {slack, pagerduty, email}
       [] OTHER -> {}]
=============================================================================
