-------------------------- MODULE MCHealthMonitor --------------------------
(* Instances of HealthMonitor: the dependency graphs and the goroutines.   *)
EXTENDS HealthMonitor, TLC

CONSTANTS db, web, slack, loopDb, loopWeb

\* web depends on db; one poll loop each.
ChainDeps == (db :> {}) @@ (web :> {db})
\* Each depends on the other, which config validation accepts.
CycleDeps == (db :> {web}) @@ (web :> {db})

LoopTarget == (loopDb :> db) @@ (loopWeb :> web)

\* web's sinks, or none.
FollowWeb  == (db :> {}) @@ (web :> Sinks)
FollowNone == (db :> {}) @@ (web :> {})

Rules == [st \in State |-> IF st \in Bad THEN {slack} ELSE {}]
=============================================================================
