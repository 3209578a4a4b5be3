---------------------------- MODULE IncidentViews ----------------------------
(***************************************************************************)
(* What the API shows of one service's outages, in its two ways: from the  *)
(* engine's tables (QueryIncidents, GetIncidentByID and queryTimeline in   *)
(* api/store/db_reader.go) and, without a database, computed from the      *)
(* stream of state changes (buildIncidents in api/handlers/incidents.go).  *)
(* Module Incidents writes the tables; here each of its statements also    *)
(* leaves its mark in `tables', in the order of NOW(), and each state      *)
(* change in `events'.  A mark's time is told by the changes before it.    *)
(*                                                                         *)
(* The stream loses nothing here (ReadModel has its losses) and is shorter *)
(* than the 2000 messages the API reads of it.                             *)
(***************************************************************************)
EXTENDS Incidents, Sequences

CONSTANT MaxChanges  \* bound: state changes

ASSUME IncidentViewsAssumption == MaxChanges \in Nat

VARIABLES
  tables,  \* rows of state_changes, and openings and closings of incidents
  events   \* the stream of state changes: the new states

viewVars == <<vars, tables, events>>

InitViews == Init /\ tables = <<>> /\ events = <<>>

Marked(what, to) ==
  tables' = Append(tables, [what |-> what, to |-> to, at |-> Len(events)])

PollAndPublish(ok) ==
  /\ Poll(ok)
  /\ IF Changed(fsm, ok)
       THEN Len(events) < MaxChanges /\ events' = Append(events, fsm'.cur)
       ELSE UNCHANGED events
  /\ UNCHANGED tables

\* A statement that fails leaves its mark if it took effect.
MarkFailed(w) ==
  \/ w.pc = "insert" /\ lastRow' = w.to /\ Marked("row", w.to)
  \/ open' > open /\ Marked("opened", w.to)
  \/ open' < open /\ Marked("resolved", w.to)
  \/ open' = open /\ lastRow' = lastRow /\ UNCHANGED tables

Statement(w) ==
  /\ \/ InsertRow(w) /\ Marked("row", w.to)
     \/ HasOpenIncident(w) /\ UNCHANGED tables
     \/ OpenIncident(w) /\ Marked("opened", w.to)
     \/ CloseIncident(w) /\ IF open > 0 THEN Marked("resolved", w.to) ELSE UNCHANGED tables
     \/ FailStatement(w) /\ MarkFailed(w)
  /\ UNCHANGED events

NextViews ==
  \/ \E ok \in BOOLEAN : PollAndPublish(ok)
  \/ \E w \in writers : Statement(w)
  \/ (Crash \/ Tick) /\ UNCHANGED <<tables, events>>

SpecViews == InitViews /\ [][NextViews]_viewVars

-----------------------------------------------------------------------------
\* From the tables.

Rows == {r \in DOMAIN tables : tables[r].what = "row"}

\* The incidents: the places of their started_at and resolved_at in `tables'.
\* closeIncident resolves all that are open.
StartedAt == {p \in DOMAIN tables : tables[p].what = "opened"}

Closings(p) == {q \in DOMAIN tables : q > p /\ tables[q].what = "resolved"}

ResolvedAt(p) == CHOOSE q \in Closings(p) : \A r \in Closings(p) : q <= r

\* Mutant: the timeline of a resolved incident goes on to now.
queryTimeline_ToNow(p) == {r \in Rows : r >= p}

\* The rows since the incident was opened, up to when it was resolved.
queryTimeline(p) == {r \in Rows : r >= p /\ (Closings(p) # {} => r <= ResolvedAt(p))}

-----------------------------------------------------------------------------
\* From the stream.

healthyStates == {"HEALTHY", "UNKNOWN"}

Unhealthy(i) == events[i] \notin healthyStates

\* An incident opens at the first change to a state that is not healthy and
\* takes every change up to one that is.
buildIncidents ==
  {inc \in [first : DOMAIN events, last : DOMAIN events, open : BOOLEAN] :
     /\ inc.first > 1 => ~Unhealthy(inc.first - 1)
     /\ inc.first <= inc.last /\ Unhealthy(inc.first)
     /\ \A i \in inc.first .. inc.last : i < inc.last => Unhealthy(i)
     /\ inc.open = Unhealthy(inc.last)
     /\ inc.open => inc.last = Len(events)}

\* Mutant: RECOVERING counts for more than UNHEALTHY.
Severity_Swapped ==
  [DEAD |-> 4, RECOVERING |-> 3, UNHEALTHY |-> 2, DEGRADED |-> 1, HEALTHY |-> 0, UNKNOWN |-> 0]

Severity ==
  [DEAD |-> 4, UNHEALTHY |-> 3, RECOVERING |-> 2, DEGRADED |-> 1, HEALTHY |-> 0, UNKNOWN |-> 0]

worstState(inc) ==
  LET seen == {"DEGRADED"} \cup {events[i] : i \in inc.first .. inc.last}
  IN CHOOSE s \in seen : \A t \in seen : Severity[s] >= Severity[t]

-----------------------------------------------------------------------------

Settled == writers = {} /\ faults = 0

\* The two views tell of the same outages when nothing failed, although one
\* counts from DEGRADED to HEALTHY and the other from UNHEALTHY to RECOVERING:
\* each incident of the table opens within one of the stream's, the stream
\* calls an outage UNHEALTHY or DEAD exactly when the table has an incident for
\* it, and what is open in the table is open in the stream (incidents.go:423,
\* db.go:318-345).
OneOutageTwoViews ==
  Settled =>
    /\ \A inc \in buildIncidents :
         worstState(inc) \in {"UNHEALTHY", "DEAD"}
           <=> \E p \in StartedAt : tables[p].at \in inc.first .. inc.last
    /\ \A p \in StartedAt : \E inc \in buildIncidents :
         /\ tables[p].at \in inc.first .. inc.last
         /\ Closings(p) = {} => inc.open

\* A resolved incident's timeline ends with the change that resolved it and
\* has no change of another outage, when nothing failed (queryTimeline,
\* db_reader.go:290-316).  It does not begin with the change that opened the
\* incident: that row is older than started_at.
TimelineEndsWithRecovery ==
  Settled =>
    \A p \in StartedAt : Closings(p) # {} =>
      LET line == queryTimeline(p) IN
      /\ line # {}
      /\ \A i \in line :
           tables[i].to \in {"HEALTHY", "RECOVERING"} <=> \A j \in line : j <= i
=============================================================================
