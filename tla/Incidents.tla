------------------------------ MODULE Incidents ------------------------------
(***************************************************************************)
(* The incident log of one service (internal/storage/db.go): each state    *)
(* change starts a goroutine that inserts a state_changes row and then     *)
(* opens or closes the service's incident, one SQL statement at a time     *)
(* under a 5 s context.  Nothing orders the goroutines but time: two       *)
(* results of the service are at least Interval ticks apart (the poll      *)
(* interval, less the time a check may take), and a goroutine is over      *)
(* when its context is, after WriteTimeout ticks.                          *)
(*                                                                         *)
(* A statement may fail (the database is away, the context expired) with   *)
(* or without having taken effect, and the engine may crash between any    *)
(* two: it restarts with a state machine in UNKNOWN and no goroutines,     *)
(* the tables stay.  MaxFaults bounds both together.                       *)
(***************************************************************************)
EXTENDS HealthFSM, FiniteSets

CONSTANTS
  Interval,      \* least number of ticks between two results
  WriteTimeout,  \* ticks a writer may take
  MaxFaults,     \* bound: failed statements and crashes
  MaxOpen        \* bound: unresolved incidents counted

ASSUME IncidentsAssumption ==
  /\ Interval \in Nat \ {0}
  /\ WriteTimeout \in Nat
  /\ MaxFaults \in Nat
  /\ MaxOpen \in Nat \ {0}

VARIABLES
  fsm,        \* the service's ServiceState, in the engine's memory
  sincePoll,  \* ticks since the last result, up to Interval
  writers,    \* WriteStateChange's goroutines that have not returned
  open,       \* unresolved rows of the service in incidents
  lastRow,    \* to_state of the newest row in state_changes
  faults      \* failed statements and crashes so far

vars == <<fsm, sincePoll, writers, open, lastRow, faults>>

WriterStep == {"insert", "ask", "open", "close"}

Writer == [to : State, pc : WriterStep, age : 0 .. WriteTimeout]

Init ==
  /\ fsm = NewServiceState
  /\ sincePoll = 0
  /\ writers = {}
  /\ open = 0
  /\ lastRow = "UNKNOWN"
  /\ faults = 0

-----------------------------------------------------------------------------

\* WriteStateChange starts a goroutine; the poll does not wait for it.
Poll(ok) ==
  LET next == Transition(fsm, ok) IN
  /\ sincePoll = Interval
  /\ sincePoll' = 0
  /\ fsm' = next
  /\ writers' = IF Changed(fsm, ok)
                  THEN writers \cup {[to |-> next.cur, pc |-> "insert", age |-> 0]}
                  ELSE writers
  /\ UNCHANGED <<open, lastRow, faults>>

\* Mutants: DEAD does not open an incident; HEALTHY does not close one.
\* handleIncident's switch: the statement that follows the insert.
FirstStatement_OnlyUnhealthy(to) ==
  IF to = "UNHEALTHY" THEN "ask"
  ELSE IF to \in {"HEALTHY", "RECOVERING"} THEN "close" ELSE "none"

FirstStatement_OnlyRecovering(to) ==
  IF to \in {"DEAD", "UNHEALTHY"} THEN "ask"
  ELSE IF to = "RECOVERING" THEN "close" ELSE "none"

FirstStatement(to) ==
  IF to \in {"DEAD", "UNHEALTHY"} THEN "ask"
  ELSE IF to \in {"HEALTHY", "RECOVERING"} THEN "close" ELSE "none"

\* w goes on to pc, or returns.
Proceed(w, pc) ==
  writers' = (writers \ {w}) \cup (IF pc = "none" THEN {} ELSE {[w EXCEPT !.pc = pc]})

\* The insert is best-effort: the incident logic runs whether or not it failed.
InsertRow(w) ==
  /\ w.pc = "insert"
  /\ lastRow' = w.to
  /\ Proceed(w, FirstStatement(w.to))
  /\ UNCHANGED <<fsm, sincePoll, open, faults>>

\* Mutant: the count is not looked at.
HasOpenIncident_Ignored(w) ==
  /\ w.pc = "ask"
  /\ Proceed(w, "open")
  /\ UNCHANGED <<fsm, sincePoll, open, lastRow, faults>>

HasOpenIncident(w) ==
  /\ w.pc = "ask"
  /\ Proceed(w, IF open > 0 THEN "none" ELSE "open")
  /\ UNCHANGED <<fsm, sincePoll, open, lastRow, faults>>

OpenIncident(w) ==
  /\ w.pc = "open"
  /\ open < MaxOpen
  /\ open' = open + 1
  /\ Proceed(w, "none")
  /\ UNCHANGED <<fsm, sincePoll, lastRow, faults>>

\* The UPDATE resolves every unresolved incident of the service.
CloseIncident(w) ==
  /\ w.pc = "close"
  /\ open' = 0
  /\ Proceed(w, "none")
  /\ UNCHANGED <<fsm, sincePoll, lastRow, faults>>

\* A statement reports an error, and took effect or did not.
FailStatement(w) ==
  /\ faults < MaxFaults
  /\ faults' = faults + 1
  /\ Proceed(w, IF w.pc = "insert" THEN FirstStatement(w.to) ELSE "none")
  /\ \/ UNCHANGED <<open, lastRow>>
     \/ w.pc = "insert" /\ lastRow' = w.to /\ UNCHANGED open
     \/ w.pc = "open" /\ open < MaxOpen /\ open' = open + 1 /\ UNCHANGED lastRow
     \/ w.pc = "close" /\ open' = 0 /\ UNCHANGED lastRow
  /\ UNCHANGED <<fsm, sincePoll>>

Crash ==
  /\ faults < MaxFaults
  /\ faults' = faults + 1
  /\ fsm' = NewServiceState
  /\ sincePoll' = 0
  /\ writers' = {}
  /\ UNCHANGED <<open, lastRow>>

\* Mutant: a writer without a deadline.
Tick_Untimed ==
  /\ sincePoll' = CountTo(sincePoll + 1, Interval)
  /\ writers' = {[w EXCEPT !.age = @ + 1] : w \in writers}
  /\ UNCHANGED <<fsm, open, lastRow, faults>>

Tick ==
  /\ \A w \in writers : w.age < WriteTimeout
  /\ sincePoll' = CountTo(sincePoll + 1, Interval)
  /\ writers' = {[w EXCEPT !.age = @ + 1] : w \in writers}
  /\ UNCHANGED <<fsm, open, lastRow, faults>>

WriterStepOf(w) ==
  InsertRow(w) \/ HasOpenIncident(w) \/ OpenIncident(w) \/ CloseIncident(w) \/ FailStatement(w)

Next ==
  \/ \E ok \in BOOLEAN : Poll(ok)
  \/ \E w \in writers : WriterStepOf(w)
  \/ Crash
  \/ Tick

Spec == Init /\ [][Next]_vars

-----------------------------------------------------------------------------

TypeOK ==
  /\ fsm \in ServiceState
  /\ sincePoll \in 0 .. Interval
  /\ writers \in SUBSET Writer
  /\ open \in 0 .. MaxOpen
  /\ lastRow \in State
  /\ faults \in 0 .. MaxFaults

\* A service never has two open incidents: an outage that worsens, or that
\* relapses, adds no second record (db.go:332-342).  The check and the insert
\* are two statements of a goroutine that nothing orders against the others.
AtMostOneOpen == open <= 1

\* Once the writers are done, a service that came back has no open incident,
\* although one statement may have failed or the engine may have restarted:
\* RECOVERING and HEALTHY both close.
HealthyHasNone == fsm.cur = "HEALTHY" /\ writers = {} => open = 0

\* Once the writers are done, a DEAD service has its incident, although one
\* statement may have failed or the engine may have restarted: UNHEALTHY and
\* DEAD both open.
DeadHasOne == fsm.cur = "DEAD" /\ writers = {} => open = 1

\* The newest row of the history is the state the service is in, when nothing
\* failed: rows are inserted in the order of the transitions.
HistoryIsCurrent == writers = {} /\ faults = 0 => lastRow = fsm.cur
=============================================================================
