-------------------------- MODULE Incidents_proofs --------------------------
(***************************************************************************)
(* Modules Incidents and IncidentViews for every interval that is longer   *)
(* than a writer may take, and any number of failed statements and         *)
(* crashes.                                                                *)
(***************************************************************************)
EXTENDS IncidentViews, HealthFSM_proofs, SequenceTheorems

\* While results are further apart than a writer lives, there is one writer at
\* a time: its age is the time since the last result.  So the answer of
\* hasOpenIncident is still true when openIncident inserts.
OneWriter ==
  /\ \A w \in writers : w.age = sincePoll
  /\ \A v, w \in writers : v = w
  /\ \A w \in writers : w.pc = "open" => open = 0

IncidentsInv == TypeOK /\ OneWriter /\ AtMostOneOpen

LEMMA FirstStatementIsStep ==
  ASSUME NEW to \in State
  PROVE  FirstStatement(to) \in {"ask", "close", "none"}
  BY DEF FirstStatement

LEMMA IncidentsInvInit == Init => IncidentsInv
<1> SUFFICES ASSUME Init PROVE IncidentsInv
  OBVIOUS
<1>1. /\ fsm = NewServiceState /\ sincePoll = 0 /\ writers = {}
      /\ open = 0 /\ lastRow = "UNKNOWN" /\ faults = 0
  BY DEF Init
<1>2. NewServiceState \in ServiceState
  BY DEF NewServiceState, ServiceState, State, MaxFails, MaxOK
<1>3. TypeOK
  BY <1>1, <1>2, IncidentsAssumption DEF TypeOK, State
<1> QED BY <1>1, <1>3 DEF IncidentsInv, OneWriter, AtMostOneOpen

\* A writer that goes on, or returns, leaves at most itself behind.
LEMMA ProceedKeepsOne ==
  ASSUME IncidentsInv, NEW w \in writers, NEW pc \in WriterStep \cup {"none"},
         Proceed(w, pc)
  PROVE  /\ writers' \in SUBSET Writer
         /\ \A v \in writers' : v.age = sincePoll /\ v.pc = pc /\ v.pc # "none"
         /\ \A u, v \in writers' : u = v
<1>1. w \in Writer /\ writers = {w} /\ w.age = sincePoll
  BY DEF IncidentsInv, TypeOK, OneWriter
<1>2. CASE pc = "none"
  <2>1. writers' = {}
    BY <1>1, <1>2 DEF Proceed
  <2> QED BY <2>1
<1>3. CASE pc # "none"
  <2>1. writers' = {[w EXCEPT !.pc = pc]}
    BY <1>1, <1>3 DEF Proceed
  <2>2. [w EXCEPT !.pc = pc] \in Writer
    BY <1>1, <1>3 DEF Writer
  <2>3. [w EXCEPT !.pc = pc].pc = pc /\ [w EXCEPT !.pc = pc].age = w.age
    BY <1>1 DEF Writer
  <2> QED BY <1>1, <1>3, <2>1, <2>2, <2>3
<1> QED BY <1>2, <1>3

LEMMA IncidentsInvStep ==
  ASSUME WriteTimeout < Interval, IncidentsInv, [Next]_vars
  PROVE  IncidentsInv'
<1> USE IncidentsAssumption
<1>t. /\ fsm \in ServiceState /\ sincePoll \in 0 .. Interval /\ writers \in SUBSET Writer
      /\ open \in 0 .. MaxOpen /\ lastRow \in State /\ faults \in 0 .. MaxFaults
      /\ open <= 1
  BY DEF IncidentsInv, TypeOK, AtMostOneOpen
<1>w. \A w \in writers : /\ w.to \in State /\ w.pc \in WriterStep
                         /\ w.age \in 0 .. WriteTimeout /\ w.age = sincePoll
  BY <1>t DEF Writer, IncidentsInv, OneWriter
<1>1. ASSUME NEW ok \in BOOLEAN, Poll(ok) PROVE IncidentsInv'
  <2>1. writers = {}
    BY <1>1, <1>w DEF Poll
  <2>2. fsm' = Transition(fsm, ok) /\ sincePoll' = 0 /\ UNCHANGED <<open, lastRow, faults>>
    BY <1>1 DEF Poll
  <2>3. fsm' \in ServiceState
    BY <1>t, <2>2, TransitionTyped
  <2> DEFINE new == [to |-> fsm'.cur, pc |-> "insert", age |-> 0]
  <2>4. new \in Writer /\ new.age = 0 /\ new.pc = "insert"
    <3>1. fsm'.cur \in State
      BY <2>3 DEF ServiceState
    <3>2. 0 \in 0 .. WriteTimeout /\ "insert" \in WriterStep
      BY DEF WriterStep
    <3> QED BY <3>1, <3>2 DEF Writer
  <2>5. writers' = {} \/ writers' = {new}
    BY <1>1, <2>1, <2>2 DEF Poll
  <2> HIDE DEF new
  <2>6. TypeOK'
    BY <1>t, <2>2, <2>3, <2>4, <2>5 DEF TypeOK
  <2>7. OneWriter'
    BY <2>2, <2>4, <2>5 DEF OneWriter
  <2> QED BY <1>t, <2>2, <2>6, <2>7 DEF IncidentsInv, AtMostOneOpen
<1>2. ASSUME NEW w \in writers, WriterStepOf(w) PROVE IncidentsInv'
  <2>1. UNCHANGED <<fsm, sincePoll>>
    BY <1>2 DEF WriterStepOf, InsertRow, HasOpenIncident, OpenIncident, CloseIncident,
                FailStatement
  <2>2. FirstStatement(w.to) \in {"ask", "close", "none"}
    BY <1>w, FirstStatementIsStep
  <2>3. PICK pc \in WriterStep \cup {"none"} :
          /\ Proceed(w, pc)
          /\ pc = "open" => open = 0 /\ UNCHANGED open
          /\ open' \in 0 .. MaxOpen /\ open' <= 1
          /\ lastRow' \in State /\ faults' \in 0 .. MaxFaults
    <3>1. CASE InsertRow(w)
      BY <1>t, <1>w, <2>2, <3>1 DEF InsertRow, WriterStep
    <3>2. CASE HasOpenIncident(w)
      BY <1>t, <3>2 DEF HasOpenIncident, WriterStep
    <3>3. CASE OpenIncident(w)
      <4>1. open = 0
        BY <3>3 DEF OpenIncident, IncidentsInv, OneWriter
      <4> QED BY <1>t, <3>3, <4>1 DEF OpenIncident, WriterStep
    <3>4. CASE CloseIncident(w)
      BY <1>t, <3>4 DEF CloseIncident, WriterStep
    <3>5. CASE FailStatement(w)
      <4>1. w.pc = "open" => open = 0
        BY DEF IncidentsInv, OneWriter
      <4>2. PICK pc \in {"ask", "close", "none"} : Proceed(w, pc)
        BY <2>2, <3>5 DEF FailStatement
      <4>3. /\ open' \in 0 .. MaxOpen /\ open' <= 1
            /\ lastRow' \in State /\ faults' \in 0 .. MaxFaults
        BY <1>t, <1>w, <3>5, <4>1 DEF FailStatement
      <4> QED BY <4>2, <4>3 DEF WriterStep
    <3> QED BY <1>2, <3>1, <3>2, <3>3, <3>4, <3>5 DEF WriterStepOf
  <2>4. /\ writers' \in SUBSET Writer
        /\ \A v \in writers' : v.age = sincePoll /\ v.pc = pc
        /\ \A u, v \in writers' : u = v
    BY <2>3, ProceedKeepsOne
  <2>5. TypeOK'
    BY <1>t, <2>1, <2>3, <2>4 DEF TypeOK
  <2>6. OneWriter'
    BY <2>1, <2>3, <2>4 DEF OneWriter
  <2> QED BY <2>3, <2>5, <2>6 DEF IncidentsInv, AtMostOneOpen
<1>3. ASSUME Crash PROVE IncidentsInv'
  <2>1. /\ fsm' = NewServiceState /\ sincePoll' = 0 /\ writers' = {}
        /\ UNCHANGED <<open, lastRow>> /\ faults' \in 0 .. MaxFaults
    BY <1>3, <1>t DEF Crash
  <2>2. NewServiceState \in ServiceState
    BY DEF NewServiceState, ServiceState, State, MaxFails, MaxOK
  <2> QED BY <1>t, <2>1, <2>2 DEF IncidentsInv, TypeOK, OneWriter, AtMostOneOpen
<1>4. ASSUME Tick PROVE IncidentsInv'
  <2>1. /\ writers' = {[w EXCEPT !.age = @ + 1] : w \in writers}
        /\ sincePoll' = CountTo(sincePoll + 1, Interval)
        /\ UNCHANGED <<fsm, open, lastRow, faults>>
    BY <1>4 DEF Tick
  <2>2. sincePoll' \in 0 .. Interval
    BY <1>t, <2>1 DEF CountTo
  <2>3. ASSUME NEW w \in writers
        PROVE  LET a == [w EXCEPT !.age = @ + 1]
               IN a \in Writer /\ a.age = sincePoll' /\ a.pc = w.pc
    <3>1. w.age < WriteTimeout /\ w \in Writer
      BY <1>4, <1>t DEF Tick
    <3>2. w.age + 1 \in 0 .. WriteTimeout /\ w.age + 1 = sincePoll'
      BY <1>t, <1>w, <2>1, <3>1 DEF CountTo
    <3> QED BY <3>1, <3>2 DEF Writer
  <2>4. TypeOK'
    BY <1>t, <2>1, <2>2, <2>3 DEF TypeOK
  <2>5. OneWriter'
    BY <2>1, <2>3 DEF OneWriter, IncidentsInv
  <2> QED BY <1>t, <2>1, <2>4, <2>5 DEF IncidentsInv, AtMostOneOpen
<1>5. ASSUME UNCHANGED vars PROVE IncidentsInv'
  BY <1>5 DEF vars, IncidentsInv, TypeOK, OneWriter, AtMostOneOpen
<1> QED BY <1>1, <1>2, <1>3, <1>4, <1>5 DEF Next

LEMMA IncidentsInvHolds ==
  ASSUME WriteTimeout < Interval
  PROVE  Spec => []IncidentsInv
<1>1. IncidentsInv /\ [Next]_vars => IncidentsInv'
  BY IncidentsInvStep
<1> QED BY <1>1, IncidentsInvInit, PTL DEF Spec

\* The model's variables keep their types.
THEOREM IncidentsTypeCorrect ==
  ASSUME WriteTimeout < Interval
  PROVE  Spec => []TypeOK
<1>1. IncidentsInv => TypeOK
  BY DEF IncidentsInv
<1> QED BY <1>1, IncidentsInvHolds, PTL

\* No service ever has two open incidents, whatever fails and however often
\* the engine restarts, as long as results are further apart than a writer
\* may take (db.go:292-374).
THEOREM NoSecondIncident ==
  ASSUME WriteTimeout < Interval
  PROVE  Spec => []AtMostOneOpen
<1>1. IncidentsInv => AtMostOneOpen
  BY DEF IncidentsInv
<1> QED BY <1>1, IncidentsInvHolds, PTL

-----------------------------------------------------------------------------

\* How far the tables are behind the state machine.  A writer writes the state
\* the service is in; while nothing has failed the tables are at most one
\* writer behind; after one failed statement or crash, HEALTHY still ends with
\* a close and DEAD with an open.
WriterFollows ==
  \A w \in writers :
    /\ w.to = fsm.cur
    /\ w.pc \in {"ask", "open"} => w.to \in {"DEAD", "UNHEALTHY"}
    /\ w.pc = "close" => w.to \in {"HEALTHY", "RECOVERING"}

Opens  == \E w \in writers : w.pc \in {"insert", "ask", "open"}
Closes == \E w \in writers : w.pc \in {"insert", "close"}

LogFollows ==
  faults = 0 =>
    /\ fsm.cur \in {"UNKNOWN", "HEALTHY", "DEGRADED"} => open = 0
    /\ fsm.cur = "RECOVERING" => open = 0 \/ Closes
    /\ fsm.cur = "UNHEALTHY"  => open = 1 \/ Opens
    /\ fsm.cur = "DEAD"       => open = 1
    /\ lastRow = fsm.cur \/ \E w \in writers : w.pc = "insert"

LogRecovers ==
  faults <= 1 =>
    /\ fsm.cur = "HEALTHY" => open = 0 \/ Closes
    /\ fsm.cur = "DEAD"    => open = 1 \/ Opens

LogInv == WriterFollows /\ LogFollows /\ LogRecovers

\* HEALTHY and DEGRADED are not entered from an outage the log has open, nor
\* DEAD from outside one (state.go:171-232).
LEMMA OutageEdges ==
  ASSUME NEW s \in ServiceState, NEW ok \in BOOLEAN
  PROVE  /\ Transition(s, ok).cur \in {"UNKNOWN", "HEALTHY", "DEGRADED"} =>
              s.cur \in {"UNKNOWN", "HEALTHY", "DEGRADED", "RECOVERING"}
         /\ Transition(s, ok).cur = "DEAD" => s.cur \in {"UNHEALTHY", "DEAD"}
<1>1. s.cur \in State
  BY Zenon DEF ServiceState
<1> DEFINE Edge(t) == /\ t.cur \in {"UNKNOWN", "HEALTHY", "DEGRADED"} =>
                           s.cur \in {"UNKNOWN", "HEALTHY", "DEGRADED", "RECOVERING"}
                      /\ t.cur = "DEAD" => s.cur \in {"UNHEALTHY", "DEAD"}
<1>2. Edge(Transition(s, TRUE))
  BY <1>1, OnSuccess DEF State
<1>3. Edge(Transition(s, FALSE))
  BY <1>1, OnFailure DEF State
<1> HIDE DEF Edge
<1>4. Edge(Transition(s, ok))
  BY <1>2, <1>3, Zenon
<1> QED BY <1>4 DEF Edge

LEMMA LogInvInit == Init => LogInv
<1>1. NewServiceState.cur = "UNKNOWN"
  BY DEF NewServiceState
<1> QED BY <1>1 DEF Init, LogInv, WriterFollows, LogFollows, LogRecovers

\* The only writer goes on to pc, or returns.
LEMMA ProceedGoesOn ==
  ASSUME IncidentsInv, NEW w \in writers, NEW pc \in WriterStep \cup {"none"},
         Proceed(w, pc)
  PROVE  \/ pc = "none" /\ writers' = {}
         \/ pc # "none" /\ \E v \in Writer : writers' = {v} /\ v.pc = pc /\ v.to = w.to
<1>1. w \in Writer /\ writers = {w}
  BY DEF IncidentsInv, TypeOK, OneWriter
<1>2. CASE pc = "none"
  BY <1>1, <1>2 DEF Proceed
<1>3. CASE pc # "none"
  <2> DEFINE v == [w EXCEPT !.pc = pc]
  <2>1. v \in Writer /\ v.pc = pc /\ v.to = w.to
    BY <1>1, <1>3 DEF Writer
  <2>2. writers' = {v}
    BY <1>1, <1>3 DEF Proceed
  <2> HIDE DEF v
  <2> QED BY <1>3, <2>1, <2>2
<1> QED BY <1>2, <1>3

LEMMA StatementKeepsLog ==
  ASSUME IncidentsInv, LogInv, NEW w \in writers, WriterStepOf(w)
  PROVE  LogInv'
<1>s. fsm.cur \in State
  BY Zenon DEF ServiceState, IncidentsInv, TypeOK
<1>t. /\ open \in {0, 1} /\ faults \in Nat
      /\ w.to = fsm.cur /\ w.pc \in WriterStep /\ writers = {w}
      /\ w.pc = "open" => open = 0
  BY IncidentsAssumption
     DEF IncidentsInv, TypeOK, OneWriter, AtMostOneOpen, Writer, LogInv, WriterFollows
<1> USE DEF LogInv, WriterFollows, LogFollows, LogRecovers, Opens, Closes
<1>1. CASE InsertRow(w)
  <2>1. /\ Proceed(w, FirstStatement(w.to)) /\ lastRow' = w.to
        /\ UNCHANGED <<fsm, open, faults>>
    BY <1>1 DEF InsertRow
  <2>2. FirstStatement(w.to) \in WriterStep \cup {"none"}
    BY <1>s, <1>t, FirstStatementIsStep DEF WriterStep
  <2>3. /\ FirstStatement(w.to) = "ask" <=> w.to \in {"DEAD", "UNHEALTHY"}
        /\ FirstStatement(w.to) = "close" <=> w.to \in {"HEALTHY", "RECOVERING"}
        /\ FirstStatement(w.to) # "open"
    BY DEF FirstStatement
  <2>4. \/ FirstStatement(w.to) = "none" /\ writers' = {}
        \/ \E v \in Writer : writers' = {v} /\ v.pc = FirstStatement(w.to) /\ v.to = w.to
    BY <2>1, <2>2, ProceedGoesOn
  <2>5. WriterFollows'
    BY <1>t, <2>1, <2>3, <2>4
  <2>6. fsm.cur \in {"DEAD", "UNHEALTHY"} => Opens'
    BY <1>t, <2>3, <2>4
  <2>7. fsm.cur \in {"HEALTHY", "RECOVERING"} => Closes'
    BY <1>t, <2>3, <2>4
  <2> QED BY <1>t, <2>1, <2>5, <2>6, <2>7
<1>2. CASE HasOpenIncident(w)
  <2>1. /\ Proceed(w, IF open > 0 THEN "none" ELSE "open")
        /\ w.pc = "ask" /\ UNCHANGED <<fsm, open, lastRow, faults>>
    BY <1>2 DEF HasOpenIncident
  <2>2. (IF open > 0 THEN "none" ELSE "open") \in WriterStep \cup {"none"}
    BY DEF WriterStep
  <2>3. \/ open = 1 /\ writers' = {}
        \/ \E v \in Writer : writers' = {v} /\ v.pc = "open" /\ v.to = w.to
    <3>1. CASE open > 0
      BY <1>t, <2>1, <2>2, <3>1, ProceedGoesOn
    <3>2. CASE ~(open > 0)
      BY <2>1, <2>2, <3>2, ProceedGoesOn
    <3> QED BY <3>1, <3>2
  <2>4. fsm.cur \in {"DEAD", "UNHEALTHY"}
    BY <1>t, <2>1
  <2>5. open = 1 \/ Opens'
    BY <2>3
  <2>6. WriterFollows'
    BY <1>t, <2>1, <2>3, <2>4
  <2> QED BY <1>t, <2>1, <2>4, <2>5, <2>6
<1>3. CASE OpenIncident(w)
  <2>1. /\ Proceed(w, "none") /\ w.pc = "open" /\ open' = open + 1
        /\ UNCHANGED <<fsm, lastRow, faults>>
    BY <1>3 DEF OpenIncident
  <2>2. writers' = {}
    BY <2>1, ProceedGoesOn DEF WriterStep
  <2>3. fsm.cur \in {"DEAD", "UNHEALTHY"} /\ open' = 1
    BY <1>t, <2>1
  <2> QED BY <1>t, <2>1, <2>2, <2>3
<1>4. CASE CloseIncident(w)
  <2>1. /\ Proceed(w, "none") /\ w.pc = "close" /\ open' = 0
        /\ UNCHANGED <<fsm, lastRow, faults>>
    BY <1>4 DEF CloseIncident
  <2>2. writers' = {}
    BY <2>1, ProceedGoesOn DEF WriterStep
  <2>3. fsm.cur \in {"HEALTHY", "RECOVERING"}
    BY <1>t, <2>1
  <2> QED BY <1>t, <2>1, <2>2, <2>3
<1>5. CASE FailStatement(w)
  <2> DEFINE pc == IF w.pc = "insert" THEN FirstStatement(w.to) ELSE "none"
  <2>1. Proceed(w, pc) /\ faults' = faults + 1 /\ UNCHANGED fsm
    BY <1>5 DEF FailStatement
  <2>2. \/ open' = open
        \/ w.pc = "open" /\ open' = open + 1
        \/ w.pc = "close" /\ open' = 0
    BY <1>5 DEF FailStatement
  <2>3. /\ pc \in WriterStep \cup {"none"}
        /\ pc = "ask" => w.to \in {"DEAD", "UNHEALTHY"}
        /\ pc = "close" => w.to \in {"HEALTHY", "RECOVERING"}
        /\ pc # "open"
    BY DEF FirstStatement, WriterStep
  <2>4. \/ writers' = {}
        \/ \E v \in Writer : writers' = {v} /\ v.pc = pc /\ v.to = w.to
    BY <2>1, <2>3, ProceedGoesOn
  <2> HIDE DEF pc
  <2>5. WriterFollows'
    BY <1>t, <2>1, <2>3, <2>4
  <2>6. LogRecovers'
    <3> SUFFICES ASSUME faults' <= 1
                 PROVE  /\ fsm'.cur = "HEALTHY" => open' = 0
                        /\ fsm'.cur = "DEAD" => open' = 1
      OBVIOUS
    <3>1. faults = 0
      BY <1>t, <2>1
    <3>2. fsm.cur = "HEALTHY" => open = 0 /\ w.pc # "open"
      BY <1>t, <3>1
    <3>3. fsm.cur = "DEAD" => open = 1 /\ w.pc # "open" /\ w.pc # "close"
      BY <1>t, <3>1
    <3> QED BY <2>1, <2>2, <3>2, <3>3
  <2> QED BY <1>t, <2>1, <2>5, <2>6
<1> QED BY <1>1, <1>2, <1>3, <1>4, <1>5 DEF WriterStepOf

LEMMA LogInvStep ==
  ASSUME WriteTimeout < Interval, IncidentsInv, LogInv, [Next]_vars
  PROVE  LogInv'
<1>t. /\ fsm \in ServiceState /\ faults \in Nat
      /\ \A w \in writers : w.age < Interval
      /\ \A w \in writers : w.age = sincePoll
  BY IncidentsAssumption DEF IncidentsInv, TypeOK, OneWriter, Writer
<1>1. ASSUME NEW ok \in BOOLEAN, Poll(ok) PROVE LogInv'
  <2>1. writers = {}
    BY <1>1, <1>t, IncidentsAssumption DEF Poll
  <2>2. fsm' = Transition(fsm, ok) /\ UNCHANGED <<open, lastRow, faults>>
    BY <1>1 DEF Poll
  <2>3. CASE ~Changed(fsm, ok)
    <3>1. fsm'.cur = fsm.cur
      BY <2>2, <2>3, Zenon DEF Changed
    <3>2. writers' = writers
      BY <1>1, <2>3 DEF Poll
    <3> QED BY <2>2, <3>1, <3>2
            DEF LogInv, WriterFollows, LogFollows, LogRecovers, Opens, Closes
  <2>4. CASE Changed(fsm, ok)
    <3> DEFINE new == [to |-> fsm'.cur, pc |-> "insert", age |-> 0]
    <3>1. writers' = {new} /\ new.to = fsm'.cur /\ new.pc = "insert"
      BY <1>1, <2>1, <2>2, <2>4 DEF Poll
    <3> HIDE DEF new
    <3>2. WriterFollows'
      BY <3>1 DEF WriterFollows
    <3>3. Opens' /\ Closes'
      BY <3>1 DEF Opens, Closes
    <3>4. /\ fsm'.cur \in {"UNKNOWN", "HEALTHY", "DEGRADED"} =>
               fsm.cur \in {"UNKNOWN", "HEALTHY", "DEGRADED", "RECOVERING"}
          /\ fsm'.cur = "DEAD" => fsm.cur \in {"UNHEALTHY", "DEAD"}
      BY <1>t, <2>2, OutageEdges
    <3>5. LogFollows'
      <4>1. SUFFICES ASSUME faults = 0 PROVE LogFollows'
        BY <2>2 DEF LogFollows
      <4>2. /\ fsm.cur \in {"UNKNOWN", "HEALTHY", "DEGRADED", "RECOVERING"} => open = 0
            /\ fsm.cur \in {"UNHEALTHY", "DEAD"} => open = 1
        BY <2>1, <4>1 DEF LogInv, LogFollows, Opens, Closes
      <4> QED BY <2>2, <3>1, <3>3, <3>4, <4>2 DEF LogFollows
    <3> QED BY <3>2, <3>3, <3>5 DEF LogInv, LogRecovers
  <2> QED BY <2>3, <2>4
<1>2. ASSUME NEW w \in writers, WriterStepOf(w) PROVE LogInv'
  BY <1>2, StatementKeepsLog
<1>3. ASSUME Crash PROVE LogInv'
  <2>1. fsm' = NewServiceState /\ writers' = {} /\ faults' = faults + 1
    BY <1>3 DEF Crash
  <2>2. NewServiceState.cur = "UNKNOWN"
    BY DEF NewServiceState
  <2> QED BY <1>t, <2>1, <2>2 DEF LogInv, WriterFollows, LogFollows, LogRecovers
<1>4. ASSUME Tick PROVE LogInv'
  <2>1. /\ writers' = {[w EXCEPT !.age = @ + 1] : w \in writers}
        /\ UNCHANGED <<fsm, open, lastRow, faults>>
    BY <1>4 DEF Tick
  <2>2. \A w \in writers : w \in Writer
    BY DEF IncidentsInv, TypeOK
  <2>3. ASSUME NEW w \in writers
        PROVE  [w EXCEPT !.age = @ + 1].to = w.to /\ [w EXCEPT !.age = @ + 1].pc = w.pc
    BY <2>2 DEF Writer
  <2>4. \A v \in writers' : \E w \in writers : v.to = w.to /\ v.pc = w.pc
    BY <2>1, <2>3
  <2>5. \A w \in writers : \E v \in writers' : v.to = w.to /\ v.pc = w.pc
    BY <2>1, <2>3
  <2>6. WriterFollows'
    BY <2>1, <2>4 DEF LogInv, WriterFollows
  <2>7. (Opens => Opens') /\ (Closes => Closes')
    BY <2>5 DEF Opens, Closes
  <2>8. LogFollows'
    BY <2>1, <2>5, <2>7 DEF LogInv, LogFollows
  <2>9. LogRecovers'
    BY <2>1, <2>7 DEF LogInv, LogRecovers
  <2> QED BY <2>6, <2>8, <2>9 DEF LogInv
<1>5. ASSUME UNCHANGED vars PROVE LogInv'
  BY <1>5 DEF vars, LogInv, WriterFollows, LogFollows, LogRecovers, Opens, Closes
<1> QED BY <1>1, <1>2, <1>3, <1>4, <1>5 DEF Next

LEMMA LogInvHolds ==
  ASSUME WriteTimeout < Interval
  PROVE  Spec => []LogInv
<1>1. IncidentsInv /\ LogInv /\ [Next]_vars => LogInv'
  BY LogInvStep
<1> QED BY <1>1, LogInvInit, IncidentsInvHolds, PTL DEF Spec

\* While nothing failed and the engine did not restart, the newest row of the
\* history is the service's state as soon as the writer is done: rows are in
\* the order of the transitions (db.go:292-315).
THEOREM RowsInOrder ==
  ASSUME WriteTimeout < Interval
  PROVE  Spec => []HistoryIsCurrent
<1>1. LogInv => HistoryIsCurrent
  BY DEF LogInv, LogFollows, HistoryIsCurrent
<1> QED BY <1>1, LogInvHolds, PTL

\* One failed statement or one restart leaves no incident open behind a
\* service that came back: RECOVERING and HEALTHY both close (db.go:343-345).
THEOREM OneFaultStillCloses ==
  ASSUME WriteTimeout < Interval
  PROVE  Spec => [](faults <= 1 => HealthyHasNone)
<1>1. LogInv => (faults <= 1 => HealthyHasNone)
  BY DEF LogInv, LogRecovers, HealthyHasNone, Closes
<1> QED BY <1>1, LogInvHolds, PTL

\* Nor does it lose the incident of an outage that goes on to DEAD: UNHEALTHY
\* and DEAD both open (db.go:331-341).
THEOREM OneFaultStillOpens ==
  ASSUME WriteTimeout < Interval
  PROVE  Spec => [](faults <= 1 => DeadHasOne)
<1>1. LogInv => (faults <= 1 => DeadHasOne)
  BY DEF LogInv, LogRecovers, DeadHasOne, Opens
<1> QED BY <1>1, LogInvHolds, PTL

-----------------------------------------------------------------------------

\* The two views of the API only watch: with the marks they are computed from,
\* the engine's tables are written as module Incidents says, so all of the
\* above holds of the tables the API reads (db_reader.go:182-316,
\* incidents.go:423).
THEOREM ViewsOnlyWatch == SpecViews => Spec
<1>1. InitViews => Init
  BY DEF InitViews
<1>2. ASSUME [NextViews]_viewVars PROVE [Next]_vars
  <2>1. ASSUME NEW ok \in BOOLEAN, PollAndPublish(ok) PROVE Next
    BY <2>1 DEF PollAndPublish, Next
  <2>2. ASSUME NEW w \in writers, Statement(w) PROVE Next
    BY <2>2 DEF Statement, WriterStepOf, Next
  <2>3. (Crash \/ Tick) /\ UNCHANGED <<tables, events>> => Next
    BY DEF Next
  <2>4. UNCHANGED viewVars => UNCHANGED vars
    BY DEF viewVars
  <2> QED BY <1>2, <2>1, <2>2, <2>3, <2>4 DEF NextViews
<1> QED BY <1>1, <1>2, PTL DEF SpecViews, Spec

-----------------------------------------------------------------------------

\* What the two views tell while nothing has failed.  A mark's change is the
\* last one before it; its row is inserted first.  An incident opens at an
\* outage's change to UNHEALTHY or DEAD, and until it is resolved every change
\* is to one of these two; each such change has its incident.
Down == {"UNHEALTHY", "DEAD"}
Up   == {"HEALTHY", "RECOVERING"}

Mark == [what : {"row", "opened", "resolved"}, to : State, at : Nat]

\* The next statement of the only writer.
Phase == IF writers = {} THEN "idle" ELSE (CHOOSE w \in writers : TRUE).pc

ViewsTypeOK == tables \in Seq(Mark) /\ events \in Seq(State)

StreamIsCurrent ==
  /\ fsm.cur = IF events = <<>> THEN "UNKNOWN" ELSE events[Len(events)]
  /\ Phase # "idle" => Len(events) > 0

MarksTell ==
  \A p \in DOMAIN tables :
    /\ tables[p].at \in 1 .. Len(events)
    /\ tables[p].to = events[tables[p].at]
    /\ tables[p].what = "opened" => tables[p].to \in Down
    /\ tables[p].what = "resolved" => tables[p].to \in Up
    /\ tables[p].what # "row" =>
         /\ p - 1 \in DOMAIN tables
         /\ tables[p - 1].what = "row" /\ tables[p - 1].at = tables[p].at

MarksInOrder ==
  \A p, r \in DOMAIN tables : p < r =>
    /\ tables[p].at <= tables[r].at
    /\ tables[r].what = "row" => tables[p].at < tables[r].at

LastMark ==
  /\ Phase = "insert" => \A p \in DOMAIN tables : tables[p].at < Len(events)
  /\ Phase \in {"ask", "open", "close"} =>
       /\ Len(tables) \in DOMAIN tables
       /\ tables[Len(tables)].what = "row" /\ tables[Len(tables)].at = Len(events)

DownUpTo(p, n) == \A j \in tables[p].at .. n : events[j] \in Down

\* The last change, or the one before when the last is about to resolve.
GoesOn(p) ==
  /\ Closings(p) = {} /\ open = 1
  /\ \A j \in tables[p].at .. Len(events) :
       \/ events[j] \in Down
       \/ j = Len(events) /\ events[j] \in Up /\ Phase \in {"insert", "close"}

IsOver(p) == \E q \in Closings(p) : DownUpTo(p, tables[q].at - 1)

EachOutage == \A p \in StartedAt : GoesOn(p) \/ IsOver(p)

HasIncident(k) == \E p \in StartedAt : tables[p].at <= k /\ DownUpTo(p, k)

OutageHasIncident ==
  \A k \in 1 .. Len(events) :
    events[k] \in Down /\ (k = Len(events) => Phase \notin {"insert", "ask", "open"})
      => HasIncident(k)

OpenIsMarked == open = 1 => \E p \in StartedAt : Closings(p) = {}

StreamCovers ==
  \A i \in 1 .. Len(events) : Unhealthy(i) =>
    \E inc \in buildIncidents : i \in inc.first .. inc.last

ViewsTell ==
  /\ ViewsTypeOK /\ StreamIsCurrent /\ MarksTell /\ MarksInOrder /\ LastMark
  /\ EachOutage /\ OutageHasIncident /\ OpenIsMarked /\ StreamCovers

ViewsInv == faults = 0 => ViewsTell

\* The steps that tell, with what LogInv says of them.
StepChange ==
  /\ Phase = "idle" /\ Phase' = "insert"
  /\ fsm'.cur \in State /\ events' = Append(events, fsm'.cur)
  /\ open = 1 => fsm'.cur \in Down \cup Up
  /\ UNCHANGED <<tables, open>>

StepInsert ==
  /\ Phase = "insert" /\ Phase' \in {"idle", "ask", "close"}
  /\ Phase' = "ask" <=> fsm.cur \in Down
  /\ Phase' = "close" <=> fsm.cur \in Up
  /\ tables' = Append(tables, [what |-> "row", to |-> fsm.cur, at |-> Len(events)])
  /\ UNCHANGED <<events, open, fsm>>

StepAsk ==
  /\ Phase = "ask" /\ Phase' = (IF open = 1 THEN "idle" ELSE "open")
  /\ UNCHANGED <<tables, events, open, fsm>>

StepOpen ==
  /\ Phase = "open" /\ Phase' = "idle" /\ fsm.cur \in Down
  /\ open = 0 /\ open' = 1
  /\ tables' = Append(tables, [what |-> "opened", to |-> fsm.cur, at |-> Len(events)])
  /\ UNCHANGED <<events, fsm>>

StepClose ==
  /\ Phase = "close" /\ Phase' = "idle" /\ fsm.cur \in Up
  /\ open' = 0
  /\ tables' = IF open = 1
                 THEN Append(tables, [what |-> "resolved", to |-> fsm.cur, at |-> Len(events)])
                 ELSE tables
  /\ UNCHANGED <<events, fsm>>

StepIdle == UNCHANGED <<tables, events, open, fsm.cur, Phase>>

LEMMA PhaseOf ==
  ASSUME NEW w, writers = {w}
  PROVE  Phase = w.pc
<1>1. (CHOOSE v \in writers : TRUE) \in writers
  BY Zenon
<1> QED BY <1>1 DEF Phase

\* The only writer goes on to its next statement.
LEMMA PhaseGoesOn ==
  ASSUME IncidentsInv, NEW w \in writers, NEW pc \in WriterStep \cup {"none"}, Proceed(w, pc)
  PROVE  Phase = w.pc /\ Phase' = IF pc = "none" THEN "idle" ELSE pc
<1>1. writers = {w}
  BY DEF IncidentsInv, OneWriter
<1>2. CASE pc = "none"
  <2>1. writers' = {}
    BY <1>2, ProceedGoesOn
  <2> QED BY <1>1, <1>2, <2>1, PhaseOf DEF Phase
<1>3. CASE pc # "none"
  <2>1. PICK v \in Writer : writers' = {v} /\ v.pc = pc
    BY <1>3, ProceedGoesOn
  <2>2. Phase' = v.pc
    <3>1. (CHOOSE u \in writers' : TRUE) \in writers'
      BY <2>1, Zenon
    <3> QED BY <2>1, <3>1 DEF Phase
  <2> QED BY <1>1, <1>3, <2>1, <2>2, PhaseOf
<1> QED BY <1>2, <1>3

\* A statement of the only writer, when it does not fail.
LEMMA StatementTells ==
  ASSUME IncidentsInv, LogInv, faults = 0, faults' = 0, NEW w \in writers, Statement(w)
  PROVE  StepInsert \/ StepAsk \/ StepOpen \/ StepClose
<1>1. /\ open \in {0, 1} /\ w.to = fsm.cur /\ w.pc \in WriterStep
      /\ w.pc \in {"ask", "open"} => fsm.cur \in Down
      /\ w.pc = "close" => fsm.cur \in Up
      /\ w.pc = "open" => open = 0
  BY IncidentsAssumption
     DEF IncidentsInv, TypeOK, OneWriter, AtMostOneOpen, Writer, LogInv, WriterFollows, Down, Up
<1>s. fsm.cur \in State
  BY Zenon DEF ServiceState, IncidentsInv, TypeOK
<1>2. CASE InsertRow(w) /\ Marked("row", w.to) /\ UNCHANGED events
  <2>1. /\ w.pc = "insert" /\ Proceed(w, FirstStatement(w.to)) /\ UNCHANGED <<fsm, open, events>>
        /\ tables' = Append(tables, [what |-> "row", to |-> fsm.cur, at |-> Len(events)])
    BY <1>1, <1>2 DEF InsertRow, Marked
  <2>2. /\ FirstStatement(w.to) \in {"ask", "close", "none"}
        /\ FirstStatement(w.to) = "ask" <=> fsm.cur \in Down
        /\ FirstStatement(w.to) = "close" <=> fsm.cur \in Up
    BY <1>1 DEF FirstStatement, Down, Up
  <2>3. FirstStatement(w.to) \in WriterStep \cup {"none"}
    BY <2>2 DEF WriterStep
  <2>4. /\ Phase = "insert"
        /\ Phase' = IF FirstStatement(w.to) = "none" THEN "idle" ELSE FirstStatement(w.to)
    BY <2>1, <2>3, PhaseGoesOn
  <2> QED BY <2>1, <2>2, <2>4 DEF StepInsert
<1>3. CASE HasOpenIncident(w) /\ UNCHANGED <<tables, events>>
  <2> DEFINE pc == IF open > 0 THEN "none" ELSE "open"
  <2>1. w.pc = "ask" /\ Proceed(w, pc) /\ UNCHANGED <<fsm, open, tables, events>>
    BY <1>3 DEF HasOpenIncident
  <2>2. pc \in WriterStep \cup {"none"} /\ pc = (IF open = 1 THEN "none" ELSE "open")
    BY <1>1 DEF WriterStep
  <2> HIDE DEF pc
  <2>3. Phase = "ask" /\ Phase' = IF pc = "none" THEN "idle" ELSE pc
    BY <2>1, <2>2, PhaseGoesOn
  <2> QED BY <2>1, <2>2, <2>3 DEF StepAsk
<1>4. CASE OpenIncident(w) /\ Marked("opened", w.to) /\ UNCHANGED events
  <2>1. w.pc = "open" /\ Proceed(w, "none") /\ open' = open + 1 /\ UNCHANGED <<fsm, events>>
    BY <1>4 DEF OpenIncident
  <2>2. Phase = "open" /\ Phase' = "idle"
    BY <2>1, PhaseGoesOn
  <2> QED BY <1>1, <1>4, <2>1, <2>2 DEF StepOpen, Marked
<1>5. CASE /\ CloseIncident(w) /\ UNCHANGED events
           /\ IF open > 0 THEN Marked("resolved", w.to) ELSE UNCHANGED tables
  <2>1. w.pc = "close" /\ Proceed(w, "none") /\ open' = 0 /\ UNCHANGED <<fsm, events>>
    BY <1>5 DEF CloseIncident
  <2>2. Phase = "close" /\ Phase' = "idle"
    BY <2>1, PhaseGoesOn
  <2>3. tables' = IF open = 1
                    THEN Append(tables, [what |-> "resolved", to |-> fsm.cur, at |-> Len(events)])
                    ELSE tables
    BY <1>1, <1>5 DEF Marked
  <2> QED BY <1>1, <2>1, <2>2, <2>3 DEF StepClose
<1>6. ~FailStatement(w)
  BY DEF FailStatement
<1> QED BY <1>2, <1>3, <1>4, <1>5, <1>6 DEF Statement

\* Every step while nothing fails is one of these.
LEMMA StepTells ==
  ASSUME WriteTimeout < Interval, IncidentsInv, LogInv, [NextViews]_viewVars, faults' = 0
  PROVE  /\ faults = 0
         /\ StepIdle \/ StepChange \/ StepInsert \/ StepAsk \/ StepOpen \/ StepClose
<1>t. /\ fsm \in ServiceState /\ faults \in Nat /\ open \in {0, 1}
      /\ \A w \in writers : w.age < Interval /\ w.age = sincePoll /\ w \in Writer
      /\ \A v, w \in writers : v = w
  BY IncidentsAssumption DEF IncidentsInv, TypeOK, OneWriter, AtMostOneOpen, Writer
<1>1. ASSUME NEW ok \in BOOLEAN, PollAndPublish(ok)
      PROVE  faults = 0 /\ (StepIdle \/ StepChange)
  <2>1. writers = {}
    BY <1>1, <1>t, IncidentsAssumption DEF PollAndPublish, Poll
  <2>2. fsm' = Transition(fsm, ok) /\ UNCHANGED <<tables, open, faults>>
    BY <1>1 DEF PollAndPublish, Poll
  <2>3. CASE ~Changed(fsm, ok)
    <3>1. fsm'.cur = fsm.cur
      BY <2>2, <2>3, Zenon DEF Changed
    <3>2. writers' = writers /\ events' = events
      BY <1>1, <2>3 DEF PollAndPublish, Poll
    <3>3. Phase' = Phase
      BY <3>2 DEF Phase
    <3> QED BY <2>2, <3>1, <3>2, <3>3 DEF StepIdle
  <2>4. CASE Changed(fsm, ok)
    <3> DEFINE new == [to |-> fsm'.cur, pc |-> "insert", age |-> 0]
    <3>1. writers' = {new} /\ new.pc = "insert"
      BY <1>1, <2>1, <2>2, <2>4 DEF PollAndPublish, Poll
    <3> HIDE DEF new
    <3>2. Phase = "idle" /\ Phase' = "insert"
      <4>1. (CHOOSE u \in writers' : TRUE) \in writers'
        BY <3>1, Zenon
      <4> QED BY <2>1, <3>1, <4>1 DEF Phase
    <3>3. events' = Append(events, fsm'.cur)
      BY <1>1, <2>4 DEF PollAndPublish
    <3>4. fsm' \in ServiceState
      BY <1>t, <2>2, TransitionTyped
    <3>5. fsm'.cur \in State
      BY <3>4 DEF ServiceState
    <3>6. open = 1 => fsm'.cur \in Down \cup Up
      <4>1. faults = 0
        BY <2>2
      <4>2. fsm.cur \in {"UNKNOWN", "HEALTHY", "DEGRADED", "RECOVERING"} => open = 0
        BY <2>1, <4>1 DEF LogInv, LogFollows, Closes
      <4>3. fsm'.cur \in {"UNKNOWN", "HEALTHY", "DEGRADED"} =>
              fsm.cur \in {"UNKNOWN", "HEALTHY", "DEGRADED", "RECOVERING"}
        BY <1>t, <2>2, OutageEdges
      <4> QED BY <3>5, <4>2, <4>3 DEF State, Down, Up
    <3> QED BY <2>2, <3>2, <3>3, <3>5, <3>6 DEF StepChange
  <2> QED BY <2>3, <2>4
<1>2. ASSUME NEW w \in writers, Statement(w)
      PROVE  faults = 0 /\ (StepInsert \/ StepAsk \/ StepOpen \/ StepClose)
  <2>1. faults = 0
    BY <1>2, <1>t DEF Statement, InsertRow, HasOpenIncident, OpenIncident, CloseIncident,
                   FailStatement
  <2> QED BY <1>2, <2>1, StatementTells
<1>3. ~Crash
  BY <1>t DEF Crash
<1>4. ASSUME Tick, UNCHANGED <<tables, events>> PROVE faults = 0 /\ StepIdle
  <2>1. /\ writers' = {[w EXCEPT !.age = @ + 1] : w \in writers}
        /\ UNCHANGED <<fsm, open, faults>>
    BY <1>4 DEF Tick
  <2>2. Phase' = Phase
    <3>1. CASE writers = {}
      BY <2>1, <3>1 DEF Phase
    <3>2. ASSUME NEW w \in writers PROVE Phase' = Phase
      <4>1. writers = {w} /\ w \in Writer
        BY <1>t
      <4> DEFINE v == [w EXCEPT !.age = @ + 1]
      <4>2. writers' = {v} /\ v.pc = w.pc
        BY <2>1, <4>1 DEF Writer
      <4> HIDE DEF v
      <4>3. (CHOOSE u \in writers' : TRUE) \in writers'
        BY <4>2, Zenon
      <4> QED BY <4>1, <4>2, <4>3, PhaseOf DEF Phase
    <3> QED BY <3>1, <3>2
  <2> QED BY <1>4, <2>1, <2>2 DEF StepIdle
<1>5. ASSUME UNCHANGED viewVars PROVE faults = 0 /\ StepIdle
  <2>1. UNCHANGED <<tables, events, writers, open, fsm, faults>>
    BY <1>5 DEF viewVars, vars
  <2> QED BY <2>1 DEF StepIdle, Phase
<1> QED BY <1>1, <1>2, <1>3, <1>4, <1>5 DEF NextViews

LEMMA ViewsTyped ==
  ASSUME ViewsTypeOK
  PROVE  /\ Len(tables) \in Nat /\ DOMAIN tables = 1 .. Len(tables)
         /\ \A p \in DOMAIN tables : tables[p] \in Mark /\ tables[p].at \in Nat
         /\ Len(events) \in Nat /\ DOMAIN events = 1 .. Len(events)
         /\ \A i \in DOMAIN events : events[i] \in State
         /\ events # <<>> => Len(events) > 0
<1>1. tables \in Seq(Mark) /\ events \in Seq(State)
  BY DEF ViewsTypeOK
<1>2. \A p \in DOMAIN tables : tables[p] \in Mark
  BY <1>1, ElementOfSeq, LenProperties
<1>3. \A i \in DOMAIN events : events[i] \in State
  BY <1>1, ElementOfSeq, LenProperties
<1>4. events # <<>> => Len(events) > 0
  BY <1>1, EmptySeq, LenProperties
<1> QED BY <1>1, <1>2, <1>3, <1>4, LenProperties DEF Mark

\* The marks and the changes so far stay; what is over, and what has its
\* incident, stays so.
Grows ==
  /\ StartedAt \subseteq StartedAt'
  /\ \A p \in DOMAIN tables :
       p \in DOMAIN tables' /\ tables'[p] = tables[p] /\ Closings(p) \subseteq Closings(p)'
  /\ \A j \in 1 .. Len(events) : events'[j] = events[j]

LEMMA OldStays ==
  ASSUME ViewsTypeOK, MarksTell, Grows
  PROVE  /\ \A p \in StartedAt : IsOver(p) => IsOver(p)'
         /\ \A k \in 1 .. Len(events) : HasIncident(k) => HasIncident(k)'
<1>1. /\ Len(events) \in Nat
      /\ \A p \in DOMAIN tables : tables[p].at \in 1 .. Len(events) /\ tables'[p] = tables[p]
      /\ \A j \in 1 .. Len(events) : events'[j] = events[j]
  BY ViewsTyped DEF MarksTell, Grows
<1>2. ASSUME NEW p \in StartedAt, IsOver(p) PROVE IsOver(p)'
  <2>1. PICK q \in Closings(p) : DownUpTo(p, tables[q].at - 1)
    BY <1>2 DEF IsOver
  <2>2. p \in DOMAIN tables /\ q \in DOMAIN tables /\ q \in Closings(p)'
    BY DEF StartedAt, Closings, Grows
  <2>3. \A j \in tables'[p].at .. tables'[q].at - 1 : events'[j] \in Down
    BY <1>1, <2>1, <2>2 DEF DownUpTo
  <2> QED BY <2>2, <2>3 DEF IsOver, DownUpTo
<1>3. ASSUME NEW k \in 1 .. Len(events), HasIncident(k) PROVE HasIncident(k)'
  <2>1. PICK p \in StartedAt : tables[p].at <= k /\ DownUpTo(p, k)
    BY <1>3 DEF HasIncident
  <2>2. p \in DOMAIN tables /\ p \in StartedAt'
    BY DEF StartedAt, Grows
  <2>3. tables'[p].at <= k /\ \A j \in tables'[p].at .. k : events'[j] \in Down
    BY <1>1, <2>1, <2>2 DEF DownUpTo
  <2> QED BY <2>2, <2>3 DEF HasIncident, DownUpTo
<1> QED BY <1>2, <1>3

\* A mark more.
LEMMA MarkAdded ==
  ASSUME ViewsTypeOK, NEW m \in Mark, tables' = Append(tables, m)
  PROVE  /\ tables' \in Seq(Mark) /\ Len(tables') = Len(tables) + 1
         /\ DOMAIN tables' = 1 .. Len(tables) + 1
         /\ \A p \in DOMAIN tables : tables'[p] = tables[p]
         /\ tables'[Len(tables) + 1] = m
<1>1. tables \in Seq(Mark)
  BY DEF ViewsTypeOK
<1>2. Append(tables, m) \in Seq(Mark)
  BY <1>1, AppendProperties
<1> QED BY <1>1, <1>2, AppendProperties, LenProperties

LEMMA MarkGrows ==
  ASSUME ViewsTypeOK, NEW m \in Mark, tables' = Append(tables, m), UNCHANGED events
  PROVE  /\ Grows
         /\ StartedAt' \subseteq StartedAt \cup {Len(tables) + 1}
         /\ m.what = "opened" <=> Len(tables) + 1 \in StartedAt'
         /\ \A p : p = Len(tables) + 1 => Closings(p)' = {}
         /\ \A p \in DOMAIN tables :
              Closings(p)' = Closings(p)
                               \cup (IF m.what = "resolved" THEN {Len(tables) + 1} ELSE {})
<1>1. /\ Len(tables) \in Nat /\ DOMAIN tables = 1 .. Len(tables)
      /\ DOMAIN tables' = 1 .. Len(tables) + 1
      /\ \A p \in DOMAIN tables : tables'[p] = tables[p]
      /\ tables'[Len(tables) + 1] = m
  BY ViewsTyped, MarkAdded
<1>2. ASSUME NEW p \in DOMAIN tables
      PROVE  Closings(p)' = Closings(p) \cup (IF m.what = "resolved" THEN {Len(tables) + 1} ELSE {})
  BY <1>1 DEF Closings
<1>3. /\ StartedAt \subseteq StartedAt' /\ StartedAt' \subseteq StartedAt \cup {Len(tables) + 1}
      /\ m.what = "opened" <=> Len(tables) + 1 \in StartedAt'
  BY <1>1 DEF StartedAt
<1>4. \A q \in DOMAIN tables' : ~(q > Len(tables) + 1)
  BY <1>1
<1>5. \A p : p = Len(tables) + 1 => Closings(p)' = {}
  BY <1>4 DEF Closings
<1> QED BY <1>1, <1>2, <1>3, <1>5 DEF Grows

\* The mark of the last change, after the row of that change.
LEMMA MarkTells ==
  ASSUME ViewsTypeOK, MarksTell, MarksInOrder, NEW m \in Mark,
         tables' = Append(tables, m), UNCHANGED events,
         Len(events) > 0, m.at = Len(events), m.to = events[Len(events)],
         m.what = "opened" => m.to \in Down,
         m.what = "resolved" => m.to \in Up,
         m.what = "row" => \A p \in DOMAIN tables : tables[p].at < Len(events),
         m.what # "row" =>
           /\ Len(tables) \in DOMAIN tables
           /\ tables[Len(tables)].what = "row" /\ tables[Len(tables)].at = Len(events)
  PROVE  ViewsTypeOK' /\ MarksTell' /\ MarksInOrder'
<1>1. /\ Len(tables) \in Nat /\ DOMAIN tables = 1 .. Len(tables) /\ Len(events) \in Nat
      /\ DOMAIN tables' = 1 .. Len(tables) + 1 /\ tables' \in Seq(Mark)
      /\ \A p \in DOMAIN tables : tables'[p] = tables[p]
      /\ tables'[Len(tables) + 1] = m
  BY ViewsTyped, MarkAdded
<1>2. ViewsTypeOK'
  BY <1>1 DEF ViewsTypeOK
<1>3. MarksTell'
  <2> SUFFICES ASSUME NEW p \in DOMAIN tables'
               PROVE  /\ tables'[p].at \in 1 .. Len(events)
                      /\ tables'[p].to = events[tables'[p].at]
                      /\ tables'[p].what = "opened" => tables'[p].to \in Down
                      /\ tables'[p].what = "resolved" => tables'[p].to \in Up
                      /\ tables'[p].what # "row" =>
                           /\ p - 1 \in DOMAIN tables'
                           /\ tables'[p - 1].what = "row" /\ tables'[p - 1].at = tables'[p].at
    BY DEF MarksTell
  <2>1. CASE p \in DOMAIN tables
    <3>1. /\ tables'[p] = tables[p]
          /\ p - 1 \in DOMAIN tables => p - 1 \in DOMAIN tables' /\ tables'[p - 1] = tables[p - 1]
      BY <1>1, <2>1
    <3> QED BY <2>1, <3>1 DEF MarksTell
  <2>2. CASE p = Len(tables) + 1
    <3>1. p - 1 = Len(tables) /\ tables'[p] = m
      BY <1>1, <2>2
    <3>2. Len(tables) \in DOMAIN tables =>
            p - 1 \in DOMAIN tables' /\ tables'[p - 1] = tables[Len(tables)]
      BY <1>1, <3>1
    <3> QED BY <1>1, <3>1, <3>2
  <2> QED BY <1>1, <2>1, <2>2
<1>4. MarksInOrder'
  <2> SUFFICES ASSUME NEW p \in DOMAIN tables', NEW r \in DOMAIN tables', p < r
               PROVE  /\ tables'[p].at <= tables'[r].at
                      /\ tables'[r].what = "row" => tables'[p].at < tables'[r].at
    BY DEF MarksInOrder
  <2>1. p \in DOMAIN tables /\ tables'[p] = tables[p] /\ tables[p].at \in 1 .. Len(events)
    BY <1>1 DEF MarksTell
  <2>2. CASE r \in DOMAIN tables
    BY <1>1, <2>1, <2>2 DEF MarksInOrder
  <2>3. CASE r = Len(tables) + 1
    BY <1>1, <2>1, <2>3
  <2> QED BY <1>1, <2>2, <2>3
<1> QED BY <1>2, <1>3, <1>4

\* The stream's incidents depend on the stream alone.
LEMMA CoversStay ==
  ASSUME StreamCovers, UNCHANGED events
  PROVE  StreamCovers'
  BY DEF StreamCovers, buildIncidents, Unhealthy

LEMMA InsertKeepsViews ==
  ASSUME ViewsTell, StepInsert
  PROVE  ViewsTell'
<1> USE DEF ViewsTell
<1> DEFINE m == [what |-> "row", to |-> fsm.cur, at |-> Len(events)]
<1>1. /\ Phase = "insert" /\ Phase' \in {"idle", "ask", "close"}
      /\ Phase' = "ask" <=> fsm.cur \in Down
      /\ Phase' = "close" <=> fsm.cur \in Up
      /\ tables' = Append(tables, m) /\ UNCHANGED <<events, open, fsm>>
  BY DEF StepInsert
<1>2. /\ Len(tables) \in Nat /\ DOMAIN tables = 1 .. Len(tables) /\ Len(events) \in Nat
      /\ \A i \in 1 .. Len(events) : events[i] \in State
  BY ViewsTyped
<1>3. Len(events) > 0 /\ fsm.cur = events[Len(events)]
  BY <1>1, <1>2 DEF StreamIsCurrent
<1>m. m \in Mark /\ m.what = "row" /\ m.to = fsm.cur /\ m.at = Len(events)
  BY <1>2, <1>3 DEF Mark
<1> HIDE DEF m
<1>4. ViewsTypeOK' /\ MarksTell' /\ MarksInOrder'
  BY <1>1, <1>3, <1>m, MarkTells DEF LastMark
<1>5. /\ DOMAIN tables' = 1 .. Len(tables) + 1 /\ Len(tables') = Len(tables) + 1
      /\ tables'[Len(tables) + 1] = m /\ \A p \in DOMAIN tables : tables'[p] = tables[p]
  BY <1>1, <1>m, MarkAdded
<1>6. /\ Grows /\ StartedAt' = StartedAt
      /\ \A p \in DOMAIN tables : Closings(p)' = Closings(p)
  <2>1. /\ Grows /\ StartedAt' \subseteq StartedAt \cup {Len(tables) + 1}
        /\ Len(tables) + 1 \notin StartedAt'
        /\ \A p \in DOMAIN tables : Closings(p)' = Closings(p)
    BY <1>1, <1>m, MarkGrows
  <2> QED BY <2>1 DEF Grows
<1>7. StreamIsCurrent'
  BY <1>1, <1>3 DEF StreamIsCurrent
<1>8. LastMark'
  BY <1>1, <1>2, <1>5, <1>m DEF LastMark
<1>9. EachOutage'
  <2> SUFFICES ASSUME NEW p \in StartedAt, GoesOn(p) PROVE GoesOn(p)'
    BY <1>6, OldStays DEF EachOutage
  <2>1. p \in DOMAIN tables /\ tables'[p] = tables[p] /\ Closings(p)' = Closings(p)
    BY <1>5, <1>6 DEF StartedAt
  <2>2. \A j \in tables[p].at .. Len(events) :
           \/ events[j] \in Down
           \/ j = Len(events) /\ events[j] \in Up /\ Phase' \in {"insert", "close"}
    <3>1. events[Len(events)] \in Up => Phase' = "close"
      BY <1>1, <1>3
    <3>2. \A j \in tables[p].at .. Len(events) :
             \/ events[j] \in Down
             \/ j = Len(events) /\ events[j] \in Up
      BY DEF GoesOn
    <3> QED BY <3>1, <3>2
  <2> QED BY <1>1, <2>1, <2>2 DEF GoesOn
<1>10. OutageHasIncident'
  <2> SUFFICES ASSUME NEW k \in 1 .. Len(events), events[k] \in Down,
                      k = Len(events) => Phase' \notin {"insert", "ask", "open"}
               PROVE  HasIncident(k)'
    BY <1>1 DEF OutageHasIncident
  <2>1. k # Len(events)
    BY <1>1, <1>3
  <2>2. HasIncident(k)
    BY <2>1 DEF OutageHasIncident
  <2> QED BY <1>6, <2>2, OldStays
<1>11. OpenIsMarked'
  BY <1>1, <1>6 DEF OpenIsMarked, StartedAt
<1>12. StreamCovers'
  BY <1>1, CoversStay
<1> QED BY <1>4, <1>7, <1>8, <1>9, <1>10, <1>11, <1>12

LEMMA AskKeepsViews ==
  ASSUME ViewsTell, StepAsk, open \in {0, 1}
  PROVE  ViewsTell'
<1> USE DEF ViewsTell
<1>1. /\ Phase = "ask" /\ Phase' = IF open = 1 THEN "idle" ELSE "open"
      /\ UNCHANGED <<tables, events, open, fsm>>
  BY DEF StepAsk
<1>2. Grows
  BY <1>1 DEF Grows, StartedAt, Closings
<1>3. ViewsTypeOK' /\ StreamIsCurrent' /\ MarksTell' /\ MarksInOrder' /\ LastMark'
  BY <1>1 DEF ViewsTypeOK, StreamIsCurrent, MarksTell, MarksInOrder, LastMark
<1>4. StartedAt' = StartedAt /\ \A p \in StartedAt : Closings(p)' = Closings(p)
  BY <1>1 DEF StartedAt, Closings
<1>5. EachOutage'
  <2> SUFFICES ASSUME NEW p \in StartedAt, GoesOn(p) PROVE GoesOn(p)'
    BY <1>2, <1>4, OldStays DEF EachOutage
  <2> QED BY <1>1, <1>4 DEF GoesOn
<1>6. OutageHasIncident'
  <2> SUFFICES ASSUME NEW k \in 1 .. Len(events), events[k] \in Down,
                      k = Len(events) => Phase' \notin {"insert", "ask", "open"}
               PROVE  HasIncident(k)
    BY <1>1, <1>2, OldStays DEF OutageHasIncident
  <2>1. CASE k # Len(events)
    BY <2>1 DEF OutageHasIncident
  <2>2. CASE k = Len(events)
    <3>1. open = 1
      BY <1>1, <2>2
    <3>2. PICK p \in StartedAt : Closings(p) = {}
      BY <3>1 DEF OpenIsMarked
    <3>3. GoesOn(p)
      BY <3>2 DEF EachOutage, IsOver
    <3>4. DownUpTo(p, k)
      BY <1>1, <2>2, <3>3 DEF GoesOn, DownUpTo
    <3>5. tables[p].at <= k
      BY <2>2, ViewsTyped DEF MarksTell, StartedAt
    <3> QED BY <3>4, <3>5 DEF HasIncident
  <2> QED BY <2>1, <2>2
<1>7. OpenIsMarked'
  BY <1>1, <1>4 DEF OpenIsMarked
<1>8. StreamCovers'
  BY <1>1, CoversStay
<1> QED BY <1>3, <1>5, <1>6, <1>7, <1>8

LEMMA OpenKeepsViews ==
  ASSUME ViewsTell, StepOpen
  PROVE  ViewsTell'
<1> USE DEF ViewsTell
<1> DEFINE m == [what |-> "opened", to |-> fsm.cur, at |-> Len(events)]
<1>1. /\ Phase = "open" /\ Phase' = "idle" /\ fsm.cur \in Down /\ open = 0 /\ open' = 1
      /\ tables' = Append(tables, m) /\ UNCHANGED <<events, fsm>>
  BY DEF StepOpen
<1>2. /\ Len(tables) \in Nat /\ DOMAIN tables = 1 .. Len(tables) /\ Len(events) \in Nat
      /\ \A i \in 1 .. Len(events) : events[i] \in State
  BY ViewsTyped
<1>3. Len(events) > 0 /\ fsm.cur = events[Len(events)]
  BY <1>1, <1>2 DEF StreamIsCurrent
<1>m. m \in Mark /\ m.what = "opened" /\ m.to = fsm.cur /\ m.at = Len(events)
  BY <1>2, <1>3 DEF Mark
<1> HIDE DEF m
<1>4. ViewsTypeOK' /\ MarksTell' /\ MarksInOrder'
  BY <1>1, <1>3, <1>m, MarkTells DEF LastMark
<1>n. PICK new \in Nat : new = Len(tables) + 1
  BY <1>2
<1>5. tables'[new] = m
  BY <1>1, <1>m, <1>n, MarkAdded
<1>6. /\ Grows /\ StartedAt' \subseteq StartedAt \cup {new} /\ new \in StartedAt'
      /\ Closings(new)' = {}
  BY <1>1, <1>m, <1>n, MarkGrows
<1>7. StreamIsCurrent'
  BY <1>1, <1>3 DEF StreamIsCurrent
<1>8. LastMark'
  BY <1>1 DEF LastMark
<1>9. \A j \in tables'[new].at .. Len(events) : j = Len(events)
  BY <1>2, <1>5, <1>m
<1>10. EachOutage'
  <2>1. GoesOn(new)'
    BY <1>1, <1>3, <1>6, <1>9 DEF GoesOn
  <2>2. \A p \in StartedAt : IsOver(p)
    BY <1>1 DEF EachOutage, GoesOn
  <2> QED BY <1>6, <2>1, <2>2, OldStays DEF EachOutage
<1>11. OutageHasIncident'
  <2>1. \A k : k = Len(events) => HasIncident(k)'
    <3>1. tables'[new].at <= Len(events)
      BY <1>2, <1>5, <1>m
    <3>2. \A j \in tables'[new].at .. Len(events) : events'[j] \in Down
      BY <1>1, <1>3, <1>9
    <3> QED BY <1>6, <3>1, <3>2 DEF HasIncident, DownUpTo
  <2>2. ASSUME NEW k \in 1 .. Len(events), events[k] \in Down, k # Len(events)
        PROVE  HasIncident(k)'
    BY <1>6, <2>2, OldStays DEF OutageHasIncident
  <2>3. \A k \in 1 .. Len(events) : events[k] \in Down => HasIncident(k)'
    BY <1>1, <2>1, <2>2
  <2> QED BY <1>1, <2>3 DEF OutageHasIncident
<1>12. OpenIsMarked'
  BY <1>6 DEF OpenIsMarked
<1>13. StreamCovers'
  BY <1>1, CoversStay
<1> QED BY <1>4, <1>7, <1>8, <1>10, <1>11, <1>12, <1>13

LEMMA CloseKeepsViews ==
  ASSUME ViewsTell, StepClose, open \in {0, 1}
  PROVE  ViewsTell'
<1> USE DEF ViewsTell
<1> DEFINE m == [what |-> "resolved", to |-> fsm.cur, at |-> Len(events)]
<1>1. /\ Phase = "close" /\ Phase' = "idle" /\ fsm.cur \in Up /\ open' = 0
      /\ tables' = (IF open = 1 THEN Append(tables, m) ELSE tables)
      /\ UNCHANGED <<events, fsm>>
  BY DEF StepClose
<1>2. /\ Len(tables) \in Nat /\ DOMAIN tables = 1 .. Len(tables) /\ Len(events) \in Nat
      /\ \A i \in 1 .. Len(events) : events[i] \in State
  BY ViewsTyped
<1>3. Len(events) > 0 /\ fsm.cur = events[Len(events)] /\ events[Len(events)] \notin Down
  BY <1>1, <1>2 DEF StreamIsCurrent, Up, Down
<1>m. m \in Mark /\ m.what = "resolved" /\ m.to = fsm.cur /\ m.at = Len(events)
  BY <1>2, <1>3 DEF Mark
<1> HIDE DEF m
<1>7. StreamIsCurrent' /\ LastMark' /\ OpenIsMarked'
  BY <1>1, <1>3 DEF StreamIsCurrent, LastMark, OpenIsMarked
<1>8. StreamCovers'
  BY <1>1, CoversStay
<1>o. ASSUME Grows PROVE OutageHasIncident'
  <2>1. ASSUME NEW k \in 1 .. Len(events), events[k] \in Down PROVE HasIncident(k)'
    BY <1>3, <1>o, <2>1, OldStays DEF OutageHasIncident
  <2> QED BY <1>1, <2>1 DEF OutageHasIncident
<1>4. CASE open = 0
  <2>1. UNCHANGED tables
    BY <1>1, <1>4
  <2>2. /\ Grows /\ StartedAt' = StartedAt
        /\ ViewsTypeOK' /\ MarksTell' /\ MarksInOrder'
    BY <1>1, <2>1 DEF Grows, StartedAt, Closings, ViewsTypeOK, MarksTell, MarksInOrder
  <2>3. \A p \in StartedAt : IsOver(p)
    BY <1>4 DEF EachOutage, GoesOn
  <2>4. EachOutage'
    BY <2>2, <2>3, OldStays DEF EachOutage
  <2> QED BY <1>7, <1>8, <1>o, <2>2, <2>4
<1>5. CASE open = 1
  <2>1. tables' = Append(tables, m)
    BY <1>1, <1>5
  <2>2. ViewsTypeOK' /\ MarksTell' /\ MarksInOrder'
    BY <1>1, <1>3, <1>m, <2>1, MarkTells DEF LastMark
  <2>n. PICK new \in Nat : new = Len(tables) + 1
    BY <1>2
  <2>3. tables'[new] = m
    BY <1>m, <2>1, <2>n, MarkAdded
  <2>4. /\ Grows /\ StartedAt' \subseteq StartedAt \cup {new} /\ new \notin StartedAt'
        /\ \A p \in DOMAIN tables : new \in Closings(p)'
    BY <1>1, <1>2, <1>m, <2>1, <2>n, MarkGrows
  <2>5. ASSUME NEW p \in StartedAt, GoesOn(p) PROVE IsOver(p)'
    <3>1. p \in DOMAIN tables /\ tables'[p] = tables[p] /\ tables[p].at \in 1 .. Len(events)
      BY <2>4 DEF StartedAt, Grows, MarksTell
    <3>2. \A j \in tables'[p].at .. tables'[new].at - 1 : events'[j] \in Down
      <4>1. tables'[p].at = tables[p].at /\ tables'[new].at = Len(events)
        BY <1>m, <2>3, <3>1
      <4>2. \A j \in tables[p].at .. Len(events) - 1 :
               j \in tables[p].at .. Len(events) /\ j # Len(events)
        BY <1>2, <3>1
      <4>3. \A j \in tables[p].at .. Len(events) - 1 : events[j] \in Down
        BY <2>5, <4>2 DEF GoesOn
      <4> QED BY <1>1, <4>1, <4>3
    <3> QED BY <2>4, <3>1, <3>2 DEF IsOver, DownUpTo
  <2>6. EachOutage'
    BY <2>4, <2>5, OldStays DEF EachOutage
  <2> QED BY <1>7, <1>8, <1>o, <2>2, <2>4, <2>6
<1> QED BY <1>4, <1>5

\* What buildIncidents makes of a stream.
LEMMA BuildMember ==
  ASSUME NEW inc \in buildIncidents, ViewsTypeOK
  PROVE  /\ inc.first \in 1 .. Len(events) /\ inc.last \in 1 .. Len(events)
         /\ inc.open \in BOOLEAN /\ inc.first <= inc.last
         /\ inc.first > 1 => ~Unhealthy(inc.first - 1)
         /\ Unhealthy(inc.first)
         /\ \A i \in inc.first .. inc.last : i < inc.last => Unhealthy(i)
         /\ inc.open <=> Unhealthy(inc.last)
         /\ inc.open => inc.last = Len(events)
  BY ViewsTyped DEF buildIncidents

\* One more change lengthens the incident that is open, or opens one; those
\* that are over stay.
LEMMA CoversGrow ==
  ASSUME ViewsTypeOK, StreamCovers, NEW st \in State, events' = Append(events, st)
  PROVE  StreamCovers'
<1> DEFINE N == Len(events)
<1>1. /\ N \in Nat /\ Len(events') = N + 1 /\ DOMAIN events' = 1 .. N + 1
      /\ \A i \in 1 .. N : events'[i] = events[i]
  <2>1. events \in Seq(State)
    BY DEF ViewsTypeOK
  <2>2. Append(events, st) \in Seq(State)
    BY <2>1, AppendProperties
  <2> QED BY <2>1, <2>2, AppendProperties, LenProperties
<1>2. \A i \in 1 .. N : Unhealthy(i)' <=> Unhealthy(i)
  BY <1>1 DEF Unhealthy
<1> HIDE DEF N
<1>n. PICK e \in Nat : e = N + 1
  BY <1>1
<1>3. ASSUME NEW f \in 1 .. e, NEW l \in 1 .. e, NEW o \in BOOLEAN, f <= l,
             f > 1 => ~Unhealthy(f - 1)', Unhealthy(f)',
             \A i \in f .. l : i < l => Unhealthy(i)',
             o <=> Unhealthy(l)', o => l = e
      PROVE  [first |-> f, last |-> l, open |-> o] \in buildIncidents'
  <2> DEFINE r == [first |-> f, last |-> l, open |-> o]
  <2>1. r.first = f /\ r.last = l /\ r.open = o
    OBVIOUS
  <2>2. r \in [first : DOMAIN events', last : DOMAIN events', open : BOOLEAN]
    BY <1>1, <1>n
  <2>3. o = (events'[l] \notin healthyStates)
    BY <1>3 DEF Unhealthy
  <2>4. o => l = Len(events')
    BY <1>1, <1>3, <1>n
  <2>5. /\ f > 1 => ~(events'[f - 1] \notin healthyStates)
        /\ f <= l /\ events'[f] \notin healthyStates
        /\ \A i \in f .. l : i < l => events'[i] \notin healthyStates
    BY <1>3 DEF Unhealthy
  <2> HIDE DEF r
  <2> QED BY <2>1, <2>2, <2>3, <2>4, <2>5 DEF buildIncidents, Unhealthy
<1>4. ASSUME NEW inc \in buildIncidents
      PROVE  \E new \in buildIncidents' :
               /\ new.first = inc.first /\ inc.last <= new.last
               /\ inc.open => new.last = e
  <2>1. /\ inc.first \in 1 .. N /\ inc.last \in 1 .. N
        /\ inc.open \in BOOLEAN /\ inc.first <= inc.last
        /\ inc.first > 1 => ~Unhealthy(inc.first - 1)
        /\ Unhealthy(inc.first)
        /\ \A i \in inc.first .. inc.last : i < inc.last => Unhealthy(i)
        /\ inc.open <=> Unhealthy(inc.last)
        /\ inc.open => inc.last = N
    BY BuildMember DEF N
  <2>2. /\ inc.first \in 1 .. e /\ inc.last \in 1 .. e
        /\ inc.first > 1 => ~Unhealthy(inc.first - 1)'
        /\ Unhealthy(inc.first)'
        /\ \A i \in inc.first .. inc.last : i < inc.last => Unhealthy(i)'
        /\ inc.open <=> Unhealthy(inc.last)'
    <3>1. inc.first > 1 => inc.first - 1 \in 1 .. N
      BY <1>1, <2>1
    <3>2. \A i \in inc.first .. inc.last : i \in 1 .. N
      BY <1>1, <2>1
    <3> QED BY <1>1, <1>2, <1>n, <2>1, <3>1, <3>2
  <2>3. CASE inc.open
    <3>1. /\ e \in 1 .. e /\ inc.first <= e /\ e = N + 1
          /\ \A i \in inc.first .. e : i < e => Unhealthy(i)'
      <4>1. \A i \in inc.first .. N : Unhealthy(i)'
        BY <1>1, <2>1, <2>2, <2>3
      <4> QED BY <1>1, <1>n, <2>1, <4>1
    <3>2. CASE Unhealthy(e)'
      <4>1. [first |-> inc.first, last |-> e, open |-> TRUE] \in buildIncidents'
        BY <1>3, <2>2, <3>1, <3>2
      <4> QED BY <1>1, <1>n, <2>1, <4>1
    <3>3. CASE ~Unhealthy(e)'
      <4>1. [first |-> inc.first, last |-> e, open |-> FALSE] \in buildIncidents'
        BY <1>3, <2>2, <3>1, <3>3
      <4> QED BY <1>1, <1>n, <2>1, <4>1
    <3> QED BY <3>2, <3>3
  <2>4. CASE ~inc.open
    <3>1. inc.open => inc.last = e
      BY <2>4
    <3>2. [first |-> inc.first, last |-> inc.last, open |-> inc.open] \in buildIncidents'
      BY <1>3, <2>1, <2>2, <3>1
    <3> QED BY <2>1, <2>4, <3>2
  <2> QED BY <2>1, <2>3, <2>4
<1>5. ASSUME NEW i \in 1 .. N, Unhealthy(i)
      PROVE  \E inc \in buildIncidents' : i \in inc.first .. inc.last
  <2>1. PICK inc \in buildIncidents : i \in inc.first .. inc.last
    BY <1>5 DEF StreamCovers, N
  <2>2. PICK new \in buildIncidents' : new.first = inc.first /\ inc.last <= new.last
    BY <1>4
  <2>3. inc.first \in Nat /\ inc.last \in Nat /\ new.last \in Nat
    BY <1>1, BuildMember DEF buildIncidents
  <2> QED BY <2>1, <2>2, <2>3
<1>6. ASSUME Unhealthy(e)'
      PROVE  \E inc \in buildIncidents' : e \in inc.first .. inc.last
  <2>1. CASE N > 0 /\ Unhealthy(N)
    <3>1. PICK inc \in buildIncidents : N \in inc.first .. inc.last
      BY <1>1, <2>1 DEF StreamCovers, N
    <3>2. inc.open /\ inc.first \in 1 .. N
      <4>1. inc.last = N /\ inc.first \in 1 .. N
        BY <1>1, <3>1, BuildMember DEF N
      <4> QED BY <2>1, <4>1, BuildMember
    <3>3. PICK new \in buildIncidents' : new.first = inc.first /\ new.last = e
      BY <1>4, <3>2
    <3> QED BY <1>1, <1>n, <3>2, <3>3
  <2>2. CASE ~(N > 0 /\ Unhealthy(N))
    <3>1. e > 1 => ~Unhealthy(e - 1)'
      <4>1. e > 1 => e - 1 = N /\ N \in 1 .. N /\ N > 0
        BY <1>1, <1>n
      <4>2. \A i : i = N => (i > 0 => ~Unhealthy(i)')
        BY <1>1, <1>2, <2>2
      <4>3. \A i : i = N /\ i > 0 => (e - 1 = i /\ ~Unhealthy(i)')
        BY <1>1, <1>n, <4>2
      <4> QED BY <4>1, <4>2, <4>3
    <3>2. e \in 1 .. e /\ e <= e /\ \A i \in e .. e : i < e => Unhealthy(i)'
      BY <1>1, <1>n
    <3>3. [first |-> e, last |-> e, open |-> TRUE] \in buildIncidents'
      BY <1>3, <1>6, <3>1, <3>2
    <3> QED BY <3>2, <3>3
  <2> QED BY <2>1, <2>2
<1>7. ASSUME NEW i \in 1 .. Len(events'), Unhealthy(i)'
      PROVE  \E inc \in buildIncidents' : i \in inc.first .. inc.last
  <2>1. i \in 1 .. N \/ i = e
    BY <1>1, <1>n
  <2> QED BY <1>2, <1>5, <1>6, <1>7, <2>1
<1> QED BY <1>7 DEF StreamCovers

\* A state change: an outage that is on goes on, or begins to recover.
LEMMA ChangeKeepsViews ==
  ASSUME ViewsTell, StepChange
  PROVE  ViewsTell'
<1> USE DEF ViewsTell
<1>1. /\ Phase = "idle" /\ Phase' = "insert"
      /\ fsm'.cur \in State /\ events' = Append(events, fsm'.cur)
      /\ open = 1 => fsm'.cur \in Down \cup Up
      /\ UNCHANGED <<tables, open>>
  BY DEF StepChange
<1>2. /\ Len(events) \in Nat /\ Len(events') = Len(events) + 1 /\ events' \in Seq(State)
      /\ \A i \in 1 .. Len(events) : events'[i] = events[i]
      /\ events'[Len(events) + 1] = fsm'.cur
  <2>1. events \in Seq(State)
    BY DEF ViewsTypeOK
  <2>2. Append(events, fsm'.cur) \in Seq(State)
    BY <1>1, <2>1, AppendProperties
  <2> QED BY <1>1, <2>1, <2>2, AppendProperties, LenProperties
<1>3. /\ Grows /\ StartedAt' = StartedAt /\ \A p \in StartedAt : Closings(p)' = Closings(p)
  BY <1>1, <1>2 DEF Grows, StartedAt, Closings
<1>4. \A p \in DOMAIN tables : tables[p].at \in 1 .. Len(events)
  BY DEF MarksTell
<1>5. ViewsTypeOK' /\ MarksInOrder'
  BY <1>1, <1>2 DEF ViewsTypeOK, MarksInOrder
<1>6. StreamIsCurrent'
  <2>1. events' # <<>>
    BY <1>2, EmptySeq
  <2> QED BY <1>2, <2>1 DEF StreamIsCurrent
<1>7. MarksTell'
  BY <1>1, <1>2 DEF MarksTell
<1>8. LastMark'
  BY <1>1, <1>2, <1>4 DEF LastMark
<1>9. EachOutage'
  <2>1. ASSUME NEW p \in StartedAt, GoesOn(p) PROVE GoesOn(p)'
    <3>1. \A j \in tables[p].at .. Len(events) : events'[j] \in Down
      BY <1>1, <1>2, <1>4, <2>1 DEF GoesOn, StartedAt
    <3>2. events'[Len(events) + 1] \in Down \cup Up
      BY <1>1, <1>2, <2>1 DEF GoesOn
    <3>3. \A j \in tables[p].at .. Len(events') :
             \/ events'[j] \in Down
             \/ j = Len(events') /\ events'[j] \in Up
      <4>1. \A j \in tables[p].at .. Len(events') :
               j \in tables[p].at .. Len(events) \/ j = Len(events) + 1
        BY <1>2, <1>4 DEF StartedAt
      <4> QED BY <1>2, <3>1, <3>2, <4>1
    <3> QED BY <1>1, <1>3, <2>1, <3>3 DEF GoesOn
  <2> QED BY <1>3, <2>1, OldStays DEF EachOutage
<1>10. OutageHasIncident'
  <2>1. ASSUME NEW k \in 1 .. Len(events'), events'[k] \in Down,
               k = Len(events') => Phase' \notin {"insert", "ask", "open"}
        PROVE  HasIncident(k)'
    <3>1. k \in 1 .. Len(events) /\ events[k] \in Down
      BY <1>1, <1>2, <2>1
    <3> QED BY <1>1, <1>3, <3>1, OldStays DEF OutageHasIncident
  <2> QED BY <2>1 DEF OutageHasIncident
<1>11. OpenIsMarked'
  BY <1>1, <1>3 DEF OpenIsMarked
<1>12. StreamCovers'
  BY <1>1, CoversGrow
<1> QED BY <1>5, <1>6, <1>7, <1>8, <1>9, <1>10, <1>11, <1>12

LEMMA IdleKeepsViews ==
  ASSUME ViewsTell, StepIdle
  PROVE  ViewsTell'
<1>1. UNCHANGED <<tables, events, open, fsm.cur, Phase>>
  BY DEF StepIdle
<1>2. /\ StartedAt' = StartedAt /\ \A p : Closings(p)' = Closings(p)
      /\ \A p, n : DownUpTo(p, n)' <=> DownUpTo(p, n)
  BY <1>1 DEF StartedAt, Closings, DownUpTo
<1>3. /\ ViewsTypeOK' /\ StreamIsCurrent' /\ MarksTell' /\ MarksInOrder' /\ LastMark'
  BY <1>1 DEF ViewsTell, ViewsTypeOK, StreamIsCurrent, MarksTell, MarksInOrder, LastMark
<1>4. Grows
  BY <1>1, <1>2 DEF Grows
<1>5. EachOutage'
  <2> SUFFICES ASSUME NEW p \in StartedAt, GoesOn(p) PROVE GoesOn(p)'
    BY <1>2, <1>4, OldStays DEF EachOutage, ViewsTell
  <2> QED BY <1>1, <1>2 DEF GoesOn
<1>6. OutageHasIncident'
  BY <1>1, <1>4, OldStays DEF OutageHasIncident, ViewsTell
<1>7. OpenIsMarked'
  BY <1>1, <1>2 DEF OpenIsMarked, ViewsTell
<1>8. StreamCovers'
  BY <1>1, CoversStay DEF ViewsTell
<1> QED BY <1>3, <1>5, <1>6, <1>7, <1>8 DEF ViewsTell

LEMMA ViewsInvInit == InitViews => ViewsInv
<1> SUFFICES ASSUME InitViews PROVE ViewsTell
  BY DEF ViewsInv
<1>1. /\ tables = <<>> /\ events = <<>> /\ writers = {} /\ open = 0
      /\ fsm.cur = "UNKNOWN"
  BY DEF InitViews, Init, NewServiceState
<1>2. Phase = "idle" /\ DOMAIN tables = {} /\ Len(events) = 0 /\ 1 .. Len(events) = {}
  BY <1>1 DEF Phase
<1>3. ViewsTypeOK
  BY <1>1, EmptySeq DEF ViewsTypeOK
<1>4. StreamIsCurrent
  BY <1>1, <1>2 DEF StreamIsCurrent
<1>5. MarksTell /\ MarksInOrder /\ LastMark
  BY <1>2 DEF MarksTell, MarksInOrder, LastMark
<1>6. EachOutage /\ OutageHasIncident /\ OpenIsMarked /\ StreamCovers
  BY <1>1, <1>2 DEF EachOutage, StartedAt, OutageHasIncident, OpenIsMarked, StreamCovers
<1> QED BY <1>3, <1>4, <1>5, <1>6 DEF ViewsTell

\* The invariant that relates the two views, with what is proved of the log.
LEMMA ViewsInvHolds ==
  ASSUME WriteTimeout < Interval
  PROVE  SpecViews => []ViewsInv
<1>1. IncidentsInv /\ LogInv /\ ViewsInv /\ [NextViews]_viewVars => ViewsInv'
  <2> SUFFICES ASSUME IncidentsInv, LogInv, ViewsInv, [NextViews]_viewVars, faults' = 0
               PROVE  ViewsTell'
    BY DEF ViewsInv
  <2>1. /\ faults = 0
        /\ StepIdle \/ StepChange \/ StepInsert \/ StepAsk \/ StepOpen \/ StepClose
    BY StepTells
  <2>2. ViewsTell /\ open \in {0, 1}
    BY <2>1, IncidentsAssumption DEF ViewsInv, IncidentsInv, TypeOK, AtMostOneOpen
  <2> QED BY <2>1, <2>2, IdleKeepsViews, ChangeKeepsViews, InsertKeepsViews, AskKeepsViews,
             OpenKeepsViews, CloseKeepsViews
<1> QED BY <1>1, ViewsInvInit, ViewsOnlyWatch, IncidentsInvHolds, LogInvHolds, PTL DEF SpecViews

-----------------------------------------------------------------------------

\* The worst state of an outage is UNHEALTHY or DEAD iff it saw one of these.
LEMMA WorstOfOutage ==
  ASSUME ViewsTypeOK, NEW inc \in buildIncidents
  PROVE  worstState(inc) \in Down
           <=> \E i \in inc.first .. inc.last : events[i] \in Down
<1> DEFINE seen == {"DEGRADED"} \cup {events[i] : i \in inc.first .. inc.last}
           Worst(s) == s \in seen /\ \A t \in seen : Severity[s] >= Severity[t]
<1>1. seen \subseteq State /\ "DEGRADED" \in seen
  BY ViewsTyped, BuildMember DEF State
<1>2. seen \cap Down # {} <=> \E i \in inc.first .. inc.last : events[i] \in Down
  BY DEF Down
<1>3. worstState(inc) = CHOOSE s \in seen : \A t \in seen : Severity[s] >= Severity[t]
  BY DEF worstState
<1> HIDE DEF seen
<1>4. /\ Severity["DEAD"] = 4 /\ Severity["UNHEALTHY"] = 3 /\ Severity["RECOVERING"] = 2
      /\ Severity["DEGRADED"] = 1 /\ Severity["HEALTHY"] = 0 /\ Severity["UNKNOWN"] = 0
  BY DEF Severity
<1>5. \E s : Worst(s)
  <2>1. CASE "DEAD" \in seen
    BY <1>1, <1>4, <2>1 DEF State
  <2>2. CASE "DEAD" \notin seen /\ "UNHEALTHY" \in seen
    BY <1>1, <1>4, <2>2 DEF State
  <2>3. CASE "DEAD" \notin seen /\ "UNHEALTHY" \notin seen /\ "RECOVERING" \in seen
    BY <1>1, <1>4, <2>3 DEF State
  <2>4. CASE "DEAD" \notin seen /\ "UNHEALTHY" \notin seen /\ "RECOVERING" \notin seen
    BY <1>1, <1>4, <2>4 DEF State
  <2> QED BY <2>1, <2>2, <2>3, <2>4
<1>6. Worst(worstState(inc))
  BY <1>3, <1>5, Zenon
<1>7. ASSUME NEW t \in seen, t \in Down PROVE worstState(inc) \in Down
  <2>1. worstState(inc) \in State /\ Severity[worstState(inc)] >= Severity[t]
    BY <1>1, <1>6
  <2> QED BY <1>4, <1>7, <2>1 DEF State, Down
<1> QED BY <1>2, <1>6, <1>7

\* Nothing is being written: every outage's incident is marked, and what is
\* open in the table goes on to the last change.
LEMMA SettledTells ==
  ASSUME ViewsInv, Settled
  PROVE  /\ ViewsTell
         /\ \A k \in 1 .. Len(events) : events[k] \in Down => HasIncident(k)
         /\ \A p \in StartedAt : Closings(p) = {} => DownUpTo(p, Len(events))
<1>1. ViewsTell /\ Phase = "idle"
  BY DEF ViewsInv, Settled, Phase
<1>2. \A k \in 1 .. Len(events) : events[k] \in Down => HasIncident(k)
  BY <1>1 DEF ViewsTell, OutageHasIncident
<1>3. ASSUME NEW p \in StartedAt, Closings(p) = {} PROVE DownUpTo(p, Len(events))
  BY <1>1, <1>3 DEF ViewsTell, EachOutage, GoesOn, IsOver, DownUpTo
<1> QED BY <1>1, <1>2, <1>3

\* The list of incidents is the same with and without a database, when nothing
\* failed: an outage of the stream has an incident in the table iff it is
\* called UNHEALTHY or DEAD, and every incident of the table lies within an
\* outage of the stream, which is open if it is (incidents.go:410-464,
\* db.go:318-345).
THEOREM TwoViewsAgree ==
  ASSUME WriteTimeout < Interval
  PROVE  SpecViews => []OneOutageTwoViews
<1>1. ViewsInv => OneOutageTwoViews
  <2> SUFFICES ASSUME ViewsInv, Settled
               PROVE  /\ \A inc \in buildIncidents :
                           worstState(inc) \in Down
                             <=> \E p \in StartedAt : tables[p].at \in inc.first .. inc.last
                      /\ \A p \in StartedAt : \E inc \in buildIncidents :
                           /\ tables[p].at \in inc.first .. inc.last
                           /\ Closings(p) = {} => inc.open
    BY DEF OneOutageTwoViews, Down
  <2>1. /\ ViewsTypeOK /\ MarksTell /\ StreamCovers
        /\ \A k \in 1 .. Len(events) : events[k] \in Down => HasIncident(k)
        /\ \A p \in StartedAt : Closings(p) = {} => DownUpTo(p, Len(events))
    BY SettledTells DEF ViewsTell
  <2>2. \A i : events[i] \in Down => Unhealthy(i)
    BY DEF Down, Unhealthy, healthyStates
  <2>3. \A p \in StartedAt : /\ tables[p].at \in 1 .. Len(events)
                             /\ events[tables[p].at] \in Down
    BY <2>1 DEF MarksTell, StartedAt
  <2>4. Len(events) \in Nat
    BY <2>1, ViewsTyped
  <2>5. ASSUME NEW inc \in buildIncidents, worstState(inc) \in Down
        PROVE  \E p \in StartedAt : tables[p].at \in inc.first .. inc.last
    <3>1. /\ inc.first \in 1 .. Len(events) /\ inc.last \in 1 .. Len(events)
          /\ inc.first > 1 => ~Unhealthy(inc.first - 1)
      BY <2>1, BuildMember
    <3>2. PICK k \in inc.first .. inc.last : events[k] \in Down
      BY <2>1, <2>5, WorstOfOutage
    <3>3. k \in 1 .. Len(events)
      BY <2>4, <3>1
    <3>4. PICK p \in StartedAt : tables[p].at <= k /\ DownUpTo(p, k)
      BY <2>1, <3>2, <3>3 DEF HasIncident
    <3>5. tables[p].at >= inc.first
      <4> SUFFICES ASSUME tables[p].at < inc.first PROVE FALSE
        BY <2>3, <3>1
      <4>1. inc.first > 1 /\ inc.first - 1 \in tables[p].at .. k
        BY <2>3, <2>4, <3>1, <3>3
      <4>2. events[inc.first - 1] \in Down
        BY <3>4, <4>1 DEF DownUpTo
      <4> QED BY <2>2, <3>1, <4>1, <4>2
    <3> QED BY <2>3, <3>1, <3>3, <3>4, <3>5
  <2>6. ASSUME NEW inc \in buildIncidents, NEW p \in StartedAt,
               tables[p].at \in inc.first .. inc.last
        PROVE  worstState(inc) \in Down
    BY <2>1, <2>3, <2>6, WorstOfOutage
  <2>7. ASSUME NEW p \in StartedAt
        PROVE  \E inc \in buildIncidents :
                 tables[p].at \in inc.first .. inc.last /\ (Closings(p) = {} => inc.open)
    <3>1. PICK inc \in buildIncidents : tables[p].at \in inc.first .. inc.last
      BY <2>1, <2>2, <2>3 DEF StreamCovers
    <3>2. /\ inc.first \in 1 .. Len(events) /\ inc.last \in 1 .. Len(events)
          /\ inc.open <=> Unhealthy(inc.last)
      BY <2>1, BuildMember
    <3>3. ASSUME Closings(p) = {} PROVE inc.open
      <4>1. inc.last \in tables[p].at .. Len(events)
        BY <2>3, <2>4, <3>1, <3>2
      <4>2. events[inc.last] \in Down
        BY <2>1, <3>3, <4>1 DEF DownUpTo
      <4> QED BY <2>2, <3>2, <4>2
    <3> QED BY <3>1, <3>3
  <2> QED BY <2>5, <2>6, <2>7
<1> QED BY <1>1, ViewsInvHolds, PTL

\* An incident is resolved by the change right before its closing, the first
\* since it opened that is not to UNHEALTHY or DEAD.
LEMMA ResolvedByRow ==
  ASSUME ViewsTell, NEW p \in StartedAt, Closings(p) # {}
  PROVE  /\ ResolvedAt(p) \in Nat /\ ResolvedAt(p) - 1 \in Rows /\ ResolvedAt(p) - 1 >= p
         /\ tables[ResolvedAt(p) - 1].to \in Up
         /\ ResolvedAt(p) \notin Rows
         /\ \A i \in Rows : i >= p /\ i < ResolvedAt(p) - 1 => tables[i].to \in Down
<1> USE DEF ViewsTell
<1>1. PICK q \in Closings(p) : DownUpTo(p, tables[q].at - 1)
  BY DEF EachOutage, GoesOn, IsOver
<1>2. /\ Len(tables) \in Nat /\ DOMAIN tables = 1 .. Len(tables) /\ Len(events) \in Nat
      /\ p \in DOMAIN tables /\ q \in DOMAIN tables /\ p < q
      /\ tables[p].what = "opened" /\ tables[q].what = "resolved"
  BY ViewsTyped DEF StartedAt, Closings
<1>3. \A r \in DOMAIN tables :
        /\ tables[r].at \in 1 .. Len(events) /\ tables[r].to = events[tables[r].at]
        /\ tables[r].what = "resolved" => tables[r].to \in Up
  BY DEF MarksTell
<1>4. /\ q - 1 \in DOMAIN tables /\ tables[q - 1].what = "row"
      /\ tables[q - 1].at = tables[q].at /\ p < q - 1
  <2>1. q - 1 \in DOMAIN tables /\ tables[q - 1].what = "row" /\ tables[q - 1].at = tables[q].at
    BY <1>2 DEF MarksTell
  <2>2. p # q - 1
    BY <1>2, <2>1
  <2> QED BY <1>2, <2>1, <2>2
<1>5. ASSUME NEW i \in DOMAIN tables, i >= p, i < q - 1
      PROVE  tables[i].to \in Down
  <2>1. tables[i].at < tables[q].at
    BY <1>4, <1>5 DEF MarksInOrder
  <2>2. tables[p].at <= tables[i].at
    <3>1. CASE i = p
      BY <1>3, <3>1
    <3>2. CASE i # p
      BY <1>2, <1>5, <3>2 DEF MarksInOrder
    <3> QED BY <3>1, <3>2
  <2>3. tables[i].at \in tables[p].at .. tables[q].at - 1
    BY <1>2, <1>3, <2>1, <2>2
  <2> QED BY <1>1, <1>3, <2>3 DEF DownUpTo
<1>6. ASSUME NEW r \in Closings(p) PROVE q <= r
  <2> SUFFICES ASSUME r < q PROVE FALSE
    BY <1>2 DEF Closings
  <2>1. r \in DOMAIN tables /\ r >= p /\ tables[r].what = "resolved"
    BY <1>2 DEF Closings
  <2>2. r < q - 1
    BY <1>2, <1>4, <2>1
  <2>3. tables[r].to \in Down /\ tables[r].to \in Up
    BY <1>3, <1>5, <2>1, <2>2
  <2> QED BY <2>3 DEF Down, Up
<1>7. ResolvedAt(p) = q
  <2>1. \A r \in Closings(p) : r \in DOMAIN tables
    BY DEF Closings
  <2>2. \A r \in Closings(p) : (\A s \in Closings(p) : r <= s) => r = q
    BY <1>2, <1>6, <2>1
  <2>3. ResolvedAt(p) \in Closings(p) /\ \A s \in Closings(p) : ResolvedAt(p) <= s
    BY <1>6, Zenon DEF ResolvedAt
  <2> QED BY <2>2, <2>3
<1>8. tables[q - 1].to \in Up
  BY <1>2, <1>3, <1>4
<1>9. q \notin Rows /\ q - 1 \in Rows /\ q \in Nat
  BY <1>2, <1>4 DEF Rows
<1>10. \A i \in Rows : i >= p /\ i < q - 1 => tables[i].to \in Down
  BY <1>5 DEF Rows
<1> QED BY <1>2, <1>4, <1>7, <1>8, <1>9, <1>10

\* The timeline of a resolved incident ends with the change that resolved it,
\* and no other change of it is a recovery: it is the timeline of one outage
\* (db_reader.go:290-316).
THEOREM TimelineOfOneOutage ==
  ASSUME WriteTimeout < Interval
  PROVE  SpecViews => []TimelineEndsWithRecovery
<1>1. ViewsInv => TimelineEndsWithRecovery
  <2> SUFFICES ASSUME ViewsInv, Settled, NEW p \in StartedAt, Closings(p) # {}
               PROVE  LET line == queryTimeline(p) IN
                      /\ line # {}
                      /\ \A i \in line : tables[i].to \in Up <=> \A j \in line : j <= i
    BY DEF TimelineEndsWithRecovery, Up
  <2> DEFINE line == queryTimeline(p)
             last == ResolvedAt(p) - 1
  <2>1. ViewsTell
    BY SettledTells
  <2>2. /\ ResolvedAt(p) \in Nat /\ last \in Rows /\ last >= p /\ tables[last].to \in Up
        /\ ResolvedAt(p) \notin Rows
        /\ \A i \in Rows : i >= p /\ i < last => tables[i].to \in Down
    BY <2>1, ResolvedByRow
  <2>3. line = {r \in Rows : r >= p /\ r <= ResolvedAt(p)}
    BY DEF queryTimeline
  <2>4. \A r \in Rows : r \in Nat
    BY <2>1, ViewsTyped DEF ViewsTell, Rows
  <2> HIDE DEF line
  <2>5. last \in line /\ \A i \in line : i \in Rows /\ i >= p /\ i <= last
    BY <2>2, <2>3, <2>4
  <2>6. ASSUME NEW i \in line PROVE tables[i].to \in Up <=> \A j \in line : j <= i
    <3>1. CASE i = last
      BY <2>2, <2>5, <3>1
    <3>2. CASE i # last
      <4>1. i < last
        BY <2>2, <2>4, <2>5, <3>2
      <4>2. tables[i].to \in Down
        BY <2>2, <2>5, <4>1
      <4>3. tables[i].to \notin Up
        BY <4>2 DEF Down, Up
      <4>4. ~(last <= i)
        BY <2>2, <2>4, <2>5, <4>1
      <4> QED BY <2>5, <4>3, <4>4
    <3> QED BY <3>1, <3>2
  <2> QED BY <2>5, <2>6 DEF line
<1> QED BY <1>1, ViewsInvHolds, PTL
=============================================================================
