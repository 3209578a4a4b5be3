------------------------ MODULE HealthMonitor_proofs ------------------------
(***************************************************************************)
(* Module HealthMonitor for every set of services, every dependency graph, *)
(* every set of rules and thresholds, and any sinks followed: with one     *)
(* poll loop per service, what is downstream of a service agrees with it   *)
(* whenever its loop is between two polls.                                 *)
(*                                                                         *)
(* The inductive invariant MonInv says how far each poll is: the sinks it  *)
(* has passed have the new state, the stream still has the state before    *)
(* it, and a snapshot not yet published is the breaker's.                  *)
(***************************************************************************)
EXTENDS HealthMonitor, HealthFSM_proofs

ChangeSteps == {"store", "publish", "alert"}

\* Sat(n + 1, max) counts up to max and stays there.
LEMMA SatStep ==
  ASSUME NEW max \in Nat, NEW n \in 0 .. max
  PROVE  Sat(n + 1, max) \in 0 .. max
  BY DEF Sat

\* The breaker's methods map breakers to breakers, and time does not change the
\* state of one (breaker.go:48-140).
LEMMA BreakerClosed ==
  ASSUME NEW b \in BreakerRecord
  PROVE  /\ AfterIsOpen(b) \in BreakerRecord
         /\ RecordSuccess(b) \in BreakerRecord
         /\ RecordFailure(b) \in BreakerRecord
         /\ AgeBreaker(b) \in BreakerRecord
         /\ AgeBreaker(b).state = b.state
         /\ IsOpen(b) => AfterIsOpen(b) = b
<1> USE BreakerAssumption DEF BreakerRecord, BreakerState
<1>t. ASSUME NEW c \in BreakerRecord, NEW next \in BreakerState
      PROVE  transitionTo(c, next) \in BreakerRecord
  BY DEF transitionTo
<1>1. AfterIsOpen(b) \in BreakerRecord
  BY <1>t DEF AfterIsOpen
<1>2. RecordSuccess(b) \in BreakerRecord
  <2>1. OneMoreOK(b) \in BreakerRecord
    BY SatStep DEF OneMoreOK, Counted
  <2> QED BY <2>1, <1>t DEF RecordSuccess
<1>3. RecordFailure(b) \in BreakerRecord
  <2>1. OneMoreFail(b) \in BreakerRecord
    BY SatStep DEF OneMoreFail, Counted
  <2> QED BY <2>1, <1>t DEF RecordFailure
<1>4. AgeBreaker(b) \in BreakerRecord /\ AgeBreaker(b).state = b.state
  BY SatStep DEF AgeBreaker
<1>5. IsOpen(b) => AfterIsOpen(b) = b
  BY DEF IsOpen, AfterIsOpen
<1> QED BY <1>1, <1>2, <1>3, <1>4, <1>5

\* The sink a change goes to next: the first one followed.
LEMMA FirstFollowed ==
  ASSUME NEW s \in Services
  PROVE  /\ SinkFrom(s, 1) = IF "store" \in Followed[s] THEN "store" ELSE SinkFrom(s, 2)
         /\ SinkFrom(s, 2) = IF "publish" \in Followed[s] THEN "publish" ELSE SinkFrom(s, 3)
         /\ SinkFrom(s, 3) = IF "alert" \in Followed[s] THEN "alert" ELSE "idle"
<1> DEFINE left(i) == {k \in i .. 3 : ChangeSinks[k] \in Followed[s]}
           first(i) == CHOOSE k \in left(i) : \A l \in left(i) : k <= l
<1>0. /\ ChangeSinks[1] = "store" /\ ChangeSinks[2] = "publish" /\ ChangeSinks[3] = "alert"
  BY DEF ChangeSinks
<1>1. /\ 1 .. 3 = {1, 2, 3} /\ 2 .. 3 = {2, 3} /\ 3 .. 3 = {3}
  OBVIOUS
<1>2. \A i \in 1 .. 3 : SinkFrom(s, i) = IF left(i) = {} THEN "idle" ELSE ChangeSinks[first(i)]
  BY DEF SinkFrom
<1>3. ASSUME NEW i \in 1 .. 3, ChangeSinks[i] \in Followed[s]
      PROVE  SinkFrom(s, i) = ChangeSinks[i]
  <2>1. i \in left(i) /\ \A l \in left(i) : i <= l
    BY <1>3
  <2>2. \A k \in left(i) : (\A l \in left(i) : k <= l) => k = i
    <3>1. \A k \in left(i) : k \in Nat
      OBVIOUS
    <3> HIDE DEF left
    <3> QED BY <2>1, <3>1
  <2> HIDE DEF left
  <2>3. first(i) = i
    BY <2>1, <2>2
  <2> QED BY <1>2, <2>1, <2>3
<1>4. ASSUME NEW i \in 1 .. 2, ChangeSinks[i] \notin Followed[s]
      PROVE  SinkFrom(s, i) = SinkFrom(s, i + 1)
  <2>1. left(i) = left(i + 1)
    BY <1>4
  <2>2. i \in 1 .. 3 /\ i + 1 \in 1 .. 3
    OBVIOUS
  <2> HIDE DEF left
  <2> QED BY <1>2, <2>1, <2>2
<1>5. ASSUME "alert" \notin Followed[s] PROVE SinkFrom(s, 3) = "idle"
  <2>1. left(3) = {}
    BY <1>0, <1>1, <1>5
  <2> HIDE DEF left
  <2> QED BY <1>2, <2>1
<1> QED BY <1>0, <1>3, <1>4, <1>5

LEMMA SinkFromIsPc ==
  ASSUME NEW s \in Services, NEW i \in 1 .. 3
  PROVE  SinkFrom(s, i) \in {"idle", "store", "publish", "alert"}
  BY FirstFollowed

\* Whatever the lifecycle was, after a decision it is open exactly if the new
\* state is a bad one (dispatcher.go:145-183).
LEMMA DecisionFollowsState ==
  ASSUME NEW lc \in Lifecycle, NEW st \in State
  PROVE  /\ AfterSelect(lc, st) \in Lifecycle
         /\ st # "UNKNOWN" => (AfterSelect(lc, st).inBad <=> st \in Bad)
<1>1. /\ lc.inBad \in BOOLEAN /\ lc.active \in SUBSET Channels
  BY Zenon DEF Lifecycle
<1>2. /\ st \in Bad => st \notin Recovered
      /\ st # "UNKNOWN" => (st \notin Recovered => st \in Bad)
  BY DEF State, Bad, Recovered
<1> DEFINE opened ==
      [inBad |-> TRUE, badState |-> st, active |-> lc.active \cup StateRules[st]]
<1>3. opened \in Lifecycle /\ opened.inBad
  <2>1. lc.active \cup StateRules[st] \in SUBSET Channels
    BY <1>1, DispatcherAssumption
  <2> QED BY <2>1 DEF Lifecycle
<1>4. NoLifecycle \in Lifecycle /\ ~NoLifecycle.inBad
  BY DEF NoLifecycle, Lifecycle
<1>5. AfterSelect(lc, st) =
        IF Onset(lc, st) \/ Escalation(lc, st) THEN opened
        ELSE IF Recovery(lc, st) THEN NoLifecycle ELSE lc
  BY DEF AfterSelect
<1> HIDE DEF opened
<1>6. Onset(lc, st) \/ Escalation(lc, st) => st \in Bad
  BY DEF Onset, Escalation
<1>7. Recovery(lc, st) => st \notin Bad
  BY <1>2 DEF Recovery
<1>8. st # "UNKNOWN" /\ ~Onset(lc, st) /\ ~Recovery(lc, st) => (lc.inBad <=> st \in Bad)
  BY <1>1, <1>2, Zenon DEF Onset, Recovery
<1> QED BY <1>3, <1>4, <1>5, <1>6, <1>7, <1>8, Zenon

-----------------------------------------------------------------------------

\* One poll goes on and the others stay where they are.
LEMMA OnePollMoves ==
  ASSUME poll \in [Polls -> Poll], NEW p \in Polls, NEW r \in Poll,
         poll' = [poll EXCEPT ![p] = r]
  PROVE  /\ poll' \in [Polls -> Poll]
         /\ poll'[p] = r
         /\ \A q \in Polls \ {p} : poll'[q] = poll[q]
  OBVIOUS

LEMMA GotoMoves ==
  ASSUME poll \in [Polls -> Poll], NEW p \in Polls, NEW pc \in Pc, Goto(p, pc)
  PROVE  /\ poll' \in [Polls -> Poll]
         /\ poll'[p].pc = pc
         /\ pc # "idle" => poll'[p].new = poll[p].new
         /\ \A q \in Polls \ {p} : poll'[q] = poll[q]
<1> DEFINE r == IF pc = "idle" THEN Idle ELSE [poll[p] EXCEPT !.pc = pc]
<1>1. poll[p] \in Poll
  OBVIOUS
<1>2. r \in Poll /\ r.pc = pc /\ (pc # "idle" => r.new = poll[p].new)
  <2>1. CASE pc = "idle"
    BY <2>1 DEF Poll, Idle, Pc, BreakerState, State
  <2>2. CASE pc # "idle"
    BY <1>1, <2>2 DEF Poll
  <2> QED BY <2>1, <2>2
<1>3. poll' = [poll EXCEPT ![p] = r]
  BY DEF Goto
<1> HIDE DEF r
<1> QED BY <1>2, <1>3, OnePollMoves

\* What the steps with locals of their own do to them.
LEMMA CheckMoves ==
  ASSUME poll \in [Polls -> Poll], up \in [Services -> BOOLEAN], NEW p \in Polls, Check(p)
  PROVE  /\ poll' \in [Polls -> Poll]
         /\ poll'[p].pc \in {"deps", "breaker"}
         /\ \A q \in Polls \ {p} : poll'[q] = poll[q]
<1> DEFINE s == Target[p]
           r == [poll[p] EXCEPT !.ok   = up[s],
                                !.todo = IF up[s] THEN Deps[s] ELSE {},
                                !.pc   = IF up[s] /\ Deps[s] # {} THEN "deps" ELSE "breaker"]
<1>1. poll[p] \in Poll /\ s \in Services
  BY MonitorAssumption
<1>2. up[s] \in BOOLEAN /\ Deps[s] \in SUBSET Services
  BY <1>1, MonitorAssumption
<1>3. r \in Poll /\ r.pc \in {"deps", "breaker"}
  BY <1>1, <1>2 DEF Poll, Pc
<1>4. poll' = [poll EXCEPT ![p] = r]
  BY DEF Check
<1> HIDE DEF r
<1> QED BY <1>3, <1>4, OnePollMoves

LEMMA LookMoves ==
  ASSUME poll \in [Polls -> Poll], NEW p \in Polls, LookAtDependency(p)
  PROVE  /\ poll' \in [Polls -> Poll]
         /\ poll'[p].pc \in {"deps", "breaker"}
         /\ \A q \in Polls \ {p} : poll'[q] = poll[q]
<1>1. PICK d \in poll[p].todo :
        LET fails == DependencyFailing(d)
            left  == IF fails THEN {} ELSE poll[p].todo \ {d}
        IN poll' = [poll EXCEPT ![p].ok   = ~fails,
                                ![p].todo = left,
                                ![p].pc   = IF left = {} THEN "breaker" ELSE "deps"]
  BY DEF LookAtDependency
<1> DEFINE fails == DependencyFailing(d)
           left  == IF fails THEN {} ELSE poll[p].todo \ {d}
           r == [poll[p] EXCEPT !.ok = ~fails, !.todo = left,
                                !.pc = IF left = {} THEN "breaker" ELSE "deps"]
<1>2. poll[p] \in Poll
  OBVIOUS
<1>3. (~fails) \in BOOLEAN
  BY DEF DependencyFailing
<1>4. left \in SUBSET Services
  BY <1>2 DEF Poll
<1>5. poll' = [poll EXCEPT ![p] = r]
  BY <1>1
<1> HIDE DEF fails, left
<1>6. r \in Poll /\ r.pc \in {"deps", "breaker"}
  BY <1>2, <1>3, <1>4 DEF Poll, Pc
<1> HIDE DEF r
<1> QED BY <1>5, <1>6, OnePollMoves

LEMMA SnapshotMoves ==
  ASSUME poll \in [Polls -> Poll], breaker \in [Services -> BreakerRecord],
         NEW p \in Polls, TakeSnapshot(p)
  PROVE  /\ poll' \in [Polls -> Poll]
         /\ poll'[p].pc = "circuit" /\ poll'[p].snap = breaker[Target[p]].state
         /\ \A q \in Polls \ {p} : poll'[q] = poll[q]
<1> DEFINE r == [poll[p] EXCEPT !.snap = breaker[Target[p]].state, !.pc = "circuit"]
<1>1. poll[p] \in Poll /\ breaker[Target[p]].state \in BreakerState
  BY MonitorAssumption DEF BreakerRecord
<1>2. r \in Poll /\ r.pc = "circuit" /\ r.snap = breaker[Target[p]].state
  BY <1>1 DEF Poll, Pc
<1>3. poll' = [poll EXCEPT ![p] = r]
  BY DEF TakeSnapshot
<1> HIDE DEF r
<1> QED BY <1>2, <1>3, OnePollMoves

LEMMA RecordMoves ==
  ASSUME poll \in [Polls -> Poll], fsm \in [Services -> ServiceState],
         NEW p \in Polls, Record(p)
  PROVE  LET s == Target[p]
             next == IF Changed(fsm[s], poll[p].ok) THEN SinkFrom(s, 1) ELSE "idle"
         IN
         /\ poll' \in [Polls -> Poll]
         /\ poll'[p].pc = next
         /\ next # "idle" => poll'[p].new = fsm'[s].cur
         /\ \A q \in Polls \ {p} : poll'[q] = poll[q]
         /\ fsm' \in [Services -> ServiceState]
         /\ fsm'[s] = Transition(fsm[s], poll[p].ok)
         /\ poll[p].ok \in BOOLEAN
<1> DEFINE s == Target[p]
           next == IF Changed(fsm[s], poll[p].ok) THEN SinkFrom(s, 1) ELSE "idle"
           r == IF next = "idle" THEN Idle
                ELSE [poll[p] EXCEPT !.pc = next, !.new = fsm'[s].cur]
<1>1. poll[p] \in Poll /\ s \in Services /\ fsm[s] \in ServiceState
  BY MonitorAssumption
<1>2. poll[p].ok \in BOOLEAN
  BY <1>1 DEF Poll
<1>3. fsm' \in [Services -> ServiceState] /\ fsm'[s] = Transition(fsm[s], poll[p].ok)
  BY <1>1, <1>2, TransitionTyped DEF Record
<1>4. fsm'[s].cur \in State
  BY <1>1, <1>3, Zenon DEF ServiceState
<1>5. next \in {"idle", "store", "publish", "alert"}
  BY <1>1, SinkFromIsPc
<1>6. poll' = [poll EXCEPT ![p] = r]
  BY DEF Record
<1> HIDE DEF next
<1>7. r \in Poll /\ r.pc = next /\ (next # "idle" => r.new = fsm'[s].cur)
  <2>1. CASE next = "idle"
    BY <2>1 DEF Poll, Idle, Pc, BreakerState, State
  <2>2. CASE next # "idle"
    BY <1>1, <1>4, <1>5, <2>2 DEF Poll, Pc
  <2> QED BY <2>1, <2>2
<1> HIDE DEF r
<1>8. /\ poll' \in [Polls -> Poll] /\ poll'[p] = r
      /\ \A q \in Polls \ {p} : poll'[q] = poll[q]
  BY <1>6, <1>7, OnePollMoves
<1> QED BY <1>2, <1>3, <1>7, <1>8 DEF next

-----------------------------------------------------------------------------

LEMMA TypeInit == Init => TypeOK
<1> SUFFICES ASSUME Init PROVE TypeOK
  OBVIOUS
<1>1. NewBreaker \in BreakerRecord
  BY BreakerAssumption DEF NewBreaker, BreakerRecord, BreakerState
<1>2. NewServiceState \in ServiceState
  BY DEF NewServiceState, ServiceState, State, MaxFails, MaxOK
<1>3. Idle \in Poll
  BY DEF Idle, Poll, Pc, BreakerState, State
<1>4. [from |-> "", to |-> "UNKNOWN"] \in Change
  <2>1. "" \in State \cup {""} /\ "UNKNOWN" \in State
    BY Zenon DEF State
  <2> QED BY <2>1 DEF Change
<1>5. NoLifecycle \in Lifecycle
  BY DEF NoLifecycle, Lifecycle
<1>6. "CLOSED" \in BreakerState
  BY DEF BreakerState
<1> QED BY <1>1, <1>2, <1>3, <1>4, <1>5, <1>6 DEF Init, TypeOK

\* A sink is told a change.
LEMMA ToldIsChange ==
  ASSUME TypeOK, NEW p \in Polls
  PROVE  Told(p) \in Change
<1>1. poll[p] \in Poll /\ fsm[Target[p]] \in ServiceState
  BY MonitorAssumption DEF TypeOK
<1>2. fsm[Target[p]].prev \in State \cup {""} /\ poll[p].new \in State
  BY <1>1, Zenon DEF ServiceState, Poll
<1> QED BY <1>2 DEF Told, Change

LEMMA TypeStep ==
  ASSUME TypeOK, [Next]_vars
  PROVE  TypeOK'
<1>t. /\ up \in [Services -> BOOLEAN]
      /\ breaker \in [Services -> BreakerRecord]
      /\ fsm \in [Services -> ServiceState]
      /\ poll \in [Polls -> Poll]
      /\ circuitView \in [Services -> BreakerState]
      /\ stored \in [Services -> Change]
      /\ published \in [Services -> Change]
      /\ lifecycle \in [Services -> Lifecycle]
  BY DEF TypeOK
<1>u. \A p \in Polls : Target[p] \in Services
  BY MonitorAssumption
<1>1. ASSUME NEW p \in Polls, Gate(p) PROVE TypeOK'
  <2>1. breaker' \in [Services -> BreakerRecord]
    BY <1>1, <1>t, <1>u, BreakerClosed DEF Gate
  <2>2. poll' \in [Polls -> Poll]
    <3>1. PICK pc \in {"record", "check"} : Goto(p, pc)
      BY <1>1 DEF Gate
    <3> QED BY <1>t, <3>1, GotoMoves DEF Pc
  <2> QED BY <1>1, <1>t, <2>1, <2>2 DEF Gate, TypeOK, sinkVars
<1>2. ASSUME NEW p \in Polls, Check(p) PROVE TypeOK'
  BY <1>2, <1>t, CheckMoves DEF Check, TypeOK, sinkVars
<1>3. ASSUME NEW p \in Polls, LookAtDependency(p) PROVE TypeOK'
  BY <1>3, <1>t, LookMoves DEF LookAtDependency, TypeOK, sinkVars
<1>4. ASSUME NEW p \in Polls, FeedBreaker(p) PROVE TypeOK'
  <2>1. breaker' \in [Services -> BreakerRecord]
    BY <1>4, <1>t, <1>u, BreakerClosed DEF FeedBreaker
  <2>2. poll' \in [Polls -> Poll]
    <3>1. PICK pc \in {"snapshot", "record"} : Goto(p, pc)
      BY <1>4 DEF FeedBreaker
    <3> QED BY <1>t, <3>1, GotoMoves DEF Pc
  <2> QED BY <1>4, <1>t, <2>1, <2>2 DEF FeedBreaker, TypeOK, sinkVars
<1>5. ASSUME NEW p \in Polls, TakeSnapshot(p) PROVE TypeOK'
  BY <1>5, <1>t, SnapshotMoves DEF TakeSnapshot, TypeOK, sinkVars
<1>6. ASSUME NEW p \in Polls, PublishCircuit(p) PROVE TypeOK'
  <2>1. circuitView' \in [Services -> BreakerState]
    <3>1. poll[p].snap \in BreakerState
      BY <1>t DEF Poll
    <3> QED BY <1>6, <1>t, <3>1 DEF PublishCircuit
  <2>2. poll' \in [Polls -> Poll]
    BY <1>6, <1>t, GotoMoves DEF PublishCircuit, Pc
  <2> QED BY <1>6, <1>t, <2>1, <2>2 DEF PublishCircuit, TypeOK
<1>7. ASSUME NEW p \in Polls, Record(p) PROVE TypeOK'
  <2>1. poll' \in [Polls -> Poll] /\ fsm' \in [Services -> ServiceState]
    BY <1>7, <1>t, RecordMoves
  <2> QED BY <1>7, <1>t, <2>1 DEF Record, TypeOK, sinkVars
<1>8. ASSUME NEW p \in Polls, Store(p) PROVE TypeOK'
  <2>1. stored' \in [Services -> Change]
    BY <1>8, <1>t, ToldIsChange DEF Store
  <2>2. SinkFrom(Target[p], 2) \in Pc
    BY <1>u, SinkFromIsPc DEF Pc
  <2>3. poll' \in [Polls -> Poll]
    BY <1>8, <1>t, <2>2, GotoMoves DEF Store
  <2> QED BY <1>8, <1>t, <2>1, <2>3 DEF Store, TypeOK
<1>9. ASSUME NEW p \in Polls, Publish(p) PROVE TypeOK'
  <2>1. published' \in [Services -> Change]
    BY <1>9, <1>t, ToldIsChange DEF Publish
  <2>2. SinkFrom(Target[p], 3) \in Pc
    BY <1>u, SinkFromIsPc DEF Pc
  <2>3. poll' \in [Polls -> Poll]
    BY <1>9, <1>t, <2>2, GotoMoves DEF Publish
  <2> QED BY <1>9, <1>t, <2>1, <2>3 DEF Publish, TypeOK
<1>10. ASSUME NEW p \in Polls, Alert(p) PROVE TypeOK'
  <2>1. AfterSelect(lifecycle[Target[p]], poll[p].new) \in Lifecycle
    <3>1. poll[p].new \in State
      BY <1>t DEF Poll
    <3> QED BY <1>t, <1>u, <3>1, DecisionFollowsState
  <2>2. lifecycle' \in [Services -> Lifecycle]
    BY <1>10, <1>t, <2>1 DEF Alert
  <2>3. poll' \in [Polls -> Poll]
    BY <1>10, <1>t, GotoMoves DEF Alert, Pc
  <2> QED BY <1>10, <1>t, <2>2, <2>3 DEF Alert, TypeOK
<1>11. ASSUME Tick PROVE TypeOK'
  <2>1. breaker' \in [Services -> BreakerRecord]
    BY <1>11, <1>t, BreakerClosed DEF Tick
  <2> QED BY <1>11, <1>t, <2>1 DEF Tick, TypeOK, sinkVars
<1>12. ASSUME NEW s \in Services, Flip(s) PROVE TypeOK'
  <2>1. up' \in [Services -> BOOLEAN]
    BY <1>12, <1>t DEF Flip
  <2> QED BY <1>12, <1>t, <2>1 DEF Flip, TypeOK, sinkVars
<1>13. ASSUME UNCHANGED vars PROVE TypeOK'
  BY <1>13, <1>t DEF vars, sinkVars, TypeOK
<1> QED BY <1>1, <1>2, <1>3, <1>4, <1>5, <1>6, <1>7, <1>8, <1>9, <1>10, <1>11,
           <1>12, <1>13 DEF Next, PollStep

\* The model's variables keep their types, with any number of polls of a
\* service at a time.
THEOREM MonitorTypeCorrect == Spec => []TypeOK
<1>1. TypeOK /\ [Next]_vars => TypeOK'
  BY TypeStep
<1> QED BY <1>1, TypeInit, PTL DEF Spec

-----------------------------------------------------------------------------

\* One poll loop per service: Poller.Start starts one each, and a reload closes
\* the old one's stop channel before it starts the next (poller.go:54-59, 86-111).
\* It leaves out PollNow and an old loop that still ends its last check.
OneLoopEach == \A p, q \in Polls : Target[p] = Target[q] => p = q

Latest(s) == [from |-> fsm[s].prev, to |-> fsm[s].cur]

\* What a poll carries in its locals is the state of its service: from the
\* transition to the last sink, and from the snapshot to the circuit event.
Carries(p) ==
  LET s == Target[p] IN
  /\ poll[p].pc \in ChangeSteps =>
       /\ poll[p].pc \in Followed[s]
       /\ poll[p].new = fsm[s].cur
       /\ fsm[s].cur # "UNKNOWN"
  /\ poll[p].pc = "circuit" => poll[p].snap = breaker[s].state

\* What each sink has been told of p's service.
CircuitTold(p) ==
  LET s == Target[p] IN
  /\ "circuit" \in Followed[s]
  /\ poll[p].pc \notin {"check", "deps", "breaker", "snapshot", "circuit"}
  => circuitView[s] = breaker[s].state

StoreTold(p) ==
  LET s == Target[p] IN
  "store" \in Followed[s] /\ poll[p].pc # "store" => stored[s] = Latest(s)

StreamTold(p) ==
  LET s == Target[p] IN
  "publish" \in Followed[s] =>
    IF poll[p].pc \in {"store", "publish"}
      THEN published[s].to = fsm[s].prev
      ELSE published[s] = Latest(s)

DispatcherTold(p) ==
  LET s == Target[p] IN
  "alert" \in Followed[s] /\ poll[p].pc \notin ChangeSteps =>
    (lifecycle[s].inBad <=> fsm[s].cur \in Bad)

LoopInv(p) ==
  Carries(p) /\ CircuitTold(p) /\ StoreTold(p) /\ StreamTold(p) /\ DispatcherTold(p)

\* A service without a loop stays as Init made it.
Untouched(s) ==
  /\ circuitView[s] = breaker[s].state
  /\ stored[s] = Latest(s)
  /\ published[s] = Latest(s)
  /\ lifecycle[s].inBad <=> fsm[s].cur \in Bad

MonInv ==
  /\ TypeOK
  /\ \A p \in Polls : LoopInv(p)
  /\ \A s \in Services : (\A p \in Polls : Target[p] # s) => Untouched(s)

LEMMA MonInvInit == Init => MonInv
<1> SUFFICES ASSUME Init PROVE MonInv
  OBVIOUS
<1>1. \A s \in Services : Untouched(s)
  <2>1. /\ NewServiceState.prev = "" /\ NewServiceState.cur = "UNKNOWN"
        /\ NewBreaker.state = "CLOSED" /\ ~NoLifecycle.inBad
    BY Zenon DEF NewServiceState, NewBreaker, NoLifecycle
  <2>2. "UNKNOWN" \notin Bad
    BY DEF Bad
  <2> QED BY <2>1, <2>2, Zenon DEF Init, Untouched, Latest
<1>2. ASSUME NEW p \in Polls PROVE LoopInv(p)
  <2>1. poll[p].pc = "idle"
    BY DEF Init, Idle
  <2>2. Untouched(Target[p])
    BY <1>1, MonitorAssumption
  <2> QED BY <2>1, <2>2 DEF Untouched, LoopInv, Carries, CircuitTold, StoreTold, StreamTold,
                            DispatcherTold, ChangeSteps
<1> QED BY <1>1, <1>2, TypeInit DEF MonInv

-----------------------------------------------------------------------------

\* A step of p's that leaves the other polls and the other services alone.
Apart(p) ==
  /\ \A q \in Polls \ {p} : poll'[q] = poll[q]
  /\ \A t \in Services \ {Target[p]} :
       /\ fsm'[t] = fsm[t]
       /\ breaker'[t] = breaker[t]
       /\ circuitView'[t] = circuitView[t]
       /\ stored'[t] = stored[t]
       /\ published'[t] = published[t]
       /\ lifecycle'[t] = lifecycle[t]

LEMMA OthersKeep ==
  ASSUME OneLoopEach, MonInv, TypeOK', NEW p \in Polls, Apart(p), LoopInv(p)'
  PROVE  MonInv'
<1>1. ASSUME NEW q \in Polls, q # p PROVE LoopInv(q)'
  <2>1. Target[q] \in Services /\ Target[q] # Target[p]
    BY <1>1, MonitorAssumption DEF OneLoopEach
  <2>2. LoopInv(q)
    BY DEF MonInv
  <2>3. /\ poll'[q] = poll[q]
        /\ fsm'[Target[q]] = fsm[Target[q]]
        /\ breaker'[Target[q]] = breaker[Target[q]]
        /\ circuitView'[Target[q]] = circuitView[Target[q]]
        /\ stored'[Target[q]] = stored[Target[q]]
        /\ published'[Target[q]] = published[Target[q]]
        /\ lifecycle'[Target[q]] = lifecycle[Target[q]]
    BY <1>1, <2>1 DEF Apart
  <2>4. Carries(q)' /\ CircuitTold(q)'
    BY <2>2, <2>3 DEF LoopInv, Carries, CircuitTold
  <2>5. StoreTold(q)' /\ StreamTold(q)' /\ DispatcherTold(q)'
    BY <2>2, <2>3 DEF LoopInv, StoreTold, StreamTold, DispatcherTold, Latest
  <2> QED BY <2>4, <2>5 DEF LoopInv
<1>2. ASSUME NEW s \in Services, \A q \in Polls : Target[q] # s PROVE Untouched(s)'
  <2>1. Untouched(s) /\ s # Target[p]
    BY <1>2 DEF MonInv
  <2> QED BY <2>1 DEF Apart, Untouched, Latest
<1> QED BY <1>1, <1>2 DEF MonInv

\* What a sink is told by the poll whose turn it is.
LEMMA ToldLatest ==
  ASSUME MonInv, NEW p \in Polls, poll[p].pc \in ChangeSteps
  PROVE  Told(p) = Latest(Target[p])
  BY DEF MonInv, LoopInv, Carries, Told, Latest

\* Up to Record a poll changes the breaker only, and publishes it last.
LEMMA ChecksKeepLoop ==
  ASSUME MonInv, NEW p \in Polls,
         \/ Gate(p) \/ Check(p) \/ LookAtDependency(p) \/ FeedBreaker(p)
         \/ TakeSnapshot(p) \/ PublishCircuit(p)
  PROVE  Apart(p) /\ LoopInv(p)'
<1> DEFINE s == Target[p]
<1> USE DEF At
<1>t. /\ s \in Services
      /\ breaker \in [Services -> BreakerRecord]
      /\ poll \in [Polls -> Poll]
      /\ up \in [Services -> BOOLEAN]
      /\ circuitView \in [Services -> BreakerState]
  BY MonitorAssumption DEF MonInv, TypeOK
<1>i. LoopInv(p)
  BY DEF MonInv
\* Before and after the step the poll is before its first sink of a change.
<1>k. ASSUME poll[p].pc \notin ChangeSteps, poll'[p].pc \notin ChangeSteps,
             UNCHANGED <<fsm, stored, published, lifecycle>>
      PROVE  StoreTold(p)' /\ StreamTold(p)' /\ DispatcherTold(p)'
  BY <1>i, <1>k DEF LoopInv, StoreTold, StreamTold, DispatcherTold, ChangeSteps, Latest
<1>1. CASE Gate(p)
  <2>1. /\ poll[p].pc = "idle"
        /\ breaker' = [breaker EXCEPT ![s] = AfterIsOpen(breaker[s])]
        /\ Goto(p, IF IsOpen(breaker[s]) THEN "record" ELSE "check")
        /\ UNCHANGED <<fsm, sinkVars>>
    BY <1>1 DEF Gate
  <2>2. PICK pc \in {"record", "check"} :
          Goto(p, pc) /\ (pc = "record" => IsOpen(breaker[s]))
    BY <2>1
  <2>3. poll'[p].pc = pc /\ \A q \in Polls \ {p} : poll'[q] = poll[q]
    BY <1>t, <2>2, GotoMoves DEF Pc
  <2>4. pc = "record" => breaker'[s] = breaker[s]
    BY <1>t, <2>1, <2>2, BreakerClosed
  <2>5. Carries(p)' /\ CircuitTold(p)'
    BY <1>i, <2>1, <2>2, <2>3, <2>4 DEF LoopInv, Carries, CircuitTold, ChangeSteps, sinkVars
  <2>6. StoreTold(p)' /\ StreamTold(p)' /\ DispatcherTold(p)'
    BY <1>k, <2>1, <2>2, <2>3 DEF sinkVars, ChangeSteps
  <2>7. Apart(p)
    BY <1>t, <2>1, <2>3 DEF Apart, sinkVars
  <2> QED BY <2>5, <2>6, <2>7 DEF LoopInv
<1>2. CASE Check(p) \/ LookAtDependency(p)
  <2>1. /\ poll[p].pc \in {"check", "deps"}
        /\ poll'[p].pc \in {"deps", "breaker"}
        /\ \A q \in Polls \ {p} : poll'[q] = poll[q]
        /\ UNCHANGED <<breaker, fsm, sinkVars>>
    BY <1>2, <1>t, CheckMoves, LookMoves DEF Check, LookAtDependency
  <2>2. Carries(p)' /\ CircuitTold(p)'
    BY <2>1 DEF Carries, CircuitTold, ChangeSteps
  <2>3. StoreTold(p)' /\ StreamTold(p)' /\ DispatcherTold(p)'
    BY <1>k, <2>1 DEF sinkVars, ChangeSteps
  <2>4. Apart(p)
    BY <2>1 DEF Apart, sinkVars
  <2> QED BY <2>2, <2>3, <2>4 DEF LoopInv
<1>3. CASE FeedBreaker(p)
  <2>1. /\ poll[p].pc = "breaker"
        /\ \A t \in Services \ {s} : breaker'[t] = breaker[t]
        /\ Goto(p, IF "circuit" \in Followed[s] THEN "snapshot" ELSE "record")
        /\ UNCHANGED <<fsm, sinkVars>>
    BY <1>3, <1>t DEF FeedBreaker
  <2>2. PICK pc \in {"snapshot", "record"} :
          Goto(p, pc) /\ (pc = "record" => "circuit" \notin Followed[s])
    BY <2>1
  <2>3. poll'[p].pc = pc /\ \A q \in Polls \ {p} : poll'[q] = poll[q]
    BY <1>t, <2>2, GotoMoves DEF Pc
  <2>4. Carries(p)' /\ CircuitTold(p)'
    BY <2>2, <2>3 DEF Carries, CircuitTold, ChangeSteps
  <2>5. StoreTold(p)' /\ StreamTold(p)' /\ DispatcherTold(p)'
    BY <1>k, <2>1, <2>2, <2>3 DEF sinkVars, ChangeSteps
  <2>6. Apart(p)
    BY <2>1, <2>3 DEF Apart, sinkVars
  <2> QED BY <2>4, <2>5, <2>6 DEF LoopInv
<1>4. CASE TakeSnapshot(p)
  <2>1. /\ poll[p].pc = "snapshot" /\ poll'[p].pc = "circuit"
        /\ poll'[p].snap = breaker[s].state
        /\ \A q \in Polls \ {p} : poll'[q] = poll[q]
        /\ UNCHANGED <<breaker, fsm, sinkVars>>
    BY <1>4, <1>t, SnapshotMoves DEF TakeSnapshot
  <2>2. Carries(p)' /\ CircuitTold(p)'
    BY <2>1 DEF Carries, CircuitTold, ChangeSteps
  <2>3. StoreTold(p)' /\ StreamTold(p)' /\ DispatcherTold(p)'
    BY <1>k, <2>1 DEF sinkVars, ChangeSteps
  <2>4. Apart(p)
    BY <2>1 DEF Apart, sinkVars
  <2> QED BY <2>2, <2>3, <2>4 DEF LoopInv
<1>5. CASE PublishCircuit(p)
  <2>1. /\ poll[p].pc = "circuit" /\ Goto(p, "record")
        /\ circuitView' = [circuitView EXCEPT ![s] = poll[p].snap]
        /\ UNCHANGED <<breaker, fsm, stored, published, lifecycle>>
    BY <1>5 DEF PublishCircuit
  <2>2. poll'[p].pc = "record" /\ \A q \in Polls \ {p} : poll'[q] = poll[q]
    BY <1>t, <2>1, GotoMoves DEF Pc
  <2>3. circuitView'[s] = breaker'[s].state
    BY <1>i, <1>t, <2>1 DEF LoopInv, Carries
  <2>4. Carries(p)' /\ CircuitTold(p)'
    BY <2>2, <2>3 DEF Carries, CircuitTold, ChangeSteps
  <2>5. StoreTold(p)' /\ StreamTold(p)' /\ DispatcherTold(p)'
    BY <1>k, <2>1, <2>2 DEF ChangeSteps
  <2>6. Apart(p)
    BY <1>t, <2>1, <2>2 DEF Apart
  <2> QED BY <2>4, <2>5, <2>6 DEF LoopInv
<1> QED BY <1>1, <1>2, <1>3, <1>4, <1>5

\* PreviousState moves with the state and not without it (state.go:146-166).
LEMMA PreviousFollows ==
  ASSUME NEW f \in ServiceState, NEW ok \in BOOLEAN
  PROVE  /\ Changed(f, ok) => Transition(f, ok).prev = f.cur
         /\ ~Changed(f, ok) => /\ Transition(f, ok).cur = f.cur
                               /\ Transition(f, ok).prev = f.prev
  BY Zenon DEF Transition, Changed

LEMMA RecordKeepsLoop ==
  ASSUME MonInv, NEW p \in Polls, Record(p)
  PROVE  Apart(p) /\ LoopInv(p)'
<1> DEFINE s == Target[p]
           changed == Changed(fsm[s], poll[p].ok)
           next == IF changed THEN SinkFrom(s, 1) ELSE "idle"
<1>t. /\ s \in Services /\ fsm \in [Services -> ServiceState] /\ poll \in [Polls -> Poll]
      /\ fsm[s] \in ServiceState
  BY MonitorAssumption DEF MonInv, TypeOK
<1>i. LoopInv(p) /\ poll[p].pc = "record" /\ UNCHANGED <<breaker, sinkVars>>
  BY DEF MonInv, Record, At
<1>1. /\ poll'[p].pc = next
      /\ next # "idle" => poll'[p].new = fsm'[s].cur
      /\ \A q \in Polls \ {p} : poll'[q] = poll[q]
      /\ fsm'[s] = Transition(fsm[s], poll[p].ok)
      /\ poll[p].ok \in BOOLEAN
  BY <1>t, RecordMoves
<1>2. fsm'[s].cur # "UNKNOWN"
  BY <1>1, <1>t, NeverUnknownAgain
<1>3. /\ changed => fsm'[s].prev = fsm[s].cur
      /\ ~changed => fsm'[s].cur = fsm[s].cur /\ fsm'[s].prev = fsm[s].prev
  BY <1>1, <1>t, PreviousFollows
<1>4. /\ next \in ChangeSteps => next \in Followed[s]
      /\ next \in {"idle", "store", "publish", "alert"}
      /\ changed /\ "store" \in Followed[s] => next = "store"
      /\ changed /\ "publish" \in Followed[s] => next \in {"store", "publish"}
      /\ changed /\ "alert" \in Followed[s] => next \in ChangeSteps
      /\ ~changed => next = "idle"
  BY <1>t, FirstFollowed DEF ChangeSteps
<1>5. Apart(p)
  BY <1>i, <1>1, <1>t DEF Apart, Record, sinkVars
<1> HIDE DEF changed, next
<1>6. Carries(p)'
  BY <1>1, <1>2, <1>4 DEF Carries, ChangeSteps
<1>7. CircuitTold(p)'
  BY <1>i DEF LoopInv, CircuitTold, sinkVars
<1>8. ~changed => Latest(s)' = Latest(s)
  BY <1>3 DEF Latest
<1>9. StoreTold(p)'
  BY <1>i, <1>1, <1>4, <1>8 DEF LoopInv, StoreTold, sinkVars
<1>10. StreamTold(p)'
  <2>1. "publish" \in Followed[s] => published[s] = Latest(s)
    BY <1>i DEF LoopInv, StreamTold
  <2>2. published' = published
    BY <1>i DEF sinkVars
  <2>3. CASE changed
    BY <1>1, <1>3, <1>4, <2>1, <2>2, <2>3 DEF StreamTold, Latest
  <2>4. CASE ~changed
    BY <1>1, <1>4, <1>8, <2>1, <2>2, <2>4 DEF StreamTold
  <2> QED BY <2>3, <2>4
<1>11. DispatcherTold(p)'
  <2>1. "alert" \in Followed[s] => (lifecycle[s].inBad <=> fsm[s].cur \in Bad)
    BY <1>i DEF LoopInv, DispatcherTold, ChangeSteps
  <2> QED BY <1>i, <1>1, <1>3, <1>4, <2>1 DEF DispatcherTold, sinkVars
<1> QED BY <1>5, <1>6, <1>7, <1>9, <1>10, <1>11 DEF LoopInv

LEMMA SinksKeepLoop ==
  ASSUME MonInv, NEW p \in Polls, Store(p) \/ Publish(p) \/ Alert(p)
  PROVE  Apart(p) /\ LoopInv(p)'
<1> DEFINE s == Target[p]
<1> USE DEF At
<1>t. /\ s \in Services /\ poll \in [Polls -> Poll]
      /\ stored \in [Services -> Change] /\ published \in [Services -> Change]
      /\ lifecycle \in [Services -> Lifecycle]
  BY MonitorAssumption DEF MonInv, TypeOK
<1>i. LoopInv(p)
  BY DEF MonInv
<1>f. UNCHANGED fsm => Latest(s)' = Latest(s)
  BY DEF Latest
\* The poll moves on to the next followed sink, with its new state.
<1>k. ASSUME NEW pc \in {"idle", "publish", "alert"}, Goto(p, pc),
             poll[p].pc \in ChangeSteps, pc # "idle" => pc \in Followed[s],
             UNCHANGED <<fsm, breaker, circuitView>>
      PROVE  /\ Carries(p)' /\ CircuitTold(p)'
             /\ poll'[p].pc = pc /\ \A q \in Polls \ {p} : poll'[q] = poll[q]
  <2>1. /\ poll'[p].pc = pc /\ (pc # "idle" => poll'[p].new = poll[p].new)
        /\ \A q \in Polls \ {p} : poll'[q] = poll[q]
    BY <1>t, <1>k, GotoMoves DEF Pc
  <2>2. Carries(p)'
    BY <1>i, <1>k, <2>1 DEF LoopInv, Carries, ChangeSteps
  <2>3. CircuitTold(p)'
    BY <1>i, <1>k, <2>1 DEF LoopInv, CircuitTold, ChangeSteps
  <2> QED BY <2>1, <2>2, <2>3
<1>1. CASE Store(p)
  <2>1. /\ poll[p].pc = "store" /\ Goto(p, SinkFrom(s, 2))
        /\ stored' = [stored EXCEPT ![s] = Told(p)]
        /\ UNCHANGED <<breaker, fsm, circuitView, published, lifecycle>>
    BY <1>1 DEF Store
  <2>2. /\ SinkFrom(s, 2) \in {"idle", "publish", "alert"}
        /\ SinkFrom(s, 2) # "idle" => SinkFrom(s, 2) \in Followed[s]
        /\ "publish" \in Followed[s] => SinkFrom(s, 2) = "publish"
        /\ "alert" \in Followed[s] => SinkFrom(s, 2) \in ChangeSteps
    BY <1>t, FirstFollowed DEF ChangeSteps
  <2>3. /\ Carries(p)' /\ CircuitTold(p)'
        /\ poll'[p].pc = SinkFrom(s, 2) /\ \A q \in Polls \ {p} : poll'[q] = poll[q]
    BY <1>k, <2>1, <2>2 DEF ChangeSteps
  <2>4. stored'[s] = Latest(s)'
    BY <1>f, <1>t, <2>1, ToldLatest DEF ChangeSteps
  <2>5. StoreTold(p)'
    BY <2>4 DEF StoreTold
  <2>6. StreamTold(p)'
    BY <1>i, <2>1, <2>2, <2>3 DEF LoopInv, StreamTold
  <2>7. DispatcherTold(p)'
    BY <2>2, <2>3 DEF DispatcherTold
  <2>8. Apart(p)
    BY <1>t, <2>1, <2>3 DEF Apart
  <2> QED BY <2>3, <2>5, <2>6, <2>7, <2>8 DEF LoopInv
<1>2. CASE Publish(p)
  <2>1. /\ poll[p].pc = "publish" /\ Goto(p, SinkFrom(s, 3))
        /\ published' = [published EXCEPT ![s] = Told(p)]
        /\ UNCHANGED <<breaker, fsm, circuitView, stored, lifecycle>>
    BY <1>2 DEF Publish
  <2>2. /\ SinkFrom(s, 3) \in {"idle", "alert"}
        /\ SinkFrom(s, 3) # "idle" => SinkFrom(s, 3) \in Followed[s]
        /\ "alert" \in Followed[s] => SinkFrom(s, 3) \in ChangeSteps
    BY <1>t, FirstFollowed DEF ChangeSteps
  <2>3. /\ Carries(p)' /\ CircuitTold(p)'
        /\ poll'[p].pc = SinkFrom(s, 3) /\ \A q \in Polls \ {p} : poll'[q] = poll[q]
    BY <1>k, <2>1, <2>2 DEF ChangeSteps
  <2>4. published'[s] = Latest(s)'
    BY <1>f, <1>t, <2>1, ToldLatest DEF ChangeSteps
  <2>5. StoreTold(p)'
    BY <1>f, <1>i, <2>1 DEF LoopInv, StoreTold
  <2>6. StreamTold(p)'
    BY <2>2, <2>3, <2>4 DEF StreamTold
  <2>7. DispatcherTold(p)'
    BY <2>2, <2>3 DEF DispatcherTold
  <2>8. Apart(p)
    BY <1>t, <2>1, <2>3 DEF Apart
  <2> QED BY <2>3, <2>5, <2>6, <2>7, <2>8 DEF LoopInv
<1>3. CASE Alert(p)
  <2>1. /\ poll[p].pc = "alert" /\ Goto(p, "idle")
        /\ lifecycle' = [lifecycle EXCEPT ![s] = AfterSelect(lifecycle[s], poll[p].new)]
        /\ UNCHANGED <<breaker, fsm, circuitView, stored, published>>
    BY <1>3 DEF Alert
  <2>2. /\ Carries(p)' /\ CircuitTold(p)'
        /\ poll'[p].pc = "idle" /\ \A q \in Polls \ {p} : poll'[q] = poll[q]
    BY <1>k, <2>1 DEF ChangeSteps
  <2>3. lifecycle'[s].inBad <=> fsm'[s].cur \in Bad
    <3>1. /\ poll[p].new = fsm[s].cur /\ poll[p].new # "UNKNOWN"
      BY <1>i, <2>1 DEF LoopInv, Carries, ChangeSteps
    <3>2. poll[p].new \in State
      BY <1>t DEF Poll
    <3>3. lifecycle'[s] = AfterSelect(lifecycle[s], poll[p].new)
      BY <1>t, <2>1
    <3> QED BY <1>t, <2>1, <3>1, <3>2, <3>3, DecisionFollowsState
  <2>4. StoreTold(p)'
    BY <1>f, <1>i, <2>1 DEF LoopInv, StoreTold
  <2>5. StreamTold(p)'
    BY <1>f, <1>i, <2>1, <2>2 DEF LoopInv, StreamTold
  <2>6. DispatcherTold(p)'
    BY <2>3 DEF DispatcherTold
  <2>7. Apart(p)
    BY <1>t, <2>1, <2>2 DEF Apart
  <2> QED BY <2>2, <2>4, <2>5, <2>6, <2>7 DEF LoopInv
<1> QED BY <1>1, <1>2, <1>3

LEMMA MonInvStep ==
  ASSUME OneLoopEach, MonInv, [Next]_vars
  PROVE  MonInv'
<1>t. TypeOK /\ TypeOK'
  BY TypeStep DEF MonInv
<1>1. ASSUME NEW p \in Polls, PollStep(p) PROVE MonInv'
  <2>1. Apart(p) /\ LoopInv(p)'
    BY <1>1, ChecksKeepLoop, RecordKeepsLoop, SinksKeepLoop DEF PollStep
  <2> QED BY <1>t, <2>1, OthersKeep
\* Time, the services and a stutter leave all that MonInv speaks of.
<1>k. ASSUME UNCHANGED <<fsm, poll, sinkVars>>,
             \A s \in Services : breaker'[s].state = breaker[s].state
      PROVE  MonInv'
  <2>1. ASSUME NEW p \in Polls PROVE LoopInv(p)'
    <3>1. LoopInv(p) /\ breaker'[Target[p]].state = breaker[Target[p]].state
      BY <1>k, MonitorAssumption DEF MonInv
    <3>2. UNCHANGED <<fsm, poll, circuitView, stored, published, lifecycle>>
      BY <1>k DEF sinkVars
    <3>3. Carries(p)' /\ CircuitTold(p)'
      BY <3>1, <3>2 DEF LoopInv, Carries, CircuitTold
    <3>4. StoreTold(p)' /\ StreamTold(p)' /\ DispatcherTold(p)'
      BY <3>1, <3>2 DEF LoopInv, StoreTold, StreamTold, DispatcherTold, Latest
    <3> QED BY <3>3, <3>4 DEF LoopInv
  <2>2. ASSUME NEW s \in Services, \A p \in Polls : Target[p] # s PROVE Untouched(s)'
    <3>1. Untouched(s)
      BY <2>2 DEF MonInv
    <3> QED BY <1>k, <3>1 DEF Untouched, Latest, sinkVars
  <2> QED BY <1>t, <2>1, <2>2 DEF MonInv
<1>2. ASSUME Tick PROVE MonInv'
  <2>1. \A s \in Services : breaker'[s].state = breaker[s].state
    BY <1>2, <1>t, BreakerClosed DEF Tick, TypeOK
  <2> QED BY <1>2, <1>k, <2>1 DEF Tick
<1>3. ASSUME NEW s \in Services, Flip(s) PROVE MonInv'
  BY <1>3, <1>k DEF Flip
<1>4. ASSUME UNCHANGED vars PROVE MonInv'
  BY <1>4, <1>k DEF vars
<1> QED BY <1>1, <1>2, <1>3, <1>4 DEF Next

LEMMA MonInvHolds ==
  ASSUME OneLoopEach
  PROVE  Spec => []MonInv
<1>1. MonInv /\ [Next]_vars => MonInv'
  BY MonInvStep
<1> QED BY <1>1, MonInvInit, PTL DEF Spec

-----------------------------------------------------------------------------

\* Between two polls of a service the database, the stream and the dispatcher
\* were told the transition its state machine last made, whatever the other
\* services do meanwhile (state_manager.go:71-138).
THEOREM SinksFollowTheState ==
  ASSUME OneLoopEach
  PROVE  Spec => []SinksAgree
<1>1. ASSUME MonInv PROVE SinksAgree
  <2> SUFFICES ASSUME NEW s \in Services, Quiet(s), Followed[s] = Sinks
               PROVE  /\ stored[s] = Latest(s)
                      /\ published[s] = Latest(s)
                      /\ lifecycle[s].inBad <=> fsm[s].cur \in Bad
    BY DEF SinksAgree, Latest
  <2>1. CASE \A p \in Polls : Target[p] # s
    BY <1>1, <2>1 DEF MonInv, Untouched
  <2>2. CASE \E p \in Polls : Target[p] = s
    <3>1. PICK p \in Polls : Target[p] = s
      BY <2>2
    <3>2. LoopInv(p) /\ poll[p].pc = "idle"
      BY <1>1, <3>1 DEF MonInv, Quiet, At
    <3> QED BY <3>1, <3>2 DEF LoopInv, StoreTold, StreamTold, DispatcherTold, ChangeSteps, Sinks
  <2> QED BY <2>1, <2>2
<1> QED BY <1>1, MonInvHolds, PTL

\* Between two polls of a service the last circuit event carries the state its
\* breaker is in (poller.go:194-203, 246-252).
THEOREM CircuitEventIsLast ==
  ASSUME OneLoopEach
  PROVE  Spec => []CircuitViewAgrees
<1>1. ASSUME MonInv PROVE CircuitViewAgrees
  <2> SUFFICES ASSUME NEW s \in Services, Quiet(s), "circuit" \in Followed[s]
               PROVE  circuitView[s] = breaker[s].state
    BY DEF CircuitViewAgrees
  <2>1. CASE \A p \in Polls : Target[p] # s
    BY <1>1, <2>1 DEF MonInv, Untouched
  <2>2. CASE \E p \in Polls : Target[p] = s
    <3>1. PICK p \in Polls : Target[p] = s
      BY <2>2
    <3>2. LoopInv(p) /\ poll[p].pc = "idle"
      BY <1>1, <3>1 DEF MonInv, Quiet, At
    <3> QED BY <3>1, <3>2 DEF LoopInv, CircuitTold
  <2> QED BY <2>1, <2>2
<1> QED BY <1>1, MonInvHolds, PTL

\* Every event on the stream starts in the state the one before it ended in:
\* no transition is skipped, repeated or out of order
\* (state_manager.go:119-128).
THEOREM StreamIsAChain ==
  ASSUME OneLoopEach
  PROVE  Spec => EventsChain
<1>1. ASSUME MonInv, [Next]_vars, NEW s \in Services, published'[s] # published[s]
      PROVE  published'[s].from = published[s].to
  <2>t. published \in [Services -> Change]
    BY <1>1 DEF MonInv, TypeOK
  <2>1. PICK p \in Polls : Publish(p)
    <3>1. \A p \in Polls : PollStep(p) => Publish(p) \/ UNCHANGED published
      BY DEF PollStep, Gate, Check, LookAtDependency, FeedBreaker, TakeSnapshot,
             PublishCircuit, Record, Store, Alert, sinkVars
    <3>2. /\ Tick => UNCHANGED published
          /\ \A t \in Services : Flip(t) => UNCHANGED published
          /\ UNCHANGED vars => UNCHANGED published
      BY DEF Tick, Flip, vars, sinkVars
    <3> QED BY <1>1, <3>1, <3>2 DEF Next
  <2>2. /\ poll[p].pc = "publish"
        /\ published' = [published EXCEPT ![Target[p]] = Told(p)]
    BY <2>1 DEF Publish, At
  <2>3. Target[p] = s /\ published'[s] = Told(p)
    BY <1>1, <2>t, <2>2, MonitorAssumption
  <2>4. published[s].to = fsm[s].prev
    BY <1>1, <2>2, <2>3 DEF MonInv, LoopInv, Carries, StreamTold, ChangeSteps
  <2> QED BY <2>3, <2>4 DEF Told
<1>2. MonInv /\ [Next]_vars
        => [\A s \in Services :
              published'[s] # published[s] => published'[s].from = published[s].to]_vars
  BY <1>1
<1> QED BY <1>2, MonInvHolds, PTL DEF Spec, EventsChain
=============================================================================
