------------------------ MODULE AlertLifecycle_proofs ------------------------
(***************************************************************************)
(* Module AlertLifecycle keeps the promise of OutageNotice, for all        *)
(* channels, rules, intervals and timeouts, with escalation and without:   *)
(* IInv says that the lifecycle is what the decision needs to remember,    *)
(* MemInv what it remembers of the outage and how old the sends are, and   *)
(* Heard, if a send is over before the next result, what the readers see.  *)
(***************************************************************************)
EXTENDS AlertLifecycle, HealthFSM_proofs

\* Every result leads to a state the decision knows.
LEMMA ResultIsBadOrRecovered ==
  ASSUME NEW s \in ServiceState, NEW ok \in BOOLEAN
  PROVE  Transition(s, ok).cur \in Bad \cup Recovered
<1>1. State \ {"UNKNOWN"} = Bad \cup Recovered
  BY DEF State, Bad, Recovered
<1> QED BY <1>1, NeverUnknownAgain

\* What one decision does: it opens or extends the lifecycle by the channels it
\* selects, or closes it and selects the channels it had (dispatcher.go:145-183).
LEMMA DecisionKeepsTrack ==
  ASSUME NEW lc \in Lifecycle, NEW st \in Bad \cup Recovered,
         ~lc.inBad => lc = NoLifecycle
  PROVE  /\ AfterSelect(lc, st) \in Lifecycle
         /\ AfterSelect(lc, st).inBad <=> st \in Bad
         /\ st \notin Bad => AfterSelect(lc, st) = NoLifecycle
         /\ st \in Bad => AfterSelect(lc, st).active = lc.active \cup SelectChannels(lc, st)
         /\ st \notin Bad => SelectChannels(lc, st) = lc.active
<1>1. /\ lc.active \subseteq Channels
      /\ lc.inBad \in BOOLEAN
      /\ st \in State
      /\ StateRules[st] \subseteq Channels
  BY DispatcherAssumption DEF Lifecycle, Bad, Recovered, State
<1>2. st \in Bad <=> st \notin Recovered
  BY DEF Bad, Recovered
<1> DEFINE opened ==
      [inBad |-> TRUE, badState |-> st, active |-> lc.active \cup StateRules[st]]
<1>3. opened \in Lifecycle /\ opened.inBad /\ opened.active = lc.active \cup StateRules[st]
  <2>1. lc.active \cup StateRules[st] \in SUBSET Channels
    BY <1>1
  <2> QED BY <1>1, <2>1 DEF Lifecycle
<1>4. AfterSelect(lc, st) =
        IF Onset(lc, st) \/ Escalation(lc, st) THEN opened
        ELSE IF Recovery(lc, st) THEN NoLifecycle ELSE lc
  BY DEF AfterSelect
<1> HIDE DEF opened
<1>5. CASE Onset(lc, st)
  <2>1. st \in Bad /\ lc = NoLifecycle
    BY <1>5 DEF Onset
  <2>2. SelectChannels(lc, st) = StateRules[st]
    BY <1>5 DEF SelectChannels
  <2> QED BY <1>3, <1>4, <1>5, <2>1, <2>2, Zenon
<1>6. CASE ~Onset(lc, st) /\ Escalation(lc, st)
  <2>1. st \in Bad
    BY <1>6 DEF Escalation
  <2>2. SelectChannels(lc, st) = lc.active \cup StateRules[st]
    BY <1>6 DEF SelectChannels
  <2>3. lc.active \cup SelectChannels(lc, st) = lc.active \cup StateRules[st]
    BY <2>2
  <2> QED BY <1>3, <1>4, <1>6, <2>1, <2>3, Zenon
<1>7. CASE st \in Bad /\ ~Onset(lc, st) /\ ~Escalation(lc, st)
  <2>1. lc.inBad /\ ~Recovery(lc, st)
    BY <1>2, <1>7 DEF Onset, Recovery
  <2>2. SelectChannels(lc, st) = {}
    BY <1>7, <2>1 DEF SelectChannels
  <2>3. lc.active = lc.active \cup SelectChannels(lc, st)
    BY <2>2
  <2> QED BY <1>4, <1>7, <2>1, <2>3, Zenon
<1>8. CASE st \notin Bad
  <2>1. ~Onset(lc, st) /\ ~Escalation(lc, st)
    BY <1>8 DEF Onset, Escalation
  <2>2. Recovery(lc, st) <=> lc.inBad
    BY <1>2, <1>8 DEF Recovery
  <2>3. AfterSelect(lc, st) = NoLifecycle
    BY <1>4, <2>1, <2>2, Zenon
  <2>4. NoLifecycle \in Lifecycle /\ ~NoLifecycle.inBad /\ NoLifecycle.active = {}
    BY DEF NoLifecycle, Lifecycle
  <2>5. SelectChannels(lc, st) = lc.active
    BY <1>2, <1>8, <2>1, <2>2, <2>4, Zenon DEF SelectChannels
  <2> QED BY <1>8, <2>3, <2>4, <2>5, Zenon
<1> QED BY <1>5, <1>6, <1>7, <1>8, Zenon

-----------------------------------------------------------------------------

Alerted == {ch \in Enabled : told[ch] \in Bad}

IInv == TypeOK /\ LifecycleInv

\* What dispatching a transition does to the lifecycle and to the readers.
LEMMA DispatchKeepsTrack ==
  ASSUME IInv, NEW ok \in BOOLEAN, Dispatch(Transition(fsm, ok).cur),
         fsm' = Transition(fsm, ok)
  PROVE  /\ lifecycle' \in Lifecycle
         /\ told' \in [Enabled -> Notice]
         /\ sends' \in SUBSET Send
         /\ lifecycle'.inBad <=> fsm'.cur \in Bad
         /\ ~lifecycle'.inBad => lifecycle' = NoLifecycle
         /\ \A ch \in Enabled : told'[ch] \in Bad <=> ch \in lifecycle'.active
         /\ fsm'.cur \in Bad => Alerted \subseteq Alerted'
         /\ fsm'.cur \notin Bad => Alerted' = {}
<1> DEFINE st == Transition(fsm, ok).cur
           to == SelectChannels(lifecycle, st) \cap Enabled
<1>1. st \in Bad \cup Recovered /\ st \in State /\ fsm'.cur = st
  BY ResultIsBadOrRecovered, TransitionTyped DEF IInv, TypeOK, ServiceState
<1>2. lifecycle \in Lifecycle /\ (~lifecycle.inBad => lifecycle = NoLifecycle)
  BY DEF IInv, TypeOK, LifecycleInv
<1>3. \A ch \in Enabled : told[ch] \in Bad <=> ch \in lifecycle.active
  BY DEF IInv, LifecycleInv
<1>4. /\ lifecycle' = AfterSelect(lifecycle, st)
      /\ sends' = sends \cup [ch : to, st : {st}, age : {0}]
      /\ told' = [ch \in Enabled |-> IF ch \in to THEN st ELSE told[ch]]
  BY DEF Dispatch
<1>5. /\ told \in [Enabled -> Notice] /\ sends \in SUBSET Send
  BY DEF IInv, TypeOK
<1> HIDE DEF st
<1>6. /\ lifecycle' \in Lifecycle
      /\ lifecycle'.inBad <=> st \in Bad
      /\ st \notin Bad => lifecycle' = NoLifecycle
      /\ st \in Bad => lifecycle'.active = lifecycle.active \cup SelectChannels(lifecycle, st)
      /\ st \notin Bad => SelectChannels(lifecycle, st) = lifecycle.active
  BY <1>1, <1>2, <1>4, DecisionKeepsTrack
<1>7. NoLifecycle.active = {}
  BY DEF NoLifecycle
<1>8. told' \in [Enabled -> Notice]
  BY <1>1, <1>4, <1>5 DEF Notice
<1>9. sends' \in SUBSET Send
  <2>1. [ch : to, st : {st}, age : {0}] \subseteq Send
    BY <1>1, TimingAssumption DEF Send
  <2> QED BY <1>4, <1>5, <2>1
<1>10. ASSUME NEW ch \in Enabled PROVE told'[ch] \in Bad <=> ch \in lifecycle'.active
  <2>1. told'[ch] = IF ch \in to THEN st ELSE told[ch]
    BY <1>4
  <2>2. CASE st \in Bad
    BY <1>3, <1>6, <2>1, <2>2
  <2>3. CASE st \notin Bad
    BY <1>3, <1>6, <1>7, <2>1, <2>3
  <2> QED BY <2>2, <2>3
<1>11. st \in Bad => Alerted \subseteq Alerted'
  BY <1>3, <1>6, <1>10 DEF Alerted
<1>12. st \notin Bad => Alerted' = {}
  BY <1>6, <1>7, <1>10 DEF Alerted
<1> QED BY <1>1, <1>6, <1>8, <1>9, <1>10, <1>11, <1>12, Zenon

LEMMA IInvInit == Init => IInv
<1> SUFFICES ASSUME Init PROVE IInv
  OBVIOUS
<1>1. TypeOK
  <2>1. NewServiceState \in ServiceState
    BY DEF NewServiceState, ServiceState, State, MaxFails, MaxOK
  <2>2. NoLifecycle \in Lifecycle
    BY DEF NoLifecycle, Lifecycle
  <2>3. sincePoll \in 0 .. Interval
    <3>1. sincePoll = 0
      BY DEF Init
    <3> QED BY <3>1, TimingAssumption
  <2>4. "" \in Notice
    BY DEF Notice
  <2> QED BY <2>1, <2>2, <2>3, <2>4 DEF Init, TypeOK
<1>2. LifecycleInv
  <2>1. fsm.cur \notin Bad /\ "" \notin Bad
    BY DEF Init, NewServiceState, Bad
  <2>2. ~NoLifecycle.inBad /\ NoLifecycle.active = {}
    BY DEF NoLifecycle
  <2>3. lifecycle = NoLifecycle /\ told = [ch \in Enabled |-> ""]
    BY DEF Init
  <2> QED BY <2>1, <2>2, <2>3 DEF LifecycleInv
<1> QED BY <1>1, <1>2 DEF IInv

\* Each step keeps the invariant, and maps to a step of the promise.
LEMMA IInvStep ==
  ASSUME IInv, [Next]_vars
  PROVE  /\ IInv'
         /\ \/ Promise!Next
            \/ UNCHANGED <<fsm.cur \in Bad, Alerted>>
<1>1. ASSUME NEW ok \in BOOLEAN, Poll(ok)
      PROVE  /\ IInv'
             /\ \/ Promise!Next
                \/ UNCHANGED <<fsm.cur \in Bad, Alerted>>
  <2>1. /\ fsm' = Transition(fsm, ok) /\ sincePoll' = 0
        /\ UNCHANGED <<shown, lost>>
    BY <1>1 DEF Poll
  <2>2. fsm' \in ServiceState
    BY <2>1, TransitionTyped DEF IInv, TypeOK
  <2>3. sincePoll' \in 0 .. Interval
    BY <2>1, TimingAssumption
  <2>4. CASE Changed(fsm, ok)
    <3>1. Dispatch(Transition(fsm, ok).cur)
      BY <1>1, <2>4 DEF Poll
    <3>2. /\ lifecycle' \in Lifecycle
          /\ told' \in [Enabled -> Notice]
          /\ sends' \in SUBSET Send
          /\ lifecycle'.inBad <=> fsm'.cur \in Bad
          /\ ~lifecycle'.inBad => lifecycle' = NoLifecycle
          /\ \A ch \in Enabled : told'[ch] \in Bad <=> ch \in lifecycle'.active
          /\ fsm'.cur \in Bad => Alerted \subseteq Alerted'
          /\ fsm'.cur \notin Bad => Alerted' = {}
      BY <2>1, <3>1, DispatchKeepsTrack
    <3>3. TypeOK'
      BY <2>1, <2>2, <2>3, <3>2 DEF IInv, TypeOK
    <3>4. LifecycleInv'
      BY <3>2 DEF LifecycleInv
    <3>5. Alerted' \in SUBSET Enabled
      BY DEF Alerted
    <3>6. fsm.cur \notin Bad => Alerted = {}
      <4>1. NoLifecycle.active = {}
        BY DEF NoLifecycle
      <4>2. fsm.cur \notin Bad => lifecycle.active = {}
        BY <4>1, Zenon DEF IInv, LifecycleInv
      <4> QED BY <4>2 DEF IInv, LifecycleInv, Alerted
    <3>7. IInv'
      BY <3>3, <3>4 DEF IInv
    <3>8. CASE fsm.cur \notin Bad /\ fsm'.cur \in Bad
      <4>1. Promise!Begin
        BY <3>5, <3>8 DEF Promise!Begin, Alerted
      <4> QED BY <3>7, <4>1 DEF Promise!Next
    <3>9. CASE fsm.cur \in Bad /\ fsm'.cur \in Bad
      <4>1. Promise!Worsen
        BY <3>2, <3>5, <3>9 DEF Promise!Worsen, Alerted
      <4> QED BY <3>7, <4>1 DEF Promise!Next
    <3>10. CASE fsm.cur \in Bad /\ fsm'.cur \notin Bad
      <4>1. Promise!End
        BY <3>2, <3>10 DEF Promise!End, Alerted
      <4> QED BY <3>7, <4>1 DEF Promise!Next
    <3>11. CASE fsm.cur \notin Bad /\ fsm'.cur \notin Bad
      <4>1. (fsm.cur \in Bad)' = (fsm.cur \in Bad) /\ Alerted' = Alerted
        BY <3>2, <3>6, <3>11
      <4> QED BY <3>7, <4>1
    <3> QED BY <3>8, <3>9, <3>10, <3>11
  <2>5. CASE ~Changed(fsm, ok)
    <3>1. UNCHANGED <<lifecycle, sends, told>>
      BY <1>1, <2>5 DEF Poll
    <3>2. fsm'.cur = fsm.cur
      BY <2>1, <2>5 DEF Changed
    <3>3. TypeOK'
      BY <2>1, <2>2, <2>3, <3>1 DEF IInv, TypeOK
    <3>4. LifecycleInv'
      BY <3>1, <3>2 DEF IInv, LifecycleInv
    <3> QED BY <3>1, <3>2, <3>3, <3>4 DEF IInv, Alerted
  <2> QED BY <2>4, <2>5
<1>2. ASSUME NEW s \in sends, Deliver(s) \/ FailSend(s)
      PROVE  IInv' /\ UNCHANGED <<fsm, told>>
  <2>1. UNCHANGED <<fsm, lifecycle, sincePoll, told>> /\ sends' = sends \ {s}
    BY <1>2 DEF Deliver, FailSend
  <2>2. s.ch \in Enabled /\ s.st \in Notice
    BY DEF IInv, TypeOK, Send, Notice
  <2>3. shown' \in [Enabled -> Notice] /\ lost' \in SUBSET Enabled
    BY <1>2, <2>2 DEF IInv, TypeOK, Deliver, FailSend
  <2>4. TypeOK'
    BY <2>1, <2>3 DEF IInv, TypeOK
  <2>5. LifecycleInv'
    BY <2>1 DEF IInv, LifecycleInv
  <2> QED BY <2>1, <2>4, <2>5 DEF IInv
<1>3. ASSUME Tick PROVE IInv' /\ UNCHANGED <<fsm, told>>
  <2>1. UNCHANGED <<fsm, lifecycle, shown, told, lost>>
    BY <1>3 DEF Tick
  <2>2. sincePoll' \in 0 .. Interval
    BY <1>3, TimingAssumption DEF Tick, IInv, TypeOK, CountTo
  <2>3. ASSUME NEW s \in sends
        PROVE  [ch |-> s.ch, st |-> s.st, age |-> s.age + 1] \in Send
    <3>1. s.ch \in Enabled /\ s.st \in State /\ s.age \in 0 .. SendTimeout
      BY DEF IInv, TypeOK, Send
    <3>2. s.age + 1 \in 0 .. SendTimeout
      BY <1>3, <3>1, TimingAssumption DEF Tick
    <3> QED BY <3>1, <3>2 DEF Send
  <2>4. sends' \in SUBSET Send
    BY <1>3, <2>3 DEF Tick
  <2>5. TypeOK'
    BY <2>1, <2>2, <2>4 DEF IInv, TypeOK
  <2>6. LifecycleInv'
    BY <2>1 DEF IInv, LifecycleInv
  <2> QED BY <2>1, <2>5, <2>6 DEF IInv
<1>4. ASSUME UNCHANGED vars PROVE IInv' /\ UNCHANGED <<fsm, told>>
  BY <1>4 DEF vars, IInv, TypeOK, LifecycleInv
<1>5. UNCHANGED <<fsm, told>> => UNCHANGED <<fsm.cur \in Bad, Alerted>>
  BY DEF Alerted
<1> QED BY <1>1, <1>2, <1>3, <1>4, <1>5 DEF Next

LEMMA IInvHolds == Spec => []IInv
<1>1. IInv /\ [Next]_vars => IInv'
  BY IInvStep
<1> QED BY <1>1, IInvInit, PTL DEF Spec

\* The model's variables keep their types.
THEOREM AlertsTypeCorrect == Spec => []TypeOK
<1>1. IInv => TypeOK
  BY DEF IInv
<1> QED BY <1>1, IInvHolds, PTL

\* Each state stands for the run of results that leads to it, for ever
\* (state.go:127-232).
THEOREM StatesAreEarned == Spec => []StateIsEarned
<1>1. Init => StateIsEarned
  <2>1. StateMatchesRun(NewServiceState)
    BY DEF StateMatchesRun, NewServiceState
  <2> QED BY <2>1, Zenon DEF Init, StateIsEarned
<1>2. IInv /\ StateIsEarned /\ [Next]_vars => StateIsEarned'
  <2> SUFFICES ASSUME IInv, StateIsEarned, [Next]_vars PROVE StateIsEarned'
    OBVIOUS
  <2>1. ASSUME NEW ok \in BOOLEAN, Poll(ok) PROVE StateIsEarned'
    <3>1. fsm' = Transition(fsm, ok) /\ fsm \in ServiceState /\ StateMatchesRun(fsm)
      BY <2>1 DEF Poll, IInv, TypeOK, StateIsEarned
    <3>2. StateMatchesRun(Transition(fsm, ok))
      BY <3>1, StateMatchesRunInductive
    <3> QED BY <3>1, <3>2, Zenon DEF StateIsEarned
  <2>2. ASSUME UNCHANGED fsm PROVE StateIsEarned'
    BY <2>2, Zenon DEF StateIsEarned
  <2> QED BY <2>1, <2>2 DEF Next, Deliver, FailSend, Tick, vars
<1> QED BY <1>1, <1>2, IInvHolds, PTL DEF Spec

\* The dispatcher's lifecycle is open exactly during an outage, and names
\* exactly the channels whose last notice was about it.
THEOREM LifecycleIsMemory == Spec => []LifecycleInv
<1>1. IInv => LifecycleInv
  BY DEF IInv
<1> QED BY <1>1, IInvHolds, PTL

\* Suppression never leaves a channel behind: the alerts of a service
\* implement the promise of OutageNotice (dispatcher.go:145-183).
THEOREM AlertsKeepPromise == Spec => KeepsPromise
<1>1. Init => Promise!Init
  <2>1. "" \notin Bad /\ NewServiceState.cur \notin Bad
    BY DEF NewServiceState, Bad
  <2>2. Init => fsm.cur \notin Bad /\ \A ch \in Enabled : told[ch] \notin Bad
    BY <2>1 DEF Init
  <2> QED BY <2>2 DEF Promise!Init
<1>2. IInv /\ [Next]_vars => [Promise!Next]_(Promise!vars)
  BY IInvStep DEF Promise!vars, Alerted
<1> QED BY <1>1, <1>2, IInvHolds, PTL DEF Spec, KeepsPromise, Promise!Spec

-----------------------------------------------------------------------------

\* An outage only ever gets worse until it ends (state.go:171-232).
LEMMA OutageOnlyWorsens ==
  ASSUME NEW s \in ServiceState, NEW ok \in BOOLEAN,
         s.cur \in Bad, Changed(s, ok), Transition(s, ok).cur \in Bad
  PROVE  severity(Transition(s, ok).cur) > severity(s.cur)
<1>1. ok = FALSE
  <2>1. Transition(s, TRUE).cur \in Bad => Transition(s, TRUE).cur = s.cur
    BY OnSuccess DEF Bad
  <2> QED BY <2>1, Zenon DEF Changed
<1>2. /\ s.cur = "DEGRADED" => Transition(s, FALSE).cur \in {"UNHEALTHY", "DEGRADED"}
      /\ s.cur = "UNHEALTHY" => Transition(s, FALSE).cur \in {"DEAD", "UNHEALTHY"}
      /\ s.cur = "DEAD" => Transition(s, FALSE).cur = "DEAD"
  BY OnFailure
<1>3. Transition(s, FALSE).cur # s.cur
  BY <1>1, Zenon DEF Changed
<1>4. severity("DEGRADED") = 1 /\ severity("UNHEALTHY") = 2 /\ severity("DEAD") = 3
  BY DEF severity
<1>5. ASSUME NEW a \in Bad, NEW b, a # b,
             /\ a = "DEGRADED" => b \in {"UNHEALTHY", "DEGRADED"}
             /\ a = "UNHEALTHY" => b \in {"DEAD", "UNHEALTHY"}
             /\ a = "DEAD" => b = "DEAD"
      PROVE  severity(b) > severity(a)
  BY <1>4, <1>5 DEF Bad
<1>6. severity(Transition(s, FALSE).cur) > severity(s.cur)
  BY <1>2, <1>3, <1>5
<1> QED BY <1>1, <1>6, Zenon

LEMMA SeverityIsNat == ASSUME NEW st PROVE severity(st) \in Nat
BY DEF severity

\* What the dispatcher remembers of the outage: the state of the last
\* announcement, no milder than any channel was told and no worse than the
\* service is; with escalation it is the service's own state, and everyone
\* its rules name has been selected.
LifecycleFollows ==
  lifecycle.inBad =>
    /\ lifecycle.badState \in Bad
    /\ severity(lifecycle.badState) <= severity(fsm.cur)
    /\ \A ch \in Enabled : told[ch] \in Bad =>
         severity(told[ch]) <= severity(lifecycle.badState)
    /\ Escalate => /\ lifecycle.badState = fsm.cur
                   /\ StateRules[fsm.cur] \subseteq lifecycle.active

\* No send is younger than the last result.
SendsAge == \A s \in sends : s.age >= sincePoll

MemInv == LifecycleFollows /\ SendsAge

\* What one decision remembers (dispatcher.go:145-183).
LEMMA DecisionRemembers ==
  ASSUME NEW lc \in Lifecycle, NEW st \in Bad
  PROVE  \/ /\ AfterSelect(lc, st).inBad
            /\ AfterSelect(lc, st).badState = st
            /\ StateRules[st] \subseteq AfterSelect(lc, st).active
            /\ lc.inBad => Escalate /\ severity(st) > severity(lc.badState)
         \/ /\ lc.inBad /\ ~(Escalate /\ severity(st) > severity(lc.badState))
            /\ AfterSelect(lc, st) = lc
            /\ SelectChannels(lc, st) = {}
<1>1. lc.inBad \in BOOLEAN /\ st \notin Recovered
  <2>1. lc.inBad \in BOOLEAN
    BY Zenon DEF Lifecycle
  <2>2. st \notin Recovered
    BY DEF Bad, Recovered
  <2> QED BY <2>1, <2>2
<1> DEFINE opened ==
      [inBad |-> TRUE, badState |-> st, active |-> lc.active \cup StateRules[st]]
<1>2. opened.inBad /\ opened.badState = st /\ StateRules[st] \subseteq opened.active
  OBVIOUS
<1>3. AfterSelect(lc, st) =
        IF Onset(lc, st) \/ Escalation(lc, st) THEN opened
        ELSE IF Recovery(lc, st) THEN NoLifecycle ELSE lc
  BY DEF AfterSelect
<1> HIDE DEF opened
<1>4. CASE Onset(lc, st) \/ Escalation(lc, st)
  <2>1. AfterSelect(lc, st) = opened
    BY <1>3, <1>4
  <2>2. lc.inBad => Escalate /\ severity(st) > severity(lc.badState)
    BY <1>4, Zenon DEF Onset, Escalation, isWorsening
  <2> QED BY <1>2, <2>1, <2>2, Zenon
<1>5. CASE ~Onset(lc, st) /\ ~Escalation(lc, st)
  <2>1. ~Recovery(lc, st)
    BY <1>1, Zenon DEF Recovery
  <2>2. AfterSelect(lc, st) = lc
    BY <1>3, <1>5, <2>1, Zenon
  <2>3. lc.inBad /\ ~(Escalate /\ severity(st) > severity(lc.badState))
    BY <1>1, <1>5, Zenon DEF Onset, Escalation, isWorsening
  <2>4. SelectChannels(lc, st) = {}
    BY <1>5, <2>1 DEF SelectChannels
  <2> QED BY <2>2, <2>3, <2>4, Zenon
<1> QED BY <1>4, <1>5, Zenon

LEMMA NothingOpen == ~NoLifecycle.inBad /\ NoLifecycle.active = {}
BY DEF NoLifecycle

LEMMA MemInvInit == Init => MemInv
<1>1. Init => ~lifecycle.inBad /\ sends = {}
  BY NothingOpen, Zenon DEF Init
<1> QED BY <1>1 DEF MemInv, LifecycleFollows, SendsAge

\* A changed result keeps the memory: what is not announced is no worse than
\* what was.
LEMMA DispatchRemembers ==
  ASSUME IInv, LifecycleFollows, NEW ok \in BOOLEAN, Changed(fsm, ok),
         fsm' = Transition(fsm, ok), Dispatch(Transition(fsm, ok).cur)
  PROVE  LifecycleFollows'
<1> DEFINE st == Transition(fsm, ok).cur
           to == SelectChannels(lifecycle, st) \cap Enabled
<1>1. /\ lifecycle' = AfterSelect(lifecycle, st)
      /\ told' = [ch \in Enabled |-> IF ch \in to THEN st ELSE told[ch]]
      /\ fsm'.cur = st
  BY DEF Dispatch
<1>2. st \in Bad \cup Recovered /\ fsm \in ServiceState /\ lifecycle \in Lifecycle
  BY ResultIsBadOrRecovered DEF IInv, TypeOK
<1>3. lifecycle.inBad <=> fsm.cur \in Bad
  BY DEF IInv, LifecycleInv
<1>4. ~lifecycle.inBad => lifecycle = NoLifecycle
  BY DEF IInv, LifecycleInv
<1>5. \A ch \in Enabled : told[ch] \in Bad <=> ch \in lifecycle.active
  BY DEF IInv, LifecycleInv
<1>6. fsm.cur \in Bad /\ st \in Bad => severity(st) > severity(fsm.cur)
  BY <1>2, OutageOnlyWorsens
<1> HIDE DEF st
<1>7. CASE st \notin Bad
  <2>1. ~lifecycle'.inBad
    BY <1>1, <1>2, <1>4, <1>7, DecisionKeepsTrack
  <2> QED BY <2>1 DEF LifecycleFollows
<1>8. CASE st \in Bad /\ lifecycle.inBad
  <2>1. /\ lifecycle.badState \in Bad
        /\ severity(lifecycle.badState) <= severity(fsm.cur)
        /\ \A ch \in Enabled : told[ch] \in Bad =>
             severity(told[ch]) <= severity(lifecycle.badState)
    BY <1>8, Zenon DEF LifecycleFollows
  <2>2. severity(st) > severity(lifecycle.badState)
    BY <1>3, <1>6, <1>8, <2>1, SeverityIsNat
  <2>3. CASE lifecycle'.badState = st /\ StateRules[st] \subseteq lifecycle'.active
    <3>1. ASSUME NEW ch \in Enabled, told'[ch] \in Bad
          PROVE  severity(told'[ch]) <= severity(st)
      <4>1. CASE told'[ch] = st
        BY <4>1, SeverityIsNat
      <4>2. CASE told'[ch] = told[ch]
        BY <2>1, <2>2, <3>1, <4>2, SeverityIsNat
      <4> QED BY <1>1, <4>1, <4>2
    <3>2. severity(lifecycle'.badState) <= severity(fsm'.cur)
      BY <1>1, <2>3, SeverityIsNat
    <3> QED BY <1>1, <1>8, <2>3, <3>1, <3>2 DEF LifecycleFollows
  <2>4. CASE ~Escalate /\ lifecycle' = lifecycle /\ to = {}
    <3>1. \A ch \in Enabled : told'[ch] = told[ch]
      BY <1>1, <2>4
    <3>2. severity(lifecycle'.badState) <= severity(fsm'.cur)
      BY <1>1, <2>2, <2>4, SeverityIsNat
    <3> QED BY <2>1, <2>4, <3>1, <3>2 DEF LifecycleFollows
  <2>5. SelectChannels(lifecycle, st) = {} => to = {}
    OBVIOUS
  <2> QED BY <1>1, <1>2, <1>8, <2>2, <2>3, <2>4, <2>5, DecisionRemembers, Zenon
<1>9. CASE st \in Bad /\ ~lifecycle.inBad
  <2>1. lifecycle'.badState = st /\ StateRules[st] \subseteq lifecycle'.active
    BY <1>1, <1>2, <1>9, DecisionRemembers, Zenon
  <2>2. lifecycle.active = {}
    BY <1>4, <1>9, NothingOpen
  <2>3. \A ch \in Enabled : told[ch] \notin Bad
    BY <1>5, <2>2
  <2>4. ASSUME NEW ch \in Enabled, told'[ch] \in Bad
        PROVE  severity(told'[ch]) <= severity(st)
    BY <1>1, <2>3, <2>4, SeverityIsNat
  <2>5. severity(lifecycle'.badState) <= severity(fsm'.cur)
    BY <1>1, <2>1, SeverityIsNat
  <2> QED BY <1>1, <1>9, <2>1, <2>4, <2>5 DEF LifecycleFollows
<1> QED BY <1>7, <1>8, <1>9

\* The sends a step starts are the ones Dispatch starts: every other send is
\* at least one tick old when a result comes.
LEMMA StartsAreDispatched ==
  ASSUME IInv, SendsAge, [Next]_vars
  PROVE  \/ Started = {} /\ UNCHANGED <<fsm, lifecycle, told>>
         \/ /\ Started = {}
            /\ \E ok \in BOOLEAN : fsm' = Transition(fsm, ok) /\ ~Changed(fsm, ok)
            /\ UNCHANGED <<lifecycle, told>>
         \/ \E ok \in BOOLEAN :
              LET st == Transition(fsm, ok).cur IN
              /\ fsm' = Transition(fsm, ok) /\ Changed(fsm, ok) /\ Dispatch(st)
              /\ Started = [ch : SelectChannels(lifecycle, st) \cap Enabled,
                            st : {st}, age : {0}]
<1>1. ASSUME NEW ok \in BOOLEAN, Poll(ok), ~Changed(fsm, ok)
      PROVE  Started = {} /\ fsm' = Transition(fsm, ok) /\ UNCHANGED <<lifecycle, told>>
  BY <1>1 DEF Poll, Started
<1>2. ASSUME NEW ok \in BOOLEAN, Poll(ok), Changed(fsm, ok)
      PROVE  LET st == Transition(fsm, ok).cur IN
             /\ fsm' = Transition(fsm, ok) /\ Dispatch(st)
             /\ Started = [ch : SelectChannels(lifecycle, st) \cap Enabled,
                           st : {st}, age : {0}]
  <2> DEFINE st == Transition(fsm, ok).cur
             new == [ch : SelectChannels(lifecycle, st) \cap Enabled, st : {st}, age : {0}]
  <2>1. fsm' = Transition(fsm, ok) /\ Dispatch(st)
    BY <1>2 DEF Poll
  <2>2. sends' = sends \cup new
    BY <2>1 DEF Dispatch
  <2>3. \A s \in sends : s.age # 0
    <3>1. sincePoll = Interval /\ Interval >= 1 /\ Interval \in Nat
      BY <1>2, TimingAssumption DEF Poll
    <3>2. \A s \in sends : s.age \in Nat
      BY TimingAssumption DEF IInv, TypeOK, Send
    <3> QED BY <3>1, <3>2 DEF SendsAge
  <2>4. \A s \in new : s.age = 0
    OBVIOUS
  <2> HIDE DEF new
  <2>5. Started = new
    BY <2>2, <2>3, <2>4 DEF Started
  <2> QED BY <2>1, <2>5 DEF new
<1>3. ASSUME NEW s \in sends, Deliver(s) \/ FailSend(s)
      PROVE  Started = {} /\ UNCHANGED <<fsm, lifecycle, told>>
  BY <1>3 DEF Deliver, FailSend, Started
<1>4. ASSUME Tick PROVE Started = {} /\ UNCHANGED <<fsm, lifecycle, told>>
  <2>1. \A s \in sends' : s.age # 0
    <3>1. \A s \in sends : s.age \in Nat
      BY TimingAssumption DEF IInv, TypeOK, Send
    <3> QED BY <1>4, <3>1 DEF Tick
  <2> QED BY <1>4, <2>1 DEF Tick, Started
<1>5. ASSUME UNCHANGED vars PROVE Started = {} /\ UNCHANGED <<fsm, lifecycle, told>>
  BY <1>5 DEF vars, Started
<1> QED BY <1>1, <1>2, <1>3, <1>4, <1>5 DEF Next

LEMMA SendsAgeStep ==
  ASSUME IInv, SendsAge, [Next]_vars
  PROVE  SendsAge'
<1> USE DEF SendsAge
<1>0. /\ \A s \in sends : s.age \in Nat
      /\ sincePoll \in Nat /\ Interval \in Nat
  BY TimingAssumption DEF IInv, TypeOK, Send
<1>1. ASSUME NEW ok \in BOOLEAN, Poll(ok) PROVE SendsAge'
  <2>1. sincePoll' = 0
    BY <1>1 DEF Poll
  <2>2. ASSUME NEW s \in sends' PROVE s.age \in Nat
    <3>1. s \in sends \/ s.age = 0
      BY <1>1, <2>2 DEF Poll, Dispatch
    <3> QED BY <1>0, <3>1
  <2> QED BY <2>1, <2>2
<1>2. ASSUME NEW s \in sends, Deliver(s) \/ FailSend(s) PROVE SendsAge'
  BY <1>2 DEF Deliver, FailSend
<1>3. ASSUME Tick PROVE SendsAge'
  <2>1. sincePoll' \in Nat /\ sincePoll' <= sincePoll + 1
    BY <1>0, <1>3 DEF Tick, CountTo
  <2>2. \A s \in sends' : \E r \in sends : s.age = r.age + 1
    BY <1>3 DEF Tick
  <2> QED BY <1>0, <2>1, <2>2
<1>4. ASSUME UNCHANGED vars PROVE SendsAge'
  BY <1>4 DEF vars
<1> QED BY <1>1, <1>2, <1>3, <1>4 DEF Next

LEMMA MemInvHolds == Spec => []MemInv
<1>1. ASSUME IInv, MemInv, [Next]_vars PROVE MemInv'
  <2>1. SendsAge'
    BY <1>1, SendsAgeStep DEF MemInv
  <2>2. LifecycleFollows'
    <3>1. CASE UNCHANGED <<fsm, lifecycle, told>>
      BY <1>1, <3>1 DEF MemInv, LifecycleFollows
    <3>2. ASSUME NEW ok \in BOOLEAN, fsm' = Transition(fsm, ok), ~Changed(fsm, ok),
                 UNCHANGED <<lifecycle, told>>
          PROVE  LifecycleFollows'
      <4>1. fsm'.cur = fsm.cur
        BY <3>2, Zenon DEF Changed
      <4> QED BY <1>1, <3>2, <4>1 DEF MemInv, LifecycleFollows
    <3>3. ASSUME NEW ok \in BOOLEAN, fsm' = Transition(fsm, ok), Changed(fsm, ok),
                 Dispatch(Transition(fsm, ok).cur)
          PROVE  LifecycleFollows'
      BY <1>1, <3>3, DispatchRemembers DEF MemInv
    <3> QED BY <1>1, <3>1, <3>2, <3>3, StartsAreDispatched DEF MemInv
  <2> QED BY <2>1, <2>2 DEF MemInv
<1> QED BY <1>1, MemInvInit, IInvHolds, PTL DEF Spec

\* Repeats are suppressed: a channel with an open alert is sent another one
\* only about something worse (dispatcher.go:159-171).
THEOREM AlertsNeverRepeat == Spec => NoRepeats
<1>1. ASSUME IInv, MemInv, [Next]_vars
      PROVE  \A s \in Started :
               s.st \in Bad /\ told[s.ch] \in Bad => severity(s.st) > severity(told[s.ch])
  <2> SUFFICES ASSUME NEW s \in Started, s.st \in Bad, told[s.ch] \in Bad
               PROVE  severity(s.st) > severity(told[s.ch])
    OBVIOUS
  <2>1. PICK ok \in BOOLEAN :
          LET st == Transition(fsm, ok).cur IN
          Started = [ch : SelectChannels(lifecycle, st) \cap Enabled, st : {st}, age : {0}]
    BY <1>1, StartsAreDispatched DEF MemInv
  <2> DEFINE st == Transition(fsm, ok).cur
  <2>2. s.st = st /\ s.ch \in SelectChannels(lifecycle, st) /\ s.ch \in Enabled
    BY <2>1
  <2> HIDE DEF st
  <2>3. lifecycle \in Lifecycle
    BY <1>1 DEF IInv, TypeOK
  <2>4. s.ch \in lifecycle.active
    BY <1>1, <2>2 DEF IInv, LifecycleInv
  <2>5. lifecycle.inBad
    <3>1. ~lifecycle.inBad => lifecycle = NoLifecycle
      BY <1>1 DEF IInv, LifecycleInv
    <3> QED BY <2>4, <3>1, NothingOpen
  <2>6. /\ lifecycle.badState \in Bad
        /\ severity(told[s.ch]) <= severity(lifecycle.badState)
    BY <1>1, <2>2, <2>5 DEF MemInv, LifecycleFollows
  <2>7. SelectChannels(lifecycle, st) # {}
    BY <2>2
  <2>8. severity(st) > severity(lifecycle.badState)
    BY <2>2, <2>3, <2>5, <2>7, DecisionRemembers, Zenon
  <2> QED BY <2>2, <2>6, <2>8, SeverityIsNat
<1>2. IInv /\ MemInv /\ [Next]_vars =>
        [\A s \in Started :
           s.st \in Bad /\ told[s.ch] \in Bad => severity(s.st) > severity(told[s.ch])]_vars
  BY <1>1
<1> QED BY <1>2, IInvHolds, MemInvHolds, PTL DEF Spec, NoRepeats

\* The end of an outage is announced to exactly the channels that were told of
\* it, in the step that ends it and in no other (dispatcher.go:172-178).
THEOREM RecoveryIsAnnouncedOnce == Spec => RecoveryReachesTheAlerted
<1> DEFINE Told == /\ fsm.cur \in Bad /\ fsm'.cur \notin Bad =>
                        {s.ch : s \in Started} = {ch \in Enabled : told[ch] \in Bad}
                   /\ fsm.cur \notin Bad /\ fsm'.cur \notin Bad => Started = {}
<1>1. ASSUME IInv, MemInv, [Next]_vars, fsm'.cur \notin Bad
      PROVE  Told
  <2>1. CASE Started = {} /\ fsm'.cur = fsm.cur
    BY <1>1, <2>1
  <2>2. ASSUME NEW ok \in BOOLEAN,
               LET st == Transition(fsm, ok).cur IN
               /\ fsm' = Transition(fsm, ok)
               /\ Started = [ch : SelectChannels(lifecycle, st) \cap Enabled,
                             st : {st}, age : {0}]
        PROVE  Told
    <3> DEFINE st == Transition(fsm, ok).cur
    <3>1. /\ fsm'.cur = st
          /\ Started = [ch : SelectChannels(lifecycle, st) \cap Enabled, st : {st}, age : {0}]
      BY <2>2
    <3>2. st \in Bad \cup Recovered
      BY <1>1, ResultIsBadOrRecovered DEF IInv, TypeOK
    <3> HIDE DEF st
    <3>3. lifecycle \in Lifecycle /\ (~lifecycle.inBad => lifecycle = NoLifecycle)
      BY <1>1 DEF IInv, TypeOK, LifecycleInv
    <3>4. SelectChannels(lifecycle, st) = lifecycle.active
      BY <1>1, <3>1, <3>2, <3>3, DecisionKeepsTrack
    <3>5. SelectChannels(lifecycle, st) \cap Enabled = {ch \in Enabled : told[ch] \in Bad}
      BY <1>1, <3>4 DEF IInv, LifecycleInv
    <3>6. {s.ch : s \in Started} = SelectChannels(lifecycle, st) \cap Enabled
      <4> DEFINE to == SelectChannels(lifecycle, st) \cap Enabled
      <4>1. \A s \in Started : s.ch \in to
        BY <3>1
      <4>2. ASSUME NEW ch \in to PROVE \E s \in Started : s.ch = ch
        <5>1. [ch |-> ch, st |-> st, age |-> 0] \in Started
          BY <3>1
        <5> QED BY <5>1
      <4> HIDE DEF to
      <4>3. {s.ch : s \in Started} = to
        BY <4>1, <4>2
      <4> QED BY <4>3 DEF to
    <3>7. fsm.cur \notin Bad => lifecycle.active = {}
      <4>1. lifecycle.inBad <=> fsm.cur \in Bad
        BY <1>1 DEF IInv, LifecycleInv
      <4> QED BY <3>3, <4>1, NothingOpen
    <3>8. fsm.cur \notin Bad => Started = {}
      BY <3>1, <3>4, <3>7
    <3> QED BY <3>5, <3>6, <3>8
  <2>3. \A ok \in BOOLEAN : fsm' = Transition(fsm, ok) /\ ~Changed(fsm, ok) => fsm'.cur = fsm.cur
    BY Zenon DEF Changed
  <2> HIDE DEF Told
  <2> QED BY <1>1, <2>1, <2>2, <2>3, StartsAreDispatched DEF MemInv
<1>2. IInv /\ MemInv /\ [Next]_vars => [Told]_vars
  BY <1>1
<1> QED BY <1>2, IInvHolds, MemInvHolds, PTL DEF Spec, RecoveryReachesTheAlerted

-----------------------------------------------------------------------------

\* With the loop slower than a send, the sends in flight are about the last
\* announcement, and a settled channel shows what it was last told.
Heard ==
  /\ \A s \in sends : s.st = told[s.ch]
  /\ \A ch \in Enabled : Settled(ch) => shown[ch] = told[ch]

\* A result finds no send in flight.
LEMMA PollFindsNoSend ==
  ASSUME SendTimeout < Interval, IInv, SendsAge, NEW ok \in BOOLEAN, Poll(ok)
  PROVE  sends = {}
<1> SUFFICES ASSUME NEW s \in sends PROVE FALSE
  OBVIOUS
<1>1. s.age \in 0 .. SendTimeout
  BY DEF IInv, TypeOK, Send
<1>2. s.age >= Interval
  BY DEF SendsAge, Poll
<1> QED BY <1>1, <1>2, TimingAssumption

LEMMA HeardStep ==
  ASSUME SendTimeout < Interval, IInv, SendsAge, Heard, [Next]_vars
  PROVE  Heard'
<1>0. /\ \A s \in sends : s.ch \in Enabled
      /\ DOMAIN shown = Enabled /\ DOMAIN told = Enabled
  BY DEF IInv, TypeOK, Send
<1>1. ASSUME NEW ok \in BOOLEAN, Poll(ok) PROVE Heard'
  <2>1. sends = {} /\ UNCHANGED <<shown, lost>>
    BY <1>1, PollFindsNoSend DEF Poll
  <2>2. CASE UNCHANGED <<sends, told>>
    BY <2>1, <2>2 DEF Heard, Settled
  <2>3. CASE Dispatch(Transition(fsm, ok).cur)
    <3> DEFINE st == Transition(fsm, ok).cur
               to == SelectChannels(lifecycle, st) \cap Enabled
    <3>1. /\ sends' = [ch : to, st : {st}, age : {0}]
          /\ told' = [ch \in Enabled |-> IF ch \in to THEN st ELSE told[ch]]
      BY <2>1, <2>3 DEF Dispatch
    <3> HIDE DEF st, to
    <3>2. \A s \in sends' : s.ch \in to /\ s.st = st
      BY <3>1
    <3>3. to \subseteq Enabled
      BY DEF to
    <3>4. \A s \in sends' : s.st = told'[s.ch]
      BY <3>1, <3>2, <3>3
    <3>5. ASSUME NEW ch \in Enabled, Settled(ch)' PROVE shown'[ch] = told'[ch]
      <4>1. ch \notin to
        <5>1. ch \in to => [ch |-> ch, st |-> st, age |-> 0] \in sends'
          BY <3>1
        <5> QED BY <3>5, <5>1 DEF Settled
      <4>2. Settled(ch)
        BY <2>1, <3>5 DEF Settled
      <4> QED BY <2>1, <3>1, <4>1, <4>2 DEF Heard
    <3> QED BY <3>4, <3>5 DEF Heard
  <2> QED BY <1>1, <2>2, <2>3 DEF Poll
<1>2. ASSUME NEW s \in sends, Deliver(s) PROVE Heard'
  <2>1. /\ sends' = sends \ {s} /\ told' = told /\ lost' = lost \ {s.ch}
        /\ shown' = [shown EXCEPT ![s.ch] = s.st]
    BY <1>2 DEF Deliver
  <2>2. ASSUME NEW ch \in Enabled, Settled(ch)' PROVE shown'[ch] = told'[ch]
    <3>1. CASE ch = s.ch
      BY <1>0, <2>1, <3>1 DEF Heard
    <3>2. CASE ch # s.ch
      <4>1. Settled(ch)
        BY <2>1, <2>2, <3>2 DEF Settled
      <4> QED BY <1>0, <2>1, <3>2, <4>1 DEF Heard
    <3> QED BY <3>1, <3>2
  <2> QED BY <2>1, <2>2 DEF Heard
<1>3. ASSUME NEW s \in sends, FailSend(s) PROVE Heard'
  <2>1. /\ sends' = sends \ {s} /\ told' = told /\ lost' = lost \cup {s.ch}
        /\ shown' = shown \/ shown' = [shown EXCEPT ![s.ch] = s.st]
    BY <1>3 DEF FailSend
  <2>2. ASSUME NEW ch \in Enabled, Settled(ch)' PROVE shown'[ch] = told'[ch]
    <3>1. ch # s.ch
      BY <2>1, <2>2 DEF Settled
    <3>2. Settled(ch)
      BY <2>1, <2>2, <3>1 DEF Settled
    <3>3. shown'[ch] = shown[ch]
      BY <1>0, <2>1, <3>1
    <3> QED BY <2>1, <3>2, <3>3 DEF Heard
  <2> QED BY <2>1, <2>2 DEF Heard
<1>4. ASSUME Tick PROVE Heard'
  <2>1. /\ sends' = {[ch |-> s.ch, st |-> s.st, age |-> s.age + 1] : s \in sends}
        /\ UNCHANGED <<shown, told, lost>>
    BY <1>4 DEF Tick
  <2>2. \A t \in sends' : \E s \in sends : t.ch = s.ch /\ t.st = s.st
    BY <2>1
  <2>3. ASSUME NEW s \in sends PROVE \E t \in sends' : t.ch = s.ch
    <3>1. [ch |-> s.ch, st |-> s.st, age |-> s.age + 1] \in sends'
      BY <2>1
    <3> QED BY <3>1
  <2>4. \A ch \in Enabled : Settled(ch)' => Settled(ch)
    BY <2>1, <2>3 DEF Settled
  <2> QED BY <2>1, <2>2, <2>4 DEF Heard
<1>5. ASSUME UNCHANGED vars PROVE Heard'
  BY <1>5 DEF vars, Heard, Settled
<1> QED BY <1>1, <1>2, <1>3, <1>4, <1>5 DEF Next

LEMMA HeardHolds ==
  ASSUME SendTimeout < Interval
  PROVE  Spec => []Heard
<1>1. Init => Heard
  <2>1. Init => sends = {} /\ \A ch \in Enabled : shown[ch] = told[ch]
    BY Zenon DEF Init
  <2> QED BY <2>1 DEF Heard
<1>2. IInv /\ MemInv /\ Heard /\ [Next]_vars => Heard'
  BY HeardStep DEF MemInv
<1> QED BY <1>1, <1>2, IInvHolds, MemInvHolds, PTL DEF Spec

\* Nobody is left with an alarm that is over, for any channels and rules and
\* with escalation or without, when the poll interval exceeds the time a send
\* may take.
THEOREM NoAlarmOutlivesOutage ==
  ASSUME SendTimeout < Interval
  PROVE  Spec => []NoStaleAlarm
<1>1. IInv /\ Heard => NoStaleAlarm
  <2> SUFFICES ASSUME IInv, Heard, NEW ch \in Enabled, Settled(ch), shown[ch] \in Bad
               PROVE  fsm.cur \in Bad
    BY DEF NoStaleAlarm
  <2>1. ch \in lifecycle.active
    BY DEF Heard, IInv, LifecycleInv
  <2>2. ~lifecycle.inBad => lifecycle = NoLifecycle
    BY DEF IInv, LifecycleInv
  <2>3. lifecycle.inBad
    BY <2>1, <2>2, NothingOpen
  <2> QED BY <2>3 DEF IInv, LifecycleInv
<1> QED BY <1>1, IInvHolds, HeardHolds, PTL

\* With escalation, whoever the rules name for the state an outage is in knows
\* of the outage, or a send to them failed (config.go:251-261).
THEOREM EscalationReachesTheRuled ==
  ASSUME SendTimeout < Interval, Escalate
  PROVE  Spec => []RuledChannelsKnow
<1>1. IInv /\ MemInv /\ Heard => RuledChannelsKnow
  <2> SUFFICES ASSUME IInv, MemInv, Heard, fsm.cur \in Bad,
                      NEW ch \in StateRules[fsm.cur] \cap Enabled, Settled(ch)
               PROVE  shown[ch] \in Bad
    BY DEF RuledChannelsKnow
  <2>1. lifecycle.inBad
    BY DEF IInv, LifecycleInv
  <2>2. ch \in lifecycle.active
    BY <2>1 DEF MemInv, LifecycleFollows
  <2>3. told[ch] \in Bad
    BY <2>2 DEF IInv, LifecycleInv
  <2> QED BY <2>3 DEF Heard
<1> QED BY <1>1, IInvHolds, MemInvHolds, HeardHolds, PTL
=============================================================================
