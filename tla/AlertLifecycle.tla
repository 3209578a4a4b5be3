--------------------------- MODULE AlertLifecycle ---------------------------
(***************************************************************************)
(* The alerts of one service from the transition to the reader's screen:   *)
(* the poll loop records a result and dispatches the alert in the same     *)
(* call (StateManager.Record, Dispatcher.Dispatch), and every selected     *)
(* channel is sent to on a goroutine of its own, which may fail and is     *)
(* never retried.  Module HealthMonitor shows that Transition and Dispatch *)
(* act as one step when a service has one poll loop, as it has here.       *)
(*                                                                         *)
(* Time is in ticks.  Two results of the service are at least Interval     *)
(* apart (the poll interval, less the time a check may take); a send is    *)
(* over after at most SendTimeout, the HTTP clients' limit (10 s in        *)
(* slack.go, pagerduty.go and webhook.go; email.go sets none).             *)
(***************************************************************************)
EXTENDS Dispatcher

CONSTANTS Interval, SendTimeout

ASSUME TimingAssumption == Interval \in Nat \ {0} /\ SendTimeout \in Nat

VARIABLES
  fsm,        \* the service's ServiceState
  lifecycle,  \* the dispatcher's lifecycle of the service
  sincePoll,  \* ticks since the last result, up to Interval
  sends,      \* sends in flight
  shown,      \* channel -> the state its reader last saw
  told,       \* history: channel -> the last state it was selected for
  lost        \* history: channels whose last finished send reported an error

vars == <<fsm, lifecycle, sincePoll, sends, shown, told, lost>>

Notice == State \cup {""}

Send == [ch : Enabled, st : State, age : 0 .. SendTimeout]

Init ==
  /\ fsm = NewServiceState
  /\ lifecycle = NoLifecycle
  /\ sincePoll = 0
  /\ sends = {}
  /\ shown = [ch \in Enabled |-> ""]
  /\ told = [ch \in Enabled |-> ""]
  /\ lost = {}

-----------------------------------------------------------------------------

\* Dispatch: decide, and start a goroutine for each enabled channel.
Dispatch(st) ==
  LET to == SelectChannels(lifecycle, st) \cap Enabled IN
  /\ lifecycle' = AfterSelect(lifecycle, st)
  /\ sends' = sends \cup [ch : to, st : {st}, age : {0}]
  /\ told' = [ch \in Enabled |-> IF ch \in to THEN st ELSE told[ch]]

\* One poll: Record, and Dispatch if the state changed.
Poll(ok) ==
  /\ sincePoll = Interval
  /\ sincePoll' = 0
  /\ fsm' = Transition(fsm, ok)
  /\ IF Changed(fsm, ok)
       THEN Dispatch(Transition(fsm, ok).cur)
       ELSE UNCHANGED <<lifecycle, sends, told>>
  /\ UNCHANGED <<shown, lost>>

Deliver(s) ==
  /\ sends' = sends \ {s}
  /\ shown' = [shown EXCEPT ![s.ch] = s.st]
  /\ lost' = lost \ {s.ch}
  /\ UNCHANGED <<fsm, lifecycle, sincePoll, told>>

\* The client reports an error; after a timeout the message may have arrived.
FailSend(s) ==
  /\ sends' = sends \ {s}
  /\ lost' = lost \cup {s.ch}
  /\ \/ UNCHANGED shown
     \/ shown' = [shown EXCEPT ![s.ch] = s.st]
  /\ UNCHANGED <<fsm, lifecycle, sincePoll, told>>

Tick ==
  /\ \A s \in sends : s.age < SendTimeout
  /\ sincePoll' = CountTo(sincePoll + 1, Interval)
  /\ sends' = {[ch |-> s.ch, st |-> s.st, age |-> s.age + 1] : s \in sends}
  /\ UNCHANGED <<fsm, lifecycle, shown, told, lost>>

Next ==
  \/ \E ok \in BOOLEAN : Poll(ok)
  \/ \E s \in sends : Deliver(s) \/ FailSend(s)
  \/ Tick

Spec == Init /\ [][Next]_vars

-----------------------------------------------------------------------------

TypeOK ==
  /\ fsm \in ServiceState
  /\ lifecycle \in Lifecycle
  /\ sincePoll \in 0 .. Interval
  /\ sends \in SUBSET Send
  /\ shown \in [Enabled -> Notice]
  /\ told \in [Enabled -> Notice]
  /\ lost \in SUBSET Enabled

Settled(ch) == (\A s \in sends : s.ch # ch) /\ ch \notin lost

\* Each state stands for the run of results that leads to it: UNHEALTHY for
\* at least two failures in a row, DEAD for five, HEALTHY for a success since
\* the last failure (state.go:171-232).
StateIsEarned == StateMatchesRun(fsm)

\* Nobody is left with an alarm that is over: a channel whose sends have all
\* succeeded shows an outage only while there is one.  Sends are unordered
\* goroutines, so this needs the loop to be slower than a send.
NoStaleAlarm ==
  \A ch \in Enabled : Settled(ch) /\ shown[ch] \in Bad => fsm.cur \in Bad

\* Whoever the rules name for the state the service is in knows there is an
\* outage, or a send to them failed ("page on DEAD", config.go:254).
RuledChannelsKnow ==
  fsm.cur \in Bad =>
    \A ch \in StateRules[fsm.cur] \cap Enabled : Settled(ch) => shown[ch] \in Bad

\* The sends a step starts.
Started == {s \in sends' : s.age = 0} \ sends

\* Repeats are suppressed: a channel that already has an open alert is sent
\* another one only about something worse.
NoRepeats ==
  [][\A s \in Started :
       s.st \in Bad /\ told[s.ch] \in Bad => severity(s.st) > severity(told[s.ch])]_vars

\* When an outage ends, the channels that were told of it are told, and no
\* others, once: not again on the way from RECOVERING to HEALTHY.
RecoveryReachesTheAlerted ==
  [][/\ fsm.cur \in Bad /\ fsm'.cur \notin Bad =>
          {s.ch : s \in Started} = {ch \in Enabled : told[ch] \in Bad}
     /\ fsm.cur \notin Bad /\ fsm'.cur \notin Bad => Started = {}]_vars

\* The lifecycle is exactly the memory the decision needs: it is open during
\* an outage and names the channels whose last notice was about it.
LifecycleInv ==
  /\ lifecycle.inBad <=> fsm.cur \in Bad
  /\ ~lifecycle.inBad => lifecycle = NoLifecycle
  /\ \A ch \in Enabled : told[ch] \in Bad <=> ch \in lifecycle.active

\* The promise of module OutageNotice.
Promise == INSTANCE OutageNotice WITH
  Audience <- Enabled,
  outage   <- fsm.cur \in Bad,
  alerted  <- {ch \in Enabled : told[ch] \in Bad}

KeepsPromise == Promise!Spec
=============================================================================
