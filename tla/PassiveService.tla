--------------------------- MODULE PassiveService ---------------------------
(***************************************************************************)
(* A passive service (config mode "passive"), which is not polled over     *)
(* HTTP: its results come from an alert floor that external alerts set and *)
(* clear.  Alertmanager calls the API's webhook                            *)
(* (api/handlers/alertmanager_webhook.go), the API publishes a signal, the *)
(* engine's handler (health/alertsignal.go) changes the floor and polls at *)
(* once, beside the service's own loop (poll in health/poller.go).         *)
(*                                                                         *)
(* Alertmanager notifies a status until the webhook answers 2xx, and again *)
(* while the alert fires.  The webhook answers 202 even when it could not  *)
(* publish.  The engine may restart: floors, states and circuits are in    *)
(* its memory only.  Signals the code refuses (no secret, no label, an     *)
(* unknown or active service, another status) change nothing.              *)
(***************************************************************************)
EXTENDS Breaker, HealthFSM, Subscription, Sequences

CONSTANTS
  Alerts,       \* alerts labelled with the service
  MaxQueue,     \* bound: signals published and not handled
  MaxRestarts   \* bound: restarts of the engine

ASSUME PassiveAssumption == MaxQueue \in Nat \ {0} /\ MaxRestarts \in Nat

VARIABLES
  firing,    \* the alerts that fire
  owed,      \* those that do not, and whose resolution is to be notified
  sub,       \* the engine's subscriber to the signals
  floor,     \* alertFloorActive
  circuit,   \* the service's *Breaker
  health,    \* the service's ServiceState
  polling,   \* where the loop and the handler's PollNow are in poll
  restarts,  \* restarts so far
  lost       \* history: alerts that do not fire, whose resolution was lost

alertVars   == <<firing, owed>>
healthVars  == <<floor, circuit, health, polling>>
passiveVars == <<alertVars, sub, healthVars, restarts, lost>>

Pollers == {"loop", "now"}

\* "gate": PollNow is called; then the result that poll has in hand: a passed
\* or failed look at the floor, or the circuit was open.
PollState == {"idle", "gate", "passed", "failed", "open"}

PassiveInit ==
  /\ firing = {}
  /\ owed = {}
  /\ sub = NewSubscriber
  /\ floor = FALSE
  /\ circuit = NewBreaker
  /\ health = NewServiceState
  /\ polling = [p \in Pollers |-> "idle"]
  /\ restarts = 0
  /\ lost = {}

-----------------------------------------------------------------------------
\* Alertmanager, and the webhook.

Fire(a) ==
  /\ a \notin firing
  /\ firing' = firing \cup {a}
  /\ owed' = owed \ {a}
  /\ lost' = lost \ {a}
  /\ UNCHANGED <<sub, healthVars, restarts>>

Resolve(a) ==
  /\ a \in firing
  /\ firing' = firing \ {a}
  /\ owed' = owed \cup {a}
  /\ UNCHANGED <<sub, healthVars, restarts, lost>>

\* Alertmanager notifies what fires, now and again, and each resolution once.
Notifies(a) ==
  /\ a \in firing \cup owed
  /\ owed' = owed \ {a}

\* Receive: the signal is published and will be read.
Receive(a) ==
  /\ Notifies(a)
  /\ Hears(sub) /\ Len(sub.queue) < MaxQueue
  /\ sub' = Added(sub, [alert  |-> a,
                        status |-> IF a \in firing THEN "firing" ELSE "resolved"])
  /\ UNCHANGED <<firing, healthVars, restarts, lost>>

\* The signal could not be published, or nobody was reading; 202 all the same.
ReceiveInVain(a) ==
  /\ Notifies(a)
  /\ lost' = lost \cup ({a} \ firing)
  /\ UNCHANGED <<firing, sub, healthVars, restarts>>

-----------------------------------------------------------------------------
\* The engine.

\* Signals that are dropped unread, of alerts that fire no more.
Unread == {sub.queue[i].alert : i \in DOMAIN sub.queue} \ firing

Read ==
  /\ ~sub.waiting
  /\ sub' = Asking(sub)
  /\ UNCHANGED <<alertVars, healthVars, restarts, lost>>

\* Left out once the subscriber has a place, when it changes nothing.
ReadInVain ==
  /\ sub.waiting /\ ~sub.anchored
  /\ sub' = AskedInVain(sub)
  /\ lost' = lost \cup Unread
  /\ UNCHANGED <<alertVars, healthVars, restarts>>

\* Mutants: a resolution does not clear the floor; neither does it stay set.
Floor_Sticky(status) == floor \/ status = "firing"

Floor_Toggles(status) == ~floor /\ status = "firing"

\* SetAlertFloor and ClearAlertFloor.
Floor(status) == status = "firing"

\* Handle: the floor, then PollNow on the same goroutine, which takes the next
\* signal when that poll is over.
HandleSignal ==
  /\ sub.waiting /\ sub.queue # <<>>
  /\ polling["now"] = "idle"
  /\ sub' = Handled(sub)
  /\ floor' = Floor(Head(sub.queue).status)
  /\ polling' = [polling EXCEPT !["now"] = "gate"]
  /\ UNCHANGED <<alertVars, circuit, health, restarts, lost>>

\* poll, from the ticker or from PollNow: IsOpen, then FloorStatus.
Look(p) ==
  /\ polling[p] = IF p = "loop" THEN "idle" ELSE "gate"
  /\ circuit' = AfterIsOpen(circuit)
  /\ polling' = [polling EXCEPT ![p] =
       IF IsOpen(circuit) THEN "open" ELSE IF floor THEN "failed" ELSE "passed"]
  /\ UNCHANGED <<alertVars, sub, floor, health, restarts, lost>>

\* The breaker and the state machine take the result; an open circuit is a
\* failed result that the breaker is not told of.
Result(p) ==
  /\ polling[p] \in {"passed", "failed", "open"}
  /\ circuit' = CASE polling[p] = "passed" -> RecordSuccess(circuit)
                  [] polling[p] = "failed" -> RecordFailure(circuit)
                  [] polling[p] = "open"   -> circuit
  /\ health' = Transition(health, polling[p] = "passed")
  /\ polling' = [polling EXCEPT ![p] = "idle"]
  /\ UNCHANGED <<alertVars, sub, floor, restarts, lost>>

PassiveTick ==
  /\ circuit' = AgeBreaker(circuit)
  /\ UNCHANGED <<alertVars, sub, floor, health, polling, restarts, lost>>

Restart ==
  /\ restarts < MaxRestarts
  /\ restarts' = restarts + 1
  /\ sub' = NewSubscriber
  /\ floor' = FALSE
  /\ circuit' = NewBreaker
  /\ health' = NewServiceState
  /\ polling' = [p \in Pollers |-> "idle"]
  /\ lost' = lost \cup Unread
  /\ UNCHANGED alertVars

PollerStepOf(p) == Look(p) \/ Result(p)

PassiveNext ==
  \/ \E a \in Alerts : Fire(a) \/ Resolve(a) \/ Receive(a) \/ ReceiveInVain(a)
  \/ Read \/ ReadInVain \/ HandleSignal
  \/ PassiveTick
  \/ \E p \in Pollers : PollerStepOf(p)
  \/ Restart

PassiveSpec == PassiveInit /\ [][PassiveNext]_passiveVars

\* Tickers fire and polls end; Alertmanager repeats what fires; and of the
\* notifications and reads that are tried again and again, some succeed.
PassiveFairSpec ==
  /\ PassiveSpec
  /\ WF_passiveVars(PassiveTick) /\ WF_passiveVars(Read) /\ SF_passiveVars(HandleSignal)
  /\ \A p \in Pollers : WF_passiveVars(PollerStepOf(p))
  /\ \A a \in Alerts : SF_passiveVars(Receive(a))

-----------------------------------------------------------------------------

Signal == [alert : Alerts, status : {"firing", "resolved"}]

PassiveTypeOK ==
  /\ firing \in SUBSET Alerts
  /\ owed \in SUBSET (Alerts \ firing)
  /\ sub \in [anchored : BOOLEAN, waiting : BOOLEAN, queue : Seq(Signal)]
  /\ floor \in BOOLEAN
  /\ circuit \in BreakerRecord
  /\ health \in ServiceState
  /\ polling \in [Pollers -> PollState]
  /\ restarts \in 0 .. MaxRestarts
  /\ lost \in SUBSET Alerts

\* Once every notification is handled, a floor stands for an alert that fires,
\* or for one whose resolution was lost: Alertmanager has its 202 and does not
\* send it again (alertmanager_webhook.go:95-107).  With several alerts for a
\* service the converse fails: the first that resolves clears the floor.
FloorStandsForAlert ==
  floor /\ sub.queue = <<>> /\ owed = {}
    => firing \cup lost # {}

\* What makes FloorStandsForAlert inductive: an alert that set the floor, or
\* is about to, fires, or its resolution is owed, lost, or on its way behind.
Accounted(a, i) ==
  \/ a \in firing \cup owed \cup lost
  \/ \E j \in DOMAIN sub.queue :
       j > i /\ sub.queue[j].alert = a /\ sub.queue[j].status = "resolved"

FloorInv ==
  /\ \A i \in DOMAIN sub.queue :
       sub.queue[i].status = "firing" => Accounted(sub.queue[i].alert, i)
  /\ floor => \E a \in Alerts : Accounted(a, 0)

\* Alerts that keep firing take the service down for good, through lost
\* notifications, open circuits, restarts of the engine and the resolution of
\* other alerts, which clears the floor for all.
FiringGoesDown ==
  \A S \in (SUBSET Alerts) \ {{}} : <>[](firing = S) => <>[](health.cur = "DEAD")

\* When all alerts are resolved, and none of the resolutions was lost, the
\* service comes back, past its open circuit, by results of its own.
ResolvedRecovers ==
  <>[](firing = {} /\ lost = {}) => <>[](health.cur = "HEALTHY")
=============================================================================
