--------------------------- MODULE HealthMonitor ---------------------------
(***************************************************************************)
(* Poller.poll and StateManager.Record (apps/engine/internal/health) run   *)
(* by the goroutines that poll the services: gate on the breaker, check,   *)
(* dependency override, breaker, circuit event, state machine, then the    *)
(* sinks of a state change in the order the code calls them.  Each step    *)
(* below is what the code does between two lock acquisitions or calls      *)
(* that leave the process; anything may happen in between.                 *)
(*                                                                         *)
(* A service has one poll loop in the steady state.  It has two while a    *)
(* reloaded service's old loop finishes its last check, and PollNow adds   *)
(* one: Polls lists the goroutines and Target says whom each one polls.    *)
(*                                                                         *)
(* The sinks do not feed back into polling.  Followed says whose and which *)
(* ones a run keeps track of.  Metric writes and events carry no state     *)
(* another part reads and are left out; the reaction to DEAD and HEALTHY   *)
(* that ends Record (healing, fallback) is module Healing's.               *)
(***************************************************************************)
EXTENDS Breaker, Dispatcher

CONSTANTS
  Services,
  Deps,       \* service -> the services it declares as dependencies
  Polls,      \* goroutines that poll
  Target,     \* poll -> service
  Followed    \* service -> the sinks a run keeps track of

Sinks == {"circuit", "store", "publish", "alert"}

\* validateServices refuses a service that depends on itself and nothing else.
ASSUME MonitorAssumption ==
  /\ Deps \in [Services -> SUBSET Services]
  /\ \A s \in Services : s \notin Deps[s]
  /\ Target \in [Polls -> Services]
  /\ Followed \in [Services -> SUBSET Sinks]

VARIABLES
  up,           \* service -> would its own check pass now?
  breaker,      \* service -> circuit.Registry's breaker
  fsm,          \* service -> StateManager's ServiceState
  poll,         \* poll -> where it is and what it holds in locals
  circuitView,  \* service -> the circuit state last published
  stored,       \* service -> the last change handed to WriteStateChange
  published,    \* service -> the last StateChangeEvent published
  lifecycle     \* service -> the dispatcher's lifecycle

sinkVars == <<circuitView, stored, published, lifecycle>>
vars == <<up, breaker, fsm, poll, sinkVars>>

Pc == {"idle", "check", "deps", "breaker", "snapshot", "circuit", "record",
       "store", "publish", "alert"}

Poll == [pc   : Pc,
         ok   : BOOLEAN,             \* result.OK
         todo : SUBSET Services,     \* dependencies not looked at yet
         snap : BreakerState,        \* the breaker snapshot to publish
         new  : State]               \* newState

Idle == [pc |-> "idle", ok |-> FALSE, todo |-> {}, snap |-> "CLOSED", new |-> "UNKNOWN"]

Change == [from : State \cup {""}, to : State]

Init ==
  /\ up \in [Services -> BOOLEAN]
  /\ breaker = [s \in Services |-> NewBreaker]
  /\ fsm = [s \in Services |-> NewServiceState]
  /\ poll = [p \in Polls |-> Idle]
  /\ circuitView = [s \in Services |-> "CLOSED"]
  /\ stored = [s \in Services |-> [from |-> "", to |-> "UNKNOWN"]]
  /\ published = [s \in Services |-> [from |-> "", to |-> "UNKNOWN"]]
  /\ lifecycle = [s \in Services |-> NoLifecycle]

At(p, pc) == poll[p].pc = pc

\* The sinks of a state change, in the order Record calls them.
ChangeSinks == <<"store", "publish", "alert">>

\* The first of them that is followed, from the i-th on.
SinkFrom(s, i) ==
  LET left == {k \in i .. 3 : ChangeSinks[k] \in Followed[s]}
  IN IF left = {} THEN "idle" ELSE ChangeSinks[CHOOSE k \in left : \A l \in left : k <= l]

\* p goes on to pc, or ends its poll and forgets its locals.
Goto(p, pc) ==
  poll' = [poll EXCEPT ![p] = IF pc = "idle" THEN Idle ELSE [@ EXCEPT !.pc = pc]]

-----------------------------------------------------------------------------

\* An open circuit skips the check and records a synthetic failure.
Gate(p) ==
  LET b == breaker[Target[p]] IN
  /\ At(p, "idle")
  /\ breaker' = [breaker EXCEPT ![Target[p]] = AfterIsOpen(b)]
  /\ Goto(p, IF IsOpen(b) THEN "record" ELSE "check")
  /\ UNCHANGED <<up, fsm, sinkVars>>

\* The service's own check (Checker.Check).  Only a pass looks further.
Check(p) ==
  LET s == Target[p] IN
  /\ At(p, "check")
  /\ poll' = [poll EXCEPT ![p].ok   = up[s],
                          ![p].todo = IF up[s] THEN Deps[s] ELSE {},
                          ![p].pc   = IF up[s] /\ Deps[s] # {} THEN "deps" ELSE "breaker"]
  /\ UNCHANGED <<up, breaker, fsm, sinkVars>>

\* Mutant: a DEAD dependency is not looked at any more.
DependencyFailing_ForgetsDead(d) == fsm[d].cur = "UNHEALTHY"

\* dependencyFailureReason's test of one dependency.
DependencyFailing(d) == fsm[d].cur \in {"DEAD", "UNHEALTHY"}

LookAtDependency(p) ==
  /\ At(p, "deps")
  /\ \E d \in poll[p].todo :
       LET fails == DependencyFailing(d)
           left  == IF fails THEN {} ELSE poll[p].todo \ {d}
       IN poll' = [poll EXCEPT ![p].ok   = ~fails,
                               ![p].todo = left,
                               ![p].pc   = IF left = {} THEN "breaker" ELSE "deps"]
  /\ UNCHANGED <<up, breaker, fsm, sinkVars>>

\* Mutant: the circuit event is published for failed checks only.
FeedBreaker_QuietSuccess(p) ==
  /\ At(p, "breaker")
  /\ breaker' = [breaker EXCEPT ![Target[p]] =
                   IF poll[p].ok THEN RecordSuccess(@) ELSE RecordFailure(@)]
  /\ Goto(p, IF poll[p].ok THEN "record" ELSE "snapshot")
  /\ UNCHANGED <<up, fsm, sinkVars>>

FeedBreaker(p) ==
  /\ At(p, "breaker")
  /\ breaker' = [breaker EXCEPT ![Target[p]] =
                   IF poll[p].ok THEN RecordSuccess(@) ELSE RecordFailure(@)]
  /\ Goto(p, IF "circuit" \in Followed[Target[p]] THEN "snapshot" ELSE "record")
  /\ UNCHANGED <<up, fsm, sinkVars>>

\* breaker.Snapshot() and the XADD of the event built from it.
TakeSnapshot(p) ==
  /\ At(p, "snapshot")
  /\ poll' = [poll EXCEPT ![p].snap = breaker[Target[p]].state, ![p].pc = "circuit"]
  /\ UNCHANGED <<up, breaker, fsm, sinkVars>>

PublishCircuit(p) ==
  /\ At(p, "circuit")
  /\ circuitView' = [circuitView EXCEPT ![Target[p]] = poll[p].snap]
  /\ Goto(p, "record")
  /\ UNCHANGED <<up, breaker, fsm, stored, published, lifecycle>>

\* Record: the transition.  Without a state change the poll ends here.
Record(p) ==
  LET s == Target[p]
      next == IF Changed(fsm[s], poll[p].ok) THEN SinkFrom(s, 1) ELSE "idle"
  IN
  /\ At(p, "record")
  /\ fsm' = [fsm EXCEPT ![s] = Transition(@, poll[p].ok)]
  /\ poll' = [poll EXCEPT ![p] =
                IF next = "idle" THEN Idle
                ELSE [@ EXCEPT !.pc = next, !.new = fsm'[s].cur]]
  /\ UNCHANGED <<up, breaker, sinkVars>>

\* What a sink is told: the state Transition returned, and the PreviousState
\* the service has when the sink is called, which is read without the lock.
Told(p) == [from |-> fsm[Target[p]].prev, to |-> poll[p].new]

Store(p) ==
  /\ At(p, "store")
  /\ stored' = [stored EXCEPT ![Target[p]] = Told(p)]
  /\ Goto(p, SinkFrom(Target[p], 2))
  /\ UNCHANGED <<up, breaker, fsm, circuitView, published, lifecycle>>

Publish(p) ==
  /\ At(p, "publish")
  /\ published' = [published EXCEPT ![Target[p]] = Told(p)]
  /\ Goto(p, SinkFrom(Target[p], 3))
  /\ UNCHANGED <<up, breaker, fsm, circuitView, stored, lifecycle>>

Alert(p) ==
  /\ At(p, "alert")
  /\ lifecycle' = [lifecycle EXCEPT ![Target[p]] = AfterSelect(@, poll[p].new)]
  /\ Goto(p, "idle")
  /\ UNCHANGED <<up, breaker, fsm, circuitView, stored, published>>

\* Time passes for the open circuits; a service goes down or comes back.
Tick ==
  /\ breaker' = [s \in Services |-> AgeBreaker(breaker[s])]
  /\ UNCHANGED <<up, fsm, poll, sinkVars>>

Flip(s) ==
  /\ up' = [up EXCEPT ![s] = ~@]
  /\ UNCHANGED <<breaker, fsm, poll, sinkVars>>

PollStep(p) ==
  \/ Gate(p) \/ Check(p) \/ LookAtDependency(p) \/ FeedBreaker(p)
  \/ TakeSnapshot(p) \/ PublishCircuit(p) \/ Record(p)
  \/ Store(p) \/ Publish(p) \/ Alert(p)

Next ==
  \/ \E p \in Polls : PollStep(p)
  \/ \E s \in Services : Flip(s)
  \/ Tick

Spec == Init /\ [][Next]_vars

\* A poll loop's ticker fires forever and every call it makes returns (checks,
\* Redis and the sinks are bounded by timeouts or asynchronous); time passes.
FairSpec ==
  /\ Spec
  /\ \A p \in Polls : WF_vars(PollStep(p))
  /\ WF_vars(Tick)

-----------------------------------------------------------------------------

TypeOK ==
  /\ up \in [Services -> BOOLEAN]
  /\ breaker \in [Services -> BreakerRecord]
  /\ fsm \in [Services -> ServiceState]
  /\ poll \in [Polls -> Poll]
  /\ circuitView \in [Services -> BreakerState]
  /\ stored \in [Services -> Change]
  /\ published \in [Services -> Change]
  /\ lifecycle \in [Services -> Lifecycle]

Quiet(s) == \A p \in Polls : Target[p] = s => At(p, "idle")

\* Between two polls of a service everything downstream agrees with its state
\* machine: the database and the stream were last told the transition it last
\* made, and the dispatcher thinks there is an outage exactly when there is
\* one.  The sinks run after Transition has released the lock
\* (state_manager.go:71-138), so this rests on there being one poll at a time.
SinksAgree ==
  \A s \in Services :
    Quiet(s) /\ Followed[s] = Sinks =>
      /\ stored[s] = [from |-> fsm[s].prev, to |-> fsm[s].cur]
      /\ published[s] = [from |-> fsm[s].prev, to |-> fsm[s].cur]
      /\ lifecycle[s].inBad <=> fsm[s].cur \in Bad

\* The same for the breaker: between two polls the last circuit event carries
\* the state the breaker is in.  poll publishes after every check and a skipped
\* poll publishes nothing (poller.go:194-203, 246-252).
CircuitViewAgrees ==
  \A s \in Services : Quiet(s) /\ "circuit" \in Followed[s] => circuitView[s] = breaker[s].state

\* The transitions a reader of the stream sees form a chain: each event starts
\* in the state the one before it ended in.
EventsChain ==
  [][\A s \in Services :
       published'[s] # published[s] => published'[s].from = published[s].to]_vars

\* Once every service would pass its own check for good, every service becomes
\* HEALTHY for good and its circuit closes, through open circuits, failing
\* dependencies and half-finished recoveries.
AllRecover ==
  <>[](\A s \in Services : up[s])
    => <>[](\A s \in Services : fsm[s].cur = "HEALTHY" /\ breaker[s].state = "CLOSED")

\* A dependency that stays down takes its dependents down with it: they end up
\* DEAD even though their own check passes (poller.go:224-237).
OutageSpreads ==
  \A s, d \in Services :
    d \in Deps[s] /\ Deps[d] = {} => (<>[]~up[d] => <>[](fsm[s].cur = "DEAD"))
=============================================================================
