--------------------------- MODULE BreakerPolling ---------------------------
(***************************************************************************)
(* One service's circuit breaker and the goroutines that poll the service: *)
(* Poller.poll (health/poller.go) asks IsOpen, runs the check with no lock *)
(* held, and records the result.  More than one poll of a service can be   *)
(* in flight: UpsertService starts a new loop while the old one finishes   *)
(* its check, and PollNow polls from the alert subscriber's goroutine.     *)
(* The REST API's reset (circuit.Registry.Reset) arrives at any moment.    *)
(*                                                                         *)
(* `run' is history: what happened since the breaker last opened, was      *)
(* reset or recorded the opposite result, counted independently of the     *)
(* breaker's own fields.                                                   *)
(***************************************************************************)
EXTENDS Breaker

CONSTANTS
  Polls,      \* goroutines that poll the service
  MaxResets   \* bound: resets an operator sends

ASSUME PollingAssumption == MaxResets \in Nat

VARIABLES
  breaker,    \* the service's *Breaker
  up,         \* would a check pass now?
  poll,       \* where each goroutine is in Poller.poll
  resets,     \* resets sent so far
  stale,      \* history: polls admitted before the breaker last opened
  run         \* history: see above

vars == <<breaker, up, poll, resets, stale, run>>

PollStep == {"idle", "checking", "passed", "failed"}

Run ==
  [fails  : 0 .. FailureThreshold, \* failures since the last success or reset
   oks    : 0 .. SuccessThreshold, \* successes since the last failure
   waited : 0 .. Timeout,          \* ticks since the breaker opened
   early  : BOOLEAN]               \* a success came in while it was OPEN

Init ==
  /\ breaker = NewBreaker
  /\ up \in BOOLEAN
  /\ poll = [p \in Polls |-> "idle"]
  /\ resets = 0
  /\ stale = {}
  /\ run = [fails |-> 0, oks |-> 0, waited |-> 0, early |-> FALSE]

-----------------------------------------------------------------------------

\* poll's first lines: an open circuit ends the poll (its synthetic failure
\* goes to the state machine, not to the breaker), otherwise the check runs.
Gate(p) ==
  /\ poll[p] = "idle"
  /\ breaker' = AfterIsOpen(breaker)
  /\ poll' = [poll EXCEPT ![p] = IF IsOpen(breaker) THEN "idle" ELSE "checking"]
  /\ UNCHANGED <<up, resets, stale, run>>

\* The check returns.
Return(p) ==
  /\ poll[p] = "checking"
  /\ poll' = [poll EXCEPT ![p] = IF up THEN "passed" ELSE "failed"]
  /\ UNCHANGED <<breaker, up, resets, stale, run>>

Succeed(p) ==
  /\ poll[p] = "passed"
  /\ breaker' = RecordSuccess(breaker)
  /\ poll' = [poll EXCEPT ![p] = "idle"]
  /\ stale' = stale \ {p}
  /\ run' = [fails  |-> 0,
             oks    |-> Sat(run.oks + 1, SuccessThreshold),
             waited |-> run.waited,
             early  |-> run.early \/ breaker.state = "OPEN"]
  /\ UNCHANGED <<up, resets>>

InFlight == {p \in Polls : poll[p] # "idle"}

Opens == breaker.state # "OPEN" /\ breaker'.state = "OPEN"

Fail(p) ==
  /\ poll[p] = "failed"
  /\ breaker' = RecordFailure(breaker)
  /\ poll' = [poll EXCEPT ![p] = "idle"]
  /\ stale' = (IF Opens THEN InFlight ELSE stale) \ {p}
  /\ run' = [fails  |-> Sat(run.fails + 1, FailureThreshold),
             oks    |-> 0,
             waited |-> IF Opens THEN 0 ELSE run.waited,
             early  |-> run.early /\ ~Opens]
  /\ UNCHANGED <<up, resets>>

\* cbRegistry.Reset, on the goroutine that reads the reset commands.
Reset ==
  /\ resets < MaxResets
  /\ resets' = resets + 1
  /\ breaker' = ResetBreaker(breaker)
  /\ run' = [fails |-> 0, oks |-> 0, waited |-> run.waited, early |-> run.early]
  /\ UNCHANGED <<up, poll, stale>>

\* Time passes for an OPEN breaker, and the service goes down or comes back.
Tick ==
  /\ breaker' = AgeBreaker(breaker)
  /\ run' = [run EXCEPT !.waited = Sat(@ + 1, Timeout)]
  /\ UNCHANGED <<up, poll, resets, stale>>

Flip ==
  /\ up' = ~up
  /\ UNCHANGED <<breaker, poll, resets, stale, run>>

PollStepOf(p) == Gate(p) \/ Return(p) \/ Succeed(p) \/ Fail(p)

Next ==
  \/ \E p \in Polls : PollStepOf(p)
  \/ Reset
  \/ Tick
  \/ Flip

Spec == Init /\ [][Next]_vars

\* A poll loop's ticker fires forever, a check is bounded by the service's
\* timeout, and time passes.
FairSpec ==
  /\ Spec
  /\ \A p \in Polls : WF_vars(PollStepOf(p))
  /\ WF_vars(Tick)

-----------------------------------------------------------------------------

TypeOK ==
  /\ breaker \in BreakerRecord
  /\ up \in BOOLEAN
  /\ poll \in [Polls -> PollStep]
  /\ resets \in 0 .. MaxResets
  /\ stale \in SUBSET Polls
  /\ run \in Run

\* An OPEN breaker never lets a check start: every check still running was
\* admitted before the breaker opened, however polls, resets and the clock
\* interleave (breaker.go IsOpen and transitionTo).
NoCheckBehindOpen ==
  breaker.state = "OPEN" => InFlight \subseteq stale

\* The breaker probes only after it has waited out Timeout since it opened.
\* The one exception is a check that was already running when it opened and
\* then succeeds (breaker.go:76-78).
HalfOpenIsEarned ==
  breaker.state = "HALF_OPEN" => run.waited = Timeout \/ run.early

\* The circuit opens from CLOSED only on FailureThreshold failures in a row,
\* with no success and no reset among them.  A failure from before a reset
\* that is recorded after it counts as one.
OpensOnlyOnRun ==
  [][breaker.state = "CLOSED" /\ breaker'.state = "OPEN"
       => run'.fails = FailureThreshold]_vars

\* The circuit closes by itself only after SuccessThreshold successes in a
\* row since it opened; anything less needs a reset.
ClosesOnlyOnRun ==
  [][breaker.state # "CLOSED" /\ breaker'.state = "CLOSED"
       => run'.oks = SuccessThreshold \/ resets' # resets]_vars

\* What makes the three state properties above and the two step properties
\* below them inductive: the breaker's own counters are never ahead of what
\* really happened, and its clock is never ahead of the time that passed.
BreakerInv ==
  /\ breaker.consecutiveFails <= run.fails
  /\ breaker.consecutiveOK <= run.oks
  /\ breaker.state = "CLOSED" => breaker.consecutiveFails < FailureThreshold
  /\ breaker.state = "OPEN" => breaker.consecutiveOK = 0
  /\ breaker.state = "OPEN" => breaker.openFor <= run.waited
  /\ NoCheckBehindOpen
  /\ HalfOpenIsEarned

\* A service that comes back for good gets its circuit closed for good,
\* whatever the polls in flight report in between.
RecoversWhenUp == <>[]up => <>[](breaker.state = "CLOSED")

\* A service that stays down is probed again and again, never dropped: the
\* circuit keeps leaving OPEN, and keeps coming back to it.
ProbesWhileDown ==
  <>[]~up => /\ []<>(breaker.state = "OPEN")
             /\ []<>(breaker.state = "HALF_OPEN")
=============================================================================
