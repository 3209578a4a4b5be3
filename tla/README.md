# Infrawatch in TLA+

Infrawatch polls services, decides from the results how healthy each one is,
and reacts: circuit breaking, alerts, incidents, self-healing, events for a
dashboard. This directory holds TLA+ models of that core, the TLC
configurations that check them, and TLAPS proofs of what matters most. Paths
below are relative to `src/apps/`.

Run a model with `tlc -config MCHealing.cfg MCHealing`, a proof with
`tlapm Incidents_proofs.tla`. `PROJECT.json` maps every definition to the lines
it models and lists the runs, the mutants, the hazards and the findings.

## 1. The system

Two Go processes and a browser client. The **engine** (`engine/`) polls and
reacts; the **API** (`api/`) serves the dashboard and sends commands to the
engine. Everything between them goes through Redis streams; both read and write
one TimescaleDB.

| Component | State | Operations | Talks to |
|---|---|---|---|
| Breaker, registry (`engine/internal/circuit`) | per service: state, two counters, time of opening | `IsOpen`, `RecordSuccess`, `RecordFailure`, `Reset`, `Snapshot` | called by poll loops, reset commands |
| Health state machine (`health/state.go`) | per service: state, previous state, two counters, alert floor | `Transition`, floor operations | called by the state manager |
| Poller (`health/poller.go`) | stop channel and configuration per service, a wait group | `poll`, `Start`, `Stop`, `UpsertService`, `RemoveService`, `PollNow` | breaker, checker, state manager, bus |
| Checker (`health/checker.go`) | none | `Check` | the monitored service |
| State manager (`health/state_manager.go`) | the state machines, time of the last heal per service | `Record`, `maybeTriggerHealing`, floors | storage, bus, dispatcher, healer |
| Dispatcher (`alerts/dispatcher.go`) | an outage lifecycle per service | `Dispatch`, `selectChannelsForAlert` | channels, one goroutine per send |
| Channels (`alerts/*.go`) | none | `Send` | Slack, PagerDuty, SMTP, a webhook |
| Storage (`storage/db.go`) | tables: metrics, state changes, incidents, alert history | `WriteStateChange` and other writes, one goroutine each | TimescaleDB |
| Healer (`healing/healer.go`, docker, kubectl) | attempt tracker | `Heal` | Docker, kubectl, a webhook, fallback |
| Fallback registry (`healing/fallback.go`) | active fallbacks | `Reroute`, `ClearFallback` | state manager, healer |
| Bus (`events/bus.go`, `pkg/enginepkg.go`) | a reader's position per subscription | `publish`, `Subscribe` | Redis streams |
| Engine main (`engine/cmd/main.go`) | none | handlers of reset, heal, configuration and alert commands | all of the above |
| Configuration (`engine/config`) | none | load, defaults, validation | |
| Alert signals (`health/alertsignal.go`, `api/handlers/alertmanager_webhook.go`) | the floor, in the state machine | `Handle`, `Receive` | poller, state manager |
| Anomaly detector (`anomaly/`) | a ring of samples per service and hour | `Record` | bus |
| API read model (`api/store/state_store.go`) | services, circuits, metric points | `Initialize`, `Run`, `apply*` | database, bus |
| WebSocket hub (`api/websocket`) | clients with bounded buffers | register, unregister, broadcast | bus, browsers |
| Configuration API (`api/handlers/config_services.go`) | the YAML file | create, update, delete | bus |
| Incident API (`api/handlers/incidents.go`) | none (computed from the stream) | `buildIncidents` | bus |
| Rate limiter (`api/middleware/ratelimit.go`) | a window per address | `allow`, `cleanup` | |
| Frontend, Docker files, scripts, demo services | | | |

**What is hard about it.** One goroutine per service polls, and nothing it calls
is under one lock: the breaker, the state machine, the dispatcher and the
tracker each have their own. Alert sends, database writes and heals run on
goroutines nobody waits for. Services depend on each other and read each
other's state while it changes. Operators reset breakers and start heals at any
moment, and edit the configuration while its loops run. Commands and alert
signals cross a stream that forgets what nobody was reading. Browsers read as
slowly as they like from bounded channels. The hazards list in `PROJECT.json`
names each place.

**What makes each part correct.**
A breaker opens and closes on the run of results it promises to count, holds
checks back while open, and neither sticks nor gives up.
The state machine's states mean what the results say.
The sinks of a state change agree with the state machine; everything recovers
when the services do.
Alerts announce each outage once, to whoever must know, and never leave an old
alarm standing.
There is one incident per outage, opened and closed, whatever fails.
Heals are bounded but never starve, and one that is quick enough leaves no
fallback behind its outage.
The engine runs what the configuration file says, in one loop per service.
An external alert that fires takes its service down, and its end lets it up.
A browser on the WebSocket misses nothing of what the hub takes, or is let go
(what finds the hub's broadcast channel full is dropped for all of them,
`hub.go:67-72`).
The dashboard's two ways of telling outages tell of the same ones.

## 2. The modules

```
Breaker --------------- BreakerPolling ------- MCBreakerPolling
   |
   +------ HealthMonitor ------------- MCHealthMonitor
   |            |       \------------- HealthMonitor_proofs
HealthFSM -- Dispatcher -- AlertLifecycle ---- MCAlertLifecycle
   |    \                    |    \----------- AlertLifecycle_proofs
   |     HealthFSM_proofs    OutageNotice (abstract)
   +------ Incidents ------ IncidentViews ---- MCIncidents
   |                             \------------ Incidents_proofs
   +------ Healing -------- MCHealing
   +------ ReadModel ------ MCReadModel
   |            \---------- ReadModel_proofs
   +------ PassiveService - MCPassiveService      (also on Breaker)
                |
Subscription ---+
                |
            HotReload ----- MCHotReload
                   \------- HotReload_proofs
Hub ----------------------- MCHub
  \------------------------ Hub_proofs

BreakerPolling + Healing + PassiveService ---- Service_proofs
```

`Service_proofs` extends three models of one service at once, so `Healing` and
`PassiveService` have names of their own for what the others call `Spec`,
`Next`, `vars` and so on (`HealSpec`, `PassiveSpec`).

**`Breaker`** has one operator per method of `circuit/breaker.go`, on a record;
every method holds the lock throughout, so each is one step of its caller. The
counters are compared with their thresholds only and are kept saturated there;
`openedAt` is read only as `time.Since(openedAt) >= Timeout`, so it is a number
of ticks, saturated at `Timeout`. **`BreakerPolling`** puts it under several
polls of one service (`Gate`, `Return`, `Succeed`, `Fail`: `poll` before, during
and after the check), the reset command and the clock. `run` and `stale` are
history variables: they count what happened without looking at the breaker's
fields, and the properties compare the two.

**`HealthFSM`** is `ServiceState.Transition` with the table of
`computeNextState`; its counters saturate at 5 and 3, the largest constants in
the table (`SaturationIsExact` proves this loses nothing).

**`Dispatcher`** is `selectChannelsForAlert`: which channels, and the lifecycle
afterwards.

**`HealthMonitor`** is `Poller.poll` and `StateManager.Record` of several
services side by side, in the steps between which other goroutines can run:
gate, check, one look per dependency, breaker, snapshot, circuit event,
transition, then the database, the stream and the dispatcher. A sink is told
`Told(p)`: the state `Transition` returned, and the `PreviousState` field as it
is when the sink is called, since the code reads it without the lock.
`Followed` says which services' sinks a run records; sinks do not feed back into
polling, so this leaves no behaviour of the rest out.

**`AlertLifecycle`** follows one service's alerts from the result to the
reader: the poll and the dispatch are one step (which `SinksAgree` justifies for
one loop per service), sends are goroutines that take time, arrive or fail, in
any order. **`OutageNotice`** is the abstract specification: an outage is
announced, may be announced to more, and its end is told to all who were told of
it, at once. `AlertLifecycle` implements it under the mapping in `Promise`.

**`Incidents`** is `WriteStateChange` and `handleIncident`, one SQL statement at
a step, each state change on a goroutine of its own. Statements fail with or
without effect; the engine crashes and comes back in `UNKNOWN` while the tables
stay.

**`IncidentViews`** extends `Incidents` with what the API shows of it. Each
statement also leaves its mark in `tables`, in the order of `NOW()`, with the
number of state changes before it as its time, and each state change leaves its
state in `events`; `queryTimeline` reads the one (`db_reader.go`),
`buildIncidents` and `worstState` the other (`handlers/incidents.go`). The two
draw different lines: the table counts from UNHEALTHY to RECOVERING and opens
anew after a relapse, the stream from DEGRADED to HEALTHY.

**`Subscription`** is one reader of a command stream: `Bus.Subscribe` from "$",
as operators on a record that two modules share.

**`HotReload`** follows one service's configuration: `Create`, `Update` and
`Delete` save the file and publish the command under `configMu`; the engine
reads the file when it starts, then its subscriber applies commands with
`UpsertService` (whose `wg.Add` and `go` come after the lock, so `Spawn` is a
step of its own) and `RemoveService`; each loop polls, selects and ends
(`runServiceLoop`). Either process crashes at any step, and the engine also
stops in order: cancel, `Stop`, ten seconds, exit. An edit is named by its
number; `lost` remembers whether the newest one's command will never be read.

**`PassiveService`** follows alerts of one passive service: Alertmanager
notifies until it has a 2xx and repeats what fires, `Receive` publishes or
fails to, `HandleSignal` sets or clears the floor and polls at once beside the
service's loop. A poll is two steps, the looks at circuit and floor (`Look`) and
the feeding of breaker and state machine (`Result`): what lies between the two
feeds is `HealthMonitor`'s subject, and no property here relates them.

**`Hub`** is the WebSocket hub: the cases of `Run`'s select, the broadcaster,
the handler of each connection, the goroutine per message that a full client
missed, the shutdown. Every channel has its capacity; a second close or a send
after a close panics.

**`Healing`** is `Record` in two steps, the cooldown, the attempt tracker,
`Heal`'s loop over the configured actions, and manual heals. `Poll` is `Record`
up to the transition, from which on the state is visible; `RecordEnds` is its
end, after the writes to the sinks: heal on DEAD, clear the fallback on HEALTHY.
Heal goroutines, heal commands and the clock run between the two, so that
readers meet a HEALTHY service with its fallback still registered. `lived` is a
history variable: the polls since a heal was started, by a death or by a command,
on a service that was UNHEALTHY or DEAD. `slow` remembers whether the heal that
registered the fallback had lived as long as a recovery takes.

**`ReadModel`** follows one service's state from the engine to the dashboard:
the poll, the database writer, the stream with its trimming, the API's
`Initialize` and `Run`, and the loop of `Subscribe` with its place in the stream
(`reader`), where "$" is resolved anew by every `XREAD` until a first message is
read. Row inserts and XADDs fail, reads time out or fail, the API restarts. The
stream of metrics is not kept: a metric with any state may arrive at any time,
which is more than the code can do and matters only to a store that does not
know the service. A batch is handled message by message without being taken
from the stream first, so trimming may take a message the code already holds;
that too only adds behaviours.

## 3. What is checked

| Run | Instance | Shows | Size |
|---|---|---|---|
| `breaker` | 2 polls of one service, thresholds 2 and 2, timeout 2, 1 reset | opening and closing are earned, no check starts behind an open circuit, it closes for good when the service is back and keeps probing while it is down | 4,864 states |
| `monitor` | `web` depends on `db`, one loop each, thresholds 2 and 1, timeout 1; `web`'s sinks followed | sinks and circuit events agree with the state between polls, events chain, an outage reaches the dependents, all recover | 415,344 states |
| `dependency_cycle` | the same, each depending on the other | **violated**: they hold each other down | |
| `alerts` | 2 enabled channels and one that is not; rules that name different channels for DEAD; escalation on; results 3 ticks apart, sends of up to 2 | no stale alarm, whoever is named knows, no repeats, recovery told once to exactly the alerted, `OutageNotice` implemented, states earned | 3,478 states |
| `page_on_dead` | the default rules, escalation off (the default) | **violated**: DEAD never pages | |
| `incidents` | results 3 ticks apart, writers of up to 2, one fault, 9 state changes | one incident per outage, opened and closed, history in order; the two views of the API tell of the same outages, a resolved timeline ends with its recovery | 95,196 states |
| `healing` | 2 heal goroutines, a restart before the fallback, cooldown 2, 2 attempts | attempts bounded, no undue refusal, no starvation, a heal that takes less than three polls leaves no HEALTHY service rerouted | 292,508 states |
| `read_model` | a stream of 2 entries | a store that has its place shows the current state, a seeded store never goes back, a replaying one converges | 718,508 states |
| `seed_gap` | the same | **violated**: a seeded store misses a change | |
| `hot_reload` | 3 edits, 3 loops at once, 2 crashes or stops | one loop per service and of the newest configuration, the engine matches the file unless the last command was lost, never goes back, every old loop ends | 168,678 states |
| `passive` | 2 alerts, 1 signal in the stream, 1 restart, thresholds and timeout 1 | a floor stands for an alert or a lost resolution, what fires goes DEAD, what is resolved comes back | 311,868 states |
| `hub` | 2 browsers, every channel of capacity 1, 4 messages | no gap in what a member is sent, no panic, whoever is dropped is let go | 545,703 states |

**Why the bounds are enough.** Two polls are the least at which a result is
older than the state it meets, and three would add no kind of step. Thresholds
of 2 tell "first" from "last" of a run. One reset, sent at any time, finds every
breaker state. Two services make every edge of a dependency; a chain is what
validation would accept of a graph without cycles, link by link. Two enabled
channels tell "alerted" from "named now"; the third covers the skipping of
channels that are not enabled. One fault anywhere is the strongest claim that
holds: with two, the insert of UNHEALTHY and that of DEAD may both fail and a
DEAD service has no incident. `MaxOpen = 2` is one more than the property
allows. Cooldown 2 with 2 attempts is the smallest instance in which two windows
meet. Two heal goroutines let a manual heal overlap an automatic one; the end of
a `Record` that would start a third waits, which the code never does, so the runs say
nothing of three heals at once. A stream of two entries has a read, an unread
and a trimmed one; changes older than the newest need not be told apart further
(`MaxAge`), since every property compares with the newest.

Nine state changes are two outages, the second with a relapse. Three loops are
the current one and two that still poll; an edit that would need a fourth
waits for one of them, which the code never does. Capacity 1 makes every
channel full and empty; four messages let a client join, miss one, and be
removed while another is handed out. With one signal in the stream, one more
that would be published meanwhile is either lost or waits.

Every passing property has a mutant in `PROJECT.json`: a plausible bug of the
code, as an operator beside the one it changes, under which TLC finds the
property violated.

**Fairness.** `incidents`, `alerts`, `page_on_dead` and `seed_gap` have safety
properties only; the other runs use a `FairSpec`. Weak fairness of a poll's
steps: its ticker fires for ever and every call it makes returns, since checks
have the service's timeout, and sinks are asynchronous or go to Redis through a
client with timeouts; the end of `Record` in `Healing` is fair for the same
reason. Weak fairness of `Tick`: time passes. Weak fairness of a heal's steps:
goroutines run, and the calls of an action come back; the webhook's client has a
timeout, kubectl and the Docker client have none of their own, so of these it is
an assumption, on which `HealedAgainAndAgain` alone rests.
In `read_model`, weak fairness of the poll's calls, the writer,
the start of the store and of asking again, and strong fairness of handling a
message: reads may fail again and again, but not all of them. In `passive` the
same of signals, for alerts that keep being notified, and weak fairness of the
polls and the clock. In `hot_reload`, weak fairness of the start of a loop and
of the end of a poll, and strong fairness of a loop's end: its select chooses
at random among the ready cases, so the ticker does not win for ever. Nothing is
assumed of edits, commands or the engine's start. In `hub`, weak fairness of the
cases of `Run`'s select (no case that stays ready is left out for ever) and of a
connection's pump, whose writes have a deadline of ten seconds, and strong
fairness of a goroutine that waits for room in `unregister`, since Go serves
senders in turn. Nothing is assumed of services going up or down, resets or manual
heals; the properties say under which of them they hold.

**Time.** `Interval` in `AlertLifecycle` and `Incidents` is the least time
between two *results*: the poll interval less the time a check may take, because
a check's duration varies and the ticker does not wait for it. `SendTimeout` is
the HTTP clients' 10 s (`slack.go`, `pagerduty.go`, `webhook.go`); `email.go`
sets none and is outside the claim. `WriteTimeout` is the 5 s of
`db.go:294`. The runs have results further apart than these times, as a
poll loop on its own has them with the defaults and `infrawatch.example.yaml`
(30 s, checks of 5 s). Three things bring results closer: the demo's interval
(`test/infrawatch.demo.yaml`, 5 s), `PollNow` (`poller.go:131`, once per alert of
a webhook payload, for passive services) and the immediate first check of a loop
that a reload starts (`:172`). In these cases the overlaps that the hazards name
at `dispatcher.go:114`, `db.go:334` and `db.go:293` do happen: sends of two
results and writers of two changes are alive at once. The assumption excludes
them, so the runs and the proofs about alerts and incidents are about faults,
crashes, relapses and the order of sends of one result, and say nothing of such
overlaps. Section 5 says what happens then.

## 4. What is proved

For every value of the constants that meets the modules' `ASSUME`s and the
hypothesis in the third column, if there is one.

| Module | Theorems | Hypothesis |
|---|---|---|
| `Service_proofs` | of `BreakerPolling`: types; `NoCheckBehindOpen`, `HalfOpenIsEarned`, `OpensOnlyOnRun`, `ClosesOnlyOnRun` | |
| | of `Healing`: types; `AttemptsBounded`, `RefusedOnlyWhenUsedUp`, `QuickHealsLeaveNoReroute` | |
| | of `PassiveService`: types; `FloorStandsForAlert` | |
| `HealthFSM_proofs` | saturation is exact; `Transition` is typed; `StateMatchesRun` is inductive; the only edges | |
| `HealthMonitor_proofs` | types | |
| | `SinksAgree`, `CircuitViewAgrees`, `EventsChain` | one poll loop per service (`OneLoopEach`) |
| `AlertLifecycle_proofs` | types; `StateIsEarned`, `LifecycleInv`, `KeepsPromise`, `NoRepeats`, `RecoveryReachesTheAlerted` | |
| | `NoStaleAlarm` | `SendTimeout < Interval` |
| | `RuledChannelsKnow` | the same, and `Escalate` |
| `Incidents_proofs` | types; `AtMostOneOpen`, `HistoryIsCurrent` | `WriteTimeout < Interval` |
| | `HealthyHasNone`, `DeadHasOne` while there was at most one fault | the same |
| | `IncidentViews` implements `Incidents` | |
| | `OneOutageTwoViews`, `TimelineEndsWithRecovery` | `WriteTimeout < Interval` |
| `ReadModel_proofs` | types; `AnchoredIsCurrent`, `NeverBackwards` | |
| `HotReload_proofs` | types; `OneLoopPerService`, `RunningMatchesFile`, `NeverBackwards` | |
| `Hub_proofs` | types; `NeverPanics`, `NoSilentGap` | |

**The hypotheses** on time are what the defaults meet and validation does not
enforce: `SendTimeout` and `WriteTimeout` are 10 s and 5 s in the code, and the
results of a poll loop on its own are then at least 25 s apart, which a
`PollNow`, a reload or the demo's interval undoes (section 3, *Time*). Without `WriteTimeout < Interval` a service has
two open incidents (section 5), and without `SendTimeout < Interval` an alarm
may arrive after its recovery. `Escalate` is what the run `page_on_dead` is
about: without it the claim is false.
`OneLoopEach` holds from `Start` on except while `PollNow` runs or an old loop
ends its last check after a reload (`poller.go:86-111`); what the sinks are told
by two polls of one service, and the reset handler's circuit event
(`main.go:180`) beside a poll's, are outside the run and the proofs. `HotReload`'s
`OneLoopPerService` says that there is one loop again afterwards. The types of
`HealthMonitor` are proved without it.

**The arguments.**

- *Breaker.* `BreakerInv`: the breaker's counters never exceed the history's,
  and its clock never exceeds the time waited. Neither state property is
  inductive alone: a step's counters must be tied to what happened before it.
  The step properties follow from the invariant before the step.
- *State machine.* Case analysis of the table. `AllowedEdges` needs
  `StateMatchesRun`: the table alone would allow more.
- *Monitor.* `SinksAgree` speaks of services between two polls only, so it says
  nothing of the step that leads there. `MonInv` says how far each poll is: what
  it carries in its locals is its service's state (`Carries`), each sink it has
  passed was told the newest transition, and until it has published, the stream
  ends in the state before. Only `Record` changes the state and only `p` changes
  what is told of `Target[p]`: `OthersKeep` is that frame argument, once for all
  actions. `EventsChain` is `StreamTold` at the moment of `Publish`.
- *Alerts.* `LifecycleInv` (the lifecycle is open exactly during an outage and
  names exactly the channels last told of it) with types and `StateMatchesRun`
  is inductive; under it each dispatch maps to `Begin`, `Worsen`, `End` or a
  stutter. `NoRepeats` adds `MemInv`: the state remembered is no milder than what
  any channel was told, so what is sent again is worse; with escalation it is
  the service's own. `NoStaleAlarm` and `RuledChannelsKnow` add `Heard`: a send
  in flight is about what its channel was last told, and a channel with none
  shows that. It is inductive because no send is younger than the last result,
  so a result finds none in flight.
- *Incidents.* At most one writer is alive, since its age is the time since the
  last result, and a writer about to open found none open; without that a count
  made earlier could be stale. `LogInv` follows the faults: with none so far the
  newest row is the state or that of the writer on its way; with one, a
  RECOVERING that did not close is followed by a HEALTHY that does, and an
  UNHEALTHY that did not open by a DEAD that does. `MaxFaults` may be anything.
- *Views.* Every step of `SpecViews` is a step of `Incidents` or leaves its
  variables alone, so all of the above holds of the tables the API reads.
  `ViewsTell` relates tables and stream while nothing has failed. A row precedes
  the opening or closing of its change and marks are in the order of changes
  (`MarksTell`, `MarksInOrder`, `LastMark`); from an opening on, every change is
  to UNHEALTHY or DEAD until the one that is about to resolve it (`EachOutage`);
  each change to one of these lies within such a stretch once its writer is done
  (`OutageHasIncident`, for which `LogInv` gives that an open incident and an
  outage go together); and every change of the stream that is not healthy is in
  one of its outages (`StreamCovers`). With one writer at a time a step is one of
  six (`StepTells`), with a lemma each. The worst state of an outage is UNHEALTHY
  or DEAD iff it saw one of these. A table's incident cannot begin before the
  stream's outage, because the change before that was healthy; and a timeline's
  last row is the one whose change resolved it, since all rows in between are
  within the stretch.
- *Healing.* The heals in the last ticks are a finite set of pairs, of an age and
  a number, so that sums are cardinalities. `WindowsInv`: while a window is open,
  the tracker's count is the number granted since its first attempt, and fewer
  than `MaxAttempts` are left of the window before; once it has elapsed, fewer
  than `MaxAttempts` are left at all, because its own first attempt has just
  passed out of reach. A tick moves the set by one age, a bijection
  (`StretchGrantsAge`). Two windows in one stretch hold at most `MaxAttempts` and
  `MaxAttempts - 1` heals.
- *Fallback.* `QuickHealsLeaveNoReroute` is not inductive: it must be known that
  a heal younger than three polls finds its service not yet back. `RerouteInv`
  says so, with a bound on the good checks in a row, which `StateMatchesRun`
  starts at none when the service dies; the table needs three of them
  (`NotYetRecovered`). What such a heal registers is there before the transition
  to HEALTHY, and that one's `Record` is yet to clear.
- *Passive services.* `FloorInv`: the alert that set the floor, or that a signal
  in the queue will set it for, fires, or its resolution is owed, was lost, or is
  queued behind that signal. Handling moves the queue by one and sets the floor
  for its head; whatever else takes a signal away makes its resolution lost.
- *Read model.* `ReadInv` ties the stream, the place and the view together: the
  entries are in the order of the changes and the last one is the service's
  state when its poll is over; the view is the entry before the place; and
  before a seeded store's place there is nothing older than its view. Trimming
  moves entries and place by the same amount (`AddMoves`). A metric could break
  this only in a store whose view is blank, and a view that was read is not.
- *Hot reload.* `LoopsInv` adds to `OneLoopPerService` that a loop yet to be
  started is not running, or its end would reopen its channel, and that a
  process that is down has nothing. `InOrder`: the commands on their way are in
  the order of their edits, between what the engine has and what the file has;
  `NewestIsFile`: the last of them is the newest edit's, unless that was lost.
  The queue may be of any length, which no run can show.
- *Hub.* `JoinsOnce`: whoever waits in `register` is there once, was sent
  nothing and has an open channel, so a member's channel is open until `Run`
  lets it go. With it each step keeps what was written to a member, followed by
  what its channel holds, equal to what was handed out since it joined.
  `Counted` bounds the goroutines that ask for a removal.

TLC checked every inductive invariant on the runs' instances, or larger ones,
before it was proved.

**Only model-checked.**

- All liveness: TLAPS does not do fairness here.

Every invariant and action property of a passing run is proved, for
`HealthyHasNone` and `DeadHasOne` with the one fault of the run as a hypothesis.
What
`buildIncidents` and `queryTimeline` compute is defined by what their results
are, not by the loop or the query that makes them; that the loop of
`incidents.go:394-428` yields those sets is read off the code.

## 5. Findings

1. **Dependency cycles never recover** (`config/validator.go:107`,
   run `dependency_cycle`). Only direct self-dependency is refused. A dependency
   counts "because it cannot serve real traffic without the dependency"
   (`poller.go:224-227`); in a cycle both services could, and both stay DEAD.
2. **The default rules never page** (`alerts/dispatcher.go:163`,
   run `page_on_dead`). `config.go:254` says "page on DEAD"; with
   `escalate_on_worsening` off a worsening is a repeat, and DEAD always is a
   worsening. `readme.md:221`, `docker/engine.yaml:15` and the demo turn it on;
   `infrawatch.example.yaml` does not have the key.
3. **A seeded dashboard misses a change** (`api/store/state_store.go:139`, run
   `seed_gap`) that falls between the database read and the first `XREAD`, and
   shows the state before it until the next change.

Met on the way, without a run:

- **Two open incidents** (`storage/db.go:334-341`, against the comment at 333
  that a second record is not opened) when a service's results come faster than
  a writer's five seconds and the database is slow: the writers of UNHEALTHY and
  DEAD both count none. The validator allows any interval that is not negative.
  With `Interval = 1` and `WriteTimeout = 3`, TLC violates `AtMostOneOpen`.
- **The healer's window is fixed, not sliding** (`healing/healer.go:45-63`,
  against `infrawatch.example.yaml:173`): attempts late in one window and early
  in the next add up. `AttemptsBounded` is the bound that holds. The API's rate
  limiter is of the same kind (`ratelimit.go:44`): two windows can meet in the
  time of one, so up to twice the limit is let through, and the first request
  of a window is let through whatever the limit is.
- **A timeline lacks the change that opened the incident**
  (`db_reader.go:297`): its row is written before `started_at`, although
  `db_reader.go:245` says "full state-change timeline". The comment at 291
  gives the window as `[from, to)`; the query includes `to`, which is what makes
  the timeline end with the recovery (`TimelineEndsWithRecovery`).
- **A lost resolution keeps the floor**: the webhook answers 202 even when it
  could not publish (`alertmanager_webhook.go:107`), so Alertmanager does not
  send it again, and a passive service stays DEAD until another alert of it is
  resolved. `FloorStandsForAlert` has `lost` for this.
- **The first alert that resolves clears the floor for all**
  (`health/state.go:103`): until the other is notified again, a service with a
  firing alert recovers. `FiringGoesDown` says that it does not last.
- The immediate re-evaluation promised by `alertsignal.go:18-21` is a synthetic
  failure while the circuit is open (`poller.go:192`).
- `poller.go:61` says that `Stop` waits for the loops to drain; one whose
  `UpsertService` is between lock and `wg.Add` may be missed. It ends all the
  same (`OldLoopsEnd`), since its channel or its context is closed.
- `engine/cmd/main.go:252` cancels the checks under way before the loops are
  stopped: each counts as a failure and may open an incident at a shutdown.
- A command published while the engine's subscriber has read nothing yet and is
  between two `XREAD`s is lost (`bus.go:142`); the API has answered 201. The
  engine differs from the file until the next command for the service or a
  restart. `RunningMatchesFile` has `lost` for this.
- A removed service keeps its last state (`poller.go:141-156` leaves the state
  manager alone): who still depends on one that was DEAD stays down.
- After the hub's shutdown a client that is registered but not yet a member is
  never closed, and its handler waits for ever (`hub.go:87-96`); "Drain" in the
  comment at 88 drains nothing. The process ends soon after.
- `has_more` compares with the limit that was asked for, while
  `QueryIncidents` clamps it to 500 (`incidents.go:168`, `db_reader.go:196`).
  Without a database, an open incident's ID changes when its first change falls
  out of the newest 2000 messages (`incidents.go:238, 424`).
- The latency detector adds a sample before it takes the baseline
  (`latency.go:107`): below 20 samples the 95th percentile is the maximum, so
  with a multiplier above 1 nothing can be reported.
- `circuit/breaker.go:77` calls a success while OPEN something that should not
  happen; with two polls in flight it does (`run.early` records it).
- `engine/cmd/main.go:109` stores a possibly nil `*storage.DB` in an interface.
  Without a DSN the dispatcher's nil test (`dispatcher.go:186`) does not see it,
  and `WriteAlertHistory` dereferences it on the first delivered or failed
  alert, although `main.go:120` says that nil is fine.
- A circuit event that reaches the API before the service is known there is
  kept but not shown: `state_store.go:253` fills the view of a known service
  only, and a view created later (`:193`, `:238`) does not copy it. The next
  poll's circuit event does.
- **A late heal leaves its fallback** (`healing/fallback.go:87`, against
  `state_manager.go:145`, "Clear the fallback reroute once the service is healthy
  again"). It is cleared once, after the transition; a heal that is still at an
  earlier action then registers it afterwards, and it stays until the next
  recovery. With the default interval a heal has a minute and a half before this
  can happen, the three polls of `QuickHealsLeaveNoReroute`; kubectl calls and
  Docker's start have no timeout. A heal command for a service that is not down
  does the same at once. Without `slow` in the property TLC shows it on the run
  `healing`. Nothing in the engine reads the registry yet.
- `infrawatch.example.yaml:166` calls `HEALTHY: []` a silent recovery; recovery
  goes to whoever was alerted, whatever the rules say.
- `readme.md:59` heals "on state degradation"; the code heals on DEAD only.
- The API keeps an active-fallback registry of its own
  (`api/handlers/services.go:21`) that nothing fills.

## 6. What is not modelled, and the plan

Left out for good: the frontend, packaging and demo services (no state the rest
depends on); configuration loading, message formats and rendering (text); HTTP,
SMTP, Docker and kubectl details (each is a success or a failure here);
authentication and CORS (stateless); API handlers that turn a request into one
command or one read; the rate limiter and the anomaly detector (sequential code
under one lock, whose arithmetic section 5 gives); the API's circuits
(`UpdateCircuit`), which hold the last snapshot received.

Still to come: the removal of services in `HealthMonitor`, with what becomes of
their dependents (`poller.go:141-156`).
