----------------------------- MODULE ReadModel -----------------------------
(***************************************************************************)
(* How one service's state gets from the engine to the dashboard.  On a    *)
(* state change the engine's poll starts a database writer and publishes   *)
(* the change (StateManager.Record); the API's store is seeded from the    *)
(* newest database row and then follows the Redis streams, each with a     *)
(* subscriber of its own (api/store/state_store.go, Bus.Subscribe in       *)
(* engine/pkg/enginepkg.go).  The API may restart at any moment with an    *)
(* empty store.                                                            *)
(*                                                                         *)
(* A stream keeps its last MaxLen entries, and a subscriber's place in it  *)
(* is the number of kept entries it is past.  The stream of metrics keeps  *)
(* thousands of polls and its subscriber may be anywhere in it, so it is   *)
(* not kept: a metric with any state may arrive once the service has been  *)
(* polled.  Results are further apart than a database writer lives         *)
(* (module Incidents), so a poll finds the last one done.                  *)
(*                                                                         *)
(* `age' is history: the number of state changes since the one an entry,   *)
(* the row or the view tells of, up to MaxAge.                             *)
(***************************************************************************)
EXTENDS HealthFSM, Sequences

CONSTANTS
  MaxLen,   \* streams.MaxLen
  MaxAge    \* bound: ages told apart

ASSUME ReadModelAssumption == MaxLen \in Nat \ {0} /\ MaxAge \in Nat \ {0}

VARIABLES
  fsm,      \* the service's ServiceState
  todo,     \* what the poll under way has left to do
  writer,   \* is there a database writer, for the newest change?
  row,      \* the newest row of state_changes
  log,      \* the stream of state changes
  dropped,  \* history: did the XADD of the newest change fail?
  api,      \* is the API "seeding" its store or "running"?
  seeded,   \* did Initialize load the store's state?
  start,    \* redisStartID
  view,     \* the store's State of the service
  reader    \* the subscriber to the state changes

engineVars == <<fsm, todo, writer, row, dropped>>
apiVars    == <<api, seeded, start, view>>
vars       == <<engineVars, log, apiVars, reader>>

Dated == [st : State \cup {""}, age : 0 .. MaxAge]

\* No row, no view.
Nothing == [st |-> "", age |-> MaxAge]

\* id is "$" until the first message is read or a place is given; next counts
\* the kept entries before the one XREAD will return; waiting: XREAD is on.
Reader == [id : {"$", "at"}, next : 0 .. MaxLen, waiting : BOOLEAN]

Subscriber(from) ==
  [id |-> IF from = "$" THEN "$" ELSE "at", next |-> 0, waiting |-> FALSE]

Init ==
  /\ fsm = NewServiceState
  /\ todo = <<>>
  /\ writer = FALSE
  /\ row = Nothing
  /\ log = <<>>
  /\ dropped = FALSE
  /\ api = "seeding"
  /\ seeded = FALSE
  /\ start = "0"
  /\ view = Nothing
  /\ reader = Subscriber("0")

-----------------------------------------------------------------------------

Older(d) == [d EXCEPT !.age = CountTo(@ + 1, MaxAge)]

\* One poll: the transition; the calls that follow are steps of their own.
Poll(ok) ==
  /\ todo = <<>> /\ ~writer
  /\ fsm' = Transition(fsm, ok)
  /\ IF Changed(fsm, ok)
       THEN /\ todo' = <<"row", "change">>
            /\ row' = Older(row)
            /\ view' = Older(view)
            /\ log' = [i \in DOMAIN log |-> Older(log[i])]
       ELSE UNCHANGED <<todo, row, view, log>>
  /\ UNCHANGED <<writer, dropped, api, seeded, start, reader>>

Doing(step) == todo # <<>> /\ Head(todo) = step /\ todo' = Tail(todo)

\* XADD with MAXLEN: the oldest entry goes, and every place moves with it.
Add(entry) ==
  LET full == Len(log) = MaxLen IN
  /\ log' = Append(IF full THEN Tail(log) ELSE log, entry)
  /\ reader' = [reader EXCEPT !.next = IF full /\ @ > 0 THEN @ - 1 ELSE @]

WriteStateChange ==
  /\ Doing("row")
  /\ writer' = TRUE
  /\ UNCHANGED <<fsm, row, dropped, log, apiVars, reader>>

\* An XADD that fails is logged and forgotten.
PublishStateChange ==
  /\ Doing("change")
  /\ \/ Add([st |-> fsm.cur, age |-> 0]) /\ dropped' = FALSE
     \/ dropped' = TRUE /\ UNCHANGED <<log, reader>>
  /\ UNCHANGED <<fsm, writer, row, apiVars>>

\* The writer's insert succeeds or fails.
InsertRow ==
  /\ writer
  /\ writer' = FALSE
  /\ row' \in {row, [st |-> fsm.cur, age |-> 0]}
  /\ UNCHANGED <<fsm, todo, dropped, log, apiVars, reader>>

-----------------------------------------------------------------------------

\* The API restarts with a new store.
NewStateStore ==
  /\ api = "running"
  /\ api' = "seeding"
  /\ seeded' = FALSE
  /\ start' = "0"
  /\ view' = Nothing
  /\ UNCHANGED <<engineVars, log, reader>>

\* Mutant: the subscriptions replay the streams over the seeded state.
Initialize_ReplaysAll ==
  /\ view' = row
  /\ seeded' = TRUE
  /\ start' = "0"

\* GetLastStatesPerService and what Initialize makes of it.
Initialize ==
  /\ view' = row
  /\ seeded' = TRUE
  /\ start' = "$"

\* Initialize, if there is a database and it answers, then Run.
Run ==
  /\ api = "seeding"
  /\ api' = "running"
  /\ Initialize \/ UNCHANGED <<view, seeded, start>>
  /\ reader' = Subscriber(start')
  /\ UNCHANGED <<engineVars, log>>

\* Subscribe issues an XREAD: "$" is wherever the stream ends by then.
Read ==
  /\ api = "running"
  /\ ~reader.waiting
  /\ reader' = [reader EXCEPT !.waiting = TRUE,
                              !.next = IF reader.id = "$" THEN Len(log) ELSE @]
  /\ UNCHANGED <<engineVars, log, apiVars>>

\* Mutant: the place is forgotten and "$" is asked for again.
Retry_Forgets(r) == Subscriber("$")

\* The next XREAD has the same lastID.
Retry(r) == [r EXCEPT !.waiting = FALSE, !.next = IF r.id = "$" THEN 0 ELSE @]

\* Two seconds without a message, or an error.
NoAnswer ==
  /\ api = "running"
  /\ reader.waiting
  /\ reader' = Retry(reader)
  /\ UNCHANGED <<engineVars, log, apiVars>>

applyStateChange(entry) == view' = entry

\* The handler is called with the next message, whose ID becomes lastID.
Handle ==
  /\ api = "running"
  /\ reader.waiting
  /\ reader.next < Len(log)
  /\ applyStateChange(log[reader.next + 1])
  /\ reader' = [reader EXCEPT !.id = "at", !.next = @ + 1]
  /\ UNCHANGED <<engineVars, log, api, seeded, start>>

\* Mutant: every metric sets the state.
applyMetric_Overwrites(st) == view' = [st |-> st, age |-> MaxAge]

\* A metric sets the state of a service the store does not know, only.
applyMetric(st) ==
  view' = IF view.st = "" THEN [st |-> st, age |-> MaxAge] ELSE view

HandleMetric(st) ==
  /\ api = "running"
  /\ fsm.cur # "UNKNOWN"
  /\ applyMetric(st)
  /\ UNCHANGED <<engineVars, log, api, seeded, start, reader>>

PollStep == WriteStateChange \/ PublishStateChange

Next ==
  \/ \E ok \in BOOLEAN : Poll(ok)
  \/ PollStep
  \/ InsertRow
  \/ NewStateStore
  \/ Run
  \/ Read
  \/ NoAnswer
  \/ Handle
  \/ \E st \in State \ {"UNKNOWN"} : HandleMetric(st)

Spec == Init /\ [][Next]_vars

\* The poll and the writer go on, the store starts, and of the reads that are
\* tried again and again some are answered.
FairSpec ==
  /\ Spec
  /\ WF_vars(PollStep)
  /\ WF_vars(InsertRow)
  /\ WF_vars(Run)
  /\ WF_vars(Read)
  /\ SF_vars(Handle)

-----------------------------------------------------------------------------

TypeOK ==
  /\ fsm \in ServiceState
  /\ todo \in {<<>>, <<"row", "change">>, <<"change">>}
  /\ writer \in BOOLEAN
  /\ row \in Dated
  /\ log \in Seq(Dated) /\ Len(log) <= MaxLen
  /\ reader \in Reader
  /\ dropped \in BOOLEAN
  /\ api \in {"seeding", "running"}
  /\ seeded \in BOOLEAN
  /\ start \in {"0", "$"}
  /\ view \in Dated

\* The engine is between two polls and the subscriber to the changes, which
\* knows its place, has read them all; the one to the metrics may lag.
CaughtUp ==
  /\ api = "running"
  /\ todo = <<>>
  /\ reader.waiting
  /\ reader.next = Len(log)

\* A store that has its place in the stream of changes shows the state the
\* service is in, however it was seeded, whatever the metrics say and whatever
\* was trimmed, unless the newest change never got into the stream.
AnchoredIsCurrent ==
  CaughtUp /\ reader.id = "at" /\ ~dropped /\ log # <<>>
    => view.st = fsm.cur

\* "pre-populates the in-memory store so the dashboard shows correct data
\* immediately after a restart" (state_store.go:97-99): with the newest change
\* in the database and in the stream, a store that was seeded from a row shows
\* it.
SeededIsCurrent ==
  CaughtUp /\ seeded /\ ~dropped /\ row.age = 0 /\ view.age < MaxAge
    => view.st = fsm.cur

\* A seeded store never goes back: it replaces what a row or an event told it
\* only with something as new (state_store.go:101-102 starts at "$" for that).
NeverBackwards ==
  [][seeded /\ seeded' /\ fsm' = fsm => view'.age <= view.age]_vars

\* A store that replays the streams ends up with the service's state when that
\* settles, through timeouts and errors of its reads.
ReplayConverges ==
  \A st \in State \ {"UNKNOWN"} :
    <>[](api = "running" /\ ~seeded /\ ~dropped /\ fsm.cur = st) => <>[](view.st = st)
=============================================================================
