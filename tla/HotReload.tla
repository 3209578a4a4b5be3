------------------------------ MODULE HotReload ------------------------------
(***************************************************************************)
(* One service's configuration on its way from the REST API to the loop    *)
(* that polls it.  The API saves a change in the YAML file and then        *)
(* publishes a command, all under configMu (handlers/config_services.go);  *)
(* the engine reads the file when it starts and afterwards follows the     *)
(* command stream (engine/cmd/main.go), replacing or ending the service's  *)
(* loop (health/poller.go).  Both processes crash and restart; the engine  *)
(* also stops in good order.                                               *)
(*                                                                         *)
(* An edit is named by its number.  A refused edit (a body, a state of the *)
(* file or a validation that does not permit it, a file that cannot be     *)
(* written) changes nothing.  A loop that has ended may be reused.         *)
(***************************************************************************)
EXTENDS Naturals, Sequences, Subscription

CONSTANTS
  Loops,      \* loops that may be running at once
  NoLoop,     \* no channel in stopChans
  MaxEdits,   \* bound: edits of the file
  MaxStops    \* bound: crashes of either process, and stops of the engine

ASSUME HotReloadAssumption ==
  /\ MaxEdits \in Nat
  /\ MaxStops \in Nat
  /\ NoLoop \notin Loops

VARIABLES
  file,     \* the service in the YAML file
  requests, \* commands of the requests between the save and the publishing
  stops,    \* crashes and stops so far
  engine,   \* where the engine process is
  sub,      \* its subscriber to the commands
  conf,     \* the service in p.cfg.Services
  current,  \* the loop whose channel is in stopChans, or NoLoop
  spawn,    \* the loop UpsertService has yet to start, or NoLoop
  loop,     \* the service's loops
  lost      \* history: will the newest edit's command never be read?

fileVars   == <<file, requests>>
pollerVars == <<conf, current, spawn, loop>>
vars       == <<fileVars, pollerVars, stops, engine, sub, lost>>

\* Mode, URL, interval and the rest are told apart by the edit they are from.
Service == [edit : 0 .. MaxEdits, there : BOOLEAN]
None    == [edit |-> 0, there |-> FALSE]

\* A polling loop has a poll under way; a waiting one is in its select.
Loop  == [pc : {"none", "polling", "waiting"}, cfg : Service, closed : BOOLEAN]
Ended == [pc |-> "none", cfg |-> None, closed |-> FALSE]

Running == {l \in Loops : loop[l].pc # "none"}

Init ==
  /\ file = [edit |-> 0, there |-> TRUE]
  /\ requests = {}
  /\ stops = 0
  /\ engine = "down"
  /\ sub = NewSubscriber
  /\ conf = None
  /\ current = NoLoop
  /\ spawn = NoLoop
  /\ loop = [l \in Loops |-> Ended]
  /\ lost = FALSE

-----------------------------------------------------------------------------
\* The API.

\* Mutant: configMu is released before the command is published, so that a
\* newer command may be published first.
Locked_NotToTheEnd == FALSE

\* The request that saved holds configMu until it has published.
Locked == requests # {}

\* An edit of the file, and the command that is to follow it.
Save(there) ==
  /\ ~Locked
  /\ file.edit < MaxEdits
  /\ file' = [edit |-> file.edit + 1, there |-> there]
  /\ requests' = requests \cup {file'}
  /\ UNCHANGED <<pollerVars, stops, engine, sub, lost>>

\* 409 if the service exists, 404 for the others if it does not.
Create == ~file.there /\ Save(TRUE)
Update == file.there /\ Save(TRUE)
Delete == file.there /\ Save(FALSE)

\* XADD: the response is 202 with a warning when it fails, with or without
\* having added the command.
Publish(cmd) ==
  /\ requests' = requests \ {cmd}
  /\ \/ sub' = Added(sub, cmd) /\ lost' = ~Hears(sub)
     \/ sub' = sub /\ lost' = TRUE
  /\ UNCHANGED <<file, pollerVars, stops, engine>>

CrashAPI ==
  /\ requests # {}
  /\ stops < MaxStops
  /\ stops' = stops + 1
  /\ requests' = {}
  /\ lost' = TRUE
  /\ UNCHANGED <<file, pollerVars, engine, sub>>

-----------------------------------------------------------------------------
\* The poller.

\* Mutant: the old loop's channel is forgotten, not closed.
Closed_Forgotten(lp) == lp

\* close(stopChans[name]), if there is one.
Closed(lp) ==
  IF current = NoLoop THEN lp ELSE [lp EXCEPT ![current].closed = TRUE]

\* UpsertService, as far as it holds the lock: the old loop is told to end, the
\* new one has a channel and is in the list, and is not yet running.
Upsert(svc) ==
  \E l \in Loops \ Running :
    /\ loop' = [Closed(loop) EXCEPT ![l] = [pc |-> "none", cfg |-> svc, closed |-> FALSE]]
    /\ current' = l
    /\ spawn' = l
    /\ conf' = svc

\* Mutant: the loop ends, the list keeps the service.
RemoveService_KeepsConfig(svc) ==
  /\ loop' = Closed(loop)
  /\ current' = NoLoop
  /\ UNCHANGED <<conf, spawn>>

\* svc is what the deleting edit left: no service, at its number.
RemoveService(svc) ==
  /\ loop' = Closed(loop)
  /\ current' = NoLoop
  /\ conf' = svc
  /\ UNCHANGED spawn

\* wg.Add and go: after the lock, on the goroutine that applied the command.
Spawn ==
  /\ spawn # NoLoop
  /\ spawn' = NoLoop
  /\ loop' = [loop EXCEPT ![spawn].pc = "polling"]
  /\ UNCHANGED <<fileVars, stops, engine, sub, conf, current, lost>>

PollEnds(l) ==
  /\ loop[l].pc = "polling"
  /\ loop' = [loop EXCEPT ![l].pc = "waiting"]
  /\ UNCHANGED <<fileVars, stops, engine, sub, conf, current, spawn, lost>>

\* The select of runServiceLoop takes any case that is ready.
Tick(l) ==
  /\ loop[l].pc = "waiting"
  /\ loop' = [loop EXCEPT ![l].pc = "polling"]
  /\ UNCHANGED <<fileVars, stops, engine, sub, conf, current, spawn, lost>>

\* main has cancelled the context of every loop.
Cancelled == engine \notin {"down", "up"}

\* Mutant: the loop looks at its own channel only.
ToldToEnd_ChannelOnly(l) == loop[l].closed

ToldToEnd(l) == loop[l].closed \/ Cancelled

LoopEnds(l) ==
  /\ loop[l].pc = "waiting"
  /\ ToldToEnd(l)
  /\ loop' = [loop EXCEPT ![l] = Ended]
  /\ UNCHANGED <<fileVars, stops, engine, sub, conf, current, spawn, lost>>

-----------------------------------------------------------------------------
\* The engine process.

\* main up to poller.Start; the subscriber has not asked yet.
StartEngine ==
  /\ engine = "down"
  /\ engine' = "up"
  /\ IF file.there
       THEN Upsert(file)
       ELSE conf' = file /\ UNCHANGED <<current, spawn, loop>>
  /\ lost' = FALSE
  /\ UNCHANGED <<fileVars, stops, sub>>

Read ==
  /\ engine = "up"
  /\ ~sub.waiting
  /\ sub' = Asking(sub)
  /\ UNCHANGED <<fileVars, pollerVars, stops, engine, lost>>

ReadInVain ==
  /\ engine = "up"
  /\ sub.waiting
  /\ sub' = AskedInVain(sub)
  /\ lost' = (lost \/ (~sub.anchored /\ sub.queue # <<>>))
  /\ UNCHANGED <<fileVars, pollerVars, stops, engine>>

\* The handler of the stream's commands, for one of them.  A batch that was
\* read before the context was cancelled is handled to its end.
Handle ==
  /\ engine # "down"
  /\ sub.waiting
  /\ sub.queue # <<>>
  /\ spawn = NoLoop
  /\ LET cmd == Head(sub.queue) IN
     IF cmd.there THEN Upsert(cmd) ELSE RemoveService(cmd)
  /\ sub' = Handled(sub)
  /\ UNCHANGED <<fileVars, stops, engine, lost>>

Gone ==
  /\ engine' = "down"
  /\ sub' = NewSubscriber
  /\ conf' = None
  /\ current' = NoLoop
  /\ spawn' = NoLoop
  /\ loop' = [l \in Loops |-> Ended]

Crash ==
  /\ engine = "up"
  /\ stops < MaxStops
  /\ stops' = stops + 1
  /\ Gone
  /\ UNCHANGED <<fileVars, lost>>

\* SIGTERM: main calls cancel.
Cancel ==
  /\ engine = "up"
  /\ stops < MaxStops
  /\ stops' = stops + 1
  /\ engine' = "cancelled"
  /\ UNCHANGED <<fileVars, pollerVars, sub, lost>>

\* Stop, as far as it holds the lock.
Stop ==
  /\ engine = "cancelled"
  /\ engine' = "draining"
  /\ loop' = Closed(loop)
  /\ current' = NoLoop
  /\ UNCHANGED <<fileVars, stops, sub, conf, spawn, lost>>

\* The wait group is at zero, or ten seconds are over.
Drained ==
  /\ engine = "draining"
  /\ engine' = IF Running = {} THEN "clean" ELSE "dirty"
  /\ UNCHANGED <<fileVars, pollerVars, stops, sub, lost>>

Exit ==
  /\ engine \in {"clean", "dirty"}
  /\ Gone
  /\ UNCHANGED <<fileVars, stops, lost>>

LoopStep(l) == PollEnds(l) \/ Tick(l) \/ LoopEnds(l)

Next ==
  \/ Create \/ Update \/ Delete
  \/ \E cmd \in requests : Publish(cmd)
  \/ CrashAPI
  \/ Spawn
  \/ \E l \in Loops : LoopStep(l)
  \/ StartEngine \/ Read \/ ReadInVain \/ Handle
  \/ Crash \/ Cancel \/ Stop \/ Drained \/ Exit

Spec == Init /\ [][Next]_vars

\* A goroutine that can go on does, a check ends within the service's timeout,
\* and a select whose cases stay ready takes each of them sooner or later.
FairSpec ==
  /\ Spec
  /\ WF_vars(Spawn)
  /\ \A l \in Loops : WF_vars(PollEnds(l)) /\ SF_vars(LoopEnds(l))

-----------------------------------------------------------------------------

TypeOK ==
  /\ file \in Service
  /\ requests \in SUBSET Service
  /\ stops \in 0 .. MaxStops
  /\ engine \in {"down", "up", "cancelled", "draining", "clean", "dirty"}
  /\ sub \in [anchored : BOOLEAN, waiting : BOOLEAN, queue : Seq(Service)]
  /\ conf \in Service
  /\ current \in Loops \cup {NoLoop}
  /\ spawn \in Loops \cup {NoLoop}
  /\ loop \in [Loops -> Loop]
  /\ lost \in BOOLEAN

\* Nobody wants the loop any more.
Over(l) == loop[l].closed \/ engine \notin {"down", "up"}

\* However edits, deletions and new creations of a service follow each other
\* and overlap with its polls, at most one of its loops will poll on, and that
\* one has the configuration the engine holds; every other loop is told to end
\* (poller.go:86-112, 141-156).
OneLoopPerService ==
  /\ \A l \in Running \cup ({spawn} \ {NoLoop}) : l = current \/ Over(l)
  /\ engine = "up" =>
       IF current = NoLoop
         THEN ~conf.there
         ELSE ~loop[current].closed /\ loop[current].cfg = conf

\* When no edit is on its way, the engine runs what the file says, unless the
\* newest command was lost between the two (config_services.go saves, then
\* publishes, under one lock).
RunningMatchesFile ==
  engine = "up" /\ ~Locked /\ sub.queue = <<>> /\ ~lost => conf = file

\* The engine never goes back to an older configuration, whatever is lost,
\* late or restarted: a command that is older than the file it has read does
\* not reach it.
NeverBackwards ==
  [][engine # "down" /\ engine' # "down" => conf'.edit >= conf.edit]_vars

\* A loop that was replaced, removed or cancelled ends, although its poll may
\* be under way and its ticker ready; also one that a command started while
\* the engine was stopping (poller.go:109 adds to the wait group after the
\* lock, so Stop may not wait for it).
OldLoopsEnd ==
  \A l \in Loops :
    (l \in Running /\ Over(l)) ~> (l \notin Running)
=============================================================================
