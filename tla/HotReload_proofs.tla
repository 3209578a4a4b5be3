-------------------------- MODULE HotReload_proofs --------------------------
(***************************************************************************)
(* Module HotReload for any number of edits, loops, crashes and stops.     *)
(***************************************************************************)
EXTENDS HotReload, SequenceTheorems, TLAPS

\* A process that is not there has no loops and no place in the stream.
DownIsEmpty ==
  engine = "down" =>
    /\ sub = NewSubscriber
    /\ conf = None /\ current = NoLoop /\ spawn = NoLoop
    /\ Running = {}

SpawnIsNew == spawn # NoLoop => loop[spawn].pc = "none"

\* One loop per service is kept by steps that keep these, too.
LoopsInv == DownIsEmpty /\ SpawnIsNew /\ OneLoopPerService

\* A command on its way is no older than the configuration the engine has and
\* than the commands before it.
InOrder ==
  /\ \A cmd \in requests : cmd = file
  /\ conf.edit <= file.edit
  /\ \A i \in DOMAIN sub.queue :
       conf.edit <= sub.queue[i].edit /\ sub.queue[i].edit <= file.edit
  /\ \A i, j \in DOMAIN sub.queue : i <= j => sub.queue[i].edit <= sub.queue[j].edit

\* What the engine will have when it has handled what it is handed.
Newest == IF sub.queue = <<>> THEN conf ELSE sub.queue[Len(sub.queue)]

\* The last command on its way is the newest edit's.
NewestIsFile == engine = "up" /\ ~Locked /\ ~lost => Newest = file

HotReloadInv == TypeOK /\ LoopsInv /\ InOrder /\ NewestIsFile

-----------------------------------------------------------------------------
\* The subscriber and the poller's loops.

Subscribers == [anchored : BOOLEAN, waiting : BOOLEAN, queue : Seq(Service)]

LEMMA SubscriberSteps ==
  ASSUME NEW s \in Subscribers, NEW cmd \in Service
  PROVE  /\ Added(s, cmd) \in Subscribers
         /\ Added(s, cmd).queue = IF Hears(s) THEN Append(s.queue, cmd) ELSE s.queue
         /\ Asking(s) \in Subscribers /\ Asking(s).queue = s.queue
         /\ AskedInVain(s) \in Subscribers
         /\ AskedInVain(s).queue = IF s.anchored THEN s.queue ELSE <<>>
<1>1. Append(s.queue, cmd) \in Seq(Service)
  BY DEF Subscribers
<1>2. <<>> \in Seq(Service)
  BY EmptySeq
<1>3. Added(s, cmd) \in Subscribers
      /\ Added(s, cmd).queue = IF Hears(s) THEN Append(s.queue, cmd) ELSE s.queue
  BY <1>1 DEF Added, Subscribers
<1>4. Asking(s) \in Subscribers /\ Asking(s).queue = s.queue
  BY DEF Asking, Subscribers
<1>5. AskedInVain(s) \in Subscribers
      /\ AskedInVain(s).queue = IF s.anchored THEN s.queue ELSE <<>>
  BY <1>2 DEF AskedInVain, Subscriber, Subscribers
<1> QED BY <1>3, <1>4, <1>5

LEMMA SubscriberHandles ==
  ASSUME NEW s \in Subscribers, s.queue # <<>>
  PROVE  /\ Handled(s) \in Subscribers /\ Handled(s).queue = Tail(s.queue)
         /\ Head(s.queue) \in Service
<1>1. Tail(s.queue) \in Seq(Service) /\ Head(s.queue) \in Service
  BY HeadTailProperties DEF Subscribers
<1> QED BY <1>1 DEF Handled, Subscriber, Subscribers

LEMMA NewSubscriberIsEmpty ==
  NewSubscriber \in Subscribers /\ NewSubscriber.queue = <<>> /\ ~Hears(NewSubscriber)
  BY EmptySeq DEF NewSubscriber, Subscriber, Subscribers, Hears

LEMMA NoneTyped == None \in Service /\ None.edit = 0 /\ Ended \in Loop /\ Ended.pc = "none"
  BY HotReloadAssumption DEF None, Service, Ended, Loop

LEMMA ClosesCurrent ==
  ASSUME loop \in [Loops -> Loop], current \in Loops \cup {NoLoop}
  PROVE  /\ Closed(loop) \in [Loops -> Loop]
         /\ \A k \in Loops : /\ Closed(loop)[k].pc = loop[k].pc
                             /\ Closed(loop)[k].cfg = loop[k].cfg
                             /\ Closed(loop)[k].closed <=> (loop[k].closed \/ k = current)
<1>1. CASE current = NoLoop
  BY <1>1, HotReloadAssumption DEF Closed, Loop
<1>2. CASE current # NoLoop
  <2> DEFINE told == [loop[current] EXCEPT !.closed = TRUE]
  <2>1. current \in Loops /\ Closed(loop) = [loop EXCEPT ![current] = told]
    BY <1>2 DEF Closed
  <2>2. /\ told \in Loop /\ told.pc = loop[current].pc /\ told.cfg = loop[current].cfg
        /\ told.closed = TRUE
    BY <2>1 DEF Loop
  <2> HIDE DEF told
  <2>3. /\ Closed(loop) \in [Loops -> Loop] /\ Closed(loop)[current] = told
        /\ \A k \in Loops \ {current} : Closed(loop)[k] = loop[k]
    BY <2>1, <2>2
  <2> QED BY <2>1, <2>2, <2>3 DEF Loop
<1> QED BY <1>1, <1>2

\* The loop that UpsertService adds is a new one, and the one it replaces ends.
LEMMA UpsertReplaces ==
  ASSUME loop \in [Loops -> Loop], current \in Loops \cup {NoLoop},
         NEW svc \in Service, Upsert(svc)
  PROVE  \E l \in Loops \ Running :
           /\ current' = l /\ spawn' = l /\ conf' = svc
           /\ loop' \in [Loops -> Loop]
           /\ loop'[l].pc = "none" /\ loop'[l].cfg = svc /\ ~loop'[l].closed
           /\ \A k \in Loops \ {l} :
                /\ loop'[k].pc = loop[k].pc
                /\ loop'[k].closed <=> (loop[k].closed \/ k = current)
<1>1. PICK l \in Loops \ Running :
        /\ loop' = [Closed(loop) EXCEPT ![l] = [pc |-> "none", cfg |-> svc, closed |-> FALSE]]
        /\ current' = l /\ spawn' = l /\ conf' = svc
  BY DEF Upsert
<1> DEFINE fresh == [pc |-> "none", cfg |-> svc, closed |-> FALSE]
<1>2. fresh \in Loop /\ fresh.pc = "none" /\ fresh.cfg = svc /\ ~fresh.closed
  BY DEF Loop
<1>3. loop' = [Closed(loop) EXCEPT ![l] = fresh]
  BY <1>1
<1> HIDE DEF fresh
<1>4. /\ loop' \in [Loops -> Loop] /\ loop'[l] = fresh
      /\ \A k \in Loops \ {l} : loop'[k] = Closed(loop)[k]
  BY <1>2, <1>3, ClosesCurrent
<1>5. \A k \in Loops \ {l} : /\ loop'[k].pc = loop[k].pc
                             /\ loop'[k].closed <=> (loop[k].closed \/ k = current)
  BY <1>4, ClosesCurrent
<1> WITNESS l \in Loops \ Running
<1> QED BY <1>1, <1>2, <1>4, <1>5

-----------------------------------------------------------------------------
\* Types.

LEMMA HotReloadTypesInit == Init => TypeOK
<1> SUFFICES ASSUME Init PROVE TypeOK
  OBVIOUS
<1> USE HotReloadAssumption
<1>1. [edit |-> 0, there |-> TRUE] \in Service
  BY DEF Service
<1>2. file \in Service /\ requests \in SUBSET Service /\ stops \in 0 .. MaxStops
  BY <1>1 DEF Init
<1>3. sub \in Subscribers /\ conf \in Service
  BY NewSubscriberIsEmpty, NoneTyped DEF Init
<1>4. loop \in [Loops -> Loop]
  BY NoneTyped DEF Init
<1>5. /\ engine = "down" /\ current = NoLoop /\ spawn = NoLoop /\ lost = FALSE
  BY DEF Init
<1> QED BY <1>2, <1>3, <1>4, <1>5 DEF TypeOK, Subscribers

\* A loop goes on, or comes to its end.
LEMMA LoopChanges ==
  ASSUME loop \in [Loops -> Loop], NEW l \in Loops, NEW pc \in {"none", "polling", "waiting"},
         loop' = [loop EXCEPT ![l].pc = pc] \/ loop' = [loop EXCEPT ![l] = Ended]
  PROVE  /\ loop' \in [Loops -> Loop]
         /\ \A k \in Loops \ {l} : loop'[k] = loop[k]
         /\ loop' = [loop EXCEPT ![l].pc = pc]
              => /\ loop'[l].pc = pc /\ loop'[l].cfg = loop[l].cfg
                 /\ loop'[l].closed = loop[l].closed
         /\ loop' = [loop EXCEPT ![l] = Ended] => loop'[l].pc = "none"
<1>1. CASE loop' = [loop EXCEPT ![l].pc = pc]
  <2> DEFINE new == [loop[l] EXCEPT !.pc = pc]
  <2>1. new \in Loop /\ new.pc = pc /\ new.cfg = loop[l].cfg /\ new.closed = loop[l].closed
    BY DEF Loop
  <2>2. loop' = [loop EXCEPT ![l] = new]
    BY <1>1
  <2> HIDE DEF new
  <2>3. loop' \in [Loops -> Loop] /\ loop'[l] = new /\ \A k \in Loops \ {l} : loop'[k] = loop[k]
    BY <2>1, <2>2
  <2>4. loop' = [loop EXCEPT ![l] = Ended] => new = Ended
    BY <2>3
  <2> QED BY <2>1, <2>3, <2>4, NoneTyped
<1>2. CASE loop' = [loop EXCEPT ![l] = Ended] /\ loop' # [loop EXCEPT ![l].pc = pc]
  <2>1. /\ loop' \in [Loops -> Loop] /\ loop'[l] = Ended
        /\ \A k \in Loops \ {l} : loop'[k] = loop[k]
    BY <1>2, NoneTyped
  <2> QED BY <1>2, <2>1, NoneTyped
<1> QED BY <1>1, <1>2

LEMMA HotReloadTypesStep ==
  TypeOK /\ [Next]_vars => TypeOK'
<1> SUFFICES ASSUME TypeOK, [Next]_vars PROVE TypeOK'
  OBVIOUS
<1> USE HotReloadAssumption
<1>t. /\ file \in Service /\ requests \in SUBSET Service /\ stops \in 0 .. MaxStops
      /\ engine \in {"down", "up", "cancelled", "draining", "clean", "dirty"}
      /\ sub \in Subscribers /\ conf \in Service
      /\ current \in Loops \cup {NoLoop} /\ spawn \in Loops \cup {NoLoop}
      /\ loop \in [Loops -> Loop] /\ lost \in BOOLEAN
  BY DEF TypeOK, Subscribers
<1>k. stops < MaxStops => stops + 1 \in 0 .. MaxStops
  BY <1>t
<1>g. ASSUME Gone PROVE /\ engine' = "down" /\ sub' \in Subscribers /\ conf' \in Service
                        /\ current' = NoLoop /\ spawn' = NoLoop /\ loop' \in [Loops -> Loop]
  BY <1>g, NoneTyped, NewSubscriberIsEmpty DEF Gone
<1>u. ASSUME NEW svc \in Service, Upsert(svc)
      PROVE  /\ current' \in Loops /\ spawn' \in Loops /\ conf' \in Service
             /\ loop' \in [Loops -> Loop]
  BY <1>t, <1>u, UpsertReplaces
<1>1. ASSUME NEW there \in BOOLEAN, Save(there) PROVE TypeOK'
  <2>1. file.edit + 1 \in 0 .. MaxEdits
    BY <1>1, <1>t DEF Save, Service
  <2>2. [edit |-> file.edit + 1, there |-> there] \in Service
    BY <2>1 DEF Service
  <2>3. file' \in Service /\ requests' \in SUBSET Service
    BY <1>1, <1>t, <2>2 DEF Save
  <2>4. UNCHANGED <<conf, current, spawn, loop, stops, engine, sub, lost>>
    BY <1>1 DEF Save, pollerVars
  <2> QED BY <1>t, <2>3, <2>4 DEF TypeOK, Subscribers
<1>2. ASSUME NEW cmd \in requests, Publish(cmd) PROVE TypeOK'
  <2>1. requests' \in SUBSET Service /\ sub' \in Subscribers /\ lost' \in BOOLEAN
    <3>1. cmd \in Service /\ requests' = requests \ {cmd}
      BY <1>2, <1>t DEF Publish
    <3>2. Added(sub, cmd) \in Subscribers
      BY <1>t, <3>1, SubscriberSteps
    <3>3. sub' = Added(sub, cmd) \/ sub' = sub
      BY <1>2 DEF Publish
    <3>4. lost' \in BOOLEAN
      BY <1>2 DEF Publish
    <3> QED BY <1>t, <3>1, <3>2, <3>3, <3>4
  <2>2. UNCHANGED <<file, conf, current, spawn, loop, stops, engine>>
    BY <1>2 DEF Publish, pollerVars
  <2> QED BY <1>t, <2>1, <2>2 DEF TypeOK, Subscribers
<1>3. CASE CrashAPI
  BY <1>3, <1>t, <1>k DEF CrashAPI, pollerVars, TypeOK, Subscribers
<1>4. CASE Spawn
  <2>1. spawn \in Loops /\ loop' = [loop EXCEPT ![spawn].pc = "polling"] /\ spawn' = NoLoop
    BY <1>4, <1>t DEF Spawn
  <2>2. loop' \in [Loops -> Loop]
    BY <1>t, <2>1, LoopChanges
  <2>3. UNCHANGED <<file, requests, stops, engine, sub, conf, current, lost>>
    BY <1>4 DEF Spawn, fileVars
  <2> QED BY <1>t, <2>1, <2>2, <2>3 DEF TypeOK, Subscribers
<1>5. ASSUME NEW l \in Loops, LoopStep(l) PROVE TypeOK'
  <2>1. \/ loop' = [loop EXCEPT ![l].pc = "waiting"]
        \/ loop' = [loop EXCEPT ![l].pc = "polling"]
        \/ loop' = [loop EXCEPT ![l] = Ended]
    BY <1>5 DEF LoopStep, PollEnds, Tick, LoopEnds
  <2>2. loop' \in [Loops -> Loop]
    BY <1>t, <2>1, LoopChanges
  <2>3. UNCHANGED <<file, requests, stops, engine, sub, conf, current, spawn, lost>>
    BY <1>5 DEF LoopStep, PollEnds, Tick, LoopEnds, fileVars
  <2> QED BY <1>t, <2>2, <2>3 DEF TypeOK, Subscribers
<1>6. CASE StartEngine
  <2>1. /\ engine' = "up" /\ lost' = FALSE /\ UNCHANGED <<file, requests, stops, sub>>
        /\ Upsert(file) \/ (conf' = file /\ UNCHANGED <<current, spawn, loop>>)
    BY <1>6 DEF StartEngine, fileVars
  <2>2. /\ current' \in Loops \cup {NoLoop} /\ spawn' \in Loops \cup {NoLoop}
        /\ conf' \in Service /\ loop' \in [Loops -> Loop]
    BY <1>t, <1>u, <2>1
  <2> QED BY <1>t, <2>1, <2>2 DEF TypeOK, Subscribers
<1>7. CASE Read \/ ReadInVain
  <2>1. sub' \in Subscribers
    BY <1>7, <1>t, SubscriberSteps DEF Read, ReadInVain
  <2>2. lost' \in BOOLEAN
    BY <1>7, <1>t DEF Read, ReadInVain
  <2>3. UNCHANGED <<file, requests, conf, current, spawn, loop, stops, engine>>
    BY <1>7 DEF Read, ReadInVain, fileVars, pollerVars
  <2> QED BY <1>t, <2>1, <2>2, <2>3 DEF TypeOK, Subscribers
<1>8. CASE Handle
  <2> DEFINE cmd == Head(sub.queue)
  <2>1. /\ sub.queue # <<>> /\ sub' = Handled(sub) /\ UNCHANGED <<file, requests, stops, engine, lost>>
        /\ Upsert(cmd) \/ RemoveService(cmd)
    BY <1>8 DEF Handle, fileVars
  <2>2. cmd \in Service /\ sub' \in Subscribers
    BY <1>t, <2>1, SubscriberHandles
  <2> HIDE DEF cmd
  <2>3. /\ current' \in Loops \cup {NoLoop} /\ spawn' \in Loops \cup {NoLoop}
        /\ conf' \in Service /\ loop' \in [Loops -> Loop]
    BY <1>t, <1>u, <2>1, <2>2, ClosesCurrent DEF RemoveService
  <2> QED BY <1>t, <2>1, <2>2, <2>3 DEF TypeOK, Subscribers
<1>9. CASE Crash \/ Exit
  <2>1. Gone /\ UNCHANGED <<file, requests, lost>> /\ stops' \in 0 .. MaxStops
    BY <1>9, <1>t, <1>k DEF Crash, Exit, fileVars
  <2> QED BY <1>t, <1>g, <2>1 DEF TypeOK, Subscribers
<1>10. CASE Cancel
  BY <1>10, <1>t, <1>k DEF Cancel, fileVars, pollerVars, TypeOK, Subscribers
<1>11. CASE Stop
  <2>1. /\ engine' = "draining" /\ loop' = Closed(loop) /\ current' = NoLoop
        /\ UNCHANGED <<file, requests, stops, sub, conf, spawn, lost>>
    BY <1>11 DEF Stop, fileVars
  <2> QED BY <1>t, <2>1, ClosesCurrent DEF TypeOK, Subscribers
<1>12. CASE Drained
  BY <1>12, <1>t DEF Drained, fileVars, pollerVars, TypeOK, Subscribers
<1>13. CASE UNCHANGED vars
  BY <1>13, <1>t DEF vars, fileVars, pollerVars, TypeOK, Subscribers
<1> QED BY <1>1, <1>2, <1>3, <1>4, <1>5, <1>6, <1>7, <1>8, <1>9, <1>10, <1>11, <1>12, <1>13
     DEF Next, Create, Update, Delete

-----------------------------------------------------------------------------
\* The loops.

LEMMA LoopsInvStep == TypeOK /\ LoopsInv /\ [Next]_vars => LoopsInv'
<1> SUFFICES ASSUME TypeOK, LoopsInv, [Next]_vars PROVE LoopsInv'
  OBVIOUS
<1> USE HotReloadAssumption
<1>t. /\ file \in Service /\ sub \in Subscribers /\ conf \in Service
      /\ engine \in {"down", "up", "cancelled", "draining", "clean", "dirty"}
      /\ current \in Loops \cup {NoLoop} /\ spawn \in Loops \cup {NoLoop}
      /\ loop \in [Loops -> Loop]
  BY DEF TypeOK, Subscribers
<1>d. engine = "down" =>
        sub = NewSubscriber /\ conf = None /\ current = NoLoop /\ spawn = NoLoop /\ Running = {}
  BY DEF LoopsInv, DownIsEmpty
<1>s. spawn # NoLoop => spawn \in Loops /\ loop[spawn].pc = "none"
  BY <1>t DEF LoopsInv, SpawnIsNew
<1>o. /\ \A l \in Running \cup ({spawn} \ {NoLoop}) : l = current \/ Over(l)
      /\ engine = "up" =>
           IF current = NoLoop
             THEN ~conf.there
             ELSE ~loop[current].closed /\ loop[current].cfg = conf
  BY DEF LoopsInv, OneLoopPerService
\* A process that is told to end needs nothing more of its loops.
<1>e. ASSUME engine' \notin {"down", "up"}, SpawnIsNew' PROVE LoopsInv'
  BY <1>e DEF LoopsInv, DownIsEmpty, OneLoopPerService, Over
<1>1. ASSUME UNCHANGED <<engine, conf, current, spawn, loop>>, engine = "down" => sub' = sub
      PROVE  LoopsInv'
  BY <1>1 DEF LoopsInv, DownIsEmpty, SpawnIsNew, OneLoopPerService, Running, Over
<1>2. CASE Create \/ Update \/ Delete \/ CrashAPI \/ Read \/ ReadInVain \/ UNCHANGED vars
  BY <1>1, <1>2
     DEF Create, Update, Delete, Save, CrashAPI, Read, ReadInVain, vars, fileVars, pollerVars
<1>3. ASSUME NEW cmd \in requests, Publish(cmd) PROVE LoopsInv'
  <2>1. engine = "down" => sub' = sub
    BY <1>3, <1>d, NewSubscriberIsEmpty DEF Publish, Added
  <2> QED BY <1>1, <1>3, <2>1 DEF Publish, pollerVars
<1>4. CASE Spawn
  <2>1. /\ spawn \in Loops /\ spawn' = NoLoop /\ loop' = [loop EXCEPT ![spawn].pc = "polling"]
        /\ UNCHANGED <<engine, sub, conf, current>>
    BY <1>4, <1>t DEF Spawn
  <2>2. /\ \A k \in Loops \ {spawn} : loop'[k] = loop[k]
        /\ loop'[spawn].cfg = loop[spawn].cfg /\ loop'[spawn].closed = loop[spawn].closed
    BY <1>t, <2>1, LoopChanges
  <2>3. Running' \subseteq Running \cup {spawn}
    BY <2>2 DEF Running
  <2>4. engine # "down"
    BY <1>d, <2>1
  <2>5. /\ \A l \in Running' : l = current \/ Over(l)'
        /\ engine = "up" =>
           IF current = NoLoop
             THEN ~conf.there
             ELSE ~loop'[current].closed /\ loop'[current].cfg = conf
    BY <1>t, <1>o, <2>1, <2>2, <2>3 DEF Over, Running
  <2> QED BY <2>1, <2>4, <2>5 DEF LoopsInv, DownIsEmpty, SpawnIsNew, OneLoopPerService
<1>5. ASSUME NEW l \in Loops, LoopStep(l) PROVE LoopsInv'
  <2>1. /\ l \in Running
        /\ \/ loop' = [loop EXCEPT ![l].pc = "waiting"]
           \/ loop' = [loop EXCEPT ![l].pc = "polling"]
           \/ loop' = [loop EXCEPT ![l] = Ended] /\ (loop[l].closed \/ engine \notin {"down", "up"})
        /\ UNCHANGED <<engine, sub, conf, current, spawn>>
    BY <1>5 DEF LoopStep, PollEnds, Tick, LoopEnds, ToldToEnd, Cancelled, Running
  <2>2. engine # "down" /\ l # spawn
    BY <1>d, <1>s, <1>t, <2>1 DEF Running
  <2>3. /\ \A k \in Loops \ {l} : loop'[k] = loop[k]
        /\ \/ loop'[l].cfg = loop[l].cfg /\ loop'[l].closed = loop[l].closed
           \/ loop'[l].pc = "none" /\ (loop[l].closed \/ engine # "up")
    BY <1>t, <2>1, LoopChanges
  <2>4. SpawnIsNew'
    BY <1>s, <2>1, <2>2, <2>3 DEF SpawnIsNew
  <2>5. /\ \A k \in Running' \cup ({spawn} \ {NoLoop}) : k = current \/ Over(k)'
        /\ engine = "up" =>
           IF current = NoLoop
             THEN ~conf.there
             ELSE ~loop'[current].closed /\ loop'[current].cfg = conf
    BY <1>t, <1>o, <1>s, <2>1, <2>2, <2>3 DEF Over, Running
  <2> QED BY <2>1, <2>2, <2>4, <2>5 DEF LoopsInv, DownIsEmpty, OneLoopPerService
\* UpsertService, when no other has yet to start its loop.
<1>6. ASSUME NEW svc \in Service, Upsert(svc), engine' # "down", svc.there,
             \A k \in Running : k = current \/ loop[k].closed \/ engine' # "up"
      PROVE  LoopsInv'
  <2>1. PICK l \in Loops \ Running :
          /\ current' = l /\ spawn' = l /\ conf' = svc
          /\ loop'[l].pc = "none" /\ loop'[l].cfg = svc /\ ~loop'[l].closed
          /\ \A k \in Loops \ {l} :
               /\ loop'[k].pc = loop[k].pc
               /\ loop'[k].closed <=> (loop[k].closed \/ k = current)
    BY <1>t, <1>6, UpsertReplaces
  <2>2. \A k \in Running' : k \in Running /\ k # l
    BY <2>1 DEF Running
  <2>3. \A k \in Running' : loop'[k].closed \/ engine' # "up"
    BY <1>6, <2>1, <2>2 DEF Running
  <2>4. l # NoLoop
    OBVIOUS
  <2>5. OneLoopPerService'
    BY <1>6, <2>1, <2>3, <2>4 DEF OneLoopPerService, Over
  <2> QED BY <1>6, <2>1, <2>5 DEF LoopsInv, DownIsEmpty, SpawnIsNew
<1>7. CASE StartEngine
  <2>1. engine = "down" /\ engine' = "up"
    BY <1>7 DEF StartEngine
  <2>2. CASE file.there
    BY <1>6, <1>7, <1>d, <1>t, <2>1, <2>2 DEF StartEngine
  <2>3. CASE ~file.there
    <3>1. conf' = file /\ current' = NoLoop /\ spawn' = NoLoop /\ loop' = loop
      BY <1>7, <1>d, <2>1, <2>3 DEF StartEngine
    <3> QED BY <1>d, <2>1, <2>3, <3>1
            DEF LoopsInv, DownIsEmpty, SpawnIsNew, OneLoopPerService, Running
  <2> QED BY <2>2, <2>3
<1>8. CASE Handle
  <2> DEFINE cmd == Head(sub.queue)
  <2>1. /\ engine # "down" /\ sub.queue # <<>> /\ spawn = NoLoop /\ engine' = engine
        /\ IF cmd.there THEN Upsert(cmd) ELSE RemoveService(cmd)
    BY <1>8 DEF Handle
  <2>2. cmd \in Service
    BY <1>t, <2>1, SubscriberHandles
  <2> HIDE DEF cmd
  <2>3. CASE cmd.there
    <3>1. \A k \in Running : k = current \/ loop[k].closed \/ engine # "up"
      BY <1>o DEF Over
    <3> QED BY <1>6, <2>1, <2>2, <2>3, <3>1
  <2>4. CASE ~cmd.there
    <3>1. loop' = Closed(loop) /\ current' = NoLoop /\ conf' = cmd /\ spawn' = spawn
      BY <2>1, <2>4 DEF RemoveService
    <3>2. \A k \in Running' : k \in Running /\ (loop'[k].closed \/ engine # "up")
      <4>1. \A k \in Loops : /\ loop'[k].pc = loop[k].pc
                             /\ loop'[k].closed <=> (loop[k].closed \/ k = current)
        BY <1>t, <3>1, ClosesCurrent
      <4> QED BY <1>o, <2>1, <4>1 DEF Running, Over
    <3> QED BY <2>1, <2>4, <3>1, <3>2 DEF LoopsInv, DownIsEmpty, SpawnIsNew, OneLoopPerService, Over
  <2> QED BY <2>3, <2>4
<1>9. CASE Crash \/ Exit
  <2>1. /\ engine' = "down" /\ sub' = NewSubscriber /\ conf' = None
        /\ current' = NoLoop /\ spawn' = NoLoop /\ loop' = [l \in Loops |-> Ended]
    BY <1>9 DEF Crash, Exit, Gone
  <2>2. Running' = {}
    BY <2>1, NoneTyped DEF Running
  <2> QED BY <2>1, <2>2 DEF LoopsInv, DownIsEmpty, SpawnIsNew, OneLoopPerService
<1>10. CASE Cancel \/ Drained
  <2>1. engine' \notin {"down", "up"} /\ UNCHANGED <<spawn, loop>>
    BY <1>10 DEF Cancel, Drained, pollerVars
  <2> QED BY <1>e, <1>s, <2>1 DEF SpawnIsNew
<1>11. CASE Stop
  <2>1. engine' = "draining" /\ loop' = Closed(loop) /\ spawn' = spawn
    BY <1>11 DEF Stop
  <2>2. SpawnIsNew'
    BY <1>s, <1>t, <2>1, ClosesCurrent DEF SpawnIsNew
  <2> QED BY <1>e, <2>1, <2>2
<1> QED BY <1>2, <1>3, <1>4, <1>5, <1>7, <1>8, <1>9, <1>10, <1>11 DEF Next

-----------------------------------------------------------------------------
\* The commands.

LEMMA QueueOfCommands ==
  ASSUME sub \in Subscribers
  PROVE  /\ sub.queue \in Seq(Service) /\ Len(sub.queue) \in Nat
         /\ DOMAIN sub.queue = 1 .. Len(sub.queue)
         /\ \A i \in DOMAIN sub.queue : sub.queue[i] \in Service /\ sub.queue[i].edit \in Nat
<1>1. sub.queue \in Seq(Service)
  BY DEF Subscribers
<1>2. \A i \in 1 .. Len(sub.queue) : sub.queue[i] \in Service
  BY <1>1, ElementOfSeq
<1>3. \A svc \in Service : svc.edit \in Nat
  BY HotReloadAssumption DEF Service
<1> QED BY <1>1, <1>2, <1>3, LenProperties

\* A command that is handled becomes the engine's configuration.
LEMMA HandleTakesFirst ==
  ASSUME TypeOK, Handle
  PROVE  /\ sub.queue # <<>> /\ sub'.queue = Tail(sub.queue) /\ conf' = sub.queue[1]
         /\ UNCHANGED <<file, requests, engine, lost>>
<1>1. sub \in Subscribers
  BY DEF TypeOK, Subscribers
<1>2. /\ sub.queue # <<>> /\ sub' = Handled(sub) /\ UNCHANGED <<file, requests, engine, lost>>
      /\ conf' = Head(sub.queue)
  BY DEF Handle, fileVars, Upsert, RemoveService
<1>3. sub'.queue = Tail(sub.queue)
  BY <1>1, <1>2, SubscriberHandles
<1>4. Head(sub.queue) = sub.queue[1]
  BY <1>1, QueueOfCommands
<1> QED BY <1>2, <1>3, <1>4

LEMMA EntriesOfTail ==
  ASSUME NEW S, NEW q \in Seq(S), q # <<>>
  PROVE  /\ Len(q) \in Nat \ {0} /\ 1 \in DOMAIN q
         /\ DOMAIN q = 1 .. Len(q) /\ DOMAIN Tail(q) = 1 .. Len(q) - 1
         /\ Len(Tail(q)) = Len(q) - 1
         /\ \A i \in DOMAIN Tail(q) : i + 1 \in DOMAIN q /\ Tail(q)[i] = q[i + 1]
  BY HeadTailProperties, LenProperties, EmptySeq

LEMMA InOrderStep == TypeOK /\ LoopsInv /\ InOrder /\ [Next]_vars => InOrder'
<1> SUFFICES ASSUME TypeOK, LoopsInv, InOrder, [Next]_vars PROVE InOrder'
  OBVIOUS
<1> USE HotReloadAssumption
<1>t. /\ file \in Service /\ file.edit \in Nat /\ requests \in SUBSET Service
      /\ sub \in Subscribers /\ conf \in Service /\ conf.edit \in Nat
  BY DEF TypeOK, Subscribers, Service
<1>q. /\ sub.queue \in Seq(Service) /\ Len(sub.queue) \in Nat
      /\ DOMAIN sub.queue = 1 .. Len(sub.queue)
      /\ \A i \in DOMAIN sub.queue : sub.queue[i] \in Service /\ sub.queue[i].edit \in Nat
  BY <1>t, QueueOfCommands
<1>o. /\ \A cmd \in requests : cmd = file
      /\ conf.edit <= file.edit
      /\ \A i \in DOMAIN sub.queue :
           conf.edit <= sub.queue[i].edit /\ sub.queue[i].edit <= file.edit
      /\ \A i, j \in DOMAIN sub.queue : i <= j => sub.queue[i].edit <= sub.queue[j].edit
  BY DEF InOrder
\* With nothing on its way only the engine and the file are to be compared.
<1>1. ASSUME sub'.queue = <<>>, conf'.edit <= file'.edit, \A cmd \in requests' : cmd = file'
      PROVE  InOrder'
  <2>1. DOMAIN sub'.queue = {}
    BY <1>1
  <2> QED BY <1>1, <2>1 DEF InOrder
<1>2. ASSUME UNCHANGED <<file, conf>>, requests' \subseteq requests, sub'.queue = sub.queue
      PROVE  InOrder'
  BY <1>o, <1>2 DEF InOrder
<1>3. CASE \/ Spawn \/ Cancel \/ Stop \/ Drained \/ CrashAPI \/ UNCHANGED vars
           \/ \E l \in Loops : LoopStep(l)
  <2>1. UNCHANGED <<file, conf, sub>> /\ requests' \subseteq requests
    BY <1>3 DEF Spawn, Cancel, Stop, Drained, CrashAPI, LoopStep, PollEnds, Tick, LoopEnds,
                vars, fileVars, pollerVars
  <2> QED BY <1>2, <2>1
<1>4. ASSUME NEW there \in BOOLEAN, Save(there) PROVE InOrder'
  <2>1. /\ file'.edit = file.edit + 1 /\ requests' = {file'} /\ UNCHANGED <<conf, sub>>
    BY <1>4 DEF Save, Locked, pollerVars
  <2> QED BY <1>t, <1>q, <1>o, <2>1 DEF InOrder
<1>5. ASSUME NEW cmd \in requests, Publish(cmd) PROVE InOrder'
  <2>1. cmd = file /\ requests' \subseteq requests /\ UNCHANGED <<file, conf>>
    BY <1>5, <1>o DEF Publish, pollerVars
  <2>2. sub'.queue = sub.queue \/ sub'.queue = Append(sub.queue, file)
    BY <1>5, <1>t, <2>1, SubscriberSteps DEF Publish
  <2>3. CASE sub'.queue = Append(sub.queue, file)
    <3>1. /\ DOMAIN sub'.queue = 1 .. Len(sub.queue) + 1
          /\ \A i \in DOMAIN sub.queue : sub'.queue[i] = sub.queue[i]
          /\ sub'.queue[Len(sub.queue) + 1] = file
      BY <1>t, <1>q, <2>3, AppendProperties, LenProperties
    <3>2. \A i \in DOMAIN sub'.queue :
            i \in DOMAIN sub.queue \/ (i = Len(sub.queue) + 1 /\ sub'.queue[i] = file)
      BY <1>q, <3>1
    <3>3. \A i \in DOMAIN sub'.queue :
            conf.edit <= sub'.queue[i].edit /\ sub'.queue[i].edit <= file.edit
      BY <1>t, <1>o, <3>1, <3>2
    <3>4. ASSUME NEW i \in DOMAIN sub'.queue, NEW j \in DOMAIN sub'.queue, i <= j
          PROVE  sub'.queue[i].edit <= sub'.queue[j].edit
      <4>1. CASE j = Len(sub.queue) + 1
        BY <3>1, <3>3, <4>1
      <4>2. CASE j \in DOMAIN sub.queue
        <5>1. i \in DOMAIN sub.queue
          BY <1>q, <3>1, <3>4, <4>2
        <5> QED BY <1>o, <3>1, <3>4, <4>2, <5>1
      <4> QED BY <3>2, <4>1, <4>2
    <3> QED BY <1>o, <2>1, <3>3, <3>4 DEF InOrder
  <2> QED BY <1>2, <2>1, <2>2, <2>3
<1>6. CASE StartEngine
  <2>1. UNCHANGED <<file, requests, sub>> /\ conf' = file
    BY <1>6 DEF StartEngine, fileVars, Upsert
  <2>2. sub.queue = <<>>
    BY <1>6, NewSubscriberIsEmpty DEF StartEngine, LoopsInv, DownIsEmpty
  <2> QED BY <1>1, <1>o, <1>t, <2>1, <2>2
<1>7. CASE Read \/ ReadInVain
  <2>1. UNCHANGED <<file, requests, conf>>
    BY <1>7 DEF Read, ReadInVain, fileVars, pollerVars
  <2>2. sub'.queue = sub.queue \/ sub'.queue = <<>>
    BY <1>7, <1>t, SubscriberSteps DEF Read, ReadInVain
  <2> QED BY <1>1, <1>2, <1>o, <2>1, <2>2
<1>8. CASE Handle
  <2>1. /\ sub.queue # <<>> /\ sub'.queue = Tail(sub.queue) /\ conf' = sub.queue[1]
        /\ UNCHANGED <<file, requests>>
    BY <1>8, HandleTakesFirst
  <2>2. /\ 1 \in DOMAIN sub.queue /\ DOMAIN sub'.queue \subseteq Nat
        /\ \A i \in DOMAIN sub'.queue :
             i + 1 \in DOMAIN sub.queue /\ sub'.queue[i] = sub.queue[i + 1]
    BY <1>q, <2>1, EntriesOfTail
  <2>3. \A i \in DOMAIN sub'.queue : sub.queue[1].edit <= sub.queue[i + 1].edit
    BY <1>o, <2>2
  <2>4. \A i, j \in DOMAIN sub'.queue : i <= j => sub.queue[i + 1].edit <= sub.queue[j + 1].edit
    BY <1>o, <2>2
  <2> QED BY <1>o, <2>1, <2>2, <2>3, <2>4 DEF InOrder
<1>9. CASE Crash \/ Exit
  <2>1. UNCHANGED <<file, requests>> /\ sub' = NewSubscriber /\ conf' = None
    BY <1>9 DEF Crash, Exit, Gone, fileVars
  <2> QED BY <1>1, <1>o, <1>t, <2>1, NewSubscriberIsEmpty, NoneTyped
<1> QED BY <1>3, <1>4, <1>5, <1>6, <1>7, <1>8, <1>9 DEF Next, Create, Update, Delete

LEMMA NewestIsFileStep == HotReloadInv /\ [Next]_vars => NewestIsFile'
<1> SUFFICES ASSUME HotReloadInv, [Next]_vars, engine' = "up", ~Locked', ~lost'
             PROVE  Newest' = file'
  BY DEF NewestIsFile
<1>t. TypeOK /\ sub \in Subscribers /\ file \in Service
  BY DEF HotReloadInv, TypeOK, Subscribers
<1>q. sub.queue \in Seq(Service) /\ Len(sub.queue) \in Nat
  BY <1>t, QueueOfCommands
<1>n. engine = "up" /\ ~Locked /\ ~lost => Newest = file
  BY DEF HotReloadInv, NewestIsFile
<1>r. \A cmd \in requests : cmd = file
  BY DEF HotReloadInv, InOrder
<1>1. ASSUME engine = "up", ~lost, sub'.queue = sub.queue, UNCHANGED <<file, requests, conf>>
      PROVE  Newest' = file'
  BY <1>n, <1>1 DEF Newest, Locked
<1>2. CASE \/ Spawn \/ UNCHANGED vars \/ \E l \in Loops : LoopStep(l)
  <2>1. UNCHANGED <<file, requests, conf, sub, lost, engine>>
    BY <1>2 DEF Spawn, LoopStep, PollEnds, Tick, LoopEnds, vars, fileVars, pollerVars
  <2> QED BY <1>1, <2>1
<1>3. ASSUME NEW there \in BOOLEAN, Save(there) PROVE FALSE
  BY <1>3 DEF Save, Locked
<1>4. ASSUME NEW cmd \in requests, Publish(cmd) PROVE Newest' = file'
  <2>1. cmd = file /\ file' = file /\ sub' = Added(sub, cmd) /\ Hears(sub)
    BY <1>4, <1>r DEF Publish
  <2>2. sub'.queue = Append(sub.queue, file)
    BY <1>t, <2>1, SubscriberSteps
  <2>3. Append(sub.queue, file) # <<>>
        /\ Append(sub.queue, file)[Len(Append(sub.queue, file))] = file
    BY <1>t, <1>q, AppendProperties
  <2> QED BY <2>1, <2>2, <2>3 DEF Newest
<1>5. CASE StartEngine
  <2>1. UNCHANGED <<file, sub>> /\ conf' = file
    BY <1>5 DEF StartEngine, fileVars, Upsert
  <2>2. sub.queue = <<>>
    BY <1>5, NewSubscriberIsEmpty DEF StartEngine, HotReloadInv, LoopsInv, DownIsEmpty
  <2> QED BY <2>1, <2>2 DEF Newest
<1>6. CASE Read \/ ReadInVain
  <2>1. UNCHANGED <<file, requests, conf>> /\ engine = "up"
    BY <1>6 DEF Read, ReadInVain, fileVars, pollerVars
  <2>3. ~lost
    BY <1>6 DEF Read, ReadInVain
  <2>2. sub'.queue = sub.queue
    <3>1. CASE Read
      BY <1>t, <3>1, SubscriberSteps DEF Read
    <3>2. CASE ReadInVain
      <4>1. sub' = AskedInVain(sub) /\ (sub.anchored \/ sub.queue = <<>>)
        BY <3>2 DEF ReadInVain
      <4> QED BY <1>t, <4>1, SubscriberSteps
    <3> QED BY <1>6, <3>1, <3>2
  <2> QED BY <1>1, <2>1, <2>2, <2>3
<1>7. CASE Handle
  <2>1. /\ sub.queue # <<>> /\ sub'.queue = Tail(sub.queue) /\ conf' = sub.queue[1]
        /\ UNCHANGED <<file, requests, engine, lost>>
    BY <1>t, <1>7, HandleTakesFirst
  <2>2. sub.queue[Len(sub.queue)] = file
    BY <1>n, <2>1 DEF Newest, Locked
  <2>3. /\ Len(sub.queue) \in Nat \ {0} /\ Len(sub'.queue) = Len(sub.queue) - 1
        /\ \A i \in 1 .. Len(sub.queue) - 1 : sub'.queue[i] = sub.queue[i + 1]
    BY <1>q, <2>1, EntriesOfTail
  <2>4. CASE sub'.queue = <<>>
    <3>1. Len(sub.queue) = 1
      BY <2>3, <2>4
    <3> QED BY <2>1, <2>2, <2>4, <3>1 DEF Newest
  <2>5. CASE sub'.queue # <<>>
    <3>1. Tail(sub.queue) \in Seq(Service)
      BY <1>q, <2>1, HeadTailProperties
    <3>2. Len(sub'.queue) \in Nat \ {0}
      BY <2>1, <2>5, <3>1, EmptySeq
    <3>4. /\ Len(sub.queue) - 1 \in 1 .. Len(sub.queue) - 1
          /\ (Len(sub.queue) - 1) + 1 = Len(sub.queue)
      <4>1. \A n, k \in Nat \ {0} : k = n - 1 => n - 1 \in 1 .. n - 1 /\ (n - 1) + 1 = n
        OBVIOUS
      <4>2. Len(sub.queue) \in Nat \ {0} /\ Len(sub'.queue) = Len(sub.queue) - 1
        BY <2>3
      <4> QED BY <3>2, <4>1, <4>2
    <3>3. sub'.queue[Len(sub.queue) - 1] = sub.queue[Len(sub.queue)]
      <4>1. sub'.queue[Len(sub.queue) - 1] = sub.queue[(Len(sub.queue) - 1) + 1]
        BY <2>3, <3>4
      <4> QED BY <3>4, <4>1
    <3> QED BY <2>1, <2>2, <2>3, <2>5, <3>3 DEF Newest
  <2> QED BY <2>4, <2>5
<1>8. CASE CrashAPI \/ Crash \/ Exit \/ Cancel \/ Stop \/ Drained
  BY <1>8 DEF CrashAPI, Crash, Exit, Gone, Cancel, Stop, Drained
<1> QED BY <1>2, <1>3, <1>4, <1>5, <1>6, <1>7, <1>8 DEF Next, Create, Update, Delete

-----------------------------------------------------------------------------

LEMMA HotReloadInvInit == Init => HotReloadInv
<1> SUFFICES ASSUME Init PROVE HotReloadInv
  OBVIOUS
<1>1. /\ engine = "down" /\ sub = NewSubscriber /\ conf = None /\ requests = {}
      /\ current = NoLoop /\ spawn = NoLoop /\ loop = [l \in Loops |-> Ended]
      /\ file.edit = 0
  BY DEF Init
<1>2. Running = {}
  BY <1>1, NoneTyped DEF Running
<1>3. LoopsInv
  BY <1>1, <1>2 DEF LoopsInv, DownIsEmpty, SpawnIsNew, OneLoopPerService
<1>4. InOrder
  BY <1>1, NewSubscriberIsEmpty, NoneTyped DEF InOrder
<1> QED BY <1>1, <1>3, <1>4, HotReloadTypesInit DEF HotReloadInv, NewestIsFile

LEMMA HotReloadInvAlways == Spec => []HotReloadInv
<1>1. HotReloadInv /\ [Next]_vars => HotReloadInv'
  BY HotReloadTypesStep, LoopsInvStep, InOrderStep, NewestIsFileStep DEF HotReloadInv
<1> QED BY <1>1, HotReloadInvInit, PTL DEF Spec

\* The variables have their types.
THEOREM HotReloadTyped == Spec => []TypeOK
<1>1. HotReloadInv => TypeOK
  BY DEF HotReloadInv
<1> QED BY <1>1, HotReloadInvAlways, PTL

\* However many edits overlap with polls, at most one loop of a service polls
\* on, with the configuration the engine holds (poller.go:86-112, 141-156).
THEOREM HotReloadKeepsOneLoop == Spec => []OneLoopPerService
<1>1. HotReloadInv => OneLoopPerService
  BY DEF HotReloadInv, LoopsInv
<1> QED BY <1>1, HotReloadInvAlways, PTL

\* The engine runs what the file says once nothing is on its way, unless the
\* newest command was lost (config_services.go:97-110, bus.go:142).
THEOREM HotReloadMatchesFile == Spec => []RunningMatchesFile
<1>1. HotReloadInv => RunningMatchesFile
  BY DEF HotReloadInv, NewestIsFile, Newest, RunningMatchesFile
<1> QED BY <1>1, HotReloadInvAlways, PTL

\* The engine never goes back to an older configuration.
THEOREM HotReloadNeverBackwards == Spec => NeverBackwards
<1>1. HotReloadInv /\ [Next]_vars
        => [engine # "down" /\ engine' # "down" => conf'.edit >= conf.edit]_vars
  <2> SUFFICES ASSUME HotReloadInv, [Next]_vars, engine # "down", engine' # "down"
               PROVE  conf'.edit >= conf.edit
    OBVIOUS
  <2>1. conf.edit \in Nat /\ TypeOK
    BY HotReloadAssumption DEF HotReloadInv, TypeOK, Service
  <2>2. conf' = conf \/ Handle
    BY DEF Next, Create, Update, Delete, Save, Publish, CrashAPI, Spawn, LoopStep, PollEnds, Tick,
           LoopEnds, StartEngine, Read, ReadInVain, Crash, Cancel, Stop, Drained, Exit, Gone,
           vars, pollerVars
  <2>3. CASE Handle
    <3>1. sub \in Subscribers
      BY <2>1 DEF TypeOK, Subscribers
    <3>2. sub.queue # <<>> /\ conf' = sub.queue[1]
      BY <2>1, <2>3, HandleTakesFirst
    <3>3. /\ sub.queue \in Seq(Service)
          /\ \A i \in DOMAIN sub.queue : sub.queue[i].edit \in Nat
      BY <3>1, QueueOfCommands
    <3>4. 1 \in DOMAIN sub.queue
      BY <3>2, <3>3, EntriesOfTail
    <3>5. conf.edit <= sub.queue[1].edit
      BY <3>4 DEF HotReloadInv, InOrder
    <3> QED BY <2>1, <3>2, <3>3, <3>4, <3>5
  <2> QED BY <2>1, <2>2, <2>3
<1> QED BY <1>1, HotReloadInvAlways, PTL DEF Spec, NeverBackwards
=============================================================================
