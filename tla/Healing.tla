------------------------------- MODULE Healing -------------------------------
(***************************************************************************)
(* Self-healing of one service: the end of StateManager.Record and         *)
(* maybeTriggerHealing (health/state_manager.go), the healer's attempt     *)
(* tracker and action loop (healing/healer.go), the fallback registry      *)
(* (healing/fallback.go) and the heal commands of the API (cmd/main.go).   *)
(* Every heal runs on a goroutine of its own, automatic or manual, for as  *)
(* long as its actions take: the service goes on being polled meanwhile.   *)
(*                                                                         *)
(* The new state is there to be read from Transition on (:71); Record acts *)
(* on it after its writes to the database, the stream and the dispatcher   *)
(* (:141-148), and heal goroutines and the clock may run in between.       *)
(*                                                                         *)
(* Polling is not timed here: the service's results may come at any time.  *)
(* RestartCooldown is both the least time between automatic heals and the  *)
(* tracker's window (NewHealer).                                           *)
(***************************************************************************)
EXTENDS HealthFSM, Sequences, FiniteSets

CONSTANTS
  Heals,        \* bound: heal goroutines alive at once
  Actions,      \* the service's healing_actions, in order
  Cooldown,     \* healing.restart_cooldown, in ticks
  MaxAttempts   \* healing.max_restart_attempts

\* Heal replaces a maximum of 0 by 3; a fallback action has a fallback_url.
ASSUME HealingAssumption ==
  /\ Actions \in Seq({"restart", "webhook", "fallback"})
  /\ Cooldown \in Nat \ {0}
  /\ MaxAttempts \in Nat \ {0}

VARIABLES
  fsm,           \* the service's ServiceState
  sinceAttempt,  \* ticks since healingAttempts was written, up to Cooldown
  tracker,       \* attemptTracker's entry of the service
  heal,          \* heal goroutine -> where it is
  fallback,      \* is the service's fallback registered?
  recording,     \* is Record yet to act on the state Transition returned?
  recent,        \* history: age -> heals that canAttempt granted at that age
  lived,         \* history: heal goroutine -> polls since it found a service down
  slow           \* history: had the fallback's heal lived RecoveryPolls polls?

healVars == <<fsm, sinceAttempt, tracker, heal, fallback, recording,
              recent, lived, slow>>

\* A window is open iff resetAt has an entry; sinceReset saturates when it is over.
Tracker ==
  [open : BOOLEAN, count : 0 .. MaxAttempts, sinceReset : 0 .. Cooldown + 1]

NoTracker == [open |-> FALSE, count |-> 0, sinceReset |-> 0]

\* A goroutine asks the tracker, then runs its i-th action, and is done after
\* the last.
Ask  == 0
Done == Len(Actions) + 1
HealStep == Ask .. Done

\* The polls from UNHEALTHY or DEAD to HEALTHY when all are good: lived counts
\* no further.
RecoveryPolls == 3

HealInit ==
  /\ fsm = NewServiceState
  /\ sinceAttempt = Cooldown
  /\ tracker = NoTracker
  /\ heal = [h \in Heals |-> Done]
  /\ fallback = FALSE
  /\ recording = FALSE
  /\ recent = [age \in 0 .. Cooldown |-> 0]
  /\ lived = [h \in Heals |-> 0]
  /\ slow = FALSE

-----------------------------------------------------------------------------

\* Mutant: the time of the attempt is written before the cooldown is looked at.
maybeTriggerHealing_StampsFirst ==
  /\ sinceAttempt' = 0
  /\ IF sinceAttempt < Cooldown
       THEN UNCHANGED heal
       ELSE \E h \in Heals : heal[h] = Done /\ heal' = [heal EXCEPT ![h] = Ask]

\* Within the cooldown nothing is done, now or later.
maybeTriggerHealing ==
  IF sinceAttempt < Cooldown
    THEN UNCHANGED <<sinceAttempt, heal>>
    ELSE /\ sinceAttempt' = 0
         /\ \E h \in Heals : heal[h] = Done /\ heal' = [heal EXCEPT ![h] = Ask]

\* Mutant: the fallback is cleared when recovery starts.
ClearsFallback_AtRecovering(st) == st = "RECOVERING"

ClearsFallback(st) == st = "HEALTHY"

\* A poll's result reaches Record: the state is new from here on.  An
\* unchanged one ends Record at once.
Poll(ok) ==
  /\ ~recording
  /\ fsm' = Transition(fsm, ok)
  /\ recording' = Changed(fsm, ok)
  /\ lived' = [h \in Heals |->
                 IF heal[h] = Done THEN 0 ELSE CountTo(lived[h] + 1, RecoveryPolls)]
  /\ UNCHANGED <<sinceAttempt, tracker, heal, fallback, recent, slow>>

\* The end of Record, once the change is written, published and dispatched.
\* One loop polls the service, so its state is still the one to act on.
RecordEnds ==
  /\ recording
  /\ recording' = FALSE
  /\ IF fsm.cur = "DEAD"
       THEN maybeTriggerHealing
       ELSE UNCHANGED <<sinceAttempt, heal>>
  /\ fallback' = (fallback /\ ~ClearsFallback(fsm.cur))
  /\ UNCHANGED <<fsm, tracker, recent, lived, slow>>

\* A heal command of the API starts a heal in any state, cooldown or not.  One
\* for a service that is not down counts as having lived through a recovery.
ManualHeal(h) ==
  /\ heal[h] = Done
  /\ heal' = [heal EXCEPT ![h] = Ask]
  /\ lived' = [lived EXCEPT ![h] =
                 IF fsm.cur \in {"UNHEALTHY", "DEAD"} THEN 0 ELSE RecoveryPolls]
  /\ UNCHANGED <<fsm, sinceAttempt, tracker, fallback, recording, recent, slow>>

\* A goroutine goes on, or ends and is forgotten.
GoTo(h, step) ==
  /\ heal' = [heal EXCEPT ![h] = step]
  /\ lived' = [lived EXCEPT ![h] = IF step = Done THEN 0 ELSE lived[h]]

\* Mutants: the counter is reset whenever it is looked at; it is never reset.
\* The tracker's entry once an elapsed window has been forgotten.
Current_Always(t) == NoTracker
Current_Never(t)  == t

Current(t) == IF t.open /\ t.sinceReset > Cooldown THEN NoTracker ELSE t

Granted(t) == Current(t).count < MaxAttempts

\* The window starts at its first attempt.
CountedAttempt(t) ==
  [open       |-> TRUE,
   count      |-> t.count + 1,
   sinceReset |-> IF t.open THEN t.sinceReset ELSE 0]

canAttempt(h) ==
  /\ heal[h] = Ask
  /\ IF Granted(tracker)
       THEN /\ tracker' = CountedAttempt(Current(tracker))
            /\ GoTo(h, 1)
            /\ recent' = [recent EXCEPT ![0] = @ + 1]
       ELSE /\ tracker' = Current(tracker)
            /\ GoTo(h, Done)
            /\ UNCHANGED recent
  /\ UNCHANGED <<fsm, sinceAttempt, fallback, recording, slow>>

\* One action of Heal's loop: the first that succeeds ends it.  A restart or a
\* webhook may fail; Reroute registers the fallback and succeeds.
RunAction(h) ==
  /\ heal[h] \in DOMAIN Actions
  /\ IF Actions[heal[h]] = "fallback"
       THEN /\ fallback' = TRUE
            /\ slow' = (lived[h] = RecoveryPolls)
            /\ GoTo(h, Done)
       ELSE /\ \E next \in {Done, heal[h] + 1} : GoTo(h, next)
            /\ UNCHANGED <<fallback, slow>>
  /\ UNCHANGED <<fsm, sinceAttempt, tracker, recording, recent>>

\* A tick later.
Older(t) ==
  [open       |-> t.open,
   count      |-> t.count,
   sinceReset |-> IF t.open THEN CountTo(t.sinceReset + 1, Cooldown + 1) ELSE 0]

HealTick ==
  /\ sinceAttempt' = CountTo(sinceAttempt + 1, Cooldown)
  /\ tracker' = Older(tracker)
  /\ recent' = [age \in 0 .. Cooldown |-> IF age = 0 THEN 0 ELSE recent[age - 1]]
  /\ UNCHANGED <<fsm, heal, fallback, recording, lived, slow>>

HealStepOf(h) == canAttempt(h) \/ RunAction(h)

HealNext ==
  \/ \E ok \in BOOLEAN : Poll(ok)
  \/ RecordEnds
  \/ \E h \in Heals : ManualHeal(h) \/ HealStepOf(h)
  \/ HealTick

HealSpec == HealInit /\ [][HealNext]_healVars

\* Record's calls return, goroutines run, the actions end, and time passes.
HealFairSpec ==
  /\ HealSpec
  /\ WF_healVars(RecordEnds)
  /\ \A h \in Heals : WF_healVars(HealStepOf(h))
  /\ WF_healVars(HealTick)

-----------------------------------------------------------------------------

HealTypeOK ==
  /\ fsm \in ServiceState
  /\ sinceAttempt \in 0 .. Cooldown
  /\ tracker \in Tracker
  /\ heal \in [Heals -> HealStep]
  /\ fallback \in BOOLEAN
  /\ recording \in BOOLEAN
  /\ recent \in [0 .. Cooldown -> 0 .. MaxAttempts]
  /\ lived \in [Heals -> 0 .. RecoveryPolls]
  /\ slow \in BOOLEAN

\* The heals that a history counts at these ages, each as its age and its
\* number within it.
Grants(history, ages) == UNION {{age} \X (1 .. history[age]) : age \in ages}

\* How many were granted in the last n ticks, the current one included.
GrantedIn(n) == Cardinality(Grants(recent, 0 .. n - 1))

\* A restart storm is impossible: in no stretch of Cooldown ticks are more
\* than 2 * MaxAttempts - 1 heals granted, automatic and manual ones together.
\* The tracker's window is fixed, so two windows can meet in the stretch
\* (healer.go:45-63).
AttemptsBounded == GrantedIn(Cooldown) <= 2 * MaxAttempts - 1

\* A heal is refused only when the attempts of the last window are used up.
RefusedOnlyWhenUsedUp ==
  [][\A h \in Heals :
       heal[h] = Ask /\ heal'[h] # Ask /\ recent' = recent
         => GrantedIn(Cooldown + 1) >= MaxAttempts]_healVars

\* The actions before the fallback have the time of RecoveryPolls polls: a heal
\* that was started on a service that was down and registers the fallback sooner
\* leaves no HEALTHY service rerouted once its recovery is recorded, however the
\* polls, Record's end and other heals interleave (state_manager.go:71 and 147,
\* fallback.go:86-88).  A slower one does: its fallback stays until the next
\* recovery.
QuickHealsLeaveNoReroute ==
  fsm.cur = "HEALTHY" /\ ~recording /\ fallback => slow

\* What makes QuickHealsLeaveNoReroute inductive.  While a heal is younger than
\* a recovery the service cannot have come back, and what it registers is
\* cleared by the recovery that follows.
RerouteInv ==
  /\ StateMatchesRun(fsm)
  /\ \A h \in Heals : heal[h] # Done /\ lived[h] < RecoveryPolls
       => fsm.cur \in {"UNHEALTHY", "DEAD", "RECOVERING"} /\ fsm.oks <= lived[h]
  /\ QuickHealsLeaveNoReroute

\* What makes AttemptsBounded and RefusedOnlyWhenUsedUp inductive.  While a
\* window is open, the tracker's count is what was granted since its first
\* attempt, and less than MaxAttempts are left of the window before; once it
\* has elapsed, its own first attempt is out of reach.
WindowOpen == tracker.open /\ tracker.sinceReset <= Cooldown

WindowsInv ==
  /\ ~tracker.open => tracker = NoTracker
  /\ WindowOpen =>
       /\ tracker.count = Cardinality(Grants(recent, 0 .. tracker.sinceReset))
       /\ recent[tracker.sinceReset] > 0
       /\ Cardinality(Grants(recent, tracker.sinceReset + 1 .. Cooldown)) < MaxAttempts
  /\ ~WindowOpen =>
       /\ recent[0] = 0
       /\ Cardinality(Grants(recent, 0 .. Cooldown)) < MaxAttempts

\* A service that dies again and again is healed again and again: the cooldown
\* and the tracker delay heals, they never stop them.  (A death within the
\* cooldown is not healed later; the next one outside it is.)
HealedAgainAndAgain ==
  []<>(fsm.cur = "DEAD") /\ []<>(fsm.cur = "HEALTHY")
    => []<>(\E h \in Heals : heal[h] \in DOMAIN Actions)
=============================================================================
