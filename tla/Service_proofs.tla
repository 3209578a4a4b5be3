--------------------------- MODULE Service_proofs ---------------------------
(***************************************************************************)
(* What is proved of the models of one service: its circuit breaker        *)
(* between the two pollers that share it (BreakerPolling), its self-healing *)
(* (Healing) and its alert floor when it is passive (PassiveService).      *)
(***************************************************************************)
EXTENDS BreakerPolling, Healing, PassiveService, HealthFSM_proofs,
        FiniteSetTheorems, SequenceTheorems, TLAPS

\* Sat(n + 1, max) counts up to max and stays there.
LEMMA SatStep ==
  ASSUME NEW max \in Nat, NEW n \in 0 .. max
  PROVE  /\ Sat(n + 1, max) \in 0 .. max
         /\ Sat(n + 1, max) = IF n < max THEN n + 1 ELSE max
  BY DEF Sat

\* The breaker's methods map breakers to breakers (breaker.go:48-140).
LEMMA BreakerClosed ==
  ASSUME NEW b \in BreakerRecord
  PROVE  /\ AfterIsOpen(b) \in BreakerRecord
         /\ RecordSuccess(b) \in BreakerRecord
         /\ RecordFailure(b) \in BreakerRecord
         /\ ResetBreaker(b) \in BreakerRecord
         /\ AgeBreaker(b) \in BreakerRecord
<1> USE BreakerAssumption DEF BreakerRecord, BreakerState
<1>t. ASSUME NEW c \in BreakerRecord, NEW next \in BreakerState
      PROVE  transitionTo(c, next) \in BreakerRecord
  BY DEF transitionTo
<1>1. AfterIsOpen(b) \in BreakerRecord
  BY <1>t DEF AfterIsOpen
<1>2. RecordSuccess(b) \in BreakerRecord
  <2>1. OneMoreOK(b) \in BreakerRecord
    BY SatStep DEF OneMoreOK, Counted
  <2> QED BY <2>1, <1>t DEF RecordSuccess
<1>3. RecordFailure(b) \in BreakerRecord
  <2>1. OneMoreFail(b) \in BreakerRecord
    BY SatStep DEF OneMoreFail, Counted
  <2> QED BY <2>1, <1>t DEF RecordFailure
<1>4. ResetBreaker(b) \in BreakerRecord
  BY <1>t DEF ResetBreaker, Counted
<1>5. AgeBreaker(b) \in BreakerRecord
  BY SatStep DEF AgeBreaker
<1> QED BY <1>1, <1>2, <1>3, <1>4, <1>5

-----------------------------------------------------------------------------

\* Every variable keeps its type.
THEOREM PollingTypeCorrect == Spec => []TypeOK
<1> USE BreakerAssumption, PollingAssumption DEF TypeOK
<1>1. Init => TypeOK
  BY DEF Init, NewBreaker, BreakerRecord, BreakerState, PollStep, Run
<1>2. TypeOK /\ [Next]_vars => TypeOK'
  <2> SUFFICES ASSUME TypeOK, [Next]_vars PROVE TypeOK'
    OBVIOUS
  <2>1. ASSUME NEW p \in Polls, Gate(p) PROVE TypeOK'
    BY <2>1, BreakerClosed DEF Gate, PollStep
  <2>2. ASSUME NEW p \in Polls, Return(p) PROVE TypeOK'
    BY <2>2 DEF Return, PollStep
  <2>3. ASSUME NEW p \in Polls, Succeed(p) PROVE TypeOK'
    <3>1. breaker' \in BreakerRecord
      BY <2>3, BreakerClosed DEF Succeed
    <3>2. Sat(run.oks + 1, SuccessThreshold) \in 0 .. SuccessThreshold
      BY SatStep DEF Run
    <3>3. run' \in Run
      BY <2>3, <3>2 DEF Succeed, Run
    <3> QED BY <2>3, <3>1, <3>3 DEF Succeed, PollStep
  <2>4. ASSUME NEW p \in Polls, Fail(p) PROVE TypeOK'
    <3>1. breaker' \in BreakerRecord
      BY <2>4, BreakerClosed DEF Fail
    <3>2. Sat(run.fails + 1, FailureThreshold) \in 0 .. FailureThreshold
      BY SatStep DEF Run
    <3>3. run' \in Run
      BY <2>4, <3>2 DEF Fail, Run
    <3> QED BY <2>4, <3>1, <3>3 DEF Fail, PollStep, InFlight
  <2>5. CASE Reset
    <3>1. breaker' \in BreakerRecord
      BY <2>5, BreakerClosed DEF Reset
    <3>2. run' \in Run
      BY <2>5 DEF Reset, Run
    <3> QED BY <2>5, <3>1, <3>2 DEF Reset
  <2>6. CASE Tick
    <3>1. Sat(run.waited + 1, Timeout) \in 0 .. Timeout
      BY SatStep DEF Run
    <3> QED BY <2>6, <3>1, BreakerClosed DEF Tick, Run
  <2>7. CASE Flip
    BY <2>7 DEF Flip
  <2>8. CASE UNCHANGED vars
    BY <2>8 DEF vars
  <2> QED
    BY <2>1, <2>2, <2>3, <2>4, <2>5, <2>6, <2>7, <2>8 DEF Next, PollStepOf
<1> QED BY <1>1, <1>2, PTL DEF Spec

-----------------------------------------------------------------------------

\* The breaker's counters and clock never run ahead of what was recorded, and
\* an OPEN circuit holds back every check that had not started before it opened
\* (breaker.go:48-140 under the interleavings of poller.go:187-276).
THEOREM BreakerInvariant == Spec => []BreakerInv
<1> DEFINE IInv == TypeOK /\ BreakerInv
<1> USE BreakerAssumption, PollingAssumption
<1>1. Init => BreakerInv
  BY DEF Init, NewBreaker, BreakerInv, NoCheckBehindOpen, HalfOpenIsEarned
<1>2. TypeOK /\ BreakerInv /\ [Next]_vars => BreakerInv'
  <2> SUFFICES ASSUME TypeOK, BreakerInv, [Next]_vars PROVE BreakerInv'
    OBVIOUS
  <2> USE DEF BreakerInv, NoCheckBehindOpen, HalfOpenIsEarned, InFlight, TypeOK
  <2>t. /\ breaker.state \in BreakerState
        /\ breaker.consecutiveFails \in 0 .. FailureThreshold
        /\ breaker.consecutiveOK \in 0 .. SuccessThreshold
        /\ breaker.openFor \in 0 .. Timeout
        /\ run.fails \in 0 .. FailureThreshold
        /\ run.oks \in 0 .. SuccessThreshold
        /\ run.waited \in 0 .. Timeout
        /\ run.early \in BOOLEAN
    BY DEF BreakerRecord, Run
  <2>1. ASSUME NEW p \in Polls, Gate(p) PROVE BreakerInv'
    BY <2>1, <2>t DEF Gate, AfterIsOpen, IsOpen, transitionTo, BreakerState
  <2>2. ASSUME NEW p \in Polls, Return(p) PROVE BreakerInv'
    BY <2>2, <2>t DEF Return, PollStep
  <2>3. ASSUME NEW p \in Polls, Succeed(p) PROVE BreakerInv'
    <3> USE <2>3, <2>t DEF Succeed, RecordSuccess, OneMoreOK, Counted, transitionTo, Sat
    <3>1. CASE breaker.state = "OPEN"
      <4>1. run'.early
        BY <3>1, Zenon
      <4>2. breaker'.state = "HALF_OPEN" /\ run'.waited = run.waited
        BY <3>1
      <4>3. /\ breaker'.consecutiveFails <= run'.fails
            /\ breaker'.consecutiveOK <= run'.oks
        BY <3>1
      <4> QED BY <4>1, <4>2, <4>3
    <3>2. CASE breaker.state = "HALF_OPEN"
      BY <3>2
    <3>3. CASE breaker.state = "CLOSED"
      BY <3>3
    <3> QED BY <3>1, <3>2, <3>3 DEF BreakerState
  <2>4. ASSUME NEW p \in Polls, Fail(p) PROVE BreakerInv'
    BY <2>4, <2>t DEF Fail, RecordFailure, OneMoreFail, Counted, transitionTo, Sat, Opens,
                      BreakerState
  <2>5. CASE Reset
    BY <2>5, <2>t DEF Reset, ResetBreaker, Counted, transitionTo
  <2>6. CASE Tick
    BY <2>6, <2>t DEF Tick, AgeBreaker, Sat
  <2>7. CASE Flip
    BY <2>7 DEF Flip
  <2>8. CASE UNCHANGED vars
    BY <2>8 DEF vars
  <2> QED
    BY <2>1, <2>2, <2>3, <2>4, <2>5, <2>6, <2>7, <2>8 DEF Next, PollStepOf
<1> QED BY <1>1, <1>2, PollingTypeCorrect, PTL DEF Spec

-----------------------------------------------------------------------------

\* Any step that opens the circuit records a failure, and any step that closes
\* it records a success or is a reset (breaker.go:64-108).
LEMMA WhoOpensWhoCloses ==
  ASSUME TypeOK, BreakerInv, Next
  PROVE  /\ breaker.state = "CLOSED" /\ breaker'.state = "OPEN"
              => run'.fails = FailureThreshold
         /\ breaker.state # "CLOSED" /\ breaker'.state = "CLOSED"
              => run'.oks = SuccessThreshold \/ resets' # resets
<1> DEFINE Goal == /\ breaker.state = "CLOSED" /\ breaker'.state = "OPEN"
                        => run'.fails = FailureThreshold
                   /\ breaker.state # "CLOSED" /\ breaker'.state = "CLOSED"
                        => run'.oks = SuccessThreshold \/ resets' # resets
<1> USE BreakerAssumption, PollingAssumption DEF BreakerInv, TypeOK
<1>t. /\ breaker.state \in BreakerState
      /\ breaker.consecutiveFails \in 0 .. FailureThreshold
      /\ breaker.consecutiveOK \in 0 .. SuccessThreshold
      /\ run.fails \in 0 .. FailureThreshold
      /\ run.oks \in 0 .. SuccessThreshold
  BY DEF BreakerRecord, Run
<1>1. ASSUME NEW p \in Polls, Gate(p) PROVE Goal
  BY <1>1, <1>t DEF Gate, AfterIsOpen, transitionTo
<1>2. ASSUME NEW p \in Polls, Return(p) PROVE Goal
  BY <1>2 DEF Return
<1>3. ASSUME NEW p \in Polls, Succeed(p) PROVE Goal
  BY <1>3, <1>t DEF Succeed, RecordSuccess, OneMoreOK, Counted, transitionTo, Sat
<1>4. ASSUME NEW p \in Polls, Fail(p) PROVE Goal
  BY <1>4, <1>t DEF Fail, RecordFailure, OneMoreFail, Counted, transitionTo, Sat
<1>5. CASE Reset
  BY <1>5 DEF Reset, ResetBreaker, Counted, transitionTo
<1>6. CASE Tick
  BY <1>6, <1>t DEF Tick, AgeBreaker
<1>7. CASE Flip
  BY <1>7 DEF Flip
<1> QED
  BY <1>1, <1>2, <1>3, <1>4, <1>5, <1>6, <1>7 DEF Next, PollStepOf

\* The circuit opens only on FailureThreshold failures in a row.
THEOREM OpeningNeedsRun == Spec => OpensOnlyOnRun
<1>1. TypeOK /\ BreakerInv /\ [Next]_vars
        => [breaker.state = "CLOSED" /\ breaker'.state = "OPEN"
              => run'.fails = FailureThreshold]_vars
  BY WhoOpensWhoCloses
<1> QED BY <1>1, PollingTypeCorrect, BreakerInvariant, PTL DEF Spec, OpensOnlyOnRun

\* The circuit closes by itself only on SuccessThreshold successes in a row.
THEOREM ClosingNeedsRun == Spec => ClosesOnlyOnRun
<1>1. TypeOK /\ BreakerInv /\ [Next]_vars
        => [breaker.state # "CLOSED" /\ breaker'.state = "CLOSED"
              => run'.oks = SuccessThreshold \/ resets' # resets]_vars
  BY WhoOpensWhoCloses
<1> QED BY <1>1, PollingTypeCorrect, BreakerInvariant, PTL DEF Spec, ClosesOnlyOnRun

\* The two state properties the run checks, as consequences of the invariant.
COROLLARY OpenHoldsBack == Spec => []NoCheckBehindOpen
<1>1. BreakerInv => NoCheckBehindOpen
  BY DEF BreakerInv
<1> QED BY <1>1, BreakerInvariant, PTL

COROLLARY CoolDownHolds == Spec => []HalfOpenIsEarned
<1>1. BreakerInv => HalfOpenIsEarned
  BY DEF BreakerInv
<1> QED BY <1>1, BreakerInvariant, PTL

-----------------------------------------------------------------------------



\* The heals at some ages are finitely many pairs of an age and a number.
LEMMA GrantsMember ==
  ASSUME NEW f, NEW ages, NEW a, NEW k
  PROVE  <<a, k>> \in Grants(f, ages) <=> a \in ages /\ k \in 1 .. f[a]
<1>1. <<a, k>> \in Grants(f, ages) <=> \E b \in ages : <<a, k>> \in {b} \X (1 .. f[b])
  BY Zenon DEF Grants
<1>2. \A b : <<a, k>> \in {b} \X (1 .. f[b]) <=> a = b /\ k \in 1 .. f[b]
  OBVIOUS
<1> QED BY <1>1, <1>2, Zenon

LEMMA GrantsPairs ==
  ASSUME NEW c \in Nat, NEW m \in Nat, NEW f \in [0 .. c -> 0 .. m],
         NEW ages \in SUBSET (0 .. c)
  PROVE  /\ Grants(f, ages) \in SUBSET ((0 .. c) \X (1 .. m))
         /\ \A x \in Grants(f, ages) : \E a \in 0 .. c, k \in 1 .. m : x = <<a, k>>
<1>1. ASSUME NEW a \in ages PROVE {a} \X (1 .. f[a]) \subseteq (0 .. c) \X (1 .. m)
  <2>1. a \in 0 .. c /\ f[a] \in 0 .. m
    OBVIOUS
  <2>2. 1 .. f[a] \subseteq 1 .. m
    BY <2>1
  <2> QED BY <2>1, <2>2, Zenon
<1>2. Grants(f, ages) \in SUBSET ((0 .. c) \X (1 .. m))
  BY <1>1, Zenon DEF Grants
<1>3. \A x \in (0 .. c) \X (1 .. m) : \E a \in 0 .. c, k \in 1 .. m : x = <<a, k>>
  OBVIOUS
<1> QED BY <1>2, <1>3, Zenon

LEMMA GrantsFinite ==
  ASSUME NEW c \in Nat, NEW m \in Nat, NEW f \in [0 .. c -> 0 .. m],
         NEW ages \in SUBSET (0 .. c)
  PROVE  IsFiniteSet(Grants(f, ages)) /\ Cardinality(Grants(f, ages)) \in Nat
<1>1. IsFiniteSet(0 .. c) /\ IsFiniteSet(1 .. m)
  BY FS_Interval
<1>2. IsFiniteSet((0 .. c) \X (1 .. m))
  BY <1>1, FS_Product, Zenon
<1>3. IsFiniteSet(Grants(f, ages))
  BY <1>2, GrantsPairs, FS_Subset, Zenon
<1> QED BY <1>3, FS_CardinalityType, Zenon

\* More ages, no fewer heals.
LEMMA GrantsMonotone ==
  ASSUME NEW c \in Nat, NEW m \in Nat, NEW f \in [0 .. c -> 0 .. m],
         NEW more \in SUBSET (0 .. c), NEW ages \in SUBSET more
  PROVE  Cardinality(Grants(f, ages)) <= Cardinality(Grants(f, more))
<1>1. Grants(f, ages) \subseteq Grants(f, more)
  BY Zenon DEF Grants
<1> QED BY <1>1, GrantsFinite, FS_Subset

\* An age at which something was granted makes a difference.
LEMMA GrantsWithout ==
  ASSUME NEW c \in Nat, NEW m \in Nat, NEW f \in [0 .. c -> 0 .. m],
         NEW ages \in SUBSET (0 .. c), NEW a \in ages, f[a] > 0
  PROVE  Cardinality(Grants(f, ages \ {a})) < Cardinality(Grants(f, ages))
<1>1. ages \ {a} \in SUBSET (0 .. c) /\ ages \ {a} \in SUBSET ages
  OBVIOUS
<1>2. Grants(f, ages \ {a}) \subseteq Grants(f, ages)
  BY Zenon DEF Grants
<1>3. 1 \in 1 .. f[a]
  OBVIOUS
<1>4. <<a, 1>> \in Grants(f, ages)
  BY <1>3, GrantsMember, Zenon
<1>5. <<a, 1>> \notin Grants(f, ages \ {a})
  <2> DEFINE rest == ages \ {a}
  <2>1. a \notin rest
    OBVIOUS
  <2> HIDE DEF rest
  <2>2. <<a, 1>> \notin Grants(f, rest)
    BY <2>1, GrantsMember
  <2> QED BY <2>2 DEF rest
<1>6. IsFiniteSet(Grants(f, ages)) /\ Cardinality(Grants(f, ages)) \in Nat
  BY GrantsFinite
<1>7. Cardinality(Grants(f, ages \ {a})) \in Nat
  BY <1>1, GrantsFinite
<1>8. /\ Cardinality(Grants(f, ages \ {a})) <= Cardinality(Grants(f, ages))
      /\ Cardinality(Grants(f, ages)) # Cardinality(Grants(f, ages \ {a}))
  BY <1>2, <1>4, <1>5, <1>6, FS_Subset
<1> QED BY <1>6, <1>7, <1>8

\* At one age alone.
LEMMA GrantsAt ==
  ASSUME NEW c \in Nat, NEW m \in Nat, NEW f \in [0 .. c -> 0 .. m], NEW a \in 0 .. c
  PROVE  Cardinality(Grants(f, {a})) = f[a]
<1>1. Grants(f, {a}) = {a} \X (1 .. f[a])
  BY Zenon DEF Grants
<1>2. f[a] \in Nat
  OBVIOUS
<1>3. IsFiniteSet(1 .. f[a]) /\ Cardinality(1 .. f[a]) = f[a]
  <2>1. /\ IsFiniteSet(1 .. f[a])
        /\ Cardinality(1 .. f[a]) = IF 1 > f[a] THEN 0 ELSE f[a] - 1 + 1
    <3>1. 1 \in Int /\ f[a] \in Int
      BY <1>2
    <3> QED BY <3>1, FS_Interval, Zenon
  <2> QED BY <1>2, <2>1
<1>4. IsFiniteSet({a}) /\ Cardinality({a}) = 1
  BY FS_Singleton, Zenon
<1>5. Cardinality({a} \X (1 .. f[a])) = Cardinality({a}) * Cardinality(1 .. f[a])
  BY <1>3, <1>4, FS_Product, Zenon
<1>6. Cardinality({a} \X (1 .. f[a])) = 1 * f[a]
  BY <1>3, <1>4, <1>5, Zenon
<1>7. \A n \in Nat : 1 * n = n
  OBVIOUS
<1> QED BY <1>1, <1>2, <1>6, <1>7, Zenon

\* Two stretches of ages count together.
LEMMA GrantsSplit ==
  ASSUME NEW c \in Nat, NEW m \in Nat, NEW f \in [0 .. c -> 0 .. m],
         NEW a \in SUBSET (0 .. c), NEW b \in SUBSET (0 .. c)
  PROVE  Cardinality(Grants(f, a \cup b)) <= Cardinality(Grants(f, a)) + Cardinality(Grants(f, b))
<1>1. Grants(f, a \cup b) = Grants(f, a) \cup Grants(f, b)
  BY Zenon DEF Grants
<1>2. /\ IsFiniteSet(Grants(f, a)) /\ Cardinality(Grants(f, a)) \in Nat
      /\ IsFiniteSet(Grants(f, b)) /\ Cardinality(Grants(f, b)) \in Nat
  BY GrantsFinite
<1>3. Cardinality(Grants(f, a) \cap Grants(f, b)) \in Nat
  BY <1>2, FS_Intersection, FS_CardinalityType
<1>4. Cardinality(Grants(f, a) \cup Grants(f, b)) =
        Cardinality(Grants(f, a)) + Cardinality(Grants(f, b))
          - Cardinality(Grants(f, a) \cap Grants(f, b))
  BY <1>2, FS_Union, Zenon
<1>5. \A x, y, z \in Nat : x + y - z <= x + y
  OBVIOUS
<1> QED BY <1>1, <1>2, <1>3, <1>4, <1>5, Zenon

\* A tick later the same heals are one tick older.
Aged(f, g, c) == \A a \in 1 .. c : g[a] = f[a - 1]

OneOlder(young, old, c) ==
  /\ young \in SUBSET (0 .. c) /\ old \in SUBSET (1 .. c)
  /\ \A a \in Int : a \in young <=> a + 1 \in old

SameGrants(g, old, f, young) == Cardinality(Grants(g, old)) = Cardinality(Grants(f, young))

LEMMA StretchesAge ==
  ASSUME NEW c \in Nat, NEW lo \in Nat, NEW hi \in Int, hi < c
  PROVE  OneOlder(lo .. hi, lo + 1 .. hi + 1, c)
  BY DEF OneOlder

LEMMA GrantsAge ==
  ASSUME NEW c \in Nat, NEW m \in Nat, NEW f \in [0 .. c -> 0 .. m], NEW g \in [0 .. c -> 0 .. m],
         NEW young, NEW old, Aged(f, g, c), OneOlder(young, old, c)
  PROVE  SameGrants(g, old, f, young)
<1>a. /\ young \in SUBSET (0 .. c) /\ old \in SUBSET (0 .. c)
      /\ \A a \in young : a \in Nat /\ a + 1 \in old /\ a + 1 \in 1 .. c /\ (a + 1) - 1 = a
      /\ \A b \in old : b - 1 \in young /\ b \in 1 .. c /\ (b - 1) + 1 = b
  <2>1. young \in SUBSET (0 .. c) /\ old \in SUBSET (1 .. c)
    BY Zenon DEF OneOlder
  <2>2. \A a \in Int : a \in young <=> a + 1 \in old
    BY Zenon DEF OneOlder
  <2>3. \A a \in young : a \in 0 .. c
    BY <2>1, Zenon
  <2>4. \A b \in old : b \in 1 .. c
    BY <2>1, Zenon
  <2>5. old \in SUBSET (0 .. c)
    <3>1. \A b \in old : b \in 0 .. c
      BY <2>4
    <3> QED BY <3>1, Zenon
  <2>6. ASSUME NEW a \in young
        PROVE  a \in Nat /\ a + 1 \in old /\ a + 1 \in 1 .. c /\ (a + 1) - 1 = a
    <3>1. a \in 0 .. c
      BY <2>3
    <3>2. a + 1 \in old
      BY <2>2, <3>1
    <3> QED BY <2>4, <3>1, <3>2
  <2>7. ASSUME NEW b \in old
        PROVE  b - 1 \in young /\ b \in 1 .. c /\ (b - 1) + 1 = b
    <3>1. b \in 1 .. c /\ b - 1 \in Int /\ (b - 1) + 1 = b
      BY <2>4
    <3>2. b - 1 \in young <=> (b - 1) + 1 \in old
      BY <2>2, <3>1
    <3> QED BY <3>1, <3>2
  <2> QED BY <2>1, <2>5, <2>6, <2>7, Zenon
<1> DEFINE S == Grants(f, young)
           T == Grants(g, old)
           older == [x \in S |-> <<x[1] + 1, x[2]>>]
<1>s. /\ IsFiniteSet(S)
      /\ \A a, k : <<a, k>> \in S <=> a \in young /\ k \in 1 .. f[a]
      /\ \A x \in S : \E a \in 0 .. c, k \in 1 .. m : x = <<a, k>>
  <2>1. \A x \in S : \E a \in 0 .. c, k \in 1 .. m : x = <<a, k>>
    BY <1>a, GrantsPairs, Zenon
  <2> QED BY <1>a, <2>1, GrantsFinite, GrantsMember, Zenon
<1>t. /\ \A a, k : <<a, k>> \in T <=> a \in old /\ k \in 1 .. g[a]
      /\ \A x \in T : \E a \in 0 .. c, k \in 1 .. m : x = <<a, k>>
  <2>1. \A x \in T : \E a \in 0 .. c, k \in 1 .. m : x = <<a, k>>
    BY <1>a, GrantsPairs, Zenon
  <2> QED BY <1>a, <2>1, GrantsMember, Zenon
<1> HIDE DEF S, T
<1>1. ASSUME NEW x \in S PROVE older[x] \in T
  <2>1. PICK a \in 0 .. c, k \in 1 .. m : x = <<a, k>>
    BY <1>s
  <2>2. a \in young /\ k \in 1 .. f[a]
    BY <1>s, <2>1
  <2>3. a + 1 \in old /\ a + 1 \in 1 .. c /\ (a + 1) - 1 = a
    BY <1>a, <2>2
  <2>4. g[a + 1] = f[a]
    BY <2>3 DEF Aged
  <2>5. older[x] = <<a + 1, k>>
    BY <2>1
  <2>6. k \in 1 .. g[a + 1]
    BY <2>2, <2>4
  <2> QED BY <1>t, <2>3, <2>5, <2>6
<1>2. older \in [S -> T]
  BY <1>1
<1>3. ASSUME NEW x \in S, NEW y \in S, older[x] = older[y] PROVE x = y
  <2>1. PICK a \in 0 .. c, k \in 1 .. m : x = <<a, k>>
    BY <1>s
  <2>2. PICK b \in 0 .. c, l \in 1 .. m : y = <<b, l>>
    BY <1>s
  <2>3. <<a + 1, k>> = <<b + 1, l>>
    BY <1>3, <2>1, <2>2
  <2> QED BY <2>1, <2>2, <2>3
<1>4. ASSUME NEW z \in T PROVE \E x \in S : older[x] = z
  <2>1. PICK b \in 0 .. c, k \in 1 .. m : z = <<b, k>>
    BY <1>t
  <2>2. b \in old /\ k \in 1 .. g[b]
    BY <1>t, <2>1
  <2>3. b - 1 \in young /\ b \in 1 .. c /\ (b - 1) + 1 = b
    BY <1>a, <2>2
  <2>4. k \in 1 .. f[b - 1]
    BY <2>2, <2>3 DEF Aged
  <2>5. <<b - 1, k>> \in S
    BY <1>s, <2>3, <2>4
  <2>6. older[<<b - 1, k>>] = <<b, k>>
    BY <2>5, <2>3
  <2> QED BY <2>1, <2>5, <2>6
<1>5. older \in Bijection(S, T)
  <2>1. older \in Injection(S, T)
    BY <1>2, <1>3, Zenon DEF Injection, IsInjective
  <2>2. older \in Surjection(S, T)
    BY <1>2, <1>4, Zenon DEF Surjection
  <2> QED BY <2>1, <2>2, Zenon DEF Bijection
<1>6. ExistsBijection(S, T)
  BY <1>5, Zenon DEF ExistsBijection
<1> QED BY <1>s, <1>6, FS_Bijection DEF S, T, SameGrants

LEMMA StretchGrantsAge ==
  ASSUME NEW c \in Nat, NEW m \in Nat, NEW f \in [0 .. c -> 0 .. m], NEW g \in [0 .. c -> 0 .. m],
         NEW lo \in Nat, NEW hi \in Int, Aged(f, g, c), hi < c
  PROVE  SameGrants(g, lo + 1 .. hi + 1, f, lo .. hi)
  BY StretchesAge, GrantsAge

\* One more heal in this tick.
LEMMA GrantsOneMore ==
  ASSUME NEW c \in Nat, NEW m \in Nat, NEW f \in [0 .. c -> 0 .. m], NEW g \in [0 .. c -> 0 .. m],
         NEW ages \in SUBSET (0 .. c), g[0] = f[0] + 1, \A a \in 1 .. c : g[a] = f[a]
  PROVE  /\ 0 \in ages =>
              Cardinality(Grants(g, ages)) = Cardinality(Grants(f, ages)) + 1
         /\ 0 \notin ages =>
              Cardinality(Grants(g, ages)) = Cardinality(Grants(f, ages))
<1>a. /\ f[0] \in Nat /\ g[0] = f[0] + 1
      /\ \A a \in 0 .. c : a # 0 => g[a] = f[a]
  OBVIOUS
<1>f. /\ \A x \in Grants(f, ages) : \E a \in 0 .. c, k \in 1 .. m : x = <<a, k>>
      /\ IsFiniteSet(Grants(f, ages)) /\ Cardinality(Grants(f, ages)) \in Nat
  BY GrantsPairs, GrantsFinite, Zenon
<1>g. \A x \in Grants(g, ages) : \E a \in 0 .. c, k \in 1 .. m : x = <<a, k>>
  BY GrantsPairs, Zenon
<1>1. CASE 0 \notin ages
  <2>1. Grants(g, ages) = Grants(f, ages)
    <3>1. \A a \in ages : g[a] = f[a]
      BY <1>1, <1>a
    <3> QED BY <3>1, Zenon DEF Grants
  <2>2. Cardinality(Grants(f, ages)) \in Nat
    BY GrantsFinite
  <2> QED BY <1>1, <2>1, <2>2
<1>2. CASE 0 \in ages
  <2> DEFINE new == <<0, f[0] + 1>>
  <2>1. new \notin Grants(f, ages)
    BY <1>a, GrantsMember
  <2>2. ASSUME NEW x \in Grants(g, ages) PROVE x \in Grants(f, ages) \cup {new}
    <3>1. PICK a \in 0 .. c, k \in 1 .. m : x = <<a, k>>
      BY <1>g
    <3>2. a \in ages /\ k \in 1 .. g[a]
      BY <3>1, GrantsMember
    <3>3. k \in 1 .. f[a] \/ (a = 0 /\ k = f[0] + 1)
      BY <1>a, <3>2
    <3> QED BY <3>1, <3>2, <3>3, GrantsMember
  <2>3. ASSUME NEW x \in Grants(f, ages) PROVE x \in Grants(g, ages)
    <3>1. PICK a \in 0 .. c, k \in 1 .. m : x = <<a, k>>
      BY <1>f
    <3>2. a \in ages /\ k \in 1 .. f[a]
      BY <3>1, GrantsMember
    <3>3. k \in 1 .. g[a]
      BY <1>a, <3>2
    <3> QED BY <3>1, <3>2, <3>3, GrantsMember
  <2>4. new \in Grants(g, ages)
    <3>1. f[0] + 1 \in 1 .. g[0]
      BY <1>a
    <3> QED BY <1>2, <3>1, GrantsMember
  <2>5. Grants(g, ages) = Grants(f, ages) \cup {new}
    BY <2>2, <2>3, <2>4, Zenon
  <2>6. Cardinality(Grants(f, ages) \cup {new}) = Cardinality(Grants(f, ages)) + 1
    BY <2>1, <1>f, FS_AddElement, Zenon
  <2> QED BY <1>2, <2>5, <2>6, Zenon
<1> QED BY <1>1, <1>2

LEMMA NoMoreElsewhere ==
  ASSUME NEW c \in Nat, NEW m \in Nat, NEW f \in [0 .. c -> 0 .. m], NEW g \in [0 .. c -> 0 .. m],
         NEW ages \in SUBSET (0 .. c), g[0] = f[0] + 1, \A a \in 1 .. c : g[a] = f[a],
         0 \notin ages
  PROVE  SameGrants(g, ages, f, ages)
  BY GrantsOneMore, Zenon DEF SameGrants

-----------------------------------------------------------------------------

\* What a tracker answers keeps the tracker's type (healer.go:45-63).
LEMMA TrackerTyped ==
  ASSUME NEW t \in Tracker
  PROVE  /\ Current(t) \in Tracker
         /\ Granted(t) => CountedAttempt(Current(t)) \in Tracker
<1> USE HealingAssumption
<1>1. NoTracker \in Tracker
  BY DEF NoTracker, Tracker
<1>2. Current(t) \in Tracker
  BY <1>1 DEF Current
<1>3. ASSUME NEW u \in Tracker, u.count < MaxAttempts PROVE CountedAttempt(u) \in Tracker
  BY <1>3 DEF CountedAttempt, Tracker
<1> QED BY <1>2, <1>3 DEF Granted

HealInv == HealTypeOK /\ WindowsInv

LEMMA HealInvInit == HealInit => HealInv
<1> SUFFICES ASSUME HealInit PROVE HealInv
  OBVIOUS
<1> USE HealingAssumption
<1>1. NewServiceState \in ServiceState
  BY DEF NewServiceState, ServiceState, State, MaxFails, MaxOK
<1>2. NoTracker \in Tracker
  BY DEF NoTracker, Tracker
<1>3. Done \in HealStep
  BY DEF Done, HealStep, Ask
<1>4. HealTypeOK
  <2>1. /\ fsm \in ServiceState /\ tracker \in Tracker /\ heal \in [Heals -> HealStep]
        /\ fallback \in BOOLEAN /\ recording \in BOOLEAN /\ slow \in BOOLEAN
    BY <1>1, <1>2, <1>3, Zenon DEF HealInit
  <2>2. /\ sinceAttempt \in 0 .. Cooldown /\ recent \in [0 .. Cooldown -> 0 .. MaxAttempts]
        /\ lived \in [Heals -> 0 .. RecoveryPolls]
    BY DEF HealInit, RecoveryPolls
  <2> QED BY <2>1, <2>2 DEF HealTypeOK
<1>5. Grants(recent, 0 .. Cooldown) = {}
  <2>1. \A a \in 0 .. Cooldown : 1 .. recent[a] = {}
    BY DEF HealInit
  <2> QED BY <2>1 DEF Grants
<1>6. Cardinality(Grants(recent, 0 .. Cooldown)) = 0
  BY <1>5, FS_EmptySet
<1>7. WindowsInv
  BY <1>6 DEF HealInit, WindowsInv, WindowOpen, NoTracker
<1> QED BY <1>4, <1>7 DEF HealInv

\* While the history is the same and so is the tracker, so are the windows.
LEMMA WindowsKeep ==
  ASSUME WindowsInv, UNCHANGED <<tracker, recent>>
  PROVE  WindowsInv'
  BY DEF WindowsInv, WindowOpen

\* Starting a heal keeps the goroutines' type.
LEMMA TriggerTyped ==
  ASSUME HealTypeOK, maybeTriggerHealing
  PROVE  sinceAttempt' \in 0 .. Cooldown /\ heal' \in [Heals -> HealStep]
  BY HealingAssumption DEF HealTypeOK, maybeTriggerHealing, HealStep, Ask, Done

LEMMA PollKeeps ==
  ASSUME HealInv, NEW ok \in BOOLEAN, Poll(ok)
  PROVE  HealInv'
<1> USE HealingAssumption DEF HealInv
<1>1. fsm' \in ServiceState
  BY TransitionTyped DEF HealTypeOK, Poll
<1>2. lived' \in [Heals -> 0 .. RecoveryPolls]
  <2>1. \A h \in Heals : CountTo(lived[h] + 1, RecoveryPolls) \in 0 .. RecoveryPolls
    BY CountToStep DEF HealTypeOK, RecoveryPolls
  <2>2. 0 \in 0 .. RecoveryPolls
    BY DEF RecoveryPolls
  <2> QED BY <2>1, <2>2, Zenon DEF Poll
<1>3. /\ recording' \in BOOLEAN
      /\ UNCHANGED <<sinceAttempt, tracker, heal, fallback, recent, slow>>
  BY Zenon DEF Poll, HealTypeOK, Changed
<1>4. HealTypeOK'
  BY <1>1, <1>2, <1>3 DEF HealTypeOK
<1> QED BY <1>3, <1>4, WindowsKeep

LEMMA RecordEndsKeeps ==
  ASSUME HealInv, RecordEnds
  PROVE  HealInv'
<1> USE HealingAssumption DEF HealInv
<1>1. sinceAttempt' \in 0 .. Cooldown /\ heal' \in [Heals -> HealStep]
  <2>1. CASE maybeTriggerHealing
    BY <2>1, TriggerTyped
  <2>2. CASE UNCHANGED <<sinceAttempt, heal>>
    BY <2>2 DEF HealTypeOK
  <2> QED BY <2>1, <2>2 DEF RecordEnds
<1>2. /\ recording' \in BOOLEAN /\ fallback' \in BOOLEAN
      /\ UNCHANGED <<fsm, tracker, recent, lived, slow>>
  BY Zenon DEF RecordEnds, HealTypeOK
<1>3. HealTypeOK'
  BY <1>1, <1>2 DEF HealTypeOK
<1> QED BY <1>2, <1>3, WindowsKeep

\* Going on keeps the goroutines' types.
LEMMA GoToTyped ==
  ASSUME NEW h \in Heals, NEW step \in HealStep, HealTypeOK, GoTo(h, step)
  PROVE  heal' \in [Heals -> HealStep] /\ lived' \in [Heals -> 0 .. RecoveryPolls]
  BY DEF HealTypeOK, GoTo, RecoveryPolls

LEMMA ManualHealKeeps ==
  ASSUME HealInv, NEW h \in Heals, ManualHeal(h)
  PROVE  HealInv'
<1>1. HealTypeOK'
  BY HealingAssumption
     DEF HealInv, HealTypeOK, ManualHeal, HealStep, Ask, Done, RecoveryPolls
<1> QED BY <1>1, WindowsKeep DEF HealInv, ManualHeal

LEMMA RunActionKeeps ==
  ASSUME HealInv, NEW h \in Heals, RunAction(h)
  PROVE  HealInv'
<1> USE HealingAssumption DEF HealInv
<1>1. Len(Actions) \in Nat /\ DOMAIN Actions = 1 .. Len(Actions)
  OBVIOUS
<1>2. UNCHANGED <<fsm, sinceAttempt, tracker, recording, recent>>
  BY DEF RunAction
<1>3. PICK next \in HealStep : GoTo(h, next)
  <2>1. heal[h] \in 1 .. Len(Actions)
    BY <1>1 DEF RunAction
  <2>2. Done \in HealStep /\ heal[h] + 1 \in HealStep
    BY <1>1, <2>1 DEF HealStep, Ask, Done
  <2>3. CASE Actions[heal[h]] = "fallback"
    BY <2>2, <2>3 DEF RunAction
  <2>4. CASE Actions[heal[h]] # "fallback"
    BY <2>2, <2>4 DEF RunAction
  <2> QED BY <2>3, <2>4
<1>4. fallback' \in BOOLEAN /\ slow' \in BOOLEAN
  BY Zenon DEF RunAction, HealTypeOK
<1>5. heal' \in [Heals -> HealStep] /\ lived' \in [Heals -> 0 .. RecoveryPolls]
  BY <1>3, GoToTyped
<1>6. HealTypeOK'
  BY <1>2, <1>4, <1>5 DEF HealTypeOK
<1> QED BY <1>2, <1>6, WindowsKeep

\* The tracker's answer.  A heal is granted in the window that is open, or
\* opens one; it is refused only when the window's count is MaxAttempts.
LEMMA GrantKeeps ==
  ASSUME HealInv, NEW h \in Heals, canAttempt(h), Granted(tracker)
  PROVE  HealInv'
<1> USE HealingAssumption DEF HealInv
<1>t. /\ Cooldown \in Nat /\ MaxAttempts \in Nat /\ MaxAttempts > 0
      /\ recent \in [0 .. Cooldown -> 0 .. MaxAttempts]
      /\ tracker.open \in BOOLEAN /\ tracker.count \in 0 .. MaxAttempts
      /\ tracker.sinceReset \in 0 .. Cooldown + 1
      /\ tracker \in Tracker
  BY DEF HealTypeOK, Tracker
<1>1. /\ tracker' = CountedAttempt(Current(tracker))
      /\ recent' = [recent EXCEPT ![0] = @ + 1]
      /\ GoTo(h, 1)
      /\ UNCHANGED <<fsm, sinceAttempt, fallback, recording, slow>>
  BY DEF canAttempt
<1>g. heal' \in [Heals -> HealStep] /\ lived' \in [Heals -> 0 .. RecoveryPolls]
  <2>1. 1 \in HealStep
    BY DEF HealStep, Ask, Done
  <2> QED BY <1>1, <2>1, GoToTyped
<1>2. tracker' \in Tracker
  BY <1>1, <1>t, TrackerTyped
<1>3. recent'[0] = recent[0] + 1 /\ \A a \in 1 .. Cooldown : recent'[a] = recent[a]
  BY <1>1, <1>t
<1>4. CASE WindowOpen
  <2> DEFINE w == tracker.sinceReset
  <2>1. /\ w \in 0 .. Cooldown
        /\ tracker.count = Cardinality(Grants(recent, 0 .. w))
        /\ recent[w] > 0
        /\ Cardinality(Grants(recent, w + 1 .. Cooldown)) < MaxAttempts
    BY <1>4, <1>t DEF WindowsInv, WindowOpen
  <2>2. Current(tracker) = tracker /\ tracker.count < MaxAttempts
    BY <1>4, <1>t DEF WindowOpen, Current, Granted
  <2>3. tracker'.open /\ tracker'.count = tracker.count + 1 /\ tracker'.sinceReset = w
    BY <1>1, <1>4, <2>2 DEF CountedAttempt, WindowOpen
  <2>4. 0 .. w \in SUBSET (0 .. Cooldown) /\ w + 1 .. Cooldown \in SUBSET (0 .. Cooldown)
        /\ 0 \in 0 .. w /\ 0 \notin w + 1 .. Cooldown
    BY <2>1
  <2>5. recent[0] < MaxAttempts
    <3>1. {0} \in SUBSET (0 .. w)
      BY <2>4
    <3>2. Cardinality(Grants(recent, {0})) <= Cardinality(Grants(recent, 0 .. w))
      BY <1>t, <2>4, <3>1, GrantsMonotone, Zenon
    <3>3. Cardinality(Grants(recent, {0})) = recent[0]
      <4>1. 0 \in 0 .. Cooldown
        BY <1>t
      <4> QED BY <1>t, <4>1, GrantsAt, Zenon
    <3> QED BY <1>t, <2>1, <2>2, <3>2, <3>3
  <2>6. recent' \in [0 .. Cooldown -> 0 .. MaxAttempts]
    BY <1>1, <1>t, <2>5
  <2>7. Cardinality(Grants(recent', 0 .. w)) = Cardinality(Grants(recent, 0 .. w)) + 1
    <3>1. 0 .. w \in SUBSET (0 .. Cooldown) /\ 0 \in 0 .. w
      BY <2>4
    <3> QED BY <1>t, <1>3, <2>6, <3>1, GrantsOneMore, Zenon
  <2>8. Cardinality(Grants(recent', w + 1 .. Cooldown))
          = Cardinality(Grants(recent, w + 1 .. Cooldown))
    <3>1. w + 1 .. Cooldown \in SUBSET (0 .. Cooldown) /\ 0 \notin w + 1 .. Cooldown
      BY <2>4
    <3>2. SameGrants(recent', w + 1 .. Cooldown, recent, w + 1 .. Cooldown)
      BY <1>t, <1>3, <2>6, <3>1, NoMoreElsewhere, Zenon
    <3> QED BY <3>2, Zenon DEF SameGrants
  <2>9. Cardinality(Grants(recent', w + 1 .. Cooldown)) < MaxAttempts
    BY <2>1, <2>8, Zenon
  <2>10. recent'[w] > 0
    BY <1>t, <1>3, <2>1
  <2>11. WindowsInv'
    BY <2>1, <2>3, <2>7, <2>9, <2>10 DEF WindowsInv, WindowOpen
  <2>12. HealTypeOK'
    BY <1>1, <1>2, <1>g, <2>6 DEF HealTypeOK
  <2> QED BY <2>11, <2>12
<1>5. CASE ~WindowOpen
  <2>1. /\ recent[0] = 0
        /\ Cardinality(Grants(recent, 0 .. Cooldown)) < MaxAttempts
    BY <1>5 DEF WindowsInv
  <2>2. Current(tracker) = NoTracker
    <3>1. CASE tracker.open
      <4>1. tracker.sinceReset > Cooldown
        BY <3>1, <1>5, <1>t DEF WindowOpen
      <4> QED BY <3>1, <4>1 DEF Current
    <3>2. CASE ~tracker.open
      <4>1. tracker = NoTracker
        BY <3>2 DEF WindowsInv
      <4> QED BY <4>1, Zenon DEF Current
    <3> QED BY <3>1, <3>2
  <2>3. tracker'.open /\ tracker'.count = 1 /\ tracker'.sinceReset = 0
    BY <1>1, <2>2 DEF CountedAttempt, NoTracker
  <2>4. recent' \in [0 .. Cooldown -> 0 .. MaxAttempts] /\ recent'[0] = 1
    BY <1>1, <1>t, <2>1
  <2>5. Cardinality(Grants(recent', {0})) = 1 /\ {0} = 0 .. 0
    <3>1. 0 \in 0 .. Cooldown /\ {0} = 0 .. 0
      BY <1>t
    <3>2. Cardinality(Grants(recent', {0})) = recent'[0]
      BY <1>t, <2>4, <3>1, GrantsAt, Zenon
    <3> QED BY <2>4, <3>1, <3>2, Zenon
  <2>6. /\ 1 .. Cooldown \in SUBSET (0 .. Cooldown)
        /\ 0 .. Cooldown \in SUBSET (0 .. Cooldown)
        /\ 0 \notin 1 .. Cooldown
    BY <1>t
  <2>7. Cardinality(Grants(recent', 1 .. Cooldown))
          = Cardinality(Grants(recent, 1 .. Cooldown))
    <3>1. 1 .. Cooldown \in SUBSET (0 .. Cooldown) /\ 0 \notin 1 .. Cooldown
      BY <2>6
    <3>2. SameGrants(recent', 1 .. Cooldown, recent, 1 .. Cooldown)
      BY <1>t, <1>3, <2>4, <3>1, NoMoreElsewhere, Zenon
    <3> QED BY <3>2, Zenon DEF SameGrants
  <2>8. Cardinality(Grants(recent, 1 .. Cooldown)) <= Cardinality(Grants(recent, 0 .. Cooldown))
    BY <1>t, <2>6, GrantsMonotone
  <2>9. /\ Cardinality(Grants(recent, 1 .. Cooldown)) \in Nat
        /\ Cardinality(Grants(recent, 0 .. Cooldown)) \in Nat
    BY <1>t, <2>6, GrantsFinite
  <2>10. Cardinality(Grants(recent', 0 + 1 .. Cooldown)) < MaxAttempts
    <3>1. 0 + 1 = 1
      OBVIOUS
    <3>2. Cardinality(Grants(recent', 1 .. Cooldown)) < MaxAttempts
      BY <1>t, <2>1, <2>7, <2>8, <2>9
    <3> QED BY <3>1, <3>2, Zenon
  <2>11. WindowsInv'
    BY <1>t, <2>3, <2>4, <2>5, <2>10 DEF WindowsInv, WindowOpen
  <2>12. HealTypeOK'
    BY <1>1, <1>2, <1>g, <2>4 DEF HealTypeOK
  <2> QED BY <2>11, <2>12
<1> QED BY <1>4, <1>5

LEMMA RefusalKeeps ==
  ASSUME HealInv, NEW h \in Heals, canAttempt(h), ~Granted(tracker)
  PROVE  /\ HealInv'
         /\ WindowOpen /\ tracker.count = MaxAttempts
<1> USE HealingAssumption DEF HealInv
<1>1. /\ tracker' = Current(tracker) /\ GoTo(h, Done)
      /\ UNCHANGED <<recent, fsm, sinceAttempt, fallback, recording, slow>>
  BY DEF canAttempt
<1>2. tracker.open \in BOOLEAN /\ tracker.count \in 0 .. MaxAttempts
      /\ tracker.sinceReset \in 0 .. Cooldown + 1
  BY DEF HealTypeOK, Tracker
<1>3. Current(tracker) = tracker /\ WindowOpen /\ tracker.count = MaxAttempts
  BY <1>2 DEF Granted, Current, NoTracker, WindowsInv, WindowOpen
<1>4. heal' \in [Heals -> HealStep] /\ lived' \in [Heals -> 0 .. RecoveryPolls]
  <2>1. Done \in HealStep
    BY DEF HealStep, Ask, Done
  <2> QED BY <1>1, <2>1, GoToTyped
<1>5. HealTypeOK'
  BY <1>1, <1>3, <1>4 DEF HealTypeOK
<1> QED BY <1>1, <1>3, <1>5, WindowsKeep

\* A tick later, every heal is a tick older and so is the window.
LEMMA TickKeeps ==
  ASSUME HealInv, HealTick
  PROVE  HealInv'
<1> USE HealingAssumption DEF HealInv
<1>t. /\ Cooldown \in Nat /\ MaxAttempts \in Nat /\ Cooldown > 0 /\ MaxAttempts > 0
      /\ recent \in [0 .. Cooldown -> 0 .. MaxAttempts]
      /\ tracker.open \in BOOLEAN /\ tracker.count \in 0 .. MaxAttempts
      /\ tracker.sinceReset \in 0 .. Cooldown + 1
      /\ tracker \in Tracker
  BY DEF HealTypeOK, Tracker
<1>1. /\ recent' = [age \in 0 .. Cooldown |-> IF age = 0 THEN 0 ELSE recent[age - 1]]
      /\ UNCHANGED <<fsm, heal, fallback, recording, lived, slow>>
  BY DEF HealTick
<1>2. /\ tracker'.open = tracker.open /\ tracker'.count = tracker.count
      /\ tracker'.sinceReset =
           IF tracker.open THEN CountTo(tracker.sinceReset + 1, Cooldown + 1) ELSE 0
      /\ tracker' \in Tracker
  BY <1>t DEF HealTick, Older, Tracker, CountTo
<1>3. /\ recent' \in [0 .. Cooldown -> 0 .. MaxAttempts]
      /\ recent'[0] = 0
      /\ \A a \in 1 .. Cooldown : recent'[a] = recent[a - 1]
  BY <1>1, <1>t
<1>4. HealTypeOK'
  BY <1>1, <1>2, <1>3 DEF HealTypeOK, HealTick, CountTo
<1>a. ASSUME NEW lo \in Nat, NEW hi \in Int, hi < Cooldown,
             NEW old, old = lo + 1 .. hi + 1
      PROVE  Cardinality(Grants(recent', old)) = Cardinality(Grants(recent, lo .. hi))
  <2>1. Aged(recent, recent', Cooldown)
    BY <1>3 DEF Aged
  <2>2. SameGrants(recent', lo + 1 .. hi + 1, recent, lo .. hi)
    BY <1>a, <1>t, <1>3, <2>1, StretchGrantsAge
  <2> QED BY <1>a, <2>2, Zenon DEF SameGrants
\* What was granted so far in this tick and before it, seen a tick later.
<1>5. ASSUME NEW hi \in 0 .. Cooldown
      PROVE  Cardinality(Grants(recent', 0 .. hi)) = Cardinality(Grants(recent, 0 .. hi - 1))
  <2>1. Cardinality(Grants(recent', 1 .. hi)) = Cardinality(Grants(recent, 0 .. hi - 1))
    <3>1. /\ hi - 1 \in Int /\ hi - 1 < Cooldown /\ 0 \in Nat
          /\ 1 .. hi = 0 + 1 .. (hi - 1) + 1
      BY <1>t, <1>5
    <3>2. \A old : old = 0 + 1 .. (hi - 1) + 1
            => Cardinality(Grants(recent', old)) = Cardinality(Grants(recent, 0 .. hi - 1))
      BY <1>a, <3>1
    <3> QED BY <3>1, <3>2, Zenon
  <2>2. Grants(recent', 0 .. hi) = Grants(recent', 1 .. hi)
    <3>1. 0 .. hi = {0} \cup 1 .. hi
      BY <1>5
    <3>2. {0} \X (1 .. recent'[0]) = {}
      BY <1>3
    <3> QED BY <3>1, <3>2, Zenon DEF Grants
  <2> QED BY <2>1, <2>2, Zenon
<1>6. /\ Cardinality(Grants(recent, 0 .. Cooldown - 1))
             <= Cardinality(Grants(recent, 0 .. Cooldown))
      /\ Cardinality(Grants(recent, 0 .. Cooldown)) \in Nat
      /\ Cardinality(Grants(recent, 0 .. Cooldown - 1)) \in Nat
  <2>1. /\ 0 .. Cooldown - 1 \in SUBSET (0 .. Cooldown)
        /\ 0 .. Cooldown \in SUBSET (0 .. Cooldown)
    BY <1>t
  <2> QED BY <1>t, <2>1, GrantsMonotone, GrantsFinite
<1>7. CASE WindowOpen /\ tracker.sinceReset < Cooldown
  <2> DEFINE w == tracker.sinceReset
  <2>1. /\ w \in 0 .. Cooldown - 1
        /\ tracker.open
        /\ tracker.count = Cardinality(Grants(recent, 0 .. w))
        /\ recent[w] > 0
        /\ Cardinality(Grants(recent, w + 1 .. Cooldown)) < MaxAttempts
    BY <1>7, <1>t DEF WindowsInv, WindowOpen
  <2>w. /\ w \in Nat /\ w < Cooldown
        /\ w + 1 \in 0 .. Cooldown /\ w + 1 \in 1 .. Cooldown /\ (w + 1) - 1 = w
        /\ w + 1 <= Cooldown
    BY <1>7, <1>t DEF WindowOpen
  <2>2. tracker'.sinceReset = w + 1 /\ tracker'.open /\ tracker'.count = tracker.count
    BY <1>2, <1>t, <2>1 DEF CountTo
  <2>3. Cardinality(Grants(recent', 0 .. w + 1)) = Cardinality(Grants(recent, 0 .. w))
    BY <1>5, <2>w
  <2>4. recent'[w + 1] > 0
    BY <1>3, <2>1, <2>w
  <2>5. Cardinality(Grants(recent', (w + 1) + 1 .. Cooldown)) < MaxAttempts
    <3>1. /\ w + 1 \in Nat /\ Cooldown - 1 \in Int /\ Cooldown - 1 < Cooldown
          /\ (w + 1) + 1 .. Cooldown = (w + 1) + 1 .. (Cooldown - 1) + 1
      BY <1>t, <2>w
    <3>s. /\ w + 1 .. Cooldown \in SUBSET (0 .. Cooldown)
          /\ w + 1 .. Cooldown - 1 \in SUBSET (0 .. Cooldown)
          /\ w + 1 .. Cooldown - 1 \in SUBSET (w + 1 .. Cooldown)
      <4>1. \A v, c \in Nat : /\ v + 1 .. c \in SUBSET (0 .. c)
                              /\ v + 1 .. c - 1 \in SUBSET (0 .. c)
                              /\ v + 1 .. c - 1 \in SUBSET (v + 1 .. c)
        OBVIOUS
      <4> QED BY <1>t, <2>w, <4>1, Zenon
    <3>2. Cardinality(Grants(recent', (w + 1) + 1 .. Cooldown))
            = Cardinality(Grants(recent, w + 1 .. Cooldown - 1))
      <4>1. \A old : old = (w + 1) + 1 .. (Cooldown - 1) + 1
              => Cardinality(Grants(recent', old))
                   = Cardinality(Grants(recent, w + 1 .. Cooldown - 1))
        BY <1>a, <3>1
      <4> QED BY <3>1, <4>1, Zenon
    <3>3. Cardinality(Grants(recent, w + 1 .. Cooldown - 1))
            <= Cardinality(Grants(recent, w + 1 .. Cooldown))
      BY <1>t, <3>s, GrantsMonotone
    <3>4. /\ Cardinality(Grants(recent, w + 1 .. Cooldown - 1)) \in Nat
          /\ Cardinality(Grants(recent, w + 1 .. Cooldown)) \in Nat
      BY <1>t, <3>s, GrantsFinite
    <3> QED BY <1>t, <2>1, <3>2, <3>3, <3>4
  <2>7. WindowsInv'
    BY <2>1, <2>2, <2>3, <2>4, <2>5, <2>w DEF WindowsInv, WindowOpen
  <2> QED BY <1>4, <2>7
<1>8. CASE WindowOpen /\ tracker.sinceReset = Cooldown
  <2>1. /\ tracker.open
        /\ tracker.count = Cardinality(Grants(recent, 0 .. Cooldown))
        /\ recent[Cooldown] > 0
    BY <1>8 DEF WindowsInv, WindowOpen
  <2>2. tracker'.sinceReset = Cooldown + 1 /\ tracker'.open
    BY <1>2, <1>t, <1>8, <2>1 DEF CountTo
  <2>3. Cardinality(Grants(recent, 0 .. Cooldown - 1)) < Cardinality(Grants(recent, 0 .. Cooldown))
    <3>1. /\ 0 .. Cooldown \in SUBSET (0 .. Cooldown) /\ Cooldown \in 0 .. Cooldown
          /\ (0 .. Cooldown) \ {Cooldown} = 0 .. Cooldown - 1
      BY <1>t
    <3>2. Cardinality(Grants(recent, (0 .. Cooldown) \ {Cooldown}))
            < Cardinality(Grants(recent, 0 .. Cooldown))
      BY <1>t, <2>1, <3>1, GrantsWithout
    <3> QED BY <3>1, <3>2
  <2>4. Cardinality(Grants(recent', 0 .. Cooldown)) < MaxAttempts
    BY <1>t, <1>5, <1>6, <2>1, <2>3
  <2>5. WindowsInv'
    BY <1>t, <1>3, <2>2, <2>4 DEF WindowsInv, WindowOpen
  <2> QED BY <1>4, <2>5
<1>9. CASE ~WindowOpen
  <2>1. Cardinality(Grants(recent, 0 .. Cooldown)) < MaxAttempts
    BY <1>9 DEF WindowsInv
  <2>2. Cardinality(Grants(recent', 0 .. Cooldown)) < MaxAttempts
    BY <1>t, <1>5, <1>6, <2>1
  <2>3. ~WindowOpen'
    BY <1>2, <1>9, <1>t DEF WindowOpen, CountTo
  <2>4. ~tracker.open => tracker' = NoTracker
    <3>1. tracker' = Older(tracker)
      BY DEF HealTick
    <3>2. ~tracker.open => tracker = NoTracker
      BY DEF WindowsInv
    <3>3. Older(NoTracker) = NoTracker
      BY DEF Older, NoTracker
    <3> QED BY <3>1, <3>2, <3>3, Zenon
  <2>5. WindowsInv'
    BY <1>2, <1>3, <2>2, <2>3, <2>4 DEF WindowsInv
  <2> QED BY <1>4, <2>5
<1> QED BY <1>7, <1>8, <1>9, <1>t DEF WindowOpen

THEOREM HealInvHolds == HealSpec => []HealInv
<1>1. HealInv /\ [HealNext]_healVars => HealInv'
  <2> SUFFICES ASSUME HealInv, [HealNext]_healVars PROVE HealInv'
    OBVIOUS
  <2>1. ASSUME NEW h \in Heals, canAttempt(h) PROVE HealInv'
    BY <2>1, GrantKeeps, RefusalKeeps
  <2>2. CASE UNCHANGED healVars
    <3>1. HealTypeOK'
      BY <2>2 DEF HealInv, HealTypeOK, healVars
    <3> QED BY <2>2, <3>1, WindowsKeep DEF HealInv, healVars
  <2> QED
    BY <2>1, <2>2, PollKeeps, RecordEndsKeeps, ManualHealKeeps, RunActionKeeps, TickKeeps
       DEF HealNext, HealStepOf
<1> QED BY <1>1, HealInvInit, PTL DEF HealSpec

\* In no stretch of Cooldown ticks are more than 2 * MaxAttempts - 1 heals
\* granted, whatever the cooldown, the maximum and the number of goroutines.
THEOREM NoHealingStorm == HealSpec => []AttemptsBounded
<1>1. HealInv => AttemptsBounded
  <2> SUFFICES ASSUME HealInv PROVE AttemptsBounded
    OBVIOUS
  <2> USE HealingAssumption DEF HealInv
  <2>t. /\ Cooldown \in Nat /\ MaxAttempts \in Nat /\ Cooldown > 0 /\ MaxAttempts > 0
        /\ recent \in [0 .. Cooldown -> 0 .. MaxAttempts]
        /\ tracker.count \in 0 .. MaxAttempts
        /\ tracker.sinceReset \in 0 .. Cooldown + 1
    BY DEF HealTypeOK, Tracker
  <2> DEFINE G(ages) == Cardinality(Grants(recent, ages))
  <2>1. 0 .. Cooldown - 1 \in SUBSET (0 .. Cooldown) /\ 0 .. Cooldown \in SUBSET (0 .. Cooldown)
    BY <2>t
  <2>2. G(0 .. Cooldown - 1) <= G(0 .. Cooldown)
    BY <2>t, <2>1, GrantsMonotone
  <2>3. G(0 .. Cooldown - 1) \in Nat /\ G(0 .. Cooldown) \in Nat
    BY <2>t, <2>1, GrantsFinite
  <2>4. CASE WindowOpen
    <3> DEFINE w == tracker.sinceReset
    <3>1. /\ w \in 0 .. Cooldown
          /\ G(0 .. w) = tracker.count
          /\ G(w + 1 .. Cooldown) < MaxAttempts
      BY <2>4, <2>t DEF WindowsInv, WindowOpen
    <3>2. /\ 0 .. w \in SUBSET (0 .. Cooldown) /\ w + 1 .. Cooldown \in SUBSET (0 .. Cooldown)
          /\ (0 .. w) \cup (w + 1 .. Cooldown) = 0 .. Cooldown
      BY <2>t, <3>1
    <3>3. G((0 .. w) \cup (w + 1 .. Cooldown)) <= G(0 .. w) + G(w + 1 .. Cooldown)
      BY <2>t, <3>2, GrantsSplit
    <3>4. G(w + 1 .. Cooldown) \in Nat
      BY <2>t, <3>2, GrantsFinite
    <3>5. G(0 .. Cooldown) <= tracker.count + G(w + 1 .. Cooldown)
      BY <3>1, <3>2, <3>3
    <3> HIDE DEF G
    <3>6. G(0 .. Cooldown - 1) <= 2 * MaxAttempts - 1
      BY <2>t, <2>2, <2>3, <3>1, <3>4, <3>5
    <3> QED BY <3>6 DEF G, AttemptsBounded, GrantedIn
  <2>5. CASE ~WindowOpen
    <3>1. G(0 .. Cooldown) < MaxAttempts
      BY <2>5 DEF WindowsInv
    <3> HIDE DEF G
    <3>2. G(0 .. Cooldown - 1) <= 2 * MaxAttempts - 1
      BY <2>t, <2>2, <2>3, <3>1
    <3> QED BY <3>2 DEF G, AttemptsBounded, GrantedIn
  <2> QED BY <2>4, <2>5
<1> QED BY <1>1, HealInvHolds, PTL

\* A heal is refused only when the attempts of the last window are used up.
THEOREM NoUndueRefusal == HealSpec => RefusedOnlyWhenUsedUp
<1> DEFINE Refused(h) == heal[h] = Ask /\ heal'[h] # Ask /\ recent' = recent
           UsedUp == GrantedIn(Cooldown + 1) >= MaxAttempts
<1>1. ASSUME HealInv, [HealNext]_healVars, NEW h \in Heals, Refused(h) PROVE UsedUp
  <2>t. /\ Cooldown \in Nat /\ MaxAttempts \in Nat
        /\ recent \in [0 .. Cooldown -> 0 .. MaxAttempts]
        /\ heal \in [Heals -> HealStep]
    BY <1>1, HealingAssumption DEF HealInv, HealTypeOK
  <2>a. Len(Actions) \in Nat /\ DOMAIN Actions = 1 .. Len(Actions)
    BY HealingAssumption
  <2>r. heal[h] = 0 /\ heal'[h] # 0 /\ recent' = recent
    BY <1>1 DEF Ask
  <2>0. ~\E ok \in BOOLEAN : Poll(ok)
    BY <2>r DEF Poll
  <2>1. ~RecordEnds
    <3> SUFFICES ASSUME RecordEnds PROVE heal'[h] = 0
      BY <2>r
    <3>1. \/ UNCHANGED heal
          \/ \E g \in Heals : heal[g] = Done /\ heal' = [heal EXCEPT ![g] = Ask]
      BY DEF RecordEnds, maybeTriggerHealing
    <3> QED BY <2>r, <2>t, <3>1 DEF Ask
  <2>2. ~\E g \in Heals : ManualHeal(g)
    BY <2>r, <2>t DEF ManualHeal, Ask
  <2>3. ~\E g \in Heals : RunAction(g)
    <3> SUFFICES ASSUME NEW g \in Heals, RunAction(g) PROVE heal'[h] = 0
      BY <2>r
    <3>1. g # h
      BY <2>r, <2>a DEF RunAction
    <3>2. \E next : heal' = [heal EXCEPT ![g] = next]
      BY DEF RunAction, GoTo
    <3> QED BY <2>r, <2>t, <3>1, <3>2
  <2>4. ~HealTick /\ ~UNCHANGED healVars
    BY <2>r DEF HealTick, healVars
  <2>5. PICK g \in Heals : canAttempt(g)
    BY <1>1, <2>0, <2>1, <2>2, <2>3, <2>4 DEF HealNext, HealStepOf
  <2>6. ~Granted(tracker)
    <3> SUFFICES ASSUME Granted(tracker) PROVE FALSE
      OBVIOUS
    <3>1. recent' = [recent EXCEPT ![0] = @ + 1]
      BY <2>5 DEF canAttempt
    <3>2. 0 \in 0 .. Cooldown /\ recent[0] \in Nat
      BY <2>t
    <3> QED BY <2>r, <2>t, <3>1, <3>2
  <2>7. WindowOpen /\ tracker.count = MaxAttempts
    BY <1>1, <2>5, <2>6, RefusalKeeps
  <2> DEFINE w == tracker.sinceReset
  <2>8. w \in 0 .. Cooldown /\ Cardinality(Grants(recent, 0 .. w)) = MaxAttempts
    BY <1>1, <2>7 DEF HealInv, WindowsInv, WindowOpen, HealTypeOK, Tracker
  <2>9. 0 .. Cooldown \in SUBSET (0 .. Cooldown) /\ 0 .. w \in SUBSET (0 .. Cooldown)
        /\ (Cooldown + 1) - 1 = Cooldown
    BY <2>t, <2>8
  <2>10. Cardinality(Grants(recent, 0 .. w)) <= Cardinality(Grants(recent, 0 .. Cooldown))
    BY <2>t, <2>9, GrantsMonotone
  <2>11. Cardinality(Grants(recent, 0 .. Cooldown)) \in Nat
    BY <2>t, <2>9, GrantsFinite
  <2> QED BY <2>t, <2>8, <2>9, <2>10, <2>11 DEF GrantedIn
<1>2. HealInv /\ [HealNext]_healVars => [\A h \in Heals : Refused(h) => UsedUp]_healVars
  BY <1>1
<1> QED BY <1>2, HealInvHolds, PTL DEF HealSpec, RefusedOnlyWhenUsedUp

\* A good poll of a service that is down is not yet its recovery, unless it is
\* the third in a row; a bad one leaves it down.
LEMMA NotYetRecovered ==
  ASSUME NEW st \in ServiceState, NEW ok \in BOOLEAN, NEW n \in Nat, n + 1 < RecoveryPolls,
         st.cur \in {"UNHEALTHY", "DEAD", "RECOVERING"}, st.oks <= n
  PROVE  /\ Transition(st, ok).cur \in {"UNHEALTHY", "DEAD", "RECOVERING"}
         /\ Transition(st, ok).oks <= n + 1
<1>1. st.oks \in 0 .. MaxOK
  BY DEF ServiceState
<1>2. PICK t : t = Transition(st, ok)
  OBVIOUS
<1>3. CASE ok = TRUE
  <2>1. /\ t.oks = CountTo(st.oks + 1, MaxOK)
        /\ st.cur \in {"UNHEALTHY", "DEAD"} => t.cur = "RECOVERING"
        /\ st.cur = "RECOVERING" => t.cur = IF t.oks >= 3 THEN "HEALTHY" ELSE "RECOVERING"
    BY <1>2, <1>3, OnSuccess, Zenon
  <2>2. t.oks <= n + 1 /\ ~(t.oks >= 3)
    BY <1>1, <2>1 DEF CountTo, MaxOK, RecoveryPolls
  <2>3. t.cur \in {"UNHEALTHY", "DEAD", "RECOVERING"}
    BY <2>1, <2>2
  <2> QED BY <1>2, <2>2, <2>3
<1>4. CASE ok = FALSE
  <2>1. /\ t.oks = 0
        /\ st.cur = "UNHEALTHY" => t.cur = IF t.fails >= 5 THEN "DEAD" ELSE "UNHEALTHY"
        /\ st.cur = "DEAD" => t.cur = "DEAD"
        /\ st.cur = "RECOVERING" => t.cur = IF t.fails >= 2 THEN "UNHEALTHY" ELSE "RECOVERING"
    BY <1>2, <1>4, OnFailure, Zenon
  <2> QED BY <1>2, <2>1
<1> QED BY <1>3, <1>4

LEMMA PollKeepsReroute ==
  ASSUME HealInv, RerouteInv, NEW ok \in BOOLEAN, Poll(ok)
  PROVE  RerouteInv'
<1>1. fsm \in ServiceState /\ lived \in [Heals -> 0 .. RecoveryPolls]
  BY DEF HealInv, HealTypeOK
<1>2. fsm' = Transition(fsm, ok) /\ UNCHANGED <<heal, fallback, slow>>
  BY DEF Poll
<1>3. StateMatchesRun(fsm')
  <2>1. StateMatchesRun(fsm)
    BY DEF RerouteInv
  <2> QED BY <1>1, <1>2, <2>1, StateMatchesRunInductive
<1>4. ASSUME NEW h \in Heals, heal'[h] # Done, lived'[h] < RecoveryPolls
      PROVE  fsm'.cur \in {"UNHEALTHY", "DEAD", "RECOVERING"} /\ fsm'.oks <= lived'[h]
  <2>1. lived[h] \in Nat /\ lived'[h] = lived[h] + 1 /\ lived[h] + 1 < RecoveryPolls
    <3>1. heal[h] # Done
      BY <1>2, <1>4
    <3>2. lived'[h] = CountTo(lived[h] + 1, RecoveryPolls)
      BY <3>1 DEF Poll
    <3>3. lived[h] \in 0 .. RecoveryPolls
      BY <1>1
    <3> QED BY <1>4, <3>2, <3>3 DEF CountTo, RecoveryPolls
  <2>2. fsm.cur \in {"UNHEALTHY", "DEAD", "RECOVERING"} /\ fsm.oks <= lived[h]
    BY <1>2, <1>4, <2>1 DEF RerouteInv, RecoveryPolls
  <2>3. /\ Transition(fsm, ok).cur \in {"UNHEALTHY", "DEAD", "RECOVERING"}
        /\ Transition(fsm, ok).oks <= lived[h] + 1
    BY <1>1, <2>1, <2>2, NotYetRecovered
  <2> QED BY <1>2, <2>1, <2>3
<1>5. QuickHealsLeaveNoReroute'
  <2> SUFFICES ASSUME fsm'.cur = "HEALTHY", ~recording', fallback' PROVE slow'
    BY DEF QuickHealsLeaveNoReroute
  <2>1. fsm.cur = "HEALTHY" /\ ~recording
    BY <1>2, Zenon DEF Poll, Changed
  <2>2. QuickHealsLeaveNoReroute
    BY Zenon DEF RerouteInv
  <2> QED BY <1>2, <2>1, <2>2, Zenon DEF QuickHealsLeaveNoReroute
<1> QED BY <1>3, <1>4, <1>5 DEF RerouteInv, Done

LEMMA RecordEndsKeepsReroute ==
  ASSUME HealInv, RerouteInv, RecordEnds
  PROVE  RerouteInv'
<1>1. UNCHANGED <<fsm, lived, slow>>
  BY DEF RecordEnds
<1>2. StateMatchesRun(fsm')
  BY <1>1 DEF RerouteInv
<1>3. ASSUME NEW h \in Heals, heal'[h] # Done, lived'[h] < RecoveryPolls
      PROVE  fsm'.cur \in {"UNHEALTHY", "DEAD", "RECOVERING"} /\ fsm'.oks <= lived'[h]
  <2>1. CASE heal[h] # Done
    BY <1>1, <1>3, <2>1 DEF RerouteInv
  \* A heal of this death: five failures in a row are behind it.
  <2>2. CASE heal[h] = Done
    <3>1. fsm.cur = "DEAD"
      BY <1>3, <2>2 DEF RecordEnds
    <3>2. fsm.oks = 0
      BY <3>1 DEF RerouteInv, StateMatchesRun
    <3>3. lived[h] \in 0 .. RecoveryPolls
      BY DEF HealInv, HealTypeOK
    <3> QED BY <1>1, <3>1, <3>2, <3>3 DEF RecoveryPolls
  <2> QED BY <2>1, <2>2
<1>4. QuickHealsLeaveNoReroute'
  BY DEF RecordEnds, QuickHealsLeaveNoReroute, ClearsFallback
<1> QED BY <1>2, <1>3, <1>4 DEF RerouteInv, Done

\* A goroutine that goes on is no younger for it.
LEMMA GoToKeepsReroute ==
  ASSUME NEW h \in Heals, NEW step, HealInv, RerouteInv, GoTo(h, step),
         heal[h] # Done, UNCHANGED fsm, QuickHealsLeaveNoReroute'
  PROVE  RerouteInv'
<1>1. ASSUME NEW g \in Heals, heal'[g] # Done, lived'[g] < RecoveryPolls
      PROVE  fsm'.cur \in {"UNHEALTHY", "DEAD", "RECOVERING"} /\ fsm'.oks <= lived'[g]
  <2>1. heal[g] # Done /\ lived'[g] = lived[g]
    BY <1>1 DEF GoTo, HealInv, HealTypeOK
  <2> QED BY <1>1, <2>1 DEF RerouteInv
<1>2. StateMatchesRun(fsm')
  BY DEF RerouteInv
<1> QED BY <1>1, <1>2 DEF RerouteInv, Done

LEMMA HealStepKeepsReroute ==
  ASSUME NEW h \in Heals, HealInv, RerouteInv, HealStepOf(h)
  PROVE  RerouteInv'
<1> USE HealingAssumption
<1>a. Len(Actions) \in Nat /\ DOMAIN Actions = 1 .. Len(Actions)
  OBVIOUS
<1>1. heal[h] # Done
  BY <1>a DEF HealStepOf, canAttempt, RunAction, Ask, Done
<1>2. UNCHANGED <<fsm, recording>> /\ \E step : GoTo(h, step)
  BY DEF HealStepOf, canAttempt, RunAction
<1>3. QuickHealsLeaveNoReroute'
  <2>1. CASE UNCHANGED <<fallback, slow>>
    BY <1>2, <2>1 DEF RerouteInv, QuickHealsLeaveNoReroute
  <2>2. CASE slow' = (lived[h] = RecoveryPolls)
    <3>1. lived[h] \in 0 .. RecoveryPolls
      BY DEF HealInv, HealTypeOK
    <3>2. fsm.cur = "HEALTHY" => ~(lived[h] < RecoveryPolls)
      BY <1>1 DEF RerouteInv
    <3>3. fsm.cur = "HEALTHY" => lived[h] = RecoveryPolls
      BY <3>1, <3>2 DEF RecoveryPolls
    <3> QED BY <1>2, <2>2, <3>3, Zenon DEF QuickHealsLeaveNoReroute
  <2> QED BY <2>1, <2>2 DEF HealStepOf, canAttempt, RunAction
<1> QED BY <1>1, <1>2, <1>3, GoToKeepsReroute

THEOREM RerouteInvHolds == HealSpec => []RerouteInv
<1>1. HealInit => RerouteInv
  <2> SUFFICES ASSUME HealInit PROVE RerouteInv
    OBVIOUS
  <2>1. StateMatchesRun(fsm)
    BY DEF HealInit, StateMatchesRun, NewServiceState
  <2>2. \A h \in Heals : heal[h] = Done
    BY Zenon DEF HealInit
  <2>3. QuickHealsLeaveNoReroute
    BY Zenon DEF HealInit, QuickHealsLeaveNoReroute
  <2> QED BY <2>1, <2>2, <2>3, Zenon DEF RerouteInv
<1>2. HealInv /\ RerouteInv /\ [HealNext]_healVars => RerouteInv'
  <2> SUFFICES ASSUME HealInv, RerouteInv, [HealNext]_healVars PROVE RerouteInv'
    OBVIOUS
  <2>1. ASSUME NEW h \in Heals, ManualHeal(h) PROVE RerouteInv'
    <3>1. /\ UNCHANGED <<fsm, fallback, recording, slow>>
          /\ lived' = [lived EXCEPT ![h] =
                         IF fsm.cur \in {"UNHEALTHY", "DEAD"} THEN 0 ELSE RecoveryPolls]
          /\ heal' = [heal EXCEPT ![h] = Ask]
      BY <2>1 DEF ManualHeal
    <3>2. ASSUME NEW g \in Heals, heal'[g] # Done, lived'[g] < RecoveryPolls
          PROVE  fsm'.cur \in {"UNHEALTHY", "DEAD", "RECOVERING"} /\ fsm'.oks <= lived'[g]
      <4>1. CASE g # h
        <5>1. heal'[g] = heal[g] /\ lived'[g] = lived[g]
          BY <3>1, <4>1 DEF HealInv, HealTypeOK
        <5> QED BY <3>1, <3>2, <5>1 DEF RerouteInv
      \* A heal that starts on a service that is down: no good check is behind it.
      <4>2. CASE g = h
        <5>1. lived'[g] = 0 /\ fsm.cur \in {"UNHEALTHY", "DEAD"}
          BY <3>1, <3>2, <4>2 DEF HealInv, HealTypeOK, RecoveryPolls
        <5>2. fsm.oks = 0
          BY <5>1 DEF RerouteInv, StateMatchesRun
        <5> QED BY <3>1, <5>1, <5>2
      <4> QED BY <4>1, <4>2
    <3>3. StateMatchesRun(fsm') /\ QuickHealsLeaveNoReroute'
      BY <3>1 DEF RerouteInv, QuickHealsLeaveNoReroute
    <3> QED BY <3>2, <3>3 DEF RerouteInv, Done
  <2>2. CASE HealTick \/ UNCHANGED healVars
    BY <2>2 DEF HealTick, healVars, RerouteInv, QuickHealsLeaveNoReroute, Done
  <2> QED
    BY <2>1, <2>2, PollKeepsReroute, RecordEndsKeepsReroute, HealStepKeepsReroute DEF HealNext
<1> QED BY <1>1, <1>2, HealInvHolds, PTL DEF HealSpec

\* A heal of a service that was down leaves no HEALTHY service rerouted if it
\* registers the fallback within three polls, whatever its actions and however
\* many heals run.
THEOREM QuickHealsLeaveNothing == HealSpec => []QuickHealsLeaveNoReroute
<1>1. RerouteInv => QuickHealsLeaveNoReroute
  BY DEF RerouteInv
<1> QED BY <1>1, RerouteInvHolds, PTL

-----------------------------------------------------------------------------

\* What the subscriber's operations do to its queue.
LEMMA SignalQueue ==
  ASSUME PassiveTypeOK
  PROVE  /\ sub.queue \in Seq(Signal) /\ Len(sub.queue) \in Nat
         /\ DOMAIN sub.queue = 1 .. Len(sub.queue)
         /\ \A i \in DOMAIN sub.queue : sub.queue[i] \in Signal
<1>1. sub.queue \in Seq(Signal)
  BY DEF PassiveTypeOK
<1> QED BY <1>1, LenProperties, ElementOfSeq

LEMMA FloorInvInit == PassiveInit => PassiveTypeOK /\ FloorInv
<1> SUFFICES ASSUME PassiveInit PROVE PassiveTypeOK /\ FloorInv
  OBVIOUS
<1>1. /\ sub = [anchored |-> FALSE, waiting |-> FALSE, queue |-> <<>>]
      /\ floor = FALSE /\ circuit = NewBreaker /\ health = NewServiceState
      /\ polling = [p \in Pollers |-> "idle"] /\ restarts = 0
      /\ firing = {} /\ owed = {} /\ lost = {}
  BY DEF PassiveInit, NewSubscriber, Subscriber
<1>2. NewServiceState \in ServiceState
  BY DEF NewServiceState, ServiceState, State, MaxFails, MaxOK
<1>3. NewBreaker \in BreakerRecord
  BY BreakerAssumption DEF NewBreaker, BreakerRecord, BreakerState
<1>4. sub \in [anchored : BOOLEAN, waiting : BOOLEAN, queue : Seq(Signal)]
  BY <1>1, EmptySeq
<1>5. PassiveTypeOK
  <2>1. /\ firing \in SUBSET Alerts /\ owed \in SUBSET (Alerts \ firing)
        /\ lost \in SUBSET Alerts /\ floor \in BOOLEAN
    BY <1>1
  <2>2. polling \in [Pollers -> PollState] /\ restarts \in 0 .. MaxRestarts
    BY <1>1, PassiveAssumption DEF PollState
  <2> QED BY <1>1, <1>2, <1>3, <1>4, <2>1, <2>2, Zenon DEF PassiveTypeOK
<1> QED BY <1>1, <1>5 DEF FloorInv

\* A step that changes neither the queue nor the floor, and after which every
\* alert that was firing, owed or lost still is one of these.
LEMMA StillAccounted ==
  ASSUME FloorInv, UNCHANGED <<sub, floor>>,
         firing \cup owed \cup lost \subseteq firing' \cup owed' \cup lost'
  PROVE  FloorInv'
<1>1. \A a, i : Accounted(a, i) => Accounted(a, i)'
  BY DEF Accounted
<1> QED BY <1>1, Zenon DEF FloorInv

LEMMA AlertsKeep ==
  ASSUME PassiveTypeOK, FloorInv, NEW a \in Alerts, Fire(a) \/ Resolve(a) \/ ReceiveInVain(a)
  PROVE  PassiveTypeOK' /\ FloorInv'
<1>1. UNCHANGED <<sub, floor, circuit, health, polling, restarts>>
  BY DEF Fire, Resolve, ReceiveInVain, healthVars
<1>2. /\ firing \in SUBSET Alerts /\ owed \in SUBSET (Alerts \ firing) /\ lost \in SUBSET Alerts
  BY DEF PassiveTypeOK
<1>3. /\ firing' \in SUBSET Alerts /\ owed' \in SUBSET (Alerts \ firing')
      /\ lost' \in SUBSET Alerts
      /\ firing \cup owed \cup lost \subseteq firing' \cup owed' \cup lost'
  <2>1. CASE Fire(a)
    BY <1>2, <2>1 DEF Fire
  <2>2. CASE Resolve(a)
    BY <1>2, <2>2 DEF Resolve
  <2>3. CASE ReceiveInVain(a)
    BY <1>2, <2>3 DEF ReceiveInVain, Notifies
  <2> QED BY <2>1, <2>2, <2>3
<1>4. PassiveTypeOK'
  BY <1>1, <1>3 DEF PassiveTypeOK
<1> QED BY <1>1, <1>3, <1>4, StillAccounted

\* A resolution leaves owed for the end of the queue.
LEMMA ReceiveKeeps ==
  ASSUME PassiveTypeOK, FloorInv, NEW a \in Alerts, Receive(a)
  PROVE  PassiveTypeOK' /\ FloorInv'
<1> DEFINE q == sub.queue
           s == [alert |-> a, status |-> IF a \in firing THEN "firing" ELSE "resolved"]
<1>q. /\ q \in Seq(Signal) /\ Len(q) \in Nat /\ DOMAIN q = 1 .. Len(q)
      /\ \A i \in DOMAIN q : q[i] \in Signal
  BY SignalQueue
<1>s. s \in Signal /\ s.alert = a /\ (a \notin firing => s.status = "resolved")
  BY DEF Signal
<1>1. /\ sub' = [sub EXCEPT !.queue = Append(q, s)]
      /\ UNCHANGED <<firing, floor, circuit, health, polling, restarts, lost>>
      /\ owed' = owed \ {a} /\ (a \in firing \/ a \in owed)
  BY DEF Receive, Notifies, Added, healthVars
<1>2. sub \in [anchored : BOOLEAN, waiting : BOOLEAN, queue : Seq(Signal)]
  BY DEF PassiveTypeOK
<1> HIDE DEF s
<1>3. /\ Append(q, s) \in Seq(Signal) /\ DOMAIN Append(q, s) = 1 .. Len(q) + 1
      /\ \A i \in 1 .. Len(q) : Append(q, s)[i] = q[i]
      /\ Append(q, s)[Len(q) + 1] = s
  BY <1>q, <1>s, AppendProperties, LenProperties
<1>4. /\ sub'.queue = Append(q, s)
      /\ sub' \in [anchored : BOOLEAN, waiting : BOOLEAN, queue : Seq(Signal)]
  BY <1>1, <1>2, <1>3
<1>5. PassiveTypeOK'
  BY <1>1, <1>4 DEF PassiveTypeOK
<1> HIDE DEF q
<1>6. ASSUME NEW b, NEW i \in 0 .. Len(q), Accounted(b, i) PROVE Accounted(b, i)'
  <2>1. CASE b \in firing \cup lost
    BY <2>1, <1>1 DEF Accounted
  <2>2. CASE b \in owed /\ b \notin firing
    <3>1. CASE b = a
      <4>1. Len(q) + 1 \in DOMAIN sub'.queue /\ Len(q) + 1 > i
        BY <1>q, <1>3, <1>4
      <4>2. sub'.queue[Len(q) + 1].alert = a /\ sub'.queue[Len(q) + 1].status = "resolved"
        BY <1>3, <1>4, <1>s, <2>2, <3>1
      <4> QED BY <3>1, <4>1, <4>2 DEF Accounted
    <3>2. CASE b # a
      BY <1>1, <2>2, <3>2 DEF Accounted
    <3> QED BY <3>1, <3>2
  <2>3. CASE \E j \in DOMAIN q : j > i /\ q[j].alert = b /\ q[j].status = "resolved"
    <3>1. PICK j \in DOMAIN q : j > i /\ q[j].alert = b /\ q[j].status = "resolved"
      BY <2>3
    <3>2. j \in DOMAIN sub'.queue /\ sub'.queue[j] = q[j]
      BY <1>q, <1>3, <1>4
    <3> QED BY <3>1, <3>2 DEF Accounted
  <2> QED BY <1>6, <2>1, <2>2, <2>3 DEF Accounted, q
<1>7. FloorInv'
  <2>1. ASSUME NEW i \in DOMAIN sub'.queue, sub'.queue[i].status = "firing"
        PROVE  Accounted(sub.queue[i].alert, i)'
    <3>1. CASE i \in DOMAIN q
      <4>1. sub'.queue[i] = q[i] /\ i \in 0 .. Len(q)
        BY <1>q, <1>3, <1>4, <3>1
      <4>2. Accounted(q[i].alert, i)
        BY <2>1, <3>1, <4>1 DEF FloorInv, q
      <4>3. \A b : b = q[i].alert => Accounted(b, i)'
        BY <1>6, <4>1, <4>2
      <4> QED BY <4>1, <4>3, Zenon
    <3>2. CASE i \notin DOMAIN q
      <4>1. i = Len(q) + 1
        BY <1>q, <1>3, <1>4, <2>1, <3>2
      <4>2. sub'.queue[i] = s /\ a \in firing
        BY <1>3, <1>4, <1>s, <2>1, <4>1
      <4>3. sub'.queue[i].alert \in firing'
        BY <1>1, <1>s, <4>2
      <4> QED BY <4>3, Zenon DEF Accounted
    <3> QED BY <3>1, <3>2
  <2>2. ASSUME floor PROVE \E b \in Alerts : Accounted(b, 0)'
    <3>1. 0 \in 0 .. Len(q)
      BY <1>q
    <3> QED BY <1>6, <2>2, <3>1 DEF FloorInv
  <2> QED BY <1>1, <2>1, <2>2, Zenon DEF FloorInv
<1> QED BY <1>5, <1>7

\* Signals that are dropped leave their resolutions lost.
LEMMA DropAccounts ==
  ASSUME PassiveTypeOK, NEW a, NEW i, Accounted(a, i),
         UNCHANGED <<firing, owed>>, lost' = lost \cup Unread
  PROVE  a \in firing' \cup owed' \cup lost'
  BY DEF Accounted, Unread

LEMMA UnreadTyped ==
  ASSUME PassiveTypeOK
  PROVE  lost \cup Unread \in SUBSET Alerts
<1>1. \A i \in DOMAIN sub.queue : sub.queue[i].alert \in Alerts
  BY SignalQueue DEF Signal
<1> QED BY <1>1 DEF PassiveTypeOK, Unread

LEMMA ReadsKeep ==
  ASSUME PassiveTypeOK, FloorInv, Read \/ ReadInVain
  PROVE  PassiveTypeOK' /\ FloorInv'
<1>1. UNCHANGED <<firing, owed, floor, circuit, health, polling, restarts>>
  BY DEF Read, ReadInVain, alertVars, healthVars
<1>2. sub \in [anchored : BOOLEAN, waiting : BOOLEAN, queue : Seq(Signal)]
  BY DEF PassiveTypeOK
<1>3. CASE Read
  <2>1. sub' = [sub EXCEPT !.waiting = TRUE] /\ lost' = lost
    BY <1>3 DEF Read, Asking
  <2>2. /\ sub' \in [anchored : BOOLEAN, waiting : BOOLEAN, queue : Seq(Signal)]
        /\ sub'.queue = sub.queue
    BY <1>2, <2>1
  <2>3. PassiveTypeOK'
    BY <1>1, <2>1, <2>2 DEF PassiveTypeOK
  <2>4. \A a, i : Accounted(a, i) => Accounted(a, i)'
    BY <1>1, <2>1, <2>2, Zenon DEF Accounted
  <2> QED BY <1>1, <2>2, <2>3, <2>4, Zenon DEF FloorInv
<1>4. CASE ReadInVain
  <2>1. sub' = [anchored |-> FALSE, waiting |-> FALSE, queue |-> <<>>] /\ lost' = lost \cup Unread
    BY <1>4, <1>2 DEF ReadInVain, AskedInVain, Subscriber
  <2>2. PassiveTypeOK'
    BY <1>1, <2>1, UnreadTyped, EmptySeq DEF PassiveTypeOK
  <2>3. \A a, i : Accounted(a, i) => Accounted(a, i)'
    BY <1>1, <2>1, DropAccounts DEF Accounted
  <2>4. DOMAIN sub'.queue = {}
    BY <2>1
  <2> QED BY <1>1, <2>2, <2>3, <2>4 DEF FloorInv
<1> QED BY <1>3, <1>4

\* The signal that sets the floor is of an alert that is accounted for.
LEMMA HandleKeeps ==
  ASSUME PassiveTypeOK, FloorInv, HandleSignal
  PROVE  PassiveTypeOK' /\ FloorInv'
<1> DEFINE q == sub.queue
<1>q. /\ q \in Seq(Signal) /\ Len(q) \in Nat /\ DOMAIN q = 1 .. Len(q) /\ q # <<>>
      /\ \A i \in DOMAIN q : q[i] \in Signal
  BY SignalQueue DEF HandleSignal
<1>1. /\ sub' = [anchored |-> TRUE, waiting |-> sub.waiting, queue |-> Tail(q)]
      /\ floor' = (Head(q).status = "firing")
      /\ polling' = [polling EXCEPT !["now"] = "gate"]
      /\ UNCHANGED <<firing, owed, circuit, health, restarts, lost>>
  BY DEF HandleSignal, Handled, Subscriber, Floor, alertVars
<1>2. /\ Tail(q) \in Seq(Signal) /\ DOMAIN Tail(q) = 1 .. Len(q) - 1
      /\ Head(q) = q[1] /\ 1 \in DOMAIN q
      /\ \A i \in 1 .. Len(q) - 1 : Tail(q)[i] = q[i + 1] /\ i + 1 \in DOMAIN q
  BY <1>q, HeadTailProperties, LenProperties, EmptySeq
<1>3. sub.waiting \in BOOLEAN
  BY DEF PassiveTypeOK
<1> HIDE DEF q
<1>4. sub'.queue = Tail(q) /\ sub' \in [anchored : BOOLEAN, waiting : BOOLEAN, queue : Seq(Signal)]
  BY <1>1, <1>2, <1>3
<1>5. polling' \in [Pollers -> PollState]
  BY <1>1 DEF PassiveTypeOK, PollState
<1>6. floor' \in BOOLEAN
  BY <1>1
<1>7. PassiveTypeOK'
  BY <1>1, <1>4, <1>5, <1>6 DEF PassiveTypeOK
<1>8. ASSUME NEW a, NEW i \in Nat, Accounted(a, i + 1) PROVE Accounted(a, i)'
  <2>1. CASE a \in firing \cup owed \cup lost
    BY <1>1, <2>1 DEF Accounted
  <2>2. CASE \E j \in DOMAIN q : j > i + 1 /\ q[j].alert = a /\ q[j].status = "resolved"
    <3>1. PICK j \in DOMAIN q : j > i + 1 /\ q[j].alert = a /\ q[j].status = "resolved"
      BY <2>2
    <3>2. j - 1 \in 1 .. Len(q) - 1 /\ j - 1 > i /\ (j - 1) + 1 = j
      BY <1>q, <3>1
    <3>3. Tail(q)[j - 1] = q[j] /\ j - 1 \in DOMAIN Tail(q)
      BY <1>2, <3>2
    <3> QED BY <1>4, <3>1, <3>2, <3>3 DEF Accounted
  <2> QED BY <1>8, <2>1, <2>2 DEF Accounted, q
<1>9. FloorInv'
  <2>1. ASSUME NEW i \in DOMAIN sub'.queue, sub'.queue[i].status = "firing"
        PROVE  Accounted(sub.queue[i].alert, i)'
    <3>1. i \in 1 .. Len(q) - 1 /\ i \in Nat
      BY <1>2, <1>4, <2>1
    <3>2. sub'.queue[i] = q[i + 1] /\ i + 1 \in DOMAIN q
      BY <1>2, <1>4, <3>1
    <3>3. Accounted(q[i + 1].alert, i + 1)
      BY <2>1, <3>2 DEF FloorInv, q
    <3>4. \A b : b = q[i + 1].alert => Accounted(b, i)'
      BY <1>8, <3>1, <3>3
    <3> QED BY <3>2, <3>4, Zenon
  <2>2. ASSUME floor' PROVE \E a \in Alerts : Accounted(a, 0)'
    <3>1. PICK a \in Alerts : a = q[1].alert
      BY <1>q, <1>2 DEF Signal
    <3>2. Accounted(a, 1)
      <4>1. 1 \in DOMAIN q /\ q[1].status = "firing"
        BY <1>1, <1>2, <2>2
      <4> QED BY <3>1, <4>1, Zenon DEF FloorInv, q
    <3>3. Accounted(a, 0)'
      <4>1. 0 \in Nat /\ 0 + 1 = 1
        OBVIOUS
      <4> QED BY <1>8, <3>2, <4>1, Zenon
    <3> QED BY <3>3
  <2> QED BY <2>1, <2>2, Zenon DEF FloorInv
<1> QED BY <1>7, <1>9

\* Polls and time leave the alerts, the signals and the floor alone.
LEMMA PollsKeep ==
  ASSUME PassiveTypeOK, FloorInv, PassiveTick \/ (\E p \in Pollers : PollerStepOf(p))
  PROVE  PassiveTypeOK' /\ FloorInv'
<1>1. UNCHANGED <<firing, owed, sub, floor, restarts, lost>>
  BY DEF PassiveTick, PollerStepOf, Look, Result, alertVars
<1>t. circuit \in BreakerRecord /\ health \in ServiceState /\ polling \in [Pollers -> PollState]
  BY DEF PassiveTypeOK
<1>2. circuit' \in BreakerRecord
  BY <1>t, BreakerClosed DEF PassiveTick, PollerStepOf, Look, Result
<1>3. health' \in ServiceState
  BY <1>t, TransitionTyped DEF PassiveTick, PollerStepOf, Look, Result
<1>4. polling' \in [Pollers -> PollState]
  BY <1>t DEF PassiveTick, PollerStepOf, Look, Result, PollState
<1>5. PassiveTypeOK'
  BY <1>1, <1>2, <1>3, <1>4 DEF PassiveTypeOK
<1> QED BY <1>1, <1>5, StillAccounted

LEMMA RestartKeeps ==
  ASSUME PassiveTypeOK, FloorInv, Restart
  PROVE  PassiveTypeOK' /\ FloorInv'
<1>1. /\ sub' = [anchored |-> FALSE, waiting |-> FALSE, queue |-> <<>>]
      /\ floor' = FALSE /\ circuit' = NewBreaker /\ health' = NewServiceState
      /\ polling' = [p \in Pollers |-> "idle"] /\ lost' = lost \cup Unread
      /\ UNCHANGED <<firing, owed>>
  BY DEF Restart, NewSubscriber, Subscriber, alertVars
<1>2. restarts' \in 0 .. MaxRestarts
  BY PassiveAssumption DEF Restart, PassiveTypeOK
<1>3. NewServiceState \in ServiceState
  BY DEF NewServiceState, ServiceState, State, MaxFails, MaxOK
<1>4. NewBreaker \in BreakerRecord
  BY BreakerAssumption DEF NewBreaker, BreakerRecord, BreakerState
<1>5. sub' \in [anchored : BOOLEAN, waiting : BOOLEAN, queue : Seq(Signal)]
  BY <1>1, EmptySeq
<1>6. PassiveTypeOK'
  BY <1>1, <1>2, <1>3, <1>4, <1>5, UnreadTyped DEF PassiveTypeOK, PollState
<1> QED BY <1>1, <1>6 DEF FloorInv

\* No floor without an alert behind it, nor a signal on its way that would set
\* one, whatever is lost and however often the engine restarts
\* (alertsignal.go:36-62).
THEOREM FloorInvHolds == PassiveSpec => [](PassiveTypeOK /\ FloorInv)
<1>1. PassiveTypeOK /\ FloorInv /\ [PassiveNext]_passiveVars => PassiveTypeOK' /\ FloorInv'
  <2>1. UNCHANGED passiveVars /\ PassiveTypeOK /\ FloorInv => PassiveTypeOK' /\ FloorInv'
    <3>1. UNCHANGED passiveVars /\ PassiveTypeOK => PassiveTypeOK'
      BY DEF passiveVars, alertVars, healthVars, PassiveTypeOK
    <3> QED BY <3>1, StillAccounted DEF passiveVars, alertVars, healthVars
  <2> QED
    BY <2>1, AlertsKeep, ReceiveKeeps, ReadsKeep, HandleKeeps, PollsKeep, RestartKeeps
       DEF PassiveNext
<1> QED BY <1>1, FloorInvInit, PTL DEF PassiveSpec

\* Once every notification is handled, a floor stands for an alert that fires or
\* whose resolution was lost, for any number of alerts and of signals queued.
THEOREM FloorHasItsAlert == PassiveSpec => []FloorStandsForAlert
<1>1. FloorInv => FloorStandsForAlert
  BY DEF FloorInv, FloorStandsForAlert, Accounted
<1> QED BY <1>1, FloorInvHolds, PTL
=============================================================================
