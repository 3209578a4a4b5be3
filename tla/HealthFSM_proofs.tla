-------------------------- MODULE HealthFSM_proofs --------------------------
(***************************************************************************)
(* Facts about the transition table, used wherever the state machine runs. *)
(***************************************************************************)
EXTENDS HealthFSM, TLAPS

\* Counting stops at the bound and is exact below it.
LEMMA CountToStep ==
  ASSUME NEW max \in Nat, NEW n \in 0 .. max
  PROVE  /\ CountTo(n + 1, max) \in 0 .. max
         /\ CountTo(n + 1, max) = IF n < max THEN n + 1 ELSE max
  BY DEF CountTo

\* The table yields states (state.go:171-232).
LEMMA NextIsState ==
  ASSUME NEW cur \in State, NEW ok \in BOOLEAN, NEW fails \in Nat, NEW oks \in Nat
  PROVE  computeNextState(cur, ok, fails, oks) \in State
<1>1. NextOnSuccess(cur, oks) \in State
  BY DEF NextOnSuccess, State
<1>2. NextOnFailure(cur, fails) \in State
  BY DEF NextOnFailure, State
<1> QED BY <1>1, <1>2 DEF computeNextState

\* Nothing is lost by saturating the counters: the table answers the same for
\* the exact counts, whatever their size.
THEOREM SaturationIsExact ==
  ASSUME NEW cur \in State, NEW ok \in BOOLEAN, NEW fails \in Nat, NEW oks \in Nat
  PROVE  computeNextState(cur, ok, fails, oks)
           = computeNextState(cur, ok, CountTo(fails, MaxFails), CountTo(oks, MaxOK))
<1>1. \A n \in 2 .. 3 : oks >= n <=> CountTo(oks, MaxOK) >= n
  BY DEF CountTo, MaxOK
<1>2. NextOnSuccess(cur, oks) = NextOnSuccess(cur, CountTo(oks, MaxOK))
  <2>1. oks >= 2 <=> CountTo(oks, MaxOK) >= 2  BY <1>1
  <2>2. oks >= 3 <=> CountTo(oks, MaxOK) >= 3  BY <1>1
  <2> QED BY <2>1, <2>2, Zenon DEF NextOnSuccess
<1>3. \A n \in 1 .. 5 : fails >= n <=> CountTo(fails, MaxFails) >= n
  BY DEF CountTo, MaxFails
<1>4. NextOnFailure(cur, fails) = NextOnFailure(cur, CountTo(fails, MaxFails))
  <2>1. fails >= 1 <=> CountTo(fails, MaxFails) >= 1  BY <1>3
  <2>2. fails >= 2 <=> CountTo(fails, MaxFails) >= 2  BY <1>3
  <2>3. fails >= 3 <=> CountTo(fails, MaxFails) >= 3  BY <1>3
  <2>4. fails >= 5 <=> CountTo(fails, MaxFails) >= 5  BY <1>3
  <2> DEFINE c == CountTo(fails, MaxFails)
  <2>5. CASE cur = "DEGRADED"    BY <2>3, <2>5 DEF NextOnFailure
  <2>6. CASE cur = "UNHEALTHY"   BY <2>4, <2>6 DEF NextOnFailure
  <2>7. CASE cur = "DEAD"        BY <2>7 DEF NextOnFailure
  <2>8. CASE cur = "RECOVERING"  BY <2>2, <2>8 DEF NextOnFailure
  <2>9. CASE cur = "UNKNOWN"     BY <2>1, <2>9 DEF NextOnFailure
  <2>10. CASE cur = "HEALTHY"    BY <2>1, <2>10 DEF NextOnFailure
  <2> QED BY <2>5, <2>6, <2>7, <2>8, <2>9, <2>10 DEF State
<1> QED BY <1>2, <1>4 DEF computeNextState

\* Transition keeps the record's type (state.go:127-167).
THEOREM TransitionTyped ==
  ASSUME NEW s \in ServiceState, NEW ok \in BOOLEAN
  PROVE  Transition(s, ok) \in ServiceState
<1> DEFINE fails == IF ok THEN 0 ELSE CountTo(s.fails + 1, MaxFails)
           oks   == IF ok THEN CountTo(s.oks + 1, MaxOK) ELSE 0
<1>a. s.fails \in 0 .. MaxFails /\ s.oks \in 0 .. MaxOK
  BY DEF ServiceState
<1>b. /\ CountTo(s.fails + 1, MaxFails) \in 0 .. MaxFails
      /\ CountTo(s.oks + 1, MaxOK) \in 0 .. MaxOK
  BY <1>a, CountToStep DEF MaxFails, MaxOK
<1>c. 0 \in 0 .. MaxFails /\ 0 \in 0 .. MaxOK
  BY DEF MaxFails, MaxOK
<1>1. fails \in 0 .. MaxFails
  BY <1>b, <1>c, Zenon
<1>2. oks \in 0 .. MaxOK
  BY <1>b, <1>c, Zenon
<1>3. fails \in Nat /\ oks \in Nat
  BY <1>1, <1>2 DEF MaxFails, MaxOK
<1>4. s.cur \in State /\ s.prev \in State \cup {""}
  BY DEF ServiceState
<1> HIDE DEF fails, oks
<1>5. computeNextState(s.cur, ok, fails, oks) \in State
  BY <1>3, <1>4, NextIsState
<1> USE DEF fails, oks
<1> QED BY <1>1, <1>2, <1>4, <1>5 DEF Transition, ServiceState

\* What Transition does to each state, on a good and on a bad result.
LEMMA OnSuccess ==
  ASSUME NEW s \in ServiceState
  PROVE  LET t == Transition(s, TRUE) IN
         /\ t.fails = 0
         /\ t.oks = CountTo(s.oks + 1, MaxOK)
         /\ s.cur \in {"UNKNOWN", "HEALTHY"} => t.cur = "HEALTHY"
         /\ s.cur = "DEGRADED" => t.cur = IF t.oks >= 2 THEN "HEALTHY" ELSE "DEGRADED"
         /\ s.cur \in {"UNHEALTHY", "DEAD"} => t.cur = "RECOVERING"
         /\ s.cur = "RECOVERING" => t.cur = IF t.oks >= 3 THEN "HEALTHY" ELSE "RECOVERING"
  BY DEF Transition, computeNextState, NextOnSuccess, ServiceState, State

LEMMA OnFailure ==
  ASSUME NEW s \in ServiceState
  PROVE  LET t == Transition(s, FALSE) IN
         /\ t.fails = CountTo(s.fails + 1, MaxFails)
         /\ t.oks = 0
         /\ s.cur \in {"UNKNOWN", "HEALTHY"} =>
              t.cur = IF t.fails >= 1 THEN "DEGRADED" ELSE "HEALTHY"
         /\ s.cur = "DEGRADED" => t.cur = IF t.fails >= 3 THEN "UNHEALTHY" ELSE "DEGRADED"
         /\ s.cur = "UNHEALTHY" => t.cur = IF t.fails >= 5 THEN "DEAD" ELSE "UNHEALTHY"
         /\ s.cur = "DEAD" => t.cur = "DEAD"
         /\ s.cur = "RECOVERING" => t.cur = IF t.fails >= 2 THEN "UNHEALTHY" ELSE "RECOVERING"
  BY DEF Transition, computeNextState, NextOnFailure, ServiceState, State

\* The first result of a service takes it out of UNKNOWN for good
\* (state.go:171-232).
LEMMA NeverUnknownAgain ==
  ASSUME NEW s \in ServiceState, NEW ok \in BOOLEAN
  PROVE  Transition(s, ok).cur \in State \ {"UNKNOWN"}
<1>1. s.cur \in State
  BY Zenon DEF ServiceState
<1>2. Transition(s, TRUE).cur \in State \ {"UNKNOWN"}
  BY <1>1, OnSuccess DEF State
<1>3. Transition(s, FALSE).cur \in State \ {"UNKNOWN"}
  BY <1>1, OnFailure DEF State
<1> QED BY <1>2, <1>3, Zenon

\* The relation between a state and the run of results behind it is inductive:
\* DEAD always means five failures in a row, UNHEALTHY at least two, and
\* nothing but good checks leads back to HEALTHY.
THEOREM StateMatchesRunInductive ==
  ASSUME NEW s \in ServiceState, NEW ok \in BOOLEAN, StateMatchesRun(s)
  PROVE  StateMatchesRun(Transition(s, ok))
<1>1. /\ s.cur \in State
      /\ s.fails \in 0 .. MaxFails
      /\ s.oks \in 0 .. MaxOK
  BY DEF ServiceState
<1>2. ASSUME ok = TRUE PROVE StateMatchesRun(Transition(s, ok))
  <2>1. PICK t : t = Transition(s, TRUE)
    OBVIOUS
  <2>2. /\ t.fails = 0
        /\ t.oks = CountTo(s.oks + 1, MaxOK)
        /\ s.cur \in {"UNKNOWN", "HEALTHY"} =>
              t.cur = "HEALTHY"
        /\ s.cur = "DEGRADED" => t.cur = IF t.oks >= 2 THEN "HEALTHY" ELSE "DEGRADED"
        /\ s.cur \in {"UNHEALTHY", "DEAD"} => t.cur = "RECOVERING"
        /\ s.cur = "RECOVERING" => t.cur = IF t.oks >= 3 THEN "HEALTHY" ELSE "RECOVERING"
    BY <2>1, OnSuccess, Zenon
  <2>3. StateMatchesRun(t)
    BY <1>1, <2>2 DEF StateMatchesRun, CountTo, MaxFails, MaxOK, State
  <2> QED BY <1>2, <2>1, <2>3, Zenon
<1>3. ASSUME ok = FALSE PROVE StateMatchesRun(Transition(s, ok))
  <2>1. PICK t : t = Transition(s, FALSE)
    OBVIOUS
  <2>2. /\ t.fails = CountTo(s.fails + 1, MaxFails)
        /\ t.oks = 0
        /\ s.cur \in {"UNKNOWN", "HEALTHY"} =>
              t.cur = IF t.fails >= 1 THEN "DEGRADED" ELSE "HEALTHY"
        /\ s.cur = "DEGRADED" => t.cur = IF t.fails >= 3 THEN "UNHEALTHY" ELSE "DEGRADED"
        /\ s.cur = "UNHEALTHY" => t.cur = IF t.fails >= 5 THEN "DEAD" ELSE "UNHEALTHY"
        /\ s.cur = "DEAD" => t.cur = "DEAD"
        /\ s.cur = "RECOVERING" => t.cur = IF t.fails >= 2 THEN "UNHEALTHY" ELSE "RECOVERING"
    BY <2>1, OnFailure, Zenon
  <2>3. StateMatchesRun(t)
    BY <1>1, <2>2 DEF StateMatchesRun, CountTo, MaxFails, MaxOK, State
  <2> QED BY <1>3, <2>1, <2>3, Zenon
<1> QED BY <1>2, <1>3

\* The edges a service can take, given that its state matches its run: an
\* outage passes through every stage and a recovery through RECOVERING.
THEOREM AllowedEdges ==
  ASSUME NEW s \in ServiceState, NEW ok \in BOOLEAN, StateMatchesRun(s), Changed(s, ok)
  PROVE  <<s.cur, Transition(s, ok).cur>> \in
           {<<"UNKNOWN", "HEALTHY">>, <<"UNKNOWN", "DEGRADED">>,
            <<"HEALTHY", "DEGRADED">>, <<"DEGRADED", "HEALTHY">>,
            <<"DEGRADED", "UNHEALTHY">>, <<"UNHEALTHY", "DEAD">>,
            <<"UNHEALTHY", "RECOVERING">>, <<"DEAD", "RECOVERING">>,
            <<"RECOVERING", "HEALTHY">>, <<"RECOVERING", "UNHEALTHY">>}
<1> USE DEF StateMatchesRun, ServiceState, State, Changed, CountTo, MaxFails, MaxOK
<1>1. CASE ok = TRUE
  BY <1>1, OnSuccess
<1>2. CASE ok = FALSE
  BY <1>2, OnFailure
<1> QED BY <1>1, <1>2
=============================================================================
