-------------------------- MODULE ReadModel_proofs --------------------------
(***************************************************************************)
(* Module ReadModel for every length of the stream and every age: a store  *)
(* that has its place in the stream of changes and has read it to the end  *)
(* shows the state the service is in, and a seeded store is never set back *)
(* to an older state.                                                      *)
(*                                                                         *)
(* The inductive invariant ReadInv ties three things together: the stream  *)
(* (in the order of the changes, the newest one last), the subscriber's    *)
(* place in it, and the view, which is the entry before that place.        *)
(***************************************************************************)
EXTENDS ReadModel, HealthFSM_proofs

\* What a row or the view holds before anything was told.
Blank == ""

LEMMA StatesAreNotBlank == \A st \in State : st # Blank
  BY Zenon DEF State, Blank

LEMMA DatedFields ==
  ASSUME NEW d \in Dated
  PROVE  d.age \in 0 .. MaxAge /\ d.st \in State \cup {Blank}
  BY Zenon DEF Dated, Blank

LEMMA DatedRecord ==
  ASSUME NEW st \in State, NEW age \in 0 .. MaxAge
  PROVE  /\ [st |-> st, age |-> age] \in Dated
         /\ [st |-> st, age |-> age].st = st
         /\ [st |-> st, age |-> age].age = age
<1>1. st \in State \cup {""}
  BY Zenon
<1> QED BY <1>1, Zenon DEF Dated

LEMMA NothingIsDated ==
  Nothing \in Dated /\ Nothing.st = Blank /\ Nothing.age = MaxAge
<1>1. MaxAge \in 0 .. MaxAge
  BY ReadModelAssumption
<1>2. "" \in State \cup {""}
  BY Zenon
<1> QED BY <1>1, <1>2, Zenon DEF Nothing, Dated, Blank

\* A change ages what was told before it, and keeps the order of ages.
LEMMA OlderAges ==
  ASSUME NEW d \in Dated
  PROVE  /\ Older(d) \in Dated
         /\ Older(d).st = d.st
         /\ Older(d).age = IF d.age < MaxAge THEN d.age + 1 ELSE MaxAge
<1> DEFINE St == State \cup {""}
<1>1. Dated = [st : St, age : 0 .. MaxAge]
  BY Zenon DEF Dated
<1> HIDE DEF St
<1>2. d.age \in 0 .. MaxAge
  BY DatedFields
<1> QED BY <1>1, <1>2, CountToStep, ReadModelAssumption DEF Older

LEMMA OlderKeepsOrder ==
  ASSUME NEW d \in Dated, NEW e \in Dated, d.age <= e.age
  PROVE  Older(d).age <= Older(e).age
<1>1. d.age \in 0 .. MaxAge /\ e.age \in 0 .. MaxAge
  BY DatedFields
<1> QED BY <1>1, OlderAges, ReadModelAssumption

-----------------------------------------------------------------------------

\* XADD: the new entry is last and the others move down if the oldest goes.
LEMMA AddMoves ==
  ASSUME log \in Seq(Dated), Len(log) <= MaxLen, reader \in Reader,
         reader.next <= Len(log), NEW e \in Dated, Add(e)
  PROVE  \E gone \in {0, 1} :
           /\ log' \in Seq(Dated) /\ Len(log') = Len(log) + 1 - gone /\ Len(log') <= MaxLen
           /\ log'[Len(log')] = e
           /\ \A k \in 1 .. Len(log') - 1 : k + gone \in 1 .. Len(log) /\ log'[k] = log[k + gone]
           /\ reader' \in Reader
           /\ reader'.id = reader.id /\ reader'.waiting = reader.waiting
           /\ reader'.next = IF reader.next > 0 THEN reader.next - gone ELSE 0
<1>t. reader.next \in 0 .. MaxLen /\ reader.id \in {"$", "at"} /\ reader.waiting \in BOOLEAN
  BY DEF Reader
<1>a. Len(log) \in Nat /\ MaxLen \in Nat /\ MaxLen > 0
  BY ReadModelAssumption
<1>1. CASE Len(log) = MaxLen
  <2>1. /\ log' = Append(Tail(log), e)
        /\ reader' = [reader EXCEPT !.next = IF reader.next > 0 THEN reader.next - 1 ELSE reader.next]
    BY <1>1 DEF Add
  <2>2. log # <<>>
    BY <1>1, <1>a
  <2>3. /\ Tail(log) \in Seq(Dated) /\ Len(Tail(log)) = Len(log) - 1
        /\ \A k \in 1 .. Len(log) - 1 : Tail(log)[k] = log[k + 1]
    BY <2>2
  <2>4. /\ log' \in Seq(Dated) /\ Len(log') = Len(log)
        /\ log'[Len(log)] = e
        /\ \A k \in 1 .. Len(log) - 1 : log'[k] = log[k + 1]
    BY <1>a, <1>1, <2>1, <2>3
  <2>5. /\ reader' \in Reader
        /\ reader'.id = reader.id /\ reader'.waiting = reader.waiting
        /\ reader'.next = IF reader.next > 0 THEN reader.next - 1 ELSE 0
    BY <1>t, <1>a, <2>1 DEF Reader
  <2> QED BY <1>a, <1>1, <2>4, <2>5
<1>2. CASE Len(log) # MaxLen
  <2>1. log' = Append(log, e) /\ reader' = [reader EXCEPT !.next = reader.next]
    BY <1>2 DEF Add
  <2>2. /\ log' \in Seq(Dated) /\ Len(log') = Len(log) + 1
        /\ log'[Len(log) + 1] = e
        /\ \A k \in 1 .. Len(log) : log'[k] = log[k]
    BY <1>a, <2>1
  <2>3. reader' = reader
    BY <1>t, <2>1 DEF Reader
  <2> QED BY <1>t, <1>a, <1>2, <2>2, <2>3
<1> QED BY <1>1, <1>2

\* A change of the state ages every entry and moves none.
LEMMA LogAges ==
  ASSUME log \in Seq(Dated), log' = [i \in DOMAIN log |-> Older(log[i])]
  PROVE  /\ log' \in Seq(Dated)
         /\ Len(log') = Len(log)
         /\ \A k \in 1 .. Len(log) : log'[k] = Older(log[k])
<1>1. \A k \in 1 .. Len(log) : log[k] \in Dated /\ Older(log[k]) \in Dated
  BY OlderAges
<1>2. DOMAIN log = 1 .. Len(log) /\ Len(log) \in Nat
  OBVIOUS
<1> QED BY <1>1, <1>2

-----------------------------------------------------------------------------

\* The entries of the stream are states, in the order of the changes; the last
\* one is the service's state once the poll is over, if it got there.
StreamInOrder ==
  /\ \A k \in 1 .. Len(log) : log[k].st \in State
  /\ \A j, k \in 1 .. Len(log) : j <= k => log[k].age <= log[j].age
  /\ todo = <<>> /\ ~dropped /\ log # <<>> => log[Len(log)].st = fsm.cur

\* The place is in the stream, and the view is the entry read last.
PlaceIsRead ==
  /\ reader.next <= Len(log)
  /\ api = "running" /\ reader.id = "at" /\ reader.next > 0
       => view.st = log[reader.next].st

\* A row or a view that tells nothing is as old as can be.
BlankIsOld ==
  /\ row.st = Blank => row.age = MaxAge
  /\ view.st = Blank => view.age = MaxAge

\* A seeded store has only newer entries before it.
NothingOlderAhead ==
  api = "running" /\ seeded /\ (reader.id = "at" \/ reader.waiting)
    => \A k \in 1 .. Len(log) : k > reader.next => log[k].age <= view.age

ReadInv ==
  /\ TypeOK
  /\ StreamInOrder
  /\ PlaceIsRead
  /\ BlankIsOld
  /\ NothingOlderAhead
  /\ api = "seeding" => ~seeded

LEMMA ReadInvInit == Init => ReadInv
<1> SUFFICES ASSUME Init PROVE ReadInv
  OBVIOUS
<1>1. fsm \in ServiceState
  <2>1. NewServiceState \in ServiceState
    BY DEF NewServiceState, ServiceState, State, MaxFails, MaxOK
  <2> QED BY <2>1 DEF Init
<1>2. row = Nothing /\ view = Nothing
  BY DEF Init
<1>3. /\ todo = <<>> /\ ~writer /\ log = <<>> /\ ~dropped
      /\ api = "seeding" /\ ~seeded /\ start = "0"
      /\ writer \in BOOLEAN /\ dropped \in BOOLEAN /\ seeded \in BOOLEAN
  BY DEF Init
<1>4. reader \in Reader /\ reader.next = 0
  BY ReadModelAssumption DEF Init, Subscriber, Reader
<1>5. log \in Seq(Dated) /\ Len(log) = 0
  BY <1>3
<1>6. TypeOK
  BY <1>1, <1>2, <1>3, <1>4, <1>5, NothingIsDated, ReadModelAssumption DEF TypeOK
<1>7. StreamInOrder /\ PlaceIsRead /\ NothingOlderAhead
  BY <1>3, <1>4, <1>5 DEF StreamInOrder, PlaceIsRead, NothingOlderAhead
<1>8. BlankIsOld
  BY <1>2, NothingIsDated DEF BlankIsOld
<1> QED BY <1>3, <1>6, <1>7, <1>8 DEF ReadInv

-----------------------------------------------------------------------------

\* The types, without the fields of a dated entry.
LEMMA Types ==
  ASSUME TypeOK
  PROVE  /\ fsm \in ServiceState /\ fsm.cur \in State
         /\ todo \in {<<>>, <<"row", "change">>, <<"change">>}
         /\ row \in Dated /\ view \in Dated
         /\ log \in Seq(Dated) /\ Len(log) \in 0 .. MaxLen
         /\ \A k \in 1 .. Len(log) : log[k] \in Dated
         /\ reader \in Reader /\ reader.next \in 0 .. MaxLen
         /\ writer \in BOOLEAN /\ dropped \in BOOLEAN /\ seeded \in BOOLEAN
         /\ api \in {"seeding", "running"} /\ start \in {"0", "$"}
<1>1. fsm.cur \in State
  BY Zenon DEF TypeOK, ServiceState
<1>2. reader.next \in 0 .. MaxLen
  BY DEF TypeOK, Reader
<1>3. Len(log) \in Nat
  BY DEF TypeOK
<1> QED BY <1>1, <1>2, <1>3, ReadModelAssumption DEF TypeOK

\* What a poll has left to do, one call at a time.
LEMMA OneCallLess ==
  /\ Head(<<"row", "change">>) = "row" /\ Tail(<<"row", "change">>) = <<"change">>
  /\ Head(<<"change">>) = "change" /\ Tail(<<"change">>) = <<>>
<1>1. Tail(<<"row", "change">>) = <<"change">>
  OBVIOUS
<1>2. Tail(<<"change">>) = <<>>
  OBVIOUS
<1> QED BY <1>1, <1>2

LEMMA PollKeepsInv ==
  ASSUME ReadInv, NEW ok \in BOOLEAN, Poll(ok)
  PROVE  ReadInv'
<1>t. TypeOK
  BY DEF ReadInv
<1>1. /\ todo = <<>> /\ fsm' = Transition(fsm, ok)
      /\ UNCHANGED <<writer, dropped, api, seeded, start, reader>>
  BY DEF Poll
<1>2. fsm' \in ServiceState
  BY <1>1, <1>t, Types, TransitionTyped
<1>3. CASE Changed(fsm, ok)
  <2>1. /\ todo' = <<"row", "change">>
        /\ row' = Older(row) /\ view' = Older(view)
        /\ log' = [i \in DOMAIN log |-> Older(log[i])]
    BY <1>3 DEF Poll
  <2>2. /\ log' \in Seq(Dated) /\ Len(log') = Len(log)
        /\ \A k \in 1 .. Len(log) : log'[k] = Older(log[k])
    BY <1>t, <2>1, Types, LogAges
  <2>3. todo' # <<>>
    BY <2>1
  <2>4. TypeOK'
    BY <1>t, <1>1, <1>2, <2>1, <2>2, Types, OlderAges DEF TypeOK
  <2>5. StreamInOrder'
    <3>1. \A k \in 1 .. Len(log) : log'[k].st \in State
      BY <1>t, <2>2, Types, OlderAges DEF ReadInv, StreamInOrder
    <3>2. \A j, k \in 1 .. Len(log) : j <= k => log'[k].age <= log'[j].age
      <4> TAKE j, k \in 1 .. Len(log)
      <4>1. /\ log[j] \in Dated /\ log[k] \in Dated
            /\ j <= k => log[k].age <= log[j].age
        BY <1>t, Types DEF ReadInv, StreamInOrder
      <4>2. log'[j] = Older(log[j]) /\ log'[k] = Older(log[k])
        BY <2>2
      <4> QED BY <4>1, <4>2, OlderKeepsOrder
    <3> QED BY <2>2, <2>3, <3>1, <3>2 DEF StreamInOrder
  <2>6. PlaceIsRead'
    BY <1>t, <1>1, <2>1, <2>2, Types, OlderAges DEF ReadInv, PlaceIsRead
  <2>7. BlankIsOld'
    BY <1>t, <2>1, Types, OlderAges, ReadModelAssumption DEF ReadInv, BlankIsOld
  <2>8. NothingOlderAhead'
    <3> SUFFICES ASSUME api = "running", seeded, reader.id = "at" \/ reader.waiting,
                        NEW k \in 1 .. Len(log), k > reader.next
                 PROVE  log'[k].age <= view'.age
      BY <1>1, <2>2 DEF NothingOlderAhead
    <3>1. log[k].age <= view.age /\ log[k] \in Dated /\ view \in Dated
      BY <1>t, Types DEF ReadInv, NothingOlderAhead
    <3>2. log'[k] = Older(log[k]) /\ view' = Older(view)
      BY <2>1, <2>2
    <3> QED BY <3>1, <3>2, OlderKeepsOrder
  <2> QED BY <1>1, <2>4, <2>5, <2>6, <2>7, <2>8 DEF ReadInv
<1>4. CASE ~Changed(fsm, ok)
  <2>1. /\ fsm'.cur = fsm.cur
        /\ UNCHANGED <<todo, row, view, log>>
    BY <1>1, <1>4 DEF Poll, Changed
  <2>2. TypeOK'
    BY <1>t, <1>1, <1>2, <2>1 DEF TypeOK
  <2> QED BY <1>1, <2>1, <2>2 DEF ReadInv, StreamInOrder, PlaceIsRead, BlankIsOld, NothingOlderAhead
<1> QED BY <1>3, <1>4

LEMMA EngineKeepsInv ==
  ASSUME ReadInv, WriteStateChange \/ PublishStateChange \/ InsertRow
  PROVE  ReadInv'
<1>t. TypeOK
  BY DEF ReadInv
<1>1. CASE WriteStateChange
  <2>1. /\ todo # <<>> /\ Head(todo) = "row" /\ todo' = Tail(todo) /\ writer' = TRUE
        /\ UNCHANGED <<fsm, row, dropped, log, api, seeded, start, view, reader>>
    BY <1>1 DEF WriteStateChange, Doing, apiVars
  <2>2. todo' = <<"change">>
    BY <1>t, <2>1, OneCallLess, Types
  <2>3. todo' # <<>>
    BY <2>2
  <2>4. TypeOK'
    BY <1>t, <2>1, <2>2 DEF TypeOK
  <2> QED BY <2>1, <2>3, <2>4
          DEF ReadInv, StreamInOrder, PlaceIsRead, BlankIsOld, NothingOlderAhead
<1>2. CASE PublishStateChange
  <2>1. /\ todo # <<>> /\ Head(todo) = "change" /\ todo' = Tail(todo)
        /\ UNCHANGED <<fsm, writer, row, api, seeded, start, view>>
    BY <1>2 DEF PublishStateChange, Doing, apiVars
  <2>2. todo' = <<>>
    BY <1>t, <2>1, OneCallLess, Types
  <2> DEFINE e == [st |-> fsm.cur, age |-> 0]
  <2>3. e \in Dated /\ e.st = fsm.cur /\ e.age = 0
    BY <1>t, Types, DatedRecord, ReadModelAssumption
  <2>4. CASE dropped' = TRUE /\ UNCHANGED <<log, reader>>
    <3>1. TypeOK'
      BY <1>t, <2>1, <2>2, <2>4 DEF TypeOK
    <3> QED BY <2>1, <2>4, <3>1
            DEF ReadInv, StreamInOrder, PlaceIsRead, BlankIsOld, NothingOlderAhead
  <2>5. CASE Add(e) /\ dropped' = FALSE
    <3>p. PlaceIsRead /\ StreamInOrder
      BY DEF ReadInv
    <3>1. PICK gone \in {0, 1} :
           /\ log' \in Seq(Dated) /\ Len(log') = Len(log) + 1 - gone /\ Len(log') <= MaxLen
           /\ log'[Len(log')] = e
           /\ \A k \in 1 .. Len(log') - 1 : k + gone \in 1 .. Len(log) /\ log'[k] = log[k + gone]
           /\ reader' \in Reader
           /\ reader'.id = reader.id /\ reader'.waiting = reader.waiting
           /\ reader'.next = IF reader.next > 0 THEN reader.next - gone ELSE 0
      <4> HIDE DEF e
      <4>1. Len(log) <= MaxLen /\ reader.next <= Len(log)
        BY <1>t, <3>p, Types, ReadModelAssumption DEF PlaceIsRead
      <4> QED BY <1>t, <2>3, <2>5, <4>1, Types, AddMoves
    <3> HIDE DEF e
    <3>n. Len(log) \in Nat /\ Len(log') \in Nat /\ reader.next \in Nat
      BY <1>t, <3>1, Types, ReadModelAssumption
    <3>2. TypeOK'
      BY <1>t, <2>1, <2>2, <2>5, <3>1 DEF TypeOK
    <3>3. StreamInOrder'
      <4>1. ASSUME NEW k \in 1 .. Len(log') PROVE log'[k].st \in State
        <5>1. CASE k = Len(log')
          <6>1. log'[k].st = fsm.cur
            BY <2>3, <3>1, <5>1
          <6> QED BY <1>t, <6>1, Types
        <5>2. CASE k # Len(log')
          <6>1. k \in 1 .. Len(log') - 1
            BY <3>n, <5>2
          <6>2. log'[k] = log[k + gone] /\ k + gone \in 1 .. Len(log)
            BY <3>1, <6>1
          <6> QED BY <3>p, <6>2 DEF StreamInOrder
        <5> QED BY <5>1, <5>2
      <4>2. ASSUME NEW j \in 1 .. Len(log'), NEW k \in 1 .. Len(log'), j <= k
            PROVE  log'[k].age <= log'[j].age
        <5>1. CASE k = Len(log')
          <6>1. log'[k].age = 0 /\ log'[j] \in Dated
            BY <2>3, <3>1, <5>1
          <6> QED BY <6>1, DatedFields
        <5>2. CASE k # Len(log')
          <6>1. j \in 1 .. Len(log') - 1 /\ k \in 1 .. Len(log') - 1
            BY <3>n, <4>2, <5>2
          <6>2. /\ log'[j] = log[j + gone] /\ log'[k] = log[k + gone]
                /\ j + gone \in 1 .. Len(log) /\ k + gone \in 1 .. Len(log)
            BY <3>1, <6>1
          <6>3. j + gone <= k + gone
            BY <3>n, <4>2
          <6> QED BY <3>p, <6>2, <6>3 DEF StreamInOrder
        <5> QED BY <5>1, <5>2
      <4>3. log'[Len(log')].st = fsm'.cur
        BY <2>1, <2>3, <3>1
      <4> QED BY <4>1, <4>2, <4>3 DEF StreamInOrder
    <3>4. PlaceIsRead'
      <4>1. reader'.next <= Len(log')
        BY <3>1, <3>n, <3>p DEF PlaceIsRead
      <4>2. ASSUME api = "running", reader.id = "at", reader'.next > 0
            PROVE  view.st = log'[reader'.next].st
        <5>1. reader.next > 0 /\ reader'.next = reader.next - gone
          BY <3>1, <3>n, <4>2
        <5>2. /\ reader'.next \in 1 .. Len(log') - 1
              /\ reader'.next + gone = reader.next
          BY <3>1, <3>n, <3>p, <4>2, <5>1 DEF PlaceIsRead
        <5>3. log'[reader'.next] = log[reader.next]
          BY <3>1, <5>2
        <5> QED BY <3>p, <4>2, <5>1, <5>3 DEF PlaceIsRead
      <4> QED BY <2>1, <3>1, <4>1, <4>2 DEF PlaceIsRead
    <3>5. NothingOlderAhead'
      <4> SUFFICES ASSUME api = "running", seeded, reader.id = "at" \/ reader.waiting,
                          NEW k \in 1 .. Len(log'), k > reader'.next
                   PROVE  log'[k].age <= view.age
        BY <2>1, <3>1 DEF NothingOlderAhead
      <4>1. CASE k = Len(log')
        <5>1. log'[k].age = 0 /\ view.age \in 0 .. MaxAge
          BY <1>t, <2>3, <3>1, <4>1, Types, DatedFields
        <5> QED BY <5>1
      <4>2. CASE k # Len(log')
        <5>1. /\ k + gone \in 1 .. Len(log) /\ log'[k] = log[k + gone]
              /\ k + gone > reader.next
          BY <3>1, <3>n, <4>2
        <5> QED BY <5>1 DEF ReadInv, NothingOlderAhead
      <4> QED BY <4>1, <4>2
    <3> QED BY <2>1, <3>2, <3>3, <3>4, <3>5 DEF ReadInv, BlankIsOld
  <2> QED BY <1>2, <2>4, <2>5 DEF PublishStateChange
<1>3. CASE InsertRow
  <2>1. /\ row' \in {row, [st |-> fsm.cur, age |-> 0]} /\ writer' = FALSE
        /\ UNCHANGED <<fsm, todo, dropped, log, api, seeded, start, view, reader>>
    BY <1>3 DEF InsertRow, apiVars
  <2>2. row' \in Dated /\ (row' = row \/ row'.st \in State)
    BY <1>t, <2>1, Types, DatedRecord, ReadModelAssumption
  <2>3. TypeOK'
    BY <1>t, <2>1, <2>2 DEF TypeOK
  <2>4. BlankIsOld'
    BY <2>1, <2>2, StatesAreNotBlank DEF ReadInv, BlankIsOld
  <2> QED BY <2>1, <2>3, <2>4 DEF ReadInv, StreamInOrder, PlaceIsRead, NothingOlderAhead
<1> QED BY <1>1, <1>2, <1>3

\* A restart, the seeding and a metric change the view, and with it the place.
LEMMA StoreKeepsInv ==
  ASSUME ReadInv,
         NewStateStore \/ Run \/ \E st \in State \ {"UNKNOWN"} : HandleMetric(st)
  PROVE  ReadInv'
<1>t. TypeOK
  BY DEF ReadInv
<1>1. CASE NewStateStore
  <2>1. /\ api' = "seeding" /\ seeded' = FALSE /\ start' = "0" /\ view' = Nothing
        /\ UNCHANGED <<fsm, todo, writer, row, dropped, log, reader>>
    BY <1>1 DEF NewStateStore, engineVars
  <2>2. TypeOK'
    BY <1>t, <2>1, NothingIsDated DEF TypeOK
  <2>3. BlankIsOld'
    BY <2>1, NothingIsDated DEF ReadInv, BlankIsOld
  <2> QED BY <2>1, <2>2, <2>3 DEF ReadInv, StreamInOrder, PlaceIsRead, NothingOlderAhead
<1>2. CASE Run
  <2>1. /\ api = "seeding" /\ api' = "running"
        /\ reader' = Subscriber(start')
        /\ UNCHANGED <<fsm, todo, writer, row, dropped, log>>
        /\ \/ view' = row /\ seeded' = TRUE /\ start' = "$"
           \/ UNCHANGED <<view, seeded, start>>
    BY <1>2 DEF Run, Initialize, engineVars
  <2>2. /\ reader' \in Reader /\ reader'.next = 0 /\ reader'.waiting = FALSE
        /\ start' = "$" => reader'.id = "$"
    BY <2>1, ReadModelAssumption DEF Subscriber, Reader
  <2>3. TypeOK'
    BY <1>t, <2>1, <2>2 DEF TypeOK
  <2>4. PlaceIsRead'
    BY <1>t, <2>1, <2>2, Types DEF PlaceIsRead
  <2>5. BlankIsOld'
    BY <2>1 DEF ReadInv, BlankIsOld
  <2>6. NothingOlderAhead'
    BY <2>1, <2>2 DEF ReadInv, NothingOlderAhead
  <2> QED BY <2>1, <2>3, <2>4, <2>5, <2>6 DEF ReadInv, StreamInOrder
<1>3. ASSUME NEW st \in State \ {"UNKNOWN"}, HandleMetric(st) PROVE ReadInv'
  <2>1. /\ api = "running"
        /\ UNCHANGED <<fsm, todo, writer, row, dropped, log, api, seeded, start, reader>>
    BY <1>3 DEF HandleMetric, engineVars
  <2> DEFINE m == [st |-> st, age |-> MaxAge]
  <2>2. IF view.st = Blank THEN view' = m ELSE view' = view
    BY <1>3, Zenon DEF HandleMetric, applyMetric, Blank
  <2>3. m \in Dated /\ m.st = st /\ m.age = MaxAge
    BY DatedRecord, ReadModelAssumption
  <2> HIDE DEF m
  <2>4. TypeOK'
    BY <1>t, <2>1, <2>2, <2>3 DEF TypeOK
  <2>5. view'.age = view.age /\ (view.st # Blank => view'.st = view.st)
    BY <2>2, <2>3 DEF ReadInv, BlankIsOld
  <2>6. PlaceIsRead'
    <3>1. reader.next <= Len(log)
      BY DEF ReadInv, PlaceIsRead
    <3>2. ASSUME api = "running", reader.id = "at", reader.next > 0
          PROVE  view'.st = log[reader.next].st
      <4>1. view.st = log[reader.next].st
        BY <3>2 DEF ReadInv, PlaceIsRead
      <4>2. log[reader.next].st \in State
        BY <1>t, <3>1, <3>2, Types DEF ReadInv, StreamInOrder
      <4> QED BY <2>5, <4>1, <4>2, StatesAreNotBlank
    <3> QED BY <2>1, <3>1, <3>2 DEF PlaceIsRead
  <2>7. BlankIsOld'
    BY <2>1, <2>2, <2>3 DEF ReadInv, BlankIsOld
  <2> QED BY <2>1, <2>4, <2>5, <2>6, <2>7 DEF ReadInv, StreamInOrder, NothingOlderAhead
<1> QED BY <1>1, <1>2, <1>3

LEMMA ReaderKeepsInv ==
  ASSUME ReadInv, Read \/ NoAnswer \/ Handle
  PROVE  ReadInv'
<1>t. TypeOK
  BY DEF ReadInv
<1>n. /\ Len(log) \in 0 .. MaxLen /\ reader.next \in 0 .. MaxLen
      /\ reader.id \in {"$", "at"} /\ reader.waiting \in BOOLEAN /\ reader \in Reader
  BY <1>t, Types DEF Reader
<1>1. CASE Read
  <2>1. /\ api = "running"
        /\ reader' = [reader EXCEPT !.waiting = TRUE,
                                    !.next = IF reader.id = "$" THEN Len(log) ELSE reader.next]
        /\ UNCHANGED <<fsm, todo, writer, row, dropped, log, api, seeded, start, view>>
    BY <1>1 DEF Read, engineVars, apiVars
  <2>2. /\ reader' \in Reader /\ reader'.id = reader.id /\ reader'.waiting
        /\ reader'.next = IF reader.id = "$" THEN Len(log) ELSE reader.next
    BY <1>n, <2>1 DEF Reader
  <2>3. TypeOK'
    BY <1>t, <2>1, <2>2 DEF TypeOK
  <2>4. PlaceIsRead'
    BY <1>n, <2>1, <2>2 DEF ReadInv, PlaceIsRead
  <2>5. NothingOlderAhead'
    BY <1>n, <2>1, <2>2 DEF ReadInv, NothingOlderAhead
  <2> QED BY <2>1, <2>3, <2>4, <2>5 DEF ReadInv, StreamInOrder, BlankIsOld
<1>2. CASE NoAnswer
  <2>1. /\ reader' = [reader EXCEPT !.waiting = FALSE,
                                    !.next = IF reader.id = "$" THEN 0 ELSE reader.next]
        /\ UNCHANGED <<fsm, todo, writer, row, dropped, log, api, seeded, start, view>>
    BY <1>2 DEF NoAnswer, Retry, engineVars, apiVars
  <2>2. /\ reader' \in Reader /\ reader'.id = reader.id /\ ~reader'.waiting
        /\ reader'.next = IF reader.id = "$" THEN 0 ELSE reader.next
    <3>1. 0 \in 0 .. MaxLen /\ FALSE \in BOOLEAN
      BY ReadModelAssumption
    <3> QED BY <1>n, <2>1, <3>1 DEF Reader
  <2>3. TypeOK'
    BY <1>t, <2>1, <2>2 DEF TypeOK
  <2>4. PlaceIsRead'
    BY <1>n, <2>1, <2>2 DEF ReadInv, PlaceIsRead
  <2>5. NothingOlderAhead'
    BY <1>n, <2>1, <2>2 DEF ReadInv, NothingOlderAhead
  <2> QED BY <2>1, <2>3, <2>4, <2>5 DEF ReadInv, StreamInOrder, BlankIsOld
<1>3. CASE Handle
  <2>1. /\ api = "running" /\ reader.waiting /\ reader.next < Len(log)
        /\ view' = log[reader.next + 1]
        /\ reader' = [reader EXCEPT !.id = "at", !.next = reader.next + 1]
        /\ UNCHANGED <<fsm, todo, writer, row, dropped, log, api, seeded, start>>
    BY <1>3 DEF Handle, applyStateChange, engineVars
  <2>2. /\ reader' \in Reader /\ reader'.id = "at" /\ reader'.next = reader.next + 1
        /\ reader.next + 1 \in 1 .. Len(log)
    <3>1. reader.next + 1 \in 0 .. MaxLen /\ reader.next + 1 \in 1 .. Len(log)
      BY <1>n, <2>1, ReadModelAssumption
    <3> QED BY <1>n, <2>1, <3>1 DEF Reader
  <2>3. view' \in Dated /\ view'.st \in State
    BY <1>t, <2>1, <2>2, Types DEF ReadInv, StreamInOrder
  <2>4. TypeOK'
    BY <1>t, <2>1, <2>2, <2>3 DEF TypeOK
  <2>5. PlaceIsRead'
    BY <1>n, <2>1, <2>2 DEF PlaceIsRead
  <2>6. BlankIsOld'
    BY <2>1, <2>3, StatesAreNotBlank DEF ReadInv, BlankIsOld
  <2>7. NothingOlderAhead'
    <3> SUFFICES ASSUME NEW k \in 1 .. Len(log), k > reader.next + 1
                 PROVE  log[k].age <= log[reader.next + 1].age
      BY <2>1, <2>2 DEF NothingOlderAhead
    <3>1. reader.next + 1 <= k
      BY <1>n
    <3> QED BY <2>2, <3>1 DEF ReadInv, StreamInOrder
  <2> QED BY <2>1, <2>4, <2>5, <2>6, <2>7 DEF ReadInv, StreamInOrder
<1> QED BY <1>1, <1>2, <1>3

LEMMA ReadInvStep ==
  ASSUME ReadInv, [Next]_vars
  PROVE  ReadInv'
<1>1. ASSUME UNCHANGED vars PROVE ReadInv'
  <2>1. UNCHANGED <<fsm, todo, writer, row, dropped, log, api, seeded, start, view, reader>>
    BY <1>1 DEF vars, engineVars, apiVars
  <2>2. TypeOK'
    BY <2>1 DEF ReadInv, TypeOK
  <2> QED BY <2>1, <2>2 DEF ReadInv, StreamInOrder, PlaceIsRead, BlankIsOld, NothingOlderAhead
<1> QED BY <1>1, PollKeepsInv, EngineKeepsInv, StoreKeepsInv, ReaderKeepsInv DEF Next, PollStep

LEMMA ReadInvHolds == Spec => []ReadInv
<1>1. ReadInv /\ [Next]_vars => ReadInv'
  BY ReadInvStep
<1> QED BY <1>1, ReadInvInit, PTL DEF Spec

-----------------------------------------------------------------------------

\* A store that has its place in the stream of changes and has read it to the
\* end shows the state the service is in, unless the newest change never got
\* into the stream: whatever was trimmed, however often the API restarted and
\* however its subscriber's reads ended (state_store.go:155-245).
THEOREM StoreFollowsTheService == Spec => []AnchoredIsCurrent
<1>1. ASSUME ReadInv PROVE AnchoredIsCurrent
  <2> SUFFICES ASSUME CaughtUp, reader.id = "at", ~dropped, log # <<>>
               PROVE  view.st = fsm.cur
    BY DEF AnchoredIsCurrent
  <2>1. Len(log) > 0
    BY <1>1 DEF ReadInv, TypeOK
  <2>2. view.st = log[Len(log)].st
    BY <1>1, <2>1 DEF ReadInv, PlaceIsRead, CaughtUp
  <2>3. log[Len(log)].st = fsm.cur
    BY <1>1 DEF ReadInv, StreamInOrder, CaughtUp
  <2> QED BY <2>2, <2>3
<1> QED BY <1>1, ReadInvHolds, PTL

\* A seeded store is never set back: what it takes from the stream or from a
\* metric is at least as new as what it has (state_store.go:109-153).
THEOREM SeededStoreNeverGoesBack == Spec => NeverBackwards
<1>1. ASSUME ReadInv, [Next]_vars, seeded, seeded', fsm' = fsm
      PROVE  view'.age <= view.age
  <2>t. TypeOK
    BY <1>1 DEF ReadInv
  <2>1. view.age \in 0 .. MaxAge
    BY <2>t, Types, DatedFields
  <2>2. ASSUME view' = view PROVE view'.age <= view.age
    BY <2>1, <2>2
  <2>3. ASSUME NEW ok \in BOOLEAN, Poll(ok) PROVE view' = view
    BY <1>1, <2>3 DEF Poll, Changed
  <2>4. WriteStateChange \/ PublishStateChange \/ InsertRow => view' = view
    BY DEF WriteStateChange, PublishStateChange, InsertRow, apiVars
  <2>5. ~NewStateStore /\ ~Run
    BY <1>1 DEF NewStateStore, Run, ReadInv
  <2>6. Read \/ NoAnswer => view' = view
    BY DEF Read, NoAnswer, apiVars
  <2>7. ASSUME Handle PROVE view'.age <= view.age
    <3>1. /\ api = "running" /\ reader.waiting /\ reader.next < Len(log)
          /\ view' = log[reader.next + 1]
      BY <2>7 DEF Handle, applyStateChange
    <3>2. reader.next + 1 \in 1 .. Len(log) /\ reader.next + 1 > reader.next
      BY <2>t, <3>1, Types
    <3> QED BY <1>1, <3>1, <3>2 DEF ReadInv, NothingOlderAhead
  <2>8. ASSUME NEW st \in State \ {"UNKNOWN"}, HandleMetric(st)
        PROVE  view'.age <= view.age
    <3> DEFINE m == [st |-> st, age |-> MaxAge]
    <3>1. IF view.st = Blank THEN view' = m ELSE view' = view
      BY <2>8, Zenon DEF HandleMetric, applyMetric, Blank
    <3>2. view.st = Blank => view.age = MaxAge
      BY <1>1 DEF ReadInv, BlankIsOld
    <3> QED BY <2>1, <3>1, <3>2
  <2>9. UNCHANGED vars => view' = view
    BY DEF vars, apiVars
  <2> QED BY <1>1, <2>2, <2>3, <2>4, <2>5, <2>6, <2>7, <2>8, <2>9 DEF Next, PollStep
<1>2. ReadInv /\ [Next]_vars
        => [seeded /\ seeded' /\ fsm' = fsm => view'.age <= view.age]_vars
  BY <1>1
<1> QED BY <1>2, ReadInvHolds, PTL DEF Spec, NeverBackwards
=============================================================================
