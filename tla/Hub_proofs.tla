----------------------------- MODULE Hub_proofs -----------------------------
(***************************************************************************)
(* Module Hub for any number of connections and messages and every capacity *)
(* of the channels.                                                        *)
(***************************************************************************)
EXTENDS Hub, SequenceTheorems, TLAPS

\* Nothing is handed out, missed or counted twice.
Counted ==
  /\ Len(handed) + Len(broadcast) <= sent
  /\ \A c \in Clients : joined[c] <= Len(handed) /\ dropping[c] <= Len(handed)

HubTypes == TypeOK /\ Counted

Registering(c) == \E i \in DOMAIN register : register[i] = c

\* A client that is not a member yet was sent nothing, and nobody has closed
\* its channel.
Untouched(c) ==
  c \notin clients /\ send[c].buf = <<>> /\ ~send[c].closed /\ got[c] = <<>>

\* A client becomes a member at most once, and is one only while its channel
\* is open: it enters register once, and leaves it as it joins.
JoinsOnce ==
  /\ \A c \in clients : ~send[c].closed
  /\ \A c \in Clients : conn[c] = "new" \/ Registering(c) => Untouched(c)
  /\ \A c \in Clients : Registering(c) => conn[c] # "new"
  /\ \A i, j \in DOMAIN register : register[i] = register[j] => i = j

HubInv == HubTypes /\ JoinsOnce /\ NeverPanics /\ NoSilentGap

-----------------------------------------------------------------------------
\* Sequences.

LEMMA AppendHeadToTail ==
  ASSUME NEW S, NEW g \in Seq(S), NEW b \in Seq(S), b # <<>>
  PROVE  Append(g, Head(b)) \o Tail(b) = g \o b
<1>1. Head(b) \in S /\ Tail(b) \in Seq(S) /\ <<Head(b)>> \in Seq(S)
  BY HeadTailProperties
<1>2. Append(g, Head(b)) = g \o <<Head(b)>>
  BY <1>1, AppendIsConcat
<1>3. <<Head(b)>> \o Tail(b) = b
  BY <1>1, HeadTailProperties, ConcatProperties, SeqEqual
<1> QED BY <1>1, <1>2, <1>3, ConcatAssociative

LEMMA ConcatAppend ==
  ASSUME NEW S, NEW g \in Seq(S), NEW b \in Seq(S), NEW m \in S
  PROVE  g \o Append(b, m) = (g \o b) \o <<m>>
<1>1. Append(b, m) = b \o <<m>> /\ <<m>> \in Seq(S)
  BY AppendIsConcat
<1> QED BY <1>1, ConcatAssociative

LEMMA SubSeqOfAppend ==
  ASSUME NEW S, NEW h \in Seq(S), NEW m \in S, NEW j \in 0 .. Len(h)
  PROVE  SubSeq(Append(h, m), j + 1, Len(Append(h, m))) = SubSeq(h, j + 1, Len(h)) \o <<m>>
<1> DEFINE hm == Append(h, m)
<1>1. Len(h) \in Nat /\ <<m>> \in Seq(S) /\ hm \in Seq(S) /\ Len(hm) = Len(h) + 1
      /\ hm[Len(h) + 1] = m /\ hm = h \o <<m>>
  BY LenProperties, AppendProperties, AppendIsConcat
<1> HIDE DEF hm
<1>2. SubSeq(hm, j + 1, Len(hm)) = SubSeq(hm, j + 1, Len(h)) \o <<m>>
  <2>1. j + 1 \in 1 .. Len(hm) /\ Len(hm) \in j + 1 .. Len(hm) /\ Len(hm) - 1 = Len(h)
    BY <1>1
  <2> QED BY <1>1, <2>1, SubSeqRecursiveSecond
<1>3. SubSeq(hm, j + 1, Len(h)) = SubSeq(h, j + 1, Len(h))
  <2>1. CASE j = Len(h)
    BY <1>1, <2>1, SubSeqEmpty
  <2>2. CASE j < Len(h)
    BY <1>1, <2>2, SubSeqOfConcat1
  <2> QED BY <1>1, <2>1, <2>2
<1> QED BY <1>2, <1>3 DEF hm

\* What a sequence holds once an entry is added or its first is taken.
LEMMA EntriesOfAppend ==
  ASSUME NEW S, NEW q \in Seq(S), NEW e \in S
  PROVE  /\ Append(q, e) \in Seq(S)
         /\ Len(Append(q, e)) = Len(q) + 1
         /\ DOMAIN q = 1 .. Len(q) /\ DOMAIN Append(q, e) = 1 .. Len(q) + 1
         /\ \A i \in DOMAIN q : Append(q, e)[i] = q[i]
         /\ Append(q, e)[Len(q) + 1] = e
  BY AppendProperties, LenProperties

LEMMA EntriesOfTail ==
  ASSUME NEW S, NEW q \in Seq(S), q # <<>>
  PROVE  /\ Tail(q) \in Seq(S)
         /\ Len(q) \in Nat \ {0} /\ Len(Tail(q)) = Len(q) - 1
         /\ DOMAIN q = 1 .. Len(q) /\ DOMAIN Tail(q) = 1 .. Len(q) - 1
         /\ \A i \in DOMAIN Tail(q) : i + 1 \in DOMAIN q /\ Tail(q)[i] = q[i + 1]
         /\ Head(q) = q[1] /\ Head(q) \in S
  BY HeadTailProperties, LenProperties, EmptySeq

-----------------------------------------------------------------------------
\* Types.

LEMMA HubTypesInit == Init => HubTypes
<1> SUFFICES ASSUME Init PROVE HubTypes
  OBVIOUS
<1> USE HubAssumption
<1>1. \A S : <<>> \in Seq(S) /\ Len(<<>>) = 0
  BY EmptySeq
<1>2. [buf |-> <<>>, closed |-> FALSE] \in [buf : Seq(Messages), closed : BOOLEAN]
  BY <1>1
<1>3. TypeOK
  <2> DEFINE fresh == [buf |-> <<>>, closed |-> FALSE]
  <2>1. send = [c \in Clients |-> fresh] /\ fresh.buf = <<>>
    BY DEF Init
  <2> HIDE DEF fresh
  <2>2. /\ send \in [Clients -> [buf : Seq(Messages), closed : BOOLEAN]]
        /\ \A c \in Clients : Len(send[c].buf) <= SendCap
    BY <1>1, <1>2, <2>1 DEF fresh
  <2>3. /\ register \in Seq(Clients) /\ Len(register) <= RegisterCap
        /\ unregister \in Seq(Clients) /\ Len(unregister) <= RegisterCap
        /\ broadcast \in Seq(Messages) /\ Len(broadcast) <= BroadcastCap
        /\ handed \in Seq(Messages) /\ got \in [Clients -> Seq(Messages)]
    BY <1>1 DEF Init
  <2>4. /\ run \in {"running", "stopped", "panicked"} /\ stopping \in BOOLEAN
        /\ clients \in SUBSET Clients /\ sent \in 0 .. MaxMessages
        /\ conn \in [Clients -> {"new", "pumping", "leaving", "gone"}]
        /\ dropping \in [Clients -> 0 .. MaxMessages]
        /\ joined \in [Clients -> 0 .. MaxMessages]
    <3>1. 0 \in 0 .. MaxMessages
      OBVIOUS
    <3>2. run = "running" /\ stopping = FALSE /\ clients = {} /\ sent = 0
      BY DEF Init
    <3>3. /\ conn = [c \in Clients |-> "new"] /\ dropping = [c \in Clients |-> 0]
          /\ joined = [c \in Clients |-> 0]
      BY DEF Init
    <3> QED BY <3>1, <3>2, <3>3
  <2> QED BY <2>2, <2>3, <2>4 DEF TypeOK
<1>4. Counted
  BY <1>1 DEF Init, Counted
<1> QED BY <1>3, <1>4 DEF HubTypes

LEMMA HubTypesStep == HubTypes /\ [Next]_vars => HubTypes'
<1> SUFFICES ASSUME HubTypes, [Next]_vars PROVE HubTypes'
  OBVIOUS
<1> USE HubAssumption
<1>t. TypeOK /\ Counted
  BY DEF HubTypes
<1>d. /\ dropping \in [Clients -> 0 .. MaxMessages]
      /\ \A c \in Clients : dropping[c] <= Len(handed)
  BY <1>t DEF TypeOK, Counted
<1>s. \A c \in Clients : /\ send[c].buf \in Seq(Messages) /\ send[c].closed \in BOOLEAN
                         /\ Len(send[c].buf) \in Nat /\ Len(send[c].buf) <= SendCap
  BY <1>t, LenProperties DEF TypeOK
<1>n. /\ Len(handed) \in Nat /\ Len(broadcast) \in Nat /\ Len(register) \in Nat
      /\ Len(unregister) \in Nat
  BY <1>t, LenProperties DEF TypeOK
<1>1. CASE Broadcast
  <2>1. sent' = sent + 1 /\ sent' \in Messages /\ sent' \in 0 .. MaxMessages
    BY <1>1, <1>t DEF Broadcast, TypeOK, Messages
  <2>2. /\ broadcast' \in Seq(Messages) /\ Len(broadcast') <= BroadcastCap
        /\ Len(broadcast') <= Len(broadcast) + 1 /\ Len(broadcast') \in Nat
    BY <1>1, <1>t, <1>n, <2>1, EntriesOfAppend DEF Broadcast, TypeOK
  <2>3. UNCHANGED <<run, stopping, clients, register, unregister, conn, send, dropping,
                    handed, joined, got>>
    BY <1>1 DEF Broadcast, history
  <2> QED BY <1>t, <1>n, <2>1, <2>2, <2>3 DEF HubTypes, TypeOK, Counted
<1>2. ASSUME NEW c \in Clients, NewClient(c) PROVE HubTypes'
  <2>1. register' \in Seq(Clients) /\ Len(register') <= RegisterCap
    BY <1>2, <1>t, <1>n, EntriesOfAppend DEF NewClient, TypeOK
  <2>2. conn' \in [Clients -> {"new", "pumping", "leaving", "gone"}]
    BY <1>2, <1>t DEF NewClient, TypeOK
  <2>3. UNCHANGED <<run, stopping, clients, unregister, broadcast, send, dropping, sent,
                    handed, joined, got>>
    BY <1>2 DEF NewClient, history
  <2> QED BY <1>t, <2>1, <2>2, <2>3 DEF HubTypes, TypeOK, Counted
<1>3. ASSUME NEW c \in Clients, Pump(c) PROVE HubTypes'
  <2>1. /\ Tail(send[c].buf) \in Seq(Messages) /\ Head(send[c].buf) \in Messages
        /\ Len(Tail(send[c].buf)) <= SendCap
    BY <1>3, <1>s, EntriesOfTail DEF Pump
  <2> DEFINE after == [send[c] EXCEPT !.buf = Tail(@)]
  <2>6. /\ after \in [buf : Seq(Messages), closed : BOOLEAN]
        /\ after.buf = Tail(send[c].buf)
    BY <1>t, <2>1 DEF TypeOK
  <2>7. send' = [send EXCEPT ![c] = after]
    BY <1>3 DEF Pump
  <2> HIDE DEF after
  <2>2. /\ send' \in [Clients -> [buf : Seq(Messages), closed : BOOLEAN]]
        /\ \A d \in Clients : Len(send'[d].buf) <= SendCap
    BY <1>t, <1>s, <2>1, <2>6, <2>7 DEF TypeOK
  <2>3. got[c] \in Seq(Messages) /\ Append(got[c], Head(send[c].buf)) \in Seq(Messages)
    BY <1>t, <2>1, AppendProperties DEF TypeOK
  <2>4. /\ got' \in [Clients -> Seq(Messages)]
        /\ conn' \in [Clients -> {"new", "pumping", "leaving", "gone"}]
    BY <1>3, <1>t, <2>3 DEF Pump, TypeOK
  <2>5. UNCHANGED <<run, stopping, clients, register, unregister, broadcast, dropping, sent,
                    handed, joined>>
    BY <1>3 DEF Pump, channels
  <2> QED BY <1>t, <2>2, <2>4, <2>5 DEF HubTypes, TypeOK, Counted
<1>4. ASSUME NEW c \in Clients, SeeClosed(c) PROVE HubTypes'
  BY <1>4, <1>t DEF SeeClosed, channels, history, HubTypes, TypeOK, Counted
<1>5. ASSUME NEW c \in Clients, Unregister(c) \/ Drop(c) PROVE HubTypes'
  <2>1. unregister' \in Seq(Clients) /\ Len(unregister') <= RegisterCap
    <3>1. Len(unregister) < RegisterCap /\ unregister' = Append(unregister, c)
      BY <1>5 DEF Unregister, Drop, Enqueue
    <3> QED BY <1>t, <1>n, <3>1, EntriesOfAppend DEF TypeOK
  <2>2. conn' \in [Clients -> {"new", "pumping", "leaving", "gone"}]
    BY <1>5, <1>t DEF Unregister, Drop, TypeOK
  <2>3. /\ dropping' \in [Clients -> 0 .. MaxMessages]
        /\ \A d \in Clients : dropping'[d] <= dropping[d]
    <3>1. CASE Unregister(c)
      BY <3>1, <1>t DEF Unregister, TypeOK
    <3>2. CASE Drop(c)
      <4>1. dropping[c] - 1 \in 0 .. MaxMessages /\ dropping[c] - 1 <= dropping[c]
        BY <3>2, <1>t DEF Drop, TypeOK
      <4>2. dropping' = [dropping EXCEPT ![c] = dropping[c] - 1]
        BY <3>2 DEF Drop
      <4> QED BY <1>d, <4>1, <4>2
    <3> QED BY <1>5, <3>1, <3>2
  <2>4. UNCHANGED <<run, stopping, clients, register, broadcast, send, sent,
                    handed, joined, got>>
    BY <1>5 DEF Unregister, Drop, Enqueue, history
  <2>5. \A d \in Clients : dropping'[d] <= Len(handed)
    BY <1>d, <1>n, <2>3
  <2> QED BY <1>t, <2>1, <2>2, <2>3, <2>4, <2>5 DEF HubTypes, TypeOK, Counted
<1>6. CASE Join
  <2>1. register' \in Seq(Clients) /\ Len(register') <= RegisterCap /\ Head(register) \in Clients
    BY <1>6, <1>t, <1>n, EntriesOfTail DEF Join, TypeOK
  <2>2. clients' \in SUBSET Clients
    BY <1>6, <1>t, <2>1 DEF Join, TypeOK
  <2>3. Len(handed) \in 0 .. MaxMessages
    BY <1>t, <1>n DEF TypeOK, Counted
  <2>4. /\ joined' \in [Clients -> 0 .. MaxMessages]
        /\ \A d \in Clients : joined'[d] <= Len(handed)
    <3>1. joined' = [joined EXCEPT ![Head(register)] = Len(handed)]
      BY <1>6 DEF Join
    <3>2. \A d \in Clients : joined'[d] = joined[d] \/ joined'[d] = Len(handed)
      BY <1>t, <2>1, <3>1 DEF TypeOK
    <3>3. joined' \in [Clients -> 0 .. MaxMessages]
      BY <1>t, <2>1, <2>3, <3>1 DEF TypeOK
    <3> QED BY <1>t, <1>n, <3>2, <3>3 DEF Counted
  <2>5. UNCHANGED <<run, stopping, unregister, broadcast, conn, send, dropping, sent, handed, got>>
    BY <1>6 DEF Join
  <2> QED BY <1>t, <2>1, <2>2, <2>4, <2>5 DEF HubTypes, TypeOK, Counted
<1>7. ASSUME NEW S \in SUBSET Clients, send' = Closed(S)
      PROVE  /\ send' \in [Clients -> [buf : Seq(Messages), closed : BOOLEAN]]
             /\ \A d \in Clients : Len(send'[d].buf) <= SendCap
  <2> DEFINE Buffer == [buf : Seq(Messages), closed : BOOLEAN]
             shut(d) == [send[d] EXCEPT !.closed = @ \/ d \in S]
  <2>1. ASSUME NEW d \in Clients
        PROVE  shut(d) \in Buffer /\ shut(d).buf = send[d].buf
    BY <1>t DEF TypeOK
  <2>2. send' = [d \in Clients |-> shut(d)]
    BY <1>7 DEF Closed
  <2> HIDE DEF Buffer, shut
  <2>3. send' \in [Clients -> Buffer] /\ \A d \in Clients : send'[d].buf = send[d].buf
    BY <2>1, <2>2
  <2> QED BY <1>s, <2>3 DEF Buffer
<1>8. CASE Remove
  <2>1. unregister' \in Seq(Clients) /\ Len(unregister') <= RegisterCap
    BY <1>8, <1>t, <1>n, EntriesOfTail DEF Remove, TypeOK
  <2> DEFINE gone == Removed(Head(unregister))
  <2>2. gone \in SUBSET Clients
    BY <1>t DEF Removed, TypeOK
  <2>3. clients' \in SUBSET Clients
    BY <1>8, <1>t DEF Remove, TypeOK
  <2>4. /\ send' \in [Clients -> [buf : Seq(Messages), closed : BOOLEAN]]
        /\ \A d \in Clients : Len(send'[d].buf) <= SendCap
    BY <1>7, <1>8, <2>2 DEF Remove
  <2>5. run' \in {"running", "stopped", "panicked"}
    BY <1>8 DEF Remove, After
  <2>6. UNCHANGED <<stopping, register, broadcast, conn, dropping, sent, handed, joined, got>>
    BY <1>8 DEF Remove, history
  <2> QED BY <1>t, <2>1, <2>3, <2>4, <2>5, <2>6 DEF HubTypes, TypeOK, Counted
<1>9. CASE Deliver
  <2> DEFINE m == Head(broadcast)
  <2>1. /\ m \in Messages /\ broadcast' \in Seq(Messages)
        /\ Len(broadcast') = Len(broadcast) - 1 /\ Len(broadcast) # 0
    BY <1>9, <1>t, <1>n, EntriesOfTail DEF Deliver, TypeOK
  <2>2. handed' \in Seq(Messages) /\ Len(handed') = Len(handed) + 1
    BY <1>9, <1>t, <2>1, AppendProperties DEF Deliver, TypeOK
  <2>3. Len(handed') + Len(broadcast') <= sent /\ Len(handed') <= MaxMessages
    BY <1>t, <1>n, <2>1, <2>2 DEF TypeOK, Counted
  <2>4. \A c \in Clients : HasRoom(c) => /\ Append(send[c].buf, m) \in Seq(Messages)
                                         /\ Len(Append(send[c].buf, m)) <= SendCap
    BY <1>s, <2>1, AppendProperties DEF HasRoom
  <2>5. /\ send' \in [Clients -> [buf : Seq(Messages), closed : BOOLEAN]]
        /\ \A d \in Clients : Len(send'[d].buf) <= SendCap
    BY <1>9, <1>t, <1>s, <2>4 DEF Deliver, TypeOK
  <2>6. /\ dropping' \in [Clients -> 0 .. MaxMessages]
        /\ \A c \in Clients : dropping'[c] <= Len(handed')
    <3> DEFINE missed(c) == IF c \in clients /\ ~HasRoom(c) THEN Dropped(c) ELSE 0
    <3>1. dropping' = [c \in Clients |-> dropping[c] + missed(c)]
      BY <1>9 DEF Deliver
    <3>2. \A c \in Clients : missed(c) \in {0, 1}
      BY DEF Dropped
    <3> HIDE DEF missed
    <3>3. \A c \in Clients : dropping[c] \in Nat /\ dropping[c] <= Len(handed)
      BY <1>t DEF TypeOK, Counted
    <3>4. \A c \in Clients : dropping[c] + missed(c) \in 0 .. Len(handed')
      BY <1>n, <2>2, <3>2, <3>3
    <3>5. \A c \in Clients : dropping[c] + missed(c) \in 0 .. MaxMessages
      BY <1>n, <2>2, <2>3, <3>4
    <3> QED BY <3>1, <3>4, <3>5
  <2>7. \A c \in Clients : joined[c] <= Len(handed')
    BY <1>t, <1>n, <2>2 DEF TypeOK, Counted
  <2>8. run' \in {"running", "stopped", "panicked"} /\ Len(broadcast') <= BroadcastCap
    BY <1>9, <1>t, <1>n, <2>1 DEF Deliver, After, TypeOK
  <2>9. UNCHANGED <<stopping, clients, register, unregister, conn, sent, joined, got>>
    BY <1>9 DEF Deliver
  <2> QED BY <1>t, <2>1, <2>2, <2>3, <2>5, <2>6, <2>7, <2>8, <2>9 DEF HubTypes, TypeOK, Counted
<1>10. CASE Shutdown
  <2>1. /\ send' \in [Clients -> [buf : Seq(Messages), closed : BOOLEAN]]
        /\ \A d \in Clients : Len(send'[d].buf) <= SendCap
    BY <1>7, <1>10, <1>t DEF Shutdown, TypeOK
  <2>2. clients' \in SUBSET Clients /\ run' \in {"running", "stopped", "panicked"}
    BY <1>10 DEF Shutdown, After
  <2>3. UNCHANGED <<stopping, register, unregister, broadcast, conn, dropping, sent,
                    handed, joined, got>>
    BY <1>10 DEF Shutdown, channels, history
  <2> QED BY <1>t, <2>1, <2>2, <2>3 DEF HubTypes, TypeOK, Counted
<1>11. CASE CancelContext
  BY <1>11, <1>t DEF CancelContext, channels, history, HubTypes, TypeOK, Counted
<1>12. CASE UNCHANGED vars
  BY <1>12, <1>t DEF vars, channels, history, HubTypes, TypeOK, Counted
<1> QED BY <1>1, <1>2, <1>3, <1>4, <1>5, <1>6, <1>8, <1>9, <1>10, <1>11, <1>12
     DEF Next, ClientStep

-----------------------------------------------------------------------------
\* Membership.

LEMMA JoinsOnceStep ==
  HubTypes /\ JoinsOnce /\ NeverPanics /\ [Next]_vars => JoinsOnce' /\ NeverPanics'
<1> SUFFICES ASSUME HubTypes, JoinsOnce, NeverPanics, [Next]_vars
             PROVE  JoinsOnce' /\ NeverPanics'
  OBVIOUS
<1>t. /\ clients \in SUBSET Clients /\ register \in Seq(Clients)
      /\ unregister \in Seq(Clients) /\ broadcast \in Seq(Messages)
      /\ conn \in [Clients -> {"new", "pumping", "leaving", "gone"}]
      /\ send \in [Clients -> [buf : Seq(Messages), closed : BOOLEAN]]
      /\ got \in [Clients -> Seq(Messages)]
  BY DEF HubTypes, TypeOK
<1>j. /\ \A c \in clients : ~send[c].closed
      /\ \A c \in Clients : conn[c] = "new" \/ Registering(c) => Untouched(c)
      /\ \A c \in Clients : Registering(c) => conn[c] # "new"
      /\ \A i, j \in DOMAIN register : register[i] = register[j] => i = j
  BY DEF JoinsOnce
<1>p. \A S \in SUBSET clients : \A next : After(S, next) = next
  BY <1>j DEF After
\* What leaves register, the members and what they were sent alone.
<1>1. ASSUME UNCHANGED <<clients, register, send, got>>,
             \A c \in Clients : conn'[c] = "new" <=> conn[c] = "new"
      PROVE  JoinsOnce'
  BY <1>j, <1>1 DEF JoinsOnce, Registering, Untouched
<1>2. CASE Broadcast \/ CancelContext \/ UNCHANGED vars
  BY <1>1, <1>2 DEF Broadcast, CancelContext, vars, channels, history, NeverPanics
<1>3. ASSUME NEW c \in Clients, NewClient(c) PROVE JoinsOnce' /\ NeverPanics'
  <2>1. /\ conn[c] = "new" /\ register' = Append(register, c)
        /\ conn' = [conn EXCEPT ![c] = "pumping"]
        /\ UNCHANGED <<run, clients, send, got>>
    BY <1>3 DEF NewClient, history
  <2>2. ~Registering(c) /\ Untouched(c)
    BY <1>j, <2>1
  <2>7. /\ DOMAIN register' = 1 .. Len(register) + 1 /\ DOMAIN register = 1 .. Len(register)
        /\ Len(register) \in Nat /\ register'[Len(register) + 1] = c
        /\ \A i \in 1 .. Len(register) : register'[i] = register[i]
    BY <1>t, <2>1, EntriesOfAppend, LenProperties
  <2>3. \A d \in Clients : Registering(d)' <=> Registering(d) \/ d = c
    <3>1. DOMAIN register' = DOMAIN register \cup {Len(register) + 1}
      BY <2>7
    <3> QED BY <2>7, <3>1 DEF Registering
  <2>4. \A d \in Clients : conn'[d] = IF d = c THEN "pumping" ELSE conn[d]
    BY <1>t, <2>1
  <2>5. \A i, j \in DOMAIN register' : register'[i] = register'[j] => i = j
    <3>1. \A i \in 1 .. Len(register) : register[i] # c
      BY <2>2, <2>7 DEF Registering
    <3> QED BY <1>j, <2>7, <3>1
  <2>6. \A d \in Clients : Untouched(d)' <=> Untouched(d)
    BY <2>1 DEF Untouched
  <2> QED BY <1>j, <2>1, <2>2, <2>3, <2>4, <2>5, <2>6 DEF JoinsOnce, NeverPanics
<1>4. ASSUME NEW c \in Clients, Pump(c) PROVE JoinsOnce' /\ NeverPanics'
  <2>1. /\ conn[c] # "new" /\ send[c].buf # <<>>
        /\ send' = [send EXCEPT ![c].buf = Tail(@)]
        /\ UNCHANGED <<run, clients, register>>
        /\ \A d \in Clients \ {c} : got'[d] = got[d] /\ conn'[d] = conn[d]
        /\ conn'[c] # "new"
    BY <1>t, <1>4 DEF Pump, channels
  <2>2. ~Registering(c)
    BY <1>j, <2>1 DEF Untouched
  <2>3. /\ \A d \in Clients \ {c} : send'[d] = send[d]
        /\ \A d \in Clients : send'[d].closed = send[d].closed
    BY <1>t, <2>1
  <2>4. \A d \in Clients : Registering(d)' <=> Registering(d)
    BY <2>1 DEF Registering
  <2>5. \A d \in Clients \ {c} : Untouched(d)' <=> Untouched(d)
    BY <2>1, <2>3 DEF Untouched
  <2> QED BY <1>t, <1>j, <2>1, <2>2, <2>3, <2>4, <2>5 DEF JoinsOnce, NeverPanics
<1>5. ASSUME NEW c \in Clients, SeeClosed(c) \/ Unregister(c) \/ Drop(c)
      PROVE  JoinsOnce' /\ NeverPanics'
  <2>1. UNCHANGED <<run, clients, register, send, got>>
    BY <1>5 DEF SeeClosed, Unregister, Drop, Enqueue, channels, history
  <2>2. \A d \in Clients : conn'[d] = "new" <=> conn[d] = "new"
    <3>1. CASE SeeClosed(c)
      BY <1>t, <3>1 DEF SeeClosed
    <3>2. CASE Unregister(c)
      BY <1>t, <3>2 DEF Unregister
    <3>3. CASE Drop(c)
      BY <3>3 DEF Drop
    <3> QED BY <1>5, <3>1, <3>2, <3>3
  <2> QED BY <1>1, <2>1, <2>2 DEF NeverPanics
<1>6. CASE Join
  <2> DEFINE c == Head(register)
  <2>1. /\ register # <<>> /\ register' = Tail(register) /\ clients' = clients \cup {c}
        /\ UNCHANGED <<run, conn, send, got>>
    BY <1>6 DEF Join
  <2>2. /\ 1 \in DOMAIN register /\ c = register[1] /\ c \in Clients
        /\ \A i \in DOMAIN register' : /\ i + 1 \in DOMAIN register /\ i + 1 # 1
                                       /\ register'[i] = register[i + 1]
        /\ DOMAIN register' \subseteq Nat
    BY <1>t, <2>1, EntriesOfTail
  <2>3. Registering(c) /\ ~send[c].closed /\ conn[c] # "new"
    BY <1>j, <2>2 DEF Registering, Untouched
  <2>4. \A d \in Clients : Registering(d)' => Registering(d) /\ d # c
    BY <1>j, <2>2 DEF Registering
  <2>5. \A d \in Clients \ {c} : Untouched(d) => Untouched(d)'
    BY <2>1 DEF Untouched
  <2>6. \A i, j \in DOMAIN register' : register'[i] = register'[j] => i = j
    <3> SUFFICES ASSUME NEW i \in DOMAIN register', NEW j \in DOMAIN register',
                        register'[i] = register'[j]
                 PROVE  i = j
      OBVIOUS
    <3>1. i + 1 = j + 1
      BY <1>j, <2>2
    <3> QED BY <2>2, <3>1
  <2> HIDE DEF c
  <2> QED BY <1>j, <2>1, <2>3, <2>4, <2>5, <2>6 DEF JoinsOnce, NeverPanics
\* Run lets go of some of its members.
<1>7. ASSUME NEW S \in SUBSET clients, clients' = clients \ S, send' = Closed(S),
             UNCHANGED <<register, conn, got>>
      PROVE  JoinsOnce'
  <2>1. \A c \in Clients \ S : send'[c].closed = send[c].closed /\ send'[c].buf = send[c].buf
    BY <1>t, <1>7 DEF Closed
  <2>2. \A c \in Clients : Untouched(c) => Untouched(c)'
    BY <1>7, <2>1 DEF Untouched
  <2>3. \A c \in Clients : Registering(c)' <=> Registering(c)
    BY <1>7 DEF Registering
  <2> QED BY <1>t, <1>j, <1>7, <2>1, <2>2, <2>3 DEF JoinsOnce
<1>8. CASE Remove
  <2> DEFINE gone == Removed(Head(unregister))
  <2>1. /\ gone \in SUBSET clients /\ clients' = clients \ gone /\ send' = Closed(gone)
        /\ run' = After(gone, run) /\ UNCHANGED <<register, conn, got>>
    BY <1>8 DEF Remove, Removed, history
  <2> HIDE DEF gone
  <2> QED BY <1>7, <1>p, <2>1 DEF NeverPanics
<1>9. CASE Deliver
  <2>1. \A c \in Clients : send'[c].closed = send[c].closed /\ (c \notin clients => send'[c] = send[c])
    BY <1>t, <1>9 DEF Deliver
  <2>2. run' = run /\ UNCHANGED <<clients, register, conn, got>>
    BY <1>9, <1>p DEF Deliver
  <2>3. \A c \in Clients : Untouched(c) => Untouched(c)'
    BY <2>1, <2>2 DEF Untouched
  <2> QED BY <1>t, <1>j, <2>1, <2>2, <2>3 DEF JoinsOnce, Registering, NeverPanics
<1>10. CASE Shutdown
  <2>1. clients' = clients \ clients /\ send' = Closed(clients) /\ UNCHANGED <<register, conn, got>>
    BY <1>10 DEF Shutdown, channels, history
  <2>2. run' = "stopped"
    BY <1>10, <1>p DEF Shutdown
  <2> QED BY <1>7, <2>1, <2>2 DEF NeverPanics
<1> QED BY <1>2, <1>3, <1>4, <1>5, <1>6, <1>8, <1>9, <1>10 DEF Next, ClientStep

-----------------------------------------------------------------------------
\* What a member was sent.

Unregistering(c) == \E i \in DOMAIN unregister : unregister[i] = c

LEMMA NoSilentGapStep == HubInv /\ [Next]_vars => NoSilentGap'
<1> DEFINE Complete(c) == got[c] \o send[c].buf = SubSeq(handed, joined[c] + 1, Len(handed))
<1> SUFFICES ASSUME HubInv, [Next]_vars, NEW d \in clients', ~Departing(d)'
             PROVE  Complete(d)'
  BY DEF NoSilentGap
<1>t. /\ clients \in SUBSET Clients /\ register \in Seq(Clients)
      /\ unregister \in Seq(Clients) /\ broadcast \in Seq(Messages)
      /\ conn \in [Clients -> {"new", "pumping", "leaving", "gone"}]
      /\ send \in [Clients -> [buf : Seq(Messages), closed : BOOLEAN]]
      /\ got \in [Clients -> Seq(Messages)] /\ handed \in Seq(Messages)
      /\ dropping \in [Clients -> 0 .. MaxMessages]
      /\ joined \in [Clients -> 0 .. MaxMessages]
      /\ \A c \in Clients : joined[c] \in 0 .. Len(handed)
  BY LenProperties DEF HubInv, HubTypes, TypeOK, Counted
<1>d. /\ d \in Clients /\ dropping'[d] \in Nat /\ ~(dropping'[d] > 0)
      /\ conn'[d] = "pumping" /\ ~Unregistering(d)'
  <2>1. HubTypes'
    BY HubTypesStep DEF HubInv
  <2>2. clients' \in SUBSET Clients /\ dropping' \in [Clients -> 0 .. MaxMessages]
    BY <2>1 DEF HubTypes, TypeOK
  <2> QED BY <2>2 DEF Departing, Unregistering
<1>g. \A c \in clients : Departing(c) \/ Complete(c)
  BY DEF HubInv, NoSilentGap
<1>j. /\ \A c \in Clients : conn[c] = "new" \/ Registering(c) => Untouched(c)
  BY DEF HubInv, JoinsOnce
<1> HIDE DEF Complete
\* What leaves d and the hub's view of it alone.
<1>1. ASSUME d \in clients, conn[d] = "pumping", ~(dropping[d] > 0), ~Unregistering(d),
             got'[d] = got[d], send'[d].buf = send[d].buf, joined'[d] = joined[d],
             handed' = handed
      PROVE  Complete(d)'
  <2>1. Complete(d)
    BY <1>g, <1>1 DEF Departing, Unregistering
  <2> QED BY <1>1, <2>1 DEF Complete
<1>2. CASE Broadcast \/ CancelContext \/ UNCHANGED vars
  <2>1. UNCHANGED <<clients, conn, dropping, unregister, got, send, joined, handed>>
    BY <1>2 DEF Broadcast, CancelContext, vars, channels, history
  <2> QED BY <1>1, <1>d, <2>1 DEF Unregistering
<1>3. ASSUME NEW c \in Clients, NewClient(c) PROVE Complete(d)'
  <2>1. /\ conn[c] = "new" /\ conn' = [conn EXCEPT ![c] = "pumping"]
        /\ UNCHANGED <<clients, dropping, unregister, got, send, joined, handed>>
    BY <1>3 DEF NewClient, history
  <2>2. c # d
    BY <1>j, <2>1 DEF Untouched
  <2> QED BY <1>1, <1>d, <1>t, <2>1, <2>2 DEF Unregistering
<1>4. ASSUME NEW c \in Clients, Pump(c) PROVE Complete(d)'
  <2>1. /\ conn[c] = "pumping" /\ send[c].buf # <<>>
        /\ send' = [send EXCEPT ![c].buf = Tail(@)]
        /\ UNCHANGED <<clients, dropping, unregister, joined, handed>>
    BY <1>4 DEF Pump, channels
  <2>2. CASE c # d
    <3>1. got'[d] = got[d] /\ conn'[d] = conn[d] /\ send'[d] = send[d]
      BY <1>t, <1>d, <1>4, <2>1, <2>2 DEF Pump
    <3> QED BY <1>1, <1>d, <2>1, <3>1 DEF Unregistering
  <2>3. CASE c = d
    <3>1. got' = [got EXCEPT ![d] = Append(@, Head(send[d].buf))]
      BY <1>t, <1>d, <1>4, <2>3 DEF Pump
    <3>2. /\ got'[d] = Append(got[d], Head(send[d].buf))
          /\ send'[d].buf = Tail(send[d].buf)
      BY <1>t, <1>d, <2>1, <2>3, <3>1
    <3>3. send[d].buf \in Seq(Messages) /\ got[d] \in Seq(Messages)
      BY <1>t, <1>d
    <3>4. got'[d] \o send'[d].buf = got[d] \o send[d].buf
      BY <2>1, <2>3, <3>2, <3>3, AppendHeadToTail
    <3>5. Complete(d)
      BY <1>d, <1>g, <2>1, <2>3 DEF Departing, Unregistering
    <3> QED BY <2>1, <3>4, <3>5 DEF Complete
  <2> QED BY <2>2, <2>3
<1>5. ASSUME NEW c \in Clients, SeeClosed(c) PROVE Complete(d)'
  <2>1. /\ conn' = [conn EXCEPT ![c] = "leaving"]
        /\ UNCHANGED <<clients, dropping, unregister, got, send, joined, handed>>
    BY <1>5 DEF SeeClosed, channels, history
  <2>2. conn[d] = "pumping"
    BY <1>t, <1>d, <2>1
  <2> QED BY <1>1, <1>d, <2>1, <2>2 DEF Unregistering
<1>6. ASSUME NEW c \in Clients, Enqueue(c)
      PROVE  /\ c # d /\ ~Unregistering(d)
             /\ UNCHANGED <<clients, got, send, joined, handed>>
  <2>1. unregister' = Append(unregister, c) /\ UNCHANGED <<clients, got, send, joined, handed>>
    BY <1>6 DEF Enqueue, history
  <2>2. /\ Len(unregister) \in Nat /\ DOMAIN unregister = 1 .. Len(unregister)
        /\ DOMAIN unregister' = 1 .. Len(unregister) + 1
        /\ \A i \in DOMAIN unregister : unregister'[i] = unregister[i]
        /\ unregister'[Len(unregister) + 1] = c
    <3>1. unregister \in Seq(Clients)
      BY <1>t
    <3> QED BY <2>1, <3>1, EntriesOfAppend, LenProperties
  <2>3. \A i \in DOMAIN unregister' : unregister'[i] # d
    BY <1>d DEF Unregistering
  <2> QED BY <2>1, <2>2, <2>3 DEF Unregistering
<1>7. ASSUME NEW c \in Clients, Unregister(c) \/ Drop(c) PROVE Complete(d)'
  <2>1. /\ c # d /\ ~Unregistering(d) /\ UNCHANGED <<clients, got, send, joined, handed>>
    BY <1>6, <1>7 DEF Unregister, Drop
  <2>2. conn'[d] = conn[d] /\ dropping'[d] = dropping[d]
    BY <1>t, <1>d, <1>7, <2>1 DEF Unregister, Drop
  <2> QED BY <1>1, <1>d, <2>1, <2>2
<1>8. CASE Join
  <2> DEFINE c == Head(register)
  <2>1. /\ register # <<>> /\ clients' = clients \cup {c}
        /\ joined' = [joined EXCEPT ![c] = Len(handed)]
        /\ UNCHANGED <<conn, dropping, unregister, got, send, handed>>
    BY <1>8 DEF Join
  <2>2. c \in Clients /\ Registering(c)
    BY <1>t, <2>1, EntriesOfTail DEF Registering
  <2> HIDE DEF c
  <2>3. CASE c = d
    <3>1. got'[d] = <<>> /\ send'[d].buf = <<>> /\ joined'[d] = Len(handed) /\ handed' = handed
      BY <1>t, <1>j, <2>1, <2>2, <2>3 DEF Untouched
    <3>2. Len(handed) \in Nat
      BY <1>t, LenProperties
    <3>3. SubSeq(handed, Len(handed) + 1, Len(handed)) = <<>>
      BY <3>2, SubSeqEmpty
    <3>4. <<>> \o <<>> = <<>>
      BY EmptySeq, ConcatEmptySeq
    <3> QED BY <3>1, <3>3, <3>4 DEF Complete
  <2>4. CASE c # d
    <3>1. d \in clients /\ joined'[d] = joined[d]
      BY <1>t, <1>d, <2>1, <2>2, <2>4
    <3> QED BY <1>1, <1>d, <2>1, <3>1 DEF Unregistering
  <2> QED BY <2>3, <2>4
<1>9. CASE Remove
  <2> DEFINE gone == Removed(Head(unregister))
  <2>1. /\ unregister # <<>> /\ unregister' = Tail(unregister)
        /\ clients' = clients \ gone /\ send' = Closed(gone)
        /\ UNCHANGED <<conn, dropping, got, joined, handed>>
    BY <1>9 DEF Remove, history
  <2>2. d \in clients /\ d # Head(unregister)
    BY <2>1 DEF Removed
  <2>3. ~Unregistering(d)
    <3>1. /\ Len(unregister) \in Nat \ {0} /\ DOMAIN unregister = 1 .. Len(unregister)
          /\ DOMAIN unregister' = 1 .. Len(unregister) - 1
          /\ \A i \in DOMAIN unregister' : unregister'[i] = unregister[i + 1]
          /\ unregister[1] # d
      BY <1>t, <2>1, <2>2, EntriesOfTail
    <3>2. ASSUME NEW i \in DOMAIN unregister, unregister[i] = d PROVE FALSE
      <4>1. i - 1 \in DOMAIN unregister' /\ (i - 1) + 1 = i
        BY <3>1, <3>2
      <4>2. unregister'[i - 1] = d
        BY <3>1, <3>2, <4>1
      <4> QED BY <1>d, <4>1, <4>2 DEF Unregistering
    <3> QED BY <3>2 DEF Unregistering
  <2>4. send'[d].buf = send[d].buf
    BY <1>t, <1>d, <2>1 DEF Closed
  <2> QED BY <1>1, <1>d, <2>1, <2>2, <2>3, <2>4
<1>10. CASE Deliver
  <2> DEFINE m == Head(broadcast)
  <2>1. /\ broadcast # <<>> /\ handed' = Append(handed, m)
        /\ UNCHANGED <<clients, conn, unregister, got, joined>>
    BY <1>10 DEF Deliver
  <2>2. HasRoom(d) /\ dropping'[d] = dropping[d]
    <3>1. dropping'[d] = dropping[d] + IF d \in clients /\ ~HasRoom(d) THEN 1 ELSE 0
      BY <1>10, <1>d DEF Deliver, Dropped
    <3>2. dropping[d] \in Nat
      BY <1>t, <1>d
    <3> QED BY <1>d, <2>1, <3>1, <3>2
  <2>3. send'[d].buf = Append(send[d].buf, m)
    BY <1>t, <1>d, <1>10, <2>1, <2>2 DEF Deliver
  <2>4. Complete(d)
    BY <1>g, <1>d, <2>1, <2>2 DEF Departing, Unregistering
  <2>5. m \in Messages
    BY <1>t, <2>1, EntriesOfTail
  <2> HIDE DEF m
  <2>6. PICK g \in Seq(Messages), b \in Seq(Messages), j \in 0 .. Len(handed) :
          got[d] = g /\ send[d].buf = b /\ joined[d] = j
    BY <1>t, <1>d
  <2>7. g \o Append(b, m) = (g \o b) \o <<m>>
    BY <2>5, ConcatAppend
  <2>8. SubSeq(Append(handed, m), j + 1, Len(Append(handed, m)))
          = SubSeq(handed, j + 1, Len(handed)) \o <<m>>
    BY <1>t, <2>5, SubSeqOfAppend
  <2> QED BY <2>1, <2>3, <2>4, <2>6, <2>7, <2>8 DEF Complete
<1>11. CASE Shutdown
  BY <1>11 DEF Shutdown
<1> QED BY <1>2, <1>3, <1>4, <1>5, <1>7, <1>8, <1>9, <1>10, <1>11 DEF Next, ClientStep

-----------------------------------------------------------------------------

LEMMA HubInvInit == Init => HubInv
<1> SUFFICES ASSUME Init PROVE HubInv
  OBVIOUS
<1>1. JoinsOnce
  BY DEF Init, JoinsOnce, Registering, Untouched
<1>2. NeverPanics /\ NoSilentGap
  BY DEF Init, NeverPanics, NoSilentGap
<1> QED BY <1>1, <1>2, HubTypesInit DEF HubInv

LEMMA HubInvAlways == Spec => []HubInv
<1>1. HubInv /\ [Next]_vars => HubInv'
  BY HubTypesStep, JoinsOnceStep, NoSilentGapStep DEF HubInv
<1> QED BY <1>1, HubInvInit, PTL DEF Spec

\* The variables have their types: no channel holds more than its capacity.
THEOREM HubTyped == Spec => []TypeOK
<1>1. HubInv => TypeOK
  BY DEF HubInv, HubTypes
<1> QED BY <1>1, HubInvAlways, PTL

\* However many connections come and go, and whoever asks for their removal,
\* no channel is closed twice or sent to after it was closed (hub.go:86-126).
THEOREM HubNeverPanics == Spec => []NeverPanics
<1>1. HubInv => NeverPanics
  BY DEF HubInv
<1> QED BY <1>1, HubInvAlways, PTL

\* A member that nobody is removing was sent all that was handed out since it
\* joined, in order, whatever the capacities are (hub.go:114-125).
THEOREM HubNoSilentGap == Spec => []NoSilentGap
<1>1. HubInv => NoSilentGap
  BY DEF HubInv
<1> QED BY <1>1, HubInvAlways, PTL
=============================================================================
