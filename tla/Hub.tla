--------------------------------- MODULE Hub ---------------------------------
(***************************************************************************)
(* The WebSocket hub (apps/api/websocket/hub.go) with the goroutines around *)
(* it: the broadcaster's subscribers, which enqueue messages; Run, the one  *)
(* goroutine that owns the set of clients; the handler of each connection   *)
(* (ServeWS in vroadcaster.go), which joins, pumps messages to the browser  *)
(* and unregisters; and a goroutine for every message a slow client had no  *)
(* room for, which asks for its removal.  All channels are bounded, a send  *)
(* on a full one waits, and a second close of a channel panics.             *)
(*                                                                          *)
(* Messages are numbered in the order in which they are broadcast.  A       *)
(* browser reads as it likes: a write may fail or take long.                *)
(***************************************************************************)
EXTENDS Naturals, Sequences

CONSTANTS
  Clients,        \* connections
  RegisterCap,    \* capacity of register, and of unregister
  BroadcastCap,   \* capacity of broadcast
  SendCap,        \* capacity of a client's Send
  MaxMessages     \* bound: messages broadcast

ASSUME HubAssumption ==
  /\ RegisterCap \in Nat \ {0}
  /\ BroadcastCap \in Nat \ {0}
  /\ SendCap \in Nat \ {0}
  /\ MaxMessages \in Nat

VARIABLES
  run,         \* the goroutine of Run
  stopping,    \* is the server's context cancelled?
  clients,     \* the hub's members
  register,    \* channels, oldest entry first
  unregister,
  broadcast,
  conn,        \* where each connection's handler is
  send,        \* each client's Send: what it holds, and whether it is closed
  dropping,    \* goroutines that wait to unregister a client
  sent,        \* messages broadcast so far
  handed,      \* history: the messages Run has handed out
  joined,      \* history: how many of them before the client was a member
  got          \* history: what was written to the browser

channels == <<register, unregister, broadcast>>
history  == <<handed, joined, got>>
vars     == <<run, stopping, clients, channels, conn, send, dropping, sent, history>>

Messages == 1 .. MaxMessages

Init ==
  /\ run = "running"
  /\ stopping = FALSE
  /\ clients = {}
  /\ register = <<>>
  /\ unregister = <<>>
  /\ broadcast = <<>>
  /\ conn = [c \in Clients |-> "new"]
  /\ send = [c \in Clients |-> [buf |-> <<>>, closed |-> FALSE]]
  /\ dropping = [c \in Clients |-> 0]
  /\ sent = 0
  /\ handed = <<>>
  /\ joined = [c \in Clients |-> 0]
  /\ got = [c \in Clients |-> <<>>]

-----------------------------------------------------------------------------
\* The goroutines around the hub.

\* A full broadcast channel drops the message for everyone.
Broadcast ==
  /\ sent < MaxMessages
  /\ ~stopping
  /\ sent' = sent + 1
  /\ broadcast' = IF Len(broadcast) < BroadcastCap THEN Append(broadcast, sent') ELSE broadcast
  /\ UNCHANGED <<run, stopping, clients, register, unregister, conn, send, dropping, history>>

\* The upgrade has succeeded; the send to register waits for room.
NewClient(c) ==
  /\ conn[c] = "new"
  /\ Len(register) < RegisterCap
  /\ register' = Append(register, c)
  /\ conn' = [conn EXCEPT ![c] = "pumping"]
  /\ UNCHANGED <<run, stopping, clients, unregister, broadcast, send, dropping, sent, history>>

\* ServeWS's loop takes a message and writes it, or fails to.
Pump(c) ==
  /\ conn[c] = "pumping"
  /\ send[c].buf # <<>>
  /\ send' = [send EXCEPT ![c].buf = Tail(@)]
  /\ \/ got' = [got EXCEPT ![c] = Append(@, Head(send[c].buf))] /\ UNCHANGED conn
     \/ conn' = [conn EXCEPT ![c] = "leaving"] /\ UNCHANGED got
  /\ UNCHANGED <<run, stopping, clients, channels, dropping, sent, handed, joined>>

\* done and an empty closed Send both end the loop; they are closed together.
\* done may be seen first, and what Send still holds is then not written.
SeeClosed(c) ==
  /\ conn[c] = "pumping"
  /\ send[c].closed
  /\ conn' = [conn EXCEPT ![c] = "leaving"]
  /\ UNCHANGED <<run, stopping, clients, channels, send, dropping, sent, history>>

\* A send to unregister, by the handler or by a dropper.
Enqueue(c) ==
  /\ Len(unregister) < RegisterCap
  /\ unregister' = Append(unregister, c)
  /\ UNCHANGED <<run, stopping, clients, register, broadcast, send, sent, history>>

Unregister(c) ==
  /\ conn[c] = "leaving"
  /\ conn' = [conn EXCEPT ![c] = "gone"]
  /\ Enqueue(c)
  /\ UNCHANGED dropping

Drop(c) ==
  /\ dropping[c] > 0
  /\ dropping' = [dropping EXCEPT ![c] = @ - 1]
  /\ Enqueue(c)
  /\ UNCHANGED conn

-----------------------------------------------------------------------------
\* The cases of Run's select.

\* Mutant: the clients are forgotten, and their channels stay open.
Closed_Nobody(S) == send

\* c.Close() and close(c.Send) for every client of S.
Closed(S) == [c \in Clients |-> [send[c] EXCEPT !.closed = @ \/ c \in S]]

\* A second close, and a send after the first, panic.
After(S, next) == IF \E c \in S : send[c].closed THEN "panicked" ELSE next

Join ==
  /\ run = "running"
  /\ register # <<>>
  /\ LET c == Head(register) IN
     /\ clients' = clients \cup {c}
     /\ joined' = [joined EXCEPT ![c] = Len(handed)]
  /\ register' = Tail(register)
  /\ UNCHANGED <<run, stopping, unregister, broadcast, conn, send, dropping, sent, handed, got>>

\* Mutant: the map is not asked.
Removed_Anyway(c) == {c}

\* Only a member is removed: both the handler and the droppers ask.
Removed(c) == clients \cap {c}

Remove ==
  /\ run = "running"
  /\ unregister # <<>>
  /\ LET gone == Removed(Head(unregister)) IN
     /\ clients' = clients \ gone
     /\ send' = Closed(gone)
     /\ run' = After(gone, run)
  /\ unregister' = Tail(unregister)
  /\ UNCHANGED <<stopping, register, broadcast, conn, dropping, sent, history>>

HasRoom(c) == Len(send[c].buf) < SendCap

\* Mutant: who has no room misses the message and stays.
Dropped_Skipped(c) == 0

\* How many droppers a message that c has no room for starts.
Dropped(c) == 1

Deliver ==
  /\ run = "running"
  /\ broadcast # <<>>
  /\ broadcast' = Tail(broadcast)
  /\ handed' = Append(handed, Head(broadcast))
  /\ send' = [c \in Clients |->
       IF c \in clients /\ HasRoom(c)
         THEN [send[c] EXCEPT !.buf = Append(@, Head(broadcast))]
         ELSE send[c]]
  /\ dropping' = [c \in Clients |->
       dropping[c] + IF c \in clients /\ ~HasRoom(c) THEN Dropped(c) ELSE 0]
  /\ run' = After(clients, run)
  /\ UNCHANGED <<stopping, clients, register, unregister, conn, sent, joined, got>>

\* Run returns; what is in the channels stays there.
Shutdown ==
  /\ run = "running"
  /\ stopping
  /\ run' = After(clients, "stopped")
  /\ clients' = {}
  /\ send' = Closed(clients)
  /\ UNCHANGED <<stopping, channels, conn, dropping, sent, history>>

CancelContext ==
  /\ ~stopping
  /\ stopping' = TRUE
  /\ UNCHANGED <<run, clients, channels, conn, send, dropping, sent, history>>

ClientStep(c) == NewClient(c) \/ Pump(c) \/ SeeClosed(c) \/ Unregister(c) \/ Drop(c)

Next ==
  \/ Broadcast
  \/ \E c \in Clients : ClientStep(c)
  \/ Join \/ Remove \/ Deliver \/ Shutdown
  \/ CancelContext

Spec == Init /\ [][Next]_vars

\* Run's select takes every case that stays ready sooner or later, a write to
\* a browser ends within its deadline, and whoever waits for room in a channel
\* gets it in turn.
FairSpec ==
  /\ Spec
  /\ WF_vars(Join) /\ WF_vars(Remove) /\ WF_vars(Deliver) /\ WF_vars(Shutdown)
  /\ \A c \in Clients : WF_vars(Pump(c) \/ SeeClosed(c)) /\ SF_vars(Drop(c))

-----------------------------------------------------------------------------

TypeOK ==
  /\ run \in {"running", "stopped", "panicked"}
  /\ stopping \in BOOLEAN
  /\ clients \in SUBSET Clients
  /\ register \in Seq(Clients) /\ Len(register) <= RegisterCap
  /\ unregister \in Seq(Clients) /\ Len(unregister) <= RegisterCap
  /\ broadcast \in Seq(Messages) /\ Len(broadcast) <= BroadcastCap
  /\ conn \in [Clients -> {"new", "pumping", "leaving", "gone"}]
  /\ send \in [Clients -> [buf : Seq(Messages), closed : BOOLEAN]]
  /\ \A c \in Clients : Len(send[c].buf) <= SendCap
  /\ dropping \in [Clients -> 0 .. MaxMessages]
  /\ sent \in 0 .. MaxMessages
  /\ handed \in Seq(Messages)
  /\ joined \in [Clients -> 0 .. MaxMessages]
  /\ got \in [Clients -> Seq(Messages)]

\* Somebody has asked, or is about to ask, for c's removal.
Departing(c) ==
  dropping[c] > 0 \/ conn[c] # "pumping" \/ \E i \in DOMAIN unregister : unregister[i] = c

\* A client that nobody is removing has missed nothing since it joined: it was
\* sent, or its channel holds, every message the hub handed out, in order.  A
\* slow client is dropped, not left with a gap (hub.go:10-12, 114-125).
NoSilentGap ==
  \A c \in clients :
    ~Departing(c) => got[c] \o send[c].buf = SubSeq(handed, joined[c] + 1, Len(handed))

\* No channel is closed twice or sent to after it was closed, although the
\* handler of a connection, the droppers of its messages and the shutdown may
\* all ask for its removal (hub.go:104-112).
NeverPanics == run # "panicked"

\* A member that was too slow, or is there when the server stops, is let go:
\* its handler comes to its end and does not wait for messages for ever
\* (hub.go:88-94, 118-121).
MembersLeave ==
  \A c \in Clients :
    (c \in clients /\ (stopping \/ dropping[c] > 0)) ~> (conn[c] \in {"leaving", "gone"})
=============================================================================
