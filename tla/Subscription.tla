---------------------------- MODULE Subscription ----------------------------
(***************************************************************************)
(* One reader of a command stream: Bus.Subscribe (events/bus.go) from "$". *)
(* XADD hands a command to whoever is already past its place in the        *)
(* stream.  A subscriber that has read nothing yet has no place: each of   *)
(* its XREADs asks for what is added from then on, so what is added while  *)
(* it is not asking is never seen, and neither is the answer of an XREAD   *)
(* that fails.  Once it has read a message it has a place (`anchored') and *)
(* misses nothing.  The streams keep at least 1000 commands, so trimming   *)
(* is left out.                                                            *)
(***************************************************************************)
LOCAL INSTANCE Sequences

\* anchored: lastID is a message's; waiting: an XREAD is on; queue: the
\* commands it will be handed, oldest first.
Subscriber(anchored, waiting, queue) ==
  [anchored |-> anchored, waiting |-> waiting, queue |-> queue]

NewSubscriber == Subscriber(FALSE, FALSE, <<>>)

\* Will a command added now be read?
Hears(s) == s.anchored \/ s.waiting

\* XADD of a command.
Added(s, cmd) == IF Hears(s) THEN [s EXCEPT !.queue = Append(@, cmd)] ELSE s

\* XREAD is issued.
Asking(s) == [s EXCEPT !.waiting = TRUE]

\* Two seconds without an answer, or an error: "$" is asked for again.
AskedInVain(s) ==
  Subscriber(s.anchored, FALSE, IF s.anchored THEN s.queue ELSE <<>>)

\* The handler is called with the next command, whose ID becomes lastID.
Handled(s) == Subscriber(TRUE, s.waiting, Tail(s.queue))
=============================================================================
