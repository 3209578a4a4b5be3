---------------------------- MODULE OutageNotice ----------------------------
(***************************************************************************)
(* What the alerting of one service promises, whatever the states, the     *)
(* rules and the suppression are: an outage is announced when it begins,   *)
(* may be announced to more channels while it lasts, and when it ends      *)
(* every channel it was announced to is told, all of them at once.         *)
(***************************************************************************)
CONSTANT Audience   \* the channels that can be told anything

VARIABLES
  outage,    \* is there one?
  alerted    \* the channels whose last notice said so

vars == <<outage, alerted>>

Init == outage = FALSE /\ alerted = {}

Begin ==
  /\ ~outage
  /\ outage' = TRUE
  /\ alerted' \in SUBSET Audience

Worsen ==
  /\ outage
  /\ alerted' \in SUBSET Audience
  /\ alerted \subseteq alerted'
  /\ UNCHANGED outage

End ==
  /\ outage
  /\ outage' = FALSE
  /\ alerted' = {}

Next == Begin \/ Worsen \/ End

Spec == Init /\ [][Next]_vars
=============================================================================
