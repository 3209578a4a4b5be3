---------------------------- MODULE MCIncidents ----------------------------
(* Integer constants only; the configuration instantiates them. *)
EXTENDS IncidentViews, TLC
=============================================================================
