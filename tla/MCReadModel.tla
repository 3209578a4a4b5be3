---------------------------- MODULE MCReadModel ----------------------------
(* ReadModel has integer constants only; the configurations instantiate it. *)
EXTENDS ReadModel, TLC
=============================================================================
