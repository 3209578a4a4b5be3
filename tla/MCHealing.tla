----------------------------- MODULE MCHealing -----------------------------
(* Instances of Healing: a slow action before the fallback.                *)
EXTENDS Healing, TLC

RestartThenFallback == <<"restart", "fallback">>
=============================================================================
