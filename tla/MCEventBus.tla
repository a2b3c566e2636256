---------------------------- MODULE MCEventBus -----------------------------
(* Small instance of EventBus: two sinks, a channel and batches of two, so *)
(* that the channel overflows and one drain does not empty it.             *)
EXTENDS EventBus
=============================================================================
