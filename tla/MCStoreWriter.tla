--------------------------- MODULE MCStoreWriter ---------------------------
(* Small instance of StoreWriter: batches of two and a channel of two, so  *)
(* that both fill up, and enough events for two flushes and a shutdown     *)
(* with work left.                                                         *)
EXTENDS StoreWriter
=============================================================================
