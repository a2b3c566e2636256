---------------------------- MODULE MCCloudSink ----------------------------
(* Small instance of CloudSink: buffers of two, a channel of two and two   *)
(* attempts, so that buffers fill, time out, are repeated and are given up *)
(* while new events come in.                                               *)
EXTENDS CloudSink
=============================================================================
