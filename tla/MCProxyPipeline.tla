-------------------------- MODULE MCProxyPipeline --------------------------
(* Small instance of ProxyPipeline: one session, three tasks.  The first   *)
(* initializes the session or calls on it, the second calls on it in a     *)
(* batch, the third deletes it or repeats the call of the first.  The      *)
(* server answers each of them under any ids it likes, the DELETE with a   *)
(* JSON-RPC document too, so that duplicate and foreign ids, unknown       *)
(* sessions and late answers are all met.                                  *)
EXTENDS ProxyPipeline

CONSTANTS s1, r1, r2

MCUsesId == [s \in SessionIds |-> RequestIds]

Mcp(kind, rpcs, session, initialize) ==
  [kind |-> kind, rpcs |-> rpcs, session |-> session,
   initialize |-> initialize, close |-> FALSE]

Initialize == Mcp("mcp", <<r1>>, NoSession, TRUE)
Call == Mcp("mcp", <<r2>>, s1, FALSE)
Batch == Mcp("batch", <<r2, r1>>, s1, FALSE)
Delete == [kind |-> "http", rpcs |-> <<>>, session |-> s1,
           initialize |-> FALSE, close |-> TRUE]

MCMaxFrames == <<2, 0, 1>>

MCRequests == <<{Initialize, Call}, {Batch}, {Call, Delete}>>
=============================================================================
