---------------------------- MODULE McpMessages ----------------------------
(***************************************************************************)
(* JSON-RPC and MCP messages (protocol/mcp.rs) and the two classifications *)
(* of protocol/mod.rs: what an HTTP request of a client is, and what the   *)
(* answer of the upstream server is.                                       *)
(*                                                                         *)
(* A body is a JSON document, [t |-> "text"] for anything else, or         *)
(* [t |-> "frames", bytes |-> ...] for an event stream.  Only the members  *)
(* and types that decide something are told apart.                         *)
(***************************************************************************)
EXTENDS JsonValues, SseCodec, Lists

-----------------------------------------------------------------------------
(* Methods: the family that parse finds for a name, tried in this order.   *)
ClientMethods ==
  [Ping |-> {"ping"},
   Lifecycle |-> {"initialize"},
   Tools |-> {"tools/list", "tools/call"},
   Resources |-> {"resources/list", "resources/templates/list",
                  "resources/read", "resources/subscribe",
                  "resources/unsubscribe"},
   Prompts |-> {"prompts/list", "prompts/get"},
   Completion |-> {"completion/complete"},
   Logging |-> {"logging/setLevel"},
   Tasks |-> {"tasks/list", "tasks/get", "tasks/result", "tasks/cancel"}]

ParseClientMethod(name) ==
  LET families == {f \in DOMAIN ClientMethods : name \in ClientMethods[f]}
  IN  [family |-> IF families = {} THEN "Unknown" ELSE CHOOSE f \in families : TRUE,
       name |-> name]

(* as_str has no name for an unknown method; its serialization does. *)
WireName(method) == method.name

-----------------------------------------------------------------------------
(* Envelopes.  A request may have members beside these, a result may not.  *)
ValidVersion(doc) == Get(doc, "jsonrpc") = Str("2.0")
ValidId(doc) == Get(doc, "id").t \in {"int", "long", "string", "null"}

IsRequest(doc) ==
  /\ ValidVersion(doc)
  /\ ValidId(doc)
  /\ IsString(Get(doc, "method"))
  /\ None(Get(doc, "params")) \/ IsObject(Get(doc, "params"))

RequestOf(doc) == [id |-> Get(doc, "id"),
                   method |-> ParseClientMethod(Get(doc, "method").v),
                   params |-> Get(doc, "params")]

(* Serialization leaves an absent optional member out, null ones too. *)
Optional(key, v) == [k \in IF None(v) THEN {} ELSE {key} |-> v]

EncodeRequest(r) ==
  Obj(Joined([jsonrpc |-> Str("2.0"), id |-> r.id, method |-> Str(WireName(r.method))],
             Optional("params", r.params)))

IsResponse(doc) ==
  /\ ValidVersion(doc) /\ ValidId(doc)
  /\ DOMAIN doc.m \subseteq {"jsonrpc", "id", "result"}

IsJsonRpcError(v) == Get(v, "code").t = "int" /\ IsString(Get(v, "message"))

IsErrorResponse(doc) ==
  /\ ValidVersion(doc) /\ ValidId(doc)
  /\ DOMAIN doc.m = {"jsonrpc", "id", "error"}
  /\ IsJsonRpcError(Get(doc, "error"))

IsResult(doc) == IsResponse(doc) \/ IsErrorResponse(doc)

(* body is the result of a response, or the error. *)
ResultOf(doc) ==
  [id |-> Get(doc, "id"),
   kind |-> IF IsResponse(doc) THEN "response" ELSE "error",
   body |-> IF IsResponse(doc) THEN Get(doc, "result") ELSE Get(doc, "error")]

EncodeResult(r) ==
  Obj(Joined([jsonrpc |-> Str("2.0"), id |-> r.id],
             IF r.kind = "error" THEN [error |-> r.body] ELSE Optional("result", r.body)))

-----------------------------------------------------------------------------
(* What the requests say about themselves. *)
GetTool(r) ==
  IF r.method.name = "tools/call" THEN Get(r.params, "name") ELSE Missing

GetResourceUri(r) ==
  IF r.method.name \in {"resources/read", "resources/subscribe",
                        "resources/unsubscribe"}
  THEN Get(r.params, "uri") ELSE Missing

GetPrompt(r) ==
  IF r.method.name = "prompts/get" THEN Get(r.params, "name") ELSE Missing

(* clientInfo of an initialize request; without a name there is none. *)
ParseClientInfo(r) ==
  LET info == Get(r.params, "clientInfo")
  IN  IF IsString(Get(info, "name")) THEN info ELSE Missing

-----------------------------------------------------------------------------
(* Paths that are OAuth discovery rather than MCP (auth/types.rs). *)
OAuthPaths == {"/.well-known/oauth-protected-resource",
               "/.well-known/oauth-authorization-server",
               "/.well-known/openid-configuration",
               "/.well-known/jwks.json"}

IsJson(contentType) == contentType = "application/json"
IsEventStream(contentType) == contentType = "text/event-stream"

All(Pred(_), doc) == IsArray(doc) /\ \A i \in DOMAIN doc.items : Pred(doc.items[i])

(* Deviations a careless edit of the classification could introduce, here  *)
(* and below; not part of the specification.                               *)
FromAxumSkippingInvalid(http) ==
  IF IsJson(http.contentType) /\ IsArray(http.body)
  THEN [kind |-> "batch",
        rpcs |-> LET valid == SelectSeq(http.body.items, IsRequest)
                 IN  [i \in DOMAIN valid |-> RequestOf(valid[i])]]
  ELSE IF IsJson(http.contentType) /\ IsRequest(http.body)
  THEN [kind |-> "mcp", rpcs |-> <<RequestOf(http.body)>>]
  ELSE [kind |-> "http", rpcs |-> <<>>]

(* One invalid member makes the whole array ordinary HTTP; an array of no  *)
(* members is a batch.                                                     *)
FromAxum(http) ==
  IF http.path \in OAuthPaths THEN [kind |-> "oauth", rpcs |-> <<>>]
  ELSE IF IsJson(http.contentType) /\ All(IsRequest, http.body)
  THEN [kind |-> "batch",
        rpcs |-> [i \in DOMAIN http.body.items |-> RequestOf(http.body.items[i])]]
  ELSE IF IsJson(http.contentType) /\ IsRequest(http.body)
  THEN [kind |-> "mcp", rpcs |-> <<RequestOf(http.body)>>]
  ELSE [kind |-> "http", rpcs |-> <<>>]

-----------------------------------------------------------------------------
(* The results of an event stream: frames that hold anything else, such as *)
(* notifications and requests of the server, are dropped.  Line ends and   *)
(* spaces around a document do not matter.                                 *)
Parse(text) ==
  LET tokens == Only(text, ToSet(text) \ {LF, Space})
  IN  IF Len(tokens) = 1 THEN Head(tokens) ELSE [t |-> "text"]

ResultsOf(frames) ==
  LET texts == [i \in DOMAIN frames |-> Parse(frames[i])]
      docs == Only(texts, {d \in ToSet(texts) : IsResult(d)})
  IN  [i \in DOMAIN docs |-> ResultOf(docs[i])]

(* The answer of the upstream server, read to its end. *)
FromHyper(reply) ==
  LET streamed == IF reply.body.t = "frames"
                  THEN ResultsOf(DecodeFrames(reply.body.bytes)) ELSE <<>>
  IN  CASE IsJson(reply.contentType) /\ All(IsResult, reply.body) ->
             [kind |-> "batch",
              results |-> [i \in DOMAIN reply.body.items |->
                             ResultOf(reply.body.items[i])]]
        [] IsJson(reply.contentType) /\ IsResult(reply.body) ->
             [kind |-> "mcp", results |-> <<ResultOf(reply.body)>>]
        [] IsEventStream(reply.contentType) /\ streamed # <<>> ->
             [kind |-> IF Len(streamed) = 1 THEN "mcp" ELSE "batch",
              results |-> streamed]
        [] OTHER -> [kind |-> "http", results |-> <<>>]
=============================================================================
