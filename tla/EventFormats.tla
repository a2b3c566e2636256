---------------------------- MODULE EventFormats ----------------------------
(***************************************************************************)
(* What becomes of a finished exchange outside the gateway: its logging    *)
(* projection (event/types.rs, event/openai.rs), the envelopes the cloud   *)
(* gets (wire.rs) and the line on stderr (sinks/stderr_sink.rs).           *)
(*                                                                         *)
(* A request is what module McpMessages classifies plus its HTTP request   *)
(* http; a response is [kind, results, parts], parts the upstream's status *)
(* and headers; NoResponse is the missing half of an exchange that failed. *)
(***************************************************************************)
EXTENDS McpMessages, AuthDiscovery

NoSession == "no session"
NoResponse == [kind |-> "none", results |-> <<>>]

(* The method each id of a request asked for; of two rpcs with one id the  *)
(* later one counts.                                                       *)
ClientMethodsOf(request) ==
  LET rpcs == request.rpcs
      last(id) == CHOOSE i \in DOMAIN rpcs :
                    rpcs[i].id = id /\ \A j \in DOMAIN rpcs : rpcs[j].id = id => j <= i
  IN  [id \in {rpcs[i].id : i \in DOMAIN rpcs} |-> rpcs[last(id)].method.name]

MethodOf(methods, id) == IF id \in DOMAIN methods THEN methods[id] ELSE "none"

-----------------------------------------------------------------------------
(* The logging projection.  Bodies that are no MCP are left out, and of    *)
(* the results of resources/ only names and paths are kept.                *)
LoggedRequest(request) ==
  [kind |-> request.kind, rpcs |-> request.rpcs,
   method |-> request.http.method, path |-> request.http.path,
   session |-> IF request.kind \in {"mcp", "batch"} THEN request.http.session
                                                    ELSE NoSession]

Kept ==
  [method \in {"resources/list", "resources/templates/list", "resources/read"} |->
     CASE method = "resources/list" ->
            [array |-> "resources", keep |-> {"uri", "name"}]
       [] method = "resources/templates/list" ->
            [array |-> "resourceTemplates", keep |-> {"uriTemplate", "name"}]
       [] method = "resources/read" ->
            [array |-> "contents", keep |-> {"uri"}]]

SlimArray(result, array, keep) ==
  LET items == ItemsOf(Get(result, array))
      slim == [i \in DOMAIN items |-> IF IsObject(items[i]) THEN Keeping(items[i], keep)
                                                            ELSE Obj(<<>>)]
  IN  Obj(Member(array, Arr(slim)))

SlimResult(r, methods) ==
  LET method == MethodOf(methods, r.id)
  IN  IF r.kind = "error" \/ None(r.body) \/ method \notin DOMAIN Kept THEN r
      ELSE [r EXCEPT !.body = SlimArray(@, Kept[method].array, Kept[method].keep)]

(* Deviations a careless edit of the formats could introduce, here and     *)
(* below; not part of the specification.                                   *)
LoggedResponseWhole(response, methods) == response

LoggedResponse(response, methods) ==
  [response EXCEPT !.results = [i \in DOMAIN @ |-> SlimResult(@[i], methods)]]

(* The openai/ members of a request's metadata; of a batch, its first's.   *)
OpenAiKeys == {"openai/session", "openai/subject", "openai/organization",
               "openai/locale", "openai/userAgent"}

OpenAiContext(request) ==
  LET meta == IF request.rpcs = <<>> THEN Missing
              ELSE Get(request.rpcs[1].params, "_meta")
      found == {k \in OpenAiKeys : IsString(Get(meta, k))}
                 \cup {k \in {"openai/userLocation"} : Has(meta, k)}
  IN  IF found = {} THEN Missing ELSE Keeping(meta, found)

-----------------------------------------------------------------------------
(* The session an exchange belongs to: the request's, or for initialize    *)
(* the one that the response announces.                                    *)
ResolveSession(e) ==
  CASE e.request.session # NoSession -> e.request.session
    [] e.request.session = NoSession /\ e.response.kind \in {"mcp", "batch"} ->
         e.response.parts.session
    [] OTHER -> NoSession

(* The envelopes of a Request event: one for each rpc of a batch, with the *)
(* result that has its id, and one for anything else.  Status 0 stands for *)
(* a missing half.                                                         *)
BatchResultByPosition(response, id) ==
  IF response.results = <<>> THEN Missing ELSE response.results[1]

BatchResult(response, id) ==
  LET with == {i \in DOMAIN response.results : response.results[i].id = id}
  IN  IF response.kind # "batch" \/ with = {} THEN Missing
      ELSE response.results[CHOOSE i \in with : \A j \in with : j <= i]

SingleResult(response) ==
  IF response.kind = "mcp" THEN response.results[1] ELSE Missing

AuthBlock(e) == IF ObservedNothing(e.auth) THEN Missing ELSE e.auth

McpPayload(e, rpc, result) ==
  [kind |-> "mcp", requestId |-> e.requestId, session |-> ResolveSession(e),
   rpc |-> EncodeRequest(rpc),
   result |-> IF result = Missing THEN Missing ELSE EncodeResult(result),
   status |-> IF e.response.kind \in {"mcp", "batch"} THEN e.response.parts.status ELSE 0,
   latency |-> e.latency, upstream |-> e.upstream, openai |-> e.openai,
   auth |-> AuthBlock(e), challenge |-> e.challenge]

HttpPayload(e) ==
  [kind |-> e.request.kind, requestId |-> e.requestId, session |-> NoSession,
   path |-> e.request.path,
   status |-> IF e.response.kind = "http" THEN e.response.parts.status ELSE 0,
   latency |-> e.latency, upstream |-> e.upstream,
   auth |-> AuthBlock(e), challenge |-> e.challenge]

EncodeEnvelopes(e) ==
  CASE e.request.kind = "mcp" ->
         <<McpPayload(e, e.request.rpcs[1], SingleResult(e.response))>>
    [] e.request.kind = "batch" ->
         [i \in DOMAIN e.request.rpcs |->
            McpPayload(e, e.request.rpcs[i],
                       BatchResult(e.response, e.request.rpcs[i].id))]
    [] OTHER -> <<HttpPayload(e)>>

(* Schema events name the item and how it was met, sessions are a record.  *)
EncodeSchema(change) ==
  [kind |-> change.kind, reason |-> "added",
   name |-> Get(change.item, CASE change.kind = "resource" -> "uri"
                               [] change.kind = "resource_template" -> "uriTemplate"
                               [] OTHER -> "name"),
   item |-> change.item]

(* The line on stderr for the same event, with one object for the request  *)
(* and one for the response, whatever they hold.  The credential is named  *)
(* only when the environment asks for it.                                  *)
ExtractSession(e) ==
  IF e.request.session # NoSession THEN e.request.session
  ELSE IF e.response.kind \in {"mcp", "batch"} THEN e.response.parts.session
  ELSE NoSession

FormatTransaction(e, logAuth) ==
  [requestId |-> e.requestId, session |-> ExtractSession(e),
   rpcs |-> [i \in DOMAIN e.request.rpcs |-> EncodeRequest(e.request.rpcs[i])],
   results |-> [i \in DOMAIN e.response.results |->
                  EncodeResult(e.response.results[i])],
   status |-> IF e.response.kind = "http" THEN e.response.parts.status ELSE 0,
   latency |-> e.latency, upstream |-> e.upstream,
   auth |-> IF logAuth /\ ~ObservedNothing(e.auth) THEN e.auth ELSE Missing,
   challenge |-> IF logAuth THEN e.challenge ELSE Missing]
=============================================================================
