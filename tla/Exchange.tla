------------------------------ MODULE Exchange ------------------------------
(***************************************************************************)
(* One HTTP exchange from end to end: handle_request classifies it, the    *)
(* router asks the upstream server, the schema, CSP and log stages handle  *)
(* every result, and the encoder answers the client (proxy2/mod.rs,        *)
(* proxy2/stage/).  An event stream is relayed while it arrives, chunk by  *)
(* chunk.  Module ProxyPipeline has the concurrent exchanges and the       *)
(* session stage; here it is what each exchange carries that counts.       *)
(*                                                                         *)
(* Of the headers that are not fields of their own only names are kept.    *)
(***************************************************************************)
EXTENDS EventFormats

CONSTANTS Inbounds,   \* HTTP requests: [method, path, contentType, accept,
                      \*   session, auth, headers, body]
          Replies,    \* the server's answers: [status, contentType, session,
                      \*   challenge, headers, body]
          Provider,   \* the gateway's OAuth provider
          Rewrite(_, _),  \* a method's result as the CSP stage rewrites it
          MaxTime     \* bound on the clock

(* An entry of a list that lacks what its kind needs makes no event, and   *)
(* of the others only the members that MCP defines are kept                *)
(* (protocol/schema.rs).                                                   *)
Common == {"name", "title", "description", "_meta"}

ListOf ==
  [method \in {"tools/list", "prompts/list", "resources/list", "resources/templates/list"} |->
     CASE method = "tools/list" ->
            [array |-> "tools", kind |-> "tool", needs |-> {"name", "inputSchema"},
             may |-> Common \cup {"outputSchema", "annotations"}]
       [] method = "prompts/list" ->
            [array |-> "prompts", kind |-> "prompt", needs |-> {"name"},
             may |-> Common \cup {"arguments"}]
       [] method = "resources/list" ->
            [array |-> "resources", kind |-> "resource", needs |-> {"uri", "name"},
             may |-> Common \cup {"mimeType", "size", "annotations"}]
       [] method = "resources/templates/list" ->
            [array |-> "resourceTemplates", kind |-> "resource_template",
             needs |-> {"uriTemplate", "name"},
             may |-> Common \cup {"mimeType", "annotations"}]]

(* The lists of documents are lists, and an event stream has bytes, in     *)
(* which documents stand for their text.                                   *)
DocumentsOf(r) ==
  {r.body} \cup ToSet(ItemsOf(r.body))
    \cup (IF r.body.t = "frames" THEN ToSet(r.body.bytes) ELSE {})

ASSUME ExchangeAssumption ==
  /\ MaxTime \in Nat
  /\ \A h \in Inbounds : ProperList(h.body)
  /\ \A r \in Replies :
       /\ IsEventStream(r.contentType) => r.body.t = "frames"
       /\ r.body.t = "frames" => r.body.bytes \in Seq(ToSet(r.body.bytes))
       /\ ProperList(r.body)
       /\ \A doc \in DocumentsOf(r), method \in DOMAIN ListOf :
            ProperList(Get(Get(doc, "result"), ListOf[method].array))

(* Rewriting leaves an entry of a list where it is, and its names alone.   *)
ASSUME RewriteAssumption ==
  \A r \in Replies : \A doc \in DocumentsOf(r), method \in DOMAIN ListOf :
    LET list == ListOf[method]
        result == Get(doc, "result")
        rewritten == Rewrite(method, result)
    IN  ~None(result) =>
          /\ ProperList(Get(rewritten, list.array))
          /\ SameEntries(ItemsOf(Get(result, list.array)),
                         ItemsOf(Get(rewritten, list.array)), list.needs)

VARIABLES pc,        \* "intake", "upstream", "stream", "done"
          request,   \* the classified request, with its HTTP request
          sent,      \* history: what went upstream
          results,   \* results of the calls of a batch so far
          parts,     \* status and headers of the upstream's last answer
          body,      \* the event stream being read
          at,        \* how much of it has arrived
          parser,    \* the incremental decoder
          ended,     \* the stream has ended
          raw,       \* history: results the stages were given
          answer,    \* what the client has been sent
          events,    \* events emitted
          now, started, routed, firstItem   \* the clock; the exchange's spans

vars == <<pc, request, sent, results, parts, body, at, parser, ended, raw,
          answer, events, now, started, routed, firstItem>>

NoAnswer == [status |-> 0]
NoRequest == [kind |-> "none", rpcs |-> <<>>]
EmptyParts == [status |-> 200, contentType |-> "", session |-> NoSession,
               challenge |-> NoHeader, headers |-> {}]
Running == MaxTime + 1   \* a span that has not ended

Init == /\ pc = "intake"
        /\ request = NoRequest
        /\ sent = <<>> /\ results = <<>>
        /\ parts = EmptyParts
        /\ body = <<>> /\ at = 0 /\ parser = EmptyParser /\ ended = FALSE
        /\ raw = <<>>
        /\ answer = NoAnswer
        /\ events = <<>>
        /\ now = 0 /\ started = 0 /\ routed = Running /\ firstItem = Running

PartsOf(r) == [k \in DOMAIN EmptyParts |-> r[k]]
Methods == ClientMethodsOf(request)

-----------------------------------------------------------------------------
(* Headers that do not cross. *)
HopByHop == {"connection", "keep-alive", "proxy-authenticate", "proxy-authorization",
             "te", "trailers", "transfer-encoding", "upgrade"}
ProxyManaged == {"host", "content-length", "content-type", "accept"}

ForwardedHeaders(names) == names \ (HopByHop \cup ProxyManaged)
HttpHeaders(names) == names \cap {"authorization", "content-type", "accept",
                                  "mcp-session-id", "last-event-id"}

-----------------------------------------------------------------------------
(* The response stages. *)
Typed(item, list) ==
  Keeping(item, list.needs \cup {key \in list.may : ~None(Get(item, key))})

SchemaEventsOf(r, methods) ==
  LET method == MethodOf(methods, r.id)
      list == ListOf[method]
      entries == ItemsOf(Get(r.body, list.array))
      items == Only(entries, {item \in ToSet(entries) : \A key \in list.needs : Has(item, key)})
  IN  IF r.kind = "error" \/ None(r.body) \/ method \notin DOMAIN ListOf THEN <<>>
      ELSE [i \in DOMAIN items |->
              [type |-> "schema", kind |-> list.kind, item |-> Typed(items[i], list)]]

SchemaEvents(rs, methods) ==
  FlattenSeq([i \in DOMAIN rs |-> SchemaEventsOf(rs[i], methods)])

RewriteIfKnown(r, methods) ==
  IF r.kind = "error" \/ None(r.body) THEN r
  ELSE [r EXCEPT !.body = Rewrite(MethodOf(methods, r.id), @)]

(* The spans of the timer that count as the upstream's: the router's, and  *)
(* the wait for the first item of a stream; one that runs counts nothing.  *)
(* Deviations a careless edit could introduce, here and below, are not     *)
(* part of the specification.                                              *)
UpstreamTimeCountingTwice(routerEnd, bodyEnd) ==
  (IF routerEnd = Running THEN 0 ELSE routerEnd - started)
    + (IF bodyEnd = Running THEN 0 ELSE bodyEnd - started)

UpstreamTime(routerEnd, bodyEnd) ==
  (IF routerEnd = Running THEN 0 ELSE routerEnd - started)
    + (IF bodyEnd = Running THEN 0 ELSE bodyEnd - routerEnd)

RequestEvent(response, routerEnd, bodyEnd) ==
  [type |-> "request",
   requestId |-> IF request.rpcs = <<>> THEN Missing ELSE request.rpcs[1].id,
   request |-> LoggedRequest(request),
   response |-> IF response = NoResponse THEN response
                ELSE LoggedResponse(response, Methods),
   latency |-> now - started,
   upstream |-> UpstreamTime(routerEnd, bodyEnd),
   openai |-> OpenAiContext(request),
   auth |-> ParseRequestAuth(request.http.auth),
   challenge |-> IF response = NoResponse THEN Missing
                 ELSE ParseChallenge(response.parts.challenge)]

RunStagesRewritingFirst(response, routerEnd, bodyEnd) ==
  LET rewritten == [response EXCEPT !.results =
                      [i \in DOMAIN @ |-> RewriteIfKnown(@[i], Methods)]]
  IN  /\ raw' = raw \o response.results
      /\ events' = Append(events \o SchemaEvents(rewritten.results, Methods),
                          RequestEvent(rewritten, routerEnd, bodyEnd))

(* Schema, CSP, log: the log has what the client will get. *)
Rewritten(response) ==
  [response EXCEPT !.results = [i \in DOMAIN @ |-> RewriteIfKnown(@[i], Methods)]]

RunStages(response, routerEnd, bodyEnd) ==
  /\ raw' = raw \o response.results
  /\ events' = Append(events \o SchemaEvents(response.results, Methods),
                      RequestEvent(Rewritten(response), routerEnd, bodyEnd))

-----------------------------------------------------------------------------
(* The encoder. *)
Encoded(rs) == [i \in DOMAIN rs |-> EncodeResult(rs[i])]

Frames(rs) == [t |-> "frames",
               bytes |-> EncodeResults([i \in DOMAIN rs |-> <<EncodeResult(rs[i])>>])]

EncodeHead(p) == [status |-> p.status, session |-> p.session,
                  headers |-> p.headers \ {"content-length", "transfer-encoding"}]

EncodeSingle(response) ==
  LET rs == Rewritten(response).results
      p == response.parts
  IN  IF response.kind = "http"
      THEN [status |-> p.status, session |-> p.session, headers |-> p.headers,
            contentType |-> p.contentType, body |-> response.body]
      ELSE Joined(EncodeHead(p),
             IF IsEventStream(p.contentType)
             THEN [contentType |-> "text/event-stream", body |-> Frames(rs)]
             ELSE [contentType |-> "application/json",
                   body |-> IF Len(rs) = 1 THEN EncodeResult(rs[1]) ELSE Arr(Encoded(rs))])

BadGateway == [status |-> 502, session |-> NoSession, headers |-> {},
               contentType |-> "text/plain", body |-> [t |-> "text"]]

Finish(response) ==
  /\ pc' = "done"
  /\ routed' = now
  /\ RunStages(response, now, Running)
  /\ answer' = EncodeSingle(response)

Fail ==
  /\ pc' = "done"
  /\ answer' = BadGateway
  /\ events' = Append(events, RequestEvent(NoResponse, routed, firstItem))
  /\ UNCHANGED <<raw, routed>>

-----------------------------------------------------------------------------
(* handle_request.  A client that asks for an event stream gets the        *)
(* server's, byte by byte and past the stages.                             *)
AttachesTo(http) == http.method = "GET" /\ IsEventStream(http.accept)

Intake ==
  /\ pc = "intake"
  /\ \E http \in {h \in Inbounds : ~AttachesTo(h)} :
       request' = [kind |-> FromAxum(http).kind, rpcs |-> FromAxum(http).rpcs,
                   http |-> http]
  /\ pc' = "upstream"
  /\ started' = now
  /\ UNCHANGED <<sent, results, parts, body, at, parser, ended, raw, answer,
                 events, now, routed, firstItem>>

(* A body that cannot be read is refused before there is a context. *)
BadBody ==
  /\ pc = "intake"
  /\ pc' = "done"
  /\ answer' = [BadGateway EXCEPT !.status = 400]
  /\ UNCHANGED <<request, sent, results, parts, body, at, parser, ended, raw,
                 events, now, started, routed, firstItem>>

OpenGetSse ==
  /\ pc = "intake"
  /\ \E http \in {h \in Inbounds : AttachesTo(h)}, r \in Replies :
       /\ sent' = <<[method |-> "GET", body |-> Missing,
                     headers |-> ForwardedHeaders(http.headers)]>>
       /\ answer' = [status |-> r.status, session |-> r.session,
                     headers |-> r.headers \ (HopByHop \cup {"content-length"}),
                     contentType |-> r.contentType, body |-> r.body]
  /\ pc' = "done"
  /\ UNCHANGED <<request, results, parts, body, at, parser, ended, raw, events,
                 now, started, routed, firstItem>>

(* Discovery that the gateway answers itself. *)
ServeOAuth ==
  /\ pc = "upstream"
  /\ request.kind = "oauth"
  /\ HandleOAuth(Provider, request.http.path).decision = "serve"
  /\ Finish([kind |-> "http", results |-> <<>>,
             body |-> [t |-> "metadata"],
             parts |-> [EmptyParts EXCEPT !.contentType = "application/json"]])
  /\ UNCHANGED <<request, sent, results, parts, body, at, parser, ended, now,
                 started, firstItem>>

(* Anything that is no MCP goes to the server's one URL with a few of its  *)
(* headers, and its answer is looked at like any other.                    *)
Forwards ==
  \/ request.kind = "http"
  \/ /\ request.kind = "oauth"
     /\ HandleOAuth(Provider, request.http.path).decision = "forward"

ForwardedRequest == [method |-> request.http.method, body |-> request.http.body,
                     headers |-> HttpHeaders(request.http.headers)]

HandleHttpRequest ==
  /\ pc = "upstream"
  /\ Forwards
  /\ \E r \in Replies :
       Finish([kind |-> FromHyper(r).kind, results |-> FromHyper(r).results,
               parts |-> PartsOf(r), body |-> r.body])
  /\ sent' = Append(sent, ForwardedRequest)
  /\ UNCHANGED <<request, results, parts, body, at, parser, ended, now,
                 started, firstItem>>

(* The next call goes out.  A single one may be answered by a stream; the  *)
(* calls of a batch go one after the other, each answered in full.         *)
Call(rpc) == [method |-> "POST", body |-> EncodeRequest(rpc),
              headers |-> ForwardedHeaders(request.http.headers)]
NextCall == request.rpcs[Len(results) + 1]

HandleMcpRequest ==
  /\ pc = "upstream"
  /\ request.kind \in {"mcp", "batch"}
  /\ Len(results) < Len(request.rpcs)
  /\ sent' = Append(sent, Call(NextCall))
  /\ \E r \in {r \in Replies : request.kind = "batch" \/ ~IsEventStream(r.contentType)} :
       LET response == FromHyper(r)
           all == results \o response.results
       IN  /\ parts' = PartsOf(r)
           /\ \/ /\ response.kind # "mcp"
                 /\ Fail
                 /\ UNCHANGED results
              \/ /\ response.kind = "mcp"
                 /\ results' = all
                 /\ IF Len(all) = Len(request.rpcs)
                    THEN Finish([kind |-> request.kind, results |-> all,
                                 parts |-> PartsOf(r)])
                    ELSE UNCHANGED <<pc, routed, raw, events, answer>>
  /\ UNCHANGED <<request, body, at, parser, ended, now, started, firstItem>>

EmptyBatch ==
  /\ pc = "upstream"
  /\ request.kind = "batch" /\ request.rpcs = <<>>
  /\ Finish([kind |-> "batch", results |-> <<>>, parts |-> EmptyParts])
  /\ UNCHANGED <<request, sent, results, parts, body, at, parser, ended, now,
                 started, firstItem>>

(* A call that fails may have reached the server. *)
UpstreamFails ==
  /\ pc = "upstream"
  /\ \/ Forwards /\ sent' \in {sent, Append(sent, ForwardedRequest)}
     \/ request.rpcs # <<>> /\ sent' \in {sent, Append(sent, Call(NextCall))}
  /\ Fail
  /\ UNCHANGED <<request, results, parts, body, at, parser, ended, now,
                 started, firstItem>>

(* The head of the answer goes out before the first frame is there. *)
OpenStream ==
  /\ pc = "upstream"
  /\ request.kind = "mcp"
  /\ sent' = Append(sent, Call(NextCall))
  /\ \E r \in {r \in Replies : IsEventStream(r.contentType)} :
       /\ parts' = PartsOf(r)
       /\ body' = r.body.bytes
       /\ answer' = Joined(EncodeHead(PartsOf(r)),
                            [contentType |-> "text/event-stream",
                             body |-> [t |-> "frames", bytes |-> <<>>]])
  /\ pc' = "stream"
  /\ routed' = now
  /\ UNCHANGED <<request, results, at, parser, ended, raw, events, now, started,
                 firstItem>>

-----------------------------------------------------------------------------
(* The relay of a stream: the next chunk is asked for when no frame waits. *)
Receive ==
  /\ pc = "stream" /\ ~ended /\ parser.pending = <<>>
  /\ \E to \in at + 1 .. Len(body) :
       /\ at' = to
       /\ parser' = Feed(parser, SubSeq(body, at + 1, to), FALSE)
  /\ UNCHANGED <<pc, request, sent, results, parts, body, ended, raw, answer,
                 events, now, started, routed, firstItem>>

BodyEnds ==
  /\ pc = "stream" /\ ~ended /\ parser.pending = <<>>
  /\ at = Len(body)
  /\ ended' = TRUE
  /\ parser' = Feed(parser, <<>>, TRUE)
  /\ UNCHANGED <<pc, request, sent, results, parts, body, at, raw, answer,
                 events, now, started, routed, firstItem>>

(* A broken upstream connection breaks the client's stream off as well. *)
BodyFails ==
  /\ pc = "stream" /\ ~ended /\ parser.pending = <<>>
  /\ pc' = "done"
  /\ UNCHANGED <<request, sent, results, parts, body, at, parser, ended, raw,
                 answer, events, now, started, routed, firstItem>>

(* A frame that is no result is dropped; a result goes through the stages  *)
(* and out.                                                                *)
Relay ==
  /\ pc = "stream" /\ parser.pending # <<>>
  /\ parser' = [parser EXCEPT !.pending = Tail(@)]
  /\ LET rs == ResultsOf(<<Head(parser.pending)>>)
     IN  IF rs = <<>> THEN UNCHANGED <<raw, events, answer, firstItem>>
         ELSE LET response == [kind |-> "mcp", results |-> rs, parts |-> parts]
              IN  /\ firstItem' = IF firstItem = Running THEN now ELSE firstItem
                  /\ RunStages(response, routed, firstItem')
                  /\ answer' = [answer EXCEPT !.body.bytes =
                                  @ \o Frames(Rewritten(response).results).bytes]
  /\ UNCHANGED <<pc, request, sent, results, parts, body, at, ended, now,
                 started, routed>>

(* A client that goes away takes the handler with it, wherever it stands:  *)
(* what waits in the parser is neither sent nor logged.                    *)
ClientLeaves ==
  /\ pc \in {"upstream", "stream"}
  /\ pc' = "gone"
  /\ UNCHANGED <<request, sent, results, parts, body, at, parser, ended, raw,
                 answer, events, now, started, routed, firstItem>>

StreamEnds ==
  /\ pc = "stream" /\ ended /\ parser.pending = <<>>
  /\ pc' = "done"
  /\ UNCHANGED <<request, sent, results, parts, body, at, parser, ended, raw,
                 answer, events, now, started, routed, firstItem>>

Tick == /\ now < MaxTime
        /\ pc \in {"upstream", "stream"}
        /\ now' = now + 1
        /\ UNCHANGED <<pc, request, sent, results, parts, body, at, parser, ended,
                       raw, answer, events, started, routed, firstItem>>

Next == \/ Intake \/ BadBody \/ OpenGetSse
        \/ ServeOAuth \/ HandleHttpRequest \/ HandleMcpRequest \/ EmptyBatch
        \/ UpstreamFails \/ OpenStream
        \/ Receive \/ BodyEnds \/ BodyFails \/ Relay \/ StreamEnds
        \/ ClientLeaves
        \/ Tick

Spec == Init /\ [][Next]_vars

-----------------------------------------------------------------------------
(* What the client has been told: the documents of its answer. *)
Answered ==
  IF answer = NoAnswer THEN <<>>
  ELSE CASE answer.body.t = "frames" ->
              LET frames == DecodeFrames(answer.body.bytes)
              IN  [i \in DOMAIN frames |-> Parse(frames[i])]
         [] answer.body.t = "array" -> answer.body.items
         [] OTHER -> <<answer.body>>

EventsOfType(type) == Only(events, {e \in ToSet(events) : e.type = type})
RequestEvents == EventsOfType("request")
SchemaEventsSent == EventsOfType("schema")

(* Only a single call is answered by frames that come one by one. *)
Streamed == request.kind = "mcp" /\ answer # NoAnswer /\ answer.body.t = "frames"

(* However the network cuts an event stream up, in the middle of a line    *)
(* end too, the client gets one frame for every result in it, in order and *)
(* rewritten, and nothing else: what it decodes of its answer, with what   *)
(* waits in the parser, is what the buffering decoder makes of all that    *)
(* has arrived.  Only a CR in last place may be waited for.                *)
StreamedInOrder ==
  Streamed =>
    LET received == SubSeq(body, 1, at)
        settled == IF ~ended /\ received # <<>> /\ Last(received) = CR
                   THEN Front(received) ELSE received
        documents(frames) ==
          LET rs == ResultsOf(frames)
          IN  [i \in DOMAIN rs |-> EncodeResult(RewriteIfKnown(rs[i], Methods))]
    IN  Answered \o documents(parser.pending) = documents(DecodeFrames(settled))

(* The log tells what the client was told, after the rewriting and in      *)
(* order, except that of resources only the names and paths are kept: no   *)
(* exchange leaves the body of a resource with a sink, and none leaves a   *)
(* result the client did not get.                                          *)
LoggedFaithfully(logged, told, method) ==
  LET keep == Kept[method].keep
      array == Kept[method].array
      content == Get(logged, "result")
      entries == ItemsOf(Get(content, array))
  IN  IF method \notin DOMAIN Kept \/ ~Has(told, "result") THEN logged = told
      ELSE /\ Get(logged, "id") = Get(told, "id")
           /\ DOMAIN content.m = {array}
           /\ DOMAIN entries = DOMAIN ItemsOf(Get(Get(told, "result"), array))
           /\ \A i \in DOMAIN entries :
                /\ DOMAIN entries[i].m \subseteq keep
                /\ \A key \in keep :
                     Get(entries[i], key) = Get(ItemsOf(Get(Get(told, "result"), array))[i], key)

Logged ==
  FlattenSeq([i \in DOMAIN RequestEvents |-> Encoded(RequestEvents[i].response.results)])

AnswersMcp(e) == e.response.kind \in {"mcp", "batch"}

LogMatchesAnswer ==
  /\ (\E e \in ToSet(RequestEvents) : AnswersMcp(e)) =>
       /\ Len(Logged) = Len(Answered)
       /\ \A i \in DOMAIN Logged :
            LoggedFaithfully(Logged[i], Answered[i],
                             MethodOf(Methods, Get(Logged[i], "id")))
  /\ (pc = "done" /\ ~Streamed /\ request # NoRequest) => Len(RequestEvents) = 1

(* Schema tracking sees the server's lists before the policies are         *)
(* rewritten: every complete entry of a list the client was given is       *)
(* announced once, in order and under its name, as the server had it, with *)
(* the server's metadata and never with the gateway's.                     *)
Entries(doc) ==
  LET list == ListOf[MethodOf(Methods, Get(doc, "id"))]
      items == ItemsOf(Get(Get(doc, "result"), list.array))
  IN  IF MethodOf(Methods, Get(doc, "id")) \notin DOMAIN ListOf THEN <<>>
      ELSE Only(items, {item \in ToSet(items) : \A key \in list.needs : Has(item, key)})

EntriesOf(docs) == FlattenSeq([i \in DOMAIN docs |-> Entries(docs[i])])

(* Null and absent members are the same to a reader. *)
SameMember(v, w, key) ==
  Get(v, key) = Get(w, key) \/ (None(Get(v, key)) /\ None(Get(w, key)))

SchemaAsServed ==
  LET told == EntriesOf(Answered)
      served == EntriesOf(Encoded(raw))
      announced == [i \in DOMAIN SchemaEventsSent |-> EncodeSchema(SchemaEventsSent[i])]
  IN  /\ Len(announced) = Len(told)
      /\ \A i \in DOMAIN told :
           /\ \A key \in DOMAIN announced[i].item.m \cup {"_meta"} :
                SameMember(announced[i].item, served[i], key)
           /\ announced[i].name \in {Get(told[i], key) : key \in Names}

(* What the two sinks tell of one event. *)
OneStory(e) ==
  LET envelopes == EncodeEnvelopes(e)
      line == FormatTransaction(e, TRUE)
      ids == {Get(line.results[i], "id") : i \in DOMAIN line.results}
  IN  /\ [i \in DOMAIN envelopes |-> envelopes[i].rpc] = line.rpcs
      /\ \A i \in DOMAIN envelopes :
           LET v == envelopes[i]
           IN  /\ <<v.session, v.latency, v.upstream, v.auth, v.challenge>>
                    = <<line.session, line.latency, line.upstream, line.auth,
                        line.challenge>>
               /\ e.response.kind = "batch" =>
                    IF Get(v.rpc, "id") \in ids
                    THEN /\ v.result \in ToSet(line.results)
                         /\ Get(v.result, "id") = Get(v.rpc, "id")
                    ELSE v.result = Missing

(* The two sinks tell one story: the cloud's envelopes of an exchange      *)
(* carry the session, the times and the credential of the line on stderr;  *)
(* a batch has an envelope per call, each with the result that answers it  *)
(* whatever order the server answered in, and no result under a call with  *)
(* another id.                                                             *)
SinksAgree ==
  \A e \in ToSet(events) :
    e.type = "request" /\ e.request.kind \in {"mcp", "batch"} => OneStory(e)

(* The upstream's share of an exchange never exceeds the whole, and the    *)
(* events of one stream report the same share, however much later they     *)
(* are.                                                                    *)
TimesConsistent ==
  \A i, j \in {i \in DOMAIN events : events[i].type = "request"} :
    /\ events[i].upstream <= events[i].latency
    /\ i <= j => /\ events[i].latency <= events[j].latency
                 /\ events[i].upstream = events[j].upstream

(* The calls of a body, as they are when they have been understood. *)
Calls == IF IsArray(request.http.body) THEN request.http.body.items ELSE <<request.http.body>>

Understood ==
  [i \in DOMAIN Calls |-> IF IsRequest(Calls[i]) THEN EncodeRequest(RequestOf(Calls[i]))
                                                ELSE Calls[i]]

SentDocuments == [i \in DOMAIN sent |-> sent[i].body]

(* Nothing a client sends is lost on the way: once its exchange is over    *)
(* and not refused, the server has had the body whole or else every call   *)
(* of it, once and in order, though only as far as calls are understood;   *)
(* before that a prefix of them.  Only an OAuth path is answered without.  *)
NothingSkipped ==
  pc # "intake" /\ request # NoRequest =>
    \/ SentDocuments = <<request.http.body>>
    \/ IF pc = "done" /\ answer.status # BadGateway.status /\ request.kind # "oauth"
       THEN SentDocuments = Understood
       ELSE IsPrefix(SentDocuments, Understood)
=============================================================================
