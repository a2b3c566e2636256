----------------------------- MODULE MCExchange -----------------------------
(* Small instance of Exchange: calls and batches of tools/list and         *)
(* resources/read, broken ones and what is no MCP at all; a server that    *)
(* answers in JSON or with an event stream, rightly and wrongly.           *)
EXTENDS Exchange, CspRewrite

Rpc(id, method, params) ==
  Obj([jsonrpc |-> Str("2.0"), id |-> id, method |-> Str(method), params |-> params])
One == Num("1")
Two == Num("2")

ListTools == Rpc(One, "tools/list", Obj("_meta" :> Obj("openai/session" :> Str("chat"))))
ReadPage == Rpc(Two, "resources/read", Obj(<<>>))
ListPages == Rpc(One, "resources/list", Obj(<<>>))
Initialize == Rpc(One, "initialize", Obj(<<>>))
Notification == Obj([jsonrpc |-> Str("2.0"), method |-> Str("notifications/initialized")])

Token == Obj([sub |-> Str("ann"), scope |-> Arr(<<Str("read")>>)])

Http(method, b) ==
  [method |-> method, path |-> "/mcp", contentType |-> "application/json",
   accept |-> "", session |-> "s1", auth |-> [scheme |-> "Bearer", rest |-> Token],
   headers |-> {"authorization", "mcp-session-id", "connection", "x-trace"},
   body |-> b]

MCInbounds ==
  {Http("POST", b) : b \in
     {ListTools, Arr(<<ListTools, ReadPage>>), Arr(<<ListPages, Initialize>>),
      Arr(<<>>), Arr(<<ListTools, Notification>>), Notification}}
  \cup {[Http("POST", b) EXCEPT !.session = NoSession, !.auth = NoHeader] :
          b \in {Initialize, ReadPage, Arr(<<ReadPage, ListTools>>)}}
  \cup {Http("DELETE", Missing)}
  \cup {[Http("GET", Missing) EXCEPT !.accept = "text/event-stream"]}
  \cup {[Http("GET", Missing) EXCEPT !.path = p, !.contentType = ""] :
          p \in {ProtectedResource, "/.well-known/openid-configuration"}}

-----------------------------------------------------------------------------
Result(id, content) == Obj([jsonrpc |-> Str("2.0"), id |-> id, result |-> content])

Csp1 == Obj("connect_domains" :> DomainArray(<<<<"https://", "a.com">>>>))
Tools == Result(One, Obj(("nextCursor" :> Str("n")) @@ ("tools" :> Arr(<<
  Obj([name |-> Str("t1"), inputSchema |-> Obj(<<>>), icons |-> Arr(<<>>), title |-> Null,
       _meta |-> Obj("openai/widgetCSP" :> Csp1)]),
  Obj([name |-> Str("t2")])>>))))
Page == Result(Two, Obj("contents" :> Arr(<<
  Obj([uri |-> Str(<<"ui://", "pay">>), text |-> Str(<<"html">>),
       _meta |-> Obj("openai/widgetCSP" :> Csp1)])>>)))
Pages == Result(One, Obj("resources" :> Arr(<<
  Obj([uri |-> Str(<<"ui://", "pay">>), name |-> Str(<<"pay">>), mimeType |-> Str(<<"html">>)]),
  Obj([uri |-> Str(<<"file://", "x">>)])>>)))
Failed == Obj([jsonrpc |-> Str("2.0"), id |-> Two,
               error |-> Obj([code |-> Num("-3"), message |-> Str("no")])])

Reply(status, contentType, b) ==
  [status |-> status, contentType |-> contentType, session |-> "s2",
   challenge |-> IF status = 401
                 THEN [scheme |-> "Bearer", rest |-> <<<<"realm", "a">>, <<"realm", "b">>>>]
                 ELSE NoHeader,
   headers |-> {"set-cookie", "connection", "content-length"}, body |-> b]

Stream(bytes) == Reply(200, "text/event-stream", [t |-> "frames", bytes |-> bytes])
Data(doc) == <<Word("data"), Colon, Space, doc>>
Event(name) == <<Word("event"), Colon, Word(name)>>

(* Line ends of all three kinds, one of them the last byte; comments,      *)
(* events of other names, a notification, a frame nobody ends; and a       *)
(* stream of nothing.                                                      *)
MCReplies ==
  {Reply(200, "application/json", doc) : doc \in {Tools, Page, Pages, Arr(<<Tools, Page>>)}}
  \cup {Reply(401, "application/json", Failed), Reply(500, "text/plain", [t |-> "text"])}
  \cup {Stream(bytes) : bytes \in
     {Data(Tools) \o <<CR, LF, CR, LF>> \o Data(Page) \o <<LF, LF>> \o Data(Pages) \o <<LF>>,
      <<Colon, Word("hi"), CR>> \o Event("message") \o <<CR>> \o Data(Pages)
        \o <<LF, Word("data"), CR, CR>> \o Data(Failed) \o <<CR, LF, CR>>,
      Event("ping") \o <<LF>> \o Data(Page) \o <<LF, LF>> \o Data(Notification)
        \o <<LF, LF>> \o Data(Invalid) \o <<LF, CR>>,
      <<>>}}

MCProvider == [kind |-> "static", metadata |-> [servers |-> <<"as">>]]
File == [mode |-> Unset, domains |-> <<<<"https://", "b.com">>>>, policy |-> <<>>,
           domain |-> <<"mcp.", "us.com">>, widgets |-> <<>>,
           mcp |-> <<"http://", "up.com">>]
MCRewrite(method, result) == RewriteResult(method, result, IntoRuntime(File))
=============================================================================
