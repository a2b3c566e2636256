----------------------------- MODULE MCCspChain -----------------------------
(* Small instance of CspChain: an upstream server at up.com, a public and  *)
(* a local gateway, files that set the connect, frame and redirect lists   *)
(* in every way a file can, and results whose policy is in one shape, in   *)
(* the other, in both, misplaced or missing.                               *)
EXTENDS CspChain

A == <<"https://", "a.com">>
B == <<"https://", "cdn.", "b.com">>
Self == <<"https://", "api.", "up.com">>
Local == <<"http://", "localhost">>
Public == <<"mcp.", "us.com">>

PayUri == <<"ui://", "pay", "/", "form">>

FilePolicies ==
  [domains : {<<>>, <<A>>, <<B, Local>>}, mode : {Unset, "extend", "override", "replce"}]

PolicyTables ==
  {<<>>}
    \cup {"connect" :> p : p \in FilePolicies}
    \cup {"frame" :> p : p \in FilePolicies}
    \cup {("redirect" :> p) @@ ("frame" :> q) :
            p \in [domains : {<<A>>}, mode : {"replace", "extend"}],
            q \in [domains : {<<>>}, mode : {"extend"}]}

Widget(pattern, ds, mode) ==
  [pattern |-> pattern,
   policy |-> [d \in Directives |-> IF d \in {"connect", "frame"}
                                    THEN [domains |-> ds, mode |-> mode]
                                    ELSE Permissive]]

WidgetTables ==
  LET pay == Widget(<<"ui://", "pay", "*">>, <<B>>, "Replace")
      one == Widget(<<"ui://", "pay", "?", "form">>, <<A, A>>, "Extend")
      other == Widget(<<"ui://", "shop", "*">>, <<Self>>, "Replace")
      closed == Widget(<<"*">>, <<>>, "Replace")
  IN  {<<>>, <<pay>>, <<one, pay>>, <<pay, one>>, <<other, one>>, <<closed, other>>,
       <<[closed EXCEPT !.policy = [d \in Directives |->
            [domains |-> <<B, B>>, mode |-> "Replace"]]]>>}

MCFiles ==
  [mode : {Unset, "replace"}, domains : {<<>>, <<A>>}, policy : PolicyTables,
   domain : {<<>>, Public}, widgets : WidgetTables,
   mcp : {<<"http://", "up.com">>, <<"https://", "up.com", "/", "mcp">>}]

-----------------------------------------------------------------------------
OpenAi(ds) == "openai/widgetCSP" :> Obj([connect_domains |-> DomainArray(ds),
                                         frame_domains |-> DomainArray(ds)])
Spec_(ds) == "ui" :> Obj([csp |-> Obj([connectDomains |-> DomainArray(ds),
                                       frameDomains |-> DomainArray(ds)])])

Resource(uri, meta) == Obj([uri |-> Str(uri), _meta |-> Obj(meta)])
List(items) == Obj([resources |-> Arr(items)])

MCResults ==
  {[method |-> "resources/list",
    result |-> List(<<Resource(PayUri, OpenAi(<<A, Self, Local>>) @@ Spec_(<<B>>)),
                      Obj([uri |-> Str(<<"file://", "x">>)])>>)],
   [method |-> "resources/read",
    result |-> Obj([contents |-> Arr(<<
      Obj([uri |-> Str(PayUri)]),
      Resource(<<"file://", "x">>, "ui" :> Obj([domain |-> Str(A)])),
      Obj([_meta |-> Obj(("openai/outputTemplate" :> Str(PayUri)) @@ Spec_(<<B, A>>))]),
      Resource(<<>>, ("openai/outputTemplate" :> Str(PayUri)) @@ Spec_(<<Self, A>>))>>)])],
   [method |-> "resources/templates/list",
    result |-> Obj([resourceTemplates |-> Arr(<<
      Obj([uriTemplate |-> Str(PayUri), _meta |-> Null]),
      Obj([uriTemplate |-> Str(PayUri), _meta |-> Obj("ui" :> Str(A))]),
      Obj([uriTemplate |-> Str(<<"file://", "x">>),
           _meta |-> Obj("other" :> Obj([connect_domains |-> DomainArray(<<A>>)]))])>>)])],
   [method |-> "tools/call",
    result |-> Obj([content |-> Arr(<<Obj(OpenAi(<<A>>))>>)])],
   [method |-> "prompts/list", result |-> Obj([prompts |-> Arr(<<Obj(OpenAi(<<A>>))>>)])]}
MCDocuments == UNION {Nested(r.result, n) : r \in MCResults, n \in 0 .. MaxNesting}
=============================================================================
