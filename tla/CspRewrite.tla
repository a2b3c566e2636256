----------------------------- MODULE CspRewrite -----------------------------
(***************************************************************************)
(* The response stage that rewrites the widget policies in MCP results     *)
(* (proxy2/stage/csp_rewritten_stage.rs).  A result is a JSON document;    *)
(* strings that are domains or URIs are sequences of words (module Csp).   *)
(***************************************************************************)
EXTENDS Csp, JsonValues

CONSTANT MaxNesting   \* how deep documents are; the parser refuses deeper ones

ASSUME NestingAssumption == MaxNesting \in Nat

OpenAiKey == [connect |-> "connect_domains", resource |-> "resource_domains",
              frame |-> "frame_domains", redirect |-> "redirect_domains"]
SpecKey == [connect |-> "connectDomains", resource |-> "resourceDomains",
            frame |-> "frameDomains", baseUri |-> "baseUriDomains"]

OpenAiCsp(meta) == Get(meta, "openai/widgetCSP")
SpecCsp(meta) == Get(Get(meta, "ui"), "csp")

(* A value as a list of domains, and a list of domains as a value. *)
DomainsOf(v) ==
  LET strings == Only(ItemsOf(v), {w \in ToSet(ItemsOf(v)) : IsString(w)})
  IN  [i \in DOMAIN strings |-> strings[i].v]

DomainArray(ds) == Arr([i \in DOMAIN ds |-> Str(ds[i])])

(* A string that may not be there, as a set of none or one. *)
StringIn(v) == IF IsString(v) THEN {v.v} ELSE {}

(* Nothing is inserted into what is not an object. *)
Insert(v, key, to) == IF IsObject(v) THEN Put(v, key, to) ELSE v

-----------------------------------------------------------------------------
IsWidgetUri(uri) == \E u \in uri : IsUiResource(u)

IsWidgetMeta(meta, uri) ==
  \/ IsWidgetUri(uri)
  \/ \E key \in {"openai/widgetCSP", "openai/widgetDomain", "openai/outputTemplate"} :
       Has(meta, key)
  \/ \E key \in {"csp", "resourceUri", "domain"} : Has(Get(meta, "ui"), key)

(* The URI that tells which widget entries apply: the resource's own, even *)
(* an empty one, or else the one its metadata points to.                   *)
ExtractResourceUri(meta) ==
  LET spec == Get(Get(meta, "ui"), "resourceUri")
  IN  IF IsString(spec) THEN {spec.v} ELSE StringIn(Get(meta, "openai/outputTemplate"))

InferredUri(meta, uri) == IF uri # {} THEN uri ELSE ExtractResourceUri(meta)

(* Both shapes count, whichever of them the server wrote. *)
CollectUpstream(meta, directive) ==
  LET openai == IF directive \in DOMAIN OpenAiKey
                THEN DomainsOf(Get(OpenAiCsp(meta), OpenAiKey[directive])) ELSE <<>>
      spec == IF directive \in DOMAIN SpecKey
              THEN DomainsOf(Get(SpecCsp(meta), SpecKey[directive])) ELSE <<>>
  IN  PushAll(PushAll(<<>>, openai), spec)

Merged(meta, uri, cfg) ==
  [d \in Directives |-> EffectiveDomains(cfg, d, uri, CollectUpstream(meta, d))]

Shape(keys, merged) ==
  Obj([key \in {keys[d] : d \in DOMAIN keys} |->
         DomainArray(merged[CHOOSE d \in DOMAIN keys : keys[d] = key])])

WriteWidgetDomain(meta, cfg) ==
  IF cfg.domain = <<>> THEN meta
  ELSE Insert(meta, "openai/widgetDomain", Str(cfg.domain))

WriteOpenAiCsp(meta, merged) ==
  Insert(meta, "openai/widgetCSP", Shape(OpenAiKey, merged))

WriteSpecCsp(meta, merged) ==
  LET ui == IF IsObject(Get(meta, "ui")) THEN Get(meta, "ui") ELSE Obj(<<>>)
  IN  Insert(meta, "ui", Put(ui, "csp", Shape(SpecKey, merged)))

-----------------------------------------------------------------------------
(* The safety net: every array that looks like a connect or resource list, *)
(* at any depth, gets the proxy in front unless it has it.                 *)
InjectedKeys == {OpenAiKey.connect, OpenAiKey.resource,
                 SpecKey.connect, SpecKey.resource}

WithProxy(v, cfg) ==
  LET proxy == Str(ProxyUrl(cfg))
  IN  IF ~IsArray(v) \/ Contains(v.items, proxy) THEN v
      ELSE Arr(<<proxy>> \o v.items)

(* What the walk makes of a value, given what it makes of those in it (a   *)
(* proxy that was put in front is a string, which the walk leaves alone).  *)
InjectInto(v, below, cfg) ==
  CASE IsObject(v) ->
         Obj([key \in DOMAIN v.m |-> IF key \in InjectedKeys
                                     THEN WithProxy(below[v.m[key]], cfg)
                                     ELSE below[v.m[key]]])
    [] IsArray(v) -> Arr([i \in DOMAIN v.items |-> below[v.items[i]]])
    [] OTHER -> v

(* walked[h] is for the values that have h levels of the document left     *)
(* below them.                                                             *)
Inject(v, cfg) ==
  LET walked[h \in 0 .. MaxNesting] ==
        IF h = 0 THEN [w \in Nested(v, MaxNesting) |-> w]
        ELSE LET below == walked[h - 1]
             IN  [w \in Nested(v, MaxNesting - h) |-> InjectInto(w, below, cfg)]
  IN  IF IsPublicOrigin(ProxyUrl(cfg)) THEN walked[MaxNesting][v] ELSE v

RewriteWidgetMeta(meta, uri, cfg) ==
  LET named == WriteWidgetDomain(meta, cfg)
      merged == Merged(named, InferredUri(named, uri), cfg)
  IN  IF IsWidgetMeta(meta, uri)
      THEN Inject(WriteSpecCsp(WriteOpenAiCsp(named, merged), merged), cfg)
      ELSE Inject(meta, cfg)

(* An entry that is no widget by its URI and has no metadata stays as it   *)
(* is; for others metadata is made up where there is none.                 *)
RewriteEntry(item, uriKey, cfg) ==
  LET uri == StringIn(Get(item, uriKey))
      meta == IF Has(item, "_meta") THEN Get(item, "_meta") ELSE Obj(<<>>)
  IN  IF IsWidgetUri(uri) \/ Has(item, "_meta")
      THEN Insert(item, "_meta", RewriteWidgetMeta(meta, uri, cfg))
      ELSE item

RewriteEntries(result, arrayKey, uriKey, cfg) ==
  IF ~IsArray(Get(result, arrayKey)) THEN result
  ELSE LET items == Get(result, arrayKey).items
       IN  Put(result, arrayKey,
               Arr([i \in DOMAIN items |-> RewriteEntry(items[i], uriKey, cfg)]))

(* Where the results of a method keep their resources.  No other method    *)
(* but those of tools/ is looked at, and those by the safety net only.     *)
ArrayKey ==
  [method \in {"resources/list", "resources/templates/list", "resources/read"} |->
     CASE method = "resources/list" -> "resources"
       [] method = "resources/templates/list" -> "resourceTemplates"
       [] method = "resources/read" -> "contents"]

UriKey(method) ==
  IF method = "resources/templates/list" THEN "uriTemplate" ELSE "uri"

ToolMethods == {"tools/list", "tools/call"}

RewriteResultTargetedOnly(method, result, cfg) ==
  IF method \in DOMAIN ArrayKey
  THEN RewriteEntries(result, ArrayKey[method], UriKey(method), cfg) ELSE result

RewriteResult(method, result, cfg) ==
  CASE method \in DOMAIN ArrayKey ->
         Inject(RewriteEntries(result, ArrayKey[method], UriKey(method), cfg), cfg)
    [] method \in ToolMethods -> Inject(result, cfg)
    [] OTHER -> result
=============================================================================
