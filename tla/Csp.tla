-------------------------------- MODULE Csp --------------------------------
(***************************************************************************)
(* The content security policy of widgets (proxy2/csp.rs) and how the      *)
(* [csp] table of mcpr.toml is lowered into it (proxy2/proxy_config.rs).   *)
(*                                                                         *)
(* Domains, hosts, URIs and patterns are sequences of words, so that one   *)
(* can contain another: <<"https://", "cdn.", "acme.com">>; a slash after  *)
(* the scheme is a word of its own.                                        *)
(***************************************************************************)
EXTENDS Lists

Directives == {"connect", "resource", "frame", "baseUri", "redirect"}
Unset == "unset"   \* an optional setting that is not given

-----------------------------------------------------------------------------
(* The file.  A directive may have a policy of its own; mode and domains   *)
(* of the legacy shape stand for those of connect and resource.            *)
ParseMode(s) ==
  CASE s = "extend" -> "Extend"
    [] s \in {"replace", "override"} -> "Replace"
    [] OTHER -> Unset

ModeOr(s, default) == IF ParseMode(s) = Unset THEN default ELSE ParseMode(s)

(* A deviation a careless edit of the lowering could introduce; not part   *)
(* of the specification.                                                   *)
IntoPolicyOpen(p, default) == [domains |-> p.domains, mode |-> ModeOr(p.mode, "Extend")]

IntoPolicy(p, default) == [domains |-> p.domains, mode |-> ModeOr(p.mode, default)]

Strict == [domains |-> <<>>, mode |-> "Replace"]
Permissive == [domains |-> <<>>, mode |-> "Extend"]

(* file.policy is a function of the directives the file gives a policy.    *)
IntoRuntime(file) ==
  LET legacy == [domains |-> file.domains, mode |-> ModeOr(file.mode, "Extend")]
      absent == [connect |-> legacy, resource |-> legacy, frame |-> Strict,
                 baseUri |-> Permissive, redirect |-> Permissive]
  IN  [policy |-> [d \in Directives |->
                     IF d \in DOMAIN file.policy
                     THEN IntoPolicy(file.policy[d],
                                     IF d = "frame" THEN "Replace" ELSE "Extend")
                     ELSE absent[d]],
       widgets |-> file.widgets,
       domain |-> file.domain,
       upstream |-> file.mcp]

-----------------------------------------------------------------------------
(* Words about origins. *)
Mentions(d, part) ==
  \E i \in 1 .. Len(d) - Len(part) + 1 : SubSeq(d, i, i + Len(part) - 1) = part

IsLoopback(d) == Mentions(d, <<"localhost">>) \/ Mentions(d, <<"127.0.0.1">>)

IsPublicOrigin(url) == url # <<>> /\ ~IsLoopback(url)

IsUiResource(uri) == uri # <<>> /\ Head(uri) = "ui://"

Schemes == {"http://", "https://"}

(* How many words in front are in S. *)
Lead(d, S) ==
  CHOOSE n \in 0 .. Len(d) : /\ \A i \in 1 .. n : d[i] \in S
                             /\ n < Len(d) => d[n + 1] \notin S

TrimStart(d, word) == SubSeq(d, Lead(d, {word}) + 1, Len(d))

(* What is left of a URL without its scheme and its path: the host.        *)
StripScheme(url) ==
  LET rest == TrimStart(TrimStart(url, "https://"), "http://")
  IN  SubSeq(rest, 1, Lead(rest, ToSet(rest) \ {"/"}))

(* What the server said of itself makes no sense behind the proxy. *)
IsSelfReference(d, host) == IsLoopback(d) \/ (host # <<>> /\ Mentions(d, host))

(* rest[<<i, j>>]: what is left of the pattern after i words matches what  *)
(* is left of the text after j.                                            *)
GlobMatch(p, t) ==
  LET rest[at \in (0 .. Len(p)) \X (0 .. Len(t))] ==
        LET i == at[1]
            j == at[2]
        IN  IF i = Len(p) THEN j = Len(t)
            ELSE IF p[i + 1] = "*"
            THEN rest[<<i + 1, j>>] \/ (j < Len(t) /\ rest[<<i, j + 1>>])
            ELSE j < Len(t) /\ p[i + 1] \in {"?", t[j + 1]} /\ rest[<<i + 1, j + 1>>]
  IN  rest[<<0, 0>>]

-----------------------------------------------------------------------------
(* The merge. *)
ProxyUrl(cfg) == IF cfg.domain = <<>> THEN <<"http://", "localhost">>
                                      ELSE <<"https://">> \o cfg.domain

Injects(cfg, directive) ==
  directive \in {"connect", "resource"} /\ IsPublicOrigin(ProxyUrl(cfg))

(* The policies that have a say on a URI: the global one, in place 0, and  *)
(* those of the widget entries that match it, in the order of the file;    *)
(* uri is the set of the one URI, or empty where there is none.            *)
Layer(cfg, directive, k) ==
  IF k = 0 THEN cfg.policy[directive] ELSE cfg.widgets[k].policy[directive]

Applies(cfg, uri, k) ==
  k = 0 \/ \E u \in uri : GlobMatch(cfg.widgets[k].pattern, u)

(* What the server asked for, unless the global policy replaces it. *)
Seed(cfg, directive, upstream) ==
  IF cfg.policy[directive].mode = "Replace" THEN <<>>
  ELSE Only(upstream, {d \in ToSet(upstream) : ~IsSelfReference(d, StripScheme(cfg.upstream))})

(* A deviation a careless edit of the merge could introduce; not part of   *)
(* the specification.                                                      *)
MergedNeverReplacing(cfg, directive, uri, upstream) ==
  LET base[k \in 0 .. Len(cfg.widgets)] ==
        IF k = 0 THEN PushAll(Seed(cfg, directive, upstream), Layer(cfg, directive, 0).domains)
        ELSE IF ~Applies(cfg, uri, k) THEN base[k - 1]
        ELSE PushAll(base[k - 1], Layer(cfg, directive, k).domains)
  IN  base[Len(cfg.widgets)]

(* To that come the domains of each layer; one that replaces drops all     *)
(* that was there before it.                                               *)
MergedLayers(cfg, directive, uri, upstream) ==
  LET base[k \in 0 .. Len(cfg.widgets)] ==
        IF k = 0 THEN PushAll(Seed(cfg, directive, upstream), Layer(cfg, directive, 0).domains)
        ELSE IF ~Applies(cfg, uri, k) THEN base[k - 1]
        ELSE IF Layer(cfg, directive, k).mode = "Replace" THEN Layer(cfg, directive, k).domains
        ELSE PushAll(base[k - 1], Layer(cfg, directive, k).domains)
  IN  base[Len(cfg.widgets)]

(* In front stands the proxy, for what must reach it. *)
EffectiveDomains(cfg, directive, uri, upstream) ==
  PushAll(IF Injects(cfg, directive) THEN <<ProxyUrl(cfg)>> ELSE <<>>,
          MergedLayers(cfg, directive, uri, upstream))

-----------------------------------------------------------------------------
(* A file over the domains of D, whatever its modes say, mistyped ones and *)
(* missing ones included; and a configuration as the gateway holds it, a   *)
(* policy for each directive, globally and in each widget entry.  A URL    *)
(* has its scheme in front, if any.                                        *)
Url(url) == url \in Seq(STRING) /\ \A i \in 2 .. Len(url) : url[i] \notin Schemes

Policies(D) == [Directives -> [domains : Seq(D), mode : {"Extend", "Replace"}]]

CspTable(file, D) ==
  /\ file.domains \in Seq(D)
  /\ DOMAIN file.policy \subseteq Directives
  /\ \A d \in DOMAIN file.policy : file.policy[d].domains \in Seq(D)
  /\ Len(file.widgets) \in Nat
  /\ \A k \in 1 .. Len(file.widgets) : file.widgets[k].policy \in Policies(D)
  /\ file.domain \in D \cup {<<>>}
  /\ Url(file.mcp)
  /\ ProxyUrl(file) \in D

RuntimeConfig(cfg, D) ==
  /\ cfg.policy \in Policies(D)
  /\ Len(cfg.widgets) \in Nat
  /\ \A k \in 1 .. Len(cfg.widgets) : cfg.widgets[k].policy \in Policies(D)
  /\ cfg.domain \in D \cup {<<>>}
  /\ Url(cfg.upstream)
  /\ ProxyUrl(cfg) \in D

-----------------------------------------------------------------------------
(* What the merge is for, without its order: the domains of every layer    *)
(* that no later one replaces; when none replaces, what the server asked   *)
(* for minus itself; and the proxy where it is needed.                     *)
Stands(cfg, directive, uri, k) ==
  \A j \in k + 1 .. Len(cfg.widgets) :
    Applies(cfg, uri, j) => Layer(cfg, directive, j).mode # "Replace"

Declared(cfg, directive, uri) ==
  UNION {ToSet(Layer(cfg, directive, k).domains) :
           k \in {k \in 0 .. Len(cfg.widgets) :
                    Applies(cfg, uri, k) /\ Stands(cfg, directive, uri, k)}}

(* Domain d mentions the host of the URL: the words of it between where    *)
(* its scheme ends, if it has one, and where its path begins.              *)
NamesHost(d, url) ==
  \E n \in {0, 1}, m \in 1 .. Len(url) :
    /\ n < m
    /\ n = 1 <=> url[1] \in Schemes
    /\ \A i \in n + 1 .. m : url[i] # "/"
    /\ m < Len(url) => url[m + 1] = "/"
    /\ Mentions(d, SubSeq(url, n + 1, m))

Heard(cfg, directive, uri, upstream) ==
  IF cfg.policy[directive].mode = "Replace" \/ ~Stands(cfg, directive, uri, 0) THEN {}
  ELSE {d \in ToSet(upstream) : ~IsLoopback(d) /\ ~NamesHost(d, cfg.upstream)}

AllowedDomains(cfg, directive, uri, upstream) ==
  Declared(cfg, directive, uri) \cup Heard(cfg, directive, uri, upstream)
    \cup (IF Injects(cfg, directive) THEN {ProxyUrl(cfg)} ELSE {})
=============================================================================
