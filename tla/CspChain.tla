------------------------------ MODULE CspChain ------------------------------
(***************************************************************************)
(* An MCP result on its way through gateways: the stage of module          *)
(* CspRewrite under the policy of a configuration file, once or, when the  *)
(* upstream server is itself a gateway with that file, twice.              *)
(***************************************************************************)
EXTENDS CspRewrite

CONSTANTS Files,     \* the [csp] tables and upstream URLs of interest
          Results,   \* results of the server: [method, result]
          Documents  \* those results and all that is in them

(* What the TOML and the JSON parser return: strings are lists of words,   *)
(* and arrays are lists.                                                   *)
Texts == Seq(STRING)

MadeOf(v, S) == \/ IsObject(v) /\ Children(v) \subseteq S
                \/ IsArray(v) /\ v.items \in Seq(S)
                \/ IsString(v) /\ v.v \in Texts
                \/ v.t \in {"null", "boolean", "int", "long", "number"}

AreDocuments(S) == \A v \in S : MadeOf(v, S)

ASSUME FilesAssumption == \A f \in Files : CspTable(f, Texts)

ASSUME ResultsAssumption ==
  /\ AreDocuments(Documents)
  /\ \A r \in Results : /\ r.result \in Documents
                        /\ Nested(r.result, MaxNesting + 1) = {}

VARIABLES file,      \* the configuration
          method,    \* the method the result answers
          original,  \* the server's result
          result,    \* what has become of it
          passes     \* gateways it went through

chainVars == <<file, method, original, result, passes>>

MaxPasses == 2

ChainInit == /\ file \in Files
             /\ \E r \in Results : /\ method = r.method
                                   /\ original = r.result
                                   /\ result = r.result
             /\ passes = 0

Rewrite == /\ passes < MaxPasses
           /\ passes' = passes + 1
           /\ result' = RewriteResult(method, result, IntoRuntime(file))
           /\ UNCHANGED <<file, method, original>>

ChainNext == Rewrite
ChainSpec == ChainInit /\ [][ChainNext]_chainVars

-----------------------------------------------------------------------------
Entries(r) == IF method \in DOMAIN ArrayKey THEN ItemsOf(Get(r, ArrayKey[method]))
                                            ELSE <<>>
UriOf(item) == StringIn(Get(item, UriKey(method)))
MetaOf(item) == Get(item, "_meta")

(* Metadata that is there but no object cannot hold a policy. *)
Widgets == {i \in DOMAIN Entries(original) :
              LET item == Entries(original)[i]
              IN  /\ Has(item, "_meta") => IsObject(MetaOf(item))
                  /\ IsWidgetMeta(MetaOf(item), UriOf(item))}

(* The lists of directive d that the i-th entry holds now. *)
ListsOf(i, d) ==
  LET meta == MetaOf(Entries(result)[i])
  IN  {DomainsOf(Get(OpenAiCsp(meta), OpenAiKey[k])) : k \in {d} \cap DOMAIN OpenAiKey}
        \cup {DomainsOf(Get(SpecCsp(meta), SpecKey[k])) : k \in {d} \cap DOMAIN SpecKey}

UriFor(i) == LET item == Entries(original)[i]
             IN  InferredUri(MetaOf(item), UriOf(item))

Allowed(i, d) == AllowedDomains(IntoRuntime(file), d, UriFor(i),
                                CollectUpstream(MetaOf(Entries(original)[i]), d))

(* What a host enforces is what the operator's policy says: whichever of   *)
(* the two shapes it reads, a widget's list holds exactly the proxy where  *)
(* it is needed, the domains declared in a layer that no later layer       *)
(* replaces, and, when no layer replaces, what the server asked for minus  *)
(* itself; each once, and after a second gateway just the same.            *)
ListsFollowPolicy ==
  passes > 0 =>
    \A i \in Widgets, d \in Directives : \A list \in ListsOf(i, d) :
      ToSet(list) = Allowed(i, d) /\ IsInjective(list)

(* The server's own wish to frame something is heard only when the file    *)
(* has a frame policy that says "extend": a missing table, a missing mode  *)
(* or a mistyped one keep frames closed (frameDomains fails closed).       *)
FramesFailClosed ==
  passes > 0 =>
    \A i \in Widgets : \A list \in ListsOf(i, "frame") : \A d \in ToSet(list) :
      \/ d \in Declared(IntoRuntime(file), "frame", UriFor(i))
      \/ "frame" \in DOMAIN file.policy /\ file.policy["frame"].mode = "extend"

(* With a public origin no connect or resource list of the results that    *)
(* are looked at lacks the proxy, however deep it is and whether or not it *)
(* belongs to a widget: a widget that cannot reach the proxy cannot work.  *)
(* (docs/proxy/WIDGET_CSP.md:149, and :28, say that metadata of none is    *)
(* left untouched.  The code has it otherwise, and says so in the comment  *)
(* at csp_rewritten_stage.rs:236: the deep scan repairs such lists too.)   *)
InjectedLists(v) ==
  UNION {{w.m[key] : key \in {key \in DOMAIN w.m \cap InjectedKeys : IsArray(w.m[key])}} :
           w \in {w \in UNION {Nested(v, n) : n \in 0 .. MaxNesting - 1} : IsObject(w)}}

ProxyReachable ==
  (/\ passes > 0
   /\ method \in DOMAIN ArrayKey \cup ToolMethods
   /\ IsPublicOrigin(ProxyUrl(IntoRuntime(file)))) =>
    \A list \in InjectedLists(result) :
      Contains(list.items, Str(ProxyUrl(IntoRuntime(file))))
=============================================================================
