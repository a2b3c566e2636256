--------------------------- MODULE AuthDiscovery ---------------------------
(***************************************************************************)
(* Authorization as the gateway sees it (auth/): it never checks anything, *)
(* but notes which credential a request carried and which challenge came   *)
(* back, and it answers the discovery of protected resources in place of   *)
(* the server when the [auth] table of mcpr.toml gives it what to say.     *)
(*                                                                         *)
(* A token is a model value or, when it is a JWT, the document of its      *)
(* claims; a header is [scheme, rest], its first word and the remainder.   *)
(***************************************************************************)
EXTENDS JsonValues

NoHeader == [scheme |-> "", rest |-> Missing]

(* The credential of a request (parse_request_auth).  The fingerprint is a *)
(* salted hash: equal for equal tokens, and not the token.                 *)
Fingerprint(token) == [hashOf |-> token]

ScopesOf(v) ==
  CASE IsString(v) -> v.v
    [] IsArray(v) -> LET strings == SelectSeq(v.items, IsString)
                     IN  [i \in DOMAIN strings |-> strings[i].v]
    [] OTHER -> <<>>

ParseBearer(token) ==
  IF ~IsObject(token) THEN Missing
  ELSE [sub |-> Get(token, "sub"),
        scope |-> ScopesOf(IF Has(token, "scope") THEN Get(token, "scope")
                                                  ELSE Get(token, "scopes"))]

ParseRequestAuth(header) ==
  [scheme |-> header.scheme,
   fingerprint |-> IF header.scheme = "" \/ None(header.rest) THEN Missing
                   ELSE Fingerprint(header.rest),
   jwt |-> IF header.scheme \in {"bearer", "Bearer", "BEARER"}
           THEN ParseBearer(header.rest) ELSE Missing]

ObservedNothing(auth) == auth.scheme = ""

(* The challenge of a response (parse_www_authenticate); rest is the list  *)
(* of its parameters, of which the last one of a name counts.              *)
ChallengeKeys == {"realm", "resource_metadata", "scope", "error", "error_description"}

ParseChallenge(header) ==
  IF header.scheme = "" THEN Missing
  ELSE LET last(key) == CHOOSE i \in DOMAIN header.rest :
                          /\ header.rest[i][1] = key
                          /\ \A j \in DOMAIN header.rest :
                               header.rest[j][1] = key => j <= i
           named == {key \in ChallengeKeys :
                       \E i \in DOMAIN header.rest : header.rest[i][1] = key}
       IN  [scheme |-> header.scheme,
            params |-> [key \in named |-> header.rest[last(key)][2]]]

-----------------------------------------------------------------------------
(* The [auth] table, when there is one, lowered to what the gateway runs   *)
(* with: nothing without an authorization server.                          *)
NoAuth == [servers |-> <<>>]

IntoAuth(table, port) ==
  IF table.servers = <<>> THEN NoAuth
  ELSE [servers |-> table.servers,
        resource |-> IF table.resource # "" THEN table.resource ELSE <<"localhost", port>>,
        methods |-> IF table.methods = <<>> THEN <<"header">> ELSE table.methods,
        scopes |-> table.scopes]

(* Two kinds of provider, one that answers with its configuration and one  *)
(* that answers with what the upstream server said when the gateway came   *)
(* up.  probe is what its discovery URL answers, Missing for a failure.    *)
NoProvider == [kind |-> "none"]

BuildAuthProvider(hasTable, auth, mcpIsUrl, probe) ==
  CASE ~hasTable -> NoProvider
    [] hasTable /\ auth.servers # <<>> -> [kind |-> "static", metadata |-> auth]
    [] hasTable /\ auth.servers = <<>> /\ mcpIsUrl /\ ~None(probe) ->
         [kind |-> "reflect", metadata |-> probe]
    [] OTHER -> NoProvider

(* What a provider may decide; neither of them ever denies.                *)
Serve(body) == [decision |-> "serve", body |-> body]
Forward == [decision |-> "forward"]

(* Both answer for the resource itself and let everything else through.    *)
ProtectedResource == "/.well-known/oauth-protected-resource"

HandleOAuth(provider, path) ==
  IF provider.kind \in {"static", "reflect"} /\ path = ProtectedResource
  THEN Serve(provider.metadata)
  ELSE Forward
=============================================================================
