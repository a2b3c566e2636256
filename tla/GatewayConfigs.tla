--------------------------- MODULE GatewayConfigs ---------------------------
(***************************************************************************)
(* What is pure about the command line: the configuration file, what       *)
(* "mcpr validate" says of it, how "mcpr proxy run" lowers it, and what    *)
(* "mcpr proxy setup" reads from an old one and writes to a new one        *)
(* (mcpr-cli/src/config.rs, mcpr-cli/src/cmd/setup.rs).                    *)
(*                                                                         *)
(* A name is a sequence of words, alphanumeric ones and separators; a      *)
(* config file is known by the stem of its name, itself a name; a URL is   *)
(* its host, and whether it parses.                                        *)
(***************************************************************************)
EXTENDS AuthDiscovery, FiniteSets

CONSTANTS NoValue,        \* a setting that is not given
          DefaultCloud    \* the cloud a setup uses unless told otherwise

Or(setting, default) == IF setting = NoValue THEN default ELSE setting

Separators == {"_", ".", ":", "-", " "}
IsUrl(u) == u # NoValue /\ u.valid
EmptyUrl == [valid |-> FALSE, host |-> <<>>]

-----------------------------------------------------------------------------
(* Files: missing, broken (unreadable or no TOML), or a table of settings. *)
NoCloud == [token |-> NoValue, server |-> NoValue, endpoint |-> NoValue]
NoCsp == [mode |-> NoValue, legacyDomains |-> FALSE, policyModes |-> <<>>, blankWidget |-> FALSE]
DefaultConfig == [name |-> NoValue, mcp |-> NoValue, port |-> NoValue,
                  csp |-> NoCsp, auth |-> NoValue, cloud |-> NoCloud]

MissingFile == [kind |-> "missing"]
BrokenFile == [kind |-> "broken"]
ConfigFile(config) == [kind |-> "table", config |-> config]

(* FileConfig::load: only the default path may be missing. *)
LoadFile(content, explicit) ==
  CASE content.kind = "table" -> content
    [] content.kind = "missing" /\ ~explicit -> ConfigFile(DefaultConfig)
    [] OTHER -> BrokenFile

(* validate_config: severities, and what they are about.  policyModes is   *)
(* a function of the directives that have a policy of their own.           *)
KnownModes == {"extend", "replace", "override"}

(* A deviation a careless edit could introduce; not part of the            *)
(* specification.                                                          *)
IssueOnlyWarned(found, severity, about) == IF found THEN {<<"warn", about>>} ELSE {}

Issue(found, severity, about) == IF found THEN {<<severity, about>>} ELSE {}

IssuesOf(c) ==
  LET modes == c.csp.policyModes
      checked == {"connect", "resource", "frame"} \cap DOMAIN modes
  IN       Issue(c.mcp = NoValue, "warn", "mcp")
      \cup Issue(c.mcp # NoValue /\ ~IsUrl(c.mcp), "error", "mcp")
      \cup Issue(c.port = 0, "warn", "port")
      \cup Issue(c.csp.mode = "override", "warn", "csp.mode")
      \cup Issue(c.csp.mode \notin KnownModes \cup {NoValue}, "error", "csp.mode")
      \cup Issue(c.csp.legacyDomains /\ "connect" \notin checked, "warn", "csp.domains")
      \cup Issue(\E d \in checked : modes[d] \notin KnownModes \cup {NoValue},
                 "error", "csp policy")
      \cup Issue(c.csp.blankWidget, "error", "csp.widget")

Validate(content) ==
  IF content.kind = "table" THEN IssuesOf(content.config) ELSE {<<"error", "file">>}

(* The exit status of "mcpr validate": warnings do not count. *)
ValidateFails(content) == \E issue \in Validate(content) : issue[1] = "error"

-----------------------------------------------------------------------------
(* resolve_proxy_name: the name given, or the stem of the file's name.     *)
ResolveProxyName(given, stem, found) ==
  LET raw == CASE given # NoValue -> given
               [] given = NoValue /\ found /\ stem # <<"mcpr">> -> stem
               [] OTHER -> <<"default">>
  IN  [i \in DOMAIN raw |-> IF raw[i] \in Separators THEN "-" ELSE raw[i]]

(* load_gateway, and the defaults run_gateway_inner fills in.              *)
LoadGateway(c, stem, found) ==
  [name |-> ResolveProxyName(c.name, stem, found),
   mcp |-> c.mcp,
   port |-> c.port,
   auth |-> IF c.auth = NoValue THEN NoAuth ELSE IntoAuth(c.auth, Or(c.port, 0)),
   cloud |-> c.cloud]

DefaultPort == 3004
SinksOf(cfg) ==
  {[kind |-> "stderr"], [kind |-> "sqlite", proxy |-> cfg.name]}
  \cup IF cfg.cloud.token = NoValue THEN {}
       ELSE {[kind |-> "cloud", token |-> cfg.cloud.token, server |-> cfg.cloud.server,
              endpoint |-> Or(cfg.cloud.endpoint, <<DefaultCloud, "ingest-events">>)]}

-----------------------------------------------------------------------------
(* Setup. *)
NoDefaults == [mcp |-> NoValue, name |-> NoValue, token |-> NoValue, server |-> NoValue]

LoadExisting(content) ==
  IF content.kind # "table" THEN NoDefaults
  ELSE [mcp |-> content.config.mcp, name |-> content.config.name,
        token |-> content.config.cloud.token, server |-> content.config.cloud.server]

Trimmed(s) == LET kept == {i \in DOMAIN s : s[i] # "-"}
              IN  IF kept = {} THEN <<>>
                  ELSE SubSeq(s, CHOOSE i \in kept : \A j \in kept : i <= j,
                                 CHOOSE i \in kept : \A j \in kept : j <= i)
Slugify(name) ==
  Trimmed([i \in DOMAIN name |-> IF name[i] \in Separators THEN "-" ELSE name[i]])

DefaultLocalName(defaults, mcp) ==
  LET slug == Slugify(mcp.host)
  IN  IF defaults.name # NoValue THEN defaults.name
      ELSE IF slug = <<>> THEN <<"proxy">> ELSE slug

(* build_config. *)
BuildConfig(name, mcp, port, cloud) ==
  ConfigFile([DefaultConfig EXCEPT !.name = name, !.mcp = mcp, !.port = port, !.cloud = cloud])
CloudCfg(token, server, url) ==
  [token |-> token, server |-> server,
   endpoint |-> IF url = DefaultCloud THEN NoValue ELSE <<url>>]

(* next_available_config_path: mcpr.toml, mcpr_2.toml, mcpr_3.toml ...     *)
Numbered(i) == IF i = 1 THEN <<"mcpr">> ELSE <<"mcpr", "_", ToString(i)>>

(* A deviation a careless edit could introduce; not part of the            *)
(* specification.                                                          *)
NextAvailableSecond(files) ==
  IF files[Numbered(1)] = MissingFile THEN Numbered(1) ELSE Numbered(2)

NextAvailable(files) ==
  LET free == {i \in 1 .. Cardinality(DOMAIN files) + 1 :
                 Numbered(i) \in DOMAIN files => files[Numbered(i)] = MissingFile}
  IN  Numbered(CHOOSE i \in free : \A j \in free : i <= j)

(* load_cached_auth: the login kept on disk, unless it is another cloud's  *)
(* or within five minutes of its end.                                      *)
NoLogin == [url |-> NoValue, life |-> "expired"]

LoadCachedAuth(cache, url) ==
  IF cache.url # url \/ cache.life # "fresh" THEN NoLogin ELSE cache
=============================================================================
