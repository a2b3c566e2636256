---------------------------- MODULE GatewayStart ----------------------------
(***************************************************************************)
(* The command line at work (mcpr-cli/src/main.rs, cmd/setup.rs): a user   *)
(* goes through "mcpr proxy setup", which talks to a cloud and saves a     *)
(* config file, edits files by hand, and runs "mcpr proxy run", which      *)
(* reads a file and comes up with it or exits.  Meanwhile logins grow old  *)
(* and other programs take and free ports.                                 *)
(*                                                                         *)
(* The cloud's API is external: it is asked through CloudClient            *)
(* (mcpr-integrations/src/cloud_client.rs), and may refuse anything.       *)
(***************************************************************************)
EXTENDS GatewayConfigs

CONSTANTS Stems,        \* config files there can be, by the stem of the name
          Ports,        \* ports there are
          Hosts,        \* URLs a user may type
          Clouds,       \* base URLs of clouds
          Projects,     \* what projects and servers may be called
          Slugs,
          HandWritten,  \* what a user writes into a file by hand
          MaxSetups, MaxEdits, MaxRuns   \* bounds

ASSUME StartAssumption == /\ Numbered(1) \in Stems
                          /\ DefaultCloud \in Clouds
                          /\ Ports \subseteq 1 .. 65535
                          /\ {MaxSetups, MaxEdits, MaxRuns} \subseteq Nat

(* Files of different numbers have different names. *)
ASSUME NamesAssumption ==
  /\ IsFiniteSet(Stems)
  /\ \A i, j \in 1 .. Cardinality(Stems) + 1 : Numbered(i) = Numbered(j) => i = j

VARIABLES files,     \* the contents of each config file
          cache,     \* the login in ~/.mcpr/auth.json
          cloud,     \* per cloud its projects and their servers
          taken,     \* ports other programs listen on
          setup,     \* the setup under way
          gateway,   \* the gateway process
          setups, edits, runs   \* how often each was begun

vars == <<files, cache, cloud, taken, setup, gateway, setups, edits, runs>>

NoSetup == [at |-> "none", url |-> NoValue, output |-> NoValue, defaults |-> NoDefaults,
            mcp |-> NoValue, port |-> NoValue, login |-> NoLogin,
            project |-> NoValue, server |-> NoValue, token |-> NoValue, path |-> NoValue,
            found |-> {}]   \* history: the files there when it looked for a name
NoGateway == [at |-> "none", stem |-> NoValue, file |-> MissingFile,
              sinks |-> {}, provider |-> NoProvider, port |-> NoValue, why |-> "none"]

(* What earlier uses left: files, and perhaps a login and a server. *)
Init == /\ files \in [Stems -> {MissingFile} \cup HandWritten]
        /\ cache \in {NoLogin} \cup [url : Clouds, life : {"fresh"}]
        /\ \E ps \in SUBSET Projects : \E known \in [ps -> SUBSET Slugs] :
             cloud = [c \in Clouds |-> known]
        /\ taken = {}
        /\ setup = NoSetup
        /\ gateway = NoGateway
        /\ setups = 0 /\ edits = 0 /\ runs = 0

-----------------------------------------------------------------------------
(* The user and the world outside. *)
EditFile(stem, content) ==
  /\ edits < MaxEdits
  /\ edits' = edits + 1
  /\ files' = [files EXCEPT ![stem] = content]
  /\ UNCHANGED <<cache, cloud, taken, setup, gateway, setups, runs>>

Listening == IF gateway.at \in {"serving", "draining"} THEN {gateway.port} ELSE {}
Available(p) == p = 0 \/ p \notin taken \cup Listening

OtherProgram(p) ==
  /\ p \notin Listening
  /\ taken' = IF p \in taken THEN taken \ {p} ELSE taken \cup {p}
  /\ UNCHANGED <<files, cache, cloud, setup, gateway, setups, edits, runs>>

(* A login is fresh, then in its last five minutes, then expired.          *)
Older == [fresh |-> "late", late |-> "expired", expired |-> "expired"]

LoginAges ==
  /\ {cache.life, setup.login.life} # {"expired"}
  /\ cache' = [cache EXCEPT !.life = Older[@]]
  /\ setup' = [setup EXCEPT !.login.life = Older[@]]
  /\ UNCHANGED <<files, cloud, taken, gateway, setups, edits, runs>>

-----------------------------------------------------------------------------
(* mcpr proxy setup.  A step of it changes nothing else but the cloud.     *)
Keep == UNCHANGED <<taken, gateway, setups, edits, runs>>
KeepWorld == Keep /\ UNCHANGED <<files, cache, cloud>>
Go(at, s) == setup' = [s EXCEPT !.at = at]

BeginSetup(url, output) ==
  /\ setup.at = "none" /\ setups < MaxSetups
  /\ setups' = setups + 1
  /\ Go(IF output = NoValue /\ files[Numbered(1)] # MissingFile THEN "defaults" ELSE "mcp",
        [NoSetup EXCEPT !.url = url, !.output = output])
  /\ UNCHANGED <<files, cache, cloud, taken, gateway, edits, runs>>

UseDefaults(use) ==
  /\ setup.at = "defaults"
  /\ Go("mcp", [setup EXCEPT !.defaults =
                  IF use THEN LoadExisting(files[Numbered(1)]) ELSE NoDefaults])
  /\ KeepWorld

EnterMcp(mcp) ==
  /\ setup.at = "mcp"
  /\ IF mcp = EmptyUrl THEN setup' = NoSetup
                       ELSE Go("port", [setup EXCEPT !.mcp = mcp])
  /\ KeepWorld

(* A port in use is asked for again. *)
EnterPort(port) ==
  /\ setup.at = "port"
  /\ port # NoValue => Available(port)
  /\ Go("cloud", [setup EXCEPT !.port = port])
  /\ KeepWorld

(* Any prompt may be cancelled, any call to the cloud may fail. *)
SetupFails ==
  /\ setup.at # "none"
  /\ setup' = NoSetup
  /\ KeepWorld

ChooseCloud(enable) ==
  /\ setup.at = "cloud"
  /\ Go(IF enable THEN "login" ELSE "save", setup)
  /\ KeepWorld

(* What the cloud answers: to a code it sent by mail a login, to a request *)
(* for a token one of the project's.                                       *)
CliLogin(url) == [url |-> url, life |-> "fresh"]
ProjectToken == <<setup.url, setup.project>>

(* ensure_authenticated: the cached login, or a code sent by mail. *)
UseCachedLogin ==
  /\ setup.at = "login"
  /\ LoadCachedAuth(cache, setup.url) # NoLogin
  /\ Go("project", [setup EXCEPT !.login = LoadCachedAuth(cache, setup.url)])
  /\ KeepWorld

Authenticate ==
  /\ setup.at = "login"
  /\ LoadCachedAuth(cache, setup.url) = NoLogin
  /\ cache' = CliLogin(setup.url)
  /\ Go("project", [setup EXCEPT !.login = CliLogin(setup.url)])
  /\ Keep /\ UNCHANGED <<files, cloud>>

(* An authorized call.  The cloud takes a login of its own that has not    *)
(* expired; a call it refuses ends the setup.                              *)
Call == Keep /\ UNCHANGED <<files, cache>>
Accepted == setup.login.url = setup.url /\ setup.login.life # "expired"

CallRefused ==
  /\ setup.at \in {"project", "server", "token"}
  /\ setup' = NoSetup
  /\ Call /\ UNCHANGED cloud

MyProjects == DOMAIN cloud[setup.url]
MyServers == cloud[setup.url][setup.project]

(* select_or_create_project, select_or_create_server.  Which prompt leads  *)
(* to a server that exists, the one for the old config's or the list, is   *)
(* not told apart.                                                         *)
ChooseProject(p) ==
  /\ setup.at = "project" /\ Accepted
  /\ p \in MyProjects
  /\ Go("server", [setup EXCEPT !.project = p])
  /\ Call /\ UNCHANGED cloud

CreateProject(p) ==
  /\ setup.at = "project" /\ Accepted
  /\ p \notin MyProjects
  /\ cloud' = [cloud EXCEPT ![setup.url] = (p :> {}) @@ @]
  /\ Go("server", [setup EXCEPT !.project = p])
  /\ Call

ChooseServer(s) ==
  /\ setup.at = "server" /\ Accepted
  /\ s \in MyServers
  /\ Go("token", [setup EXCEPT !.server = s])
  /\ Call /\ UNCHANGED cloud

CreateServer(s) ==
  /\ setup.at = "server" /\ Accepted
  /\ s \notin MyServers
  /\ cloud' = [cloud EXCEPT ![setup.url][setup.project] = @ \cup {s}]
  /\ Go("token", [setup EXCEPT !.server = s])
  /\ Call

(* The old config's token serves again when it was for a server of this    *)
(* slug and the user agrees.                                               *)
ReuseToken ==
  /\ setup.at = "token"
  /\ setup.defaults.token # NoValue
  /\ setup.defaults.server = setup.server
  /\ Go("save", [setup EXCEPT !.token = setup.defaults.token])
  /\ KeepWorld

CreateToken ==
  /\ setup.at = "token" /\ Accepted
  /\ Go("save", [setup EXCEPT !.token = ProjectToken])
  /\ Call /\ UNCHANGED cloud

(* The config file, a local one when no server was chosen. *)
NewConfig ==
  IF setup.server = NoValue
  THEN BuildConfig(DefaultLocalName(setup.defaults, setup.mcp), setup.mcp, setup.port, NoCloud)
  ELSE BuildConfig(setup.server, setup.mcp, setup.port,
                   CloudCfg(setup.token, setup.server, setup.url))

SavePath == IF setup.output # NoValue THEN setup.output ELSE NextAvailable(files)

(* The path is chosen with the last name looked at: the names before it    *)
(* were taken, and a config file that is there stays there.                *)
ChoosePath ==
  /\ setup.at = "save"
  /\ SavePath \in Stems
  /\ Go("write", [setup EXCEPT !.path = SavePath,
                               !.found = {stem \in Stems : files[stem] # MissingFile}])
  /\ KeepWorld

(* The file is written without another look at what is there by now.  A    *)
(* write that fails half way leaves an empty file, a table of defaults.    *)
Write ==
  /\ setup.at = "write"
  /\ \E written \in {NewConfig, ConfigFile(DefaultConfig)} :
       files' = [files EXCEPT ![setup.path] = written]
  /\ setup' = NoSetup
  /\ Keep /\ UNCHANGED <<cache, cloud>>

-----------------------------------------------------------------------------
(* mcpr proxy run.  The process exits on the first thing that is wrong.    *)
KeepOthers == UNCHANGED <<files, cache, cloud, taken, setup, setups, edits>>
Exit(g, why) == gateway' = [g EXCEPT !.at = "exited", !.why = why]
Cfg == LoadGateway(LoadFile(gateway.file, gateway.stem # NoValue).config,
                   Or(gateway.stem, Numbered(1)), gateway.file # MissingFile)

RunGateway(stem) ==
  /\ gateway.at \in {"none", "exited"} /\ runs < MaxRuns
  /\ runs' = runs + 1
  /\ LET content == files[Or(stem, Numbered(1))]
         g == [NoGateway EXCEPT !.stem = stem, !.file = content]
     IN  IF LoadFile(content, stem # NoValue).kind = "broken"
         THEN Exit(g, "file")
         ELSE gateway' = [g EXCEPT !.at = "loaded"]
  /\ KeepOthers

(* The upstream must be given; the data directory must be known and the    *)
(* store must open; then the sinks are registered and the bus is started.  *)
OpenStore(opens) ==
  /\ gateway.at = "loaded"
  /\ CASE Cfg.mcp = NoValue -> Exit(gateway, "mcp")
       [] Cfg.mcp # NoValue /\ ~opens -> Exit(gateway, "store")
       [] OTHER -> gateway' = [gateway EXCEPT !.at = "bus", !.sinks = SinksOf(Cfg)]
  /\ KeepOthers /\ UNCHANGED runs

(* build_app: the pool of connections needs the upstream's URL and the     *)
(* certificates the system trusts, which may fail to load (pool.rs:89).    *)
UpstreamParses == IsUrl(Cfg.mcp)

BuildApp(probe, roots) ==
  /\ gateway.at = "bus"
  /\ CASE ~UpstreamParses -> Exit(gateway, "app")
       [] UpstreamParses /\ ~roots -> Exit(gateway, "roots")
       [] OTHER -> gateway' = [gateway EXCEPT
            !.at = "built",
            !.provider = BuildAuthProvider(Cfg.auth # NoAuth, Cfg.auth, TRUE, probe)]
  /\ KeepOthers /\ UNCHANGED runs

(* Port 0 lets the system choose one. *)
Bind ==
  /\ gateway.at = "built"
  /\ LET wanted == Or(Cfg.port, DefaultPort)
     IN  \/ /\ \/ wanted # 0 /\ Available(wanted) /\ gateway' =
                      [gateway EXCEPT !.at = "serving", !.port = wanted]
            \/ /\ wanted = 0
               /\ \E p \in Ports \ taken :
                    gateway' = [gateway EXCEPT !.at = "serving", !.port = p]
         \/ ~Available(wanted) /\ Exit(gateway, "port")
  /\ KeepOthers /\ UNCHANGED runs

Signal ==
  /\ gateway.at = "serving"
  /\ gateway' = [gateway EXCEPT !.at = "draining"]
  /\ KeepOthers /\ UNCHANGED runs

Return ==
  /\ gateway.at = "draining"
  /\ Exit(gateway, "signal")
  /\ KeepOthers /\ UNCHANGED runs

-----------------------------------------------------------------------------
SetupStep ==
  \/ \E url \in Clouds, output \in Stems \cup {NoValue} : BeginSetup(url, output)
  \/ \E use \in BOOLEAN : UseDefaults(use)
  \/ \E mcp \in Hosts \cup {EmptyUrl} : EnterMcp(mcp)
  \/ \E port \in Ports \cup {0, NoValue} : EnterPort(port)
  \/ \E enable \in BOOLEAN : ChooseCloud(enable)
  \/ UseCachedLogin \/ Authenticate
  \/ \E p \in Projects : ChooseProject(p) \/ CreateProject(p)
  \/ \E s \in Slugs : ChooseServer(s) \/ CreateServer(s)
  \/ ReuseToken \/ CreateToken
  \/ CallRefused \/ SetupFails
  \/ ChoosePath \/ Write

GatewayStep ==
  \/ \E stem \in Stems \cup {NoValue} : RunGateway(stem)
  \/ \E opens \in BOOLEAN : OpenStore(opens)
  \/ \E probe \in {Missing, Obj(<<>>)}, roots \in BOOLEAN : BuildApp(probe, roots)
  \/ Bind
  \/ Signal \/ Return

Next ==
  \/ SetupStep
  \/ GatewayStep
  \/ \E stem \in Stems, content \in HandWritten : EditFile(stem, content)
  \/ \E p \in Ports : OtherProgram(p)
  \/ LoginAges

Spec == Init /\ [][Next]_vars

-----------------------------------------------------------------------------
(* A setup that was not told where to save (cmd/setup.rs:251) changes no   *)
(* config file but one that was not there when it looked for a name.  The  *)
(* hand-written ones and those of earlier setups stay as they are, and the *)
(* user goes on running what ran before; a file made between the look and  *)
(* the write (cmd/setup.rs:259) is lost.  (docs/CLI.md:36 and :55 say that *)
(* setup writes ./mcpr.toml, also where there is one.)                     *)
SavedConfigsKept ==
  [][(setup # setup' /\ setup.output = NoValue) =>
       \A s \in Stems : files'[s] # files[s] => setup.at = "write" /\ s \notin setup.found]_vars

(* What "mcpr validate" has nothing to say about, "mcpr proxy run" can     *)
(* run: when a gateway exits while starting, then for the store, the       *)
(* system's certificates or the port, or for something the validator has a *)
(* message about (config.rs:322 against main.rs:73 and RouterStage::new).  *)
(* The message about a missing upstream is a warning only.                 *)
ValidatedConfigStarts ==
  gateway.at = "exited" =>
    \/ gateway.why \in {"store", "roots", "port", "signal"}
    \/ gateway.why \in {"file", "app"} /\ ValidateFails(gateway.file)
    \/ gateway.why = "mcp" /\ \E severity \in {"warn", "error"} :
         Validate(gateway.file) \cap {<<severity, "mcp">>, <<severity, "file">>} # {}
=============================================================================
