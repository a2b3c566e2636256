------------------------ MODULE ConfigurationProofs -------------------------
(***************************************************************************)
(* Proofs about what a configuration comes to.  For any files, clouds,     *)
(* names and ports, and however often setup and gateway are begun: what    *)
(* setup leaves alone, and what a failed start has to do with the          *)
(* validator's messages.  For every [csp] table and whatever the server    *)
(* asks for: which URIs a widget's pattern names, the policies a widget    *)
(* ends up with, and, in documents of any shape and depth, the lists that  *)
(* a chain of gateways leaves in them.                                     *)
(***************************************************************************)
EXTENDS GatewayStart, CspChain, ListProofs

-----------------------------------------------------------------------------
(* There are more numbered names than files, so that one is free.          *)
LEMMA FreeNameExists ==
  ASSUME DOMAIN files = Stems
  PROVE  NextAvailable(files) \in Stems => files[NextAvailable(files)] = MissingFile
<1> DEFINE n == Cardinality(Stems)
           free == {i \in 1 .. n + 1 :
                      Numbered(i) \in Stems => files[Numbered(i)] = MissingFile}
           least == CHOOSE i \in free : \A j \in free : i <= j
<1>1. n \in Nat
  BY NamesAssumption, FS_CardinalityType
<1>2. free # {}
  <2> DEFINE name == [i \in 1 .. n + 1 |-> Numbered(i)]
  <2>1. SUFFICES ASSUME free = {}
                 PROVE  FALSE
    OBVIOUS
  <2>2. name \in [1 .. n + 1 -> Stems]
    BY <2>1
  <2>3. IsFiniteSet(1 .. n + 1) /\ Cardinality(1 .. n + 1) = n + 1
    <3> HIDE DEF n
    <3> QED BY <1>1, UpToFinite
  <2>4. \E i, j \in 1 .. n + 1 : i # j /\ name[i] = name[j]
    <3>1. Cardinality(Stems) < Cardinality(1 .. n + 1) /\ IsFiniteSet(Stems)
      BY <1>1, <2>3, NamesAssumption
    <3> HIDE DEF name, n, free, least
    <3> QED BY <2>2, <2>3, <3>1, FS_PigeonHole
  <2> QED BY <2>4, NamesAssumption
<1>3. least \in free
  <2>1. free \in SUBSET Nat
    OBVIOUS
  <2>2. IsFiniteSet(free)
    <3>1. IsFiniteSet(1 .. n + 1)
      <4> HIDE DEF n
      <4> QED BY <1>1, UpToFinite
    <3> QED BY <3>1, FS_Subset
  <2> HIDE DEF free
  <2>3. \E i \in free : \A j \in free : i <= j
    BY <1>2, <2>1, <2>2, LeastNumber
  <2> QED BY <2>3
<1>4. NextAvailable(files) = Numbered(least)
  BY DEF NextAvailable
<1> HIDE DEF least
<1> QED BY <1>3, <1>4

(* What next_available_config_path promises, until the file is written: a  *)
(* name, and one that no file had when it looked.                          *)
PathInv ==
  /\ DOMAIN files = Stems
  /\ DOMAIN setup = DOMAIN NoSetup
  /\ (setup.at = "write" /\ setup.output = NoValue) =>
       setup.path \in Stems /\ setup.path \notin setup.found

LEMMA PathInvInit == Init => PathInv
BY DEF Init, PathInv, NoSetup

(* A step that leads elsewhere than to the write keeps it. *)
LEMMA GoPreserves ==
  ASSUME PathInv, DOMAIN files' = Stems, NEW at, at # "write",
         NEW s, DOMAIN s = DOMAIN NoSetup, Go(at, s)
  PROVE  PathInv'
<1>1. DOMAIN setup' = DOMAIN NoSetup /\ setup'.at = at
  BY DEF Go, NoSetup
<1> QED BY <1>1 DEF PathInv

LEMMA ChoosePathPreserves ==
  ASSUME PathInv, ChoosePath
  PROVE  PathInv'
<1> DEFINE found == {stem \in Stems : files[stem] # MissingFile}
<1>1. files' = files /\ DOMAIN setup = DOMAIN NoSetup /\ SavePath \in Stems
  BY DEF ChoosePath, KeepWorld, PathInv
<1>2. /\ DOMAIN setup' = DOMAIN NoSetup
      /\ setup'.path = SavePath /\ setup'.found = found /\ setup'.output = setup.output
  BY <1>1 DEF ChoosePath, Go, NoSetup
<1>3. ASSUME setup'.output = NoValue
      PROVE  SavePath \notin found
  <2>1. SavePath = NextAvailable(files)
    BY <1>2, <1>3 DEF SavePath
  <2> QED BY <1>1, <2>1, FreeNameExists DEF PathInv
<1> QED BY <1>1, <1>2, <1>3 DEF PathInv

LEMMA PathInvNext == PathInv /\ [Next]_vars => PathInv'
<1> SUFFICES ASSUME PathInv, [Next]_vars
             PROVE  PathInv'
  OBVIOUS
<1>1. CASE UNCHANGED <<files, setup>>
  BY <1>1 DEF PathInv
<1>2. CASE setup' = NoSetup /\ DOMAIN files' = Stems
  BY <1>2 DEF PathInv, NoSetup
<1>3. CASE ChoosePath
  BY <1>3, ChoosePathPreserves
<1>4. ASSUME NEW url \in Clouds, NEW output \in Stems \cup {NoValue}, BeginSetup(url, output)
      PROVE  PathInv'
  <2> DEFINE s == [NoSetup EXCEPT !.url = url, !.output = output]
  <2>1. DOMAIN s = DOMAIN NoSetup
    BY DEF NoSetup
  <2>2. \E at : at # "write" /\ Go(at, s) /\ files' = files
    <3>1. Go("defaults", s) \/ Go("mcp", s)
      BY <1>4 DEF BeginSetup
    <3> QED BY <1>4, <3>1 DEF BeginSetup
  <2> HIDE DEF s
  <2> QED BY <2>1, <2>2, GoPreserves DEF PathInv
<1>5. CASE \/ \E use \in BOOLEAN : UseDefaults(use)
           \/ \E mcp \in Hosts \cup {EmptyUrl} : EnterMcp(mcp)
           \/ \E port \in Ports \cup {0, NoValue} : EnterPort(port)
           \/ \E enable \in BOOLEAN : ChooseCloud(enable)
           \/ UseCachedLogin \/ Authenticate
           \/ \E p \in Projects : ChooseProject(p) \/ CreateProject(p)
           \/ \E sl \in Slugs : ChooseServer(sl) \/ CreateServer(sl)
           \/ ReuseToken \/ CreateToken
  <2>1. files' = files
    BY <1>5 DEF UseDefaults, EnterMcp, EnterPort, ChooseCloud, UseCachedLogin, Authenticate,
                ChooseProject, CreateProject, ChooseServer, CreateServer, ReuseToken,
                CreateToken, Keep, KeepWorld, Call
  <2>2. \/ setup' = NoSetup
        \/ \E at, s : at # "write" /\ DOMAIN s = DOMAIN setup /\ Go(at, s)
    <3>1. CASE \E use \in BOOLEAN : UseDefaults(use)
      BY <3>1 DEF UseDefaults
    <3>2. CASE \E mcp \in Hosts \cup {EmptyUrl} : EnterMcp(mcp)
      BY <3>2 DEF EnterMcp
    <3>3. CASE \E port \in Ports \cup {0, NoValue} : EnterPort(port)
      BY <3>3 DEF EnterPort
    <3>4. CASE \E enable \in BOOLEAN : ChooseCloud(enable)
      BY <3>4 DEF ChooseCloud
    <3>5. CASE UseCachedLogin \/ Authenticate
      BY <3>5 DEF UseCachedLogin, Authenticate
    <3>6. CASE \E p \in Projects : ChooseProject(p) \/ CreateProject(p)
      BY <3>6 DEF ChooseProject, CreateProject
    <3>7. CASE \E sl \in Slugs : ChooseServer(sl) \/ CreateServer(sl)
      BY <3>7 DEF ChooseServer, CreateServer
    <3>8. CASE ReuseToken \/ CreateToken
      BY <3>8 DEF ReuseToken, CreateToken
    <3> QED BY <1>5, <3>1, <3>2, <3>3, <3>4, <3>5, <3>6, <3>7, <3>8
  <2> QED BY <1>2, <2>1, <2>2, GoPreserves DEF PathInv
<1>6. CASE Write \/ CallRefused \/ SetupFails
  <2>1. setup' = NoSetup /\ DOMAIN files' = DOMAIN files
    BY <1>6 DEF Write, CallRefused, SetupFails, Call, KeepWorld
  <2> QED BY <1>2, <2>1 DEF PathInv
<1>7. CASE \E stem \in Stems, content \in HandWritten : EditFile(stem, content)
  BY <1>7 DEF EditFile, PathInv
<1>8. CASE LoginAges
  BY <1>8 DEF LoginAges, PathInv, NoSetup
<1>9. CASE GatewayStep
  BY <1>1, <1>9 DEF GatewayStep, RunGateway, OpenStore, BuildApp, Bind, Signal, Return, KeepOthers
<1>10. CASE \E p \in Ports : OtherProgram(p)
  BY <1>1, <1>10 DEF OtherProgram
<1>11. CASE SetupStep
  BY <1>3, <1>4, <1>5, <1>6, <1>11 DEF SetupStep
<1>12. CASE UNCHANGED vars
  BY <1>1, <1>12 DEF vars
<1> QED BY <1>7, <1>8, <1>9, <1>10, <1>11, <1>12 DEF Next

(* A setup that was not told where to save changes no file that was there  *)
(* when it looked for a name, whatever is done to files meanwhile.         *)
THEOREM StartKeepsSavedConfigs == Spec => SavedConfigsKept
<1> DEFINE Kept_ == (setup # setup' /\ setup.output = NoValue) =>
                      \A s \in Stems : files'[s] # files[s] =>
                                        setup.at = "write" /\ s \notin setup.found
<1>1. PathInv /\ [Next]_vars => [Kept_]_vars
  <2> SUFFICES ASSUME PathInv, Next, setup # setup', setup.output = NoValue,
                      NEW s \in Stems, files'[s] # files[s]
               PROVE  setup.at = "write" /\ s \notin setup.found
    OBVIOUS
  <2>1. CASE Write
    <3>1. setup.path \in Stems /\ setup.path \notin setup.found /\ setup.at = "write"
      BY <2>1 DEF Write, PathInv
    <3>2. \E written : files' = [files EXCEPT ![setup.path] = written]
      BY <2>1 DEF Write
    <3>3. s = setup.path
      BY <3>2
    <3> QED BY <3>1, <3>3
  <2>2. CASE SetupStep /\ ~Write
    BY <2>2 DEF SetupStep, BeginSetup, UseDefaults, EnterMcp, EnterPort, ChooseCloud,
                UseCachedLogin, Authenticate, ChooseProject, CreateProject, ChooseServer,
                CreateServer, ReuseToken, CreateToken, CallRefused, SetupFails, ChoosePath,
                Keep, KeepWorld, Call
  <2>3. CASE GatewayStep
    BY <2>3 DEF GatewayStep, RunGateway, OpenStore, BuildApp, Bind, Signal, Return, KeepOthers
  <2>4. CASE \E stem \in Stems, content \in HandWritten : EditFile(stem, content)
    BY <2>4 DEF EditFile
  <2>5. CASE (\E p \in Ports : OtherProgram(p)) \/ LoginAges
    BY <2>5 DEF OtherProgram, LoginAges
  <2> QED BY <2>1, <2>2, <2>3, <2>4, <2>5 DEF Next
<1> QED BY <1>1, PathInvInit, PathInvNext, PTL DEF Spec, SavedConfigsKept

-----------------------------------------------------------------------------
(* What the loader refuses the validator refuses. *)
LEMMA BrokenFileFails ==
  ASSUME NEW content, NEW explicit \in BOOLEAN, LoadFile(content, explicit).kind = "broken"
  PROVE  ValidateFails(content)
<1>1. content.kind # "table"
  BY DEF LoadFile
<1>2. Validate(content) = {<<"error", "file">>}
  BY <1>1 DEF Validate
<1> QED BY <1>2 DEF ValidateFails

(* The upstream a table names is the one of the file, and none is named    *)
(* where the default path is missing.                                      *)
LEMMA TableIsFileOrDefault ==
  ASSUME NEW content, NEW explicit \in BOOLEAN, LoadFile(content, explicit).kind = "table"
  PROVE  \/ content.kind = "table" /\ LoadFile(content, explicit) = content
         \/ /\ content.kind # "table"
            /\ LoadFile(content, explicit).config.mcp = NoValue
BY DEF LoadFile, ConfigFile, BrokenFile, DefaultConfig

(* A file without an upstream has a message about it, or one about itself. *)
LEMMA NoUpstreamNoticed ==
  ASSUME NEW content, NEW explicit \in BOOLEAN, LoadFile(content, explicit).kind = "table",
         LoadFile(content, explicit).config.mcp = NoValue
  PROVE  \E severity \in {"warn", "error"} :
           Validate(content) \cap {<<severity, "mcp">>, <<severity, "file">>} # {}
<1>1. CASE content.kind = "table"
  <2>1. content.config.mcp = NoValue
    BY <1>1, TableIsFileOrDefault
  <2>2. <<"warn", "mcp">> \in Validate(content)
    BY <1>1, <2>1 DEF Validate, IssuesOf, Issue
  <2> QED BY <2>2
<1>2. CASE content.kind # "table"
  BY <1>2 DEF Validate
<1> QED BY <1>1, <1>2

(* An upstream that is no URL is an error. *)
LEMMA BadUpstreamFails ==
  ASSUME NEW content, NEW explicit \in BOOLEAN, LoadFile(content, explicit).kind = "table",
         LoadFile(content, explicit).config.mcp # NoValue,
         ~IsUrl(LoadFile(content, explicit).config.mcp)
  PROVE  ValidateFails(content)
<1>1. content.kind = "table" /\ LoadFile(content, explicit) = content
  BY TableIsFileOrDefault
<1>2. <<"error", "mcp">> \in Validate(content)
  BY <1>1 DEF Validate, IssuesOf, Issue
<1> QED BY <1>2 DEF ValidateFails

-----------------------------------------------------------------------------
(* A gateway that got past the loader has a table, and one that got past   *)
(* the store an upstream.                                                  *)
Loaded == LoadFile(gateway.file, gateway.stem # NoValue)

StartInv ==
  /\ DOMAIN gateway = DOMAIN NoGateway
  /\ gateway.at \in {"loaded", "bus"} => Loaded.kind = "table"
  /\ gateway.at = "bus" => Loaded.config.mcp # NoValue
  /\ ValidatedConfigStarts

(* Before the first run there is nothing to say. *)
LEMMA StartInvInit == Init => StartInv
BY DEF Init, StartInv, NoGateway, ValidatedConfigStarts

(* load_gateway passes the upstream on as it is. *)
LEMMA CfgMcp == Cfg.mcp = Loaded.config.mcp
BY DEF Cfg, LoadGateway, Loaded

(* The loader. *)
LEMMA RunPreserves ==
  ASSUME StartInv, NEW stem, RunGateway(stem)
  PROVE  StartInv'
<1> DEFINE content == files[Or(stem, Numbered(1))]
           g == [NoGateway EXCEPT !.stem = stem, !.file = content]
<1>1. /\ DOMAIN g = DOMAIN NoGateway
      /\ g.stem = stem /\ g.file = content
  BY DEF NoGateway
<1> HIDE DEF g
<1>2. \/ /\ LoadFile(content, stem # NoValue).kind = "broken"
         /\ gateway' = [g EXCEPT !.at = "exited", !.why = "file"]
      \/ /\ LoadFile(content, stem # NoValue).kind # "broken"
         /\ gateway' = [g EXCEPT !.at = "loaded"]
  BY DEF RunGateway, Exit, g
<1> HIDE DEF content
<1>3. /\ DOMAIN gateway' = DOMAIN NoGateway
      /\ gateway'.stem = stem /\ gateway'.file = content
  BY <1>1, <1>2 DEF NoGateway
<1>4. CASE gateway' = [g EXCEPT !.at = "exited", !.why = "file"] /\
           LoadFile(content, stem # NoValue).kind = "broken"
  <2>1. gateway'.at = "exited" /\ gateway'.why = "file"
    BY <1>1, <1>4 DEF NoGateway
  <2>2. ValidateFails(content)
    BY <1>4, BrokenFileFails
  <2> QED BY <1>3, <2>1, <2>2 DEF StartInv, ValidatedConfigStarts
<1>5. CASE gateway' = [g EXCEPT !.at = "loaded"] /\
           LoadFile(content, stem # NoValue).kind # "broken"
  <2>1. gateway'.at = "loaded"
    BY <1>1, <1>5 DEF NoGateway
  <2>2. LoadFile(content, stem # NoValue).kind = "table"
    BY <1>5 DEF LoadFile, ConfigFile, BrokenFile
  <2> QED BY <1>3, <2>1, <2>2 DEF StartInv, ValidatedConfigStarts, Loaded
<1> QED BY <1>2, <1>4, <1>5

(* The upstream and the store. *)
LEMMA OpenPreserves ==
  ASSUME StartInv, NEW opens \in BOOLEAN, OpenStore(opens)
  PROVE  StartInv'
<1>1. /\ gateway.at = "loaded" /\ Loaded.kind = "table"
      /\ DOMAIN gateway = DOMAIN NoGateway
  BY DEF OpenStore, StartInv
<1>2. CASE Loaded.config.mcp = NoValue
  <2>1. gateway' = [gateway EXCEPT !.at = "exited", !.why = "mcp"]
    BY <1>2, CfgMcp DEF OpenStore, Exit
  <2>2. /\ DOMAIN gateway' = DOMAIN NoGateway
        /\ gateway'.at = "exited" /\ gateway'.why = "mcp" /\ gateway'.file = gateway.file
    BY <1>1, <2>1 DEF NoGateway
  <2>3. \E severity \in {"warn", "error"} :
          Validate(gateway.file) \cap {<<severity, "mcp">>, <<severity, "file">>} # {}
    BY <1>1, <1>2, NoUpstreamNoticed DEF Loaded
  <2> QED BY <2>2, <2>3 DEF StartInv, ValidatedConfigStarts
<1>3. CASE Loaded.config.mcp # NoValue /\ ~opens
  <2>1. gateway' = [gateway EXCEPT !.at = "exited", !.why = "store"]
    BY <1>3, CfgMcp DEF OpenStore, Exit
  <2>2. /\ DOMAIN gateway' = DOMAIN NoGateway
        /\ gateway'.at = "exited" /\ gateway'.why = "store"
    BY <1>1, <2>1 DEF NoGateway
  <2> QED BY <2>2 DEF StartInv, ValidatedConfigStarts
<1>4. CASE Loaded.config.mcp # NoValue /\ opens
  <2>1. gateway' = [gateway EXCEPT !.at = "bus", !.sinks = SinksOf(Cfg)]
    BY <1>4, CfgMcp DEF OpenStore
  <2>2. /\ DOMAIN gateway' = DOMAIN NoGateway
        /\ gateway'.at = "bus" /\ gateway'.file = gateway.file /\ gateway'.stem = gateway.stem
    BY <1>1, <2>1 DEF NoGateway
  <2>3. Loaded' = Loaded
    BY <2>2 DEF Loaded
  <2> QED BY <1>1, <1>4, <2>2, <2>3 DEF StartInv, ValidatedConfigStarts
<1> QED BY <1>2, <1>3, <1>4

(* The pool of connections. *)
LEMMA BuildPreserves ==
  ASSUME StartInv, NEW probe, NEW roots \in BOOLEAN, BuildApp(probe, roots)
  PROVE  StartInv'
<1>1. /\ gateway.at = "bus" /\ Loaded.kind = "table" /\ Loaded.config.mcp # NoValue
      /\ DOMAIN gateway = DOMAIN NoGateway
  BY DEF BuildApp, StartInv
<1>2. CASE IsUrl(Loaded.config.mcp) /\ roots
  <2>1. \E provider :
          gateway' = [gateway EXCEPT !.at = "built", !.provider = provider]
    BY <1>2, CfgMcp DEF BuildApp, UpstreamParses
  <2>2. DOMAIN gateway' = DOMAIN NoGateway /\ gateway'.at = "built"
    BY <1>1, <2>1 DEF NoGateway
  <2> QED BY <2>2 DEF StartInv, ValidatedConfigStarts
<1>3. CASE ~IsUrl(Loaded.config.mcp)
  <2>1. gateway' = [gateway EXCEPT !.at = "exited", !.why = "app"]
    BY <1>3, CfgMcp DEF BuildApp, UpstreamParses, Exit
  <2>2. /\ DOMAIN gateway' = DOMAIN NoGateway
        /\ gateway'.at = "exited" /\ gateway'.why = "app" /\ gateway'.file = gateway.file
    BY <1>1, <2>1 DEF NoGateway
  <2>3. ValidateFails(gateway.file)
    BY <1>1, <1>3, BadUpstreamFails DEF Loaded
  <2> QED BY <2>2, <2>3 DEF StartInv, ValidatedConfigStarts
<1>4. CASE IsUrl(Loaded.config.mcp) /\ ~roots
  <2>1. gateway' = [gateway EXCEPT !.at = "exited", !.why = "roots"]
    BY <1>4, CfgMcp DEF BuildApp, UpstreamParses, Exit
  <2>2. /\ DOMAIN gateway' = DOMAIN NoGateway
        /\ gateway'.at = "exited" /\ gateway'.why = "roots"
    BY <1>1, <2>1 DEF NoGateway
  <2> QED BY <2>2 DEF StartInv, ValidatedConfigStarts
<1> QED BY <1>2, <1>3, <1>4

(* From here on nothing but the port can go wrong. *)
LEMMA ServePreserves ==
  ASSUME StartInv, Bind \/ Signal \/ Return
  PROVE  StartInv'
<1>1. DOMAIN gateway = DOMAIN NoGateway
  BY DEF StartInv
<1>2. CASE Bind
  <2>1. \/ \E p : gateway' = [gateway EXCEPT !.at = "serving", !.port = p]
        \/ gateway' = [gateway EXCEPT !.at = "exited", !.why = "port"]
    BY <1>2 DEF Bind, Exit
  <2>2. /\ DOMAIN gateway' = DOMAIN NoGateway
        /\ gateway'.at = "serving" \/ (gateway'.at = "exited" /\ gateway'.why = "port")
    BY <1>1, <2>1 DEF NoGateway
  <2> QED BY <2>2 DEF StartInv, ValidatedConfigStarts
<1>3. CASE Signal
  <2>1. DOMAIN gateway' = DOMAIN NoGateway /\ gateway'.at = "draining"
    BY <1>1, <1>3 DEF Signal, NoGateway
  <2> QED BY <2>1 DEF StartInv, ValidatedConfigStarts
<1>4. CASE Return
  <2>1. /\ DOMAIN gateway' = DOMAIN NoGateway
        /\ gateway'.at = "exited" /\ gateway'.why = "signal"
    BY <1>1, <1>4 DEF Return, Exit, NoGateway
  <2> QED BY <2>1 DEF StartInv, ValidatedConfigStarts
<1> QED BY <1>2, <1>3, <1>4

(* Setup, users and other programs do not touch a gateway that has started. *)
LEMMA StartInvNext == StartInv /\ [Next]_vars => StartInv'
<1> SUFFICES ASSUME StartInv, [Next]_vars
             PROVE  StartInv'
  OBVIOUS
<1>1. CASE UNCHANGED gateway
  BY <1>1 DEF StartInv, Loaded, ValidatedConfigStarts
<1>2. CASE GatewayStep
  BY <1>2, RunPreserves, OpenPreserves, BuildPreserves, ServePreserves DEF GatewayStep
<1>3. CASE SetupStep
  <2>1. UNCHANGED gateway
    BY <1>3 DEF SetupStep, BeginSetup, UseDefaults, EnterMcp, EnterPort, ChooseCloud,
                UseCachedLogin, Authenticate, ChooseProject, CreateProject, ChooseServer,
                CreateServer, ReuseToken, CreateToken, CallRefused, SetupFails, ChoosePath,
                Write, Keep, KeepWorld, Call
  <2> QED BY <1>1, <2>1
<1>4. CASE \/ \E stem \in Stems, content \in HandWritten : EditFile(stem, content)
           \/ \E p \in Ports : OtherProgram(p)
           \/ LoginAges
           \/ UNCHANGED vars
  <2>1. UNCHANGED gateway
    BY <1>4 DEF EditFile, OtherProgram, LoginAges, vars
  <2> QED BY <1>1, <2>1
<1> QED BY <1>2, <1>3, <1>4 DEF Next

(* A start that fails for another reason than the store, the system's      *)
(* certificates, the port or a signal fails for something the validator    *)
(* has a message about.                                                    *)
THEOREM StartValidatedConfigStarts == Spec => []ValidatedConfigStarts
<1>1. StartInv => ValidatedConfigStarts
  BY DEF StartInv
<1> QED BY <1>1, StartInvInit, StartInvNext, PTL DEF Spec

-----------------------------------------------------------------------------
(* Which URIs a widget's pattern names (GlobMatch of module Csp).          *)

(* What a pattern means: the text can be cut into pieces, one for each     *)
(* word of the pattern, of which "*" stands for any words, "?" for one,    *)
(* and every other word for itself.  c[i] is how far the text has come     *)
(* after i words.                                                          *)
Piece(p, t, i, from, to) ==
  IF p[i] = "*" THEN from <= to ELSE to = from + 1 /\ p[i] \in {"?", t[to]}

Cuts(c, p, t, i) ==
  /\ c \in [i .. Len(p) -> 0 .. Len(t)]
  /\ c[Len(p)] = Len(t)
  /\ \A k \in i + 1 .. Len(p) : Piece(p, t, k, c[k - 1], c[k])

Matched(p, t, i, j) == \E c : Cuts(c, p, t, i) /\ c[i] = j

(* The recursion of GlobMatch. *)
GlobStep(f, p, t, at) ==
  LET i == at[1]
      j == at[2]
  IN  IF i = Len(p) THEN j = Len(t)
      ELSE IF p[i + 1] = "*"
      THEN f[<<i + 1, j>>] \/ (j < Len(t) /\ f[<<i, j + 1>>])
      ELSE j < Len(t) /\ p[i + 1] \in {"?", t[j + 1]} /\ f[<<i + 1, j + 1>>]

Places(p, t) == (0 .. Len(p)) \X (0 .. Len(t))

GlobBy(f, p, t) == f = [at \in Places(p, t) |-> GlobStep(f, p, t, at)]

(* No words are left: neither of the text may be. *)
LEMMA MatchedEnd ==
  ASSUME NEW p, NEW t, Len(p) \in Nat, Len(t) \in Nat, NEW j \in 0 .. Len(t)
  PROVE  Matched(p, t, Len(p), j) <=> j = Len(t)
<1>1. ASSUME j = Len(t)
      PROVE  Matched(p, t, Len(p), j)
  <2> DEFINE c == [k \in Len(p) .. Len(p) |-> j]
  <2>1. Cuts(c, p, t, Len(p)) /\ c[Len(p)] = j
    BY <1>1 DEF Cuts
  <2> QED BY <2>1 DEF Matched
<1>2. ASSUME Matched(p, t, Len(p), j)
      PROVE  j = Len(t)
  BY <1>2 DEF Matched, Cuts
<1> QED BY <1>1, <1>2

(* The first word takes its piece, the others cut what remains. *)
LEMMA MatchedStep ==
  ASSUME NEW p, NEW t, Len(p) \in Nat, Len(t) \in Nat, NEW i \in 0 .. Len(p), i # Len(p),
         NEW j \in 0 .. Len(t)
  PROVE  Matched(p, t, i, j) <=>
           \E to \in 0 .. Len(t) : Piece(p, t, i + 1, j, to) /\ Matched(p, t, i + 1, to)
<1>1. ASSUME Matched(p, t, i, j)
      PROVE  \E to \in 0 .. Len(t) : Piece(p, t, i + 1, j, to) /\ Matched(p, t, i + 1, to)
  <2>1. PICK c : Cuts(c, p, t, i) /\ c[i] = j
    BY <1>1 DEF Matched
  <2> DEFINE d == [k \in i + 1 .. Len(p) |-> c[k]]
  <2>2. Cuts(d, p, t, i + 1) /\ d[i + 1] = c[i + 1]
    <3>1. d \in [i + 1 .. Len(p) -> 0 .. Len(t)] /\ d[Len(p)] = Len(t) /\ d[i + 1] = c[i + 1]
      BY <2>1 DEF Cuts
    <3>2. ASSUME NEW k \in (i + 1) + 1 .. Len(p)
          PROVE  Piece(p, t, k, d[k - 1], d[k])
      <4>1. d[k - 1] = c[k - 1] /\ d[k] = c[k] /\ k \in i + 1 .. Len(p)
        OBVIOUS
      <4> QED BY <2>1, <4>1 DEF Cuts
    <3> QED BY <3>1, <3>2 DEF Cuts
  <2>3. i + 1 \in i + 1 .. Len(p) /\ (i + 1) - 1 = i /\ i + 1 \in i .. Len(p)
    OBVIOUS
  <2>4. c[i + 1] \in 0 .. Len(t) /\ Piece(p, t, i + 1, j, c[i + 1])
    BY <2>1, <2>3 DEF Cuts
  <2> QED BY <2>2, <2>4 DEF Matched
<1>2. ASSUME NEW to \in 0 .. Len(t), Piece(p, t, i + 1, j, to), Matched(p, t, i + 1, to)
      PROVE  Matched(p, t, i, j)
  <2>1. PICK d : Cuts(d, p, t, i + 1) /\ d[i + 1] = to
    BY <1>2 DEF Matched
  <2> DEFINE c == [k \in i .. Len(p) |-> IF k = i THEN j ELSE d[k]]
  <2>2. c \in [i .. Len(p) -> 0 .. Len(t)]
    BY <2>1 DEF Cuts
  <2>3. c[i] = j /\ \A k \in i + 1 .. Len(p) : c[k] = d[k]
    OBVIOUS
  <2>4. c[Len(p)] = Len(t)
    BY <2>1 DEF Cuts
  <2> HIDE DEF c
  <2>5. ASSUME NEW k \in i + 1 .. Len(p)
        PROVE  Piece(p, t, k, c[k - 1], c[k])
    <3>1. CASE k = i + 1
      <4>1. c[k - 1] = j /\ c[k] = to
        BY <2>1, <2>3, <3>1
      <4> QED BY <1>2, <3>1, <4>1
    <3>2. CASE k # i + 1
      <4>1. c[k - 1] = d[k - 1] /\ c[k] = d[k] /\ k \in (i + 1) + 1 .. Len(p)
        BY <2>3, <3>2
      <4> QED BY <2>1, <4>1 DEF Cuts
    <3> QED BY <3>1, <3>2
  <2> QED BY <2>2, <2>3, <2>4, <2>5 DEF Matched, Cuts
<1> QED BY <1>1, <1>2

(* The meaning solves the recursion. *)
LEMMA MatchedUnfolds ==
  ASSUME NEW p, NEW t, Len(p) \in Nat, Len(t) \in Nat, NEW i \in 0 .. Len(p), i # Len(p),
         NEW j \in 0 .. Len(t)
  PROVE  /\ p[i + 1] = "*" =>
              (Matched(p, t, i, j) <=>
                 Matched(p, t, i + 1, j) \/ (j < Len(t) /\ Matched(p, t, i, j + 1)))
         /\ p[i + 1] # "*" =>
              (Matched(p, t, i, j) <=>
                 /\ j < Len(t)
                 /\ p[i + 1] \in {"?", t[j + 1]}
                 /\ Matched(p, t, i + 1, j + 1))
<1>1. Matched(p, t, i, j) <=>
        \E to \in 0 .. Len(t) : Piece(p, t, i + 1, j, to) /\ Matched(p, t, i + 1, to)
  BY MatchedStep
<1>2. CASE p[i + 1] = "*"
  <2>1. \A from, to : Piece(p, t, i + 1, from, to) <=> from <= to
    BY <1>2 DEF Piece
  <2>2. Matched(p, t, i, j) <=> \E to \in 0 .. Len(t) : j <= to /\ Matched(p, t, i + 1, to)
    BY <1>1, <2>1
  <2>3. CASE j < Len(t)
    <3>1. Matched(p, t, i, j + 1) <=>
            \E to \in 0 .. Len(t) : j + 1 <= to /\ Matched(p, t, i + 1, to)
      <4>1. j + 1 \in 0 .. Len(t)
        BY <2>3
      <4>2. Matched(p, t, i, j + 1) <=>
              \E to \in 0 .. Len(t) : Piece(p, t, i + 1, j + 1, to) /\ Matched(p, t, i + 1, to)
        BY <4>1, MatchedStep
      <4> QED BY <2>1, <4>2
    <3>2. \A to \in 0 .. Len(t) : j <= to <=> to = j \/ j + 1 <= to
      OBVIOUS
    <3> QED BY <1>2, <2>2, <2>3, <3>1, <3>2
  <2>4. CASE ~(j < Len(t))
    <3>1. \A to \in 0 .. Len(t) : j <= to <=> to = j
      BY <2>4
    <3> QED BY <1>2, <2>2, <2>4, <3>1
  <2> QED BY <2>3, <2>4
<1>3. CASE p[i + 1] # "*"
  <2>1. \A to : Piece(p, t, i + 1, j, to) <=> to = j + 1 /\ p[i + 1] \in {"?", t[to]}
    BY <1>3 DEF Piece
  <2>2. j + 1 \in 0 .. Len(t) <=> j < Len(t)
    OBVIOUS
  <2> QED BY <1>1, <1>3, <2>1, <2>2
<1> QED BY <1>2, <1>3

(* So there is a function that obeys it, and what GlobMatch reads is one. *)
LEMMA GlobExists ==
  ASSUME NEW p, NEW t, Len(p) \in Nat, Len(t) \in Nat
  PROVE  \E f : GlobBy(f, p, t)
<1> DEFINE f == [at \in Places(p, t) |-> Matched(p, t, at[1], at[2])]
<1>1. \A i \in 0 .. Len(p), j \in 0 .. Len(t) :
        <<i, j>> \in Places(p, t) /\ f[<<i, j>>] = Matched(p, t, i, j)
  BY DEF Places
<1>2. ASSUME NEW i \in 0 .. Len(p), NEW j \in 0 .. Len(t)
      PROVE  GlobStep(f, p, t, <<i, j>>) = Matched(p, t, i, j)
  <2> HIDE DEF f
  <2>1. CASE i = Len(p)
    <3>1. GlobStep(f, p, t, <<i, j>>) = (j = Len(t))
      BY <2>1 DEF GlobStep
    <3>2. Matched(p, t, i, j) \in BOOLEAN
      BY DEF Matched
    <3> QED BY <2>1, <3>1, <3>2, MatchedEnd
  <2>2. CASE i # Len(p)
    <3>1. /\ i + 1 \in 0 .. Len(p)
          /\ f[<<i + 1, j>>] = Matched(p, t, i + 1, j)
          /\ j < Len(t) => /\ f[<<i, j + 1>>] = Matched(p, t, i, j + 1)
                           /\ f[<<i + 1, j + 1>>] = Matched(p, t, i + 1, j + 1)
      BY <1>1, <2>2
    <3>2. GlobStep(f, p, t, <<i, j>>)
            = IF p[i + 1] = "*"
              THEN f[<<i + 1, j>>] \/ (j < Len(t) /\ f[<<i, j + 1>>])
              ELSE j < Len(t) /\ p[i + 1] \in {"?", t[j + 1]} /\ f[<<i + 1, j + 1>>]
      BY <2>2 DEF GlobStep
    <3>3. Matched(p, t, i, j) \in BOOLEAN
      BY DEF Matched
    <3> QED BY <2>2, <3>1, <3>2, <3>3, MatchedUnfolds
  <2> QED BY <2>1, <2>2
<1>3. \A at \in Places(p, t) : GlobStep(f, p, t, at) = Matched(p, t, at[1], at[2])
  <2> HIDE DEF f
  <2>1. \A at \in Places(p, t) : at[1] \in 0 .. Len(p) /\ at[2] \in 0 .. Len(t) /\ at = <<at[1], at[2]>>
    BY DEF Places
  <2> QED BY <1>2, <2>1
<1>4. GlobBy(f, p, t)
  BY <1>3 DEF GlobBy
<1> QED BY <1>4

(* What such a function says of one place. *)
LEMMA GlobUnfolds ==
  ASSUME NEW p, NEW t, NEW f, GlobBy(f, p, t), NEW i \in 0 .. Len(p), NEW j \in 0 .. Len(t)
  PROVE  f[<<i, j>>] = GlobStep(f, p, t, <<i, j>>)
<1> DEFINE next(g) == [at \in Places(p, t) |-> GlobStep(g, p, t, at)]
<1>1. f = next(f)
  BY DEF GlobBy
<1>2. <<i, j>> \in Places(p, t)
  BY DEF Places
<1>3. next(f)[<<i, j>>] = GlobStep(f, p, t, <<i, j>>)
  BY <1>2
<1> HIDE DEF next
<1> QED BY <1>1, <1>3

(* Any such function agrees with the meaning where it does further on ... *)
LEMMA GlobAgrees ==
  ASSUME NEW p, NEW t, Len(p) \in Nat, Len(t) \in Nat, NEW f, GlobBy(f, p, t),
         NEW i \in 0 .. Len(p), i # Len(p), NEW j \in 0 .. Len(t),
         \A k \in 0 .. Len(t) : f[<<i + 1, k>>] = Matched(p, t, i + 1, k),
         j < Len(t) => f[<<i, j + 1>>] = Matched(p, t, i, j + 1)
  PROVE  f[<<i, j>>] = Matched(p, t, i, j)
<1>1. f[<<i, j>>] = IF p[i + 1] = "*"
                    THEN f[<<i + 1, j>>] \/ (j < Len(t) /\ f[<<i, j + 1>>])
                    ELSE j < Len(t) /\ p[i + 1] \in {"?", t[j + 1]} /\ f[<<i + 1, j + 1>>]
  <2>1. f[<<i, j>>] = GlobStep(f, p, t, <<i, j>>)
    BY GlobUnfolds
  <2> QED BY <2>1 DEF GlobStep
<1>2. f[<<i + 1, j>>] = Matched(p, t, i + 1, j)
      /\ (j < Len(t) => f[<<i + 1, j + 1>>] = Matched(p, t, i + 1, j + 1))
  OBVIOUS
<1>3. Matched(p, t, i, j) \in BOOLEAN
  BY DEF Matched
<1> QED BY <1>1, <1>2, <1>3, MatchedUnfolds

(* ... hence everywhere, from the last word back to the first. *)
LEMMA GlobIsMatched ==
  ASSUME NEW p, NEW t, Len(p) \in Nat, Len(t) \in Nat, NEW f, GlobBy(f, p, t)
  PROVE  \A i \in 0 .. Len(p), j \in 0 .. Len(t) : f[<<i, j>>] = Matched(p, t, i, j)
<1> DEFINE m == Len(p)
           n == Len(t)
           Row(i) == \A j \in 0 .. n : f[<<i, j>>] = Matched(p, t, i, j)
           T == {d \in Nat : d <= m => Row(m - d)}
<1>1. 0 \in T
  <2> SUFFICES ASSUME NEW j \in 0 .. n
               PROVE  f[<<m, j>>] = Matched(p, t, m, j)
    OBVIOUS
  <2>1. f[<<m, j>>] = (j = n)
    <3>1. m \in 0 .. m
      OBVIOUS
    <3>2. f[<<m, j>>] = GlobStep(f, p, t, <<m, j>>)
      BY <3>1, GlobUnfolds
    <3>3. GlobStep(f, p, t, <<m, j>>) = (j = n)
      BY DEF GlobStep
    <3> QED BY <3>2, <3>3
  <2>2. Matched(p, t, m, j) \in BOOLEAN
    BY DEF Matched
  <2> QED BY <2>1, <2>2, MatchedEnd
<1>2. ASSUME NEW d \in Nat, d \in T
      PROVE  d + 1 \in T
  <2> SUFFICES ASSUME d + 1 <= m
               PROVE  Row(m - (d + 1))
    OBVIOUS
  <2> DEFINE i == m - (d + 1)
             U == {e \in Nat : e <= n => f[<<i, n - e>>] = Matched(p, t, i, n - e)}
  <2>1. i \in 0 .. m /\ i # m /\ i + 1 = m - d
    OBVIOUS
  <2>2. Row(i + 1)
    <3>1. Row(m - d)
      <4>1. d <= m
        OBVIOUS
      <4> HIDE DEF Row
      <4> QED BY <1>2, <4>1
    <3> HIDE DEF Row, i
    <3> QED BY <2>1, <3>1
  <2> HIDE DEF i, T
  <2>3. ASSUME NEW j \in 0 .. n, j < n => f[<<i, j + 1>>] = Matched(p, t, i, j + 1)
        PROVE  f[<<i, j>>] = Matched(p, t, i, j)
    BY <2>1, <2>2, <2>3, GlobAgrees
  <2>4. 0 \in U
    <3>1. n \in 0 .. n /\ n - 0 = n /\ ~(n < n)
      OBVIOUS
    <3> QED BY <2>3, <3>1
  <2>5. ASSUME NEW e \in Nat, e \in U
        PROVE  e + 1 \in U
    <3>1. SUFFICES ASSUME e + 1 <= n
                   PROVE  f[<<i, n - (e + 1)>>] = Matched(p, t, i, n - (e + 1))
      OBVIOUS
    <3>2. n - (e + 1) \in 0 .. n /\ (n - (e + 1)) + 1 = n - e /\ e <= n
      BY <3>1
    <3>3. f[<<i, n - e>>] = Matched(p, t, i, n - e)
      BY <2>5, <3>2
    <3> QED BY <2>3, <3>2, <3>3
  <2>6. Nat \subseteq U
    <3> HIDE DEF U
    <3> QED BY <2>4, <2>5, Induction
  <2>7. ASSUME NEW j \in 0 .. n
        PROVE  f[<<i, j>>] = Matched(p, t, i, j)
    <3>1. n - j \in Nat /\ n - j <= n /\ n - (n - j) = j
      OBVIOUS
    <3>2. n - j \in U
      BY <2>6, <3>1
    <3> QED BY <3>1, <3>2
  <2> QED BY <2>7 DEF i
<1>3. Nat \subseteq T
  <2> HIDE DEF T
  <2> QED BY <1>1, <1>2, Induction
<1>4. ASSUME NEW i \in 0 .. m
      PROVE  Row(i)
  <2>1. m - i \in Nat /\ m - i <= m /\ m - (m - i) = i
    OBVIOUS
  <2>2. m - i \in T
    BY <1>3, <2>1
  <2> QED BY <2>1, <2>2
<1> QED BY <1>4

(* glob_match: the recursion, which tries the shortest piece for "*" first *)
(* and backs up, finds a way to cut the text if there is one.              *)
THEOREM GlobMeaning ==
  ASSUME NEW p, NEW t, Len(p) \in Nat, Len(t) \in Nat
  PROVE  GlobMatch(p, t) <=> \E c : Cuts(c, p, t, 0) /\ c[0] = 0
<1> DEFINE rest == CHOOSE f : GlobBy(f, p, t)
<1>1. GlobBy(rest, p, t)
  BY GlobExists
<1>2. GlobMatch(p, t) = rest[<<0, 0>>]
  BY DEF GlobMatch, GlobBy, GlobStep, Places
<1> HIDE DEF rest
<1>3. rest[<<0, 0>>] = Matched(p, t, 0, 0)
  BY <1>1, GlobIsMatched
<1> QED BY <1>2, <1>3 DEF Matched

(* Words that are no wildcards are met one by one. *)
Literal(p, n) == \A k \in 1 .. n : p[k] \notin {"*", "?"}

(* As long as there are no wildcards, each word has come one word further. *)
LEMMA LiteralCut ==
  ASSUME NEW p, NEW t, Len(p) \in Nat, Len(t) \in Nat, NEW c, Cuts(c, p, t, 0), c[0] = 0,
         NEW n \in 0 .. Len(p), Literal(p, n)
  PROVE  \A k \in 0 .. n : c[k] = k /\ (k # 0 => p[k] = t[k])
<1> DEFINE T == {k \in Nat : k <= n => c[k] = k /\ (k # 0 => p[k] = t[k])}
<1>1. 0 \in T
  OBVIOUS
<1>2. ASSUME NEW k \in Nat, k \in T
      PROVE  k + 1 \in T
  <2> SUFFICES ASSUME k + 1 <= n
               PROVE  c[k + 1] = k + 1 /\ p[k + 1] = t[k + 1]
    OBVIOUS
  <2>1. k + 1 \in 0 + 1 .. Len(p) /\ k + 1 \in 1 .. n /\ (k + 1) - 1 = k
    OBVIOUS
  <2>2. c[k] = k
    BY <1>2
  <2>3. Piece(p, t, k + 1, k, c[k + 1])
    BY <2>1, <2>2 DEF Cuts
  <2>4. p[k + 1] \notin {"*", "?"}
    BY <2>1 DEF Literal
  <2> QED BY <2>3, <2>4 DEF Piece
<1>3. Nat \subseteq T
  <2> HIDE DEF T
  <2> QED BY <1>1, <1>2, Induction
<1> QED BY <1>3

(* A pattern without wildcards names one URI.                              *)
THEOREM GlobLiteral ==
  ASSUME NEW S, NEW p \in Seq(S), NEW t \in Seq(S), Literal(p, Len(p))
  PROVE  GlobMatch(p, t) <=> p = t
<1>1. /\ Len(p) \in Nat /\ Len(t) \in Nat
      /\ p \in [1 .. Len(p) -> S] /\ t \in [1 .. Len(t) -> S]
  BY LenProperties
<1>2. ASSUME GlobMatch(p, t)
      PROVE  p = t
  <2>1. PICK c : Cuts(c, p, t, 0) /\ c[0] = 0
    BY <1>1, <1>2, GlobMeaning
  <2>2. \A k \in 0 .. Len(p) : c[k] = k /\ (k # 0 => p[k] = t[k])
    BY <1>1, <2>1, LiteralCut
  <2>3. Len(p) = Len(t)
    <3>1. c[Len(p)] = Len(t)
      BY <2>1 DEF Cuts
    <3>2. Len(p) \in 0 .. Len(p)
      BY <1>1
    <3> QED BY <2>2, <3>1, <3>2
  <2>4. \A k \in 1 .. Len(p) : p[k] = t[k]
    BY <1>1, <2>2
  <2> QED BY <1>1, <2>3, <2>4
<1>3. ASSUME p = t
      PROVE  GlobMatch(p, t)
  <2> DEFINE c == [k \in 0 .. Len(p) |-> k]
  <2>1. c \in [0 .. Len(p) -> 0 .. Len(t)] /\ c[Len(p)] = Len(t) /\ c[0] = 0
    BY <1>1, <1>3
  <2>2. ASSUME NEW k \in 0 + 1 .. Len(p)
        PROVE  Piece(p, t, k, c[k - 1], c[k])
    <3>1. c[k] = k /\ c[k - 1] = k - 1 /\ k = (k - 1) + 1 /\ k \in 1 .. Len(p)
      BY <1>1
    <3>2. p[k] # "*" /\ p[k] = t[k]
      BY <1>3, <3>1 DEF Literal
    <3> HIDE DEF c
    <3> QED BY <3>1, <3>2 DEF Piece
  <2>3. Cuts(c, p, t, 0)
    BY <2>1, <2>2 DEF Cuts
  <2> HIDE DEF c
  <2> QED BY <1>1, <2>1, <2>3, GlobMeaning
<1> QED BY <1>2, <1>3

(* A pattern with one star, at its end, names all that begins as it does:  *)
(* the form in the documentation's examples.                               *)
THEOREM GlobPrefix ==
  ASSUME NEW S, NEW head \in Seq(S), NEW t \in Seq(S), Literal(head, Len(head))
  PROVE  GlobMatch(Append(head, "*"), t)
           <=> Len(head) <= Len(t) /\ \A k \in 1 .. Len(head) : t[k] = head[k]
<1> DEFINE p == Append(head, "*")
           n == Len(head)
<1>1. /\ n \in Nat /\ Len(t) \in Nat
      /\ Len(p) = n + 1 /\ p[n + 1] = "*"
      /\ \A k \in 1 .. n : p[k] = head[k]
  <2>1. head \in Seq(S \cup {"*"})
    <3>1. head \in [1 .. Len(head) -> S \cup {"*"}] /\ Len(head) \in Nat
      BY LenProperties
    <3> QED BY <3>1, FunctionIsList
  <2>2. Len(p) = n + 1 /\ \A k \in 1 .. n + 1 : p[k] = IF k <= n THEN head[k] ELSE "*"
    BY <2>1, AppendProperties, LenProperties
  <2>3. n \in Nat /\ Len(t) \in Nat
    BY LenProperties
  <2> HIDE DEF p, n
  <2> QED BY <2>2, <2>3
<1> HIDE DEF p
<1>2. n \in 0 .. Len(p) /\ Literal(p, n)
  BY <1>1 DEF Literal
<1>3. ASSUME GlobMatch(p, t)
      PROVE  n <= Len(t) /\ \A k \in 1 .. n : t[k] = head[k]
  <2>1. PICK c : Cuts(c, p, t, 0) /\ c[0] = 0
    BY <1>1, <1>3, GlobMeaning
  <2>2. \A k \in 0 .. n : c[k] = k /\ (k # 0 => p[k] = t[k])
    BY <1>1, <1>2, <2>1, LiteralCut
  <2>3. c[n] \in 0 .. Len(t) /\ c[n] = n
    BY <1>2, <2>1, <2>2 DEF Cuts
  <2> QED BY <1>1, <2>2, <2>3
<1>4. ASSUME n <= Len(t), \A k \in 1 .. n : t[k] = head[k]
      PROVE  GlobMatch(p, t)
  <2> DEFINE c == [k \in 0 .. n + 1 |-> IF k <= n THEN k ELSE Len(t)]
  <2>1. /\ c \in [0 .. Len(p) -> 0 .. Len(t)] /\ c[Len(p)] = Len(t) /\ c[0] = 0
        /\ c[n + 1] = Len(t) /\ \A k \in 0 .. n : c[k] = k
    BY <1>1, <1>4
  <2> HIDE DEF c
  <2>2. ASSUME NEW k \in 0 + 1 .. Len(p)
        PROVE  Piece(p, t, k, c[k - 1], c[k])
    <3>1. CASE k = n + 1
      <4>1. c[k - 1] = n /\ c[k] = Len(t) /\ p[k] = "*"
        BY <1>1, <2>1, <3>1
      <4> QED BY <1>4, <4>1 DEF Piece
    <3>2. CASE k # n + 1
      <4>1. k \in 1 .. n /\ k - 1 \in 0 .. n /\ k = (k - 1) + 1
        BY <1>1, <3>2
      <4>2. c[k] = k /\ c[k - 1] = k - 1 /\ p[k] = t[k] /\ p[k] # "*"
        BY <1>1, <1>2, <1>4, <2>1, <4>1 DEF Literal
      <4> QED BY <4>1, <4>2 DEF Piece
    <3> QED BY <3>1, <3>2
  <2>3. Cuts(c, p, t, 0)
    BY <2>1, <2>2 DEF Cuts
  <2> QED BY <1>1, <2>1, <2>3, GlobMeaning
<1> QED BY <1>1, <1>3, <1>4 DEF p

-----------------------------------------------------------------------------
(* The merge of policies (module Csp). *)
LEMMA LayersTyped ==
  ASSUME NEW D, NEW cfg, RuntimeConfig(cfg, D), NEW directive \in Directives,
         NEW k \in 0 .. Len(cfg.widgets)
  PROVE  Layer(cfg, directive, k).domains \in Seq(D)
<1>1. ASSUME NEW p \in Policies(D)
      PROVE  p[directive].domains \in Seq(D)
  BY <1>1 DEF Policies
<1>2. CASE k = 0
  BY <1>1, <1>2 DEF RuntimeConfig, Layer
<1>3. CASE k # 0
  <2>1. k \in 1 .. Len(cfg.widgets)
    BY <1>3 DEF RuntimeConfig
  <2> QED BY <1>1, <1>3, <2>1 DEF RuntimeConfig, Layer
<1> QED BY <1>2, <1>3

(* The words in front are counted right: the first that is not in S ends   *)
(* them.                                                                   *)
LEMMA LeadCounts ==
  ASSUME NEW d, Len(d) \in Nat, NEW S
  PROVE  /\ Lead(d, S) \in 0 .. Len(d)
         /\ \A i \in 1 .. Lead(d, S) : d[i] \in S
         /\ Lead(d, S) < Len(d) => d[Lead(d, S) + 1] \notin S
<1> DEFINE ends == {n \in 0 .. Len(d) : n < Len(d) => d[n + 1] \notin S}
<1>1. ends \subseteq 0 .. Len(d) /\ Len(d) \in ends
  OBVIOUS
<1>2. PICK n \in ends : \A j \in ends : n <= j
  <2>1. ends \in SUBSET Nat /\ IsFiniteSet(ends) /\ ends # {}
    <3> HIDE DEF ends
    <3>1. IsFiniteSet(0 .. Len(d)) /\ 0 .. Len(d) \subseteq Nat
      BY FS_Interval
    <3> QED BY <1>1, <3>1, FS_Subset
  <2> HIDE DEF ends
  <2> QED BY <2>1, LeastNumber
<1>3. ASSUME NEW i \in 1 .. n
      PROVE  d[i] \in S
  <2>1. i - 1 \in 0 .. Len(d) /\ i - 1 < Len(d) /\ ~(n <= i - 1) /\ (i - 1) + 1 = i
    BY <1>1
  <2>2. i - 1 \notin ends
    BY <1>2, <2>1
  <2> QED BY <2>1, <2>2
<1>4. \E k \in 0 .. Len(d) : /\ \A i \in 1 .. k : d[i] \in S
                             /\ k < Len(d) => d[k + 1] \notin S
  BY <1>1, <1>3
<1> QED BY <1>4 DEF Lead

(* What lies between two places of a list.                                 *)
LEMMA Between ==
  ASSUME NEW D, NEW s \in Seq(D), NEW a \in 0 .. Len(s), NEW b \in a .. Len(s)
  PROVE  /\ SubSeq(s, a + 1, b) \in Seq(D)
         /\ Len(SubSeq(s, a + 1, b)) = b - a
         /\ \A i \in 1 .. b - a : SubSeq(s, a + 1, b)[i] = s[i + a]
<1>1. Len(s) \in Nat /\ \A i \in 1 .. Len(s) : s[i] \in D
  BY LenProperties, ElementOfSeq
<1>2. \A i \in a + 1 .. b : s[i] \in D
  BY <1>1
<1>3. /\ SubSeq(s, a + 1, b) \in Seq(D)
      /\ Len(SubSeq(s, a + 1, b)) = IF a + 1 <= b THEN b - (a + 1) + 1 ELSE 0
      /\ \A i \in 1 .. b - (a + 1) + 1 : SubSeq(s, a + 1, b)[i] = s[(a + 1) + i - 1]
  BY <1>1, <1>2, SubSeqProperties
<1>4. ASSUME NEW i \in 1 .. b - a
      PROVE  SubSeq(s, a + 1, b)[i] = s[i + a]
  <2>1. i \in 1 .. b - (a + 1) + 1 /\ (a + 1) + i - 1 = i + a
    BY <1>1
  <2> QED BY <1>3, <2>1
<1> QED BY <1>1, <1>3, <1>4

(* Trimming drops the one word in front, if it is there.                   *)
LEMMA TrimsOne ==
  ASSUME NEW D, NEW url \in Seq(D), NEW word, \A i \in 2 .. Len(url) : url[i] # word
  PROVE  TrimStart(url, word)
           = SubSeq(url, IF url # <<>> /\ url[1] = word THEN 2 ELSE 1, Len(url))
<1> DEFINE n == Lead(url, {word})
<1>1. Len(url) \in Nat /\ (url # <<>> <=> Len(url) > 0)
  BY LenProperties, EmptySeq
<1>2. /\ n \in 0 .. Len(url)
      /\ \A i \in 1 .. n : url[i] = word
      /\ n < Len(url) => url[n + 1] # word
  BY <1>1, LeadCounts
<1> HIDE DEF n
<1>3. n <= 1
  <2>1. n >= 2 => 2 \in 1 .. n /\ 2 \in 2 .. Len(url)
    BY <1>1, <1>2
  <2> QED BY <1>1, <1>2, <2>1
<1>4. n + 1 = IF url # <<>> /\ url[1] = word THEN 2 ELSE 1
  BY <1>1, <1>2, <1>3
<1> QED BY <1>4 DEF TrimStart, n

(* strip_scheme leaves the words between the scheme and the path.          *)
LEMMA HostStripped ==
  ASSUME NEW url, Url(url)
  PROVE  \E n \in {0, 1}, m \in 0 .. Len(url) :
           /\ n <= m
           /\ url # <<>> => (n = 1 <=> url[1] \in Schemes)
           /\ \A i \in n + 1 .. m : url[i] # "/"
           /\ m < Len(url) => url[m + 1] = "/"
           /\ StripScheme(url) = SubSeq(url, n + 1, m)
           /\ Len(StripScheme(url)) = m - n
<1> DEFINE N == Len(url)
           n == IF url # <<>> /\ url[1] \in Schemes THEN 1 ELSE 0
           rest == SubSeq(url, n + 1, N)
           k == Lead(rest, ToSet(rest) \ {"/"})
           secure == TrimStart(url, "https://")
<1>1. url \in Seq(STRING) /\ \A i \in 2 .. N : url[i] \notin Schemes
  BY DEF Url
<1>2. N \in Nat /\ (url # <<>> <=> N > 0)
  BY <1>1, LenProperties, EmptySeq
<1>3. n \in {0, 1} /\ n <= N
  BY <1>2
<1>4. TrimStart(secure, "http://") = rest
  <2>1. \A i \in 2 .. N : url[i] # "https://" /\ url[i] # "http://"
    BY <1>1 DEF Schemes
  <2>2. secure = SubSeq(url, IF url # <<>> /\ url[1] = "https://" THEN 2 ELSE 1, N)
    BY <1>1, <2>1, TrimsOne
  <2> HIDE DEF secure
  <2>3. CASE url # <<>> /\ url[1] = "https://"
    <3>1. /\ secure \in Seq(STRING)
          /\ Len(secure) = N - 1
          /\ \A i \in 1 .. N - 1 : secure[i] = url[i + 1]
      <4>1. secure = SubSeq(url, 1 + 1, N) /\ 1 \in 0 .. N /\ N \in 1 .. N
        BY <1>2, <2>2, <2>3
      <4> HIDE DEF n, rest, k
      <4>2. /\ SubSeq(url, 1 + 1, N) \in Seq(STRING)
            /\ Len(SubSeq(url, 1 + 1, N)) = N - 1
            /\ \A i \in 1 .. N - 1 : SubSeq(url, 1 + 1, N)[i] = url[i + 1]
        <5>1. 1 \in 0 .. N /\ N \in 1 .. N
          BY <4>1
        <5> HIDE DEF N
        <5> QED BY <1>1, <5>1, Between DEF N
      <4> HIDE DEF N
      <4> QED BY <4>1, <4>2
    <3>2. \A i \in 1 .. Len(secure) : secure[i] # "http://"
      BY <1>2, <2>1, <3>1
    <3>3. secure # <<>> => Len(secure) >= 1
      BY <1>2, <3>1, EmptySeq
    <3>4. TrimStart(secure, "http://") = SubSeq(secure, 1, Len(secure))
      <4>1. \A i \in 2 .. Len(secure) : secure[i] # "http://"
        BY <1>2, <3>1, <3>2
      <4>2. ~(secure # <<>> /\ secure[1] = "http://")
        BY <1>2, <3>1, <3>2, <3>3
      <4> QED BY <3>1, <4>1, <4>2, TrimsOne
    <3>5. SubSeq(secure, 1, Len(secure)) = secure
      BY <3>1
    <3>6. n = 1
      BY <2>3 DEF Schemes
    <3> QED BY <2>2, <2>3, <3>4, <3>5, <3>6
  <2>4. CASE ~(url # <<>> /\ url[1] = "https://")
    <3>1. secure = url
      BY <1>1, <2>2, <2>4
    <3>2. TrimStart(url, "http://")
            = SubSeq(url, IF url # <<>> /\ url[1] = "http://" THEN 2 ELSE 1, N)
      BY <1>1, <2>1, TrimsOne
    <3>3. n + 1 = IF url # <<>> /\ url[1] = "http://" THEN 2 ELSE 1
      BY <2>4 DEF Schemes
    <3> QED BY <3>1, <3>2, <3>3
  <2> QED BY <2>3, <2>4
<1>5. /\ Len(rest) = N - n
      /\ \A i \in 1 .. N - n : rest[i] = url[i + n]
      /\ rest \in Seq(STRING)
  <2> HIDE DEF n
  <2>1. n \in 0 .. N /\ N \in n .. N
    BY <1>2, <1>3
  <2> QED BY <1>1, <2>1, Between
<1>6. StripScheme(url) = SubSeq(rest, 1, k)
  BY <1>4 DEF StripScheme
<1> HIDE DEF rest, secure
<1>7. /\ k \in 0 .. N - n
      /\ \A i \in 1 .. k : rest[i] # "/"
      /\ k < N - n => rest[k + 1] = "/"
  <2>1. /\ k \in 0 .. Len(rest)
        /\ \A i \in 1 .. k : rest[i] \in ToSet(rest) \ {"/"}
        /\ k < Len(rest) => rest[k + 1] \notin ToSet(rest) \ {"/"}
    BY <1>2, <1>3, <1>5, LeadCounts
  <2>2. k < Len(rest) => rest[k + 1] \in ToSet(rest)
    <3>1. Len(rest) \in Nat /\ DOMAIN rest = 1 .. Len(rest)
      BY <1>5, LenProperties
    <3> HIDE DEF k
    <3> QED BY <2>1, <3>1 DEF ToSet
  <2> QED BY <1>5, <2>1, <2>2
<1> DEFINE m == n + k
<1>8. SubSeq(rest, 1, k) = SubSeq(url, n + 1, m) /\ Len(SubSeq(rest, 1, k)) = m - n
  <2> DEFINE short == SubSeq(rest, 1, k)
             part == SubSeq(url, n + 1, m)
  <2>1. /\ n \in 0 .. N /\ m \in n .. N
        /\ 0 \in 0 .. Len(rest) /\ k \in 0 .. Len(rest)
        /\ k = m - n /\ k \in Nat
    <3> HIDE DEF n, k
    <3> QED BY <1>2, <1>3, <1>5, <1>7
  <2> HIDE DEF short, part, m, n, k
  <2>2. /\ short \in Seq(STRING)
        /\ Len(short) = k
        /\ \A i \in 1 .. k : short[i] = rest[i]
    <3>1. /\ SubSeq(rest, 0 + 1, k) \in Seq(STRING)
          /\ Len(SubSeq(rest, 0 + 1, k)) = k - 0
          /\ \A i \in 1 .. k - 0 : SubSeq(rest, 0 + 1, k)[i] = rest[i + 0]
      BY <1>5, <2>1, Between
    <3>2. \A i \in 1 .. k : i \in 1 .. k - 0 /\ i + 0 = i
      BY <2>1
    <3>3. 0 + 1 = 1 /\ k - 0 = k
      BY <2>1
    <3> QED BY <3>1, <3>2, <3>3 DEF short
  <2>3. /\ part \in Seq(STRING)
        /\ Len(part) = k
        /\ \A i \in 1 .. k : part[i] = url[i + n]
    BY <1>1, <2>1, Between DEF part
  <2>4. \A i \in 1 .. k : part[i] = short[i]
    BY <1>2, <1>5, <2>1, <2>2, <2>3
  <2>5. short = part
    BY <2>2, <2>3, <2>4, SeqEqual
  <2> QED BY <2>1, <2>2, <2>5 DEF short, part
<1>9. /\ \A i \in n + 1 .. m : url[i] # "/"
      /\ m < N => url[m + 1] = "/"
  <2>1. ASSUME NEW i \in n + 1 .. m
        PROVE  url[i] # "/"
    <3>1. i - n \in 1 .. k /\ i - n \in 1 .. N - n /\ (i - n) + n = i
      BY <1>3, <1>7
    <3> QED BY <1>5, <1>7, <3>1
  <2>2. m < N => k + 1 \in 1 .. N - n /\ (k + 1) + n = m + 1 /\ k < N - n
    BY <1>2, <1>3, <1>7
  <2> QED BY <1>5, <1>7, <2>1, <2>2
<1>10. m \in 0 .. N /\ n <= m
  BY <1>2, <1>3, <1>7
<1>11. url # <<>> => (n = 1 <=> url[1] \in Schemes)
  OBVIOUS
<1> HIDE DEF n, k
<1> QED BY <1>3, <1>6, <1>8, <1>9, <1>10, <1>11

(* Whatever a URL has behind its host, a reference to the server is one    *)
(* that mentions the host, or a loopback address.                          *)
LEMMA SelfReferenceNamesHost ==
  ASSUME NEW url, Url(url), NEW d
  PROVE  IsSelfReference(d, StripScheme(url)) <=> IsLoopback(d) \/ NamesHost(d, url)
<1> DEFINE N == Len(url)
           host == StripScheme(url)
<1>1. url \in Seq(STRING) /\ N \in Nat /\ (url # <<>> <=> N > 0)
  BY LenProperties, EmptySeq DEF Url
<1>2. PICK n \in {0, 1}, m \in 0 .. N :
        /\ n <= m
        /\ url # <<>> => (n = 1 <=> url[1] \in Schemes)
        /\ \A i \in n + 1 .. m : url[i] # "/"
        /\ m < N => url[m + 1] = "/"
        /\ host = SubSeq(url, n + 1, m)
        /\ Len(host) = m - n
  BY HostStripped
<1>3. host # <<>> <=> n < m
  <2>1. host \in Seq(STRING)
    BY <1>1, <1>2
  <2> HIDE DEF host
  <2> QED BY <1>1, <1>2, <2>1, EmptySeq
<1> HIDE DEF host
<1>4. host # <<>> /\ Mentions(d, host) => NamesHost(d, url)
  <2>1. n < m => m \in 1 .. Len(url) /\ url # <<>>
    BY <1>1, <1>2
  <2> QED BY <1>2, <1>3, <2>1 DEF NamesHost
<1>5. ASSUME NamesHost(d, url)
      PROVE  host # <<>> /\ Mentions(d, host)
  <2>1. PICK a \in {0, 1}, b \in 1 .. N :
          /\ a < b
          /\ a = 1 <=> url[1] \in Schemes
          /\ \A i \in a + 1 .. b : url[i] # "/"
          /\ b < N => url[b + 1] = "/"
          /\ Mentions(d, SubSeq(url, a + 1, b))
    BY <1>5 DEF NamesHost
  <2>2. a = n
    BY <1>1, <1>2, <2>1
  <2>3. ~(b < m)
    <3>1. b < m => b + 1 \in n + 1 .. m /\ b < N
      BY <1>1, <1>2, <2>1, <2>2
    <3> QED BY <1>2, <2>1, <3>1
  <2>4. ~(m < b)
    <3>1. m < b => m + 1 \in a + 1 .. b /\ m < N
      BY <1>1, <1>2, <2>1, <2>2
    <3> QED BY <1>2, <2>1, <3>1
  <2>5. b = m
    BY <2>3, <2>4
  <2> QED BY <1>2, <1>3, <2>1, <2>2, <2>5
<1>6. host = StripScheme(url)
  BY DEF host
<1> QED BY <1>4, <1>5, <1>6 DEF IsSelfReference

(* What the server asked for minus itself, and nothing where the global    *)
(* policy replaces it.                                                     *)
LEMMA SeedKeeps ==
  ASSUME NEW D, NEW cfg, NEW directive, NEW upstream \in Seq(D)
  PROVE  /\ Seed(cfg, directive, upstream) \in Seq(D)
         /\ ToSet(Seed(cfg, directive, upstream))
              = IF cfg.policy[directive].mode = "Replace" THEN {}
                ELSE {d \in ToSet(upstream) : ~IsSelfReference(d, StripScheme(cfg.upstream))}
<1> DEFINE others == {d \in ToSet(upstream) : ~IsSelfReference(d, StripScheme(cfg.upstream))}
           L == Only(upstream, others)
<1>1. /\ L \in Seq(D \cap others)
      /\ ToSet(L) = ToSet(upstream) \cap others
  BY OnlyKeeps
<1>2. L \in Seq(D) /\ ToSet(L) = others
  <2> HIDE DEF L
  <2>1. ToSet(upstream) \cap others = others
    OBVIOUS
  <2>2. L \in Seq(D)
    <3> DEFINE K == D \cap others
    <3>1. K \subseteq D /\ L \in Seq(K)
      BY <1>1
    <3> HIDE DEF K
    <3> QED BY <3>1
  <2> QED BY <1>1, <2>1, <2>2
<1>3. <<>> \in Seq(D) /\ ToSet(<<>>) = {}
  BY DEF ToSet
<1> HIDE DEF others
<1> QED BY <1>2, <1>3 DEF Seed, others

(* What the recursion of MergedLayers does, step by step. *)
MergeLayer(cfg, directive, uri, list, k) ==
  IF ~Applies(cfg, uri, k) THEN list
  ELSE IF Layer(cfg, directive, k).mode = "Replace" THEN Layer(cfg, directive, k).domains
  ELSE PushAll(list, Layer(cfg, directive, k).domains)

MergesBy(f, cfg, directive, uri, upstream) ==
  /\ f[0] = PushAll(Seed(cfg, directive, upstream), Layer(cfg, directive, 0).domains)
  /\ \A k \in 1 .. Len(cfg.widgets) : f[k] = MergeLayer(cfg, directive, uri, f[k - 1], k)
  /\ MergedLayers(cfg, directive, uri, upstream) = f[Len(cfg.widgets)]

(* The recursion of the merge, one layer at a time.                        *)
LEMMA MergedLayersUnfolds ==
  ASSUME NEW D, NEW cfg, RuntimeConfig(cfg, D), NEW directive \in Directives,
         NEW uri, NEW upstream \in Seq(D)
  PROVE  \E f : MergesBy(f, cfg, directive, uri, upstream)
<1> DEFINE N == Len(cfg.widgets)
           first == PushAll(Seed(cfg, directive, upstream), Layer(cfg, directive, 0).domains)
           merge(x, k) == MergeLayer(cfg, directive, uri, x, k)
           next(h) == [k \in 0 .. N |-> IF k = 0 THEN first ELSE merge(h[k - 1], k)]
           f == CHOOSE h : h = next(h)
           L == Seq(D)
           step == [k \in 1 .. N |-> [x \in L |-> merge(x, k)]]
<1>1. N \in Nat
  BY DEF RuntimeConfig
<1>2. first \in L /\ step \in [1 .. N -> [L -> L]]
  <2>1. first \in L
    <3>1. 0 \in 0 .. N
      BY <1>1
    <3>2. Layer(cfg, directive, 0).domains \in Seq(D)
      BY <3>1, LayersTyped
    <3> QED BY <3>2, SeedKeeps, PushAllAdds
  <2>2. ASSUME NEW k \in 1 .. N, NEW x \in L
        PROVE  merge(x, k) \in L
    <3>1. k \in 0 .. N
      OBVIOUS
    <3>2. Layer(cfg, directive, k).domains \in Seq(D)
      BY <3>1, LayersTyped
    <3>3. PushAll(x, Layer(cfg, directive, k).domains) \in Seq(D)
      BY <3>2, PushAllAdds
    <3> QED BY <3>2, <3>3 DEF MergeLayer
  <2> HIDE DEF first, merge, L
  <2> QED BY <2>1, <2>2
<1>3. PICK g \in [0 .. N -> L] :
        g[0] = first /\ \A n \in 1 .. N : g[n] = step[n][g[n - 1]]
  <2> HIDE DEF N, step, L, first
  <2>1. CanIterate(N, L, first, step)
    BY <1>1, <1>2, Iteration
  <2> QED BY <2>1 DEF CanIterate, Iterates
<1> HIDE DEF L, first, merge
<1>4. g = next(g)
  <2> SUFFICES ASSUME NEW n \in 0 .. N
               PROVE  g[n] = next(g)[n]
    BY <1>3
  <2>1. CASE n = 0
    BY <1>3, <2>1
  <2>2. CASE n # 0
    <3>1. n \in 1 .. N /\ n - 1 \in 0 .. N
      BY <1>1, <2>2
    <3>2. g[n] = step[n][g[n - 1]] /\ g[n - 1] \in L
      BY <1>3, <3>1
    <3>3. g[n] = merge(g[n - 1], n)
      BY <3>1, <3>2
    <3> QED BY <2>2, <3>3
  <2> QED BY <2>1, <2>2
<1>5. f = next(f)
  <2> HIDE DEF next
  <2> QED BY <1>4
<1>6. MergedLayers(cfg, directive, uri, upstream) = f[N]
  BY DEF MergedLayers, MergeLayer, first, merge
<1> HIDE DEF f
<1>7. f[0] = first /\ \A n \in 1 .. N : f[n] = merge(f[n - 1], n)
  <2>1. f[0] = first
    BY <1>1, <1>5
  <2>2. ASSUME NEW n \in 1 .. N
        PROVE  f[n] = merge(f[n - 1], n)
    <3>1. n \in 0 .. N /\ n # 0
      BY <1>1
    <3>2. next(f)[n] = merge(f[n - 1], n)
      BY <3>1
    <3> HIDE DEF next
    <3> QED BY <1>5, <3>2
  <2> QED BY <2>1, <2>2
<1> QED BY <1>6, <1>7 DEF MergesBy, first, merge

(* After the first k widget entries the list holds what the layers so far  *)
(* declare and no later one of them replaces, and what is still heard of   *)
(* the server; after the last, that is the reference definition.           *)
LEMMA MergedLayersHold ==
  ASSUME NEW D, NEW cfg, RuntimeConfig(cfg, D), NEW directive \in Directives,
         NEW uri, NEW upstream \in Seq(D)
  PROVE  /\ MergedLayers(cfg, directive, uri, upstream) \in Seq(D)
         /\ ToSet(MergedLayers(cfg, directive, uri, upstream))
              = Declared(cfg, directive, uri) \cup Heard(cfg, directive, uri, upstream)
<1> DEFINE N == Len(cfg.widgets)
           applies(k) == Applies(cfg, uri, k)
           replaces(k) == Layer(cfg, directive, k).mode = "Replace"
           domains(k) == Layer(cfg, directive, k).domains
           seed == Seed(cfg, directive, upstream)
           stands(i, k) == \A j \in i + 1 .. k : applies(j) => ~replaces(j)
           declared(k) == UNION {ToSet(domains(i)) :
                                   i \in {i \in 0 .. k : applies(i) /\ stands(i, k)}}
           heard(k) == IF stands(0, k) THEN ToSet(seed) ELSE {}
<1>1. PICK f : /\ f[0] = PushAll(seed, domains(0))
               /\ \A k \in 1 .. N : f[k] = MergeLayer(cfg, directive, uri, f[k - 1], k)
               /\ MergedLayers(cfg, directive, uri, upstream) = f[N]
  <2>1. PICK f : MergesBy(f, cfg, directive, uri, upstream)
    BY MergedLayersUnfolds
  <2> QED BY <2>1 DEF MergesBy
<1>2. N \in Nat /\ seed \in Seq(D) /\ \A k \in 0 .. N : domains(k) \in Seq(D)
  <2>1. N \in Nat
    BY DEF RuntimeConfig
  <2>2. seed \in Seq(D)
    BY SeedKeeps
  <2>3. \A k \in 0 .. N : domains(k) \in Seq(D)
    BY LayersTyped
  <2> QED BY <2>1, <2>2, <2>3
<1>3. \A k \in 1 .. N : f[k] = IF ~applies(k) THEN f[k - 1]
                               ELSE IF replaces(k) THEN domains(k)
                               ELSE PushAll(f[k - 1], domains(k))
  BY <1>1 DEF MergeLayer
<1>4. applies(0)
  BY DEF Applies
<1> DEFINE Good(k) == f[k] \in Seq(D) /\ ToSet(f[k]) = declared(k) \cup heard(k)
           T == {k \in Nat : k <= N => Good(k)}
<1>5. /\ Declared(cfg, directive, uri) = declared(N)
      /\ Heard(cfg, directive, uri, upstream) = heard(N)
  <2>1. Declared(cfg, directive, uri) = declared(N)
    BY DEF Declared, Stands
  <2>2. Stands(cfg, directive, uri, 0) = stands(0, N)
    BY DEF Stands
  <2>3. ToSet(seed) = IF cfg.policy[directive].mode = "Replace" THEN {}
                      ELSE {d \in ToSet(upstream) : ~IsSelfReference(d, StripScheme(cfg.upstream))}
    BY SeedKeeps
  <2> HIDE DEF stands, seed
  <2>4. Heard(cfg, directive, uri, upstream) = heard(N)
    <3>1. \A d : IsSelfReference(d, StripScheme(cfg.upstream))
                   <=> IsLoopback(d) \/ NamesHost(d, cfg.upstream)
      BY SelfReferenceNamesHost DEF RuntimeConfig
    <3> QED BY <2>2, <2>3, <3>1 DEF Heard
  <2> QED BY <2>1, <2>4
<1> HIDE DEF N, applies, replaces, domains, seed
<1>6. Good(0)
  <2>1. \A i \in 0 .. 0 : i = 0
    OBVIOUS
  <2>2. stands(0, 0) /\ 0 \in 0 .. 0 /\ 0 \in 0 .. N
    BY <1>2
  <2> HIDE DEF stands
  <2>3. {i \in 0 .. 0 : applies(i) /\ stands(i, 0)} = {0}
    BY <1>4, <2>1, <2>2
  <2>4. declared(0) = ToSet(domains(0))
    BY <2>3
  <2>5. heard(0) = ToSet(seed)
    BY <2>2
  <2>6. domains(0) \in Seq(D)
    BY <1>2, <2>2
  <2> HIDE DEF declared, heard
  <2> QED BY <1>1, <1>2, <2>4, <2>5, <2>6, PushAllAdds
<1>7. ASSUME NEW k \in Nat, Good(k), k + 1 <= N
      PROVE  Good(k + 1)
  <2>1. k + 1 \in 1 .. N /\ k + 1 \in 0 .. N /\ (k + 1) - 1 = k
    <3> HIDE DEF Good
    <3>1. N \in Nat
      BY <1>2
    <3> QED BY <1>7, <3>1
  <2> DEFINE new == domains(k + 1)
  <2>2. f[k + 1] = IF ~applies(k + 1) THEN f[k]
                   ELSE IF replaces(k + 1) THEN new
                   ELSE PushAll(f[k], new)
    BY <1>3, <2>1
  <2>3. new \in Seq(D)
    BY <1>2, <2>1
  <2>4. ASSUME NEW i \in 0 .. k
        PROVE  stands(i, k + 1) <=> stands(i, k) /\ (applies(k + 1) => ~replaces(k + 1))
    <3>1. \A j : j \in i + 1 .. k + 1 <=> j \in i + 1 .. k \/ j = k + 1
      OBVIOUS
    <3> QED BY <3>1
  <2>5. stands(k + 1, k + 1)
    <3>1. (k + 1) + 1 .. k + 1 = {}
      BY <2>1
    <3> QED BY <3>1
  <2>6. \A i : i \in 0 .. k + 1 <=> i \in 0 .. k \/ i = k + 1
    OBVIOUS
  <2>7. 0 \in 0 .. k
    OBVIOUS
  <2> HIDE DEF stands
  <2>8. CASE ~applies(k + 1)
    <3>1. {i \in 0 .. k + 1 : applies(i) /\ stands(i, k + 1)}
            = {i \in 0 .. k : applies(i) /\ stands(i, k)}
      BY <2>4, <2>6, <2>8
    <3>2. declared(k + 1) = declared(k)
      BY <3>1
    <3>3. heard(k + 1) = heard(k)
      BY <2>4, <2>7, <2>8
    <3> HIDE DEF declared, heard
    <3> QED BY <1>7, <2>2, <2>8, <3>2, <3>3
  <2>9. CASE applies(k + 1) /\ replaces(k + 1)
    <3>1. {i \in 0 .. k + 1 : applies(i) /\ stands(i, k + 1)} = {k + 1}
      BY <2>4, <2>5, <2>6, <2>9
    <3>2. declared(k + 1) = ToSet(new)
      BY <3>1
    <3>3. heard(k + 1) = {}
      BY <2>4, <2>7, <2>9
    <3> HIDE DEF declared, heard
    <3> QED BY <2>2, <2>3, <2>9, <3>2, <3>3
  <2>10. CASE applies(k + 1) /\ ~replaces(k + 1)
    <3>1. {i \in 0 .. k + 1 : applies(i) /\ stands(i, k + 1)}
            = {i \in 0 .. k : applies(i) /\ stands(i, k)} \cup {k + 1}
      BY <2>4, <2>5, <2>6, <2>10
    <3>2. declared(k + 1) = declared(k) \cup ToSet(new)
      BY <3>1
    <3>3. heard(k + 1) = heard(k)
      BY <2>4, <2>7, <2>10
    <3> DEFINE now == f[k]
    <3>4. now \in Seq(D) /\ ToSet(now) = declared(k) \cup heard(k)
      BY <1>7
    <3>5. f[k + 1] = PushAll(now, new)
      BY <2>2, <2>10
    <3> HIDE DEF declared, heard, now, new
    <3>6. PushAll(now, new) \in Seq(D) /\ ToSet(PushAll(now, new)) = ToSet(now) \cup ToSet(new)
      BY <2>3, <3>4, PushAllAdds
    <3> QED BY <3>2, <3>3, <3>4, <3>5, <3>6
  <2> QED BY <2>8, <2>9, <2>10
<1>8. Good(N)
  <2> HIDE DEF Good
  <2>1. 0 \in T
    BY <1>6
  <2>2. ASSUME NEW k \in Nat, k \in T
        PROVE  k + 1 \in T
    <3>1. N \in Nat
      BY <1>2
    <3>2. k + 1 <= N => k <= N
      BY <3>1
    <3> QED BY <1>7, <2>2, <3>2
  <2> HIDE DEF T
  <2>3. N \in T
    BY <1>2, <2>1, <2>2, Induction
  <2> QED BY <1>2, <2>3 DEF T
<1> HIDE DEF declared, heard
<1> QED BY <1>1, <1>5, <1>8

(* The list the gateway writes for a directive is exactly what the         *)
(* operator's configuration allows, each domain once, and the proxy, where *)
(* the widget must reach it, comes first: for every configuration, every   *)
(* resource and whatever the server asks for.                              *)
THEOREM EffectiveDomainsFollowPolicy ==
  ASSUME NEW D, NEW cfg, RuntimeConfig(cfg, D), NEW directive \in Directives,
         NEW uri, NEW upstream \in Seq(D)
  PROVE  LET list == EffectiveDomains(cfg, directive, uri, upstream)
         IN  /\ list \in Seq(D)
             /\ ToSet(list) = AllowedDomains(cfg, directive, uri, upstream)
             /\ IsInjective(list)
             /\ Injects(cfg, directive) => list # <<>> /\ Head(list) = ProxyUrl(cfg)
<1> DEFINE front == IF Injects(cfg, directive) THEN <<ProxyUrl(cfg)>> ELSE <<>>
           merged == MergedLayers(cfg, directive, uri, upstream)
<1>1. ProxyUrl(cfg) \in D
  BY DEF RuntimeConfig
<1>2. /\ front \in Seq(D)
      /\ ToSet(front) = IF Injects(cfg, directive) THEN {ProxyUrl(cfg)} ELSE {}
      /\ IsInjective(front)
      /\ Injects(cfg, directive) => front # <<>> /\ Head(front) = ProxyUrl(cfg)
  <2>1. ToSet(<<ProxyUrl(cfg)>>) = {ProxyUrl(cfg)} /\ ToSet(<<>>) = {}
    BY DEF ToSet
  <2>2. IsInjective(<<ProxyUrl(cfg)>>) /\ IsInjective(<<>>)
    BY DEF IsInjective
  <2> HIDE DEF Injects, ProxyUrl
  <2>3. <<ProxyUrl(cfg)>> \in Seq(D) /\ <<>> \in Seq(D)
    BY <1>1
  <2>4. <<ProxyUrl(cfg)>> # <<>> /\ Head(<<ProxyUrl(cfg)>>) = ProxyUrl(cfg)
    OBVIOUS
  <2> QED BY <2>1, <2>2, <2>3, <2>4
<1>3. /\ merged \in Seq(D)
      /\ ToSet(merged) = Declared(cfg, directive, uri) \cup Heard(cfg, directive, uri, upstream)
  BY MergedLayersHold
<1> HIDE DEF front, merged
<1>4. /\ PushAll(front, merged) \in Seq(D)
      /\ ToSet(PushAll(front, merged)) = ToSet(front) \cup ToSet(merged)
      /\ IsInjective(PushAll(front, merged))
      /\ front # <<>> => PushAll(front, merged) # <<>> /\ Head(PushAll(front, merged)) = Head(front)
  BY <1>2, <1>3, PushAllAdds
<1>5. EffectiveDomains(cfg, directive, uri, upstream) = PushAll(front, merged)
  BY DEF EffectiveDomains, front, merged
<1> QED BY <1>2, <1>3, <1>4, <1>5 DEF AllowedDomains

(* What a second gateway with the same configuration makes of the list of  *)
(* the first is that list's set of domains again: the server's wishes that *)
(* went through the filter go through it once more, and all else is there. *)
THEOREM SecondGatewayAddsNothing ==
  ASSUME NEW cfg, NEW directive, NEW uri, NEW upstream, NEW again,
         ToSet(again) = AllowedDomains(cfg, directive, uri, upstream)
  PROVE  AllowedDomains(cfg, directive, uri, again)
           = AllowedDomains(cfg, directive, uri, upstream)
<1> DEFINE self(d) == IsLoopback(d) \/ NamesHost(d, cfg.upstream)
           open == ~(cfg.policy[directive].mode = "Replace" \/ ~Stands(cfg, directive, uri, 0))
           proxy == IF Injects(cfg, directive) THEN {ProxyUrl(cfg)} ELSE {}
           declared == Declared(cfg, directive, uri)
           heard(list) == Heard(cfg, directive, uri, list)
<1>1. \A list : heard(list) = IF open THEN {d \in ToSet(list) : ~self(d)} ELSE {}
  BY DEF Heard
<1>2. \A list : AllowedDomains(cfg, directive, uri, list) = declared \cup heard(list) \cup proxy
  BY DEF AllowedDomains
<1> HIDE DEF self, open, proxy, declared, heard
<1>3. heard(upstream) \subseteq heard(again)
  BY <1>1, <1>2
<1>4. heard(again) \subseteq declared \cup heard(upstream) \cup proxy
  BY <1>1, <1>2
<1> QED BY <1>2, <1>3, <1>4

-----------------------------------------------------------------------------
(* How the file is lowered. *)
LEMMA ModeOrTyped ==
  ASSUME NEW s, NEW default \in {"Extend", "Replace"}
  PROVE  /\ ModeOr(s, default) \in {"Extend", "Replace"}
         /\ default = "Replace" /\ s # "extend" => ModeOr(s, default) = "Replace"
<1>1. CASE s = "extend"
  BY <1>1 DEF ModeOr, ParseMode, Unset
<1>2. CASE s \in {"replace", "override"}
  <2>1. s # "extend"
    BY <1>2
  <2> QED BY <1>2, <2>1 DEF ModeOr, ParseMode, Unset
<1>3. CASE s # "extend" /\ s \notin {"replace", "override"}
  BY <1>3 DEF ModeOr, ParseMode, Unset
<1> QED BY <1>1, <1>2, <1>3

(* Every file, however incomplete, gives the gateway a policy for every    *)
(* directive: the theorem above is about all of them.                      *)
THEOREM IntoRuntimeTotal ==
  ASSUME NEW D, NEW table, CspTable(table, D)
  PROVE  RuntimeConfig(IntoRuntime(table), D)
<1> DEFINE cfg == IntoRuntime(table)
           Policy == [domains : Seq(D), mode : {"Extend", "Replace"}]
<1>1. /\ cfg.widgets = table.widgets
      /\ cfg.domain = table.domain
      /\ cfg.upstream = table.mcp
      /\ cfg.policy = [d \in Directives |-> cfg.policy[d]]
  BY DEF IntoRuntime
<1>2. ASSUME NEW d \in Directives
      PROVE  cfg.policy[d] \in Policy
  <2>1. CASE d \in DOMAIN table.policy
    <3> DEFINE default == IF d = "frame" THEN "Replace" ELSE "Extend"
    <3>1. cfg.policy[d] = [domains |-> table.policy[d].domains,
                           mode |-> ModeOr(table.policy[d].mode, default)]
      BY <2>1 DEF IntoRuntime, IntoPolicy
    <3>2. ModeOr(table.policy[d].mode, default) \in {"Extend", "Replace"}
      BY ModeOrTyped
    <3>3. table.policy[d].domains \in Seq(D)
      BY <2>1 DEF CspTable
    <3> QED BY <3>1, <3>2, <3>3
  <2>2. CASE d \notin DOMAIN table.policy
    <3> DEFINE legacy == [domains |-> table.domains, mode |-> ModeOr(table.mode, "Extend")]
    <3>1. cfg.policy[d] \in {legacy, Strict, Permissive}
      BY <2>2 DEF IntoRuntime, Directives
    <3>2. legacy \in Policy
      BY ModeOrTyped DEF CspTable
    <3>3. Strict \in Policy /\ Permissive \in Policy
      BY DEF Strict, Permissive
    <3> HIDE DEF legacy
    <3> QED BY <3>1, <3>2, <3>3
  <2> QED BY <2>1, <2>2
<1>3. cfg.policy \in Policies(D)
  BY <1>1, <1>2 DEF Policies
<1>4. ProxyUrl(cfg) = ProxyUrl(table)
  BY <1>1 DEF ProxyUrl
<1> HIDE DEF cfg
<1> QED BY <1>1, <1>3, <1>4 DEF CspTable, RuntimeConfig, cfg

(* The server is heard about frames only when the file says so.            *)
LEMMA FramesClosed ==
  ASSUME NEW table, NEW uri, NEW upstream,
         NEW d \in AllowedDomains(IntoRuntime(table), "frame", uri, upstream)
  PROVE  \/ d \in Declared(IntoRuntime(table), "frame", uri)
         \/ "frame" \in DOMAIN table.policy /\ table.policy["frame"].mode = "extend"
<1> DEFINE cfg == IntoRuntime(table)
           opened == "frame" \in DOMAIN table.policy /\ table.policy["frame"].mode = "extend"
<1>1. SUFFICES ASSUME ~opened
               PROVE  d \in Declared(cfg, "frame", uri)
  OBVIOUS
<1>2. cfg.policy["frame"].mode = "Replace"
  <2>1. CASE "frame" \in DOMAIN table.policy
    <3>1. cfg.policy["frame"].mode = ModeOr(table.policy["frame"].mode, "Replace")
      BY <2>1 DEF IntoRuntime, IntoPolicy, Directives
    <3>2. table.policy["frame"].mode # "extend"
      BY <1>1, <2>1
    <3> QED BY <3>1, <3>2, ModeOrTyped
  <2>2. CASE "frame" \notin DOMAIN table.policy
    BY <2>2 DEF IntoRuntime, Strict, Directives
  <2> QED BY <2>1, <2>2
<1> HIDE DEF cfg, opened
<1>3. Heard(cfg, "frame", uri, upstream) = {}
  BY <1>2 DEF Heard
<1>4. ~Injects(cfg, "frame")
  BY DEF Injects
<1>5. d \in AllowedDomains(cfg, "frame", uri, upstream)
  BY DEF cfg
<1> QED BY <1>3, <1>4, <1>5 DEF AllowedDomains

(* Frames fail closed: unless the file has a frame policy that says        *)
(* "extend", in so many words, no domain the server asks for comes into a  *)
(* frame list, only those a layer of the file declares.                    *)
THEOREM FrameListFailsClosed ==
  ASSUME NEW D, NEW table, CspTable(table, D), NEW uri, NEW upstream \in Seq(D),
         NEW d \in ToSet(EffectiveDomains(IntoRuntime(table), "frame", uri, upstream))
  PROVE  \/ d \in Declared(IntoRuntime(table), "frame", uri)
         \/ "frame" \in DOMAIN table.policy /\ table.policy["frame"].mode = "extend"
<1> DEFINE cfg == IntoRuntime(table)
<1>1. RuntimeConfig(cfg, D) /\ "frame" \in Directives
  BY IntoRuntimeTotal DEF Directives
<1> HIDE DEF cfg
<1>2. d \in AllowedDomains(cfg, "frame", uri, upstream)
  BY <1>1, EffectiveDomainsFollowPolicy DEF cfg
<1> QED BY <1>2, FramesClosed DEF cfg
-----------------------------------------------------------------------------
(* How results are rewritten (modules CspRewrite and CspChain).  Documents *)
(* are followed level by level, which makes an induction over them one     *)
(* over numbers.  First the levels: each is made of the one above.         *)

(* The equation of Nested. *)
Beneath(S) == UNION {Children(w) : w \in S}

LevelsBy(f, v, n) == f = [k \in 0 .. n |-> IF k = 0 THEN {v} ELSE Beneath(f[k - 1])]

GoesDown(f, v, n) == f[0] = {v} /\ \A k \in 1 .. n : f[k] = Beneath(f[k - 1])

(* The recursion has a solution.                                           *)
LEMMA LevelsExist ==
  ASSUME NEW v, NEW n \in Nat
  PROVE  \E f : LevelsBy(f, v, n)
<1> DEFINE T == {m \in Nat : \E f : LevelsBy(f, v, m)}
<1>1. 0 \in T
  <2> DEFINE f == [k \in 0 .. 0 |-> {v}]
  <2>1. LevelsBy(f, v, 0)
    BY DEF LevelsBy
  <2> QED BY <2>1
<1>2. ASSUME NEW m \in Nat, m \in T
      PROVE  m + 1 \in T
  <2>1. PICK f : LevelsBy(f, v, m)
    BY <1>2
  <2> DEFINE g == [k \in 0 .. m + 1 |-> IF k = m + 1 THEN Beneath(f[m]) ELSE f[k]]
  <2>2. ASSUME NEW k \in 0 .. m + 1
        PROVE  g[k] = IF k = 0 THEN {v} ELSE Beneath(g[k - 1])
    <3>1. CASE k = 0
      <4>1. f[0] = {v}
        BY <2>1 DEF LevelsBy
      <4> QED BY <3>1, <4>1
    <3>2. CASE k = m + 1
      BY <3>2
    <3>3. CASE k # 0 /\ k # m + 1
      <4>1. k \in 0 .. m /\ k - 1 \in 0 .. m /\ k - 1 # m + 1 /\ k - 1 \in 0 .. m + 1
        BY <3>3
      <4>2. f[k] = Beneath(f[k - 1])
        BY <2>1, <3>3, <4>1 DEF LevelsBy
      <4>3. g[k] = f[k] /\ g[k - 1] = f[k - 1]
        BY <3>3, <4>1
      <4> QED BY <3>3, <4>2, <4>3
    <3> QED BY <3>1, <3>2, <3>3
  <2>3. LevelsBy(g, v, m + 1)
    BY <2>2 DEF LevelsBy
  <2> QED BY <2>3
<1>3. Nat \subseteq T
  <2> HIDE DEF T
  <2> QED BY <1>1, <1>2, Induction
<1> QED BY <1>3

(* The solution goes down level by level.                                  *)
LEMMA LevelsGoDown ==
  ASSUME NEW v, NEW n \in Nat, NEW f, LevelsBy(f, v, n)
  PROVE  GoesDown(f, v, n)
<1> DEFINE next(h) == [k \in 0 .. n |-> IF k = 0 THEN {v} ELSE Beneath(h[k - 1])]
<1>1. f = next(f)
  BY DEF LevelsBy
<1>2. next(f)[0] = {v} /\ \A k \in 1 .. n : next(f)[k] = Beneath(f[k - 1])
  OBVIOUS
<1> HIDE DEF next
<1> QED BY <1>1, <1>2 DEF GoesDown

(* Whatever goes down level by level ends where Nested does.               *)
LEMMA NestedIs ==
  ASSUME NEW v, NEW n \in Nat, NEW f, GoesDown(f, v, n)
  PROVE  Nested(v, n) = f[n]
<1> DEFINE at == CHOOSE h : LevelsBy(h, v, n)
<1>1. LevelsBy(at, v, n)
  BY LevelsExist
<1>2. Nested(v, n) = at[n]
  BY DEF Nested, LevelsBy, Beneath
<1> HIDE DEF at
<1>3. GoesDown(at, v, n)
  BY <1>1, LevelsGoDown
<1>5. Alike(at, f, n)
  BY <1>3 DEF Alike, GoesDown
<1> QED BY <1>2, <1>5, GoOnAlike

(* The top level is the document; the next is in the one above it.         *)
LEMMA NestedDown ==
  ASSUME NEW v, NEW n \in Nat
  PROVE  Nested(v, 0) = {v} /\ Nested(v, n + 1) = Beneath(Nested(v, n))
<1>1. PICK f : LevelsBy(f, v, n + 1)
  BY LevelsExist
<1>2. GoesDown(f, v, n + 1)
  BY <1>1, LevelsGoDown
<1>3. f[0] = {v} /\ \A k \in 1 .. n + 1 : f[k] = Beneath(f[k - 1])
  BY <1>2 DEF GoesDown
<1>4. GoesDown(f, v, 0) /\ GoesDown(f, v, n) /\ GoesDown(f, v, n + 1)
  BY <1>3 DEF GoesDown
<1>5. Nested(v, 0) = f[0] /\ Nested(v, n) = f[n] /\ Nested(v, n + 1) = f[n + 1]
  <2>1. 0 \in Nat /\ n + 1 \in Nat
    OBVIOUS
  <2> QED BY <1>4, <2>1, NestedIs
<1>6. f[n + 1] = Beneath(f[n])
  <2>1. n + 1 \in 1 .. n + 1 /\ (n + 1) - 1 = n
    OBVIOUS
  <2> QED BY <1>3, <2>1
<1> QED BY <1>3, <1>5, <1>6

-----------------------------------------------------------------------------
(* The walk of the safety net, as one equation for each level.             *)

(* The equation of the walk. *)
WalkOver(below, v, h, cfg) ==
  IF h = 0 THEN [w \in Nested(v, MaxNesting) |-> w]
  ELSE [w \in Nested(v, MaxNesting - h) |-> InjectInto(w, below, cfg)]

WalksBy(g, v, cfg, n) == g = [h \in 0 .. n |-> WalkOver(g[h - 1], v, h, cfg)]

(* The equation has a solution.                                            *)
LEMMA WalksExist ==
  ASSUME NEW v, NEW cfg, NEW n \in Nat
  PROVE  \E g : WalksBy(g, v, cfg, n)
<1> DEFINE T == {m \in Nat : \E g : WalksBy(g, v, cfg, m)}
<1>1. 0 \in T
  <2> DEFINE g == [h \in 0 .. 0 |-> WalkOver(<<>>, v, h, cfg)]
  <2>1. WalkOver(g[0 - 1], v, 0, cfg) = WalkOver(<<>>, v, 0, cfg)
    BY DEF WalkOver
  <2>2. WalksBy(g, v, cfg, 0)
    BY <2>1 DEF WalksBy
  <2> QED BY <2>2
<1>2. ASSUME NEW m \in Nat, m \in T
      PROVE  m + 1 \in T
  <2>1. PICK f : WalksBy(f, v, cfg, m)
    BY <1>2
  <2> DEFINE g == [h \in 0 .. m + 1 |-> IF h = m + 1 THEN WalkOver(f[m], v, m + 1, cfg)
                                        ELSE f[h]]
  <2>2. ASSUME NEW h \in 0 .. m + 1
        PROVE  g[h] = WalkOver(g[h - 1], v, h, cfg)
    <3>1. CASE h = 0
      <4>1. f[0] = WalkOver(f[0 - 1], v, 0, cfg)
        BY <2>1 DEF WalksBy
      <4>2. \A a, b : WalkOver(a, v, 0, cfg) = WalkOver(b, v, 0, cfg)
        BY DEF WalkOver
      <4> QED BY <3>1, <4>1, <4>2
    <3>2. CASE h = m + 1
      BY <3>2
    <3>3. CASE h # 0 /\ h # m + 1
      <4>1. h \in 0 .. m /\ h - 1 # m + 1 /\ h - 1 \in 0 .. m + 1
        BY <3>3
      <4>2. f[h] = WalkOver(f[h - 1], v, h, cfg)
        BY <2>1, <4>1 DEF WalksBy
      <4>3. g[h] = f[h] /\ g[h - 1] = f[h - 1]
        BY <3>3, <4>1
      <4> QED BY <4>2, <4>3
    <3> QED BY <3>1, <3>2, <3>3
  <2>3. WalksBy(g, v, cfg, m + 1)
    BY <2>2 DEF WalksBy
  <2> QED BY <2>3
<1>3. Nat \subseteq T
  <2> HIDE DEF T
  <2> QED BY <1>1, <1>2, Induction
<1> QED BY <1>3

Walks(g, v, cfg) ==
  /\ \A w \in Nested(v, MaxNesting) : g[0][w] = w
  /\ \A h \in 1 .. MaxNesting : \A w \in Nested(v, MaxNesting - h) :
       g[h][w] = InjectInto(w, g[h - 1], cfg)

(* A solution does at each level what InjectInto says.                     *)
LEMMA WalkUnfolds ==
  ASSUME NEW v, NEW cfg, NEW g, WalksBy(g, v, cfg, MaxNesting)
  PROVE  Walks(g, v, cfg)
<1> DEFINE next(f) == [h \in 0 .. MaxNesting |-> WalkOver(f[h - 1], v, h, cfg)]
<1>1. g = next(g)
  BY DEF WalksBy
<1>2. 0 \in 0 .. MaxNesting /\ \A h \in 1 .. MaxNesting : h \in 0 .. MaxNesting /\ h # 0
  BY NestingAssumption
<1>3. \A h \in 0 .. MaxNesting : next(g)[h] = WalkOver(g[h - 1], v, h, cfg)
  OBVIOUS
<1> HIDE DEF next
<1>4. \A h \in 0 .. MaxNesting : g[h] = WalkOver(g[h - 1], v, h, cfg)
  BY <1>1, <1>3
<1>5. \A w \in Nested(v, MaxNesting) : g[0][w] = w
  BY <1>2, <1>4 DEF WalkOver
<1>6. ASSUME NEW h \in 1 .. MaxNesting, NEW w \in Nested(v, MaxNesting - h)
      PROVE  g[h][w] = InjectInto(w, g[h - 1], cfg)
  BY <1>2, <1>4 DEF WalkOver
<1> QED BY <1>5, <1>6 DEF Walks

(* Inject is what a walk makes of the top of the document.                 *)
LEMMA InjectWalks ==
  ASSUME NEW v, NEW cfg
  PROVE  \E g : /\ Walks(g, v, cfg)
                /\ IsPublicOrigin(ProxyUrl(cfg)) => Inject(v, cfg) = g[MaxNesting][v]
<1> DEFINE g == CHOOSE f : WalksBy(f, v, cfg, MaxNesting)
<1>1. WalksBy(g, v, cfg, MaxNesting)
  BY WalksExist, NestingAssumption
<1>2. IsPublicOrigin(ProxyUrl(cfg)) => Inject(v, cfg) = g[MaxNesting][v]
  BY DEF Inject, WalksBy, WalkOver
<1> HIDE DEF g
<1> QED BY <1>1, <1>2, WalkUnfolds

-----------------------------------------------------------------------------
(* What documents are, and how they are made of others.                    *)

(* Documents: values in a set that with a value has all that is in it.     *)
Document(v) == \E S : v \in S /\ AreDocuments(S)

(* A list over a set is one over a larger set.                             *)
LEMMA ListOfMore ==
  ASSUME NEW S, NEW T, S \subseteq T, NEW s \in Seq(S)
  PROVE  s \in Seq(T)
<1>1. Len(s) \in Nat /\ s \in [1 .. Len(s) -> S]
  BY LenProperties
<1>2. s \in [1 .. Len(s) -> T]
  BY <1>1
<1> QED BY <1>1, <1>2, FunctionIsList

(* What is made of some values is made of more of them.                    *)
LEMMA MadeOfMore ==
  ASSUME NEW v, NEW S, NEW T, S \subseteq T, MadeOf(v, S)
  PROVE  MadeOf(v, T)
<1>1. CASE IsObject(v) /\ Children(v) \subseteq S
  BY <1>1 DEF MadeOf
<1>2. CASE IsArray(v) /\ v.items \in Seq(S)
  <2>1. v.items \in Seq(T)
    BY <1>2, ListOfMore
  <2> QED BY <1>2, <2>1 DEF MadeOf
<1> QED BY <1>1, <1>2 DEF MadeOf

(* What is made of documents is a document. *)
LEMMA MadeOfDocuments ==
  ASSUME NEW v, NEW D, \A d \in D : Document(d), MadeOf(v, D)
  PROVE  Document(v)
<1> DEFINE Whole(d) == CHOOSE S : d \in S /\ AreDocuments(S)
           All == UNION {Whole(d) : d \in D}
           S == All \cup {v}
<1>1. \A d \in D : d \in Whole(d) /\ AreDocuments(Whole(d))
  BY DEF Document
<1> HIDE DEF Whole
<1>2. ASSUME NEW w \in All
      PROVE  MadeOf(w, S)
  <2>1. PICK d \in D : w \in Whole(d)
    OBVIOUS
  <2>2. MadeOf(w, Whole(d))
    BY <1>1, <2>1 DEF AreDocuments
  <2>3. Whole(d) \subseteq S
    OBVIOUS
  <2> HIDE DEF S
  <2> QED BY <2>2, <2>3, MadeOfMore
<1>3. MadeOf(v, S)
  <2>1. D \subseteq S
    BY <1>1
  <2> HIDE DEF S
  <2> QED BY <2>1, MadeOfMore
<1>4. AreDocuments(S)
  BY <1>2, <1>3 DEF AreDocuments
<1> QED BY <1>4 DEF Document

(* Every document is made of documents.                                    *)
LEMMA DocumentMade ==
  ASSUME NEW v, Document(v)
  PROVE  \E D : (\A d \in D : Document(d)) /\ MadeOf(v, D)
BY DEF Document, AreDocuments

(* Document by document. *)
LEMMA Kinds ==
  /\ \A f : IsObject(Obj(f)) /\ ~IsArray(Obj(f)) /\ ~IsString(Obj(f)) /\ Obj(f).m = f
  /\ \A s : IsArray(Arr(s)) /\ ~IsObject(Arr(s)) /\ ~IsString(Arr(s)) /\ Arr(s).items = s
  /\ \A t : IsString(Str(t)) /\ ~IsObject(Str(t)) /\ ~IsArray(Str(t)) /\ Str(t).v = t
  /\ ~IsObject(Missing) /\ ~IsArray(Missing) /\ ~IsString(Missing)
BY DEF IsObject, IsArray, IsString, Obj, Arr, Str, Missing

(* No value is of two types.                                               *)
LEMMA Apart ==
  \A v : /\ IsObject(v) => ~IsArray(v) /\ ~IsString(v)
         /\ IsArray(v) => ~IsString(v)
BY DEF IsObject, IsArray, IsString

(* What is directly in a value, by its type.                               *)
LEMMA ChildrenOf ==
  \A v : /\ IsObject(v) => Children(v) = {v.m[key] : key \in DOMAIN v.m}
         /\ IsArray(v) => Children(v) = {v.items[i] : i \in DOMAIN v.items}
         /\ ~IsObject(v) /\ ~IsArray(v) => Children(v) = {}
BY Apart DEF Children

(* Objects of documents are documents.                                     *)
LEMMA ObjectDocument ==
  ASSUME NEW f, \A key \in DOMAIN f : Document(f[key])
  PROVE  Document(Obj(f))
<1>1. Children(Obj(f)) = {f[key] : key \in DOMAIN f}
  BY Kinds, ChildrenOf
<1>2. MadeOf(Obj(f), {f[key] : key \in DOMAIN f})
  BY <1>1, Kinds DEF MadeOf
<1> HIDE DEF Document
<1> QED BY <1>2, MadeOfDocuments

(* Lists of documents are documents.                                       *)
LEMMA ArrayDocument ==
  ASSUME NEW D, \A d \in D : Document(d), NEW s \in Seq(D)
  PROVE  Document(Arr(s))
<1>1. MadeOf(Arr(s), D)
  BY Kinds DEF MadeOf
<1> QED BY <1>1, MadeOfDocuments

(* Strings are documents.                                                  *)
LEMMA StringDocument ==
  ASSUME NEW t \in Texts
  PROVE  Document(Str(t))
<1>1. MadeOf(Str(t), {})
  BY Kinds DEF MadeOf
<1> QED BY <1>1, MadeOfDocuments

(* What is in a document is a document, and its lists are lists.           *)
LEMMA DocumentParts ==
  ASSUME NEW v, Document(v)
  PROVE  /\ v # Missing
         /\ \A w \in Children(v) : Document(w)
         /\ IsArray(v) => \E D : (\A d \in D : Document(d)) /\ v.items \in Seq(D)
         /\ IsString(v) => v.v \in Texts
<1>1. PICK D : (\A d \in D : Document(d)) /\ MadeOf(v, D)
  BY DocumentMade
<1>2. v # Missing
  BY <1>1 DEF MadeOf, IsObject, IsArray, IsString, Missing
<1>3. IsArray(v) => v.items \in Seq(D)
  BY <1>1 DEF MadeOf, IsObject, IsArray, IsString
<1>4. IsString(v) => v.v \in Texts
  BY <1>1 DEF MadeOf, IsObject, IsArray, IsString
<1>5. Children(v) \subseteq D
  <2>1. CASE IsObject(v)
    BY <1>1, <2>1 DEF MadeOf, IsObject, IsArray, IsString
  <2>2. CASE IsArray(v)
    <3>1. DOMAIN v.items = 1 .. Len(v.items) /\ \A i \in 1 .. Len(v.items) : v.items[i] \in D
      BY <1>3, <2>2, LenProperties
    <3>2. Children(v) = {v.items[i] : i \in DOMAIN v.items}
      BY <2>2, ChildrenOf
    <3> QED BY <3>1, <3>2
  <2>3. CASE ~IsObject(v) /\ ~IsArray(v)
    BY <2>3, ChildrenOf
  <2> QED BY <2>1, <2>2, <2>3
<1> QED BY <1>1, <1>2, <1>3, <1>4, <1>5

(* A member of a document is a document, if there is one.                  *)
LEMMA GetDocument ==
  ASSUME NEW v, Document(v) \/ v = Missing, NEW key
  PROVE  Document(Get(v, key)) \/ Get(v, key) = Missing
<1>1. CASE IsObject(v) /\ key \in DOMAIN v.m
  <2>1. Document(v)
    BY <1>1, Kinds
  <2>2. v.m[key] \in Children(v)
    BY <1>1, ChildrenOf
  <2> QED BY <1>1, <2>1, <2>2, DocumentParts DEF Get
<1>2. CASE ~(IsObject(v) /\ key \in DOMAIN v.m)
  BY <1>2 DEF Get
<1> QED BY <1>1, <1>2

(* A document with another member is a document.                           *)
LEMMA PutDocument ==
  ASSUME NEW v, Document(v), IsObject(v), NEW key, NEW to, Document(to)
  PROVE  Document(Put(v, key, to)) /\ Document(Insert(v, key, to))
<1> DEFINE m == Joined(Member(key, to), v.m)
<1>1. \A k \in DOMAIN v.m : Document(v.m[k])
  BY DocumentParts, ChildrenOf
<1>2. \A k \in DOMAIN m : Document(m[k])
  <2>1. /\ DOMAIN m = DOMAIN v.m \cup {key}
        /\ m[key] = to
        /\ \A k \in DOMAIN v.m : k # key => m[k] = v.m[k]
    BY DEF Joined, Member
  <2> HIDE DEF m
  <2> QED BY <1>1, <2>1
<1>3. Put(v, key, to) = Obj(m)
  BY DEF Put
<1> HIDE DEF m
<1> QED BY <1>2, <1>3, ObjectDocument DEF Insert

-----------------------------------------------------------------------------
(* The walk leads from documents to documents.                             *)

(* At every level of a document there are documents.                       *)
LEMMA NestedTyped ==
  ASSUME NEW v, Document(v), NEW n \in Nat
  PROVE  \A w \in Nested(v, n) : Document(w)
<1> DEFINE T == {k \in Nat : \A w \in Nested(v, k) : Document(w)}
<1>1. 0 \in T
  <2>1. Nested(v, 0) = {v}
    BY NestedDown
  <2> QED BY <2>1
<1>2. ASSUME NEW k \in Nat, k \in T
      PROVE  k + 1 \in T
  <2>1. Nested(v, k + 1) = UNION {Children(w) : w \in Nested(v, k)}
    BY NestedDown DEF Beneath
  <2>2. ASSUME NEW w \in Nested(v, k), NEW c \in Children(w)
        PROVE  Document(c)
    BY <1>2, DocumentParts
  <2> QED BY <2>1, <2>2
<1>3. Nat \subseteq T
  <2> HIDE DEF T
  <2> QED BY <1>1, <1>2, Induction
<1> QED BY <1>3

(* What is in a value is one level below it.                               *)
LEMMA NestedChild ==
  ASSUME NEW v, NEW h \in 1 .. MaxNesting, NEW w \in Nested(v, MaxNesting - h),
         NEW c \in Children(w)
  PROVE  c \in Nested(v, MaxNesting - (h - 1))
<1>1. MaxNesting - h \in Nat /\ MaxNesting - (h - 1) = (MaxNesting - h) + 1
  BY NestingAssumption
<1>2. Nested(v, (MaxNesting - h) + 1) = UNION {Children(u) : u \in Nested(v, MaxNesting - h)}
  BY <1>1, NestedDown DEF Beneath
<1> QED BY <1>1, <1>2

(* The proxy put in front of a list. *)
ProxyOf(cfg) == Str(ProxyUrl(cfg))

(* A list with one more value in front.                                    *)
LEMMA ProxyInFront ==
  ASSUME NEW D, NEW items \in Seq(D), NEW p
  PROVE  /\ <<p>> \o items \in Seq(D \cup {p})
         /\ Len(<<p>> \o items) = Len(items) + 1
         /\ (<<p>> \o items)[1] = p
         /\ \A i \in 1 .. Len(<<p>> \o items) : i # 1 => (<<p>> \o items)[i] = items[i - 1]
<1> DEFINE E == D \cup {p}
<1>1. <<p>> \in Seq(E) /\ Len(<<p>>) = 1 /\ <<p>>[1] = p
  OBVIOUS
<1>2. items \in Seq(E)
  BY ListOfMore
<1> HIDE DEF E
<1>3. /\ <<p>> \o items \in Seq(E)
      /\ Len(<<p>> \o items) = Len(<<p>>) + Len(items)
      /\ \A i \in 1 .. Len(<<p>>) + Len(items) :
           (<<p>> \o items)[i] = IF i <= Len(<<p>>) THEN <<p>>[i] ELSE items[i - Len(<<p>>)]
  BY <1>1, <1>2, ConcatProperties
<1>4. Len(items) \in Nat
  BY LenProperties
<1> QED BY <1>1, <1>3, <1>4 DEF E

(* The proxy is added to lists only, and nothing else is.                  *)
LEMMA WithProxyHolds ==
  ASSUME NEW cfg, ProxyUrl(cfg) \in Texts, NEW v, Document(v)
  PROVE  /\ Document(WithProxy(v, cfg))
         /\ IsArray(WithProxy(v, cfg)) <=> IsArray(v)
         /\ ~IsArray(v) => WithProxy(v, cfg) = v
         /\ IsArray(v) => Contains(WithProxy(v, cfg).items, ProxyOf(cfg))
         /\ Children(WithProxy(v, cfg)) \subseteq Children(v) \cup {ProxyOf(cfg)}
<1>1. CASE ~IsArray(v) \/ Contains(v.items, ProxyOf(cfg))
  <2>1. WithProxy(v, cfg) = v
    BY <1>1 DEF WithProxy, ProxyOf
  <2> QED BY <1>1, <2>1
<1>2. CASE IsArray(v) /\ ~Contains(v.items, ProxyOf(cfg))
  <2> DEFINE p == ProxyOf(cfg)
             more == <<p>> \o v.items
  <2>1. WithProxy(v, cfg) = Arr(more)
    BY <1>2 DEF WithProxy, ProxyOf
  <2>2. PICK D : (\A d \in D : Document(d)) /\ v.items \in Seq(D)
    BY <1>2, DocumentParts
  <2>3. Document(p)
    BY StringDocument DEF ProxyOf
  <2> HIDE DEF p
  <2>4. /\ more \in Seq(D \cup {p})
        /\ Len(more) = Len(v.items) + 1
        /\ more[1] = p
        /\ \A i \in 1 .. Len(more) : i # 1 => more[i] = v.items[i - 1]
    BY <2>2, ProxyInFront
  <2> HIDE DEF more
  <2>5. Document(Arr(more))
    <3>1. \A d \in D \cup {p} : Document(d)
      BY <2>2, <2>3
    <3> QED BY <2>4, <3>1, ArrayDocument
  <2>6. Len(v.items) \in Nat /\ DOMAIN v.items = 1 .. Len(v.items) /\ DOMAIN more = 1 .. Len(more)
    BY <2>2, <2>4, LenProperties
  <2>7. Contains(more, p)
    BY <2>4, <2>6 DEF Contains
  <2>8. Children(Arr(more)) \subseteq Children(v) \cup {p}
    <3>1. Children(Arr(more)) = {more[i] : i \in 1 .. Len(more)}
      BY <2>6, ChildrenOf, Kinds
    <3>2. Children(v) = {v.items[i] : i \in 1 .. Len(v.items)}
      BY <1>2, <2>6, ChildrenOf
    <3>3. ASSUME NEW i \in 1 .. Len(more), i # 1
          PROVE  more[i] = v.items[i - 1] /\ i - 1 \in 1 .. Len(v.items)
      BY <2>4, <2>6, <3>3
    <3> SUFFICES ASSUME NEW i \in 1 .. Len(more)
                 PROVE  more[i] \in Children(v) \cup {p}
      BY <3>1
    <3>4. CASE i = 1
      BY <2>4, <3>4
    <3>5. CASE i # 1
      BY <3>2, <3>3, <3>5
    <3> QED BY <3>4, <3>5
  <2>9. IsArray(Arr(more)) /\ Arr(more).items = more
    BY Kinds
  <2> QED BY <1>2, <2>1, <2>5, <2>7, <2>8, <2>9 DEF p
<1> QED BY <1>1, <1>2

(* One step of the walk. *)
LEMMA InjectIntoIs ==
  ASSUME NEW v, NEW below, NEW cfg
  PROVE  LET into == InjectInto(v, below, cfg)
         IN  /\ IsObject(v) =>
                  into = Obj([key \in DOMAIN v.m |-> IF key \in InjectedKeys
                                                     THEN WithProxy(below[v.m[key]], cfg)
                                                     ELSE below[v.m[key]]])
             /\ IsArray(v) => into = Arr([i \in DOMAIN v.items |-> below[v.items[i]]])
             /\ ~IsObject(v) /\ ~IsArray(v) => into = v
BY Apart DEF InjectInto

(* One step makes a document of documents, and adds only the proxy.        *)
LEMMA InjectIntoHolds ==
  ASSUME NEW cfg, ProxyUrl(cfg) \in Texts, NEW v, Document(v), NEW below,
         \A w \in Children(v) : Document(below[w])
  PROVE  /\ Document(InjectInto(v, below, cfg))
         /\ \A c \in Children(InjectInto(v, below, cfg)) :
              \E w \in Children(v) : c \in {below[w], WithProxy(below[w], cfg)}
<1> DEFINE into == InjectInto(v, below, cfg)
<1>1. CASE IsObject(v)
  <2> DEFINE f == [key \in DOMAIN v.m |-> IF key \in InjectedKeys
                                          THEN WithProxy(below[v.m[key]], cfg)
                                          ELSE below[v.m[key]]]
  <2>1. into = Obj(f)
    BY <1>1, InjectIntoIs
  <2>2. \A key \in DOMAIN v.m : v.m[key] \in Children(v)
    BY <1>1, ChildrenOf
  <2>3. \A key \in DOMAIN v.m : Document(below[v.m[key]])
    BY <2>2
  <2>4. ASSUME NEW key \in DOMAIN v.m
        PROVE  /\ f[key] \in {below[v.m[key]], WithProxy(below[v.m[key]], cfg)}
               /\ Document(f[key])
    BY <2>3, WithProxyHolds
  <2>5. DOMAIN f = DOMAIN v.m
    OBVIOUS
  <2> HIDE DEF f, into
  <2>6. Document(into)
    BY <2>1, <2>4, <2>5, ObjectDocument
  <2>7. Children(into) = {f[key] : key \in DOMAIN v.m}
    BY <2>1, <2>5, ChildrenOf, Kinds
  <2> QED BY <2>2, <2>4, <2>6, <2>7 DEF into
<1>2. CASE IsArray(v)
  <2> DEFINE f == [i \in DOMAIN v.items |-> below[v.items[i]]]
             D == {below[w] : w \in Children(v)}
  <2>1. into = Arr(f)
    BY <1>2, InjectIntoIs
  <2>2. PICK E : v.items \in Seq(E)
    BY <1>2, DocumentParts
  <2>3. Len(v.items) \in Nat /\ DOMAIN v.items = 1 .. Len(v.items)
    BY <2>2, LenProperties
  <2>4. \A i \in DOMAIN v.items : v.items[i] \in Children(v)
    BY <1>2, ChildrenOf
  <2>5. f \in [1 .. Len(v.items) -> D] /\ DOMAIN f = DOMAIN v.items
    BY <2>3, <2>4
  <2>6. \A i \in DOMAIN v.items : f[i] = below[v.items[i]]
    OBVIOUS
  <2>7. \A d \in D : Document(d)
    OBVIOUS
  <2> HIDE DEF f, D, into
  <2>8. f \in Seq(D)
    BY <2>3, <2>5, FunctionIsList
  <2>9. Document(into)
    BY <2>1, <2>7, <2>8, ArrayDocument
  <2>10. Children(into) = {f[i] : i \in DOMAIN v.items}
    BY <2>1, <2>5, ChildrenOf, Kinds
  <2> QED BY <2>4, <2>6, <2>9, <2>10 DEF into
<1>3. CASE ~IsObject(v) /\ ~IsArray(v)
  <2>1. into = v
    BY <1>3, InjectIntoIs
  <2>2. Children(v) = {}
    BY <1>3, ChildrenOf
  <2> QED BY <2>1, <2>2
<1> QED BY <1>1, <1>2, <1>3

(* The walk makes documents of the values at every level.                  *)
LEMMA WalkTyped ==
  ASSUME NEW cfg, ProxyUrl(cfg) \in Texts, NEW v, Document(v), NEW g, Walks(g, v, cfg)
  PROVE  \A h \in 0 .. MaxNesting : \A w \in Nested(v, MaxNesting - h) : Document(g[h][w])
<1> DEFINE Good(h) == \A w \in Nested(v, MaxNesting - h) : Document(g[h][w])
           T == {h \in Nat : h <= MaxNesting => Good(h)}
<1>0. MaxNesting \in Nat
  BY NestingAssumption
<1>1. 0 \in T
  <2>1. \A w \in Nested(v, MaxNesting) : g[0][w] = w
    BY DEF Walks
  <2>2. \A w \in Nested(v, MaxNesting) : Document(w)
    BY <1>0, NestedTyped
  <2>3. MaxNesting - 0 = MaxNesting
    BY <1>0
  <2> QED BY <2>1, <2>2, <2>3
<1>2. ASSUME NEW n \in Nat, n \in T
      PROVE  n + 1 \in T
  <2> SUFFICES ASSUME n + 1 <= MaxNesting, NEW w \in Nested(v, MaxNesting - (n + 1))
               PROVE  Document(g[n + 1][w])
    OBVIOUS
  <2>1. n + 1 \in 1 .. MaxNesting /\ (n + 1) - 1 = n /\ n <= MaxNesting
        /\ MaxNesting - (n + 1) \in Nat
    BY <1>0
  <2>2. g[n + 1][w] = InjectInto(w, g[n], cfg)
    BY <2>1 DEF Walks
  <2>3. \A c \in Children(w) : c \in Nested(v, MaxNesting - n)
    BY <2>1, NestedChild
  <2>4. \A c \in Children(w) : Document(g[n][c])
    BY <1>2, <2>1, <2>3
  <2>5. Document(w)
    BY <2>1, NestedTyped
  <2> QED BY <2>2, <2>4, <2>5, InjectIntoHolds
<1>3. Nat \subseteq T
  <2> HIDE DEF T
  <2> QED BY <1>1, <1>2, Induction
<1> QED BY <1>0, <1>3

(* The safety net leaves a document.                                       *)
LEMMA InjectDocument ==
  ASSUME NEW cfg, ProxyUrl(cfg) \in Texts, NEW v, Document(v)
  PROVE  Document(Inject(v, cfg))
<1>1. CASE ~IsPublicOrigin(ProxyUrl(cfg))
  BY <1>1 DEF Inject
<1>2. CASE IsPublicOrigin(ProxyUrl(cfg))
  <2>1. PICK g : Walks(g, v, cfg) /\ Inject(v, cfg) = g[MaxNesting][v]
    BY <1>2, InjectWalks
  <2>2. MaxNesting \in 0 .. MaxNesting /\ MaxNesting - MaxNesting = 0 /\ 0 \in Nat
    BY NestingAssumption
  <2>3. v \in Nested(v, MaxNesting - MaxNesting)
    BY <2>2, NestedDown
  <2> QED BY <2>1, <2>2, <2>3, WalkTyped
<1> QED BY <1>1, <1>2

-----------------------------------------------------------------------------
(* The safety net reaches every level.                                     *)

(* What is n levels deep in a walked document was n levels deep in the     *)
(* document, or is a proxy the walk put there.                             *)
CameFrom(w, g, v, cfg, n) ==
  \/ w = ProxyOf(cfg)
  \/ \E z \in Nested(v, n) : w \in {g[MaxNesting - n][z], WithProxy(g[MaxNesting - n][z], cfg)}

(* It is so one level deeper if it is so here.                             *)
LEMMA CameFromDeeper ==
  ASSUME NEW cfg, ProxyUrl(cfg) \in Texts, NEW v, Document(v), NEW g, Walks(g, v, cfg),
         NEW n \in Nat, n < MaxNesting, NEW u, CameFrom(u, g, v, cfg, n), NEW w \in Children(u)
  PROVE  CameFrom(w, g, v, cfg, n + 1)
<1> DEFINE h == MaxNesting - n
<1>1. h \in 1 .. MaxNesting /\ h \in 0 .. MaxNesting /\ MaxNesting - h = n
      /\ h - 1 = MaxNesting - (n + 1) /\ MaxNesting - (h - 1) = n + 1
  BY NestingAssumption
<1> HIDE DEF h
<1>2. SUFFICES ASSUME w # ProxyOf(cfg)
               PROVE  \E z \in Nested(v, n + 1) : w \in {g[h - 1][z], WithProxy(g[h - 1][z], cfg)}
  BY <1>1 DEF CameFrom
<1>3. Children(ProxyOf(cfg)) = {}
  BY Kinds, ChildrenOf DEF ProxyOf
<1>4. PICK z \in Nested(v, n) : u \in {g[h][z], WithProxy(g[h][z], cfg)}
  BY <1>1, <1>3 DEF CameFrom, h
<1>5. z \in Nested(v, MaxNesting - h)
  BY <1>1
<1>6. Document(z) /\ Document(g[h][z])
  BY <1>1, <1>5, NestedTyped, WalkTyped
<1>7. w \in Children(g[h][z])
  BY <1>2, <1>4, <1>6, WithProxyHolds
<1>8. g[h][z] = InjectInto(z, g[h - 1], cfg)
  BY <1>1, <1>5 DEF Walks
<1>9. ASSUME NEW c \in Children(z)
      PROVE  c \in Nested(v, n + 1) /\ Document(g[h - 1][c])
  <2>1. c \in Nested(v, MaxNesting - (h - 1))
    BY <1>1, <1>5, NestedChild
  <2>2. h - 1 \in 0 .. MaxNesting
    BY <1>1, NestingAssumption
  <2> QED BY <1>1, <2>1, <2>2, WalkTyped
<1>10. \E c \in Children(z) : w \in {g[h - 1][c], WithProxy(g[h - 1][c], cfg)}
  BY <1>6, <1>7, <1>8, <1>9, InjectIntoHolds
<1> QED BY <1>9, <1>10

(* It is so at every level.                                                *)
LEMMA AllCameFrom ==
  ASSUME NEW cfg, ProxyUrl(cfg) \in Texts, NEW v, Document(v), NEW g, Walks(g, v, cfg),
         NEW n \in Nat, n <= MaxNesting
  PROVE  \A w \in Nested(g[MaxNesting][v], n) : CameFrom(w, g, v, cfg, n)
<1> DEFINE y == g[MaxNesting][v]
           T == {k \in Nat : k <= MaxNesting => \A w \in Nested(y, k) : CameFrom(w, g, v, cfg, k)}
<1>1. 0 \in T
  <2>1. Nested(y, 0) = {y} /\ Nested(v, 0) = {v}
    BY NestedDown
  <2>2. MaxNesting - 0 = MaxNesting
    BY NestingAssumption
  <2> QED BY <2>1, <2>2 DEF CameFrom
<1> HIDE DEF y
<1>2. ASSUME NEW k \in Nat, k \in T
      PROVE  k + 1 \in T
  <2> SUFFICES ASSUME k + 1 <= MaxNesting, NEW w \in Nested(y, k + 1)
               PROVE  CameFrom(w, g, v, cfg, k + 1)
    OBVIOUS
  <2>1. PICK u \in Nested(y, k) : w \in Children(u)
    BY NestedDown DEF Beneath
  <2>2. k < MaxNesting /\ k <= MaxNesting
    BY NestingAssumption
  <2>3. CameFrom(u, g, v, cfg, k)
    BY <1>2, <2>2
  <2> QED BY <2>1, <2>2, <2>3, CameFromDeeper
<1>3. Nat \subseteq T
  <2> HIDE DEF T
  <2> QED BY <1>1, <1>2, Induction
<1> QED BY <1>3 DEF y

(* The safety net: no list the walk can find is left without the proxy.    *)
THEOREM InjectReachesAll ==
  ASSUME NEW cfg, ProxyUrl(cfg) \in Texts, IsPublicOrigin(ProxyUrl(cfg)), NEW v, Document(v)
  PROVE  \A list \in InjectedLists(Inject(v, cfg)) : Contains(list.items, Str(ProxyUrl(cfg)))
<1>1. PICK g : Walks(g, v, cfg) /\ Inject(v, cfg) = g[MaxNesting][v]
  BY InjectWalks
<1>2. SUFFICES ASSUME NEW n \in 0 .. MaxNesting - 1, NEW w \in Nested(g[MaxNesting][v], n),
                      IsObject(w), NEW key \in DOMAIN w.m \cap InjectedKeys, IsArray(w.m[key])
               PROVE  Contains(w.m[key].items, Str(ProxyUrl(cfg)))
  BY <1>1 DEF InjectedLists
<1> DEFINE h == MaxNesting - n
<1>3. h \in 1 .. MaxNesting /\ h \in 0 .. MaxNesting /\ h - 1 \in 0 .. MaxNesting
      /\ MaxNesting - h = n /\ n \in Nat /\ n <= MaxNesting
  BY NestingAssumption
<1> HIDE DEF h
<1>4. PICK z \in Nested(v, n) : w \in {g[h][z], WithProxy(g[h][z], cfg)}
  <2>1. CameFrom(w, g, v, cfg, n)
    BY <1>1, <1>3, AllCameFrom
  <2>2. w # ProxyOf(cfg)
    BY <1>2, Kinds DEF ProxyOf
  <2> QED BY <2>1, <2>2 DEF CameFrom, h
<1>5. z \in Nested(v, MaxNesting - h)
  BY <1>3
<1>6. Document(g[h][z])
  BY <1>1, <1>3, <1>5, WalkTyped
<1>7. w = g[h][z]
  BY <1>2, <1>4, <1>6, WithProxyHolds, Apart
<1>8. w = InjectInto(z, g[h - 1], cfg)
  BY <1>1, <1>3, <1>5, <1>7 DEF Walks
<1> DEFINE below == g[h - 1]
           f == [k \in DOMAIN z.m |-> IF k \in InjectedKeys THEN WithProxy(below[z.m[k]], cfg)
                                                         ELSE below[z.m[k]]]
<1>9. IsObject(z) /\ w = Obj(f)
  <2>1. CASE IsArray(z)
    <3>1. w = Arr([i \in DOMAIN z.items |-> below[z.items[i]]])
      BY <1>8, <2>1, InjectIntoIs
    <3> QED BY <1>2, <3>1, Kinds
  <2>2. CASE ~IsObject(z) /\ ~IsArray(z)
    <3>1. w = z
      BY <1>8, <2>2, InjectIntoIs
    <3> QED BY <1>2, <2>2, <3>1
  <2>3. CASE IsObject(z)
    BY <1>8, <2>3, InjectIntoIs
  <2> QED BY <2>1, <2>2, <2>3
<1>10. w.m[key] = WithProxy(g[h - 1][z.m[key]], cfg) /\ key \in DOMAIN z.m
  <2>1. w.m = f
    BY <1>9, Kinds
  <2>2. key \in DOMAIN f /\ key \in InjectedKeys
    BY <1>2, <2>1
  <2>3. key \in DOMAIN z.m /\ f[key] = WithProxy(below[z.m[key]], cfg)
    BY <2>2
  <2> HIDE DEF f
  <2> QED BY <2>1, <2>3
<1> HIDE DEF below, f
<1>11. Document(g[h - 1][z.m[key]])
  <2>1. z.m[key] \in Children(z)
    <3>1. Children(z) = {z.m[k] : k \in DOMAIN z.m}
      BY <1>9, ChildrenOf
    <3> QED BY <1>10, <3>1
  <2>2. z.m[key] \in Nested(v, MaxNesting - (h - 1))
    BY <1>3, <1>5, <2>1, NestedChild
  <2> QED BY <1>1, <1>3, <2>2, WalkTyped
<1> QED BY <1>2, <1>10, <1>11, WithProxyHolds DEF ProxyOf

-----------------------------------------------------------------------------
(* What the walk leaves as it is: everything but the lists that lack the   *)
(* proxy, and those who held them hold them still.                         *)

(* What the walk makes of a value somewhere in the document. *)
Image(w, x, g, v, cfg) ==
  x = w \/ \E h \in 0 .. MaxNesting : w \in Nested(v, MaxNesting - h) /\ x = g[h][w]

(* A value is as it was, or one step was made of it.                       *)
LEMMA ImageStep ==
  ASSUME NEW g, NEW v, NEW cfg, Walks(g, v, cfg), NEW w, NEW x, Image(w, x, g, v, cfg)
  PROVE  \/ x = w
         \/ \E below : /\ x = InjectInto(w, below, cfg)
                       /\ \A c \in Children(w) : Image(c, below[c], g, v, cfg)
<1>1. SUFFICES ASSUME x # w
               PROVE  \E below : /\ x = InjectInto(w, below, cfg)
                                 /\ \A c \in Children(w) : Image(c, below[c], g, v, cfg)
  OBVIOUS
<1>2. PICK h \in 0 .. MaxNesting : w \in Nested(v, MaxNesting - h) /\ x = g[h][w]
  BY <1>1 DEF Image
<1>3. h \in 1 .. MaxNesting /\ h - 1 \in 0 .. MaxNesting
  <2>1. h # 0
    <3>1. MaxNesting - 0 = MaxNesting
      BY NestingAssumption
    <3> QED BY <1>1, <1>2, <3>1 DEF Walks
  <2> QED BY <2>1, NestingAssumption
<1>4. x = InjectInto(w, g[h - 1], cfg)
  BY <1>2, <1>3 DEF Walks
<1>5. ASSUME NEW c \in Children(w)
      PROVE  Image(c, g[h - 1][c], g, v, cfg)
  <2>1. c \in Nested(v, MaxNesting - (h - 1))
    BY <1>2, <1>3, NestedChild
  <2> QED BY <1>3, <2>1 DEF Image
<1> QED BY <1>4, <1>5

(* Objects keep their keys.                                                *)
LEMMA ImageOfObject ==
  ASSUME NEW g, NEW v, NEW cfg, Walks(g, v, cfg), NEW w, NEW x, Image(w, x, g, v, cfg),
         IsObject(w)
  PROVE  /\ IsObject(x)
         /\ DOMAIN x.m = DOMAIN w.m
         /\ \A key \in DOMAIN w.m :
              \E y : /\ Image(w.m[key], y, g, v, cfg)
                     /\ x.m[key] = y \/ (key \in InjectedKeys /\ x.m[key] = WithProxy(y, cfg))
<1>1. CASE x = w
  <2>1. \A c : Image(c, c, g, v, cfg)
    BY DEF Image
  <2> QED BY <1>1, <2>1
<1>2. CASE x # w
  <2>1. PICK below : /\ x = InjectInto(w, below, cfg)
                     /\ \A c \in Children(w) : Image(c, below[c], g, v, cfg)
    BY <1>2, ImageStep
  <2> DEFINE f == [key \in DOMAIN w.m |-> IF key \in InjectedKeys
                                          THEN WithProxy(below[w.m[key]], cfg)
                                          ELSE below[w.m[key]]]
  <2>2. x = Obj(f)
    BY <2>1, InjectIntoIs
  <2>3. IsObject(x) /\ x.m = f
    BY <2>2, Kinds
  <2>4. ASSUME NEW key \in DOMAIN w.m
        PROVE  Image(w.m[key], below[w.m[key]], g, v, cfg)
    BY <2>1, ChildrenOf
  <2>5. ASSUME NEW key \in DOMAIN w.m
        PROVE  \/ x.m[key] = below[w.m[key]]
               \/ key \in InjectedKeys /\ x.m[key] = WithProxy(below[w.m[key]], cfg)
    BY <2>3
  <2>6. DOMAIN x.m = DOMAIN w.m
    BY <2>3
  <2> HIDE DEF f
  <2> QED BY <2>3, <2>4, <2>5, <2>6
<1> QED BY <1>1, <1>2

(* Lists that no key singles out keep their places.                        *)
LEMMA ImageOfArray ==
  ASSUME NEW g, NEW v, NEW cfg, Walks(g, v, cfg), NEW w, NEW x, Image(w, x, g, v, cfg),
         IsArray(w)
  PROVE  /\ IsArray(x)
         /\ DOMAIN x.items = DOMAIN w.items
         /\ \A i \in DOMAIN w.items : Image(w.items[i], x.items[i], g, v, cfg)
<1>1. CASE x = w
  BY <1>1 DEF Image
<1>2. CASE x # w
  <2>1. PICK below : /\ x = InjectInto(w, below, cfg)
                     /\ \A c \in Children(w) : Image(c, below[c], g, v, cfg)
    BY <1>2, ImageStep
  <2>2. x = Arr([i \in DOMAIN w.items |-> below[w.items[i]]])
    BY <2>1, InjectIntoIs
  <2>3. IsArray(x) /\ x.items = [i \in DOMAIN w.items |-> below[w.items[i]]]
    BY <2>2, Kinds
  <2>4. \A i \in DOMAIN w.items : w.items[i] \in Children(w)
    BY ChildrenOf
  <2> QED BY <2>1, <2>3, <2>4
<1> QED BY <1>1, <1>2

(* Strings, numbers and the rest stay.                                     *)
LEMMA ImageOfOther ==
  ASSUME NEW g, NEW v, NEW cfg, Walks(g, v, cfg), NEW w, NEW x, Image(w, x, g, v, cfg),
         ~IsObject(w), ~IsArray(w)
  PROVE  x = w
<1>1. CASE x # w
  <2>1. PICK below : x = InjectInto(w, below, cfg)
    BY <1>1, ImageStep
  <2> QED BY <2>1, InjectIntoIs
<1> QED BY <1>1

(* A list of domains stays as it is. *)
LEMMA ImageOfDomains ==
  ASSUME NEW g, NEW v, NEW cfg, Walks(g, v, cfg), NEW ds, NEW x,
         Image(DomainArray(ds), x, g, v, cfg)
  PROVE  x = DomainArray(ds)
<1> DEFINE items == [i \in DOMAIN ds |-> Str(ds[i])]
           w == DomainArray(ds)
<1>1. w = Arr(items) /\ IsArray(w) /\ w.items = items
  BY Kinds DEF DomainArray
<1>2. SUFFICES ASSUME x # DomainArray(ds)
               PROVE  FALSE
  OBVIOUS
<1>3. PICK below : /\ x = InjectInto(w, below, cfg)
                   /\ \A c \in Children(w) : Image(c, below[c], g, v, cfg)
  <2> HIDE DEF w
  <2> QED BY <1>2, ImageStep DEF w
<1>4. \A i \in DOMAIN ds : items[i] \in Children(w)
  BY <1>1, ChildrenOf
<1>5. ASSUME NEW i \in DOMAIN ds
      PROVE  below[items[i]] = items[i]
  <2>1. Image(items[i], below[items[i]], g, v, cfg)
    BY <1>3, <1>4
  <2>2. ~IsObject(items[i]) /\ ~IsArray(items[i])
    BY Kinds
  <2> HIDE DEF items
  <2> QED BY <2>1, <2>2, ImageOfOther
<1>6. x = Arr([i \in DOMAIN ds |-> below[items[i]]])
  <2>1. x = Arr([i \in DOMAIN w.items |-> below[w.items[i]]])
    <3> HIDE DEF w, items
    <3> QED BY <1>1, <1>3, InjectIntoIs
  <2> QED BY <1>1, <2>1
<1>7. [i \in DOMAIN ds |-> below[items[i]]] = items
  BY <1>5
<1> QED BY <1>1, <1>2, <1>6, <1>7

(* Members under the walk. *)
LEMMA ImageGet ==
  ASSUME NEW g, NEW v, NEW cfg, Walks(g, v, cfg), NEW w, NEW x, Image(w, x, g, v, cfg),
         NEW key, key \notin InjectedKeys
  PROVE  Image(Get(w, key), Get(x, key), g, v, cfg)
<1>1. CASE IsObject(w)
  <2>1. IsObject(x) /\ DOMAIN x.m = DOMAIN w.m
    BY <1>1, ImageOfObject
  <2>2. CASE key \in DOMAIN w.m
    <3>1. Image(w.m[key], x.m[key], g, v, cfg)
      BY <1>1, <2>2, ImageOfObject
    <3> QED BY <1>1, <2>1, <2>2, <3>1 DEF Get
  <2>3. CASE key \notin DOMAIN w.m
    BY <1>1, <2>1, <2>3 DEF Get, Image
  <2> QED BY <2>2, <2>3
<1>2. CASE ~IsObject(w)
  <2>1. ~IsObject(x)
    BY <1>2, ImageOfArray, ImageOfOther, Apart
  <2> QED BY <1>2, <2>1 DEF Get, Image
<1> QED BY <1>1, <1>2

(* A list of domains stays if it needs no proxy or has it.                 *)
LEMMA ImageGetList ==
  ASSUME NEW g, NEW v, NEW cfg, Walks(g, v, cfg), NEW w, NEW x, Image(w, x, g, v, cfg),
         NEW key, NEW ds, Get(w, key) = DomainArray(ds),
         key \in InjectedKeys => Contains(DomainArray(ds).items, ProxyOf(cfg))
  PROVE  Get(x, key) = DomainArray(ds)
<1>1. DomainArray(ds) # Missing
  BY Kinds DEF DomainArray
<1>2. IsObject(w) /\ key \in DOMAIN w.m /\ w.m[key] = DomainArray(ds)
  BY <1>1 DEF Get
<1>3. IsObject(x) /\ DOMAIN x.m = DOMAIN w.m
  BY <1>2, ImageOfObject
<1>4. PICK y : /\ Image(w.m[key], y, g, v, cfg)
               /\ x.m[key] = y \/ (key \in InjectedKeys /\ x.m[key] = WithProxy(y, cfg))
  BY <1>2, ImageOfObject
<1>5. y = DomainArray(ds)
  BY <1>2, <1>4, ImageOfDomains
<1>6. key \in InjectedKeys => WithProxy(y, cfg) = y
  BY <1>5 DEF WithProxy, ProxyOf
<1> QED BY <1>2, <1>3, <1>4, <1>5, <1>6 DEF Get

(* Types, strings and missing members stay.                                *)
LEMMA ImageSame ==
  ASSUME NEW g, NEW v, NEW cfg, Walks(g, v, cfg), NEW w, NEW x, Image(w, x, g, v, cfg)
  PROVE  /\ IsObject(x) <=> IsObject(w)
         /\ IsArray(x) <=> IsArray(w)
         /\ IsString(w) \/ IsString(x) => x = w
         /\ w = Missing \/ x = Missing => x = w
<1>1. CASE IsObject(w)
  BY <1>1, ImageOfObject, Apart, Kinds
<1>2. CASE IsArray(w)
  BY <1>2, ImageOfArray, Apart, Kinds
<1>3. CASE ~IsObject(w) /\ ~IsArray(w)
  BY <1>3, ImageOfOther
<1> QED BY <1>1, <1>2, <1>3

-----------------------------------------------------------------------------
(* The lists of domains that metadata holds.                               *)

(* The keys of the two shapes. *)
LEMMA ShapeKeys ==
  /\ DOMAIN OpenAiKey = {"connect", "resource", "frame", "redirect"}
  /\ DOMAIN SpecKey = {"connect", "resource", "frame", "baseUri"}
  /\ Directives = DOMAIN OpenAiKey \cup DOMAIN SpecKey
  /\ \A d, e \in DOMAIN OpenAiKey : OpenAiKey[d] = OpenAiKey[e] => d = e
  /\ \A d, e \in DOMAIN SpecKey : SpecKey[d] = SpecKey[e] => d = e
<1>1. DOMAIN OpenAiKey = {"connect", "resource", "frame", "redirect"}
  BY DEF OpenAiKey
<1>2. DOMAIN SpecKey = {"connect", "resource", "frame", "baseUri"}
  BY DEF SpecKey
<1>3. \A d, e \in {"connect", "resource", "frame", "redirect"} :
        OpenAiKey[d] = OpenAiKey[e] => d = e
  BY DEF OpenAiKey
<1>4. \A d, e \in {"connect", "resource", "frame", "baseUri"} :
        SpecKey[d] = SpecKey[e] => d = e
  BY DEF SpecKey
<1> QED BY <1>1, <1>2, <1>3, <1>4 DEF Directives

(* The keys the safety net singles out, and keys it does not.              *)
LEMMA ProxiedKeys ==
  /\ \A d \in DOMAIN OpenAiKey : OpenAiKey[d] \in InjectedKeys => d \in {"connect", "resource"}
  /\ \A d \in DOMAIN SpecKey : SpecKey[d] \in InjectedKeys => d \in {"connect", "resource"}
  /\ \A key \in {"_meta", "ui", "csp", "openai/widgetCSP", "openai/widgetDomain",
                 "openai/outputTemplate", "resourceUri", "domain", "name", "uri", "uriTemplate",
                 "resources", "resourceTemplates", "contents"} : key \notin InjectedKeys
<1>1. InjectedKeys = {"connect_domains", "resource_domains", "connectDomains", "resourceDomains"}
  BY DEF InjectedKeys, OpenAiKey, SpecKey
<1>2. \A d \in {"connect", "resource", "frame", "redirect"} :
        OpenAiKey[d] \in {"connect_domains", "resource_domains", "connectDomains",
                          "resourceDomains"} => d \in {"connect", "resource"}
  BY DEF OpenAiKey
<1>3. \A d \in {"connect", "resource", "frame", "baseUri"} :
        SpecKey[d] \in {"connect_domains", "resource_domains", "connectDomains",
                        "resourceDomains"} => d \in {"connect", "resource"}
  BY DEF SpecKey
<1> QED BY <1>1, <1>2, <1>3, ShapeKeys

(* Lists of domains in documents. *)
LEMMA DomainsOfTyped ==
  ASSUME NEW v, Document(v) \/ v = Missing
  PROVE  DomainsOf(v) \in Seq(Texts)
<1> DEFINE S == {w \in ToSet(ItemsOf(v)) : IsString(w)}
           strings == Only(ItemsOf(v), S)
<1>1. \E D : (\A d \in D : Document(d)) /\ ItemsOf(v) \in Seq(D)
  <2>1. CASE IsArray(v)
    <3>1. v # Missing
      BY <2>1, Kinds
    <3> QED BY <2>1, <3>1, DocumentParts DEF ItemsOf
  <2>2. CASE ~IsArray(v)
    <3>1. ItemsOf(v) \in Seq({})
      BY <2>2 DEF ItemsOf
    <3> QED BY <3>1
  <2> QED BY <2>1, <2>2
<1>2. PICK D : (\A d \in D : Document(d)) /\ ItemsOf(v) \in Seq(D)
  BY <1>1
<1>3. strings \in Seq(D \cap S)
  <2> HIDE DEF S
  <2> QED BY <1>2, OnlyKeeps
<1>4. \A w \in D \cap S : w.v \in Texts
  BY <1>2, DocumentParts
<1> HIDE DEF strings, S
<1>5. /\ Len(strings) \in Nat /\ DOMAIN strings = 1 .. Len(strings)
      /\ \A i \in 1 .. Len(strings) : strings[i] \in D \cap S
  BY <1>3, LenProperties
<1>6. [i \in DOMAIN strings |-> strings[i].v] \in [1 .. Len(strings) -> Texts]
  BY <1>4, <1>5
<1>7. DomainsOf(v) = [i \in DOMAIN strings |-> strings[i].v]
  BY DEF DomainsOf, strings, S
<1> QED BY <1>5, <1>6, <1>7, FunctionIsList

(* A list of domains as a document.                                        *)
LEMMA DomainArrayItems ==
  ASSUME NEW ds \in Seq(Texts)
  PROVE  /\ IsArray(DomainArray(ds))
         /\ DomainArray(ds).items \in Seq({Str(t) : t \in Texts})
         /\ DOMAIN DomainArray(ds).items = DOMAIN ds
         /\ \A i \in DOMAIN ds : DomainArray(ds).items[i] = Str(ds[i])
         /\ Document(DomainArray(ds))
<1> DEFINE items == [i \in DOMAIN ds |-> Str(ds[i])]
           D == {Str(t) : t \in Texts}
<1>1. DomainArray(ds) = Arr(items) /\ IsArray(Arr(items)) /\ Arr(items).items = items
  BY Kinds DEF DomainArray
<1>2. Len(ds) \in Nat /\ DOMAIN ds = 1 .. Len(ds) /\ \A i \in 1 .. Len(ds) : ds[i] \in Texts
  BY LenProperties
<1>3. items \in [1 .. Len(ds) -> D]
  BY <1>2
<1>4. items \in Seq(D)
  <2> HIDE DEF items, D
  <2> QED BY <1>2, <1>3, FunctionIsList
<1>5. \A d \in D : Document(d)
  BY StringDocument
<1>6. Document(Arr(items))
  <2> HIDE DEF items, D
  <2> QED BY <1>4, <1>5, ArrayDocument
<1> QED BY <1>1, <1>4, <1>6

(* A list of domains is read back as it was written.                       *)
LEMMA DomainsOfArray ==
  ASSUME NEW ds \in Seq(Texts)
  PROVE  DomainsOf(DomainArray(ds)) = ds
<1> DEFINE v == DomainArray(ds)
           S == {w \in ToSet(v.items) : IsString(w)}
<1>1. /\ IsArray(v) /\ v.items \in Seq({Str(t) : t \in Texts}) /\ DOMAIN v.items = DOMAIN ds
      /\ \A i \in DOMAIN ds : v.items[i] = Str(ds[i])
  BY DomainArrayItems
<1>2. ItemsOf(v) = v.items
  BY <1>1 DEF ItemsOf
<1>3. v.items \in Seq(ToSet(v.items))
  BY <1>1, ListOfItself
<1> HIDE DEF v
<1>4. ToSet(v.items) \subseteq S
  BY <1>1, Kinds DEF ToSet
<1>5. Only(v.items, S) = v.items
  <2> HIDE DEF S
  <2> QED BY <1>3, <1>4, OnlyAll
<1>6. DomainsOf(v) = [i \in DOMAIN v.items |-> v.items[i].v]
  BY <1>2, <1>5 DEF DomainsOf
<1>7. \A i \in DOMAIN ds : v.items[i].v = ds[i]
  BY <1>1, Kinds
<1>8. ds = [i \in DOMAIN ds |-> ds[i]]
  <2>1. ds \in [1 .. Len(ds) -> Texts]
    BY LenProperties
  <2> QED BY <2>1
<1>9. [i \in DOMAIN v.items |-> v.items[i].v] = [i \in DOMAIN ds |-> ds[i]]
  BY <1>1, <1>7
<1> QED BY <1>6, <1>8, <1>9 DEF v

(* What the server asked for, in both shapes. *)
Asked(meta, d) ==
  (IF d \in DOMAIN OpenAiKey THEN ToSet(DomainsOf(Get(OpenAiCsp(meta), OpenAiKey[d]))) ELSE {})
    \cup (IF d \in DOMAIN SpecKey THEN ToSet(DomainsOf(Get(SpecCsp(meta), SpecKey[d]))) ELSE {})

(* What is collected is what either shape asks for.                        *)
LEMMA CollectUpstreamHolds ==
  ASSUME NEW meta, Document(meta) \/ meta = Missing, NEW d
  PROVE  /\ CollectUpstream(meta, d) \in Seq(Texts)
         /\ ToSet(CollectUpstream(meta, d)) = Asked(meta, d)
<1> DEFINE openai == IF d \in DOMAIN OpenAiKey
                     THEN DomainsOf(Get(OpenAiCsp(meta), OpenAiKey[d])) ELSE <<>>
           spec == IF d \in DOMAIN SpecKey
                   THEN DomainsOf(Get(SpecCsp(meta), SpecKey[d])) ELSE <<>>
<1>1. DomainsOf(Get(OpenAiCsp(meta), OpenAiKey[d])) \in Seq(Texts)
  BY GetDocument, DomainsOfTyped DEF OpenAiCsp
<1>2. DomainsOf(Get(SpecCsp(meta), SpecKey[d])) \in Seq(Texts)
  BY GetDocument, DomainsOfTyped DEF SpecCsp
<1>3. <<>> \in Seq(Texts) /\ ToSet(<<>>) = {}
  BY DEF ToSet
<1>4. openai \in Seq(Texts) /\ spec \in Seq(Texts)
  BY <1>1, <1>2, <1>3
<1>5. ToSet(openai) \cup ToSet(spec) = Asked(meta, d)
  BY <1>3 DEF Asked
<1>6. CollectUpstream(meta, d) = PushAll(PushAll(<<>>, openai), spec)
  BY DEF CollectUpstream
<1> HIDE DEF openai, spec
<1>7. /\ PushAll(<<>>, openai) \in Seq(Texts)
      /\ ToSet(PushAll(<<>>, openai)) = ToSet(<<>>) \cup ToSet(openai)
  <2> DEFINE none == <<>>
  <2>1. none \in Seq(Texts)
    BY <1>3
  <2> HIDE DEF none
  <2>2. /\ PushAll(none, openai) \in Seq(Texts)
        /\ ToSet(PushAll(none, openai)) = ToSet(none) \cup ToSet(openai)
    BY <1>4, <2>1, PushAllAdds
  <2> QED BY <2>2 DEF none
<1>8. /\ PushAll(PushAll(<<>>, openai), spec) \in Seq(Texts)
      /\ ToSet(PushAll(PushAll(<<>>, openai), spec)) = ToSet(openai) \cup ToSet(spec)
  <2> DEFINE some == PushAll(<<>>, openai)
  <2> HIDE DEF some
  <2>1. /\ PushAll(some, spec) \in Seq(Texts)
        /\ ToSet(PushAll(some, spec)) = ToSet(some) \cup ToSet(spec)
    BY <1>4, <1>7, PushAllAdds DEF some
  <2>2. ToSet(some) = ToSet(openai)
    BY <1>3, <1>7 DEF some
  <2> QED BY <2>1, <2>2 DEF some
<1> QED BY <1>5, <1>6, <1>8

(* Metadata with these lists in both shapes. *)
HoldsLists(meta, lists) ==
  /\ IsObject(meta)
  /\ \A d \in DOMAIN OpenAiKey : Get(OpenAiCsp(meta), OpenAiKey[d]) = DomainArray(lists[d])
  /\ \A d \in DOMAIN SpecKey : Get(SpecCsp(meta), SpecKey[d]) = DomainArray(lists[d])

(* The lists the gateway wrote are what a second one hears.                *)
LEMMA AskedOfLists ==
  ASSUME NEW meta, NEW lists, \A d \in Directives : lists[d] \in Seq(Texts),
         HoldsLists(meta, lists), NEW d \in Directives
  PROVE  Asked(meta, d) = ToSet(lists[d])
<1>1. DomainsOf(DomainArray(lists[d])) = lists[d]
  BY DomainsOfArray
<1>2. d \in DOMAIN OpenAiKey => Get(OpenAiCsp(meta), OpenAiKey[d]) = DomainArray(lists[d])
  BY DEF HoldsLists
<1>3. d \in DOMAIN SpecKey => Get(SpecCsp(meta), SpecKey[d]) = DomainArray(lists[d])
  BY DEF HoldsLists
<1>4. d \in DOMAIN OpenAiKey \/ d \in DOMAIN SpecKey
  BY ShapeKeys
<1> QED BY <1>1, <1>2, <1>3, <1>4 DEF Asked

(* Whoever has the lists is a widget for a second gateway.                 *)
LEMMA ListsMakeWidget ==
  ASSUME NEW meta, NEW lists, HoldsLists(meta, lists), NEW uri
  PROVE  IsWidgetMeta(meta, uri)
<1>1. "connect" \in DOMAIN OpenAiKey
  BY ShapeKeys
<1>2. OpenAiCsp(meta) # Missing
  <2>1. Get(Missing, OpenAiKey["connect"]) = Missing
    BY Kinds DEF Get
  <2>2. DomainArray(lists["connect"]) # Missing
    BY Kinds DEF DomainArray
  <2> QED BY <1>1, <2>1, <2>2 DEF HoldsLists
<1> QED BY <1>2 DEF IsWidgetMeta, Has, OpenAiCsp

-----------------------------------------------------------------------------
(* Writing a policy into metadata.                                         *)

(* What was put is there, and the rest as before.                          *)
LEMMA PutGet ==
  ASSUME NEW v, IsObject(v), NEW key, NEW to
  PROVE  /\ IsObject(Put(v, key, to)) /\ Insert(v, key, to) = Put(v, key, to)
         /\ Get(Put(v, key, to), key) = to
         /\ \A k : k # key => Get(Put(v, key, to), k) = Get(v, k)
<1> DEFINE m == Joined(Member(key, to), v.m)
<1>1. /\ DOMAIN m = DOMAIN v.m \cup {key}
      /\ m[key] = to
      /\ \A k \in DOMAIN v.m : k # key => m[k] = v.m[k]
  BY DEF Joined, Member
<1>2. Put(v, key, to) = Obj(m)
  BY DEF Put
<1> HIDE DEF m
<1>3. IsObject(Put(v, key, to)) /\ Put(v, key, to).m = m
  BY <1>2, Kinds
<1> QED BY <1>1, <1>3 DEF Get, Insert

(* Metadata that is made up is empty.                                      *)
LEMMA NoMembers ==
  /\ IsObject(Obj(<<>>)) /\ Document(Obj(<<>>))
  /\ \A k : Get(Obj(<<>>), k) = Missing
<1> DEFINE none == <<>>
<1>1. DOMAIN none = {}
  OBVIOUS
<1> HIDE DEF none
<1>2. IsObject(Obj(none)) /\ Obj(none).m = none
  BY Kinds
<1>3. Document(Obj(none))
  BY <1>1, ObjectDocument
<1>4. \A k : Get(Obj(none), k) = Missing
  BY <1>1, <1>2 DEF Get
<1> QED BY <1>2, <1>3, <1>4 DEF none

(* Each shape has the list of each of its directives.                      *)
LEMMA ShapeHolds ==
  ASSUME NEW keys \in {OpenAiKey, SpecKey}, NEW merged
  PROVE  /\ \A d \in DOMAIN keys : Get(Shape(keys, merged), keys[d]) = DomainArray(merged[d])
         /\ (\A d \in Directives : merged[d] \in Seq(Texts)) => Document(Shape(keys, merged))
<1> DEFINE from(key) == CHOOSE d \in DOMAIN keys : keys[d] = key
           f == [key \in {keys[d] : d \in DOMAIN keys} |-> DomainArray(merged[from(key)])]
<1>1. ASSUME NEW d \in DOMAIN keys
      PROVE  from(keys[d]) = d
  <2>1. \A e \in DOMAIN keys : keys[e] = keys[d] => e = d
    BY ShapeKeys
  <2> QED BY <2>1
<1>2. Shape(keys, merged) = Obj(f)
  BY DEF Shape
<1> HIDE DEF from
<1>3. DOMAIN f = {keys[d] : d \in DOMAIN keys}
  OBVIOUS
<1>4. \A d \in DOMAIN keys : f[keys[d]] = DomainArray(merged[d])
  BY <1>1
<1> HIDE DEF f
<1>5. \A d \in DOMAIN keys : Get(Obj(f), keys[d]) = DomainArray(merged[d])
  BY <1>3, <1>4, Kinds DEF Get
<1>6. ASSUME \A d \in Directives : merged[d] \in Seq(Texts)
      PROVE  Document(Obj(f))
  <2>1. DOMAIN keys \subseteq Directives
    BY ShapeKeys
  <2>2. \A d \in DOMAIN keys : Document(DomainArray(merged[d]))
    BY <1>6, <2>1, DomainArrayItems
  <2>3. \A key \in DOMAIN f : Document(f[key])
    BY <1>3, <1>4, <2>2
  <2> QED BY <2>3, ObjectDocument
<1> QED BY <1>2, <1>5, <1>6

(* Both shapes written. *)
Written(meta, merged) == WriteSpecCsp(WriteOpenAiCsp(meta, merged), merged)

(* Both shapes hold the merged lists; the widget is still itself.          *)
LEMMA WrittenHolds ==
  ASSUME NEW meta, IsObject(meta), NEW merged
  PROVE  /\ HoldsLists(Written(meta, merged), merged)
         /\ ExtractResourceUri(Written(meta, merged)) = ExtractResourceUri(meta)
         /\ Document(meta) /\ (\A d \in Directives : merged[d] \in Seq(Texts)) =>
              Document(Written(meta, merged))
<1> DEFINE O == Shape(OpenAiKey, merged)
           P == Shape(SpecKey, merged)
           a == WriteOpenAiCsp(meta, merged)
           b == Written(meta, merged)
           ui == IF IsObject(Get(a, "ui")) THEN Get(a, "ui") ELSE Obj(<<>>)
           csp == Put(ui, "csp", P)
<1>1. a = Put(meta, "openai/widgetCSP", O) /\ IsObject(a)
  BY PutGet DEF WriteOpenAiCsp
<1>2. Get(a, "openai/widgetCSP") = O /\ \A k : k # "openai/widgetCSP" => Get(a, k) = Get(meta, k)
  BY <1>1, PutGet
<1>3. IsObject(ui)
  BY NoMembers
<1>4. b = Put(a, "ui", csp)
  <2>1. b = Insert(a, "ui", csp)
    BY DEF Written, WriteSpecCsp
  <2> HIDE DEF a, b, csp
  <2> QED BY <1>1, <2>1, PutGet
<1> HIDE DEF a, b
<1>5. IsObject(csp) /\ Get(csp, "csp") = P /\ \A k : k # "csp" => Get(csp, k) = Get(ui, k)
  <2> HIDE DEF ui
  <2> QED BY <1>3, PutGet
<1>6. \A k : k # "csp" => Get(csp, k) = Get(Get(meta, "ui"), k)
  <2>1. Get(a, "ui") = Get(meta, "ui")
    BY <1>2
  <2>2. CASE IsObject(Get(a, "ui"))
    BY <1>5, <2>1, <2>2
  <2>3. CASE ~IsObject(Get(a, "ui"))
    <3>1. \A k : Get(Get(meta, "ui"), k) = Missing
      BY <2>1, <2>3 DEF Get
    <3>2. \A k : Get(ui, k) = Missing
      BY <2>3, NoMembers
    <3> HIDE DEF csp, ui
    <3> QED BY <1>5, <3>1, <3>2
  <2> QED BY <2>2, <2>3
<1> HIDE DEF csp, O, P, ui
<1>7. IsObject(b) /\ Get(b, "ui") = csp /\ \A k : k # "ui" => Get(b, k) = Get(a, k)
  BY <1>1, <1>4, PutGet
<1>8. OpenAiCsp(b) = O /\ SpecCsp(b) = P
  BY <1>2, <1>5, <1>7 DEF OpenAiCsp, SpecCsp
<1>9. HoldsLists(b, merged)
  BY <1>7, <1>8, ShapeHolds DEF HoldsLists, O, P
<1>10. ExtractResourceUri(b) = ExtractResourceUri(meta)
  <2>1. Get(Get(b, "ui"), "resourceUri") = Get(Get(meta, "ui"), "resourceUri")
    BY <1>6, <1>7
  <2>2. Get(b, "openai/outputTemplate") = Get(meta, "openai/outputTemplate")
    BY <1>2, <1>7
  <2> QED BY <2>1, <2>2 DEF ExtractResourceUri
<1>11. ASSUME Document(meta), \A d \in Directives : merged[d] \in Seq(Texts)
       PROVE  Document(b)
  <2>1. Document(O) /\ Document(P)
    BY <1>11, ShapeHolds DEF O, P
  <2>2. Document(a)
    BY <1>1, <1>11, <2>1, PutDocument
  <2>3. Document(ui)
    BY <2>2, GetDocument, NoMembers, Kinds DEF ui
  <2>4. Document(csp)
    BY <1>3, <2>1, <2>3, PutDocument DEF csp
  <2> QED BY <1>1, <1>4, <2>2, <2>4, PutDocument
<1> QED BY <1>9, <1>10, <1>11 DEF b

(* The operator's domain is written beside them. *)
LEMMA NamedHolds ==
  ASSUME NEW meta, IsObject(meta), NEW cfg
  PROVE  LET named == WriteWidgetDomain(meta, cfg)
         IN  /\ IsObject(named)
             /\ OpenAiCsp(named) = OpenAiCsp(meta) /\ SpecCsp(named) = SpecCsp(meta)
             /\ ExtractResourceUri(named) = ExtractResourceUri(meta)
             /\ Document(meta) /\ cfg.domain \in Texts => Document(named)
<1> DEFINE named == WriteWidgetDomain(meta, cfg)
<1>1. CASE cfg.domain = <<>>
  <2>1. named = meta
    BY <1>1 DEF WriteWidgetDomain
  <2> QED BY <2>1
<1>2. CASE cfg.domain # <<>>
  <2>1. named = Put(meta, "openai/widgetDomain", Str(cfg.domain))
    BY <1>2, PutGet DEF WriteWidgetDomain
  <2>2. IsObject(named) /\ \A k : k # "openai/widgetDomain" => Get(named, k) = Get(meta, k)
    BY <2>1, PutGet
  <2>3. Document(meta) /\ cfg.domain \in Texts => Document(named)
    BY <2>1, StringDocument, PutDocument
  <2> HIDE DEF named
  <2>4. Get(named, "ui") = Get(meta, "ui") /\ OpenAiCsp(named) = OpenAiCsp(meta)
        /\ Get(named, "openai/outputTemplate") = Get(meta, "openai/outputTemplate")
    BY <2>2 DEF OpenAiCsp
  <2>5. SpecCsp(named) = SpecCsp(meta) /\ ExtractResourceUri(named) = ExtractResourceUri(meta)
    BY <2>4 DEF SpecCsp, ExtractResourceUri
  <2> QED BY <2>2, <2>3, <2>4, <2>5 DEF named
<1> QED BY <1>1, <1>2

(* Metadata under the walk. *)
LEMMA ImageKeepsMeta ==
  ASSUME NEW g, NEW v, NEW cfg, Walks(g, v, cfg), NEW w, NEW x, Image(w, x, g, v, cfg),
         NEW lists, HoldsLists(w, lists),
         \A d \in {"connect", "resource"} : Contains(DomainArray(lists[d]).items, ProxyOf(cfg))
  PROVE  HoldsLists(x, lists) /\ ExtractResourceUri(x) = ExtractResourceUri(w)
<1>1. IsObject(x)
  BY ImageSame DEF HoldsLists
<1>2. ASSUME NEW k \in {"ui", "csp", "openai/widgetCSP", "openai/outputTemplate", "resourceUri"},
             NEW p, NEW q, Image(p, q, g, v, cfg)
      PROVE  Image(Get(p, k), Get(q, k), g, v, cfg)
  BY <1>2, ImageGet, ProxiedKeys
<1>3. Image(OpenAiCsp(w), OpenAiCsp(x), g, v, cfg)
  BY <1>2 DEF OpenAiCsp
<1>4. Image(Get(w, "ui"), Get(x, "ui"), g, v, cfg)
  BY <1>2
<1>5. Image(SpecCsp(w), SpecCsp(x), g, v, cfg)
  BY <1>2, <1>4 DEF SpecCsp
<1>6. ASSUME NEW d \in DOMAIN OpenAiKey
      PROVE  Get(OpenAiCsp(x), OpenAiKey[d]) = DomainArray(lists[d])
  <2>1. Get(OpenAiCsp(w), OpenAiKey[d]) = DomainArray(lists[d])
    BY DEF HoldsLists
  <2>2. OpenAiKey[d] \in InjectedKeys => d \in {"connect", "resource"}
    BY ProxiedKeys
  <2> QED BY <1>3, <2>1, <2>2, ImageGetList
<1>7. ASSUME NEW d \in DOMAIN SpecKey
      PROVE  Get(SpecCsp(x), SpecKey[d]) = DomainArray(lists[d])
  <2>1. Get(SpecCsp(w), SpecKey[d]) = DomainArray(lists[d])
    BY DEF HoldsLists
  <2>2. SpecKey[d] \in InjectedKeys => d \in {"connect", "resource"}
    BY ProxiedKeys
  <2> QED BY <1>5, <2>1, <2>2, ImageGetList
<1>8. ExtractResourceUri(x) = ExtractResourceUri(w)
  <2>1. Image(Get(Get(w, "ui"), "resourceUri"), Get(Get(x, "ui"), "resourceUri"), g, v, cfg)
    BY <1>2, <1>4
  <2>2. Image(Get(w, "openai/outputTemplate"), Get(x, "openai/outputTemplate"), g, v, cfg)
    BY <1>2
  <2>3. ASSUME NEW p, NEW q, Image(p, q, g, v, cfg)
        PROVE  IsString(p) \/ IsString(q) => q = p
    BY <2>3, ImageSame
  <2> QED BY <2>1, <2>2, <2>3 DEF ExtractResourceUri, StringIn
<1> QED BY <1>1, <1>6, <1>7, <1>8 DEF HoldsLists

-----------------------------------------------------------------------------
(* What a gateway makes of metadata, of an entry and of a result.          *)

(* The merged lists of a widget. *)
LEMMA MergedHolds ==
  ASSUME NEW cfg, RuntimeConfig(cfg, Texts), NEW meta, Document(meta) \/ meta = Missing,
         NEW uri, NEW d \in Directives
  PROVE  LET list == Merged(meta, uri, cfg)[d]
         IN  /\ list \in Seq(Texts)
             /\ ToSet(list) = AllowedDomains(cfg, d, uri, CollectUpstream(meta, d))
             /\ IsInjective(list)
             /\ IsPublicOrigin(ProxyUrl(cfg)) /\ d \in {"connect", "resource"} =>
                  Contains(DomainArray(list).items, ProxyOf(cfg))
<1> DEFINE list == EffectiveDomains(cfg, d, uri, CollectUpstream(meta, d))
<1>1. Merged(meta, uri, cfg)[d] = list
  BY DEF Merged
<1>2. CollectUpstream(meta, d) \in Seq(Texts)
  BY CollectUpstreamHolds
<1>3. /\ list \in Seq(Texts)
      /\ ToSet(list) = AllowedDomains(cfg, d, uri, CollectUpstream(meta, d))
      /\ IsInjective(list)
      /\ Injects(cfg, d) => list # <<>> /\ Head(list) = ProxyUrl(cfg)
  BY <1>2, EffectiveDomainsFollowPolicy
<1> HIDE DEF list
<1>4. ASSUME IsPublicOrigin(ProxyUrl(cfg)), d \in {"connect", "resource"}
      PROVE  Contains(DomainArray(list).items, ProxyOf(cfg))
  <2>1. list # <<>> /\ Head(list) = ProxyUrl(cfg)
    BY <1>3, <1>4 DEF Injects
  <2>2. 1 \in DOMAIN list /\ list[1] = ProxyUrl(cfg)
    BY <1>3, <2>1
  <2>3. /\ DomainArray(list).items \in Seq({Str(t) : t \in Texts})
        /\ DOMAIN DomainArray(list).items = DOMAIN list
        /\ DomainArray(list).items[1] = Str(list[1])
    BY <1>3, <2>2, DomainArrayItems
  <2>4. DOMAIN DomainArray(list).items = 1 .. Len(DomainArray(list).items)
    BY <2>3, LenProperties
  <2> QED BY <2>2, <2>3, <2>4 DEF Contains, ProxyOf
<1> QED BY <1>1, <1>3, <1>4

(* The walk over all of a document, seen from its top. *)
LEMMA InjectImage ==
  ASSUME NEW v, NEW cfg
  PROVE  \E g : Walks(g, v, cfg) /\ Image(v, Inject(v, cfg), g, v, cfg)
<1>1. PICK g : /\ Walks(g, v, cfg)
               /\ IsPublicOrigin(ProxyUrl(cfg)) => Inject(v, cfg) = g[MaxNesting][v]
  BY InjectWalks
<1>2. CASE ~IsPublicOrigin(ProxyUrl(cfg))
  BY <1>1, <1>2 DEF Inject, Image
<1>3. CASE IsPublicOrigin(ProxyUrl(cfg))
  <2>1. MaxNesting \in 0 .. MaxNesting /\ MaxNesting - MaxNesting = 0 /\ 0 \in Nat
    BY NestingAssumption
  <2>2. v \in Nested(v, MaxNesting - MaxNesting)
    BY <2>1, NestedDown
  <2> QED BY <1>1, <1>3, <2>1, <2>2 DEF Image
<1> QED BY <1>2, <1>3

(* Behind a gateway that is not public the net is not there.               *)
LEMMA InjectClosed ==
  \A v, cfg : ~IsPublicOrigin(ProxyUrl(cfg)) => Inject(v, cfg) = v
BY DEF Inject

(* What becomes of metadata. *)
LEMMA NamedAlike ==
  ASSUME NEW meta, IsObject(meta), NEW cfg, NEW uri
  PROVE  LET named == WriteWidgetDomain(meta, cfg)
         IN  Merged(named, InferredUri(named, uri), cfg)
               = Merged(meta, InferredUri(meta, uri), cfg)
<1> DEFINE named == WriteWidgetDomain(meta, cfg)
<1>1. /\ OpenAiCsp(named) = OpenAiCsp(meta) /\ SpecCsp(named) = SpecCsp(meta)
      /\ ExtractResourceUri(named) = ExtractResourceUri(meta)
  BY NamedHolds
<1> HIDE DEF named
<1>2. InferredUri(named, uri) = InferredUri(meta, uri)
  BY <1>1 DEF InferredUri
<1>3. \A d : CollectUpstream(named, d) = CollectUpstream(meta, d)
  BY <1>1 DEF CollectUpstream
<1>4. Merged(named, InferredUri(named, uri), cfg) = Merged(meta, InferredUri(meta, uri), cfg)
  BY <1>2, <1>3 DEF Merged
<1> QED BY <1>4 DEF named

(* Widget metadata holds the merged lists; the widget is itself.           *)
LEMMA MetaRewritten ==
  ASSUME NEW cfg, RuntimeConfig(cfg, Texts), NEW meta, Document(meta), IsObject(meta),
         NEW uri, IsWidgetMeta(meta, uri)
  PROVE  LET new == RewriteWidgetMeta(meta, uri, cfg)
         IN  /\ HoldsLists(new, Merged(meta, InferredUri(meta, uri), cfg))
             /\ ExtractResourceUri(new) = ExtractResourceUri(meta)
<1> DEFINE named == WriteWidgetDomain(meta, cfg)
           lists == Merged(meta, InferredUri(meta, uri), cfg)
           written == Written(named, lists)
           new == RewriteWidgetMeta(meta, uri, cfg)
<1>1. new = Inject(written, cfg)
  <2>1. Merged(named, InferredUri(named, uri), cfg) = lists
    BY NamedAlike
  <2> HIDE DEF named, lists
  <2> QED BY <2>1 DEF RewriteWidgetMeta, Written, named
<1>2. IsObject(named) /\ ExtractResourceUri(named) = ExtractResourceUri(meta)
  BY NamedHolds
<1> HIDE DEF named
<1>3. HoldsLists(written, lists) /\ ExtractResourceUri(written) = ExtractResourceUri(named)
  <2> HIDE DEF lists
  <2> QED BY <1>2, WrittenHolds
<1>4. IsPublicOrigin(ProxyUrl(cfg)) =>
        \A d \in {"connect", "resource"} : Contains(DomainArray(lists[d]).items, ProxyOf(cfg))
  <2>1. {"connect", "resource"} \subseteq Directives
    BY DEF Directives
  <2> QED BY <2>1, MergedHolds
<1> HIDE DEF written, lists, new
<1>5. CASE ~IsPublicOrigin(ProxyUrl(cfg))
  BY <1>1, <1>2, <1>3, <1>5, InjectClosed DEF new, lists
<1>6. CASE IsPublicOrigin(ProxyUrl(cfg))
  <2>1. PICK g : Walks(g, written, cfg) /\ Image(written, new, g, written, cfg)
    BY <1>1, InjectImage
  <2>2. HoldsLists(new, lists) /\ ExtractResourceUri(new) = ExtractResourceUri(written)
    BY <1>3, <1>4, <1>6, <2>1, ImageKeepsMeta
  <2> QED BY <1>2, <1>3, <2>2 DEF new, lists
<1> QED BY <1>5, <1>6

(* Metadata of any kind stays a document.                                  *)
LEMMA MetaDocument ==
  ASSUME NEW cfg, RuntimeConfig(cfg, Texts), NEW meta, Document(meta), NEW uri
  PROVE  Document(RewriteWidgetMeta(meta, uri, cfg))
<1> DEFINE named == WriteWidgetDomain(meta, cfg)
           lists == Merged(named, InferredUri(named, uri), cfg)
<1>1. ProxyUrl(cfg) \in Texts /\ cfg.domain \in Texts
  <2>1. <<>> \in Texts
    BY DEF Texts
  <2> QED BY <2>1 DEF RuntimeConfig
<1>2. CASE ~IsWidgetMeta(meta, uri)
  BY <1>1, <1>2, InjectDocument DEF RewriteWidgetMeta
<1>3. CASE IsWidgetMeta(meta, uri)
  <2>1. RewriteWidgetMeta(meta, uri, cfg) = Inject(Written(named, lists), cfg)
    BY <1>3 DEF RewriteWidgetMeta, Written
  <2>2. Document(Written(named, lists))
    <3>1. CASE IsObject(meta)
      <4>1. IsObject(named) /\ Document(named)
        BY <1>1, <3>1, NamedHolds
      <4> HIDE DEF named
      <4>2. \A d \in Directives : lists[d] \in Seq(Texts)
        BY <4>1, MergedHolds
      <4> HIDE DEF lists
      <4> QED BY <4>1, <4>2, WrittenHolds
    <3>2. CASE ~IsObject(meta)
      <4>1. named = meta
        BY <3>2 DEF WriteWidgetDomain, Insert
      <4> HIDE DEF named, lists
      <4>2. Written(named, lists) = meta
        BY <3>2, <4>1 DEF Written, WriteSpecCsp, WriteOpenAiCsp, Insert
      <4> QED BY <4>2
    <3> QED BY <3>1, <3>2
  <2> QED BY <1>1, <2>1, <2>2, InjectDocument
<1> QED BY <1>2, <1>3

(* What becomes of an entry. *)
UriAt(item, uriKey) == StringIn(Get(item, uriKey))

(* Made-up metadata says what missing metadata says.                       *)
LEMMA NoMetadata ==
  /\ ExtractResourceUri(Obj(<<>>)) = ExtractResourceUri(Missing)
  /\ \A d : CollectUpstream(Obj(<<>>), d) = CollectUpstream(Missing, d)
  /\ \A uri : IsWidgetMeta(Obj(<<>>), uri) <=> IsWidgetUri(uri)
  /\ \A uri : IsWidgetMeta(Missing, uri) <=> IsWidgetUri(uri)
<1> DEFINE none == Obj(<<>>)
<1>1. \A k : Get(none, k) = Missing /\ Get(Missing, k) = Missing
  BY NoMembers, Kinds DEF Get
<1> HIDE DEF none
<1>2. ExtractResourceUri(none) = ExtractResourceUri(Missing)
  BY <1>1 DEF ExtractResourceUri
<1>3. OpenAiCsp(none) = OpenAiCsp(Missing) /\ SpecCsp(none) = SpecCsp(Missing)
  BY <1>1 DEF OpenAiCsp, SpecCsp
<1>4. \A d : CollectUpstream(none, d) = CollectUpstream(Missing, d)
  BY <1>3 DEF CollectUpstream
<1>5. \A v \in {none, Missing} : \A uri : IsWidgetMeta(v, uri) <=> IsWidgetUri(uri)
  BY <1>1 DEF IsWidgetMeta, Has
<1> QED BY <1>2, <1>4, <1>5 DEF none

(* A widget entry holds the merged lists; its target is the same.          *)
LEMMA EntryRewritten ==
  ASSUME NEW cfg, RuntimeConfig(cfg, Texts), NEW item, Document(item),
         NEW uriKey \in {"uri", "uriTemplate"},
         Has(item, "_meta") => IsObject(Get(item, "_meta")),
         IsWidgetMeta(Get(item, "_meta"), UriAt(item, uriKey))
  PROVE  LET new == RewriteEntry(item, uriKey, cfg)
             meta == Get(item, "_meta")
             uri == UriAt(item, uriKey)
         IN  /\ UriAt(new, uriKey) = uri
             /\ HoldsLists(Get(new, "_meta"), Merged(meta, InferredUri(meta, uri), cfg))
             /\ InferredUri(Get(new, "_meta"), uri) = InferredUri(meta, uri)
<1> DEFINE uri == UriAt(item, uriKey)
           meta == Get(item, "_meta")
           held == IF Has(item, "_meta") THEN Get(item, "_meta") ELSE Obj(<<>>)
           becomes == RewriteWidgetMeta(held, uri, cfg)
           new == RewriteEntry(item, uriKey, cfg)
<1>1. ~Has(item, "_meta") => meta = Missing
  BY DEF Has
<1>2. IsWidgetUri(uri) \/ Has(item, "_meta")
  BY <1>1, NoMetadata
<1>3. IsObject(item)
  <2>1. ~IsObject(item) => uri = {} /\ ~Has(item, "_meta")
    BY Kinds DEF Get, Has, UriAt, StringIn
  <2> QED BY <1>2, <2>1 DEF IsWidgetUri
<1>4. new = Put(item, "_meta", becomes)
  <2>1. new = Insert(item, "_meta", becomes)
    BY <1>2 DEF RewriteEntry, UriAt
  <2> HIDE DEF new, becomes
  <2> QED BY <1>3, <2>1, PutGet
<1>5. Document(held) /\ IsObject(held)
  BY NoMembers, GetDocument DEF Has
<1>6. /\ IsWidgetMeta(held, uri)
      /\ ExtractResourceUri(held) = ExtractResourceUri(meta)
      /\ \A d : CollectUpstream(held, d) = CollectUpstream(meta, d)
  BY <1>1, NoMetadata
<1> HIDE DEF held, meta, uri
<1>7. InferredUri(held, uri) = InferredUri(meta, uri)
  BY <1>6 DEF InferredUri
<1>8. Merged(held, InferredUri(held, uri), cfg) = Merged(meta, InferredUri(meta, uri), cfg)
  BY <1>6, <1>7 DEF Merged
<1>9. /\ HoldsLists(becomes, Merged(meta, InferredUri(meta, uri), cfg))
      /\ ExtractResourceUri(becomes) = ExtractResourceUri(meta)
  BY <1>5, <1>6, <1>8, MetaRewritten
<1> HIDE DEF becomes, new
<1>10. Get(new, "_meta") = becomes /\ Get(new, uriKey) = Get(item, uriKey)
  BY <1>3, <1>4, PutGet
<1>11. UriAt(new, uriKey) = uri /\ InferredUri(becomes, uri) = InferredUri(meta, uri)
  BY <1>9, <1>10 DEF UriAt, InferredUri, uri
<1> QED BY <1>9, <1>10, <1>11 DEF new, meta, uri

(* An entry of any kind stays a document.                                  *)
LEMMA EntryDocument ==
  ASSUME NEW cfg, RuntimeConfig(cfg, Texts), NEW item, Document(item), NEW uriKey
  PROVE  Document(RewriteEntry(item, uriKey, cfg))
<1> DEFINE held == IF Has(item, "_meta") THEN Get(item, "_meta") ELSE Obj(<<>>)
           becomes == RewriteWidgetMeta(held, UriAt(item, uriKey), cfg)
<1>1. Document(held)
  BY NoMembers, GetDocument DEF Has
<1> HIDE DEF held
<1>2. Document(becomes)
  BY <1>1, MetaDocument
<1>3. RewriteEntry(item, uriKey, cfg) \in {item, Insert(item, "_meta", becomes)}
  BY DEF RewriteEntry, UriAt, held
<1> HIDE DEF becomes
<1>4. Document(Insert(item, "_meta", becomes))
  <2>1. CASE IsObject(item)
    BY <1>2, <2>1, PutDocument
  <2>2. CASE ~IsObject(item)
    BY <2>2 DEF Insert
  <2> QED BY <2>1, <2>2
<1> QED BY <1>3, <1>4

(* What becomes of a result. *)
LEMMA EntriesRewritten ==
  ASSUME NEW cfg, RuntimeConfig(cfg, Texts), NEW v, Document(v), NEW arrayKey,
         IsArray(Get(v, arrayKey)), NEW uriKey
  PROVE  LET new == RewriteEntries(v, arrayKey, uriKey, cfg)
             items == Get(v, arrayKey).items
         IN  /\ Document(new)
             /\ IsArray(Get(new, arrayKey))
             /\ DOMAIN Get(new, arrayKey).items = DOMAIN items
             /\ \A i \in DOMAIN items :
                  /\ Document(items[i])
                  /\ Get(new, arrayKey).items[i] = RewriteEntry(items[i], uriKey, cfg)
<1> DEFINE items == Get(v, arrayKey).items
           f == [i \in DOMAIN items |-> RewriteEntry(items[i], uriKey, cfg)]
           new == RewriteEntries(v, arrayKey, uriKey, cfg)
<1>1. new = Put(v, arrayKey, Arr(f))
  BY DEF RewriteEntries
<1>2. IsObject(v) /\ Document(Get(v, arrayKey))
  BY GetDocument, Kinds DEF Get
<1>3. PICK D : (\A d \in D : Document(d)) /\ items \in Seq(D)
  BY <1>2, DocumentParts
<1> HIDE DEF items
<1>4. /\ Len(items) \in Nat /\ DOMAIN items = 1 .. Len(items)
      /\ \A i \in DOMAIN items : Document(items[i])
  BY <1>3, LenProperties
<1> DEFINE E == {RewriteEntry(items[i], uriKey, cfg) : i \in DOMAIN items}
<1>5. \A e \in E : Document(e)
  BY <1>4, EntryDocument
<1>6. f \in [1 .. Len(items) -> E]
  BY <1>4
<1>7. DOMAIN f = DOMAIN items /\ \A i \in DOMAIN items : f[i] = RewriteEntry(items[i], uriKey, cfg)
  OBVIOUS
<1> HIDE DEF f, E, new
<1>8. Document(Arr(f))
  <2>1. f \in Seq(E)
    BY <1>4, <1>6, FunctionIsList
  <2> QED BY <1>5, <2>1, ArrayDocument
<1>9. Document(new) /\ Get(new, arrayKey) = Arr(f)
  BY <1>1, <1>2, <1>8, PutDocument, PutGet
<1>10. IsArray(Get(new, arrayKey)) /\ Get(new, arrayKey).items = f
  BY <1>9, Kinds
<1> QED BY <1>4, <1>7, <1>9, <1>10 DEF new, items

(* A result stays a document; if looked at, the net was over it.           *)
LEMMA RewrittenDocument ==
  ASSUME NEW cfg, RuntimeConfig(cfg, Texts), NEW m, NEW v, Document(v)
  PROVE  /\ Document(RewriteResult(m, v, cfg))
         /\ m \in DOMAIN ArrayKey \cup ToolMethods =>
              \E w : Document(w) /\ RewriteResult(m, v, cfg) = Inject(w, cfg)
<1>1. ProxyUrl(cfg) \in Texts
  BY DEF RuntimeConfig
<1>2. CASE m \in DOMAIN ArrayKey
  <2> DEFINE w == RewriteEntries(v, ArrayKey[m], UriKey(m), cfg)
  <2>1. RewriteResult(m, v, cfg) = Inject(w, cfg)
    BY <1>2 DEF RewriteResult, ToolMethods, ArrayKey
  <2>2. Document(w)
    <3>1. CASE IsArray(Get(v, ArrayKey[m]))
      BY <3>1, EntriesRewritten
    <3>2. CASE ~IsArray(Get(v, ArrayKey[m]))
      BY <3>2 DEF RewriteEntries
    <3> QED BY <3>1, <3>2
  <2> QED BY <1>1, <2>1, <2>2, InjectDocument
<1>3. CASE m \in ToolMethods
  <2>1. RewriteResult(m, v, cfg) = Inject(v, cfg)
    BY <1>3 DEF RewriteResult, ToolMethods, ArrayKey
  <2> QED BY <1>1, <2>1, InjectDocument
<1>4. CASE m \notin DOMAIN ArrayKey \cup ToolMethods
  <2>1. RewriteResult(m, v, cfg) = v
    BY <1>4 DEF RewriteResult
  <2> QED BY <1>4, <2>1
<1> QED BY <1>2, <1>3, <1>4

(* None of the keys that lead to entries is one the net looks for.         *)
LEMMA MethodKeys ==
  /\ \A m \in DOMAIN ArrayKey : ArrayKey[m] \notin InjectedKeys
  /\ \A m : UriKey(m) \in {"uri", "uriTemplate"}
<1>1. \A m \in DOMAIN ArrayKey : ArrayKey[m] \in {"resources", "resourceTemplates", "contents"}
  BY DEF ArrayKey
<1> QED BY <1>1, ProxiedKeys DEF UriKey

(* A widget, in the i-th place of a document's list of entries. *)
WidgetAt(v, m, i) ==
  LET items == Get(v, ArrayKey[m]).items
  IN  /\ IsArray(Get(v, ArrayKey[m]))
      /\ i \in DOMAIN items
      /\ Has(items[i], "_meta") => IsObject(Get(items[i], "_meta"))
      /\ IsWidgetMeta(Get(items[i], "_meta"), UriAt(items[i], UriKey(m)))

MetaAt(v, m, i) == Get(Get(v, ArrayKey[m]).items[i], "_meta")
TargetAt(v, m, i) ==
  InferredUri(MetaAt(v, m, i), UriAt(Get(v, ArrayKey[m]).items[i], UriKey(m)))

(* A widget of a result is in its place, with the merged lists.            *)
LEMMA WidgetRewritten ==
  ASSUME NEW cfg, RuntimeConfig(cfg, Texts), NEW m \in DOMAIN ArrayKey, NEW v, Document(v),
         NEW i, WidgetAt(v, m, i)
  PROVE  LET new == RewriteResult(m, v, cfg)
         IN  /\ WidgetAt(new, m, i)
             /\ TargetAt(new, m, i) = TargetAt(v, m, i)
             /\ HoldsLists(MetaAt(new, m, i), Merged(MetaAt(v, m, i), TargetAt(v, m, i), cfg))
<1> DEFINE key == ArrayKey[m]
           item == Get(v, key).items[i]
           uri == UriAt(item, UriKey(m))
           lists == Merged(MetaAt(v, m, i), TargetAt(v, m, i), cfg)
           w == RewriteEntries(v, key, UriKey(m), cfg)
           p == Get(w, key).items[i]
           new == RewriteResult(m, v, cfg)
           q == Get(new, key).items[i]
<1>1. new = Inject(w, cfg)
  BY DEF RewriteResult, ToolMethods, ArrayKey
<1>2. /\ IsArray(Get(w, key)) /\ DOMAIN Get(w, key).items = DOMAIN Get(v, key).items
      /\ Document(item) /\ p = RewriteEntry(item, UriKey(m), cfg)
  BY EntriesRewritten DEF WidgetAt
<1>3. /\ UriAt(p, UriKey(m)) = uri
      /\ HoldsLists(Get(p, "_meta"), lists)
      /\ InferredUri(Get(p, "_meta"), uri) = TargetAt(v, m, i)
  <2>1. UriKey(m) \in {"uri", "uriTemplate"}
    BY MethodKeys
  <2>2. /\ Has(item, "_meta") => IsObject(Get(item, "_meta"))
        /\ IsWidgetMeta(Get(item, "_meta"), UriAt(item, UriKey(m)))
    BY DEF WidgetAt
  <2> HIDE DEF item, p
  <2> QED BY <1>2, <2>1, <2>2, EntryRewritten DEF MetaAt, TargetAt, item
<1> HIDE DEF w, new
<1>4. /\ IsArray(Get(new, key)) /\ i \in DOMAIN Get(new, key).items
      /\ UriAt(q, UriKey(m)) = uri
      /\ HoldsLists(Get(q, "_meta"), lists)
      /\ InferredUri(Get(q, "_meta"), uri) = TargetAt(v, m, i)
  <2>0. i \in DOMAIN Get(w, key).items
    BY <1>2 DEF WidgetAt
  <2>1. CASE ~IsPublicOrigin(ProxyUrl(cfg))
    <3>1. new = w
      BY <1>1, <2>1, InjectClosed
    <3> QED BY <1>2, <1>3, <2>0, <3>1
  <2>2. CASE IsPublicOrigin(ProxyUrl(cfg))
    <3>1. PICK g : Walks(g, w, cfg) /\ Image(w, new, g, w, cfg)
      BY <1>1, InjectImage
    <3>2. Image(Get(w, key), Get(new, key), g, w, cfg)
      BY <3>1, ImageGet, MethodKeys
    <3>3. /\ IsArray(Get(new, key)) /\ i \in DOMAIN Get(new, key).items
          /\ Image(p, q, g, w, cfg)
      BY <1>2, <2>0, <3>1, <3>2, ImageOfArray
    <3> HIDE DEF p, q, lists
    <3>4. UriAt(q, UriKey(m)) = UriAt(p, UriKey(m))
      <4>1. UriKey(m) \notin InjectedKeys
        BY MethodKeys, ProxiedKeys
      <4>2. Image(Get(p, UriKey(m)), Get(q, UriKey(m)), g, w, cfg)
        BY <3>1, <3>3, <4>1, ImageGet
      <4> QED BY <3>1, <4>2, ImageSame DEF UriAt, StringIn
    <3>5. Image(Get(p, "_meta"), Get(q, "_meta"), g, w, cfg)
      BY <3>1, <3>3, ImageGet, ProxiedKeys
    <3>6. \A d \in {"connect", "resource"} : Contains(DomainArray(lists[d]).items, ProxyOf(cfg))
      <4>1. {"connect", "resource"} \subseteq Directives
        BY DEF Directives
      <4>2. Document(MetaAt(v, m, i)) \/ MetaAt(v, m, i) = Missing
        BY <1>2, GetDocument DEF MetaAt
      <4> QED BY <2>2, <4>1, <4>2, MergedHolds DEF lists
    <3>7. /\ HoldsLists(Get(q, "_meta"), lists)
          /\ ExtractResourceUri(Get(q, "_meta")) = ExtractResourceUri(Get(p, "_meta"))
      BY <1>3, <3>1, <3>5, <3>6, ImageKeepsMeta
    <3> QED BY <1>3, <3>3, <3>4, <3>7 DEF InferredUri
  <2> QED BY <2>1, <2>2
<1>5. IsObject(Get(q, "_meta")) /\ IsWidgetMeta(Get(q, "_meta"), uri)
  BY <1>4, ListsMakeWidget DEF HoldsLists
<1>6. WidgetAt(new, m, i)
  BY <1>4, <1>5 DEF WidgetAt
<1>7. TargetAt(new, m, i) = TargetAt(v, m, i) /\ HoldsLists(MetaAt(new, m, i), lists)
  BY <1>4 DEF TargetAt, MetaAt
<1> QED BY <1>6, <1>7 DEF new

-----------------------------------------------------------------------------
(* The chain of gateways.                                                  *)

(* The i-th widget of the server's result, in what has become of it: it is *)
(* still a widget, the same entries of the file apply to it, and what the  *)
(* policy allows it, by what its metadata asks for now, is what it allowed *)
(* at first.  After a gateway it has the lists that say so.                *)
WidgetFollows(i) ==
  /\ method \in DOMAIN ArrayKey
  /\ WidgetAt(result, method, i)
  /\ TargetAt(result, method, i) = UriFor(i)
  /\ \A d \in Directives :
       AllowedDomains(IntoRuntime(file), d, UriFor(i),
                      CollectUpstream(MetaAt(result, method, i), d)) = Allowed(i, d)
  /\ passes > 0 =>
       \E lists : /\ HoldsLists(MetaAt(result, method, i), lists)
                  /\ \A d \in Directives : /\ lists[d] \in Seq(Texts)
                                           /\ ToSet(lists[d]) = Allowed(i, d)
                                           /\ IsInjective(lists[d])

ChainInv ==
  /\ file \in Files
  /\ Document(result)
  /\ \A i \in Widgets : WidgetFollows(i)
  /\ ProxyReachable

(* Every file gives the gateway a configuration.                           *)
LEMMA FilesConfigure ==
  \A f \in Files : RuntimeConfig(IntoRuntime(f), Texts)
BY FilesAssumption, IntoRuntimeTotal

(* At first the result is the server's own.                                *)
LEMMA ChainInvInit == ChainInit => ChainInv
<1> SUFFICES ASSUME ChainInit
             PROVE  ChainInv
  OBVIOUS
<1>1. file \in Files /\ result = original /\ passes = 0
  BY DEF ChainInit
<1>2. Document(result)
  BY ResultsAssumption DEF ChainInit, Document
<1>3. ASSUME NEW i \in Widgets
      PROVE  WidgetFollows(i)
  <2>1. method \in DOMAIN ArrayKey
    BY DEF Widgets, Entries
  <2>2. IsArray(Get(result, ArrayKey[method]))
        /\ Entries(original) = Get(result, ArrayKey[method]).items
    BY <1>1, <2>1 DEF Widgets, Entries, ItemsOf
  <2>3. WidgetAt(result, method, i)
    BY <2>2 DEF Widgets, WidgetAt, UriAt, UriOf, MetaOf
  <2>4. TargetAt(result, method, i) = UriFor(i)
    BY <2>2 DEF TargetAt, MetaAt, UriFor, UriAt, UriOf, MetaOf
  <2>5. MetaAt(result, method, i) = MetaOf(Entries(original)[i])
    BY <2>2 DEF MetaAt, MetaOf
  <2> QED BY <1>1, <2>1, <2>3, <2>4, <2>5 DEF WidgetFollows, Allowed
<1>4. ProxyReachable
  BY <1>1 DEF ProxyReachable
<1> QED BY <1>1, <1>2, <1>3, <1>4 DEF ChainInv

(* A gateway, the first or the second, gives a widget its lists.           *)
LEMMA WidgetStillFollows ==
  ASSUME ChainInv, Rewrite, NEW i \in Widgets
  PROVE  WidgetFollows(i)'
<1> DEFINE cfg == IntoRuntime(file)
           meta == MetaAt(result, method, i)
           lists == Merged(meta, UriFor(i), cfg)
<1>1. /\ RuntimeConfig(cfg, Texts)
      /\ Document(result) /\ WidgetFollows(i)
      /\ result' = RewriteResult(method, result, cfg)
      /\ file' = file /\ method' = method /\ original' = original
  BY FilesConfigure DEF ChainInv, Rewrite
<1>2. /\ method \in DOMAIN ArrayKey /\ WidgetAt(result, method, i)
      /\ TargetAt(result, method, i) = UriFor(i)
      /\ \A d \in Directives :
           AllowedDomains(cfg, d, UriFor(i), CollectUpstream(meta, d)) = Allowed(i, d)
  BY <1>1 DEF WidgetFollows
<1>3. /\ WidgetAt(result', method, i)
      /\ TargetAt(result', method, i) = UriFor(i)
      /\ HoldsLists(MetaAt(result', method, i), lists)
  <2> HIDE DEF cfg, meta
  <2> QED BY <1>1, <1>2, WidgetRewritten DEF meta
<1>4. Document(meta) \/ meta = Missing
  <2>1. Document(Get(result, ArrayKey[method]))
    BY <1>1, <1>2, GetDocument, Kinds DEF WidgetAt
  <2>2. Get(result, ArrayKey[method]).items[i] \in Children(Get(result, ArrayKey[method]))
    BY <1>2, ChildrenOf DEF WidgetAt
  <2> QED BY <2>1, <2>2, DocumentParts, GetDocument DEF MetaAt
<1>5. Document(MetaAt(result', method, i))
  <2>1. Document(result')
    BY <1>1, RewrittenDocument
  <2>2. Document(Get(result', ArrayKey[method]))
    BY <1>3, <2>1, GetDocument, Kinds DEF WidgetAt
  <2>3. Get(result', ArrayKey[method]).items[i] \in Children(Get(result', ArrayKey[method]))
    BY <1>3, ChildrenOf DEF WidgetAt
  <2>4. IsObject(MetaAt(result', method, i))
    BY <1>3 DEF HoldsLists
  <2> QED BY <2>2, <2>3, <2>4, DocumentParts, GetDocument, Kinds DEF MetaAt
<1> HIDE DEF cfg, meta, lists
<1>6. ASSUME NEW d \in Directives
      PROVE  /\ lists[d] \in Seq(Texts) /\ ToSet(lists[d]) = Allowed(i, d)
             /\ IsInjective(lists[d])
  BY <1>1, <1>2, <1>4, MergedHolds DEF lists
<1>7. ASSUME NEW d \in Directives
      PROVE  AllowedDomains(cfg, d, UriFor(i), CollectUpstream(MetaAt(result', method, i), d))
               = Allowed(i, d)
  <2>1. ToSet(CollectUpstream(MetaAt(result', method, i), d)) = ToSet(lists[d])
    BY <1>3, <1>5, <1>6, CollectUpstreamHolds, AskedOfLists
  <2>2. Allowed(i, d) = AllowedDomains(cfg, d, UriFor(i), CollectUpstream(meta, d))
    BY <1>2
  <2> QED BY <1>6, <2>1, <2>2, SecondGatewayAddsNothing
<1>8. UriFor(i)' = UriFor(i) /\ \A d : Allowed(i, d)' = Allowed(i, d)
  BY <1>1 DEF UriFor, Allowed, Entries, UriOf, MetaOf
<1>9. /\ method' \in DOMAIN ArrayKey
      /\ WidgetAt(result', method', i)
      /\ TargetAt(result', method', i) = UriFor(i)'
      /\ \A d \in Directives :
           AllowedDomains(IntoRuntime(file'), d, UriFor(i)',
                          CollectUpstream(MetaAt(result', method', i), d)) = Allowed(i, d)'
      /\ HoldsLists(MetaAt(result', method', i), lists)
      /\ \A d \in Directives : /\ lists[d] \in Seq(Texts)
                               /\ ToSet(lists[d]) = Allowed(i, d)'
                               /\ IsInjective(lists[d])
  BY <1>1, <1>2, <1>3, <1>6, <1>7, <1>8 DEF cfg
<1> QED BY <1>9 DEF WidgetFollows

(* A gateway that is public puts the proxy in every list.                  *)
LEMMA ProxyStillReachable ==
  ASSUME ChainInv, Rewrite
  PROVE  ProxyReachable'
<1> DEFINE cfg == IntoRuntime(file)
<1>1. /\ RuntimeConfig(cfg, Texts) /\ Document(result)
      /\ result' = RewriteResult(method, result, cfg)
      /\ file' = file /\ method' = method
  BY FilesConfigure DEF ChainInv, Rewrite
<1>2. ASSUME method \in DOMAIN ArrayKey \cup ToolMethods, IsPublicOrigin(ProxyUrl(cfg)),
             NEW list \in InjectedLists(result')
      PROVE  Contains(list.items, Str(ProxyUrl(cfg)))
  <2> HIDE DEF cfg
  <2>1. PICK w : Document(w) /\ result' = Inject(w, cfg)
    BY <1>1, <1>2, RewrittenDocument
  <2>2. ProxyUrl(cfg) \in Texts
    BY <1>1 DEF RuntimeConfig
  <2> QED BY <1>2, <2>1, <2>2, InjectReachesAll
<1> QED BY <1>1, <1>2 DEF ProxyReachable

(* Each gateway keeps the invariant.                                       *)
LEMMA ChainInvNext == ChainInv /\ [ChainNext]_chainVars => ChainInv'
<1> SUFFICES ASSUME ChainInv, [ChainNext]_chainVars
             PROVE  ChainInv'
  OBVIOUS
<1>1. CASE Rewrite
  <2>1. file' \in Files /\ Document(result')
    BY <1>1, FilesConfigure, RewrittenDocument DEF ChainInv, Rewrite
  <2>2. Widgets' = Widgets
    BY <1>1 DEF Rewrite, Widgets, Entries, UriOf, MetaOf
  <2>3. \A i \in Widgets : WidgetFollows(i)'
    BY <1>1, WidgetStillFollows
  <2>4. ProxyReachable'
    BY <1>1, ProxyStillReachable
  <2> QED BY <2>1, <2>2, <2>3, <2>4 DEF ChainInv
<1>2. CASE UNCHANGED chainVars
  BY <1>2 DEF chainVars, ChainInv, WidgetFollows, ProxyReachable, Widgets, Entries, UriOf,
              UriFor, MetaOf, Allowed
<1> QED BY <1>1, <1>2 DEF ChainNext

(* What the invariant says of the lists a host reads.                      *)
LEMMA ChainInvLists ==
  ASSUME ChainInv, passes > 0, NEW i \in Widgets, NEW d \in Directives, NEW list \in ListsOf(i, d)
  PROVE  ToSet(list) = Allowed(i, d) /\ IsInjective(list)
<1>1. WidgetFollows(i)
  BY DEF ChainInv
<1>2. PICK lists : /\ HoldsLists(MetaAt(result, method, i), lists)
                   /\ \A e \in Directives : /\ lists[e] \in Seq(Texts)
                                            /\ ToSet(lists[e]) = Allowed(i, e)
                                            /\ IsInjective(lists[e])
  BY <1>1 DEF WidgetFollows
<1> DEFINE meta == MetaAt(result, method, i)
<1>3. MetaOf(Entries(result)[i]) = meta
  BY <1>1 DEF WidgetFollows, WidgetAt, Entries, ItemsOf, MetaOf, MetaAt
<1> HIDE DEF meta
<1>4. \/ d \in DOMAIN OpenAiKey /\ list = DomainsOf(Get(OpenAiCsp(meta), OpenAiKey[d]))
      \/ d \in DOMAIN SpecKey /\ list = DomainsOf(Get(SpecCsp(meta), SpecKey[d]))
  BY <1>3 DEF ListsOf
<1>5. list = DomainsOf(DomainArray(lists[d]))
  BY <1>2, <1>4 DEF HoldsLists, meta
<1> QED BY <1>2, <1>5, DomainsOfArray

(* Whatever the file and the documents: every list of every widget is what *)
(* the operator's policy says, after one gateway and after two.            *)
THEOREM ChainListsFollowPolicy == ChainSpec => []ListsFollowPolicy
<1>1. ChainInv => ListsFollowPolicy
  BY ChainInvLists DEF ListsFollowPolicy
<1> QED BY <1>1, ChainInvInit, ChainInvNext, PTL DEF ChainSpec

(* Whatever the file and the documents: a server's wish to frame something *)
(* gets through no gateway unless the file has a frame policy that says    *)
(* "extend".                                                               *)
THEOREM ChainFramesFailClosed == ChainSpec => []FramesFailClosed
<1>1. ChainInv => FramesFailClosed
  <2> SUFFICES ASSUME ChainInv, passes > 0, NEW i \in Widgets, NEW list \in ListsOf(i, "frame"),
                      NEW d \in ToSet(list)
               PROVE  \/ d \in Declared(IntoRuntime(file), "frame", UriFor(i))
                      \/ "frame" \in DOMAIN file.policy /\ file.policy["frame"].mode = "extend"
    BY DEF FramesFailClosed
  <2>1. "frame" \in Directives
    BY DEF Directives
  <2>2. d \in Allowed(i, "frame")
    BY <2>1, ChainInvLists
  <2> QED BY <2>2, FramesClosed DEF Allowed
<1> QED BY <1>1, ChainInvInit, ChainInvNext, PTL DEF ChainSpec

(* Whatever the file and the documents: behind a public gateway no connect *)
(* or resource list of a result that is looked at is without the proxy.    *)
THEOREM ChainProxyReachable == ChainSpec => []ProxyReachable
<1>1. ChainInv => ProxyReachable
  BY DEF ChainInv
<1> QED BY <1>1, ChainInvInit, ChainInvNext, PTL DEF ChainSpec
-----------------------------------------------------------------------------
(* What the stages after this one, and the proofs about an exchange, rely  *)
(* on: the rewriting keeps the entries of lists.                           *)

(* Members besides the metadata stay when entries are rewritten.           *)
LEMMA EntryKeeps ==
  ASSUME NEW item, NEW uriKey, NEW cfg, NEW key, key # "_meta"
  PROVE  Get(RewriteEntry(item, uriKey, cfg), key) = Get(item, key)
<1> DEFINE held == IF Has(item, "_meta") THEN Get(item, "_meta") ELSE Obj(<<>>)
           becomes == RewriteWidgetMeta(held, UriAt(item, uriKey), cfg)
<1>1. RewriteEntry(item, uriKey, cfg) \in {item, Insert(item, "_meta", becomes)}
  BY DEF RewriteEntry, UriAt
<1> HIDE DEF becomes
<1>2. Get(Insert(item, "_meta", becomes), key) = Get(item, key)
  BY PutGet DEF Insert
<1> QED BY <1>1, <1>2

(* So do the other lists of a result, and the places of entries.           *)
LEMMA EntriesKeep ==
  ASSUME NEW cfg, RuntimeConfig(cfg, Texts), NEW v, Document(v), NEW arrayKey, NEW uriKey,
         NEW array
  PROVE  LET w == RewriteEntries(v, arrayKey, uriKey, cfg)
             before == ItemsOf(Get(v, array))
             after == ItemsOf(Get(w, array))
         IN  /\ DOMAIN after = DOMAIN before
             /\ \A i \in DOMAIN before : \A key :
                  key # "_meta" => Get(after[i], key) = Get(before[i], key)
<1> DEFINE w == RewriteEntries(v, arrayKey, uriKey, cfg)
<1>1. CASE ~IsArray(Get(v, arrayKey))
  BY <1>1 DEF RewriteEntries
<1>2. CASE IsArray(Get(v, arrayKey))
  <2>1. CASE array = arrayKey
    <3>1. /\ IsArray(Get(w, array))
          /\ DOMAIN Get(w, array).items = DOMAIN Get(v, array).items
          /\ \A i \in DOMAIN Get(v, array).items :
               Get(w, array).items[i] = RewriteEntry(Get(v, array).items[i], uriKey, cfg)
      BY <1>2, <2>1, EntriesRewritten
    <3>2. ItemsOf(Get(v, array)) = Get(v, array).items /\ ItemsOf(Get(w, array)) = Get(w, array).items
      BY <1>2, <2>1, <3>1 DEF ItemsOf
    <3> HIDE DEF w
    <3> QED BY <3>1, <3>2, EntryKeeps DEF w
  <2>2. CASE array # arrayKey
    <3> DEFINE items == Get(v, arrayKey).items
               to == Arr([i \in DOMAIN items |-> RewriteEntry(items[i], uriKey, cfg)])
    <3>1. IsObject(v)
      BY <1>2, Kinds DEF Get
    <3>2. w = Put(v, arrayKey, to)
      BY <1>2 DEF RewriteEntries
    <3> HIDE DEF w, to
    <3>3. Get(w, array) = Get(v, array)
      BY <2>2, <3>1, <3>2, PutGet
    <3> QED BY <3>3 DEF w
  <2> QED BY <2>1, <2>2
<1> QED BY <1>1, <1>2

(* And so they do under the walk, if no key singles them out.              *)
LEMMA InjectKeepsEntries ==
  ASSUME NEW cfg, NEW w, NEW array, array \notin InjectedKeys, NEW needs,
         \A key \in needs : key \notin InjectedKeys,
         \A i \in DOMAIN ItemsOf(Get(w, array)), key \in Names :
           LET name == Get(ItemsOf(Get(w, array))[i], key)
           IN  ~IsObject(name) /\ ~IsArray(name)
  PROVE  SameEntries(ItemsOf(Get(w, array)), ItemsOf(Get(Inject(w, cfg), array)), needs)
<1> DEFINE new == Inject(w, cfg)
           before == ItemsOf(Get(w, array))
           after == ItemsOf(Get(new, array))
<1>1. PICK g : Walks(g, w, cfg) /\ Image(w, new, g, w, cfg)
  BY InjectImage
<1> HIDE DEF new
<1>2. Image(Get(w, array), Get(new, array), g, w, cfg)
  BY <1>1, ImageGet
<1>3. /\ DOMAIN after = DOMAIN before
      /\ \A i \in DOMAIN before : Image(before[i], after[i], g, w, cfg)
  <2>1. CASE IsArray(Get(w, array))
    BY <1>1, <1>2, <2>1, ImageOfArray DEF ItemsOf
  <2>2. CASE ~IsArray(Get(w, array))
    <3>1. ~IsArray(Get(new, array))
      BY <1>1, <1>2, <2>2, ImageSame
    <3>2. before = <<>> /\ after = <<>>
      BY <2>2, <3>1 DEF ItemsOf
    <3> HIDE DEF before, after
    <3> QED BY <3>2
  <2> QED BY <2>1, <2>2
<1> HIDE DEF before, after
<1>4. ASSUME NEW i \in DOMAIN before, NEW key \in Names
      PROVE  Get(after[i], key) = Get(before[i], key)
  <2>1. key \notin InjectedKeys
    BY ProxiedKeys DEF Names
  <2>2. Image(Get(before[i], key), Get(after[i], key), g, w, cfg)
    BY <1>1, <1>3, <2>1, ImageGet
  <2>3. ~IsObject(Get(before[i], key)) /\ ~IsArray(Get(before[i], key))
    BY DEF before
  <2> QED BY <1>1, <2>2, <2>3, ImageOfOther
<1>5. ASSUME NEW i \in DOMAIN before, NEW key \in needs
      PROVE  Has(after[i], key) <=> Has(before[i], key)
  <2>1. Image(Get(before[i], key), Get(after[i], key), g, w, cfg)
    BY <1>1, <1>3, ImageGet
  <2> QED BY <1>1, <2>1, ImageSame DEF Has
<1> QED BY <1>3, <1>4, <1>5 DEF SameEntries, before, after, new

(* What the proofs about an exchange assume of the rewriting               *)
(* (RewriteAssumption of module Exchange): whatever the configuration and  *)
(* the method, lists stay lists, and their entries stay in their places,   *)
(* under their names and with the members their kind needs, if what stands *)
(* for a name is not itself a document with members.                       *)
THEOREM RewritingKeepsEntries ==
  ASSUME NEW cfg, RuntimeConfig(cfg, Texts), NEW m, NEW v, Document(v),
         NEW array, array \notin InjectedKeys, NEW needs,
         \A key \in needs : key \notin InjectedKeys \cup {"_meta"},
         \A i \in DOMAIN ItemsOf(Get(v, array)), key \in Names :
           LET name == Get(ItemsOf(Get(v, array))[i], key)
           IN  ~IsObject(name) /\ ~IsArray(name)
  PROVE  LET new == RewriteResult(m, v, cfg)
         IN  /\ ProperList(Get(new, array))
             /\ SameEntries(ItemsOf(Get(v, array)), ItemsOf(Get(new, array)), needs)
<1> DEFINE new == RewriteResult(m, v, cfg)
           before == ItemsOf(Get(v, array))
           Unnested(list) == \A i \in DOMAIN list, key \in Names :
                               ~IsObject(Get(list[i], key)) /\ ~IsArray(Get(list[i], key))
<1>1. Unnested(before)
  OBVIOUS
<1>2. ProperList(Get(new, array))
  <2>1. Document(new)
    BY RewrittenDocument
  <2> HIDE DEF new
  <2>2. CASE IsArray(Get(new, array))
    <3>1. Document(Get(new, array))
      BY <2>1, <2>2, GetDocument, Kinds
    <3> QED BY <2>2, <3>1, DocumentParts, ListOfItself DEF ProperList, ItemsOf
  <2>3. CASE ~IsArray(Get(new, array))
    <3>1. ItemsOf(Get(new, array)) = <<>>
      BY <2>3 DEF ItemsOf
    <3>2. \A S : <<>> \in Seq(S)
      OBVIOUS
    <3> QED BY <3>1, <3>2 DEF ProperList
  <2> QED BY <2>2, <2>3
<1>3. CASE m \in DOMAIN ArrayKey
  <2> DEFINE w == RewriteEntries(v, ArrayKey[m], UriKey(m), cfg)
             between == ItemsOf(Get(w, array))
  <2>1. new = Inject(w, cfg)
    BY <1>3 DEF RewriteResult, ToolMethods, ArrayKey
  <2>2. /\ DOMAIN between = DOMAIN before
        /\ \A i \in DOMAIN before : \A key :
             key # "_meta" => Get(between[i], key) = Get(before[i], key)
    BY EntriesKeep
  <2>3. "_meta" \notin Names /\ "_meta" \notin needs
    BY DEF Names
  <2> HIDE DEF w, new, before
  <2>4. Unnested(between)
    <3> HIDE DEF between
    <3> QED BY <1>1, <2>2, <2>3
  <2>5. SameEntries(between, ItemsOf(Get(new, array)), needs)
    BY <2>1, <2>4, InjectKeepsEntries
  <2> HIDE DEF between
  <2>6. SameEntries(before, ItemsOf(Get(new, array)), needs)
    BY <2>2, <2>3, <2>5 DEF SameEntries, Has
  <2> QED BY <1>2, <2>6 DEF new, before
<1>4. CASE m \in ToolMethods
  <2>1. new = Inject(v, cfg)
    BY <1>4 DEF RewriteResult, ToolMethods, ArrayKey
  <2> QED BY <1>2, <2>1, InjectKeepsEntries
<1>5. CASE m \notin DOMAIN ArrayKey \cup ToolMethods
  <2>1. new = v
    BY <1>5 DEF RewriteResult
  <2> QED BY <1>2, <2>1 DEF SameEntries
<1> QED BY <1>3, <1>4, <1>5
=============================================================================
