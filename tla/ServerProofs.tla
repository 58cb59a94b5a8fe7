---------------------------- MODULE ServerProofs ----------------------------
(***************************************************************************)
(* Proofs about Server for every set of configurations, plugins, features  *)
(* and requests: what the checks of the startup say of a configuration is  *)
(* what its requests need, and it stays so while the server runs; and the  *)
(* router, whatever plugins wrap around it, has the layers that are        *)
(* declared, admits before it counts, and answers what it means.           *)
(***************************************************************************)
EXTENDS Server, WellFoundedInduction, TLAPS

(* A configuration that serves has passed every check, and its catalogs    *)
(* have been read.                                                         *)
Checked(f) == f \in File /\ Accepts(f) /\ ListsAnswered(f)

(* The engines that are there have been checked with the features and the  *)
(* plugins there are, and before the first build there is none.            *)
RuntimeKnown ==
  /\ host \in {"registering", "starting", "up", "down"}
  /\ host = "registering" =>
       candidate = None /\ current = None /\ served = None /\ run = "idle"
  /\ candidate # None => candidate \in File /\ Accepts(candidate)
  /\ current # None => Checked(current)
  /\ served # None => Checked(served)
  /\ run # "idle" \/ host = "up" => current # None

(* What the router has of the engine and of the auth state it is built from. *)
BuiltFrom(engine, auth) ==
  /\ config.auth = AuthActive(engine)
  /\ config.enforced = Enforces(auth, features)
  /\ config.mode = engine.http.sessions
  /\ config.resumption = engine.http.resumption
  /\ config.deletion = engine.http.deletion
  /\ config.creationRate => engine.http.creationRate \in {"on", "excessive"}

(* Unless a reload ended in between, run() has read one configuration, and *)
(* the router is built from it.                                            *)
ServingKnown ==
  /\ run \in {"auth", "engine"} /\ ~overtaken => current.http.on
  /\ run = "engine" /\ ~overtaken => readAuth = current
  /\ phase # "off" =>
       /\ run = "serving" /\ served # None
       /\ BuiltFrom(served, readAuth)
       /\ ~overtaken => readAuth = served /\ served.http.on

Inv == RuntimeKnown /\ ServingKnown

-----------------------------------------------------------------------------
(* What the checks say of a configuration.                                 *)

(* The number of a set that is below its others. *)
LEMMA LeastExists ==
  ASSUME NEW T \in SUBSET Nat, T # {}
  PROVE  \E x \in T : \A y \in T : x <= y
<1>1. PICK x \in T : \A y \in T : ~ (<<y, x>> \in OpToRel(<, Nat))
  BY NatLessThanWellFounded, WFMin
<1>2. \A y \in T : ~ (y < x)
  BY <1>1 DEF OpToRel
<1> QED BY <1>2
(* Max is what its definition looks for. *)
LEMMA LastExists ==
  ASSUME NEW n \in Nat, NEW T \in SUBSET (1..n), T # {}
  PROVE  Max(T) \in T
<1> DEFINE D == {n - i : i \in T}
<1>1. D \in SUBSET Nat /\ D # {}
  OBVIOUS
<1> HIDE DEF D
<1>2. PICK d \in D : \A y \in D : d <= y
  BY <1>1, LeastExists
<1>3. PICK x \in T : d = n - x
  BY <1>2 DEF D
<1>4. \A y \in T : x >= y
  <2> SUFFICES ASSUME NEW y \in T PROVE x >= y OBVIOUS
  <2>1. n - y \in D BY DEF D
  <2> QED BY <2>1, <1>2, <1>3
<1> QED BY <1>3, <1>4 DEF Max
(* Whatever tools share a name, the one that is called has it.             *)
LEMMA LastNamed ==
  ASSUME NEW f \in McpConfig, NEW name \in {t.name : t \in ToSet(f.tools.items)}
  PROVE  ToolNamed(f, name) \in ToSet(f.tools.items) /\ ToolNamed(f, name).name = name
<1> DEFINE I == {i \in 1..Len(f.tools.items) : f.tools.items[i].name = name}
<1>0. f.tools.items \in Seq(ToolConfig)
  BY DEF McpConfig
<1>1. I \in SUBSET (1..Len(f.tools.items)) /\ I # {} /\ Len(f.tools.items) \in Nat
  BY <1>0 DEF ToSet
<1>2. Max(I) \in I
  BY <1>1, LastExists
<1>3. ToolNamed(f, name) = f.tools.items[Max(I)]
  <2>1. ToolNamed(f, name) = f.tools.items[IF I # {} THEN Max(I) ELSE 0]
    BY DEF ToolNamed, SelectLastInSeq
  <2> QED BY <2>1, <1>1
<1>4. Max(I) \in 1..Len(f.tools.items) /\ f.tools.items[Max(I)].name = name
  BY <1>2
<1> HIDE DEF I
<1> QED BY <1>0, <1>3, <1>4 DEF ToSet

LEMMA PluginToolRegistered ==
  ASSUME NEW f \in File, Accepts(f), NEW t \in Tools(f), t.kind = "plugin"
  PROVE  t.plugin \in plugins["tool"]
<1>1. ToolFits(f, t) /\ AllowlistsRegistered(f, plugins)
  BY DEF Accepts, EngineFits
<1> QED BY <1>1 DEF ToolFits, AllowlistsRegistered, EnginePluginTypes

LEMMA CallsResolve ==
  ASSUME NEW f \in File, Accepts(f), NEW name
  PROVE  CallTool(f, plugins, name) # Unresolved
<1>1. CASE name \notin ToolNames(f)
  BY <1>1 DEF CallTool, Unknown, Unresolved
<1>2. CASE name \in ToolNames(f)
  <2>1. Tools(f) = ToSet(f.tools.items)
    BY <1>2 DEF ToolNames, Tools
  <2>2. f \in McpConfig /\ name \in {t.name : t \in ToSet(f.tools.items)}
    BY <1>2, <2>1, FileAssumption DEF ToolNames
  <2>3. ToolNamed(f, name) \in Tools(f)
    BY <2>1, <2>2, LastNamed
  <2>4. ToolNamed(f, name).kind = "plugin" => ToolNamed(f, name).plugin \in plugins["tool"]
    BY <2>3, PluginToolRegistered
  <2> QED BY <1>2, <2>4 DEF CallTool, Resolved, Done, Unresolved
<1> QED BY <1>1, <1>2

(* The catalogs: of prompts and of resources, when they are compiled in.   *)
LEMMA ItemsResolve ==
  ASSUME NEW f \in File, Checked(f), NEW kind \in {"prompts", "resources"}, kind \in features
  PROVE  /\ CatalogResolves(f, plugins, kind)
         /\ \A i \in Items(f, kind) :
              LET p == Section(f, kind).providers[i] IN
              p \in ToSet(Section(f, kind).providers)
                /\ (p.plugin = Inline \/ p.plugin \in plugins[TypeOf(kind)])
<1>1. CatalogResolves(f, plugins, kind)
  BY DEF Checked, ListsAnswered
<1>2. ASSUME NEW i \in Items(f, kind)
      PROVE  /\ Active(Section(f, kind))
             /\ Section(f, kind).providers[i] \in ToSet(Section(f, kind).providers)
  BY DEF Items, ToSet
<1> QED BY <1>1, <1>2 DEF CatalogResolves

LEMMA ReadsResolve ==
  ASSUME NEW f \in File, Checked(f), NEW kind \in {"prompts", "resources"}, NEW i
  PROVE  /\ ListItems(f, features, plugins, kind) # Unresolved
         /\ ReadItem(f, features, plugins, kind, i) # Unresolved
<1>1. CASE kind \notin features
  BY <1>1 DEF ListItems, ReadItem, MethodNotFound, Unresolved
<1>2. CASE kind \in features
  BY <1>2, ItemsResolve DEF ListItems, ReadItem, Resolved, Done, Unknown, Unresolved
<1> QED BY <1>1, <1>2

LEMMA SubscriptionsResolve ==
  ASSUME NEW f \in File, Checked(f), NEW i
  PROVE  Subscribe(f, features, plugins, i) # Unresolved
  BY ReadsResolve DEF Subscribe, MethodNotFound, Unresolved

LEMMA SourcesResolve ==
  ASSUME NEW f \in File, Accepts(f), Active(f.completion),
         NEW source, source # "none" => source \in SourceNames(f)
  PROVE  CompleteFrom(f, plugins, source) # Unresolved
<1>1. CompletionFits(f) /\ AllowlistsRegistered(f, plugins)
  BY DEF Accepts, EngineFits
<1>2. \A s \in ToSet(f.completion.providers) :
        s.plugin = Inline \/ s.plugin \in plugins["completion"]
  BY <1>1 DEF CompletionFits, PluginAllowed, AllowlistsRegistered, EnginePluginTypes
<1>3. CASE source = "none"
  BY <1>3 DEF CompleteFrom, Done, Unresolved
<1>4. CASE source # "none"
  <2> DEFINE s == CHOOSE s \in ToSet(f.completion.providers) : s.name = source
  <2>1. s \in ToSet(f.completion.providers)
    BY <1>4 DEF SourceNames
  <2>2. CompleteFrom(f, plugins, source)
          = Resolved(s.plugin = Inline \/ s.plugin \in plugins["completion"])
    BY <1>4 DEF CompleteFrom
  <2> QED BY <1>2, <2>1, <2>2 DEF Resolved, Done, Unresolved
<1> QED BY <1>3, <1>4

LEMMA CompletionsResolve ==
  ASSUME NEW f \in File, Checked(f), NEW kind \in {"prompts", "resources"}, NEW i
  PROVE  Complete(f, features, plugins, kind, i) # Unresolved
<1>1. CASE ~("completion" \in features /\ Active(f.completion) /\ kind \in features
             /\ i \in Items(f, kind))
  BY <1>1, ItemsResolve DEF Complete, MethodNotFound, Unknown, Unresolved
<1>2. CASE "completion" \in features /\ Active(f.completion) /\ kind \in features
             /\ i \in Items(f, kind)
  <2> DEFINE p == Section(f, kind).providers[i]
  <2>1. CatalogResolves(f, plugins, kind) /\ p \in ToSet(Section(f, kind).providers)
    BY <1>2, ItemsResolve
  <2>2. Active(Section(f, kind))
    BY <1>2 DEF Items
  <2>3. p.source # "none" => p.source \in SourceNames(f)
    BY <1>2, <2>1, <2>2 DEF CatalogResolves
  <2>4. CompleteFrom(f, plugins, p.source) # Unresolved
    BY <1>2, <2>3, SourcesResolve DEF Checked
  <2>5. Complete(f, features, plugins, kind, i) = CompleteFrom(f, plugins, p.source)
    BY <1>2, <2>1 DEF Complete
  <2> QED BY <2>4, <2>5
<1> QED BY <1>1, <1>2

LEMMA CatalogRequests ==
  ASSUME NEW f, NEW q \in Requests(f), q[1] \in {"list", "read", "complete"}
  PROVE  q[2] \in {"prompts", "resources"}
<1>1. ASSUME NEW method, NEW kind, q \in ItemRequests(f, method, kind)
      PROVE  q[1] = method /\ q[2] = kind
  BY <1>1 DEF ItemRequests
<1>2. q \notin ToolRequests(f) /\ q \notin PlainRequests
  BY DEF ToolRequests, PlainRequests
<1>3. q \in ListRequests => q[2] \in {"prompts", "resources"}
  BY DEF ListRequests
<1> QED BY <1>1, <1>2, <1>3 DEF Requests

LEMMA RequestsResolve ==
  ASSUME NEW f \in File, Checked(f), NEW q \in Requests(f)
  PROVE  Answer(f, features, plugins, q) # Unresolved
<1>1. CASE q[1] = "tools/call"
  BY <1>1, CallsResolve DEF Answer, Checked
<1>2. CASE q[1] = "tools/call as task"
  BY <1>2 DEF Answer, EnqueueTask, MethodNotFound, Unknown, Done, Unresolved
<1>3. CASE q[1] = "logging/setLevel"
  BY <1>3 DEF Answer, SetLevel, MethodNotFound, Done, Unresolved
<1>4. CASE q[1] = "list"
  BY <1>4, CatalogRequests, ReadsResolve DEF Answer
<1>5. CASE q[1] = "read"
  BY <1>5, CatalogRequests, ReadsResolve DEF Answer
<1>6. CASE q[1] = "complete"
  BY <1>6, CatalogRequests, CompletionsResolve DEF Answer
<1>7. CASE q[1] = "subscribe"
  BY <1>7, SubscriptionsResolve DEF Answer
<1>8. CASE q[1] \notin {"tools/call", "tools/call as task", "logging/setLevel", "list",
                        "read", "complete", "subscribe"}
  <2>1. Answer(f, features, plugins, q) = AskTasks(f, features, q[1])
    BY <1>8 DEF Answer
  <2> QED BY <2>1 DEF AskTasks, MethodNotFound, Done, Unresolved
<1> QED BY <1>1, <1>2, <1>3, <1>4, <1>5, <1>6, <1>7, <1>8

(* What is advertised is answered, whatever the configuration. *)
LEMMA AdvertisedAnswered ==
  ASSUME NEW f, NEW c \in Capabilities(f, features), NEW q \in Requests(f), Invites(f, c, q)
  PROVE  Answer(f, features, plugins, q) # MethodNotFound
<1> USE DEF MethodNotFound, Unknown, Unresolved, Done
<1>1. CASE c \in {"prompts", "resources"}
  <2>1. c \in features /\ q[1] \in {"list", "read"} /\ q[2] = c
    BY <1>1 DEF Capabilities, Invites
  <2>2. ListItems(f, features, plugins, c) # MethodNotFound
    BY <2>1 DEF ListItems, Resolved
  <2>3. ReadItem(f, features, plugins, c, q[3]) # MethodNotFound
    BY <2>1 DEF ReadItem, Resolved
  <2> QED BY <2>1, <2>2, <2>3 DEF Answer
<1>2. CASE c = "resources.subscribe"
  <2>1. "resources" \in features /\ SubscribeEnabled(f) /\ q[1] = "subscribe"
    BY <1>2 DEF Capabilities, Invites, SubscribeEnabled, Active
  <2>2. ReadItem(f, features, plugins, "resources", q[3]) # MethodNotFound
    BY <2>1 DEF ReadItem, Resolved
  <2> QED BY <2>1, <2>2 DEF Answer, Subscribe
<1>3. CASE c = "logging"
  BY <1>3 DEF Capabilities, Invites, Answer, SetLevel
<1>4. CASE c = "completions"
  <2>1. "completion" \in features /\ Active(f.completion) /\ q[1] = "complete"
    BY <1>4 DEF Capabilities, Invites
  <2>2. \A source : CompleteFrom(f, plugins, source) # MethodNotFound
    BY DEF CompleteFrom, Resolved
  <2>3. Complete(f, features, plugins, q[2], q[3]) # MethodNotFound
    BY <2>1, <2>2 DEF Complete
  <2> QED BY <2>1, <2>3 DEF Answer
<1>5. CASE c \in {"tasks", "tasks.list", "tasks.cancel"}
  BY <1>5 DEF Capabilities, Invites, Answer, AskTasks
<1>6. CASE c = "tasks.call"
  <2>1. TasksOn(f, features) /\ q[1] = "tools/call as task"
    BY <1>6 DEF Capabilities, Invites
  <2>2. q[2] \in ToolNames(f) /\ ToolNamed(f, q[2]).task # "forbidden"
    BY <1>6 DEF Invites, ToolNames
  <2>3. EnqueueTask(f, features, q[2]) = Done
    BY <2>1, <2>2 DEF EnqueueTask
  <2> QED BY <2>1, <2>3 DEF Answer
<1> QED BY <1>1, <1>2, <1>3, <1>4, <1>5, <1>6 DEF Invites

(* A section that is on has providers, or no auth state is built. *)
LEMMA AuthSettings ==
  ASSUME NEW f, AuthSettingsFit(f), Active(f.auth)
  PROVE  f.auth.providers # <<>>
  BY DEF AuthSettingsFit

(* The layer, which asks the configuration, and what it enforces, which is *)
(* asked of the auth state, agree.                                         *)
LEMMA AuthAgrees ==
  ASSUME NEW f \in File, Accepts(f), f.http.on
  PROVE  /\ AuthActive(f) = Enforces(f, features)
         /\ "auth" \in features => (Enforces(f, features) = Active(f.auth))
<1>1. "streamable_http" \in RuntimeNeeds(f) /\ RuntimeNeeds(f) \subseteq features
  BY DEF Accepts, InitsLogging, RuntimeNeeds
<1>2. AuthFits(f, features, plugins)
  BY <1>1 DEF Accepts
<1>3. CASE "auth" \in features
  <2>1. Active(f.auth) => f.auth.providers # <<>>
    BY <1>2, <1>3, AuthSettings DEF AuthFits
  <2> QED BY <2>1, <1>3 DEF AuthActive, Enforces, Active
<1>4. CASE "auth" \notin features
  BY <1>2, <1>4 DEF AuthFits, AuthActive, Enforces
<1> QED BY <1>3, <1>4

LEMMA StatelessAgrees ==
  ASSUME NEW f \in File, Accepts(f), f.http.on, f.http.sessions = "none"
  PROVE  ~f.http.resumption /\ ~f.http.deletion /\ f.http.creationRate = "absent"
<1>1. ~f.http.resumption /\ ~f.http.deletion /\ ~f.http.sessionLimits
  BY DEF Accepts, TransportFits
<1>2. f.http \in TransportConfig
  BY FileAssumption DEF McpConfig
<1>3. f.http.creationRate # "absent" => f.http.sessionLimits
  BY <1>2 DEF TransportConfig
<1> QED BY <1>1, <1>3

-----------------------------------------------------------------------------
(* The invariant.                                                          *)

LEMMA InvInit == Init => Inv
  BY DEF Init, RouterInit, Inv, RuntimeKnown, ServingKnown

(* Before the first build nothing has been checked: plugins may change.    *)
LEMMA RegistryKeeps ==
  ASSUME Inv, host = "registering", host' \in {"registering", "down"}, RegistryOnly
  PROVE  Inv'
<1>1. /\ candidate = None /\ current = None /\ served = None /\ run = "idle" /\ phase = "off"
  BY DEF Inv, RuntimeKnown, ServingKnown
<1>2. UNCHANGED <<candidate, current, served, run, phase>>
  BY DEF RegistryOnly, routerVars, building
<1> QED BY <1>1, <1>2 DEF Inv, RuntimeKnown, ServingKnown

(* What was checked stays checked while features and plugins stay.         *)
LEMMA ChecksStay ==
  ASSUME UNCHANGED <<features, plugins>>, NEW f
  PROVE  (Accepts(f)' <=> Accepts(f)) /\ (Checked(f)' <=> Checked(f))
<1>1. features' = features /\ plugins' = plugins
  OBVIOUS
<1>2. Accepts(f)' <=> Accepts(f)
  BY <1>1 DEF Accepts, InitsLogging
<1>3. ListsAnswered(f)' <=> ListsAnswered(f)
  BY <1>1 DEF ListsAnswered
<1> QED BY <1>2, <1>3 DEF Checked

(* Features and plugins stay: RuntimeKnown asks nothing but the values.    *)
LEMMA KeepsKnown ==
  ASSUME UNCHANGED <<features, plugins>>, host' \in {"starting", "up", "down"},
         candidate' # None => candidate' \in File /\ Accepts(candidate'),
         current' # None => Checked(current'), served' # None => Checked(served'),
         run' # "idle" \/ host' = "up" => current' # None
  PROVE  RuntimeKnown'
<1>1. candidate' # None => Accepts(candidate)'
  BY ChecksStay
<1>2. /\ current' # None => Checked(current)'
      /\ served' # None => Checked(served)'
  BY ChecksStay
<1> QED BY <1>1, <1>2 DEF RuntimeKnown

(* A step that leaves the router and what it serves alone.                 *)
LEMMA KeepsServing ==
  ASSUME ServingKnown, UNCHANGED <<features, config, phase, readAuth, served>>,
         overtaken => overtaken', phase # "off" => run' = run,
         run' \in {"auth", "engine"} /\ ~overtaken' => current'.http.on,
         run' = "engine" /\ ~overtaken' => readAuth' = current'
  PROVE  ServingKnown'
<1>1. BuiltFrom(served, readAuth)' <=> BuiltFrom(served, readAuth)
  BY DEF BuiltFrom
<1> QED BY <1>1 DEF ServingKnown

LEMMA BuildKeeps ==
  ASSUME Inv, New \/ Reload
  PROVE  Inv'
<1>1. UNCHANGED <<features, plugins, current, run, readAuth, served, overtaken, config, phase>>
  BY DEF New, Reload, BuildOnly, routerVars, building
<1>2. CASE New
  <2>1. /\ host = "registering" /\ host' \in {"starting", "down"}
        /\ current = None /\ served = None /\ run = "idle" /\ candidate = None
    BY <1>2 DEF New, Inv, RuntimeKnown
  <2>2. candidate' # None => candidate' \in File /\ Accepts(candidate')
    BY <1>2, <2>1 DEF New
  <2>3. RuntimeKnown'
    BY <1>1, <2>1, <2>2, KeepsKnown
  <2>4. ServingKnown'
    BY <1>1, <2>1, KeepsServing DEF Inv
  <2> QED BY <2>3, <2>4 DEF Inv
<1>3. CASE Reload
  <2>1. /\ host = "up" /\ host' = host /\ current # None
    BY <1>3 DEF Reload, Inv, RuntimeKnown
  <2>2. candidate' # None => candidate' \in File /\ Accepts(candidate')
    <3>1. current \in File
      BY <2>1 DEF Inv, RuntimeKnown, Checked
    <3>2. Reloaded[current] \subseteq File
      BY <3>1, ServerAssumption DEF ServerAssumption
    <3> QED BY <1>3, <3>2 DEF Reload
  <2>3. RuntimeKnown'
    BY <1>1, <2>1, <2>2, KeepsKnown DEF Inv, RuntimeKnown
  <2>4. ServingKnown'
    BY <1>1, KeepsServing DEF Inv, ServingKnown
  <2> QED BY <2>3, <2>4 DEF Inv
<1> QED BY <1>2, <1>3

LEMMA SwapKeeps ==
  ASSUME Inv, Swap
  PROVE  Inv'
<1>1. /\ UNCHANGED <<features, plugins, run, readAuth, served, config, phase>>
      /\ candidate # None /\ current' = candidate /\ candidate' = None /\ host' = "up"
      /\ overtaken' = (overtaken \/ run \in {"auth", "engine"})
  BY DEF Swap, BuildOnly, routerVars, building
<1>2. Checked(current')
  BY <1>1 DEF Swap, Checked, Inv, RuntimeKnown
<1>3. RuntimeKnown'
  BY <1>1, <1>2, KeepsKnown DEF Inv, RuntimeKnown
<1>4. ServingKnown'
  BY <1>1, KeepsServing DEF Inv
<1> QED BY <1>3, <1>4 DEF Inv

LEMMA ListsFailKeeps ==
  ASSUME Inv, ListsFail
  PROVE  Inv'
<1>1. /\ UNCHANGED <<features, plugins, current, run, readAuth, served, overtaken, config, phase>>
      /\ candidate # None /\ candidate' = None
      /\ host' = IF host = "starting" THEN "down" ELSE host
  BY DEF ListsFail, BuildOnly, routerVars, building
<1>2. RuntimeKnown'
  BY <1>1, KeepsKnown DEF Inv, RuntimeKnown
<1>3. ServingKnown'
  BY <1>1, KeepsServing DEF Inv, ServingKnown
<1> QED BY <1>2, <1>3 DEF Inv

LEMMA ReadModeKeeps ==
  ASSUME Inv, ReadMode
  PROVE  Inv'
<1>1. /\ UNCHANGED <<features, plugins, host, candidate, current, readAuth, served, overtaken,
                     config, phase>>
      /\ host = "up" /\ run = "idle"
      /\ run' = IF current.http.on THEN "auth" ELSE "engine of stdio"
  BY DEF ReadMode, RunOnly, routerVars, building
<1>2. RuntimeKnown'
  BY <1>1, KeepsKnown DEF Inv, RuntimeKnown
<1>3. ServingKnown'
  BY <1>1, KeepsServing DEF Inv, ServingKnown
<1> QED BY <1>2, <1>3 DEF Inv

LEMMA ReadAuthKeeps ==
  ASSUME Inv, ReadAuthState
  PROVE  Inv'
<1>1. /\ UNCHANGED <<features, plugins, host, candidate, current, served, overtaken,
                     config, phase>>
      /\ run = "auth" /\ run' = "engine" /\ readAuth' = current
  BY DEF ReadAuthState, RunOnly, routerVars, building
<1>2. phase = "off"
  BY <1>1 DEF Inv, ServingKnown
<1>3. host # "registering" /\ current # None
  BY <1>1 DEF Inv, RuntimeKnown
<1>4. RuntimeKnown'
  BY <1>1, <1>3, KeepsKnown DEF Inv, RuntimeKnown
<1>5. ServingKnown'
  BY <1>1, <1>2 DEF Inv, ServingKnown
<1> QED BY <1>4, <1>5 DEF Inv

LEMMA ReadEngineKeeps ==
  ASSUME Inv, ReadEngine
  PROVE  Inv'
<1>1. /\ UNCHANGED <<features, plugins, host, candidate, current, readAuth, overtaken>>
      /\ served' = current /\ run' = "serving"
      /\ run \in {"engine", "engine of stdio"}
  BY DEF ReadEngine, RunOnly
<1>2. host # "registering" /\ current # None
  BY <1>1 DEF Inv, RuntimeKnown
<1>3. RuntimeKnown'
  BY <1>1, <1>2, KeepsKnown DEF Inv, RuntimeKnown
<1>4. CASE run = "engine"
  <2>1. config' = RouterOf(current, readAuth)
    BY <1>4 DEF ReadEngine, StartRouter
  <2>2. BuiltFrom(current, readAuth)'
    <3>1. /\ config'.auth = AuthActive(current)
          /\ config'.enforced = Enforces(readAuth, features)
          /\ config'.mode = current.http.sessions
          /\ config'.resumption = current.http.resumption
          /\ config'.deletion = current.http.deletion
          /\ config'.creationRate => current.http.creationRate \in {"on", "excessive"}
      BY <2>1 DEF RouterOf
    <3> QED BY <1>1, <2>1, <3>1 DEF BuiltFrom
  <2>3. ~overtaken => readAuth = current /\ current.http.on
    BY <1>4 DEF Inv, ServingKnown
  <2>4. BuiltFrom(served, readAuth)'
    BY <1>1, <2>2 DEF BuiltFrom
  <2>5. ServingKnown'
    BY <1>1, <1>2, <2>3, <2>4 DEF ServingKnown
  <2> QED BY <1>3, <2>5 DEF Inv
<1>5. CASE run = "engine of stdio"
  <2>1. phase = "off" /\ phase' = phase
    BY <1>5 DEF ReadEngine, routerVars, building, Inv, ServingKnown
  <2>2. ServingKnown'
    BY <1>1, <2>1 DEF ServingKnown
  <2> QED BY <1>3, <2>2 DEF Inv
<1> QED BY <1>1, <1>4, <1>5

LEMMA RouterKeeps ==
  ASSUME Inv, RouterNext, UNCHANGED runtimeVars
  PROVE  Inv'
<1>1. UNCHANGED config /\ (phase = "off" => phase' = "off")
  BY DEF RouterNext, BuildMcpRouter, SkipPlugin, ResolvePlugin, ApplyRoute, ApplyWrap, Applying, Assemble,
         Inward, Outward, Arrive, building
<1>2. UNCHANGED <<features, plugins, host, candidate, current, run, readAuth, served, overtaken>>
  BY DEF runtimeVars
<1>3. CASE host = "registering"
  <2>1. /\ candidate = None /\ current = None /\ served = None /\ run = "idle"
        /\ phase = "off" /\ phase' = "off"
    BY <1>1, <1>3 DEF Inv, RuntimeKnown, ServingKnown
  <2> QED BY <1>2, <1>3, <2>1 DEF Inv, RuntimeKnown, ServingKnown
<1>4. CASE host # "registering"
  <2>1. RuntimeKnown'
    BY <1>2, <1>4, KeepsKnown DEF Inv, RuntimeKnown
  <2>2. BuiltFrom(served, readAuth)' <=> BuiltFrom(served, readAuth)
    BY <1>1, <1>2 DEF BuiltFrom
  <2>3. ServingKnown'
    BY <1>1, <1>2, <2>2 DEF Inv, ServingKnown
  <2> QED BY <2>1, <2>3 DEF Inv
<1> QED BY <1>3, <1>4

LEMMA InvNext ==
  ASSUME Inv, [Next]_vars
  PROVE  Inv'
<1>1. CASE Register \/ Unregister \/ Replace
  <2>1. host = "registering" /\ host' \in {"registering", "down"} /\ RegistryOnly
    BY <1>1 DEF Register, Unregister, Replace, Registers, RegistryLost
  <2> QED BY <2>1, RegistryKeeps
<1>2. CASE New \/ Reload
  BY <1>2, BuildKeeps
<1>3. CASE Swap
  BY <1>3, SwapKeeps
<1>4. CASE ListsFail
  BY <1>4, ListsFailKeeps
<1>5. CASE ReadMode
  BY <1>5, ReadModeKeeps
<1>6. CASE ReadAuthState
  BY <1>6, ReadAuthKeeps
<1>7. CASE ReadEngine
  BY <1>7, ReadEngineKeeps
<1>8. CASE Route
  BY <1>8, RouterKeeps DEF Route
<1>9. CASE UNCHANGED vars
  <2>1. UNCHANGED runtimeVars /\ UNCHANGED <<config, phase>>
    BY <1>9 DEF vars, routerVars, building
  <2>2. UNCHANGED <<features, plugins, host, candidate, current, run, readAuth, served, overtaken>>
    BY <2>1 DEF runtimeVars
  <2>3. RuntimeKnown' <=> RuntimeKnown
    BY <2>2 DEF RuntimeKnown, Checked, Accepts, ListsAnswered, InitsLogging
  <2>4. ServingKnown' <=> ServingKnown
    BY <2>1, <2>2 DEF ServingKnown, BuiltFrom
  <2> QED BY <2>3, <2>4 DEF Inv
<1> QED BY <1>1, <1>2, <1>3, <1>4, <1>5, <1>6, <1>7, <1>8, <1>9 DEF Next

-----------------------------------------------------------------------------
(* What follows of it.                                                     *)

LEMMA InvChecked ==
  ASSUME Inv
  PROVE  /\ \A f \in Engines : f \in File /\ Checked(f)
         /\ phase # "off" /\ ~overtaken =>
              /\ served \in File /\ Accepts(served) /\ served.http.on
              /\ BuiltFrom(served, served)
  BY DEF Inv, RuntimeKnown, ServingKnown, Engines, Checked

(* Whatever the host loads, reloads and serves, every engine that is there *)
(* is of a configuration that was checked with the features and the        *)
(* plugins there are, and the router is of what run() has read             *)
(* (core.rs:61-124).                                                       *)
THEOREM Inductive == Spec => []Inv
  BY InvInit, InvNext, PTL DEF Spec

(* No request ever meets a plugin that is not registered or a source that  *)
(* is not defined, whatever the configuration, the plugins and the reloads *)
(* (construction.rs:45-99).                                                *)
THEOREM EveryReferenceResolves == Spec => []ReferencesResolve
<1>1. Inv => ReferencesResolve
  BY InvChecked, RequestsResolve DEF ReferencesResolve
<1> QED BY <1>1, Inductive, PTL

(* A capability that initialize advertises is one that is served           *)
(* (server_info.rs:56-75).                                                 *)
THEOREM EveryCapabilityIsServed == Spec => []AdvertisedIsServed
<1>1. AdvertisedIsServed
  BY AdvertisedAnswered DEF AdvertisedIsServed
<1> QED BY <1>1, PTL

(* The router enforces authorization exactly when the configuration that   *)
(* it serves says so, and is never stateless with sessions to resume, to   *)
(* delete or to count, unless a reload ended between the reads of run()    *)
(* (core.rs:103-124, router.rs:365-370).                                   *)
THEOREM RouterServesAsChecked == Spec => []ServedAsChecked
<1>1. Inv => ServedAsChecked
  <2> SUFFICES ASSUME Inv, phase # "off", ~overtaken
               PROVE  /\ config.auth = config.enforced
                      /\ "auth" \in features => (config.enforced = Active(served.auth))
                      /\ config.mode = "none" =>
                           ~config.resumption /\ ~config.deletion /\ ~config.creationRate
    BY DEF ServedAsChecked
  <2>1. /\ served \in File /\ Accepts(served) /\ served.http.on
        /\ BuiltFrom(served, served)
    BY InvChecked
  <2>2. /\ AuthActive(served) = Enforces(served, features)
        /\ "auth" \in features => (Enforces(served, features) = Active(served.auth))
    BY <2>1, AuthAgrees
  <2>3. served.http.sessions = "none" =>
          ~served.http.resumption /\ ~served.http.deletion /\ served.http.creationRate = "absent"
    BY <2>1, StatelessAgrees
  <2> QED BY <2>1, <2>2, <2>3 DEF BuiltFrom
<1> QED BY <1>1, Inductive, PTL

-----------------------------------------------------------------------------
(* The router: how it is built.                                            *)

LayerKind ==
  {"catchPanics", "sensitiveHeaders", "route", "wrap", "auth", "guard", "negotiation",
   "bodyLimit", "creationRate", "rateLimit", "service", "handler"}

LayerRecord == [kind : LayerKind, of : Nat \X Nat]

(* The target that is applied next; with target 0, the plugin's first.     *)
Place == <<plugin, target>>

Applied(w) == Before(w, Place)

(* What a segment may carry: a layer of its own, or a wrap that is         *)
(* declared for it and whose turn has come.                                *)
LayerFits(l, p) ==
  \/ l.of = <<0, 0>> /\ p = Endpoint /\ l.kind \in {"catchPanics", "sensitiveHeaders"}
  \/ l.of \in DeclaredWraps(p) /\ Applied(l.of) /\ l.kind = TargetAt(l.of).op

SegmentBuilt(p) ==
  /\ \A k \in DOMAIN layers[p] : LayerFits(layers[p][k], p)
  /\ \A k, m \in OfPlugin(layers[p]) : k < m => Before(layers[p][k].of, layers[p][m].of)
  /\ \A w \in DeclaredWraps(p) : Applied(w) => \E k \in DOMAIN layers[p] : layers[p][k].of = w

(* The plugins' routes are the route targets whose turn has come.          *)
RoutesKnown ==
  /\ \A v \in Places : Applied(v) /\ TargetAt(v).type = "route" => TargetAt(v).path \in ToSet(routes)
  /\ \A p \in ToSet(routes) : p # Endpoint /\ \E v \in Places : Applied(v) /\ Routes(v, p)

RouterType ==
  /\ config \in RouterConfig
  /\ plugin \in Nat \ {0} /\ target \in Nat
  /\ target > 0 => Place \in Places
  /\ routes \in Seq(Path)
  /\ layers \in [{Endpoint, App} \cup ToSet(routes) -> Seq(LayerRecord)]

(* Whatever panics behind the endpoint is caught at its outermost layer.   *)
CatchesFirst ==
  config.catchPanics => layers[Endpoint] # <<>> /\ layers[Endpoint][1].kind = "catchPanics"

Segments ==
  /\ RouterType
  /\ RoutesKnown
  /\ \A p \in DOMAIN layers : SegmentBuilt(p)
  /\ CatchesFirst

RouterBuilt ==
  /\ phase \in {"off", "new"} => plugin = 1 /\ target = 0 /\ routes = <<>>
  /\ phase \in {"new", "plugins", "serving"} => Segments
  /\ phase = "serving" => plugin > Len(config.plugins) /\ Merges

-----------------------------------------------------------------------------
LEMMA ConfigKept ==
  ASSUME UNCHANGED config
  PROVE  /\ Places' = Places /\ Endpoint' = Endpoint
         /\ \A w : TargetAt(w)' = TargetAt(w)
         /\ \A v, p : Routes(v, p)' = Routes(v, p)
         /\ \A p : DeclaredWraps(p)' = DeclaredWraps(p)
<1>1. Places' = Places /\ Endpoint' = Endpoint
  BY DEF Places, Endpoint
<1>2. \A w : TargetAt(w)' = TargetAt(w)
  BY DEF TargetAt
<1>3. \A v, p : Routes(v, p)' = Routes(v, p)
  BY DEF Routes, TargetAt
<1>4. \A p : DeclaredWraps(p)' = DeclaredWraps(p)
  <2> SUFFICES ASSUME NEW p PROVE DeclaredWraps(p)' = DeclaredWraps(p) OBVIOUS
  <2>1. \A w : Covers(w, p)' = Covers(w, p)
    BY <1>1, <1>2, <1>3 DEF Covers
  <2> QED BY <1>1, <2>1 DEF DeclaredWraps
<1> QED BY <1>1, <1>2, <1>3, <1>4

LEMMA PlacesType ==
  ASSUME config \in RouterConfig, NEW w \in Places
  PROVE  /\ w \in (Nat \ {0}) \X (Nat \ {0})
         /\ w[1] \in DOMAIN config.plugins /\ config.plugins[w[1]].router
         /\ w[2] \in DOMAIN config.plugins[w[1]].targets
         /\ TargetAt(w) \in Target
<1>0. config.plugins \in Seq(Plugin)
  BY DEF RouterConfig
<1>1. PICK i \in DOMAIN config.plugins :
        config.plugins[i].router /\ w \in {i} \X DOMAIN config.plugins[i].targets
  BY DEF Places
<1>2. config.plugins[i] \in Plugin /\ i \in Nat \ {0}
  BY <1>0
<1>3. config.plugins[i].targets \in Seq(Target)
  BY <1>2 DEF Plugin
<1>4. w[1] = i /\ w[2] \in DOMAIN config.plugins[i].targets /\ w = <<i, w[2]>>
  BY <1>1
<1>5. w[2] \in Nat \ {0} /\ config.plugins[i].targets[w[2]] \in Target
  BY <1>3, <1>4
<1> QED BY <1>1, <1>2, <1>4, <1>5 DEF TargetAt
(* Where a target is in its plugin. *)
LEMMA IsPlace ==
  ASSUME NEW i \in DOMAIN config.plugins, config.plugins[i].router,
         NEW j \in DOMAIN config.plugins[i].targets
  PROVE  <<i, j>> \in Places
BY DEF Places

(* When a target is done with, its turn has come, and that of no other.    *)
LEMMA TurnPasses ==
  ASSUME RouterType, target > 0, Advances, UNCHANGED config
  PROVE  /\ plugin' \in Nat \ {0} /\ target' \in Nat
         /\ target' > 0 => <<plugin', target'>> \in Places
         /\ \A w \in Places : Before(w, <<plugin', target'>>) <=> Applied(w) \/ w = Place
<1>0. config \in RouterConfig /\ plugin \in Nat \ {0} /\ target \in Nat \ {0} /\ Place \in Places
  BY DEF RouterType
<1>1. /\ plugin \in DOMAIN config.plugins /\ config.plugins[plugin].router
      /\ target \in DOMAIN Targets
  BY <1>0, PlacesType DEF Place, Targets
<1>2. Len(Targets) \in Nat /\ DOMAIN Targets = 1..Len(Targets)
  <2>1. config.plugins[plugin] \in Plugin
    BY <1>0, <1>1 DEF RouterConfig
  <2> QED BY <2>1 DEF Plugin, Targets
<1>3. CASE target < Len(Targets)
  <2>1. target' = target + 1 /\ plugin' = plugin
    BY <1>3 DEF Advances
  <2>2. <<plugin, target + 1>> \in Places
    <3>1. target + 1 \in DOMAIN config.plugins[plugin].targets
      BY <1>0, <1>1, <1>2, <1>3 DEF Targets
    <3> QED BY <1>1, <3>1, IsPlace
  <2>3. ASSUME NEW w \in Places
        PROVE  Before(w, <<plugin, target + 1>>) <=> Applied(w) \/ w = Place
    <3>1. w[1] \in Nat /\ w[2] \in Nat /\ w = <<w[1], w[2]>>
      BY <1>0, PlacesType
    <3>2. w[2] < target + 1 <=> w[2] < target \/ w[2] = target
      BY <1>0, <3>1
    <3> QED BY <1>0, <3>1, <3>2 DEF Before, Applied, Place
  <2> QED BY <1>0, <2>1, <2>2, <2>3
<1>4. CASE ~ (target < Len(Targets))
  <2>1. target' = 0 /\ plugin' = plugin + 1
    BY <1>4 DEF Advances
  <2>2. ASSUME NEW w \in Places
        PROVE  Before(w, <<plugin + 1, 0>>) <=> Applied(w) \/ w = Place
    <3>1. w[1] \in Nat /\ w[2] \in Nat \ {0} /\ w = <<w[1], w[2]>>
      BY <1>0, PlacesType
    <3>2. w[1] = plugin => w[2] < target \/ w[2] = target
      <4>1. w[1] = plugin => w[2] \in DOMAIN Targets
        BY <1>0, PlacesType DEF Targets
      <4> QED BY <1>0, <1>1, <1>2, <1>4, <3>1, <4>1
    <3>3. w[1] < plugin + 1 <=> w[1] < plugin \/ w[1] = plugin
      BY <1>0, <3>1
    <3>4. ~ (w[2] < 0)
      BY <3>1
    <3> QED BY <1>0, <3>1, <3>2, <3>3, <3>4 DEF Before, Applied, Place
  <2> QED BY <1>0, <2>1, <2>2
<1> QED BY <1>3, <1>4

(* A segment and a step that leaves its layers alone.                      *)
LEMMA SegmentKept ==
  ASSUME UNCHANGED config, NEW p, SegmentBuilt(p), layers'[p] = layers[p],
         \A w \in DeclaredWraps(p) : Before(w, <<plugin', target'>>) <=> Applied(w)
  PROVE  SegmentBuilt(p)'
<1>1. DeclaredWraps(p)' = DeclaredWraps(p) /\ Endpoint' = Endpoint
  BY ConfigKept
<1>2. ASSUME NEW k \in DOMAIN layers[p]
      PROVE  LayerFits(layers[p][k], p)'
  <2>1. LayerFits(layers[p][k], p)
    BY DEF SegmentBuilt
  <2>2. layers'[p][k] = layers[p][k]
    OBVIOUS
  <2> QED BY <1>1, <2>1, <2>2 DEF LayerFits, Applied, Place, TargetAt
<1>3. \A k, m \in OfPlugin(layers[p]) : k < m => Before(layers'[p][k].of, layers'[p][m].of)
  BY DEF SegmentBuilt
<1>4. ASSUME NEW w \in DeclaredWraps(p), Before(w, <<plugin', target'>>)
      PROVE  \E k \in DOMAIN layers'[p] : layers'[p][k].of = w
  BY <1>4 DEF SegmentBuilt
<1> QED BY <1>1, <1>2, <1>3, <1>4 DEF SegmentBuilt, OfPlugin, Applied, Place, Before

(* A step that only moves on to where no target was left behind.           *)
LEMMA MovesOn ==
  ASSUME Segments, UNCHANGED <<config, routes, layers>>,
         plugin' \in Nat \ {0}, target' \in Nat,
         target' > 0 => <<plugin', target'>> \in Places,
         \A w \in Places : Before(w, <<plugin', target'>>) <=> Applied(w)
  PROVE  Segments'
<1>1. RouterType'
  <2>1. Place' = <<plugin', target'>> /\ Places' = Places /\ Endpoint' = Endpoint
    BY ConfigKept DEF Place
  <2> QED BY <2>1 DEF Segments, RouterType
<1>2. RoutesKnown'
  <2>1. \A w \in Places : Applied(w)' <=> Applied(w)
    BY DEF Applied, Place
  <2> QED BY <2>1, ConfigKept DEF Segments, RoutesKnown
<1>3. \A p \in DOMAIN layers : SegmentBuilt(p)'
  <2> SUFFICES ASSUME NEW p \in DOMAIN layers PROVE SegmentBuilt(p)' OBVIOUS
  <2>1. DeclaredWraps(p) \subseteq Places
    BY DEF DeclaredWraps
  <2>2. SegmentBuilt(p)
    BY DEF Segments
  <2> QED BY <2>1, <2>2, SegmentKept
<1>4. CatchesFirst'
  BY ConfigKept DEF Segments, CatchesFirst
<1> QED BY <1>1, <1>2, <1>3, <1>4 DEF Segments

LEMMA RouteBuilds ==
  ASSUME Segments, ApplyRoute, phase' # "refused"
  PROVE  Segments'
<1>0. PICK path : path = Current.path
  OBVIOUS
<1>1. /\ UNCHANGED config /\ target > 0 /\ Advances
      /\ Current.type = "route" /\ Current.op = "route"
      /\ path # Endpoint /\ path \notin ToSet(routes)
      /\ routes' = Append(routes, path)
      /\ layers' = [p \in DOMAIN layers \cup {path} |-> IF p = path THEN <<>> ELSE layers[p]]
  BY <1>0 DEF ApplyRoute, Applying, Refused, Reserved
<1>2. RouterType /\ RoutesKnown
  BY DEF Segments
<1>3. /\ plugin' \in Nat \ {0} /\ target' \in Nat
      /\ target' > 0 => <<plugin', target'>> \in Places
      /\ \A w \in Places : Before(w, <<plugin', target'>>) <=> Applied(w) \/ w = Place
  BY <1>1, <1>2, TurnPasses
<1>4. Place \in Places /\ TargetAt(Place) = Current /\ path \in Path
  <2>1. Place \in Places /\ config \in RouterConfig
    BY <1>1, <1>2 DEF RouterType
  <2>2. TargetAt(Place) = Current
    BY DEF TargetAt, Place, Current, Targets
  <2> QED BY <1>0, <2>1, <2>2, PlacesType DEF Target
<1>5. path # App /\ path \notin DOMAIN layers
  BY <1>1, <1>2, <1>4, RequestAssumption DEF RouterType
<1>6. ToSet(routes') = ToSet(routes) \cup {path} /\ routes' \in Seq(Path)
  BY <1>1, <1>2, <1>4 DEF ToSet, RouterType
<1>7. RouterType'
  <2>1. layers' \in [{Endpoint, App} \cup ToSet(routes') -> Seq(LayerRecord)]
    BY <1>1, <1>2, <1>6 DEF RouterType
  <2>2. config' \in RouterConfig
    BY <1>1, <1>2 DEF RouterType
  <2> QED BY <1>1, <1>3, <1>6, <2>1, <2>2, ConfigKept DEF RouterType, Place
<1>8. RoutesKnown'
  <2>1. \A w \in Places : Applied(w)' <=> Applied(w) \/ w = Place
    BY <1>3 DEF Applied, Place
  <2>2. /\ \A v \in Places : Applied(v) /\ TargetAt(v).type = "route" =>
                               TargetAt(v).path \in ToSet(routes)
        /\ \A p \in ToSet(routes) : p # Endpoint /\ \E v \in Places : Applied(v) /\ Routes(v, p)
    BY <1>2 DEF RoutesKnown
  <2>3. TargetAt(Place).path = path /\ TargetAt(Place).type = "route" /\ Routes(Place, path)
    BY <1>0, <1>1, <1>4 DEF Routes
  <2>4. \A v \in Places : Applied(v)' /\ TargetAt(v).type = "route" =>
                            TargetAt(v).path \in ToSet(routes')
    BY <1>6, <2>1, <2>2, <2>3
  <2>5. \A p \in ToSet(routes') :
          p # Endpoint /\ \E v \in Places : Applied(v)' /\ Routes(v, p)
    BY <1>1, <1>4, <1>6, <2>1, <2>2, <2>3
  <2> QED BY <1>1, <2>4, <2>5, ConfigKept DEF RoutesKnown
<1>9. ASSUME NEW p \in DOMAIN layers
      PROVE  SegmentBuilt(p)'
  <2>1. layers'[p] = layers[p]
    BY <1>1, <1>5
  <2>2. \A w \in DeclaredWraps(p) : w \in Places /\ w # Place
    BY <1>1, <1>4 DEF DeclaredWraps, Covers
  <2>3. SegmentBuilt(p)
    BY DEF Segments
  <2> QED BY <1>1, <1>3, <2>1, <2>2, <2>3, SegmentKept
<1>10. SegmentBuilt(path)'
  <2>1. layers'[path] = <<>>
    BY <1>1
  <2>2. ASSUME NEW w \in DeclaredWraps(path)
        PROVE  ~ Before(w, <<plugin', target'>>)
    <3>1. w \in Places /\ w # Place
      BY <1>1, <1>4 DEF DeclaredWraps, Covers
    <3>2. PICK v \in Places : Before(v, w) /\ Routes(v, path)
      BY <1>1, <1>5, <1>4 DEF DeclaredWraps, Covers
    <3>3. ~ Applied(v)
      BY <1>1, <1>2, <3>2 DEF RoutesKnown, Routes
    <3>4. Applied(w) => Applied(v)
      <4>1. /\ w[1] \in Nat /\ w[2] \in Nat /\ v[1] \in Nat /\ v[2] \in Nat
            /\ plugin \in Nat /\ target \in Nat
        BY <1>2, <3>1, <3>2, PlacesType DEF RouterType
      <4> QED BY <3>2, <4>1 DEF Applied, Before, Place
    <3> QED BY <1>3, <3>1, <3>3, <3>4
  <2>3. DeclaredWraps(path)' = DeclaredWraps(path)
    BY <1>1, ConfigKept
  <2>4. DOMAIN layers'[path] = {}
    BY <2>1
  <2> QED BY <2>2, <2>3, <2>4 DEF SegmentBuilt, OfPlugin, Applied, Place
<1>11. CatchesFirst'
  <2>1. layers'[Endpoint] = layers[Endpoint] /\ Endpoint' = Endpoint
    BY <1>1, <1>2, ConfigKept DEF RouterType
  <2> QED BY <1>1, <2>1 DEF Segments, CatchesFirst
<1>12. DOMAIN layers' = DOMAIN layers \cup {path}
  BY <1>1
<1> QED BY <1>7, <1>8, <1>9, <1>10, <1>11, <1>12 DEF Segments

LEMMA WrapBuilds ==
  ASSUME Segments, ApplyWrap, phase' # "refused"
  PROVE  Segments'
<1>1. /\ UNCHANGED <<config, routes>> /\ target > 0 /\ Advances
      /\ Current.type = "wrap"
      /\ layers' = [p \in DOMAIN layers |->
                      IF Wrapped(p)
                      THEN Append(layers[p], [kind |-> Current.op, of |-> <<plugin, target>>])
                      ELSE layers[p]]
  BY DEF ApplyWrap, Applying, Refused
<1>2. RouterType /\ RoutesKnown
  BY DEF Segments
<1>3. /\ plugin' \in Nat \ {0} /\ target' \in Nat
      /\ target' > 0 => <<plugin', target'>> \in Places
      /\ \A w \in Places : Before(w, <<plugin', target'>>) <=> Applied(w) \/ w = Place
  BY <1>1, <1>2, TurnPasses
<1>4. PICK here : here = Place
  OBVIOUS
<1>5. PICK new : new = [kind |-> Current.op, of |-> <<plugin, target>>]
  OBVIOUS
<1>6. /\ here \in Places /\ here = <<plugin, target>> /\ TargetAt(here) = Current
      /\ new \in LayerRecord /\ new.of = here /\ new.kind = TargetAt(here).op
      /\ new.of # <<0, 0>>
  <2>1. Place \in Places /\ config \in RouterConfig /\ plugin \in Nat \ {0} /\ target \in Nat
    BY <1>1, <1>2 DEF RouterType
  <2>2. TargetAt(Place) = Current
    BY DEF TargetAt, Place, Current, Targets
  <2>3. Current.op \in LayerKind
    <3>1. Current \in Target
      BY <2>1, <2>2, PlacesType
    <3>2. Current.op \in {"route", "wrap", "auth"}
      BY <3>1 DEF Target
    <3> QED BY <3>2 DEF LayerKind
  <2> QED BY <1>4, <1>5, <2>1, <2>2, <2>3 DEF Place, LayerRecord
<1>7. layers \in [{Endpoint, App} \cup ToSet(routes) -> Seq(LayerRecord)]
  BY <1>2 DEF RouterType
<1>8. \A p \in DOMAIN layers :
        layers'[p] = IF Wrapped(p) THEN Append(layers[p], new) ELSE layers[p]
  BY <1>1, <1>5
<1>9. /\ layers' \in [{Endpoint, App} \cup ToSet(routes) -> Seq(LayerRecord)]
      /\ DOMAIN layers' = DOMAIN layers
  BY <1>1, <1>6, <1>7, <1>5
<1>10. RouterType'
  <2>1. config' \in RouterConfig /\ routes' \in Seq(Path)
    BY <1>1, <1>2 DEF RouterType
  <2> QED BY <1>1, <1>3, <1>9, <2>1, ConfigKept DEF RouterType, Place
<1>11. RoutesKnown'
  <2>1. \A w \in Places : Applied(w)' <=> Applied(w) \/ w = here
    BY <1>3, <1>4 DEF Applied, Place
  <2>2. TargetAt(here).type # "route"
    BY <1>1, <1>6
  <2> QED BY <1>1, <1>2, <2>1, <2>2, ConfigKept DEF RoutesKnown, Routes
<1>12. ASSUME NEW p \in DOMAIN layers, ~ Wrapped(p)
       PROVE  SegmentBuilt(p)'
  <2>1. layers'[p] = layers[p]
    BY <1>8, <1>12
  <2>2. Current.path \notin {Star, p}
    BY <1>12 DEF Wrapped
  <2>3. \A w \in DeclaredWraps(p) : w \in Places /\ w # here
    BY <1>6, <2>2 DEF DeclaredWraps, Covers
  <2>4. SegmentBuilt(p)
    BY DEF Segments
  <2> QED BY <1>1, <1>3, <1>4, <2>1, <2>3, <2>4, SegmentKept
<1>13. ASSUME NEW p \in DOMAIN layers, Wrapped(p)
       PROVE  SegmentBuilt(p)'
  <2>1. layers[p] \in Seq(LayerRecord) /\ layers'[p] = Append(layers[p], new)
    BY <1>7, <1>8, <1>13
  <2>2. PICK n \in Nat : n = Len(layers[p]) /\ DOMAIN layers[p] = 1..n
    BY <2>1
  <2>3. /\ DOMAIN layers'[p] = 1..(n + 1)
        /\ \A k \in 1..n : layers'[p][k] = layers[p][k]
        /\ layers'[p][n + 1] = new
    BY <1>6, <2>1, <2>2
  <2>4. here \in DeclaredWraps(p)
    <3>1. TargetAt(here).type = "wrap" /\ TargetAt(here).path \in {Star, p}
      BY <1>1, <1>6, <1>13 DEF Wrapped
    <3>2. p \in {Endpoint, App} \/ \E v \in Places : Before(v, here) /\ Routes(v, p)
      <4>1. p \in {Endpoint, App} \/ p \in ToSet(routes)
        BY <1>7
      <4> QED BY <1>2, <1>4, <4>1 DEF RoutesKnown, Applied
    <3> QED BY <1>6, <3>1, <3>2 DEF DeclaredWraps, Covers
  <2>5. DeclaredWraps(p) \subseteq Places
    BY DEF DeclaredWraps
  <2>6. \A k \in 1..n : LayerFits(layers[p][k], p)
    BY <2>2 DEF Segments, SegmentBuilt
  <2>7. \A k \in 1..n : layers[p][k].of # <<0, 0>> =>
                          layers[p][k].of \in DeclaredWraps(p) /\ Before(layers[p][k].of, here)
    BY <1>4, <2>6 DEF LayerFits, Applied
  <2>8. ASSUME NEW k \in DOMAIN layers'[p]
        PROVE  LayerFits(layers[p][k], p)'
    <3>1. CASE k \in 1..n
      <4>1. LayerFits(layers[p][k], p) /\ layers'[p][k] = layers[p][k]
        BY <2>3, <2>6, <3>1
      <4> QED BY <1>1, <1>3, <2>5, <4>1, ConfigKept DEF LayerFits, Applied, Place, TargetAt
    <3>2. CASE k = n + 1
      <4>1. layers'[p][k] = new
        BY <2>3, <3>2
      <4> QED BY <1>1, <1>3, <1>4, <1>6, <2>4, <4>1, ConfigKept
              DEF LayerFits, Applied, Place, TargetAt
    <3> QED BY <2>2, <2>3, <3>1, <3>2
  <2>9. ASSUME NEW k \in OfPlugin(layers'[p]), NEW m \in OfPlugin(layers'[p]), k < m
        PROVE  Before(layers'[p][k].of, layers'[p][m].of)
    <3>1. k \in 1..n /\ m \in 1..(n + 1)
      BY <2>2, <2>3, <2>9 DEF OfPlugin
    <3>2. layers'[p][k] = layers[p][k] /\ layers[p][k].of # <<0, 0>>
      BY <2>3, <2>9, <3>1 DEF OfPlugin
    <3>3. CASE m \in 1..n
      <4>1. layers'[p][m] = layers[p][m] /\ layers[p][m].of # <<0, 0>>
        BY <2>3, <2>9, <3>3 DEF OfPlugin
      <4>2. k \in OfPlugin(layers[p]) /\ m \in OfPlugin(layers[p])
        BY <2>2, <3>1, <3>2, <3>3, <4>1 DEF OfPlugin
      <4> QED BY <2>9, <3>2, <4>1, <4>2 DEF Segments, SegmentBuilt
    <3>4. CASE m = n + 1
      BY <1>6, <2>3, <2>7, <3>1, <3>2, <3>4
    <3> QED BY <2>2, <3>1, <3>3, <3>4
  <2>10. ASSUME NEW w \in DeclaredWraps(p), Before(w, <<plugin', target'>>)
         PROVE  \E k \in DOMAIN layers'[p] : layers'[p][k].of = w
    <3>1. CASE w = here
      <4>1. n + 1 \in DOMAIN layers'[p] /\ layers'[p][n + 1].of = w
        BY <1>6, <2>2, <2>3, <3>1
      <4> QED BY <4>1
    <3>2. CASE w # here
      <4>1. Applied(w)
        BY <1>3, <1>4, <2>5, <2>10, <3>2
      <4>2. PICK k \in 1..n : layers[p][k].of = w
        BY <2>2, <4>1 DEF Segments, SegmentBuilt
      <4>3. k \in DOMAIN layers'[p] /\ layers'[p][k].of = w
        BY <2>2, <2>3, <4>2
      <4> QED BY <4>3
    <3> QED BY <3>1, <3>2
  <2>11. DeclaredWraps(p)' = DeclaredWraps(p)
    BY <1>1, ConfigKept
  <2> QED BY <2>8, <2>9, <2>10, <2>11 DEF SegmentBuilt, OfPlugin, Applied, Place
<1>14. CatchesFirst'
  <2>1. Endpoint' = Endpoint /\ config' = config
    BY <1>1, ConfigKept
  <2>2. ASSUME config.catchPanics
        PROVE  layers'[Endpoint] # <<>> /\ layers'[Endpoint][1].kind = "catchPanics"
    <3>1. layers[Endpoint] # <<>> /\ layers[Endpoint][1].kind = "catchPanics"
      BY <2>2 DEF Segments, CatchesFirst
    <3>2. layers[Endpoint] \in Seq(LayerRecord) /\ Endpoint \in DOMAIN layers
      BY <1>7
    <3>3. CASE Wrapped(Endpoint)
      <4>1. layers'[Endpoint] = Append(layers[Endpoint], new)
        BY <1>8, <3>2, <3>3
      <4> QED BY <1>6, <3>1, <3>2, <4>1
    <3>4. CASE ~ Wrapped(Endpoint)
      BY <1>8, <3>1, <3>2, <3>4
    <3> QED BY <3>3, <3>4
  <2> QED BY <2>1, <2>2 DEF CatchesFirst
<1> QED BY <1>9, <1>10, <1>11, <1>12, <1>13, <1>14 DEF Segments

(* Each step of the construction, and run_streamable_http.                 *)
LEMMA ConstructionBuilds ==
  ASSUME RouterBuilt,
         BuildMcpRouter \/ SkipPlugin \/ ResolvePlugin \/ ApplyRoute \/ ApplyWrap \/ Assemble
  PROVE  RouterBuilt'
<1>1. CASE BuildMcpRouter
  <2>1. UNCHANGED <<config, plugin, target, routes, layers>> /\ phase = "new"
        /\ phase' \in {"panicked", "plugins", "refused"}
    BY <1>1 DEF BuildMcpRouter
  <2>2. Segments /\ plugin' \in Nat \ {0} /\ target' \in Nat /\ target' = 0
    BY <2>1 DEF RouterBuilt, Segments, RouterType
  <2>3. \A w \in Places : Before(w, <<plugin', target'>>) <=> Applied(w)
    BY <2>1 DEF Applied, Place
  <2>4. Segments'
    BY <2>1, <2>2, <2>3, MovesOn
  <2> QED BY <2>1, <2>4 DEF RouterBuilt
<1>2. CASE SkipPlugin
  <2>1. /\ UNCHANGED <<config, phase, routes, layers>> /\ phase = "plugins"
        /\ target = 0 /\ target' = 0 /\ plugin' = plugin + 1
        /\ ~ config.plugins[plugin].router
    BY <1>2 DEF SkipPlugin
  <2>2. Segments /\ config \in RouterConfig /\ plugin \in Nat \ {0}
    BY <2>1 DEF RouterBuilt, Segments, RouterType
  <2>3. ASSUME NEW w \in Places
        PROVE  Before(w, <<plugin', target'>>) <=> Applied(w)
    <3>1. w[1] \in Nat /\ w[2] \in Nat /\ w[1] # plugin
      BY <2>1, <2>2, PlacesType
    <3>2. w[1] < plugin + 1 <=> w[1] < plugin
      BY <2>2, <3>1
    <3>3. ~ (w[2] < 0)
      BY <3>1
    <3> QED BY <2>1, <3>1, <3>2, <3>3 DEF Before, Applied, Place
  <2>4. plugin' \in Nat \ {0} /\ target' \in Nat /\ ~ (target' > 0)
    BY <2>1, <2>2
  <2>5. Segments'
    BY <2>1, <2>2, <2>3, <2>4, MovesOn
  <2> QED BY <2>1, <2>5 DEF RouterBuilt
<1>3. CASE ResolvePlugin
  <2>1. /\ UNCHANGED config /\ phase = "plugins" /\ target = 0
        /\ plugin <= Len(config.plugins) /\ config.plugins[plugin].router
        /\ \/ phase' = "refused"
           \/ /\ config.plugins[plugin].targets # <<>>
              /\ target' = 1 /\ UNCHANGED <<phase, plugin, routes, layers>>
    BY <1>3 DEF ResolvePlugin, Refused, Unusable
  <2>2. CASE phase' = "refused"
    BY <2>2 DEF RouterBuilt
  <2>3. CASE phase' # "refused"
    <3>1. /\ config.plugins[plugin].targets # <<>>
          /\ target' = 1 /\ UNCHANGED <<phase, plugin, routes, layers>>
      BY <2>1, <2>3
    <3>2. Segments /\ config \in RouterConfig /\ plugin \in Nat \ {0}
      BY <2>1 DEF RouterBuilt, Segments, RouterType
    <3>3. ASSUME NEW w \in Places
          PROVE  Before(w, <<plugin', target'>>) <=> Applied(w)
      <4>1. w[1] \in Nat /\ w[2] \in Nat \ {0}
        BY <3>2, PlacesType
      <4>2. ~ (w[2] < 1) /\ ~ (w[2] < 0)
        BY <4>1
      <4> QED BY <2>1, <3>1, <4>2 DEF Before, Applied, Place
    <3>4. <<plugin', target'>> \in Places
      <4>1. plugin \in DOMAIN config.plugins
        BY <2>1, <3>2 DEF RouterConfig
      <4>2. config.plugins[plugin] \in Plugin
        BY <3>2, <4>1 DEF RouterConfig
      <4>3. 1 \in DOMAIN config.plugins[plugin].targets
        BY <3>1, <4>2 DEF Plugin
      <4> QED BY <2>1, <3>1, <4>1, <4>3, IsPlace
    <3>5. plugin' \in Nat \ {0} /\ target' \in Nat
      BY <3>1, <3>2
    <3>6. Segments'
      BY <2>1, <3>1, <3>2, <3>3, <3>4, <3>5, MovesOn
    <3> QED BY <2>1, <3>1, <3>6 DEF RouterBuilt
  <2> QED BY <2>2, <2>3
<1>4. CASE ApplyRoute \/ ApplyWrap
  <2>1. phase = "plugins" /\ phase' \in {"plugins", "refused"}
    BY <1>4 DEF ApplyRoute, ApplyWrap, Applying, Refused
  <2>2. Segments
    BY <2>1 DEF RouterBuilt
  <2>3. phase' = "refused" \/ Segments'
    BY <1>4, <2>2, RouteBuilds, WrapBuilds
  <2> QED BY <2>1, <2>3 DEF RouterBuilt
<1>5. CASE Assemble
  <2>1. /\ UNCHANGED <<config, plugin, target, routes, layers>>
        /\ phase = "plugins" /\ phase' \in {"serving", "panicked"}
        /\ plugin > Len(config.plugins) /\ (phase' = "serving" => Merges)
    BY <1>5 DEF Assemble
  <2>2. Segments
    BY <2>1 DEF RouterBuilt
  <2>3. /\ plugin' \in Nat \ {0} /\ target' \in Nat
        /\ target' > 0 => <<plugin', target'>> \in Places
        /\ \A w \in Places : Before(w, <<plugin', target'>>) <=> Applied(w)
    BY <2>1, <2>2 DEF Segments, RouterType, Applied, Place
  <2>4. Segments'
    BY <2>1, <2>2, <2>3, MovesOn
  <2>5. Merges' = Merges
    BY <2>1 DEF Merges, Endpoint, MetadataPaths
  <2> QED BY <2>1, <2>4, <2>5 DEF RouterBuilt
<1> QED BY <1>1, <1>2, <1>3, <1>4, <1>5

(* A layer of two concatenated sequences is one of the first or the second. *)
LEMMA ConcatAt ==
  ASSUME NEW S, NEW s \in Seq(S), NEW t \in Seq(S)
  PROVE  /\ s \o t \in Seq(S) /\ Len(s) \in Nat /\ Len(t) \in Nat
         /\ Len(s \o t) = Len(s) + Len(t)
         /\ \A k \in 1..Len(s) : (s \o t)[k] = s[k]
         /\ \A k \in 1..Len(t) : (s \o t)[Len(s) + k] = t[k]
         /\ \A k \in 1..(Len(s) + Len(t)) :
              \/ k \in 1..Len(s)
              \/ k > Len(s) /\ k - Len(s) \in 1..Len(t) /\ (s \o t)[k] = t[k - Len(s)]
<1>1. /\ s \o t \in Seq(S) /\ Len(s) \in Nat /\ Len(t) \in Nat
      /\ Len(s \o t) = Len(s) + Len(t)
  OBVIOUS
<1>2. \A k \in 1..Len(s) : (s \o t)[k] = s[k]
  OBVIOUS
<1>3. \A k \in 1..Len(t) : (s \o t)[Len(s) + k] = t[k]
  OBVIOUS
<1>4. ASSUME NEW k \in 1..(Len(s) + Len(t)), k \notin 1..Len(s)
      PROVE  k > Len(s) /\ k - Len(s) \in 1..Len(t) /\ Len(s) + (k - Len(s)) = k
  BY <1>1, <1>4
<1> QED BY <1>1, <1>2, <1>3, <1>4

LEMMA GivenType ==
  ASSUME NEW condition \in BOOLEAN, NEW kind \in LayerKind
  PROVE  /\ BuiltIn(kind) \in LayerRecord
         /\ Given(condition, kind) \in Seq(LayerRecord)
         /\ Len(Given(condition, kind)) = IF condition THEN 1 ELSE 0
         /\ \A k \in 1..Len(Given(condition, kind)) : Given(condition, kind)[k] = BuiltIn(kind)
<1>1. BuiltIn(kind) \in LayerRecord
  BY DEF BuiltIn, LayerRecord
<1>2. CASE condition
  BY <1>1, <1>2 DEF Given
<1>3. CASE ~ condition
  BY <1>1, <1>3 DEF Given
<1> QED BY <1>1, <1>2, <1>3

LEMMA HardeningType ==
  ASSUME NEW c \in RouterConfig
  PROVE  /\ HardeningLayers(c) \in Seq(LayerRecord)
         /\ \A k \in DOMAIN HardeningLayers(c) :
              /\ HardeningLayers(c)[k].of = <<0, 0>>
              /\ HardeningLayers(c)[k].kind \in {"catchPanics", "sensitiveHeaders"}
         /\ c.catchPanics => /\ HardeningLayers(c) # <<>>
                             /\ HardeningLayers(c)[1].kind = "catchPanics"
<1> DEFINE s == Given(c.catchPanics, "catchPanics")
           t == Given(c.sanitize, "sensitiveHeaders")
<1>1. /\ s \in Seq(LayerRecord) /\ Len(s) = IF c.catchPanics THEN 1 ELSE 0
      /\ \A k \in 1..Len(s) : s[k] = BuiltIn("catchPanics")
  BY GivenType DEF RouterConfig, LayerKind
<1>2. /\ t \in Seq(LayerRecord)
      /\ \A k \in 1..Len(t) : t[k] = BuiltIn("sensitiveHeaders")
  BY GivenType DEF RouterConfig, LayerKind
<1>3. HardeningLayers(c) = s \o t
  BY DEF HardeningLayers
<1> HIDE DEF s, t
<1>4. /\ s \o t \in Seq(LayerRecord) /\ Len(s \o t) = Len(s) + Len(t)
      /\ \A k \in 1..Len(s) : (s \o t)[k] = s[k]
      /\ \A k \in 1..(Len(s) + Len(t)) :
              \/ k \in 1..Len(s)
              \/ k - Len(s) \in 1..Len(t) /\ (s \o t)[k] = t[k - Len(s)]
  BY <1>1, <1>2, ConcatAt
<1>5. \A k \in 1..Len(s \o t) : (s \o t)[k] \in {BuiltIn("catchPanics"), BuiltIn("sensitiveHeaders")}
  BY <1>1, <1>2, <1>4
<1>6. c.catchPanics => s \o t # <<>> /\ (s \o t)[1] = BuiltIn("catchPanics")
  <2> SUFFICES ASSUME c.catchPanics PROVE s \o t # <<>> /\ (s \o t)[1] = BuiltIn("catchPanics")
    OBVIOUS
  <2>1. Len(s) = 1 /\ 1 \in 1..Len(s)
    BY <1>1
  <2>2. (s \o t)[1] = BuiltIn("catchPanics")
    BY <1>1, <1>4, <2>1
  <2>3. Len(s \o t) # 0
    BY <1>2, <1>4, <2>1
  <2> QED BY <2>2, <2>3
<1>7. BuiltIn("catchPanics").kind = "catchPanics" /\ BuiltIn("catchPanics").of = <<0, 0>>
      /\ BuiltIn("sensitiveHeaders").kind = "sensitiveHeaders"
      /\ BuiltIn("sensitiveHeaders").of = <<0, 0>>
  BY DEF BuiltIn
<1>8. ASSUME NEW k \in DOMAIN (s \o t)
      PROVE  (s \o t)[k].of = <<0, 0>> /\ (s \o t)[k].kind \in {"catchPanics", "sensitiveHeaders"}
  <2>1. k \in 1..Len(s \o t)
    BY <1>4
  <2> QED BY <1>5, <1>7, <2>1
<1> QED BY <1>3, <1>4, <1>6, <1>7, <1>8

LEMMA StartBuilds ==
  ASSUME RouterBuilt, NEW c \in RouterConfig, StartRouter(c)
  PROVE  RouterBuilt'
<1>1. /\ phase = "off" /\ phase' = "new" /\ config' = c
      /\ UNCHANGED <<plugin, target, routes>>
      /\ layers' = [p \in {c.endpoint, App} |->
                      IF p = c.endpoint THEN HardeningLayers(c) ELSE <<>>]
  BY DEF StartRouter
<1>2. plugin' = 1 /\ target' = 0 /\ routes' = <<>>
  BY <1>1 DEF RouterBuilt
<1>3. Endpoint' = c.endpoint /\ c.endpoint # App
  BY <1>1, RequestAssumption DEF Endpoint, RouterConfig
<1>4. /\ layers'[c.endpoint] = HardeningLayers(c) /\ layers'[App] = <<>>
      /\ DOMAIN layers' = {c.endpoint, App}
  BY <1>1, <1>3
<1>5. RouterType'
  <2>1. ToSet(routes') = {} /\ routes' \in Seq(Path)
    BY <1>2 DEF ToSet
  <2>2. layers' \in [{c.endpoint, App} -> Seq(LayerRecord)]
    BY <1>1, HardeningType
  <2> QED BY <1>1, <1>2, <1>3, <2>1, <2>2 DEF RouterType
<1>6. ASSUME NEW w, w \in Places'
      PROVE  ~ Before(w, <<plugin', target'>>)
  <2>1. c.plugins \in Seq(Plugin)
    BY DEF RouterConfig
  <2>2. PICK i \in DOMAIN c.plugins : w \in {i} \X DOMAIN c.plugins[i].targets
    BY <1>1, <1>6 DEF Places
  <2>3. i \in Nat \ {0} /\ c.plugins[i] \in Plugin
    BY <2>1
  <2>4. w[1] \in Nat \ {0} /\ w[2] \in Nat
    BY <2>2, <2>3 DEF Plugin
  <2>5. ~ (w[1] < 1) /\ ~ (w[2] < 0)
    BY <2>4
  <2> QED BY <1>2, <2>5 DEF Before
<1>7. RoutesKnown'
  <2>1. ToSet(routes') = {}
    BY <1>2 DEF ToSet
  <2> QED BY <1>6, <2>1 DEF RoutesKnown, Applied, Place
<1>8. ASSUME NEW p \in {c.endpoint, App}
      PROVE  SegmentBuilt(p)'
  <2>1. \A w \in DeclaredWraps(p)' : ~ Before(w, <<plugin', target'>>)
    BY <1>6 DEF DeclaredWraps
  <2>2. CASE p = c.endpoint
    <3>1. layers'[p] = HardeningLayers(c)
      BY <1>4, <2>2
    <3>2. \A k \in DOMAIN layers'[p] :
            /\ layers'[p][k].of = <<0, 0>>
            /\ layers'[p][k].kind \in {"catchPanics", "sensitiveHeaders"}
      BY <3>1, HardeningType
    <3> QED BY <1>3, <2>1, <2>2, <3>2 DEF SegmentBuilt, LayerFits, OfPlugin, Applied, Place
  <2>3. CASE p = App
    <3>1. DOMAIN layers'[p] = {}
      BY <1>4, <2>3
    <3> QED BY <2>1, <3>1 DEF SegmentBuilt, OfPlugin, Applied, Place
  <2> QED BY <2>2, <2>3
<1>9. CatchesFirst'
  BY <1>1, <1>3, <1>4, HardeningType DEF CatchesFirst
<1>10. Segments'
  BY <1>4, <1>5, <1>7, <1>8, <1>9 DEF Segments
<1> QED BY <1>1, <1>2, <1>10 DEF RouterBuilt

-----------------------------------------------------------------------------
(* The layers that a request passes.                                       *)

GuardAt == IF config.auth THEN 2 ELSE 1

(* What admits a request comes first, the guard at its place, then what    *)
(* counts it, and the service is last.                                     *)
LEMMA AdmissionType ==
  ASSUME config \in RouterConfig
  PROVE  /\ Admission \in Seq(LayerRecord) /\ Len(Admission) \in Nat
         /\ Len(Admission) > GuardAt /\ GuardAt \in Nat \ {0}
         /\ config.auth => Admission[1] = BuiltIn("auth")
         /\ Admission[GuardAt] = BuiltIn("guard")
         /\ config.limitsBody => Admission[Len(Admission)] = BuiltIn("bodyLimit")
         /\ \A k \in 1..Len(Admission) :
              Admission[k] \in {BuiltIn("auth"), BuiltIn("guard"), BuiltIn("negotiation"),
                                BuiltIn("bodyLimit")}
<1> DEFINE a == Given(config.auth, "auth")
           g == <<BuiltIn("guard"), BuiltIn("negotiation")>>
           b == Given(config.limitsBody, "bodyLimit")
<1>1. /\ a \in Seq(LayerRecord) /\ Len(a) = IF config.auth THEN 1 ELSE 0
      /\ \A k \in 1..Len(a) : a[k] = BuiltIn("auth")
  BY GivenType DEF RouterConfig, LayerKind
<1>2. g \in Seq(LayerRecord) /\ Len(g) = 2
      /\ g[1] = BuiltIn("guard") /\ g[2] = BuiltIn("negotiation")
  <2>1. BuiltIn("guard") \in LayerRecord /\ BuiltIn("negotiation") \in LayerRecord
    BY DEF BuiltIn, LayerRecord, LayerKind
  <2> QED BY <2>1
<1>3. /\ b \in Seq(LayerRecord) /\ Len(b) = IF config.limitsBody THEN 1 ELSE 0
      /\ \A k \in 1..Len(b) : b[k] = BuiltIn("bodyLimit")
  BY GivenType DEF RouterConfig, LayerKind
<1>4. Admission = (a \o g) \o b
  BY DEF Admission
<1> HIDE DEF a, g, b
<1> DEFINE s == a \o g
<1>5. /\ s \in Seq(LayerRecord) /\ Len(s) = Len(a) + 2
      /\ \A k \in 1..Len(a) : s[k] = a[k]
      /\ \A k \in 1..2 : s[Len(a) + k] = g[k]
      /\ \A k \in 1..(Len(a) + 2) :
           k \in 1..Len(a) \/ (k - Len(a) \in 1..2 /\ s[k] = g[k - Len(a)])
  <2>1. a \in Seq(LayerRecord) /\ g \in Seq(LayerRecord)
    BY <1>1, <1>2
  <2>2. /\ s \in Seq(LayerRecord) /\ Len(s) = Len(a) + Len(g)
        /\ \A k \in 1..Len(a) : s[k] = a[k]
        /\ \A k \in 1..Len(g) : s[Len(a) + k] = g[k]
        /\ \A k \in 1..(Len(a) + Len(g)) :
             k \in 1..Len(a) \/ (k - Len(a) \in 1..Len(g) /\ s[k] = g[k - Len(a)])
    BY <2>1, ConcatAt
  <2>3. Len(g) = 2
    BY <1>2
  <2> HIDE DEF s
  <2> QED BY <2>2, <2>3
<1>5a. s \in Seq(LayerRecord) /\ b \in Seq(LayerRecord)
  BY <1>3, <1>5
<1> HIDE DEF s
<1>6. /\ s \o b \in Seq(LayerRecord) /\ Len(s \o b) = Len(s) + Len(b)
      /\ \A k \in 1..Len(s) : (s \o b)[k] = s[k]
      /\ \A k \in 1..Len(b) : (s \o b)[Len(s) + k] = b[k]
      /\ \A k \in 1..(Len(s) + Len(b)) :
           k \in 1..Len(s) \/ (k - Len(s) \in 1..Len(b) /\ (s \o b)[k] = b[k - Len(s)])
  BY <1>5a, ConcatAt
<1>7. Admission = s \o b
  BY <1>4 DEF s
<1>8. Len(a) = GuardAt - 1 /\ GuardAt \in {1, 2} /\ Len(b) \in {0, 1}
  BY <1>1, <1>3 DEF GuardAt
<1>9. Len(Admission) = GuardAt + 1 + Len(b)
  BY <1>5, <1>6, <1>7, <1>8
<1>10. config.auth => Admission[1] = BuiltIn("auth")
  <2> SUFFICES ASSUME config.auth PROVE Admission[1] = BuiltIn("auth")
    OBVIOUS
  <2>1. 1 \in 1..Len(a) /\ 1 \in 1..Len(s)
    BY <1>1, <1>5
  <2> QED BY <1>1, <1>5, <1>6, <1>7, <2>1
<1>11. Admission[GuardAt] = BuiltIn("guard")
  <2>1. GuardAt = Len(a) + 1 /\ GuardAt \in 1..Len(s) /\ 1 \in 1..2
    BY <1>5, <1>8
  <2> QED BY <1>2, <1>5, <1>6, <1>7, <2>1
<1>12. config.limitsBody => Admission[Len(Admission)] = BuiltIn("bodyLimit")
  <2> SUFFICES ASSUME config.limitsBody PROVE Admission[Len(Admission)] = BuiltIn("bodyLimit")
    OBVIOUS
  <2>1. 1 \in 1..Len(b) /\ Len(Admission) = Len(s) + 1
    BY <1>3, <1>6, <1>7
  <2> QED BY <1>3, <1>6, <1>7, <2>1
<1>13. ASSUME NEW k \in 1..Len(Admission)
       PROVE  Admission[k] \in {BuiltIn("auth"), BuiltIn("guard"), BuiltIn("negotiation"),
                                BuiltIn("bodyLimit")}
  <2>1. CASE k \in 1..Len(s)
    <3>1. Admission[k] = s[k]
      BY <1>6, <1>7, <2>1
    <3>2. CASE k \in 1..Len(a)
      BY <1>1, <1>5, <3>1, <3>2
    <3>3. CASE k - Len(a) \in 1..2 /\ s[k] = g[k - Len(a)]
      BY <1>2, <3>1, <3>3
    <3> QED BY <1>5, <2>1, <3>2, <3>3
  <2>2. CASE k - Len(s) \in 1..Len(b) /\ (s \o b)[k] = b[k - Len(s)]
    BY <1>3, <1>7, <2>2
  <2> QED BY <1>6, <1>7, <2>1, <2>2
<1>14. Len(Admission) > GuardAt /\ Len(Admission) \in Nat /\ GuardAt \in Nat \ {0}
  BY <1>8, <1>9
<1> QED BY <1>6, <1>7, <1>10, <1>11, <1>12, <1>13, <1>14

LEMMA LimitersType ==
  ASSUME config \in RouterConfig
  PROVE  /\ Limiters \in Seq(LayerRecord) /\ Len(Limiters) \in Nat
         /\ \A k \in 1..Len(Limiters) :
              Limiters[k] \in {BuiltIn("creationRate"), BuiltIn("rateLimit")}
<1> DEFINE s == Given(config.creationRate, "creationRate")
           t == Given(config.rateLimit = "on", "rateLimit")
<1>1. s \in Seq(LayerRecord) /\ \A k \in 1..Len(s) : s[k] = BuiltIn("creationRate")
  BY GivenType DEF RouterConfig, LayerKind
<1>2. t \in Seq(LayerRecord) /\ \A k \in 1..Len(t) : t[k] = BuiltIn("rateLimit")
  BY GivenType DEF LayerKind
<1>3. Limiters = s \o t
  BY DEF Limiters
<1> HIDE DEF s, t
<1>4. /\ s \o t \in Seq(LayerRecord) /\ Len(s \o t) = Len(s) + Len(t) /\ Len(s \o t) \in Nat
      /\ \A k \in 1..Len(s) : (s \o t)[k] = s[k]
      /\ \A k \in 1..(Len(s) + Len(t)) :
              \/ k \in 1..Len(s)
              \/ k - Len(s) \in 1..Len(t) /\ (s \o t)[k] = t[k - Len(s)]
  BY <1>1, <1>2, ConcatAt
<1> QED BY <1>1, <1>2, <1>3, <1>4

Admits(l) == l.kind \in {"auth", "guard", "negotiation", "bodyLimit"} /\ l.of = <<0, 0>>
Counts(l) == l.kind \in {"creationRate", "rateLimit"} /\ l.of = <<0, 0>>

LEMMA McpLayersType ==
  ASSUME config \in RouterConfig
  PROVE  /\ McpLayers \in Seq(LayerRecord) /\ Len(McpLayers) \in Nat
         /\ Len(Admission) \in Nat /\ Len(McpLayers) > Len(Admission)
         /\ \A k \in 1..Len(Admission) : McpLayers[k] = Admission[k] /\ Admits(Admission[k])
         /\ \A k \in 1..Len(McpLayers) :
              \/ k \in 1..Len(Admission)
              \/ k > Len(Admission) /\ k < Len(McpLayers) /\ Counts(McpLayers[k])
              \/ k > Len(Admission) /\ k = Len(McpLayers) /\ McpLayers[k] = BuiltIn("service")
<1>1. /\ Admission \in Seq(LayerRecord)
      /\ \A k \in 1..Len(Admission) : Admits(Admission[k])
  BY AdmissionType DEF Admits, BuiltIn
<1>2. /\ Limiters \in Seq(LayerRecord) /\ Len(Limiters) \in Nat
      /\ \A k \in 1..Len(Limiters) : Counts(Limiters[k])
  BY LimitersType DEF Counts, BuiltIn
<1> DEFINE e == <<BuiltIn("service")>>
<1>3. e \in Seq(LayerRecord) /\ Len(e) = 1 /\ e[1] = BuiltIn("service")
  BY DEF BuiltIn, LayerRecord, LayerKind
<1>4. McpLayers = Admission \o (Limiters \o e)
  BY DEF McpLayers
<1> HIDE DEF e
<1> DEFINE s == Limiters \o e
<1>5. /\ s \in Seq(LayerRecord) /\ Len(s) = Len(Limiters) + 1
      /\ \A k \in 1..Len(Limiters) : s[k] = Limiters[k]
      /\ s[Len(Limiters) + 1] = BuiltIn("service")
  <2>1. e \in Seq(LayerRecord) /\ Limiters \in Seq(LayerRecord)
    BY <1>2, <1>3
  <2>2. /\ s \in Seq(LayerRecord) /\ Len(s) = Len(Limiters) + Len(e)
        /\ \A k \in 1..Len(Limiters) : s[k] = Limiters[k]
        /\ \A k \in 1..Len(e) : s[Len(Limiters) + k] = e[k]
    BY <2>1, ConcatAt
  <2>3. 1 \in 1..Len(e)
    BY <1>3
  <2> HIDE DEF s
  <2> QED BY <1>3, <2>2, <2>3
<1>5a. Admission \in Seq(LayerRecord) /\ s \in Seq(LayerRecord)
  BY <1>1, <1>5
<1> HIDE DEF s
<1>6. /\ Admission \o s \in Seq(LayerRecord) /\ Len(Admission) \in Nat
      /\ Len(Admission \o s) = Len(Admission) + Len(s)
      /\ \A k \in 1..Len(Admission) : (Admission \o s)[k] = Admission[k]
      /\ \A k \in 1..(Len(Admission) + Len(s)) :
           \/ k \in 1..Len(Admission)
           \/ /\ k > Len(Admission) /\ k - Len(Admission) \in 1..Len(s)
              /\ (Admission \o s)[k] = s[k - Len(Admission)]
  BY <1>5a, ConcatAt
<1>7. McpLayers = Admission \o s
  BY <1>4 DEF s
<1>8. Len(McpLayers) = Len(Admission) + Len(Limiters) + 1
  BY <1>2, <1>5, <1>6, <1>7
<1>9. ASSUME NEW k \in 1..Len(McpLayers), k \notin 1..Len(Admission)
      PROVE  \/ k > Len(Admission) /\ k < Len(McpLayers) /\ Counts(McpLayers[k])
             \/ k > Len(Admission) /\ k = Len(McpLayers) /\ McpLayers[k] = BuiltIn("service")
  <2>1. /\ k > Len(Admission) /\ k - Len(Admission) \in 1..(Len(Limiters) + 1)
        /\ McpLayers[k] = s[k - Len(Admission)]
    BY <1>5, <1>6, <1>7, <1>9
  <2>2. CASE k - Len(Admission) \in 1..Len(Limiters)
    <3>1. k < Len(McpLayers)
      BY <1>2, <1>6, <1>8, <2>2
    <3> QED BY <1>2, <1>5, <2>1, <2>2, <3>1
  <2>3. CASE k - Len(Admission) = Len(Limiters) + 1
    <3>1. k = Len(McpLayers)
      BY <1>2, <1>6, <1>8, <2>3
    <3> QED BY <1>5, <2>1, <2>3, <3>1
  <2> QED BY <1>2, <2>1, <2>2, <2>3
<1>10. Len(McpLayers) > Len(Admission) /\ Len(McpLayers) \in Nat
  BY <1>2, <1>6, <1>8
<1> QED BY <1>1, <1>6, <1>7, <1>9, <1>10

(* Where a layer of a segment is from. *)
LEMMA ChainAt ==
  ASSUME Segments, NEW p \in DOMAIN layers
  PROVE  /\ Chain(p) \in Seq(LayerRecord) /\ Len(Chain(p)) \in Nat
         /\ Len(layers[p]) \in Nat /\ DOMAIN layers[p] = 1..Len(layers[p])
         /\ Innermost(p) \in Seq(LayerRecord) /\ Len(Innermost(p)) \in Nat \ {0}
         /\ Len(Chain(p)) = Len(layers[p]) + Len(Innermost(p))
         /\ \A k \in 1..Len(layers[p]) : Chain(p)[k] = layers[p][k]
         /\ \A k \in 1..Len(Innermost(p)) : Chain(p)[Len(layers[p]) + k] = Innermost(p)[k]
         /\ \A k \in 1..Len(Chain(p)) :
              \/ k \in 1..Len(layers[p])
              \/ /\ k > Len(layers[p]) /\ k - Len(layers[p]) \in 1..Len(Innermost(p))
                 /\ Chain(p)[k] = Innermost(p)[k - Len(layers[p])]
<1>1. layers[p] \in Seq(LayerRecord) /\ config \in RouterConfig
  BY DEF Segments, RouterType
<1>2. Innermost(p) \in Seq(LayerRecord) /\ Len(Innermost(p)) \in Nat \ {0}
  <2>1. CASE p = Endpoint
    <3>1. McpLayers \in Seq(LayerRecord) /\ Len(McpLayers) \in Nat \ {0}
      BY <1>1, McpLayersType
    <3> QED BY <2>1, <3>1 DEF Innermost
  <2>2. CASE p # Endpoint
    BY <2>2 DEF Innermost, BuiltIn, LayerRecord, LayerKind
  <2> QED BY <2>1, <2>2
<1>3. Chain(p) = layers[p] \o Innermost(p)
  BY DEF Chain
<1>4. DOMAIN layers[p] = 1..Len(layers[p])
  BY <1>1
<1> QED BY <1>1, <1>2, <1>3, <1>4, ConcatAt

LEMMA OwnLayers ==
  ASSUME Segments, NEW p \in DOMAIN layers, NEW k \in DOMAIN layers[p]
  PROVE  layers[p][k].kind \in {"catchPanics", "sensitiveHeaders", "route", "wrap", "auth"}
<1>1. LayerFits(layers[p][k], p) /\ config \in RouterConfig
  BY DEF Segments, SegmentBuilt, RouterType
<1>2. ASSUME NEW w \in DeclaredWraps(p)
      PROVE  TargetAt(w).op \in {"route", "wrap", "auth"}
  <2>1. TargetAt(w) \in Target
    BY <1>1, PlacesType DEF DeclaredWraps
  <2> QED BY <2>1 DEF Target
<1> QED BY <1>1, <1>2 DEF LayerFits

(* What counts requests, and the service, are behind the endpoint and      *)
(* behind what admits them; what answers on its own is last.               *)
LEMMA LayersInOrder ==
  ASSUME Segments, NEW p \in DOMAIN layers, NEW k \in 1..Len(Chain(p))
  PROVE  /\ Chain(p)[k].kind \in {"creationRate", "rateLimit", "service"} =>
              p = Endpoint /\ k > Len(layers[p]) + Len(Admission)
         /\ Chain(p)[k].kind \in {"service", "handler"} => k > Len(layers[p])
         /\ Chain(p)[k].kind \notin {"service", "handler"} => k < Len(Chain(p))
<1>1. config \in RouterConfig
  BY DEF Segments, RouterType
<1>2. /\ Len(layers[p]) \in Nat /\ Len(Innermost(p)) \in Nat \ {0}
      /\ DOMAIN layers[p] = 1..Len(layers[p])
      /\ Len(Chain(p)) = Len(layers[p]) + Len(Innermost(p))
  BY ChainAt
<1>3. CASE k \in 1..Len(layers[p])
  <2>1. Chain(p)[k] = layers[p][k]
    BY <1>3, ChainAt
  <2>2. Chain(p)[k].kind \in {"catchPanics", "sensitiveHeaders", "route", "wrap", "auth"}
    BY <1>2, <1>3, <2>1, OwnLayers
  <2>3. k < Len(Chain(p))
    BY <1>2, <1>3
  <2> QED BY <2>2, <2>3
<1>4. CASE k \notin 1..Len(layers[p])
  <2>1. /\ k > Len(layers[p]) /\ k - Len(layers[p]) \in 1..Len(Innermost(p))
        /\ Chain(p)[k] = Innermost(p)[k - Len(layers[p])]
    BY <1>4, ChainAt
  <2>2. PICK m \in 1..Len(Innermost(p)) : m = k - Len(layers[p])
    BY <2>1
  <2>3. Chain(p)[k] = Innermost(p)[m] /\ k = Len(layers[p]) + m
    BY <1>2, <2>1, <2>2
  <2>4. CASE p # Endpoint
    <3>1. Innermost(p) = <<BuiltIn("handler")>>
      BY <2>4 DEF Innermost
    <3>2. Chain(p)[k].kind = "handler"
      BY <2>3, <3>1 DEF BuiltIn
    <3> QED BY <2>1, <3>2
  <2>5. CASE p = Endpoint
    <3>1. Innermost(p) = McpLayers
      BY <2>5 DEF Innermost
    <3>2. Len(McpLayers) \in Nat /\ Len(Admission) \in Nat /\ m \in 1..Len(McpLayers)
      BY <1>1, <3>1, McpLayersType
    <3>3. CASE m \in 1..Len(Admission)
      <4>1. Admits(McpLayers[m]) /\ m < Len(McpLayers)
        BY <1>1, <3>3, McpLayersType
      <4>2. k < Len(Chain(p))
        BY <1>2, <2>3, <3>1, <3>2, <4>1
      <4> QED BY <2>3, <3>1, <4>1, <4>2 DEF Admits
    <3>4. CASE m > Len(Admission) /\ m < Len(McpLayers) /\ Counts(McpLayers[m])
      <4>1. k < Len(Chain(p)) /\ k > Len(layers[p]) + Len(Admission)
        BY <1>2, <2>3, <3>1, <3>2, <3>4
      <4> QED BY <2>3, <2>5, <3>1, <3>4, <4>1 DEF Counts
    <3>5. CASE m > Len(Admission) /\ McpLayers[m] = BuiltIn("service")
      <4>1. k > Len(layers[p]) + Len(Admission)
        BY <1>2, <2>3, <3>2, <3>5
      <4> QED BY <2>1, <2>3, <2>5, <3>1, <3>5, <4>1 DEF BuiltIn
    <3> QED BY <1>1, <3>2, <3>3, <3>4, <3>5, McpLayersType
  <2> QED BY <2>4, <2>5
<1> QED BY <1>3, <1>4

(* Behind the endpoint. *)
LEMMA EndpointLayers ==
  ASSUME Segments
  PROVE  LET n == Len(layers[Endpoint])
             chain == Chain(Endpoint) IN
         /\ Endpoint \in DOMAIN layers /\ n \in Nat /\ Len(Admission) \in Nat
         /\ GuardAt \in Nat \ {0} /\ GuardAt < Len(Admission)
         /\ config.auth => chain[n + 1].kind = "auth"
         /\ chain[n + GuardAt].kind = "guard"
         /\ config.limitsBody => chain[n + Len(Admission)].kind = "bodyLimit"
<1>1. config \in RouterConfig /\ Endpoint \in DOMAIN layers
  BY DEF Segments, RouterType
<1>2. PICK n : n = Len(layers[Endpoint])
  OBVIOUS
<1>3. n \in Nat
  BY <1>1, <1>2, ChainAt
<1>4. /\ GuardAt \in Nat \ {0} /\ GuardAt < Len(Admission) /\ Len(Admission) \in Nat
      /\ config.auth => Admission[1] = BuiltIn("auth")
      /\ Admission[GuardAt] = BuiltIn("guard")
      /\ config.limitsBody => Admission[Len(Admission)] = BuiltIn("bodyLimit")
  BY <1>1, AdmissionType
<1>5. ASSUME NEW k \in 1..Len(Admission)
      PROVE  Chain(Endpoint)[n + k] = Admission[k]
  <2>1. /\ Len(McpLayers) > Len(Admission) /\ Len(McpLayers) \in Nat
        /\ McpLayers[k] = Admission[k]
    BY <1>1, McpLayersType
  <2>2. Innermost(Endpoint) = McpLayers /\ k \in 1..Len(McpLayers)
    BY <1>4, <2>1 DEF Innermost
  <2> QED BY <1>1, <1>2, <2>1, <2>2, ChainAt
<1>6. 1 \in 1..Len(Admission) /\ GuardAt \in 1..Len(Admission) /\ Len(Admission) \in 1..Len(Admission)
  BY <1>4
<1> QED BY <1>1, <1>2, <1>3, <1>4, <1>5, <1>6 DEF BuiltIn

(* Each segment carries just the wraps that are declared for it. *)
LEMMA BuiltIsDeclared ==
  ASSUME RouterBuilt
  PROVE  WrapsAsDeclared
<1> SUFFICES ASSUME phase = "serving", NEW p \in DOMAIN layers
             PROVE  /\ {Chain(p)[k].of : k \in OfPlugin(Chain(p))} = DeclaredWraps(p)
                    /\ \A k, m \in OfPlugin(Chain(p)) :
                         k < m => Before(Chain(p)[k].of, Chain(p)[m].of)
                    /\ \A k \in OfPlugin(Chain(p)) :
                         Chain(p)[k].kind = TargetAt(Chain(p)[k].of).op
  BY DEF WrapsAsDeclared
<1>1. /\ Segments /\ SegmentBuilt(p) /\ config \in RouterConfig
      /\ plugin > Len(config.plugins) /\ plugin \in Nat
  BY DEF RouterBuilt, Segments, RouterType
<1>2. \A k \in DOMAIN layers[p] : k \in DOMAIN Chain(p) /\ Chain(p)[k] = layers[p][k]
  <2>1. /\ DOMAIN layers[p] = 1..Len(layers[p]) /\ Len(layers[p]) \in Nat
        /\ Chain(p) \in Seq(LayerRecord) /\ Len(Innermost(p)) \in Nat
        /\ Len(Chain(p)) = Len(layers[p]) + Len(Innermost(p))
        /\ \A k \in 1..Len(layers[p]) : Chain(p)[k] = layers[p][k]
    BY <1>1, ChainAt
  <2>2. DOMAIN Chain(p) = 1..Len(Chain(p))
    BY <2>1
  <2> QED BY <2>1, <2>2
<1>3. ASSUME NEW k \in OfPlugin(Chain(p))
      PROVE  k \in OfPlugin(layers[p])
  <2>1. k \in 1..Len(Chain(p)) /\ Chain(p)[k].of # <<0, 0>>
    BY <1>1, ChainAt DEF OfPlugin
  <2>2. CASE k \in 1..Len(layers[p])
    <3>1. k \in DOMAIN layers[p]
      BY <1>1, <2>2, ChainAt
    <3> QED BY <1>2, <2>1, <3>1 DEF OfPlugin
  <2>3. CASE /\ k - Len(layers[p]) \in 1..Len(Innermost(p))
             /\ Chain(p)[k] = Innermost(p)[k - Len(layers[p])]
    <3>1. CASE p = Endpoint
      <4>1. Innermost(p) = McpLayers
        BY <3>1 DEF Innermost
      <4>2. PICK m \in 1..Len(McpLayers) : Chain(p)[k] = McpLayers[m]
        BY <2>3, <4>1
      <4>3. McpLayers[m].of = <<0, 0>>
        BY <1>1, McpLayersType DEF Admits, Counts, BuiltIn
      <4> QED BY <2>1, <4>2, <4>3
    <3>2. CASE p # Endpoint
      <4>1. Innermost(p) = <<BuiltIn("handler")>>
        BY <3>2 DEF Innermost
      <4>2. Chain(p)[k] = BuiltIn("handler")
        BY <2>3, <4>1
      <4> QED BY <2>1, <4>2 DEF BuiltIn
    <3> QED BY <3>1, <3>2
  <2> QED BY <1>1, <2>1, <2>2, <2>3, ChainAt
<1>4. \A k \in OfPlugin(Chain(p)) :
        /\ k \in OfPlugin(layers[p]) /\ k \in DOMAIN layers[p]
        /\ Chain(p)[k] = layers[p][k] /\ LayerFits(layers[p][k], p)
        /\ layers[p][k].of # <<0, 0>>
  BY <1>1, <1>2, <1>3 DEF OfPlugin, SegmentBuilt
<1>5. \A k \in OfPlugin(Chain(p)) :
        Chain(p)[k].of \in DeclaredWraps(p) /\ Chain(p)[k].kind = TargetAt(Chain(p)[k].of).op
  BY <1>4 DEF LayerFits
<1>6. \A k, m \in OfPlugin(Chain(p)) : k < m => Before(Chain(p)[k].of, Chain(p)[m].of)
  BY <1>1, <1>4 DEF SegmentBuilt
<1>7. ASSUME NEW w \in DeclaredWraps(p)
      PROVE  \E k \in OfPlugin(Chain(p)) : Chain(p)[k].of = w
  <2>1. w \in Places
    BY DEF DeclaredWraps
  <2>2. w[1] \in Nat \ {0} /\ w[1] \in DOMAIN config.plugins
    BY <1>1, <2>1, PlacesType
  <2>3. w[1] < plugin
    BY <1>1, <2>2 DEF RouterConfig
  <2>4. Applied(w)
    BY <2>3 DEF Applied, Before, Place
  <2>5. PICK k \in DOMAIN layers[p] : layers[p][k].of = w
    BY <1>1, <2>4 DEF SegmentBuilt
  <2>6. w # <<0, 0>>
    BY <2>2
  <2> QED BY <1>2, <2>5, <2>6 DEF OfPlugin
<1> QED BY <1>5, <1>6, <1>7

-----------------------------------------------------------------------------
(* How a request passes.                                                   *)

Here == Segment(request.path)

Guard == Len(layers[Endpoint]) + GuardAt

Allowed == ~NotAllowed /\ ~ResumesInVain /\ ~LacksSession

(* A layer lets this request pass. *)
Lets(l) ==
  /\ l.kind = "auth" /\ config.enforced => request.token
  /\ l.kind = "guard" => Allowed
  /\ l.kind = "bodyLimit" => request.body # "declared"

(* The errors of a session, and what the guard makes of them. *)
SessionLost == {"session unknown", "session missing"}
Final(why) == IF why = "session unknown" THEN "404" ELSE "400"

(* A request on its way in has passed all layers before the one it is at. *)
Underway ==
  at > 0 =>
    /\ phase = "serving"
    /\ request \in RequestRecord
    /\ Here \in DOMAIN layers
    /\ at \in 1..Len(Chain(Here))
    /\ answer = NoAnswer => \A k \in 1..(at - 1) : Lets(Chain(Here)[k])

(* What an answer says, on its way out. *)
AnswerMeans ==
  /\ answer.status = "401" =>
       \/ answer.why = "token" /\ ~request.token
       \/ answer.why \in SessionLost /\ said.why = answer.why
  /\ said.why \in SessionLost /\ answer.why = said.why =>
       /\ Here = Endpoint
       /\ answer.status \in {"401", Final(said.why)}
       /\ at < Guard => answer.status = Final(said.why)
  /\ answer.status = "panic" /\ at = 0 => request.path # Endpoint \/ ~config.catchPanics

RequestKnown ==
  /\ at \in Nat
  /\ answer = NoAnswer => said = NoAnswer
  /\ phase # "serving" => at = 0 /\ answer = NoAnswer /\ spent = {}
  /\ Underway
  /\ OnlyAdmitted
  /\ AnswerMeans

(* While nothing is built, the layers are as they were. *)
LEMMA RouterStays ==
  ASSUME UNCHANGED building
  PROVE  /\ UNCHANGED <<config, phase, plugin, target, routes, layers>>
         /\ Endpoint' = Endpoint /\ Guard' = Guard
         /\ \A p : Chain(p)' = Chain(p) /\ Segment(p)' = Segment(p)
         /\ \A p : AuthWraps(p)' = AuthWraps(p)
         /\ RouterBuilt => RouterBuilt'
<1>1. UNCHANGED <<config, phase, plugin, target, routes, layers>>
  BY DEF building
<1>2. Endpoint' = Endpoint /\ Guard' = Guard
  BY <1>1 DEF Endpoint, Guard, GuardAt
<1>3. \A p : Chain(p)' = Chain(p)
  BY <1>1, <1>2 DEF Chain, Innermost, McpLayers, Admission, Limiters
<1>4. \A p : Segment(p)' = Segment(p)
  BY <1>1, <1>2 DEF Segment, MetadataPaths
<1>5. \A p : AuthWraps(p)' = AuthWraps(p)
  BY <1>1, ConfigKept DEF AuthWraps
<1>6. RouterBuilt => RouterBuilt'
  <2>1. Place' = Place /\ Merges' = Merges
    BY <1>1, <1>2 DEF Place, Merges, MetadataPaths
  <2>2. Segments => Segments'
    BY <1>1, MovesOn DEF Segments, RouterType, Applied, Place
  <2> QED BY <1>1, <2>1, <2>2 DEF RouterBuilt
<1> QED BY <1>1, <1>2, <1>3, <1>4, <1>5, <1>6

(* A layer may change what a request says of its version, nothing else.    *)
Same(q, r) ==
  /\ r \in RequestRecord
  /\ r.path = q.path /\ r.method = q.method /\ r.session = q.session
  /\ r.resumes = q.resumes /\ r.token = q.token /\ r.body = q.body

LEMMA SameRequest ==
  ASSUME UNCHANGED building, Same(request, request')
  PROVE  /\ Here' = Here /\ (Allowed' <=> Allowed)
         /\ \A l : Lets(l)' <=> Lets(l)
         /\ request'.path = request.path /\ request'.token = request.token
         /\ request'.body = request.body
<1>1. /\ request'.path = request.path /\ request'.token = request.token
      /\ request'.body = request.body /\ request'.method = request.method
      /\ request'.session = request.session /\ request'.resumes = request.resumes
  BY DEF Same
<1>2. UNCHANGED config /\ Here' = Here
  BY <1>1, RouterStays DEF Here, building
<1>3. Allowed' <=> Allowed
  BY <1>1, <1>2 DEF Allowed, NotAllowed, ResumesInVain, LacksSession
<1>4. \A l : Lets(l)' <=> Lets(l)
  BY <1>1, <1>2, <1>3 DEF Lets
<1> QED BY <1>1, <1>2, <1>3, <1>4

(* What a request has met, past what admits it.                            *)
LEMMA Admitted ==
  ASSUME Segments, Here = Endpoint, at \in Nat, at > Len(layers[Endpoint]) + Len(Admission),
         \A k \in 1..(at - 1) : Lets(Chain(Here)[k])
  PROVE  /\ config.auth /\ config.enforced => request.token
         /\ Allowed
         /\ config.limitsBody => request.body # "declared"
<1> DEFINE n == Len(layers[Endpoint])
<1>1. /\ n \in Nat /\ Len(Admission) \in Nat
      /\ GuardAt \in Nat \ {0} /\ GuardAt < Len(Admission)
      /\ config.auth => Chain(Endpoint)[n + 1].kind = "auth"
      /\ Chain(Endpoint)[n + GuardAt].kind = "guard"
      /\ config.limitsBody => Chain(Endpoint)[n + Len(Admission)].kind = "bodyLimit"
  BY EndpointLayers
<1>2. at > n + Len(Admission)
  OBVIOUS
<1> HIDE DEF n
<1>3. /\ n + 1 \in 1..(at - 1) /\ n + GuardAt \in 1..(at - 1)
      /\ n + Len(Admission) \in 1..(at - 1)
  BY <1>1, <1>2
<1> QED BY <1>1, <1>3 DEF Lets

LEMMA CatcherFirst ==
  ASSUME Segments, config.catchPanics
  PROVE  Chain(Endpoint)[1].kind = "catchPanics"
<1>1. /\ layers[Endpoint] # <<>> /\ layers[Endpoint][1].kind = "catchPanics"
      /\ Endpoint \in DOMAIN layers /\ layers[Endpoint] \in Seq(LayerRecord)
  BY DEF Segments, CatchesFirst, RouterType
<1>2. 1 \in 1..Len(layers[Endpoint])
  BY <1>1
<1> QED BY <1>1, <1>2, ChainAt

(* A layer that lets the request pass. *)
LEMMA PassKeeps ==
  ASSUME RouterBuilt, RequestKnown, UNCHANGED building, at > 0, answer = NoAnswer,
         at' = at + 1, Same(request, request'), UNCHANGED <<answer, said>>,
         Layer.kind \notin {"service", "handler"}, Lets(Layer),
         spent' = spent \/ Layer.kind \in {"creationRate", "rateLimit"}
  PROVE  RequestKnown'
<1>1. PICK here : here = Here
  OBVIOUS
<1>2. /\ phase = "serving" /\ here \in DOMAIN layers /\ at \in 1..Len(Chain(here))
      /\ \A k \in 1..(at - 1) : Lets(Chain(here)[k])
      /\ Layer = Chain(here)[at] /\ at \in Nat /\ said = NoAnswer
  BY <1>1 DEF RequestKnown, Underway, Layer, Here
<1>3. Segments /\ Merges
  BY <1>2 DEF RouterBuilt
<1>4. at < Len(Chain(here)) /\ Len(Chain(here)) \in Nat
  BY <1>2, <1>3, LayersInOrder, ChainAt
<1>5. /\ Here' = here /\ (Allowed' <=> Allowed) /\ \A l : Lets(l)' <=> Lets(l)
      /\ request'.path = request.path /\ request'.token = request.token
      /\ request'.body = request.body /\ request' \in RequestRecord
  BY <1>1, SameRequest DEF Same
<1>6. /\ UNCHANGED <<config, phase, layers>> /\ Endpoint' = Endpoint
      /\ \A p : Chain(p)' = Chain(p) /\ Segment(p)' = Segment(p)
  BY RouterStays
<1>7. Underway'
  <2>1. Chain(here)' = Chain(here) /\ Chain(Here)' = Chain(here)'
    BY <1>5, <1>6
  <2>2. at' \in 1..Len(Chain(here))
    BY <1>2, <1>4
  <2>3. \A k \in 1..(at' - 1) : Lets(Chain(here)[k])
    <3>1. \A k \in 1..(at' - 1) : k \in 1..(at - 1) \/ k = at
      BY <1>2
    <3> QED BY <1>2, <3>1
  <2>4. \A k \in 1..(at' - 1) : Lets(Chain(here)[k])'
    BY <1>5, <1>6, <2>3 DEF Lets
  <2> QED BY <1>2, <1>5, <1>6, <2>1, <2>2, <2>4 DEF Underway
<1>8. OnlyAdmitted'
  <2>1. said' = NoAnswer
    BY <1>2
  <2>2. ASSUME spent' # {}, request'.path = Endpoint
        PROVE  /\ config.auth /\ config.enforced => request.token
               /\ Allowed
               /\ config.limitsBody => request.body # "declared"
    <3>1. CASE spent' = spent
      BY <1>5, <2>2, <3>1 DEF RequestKnown, OnlyAdmitted, Allowed
    <3>2. CASE Layer.kind \in {"creationRate", "rateLimit"}
      <4>1. here = Endpoint /\ at > Len(layers[Endpoint]) + Len(Admission)
        BY <1>2, <1>3, <3>2, LayersInOrder
      <4> QED BY <1>1, <1>2, <1>3, <4>1, Admitted
    <3> QED BY <3>1, <3>2
  <2> QED BY <1>5, <1>6, <2>1, <2>2 DEF OnlyAdmitted, Allowed
<1>9. AnswerMeans'
  BY <1>2 DEF AnswerMeans, NoAnswer, Says, SessionLost
<1> QED BY <1>2, <1>6, <1>7, <1>8, <1>9 DEF RequestKnown

(* A layer that answers in the place of the service. *)
LEMMA AnswerKeeps ==
  ASSUME RouterBuilt, RequestKnown, UNCHANGED building, at > 0, answer = NoAnswer,
         NEW status, NEW why, Answers(status, why),
         status # "none", status = "401" => why = "token" /\ ~request.token,
         status = "panic" => Layer.kind = "wrap"
  PROVE  RequestKnown'
<1>1. PICK here : here = Here
  OBVIOUS
<1>2. /\ phase = "serving" /\ here \in DOMAIN layers /\ at \in 1..Len(Chain(here))
      /\ Layer = Chain(here)[at] /\ at \in Nat /\ said = NoAnswer
      /\ request \in RequestRecord
  BY <1>1 DEF RequestKnown, Underway, Layer, Here
<1>3. /\ answer' = Says(status, why) /\ at' = at - 1 /\ UNCHANGED <<request, spent, said>>
  BY DEF Answers
<1>4. /\ UNCHANGED <<config, phase, layers>> /\ Endpoint' = Endpoint
      /\ \A p : Chain(p)' = Chain(p) /\ Segment(p)' = Segment(p) /\ AuthWraps(p)' = AuthWraps(p)
  BY RouterStays
<1>5. answer' # NoAnswer /\ answer'.status = status /\ answer'.why = why
  BY <1>3 DEF NoAnswer, Says
<1>6. Segments /\ Merges
  BY <1>2 DEF RouterBuilt
<1>7. at' \in Nat /\ (at' > 0 => at' \in 1..Len(Chain(here)))
  BY <1>2, <1>3, <1>6, ChainAt
<1>8. Here' = here
  BY <1>1, <1>3, <1>4 DEF Here
<1>9. Underway'
  BY <1>2, <1>3, <1>4, <1>5, <1>7, <1>8 DEF Underway
<1>10. OnlyAdmitted'
  BY <1>2, <1>3, <1>4 DEF RequestKnown, OnlyAdmitted, NotAllowed, ResumesInVain, LacksSession
<1>11. AnswerMeans'
  <2>1. said'.why \notin SessionLost
    BY <1>2, <1>3 DEF NoAnswer, Says, SessionLost
  <2>2. ASSUME status = "panic", at' = 0, request.path = Endpoint, config.catchPanics
        PROVE  FALSE
    <3>1. at = 1 /\ Layer.kind = "wrap"
      BY <1>2, <1>3, <2>2
    <3>2. here = Endpoint
      BY <1>1, <1>6, <2>2 DEF Here, Segment, Merges
    <3> QED BY <1>2, <1>6, <2>2, <3>1, <3>2, CatcherFirst
  <2> QED BY <1>3, <1>4, <1>5, <2>1, <2>2 DEF AnswerMeans
<1> QED BY <1>2, <1>3, <1>4, <1>5, <1>7, <1>9, <1>10, <1>11 DEF RequestKnown

(* The service or a plugin's handler answers. *)
LEMMA ServiceKeeps ==
  ASSUME RouterBuilt, RequestKnown, UNCHANGED building, at > 0, answer = NoAnswer,
         NEW a, InnermostAnswers(a), Layer.kind \in {"service", "handler"},
         a.status # "none", a.status = "401" => a.why \in SessionLost,
         a.why \in SessionLost => a.status = "401" /\ Layer.kind = "service"
  PROVE  RequestKnown'
<1>1. PICK here : here = Here
  OBVIOUS
<1>2. /\ phase = "serving" /\ here \in DOMAIN layers /\ at \in 1..Len(Chain(here))
      /\ \A k \in 1..(at - 1) : Lets(Chain(here)[k])
      /\ Layer = Chain(here)[at] /\ at \in Nat /\ request \in RequestRecord
  BY <1>1 DEF RequestKnown, Underway, Layer, Here
<1>3. answer' = a /\ said' = a /\ at' = at - 1 /\ UNCHANGED <<request, spent>>
  BY DEF InnermostAnswers
<1>4. /\ UNCHANGED <<config, phase, layers>> /\ Endpoint' = Endpoint /\ Guard' = Guard
      /\ \A p : Chain(p)' = Chain(p) /\ Segment(p)' = Segment(p) /\ AuthWraps(p)' = AuthWraps(p)
  BY RouterStays
<1>5. answer' # NoAnswer
  BY <1>3 DEF NoAnswer, Says
<1>6. Segments /\ Merges /\ WrapsAsDeclared
  BY <1>2, BuiltIsDeclared DEF RouterBuilt
<1>7. at' \in Nat /\ (at' > 0 => at' \in 1..Len(Chain(here)))
  BY <1>2, <1>3, <1>6, ChainAt
<1>8. Here' = here
  BY <1>1, <1>3, <1>4 DEF Here
<1>9. Underway'
  BY <1>2, <1>3, <1>4, <1>5, <1>7, <1>8 DEF Underway
<1>10. request.path = Endpoint => here = Endpoint
  BY <1>1, <1>6 DEF Here, Segment, Merges
<1>11. ~ (here = Endpoint /\ Layer.kind = "handler")
  <2> SUFFICES ASSUME here = Endpoint, Layer.kind = "handler" PROVE FALSE
    OBVIOUS
  <2>1. at > Len(layers[here])
    BY <1>2, <1>6, LayersInOrder
  <2>2. /\ at - Len(layers[here]) \in 1..Len(Innermost(here))
        /\ Chain(here)[at] = Innermost(here)[at - Len(layers[here])]
    BY <1>2, <1>6, <2>1, ChainAt
  <2>3. Innermost(here) = McpLayers /\ config \in RouterConfig
    BY <1>6 DEF Innermost, Segments, RouterType
  <2>4. PICK m \in 1..Len(McpLayers) : Chain(here)[at] = McpLayers[m]
    BY <2>2, <2>3
  <2>5. McpLayers[m].kind # "handler"
    BY <2>3, McpLayersType DEF Admits, Counts, BuiltIn
  <2> QED BY <1>2, <2>4, <2>5
<1>12. ASSUME here = Endpoint
       PROVE  /\ config.auth /\ config.enforced => request.token
              /\ Allowed
              /\ config.limitsBody => request.body # "declared"
              /\ at > Len(layers[Endpoint]) + Len(Admission)
  <2>1. Layer.kind = "service"
    BY <1>11, <1>12
  <2>2. at > Len(layers[Endpoint]) + Len(Admission)
    BY <1>2, <1>6, <1>12, <2>1, LayersInOrder
  <2> QED BY <1>1, <1>2, <1>6, <1>12, <2>2, Admitted
<1>13. AuthWraps(Segment(request.path)) /\ config.enforced => request.token
  <2> SUFFICES ASSUME AuthWraps(here), config.enforced PROVE request.token
    BY <1>1 DEF Here
  <2>1. PICK w \in DeclaredWraps(here) : TargetAt(w).op = "auth"
    BY DEF AuthWraps
  <2>2. w \in {Chain(here)[k].of : k \in OfPlugin(Chain(here))}
    BY <1>2, <1>6 DEF WrapsAsDeclared
  <2>3. PICK k \in OfPlugin(Chain(here)) : Chain(here)[k].of = w
    BY <2>2
  <2>4. Chain(here)[k].kind = "auth"
    BY <1>2, <1>6, <2>1, <2>3 DEF WrapsAsDeclared
  <2>5. k \in 1..Len(Chain(here)) /\ Chain(here)[k].of # <<0, 0>>
    BY <1>2, <1>6, <2>3, ChainAt DEF OfPlugin
  <2>6. k \in 1..(at - 1)
    <3>1. at > Len(layers[here]) /\ Len(layers[here]) \in Nat
      BY <1>2, <1>6, LayersInOrder, ChainAt
    <3>2. k \in 1..Len(layers[here])
      <4> SUFFICES ASSUME k - Len(layers[here]) \in 1..Len(Innermost(here)),
                          Chain(here)[k] = Innermost(here)[k - Len(layers[here])]
                   PROVE  FALSE
        BY <1>2, <1>6, <2>5, ChainAt
      <4>1. config \in RouterConfig
        BY <1>6 DEF Segments, RouterType
      <4>2. CASE here = Endpoint
        <5>1. Innermost(here) = McpLayers
          BY <4>2 DEF Innermost
        <5>2. PICK m \in 1..Len(McpLayers) : Chain(here)[k] = McpLayers[m]
          BY <5>1
        <5>3. McpLayers[m].of = <<0, 0>>
          BY <4>1, McpLayersType DEF Admits, Counts, BuiltIn
        <5> QED BY <2>5, <5>2, <5>3
      <4>3. CASE here # Endpoint
        <5>1. Innermost(here) = <<BuiltIn("handler")>>
          BY <4>3 DEF Innermost
        <5>2. Chain(here)[k] = BuiltIn("handler")
          BY <5>1
        <5> QED BY <2>4, <5>2 DEF BuiltIn
      <4> QED BY <4>2, <4>3
    <3> QED BY <1>2, <3>1, <3>2
  <2> QED BY <1>2, <2>4, <2>6 DEF Lets
<1>14. OnlyAdmitted'
  BY <1>3, <1>4, <1>10, <1>12, <1>13
     DEF OnlyAdmitted, Allowed, NotAllowed, ResumesInVain, LacksSession
<1>15. AnswerMeans'
  <2>1. ASSUME a.why \in SessionLost
        PROVE  here = Endpoint /\ ~ (at' < Guard)
    <3>1. here = Endpoint
      BY <1>2, <1>6, <2>1, LayersInOrder
    <3>2. PICK n : n = Len(layers[Endpoint])
      OBVIOUS
    <3>3. /\ at > n + Len(Admission) /\ n \in Nat /\ Len(Admission) \in Nat
          /\ GuardAt \in Nat /\ GuardAt < Len(Admission)
      BY <1>6, <1>12, <3>1, <3>2, EndpointLayers
    <3>4. Guard = n + GuardAt
      BY <3>2 DEF Guard
    <3> QED BY <1>2, <1>3, <3>1, <3>3, <3>4
  <2>2. ASSUME a.status = "panic", at' = 0, request.path = Endpoint, config.catchPanics
        PROVE  FALSE
    <3>1. at = 1 /\ here = Endpoint
      BY <1>2, <1>3, <1>10, <2>2
    <3> QED BY <1>2, <1>6, <2>2, <3>1, CatcherFirst
  <2> QED BY <1>3, <1>4, <1>8, <2>1, <2>2 DEF AnswerMeans
<1> QED BY <1>2, <1>4, <1>5, <1>7, <1>9, <1>14, <1>15 DEF RequestKnown

LEMMA OutwardKeeps ==
  ASSUME RouterBuilt, RequestKnown, Outward
  PROVE  RequestKnown'
<1>1. PICK here : here = Here
  OBVIOUS
<1>2. /\ at > 0 /\ answer # NoAnswer /\ at' = at - 1 /\ UNCHANGED <<request, spent, said>>
      /\ UNCHANGED building
      /\ answer' = CASE Layer.kind = "guard" -> Remapped(answer)
                     [] Layer.kind = "catchPanics" -> Caught(answer)
                     [] OTHER -> answer
  BY DEF Outward
<1>3. /\ phase = "serving" /\ here \in DOMAIN layers /\ at \in 1..Len(Chain(here))
      /\ Layer = Chain(here)[at] /\ at \in Nat /\ request \in RequestRecord
  BY <1>1, <1>2 DEF RequestKnown, Underway, Layer, Here
<1>4. /\ UNCHANGED <<config, phase, layers>> /\ Endpoint' = Endpoint /\ Guard' = Guard
      /\ \A p : Chain(p)' = Chain(p) /\ Segment(p)' = Segment(p) /\ AuthWraps(p)' = AuthWraps(p)
  BY <1>2, RouterStays
<1>5. Segments /\ Merges
  BY <1>3 DEF RouterBuilt
<1>6. at' \in Nat /\ (at' > 0 => at' \in 1..Len(Chain(here)))
  BY <1>2, <1>3, <1>5, ChainAt
<1>7. Here' = here
  BY <1>1, <1>2, <1>4 DEF Here
<1>8. \/ Layer.kind = "guard" /\ answer' = Remapped(answer)
      \/ Layer.kind = "catchPanics" /\ answer' = Caught(answer)
      \/ Layer.kind \notin {"guard", "catchPanics"} /\ answer' = answer
  BY <1>2
<1>9. answer' # NoAnswer
  BY <1>2, <1>8 DEF Remapped, Caught, Says, NoAnswer
<1>10. Underway'
  BY <1>2, <1>3, <1>4, <1>6, <1>7, <1>9 DEF Underway
<1>11. OnlyAdmitted'
  BY <1>2, <1>4 DEF RequestKnown, OnlyAdmitted, NotAllowed, ResumesInVain, LacksSession
<1>12. /\ answer'.why = answer.why
       /\ answer'.status = "panic" => answer.status = "panic" /\ Layer.kind # "catchPanics"
       /\ answer'.status = "401" => answer.status = "401"
       /\ answer.why \in SessionLost /\ answer.status \in {"401", Final(answer.why)} =>
            /\ answer'.status \in {"401", Final(answer.why)}
            /\ answer.status = Final(answer.why) \/ Layer.kind = "guard" =>
                 answer'.status = Final(answer.why)
  <2>1. CASE Layer.kind = "guard" /\ answer' = Remapped(answer)
    <3>1. CASE answer.status = "401" /\ answer.why = "session missing"
      <4>1. answer'.why = answer.why /\ answer'.status = "400"
        BY <2>1, <3>1 DEF Remapped, Says
      <4> QED BY <3>1, <4>1 DEF SessionLost, Final
    <3>2. CASE answer.status = "401" /\ answer.why = "session unknown"
      <4>1. answer'.why = answer.why /\ answer'.status = "404"
        BY <2>1, <3>2 DEF Remapped, Says
      <4> QED BY <3>2, <4>1 DEF SessionLost, Final
    <3>3. CASE ~ (answer.status = "401" /\ answer.why \in SessionLost)
      <4>1. answer' = answer
        BY <2>1, <3>3 DEF Remapped, SessionLost
      <4> QED BY <2>1, <3>3, <4>1
    <3> QED BY <3>1, <3>2, <3>3 DEF SessionLost
  <2>2. CASE Layer.kind = "catchPanics" /\ answer' = Caught(answer)
    <3>1. CASE answer.status = "panic"
      <4>1. answer'.why = answer.why /\ answer'.status = "500"
        BY <2>2, <3>1 DEF Caught, Says
      <4> QED BY <3>1, <4>1 DEF Final
    <3>2. CASE answer.status # "panic"
      BY <2>2, <3>2 DEF Caught
    <3> QED BY <3>1, <3>2
  <2>3. CASE Layer.kind \notin {"guard", "catchPanics"} /\ answer' = answer
    BY <2>3
  <2> QED BY <1>8, <2>1, <2>2, <2>3
<1>13. AnswerMeans'
  <2>1. AnswerMeans
    BY DEF RequestKnown
  <2>2. ASSUME said.why \in SessionLost, answer'.why = said.why
        PROVE  /\ here = Endpoint
               /\ answer'.status \in {"401", Final(said.why)}
               /\ at' < Guard => answer'.status = Final(said.why)
    <3>1. /\ here = Endpoint /\ answer.status \in {"401", Final(said.why)}
          /\ at < Guard => answer.status = Final(said.why)
      BY <1>1, <1>12, <2>1, <2>2 DEF AnswerMeans
    <3>2. ASSUME at' < Guard PROVE answer.status = Final(said.why) \/ Layer.kind = "guard"
      <4>1. PICK n : n = Len(layers[Endpoint])
        OBVIOUS
      <4>2. n \in Nat /\ GuardAt \in Nat /\ Chain(Endpoint)[n + GuardAt].kind = "guard"
        BY <1>5, <4>1, EndpointLayers
      <4>3. at < n + GuardAt \/ at = n + GuardAt
        BY <1>2, <1>3, <3>2, <4>1, <4>2 DEF Guard
      <4>4. CASE at < n + GuardAt
        BY <3>1, <4>1, <4>4 DEF Guard
      <4>5. CASE at = n + GuardAt
        BY <1>3, <3>1, <4>2, <4>5
      <4> QED BY <4>3, <4>4, <4>5
    <3> QED BY <1>12, <2>2, <3>1, <3>2
  <2>3. ASSUME answer'.status = "panic", at' = 0, request.path = Endpoint, config.catchPanics
        PROVE  FALSE
    <3>1. here = Endpoint /\ at = 1
      BY <1>1, <1>2, <1>3, <1>5, <2>3 DEF Here, Segment, Merges
    <3> QED BY <1>3, <1>5, <1>12, <2>3, <3>1, CatcherFirst
  <2>4. answer'.status = "401" =>
          \/ answer'.why = "token" /\ ~request.token
          \/ answer'.why \in SessionLost /\ said.why = answer'.why
    BY <1>12, <2>1 DEF AnswerMeans
  <2> QED BY <1>2, <1>4, <1>7, <2>2, <2>3, <2>4 DEF AnswerMeans
<1> QED BY <1>3, <1>4, <1>6, <1>9, <1>10, <1>11, <1>13 DEF RequestKnown

LEMMA ArriveKeeps ==
  ASSUME RouterBuilt, RequestKnown, NEW q \in Request, Arrive(q)
  PROVE  RequestKnown'
<1>1. /\ phase = "serving" /\ Segment(q.path) \in DOMAIN layers
      /\ request' = q /\ at' = 1 /\ answer' = NoAnswer /\ spent' = {} /\ said' = NoAnswer
      /\ UNCHANGED building
  BY DEF Arrive
<1>2. /\ UNCHANGED <<config, phase, layers>>
      /\ \A p : Chain(p)' = Chain(p) /\ Segment(p)' = Segment(p)
  BY <1>1, RouterStays
<1>3. PICK here : here = Segment(q.path)
  OBVIOUS
<1>4. Here' = here /\ here \in DOMAIN layers
  BY <1>1, <1>2, <1>3 DEF Here
<1>5. Segments
  BY <1>1 DEF RouterBuilt
<1>6. 1 \in 1..Len(Chain(here))
  BY <1>4, <1>5, ChainAt
<1>7. q \in RequestRecord
  BY RequestAssumption
<1>8. Underway'
  <2>1. 1..(at' - 1) = {}
    BY <1>1
  <2> QED BY <1>1, <1>2, <1>4, <1>6, <1>7, <2>1 DEF Underway
<1>9. OnlyAdmitted'
  BY <1>1 DEF OnlyAdmitted
<1>10. AnswerMeans'
  BY <1>1 DEF AnswerMeans, NoAnswer, Says, SessionLost
<1> QED BY <1>1, <1>2, <1>8, <1>9, <1>10 DEF RequestKnown

LEMMA OtherAnswer ==
  ASSUME NEW status \in {"200", "400", "405", "413", "500", "panic"},
         NEW why \in {"length", "version", "done", "method", "created", "refused", "plugin"}
  PROVE  /\ Says(status, why).why \notin SessionLost
         /\ Says(status, why).status \notin {"none", "401"}
<1>1. Says(status, why).why = why /\ Says(status, why).status = status
  BY DEF Says
<1> QED BY <1>1 DEF SessionLost

(* Each layer that a request meets. *)
LEMMA InwardKeeps ==
  ASSUME RouterBuilt, RequestKnown, Inward
  PROVE  RequestKnown'
<1>1. at > 0 /\ answer = NoAnswer /\ UNCHANGED building
  BY DEF Inward
<1>2. request \in RequestRecord /\ Same(request, request)
  BY <1>1 DEF RequestKnown, Underway, Same
<1>3. ASSUME Passes, Layer.kind \notin {"service", "handler"}, Lets(Layer)
      PROVE  RequestKnown'
  BY <1>1, <1>2, <1>3, PassKeeps DEF Passes
<1>4. CASE AuthLayer
  <2>1. CASE request.token \/ ~config.enforced
    <3>1. Passes /\ Layer.kind = "auth"
      BY <1>4, <2>1 DEF AuthLayer
    <3> QED BY <1>3, <2>1, <3>1 DEF Lets
  <2>2. CASE ~ (request.token \/ ~config.enforced)
    <3>1. Answers("401", "token")
      BY <1>4, <2>2 DEF AuthLayer
    <3> QED BY <1>1, <2>2, <3>1, AnswerKeeps
  <2> QED BY <2>1, <2>2
<1>5. CASE GuardLayer
  <2>1. CASE Answers("405", "method")
    BY <1>1, <2>1, AnswerKeeps
  <2>2. CASE Answers("400", "resumption")
    BY <1>1, <2>2, AnswerKeeps
  <2>3. CASE Answers("400", "session missing")
    BY <1>1, <2>3, AnswerKeeps
  <2>4. CASE Allowed /\ Passes
    <3>1. Layer.kind = "guard"
      BY <1>5 DEF GuardLayer
    <3> QED BY <1>3, <2>4, <3>1 DEF Lets
  <2> QED BY <1>5, <2>1, <2>2, <2>3, <2>4 DEF GuardLayer, Allowed
<1>6. CASE NegotiationLayer
  <2>1. /\ Layer.kind = "negotiation" /\ at' = at + 1 /\ UNCHANGED <<answer, spent, said>>
        /\ request' = request \/ request' = [request EXCEPT !.version = "none"]
    BY <1>6 DEF NegotiationLayer
  <2>2. Same(request, request')
    BY <1>2, <2>1 DEF Same, RequestRecord
  <2>3. Lets(Layer) /\ Layer.kind \notin {"service", "handler"}
    BY <2>1 DEF Lets
  <2> QED BY <1>1, <2>1, <2>2, <2>3, PassKeeps
<1>7. CASE BodyLimitLayer
  <2>1. CASE request.body = "declared"
    <3>1. Answers("413", "length")
      BY <1>7, <2>1 DEF BodyLimitLayer
    <3> QED BY <1>1, <3>1, AnswerKeeps
  <2>2. CASE request.body # "declared"
    <3>1. Passes /\ Layer.kind = "bodyLimit"
      BY <1>7, <2>2 DEF BodyLimitLayer
    <3> QED BY <1>3, <2>2, <3>1 DEF Lets
  <2> QED BY <2>1, <2>2
<1>8. CASE LimiterLayer
  <2>1. Layer.kind \in {"creationRate", "rateLimit"}
    BY <1>8 DEF LimiterLayer
  <2>2. Lets(Layer) /\ Layer.kind \notin {"service", "handler"}
    BY <2>1 DEF Lets
  <2>3. CASE Passes
    BY <1>3, <2>2, <2>3
  <2>4. CASE DrawsOn(Layer.kind)
    <3>1. at' = at + 1 /\ UNCHANGED <<request, answer, said>>
      BY <2>4 DEF DrawsOn
    <3>2. Same(request, request')
      BY <1>2, <3>1
    <3> QED BY <1>1, <2>1, <2>2, <3>1, <3>2, PassKeeps
  <2>5. CASE Answers("429", "rate")
    BY <1>1, <2>5, AnswerKeeps
  <2> QED BY <1>8, <2>3, <2>4, <2>5 DEF LimiterLayer
<1>9. CASE QuietLayer
  <2>1. Passes /\ Layer.kind \in {"catchPanics", "sensitiveHeaders"}
    BY <1>9 DEF QuietLayer
  <2>2. Lets(Layer) /\ Layer.kind \notin {"service", "handler"}
    BY <2>1 DEF Lets
  <2> QED BY <1>3, <2>1, <2>2
<1>10. CASE PluginLayer
  <2>1. Layer.kind = "wrap"
    BY <1>10 DEF PluginLayer
  <2>2. CASE Passes
    <3>1. Lets(Layer) /\ Layer.kind \notin {"service", "handler"}
      BY <2>1 DEF Lets
    <3> QED BY <1>3, <2>2, <3>1
  <2>3. CASE Answers("200", "plugin")
    BY <1>1, <2>3, AnswerKeeps
  <2>4. CASE Answers("panic", "plugin")
    BY <1>1, <2>1, <2>4, AnswerKeeps
  <2> QED BY <1>10, <2>2, <2>3, <2>4 DEF PluginLayer
<1>11. CASE Service
  <2>1. ASSUME NEW a, InnermostAnswers(a), Layer.kind = "service",
               a = Says("413", "length") \/ a \in ServiceAnswers
        PROVE  RequestKnown'
    <3>1. \/ a.why \notin SessionLost /\ a.status \notin {"none", "401"}
          \/ a.why \in SessionLost /\ a.status = "401"
      <4>1. a \in {Says("413", "length"), Says("400", "version"), Says("200", "done"),
                    Says("405", "method"), Says("200", "created"), Says("500", "refused")}
              \cup {Says("401", "session unknown"), Says("401", "session missing")}
        BY <2>1 DEF ServiceAnswers
      <4>2. a \in {Says("401", "session unknown"), Says("401", "session missing")} =>
              a.why \in SessionLost /\ a.status = "401"
        <5>1. CASE a = Says("401", "session unknown")
          <6>1. a.why = "session unknown" /\ a.status = "401"
            BY <5>1 DEF Says
          <6> QED BY <6>1 DEF SessionLost
        <5>2. CASE a = Says("401", "session missing")
          <6>1. a.why = "session missing" /\ a.status = "401"
            BY <5>2 DEF Says
          <6> QED BY <6>1 DEF SessionLost
        <5> QED BY <5>1, <5>2
      <4>3. ASSUME a \notin {Says("401", "session unknown"), Says("401", "session missing")}
            PROVE  a.why \notin SessionLost /\ a.status \notin {"none", "401"}
        <5>1. CASE a = Says("413", "length")
          BY <5>1, OtherAnswer
        <5>2. CASE a = Says("400", "version")
          BY <5>2, OtherAnswer
        <5>3. CASE a = Says("200", "done")
          BY <5>3, OtherAnswer
        <5>4. CASE a = Says("405", "method")
          BY <5>4, OtherAnswer
        <5>5. CASE a = Says("200", "created")
          BY <5>5, OtherAnswer
        <5>6. CASE a = Says("500", "refused")
          BY <5>6, OtherAnswer
        <5> QED BY <4>1, <4>3, <5>1, <5>2, <5>3, <5>4, <5>5, <5>6
      <4> QED BY <4>2, <4>3
    <3> QED BY <1>1, <2>1, <3>1, ServiceKeeps
  <2>2. ASSUME NEW a, InnermostAnswers(a), Layer.kind = "handler",
               a \in {Says("200", "plugin"), Says("panic", "plugin")}
        PROVE  RequestKnown'
    <3>1. a.why \notin SessionLost /\ a.status \notin {"none", "401"}
      <4>1. CASE a = Says("200", "plugin")
        BY <4>1, OtherAnswer
      <4>2. CASE a = Says("panic", "plugin")
        BY <4>2, OtherAnswer
      <4> QED BY <2>2, <4>1, <4>2
    <3> QED BY <1>1, <2>2, <3>1, ServiceKeeps
  <2>3. CASE Layer.kind = "service"
    <3>1. \E a : InnermostAnswers(a) /\ (a = Says("413", "length") \/ a \in ServiceAnswers)
      BY <1>11, <2>3 DEF Service
    <3> QED BY <2>1, <2>3, <3>1
  <2>4. CASE Layer.kind = "handler"
    <3>1. \E a \in {Says("200", "plugin"), Says("panic", "plugin")} : InnermostAnswers(a)
      BY <1>11, <2>4 DEF Service
    <3> QED BY <2>2, <2>4, <3>1
  <2> QED BY <1>11, <2>3, <2>4 DEF Service
<1> QED
  BY <1>4, <1>5, <1>6, <1>7, <1>8, <1>9, <1>10, <1>11 DEF Inward

RouterInv == RouterBuilt /\ RequestKnown

(* Every step of the router. *)
LEMMA RouterInvKept ==
  ASSUME RouterInv, RouterNext
  PROVE  RouterInv'
<1> USE DEF RouterInv
<1>1. CASE BuildMcpRouter \/ SkipPlugin \/ ResolvePlugin \/ ApplyRoute \/ ApplyWrap \/ Assemble
  <2>1. RouterBuilt'
    BY <1>1, ConstructionBuilds
  <2>2. phase # "serving" /\ UNCHANGED serving /\ UNCHANGED config
    BY <1>1 DEF BuildMcpRouter, SkipPlugin, ResolvePlugin, ApplyRoute, ApplyWrap, Applying, Assemble
  <2>3. UNCHANGED <<request, at, answer, spent, said>>
    BY <2>2 DEF serving
  <2>4. at' = 0 /\ answer' = NoAnswer /\ spent' = {} /\ said' = NoAnswer
    BY <2>2, <2>3 DEF RequestKnown
  <2>5. Underway' /\ OnlyAdmitted' /\ AnswerMeans'
    BY <2>4 DEF Underway, OnlyAdmitted, AnswerMeans, NoAnswer, Says, SessionLost
  <2> QED BY <2>1, <2>4, <2>5 DEF RequestKnown
<1>2. CASE Inward \/ Outward \/ \E q \in Request : Arrive(q)
  <2>1. UNCHANGED building
    BY <1>2 DEF Inward, Outward, Arrive
  <2> QED BY <1>2, <2>1, RouterStays, InwardKeeps, OutwardKeeps, ArriveKeeps
<1> QED BY <1>1, <1>2 DEF RouterNext

LEMMA RouterStarts ==
  ASSUME RouterInv, NEW c \in RouterConfig, StartRouter(c)
  PROVE  RouterInv'
<1>1. RouterBuilt'
  BY StartBuilds DEF RouterInv
<1>2. phase = "off" /\ UNCHANGED <<request, at, answer, spent, said>>
  BY DEF StartRouter, serving
<1>3. at' = 0 /\ answer' = NoAnswer /\ spent' = {} /\ said' = NoAnswer
  BY <1>2 DEF RouterInv, RequestKnown
<1>4. Underway' /\ OnlyAdmitted' /\ AnswerMeans'
  BY <1>3 DEF Underway, OnlyAdmitted, AnswerMeans, NoAnswer, Says, SessionLost
<1> QED BY <1>1, <1>3, <1>4 DEF RouterInv, RequestKnown

LEMMA RouterInvInit ==
  ASSUME RouterInit
  PROVE  RouterInv
<1>1. /\ phase = "off" /\ plugin = 1 /\ target = 0 /\ routes = <<>>
      /\ at = 0 /\ answer = NoAnswer /\ spent = {} /\ said = NoAnswer
  BY DEF RouterInit
<1> QED BY <1>1 DEF RouterInv, RouterBuilt, RequestKnown, Underway, OnlyAdmitted, AnswerMeans,
                    NoAnswer, Says, SessionLost

LEMMA RouterInvSame ==
  ASSUME RouterInv, UNCHANGED routerVars
  PROVE  RouterInv'
<1>1. UNCHANGED building /\ UNCHANGED <<request, at, answer, spent, said>>
  BY DEF routerVars, serving
<1>2. RouterBuilt'
  BY <1>1, RouterStays DEF RouterInv
<1>3. UNCHANGED <<config, phase, layers>> /\ Endpoint' = Endpoint /\ Guard' = Guard
      /\ \A p : Chain(p)' = Chain(p) /\ Segment(p)' = Segment(p) /\ AuthWraps(p)' = AuthWraps(p)
  BY <1>1, RouterStays
<1>4. PICK here : here = Here
  OBVIOUS
<1>5. Here' = here
  BY <1>1, <1>3, <1>4 DEF Here
<1>6. Underway'
  <2>1. Underway /\ \A l : Lets(l)' <=> Lets(l)
    BY <1>1, <1>3 DEF RouterInv, RequestKnown, Lets, Allowed, NotAllowed, ResumesInVain, LacksSession
  <2> QED BY <1>1, <1>3, <1>4, <1>5, <2>1 DEF Underway
<1>7. OnlyAdmitted'
  BY <1>1, <1>3 DEF RouterInv, RequestKnown, OnlyAdmitted, NotAllowed, ResumesInVain, LacksSession
<1>8. AnswerMeans'
  BY <1>1, <1>3, <1>4, <1>5 DEF RouterInv, RequestKnown, AnswerMeans
<1> QED BY <1>1, <1>2, <1>3, <1>6, <1>7, <1>8 DEF RouterInv, RequestKnown

LEMMA AnswersTell ==
  ASSUME RouterInv
  PROVE  StatusTellsWhy
<1> SUFFICES ASSUME Answered PROVE
      /\ answer.status = "401" => ~request.token
      /\ said.why = "session unknown" /\ answer.why = said.why => answer.status = "404"
      /\ said.why = "session missing" /\ answer.why = said.why => answer.status = "400"
      /\ answer.status = "panic" => request.path # Endpoint \/ ~config.catchPanics
  BY DEF StatusTellsWhy
<1>1. phase = "serving" /\ at = 0 /\ AnswerMeans
  BY DEF Answered, RouterInv, RequestKnown
<1>2. Segments
  BY <1>1 DEF RouterInv, RouterBuilt
<1>3. 0 < Guard
  BY <1>2, EndpointLayers DEF Guard
<1>4. said.why \in SessionLost /\ answer.why = said.why => answer.status = Final(said.why)
  BY <1>1, <1>3 DEF AnswerMeans
<1> QED BY <1>1, <1>4 DEF AnswerMeans, SessionLost, Final

-----------------------------------------------------------------------------
(* The router in the server.                                               *)

(* What run() has read is what a router can be built from.                 *)
LEMMA RouterOfType ==
  ASSUME NEW engine \in File, NEW auth
  PROVE  RouterOf(engine, auth) \in RouterConfig
<1>1. engine \in McpConfig
  BY FileAssumption
<1>2. PICK http : http = engine.http
  OBVIOUS
<1>3. http \in [on : BOOLEAN, blank : BOOLEAN, endpoint : Seq(STRING), stream : BOOLEAN,
                resumption : BOOLEAN, deletion : BOOLEAN,
                sessions : {"none", "optional", "required"}, hardened : BOOLEAN,
                sessionLimits : BOOLEAN, rateLimit : RateLimit, creationRate : RateLimit,
                negotiate : BOOLEAN, catchPanics : BOOLEAN, sanitize : BOOLEAN]
  BY <1>1, <1>2 DEF McpConfig, TransportConfig
<1>4. RouterPlugins(engine) \in Seq(Plugin)
  <2>1. engine.plugins \in Seq(PluginConfig)
    BY <1>1 DEF McpConfig
  <2>2. PICK list \in Seq(PluginConfig) : list = engine.plugins
    BY <2>1
  <2>3. ASSUME NEW i \in 1..Len(list)
        PROVE  [router |-> list[i].type = "http_router",
                registered |-> list[i].name \in plugins["http_router"],
                complete |-> list[i].complete, targets |-> list[i].targets] \in Plugin
    <3>1. list[i] \in PluginConfig
      BY <2>2
    <3>2. list[i].complete \in BOOLEAN /\ list[i].targets \in Seq(Target)
      BY <3>1 DEF PluginConfig, Target, Path
    <3> QED BY <3>2 DEF Plugin
  <2>4. RouterPlugins(engine) =
          [i \in 1..Len(list) |->
             [router |-> list[i].type = "http_router",
              registered |-> list[i].name \in plugins["http_router"],
              complete |-> list[i].complete, targets |-> list[i].targets]]
    BY <2>2 DEF RouterPlugins
  <2> QED BY <2>2, <2>3, <2>4
<1>5. /\ AuthActive(engine) \in BOOLEAN /\ Enforces(auth, features) \in BOOLEAN
      /\ OAuthEnabled(auth, features) \in BOOLEAN
  BY DEF AuthActive, Enforces, OAuthEnabled
<1>6. http.rateLimit \in {"absent", "bucketless", "excessive", "on"} /\ http.endpoint \in Path
  BY <1>3 DEF RateLimit, Path
<1> DEFINE list == RouterPlugins(engine)
           active == AuthActive(engine)
           enforced == Enforces(auth, features)
           oauth == OAuthEnabled(auth, features)
<1>7. RouterOf(engine, auth) =
        LET hardening == "http_hardening" \in features IN
        [endpoint |-> http.endpoint, auth |-> active, enforced |-> enforced, oauth |-> oauth,
         stream |-> http.stream, resumption |-> http.resumption,
         deletion |-> http.deletion, mode |-> http.sessions, negotiate |-> http.negotiate,
         catchPanics |-> hardening /\ http.catchPanics,
         sanitize |-> hardening /\ http.sanitize, limitsBody |-> hardening,
         creationRate |-> hardening /\ http.creationRate \in {"on", "excessive"},
         rateLimit |-> IF hardening THEN http.rateLimit ELSE "absent",
         plugins |-> list]
  BY <1>2 DEF RouterOf
<1>8. list \in Seq(Plugin) /\ active \in BOOLEAN /\ enforced \in BOOLEAN /\ oauth \in BOOLEAN
  BY <1>4, <1>5
<1> HIDE DEF list, active, enforced, oauth
<1> QED BY <1>3, <1>6, <1>7, <1>8 DEF RouterConfig

LEMMA RouterInvNext ==
  ASSUME Inv, RouterInv, [Next]_vars
  PROVE  RouterInv'
<1>1. CASE Route
  BY <1>1, RouterInvKept DEF Route
<1>2. CASE ReadEngine
  <2>1. CASE UNCHANGED routerVars
    BY <2>1, RouterInvSame
  <2>2. CASE StartRouter(RouterOf(current, readAuth))
    <3>1. run # "idle"
      BY <1>2 DEF ReadEngine
    <3>2. current \in File
      BY <3>1 DEF Inv, RuntimeKnown, Checked
    <3>3. PICK c \in RouterConfig : c = RouterOf(current, readAuth)
      BY <3>2, RouterOfType
    <3> QED BY <2>2, <3>3, RouterStarts
  <2> QED BY <1>2, <2>1, <2>2 DEF ReadEngine
<1>3. CASE ~ Route /\ ~ ReadEngine
  <2>1. UNCHANGED routerVars
    BY <1>3 DEF Next, vars, Register, Unregister, Replace, RegistryOnly, New, Reload, Swap,
                ListsFail, BuildOnly, ReadMode, ReadAuthState
  <2> QED BY <2>1, RouterInvSame
<1> QED BY <1>1, <1>2, <1>3

(* Whatever the configuration, the plugins and their targets, the segments *)
(* are built from the targets whose turn has come, and a request on its    *)
(* way in has been let through by every layer before the one it is at      *)
(* (router.rs:429-638).                                                    *)
THEOREM RouterInductive == Spec => []RouterInv
<1>1. Init => RouterInv
  BY RouterInvInit DEF Init
<1>2. Inv /\ RouterInv /\ [Next]_vars => RouterInv'
  BY RouterInvNext
<1> QED BY <1>1, <1>2, Inductive, PTL DEF Spec

(* For every configuration: a router that serves has on each of its paths  *)
(* the wraps that are declared for it, in their order, and no others       *)
(* (router.rs:551-638).                                                    *)
THEOREM RouterWrapsAsDeclared == Spec => []WrapsAsDeclared
<1>1. RouterInv => WrapsAsDeclared
  BY BuiltIsDeclared DEF RouterInv
<1> QED BY <1>1, RouterInductive, PTL

(* For every request and whatever plugins wrap: what draws on a limiter or *)
(* reaches the service has been admitted (router.rs:337-370).              *)
THEOREM RouterAdmits == Spec => []OnlyAdmitted
<1>1. RouterInv => OnlyAdmitted
  BY DEF RouterInv, RequestKnown
<1> QED BY <1>1, RouterInductive, PTL

(* For every request: the status that the client sees means what it says   *)
(* (policy.rs:92-120, router.rs:253-281).                                  *)
THEOREM RouterStatusTells == Spec => []StatusTellsWhy
<1>1. RouterInv => StatusTellsWhy
  BY AnswersTell
<1> QED BY <1>1, RouterInductive, PTL
=============================================================================
