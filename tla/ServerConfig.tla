---------------------------- MODULE ServerConfig ----------------------------
(***************************************************************************)
(* What the server makes of a configuration before it serves: the loader   *)
(* (config/loader.rs), the checks of the features that are compiled in     *)
(* (config/feature_validation.rs, runtime/runtime_checks.rs,               *)
(* engine/feature_validation.rs), of the transport, of the engine          *)
(* (engine/orchestration/construction.rs, engine/completion.rs) and of the *)
(* inbound authorization (auth/inbound/factory.rs).                        *)
(*                                                                         *)
(* A file is a record of what these checks tell apart.  A section is       *)
(* "absent", "off" (enabled: false) or "on"; a name stands for itself.     *)
(***************************************************************************)
EXTENDS Naturals, SequencesExt

CONSTANTS
  File,      \* the configurations the host may use
  Inline     \* in the place of a plugin: the provider has its data inline

PluginType == {"tool", "auth", "http_router", "completion", "prompt", "resource"}

Feature ==
  {"http_tools", "prompts", "resources", "client_logging", "progress_utility",
   "tasks_utility", "client_features", "http_hardening", "auth", "streamable_http",
   "completion"}

(* config/types: what the checks tell apart of each section.  A tool is     *)
(* legal when its execute and its response fit its kind (build_tool_map);  *)
(* a provider of the prompts or the resources is complete when all it      *)
(* needs is there, and its source completes an argument, if any.           *)
SectionState == {"absent", "off", "on"}

PluginConfig ==
  [name : STRING, type : PluginType, complete : BOOLEAN,
   targets : Seq([type : {"route", "wrap"}, path : Seq(STRING),
                  op : {"route", "wrap", "auth"}])]

ToolConfig ==
  [name : STRING, legal : BOOLEAN, kind : {"http", "plugin"}, plugin : STRING,
   upstream : STRING, task : {"forbidden", "optional", "required"}, combines : BOOLEAN]

ProviderConfig == [plugin : STRING \cup {Inline}, source : STRING, complete : BOOLEAN]

CompletionProviderConfig == [name : STRING, plugin : STRING \cup {Inline}]

RetryConfig == [attempts : Nat, delay : Nat, network : BOOLEAN, statuses : BOOLEAN]

AuthProviderConfig ==
  [name : STRING, kind : {"bearer", "jwks", "introspection", "plugin"}, plugin : STRING,
   issuer : STRING, discovery : BOOLEAN, missingIss : BOOLEAN]

AuthConfig ==
  [state : SectionState, resource : BOOLEAN, providers : Seq(AuthProviderConfig)]

TasksConfig == [state : SectionState, list : BOOLEAN, cancel : BOOLEAN]

(* Which of them are enabled. *)
ClientFeaturesConfig == SUBSET {"roots", "sampling", "elicitation"}

(* excessive : a bucket of zero, or one that 32 bits do not hold. *)
RateLimit == {"absent", "bucketless", "excessive", "on"}

TransportConfig ==
  {h \in [on : BOOLEAN, blank : BOOLEAN, endpoint : Seq(STRING), stream : BOOLEAN,
          resumption : BOOLEAN, deletion : BOOLEAN, sessions : {"none", "optional", "required"},
          hardened : BOOLEAN, sessionLimits : BOOLEAN, rateLimit : RateLimit,
          creationRate : RateLimit, negotiate : BOOLEAN, catchPanics : BOOLEAN,
          sanitize : BOOLEAN] :
     (h.creationRate # "absent" => h.sessionLimits) /\ (h.sessionLimits => h.hardened)}

(* coded : the host made it itself and does not load it; text : what the   *)
(* file is; retries : those of outbound_http and of the upstreams.         *)
McpConfig ==
  [coded : BOOLEAN,
   text : {"plain", "missing", "unclosed", "nameless", "unparsable", "notSchema"},
   level : {"info", "debug", "loud"}, plugins : Seq(PluginConfig), retries : Seq(RetryConfig),
   upstreams : SUBSET STRING, combinators : {"off", "warn", "error"},
   tools : [state : SectionState, items : Seq(ToolConfig)],
   prompts : [state : SectionState, providers : Seq(ProviderConfig)],
   resources :
     [state : SectionState, providers : Seq(ProviderConfig), subscribe : BOOLEAN],
   completion : [state : SectionState, providers : Seq(CompletionProviderConfig)],
   tasks : TasksConfig, logging : BOOLEAN, progress : BOOLEAN, asks : ClientFeaturesConfig,
   auth : AuthConfig, http : TransportConfig]

ASSUME FileAssumption == File \subseteq McpConfig

Active(section) == section.state = "on"

(* tools_items *)
Tools(f) == IF Active(f.tools) THEN ToSet(f.tools.items) ELSE {}

PluginsOf(f, type) == {p.name : p \in {q \in ToSet(f.plugins) : q.type = type}}

Unique(names) == \A i, j \in DOMAIN names : names[i] = names[j] => i = j

NamesOf(items) == [i \in DOMAIN items |-> items[i].name]

-----------------------------------------------------------------------------
(* load_mcp_config_from_path                                               *)

(* expand_env_vars refuses a placeholder without end or without a name, and *)
(* puts null for a variable that is not set.                               *)
Expands(f) == f.text \notin {"unclosed", "nameless"}

(* validate_streamable_http_hardening_semantics, whatever the transport is. *)
HasBuckets(f) == f.http.rateLimit # "bucketless" /\ f.http.creationRate # "bucketless"

HardeningFits(f) == (f.http.sessions = "none" => ~f.http.sessionLimits) /\ HasBuckets(f)

RetryFits(r) == r.attempts >= 1 /\ r.delay >= 1 /\ (r.network \/ r.statuses)

(* validate_input_schema_client_compat *)
CombinatorsFit(f) == f.combinators = "error" => \A t \in Tools(f) : ~t.combines

CompletionHasProviders(f) == Active(f.completion) => f.completion.providers # <<>>

Loads(f) ==
  /\ Expands(f)
  /\ f.text = "plain"
  /\ Unique(NamesOf(f.plugins))
  /\ HardeningFits(f)
  /\ CompletionHasProviders(f)
  /\ \A r \in ToSet(f.retries) : RetryFits(r)
  /\ CombinatorsFit(f)

-----------------------------------------------------------------------------
(* What a configuration needs to be compiled in.                           *)

AuthActive(f) == Active(f.auth) /\ f.auth.providers # <<>>

(* shared_feature_validation_error, asked by the runtime and by the engine. *)
SharedNeeds(f) ==
  {feature \in Feature :
     \/ feature = "http_tools" /\ \E t \in Tools(f) : t.kind = "http"
     \/ feature = "prompts" /\ Active(f.prompts)
     \/ feature = "resources" /\ Active(f.resources)
     \/ feature = "client_logging" /\ f.logging
     \/ feature = "progress_utility" /\ f.progress
     \/ feature = "tasks_utility" /\ (Active(f.tasks) \/ \E t \in Tools(f) : t.task # "forbidden")
     \/ feature = "client_features" /\ f.asks # {}
     \/ feature = "http_hardening" /\ f.http.hardened}

(* compiled_feature_validation_error *)
RuntimeNeeds(f) ==
  SharedNeeds(f)
    \cup (IF AuthActive(f) THEN {"auth"} ELSE {})
    \cup (IF f.http.on \/ PluginsOf(f, "http_router") # {} THEN {"streamable_http"} ELSE {})

(* config_has_completion_mappings, of inactive sections as well. *)
MapsCompletions(f, features) ==
  \/ "prompts" \in features /\ f.prompts.state # "absent"
       /\ \E p \in ToSet(f.prompts.providers) : p.plugin = Inline /\ p.source # "none"
  \/ "resources" \in features /\ f.resources.state # "absent"
       /\ \E p \in ToSet(f.resources.providers) : p.source # "none"

(* validate_engine_feature_flags *)
EngineFlagsFit(f, features) ==
  /\ SharedNeeds(f) \subseteq features
  /\ IF "completion" \in features THEN CompletionHasProviders(f)
     ELSE /\ ~Active(f.completion)
          /\ PluginsOf(f, "completion") = {}
          /\ ~MapsCompletions(f, features)
  /\ "tasks_utility" \in features /\ ~Active(f.tasks) =>
       \A t \in Tools(f) : t.task = "forbidden"

-----------------------------------------------------------------------------
(* validate_transport *)
TransportFits(f) ==
  IF ~f.http.on THEN ~AuthActive(f) /\ PluginsOf(f, "http_router") = {}
  ELSE /\ ~f.http.blank
       /\ f.http.resumption => f.http.stream
       /\ f.http.sessions = "none" =>
            ~f.http.resumption /\ ~f.http.deletion /\ ~f.http.sessionLimits
       /\ HasBuckets(f)

-----------------------------------------------------------------------------
(* Engine::from_config.  plugins[t] is the set of the names that the       *)
(* registry has for plugins of the type t.                                 *)

(* Mutant of EnginePluginTypes: the completions' allowlist is forgotten. *)
EnginePluginTypesBut == {"tool", "prompt", "resource"}

EnginePluginTypes == {"tool", "prompt", "resource", "completion"}

(* validate_allowlist_registered, for each type the engine uses. *)
AllowlistsRegistered(f, plugins) ==
  \A type \in EnginePluginTypes : PluginsOf(f, type) \subseteq plugins[type]

PluginAllowed(f, type, plugin) == plugin = Inline \/ plugin \in PluginsOf(f, type)

(* validate_provider_plugins, of the sections that are active. *)
ProvidersFit(f) ==
  /\ Active(f.prompts) =>
       \A p \in ToSet(f.prompts.providers) : PluginAllowed(f, "prompt", p.plugin)
  /\ Active(f.resources) =>
       \A p \in ToSet(f.resources.providers) :
         p.complete /\ PluginAllowed(f, "resource", p.plugin)

SourceNames(f) == {s.name : s \in ToSet(f.completion.providers)}

(* The completion sources that the active providers' arguments name: those *)
(* of a plugin's prompts are the plugin's own affair.                      *)
MappedSources(f) ==
  {p.source : p \in
     (IF Active(f.prompts) THEN {q \in ToSet(f.prompts.providers) : q.plugin = Inline} ELSE {})
       \cup (IF Active(f.resources) THEN ToSet(f.resources.providers) ELSE {})} \ {"none"}

(* build_completion_sources, validate_completion_source_references *)
CompletionFits(f) ==
  Active(f.completion) =>
    /\ \A s \in ToSet(f.completion.providers) : PluginAllowed(f, "completion", s.plugin)
    /\ Unique(NamesOf(f.completion.providers))
    /\ MappedSources(f) \subseteq SourceNames(f)

(* build_tool_map: two tools of one name are no mistake. *)
ToolFits(f, t) == t.legal /\ (t.kind = "plugin" => t.plugin \in PluginsOf(f, "tool"))

EngineFits(f, features, plugins) ==
  /\ EngineFlagsFit(f, features)
  /\ AllowlistsRegistered(f, plugins)
  /\ ProvidersFit(f)
  /\ CompletionFits(f)
  /\ \A t \in Tools(f) : ToolFits(f, t)

-----------------------------------------------------------------------------
(* build_auth_state_with_plugins *)

OAuthCapable(p) == p.kind \in {"jwks", "introspection"}

Issuers(f) ==
  SelectSeq([i \in DOMAIN f.auth.providers |-> f.auth.providers[i].issuer],
            LAMBDA issuer : issuer # "none")

AtMostOne(providers) == Len(providers) <= 1

(* Mutant of AuthSettingsFit: it takes a section with no provider. *)
AuthSettingsFitAnyNumber(f) == TRUE

(* validate_auth_settings: issuers are compared trimmed, in lower case. *)
AuthSettingsFit(f) ==
  LET providers == f.auth.providers IN
  Active(f.auth) =>
    /\ providers # <<>>
    /\ Unique(NamesOf(providers))
    /\ AtMostOne(SelectSeq(providers, LAMBDA p : p.missingIss))
    /\ AtMostOne(SelectSeq(providers, LAMBDA p : p.kind = "bearer"))
    /\ \A p \in ToSet(providers) : p.kind = "jwks" => p.issuer # "none" \/ p.discovery
    /\ "blank" \notin ToSet(Issuers(f))
    /\ Unique(Issuers(f))
    /\ (\E p \in ToSet(providers) : OAuthCapable(p)) => f.auth.resource

(* validate_auth_plugins, of a disabled section as well. *)
AuthPluginsFit(f, plugins) ==
  /\ PluginsOf(f, "auth") \subseteq plugins["auth"]
  /\ \A p \in ToSet(f.auth.providers) :
       p.kind = "plugin" => p.plugin \in PluginsOf(f, "auth")

(* Without the feature the state that replaces it only refuses active auth. *)
AuthFits(f, features, plugins) ==
  IF "auth" \in features THEN AuthSettingsFit(f) /\ AuthPluginsFit(f, plugins)
  ELSE ~AuthActive(f)

(* activation # AuthActivation::None *)
Enforces(f, features) == "auth" \in features /\ Active(f.auth)

(* oauth_enabled: some provider is not the bearer. *)
OAuthEnabled(f, features) ==
  Enforces(f, features) /\ \E p \in ToSet(f.auth.providers) : p.kind # "bearer"
=============================================================================
