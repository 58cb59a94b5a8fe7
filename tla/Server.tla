------------------------------- MODULE Server -------------------------------
(***************************************************************************)
(* The life of a server: the host fills a plugin registry                  *)
(* (plugins/registry.rs), loads a configuration and builds a runtime from  *)
(* both (runtime/core.rs), which it may reload while run() reads what to   *)
(* serve and starts the transport.                                         *)
(*                                                                         *)
(* Checks that await nothing are one step.  Building the list cache calls  *)
(* plugins, so a reload has a second step, and run() reads the runtime     *)
(* state three times, under a lock of its own each.  Lists, refreshes and  *)
(* notifications are RuntimeLists; the router and what passes it is        *)
(* HttpRouter, from which ServerRequests takes over.                       *)
(***************************************************************************)
EXTENDS ServerRequests, HttpRouter

CONSTANTS
  Registrable,   \* <<name, type>> : the plugins the host may register
  Reloaded,      \* Reloaded[f] : files the host may reload in the place of f
  Build,         \* sets of features, one of which is compiled in
  None

VARIABLES
  features,   \* what is compiled in
  plugins,    \* plugins[type] : the names in the registry's map of the type
  allNames,   \* all_names of the registry
  host,       \* "registering", "starting", "up", or "down" after an error
  candidate,  \* the file whose lists are being read
  current,    \* the file of the reload state
  level,      \* what the process logs, "unset" before the first build
  run,        \* where run() is
  readAuth,   \* the file whose auth state run() has read
  served,     \* the file whose engine is served
  overtaken   \* history: a reload ended between the reads of run()

runtimeVars ==
  <<features, plugins, allNames, host, candidate, current, level, run, readAuth, served,
    overtaken>>
vars == <<runtimeVars, routerVars>>

ServerAssumption ==
  /\ Registrable \subseteq STRING \X PluginType
  /\ Reloaded \in [File -> SUBSET File]
  /\ Build \subseteq SUBSET Feature

ASSUME ServerAssumption

Init ==
  /\ features \in Build
  /\ plugins = [type \in PluginType |-> {}]
  /\ allNames = {}
  /\ host = "registering"
  /\ candidate = None
  /\ current = None
  /\ level = "unset"
  /\ run = "idle"
  /\ readAuth = None
  /\ served = None
  /\ overtaken = FALSE
  /\ RouterInit

-----------------------------------------------------------------------------
(* The registry is moved from call to call: an error leaves none.          *)

RegistryOnly ==
  UNCHANGED
    <<features, candidate, current, level, run, readAuth, served, overtaken, routerVars>>

RegistryLost == host' = "down" /\ UNCHANGED <<plugins, allNames>>

Registers(name, type) ==
  IF name \in allNames THEN RegistryLost
  ELSE /\ plugins' = [plugins EXCEPT ![type] = @ \cup {name}]
       /\ allNames' = allNames \cup {name}
       /\ UNCHANGED host

(* register_http_router comes with the streamable_http feature. *)
Register ==
  /\ host = "registering"
  /\ \E r \in Registrable :
       /\ r[2] = "http_router" => "streamable_http" \in features
       /\ Registers(r[1], r[2])
  /\ RegistryOnly

Changeable == {"tool", "prompt", "resource"}

Unregister ==
  /\ host = "registering"
  /\ \E r \in Registrable :
       /\ r[2] \in Changeable
       /\ IF r[1] \notin plugins[r[2]] THEN RegistryLost
          ELSE /\ plugins' = [plugins EXCEPT ![r[2]] = @ \ {r[1]}]
               /\ allNames' = allNames \ {r[1]}
               /\ UNCHANGED host
  /\ RegistryOnly

(* Only what the plugin does changes, which is not told apart here. *)
Replace ==
  /\ host = "registering"
  /\ \E r \in Registrable :
       /\ r[2] \in Changeable
       /\ IF r[1] \notin plugins[r[2]] THEN RegistryLost
          ELSE UNCHANGED <<host, plugins, allNames>>
  /\ RegistryOnly

-----------------------------------------------------------------------------
(* Runtime::new, Runtime::reload_config                                    *)

(* build_runtime_state up to the lists: parse_log_level knows no "loud",   *)
(* and init_logging sets the process's level before the rest is known.     *)
InitsLogging(f) == RuntimeNeeds(f) \subseteq features /\ f.level # "loud"

Accepts(f) ==
  /\ InitsLogging(f)
  /\ TransportFits(f)
  /\ EngineFits(f, features, plugins)
  /\ "streamable_http" \in features => AuthFits(f, features, plugins)

SetsLevel(f) == level' = IF InitsLogging(f) THEN f.level ELSE level

(* A configuration that the host builds itself never meets the loader. *)
Available(f) == f.coded \/ Loads(f)

BuildOnly == UNCHANGED <<features, plugins, allNames, run, readAuth, served, routerVars>>

New ==
  /\ host = "registering"
  /\ \E f \in File :
       /\ Available(f)
       /\ IF Accepts(f) THEN host' = "starting" /\ candidate' = f
          ELSE host' = "down" /\ UNCHANGED candidate
       /\ SetsLevel(f)
  /\ UNCHANGED <<current, overtaken>>
  /\ BuildOnly

(* Bound: no reload once the router has its configuration, which it keeps. *)
Reload ==
  /\ host = "up"
  /\ phase = "off"
  /\ candidate = None
  /\ \E f \in Reloaded[current] :
       /\ Available(f)
       /\ candidate' = IF Accepts(f) THEN f ELSE None
       /\ SetsLevel(f)
  /\ UNCHANGED <<host, current, overtaken>>
  /\ BuildOnly

(* build_list_cache: a plugin that is asked for its list may fail. *)
ListsAnswered(f) ==
  /\ "prompts" \in features => CatalogResolves(f, plugins, "prompts")
  /\ "resources" \in features => CatalogResolves(f, plugins, "resources")

AsksPlugins(f) ==
  \E kind \in {"prompts", "resources"} :
    \E i \in Items(f, kind) : Section(f, kind).providers[i].plugin # Inline

Swap ==
  /\ candidate # None
  /\ ListsAnswered(candidate)
  /\ current' = candidate
  /\ candidate' = None
  /\ host' = "up"
  /\ overtaken' = (overtaken \/ run \in {"auth", "engine"})
  /\ UNCHANGED level
  /\ BuildOnly

ListsFail ==
  /\ candidate # None
  /\ ListsAnswered(candidate) => AsksPlugins(candidate)
  /\ candidate' = None
  /\ host' = IF host = "starting" THEN "down" ELSE host
  /\ UNCHANGED <<current, level, overtaken>>
  /\ BuildOnly

-----------------------------------------------------------------------------
(* Runtime::run                                                            *)

RunOnly == UNCHANGED <<features, plugins, allNames, host, candidate, current, level, overtaken>>

ReadMode ==
  /\ host = "up"
  /\ run = "idle"
  /\ run' = IF current.http.on THEN "auth" ELSE "engine of stdio"
  /\ UNCHANGED <<readAuth, served, routerVars>>
  /\ RunOnly

ReadAuthState ==
  /\ run = "auth"
  /\ readAuth' = current
  /\ run' = "engine"
  /\ UNCHANGED <<served, routerVars>>
  /\ RunOnly

RouterPlugins(f) ==
  [i \in DOMAIN f.plugins |->
     LET p == f.plugins[i] IN
     [router |-> p.type = "http_router", registered |-> p.name \in plugins["http_router"],
      complete |-> p.complete, targets |-> p.targets]]

(* What run_streamable_http makes of an engine and of an auth state. *)
RouterOf(engine, auth) ==
  LET hardening == "http_hardening" \in features IN
  [endpoint |-> engine.http.endpoint, auth |-> AuthActive(engine),
   enforced |-> Enforces(auth, features), oauth |-> OAuthEnabled(auth, features),
   stream |-> engine.http.stream, resumption |-> engine.http.resumption,
   deletion |-> engine.http.deletion, mode |-> engine.http.sessions,
   negotiate |-> engine.http.negotiate,
   catchPanics |-> hardening /\ engine.http.catchPanics,
   sanitize |-> hardening /\ engine.http.sanitize, limitsBody |-> hardening,
   creationRate |-> hardening /\ engine.http.creationRate \in {"on", "excessive"},
   rateLimit |-> IF hardening THEN engine.http.rateLimit ELSE "absent",
   plugins |-> RouterPlugins(engine)]

ReadEngine ==
  /\ \/ run = "engine" /\ StartRouter(RouterOf(current, readAuth))
     \/ run = "engine of stdio" /\ UNCHANGED routerVars
  /\ served' = current
  /\ run' = "serving"
  /\ UNCHANGED readAuth
  /\ RunOnly

Route == RouterNext /\ UNCHANGED runtimeVars

Next ==
  \/ Register
  \/ Unregister
  \/ Replace
  \/ New
  \/ Reload
  \/ Swap
  \/ ListsFail
  \/ ReadMode
  \/ ReadAuthState
  \/ ReadEngine
  \/ Route

Spec == Init /\ [][Next]_vars

-----------------------------------------------------------------------------
Engines == {current, served} \ {None}

(* No request ever meets a plugin that is not registered or a source that  *)
(* is not defined: what was checked at startup is all that a request can   *)
(* lead to (construction.rs:45-99; docs/PLUGINS.md:39).                    *)
ReferencesResolve ==
  \A f \in Engines : \A q \in Requests(f) : Answer(f, features, plugins, q) # Unresolved

(* What initialize advertises is there: no request that a capability       *)
(* invites is answered by "method not found" (server_info.rs:56-75).       *)
AdvertisedIsServed ==
  \A f \in Engines : \A c \in Capabilities(f, features) : \A q \in Requests(f) :
    Invites(f, c, q) => Answer(f, features, plugins, q) # MethodNotFound

(* When no reload ends while run() reads the runtime's state, an endpoint  *)
(* is behind a layer that enforces authorization exactly when the section  *)
(* says so, and it is what the checks of the transport have agreed to      *)
(* (core.rs:103-124, factory.rs:164-179, router.rs:365-370).               *)
ServedAsChecked ==
  phase # "off" /\ ~overtaken =>
    /\ config.auth = config.enforced
    /\ "auth" \in features => (config.enforced = Active(served.auth))
    /\ config.mode = "none" => ~config.resumption /\ ~config.deletion /\ ~config.creationRate
=============================================================================
