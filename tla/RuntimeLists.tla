---------------------------- MODULE RuntimeLists ----------------------------
(***************************************************************************)
(* The runtime (runtime/core.rs, runtime/list_cache.rs): reload_config,    *)
(* the plugins' list refreshes, the worker that debounces the events of    *)
(* the plugin registry, and the list cache and the engine they share.      *)
(* They announce changed lists through the NotificationHub.                *)
(*                                                                         *)
(* Every acquisition of a lock and every await is a boundary between two   *)
(* actions.  A list is abstracted to what tells two lists apart: what the  *)
(* configuration contributes and which version of its data the plugin that *)
(* provides it returned.                                                   *)
(***************************************************************************)
EXTENDS NotificationHub, Naturals, Sequences

CONSTANTS
  Feature,        \* a subset of {"tools", "prompts", "resources"}
  Config,         \* configurations
  BootConfig,     \* the one the runtime is built from
  Listed,         \* Listed[c][f] : what configuration c lists for f
  Notifies,       \* Notifies[c] : the features with notify_list_changed
  Reload,         \* calls of reload_config
  Refresher,      \* plugin calls that ask for a list refresh
  Flusher,        \* flush tasks of the event worker
  Boot,           \* the engine that Runtime::new builds
  None,           \* no engine, feature or list
  MaxVersion,     \* bound of the versions of the plugins' data
  MaxEvents,      \* bound of the registry events
  Capacity        \* of the broadcast channel of registry events

Engine == Reload \cup {Boot}
List == [config : Nat, plugin : Nat]
NoLists == [f \in Feature |-> None]

ASSUME RuntimeAssumption ==
  /\ Feature \subseteq {"tools", "prompts", "resources"}
  /\ BootConfig \in Config
  /\ Listed \in [Config -> [Feature -> Nat]]
  /\ Notifies \in [Config -> SUBSET Feature]
  /\ Boot \notin Reload
  /\ None \notin Engine \cup Feature \cup List
  /\ Reload \cap Refresher = {}
  /\ (Reload \cup Refresher) \cap Flusher = {}
  /\ Caller = Reload \cup Refresher \cup Flusher
  /\ MaxVersion \in Nat
  /\ MaxEvents \in Nat
  /\ Capacity \in Nat \ {0}

VARIABLES
  engine,    \* reload_state.engine
  cache,     \* list_cache
  serving,   \* the engine that run() handed to the transport
  version,   \* version[f] : of the data of the plugin that provides f
  reload,    \* reload[r] : where a reload is, and what it holds
  refresh,   \* refresh[x] : where a refresh is, and what it holds
  locks,     \* refresh_locks : the features whose lock is held
  channel,   \* registry events the worker has not received
  lagged,    \* the receiver has missed events
  worker,    \* the event worker and the feature it handles
  pending,   \* pending_registry_notifications
  flusher,   \* flusher[d] : the flush tasks
  events,    \* history: events emitted
  owed,      \* history: features with an event not yet announced
  evicted    \* history: features of which the channel dropped an event

listVars == <<engine, cache, serving, version>>
eventVars == <<channel, lagged, worker, pending, flusher, events, owed,
               evicted>>
vars == <<hubVars, listVars, reload, refresh, locks, eventVars>>

ReloadRecord ==
  [at : {"idle", "fetch", "diff", "engine", "cache", "notify", "done", "failed",
         "dropped"},
   config : Config, lists : [Feature -> List \cup {None}], todo : SUBSET Feature]

RefreshRecord ==
  [at : {"idle", "lock", "old", "fetch", "check", "write", "notify", "done"},
   feature : Feature \cup {None}, engine : Engine, list : List \cup {None},
   old : List \cup {None}, result : {"none", "changed", "unchanged"}]

Idle == [at |-> "idle", config |-> BootConfig, lists |-> NoLists, todo |-> {}]

NoRefresh ==
  [at |-> "idle", feature |-> None, engine |-> Boot, list |-> None, old |-> None,
   result |-> "none"]

ConfigOf(e) == IF e = Boot THEN BootConfig ELSE reload[e].config

(* list_changed_enabled *)
Enabled(e, f) == f \in Notifies[ConfigOf(e)]

(* The tools, prompts or resources payload of an engine with configuration *)
(* c.  The tools are fixed when the engine is built; prompts and resources *)
(* are asked of their plugins.                                             *)
ListOf(c, f) ==
  [config |-> Listed[c][f], plugin |-> IF f = "tools" THEN 0 ELSE version[f]]

(* Tools are handled before prompts, and these before resources. *)
First(features) ==
  CASE "tools" \in features -> "tools"
    [] "tools" \notin features /\ "prompts" \in features -> "prompts"
    [] OTHER -> "resources"

Init ==
  /\ HubInit
  /\ engine = Boot
  /\ version = [f \in Feature |-> 0]
  /\ cache = [f \in Feature |-> [config |-> Listed[BootConfig][f], plugin |-> 0]]
  /\ serving = None
  /\ reload = [r \in Reload |-> Idle]
  /\ refresh = [x \in Refresher |-> NoRefresh]
  /\ locks = {}
  /\ channel = <<>>
  /\ lagged = FALSE
  /\ worker = [at |-> "recv", feature |-> None]
  /\ pending = {}
  /\ flusher = [d \in Flusher |-> [at |-> "idle", feature |-> None]]
  /\ events = 0
  /\ owed = {}
  /\ evicted = {}

(* run(): the transport is handed the engine of the moment. *)
Run ==
  /\ serving = None
  /\ serving' = engine
  /\ UNCHANGED <<hubVars, engine, cache, version, reload, refresh, locks,
                 eventVars>>

(* The data behind a plugin's list() changes. *)
PluginDataChanges(f) ==
  /\ f # "tools"
  /\ version[f] < MaxVersion
  /\ version' = [version EXCEPT ![f] = @ + 1]
  /\ UNCHANGED <<hubVars, engine, cache, serving, reload, refresh, locks,
                 eventVars>>

-----------------------------------------------------------------------------
(* reload_config.  build_runtime_state checks the configuration, builds an *)
(* engine (named after the reload) and asks the plugins for its lists.  A  *)
(* configuration that fails the checks only sets the level of the log      *)
(* filter, which is not modelled.                                          *)

ReloadBuild(r, c) ==
  /\ reload[r].at = "idle"
  /\ reload' = [reload EXCEPT ![r].config = c, ![r].todo = Feature, ![r].at = "fetch"]
  /\ UNCHANGED <<hubVars, listVars, refresh, locks, eventVars>>

(* Mutant of LastList. *)
StopsAfterFirst(todo, f) == TRUE

(* The list of f is the last one to build. *)
LastList(todo, f) == todo = {f}

(* One list of build_list_cache; the plugin that provides it may fail. *)
ReloadFetch(r) ==
  LET todo == reload[r].todo
      f == First(todo) IN
  /\ reload[r].at = "fetch"
  /\ \/ reload' = [reload EXCEPT ![r].lists[f] = ListOf(reload[r].config, f),
                                 ![r].todo = todo \ {f},
                                 ![r].at = IF LastList(todo, f) THEN "diff" ELSE "fetch"]
     \/ /\ f # "tools"
        /\ reload' = [reload EXCEPT ![r].at = "failed"]
  /\ UNCHANGED <<hubVars, listVars, refresh, locks, eventVars>>

ReloadDiff(r) ==
  /\ reload[r].at = "diff"
  /\ reload' = [reload EXCEPT ![r].at = "engine",
                  ![r].todo = {f \in Feature : cache[f] # reload[r].lists[f]}]
  /\ UNCHANGED <<hubVars, listVars, refresh, locks, eventVars>>

ReloadSwapEngine(r) ==
  /\ reload[r].at = "engine"
  /\ engine' = r
  /\ reload' = [reload EXCEPT ![r].at = "cache"]
  /\ UNCHANGED <<hubVars, cache, serving, version, refresh, locks, eventVars>>

ReloadSwapCache(r) ==
  /\ reload[r].at = "cache"
  /\ cache' = reload[r].lists
  /\ reload' = [reload EXCEPT ![r].at = "notify",
                              ![r].todo = @ \cap Notifies[reload[r].config]]
  /\ UNCHANGED <<hubVars, engine, serving, version, refresh, locks, eventVars>>

(* check_and_notify_feature, for one feature after the other. *)
ReloadNotify(r) ==
  /\ reload[r].at = "notify"
  /\ reload[r].todo # {}
  /\ \/ /\ call[r].at = "idle"
        /\ BeginCall(r)
        /\ UNCHANGED reload
     \/ /\ Returned(r)
        /\ EndCall(r)
        /\ reload' = [reload EXCEPT ![r].todo = @ \ {First(@)}]
  /\ UNCHANGED <<listVars, refresh, locks, eventVars>>

ReloadDone(r) ==
  /\ reload[r].at = "notify"
  /\ reload[r].todo = {}
  /\ reload' = [reload EXCEPT ![r].at = "done"]
  /\ UNCHANGED <<hubVars, listVars, refresh, locks, eventVars>>

(* The caller drops the future of reload_config at an await; between the   *)
(* two swaps the new engine stays with the lists of the old one.           *)
ReloadDropped(r) ==
  /\ reload[r].at \in {"fetch", "diff", "engine", "cache", "notify"}
  /\ reload' = [reload EXCEPT ![r].at = "dropped"]
  /\ DropCall(r)
  /\ UNCHANGED <<listVars, refresh, locks, eventVars>>

-----------------------------------------------------------------------------
(* request_list_refresh of a plugin: refresh_list and the three functions  *)
(* behind it, which read alike.                                            *)

RefreshStart(x, f) ==
  /\ refresh[x].at = "idle"
  /\ refresh' = [refresh EXCEPT ![x].at = "lock", ![x].feature = f]
  /\ UNCHANGED <<hubVars, listVars, reload, locks, eventVars>>

(* Mutant of LockFree. *)
LockIgnored(f) == TRUE

LockFree(f) == f \notin locks

(* The lock of the feature, then the engine of the moment. *)
RefreshLock(x) ==
  /\ refresh[x].at = "lock"
  /\ LockFree(refresh[x].feature)
  /\ locks' = locks \cup {refresh[x].feature}
  /\ refresh' = [refresh EXCEPT ![x].at = "old", ![x].engine = engine]
  /\ UNCHANGED <<hubVars, listVars, reload, eventVars>>

RefreshOld(x) ==
  /\ refresh[x].at = "old"
  /\ refresh' = [refresh EXCEPT ![x].at = "fetch",
                                ![x].old = cache[refresh[x].feature]]
  /\ UNCHANGED <<hubVars, listVars, reload, locks, eventVars>>

(* Mutant of Released. *)
NeverReleased(x) == locks

(* The guard of the lock is dropped, wherever the refresh ends. *)
Released(x) ==
  IF refresh[x].at = "lock" THEN locks ELSE locks \ {refresh[x].feature}

RefreshReturns(x, result) ==
  /\ refresh' = [refresh EXCEPT ![x] = [NoRefresh EXCEPT !.at = "done",
                                                         !.result = result]]
  /\ locks' = Released(x)

RefreshFetch(x) ==
  LET list == ListOf(ConfigOf(refresh[x].engine), refresh[x].feature) IN
  /\ refresh[x].at = "fetch"
  /\ \/ /\ list = refresh[x].old
        /\ RefreshReturns(x, "unchanged")
     \/ /\ list # refresh[x].old
        /\ refresh' = [refresh EXCEPT ![x].at = "check", ![x].list = list]
        /\ UNCHANGED locks
  /\ UNCHANGED <<hubVars, listVars, reload, eventVars>>

AlwaysFresh(x) == TRUE

(* current_engine_if_fresh *)
IsFresh(x) == refresh[x].engine = engine

RefreshCheck(x) ==
  /\ refresh[x].at = "check"
  /\ \/ /\ IsFresh(x)
        /\ refresh' = [refresh EXCEPT ![x].at = "write"]
        /\ UNCHANGED locks
     \/ /\ ~IsFresh(x)
        /\ RefreshReturns(x, "unchanged")
  /\ UNCHANGED <<hubVars, listVars, reload, eventVars>>

(* Under the cache's write lock the list is compared again and stored. *)
RefreshWrite(x) ==
  LET f == refresh[x].feature IN
  /\ refresh[x].at = "write"
  /\ cache' = [cache EXCEPT ![f] = refresh[x].list]
  /\ \/ /\ cache[f] # refresh[x].list
        /\ Enabled(refresh[x].engine, f)
        /\ refresh' = [refresh EXCEPT ![x].at = "notify"]
        /\ BeginCall(x)
        /\ UNCHANGED locks
     \/ /\ cache[f] # refresh[x].list
        /\ ~Enabled(refresh[x].engine, f)
        /\ RefreshReturns(x, "changed")
        /\ UNCHANGED hubVars
     \/ /\ cache[f] = refresh[x].list
        /\ RefreshReturns(x, "unchanged")
        /\ UNCHANGED hubVars
  /\ UNCHANGED <<engine, serving, version, reload, eventVars>>

RefreshDone(x) ==
  /\ refresh[x].at = "notify"
  /\ Returned(x)
  /\ EndCall(x)
  /\ RefreshReturns(x, "changed")
  /\ UNCHANGED <<listVars, reload, eventVars>>

(* The plugin's list() fails, or the plugin call that asked for the refresh *)
(* is cancelled and dropped at an await.                                    *)
RefreshAbandoned(x) ==
  /\ refresh[x].at \in {"lock", "old", "fetch", "check", "write", "notify"}
  /\ RefreshReturns(x, "none")
  /\ DropCall(x)
  /\ UNCHANGED <<listVars, reload, eventVars>>

-----------------------------------------------------------------------------
(* Registry events: emit_type_event, spawn_registry_event_worker,          *)
(* schedule_registry_list_changed and flush_registry_list_changed.         *)

(* A full broadcast channel drops its oldest event. *)
RegistryChanges(f) ==
  /\ events < MaxEvents
  /\ events' = events + 1
  /\ owed' = owed \cup {f}
  /\ \/ /\ Len(channel) < Capacity
        /\ channel' = Append(channel, f)
        /\ UNCHANGED <<lagged, evicted>>
     \/ /\ Len(channel) = Capacity
        /\ channel' = Append(Tail(channel), f)
        /\ lagged' = TRUE
        /\ evicted' = evicted \cup {Head(channel)}
  /\ UNCHANGED <<hubVars, listVars, reload, refresh, locks, worker, pending, flusher>>

(* The receiver learns once that it has lagged, and goes on. *)
WorkerReceives ==
  /\ worker.at = "recv"
  /\ \/ /\ lagged
        /\ lagged' = FALSE
        /\ UNCHANGED <<channel, worker>>
     \/ /\ ~lagged
        /\ channel # <<>>
        /\ channel' = Tail(channel)
        /\ worker' = [at |-> "check", feature |-> Head(channel)]
        /\ UNCHANGED lagged
  /\ UNCHANGED <<hubVars, listVars, reload, refresh, locks, pending, flusher, events,
                 owed, evicted>>

WorkerIdle == worker' = [at |-> "recv", feature |-> None]

WorkerChecks ==
  /\ worker.at = "check"
  /\ \/ /\ Enabled(engine, worker.feature)
        /\ worker' = [worker EXCEPT !.at = "insert"]
        /\ UNCHANGED owed
     \/ /\ ~Enabled(engine, worker.feature)
        /\ WorkerIdle
        /\ owed' = owed \ {worker.feature}
  /\ UNCHANGED <<hubVars, listVars, reload, refresh, locks, channel, lagged, pending,
                 flusher, events, evicted>>

IsPending(f) == f \in pending

(* The feature is pending already, or becomes so and a flush task starts   *)
(* its sleep.  There is a Flusher for every event, so that one is idle.    *)
WorkerInserts ==
  LET f == worker.feature IN
  /\ worker.at = "insert"
  /\ pending' = pending \cup {f}
  /\ \/ /\ IsPending(f)
        /\ UNCHANGED flusher
     \/ /\ ~IsPending(f)
        /\ \E d \in Flusher :
             /\ flusher[d].at = "idle"
             /\ flusher' = [flusher EXCEPT ![d] = [at |-> "sleep", feature |-> f]]
  /\ WorkerIdle
  /\ UNCHANGED <<hubVars, listVars, reload, refresh, locks, channel, lagged, events,
                 owed, evicted>>

(* Mutant of FlushedPending. *)
FlushKeepsPending(f) == pending

FlushedPending(f) == pending \ {f}

FlushWakes(d) ==
  LET f == flusher[d].feature IN
  /\ flusher[d].at = "sleep"
  /\ pending' = FlushedPending(f)
  /\ flusher' = [flusher EXCEPT ![d].at = IF IsPending(f) THEN "engine" ELSE "done"]
  /\ UNCHANGED <<hubVars, listVars, reload, refresh, locks, channel, lagged, worker,
                 events, owed, evicted>>

(* The engine of the moment says whether the change is announced. *)
FlushChecks(d) ==
  LET f == flusher[d].feature IN
  /\ flusher[d].at = "engine"
  /\ owed' = owed \ {f}
  /\ evicted' = evicted \ {f}
  /\ \/ /\ Enabled(engine, f)
        /\ flusher' = [flusher EXCEPT ![d].at = "notify"]
        /\ BeginCall(d)
     \/ /\ ~Enabled(engine, f)
        /\ flusher' = [flusher EXCEPT ![d].at = "done"]
        /\ UNCHANGED hubVars
  /\ UNCHANGED <<listVars, reload, refresh, locks, channel, lagged, worker, pending,
                 events>>

FlushDone(d) ==
  /\ flusher[d].at = "notify"
  /\ Returned(d)
  /\ EndCall(d)
  /\ flusher' = [flusher EXCEPT ![d].at = "done"]
  /\ UNCHANGED <<listVars, reload, refresh, locks, channel, lagged, worker, pending,
                 events, owed, evicted>>

-----------------------------------------------------------------------------
HubStep ==
  /\ Hub
  /\ UNCHANGED <<listVars, reload, refresh, locks, eventVars>>

ReloadStep(r) ==
  \/ \E c \in Config : ReloadBuild(r, c)
  \/ ReloadFetch(r)
  \/ ReloadDiff(r)
  \/ ReloadSwapEngine(r)
  \/ ReloadSwapCache(r)
  \/ ReloadNotify(r)
  \/ ReloadDone(r)
  \/ ReloadDropped(r)

RefreshStep(x) ==
  \/ \E f \in Feature : RefreshStart(x, f)
  \/ RefreshLock(x)
  \/ RefreshOld(x)
  \/ RefreshFetch(x)
  \/ RefreshCheck(x)
  \/ RefreshWrite(x)
  \/ RefreshDone(x)
  \/ RefreshAbandoned(x)

FlushStep(d) == FlushWakes(d) \/ FlushChecks(d) \/ FlushDone(d)

EventStep ==
  \/ \E f \in Feature : RegistryChanges(f)
  \/ WorkerReceives
  \/ WorkerChecks
  \/ WorkerInserts
  \/ \E d \in Flusher : FlushStep(d)

Next ==
  \/ Run
  \/ \E f \in Feature : PluginDataChanges(f)
  \/ \E r \in Reload : ReloadStep(r)
  \/ \E x \in Refresher : RefreshStep(x)
  \/ EventStep
  \/ HubStep

Spec == Init /\ [][Next]_vars

(* Tokio polls every ready task again, and a client's transport takes or   *)
(* refuses a frame.  Nobody owes a reload, a refresh, a registry event, a  *)
(* request or a change of data, and plugin calls need not be dropped.      *)
HubCallStep(c) ==
  /\ Take(c) \/ Merge(c) \/ \E k \in Key : Send(c, k)
  /\ UNCHANGED <<listVars, reload, refresh, locks, eventVars>>

RefreshRuns(x) ==
  \/ RefreshLock(x)
  \/ RefreshOld(x)
  \/ RefreshFetch(x)
  \/ RefreshCheck(x)
  \/ RefreshWrite(x)
  \/ RefreshDone(x)

WorkerRuns == WorkerReceives \/ WorkerChecks \/ WorkerInserts

Fairness ==
  /\ \A c \in Caller : WF_vars(HubCallStep(c))
  /\ \A x \in Refresher : WF_vars(RefreshRuns(x))
  /\ WF_vars(WorkerRuns)
  /\ \A d \in Flusher : WF_vars(FlushStep(d))

FairSpec == Spec /\ Fairness
=============================================================================
