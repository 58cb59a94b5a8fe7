--------------------------- MODULE ServerRequests ---------------------------
(***************************************************************************)
(* What an engine built from a configuration advertises                    *)
(* (engine/handler/server_info.rs) and what its handlers answer            *)
(* (engine/handler.rs and engine/handler/, engine/orchestration/).         *)
(*                                                                         *)
(* Each provider stands for one of its items, and is named by its place;   *)
(* 0 is an item nobody has.  Plugins answer well: only what the server     *)
(* itself decides about a request is told apart.                           *)
(***************************************************************************)
EXTENDS ServerConfig

Done == "done"
MethodNotFound == "method not found"
Unknown == "unknown"            \* invalid params or resource not found: the client's mistake
Unresolved == "unresolved"      \* not registered, not defined: the server's

Section(f, kind) == IF kind = "prompts" THEN f.prompts ELSE f.resources

TypeOf(kind) == IF kind = "prompts" THEN "prompt" ELSE "resource"

(* tool_map: of two tools with one name the last one is called. *)
ToolNamed(f, name) ==
  f.tools.items[SelectLastInSeq(f.tools.items, LAMBDA t : t.name = name)]

ToolNames(f) == {t.name : t \in Tools(f)}

(* resource_subscribe_enabled *)
SubscribeEnabled(f) == f.resources.state # "absent" /\ f.resources.subscribe

-----------------------------------------------------------------------------
(* build_server_capabilities *)

TasksOn(f, features) == "tasks_utility" \in features /\ Active(f.tasks)

(* Mutant of Capabilities: all of the tasks' capabilities, once they are on. *)
CapabilitiesOfTasks(f, features) ==
  {c \in {"tools", "tasks", "tasks.list", "tasks.cancel"} :
     c = "tools" \/ TasksOn(f, features)}

Capabilities(f, features) ==
  {"tools"}
    \cup {kind \in {"prompts", "resources"} : kind \in features /\ Active(Section(f, kind))}
    \cup {c \in {"resources.subscribe"} :
            "resources" \in features /\ Active(f.resources) /\ f.resources.subscribe}
    \cup {c \in {"logging"} : "client_logging" \in features /\ f.logging}
    \cup {c \in {"completions"} : "completion" \in features /\ Active(f.completion)}
    \cup {c \in {"tasks"} : TasksOn(f, features)}
    \cup {c \in {"tasks.list"} : TasksOn(f, features) /\ f.tasks.list}
    \cup {c \in {"tasks.cancel"} : TasksOn(f, features) /\ f.tasks.cancel}
    \cup {c \in {"tasks.call"} :
            TasksOn(f, features)
              /\ \E name \in ToolNames(f) : ToolNamed(f, name).task # "forbidden"}

-----------------------------------------------------------------------------
(* The handlers.                                                           *)

Resolved(known) == IF known THEN Done ELSE Unresolved

(* execute_tool_with_context; no check has looked at the upstream. *)
CallTool(f, plugins, name) ==
  IF name \notin ToolNames(f) THEN Unknown
  ELSE LET t == ToolNamed(f, name) IN
       IF t.kind = "plugin" THEN Resolved(t.plugin \in plugins["tool"])
       ELSE IF t.upstream \in f.upstreams THEN Done ELSE "unknown upstream"

(* handle_enqueue_task_request *)
EnqueueTask(f, features, name) ==
  IF ~TasksOn(f, features) THEN MethodNotFound
  ELSE IF name \notin ToolNames(f) THEN Unknown
  ELSE IF ToolNamed(f, name).task = "forbidden" THEN MethodNotFound
  ELSE Done

(* The other task requests: with a task of the client's. *)
AskTasks(f, features, method) ==
  IF /\ TasksOn(f, features)
     /\ method = "tasks/list" => f.tasks.list
     /\ method = "tasks/cancel" => f.tasks.cancel
  THEN Done ELSE MethodNotFound

(* build_prompt_catalog, build_resource_catalog: an inactive section has   *)
(* an empty catalog; a plugin's prompts may name sources as well.          *)
CatalogResolves(f, plugins, kind) ==
  Active(Section(f, kind)) =>
    \A p \in ToSet(Section(f, kind).providers) :
      /\ p.plugin # Inline => p.plugin \in plugins[TypeOf(kind)]
      /\ Active(f.completion) /\ p.source # "none" => p.source \in SourceNames(f)

Items(f, kind) ==
  IF Active(Section(f, kind)) THEN DOMAIN Section(f, kind).providers ELSE {}

ListItems(f, features, plugins, kind) ==
  IF kind \notin features THEN MethodNotFound ELSE Resolved(CatalogResolves(f, plugins, kind))

(* prompts/get, resources/read *)
ReadItem(f, features, plugins, kind, i) ==
  IF kind \notin features THEN MethodNotFound
  ELSE IF ~CatalogResolves(f, plugins, kind) THEN Unresolved
  ELSE IF i \notin Items(f, kind) THEN Unknown
  ELSE LET p == Section(f, kind).providers[i] IN
       Resolved(p.plugin = Inline \/ p.plugin \in plugins[TypeOf(kind)])

(* resources/subscribe, resources/unsubscribe *)
Subscribe(f, features, plugins, i) ==
  IF "resources" \notin features \/ ~SubscribeEnabled(f) THEN MethodNotFound
  ELSE ReadItem(f, features, plugins, "resources", i)

(* complete_request, complete_from_source *)
CompleteFrom(f, plugins, source) ==
  IF source = "none" THEN Done
  ELSE IF source \notin SourceNames(f) THEN Unresolved
  ELSE LET s == CHOOSE s \in ToSet(f.completion.providers) : s.name = source IN
       Resolved(s.plugin = Inline \/ s.plugin \in plugins["completion"])

Complete(f, features, plugins, kind, i) ==
  IF "completion" \notin features \/ ~Active(f.completion) THEN MethodNotFound
  ELSE IF kind \notin features THEN Unknown
  ELSE IF ~CatalogResolves(f, plugins, kind) THEN Unresolved
  ELSE IF i \notin Items(f, kind) THEN Unknown
  ELSE CompleteFrom(f, plugins, Section(f, kind).providers[i].source)

(* logging/setLevel: an inactive section takes it for done. *)
SetLevel(features) == IF "client_logging" \in features THEN Done ELSE MethodNotFound

-----------------------------------------------------------------------------
(* All the requests that a client may make of f: the method and its object. *)

ToolRequests(f) ==
  {"tools/call", "tools/call as task"}
    \X ({"nobody"} \cup {t.name : t \in ToSet(f.tools.items)})

PlainRequests ==
  {"tasks/list", "tasks/cancel", "tasks/get", "tasks/result", "logging/setLevel"} \X {"none"}

ListRequests == {"list"} \X {"prompts", "resources"}

ItemRequests(f, method, kind) ==
  {<<method, kind, i>> : i \in {0} \cup DOMAIN Section(f, kind).providers}

Requests(f) ==
  ToolRequests(f) \cup PlainRequests \cup ListRequests
    \cup ItemRequests(f, "read", "prompts") \cup ItemRequests(f, "read", "resources")
    \cup ItemRequests(f, "complete", "prompts") \cup ItemRequests(f, "complete", "resources")
    \cup ItemRequests(f, "subscribe", "resources")

Answer(f, features, plugins, q) ==
  CASE q[1] = "tools/call" -> CallTool(f, plugins, q[2])
    [] q[1] = "tools/call as task" -> EnqueueTask(f, features, q[2])
    [] q[1] = "logging/setLevel" -> SetLevel(features)
    [] q[1] = "list" -> ListItems(f, features, plugins, q[2])
    [] q[1] = "read" -> ReadItem(f, features, plugins, q[2], q[3])
    [] q[1] = "complete" -> Complete(f, features, plugins, q[2], q[3])
    [] q[1] = "subscribe" -> Subscribe(f, features, plugins, q[3])
    [] OTHER -> AskTasks(f, features, q[1])

(* The requests that a capability invites. *)
Invites(f, capability, q) ==
  \/ capability \in {"prompts", "resources"} /\ q[1] \in {"list", "read"} /\ q[2] = capability
  \/ capability = "resources.subscribe" /\ q[1] = "subscribe"
  \/ capability = "logging" /\ q[1] = "logging/setLevel"
  \/ capability = "completions" /\ q[1] = "complete"
  \/ capability = "tasks" /\ q[1] \in {"tasks/get", "tasks/result"}
  \/ capability = "tasks.list" /\ q[1] = "tasks/list"
  \/ capability = "tasks.cancel" /\ q[1] = "tasks/cancel"
  \/ capability = "tasks.call" /\ q[1] = "tools/call as task"
       /\ \E t \in Tools(f) : t.name = q[2] /\ ToolNamed(f, q[2]).task # "forbidden"
=============================================================================
