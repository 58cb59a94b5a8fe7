----------------------------- MODULE HttpRouter -----------------------------
(***************************************************************************)
(* The router of the streamable HTTP transport (http/router.rs): it is     *)
(* built from the configuration and from what router plugins add, and then *)
(* every request passes its layers inwards, down to the MCP service, the   *)
(* OAuth metadata or a plugin's handler, and its answer passes them        *)
(* outwards (http/policy.rs, http/server.rs, plugins/http_router.rs).      *)
(*                                                                         *)
(* A path is the sequence of its segments, whatever its spelling.  axum,   *)
(* rmcp's service and the plugins are external: axum panics on a router    *)
(* nested at the root, and the others answer as they like.  Requests share *)
(* nothing but the limiters (HttpSessions), which let one pass or not.     *)
(* Server starts the router with what it reads from the runtime.           *)
(***************************************************************************)
EXTENDS Naturals, SequencesExt

CONSTANTS
  Request,    \* what a client may send
  App         \* app_segment, which serves the OAuth metadata

Path == Seq(STRING)
Root == <<>>
Star == <<"*">>
OAuthMetadata == <<".well-known", "oauth-protected-resource">>

(* op : what the plugin returns for the target; auth_wrap is a wrap. *)
Target == [type : {"route", "wrap"}, path : Path, op : {"route", "wrap", "auth"}]

(* router : whether it is an http_router plugin; complete : the plugin     *)
(* returns one op for each target.                                         *)
Plugin ==
  [router : BOOLEAN, registered : BOOLEAN, complete : BOOLEAN, targets : Seq(Target)]

(* auth, from the engine's configuration, is whether the endpoint has a    *)
(* layer that checks tokens; enforced and oauth are what the auth state,   *)
(* which run() reads on its own, makes of a token and of the metadata.     *)
RouterConfig ==
  [endpoint : Path, auth : BOOLEAN, enforced : BOOLEAN, oauth : BOOLEAN,
   stream : BOOLEAN, resumption : BOOLEAN, deletion : BOOLEAN,
   mode : {"none", "optional", "required"}, negotiate : BOOLEAN, catchPanics : BOOLEAN,
   sanitize : BOOLEAN, limitsBody : BOOLEAN, creationRate : BOOLEAN,
   rateLimit : {"absent", "bucketless", "excessive", "on"},
   plugins : Seq(Plugin)]

RequestRecord ==
  [path : Path, method : {"GET", "POST", "DELETE"}, session : {"none", "live", "stale"},
   resumes : BOOLEAN, token : BOOLEAN, body : {"small", "declared", "streamed"},
   version : {"none", "known", "unknown"}]

ASSUME RequestAssumption == Request \subseteq RequestRecord /\ App \notin Path

VARIABLES
  config,    \* what the router is built from
  phase,     \* where the construction is, "off" before run_streamable_http
  plugin,    \* the plugin that is processed
  target,    \* its target that is applied, 0 before apply() was called
  routes,    \* plugin_route_order
  layers,    \* layers[p] : the layers of the segment at p, outermost first
  request,   \* the request, as it is past the layers it has seen
  at,        \* the layer that has the request or its answer, 0 for the client
  answer,    \* the answer on its way out
  spent,     \* history: limiters that the request drew on
  said       \* history: what the innermost service answered

building == <<config, phase, plugin, target, routes, layers>>
serving == <<request, at, answer, spent, said>>
routerVars == <<building, serving>>

Says(status, why) == [status |-> status, why |-> why]

NoAnswer == Says("none", "none")

Endpoint == config.endpoint

(* A layer, and the target that a plugin made it for. *)
BuiltIn(kind) == [kind |-> kind, of |-> <<0, 0>>]

Given(condition, kind) == IF condition THEN <<BuiltIn(kind)>> ELSE <<>>

(* apply_streamable_http_hardening_layers: before the plugins' layers. *)
HardeningLayers(c) ==
  Given(c.catchPanics, "catchPanics") \o Given(c.sanitize, "sensitiveHeaders")

NoRequest == CHOOSE q \in Request : TRUE

RouterInit ==
  /\ config = "none"
  /\ phase = "off"
  /\ plugin = 1
  /\ target = 0
  /\ routes = <<>>
  /\ layers = <<>>
  /\ request = NoRequest
  /\ at = 0
  /\ answer = NoAnswer
  /\ spent = {}
  /\ said = NoAnswer

(* run_streamable_http: the segments of the endpoint and of the metadata.  *)
StartRouter(c) ==
  /\ phase = "off"
  /\ config' = c
  /\ phase' = "new"
  /\ layers' = [p \in {c.endpoint, App} |->
                  IF p = c.endpoint THEN HardeningLayers(c) ELSE <<>>]
  /\ UNCHANGED <<plugin, target, routes, serving>>

-----------------------------------------------------------------------------
(* Construction: build_mcp_router, process_plugins, assemble.              *)

(* apply_inbound_rate_limit_layer: tower_governor counts a burst in 32 bits, *)
(* and not less than one; the limiter of session creations takes any.      *)
RateLimitFits == config.rateLimit # "excessive"

BuildMcpRouter ==
  /\ phase = "new"
  /\ phase' = IF Endpoint = Root THEN "panicked"
              ELSE IF RateLimitFits THEN "plugins" ELSE "refused"
  /\ UNCHANGED <<config, plugin, target, routes, layers, serving>>

Targets == config.plugins[plugin].targets

Current == Targets[target]

Refused == phase' = "refused" /\ UNCHANGED <<plugin, target, routes, layers>>

(* What process_plugins and the plugin itself refuse: no targets, a route  *)
(* at *, an unknown plugin, auth_wrap without auth, too few operations.    *)
Unusable(p) ==
  \/ p.targets = <<>>
  \/ \E t \in ToSet(p.targets) : t.type = "route" /\ t.path = Star
  \/ ~p.registered
  \/ ~config.auth /\ \E t \in ToSet(p.targets) : t.op = "auth"
  \/ ~p.complete

(* Only the http_router plugins of the configuration are processed. *)
SkipPlugin ==
  /\ phase = "plugins"
  /\ plugin <= Len(config.plugins)
  /\ target = 0
  /\ ~config.plugins[plugin].router
  /\ plugin' = plugin + 1
  /\ UNCHANGED <<config, phase, target, routes, layers, serving>>

ResolvePlugin ==
  /\ phase = "plugins"
  /\ plugin <= Len(config.plugins)
  /\ target = 0
  /\ config.plugins[plugin].router
  /\ \/ /\ Unusable(config.plugins[plugin])
        /\ Refused
     \/ /\ ~Unusable(config.plugins[plugin])
        /\ target' = 1
        /\ UNCHANGED <<phase, plugin, routes, layers>>
  /\ UNCHANGED <<config, serving>>

Advances ==
  IF target < Len(Targets)
  THEN target' = target + 1 /\ UNCHANGED plugin
  ELSE target' = 0 /\ plugin' = plugin + 1

(* oauth_router *)
MetadataPaths == IF config.oauth THEN {OAuthMetadata, OAuthMetadata \o Endpoint} ELSE {}

Reserved == {Endpoint} \cup MetadataPaths

Applying == phase = "plugins" /\ target > 0

ApplyRoute ==
  /\ Applying
  /\ Current.type = "route"
  /\ \/ /\ \/ Current.path \in Reserved \cup ToSet(routes)
           \/ Current.op # "route"
        /\ Refused
     \/ /\ Current.path \notin Reserved \cup ToSet(routes)
        /\ Current.op = "route"
        /\ routes' = Append(routes, Current.path)
        /\ layers' = [p \in DOMAIN layers \cup {Current.path} |->
                        IF p = Current.path THEN <<>> ELSE layers[p]]
        /\ Advances
        /\ UNCHANGED phase
  /\ UNCHANGED <<config, serving>>

(* Mutant of Wrapped. *)
WrappedAtServerOnly(p) ==
  p = Current.path \/ (Current.path = Star /\ p \in {Endpoint, App})

(* The segments that a wrap target is for: * are all of them, so far. *)
Wrapped(p) == Current.path \in {Star, p}

ApplyWrap ==
  /\ Applying
  /\ Current.type = "wrap"
  /\ \/ /\ \/ Current.path \notin {Star, Endpoint} \cup ToSet(routes)
           \/ Current.op = "route"
        /\ Refused
     \/ /\ Current.path \in {Star, Endpoint} \cup ToSet(routes)
        /\ Current.op # "route"
        /\ layers' = [p \in DOMAIN layers |->
                        IF Wrapped(p)
                        THEN Append(layers[p], [kind |-> Current.op, of |-> <<plugin, target>>])
                        ELSE layers[p]]
        /\ Advances
        /\ UNCHANGED <<phase, routes>>
  /\ UNCHANGED <<config, serving>>

(* axum merges no two segments that serve the same path. *)
Merges == Endpoint \notin MetadataPaths /\ Root \notin ToSet(routes)

Assemble ==
  /\ phase = "plugins"
  /\ plugin > Len(config.plugins)
  /\ phase' = IF Merges THEN "serving" ELSE "panicked"
  /\ UNCHANGED <<config, plugin, target, routes, layers, serving>>

-----------------------------------------------------------------------------
(* The layers of a request, outermost first, and what they do to it.       *)

(* Mutant of McpLayers. *)
McpLayersAuthLast ==
  <<BuiltIn("guard"), BuiltIn("negotiation")>> \o Given(config.limitsBody, "bodyLimit")
    \o Given(config.creationRate, "creationRate") \o Given(config.rateLimit = "on", "rateLimit")
    \o Given(config.auth, "auth") \o <<BuiltIn("service")>>

Admission ==
  Given(config.auth, "auth")
    \o <<BuiltIn("guard"), BuiltIn("negotiation")>> \o Given(config.limitsBody, "bodyLimit")

Limiters == Given(config.creationRate, "creationRate") \o Given(config.rateLimit = "on", "rateLimit")

(* build_mcp_router adds the innermost layer first. *)
McpLayers == Admission \o (Limiters \o <<BuiltIn("service")>>)

Innermost(p) == IF p = Endpoint THEN McpLayers ELSE <<BuiltIn("handler")>>

(* RouterSegment::build lays the last layer first, next to the service. *)
Chain(p) == layers[p] \o Innermost(p)

(* Which segment serves a path. *)
Segment(p) == IF p \in MetadataPaths THEN App ELSE p

Layer == Chain(Segment(request.path))[at]

Arrive(q) ==
  /\ phase = "serving"
  /\ at = 0
  /\ Segment(q.path) \in DOMAIN layers
  /\ request' = q
  /\ at' = 1
  /\ answer' = NoAnswer
  /\ spent' = {}
  /\ said' = NoAnswer
  /\ UNCHANGED building

Passes == at' = at + 1 /\ UNCHANGED <<request, answer, spent, said>>

(* A layer answers by itself: the answer goes out from the next one. *)
Answers(status, why) ==
  /\ answer' = Says(status, why)
  /\ at' = at - 1
  /\ UNCHANGED <<request, spent, said>>

(* auth_middleware, for the endpoint or as a plugin's auth_wrap. *)
AuthLayer ==
  /\ Layer.kind = "auth"
  /\ IF request.token \/ ~config.enforced THEN Passes ELSE Answers("401", "token")

NotAllowed ==
  \/ request.method = "GET" /\ ~config.stream
  \/ request.method = "DELETE" /\ ~config.deletion

ResumesInVain == request.method = "GET" /\ ~config.resumption /\ request.resumes

LacksSession ==
  /\ config.mode = "required"
  /\ request.method \in {"GET", "DELETE"}
  /\ request.session = "none"

(* streamable_http_route_guard *)
GuardLayer ==
  /\ Layer.kind = "guard"
  /\ \/ NotAllowed /\ Answers("405", "method")
     \/ ~NotAllowed /\ ResumesInVain /\ Answers("400", "resumption")
     \/ ~NotAllowed /\ ~ResumesInVain /\ LacksSession /\ Answers("400", "session missing")
     \/ ~NotAllowed /\ ~ResumesInVain /\ ~LacksSession /\ Passes

(* normalize_protocol_version_header drops what nobody knows. *)
NegotiationLayer ==
  /\ Layer.kind = "negotiation"
  /\ request' = IF config.negotiate /\ request.version = "unknown"
                THEN [request EXCEPT !.version = "none"] ELSE request
  /\ at' = at + 1
  /\ UNCHANGED <<answer, spent, said>>

BodyLimitLayer ==
  /\ Layer.kind = "bodyLimit"
  /\ IF request.body = "declared" THEN Answers("413", "length") ELSE Passes

(* is_session_creation_request; the session mode does not matter. *)
CreatesSession == request.method = "POST" /\ request.session = "none"

DrawsOn(limiter) ==
  /\ spent' = spent \cup {limiter}
  /\ at' = at + 1
  /\ UNCHANGED <<request, answer, said>>

LimiterLayer ==
  /\ Layer.kind \in {"creationRate", "rateLimit"}
  /\ \/ Layer.kind = "creationRate" /\ ~CreatesSession /\ Passes
     \/ /\ Layer.kind = "creationRate" => CreatesSession
        /\ DrawsOn(Layer.kind) \/ Answers("429", "rate")

(* Layers that only mark a request or wait for a panic. *)
QuietLayer ==
  /\ Layer.kind \in {"catchPanics", "sensitiveHeaders"}
  /\ Passes

(* External: a plugin's wrap lets a request pass, answers it, or panics. *)
PluginLayer ==
  /\ Layer.kind = "wrap"
  /\ Passes \/ Answers("200", "plugin") \/ Answers("panic", "plugin")

(* External: what rmcp's service says, the session errors with status 401. *)
ServiceAnswers ==
  IF request.version = "unknown" THEN {Says("400", "version")}
  ELSE IF config.mode = "none"
       THEN IF request.method = "POST" THEN {Says("200", "done")} ELSE {Says("405", "method")}
  ELSE IF request.session = "stale" THEN {Says("401", "session unknown")}
  ELSE IF request.session = "none" /\ request.method # "POST"
       THEN {Says("401", "session missing")}
  ELSE IF request.session = "none" THEN {Says("200", "created"), Says("500", "refused")}
  ELSE {Says("200", "done")}

InnermostAnswers(a) ==
  /\ answer' = a
  /\ said' = a
  /\ at' = at - 1
  /\ UNCHANGED <<request, spent>>

Service ==
  \/ /\ Layer.kind = "service"
     /\ IF config.limitsBody /\ request.body = "streamed" THEN InnermostAnswers(Says("413", "length"))
        ELSE \E a \in ServiceAnswers : InnermostAnswers(a)
  \/ /\ Layer.kind = "handler"
     /\ \/ InnermostAnswers(Says("200", "plugin"))
        \/ Segment(request.path) # App /\ InnermostAnswers(Says("panic", "plugin"))

Inward ==
  /\ at > 0
  /\ answer = NoAnswer
  /\ \/ AuthLayer
     \/ GuardLayer
     \/ NegotiationLayer
     \/ BodyLimitLayer
     \/ LimiterLayer
     \/ QuietLayer
     \/ PluginLayer
     \/ Service
  /\ UNCHANGED building

(* Mutant of Remapped. *)
RemappedUnknownOnly(a) ==
  IF a.status = "401" /\ a.why = "session unknown" THEN Says("404", a.why) ELSE a

(* remap_session_status: of what comes back through the guard. *)
Remapped(a) ==
  IF a.status = "401" /\ a.why = "session missing" THEN Says("400", a.why)
  ELSE IF a.status = "401" /\ a.why = "session unknown" THEN Says("404", a.why)
  ELSE a

Caught(a) == IF a.status = "panic" THEN Says("500", a.why) ELSE a

(* The answer leaves through the layers that the request has passed. *)
Outward ==
  /\ at > 0
  /\ answer # NoAnswer
  /\ answer' = CASE Layer.kind = "guard" -> Remapped(answer)
                 [] Layer.kind = "catchPanics" -> Caught(answer)
                 [] OTHER -> answer
  /\ at' = at - 1
  /\ UNCHANGED <<building, request, spent, said>>

RouterNext ==
  \/ BuildMcpRouter
  \/ SkipPlugin
  \/ ResolvePlugin
  \/ ApplyRoute
  \/ ApplyWrap
  \/ Assemble
  \/ Inward
  \/ Outward
  \/ \E q \in Request : Arrive(q)

-----------------------------------------------------------------------------
(* What the configuration declares, read as a whole.  The place of a       *)
(* target is its plugin and its position there, as an entry of the layers  *)
(* names it.                                                               *)
TargetAt(w) == config.plugins[w[1]].targets[w[2]]

Places ==
  UNION {{i} \X DOMAIN config.plugins[i].targets :
           i \in {j \in DOMAIN config.plugins : config.plugins[j].router}}

Before(v, w) == v[1] < w[1] \/ (v[1] = w[1] /\ v[2] < w[2])

Routes(v, p) == TargetAt(v).type = "route" /\ TargetAt(v).path = p

(* The wraps of the segment at p: those for p and for *, and on a plugin's *)
(* route only the ones that come after it.                                 *)
Covers(w, p) ==
  /\ TargetAt(w).type = "wrap"
  /\ TargetAt(w).path \in {Star, p}
  /\ p \in {Endpoint, App} \/ \E v \in Places : Before(v, w) /\ Routes(v, p)

DeclaredWraps(p) == {w \in Places : Covers(w, p)}

OfPlugin(chain) == {k \in DOMAIN chain : chain[k].of # <<0, 0>>}

(* Each segment carries just the wraps that the configuration declares for *)
(* it, the first declared outermost, whichever plugins they come from      *)
(* (router.rs:551-638; docs/CONFIG_SCHEMA.md:910-913).                     *)
WrapsAsDeclared ==
  phase = "serving" =>
    \A p \in DOMAIN layers :
      LET chain == Chain(p) IN
      /\ {chain[k].of : k \in OfPlugin(chain)} = DeclaredWraps(p)
      /\ \A k, m \in OfPlugin(chain) : k < m => Before(chain[k].of, chain[m].of)
      /\ \A k \in OfPlugin(chain) : chain[k].kind = TargetAt(chain[k].of).op

Answered == phase = "serving" /\ at = 0 /\ answer # NoAnswer

AuthWraps(p) == \E w \in DeclaredWraps(p) : TargetAt(w).op = "auth"

(* Whatever plugins wrap around the endpoint, a request that authorization, *)
(* where it is enforced, or the route guard turns away, or that is too     *)
(* long, draws on no limiter and never reaches the service: nobody without *)
(* a token can use up the rate of those with one (router.rs:337-370).      *)
OnlyAdmitted ==
  /\ (spent # {} \/ said # NoAnswer) /\ request.path = Endpoint =>
       /\ config.auth /\ config.enforced => request.token
       /\ ~NotAllowed /\ ~ResumesInVain /\ ~LacksSession
       /\ config.limitsBody => request.body # "declared"
  /\ said # NoAnswer /\ AuthWraps(Segment(request.path)) /\ config.enforced => request.token

(* The status that a client sees means what it says: 401 that its token    *)
(* was not accepted, and never that its session has gone, which is 404, or *)
(* was not named, which is 400; a panic behind the endpoint is an answer,  *)
(* unless it is not to be caught (policy.rs:92-120, router.rs:253-281).    *)
StatusTellsWhy ==
  Answered =>
    /\ answer.status = "401" => ~request.token
    /\ said.why = "session unknown" /\ answer.why = said.why => answer.status = "404"
    /\ said.why = "session missing" /\ answer.why = said.why => answer.status = "400"
    /\ answer.status = "panic" => request.path # Endpoint \/ ~config.catchPanics
=============================================================================
