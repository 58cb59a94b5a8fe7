------------------------------ MODULE MCServer ------------------------------
(* Instances of the server for TLC: a plain configuration, and each way to *)
(* differ from it that some check looks at.                                *)
EXTENDS Server, TLC

Mcp == <<"mcp">>
Health == <<"health">>
Ready == <<"ready">>

-----------------------------------------------------------------------------
(* Configurations over stdio.                                              *)

NoHttp ==
  [on |-> FALSE, blank |-> FALSE, endpoint |-> Mcp, stream |-> TRUE, resumption |-> FALSE,
   deletion |-> FALSE, sessions |-> "optional", hardened |-> FALSE, sessionLimits |-> FALSE,
   rateLimit |-> "absent", creationRate |-> "absent", negotiate |-> FALSE,
   catchPanics |-> TRUE, sanitize |-> TRUE]

Absent == [state |-> "absent", providers |-> <<>>]

Plain ==
  [coded |-> FALSE, text |-> "plain", level |-> "info", plugins |-> <<>>, retries |-> <<>>,
   upstreams |-> {"api"}, combinators |-> "off",
   tools |-> [state |-> "absent", items |-> <<>>],
   prompts |-> Absent,
   resources |-> [state |-> "absent", providers |-> <<>>, subscribe |-> FALSE],
   completion |-> Absent,
   tasks |-> [state |-> "absent", list |-> FALSE, cancel |-> FALSE],
   logging |-> FALSE, progress |-> FALSE, asks |-> {},
   auth |-> [state |-> "absent", resource |-> FALSE, providers |-> <<>>],
   http |-> NoHttp]

PluginOf(name, type) == [name |-> name, type |-> type, targets |-> <<>>, complete |-> TRUE]

HttpTool ==
  [name |-> "get", legal |-> TRUE, kind |-> "http", plugin |-> "-", upstream |-> "api",
   task |-> "forbidden", combines |-> FALSE]

PluginTool == [HttpTool EXCEPT !.name = "calc", !.kind = "plugin", !.plugin = "a"]

WithTools(f, items) == [f EXCEPT !.tools = [state |-> "on", items |-> items]]

Calc == WithTools([Plain EXCEPT !.plugins = <<PluginOf("a", "tool")>>], <<PluginTool>>)

WithTasks(f, state, list, cancel) ==
  [f EXCEPT !.tasks = [state |-> state, list |-> list, cancel |-> cancel]]

ToolFiles ==
  {Calc, [Calc EXCEPT !.plugins = <<>>], [Calc EXCEPT !.plugins = <<PluginOf("a", "prompt")>>],
   [Calc EXCEPT !.tools.state = "off"]}
    \cup {WithTools(Plain, <<t>>) :
            t \in {HttpTool, [HttpTool EXCEPT !.legal = FALSE],
                   [HttpTool EXCEPT !.upstream = "nowhere"], [HttpTool EXCEPT !.combines = TRUE]}}
    \cup {WithTasks(WithTools(Plain, items), state, list, ~list) :
            items \in {<<[HttpTool EXCEPT !.task = "optional"]>>,
                       <<[HttpTool EXCEPT !.task = "required"], HttpTool>>},
            state \in {"off", "on"}, list \in BOOLEAN}

From(name, source) == [plugin |-> name, source |-> source, complete |-> TRUE]

Hints(name) == [name |-> "hints", plugin |-> name]

Completed(state, sources) == [state |-> state, providers |-> sources]

Catalog(kind, f, state, providers) ==
  IF kind = "prompts" THEN [f EXCEPT !.prompts = [state |-> state, providers |-> providers]]
  ELSE [f EXCEPT !.resources = [state |-> state, providers |-> providers, subscribe |-> TRUE]]

CatalogFiles ==
  {Catalog(kind, [Plain EXCEPT !.plugins = list, !.completion = completion],
           state, <<From(name, source)>>) :
     kind \in {"prompts", "resources"}, state \in {"off", "on"},
     list \in {<<>>, <<PluginOf("a", "prompt")>>,
                  <<PluginOf("a", "resource"), PluginOf("b", "completion")>>},
     completion \in {Absent, Completed("on", <<Hints(Inline)>>), Completed("on", <<Hints("b")>>)},
     name \in {Inline, "a"}, source \in {"none", "hints", "else"}}
    \cup {[Plain EXCEPT !.completion = c, !.coded = coded] :
            c \in {Completed("on", <<>>), Completed("on", <<Hints(Inline), Hints(Inline)>>)},
            coded \in BOOLEAN}
    \cup {Catalog("resources", Plain, "on", <<[From(Inline, "none") EXCEPT !.complete = FALSE]>>)}

(* What the loader looks at. *)
LoaderFiles ==
  {[Calc EXCEPT !.text = t] :
     t \in {"missing", "unclosed", "nameless", "unparsable", "notSchema"}}
    \cup {[Calc EXCEPT !.plugins = <<PluginOf("a", "tool"), PluginOf("a", "prompt")>>,
                       !.coded = coded] : coded \in BOOLEAN}
    \cup {[Calc EXCEPT !.combinators = c, !.tools.items = <<[PluginTool EXCEPT !.combines = TRUE]>>] :
            c \in {"warn", "error"}}
    \cup {[Plain EXCEPT !.retries = <<r>>] :
            r \in [attempts : {0, 1}, delay : {0, 1}, network : BOOLEAN, statuses : BOOLEAN]}
    \cup {[Plain EXCEPT !.level = l] : l \in {"debug", "loud"}}
    \cup {[Plain EXCEPT !.logging = TRUE], [Plain EXCEPT !.progress = TRUE],
          [Plain EXCEPT !.asks = {"sampling"}]}

-----------------------------------------------------------------------------
(* Configurations over HTTP.                                               *)

Provider ==
  [name |-> "p", kind |-> "bearer", plugin |-> "-", issuer |-> "none", discovery |-> FALSE,
   missingIss |-> FALSE]

Jwks == [Provider EXCEPT !.name = "q", !.kind = "jwks", !.issuer = "iss"]

Secured(f, state, resource, providers) ==
  [f EXCEPT !.auth = [state |-> state, resource |-> resource, providers |-> providers]]

Web == [Plain EXCEPT !.http.on = TRUE]

ByPlugin == <<[Provider EXCEPT !.kind = "plugin", !.plugin = "a"]>>

AuthFiles ==
  {Secured(f, state, resource, providers) :
     f \in {Plain, Web}, state \in {"off", "on"}, resource \in BOOLEAN,
     providers \in {<<>>, <<Provider>>, <<Jwks>>}}
    \cup {Secured(Web, "on", TRUE, providers) :
            providers \in
              {<<Provider, [Jwks EXCEPT !.name = "p"]>>, <<Provider, [Provider EXCEPT !.name = "r"]>>,
               <<Jwks, [Jwks EXCEPT !.name = "r"]>>, <<[Jwks EXCEPT !.issuer = "none"]>>,
               <<[Jwks EXCEPT !.issuer = "blank"]>>,
               <<[Jwks EXCEPT !.missingIss = TRUE],
                 [Jwks EXCEPT !.name = "r", !.issuer = "iss2", !.missingIss = TRUE]>>}}
    \cup {Secured([Web EXCEPT !.plugins = list], state, FALSE, ByPlugin) :
            list \in {<<>>, <<PluginOf("a", "auth")>>}, state \in {"off", "on"}}

TransportFiles ==
  {[Web EXCEPT !.http.blank = TRUE], [Web EXCEPT !.http.resumption = TRUE, !.http.stream = FALSE],
   [Web EXCEPT !.http.rateLimit = "bucketless", !.http.hardened = TRUE],
   [Web EXCEPT !.http.endpoint = Root],
   [Web EXCEPT !.http.rateLimit = "excessive", !.http.hardened = TRUE]}
    \cup {[Web EXCEPT !.http.sessions = "none", !.http.deletion = deletion,
                      !.http.sessionLimits = limits, !.http.hardened = limits, !.coded = TRUE] :
            deletion, limits \in BOOLEAN}

RouteAt(path) == [type |-> "route", path |-> path, op |-> "route"]
WrapAt(path, op) == [type |-> "wrap", path |-> path, op |-> op]

Router(name, targets) ==
  [name |-> name, type |-> "http_router", targets |-> targets, complete |-> TRUE]

(* Targets of a first and of a second plugin, with ones to be refused. *)
First ==
  {<<RouteAt(Health), WrapAt(Star, "wrap")>>, <<WrapAt(Star, "auth"), RouteAt(Health)>>,
   <<WrapAt(Mcp, "wrap"), WrapAt(Health, "wrap")>>, <<RouteAt(Root)>>, <<RouteAt(Star)>>,
   <<>>}

Second ==
  {<<WrapAt(Health, "auth"), WrapAt(Mcp, "wrap")>>, <<RouteAt(Ready), WrapAt(Star, "wrap")>>,
   <<RouteAt(Health)>>, <<RouteAt(Mcp)>>, <<RouteAt(OAuthMetadata)>>,
   <<WrapAt(Health, "route")>>, <<[RouteAt(Ready) EXCEPT !.op = "wrap"]>>}

Policies ==
  {[stream |-> TRUE, resumption |-> FALSE, deletion |-> TRUE, mode |-> "required"],
   [stream |-> TRUE, resumption |-> TRUE, deletion |-> TRUE, mode |-> "optional"],
   [stream |-> FALSE, resumption |-> FALSE, deletion |-> FALSE, mode |-> "none"]}

Following(f, p) ==
  [f EXCEPT !.http.stream = p.stream, !.http.resumption = p.resumption,
            !.http.deletion = p.deletion, !.http.sessions = p.mode]

Hardened(f, sessions) ==
  [f EXCEPT !.http.hardened = TRUE, !.http.rateLimit = "on", !.http.negotiate = TRUE,
            !.http.sessionLimits = sessions, !.http.catchPanics = sessions,
            !.http.creationRate = IF sessions THEN "on" ELSE "absent"]

Open == Web
Guarded == Secured(Web, "on", TRUE, <<Jwks>>)

PolicyFiles ==
  {Following(f, p) : f \in {Open, Guarded}, p \in Policies}
    \cup {Hardened(Following(f, p), p.mode # "none") : f \in {Open, Guarded}, p \in Policies}

RouterFiles ==
  {[Hardened(f, TRUE) EXCEPT !.plugins = <<Router("a", first), Router("b", second)>>] :
     f \in {Open, Guarded}, first \in First, second \in Second}
    \cup {[Guarded EXCEPT !.http.endpoint = OAuthMetadata],
          [Guarded EXCEPT !.plugins =
             <<PluginOf("a", "auth"), Router("b", <<RouteAt(OAuthMetadata \o Mcp)>>)>>],
          [Open EXCEPT !.plugins = <<[Router("a", <<RouteAt(Health)>>) EXCEPT !.complete = FALSE]>>],
          [Plain EXCEPT !.plugins = <<Router("a", <<RouteAt(Health)>>)>>]}

Loud == [Plain EXCEPT !.level = "loud"]

(* It sets the level and is refused after that. *)
Rude == [Web EXCEPT !.level = "debug", !.http.blank = TRUE]

Files ==
  {Open, Guarded, Calc, Loud, Rude} \cup ToolFiles \cup CatalogFiles \cup LoaderFiles \cup AuthFiles \cup TransportFiles
    \cup PolicyFiles \cup RouterFiles

(* A reload may open or guard the endpoint, go to stdio, or be refused. *)
Reloads ==
  [f \in Files |-> CASE f = Open -> {Guarded, Loud, Rude}
                    [] f = Guarded -> {Open, Calc}
                    [] f = Calc -> {Guarded}
                    [] OTHER -> {}]

Builds == {Feature, {"streamable_http", "prompts"}, {}}

Plugins ==
  {"a"} \X (PluginType \ {"completion"}) \cup {<<"b", "completion">>, <<"b", "http_router">>}

-----------------------------------------------------------------------------
Asks ==
  [path |-> Mcp, method |-> "POST", session |-> "none", resumes |-> FALSE,
   token |-> TRUE, body |-> "small", version |-> "none"]

HttpRequests ==
  {[Asks EXCEPT !.method = m, !.session = s, !.token = t] :
     m \in {"GET", "POST", "DELETE"}, s \in {"none", "live", "stale"}, t \in BOOLEAN}
  \cup {[Asks EXCEPT !.body = b] : b \in {"declared", "streamed"}}
  \cup {[Asks EXCEPT !.version = v] : v \in {"known", "unknown"}}
  \cup {[Asks EXCEPT !.method = "GET", !.session = "live", !.resumes = TRUE]}
  \cup {[Asks EXCEPT !.path = p, !.token = t] :
          p \in {Health, Ready, OAuthMetadata, OAuthMetadata \o Mcp}, t \in BOOLEAN}
=============================================================================
