------------------------------ MODULE Catalogs ------------------------------
(***************************************************************************)
(* The catalogs of prompts and resources of an engine (engine/resources.rs, *)
(* engine/prompts.rs and their dispatch): how a refresh builds them from   *)
(* the lists of their providers, how clients page through them, and which  *)
(* provider answers a request that names one of their keys.                *)
(*                                                                         *)
(* The runtime has built both catalogs before it serves, so that they are  *)
(* never missing.  A key is the URI of a resource or the name of a prompt. *)
(* A request that the client has cancelled before it is looked at changes  *)
(* nothing and is not a step.                                              *)
(***************************************************************************)
EXTENDS Naturals, Sequences, FiniteSetsExt, SequencesExt

CONSTANTS
  Feature,       \* a subset of {"prompts", "resources"}
  Key,           \* URIs and names
  Provider,      \* entries of providers in the configuration
  Plugin,        \* those that a plugin answers; the others are inline
  ProvidersOf,   \* ProvidersOf[f] : providers, in the order they are configured
  Lists,         \* Lists[p][v] : the keys that provider p lists at version v
  Sound,         \* Sound[p][v] : whether that list passes validation
  Template,      \* templates of resources, in the order they are configured
  PageSize,      \* pagination.page_size
  Refresher,     \* calls of refresh_list
  Client,
  MaxVersion,    \* bound of the versions of a plugin's data
  None           \* no feature, key or target

Subscription == Client \X Key

ASSUME CatalogsAssumption ==
  /\ Feature \subseteq {"prompts", "resources"}
  /\ Plugin \subseteq Provider
  /\ ProvidersOf \in [Feature -> Seq(Provider)]
  /\ \A f \in Feature : IsInjective(ProvidersOf[f]) /\ ProvidersOf[f] # <<>>
  /\ MaxVersion \in Nat
  /\ Lists \in [Provider -> [0..MaxVersion -> Seq(Key)]]
  /\ Sound \in [Provider -> [0..MaxVersion -> BOOLEAN]]
  /\ \A p \in Provider : Sound[p][0]
  /\ Template \in Seq([provider : Provider, matches : SUBSET Key,
                       accepts : SUBSET Key])
  /\ PageSize \in Nat
  /\ Provider \cap {"notFound", "invalidArguments", "values", "undefinedSource"}
       = {}

VARIABLES
  version,      \* version[p] : of the data behind p's list()
  catalog,      \* catalog[f] : the version of each provider it was built from
  refresh,      \* refresh[x] : where a refresh is, and what it has built
  locks,        \* features whose refresh lock is held
  client,       \* client[c] : the listing and the request of a client
  subscribed    \* subscribed[p] : what plugin p has been asked to watch

vars == <<version, catalog, refresh, locks, client, subscribed>>

Build == [Provider -> 0..MaxVersion]
Item == [key : Key, provider : Provider]

NoRefresh ==
  [at |-> "idle", feature |-> None, next |-> 1,
   built |-> [p \in Provider |-> 0]]

Idle ==
  [at |-> "idle", feature |-> None, cursor |-> 0, got |-> <<>>, clean |-> TRUE,
   op |-> None, key |-> None, target |-> None]

(* The entries of a catalog: one provider's after the other's. *)
Items(f, built) ==
  FlattenSeq([i \in 1..Len(ProvidersOf[f]) |->
    LET p == ProvidersOf[f][i] IN
    [j \in 1..Len(Lists[p][built[p]]) |->
       [key |-> Lists[p][built[p]][j], provider |-> p]]])

Listing(f) == Items(f, catalog[f])

Init ==
  /\ version = [p \in Provider |-> 0]
  /\ catalog = [f \in Feature |-> [p \in Provider |-> 0]]
  /\ refresh = [x \in Refresher |-> NoRefresh]
  /\ locks = {}
  /\ client = [c \in Client |-> Idle]
  /\ subscribed = [p \in Plugin |-> {}]

(* The data behind a plugin's list() changes. *)
PluginDataChanges(p) ==
  /\ version[p] < MaxVersion
  /\ version' = [version EXCEPT ![p] = @ + 1]
  /\ UNCHANGED <<catalog, refresh, locks, client, subscribed>>

-----------------------------------------------------------------------------
(* refresh_list down to refresh_prompt_catalog and refresh_resource_catalog. *)

RefreshStart(x, f) ==
  /\ refresh[x].at = "idle"
  /\ refresh' = [refresh EXCEPT ![x].at = "lock", ![x].feature = f]
  /\ UNCHANGED <<version, catalog, locks, client, subscribed>>

(* Mutant of LockFree. *)
LockIgnored(f) == TRUE

LockFree(f) == f \notin locks

RefreshLock(x) ==
  /\ refresh[x].at = "lock"
  /\ LockFree(refresh[x].feature)
  /\ locks' = locks \cup {refresh[x].feature}
  /\ refresh' = [refresh EXCEPT ![x].at = "build"]
  /\ UNCHANGED <<version, catalog, client, subscribed>>

(* Mutant of Accepted. *)
AcceptedUnseen(p) == TRUE

(* URIs are URIs, schemas compile, and completions name arguments of the   *)
(* schema and providers of the configuration.                              *)
Accepted(p) == Sound[p][version[p]]

(* list() of one provider after the other, with an await for each. *)
RefreshBuild(x) ==
  LET providers == ProvidersOf[refresh[x].feature]
      i == refresh[x].next
      p == providers[i] IN
  /\ refresh[x].at = "build"
  /\ Accepted(p)
  /\ refresh' = [refresh EXCEPT
                   ![x].built[p] = version[p],
                   ![x].next = i + 1,
                   ![x].at = IF i = Len(providers) THEN "store" ELSE "build"]
  /\ UNCHANGED <<version, catalog, locks, client, subscribed>>

(* Whatever a client has seen of a catalog that changes is out of date. *)
Aged(f, built) ==
  [c \in Client |->
     IF client[c].feature = f /\ Items(f, built) # Listing(f)
     THEN [client[c] EXCEPT !.clean = FALSE]
     ELSE client[c]]

(* The write lock of the catalog; what refresh_list does after it with the *)
(* runtime's cache is in RuntimeLists.                                     *)
RefreshStore(x) ==
  LET f == refresh[x].feature IN
  /\ refresh[x].at = "store"
  /\ catalog' = [catalog EXCEPT ![f] = refresh[x].built]
  /\ client' = Aged(f, refresh[x].built)
  /\ refresh' = [refresh EXCEPT ![x].at = "stored"]
  /\ UNCHANGED <<version, locks, subscribed>>

(* Mutant of Released. *)
NeverReleased(x) == locks

(* The guard of the lock is dropped, wherever the refresh ends. *)
Released(x) ==
  IF refresh[x].at = "lock" THEN locks ELSE locks \ {refresh[x].feature}

(* The refresh returns; or list() or the validation of its entries fails;  *)
(* or the plugin call that asked for it is dropped at an await.            *)
RefreshEnds(x) ==
  /\ refresh[x].at \in {"lock", "build", "store", "stored"}
  /\ locks' = Released(x)
  /\ refresh' = [refresh EXCEPT ![x] = NoRefresh]
  /\ UNCHANGED <<version, catalog, client, subscribed>>

-----------------------------------------------------------------------------
(* prompts/list and resources/list, a page at a time (paginate_items).     *)

StartListing(c, f) ==
  /\ client[c].at = "idle"
  /\ client' = [client EXCEPT ![c].at = "paging", ![c].feature = f]
  /\ UNCHANGED <<version, catalog, refresh, locks, subscribed>>

(* A page size of zero disables pages. *)
Paginated == PageSize > 0

PageEnd(start, len) == IF Paginated THEN Min({start + PageSize, len}) ELSE len

(* Mutant of NextCursor. *)
CursorSkips(end) == end + 1

NextCursor(end) == end

ListPage(c) ==
  LET items == Listing(client[c].feature)
      start == client[c].cursor
      end == PageEnd(start, Len(items))
      more == end < Len(items) IN
  /\ client[c].at = "paging"
  /\ \/ /\ start > Len(items)
        /\ client' = [client EXCEPT ![c].at = "invalidCursor"]
     \/ /\ start <= Len(items)
        /\ client' = [client EXCEPT
                        ![c].at = IF more THEN "paging" ELSE "listed",
                        ![c].cursor = IF more THEN NextCursor(end) ELSE 0,
                        ![c].got = @ \o SubSeq(items, start + 1, end)]
  /\ UNCHANGED <<version, catalog, refresh, locks, subscribed>>

-----------------------------------------------------------------------------
(* Requests that name a key: prompts/get, resources/read, subscribe and    *)
(* unsubscribe, completion/complete.                                       *)

(* Mutant of Decides. *)
FirstDecides(positions) == Min(positions)

(* A map from keys to positions that is filled in order, and templates     *)
(* tried from the last one: the last position decides.                     *)
Decides(positions) == Max(positions)

Positions(f, k) == {i \in DOMAIN Listing(f) : Listing(f)[i].key = k}

MatchingTemplates(k) == {i \in DOMAIN Template : k \in Template[i].matches}

(* by_name *)
PromptTarget(k) ==
  LET positions == Positions("prompts", k) IN
  IF positions = {} THEN "notFound"
  ELSE Listing("prompts")[Decides(positions)].provider

(* Mutant of ArgumentsValid. *)
ArgumentsUnchecked(t, k) == TRUE

(* The variables that the pattern takes from the key satisfy the schema. *)
ArgumentsValid(t, k) == k \in t.accepts

(* resolve_resource_match: a resource that is listed, or the last template *)
(* that matches; arguments its schema refuses end the search.  An inline   *)
(* provider answers what it has, which may be that there is no content.    *)
ResourceTarget(k) ==
  LET positions == Positions("resources", k)
      templates == MatchingTemplates(k) IN
  IF positions # {} THEN Listing("resources")[Decides(positions)].provider
  ELSE IF templates = {} THEN "notFound"
  ELSE LET t == Template[Decides(templates)] IN
       IF ArgumentsValid(t, k) THEN t.provider ELSE "invalidArguments"

(* The client asks about a key; a plugin is asked in a later step. *)
Ask(c, op, k, target) ==
  client' = [client EXCEPT
               ![c].at = IF target \in Plugin THEN "asked" ELSE "answered",
               ![c].op = op, ![c].key = k, ![c].target = target]

Listed(c, f) == client[c].at = "listed" /\ client[c].feature = f

GetPrompt(c, k) ==
  /\ Listed(c, "prompts")
  /\ \/ Ask(c, "get", k, PromptTarget(k))
     \/ /\ PromptTarget(k) # "notFound"
        /\ Ask(c, "get", k, "invalidArguments")
  /\ UNCHANGED <<version, catalog, refresh, locks, subscribed>>

AskResource(c, op, k) ==
  /\ Listed(c, "resources")
  /\ Ask(c, op, k, ResourceTarget(k))
  /\ UNCHANGED <<version, catalog, refresh, locks, subscribed>>

(* The provider whose entry or template says how its arguments are         *)
(* completed, and whether that is a source the configuration has.          *)
CompletePrompt(c, k) ==
  LET p == PromptTarget(k) IN
  /\ Listed(c, "prompts")
  /\ \/ /\ p = "notFound"
        /\ Ask(c, "complete", k, "notFound")
     \/ /\ p # "notFound"
        /\ \/ Ask(c, "complete", k, "invalidArguments")
           \/ Ask(c, "complete", k, "values")
           \/ /\ ~Sound[p][catalog["prompts"][p]]
              /\ Ask(c, "complete", k, "undefinedSource")
  /\ UNCHANGED <<version, catalog, refresh, locks, subscribed>>

(* The plugin answers; it does with a subscription what it likes when it   *)
(* fails.                                                                  *)
PluginAnswers(c) ==
  LET p == client[c].target
      s == <<c, client[c].key>> IN
  /\ client[c].at = "asked"
  /\ client' = [client EXCEPT ![c].at = "answered"]
  /\ \/ /\ client[c].op = "subscribe"
        /\ subscribed' = [subscribed EXCEPT ![p] = @ \cup {s}]
     \/ /\ client[c].op = "unsubscribe"
        /\ subscribed' = [subscribed EXCEPT ![p] = @ \ {s}]
     \/ UNCHANGED subscribed
  /\ UNCHANGED <<version, catalog, refresh, locks>>

(* The client goes on: with what it has listed, or from the start. *)
GoOn(c) ==
  /\ client[c].at \in {"answered", "invalidCursor", "listed"}
  /\ \/ client' = [client EXCEPT ![c] = Idle]
     \/ /\ client[c].at = "answered"
        /\ client' = [client EXCEPT ![c].at = "listed", ![c].op = None,
                                    ![c].key = None, ![c].target = None]
  /\ UNCHANGED <<version, catalog, refresh, locks, subscribed>>

-----------------------------------------------------------------------------
Next ==
  \/ \E p \in Plugin : PluginDataChanges(p)
  \/ \E x \in Refresher :
       \/ \E f \in Feature : RefreshStart(x, f)
       \/ RefreshLock(x)
       \/ RefreshBuild(x)
       \/ RefreshStore(x)
       \/ RefreshEnds(x)
  \/ \E c \in Client :
       \/ \E f \in Feature : StartListing(c, f)
       \/ ListPage(c)
       \/ \E k \in Key :
            \/ GetPrompt(c, k)
            \/ CompletePrompt(c, k)
            \/ \E op \in {"read", "subscribe", "unsubscribe"} :
                 AskResource(c, op, k)
       \/ PluginAnswers(c)
       \/ GoOn(c)

Spec == Init /\ [][Next]_vars

-----------------------------------------------------------------------------
Holds(x, f) ==
  refresh[x].at \in {"build", "store", "stored"} /\ refresh[x].feature = f

(* Every variable has its type, and a lock is held by a refresh that has   *)
(* not ended.                                                              *)
TypeOK ==
  /\ version \in Build
  /\ catalog \in [Feature -> Build]
  /\ refresh \in [Refresher ->
       [at : {"idle", "lock", "build", "store", "stored"},
        feature : Feature \cup {None}, next : Nat, built : Build]]
  /\ locks \subseteq Feature
  /\ \A f \in Feature : f \in locks <=> \E x \in Refresher : Holds(x, f)
  /\ client \in [Client ->
       [at : {"idle", "paging", "listed", "invalidCursor", "asked", "answered"},
        feature : Feature \cup {None}, cursor : Nat, got : Seq(Item),
        clean : BOOLEAN,
        op : {None, "get", "read", "subscribe", "unsubscribe", "complete"},
        key : Key \cup {None},
        target : Provider \cup {None, "notFound", "invalidArguments", "values",
                                "undefinedSource"}]]
  /\ subscribed \in [Plugin -> SUBSET Subscription]

(* A catalog never goes back to older data of a provider, whatever         *)
(* refreshes overlap, fail or are dropped: the engine stores a catalog     *)
(* without comparing it (resource_dispatch.rs:211-218), so that only the   *)
(* lock that refresh_list takes orders two of them.                        *)
CatalogMovesForward ==
  [][\A f \in Feature : \A p \in Provider :
       catalog'[f][p] >= catalog[f][p]]_vars

(* The pages that a client collects are the list, without gap or repeat,   *)
(* if the catalog has been the same since its first page: a cursor is an   *)
(* offset that says nothing about the list it was made for                 *)
(* (pagination.rs:18-41).                                                  *)
PagesCoverList ==
  \A c \in Client :
    client[c].at = "listed" /\ client[c].clean =>
      client[c].got = Listing(client[c].feature)

TemplateOf(p, k) ==
  \E i \in DOMAIN Template :
    Template[i].provider = p /\ k \in Template[i].accepts

HasListed(p, k) == \E v \in 0..version[p] : Contains(Lists[p][v], k)

(* docs/CONFIG_SCHEMA.md:749, 769, 770: of duplicates, the list shows all, *)
(* and a request goes to the last provider; a key that is not listed, to   *)
(* the owner of a template that takes it; and by 752 no completion names a *)
(* source that the configuration does not have.  So the list that a client *)
(* has collected tells it who answers a request about one of its keys,     *)
(* while the catalog is the same; and whatever has changed since, a plugin *)
(* is only asked to watch what it has listed or what its template takes.   *)
RequestsReachOwners ==
  /\ \A c \in Client :
       client[c].at \in {"asked", "answered"} /\ client[c].clean =>
         LET k == client[c].key
             got == client[c].got
             target == client[c].target
             named == {i \in DOMAIN got : got[i].key = k} IN
         /\ target # "undefinedSource"
         /\ target = "notFound" => named = {}
         /\ target \in Provider =>
              \/ \E i \in named :
                   got[i].provider = target /\ \A j \in named : j <= i
              \/ /\ named = {}
                 /\ client[c].feature = "resources"
                 /\ TemplateOf(target, k)
  /\ \A p \in Plugin : \A s \in subscribed[p] :
       HasListed(p, s[2]) \/ TemplateOf(p, s[2])
=============================================================================
