--------------------------- MODULE ProviderCaches ---------------------------
(***************************************************************************)
(* The caches of an AuthProvider (auth/inbound/provider.rs): its discovery *)
(* document and its key set, each filled by cached_fetch, which looks into *)
(* the cache, takes the refresh lock, looks again and only then fetches.   *)
(* Fetching the keys may itself look up the document, with the lock of the *)
(* keys held, so a request has a stack of lookups.                         *)
(*                                                                         *)
(* A key set is known by the rotations before it; a document is the        *)
(* issuer it names, if any, and whether it has a jwks_uri.  Endpoints are  *)
(* external: an answer takes at most Timeout (outbound_http.timeout_ms).   *)
(***************************************************************************)
EXTENDS Naturals, Sequences

CONSTANTS
  Request,        \* requests that are being authorized
  ProviderLists,  \* configurations: lists of providers
  Ttl,            \* DISCOVERY_TTL_MINUTES and JWKS_TTL_MINUTES
  Timeout,        \* how long an endpoint may take
  None,           \* Option::None
  NoRequest,      \* nobody holds a lock
  MaxNow,         \* bound of the clock
  MaxRotations    \* bound of the key rotations

Issuer == {"a", "b"}
Document == [issuer : Issuer \cup {None}, uri : BOOLEAN]
Keys == [after : 0..MaxRotations]
Cache == {"discovery", "keys"}

(* issuer and jwksUrl are what the configuration gives, candidates whether *)
(* there is any discovery URL to try, names the issuer that the server     *)
(* behind it names when its document names one.                            *)
Provider ==
  [type : {"bearer", "jwks", "introspection", "plugin"},
   issuer : Issuer \cup {None}, jwksUrl : BOOLEAN, candidates : BOOLEAN,
   names : Issuer]

ASSUME CachesAssumption ==
  /\ \A list \in ProviderLists : list \in Seq(Provider) /\ list # <<>>
  /\ Ttl \in Nat \ {0}
  /\ Timeout \in Nat
  /\ None \notin Document \cup Keys \cup Issuer
  /\ NoRequest \notin Request
  /\ MaxNow \in Nat
  /\ MaxRotations \in Nat

VARIABLES
  providers,  \* the configured list
  now,        \* Utc::now()
  cache,      \* cache[i][c] : None or what was fetched and when
  lock,       \* lock[i][c] : the request that holds the refresh lock
  rotated,    \* rotated[i] : when the server behind i replaced its keys
  on,         \* on[r] : the provider that is asked
  lookups,    \* lookups[r] : the stack of calls of cached_fetch
  got         \* got[r] : what the last call returned

cacheVars == <<providers, now, cache, lock, rotated, on, lookups, got>>

(* since is the time the lookup has read, or at which its request was      *)
(* sent; value what the endpoint answered.                                 *)
Lookup ==
  [of : Cache, at : {"look", "lock", "again", "fetch", "url", "sent", "store"},
   since : Nat, value : Document \cup Keys \cup {None}]
ValueOf(c) == IF c = "keys" THEN Keys ELSE Document

CachesInit ==
  /\ providers \in ProviderLists
  /\ now = 0
  /\ cache = [i \in DOMAIN providers |-> [c \in Cache |-> None]]
  /\ lock = [i \in DOMAIN providers |-> [c \in Cache |-> NoRequest]]
  /\ rotated = [i \in DOMAIN providers |-> <<>>]
  /\ on = [r \in Request |-> 1]
  /\ lookups = [r \in Request |-> <<>>]
  /\ got = [r \in Request |-> None]

Asked(r) == providers[on[r]]
Busy(r) == lookups[r] # <<>>
Top(r) == lookups[r][Len(lookups[r])]
Runs(r, step) == Busy(r) /\ Top(r).at = step
Goes(r, step, time) ==
  lookups' = [lookups EXCEPT ![r][Len(lookups[r])].at = step,
                             ![r][Len(lookups[r])].since = time]

NewLookup(c) == [of |-> c, at |-> "look", since |-> now, value |-> None]
Called(r, c) == Append(lookups[r], NewLookup(c))

(* A call returns: the MutexGuard, if it has one, goes with it. *)
Returns(r, value) ==
  /\ got' = [got EXCEPT ![r] = value]
  /\ lookups' = [lookups EXCEPT ![r] = SubSeq(@, 1, Len(@) - 1)]

(* Mutant: the lock of the discovery document stays with the call. *)
ReleasesKeysOnly(r, cs) ==
  [lock EXCEPT ![on[r]]["keys"] = IF "keys" \in cs /\ @ = r THEN NoRequest ELSE @]

Released(r, cs) ==
  [lock EXCEPT ![on[r]] =
     [c \in Cache |-> IF c \in cs /\ @[c] = r THEN NoRequest ELSE @[c]]]
Unlocks(r) == lock' = Released(r, {Top(r).of})

Cached(r) == cache[on[r]][Top(r).of]
(* Mutant: an entry is served at the moment its lifetime ends, too. *)
IsFreshToTheEnd(entry, time) == entry # None /\ time <= entry.fetched + Ttl
IsFresh(entry, time) == entry # None /\ time < entry.fetched + Ttl

-----------------------------------------------------------------------------
(* The time of the first look is read before the cache is. *)
Look(r) ==
  /\ Runs(r, "look")
  /\ IF IsFresh(Cached(r), Top(r).since)
       THEN Returns(r, Cached(r).value)
       ELSE Goes(r, "lock", 0) /\ UNCHANGED got
  /\ UNCHANGED <<providers, now, cache, lock, rotated, on>>

LockFree(r) == lock[on[r]][Top(r).of] = NoRequest

TakeLock(r) ==
  /\ Runs(r, "lock")
  /\ LockFree(r)
  /\ lock' = [lock EXCEPT ![on[r]][Top(r).of] = r]
  /\ Goes(r, "again", now)
  /\ UNCHANGED <<providers, now, cache, rotated, on, got>>

(* Mutant: the holder of the lock fetches without a second look. *)
NeverFoundAgain(r) == FALSE
FoundAgain(r) == IsFresh(Cached(r), Top(r).since)

LookAgain(r) ==
  /\ Runs(r, "again")
  /\ IF FoundAgain(r)
       THEN Returns(r, Cached(r).value) /\ Unlocks(r)
       ELSE Goes(r, "fetch", 0) /\ UNCHANGED <<got, lock>>
  /\ UNCHANGED <<providers, now, cache, rotated, on>>

(* fetch_discovery gives up without candidates. *)
FetchDiscovery(r) ==
  /\ Runs(r, "fetch") /\ Top(r).of = "discovery"
  /\ IF Asked(r).candidates
       THEN Goes(r, "sent", now) /\ UNCHANGED <<got, lock>>
       ELSE Returns(r, None) /\ Unlocks(r)
  /\ UNCHANGED <<providers, now, cache, rotated, on>>

(* fetch_jwks: jwks_url takes the configured URL or looks up the document. *)
FetchKeys(r) ==
  /\ Runs(r, "fetch") /\ Top(r).of = "keys"
  /\ IF Asked(r).jwksUrl
       THEN Goes(r, "sent", now)
       ELSE lookups' = [lookups EXCEPT ![r] =
              Append([@ EXCEPT ![Len(@)].at = "url"], NewLookup("discovery"))]
  /\ UNCHANGED <<providers, now, cache, lock, rotated, on, got>>

UrlKnown(r) ==
  /\ Runs(r, "url")
  /\ IF got[r] # None /\ got[r].uri
       THEN Goes(r, "sent", now) /\ UNCHANGED <<got, lock>>
       ELSE Returns(r, None) /\ Unlocks(r)
  /\ UNCHANGED <<providers, now, cache, rotated, on>>

(* What the endpoint of r's lookup may answer now. *)
Answers(r) ==
  IF Top(r).of = "keys" THEN {[after |-> Len(rotated[on[r]])]}
                        ELSE {d \in Document : d.issuer \in {Asked(r).names, None}}

EndpointAnswers(r) ==
  /\ Runs(r, "sent")
  /\ \E value \in Answers(r) :
       lookups' = [lookups EXCEPT ![r][Len(lookups[r])].value = value,
                                  ![r][Len(lookups[r])].at = "store"]
  /\ UNCHANGED <<providers, now, cache, lock, rotated, on, got>>

(* An error, a bad status, or a body that is no JSON, of every candidate. *)
EndpointFails(r) ==
  /\ Runs(r, "sent")
  /\ Returns(r, None)
  /\ Unlocks(r)
  /\ UNCHANGED <<providers, now, cache, rotated, on>>

(* fetched_at is the time of the write, not of the request. *)
Store(r) ==
  /\ Runs(r, "store")
  /\ cache' = [cache EXCEPT ![on[r]][Top(r).of] =
                 [fetched |-> now, value |-> Top(r).value]]
  /\ Returns(r, Top(r).value)
  /\ Unlocks(r)
  /\ UNCHANGED <<providers, now, rotated, on>>

LookupStep(r) ==
  \/ Look(r) \/ TakeLock(r) \/ LookAgain(r) \/ FetchDiscovery(r)
  \/ FetchKeys(r) \/ UrlKnown(r) \/ EndpointAnswers(r) \/ EndpointFails(r)
  \/ Store(r)

-----------------------------------------------------------------------------
(* The outside world: time, which no request of an endpoint outlasts by    *)
(* more than Timeout, and servers that replace their keys.                 *)
InFlight(r) == Runs(r, "sent") \/ Runs(r, "store")

Tick ==
  /\ now < MaxNow
  /\ \A r \in Request : InFlight(r) => now < Top(r).since + Timeout
  /\ now' = now + 1
  /\ UNCHANGED <<providers, cache, lock, rotated, on, lookups, got>>

Rotate(i) ==
  /\ providers[i].type = "jwks"
  /\ Len(rotated[i]) < MaxRotations
  /\ rotated' = [rotated EXCEPT ![i] = Append(@, now)]
  /\ UNCHANGED <<providers, now, cache, lock, on, lookups, got>>
=============================================================================
