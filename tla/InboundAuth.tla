----------------------------- MODULE InboundAuth -----------------------------
(***************************************************************************)
(* AuthState::authorize (auth/inbound/authorization.rs) behind the auth    *)
(* middleware, and the protected resource metadata that shares its         *)
(* providers' caches.  A token is what the code looks at: whether it is    *)
(* the static bearer token, whether it is a JWT, its iss, the key set that *)
(* signed it and what its other claims satisfy, whoever states them.       *)
(***************************************************************************)
EXTENDS ProviderCaches, FiniteSets

CONSTANTS
  Carries,           \* Carries[r] : tokens that request r may carry, or None
  MetadataRequest,   \* requests that may be for the resource metadata
  MissingIssAllowed  \* allow_missing_iss of the introspection providers

(* claims : the required claims are there and it is not expired; audiences  *)
(* and scopes : which of the configured ones it names.                     *)
Token ==
  [bearer : BOOLEAN, jwt : BOOLEAN, iss : Issuer \cup {None}, keys : Keys,
   claims : BOOLEAN, audiences : {"all", "some", "none"}, scopes : BOOLEAN]

ASSUME AuthAssumption ==
  /\ Carries \in [Request -> SUBSET (Token \cup {None})]
  /\ MetadataRequest \subseteq Request
  /\ MissingIssAllowed \in BOOLEAN

VARIABLES
  req,    \* req[r] : where request r is
  token,  \* token[r] : the bearer token it carries, or None
  trace   \* history: what r has seen

authVars == <<req, token, trace>>
vars == <<cacheVars, authVars>>

Decision == {"allow", "unauthorized", "forbidden"}

(* asked : when the keys were looked up, lost : the providers whose issuer *)
(* r asked for and did not learn: discovery failed, or named none.         *)
NoTrace == [asked |-> 0, lost |-> {}]

Init ==
  /\ CachesInit
  /\ req = [r \in Request |-> "idle"]
  /\ token = [r \in Request |-> None]
  /\ trace = [r \in Request |-> NoTrace]

Has(type) == \E i \in DOMAIN providers : providers[i].type = type
OauthActive == \E i \in DOMAIN providers : providers[i].type # "bearer"

At(r, step) == req[r] = step /\ ~Busy(r)
Moves(r, step) == req' = [req EXCEPT ![r] = step]
UnchangedCaches == UNCHANGED cacheVars

(* The future of the request is done with and its locals are gone. *)
Ends(r, result) ==
  /\ Moves(r, result)
  /\ token' = [token EXCEPT ![r] = None]
  /\ on' = [on EXCEPT ![r] = 1]
  /\ got' = [got EXCEPT ![r] = None]
  /\ trace' = [trace EXCEPT ![r] = NoTrace]

(* Asking for issuer() or keys starts a lookup; a configured issuer none. *)
AskIssuer(r, i) ==
  IF providers[i].issuer # None
    THEN /\ got' = [got EXCEPT ![r] =
                      [issuer |-> providers[i].issuer, uri |-> FALSE]]
         /\ UNCHANGED lookups
    ELSE /\ lookups' = [lookups EXCEPT ![r] = Called(r, "discovery")]
         /\ UNCHANGED got
UnchangedButLookups == UNCHANGED <<providers, now, cache, lock, rotated>>

(* Mutant: the provider after next is asked. *)
SkipsProvider(r) ==
  /\ Moves(r, "provider")
  /\ on' = [on EXCEPT ![r] = @ + 2]

NextProvider(r) ==
  /\ Moves(r, "provider")
  /\ on' = [on EXCEPT ![r] = @ + 1]

-----------------------------------------------------------------------------
(* authorize, check_bearer and the beginning of check_oauth *)
CheckBearer(t) == t # None /\ Has("bearer") /\ t.bearer

Receive(r, t) ==
  /\ req[r] = "idle"
  /\ IF t = None \/ ~OauthActive \/ CheckBearer(t)
       THEN Ends(r, IF CheckBearer(t) THEN "allow" ELSE "unauthorized")
       ELSE /\ Moves(r, "provider")
            /\ token' = [token EXCEPT ![r] = t]
            /\ UNCHANGED <<on, got, trace>>
  /\ UnchangedButLookups /\ UNCHANGED lookups

(* check_oauth has asked every provider *)
NobodyDecides(r) ==
  /\ At(r, "provider")
  /\ on[r] > Len(providers)
  /\ Ends(r, "unauthorized")
  /\ UnchangedButLookups /\ UNCHANGED lookups

IsAsked(r, type) ==
  /\ At(r, "provider")
  /\ on[r] \in DOMAIN providers
  /\ Asked(r).type = type

(* evaluate_provider, for each type of provider *)
Bearer(r) ==
  /\ IsAsked(r, "bearer")
  /\ IF token[r].bearer
       THEN Ends(r, "allow")
       ELSE NextProvider(r) /\ UNCHANGED <<got, token, trace>>
  /\ UnchangedButLookups /\ UNCHANGED lookups

NeedsIssuer(r) == token[r].jwt /\ token[r].iss # None

Abstains(r) ==
  \/ IsAsked(r, "jwks") /\ ~NeedsIssuer(r)
  \/ /\ IsAsked(r, "introspection")
     /\ token[r].jwt /\ token[r].iss = None
     /\ ~MissingIssAllowed

Abstain(r) ==
  /\ Abstains(r)
  /\ NextProvider(r)
  /\ UnchangedButLookups /\ UNCHANGED <<lookups, got, token, trace>>

CheckIssuer(r) ==
  /\ IsAsked(r, "jwks") \/ IsAsked(r, "introspection")
  /\ NeedsIssuer(r)
  /\ Moves(r, "issuer")
  /\ AskIssuer(r, on[r])
  /\ UnchangedButLookups /\ UNCHANGED <<on, token, trace>>

Introspect(r) ==
  /\ IsAsked(r, "introspection")
  /\ ~NeedsIssuer(r) /\ ~Abstains(r)
  /\ Moves(r, "introspect")
  /\ UnchangedCaches /\ UNCHANGED <<token, trace>>

AskPlugin(r) ==
  /\ IsAsked(r, "plugin")
  /\ Moves(r, "plugin")
  /\ UnchangedCaches /\ UNCHANGED <<token, trace>>

LearnsIssuer(r) == got[r] # None /\ got[r].issuer # None
IssuerIs(r, iss) == got[r] # None /\ got[r].issuer = iss

IssuerDiffers(r) ==
  /\ At(r, "issuer")
  /\ ~IssuerIs(r, token[r].iss)
  /\ NextProvider(r)
  /\ trace' = [trace EXCEPT ![r].lost = IF LearnsIssuer(r) THEN @ ELSE @ \cup {on[r]}]
  /\ UnchangedButLookups /\ UNCHANGED <<lookups, got, token>>

(* validate_jwt and validate_opaque begin *)
IssuerMatches(r) ==
  /\ At(r, "issuer")
  /\ IssuerIs(r, token[r].iss)
  /\ \/ /\ Asked(r).type = "jwks"
        /\ Moves(r, "keys")
        /\ lookups' = [lookups EXCEPT ![r] = Called(r, "keys")]
        /\ trace' = [trace EXCEPT ![r].asked = now]
     \/ /\ Asked(r).type = "introspection"
        /\ Moves(r, "introspect")
        /\ UNCHANGED <<lookups, trace>>
  /\ UnchangedButLookups /\ UNCHANGED <<on, got, token>>

(* Mutant: without the key the next provider is asked. *)
MissingKeyAbstains(r) ==
  /\ At(r, "keys")
  /\ got[r] # token[r].keys
  /\ NextProvider(r)
  /\ UnchangedButLookups /\ UNCHANGED <<lookups, got, token, trace>>

(* No keys, or none of the token's kid: the token is refused. *)
KeyMissing(r) ==
  /\ At(r, "keys")
  /\ got[r] # token[r].keys
  /\ Ends(r, "unauthorized")
  /\ UnchangedButLookups /\ UNCHANGED lookups

KeyFound(r) ==
  /\ At(r, "keys")
  /\ got[r] = token[r].keys
  /\ Moves(r, "verify")
  /\ AskIssuer(r, on[r])
  /\ UnchangedButLookups /\ UNCHANGED <<on, token, trace>>

(* The issuer is checked when it is known. *)
IssuerFits(r) == LearnsIssuer(r) => IssuerIs(r, token[r].iss)

(* jsonwebtoken, which is external, wants one audience of the configured   *)
(* ones; audiences_match_required wants them all.                          *)
AudiencesFit(r) ==
  token[r].audiences \in IF Asked(r).type = "jwks" THEN {"all", "some"} ELSE {"all"}

ClaimsFit(r) == token[r].claims

ScopesFit(r) == token[r].scopes

Judgement(r) ==
  IF ~IssuerFits(r) \/ ~AudiencesFit(r) \/ ~ClaimsFit(r) THEN "unauthorized"
  ELSE IF ~ScopesFit(r) THEN "forbidden" ELSE "allow"

Verify(r) ==
  /\ At(r, "verify") \/ At(r, "introspected")
  /\ Ends(r, Judgement(r))
  /\ UnchangedButLookups /\ UNCHANGED lookups

(* The introspection endpoint and the plugin are external.  An endpoint     *)
(* that cannot be reached, answers too late, too much, an error or nothing *)
(* that can be read refuses the token, as one does that calls it inactive. *)
IntrospectionFails(r) ==
  /\ At(r, "introspect")
  /\ Ends(r, "unauthorized")
  /\ UnchangedButLookups /\ UNCHANGED lookups

IntrospectionAnswers(r) ==
  /\ At(r, "introspect")
  /\ Moves(r, "introspected")
  /\ AskIssuer(r, on[r])
  /\ UnchangedButLookups /\ UNCHANGED <<on, token, trace>>

PluginDecides(r) ==
  /\ At(r, "plugin")
  /\ \/ \E d \in {"allow", "unauthorized"} : Ends(r, d)
     \/ NextProvider(r) /\ UNCHANGED <<got, token, trace>>
  /\ UnchangedButLookups /\ UNCHANGED lookups

-----------------------------------------------------------------------------
(* oauth_resource_metadata asks every provider for its issuer.  Only the   *)
(* jwks and introspection providers need a resource to be configured; the  *)
(* route answers 501 without one.                                          *)
ResourceNeeded == Has("jwks") \/ Has("introspection")

GetMetadata(r) ==
  /\ r \in MetadataRequest
  /\ req[r] = "idle"
  /\ OauthActive
  /\ \/ /\ Moves(r, "listed")
        /\ AskIssuer(r, 1)
        /\ UNCHANGED <<on, token, trace>>
     \/ /\ ~ResourceNeeded
        /\ Ends(r, "done")
        /\ UNCHANGED lookups
  /\ UnchangedButLookups

ListNext(r) ==
  /\ At(r, "listed")
  /\ IF on[r] < Len(providers)
       THEN /\ on' = [on EXCEPT ![r] = @ + 1]
            /\ AskIssuer(r, on[r] + 1)
            /\ UNCHANGED <<req, token, trace>>
       ELSE Ends(r, "done") /\ UNCHANGED lookups
  /\ UnchangedButLookups

(* The client disconnects: the future is dropped with the locks it holds. *)
Ended(r) == req[r] \in Decision \cup {"done", "gone"}

Disconnect(r) ==
  /\ req[r] # "idle" /\ ~Ended(r)
  /\ Ends(r, "gone")
  /\ lookups' = [lookups EXCEPT ![r] = <<>>]
  /\ lock' = IF on[r] \in DOMAIN providers THEN Released(r, Cache) ELSE lock
  /\ UNCHANGED <<providers, now, cache, rotated>>

-----------------------------------------------------------------------------
RequestStep(r) ==
  \/ NobodyDecides(r) \/ Bearer(r) \/ Abstain(r) \/ CheckIssuer(r)
  \/ Introspect(r) \/ AskPlugin(r) \/ IssuerDiffers(r) \/ IssuerMatches(r)
  \/ KeyMissing(r) \/ KeyFound(r) \/ Verify(r)
  \/ IntrospectionFails(r) \/ IntrospectionAnswers(r)
  \/ PluginDecides(r) \/ ListNext(r)

CacheStep(r) == LookupStep(r) /\ UNCHANGED authVars

Next ==
  \/ \E r \in Request :
       \/ \E t \in Carries[r] : Receive(r, t)
       \/ GetMetadata(r)
       \/ RequestStep(r)
       \/ CacheStep(r)
       \/ Disconnect(r)
  \/ Tick /\ UNCHANGED authVars
  \/ \E i \in DOMAIN providers : Rotate(i) /\ UNCHANGED authVars

Spec == Init /\ [][Next]_vars

(* Requests are polled, and what they await answers or times out; no       *)
(* client has to connect or disconnect and the clock need not move.        *)
FairSpec ==
  Spec /\ \A r \in Request : WF_vars(RequestStep(r)) /\ WF_vars(CacheStep(r))

-----------------------------------------------------------------------------
(* Every variable has its type. *)
TypeOK ==
  /\ providers \in ProviderLists
  /\ now \in 0..MaxNow
  /\ \A i \in DOMAIN providers, c \in Cache :
       /\ cache[i][c] # None => /\ cache[i][c].fetched \in 0..now
                                /\ cache[i][c].value \in ValueOf(c)
       /\ lock[i][c] \in Request \cup {NoRequest}
  /\ \A r \in Request :
       /\ on[r] \in 1..(Len(providers) + 1)
       /\ Len(lookups[r]) <= 2
       /\ Len(lookups[r]) = 2 => lookups[r][1].of = "keys" /\ lookups[r][1].at = "url"
       /\ Busy(r) => /\ Top(r).since <= now
                     /\ Top(r).at = "store" => Top(r).value \in ValueOf(Top(r).of)

(* Who is fetching into cache c of provider i, the nested lookup included. *)
Fetchers(i, c) ==
  {r \in Request : on[r] = i /\ \E n \in DOMAIN lookups[r] :
     /\ lookups[r][n].of = c
     /\ lookups[r][n].at \in {"fetch", "url", "sent", "store"}}

(* provider.rs:336-338: requests that hit a stale cache together cost one  *)
(* fetch.  At most one request fetches into a cache, and only while what   *)
(* the cache holds is too old, although requests are dropped with the      *)
(* locks they hold and the lock of the keys is held across a lookup of     *)
(* the document.                                                           *)
FetchShared ==
  \A i \in DOMAIN providers, c \in Cache :
    /\ Cardinality(Fetchers(i, c)) <= 1
    /\ Fetchers(i, c) # {} => ~IsFresh(cache[i][c], now)

(* A token is judged by keys that its issuer had not replaced more than a  *)
(* lifetime and the time of one fetch before they were asked for: keys     *)
(* that are withdrawn stop being accepted and new keys stop being refused, *)
(* however the lookups, failures and rotations fall.                       *)
KeysRecent ==
  \A r \in Request :
    At(r, "keys") /\ got[r] # None /\ got[r].after < Len(rotated[on[r]]) =>
      trace[r].asked < rotated[on[r]][got[r].after + 1] + Timeout + Ttl

(* The provider that owns the issuer of a JWT decides about it: a later    *)
(* provider is asked only when the owner's discovery failed or its document *)
(* named no issuer, so that it could not know the token for its own;       *)
(* whatever else of the owner fails (keys, jwks_uri, introspection), and   *)
(* however requests share, drop and refill the caches, it decides.         *)
Owner(r, i) ==
  /\ providers[i].type \in {"jwks", "introspection"}
  /\ token[r].iss = IF providers[i].issuer # None THEN providers[i].issuer
                                                  ELSE providers[i].names
OwnerDecides ==
  \A r \in Request : token[r] # None /\ NeedsIssuer(r) =>
    \A i \in DOMAIN providers : Owner(r, i) /\ on[r] > i => i \in trace[r].lost

(* Every request is decided, or its client is gone, although requests that *)
(* hold one refresh lock or both are dropped.                              *)
RequestDecided == \A r \in Request : req[r] # "idle" ~> Ended(r)

=============================================================================
