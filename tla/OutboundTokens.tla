--------------------------- MODULE OutboundTokens ---------------------------
(***************************************************************************)
(* OutboundTokenManager and OutboundTokenCache (auth/outbound): access     *)
(* tokens for an upstream API, cached until they are about to expire and   *)
(* exchanged under a lock per cache key.  Keys share nothing but the maps  *)
(* that hold them, so the module is about one key.                         *)
(*                                                                         *)
(* A token is the number of the answer that carried it; the bootstrap      *)
(* refresh token of the configuration is number 0.  The token endpoint is  *)
(* external: it refuses a refresh token it has replaced, fails when it     *)
(* likes, and may or may not hand out a new refresh token and an expiry.   *)
(***************************************************************************)
EXTENDS Naturals

CONSTANTS
  Call,         \* calls of access_token
  Policy,       \* configurations of the upstream's oauth2 section
  Lifetime,     \* what expires_in may be; Never: the answer has none
  Skew,         \* refresh.skew_sec
  Never,        \* expires_at of a token without expiry
  TooLong,      \* an expires_in that no date can hold
  NoToken,      \* no refresh or access token
  NoEntry,      \* the cache has no entry for the key
  NoCall,       \* nobody holds the refresh lock
  MaxIssued,    \* bound of the tokens issued
  MaxNow        \* bound of the clock

Token == 0..MaxIssued
Expiry == Nat \cup {Never}
Entry == [access : Token, refresh : Token \cup {NoToken}, expires : Expiry]

ResolvedConfig ==
  [grant : {"client_credentials", "refresh_token"}, bootstrap : BOOLEAN,
   retryOn401 : BOOLEAN]

ASSUME TokensAssumption ==
  /\ Policy \subseteq ResolvedConfig
  /\ \A p \in Policy : p.grant = "refresh_token" => p.bootstrap
  /\ Never \notin Nat
  /\ TooLong \notin Nat \cup {Never}
  /\ Lifetime \subseteq Expiry \cup {TooLong}
  /\ Skew \in Nat
  /\ NoToken \notin Nat
  /\ NoEntry \notin Entry \cup [access : Token, expires : Expiry]
  /\ NoCall \notin Call
  /\ MaxIssued \in Nat
  /\ MaxNow \in Nat

VARIABLES
  policy,   \* the configuration: the grant, whether a bootstrap refresh token
            \* is given, refresh.retry_on_401_once
  now,      \* Clock::now()
  entry,    \* the cache entry of the key
  lock,     \* who holds the refresh lock of the key
  get,      \* get[c] : where call c of access_token is, and what it holds
  issued,   \* tokens the endpoint has issued
  valid,    \* refresh tokens the endpoint accepts
  lost      \* history: an answer was dropped before it reached the cache

tokenVars == <<policy, now, entry, lock, get, issued, valid, lost>>

(* at : reading the cache, waiting for the lock, reading again, about to   *)
(* exchange, request sent, answer received, returned.  since is the time   *)
(* that the caller has last read, sent the refresh token used, answer what *)
(* the endpoint said, token the result.                                    *)
Answer == [access : Token, refresh : Token \cup {NoToken}, lifetime : Lifetime]

Get ==
  [at : {"idle", "read", "lock", "again", "exchange", "sent", "answered", "returned"},
   forced : BOOLEAN, since : 0..MaxNow, sent : Token \cup {NoToken},
   answer : Answer \cup {NoToken}, token : Token \cup {NoToken}]

IdleGet ==
  [at |-> "idle", forced |-> FALSE, since |-> 0, sent |-> NoToken,
   answer |-> NoToken, token |-> NoToken]

BootstrapToken == IF policy.bootstrap THEN 0 ELSE NoToken

TokensInit ==
  /\ policy \in Policy
  /\ now = 0
  /\ entry = NoEntry
  /\ lock = NoCall
  /\ get = [c \in Call |-> IdleGet]
  /\ issued = 0
  /\ valid = {0}
  /\ lost = FALSE

Tick ==
  /\ now < MaxNow
  /\ now' = now + 1
  /\ UNCHANGED <<policy, entry, lock, get, issued, valid, lost>>

(* Mutant of FreshAt. *)
FreshToTheEnd(time) ==
  /\ entry # NoEntry
  /\ entry.expires # Never => time < entry.expires

(* get_fresh, is_fresh *)
FreshAt(time) ==
  /\ entry # NoEntry
  /\ entry.expires # Never => time + Skew < entry.expires

Fresh == FreshAt(now)

Goes(c, step) == get' = [get EXCEPT ![c].at = step]

Returns(c, token) ==
  get' = [get EXCEPT ![c] = [IdleGet EXCEPT !.at = "returned", !.token = token]]

(* from_auth reads the secrets anew for every call, from the environment   *)
(* or from files that may be gone.                                         *)
Unresolved(c) == Returns(c, NoToken)

(* The caller asks: the time of its first look is read before the cache is; *)
(* a forced refresh does not look.                                         *)
Ask(c, forced) ==
  /\ \/ Unresolved(c)
     \/ get' = [get EXCEPT ![c] =
                  [IdleGet EXCEPT !.at = IF forced THEN "lock" ELSE "read",
                                  !.forced = forced, !.since = now]]
  /\ UNCHANGED <<policy, now, entry, lock, issued, valid, lost>>

ReadCache(c) ==
  /\ get[c].at = "read"
  /\ IF FreshAt(get[c].since) THEN Returns(c, entry.access) ELSE Goes(c, "lock")
  /\ UNCHANGED <<policy, now, entry, lock, issued, valid, lost>>

(* The refresh lock of the key. *)
LockFree == lock = NoCall

(* Mutant of Taken. *)
TakenWithoutLooking(c) == "exchange"

(* What a caller does once it has the lock: look again, unless forced. *)
Taken(c) == IF get[c].forced THEN "exchange" ELSE "again"

TakeLock(c) ==
  /\ get[c].at = "lock"
  /\ LockFree
  /\ lock' = c
  /\ get' = [get EXCEPT ![c].at = Taken(c), ![c].since = now]
  /\ UNCHANGED <<policy, now, entry, issued, valid, lost>>

(* Mutant of Released. *)
NeverReleased(c) == lock

(* The guard is dropped with the call. *)
Released(c) == IF lock = c THEN NoCall ELSE lock

ReadAgain(c) ==
  /\ get[c].at = "again"
  /\ \/ /\ FreshAt(get[c].since)
        /\ Returns(c, entry.access)
        /\ lock' = Released(c)
     \/ /\ ~FreshAt(get[c].since)
        /\ Goes(c, "exchange")
        /\ UNCHANGED lock
  /\ UNCHANGED <<policy, now, entry, issued, valid, lost>>

(* The refresh token to use: the cached one, or the configured one. *)
RefreshToken ==
  IF entry # NoEntry /\ entry.refresh # NoToken THEN entry.refresh ELSE BootstrapToken

Fails(c) ==
  /\ Returns(c, NoToken)
  /\ lock' = Released(c)

(* exchange_token; client credentials need no refresh token. *)
SendExchange(c) ==
  /\ get[c].at = "exchange"
  /\ get' = [get EXCEPT ![c].at = "sent",
               ![c].sent = IF policy.grant = "refresh_token" THEN RefreshToken ELSE NoToken]
  /\ UNCHANGED <<policy, now, entry, lock, issued, valid, lost>>

(* External: the endpoint issues an access token, perhaps with a refresh   *)
(* token that replaces the one it was sent, or fails.                      *)
EndpointIssues(c) ==
  /\ get[c].at = "sent"
  /\ get[c].sent \in valid \cup {NoToken}
  /\ issued < MaxIssued
  /\ issued' = issued + 1
  /\ \E refresh \in {issued + 1, NoToken}, lifetime \in Lifetime :
       /\ get' = [get EXCEPT ![c].at = "answered",
                    ![c].answer = [access |-> issued + 1, refresh |-> refresh,
                                   lifetime |-> lifetime]]
       /\ valid' = IF refresh = NoToken THEN valid
                   ELSE (valid \ {get[c].sent}) \cup {refresh}
  /\ UNCHANGED <<policy, now, entry, lock, lost>>

EndpointFails(c) ==
  /\ get[c].at = "sent"
  /\ Fails(c)
  /\ UNCHANGED <<policy, now, entry, issued, valid, lost>>

(* Mutant of NextRefresh. *)
NeverReplaced(answer) == RefreshToken

(* The refresh token of the new entry: the answer's, or the one there was. *)
NextRefresh(answer) == IF answer.refresh # NoToken THEN answer.refresh ELSE RefreshToken

(* expires_at counts from the answer. *)
ExpiryOf(answer) == IF answer.lifetime = Never THEN Never ELSE now + answer.lifetime

(* Where no date can hold the expiry the call fails (an error, or a panic  *)
(* of the addition), and the answer is lost with its refresh token.        *)
StoreToken(c) ==
  LET answer == get[c].answer IN
  /\ get[c].at = "answered"
  /\ \/ /\ answer.lifetime # TooLong
        /\ entry' = [access |-> answer.access, refresh |-> NextRefresh(answer),
                     expires |-> ExpiryOf(answer)]
        /\ Returns(c, answer.access)
        /\ lock' = Released(c)
        /\ UNCHANGED lost
     \/ /\ answer.lifetime = TooLong
        /\ Fails(c)
        /\ lost' = TRUE
        /\ UNCHANGED entry
  /\ UNCHANGED <<policy, now, issued, valid>>

(* The caller takes the result. *)
Take(c) ==
  /\ get' = [get EXCEPT ![c] = IdleGet]
  /\ UNCHANGED <<policy, now, entry, lock, issued, valid, lost>>

(* The caller's task is aborted, maybe at an await of access_token. *)
Abandon(c) ==
  /\ get' = [get EXCEPT ![c] = IdleGet]
  /\ lock' = Released(c)
  /\ lost' = (lost \/ get[c].at = "answered")
  /\ UNCHANGED <<policy, now, entry, issued, valid>>

GetStep(c) ==
  \/ ReadCache(c)
  \/ TakeLock(c)
  \/ ReadAgain(c)
  \/ SendExchange(c)
  \/ EndpointIssues(c)
  \/ EndpointFails(c)
  \/ StoreToken(c)

-----------------------------------------------------------------------------
(* Exchanges of one key never overlap, and a call that does not force one  *)
(* exchanges only while the cache has nothing fresh for it: callers that   *)
(* waited for the lock share the token of the one before them              *)
(* (token_manager.rs:239-251).                                             *)
Exchanging(c) == get[c].at \in {"exchange", "sent", "answered"}

ExchangeShared ==
  \A c, d \in Call :
    /\ Exchanging(c) /\ Exchanging(d) => c = d
    /\ Exchanging(c) /\ Fresh => get[c].forced

(* A refresh token that the endpoint has replaced is not used again: its   *)
(* successor reached the cache before the next exchange reads it, unless   *)
(* an answer was lost on the way (token_manager.rs:252-269, 282-301).      *)
RotationFollowed ==
  \A c \in Call : get[c].at = "sent" /\ ~lost => get[c].sent \in valid \cup {NoToken}

-----------------------------------------------------------------------------
(* The token manager as a TokenService. *)
ServiceCached ==
  IF entry = NoEntry THEN NoEntry
  ELSE [access |-> entry.access, expires |-> entry.expires]

ServiceAt(g) ==
  CASE g.at = "idle" -> "away"
    [] g.at \in {"read", "lock", "again"} -> "waits"
    [] g.at \in {"exchange", "sent", "answered"} -> "exchanges"
    [] g.at = "returned" -> "given"

ServicePhase(g) ==
  LET waits == ServiceAt(g) = "waits" IN
  [at |-> ServiceAt(g), insists |-> waits /\ g.forced,
   since |-> IF waits THEN g.since ELSE 0, token |-> g.token]

ServiceCaller == [c \in Call |-> ServicePhase(get[c])]

Service ==
  INSTANCE TokenService WITH cached <- ServiceCached, caller <- ServiceCaller

(* The manager keeps the promise of TokenService: a token is shared only   *)
(* while it is fresh, exchanged for by one call at a time and never        *)
(* replaced by an older one (token_manager.rs:221-273).                    *)
ImplementsService == Service!Spec
=============================================================================
