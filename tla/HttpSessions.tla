---------------------------- MODULE HttpSessions ----------------------------
(***************************************************************************)
(* Session hardening of the streamable HTTP transport (http/hardening.rs): *)
(* the token buckets that limit how often sessions are created, and        *)
(* HardeningSessionManager, which wraps rmcp's LocalSessionManager with a  *)
(* limit on the number of sessions and on their lifetime.                  *)
(*                                                                         *)
(* rmcp is external: its session map is the variable sessions, and closing *)
(* a session removes it from the map and then fails when the session's     *)
(* worker has ended already.  The future of a request may be dropped at    *)
(* any await, when its client disconnects; the task that rmcp spawns to    *)
(* serve a session, and that closes it in the end, is not.  Time advances  *)
(* in ticks, Second of them to a second.                                   *)
(***************************************************************************)
EXTENDS Integers, FiniteSets

CONSTANTS
  Session,       \* session ids, each drawn at most once
  Creator,       \* POST requests without a session id
  Request,       \* requests that carry a session id
  Address,       \* client addresses, as a proxy writes them down
  MaxSessions,   \* session.max_sessions
  MaxLifetime,   \* session.max_lifetime_secs, in ticks
  Second,        \* ticks in a second
  CreationRate,  \* configurations of the limiter of session creations
  NoSpec,        \* no bucket of that kind is configured
  NoAddress,     \* the request has no x-forwarded-for
  UnknownPeer,   \* the key of a request whose peer is not known
  NoTime,        \* created_at has no entry
  NoSession,     \* no session drawn or named yet
  NoBucket,      \* no such bucket, or the limiter has not seen the key
  MaxNow         \* bound of the clock

RateSpec == [capacity : Nat \ {0}, refill : Nat \ {0}]

(* StreamableHttpSessionCreationRateConfig: its two buckets, and where the *)
(* key of the second comes from.                                           *)
CreationRateConfig ==
  [global : RateSpec \cup {NoSpec}, per_ip : RateSpec \cup {NoSpec},
   key_source : {"peer_addr", "x_forwarded_for"}]

RateKey == Address \cup {UnknownPeer}

Bucket == [tokens : Nat, last : Nat, rem : Nat]

ASSUME SessionsAssumption ==
  /\ IsFiniteSet(Session) /\ IsFiniteSet(Creator)
  /\ CreationRate \subseteq CreationRateConfig
  /\ NoAddress \notin Address /\ UnknownPeer \notin Address
  /\ MaxSessions \in Nat \ {0}
  /\ MaxLifetime \in Nat \ {0}
  /\ Second \in Nat \ {0}
  /\ NoSpec \notin RateSpec
  /\ NoTime \notin Nat
  /\ NoBucket \notin Bucket
  /\ NoSession \notin Session
  /\ MaxNow \in Nat

VARIABLES
  rate,       \* the configuration of the limiter
  now,        \* Instant::now()
  global,     \* the global token bucket
  perKey,     \* the token buckets per key
  sessions,   \* LocalSessionManager::sessions
  ended,      \* sessions whose worker has ended (idle, or transport closed)
  createdAt,  \* created_at
  creator,    \* creator[c] : where request c is, its key, its session, what it prunes
  request,    \* request[q] : where request q is, and its session
  closer,     \* closer[s] : where the task that serves s is, once it closes s
  leaked,     \* history: sessions whose close failed
  passed      \* history: when request c passed the buckets

vars == <<rate, now, global, perKey, sessions, ended, createdAt, creator, request, closer,
          leaked, passed>>

FullBucket(spec) == [tokens |-> spec.capacity, last |-> now, rem |-> 0]

Least(a, b) == IF a <= b THEN a ELSE b

(* TokenBucket::take: refill for the time since the last take, carrying    *)
(* the remainder, then take a token if there is one.                       *)
RefillOf(b, spec) == (now - b.last) * spec.refill + b.rem

(* Mutant of Refilled. *)
RefilledPastCapacity(b, spec) == b.tokens + RefillOf(b, spec) \div Second

Refilled(b, spec) ==
  Least(b.tokens + RefillOf(b, spec) \div Second, spec.capacity)

Allows(b, spec) == Refilled(b, spec) >= 1

(* Mutant of Taken. *)
TakenAlways(b, spec) ==
  [tokens |-> Refilled(b, spec) - 1, last |-> now, rem |-> RefillOf(b, spec) % Second]

Taken(b, spec) ==
  [tokens |-> IF Allows(b, spec) THEN Refilled(b, spec) - 1 ELSE Refilled(b, spec),
   last |-> now, rem |-> RefillOf(b, spec) % Second]

(* build_session_creation_rate_limiter starts the global bucket full.      *)
GlobalBucket == IF rate.global = NoSpec THEN NoBucket ELSE FullBucket(rate.global)

NoPassage == [global |-> NoTime, key |-> NoTime]

IdleCreator == [at |-> "idle", key |-> UnknownPeer, session |-> NoSession, prune |-> {}]

Init ==
  /\ rate \in CreationRate
  /\ now = 0
  /\ global = GlobalBucket
  /\ perKey = [k \in RateKey |-> NoBucket]
  /\ sessions = {}
  /\ ended = {}
  /\ createdAt = [s \in Session |-> NoTime]
  /\ creator = [c \in Creator |-> IdleCreator]
  /\ request = [q \in Request |-> [at |-> "idle", session |-> NoSession]]
  /\ closer = [s \in Session |-> "none"]
  /\ leaked = {}
  /\ passed = [c \in Creator |-> NoPassage]

Tick ==
  /\ now < MaxNow
  /\ now' = now + 1
  /\ UNCHANGED <<rate, global, perKey, sessions, ended, createdAt, creator, request, closer,
                 leaked, passed>>

-----------------------------------------------------------------------------
(* The middleware that limits the creation of sessions: extract_key, then  *)
(* allow_with_key.                                                         *)

Creates(c, step) == creator' = [creator EXCEPT ![c].at = step]

(* Nothing puts a SocketAddr into the extensions of a request, which is    *)
(* where request_peer_key looks for it.                                    *)
RequestPeerKey == UnknownPeer

(* from is the first address of x-forwarded-for. *)
ExtractKey(from) ==
  IF rate.key_source = "x_forwarded_for" /\ from # NoAddress THEN from ELSE RequestPeerKey

Keyed(c, from, step) ==
  creator' = [creator EXCEPT ![c].at = step, ![c].key = ExtractKey(from)]

LimitGlobal(c, from) ==
  /\ creator[c].at = "idle"
  /\ \/ /\ rate.global = NoSpec
        /\ Keyed(c, from, "key")
        /\ UNCHANGED <<global, passed>>
     \/ /\ rate.global # NoSpec
        /\ global' = Taken(global, rate.global)
        /\ \/ /\ Allows(global, rate.global)
              /\ Keyed(c, from, "key")
              /\ passed' = [passed EXCEPT ![c].global = now]
           \/ /\ ~Allows(global, rate.global)
              /\ Keyed(c, from, "limited")
              /\ UNCHANGED passed
  /\ UNCHANGED <<rate, now, perKey, sessions, ended, createdAt, request, closer, leaked>>

(* The bucket of a key is made full when the key is first seen. *)
BucketOf(k) == IF perKey[k] = NoBucket THEN FullBucket(rate.per_ip) ELSE perKey[k]

(* A request that its own bucket refuses keeps the global token it took. *)
LimitKey(c) ==
  LET k == creator[c].key IN
  /\ creator[c].at = "key"
  /\ \/ /\ rate.per_ip = NoSpec
        /\ Creates(c, "prune")
        /\ UNCHANGED <<perKey, passed>>
     \/ /\ rate.per_ip # NoSpec
        /\ perKey' = [perKey EXCEPT ![k] = Taken(BucketOf(k), rate.per_ip)]
        /\ \/ /\ Allows(BucketOf(k), rate.per_ip)
              /\ Creates(c, "prune")
              /\ passed' = [passed EXCEPT ![c].key = now]
           \/ /\ ~Allows(BucketOf(k), rate.per_ip)
              /\ Creates(c, "limited")
              /\ UNCHANGED passed
  /\ UNCHANGED <<rate, now, global, sessions, ended, createdAt, request, closer, leaked>>

-----------------------------------------------------------------------------
(* create_session: prune the expired sessions, compare the number of       *)
(* sessions with the limit, let rmcp create one, record when.              *)

(* Mutant of Expired. *)
ExpiredLate(s) == createdAt[s] # NoTime /\ now - createdAt[s] > MaxLifetime

Expired(s) == createdAt[s] # NoTime /\ now - createdAt[s] >= MaxLifetime

(* LocalSessionManager::close_session *)
CloseFails(s) == s \in sessions \cap ended

Closes(s) ==
  /\ sessions' = sessions \ {s}
  /\ leaked' = IF CloseFails(s) THEN leaked \cup {s} ELSE leaked

(* Mutant of Forgotten. *)
NothingForgotten(s) == createdAt

Forgotten(s) == [createdAt EXCEPT ![s] = NoTime]

PruneRead(c) ==
  /\ creator[c].at = "prune"
  /\ creator' = [creator EXCEPT ![c].at = "closing",
                                ![c].prune = {s \in Session : Expired(s)}]
  /\ UNCHANGED <<rate, now, global, perKey, sessions, ended, createdAt, request, closer,
                 leaked, passed>>

PruneClose(c, s) ==
  /\ creator[c].at = "closing"
  /\ s \in creator[c].prune
  /\ Closes(s)
  /\ \/ CloseFails(s) /\ Creates(c, "failed")
     \/ /\ ~CloseFails(s)
        /\ creator' = [creator EXCEPT ![c].at = "forget", ![c].session = s]
  /\ UNCHANGED <<rate, now, global, perKey, ended, createdAt, request, closer, passed>>

PruneForget(c) ==
  LET s == creator[c].session IN
  /\ creator[c].at = "forget"
  /\ createdAt' = Forgotten(s)
  /\ creator' = [creator EXCEPT ![c].at = "closing", ![c].session = NoSession,
                                ![c].prune = @ \ {s}]
  /\ UNCHANGED <<rate, now, global, perKey, sessions, ended, request, closer, leaked, passed>>

UnderLimit == Cardinality(sessions) < MaxSessions

Count(c) ==
  /\ creator[c].at = "closing"
  /\ creator[c].prune = {}
  /\ Creates(c, IF UnderLimit THEN "create" ELSE "refused")
  /\ UNCHANGED <<rate, now, global, perKey, sessions, ended, createdAt, request, closer,
                 leaked, passed>>

Create(c, s) ==
  /\ creator[c].at = "create"
  /\ \A d \in Creator : creator[d].session # s
  /\ sessions' = sessions \cup {s}
  /\ creator' = [creator EXCEPT ![c].at = "record", ![c].session = s]
  /\ UNCHANGED <<rate, now, global, perKey, ended, createdAt, request, closer, leaked, passed>>

(* Mutant of Recorded. *)
NothingRecorded(c) == createdAt

Recorded(c) == [createdAt EXCEPT ![creator[c].session] = now]

Record(c) ==
  /\ creator[c].at = "record"
  /\ createdAt' = Recorded(c)
  /\ Creates(c, "done")
  /\ UNCHANGED <<rate, now, global, perKey, sessions, ended, request, closer, leaked, passed>>

(* The future of the request is dropped.  Between the two maps this leaves *)
(* a session without its record, or a record without its session.          *)
Abandoned(step) ==
  CASE step = "record" -> "unrecorded"
    [] step = "forget" -> "unforgotten"
    [] OTHER           -> "dropped"

DropCreator(c) ==
  /\ creator[c].at \in {"key", "prune", "closing", "forget", "create", "record"}
  /\ creator' = [creator EXCEPT ![c].at = Abandoned(@), ![c].prune = {}]
  /\ UNCHANGED <<rate, now, global, perKey, sessions, ended, createdAt, request, closer,
                 leaked, passed>>

(* The sessions that create_session has returned: rmcp serves them, and    *)
(* their clients may know them.                                            *)
Told == {creator[c].session : c \in {d \in Creator : creator[d].at = "done"}}

-----------------------------------------------------------------------------
(* A request on a session: expire_if_needed, then rmcp's own operation, or *)
(* close_session for a DELETE request.                                     *)

Asks(q, s) ==
  /\ request[q].at = "idle"
  /\ s \in Told
  /\ \E step \in {"check", "delete"} :
       request' = [request EXCEPT ![q] = [at |-> step, session |-> s]]
  /\ UNCHANGED <<rate, now, global, perKey, sessions, ended, createdAt, creator, closer,
                 leaked, passed>>

Goes(q, step) == request' = [request EXCEPT ![q].at = step]

ExpireCheck(q) ==
  /\ request[q].at = "check"
  /\ Goes(q, IF Expired(request[q].session) THEN "expire" ELSE "serve")
  /\ UNCHANGED <<rate, now, global, perKey, sessions, ended, createdAt, creator, closer,
                 leaked, passed>>

RequestCloses(q, step) ==
  /\ request[q].at = step
  /\ Closes(request[q].session)
  /\ Goes(q, IF CloseFails(request[q].session) THEN "error" ELSE "forget")
  /\ UNCHANGED <<rate, now, global, perKey, ended, createdAt, creator, closer, passed>>

ExpireClose(q) == RequestCloses(q, "expire")

DeleteClose(q) == RequestCloses(q, "delete")

RequestForget(q) ==
  /\ request[q].at = "forget"
  /\ createdAt' = Forgotten(request[q].session)
  /\ Goes(q, "closed")
  /\ UNCHANGED <<rate, now, global, perKey, sessions, ended, creator, closer, leaked, passed>>

Serve(q) ==
  /\ request[q].at = "serve"
  /\ Goes(q, IF request[q].session \in sessions THEN "served" ELSE "notFound")
  /\ UNCHANGED <<rate, now, global, perKey, sessions, ended, createdAt, creator, closer,
                 leaked, passed>>

DropRequest(q) ==
  /\ request[q].at \in {"check", "expire", "delete", "forget", "serve"}
  /\ Goes(q, Abandoned(request[q].at))
  /\ UNCHANGED <<rate, now, global, perKey, sessions, ended, createdAt, creator, closer,
                 leaked, passed>>

-----------------------------------------------------------------------------
(* The service of a session ends, because the worker does (idle for        *)
(* idle_ttl, its transport closed) or because somebody has closed the      *)
(* session; then its task calls close_session.                             *)

SessionEnds(s) ==
  /\ s \in Told
  /\ closer[s] = "none"
  /\ closer' = [closer EXCEPT ![s] = "close"]
  /\ \/ s \in sessions /\ ended' = ended \cup {s}
     \/ UNCHANGED ended
  /\ UNCHANGED <<rate, now, global, perKey, sessions, createdAt, creator, request, leaked, passed>>

CloseSession(s) ==
  /\ closer[s] = "close"
  /\ Closes(s)
  /\ closer' = [closer EXCEPT ![s] = IF CloseFails(s) THEN "done" ELSE "forget"]
  /\ UNCHANGED <<rate, now, global, perKey, ended, createdAt, creator, request, passed>>

CloseForget(s) ==
  /\ closer[s] = "forget"
  /\ createdAt' = Forgotten(s)
  /\ closer' = [closer EXCEPT ![s] = "done"]
  /\ UNCHANGED <<rate, now, global, perKey, sessions, ended, creator, request, leaked, passed>>

-----------------------------------------------------------------------------
Next ==
  \/ Tick
  \/ \E c \in Creator :
       \/ \E from \in Address \cup {NoAddress} : LimitGlobal(c, from)
       \/ LimitKey(c)
       \/ PruneRead(c)
       \/ PruneForget(c)
       \/ Count(c)
       \/ Record(c)
       \/ DropCreator(c)
       \/ \E s \in Session : PruneClose(c, s) \/ Create(c, s)
  \/ \E q \in Request :
       \/ ExpireCheck(q)
       \/ ExpireClose(q)
       \/ DeleteClose(q)
       \/ RequestForget(q)
       \/ Serve(q)
       \/ DropRequest(q)
       \/ \E s \in Session : Asks(q, s)
  \/ \E s \in Session : SessionEnds(s) \/ CloseSession(s) \/ CloseForget(s)

Spec == Init /\ [][Next]_vars

-----------------------------------------------------------------------------
CreatorState ==
  [at : {"idle", "limited", "key", "prune", "closing", "forget", "failed", "refused",
         "create", "record", "done", "dropped", "unrecorded", "unforgotten"},
   key : RateKey, session : Session \cup {NoSession}, prune : SUBSET Session]

RequestState ==
  [at : {"idle", "check", "expire", "delete", "forget", "serve", "served", "notFound",
         "closed", "error", "dropped", "unforgotten"},
   session : Session \cup {NoSession}]

(* Every variable has its type. *)
TypeOK ==
  /\ rate \in CreationRate
  /\ now \in 0..MaxNow
  /\ IF rate.global = NoSpec THEN global = NoBucket
     ELSE global \in Bucket /\ global.tokens <= rate.global.capacity
  /\ perKey \in [RateKey -> Bucket \cup {NoBucket}]
  /\ sessions \subseteq Session
  /\ ended \subseteq Session
  /\ createdAt \in [Session -> Nat \cup {NoTime}]
  /\ creator \in [Creator -> CreatorState]
  /\ request \in [Request -> RequestState]
  /\ closer \in [Session -> {"none", "close", "forget", "done"}]
  /\ leaked \subseteq Session
  /\ passed \in [Creator -> [global : Nat \cup {NoTime}, key : Nat \cup {NoTime}]]

(* In any window of time a bucket lets through at most its capacity and    *)
(* what the window refills, rounded up for the remainder that take()       *)
(* carries from one call to the next: the global bucket of all requests,   *)
(* and a key's of those with that key (hardening.rs:296-314, 332-350).     *)
Within(t, from, to) == t # NoTime /\ t \in from..to

MostOf(spec, from, to) ==
  spec.capacity + ((to - from) * spec.refill + Second - 1) \div Second

RateBounded ==
  \A from, to \in 0..MaxNow : from <= to =>
    /\ rate.global # NoSpec =>
         Cardinality({c \in Creator : Within(passed[c].global, from, to)}) <=
           MostOf(rate.global, from, to)
    /\ rate.per_ip # NoSpec =>
         \A k \in RateKey :
           Cardinality({c \in Creator :
                          creator[c].key = k /\ Within(passed[c].key, from, to)}) <=
             MostOf(rate.per_ip, from, to)

(* Every session that create_session has returned has a record of its      *)
(* creation for as long as rmcp holds it, whoever prunes, expires, deletes *)
(* or gives up meanwhile: without one it would never reach its maximal     *)
(* lifetime.  A session that rmcp holds without a record is one that its   *)
(* creator has yet to record, or was dropped before it did; that one stays *)
(* for good, and counts (hardening.rs:158-166).                            *)
SessionRecorded ==
  \A s \in sessions :
    createdAt[s] # NoTime
      \/ /\ s \notin Told
         /\ \E c \in Creator :
              creator[c].session = s /\ creator[c].at \in {"record", "unrecorded"}

(* The record of a session goes with it: a record without session belongs  *)
(* to somebody who is about to remove it, to a session whose close failed, *)
(* or to a request that was dropped between the two, and then the task     *)
(* that served the session has yet to close it and removes the record, if  *)
(* nobody else does before (hardening.rs:127-131, 148-150, 189-193).       *)
RecordHasSession ==
  \A s \in Session \ leaked :
    (createdAt[s] # NoTime /\ s \notin sessions) =>
      \/ closer[s] = "forget"
      \/ \E c \in Creator : creator[c].session = s /\ creator[c].at = "forget"
      \/ \E q \in Request : request[q].session = s /\ request[q].at = "forget"
      \/ /\ closer[s] # "done"
         /\ \/ \E c \in Creator : creator[c].session = s /\ creator[c].at = "unforgotten"
            \/ \E q \in Request : request[q].session = s /\ request[q].at = "unforgotten"

(* A request passes expire_if_needed only on a session younger than the    *)
(* maximal lifetime, or on one that is closed and will not be found.       *)
LifetimeEnforced ==
  [][\A q \in Request :
       LET s == request[q].session IN
       (request[q].at = "check" /\ request'[q].at = "serve" /\ s \in sessions) =>
         createdAt[s] # NoTime /\ now - createdAt[s] < MaxLifetime]_vars

(* docs/CONFIG_SCHEMA.md:122: max_sessions is the "Optional max concurrent *)
(* sessions".                                                              *)
SessionLimit == Cardinality(sessions) <= MaxSessions
=============================================================================
