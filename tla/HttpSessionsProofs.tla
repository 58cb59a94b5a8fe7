------------------------- MODULE HttpSessionsProofs -------------------------
(***************************************************************************)
(* Proofs about HttpSessions for every set of sessions, requests and       *)
(* addresses, every configuration of the buckets and every lifetime.       *)
(***************************************************************************)
EXTENDS HttpSessions, FiniteSetTheorems, TLAPS

(* What is known of the constants. *)
LEMMA ConstantsType ==
  /\ rate \in CreationRate =>
       /\ rate.global \in RateSpec \cup {NoSpec}
       /\ rate.per_ip \in RateSpec \cup {NoSpec}
  /\ MaxSessions \in Nat /\ MaxLifetime \in Nat /\ MaxNow \in Nat
  /\ Second \in Nat /\ Second > 0
  BY SessionsAssumption DEF CreationRateConfig

-----------------------------------------------------------------------------
(* Token buckets.  A bucket was last touched in the past and carries less  *)
(* than a token's remainder.                                               *)
BucketFits(b, spec) ==
  /\ b \in Bucket
  /\ b.last <= now
  /\ b.tokens <= spec.capacity
  /\ b.rem < Second

LEMMA FullBucketFits ==
  ASSUME NEW spec \in RateSpec, now \in Nat
  PROVE  BucketFits(FullBucket(spec), spec)
  BY ConstantsType DEF BucketFits, FullBucket, RateSpec, Bucket

(* Taking a token, or being refused one, never makes more of time and      *)
(* tokens than there was: measured in parts of a token, the bucket after   *)
(* take() holds at most what it held and what the time has refilled, less  *)
(* the token that was taken (hardening.rs:296-314).                        *)
Granted(b, spec) == IF Allows(b, spec) THEN 1 ELSE 0

LEMMA Product ==
  ASSUME NEW a \in Nat, NEW b \in Nat
  PROVE  a * b \in Nat
  OBVIOUS

LEMMA Division ==
  ASSUME NEW n \in Nat
  PROVE  /\ n \div Second \in Nat
         /\ n % Second \in Nat
         /\ n % Second < Second
         /\ n = Second * (n \div Second) + (n % Second)
  BY ConstantsType

LEMMA TakenFits ==
  ASSUME now \in Nat, NEW spec \in RateSpec, NEW b, BucketFits(b, spec)
  PROVE  /\ BucketFits(Taken(b, spec), spec)
         /\ Taken(b, spec).last = now
         /\ Taken(b, spec).tokens + Granted(b, spec) <= spec.capacity
         /\ Second * (Taken(b, spec).tokens + Granted(b, spec)) + Taken(b, spec).rem
              <= Second * b.tokens + b.rem + (now - b.last) * spec.refill
<1> DEFINE n == RefillOf(b, spec)
           q == n \div Second
           t == Taken(b, spec)
           r == Refilled(b, spec)
<1>1. /\ spec.capacity \in Nat /\ spec.capacity > 0 /\ spec.refill \in Nat
      /\ b.tokens \in Nat /\ b.last \in Nat /\ b.rem \in Nat /\ now - b.last \in Nat
  BY DEF BucketFits, Bucket, RateSpec
<1>2. (now - b.last) * spec.refill \in Nat
  BY <1>1, Product
<1>3. n \in Nat
  BY <1>1, <1>2 DEF RefillOf
<1>4. /\ q \in Nat /\ n % Second \in Nat /\ n % Second < Second
      /\ n = Second * q + (n % Second)
  BY <1>3, Division
<1>5. r \in Nat /\ r <= b.tokens + q /\ r <= spec.capacity
  BY <1>1, <1>4 DEF Refilled, Least
<1>6. /\ t.tokens \in Nat /\ t.last = now /\ t.rem = n % Second
      /\ t.tokens + Granted(b, spec) = r
      /\ t = [tokens |-> t.tokens, last |-> now, rem |-> n % Second]
  BY <1>5 DEF Taken, Granted, Allows
<1>7. Granted(b, spec) \in Nat
  BY DEF Granted
<1>8. BucketFits(t, spec)
  BY <1>1, <1>4, <1>5, <1>6, <1>7 DEF BucketFits, Bucket
<1>9. Second * r <= Second * b.tokens + Second * q
  BY <1>1, <1>4, <1>5, ConstantsType
<1>10. n = (now - b.last) * spec.refill + b.rem
  BY DEF RefillOf
<1> HIDE DEF n, q, t, r
<1>11. Second * (t.tokens + Granted(b, spec)) + t.rem
         <= Second * b.tokens + b.rem + (now - b.last) * spec.refill
  <2>1. Second * r \in Nat /\ Second * q \in Nat /\ Second * b.tokens \in Nat
    BY <1>1, <1>4, <1>5, Product, ConstantsType
  <2> QED
    BY <1>1, <1>2, <1>3, <1>4, <1>6, <1>9, <1>10, <2>1
<1> QED
  BY <1>5, <1>6, <1>8, <1>11 DEF t

-----------------------------------------------------------------------------
(* Type correctness needs beside the types that no bucket was touched in   *)
(* the future, or its tokens would not be counted in natural numbers.      *)
BucketsFit ==
  /\ rate.global # NoSpec => BucketFits(global, rate.global)
  /\ rate.per_ip # NoSpec =>
       \A k \in RateKey : perKey[k] # NoBucket => BucketFits(perKey[k], rate.per_ip)

(* Time does no harm to a bucket, and neither does what leaves it alone.   *)
LEMMA BucketsKeep ==
  ASSUME BucketsFit, now \in Nat, now' \in Nat, now <= now',
         UNCHANGED <<rate, global, perKey>>
  PROVE  BucketsFit'
  BY DEF BucketsFit, BucketFits, Bucket

LEMMA BucketOfFits ==
  ASSUME TypeOK, BucketsFit, rate.per_ip # NoSpec, NEW k \in RateKey
  PROVE  BucketFits(BucketOf(k), rate.per_ip)
  BY ConstantsType, FullBucketFits DEF BucketOf, BucketsFit, TypeOK

LEMMA KeyType ==
  ASSUME NEW from \in Address \cup {NoAddress}
  PROVE  ExtractKey(from) \in RateKey
  BY DEF ExtractKey, RequestPeerKey, RateKey

LEMMA ForgetMoves ==
  ASSUME creator \in [Creator -> CreatorState], NEW c \in Creator, PruneForget(c)
  PROVE  /\ creator' \in [Creator -> CreatorState]
         /\ creator[c].at = "forget" /\ creator'[c].at = "closing"
         /\ creator'[c].prune = creator[c].prune \ {creator[c].session}
         /\ \A d \in Creator \ {c} : creator'[d] = creator[d]
<1> DEFINE left == creator[c].prune \ {creator[c].session}
           new == [creator[c] EXCEPT !.at = "closing", !.session = NoSession, !.prune = left]
<1>1. creator[c] \in CreatorState
  OBVIOUS
<1>2. left \in SUBSET Session
  BY <1>1 DEF CreatorState
<1>3. creator' = [creator EXCEPT ![c] = new] /\ creator[c].at = "forget"
  BY DEF PruneForget
<1> HIDE DEF left
<1>4. new \in CreatorState /\ new.at = "closing" /\ new.prune = left
  BY <1>1, <1>2 DEF CreatorState
<1> HIDE DEF new
<1>5. creator'[c] = new /\ creator' \in [Creator -> CreatorState]
      /\ \A d \in Creator \ {c} : creator'[d] = creator[d]
  BY <1>3, <1>4
<1> QED
  BY <1>3, <1>4, <1>5 DEF left

LEMMA DropMoves ==
  ASSUME creator \in [Creator -> CreatorState], NEW c \in Creator, DropCreator(c)
  PROVE  /\ creator' \in [Creator -> CreatorState]
         /\ creator[c].at \in {"key", "prune", "closing", "forget", "create", "record"}
         /\ creator'[c].at = Abandoned(creator[c].at)
         /\ creator'[c].key = creator[c].key /\ creator'[c].session = creator[c].session
         /\ creator'[c].prune = {}
         /\ \A d \in Creator \ {c} : creator'[d] = creator[d]
<1> DEFINE step == Abandoned(creator[c].at)
           new == [creator[c] EXCEPT !.at = step, !.prune = {}]
<1>1. creator[c] \in CreatorState /\ step \in {"dropped", "unrecorded", "unforgotten"}
  BY DEF Abandoned
<1>2. creator' = [creator EXCEPT ![c] = new]
  BY DEF DropCreator
<1>3. creator[c].at \in {"key", "prune", "closing", "forget", "create", "record"}
  BY DEF DropCreator
<1> HIDE DEF step
<1>4. /\ new \in CreatorState /\ new.at = step /\ new.prune = {}
      /\ new.key = creator[c].key /\ new.session = creator[c].session
  BY <1>1 DEF CreatorState
<1> HIDE DEF new
<1>5. creator'[c] = new /\ creator' \in [Creator -> CreatorState]
      /\ \A d \in Creator \ {c} : creator'[d] = creator[d]
  BY <1>2, <1>4
<1> QED
  BY <1>3, <1>4, <1>5 DEF step

LEMMA TypeStep ==
  ASSUME TypeOK, BucketsFit, [Next]_vars
  PROVE  TypeOK' /\ BucketsFit'
<1> USE ConstantsType
<1>0. /\ now \in Nat /\ now \in 0..MaxNow
      /\ creator \in [Creator -> CreatorState]
      /\ request \in [Request -> RequestState]
  BY DEF TypeOK
<1>1. CASE Tick
  <2>1. now' \in Nat /\ now <= now' /\ now' \in 0..MaxNow
    BY <1>0, <1>1 DEF Tick
  <2>2. BucketsFit'
    BY <1>0, <1>1, <2>1, BucketsKeep DEF Tick
  <2> QED
    BY <1>1, <2>1, <2>2 DEF Tick, TypeOK
<1>2. ASSUME NEW c \in Creator, NEW from \in Address \cup {NoAddress}, LimitGlobal(c, from)
      PROVE  TypeOK' /\ BucketsFit'
  <2>1. creator' \in [Creator -> CreatorState]
    BY <1>0, <1>2, KeyType DEF LimitGlobal, Keyed, CreatorState
  <2>2. passed' \in [Creator -> [global : Nat \cup {NoTime}, key : Nat \cup {NoTime}]]
    BY <1>0, <1>2 DEF LimitGlobal, TypeOK
  <2>3. rate.global # NoSpec => BucketFits(global', rate.global)
    BY <1>0, <1>2, TakenFits DEF LimitGlobal, BucketsFit, TypeOK
  <2>4. rate.global = NoSpec => global' = global
    BY <1>2 DEF LimitGlobal
  <2>5. UNCHANGED <<rate, now, perKey>>
    BY <1>2 DEF LimitGlobal
  <2>6. BucketsFit'
    BY <1>0, <2>3, <2>5 DEF BucketsFit, BucketFits
  <2> QED
    BY <1>2, <2>1, <2>2, <2>3, <2>4, <2>5, <2>6 DEF LimitGlobal, TypeOK, BucketFits
<1>3. ASSUME UNCHANGED <<rate, now, global, perKey>>
      PROVE  BucketsFit'
  BY <1>0, <1>3, BucketsKeep
<1>4. ASSUME NEW c \in Creator, LimitKey(c)
      PROVE  TypeOK' /\ BucketsFit'
  <2> DEFINE k == creator[c].key
  <2>1. k \in RateKey
    BY DEF TypeOK, CreatorState
  <2>2. creator' \in [Creator -> CreatorState]
    BY <1>0, <1>4 DEF LimitKey, Creates, CreatorState
  <2>3. passed' \in [Creator -> [global : Nat \cup {NoTime}, key : Nat \cup {NoTime}]]
    BY <1>0, <1>4 DEF LimitKey, TypeOK
  <2>4. UNCHANGED <<rate, now, global>>
    BY <1>4 DEF LimitKey
  <2>5. perKey' \in [RateKey -> Bucket \cup {NoBucket}] /\ BucketsFit'
    <3>1. CASE rate.per_ip = NoSpec
      <4>1. perKey' = perKey
        BY <1>4, <3>1 DEF LimitKey
      <4> QED
        BY <1>3, <2>4, <4>1 DEF TypeOK
    <3>2. CASE rate.per_ip # NoSpec
      <4>1. BucketFits(Taken(BucketOf(k), rate.per_ip), rate.per_ip)
        BY <1>0, <2>1, <3>2, BucketOfFits, TakenFits DEF TypeOK
      <4>2. perKey' = [perKey EXCEPT ![k] = Taken(BucketOf(k), rate.per_ip)]
        BY <1>4, <3>2 DEF LimitKey
      <4>3. perKey' \in [RateKey -> Bucket \cup {NoBucket}]
        BY <4>1, <4>2 DEF TypeOK, BucketFits
      <4>4. BucketsFit'
        BY <2>1, <2>4, <4>1, <4>2 DEF BucketsFit, BucketFits, TypeOK
      <4> QED
        BY <4>3, <4>4
    <3> QED
      BY <3>1, <3>2
  <2> QED
    BY <1>4, <2>2, <2>3, <2>4, <2>5 DEF LimitKey, TypeOK
<1>5. ASSUME NEW c \in Creator, PruneRead(c)
      PROVE  TypeOK' /\ BucketsFit'
  <2>1. creator' \in [Creator -> CreatorState]
    <3> DEFINE expired == {s \in Session : Expired(s)}
               new == [creator[c] EXCEPT !.at = "closing", !.prune = expired]
    <3>1. expired \in SUBSET Session
      OBVIOUS
    <3>2. creator' = [creator EXCEPT ![c] = new]
      BY <1>5 DEF PruneRead
    <3> HIDE DEF expired
    <3>3. new \in CreatorState
      BY <1>0, <3>1 DEF CreatorState
    <3> HIDE DEF new
    <3> QED
      BY <1>0, <3>2, <3>3
  <2> QED
    BY <1>0, <1>3, <1>5, <2>1 DEF PruneRead, TypeOK
<1>6. ASSUME NEW c \in Creator, NEW s \in Session, PruneClose(c, s)
      PROVE  TypeOK' /\ BucketsFit'
  <2>1. creator' \in [Creator -> CreatorState]
    BY <1>0, <1>6 DEF PruneClose, Creates, CreatorState
  <2> QED
    BY <1>0, <1>3, <1>6, <2>1 DEF PruneClose, Closes, Creates, TypeOK
<1>7. ASSUME NEW c \in Creator, PruneForget(c)
      PROVE  TypeOK' /\ BucketsFit'
  <2>1. creator' \in [Creator -> CreatorState]
    BY <1>0, <1>7, ForgetMoves
  <2> QED
    BY <1>0, <1>3, <1>7, <2>1 DEF PruneForget, Forgotten, TypeOK
<1>8. ASSUME NEW c \in Creator, Count(c)
      PROVE  TypeOK' /\ BucketsFit'
  <2>1. creator' \in [Creator -> CreatorState]
    BY <1>0, <1>8 DEF Count, Creates, CreatorState
  <2> QED
    BY <1>0, <1>3, <1>8, <2>1 DEF Count, Creates, TypeOK
<1>9. ASSUME NEW c \in Creator, NEW s \in Session, Create(c, s)
      PROVE  TypeOK' /\ BucketsFit'
  <2>1. creator' \in [Creator -> CreatorState]
    BY <1>0, <1>9 DEF Create, CreatorState
  <2> QED
    BY <1>0, <1>3, <1>9, <2>1 DEF Create, TypeOK
<1>10. ASSUME NEW c \in Creator, Record(c)
      PROVE  TypeOK' /\ BucketsFit'
  <2>1. creator' \in [Creator -> CreatorState]
    BY <1>0, <1>10 DEF Record, Recorded, Creates, CreatorState
  <2> QED
    BY <1>0, <1>3, <1>10, <2>1 DEF Record, Recorded, Creates, TypeOK
<1>11. ASSUME NEW q \in Request, NEW s \in Session, Asks(q, s)
      PROVE  TypeOK' /\ BucketsFit'
  <2>1. request' \in [Request -> RequestState]
    BY <1>0, <1>11 DEF Asks, RequestState
  <2> QED
    BY <1>3, <1>11, <2>1 DEF Asks, TypeOK
<1>12. ASSUME NEW q \in Request, ExpireCheck(q)
      PROVE  TypeOK' /\ BucketsFit'
  <2>1. request' \in [Request -> RequestState]
    BY <1>0, <1>12 DEF ExpireCheck, Goes, RequestState
  <2> QED
    BY <1>3, <1>12, <2>1 DEF ExpireCheck, Goes, TypeOK
<1>13. ASSUME NEW q \in Request, ExpireClose(q) \/ DeleteClose(q)
      PROVE  TypeOK' /\ BucketsFit'
  <2>1. request' \in [Request -> RequestState]
    BY <1>0, <1>13 DEF ExpireClose, DeleteClose, RequestCloses, Goes, RequestState
  <2>2. CloseFails(request[q].session) => request[q].session \in Session
    BY DEF CloseFails, TypeOK
  <2>3. /\ Closes(request[q].session)
        /\ UNCHANGED <<rate, now, global, perKey, ended, createdAt, creator, closer, passed>>
    BY <1>13 DEF ExpireClose, DeleteClose, RequestCloses
  <2> QED
    BY <1>3, <2>1, <2>2, <2>3 DEF Closes, TypeOK
<1>14. ASSUME NEW q \in Request, RequestForget(q)
      PROVE  TypeOK' /\ BucketsFit'
  <2>1. request' \in [Request -> RequestState]
    BY <1>0, <1>14 DEF RequestForget, Goes, RequestState
  <2> QED
    BY <1>3, <1>14, <2>1 DEF RequestForget, Forgotten, TypeOK
<1>15. ASSUME NEW q \in Request, Serve(q)
      PROVE  TypeOK' /\ BucketsFit'
  <2>1. request' \in [Request -> RequestState]
    BY <1>0, <1>15 DEF Serve, Goes, RequestState
  <2> QED
    BY <1>3, <1>15, <2>1 DEF Serve, Goes, TypeOK
<1>16. ASSUME NEW s \in Session, SessionEnds(s)
      PROVE  TypeOK' /\ BucketsFit'
  BY <1>3, <1>16 DEF SessionEnds, TypeOK
<1>17. ASSUME NEW s \in Session, CloseSession(s)
      PROVE  TypeOK' /\ BucketsFit'
  BY <1>3, <1>17 DEF CloseSession, Closes, TypeOK
<1>18. ASSUME NEW s \in Session, CloseForget(s)
      PROVE  TypeOK' /\ BucketsFit'
  BY <1>3, <1>18 DEF CloseForget, Forgotten, TypeOK
<1>19. ASSUME NEW c \in Creator, DropCreator(c)
      PROVE  TypeOK' /\ BucketsFit'
  <2>1. creator' \in [Creator -> CreatorState]
    BY <1>0, <1>19, DropMoves
  <2> QED
    BY <1>3, <1>19, <2>1 DEF DropCreator, TypeOK
<1>20. ASSUME NEW q \in Request, DropRequest(q)
      PROVE  TypeOK' /\ BucketsFit'
  <2>1. request' \in [Request -> RequestState]
    BY <1>0, <1>20 DEF DropRequest, Goes, Abandoned, RequestState
  <2> QED
    BY <1>3, <1>20, <2>1 DEF DropRequest, Goes, TypeOK
<1>21. CASE UNCHANGED vars
  BY <1>3, <1>21 DEF vars, TypeOK
<1> QED
  BY <1>1, <1>2, <1>4, <1>5, <1>6, <1>7, <1>8, <1>9, <1>10, <1>11, <1>12,
     <1>13, <1>14, <1>15, <1>16, <1>17, <1>18, <1>19, <1>20, <1>21 DEF Next

LEMMA TypeInit ==
  Init => TypeOK /\ BucketsFit
<1> SUFFICES ASSUME Init PROVE TypeOK /\ BucketsFit
  OBVIOUS
<1>1. rate.global # NoSpec => BucketFits(global, rate.global)
  BY ConstantsType, FullBucketFits DEF Init, GlobalBucket
<1>2. BucketsFit
  BY <1>1 DEF BucketsFit, Init
<1> QED
  BY <1>1, <1>2, ConstantsType
  DEF Init, GlobalBucket, TypeOK, BucketFits, IdleCreator, NoPassage, RateKey,
      CreatorState, RequestState

(* Every variable keeps its type under every operation, the buckets'       *)
(* natural numbers included.                                               *)
THEOREM TypeCorrect == Spec => []TypeOK
<1>1. TypeOK /\ BucketsFit /\ [Next]_vars => TypeOK' /\ BucketsFit'
  BY TypeStep
<1> QED
  BY <1>1, TypeInit, PTL DEF Spec

-----------------------------------------------------------------------------
(* Sessions and their records.  Whoever closes a session or forgets its    *)
(* record has been told its id, and so comes after the request that        *)
(* created it has recorded it; no id is drawn twice.  The task that served *)
(* a session has removed its record when it is done, unless the close of   *)
(* the session failed: it makes up for the requests that were dropped      *)
(* before they removed it.                                                 *)
Drawn(c, s) ==
  creator[c].at \in {"record", "unrecorded", "done"} /\ creator[c].session = s

IsTold(s) == \E c \in Creator : creator[c].at = "done" /\ creator[c].session = s

LEMMA ToldIs ==
  ASSUME NEW s
  PROVE  s \in Told <=> IsTold(s)
  BY DEF Told, IsTold

DrawnOnce ==
  /\ \A c, d \in Creator : \A s \in Session : Drawn(c, s) /\ Drawn(d, s) => c = d
  /\ \A c \in Creator :
       creator[c].at \in {"record", "unrecorded", "done"} => creator[c].session \in Session
  /\ \A c \in Creator : creator[c].at = "record" => creator[c].session \in sessions

OthersTold ==
  /\ \A s \in Session : createdAt[s] # NoTime \/ closer[s] # "none" => IsTold(s)
  /\ \A q \in Request : request[q].at # "idle" => IsTold(request[q].session)
  /\ \A c \in Creator : \A s \in creator[c].prune : IsTold(s)

ForgottenClosed ==
  /\ \A c \in Creator : creator[c].at = "forget" =>
       creator[c].session \in creator[c].prune /\ creator[c].session \notin sessions
  /\ \A q \in Request : request[q].at = "forget" => request[q].session \notin sessions
  /\ \A s \in Session : closer[s] = "forget" => s \notin sessions

DoneForgotten ==
  \A s \in Session \ leaked : closer[s] = "done" => createdAt[s] = NoTime

SessionDrawn ==
  \A s \in sessions : \E c \in Creator : Drawn(c, s)

RecordOrCreator ==
  \A s \in sessions :
    createdAt[s] # NoTime
      \/ \E c \in Creator :
           creator[c].session = s /\ creator[c].at \in {"record", "unrecorded"}

SessionsInv ==
  DrawnOnce /\ OthersTold /\ ForgottenClosed /\ DoneForgotten /\ SessionDrawn
    /\ RecordOrCreator /\ RecordHasSession

(* A request that creates a session matters to the others only while it    *)
(* forgets a record, once it has drawn an id, and when it was dropped then. *)
Apart(c) ==
  creator[c].at \notin {"forget", "record", "done", "unrecorded", "unforgotten"}

LEMMA ApartStep ==
  ASSUME SessionsInv, NEW c \in Creator, Apart(c), Apart(c)',
         \A d \in Creator \ {c} : creator'[d] = creator[d],
         \A s \in creator'[c].prune : IsTold(s),
         UNCHANGED <<sessions, createdAt, request, closer, leaked>>
  PROVE  SessionsInv'
<1>1. \A d \in Creator : \A s : Drawn(d, s)' <=> Drawn(d, s)
  BY DEF Drawn, Apart
<1>2. \A s : IsTold(s) => IsTold(s)'
  BY DEF IsTold, Apart
<1>3. DrawnOnce'
  BY <1>1 DEF SessionsInv, DrawnOnce, Drawn, Apart
<1>4. OthersTold'
  BY <1>2 DEF SessionsInv, OthersTold
<1>5. ForgottenClosed' /\ SessionDrawn' /\ DoneForgotten'
  BY <1>1 DEF SessionsInv, ForgottenClosed, SessionDrawn, DoneForgotten, Apart
<1>6. RecordOrCreator' /\ RecordHasSession'
  BY DEF SessionsInv, RecordOrCreator, RecordHasSession, Apart
<1> QED
  BY <1>3, <1>4, <1>5, <1>6 DEF SessionsInv

LEMMA SessionsStep ==
  ASSUME TypeOK, SessionsInv, [Next]_vars
  PROVE  SessionsInv'
<1> USE DEF SessionsInv, DrawnOnce, OthersTold, ForgottenClosed, SessionDrawn, DoneForgotten,
            RecordOrCreator, RecordHasSession, Drawn, IsTold
<1>0. /\ creator \in [Creator -> CreatorState]
      /\ request \in [Request -> RequestState]
      /\ createdAt \in [Session -> Nat \cup {NoTime}]
      /\ closer \in [Session -> {"none", "close", "forget", "done"}]
      /\ sessions \subseteq Session /\ now \in Nat /\ NoTime \notin Nat
      /\ NoSession \notin Session
  BY SessionsAssumption DEF TypeOK
<1> USE <1>0
<1>1. CASE Tick
  BY <1>1 DEF Tick
<1>2. ASSUME NEW c \in Creator, NEW from \in Address \cup {NoAddress}, LimitGlobal(c, from)
      PROVE  SessionsInv'
  <2>1. /\ creator[c].at = "idle" /\ creator'[c].at \in {"key", "limited"}
        /\ creator'[c].prune = creator[c].prune
        /\ \A d \in Creator \ {c} : creator'[d] = creator[d]
    BY <1>2 DEF LimitGlobal, Keyed, CreatorState
  <2>2. UNCHANGED <<sessions, createdAt, request, closer, leaked>>
    BY <1>2 DEF LimitGlobal
  <2>3. \A s \in creator'[c].prune : IsTold(s)
    BY <2>1
  <2> HIDE DEF SessionsInv, IsTold
  <2> QED
    BY <2>1, <2>2, <2>3, ApartStep DEF Apart
<1>3. ASSUME NEW c \in Creator, LimitKey(c)
      PROVE  SessionsInv'
  <2>1. /\ creator[c].at = "key" /\ creator'[c].at \in {"prune", "limited"}
        /\ creator'[c].prune = creator[c].prune
        /\ \A d \in Creator \ {c} : creator'[d] = creator[d]
    BY <1>3 DEF LimitKey, Creates, CreatorState
  <2>2. UNCHANGED <<sessions, createdAt, request, closer, leaked>>
    BY <1>3 DEF LimitKey
  <2>3. \A s \in creator'[c].prune : IsTold(s)
    BY <2>1
  <2> HIDE DEF SessionsInv, IsTold
  <2> QED
    BY <2>1, <2>2, <2>3, ApartStep DEF Apart
<1>4. ASSUME NEW c \in Creator, PruneRead(c)
      PROVE  SessionsInv'
  <2>1. /\ creator[c].at = "prune" /\ creator'[c].at = "closing"
        /\ creator'[c].prune = {s \in Session : Expired(s)}
        /\ \A d \in Creator \ {c} : creator'[d] = creator[d]
    BY <1>4 DEF PruneRead, CreatorState
  <2>2. \A s \in Session : Expired(s) => IsTold(s)
    BY DEF Expired
  <2>3. \A s \in creator'[c].prune : IsTold(s)
    BY <2>1, <2>2
  <2>4. UNCHANGED <<sessions, createdAt, request, closer, leaked>>
    BY <1>4 DEF PruneRead
  <2> HIDE DEF SessionsInv, IsTold
  <2> QED
    BY <2>1, <2>3, <2>4, ApartStep DEF Apart
<1>5. ASSUME NEW c \in Creator, NEW s \in Session, PruneClose(c, s)
      PROVE  SessionsInv'
  <2>1. /\ creator[c].at = "closing" /\ s \in creator[c].prune /\ IsTold(s)
        /\ creator'[c].at \in {"failed", "forget"}
        /\ creator'[c].prune = creator[c].prune
        /\ creator'[c].at = "forget" => creator'[c].session = s
        /\ \A d \in Creator \ {c} : creator'[d] = creator[d]
    BY <1>5 DEF PruneClose, Creates, CreatorState
  <2>2. /\ sessions' = sessions \ {s}
        /\ leaked' = IF CloseFails(s) THEN leaked \cup {s} ELSE leaked
        /\ ~CloseFails(s) => creator'[c].at = "forget"
        /\ UNCHANGED <<createdAt, request, closer>>
    BY <1>5, <1>0 DEF PruneClose, Closes, Creates, CreatorState
  <2>3. \A d \in Creator : \A t : Drawn(d, t)' <=> Drawn(d, t)
    BY <2>1
  <2>4. \A t : IsTold(t) => IsTold(t)'
    BY <2>1
  <2>5. DrawnOnce'
    BY <2>1, <2>2, <2>3
  <2>6. OthersTold' /\ ForgottenClosed' /\ SessionDrawn'
    BY <2>1, <2>2, <2>3, <2>4
  <2>7. RecordOrCreator' /\ RecordHasSession' /\ DoneForgotten'
    BY <2>1, <2>2
  <2> QED
    BY <2>5, <2>6, <2>7
<1>6. ASSUME NEW c \in Creator, PruneForget(c)
      PROVE  SessionsInv'
  <2>1. /\ creator[c].at = "forget" /\ creator'[c].at = "closing"
        /\ creator'[c].prune = creator[c].prune \ {creator[c].session}
        /\ \A d \in Creator \ {c} : creator'[d] = creator[d]
    BY <1>6, ForgetMoves
  <2>2. /\ createdAt' = [createdAt EXCEPT ![creator[c].session] = NoTime]
        /\ UNCHANGED <<sessions, request, closer, leaked>>
    BY <1>6 DEF PruneForget, Forgotten
  <2>3. \A d \in Creator : \A t : Drawn(d, t)' <=> Drawn(d, t)
    BY <2>1
  <2>4. \A t : IsTold(t)' <=> IsTold(t)
    BY <2>1
  <2> HIDE DEF SessionsInv, DrawnOnce, OthersTold, ForgottenClosed, SessionDrawn, DoneForgotten,
               RecordOrCreator, RecordHasSession, Drawn, IsTold
  <2>5. DrawnOnce'
    <3>1. DrawnOnce
      BY DEF SessionsInv
    <3> QED
      BY <2>1, <2>2, <2>3, <3>1 DEF DrawnOnce
  <2>6. OthersTold'
    <3>1. OthersTold
      BY DEF SessionsInv
    <3> QED
      BY <2>1, <2>2, <2>4, <3>1 DEF OthersTold
  <2>7. ForgottenClosed' /\ SessionDrawn' /\ DoneForgotten'
    <3>1. ForgottenClosed /\ SessionDrawn /\ DoneForgotten
      BY DEF SessionsInv
    <3> QED
      BY <2>1, <2>2, <2>3, <3>1 DEF ForgottenClosed, SessionDrawn, DoneForgotten
  <2>8. RecordOrCreator'
    <3>1. RecordOrCreator /\ creator[c].session \notin sessions
      BY <2>1 DEF SessionsInv, ForgottenClosed
    <3> QED
      BY <2>1, <2>2, <3>1 DEF RecordOrCreator
  <2>9. RecordHasSession'
    <3>1. RecordHasSession
      BY DEF SessionsInv
    <3> QED
      BY <2>1, <2>2, <3>1 DEF RecordHasSession
  <2> QED
    BY <2>5, <2>6, <2>7, <2>8, <2>9 DEF SessionsInv
<1>7. ASSUME NEW c \in Creator, Count(c)
      PROVE  SessionsInv'
  <2>1. /\ creator[c].at = "closing" /\ creator'[c].at \in {"create", "refused"}
        /\ creator'[c].prune = creator[c].prune
        /\ \A d \in Creator \ {c} : creator'[d] = creator[d]
    BY <1>7 DEF Count, Creates, CreatorState
  <2>2. UNCHANGED <<sessions, createdAt, request, closer, leaked>>
    BY <1>7 DEF Count
  <2>3. \A s \in creator'[c].prune : IsTold(s)
    BY <2>1
  <2> HIDE DEF SessionsInv, IsTold
  <2> QED
    BY <2>1, <2>2, <2>3, ApartStep DEF Apart
<1>8. ASSUME NEW c \in Creator, NEW s \in Session, Create(c, s)
      PROVE  SessionsInv'
  <2>1. /\ creator[c].at = "create" /\ creator'[c].at = "record" /\ creator'[c].session = s
        /\ creator'[c].prune = creator[c].prune
        /\ \A d \in Creator \ {c} : creator'[d] = creator[d]
        /\ sessions' = sessions \cup {s}
        /\ UNCHANGED <<createdAt, request, closer, leaked>>
        /\ \A d \in Creator : creator[d].session # s
    BY <1>8 DEF Create, CreatorState
  <2>2. DrawnOnce' /\ OthersTold'
    BY <2>1
  <2>3. ForgottenClosed' /\ SessionDrawn' /\ DoneForgotten'
    BY <2>1
  <2>4. RecordOrCreator'
    BY <2>1
  <2>5. RecordHasSession'
    BY <2>1
  <2> QED
    BY <2>2, <2>3, <2>4, <2>5
<1>9. ASSUME NEW c \in Creator, Record(c)
      PROVE  SessionsInv'
  <2>1. /\ creator[c].at = "record" /\ creator'[c].at = "done"
        /\ creator'[c].session = creator[c].session
        /\ creator'[c].prune = creator[c].prune
        /\ \A d \in Creator \ {c} : creator'[d] = creator[d]
        /\ createdAt' = [createdAt EXCEPT ![creator[c].session] = now]
        /\ UNCHANGED <<sessions, request, closer, leaked>>
    BY <1>9 DEF Record, Recorded, Creates, CreatorState
  <2>2. DrawnOnce' /\ OthersTold'
    BY <2>1
  <2>3. ForgottenClosed' /\ SessionDrawn' /\ DoneForgotten'
    BY <2>1
  <2>4. RecordOrCreator'
    BY <2>1
  <2>5. RecordHasSession'
    BY <2>1
  <2> QED
    BY <2>2, <2>3, <2>4, <2>5
<1>10. ASSUME NEW q \in Request, NEW s \in Session, Asks(q, s)
      PROVE  SessionsInv'
  BY <1>10, ToldIs DEF Asks, RequestState
<1>11. ASSUME NEW q \in Request, ExpireCheck(q)
      PROVE  SessionsInv'
  BY <1>11 DEF ExpireCheck, Goes, RequestState
<1>12. ASSUME NEW q \in Request, ExpireClose(q) \/ DeleteClose(q)
      PROVE  SessionsInv'
  <2> DEFINE s == request[q].session
  <2>1. /\ request[q].at \in {"expire", "delete"} /\ IsTold(s)
        /\ request'[q].at \in {"error", "forget"} /\ request'[q].session = s
        /\ \A p \in Request \ {q} : request'[p] = request[p]
    BY <1>12 DEF ExpireClose, DeleteClose, RequestCloses, Goes, RequestState
  <2>2. /\ sessions' = sessions \ {s}
        /\ leaked' = IF CloseFails(s) THEN leaked \cup {s} ELSE leaked
        /\ ~CloseFails(s) => request'[q].at = "forget"
        /\ UNCHANGED <<createdAt, creator, closer>>
    BY <1>12 DEF ExpireClose, DeleteClose, RequestCloses, Closes, Goes, RequestState
  <2>3. DrawnOnce' /\ SessionDrawn' /\ OthersTold' /\ ForgottenClosed' /\ DoneForgotten'
    BY <2>1, <2>2
  <2>4. RecordOrCreator' /\ RecordHasSession'
    BY <2>1, <2>2
  <2> QED
    BY <2>3, <2>4
<1>13. ASSUME NEW q \in Request, RequestForget(q)
      PROVE  SessionsInv'
  BY <1>13 DEF RequestForget, Goes, Forgotten, RequestState
<1>14. ASSUME NEW q \in Request, Serve(q)
      PROVE  SessionsInv'
  BY <1>14 DEF Serve, Goes, RequestState
<1>15. ASSUME NEW s \in Session, SessionEnds(s)
      PROVE  SessionsInv'
  BY <1>15, ToldIs DEF SessionEnds, CreatorState
<1>16. ASSUME NEW s \in Session, CloseSession(s)
      PROVE  SessionsInv'
  BY <1>16 DEF CloseSession, Closes, CreatorState
<1>17. ASSUME NEW s \in Session, CloseForget(s)
      PROVE  SessionsInv'
  BY <1>17 DEF CloseForget, Forgotten, CreatorState
<1>18. ASSUME NEW c \in Creator, DropCreator(c)
      PROVE  SessionsInv'
  <2>1. /\ creator[c].at \in {"key", "prune", "closing", "forget", "create", "record"}
        /\ creator'[c].at = Abandoned(creator[c].at)
        /\ creator'[c].session = creator[c].session
        /\ creator'[c].prune = {}
        /\ \A d \in Creator \ {c} : creator'[d] = creator[d]
    BY <1>18, DropMoves
  <2>2. UNCHANGED <<sessions, createdAt, request, closer, leaked>>
    BY <1>18 DEF DropCreator
  <2>3. /\ creator'[c].at = "unrecorded" <=> creator[c].at = "record"
        /\ creator'[c].at = "unforgotten" <=> creator[c].at = "forget"
        /\ creator'[c].at \in {"dropped", "unrecorded", "unforgotten"}
    BY <2>1 DEF Abandoned
  <2>4. \A d \in Creator : \A t : Drawn(d, t)' <=> Drawn(d, t)
    BY <2>1, <2>3
  <2>5. \A t : IsTold(t)' <=> IsTold(t)
    BY <2>1, <2>3
  <2>6. DrawnOnce' /\ OthersTold'
    BY <2>1, <2>2, <2>3, <2>4, <2>5
  <2>7. ForgottenClosed' /\ SessionDrawn' /\ DoneForgotten'
    BY <2>1, <2>2, <2>3, <2>4
  <2>8. RecordOrCreator'
    BY <2>1, <2>2, <2>3
  <2>9. RecordHasSession'
    BY <2>1, <2>2, <2>3
  <2> QED
    BY <2>6, <2>7, <2>8, <2>9
<1>19. ASSUME NEW q \in Request, DropRequest(q)
      PROVE  SessionsInv'
  <2>1. /\ request[q].at \in {"check", "expire", "delete", "forget", "serve"}
        /\ request'[q].session = request[q].session
        /\ request'[q].at = IF request[q].at = "forget" THEN "unforgotten" ELSE "dropped"
        /\ \A p \in Request \ {q} : request'[p] = request[p]
    BY <1>19 DEF DropRequest, Goes, Abandoned, RequestState
  <2>2. UNCHANGED <<sessions, createdAt, creator, closer, leaked>>
    BY <1>19 DEF DropRequest
  <2>3. DrawnOnce' /\ OthersTold' /\ ForgottenClosed' /\ DoneForgotten' /\ SessionDrawn'
    BY <2>1, <2>2
  <2>4. RecordOrCreator' /\ RecordHasSession'
    BY <2>1, <2>2
  <2> QED
    BY <2>3, <2>4
<1>20. CASE UNCHANGED vars
  BY <1>20 DEF vars
<1> QED
  BY <1>1, <1>2, <1>3, <1>4, <1>5, <1>6, <1>7, <1>8, <1>9, <1>10, <1>11, <1>12,
     <1>13, <1>14, <1>15, <1>16, <1>17, <1>18, <1>19, <1>20 DEF Next

LEMMA SessionsInit ==
  ASSUME Init
  PROVE  SessionsInv
  BY SessionsAssumption
  DEF Init, IdleCreator, SessionsInv, DrawnOnce, OthersTold, ForgottenClosed, SessionDrawn, DoneForgotten,
      RecordOrCreator, RecordHasSession, Drawn, IsTold

(* Types, and what sessions, records and those who remove them keep        *)
(* between them.                                                           *)
THEOREM SessionsInvariant == Spec => [](TypeOK /\ SessionsInv)
<1>1. Init => SessionsInv
  BY SessionsInit
<1>2. TypeOK /\ SessionsInv /\ [Next]_vars => SessionsInv'
  BY SessionsStep
<1> QED
  BY <1>1, <1>2, TypeCorrect, PTL DEF Spec

(* A session that create_session has returned keeps its record for as long *)
(* as rmcp holds it; only one whose creator has yet to record it, or was   *)
(* dropped before it did, has none.                                        *)
THEOREM EverySessionRecorded == Spec => []SessionRecorded
<1>1. SessionsInv => SessionRecorded
  <2> SUFFICES ASSUME SessionsInv, NEW s \in sessions, createdAt[s] = NoTime
               PROVE  /\ s \notin Told
                      /\ \E c \in Creator :
                           creator[c].session = s /\ creator[c].at \in {"record", "unrecorded"}
    BY DEF SessionRecorded
  <2>1. PICK c \in Creator :
          creator[c].session = s /\ creator[c].at \in {"record", "unrecorded"}
    BY DEF SessionsInv, RecordOrCreator
  <2>2. s \in Session
    BY <2>1 DEF SessionsInv, DrawnOnce
  <2>3. ~IsTold(s)
    BY <2>1, <2>2 DEF SessionsInv, DrawnOnce, Drawn, IsTold
  <2> QED
    BY <2>1, <2>3, ToldIs
<1> QED
  BY <1>1, SessionsInvariant, PTL

(* A record without its session is about to be removed by somebody, or by  *)
(* the task that served the session when the one who was to do it was      *)
(* dropped, unless closing the session failed.                             *)
THEOREM NoStrayRecord == Spec => []RecordHasSession
<1>1. SessionsInv => RecordHasSession
  BY DEF SessionsInv
<1> QED
  BY <1>1, SessionsInvariant, PTL

(* No request passes expire_if_needed on a session that rmcp still holds   *)
(* and that has reached its maximal lifetime: the session has a record     *)
(* because the request that created it is done.                            *)
THEOREM LifetimeHolds == Spec => LifetimeEnforced
<1> DEFINE Young ==
      \A q \in Request :
        LET s == request[q].session IN
        (request[q].at = "check" /\ request'[q].at = "serve" /\ s \in sessions) =>
          createdAt[s] # NoTime /\ now - createdAt[s] < MaxLifetime
<1>1. TypeOK /\ SessionsInv /\ [Next]_vars => Young
  <2> SUFFICES ASSUME TypeOK, SessionsInv, [Next]_vars,
                      NEW q \in Request, request[q].at = "check",
                      request'[q].at = "serve", request[q].session \in sessions
               PROVE  /\ createdAt[request[q].session] # NoTime
                      /\ now - createdAt[request[q].session] < MaxLifetime
    OBVIOUS
  <2> DEFINE s == request[q].session
  <2>0. request \in [Request -> RequestState]
    BY DEF TypeOK
  <2>1. s \in Session /\ now \in Nat /\ createdAt[s] \in Nat \cup {NoTime}
    BY DEF TypeOK
  <2>2. IsTold(s)
    BY DEF SessionsInv, OthersTold
  <2>3. createdAt[s] # NoTime
    <3>1. ~\E c \in Creator :
             creator[c].session = s /\ creator[c].at \in {"record", "unrecorded"}
      BY <2>1, <2>2 DEF SessionsInv, DrawnOnce, Drawn, IsTold
    <3> QED
      BY <3>1 DEF SessionsInv, RecordOrCreator
  <2>4. ExpireCheck(q)
    <3>1. UNCHANGED request => FALSE
      OBVIOUS
    <3>2. ASSUME NEW p \in Request, NEW t \in Session, Asks(p, t)
          PROVE  FALSE
      BY <2>0, <3>2 DEF Asks, RequestState
    <3>3. ASSUME NEW p \in Request,
                 \/ ExpireClose(p) \/ DeleteClose(p) \/ RequestForget(p)
                 \/ Serve(p) \/ DropRequest(p)
          PROVE  FALSE
      BY <2>0, <3>3 DEF ExpireClose, DeleteClose, RequestCloses, RequestForget, Serve,
                        DropRequest, Abandoned, Goes, RequestState
    <3>4. ASSUME NEW p \in Request \ {q}, ExpireCheck(p)
          PROVE  FALSE
      BY <2>0, <3>4 DEF ExpireCheck, Goes, RequestState
    <3> QED
      BY <3>1, <3>2, <3>3, <3>4
      DEF Next, vars, Tick, LimitGlobal, LimitKey, PruneRead, PruneClose, PruneForget,
          Count, Create, Record, DropCreator, SessionEnds, CloseSession, CloseForget
  <2>5. ~Expired(s)
    BY <2>0, <2>4 DEF ExpireCheck, Goes, RequestState
  <2> QED
    BY <2>1, <2>3, <2>5, ConstantsType DEF Expired
<1>2. TypeOK /\ SessionsInv /\ [Next]_vars => [Young]_vars
  BY <1>1
<1> QED
  BY <1>2, SessionsInvariant, PTL DEF Spec, LifetimeEnforced

-----------------------------------------------------------------------------
(* The rate.  at[c] is when request c passed a bucket, or NoTime.  What    *)
(* the requests since a moment have drawn and what is left in the bucket   *)
(* never exceed, in parts of a token, a full bucket, what the time since   *)
(* has refilled and the remainder that was carried into it.                *)
Passages == [Creator -> Nat \cup {NoTime}]

PassedIn(at, from, to) == {c \in Creator : Within(at[c], from, to)}

Level(at, b, spec) ==
  /\ \A c \in Creator : at[c] # NoTime => at[c] <= b.last
  /\ \A from \in 0..b.last :
       Second * (Cardinality(PassedIn(at, from, b.last)) + b.tokens) + b.rem
         <= Second * spec.capacity + (b.last - from) * spec.refill + (Second - 1)

Bounded(at, spec) ==
  \A from, to \in 0..MaxNow : from <= to =>
    Cardinality(PassedIn(at, from, to)) <= MostOf(spec, from, to)

LEMMA PassedInFinite ==
  ASSUME NEW at, NEW from, NEW to
  PROVE  /\ IsFiniteSet(PassedIn(at, from, to))
         /\ Cardinality(PassedIn(at, from, to)) \in Nat
<1>1. PassedIn(at, from, to) \subseteq Creator /\ IsFiniteSet(Creator)
  BY SessionsAssumption DEF PassedIn
<1> QED
  BY <1>1, FS_Subset, FS_CardinalityType

LEMMA Distributive ==
  ASSUME NEW a \in Int, NEW b \in Int, NEW n \in Int
  PROVE  a * n + b * n = (a + b) * n /\ n * a + n * b = n * (a + b)
  OBVIOUS

LEMMA Monotone ==
  ASSUME NEW n \in Nat, NEW a \in Int, NEW b \in Int
  PROVE  /\ a <= b => n * a <= n * b /\ a * n <= b * n
         /\ n > 0 /\ n * a < n * b => a < b
  OBVIOUS

(* A request that passes is one more in every window that holds now.       *)
Passing(at, c, spec, b) == IF Allows(b, spec) THEN [at EXCEPT ![c] = now] ELSE at

LEMMA PassingCounts ==
  ASSUME now \in Nat, NEW spec, NEW b, NEW at \in Passages, NEW c \in Creator,
         at[c] = NoTime, NEW from \in Nat, NEW to \in Nat, from <= now, now <= to
  PROVE  Cardinality(PassedIn(Passing(at, c, spec, b), from, to))
           = Cardinality(PassedIn(at, from, to)) + Granted(b, spec)
<1> USE SessionsAssumption
<1> DEFINE P == PassedIn(at, from, to)
           Q == PassedIn(Passing(at, c, spec, b), from, to)
<1>1. CASE Allows(b, spec)
  <2>1. Q = P \cup {c}
    BY <1>1 DEF PassedIn, Passing, Passages, Within
  <2>2. c \notin P
    BY DEF PassedIn, Within
  <2>3. Cardinality(Q) = Cardinality(P) + 1
    BY <2>1, <2>2, PassedInFinite, FS_AddElement
  <2> QED
    BY <1>1, <2>3 DEF Granted
<1>2. CASE ~Allows(b, spec)
  BY <1>2, PassedInFinite DEF Passing, Granted
<1> QED
  BY <1>1, <1>2

LEMMA LevelKept ==
  ASSUME now \in Nat, NEW spec \in RateSpec, NEW b, BucketFits(b, spec),
         NEW at \in Passages, NEW c \in Creator, at[c] = NoTime, Level(at, b, spec)
  PROVE  Level(Passing(at, c, spec, b), Taken(b, spec), spec)
<1> DEFINE t == Taken(b, spec)
           then == Passing(at, c, spec, b)
           g == Granted(b, spec)
<1>0. /\ b.last \in Nat /\ b.tokens \in Nat /\ b.rem \in Nat /\ b.last <= now
      /\ spec.capacity \in Nat /\ spec.refill \in Nat /\ g \in Nat
      /\ t.tokens \in Nat /\ t.rem \in Nat /\ t.rem < Second /\ t.last = now
      /\ t.tokens + g <= spec.capacity
      /\ Second * (t.tokens + g) + t.rem
           <= Second * b.tokens + b.rem + (now - b.last) * spec.refill
      /\ Second \in Nat /\ Second > 0
  BY TakenFits, ConstantsType DEF BucketFits, Bucket, RateSpec, Granted
<1>1. \A d \in Creator : then[d] # NoTime => then[d] <= now
  BY <1>0 DEF Passing, Level, Passages
<1>2. ASSUME NEW from \in 0..now
      PROVE  Second * (Cardinality(PassedIn(then, from, now)) + t.tokens) + t.rem
               <= Second * spec.capacity + (now - from) * spec.refill + (Second - 1)
  <2> DEFINE n == Cardinality(PassedIn(at, from, now))
  <2>1. n \in Nat /\ Cardinality(PassedIn(then, from, now)) = n + g
    BY PassedInFinite, PassingCounts
  <2>2. Second * ((n + g) + t.tokens) = Second * n + Second * (t.tokens + g)
    BY <1>0, <2>1, Distributive
  <2>3. CASE from <= b.last
    <3>1. PassedIn(at, from, now) = PassedIn(at, from, b.last)
      BY <1>0, SessionsAssumption DEF PassedIn, Within, Level, Passages
    <3>2. Second * (n + b.tokens) + b.rem
            <= Second * spec.capacity + (b.last - from) * spec.refill + (Second - 1)
      BY <1>0, <2>3, <3>1 DEF Level
    <3>3. Second * (n + b.tokens) = Second * n + Second * b.tokens
      BY <1>0, <2>1, Distributive
    <3>4. (b.last - from) * spec.refill + (now - b.last) * spec.refill
            = (now - from) * spec.refill
      <4>1. b.last - from \in Int /\ now - b.last \in Int
            /\ (b.last - from) + (now - b.last) = now - from
        BY <1>0
      <4> QED
        BY <1>0, <4>1, Distributive
    <3>5. /\ Second * n \in Int /\ Second * b.tokens \in Int
          /\ Second * (t.tokens + g) \in Int /\ Second * spec.capacity \in Int
          /\ (b.last - from) * spec.refill \in Int /\ (now - b.last) * spec.refill \in Int
      BY <1>0, <2>1
    <3> HIDE DEF n, t, g, then
    <3> QED
      BY <1>0, <2>1, <2>2, <3>2, <3>3, <3>4, <3>5
  <2>4. CASE from > b.last
    <3>1. PassedIn(at, from, now) = {}
      BY <1>0, <2>4, SessionsAssumption DEF PassedIn, Within, Level, Passages
    <3>2. n = 0
      BY <3>1, FS_EmptySet
    <3>3. Second * (t.tokens + g) <= Second * spec.capacity
      BY <1>0, Monotone
    <3>4. now - from \in Nat
      BY <1>0
    <3>5. /\ (now - from) * spec.refill \in Nat
          /\ Second * (t.tokens + g) \in Int /\ Second * spec.capacity \in Int
      BY <1>0, <3>4, Product
    <3>6. Second * n = 0
      BY <1>0, <3>2
    <3> HIDE DEF n, t, g, then
    <3> QED
      BY <1>0, <2>1, <2>2, <3>3, <3>5, <3>6
  <2> QED
    BY <1>0, <2>3, <2>4
<1> QED
  BY <1>0, <1>1, <1>2 DEF Level

(* A bucket whose level is right has let through what it may in every       *)
(* window that ends now or later.                                           *)
LEMMA LevelBounds ==
  ASSUME NEW spec \in RateSpec, NEW b, BucketFits(b, spec), NEW at \in Passages,
         Level(at, b, spec), NEW from \in Nat, NEW to \in Nat, from <= to, b.last <= to
  PROVE  Cardinality(PassedIn(at, from, to)) <= MostOf(spec, from, to)
<1> DEFINE n == Cardinality(PassedIn(at, from, to))
           m == (to - from) * spec.refill + Second - 1
<1>0. /\ b.last \in Nat /\ b.tokens \in Nat /\ b.rem \in Nat
      /\ spec.capacity \in Nat /\ spec.refill \in Nat
      /\ Second \in Nat /\ Second > 0 /\ n \in Nat /\ to - from \in Nat
  BY PassedInFinite, ConstantsType DEF BucketFits, Bucket, RateSpec
<1>1. (to - from) * spec.refill \in Nat /\ m \in Nat
  BY <1>0, Product
<1>2. m \div Second \in Nat /\ m < Second * ((m \div Second) + 1)
  <2>1. /\ m \div Second \in Nat /\ m % Second < Second
        /\ m = Second * (m \div Second) + (m % Second)
    BY <1>1, Division
  <2>2. Second * ((m \div Second) + 1) = Second * (m \div Second) + Second
    BY <1>0, <2>1, Distributive
  <2> QED
    BY <1>0, <2>1, <2>2, Product, Division, <1>1
<1>3. CASE from > b.last
  <2>1. PassedIn(at, from, to) = {}
    BY <1>0, <1>3, SessionsAssumption DEF PassedIn, Within, Level, Passages
  <2>2. n = 0
    BY <2>1, FS_EmptySet
  <2> QED
    BY <1>0, <1>2, <2>2 DEF MostOf
<1>4. CASE from <= b.last
  <2>1. PassedIn(at, from, to) = PassedIn(at, from, b.last)
    BY <1>0, SessionsAssumption DEF PassedIn, Within, Level, Passages
  <2>2. Second * (n + b.tokens) + b.rem
          <= Second * spec.capacity + (b.last - from) * spec.refill + (Second - 1)
    BY <1>0, <1>4, <2>1 DEF Level
  <2>3. (b.last - from) * spec.refill <= (to - from) * spec.refill
    <3>1. b.last - from \in Int /\ to - from \in Int /\ b.last - from <= to - from
      BY <1>0
    <3> QED
      BY <1>0, <3>1, Monotone
  <2>4. Second * (n + b.tokens) = Second * n + Second * b.tokens
    BY <1>0, Distributive
  <2>5. /\ Second * n \in Nat /\ Second * b.tokens \in Nat /\ Second * spec.capacity \in Nat
    BY <1>0, Product
  <2>6. (b.last - from) * spec.refill \in Int
    BY <1>0
  <2>7. Second * n <= Second * spec.capacity + m
    <3> HIDE DEF n
    <3> QED
      BY <1>0, <1>1, <2>2, <2>3, <2>4, <2>5, <2>6
  <2>8. Second * n < Second * (spec.capacity + ((m \div Second) + 1))
    <3>1. Second * (spec.capacity + ((m \div Second) + 1))
            = Second * spec.capacity + Second * ((m \div Second) + 1)
      <4>1. (m \div Second) + 1 \in Int
        BY <1>2
      <4> QED
        BY <1>0, <4>1, Distributive
    <3>2. Second * ((m \div Second) + 1) \in Nat
      <4>1. (m \div Second) + 1 \in Nat
        BY <1>2
      <4> QED
        BY <1>0, <4>1, Product
    <3> HIDE DEF n, m
    <3> QED
      BY <1>1, <1>2, <2>5, <2>7, <3>1, <3>2
  <2>9. n < spec.capacity + ((m \div Second) + 1)
    BY <1>0, <1>2, <2>8, Monotone
  <2> QED
    BY <1>0, <1>2, <2>9 DEF MostOf
<1> QED
  BY <1>0, <1>3, <1>4

LEMMA BoundedKept ==
  ASSUME now \in 0..MaxNow, NEW spec \in RateSpec, NEW b, BucketFits(b, spec),
         NEW at \in Passages, NEW c \in Creator, at[c] = NoTime, Level(at, b, spec),
         Bounded(at, spec)
  PROVE  Bounded(Passing(at, c, spec, b), spec)
<1> DEFINE then == Passing(at, c, spec, b)
<1>0. now \in Nat /\ then \in Passages /\ MaxNow \in Nat
  BY ConstantsType DEF Passing, Passages
<1> SUFFICES ASSUME NEW from \in 0..MaxNow, NEW to \in 0..MaxNow, from <= to
             PROVE  Cardinality(PassedIn(then, from, to)) <= MostOf(spec, from, to)
  BY DEF Bounded
<1>1. CASE now <= to
  BY <1>0, <1>1, LevelKept, TakenFits, LevelBounds
<1>2. CASE to < now
  <2>1. PassedIn(then, from, to) = PassedIn(at, from, to)
    BY <1>0, <1>2, SessionsAssumption DEF PassedIn, Passing, Within, Passages
  <2> QED
    BY <2>1 DEF Bounded
<1> QED
  BY <1>0, <1>1, <1>2

(* Nobody has passed a bucket that is new. *)
LEMMA NewBucket ==
  ASSUME NEW spec \in RateSpec, NEW at \in Passages, \A c \in Creator : at[c] = NoTime
  PROVE  /\ Bounded(at, spec)
         /\ now \in Nat => Level(at, FullBucket(spec), spec)
<1>1. \A from, to : PassedIn(at, from, to) = {}
  BY DEF PassedIn, Within
<1>2. \A from, to : Cardinality(PassedIn(at, from, to)) = 0
  BY <1>1, FS_EmptySet
<1>3. spec.capacity \in Nat /\ spec.refill \in Nat /\ Second \in Nat /\ Second > 0
  BY ConstantsType DEF RateSpec
<1>4. Bounded(at, spec)
  <2> SUFFICES ASSUME NEW from \in 0..MaxNow, NEW to \in 0..MaxNow, from <= to
               PROVE  0 <= MostOf(spec, from, to)
    BY <1>2 DEF Bounded
  <2>1. to - from \in Nat
    BY ConstantsType
  <2>2. (to - from) * spec.refill \in Nat
    BY <1>3, <2>1, Product
  <2>3. (to - from) * spec.refill + Second - 1 \in Nat
    BY <1>3, <2>2
  <2>4. ((to - from) * spec.refill + Second - 1) \div Second \in Nat
    BY <2>3, Division
  <2> QED
    BY <1>3, <2>4 DEF MostOf
<1>5. ASSUME now \in Nat
      PROVE  Level(at, FullBucket(spec), spec)
  <2> SUFFICES ASSUME NEW from \in 0..now
               PROVE  Second * (0 + spec.capacity) + 0
                        <= Second * spec.capacity + (now - from) * spec.refill + (Second - 1)
    BY <1>2 DEF Level, FullBucket
  <2>1. now - from \in Nat
    BY <1>5
  <2>2. (now - from) * spec.refill \in Nat /\ Second * spec.capacity \in Nat
    BY <1>3, <2>1, Product
  <2> QED
    BY <1>3, <2>2
<1> QED
  BY <1>4, <1>5

GlobalAt == [c \in Creator |-> passed[c].global]

KeyAt(k) == [c \in Creator |-> IF creator[c].key = k THEN passed[c].key ELSE NoTime]

KeyBounded(k) ==
  /\ IF perKey[k] = NoBucket THEN \A c \in Creator : KeyAt(k)[c] = NoTime
     ELSE Level(KeyAt(k), perKey[k], rate.per_ip)
  /\ Bounded(KeyAt(k), rate.per_ip)

NotYetPassed ==
  \A c \in Creator : /\ creator[c].at = "idle" => passed[c] = NoPassage
                     /\ creator[c].at = "key" => passed[c].key = NoTime

RateInv ==
  /\ NotYetPassed
  /\ rate.global # NoSpec =>
       Level(GlobalAt, global, rate.global) /\ Bounded(GlobalAt, rate.global)
  /\ rate.per_ip # NoSpec => \A k \in RateKey : KeyBounded(k)

LEMMA PassagesType ==
  ASSUME TypeOK
  PROVE  GlobalAt \in Passages /\ \A k \in RateKey : KeyAt(k) \in Passages
  BY DEF TypeOK, GlobalAt, KeyAt, Passages

LEMMA PassagesTypeNext ==
  ASSUME TypeOK'
  PROVE  GlobalAt' \in Passages /\ \A k \in RateKey : KeyAt(k)' \in Passages
  BY DEF TypeOK, GlobalAt, KeyAt, Passages

(* Most operations leave the limiter alone. *)
LEMMA RateKept ==
  ASSUME RateInv, UNCHANGED <<rate, global, perKey, passed>>,
         \A c \in Creator : /\ creator'[c].key = creator[c].key
                            /\ creator'[c].at \in {"idle", "key"} => creator'[c].at = creator[c].at
  PROVE  RateInv'
<1>1. GlobalAt' = GlobalAt /\ \A k : KeyAt(k)' = KeyAt(k)
  BY DEF GlobalAt, KeyAt
<1> QED
  BY <1>1 DEF RateInv, NotYetPassed, KeyBounded, Level, Bounded, PassedIn, Within, MostOf

LEMMA RateStep ==
  ASSUME TypeOK, BucketsFit, RateInv, [Next]_vars, TypeOK'
  PROVE  RateInv'
<1>0. /\ now \in Nat /\ now \in 0..MaxNow
      /\ creator \in [Creator -> CreatorState]
      /\ passed \in [Creator -> [global : Nat \cup {NoTime}, key : Nat \cup {NoTime}]]
      /\ rate.global \in RateSpec \cup {NoSpec} /\ rate.per_ip \in RateSpec \cup {NoSpec}
  BY ConstantsType DEF TypeOK
<1>1. ASSUME NEW c \in Creator, NEW from \in Address \cup {NoAddress}, LimitGlobal(c, from)
      PROVE  RateInv'
  <2>1. /\ creator[c].at = "idle" /\ passed[c] = NoPassage
        /\ creator'[c].at \in {"key", "limited"}
        /\ passed'[c].key = NoTime
        /\ \A d \in Creator \ {c} : creator'[d] = creator[d] /\ passed'[d] = passed[d]
        /\ UNCHANGED <<rate, perKey>>
    <3>1. creator[c].at = "idle" /\ passed[c] = NoPassage
      BY <1>1 DEF LimitGlobal, RateInv, NotYetPassed
    <3>2. /\ creator'[c].at \in {"key", "limited"}
          /\ \A d \in Creator \ {c} : creator'[d] = creator[d]
      BY <1>0, <1>1 DEF LimitGlobal, Keyed, CreatorState
    <3>3. /\ passed'[c].key = passed[c].key
          /\ \A d \in Creator \ {c} : passed'[d] = passed[d]
          /\ UNCHANGED <<rate, perKey>>
      BY <1>0, <1>1 DEF LimitGlobal
    <3> QED
      BY <3>1, <3>2, <3>3 DEF NoPassage
  <2>2. NotYetPassed'
    BY <2>1 DEF RateInv, NotYetPassed
  <2>3. \A k : KeyAt(k)' = KeyAt(k)
    BY <2>1 DEF KeyAt, NoPassage
  <2>4. rate.per_ip # NoSpec => \A k \in RateKey : KeyBounded(k)'
    BY <2>1, <2>3 DEF RateInv, KeyBounded, Level, Bounded, PassedIn, Within, MostOf
  <2>5. ASSUME rate.global # NoSpec
        PROVE  Level(GlobalAt, global, rate.global)' /\ Bounded(GlobalAt, rate.global)'
    <3> DEFINE next == Passing(GlobalAt, c, rate.global, global)
    <3>1. rate.global \in RateSpec /\ BucketFits(global, rate.global)
      BY <1>0, <2>5 DEF BucketsFit
    <3>2. GlobalAt \in Passages /\ GlobalAt[c] = NoTime
      BY <2>1, PassagesType DEF GlobalAt, NoPassage
    <3>3. global' = Taken(global, rate.global)
      BY <1>1, <2>5 DEF LimitGlobal
    <3>4. GlobalAt' = next
      BY <1>0, <1>1, <2>5 DEF LimitGlobal, GlobalAt, Passing
    <3>5. Level(next, Taken(global, rate.global), rate.global)
      BY <1>0, <2>5, <3>1, <3>2, LevelKept DEF RateInv
    <3>6. Bounded(next, rate.global)
      BY <1>0, <2>5, <3>1, <3>2, BoundedKept DEF RateInv
    <3> HIDE DEF next
    <3> QED
      BY <2>1, <3>3, <3>4, <3>5, <3>6
      DEF Level, Bounded, PassedIn, Within, MostOf
  <2> QED
    BY <2>1, <2>2, <2>4, <2>5 DEF RateInv
<1>2. ASSUME NEW c \in Creator, LimitKey(c)
      PROVE  RateInv'
  <2> DEFINE k == creator[c].key
  <2>1. /\ creator[c].at = "key" /\ passed[c].key = NoTime /\ k \in RateKey
        /\ creator'[c].at \in {"prune", "limited"} /\ creator'[c].key = k
        /\ passed'[c].global = passed[c].global
        /\ \A d \in Creator \ {c} : creator'[d] = creator[d] /\ passed'[d] = passed[d]
        /\ UNCHANGED <<rate, global>>
    <3>1. creator[c].at = "key" /\ passed[c].key = NoTime /\ k \in RateKey
      BY <1>0, <1>2 DEF LimitKey, RateInv, NotYetPassed, CreatorState
    <3>2. /\ creator'[c].at \in {"prune", "limited"} /\ creator'[c].key = k
          /\ \A d \in Creator \ {c} : creator'[d] = creator[d]
      BY <1>0, <1>2 DEF LimitKey, Creates, CreatorState
    <3>3. /\ passed'[c].global = passed[c].global
          /\ \A d \in Creator \ {c} : passed'[d] = passed[d]
          /\ UNCHANGED <<rate, global>>
      BY <1>0, <1>2 DEF LimitKey
    <3> QED
      BY <3>1, <3>2, <3>3
  <2>2. NotYetPassed'
    BY <2>1 DEF RateInv, NotYetPassed
  <2>3. GlobalAt' = GlobalAt
    BY <2>1 DEF GlobalAt
  <2>4. rate.global # NoSpec =>
          Level(GlobalAt, global, rate.global)' /\ Bounded(GlobalAt, rate.global)'
    BY <2>1, <2>3 DEF RateInv, Level, Bounded, PassedIn, Within, MostOf
  <2>5. ASSUME rate.per_ip # NoSpec, NEW l \in RateKey
        PROVE  KeyBounded(l)'
    <3> DEFINE spec == rate.per_ip
               b == BucketOf(k)
               next == Passing(KeyAt(k), c, spec, b)
    <3>1. spec \in RateSpec /\ BucketFits(b, spec)
      BY <1>0, <2>1, <2>5, BucketOfFits
    <3>2. perKey' = [perKey EXCEPT ![k] = Taken(b, spec)]
      BY <1>2, <2>5 DEF LimitKey
    <3>3. CASE l # k
      <4>1. perKey'[l] = perKey[l]
        BY <3>2, <3>3 DEF TypeOK
      <4>2. KeyAt(l)' = KeyAt(l)
        BY <2>1, <3>3 DEF KeyAt
      <4>3. KeyBounded(l)
        BY <2>5 DEF RateInv
      <4> QED
        BY <2>1, <4>1, <4>2, <4>3 DEF KeyBounded, Level, Bounded, PassedIn, Within, MostOf
    <3>4. CASE l = k
      <4>1. KeyBounded(k)
        BY <2>1, <2>5 DEF RateInv
      <4>2. KeyAt(k) \in Passages /\ KeyAt(k)[c] = NoTime
        BY <2>1, PassagesType DEF KeyAt
      <4>3. Level(KeyAt(k), b, spec) /\ Bounded(KeyAt(k), spec)
        BY <1>0, <3>1, <4>1, <4>2, NewBucket DEF KeyBounded, BucketOf
      <4>4. perKey'[k] = Taken(b, spec) /\ perKey'[k] # NoBucket
        <5>1. Taken(b, spec) \in Bucket
          BY <1>0, <3>1, TakenFits DEF BucketFits
        <5> QED
          BY <2>1, <3>2, <5>1, SessionsAssumption DEF TypeOK
      <4>5. KeyAt(k)' = next
        <5>1. \A d \in Creator : KeyAt(k)'[d] = next[d]
          BY <1>0, <1>2, <2>1, <2>5 DEF LimitKey, KeyAt, Passing
        <5>2. KeyAt(k)' \in Passages /\ next \in Passages
          BY <1>0, <2>1, <4>2, PassagesTypeNext DEF Passing, Passages
        <5> QED
          BY <5>1, <5>2 DEF Passages
      <4>6. Level(next, Taken(b, spec), spec)
        BY <1>0, <3>1, <4>2, <4>3, LevelKept
      <4>7. Bounded(next, spec)
        BY <1>0, <3>1, <4>2, <4>3, BoundedKept
      <4> HIDE DEF next, b
      <4> QED
        BY <2>1, <3>4, <4>4, <4>5, <4>6, <4>7
        DEF KeyBounded, Level, Bounded, PassedIn, Within, MostOf
    <3> QED
      BY <3>3, <3>4
  <2> QED
    BY <2>1, <2>2, <2>4, <2>5 DEF RateInv
<1>3. ASSUME NEW c \in Creator, PruneRead(c)
      PROVE  RateInv'
  BY <1>0, <1>3, RateKept DEF PruneRead, CreatorState
<1>4. ASSUME NEW c \in Creator, NEW s \in Session, PruneClose(c, s)
      PROVE  RateInv'
  BY <1>0, <1>4, RateKept DEF PruneClose, Creates, CreatorState
<1>5. ASSUME NEW c \in Creator, PruneForget(c)
      PROVE  RateInv'
  BY <1>0, <1>5, RateKept DEF PruneForget, CreatorState
<1>6. ASSUME NEW c \in Creator, Count(c)
      PROVE  RateInv'
  BY <1>0, <1>6, RateKept DEF Count, Creates, CreatorState
<1>7. ASSUME NEW c \in Creator, NEW s \in Session, Create(c, s)
      PROVE  RateInv'
  BY <1>0, <1>7, RateKept DEF Create, CreatorState
<1>8. ASSUME NEW c \in Creator, Record(c)
      PROVE  RateInv'
  BY <1>0, <1>8, RateKept DEF Record, Creates, CreatorState
<1>9. ASSUME NEW c \in Creator, DropCreator(c)
      PROVE  RateInv'
  <2>1. /\ creator'[c].key = creator[c].key
        /\ creator'[c].at \in {"dropped", "unrecorded", "unforgotten"}
        /\ \A d \in Creator \ {c} : creator'[d] = creator[d]
    BY <1>0, <1>9, DropMoves DEF Abandoned
  <2> QED
    BY <1>9, <2>1, RateKept DEF DropCreator
<1>10. ASSUME UNCHANGED <<rate, global, perKey, passed, creator>>
      PROVE  RateInv'
  BY <1>10, RateKept
<1> QED
  BY <1>1, <1>2, <1>3, <1>4, <1>5, <1>6, <1>7, <1>8, <1>9, <1>10
  DEF Next, vars, Tick, Asks, ExpireCheck, ExpireClose, DeleteClose, RequestCloses,
      RequestForget, Serve, DropRequest, SessionEnds, CloseSession, CloseForget

LEMMA RateInit ==
  ASSUME Init, TypeOK
  PROVE  RateInv
<1>1. /\ \A c \in Creator : passed[c] = NoPassage /\ creator[c].at = "idle"
      /\ \A k \in RateKey : perKey[k] = NoBucket
      /\ now = 0 /\ global = GlobalBucket
  BY DEF Init, IdleCreator
<1>2. /\ \A c \in Creator : GlobalAt[c] = NoTime
      /\ \A k \in RateKey : \A c \in Creator : KeyAt(k)[c] = NoTime
  BY <1>1 DEF GlobalAt, KeyAt, NoPassage
<1>3. rate.global \in RateSpec \cup {NoSpec} /\ rate.per_ip \in RateSpec \cup {NoSpec}
  BY ConstantsType DEF TypeOK
<1>4. rate.global # NoSpec =>
        Level(GlobalAt, global, rate.global) /\ Bounded(GlobalAt, rate.global)
  BY <1>1, <1>2, <1>3, PassagesType, NewBucket DEF GlobalBucket
<1>5. rate.per_ip # NoSpec => \A k \in RateKey : KeyBounded(k)
  BY <1>1, <1>2, <1>3, PassagesType, NewBucket DEF KeyBounded
<1> QED
  BY <1>1, <1>4, <1>5 DEF RateInv, NotYetPassed, NoPassage

(* The creations that a bucket lets through in any window of time are at    *)
(* most its capacity and what the window refills, for every configuration  *)
(* of the buckets and every schedule of the requests.                      *)
THEOREM RateHolds == Spec => []RateBounded
<1>1. Init => TypeOK /\ BucketsFit /\ RateInv
  BY TypeInit, RateInit
<1>2. TypeOK /\ BucketsFit /\ RateInv /\ [Next]_vars => (TypeOK /\ BucketsFit /\ RateInv)'
  BY TypeStep, RateStep
<1>3. TypeOK /\ RateInv => RateBounded
  <2> SUFFICES ASSUME TypeOK, RateInv, NEW from \in 0..MaxNow, NEW to \in 0..MaxNow, from <= to
               PROVE  /\ rate.global # NoSpec =>
                           Cardinality({c \in Creator : Within(passed[c].global, from, to)}) <=
                             MostOf(rate.global, from, to)
                      /\ rate.per_ip # NoSpec =>
                           \A k \in RateKey :
                             Cardinality({c \in Creator :
                                creator[c].key = k /\ Within(passed[c].key, from, to)}) <=
                               MostOf(rate.per_ip, from, to)
    BY DEF RateBounded
  <2>1. PassedIn(GlobalAt, from, to) = {c \in Creator : Within(passed[c].global, from, to)}
    BY DEF PassedIn, GlobalAt
  <2>2. \A k : PassedIn(KeyAt(k), from, to) =
                {c \in Creator : creator[c].key = k /\ Within(passed[c].key, from, to)}
    BY DEF PassedIn, KeyAt, Within
  <2> QED
    BY <2>1, <2>2 DEF RateInv, KeyBounded, Bounded
<1> QED
  BY <1>1, <1>2, <1>3, PTL DEF Spec
=============================================================================
