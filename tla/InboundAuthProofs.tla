------------------------- MODULE InboundAuthProofs -------------------------
(***************************************************************************)
(* Proofs about ProviderCaches and InboundAuth for every set of requests,  *)
(* every list of providers, every lifetime and every timeout.              *)
(***************************************************************************)
EXTENDS InboundAuth, FiniteSetTheorems, TLAPS

Entry == [fetched : Nat, value : Document \cup Keys]

CachesType ==
  /\ providers \in ProviderLists
  /\ now \in 0..MaxNow
  /\ cache \in [DOMAIN providers -> [Cache -> Entry \cup {None}]]
  /\ lock \in [DOMAIN providers -> [Cache -> Request \cup {NoRequest}]]
  /\ rotated \in [DOMAIN providers -> Seq(Nat)]
  /\ \A i \in DOMAIN providers : Len(rotated[i]) <= MaxRotations
  /\ on \in [Request -> 1..(Len(providers) + 1)]
  /\ lookups \in [Request -> Seq(Lookup)]
  /\ got \in [Request -> Document \cup Keys \cup {None}]

(* Where a request may be in a call of cached_fetch, and where it asks a   *)
(* provider.                                                               *)
Waiting == {"issuer", "keys", "verify", "introspected", "listed"}
Asking == Waiting \cup {"introspect", "plugin"}
Steps == Asking \cup {"idle", "provider"} \cup Decision \cup {"done", "gone"}

Trace == [asked : Nat, lost : SUBSET Nat]

AuthType ==
  /\ req \in [Request -> Steps]
  /\ token \in [Request -> Token \cup {None}]
  /\ trace \in [Request -> Trace]

(* What an endpoint may have answered, and that an answer known at a time  *)
(* was not replaced more than a timeout before.                            *)
Fits(i, c, value) ==
  /\ value \in ValueOf(c)
  /\ c = "discovery" => value.issuer \in {providers[i].names, None}

Recent(i, value, time) ==
  value.after < Len(rotated[i]) => time <= rotated[i][value.after + 1] + Timeout

EntryOK(i, c) ==
  cache[i][c] # None =>
    /\ cache[i][c].fetched <= now
    /\ Fits(i, c, cache[i][c].value)
    /\ c = "keys" => Recent(i, cache[i][c].value, cache[i][c].fetched)

(* The stack of a request is a lookup, perhaps of the keys with one of the *)
(* document on top.                                                        *)
StackOK(r) ==
  /\ Len(lookups[r]) <= 2
  /\ Len(lookups[r]) = 2 =>
       /\ lookups[r][1].of = "keys" /\ lookups[r][1].at = "url"
       /\ lookups[r][2].of = "discovery"
  /\ \A n \in DOMAIN lookups[r] : lookups[r][n].at = "url" => lookups[r][n].of = "keys"

Fetching == {"fetch", "url", "sent", "store"}

FrameOK(r, l) ==
  /\ l.since <= now
  /\ l.at = "again" \/ l.at \in Fetching => lock[on[r]][l.of] = r
  /\ l.at \in Fetching => ~IsFresh(cache[on[r]][l.of], now)
  /\ l.at \in {"sent", "store"} => now <= l.since + Timeout
  /\ l.at = "store" =>
       /\ Fits(on[r], l.of, l.value)
       /\ l.of = "keys" /\ l.value.after < Len(rotated[on[r]]) =>
            l.since <= rotated[on[r]][l.value.after + 1]

FramesOK(r) == \A n \in DOMAIN lookups[r] : FrameOK(r, lookups[r][n])

(* A request asks somebody, and calls cached_fetch only where it waits.    *)
AsksSomebody(r) ==
  /\ req[r] \in Asking => on[r] \in DOMAIN providers
  /\ Busy(r) => /\ req[r] \in Waiting
                /\ lookups[r][1].of = "keys" <=> req[r] = "keys"
  /\ req[r] = "plugin" => Asked(r).type = "plugin"
  /\ req[r] = "idle" => on[r] = 1
  /\ req[r] \in {"idle", "listed"} => token[r] = None

IssuerOf(i) ==
  IF providers[i].issuer # None THEN providers[i].issuer ELSE providers[i].names

(* What a request was told about the issuer is about the provider it asks. *)
IssuerKnown(r) ==
  req[r] = "issuer" =>
    IF Busy(r) THEN Asked(r).issuer = None
               ELSE LearnsIssuer(r) => got[r].issuer = IssuerOf(on[r])

Replaced(i, keys) == rotated[i][keys.after + 1]

(* A look at the cached keys is not older than the question for them.      *)
KeysKnown(r) ==
  req[r] = "keys" =>
    /\ trace[r].asked <= now
    /\ Busy(r) /\ lookups[r][1].at \in {"look", "again"} =>
         trace[r].asked <= lookups[r][1].since
    /\ ~Busy(r) /\ got[r] # None =>
         /\ got[r] \in Keys
         /\ got[r].after < Len(rotated[on[r]]) =>
              trace[r].asked < Replaced(on[r], got[r]) + Timeout + Ttl

OwnerDecided(r) ==
  token[r] # None /\ NeedsIssuer(r) =>
    \A i \in DOMAIN providers : Owner(r, i) /\ on[r] > i => i \in trace[r].lost

RequestOK(r) ==
  /\ AsksSomebody(r) /\ IssuerKnown(r) /\ KeysKnown(r) /\ OwnerDecided(r)

Inv ==
  /\ CachesType
  /\ AuthType
  /\ \A i \in DOMAIN providers : \A c \in Cache : EntryOK(i, c)
  /\ \A r \in Request : StackOK(r) /\ FramesOK(r) /\ RequestOK(r)

-----------------------------------------------------------------------------
LEMMA AuthConstants ==
  /\ \A list \in ProviderLists : list \in Seq(Provider) /\ list # <<>>
  /\ Ttl \in Nat /\ Ttl > 0 /\ Timeout \in Nat
  /\ None \notin Document /\ None \notin Keys /\ None \notin Issuer
  /\ NoRequest \notin Request
  /\ MaxNow \in Nat /\ MaxRotations \in Nat
  BY CachesAssumption

LEMMA ProvidersType ==
  ASSUME CachesType
  PROVE  /\ providers \in Seq(Provider) /\ providers # <<>>
         /\ Len(providers) \in Nat /\ DOMAIN providers = 1..Len(providers)
         /\ Len(providers) >= 1
         /\ \A i \in DOMAIN providers : providers[i] \in Provider
<1>1. providers \in Seq(Provider) /\ providers # <<>>
  BY AuthConstants DEF CachesType
<1> QED
  BY <1>1

(* The top of the stack. *)
LEMMA TopType ==
  ASSUME CachesType, NEW r \in Request, Busy(r)
  PROVE  /\ lookups[r] \in Seq(Lookup)
         /\ Len(lookups[r]) \in Nat \ {0}
         /\ DOMAIN lookups[r] = 1..Len(lookups[r])
         /\ Len(lookups[r]) \in DOMAIN lookups[r] /\ 1 \in DOMAIN lookups[r]
         /\ Top(r) = lookups[r][Len(lookups[r])]
         /\ Top(r) \in Lookup
  BY DEF CachesType, Busy, Top

(* l replaces the top of r's stack. *)
TopIs(r, l) == lookups' = [lookups EXCEPT ![r] = [@ EXCEPT ![Len(@)] = l]]

LEMMA TopIsEffect ==
  ASSUME CachesType, NEW r \in Request, Busy(r), NEW l \in Lookup, TopIs(r, l)
  PROVE  /\ lookups' \in [Request -> Seq(Lookup)]
         /\ \A q \in Request \ {r} : lookups'[q] = lookups[q]
         /\ Len(lookups'[r]) = Len(lookups[r])
         /\ DOMAIN lookups'[r] = DOMAIN lookups[r]
         /\ lookups'[r][Len(lookups[r])] = l
         /\ \A n \in DOMAIN lookups[r] :
              n # Len(lookups[r]) => lookups'[r][n] = lookups[r][n]
<1>1. lookups[r] \in Seq(Lookup) /\ Len(lookups[r]) \in DOMAIN lookups[r]
  BY TopType
<1> DEFINE s == [lookups[r] EXCEPT ![Len(lookups[r])] = l]
<1>2. /\ s \in Seq(Lookup) /\ Len(s) = Len(lookups[r])
      /\ DOMAIN s = DOMAIN lookups[r]
      /\ s[Len(lookups[r])] = l
      /\ \A n \in DOMAIN lookups[r] : n # Len(lookups[r]) => s[n] = lookups[r][n]
  BY <1>1
<1>3. lookups' = [lookups EXCEPT ![r] = s]
  BY DEF TopIs
<1> HIDE DEF s
<1> QED
  BY <1>2, <1>3 DEF CachesType

LEMMA GoesEffect ==
  ASSUME CachesType, NEW r \in Request, Busy(r),
         NEW step \in {"look", "lock", "again", "fetch", "url", "sent", "store"},
         NEW time \in Nat, Goes(r, step, time)
  PROVE  LET l == [of |-> Top(r).of, at |-> step, since |-> time,
                   value |-> Top(r).value] IN
         l \in Lookup /\ TopIs(r, l)
<1> DEFINE l == [of |-> Top(r).of, at |-> step, since |-> time, value |-> Top(r).value]
<1>1. Top(r) \in Lookup /\ lookups[r] \in Seq(Lookup)
  BY TopType
<1>2. l \in Lookup
  BY <1>1 DEF Lookup
<1>3. [[Top(r) EXCEPT !.at = step] EXCEPT !.since = time] = l
  <2> SUFFICES ASSUME NEW t \in Lookup, t = Top(r)
               PROVE  [[t EXCEPT !.at = step] EXCEPT !.since = time]
                        = [of |-> t.of, at |-> step, since |-> time, value |-> t.value]
    BY <1>1
  <2> DEFINE a == [[t EXCEPT !.at = step] EXCEPT !.since = time]
             b == [of |-> t.of, at |-> step, since |-> time, value |-> t.value]
  <2>1. a \in Lookup /\ b \in Lookup
    BY DEF Lookup
  <2>2. a.of = b.of /\ a.at = b.at /\ a.since = b.since /\ a.value = b.value
    BY DEF Lookup
  <2> HIDE DEF a, b
  <2>3. a = b
    BY <2>1, <2>2 DEF Lookup
  <2> QED
    BY <2>3 DEF a, b
<1>4. TopIs(r, l)
  <2>1. Len(lookups[r]) \in DOMAIN lookups[r]
    BY TopType
  <2>2. lookups' = [lookups EXCEPT ![r] =
          [lookups[r] EXCEPT ![Len(lookups[r])] =
             [[Top(r) EXCEPT !.at = step] EXCEPT !.since = time]]]
    BY <2>1 DEF Goes, Top, CachesType
  <2> QED
    BY <2>2, <1>3 DEF TopIs
<1> QED
  BY <1>2, <1>4

LEMMA ReturnsEffect ==
  ASSUME CachesType, NEW r \in Request, Busy(r), NEW value, Returns(r, value)
  PROVE  /\ lookups' \in [Request -> Seq(Lookup)]
         /\ \A q \in Request \ {r} : lookups'[q] = lookups[q]
         /\ Len(lookups'[r]) = Len(lookups[r]) - 1
         /\ DOMAIN lookups'[r] = 1..(Len(lookups[r]) - 1)
         /\ \A n \in 1..(Len(lookups[r]) - 1) : lookups'[r][n] = lookups[r][n]
         /\ got' = [got EXCEPT ![r] = value]
<1> DEFINE s == SubSeq(lookups[r], 1, Len(lookups[r]) - 1)
<1>1. lookups[r] \in Seq(Lookup) /\ Len(lookups[r]) \in Nat \ {0}
  BY TopType
<1>2. /\ s \in Seq(Lookup) /\ Len(s) = Len(lookups[r]) - 1
      /\ DOMAIN s = 1..(Len(lookups[r]) - 1)
      /\ \A n \in 1..(Len(lookups[r]) - 1) : s[n] = lookups[r][n]
  BY <1>1
<1>3. lookups' = [lookups EXCEPT ![r] = s] /\ got' = [got EXCEPT ![r] = value]
  BY DEF Returns
<1> HIDE DEF s
<1> QED
  BY <1>2, <1>3 DEF CachesType

-----------------------------------------------------------------------------
(* A step of another request leaves alone what request q holds the lock of. *)
LEMMA OthersFrames ==
  ASSUME Inv, NEW q \in Request,
         UNCHANGED <<providers, now, rotated>>,
         on'[q] = on[q], lookups'[q] = lookups[q],
         \A i \in DOMAIN providers : \A c \in Cache :
           lock[i][c] = q => lock'[i][c] = q /\ cache'[i][c] = cache[i][c],
         Busy(q) => on[q] \in DOMAIN providers
  PROVE  StackOK(q)' /\ FramesOK(q)'
<1>1. StackOK(q)'
  BY DEF Inv, StackOK
<1>2. ASSUME NEW n \in DOMAIN lookups[q]
      PROVE  FrameOK(q, lookups[q][n])'
  <2> DEFINE l == lookups[q][n]
  <2>1. Busy(q) /\ l \in Lookup
    BY DEF Inv, CachesType, Busy
  <2>2. on[q] \in DOMAIN providers /\ l.of \in Cache
    BY <2>1 DEF Lookup
  <2>3. FrameOK(q, l)
    BY DEF Inv, FramesOK
  <2>4. l.at = "again" \/ l.at \in Fetching => 
          /\ lock'[on[q]][l.of] = q /\ cache'[on[q]][l.of] = cache[on[q]][l.of]
    BY <2>2, <2>3 DEF FrameOK
  <2>5. FrameOK(q, l)'
    BY <2>3, <2>4, <2>2 DEF FrameOK, Fetching, Fits, ValueOf, IsFresh
  <2> QED
    BY <2>5
<1> QED
  BY <1>1, <1>2 DEF FramesOK

LEMMA OthersRequests ==
  ASSUME Inv, NEW q \in Request,
         UNCHANGED <<providers, now, rotated>>,
         on'[q] = on[q], lookups'[q] = lookups[q], got'[q] = got[q],
         req'[q] = req[q], token'[q] = token[q], trace'[q] = trace[q]
  PROVE  RequestOK(q)'
  BY DEF Inv, RequestOK, AsksSomebody, IssuerKnown, KeysKnown, OwnerDecided, Owner,
         NeedsIssuer, Asked, Busy, LearnsIssuer, IssuerOf, Replaced

LEMMA BusyAsks ==
  ASSUME Inv, NEW r \in Request, Busy(r)
  PROVE  /\ on[r] \in DOMAIN providers /\ Top(r).of \in Cache
         /\ Asked(r) = providers[on[r]] /\ Asked(r) \in Provider
         /\ FrameOK(r, Top(r))
<1>1. RequestOK(r) /\ FramesOK(r) /\ CachesType
  BY DEF Inv
<1>2. req[r] \in Asking /\ on[r] \in DOMAIN providers
  BY <1>1 DEF RequestOK, AsksSomebody, Asking
<1>3. Top(r) \in Lookup /\ FrameOK(r, Top(r))
  BY <1>1, TopType DEF FramesOK
<1> QED
  BY <1>1, <1>2, <1>3, ProvidersType DEF Asked, Lookup

(* One lookup of r moves: its top becomes l. *)
LEMMA TopMoves ==
  ASSUME Inv, NEW r \in Request, Busy(r), NEW l \in Lookup, TopIs(r, l),
         l.of = Top(r).of, l.at \notin {"look", "url"},
         l.at = "again" => l.since = now,
         UNCHANGED <<providers, now, cache, rotated, on, got>>, UNCHANGED authVars,
         lock' \in [DOMAIN providers -> [Cache -> Request \cup {NoRequest}]],
         \A q \in Request \ {r} : \A i \in DOMAIN providers : \A c \in Cache :
           lock[i][c] = q => lock'[i][c] = q,
         \A i \in DOMAIN providers : \A c \in Cache :
           lock[i][c] = r => lock'[i][c] = r,
         FrameOK(r, l)'
  PROVE  Inv'
<1>0. CachesType /\ AuthType /\ StackOK(r) /\ FramesOK(r) /\ RequestOK(r)
  BY DEF Inv
<1> DEFINE L == Len(lookups[r])
<1>1. /\ lookups' \in [Request -> Seq(Lookup)]
      /\ \A q \in Request \ {r} : lookups'[q] = lookups[q]
      /\ Len(lookups'[r]) = L
      /\ DOMAIN lookups'[r] = DOMAIN lookups[r]
      /\ lookups'[r][L] = l
      /\ \A n \in DOMAIN lookups[r] : n # L => lookups'[r][n] = lookups[r][n]
  BY <1>0, TopIsEffect
<1>2. /\ L \in Nat \ {0} /\ DOMAIN lookups[r] = 1..L
      /\ Top(r) = lookups[r][L] /\ 1 \in DOMAIN lookups[r] /\ L \in DOMAIN lookups[r]
  BY <1>0, TopType
<1>3. CachesType' /\ AuthType'
  BY <1>0, <1>1 DEF CachesType, AuthType, authVars
<1>4. \A i \in DOMAIN providers' : \A c \in Cache : EntryOK(i, c)'
  BY DEF Inv, EntryOK, Fits, ValueOf, Recent
<1>5. ASSUME NEW q \in Request \ {r}
      PROVE  StackOK(q)' /\ FramesOK(q)' /\ RequestOK(q)'
  <2>1. Busy(q) => on[q] \in DOMAIN providers
    BY BusyAsks
  <2>2. StackOK(q)' /\ FramesOK(q)'
    BY <1>1, <2>1, OthersFrames
  <2>3. RequestOK(q)'
    BY <1>1, OthersRequests DEF authVars
  <2> QED
    BY <2>2, <2>3
<1>6. StackOK(r)'
  BY <1>0, <1>1, <1>2 DEF StackOK
<1>7. FramesOK(r)'
  <2>1. ASSUME NEW n \in DOMAIN lookups[r], n # L
        PROVE  FrameOK(r, lookups[r][n])'
    <3>1. FrameOK(r, lookups[r][n]) /\ lookups[r][n] \in Lookup
      BY <1>0 DEF FramesOK, CachesType
    <3>2. lookups[r][n].of \in Cache /\ on[r] \in DOMAIN providers
      BY <3>1, BusyAsks DEF Lookup
    <3>3. lock[on[r]][lookups[r][n].of] = r => lock'[on[r]][lookups[r][n].of] = r
      BY <3>2
    <3> QED
      BY <1>1, <2>1, <3>1, <3>2, <3>3 DEF FrameOK, Fits, ValueOf, IsFresh, Fetching
  <2> QED
    BY <1>1, <1>2, <2>1 DEF FramesOK
<1>8. RequestOK(r)'
  <2>1. Busy(r)' /\ lookups'[r][1].of = lookups[r][1].of
    BY <1>1, <1>2 DEF Busy
  <2>2. AsksSomebody(r)' /\ IssuerKnown(r)' /\ OwnerDecided(r)'
    BY <1>0, <2>1 DEF RequestOK, AsksSomebody, IssuerKnown, OwnerDecided, Asked,
                      IssuerOf, Owner, NeedsIssuer, authVars, Busy
  <2>3. KeysKnown(r)'
    <3>1. lookups'[r][1] = lookups[r][1] \/ lookups'[r][1] = l
      BY <1>1, <1>2
    <3> QED
      BY <1>0, <2>1, <3>1 DEF RequestOK, KeysKnown, authVars
  <2> QED
    BY <2>2, <2>3 DEF RequestOK
<1> QED
  BY <1>3, <1>4, <1>5, <1>6, <1>7, <1>8 DEF Inv

(* What the call on top returns is put into got. *)
LEMMA CallReturns ==
  ASSUME Inv, NEW r \in Request, Busy(r),
         NEW value \in Document \cup Keys \cup {None}, Returns(r, value),
         UNCHANGED <<providers, now, rotated, on>>, UNCHANGED authVars,
         lock' \in [DOMAIN providers -> [Cache -> Request \cup {NoRequest}]],
         cache' \in [DOMAIN providers -> [Cache -> Entry \cup {None}]],
         \A q \in Request \ {r} : \A i \in DOMAIN providers : \A c \in Cache :
           lock[i][c] = q => lock'[i][c] = q /\ cache'[i][c] = cache[i][c],
         \A i \in DOMAIN providers : \A c \in Cache :
           c # Top(r).of => lock'[i][c] = lock[i][c] /\ cache'[i][c] = cache[i][c],
         \A i \in DOMAIN providers : \A c \in Cache : EntryOK(i, c)',
         value # None => Fits(on[r], Top(r).of, value),
         req[r] = "keys" /\ Top(r).of = "keys" /\ value # None =>
           (value.after < Len(rotated[on[r]]) =>
              trace[r].asked < Replaced(on[r], value) + Timeout + Ttl)
  PROVE  Inv'
<1>0. CachesType /\ AuthType /\ StackOK(r) /\ FramesOK(r) /\ RequestOK(r)
  BY DEF Inv
<1> DEFINE L == Len(lookups[r])
<1>1. /\ lookups' \in [Request -> Seq(Lookup)]
      /\ \A q \in Request \ {r} : lookups'[q] = lookups[q]
      /\ Len(lookups'[r]) = L - 1
      /\ DOMAIN lookups'[r] = 1..(L - 1)
      /\ \A n \in 1..(L - 1) : lookups'[r][n] = lookups[r][n]
      /\ got' = [got EXCEPT ![r] = value]
  BY <1>0, ReturnsEffect
<1>2. /\ L \in Nat \ {0} /\ DOMAIN lookups[r] = 1..L
      /\ Top(r) = lookups[r][L] /\ L <= 2
      /\ on[r] \in DOMAIN providers
  BY <1>0, TopType, BusyAsks DEF StackOK
<1>3. got' \in [Request -> Document \cup Keys \cup {None}] /\ got'[r] = value
      /\ \A q \in Request \ {r} : got'[q] = got[q]
  BY <1>0, <1>1 DEF CachesType
<1>4. CachesType' /\ AuthType'
  BY <1>0, <1>1, <1>3 DEF CachesType, AuthType, authVars
<1>5. ASSUME NEW q \in Request \ {r}
      PROVE  StackOK(q)' /\ FramesOK(q)' /\ RequestOK(q)'
  <2>1. Busy(q) => on[q] \in DOMAIN providers
    BY BusyAsks
  <2>2. StackOK(q)' /\ FramesOK(q)'
    BY <1>1, <2>1, OthersFrames
  <2>3. RequestOK(q)'
    BY <1>1, <1>3, OthersRequests DEF authVars
  <2> QED
    BY <2>2, <2>3
<1>6. CASE L = 1
  <2>1. lookups'[r] = <<>> /\ ~Busy(r)' /\ Top(r) = lookups[r][1]
    BY <1>1, <1>2, <1>6 DEF Busy
  <2>2. StackOK(r)' /\ FramesOK(r)'
    BY <2>1 DEF StackOK, FramesOK
  <2>3. AsksSomebody(r)' /\ OwnerDecided(r)'
    BY <1>0, <2>1 DEF RequestOK, AsksSomebody, OwnerDecided, Asked, Owner, NeedsIssuer,
                      authVars
  <2>4. IssuerKnown(r)'
    <3>1. CASE req[r] = "issuer"
      <4>1. lookups[r][1].of # "keys" /\ Asked(r).issuer = None
        BY <1>0, <3>1 DEF RequestOK, AsksSomebody, IssuerKnown
      <4>2. Top(r).of = "discovery"
        BY <2>1, <4>1, BusyAsks DEF Cache
      <4>3. value # None => value.issuer \in {providers[on[r]].names, None}
        BY <4>2 DEF Fits
      <4> QED
        BY <1>3, <2>1, <4>1, <4>3 DEF IssuerKnown, IssuerOf, LearnsIssuer, Asked
    <3> QED
      BY <3>1 DEF IssuerKnown, authVars
  <2>5. KeysKnown(r)'
    <3>1. CASE req[r] = "keys"
      <4>1. Top(r).of = "keys" /\ trace[r].asked <= now
        BY <1>0, <2>1, <3>1 DEF RequestOK, AsksSomebody, KeysKnown
      <4>2. value # None => value \in Keys
        BY <4>1 DEF Fits, ValueOf
      <4> QED
        BY <1>3, <2>1, <3>1, <4>1, <4>2 DEF KeysKnown, Replaced, authVars
    <3> QED
      BY <3>1 DEF KeysKnown, authVars
  <2> QED
    BY <2>2, <2>3, <2>4, <2>5, <1>4, <1>5 DEF Inv, RequestOK
<1>7. CASE L = 2
  <2>a. /\ lookups[r][1].of = "keys" /\ lookups[r][1].at = "url"
        /\ lookups[r][2].of = "discovery"
    BY <1>0, <1>7 DEF StackOK
  <2>b. Top(r) = lookups[r][2] /\ 1 \in DOMAIN lookups[r]
    BY <1>2, <1>7
  <2>1. /\ lookups[r][1].of = "keys" /\ lookups[r][1].at = "url"
        /\ Top(r).of = "discovery" /\ lookups[r][1] \in Lookup
    BY <1>0, <2>a, <2>b DEF CachesType
  <2>c. L - 1 = 1 /\ 1..1 = {1}
    BY <1>7
  <2>d. Len(lookups'[r]) = 1 /\ DOMAIN lookups'[r] = {1} /\ lookups'[r][1] = lookups[r][1]
    BY <1>1, <2>c
  <2>2. /\ Busy(r)' /\ lookups'[r][1] = lookups[r][1] /\ DOMAIN lookups'[r] = {1}
        /\ Len(lookups'[r]) = 1
    BY <2>d DEF Busy
  <2>3. StackOK(r)'
    BY <2>1, <2>2 DEF StackOK
  <2>4. FramesOK(r)'
    <3>1. FrameOK(r, lookups[r][1])
      BY <1>0, <2>b DEF FramesOK
    <3>2. /\ lock'[on[r]]["keys"] = lock[on[r]]["keys"]
          /\ cache'[on[r]]["keys"] = cache[on[r]]["keys"]
      BY <1>2, <2>1 DEF Cache
    <3>3. FrameOK(r, lookups[r][1])'
      <4> DEFINE l == lookups[r][1]
      <4>1. l.at = "url" /\ l.of = "keys" /\ FrameOK(r, l)
        BY <2>1, <3>1
      <4>2. lookups'[r][1] = l
        BY <2>2
      <4> HIDE DEF l
      <4>3. l.since <= now /\ lock[on[r]]["keys"] = r /\ ~IsFresh(cache[on[r]]["keys"], now)
        BY <4>1 DEF FrameOK, Fetching
      <4>4. ~IsFresh(cache'[on[r]]["keys"], now)
        BY <3>2, <4>3
      <4> QED
        BY <3>2, <4>1, <4>2, <4>3, <4>4 DEF FrameOK, IsFresh
    <3> QED
      BY <2>2, <3>3 DEF FramesOK
  <2>5. RequestOK(r)'
    BY <1>0, <2>1, <2>2 DEF RequestOK, AsksSomebody, OwnerDecided, Asked, Owner,
                        NeedsIssuer, IssuerKnown, KeysKnown, Busy, authVars
  <2> QED
    BY <2>3, <2>4, <2>5, <1>4, <1>5 DEF Inv
<1>8. L = 1 \/ L = 2
  <2>1. L \in Nat \ {0} /\ L <= 2
    BY <1>2
  <2> HIDE DEF L
  <2> QED
    BY <2>1
<1> QED
  BY <1>8, <1>6, <1>7

(* A request that is in no call afterwards, or at the beginning of one. *)
LEMMA RequestMoves ==
  ASSUME Inv, NEW r \in Request,
         UNCHANGED <<providers, now, cache, rotated>>,
         CachesType', AuthType', RequestOK(r)',
         lookups'[r] = <<>> \/ \E c \in Cache : lookups'[r] = <<NewLookup(c)>>,
         \A q \in Request \ {r} :
           /\ on'[q] = on[q] /\ lookups'[q] = lookups[q] /\ got'[q] = got[q]
           /\ req'[q] = req[q] /\ token'[q] = token[q] /\ trace'[q] = trace[q]
           /\ \A i \in DOMAIN providers : \A c \in Cache :
                lock[i][c] = q => lock'[i][c] = q
  PROVE  Inv'
<1>1. \A i \in DOMAIN providers' : \A c \in Cache : EntryOK(i, c)'
  BY DEF Inv, EntryOK, Fits, ValueOf, Recent
<1>2. ASSUME NEW q \in Request \ {r}
      PROVE  StackOK(q)' /\ FramesOK(q)' /\ RequestOK(q)'
  <2>1. Busy(q) => on[q] \in DOMAIN providers
    BY BusyAsks
  <2>2. StackOK(q)' /\ FramesOK(q)'
    BY <2>1, OthersFrames
  <2>3. RequestOK(q)'
    BY OthersRequests
  <2> QED
    BY <2>2, <2>3
<1>3. StackOK(r)' /\ FramesOK(r)'
  <2>1. CASE lookups'[r] = <<>>
    BY <2>1 DEF StackOK, FramesOK
  <2>2. ASSUME NEW c \in Cache, lookups'[r] = <<NewLookup(c)>>
        PROVE  StackOK(r)' /\ FramesOK(r)'
    <3>1. /\ Len(lookups'[r]) = 1 /\ DOMAIN lookups'[r] = {1}
          /\ lookups'[r][1] = NewLookup(c)
      BY <2>2
    <3>2. NewLookup(c).at = "look" /\ NewLookup(c).since = now /\ now \in Nat
      BY AuthConstants DEF NewLookup, Inv, CachesType
    <3>3. StackOK(r)'
      BY <3>1, <3>2 DEF StackOK
    <3>4. lookups'[r][1].at = "look" /\ lookups'[r][1].since <= now'
      BY <3>1, <3>2
    <3>5. FrameOK(r, lookups[r][1])'
      BY <3>4 DEF FrameOK, Fetching
    <3>6. FramesOK(r)'
      BY <3>1, <3>5 DEF FramesOK
    <3> QED
      BY <3>3, <3>6
  <2> QED
    BY <2>1, <2>2
<1> QED
  BY <1>1, <1>2, <1>3 DEF Inv

LEMMA ReleasedEffect ==
  ASSUME Inv, NEW r \in Request, on[r] \in DOMAIN providers, NEW cs,
         lock' = Released(r, cs)
  PROVE  /\ lock' \in [DOMAIN providers -> [Cache -> Request \cup {NoRequest}]]
         /\ \A q \in Request \ {r} : \A i \in DOMAIN providers : \A c \in Cache :
              lock[i][c] = q => lock'[i][c] = q
         /\ \A i \in DOMAIN providers : \A c \in Cache :
              c \notin cs => lock'[i][c] = lock[i][c]
<1> DEFINE row == [c \in Cache |-> IF c \in cs /\ lock[on[r]][c] = r THEN NoRequest
                                                               ELSE lock[on[r]][c]]
<1>1. lock \in [DOMAIN providers -> [Cache -> Request \cup {NoRequest}]]
  BY DEF Inv, CachesType
<1>2. lock' = [lock EXCEPT ![on[r]] = row]
  BY DEF Released
<1>3. /\ row \in [Cache -> Request \cup {NoRequest}]
      /\ \A c \in Cache : lock[on[r]][c] # r => row[c] = lock[on[r]][c]
      /\ \A c \in Cache : c \notin cs => row[c] = lock[on[r]][c]
  BY <1>1
<1> HIDE DEF row
<1> QED
  BY <1>1, <1>2, <1>3

LEMMA UnlocksEffect ==
  ASSUME Inv, NEW r \in Request, Busy(r), Unlocks(r)
  PROVE  /\ lock' \in [DOMAIN providers -> [Cache -> Request \cup {NoRequest}]]
         /\ \A q \in Request \ {r} : \A i \in DOMAIN providers : \A c \in Cache :
              lock[i][c] = q => lock'[i][c] = q
         /\ \A i \in DOMAIN providers : \A c \in Cache :
              c # Top(r).of => lock'[i][c] = lock[i][c]
<1> DEFINE cs == {Top(r).of}
<1>1. lock' = Released(r, cs) /\ \A c : c # Top(r).of => c \notin cs
  BY DEF Unlocks
<1>2. on[r] \in DOMAIN providers
  BY BusyAsks
<1> HIDE DEF cs
<1>3. /\ lock' \in [DOMAIN providers -> [Cache -> Request \cup {NoRequest}]]
      /\ \A q \in Request \ {r} : \A i \in DOMAIN providers : \A c \in Cache :
           lock[i][c] = q => lock'[i][c] = q
      /\ \A i \in DOMAIN providers : \A c \in Cache :
           c \notin cs => lock'[i][c] = lock[i][c]
  BY <1>1, <1>2, ReleasedEffect
<1> QED
  BY <1>1, <1>3

LEMMA KeysOnTop ==
  ASSUME Inv, NEW r \in Request, Busy(r), Top(r).of = "keys"
  PROVE  /\ Len(lookups[r]) = 1 /\ Top(r) = lookups[r][1]
         /\ req[r] = "keys" /\ trace[r].asked <= now
         /\ Top(r).at \in {"look", "again"} => trace[r].asked <= Top(r).since
<1>1. StackOK(r) /\ RequestOK(r) /\ CachesType
  BY DEF Inv
<1>2. Len(lookups[r]) # 2
  BY <1>1, TopType DEF StackOK
<1>3. Len(lookups[r]) = 1
  <2> DEFINE L == Len(lookups[r])
  <2>1. L \in Nat \ {0} /\ L <= 2 /\ L # 2
    BY <1>1, <1>2, TopType DEF StackOK
  <2> HIDE DEF L
  <2>2. L = 1
    BY <2>1
  <2> QED
    BY <2>2 DEF L
<1> QED
  BY <1>1, <1>3, TopType DEF RequestOK, AsksSomebody, KeysKnown

(* What a fresh entry gives a call that has read the clock. *)
LEMMA HitReturns ==
  ASSUME Inv, NEW r \in Request, Busy(r), Top(r).at \in {"look", "again"},
         IsFresh(Cached(r), Top(r).since)
  PROVE  /\ Cached(r).value \in Document \cup Keys
         /\ Fits(on[r], Top(r).of, Cached(r).value)
         /\ req[r] = "keys" /\ Top(r).of = "keys" =>
              (Cached(r).value.after < Len(rotated[on[r]]) =>
                 trace[r].asked < Replaced(on[r], Cached(r).value) + Timeout + Ttl)
<1>1. CachesType /\ AuthType /\ on[r] \in DOMAIN providers /\ Top(r).of \in Cache
  BY BusyAsks DEF Inv
<1>2. Cached(r) # None /\ Cached(r) \in Entry /\ EntryOK(on[r], Top(r).of)
  BY <1>1 DEF Inv, IsFresh, Cached, CachesType
<1>3. Fits(on[r], Top(r).of, Cached(r).value)
  BY <1>2 DEF EntryOK, Cached
<1>4. ASSUME Top(r).of = "keys", Cached(r).value.after < Len(rotated[on[r]])
      PROVE  trace[r].asked < Replaced(on[r], Cached(r).value) + Timeout + Ttl
  <2> DEFINE v == Cached(r).value
             at == rotated[on[r]][v.after + 1]
  <2>1. trace[r].asked <= Top(r).since
    BY <1>4, KeysOnTop
  <2>2. Top(r).since < Cached(r).fetched + Ttl
    BY DEF IsFresh
  <2>3. Cached(r).fetched <= at + Timeout
    BY <1>2, <1>4 DEF EntryOK, Recent, Cached
  <2>4. v \in Keys
    BY <1>3, <1>4 DEF Fits, ValueOf
  <2>5. v.after \in Nat /\ rotated[on[r]] \in Seq(Nat)
    BY <1>1, <2>4, AuthConstants DEF Keys, CachesType
  <2>6. at \in Nat
    BY <1>4, <2>5
  <2>7. /\ trace[r].asked \in Nat /\ Top(r).since \in Nat /\ Cached(r).fetched \in Nat
        /\ Timeout \in Nat /\ Ttl \in Nat
    BY <1>1, <1>2, TopType, AuthConstants DEF AuthType, Trace, Lookup, Entry
  <2> HIDE DEF at
  <2>8. trace[r].asked < at + Timeout + Ttl
    BY <2>1, <2>2, <2>3, <2>6, <2>7
  <2> QED
    BY <2>8 DEF at, Replaced
<1> QED
  BY <1>2, <1>3, <1>4 DEF Entry

-----------------------------------------------------------------------------
(* Each step of a lookup keeps the invariant. *)

(* The lookup goes on to a step at which it holds no lock or still has it. *)
LEMMA GoesOn ==
  ASSUME Inv, NEW r \in Request, Busy(r),
         NEW step \in {"lock", "fetch", "sent"}, NEW time \in Nat,
         Goes(r, step, time),
         UNCHANGED <<providers, now, cache, lock, rotated, on, got>>,
         UNCHANGED authVars,
         time <= now, step = "sent" => time = now,
         step # "lock" => Top(r).at = "again" \/ Top(r).at \in Fetching,
         step # "lock" => ~IsFresh(Cached(r), now)
  PROVE  Inv'
<1>0. CachesType
  BY DEF Inv
<1>1. PICK l \in Lookup : /\ TopIs(r, l)
                         /\ l.of = Top(r).of /\ l.at = step /\ l.since = time
  BY <1>0, GoesEffect
<1>2. l.of = Top(r).of /\ l.at = step /\ l.since = time
  BY <1>1
<1>3. step # "lock" => lock[on[r]][l.of] = r
  BY <1>2, BusyAsks DEF FrameOK
<1>4. now \in Nat /\ Timeout \in Nat
  BY <1>0, AuthConstants DEF CachesType
<1>5. FrameOK(r, l)'
  BY <1>2, <1>3, <1>4 DEF FrameOK, Fetching, Cached
<1>6. /\ lock' \in [DOMAIN providers -> [Cache -> Request \cup {NoRequest}]]
      /\ lock' = lock
  BY <1>0 DEF CachesType
<1> QED
  BY <1>1, <1>2, <1>5, <1>6, TopMoves

(* The call returns without a result, or with what is in the cache. *)
LEMMA ReturnsCached ==
  ASSUME Inv, NEW r \in Request, Busy(r),
         NEW value, Returns(r, value), lock' = lock \/ Unlocks(r),
         \/ value = None
         \/ /\ Top(r).at \in {"look", "again"} /\ IsFresh(Cached(r), Top(r).since)
            /\ value = Cached(r).value,
         UNCHANGED <<providers, now, cache, rotated, on>>, UNCHANGED authVars
  PROVE  Inv'
<1>0. /\ CachesType
      /\ \A i \in DOMAIN providers : \A c \in Cache : EntryOK(i, c)
      /\ on[r] \in DOMAIN providers
  BY BusyAsks DEF Inv
<1>1. /\ value \in Document \cup Keys \cup {None}
      /\ value # None => Fits(on[r], Top(r).of, value)
      /\ req[r] = "keys" /\ Top(r).of = "keys" /\ value # None =>
           (value.after < Len(rotated[on[r]]) =>
              trace[r].asked < Replaced(on[r], value) + Timeout + Ttl)
  BY HitReturns
<1>2. /\ lock' \in [DOMAIN providers -> [Cache -> Request \cup {NoRequest}]]
      /\ \A q \in Request \ {r} : \A i \in DOMAIN providers : \A c \in Cache :
           lock[i][c] = q => lock'[i][c] = q
      /\ \A i \in DOMAIN providers : \A c \in Cache :
           c # Top(r).of => lock'[i][c] = lock[i][c]
  <2>1. CASE lock' = lock
    BY <1>0, <2>1 DEF CachesType
  <2>2. CASE Unlocks(r)
    BY <2>2, UnlocksEffect
  <2> QED
    BY <2>1, <2>2
<1>3. cache' \in [DOMAIN providers -> [Cache -> Entry \cup {None}]]
  BY <1>0 DEF CachesType
<1>4. \A i \in DOMAIN providers : \A c \in Cache : EntryOK(i, c)'
  BY <1>0 DEF EntryOK, Fits, ValueOf, Recent
<1> QED
  BY <1>1, <1>2, <1>3, <1>4, CallReturns

LEMMA LookKeeps ==
  ASSUME Inv, NEW r \in Request, Look(r), UNCHANGED authVars
  PROVE  Inv'
<1>1. CASE IsFresh(Cached(r), Top(r).since)
  BY <1>1, ReturnsCached DEF Look, Runs
<1>2. CASE ~IsFresh(Cached(r), Top(r).since)
  <2>1. 0 \in Nat /\ 0 <= now
    BY AuthConstants DEF Inv, CachesType
  <2> QED
    BY <1>2, <2>1, GoesOn DEF Look, Runs
<1> QED
  BY <1>1, <1>2

LEMMA TakeLockKeeps ==
  ASSUME Inv, NEW r \in Request, TakeLock(r), UNCHANGED authVars
  PROVE  Inv'
<1> DEFINE row == [lock[on[r]] EXCEPT ![Top(r).of] = r]
<1>0. CachesType /\ Busy(r) /\ now \in Nat
  BY AuthConstants DEF Inv, CachesType, TakeLock, Runs
<1>1. PICK l \in Lookup : /\ TopIs(r, l)
                         /\ l.of = Top(r).of /\ l.at = "again" /\ l.since = now
  BY <1>0, GoesEffect DEF TakeLock
<1>2. l.of = Top(r).of /\ l.at = "again" /\ l.since = now
  BY <1>1
<1>3. /\ lock \in [DOMAIN providers -> [Cache -> Request \cup {NoRequest}]]
      /\ on[r] \in DOMAIN providers /\ Top(r).of \in Cache
  BY <1>0, BusyAsks DEF CachesType
<1>4. /\ row \in [Cache -> Request \cup {NoRequest}] /\ row[Top(r).of] = r
      /\ \A c \in Cache : c # Top(r).of => row[c] = lock[on[r]][c]
  BY <1>3
<1>5. lock' = [lock EXCEPT ![on[r]] = row]
  BY <1>3 DEF TakeLock
<1> HIDE DEF row
<1>6. /\ lock' \in [DOMAIN providers -> [Cache -> Request \cup {NoRequest}]]
      /\ lock'[on[r]][Top(r).of] = r
      /\ \A i \in DOMAIN providers : \A c \in Cache :
           lock[i][c] # NoRequest => lock'[i][c] = lock[i][c]
  <2>1. lock[on[r]][Top(r).of] = NoRequest
    BY DEF TakeLock, LockFree
  <2> QED
    BY <1>3, <1>4, <1>5, <2>1
<1>7. FrameOK(r, l)'
  BY <1>0, <1>2, <1>6 DEF FrameOK, Fetching, TakeLock
<1>8. UNCHANGED <<providers, now, cache, rotated, on, got>>
  BY DEF TakeLock
<1> QED
  BY <1>0, <1>1, <1>2, <1>6, <1>7, <1>8, AuthConstants, TopMoves

LEMMA LookAgainKeeps ==
  ASSUME Inv, NEW r \in Request, LookAgain(r), UNCHANGED authVars
  PROVE  Inv'
<1>0. Busy(r) /\ Top(r).at = "again"
  BY DEF LookAgain, Runs
<1>1. CASE FoundAgain(r)
  BY <1>0, <1>1, ReturnsCached DEF LookAgain, FoundAgain
<1>2. CASE ~FoundAgain(r)
  <2>1. 0 \in Nat /\ 0 <= now /\ now \in Nat
    BY AuthConstants DEF Inv, CachesType
  <2>a. CachesType /\ FrameOK(r, Top(r)) /\ on[r] \in DOMAIN providers
        /\ Top(r).of \in Cache
    BY <1>0, BusyAsks DEF Inv
  <2>b. Top(r) \in Lookup
    BY <1>0, <2>a, TopType
  <2>2. Top(r).since <= now /\ Top(r).since \in Nat /\ Cached(r) \in Entry \cup {None}
    BY <2>a, <2>b DEF FrameOK, Lookup, CachesType, Cached
  <2>3. ~IsFresh(Cached(r), now)
    BY <1>2, <2>1, <2>2, AuthConstants DEF FoundAgain, IsFresh, Entry
  <2> QED
    BY <1>0, <1>2, <2>1, <2>3, GoesOn DEF LookAgain
<1> QED
  BY <1>1, <1>2

LEMMA StaleKept ==
  ASSUME Inv, NEW r \in Request, Busy(r), Top(r).at \in Fetching
  PROVE  ~IsFresh(Cached(r), now)
  BY BusyAsks DEF FrameOK, Cached

LEMMA FetchDiscoveryKeeps ==
  ASSUME Inv, NEW r \in Request, FetchDiscovery(r), UNCHANGED authVars
  PROVE  Inv'
<1>0. Busy(r) /\ Top(r).at = "fetch" /\ ~IsFresh(Cached(r), now)
  BY StaleKept DEF FetchDiscovery, Runs, Fetching
<1>1. CASE Asked(r).candidates
  <2>1. now \in Nat /\ now <= now
    BY AuthConstants DEF Inv, CachesType
  <2> QED
    BY <1>0, <1>1, <2>1, GoesOn DEF FetchDiscovery, Fetching
<1>2. CASE ~Asked(r).candidates
  BY <1>0, <1>2, ReturnsCached DEF FetchDiscovery
<1> QED
  BY <1>1, <1>2

LEMMA UrlKnownKeeps ==
  ASSUME Inv, NEW r \in Request, UrlKnown(r), UNCHANGED authVars
  PROVE  Inv'
<1>0. Busy(r) /\ Top(r).at = "url" /\ ~IsFresh(Cached(r), now)
  BY StaleKept DEF UrlKnown, Runs, Fetching
<1>1. CASE got[r] # None /\ got[r].uri
  <2>1. now \in Nat /\ now <= now
    BY AuthConstants DEF Inv, CachesType
  <2> QED
    BY <1>0, <1>1, <2>1, GoesOn DEF UrlKnown, Fetching
<1>2. CASE ~(got[r] # None /\ got[r].uri)
  BY <1>0, <1>2, ReturnsCached DEF UrlKnown
<1> QED
  BY <1>1, <1>2

LEMMA EndpointFailsKeeps ==
  ASSUME Inv, NEW r \in Request, EndpointFails(r), UNCHANGED authVars
  PROVE  Inv'
  BY ReturnsCached DEF EndpointFails, Runs

(* The lookup of the document goes on top of the one of the keys. *)
LEMMA FetchKeysKeeps ==
  ASSUME Inv, NEW r \in Request, FetchKeys(r), UNCHANGED authVars
  PROVE  Inv'
<1>a. Busy(r) /\ Top(r).at = "fetch" /\ Top(r).of = "keys"
  BY DEF FetchKeys, Runs
<1>b. now \in Nat /\ CachesType /\ AuthType
  BY AuthConstants DEF Inv, CachesType
<1>0. /\ Busy(r) /\ Top(r).at = "fetch" /\ Top(r).of = "keys"
      /\ ~IsFresh(Cached(r), now) /\ CachesType /\ AuthType /\ now \in Nat
  BY <1>a, <1>b, StaleKept DEF Fetching
<1>1. CASE Asked(r).jwksUrl
  BY <1>0, <1>1, GoesOn DEF FetchKeys, Fetching
<1>2. CASE ~Asked(r).jwksUrl
  <2> DEFINE s == Append([lookups[r] EXCEPT ![Len(lookups[r])].at = "url"],
                         NewLookup("discovery"))
  <2>1. /\ Len(lookups[r]) = 1 /\ Top(r) = lookups[r][1] /\ req[r] = "keys"
        /\ trace[r].asked <= now
        /\ lookups[r] \in Seq(Lookup) /\ lookups[r][1] \in Lookup
    BY <1>0, KeysOnTop, TopType
  <2>2. lookups' = [lookups EXCEPT ![r] = s]
    BY <1>2 DEF FetchKeys
  <2>3. NewLookup("discovery") \in Lookup
    BY <1>0 DEF NewLookup, Lookup, Cache
  <2>4. [lookups[r][1] EXCEPT !.at = "url"] \in Lookup
    BY <2>1 DEF Lookup
  <2>5. /\ s \in Seq(Lookup) /\ Len(s) = 2
        /\ s[1] = [lookups[r][1] EXCEPT !.at = "url"]
        /\ s[2] = NewLookup("discovery")
    BY <2>1, <2>3, <2>4
  <2>6. /\ s[1].of = "keys" /\ s[1].at = "url" /\ s[1].since = lookups[r][1].since
        /\ s[2].of = "discovery" /\ s[2].at = "look" /\ s[2].since = now
    BY <1>0, <2>1, <2>5 DEF NewLookup, Lookup
  <2> HIDE DEF s
  <2>7. DOMAIN s = 1..2 /\ s # <<>>
    <3>1. DOMAIN s = 1..Len(s) /\ Len(s) = 2
      BY <2>5
    <3> QED
      BY <3>1
  <2>8. /\ lookups' \in [Request -> Seq(Lookup)] /\ lookups'[r] = s
        /\ \A q \in Request \ {r} : lookups'[q] = lookups[q]
    BY <1>0, <2>2, <2>5 DEF CachesType
  <2>9. /\ UNCHANGED <<providers, now, cache, lock, rotated, on, got>>
        /\ UNCHANGED <<req, token, trace>>
    BY DEF FetchKeys, authVars
  <2>10. CachesType' /\ AuthType'
    BY <1>0, <2>8, <2>9 DEF CachesType, AuthType
  <2>11. \A i \in DOMAIN providers' : \A c \in Cache : EntryOK(i, c)'
    BY <2>9 DEF Inv, EntryOK, Fits, ValueOf, Recent
  <2>12. ASSUME NEW q \in Request \ {r}
         PROVE  StackOK(q)' /\ FramesOK(q)' /\ RequestOK(q)'
    <3>1. Busy(q) => on[q] \in DOMAIN providers
      BY BusyAsks
    <3>2. StackOK(q)' /\ FramesOK(q)'
      BY <2>8, <2>9, <3>1, OthersFrames
    <3>3. RequestOK(q)'
      BY <2>8, <2>9, OthersRequests
    <3> QED
      BY <3>2, <3>3
  <2>13. StackOK(r)'
    <3>1. \A n \in 1..2 : n = 1 \/ n = 2
      OBVIOUS
    <3>2. Len(lookups'[r]) = 2 /\ DOMAIN lookups'[r] = 1..2
      BY <2>5, <2>7, <2>8
    <3>3. /\ lookups'[r][1].of = "keys" /\ lookups'[r][1].at = "url"
          /\ lookups'[r][2].of = "discovery" /\ lookups'[r][2].at = "look"
      BY <2>6, <2>8
    <3>4. \A n \in DOMAIN lookups'[r] :
            lookups'[r][n].at = "url" => lookups'[r][n].of = "keys"
      BY <3>1, <3>2, <3>3
    <3> QED
      BY <3>2, <3>3, <3>4 DEF StackOK
  <2>14. FramesOK(r)'
    <3>1. FrameOK(r, lookups[r][1])
      BY <1>0, <2>1, BusyAsks
    <3>2. ASSUME NEW n \in {1, 2} PROVE FrameOK(r, lookups[r][n])'
      <4>1. /\ lookups[r][1].since <= now /\ lock[on[r]]["keys"] = r
            /\ ~IsFresh(cache[on[r]]["keys"], now)
        BY <1>0, <2>1, <3>1 DEF FrameOK, Fetching
      <4>2. CASE n = 1
        BY <2>6, <2>8, <2>9, <4>1, <4>2 DEF FrameOK, IsFresh
      <4>3. CASE n = 2
        <5>1. now <= now
          BY <1>0
        <5> QED
          BY <2>6, <2>8, <2>9, <4>3, <5>1 DEF FrameOK, Fetching
      <4> QED
        BY <4>2, <4>3
    <3>3. DOMAIN lookups'[r] = {1, 2}
      BY <2>7, <2>8
    <3> QED
      BY <3>2, <3>3 DEF FramesOK
  <2>15. RequestOK(r)'
    <3>1. RequestOK(r) /\ Busy(r)' /\ lookups'[r][1].of = lookups[r][1].of
          /\ lookups'[r][1].at = "url"
      BY <1>0, <2>1, <2>6, <2>7, <2>8 DEF Inv, Busy
    <3> QED
      BY <1>0, <2>1, <2>9, <3>1 DEF RequestOK, AsksSomebody, IssuerKnown, KeysKnown,
                       OwnerDecided, Owner, NeedsIssuer, Asked
  <2> QED
    BY <2>10, <2>11, <2>12, <2>13, <2>14, <2>15 DEF Inv
<1> QED
  BY <1>1, <1>2

LEMMA EndpointAnswersKeeps ==
  ASSUME Inv, NEW r \in Request, EndpointAnswers(r), UNCHANGED authVars
  PROVE  Inv'
<1>1. Busy(r) /\ Top(r).at = "sent"
  BY DEF EndpointAnswers, Runs
<1>2. /\ CachesType /\ on[r] \in DOMAIN providers /\ Top(r) \in Lookup
      /\ FrameOK(r, Top(r)) /\ Asked(r) = providers[on[r]]
      /\ rotated[on[r]] \in Seq(Nat) /\ lookups[r] \in Seq(Lookup)
      /\ Len(lookups[r]) \in DOMAIN lookups[r]
      /\ Top(r) = lookups[r][Len(lookups[r])] 
  <2>1. CachesType
    BY DEF Inv
  <2> QED
    BY <1>1, <2>1, BusyAsks, TopType DEF CachesType
<1>3. PICK value \in Answers(r) :
        lookups' = [lookups EXCEPT ![r][Len(lookups[r])].value = value,
                                   ![r][Len(lookups[r])].at = "store"]
  BY DEF EndpointAnswers
<1>4. /\ Fits(on[r], Top(r).of, value)
      /\ Top(r).of = "keys" => value.after = Len(rotated[on[r]])
      /\ value \in Document \cup Keys \cup {None}
  <2>1. CASE Top(r).of = "keys"
    <3>1. value = [after |-> Len(rotated[on[r]])]
      BY <1>3, <2>1 DEF Answers
    <3>2. value \in Keys
      BY <1>2, <3>1 DEF Keys, CachesType
    <3> QED
      BY <2>1, <3>1, <3>2 DEF Fits, ValueOf
  <2>2. CASE Top(r).of = "discovery"
    BY <1>2, <1>3, <2>2 DEF Answers, Fits, ValueOf
  <2> QED
    BY <1>2, <2>1, <2>2 DEF Lookup, Cache
<1> DEFINE k == [of |-> Top(r).of, at |-> "store", since |-> Top(r).since,
                 value |-> value]
<1>5. k \in Lookup /\ TopIs(r, k)
  <2>1. k \in Lookup
    BY <1>2, <1>4 DEF Lookup
  <2>2. [[Top(r) EXCEPT !.value = value] EXCEPT !.at = "store"] = k
    <3> SUFFICES ASSUME NEW t \in Lookup, t = Top(r)
                 PROVE  [[t EXCEPT !.value = value] EXCEPT !.at = "store"]
                          = [of |-> t.of, at |-> "store", since |-> t.since,
                             value |-> value]
      BY <1>2
    <3> DEFINE a == [[t EXCEPT !.value = value] EXCEPT !.at = "store"]
               b == [of |-> t.of, at |-> "store", since |-> t.since, value |-> value]
    <3>1. a \in Lookup /\ b \in Lookup
      BY <1>4 DEF Lookup
    <3>2. a.of = b.of /\ a.at = b.at /\ a.since = b.since /\ a.value = b.value
      BY DEF Lookup
    <3> HIDE DEF a, b
    <3>3. a = b
      BY <3>1, <3>2 DEF Lookup
    <3> QED
      BY <3>3 DEF a, b
  <2>3. lookups' = [lookups EXCEPT ![r] =
          [lookups[r] EXCEPT ![Len(lookups[r])] =
             [[Top(r) EXCEPT !.value = value] EXCEPT !.at = "store"]]]
    BY <1>2, <1>3 DEF Top, CachesType
  <2> QED
    BY <2>1, <2>2, <2>3 DEF TopIs
<1>6. PICK l \in Lookup :
        /\ TopIs(r, l)
        /\ l.of = Top(r).of /\ l.at = "store" /\ l.since = Top(r).since
        /\ l.value = value
  <2>1. k.of = Top(r).of /\ k.at = "store" /\ k.since = Top(r).since /\ k.value = value
    OBVIOUS
  <2> HIDE DEF k
  <2> QED
    BY <1>5, <2>1
<1> HIDE DEF k
<1>7. /\ UNCHANGED <<providers, now, cache, rotated, on, got>> /\ lock' = lock
      /\ lock' \in [DOMAIN providers -> [Cache -> Request \cup {NoRequest}]]
  BY <1>2 DEF EndpointAnswers, CachesType
<1>8. FrameOK(r, l)'
  <2>1. FrameOK(r, l)
    <3>1. ~(l.value.after < Len(rotated[on[r]])) \/ l.of # "keys"
      BY <1>2, <1>4, <1>6
    <3> QED
      BY <1>1, <1>2, <1>4, <1>6, <3>1 DEF FrameOK, Fetching
  <2> QED
    BY <1>7, <2>1 DEF FrameOK, Fits, ValueOf, IsFresh
<1> QED
  BY <1>1, <1>6, <1>7, <1>8, TopMoves

LEMMA StoreKeeps ==
  ASSUME Inv, NEW r \in Request, Store(r), UNCHANGED authVars
  PROVE  Inv'
<1> DEFINE i == on[r]
           d == Top(r).of
           v == Top(r).value
           entry == [fetched |-> now, value |-> v]
<1>1. /\ Busy(r) /\ Top(r).at = "store" /\ Returns(r, v) /\ Unlocks(r)
      /\ UNCHANGED <<providers, now, rotated, on>>
  BY DEF Store, Runs
<1>2. /\ CachesType /\ AuthType /\ now \in Nat
      /\ i \in DOMAIN providers /\ d \in Cache /\ Top(r) \in Lookup
      /\ FrameOK(r, Top(r))
      /\ cache \in [DOMAIN providers -> [Cache -> Entry \cup {None}]]
      /\ rotated[i] \in Seq(Nat)
  <2>1. CachesType /\ AuthType
    BY DEF Inv
  <2> QED
    BY <1>1, <2>1, BusyAsks, TopType, AuthConstants DEF CachesType
<1>3. Fits(i, d, v) /\ v \in Document \cup Keys
  <2>1. Fits(i, d, v)
    BY <1>1, <1>2 DEF FrameOK
  <2> QED
    BY <2>1 DEF Fits, ValueOf
<1>4. lock[i][d] = r
  BY <1>1, <1>2 DEF FrameOK, Fetching
<1>5. ASSUME d = "keys", v.after < Len(rotated[i])
      PROVE  /\ rotated[i][v.after + 1] \in Nat
             /\ now <= rotated[i][v.after + 1] + Timeout
  <2> DEFINE at == rotated[i][v.after + 1]
  <2>1. Top(r).since <= at /\ now <= Top(r).since + Timeout /\ Top(r).since \in Nat
    BY <1>1, <1>2, <1>5 DEF FrameOK, Lookup
  <2>2. v \in Keys
    BY <1>3, <1>5 DEF Fits, ValueOf
  <2>3. v.after \in Nat
    BY <2>2, AuthConstants DEF Keys
  <2>4. at \in Nat
    BY <1>2, <1>5, <2>3
  <2> HIDE DEF at
  <2>5. now <= at + Timeout
    BY <1>2, <2>1, <2>4, AuthConstants
  <2> QED
    BY <2>4, <2>5 DEF at
<1>6. entry \in Entry /\ entry.fetched = now /\ entry.value = v
  BY <1>2, <1>3 DEF Entry
<1> HIDE DEF entry
<1>7. /\ cache' \in [DOMAIN providers -> [Cache -> Entry \cup {None}]]
      /\ cache'[i][d] = entry
      /\ \A j \in DOMAIN providers : \A c \in Cache :
           j # i \/ c # d => cache'[j][c] = cache[j][c]
  <2> DEFINE row == [cache[i] EXCEPT ![d] = entry]
  <2>1. /\ row \in [Cache -> Entry \cup {None}] /\ row[d] = entry
        /\ \A c \in Cache : c # d => row[c] = cache[i][c]
    BY <1>2, <1>6
  <2>2. cache' = [cache EXCEPT ![i] = row]
    BY <1>2 DEF Store, entry
  <2> HIDE DEF row
  <2> QED
    BY <1>2, <2>1, <2>2
<1>8. ASSUME NEW j \in DOMAIN providers, NEW c \in Cache
      PROVE  EntryOK(j, c)'
  <2>1. CASE j = i /\ c = d
    <3>1. c = "keys" => Recent(j, v, now)
      BY <1>5, <2>1 DEF Recent
    <3>2. cache'[j][c].fetched = now /\ cache'[j][c].value = v
      BY <1>6, <1>7, <2>1
    <3>3. now <= now /\ UNCHANGED <<providers, now, rotated>>
      BY <1>1, <1>2
    <3> HIDE DEF i, d, v
    <3>4. v \in ValueOf(c) /\ (c = "discovery" => v.issuer \in {providers'[j].names, None})
      BY <1>3, <2>1, <3>3 DEF Fits
    <3>5. c = "keys" /\ v.after < Len(rotated'[j]) => now' <= rotated'[j][v.after + 1] + Timeout
      BY <3>1, <3>3 DEF Recent
    <3>6. now <= now'
      BY <1>2, <3>3
    <3> QED
      BY <3>2, <3>3, <3>4, <3>5, <3>6 DEF EntryOK, Fits, Recent
  <2>2. CASE j # i \/ c # d
    <3>1. EntryOK(j, c) /\ cache'[j][c] = cache[j][c]
      BY <1>7, <2>2 DEF Inv
    <3> QED
      BY <1>1, <3>1 DEF EntryOK, Fits, ValueOf, Recent
  <2> QED
    BY <2>1, <2>2
<1>9. req[r] = "keys" /\ d = "keys" =>
        (v.after < Len(rotated[i]) =>
           trace[r].asked < Replaced(i, v) + Timeout + Ttl)
  <2> SUFFICES ASSUME d = "keys", v.after < Len(rotated[i])
               PROVE  trace[r].asked < Replaced(i, v) + Timeout + Ttl
    OBVIOUS
  <2> DEFINE at == rotated[i][v.after + 1]
  <2>1. at \in Nat /\ now <= at + Timeout
    BY <1>5
  <2>2. trace[r].asked <= now
    BY <1>1, KeysOnTop
  <2>3. trace[r].asked \in Nat
    BY <1>2 DEF AuthType, Trace
  <2> HIDE DEF at
  <2>4. trace[r].asked < at + Timeout + Ttl
    BY <1>2, <2>1, <2>2, <2>3, AuthConstants
  <2> QED
    BY <2>4 DEF at, Replaced
<1>10. /\ lock' \in [DOMAIN providers -> [Cache -> Request \cup {NoRequest}]]
       /\ \A q \in Request \ {r} : \A j \in DOMAIN providers : \A c \in Cache :
            lock[j][c] = q => lock'[j][c] = q
       /\ \A j \in DOMAIN providers : \A c \in Cache :
            c # d => lock'[j][c] = lock[j][c]
  BY <1>1, UnlocksEffect
<1>11. \A q \in Request \ {r} : \A j \in DOMAIN providers : \A c \in Cache :
         lock[j][c] = q => lock'[j][c] = q /\ cache'[j][c] = cache[j][c]
  BY <1>4, <1>7, <1>10
<1>12. \A j \in DOMAIN providers : \A c \in Cache :
         c # d => lock'[j][c] = lock[j][c] /\ cache'[j][c] = cache[j][c]
  BY <1>7, <1>10
<1>13. v \in Document \cup Keys \cup {None}
  BY <1>3
<1> QED
  BY <1>1, <1>3, <1>7, <1>8, <1>9, <1>10, <1>11, <1>12, <1>13, CallReturns

LEMMA LookupKeeps ==
  ASSUME Inv, NEW r \in Request, CacheStep(r)
  PROVE  Inv'
  BY LookKeeps, TakeLockKeeps, LookAgainKeeps, FetchDiscoveryKeeps, FetchKeysKeeps,
     UrlKnownKeeps, EndpointAnswersKeeps, EndpointFailsKeeps, StoreKeeps
  DEF CacheStep, LookupStep

-----------------------------------------------------------------------------
(* What is stale stays stale, and no request in flight is overtaken.       *)
LEMMA TickKeeps ==
  ASSUME Inv, Tick, UNCHANGED authVars
  PROVE  Inv'
<1>1. /\ CachesType /\ AuthType /\ now \in Nat /\ now' = now + 1 /\ now < MaxNow
      /\ UNCHANGED <<providers, cache, lock, rotated, on, lookups, got>>
      /\ UNCHANGED <<req, token, trace>>
  BY AuthConstants DEF Inv, CachesType, Tick, authVars
<1>2. CachesType' /\ AuthType'
  BY <1>1, AuthConstants DEF CachesType, AuthType
<1>3. ASSUME NEW i \in DOMAIN providers, NEW c \in Cache
      PROVE  EntryOK(i, c)'
  <2>1. EntryOK(i, c) /\ (cache[i][c] # None => cache[i][c] \in Entry)
    BY <1>1 DEF Inv, CachesType
  <2>2. cache[i][c] # None => cache[i][c].fetched <= now + 1
    BY <1>1, <2>1 DEF EntryOK, Entry
  <2> QED
    BY <1>1, <2>1, <2>2 DEF EntryOK, Fits, ValueOf, Recent
<1>4. ASSUME NEW r \in Request
      PROVE  StackOK(r)' /\ FramesOK(r)' /\ RequestOK(r)'
  <2>1. StackOK(r) /\ FramesOK(r) /\ RequestOK(r)
    BY DEF Inv
  <2>2. StackOK(r)'
    BY <1>1, <2>1 DEF StackOK
  <2>3. ASSUME NEW n \in DOMAIN lookups[r]
        PROVE  FrameOK(r, lookups[r][n])'
    <3> DEFINE l == lookups[r][n]
    <3>1. FrameOK(r, l) /\ Busy(r) /\ l \in Lookup
      BY <1>1, <2>1 DEF FramesOK, Busy, CachesType
    <3>2. /\ on[r] \in DOMAIN providers /\ l.of \in Cache /\ l.since \in Nat
          /\ cache[on[r]][l.of] \in Entry \cup {None}
      BY <1>1, <3>1, BusyAsks DEF CachesType, Lookup
    <3>3. l.at \in {"sent", "store"} => n = Len(lookups[r])
      <4>1. Len(lookups[r]) <= 2 /\ n \in 1..Len(lookups[r]) /\ Len(lookups[r]) \in Nat
        BY <1>1, <2>1, <3>1, TopType DEF StackOK
      <4>2. Len(lookups[r]) = 2 => lookups[r][1].at = "url"
        BY <2>1 DEF StackOK
      <4>3. CASE Len(lookups[r]) = 2 /\ n = 1
        BY <4>2, <4>3
      <4>4. CASE ~(Len(lookups[r]) = 2 /\ n = 1)
        <5> DEFINE L == Len(lookups[r])
        <5>1. L <= 2 /\ n \in 1..L /\ L \in Nat /\ ~(L = 2 /\ n = 1)
          BY <4>1, <4>4
        <5> HIDE DEF L
        <5>2. n = L
          BY <5>1
        <5> QED
          BY <5>2 DEF L
      <4> QED
        BY <4>3, <4>4
    <3>4. l.at \in {"sent", "store"} => now < l.since + Timeout
      <4>1. InFlight(r) => now < Top(r).since + Timeout
        BY DEF Tick
      <4>2. l.at \in {"sent", "store"} => l = Top(r)
        BY <3>3 DEF Top
      <4> HIDE DEF l
      <4> QED
        BY <3>1, <4>1, <4>2 DEF InFlight, Runs
    <3>n. now \in Nat /\ Timeout \in Nat /\ Ttl \in Nat /\ l.since \in Nat
      BY <1>1, <3>2, AuthConstants
    <3> HIDE DEF l
    <3>5. l.at \in {"sent", "store"} => now + 1 <= l.since + Timeout
      BY <3>4, <3>n
    <3>6. ~IsFresh(cache[on[r]][l.of], now) => ~IsFresh(cache[on[r]][l.of], now + 1)
      <4> DEFINE e == cache[on[r]][l.of]
      <4>1. e # None => e.fetched \in Nat
        BY <3>2 DEF Entry
      <4> HIDE DEF e
      <4>2. ~IsFresh(e, now) => ~IsFresh(e, now + 1)
        BY <3>n, <4>1 DEF IsFresh
      <4> QED
        BY <4>2 DEF e
    <3>7. l.since <= now + 1
      BY <1>1, <3>1, <3>2 DEF FrameOK
    <3>8. FrameOK(r, l)'
      <4>1. l' = l
        BY <1>1 DEF l
      <4> QED
        BY <1>1, <3>1, <3>5, <3>6, <3>7, <4>1 DEF FrameOK, Fetching, Fits, ValueOf
    <3> QED
      BY <3>8 DEF l
  <2>4. FramesOK(r)'
    BY <1>1, <2>3 DEF FramesOK
  <2>5. RequestOK(r)'
    <3>1. trace[r].asked \in Nat
      BY <1>1 DEF AuthType, Trace
    <3>2. trace[r].asked <= now => trace[r].asked <= now + 1
      BY <1>1, <3>1
    <3> QED
      BY <1>1, <2>1, <3>2 DEF RequestOK, AsksSomebody, IssuerKnown, KeysKnown,
         OwnerDecided, Owner, NeedsIssuer, Asked, Busy, LearnsIssuer, IssuerOf, Replaced
  <2> QED
    BY <2>2, <2>4, <2>5
<1> QED
  BY <1>1, <1>2, <1>3, <1>4 DEF Inv

(* The keys that are known were the last, until now. *)
LEMMA RotateKeeps ==
  ASSUME Inv, NEW i \in DOMAIN providers, Rotate(i), UNCHANGED authVars
  PROVE  Inv'
<1>1. /\ CachesType /\ AuthType /\ now \in Nat
      /\ UNCHANGED <<providers, now, cache, lock, on, lookups, got>>
      /\ UNCHANGED <<req, token, trace>>
      /\ rotated \in [DOMAIN providers -> Seq(Nat)]
  BY AuthConstants DEF Inv, CachesType, Rotate, authVars
<1>2. /\ rotated' \in [DOMAIN providers -> Seq(Nat)]
      /\ \A j \in DOMAIN providers : Len(rotated'[j]) <= MaxRotations
      /\ \A j \in DOMAIN providers : Len(rotated[j]) \in Nat
      /\ \A j \in DOMAIN providers : \A n \in Nat : n < Len(rotated'[j]) =>
           \/ n < Len(rotated[j]) /\ rotated'[j][n + 1] = rotated[j][n + 1]
           \/ rotated'[j][n + 1] = now
  <2>1. rotated[i] \in Seq(Nat) /\ Len(rotated[i]) \in Nat
    BY <1>1
  <2> DEFINE s == Append(rotated[i], now)
  <2>2. /\ s \in Seq(Nat) /\ Len(s) = Len(rotated[i]) + 1
        /\ \A n \in 1..Len(rotated[i]) : s[n] = rotated[i][n]
        /\ s[Len(rotated[i]) + 1] = now
    BY <1>1, <2>1
  <2>3. rotated' = [rotated EXCEPT ![i] = s]
    BY DEF Rotate
  <2>4. Len(rotated[i]) < MaxRotations
    BY DEF Rotate
  <2> HIDE DEF s
  <2>5. \A n \in Nat : n < Len(s) =>
          \/ n < Len(rotated[i]) /\ s[n + 1] = rotated[i][n + 1]
          \/ s[n + 1] = now
    <3> SUFFICES ASSUME NEW n \in Nat, n < Len(s)
                 PROVE  \/ n < Len(rotated[i]) /\ s[n + 1] = rotated[i][n + 1]
                        \/ s[n + 1] = now
      OBVIOUS
    <3>1. CASE n < Len(rotated[i])
      BY <2>1, <2>2, <3>1
    <3>2. CASE n = Len(rotated[i])
      BY <2>2, <3>2
    <3> QED
      BY <2>1, <2>2, <3>1, <3>2
  <2>6. Len(s) <= MaxRotations
    BY <2>1, <2>2, <2>4, AuthConstants
  <2> QED
    BY <1>1, <2>2, <2>3, <2>5, <2>6 DEF CachesType
<1>3. CachesType' /\ AuthType'
  BY <1>1, <1>2 DEF CachesType, AuthType
<1>4. ASSUME NEW j \in DOMAIN providers, NEW c \in Cache
      PROVE  EntryOK(j, c)'
  <2>1. EntryOK(j, c) /\ (cache[j][c] # None => cache[j][c] \in Entry)
    BY <1>1 DEF Inv, CachesType
  <2>2. ASSUME cache[j][c] # None, c = "keys"
        PROVE  Recent(j, cache[j][c].value, cache[j][c].fetched)'
    <3> DEFINE v == cache[j][c].value
               t == cache[j][c].fetched
    <3>1. v \in Keys /\ Recent(j, v, t) /\ t <= now /\ t \in Nat
      BY <2>1, <2>2 DEF EntryOK, Fits, ValueOf, Entry
    <3>2. v.after \in Nat
      BY <3>1, AuthConstants DEF Keys
    <3>3. cache' = cache
      BY <1>1
    <3> HIDE DEF v, t
    <3>4. v' = v /\ t' = t
      BY <3>3 DEF v, t
    <3>5. v.after < Len(rotated'[j]) => t <= rotated'[j][v.after + 1] + Timeout
      <4>1. ASSUME v.after < Len(rotated'[j])
            PROVE  t <= rotated'[j][v.after + 1] + Timeout
        <5>1. CASE v.after < Len(rotated[j])
                   /\ rotated'[j][v.after + 1] = rotated[j][v.after + 1]
          BY <3>1, <5>1 DEF Recent
        <5>2. CASE rotated'[j][v.after + 1] = now
          BY <1>1, <3>1, <5>2, AuthConstants
        <5> QED
          BY <1>2, <3>2, <4>1, <5>1, <5>2
      <4> QED
        BY <4>1
    <3> QED
      BY <3>4, <3>5 DEF Recent, v, t
  <2> QED
    BY <1>1, <2>1, <2>2 DEF EntryOK, Fits, ValueOf
<1>5. ASSUME NEW r \in Request
      PROVE  StackOK(r)' /\ FramesOK(r)' /\ RequestOK(r)'
  <2>1. StackOK(r) /\ FramesOK(r) /\ RequestOK(r)
    BY DEF Inv
  <2>2. StackOK(r)'
    BY <1>1, <2>1 DEF StackOK
  <2>3. ASSUME NEW n \in DOMAIN lookups[r]
        PROVE  FrameOK(r, lookups[r][n])'
    <3> DEFINE l == lookups[r][n]
    <3>1. FrameOK(r, l) /\ Busy(r) /\ l \in Lookup
      BY <1>1, <2>1 DEF FramesOK, Busy, CachesType
    <3>2. /\ on[r] \in DOMAIN providers /\ l.since \in Nat /\ l.since <= now
      BY <1>1, <3>1, BusyAsks DEF Lookup, FrameOK
    <3>3. lookups' = lookups
      BY <1>1
    <3> HIDE DEF l
    <3>4. l' = l
      BY <3>3 DEF l
    <3>5. ASSUME l.at = "store", l.of = "keys", l.value.after < Len(rotated'[on[r]])
          PROVE  l.since <= rotated'[on[r]][l.value.after + 1]
      <4>1. l.value \in Keys
        BY <3>1, <3>5 DEF FrameOK, Fits, ValueOf
      <4>2. l.value.after \in Nat
        BY <4>1, AuthConstants DEF Keys
      <4>3. CASE l.value.after < Len(rotated[on[r]])
                 /\ rotated'[on[r]][l.value.after + 1] = rotated[on[r]][l.value.after + 1]
        BY <3>1, <3>5, <4>3 DEF FrameOK
      <4>4. CASE rotated'[on[r]][l.value.after + 1] = now
        BY <3>2, <4>4
      <4> QED
        BY <1>2, <3>2, <3>5, <4>2, <4>3, <4>4
    <3>6. FrameOK(r, l)'
      BY <1>1, <3>1, <3>4, <3>5 DEF FrameOK, Fetching, Fits, ValueOf, IsFresh
    <3> QED
      BY <3>6 DEF l
  <2>4. FramesOK(r)'
    BY <1>1, <2>3 DEF FramesOK
  <2>5. KeysKnown(r)'
    <3>1. ASSUME req[r] = "keys", ~Busy(r), got[r] # None,
                 got[r].after < Len(rotated'[on[r]])
          PROVE  trace[r].asked < rotated'[on[r]][got[r].after + 1] + Timeout + Ttl
      <4>1. /\ got[r] \in Keys /\ trace[r].asked <= now
            /\ got[r].after < Len(rotated[on[r]]) =>
                 trace[r].asked < Replaced(on[r], got[r]) + Timeout + Ttl
        BY <2>1, <3>1 DEF RequestOK, KeysKnown
      <4>2. on[r] \in DOMAIN providers /\ got[r].after \in Nat /\ trace[r].asked \in Nat
        BY <1>1, <2>1, <3>1, <4>1, AuthConstants
        DEF RequestOK, AsksSomebody, Asking, Waiting, Keys, AuthType, Trace
      <4>3. CASE got[r].after < Len(rotated[on[r]])
                 /\ rotated'[on[r]][got[r].after + 1] = rotated[on[r]][got[r].after + 1]
        BY <4>1, <4>3 DEF Replaced
      <4>4. CASE rotated'[on[r]][got[r].after + 1] = now
        BY <1>1, <4>1, <4>2, <4>4, AuthConstants
      <4> QED
        BY <1>2, <3>1, <4>2, <4>3, <4>4
    <3> QED
      BY <1>1, <2>1, <3>1 DEF RequestOK, KeysKnown, Replaced, Busy
  <2>6. RequestOK(r)'
    BY <1>1, <2>1, <2>5 DEF RequestOK, AsksSomebody, IssuerKnown,
       OwnerDecided, Owner, NeedsIssuer, Asked, Busy, LearnsIssuer, IssuerOf
  <2> QED
    BY <2>2, <2>4, <2>6
<1> QED
  BY <1>1, <1>3, <1>4, <1>5 DEF Inv

-----------------------------------------------------------------------------
(* The steps of a request, by what they do to it.                          *)
LEMMA EndsKeeps ==
  ASSUME Inv, NEW r \in Request, NEW result \in Decision \cup {"done", "gone"},
         Ends(r, result),
         UNCHANGED <<providers, now, cache, rotated>>,
         lock' \in [DOMAIN providers -> [Cache -> Request \cup {NoRequest}]],
         \A q \in Request \ {r} : \A i \in DOMAIN providers : \A c \in Cache :
           lock[i][c] = q => lock'[i][c] = q,
         \/ lookups' = [lookups EXCEPT ![r] = <<>>]
         \/ ~Busy(r) /\ lookups' = lookups
  PROVE  Inv'
<1>1. /\ CachesType /\ AuthType /\ Len(providers) \in Nat
  BY ProvidersType DEF Inv
<1>2. /\ lookups' \in [Request -> Seq(Lookup)] /\ lookups'[r] = <<>>
      /\ \A q \in Request \ {r} : lookups'[q] = lookups[q]
  <2>1. <<>> \in Seq(Lookup) /\ lookups \in [Request -> Seq(Lookup)]
    BY <1>1 DEF CachesType
  <2>2. CASE lookups' = [lookups EXCEPT ![r] = <<>>]
    BY <2>1, <2>2
  <2>3. CASE ~Busy(r) /\ lookups' = lookups
    BY <2>1, <2>3 DEF Busy
  <2> QED
    BY <2>2, <2>3
<1>3. /\ on' \in [Request -> 1..(Len(providers) + 1)]
      /\ got' \in [Request -> Document \cup Keys \cup {None}]
      /\ \A q \in Request \ {r} : on'[q] = on[q] /\ got'[q] = got[q]
  <2>1. 1 \in 1..(Len(providers) + 1)
    BY <1>1
  <2> QED
    BY <1>1, <2>1 DEF Ends, CachesType
<1>4. NoTrace \in Trace /\ result \in Steps
  BY DEF NoTrace, Trace, Steps
<1>5. /\ AuthType' /\ req'[r] = result /\ token'[r] = None
      /\ \A q \in Request \ {r} :
           req'[q] = req[q] /\ token'[q] = token[q] /\ trace'[q] = trace[q]
  BY <1>1, <1>4 DEF Ends, Moves, AuthType
<1>6. CachesType'
  BY <1>1, <1>2, <1>3 DEF CachesType
<1>7. RequestOK(r)'
  BY <1>2, <1>5 DEF RequestOK, AsksSomebody, IssuerKnown, KeysKnown, OwnerDecided,
                    Busy, Asking, Waiting, Decision
<1> QED
  BY <1>2, <1>3, <1>5, <1>6, <1>7, RequestMoves

(* r asks the next provider, or nobody. *)
LEMMA NextKeeps ==
  ASSUME Inv, NEW r \in Request, ~Busy(r), NextProvider(r), on[r] \in DOMAIN providers,
         UnchangedButLookups, UNCHANGED <<lookups, got, token>>,
         trace' \in [Request -> Trace],
         \A q \in Request \ {r} : trace'[q] = trace[q],
         trace[r].lost \subseteq trace'[r].lost,
         token[r] # None /\ NeedsIssuer(r) /\ Owner(r, on[r]) => on[r] \in trace'[r].lost
  PROVE  Inv'
<1>1. /\ CachesType /\ AuthType /\ RequestOK(r) /\ Len(providers) \in Nat
      /\ DOMAIN providers = 1..Len(providers)
  BY ProvidersType DEF Inv
<1>2. /\ on' \in [Request -> 1..(Len(providers) + 1)] /\ on'[r] = on[r] + 1
      /\ \A q \in Request \ {r} : on'[q] = on[q]
  BY <1>1 DEF NextProvider, CachesType
<1>3. /\ req' \in [Request -> Steps] /\ req'[r] = "provider"
      /\ \A q \in Request \ {r} : req'[q] = req[q]
  BY <1>1 DEF NextProvider, Moves, AuthType, Steps
<1>4. CachesType' /\ AuthType' /\ lookups'[r] = <<>> /\ ~Busy(r)'
  BY <1>1, <1>2, <1>3 DEF CachesType, AuthType, UnchangedButLookups, Busy
<1>5. OwnerDecided(r)'
  <2> SUFFICES ASSUME token[r] # None, NeedsIssuer(r),
                      NEW i \in DOMAIN providers, Owner(r, i), on[r] + 1 > i
               PROVE  i \in trace'[r].lost
    BY <1>2 DEF OwnerDecided, Owner, NeedsIssuer, UnchangedButLookups
  <2>1. i = on[r] \/ on[r] > i
    BY <1>1
  <2> QED
    BY <1>1, <2>1 DEF RequestOK, OwnerDecided
<1>6. RequestOK(r)'
  BY <1>3, <1>4, <1>5 DEF RequestOK, AsksSomebody, IssuerKnown, KeysKnown, Asking, Waiting
<1> QED
  BY <1>2, <1>3, <1>4, <1>6, RequestMoves DEF UnchangedButLookups

LEMMA StartOf ==
  ASSUME NEW r \in Request, ~Busy(r), NEW c, NewLookup(c) \in Lookup
  PROVE  Called(r, c) = <<NewLookup(c)>>
<1>1. lookups[r] = <<>>
  BY DEF Busy
<1> SUFFICES ASSUME NEW x \in Lookup, x = NewLookup(c)
             PROVE  Append(<<>>, x) = <<x>>
  BY <1>1 DEF Called
<1> QED
  OBVIOUS

(* r asks provider i for its issuer. *)
LEMMA AsksKeeps ==
  ASSUME Inv, NEW r \in Request, ~Busy(r), NEW step \in Waiting \ {"keys"},
         Moves(r, step), NEW i \in DOMAIN providers, AskIssuer(r, i),
         on' = [on EXCEPT ![r] = i], i = on[r] \/ token[r] = None,
         step = "listed" => token[r] = None,
         UnchangedButLookups, UNCHANGED <<token, trace>>
  PROVE  Inv'
<1>1. /\ CachesType /\ AuthType /\ RequestOK(r) /\ Len(providers) \in Nat
      /\ DOMAIN providers = 1..Len(providers) /\ providers[i] \in Provider
      /\ now \in Nat
  BY ProvidersType, AuthConstants DEF Inv, CachesType
<1>2. /\ on' \in [Request -> 1..(Len(providers) + 1)] /\ on'[r] = i
      /\ \A q \in Request \ {r} : on'[q] = on[q]
  BY <1>1 DEF CachesType
<1>3. /\ req' \in [Request -> Steps] /\ req'[r] = step
      /\ \A q \in Request \ {r} : req'[q] = req[q]
  BY <1>1 DEF Moves, AuthType, Steps, Asking
<1>4. /\ lookups' \in [Request -> Seq(Lookup)]
      /\ got' \in [Request -> Document \cup Keys \cup {None}]
      /\ \A q \in Request \ {r} : lookups'[q] = lookups[q] /\ got'[q] = got[q]
      /\ \/ /\ providers[i].issuer # None
            /\ lookups'[r] = <<>> /\ got'[r].issuer = providers[i].issuer
         \/ /\ providers[i].issuer = None
            /\ lookups'[r] = <<NewLookup("discovery")>>
  <2>1. CASE providers[i].issuer # None
    <3> DEFINE d == [issuer |-> providers[i].issuer, uri |-> FALSE]
    <3>1. d \in Document /\ d.issuer = providers[i].issuer
      BY <1>1, <2>1 DEF Provider, Document
    <3>2. got' = [got EXCEPT ![r] = d] /\ lookups' = lookups
      BY <2>1 DEF AskIssuer
    <3>3. lookups'[r] = <<>>
      BY <3>2 DEF Busy
    <3> HIDE DEF d
    <3>4. /\ got' \in [Request -> Document \cup Keys \cup {None}] /\ got'[r] = d
          /\ \A q \in Request \ {r} : got'[q] = got[q]
      BY <1>1, <3>1, <3>2 DEF CachesType
    <3> QED
      BY <1>1, <2>1, <3>1, <3>2, <3>3, <3>4 DEF CachesType
  <2>2. CASE providers[i].issuer = None
    <3>1. NewLookup("discovery") \in Lookup
      BY <1>1 DEF NewLookup, Lookup, Cache
    <3>2. Called(r, "discovery") = <<NewLookup("discovery")>>
      BY <3>1, StartOf
    <3> DEFINE s == <<NewLookup("discovery")>>
    <3>3. s \in Seq(Lookup)
      BY <3>1
    <3>4. lookups' = [lookups EXCEPT ![r] = s] /\ got' = got
      BY <2>2, <3>2 DEF AskIssuer
    <3>5. s = <<NewLookup("discovery")>>
      OBVIOUS
    <3> HIDE DEF s
    <3>6. lookups \in [Request -> Seq(Lookup)] /\ got \in [Request -> Document \cup Keys \cup {None}]
      BY <1>1 DEF CachesType
    <3>7. /\ lookups' \in [Request -> Seq(Lookup)] /\ lookups'[r] = s
          /\ \A q \in Request \ {r} : lookups'[q] = lookups[q]
      BY <3>3, <3>4, <3>6
    <3> QED
      BY <2>2, <3>4, <3>5, <3>6, <3>7
  <2> QED
    BY <2>1, <2>2
<1>5. CachesType' /\ AuthType'
  BY <1>1, <1>2, <1>3, <1>4 DEF CachesType, AuthType, UnchangedButLookups
<1>6. AsksSomebody(r)'
  <2>1. Busy(r)' => lookups'[r][1].of = "discovery"
    BY <1>4 DEF Busy, NewLookup
  <2> QED
    BY <1>2, <1>3, <2>1 DEF AsksSomebody, Asking, Waiting, UnchangedButLookups
<1>7. IssuerKnown(r)'
  <2>1. CASE providers[i].issuer # None
    BY <1>2, <1>4, <2>1 DEF IssuerKnown, IssuerOf, Busy, UnchangedButLookups
  <2>2. CASE providers[i].issuer = None
    <3>1. Busy(r)'
      <4>1. lookups'[r] = <<NewLookup("discovery")>>
        BY <1>4, <2>2
      <4>2. Len(lookups'[r]) # 0
        BY <4>1
      <4> QED
        BY <4>2 DEF Busy
    <3> QED
      BY <1>2, <2>2, <3>1 DEF IssuerKnown, Asked, UnchangedButLookups
  <2> QED
    BY <2>1, <2>2
<1>8. KeysKnown(r)'
  BY <1>3 DEF KeysKnown
<1>9. OwnerDecided(r)'
  BY <1>1, <1>2 DEF RequestOK, OwnerDecided, Owner, NeedsIssuer, UnchangedButLookups
<1>10. \/ lookups'[r] = <<>>
       \/ \E c \in Cache : lookups'[r] = <<NewLookup(c)>>
  BY <1>4 DEF Cache
<1> QED
  BY <1>2, <1>3, <1>4, <1>5, <1>6, <1>7, <1>8, <1>9, <1>10, RequestMoves
  DEF RequestOK, UnchangedButLookups

(* r asks the introspection endpoint or the plugin. *)
LEMMA AsksOutside ==
  ASSUME Inv, NEW r \in Request, ~Busy(r), NEW step \in {"introspect", "plugin"},
         Moves(r, step), on[r] \in DOMAIN providers,
         step = "plugin" => Asked(r).type = "plugin",
         UnchangedCaches, UNCHANGED <<token, trace>>
  PROVE  Inv'
<1>1. CachesType /\ AuthType /\ RequestOK(r) /\ lookups[r] = <<>>
  BY DEF Inv, Busy
<1>2. /\ req' \in [Request -> Steps] /\ req'[r] = step
      /\ \A q \in Request \ {r} : req'[q] = req[q]
  BY <1>1 DEF Moves, AuthType, Steps, Asking
<1>3. UNCHANGED <<providers, now, cache, lock, rotated, on, lookups, got>>
  BY DEF UnchangedCaches, cacheVars
<1>4. CachesType' /\ AuthType'
  BY <1>1, <1>2, <1>3 DEF CachesType, AuthType
<1>5. RequestOK(r)'
  BY <1>1, <1>2, <1>3 DEF RequestOK, AsksSomebody, IssuerKnown, KeysKnown,
     OwnerDecided, Owner, NeedsIssuer, Busy, Asked
<1> QED
  BY <1>1, <1>2, <1>3, <1>4, <1>5, RequestMoves

-----------------------------------------------------------------------------
(* Each step of a request keeps the invariant. *)
LEMMA ReceiveKeeps ==
  ASSUME Inv, NEW r \in Request, NEW t \in Carries[r], Receive(r, t)
  PROVE  Inv'
<1>1. /\ CachesType /\ AuthType /\ RequestOK(r) /\ req[r] = "idle"
      /\ UNCHANGED <<providers, now, cache, lock, rotated, lookups>>
  BY DEF Inv, Receive, UnchangedButLookups
<1>2. ~Busy(r) /\ lookups[r] = <<>> /\ on[r] = 1
  BY <1>1 DEF RequestOK, AsksSomebody, Waiting, Busy
<1>3. ASSUME NEW result \in Decision, Ends(r, result)
      PROVE  Inv'
  <2>1. lock' = lock /\ lock' \in [DOMAIN providers -> [Cache -> Request \cup {NoRequest}]]
    BY <1>1 DEF CachesType
  <2> QED
    BY <1>1, <1>2, <1>3, <2>1, EndsKeeps
<1>4. ASSUME Moves(r, "provider"), token' = [token EXCEPT ![r] = t], t # None,
             UNCHANGED <<on, got, trace>>
      PROVE  Inv'
  <2>1. t \in Token
    BY <1>4, AuthAssumption
  <2>2. /\ AuthType' /\ req'[r] = "provider"
        /\ \A q \in Request \ {r} : req'[q] = req[q] /\ token'[q] = token[q]
    BY <1>1, <1>4, <2>1 DEF AuthType, Moves, Steps
  <2>3. CachesType'
    BY <1>1, <1>4 DEF CachesType
  <2>4. OwnerDecided(r)'
    <3>1. \A i \in DOMAIN providers : ~(on[r] > i)
      BY <1>1, <1>2, ProvidersType
    <3> QED
      BY <1>1, <1>4, <3>1 DEF OwnerDecided
  <2>5. RequestOK(r)'
    BY <1>1, <1>2, <2>2, <2>4 DEF RequestOK, AsksSomebody, IssuerKnown, KeysKnown,
       Asking, Waiting, Busy
  <2> QED
    BY <1>1, <1>2, <1>4, <2>2, <2>3, <2>5, RequestMoves
<1> QED
  BY <1>3, <1>4 DEF Receive, Decision

LEMMA Rests ==
  ASSUME Inv, NEW r \in Request, NEW result \in Decision \cup {"done", "gone"},
         ~Busy(r), Ends(r, result), UnchangedButLookups, UNCHANGED lookups
  PROVE  Inv'
<1>1. /\ UNCHANGED <<providers, now, cache, lock, rotated, lookups>>
      /\ lock' \in [DOMAIN providers -> [Cache -> Request \cup {NoRequest}]]
  BY DEF Inv, CachesType, UnchangedButLookups
<1> QED
  BY <1>1, EndsKeeps

(* A provider that is no owner is passed. *)
LEMMA Passes ==
  ASSUME Inv, NEW r \in Request, ~Busy(r), NextProvider(r), on[r] \in DOMAIN providers,
         UnchangedButLookups, UNCHANGED <<lookups, got, token, trace>>,
         ~(NeedsIssuer(r) /\ Owner(r, on[r]))
  PROVE  Inv'
<1>1. trace' \in [Request -> Trace] /\ trace' = trace
  BY DEF Inv, AuthType
<1> QED
  BY <1>1, NextKeeps

LEMMA BearerKeeps ==
  ASSUME Inv, NEW r \in Request, Bearer(r)
  PROVE  Inv'
<1>1. /\ ~Busy(r) /\ on[r] \in DOMAIN providers /\ Asked(r).type = "bearer"
  BY DEF Bearer, IsAsked, At
<1>2. CASE token[r].bearer
  BY <1>1, <1>2, Rests DEF Bearer, Decision
<1>3. CASE ~token[r].bearer
  <2>1. ~Owner(r, on[r])
    BY <1>1 DEF Owner, Asked
  <2> QED
    BY <1>1, <1>3, <2>1, Passes DEF Bearer
<1> QED
  BY <1>2, <1>3

LEMMA AbstainKeeps ==
  ASSUME Inv, NEW r \in Request, Abstain(r)
  PROVE  Inv'
<1>1. ~Busy(r) /\ on[r] \in DOMAIN providers /\ ~NeedsIssuer(r)
  BY DEF Abstain, Abstains, IsAsked, At, NeedsIssuer
<1> QED
  BY <1>1, Passes DEF Abstain

LEMMA AsksSame ==
  ASSUME Inv, NEW r \in Request, ~Busy(r), NEW step \in {"issuer", "verify", "introspected"},
         Moves(r, step), on[r] \in DOMAIN providers, AskIssuer(r, on[r]),
         UnchangedButLookups, UNCHANGED <<on, token, trace>>
  PROVE  Inv'
<1>1. on' = [on EXCEPT ![r] = on[r]]
  BY DEF Inv, CachesType
<1>2. step \in Waiting \ {"keys"} /\ step # "listed"
  BY DEF Waiting
<1> QED
  BY <1>1, <1>2, AsksKeeps

LEMMA CheckIssuerKeeps ==
  ASSUME Inv, NEW r \in Request, CheckIssuer(r)
  PROVE  Inv'
<1>1. ~Busy(r) /\ on[r] \in DOMAIN providers
  BY DEF CheckIssuer, IsAsked, At
<1> QED
  BY <1>1, AsksSame DEF CheckIssuer

LEMMA IntrospectKeeps ==
  ASSUME Inv, NEW r \in Request, Introspect(r)
  PROVE  Inv'
<1>1. ~Busy(r) /\ on[r] \in DOMAIN providers
  BY DEF Introspect, IsAsked, At
<1> QED
  BY <1>1, AsksOutside DEF Introspect

LEMMA AskPluginKeeps ==
  ASSUME Inv, NEW r \in Request, AskPlugin(r)
  PROVE  Inv'
<1>1. ~Busy(r) /\ on[r] \in DOMAIN providers /\ Asked(r).type = "plugin"
  BY DEF AskPlugin, IsAsked, At
<1> QED
  BY <1>1, AsksOutside DEF AskPlugin

(* Where a request asks, there is a provider. *)
LEMMA AsksWhom ==
  ASSUME Inv, NEW r \in Request, NEW step \in Asking, At(r, step)
  PROVE  ~Busy(r) /\ on[r] \in DOMAIN providers /\ req[r] = step /\ RequestOK(r)
  BY DEF Inv, RequestOK, AsksSomebody, At

LEMMA IssuerDiffersKeeps ==
  ASSUME Inv, NEW r \in Request, IssuerDiffers(r)
  PROVE  Inv'
<1>1. /\ ~Busy(r) /\ on[r] \in DOMAIN providers /\ req[r] = "issuer" /\ RequestOK(r)
      /\ AuthType /\ on[r] \in Nat
  <2>1. "issuer" \in Asking
    BY DEF Asking, Waiting
  <2>2. ~Busy(r) /\ on[r] \in DOMAIN providers /\ req[r] = "issuer" /\ RequestOK(r)
    BY <2>1, AsksWhom DEF IssuerDiffers
  <2>3. CachesType /\ AuthType
    BY DEF Inv
  <2>4. on[r] \in 1..Len(providers)
    BY <2>2, <2>3, ProvidersType
  <2> QED
    BY <2>2, <2>3, <2>4
<1>2. /\ trace' \in [Request -> Trace]
      /\ \A q \in Request \ {r} : trace'[q] = trace[q]
      /\ trace'[r].lost = IF LearnsIssuer(r) THEN trace[r].lost
                                             ELSE trace[r].lost \cup {on[r]}
  <2> DEFINE lost == IF LearnsIssuer(r) THEN trace[r].lost ELSE trace[r].lost \cup {on[r]}
             t == [trace[r] EXCEPT !.lost = lost]
  <2>1. t \in Trace /\ t.lost = lost
    BY <1>1 DEF AuthType, Trace
  <2>2. trace' = [trace EXCEPT ![r] = t]
    BY DEF IssuerDiffers
  <2> HIDE DEF t
  <2> QED
    BY <1>1, <2>1, <2>2 DEF AuthType
<1>3. Owner(r, on[r]) => on[r] \in trace'[r].lost
  <2>1. CASE ~LearnsIssuer(r)
    BY <1>2, <2>1
  <2>2. CASE LearnsIssuer(r)
    <3>1. got[r].issuer = IssuerOf(on[r])
      BY <1>1, <2>2 DEF RequestOK, IssuerKnown
    <3> QED
      BY <2>2, <3>1 DEF IssuerDiffers, IssuerIs, LearnsIssuer, Owner, IssuerOf
  <2> QED
    BY <2>1, <2>2
<1>4. /\ NextProvider(r) /\ UnchangedButLookups /\ UNCHANGED <<lookups, got, token>>
  BY DEF IssuerDiffers
<1>5. trace[r].lost \subseteq trace'[r].lost
  BY <1>2
<1> QED
  BY <1>1, <1>2, <1>3, <1>4, <1>5, NextKeeps

LEMMA IssuerMatchesKeeps ==
  ASSUME Inv, NEW r \in Request, IssuerMatches(r)
  PROVE  Inv'
<1>1. /\ ~Busy(r) /\ on[r] \in DOMAIN providers /\ req[r] = "issuer" /\ RequestOK(r)
      /\ AuthType /\ CachesType /\ now \in Nat
  <2>1. "issuer" \in Asking
    BY DEF Asking, Waiting
  <2> QED
    BY <2>1, AsksWhom, AuthConstants DEF IssuerMatches, Inv, CachesType
<1>2. ASSUME Moves(r, "keys"), lookups' = [lookups EXCEPT ![r] = Called(r, "keys")],
             trace' = [trace EXCEPT ![r].asked = now],
             UnchangedButLookups, UNCHANGED <<on, got, token>>
      PROVE  Inv'
  <2>1. NewLookup("keys") \in Lookup /\ NewLookup("keys").of = "keys"
        /\ NewLookup("keys").since = now
    BY <1>1 DEF NewLookup, Lookup, Cache
  <2>2. Called(r, "keys") = <<NewLookup("keys")>>
    BY <1>1, <2>1, StartOf
  <2>3. /\ lookups' \in [Request -> Seq(Lookup)]
        /\ lookups'[r] = <<NewLookup("keys")>>
        /\ \A q \in Request \ {r} : lookups'[q] = lookups[q]
    <3>1. <<NewLookup("keys")>> \in Seq(Lookup)
      BY <2>1
    <3> QED
      BY <1>1, <1>2, <2>2, <3>1 DEF CachesType
  <2>4. lookups'[r][1] = NewLookup("keys") /\ Busy(r)'
    <3>1. Len(lookups'[r]) # 0
      BY <2>3
    <3> QED
      BY <2>3, <3>1 DEF Busy
  <2>5. /\ trace' \in [Request -> Trace] /\ trace'[r].asked = now
        /\ trace'[r].lost = trace[r].lost
        /\ \A q \in Request \ {r} : trace'[q] = trace[q]
    <3> DEFINE t == [trace[r] EXCEPT !.asked = now]
    <3>1. t \in Trace /\ t.asked = now /\ t.lost = trace[r].lost
      BY <1>1 DEF AuthType, Trace
    <3>2. trace' = [trace EXCEPT ![r] = t]
      BY <1>2
    <3> HIDE DEF t
    <3> QED
      BY <1>1, <3>1, <3>2 DEF AuthType
  <2>6. /\ req' \in [Request -> Steps] /\ req'[r] = "keys"
        /\ \A q \in Request \ {r} : req'[q] = req[q]
    BY <1>1, <1>2 DEF Moves, AuthType, Steps, Asking, Waiting
  <2>7. CachesType' /\ AuthType'
    BY <1>1, <1>2, <2>3, <2>5, <2>6 DEF CachesType, AuthType, UnchangedButLookups
  <2>8. RequestOK(r)'
    <3>1. AsksSomebody(r)' /\ IssuerKnown(r)'
      BY <1>1, <1>2, <2>1, <2>4, <2>6 DEF AsksSomebody, IssuerKnown, Asking, Waiting,
         UnchangedButLookups
    <3>2. KeysKnown(r)'
      BY <1>1, <1>2, <2>1, <2>4, <2>5 DEF KeysKnown, UnchangedButLookups
    <3>3. OwnerDecided(r)'
      BY <1>1, <1>2, <2>5 DEF RequestOK, OwnerDecided, Owner, NeedsIssuer,
         UnchangedButLookups
    <3> QED
      BY <3>1, <3>2, <3>3 DEF RequestOK
  <2>9. \E c \in Cache : lookups'[r] = <<NewLookup(c)>>
    BY <2>3 DEF Cache
  <2> QED
    BY <1>1, <1>2, <2>3, <2>5, <2>6, <2>7, <2>8, <2>9, RequestMoves
    DEF UnchangedButLookups
<1>3. ASSUME Moves(r, "introspect"), UNCHANGED <<lookups, trace>>,
             UnchangedButLookups, UNCHANGED <<on, got, token>>
      PROVE  Inv'
  <2>1. UnchangedCaches
    BY <1>3 DEF UnchangedCaches, cacheVars, UnchangedButLookups
  <2> QED
    BY <1>1, <1>3, <2>1, AsksOutside
<1> QED
  BY <1>2, <1>3 DEF IssuerMatches

LEMMA KeyMissingKeeps ==
  ASSUME Inv, NEW r \in Request, KeyMissing(r)
  PROVE  Inv'
  BY Rests DEF KeyMissing, At, Decision

LEMMA KeyFoundKeeps ==
  ASSUME Inv, NEW r \in Request, KeyFound(r)
  PROVE  Inv'
<1>1. "keys" \in Asking
  BY DEF Asking, Waiting
<1>2. ~Busy(r) /\ on[r] \in DOMAIN providers
  BY <1>1, AsksWhom DEF KeyFound
<1> QED
  BY <1>2, AsksSame DEF KeyFound

LEMMA VerifyKeeps ==
  ASSUME Inv, NEW r \in Request, Verify(r)
  PROVE  Inv'
<1>1. ~Busy(r)
  BY DEF Verify, At
<1>2. Judgement(r) \in Decision
  BY DEF Judgement, Decision
<1> QED
  BY <1>1, <1>2, Rests DEF Verify

LEMMA IntrospectionFailsKeeps ==
  ASSUME Inv, NEW r \in Request, IntrospectionFails(r)
  PROVE  Inv'
  BY Rests DEF IntrospectionFails, At, Decision

LEMMA IntrospectionAnswersKeeps ==
  ASSUME Inv, NEW r \in Request, IntrospectionAnswers(r)
  PROVE  Inv'
<1>1. "introspect" \in Asking
  BY DEF Asking
<1>2. ~Busy(r) /\ on[r] \in DOMAIN providers
  BY <1>1, AsksWhom DEF IntrospectionAnswers
<1> QED
  BY <1>2, AsksSame DEF IntrospectionAnswers

LEMMA PluginDecidesKeeps ==
  ASSUME Inv, NEW r \in Request, PluginDecides(r)
  PROVE  Inv'
<1>1. "plugin" \in Asking
  BY DEF Asking
<1>2. ~Busy(r) /\ on[r] \in DOMAIN providers /\ req[r] = "plugin" /\ RequestOK(r)
  BY <1>1, AsksWhom DEF PluginDecides
<1>3. ~Owner(r, on[r])
  BY <1>2 DEF RequestOK, AsksSomebody, Asked, Owner
<1>4. UnchangedButLookups /\ UNCHANGED lookups
  BY DEF PluginDecides
<1>5. CASE \E d \in {"allow", "unauthorized"} : Ends(r, d)
  BY <1>2, <1>4, <1>5, Rests DEF Decision
<1>6. CASE NextProvider(r) /\ UNCHANGED <<got, token, trace>>
  BY <1>2, <1>3, <1>4, <1>6, Passes
<1> QED
  BY <1>5, <1>6 DEF PluginDecides

LEMMA GetMetadataKeeps ==
  ASSUME Inv, NEW r \in Request, GetMetadata(r)
  PROVE  Inv'
<1>1. RequestOK(r) /\ CachesType /\ req[r] = "idle"
  BY DEF Inv, GetMetadata
<1>2. ~Busy(r) /\ on[r] = 1 /\ token[r] = None
  BY <1>1 DEF RequestOK, AsksSomebody, Waiting
<1>3. 1 \in DOMAIN providers
  BY <1>1, ProvidersType
<1>4. "listed" \in Waiting \ {"keys"}
  BY DEF Waiting
<1>5. CASE Moves(r, "listed") /\ AskIssuer(r, 1) /\ UNCHANGED <<on, token, trace>>
  <2>1. on' = [on EXCEPT ![r] = 1]
    BY <1>1, <1>2, <1>5 DEF CachesType
  <2> QED
    BY <1>2, <1>3, <1>4, <1>5, <2>1, AsksKeeps DEF GetMetadata
<1>6. CASE Ends(r, "done") /\ UNCHANGED lookups
  BY <1>2, <1>6, Rests DEF GetMetadata
<1> QED
  BY <1>5, <1>6 DEF GetMetadata

LEMMA ListNextKeeps ==
  ASSUME Inv, NEW r \in Request, ListNext(r)
  PROVE  Inv'
<1>1. "listed" \in Asking /\ "listed" \in Waiting \ {"keys"}
  BY DEF Asking, Waiting
<1>2. ~Busy(r) /\ on[r] \in DOMAIN providers /\ req[r] = "listed" /\ RequestOK(r)
  BY <1>1, AsksWhom DEF ListNext
<1>3. CachesType /\ AuthType /\ token[r] = None
  BY <1>2 DEF Inv, RequestOK, AsksSomebody
<1>4. CASE on[r] < Len(providers)
  <2>1. on[r] + 1 \in DOMAIN providers
    BY <1>2, <1>3, <1>4, ProvidersType
  <2>2. Moves(r, "listed")
    BY <1>2, <1>3, <1>4 DEF ListNext, Moves, AuthType
  <2>3. /\ on' = [on EXCEPT ![r] = on[r] + 1] /\ AskIssuer(r, on[r] + 1)
        /\ UnchangedButLookups /\ UNCHANGED <<token, trace>>
    BY <1>4 DEF ListNext
  <2> DEFINE i == on[r] + 1
  <2> HIDE DEF i
  <2>4. /\ i \in DOMAIN providers /\ on' = [on EXCEPT ![r] = i] /\ AskIssuer(r, i)
    BY <2>1, <2>3 DEF i
  <2> QED
    BY <1>1, <1>2, <1>3, <2>2, <2>3, <2>4, AsksKeeps
<1>5. CASE ~(on[r] < Len(providers))
  BY <1>2, <1>5, Rests DEF ListNext
<1> QED
  BY <1>4, <1>5

LEMMA DisconnectKeeps ==
  ASSUME Inv, NEW r \in Request, Disconnect(r)
  PROVE  Inv'
<1>1. /\ Ends(r, "gone") /\ UNCHANGED <<providers, now, cache, rotated>>
      /\ lookups' = [lookups EXCEPT ![r] = <<>>]
  BY DEF Disconnect
<1>2. /\ lock' \in [DOMAIN providers -> [Cache -> Request \cup {NoRequest}]]
      /\ \A q \in Request \ {r} : \A i \in DOMAIN providers : \A c \in Cache :
           lock[i][c] = q => lock'[i][c] = q
  <2>1. CASE on[r] \in DOMAIN providers
    BY <2>1, ReleasedEffect DEF Disconnect
  <2>2. CASE on[r] \notin DOMAIN providers
    BY <2>2 DEF Disconnect, Inv, CachesType
  <2> QED
    BY <2>1, <2>2
<1> QED
  BY <1>1, <1>2, EndsKeeps

LEMMA RequestKeeps ==
  ASSUME Inv, NEW r \in Request, RequestStep(r)
  PROVE  Inv'
<1>1. CASE NobodyDecides(r)
  BY <1>1, Rests DEF NobodyDecides, At, Decision
<1> QED
  BY <1>1, BearerKeeps, AbstainKeeps, CheckIssuerKeeps, IntrospectKeeps, AskPluginKeeps,
     IssuerDiffersKeeps, IssuerMatchesKeeps, KeyMissingKeeps, KeyFoundKeeps, VerifyKeeps,
     IntrospectionFailsKeeps, IntrospectionAnswersKeeps, PluginDecidesKeeps, ListNextKeeps
  DEF RequestStep

LEMMA StutterKeeps ==
  ASSUME Inv, UNCHANGED vars
  PROVE  Inv'
<1>1. /\ UNCHANGED <<providers, now, cache, lock, rotated, on, lookups, got>>
      /\ UNCHANGED <<req, token, trace>>
  BY DEF vars, cacheVars, authVars
<1>2. CachesType' /\ AuthType'
  BY <1>1 DEF Inv, CachesType, AuthType
<1>3. ASSUME NEW i \in DOMAIN providers, NEW c \in Cache
      PROVE  EntryOK(i, c)'
  <2>1. EntryOK(i, c)
    BY DEF Inv
  <2> QED
    BY <1>1, <2>1 DEF EntryOK, Fits, Recent
<1>4. ASSUME NEW r \in Request
      PROVE  StackOK(r)' /\ FramesOK(r)' /\ RequestOK(r)'
  <2>1. StackOK(r) /\ FramesOK(r) /\ RequestOK(r)
    BY DEF Inv
  <2>2. StackOK(r)'
    BY <1>1, <2>1 DEF StackOK
  <2>3. FramesOK(r)'
    BY <1>1, <2>1 DEF FramesOK, FrameOK, Fits, IsFresh
  <2>4. AsksSomebody(r)' /\ IssuerKnown(r)'
    BY <1>1, <2>1 DEF RequestOK, AsksSomebody, IssuerKnown, Asked, Busy, LearnsIssuer,
         IssuerOf
  <2>5. KeysKnown(r)'
    BY <1>1, <2>1 DEF RequestOK, KeysKnown, Busy, Replaced
  <2>6. OwnerDecided(r)'
    BY <1>1, <2>1 DEF RequestOK, OwnerDecided, Owner, NeedsIssuer
  <2> QED
    BY <2>2, <2>3, <2>4, <2>5, <2>6 DEF RequestOK
<1> QED
  BY <1>1, <1>2, <1>3, <1>4 DEF Inv

LEMMA InitHolds ==
  ASSUME Init
  PROVE  Inv
<1>1. /\ providers \in ProviderLists /\ now = 0
      /\ cache = [i \in DOMAIN providers |-> [c \in Cache |-> None]]
      /\ lock = [i \in DOMAIN providers |-> [c \in Cache |-> NoRequest]]
      /\ rotated = [i \in DOMAIN providers |-> <<>>]
      /\ on = [r \in Request |-> 1] /\ lookups = [r \in Request |-> <<>>]
      /\ got = [r \in Request |-> None]
      /\ req = [r \in Request |-> "idle"] /\ token = [r \in Request |-> None]
      /\ trace = [r \in Request |-> NoTrace]
  BY DEF Init, CachesInit
<1>2. CachesType
  <2>1. 1 \in 1..(Len(providers) + 1) /\ 0 \in 0..MaxNow
    BY <1>1, AuthConstants
  <2>2. <<>> \in Seq(Nat) /\ <<>> \in Seq(Lookup) /\ Len(<<>>) <= MaxRotations
    BY AuthConstants
  <2> QED
    BY <1>1, <2>1, <2>2 DEF CachesType
<1>3. NoTrace \in Trace
  BY DEF NoTrace, Trace
<1>4. AuthType
  BY <1>1, <1>3 DEF AuthType, Steps
<1>5. ASSUME NEW r \in Request
      PROVE  StackOK(r) /\ FramesOK(r) /\ RequestOK(r)
  <2>1. lookups[r] = <<>> /\ req[r] = "idle" /\ token[r] = None /\ on[r] = 1
    BY <1>1
  <2> QED
    BY <2>1 DEF StackOK, FramesOK, RequestOK, AsksSomebody, IssuerKnown, KeysKnown,
       OwnerDecided, Busy, Asking, Waiting
<1> QED
  BY <1>1, <1>2, <1>4, <1>5 DEF Inv, EntryOK

(* No step of a request, a lookup, a client, the clock or a server that    *)
(* replaces its keys leaves the inductive invariant.                       *)
THEOREM Inductive == Spec => []Inv
<1>1. Init => Inv
  BY InitHolds
<1>2. Inv /\ [Next]_vars => Inv'
  BY ReceiveKeeps, GetMetadataKeeps, RequestKeeps, LookupKeeps, DisconnectKeeps, TickKeeps,
     RotateKeeps, StutterKeeps DEF Next
<1> QED
  BY <1>1, <1>2, PTL DEF Spec

-----------------------------------------------------------------------------
(* Every variable has its type in every reachable state. *)
THEOREM TypeCorrect == Spec => []TypeOK
<1>1. Inv => TypeOK
  <2> SUFFICES ASSUME Inv PROVE TypeOK
    OBVIOUS
  <2>1. CachesType /\ AuthType /\ now \in Nat
    BY AuthConstants DEF Inv, CachesType
  <2>2. ASSUME NEW i \in DOMAIN providers, NEW c \in Cache
        PROVE  /\ cache[i][c] # None => /\ cache[i][c].fetched \in 0..now
                                        /\ cache[i][c].value \in ValueOf(c)
               /\ lock[i][c] \in Request \cup {NoRequest}
    <3>1. EntryOK(i, c) /\ (cache[i][c] # None => cache[i][c] \in Entry)
      BY <2>1 DEF Inv, CachesType
    <3> QED
      BY <2>1, <3>1 DEF EntryOK, Fits, Entry, CachesType
  <2>3. ASSUME NEW r \in Request
        PROVE  /\ on[r] \in 1..(Len(providers) + 1)
               /\ Len(lookups[r]) <= 2
               /\ Len(lookups[r]) = 2 => lookups[r][1].of = "keys" /\ lookups[r][1].at = "url"
               /\ Busy(r) => /\ Top(r).since <= now
                             /\ Top(r).at = "store" => Top(r).value \in ValueOf(Top(r).of)
    <3>1. StackOK(r)
      BY DEF Inv
    <3>2. Busy(r) => FrameOK(r, Top(r))
      BY BusyAsks
    <3> QED
      BY <2>1, <3>1, <3>2 DEF StackOK, FrameOK, Fits, CachesType
  <2> QED
    BY <2>1, <2>2, <2>3 DEF TypeOK, CachesType
<1> QED
  BY <1>1, Inductive, PTL

(* FetchShared for any number of requests and providers: the fetchers of a *)
(* cache hold its one lock, and since they took it nobody else has stored. *)
THEOREM FetchesShared == Spec => []FetchShared
<1>1. Inv => FetchShared
  <2> SUFFICES ASSUME Inv, NEW i \in DOMAIN providers, NEW c \in Cache
               PROVE  /\ Cardinality(Fetchers(i, c)) <= 1
                      /\ Fetchers(i, c) # {} => ~IsFresh(cache[i][c], now)
    BY DEF FetchShared
  <2>1. ASSUME NEW r \in Fetchers(i, c)
        PROVE  r = lock[i][c] /\ ~IsFresh(cache[i][c], now)
    <3>1. PICK n \in DOMAIN lookups[r] :
            lookups[r][n].of = c /\ lookups[r][n].at \in Fetching
      BY DEF Fetchers, Fetching
    <3>2. FrameOK(r, lookups[r][n]) /\ on[r] = i
      BY DEF Inv, FramesOK, Fetchers
    <3> QED
      BY <3>1, <3>2 DEF FrameOK
  <2>2. Fetchers(i, c) \subseteq {lock[i][c]}
    BY <2>1
  <2>3. Cardinality(Fetchers(i, c)) <= 1
    <3>1. IsFiniteSet({lock[i][c]}) /\ Cardinality({lock[i][c]}) = 1
      BY FS_Singleton
    <3>2. Cardinality(Fetchers(i, c)) <= Cardinality({lock[i][c]})
      BY <2>2, <3>1, FS_Subset
    <3> QED
      BY <3>1, <3>2
  <2> QED
    BY <2>1, <2>3
<1> QED
  BY <1>1, Inductive, PTL

(* KeysRecent for every lifetime and every timeout of a fetch. *)
THEOREM KeysAreRecent == Spec => []KeysRecent
<1>1. Inv => KeysRecent
  BY DEF Inv, RequestOK, KeysKnown, KeysRecent, At, Replaced
<1> QED
  BY <1>1, Inductive, PTL

(* OwnerDecides for every list of providers and every token: what a request *)
(* knows of an issuer is about the provider it asks, and it goes past one   *)
(* whose issuer the token names only without that knowledge.               *)
THEOREM OwnersDecide == Spec => []OwnerDecides
<1>1. Inv => OwnerDecides
  BY DEF Inv, RequestOK, OwnerDecided, OwnerDecides
<1> QED
  BY <1>1, Inductive, PTL
=============================================================================
