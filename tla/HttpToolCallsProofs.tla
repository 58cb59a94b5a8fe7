------------------------ MODULE HttpToolCallsProofs ------------------------
(***************************************************************************)
(* Proofs about OutboundTokens and HttpToolCalls for every set of calls,   *)
(* every configuration of the upstream and every answer of the endpoint.   *)
(***************************************************************************)
EXTENDS HttpToolCalls, TLAPS

(* What the calls do to the token manager, one operation at a time.  A     *)
(* caller asks only when it has no request open, and takes only a result.  *)
TokenOp ==
  \/ Tick
  \/ \E c \in Call :
       \/ \E forced \in BOOLEAN : get[c].at = "idle" /\ Ask(c, forced)
       \/ GetStep(c)
       \/ get[c].at = "returned" /\ Take(c)
       \/ Abandon(c)
  \/ UNCHANGED tokenVars

LEMMA TokenConstants ==
  /\ MaxNow \in Nat /\ MaxIssued \in Nat /\ Skew \in Nat
  /\ NoToken \notin Nat /\ NoEntry \notin Entry /\ NoCall \notin Call
  /\ Never \notin Nat /\ TooLong \notin Nat \cup {Never}
  /\ \A l \in Lifetime : l \in Nat \cup {Never, TooLong}
  BY TokensAssumption DEF Expiry

TokensType ==
  /\ policy \in Policy
  /\ now \in 0..MaxNow
  /\ entry \in Entry \cup {NoEntry}
  /\ lock \in Call \cup {NoCall}
  /\ get \in [Call -> Get]
  /\ issued \in 0..MaxIssued
  /\ valid \subseteq Token
  /\ lost \in BOOLEAN

AnswerHeld == \A c \in Call : get[c].at = "answered" => get[c].answer \in Answer

Others(c) == \A d \in Call \ {c} : get'[d] = get[d]

LEMMA GetMoves ==
  ASSUME get \in [Call -> Get], NEW c \in Call, NEW g \in Get, get' = [get EXCEPT ![c] = g]
  PROVE  get' \in [Call -> Get] /\ get'[c] = g /\ Others(c)
  BY DEF Others

LEMMA ReturnsType ==
  ASSUME get \in [Call -> Get], NEW c \in Call, NEW token \in Token \cup {NoToken},
         Returns(c, token)
  PROVE  /\ get' \in [Call -> Get] /\ Others(c)
         /\ get'[c].at = "returned" /\ get'[c].token = token
<1> DEFINE g == [IdleGet EXCEPT !.at = "returned", !.token = token]
<1>0. 0 \in 0..MaxNow
  BY TokenConstants
<1>1. g \in Get /\ g.at = "returned" /\ g.token = token
  BY <1>0 DEF IdleGet, Get
<1>2. get' = [get EXCEPT ![c] = g]
  BY DEF Returns
<1> HIDE DEF g
<1> QED
  BY <1>1, <1>2 DEF Others

LEMMA GoesType ==
  ASSUME get \in [Call -> Get], NEW c \in Call,
         NEW step \in {"lock", "again", "exchange"}, Goes(c, step)
  PROVE  /\ get' \in [Call -> Get] /\ Others(c)
         /\ get'[c].at = step /\ get'[c].forced = get[c].forced
         /\ get'[c].token = get[c].token /\ get'[c].since = get[c].since
  BY DEF Goes, Get, Others

LEMMA TakeType ==
  ASSUME get \in [Call -> Get], now \in 0..MaxNow, NEW c \in Call, TakeLock(c)
  PROVE  /\ get' \in [Call -> Get] /\ Others(c)
         /\ get[c].at = "lock" /\ get'[c].at = Taken(c)
         /\ Taken(c) = IF get[c].forced THEN "exchange" ELSE "again"
         /\ get'[c].forced = get[c].forced /\ get'[c].token = get[c].token
         /\ get'[c].since = now
<1> DEFINE step == Taken(c)
           g == [get[c] EXCEPT !.at = step, !.since = now]
<1>1. step \in {"exchange", "again"} /\ Taken(c) = IF get[c].forced THEN "exchange" ELSE "again"
  BY DEF Taken
<1>2. get' = [get EXCEPT ![c] = g] /\ get[c].at = "lock"
  BY DEF TakeLock
<1> HIDE DEF step
<1>3. /\ g \in Get /\ g.at = step /\ g.since = now
      /\ g.forced = get[c].forced /\ g.token = get[c].token
  BY <1>1 DEF Get
<1> HIDE DEF g
<1> QED
  BY <1>1, <1>2, <1>3 DEF Others, step

LEMMA FreshType ==
  ASSUME entry \in Entry \cup {NoEntry}, NEW time, FreshAt(time)
  PROVE  entry \in Entry /\ entry.access \in Token
  BY DEF FreshAt, Entry

LEMMA AskType ==
  ASSUME get \in [Call -> Get], now \in 0..MaxNow,
         NEW c \in Call, NEW forced \in BOOLEAN, Ask(c, forced)
  PROVE  /\ get' \in [Call -> Get] /\ Others(c)
         /\ \/ get'[c].at = "returned" /\ get'[c].token = NoToken
            \/ /\ get'[c].at = IF forced THEN "lock" ELSE "read"
               /\ get'[c].forced = forced /\ get'[c].token = NoToken
               /\ get'[c].since = now
<1>1. CASE Unresolved(c)
  BY <1>1, ReturnsType DEF Unresolved
<1>2. CASE get' = [get EXCEPT ![c] = [IdleGet EXCEPT !.at = IF forced THEN "lock" ELSE "read",
                                                   !.forced = forced, !.since = now]]
  <2> DEFINE g == [IdleGet EXCEPT !.at = IF forced THEN "lock" ELSE "read",
                                  !.forced = forced, !.since = now]
  <2>1. /\ g \in Get /\ g.at = (IF forced THEN "lock" ELSE "read")
        /\ g.forced = forced /\ g.token = NoToken /\ g.since = now
    BY DEF IdleGet, Get
  <2>2. get' = [get EXCEPT ![c] = g]
    BY <1>2
  <2> HIDE DEF g
  <2> QED
    BY <2>1, <2>2 DEF Others
<1> QED
  BY <1>1, <1>2 DEF Ask

LEMMA IdleGetType ==
  /\ IdleGet \in Get
  /\ IdleGet.at = "idle" /\ IdleGet.since = 0 /\ IdleGet.token = NoToken
<1>1. 0 \in 0..MaxNow
  BY TokenConstants
<1> QED
  BY <1>1 DEF IdleGet, Get

LEMMA RefreshTokenType ==
  ASSUME TokensType
  PROVE  RefreshToken \in Token \cup {NoToken}
  BY TokenConstants DEF TokensType, RefreshToken, BootstrapToken, Entry, Token

LEMMA TokensTypeStep ==
  ASSUME TokensType, AnswerHeld, TokenOp
  PROVE  TokensType' /\ AnswerHeld'
<1> USE TokenConstants
<1>0. /\ get \in [Call -> Get]
      /\ lock \in Call \cup {NoCall}
      /\ entry \in Entry \cup {NoEntry}
      /\ now \in 0..MaxNow
  BY DEF TokensType
<1>1. CASE Tick
  BY <1>1 DEF Tick, TokensType, AnswerHeld, Others
<1>2. ASSUME NEW c \in Call, NEW forced \in BOOLEAN, Ask(c, forced)
      PROVE  TokensType' /\ AnswerHeld'
  <2>1. get' \in [Call -> Get]
    BY <1>0, <1>2, AskType
  <2>2. get'[c].at # "answered" /\ Others(c)
    BY <1>0, <1>2, AskType
  <2> QED
    BY <1>2, <2>1, <2>2 DEF Ask, TokensType, AnswerHeld, Others
<1>3. ASSUME NEW c \in Call, ReadCache(c)
      PROVE  TokensType' /\ AnswerHeld'
  <2>1. FreshAt(get[c].since) => entry.access \in Token
    BY <1>0, FreshType
  <2>2. get' \in [Call -> Get]
    BY <1>0, <1>3, <2>1, ReturnsType, GoesType DEF ReadCache
  <2>3. get'[c].at # "answered" /\ Others(c)
    BY <1>0, <1>3, <2>1, ReturnsType, GoesType DEF ReadCache
  <2> QED
    BY <1>3, <2>2, <2>3 DEF ReadCache, TokensType, AnswerHeld, Others
<1>4. ASSUME NEW c \in Call, TakeLock(c)
      PROVE  TokensType' /\ AnswerHeld'
  <2>1. get' \in [Call -> Get]
    BY <1>0, <1>4, TakeType
  <2>2. get'[c].at # "answered" /\ Others(c)
    BY <1>0, <1>4, TakeType
  <2> QED
    BY <1>4, <2>1, <2>2 DEF TakeLock, TokensType, AnswerHeld, Others
<1>5. ASSUME NEW c \in Call, ReadAgain(c)
      PROVE  TokensType' /\ AnswerHeld'
  <2>1. FreshAt(get[c].since) => entry.access \in Token
    BY <1>0, FreshType
  <2>2. get' \in [Call -> Get]
    BY <1>0, <1>5, <2>1, ReturnsType, GoesType DEF ReadAgain
  <2>3. get'[c].at # "answered" /\ Others(c)
    BY <1>0, <1>5, <2>1, ReturnsType, GoesType DEF ReadAgain
  <2>4. lock' \in Call \cup {NoCall}
    BY <1>0, <1>5 DEF ReadAgain, Released
  <2> QED
    BY <1>5, <2>2, <2>3, <2>4 DEF ReadAgain, TokensType, AnswerHeld, Others
<1>6. ASSUME NEW c \in Call, SendExchange(c)
      PROVE  TokensType' /\ AnswerHeld'
  <2>1. get' \in [Call -> Get]
    <3> DEFINE sent == IF policy.grant = "refresh_token" THEN RefreshToken ELSE NoToken
    <3>1. sent \in Token \cup {NoToken}
      BY RefreshTokenType
    <3> DEFINE g == [get[c] EXCEPT !.at = "sent", !.sent = sent]
    <3>2. get' = [get EXCEPT ![c] = g]
      BY <1>6 DEF SendExchange
    <3> HIDE DEF sent
    <3>3. g \in Get
      BY <1>0, <3>1 DEF Get
    <3> HIDE DEF g
    <3> QED
      BY <1>0, <3>2, <3>3, GetMoves
  <2>2. get'[c].at # "answered" /\ Others(c)
    BY <1>0, <1>6 DEF SendExchange, Others
  <2> QED
    BY <1>6, <2>1, <2>2 DEF SendExchange, TokensType, AnswerHeld, Others
<1>7. ASSUME NEW c \in Call, EndpointIssues(c)
      PROVE  TokensType' /\ AnswerHeld'
  <2>1. PICK refresh \in {issued + 1, NoToken}, lifetime \in Lifetime :
          /\ get' = [get EXCEPT ![c].at = "answered",
                       ![c].answer = [access |-> issued + 1, refresh |-> refresh,
                                      lifetime |-> lifetime]]
          /\ valid' = IF refresh = NoToken THEN valid
                      ELSE (valid \ {get[c].sent}) \cup {refresh}
    BY <1>7 DEF EndpointIssues
  <2>2. issued + 1 \in Token /\ issued' = issued + 1
    BY <1>7 DEF EndpointIssues, TokensType, Token
  <2> DEFINE answer == [access |-> issued + 1, refresh |-> refresh, lifetime |-> lifetime]
  <2>3. answer \in Answer
    BY <2>2 DEF Answer
  <2>4. get' \in [Call -> Get] /\ get'[c].answer = answer /\ Others(c)
    <3> HIDE DEF answer
    <3> DEFINE g == [get[c] EXCEPT !.at = "answered", !.answer = answer]
    <3>1. get' = [get EXCEPT ![c] = g]
      BY <2>1 DEF answer
    <3>2. g \in Get /\ g.answer = answer
      BY <1>0, <2>3 DEF Get
    <3> HIDE DEF g
    <3> QED
      BY <1>0, <3>1, <3>2, GetMoves
  <2>5. valid' \subseteq Token
    BY <2>1, <2>2 DEF TokensType
  <2> QED
    BY <1>7, <2>2, <2>3, <2>4, <2>5 DEF EndpointIssues, TokensType, AnswerHeld, Token
<1>8. ASSUME NEW c \in Call, EndpointFails(c)
      PROVE  TokensType' /\ AnswerHeld'
  <2>1. get' \in [Call -> Get]
    BY <1>0, <1>8, ReturnsType DEF EndpointFails, Fails
  <2>2. get'[c].at # "answered" /\ Others(c)
    BY <1>0, <1>8, ReturnsType DEF EndpointFails, Fails
  <2>3. lock' \in Call \cup {NoCall}
    BY <1>0, <1>8 DEF EndpointFails, Fails, Released
  <2> QED
    BY <1>8, <2>1, <2>2, <2>3 DEF EndpointFails, TokensType, AnswerHeld, Others
<1>9. ASSUME NEW c \in Call, StoreToken(c)
      PROVE  TokensType' /\ AnswerHeld'
  <2> DEFINE answer == get[c].answer
  <2>1. answer \in Answer
    BY <1>9 DEF StoreToken, AnswerHeld
  <2>2. NextRefresh(answer) \in Token \cup {NoToken} /\ answer.access \in Token
    BY <2>1, RefreshTokenType DEF Answer, NextRefresh
  <2>3. answer.lifetime # TooLong => ExpiryOf(answer) \in Expiry
    <3>1. answer.lifetime \in Nat \cup {Never, TooLong} /\ now \in Nat
      BY <2>1 DEF Answer, TokensType
    <3> QED
      BY <3>1 DEF ExpiryOf, Expiry
  <2>4. entry' \in Entry \cup {NoEntry}
    BY <1>0, <1>9, <2>2, <2>3 DEF StoreToken, Entry
  <2>5. get' \in [Call -> Get]
    BY <1>0, <1>9, <2>2, ReturnsType DEF StoreToken, Fails
  <2>6. get'[c].at # "answered" /\ Others(c)
    BY <1>0, <1>9, <2>2, ReturnsType DEF StoreToken, Fails
  <2>7. lock' \in Call \cup {NoCall} /\ lost' \in BOOLEAN
    BY <1>0, <1>9 DEF StoreToken, Fails, Released, TokensType
  <2> QED
    BY <1>9, <2>4, <2>5, <2>6, <2>7 DEF StoreToken, TokensType, AnswerHeld, Others
<1>10. ASSUME NEW c \in Call, Take(c) \/ Abandon(c)
       PROVE  TokensType' /\ AnswerHeld'
  <2>1. get' \in [Call -> Get]
    BY <1>0, <1>10, IdleGetType DEF Take, Abandon
  <2>2. get'[c].at # "answered" /\ Others(c)
    BY <1>0, <1>10, IdleGetType DEF Take, Abandon, Others
  <2>3. lock' \in Call \cup {NoCall} /\ lost' \in BOOLEAN
    BY <1>0, <1>10 DEF Take, Abandon, Released, TokensType
  <2> QED
    BY <1>10, <2>1, <2>2, <2>3 DEF Take, Abandon, TokensType, AnswerHeld, Others
<1>11. CASE UNCHANGED tokenVars
  BY <1>11 DEF tokenVars, TokensType, AnswerHeld, Others
<1> QED
  BY <1>1, <1>2, <1>3, <1>4, <1>5, <1>6, <1>7, <1>8, <1>9, <1>10, <1>11
  DEF TokenOp, GetStep

(* A caller compares the expiry with a time that has passed: what was      *)
(* stale then is stale now.                                                *)
LooksBehind == \A c \in Call : get[c].since <= now

LEMMA StaleStays ==
  ASSUME entry \in Entry \cup {NoEntry}, now \in Nat, NEW time \in Nat, time <= now,
         FreshAt(now)
  PROVE  FreshAt(time)
<1>1. entry \in Entry
  BY DEF FreshAt
<1>2. entry.expires \in Nat \/ entry.expires = Never
  BY <1>1 DEF Entry, Expiry
<1>3. entry.expires # Never => time + Skew < entry.expires
  BY <1>2, TokenConstants DEF FreshAt
<1> QED
  BY <1>3 DEF FreshAt

LEMMA LooksBehindStep ==
  ASSUME TokensType, LooksBehind, TokenOp
  PROVE  LooksBehind'
<1>0. /\ get \in [Call -> Get] /\ now \in 0..MaxNow /\ now \in Nat
      /\ \A c \in Call : get[c].since \in Nat
      /\ IdleGet.since = 0
  BY TokenConstants DEF TokensType, Get, IdleGet
<1>1. CASE Tick \/ UNCHANGED tokenVars
  <2>1. get' = get /\ (now' = now \/ now' = now + 1)
    BY <1>1 DEF Tick, tokenVars
  <2> QED
    BY <1>0, <2>1 DEF LooksBehind
<1>2. ASSUME NEW c \in Call, Others(c), now' = now, get'[c].since \in {0, now, get[c].since}
      PROVE  LooksBehind'
  BY <1>0, <1>2 DEF LooksBehind, Others
<1>3. ASSUME NEW c \in Call, NEW token, Returns(c, token)
      PROVE  Others(c) /\ get'[c].since = 0
  BY <1>0, <1>3 DEF Returns, IdleGet, Others
<1>4. ASSUME NEW c \in Call, NEW forced \in BOOLEAN, Ask(c, forced)
      PROVE  LooksBehind'
  <2>1. CASE Unresolved(c)
    BY <1>2, <1>3, <1>4, <2>1 DEF Ask, Unresolved
  <2>2. CASE ~Unresolved(c)
    BY <1>0, <1>2, <1>4, <2>2 DEF Ask, IdleGet, Others
  <2> QED
    BY <2>1, <2>2
<1>5. ASSUME NEW c \in Call, GetStep(c)
      PROVE  LooksBehind'
  <2>1. now' = now
    BY <1>5 DEF GetStep, ReadCache, TakeLock, ReadAgain, SendExchange, EndpointIssues,
                EndpointFails, StoreToken
  <2>2. CASE \E token : Returns(c, token)
    BY <1>2, <1>3, <2>1, <2>2
  <2>3. CASE \E step \in {"lock", "exchange"} : Goes(c, step)
    BY <1>0, <1>2, <2>1, <2>3, GoesType
  <2>4. CASE TakeLock(c)
    BY <1>0, <1>2, <2>1, <2>4, TakeType
  <2>5. CASE SendExchange(c) \/ EndpointIssues(c)
    <3>1. Others(c) /\ get'[c].since = get[c].since
      BY <1>0, <2>5 DEF SendExchange, EndpointIssues, Get, Others
    <3> QED
      BY <1>2, <2>1, <3>1
  <2> QED
    BY <1>5, <2>2, <2>3, <2>4, <2>5
    DEF GetStep, ReadCache, ReadAgain, EndpointFails, StoreToken, Fails
<1>6. ASSUME NEW c \in Call, Take(c) \/ Abandon(c)
      PROVE  LooksBehind'
  BY <1>0, <1>2, <1>6 DEF Take, Abandon, Others
<1> QED
  BY <1>1, <1>4, <1>5, <1>6 DEF TokenOp

-----------------------------------------------------------------------------
(* Calls.  One that is not waiting for a token has no request open with    *)
(* the token manager.                                                      *)
CallType ==
  /\ made \in [Call -> Made]
  /\ tool \in [Call -> Tool]
  /\ cancelled \subseteq Cancellable

IdleUnlessWaiting ==
  \A c \in Call : tool[c].at \notin {"token", "refresh"} => get[c].at = "idle"

LEMMA ToolMoves ==
  ASSUME tool \in [Call -> Tool], NEW c \in Call, NEW t \in Tool, tool' = [tool EXCEPT ![c] = t]
  PROVE  tool' \in [Call -> Tool] /\ tool'[c] = t /\ \A d \in Call \ {c} : tool'[d] = tool[d]
  OBVIOUS

LEMMA EndsType ==
  ASSUME tool \in [Call -> Tool], NEW c \in Call, Ends(c)
  PROVE  /\ tool' \in [Call -> Tool]
         /\ tool'[c].at = "ended" /\ tool'[c].requests = 0 /\ tool'[c].refused = {}
         /\ \A d \in Call \ {c} : tool'[d] = tool[d]
<1> DEFINE t == [IdleTool EXCEPT !.at = "ended"]
<1>1. t \in Tool /\ t.at = "ended" /\ t.requests = 0 /\ t.refused = {}
  BY CallsAssumption DEF IdleTool, Tool
<1>2. tool' = [tool EXCEPT ![c] = t]
  BY DEF Ends
<1> HIDE DEF t
<1> QED
  BY <1>1, <1>2

LEMMA RoundBeginsType ==
  ASSUME tool \in [Call -> Tool], NEW c \in Call, NEW round \in {1, 2},
         NEW token \in Token \cup {NoToken}, RoundBegins(c, round, token)
  PROVE  /\ tool' \in [Call -> Tool]
         /\ tool'[c].at = "attempt" /\ tool'[c].round = round /\ tool'[c].attempt = 1
         /\ tool'[c].bearer = Carried(c, token)
         /\ tool'[c].requests = tool[c].requests /\ tool'[c].refused = tool[c].refused
         /\ \A d \in Call \ {c} : tool'[d] = tool[d]
<1> DEFINE b == Carried(c, token)
           t == [tool[c] EXCEPT !.at = "attempt", !.round = round, !.attempt = 1, !.bearer = b]
<1>1. b \in Token \cup {NoToken}
  BY DEF Carried
<1>2. 1 \in 1..MaxAttempts
  BY CallsAssumption
<1>3. tool' = [tool EXCEPT ![c] = t]
  BY DEF RoundBegins
<1> HIDE DEF b
<1>4. /\ t \in Tool /\ t.at = "attempt" /\ t.round = round /\ t.attempt = 1 /\ t.bearer = b
      /\ t.requests = tool[c].requests /\ t.refused = tool[c].refused
  BY <1>1, <1>2 DEF Tool
<1> HIDE DEF t
<1>5. tool' \in [Call -> Tool] /\ tool'[c] = t /\ \A d \in Call \ {c} : tool'[d] = tool[d]
  BY <1>3, <1>4, ToolMoves
<1> QED
  BY <1>4, <1>5 DEF b

LEMMA StartType ==
  ASSUME tool \in [Call -> Tool], NEW c \in Call, Start(c)
  PROVE  /\ tool' \in [Call -> Tool]
         /\ \A d \in Call \ {c} : tool'[d] = tool[d]
         /\ tool[c].at = "idle"
         /\ tool'[c].requests = tool[c].requests /\ tool'[c].refused = tool[c].refused
         /\ \/ /\ tool'[c].at = "token" /\ tool'[c].round = tool[c].round
               /\ tool'[c].attempt = tool[c].attempt /\ tool'[c].bearer = tool[c].bearer
               /\ \E forced \in BOOLEAN : Ask(c, forced)
            \/ /\ tool'[c].at = "attempt" /\ tool'[c].round = 1 /\ tool'[c].attempt = 1
               /\ tool'[c].bearer = NoToken /\ made[c].auth = "other"
               /\ UNCHANGED tokenVars
<1>1. ASSUME NEW forced \in BOOLEAN, Asks(c, forced)
      PROVE  /\ tool' \in [Call -> Tool] /\ Ask(c, forced)
             /\ \A d \in Call \ {c} : tool'[d] = tool[d]
             /\ tool'[c].at = "token" /\ tool'[c].round = tool[c].round
             /\ tool'[c].attempt = tool[c].attempt /\ tool'[c].bearer = tool[c].bearer
             /\ tool'[c].requests = tool[c].requests /\ tool'[c].refused = tool[c].refused
  BY <1>1 DEF Asks, Tool
<1>2. ASSUME SendsAtOnce(c)
      PROVE  /\ tool' \in [Call -> Tool] /\ UNCHANGED tokenVars
             /\ \A d \in Call \ {c} : tool'[d] = tool[d]
             /\ tool'[c].at = "attempt" /\ tool'[c].round = 1 /\ tool'[c].attempt = 1
             /\ tool'[c].bearer = NoToken /\ made[c].auth = "other"
             /\ tool'[c].requests = tool[c].requests /\ tool'[c].refused = tool[c].refused
  BY <1>2, RoundBeginsType DEF SendsAtOnce, Carried
<1> QED
  BY <1>1, <1>2 DEF Start, ToolStarts, SendStarts, HelperStarts

LEMMA SentType ==
  ASSUME tool \in [Call -> Tool], NEW c \in Call, Attempt(c)
  PROVE  /\ tool' \in [Call -> Tool]
         /\ \A d \in Call \ {c} : tool'[d] = tool[d]
         /\ tool[c].at = "attempt"
         /\ \/ /\ tool'[c].at = "sent" /\ tool'[c].requests = tool[c].requests + 1
               /\ tool'[c].round = tool[c].round /\ tool'[c].attempt = tool[c].attempt
               /\ tool'[c].refused = tool[c].refused /\ tool'[c].bearer = tool[c].bearer
               /\ ~StopsBeforeSending(c)
            \/ Ends(c)
<1>1. ASSUME tool' = [tool EXCEPT ![c].at = "sent", ![c].requests = @ + 1]
      PROVE  /\ tool' \in [Call -> Tool]
             /\ \A d \in Call \ {c} : tool'[d] = tool[d]
             /\ tool'[c].at = "sent" /\ tool'[c].requests = tool[c].requests + 1
             /\ tool'[c].round = tool[c].round /\ tool'[c].attempt = tool[c].attempt
             /\ tool'[c].refused = tool[c].refused /\ tool'[c].bearer = tool[c].bearer
  BY <1>1 DEF Tool
<1> QED
  BY <1>1, EndsType DEF Attempt

LEMMA AnsweredType ==
  ASSUME tool \in [Call -> Tool], NEW c \in Call, NEW o \in Outcome, UpstreamAnswers(c, o)
  PROVE  /\ tool' \in [Call -> Tool]
         /\ \A d \in Call \ {c} : tool'[d] = tool[d]
         /\ tool[c].at = "sent"
         /\ \/ /\ Retries(c, o) /\ tool'[c].at = "sleep"
               /\ tool'[c].attempt = tool[c].attempt + 1
               /\ tool'[c].round = tool[c].round /\ tool'[c].requests = tool[c].requests
               /\ tool'[c].refused = Refused(c, o) /\ tool'[c].bearer = tool[c].bearer
               /\ UNCHANGED tokenVars
            \/ /\ Refreshes(c, o) /\ tool'[c].at = "refresh"
               /\ tool'[c].attempt = tool[c].attempt
               /\ tool'[c].round = tool[c].round /\ tool'[c].requests = tool[c].requests
               /\ tool'[c].refused = Refused(c, o) /\ tool'[c].bearer = tool[c].bearer
               /\ AskForced(c)
            \/ Ends(c) /\ UNCHANGED tokenVars
<1>0. Refused(c, o) \in SUBSET (Token \cup {NoToken})
  BY DEF Refused, Tool
<1>1. ASSUME Retries(c, o),
             tool' = [tool EXCEPT ![c].at = "sleep", ![c].attempt = @ + 1,
                                  ![c].refused = Refused(c, o)]
      PROVE  /\ tool' \in [Call -> Tool]
             /\ \A d \in Call \ {c} : tool'[d] = tool[d]
             /\ tool'[c].at = "sleep" /\ tool'[c].attempt = tool[c].attempt + 1
             /\ tool'[c].round = tool[c].round /\ tool'[c].requests = tool[c].requests
             /\ tool'[c].refused = Refused(c, o) /\ tool'[c].bearer = tool[c].bearer
  <2> DEFINE r == Refused(c, o)
  <2>1. tool' = [tool EXCEPT ![c].at = "sleep", ![c].attempt = @ + 1, ![c].refused = r]
    BY <1>1
  <2>2. tool[c].attempt + 1 \in 1..MaxAttempts
    <3>1. tool[c].attempt \in 1..MaxAttempts /\ tool[c].attempt < MaxAttempts
      BY <1>1 DEF Retries, Tool
    <3> QED
      BY <3>1, CallsAssumption
  <2>3. r \in SUBSET (Token \cup {NoToken})
    BY <1>0
  <2> HIDE DEF r
  <2> DEFINE n == tool[c].attempt + 1
             t == [tool[c] EXCEPT !.at = "sleep", !.attempt = n, !.refused = r]
  <2>4. tool' = [tool EXCEPT ![c] = t]
    BY <2>1
  <2>5. n \in 1..MaxAttempts /\ tool[c] \in Tool
    BY <2>2
  <2>6. n = tool[c].attempt + 1
    OBVIOUS
  <2> HIDE DEF n
  <2>7. /\ t \in Tool /\ t.at = "sleep" /\ t.attempt = n /\ t.refused = r
        /\ t.round = tool[c].round /\ t.requests = tool[c].requests
        /\ t.bearer = tool[c].bearer
    BY <2>3, <2>5 DEF Tool
  <2> HIDE DEF t
  <2>8. tool' \in [Call -> Tool] /\ tool'[c] = t /\ \A d \in Call \ {c} : tool'[d] = tool[d]
    BY <2>4, <2>7, ToolMoves
  <2> QED
    BY <2>6, <2>7, <2>8 DEF r
<1>2. ASSUME tool' = [tool EXCEPT ![c].at = "refresh", ![c].refused = Refused(c, o)]
      PROVE  /\ tool' \in [Call -> Tool]
             /\ \A d \in Call \ {c} : tool'[d] = tool[d]
             /\ tool'[c].at = "refresh" /\ tool'[c].attempt = tool[c].attempt
             /\ tool'[c].round = tool[c].round /\ tool'[c].requests = tool[c].requests
             /\ tool'[c].refused = Refused(c, o) /\ tool'[c].bearer = tool[c].bearer
  <2> DEFINE r == Refused(c, o)
  <2>1. tool' = [tool EXCEPT ![c].at = "refresh", ![c].refused = r]
    BY <1>2
  <2>2. r \in SUBSET (Token \cup {NoToken})
    BY <1>0
  <2> HIDE DEF r
  <2> DEFINE t == [tool[c] EXCEPT !.at = "refresh", !.refused = r]
  <2>3. tool' = [tool EXCEPT ![c] = t]
    BY <2>1
  <2>4. tool[c] \in Tool
    OBVIOUS
  <2>5. /\ t \in Tool /\ t.at = "refresh" /\ t.refused = r
        /\ t.attempt = tool[c].attempt /\ t.round = tool[c].round
        /\ t.requests = tool[c].requests /\ t.bearer = tool[c].bearer
    BY <2>2, <2>4 DEF Tool
  <2> HIDE DEF t
  <2>6. tool' \in [Call -> Tool] /\ tool'[c] = t /\ \A d \in Call \ {c} : tool'[d] = tool[d]
    BY <2>3, <2>5, ToolMoves
  <2> QED
    BY <2>5, <2>6 DEF r
<1>3. ASSUME Ends(c)
      PROVE  tool' \in [Call -> Tool] /\ \A d \in Call \ {c} : tool'[d] = tool[d]
  BY <1>3, EndsType
<1> QED
  BY <1>1, <1>2, <1>3 DEF UpstreamAnswers

LEMMA ReturnedType ==
  ASSUME tool \in [Call -> Tool], get \in [Call -> Get], NEW c \in Call, TokenReturned(c)
  PROVE  /\ tool' \in [Call -> Tool]
         /\ \A d \in Call \ {c} : tool'[d] = tool[d]
         /\ tool[c].at \in {"token", "refresh"} /\ get[c].at = "returned" /\ Take(c)
         /\ \/ /\ get[c].token # NoToken
               /\ tool'[c].at = "attempt" /\ tool'[c].attempt = 1
               /\ tool'[c].round = IF tool[c].at = "token" THEN 1 ELSE 2
               /\ tool'[c].bearer = Carried(c, get[c].token)
               /\ tool'[c].requests = tool[c].requests /\ tool'[c].refused = tool[c].refused
            \/ Ends(c)
<1> DEFINE round == IF tool[c].at = "token" THEN 1 ELSE 2
<1>1. get[c].token \in Token \cup {NoToken}
  BY DEF Get
<1>2. round \in {1, 2}
  OBVIOUS
<1>3. ASSUME RoundBegins(c, round, get[c].token)
      PROVE  /\ tool' \in [Call -> Tool]
             /\ \A d \in Call \ {c} : tool'[d] = tool[d]
             /\ tool'[c].at = "attempt" /\ tool'[c].attempt = 1 /\ tool'[c].round = round
             /\ tool'[c].bearer = Carried(c, get[c].token)
             /\ tool'[c].requests = tool[c].requests /\ tool'[c].refused = tool[c].refused
  <2> HIDE DEF round
  <2> QED
    BY <1>1, <1>2, <1>3, RoundBeginsType
<1>4. ASSUME Ends(c)
      PROVE  tool' \in [Call -> Tool] /\ \A d \in Call \ {c} : tool'[d] = tool[d]
  BY <1>4, EndsType
<1> QED
  BY <1>3, <1>4 DEF TokenReturned

LEMMA SleepEndsType ==
  ASSUME tool \in [Call -> Tool], NEW c \in Call, SleepEnds(c)
  PROVE  /\ tool' \in [Call -> Tool]
         /\ \A d \in Call \ {c} : tool'[d] = tool[d]
         /\ tool[c].at = "sleep" /\ tool'[c].at = "attempt"
         /\ tool'[c].attempt = tool[c].attempt /\ tool'[c].round = tool[c].round
         /\ tool'[c].requests = tool[c].requests /\ tool'[c].refused = tool[c].refused
         /\ tool'[c].bearer = tool[c].bearer
         /\ UNCHANGED tokenVars
  BY DEF SleepEnds, Tool

(* A step of a call is one operation of the token manager at most.         *)
LEMMA CallStep ==
  ASSUME TypeOK, IdleUnlessWaiting, [Next]_vars
  PROVE  CallType' /\ IdleUnlessWaiting' /\ TokenOp
<1>0. /\ tool \in [Call -> Tool] /\ get \in [Call -> Get] /\ now \in 0..MaxNow
      /\ made \in [Call -> Made] /\ cancelled \subseteq Cancellable
  BY DEF TypeOK
<1>1. CASE TickStep
  BY <1>0, <1>1 DEF TickStep, Tick, TokenOp, CallType, IdleUnlessWaiting
<1>2. ASSUME NEW c \in Call, Start(c)
      PROVE  CallType' /\ IdleUnlessWaiting' /\ TokenOp
  <2>1. get[c].at = "idle" /\ UNCHANGED <<made, cancelled>>
    BY <1>2 DEF Start, IdleUnlessWaiting
  <2>2. Others(c) \/ UNCHANGED tokenVars
    BY <1>0, <1>2, StartType, AskType
  <2> QED
    BY <1>0, <1>2, <2>1, <2>2, StartType
    DEF TokenOp, CallType, IdleUnlessWaiting, Others, tokenVars
<1>3. ASSUME NEW c \in Call, TokenStep(c)
      PROVE  CallType' /\ IdleUnlessWaiting' /\ TokenOp
  <2>1. get[c].at # "idle" /\ Others(c)
    BY <1>0, <1>3
    DEF TokenStep, GetStep, ReadCache, TakeLock, ReadAgain, SendExchange, EndpointIssues,
        EndpointFails, StoreToken, Goes, Returns, Fails, Others
  <2> QED
    BY <1>0, <1>3, <2>1 DEF TokenStep, TokenOp, CallType, IdleUnlessWaiting, Others
<1>4. ASSUME NEW c \in Call, TokenReturned(c)
      PROVE  CallType' /\ IdleUnlessWaiting' /\ TokenOp
  <2>1. get'[c].at = "idle" /\ Others(c) /\ UNCHANGED <<made, cancelled>>
    BY <1>0, <1>4, IdleGetType DEF TokenReturned, Take, Others
  <2> QED
    BY <1>0, <1>4, <2>1, ReturnedType DEF TokenOp, CallType, IdleUnlessWaiting, Others
<1>5. ASSUME NEW c \in Call, Attempt(c)
      PROVE  CallType' /\ IdleUnlessWaiting' /\ TokenOp
  <2>1. UNCHANGED <<tokenVars, made, cancelled>>
    BY <1>5 DEF Attempt
  <2> QED
    BY <1>0, <1>5, <2>1, SentType DEF TokenOp, CallType, IdleUnlessWaiting, tokenVars
<1>6. ASSUME NEW c \in Call, NEW o \in Outcome, UpstreamAnswers(c, o)
      PROVE  CallType' /\ IdleUnlessWaiting' /\ TokenOp
  <2>1. get[c].at = "idle" /\ UNCHANGED <<made, cancelled>>
    BY <1>6 DEF UpstreamAnswers, IdleUnlessWaiting
  <2>2. AskForced(c) => Others(c)
    BY <1>0, AskType DEF AskForced
  <2>3. Ends(c) => tool'[c].at = "ended"
    BY <1>0, EndsType
  <2>4. /\ tool' \in [Call -> Tool] /\ \A d \in Call \ {c} : tool'[d] = tool[d]
        /\ \/ tool'[c].at = "sleep" /\ UNCHANGED tokenVars
           \/ tool'[c].at = "refresh" /\ AskForced(c)
           \/ Ends(c) /\ UNCHANGED tokenVars
    BY <1>0, <1>6, AnsweredType
  <2>5. CallType'
    BY <1>0, <2>1, <2>4 DEF CallType
  <2>6. CASE UNCHANGED tokenVars
    <3>1. get' = get
      BY <2>6 DEF tokenVars
    <3> QED
      BY <2>1, <2>4, <2>5, <2>6, <3>1 DEF TokenOp, IdleUnlessWaiting
  <2>7. CASE tool'[c].at = "refresh" /\ AskForced(c)
    <3>1. IdleUnlessWaiting'
      BY <2>2, <2>4, <2>7 DEF IdleUnlessWaiting, Others
    <3>2. TokenOp
      BY <2>1, <2>7 DEF TokenOp, AskForced
    <3> QED
      BY <2>5, <3>1, <3>2
  <2> QED
    BY <2>4, <2>6, <2>7
<1>7. ASSUME NEW c \in Call, SleepEnds(c)
      PROVE  CallType' /\ IdleUnlessWaiting' /\ TokenOp
  <2>1. UNCHANGED <<tokenVars, made, cancelled>>
    BY <1>7 DEF SleepEnds
  <2> QED
    BY <1>0, <1>7, <2>1, SleepEndsType DEF TokenOp, CallType, IdleUnlessWaiting, tokenVars
<1>8. ASSUME NEW c \in Call, CancelSeen(c)
      PROVE  CallType' /\ IdleUnlessWaiting' /\ TokenOp
  <2>1. Ends(c) /\ UNCHANGED <<tokenVars, made, cancelled>> /\ get[c].at = "idle"
    BY <1>8 DEF CancelSeen, IdleUnlessWaiting
  <2> QED
    BY <1>0, <2>1, EndsType DEF TokenOp, CallType, IdleUnlessWaiting, tokenVars
<1>9. ASSUME NEW c \in Call, Cancel(c)
      PROVE  CallType' /\ IdleUnlessWaiting' /\ TokenOp
  BY <1>0, <1>9 DEF Cancel, TokenOp, CallType, IdleUnlessWaiting, tokenVars
<1>10. ASSUME NEW c \in Call, AbandonCall(c)
       PROVE  CallType' /\ IdleUnlessWaiting' /\ TokenOp
  <2>1. get'[c].at = "idle" /\ Others(c) /\ Ends(c) /\ UNCHANGED <<made, cancelled>>
        /\ Abandon(c)
    BY <1>0, <1>10, IdleGetType DEF AbandonCall, Abandon, Others
  <2> QED
    BY <1>0, <2>1, EndsType DEF TokenOp, CallType, IdleUnlessWaiting, Others
<1>11. CASE UNCHANGED vars
  BY <1>0, <1>11 DEF vars, tokenVars, TokenOp, CallType, IdleUnlessWaiting
<1> QED
  BY <1>1, <1>2, <1>3, <1>4, <1>5, <1>6, <1>7, <1>8, <1>9, <1>10, <1>11 DEF Next

CallInv == TypeOK /\ AnswerHeld /\ LooksBehind /\ IdleUnlessWaiting

LEMMA IdleToolType ==
  /\ IdleTool \in Tool
  /\ IdleTool.at = "idle" /\ IdleTool.round = 1 /\ IdleTool.attempt = 1
  /\ IdleTool.requests = 0 /\ IdleTool.refused = {} /\ IdleTool.bearer = NoToken
<1>1. 1 \in 1..MaxAttempts
  BY CallsAssumption
<1> QED
  BY <1>1 DEF IdleTool, Tool

LEMMA CallInvInit == Init => CallInv
<1> SUFFICES ASSUME Init PROVE CallInv
  OBVIOUS
<1>1. /\ get \in [Call -> Get] /\ tool \in [Call -> Tool]
      /\ \A c \in Call : get[c].at = "idle" /\ get[c].since = 0
  BY IdleGetType, IdleToolType DEF Init, TokensInit
<1>2. now = 0 /\ now \in 0..MaxNow /\ issued \in 0..MaxIssued /\ valid \subseteq Token
  BY TokenConstants DEF Init, TokensInit, Token
<1>3. /\ policy \in Policy /\ entry \in Entry \cup {NoEntry} /\ lock \in Call \cup {NoCall}
      /\ lost \in BOOLEAN /\ made \in [Call -> Made] /\ cancelled \subseteq Cancellable
  BY CallsAssumption DEF Init, TokensInit
<1> QED
  BY <1>1, <1>2, <1>3 DEF CallInv, TypeOK, AnswerHeld, LooksBehind, IdleUnlessWaiting

LEMMA CallInvStep ==
  ASSUME CallInv, [Next]_vars
  PROVE  CallInv' /\ TokenOp
<1>1. CallType' /\ IdleUnlessWaiting' /\ TokenOp
  BY CallStep DEF CallInv
<1>2. TokensType' /\ AnswerHeld' /\ LooksBehind'
  BY <1>1, TokensTypeStep, LooksBehindStep DEF CallInv, TypeOK, TokensType
<1> QED
  BY <1>1, <1>2 DEF CallInv, TypeOK, TokensType, CallType

(* Every variable of the token manager and of the calls keeps its type.    *)
THEOREM TypeCorrect == Spec => []TypeOK
<1>1. CallInv /\ [Next]_vars => CallInv'
  BY CallInvStep
<1>2. CallInv => TypeOK
  BY DEF CallInv
<1> QED
  BY <1>1, <1>2, CallInvInit, PTL DEF Spec
-----------------------------------------------------------------------------
(* The lock.  A call that looks again or exchanges holds the lock of the   *)
(* key, so that it is alone, and nothing fresh comes into the cache before *)
(* its own answer: only the clock moves meanwhile.                         *)
Holding(c) == get[c].at \in {"again", "exchange", "sent", "answered"}

HolderAlone ==
  \A c \in Call :
    /\ Holding(c) => lock = c
    /\ Exchanging(c) => get[c].forced \/ ~Fresh

LEMMA HolderImplies ==
  ASSUME HolderAlone
  PROVE  ExchangeShared
  BY DEF HolderAlone, ExchangeShared, Exchanging, Holding

(* A call that ends, whatever it held, leaves the lock to nobody else.     *)
LEMMA HolderLeaves ==
  ASSUME HolderAlone, NEW c \in Call, Others(c), ~Holding(c)',
         lock' \in {lock, Released(c)}, entry' = entry, now' = now
  PROVE  HolderAlone'
<1>1. Fresh' = Fresh
  BY DEF Fresh, FreshAt
<1> QED
  BY <1>1 DEF HolderAlone, Holding, Exchanging, Others, Released

LEMMA HolderStep ==
  ASSUME TokensType, AnswerHeld, LooksBehind, HolderAlone, TokenOp
  PROVE  HolderAlone'
<1> USE TokenConstants
<1>0. /\ get \in [Call -> Get]
      /\ lock \in Call \cup {NoCall}
      /\ entry \in Entry \cup {NoEntry}
      /\ now \in Nat /\ now \in 0..MaxNow
      /\ \A c \in Call : get[c].since \in Nat
  BY DEF TokensType, Get
<1>1. CASE Tick
  <2>1. Fresh' => Fresh
    <3> SUFFICES ASSUME Fresh' PROVE Fresh
      OBVIOUS
    <3>1. entry # NoEntry /\ entry \in Entry /\ entry' = entry /\ now' = now + 1
      BY <1>0, <1>1 DEF Fresh, FreshAt, Tick
    <3>2. entry.expires \in Nat \/ entry.expires = Never
      BY <3>1 DEF Entry, Expiry
    <3>3. entry.expires # Never => now + 1 + Skew < entry.expires
      BY <3>1 DEF Fresh, FreshAt
    <3>4. entry.expires # Never => now + Skew < entry.expires
      BY <1>0, <3>2, <3>3
    <3> QED
      BY <3>1, <3>4 DEF Fresh, FreshAt
  <2> QED
    BY <1>1, <2>1 DEF Tick, HolderAlone, Holding, Exchanging
<1>2. ASSUME NEW c \in Call, NEW forced \in BOOLEAN, get[c].at = "idle", Ask(c, forced)
      PROVE  HolderAlone'
  <2>1. Others(c) /\ ~Holding(c)'
    BY <1>0, <1>2, AskType DEF Holding
  <2> QED
    BY <1>2, <2>1, HolderLeaves DEF Ask
<1>3. ASSUME NEW c \in Call, ReadCache(c)
      PROVE  HolderAlone'
  <2>1. FreshAt(get[c].since) => entry.access \in Token
    BY <1>0, FreshType
  <2>2. Others(c) /\ ~Holding(c)'
    BY <1>0, <1>3, <2>1, ReturnsType, GoesType DEF ReadCache, Holding
  <2> QED
    BY <1>3, <2>2, HolderLeaves DEF ReadCache
<1>4. ASSUME NEW c \in Call, TakeLock(c)
      PROVE  HolderAlone'
  <2>1. /\ Others(c) /\ get'[c].forced = get[c].forced
        /\ get'[c].at = Taken(c) /\ lock' = c /\ lock = NoCall
        /\ entry' = entry /\ now' = now
    BY <1>0, <1>4, TakeType DEF TakeLock, LockFree
  <2>2. \A d \in Call \ {c} : ~Holding(d)
    BY <2>1 DEF HolderAlone
  <2>3. Exchanging(c)' => get'[c].forced
    BY <2>1 DEF Exchanging, Taken
  <2> QED
    BY <2>1, <2>2, <2>3 DEF HolderAlone, Holding, Exchanging, Others
<1>5. ASSUME NEW c \in Call, ReadAgain(c)
      PROVE  HolderAlone'
  <2>1. CASE FreshAt(get[c].since) /\ Returns(c, entry.access) /\ lock' = Released(c)
    <3>1. entry.access \in Token
      BY <1>0, <2>1, FreshType
    <3>2. Others(c) /\ ~Holding(c)'
      BY <1>0, <2>1, <3>1, ReturnsType DEF Holding
    <3> QED
      BY <1>5, <2>1, <3>2, HolderLeaves DEF ReadAgain
  <2>2. CASE ~FreshAt(get[c].since) /\ Goes(c, "exchange") /\ lock' = lock
    <3>0. ~Fresh
      BY <1>0, <2>2, StaleStays DEF LooksBehind, Fresh
    <3>1. Others(c) /\ Holding(c) /\ get'[c].at = "exchange"
      BY <1>0, <1>5, <2>2, GoesType DEF ReadAgain, Holding
    <3>2. Fresh' = Fresh
      BY <1>5 DEF ReadAgain, Fresh, FreshAt
    <3> QED
      BY <2>2, <3>0, <3>1, <3>2 DEF HolderAlone, Holding, Exchanging, Others
  <2> QED
    BY <1>5, <2>1, <2>2 DEF ReadAgain
<1>6. ASSUME NEW c \in Call, SendExchange(c) \/ EndpointIssues(c)
      PROVE  HolderAlone'
  <2>1. /\ Others(c) /\ get'[c].forced = get[c].forced
        /\ Exchanging(c) /\ lock' = lock /\ entry' = entry /\ now' = now
    BY <1>0, <1>6 DEF SendExchange, EndpointIssues, Get, Others, Exchanging
  <2>2. Fresh' = Fresh
    BY <2>1 DEF Fresh, FreshAt
  <2> QED
    BY <2>1, <2>2 DEF HolderAlone, Holding, Exchanging, Others
<1>7. ASSUME NEW c \in Call, EndpointFails(c)
      PROVE  HolderAlone'
  <2>1. Others(c) /\ ~Holding(c)'
    BY <1>0, <1>7, ReturnsType DEF EndpointFails, Fails, Holding
  <2> QED
    BY <1>7, <2>1, HolderLeaves DEF EndpointFails, Fails
<1>8. ASSUME NEW c \in Call, StoreToken(c)
      PROVE  HolderAlone'
  <2>1. get[c].answer.access \in Token
    BY <1>8 DEF StoreToken, AnswerHeld, Answer
  <2>2. Others(c) /\ ~Holding(c)' /\ lock' = Released(c)
    BY <1>0, <1>8, <2>1, ReturnsType DEF StoreToken, Fails, Holding
  <2>3. \A d \in Call \ {c} : ~Holding(d)
    BY <1>8 DEF StoreToken, HolderAlone, Holding
  <2> QED
    BY <2>2, <2>3 DEF HolderAlone, Holding, Exchanging, Others
<1>9. ASSUME NEW c \in Call, Take(c) \/ Abandon(c)
      PROVE  HolderAlone'
  <2>1. Others(c) /\ ~Holding(c)'
    BY <1>0, <1>9, IdleGetType DEF Take, Abandon, Others, Holding
  <2> QED
    BY <1>9, <2>1, HolderLeaves DEF Take, Abandon
<1>10. CASE UNCHANGED tokenVars
  BY <1>10 DEF tokenVars, HolderAlone, Holding, Exchanging, Fresh, FreshAt
<1> QED
  BY <1>1, <1>2, <1>3, <1>4, <1>5, <1>6, <1>7, <1>8, <1>9, <1>10
  DEF TokenOp, GetStep

(* Exchanges of one key never overlap, and a call that does not force one  *)
(* exchanges only while nothing fresh is cached (OutboundTokens!           *)
(* ExchangeShared).                                                        *)
THEOREM ExchangesShared == Spec => []ExchangeShared
<1> DEFINE Inv == CallInv /\ HolderAlone
<1>1. Init => Inv
  <2>1. Init => HolderAlone
    BY IdleGetType DEF Init, TokensInit, HolderAlone, Holding, Exchanging
  <2> QED
    BY <2>1, CallInvInit
<1>2. Inv /\ [Next]_vars => Inv'
  BY CallInvStep, HolderStep DEF CallInv, TypeOK, TokensType
<1>3. Inv => ExchangeShared
  BY HolderImplies
<1> QED
  BY <1>1, <1>2, <1>3, PTL DEF Spec
-----------------------------------------------------------------------------
(* Rotation.  The token that the next exchange would use is valid, and so  *)
(* is the one an answer on its way will put into the cache: between the    *)
(* answer and the cache only the holder of the lock moves.                 *)
Accepted(token) == token \in valid \cup {NoToken}

NobodyAnswered == \A c \in Call : get[c].at # "answered"

RotationHeld ==
  ~lost =>
    /\ NobodyAnswered => Accepted(RefreshToken)
    /\ \A c \in Call :
         /\ get[c].at = "answered" => Accepted(NextRefresh(get[c].answer))
         /\ get[c].at = "sent" => Accepted(get[c].sent)

(* A step that leaves the cache and the endpoint alone, and moves a call   *)
(* to where it neither has sent nor been answered, keeps what is held.     *)
LEMMA RotationKept ==
  ASSUME RotationHeld, NEW c \in Call, Others(c),
         get'[c].at \notin {"sent", "answered"},
         get[c].at # "answered" \/ lost',
         lost => lost', UNCHANGED <<policy, entry, valid>>
  PROVE  RotationHeld'
<1>1. RefreshToken' = RefreshToken
  BY DEF RefreshToken, BootstrapToken
<1>2. \A a : NextRefresh(a)' = NextRefresh(a)
  BY <1>1 DEF NextRefresh
<1> QED
  BY <1>1, <1>2 DEF RotationHeld, Others, NobodyAnswered, Accepted, NextRefresh

LEMMA RotationStep ==
  ASSUME TokensType, AnswerHeld, HolderAlone, RotationHeld, TokenOp
  PROVE  RotationHeld'
<1> USE TokenConstants
<1>0. /\ get \in [Call -> Get]
      /\ lock \in Call \cup {NoCall}
      /\ entry \in Entry \cup {NoEntry}
      /\ now \in 0..MaxNow
      /\ RefreshToken \in Token \cup {NoToken}
  BY RefreshTokenType DEF TokensType
<1>1. CASE Tick \/ UNCHANGED tokenVars
  BY <1>1 DEF Tick, tokenVars, RotationHeld, NobodyAnswered, Accepted, NextRefresh,
              RefreshToken, BootstrapToken
<1>2. ASSUME NEW c \in Call, NEW forced \in BOOLEAN, get[c].at = "idle", Ask(c, forced)
      PROVE  RotationHeld'
  <2>1. Others(c) /\ get'[c].at \notin {"sent", "answered"}
    BY <1>0, <1>2, AskType
  <2> QED
    BY <1>2, <2>1, RotationKept DEF Ask
<1>3. ASSUME NEW c \in Call, ReadCache(c) \/ TakeLock(c) \/ ReadAgain(c)
      PROVE  RotationHeld'
  <2>1. FreshAt(get[c].since) => entry.access \in Token
    BY <1>0, FreshType
  <2>2. Others(c) /\ get'[c].at \notin {"sent", "answered"}
    BY <1>0, <1>3, <2>1, ReturnsType, GoesType, TakeType DEF ReadCache, ReadAgain
  <2> QED
    BY <1>3, <2>2, RotationKept DEF ReadCache, TakeLock, ReadAgain
<1>4. ASSUME NEW c \in Call, SendExchange(c)
      PROVE  RotationHeld'
  <2>1. /\ Others(c) /\ get[c].at = "exchange" /\ get'[c].at = "sent"
        /\ get'[c].sent \in {RefreshToken, NoToken}
        /\ UNCHANGED <<policy, entry, valid, lost>>
    BY <1>0, <1>4 DEF SendExchange, Get, Others
  <2>2. NobodyAnswered
    BY <2>1 DEF HolderAlone, Holding, NobodyAnswered
  <2>3. RefreshToken' = RefreshToken
    BY <2>1 DEF RefreshToken, BootstrapToken
  <2> QED
    BY <2>1, <2>2, <2>3 DEF RotationHeld, Others, NobodyAnswered, Accepted, NextRefresh
<1>5. ASSUME NEW c \in Call, EndpointIssues(c)
      PROVE  RotationHeld'
  <2>1. PICK refresh \in {issued + 1, NoToken}, lifetime \in Lifetime :
          /\ get' = [get EXCEPT ![c].at = "answered",
                       ![c].answer = [access |-> issued + 1, refresh |-> refresh,
                                      lifetime |-> lifetime]]
          /\ valid' = IF refresh = NoToken THEN valid
                      ELSE (valid \ {get[c].sent}) \cup {refresh}
    BY <1>5 DEF EndpointIssues
  <2> DEFINE answer == [access |-> issued + 1, refresh |-> refresh, lifetime |-> lifetime]
  <2>2. /\ Others(c) /\ get'[c].at = "answered" /\ get'[c].answer = answer
        /\ get[c].at = "sent" /\ UNCHANGED <<policy, entry, lost>>
    <3> HIDE DEF answer
    <3>1. get' = [get EXCEPT ![c].at = "answered", ![c].answer = answer]
      BY <2>1 DEF answer
    <3> QED
      BY <1>0, <1>5, <3>1 DEF EndpointIssues, Get, Others
  <2>3. \A d \in Call \ {c} : ~Holding(d) /\ ~Holding(d)'
    BY <2>2 DEF HolderAlone, Holding, Others
  <2>4. NobodyAnswered
    BY <2>2, <2>3 DEF NobodyAnswered, Holding
  <2>5. RefreshToken' = RefreshToken
    BY <2>2 DEF RefreshToken, BootstrapToken
  <2>6. ~lost => Accepted(NextRefresh(get[c].answer))'
    <3>1. CASE refresh = NoToken
      BY <2>1, <2>2, <2>4, <2>5, <3>1 DEF RotationHeld, Accepted, NextRefresh
    <3>2. CASE refresh # NoToken
      BY <2>1, <2>2, <3>2 DEF Accepted, NextRefresh
    <3> QED
      BY <3>1, <3>2
  <2> QED
    BY <2>2, <2>3, <2>6 DEF RotationHeld, NobodyAnswered, Holding
<1>6. ASSUME NEW c \in Call, EndpointFails(c)
      PROVE  RotationHeld'
  <2>1. Others(c) /\ get'[c].at \notin {"sent", "answered"}
    BY <1>0, <1>6, ReturnsType DEF EndpointFails, Fails
  <2> QED
    BY <1>6, <2>1, RotationKept DEF EndpointFails
<1>7. ASSUME NEW c \in Call, StoreToken(c)
      PROVE  RotationHeld'
  <2>1. get[c].answer.access \in Token /\ get[c].at = "answered"
    BY <1>7 DEF StoreToken, AnswerHeld, Answer
  <2>2. Others(c) /\ get'[c].at = "returned" /\ UNCHANGED <<policy, valid>>
    BY <1>0, <1>7, <2>1, ReturnsType DEF StoreToken, Fails
  <2>3. \A d \in Call \ {c} : ~Holding(d) /\ ~Holding(d)'
    BY <2>1, <2>2 DEF HolderAlone, Holding, Others
  <2>4. CASE lost'
    BY <2>4 DEF RotationHeld
  <2>5. CASE ~lost'
    <3>1. /\ ~lost
          /\ entry' = [access |-> get[c].answer.access,
                       refresh |-> NextRefresh(get[c].answer),
                       expires |-> ExpiryOf(get[c].answer)]
      BY <1>7, <2>5 DEF StoreToken
    <3>2. RefreshToken' = NextRefresh(get[c].answer)
      <4>1. entry'.refresh = NextRefresh(get[c].answer) /\ entry' # NoEntry
        <5>1. entry' \in Entry
          <6>1. get[c].answer.lifetime # TooLong => ExpiryOf(get[c].answer) \in Expiry
            BY <2>1 DEF AnswerHeld, Answer, TokensType, ExpiryOf, Expiry
          <6>2. NextRefresh(get[c].answer) \in Token \cup {NoToken}
            BY <1>0, <2>1 DEF AnswerHeld, Answer, NextRefresh
          <6> QED
            BY <1>7, <2>1, <2>5, <3>1, <6>1, <6>2 DEF StoreToken, Entry
        <5> QED
          BY <3>1, <5>1
      <4>2. NextRefresh(get[c].answer) = NoToken => BootstrapToken = NoToken
        BY DEF NextRefresh, RefreshToken
      <4> QED
        BY <2>2, <4>1, <4>2 DEF RefreshToken, BootstrapToken
    <3>3. Accepted(RefreshToken)'
      BY <2>1, <2>2, <3>1, <3>2 DEF RotationHeld, Accepted
    <3> QED
      BY <2>2, <2>3, <3>3 DEF RotationHeld, Holding
  <2> QED
    BY <2>4, <2>5
<1>8. ASSUME NEW c \in Call, (get[c].at = "returned" /\ Take(c)) \/ Abandon(c)
      PROVE  RotationHeld'
  <2>1. Others(c) /\ get'[c].at \notin {"sent", "answered"}
    BY <1>0, <1>8, IdleGetType DEF Take, Abandon, Others
  <2>2. UNCHANGED <<policy, entry, valid>>
    BY <1>8 DEF Take, Abandon
  <2>3. get[c].at # "answered" \/ lost'
    BY <1>8 DEF Abandon
  <2>4. lost => lost'
    BY <1>8, Zenon DEF Take, Abandon
  <2> QED
    BY <2>1, <2>2, <2>3, <2>4, RotationKept
<1> QED
  BY <1>1, <1>2, <1>3, <1>4, <1>5, <1>6, <1>7, <1>8 DEF TokenOp, GetStep

(* Unless an answer is lost on its way to the cache, no exchange is sent   *)
(* with a refresh token that the endpoint has replaced (OutboundTokens!    *)
(* RotationFollowed).                                                      *)
THEOREM RotationsFollowed == Spec => []RotationFollowed
<1> DEFINE Inv == CallInv /\ HolderAlone /\ RotationHeld
<1>1. Init => Inv
  <2>1. Init => HolderAlone /\ RotationHeld
    <3> SUFFICES ASSUME Init PROVE HolderAlone /\ RotationHeld
      OBVIOUS
    <3>1. \A c \in Call : get[c].at = "idle"
      BY IdleGetType DEF Init, TokensInit
    <3>2. Accepted(RefreshToken)
      BY DEF Init, TokensInit, Accepted, RefreshToken, BootstrapToken
    <3> QED
      BY <3>1, <3>2 DEF HolderAlone, Holding, Exchanging, RotationHeld
  <2> QED
    BY <2>1, CallInvInit
<1>2. Inv /\ [Next]_vars => Inv'
  BY CallInvStep, HolderStep, RotationStep DEF CallInv, TypeOK, TokensType
<1>3. Inv => RotationFollowed
  BY DEF RotationHeld, RotationFollowed, Accepted
<1> QED
  BY <1>1, <1>2, <1>3, PTL DEF Spec
-----------------------------------------------------------------------------
(* The cost of a call.  What it has sent is paid for by the attempt it is  *)
(* at, and by the attempts of its first round once it is in the second.    *)
PaidFor(c) == IF tool[c].round = 1 THEN tool[c].attempt ELSE Attempts(c) + tool[c].attempt

CostOf(c) ==
  /\ tool[c].at \in {"idle", "token", "ended"} =>
       tool[c].requests = 0 /\ tool[c].round = 1 /\ tool[c].refused = {}
  /\ tool[c].at \in {"attempt", "sleep"} => tool[c].requests + 1 <= PaidFor(c)
  /\ tool[c].at = "sent" => tool[c].requests <= PaidFor(c)
  /\ tool[c].at = "refresh" => tool[c].requests <= Attempts(c)
  /\ tool[c].attempt <= Attempts(c)
  /\ tool[c].round = 2 \/ tool[c].at = "refresh" => policy.retryOn401 /\ tool[c].refused # {}

CostsPaid == \A c \in Call : CostOf(c)

LEMMA AttemptsType ==
  ASSUME NEW c \in Call
  PROVE  Attempts(c) \in Nat /\ Attempts(c) >= 1 /\ Attempts(c)' = Attempts(c)
  BY CallsAssumption DEF Attempts

LEMMA CostsBound ==
  ASSUME TypeOK, CostsPaid
  PROVE  RequestsBounded
<1> SUFFICES ASSUME NEW c \in Call
             PROVE  /\ tool[c].requests <= IF policy.retryOn401 THEN 2 * Attempts(c) ELSE Attempts(c)
                    /\ c \notin Retryable /\ tool[c].requests > 1 => tool[c].refused # {}
  BY DEF RequestsBounded
<1>1. CostOf(c) /\ tool[c] \in Tool
  BY DEF CostsPaid, TypeOK
<1>2. /\ tool[c].requests \in Nat /\ tool[c].attempt \in Nat /\ tool[c].round \in {1, 2}
      /\ tool[c].at \in {"idle", "token", "attempt", "sent", "sleep", "refresh", "ended"}
  BY <1>1, CallsAssumption DEF Tool
<1>3. tool[c].round = 1 => tool[c].requests <= Attempts(c)
  BY <1>1, <1>2, AttemptsType DEF CostOf, PaidFor
<1>4. tool[c].round = 2 =>
        policy.retryOn401 /\ tool[c].refused # {} /\ tool[c].requests <= 2 * Attempts(c)
  BY <1>1, <1>2, AttemptsType DEF CostOf, PaidFor
<1>5. c \notin Retryable => Attempts(c) = 1
  BY DEF Attempts
<1> QED
  BY <1>2, <1>3, <1>4, <1>5, AttemptsType

LEMMA EndedCost ==
  ASSUME tool \in [Call -> Tool], NEW c \in Call, Ends(c)
  PROVE  CostOf(c)' /\ \A d \in Call \ {c} : tool'[d] = tool[d]
<1> DEFINE t == [IdleTool EXCEPT !.at = "ended"]
<1>1. t.at = "ended" /\ t.requests = 0 /\ t.round = 1 /\ t.refused = {} /\ t.attempt = 1
  BY DEF IdleTool
<1>2. tool' = [tool EXCEPT ![c] = t]
  BY DEF Ends
<1> HIDE DEF t
<1> QED
  BY <1>1, <1>2, AttemptsType DEF CostOf

LEMMA PolicyConstant ==
  ASSUME TokenOp
  PROVE  policy' = policy
  BY DEF TokenOp, Tick, Ask, GetStep, ReadCache, TakeLock, ReadAgain, SendExchange,
         EndpointIssues, EndpointFails, StoreToken, Take, Abandon, tokenVars

LEMMA CostsInit == Init => CostsPaid
<1> SUFFICES ASSUME Init, NEW c \in Call PROVE CostOf(c)
  BY DEF CostsPaid
<1>1. tool[c] = IdleTool
  BY DEF Init
<1> QED
  BY <1>1, IdleToolType, AttemptsType DEF CostOf

LEMMA CostsStep ==
  ASSUME CallInv, CostsPaid, [Next]_vars
  PROVE  CostsPaid'
<1>0. /\ tool \in [Call -> Tool] /\ get \in [Call -> Get]
      /\ \A c \in Call : /\ tool[c].requests \in Nat /\ tool[c].attempt \in Nat
                          /\ tool[c].round \in {1, 2} /\ CostOf(c)
  BY CallsAssumption DEF CallInv, TypeOK, Tool, CostsPaid
<1>1. policy' = policy
  BY CallInvStep, PolicyConstant
<1>2. SUFFICES ASSUME NEW c \in Call,
                      \/ Start(c) \/ TokenReturned(c) \/ Attempt(c) \/ SleepEnds(c)
                      \/ CancelSeen(c) \/ AbandonCall(c)
                      \/ \E o \in Outcome : UpstreamAnswers(c, o)
               PROVE  CostOf(c)' /\ \A d \in Call \ {c} : tool'[d] = tool[d]
  <2>1. ASSUME tool' = tool
        PROVE  CostsPaid'
    BY <1>1, <2>1, AttemptsType DEF CostsPaid, CostOf, PaidFor
  <2>2. ASSUME NEW c \in Call, CostOf(c)', \A d \in Call \ {c} : tool'[d] = tool[d]
        PROVE  CostsPaid'
    BY <1>1, <2>2, AttemptsType DEF CostsPaid, CostOf, PaidFor
  <2> QED
    BY <2>1, <2>2 DEF Next, vars, TickStep, TokenStep, Cancel
<1>3. CASE Start(c)
  <2>1. CASE tool'[c].at = "token"
    BY <1>0, <1>3, <2>1, StartType, AttemptsType DEF CostOf, PaidFor
  <2>2. CASE tool'[c].at = "attempt"
    BY <1>0, <1>3, <2>2, StartType, AttemptsType DEF CostOf, PaidFor
  <2> QED
    BY <1>0, <1>3, <2>1, <2>2, StartType
<1>4. CASE TokenReturned(c)
  <2>1. CASE Ends(c)
    BY <1>0, <2>1, EndedCost
  <2>2. CASE ~Ends(c)
    BY <1>0, <1>1, <1>4, <2>2, ReturnedType, AttemptsType DEF CostOf, PaidFor
  <2> QED
    BY <2>1, <2>2
<1>5. CASE Attempt(c)
  <2>1. CASE Ends(c)
    BY <1>0, <2>1, EndedCost
  <2>2. CASE ~Ends(c)
    BY <1>0, <1>1, <1>5, <2>2, SentType, AttemptsType DEF CostOf, PaidFor
  <2> QED
    BY <2>1, <2>2
<1>6. CASE SleepEnds(c)
  BY <1>0, <1>1, <1>6, SleepEndsType, AttemptsType DEF CostOf, PaidFor
<1>7. CASE CancelSeen(c) \/ AbandonCall(c)
  BY <1>0, <1>7, EndedCost DEF CancelSeen, AbandonCall
<1>8. ASSUME NEW o \in Outcome, UpstreamAnswers(c, o)
      PROVE  CostOf(c)' /\ \A d \in Call \ {c} : tool'[d] = tool[d]
  <2>1. CASE Ends(c)
    BY <1>0, <2>1, EndedCost
  <2>2. CASE ~Ends(c) /\ Retries(c, o)
    <3>1. /\ tool'[c].at = "sleep" /\ tool[c].at = "sent"
          /\ tool'[c].attempt = tool[c].attempt + 1
          /\ tool'[c].round = tool[c].round /\ tool'[c].requests = tool[c].requests
          /\ tool'[c].refused = Refused(c, o)
          /\ \A d \in Call \ {c} : tool'[d] = tool[d]
      BY <1>0, <1>8, <2>2, AnsweredType DEF Refreshes
    <3>2. tool[c].attempt + 1 <= Attempts(c)
      BY <1>0, <2>2, CallsAssumption DEF Retries, Loops, Attempts
    <3>3. tool[c].refused # {} => Refused(c, o) # {}
      BY DEF Refused
    <3> QED
      BY <1>0, <1>1, <3>1, <3>2, <3>3, AttemptsType DEF CostOf, PaidFor
  <2>3. CASE ~Ends(c) /\ ~Retries(c, o)
    <3>1. /\ tool'[c].at = "refresh" /\ tool[c].at = "sent"
          /\ tool'[c].attempt = tool[c].attempt
          /\ tool'[c].round = tool[c].round /\ tool'[c].requests = tool[c].requests
          /\ tool'[c].refused = Refused(c, o)
          /\ Refreshes(c, o)
          /\ \A d \in Call \ {c} : tool'[d] = tool[d]
      BY <1>0, <1>8, <2>3, AnsweredType
    <3>2. policy.retryOn401 /\ tool[c].round = 1 /\ Refused(c, o) # {}
      BY <3>1 DEF Refreshes, RefreshEnabled, Refused
    <3>3. tool[c].requests <= Attempts(c)
      BY <1>0, <3>1, <3>2, AttemptsType DEF CostOf, PaidFor
    <3> QED
      BY <1>0, <1>1, <3>1, <3>2, <3>3, AttemptsType DEF CostOf, PaidFor
  <2> QED
    BY <2>1, <2>2, <2>3
<1> QED
  BY <1>2, <1>3, <1>4, <1>5, <1>6, <1>7, <1>8

(* A call costs its upstream the attempts of the configuration, twice with *)
(* retry_on_401_once, and a method that must not be repeated goes out      *)
(* again only after a refusal (HttpToolCalls!RequestsBounded).             *)
THEOREM CostBounded == Spec => []RequestsBounded
<1> DEFINE Inv == CallInv /\ CostsPaid
<1>1. Init => Inv
  BY CallInvInit, CostsInit
<1>2. Inv /\ [Next]_vars => Inv'
  BY CallInvStep, CostsStep
<1>3. Inv => RequestsBounded
  BY CostsBound DEF CallInv
<1> QED
  BY <1>1, <1>2, <1>3, PTL DEF Spec

-----------------------------------------------------------------------------
(* New tokens.  Every token around was issued, so that one that is issued  *)
(* later is none of those the upstream has refused.                        *)
Issued(token) == token = NoToken \/ token <= issued

TokensIssued ==
  /\ entry # NoEntry => entry.access <= issued
  /\ \A c \in Call :
       /\ Issued(get[c].token)
       /\ get[c].at = "answered" => get[c].answer.access <= issued

LEMMA IssuedGrows ==
  ASSUME TokensType, AnswerHeld, TokenOp
  PROVE  issued \in Nat /\ issued' \in Nat /\ issued <= issued'
<1>1. issued \in Nat
  BY TokenConstants DEF TokensType
<1>2. issued' \in {issued, issued + 1}
  BY DEF TokenOp, Tick, Ask, GetStep, ReadCache, TakeLock, ReadAgain, SendExchange,
         EndpointIssues, EndpointFails, StoreToken, Take, Abandon, tokenVars
<1> QED
  BY <1>1, <1>2

LEMMA TokensIssuedStep ==
  ASSUME TokensType, AnswerHeld, TokensIssued, TokenOp
  PROVE  TokensIssued'
<1> USE TokenConstants
<1>0. /\ get \in [Call -> Get]
      /\ entry \in Entry \cup {NoEntry}
      /\ now \in 0..MaxNow
      /\ issued \in Nat /\ issued' \in Nat /\ issued <= issued'
      /\ \A c \in Call : get[c].token \in Token \cup {NoToken}
      /\ entry # NoEntry => entry.access \in Token
  BY IssuedGrows DEF TokensType, Get, Entry
<1>1. ASSUME UNCHANGED <<entry, issued, get>>
      PROVE  TokensIssued'
  BY <1>1 DEF TokensIssued, Issued
<1>2. ASSUME NEW c \in Call, Others(c), entry' = entry, issued' = issued,
             get'[c].at # "answered", Issued(get'[c].token)
      PROVE  TokensIssued'
  BY <1>2 DEF TokensIssued, Issued, Others
<1>3. ASSUME NEW c \in Call, NEW forced \in BOOLEAN, Ask(c, forced)
      PROVE  TokensIssued'
  <2>1. Others(c) /\ get'[c].at # "answered" /\ get'[c].token = NoToken
    BY <1>0, <1>3, AskType
  <2> QED
    BY <1>2, <1>3, <2>1 DEF Ask, Issued
<1>4. ASSUME NEW c \in Call, ReadCache(c) \/ TakeLock(c) \/ ReadAgain(c)
      PROVE  TokensIssued'
  <2>1. FreshAt(get[c].since) => entry.access \in Token /\ Issued(entry.access)
    BY <1>0, FreshType DEF FreshAt, TokensIssued, Issued
  <2>2. /\ Others(c) /\ get'[c].at # "answered"
        /\ get'[c].token = get[c].token \/ (FreshAt(get[c].since) /\ get'[c].token = entry.access)
    BY <1>0, <1>4, <2>1, ReturnsType, GoesType, TakeType DEF ReadCache, ReadAgain
  <2>3. Issued(get'[c].token) /\ entry' = entry /\ issued' = issued
    BY <1>4, <2>1, <2>2 DEF ReadCache, TakeLock, ReadAgain, TokensIssued
  <2> QED
    BY <1>2, <2>2, <2>3
<1>5. ASSUME NEW c \in Call, SendExchange(c)
      PROVE  TokensIssued'
  <2>1. Others(c) /\ get'[c].at # "answered" /\ get'[c].token = get[c].token
    BY <1>0, <1>5 DEF SendExchange, Others, Get
  <2>2. Issued(get'[c].token) /\ entry' = entry /\ issued' = issued
    BY <1>5, <2>1 DEF SendExchange, TokensIssued
  <2> QED
    BY <1>2, <2>1, <2>2
<1>6. ASSUME NEW c \in Call, EndpointIssues(c)
      PROVE  TokensIssued'
  <2>1. /\ Others(c) /\ issued' = issued + 1 /\ entry' = entry
        /\ get'[c].token = get[c].token /\ get'[c].answer.access = issued + 1
    BY <1>0, <1>6 DEF EndpointIssues, Others, Get
  <2>2. \A t \in Token : t <= issued => t <= issued + 1
    BY <1>0 DEF Token
  <2>3. \A d \in Call : get[d].at = "answered" => get[d].answer.access \in Token
    BY DEF AnswerHeld, Answer
  <2> QED
    BY <1>0, <2>1, <2>2, <2>3 DEF TokensIssued, Issued, Others
<1>7. ASSUME NEW c \in Call, EndpointFails(c)
      PROVE  TokensIssued'
  <2>1. Others(c) /\ get'[c].at # "answered" /\ get'[c].token = NoToken
    BY <1>0, <1>7, ReturnsType DEF EndpointFails, Fails
  <2> QED
    BY <1>2, <1>7, <2>1 DEF EndpointFails, Issued
<1>8. ASSUME NEW c \in Call, StoreToken(c)
      PROVE  TokensIssued'
  <2>1. get[c].answer.access \in Token /\ get[c].answer.access <= issued
    BY <1>8 DEF StoreToken, AnswerHeld, Answer, TokensIssued
  <2>2. /\ Others(c) /\ get'[c].at # "answered" /\ issued' = issued
        /\ get'[c].token \in {NoToken, get[c].answer.access}
    BY <1>0, <1>8, <2>1, ReturnsType DEF StoreToken, Fails
  <2>3. entry' = entry \/ entry'.access = get[c].answer.access
    BY <1>8 DEF StoreToken
  <2> QED
    BY <2>1, <2>2, <2>3 DEF TokensIssued, Issued, Others
<1>9. ASSUME NEW c \in Call, Take(c) \/ Abandon(c)
      PROVE  TokensIssued'
  <2>1. Others(c) /\ get'[c].at # "answered" /\ get'[c].token = NoToken
    BY <1>0, <1>9, IdleGetType DEF Take, Abandon, Others
  <2> QED
    BY <1>2, <1>9, <2>1 DEF Take, Abandon, Issued
<1>10. CASE Tick \/ UNCHANGED tokenVars
  BY <1>1, <1>10 DEF Tick, tokenVars
<1> QED
  BY <1>3, <1>4, <1>5, <1>6, <1>7, <1>8, <1>9, <1>10 DEF TokenOp, GetStep

(* A forced request exchanges: it is past the lock, or it waits for it to  *)
(* do so, and what it is given was issued after it asked.                  *)
GetsNew(c, refused) ==
  /\ get[c].at \in {"lock", "exchange", "sent", "answered", "returned"}
  /\ get[c].at = "lock" => get[c].forced
  /\ get[c].at = "answered" => get[c].answer.access \notin refused
  /\ get[c].at = "returned" => get[c].token = NoToken \/ get[c].token \notin refused

LEMMA GetsNewStep ==
  ASSUME TokensType, AnswerHeld, NEW c \in Call, GetStep(c),
         NEW refused \in SUBSET (Token \cup {NoToken}), \A t \in refused : Issued(t),
         GetsNew(c, refused)
  PROVE  GetsNew(c, refused)'
<1> USE TokenConstants
<1>0. get \in [Call -> Get] /\ now \in 0..MaxNow /\ issued \in Nat
  BY DEF TokensType
<1>1. CASE ReadCache(c) \/ ReadAgain(c)
  BY <1>1 DEF ReadCache, ReadAgain, GetsNew
<1>2. CASE TakeLock(c)
  BY <1>0, <1>2, TakeType DEF GetsNew
<1>3. CASE SendExchange(c)
  BY <1>0, <1>3 DEF SendExchange, GetsNew
<1>4. CASE EndpointIssues(c)
  <2>1. get'[c].at = "answered" /\ get'[c].answer.access = issued + 1
    BY <1>0, <1>4 DEF EndpointIssues, Get
  <2>2. issued + 1 \notin refused
    BY <1>0 DEF Issued
  <2> QED
    BY <2>1, <2>2 DEF GetsNew
<1>5. CASE EndpointFails(c)
  BY <1>0, <1>5, ReturnsType DEF EndpointFails, Fails, GetsNew
<1>6. CASE StoreToken(c)
  <2>1. get[c].answer.access \in Token /\ get[c].answer.access \notin refused
    BY <1>6 DEF StoreToken, AnswerHeld, Answer, GetsNew
  <2>2. get'[c].at = "returned" /\ get'[c].token \in {NoToken, get[c].answer.access}
    BY <1>0, <1>6, <2>1, ReturnsType DEF StoreToken, Fails
  <2> QED
    BY <2>1, <2>2 DEF GetsNew
<1> QED
  BY <1>1, <1>2, <1>3, <1>4, <1>5, <1>6 DEF GetStep

(* What a call carries, and what its upstream has refused.                 *)
Renews(c) == RefreshEnabled(c) /\ made[c].auth = "oauth"

CarriesNew(c) ==
  /\ Issued(tool[c].bearer)
  /\ \A t \in tool[c].refused : Issued(t)
  /\ Renews(c) =>
       /\ /\ made[c].by = "tool" /\ tool[c].round = 1 /\ tool[c].at # "refresh"
          => tool[c].refused = {}
       /\ /\ tool[c].round = 2 /\ tool[c].at \in {"attempt", "sent", "sleep"}
          /\ made[c].by = "tool" \/ tool[c].attempt = 1
          => tool[c].bearer \notin tool[c].refused
       /\ tool[c].at = "refresh" => GetsNew(c, tool[c].refused)

RefusedBehind == \A c \in Call : CarriesNew(c)

LEMMA RefusedImplies ==
  ASSUME TypeOK, RefusedBehind
  PROVE  RefusedTokenNotReused
<1> SUFFICES ASSUME NEW c \in Call, Renews(c), tool[c].at = "sent",
                    made[c].by = "tool" \/ (tool[c].round = 2 /\ tool[c].attempt = 1)
             PROVE  tool[c].bearer \notin tool[c].refused
  BY DEF RefusedTokenNotReused, Renews
<1>1. tool[c].round \in {1, 2} /\ CarriesNew(c)
  BY DEF TypeOK, Tool, RefusedBehind
<1> QED
  BY <1>1 DEF CarriesNew

LEMMA RenewsConstant ==
  ASSUME CallInv, [Next]_vars, NEW c \in Call
  PROVE  Renews(c)' = Renews(c) /\ made' = made
<1>1. policy' = policy
  BY CallInvStep, PolicyConstant
<1>2. made' = made
  BY DEF Next, vars, TickStep, Start, TokenStep, TokenReturned, Attempt, SleepEnds, CancelSeen,
         Cancel, AbandonCall, UpstreamAnswers
<1> QED
  BY <1>1, <1>2 DEF Renews, RefreshEnabled

LEMMA OneCallMoves ==
  ASSUME tool \in [Call -> Tool], get \in [Call -> Get], now \in 0..MaxNow, NEW c \in Call,
         \/ Start(c) \/ TokenStep(c) \/ TokenReturned(c) \/ Attempt(c)
         \/ SleepEnds(c) \/ CancelSeen(c) \/ AbandonCall(c)
         \/ \E o \in Outcome : UpstreamAnswers(c, o)
  PROVE  Others(c) /\ \A d \in Call \ {c} : tool'[d] = tool[d]
<1>1. CASE Start(c)
  BY <1>1, StartType, AskType DEF tokenVars, Others
<1>2. CASE TokenStep(c)
  BY <1>2 DEF TokenStep, GetStep, ReadCache, TakeLock, ReadAgain, SendExchange, EndpointIssues,
              EndpointFails, StoreToken, Goes, Returns, Fails, Others
<1>3. CASE TokenReturned(c)
  BY <1>3, ReturnedType, EndsType DEF Take, Others
<1>4. CASE Attempt(c) \/ SleepEnds(c) \/ CancelSeen(c)
  <2>1. get' = get
    BY <1>4 DEF Attempt, SleepEnds, CancelSeen, tokenVars
  <2> QED
    BY <1>4, <2>1, SentType, SleepEndsType, EndsType DEF CancelSeen, Others
<1>5. CASE AbandonCall(c)
  BY <1>5, EndsType DEF AbandonCall, Abandon, Others
<1>6. ASSUME NEW o \in Outcome, UpstreamAnswers(c, o)
      PROVE  Others(c) /\ \A d \in Call \ {c} : tool'[d] = tool[d]
  BY <1>6, AnsweredType, AskType DEF AskForced, tokenVars, Others
<1> QED
  BY <1>1, <1>2, <1>3, <1>4, <1>5, <1>6

(* What no step of another call takes away.                                *)
LEMMA CarriesKept ==
  ASSUME CallInv, [Next]_vars, NEW c \in Call, CarriesNew(c),
         tool'[c] = tool[c], get'[c] = get[c]
  PROVE  CarriesNew(c)'
<1>1. /\ issued \in Nat /\ issued' \in Nat /\ issued <= issued'
  BY CallInvStep, IssuedGrows DEF CallInv, TypeOK, TokensType
<1>2. tool[c].bearer \in Token \cup {NoToken} /\ tool[c].refused \subseteq Token \cup {NoToken}
  BY DEF CallInv, TypeOK, Tool
<1>3. \A t \in Token \cup {NoToken} : Issued(t) => Issued(t)'
  BY <1>1 DEF Issued, Token
<1>4. Renews(c)' = Renews(c) /\ made' = made
  BY RenewsConstant
<1> QED
  BY <1>2, <1>3, <1>4 DEF CarriesNew, GetsNew

LEMMA EndedCarries ==
  ASSUME tool \in [Call -> Tool], NEW c \in Call, Ends(c)
  PROVE  CarriesNew(c)'
<1> DEFINE t == [IdleTool EXCEPT !.at = "ended"]
<1>1. t.at = "ended" /\ t.round = 1 /\ t.refused = {} /\ t.bearer = NoToken
  BY DEF IdleTool
<1>2. tool'[c] = t
  BY DEF Ends
<1> HIDE DEF t
<1> QED
  BY <1>1, <1>2 DEF CarriesNew, Issued

LEMMA RefusedStep ==
  ASSUME CallInv, TokensIssued, CostsPaid, RefusedBehind, [Next]_vars
  PROVE  RefusedBehind'
<1> USE TokenConstants
<1>0. /\ tool \in [Call -> Tool] /\ get \in [Call -> Get] /\ now \in 0..MaxNow
      /\ \A c \in Call : /\ tool[c].bearer \in Token \cup {NoToken}
                          /\ tool[c].refused \subseteq Token \cup {NoToken}
                          /\ tool[c].round \in {1, 2} /\ tool[c].attempt \in Nat
                          /\ tool[c].attempt >= 1
                          /\ CarriesNew(c) /\ CostOf(c)
  BY CallsAssumption DEF CallInv, TypeOK, Tool, RefusedBehind, CostsPaid
<1>1. /\ issued \in Nat /\ issued' \in Nat /\ issued <= issued'
      /\ \A t \in Token \cup {NoToken} : Issued(t) => Issued(t)'
  <2>1. /\ issued \in Nat /\ issued' \in Nat /\ issued <= issued'
    BY CallInvStep, IssuedGrows DEF CallInv, TypeOK, TokensType
  <2> QED
    BY <2>1 DEF Issued, Token
<1>2. SUFFICES ASSUME NEW c \in Call,
                      \/ Start(c) \/ TokenStep(c) \/ TokenReturned(c) \/ Attempt(c)
                      \/ SleepEnds(c) \/ CancelSeen(c) \/ AbandonCall(c)
                      \/ \E o \in Outcome : UpstreamAnswers(c, o)
               PROVE  CarriesNew(c)'
  <2>1. ASSUME tool' = tool, get' = get
        PROVE  RefusedBehind'
    BY <2>1, CarriesKept DEF RefusedBehind
  <2>2. ASSUME NEW c \in Call, CarriesNew(c)',
               \/ Start(c) \/ TokenStep(c) \/ TokenReturned(c) \/ Attempt(c)
               \/ SleepEnds(c) \/ CancelSeen(c) \/ AbandonCall(c)
               \/ \E o \in Outcome : UpstreamAnswers(c, o)
        PROVE  RefusedBehind'
    <3>1. Others(c) /\ \A d \in Call \ {c} : tool'[d] = tool[d]
      BY <1>0, <2>2, OneCallMoves
    <3> QED
      BY <2>2, <3>1, CarriesKept DEF RefusedBehind, Others
  <2> QED
    BY <2>1, <2>2 DEF Next, vars, tokenVars, TickStep, Tick, Cancel
<1>3. Renews(c)' = Renews(c) /\ made' = made
  BY RenewsConstant
<1>4. CASE Start(c)
  BY <1>0, <1>1, <1>3, <1>4, StartType DEF CarriesNew, CostOf, Renews, Issued
<1>5. CASE TokenStep(c)
  <2>1. tool' = tool /\ GetStep(c)
    BY <1>5 DEF TokenStep
  <2>2. GetsNew(c, tool[c].refused) => GetsNew(c, tool[c].refused)'
    <3>1. PICK S : S = tool[c].refused
      OBVIOUS
    <3>2. GetsNew(c, S) => GetsNew(c, S)'
      BY <1>0, <2>1, <3>1, GetsNewStep DEF CallInv, TypeOK, TokensType, CarriesNew
    <3> QED
      BY <2>1, <3>1, <3>2 DEF GetsNew
  <2> QED
    BY <1>0, <1>1, <1>3, <2>1, <2>2 DEF CarriesNew, GetsNew
<1>6. CASE TokenReturned(c)
  <2>1. CASE Ends(c)
    BY <1>0, <2>1, EndedCarries
  <2>2. CASE ~Ends(c)
    <3>1. /\ tool[c].at \in {"token", "refresh"} /\ get[c].at = "returned"
          /\ get[c].token # NoToken
          /\ tool'[c].at = "attempt"
          /\ tool'[c].round = IF tool[c].at = "token" THEN 1 ELSE 2
          /\ tool'[c].bearer = Carried(c, get[c].token)
          /\ tool'[c].refused = tool[c].refused
      BY <1>0, <1>6, <2>2, ReturnedType
    <3>2. /\ get[c].token \in Token \cup {NoToken} /\ Issued(get[c].token)
          /\ Carried(c, get[c].token) \in Token \cup {NoToken}
          /\ Issued(Carried(c, get[c].token))
      BY <1>0 DEF Get, TokensIssued, Carried, Issued
    <3>3. tool[c].at = "token" => tool[c].refused = {}
      BY <1>0 DEF CostOf
    <3>4. Renews(c) /\ tool[c].at = "refresh" =>
            Carried(c, get[c].token) \notin tool[c].refused
      BY <1>0, <3>1 DEF CarriesNew, GetsNew, Renews, Carried
    <3>5. Issued(tool[c].bearer)' /\ (\A t \in tool[c].refused : Issued(t))'
      BY <1>0, <1>1, <3>1, <3>2 DEF CarriesNew
    <3> QED
      BY <1>3, <3>1, <3>3, <3>4, <3>5 DEF CarriesNew
  <2> QED
    BY <2>1, <2>2
<1>7. CASE Attempt(c)
  <2>1. CASE Ends(c)
    BY <1>0, <2>1, EndedCarries
  <2>2. CASE ~Ends(c)
    BY <1>0, <1>1, <1>3, <1>7, <2>2, SentType DEF CarriesNew
  <2> QED
    BY <2>1, <2>2
<1>8. CASE SleepEnds(c)
  BY <1>0, <1>1, <1>3, <1>8, SleepEndsType DEF CarriesNew
<1>9. CASE CancelSeen(c) \/ AbandonCall(c)
  BY <1>0, <1>9, EndedCarries DEF CancelSeen, AbandonCall
<1>10. ASSUME NEW o \in Outcome, UpstreamAnswers(c, o)
       PROVE  CarriesNew(c)'
  <2>0. \A t \in Refused(c, o) : t \in Token \cup {NoToken} /\ Issued(t)'
    BY <1>0, <1>1 DEF Refused, CarriesNew
  <2>1. CASE Ends(c)
    BY <1>0, <2>1, EndedCarries
  <2>2. CASE ~Ends(c) /\ Retries(c, o)
    <3>1. /\ tool'[c].at = "sleep" /\ tool[c].at = "sent"
          /\ tool'[c].attempt = tool[c].attempt + 1
          /\ tool'[c].round = tool[c].round /\ tool'[c].bearer = tool[c].bearer
          /\ tool'[c].refused = Refused(c, o)
      BY <1>0, <1>10, <2>2, AnsweredType DEF Refreshes
    <3>2. Renews(c) /\ made[c].by = "tool" => Refused(c, o) = tool[c].refused
      BY <2>2 DEF Retries, ShouldRetry, ToolRetries, Renews, Refused
    <3>3. tool'[c].attempt # 1
      BY <1>0, <3>1
    <3>4. Issued(tool[c].bearer)' /\ (\A t \in tool[c].refused : Issued(t))'
      BY <1>0, <1>1, <2>0, <3>1 DEF CarriesNew
    <3> QED
      BY <1>0, <1>3, <3>1, <3>2, <3>3, <3>4 DEF CarriesNew
  <2>3. CASE ~Ends(c) /\ ~Retries(c, o)
    <3>1. /\ tool'[c].at = "refresh" /\ tool[c].at = "sent"
          /\ tool'[c].round = tool[c].round /\ tool'[c].bearer = tool[c].bearer
          /\ tool'[c].refused = Refused(c, o)
          /\ AskForced(c)
      BY <1>0, <1>10, <2>3, AnsweredType
    <3>2. GetsNew(c, tool[c].refused)'
      <4>1. \/ get'[c].at = "returned" /\ get'[c].token = NoToken
            \/ get'[c].at = "lock" /\ get'[c].forced
        BY <1>0, <3>1, AskType DEF AskForced
      <4> QED
        BY <4>1 DEF GetsNew
    <3>3. Issued(tool[c].bearer)' /\ (\A t \in tool[c].refused : Issued(t))'
      BY <1>0, <1>1, <2>0, <3>1 DEF CarriesNew
    <3> QED
      BY <1>3, <3>1, <3>2, <3>3 DEF CarriesNew
  <2> QED
    BY <2>1, <2>2, <2>3
<1> QED
  BY <1>2, <1>4, <1>5, <1>6, <1>7, <1>8, <1>9, <1>10

(* The request after a 401 carries another token than the refused one,     *)
(* whatever other calls exchanged and cached meanwhile (HttpToolCalls!     *)
(* RefusedTokenNotReused).                                                 *)
THEOREM RefusedNeverReused == Spec => []RefusedTokenNotReused
<1> DEFINE Inv == CallInv /\ TokensIssued /\ CostsPaid /\ RefusedBehind
<1>1. Init => Inv
  <2> SUFFICES ASSUME Init PROVE Inv
    OBVIOUS
  <2>1. \A c \in Call : tool[c] = IdleTool /\ get[c] = IdleGet
    BY DEF Init, TokensInit
  <2>2. TokensIssued
    BY <2>1, IdleGetType DEF Init, TokensInit, TokensIssued, Issued
  <2>3. RefusedBehind
    BY <2>1, IdleToolType DEF RefusedBehind, CarriesNew, Issued
  <2> QED
    BY <2>2, <2>3, CallInvInit, CostsInit
<1>2. Inv /\ [Next]_vars => Inv'
  BY CallInvStep, TokensIssuedStep, CostsStep, RefusedStep DEF CallInv, TypeOK, TokensType
<1>3. Inv => RefusedTokenNotReused
  BY RefusedImplies DEF CallInv
<1> QED
  BY <1>1, <1>2, <1>3, PTL DEF Spec
-----------------------------------------------------------------------------
(* The refinement of TokenService.  A call holds a token only when it has  *)
(* returned, one that forces a refresh never looks at the cache, and an    *)
(* answer on its way to the cache is newer than what it will replace.      *)
Plain(g) ==
  /\ g.at # "returned" => g.token = NoToken
  /\ g.at \in {"read", "again"} => ~g.forced

AnswersNewer ==
  \A c \in Call :
    get[c].at = "answered" /\ entry # NoEntry => entry.access < get[c].answer.access

ServiceInv == (\A c \in Call : Plain(get[c])) /\ AnswersNewer

LEMMA PhaseOf ==
  ASSUME NEW g \in Get, Plain(g)
  PROVE  /\ g.at = "idle" => ServicePhase(g) = Service!Away
         /\ g.at \in {"read", "lock", "again"} => ServicePhase(g) = Service!Waiting(g.forced, g.since)
         /\ g.at \in {"exchange", "sent", "answered"} => ServicePhase(g) = Service!Exchanging
         /\ g.at = "returned" => ServicePhase(g) = Service!Given(g.token)
<1>0. /\ g.at \in {"idle", "read", "lock", "again", "exchange", "sent", "answered", "returned"}
      /\ g.forced \in BOOLEAN
  BY DEF Get
<1>1. CASE g.at = "idle"
  <2>1. ServiceAt(g) = "away" /\ g.token = NoToken
    BY <1>1 DEF ServiceAt, Plain
  <2> QED
    BY <1>1, <2>1 DEF ServicePhase, Service!Away
<1>2. CASE g.at \in {"read", "lock", "again"}
  <2>1. ServiceAt(g) = "waits" /\ g.token = NoToken
    BY <1>2 DEF ServiceAt, Plain
  <2> QED
    BY <1>0, <1>2, <2>1 DEF ServicePhase, Service!Waiting
<1>3. CASE g.at \in {"exchange", "sent", "answered"}
  <2>1. ServiceAt(g) = "exchanges" /\ g.token = NoToken
    BY <1>3 DEF ServiceAt, Plain
  <2> QED
    BY <1>3, <2>1 DEF ServicePhase, Service!Exchanging
<1>4. CASE g.at = "returned"
  <2>1. ServiceAt(g) = "given"
    BY <1>4 DEF ServiceAt
  <2> QED
    BY <1>4, <2>1 DEF ServicePhase, Service!Given
<1> QED
  BY <1>0, <1>1, <1>2, <1>3, <1>4

LEMMA PhaseAt ==
  ASSUME get \in [Call -> Get], \A c \in Call : Plain(get[c]), NEW c \in Call
  PROVE  /\ ServiceCaller[c] = ServicePhase(get[c])
         /\ ServiceCaller[c].at = "exchanges" <=> Exchanging(c)
         /\ ServiceCaller[c].at = "waits" => ServiceCaller[c].insists = get[c].forced
<1>1. ServiceCaller[c] = ServicePhase(get[c]) /\ get[c] \in Get /\ Plain(get[c])
  BY DEF ServiceCaller
<1>2. get[c].at \in {"idle", "read", "lock", "again", "exchange", "sent", "answered", "returned"}
  BY <1>1 DEF Get
<1> QED
  BY <1>1, <1>2, PhaseOf DEF Exchanging, Service!Away, Service!Waiting, Service!Exchanging, Service!Given

(* A step of one call moves that call of the service and no other. *)
LEMMA CallerMoves ==
  ASSUME NEW c \in Call, Others(c), NEW phase, ServicePhase(get'[c]) = phase
  PROVE  Service!Becomes(c, phase)
<1>1. \A d \in Call : ServicePhase(get'[d]) =
        IF d = c THEN phase ELSE ServicePhase(get[d])
  BY DEF Others
<1> HIDE DEF ServicePhase
<1> QED
  BY <1>1 DEF Service!Becomes, ServiceCaller

LEMMA CallerStays ==
  ASSUME NEW c \in Call, Others(c), ServicePhase(get'[c]) = ServicePhase(get[c])
  PROVE  ServiceCaller' = ServiceCaller
<1>1. \A d \in Call : ServicePhase(get'[d]) = ServicePhase(get[d])
  BY DEF Others
<1> HIDE DEF ServicePhase
<1> QED
  BY <1>1 DEF ServiceCaller

LEMMA ServiceFresh ==
  ASSUME entry \in Entry \cup {NoEntry}, NEW time
  PROVE  /\ Service!FreshAt(time) <=> FreshAt(time)
         /\ entry # NoEntry => ServiceCached # NoEntry /\ ServiceCached.access = entry.access
<1>1. CASE entry = NoEntry
  BY <1>1 DEF Service!FreshAt, FreshAt, ServiceCached
<1>2. CASE entry # NoEntry
  <2>1. entry.access \in Token /\ entry.expires \in Expiry
    BY <1>2 DEF Entry
  <2>2. ServiceCached = [access |-> entry.access, expires |-> entry.expires]
    BY <1>2 DEF ServiceCached
  <2>3. ServiceCached \in [access : Token, expires : Expiry]
    BY <2>1, <2>2
  <2>4. ServiceCached # NoEntry
    BY <2>3, TokensAssumption
  <2> QED
    BY <1>2, <2>2, <2>4 DEF Service!FreshAt, FreshAt
<1> QED
  BY <1>1, <1>2

LEMMA ServiceInvStep ==
  ASSUME TokensType, AnswerHeld, HolderAlone, TokensIssued, ServiceInv, TokenOp
  PROVE  ServiceInv'
<1> USE TokenConstants
<1>0. /\ get \in [Call -> Get] /\ now \in 0..MaxNow
      /\ entry \in Entry \cup {NoEntry}
      /\ \A c \in Call : Plain(get[c])
      /\ AnswersNewer
  BY DEF TokensType, ServiceInv
<1>1. ASSUME get' = get, entry' = entry
      PROVE  ServiceInv'
  BY <1>0, <1>1 DEF ServiceInv, AnswersNewer, Plain
<1>2. ASSUME NEW c \in Call, Others(c), entry' = entry, get'[c].at # "answered", Plain(get'[c])
      PROVE  ServiceInv'
  BY <1>0, <1>2 DEF ServiceInv, AnswersNewer, Others, Plain
<1>3. ASSUME NEW c \in Call, NEW token \in Token \cup {NoToken}, Returns(c, token)
      PROVE  Others(c) /\ get'[c].at # "answered" /\ Plain(get'[c])
  BY <1>0, <1>3, ReturnsType DEF Plain
<1>4. ASSUME NEW c \in Call, NEW forced \in BOOLEAN, Ask(c, forced)
      PROVE  ServiceInv'
  <2>1. Others(c) /\ get'[c].at # "answered" /\ Plain(get'[c])
    BY <1>0, <1>4, AskType DEF Plain
  <2> QED
    BY <1>2, <1>4, <2>1 DEF Ask
<1>5. ASSUME NEW c \in Call, ReadCache(c) \/ TakeLock(c) \/ ReadAgain(c)
      PROVE  ServiceInv'
  <2>1. FreshAt(get[c].since) => entry.access \in Token
    BY <1>0, FreshType
  <2>2. CASE Returns(c, entry.access) /\ FreshAt(get[c].since)
    BY <1>2, <1>3, <1>5, <2>1, <2>2 DEF ReadCache, TakeLock, ReadAgain
  <2>3. CASE Goes(c, "lock") \/ Goes(c, "exchange")
    <3>1. Others(c) /\ get'[c].at \in {"lock", "exchange"} /\ get'[c].token = get[c].token
      BY <1>0, <2>3, GoesType
    <3>2. get[c].token = NoToken
      BY <1>0, <1>5 DEF Plain, ReadCache, TakeLock, ReadAgain
    <3> QED
      BY <1>2, <1>5, <3>1, <3>2 DEF Plain, ReadCache, TakeLock, ReadAgain
  <2>4. CASE TakeLock(c)
    <3>1. /\ Others(c) /\ get[c].at = "lock" /\ get'[c].token = get[c].token
          /\ get'[c].at = IF get[c].forced THEN "exchange" ELSE "again"
          /\ get'[c].forced = get[c].forced
      BY <1>0, <2>4, TakeType
    <3>2. get'[c].at # "answered" /\ Plain(get'[c])
      BY <1>0, <3>1 DEF Plain
    <3> QED
      BY <1>2, <2>4, <3>1, <3>2 DEF TakeLock
  <2> QED
    BY <1>5, <2>2, <2>3, <2>4 DEF ReadCache, ReadAgain
<1>6. ASSUME NEW c \in Call, SendExchange(c)
      PROVE  ServiceInv'
  <2>1. /\ Others(c) /\ get[c].at = "exchange" /\ get'[c].at = "sent"
        /\ get'[c].token = get[c].token
    BY <1>0, <1>6 DEF SendExchange, Others, Get
  <2>2. Plain(get'[c])
    BY <1>0, <2>1 DEF Plain
  <2> QED
    BY <1>2, <1>6, <2>1, <2>2 DEF SendExchange
<1>7. ASSUME NEW c \in Call, EndpointIssues(c)
      PROVE  ServiceInv'
  <2>1. /\ Others(c) /\ get[c].at = "sent" /\ get'[c].at = "answered"
        /\ get'[c].token = get[c].token /\ get'[c].answer.access = issued + 1
        /\ entry' = entry
    BY <1>0, <1>7 DEF EndpointIssues, Others, Get
  <2>2. Plain(get'[c])
    BY <1>0, <2>1 DEF Plain
  <2>3. entry # NoEntry => entry.access < issued + 1
    <3>1. entry # NoEntry => entry.access \in Nat
      BY <1>0 DEF Entry, Token
    <3>2. issued \in Nat
      BY DEF TokensType
    <3> QED
      BY <3>1, <3>2 DEF TokensIssued
  <2> QED
    BY <1>0, <2>1, <2>2, <2>3 DEF ServiceInv, AnswersNewer, Others
<1>8. ASSUME NEW c \in Call, EndpointFails(c)
      PROVE  ServiceInv'
  BY <1>2, <1>3, <1>8 DEF EndpointFails, Fails
<1>9. ASSUME NEW c \in Call, StoreToken(c)
      PROVE  ServiceInv'
  <2>1. get[c].answer.access \in Token
    BY <1>9 DEF StoreToken, AnswerHeld, Answer
  <2>2. Others(c) /\ get'[c].at # "answered" /\ Plain(get'[c])
    BY <1>3, <1>9, <2>1 DEF StoreToken, Fails
  <2>3. \A d \in Call \ {c} : get[d].at # "answered"
    BY <1>9 DEF StoreToken, HolderAlone, Holding
  <2> QED
    BY <1>0, <2>2, <2>3 DEF ServiceInv, AnswersNewer, Others
<1>10. ASSUME NEW c \in Call, Take(c) \/ Abandon(c)
       PROVE  ServiceInv'
  <2>1. Others(c) /\ get'[c].at # "answered" /\ Plain(get'[c])
    BY <1>0, <1>10, IdleGetType DEF Take, Abandon, Others, Plain
  <2> QED
    BY <1>2, <1>10, <2>1 DEF Take, Abandon
<1>11. CASE Tick \/ UNCHANGED tokenVars
  BY <1>1, <1>11 DEF Tick, tokenVars
<1> QED
  BY <1>4, <1>5, <1>6, <1>7, <1>8, <1>9, <1>10, <1>11 DEF TokenOp, GetStep

(* Each operation of the manager is one of the service, or none.           *)
LEMMA ServiceStep ==
  ASSUME TokensType, AnswerHeld, LooksBehind, HolderAlone, ServiceInv, ServiceInv', TokensType',
         TokenOp
  PROVE  Service!Next \/ UNCHANGED <<now, ServiceCached, ServiceCaller>>
<1> USE TokenConstants
<1>0. /\ get \in [Call -> Get] /\ get' \in [Call -> Get]
      /\ now \in Nat /\ now \in 0..MaxNow
      /\ entry \in Entry \cup {NoEntry}
      /\ \A c \in Call : Plain(get[c]) /\ Plain(get'[c])
      /\ \A c \in Call : get[c].since \in Nat
  BY DEF TokensType, ServiceInv, Get
<1>1. ASSUME entry' = entry
      PROVE  ServiceCached' = ServiceCached
  BY <1>1 DEF ServiceCached
<1>2. ASSUME NEW c \in Call, Others(c), get'[c].at = "returned"
      PROVE  Service!Becomes(c, Service!Given(get'[c].token))
  <2> DEFINE token == get'[c].token
  <2>1. ServicePhase(get'[c]) = Service!Given(token)
    BY <1>0, <1>2, PhaseOf
  <2>2. PICK phase : phase = Service!Given(token)
    OBVIOUS
  <2> QED
    BY <1>2, <2>1, <2>2, CallerMoves
<1>3. ASSUME NEW c \in Call, NEW token \in Token \cup {NoToken}, Returns(c, token)
      PROVE  Others(c) /\ get'[c].at = "returned" /\ get'[c].token = token
  BY <1>0, <1>3, ReturnsType
<1>4. ASSUME NEW c \in Call, Others(c), get'[c].at \in {"exchange", "sent", "answered"}
      PROVE  Service!Becomes(c, Service!Exchanging)
  BY <1>0, <1>4, PhaseOf, CallerMoves
<1>5. ASSUME NEW c \in Call, Others(c), get'[c].at \in {"read", "lock", "again"}
      PROVE  Service!Becomes(c, Service!Waiting(get'[c].forced, get'[c].since))
  <2>1. PICK phase : phase = Service!Waiting(get'[c].forced, get'[c].since)
    OBVIOUS
  <2> QED
    BY <1>0, <1>5, <2>1, PhaseOf, CallerMoves
<1>6. ASSUME NEW c \in Call, FreshAt(get[c].since), get[c].at \in {"read", "again"},
             Returns(c, entry.access), entry' = entry, now' = now
      PROVE  Service!Share(c)
  <2>1. entry.access \in Token /\ entry # NoEntry
    BY <1>0, <1>6, FreshType DEF FreshAt
  <2>2. Others(c) /\ get'[c].at = "returned" /\ get'[c].token = entry.access
    BY <1>3, <1>6, <2>1
  <2>3. /\ ServiceCaller[c].at = "waits" /\ ~ServiceCaller[c].insists
        /\ ServiceCaller[c].since = get[c].since
    BY <1>0, <1>6, PhaseAt, PhaseOf DEF Service!Waiting, Plain
  <2>4. Service!FreshAt(get[c].since) /\ ServiceCached.access = entry.access
    BY <1>0, <1>6, <2>1, ServiceFresh
  <2>5. Service!Becomes(c, Service!Given(entry.access))
    BY <1>2, <2>2
  <2> QED
    BY <1>1, <1>6, <2>3, <2>4, <2>5 DEF Service!Share, Service!Waits
<1>7. ASSUME NEW c \in Call, get[c].at \in {"lock", "again"}, Others(c),
             \A d \in Call : ~Exchanging(d),
             get[c].forced \/ ~Fresh, get'[c].at = "exchange", entry' = entry, now' = now
      PROVE  Service!Exchange(c)
  <2>1. Service!Becomes(c, Service!Exchanging)
    BY <1>4, <1>7
  <2>2. \A d \in Call : ServiceCaller[d].at # "exchanges"
    BY <1>0, <1>7, PhaseAt
  <2>3. ServiceCaller[c].at = "waits" /\ ServiceCaller[c].insists = get[c].forced
    BY <1>0, <1>7, PhaseAt, PhaseOf DEF Service!Waiting
  <2>4. Service!FreshAt(now) => Fresh
    BY <1>0, ServiceFresh DEF Fresh
  <2> QED
    BY <1>1, <1>7, <2>1, <2>2, <2>3, <2>4 DEF Service!Exchange, Service!Waits
<1>8. CASE Tick
  <2>1. ServiceCaller' = ServiceCaller
    BY <1>8 DEF Tick, ServiceCaller
  <2>2. Service!Tick
    BY <1>1, <1>8, <2>1 DEF Tick, Service!Tick
  <2> QED
    BY <2>2 DEF Service!Next
<1>9. ASSUME NEW c \in Call, NEW forced \in BOOLEAN, get[c].at = "idle", Ask(c, forced)
      PROVE  Service!Next
  <2>1. ServiceCaller[c].at = "away"
    BY <1>0, <1>9, PhaseAt, PhaseOf DEF Service!Away
  <2>2. /\ Others(c)
        /\ \/ get'[c].at = "returned" /\ get'[c].token = NoToken
           \/ /\ get'[c].at = IF forced THEN "lock" ELSE "read"
              /\ get'[c].forced = forced /\ get'[c].since = now
    BY <1>0, <1>9, AskType
  <2>3. \/ Service!Becomes(c, Service!Given(NoToken))
        \/ \E insists \in BOOLEAN : Service!Becomes(c, Service!Waiting(insists, now))
    BY <1>2, <1>5, <2>2
  <2>4. Service!Ask(c)
    BY <1>1, <1>9, <2>1, <2>3 DEF Ask, Service!Ask
  <2> QED
    BY <2>4 DEF Service!Next
<1>10. ASSUME NEW c \in Call, ReadCache(c)
       PROVE  Service!Next \/ UNCHANGED <<now, ServiceCached, ServiceCaller>>
  <2>1. CASE FreshAt(get[c].since)
    <3>1. Service!Share(c)
      BY <1>6, <1>10, <2>1 DEF ReadCache
    <3> QED
      BY <3>1 DEF Service!Next
  <2>2. CASE ~FreshAt(get[c].since)
    <3>1. /\ Others(c) /\ get[c].at = "read" /\ get'[c].at = "lock"
          /\ get'[c].forced = get[c].forced /\ get'[c].since = get[c].since
      BY <1>0, <1>10, <2>2, GoesType DEF ReadCache
    <3>2. ServicePhase(get'[c]) = ServicePhase(get[c])
      BY <1>0, <3>1, PhaseOf
    <3> QED
      BY <1>1, <1>10, <3>1, <3>2, CallerStays DEF ReadCache
  <2> QED
    BY <2>1, <2>2
<1>11. ASSUME NEW c \in Call, TakeLock(c)
       PROVE  Service!Next
  <2>1. /\ Others(c) /\ get[c].at = "lock"
        /\ get'[c].at = IF get[c].forced THEN "exchange" ELSE "again"
        /\ get'[c].forced = get[c].forced /\ get'[c].since = now
        /\ entry' = entry /\ now' = now /\ lock = NoCall
    BY <1>0, <1>11, TakeType DEF TakeLock, LockFree
  <2>2. \A d \in Call : ~Exchanging(d)
    BY <2>1 DEF HolderAlone, Holding, Exchanging
  <2>3. CASE get[c].forced
    <3>1. Service!Exchange(c)
      BY <1>7, <2>1, <2>2, <2>3
    <3> QED
      BY <3>1 DEF Service!Next
  <2>4. CASE ~get[c].forced
    <3>1. ServiceCaller[c].at = "waits" /\ ServiceCaller[c].insists = get[c].forced
      BY <1>0, <2>1, PhaseAt, PhaseOf DEF Service!Waiting
    <3>2. Service!Becomes(c, Service!Waiting(ServiceCaller[c].insists, now))
      BY <1>5, <2>1, <2>4, <3>1
    <3>3. Service!Look(c)
      BY <1>1, <2>1, <3>1, <3>2 DEF Service!Look, Service!Waits
    <3> QED
      BY <3>3 DEF Service!Next
  <2> QED
    BY <2>3, <2>4
<1>12. ASSUME NEW c \in Call, ReadAgain(c)
       PROVE  Service!Next
  <2>1. CASE FreshAt(get[c].since) /\ Returns(c, entry.access)
    <3>1. Service!Share(c)
      BY <1>6, <1>12, <2>1 DEF ReadAgain
    <3> QED
      BY <3>1 DEF Service!Next
  <2>2. CASE ~FreshAt(get[c].since) /\ Goes(c, "exchange")
    <3>1. Others(c) /\ get[c].at = "again" /\ get'[c].at = "exchange"
      BY <1>0, <1>12, <2>2, GoesType DEF ReadAgain
    <3>2. ~Fresh
      BY <1>0, <2>2, StaleStays DEF LooksBehind, Fresh
    <3>3. \A d \in Call : ~Exchanging(d)
      BY <3>1 DEF HolderAlone, Holding, Exchanging
    <3>4. Service!Exchange(c)
      BY <1>7, <1>12, <3>1, <3>2, <3>3 DEF ReadAgain
    <3> QED
      BY <3>4 DEF Service!Next
  <2> QED
    BY <1>12, <2>1, <2>2 DEF ReadAgain
<1>13. ASSUME NEW c \in Call, SendExchange(c) \/ EndpointIssues(c)
       PROVE  UNCHANGED <<now, ServiceCached, ServiceCaller>>
  <2>1. /\ Others(c) /\ get[c].at \in {"exchange", "sent"}
        /\ get'[c].at \in {"sent", "answered"} /\ entry' = entry /\ now' = now
    BY <1>0, <1>13 DEF SendExchange, EndpointIssues, Others, Get
  <2>2. ServicePhase(get'[c]) = ServicePhase(get[c])
    BY <1>0, <2>1, PhaseOf
  <2> QED
    BY <1>1, <2>1, <2>2, CallerStays
<1>14. ASSUME NEW c \in Call, get[c].at \in {"sent", "answered"}, Returns(c, NoToken),
              entry' = entry, now' = now
       PROVE  Service!Next
  <2>1. Service!Becomes(c, Service!Given(NoToken))
    BY <1>2, <1>3, <1>14
  <2>2. ServiceCaller[c].at = "exchanges"
    BY <1>0, <1>14, PhaseAt DEF Exchanging
  <2>3. Service!Fail(c)
    BY <1>1, <1>14, <2>1, <2>2 DEF Service!Fail
  <2> QED
    BY <2>3 DEF Service!Next
<1>15. ASSUME NEW c \in Call, StoreToken(c)
       PROVE  Service!Next
  <2> DEFINE answer == get[c].answer
  <2>1. answer \in Answer /\ answer.access \in Token /\ get[c].at = "answered" /\ now' = now
    BY <1>15 DEF StoreToken, AnswerHeld, Answer
  <2>2. CASE answer.lifetime = TooLong
    BY <1>14, <1>15, <2>1, <2>2 DEF StoreToken, Fails
  <2>3. CASE answer.lifetime # TooLong
    <3>1. /\ Returns(c, answer.access)
          /\ entry' = [access |-> answer.access, refresh |-> NextRefresh(answer),
                       expires |-> ExpiryOf(answer)]
      BY <1>15, <2>3 DEF StoreToken
    <3>2. Others(c) /\ get'[c].at = "returned" /\ get'[c].token = answer.access
      BY <1>3, <2>1, <3>1
    <3>3. Service!Becomes(c, Service!Given(answer.access))
      BY <1>2, <3>2
    <3>4. ExpiryOf(answer) \in Expiry
      <4>1. answer.lifetime \in Nat \cup {Never}
        BY <2>1, <2>3 DEF Answer
      <4> QED
        BY <1>0, <4>1 DEF ExpiryOf, Expiry
    <3>5. ServiceCached' = [access |-> answer.access, expires |-> ExpiryOf(answer)]
      <4>1. entry' \in Entry
        BY <2>1, <3>1, <3>4, RefreshTokenType DEF Entry, NextRefresh, Answer
      <4>2. entry' # NoEntry
        BY <4>1
      <4>3. entry'.access = answer.access /\ entry'.expires = ExpiryOf(answer)
        BY <3>1
      <4> QED
        BY <4>2, <4>3 DEF ServiceCached
    <3>6. Service!Newer(answer.access)
      <4>1. entry # NoEntry => entry.access \in Nat /\ ServiceCached.access = entry.access
        BY <1>0, ServiceFresh DEF Entry, Token
      <4>2. entry # NoEntry => entry.access < answer.access
        BY <2>1 DEF ServiceInv, AnswersNewer
      <4>3. entry = NoEntry => ServiceCached = NoEntry
        BY DEF ServiceCached
      <4>4. answer.access \in Nat
        BY <2>1 DEF Token
      <4> QED
        BY <4>1, <4>2, <4>3, <4>4 DEF Service!Newer
    <3>7. ServiceCached' \in [access : {t \in Token : Service!Newer(t)}, expires : Nat \cup {Never}]
      BY <2>1, <3>4, <3>5, <3>6 DEF Expiry
    <3>8. ServiceCaller[c].at = "exchanges"
      BY <1>0, <2>1, PhaseAt DEF Exchanging
    <3>9. Service!Renew(c)
      BY <2>1, <3>3, <3>5, <3>7, <3>8 DEF Service!Renew
    <3> QED
      BY <3>9 DEF Service!Next
  <2> QED
    BY <2>2, <2>3
<1>16. ASSUME NEW c \in Call, Take(c) \/ Abandon(c)
       PROVE  Service!Next
  <2>1. Others(c) /\ get'[c].at = "idle" /\ entry' = entry /\ now' = now
    BY <1>0, <1>16, IdleGetType DEF Take, Abandon, Others
  <2>2. Service!Becomes(c, Service!Away)
    BY <1>0, <2>1, PhaseOf, CallerMoves
  <2>3. Service!Leave(c)
    BY <1>1, <2>1, <2>2 DEF Service!Leave
  <2> QED
    BY <2>3 DEF Service!Next
<1>17. CASE UNCHANGED tokenVars
  BY <1>1, <1>17 DEF tokenVars, ServiceCaller
<1>18. ASSUME NEW c \in Call, EndpointFails(c)
       PROVE  Service!Next
  BY <1>14, <1>18 DEF EndpointFails, Fails
<1> QED
  BY <1>8, <1>9, <1>10, <1>11, <1>12, <1>13, <1>15, <1>16, <1>17, <1>18 DEF TokenOp, GetStep

(* The token manager implements TokenService, whatever the calls do: a     *)
(* token is shared only while it is fresh, exchanged for by one call at a  *)
(* time, and replaced by a newer one only (OutboundTokens!                 *)
(* ImplementsService).                                                     *)
THEOREM ManagerImplementsService == Spec => ImplementsService
<1> DEFINE Inv == CallInv /\ HolderAlone /\ TokensIssued /\ ServiceInv
<1>1. Init => Inv /\ Service!Init
  <2> SUFFICES ASSUME Init PROVE Inv /\ Service!Init
    OBVIOUS
  <2>1. /\ \A c \in Call : get[c] = IdleGet /\ get[c].at = "idle" /\ get[c].token = NoToken
        /\ get \in [Call -> Get] /\ entry = NoEntry /\ now = 0
    BY IdleGetType DEF Init, TokensInit
  <2>2. HolderAlone /\ TokensIssued /\ ServiceInv
    BY <2>1 DEF HolderAlone, Holding, Exchanging, TokensIssued, Issued, ServiceInv, Plain,
                AnswersNewer
  <2>3. \A c \in Call : ServicePhase(get[c]) = Service!Away
    BY <2>1, PhaseOf DEF Plain
  <2>4. ServiceCaller = [c \in Call |-> Service!Away]
    <3> HIDE DEF ServicePhase
    <3> QED
      BY <2>3 DEF ServiceCaller
  <2> QED
    BY <2>1, <2>2, <2>4, CallInvInit DEF Service!Init, ServiceCached
<1>2. Inv /\ [Next]_vars => Inv' /\ [Service!Next]_<<now, ServiceCached, ServiceCaller>>
  <2> SUFFICES ASSUME Inv, [Next]_vars
               PROVE  Inv' /\ [Service!Next]_<<now, ServiceCached, ServiceCaller>>
    OBVIOUS
  <2>1. CallInv' /\ TokenOp
    BY CallInvStep
  <2>2. TokensType /\ AnswerHeld /\ LooksBehind /\ TokensType'
    BY <2>1 DEF CallInv, TypeOK, TokensType
  <2>3. HolderAlone' /\ TokensIssued' /\ ServiceInv'
    BY <2>1, <2>2, HolderStep, TokensIssuedStep, ServiceInvStep
  <2> QED
    BY <2>1, <2>2, <2>3, ServiceStep
<1> QED
  BY <1>1, <1>2, PTL DEF Spec, ImplementsService, Service!Spec, Service!serviceVars
=============================================================================
