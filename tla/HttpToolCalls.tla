---------------------------- MODULE HttpToolCalls ----------------------------
(***************************************************************************)
(* Calls on one upstream that wants OAuth2 tokens: of HTTP tools           *)
(* (engine/orchestration/tool_dispatch.rs) and of plugins, by send_with or *)
(* for a token alone (plugins/context.rs).  Both get a token, send the     *)
(* request with retries (http/outbound_pipeline.rs), and after a 401 do    *)
(* all of it once more with a token that was exchanged anew.               *)
(*                                                                         *)
(* The header map is last-wins: whatever the layers below say, a call      *)
(* carries the manager's token ("oauth"), or something of its own that it  *)
(* put over it ("own"), or it asks for no token at all ("other": auth None *)
(* or Explicit, or an upstream without oauth2).                            *)
(*                                                                         *)
(* The upstream is external: it answers as it likes.  A task that is       *)
(* cancelled or expires aborts its call at any await (TaskStore).          *)
(***************************************************************************)
EXTENDS OutboundTokens

CONSTANTS
  Making,        \* who makes the calls, and with what authorization
  Retryable,     \* calls whose method is GET, HEAD, OPTIONS or DELETE
  Cancellable,   \* calls with a cancellation token: of cancellable tools
  MaxAttempts,   \* retry.max_attempts, 1 without a retry configuration
  Retried        \* outcomes that on_statuses and on_network_errors name

(* network : a failed request; invalid : one that the client does not send; *)
(* unusable : no JSON, which only a tool needs, or a template's error.     *)
Outcome == {"ok", "unauthorized", "status", "network", "invalid", "unusable"}

Made == [by : {"tool", "send", "helper"}, auth : {"oauth", "own", "other"}]

ASSUME CallsAssumption ==
  /\ Making \subseteq [Call -> Made]
  /\ Retryable \subseteq Call
  /\ Cancellable \subseteq Call
  /\ MaxAttempts \in Nat \ {0}
  /\ Retried \subseteq {"unauthorized", "status", "network"}

VARIABLES
  made,        \* made[c] : what call c is
  tool,        \* tool[c] : where it is
  cancelled    \* calls whose cancellation token is cancelled

vars == <<tokenVars, made, tool, cancelled>>

(* at : waiting for a token, about to send, sent, waiting to retry, waiting *)
(* for the forced token, ended.  history: requests sent in all, and the    *)
(* tokens that the upstream refused.                                       *)
Tool ==
  [at : {"idle", "token", "attempt", "sent", "sleep", "refresh", "ended"},
   round : {1, 2}, attempt : 1..MaxAttempts, bearer : Token \cup {NoToken},
   requests : Nat, refused : SUBSET (Token \cup {NoToken})]

IdleTool ==
  [at |-> "idle", round |-> 1, attempt |-> 1, bearer |-> NoToken, requests |-> 0,
   refused |-> {}]

Init ==
  /\ TokensInit
  /\ made \in Making
  /\ tool = [c \in Call |-> IdleTool]
  /\ cancelled = {}

Ended(c) == tool[c].at = "ended"

Ends(c) == tool' = [tool EXCEPT ![c] = [IdleTool EXCEPT !.at = "ended"]]

(* The header layers in order: the last Authorization is the one sent. *)
Carried(c, token) == IF made[c].auth = "oauth" THEN token ELSE NoToken

RoundBegins(c, round, token) ==
  tool' = [tool EXCEPT ![c].at = "attempt", ![c].round = round, ![c].attempt = 1,
                       ![c].bearer = Carried(c, token)]

Asks(c, forced) ==
  /\ made[c].auth # "other"
  /\ tool' = [tool EXCEPT ![c].at = "token"]
  /\ Ask(c, forced)

SendsAtOnce(c) ==
  /\ made[c].auth = "other"
  /\ RoundBegins(c, 1, NoToken)
  /\ UNCHANGED tokenVars

ToolStarts(c) == made[c].by = "tool" /\ (Asks(c, FALSE) \/ SendsAtOnce(c))

SendStarts(c) == made[c].by = "send" /\ (Asks(c, FALSE) \/ SendsAtOnce(c))

(* upstream_access_token refuses an upstream without oauth2; its caller    *)
(* says whether a cached token will do.                                    *)
HelperStarts(c) == made[c].by = "helper" /\ \E forced \in BOOLEAN : Asks(c, forced)

Start(c) ==
  /\ tool[c].at = "idle"
  /\ ToolStarts(c) \/ SendStarts(c) \/ HelperStarts(c)
  /\ UNCHANGED <<made, cancelled>>

(* The manager has answered: send, hand the token over, or report its error. *)
TokenReturned(c) ==
  /\ tool[c].at \in {"token", "refresh"}
  /\ get[c].at = "returned"
  /\ Take(c)
  /\ \/ /\ get[c].token # NoToken /\ made[c].by # "helper"
        /\ RoundBegins(c, IF tool[c].at = "token" THEN 1 ELSE 2, get[c].token)
     \/ /\ get[c].token = NoToken \/ made[c].by = "helper"
        /\ Ends(c)
  /\ UNCHANGED <<made, cancelled>>

(* Mutant of Loops. *)
LoopsWhateverTheMethod(c) == MaxAttempts > 1

(* execute_with_retry loops, and looks at the cancellation token, only for *)
(* a retryable method with more than one attempt.                          *)
Loops(c) == MaxAttempts > 1 /\ c \in Retryable

SeesCancelled(c) == c \in cancelled

StopsBeforeSending(c) == Loops(c) /\ SeesCancelled(c)

(* Outside the loop a tool's select! polls the request and the cancellation *)
(* in either order, so that a cancelled call may send or not; a plugin's   *)
(* send looks at the cancellation in the loop only.                        *)
Attempt(c) ==
  /\ tool[c].at = "attempt"
  /\ \/ /\ ~StopsBeforeSending(c)
        /\ tool' = [tool EXCEPT ![c].at = "sent", ![c].requests = @ + 1]
     \/ /\ SeesCancelled(c)
        /\ made[c].by = "tool" \/ Loops(c)
        /\ Ends(c)
  /\ UNCHANGED <<tokenVars, made, cancelled>>

RefreshEnabled(c) == policy.retryOn401 /\ made[c].auth # "other"

(* A tool leaves a 401 to the refresh and takes every error of the client  *)
(* for a network error; no other result is retried.                        *)
ToolRetries(c, o) ==
  \/ o = "unauthorized" /\ o \in Retried /\ ~RefreshEnabled(c)
  \/ o = "status" /\ o \in Retried
  \/ o \in {"network", "invalid"} /\ "network" \in Retried

(* A send retries a 401 that on_statuses names with the token it has, and  *)
(* of the errors only an internal one.                                     *)
SendRetries(o) == o \in {"unauthorized", "status", "network"} \cap Retried

ShouldRetry(c, o) ==
  \/ made[c].by = "tool" /\ ToolRetries(c, o)
  \/ made[c].by = "send" /\ SendRetries(o)

Retries(c, o) == Loops(c) /\ tool[c].attempt < MaxAttempts /\ ShouldRetry(c, o)

Refreshes(c, o) ==
  ~Retries(c, o) /\ RefreshEnabled(c) /\ o = "unauthorized" /\ tool[c].round = 1

(* Mutant of AskForced. *)
AskUnforced(c) == Ask(c, FALSE)

AskForced(c) == Ask(c, TRUE)

Refused(c, o) ==
  IF o = "unauthorized" THEN tool[c].refused \cup {tool[c].bearer} ELSE tool[c].refused

(* A tool renders its templates and reads the body: both may fail. *)
OutcomesOf(c) == IF made[c].by = "tool" THEN Outcome ELSE Outcome \ {"unusable"}

(* The upstream answers, or the request fails. *)
UpstreamAnswers(c, o) ==
  /\ tool[c].at = "sent"
  /\ o \in OutcomesOf(c)
  /\ \/ /\ Retries(c, o)
        /\ tool' = [tool EXCEPT ![c].at = "sleep", ![c].attempt = @ + 1,
                                ![c].refused = Refused(c, o)]
        /\ UNCHANGED tokenVars
     \/ /\ Refreshes(c, o)
        /\ tool' = [tool EXCEPT ![c].at = "refresh", ![c].refused = Refused(c, o)]
        /\ AskForced(c)
     \/ /\ ~Retries(c, o) /\ ~Refreshes(c, o)
        /\ Ends(c)
        /\ UNCHANGED tokenVars
  /\ UNCHANGED <<made, cancelled>>

SleepEnds(c) ==
  /\ tool[c].at = "sleep"
  /\ tool' = [tool EXCEPT ![c].at = "attempt"]
  /\ UNCHANGED <<tokenVars, made, cancelled>>

(* Mutant of CancelSeen: a request in flight is waited for. *)
CancelSeenInDelay(c) ==
  /\ tool[c].at = "sleep"
  /\ SeesCancelled(c)
  /\ Ends(c)
  /\ UNCHANGED <<tokenVars, made, cancelled>>

(* The delay is left at once on cancellation, and a tool's request in      *)
(* flight; nobody looks at it while a token is awaited.                    *)
CancelSeen(c) ==
  /\ tool[c].at \in {"sent", "sleep"}
  /\ made[c].by = "tool" \/ tool[c].at = "sleep"
  /\ SeesCancelled(c)
  /\ Ends(c)
  /\ UNCHANGED <<tokenVars, made, cancelled>>

(* A cancelled notification of the client; other calls never look at it. *)
Cancel(c) ==
  /\ c \in Cancellable
  /\ tool[c].at # "idle"
  /\ ~Ended(c)
  /\ cancelled' = cancelled \cup {c}
  /\ UNCHANGED <<tokenVars, made, tool>>

(* The call runs as a task that is aborted, or in a plugin whose future is  *)
(* dropped.                                                                *)
AbandonCall(c) ==
  /\ tool[c].at # "idle"
  /\ ~Ended(c)
  /\ Ends(c)
  /\ Abandon(c)
  /\ UNCHANGED <<made, cancelled>>

TokenStep(c) ==
  /\ GetStep(c)
  /\ UNCHANGED <<made, tool, cancelled>>

TickStep ==
  /\ Tick
  /\ UNCHANGED <<made, tool, cancelled>>

Next ==
  \/ TickStep
  \/ \E c \in Call :
       \/ Start(c)
       \/ TokenStep(c)
       \/ TokenReturned(c)
       \/ Attempt(c)
       \/ SleepEnds(c)
       \/ CancelSeen(c)
       \/ Cancel(c)
       \/ AbandonCall(c)
       \/ \E o \in Outcome : UpstreamAnswers(c, o)

Spec == Init /\ [][Next]_vars

(* The runtime polls a ready call and wakes one whose cancellation token   *)
(* fires, and the token endpoint answers or fails: an exchange goes out    *)
(* without a timeout and relies on it.  Nobody owes a call, a cancellation *)
(* or an abort, nor does the upstream owe an answer.                       *)
CallRuns(c) ==
  \/ TokenStep(c)
  \/ TokenReturned(c)
  \/ Attempt(c)
  \/ SleepEnds(c)
  \/ CancelSeen(c)

FairSpec == Spec /\ \A c \in Call : WF_vars(CallRuns(c))

(* The upstream answers, or timeout_ms is set and the request fails.       *)
UpstreamReplies ==
  \A c \in Call : WF_vars(\E o \in Outcome : UpstreamAnswers(c, o))

-----------------------------------------------------------------------------
(* Every variable has its type. *)
TypeOK ==
  /\ policy \in Policy
  /\ now \in 0..MaxNow
  /\ entry \in Entry \cup {NoEntry}
  /\ lock \in Call \cup {NoCall}
  /\ get \in [Call -> Get]
  /\ issued \in 0..MaxIssued
  /\ valid \subseteq Token
  /\ lost \in BOOLEAN
  /\ made \in [Call -> Made]
  /\ tool \in [Call -> Tool]
  /\ cancelled \subseteq Cancellable

(* What a call may cost its upstream: the attempts of the configuration,   *)
(* twice if retry_on_401_once, and a method that must not be repeated goes *)
(* out again only after the upstream has refused it                        *)
(* (outbound_pipeline.rs:125-168, tool_dispatch.rs:314-355,                *)
(* context.rs:486-552).                                                    *)
Attempts(c) == IF c \in Retryable THEN MaxAttempts ELSE 1

RequestsBounded ==
  \A c \in Call :
    /\ tool[c].requests <= IF policy.retryOn401 THEN 2 * Attempts(c) ELSE Attempts(c)
    /\ c \notin Retryable /\ tool[c].requests > 1 => tool[c].refused # {}

(* The request after a 401 carries another token than the refused one,     *)
(* whatever other calls exchanged and cached meanwhile: always that of a   *)
(* tool, and a plugin's once it has refreshed, since its retries repeat a  *)
(* 401 that on_statuses names (tool_dispatch.rs:324-352,                   *)
(* context.rs:486-607, token_manager.rs:221-273).                          *)
RefusedTokenNotReused ==
  \A c \in Call :
    /\ RefreshEnabled(c) /\ made[c].auth = "oauth" /\ tool[c].at = "sent"
    /\ made[c].by = "tool" \/ (tool[c].round = 2 /\ tool[c].attempt = 1)
    => tool[c].bearer \notin tool[c].refused

(* A cancelled tool call ends although the upstream may never answer it,    *)
(* wherever the cancellation finds it: waiting for a token or for somebody *)
(* else's exchange, between two rounds, before, in or after a request, in  *)
(* the delay; only some of these look at the token                         *)
(* (outbound_pipeline.rs:146-165, tool_dispatch.rs:314-355, 424-433).      *)
CancelledToolEnds ==
  \A c \in Call : (c \in cancelled /\ made[c].by = "tool") ~> Ended(c)

(* A call ends if the upstream replies, whatever happens to those that     *)
(* hold the refresh lock: they fail, are aborted, or wait for an answer.   *)
CallEnds ==
  UpstreamReplies => \A c \in Call : (tool[c].at # "idle") ~> Ended(c)
=============================================================================
