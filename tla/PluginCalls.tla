---------------------------- MODULE PluginCalls ----------------------------
(***************************************************************************)
(* Calls of plugin tools (engine/orchestration/tool_dispatch.rs) and what  *)
(* a running plugin does through its PluginContext (plugins/context.rs,    *)
(* plugins/progress.rs): it reports progress, asks its client, and is told *)
(* about a cancellation.                                                   *)
(*                                                                         *)
(* A PluginContext can be cloned: the reporters of a call are the tasks    *)
(* that hold a clone.  Some are part of the future of plugin.call(), which *)
(* the engine drops; others the plugin has spawned, and they outlive it.   *)
(* Requests that are refused, or that a throttled reporter drops, change   *)
(* nothing and are not steps.                                              *)
(***************************************************************************)
EXTENDS Naturals, Sequences

CONSTANTS
  Call,          \* tools/call requests for plugin tools, with a progress token
  Cancellable,   \* those whose tool is configured cancellable
  Reporter,      \* tasks that hold the context of a call
  CallOf,        \* CallOf[r] : the call whose context r holds
  Detached,      \* reporters the plugin has spawned
  Interval,      \* progress.notification_interval_ms, in ticks
  MaxProgress,   \* bound of the progress values
  MaxNow,        \* bound of the clock
  None           \* nothing reported yet

Progress == [value : 1..MaxProgress, admitted : 0..MaxNow]

ASSUME PluginAssumption ==
  /\ Cancellable \subseteq Call
  /\ CallOf \in [Reporter -> Call]
  /\ Detached \subseteq Reporter
  /\ Interval \in Nat
  /\ MaxProgress \in Nat
  /\ MaxNow \in Nat
  /\ None \notin Nat \cup Progress

VARIABLES
  now,        \* Instant::now()
  call,       \* call[c] : where a call is, or how it was answered
  cancelled,  \* calls whose request the client has cancelled
  tracker,    \* tracker[c] : ProgressStateInner
  reporter,   \* reporter[r] : what r waits for, and the progress it sends
  sent        \* sent[c] : the progress notifications put on the wire

vars == <<now, call, cancelled, tracker, reporter, sent>>

Answer == {"result", "toolError", "cancelled", "tooLarge"}

Init ==
  /\ now = 0
  /\ call = [c \in Call |-> "idle"]
  /\ cancelled = {}
  /\ tracker = [c \in Call |-> [last |-> None, at |-> None]]
  /\ reporter = [r \in Reporter |-> [at |-> "idle", progress |-> None]]
  /\ sent = [c \in Call |-> <<>>]

Tick ==
  /\ now < MaxNow
  /\ now' = now + 1
  /\ UNCHANGED <<call, cancelled, tracker, reporter, sent>>

-----------------------------------------------------------------------------
(* execute_plugin_tool: the plugin runs under a select! with the token of  *)
(* its context, or to its end.                                             *)

Inner(c) == {r \in Reporter \ Detached : CallOf[r] = c}

StartCall(c) ==
  /\ call[c] = "idle"
  /\ call' = [call EXCEPT ![c] = "running"]
  /\ UNCHANGED <<now, cancelled, tracker, reporter, sent>>

(* notifications/cancelled of the client. *)
CancelRequest(c) ==
  /\ call[c] = "running"
  /\ cancelled' = cancelled \cup {c}
  /\ UNCHANGED <<now, call, tracker, reporter, sent>>

(* Mutant of ContextCancelled. *)
ContextNeverCancelled(c) == FALSE

(* The token of the context is the request's, or a fresh one that nobody   *)
(* cancels when the tool is not cancellable.                               *)
ContextCancelled(c) == c \in cancelled /\ c \in Cancellable

(* The future of plugin.call() ends or is dropped, and with it whatever it *)
(* was waiting for.                                                        *)
Dropped(c) ==
  [r \in Reporter |-> IF r \in Inner(c) THEN [at |-> "gone", progress |-> None]
                      ELSE reporter[r]]

(* The result passes the limits of execute_tool_with_context or the client *)
(* gets an internal error in its place.                                    *)
Limited(a) == {a, "tooLarge"}

AnswerCall(c, a) ==
  /\ \E answer \in Limited(a) : call' = [call EXCEPT ![c] = answer]
  /\ reporter' = Dropped(c)
  /\ UNCHANGED <<now, cancelled, tracker, sent>>

(* plugin.call() returns, its own awaits behind it; an error, and structured *)
(* output that does not match the schema, become tool errors.              *)
PluginReturns(c) ==
  /\ call[c] = "running"
  /\ \A r \in Inner(c) : reporter[r].at = "idle"
  /\ AnswerCall(c, "result") \/ AnswerCall(c, "toolError")

(* A panic is caught wherever it happens. *)
PluginPanics(c) ==
  /\ call[c] = "running"
  /\ AnswerCall(c, "toolError")

ObserveCancel(c) ==
  /\ call[c] = "running"
  /\ ContextCancelled(c)
  /\ AnswerCall(c, "cancelled")

-----------------------------------------------------------------------------
(* notify_progress *)

Alive(r) ==
  \/ call[CallOf[r]] = "running"
  \/ r \in Detached /\ call[CallOf[r]] # "idle"

(* Mutant of Throttled. *)
ThrottledTooShort(t) == t.at # None /\ now - t.at + 1 < Interval

Throttled(t) == t.at # None /\ now - t.at < Interval

(* Mutant of Increases. *)
IncreasesOrStays(t, p) == t.last # None => p >= t.last

Increases(t, p) == t.last # None => p > t.last

(* Mutant of Recorded. *)
OnlyValueRecorded(t, p) == [t EXCEPT !.last = p]

Recorded(t, p) == [last |-> p, at |-> now]

(* should_send, under the lock of the tracker. *)
AdmitProgress(r, p) ==
  LET c == CallOf[r] IN
  /\ Alive(r)
  /\ reporter[r].at = "idle"
  /\ ~Throttled(tracker[c])
  /\ Increases(tracker[c], p)
  /\ tracker' = [tracker EXCEPT ![c] = Recorded(@, p)]
  /\ reporter' = [reporter EXCEPT
                    ![r].at = "send",
                    ![r].progress = [value |-> p, admitted |-> now]]
  /\ UNCHANGED <<now, call, cancelled, sent>>

(* peer.notify_progress, after the unlock; the transport may refuse. *)
SendProgress(r) ==
  LET c == CallOf[r] IN
  /\ reporter[r].at = "send"
  /\ reporter' = [reporter EXCEPT ![r] = [at |-> "idle", progress |-> None]]
  /\ \/ sent' = [sent EXCEPT ![c] = Append(@, reporter[r].progress)]
     \/ UNCHANGED sent
  /\ UNCHANGED <<now, call, cancelled, tracker>>

-----------------------------------------------------------------------------
(* request_roots, request_sampling and request_elicitation of a client     *)
(* that has the capability.                                                *)

AskClient(r) ==
  /\ Alive(r)
  /\ reporter[r].at = "idle"
  /\ reporter' = [reporter EXCEPT ![r].at = "asking"]
  /\ UNCHANGED <<now, call, cancelled, tracker, sent>>

(* The client answers, or its connection ends: there is no timeout. *)
ClientAnswers(r) ==
  /\ reporter[r].at = "asking"
  /\ reporter' = [reporter EXCEPT ![r].at = "idle"]
  /\ UNCHANGED <<now, call, cancelled, tracker, sent>>

-----------------------------------------------------------------------------
Next ==
  \/ Tick
  \/ \E c \in Call :
       \/ StartCall(c)
       \/ CancelRequest(c)
       \/ PluginReturns(c)
       \/ PluginPanics(c)
       \/ ObserveCancel(c)
  \/ \E r \in Reporter :
       \/ \E p \in 1..MaxProgress : AdmitProgress(r, p)
       \/ SendProgress(r)
       \/ AskClient(r)
       \/ ClientAnswers(r)

Spec == Init /\ [][Next]_vars

(* tokio polls the select! again when the token is cancelled, provided that *)
(* the plugin does not block its thread, and a reporter when the transport *)
(* is ready.  A plugin owes no result, nor does a client an answer.        *)
FairSpec ==
  /\ Spec
  /\ \A c \in Call : WF_vars(ObserveCancel(c))
  /\ \A r \in Reporter : WF_vars(SendProgress(r))

-----------------------------------------------------------------------------
(* Every variable has its type; a tracker has a time with its value, and a *)
(* reporter has progress exactly while it sends.                           *)
TypeOK ==
  /\ now \in 0..MaxNow
  /\ call \in [Call -> {"idle", "running"} \cup Answer]
  /\ cancelled \subseteq Call
  /\ tracker \in [Call -> [last : 1..MaxProgress \cup {None},
                           at : 0..MaxNow \cup {None}]]
  /\ reporter \in [Reporter -> [at : {"idle", "send", "asking", "gone"},
                                progress : Progress \cup {None}]]
  /\ sent \in [Call -> Seq(Progress)]
  /\ \A c \in Call : tracker[c].last = None <=> tracker[c].at = None
  /\ \A r \in Reporter : reporter[r].at = "send" <=> reporter[r].progress # None

(* Whatever tasks share the context of a call, its notifications carry     *)
(* different values, the larger one was admitted later, and an interval    *)
(* lies between their admissions (progress.rs:49-71).                      *)
ProgressSpaced ==
  \A c \in Call : \A i, j \in DOMAIN sent[c] :
    i # j =>
      LET a == sent[c][i]
          b == sent[c][j] IN
      /\ a.value # b.value
      /\ a.value < b.value =>
           a.admitted <= b.admitted /\ b.admitted - a.admitted >= Interval

(* README.md:69: "Cancellable tools are aborted automatically;             *)
(* non-cancellable tools receive a fresh token and run to completion."     *)
(* A cancelled call of a cancellable tool is answered although its plugin, *)
(* or the client the plugin asks, never returns; no other call is answered *)
(* as cancelled.                                                           *)
CancellationObeyed ==
  /\ \A c \in Cancellable :
       (call[c] = "running" /\ c \in cancelled) ~> (call[c] \in Answer)
  /\ [](\A c \in Call :
          call[c] = "cancelled" => c \in cancelled \cap Cancellable)
=============================================================================
