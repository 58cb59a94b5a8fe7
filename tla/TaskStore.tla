----------------------------- MODULE TaskStore -----------------------------
(***************************************************************************)
(* The task store of the engine (engine/tasks.rs) with the handlers that   *)
(* drive it (engine/handler/task_requests.rs): the enqueue handler that    *)
(* creates a task, spawns its worker and attaches the join handle, the     *)
(* worker that executes the tool and finishes the task, and the tasks/get, *)
(* tasks/list, tasks/result and tasks/cancel requests.                     *)
(*                                                                         *)
(* Every store operation runs under one tokio mutex and is one action; an  *)
(* await between two operations is a boundary between two actions.         *)
(* Handlers refuse at once when the request is already cancelled, tasks    *)
(* are disabled or the tool forbids tasks: these change nothing and are    *)
(* not steps.                                                              *)
(***************************************************************************)
EXTENDS Naturals

CONSTANTS
  TaskId,        \* the UUIDs that create() draws, each at most once
  Peer,          \* peer keys (client_notifications::peer_key)
  Waiter,        \* tasks/result requests
  WaitTask,      \* WaitTask[w] : the task id request w names
  WaitPeer,      \* WaitPeer[w] : the peer key of request w
  Ttl,           \* the ttl values, in clock ticks, that requests carry
  NoTtl,         \* no ttl in the request: the task never expires
  NoEntry,       \* the id is not a key of the HashMap
  MaxNow,        \* bound of the clock
  StatusNotifications   \* tasks.status_notifications is active

(* A worker inside its tool: the select! on its token ends the tool, or the *)
(* tool is configured cancellable = false.                                  *)
InTool == {"running", "uninterruptible"}

Outcome  == {"ok", "toolError", "error"}     \* what the worker's tool returns
Result   == Outcome \cup {"cancelled"}       \* terminal_result = Some(_)
Terminal == {"completed", "failed", "cancelled"}
Status   == {"working"} \cup Terminal

Entry ==
  [peer : Peer, ttl : Ttl \cup {NoTtl}, created : Nat, status : Status,
   result : Result \cup {"none"}, handle : {"none", "attached"}]

ASSUME ConstantsAssumption ==
  /\ Ttl \subseteq Nat
  /\ NoTtl \notin Nat
  /\ NoEntry \notin Entry
  /\ MaxNow \in Nat
  /\ WaitTask \in [Waiter -> TaskId]
  /\ WaitPeer \in [Waiter -> Peer]
  /\ StatusNotifications \in BOOLEAN

VARIABLES
  now,         \* Utc::now(), in ticks
  entries,     \* TaskStoreInner::entries
  tokens,      \* tasks whose CancellationToken has been cancelled
  aborts,      \* tasks whose JoinHandle has been aborted
  req,         \* req[t] : the enqueue handler that draws id t
  worker,      \* worker[t] : the tokio task spawned for t
  outcome,     \* outcome[t] : what the tool of t returned
  waiting,     \* waiting[w] : where request w is in wait_for_result
  answer,      \* answer[w] : what request w was answered
  cancelling,  \* tasks whose tasks/cancel handler has yet to send its notice
  notices      \* notifications/tasks/status frames sent

vars == <<now, entries, tokens, aborts, req, worker, outcome, waiting, answer,
          cancelling, notices>>

(* is_terminal *)
IsTerminal(status) == status \in Terminal

(* The status that finish() and cancel() derive from the stored result. *)
StatusOf(result) ==
  CASE result = "ok" -> "completed"
    [] result = "cancelled" -> "cancelled"
    [] OTHER -> "failed"

Init ==
  /\ now = 0
  /\ entries = [t \in TaskId |-> NoEntry]
  /\ tokens = {}
  /\ aborts = {}
  /\ req = [t \in TaskId |-> "none"]
  /\ worker = [t \in TaskId |-> "none"]
  /\ outcome = [t \in TaskId |-> "none"]
  /\ waiting = [w \in Waiter |-> "idle"]
  /\ answer = [w \in Waiter |-> "none"]
  /\ cancelling = {}
  /\ notices = {}

Tick ==
  /\ now < MaxNow
  /\ now' = now + 1
  /\ UNCHANGED <<entries, tokens, aborts, req, worker, outcome, waiting, answer,
                 cancelling, notices>>

-----------------------------------------------------------------------------
(* cleanup_expired, which every operation but attach_handle runs first, and *)
(* the Drop of the entries it removes.                                      *)

IsExpired(t) ==
  /\ entries[t] # NoEntry
  /\ entries[t].ttl # NoTtl
  /\ now - entries[t].created >= entries[t].ttl

ExpiredTasks == {t \in TaskId : IsExpired(t)}

Cleaned ==
  [t \in TaskId |-> IF t \in ExpiredTasks THEN NoEntry ELSE entries[t]]

(* Drop for TaskEntry: cancel the token, abort the handle if there is one. *)
DroppedTokens == tokens \cup ExpiredTasks
DroppedAborts ==
  aborts \cup {t \in ExpiredTasks : entries[t].handle = "attached"}

(* Mutant of StillWorking. *)
StillPresent(t) == Cleaned[t] # NoEntry

StillWorking(t) == Cleaned[t] # NoEntry /\ ~IsTerminal(Cleaned[t].status)

(* What finish() and cancel() do to the entry they end: the result and the *)
(* status it implies are stored, and the handle is taken and aborted.      *)
Ended(e, result) ==
  [e EXCEPT !.status = StatusOf(result), !.result = result, !.handle = "none"]

TakeHandle(t) ==
  IF entries[t].handle = "attached" THEN DroppedAborts \cup {t} ELSE DroppedAborts

(* Mutant of Woken. *)
WokenNobody(t) == waiting

(* notify_waiters() wakes the requests that wait on the Notify of t. *)
Woken(t) ==
  [w \in Waiter |->
     IF waiting[w] = "parked" /\ WaitTask[w] = t THEN "lock" ELSE waiting[w]]

-----------------------------------------------------------------------------
(* handle_enqueue_task_request *)

NewEntry(p, ttl) ==
  [peer |-> p, ttl |-> ttl, created |-> now, status |-> "working",
   result |-> "none", handle |-> "none"]

Create(t, p, ttl) ==
  /\ req[t] = "none"
  /\ entries' = [Cleaned EXCEPT ![t] = NewEntry(p, ttl)]
  /\ tokens' = DroppedTokens
  /\ aborts' = DroppedAborts
  /\ req' = [req EXCEPT ![t] = "spawn"]
  /\ UNCHANGED <<now, worker, outcome, waiting, answer, cancelling, notices>>

Spawn(t) ==
  /\ req[t] = "spawn"
  /\ req' = [req EXCEPT ![t] = "attach"]
  /\ \E tool \in InTool : worker' = [worker EXCEPT ![t] = tool]
  /\ UNCHANGED <<now, entries, tokens, aborts, outcome, waiting, answer,
                 cancelling, notices>>

(* Mutant of AttachHandle. *)
AttachHandleLeaks(t) ==
  /\ req[t] = "attach"
  /\ req' = [req EXCEPT ![t] = "returned"]
  /\ entries' = IF entries[t] = NoEntry THEN entries
                ELSE [entries EXCEPT ![t].handle = "attached"]
  /\ UNCHANGED <<now, tokens, aborts, worker, outcome, waiting, answer, cancelling,
                 notices>>

(* Mutant of AttachHandle. *)
AttachHandleAborts(t) ==
  /\ req[t] = "attach"
  /\ req' = [req EXCEPT ![t] = "returned"]
  /\ aborts' = aborts \cup {t}
  /\ UNCHANGED <<now, entries, tokens, worker, outcome, waiting, answer, cancelling,
                 notices>>

AttachHandle(t) ==
  /\ req[t] = "attach"
  /\ req' = [req EXCEPT ![t] = "returned"]
  /\ \/ /\ entries[t] # NoEntry
        /\ entries' = [entries EXCEPT ![t].handle = "attached"]
        /\ UNCHANGED aborts
     \/ /\ entries[t] = NoEntry
        /\ aborts' = aborts \cup {t}
        /\ UNCHANGED entries
  /\ UNCHANGED <<now, tokens, worker, outcome, waiting, answer, cancelling,
                 notices>>

-----------------------------------------------------------------------------
(* The worker. *)

(* The tool returns; a panic is caught and becomes an error result. *)
Execute(t, r) ==
  /\ worker[t] \in InTool
  /\ worker' = [worker EXCEPT ![t] = "finishing"]
  /\ outcome' = [outcome EXCEPT ![t] = r]
  /\ UNCHANGED <<now, entries, tokens, aborts, req, waiting, answer, cancelling,
                 notices>>

(* finish() finds the task gone or terminal and returns None, or records   *)
(* the result, aborts the attached handle (its own) and wakes the waiters. *)
Finish(t) ==
  /\ worker[t] = "finishing"
  /\ tokens' = DroppedTokens
  /\ \/ /\ ~StillWorking(t)
        /\ entries' = Cleaned
        /\ aborts' = DroppedAborts
        /\ worker' = [worker EXCEPT ![t] = "done"]
        /\ UNCHANGED waiting
     \/ /\ StillWorking(t)
        /\ entries' = [Cleaned EXCEPT ![t] = Ended(Cleaned[t], outcome[t])]
        /\ aborts' = TakeHandle(t)
        /\ worker' = [worker EXCEPT ![t] =
                        IF StatusNotifications THEN "notifying" ELSE "done"]
        /\ waiting' = Woken(t)
  /\ UNCHANGED <<now, req, outcome, answer, cancelling, notices>>

(* notify_task_status of the worker; a failed send is ignored. *)
WorkerNotify(t) ==
  /\ worker[t] = "notifying"
  /\ worker' = [worker EXCEPT ![t] = "done"]
  /\ \/ notices' = notices \cup
          {[task |-> t, from |-> "worker", status |-> StatusOf(outcome[t])]}
     \/ UNCHANGED notices
  /\ UNCHANGED <<now, entries, tokens, aborts, req, outcome, waiting, answer,
                 cancelling>>

(* tokio drops an aborted task at its next await: inside the tool, waiting *)
(* for the store's lock, or sending its own notification.                  *)
WorkerAborted(t) ==
  /\ t \in aborts
  /\ worker[t] \in InTool \cup {"finishing", "notifying"}
  /\ worker' = [worker EXCEPT ![t] =
                  IF worker[t] \in InTool THEN "interrupted" ELSE "aborted"]
  /\ UNCHANGED <<now, entries, tokens, aborts, req, outcome, waiting, answer,
                 cancelling, notices>>

-----------------------------------------------------------------------------
(* tasks/get and tasks/list: what they leave behind is the cleanup. *)
Poll ==
  /\ ExpiredTasks # {}
  /\ entries' = Cleaned
  /\ tokens' = DroppedTokens
  /\ aborts' = DroppedAborts
  /\ UNCHANGED <<now, req, worker, outcome, waiting, answer, cancelling, notices>>

(* Mutant of MayCancel. *)
MayCancelAgain(t, p) == Cleaned[t] # NoEntry /\ Cleaned[t].peer = p

(* Mutant of CancelledTokens. *)
CancelledTokensForgotten(t) == DroppedTokens

(* tasks/cancel of peer p: refused (not found, not p's, already terminal)   *)
(* after the cleanup, or the task is cancelled and its waiters are woken.   *)
MayCancel(t, p) == StillWorking(t) /\ Cleaned[t].peer = p

CancelledTokens(t) == DroppedTokens \cup {t}

Cancel(t, p) ==
  /\ \/ /\ ~MayCancel(t, p)
        /\ ExpiredTasks # {}
        /\ entries' = Cleaned
        /\ tokens' = DroppedTokens
        /\ aborts' = DroppedAborts
        /\ UNCHANGED <<waiting, cancelling>>
     \/ /\ MayCancel(t, p)
        /\ entries' = [Cleaned EXCEPT ![t] = Ended(Cleaned[t], "cancelled")]
        /\ tokens' = CancelledTokens(t)
        /\ aborts' = TakeHandle(t)
        /\ waiting' = Woken(t)
        /\ cancelling' = IF StatusNotifications
                           THEN cancelling \cup {t} ELSE cancelling
  /\ UNCHANGED <<now, req, worker, outcome, answer, notices>>

(* notify_task_status of the cancel handler; when the send fails the       *)
(* request is answered with an error although the task is cancelled.       *)
CancelNotify(t) ==
  /\ t \in cancelling
  /\ cancelling' = cancelling \ {t}
  /\ \/ notices' = notices \cup
          {[task |-> t, from |-> "cancel", status |-> "cancelled"]}
     \/ UNCHANGED notices
  /\ UNCHANGED <<now, entries, tokens, aborts, req, worker, outcome, waiting,
                 answer>>

-----------------------------------------------------------------------------
(* tasks/result: wait_for_result. *)

WaitStart(w) ==
  /\ waiting[w] = "idle"
  /\ waiting' = [waiting EXCEPT ![w] = "lock"]
  /\ UNCHANGED <<now, entries, tokens, aborts, req, worker, outcome, answer,
                 cancelling, notices>>

Reply(w, a) ==
  /\ waiting' = [waiting EXCEPT ![w] = "answered"]
  /\ answer' = [answer EXCEPT ![w] = a]

(* Under the lock: answer, or take a clone of the Notify and unlock. *)
WaitLock(w) ==
  LET e == Cleaned[WaitTask[w]] IN
  /\ waiting[w] = "lock"
  /\ entries' = Cleaned
  /\ tokens' = DroppedTokens
  /\ aborts' = DroppedAborts
  /\ \/ /\ e = NoEntry
        /\ Reply(w, "notFound")
     \/ /\ e # NoEntry
        /\ e.peer # WaitPeer[w]
        /\ Reply(w, "notFound")
     \/ /\ e # NoEntry
        /\ e.peer = WaitPeer[w]
        /\ e.result # "none"
        /\ Reply(w, e.result)
     \/ /\ e # NoEntry
        /\ e.peer = WaitPeer[w]
        /\ e.result = "none"
        /\ waiting' = [waiting EXCEPT ![w] = "register"]
        /\ UNCHANGED answer
  /\ UNCHANGED <<now, req, worker, outcome, cancelling, notices>>

(* notify.notified(): from here on notify_waiters() reaches the request. *)
WaitRegister(w) ==
  /\ waiting[w] = "register"
  /\ waiting' = [waiting EXCEPT ![w] = "parked"]
  /\ UNCHANGED <<now, entries, tokens, aborts, req, worker, outcome, answer,
                 cancelling, notices>>

-----------------------------------------------------------------------------
WorkerStep(t) ==
  \/ \E r \in Outcome : Execute(t, r)
  \/ Finish(t)
  \/ WorkerNotify(t)
  \/ WorkerAborted(t)

Next ==
  \/ Tick
  \/ Poll
  \/ \E t \in TaskId :
       \/ \E p \in Peer, ttl \in Ttl \cup {NoTtl} : Create(t, p, ttl)
       \/ Spawn(t)
       \/ AttachHandle(t)
       \/ WorkerStep(t)
       \/ \E p \in Peer : Cancel(t, p)
       \/ CancelNotify(t)
  \/ \E w \in Waiter : WaitStart(w) \/ WaitLock(w) \/ WaitRegister(w)

Spec == Init /\ [][Next]_vars

(* The select! on the token ends the tool of a cancelled task, unless it is *)
(* configured cancellable = false.                                         *)
ObserveToken(t) ==
  /\ t \in tokens
  /\ worker[t] = "running"
  /\ Execute(t, "toolError")

(* The tokio scheduler polls every ready task again and the store's mutex   *)
(* is FIFO.  Clients owe nothing: no fairness for new requests, and none    *)
(* for the clock; and a tool may run forever.                               *)
Fairness ==
  /\ \A t \in TaskId :
       /\ WF_vars(Spawn(t))
       /\ WF_vars(AttachHandle(t))
       /\ WF_vars(ObserveToken(t))
       /\ WF_vars(Finish(t))
       /\ WF_vars(WorkerNotify(t))
       /\ WF_vars(WorkerAborted(t))
       /\ WF_vars(CancelNotify(t))
  /\ \A w \in Waiter : WF_vars(WaitLock(w)) /\ WF_vars(WaitRegister(w))

FairSpec == Spec /\ Fairness

(* Every tool returns in the end: HTTP tools time out, plugins are trusted. *)
ToolsReturn == \A t \in TaskId : WF_vars(\E r \in Outcome : Execute(t, r))

ReturningSpec == FairSpec /\ ToolsReturn
=============================================================================
