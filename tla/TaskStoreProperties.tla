------------------------ MODULE TaskStoreProperties ------------------------
(***************************************************************************)
(* What must hold of TaskStore: the safety invariants, the action          *)
(* properties, the liveness properties under FairSpec, and the refinement  *)
(* of TaskLifecycle.                                                       *)
(***************************************************************************)
EXTENDS TaskStore

Present(t) == entries[t] # NoEntry
Working(t) == Present(t) /\ entries[t].status = "working"
Settled(t) == Present(t) /\ IsTerminal(entries[t].status)
Gone(t)    == ~Present(t) /\ req[t] # "none"
Stopped(t) == worker[t] \in {"done", "interrupted", "aborted"}

Notice ==
  [task : TaskId, from : {"worker", "cancel"}, status : Terminal]

(* Every variable of the store has its type. *)
TypeOK ==
  /\ now \in Nat
  /\ entries \in [TaskId -> Entry \cup {NoEntry}]
  /\ tokens \subseteq TaskId
  /\ aborts \subseteq TaskId
  /\ req \in [TaskId -> {"none", "spawn", "attach", "returned"}]
  /\ worker \in [TaskId -> InTool \cup
                  {"none", "finishing", "notifying", "done", "interrupted", "aborted"}]
  /\ outcome \in [TaskId -> Outcome \cup {"none"}]
  /\ waiting \in [Waiter -> {"idle", "lock", "register", "parked", "answered"}]
  /\ answer \in [Waiter -> Result \cup {"none", "notFound"}]
  /\ cancelling \subseteq TaskId
  /\ notices \subseteq Notice

(* A task that is still working can still finish: its worker is to be      *)
(* spawned, runs or is about to call finish(), and neither its token nor   *)
(* its join handle has been cancelled by anybody.  Cancel, expiry, Drop,   *)
(* attach_handle on a lost entry and finish's own abort all fire them.     *)
WorkingTaskHasWorker ==
  \A t \in TaskId : Working(t) =>
    /\ req[t] = "spawn" \/ worker[t] \in InTool \cup {"finishing"}
    /\ t \notin tokens
    /\ t \notin aborts

(* No worker outlives its task: once the enqueue handler has returned and  *)
(* the entry is gone, the worker has ended or its handle has been aborted, *)
(* whichever of create, attach_handle and the expiry came first; and the   *)
(* token of every task that is gone or was cancelled is cancelled.         *)
NoOrphanWorker ==
  \A t \in TaskId :
    /\ Gone(t) /\ req[t] = "returned" => Stopped(t) \/ t \in aborts
    /\ Gone(t) => t \in tokens
    /\ Present(t) /\ entries[t].status = "cancelled" => t \in tokens

(* Whoever told a client about the end of a task: the worker that finished *)
(* it, the handler that cancelled it, or an answer of tasks/result.        *)
Told(t) ==
  {n.status : n \in {m \in notices : m.task = t}}
    \cup {StatusOf(answer[w]) :
            w \in {v \in Waiter : WaitTask[v] = t /\ answer[v] \in Result}}

(* finish() and cancel() race for a task, its entry may expire before the  *)
(* winner's notification is sent, and several tasks/result requests are    *)
(* woken: they all report one outcome, and it is the entry's own status.   *)
OneOutcome ==
  \A t \in TaskId :
    /\ \A s1, s2 \in Told(t) : s1 = s2
    /\ Present(t) => Told(t) \subseteq {entries[t].status}

(* At most one terminal status notification is sent for a task. *)
AtMostOneNotice ==
  \A n1, n2 \in notices : n1.task = n2.task => n1 = n2

(* A terminal task keeps its status and result until its entry is removed, *)
(* and a removed task never comes back: the late finish() of a cancelled   *)
(* or expired task changes nothing (tasks.rs:97).                          *)
TerminalIsFinal ==
  [][\A t \in TaskId :
       /\ Settled(t) =>
            \/ entries'[t] = NoEntry
            \/ /\ entries'[t].status = entries[t].status
               /\ entries'[t].result = entries[t].result
       /\ Gone(t) => entries'[t] = NoEntry]_vars

-----------------------------------------------------------------------------
(* When tools return, every task is settled or removed in the end. *)
TaskSettles == ToolsReturn => \A t \in TaskId : Working(t) ~> ~Working(t)

(* The tool of a cancelled task stops unless it is uninterruptible, also    *)
(* when the cancellation came before the handle was attached, and when the  *)
(* worker was not even spawned.                                             *)
CancelledToolStops ==
  \A t \in TaskId :
    (Present(t) /\ entries[t].status = "cancelled")
      ~> (Stopped(t) \/ worker[t] = "uninterruptible")

(* A tasks/result request that is registered on the Notify of a working    *)
(* task is answered unless the task is removed before it settles; tools     *)
(* return.                                                                  *)
RegisteredWaiterAnswered ==
  ToolsReturn => \A w \in Waiter :
    (waiting[w] = "parked" /\ Working(WaitTask[w]))
      ~> (waiting[w] = "answered" \/ Gone(WaitTask[w]))

(* docs/TASKS.md:34: "tasks/result" blocks until a terminal status and      *)
(* receives the result, so a request on a task that settles and stays is   *)
(* answered.                                                               *)
ResultAnswered ==
  \A w \in Waiter :
    (waiting[w] # "idle") ~> (waiting[w] = "answered")

-----------------------------------------------------------------------------
(* The store as a TaskLifecycle. *)
LifeState ==
  [t \in TaskId |->
     IF req[t] = "none" THEN "uncreated"
     ELSE IF Present(t) THEN entries[t].status ELSE "gone"]

LifeTold == [t \in TaskId |-> Told(t)]

Lifecycle == INSTANCE TaskLifecycle WITH state <- LifeState, told <- LifeTold

(* The store keeps the promise of TaskLifecycle. *)
ImplementsLifecycle == Lifecycle!Spec
=============================================================================
