-------------------------- MODULE TaskStoreProofs --------------------------
(***************************************************************************)
(* Proofs about TaskStore for every set of tasks, peers and requests.      *)
(***************************************************************************)
EXTENDS TaskStoreProperties, TLAPS

USE DEF InTool, Outcome, Result, Terminal, Status

(* What cleanup_expired leaves is typed like what it found. *)
LEMMA CleanedType ==
  ASSUME TypeOK
  PROVE  /\ Cleaned \in [TaskId -> Entry \cup {NoEntry}]
         /\ DroppedTokens \subseteq TaskId
         /\ DroppedAborts \subseteq TaskId
  BY DEF TypeOK, Cleaned, DroppedTokens, DroppedAborts, ExpiredTasks

(* A result implies a terminal status. *)
LEMMA StatusOfType ==
  ASSUME NEW r \in Result
  PROVE  StatusOf(r) \in Terminal
  BY DEF StatusOf

(* An entry that ends is still an entry, with the result and its status. *)
LEMMA EndedType ==
  ASSUME NEW e \in Entry, NEW r \in Result
  PROVE  /\ Ended(e, r) \in Entry
         /\ Ended(e, r).status = StatusOf(r)
         /\ Ended(e, r).result = r
         /\ Ended(e, r).handle = "none"
         /\ Ended(e, r).peer = e.peer
  BY StatusOfType DEF Ended, Entry

(* The inductive step of TypeOK needs one fact beside the types: a worker  *)
(* that finishes or notifies has an outcome.                               *)
HasOutcome ==
  \A t \in TaskId :
    worker[t] \in {"finishing", "notifying"} => outcome[t] \in Outcome

LEMMA TypeStep ==
  ASSUME TypeOK, HasOutcome, [Next]_vars
  PROVE  TypeOK' /\ HasOutcome'
<1> USE ConstantsAssumption
<1>1. CASE Tick
  BY <1>1 DEF Tick, TypeOK, HasOutcome
<1>2. CASE Poll
  BY <1>2, CleanedType DEF Poll, TypeOK, HasOutcome
<1>3. ASSUME NEW t \in TaskId, NEW p \in Peer, NEW ttl \in Ttl \cup {NoTtl},
             Create(t, p, ttl)
      PROVE  TypeOK' /\ HasOutcome'
  <2>1. NewEntry(p, ttl) \in Entry
    BY DEF NewEntry, Entry, TypeOK
  <2> QED
    BY <1>3, <2>1, CleanedType DEF Create, TypeOK, HasOutcome
<1>4. ASSUME NEW t \in TaskId, Spawn(t)
      PROVE  TypeOK' /\ HasOutcome'
  BY <1>4 DEF Spawn, TypeOK, HasOutcome
<1>5. ASSUME NEW t \in TaskId, AttachHandle(t)
      PROVE  TypeOK' /\ HasOutcome'
  <2>1. entries' \in [TaskId -> Entry \cup {NoEntry}]
    BY <1>5 DEF AttachHandle, TypeOK, Entry
  <2> QED
    BY <1>5, <2>1 DEF AttachHandle, TypeOK, HasOutcome
<1>6. ASSUME NEW t \in TaskId, NEW r \in Outcome, Execute(t, r)
      PROVE  TypeOK' /\ HasOutcome'
  BY <1>6 DEF Execute, TypeOK, HasOutcome
<1>7. ASSUME NEW t \in TaskId, Finish(t)
      PROVE  TypeOK' /\ HasOutcome'
  <2>1. outcome[t] \in Outcome /\ StatusOf(outcome[t]) \in Status
    BY <1>7, StatusOfType DEF Finish, HasOutcome
  <2>2. entries' \in [TaskId -> Entry \cup {NoEntry}]
    BY <1>7, <2>1, CleanedType, EndedType DEF Finish, StillWorking
  <2>3. waiting' \in [Waiter -> {"idle", "lock", "register", "parked", "answered"}]
    BY <1>7 DEF Finish, Woken, TypeOK
  <2> QED
    BY <1>7, <2>2, <2>3, CleanedType DEF Finish, TakeHandle, TypeOK, HasOutcome
<1>8. ASSUME NEW t \in TaskId, WorkerNotify(t)
      PROVE  TypeOK' /\ HasOutcome'
  <2>1. outcome[t] \in Outcome /\ StatusOf(outcome[t]) \in Terminal
    BY <1>8, StatusOfType DEF WorkerNotify, HasOutcome
  <2>2. notices' \subseteq Notice
    BY <1>8, <2>1 DEF WorkerNotify, TypeOK, Notice
  <2> QED
    BY <1>8, <2>2 DEF WorkerNotify, TypeOK, HasOutcome
<1>9. ASSUME NEW t \in TaskId, WorkerAborted(t)
      PROVE  TypeOK' /\ HasOutcome'
  BY <1>9 DEF WorkerAborted, TypeOK, HasOutcome
<1>10. ASSUME NEW t \in TaskId, NEW p \in Peer, Cancel(t, p)
       PROVE  TypeOK' /\ HasOutcome'
  <2>1. entries' \in [TaskId -> Entry \cup {NoEntry}]
    BY <1>10, CleanedType, EndedType DEF Cancel, MayCancel, StillWorking
  <2>2. waiting' \in [Waiter -> {"idle", "lock", "register", "parked", "answered"}]
    BY <1>10 DEF Cancel, Woken, TypeOK
  <2> QED
    BY <1>10, <2>1, <2>2, CleanedType
    DEF Cancel, CancelledTokens, TakeHandle, TypeOK, HasOutcome
<1>11. ASSUME NEW t \in TaskId, CancelNotify(t)
       PROVE  TypeOK' /\ HasOutcome'
  BY <1>11 DEF CancelNotify, TypeOK, Notice, HasOutcome
<1>12. ASSUME NEW w \in Waiter, WaitStart(w)
       PROVE  TypeOK' /\ HasOutcome'
  BY <1>12 DEF WaitStart, TypeOK, HasOutcome
<1>13. ASSUME NEW w \in Waiter, WaitLock(w)
       PROVE  TypeOK' /\ HasOutcome'
  <2> DEFINE e == Cleaned[WaitTask[w]]
  <2>1. e \in Entry \cup {NoEntry}
    BY CleanedType
  <2>2. e # NoEntry => e.result \in Result \cup {"none"}
    BY <2>1 DEF Entry
  <2>3. /\ waiting' \in [Waiter -> {"idle", "lock", "register", "parked", "answered"}]
        /\ answer' \in [Waiter -> Result \cup {"none", "notFound"}]
    BY <1>13, <2>2 DEF WaitLock, Reply, TypeOK
  <2> QED
    BY <1>13, <2>3, CleanedType DEF WaitLock, TypeOK, HasOutcome
<1>14. ASSUME NEW w \in Waiter, WaitRegister(w)
       PROVE  TypeOK' /\ HasOutcome'
  BY <1>14 DEF WaitRegister, TypeOK, HasOutcome
<1>15. CASE UNCHANGED vars
  BY <1>15 DEF vars, TypeOK, HasOutcome
<1> QED
  BY <1>1, <1>2, <1>3, <1>4, <1>5, <1>6, <1>7, <1>8, <1>9, <1>10, <1>11,
     <1>12, <1>13, <1>14, <1>15 DEF Next, WorkerStep

(* Every variable of the store keeps its type under every operation. *)
THEOREM TypeCorrect == Spec => []TypeOK
<1>1. Init => TypeOK /\ HasOutcome
  BY ConstantsAssumption DEF Init, TypeOK, HasOutcome
<1>2. TypeOK /\ HasOutcome /\ [Next]_vars => TypeOK' /\ HasOutcome'
  BY TypeStep
<1> QED
  BY <1>1, <1>2, PTL DEF Spec

-----------------------------------------------------------------------------
(* The safety invariants.  None of them is inductive alone; IInv adds what  *)
(* the operations keep about handles, about the enqueue handler and about   *)
(* everything that speaks of a task's outcome.                              *)

(* The enqueue handler and the worker move together, and an id that was     *)
(* never drawn has left no trace.                                           *)
Enqueued ==
  \A t \in TaskId :
    /\ req[t] \in {"none", "spawn"} <=> worker[t] = "none"
    /\ req[t] = "none" => ~Present(t) /\ t \notin tokens /\ t \notin aborts

(* Working means that there is no result yet. *)
EntryCoherent ==
  \A t \in TaskId : Present(t) =>
    \/ entries[t].status = "working" /\ entries[t].result = "none"
    \/ /\ entries[t].result \in Result
       /\ entries[t].status = StatusOf(entries[t].result)

(* When the enqueue handler is back, an entry still holds its handle or the *)
(* worker has stopped or been aborted.                                      *)
HandleHeld ==
  \A t \in TaskId : Present(t) /\ req[t] = "returned" =>
    entries[t].handle = "attached" \/ Stopped(t) \/ t \in aborts

(* Nothing says anything about the end of t. *)
Silent(t) ==
  /\ t \notin cancelling
  /\ worker[t] # "notifying"
  /\ \A n \in notices : n.task # t
  /\ \A w \in Waiter : WaitTask[w] = t => answer[w] \notin Result

(* All that says anything about the end of t says s. *)
Agreed(t, s) ==
  /\ t \in cancelling => s = "cancelled"
  /\ worker[t] = "notifying" => s = StatusOf(outcome[t])
  /\ \A n \in notices : n.task = t =>
       /\ n.status = s
       /\ n.from = IF s = "cancelled" THEN "cancel" ELSE "worker"
  /\ \A w \in Waiter :
       WaitTask[w] = t /\ answer[w] \in Result => StatusOf(answer[w]) = s

Agreement ==
  \A t \in TaskId :
    /\ req[t] = "none" \/ Working(t) => Silent(t)
    /\ \E s \in Terminal : Agreed(t, s)
    /\ Settled(t) => Agreed(t, entries[t].status)

(* A request that is not answered yet has no answer. *)
Unanswered ==
  \A w \in Waiter : waiting[w] # "answered" => answer[w] = "none"

IInv ==
  /\ TypeOK
  /\ HasOutcome
  /\ Enqueued
  /\ EntryCoherent
  /\ HandleHeld
  /\ WorkingTaskHasWorker
  /\ NoOrphanWorker
  /\ Unanswered
  /\ Agreement

(* The tail of finish() and of cancel(): the entry that ends was working    *)
(* and not expired, it now holds its outcome and no handle, and the other   *)
(* entries are as the cleanup left them.                                    *)
EndsAs(t, r) ==
  /\ Working(t)
  /\ t \notin ExpiredTasks
  /\ entries'[t] # NoEntry
  /\ entries'[t].status = StatusOf(r)
  /\ entries'[t].result = r
  /\ entries'[t].handle = "none"
  /\ \A u \in TaskId : u # t => entries'[u] = Cleaned[u]

LEMMA EndedEntry ==
  ASSUME TypeOK, NEW t \in TaskId, NEW r \in Result, StillWorking(t),
         entries' = [Cleaned EXCEPT ![t] = Ended(Cleaned[t], r)]
  PROVE  EndsAs(t, r)
<1>1. /\ t \notin ExpiredTasks
      /\ Cleaned[t] = entries[t]
      /\ entries[t] \in Entry
  BY DEF StillWorking, Cleaned, TypeOK
<1>2. entries[t].status = "working"
  BY <1>1 DEF StillWorking, IsTerminal, Entry
<1>3. entries'[t] = Ended(entries[t], r) /\ entries'[t] # NoEntry
  BY <1>1, CleanedType, EndedType, ConstantsAssumption
<1> QED
  BY <1>1, <1>2, <1>3, CleanedType, EndedType, ConstantsAssumption
  DEF Working, Present, EndsAs

LEMMA FinishEnds ==
  ASSUME TypeOK, HasOutcome, NEW t \in TaskId, Finish(t), StillWorking(t)
  PROVE  /\ EndsAs(t, outcome[t])
         /\ outcome[t] \in Result
         /\ StatusOf(outcome[t]) \in {"completed", "failed"}
<1>1. outcome[t] \in Outcome
  BY DEF Finish, HasOutcome
<1>2. entries' = [Cleaned EXCEPT ![t] = Ended(Cleaned[t], outcome[t])]
  BY DEF Finish
<1> QED
  BY <1>1, <1>2, EndedEntry DEF StatusOf

LEMMA CancelEnds ==
  ASSUME TypeOK, NEW t \in TaskId, NEW p \in Peer, Cancel(t, p), MayCancel(t, p)
  PROVE  EndsAs(t, "cancelled") /\ StatusOf("cancelled") = "cancelled"
<1>1. StillWorking(t)
  BY DEF MayCancel
<1>2. entries' = [Cleaned EXCEPT ![t] = Ended(Cleaned[t], "cancelled")]
  BY DEF Cancel
<1> QED
  BY <1>1, <1>2, EndedEntry DEF StatusOf

(* The enqueue handler and its worker move together. *)
LEMMA EnqueuedStep ==
  ASSUME IInv, [Next]_vars
  PROVE  Enqueued'
<1> USE ConstantsAssumption DEF IInv
<1>1. CASE Tick
  BY <1>1
  DEF Tick, TypeOK, Enqueued, Present, Working
<1>2. CASE Poll
  BY <1>2
  DEF Poll, Cleaned, DroppedTokens, DroppedAborts, ExpiredTasks, IsExpired,
      TypeOK, Enqueued, Present, Working
<1>3. ASSUME NEW t \in TaskId, NEW p \in Peer, NEW ttl \in Ttl \cup {NoTtl},
             Create(t, p, ttl)
      PROVE  Enqueued'
  BY <1>3
  DEF Create, NewEntry, Cleaned, DroppedTokens, DroppedAborts, ExpiredTasks,
      IsExpired, TypeOK, Enqueued, Present, Working
<1>4. ASSUME NEW t \in TaskId, Spawn(t)
      PROVE  Enqueued'
  BY <1>4
  DEF Spawn, TypeOK, Enqueued, Present, Working
<1>5. ASSUME NEW t \in TaskId, AttachHandle(t)
      PROVE  Enqueued'
  BY <1>5
  DEF AttachHandle, TypeOK, Enqueued, Present, Working
<1>6. ASSUME NEW t \in TaskId, NEW r \in Outcome, Execute(t, r)
      PROVE  Enqueued'
  BY <1>6
  DEF Execute, TypeOK, Enqueued, Present, Working
<1>7. ASSUME NEW t \in TaskId, Finish(t)
      PROVE  Enqueued'
  <2>1. CASE ~StillWorking(t)
    BY <1>7, <2>1
    DEF Finish, TakeHandle, Cleaned, DroppedTokens, DroppedAborts,
        ExpiredTasks, IsExpired, TypeOK, Enqueued, Present, Working
  <2>2. CASE StillWorking(t)
    <3>1. EndsAs(t, outcome[t]) /\ StatusOf(outcome[t]) \in {"completed", "failed"}
      BY <1>7, <2>2, FinishEnds
    <3> QED
      BY <1>7, <2>2, <3>1
      DEF Finish, TakeHandle, Cleaned, DroppedTokens, DroppedAborts,
          ExpiredTasks, IsExpired, TypeOK, Enqueued, Present, Working, EndsAs
  <2> QED
    BY <2>1, <2>2
<1>8. ASSUME NEW t \in TaskId, WorkerNotify(t)
      PROVE  Enqueued'
  BY <1>8
  DEF WorkerNotify, TypeOK, Enqueued, Present, Working
<1>9. ASSUME NEW t \in TaskId, WorkerAborted(t)
      PROVE  Enqueued'
  BY <1>9
  DEF WorkerAborted, TypeOK, Enqueued, Present, Working
<1>10. ASSUME NEW t \in TaskId, NEW p \in Peer, Cancel(t, p)
      PROVE  Enqueued'
  <2>1. CASE ~MayCancel(t, p)
    BY <1>10, <2>1
    DEF Cancel, TakeHandle, CancelledTokens, Cleaned, DroppedTokens,
        DroppedAborts, ExpiredTasks, IsExpired, TypeOK, Enqueued, Present,
        Working
  <2>2. CASE MayCancel(t, p)
    <3>1. EndsAs(t, "cancelled") /\ StatusOf("cancelled") = "cancelled"
      BY <1>10, <2>2, CancelEnds
    <3> QED
      BY <1>10, <2>2, <3>1
      DEF Cancel, TakeHandle, CancelledTokens, Cleaned, DroppedTokens,
          DroppedAborts, ExpiredTasks, IsExpired, TypeOK, Enqueued, Present,
          Working, EndsAs
  <2> QED
    BY <2>1, <2>2
<1>11. ASSUME NEW t \in TaskId, CancelNotify(t)
      PROVE  Enqueued'
  BY <1>11
  DEF CancelNotify, TypeOK, Enqueued, Present, Working
<1>12. ASSUME NEW w \in Waiter, WaitStart(w)
      PROVE  Enqueued'
  BY <1>12
  DEF WaitStart, TypeOK, Enqueued, Present, Working
<1>13. ASSUME NEW w \in Waiter, WaitLock(w)
      PROVE  Enqueued'
  BY <1>13
  DEF WaitLock, Reply, Cleaned, DroppedTokens, DroppedAborts, ExpiredTasks,
      IsExpired, TypeOK, Enqueued, Present, Working
<1>14. ASSUME NEW w \in Waiter, WaitRegister(w)
      PROVE  Enqueued'
  BY <1>14
  DEF WaitRegister, TypeOK, Enqueued, Present, Working
<1>15. CASE UNCHANGED vars
  BY <1>15
  DEF vars, TypeOK, Enqueued, Present, Working
<1> QED
  BY <1>1, <1>2, <1>3, <1>4, <1>5, <1>6, <1>7, <1>8, <1>9, <1>10, <1>11,
      <1>12, <1>13, <1>14, <1>15
  DEF Next, WorkerStep

(* An entry's status is the one its result implies. *)
LEMMA CoherentStep ==
  ASSUME IInv, [Next]_vars
  PROVE  EntryCoherent'
<1> USE ConstantsAssumption DEF IInv
<1>1. CASE Tick
  BY <1>1
  DEF Tick, TypeOK, EntryCoherent, Present, HasOutcome, Working, Entry
<1>2. CASE Poll
  BY <1>2
  DEF Poll, Cleaned, DroppedTokens, DroppedAborts, ExpiredTasks, IsExpired,
      TypeOK, EntryCoherent, Present, HasOutcome, Working, Entry
<1>3. ASSUME NEW t \in TaskId, NEW p \in Peer, NEW ttl \in Ttl \cup {NoTtl},
             Create(t, p, ttl)
      PROVE  EntryCoherent'
  BY <1>3
  DEF Create, NewEntry, Cleaned, DroppedTokens, DroppedAborts, ExpiredTasks,
      IsExpired, TypeOK, EntryCoherent, Present, HasOutcome, Working, Entry
<1>4. ASSUME NEW t \in TaskId, Spawn(t)
      PROVE  EntryCoherent'
  BY <1>4
  DEF Spawn, TypeOK, EntryCoherent, Present, HasOutcome, Working, Entry
<1>5. ASSUME NEW t \in TaskId, AttachHandle(t)
      PROVE  EntryCoherent'
  BY <1>5
  DEF AttachHandle, TypeOK, EntryCoherent, Present, HasOutcome, Working, Entry
<1>6. ASSUME NEW t \in TaskId, NEW r \in Outcome, Execute(t, r)
      PROVE  EntryCoherent'
  BY <1>6
  DEF Execute, TypeOK, EntryCoherent, Present, HasOutcome, Working, Entry
<1>7. ASSUME NEW t \in TaskId, Finish(t)
      PROVE  EntryCoherent'
  <2>1. CASE ~StillWorking(t)
    BY <1>7, <2>1
    DEF Finish, TakeHandle, Cleaned, DroppedTokens, DroppedAborts,
        ExpiredTasks, IsExpired, TypeOK, EntryCoherent, Present, HasOutcome,
        Working, Entry
  <2>2. CASE StillWorking(t)
    <3>1. EndsAs(t, outcome[t]) /\ StatusOf(outcome[t]) \in {"completed", "failed"}
      BY <1>7, <2>2, FinishEnds
    <3> QED
      BY <1>7, <2>2, <3>1
      DEF Finish, TakeHandle, Cleaned, DroppedTokens, DroppedAborts,
          ExpiredTasks, IsExpired, TypeOK, EntryCoherent, Present, HasOutcome,
          Working, Entry, EndsAs
  <2> QED
    BY <2>1, <2>2
<1>8. ASSUME NEW t \in TaskId, WorkerNotify(t)
      PROVE  EntryCoherent'
  BY <1>8
  DEF WorkerNotify, TypeOK, EntryCoherent, Present, HasOutcome, Working, Entry
<1>9. ASSUME NEW t \in TaskId, WorkerAborted(t)
      PROVE  EntryCoherent'
  BY <1>9
  DEF WorkerAborted, TypeOK, EntryCoherent, Present, HasOutcome, Working,
      Entry
<1>10. ASSUME NEW t \in TaskId, NEW p \in Peer, Cancel(t, p)
      PROVE  EntryCoherent'
  <2>1. CASE ~MayCancel(t, p)
    BY <1>10, <2>1
    DEF Cancel, TakeHandle, CancelledTokens, Cleaned, DroppedTokens,
        DroppedAborts, ExpiredTasks, IsExpired, TypeOK, EntryCoherent,
        Present, HasOutcome, Working, Entry
  <2>2. CASE MayCancel(t, p)
    <3>1. EndsAs(t, "cancelled") /\ StatusOf("cancelled") = "cancelled"
      BY <1>10, <2>2, CancelEnds
    <3> QED
      BY <1>10, <2>2, <3>1
      DEF Cancel, TakeHandle, CancelledTokens, Cleaned, DroppedTokens,
          DroppedAborts, ExpiredTasks, IsExpired, TypeOK, EntryCoherent,
          Present, HasOutcome, Working, Entry, EndsAs
  <2> QED
    BY <2>1, <2>2
<1>11. ASSUME NEW t \in TaskId, CancelNotify(t)
      PROVE  EntryCoherent'
  BY <1>11
  DEF CancelNotify, TypeOK, EntryCoherent, Present, HasOutcome, Working, Entry
<1>12. ASSUME NEW w \in Waiter, WaitStart(w)
      PROVE  EntryCoherent'
  BY <1>12
  DEF WaitStart, TypeOK, EntryCoherent, Present, HasOutcome, Working, Entry
<1>13. ASSUME NEW w \in Waiter, WaitLock(w)
      PROVE  EntryCoherent'
  BY <1>13
  DEF WaitLock, Reply, Cleaned, DroppedTokens, DroppedAborts, ExpiredTasks,
      IsExpired, TypeOK, EntryCoherent, Present, HasOutcome, Working, Entry
<1>14. ASSUME NEW w \in Waiter, WaitRegister(w)
      PROVE  EntryCoherent'
  BY <1>14
  DEF WaitRegister, TypeOK, EntryCoherent, Present, HasOutcome, Working, Entry
<1>15. CASE UNCHANGED vars
  BY <1>15
  DEF vars, TypeOK, EntryCoherent, Present, HasOutcome, Working, Entry
<1> QED
  BY <1>1, <1>2, <1>3, <1>4, <1>5, <1>6, <1>7, <1>8, <1>9, <1>10, <1>11,
      <1>12, <1>13, <1>14, <1>15
  DEF Next, WorkerStep

(* A handle leaves an entry only to be aborted. *)
LEMMA HandleStep ==
  ASSUME IInv, [Next]_vars
  PROVE  HandleHeld'
<1> USE ConstantsAssumption DEF IInv
<1>1. CASE Tick
  BY <1>1
  DEF Tick, TypeOK, HandleHeld, Present, Stopped, Enqueued, Working, Entry
<1>2. CASE Poll
  BY <1>2
  DEF Poll, Cleaned, DroppedTokens, DroppedAborts, ExpiredTasks, IsExpired,
      TypeOK, HandleHeld, Present, Stopped, Enqueued, Working, Entry
<1>3. ASSUME NEW t \in TaskId, NEW p \in Peer, NEW ttl \in Ttl \cup {NoTtl},
             Create(t, p, ttl)
      PROVE  HandleHeld'
  BY <1>3
  DEF Create, NewEntry, Cleaned, DroppedTokens, DroppedAborts, ExpiredTasks,
      IsExpired, TypeOK, HandleHeld, Present, Stopped, Enqueued, Working,
      Entry
<1>4. ASSUME NEW t \in TaskId, Spawn(t)
      PROVE  HandleHeld'
  BY <1>4
  DEF Spawn, TypeOK, HandleHeld, Present, Stopped, Enqueued, Working, Entry
<1>5. ASSUME NEW t \in TaskId, AttachHandle(t)
      PROVE  HandleHeld'
  BY <1>5
  DEF AttachHandle, TypeOK, HandleHeld, Present, Stopped, Enqueued, Working,
      Entry
<1>6. ASSUME NEW t \in TaskId, NEW r \in Outcome, Execute(t, r)
      PROVE  HandleHeld'
  BY <1>6
  DEF Execute, TypeOK, HandleHeld, Present, Stopped, Enqueued, Working, Entry
<1>7. ASSUME NEW t \in TaskId, Finish(t)
      PROVE  HandleHeld'
  <2>1. CASE ~StillWorking(t)
    BY <1>7, <2>1
    DEF Finish, TakeHandle, Cleaned, DroppedTokens, DroppedAborts,
        ExpiredTasks, IsExpired, TypeOK, HandleHeld, Present, Stopped,
        Enqueued, Working, Entry
  <2>2. CASE StillWorking(t)
    <3>1. EndsAs(t, outcome[t]) /\ StatusOf(outcome[t]) \in {"completed", "failed"}
      BY <1>7, <2>2, FinishEnds
    <3> QED
      BY <1>7, <2>2, <3>1
      DEF Finish, TakeHandle, Cleaned, DroppedTokens, DroppedAborts,
          ExpiredTasks, IsExpired, TypeOK, HandleHeld, Present, Stopped,
          Enqueued, Working, Entry, EndsAs
  <2> QED
    BY <2>1, <2>2
<1>8. ASSUME NEW t \in TaskId, WorkerNotify(t)
      PROVE  HandleHeld'
  BY <1>8
  DEF WorkerNotify, TypeOK, HandleHeld, Present, Stopped, Enqueued, Working,
      Entry
<1>9. ASSUME NEW t \in TaskId, WorkerAborted(t)
      PROVE  HandleHeld'
  BY <1>9
  DEF WorkerAborted, TypeOK, HandleHeld, Present, Stopped, Enqueued, Working,
      Entry
<1>10. ASSUME NEW t \in TaskId, NEW p \in Peer, Cancel(t, p)
      PROVE  HandleHeld'
  <2>1. CASE ~MayCancel(t, p)
    BY <1>10, <2>1
    DEF Cancel, TakeHandle, CancelledTokens, Cleaned, DroppedTokens,
        DroppedAborts, ExpiredTasks, IsExpired, TypeOK, HandleHeld, Present,
        Stopped, Enqueued, Working, Entry
  <2>2. CASE MayCancel(t, p)
    <3>1. EndsAs(t, "cancelled") /\ StatusOf("cancelled") = "cancelled"
      BY <1>10, <2>2, CancelEnds
    <3> QED
      BY <1>10, <2>2, <3>1
      DEF Cancel, TakeHandle, CancelledTokens, Cleaned, DroppedTokens,
          DroppedAborts, ExpiredTasks, IsExpired, TypeOK, HandleHeld, Present,
          Stopped, Enqueued, Working, Entry, EndsAs
  <2> QED
    BY <2>1, <2>2
<1>11. ASSUME NEW t \in TaskId, CancelNotify(t)
      PROVE  HandleHeld'
  BY <1>11
  DEF CancelNotify, TypeOK, HandleHeld, Present, Stopped, Enqueued, Working,
      Entry
<1>12. ASSUME NEW w \in Waiter, WaitStart(w)
      PROVE  HandleHeld'
  BY <1>12
  DEF WaitStart, TypeOK, HandleHeld, Present, Stopped, Enqueued, Working,
      Entry
<1>13. ASSUME NEW w \in Waiter, WaitLock(w)
      PROVE  HandleHeld'
  BY <1>13
  DEF WaitLock, Reply, Cleaned, DroppedTokens, DroppedAborts, ExpiredTasks,
      IsExpired, TypeOK, HandleHeld, Present, Stopped, Enqueued, Working,
      Entry
<1>14. ASSUME NEW w \in Waiter, WaitRegister(w)
      PROVE  HandleHeld'
  BY <1>14
  DEF WaitRegister, TypeOK, HandleHeld, Present, Stopped, Enqueued, Working,
      Entry
<1>15. CASE UNCHANGED vars
  BY <1>15
  DEF vars, TypeOK, HandleHeld, Present, Stopped, Enqueued, Working, Entry
<1> QED
  BY <1>1, <1>2, <1>3, <1>4, <1>5, <1>6, <1>7, <1>8, <1>9, <1>10, <1>11,
      <1>12, <1>13, <1>14, <1>15
  DEF Next, WorkerStep

(* Nothing that stops a worker happens to a task that goes on working. *)
LEMMA WorkingStep ==
  ASSUME IInv, [Next]_vars
  PROVE  WorkingTaskHasWorker'
<1> USE ConstantsAssumption DEF IInv
<1>1. CASE Tick
  BY <1>1
  DEF Tick, TypeOK, WorkingTaskHasWorker, Working, Present, Enqueued,
      EntryCoherent, Entry
<1>2. CASE Poll
  BY <1>2
  DEF Poll, Cleaned, DroppedTokens, DroppedAborts, ExpiredTasks, IsExpired,
      TypeOK, WorkingTaskHasWorker, Working, Present, Enqueued, EntryCoherent,
      Entry
<1>3. ASSUME NEW t \in TaskId, NEW p \in Peer, NEW ttl \in Ttl \cup {NoTtl},
             Create(t, p, ttl)
      PROVE  WorkingTaskHasWorker'
  BY <1>3
  DEF Create, NewEntry, Cleaned, DroppedTokens, DroppedAborts, ExpiredTasks,
      IsExpired, TypeOK, WorkingTaskHasWorker, Working, Present, Enqueued,
      EntryCoherent, Entry
<1>4. ASSUME NEW t \in TaskId, Spawn(t)
      PROVE  WorkingTaskHasWorker'
  BY <1>4
  DEF Spawn, TypeOK, WorkingTaskHasWorker, Working, Present, Enqueued,
      EntryCoherent, Entry
<1>5. ASSUME NEW t \in TaskId, AttachHandle(t)
      PROVE  WorkingTaskHasWorker'
  BY <1>5
  DEF AttachHandle, TypeOK, WorkingTaskHasWorker, Working, Present, Enqueued,
      EntryCoherent, Entry
<1>6. ASSUME NEW t \in TaskId, NEW r \in Outcome, Execute(t, r)
      PROVE  WorkingTaskHasWorker'
  BY <1>6
  DEF Execute, TypeOK, WorkingTaskHasWorker, Working, Present, Enqueued,
      EntryCoherent, Entry
<1>7. ASSUME NEW t \in TaskId, Finish(t)
      PROVE  WorkingTaskHasWorker'
  <2>1. CASE ~StillWorking(t)
    BY <1>7, <2>1
    DEF Finish, TakeHandle, Cleaned, DroppedTokens, DroppedAborts,
        ExpiredTasks, IsExpired, TypeOK, WorkingTaskHasWorker, Working,
        Present, Enqueued, EntryCoherent, Entry, StillWorking, IsTerminal
  <2>2. CASE StillWorking(t)
    <3>1. EndsAs(t, outcome[t]) /\ StatusOf(outcome[t]) \in {"completed", "failed"}
      BY <1>7, <2>2, FinishEnds
    <3> QED
      BY <1>7, <2>2, <3>1
      DEF Finish, TakeHandle, Cleaned, DroppedTokens, DroppedAborts,
          ExpiredTasks, IsExpired, TypeOK, WorkingTaskHasWorker, Working,
          Present, Enqueued, EntryCoherent, Entry, StillWorking, IsTerminal,
          EndsAs
  <2> QED
    BY <2>1, <2>2
<1>8. ASSUME NEW t \in TaskId, WorkerNotify(t)
      PROVE  WorkingTaskHasWorker'
  BY <1>8
  DEF WorkerNotify, TypeOK, WorkingTaskHasWorker, Working, Present, Enqueued,
      EntryCoherent, Entry
<1>9. ASSUME NEW t \in TaskId, WorkerAborted(t)
      PROVE  WorkingTaskHasWorker'
  BY <1>9
  DEF WorkerAborted, TypeOK, WorkingTaskHasWorker, Working, Present, Enqueued,
      EntryCoherent, Entry
<1>10. ASSUME NEW t \in TaskId, NEW p \in Peer, Cancel(t, p)
      PROVE  WorkingTaskHasWorker'
  <2>1. CASE ~MayCancel(t, p)
    BY <1>10, <2>1
    DEF Cancel, TakeHandle, CancelledTokens, Cleaned, DroppedTokens,
        DroppedAborts, ExpiredTasks, IsExpired, TypeOK, WorkingTaskHasWorker,
        Working, Present, Enqueued, EntryCoherent, Entry
  <2>2. CASE MayCancel(t, p)
    <3>1. EndsAs(t, "cancelled") /\ StatusOf("cancelled") = "cancelled"
      BY <1>10, <2>2, CancelEnds
    <3> QED
      BY <1>10, <2>2, <3>1
      DEF Cancel, TakeHandle, CancelledTokens, Cleaned, DroppedTokens,
          DroppedAborts, ExpiredTasks, IsExpired, TypeOK,
          WorkingTaskHasWorker, Working, Present, Enqueued, EntryCoherent,
          Entry, EndsAs
  <2> QED
    BY <2>1, <2>2
<1>11. ASSUME NEW t \in TaskId, CancelNotify(t)
      PROVE  WorkingTaskHasWorker'
  BY <1>11
  DEF CancelNotify, TypeOK, WorkingTaskHasWorker, Working, Present, Enqueued,
      EntryCoherent, Entry
<1>12. ASSUME NEW w \in Waiter, WaitStart(w)
      PROVE  WorkingTaskHasWorker'
  BY <1>12
  DEF WaitStart, TypeOK, WorkingTaskHasWorker, Working, Present, Enqueued,
      EntryCoherent, Entry
<1>13. ASSUME NEW w \in Waiter, WaitLock(w)
      PROVE  WorkingTaskHasWorker'
  BY <1>13
  DEF WaitLock, Reply, Cleaned, DroppedTokens, DroppedAborts, ExpiredTasks,
      IsExpired, TypeOK, WorkingTaskHasWorker, Working, Present, Enqueued,
      EntryCoherent, Entry
<1>14. ASSUME NEW w \in Waiter, WaitRegister(w)
      PROVE  WorkingTaskHasWorker'
  BY <1>14
  DEF WaitRegister, TypeOK, WorkingTaskHasWorker, Working, Present, Enqueued,
      EntryCoherent, Entry
<1>15. CASE UNCHANGED vars
  BY <1>15
  DEF vars, TypeOK, WorkingTaskHasWorker, Working, Present, Enqueued,
      EntryCoherent, Entry
<1> QED
  BY <1>1, <1>2, <1>3, <1>4, <1>5, <1>6, <1>7, <1>8, <1>9, <1>10, <1>11,
      <1>12, <1>13, <1>14, <1>15
  DEF Next, WorkerStep

(* The paths on which an entry disappears all stop its worker. *)
LEMMA OrphanStep ==
  ASSUME IInv, [Next]_vars
  PROVE  NoOrphanWorker'
<1> USE ConstantsAssumption DEF IInv
<1>1. CASE Tick
  BY <1>1
  DEF Tick, TypeOK, NoOrphanWorker, HandleHeld, Gone, Present, Working,
      Stopped, Enqueued, StatusOf, Entry
<1>2. CASE Poll
  BY <1>2
  DEF Poll, Cleaned, DroppedTokens, DroppedAborts, ExpiredTasks, IsExpired,
      TypeOK, NoOrphanWorker, HandleHeld, Gone, Present, Working, Stopped,
      Enqueued, StatusOf, Entry
<1>3. ASSUME NEW t \in TaskId, NEW p \in Peer, NEW ttl \in Ttl \cup {NoTtl},
             Create(t, p, ttl)
      PROVE  NoOrphanWorker'
  BY <1>3
  DEF Create, NewEntry, Cleaned, DroppedTokens, DroppedAborts, ExpiredTasks,
      IsExpired, TypeOK, NoOrphanWorker, HandleHeld, Gone, Present, Working,
      Stopped, Enqueued, StatusOf, Entry
<1>4. ASSUME NEW t \in TaskId, Spawn(t)
      PROVE  NoOrphanWorker'
  BY <1>4
  DEF Spawn, TypeOK, NoOrphanWorker, HandleHeld, Gone, Present, Working,
      Stopped, Enqueued, StatusOf, Entry
<1>5. ASSUME NEW t \in TaskId, AttachHandle(t)
      PROVE  NoOrphanWorker'
  BY <1>5
  DEF AttachHandle, TypeOK, NoOrphanWorker, HandleHeld, Gone, Present,
      Working, Stopped, Enqueued, StatusOf, Entry
<1>6. ASSUME NEW t \in TaskId, NEW r \in Outcome, Execute(t, r)
      PROVE  NoOrphanWorker'
  BY <1>6
  DEF Execute, TypeOK, NoOrphanWorker, HandleHeld, Gone, Present, Working,
      Stopped, Enqueued, StatusOf, Entry
<1>7. ASSUME NEW t \in TaskId, Finish(t)
      PROVE  NoOrphanWorker'
  <2>1. CASE ~StillWorking(t)
    BY <1>7, <2>1
    DEF Finish, TakeHandle, Cleaned, DroppedTokens, DroppedAborts,
        ExpiredTasks, IsExpired, TypeOK, NoOrphanWorker, HandleHeld, Gone,
        Present, Working, Stopped, Enqueued, StatusOf, Entry
  <2>2. CASE StillWorking(t)
    <3>1. EndsAs(t, outcome[t]) /\ StatusOf(outcome[t]) \in {"completed", "failed"}
      BY <1>7, <2>2, FinishEnds
    <3> QED
      BY <1>7, <2>2, <3>1
      DEF Finish, TakeHandle, Cleaned, DroppedTokens, DroppedAborts,
          ExpiredTasks, IsExpired, TypeOK, NoOrphanWorker, HandleHeld, Gone,
          Present, Working, Stopped, Enqueued, StatusOf, Entry, EndsAs
  <2> QED
    BY <2>1, <2>2
<1>8. ASSUME NEW t \in TaskId, WorkerNotify(t)
      PROVE  NoOrphanWorker'
  BY <1>8
  DEF WorkerNotify, TypeOK, NoOrphanWorker, HandleHeld, Gone, Present,
      Working, Stopped, Enqueued, StatusOf, Entry
<1>9. ASSUME NEW t \in TaskId, WorkerAborted(t)
      PROVE  NoOrphanWorker'
  BY <1>9
  DEF WorkerAborted, TypeOK, NoOrphanWorker, HandleHeld, Gone, Present,
      Working, Stopped, Enqueued, StatusOf, Entry
<1>10. ASSUME NEW t \in TaskId, NEW p \in Peer, Cancel(t, p)
      PROVE  NoOrphanWorker'
  <2>1. CASE ~MayCancel(t, p)
    BY <1>10, <2>1
    DEF Cancel, TakeHandle, CancelledTokens, Cleaned, DroppedTokens,
        DroppedAborts, ExpiredTasks, IsExpired, TypeOK, NoOrphanWorker,
        HandleHeld, Gone, Present, Working, Stopped, Enqueued, StatusOf, Entry
  <2>2. CASE MayCancel(t, p)
    <3>1. EndsAs(t, "cancelled") /\ StatusOf("cancelled") = "cancelled"
      BY <1>10, <2>2, CancelEnds
    <3> QED
      BY <1>10, <2>2, <3>1
      DEF Cancel, TakeHandle, CancelledTokens, Cleaned, DroppedTokens,
          DroppedAborts, ExpiredTasks, IsExpired, TypeOK, NoOrphanWorker,
          HandleHeld, Gone, Present, Working, Stopped, Enqueued, StatusOf,
          Entry, EndsAs
  <2> QED
    BY <2>1, <2>2
<1>11. ASSUME NEW t \in TaskId, CancelNotify(t)
      PROVE  NoOrphanWorker'
  BY <1>11
  DEF CancelNotify, TypeOK, NoOrphanWorker, HandleHeld, Gone, Present,
      Working, Stopped, Enqueued, StatusOf, Entry
<1>12. ASSUME NEW w \in Waiter, WaitStart(w)
      PROVE  NoOrphanWorker'
  BY <1>12
  DEF WaitStart, TypeOK, NoOrphanWorker, HandleHeld, Gone, Present, Working,
      Stopped, Enqueued, StatusOf, Entry
<1>13. ASSUME NEW w \in Waiter, WaitLock(w)
      PROVE  NoOrphanWorker'
  BY <1>13
  DEF WaitLock, Reply, Cleaned, DroppedTokens, DroppedAborts, ExpiredTasks,
      IsExpired, TypeOK, NoOrphanWorker, HandleHeld, Gone, Present, Working,
      Stopped, Enqueued, StatusOf, Entry
<1>14. ASSUME NEW w \in Waiter, WaitRegister(w)
      PROVE  NoOrphanWorker'
  BY <1>14
  DEF WaitRegister, TypeOK, NoOrphanWorker, HandleHeld, Gone, Present,
      Working, Stopped, Enqueued, StatusOf, Entry
<1>15. CASE UNCHANGED vars
  BY <1>15
  DEF vars, TypeOK, NoOrphanWorker, HandleHeld, Gone, Present, Working,
      Stopped, Enqueued, StatusOf, Entry
<1> QED
  BY <1>1, <1>2, <1>3, <1>4, <1>5, <1>6, <1>7, <1>8, <1>9, <1>10, <1>11,
      <1>12, <1>13, <1>14, <1>15
  DEF Next, WorkerStep

(* A request is answered once. *)
LEMMA UnansweredStep ==
  ASSUME IInv, [Next]_vars
  PROVE  Unanswered'
<1> USE ConstantsAssumption DEF IInv
<1>1. CASE Tick
  BY <1>1
  DEF Tick, TypeOK, Unanswered, Woken
<1>2. CASE Poll
  BY <1>2
  DEF Poll, Cleaned, DroppedTokens, DroppedAborts, ExpiredTasks, IsExpired,
      TypeOK, Unanswered, Woken
<1>3. ASSUME NEW t \in TaskId, NEW p \in Peer, NEW ttl \in Ttl \cup {NoTtl},
             Create(t, p, ttl)
      PROVE  Unanswered'
  BY <1>3
  DEF Create, NewEntry, Cleaned, DroppedTokens, DroppedAborts, ExpiredTasks,
      IsExpired, TypeOK, Unanswered, Woken
<1>4. ASSUME NEW t \in TaskId, Spawn(t)
      PROVE  Unanswered'
  BY <1>4
  DEF Spawn, TypeOK, Unanswered, Woken
<1>5. ASSUME NEW t \in TaskId, AttachHandle(t)
      PROVE  Unanswered'
  BY <1>5
  DEF AttachHandle, TypeOK, Unanswered, Woken
<1>6. ASSUME NEW t \in TaskId, NEW r \in Outcome, Execute(t, r)
      PROVE  Unanswered'
  BY <1>6
  DEF Execute, TypeOK, Unanswered, Woken
<1>7. ASSUME NEW t \in TaskId, Finish(t)
      PROVE  Unanswered'
  <2>1. CASE ~StillWorking(t)
    BY <1>7, <2>1
    DEF Finish, TakeHandle, Cleaned, DroppedTokens, DroppedAborts,
        ExpiredTasks, IsExpired, TypeOK, Unanswered, Woken
  <2>2. CASE StillWorking(t)
    <3>1. EndsAs(t, outcome[t]) /\ StatusOf(outcome[t]) \in {"completed", "failed"}
      BY <1>7, <2>2, FinishEnds
    <3> QED
      BY <1>7, <2>2, <3>1
      DEF Finish, TakeHandle, Cleaned, DroppedTokens, DroppedAborts,
          ExpiredTasks, IsExpired, TypeOK, Unanswered, Woken, EndsAs, Working,
          Present
  <2> QED
    BY <2>1, <2>2
<1>8. ASSUME NEW t \in TaskId, WorkerNotify(t)
      PROVE  Unanswered'
  BY <1>8
  DEF WorkerNotify, TypeOK, Unanswered, Woken
<1>9. ASSUME NEW t \in TaskId, WorkerAborted(t)
      PROVE  Unanswered'
  BY <1>9
  DEF WorkerAborted, TypeOK, Unanswered, Woken
<1>10. ASSUME NEW t \in TaskId, NEW p \in Peer, Cancel(t, p)
      PROVE  Unanswered'
  <2>1. CASE ~MayCancel(t, p)
    BY <1>10, <2>1
    DEF Cancel, TakeHandle, CancelledTokens, Cleaned, DroppedTokens,
        DroppedAborts, ExpiredTasks, IsExpired, TypeOK, Unanswered, Woken
  <2>2. CASE MayCancel(t, p)
    <3>1. EndsAs(t, "cancelled") /\ StatusOf("cancelled") = "cancelled"
      BY <1>10, <2>2, CancelEnds
    <3> QED
      BY <1>10, <2>2, <3>1
      DEF Cancel, TakeHandle, CancelledTokens, Cleaned, DroppedTokens,
          DroppedAborts, ExpiredTasks, IsExpired, TypeOK, Unanswered, Woken,
          EndsAs, Working, Present
  <2> QED
    BY <2>1, <2>2
<1>11. ASSUME NEW t \in TaskId, CancelNotify(t)
      PROVE  Unanswered'
  BY <1>11
  DEF CancelNotify, TypeOK, Unanswered, Woken
<1>12. ASSUME NEW w \in Waiter, WaitStart(w)
      PROVE  Unanswered'
  BY <1>12
  DEF WaitStart, TypeOK, Unanswered, Woken
<1>13. ASSUME NEW w \in Waiter, WaitLock(w)
      PROVE  Unanswered'
  <2>1. /\ waiting \in [Waiter -> {"idle", "lock", "register", "parked", "answered"}]
        /\ answer \in [Waiter -> Result \cup {"none", "notFound"}]
    BY DEF TypeOK
  <2>2. CASE \E a : Reply(w, a)
    BY <2>1, <2>2 DEF Reply, Unanswered
  <2>3. CASE waiting' = [waiting EXCEPT ![w] = "register"] /\ UNCHANGED answer
    <3>1. waiting[w] # "answered"
      BY <1>13 DEF WaitLock
    <3> QED
      BY <2>1, <2>3, <3>1 DEF Unanswered
  <2> QED
    BY <1>13, <2>2, <2>3 DEF WaitLock
<1>14. ASSUME NEW w \in Waiter, WaitRegister(w)
      PROVE  Unanswered'
  BY <1>14
  DEF WaitRegister, TypeOK, Unanswered, Woken
<1>15. CASE UNCHANGED vars
  BY <1>15
  DEF vars, TypeOK, Unanswered, Woken
<1> QED
  BY <1>1, <1>2, <1>3, <1>4, <1>5, <1>6, <1>7, <1>8, <1>9, <1>10, <1>11,
      <1>12, <1>13, <1>14, <1>15
  DEF Next, WorkerStep

(* Whatever speaks of the end of a task speaks of one outcome, also after the *)
(* entry is gone.                                                            *)
LEMMA AgreementStep ==
  ASSUME IInv, [Next]_vars
  PROVE  Agreement'
<1> USE ConstantsAssumption DEF IInv
<1>1. CASE Tick
  BY <1>1
  DEF Tick, TypeOK, Agreement, Agreed, Silent, Settled, Working, Present,
      IsTerminal, Entry, Enqueued, EntryCoherent
<1>2. CASE Poll
  BY <1>2
  DEF Poll, Cleaned, DroppedTokens, DroppedAborts, ExpiredTasks, IsExpired,
      TypeOK, Agreement, Agreed, Silent, Settled, Working, Present,
      IsTerminal, Entry, Enqueued, EntryCoherent
<1>3. ASSUME NEW t \in TaskId, NEW p \in Peer, NEW ttl \in Ttl \cup {NoTtl},
             Create(t, p, ttl)
      PROVE  Agreement'
  BY <1>3
  DEF Create, NewEntry, Cleaned, DroppedTokens, DroppedAborts, ExpiredTasks,
      IsExpired, TypeOK, Agreement, Agreed, Silent, Settled, Working, Present,
      IsTerminal, Entry, Enqueued, EntryCoherent
<1>4. ASSUME NEW t \in TaskId, Spawn(t)
      PROVE  Agreement'
  BY <1>4
  DEF Spawn, TypeOK, Agreement, Agreed, Silent, Settled, Working, Present,
      IsTerminal, Entry, Enqueued, EntryCoherent
<1>5. ASSUME NEW t \in TaskId, AttachHandle(t)
      PROVE  Agreement'
  BY <1>5
  DEF AttachHandle, TypeOK, Agreement, Agreed, Silent, Settled, Working,
      Present, IsTerminal, Entry, Enqueued, EntryCoherent
<1>6. ASSUME NEW t \in TaskId, NEW r \in Outcome, Execute(t, r)
      PROVE  Agreement'
  BY <1>6
  DEF Execute, TypeOK, Agreement, Agreed, Silent, Settled, Working, Present,
      IsTerminal, Entry, Enqueued, EntryCoherent
<1>7. ASSUME NEW t \in TaskId, Finish(t)
      PROVE  Agreement'
  <2>1. CASE ~StillWorking(t)
    BY <1>7, <2>1
    DEF Finish, TakeHandle, Cleaned, DroppedTokens, DroppedAborts,
        ExpiredTasks, IsExpired, TypeOK, Agreement, Agreed, Silent, Settled,
        Working, Present, IsTerminal, Entry, Enqueued, EntryCoherent
  <2>2. CASE StillWorking(t)
    <3>1. EndsAs(t, outcome[t]) /\ StatusOf(outcome[t]) \in {"completed", "failed"}
      BY <1>7, <2>2, FinishEnds
    <3> QED
      BY <1>7, <2>2, <3>1
      DEF Finish, TakeHandle, Cleaned, DroppedTokens, DroppedAborts,
          ExpiredTasks, IsExpired, TypeOK, Agreement, Agreed, Silent, Settled,
          Working, Present, IsTerminal, Entry, Enqueued, EntryCoherent, EndsAs
  <2> QED
    BY <2>1, <2>2
<1>8. ASSUME NEW t \in TaskId, WorkerNotify(t)
      PROVE  Agreement'
  BY <1>8
  DEF WorkerNotify, TypeOK, Agreement, Agreed, Silent, Settled, Working,
      Present, IsTerminal, Entry, Enqueued, EntryCoherent, HasOutcome,
      StatusOf
<1>9. ASSUME NEW t \in TaskId, WorkerAborted(t)
      PROVE  Agreement'
  BY <1>9
  DEF WorkerAborted, TypeOK, Agreement, Agreed, Silent, Settled, Working,
      Present, IsTerminal, Entry, Enqueued, EntryCoherent
<1>10. ASSUME NEW t \in TaskId, NEW p \in Peer, Cancel(t, p)
      PROVE  Agreement'
  <2>1. CASE ~MayCancel(t, p)
    BY <1>10, <2>1
    DEF Cancel, TakeHandle, CancelledTokens, Cleaned, DroppedTokens,
        DroppedAborts, ExpiredTasks, IsExpired, TypeOK, Agreement, Agreed,
        Silent, Settled, Working, Present, IsTerminal, Entry, Enqueued,
        EntryCoherent
  <2>2. CASE MayCancel(t, p)
    <3>1. EndsAs(t, "cancelled") /\ StatusOf("cancelled") = "cancelled"
      BY <1>10, <2>2, CancelEnds
    <3> QED
      BY <1>10, <2>2, <3>1
      DEF Cancel, TakeHandle, CancelledTokens, Cleaned, DroppedTokens,
          DroppedAborts, ExpiredTasks, IsExpired, TypeOK, Agreement, Agreed,
          Silent, Settled, Working, Present, IsTerminal, Entry, Enqueued,
          EntryCoherent, EndsAs
  <2> QED
    BY <2>1, <2>2
<1>11. ASSUME NEW t \in TaskId, CancelNotify(t)
      PROVE  Agreement'
  BY <1>11
  DEF CancelNotify, TypeOK, Agreement, Agreed, Silent, Settled, Working,
      Present, IsTerminal, Entry, Enqueued, EntryCoherent
<1>12. ASSUME NEW w \in Waiter, WaitStart(w)
      PROVE  Agreement'
  BY <1>12
  DEF WaitStart, TypeOK, Agreement, Agreed, Silent, Settled, Working, Present,
      IsTerminal, Entry, Enqueued, EntryCoherent
<1>13. ASSUME NEW w \in Waiter, WaitLock(w)
       PROVE  Agreement'
  <2>1. WaitTask[w] \in TaskId
    OBVIOUS
  <2>2. \A u \in TaskId : entries'[u] = NoEntry \/ entries'[u] = entries[u]
    BY <1>13 DEF WaitLock, Cleaned
  <2>3. \A v \in Waiter :
          \/ answer'[v] = answer[v]
          \/ answer'[v] = "notFound"
          \/ /\ Settled(WaitTask[v])
             /\ StatusOf(answer'[v]) = entries[WaitTask[v]].status
    BY <1>13, <2>1
    DEF WaitLock, Reply, Cleaned, TypeOK, EntryCoherent, Settled, Present,
        IsTerminal, Entry, StatusOf
  <2>4. UNCHANGED <<req, worker, outcome, cancelling, notices>>
    BY <1>13 DEF WaitLock
  <2>5. ASSUME NEW u \in TaskId, NEW s \in Terminal, Agreed(u, s),
               Settled(u) => s = entries[u].status
        PROVE  Agreed(u, s)'
    BY <2>3, <2>4, <2>5 DEF Agreed
  <2>6. ASSUME NEW u \in TaskId, Silent(u), ~Settled(u)
        PROVE  Silent(u)'
    BY <2>3, <2>4, <2>6 DEF Silent
  <2>7. ASSUME NEW u \in TaskId
        PROVE  \E s \in Terminal : Agreed(u, s)'
    <3>1. CASE Settled(u)
      BY <3>1, <2>5 DEF Agreement, Settled, IsTerminal
    <3>2. CASE ~Settled(u)
      BY <3>2, <2>5 DEF Agreement
    <3> QED
      BY <3>1, <3>2
  <2>8. ASSUME NEW u \in TaskId, req'[u] = "none" \/ Working(u)'
        PROVE  Silent(u)'
    BY <2>2, <2>4, <2>6, <2>8
    DEF Agreement, Enqueued, Working, Settled, Present, IsTerminal
  <2>9. ASSUME NEW u \in TaskId, Settled(u)'
        PROVE  Agreed(u, entries[u].status)' /\ entries'[u] = entries[u]
    BY <2>2, <2>5, <2>9 DEF Agreement, Settled, Present, IsTerminal
  <2> QED
    BY <2>7, <2>8, <2>9 DEF Agreement
<1>14. ASSUME NEW w \in Waiter, WaitRegister(w)
      PROVE  Agreement'
  BY <1>14
  DEF WaitRegister, TypeOK, Agreement, Agreed, Silent, Settled, Working,
      Present, IsTerminal, Entry, Enqueued, EntryCoherent
<1>15. CASE UNCHANGED vars
  BY <1>15
  DEF vars, TypeOK, Agreement, Agreed, Silent, Settled, Working, Present,
      IsTerminal, Entry, Enqueued, EntryCoherent
<1> QED
  BY <1>1, <1>2, <1>3, <1>4, <1>5, <1>6, <1>7, <1>8, <1>9, <1>10, <1>11,
      <1>12, <1>13, <1>14, <1>15
  DEF Next, WorkerStep

LEMMA Inductive ==
  ASSUME IInv, [Next]_vars
  PROVE  IInv'
  BY TypeStep, EnqueuedStep, CoherentStep, HandleStep, WorkingStep, OrphanStep,
     UnansweredStep, AgreementStep DEF IInv

LEMMA InitInductive ==
  ASSUME Init
  PROVE  IInv
<1> USE ConstantsAssumption
<1>1. TypeOK /\ HasOutcome /\ Enqueued /\ EntryCoherent /\ HandleHeld
  BY DEF Init, TypeOK, HasOutcome, Enqueued, EntryCoherent, HandleHeld, Present
<1>2. WorkingTaskHasWorker /\ NoOrphanWorker /\ Unanswered
  BY DEF Init, WorkingTaskHasWorker, NoOrphanWorker, Unanswered, Working, Gone,
         Present
<1>3. ASSUME NEW t \in TaskId
      PROVE  /\ Silent(t)
             /\ Agreed(t, "completed")
             /\ ~Settled(t)
  BY DEF Init, Silent, Agreed, Settled, Present
<1> QED
  BY <1>1, <1>2, <1>3 DEF IInv, Agreement

LEMMA Invariant == Spec => []IInv
<1>1. Init => IInv
  BY InitInductive
<1>2. IInv /\ [Next]_vars => IInv'
  BY Inductive
<1> QED
  BY <1>1, <1>2, PTL DEF Spec

-----------------------------------------------------------------------------
(* A task that is still working always has a worker that can finish it.     *)
THEOREM WorkingHasWorker == Spec => []WorkingTaskHasWorker
<1>1. IInv => WorkingTaskHasWorker
  BY DEF IInv
<1> QED
  BY <1>1, Invariant, PTL

(* No worker outlives the entry of its task without having been aborted.    *)
THEOREM NoOrphans == Spec => []NoOrphanWorker
<1>1. IInv => NoOrphanWorker
  BY DEF IInv
<1> QED
  BY <1>1, Invariant, PTL

(* What has been told about a task is the outcome that Agreed names.        *)
LEMMA ToldAgreed ==
  ASSUME NEW t \in TaskId, NEW s, Agreed(t, s)
  PROVE  Told(t) \subseteq {s}
  BY DEF Agreed, Told

(* All notifications and answers about a task report the same outcome.      *)
THEOREM OneOutcomeTold == Spec => []OneOutcome
<1>1. IInv => OneOutcome
  <2> SUFFICES ASSUME IInv, NEW t \in TaskId
               PROVE  /\ \A s1, s2 \in Told(t) : s1 = s2
                      /\ Present(t) => Told(t) \subseteq {entries[t].status}
    BY DEF OneOutcome
  <2>1. \A s1, s2 \in Told(t) : s1 = s2
    <3>1. PICK s \in Terminal : Agreed(t, s)
      BY DEF IInv, Agreement
    <3> QED
      BY <3>1, ToldAgreed
  <2>2. CASE Settled(t)
    BY <2>1, <2>2, ToldAgreed DEF IInv, Agreement
  <2>3. CASE Working(t)
    <3>1. Silent(t)
      BY <2>3 DEF IInv, Agreement
    <3>2. Told(t) = {}
      BY <3>1 DEF Silent, Told
    <3> QED
      BY <2>1, <3>2
  <2>4. Present(t) => Settled(t) \/ Working(t)
    BY DEF IInv, TypeOK, Present, Settled, Working, IsTerminal, Entry
  <2> QED
    BY <2>1, <2>2, <2>3, <2>4
<1> QED
  BY <1>1, Invariant, PTL

(* The worker and the cancel handler never both announce the same task.     *)
THEOREM OneNotice == Spec => []AtMostOneNotice
<1>1. IInv => AtMostOneNotice
  <2> SUFFICES ASSUME IInv, NEW n1 \in notices, NEW n2 \in notices,
                      n1.task = n2.task
               PROVE  n1 = n2
    BY DEF AtMostOneNotice
  <2>1. n1 \in Notice /\ n2 \in Notice
    BY DEF IInv, TypeOK
  <2>2. PICK s \in Terminal : Agreed(n1.task, s)
    BY <2>1 DEF IInv, Agreement, Notice
  <2>3. n1.status = n2.status /\ n1.from = n2.from
    BY <2>2 DEF Agreed
  <2> QED
    BY <2>1, <2>3 DEF Notice
<1> QED
  BY <1>1, Invariant, PTL

-----------------------------------------------------------------------------
StaysFinal ==
  \A t \in TaskId :
    /\ Settled(t) =>
         \/ entries'[t] = NoEntry
         \/ /\ entries'[t].status = entries[t].status
            /\ entries'[t].result = entries[t].result
    /\ Gone(t) => entries'[t] = NoEntry

(* No operation touches the outcome of a settled task or brings a removed one back. *)
LEMMA FinalStep ==
  ASSUME IInv, [Next]_vars
  PROVE  StaysFinal
<1> USE ConstantsAssumption DEF IInv
<1>1. CASE Tick
  BY <1>1
  DEF Tick, TypeOK, StaysFinal, Settled, Gone, Present, Enqueued, Working,
      IsTerminal, Entry
<1>2. CASE Poll
  BY <1>2
  DEF Poll, Cleaned, DroppedTokens, DroppedAborts, ExpiredTasks, IsExpired,
      TypeOK, StaysFinal, Settled, Gone, Present, Enqueued, Working,
      IsTerminal, Entry
<1>3. ASSUME NEW t \in TaskId, NEW p \in Peer, NEW ttl \in Ttl \cup {NoTtl},
             Create(t, p, ttl)
      PROVE  StaysFinal
  BY <1>3
  DEF Create, NewEntry, Cleaned, DroppedTokens, DroppedAborts, ExpiredTasks,
      IsExpired, TypeOK, StaysFinal, Settled, Gone, Present, Enqueued,
      Working, IsTerminal, Entry
<1>4. ASSUME NEW t \in TaskId, Spawn(t)
      PROVE  StaysFinal
  BY <1>4
  DEF Spawn, TypeOK, StaysFinal, Settled, Gone, Present, Enqueued, Working,
      IsTerminal, Entry
<1>5. ASSUME NEW t \in TaskId, AttachHandle(t)
      PROVE  StaysFinal
  BY <1>5
  DEF AttachHandle, TypeOK, StaysFinal, Settled, Gone, Present, Enqueued,
      Working, IsTerminal, Entry
<1>6. ASSUME NEW t \in TaskId, NEW r \in Outcome, Execute(t, r)
      PROVE  StaysFinal
  BY <1>6
  DEF Execute, TypeOK, StaysFinal, Settled, Gone, Present, Enqueued, Working,
      IsTerminal, Entry
<1>7. ASSUME NEW t \in TaskId, Finish(t)
      PROVE  StaysFinal
  <2>1. CASE ~StillWorking(t)
    BY <1>7, <2>1
    DEF Finish, TakeHandle, Cleaned, DroppedTokens, DroppedAborts,
        ExpiredTasks, IsExpired, TypeOK, StaysFinal, Settled, Gone, Present,
        Enqueued, Working, IsTerminal, Entry, StillWorking
  <2>2. CASE StillWorking(t)
    <3>1. EndsAs(t, outcome[t]) /\ StatusOf(outcome[t]) \in {"completed", "failed"}
      BY <1>7, <2>2, FinishEnds
    <3> QED
      BY <1>7, <2>2, <3>1
      DEF Finish, TakeHandle, Cleaned, DroppedTokens, DroppedAborts,
          ExpiredTasks, IsExpired, TypeOK, StaysFinal, Settled, Gone, Present,
          Enqueued, Working, IsTerminal, Entry, StillWorking, EndsAs
  <2> QED
    BY <2>1, <2>2
<1>8. ASSUME NEW t \in TaskId, WorkerNotify(t)
      PROVE  StaysFinal
  BY <1>8
  DEF WorkerNotify, TypeOK, StaysFinal, Settled, Gone, Present, Enqueued,
      Working, IsTerminal, Entry
<1>9. ASSUME NEW t \in TaskId, WorkerAborted(t)
      PROVE  StaysFinal
  BY <1>9
  DEF WorkerAborted, TypeOK, StaysFinal, Settled, Gone, Present, Enqueued,
      Working, IsTerminal, Entry
<1>10. ASSUME NEW t \in TaskId, NEW p \in Peer, Cancel(t, p)
      PROVE  StaysFinal
  <2>1. CASE ~MayCancel(t, p)
    BY <1>10, <2>1
    DEF Cancel, TakeHandle, CancelledTokens, Cleaned, DroppedTokens,
        DroppedAborts, ExpiredTasks, IsExpired, TypeOK, StaysFinal, Settled,
        Gone, Present, Enqueued, Working, IsTerminal, Entry, MayCancel,
        StillWorking
  <2>2. CASE MayCancel(t, p)
    <3>1. EndsAs(t, "cancelled") /\ StatusOf("cancelled") = "cancelled"
      BY <1>10, <2>2, CancelEnds
    <3> QED
      BY <1>10, <2>2, <3>1
      DEF Cancel, TakeHandle, CancelledTokens, Cleaned, DroppedTokens,
          DroppedAborts, ExpiredTasks, IsExpired, TypeOK, StaysFinal, Settled,
          Gone, Present, Enqueued, Working, IsTerminal, Entry, MayCancel,
          StillWorking, EndsAs
  <2> QED
    BY <2>1, <2>2
<1>11. ASSUME NEW t \in TaskId, CancelNotify(t)
      PROVE  StaysFinal
  BY <1>11
  DEF CancelNotify, TypeOK, StaysFinal, Settled, Gone, Present, Enqueued,
      Working, IsTerminal, Entry
<1>12. ASSUME NEW w \in Waiter, WaitStart(w)
      PROVE  StaysFinal
  BY <1>12
  DEF WaitStart, TypeOK, StaysFinal, Settled, Gone, Present, Enqueued,
      Working, IsTerminal, Entry
<1>13. ASSUME NEW w \in Waiter, WaitLock(w)
      PROVE  StaysFinal
  BY <1>13
  DEF WaitLock, Reply, Cleaned, DroppedTokens, DroppedAborts, ExpiredTasks,
      IsExpired, TypeOK, StaysFinal, Settled, Gone, Present, Enqueued,
      Working, IsTerminal, Entry
<1>14. ASSUME NEW w \in Waiter, WaitRegister(w)
      PROVE  StaysFinal
  BY <1>14
  DEF WaitRegister, TypeOK, StaysFinal, Settled, Gone, Present, Enqueued,
      Working, IsTerminal, Entry
<1>15. CASE UNCHANGED vars
  BY <1>15
  DEF vars, TypeOK, StaysFinal, Settled, Gone, Present, Enqueued, Working,
      IsTerminal, Entry
<1> QED
  BY <1>1, <1>2, <1>3, <1>4, <1>5, <1>6, <1>7, <1>8, <1>9, <1>10, <1>11,
      <1>12, <1>13, <1>14, <1>15
  DEF Next, WorkerStep

(* The late finish() of a cancelled or expired task changes nothing, and no *)
(* operation rewrites a terminal task.                                      *)
THEOREM TerminalStaysFinal == Spec => TerminalIsFinal
<1>1. IInv /\ [Next]_vars => [StaysFinal]_vars
  BY FinalStep
<1>2. Spec => [][StaysFinal]_vars
  BY <1>1, Invariant, PTL DEF Spec
<1> QED
  BY <1>2 DEF TerminalIsFinal, StaysFinal

-----------------------------------------------------------------------------
(* The refinement.  Each operation first drops the expired tasks, which is  *)
(* After(ExpiredTasks) of TaskLifecycle, and then makes at most one of its  *)
(* moves.                                                                   *)

LEMMA ExpiredAreLive ==
  ASSUME IInv
  PROVE  \A u \in ExpiredTasks : u \in TaskId /\ LifeState[u] \in Lifecycle!Live
  BY DEF IInv, TypeOK, Enqueued, ExpiredTasks, IsExpired, LifeState, Present,
         Entry, Lifecycle!Live, Lifecycle!Terminal

LEMMA CleanedLife ==
  ASSUME IInv, entries' = Cleaned, UNCHANGED req
  PROVE  LifeState' = Lifecycle!After(ExpiredTasks)
  BY DEF IInv, Enqueued, LifeState, Present, Cleaned, ExpiredTasks, IsExpired,
         Lifecycle!After

(* Nothing is told about any task. *)
LEMMA ToldUnchanged ==
  ASSUME UNCHANGED <<notices, answer>>
  PROVE  LifeTold' = LifeTold
  BY DEF LifeTold, Told

(* A step that only cleans up and tells nothing drops the expired tasks. *)
LEMMA CleanupDrops ==
  ASSUME IInv, entries' = Cleaned, UNCHANGED <<req, notices>>, LifeTold' = LifeTold
  PROVE  Lifecycle!Next
<1>1. Lifecycle!Drop(ExpiredTasks)
  BY ExpiredAreLive, CleanedLife DEF Lifecycle!Drop
<1> QED
  BY <1>1, ExpiredAreLive DEF Lifecycle!Next

(* Telling s about t, when everything agrees on s, tells nothing new. *)
LEMMA TellsAgreed ==
  ASSUME IInv, NEW t \in TaskId, NEW s \in Terminal, Agreed(t, s),
         LifeTold' = [LifeTold EXCEPT ![t] = {s}],
         NEW dropped \in SUBSET TaskId,
         \A u \in dropped : LifeState[u] \in Lifecycle!Live,
         LifeState' = Lifecycle!After(dropped),
         Lifecycle!After(dropped)[t] \in {s, "gone"}
  PROVE  Lifecycle!Next
<1>1. LifeTold[t] \subseteq {s}
  BY ToldAgreed DEF LifeTold
<1>2. Lifecycle!Tell(t, s, dropped)
  BY <1>1 DEF Lifecycle!Tell
<1> QED
  BY <1>2 DEF Lifecycle!Next, Lifecycle!Terminal

(* A task of which something may be told was created and works no more.   *)
LEMMA NotSilent ==
  ASSUME IInv, NEW t \in TaskId, ~Silent(t)
  PROVE  req[t] # "none" /\ ~Working(t)
  BY DEF IInv, Agreement

LEMMA RefinementStep ==
  ASSUME IInv, [Next]_vars
  PROVE  Lifecycle!Next \/ UNCHANGED <<LifeState, LifeTold>>
<1> DEFINE Goal == Lifecycle!Next \/ UNCHANGED <<LifeState, LifeTold>>
<1>1. CASE UNCHANGED <<entries, req, notices, answer>>
  BY <1>1 DEF LifeState, LifeTold, Present, Told
<1>2. CASE Poll
  BY <1>2, CleanupDrops, ToldUnchanged DEF Poll
<1>3. ASSUME NEW t \in TaskId, NEW p \in Peer, NEW ttl \in Ttl \cup {NoTtl},
             Create(t, p, ttl)
      PROVE  Goal
  <2>1. t \notin ExpiredTasks /\ LifeState[t] = "uncreated"
    BY <1>3 DEF Create, IInv, Enqueued, ExpiredTasks, IsExpired, LifeState, Present
  <2>2. NewEntry(p, ttl) # NoEntry /\ NewEntry(p, ttl).status = "working"
    BY ConstantsAssumption DEF NewEntry, Entry, IInv, TypeOK
  <2>3. LifeState' = [Lifecycle!After(ExpiredTasks) EXCEPT ![t] = "working"]
    BY <1>3, <2>1, <2>2, CleanedType
    DEF Create, IInv, TypeOK, Enqueued, LifeState, Present, Cleaned, ExpiredTasks,
        IsExpired, Lifecycle!After
  <2>4. Lifecycle!Create(t, ExpiredTasks)
    BY <1>3, <2>1, <2>3, ExpiredAreLive, ToldUnchanged DEF Create, Lifecycle!Create
  <2> QED
    BY <2>4, ExpiredAreLive DEF Lifecycle!Next
<1>4. ASSUME NEW t \in TaskId, Spawn(t)
      PROVE  Goal
  <2>1. LifeState' = LifeState
    BY <1>4 DEF Spawn, LifeState, Present, IInv, TypeOK
  <2> QED
    BY <1>4, <2>1, ToldUnchanged DEF Spawn
<1>5. ASSUME NEW t \in TaskId, AttachHandle(t)
      PROVE  Goal
  <2>1. \A u \in TaskId :
          /\ entries'[u] = NoEntry <=> entries[u] = NoEntry
          /\ entries[u] # NoEntry => entries'[u].status = entries[u].status
    BY <1>5, ConstantsAssumption DEF AttachHandle, IInv, TypeOK, Entry
  <2>2. LifeState' = LifeState
    BY <1>5, <2>1 DEF AttachHandle, LifeState, Present, IInv, TypeOK
  <2> QED
    BY <1>5, <2>2, ToldUnchanged DEF AttachHandle
<1>6. ASSUME NEW t \in TaskId, NEW s \in Terminal, NEW r, EndsAs(t, r),
             StatusOf(r) = s, UNCHANGED <<req, notices, answer>>
      PROVE  Goal
  <2>1. t \notin ExpiredTasks /\ LifeState[t] = "working"
    BY <1>6 DEF EndsAs, LifeState, Working, Present, IInv, Enqueued
  <2>2. LifeState' = [Lifecycle!After(ExpiredTasks) EXCEPT ![t] = s]
    BY <1>6, <2>1
    DEF EndsAs, IInv, Enqueued, LifeState, Present, Working, Cleaned,
        ExpiredTasks, IsExpired, Lifecycle!After
  <2>3. Lifecycle!Settle(t, s, ExpiredTasks)
    BY <1>6, <2>1, <2>2, ExpiredAreLive, ToldUnchanged DEF Lifecycle!Settle
  <2> QED
    BY <2>3, ExpiredAreLive DEF Lifecycle!Next, Lifecycle!Terminal
<1>7. ASSUME NEW t \in TaskId, Finish(t)
      PROVE  Goal
  <2>1. CASE ~StillWorking(t)
    BY <1>7, <2>1, CleanupDrops, ToldUnchanged DEF Finish
  <2>2. CASE StillWorking(t)
    BY <1>6, <1>7, <2>2, FinishEnds DEF Finish, IInv
  <2> QED
    BY <2>1, <2>2
<1>8. ASSUME NEW t \in TaskId, NEW p \in Peer, Cancel(t, p)
      PROVE  Goal
  <2>1. CASE ~MayCancel(t, p)
    BY <1>8, <2>1, CleanupDrops, ToldUnchanged DEF Cancel
  <2>2. CASE MayCancel(t, p)
    BY <1>6, <1>8, <2>2, CancelEnds DEF Cancel, IInv
  <2> QED
    BY <2>1, <2>2
<1>9. ASSUME NEW t \in TaskId, NEW s \in Terminal, NEW f,
             ~Silent(t), Agreed(t, s),
             notices' = notices \cup {[task |-> t, from |-> f, status |-> s]},
             UNCHANGED <<entries, req, answer>>
      PROVE  Goal
  <2>1. LifeState' = LifeState /\ LifeState = Lifecycle!After({})
    BY <1>9 DEF LifeState, Present, Lifecycle!After
  <2>2. LifeState[t] \in {s, "gone"}
    <3>1. Agreed(t, entries[t].status) \/ ~Settled(t)
      BY DEF IInv, Agreement
    <3>2. Settled(t) => s = entries[t].status
      BY <1>9, <3>1 DEF Agreed, Silent
    <3>3. Present(t) => Settled(t) \/ Working(t)
      BY DEF IInv, TypeOK, Present, Settled, Working, IsTerminal, Entry
    <3> QED
      BY <1>9, <3>2, <3>3, NotSilent DEF LifeState, Settled
  <2>3. Told(t)' = {s}
    <3> DEFINE n == [task |-> t, from |-> f, status |-> s]
    <3>1. n.task = t /\ n.status = s
      OBVIOUS
    <3>2. {k \in notices' : k.task = t} = {k \in notices : k.task = t} \cup {n}
      BY <1>9, <3>1
    <3>3. Told(t)' = Told(t) \cup {s}
      BY <1>9, <3>1, <3>2 DEF Told
    <3>4. Told(t) \subseteq {s}
      BY <1>9, ToldAgreed
    <3> QED
      BY <3>3, <3>4
  <2>4. \A u \in TaskId : u # t => Told(u)' = Told(u)
    BY <1>9 DEF Told
  <2>5. LifeTold' = [LifeTold EXCEPT ![t] = {s}]
    BY <2>3, <2>4 DEF LifeTold
  <2>6. Told(t) \subseteq {s}
    BY <1>9, ToldAgreed
  <2>7. Lifecycle!Tell(t, s, {})
    BY <2>1, <2>2, <2>5, <2>6 DEF Lifecycle!Tell, LifeTold
  <2> QED
    BY <2>7 DEF Lifecycle!Next, Lifecycle!Terminal
<1>10. ASSUME NEW t \in TaskId, WorkerNotify(t)
       PROVE  Goal
  <2>1. CASE UNCHANGED notices
    BY <1>1, <1>10, <2>1 DEF WorkerNotify
  <2>2. CASE notices' = notices \cup
               {[task |-> t, from |-> "worker", status |-> StatusOf(outcome[t])]}
    <3>1. PICK s \in Terminal : Agreed(t, s)
      BY DEF IInv, Agreement
    <3>2. s = StatusOf(outcome[t]) /\ ~Silent(t)
      BY <1>10, <3>1 DEF Agreed, Silent, WorkerNotify
    <3> QED
      BY <1>9, <1>10, <2>2, <3>1, <3>2 DEF WorkerNotify
  <2> QED
    BY <1>10, <2>1, <2>2 DEF WorkerNotify
<1>11. ASSUME NEW t \in TaskId, CancelNotify(t)
       PROVE  Goal
  <2>1. CASE UNCHANGED notices
    BY <1>1, <1>11, <2>1 DEF CancelNotify
  <2>2. CASE notices' = notices \cup
               {[task |-> t, from |-> "cancel", status |-> "cancelled"]}
    <3>1. PICK s \in Terminal : Agreed(t, s)
      BY DEF IInv, Agreement
    <3>2. s = "cancelled" /\ ~Silent(t)
      BY <1>11, <3>1 DEF Agreed, Silent, CancelNotify
    <3> QED
      BY <1>9, <1>11, <2>2, <3>1, <3>2 DEF CancelNotify
  <2> QED
    BY <1>11, <2>1, <2>2 DEF CancelNotify
<1>12. ASSUME NEW w \in Waiter, WaitLock(w)
       PROVE  Goal
  <2> DEFINE t == WaitTask[w]
             e == Cleaned[t]
  <2>1. t \in TaskId /\ answer[w] = "none"
    BY <1>12, ConstantsAssumption DEF WaitLock, IInv, Unanswered
  <2>2. LifeState' = Lifecycle!After(ExpiredTasks) /\ UNCHANGED <<req, notices>>
    BY <1>12, CleanedLife DEF WaitLock
  <2>3. CASE answer' = answer
    BY <1>12, <2>2, <2>3, CleanupDrops, ToldUnchanged DEF WaitLock
  <2>4. CASE Reply(w, "notFound")
    <3>1. \A v \in Waiter : v # w => answer'[v] = answer[v]
      BY <2>4 DEF Reply, IInv, TypeOK
    <3>2. answer'[w] \notin Result /\ answer[w] \notin Result
      BY <2>1, <2>4 DEF Reply, IInv, TypeOK
    <3>3. \A u \in TaskId : Told(u)' = Told(u)
      BY <2>2, <3>1, <3>2 DEF Told
    <3>4. LifeTold' = LifeTold
      BY <3>3 DEF LifeTold
    <3> QED
      BY <1>12, <2>2, <3>4, CleanupDrops DEF WaitLock
  <2>5. CASE e # NoEntry /\ e.result # "none" /\ Reply(w, e.result)
    <3> DEFINE s == StatusOf(e.result)
    <3>1. t \notin ExpiredTasks /\ e = entries[t] /\ Present(t)
      BY <2>1, <2>5 DEF Cleaned, Present
    <3>2. e.result \in Result /\ entries[t].status = s /\ s \in Terminal
      BY <2>1, <2>5, <3>1, StatusOfType
      DEF IInv, EntryCoherent, TypeOK, Entry, Present
    <3>3. Agreed(t, s)
      BY <2>1, <3>1, <3>2 DEF IInv, Agreement, Settled, IsTerminal
    <3>4. answer'[w] = e.result /\ \A v \in Waiter : v # w => answer'[v] = answer[v]
      BY <2>5 DEF Reply, IInv, TypeOK
    <3>5. \A u \in TaskId : u # t => Told(u)' = Told(u)
      BY <2>2, <3>4 DEF Told
    <3>6. Told(t)' = Told(t) \cup {s}
      BY <2>1, <2>2, <3>2, <3>4 DEF Told
    <3>7. LifeTold' = [LifeTold EXCEPT ![t] = {s}]
      <4>1. Told(t) \subseteq {s}
        BY <2>1, <3>2, <3>3, ToldAgreed
      <4> HIDE DEF s, t
      <4>2. Told(t)' = {s}
        BY <3>6, <4>1
      <4> QED
        BY <3>5, <4>2 DEF LifeTold
    <3>8. Lifecycle!After(ExpiredTasks)[t] = s
      <4>1. Lifecycle!After(ExpiredTasks)[t] = LifeState[t]
        BY <2>1, <3>1 DEF Lifecycle!After
      <4>2. req[t] # "none"
        BY <2>1, <3>1 DEF IInv, Enqueued
      <4> QED
        BY <2>1, <3>1, <3>2, <4>1, <4>2 DEF LifeState
    <3>9. ExpiredTasks \in SUBSET TaskId
      BY ExpiredAreLive
    <3> QED
      BY <2>1, <2>2, <3>2, <3>3, <3>7, <3>8, <3>9, ExpiredAreLive, TellsAgreed
  <2> QED
    BY <1>12, <2>3, <2>4, <2>5 DEF WaitLock
<1> QED
  BY <1>1, <1>2, <1>3, <1>4, <1>5, <1>7, <1>8, <1>10, <1>11, <1>12
  DEF Next, WorkerStep, Tick, Execute, WorkerAborted, WaitStart, WaitRegister, vars

(* The store does what TaskLifecycle promises. *)
THEOREM StoreImplementsLifecycle == Spec => ImplementsLifecycle
<1>1. Init => Lifecycle!Init
  BY DEF Init, Lifecycle!Init, LifeState, LifeTold, Told
<1>2. IInv /\ [Next]_vars => [Lifecycle!Next]_<<LifeState, LifeTold>>
  BY RefinementStep
<1> QED
  BY <1>1, <1>2, Invariant, PTL DEF Spec, ImplementsLifecycle, Lifecycle!Spec
=============================================================================
