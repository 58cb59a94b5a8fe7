--------------------------- MODULE TaskLifecycle ---------------------------
(***************************************************************************)
(* What the task store promises its clients, whatever its workers, waiters *)
(* and locks do: a task is created once, settles at most once, disappears  *)
(* when its time to live is over, and everything that clients are told     *)
(* about its outcome (status notifications and tasks/result answers)       *)
(* names one and the same outcome.  TaskStore implements this module.      *)
(***************************************************************************)
CONSTANT TaskId

VARIABLES
  state,     \* state[t] : where task t is in its life
  told       \* told[t]  : the outcomes of t that clients have been told

Terminal == {"completed", "failed", "cancelled"}
Live     == {"working"} \cup Terminal
State    == {"uncreated", "gone"} \cup Live

Init ==
  /\ state = [t \in TaskId |-> "uncreated"]
  /\ told = [t \in TaskId |-> {}]

(* Every operation of the store may first drop tasks whose time is over.   *)
After(dropped) == [t \in TaskId |-> IF t \in dropped THEN "gone" ELSE state[t]]

Drop(dropped) ==
  /\ \A t \in dropped : state[t] \in Live
  /\ state' = After(dropped)
  /\ UNCHANGED told

Create(t, dropped) ==
  /\ state[t] = "uncreated"
  /\ \A u \in dropped : state[u] \in Live
  /\ state' = [After(dropped) EXCEPT ![t] = "working"]
  /\ UNCHANGED told

Settle(t, s, dropped) ==
  /\ state[t] = "working"
  /\ t \notin dropped
  /\ \A u \in dropped : state[u] \in Live
  /\ state' = [After(dropped) EXCEPT ![t] = s]
  /\ UNCHANGED told

(* A client learns that t ended as s: it did, or it is gone and nobody was *)
(* told anything else.                                                     *)
Tell(t, s, dropped) ==
  /\ After(dropped)[t] \in {s, "gone"}
  /\ told[t] \subseteq {s}
  /\ \A u \in dropped : state[u] \in Live
  /\ state' = After(dropped)
  /\ told' = [told EXCEPT ![t] = {s}]

Next ==
  \E dropped \in SUBSET TaskId :
    \/ Drop(dropped)
    \/ \E t \in TaskId : Create(t, dropped)
    \/ \E t \in TaskId, s \in Terminal :
         Settle(t, s, dropped) \/ Tell(t, s, dropped)

Spec == Init /\ [][Next]_<<state, told>>
=============================================================================
