-------------------------- MODULE NotificationHub --------------------------
(***************************************************************************)
(* ClientNotificationHub (engine/client_notifications.rs): the vector of   *)
(* clients the server has seen, and notify(), which takes the whole vector *)
(* out of the mutex, sends to its clients one by one, and merges those     *)
(* that could be reached back in.  Each call of notify() belongs to a      *)
(* caller (a reload, a refresh, a flush of registry events): the module    *)
(* that extends this one says when a call begins.                          *)
(*                                                                         *)
(* A client is its peer key.  The vector holds a key at most once (the     *)
(* code looks the key up before every push), so it is a set.               *)
(***************************************************************************)
CONSTANTS
  Key,      \* peer keys
  Caller    \* who calls notify()

VARIABLES
  peers,    \* ClientNotificationHub::peers
  closed,   \* clients whose transport is closed
  call,     \* call[c] : the call of notify() by c
  seen,     \* history: clients that have sent a request
  lost      \* history: clients a send failed for, or whose call was dropped

hubVars == <<peers, closed, call, seen, lost>>

(* Where a call is: waiting for the mutex, sending, waiting to merge. *)
Call ==
  [at : {"idle", "take", "send", "done"}, pending : SUBSET Key, keep : SUBSET Key]

IdleCall == [at |-> "idle", pending |-> {}, keep |-> {}]

Held(c) == call[c].pending \cup call[c].keep

HubInit ==
  /\ peers = {}
  /\ closed = {}
  /\ call = [c \in Caller |-> IdleCall]
  /\ seen = {}
  /\ lost = {}

(* observe_peer, on a request of client k. *)
Observe(k) ==
  /\ k \notin closed
  /\ peers' = (peers \ closed) \cup {k}
  /\ seen' = seen \cup {k}
  /\ lost' = lost \ {k}
  /\ UNCHANGED <<closed, call>>

(* The client goes away; keys are not used again. *)
Close(k) ==
  /\ k \in seen \ closed
  /\ closed' = closed \cup {k}
  /\ UNCHANGED <<peers, call, seen, lost>>

(* Under the mutex: drop closed clients, return 0 if none is left, and     *)
(* otherwise take the vector.                                              *)
Take(c) ==
  /\ call[c].at = "take"
  /\ peers' = {}
  /\ \/ /\ peers \ closed = {}
        /\ call' = [call EXCEPT ![c].at = "done"]
     \/ /\ peers \ closed # {}
        /\ call' = [call EXCEPT ![c].at = "send", ![c].pending = peers \ closed]
  /\ UNCHANGED <<closed, seen, lost>>

(* One client of the taken vector is sent to: kept, or forgotten when the  *)
(* send fails, as it does when the transport is closed.                    *)
Send(c, k) ==
  /\ call[c].at = "send"
  /\ k \in call[c].pending
  /\ \/ /\ k \notin closed
        /\ call' = [call EXCEPT ![c].pending = @ \ {k}, ![c].keep = @ \cup {k}]
        /\ UNCHANGED lost
     \/ /\ call' = [call EXCEPT ![c].pending = @ \ {k}]
        /\ lost' = lost \cup {k}
  /\ UNCHANGED <<peers, closed, seen>>

(* Mutant of Merged. *)
MergeOverwrites(c) == call[c].keep

(* merge_peers: clients observed while the vector was taken stay. *)
Merged(c) == (peers \ closed) \cup call[c].keep

Merge(c) ==
  /\ call[c].at = "send"
  /\ call[c].pending = {}
  /\ peers' = Merged(c)
  /\ call' = [call EXCEPT ![c] = [IdleCall EXCEPT !.at = "done"]]
  /\ UNCHANGED <<closed, seen, lost>>

Hub ==
  \/ \E k \in Key : Observe(k) \/ Close(k)
  \/ \E c \in Caller : Take(c) \/ Merge(c) \/ \E k \in Key : Send(c, k)

(* What the caller does: start a call, see it return, or be dropped at one *)
(* of its awaits, together with the clients the call holds.                *)
Calling(c)  == call[c].at \in {"take", "send"}
Returned(c) == call[c].at = "done"

BeginCall(c) ==
  /\ call' = [call EXCEPT ![c] = [IdleCall EXCEPT !.at = "take"]]
  /\ UNCHANGED <<peers, closed, seen, lost>>

EndCall(c) ==
  /\ call' = [call EXCEPT ![c] = IdleCall]
  /\ UNCHANGED <<peers, closed, seen, lost>>

DropCall(c) ==
  /\ call' = [call EXCEPT ![c] = IdleCall]
  /\ lost' = lost \cup Held(c)
  /\ UNCHANGED <<peers, closed, seen>>
=============================================================================
