----------------------- MODULE RuntimeListsProperties -----------------------
(***************************************************************************)
(* What must hold of the runtime's lists, their announcement and the hub.  *)
(***************************************************************************)
EXTENDS RuntimeLists

(* Every variable of the runtime and of the hub has its type. *)
TypeOK ==
  /\ peers \subseteq Key
  /\ closed \subseteq Key
  /\ call \in [Caller -> Call]
  /\ seen \subseteq Key
  /\ lost \subseteq Key
  /\ engine \in Engine
  /\ cache \in [Feature -> List]
  /\ serving \in Engine \cup {None}
  /\ version \in [Feature -> 0..MaxVersion]
  /\ reload \in [Reload -> ReloadRecord]
  /\ refresh \in [Refresher -> RefreshRecord]
  /\ locks \subseteq Feature
  /\ channel \in Seq(Feature) /\ Len(channel) <= Capacity
  /\ lagged \in BOOLEAN
  /\ worker \in [at : {"recv", "check", "insert"}, feature : Feature \cup {None}]
  /\ pending \subseteq Feature
  /\ flusher \in [Flusher -> [at : {"idle", "sleep", "engine", "notify", "done"},
                              feature : Feature \cup {None}]]
  /\ events \in 0..MaxEvents
  /\ owed \subseteq Feature
  /\ evicted \subseteq Feature

(* A client that sent a request stays reachable while its transport is     *)
(* open: notify() empties the vector, other calls find it empty and new    *)
(* requests refill it, and yet every client is in the vector or held by a  *)
(* call that will put it back (client_notifications.rs:55-98).  Excepted   *)
(* are clients a send failed for or that a dropped call held.              *)
ClientKept ==
  seen \ (closed \cup lost) \subseteq peers \cup UNION {Held(c) : c \in Caller}

(* No registry event is lost between the channel, the worker, the pending  *)
(* set and the flush tasks: a feature whose event has not been announced   *)
(* is on its way, unless the channel dropped its event.                    *)
OnItsWay(f) ==
  \/ \E i \in 1..Len(channel) : channel[i] = f
  \/ worker.at # "recv" /\ worker.feature = f
  \/ \E d \in Flusher : flusher[d].at \in {"sleep", "engine"} /\ flusher[d].feature = f

EventOnItsWay == \A f \in owed \ evicted : OnItsWay(f)

Writes(x) == refresh[x].at = "write" /\ refresh'[x].at # "write"

(* Refreshes never take the list cache back to older data of a plugin: the *)
(* lock of the feature keeps two of them apart, and the check of the       *)
(* engine keeps a refresh from overwriting what a reload has fetched since *)
(* (core.rs:230-246, 340-352).  Excepted is the write whose engine was     *)
(* replaced after the check; CacheListsEngine shows what that one does.    *)
CacheMovesForward ==
  [][\A x \in Refresher :
       Writes(x) /\ refresh[x].engine = engine /\ cache' # cache =>
         refresh[x].list.plugin >= cache[refresh[x].feature].plugin]_vars

(* A refresh that was asked for returns: no holder of its lock, dropped,   *)
(* failed or finished, leaves it locked.                                   *)
RefreshReturnsInTheEnd ==
  \A x \in Refresher : (refresh[x].at # "idle") ~> (refresh[x].at = "done")

(* A registry event is announced in the end, unless the channel drops it   *)
(* or the notifications of its feature are off at some time.               *)
EventAnnounced ==
  \A f \in Feature :
    (f \in owed) ~> (f \notin owed \/ f \in evicted \/ ~Enabled(engine, f))

-----------------------------------------------------------------------------
(* The comment at core.rs:387-388: with "stale-write protection", "If a     *)
(* reload swapped the engine between snapshot and write-back, the stale    *)
(* result is discarded."  So when no reload or refresh is under way, the   *)
(* cache lists what the engine's configuration lists.  A reload that its   *)
(* caller drops between the two swaps leaves another list too; it is no    *)
(* stale write, and no state with a dropped reload counts as resting.      *)
Resting ==
  /\ \A r \in Reload : reload[r].at \in {"idle", "done", "failed"}
  /\ \A x \in Refresher : refresh[x].at \in {"idle", "done"}

CacheListsEngine ==
  Resting => \A f \in Feature : cache[f].config = Listed[ConfigOf(engine)][f]
=============================================================================
