------------------------ MODULE RuntimeListsProofs ------------------------
(***************************************************************************)
(* Proofs about RuntimeLists and the NotificationHub it extends, for every *)
(* number of reloads, refreshes, flush tasks, clients and configurations   *)
(* and every size of the channel.                                          *)
(***************************************************************************)
EXTENDS RuntimeListsProperties, TLAPS

FlushRecord ==
  [at : {"idle", "sleep", "engine", "notify", "done"}, feature : Feature \cup {None}]

WorkerRecord == [at : {"recv", "check", "insert"}, feature : Feature \cup {None}]

LEMMA CallerKinds ==
  /\ Reload \subseteq Caller /\ Refresher \subseteq Caller /\ Flusher \subseteq Caller
  /\ \A c \in Caller : c \in Reload \/ c \in Refresher \/ c \in Flusher
  /\ Reload \cap Refresher = {} /\ Reload \cap Flusher = {}
  /\ Refresher \cap Flusher = {}
  BY RuntimeAssumption

LEMMA EngineKinds ==
  /\ Boot \in Engine /\ Reload \subseteq Engine
  /\ \A e \in Engine : e # Boot => e \in Reload
  BY DEF Engine

-----------------------------------------------------------------------------
(* The types.                                                              *)

HubType ==
  /\ peers \subseteq Key
  /\ closed \subseteq Key
  /\ call \in [Caller -> Call]
  /\ seen \subseteq Key
  /\ lost \subseteq Key

ListsType ==
  /\ engine \in Engine
  /\ cache \in [Feature -> List]
  /\ serving \in Engine \cup {None}
  /\ version \in [Feature -> 0..MaxVersion]
  /\ reload \in [Reload -> ReloadRecord]
  /\ refresh \in [Refresher -> RefreshRecord]
  /\ locks \subseteq Feature

EventsType ==
  /\ channel \in Seq(Feature) /\ Len(channel) <= Capacity
  /\ lagged \in BOOLEAN
  /\ worker \in WorkerRecord
  /\ pending \subseteq Feature
  /\ flusher \in [Flusher -> FlushRecord]
  /\ events \in 0..MaxEvents
  /\ owed \subseteq Feature
  /\ evicted \subseteq Feature

(* What a reload has built is a list, and at its end all lists are.        *)
ListsBuilt ==
  \A r \in Reload :
    /\ reload[r].at = "fetch" => \A f \in Feature \ reload[r].todo : reload[r].lists[f] \in List
    /\ reload[r].at \in {"diff", "engine", "cache"} =>
         \A f \in Feature : reload[r].lists[f] \in List

(* A refresh that is under way has a feature, and from its fetch on a list. *)
RefreshHasList ==
  \A x \in Refresher :
    /\ refresh[x].at \notin {"idle", "done"} => refresh[x].feature \in Feature
    /\ refresh[x].at \in {"check", "write"} => refresh[x].list \in List

WorkerHasFeature == worker.at # "recv" => worker.feature \in Feature

FlusherHasFeature ==
  \A d \in Flusher : flusher[d].at \notin {"idle"} => flusher[d].feature \in Feature

Types ==
  /\ HubType /\ ListsType /\ EventsType
  /\ ListsBuilt /\ RefreshHasList /\ WorkerHasFeature /\ FlusherHasFeature

LEMMA TypesImplyTypeOK == Types => TypeOK
  BY DEF Types, HubType, ListsType, EventsType, TypeOK, FlushRecord, WorkerRecord

LEMMA ListOfType ==
  ASSUME version \in [Feature -> 0..MaxVersion], NEW c \in Config, NEW f \in Feature
  PROVE  ListOf(c, f) \in List
<1>1. Listed[c][f] \in Nat
  BY RuntimeAssumption
<1>2. version[f] \in Nat
  BY RuntimeAssumption
<1> QED
  BY <1>1, <1>2 DEF ListOf, List

LEMMA TypesInit == Init => Types
<1> SUFFICES ASSUME Init PROVE Types
  OBVIOUS
<1>1. IdleCall \in Call
  BY DEF IdleCall, Call
<1>2. HubType
  BY <1>1 DEF Init, HubInit, HubType
<1>3. NoLists \in [Feature -> List \cup {None}]
  BY DEF NoLists
<1>4. Idle \in ReloadRecord
  BY <1>3, RuntimeAssumption DEF Idle, ReloadRecord
<1>5. NoRefresh \in RefreshRecord
  BY EngineKinds DEF NoRefresh, RefreshRecord
<1>6. \A f \in Feature : [config |-> Listed[BootConfig][f], plugin |-> 0] \in List
  BY RuntimeAssumption DEF List
<1>7. cache \in [Feature -> List] /\ version \in [Feature -> 0..MaxVersion]
  BY <1>6, RuntimeAssumption DEF Init
<1>8. reload \in [Reload -> ReloadRecord] /\ refresh \in [Refresher -> RefreshRecord]
  BY <1>4, <1>5 DEF Init
<1>9. ListsType
  BY <1>7, <1>8, EngineKinds DEF Init, ListsType
<1>10. [at |-> "idle", feature |-> None] \in FlushRecord
  BY DEF FlushRecord
<1>11. [at |-> "recv", feature |-> None] \in WorkerRecord
  BY DEF WorkerRecord
<1>12. << >> \in Seq(Feature) /\ Len(<< >>) = 0
  OBVIOUS
<1>13. channel \in Seq(Feature) /\ Len(channel) <= Capacity
  BY <1>12, RuntimeAssumption DEF Init
<1>15. flusher \in [Flusher -> FlushRecord] /\ worker \in WorkerRecord
  BY <1>10, <1>11 DEF Init
<1>16. events \in 0..MaxEvents
  BY RuntimeAssumption DEF Init
<1>17. EventsType
  BY <1>13, <1>15, <1>16 DEF Init, EventsType
<1>14. ListsBuilt /\ RefreshHasList /\ WorkerHasFeature /\ FlusherHasFeature
  BY DEF Init, ListsBuilt, RefreshHasList, WorkerHasFeature, FlusherHasFeature, Idle,
         NoRefresh
<1> QED
  BY <1>2, <1>9, <1>17, <1>14 DEF Types

(* What the operations of the hub do to its types and to the calls.        *)
LEMMA HubTypeStep ==
  ASSUME HubType, HubStep
  PROVE  HubType'
<1>1. CASE \E k \in Key : Observe(k) \/ Close(k)
  BY <1>1 DEF Observe, Close, HubType
<1>2. ASSUME NEW c \in Caller, Take(c)
      PROVE  HubType'
  <2>1. call' \in [Caller -> Call]
    BY <1>2 DEF Take, HubType, Call
  <2> QED
    BY <1>2, <2>1 DEF Take, HubType
<1>3. ASSUME NEW c \in Caller, Merge(c)
      PROVE  HubType'
  <2>1. call[c].keep \subseteq Key
    BY DEF HubType, Call
  <2>2. call' \in [Caller -> Call]
    BY <1>3 DEF Merge, HubType, Call, IdleCall
  <2> QED
    BY <1>3, <2>1, <2>2 DEF Merge, Merged, HubType
<1>4. ASSUME NEW c \in Caller, NEW k \in Key, Send(c, k)
      PROVE  HubType'
  <2>1. call' \in [Caller -> Call]
    BY <1>4 DEF Send, HubType, Call
  <2> QED
    BY <1>4, <2>1 DEF Send, HubType
<1> QED
  BY <1>1, <1>2, <1>3, <1>4 DEF HubStep, Hub

LEMMA CallTypeStep ==
  ASSUME HubType, NEW c \in Caller, BeginCall(c) \/ EndCall(c) \/ DropCall(c)
  PROVE  HubType'
<1>1. IdleCall \in Call /\ [IdleCall EXCEPT !.at = "take"] \in Call
  BY DEF IdleCall, Call
<1>2. Held(c) \subseteq Key
  BY DEF HubType, Call, Held
<1>3. call' \in [Caller -> Call]
  BY <1>1 DEF BeginCall, EndCall, DropCall, HubType
<1> QED
  BY <1>2, <1>3 DEF BeginCall, EndCall, DropCall, HubType

LEMMA HubUnchanged == HubType /\ UNCHANGED hubVars => HubType'
  BY DEF HubType, hubVars, Call

EventsOk == EventsType /\ WorkerHasFeature /\ FlusherHasFeature

LEMMA EventsUnchanged == EventsOk /\ UNCHANGED eventVars => EventsOk'
  BY DEF EventsOk, EventsType, WorkerHasFeature, FlusherHasFeature, eventVars, FlushRecord,
         WorkerRecord

LEMMA ReloadTypeStep ==
  ASSUME Types, NEW r \in Reload, ReloadStep(r)
  PROVE  Types'
<1> DEFINE Lists == [Feature -> List \cup {None}]
<1> USE DEF Types
<1>0. /\ reload \in [Reload -> ReloadRecord] /\ reload[r] \in ReloadRecord
      /\ reload[r].config \in Config /\ reload[r].lists \in Lists
      /\ reload[r].todo \subseteq Feature
  BY DEF ListsType, ReloadRecord
<1>1. ASSUME NEW c \in Config, ReloadBuild(r, c)
      PROVE  Types'
  <2>1. reload' \in [Reload -> ReloadRecord]
    BY <1>0, <1>1 DEF ReloadBuild, ReloadRecord
  <2>2. ListsType'
    BY <1>1, <2>1 DEF ReloadBuild, ListsType, listVars
  <2>3. ListsBuilt'
    BY <1>0, <1>1 DEF ReloadBuild, ListsBuilt
  <2> QED
    BY <1>1, <2>2, <2>3, HubUnchanged, EventsUnchanged
    DEF ReloadBuild, EventsOk, RefreshHasList
<1>2. CASE ReloadFetch(r)
  <2> DEFINE f == First(reload[r].todo)
  <2>1. f \in Feature => ListOf(reload[r].config, f) \in List
    BY <1>0, ListOfType DEF ListsType
  <2>2. PICK l : l = ListOf(reload[r].config, f)
    OBVIOUS
  <2>3. [reload[r].lists EXCEPT ![f] = l] \in Lists
    BY <1>0, <2>1, <2>2
  <2> DEFINE L == [reload[r].lists EXCEPT ![f] = l]
             T == reload[r].todo \ {f}
             A == IF LastList(reload[r].todo, f) THEN "diff" ELSE "fetch"
  <2> DEFINE U == [reload[r] EXCEPT !.lists = L, !.todo = T, !.at = A]
  <2>9. U \in ReloadRecord /\ U.at = A /\ U.lists = L /\ U.todo = T
    <3>1. L \in Lists /\ T \in SUBSET Feature /\ A \in {"diff", "fetch"}
      BY <1>0, <2>3
    <3>2. PICK q : q = L
      OBVIOUS
    <3>3. PICK t : t = T
      OBVIOUS
    <3>4. PICK a : a = A
      OBVIOUS
    <3>5. U = [reload[r] EXCEPT !.lists = q, !.todo = t, !.at = a]
      BY <3>2, <3>3, <3>4
    <3>6. q \in [Feature -> List \cup {None}] /\ t \in SUBSET Feature /\ a \in {"diff", "fetch"}
      BY <3>1, <3>2, <3>3, <3>4
    <3> HIDE DEF L, T, A, U, Lists
    <3>7. PICK R \in ReloadRecord : R = reload[r]
      BY <1>0
    <3>9. PICK u : u = [R EXCEPT !.lists = q, !.todo = t, !.at = a]
      OBVIOUS
    <3>8. u \in ReloadRecord /\ u.at = a /\ u.lists = q /\ u.todo = t
      BY <3>6, <3>9 DEF ReloadRecord
    <3>10. u = U
      BY <3>5, <3>7, <3>9, Zenon
    <3> QED
      BY <3>2, <3>3, <3>4, <3>8, <3>10
  <2>4. \/ reload' = [reload EXCEPT ![r] = U]
        \/ reload' = [reload EXCEPT ![r].at = "failed"]
    <3>1. [reload EXCEPT ![r].lists[f] = l, ![r].todo = T, ![r].at = A]
            = [reload EXCEPT ![r] = U]
      <4> HIDE DEF T, A, f
      <4> QED
        BY <1>0 DEF ReloadRecord
    <3>2. \/ reload' = [reload EXCEPT ![r].lists[f] = l, ![r].todo = T, ![r].at = A]
          \/ reload' = [reload EXCEPT ![r].at = "failed"]
      BY <1>2, <2>2 DEF ReloadFetch
    <3> HIDE DEF U
    <3> QED
      BY <3>1, <3>2
  <2>5. reload' \in [Reload -> ReloadRecord]
    <3>1. [reload[r] EXCEPT !.at = "failed"] \in ReloadRecord
      BY <1>0 DEF ReloadRecord
    <3> HIDE DEF U
    <3> QED
      BY <1>0, <2>4, <2>9, <3>1
  <2>6. \A g \in Feature \ reload[r].todo : reload[r].lists[g] \in List
    BY <1>2 DEF ReloadFetch, ListsBuilt
  <2>7. ListsBuilt'
    <3> HIDE DEF f
    <3>1. ASSUME NEW q \in Reload, q # r
          PROVE  reload'[q] = reload[q]
      BY <1>0, <2>4, <3>1
    <3>2. \/ reload'[r].at = "failed"
          \/ reload'[r].at = A /\ reload'[r].todo = T /\ reload'[r].lists = L
      <4> HIDE DEF L, T, A
      <4>1. CASE reload' = [reload EXCEPT ![r] = U]
        <5> HIDE DEF U
        <5> QED
          BY <1>0, <2>9, <4>1
      <4>2. CASE reload' = [reload EXCEPT ![r].at = "failed"]
        BY <1>0, <4>2 DEF ReloadRecord
      <4> QED
        BY <2>4, <4>1, <4>2
    <3>3. \A g \in Feature : g \notin reload[r].todo \/ g = f =>
             [reload[r].lists EXCEPT ![f] = l][g] \in List
      BY <1>0, <2>1, <2>2, <2>6 DEF f
    <3>4. LastList(reload[r].todo, f) => reload[r].todo = {f}
      BY DEF LastList
    <3> QED
      BY <3>1, <3>2, <3>3, <3>4 DEF ListsBuilt
  <2>8. ListsType'
    BY <1>2, <2>5 DEF ReloadFetch, ListsType, listVars
  <2> QED
    BY <1>2, <2>7, <2>8, HubUnchanged, EventsUnchanged
    DEF ReloadFetch, EventsOk, RefreshHasList
<1>3. CASE ReloadDiff(r)
  <2>1. reload' \in [Reload -> ReloadRecord]
    BY <1>0, <1>3 DEF ReloadDiff, ReloadRecord
  <2>2. ListsType'
    BY <1>3, <2>1 DEF ReloadDiff, ListsType, listVars
  <2>3. ListsBuilt'
    BY <1>0, <1>3 DEF ReloadDiff, ListsBuilt
  <2> QED
    BY <1>3, <2>2, <2>3, HubUnchanged, EventsUnchanged
    DEF ReloadDiff, EventsOk, RefreshHasList
<1>4. CASE ReloadSwapEngine(r)
  <2>1. reload' \in [Reload -> ReloadRecord]
    BY <1>0, <1>4 DEF ReloadSwapEngine, ReloadRecord
  <2>2. ListsType'
    BY <1>4, <2>1, EngineKinds DEF ReloadSwapEngine, ListsType
  <2>3. ListsBuilt'
    BY <1>0, <1>4 DEF ReloadSwapEngine, ListsBuilt
  <2> QED
    BY <1>4, <2>2, <2>3, HubUnchanged, EventsUnchanged
    DEF ReloadSwapEngine, EventsOk, RefreshHasList
<1>5. CASE ReloadSwapCache(r)
  <2>1. reload' \in [Reload -> ReloadRecord]
    BY <1>0, <1>5 DEF ReloadSwapCache, ReloadRecord
  <2>2. cache' \in [Feature -> List]
    BY <1>0, <1>5 DEF ReloadSwapCache, ListsBuilt
  <2>3. ListsType'
    BY <1>5, <2>1, <2>2 DEF ReloadSwapCache, ListsType
  <2>4. ListsBuilt'
    BY <1>0, <1>5 DEF ReloadSwapCache, ListsBuilt
  <2> QED
    BY <1>5, <2>3, <2>4, HubUnchanged, EventsUnchanged
    DEF ReloadSwapCache, EventsOk, RefreshHasList
<1>6. CASE ReloadNotify(r)
  <2>1. reload' \in [Reload -> ReloadRecord]
    BY <1>0, <1>6 DEF ReloadNotify, ReloadRecord
  <2>2. ListsType'
    BY <1>6, <2>1 DEF ReloadNotify, ListsType, listVars
  <2>3. ListsBuilt'
    <3>1. \A q \in Reload : q # r => reload'[q] = reload[q]
      BY <1>0, <1>6 DEF ReloadNotify
    <3>2. PICK S : UNCHANGED reload \/ reload' = [reload EXCEPT ![r].todo = S]
      BY <1>6 DEF ReloadNotify
    <3>3. reload[r].at = "notify"
      BY <1>6 DEF ReloadNotify
    <3>4. reload'[r].at = "notify"
      BY <1>0, <3>2, <3>3 DEF ReloadRecord
    <3> QED
      BY <3>1, <3>4 DEF ListsBuilt
  <2>4. HubType'
    BY <1>6, CallTypeStep, CallerKinds DEF ReloadNotify
  <2> QED
    BY <1>6, <2>2, <2>3, <2>4, EventsUnchanged
    DEF ReloadNotify, EventsOk, RefreshHasList
<1>7. CASE ReloadDone(r)
  <2>1. reload' \in [Reload -> ReloadRecord]
    BY <1>0, <1>7 DEF ReloadDone, ReloadRecord
  <2>2. ListsType'
    BY <1>7, <2>1 DEF ReloadDone, ListsType, listVars
  <2>3. ListsBuilt'
    BY <1>0, <1>7 DEF ReloadDone, ListsBuilt
  <2> QED
    BY <1>7, <2>2, <2>3, HubUnchanged, EventsUnchanged
    DEF ReloadDone, EventsOk, RefreshHasList
<1>8. CASE ReloadDropped(r)
  <2>1. reload' \in [Reload -> ReloadRecord]
    BY <1>0, <1>8 DEF ReloadDropped, ReloadRecord
  <2>2. ListsType'
    BY <1>8, <2>1 DEF ReloadDropped, ListsType, listVars
  <2>3. ListsBuilt'
    BY <1>0, <1>8 DEF ReloadDropped, ListsBuilt
  <2>4. HubType'
    BY <1>8, CallTypeStep, CallerKinds DEF ReloadDropped
  <2> QED
    BY <1>8, <2>2, <2>3, <2>4, EventsUnchanged
    DEF ReloadDropped, EventsOk, RefreshHasList
<1> QED
  BY <1>1, <1>2, <1>3, <1>4, <1>5, <1>6, <1>7, <1>8 DEF ReloadStep

ReloadOk == reload \in [Reload -> ReloadRecord] /\ ListsBuilt

LEMMA ReloadUnchanged == ReloadOk /\ UNCHANGED reload => ReloadOk'
  BY DEF ReloadOk, ListsBuilt

LEMMA RefreshReturnsType ==
  ASSUME Types, NEW x \in Refresher, NEW result \in {"none", "changed", "unchanged"},
         RefreshReturns(x, result)
  PROVE  /\ refresh' \in [Refresher -> RefreshRecord]
         /\ refresh'[x].at = "done"
         /\ \A y \in Refresher : y # x => refresh'[y] = refresh[y]
         /\ locks' \subseteq Feature
         /\ RefreshHasList'
<1>1. refresh \in [Refresher -> RefreshRecord]
  BY DEF Types, ListsType
<1>2. [NoRefresh EXCEPT !.at = "done", !.result = result] \in RefreshRecord
  BY EngineKinds DEF NoRefresh, RefreshRecord
<1>3. [NoRefresh EXCEPT !.at = "done", !.result = result].at = "done"
  BY DEF NoRefresh
<1>4. PICK n : n = [NoRefresh EXCEPT !.at = "done", !.result = result]
  OBVIOUS
<1>5. refresh' = [refresh EXCEPT ![x] = n]
  BY <1>4 DEF RefreshReturns
<1>6. /\ refresh' \in [Refresher -> RefreshRecord]
      /\ refresh'[x].at = "done"
      /\ \A y \in Refresher : y # x => refresh'[y] = refresh[y]
  BY <1>1, <1>2, <1>3, <1>4, <1>5
<1>7. RefreshHasList'
  BY <1>6 DEF Types, RefreshHasList
<1> QED
  BY <1>6, <1>7 DEF RefreshReturns, Released, Types, ListsType

LEMMA RefreshTypeStep ==
  ASSUME Types, NEW x \in Refresher, RefreshStep(x)
  PROVE  Types'
<1> USE DEF Types
<1>0. refresh \in [Refresher -> RefreshRecord] /\ refresh[x] \in RefreshRecord
  BY DEF ListsType
<1>1. ASSUME NEW f \in Feature, RefreshStart(x, f)
      PROVE  Types'
  <2>1. refresh' \in [Refresher -> RefreshRecord]
    BY <1>0, <1>1 DEF RefreshStart, RefreshRecord
  <2>2. ListsType'
    BY <1>1, <2>1 DEF RefreshStart, ListsType, listVars
  <2>3. RefreshHasList'
    BY <1>0, <1>1 DEF RefreshStart, RefreshHasList, RefreshRecord
  <2> QED
    BY <1>1, <2>2, <2>3, HubUnchanged, EventsUnchanged, ReloadUnchanged
    DEF RefreshStart, EventsOk, ReloadOk, ListsType
<1>2. CASE RefreshLock(x)
  <2>1. refresh' \in [Refresher -> RefreshRecord]
    BY <1>0, <1>2 DEF RefreshLock, RefreshRecord, ListsType
  <2>2. refresh[x].feature \in Feature
    BY <1>2 DEF RefreshLock, RefreshHasList
  <2>3. ListsType'
    BY <1>2, <2>1, <2>2 DEF RefreshLock, ListsType, listVars
  <2>4. RefreshHasList'
    BY <1>0, <1>2 DEF RefreshLock, RefreshHasList, RefreshRecord
  <2> QED
    BY <1>2, <2>3, <2>4, HubUnchanged, EventsUnchanged, ReloadUnchanged
    DEF RefreshLock, EventsOk, ReloadOk, ListsType
<1>3. CASE RefreshOld(x)
  <2>1. cache[refresh[x].feature] \in List
    BY <1>3 DEF RefreshOld, RefreshHasList, ListsType
  <2>2. refresh' \in [Refresher -> RefreshRecord]
    BY <1>0, <1>3, <2>1 DEF RefreshOld, RefreshRecord
  <2>3. ListsType'
    BY <1>3, <2>2 DEF RefreshOld, ListsType, listVars
  <2>4. RefreshHasList'
    BY <1>0, <1>3 DEF RefreshOld, RefreshHasList, RefreshRecord
  <2> QED
    BY <1>3, <2>3, <2>4, HubUnchanged, EventsUnchanged, ReloadUnchanged
    DEF RefreshOld, EventsOk, ReloadOk, ListsType
<1>4. CASE RefreshFetch(x)
  <2> DEFINE list == ListOf(ConfigOf(refresh[x].engine), refresh[x].feature)
  <2>1. ConfigOf(refresh[x].engine) \in Config
    BY <1>0, EngineKinds, RuntimeAssumption DEF ConfigOf, ListsType, ReloadRecord, RefreshRecord
  <2>2. refresh[x].feature \in Feature
    BY <1>4 DEF RefreshFetch, RefreshHasList
  <2>3. list \in List
    BY <2>1, <2>2, ListOfType DEF ListsType
  <2>4. PICK l \in List : l = list
    BY <2>3
  <2>5. CASE RefreshReturns(x, "unchanged")
    BY <1>4, <2>5, RefreshReturnsType, HubUnchanged, EventsUnchanged, ReloadUnchanged
    DEF RefreshFetch, EventsOk, ReloadOk, ListsType, listVars
  <2>6. CASE refresh' = [refresh EXCEPT ![x].at = "check", ![x].list = l] /\ UNCHANGED locks
    <3>1. refresh' \in [Refresher -> RefreshRecord]
      BY <1>0, <2>6 DEF RefreshRecord
    <3>2. RefreshHasList'
      BY <1>0, <2>2, <2>6 DEF RefreshHasList, RefreshRecord
    <3> HIDE DEF list
    <3> QED
      BY <1>4, <2>6, <3>1, <3>2, HubUnchanged, EventsUnchanged, ReloadUnchanged
      DEF RefreshFetch, EventsOk, ReloadOk, ListsType, listVars
  <2>7. \/ RefreshReturns(x, "unchanged")
        \/ refresh' = [refresh EXCEPT ![x].at = "check", ![x].list = l] /\ UNCHANGED locks
    BY <1>4, <2>4 DEF RefreshFetch
  <2> QED
    BY <2>5, <2>6, <2>7
<1>5. CASE RefreshCheck(x)
  <2>1. CASE RefreshReturns(x, "unchanged")
    BY <1>5, <2>1, RefreshReturnsType, HubUnchanged, EventsUnchanged, ReloadUnchanged
    DEF RefreshCheck, EventsOk, ReloadOk, ListsType, listVars
  <2>2. CASE refresh' = [refresh EXCEPT ![x].at = "write"] /\ UNCHANGED locks
    <3>1. refresh' \in [Refresher -> RefreshRecord]
      BY <1>0, <2>2 DEF RefreshRecord
    <3>2. RefreshHasList'
      BY <1>0, <1>5, <2>2 DEF RefreshCheck, RefreshHasList, RefreshRecord
    <3> QED
      BY <1>5, <2>2, <3>1, <3>2, HubUnchanged, EventsUnchanged, ReloadUnchanged
      DEF RefreshCheck, EventsOk, ReloadOk, ListsType, listVars
  <2> QED
    BY <1>5, <2>1, <2>2 DEF RefreshCheck
<1>6. CASE RefreshWrite(x)
  <2>1. refresh[x].feature \in Feature /\ refresh[x].list \in List
    BY <1>6 DEF RefreshWrite, RefreshHasList
  <2>2. cache' \in [Feature -> List]
    BY <1>6, <2>1 DEF RefreshWrite, ListsType
  <2>3. HubType'
    BY <1>6, CallTypeStep, CallerKinds, HubUnchanged DEF RefreshWrite
  <2>4. CASE refresh' = [refresh EXCEPT ![x].at = "notify"] /\ UNCHANGED locks
    <3>1. refresh' \in [Refresher -> RefreshRecord]
      BY <1>0, <2>4 DEF RefreshRecord
    <3>2. RefreshHasList'
      BY <1>0, <2>1, <2>4 DEF RefreshHasList, RefreshRecord
    <3> QED
      BY <1>6, <2>2, <2>3, <2>4, <3>1, <3>2, EventsUnchanged, ReloadUnchanged
      DEF RefreshWrite, EventsOk, ReloadOk, ListsType
  <2>5. ASSUME NEW result \in {"changed", "unchanged"}, RefreshReturns(x, result)
        PROVE  Types'
    BY <1>6, <2>2, <2>3, <2>5, RefreshReturnsType, EventsUnchanged, ReloadUnchanged
    DEF RefreshWrite, EventsOk, ReloadOk, ListsType
  <2> QED
    BY <1>6, <2>4, <2>5 DEF RefreshWrite
<1>7. CASE RefreshDone(x)
  <2>1. HubType'
    BY <1>7, CallTypeStep, CallerKinds DEF RefreshDone
  <2> QED
    BY <1>7, <2>1, RefreshReturnsType, EventsUnchanged, ReloadUnchanged
    DEF RefreshDone, EventsOk, ReloadOk, ListsType, listVars
<1>8. CASE RefreshAbandoned(x)
  <2>1. HubType'
    BY <1>8, CallTypeStep, CallerKinds DEF RefreshAbandoned
  <2> QED
    BY <1>8, <2>1, RefreshReturnsType, EventsUnchanged, ReloadUnchanged
    DEF RefreshAbandoned, EventsOk, ReloadOk, ListsType, listVars
<1> QED
  BY <1>1, <1>2, <1>3, <1>4, <1>5, <1>6, <1>7, <1>8 DEF RefreshStep

ListsOk == ListsType /\ ListsBuilt /\ RefreshHasList

LEMMA ListsUnchanged == ListsOk /\ UNCHANGED <<listVars, reload, refresh, locks>> => ListsOk'
  BY DEF ListsOk, ListsType, ListsBuilt, RefreshHasList, listVars

LEMMA ChannelType ==
  ASSUME Types, NEW f \in Feature
  PROVE  /\ Len(channel) < Capacity =>
              Append(channel, f) \in Seq(Feature) /\ Len(Append(channel, f)) <= Capacity
         /\ Len(channel) = Capacity =>
              /\ Append(Tail(channel), f) \in Seq(Feature)
              /\ Len(Append(Tail(channel), f)) <= Capacity
              /\ Head(channel) \in Feature
<1>1. channel \in Seq(Feature) /\ Len(channel) \in Nat /\ Len(channel) <= Capacity
  BY DEF Types, EventsType
<1>2. Capacity \in Nat \ {0}
  BY RuntimeAssumption
<1>3. /\ Append(channel, f) \in Seq(Feature)
      /\ Len(Append(channel, f)) = Len(channel) + 1
  BY <1>1
<1>4. ASSUME channel # << >>
      PROVE  /\ Tail(channel) \in Seq(Feature) /\ Head(channel) \in Feature
             /\ Len(Tail(channel)) = Len(channel) - 1
  BY <1>1, <1>4
<1>5. ASSUME channel # << >>
      PROVE  /\ Append(Tail(channel), f) \in Seq(Feature)
             /\ Len(Append(Tail(channel), f)) = Len(channel)
  <2>1. Tail(channel) \in Seq(Feature) /\ Len(Tail(channel)) = Len(channel) - 1
    BY <1>4, <1>5
  <2> QED
    BY <1>1, <2>1
<1>6. Len(channel) = Capacity => channel # << >>
  BY <1>1, <1>2
<1> QED
  BY <1>1, <1>2, <1>3, <1>4, <1>5, <1>6

LEMMA EventTypeStep ==
  ASSUME Types, EventStep
  PROVE  Types'
<1> USE DEF Types
<1>0. /\ worker \in WorkerRecord
      /\ flusher \in [Flusher -> FlushRecord]
      /\ channel \in Seq(Feature) /\ Len(channel) <= Capacity
      /\ pending \subseteq Feature
  BY DEF EventsType
<1>1. SUFFICES EventsOk' /\ HubType' /\ UNCHANGED <<listVars, reload, refresh, locks>>
  BY ListsUnchanged DEF ListsOk, EventsOk
<1>2. ASSUME NEW f \in Feature, RegistryChanges(f)
      PROVE  EventsOk' /\ HubType' /\ UNCHANGED <<listVars, reload, refresh, locks>>
  <2>1. events' \in 0..MaxEvents
    BY <1>2, RuntimeAssumption DEF RegistryChanges, EventsType
  <2>2. channel' \in Seq(Feature) /\ Len(channel') <= Capacity
    BY <1>2, ChannelType DEF RegistryChanges
  <2>3. evicted' \subseteq Feature /\ lagged' \in BOOLEAN
    BY <1>2, ChannelType DEF RegistryChanges, EventsType
  <2>4. owed' \subseteq Feature
    BY <1>2 DEF RegistryChanges, EventsType
  <2> QED
    BY <1>2, <2>1, <2>2, <2>3, <2>4, HubUnchanged
    DEF RegistryChanges, EventsOk, EventsType, WorkerHasFeature, FlusherHasFeature
<1>3. CASE WorkerReceives
  <2>1. CASE UNCHANGED <<channel, worker>> /\ lagged' = FALSE
    BY <1>3, <2>1, HubUnchanged
    DEF WorkerReceives, EventsOk, EventsType, WorkerHasFeature, FlusherHasFeature
  <2>2. CASE /\ channel # << >> /\ channel' = Tail(channel) /\ UNCHANGED lagged
             /\ worker' = [at |-> "check", feature |-> Head(channel)]
    <3>1. channel' \in Seq(Feature) /\ Len(channel') <= Capacity /\ Head(channel) \in Feature
      BY <1>0, <2>2, RuntimeAssumption
    <3>2. worker' \in WorkerRecord /\ WorkerHasFeature'
      BY <2>2, <3>1 DEF WorkerRecord, WorkerHasFeature
    <3> QED
      BY <1>3, <2>2, <3>1, <3>2, HubUnchanged
      DEF WorkerReceives, EventsOk, EventsType, FlusherHasFeature
  <2> QED
    BY <1>3, <2>1, <2>2 DEF WorkerReceives
<1>4. CASE WorkerChecks
  <2>1. worker' \in WorkerRecord /\ WorkerHasFeature'
    BY <1>0, <1>4 DEF WorkerChecks, WorkerIdle, WorkerRecord, WorkerHasFeature
  <2>2. owed' \subseteq Feature
    BY <1>4 DEF WorkerChecks, EventsType
  <2> QED
    BY <1>4, <2>1, <2>2, HubUnchanged
    DEF WorkerChecks, EventsOk, EventsType, FlusherHasFeature
<1>5. CASE WorkerInserts
  <2>1. worker.feature \in Feature
    BY <1>5 DEF WorkerInserts, WorkerHasFeature
  <2>2. worker' \in WorkerRecord /\ WorkerHasFeature'
    BY <1>5 DEF WorkerInserts, WorkerIdle, WorkerRecord, WorkerHasFeature
  <2>3. [at |-> "sleep", feature |-> worker.feature] \in FlushRecord
    BY <2>1 DEF FlushRecord
  <2>4. flusher' \in [Flusher -> FlushRecord] /\ FlusherHasFeature'
    <3>1. CASE UNCHANGED flusher
      BY <1>0, <3>1 DEF FlusherHasFeature
    <3>2. ASSUME NEW d \in Flusher,
                 flusher' = [flusher EXCEPT ![d] = [at |-> "sleep", feature |-> worker.feature]]
          PROVE  flusher' \in [Flusher -> FlushRecord] /\ FlusherHasFeature'
      BY <1>0, <2>1, <2>3, <3>2 DEF FlusherHasFeature
    <3> QED
      BY <1>5, <3>1, <3>2 DEF WorkerInserts
  <2>5. pending' \subseteq Feature
    BY <1>0, <1>5, <2>1 DEF WorkerInserts
  <2> QED
    BY <1>5, <2>2, <2>4, <2>5, HubUnchanged DEF WorkerInserts, EventsOk, EventsType
<1>6. ASSUME NEW d \in Flusher, FlushWakes(d)
      PROVE  EventsOk' /\ HubType' /\ UNCHANGED <<listVars, reload, refresh, locks>>
  <2>1. flusher' \in [Flusher -> FlushRecord] /\ FlusherHasFeature'
    BY <1>0, <1>6 DEF FlushWakes, FlushRecord, FlusherHasFeature
  <2>2. pending' \subseteq Feature
    BY <1>0, <1>6 DEF FlushWakes, FlushedPending
  <2> QED
    BY <1>6, <2>1, <2>2, HubUnchanged
    DEF FlushWakes, EventsOk, EventsType, WorkerHasFeature
<1>7. ASSUME NEW d \in Flusher, FlushChecks(d)
      PROVE  EventsOk' /\ HubType' /\ UNCHANGED <<listVars, reload, refresh, locks>>
  <2>1. flusher' \in [Flusher -> FlushRecord] /\ FlusherHasFeature'
    BY <1>0, <1>7 DEF FlushChecks, FlushRecord, FlusherHasFeature
  <2>2. owed' \subseteq Feature /\ evicted' \subseteq Feature
    BY <1>7 DEF FlushChecks, EventsType
  <2>3. HubType'
    BY <1>7, CallTypeStep, CallerKinds, HubUnchanged DEF FlushChecks
  <2> QED
    BY <1>7, <2>1, <2>2, <2>3
    DEF FlushChecks, EventsOk, EventsType, WorkerHasFeature
<1>8. ASSUME NEW d \in Flusher, FlushDone(d)
      PROVE  EventsOk' /\ HubType' /\ UNCHANGED <<listVars, reload, refresh, locks>>
  <2>1. flusher' \in [Flusher -> FlushRecord] /\ FlusherHasFeature'
    BY <1>0, <1>8 DEF FlushDone, FlushRecord, FlusherHasFeature
  <2>2. HubType'
    BY <1>8, CallTypeStep, CallerKinds DEF FlushDone
  <2> QED
    BY <1>8, <2>1, <2>2
    DEF FlushDone, EventsOk, EventsType, WorkerHasFeature
<1> QED
  BY <1>2, <1>3, <1>4, <1>5, <1>6, <1>7, <1>8 DEF EventStep, FlushStep

LEMMA TypesStep == Types /\ [Next]_vars => Types'
<1> SUFFICES ASSUME Types, [Next]_vars PROVE Types'
  OBVIOUS
<1>1. ASSUME UNCHANGED <<listVars, reload, refresh, locks, eventVars>>, HubType'
      PROVE  Types'
  BY <1>1, ListsUnchanged, EventsUnchanged DEF Types, ListsOk, EventsOk
<1>2. CASE HubStep
  BY <1>1, <1>2, HubTypeStep DEF HubStep, Types
<1>3. CASE Run
  BY <1>3, HubUnchanged, EventsUnchanged
  DEF Run, Types, EventsOk, ListsType, ListsBuilt, RefreshHasList
<1>4. ASSUME NEW f \in Feature, PluginDataChanges(f)
      PROVE  Types'
  <2>1. version' \in [Feature -> 0..MaxVersion]
    BY <1>4, RuntimeAssumption DEF PluginDataChanges, Types, ListsType
  <2> QED
    BY <1>4, <2>1, HubUnchanged, EventsUnchanged
    DEF PluginDataChanges, Types, EventsOk, ListsType, ListsBuilt, RefreshHasList
<1>5. CASE UNCHANGED vars
  BY <1>1, <1>5, HubUnchanged DEF vars, Types
<1> QED
  BY <1>2, <1>3, <1>4, <1>5, ReloadTypeStep, RefreshTypeStep, EventTypeStep DEF Next

(* The variables of the runtime and of the hub have their types, for every *)
(* configuration of the server, and a list is there whenever it is used.   *)
THEOREM TypeCorrect == Spec => []TypeOK
<1>1. Spec => []Types
  BY TypesInit, TypesStep, PTL DEF Spec
<1> QED
  BY <1>1, TypesImplyTypeOK, PTL

-----------------------------------------------------------------------------
(* The clients of the hub.  A call holds clients only while it sends, and  *)
(* a refresh or a flush task is in a call only where it waits for one.     *)

CallsHold ==
  /\ \A c \in Caller : call[c].at # "send" => Held(c) = {}
  /\ \A x \in Refresher : refresh[x].at # "notify" => call[x].at = "idle"
  /\ \A d \in Flusher : flusher[d].at # "notify" => call[d].at = "idle"

HubInv == CallsHold /\ ClientKept

LEMMA IdleHoldsNothing ==
  /\ IdleCall.at = "idle" /\ IdleCall.pending = {} /\ IdleCall.keep = {}
  /\ [IdleCall EXCEPT !.at = "take"].at = "take"
  /\ [IdleCall EXCEPT !.at = "take"].pending = {}
  /\ [IdleCall EXCEPT !.at = "take"].keep = {}
  /\ [IdleCall EXCEPT !.at = "done"].at = "done"
  /\ [IdleCall EXCEPT !.at = "done"].pending = {}
  /\ [IdleCall EXCEPT !.at = "done"].keep = {}
  BY DEF IdleCall

LEMMA HubInvInit == Init => HubInv
<1> SUFFICES ASSUME Init PROVE HubInv
  OBVIOUS
<1>1. \A c \in Caller : call[c].at = "idle" /\ Held(c) = {}
  BY IdleHoldsNothing DEF Init, HubInit, Held
<1> QED
  BY <1>1, CallerKinds DEF Init, HubInit, HubInv, CallsHold, ClientKept

(* What changes of a call: its clients go nowhere but to the vector, to    *)
(* the closed and to the lost.                                             *)
LEMMA KeptByOne ==
  ASSUME ClientKept, NEW c \in Caller,
         \A b \in Caller : b # c => Held(b)' = Held(b),
         Held(c) \subseteq Held(c)' \cup peers' \cup closed' \cup lost',
         peers \subseteq Held(c)' \cup peers' \cup closed' \cup lost',
         seen' \subseteq seen, closed \subseteq closed', lost \subseteq lost'
  PROVE  ClientKept'
<1> SUFFICES ASSUME NEW k \in seen', k \notin closed', k \notin lost', k \notin peers'
             PROVE  \E b \in Caller : k \in Held(b)'
  BY DEF ClientKept
<1>1. k \in peers \/ \E b \in Caller : k \in Held(b)
  BY DEF ClientKept
<1>2. CASE k \in peers
  BY <1>2
<1>3. ASSUME NEW b \in Caller, k \in Held(b)
      PROVE  \E a \in Caller : k \in Held(a)'
  BY <1>3
<1> QED
  BY <1>1, <1>2, <1>3

LEMMA HubInvCall ==
  ASSUME Types, HubInv, NEW c \in Caller,
         \/ BeginCall(c) /\ call[c].at = "idle"
         \/ EndCall(c) /\ Returned(c)
         \/ DropCall(c)
  PROVE  /\ ClientKept'
         /\ \A b \in Caller : call'[b].at # "send" => Held(b)' = {}
         /\ \A b \in Caller : b # c => call'[b] = call[b]
<1>1. call \in [Caller -> Call]
  BY DEF Types, HubType
<1>2. PICK new : new.at \in {"idle", "take"} /\ new.pending = {} /\ new.keep = {}
                   /\ call' = [call EXCEPT ![c] = new]
                   /\ (BeginCall(c) \/ new.at = "idle")
  <2>1. CASE BeginCall(c)
    <3>1. PICK new : new = [IdleCall EXCEPT !.at = "take"]
      OBVIOUS
    <3> QED
      BY <2>1, <3>1, IdleHoldsNothing DEF BeginCall
  <2>2. CASE EndCall(c) \/ DropCall(c)
    BY <2>2, IdleHoldsNothing DEF EndCall, DropCall
  <2> QED
    BY <2>1, <2>2
<1>3. \A b \in Caller : b # c => call'[b] = call[b] /\ Held(b)' = Held(b)
  BY <1>1, <1>2 DEF Held
<1>4. Held(c)' = {} /\ call'[c] = new
  BY <1>1, <1>2 DEF Held
<1>5. Held(c) \subseteq lost'
  BY DEF HubInv, CallsHold, Returned, DropCall
<1>6. peers' = peers /\ closed' = closed /\ seen' = seen /\ lost \subseteq lost'
  BY DEF BeginCall, EndCall, DropCall
<1>7. ClientKept'
  <2>1. Held(c) \subseteq Held(c)' \cup peers' \cup closed' \cup lost'
    BY <1>5
  <2>2. peers \subseteq Held(c)' \cup peers' \cup closed' \cup lost'
    BY <1>6
  <2> QED
    BY <1>3, <1>6, <2>1, <2>2, KeptByOne DEF HubInv
<1>8. \A b \in Caller : call'[b].at # "send" => Held(b)' = {}
  BY <1>3, <1>4 DEF HubInv, CallsHold
<1> QED
  BY <1>3, <1>7, <1>8

LEMMA HubInvHub ==
  ASSUME Types, HubInv, HubStep
  PROVE  HubInv'
<1>0. call \in [Caller -> Call] /\ UNCHANGED <<refresh, flusher>>
  BY DEF Types, HubType, HubStep, eventVars
<1>1. ASSUME NEW k \in Key, Observe(k)
      PROVE  HubInv'
  <2>1. UNCHANGED call /\ \A b \in Caller : Held(b)' = Held(b)
    BY <1>1 DEF Observe, Held
  <2>2. ClientKept'
    BY <1>1, <2>1 DEF Observe, HubInv, ClientKept
  <2> QED
    BY <1>0, <2>1, <2>2 DEF HubInv, CallsHold
<1>2. ASSUME NEW k \in Key, Close(k)
      PROVE  HubInv'
  <2>1. UNCHANGED call /\ \A b \in Caller : Held(b)' = Held(b)
    BY <1>2 DEF Close, Held
  <2>2. ClientKept'
    BY <1>2, <2>1 DEF Close, HubInv, ClientKept
  <2> QED
    BY <1>0, <2>1, <2>2 DEF HubInv, CallsHold
<1>3. ASSUME NEW c \in Caller, Take(c) \/ Merge(c) \/ \E k \in Key : Send(c, k)
      PROVE  HubInv'
  <2>1. \A b \in Caller : b # c => call'[b] = call[b] /\ Held(b)' = Held(b)
    BY <1>0, <1>3 DEF Take, Merge, Send, Held
  <2>2. call[c].at \in {"take", "send"}
    BY <1>3 DEF Take, Merge, Send
  <2>3. /\ call'[c].at # "send" => Held(c)' = {}
        /\ Held(c) \subseteq Held(c)' \cup peers' \cup closed' \cup lost'
        /\ peers \subseteq Held(c)' \cup peers' \cup closed' \cup lost'
        /\ seen' \subseteq seen /\ closed \subseteq closed' /\ lost \subseteq lost'
    <3>1. CASE Take(c)
      <4>1. Held(c) = {}
        BY <3>1 DEF Take, HubInv, CallsHold
      <4>2. CASE peers \ closed = {} /\ call' = [call EXCEPT ![c].at = "done"]
        BY <1>0, <3>1, <4>1, <4>2 DEF Take, Held, Call
      <4>3. CASE call' = [call EXCEPT ![c].at = "send", ![c].pending = peers \ closed]
        BY <1>0, <3>1, <4>1, <4>3 DEF Take, Held, Call
      <4> QED
        BY <3>1, <4>2, <4>3 DEF Take
    <3>2. CASE Merge(c)
      <4>1. PICK new : new = [IdleCall EXCEPT !.at = "done"]
        OBVIOUS
      <4>2. call'[c] = new
        BY <1>0, <3>2, <4>1 DEF Merge
      <4>3. Held(c)' = {}
        BY <4>1, <4>2, IdleHoldsNothing DEF Held
      <4> QED
        BY <3>2, <4>3 DEF Merge, Merged, Held
    <3>3. ASSUME NEW k \in Key, Send(c, k)
          PROVE  /\ call'[c].at # "send" => Held(c)' = {}
                 /\ Held(c) \subseteq Held(c)' \cup peers' \cup closed' \cup lost'
                 /\ peers \subseteq Held(c)' \cup peers' \cup closed' \cup lost'
                 /\ seen' \subseteq seen /\ closed \subseteq closed' /\ lost \subseteq lost'
      <4>1. UNCHANGED <<peers, closed, seen>>
        BY <3>3 DEF Send
      <4>2. CASE /\ call' = [call EXCEPT ![c].pending = @ \ {k}, ![c].keep = @ \cup {k}]
                 /\ UNCHANGED lost
        <5>1. /\ call'[c].at = call[c].at
              /\ call'[c].pending = call[c].pending \ {k}
              /\ call'[c].keep = call[c].keep \cup {k}
          BY <1>0, <4>2 DEF Call
        <5>2. call[c].at = "send"
          BY <3>3 DEF Send
        <5> QED
          BY <4>1, <4>2, <5>1, <5>2 DEF Held
      <4>3. CASE /\ call' = [call EXCEPT ![c].pending = @ \ {k}]
                 /\ lost' = lost \cup {k}
        <5>1. /\ call'[c].at = call[c].at
              /\ call'[c].pending = call[c].pending \ {k}
              /\ call'[c].keep = call[c].keep
          BY <1>0, <4>3 DEF Call
        <5>2. call[c].at = "send"
          BY <3>3 DEF Send
        <5> QED
          BY <4>1, <4>3, <5>1, <5>2 DEF Held
      <4> QED
        BY <3>3, <4>2, <4>3 DEF Send
    <3> QED
      BY <1>3, <3>1, <3>2, <3>3
  <2>4. ClientKept'
    BY <2>1, <2>3, KeptByOne DEF HubInv
  <2>5. CallsHold'
    <3>1. \A b \in Caller : call'[b].at # "send" => Held(b)' = {}
      BY <2>1, <2>3 DEF HubInv, CallsHold
    <3>2. \A x \in Refresher : refresh'[x].at # "notify" => call'[x].at = "idle"
      BY <1>0, <2>1, <2>2, CallerKinds DEF HubInv, CallsHold
    <3>3. \A d \in Flusher : flusher'[d].at # "notify" => call'[d].at = "idle"
      BY <1>0, <2>1, <2>2, CallerKinds DEF HubInv, CallsHold
    <3> QED
      BY <3>1, <3>2, <3>3 DEF CallsHold
  <2> QED
    BY <2>4, <2>5 DEF HubInv
<1> QED
  BY <1>1, <1>2, <1>3 DEF HubStep, Hub

LEMMA HubInvUnchanged ==
  ASSUME HubInv, UNCHANGED hubVars,
         \A x \in Refresher : refresh'[x].at = "notify" \/ refresh'[x].at = refresh[x].at
                               \/ call[x].at = "idle",
         \A d \in Flusher : flusher'[d].at = "notify" \/ flusher'[d].at = flusher[d].at
                             \/ call[d].at = "idle"
  PROVE  HubInv'
<1>1. \A c \in Caller : Held(c)' = Held(c) /\ call'[c] = call[c]
  BY DEF hubVars, Held
<1>2. ClientKept'
  BY <1>1 DEF HubInv, ClientKept, hubVars
<1> QED
  BY <1>1, <1>2 DEF HubInv, CallsHold, hubVars

LEMMA HubInvStep ==
  ASSUME Types, HubInv, [Next]_vars
  PROVE  HubInv'
<1>0. /\ refresh \in [Refresher -> RefreshRecord]
      /\ flusher \in [Flusher -> FlushRecord]
  BY DEF Types, ListsType, EventsType
<1>1. CASE HubStep
  BY <1>1, HubInvHub
<1>2. CASE UNCHANGED <<hubVars, refresh, flusher>>
  BY <1>2, HubInvUnchanged
<1>3. ASSUME NEW r \in Reload, ReloadStep(r)
      PROVE  HubInv'
  <2>1. CASE ReloadNotify(r)
    <3>1. UNCHANGED <<refresh, flusher>>
      BY <2>1 DEF ReloadNotify, eventVars
    <3>2. /\ ClientKept'
          /\ \A b \in Caller : call'[b].at # "send" => Held(b)' = {}
          /\ \A b \in Caller : b # r => call'[b] = call[b]
      BY <2>1, HubInvCall, CallerKinds DEF ReloadNotify
    <3> QED
      BY <3>1, <3>2, CallerKinds DEF HubInv, CallsHold
  <2>2. CASE ReloadDropped(r)
    <3>1. UNCHANGED <<refresh, flusher>>
      BY <2>2 DEF ReloadDropped, eventVars
    <3>2. /\ ClientKept'
          /\ \A b \in Caller : call'[b].at # "send" => Held(b)' = {}
          /\ \A b \in Caller : b # r => call'[b] = call[b]
      BY <2>2, HubInvCall, CallerKinds DEF ReloadDropped
    <3> QED
      BY <3>1, <3>2, CallerKinds DEF HubInv, CallsHold
  <2>3. CASE ~ReloadNotify(r) /\ ~ReloadDropped(r)
    BY <1>2, <1>3, <2>3
    DEF ReloadStep, ReloadBuild, ReloadFetch, ReloadDiff, ReloadSwapEngine, ReloadSwapCache,
        ReloadDone, eventVars
  <2> QED
    BY <2>1, <2>2, <2>3
<1>4. ASSUME NEW x \in Refresher, RefreshStep(x)
      PROVE  HubInv'
  <2>0. UNCHANGED flusher
    BY <1>4
    DEF RefreshStep, RefreshStart, RefreshLock, RefreshOld, RefreshFetch, RefreshCheck,
        RefreshWrite, RefreshDone, RefreshAbandoned, eventVars
  <2>1. \A y \in Refresher : y # x => refresh'[y] = refresh[y]
    BY <1>0, <1>4
    DEF RefreshStep, RefreshStart, RefreshLock, RefreshOld, RefreshFetch, RefreshCheck,
        RefreshWrite, RefreshDone, RefreshAbandoned, RefreshReturns
  <2>2. CASE refresh[x].at # "notify" /\ UNCHANGED hubVars
    <3>1. call[x].at = "idle"
      BY <2>2 DEF HubInv, CallsHold
    <3> QED
      BY <2>0, <2>1, <2>2, <3>1, HubInvUnchanged
  <2>3. ASSUME \/ BeginCall(x) /\ call[x].at = "idle" /\ refresh'[x].at = "notify"
               \/ EndCall(x) /\ Returned(x)
               \/ DropCall(x)
        PROVE  HubInv'
    <3>1. /\ ClientKept'
          /\ \A b \in Caller : call'[b].at # "send" => Held(b)' = {}
          /\ \A b \in Caller : b # x => call'[b] = call[b]
      BY <2>3, HubInvCall, CallerKinds
    <3>2. refresh'[x].at # "notify" => call'[x].at = "idle"
      <4>1. call \in [Caller -> Call] /\ x \in Caller
        BY CallerKinds DEF Types, HubType
      <4> QED
        BY <2>3, <4>1, IdleHoldsNothing DEF EndCall, DropCall
    <3> QED
      BY <2>0, <2>1, <3>1, <3>2, CallerKinds DEF HubInv, CallsHold
  <2>4. CASE RefreshWrite(x)
    <3>1. call[x].at = "idle"
      BY <2>4 DEF RefreshWrite, HubInv, CallsHold
    <3>2. \/ UNCHANGED hubVars
          \/ BeginCall(x) /\ refresh'[x].at = "notify"
      BY <1>0, <2>4 DEF RefreshWrite, RefreshRecord
    <3>3. refresh[x].at # "notify"
      BY <2>4 DEF RefreshWrite
    <3> QED
      BY <2>2, <2>3, <3>1, <3>2, <3>3
  <2>5. CASE RefreshDone(x) \/ RefreshAbandoned(x)
    BY <2>3, <2>5 DEF RefreshDone, RefreshAbandoned
  <2>6. CASE ~RefreshWrite(x) /\ ~RefreshDone(x) /\ ~RefreshAbandoned(x)
    BY <1>4, <2>2, <2>6
    DEF RefreshStep, RefreshStart, RefreshLock, RefreshOld, RefreshFetch, RefreshCheck
  <2> QED
    BY <2>4, <2>5, <2>6
<1>5. ASSUME EventStep
      PROVE  HubInv'
  <2>1. UNCHANGED refresh
    BY <1>5
    DEF EventStep, FlushStep, RegistryChanges, WorkerReceives, WorkerChecks, WorkerInserts,
        FlushWakes, FlushChecks, FlushDone
  <2>2. CASE WorkerInserts
    <3>1. \A d \in Flusher : flusher'[d] = flusher[d] \/ flusher[d].at = "idle"
      BY <1>0, <2>2 DEF WorkerInserts
    <3> QED
      BY <2>1, <2>2, <3>1, HubInvUnchanged DEF WorkerInserts, HubInv, CallsHold
  <2>3. ASSUME NEW d \in Flusher, FlushWakes(d)
        PROVE  HubInv'
    <3>1. \A b \in Flusher : flusher'[b] = flusher[b] \/ flusher[b].at = "sleep"
      BY <1>0, <2>3 DEF FlushWakes
    <3> QED
      BY <2>1, <2>3, <3>1, HubInvUnchanged DEF FlushWakes, HubInv, CallsHold
  <2>4. ASSUME NEW d \in Flusher, FlushChecks(d)
        PROVE  HubInv'
    <3>1. /\ \A b \in Flusher : b # d => flusher'[b] = flusher[b]
          /\ call[d].at = "idle"
      BY <1>0, <2>4 DEF FlushChecks, HubInv, CallsHold
    <3>2. CASE UNCHANGED hubVars
      BY <2>1, <3>1, <3>2, HubInvUnchanged
    <3>3. CASE BeginCall(d) /\ flusher' = [flusher EXCEPT ![d].at = "notify"]
      <4>1. /\ ClientKept'
            /\ \A b \in Caller : call'[b].at # "send" => Held(b)' = {}
            /\ \A b \in Caller : b # d => call'[b] = call[b]
        BY <3>1, <3>3, HubInvCall, CallerKinds
      <4>2. flusher'[d].at = "notify"
        BY <1>0, <3>3 DEF FlushRecord
      <4> QED
        BY <2>1, <3>1, <4>1, <4>2, CallerKinds DEF HubInv, CallsHold
    <3> QED
      BY <2>4, <3>2, <3>3 DEF FlushChecks
  <2>5. ASSUME NEW d \in Flusher, FlushDone(d)
        PROVE  HubInv'
    <3>1. \A b \in Flusher : b # d => flusher'[b] = flusher[b]
      BY <1>0, <2>5 DEF FlushDone
    <3>2. /\ ClientKept'
          /\ \A b \in Caller : call'[b].at # "send" => Held(b)' = {}
          /\ \A b \in Caller : b # d => call'[b] = call[b]
      BY <2>5, HubInvCall, CallerKinds DEF FlushDone
    <3>3. call'[d].at = "idle"
      <4>1. call \in [Caller -> Call] /\ d \in Caller
        BY CallerKinds DEF Types, HubType
      <4> QED
        BY <2>5, <4>1, IdleHoldsNothing DEF FlushDone, EndCall
    <3> QED
      BY <2>1, <3>1, <3>2, <3>3, CallerKinds DEF HubInv, CallsHold
  <2>6. CASE (\E f \in Feature : RegistryChanges(f)) \/ WorkerReceives \/ WorkerChecks
    BY <1>2, <2>6 DEF RegistryChanges, WorkerReceives, WorkerChecks
  <2> QED
    BY <1>5, <2>2, <2>3, <2>4, <2>5, <2>6 DEF EventStep, FlushStep
<1>6. CASE Run \/ \E f \in Feature : PluginDataChanges(f)
  BY <1>2, <1>6 DEF Run, PluginDataChanges, eventVars
<1>7. CASE UNCHANGED vars
  BY <1>2, <1>7 DEF vars, eventVars
<1> QED
  BY <1>1, <1>3, <1>4, <1>5, <1>6, <1>7 DEF Next

(* However many calls of notify() empty and refill the vector while new    *)
(* requests add to it, no client with an open transport is forgotten, but  *)
(* by a send that failed or a call that was dropped                        *)
(* (RuntimeListsProperties!ClientKept).                                    *)
THEOREM ClientsKept == Spec => []ClientKept
<1> DEFINE Inv == Types /\ HubInv
<1>1. Init => Inv
  BY TypesInit, HubInvInit
<1>2. Inv /\ [Next]_vars => Inv'
  BY TypesStep, HubInvStep
<1>3. Inv => ClientKept
  BY DEF HubInv
<1> QED
  BY <1>1, <1>2, <1>3, PTL DEF Spec

-----------------------------------------------------------------------------
(* The registry events.  A feature is pending while one flush task sleeps  *)
(* for it, and no other does.                                              *)

Sleeps(d, f) == flusher[d].at = "sleep" /\ flusher[d].feature = f

PendingSleeps ==
  /\ \A f \in pending : \E d \in Flusher : Sleeps(d, f)
  /\ \A d \in Flusher : flusher[d].at = "sleep" => flusher[d].feature \in pending
  /\ \A d, b \in Flusher :
       flusher[d].at = "sleep" /\ flusher[b].at = "sleep" /\ d # b =>
         flusher[d].feature # flusher[b].feature

EventInv == PendingSleeps /\ EventOnItsWay

LEMMA EventInvInit == Init => EventInv
  BY DEF Init, EventInv, PendingSleeps, EventOnItsWay

LEMMA EventInvUnchanged == EventInv /\ UNCHANGED eventVars => EventInv'
  BY DEF EventInv, PendingSleeps, Sleeps, EventOnItsWay, OnItsWay, eventVars

LEMMA PendingUnchanged == PendingSleeps /\ UNCHANGED <<pending, flusher>> => PendingSleeps'
  BY DEF PendingSleeps, Sleeps

LEMMA EventInvStep ==
  ASSUME Types, EventInv, [Next]_vars
  PROVE  EventInv'
<1>0. /\ flusher \in [Flusher -> FlushRecord]
      /\ channel \in Seq(Feature) /\ Len(channel) \in Nat /\ Len(channel) <= Capacity
      /\ Capacity \in Nat \ {0}
      /\ worker \in WorkerRecord
  BY RuntimeAssumption DEF Types, EventsType
<1>1. ASSUME NEW f \in Feature, RegistryChanges(f)
      PROVE  EventInv'
  <2>1. PendingSleeps'
    BY <1>1, PendingUnchanged DEF RegistryChanges, EventInv
  <2>2. UNCHANGED <<worker, flusher>> /\ owed' = owed \cup {f}
    BY <1>1 DEF RegistryChanges
  <2>3. CASE channel' = Append(channel, f) /\ evicted' = evicted
    <3>1. /\ Len(channel') = Len(channel) + 1 /\ channel'[Len(channel) + 1] = f
          /\ \A i \in 1..Len(channel) : channel'[i] = channel[i]
      BY <1>0, <2>3
    <3>2. /\ Len(channel) + 1 \in 1..Len(channel')
          /\ \A i \in 1..Len(channel) : i \in 1..Len(channel')
      BY <1>0, <3>1
    <3> QED
      BY <2>1, <2>2, <2>3, <3>1, <3>2 DEF EventInv, EventOnItsWay, OnItsWay
  <2>4. CASE /\ Len(channel) = Capacity /\ channel' = Append(Tail(channel), f)
             /\ evicted' = evicted \cup {Head(channel)}
    <3>1. channel # << >>
      BY <1>0, <2>4
    <3>2. /\ Tail(channel) \in Seq(Feature) /\ Len(Tail(channel)) = Len(channel) - 1
          /\ Head(channel) = channel[1]
          /\ \A i \in 2..Len(channel) : Tail(channel)[i - 1] = channel[i]
      BY <1>0, <3>1
    <3>3. PICK t \in Seq(Feature) : t = Tail(channel)
      BY <3>2
    <3>4. /\ Len(channel') = Len(t) + 1 /\ channel'[Len(t) + 1] = f
          /\ \A i \in 1..Len(t) : channel'[i] = t[i]
      BY <2>4, <3>3
    <3>5. /\ channel'[Len(channel)] = f /\ Len(channel') = Len(channel)
          /\ \A i \in 2..Len(channel) : channel'[i - 1] = channel[i]
      BY <1>0, <3>2, <3>3, <3>4
    <3>6. /\ Len(channel) \in 1..Len(channel')
          /\ \A i \in 2..Len(channel) : i - 1 \in 1..Len(channel')
          /\ \A i \in 1..Len(channel) : i = 1 \/ i \in 2..Len(channel)
      BY <1>0, <2>4, <3>5
    <3>7. ASSUME NEW g \in owed \ evicted, g # Head(channel), NEW i \in 1..Len(channel),
                 channel[i] = g
          PROVE  \E j \in 1..Len(channel') : channel'[j] = g
      BY <3>2, <3>5, <3>6, <3>7
    <3>8. \E j \in 1..Len(channel') : channel'[j] = f
      BY <3>5, <3>6
    <3> QED
      BY <2>1, <2>2, <2>4, <3>7, <3>8 DEF EventInv, EventOnItsWay, OnItsWay
  <2> QED
    BY <1>1, <2>3, <2>4 DEF RegistryChanges
<1>2. CASE WorkerReceives
  <2>1. PendingSleeps'
    BY <1>2, PendingUnchanged DEF WorkerReceives, EventInv
  <2>2. CASE UNCHANGED <<channel, worker>>
    BY <1>2, <2>1, <2>2 DEF WorkerReceives, EventInv, EventOnItsWay, OnItsWay
  <2>3. CASE /\ channel # << >> /\ channel' = Tail(channel)
             /\ worker' = [at |-> "check", feature |-> Head(channel)]
    <3>1. /\ Len(channel') = Len(channel) - 1
          /\ Head(channel) = channel[1]
          /\ \A i \in 2..Len(channel) : channel'[i - 1] = channel[i]
      BY <1>0, <2>3
    <3>2. /\ \A i \in 2..Len(channel) : i - 1 \in 1..Len(channel')
          /\ \A i \in 1..Len(channel) : i = 1 \/ i \in 2..Len(channel)
      BY <1>0, <3>1
    <3>3. ASSUME NEW g \in Feature, NEW i \in 1..Len(channel), channel[i] = g
          PROVE  \/ g = Head(channel)
                 \/ \E j \in 1..Len(channel') : channel'[j] = g
      BY <3>1, <3>2, <3>3
    <3>4. worker'.at # "recv" /\ worker'.feature = Head(channel) /\ worker.at = "recv"
      BY <1>2, <2>3 DEF WorkerReceives
    <3>5. owed \subseteq Feature /\ UNCHANGED <<flusher, owed, evicted>>
      BY <1>2 DEF WorkerReceives, Types, EventsType
    <3> QED
      BY <2>1, <3>3, <3>4, <3>5 DEF EventInv, EventOnItsWay, OnItsWay
  <2> QED
    BY <1>2, <2>2, <2>3 DEF WorkerReceives
<1>3. CASE WorkerChecks
  <2>1. PendingSleeps'
    BY <1>3, PendingUnchanged DEF WorkerChecks, EventInv
  <2>2. CASE worker' = [worker EXCEPT !.at = "insert"] /\ UNCHANGED owed
    <3>1. worker'.at = "insert" /\ worker'.feature = worker.feature
      BY <1>0, <2>2 DEF WorkerRecord
    <3> QED
      BY <1>3, <2>1, <2>2, <3>1 DEF WorkerChecks, EventInv, EventOnItsWay, OnItsWay
  <2>3. CASE owed' = owed \ {worker.feature}
    BY <1>3, <2>1, <2>3 DEF WorkerChecks, EventInv, EventOnItsWay, OnItsWay
  <2> QED
    BY <1>3, <2>2, <2>3 DEF WorkerChecks
<1>4. CASE WorkerInserts
  <2> DEFINE f == worker.feature
  <2>1. CASE f \in pending
    <3>1. UNCHANGED <<pending, flusher>>
      BY <1>4, <2>1 DEF WorkerInserts, IsPending
    <3>2. PendingSleeps'
      BY <3>1, PendingUnchanged DEF EventInv
    <3>3. \E d \in Flusher : Sleeps(d, f)
      BY <2>1 DEF EventInv, PendingSleeps
    <3> QED
      BY <1>4, <3>1, <3>2, <3>3
      DEF WorkerInserts, EventInv, EventOnItsWay, OnItsWay, Sleeps
  <2>2. CASE f \notin pending
    <3>1. PICK d \in Flusher :
            /\ flusher[d].at = "idle"
            /\ flusher' = [flusher EXCEPT ![d] = [at |-> "sleep", feature |-> f]]
      BY <1>4, <2>2 DEF WorkerInserts, IsPending
    <3>2. /\ flusher'[d].at = "sleep" /\ flusher'[d].feature = f
          /\ \A b \in Flusher : b # d => flusher'[b] = flusher[b]
          /\ pending' = pending \cup {f}
      BY <1>0, <1>4, <3>1 DEF WorkerInserts
    <3>3. PendingSleeps'
      BY <2>2, <3>1, <3>2 DEF EventInv, PendingSleeps, Sleeps
    <3>4. UNCHANGED <<channel, owed, evicted>>
      BY <1>4 DEF WorkerInserts
    <3>5. EventOnItsWay'
      BY <3>1, <3>2, <3>4 DEF EventInv, EventOnItsWay, OnItsWay
    <3> QED
      BY <3>3, <3>5 DEF EventInv
  <2> QED
    BY <2>1, <2>2
<1>5. ASSUME NEW d \in Flusher, FlushWakes(d)
      PROVE  EventInv'
  <2>1. /\ flusher[d].at = "sleep" /\ flusher[d].feature \in pending
        /\ flusher'[d].at = "engine" /\ flusher'[d].feature = flusher[d].feature
        /\ \A b \in Flusher : b # d => flusher'[b] = flusher[b]
        /\ pending' = pending \ {flusher[d].feature}
    BY <1>0, <1>5 DEF FlushWakes, FlushedPending, IsPending, EventInv, PendingSleeps, FlushRecord
  <2>2. PendingSleeps'
    BY <2>1 DEF EventInv, PendingSleeps, Sleeps
  <2>3. UNCHANGED <<channel, worker, owed, evicted>>
    BY <1>5 DEF FlushWakes
  <2> QED
    BY <2>1, <2>2, <2>3 DEF EventInv, EventOnItsWay, OnItsWay
<1>6. ASSUME NEW d \in Flusher, FlushChecks(d)
      PROVE  EventInv'
  <2>1. /\ flusher[d].at = "engine" /\ flusher'[d].at \in {"notify", "done"}
        /\ \A b \in Flusher : b # d => flusher'[b] = flusher[b]
        /\ UNCHANGED <<pending, channel, worker>>
        /\ owed' = owed \ {flusher[d].feature} /\ evicted' = evicted \ {flusher[d].feature}
    BY <1>0, <1>6 DEF FlushChecks, FlushRecord
  <2>2. PendingSleeps'
    BY <2>1 DEF EventInv, PendingSleeps, Sleeps
  <2> QED
    BY <2>1, <2>2 DEF EventInv, EventOnItsWay, OnItsWay
<1>7. ASSUME NEW d \in Flusher, FlushDone(d)
      PROVE  EventInv'
  <2>1. /\ flusher[d].at = "notify" /\ flusher'[d].at = "done"
        /\ \A b \in Flusher : b # d => flusher'[b] = flusher[b]
        /\ UNCHANGED <<pending, channel, worker, owed, evicted>>
    BY <1>0, <1>7 DEF FlushDone, FlushRecord
  <2>2. PendingSleeps'
    BY <2>1 DEF EventInv, PendingSleeps, Sleeps
  <2> QED
    BY <2>1, <2>2 DEF EventInv, EventOnItsWay, OnItsWay
<1>8. ASSUME NEW r \in Reload, ReloadStep(r)
      PROVE  EventInv'
  BY <1>8, EventInvUnchanged
  DEF ReloadStep, ReloadBuild, ReloadFetch, ReloadDiff, ReloadSwapEngine, ReloadSwapCache,
      ReloadNotify, ReloadDone, ReloadDropped
<1>9. ASSUME NEW x \in Refresher, RefreshStep(x)
      PROVE  EventInv'
  BY <1>9, EventInvUnchanged
  DEF RefreshStep, RefreshStart, RefreshLock, RefreshOld, RefreshFetch, RefreshCheck,
      RefreshWrite, RefreshDone, RefreshAbandoned
<1>10. CASE \/ Run \/ HubStep \/ UNCHANGED vars
            \/ \E f \in Feature : PluginDataChanges(f)
  BY <1>10, EventInvUnchanged DEF Run, HubStep, vars, PluginDataChanges
<1> QED
  BY <1>1, <1>2, <1>3, <1>4, <1>5, <1>6, <1>7, <1>8, <1>9, <1>10
  DEF Next, EventStep, FlushStep

(* A registry event that has not been announced is in the channel, with    *)
(* the worker or with a flush task that will announce its feature, however *)
(* events, debouncing and full channels interleave                         *)
(* (RuntimeListsProperties!EventOnItsWay).                                 *)
THEOREM EventsOnTheirWay == Spec => []EventOnItsWay
<1> DEFINE Inv == Types /\ EventInv
<1>1. Init => Inv
  BY TypesInit, EventInvInit
<1>2. Inv /\ [Next]_vars => Inv'
  BY TypesStep, EventInvStep
<1>3. Inv => EventOnItsWay
  BY DEF EventInv
<1> QED
  BY <1>1, <1>2, <1>3, PTL DEF Spec

-----------------------------------------------------------------------------
(* The list cache.  A refresh whose engine is the current one has fetched  *)
(* its list after every reload that still has a cache to swap in, and no   *)
(* other refresh of its feature is under way.                              *)

Swapped == {"cache", "notify", "done", "dropped"}

UnderWay(x) == refresh[x].at \in {"old", "fetch", "check", "write", "notify"}

HasBuilt(r, f) ==
  \/ reload[r].at = "fetch" /\ f \notin reload[r].todo
  \/ reload[r].at \in {"diff", "engine", "cache"}

DataKnown ==
  /\ \A f \in Feature : cache[f].plugin <= version[f] /\ (f = "tools" => version[f] = 0)
  /\ \A r \in Reload, f \in Feature : HasBuilt(r, f) => reload[r].lists[f].plugin <= version[f]
  /\ \A x \in Refresher :
       refresh[x].at \in {"check", "write"} =>
         refresh[x].list.plugin <= version[refresh[x].feature]

EngineSwapped ==
  /\ engine # Boot => reload[engine].at \in Swapped
  /\ \A x \in Refresher :
       UnderWay(x) /\ refresh[x].engine # Boot => reload[refresh[x].engine].at \in Swapped

LocksHeld ==
  /\ \A x \in Refresher : UnderWay(x) => refresh[x].feature \in locks
  /\ \A x, y \in Refresher :
       x # y /\ UnderWay(x) /\ UnderWay(y) => refresh[x].feature # refresh[y].feature

NewerThan(x) ==
  /\ refresh[x].list.plugin >= cache[refresh[x].feature].plugin
  /\ \A r \in Reload : reload[r].at = "cache" =>
       refresh[x].list.plugin >= reload[r].lists[refresh[x].feature].plugin

FetchedLast ==
  \A x \in Refresher :
    refresh[x].at \in {"check", "write"} /\ refresh[x].engine = engine => NewerThan(x)

CacheInv == DataKnown /\ EngineSwapped /\ LocksHeld /\ FetchedLast

LEMMA PluginOf ==
  ASSUME DataKnown, NEW c \in Config, NEW f \in Feature
  PROVE  ListOf(c, f).plugin = version[f]
  BY DEF DataKnown, ListOf

LEMMA CacheInvInit ==
  ASSUME Init
  PROVE  CacheInv
<1>1. /\ engine = Boot
      /\ \A f \in Feature : cache[f].plugin = 0 /\ version[f] = 0
      /\ \A r \in Reload : reload[r].at = "idle"
      /\ \A x \in Refresher : refresh[x].at = "idle"
  BY DEF Init, Idle, NoRefresh
<1> QED
  BY <1>1 DEF CacheInv, DataKnown, EngineSwapped, LocksHeld, FetchedLast, UnderWay, HasBuilt

LEMMA CacheInvUnchanged ==
  ASSUME CacheInv, UNCHANGED <<engine, cache, version, reload, refresh, locks>>
  PROVE  CacheInv'
  BY DEF CacheInv, DataKnown, EngineSwapped, LocksHeld, FetchedLast, NewerThan, UnderWay,
         HasBuilt, Swapped

LEMMA CacheNumbers ==
  ASSUME Types
  PROVE  /\ \A f \in Feature : cache[f] \in List /\ cache[f].plugin \in Nat
         /\ \A f \in Feature : version[f] \in Nat
         /\ \A r \in Reload, f \in Feature :
              HasBuilt(r, f) => reload[r].lists[f] \in List /\ reload[r].lists[f].plugin \in Nat
         /\ \A x \in Refresher :
              /\ refresh[x].at \notin {"idle", "done"} => refresh[x].feature \in Feature
              /\ refresh[x].at \in {"check", "write"} => refresh[x].list.plugin \in Nat
<1>1. \A l \in List : l.plugin \in Nat
  BY DEF List
<1>2. \A f \in Feature : version[f] \in Nat
  <2>1. version \in [Feature -> 0..MaxVersion] /\ MaxVersion \in Nat
    BY RuntimeAssumption DEF Types, ListsType
  <2> QED
    BY <2>1
<1>3. \A f \in Feature : cache[f] \in List
  BY DEF Types, ListsType
<1>4. \A r \in Reload, f \in Feature : HasBuilt(r, f) => reload[r].lists[f] \in List
  BY DEF Types, ListsBuilt, HasBuilt
<1>5. \A x \in Refresher :
        /\ refresh[x].at \notin {"idle", "done"} => refresh[x].feature \in Feature
        /\ refresh[x].at \in {"check", "write"} => refresh[x].list \in List
  BY DEF Types, RefreshHasList
<1> QED
  BY <1>1, <1>2, <1>3, <1>4, <1>5

LEMMA EnginesOfRefreshes ==
  ASSUME Types
  PROVE  \A x \in Refresher : refresh[x].engine \in Engine
  BY DEF Types, ListsType, RefreshRecord

LEMMA CacheInvReload ==
  ASSUME Types, CacheInv, NEW r \in Reload, ReloadStep(r)
  PROVE  CacheInv'
<1>0. /\ reload \in [Reload -> ReloadRecord] /\ r \in Engine /\ r # Boot
      /\ UNCHANGED <<refresh, locks, version>>
  BY EngineKinds, RuntimeAssumption
  DEF Types, ListsType, ReloadStep, ReloadBuild, ReloadFetch, ReloadDiff, ReloadSwapEngine,
      ReloadSwapCache, ReloadNotify, ReloadDone, ReloadDropped, listVars
<1>1. LocksHeld'
  BY <1>0 DEF CacheInv, LocksHeld, UnderWay
<1>11. /\ engine # Boot => engine \in Reload
       /\ \A x \in Refresher : refresh[x].engine # Boot => refresh[x].engine \in Reload
  BY EngineKinds, EnginesOfRefreshes DEF Types, ListsType
<1>2. \A q \in Reload : q # r => reload'[q] = reload[q]
  BY <1>0
  DEF ReloadStep, ReloadBuild, ReloadFetch, ReloadDiff, ReloadSwapEngine,
      ReloadSwapCache, ReloadNotify, ReloadDone, ReloadDropped
<1>3. ASSUME UNCHANGED <<engine, cache>>, reload'[r].at # "cache",
             reload[r].at \in Swapped => reload'[r].at \in Swapped,
             \A f \in Feature : HasBuilt(r, f)' => reload'[r].lists[f].plugin <= version[f]
      PROVE  CacheInv'
  <2>1. DataKnown'
    BY <1>0, <1>2, <1>3 DEF CacheInv, DataKnown, HasBuilt
  <2>2. EngineSwapped'
    BY <1>0, <1>2, <1>3, <1>11 DEF CacheInv, EngineSwapped, UnderWay
  <2>3. FetchedLast'
    BY <1>0, <1>2, <1>3 DEF CacheInv, FetchedLast, NewerThan
  <2> QED
    BY <1>1, <2>1, <2>2, <2>3 DEF CacheInv
<1>4. ASSUME NEW c \in Config, ReloadBuild(r, c)
      PROVE  CacheInv'
  <2>1. reload'[r].at = "fetch" /\ reload'[r].todo = Feature /\ reload[r].at = "idle"
    BY <1>0, <1>4 DEF ReloadBuild, ReloadRecord
  <2> QED
    BY <1>3, <1>4, <2>1 DEF ReloadBuild, listVars, HasBuilt, Swapped
<1>5. CASE ReloadFetch(r)
  <2> DEFINE f == First(reload[r].todo)
  <2>1. reload[r].at = "fetch" /\ reload[r].config \in Config
    BY <1>0, <1>5 DEF ReloadFetch, ReloadRecord
  <2>2. PICK l : l = ListOf(reload[r].config, f)
    OBVIOUS
  <2>3. f \in Feature => l.plugin = version[f]
    BY <2>1, <2>2, PluginOf DEF CacheInv
  <2>4. \/ reload'[r].at = "failed"
        \/ /\ reload'[r].at \in {"diff", "fetch"}
           /\ reload'[r].at = "diff" => reload[r].todo = {f}
           /\ reload'[r].todo = reload[r].todo \ {f}
           /\ \A g \in Feature : reload'[r].lists[g] = IF g = f THEN l ELSE reload[r].lists[g]
    <3> DEFINE T == reload[r].todo \ {f}
               A == IF LastList(reload[r].todo, f) THEN "diff" ELSE "fetch"
    <3>1. A \in {"diff", "fetch"} /\ (A = "diff" => reload[r].todo = {f})
      BY DEF LastList
    <3>2. CASE reload' = [reload EXCEPT ![r].lists[f] = l, ![r].todo = T, ![r].at = A]
      <4> HIDE DEF T, A, f
      <4>1. reload'[r].at = A /\ reload'[r].todo = T
        BY <1>0, <3>2 DEF ReloadRecord
      <4>2. \A g \in Feature : reload'[r].lists[g] = IF g = f THEN l ELSE reload[r].lists[g]
        BY <1>0, <3>2 DEF ReloadRecord
      <4> USE DEF T
      <4> QED
        BY <3>1, <4>1, <4>2
    <3>3. CASE reload' = [reload EXCEPT ![r].at = "failed"]
      BY <1>0, <3>3 DEF ReloadRecord
    <3> QED
      BY <1>5, <2>2, <3>2, <3>3 DEF ReloadFetch
  <2>5. ASSUME NEW g \in Feature, HasBuilt(r, g)'
        PROVE  reload'[r].lists[g].plugin <= version[g]
    <3> HIDE DEF f
    <3>1. CASE g = f
      BY <2>3, <2>4, <2>5, <3>1, CacheNumbers DEF HasBuilt
    <3>2. CASE g # f
      <4>1. g \notin reload[r].todo
        BY <2>4, <2>5, <3>2 DEF HasBuilt
      <4> QED
        BY <2>1, <2>4, <2>5, <3>2, <4>1 DEF HasBuilt, CacheInv, DataKnown
    <3> QED
      BY <3>1, <3>2
  <2>6. reload'[r].at # "cache" /\ reload[r].at \notin Swapped
    BY <2>1, <2>4 DEF Swapped
  <2>7. UNCHANGED <<engine, cache>>
    BY <1>5 DEF ReloadFetch, listVars
  <2> QED
    BY <1>3, <2>5, <2>6, <2>7
<1>6. CASE ReloadDiff(r)
  <2>1. reload'[r].at = "engine" /\ reload'[r].lists = reload[r].lists /\ reload[r].at = "diff"
    BY <1>0, <1>6 DEF ReloadDiff, ReloadRecord
  <2> QED
    BY <1>3, <1>6, <2>1 DEF ReloadDiff, listVars, HasBuilt, Swapped, CacheInv, DataKnown
<1>7. CASE ReloadSwapEngine(r)
  <2>1. /\ reload'[r].at = "cache" /\ reload'[r].lists = reload[r].lists
        /\ reload[r].at = "engine" /\ engine' = r /\ UNCHANGED cache
    BY <1>0, <1>7 DEF ReloadSwapEngine, ReloadRecord
  <2>2. DataKnown'
    BY <1>0, <1>2, <2>1 DEF CacheInv, DataKnown, HasBuilt
  <2>3. EngineSwapped'
    BY <1>0, <1>2, <1>11, <2>1 DEF CacheInv, EngineSwapped, UnderWay, Swapped
  <2>4. FetchedLast'
    BY <1>0, <2>1 DEF CacheInv, EngineSwapped, UnderWay, Swapped, FetchedLast
  <2> QED
    BY <1>1, <2>2, <2>3, <2>4 DEF CacheInv
<1>8. CASE ReloadSwapCache(r)
  <2>1. /\ reload'[r].at = "notify" /\ reload[r].at = "cache"
        /\ UNCHANGED engine /\ cache' = reload[r].lists
    BY <1>0, <1>8 DEF ReloadSwapCache, ReloadRecord
  <2>2. DataKnown'
    BY <1>0, <1>2, <2>1 DEF CacheInv, DataKnown, HasBuilt
  <2>3. EngineSwapped'
    BY <1>0, <1>2, <1>11, <2>1 DEF CacheInv, EngineSwapped, UnderWay, Swapped
  <2>4. FetchedLast'
    BY <1>0, <1>2, <2>1 DEF CacheInv, FetchedLast, NewerThan
  <2> QED
    BY <1>1, <2>2, <2>3, <2>4 DEF CacheInv
<1>9. CASE ReloadNotify(r)
  <2>1. PICK S : UNCHANGED reload \/ reload' = [reload EXCEPT ![r].todo = S]
    BY <1>9 DEF ReloadNotify
  <2>2. reload[r].at = "notify"
    BY <1>9 DEF ReloadNotify
  <2>3. reload'[r].at = "notify"
    BY <1>0, <2>1, <2>2 DEF ReloadRecord
  <2> QED
    BY <1>3, <1>9, <2>2, <2>3 DEF ReloadNotify, listVars, HasBuilt, Swapped
<1>10. CASE ReloadDone(r)
  <2>1. reload'[r].at = "done"
    BY <1>0, <1>10 DEF ReloadDone, ReloadRecord
  <2> QED
    BY <1>3, <1>10, <2>1 DEF ReloadDone, listVars, HasBuilt, Swapped
<1>12. CASE ReloadDropped(r)
  <2>1. reload'[r].at = "dropped"
    BY <1>0, <1>12 DEF ReloadDropped, ReloadRecord
  <2> QED
    BY <1>3, <1>12, <2>1 DEF ReloadDropped, listVars, HasBuilt, Swapped
<1> QED
  BY <1>4, <1>5, <1>6, <1>7, <1>8, <1>9, <1>10, <1>12 DEF ReloadStep

(* A refresh that returns leaves the lock and the cache to the others.     *)
LEMMA CacheInvReturns ==
  ASSUME Types, CacheInv, NEW x \in Refresher,
         NEW result \in {"none", "changed", "unchanged"}, RefreshReturns(x, result),
         refresh[x].at # "lock" => UnderWay(x),
         UNCHANGED <<engine, version, reload>>,
         \/ UNCHANGED cache
         \/ /\ refresh[x].at = "write"
            /\ cache' = [cache EXCEPT ![refresh[x].feature] = refresh[x].list]
  PROVE  CacheInv'
<1>1. /\ refresh'[x].at = "done"
      /\ \A y \in Refresher : y # x => refresh'[y] = refresh[y]
  BY RefreshReturnsType
<1>2. \A y \in Refresher : UnderWay(y)' => y # x /\ UnderWay(y) /\ refresh'[y] = refresh[y]
  BY <1>1 DEF UnderWay
<1>3. LocksHeld'
  <2>1. \A y \in Refresher :
          UnderWay(y)' /\ UnderWay(x) => refresh[y].feature # refresh[x].feature
    BY <1>2 DEF CacheInv, LocksHeld
  <2>2. \A y \in Refresher : UnderWay(y)' => refresh[y].feature \in locks'
    BY <1>2, <2>1 DEF CacheInv, LocksHeld, RefreshReturns, Released
  <2> QED
    BY <1>2, <2>2 DEF CacheInv, LocksHeld
<1>4. EngineSwapped'
  BY <1>2 DEF CacheInv, EngineSwapped
<1>5. \A f \in Feature : \/ cache'[f] = cache[f]
                         \/ /\ UnderWay(x) /\ f = refresh[x].feature
                            /\ cache'[f].plugin <= version[f]
  BY DEF Types, ListsType, UnderWay, CacheInv, DataKnown
<1>6. DataKnown'
  BY <1>1, <1>5 DEF CacheInv, DataKnown, HasBuilt
<1>7. FetchedLast'
  <2> SUFFICES ASSUME NEW y \in Refresher, refresh'[y].at \in {"check", "write"},
                      refresh'[y].engine = engine'
               PROVE  NewerThan(y)'
    BY DEF FetchedLast
  <2>1. y # x /\ UnderWay(y) /\ refresh'[y] = refresh[y] /\ NewerThan(y)
    BY <1>2 DEF UnderWay, CacheInv, FetchedLast
  <2>2. UnderWay(x) => refresh[y].feature # refresh[x].feature
    BY <2>1 DEF CacheInv, LocksHeld
  <2>3. refresh[y].feature \in Feature
    BY <2>1, CacheNumbers DEF UnderWay
  <2>4. cache'[refresh[y].feature] = cache[refresh[y].feature]
    BY <1>5, <2>2, <2>3
  <2> QED
    BY <2>1, <2>4 DEF NewerThan
<1> QED
  BY <1>3, <1>4, <1>6, <1>7 DEF CacheInv

(* A refresh that goes on holds what it held.                              *)
LEMMA CacheInvGoesOn ==
  ASSUME Types, CacheInv, NEW x \in Refresher, UnderWay(x), UnderWay(x)',
         \A y \in Refresher : y # x => refresh'[y] = refresh[y],
         refresh'[x].feature = refresh[x].feature, refresh'[x].engine = refresh[x].engine,
         UNCHANGED <<engine, version, reload, locks>>,
         \/ UNCHANGED cache
         \/ /\ refresh[x].at = "write"
            /\ cache' = [cache EXCEPT ![refresh[x].feature] = refresh[x].list],
         refresh'[x].at \in {"check", "write"} =>
           /\ refresh'[x].list.plugin <= version[refresh[x].feature]
           /\ refresh[x].engine = engine => NewerThan(x)'
  PROVE  CacheInv'
<1>1. LocksHeld'
  BY DEF CacheInv, LocksHeld, UnderWay
<1>2. EngineSwapped'
  BY DEF CacheInv, EngineSwapped, UnderWay
<1>3. \A f \in Feature : \/ cache'[f] = cache[f]
                         \/ /\ f = refresh[x].feature
                            /\ cache'[f].plugin <= version[f]
  BY DEF Types, ListsType, UnderWay, CacheInv, DataKnown
<1>4. DataKnown'
  BY <1>3 DEF CacheInv, DataKnown, HasBuilt
<1>5. FetchedLast'
  <2> SUFFICES ASSUME NEW y \in Refresher, refresh'[y].at \in {"check", "write"},
                      refresh'[y].engine = engine'
               PROVE  NewerThan(y)'
    BY DEF FetchedLast
  <2>1. CASE y = x
    BY <2>1
  <2>2. CASE y # x
    <3>1. UnderWay(y) /\ refresh'[y] = refresh[y] /\ NewerThan(y)
      BY <2>2 DEF UnderWay, CacheInv, FetchedLast
    <3>2. refresh[y].feature # refresh[x].feature /\ refresh[y].feature \in Feature
      BY <2>2, <3>1, CacheNumbers DEF CacheInv, LocksHeld, UnderWay
    <3>3. cache'[refresh[y].feature] = cache[refresh[y].feature]
      BY <1>3, <3>2
    <3> QED
      BY <3>1, <3>3 DEF NewerThan
  <2> QED
    BY <2>1, <2>2
<1> QED
  BY <1>1, <1>2, <1>4, <1>5 DEF CacheInv

LEMMA CacheInvRefresh ==
  ASSUME Types, CacheInv, NEW x \in Refresher, RefreshStep(x)
  PROVE  CacheInv'
<1>0. /\ refresh \in [Refresher -> RefreshRecord] /\ refresh[x] \in RefreshRecord
      /\ UNCHANGED <<engine, version, reload>>
  BY DEF Types, ListsType, RefreshStep, RefreshStart, RefreshLock, RefreshOld, RefreshFetch,
         RefreshCheck, RefreshWrite, RefreshDone, RefreshAbandoned, listVars
<1>1. \A y \in Refresher : y # x => refresh'[y] = refresh[y]
  BY <1>0
  DEF RefreshStep, RefreshStart, RefreshLock, RefreshOld, RefreshFetch, RefreshCheck,
      RefreshWrite, RefreshDone, RefreshAbandoned, RefreshReturns
<1>2. ASSUME NEW f \in Feature, RefreshStart(x, f)
      PROVE  CacheInv'
  <2>1. refresh'[x].at = "lock" /\ UNCHANGED <<cache, locks>>
    BY <1>0, <1>2 DEF RefreshStart, RefreshRecord, listVars
  <2>2. \A y \in Refresher : UnderWay(y)' => UnderWay(y) /\ refresh'[y] = refresh[y]
    BY <1>1, <2>1 DEF UnderWay
  <2>3. LocksHeld' /\ EngineSwapped'
    BY <1>0, <2>1, <2>2 DEF CacheInv, LocksHeld, EngineSwapped
  <2>4. DataKnown'
    BY <1>0, <1>1, <2>1 DEF CacheInv, DataKnown, HasBuilt
  <2>5. FetchedLast'
    BY <1>0, <1>1, <2>1 DEF CacheInv, FetchedLast, NewerThan
  <2> QED
    BY <2>3, <2>4, <2>5 DEF CacheInv
<1>3. CASE RefreshLock(x)
  <2>1. /\ refresh'[x].at = "old" /\ UNCHANGED cache
        /\ refresh'[x].feature = refresh[x].feature /\ refresh'[x].engine = engine
        /\ refresh[x].feature \notin locks /\ locks' = locks \cup {refresh[x].feature}
    BY <1>0, <1>3 DEF RefreshLock, RefreshRecord, listVars, LockFree
  <2>2. \A y \in Refresher : y # x /\ UnderWay(y)' => UnderWay(y) /\ refresh'[y] = refresh[y]
    BY <1>1 DEF UnderWay
  <2>3. LocksHeld'
    BY <2>1, <2>2 DEF CacheInv, LocksHeld
  <2>4. EngineSwapped'
    BY <1>0, <2>1, <2>2 DEF CacheInv, EngineSwapped
  <2>5. DataKnown'
    BY <1>0, <1>1, <2>1 DEF CacheInv, DataKnown, HasBuilt
  <2>6. FetchedLast'
    BY <1>0, <1>1, <2>1 DEF CacheInv, FetchedLast, NewerThan
  <2> QED
    BY <2>3, <2>4, <2>5, <2>6 DEF CacheInv
<1>4. CASE RefreshOld(x)
  <2>1. /\ refresh[x].at = "old" /\ refresh'[x].at = "fetch"
        /\ refresh'[x].feature = refresh[x].feature /\ refresh'[x].engine = refresh[x].engine
        /\ UNCHANGED <<cache, locks>>
    BY <1>0, <1>4 DEF RefreshOld, RefreshRecord, listVars
  <2> QED
    BY <1>0, <1>1, <2>1, CacheInvGoesOn DEF UnderWay
<1>5. CASE RefreshFetch(x)
  <2>1. ConfigOf(refresh[x].engine) \in Config
    BY <1>0, EngineKinds, RuntimeAssumption
    DEF ConfigOf, Types, ListsType, ReloadRecord, RefreshRecord
  <2>2. refresh[x].at = "fetch" /\ refresh[x].feature \in Feature /\ UNCHANGED cache
    BY <1>5, CacheNumbers DEF RefreshFetch, listVars
  <2>3. PICK l : l = ListOf(ConfigOf(refresh[x].engine), refresh[x].feature)
    OBVIOUS
  <2>4. l.plugin = version[refresh[x].feature]
    BY <2>1, <2>2, <2>3, PluginOf DEF CacheInv
  <2>5. CASE RefreshReturns(x, "unchanged")
    BY <1>0, <2>2, <2>5, CacheInvReturns DEF UnderWay
  <2>6. CASE refresh' = [refresh EXCEPT ![x].at = "check", ![x].list = l] /\ UNCHANGED locks
    <3>1. /\ refresh'[x].at = "check" /\ refresh'[x].list = l
          /\ refresh'[x].feature = refresh[x].feature
          /\ refresh'[x].engine = refresh[x].engine
      BY <1>0, <2>6 DEF RefreshRecord
    <3>2. version[refresh[x].feature] \in Nat
      BY <2>2, CacheNumbers
    <3>3. NewerThan(x)'
      <4>1. cache[refresh[x].feature].plugin <= version[refresh[x].feature]
        BY <2>2 DEF CacheInv, DataKnown
      <4>2. \A r \in Reload : reload[r].at = "cache" =>
              reload[r].lists[refresh[x].feature].plugin <= version[refresh[x].feature]
        BY <2>2 DEF CacheInv, DataKnown, HasBuilt
      <4>3. /\ cache[refresh[x].feature].plugin \in Nat
            /\ \A r \in Reload : reload[r].at = "cache" =>
                 reload[r].lists[refresh[x].feature].plugin \in Nat
        BY <2>2, CacheNumbers DEF HasBuilt
      <4> QED
        BY <1>0, <2>2, <2>4, <3>1, <3>2, <4>1, <4>2, <4>3 DEF NewerThan
    <3> QED
      BY <1>0, <1>1, <2>2, <2>4, <2>6, <3>1, <3>2, <3>3, CacheInvGoesOn DEF UnderWay
  <2> QED
    BY <1>5, <2>3, <2>5, <2>6 DEF RefreshFetch
<1>6. CASE RefreshCheck(x)
  <2>1. refresh[x].at = "check" /\ UNCHANGED cache
    BY <1>6 DEF RefreshCheck, listVars
  <2>2. CASE RefreshReturns(x, "unchanged")
    BY <1>0, <2>1, <2>2, CacheInvReturns DEF UnderWay
  <2>3. CASE refresh' = [refresh EXCEPT ![x].at = "write"] /\ UNCHANGED locks
    <3>1. /\ refresh'[x].at = "write" /\ refresh'[x].list = refresh[x].list
          /\ refresh'[x].feature = refresh[x].feature
          /\ refresh'[x].engine = refresh[x].engine
      BY <1>0, <2>3 DEF RefreshRecord
    <3>2. refresh[x].engine = engine => NewerThan(x)'
      BY <1>0, <2>1, <3>1 DEF CacheInv, FetchedLast, NewerThan
    <3>3. refresh'[x].list.plugin <= version[refresh[x].feature]
      BY <2>1, <3>1 DEF CacheInv, DataKnown
    <3> QED
      BY <1>0, <1>1, <2>1, <2>3, <3>1, <3>2, <3>3, CacheInvGoesOn DEF UnderWay
  <2> QED
    BY <1>6, <2>2, <2>3 DEF RefreshCheck
<1>7. CASE RefreshWrite(x)
  <2>1. /\ refresh[x].at = "write"
        /\ cache' = [cache EXCEPT ![refresh[x].feature] = refresh[x].list]
    BY <1>7 DEF RefreshWrite
  <2>2. ASSUME NEW result \in {"changed", "unchanged"}, RefreshReturns(x, result)
        PROVE  CacheInv'
    BY <1>0, <2>1, <2>2, CacheInvReturns DEF UnderWay
  <2>3. CASE refresh' = [refresh EXCEPT ![x].at = "notify"] /\ UNCHANGED locks
    <3>1. /\ refresh'[x].at = "notify"
          /\ refresh'[x].feature = refresh[x].feature
          /\ refresh'[x].engine = refresh[x].engine
      BY <1>0, <2>3 DEF RefreshRecord
    <3> QED
      BY <1>0, <1>1, <2>1, <2>3, <3>1, CacheInvGoesOn DEF UnderWay
  <2> QED
    BY <1>7, <2>2, <2>3 DEF RefreshWrite
<1>8. CASE RefreshDone(x)
  BY <1>0, <1>8, CacheInvReturns DEF RefreshDone, UnderWay, listVars
<1>9. CASE RefreshAbandoned(x)
  BY <1>0, <1>9, CacheInvReturns DEF RefreshAbandoned, UnderWay, listVars
<1> QED
  BY <1>2, <1>3, <1>4, <1>5, <1>6, <1>7, <1>8, <1>9 DEF RefreshStep

LEMMA CacheInvStep ==
  ASSUME Types, CacheInv, [Next]_vars
  PROVE  CacheInv'
<1>1. CASE Run \/ HubStep \/ EventStep \/ UNCHANGED vars
  BY <1>1, CacheInvUnchanged
  DEF Run, HubStep, EventStep, FlushStep, RegistryChanges, WorkerReceives, WorkerChecks,
      WorkerInserts, FlushWakes, FlushChecks, FlushDone, vars, listVars
<1>2. ASSUME NEW g \in Feature, PluginDataChanges(g)
      PROVE  CacheInv'
  <2>1. /\ version \in [Feature -> 0..MaxVersion] /\ MaxVersion \in Nat
        /\ version' = [version EXCEPT ![g] = @ + 1] /\ g # "tools"
        /\ UNCHANGED <<engine, cache, reload, refresh, locks>>
    BY <1>2, RuntimeAssumption DEF PluginDataChanges, Types, ListsType
  <2>2. /\ \A f \in Feature : version[f] \in Nat /\ version'[f] \in Nat
        /\ \A f \in Feature : version[f] <= version'[f]
        /\ \A f \in Feature : f # g => version'[f] = version[f]
    BY <2>1
  <2>3. DataKnown'
    <3>1. \A f \in Feature : cache[f].plugin <= version'[f] /\ (f = "tools" => version'[f] = 0)
      BY <2>1, <2>2, CacheNumbers DEF CacheInv, DataKnown
    <3>2. \A r \in Reload, f \in Feature :
            HasBuilt(r, f) => reload[r].lists[f].plugin <= version'[f]
      BY <2>2, CacheNumbers DEF CacheInv, DataKnown
    <3>3. \A x \in Refresher :
            refresh[x].at \in {"check", "write"} =>
              refresh[x].list.plugin <= version'[refresh[x].feature]
      BY <2>2, CacheNumbers DEF CacheInv, DataKnown
    <3> QED
      BY <2>1, <3>1, <3>2, <3>3 DEF DataKnown, HasBuilt
  <2>4. EngineSwapped' /\ LocksHeld' /\ FetchedLast'
    BY <2>1 DEF CacheInv, EngineSwapped, LocksHeld, FetchedLast, NewerThan, UnderWay
  <2> QED
    BY <2>3, <2>4 DEF CacheInv
<1> QED
  BY <1>1, <1>2, CacheInvReload, CacheInvRefresh DEF Next

(* Among reloads that swap engine and cache under two locks and refreshes  *)
(* that check the engine some awaits before they write, no write of a      *)
(* refresh whose engine is the current one takes the cache back to older   *)
(* data (RuntimeListsProperties!CacheMovesForward).                        *)
THEOREM CacheNeverGoesBack == Spec => CacheMovesForward
<1> DEFINE Inv == Types /\ CacheInv
           Step == \A x \in Refresher :
                     Writes(x) /\ refresh[x].engine = engine /\ cache' # cache =>
                       refresh[x].list.plugin >= cache[refresh[x].feature].plugin
<1>1. Init => Inv
  BY TypesInit, CacheInvInit
<1>2. Inv /\ [Next]_vars => Inv'
  BY TypesStep, CacheInvStep
<1>3. Inv /\ [Next]_vars => [Step]_vars
  <2> SUFFICES ASSUME CacheInv, NEW x \in Refresher, Writes(x), refresh[x].engine = engine
               PROVE  refresh[x].list.plugin >= cache[refresh[x].feature].plugin
    OBVIOUS
  <2> QED
    BY DEF CacheInv, FetchedLast, NewerThan, Writes
<1> QED
  BY <1>1, <1>2, <1>3, PTL DEF Spec, CacheMovesForward
=============================================================================
