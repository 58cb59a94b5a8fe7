--------------------------- MODULE CatalogsProofs ---------------------------
(***************************************************************************)
(* Proofs about Catalogs for every set of features, providers, refreshes   *)
(* and clients, and every list that a provider has at a version.           *)
(***************************************************************************)
EXTENDS Catalogs, SequenceTheorems, WellFoundedInduction, TLAPS

Refresh ==
  [at : {"idle", "lock", "build", "store", "stored"},
   feature : Feature \cup {None}, next : Nat, built : [Provider -> Nat]]

RefreshType ==
  /\ version \in [Provider -> Nat]
  /\ catalog \in [Feature -> [Provider -> Nat]]
  /\ refresh \in [Refresher -> Refresh]
  /\ \A x \in Refresher :
       /\ refresh[x].at # "idle" => refresh[x].feature \in Feature
       /\ refresh[x].at \in {"idle", "lock"} =>
            refresh[x].next = 1 /\ \A p \in Provider : refresh[x].built[p] = 0

(* A feature's lock is held by the one refresh of it that is past it.      *)
LocksHeld ==
  \A x \in Refresher : \A f \in Feature : Holds(x, f) =>
    /\ f \in locks
    /\ \A y \in Refresher \ {x} : ~Holds(y, f)

Configured(f) == {ProvidersOf[f][i] : i \in 1..Len(ProvidersOf[f])}

(* No catalog is newer than the data, or lists who is not configured.      *)
CatalogKnown ==
  \A f \in Feature : \A p \in Provider :
    /\ catalog[f][p] <= version[p]
    /\ p \notin Configured(f) => catalog[f][p] = 0

(* A refresh that has built the list of a provider has it at least as new  *)
(* as the catalog.                                                         *)
BuildFits(x, f) ==
  refresh[x].feature = f =>
    /\ \A p \in Provider :
         /\ refresh[x].built[p] <= version[p]
         /\ p \notin Configured(f) => refresh[x].built[p] = 0
    /\ refresh[x].at = "build" =>
         /\ refresh[x].next \in 1..Len(ProvidersOf[f])
         /\ \A i \in 1..Len(ProvidersOf[f]) : i < refresh[x].next =>
              catalog[f][ProvidersOf[f][i]] <= refresh[x].built[ProvidersOf[f][i]]
    /\ refresh[x].at = "store" =>
         \A p \in Configured(f) : catalog[f][p] <= refresh[x].built[p]

BuildKnown == \A x \in Refresher : \A f \in Feature : BuildFits(x, f)

Inv == RefreshType /\ LocksHeld /\ CatalogKnown /\ BuildKnown

-----------------------------------------------------------------------------
LEMMA CatalogConstants ==
  /\ \A f \in Feature : /\ ProvidersOf[f] \in Seq(Provider)
                        /\ Len(ProvidersOf[f]) \in Nat /\ Len(ProvidersOf[f]) >= 1
                        /\ \A i \in 1..Len(ProvidersOf[f]) : ProvidersOf[f][i] \in Provider
  /\ Plugin \subseteq Provider
<1>1. \A f \in Feature : ProvidersOf[f] \in Seq(Provider) /\ ProvidersOf[f] # <<>>
  BY CatalogsAssumption
<1> QED
  BY <1>1, CatalogsAssumption

LEMMA ConfiguredProviders ==
  ASSUME NEW f \in Feature
  PROVE  Configured(f) \subseteq Provider
  BY CatalogConstants DEF Configured

LEMMA NoRefreshType == NoRefresh \in Refresh /\ NoRefresh.at = "idle"
  BY DEF NoRefresh, Refresh

(* The record of a refresh that changes. *)
LEMMA Changed ==
  ASSUME RefreshType, NEW x \in Refresher, NEW new \in Refresh,
         refresh' = [refresh EXCEPT ![x] = new]
  PROVE  /\ refresh' \in [Refresher -> Refresh] /\ refresh'[x] = new
         /\ \A y \in Refresher \ {x} : refresh'[y] = refresh[y]
  BY DEF RefreshType

LEMMA DataKeeps ==
  ASSUME Inv, NEW p \in Plugin, PluginDataChanges(p)
  PROVE  Inv'
<1>1. /\ RefreshType /\ LocksHeld /\ CatalogKnown /\ BuildKnown
      /\ UNCHANGED <<catalog, refresh, locks>> /\ p \in Provider
  BY CatalogConstants DEF Inv, PluginDataChanges
<1>2. version' \in [Provider -> Nat] /\ \A q \in Provider : version[q] <= version'[q]
  BY <1>1 DEF RefreshType, PluginDataChanges
<1>3. RefreshType' /\ LocksHeld'
  BY <1>1, <1>2 DEF RefreshType, LocksHeld, Holds
<1>4. CatalogKnown'
  <2> SUFFICES ASSUME NEW f \in Feature, NEW q \in Provider
               PROVE  /\ catalog[f][q] <= version'[q]
                      /\ q \notin Configured(f) => catalog[f][q] = 0
    BY <1>1 DEF CatalogKnown, Configured
  <2>1. catalog[f][q] \in Nat /\ version[q] \in Nat /\ version'[q] \in Nat
    BY <1>1, <1>2 DEF RefreshType
  <2> QED
    BY <1>1, <1>2, <2>1 DEF CatalogKnown
<1>5. BuildKnown'
  <2>1. ASSUME NEW y \in Refresher, NEW q \in Provider, refresh[y].built[q] <= version[q]
        PROVE  refresh[y].built[q] <= version'[q]
    <3>1. refresh[y].built[q] \in Nat /\ version[q] \in Nat /\ version'[q] \in Nat
      BY <1>1, <1>2 DEF RefreshType, Refresh
    <3> QED
      BY <1>2, <2>1, <3>1
  <2> QED
    BY <1>1, <2>1 DEF BuildKnown, BuildFits, Configured
<1> QED
  BY <1>3, <1>4, <1>5 DEF Inv

(* A refresh that is not past its lock, or has ended. *)
LEMMA OutsideKeeps ==
  ASSUME Inv, NEW x \in Refresher, NEW new \in Refresh,
         refresh' = [refresh EXCEPT ![x] = new],
         new.at \in {"idle", "lock"}, new.at = "lock" => new.feature \in Feature,
         new.next = 1, \A p \in Provider : new.built[p] = 0,
         UNCHANGED <<version, catalog>>,
         \A y \in Refresher \ {x} : \A f \in Feature :
           Holds(y, f) /\ f \in locks => f \in locks'
  PROVE  Inv'
<1>1. /\ RefreshType /\ LocksHeld /\ CatalogKnown /\ BuildKnown
      /\ refresh' \in [Refresher -> Refresh] /\ refresh'[x] = new
      /\ \A y \in Refresher \ {x} : refresh'[y] = refresh[y]
  BY Changed DEF Inv
<1>2. RefreshType'
  BY <1>1 DEF RefreshType
<1>3. LocksHeld'
  <2>1. \A f \in Feature : ~Holds(x, f)'
    BY <1>1 DEF Holds
  <2>2. \A y \in Refresher \ {x} : \A f \in Feature : Holds(y, f)' <=> Holds(y, f)
    BY <1>1 DEF Holds
  <2> QED
    BY <1>1, <2>1, <2>2 DEF LocksHeld
<1>4. CatalogKnown'
  BY <1>1 DEF CatalogKnown, Configured
<1>5. BuildKnown'
  <2>1. \A p \in Provider : 0 <= version[p]
    BY <1>1 DEF RefreshType
  <2> QED
    BY <1>1, <2>1 DEF BuildKnown, BuildFits, Configured
<1> QED
  BY <1>2, <1>3, <1>4, <1>5 DEF Inv

LEMMA StartKeeps ==
  ASSUME Inv, NEW x \in Refresher, NEW f \in Feature, RefreshStart(x, f)
  PROVE  Inv'
<1> DEFINE new == [[refresh[x] EXCEPT !.at = "lock"] EXCEPT !.feature = f]
<1>1. /\ RefreshType /\ refresh[x] \in Refresh /\ refresh[x].at = "idle"
      /\ UNCHANGED <<version, catalog, locks>>
  BY DEF Inv, RefreshType, RefreshStart
<1>2. /\ new \in Refresh /\ new.at = "lock" /\ new.feature = f
      /\ new.next = refresh[x].next /\ new.built = refresh[x].built
  BY <1>1 DEF Refresh
<1>3. refresh' = [refresh EXCEPT ![x] = new]
  BY DEF RefreshStart
<1> HIDE DEF new
<1>4. new.next = 1 /\ \A p \in Provider : new.built[p] = 0
  BY <1>1, <1>2 DEF RefreshType
<1> QED
  BY <1>1, <1>2, <1>3, <1>4, OutsideKeeps

LEMMA EndKeeps ==
  ASSUME Inv, NEW x \in Refresher, RefreshEnds(x)
  PROVE  Inv'
<1>1. /\ refresh' = [refresh EXCEPT ![x] = NoRefresh]
      /\ UNCHANGED <<version, catalog>> /\ locks' = Released(x)
      /\ LocksHeld /\ RefreshType /\ refresh[x].at # "idle"
  BY DEF RefreshEnds, Inv
<1>2. /\ NoRefresh.next = 1 /\ \A p \in Provider : NoRefresh.built[p] = 0
      /\ NoRefresh \in Refresh /\ NoRefresh.at = "idle"
  BY NoRefreshType DEF NoRefresh
<1>3. ASSUME NEW y \in Refresher \ {x}, NEW f \in Feature, Holds(y, f), f \in locks
      PROVE  f \in locks'
  <2>1. CASE refresh[x].at = "lock"
    BY <1>1, <1>3, <2>1 DEF Released
  <2>2. CASE refresh[x].at # "lock"
    <3>1. ~Holds(x, f)
      BY <1>1, <1>3 DEF LocksHeld
    <3>2. refresh[x].feature # f
      BY <1>1, <2>2, <3>1 DEF Holds, RefreshType, Refresh
    <3> QED
      BY <1>1, <1>3, <2>2, <3>2 DEF Released
  <2> QED
    BY <2>1, <2>2
<1> QED
  BY <1>1, <1>2, <1>3, OutsideKeeps

LEMMA LockKeeps ==
  ASSUME Inv, NEW x \in Refresher, RefreshLock(x)
  PROVE  Inv'
<1> DEFINE new == [refresh[x] EXCEPT !.at = "build"]
           f == refresh[x].feature
<1>1. /\ RefreshType /\ LocksHeld /\ CatalogKnown /\ BuildKnown
      /\ refresh[x] \in Refresh /\ refresh[x].at = "lock" /\ f \in Feature
      /\ UNCHANGED <<version, catalog>> /\ locks' = locks \cup {f} /\ f \notin locks
  BY DEF Inv, RefreshType, RefreshLock, LockFree
<1>2. /\ new \in Refresh /\ new.at = "build" /\ new.feature = f
      /\ new.next = 1 /\ new.built = refresh[x].built
  BY <1>1 DEF Refresh, RefreshType
<1>3. refresh' = [refresh EXCEPT ![x] = new]
  BY DEF RefreshLock
<1> HIDE DEF new
<1>4. /\ refresh' \in [Refresher -> Refresh] /\ refresh'[x] = new
      /\ \A y \in Refresher \ {x} : refresh'[y] = refresh[y]
  BY <1>1, <1>2, <1>3, Changed
<1> HIDE DEF f
<1>5. RefreshType'
  BY <1>1, <1>2, <1>4 DEF RefreshType
<1>6. LocksHeld'
  <2>1. \A y \in Refresher \ {x} : \A g \in Feature : Holds(y, g)' <=> Holds(y, g)
    BY <1>4 DEF Holds
  <2>2. \A g \in Feature : Holds(x, g)' <=> g = f
    BY <1>2, <1>4 DEF Holds
  <2>3. \A y \in Refresher \ {x} : ~Holds(y, f)
    BY <1>1 DEF LocksHeld
  <2> QED
    BY <1>1, <2>1, <2>2, <2>3 DEF LocksHeld
<1>7. CatalogKnown'
  BY <1>1 DEF CatalogKnown, Configured
<1>8. BuildKnown'
  <2>1. 1 \in 1..Len(ProvidersOf[f]) /\ \A i \in 1..Len(ProvidersOf[f]) : ~(i < 1)
    BY <1>1, CatalogConstants
  <2>2. \A p \in Provider : 0 <= version[p] /\ new.built[p] = 0
    BY <1>1, <1>2 DEF RefreshType
  <2>3. \A g \in Feature : BuildFits(x, g)'
    <3> SUFFICES ASSUME NEW g \in Feature, new.feature = g
                 PROVE  BuildFits(x, g)'
      BY <1>4 DEF BuildFits
    <3>1. g = f
      BY <1>2
    <3>2. \A p \in Provider :
            /\ refresh[x].built[p] <= version[p]
            /\ p \notin Configured(f) => refresh[x].built[p] = 0
      BY <1>1 DEF BuildKnown, BuildFits, f
    <3>3. /\ refresh'[x].at = "build" /\ refresh'[x].next = 1
          /\ refresh'[x].built = refresh[x].built
      BY <1>2, <1>4
    <3> QED
      BY <1>1, <2>1, <3>1, <3>2, <3>3 DEF BuildFits, Configured
  <2>4. \A y \in Refresher \ {x} : \A g \in Feature : BuildFits(y, g)'
    <3> SUFFICES ASSUME NEW y \in Refresher \ {x}, NEW g \in Feature
                 PROVE  BuildFits(y, g)'
      OBVIOUS
    <3>1. BuildFits(y, g)
      BY <1>1 DEF BuildKnown
    <3>2. refresh'[y] = refresh[y]
      BY <1>4
    <3> QED
      BY <1>1, <3>1, <3>2 DEF BuildFits, Configured
  <2> QED
    BY <2>3, <2>4 DEF BuildKnown
<1> QED
  BY <1>5, <1>6, <1>7, <1>8 DEF Inv

(* What is built of a provider is its data of now, and the catalog has     *)
(* none newer.                                                             *)
LEMMA BuildKeeps ==
  ASSUME Inv, NEW x \in Refresher, RefreshBuild(x)
  PROVE  Inv'
<1> DEFINE f == refresh[x].feature
           n == refresh[x].next
           p == ProvidersOf[f][n]
           last == n = Len(ProvidersOf[f])
           built == [refresh[x].built EXCEPT ![p] = version[p]]
           step == IF last THEN "store" ELSE "build"
           new == [[[refresh[x] EXCEPT !.built = built] EXCEPT !.next = n + 1]
                     EXCEPT !.at = step]
<1>1. /\ RefreshType /\ LocksHeld /\ CatalogKnown /\ BuildKnown
      /\ refresh[x] \in Refresh /\ refresh[x].at = "build" /\ f \in Feature
      /\ UNCHANGED <<version, catalog, locks>>
  BY DEF Inv, RefreshType, RefreshBuild
<1>2. /\ n \in 1..Len(ProvidersOf[f]) /\ Len(ProvidersOf[f]) \in Nat
      /\ p \in Provider /\ version[p] \in Nat /\ p \in Configured(f)
  BY <1>1, CatalogConstants DEF BuildKnown, BuildFits, RefreshType, Configured
<1>3. /\ built \in [Provider -> Nat] /\ built[p] = version[p]
      /\ \A q \in Provider : q # p => built[q] = refresh[x].built[q]
  BY <1>1, <1>2 DEF Refresh
<1>4. refresh' = [refresh EXCEPT ![x] = new]
  BY <1>1 DEF RefreshBuild, RefreshType, Refresh
<1>a. step \in {"store", "build"} /\ n + 1 \in Nat
  BY <1>2
<1> HIDE DEF built, step
<1>b. /\ new \in Refresh /\ new.at = step
      /\ new.feature = f /\ new.next = n + 1 /\ new.built = built
  BY <1>1, <1>3, <1>a DEF Refresh
<1>5. /\ new \in Refresh /\ new.at = (IF last THEN "store" ELSE "build")
      /\ new.feature = f /\ new.next = n + 1 /\ new.built = built
  BY <1>b DEF step
<1> HIDE DEF new
<1>6. /\ refresh' \in [Refresher -> Refresh] /\ refresh'[x] = new
      /\ \A y \in Refresher \ {x} : refresh'[y] = refresh[y]
  BY <1>1, <1>4, <1>5, Changed
<1>7. RefreshType'
  <2>1. /\ version \in [Provider -> Nat] /\ catalog \in [Feature -> [Provider -> Nat]]
        /\ refresh'[x].at \notin {"idle", "lock"} /\ refresh'[x].feature \in Feature
    BY <1>1, <1>5, <1>6 DEF RefreshType
  <2>2. \A y \in Refresher \ {x} :
          /\ refresh'[y].at # "idle" => refresh'[y].feature \in Feature
          /\ refresh'[y].at \in {"idle", "lock"} =>
               refresh'[y].next = 1 /\ \A q \in Provider : refresh'[y].built[q] = 0
    BY <1>1, <1>6 DEF RefreshType
  <2> QED
    BY <1>1, <1>6, <2>1, <2>2 DEF RefreshType
<1>8. LocksHeld'
  <2>1. \A y \in Refresher : \A g \in Feature : Holds(y, g)' <=> Holds(y, g)
    BY <1>1, <1>5, <1>6 DEF Holds
  <2> QED
    BY <1>1, <2>1 DEF LocksHeld
<1>9. CatalogKnown'
  BY <1>1 DEF CatalogKnown, Configured
<1>10. \A i \in 1..Len(ProvidersOf[f]) : i < n + 1 =>
         catalog[f][ProvidersOf[f][i]] <= built[ProvidersOf[f][i]]
  <2> SUFFICES ASSUME NEW i \in 1..Len(ProvidersOf[f]), i < n + 1
               PROVE  catalog[f][ProvidersOf[f][i]] <= built[ProvidersOf[f][i]]
    OBVIOUS
  <2>1. ProvidersOf[f][i] \in Provider
    BY <1>1, CatalogConstants
  <2>2. CASE ProvidersOf[f][i] = p
    BY <1>1, <1>2, <1>3, <2>2 DEF CatalogKnown
  <2>3. CASE ProvidersOf[f][i] # p
    <3>1. i # n /\ i < n
      BY <1>2, <2>3
    <3> QED
      BY <1>1, <1>3, <2>1, <2>3, <3>1 DEF BuildKnown, BuildFits
  <2> QED
    BY <2>2, <2>3
<1>11. \A q \in Provider :
         /\ built[q] <= version[q]
         /\ q \notin Configured(f) => built[q] = 0
  <2> SUFFICES ASSUME NEW q \in Provider
               PROVE  built[q] <= version[q] /\ (q \notin Configured(f) => built[q] = 0)
    OBVIOUS
  <2>1. CASE q = p
    <3>1. built[q] = version[q] /\ version[q] \in Nat /\ q \in Configured(f)
      BY <1>2, <1>3, <2>1
    <3> QED
      BY <3>1
  <2>2. CASE q # p
    BY <1>1, <1>3, <2>2 DEF BuildKnown, BuildFits
  <2> QED
    BY <2>1, <2>2
<1>12. BuildKnown'
  <2>1. last => \A q \in Configured(f) : catalog[f][q] <= built[q]
    <3> SUFFICES ASSUME last, NEW i \in 1..Len(ProvidersOf[f])
                 PROVE  catalog[f][ProvidersOf[f][i]] <= built[ProvidersOf[f][i]]
      BY DEF Configured
    <3>1. i < n + 1
      BY <1>2
    <3> QED
      BY <1>10, <3>1
  <2>2. ~last => n + 1 \in 1..Len(ProvidersOf[f])
    BY <1>2
  <2> HIDE DEF f, n, p, last
  <2>3. ASSUME NEW g \in Feature, new.feature = g
        PROVE  /\ \A q \in Provider :
                    /\ new.built[q] <= version[q]
                    /\ q \notin Configured(g) => new.built[q] = 0
               /\ new.at = "build" =>
                    /\ new.next \in 1..Len(ProvidersOf[g])
                    /\ \A i \in 1..Len(ProvidersOf[g]) : i < new.next =>
                         catalog[g][ProvidersOf[g][i]] <= new.built[ProvidersOf[g][i]]
               /\ new.at = "store" =>
                    \A q \in Configured(g) : catalog[g][q] <= new.built[q]
    <3>1. g = f
      BY <1>5, <2>3
    <3> QED
      BY <1>5, <1>10, <1>11, <2>1, <2>2, <3>1
  <2>4. ASSUME NEW y \in Refresher, NEW g \in Feature, refresh'[y].feature = g
        PROVE  /\ \A q \in Provider :
                    /\ refresh'[y].built[q] <= version[q]
                    /\ q \notin Configured(g) => refresh'[y].built[q] = 0
               /\ refresh'[y].at = "build" =>
                    /\ refresh'[y].next \in 1..Len(ProvidersOf[g])
                    /\ \A i \in 1..Len(ProvidersOf[g]) : i < refresh'[y].next =>
                         catalog[g][ProvidersOf[g][i]]
                           <= refresh'[y].built[ProvidersOf[g][i]]
               /\ refresh'[y].at = "store" =>
                    \A q \in Configured(g) : catalog[g][q] <= refresh'[y].built[q]
    <3>1. CASE y = x
      BY <1>6, <2>3, <2>4, <3>1
    <3>2. CASE y # x
      BY <1>1, <1>6, <2>4, <3>2 DEF BuildKnown, BuildFits
    <3> QED
      BY <3>1, <3>2
  <2> QED
    BY <1>1, <2>4 DEF BuildKnown, BuildFits, Configured
<1> QED
  BY <1>7, <1>8, <1>9, <1>12 DEF Inv

(* What is stored is at least as new as what it replaces. *)
Forward ==
  \A f \in Feature : \A p \in Provider : catalog'[f][p] >= catalog[f][p]

LEMMA StoreKeeps ==
  ASSUME Inv, NEW x \in Refresher, RefreshStore(x)
  PROVE  Inv' /\ Forward
<1> DEFINE f == refresh[x].feature
           built == refresh[x].built
           new == [refresh[x] EXCEPT !.at = "stored"]
<1>1. /\ RefreshType /\ LocksHeld /\ CatalogKnown /\ BuildKnown
      /\ refresh[x] \in Refresh /\ refresh[x].at = "store" /\ f \in Feature
      /\ UNCHANGED <<version, locks>> /\ catalog' = [catalog EXCEPT ![f] = built]
  BY DEF Inv, RefreshType, RefreshStore
<1>2. /\ new \in Refresh /\ new.at = "stored" /\ new.feature = f /\ new.built = built
      /\ built \in [Provider -> Nat]
  BY <1>1 DEF Refresh
<1>3. refresh' = [refresh EXCEPT ![x] = new]
  BY DEF RefreshStore
<1>4. \A p \in Provider : /\ built[p] <= version[p]
                          /\ p \notin Configured(f) => built[p] = 0
                          /\ built[p] >= catalog[f][p]
  <2>1. \A p \in Provider : built[p] <= version[p]
                            /\ (p \notin Configured(f) => built[p] = 0)
    BY <1>1 DEF BuildKnown, BuildFits
  <2>2. ASSUME NEW p \in Provider
        PROVE  built[p] >= catalog[f][p]
    <3>1. CASE p \in Configured(f)
      <4>1. catalog[f][p] <= built[p]
        BY <1>1, <3>1 DEF BuildKnown, BuildFits
      <4> QED
        BY <1>1, <1>2, <4>1 DEF RefreshType
    <3>2. CASE p \notin Configured(f)
      BY <1>1, <1>2, <2>1, <3>2 DEF CatalogKnown
    <3> QED
      BY <3>1, <3>2
  <2> QED
    BY <2>1, <2>2
<1>5. Holds(x, f) /\ \A y \in Refresher \ {x} : ~Holds(y, f)
  BY <1>1 DEF Holds, LocksHeld
<1> HIDE DEF f, built, new
<1>6. /\ refresh' \in [Refresher -> Refresh] /\ refresh'[x] = new
      /\ \A y \in Refresher \ {x} : refresh'[y] = refresh[y]
  BY <1>1, <1>2, <1>3, Changed
<1>7. /\ catalog' \in [Feature -> [Provider -> Nat]] /\ catalog'[f] = built
      /\ \A g \in Feature \ {f} : catalog'[g] = catalog[g]
  BY <1>1, <1>2 DEF RefreshType
<1>8. Forward
  <2> SUFFICES ASSUME NEW g \in Feature, NEW p \in Provider
               PROVE  catalog'[g][p] >= catalog[g][p]
    BY DEF Forward
  <2>1. catalog[g][p] \in Nat
    BY <1>1 DEF RefreshType
  <2> QED
    BY <1>4, <1>7, <2>1
<1>9. RefreshType'
  BY <1>1, <1>2, <1>6, <1>7 DEF RefreshType
<1>10. LocksHeld'
  <2>1. \A y \in Refresher : \A g \in Feature : Holds(y, g)' => Holds(y, g)
    BY <1>1, <1>2, <1>5, <1>6 DEF Holds
  <2> QED
    BY <1>1, <2>1 DEF LocksHeld
<1>11. CatalogKnown'
  BY <1>1, <1>4, <1>7 DEF CatalogKnown, Configured
<1>12. BuildKnown'
  <2> SUFFICES ASSUME NEW y \in Refresher, NEW g \in Feature, refresh'[y].feature = g
               PROVE  /\ \A p \in Provider :
                           /\ refresh'[y].built[p] <= version[p]
                           /\ p \notin Configured(g) => refresh'[y].built[p] = 0
                      /\ refresh'[y].at = "build" =>
                           /\ refresh'[y].next \in 1..Len(ProvidersOf[g])
                           /\ \A i \in 1..Len(ProvidersOf[g]) : i < refresh'[y].next =>
                                catalog'[g][ProvidersOf[g][i]]
                                  <= refresh'[y].built[ProvidersOf[g][i]]
                      /\ refresh'[y].at = "store" =>
                           \A p \in Configured(g) :
                             catalog'[g][p] <= refresh'[y].built[p]
    BY <1>1 DEF BuildKnown, BuildFits, Configured
  <2>1. CASE y = x
    BY <1>2, <1>4, <1>6, <2>1
  <2>2. CASE y # x /\ g # f
    BY <1>1, <1>6, <1>7, <2>2 DEF BuildKnown, BuildFits
  <2>3. CASE y # x /\ g = f
    <3>1. refresh[y].at \notin {"build", "store"}
      BY <1>5, <1>6, <2>3 DEF Holds
    <3> QED
      BY <1>1, <1>6, <2>3, <3>1 DEF BuildKnown, BuildFits
  <2> QED
    BY <2>1, <2>2, <2>3
<1> QED
  BY <1>8, <1>9, <1>10, <1>11, <1>12 DEF Inv

(* Clients change nothing of it. *)
LEMMA OthersKeep ==
  ASSUME Inv, UNCHANGED <<version, catalog, refresh, locks>>
  PROVE  Inv'
  BY DEF Inv, RefreshType, LocksHeld, Holds, CatalogKnown, BuildKnown, BuildFits, Configured

ClientStep ==
  \E c \in Client :
    \/ \E f \in Feature : StartListing(c, f)
    \/ ListPage(c)
    \/ \E k \in Key :
         \/ GetPrompt(c, k)
         \/ CompletePrompt(c, k)
         \/ \E op \in {"read", "subscribe", "unsubscribe"} : AskResource(c, op, k)
    \/ PluginAnswers(c)
    \/ GoOn(c)

LEMMA ClientsOnlyLook ==
  ASSUME ClientStep \/ UNCHANGED vars
  PROVE  UNCHANGED <<version, catalog, refresh, locks>>
  BY DEF ClientStep, StartListing, ListPage, GetPrompt, CompletePrompt, AskResource,
         PluginAnswers, GoOn, vars

LEMMA InitHolds ==
  ASSUME Init
  PROVE  Inv
<1>1. /\ version = [p \in Provider |-> 0]
      /\ catalog = [f \in Feature |-> [p \in Provider |-> 0]]
      /\ refresh = [x \in Refresher |-> NoRefresh]
  BY DEF Init
<1>2. /\ NoRefresh.next = 1 /\ NoRefresh.at = "idle" /\ NoRefresh \in Refresh
      /\ \A p \in Provider : NoRefresh.built[p] = 0
  BY NoRefreshType DEF NoRefresh
<1>3. RefreshType
  BY <1>1, <1>2 DEF RefreshType
<1>4. LocksHeld
  BY <1>1, <1>2 DEF LocksHeld, Holds
<1>5. CatalogKnown /\ BuildKnown
  BY <1>1, <1>2 DEF CatalogKnown, BuildKnown, BuildFits
<1> QED
  BY <1>3, <1>4, <1>5 DEF Inv

LEMMA Step ==
  ASSUME Inv, [Next]_vars
  PROVE  Inv' /\ Forward
<1>0. ASSUME UNCHANGED catalog
      PROVE  Forward
  BY <1>0 DEF Forward, Inv, RefreshType
<1>1. ASSUME NEW p \in Plugin, PluginDataChanges(p)
      PROVE  Inv' /\ Forward
  BY <1>0, <1>1, DataKeeps DEF PluginDataChanges
<1>2. ASSUME NEW x \in Refresher, NEW f \in Feature, RefreshStart(x, f)
      PROVE  Inv' /\ Forward
  BY <1>0, <1>2, StartKeeps DEF RefreshStart
<1>3. ASSUME NEW x \in Refresher, RefreshLock(x)
      PROVE  Inv' /\ Forward
  BY <1>0, <1>3, LockKeeps DEF RefreshLock
<1>4. ASSUME NEW x \in Refresher, RefreshBuild(x)
      PROVE  Inv' /\ Forward
  BY <1>0, <1>4, BuildKeeps DEF RefreshBuild
<1>5. ASSUME NEW x \in Refresher, RefreshEnds(x)
      PROVE  Inv' /\ Forward
  BY <1>0, <1>5, EndKeeps DEF RefreshEnds
<1>6. ASSUME ClientStep \/ UNCHANGED vars
      PROVE  Inv' /\ Forward
  BY <1>0, <1>6, ClientsOnlyLook, OthersKeep
<1> QED
  BY <1>1, <1>2, <1>3, <1>4, <1>5, <1>6, StoreKeeps DEF Next, ClientStep

-----------------------------------------------------------------------------
(* CatalogMovesForward for any number of refreshes and providers: the      *)
(* refresh that stores holds the lock of its feature since before it asked *)
(* the first provider, so that no other has stored what it has not built.  *)
THEOREM CatalogNeverGoesBack == Spec => CatalogMovesForward
<1>1. Init => Inv
  BY InitHolds
<1>2. Inv /\ [Next]_vars => Inv'
  BY Step
<1>3. Inv /\ [Next]_vars =>
        [\A f \in Feature : \A p \in Provider : catalog'[f][p] >= catalog[f][p]]_vars
  BY Step DEF Forward
<1> QED
  BY <1>1, <1>2, <1>3, PTL DEF Spec, CatalogMovesForward

-----------------------------------------------------------------------------
(* Sequences: what FlattenSeq is, which is defined by recursion, by the    *)
(* least number of sequences for which it would be something else.         *)
LEMMA LeastExists ==
  ASSUME NEW T \in SUBSET Nat, T # {}
  PROVE  \E x \in T : \A y \in T : x <= y
<1>1. PICK x \in T : \A y \in T : ~ (<<y, x>> \in OpToRel(<, Nat))
  BY NatLessThanWellFounded, WFMin
<1>2. \A y \in T : ~ (y < x)
  BY <1>1 DEF OpToRel
<1> QED BY <1>2

(* g is the function that FlattenSeq defines on the first n. *)
Flattens(g, seqs, n) ==
  g = [i \in 1..n |-> IF i = 1 THEN seqs[i] ELSE g[i-1] \o seqs[i]]

LEMMA FlattenExists ==
  ASSUME NEW seqs, NEW n \in Nat
  PROVE  \E g : Flattens(g, seqs, n)
<1> DEFINE T == {k \in Nat : ~ \E g : Flattens(g, seqs, k)}
<1>1. SUFFICES ASSUME T # {} PROVE FALSE
  BY DEF T
<1>2. PICK k \in T : \A y \in T : k <= y
  BY <1>1, LeastExists
<1>3. CASE k = 0
  <2> DEFINE h == [i \in 1..0 |-> IF i = 1 THEN seqs[i] ELSE seqs[i]]
  <2>1. h = [i \in 1..0 |-> IF i = 1 THEN seqs[i] ELSE h[i-1] \o seqs[i]]
    OBVIOUS
  <2>2. Flattens(h, seqs, k)
    BY <1>3, <2>1 DEF Flattens
  <2> HIDE DEF h
  <2> QED
    BY <1>2, <2>2
<1>4. CASE k # 0
  <2>1. k - 1 \in Nat /\ k - 1 \notin T /\ k \in Nat
    BY <1>2, <1>4
  <2>2. PICK g : Flattens(g, seqs, k - 1)
    BY <2>1
  <2> DEFINE h == [i \in 1..k |-> IF i = 1 THEN seqs[i] ELSE g[i-1] \o seqs[i]]
  <2>3. \A i \in 1..(k-1) : h[i] = g[i]
    <3>1. \A i \in 1..(k-1) : g[i] = IF i = 1 THEN seqs[i] ELSE g[i-1] \o seqs[i]
      BY <2>2 DEF Flattens
    <3>2. \A i \in 1..(k-1) : i \in 1..k
      BY <2>1
    <3> QED
      BY <3>1, <3>2
  <2>4. h = [i \in 1..k |-> IF i = 1 THEN seqs[i] ELSE h[i-1] \o seqs[i]]
    <3>1. \A i \in 1..k : i # 1 => i - 1 \in 1..(k-1)
      BY <2>1
    <3>2. \A i \in 1..k : i # 1 => g[i - 1] = h[i - 1]
      BY <2>3, <3>1
    <3> QED
      BY <3>2
  <2>5. Flattens(h, seqs, k)
    BY <2>4 DEF Flattens
  <2> HIDE DEF h
  <2> QED
    BY <1>2, <2>5
<1> QED
  BY <1>3, <1>4

LEMMA FlattenIs ==
  ASSUME NEW seqs, Len(seqs) \in Nat, Len(seqs) # 0
  PROVE  \E g : Flattens(g, seqs, Len(seqs)) /\ FlattenSeq(seqs) = g[Len(seqs)]
<1> DEFINE f == CHOOSE g : Flattens(g, seqs, Len(seqs))
<1>1. Flattens(f, seqs, Len(seqs))
  BY FlattenExists
<1>2. FlattenSeq(seqs) = f[Len(seqs)]
  BY DEF FlattenSeq, Flattens
<1> QED
  BY <1>1, <1>2

(* What all the sequences have in them is all that their concatenation has. *)
LEMMA FlattenType ==
  ASSUME NEW S, NEW seqs, Len(seqs) \in Nat, Len(seqs) # 0,
         \A i \in 1..Len(seqs) : seqs[i] \in Seq(S)
  PROVE  FlattenSeq(seqs) \in Seq(S)
<1>1. PICK g : Flattens(g, seqs, Len(seqs)) /\ FlattenSeq(seqs) = g[Len(seqs)]
  BY FlattenIs
<1> DEFINE T == {k \in Nat : k \in 1..Len(seqs) /\ g[k] \notin Seq(S)}
<1>2. SUFFICES ASSUME T # {} PROVE FALSE
  BY <1>1 DEF T
<1>3. PICK k \in T : \A y \in T : k <= y
  BY <1>2, LeastExists
<1>4. g[k] = IF k = 1 THEN seqs[k] ELSE g[k - 1] \o seqs[k]
  BY <1>1, <1>3 DEF Flattens
<1>5. k \in 1..Len(seqs) /\ g[k] \notin Seq(S) /\ seqs[k] \in Seq(S)
  BY <1>3
<1>6. CASE k = 1
  BY <1>4, <1>5, <1>6
<1>7. CASE k # 1
  <2>1. k - 1 \in 1..Len(seqs) /\ ~(k <= k - 1) /\ k - 1 \in Nat
    BY <1>5, <1>7
  <2>2. g[k - 1] \in Seq(S)
    BY <1>3, <2>1
  <2>3. g[k - 1] \o seqs[k] \in Seq(S)
    BY <1>5, <2>2, ConcatProperties
  <2> QED
    BY <1>4, <1>5, <1>7, <2>3
<1> QED
  BY <1>6, <1>7

(* Max of positions is what its definition looks for. *)
LEMMA LastExists ==
  ASSUME NEW n \in Nat, NEW T \in SUBSET (1..n), T # {}
  PROVE  Max(T) \in T /\ \A y \in T : y <= Max(T)
<1> DEFINE D == {n - i : i \in T}
<1>1. D \in SUBSET Nat /\ D # {}
  OBVIOUS
<1> HIDE DEF D
<1>2. PICK d \in D : \A y \in D : d <= y
  BY <1>1, LeastExists
<1>3. PICK x \in T : d = n - x
  BY <1>2 DEF D
<1>4. \A y \in T : x >= y
  <2> SUFFICES ASSUME NEW y \in T PROVE x >= y
    OBVIOUS
  <2>1. n - y \in D
    BY DEF D
  <2> QED
    BY <2>1, <1>2, <1>3
<1>5. Max(T) \in T /\ \A y \in T : Max(T) >= y
  BY <1>3, <1>4 DEF Max
<1> QED
  BY <1>5

LEMMA PageEnds ==
  ASSUME NEW start \in Nat, NEW len \in Nat, start <= len
  PROVE  PageEnd(start, len) \in start..len
<1>0. PageSize \in Nat
  BY CatalogsAssumption
<1>1. CASE Paginated
  <2> DEFINE T == {start + PageSize, len}
             low == IF start + PageSize <= len THEN start + PageSize ELSE len
  <2>1. low \in T /\ \A y \in T : low <= y
    BY <1>0
  <2>2. Min(T) \in T /\ \A y \in T : Min(T) <= y
    BY <2>1 DEF Min
  <2>3. Min(T) = start + PageSize \/ Min(T) = len
    BY <2>2
  <2>4. Min(T) <= start + PageSize /\ Min(T) <= len
    BY <2>2
  <2>5. PageEnd(start, len) = Min(T)
    BY <1>1 DEF PageEnd
  <2> HIDE DEF T, low
  <2> QED
    BY <1>0, <1>1, <2>3, <2>4, <2>5 DEF Paginated
<1>2. CASE ~Paginated
  BY <1>2 DEF PageEnd
<1> QED
  BY <1>1, <1>2

-----------------------------------------------------------------------------
(* What a provider lists at the version of it that a catalog is built from. *)
ItemsOf(built) ==
  {r \in Item : Contains(Lists[r.provider][built[r.provider]], r.key)}

LEMMA ItemsListed ==
  ASSUME NEW f \in Feature, NEW built \in [Provider -> 0..MaxVersion]
  PROVE  Items(f, built) \in Seq(ItemsOf(built))
<1> DEFINE n == Len(ProvidersOf[f])
           Of(p) == [j \in 1..Len(Lists[p][built[p]]) |->
                       [key |-> Lists[p][built[p]][j], provider |-> p]]
           seqs == [i \in 1..n |-> Of(ProvidersOf[f][i])]
<1>1. n \in Nat /\ n >= 1 /\ \A i \in 1..n : ProvidersOf[f][i] \in Provider
  BY CatalogConstants
<1>2. ASSUME NEW p \in Provider
      PROVE  Of(p) \in Seq(ItemsOf(built))
  <2>1. PICK list : list = Lists[p][built[p]]
    OBVIOUS
  <2>2. list \in Seq(Key)
    BY <2>1, CatalogsAssumption
  <2>3. Len(list) \in Nat /\ \A j \in 1..Len(list) : list[j] \in Key /\ Contains(list, list[j])
    BY <2>2 DEF Contains
  <2>4. \A j \in 1..Len(list) : [key |-> list[j], provider |-> p] \in ItemsOf(built)
    BY <2>1, <2>3 DEF ItemsOf, Item
  <2>5. Of(p) = [j \in 1..Len(list) |-> [key |-> list[j], provider |-> p]]
    BY <2>1
  <2> HIDE DEF Of
  <2> QED
    BY <2>3, <2>4, <2>5
<1>3. Items(f, built) = FlattenSeq(seqs)
  BY DEF Items
<1> HIDE DEF n, Of
<1>4. Len(seqs) = n /\ \A i \in 1..n : seqs[i] \in Seq(ItemsOf(built))
  BY <1>1, <1>2
<1> HIDE DEF seqs
<1> QED
  BY <1>1, <1>3, <1>4, FlattenType

-----------------------------------------------------------------------------
(* No data is past its bound, and whatever is built or stored of a         *)
(* provider was a list that passed validation.                             *)
DataFits ==
  /\ \A p \in Provider : version[p] <= MaxVersion
  /\ \A f \in Feature : \A p \in Provider : Sound[p][catalog[f][p]]
  /\ \A x \in Refresher : \A p \in Provider : Sound[p][refresh[x].built[p]]

LEMMA DataStep ==
  ASSUME Inv, DataFits, [Next]_vars
  PROVE  DataFits'
<1>0. /\ RefreshType /\ CatalogKnown /\ BuildKnown
      /\ \A p \in Provider : Sound[p][0] = TRUE
      /\ Plugin \subseteq Provider /\ MaxVersion \in Nat
  BY CatalogsAssumption DEF Inv
<1>1. ASSUME NEW p \in Plugin, PluginDataChanges(p)
      PROVE  DataFits'
  <2>1. /\ version[p] < MaxVersion /\ p \in Provider
        /\ version \in [Provider -> Nat] /\ version' = [version EXCEPT ![p] = @ + 1]
        /\ UNCHANGED <<catalog, refresh>>
    BY <1>0, <1>1 DEF PluginDataChanges, RefreshType
  <2>2. \A q \in Provider : version'[q] <= MaxVersion
    BY <1>0, <2>1 DEF DataFits
  <2> QED
    BY <2>1, <2>2 DEF DataFits
<1>2. ASSUME NEW x \in Refresher, NEW new \in Refresh,
             refresh' = [refresh EXCEPT ![x] = new],
             \A p \in Provider : Sound[p][new.built[p]],
             UNCHANGED <<version, catalog>>
      PROVE  DataFits'
  <2>1. /\ refresh'[x] = new
        /\ \A y \in Refresher \ {x} : refresh'[y] = refresh[y]
    BY <1>0, <1>2, Changed
  <2> QED
    BY <1>2, <2>1 DEF DataFits
<1>3. ASSUME NEW x \in Refresher, NEW f \in Feature, RefreshStart(x, f)
      PROVE  DataFits'
  <2>1. PICK new : new = [[refresh[x] EXCEPT !.at = "lock"] EXCEPT !.feature = f]
    OBVIOUS
  <2>2. refresh[x] \in Refresh
    BY <1>0 DEF RefreshType
  <2>3. new \in Refresh /\ new.built = refresh[x].built
    BY <2>1, <2>2 DEF Refresh
  <2>4. refresh' = [refresh EXCEPT ![x] = new] /\ UNCHANGED <<version, catalog>>
    BY <1>3, <2>1 DEF RefreshStart
  <2> QED
    BY <1>2, <2>3, <2>4 DEF DataFits
<1>4. ASSUME NEW x \in Refresher, RefreshLock(x)
      PROVE  DataFits'
  <2>1. PICK new : new = [refresh[x] EXCEPT !.at = "build"]
    OBVIOUS
  <2>2. refresh[x] \in Refresh
    BY <1>0 DEF RefreshType
  <2>3. new \in Refresh /\ new.built = refresh[x].built
    BY <2>1, <2>2 DEF Refresh
  <2>4. refresh' = [refresh EXCEPT ![x] = new] /\ UNCHANGED <<version, catalog>>
    BY <1>4, <2>1 DEF RefreshLock
  <2> QED
    BY <1>2, <2>3, <2>4 DEF DataFits
<1>5. ASSUME NEW x \in Refresher, RefreshBuild(x)
      PROVE  DataFits'
  <2>1. PICK p, i : p = ProvidersOf[refresh[x].feature][refresh[x].next] /\ i = refresh[x].next
    OBVIOUS
  <2>2. PICK built, step :
          /\ built = [refresh[x].built EXCEPT ![p] = version[p]]
          /\ step = IF i = Len(ProvidersOf[refresh[x].feature]) THEN "store" ELSE "build"
    OBVIOUS
  <2>3. /\ refresh[x] \in Refresh /\ refresh[x].at = "build"
        /\ refresh[x].feature \in Feature
    BY <1>0, <1>5 DEF RefreshType, RefreshBuild
  <2>4. p \in Provider /\ i \in Nat
    BY <1>0, <2>1, <2>3, CatalogConstants DEF BuildKnown, BuildFits, Refresh
  <2>5. built \in [Provider -> Nat] /\ step \in {"store", "build"}
    BY <1>0, <2>2, <2>3, <2>4 DEF Refresh, RefreshType
  <2>6. PICK new : new = [[[refresh[x] EXCEPT !.built = built] EXCEPT !.next = i + 1]
                            EXCEPT !.at = step]
    OBVIOUS
  <2>7. new \in Refresh /\ new.built = built
    <3>1. i + 1 \in Nat
      BY <2>4
    <3>2. new = [at |-> step, feature |-> refresh[x].feature, next |-> i + 1,
                 built |-> built]
      BY <2>3, <2>6 DEF Refresh
    <3> QED
      BY <2>3, <2>5, <3>1, <3>2 DEF Refresh
  <2>8. refresh' = [refresh EXCEPT ![x] = new] /\ UNCHANGED <<version, catalog>>
    BY <1>0, <1>5, <2>1, <2>2, <2>3, <2>6 DEF RefreshBuild, Refresh, RefreshType
  <2>9. Sound[p][version[p]]
    BY <1>5, <2>1 DEF RefreshBuild, Accepted
  <2>10. ASSUME NEW q \in Provider
         PROVE  Sound[q][built[q]]
    <3>1. CASE q = p
      BY <2>2, <2>3, <2>4, <2>9, <3>1 DEF Refresh
    <3>2. CASE q # p
      BY <2>2, <2>3, <2>4, <3>2 DEF Refresh, DataFits
    <3> QED
      BY <3>1, <3>2
  <2> QED
    BY <1>2, <2>7, <2>8, <2>10
<1>6. ASSUME NEW x \in Refresher, RefreshStore(x)
      PROVE  DataFits'
  <2>1. PICK new, built, f : /\ new = [refresh[x] EXCEPT !.at = "stored"]
                             /\ built = refresh[x].built /\ f = refresh[x].feature
    OBVIOUS
  <2>2. refresh[x] \in Refresh
    BY <1>0 DEF RefreshType
  <2>3. new \in Refresh /\ new.built = built
    BY <2>1, <2>2 DEF Refresh
  <2>4. /\ refresh' = [refresh EXCEPT ![x] = new] /\ UNCHANGED version
        /\ catalog' = [catalog EXCEPT ![f] = built]
    BY <1>6, <2>1 DEF RefreshStore
  <2>5. /\ refresh'[x] = new
        /\ \A y \in Refresher \ {x} : refresh'[y] = refresh[y]
    BY <1>0, <2>3, <2>4, Changed
  <2>6. \A p \in Provider : Sound[p][built[p]]
    BY <2>1 DEF DataFits
  <2>7. \A g \in Feature : catalog'[g] = IF g = f THEN built ELSE catalog[g]
    BY <1>0, <2>4 DEF RefreshType
  <2> QED
    BY <2>3, <2>4, <2>5, <2>6, <2>7 DEF DataFits
<1>7. ASSUME NEW x \in Refresher, RefreshEnds(x)
      PROVE  DataFits'
  <2>1. /\ refresh' = [refresh EXCEPT ![x] = NoRefresh]
        /\ UNCHANGED <<version, catalog>>
    BY <1>7 DEF RefreshEnds
  <2>2. NoRefresh \in Refresh /\ \A p \in Provider : Sound[p][NoRefresh.built[p]]
    BY <1>0, NoRefreshType DEF NoRefresh
  <2> QED
    BY <1>2, <2>1, <2>2
<1>8. ASSUME ClientStep \/ UNCHANGED vars
      PROVE  DataFits'
  BY <1>8, ClientsOnlyLook DEF DataFits
<1> QED
  BY <1>1, <1>3, <1>4, <1>5, <1>6, <1>7, <1>8 DEF Next, ClientStep

-----------------------------------------------------------------------------
(* What a client has collected and asked, beside the listings and the      *)
(* data: the clauses of PagesCoverList and RequestsReachOwners, and what   *)
(* the pages are before the last of them.                                  *)
Target ==
  Provider \cup {None, "notFound", "invalidArguments", "values", "undefinedSource"}

ClientRecord ==
  [at : {"idle", "paging", "listed", "invalidCursor", "asked", "answered"},
   feature : Feature \cup {None}, cursor : Nat, got : Seq(Item), clean : BOOLEAN,
   op : {None, "get", "read", "subscribe", "unsubscribe", "complete"},
   key : Key \cup {None}, target : Target]

Known(p, k, versions) ==
  (\E v \in 0..versions[p] : Contains(Lists[p][v], k)) \/ TemplateOf(p, k)

(* Who answers for a key of feature f, by a listing of it. *)
Answers(target, f, k, listing) ==
  LET named == {i \in DOMAIN listing : listing[i].key = k} IN
  /\ target # "undefinedSource"
  /\ target = "notFound" => named = {}
  /\ target \in Provider =>
       \/ \E i \in named :
            listing[i].provider = target /\ \A j \in named : j <= i
       \/ named = {} /\ f = "resources" /\ TemplateOf(target, k)

Fits(r, listings, versions) ==
  /\ r.at # "idle" => r.feature \in Feature
  /\ r.at = "idle" => r.cursor = 0 /\ r.got = <<>>
  /\ r.at = "paging" /\ r.clean =>
       /\ r.cursor <= Len(listings[r.feature])
       /\ r.got = SubSeq(listings[r.feature], 1, r.cursor)
  /\ r.at \in {"listed", "asked", "answered"} /\ r.clean =>
       r.got = listings[r.feature]
  /\ r.at \in {"asked", "answered"} /\ r.clean =>
       Answers(r.target, r.feature, r.key, r.got)
  /\ r.at = "asked" =>
       r.target \in Plugin /\ r.key \in Key /\ Known(r.target, r.key, versions)

Listings == [f \in Feature |-> Listing(f)]

ClientType ==
  /\ client \in [Client -> ClientRecord]
  /\ subscribed \in [Plugin -> SUBSET Subscription]

ClientsFit == \A c \in Client : Fits(client[c], Listings, version)

WatchedKnown ==
  \A p \in Plugin : \A s \in subscribed[p] : Known(p, s[2], version)

ClientInv == ClientType /\ ClientsFit /\ WatchedKnown

AllInv == Inv /\ DataFits /\ ClientInv

LEMMA ListingsType ==
  ASSUME Inv, DataFits, NEW f \in Feature
  PROVE  /\ Listing(f) \in Seq(ItemsOf(catalog[f])) /\ Listing(f) \in Seq(Item)
         /\ Listings[f] = Listing(f)
<1>1. /\ catalog[f] \in [Provider -> Nat] /\ version \in [Provider -> Nat]
      /\ \A p \in Provider : catalog[f][p] <= version[p] /\ version[p] <= MaxVersion
      /\ MaxVersion \in Nat
  BY CatalogsAssumption DEF Inv, RefreshType, CatalogKnown, DataFits
<1>2. \A p \in Provider : catalog[f][p] \in 0..MaxVersion
  BY <1>1
<1>3. catalog[f] \in [Provider -> 0..MaxVersion]
  BY <1>1, <1>2
<1>4. Listing(f) \in Seq(ItemsOf(catalog[f]))
  BY <1>3, ItemsListed DEF Listing
<1>5. ItemsOf(catalog[f]) \subseteq Item
  BY DEF ItemsOf
<1>6. \A S : S \subseteq Item => Seq(S) \subseteq Seq(Item)
  OBVIOUS
<1> QED
  BY <1>4, <1>5, <1>6 DEF Listings

(* The last entry of a key that is listed, and whose it is. *)
LEMMA DecidesKnown ==
  ASSUME Inv, DataFits, NEW f \in Feature, NEW k, Positions(f, k) # {}
  PROVE  LET i == Decides(Positions(f, k))
             p == Listing(f)[i].provider IN
         /\ i \in Positions(f, k) /\ \A j \in Positions(f, k) : j <= i
         /\ p \in Provider /\ Known(p, k, version)
<1> DEFINE i == Decides(Positions(f, k))
           p == Listing(f)[i].provider
<1>1. PICK list : list = Listing(f)
  OBVIOUS
<1>2. list \in Seq(ItemsOf(catalog[f]))
  BY <1>1, ListingsType
<1>3. Len(list) \in Nat /\ DOMAIN list = 1..Len(list)
  BY <1>2
<1>4. Positions(f, k) \in SUBSET (1..Len(list))
  BY <1>1, <1>3 DEF Positions
<1>5. i \in Positions(f, k) /\ \A j \in Positions(f, k) : j <= i
  BY <1>3, <1>4, LastExists DEF Decides
<1>6. i \in DOMAIN list /\ list[i].key = k /\ list[i] \in ItemsOf(catalog[f])
  BY <1>1, <1>2, <1>3, <1>5 DEF Positions
<1>7. p = list[i].provider
  BY <1>1
<1>8. p \in Provider /\ Contains(Lists[p][catalog[f][p]], k)
  BY <1>6, <1>7 DEF ItemsOf, Item
<1>9. catalog[f][p] \in 0..version[p]
  <2>1. catalog[f][p] \in Nat /\ version[p] \in Nat /\ catalog[f][p] <= version[p]
    BY <1>8 DEF Inv, RefreshType, CatalogKnown
  <2> QED
    BY <2>1
<1> HIDE DEF i, p
<1>10. Known(p, k, version)
  BY <1>8, <1>9 DEF Known
<1> QED
  BY <1>5, <1>8, <1>10 DEF i, p

(* What a prompt's name resolves to. *)
LEMMA PromptOwned ==
  ASSUME Inv, DataFits, "prompts" \in Feature, NEW k
  PROVE  LET t == PromptTarget(k) IN
         \/ t = "notFound" /\ Positions("prompts", k) = {}
         \/ /\ t \in Provider /\ Known(t, k, version)
            /\ \E i \in Positions("prompts", k) :
                 /\ Listing("prompts")[i].provider = t
                 /\ \A j \in Positions("prompts", k) : j <= i
<1>1. CASE Positions("prompts", k) = {}
  BY <1>1 DEF PromptTarget
<1>2. CASE Positions("prompts", k) # {}
  <2>1. PICK i : i = Decides(Positions("prompts", k))
    OBVIOUS
  <2>2. PromptTarget(k) = Listing("prompts")[i].provider
    BY <1>2, <2>1 DEF PromptTarget
  <2>3. /\ i \in Positions("prompts", k) /\ \A j \in Positions("prompts", k) : j <= i
        /\ Listing("prompts")[i].provider \in Provider
        /\ Known(Listing("prompts")[i].provider, k, version)
    BY <1>2, <2>1, DecidesKnown
  <2> QED
    BY <2>2, <2>3
<1> QED
  BY <1>1, <1>2

LEMMA TargetsDiffer ==
  \A p \in Provider :
    p \notin {"notFound", "invalidArguments", "values", "undefinedSource"}
  BY CatalogsAssumption

(* What a URI resolves to. *)
LEMMA ResourceOwned ==
  ASSUME Inv, DataFits, "resources" \in Feature, NEW k
  PROVE  LET t == ResourceTarget(k) IN
         /\ t \in Provider \cup {"notFound", "invalidArguments"}
         /\ t \in Provider => Known(t, k, version)
         /\ Answers(t, "resources", k, Listing("resources"))
<1> DEFINE t == ResourceTarget(k)
           positions == Positions("resources", k)
           templates == MatchingTemplates(k)
<1>0. positions = {i \in DOMAIN Listing("resources") : Listing("resources")[i].key = k}
  BY DEF Positions
<1>1. CASE positions # {}
  <2>1. PICK i : i = Decides(positions)
    OBVIOUS
  <2>2. t = Listing("resources")[i].provider
    BY <1>1, <2>1 DEF ResourceTarget
  <2>3. /\ i \in positions /\ \A j \in positions : j <= i
        /\ t \in Provider /\ Known(t, k, version)
    BY <1>1, <2>1, <2>2, DecidesKnown
  <2> HIDE DEF t, positions
  <2>4. Answers(t, "resources", k, Listing("resources"))
    BY <1>0, <2>2, <2>3, TargetsDiffer DEF Answers
  <2> QED
    BY <2>3, <2>4 DEF t
<1>2. CASE positions = {} /\ templates = {}
  <2>1. t = "notFound" /\ t \notin Provider
    BY <1>2, TargetsDiffer DEF ResourceTarget
  <2> HIDE DEF t, positions
  <2>2. Answers(t, "resources", k, Listing("resources"))
    BY <1>0, <1>2, <2>1 DEF Answers
  <2> QED
    BY <2>1, <2>2 DEF t
<1>3. CASE positions = {} /\ templates # {}
  <2>1. PICK i : i = Decides(templates)
    OBVIOUS
  <2>2. t = IF ArgumentsValid(Template[i], k) THEN Template[i].provider
            ELSE "invalidArguments"
    BY <1>3, <2>1 DEF ResourceTarget
  <2>3. /\ Len(Template) \in Nat /\ DOMAIN Template = 1..Len(Template)
        /\ \A j \in DOMAIN Template : Template[j].provider \in Provider
    <3>1. PICK S : /\ Template \in Seq(S) /\ \A r \in S : r.provider \in Provider
      <4>1. PICK S : S = [provider : Provider, matches : SUBSET Key, accepts : SUBSET Key]
        OBVIOUS
      <4>2. \A r \in S : r.provider \in Provider
        BY <4>1
      <4> QED
        BY <4>1, <4>2, CatalogsAssumption
    <3> QED
      BY <3>1
  <2>4. templates \in SUBSET (1..Len(Template))
    BY <2>3 DEF MatchingTemplates
  <2>5. i \in DOMAIN Template
    BY <1>3, <2>1, <2>3, <2>4, LastExists DEF Decides
  <2>6. CASE ~ArgumentsValid(Template[i], k)
    <3>1. t = "invalidArguments" /\ t \notin Provider
      BY <2>2, <2>6, TargetsDiffer
    <3> HIDE DEF t, positions
    <3>2. Answers(t, "resources", k, Listing("resources"))
      BY <3>1 DEF Answers
    <3> QED
      BY <3>1, <3>2 DEF t
  <2>7. CASE ArgumentsValid(Template[i], k)
    <3>1. t = Template[i].provider /\ k \in Template[i].accepts /\ t \in Provider
      BY <2>2, <2>3, <2>5, <2>7 DEF ArgumentsValid
    <3>2. TemplateOf(t, k)
      BY <2>5, <3>1 DEF TemplateOf
    <3> HIDE DEF t, positions
    <3>3. Answers(t, "resources", k, Listing("resources"))
      BY <1>0, <1>3, <3>1, <3>2, TargetsDiffer DEF Answers
    <3> QED
      BY <3>1, <3>2, <3>3 DEF t, Known
  <2> QED
    BY <2>6, <2>7
<1> QED
  BY <1>1, <1>2, <1>3

-----------------------------------------------------------------------------
(* One client's record changes, and no catalog. *)
LEMMA ClientChanges ==
  ASSUME ClientInv, NEW c \in Client, NEW new \in ClientRecord,
         client' = [client EXCEPT ![c] = new], Fits(new, Listings, version),
         UNCHANGED <<version, catalog>>,
         subscribed' \in [Plugin -> SUBSET Subscription],
         \A p \in Plugin : \A s \in subscribed'[p] :
           s \in subscribed[p] \/ Known(p, s[2], version)
  PROVE  ClientInv'
<1>1. /\ client \in [Client -> ClientRecord] /\ ClientsFit /\ WatchedKnown
  BY DEF ClientInv, ClientType
<1>2. /\ client' \in [Client -> ClientRecord] /\ client'[c] = new
      /\ \A d \in Client \ {c} : client'[d] = client[d]
  BY <1>1
<1>3. Listings' = Listings /\ version' = version
  BY DEF Listings, Listing
<1>4. ClientsFit'
  <2> SUFFICES ASSUME NEW d \in Client
               PROVE  Fits(client'[d], Listings', version')
    BY DEF ClientsFit
  <2>1. CASE d = c
    BY <1>2, <1>3, <2>1
  <2>2. CASE d # c
    BY <1>1, <1>2, <1>3, <2>2 DEF ClientsFit
  <2> QED
    BY <2>1, <2>2
<1>5. WatchedKnown'
  <2> SUFFICES ASSUME NEW p \in Plugin, NEW s \in subscribed'[p]
               PROVE  Known(p, s[2], version')
    BY DEF WatchedKnown
  <2> QED
    BY <1>1, <1>3 DEF WatchedKnown
<1> QED
  BY <1>2, <1>4, <1>5 DEF ClientInv, ClientType

LEMMA ClientHas ==
  ASSUME ClientInv, NEW c \in Client
  PROVE  client[c] \in ClientRecord /\ Fits(client[c], Listings, version)
  BY DEF ClientInv, ClientType, ClientsFit

LEMMA WatchedSame ==
  ASSUME ClientInv, UNCHANGED subscribed
  PROVE  /\ subscribed' \in [Plugin -> SUBSET Subscription]
         /\ \A p \in Plugin : \A s \in subscribed'[p] :
              s \in subscribed[p] \/ Known(p, s[2], version)
  BY DEF ClientInv, ClientType

LEMMA StartListingKeeps ==
  ASSUME AllInv, NEW c \in Client, NEW f \in Feature, StartListing(c, f)
  PROVE  ClientInv'
<1>1. PICK r, new : /\ r = client[c]
                    /\ new = [[r EXCEPT !.at = "paging"] EXCEPT !.feature = f]
  OBVIOUS
<1>2. /\ ClientInv /\ r \in ClientRecord /\ Fits(r, Listings, version) /\ r.at = "idle"
      /\ UNCHANGED <<version, catalog, subscribed>>
  BY <1>1, ClientHas DEF AllInv, StartListing
<1>3. client' = [client EXCEPT ![c] = new]
  BY <1>1 DEF StartListing
<1>4. new = [at |-> "paging", feature |-> f, cursor |-> r.cursor, got |-> r.got,
             clean |-> r.clean, op |-> r.op, key |-> r.key, target |-> r.target]
  BY <1>1, <1>2 DEF ClientRecord
<1>5. r.cursor = 0 /\ r.got = <<>>
  BY <1>2 DEF Fits
<1>6. new \in ClientRecord
  BY <1>2, <1>4 DEF ClientRecord
<1>7. /\ Listings[f] \in Seq(Item) /\ Len(Listings[f]) \in Nat
      /\ SubSeq(Listings[f], 1, 0) = <<>>
  BY ListingsType, SubSeqEmpty DEF AllInv
<1>8. Fits(new, Listings, version)
  BY <1>4, <1>5, <1>7 DEF Fits
<1> QED
  BY <1>2, <1>3, <1>6, <1>8, ClientChanges, WatchedSame

LEMMA ListPageKeeps ==
  ASSUME AllInv, NEW c \in Client, ListPage(c)
  PROVE  ClientInv'
<1>1. PICK r, f, start, items : /\ r = client[c] /\ f = r.feature /\ start = r.cursor
                                /\ items = Listing(f)
  OBVIOUS
<1>2. PICK end : end = PageEnd(start, Len(items))
  OBVIOUS
<1>3. /\ ClientInv /\ r \in ClientRecord /\ Fits(r, Listings, version) /\ r.at = "paging"
      /\ UNCHANGED <<version, catalog, subscribed>>
  BY <1>1, ClientHas DEF AllInv, ListPage
<1>4. f \in Feature
  BY <1>1, <1>3 DEF Fits
<1>5. items \in Seq(Item) /\ Len(items) \in Nat /\ Listings[f] = items
  BY <1>1, <1>4, ListingsType DEF AllInv
<1>6. r.clean => start <= Len(items) /\ r.got = SubSeq(items, 1, start)
  BY <1>1, <1>3, <1>5 DEF Fits
<1>7. start \in Nat /\ r.got \in Seq(Item)
  BY <1>1, <1>3 DEF ClientRecord
<1>8. CASE /\ start > Len(items)
           /\ client' = [client EXCEPT ![c].at = "invalidCursor"]
  <2>1. PICK new : new = [r EXCEPT !.at = "invalidCursor"]
    OBVIOUS
  <2>2. client' = [client EXCEPT ![c] = new]
    BY <1>1, <1>8, <2>1
  <2>3. new = [at |-> "invalidCursor", feature |-> f, cursor |-> start, got |-> r.got,
               clean |-> r.clean, op |-> r.op, key |-> r.key, target |-> r.target]
    BY <1>1, <1>3, <2>1 DEF ClientRecord
  <2>4. new \in ClientRecord
    BY <1>1, <1>3, <2>3 DEF ClientRecord
  <2>5. Fits(new, Listings, version)
    BY <1>4, <2>3 DEF Fits
  <2> QED
    BY <1>3, <2>2, <2>4, <2>5, ClientChanges, WatchedSame
<1>9. ASSUME start <= Len(items)
      PROVE  /\ end \in start..Len(items)
             /\ SubSeq(items, start + 1, end) \in Seq(Item)
             /\ SubSeq(items, 1, start) \o SubSeq(items, start + 1, end) = SubSeq(items, 1, end)
  <2>1. end \in start..Len(items)
    BY <1>2, <1>5, <1>7, <1>9, PageEnds
  <2>2. 1 \in 1..Len(items)+1 /\ start \in 1-1..Len(items) /\ end \in start..Len(items)
    BY <1>5, <1>7, <1>9, <2>1
  <2>3. SubSeq(items, 1, start) \o SubSeq(items, start + 1, end) = SubSeq(items, 1, end)
    BY <1>5, <2>2, ConcatAdjacentSubSeq
  <2>4. CASE start = end
    <3>1. SubSeq(items, start + 1, end) = <<>>
      BY <1>7, <2>4, SubSeqEmpty
    <3>2. <<>> \in Seq(Item)
      OBVIOUS
    <3> QED
      BY <2>1, <2>3, <3>1, <3>2
  <2>5. CASE start # end
    <3>1. start + 1 \in 1..Len(items) /\ end \in start + 1..Len(items)
      BY <1>5, <1>7, <2>1, <2>5
    <3>2. SubSeq(items, start + 1, end) \in Seq(Item)
      BY <1>5, <3>1, SubSeqProperties
    <3> QED
      BY <2>1, <2>3, <3>2
  <2> QED
    BY <2>4, <2>5
<1>10. CASE /\ start <= Len(items)
            /\ client' = [client EXCEPT
                            ![c].at = IF end < Len(items) THEN "paging" ELSE "listed",
                            ![c].cursor = IF end < Len(items) THEN NextCursor(end) ELSE 0,
                            ![c].got = @ \o SubSeq(items, start + 1, end)]
  <2>1. PICK got, at, cursor :
          /\ got = r.got \o SubSeq(items, start + 1, end)
          /\ at = IF end < Len(items) THEN "paging" ELSE "listed"
          /\ cursor = IF end < Len(items) THEN end ELSE 0
    OBVIOUS
  <2>2. got \in Seq(Item) /\ cursor \in Nat /\ at \in {"paging", "listed"}
    <3>1. got \in Seq(Item)
      BY <1>7, <1>9, <1>10, <2>1, ConcatProperties
    <3>2. end \in Nat
      BY <1>5, <1>7, <1>9, <1>10
    <3> QED
      BY <2>1, <3>1, <3>2
  <2>3. PICK new : new = [at |-> at, feature |-> f, cursor |-> cursor, got |-> got,
                          clean |-> r.clean, op |-> r.op, key |-> r.key,
                          target |-> r.target]
    OBVIOUS
  <2>4. new \in ClientRecord
    BY <1>1, <1>3, <2>2, <2>3 DEF ClientRecord
  <2>5. client' = [client EXCEPT ![c] = new]
    <3>1. new = [[[r EXCEPT !.at = at] EXCEPT !.cursor = cursor] EXCEPT !.got = got]
      <4>1. PICK r1 : r1 = [at |-> at, feature |-> f, cursor |-> r.cursor,
                            got |-> r.got, clean |-> r.clean, op |-> r.op,
                            key |-> r.key, target |-> r.target]
        OBVIOUS
      <4>2. PICK r2 : r2 = [at |-> at, feature |-> f, cursor |-> cursor,
                            got |-> r.got, clean |-> r.clean, op |-> r.op,
                            key |-> r.key, target |-> r.target]
        OBVIOUS
      <4>3. [r EXCEPT !.at = at] = r1
        BY <1>1, <1>3, <4>1 DEF ClientRecord
      <4>4. [r1 EXCEPT !.cursor = cursor] = r2
        BY <4>1, <4>2
      <4>5. [r2 EXCEPT !.got = got] = new
        BY <2>3, <4>2
      <4> QED
        BY <4>3, <4>4, <4>5
    <3>2. /\ client \in [Client -> ClientRecord] /\ r = client[c]
          /\ client' = [client EXCEPT
                          ![c].at = at, ![c].cursor = cursor, ![c].got = got]
      BY <1>1, <1>3, <1>10, <2>1 DEF NextCursor, ClientInv, ClientType
    <3> QED
      BY <3>1, <3>2
  <2>6. r.clean => got = SubSeq(items, 1, end)
    BY <1>6, <1>9, <1>10, <2>1
  <2>7. ~(end < Len(items)) => end = Len(items)
    BY <1>2, <1>5, <1>7, <1>9, <1>10
  <2>8. SubSeq(items, 1, Len(items)) = items
    BY <1>5, SubSeqFull
  <2>9. CASE end < Len(items)
    <3>1. end <= Len(items) /\ at = "paging" /\ cursor = end
      BY <1>9, <1>10, <2>1, <2>9
    <3> QED
      BY <1>3, <1>4, <1>5, <2>3, <2>4, <2>5, <2>6, <3>1, ClientChanges, WatchedSame DEF Fits
  <2>10. CASE ~(end < Len(items))
    <3>1. at = "listed" /\ (r.clean => got = items)
      BY <2>1, <2>6, <2>7, <2>8, <2>10
    <3>2. Fits(new, Listings, version)
      BY <1>4, <1>5, <2>3, <3>1 DEF Fits
    <3> QED
      BY <1>3, <2>4, <2>5, <3>2, ClientChanges, WatchedSame
  <2> QED
    BY <2>9, <2>10
<1> QED
  BY <1>1, <1>2, <1>8, <1>10 DEF ListPage

(* The fields of a request change together. *)
Requesting(r, at, op, k, target) ==
  [[[[r EXCEPT !.at = at] EXCEPT !.op = op] EXCEPT !.key = k] EXCEPT !.target = target]

LEMMA RequestRecord ==
  ASSUME NEW r \in ClientRecord, NEW at, NEW op, NEW k, NEW target
  PROVE  Requesting(r, at, op, k, target) =
           [at |-> at, feature |-> r.feature, cursor |-> r.cursor, got |-> r.got,
            clean |-> r.clean, op |-> op, key |-> k, target |-> target]
<1>1. PICK r1 : r1 = [at |-> at, feature |-> r.feature, cursor |-> r.cursor,
                      got |-> r.got, clean |-> r.clean, op |-> r.op, key |-> r.key,
                      target |-> r.target]
  OBVIOUS
<1>2. PICK r2 : r2 = [at |-> at, feature |-> r.feature, cursor |-> r.cursor,
                      got |-> r.got, clean |-> r.clean, op |-> op, key |-> r.key,
                      target |-> r.target]
  OBVIOUS
<1>3. PICK r3 : r3 = [at |-> at, feature |-> r.feature, cursor |-> r.cursor,
                      got |-> r.got, clean |-> r.clean, op |-> op, key |-> k,
                      target |-> r.target]
  OBVIOUS
<1>4. PICK new : new = [at |-> at, feature |-> r.feature, cursor |-> r.cursor,
                        got |-> r.got, clean |-> r.clean, op |-> op, key |-> k,
                        target |-> target]
  OBVIOUS
<1>5. [r EXCEPT !.at = at] = r1
  BY <1>1 DEF ClientRecord
<1>6. [r1 EXCEPT !.op = op] = r2
  BY <1>1, <1>2
<1>7. [r2 EXCEPT !.key = k] = r3
  BY <1>2, <1>3
<1>8. [r3 EXCEPT !.target = target] = new
  BY <1>3, <1>4
<1>9. new = [[[[r EXCEPT !.at = at] EXCEPT !.op = op] EXCEPT !.key = k]
               EXCEPT !.target = target]
  BY <1>5, <1>6, <1>7, <1>8
<1> QED
  BY <1>4, <1>9 DEF Requesting

(* A client that has listed asks who answers for a key. *)
LEMMA AskKeeps ==
  ASSUME AllInv, NEW c \in Client, NEW f \in Feature, Listed(c, f),
         NEW op \in {"get", "read", "subscribe", "unsubscribe", "complete"},
         NEW k \in Key, NEW target \in Target,
         Answers(target, f, k, Listing(f)),
         target \in Plugin => Known(target, k, version),
         Ask(c, op, k, target), UNCHANGED <<version, catalog, subscribed>>
  PROVE  ClientInv'
<1>1. PICK r, at : r = client[c] /\ at = IF target \in Plugin THEN "asked" ELSE "answered"
  OBVIOUS
<1>2. /\ ClientInv /\ r \in ClientRecord /\ Fits(r, Listings, version)
      /\ r.at = "listed" /\ r.feature = f
      /\ ClientType
  BY <1>1, ClientHas DEF AllInv, Listed, ClientInv
<1>3. PICK new : new = [at |-> at, feature |-> f, cursor |-> r.cursor, got |-> r.got,
                        clean |-> r.clean, op |-> op, key |-> k, target |-> target]
  OBVIOUS
<1>4. client' = [client EXCEPT ![c] = new]
  <2>1. client' = [client EXCEPT ![c].at = at, ![c].op = op, ![c].key = k,
                                 ![c].target = target]
    BY <1>1 DEF Ask
  <2>2. new = [at |-> at, feature |-> r.feature, cursor |-> r.cursor, got |-> r.got,
               clean |-> r.clean, op |-> op, key |-> k, target |-> target]
    BY <1>2, <1>3
  <2> QED
    <3>1. client \in [Client -> ClientRecord] /\ r \in ClientRecord
      BY <1>2 DEF ClientType
    <3>2. client' = [client EXCEPT ![c] = Requesting(r, at, op, k, target)]
      BY <1>1, <2>1, <3>1 DEF Requesting
    <3>3. Requesting(r, at, op, k, target) = new
      BY <2>2, <3>1, RequestRecord
    <3> QED
      BY <3>2, <3>3
<1>5. at \in {"asked", "answered"}
  BY <1>1
<1>6. new \in ClientRecord
  BY <1>2, <1>3, <1>5 DEF ClientRecord
<1>7. Listings[f] = Listing(f)
  BY DEF Listings
<1>8. r.clean => r.got = Listing(f)
  BY <1>2, <1>7 DEF Fits
<1>9. Fits(new, Listings, version)
  <2>1. at = "asked" => target \in Plugin
    BY <1>1
  <2>2. r.clean => Answers(target, f, k, r.got)
    BY <1>8
  <2> QED
    BY <1>3, <1>5, <1>7, <1>8, <2>1, <2>2 DEF Fits
<1> QED
  BY <1>2, <1>4, <1>6, <1>9, ClientChanges, WatchedSame

(* What is said of a prompt without asking a plugin. *)
LEMMA SaidOfPrompt ==
  ASSUME NEW k, NEW target \in {"invalidArguments", "values"}
  PROVE  /\ target \in Target /\ target \notin Plugin
         /\ Answers(target, "prompts", k, Listing("prompts"))
<1>1. target \notin Provider /\ target \notin {"notFound", "undefinedSource"}
  BY TargetsDiffer
<1>2. target \in Target /\ target \notin Plugin
  BY <1>1, CatalogConstants DEF Target
<1> QED
  BY <1>1, <1>2 DEF Answers

LEMMA PromptAnswers ==
  ASSUME Inv, DataFits, "prompts" \in Feature, NEW k
  PROVE  /\ PromptTarget(k) \in Provider \cup {"notFound"}
         /\ PromptTarget(k) \in Provider => Known(PromptTarget(k), k, version)
         /\ Answers(PromptTarget(k), "prompts", k, Listing("prompts"))
<1>1. PICK t : t = PromptTarget(k)
  OBVIOUS
<1>2. \/ t = "notFound" /\ Positions("prompts", k) = {}
      \/ /\ t \in Provider /\ Known(t, k, version)
         /\ \E i \in Positions("prompts", k) :
              /\ Listing("prompts")[i].provider = t
              /\ \A j \in Positions("prompts", k) : j <= i
  BY <1>1, PromptOwned
<1>3. Answers(t, "prompts", k, Listing("prompts"))
  BY <1>2, TargetsDiffer DEF Answers, Positions
<1>4. t \in Provider \cup {"notFound"} /\ (t \in Provider => Known(t, k, version))
  BY <1>2, TargetsDiffer
<1> QED
  BY <1>1, <1>3, <1>4

LEMMA GetPromptKeeps ==
  ASSUME AllInv, NEW c \in Client, NEW k \in Key, GetPrompt(c, k)
  PROVE  ClientInv'
<1>1. /\ Inv /\ DataFits /\ Listed(c, "prompts")
      /\ UNCHANGED <<version, catalog, subscribed>>
  BY DEF AllInv, GetPrompt
<1>2. "prompts" \in Feature
  BY <1>1, ClientHas DEF AllInv, Listed, Fits
<1>3. CASE Ask(c, "get", k, PromptTarget(k))
  <2>1. PICK t : t = PromptTarget(k)
    OBVIOUS
  <2>2. /\ t \in Target /\ Answers(t, "prompts", k, Listing("prompts"))
        /\ t \in Plugin => Known(t, k, version)
    BY <1>1, <1>2, <2>1, PromptAnswers, CatalogConstants DEF Target
  <2> QED
    BY <1>1, <1>2, <1>3, <2>1, <2>2, AskKeeps
<1>4. CASE Ask(c, "get", k, "invalidArguments")
  BY <1>1, <1>2, <1>4, SaidOfPrompt, AskKeeps
<1> QED
  BY <1>3, <1>4 DEF GetPrompt

LEMMA CompletePromptKeeps ==
  ASSUME AllInv, NEW c \in Client, NEW k \in Key, CompletePrompt(c, k)
  PROVE  ClientInv'
<1>1. PICK p : p = PromptTarget(k)
  OBVIOUS
<1>2. /\ Inv /\ DataFits /\ Listed(c, "prompts")
      /\ UNCHANGED <<version, catalog, subscribed>>
  BY DEF AllInv, CompletePrompt
<1>3. "prompts" \in Feature
  BY <1>2, ClientHas DEF AllInv, Listed, Fits
<1>4. /\ p \in Provider \cup {"notFound"}
      /\ Answers(p, "prompts", k, Listing("prompts"))
  BY <1>1, <1>2, <1>3, PromptAnswers
<1>5. CASE p = "notFound" /\ Ask(c, "complete", k, "notFound")
  <2>1. "notFound" \in Target /\ "notFound" \notin Plugin
    BY TargetsDiffer, CatalogConstants DEF Target
  <2> QED
    BY <1>2, <1>3, <1>4, <1>5, <2>1, AskKeeps
<1>6. CASE Ask(c, "complete", k, "invalidArguments") \/ Ask(c, "complete", k, "values")
  BY <1>2, <1>3, <1>6, SaidOfPrompt, AskKeeps
<1>7. CASE p # "notFound" /\ ~Sound[p][catalog["prompts"][p]]
  BY <1>2, <1>3, <1>4, <1>7 DEF DataFits
<1> QED
  BY <1>1, <1>5, <1>6, <1>7 DEF CompletePrompt

LEMMA AskResourceKeeps ==
  ASSUME AllInv, NEW c \in Client, NEW k \in Key,
         NEW op \in {"read", "subscribe", "unsubscribe"}, AskResource(c, op, k)
  PROVE  ClientInv'
<1>1. PICK t : t = ResourceTarget(k)
  OBVIOUS
<1>2. /\ Inv /\ DataFits /\ Listed(c, "resources") /\ Ask(c, op, k, t)
      /\ UNCHANGED <<version, catalog, subscribed>>
  BY <1>1 DEF AllInv, AskResource
<1>3. "resources" \in Feature
  BY <1>2, ClientHas DEF AllInv, Listed, Fits
<1>4. /\ t \in Target /\ Answers(t, "resources", k, Listing("resources"))
      /\ t \in Plugin => Known(t, k, version)
  BY <1>1, <1>2, <1>3, ResourceOwned, CatalogConstants DEF Target
<1> QED
  BY <1>2, <1>3, <1>4, AskKeeps

LEMMA PluginAnswersKeeps ==
  ASSUME AllInv, NEW c \in Client, PluginAnswers(c)
  PROVE  ClientInv'
<1>1. PICK r, p, s : r = client[c] /\ p = r.target /\ s = <<c, r.key>>
  OBVIOUS
<1>2. /\ ClientInv /\ r \in ClientRecord /\ Fits(r, Listings, version)
      /\ r.at = "asked" /\ UNCHANGED <<version, catalog>>
      /\ client' = [client EXCEPT ![c].at = "answered"]
  BY <1>1, ClientHas DEF AllInv, PluginAnswers
<1>3. /\ p \in Plugin /\ r.key \in Key /\ Known(p, r.key, version)
      /\ s \in Subscription /\ s[2] = r.key
  BY <1>1, <1>2 DEF Fits, Subscription
<1>4. PICK new : new = [r EXCEPT !.at = "answered"]
  OBVIOUS
<1>5. new = [at |-> "answered", feature |-> r.feature, cursor |-> r.cursor,
             got |-> r.got, clean |-> r.clean, op |-> r.op, key |-> r.key,
             target |-> r.target]
  BY <1>2, <1>4 DEF ClientRecord
<1>6. new \in ClientRecord
  BY <1>2, <1>5 DEF ClientRecord
<1>7. Fits(new, Listings, version)
  BY <1>2, <1>5 DEF Fits
<1>8. client' = [client EXCEPT ![c] = new]
  BY <1>1, <1>2, <1>4
<1>9. \/ subscribed' = [subscribed EXCEPT ![p] = @ \cup {s}]
      \/ subscribed' = [subscribed EXCEPT ![p] = @ \ {s}]
      \/ subscribed' = subscribed
  BY <1>1 DEF PluginAnswers
<1>10. subscribed \in [Plugin -> SUBSET Subscription]
  BY <1>2 DEF ClientInv, ClientType
<1>11. subscribed' \in [Plugin -> SUBSET Subscription]
  BY <1>3, <1>9, <1>10
<1>12. ASSUME NEW q \in Plugin, NEW t \in subscribed'[q]
       PROVE  t \in subscribed[q] \/ Known(q, t[2], version)
  <2>1. t \in subscribed[q] \/ (q = p /\ t = s)
    BY <1>3, <1>9, <1>10, <1>12
  <2> QED
    BY <1>3, <2>1
<1> QED
  BY <1>2, <1>6, <1>7, <1>8, <1>11, <1>12, ClientChanges

LEMMA GoOnKeeps ==
  ASSUME AllInv, NEW c \in Client, GoOn(c)
  PROVE  ClientInv'
<1>1. PICK r : r = client[c]
  OBVIOUS
<1>2. /\ ClientInv /\ r \in ClientRecord /\ Fits(r, Listings, version)
      /\ UNCHANGED <<version, catalog, subscribed>>
      /\ ClientType
  BY <1>1, ClientHas DEF AllInv, GoOn, ClientInv
<1>3. CASE client' = [client EXCEPT ![c] = Idle]
  <2>1. Idle \in ClientRecord
    BY DEF Idle, ClientRecord, Target
  <2>2. Fits(Idle, Listings, version)
    BY DEF Idle, Fits
  <2> QED
    BY <1>2, <1>3, <2>1, <2>2, ClientChanges, WatchedSame
<1>4. CASE /\ r.at = "answered"
           /\ client' = [client EXCEPT ![c].at = "listed", ![c].op = None,
                                       ![c].key = None, ![c].target = None]
  <2>1. PICK new : new = [at |-> "listed", feature |-> r.feature, cursor |-> r.cursor,
                          got |-> r.got, clean |-> r.clean, op |-> None, key |-> None,
                          target |-> None]
    OBVIOUS
  <2>2. new \in ClientRecord
    BY <1>2, <2>1 DEF ClientRecord, Target
  <2>3. Fits(new, Listings, version)
    BY <1>2, <1>4, <2>1 DEF Fits
  <2>4. client' = [client EXCEPT ![c] = new]
    <3>1. client \in [Client -> ClientRecord] /\ r \in ClientRecord
      BY <1>2 DEF ClientType
    <3>2. client' = [client EXCEPT ![c] = Requesting(r, "listed", None, None, None)]
      BY <1>1, <1>4, <3>1 DEF Requesting
    <3>3. Requesting(r, "listed", None, None, None) = new
      BY <2>1, <3>1, RequestRecord
    <3> QED
      BY <3>2, <3>3
  <2> QED
    BY <1>2, <2>2, <2>3, <2>4, ClientChanges, WatchedSame
<1> QED
  BY <1>1, <1>3, <1>4 DEF GoOn

-----------------------------------------------------------------------------
(* What is known of a key stays known when data goes on. *)
LEMMA KnownLater ==
  ASSUME NEW p \in Provider, NEW k, NEW before, NEW after,
         before[p] \in Nat, after[p] \in Nat, before[p] <= after[p],
         Known(p, k, before)
  PROVE  Known(p, k, after)
<1>1. \A v \in 0..before[p] : v \in 0..after[p]
  OBVIOUS
<1> QED
  BY <1>1 DEF Known

(* The data of a plugin changes, or a refresh goes on before it stores. *)
LEMMA DataIsLater ==
  ASSUME AllInv, version' \in [Provider -> Nat],
         \A p \in Provider : version[p] <= version'[p],
         UNCHANGED <<catalog, client, subscribed>>
  PROVE  ClientInv'
<1>1. /\ ClientType /\ ClientsFit /\ WatchedKnown
      /\ version \in [Provider -> Nat] /\ Plugin \subseteq Provider
  BY CatalogConstants DEF AllInv, ClientInv, Inv, RefreshType
<1>2. ASSUME NEW p \in Plugin, NEW k, Known(p, k, version)
      PROVE  Known(p, k, version')
  <2>1. p \in Provider /\ version[p] \in Nat /\ version'[p] \in Nat
    BY <1>1
  <2> QED
    BY <1>2, <2>1, KnownLater
<1>3. Listings' = Listings
  BY DEF Listings, Listing
<1>4. ClientsFit'
  <2> SUFFICES ASSUME NEW c \in Client
               PROVE  Fits(client[c], Listings, version')
    BY <1>3 DEF ClientsFit
  <2>1. Fits(client[c], Listings, version)
    BY <1>1 DEF ClientsFit
  <2>2. PICK r, listings : r = client[c] /\ listings = Listings
    OBVIOUS
  <2>3. Fits(r, listings, version)
    BY <2>1, <2>2
  <2>4. Fits(r, listings, version')
    BY <1>2, <2>3 DEF Fits
  <2> QED
    BY <2>2, <2>4
<1>5. WatchedKnown'
  BY <1>1, <1>2 DEF WatchedKnown
<1> QED
  BY <1>1, <1>4, <1>5 DEF ClientInv, ClientType

(* Whatever a client has of a listing that changes is out of date. *)
LEMMA StoreKeepsClients ==
  ASSUME AllInv, NEW x \in Refresher, RefreshStore(x)
  PROVE  ClientInv'
<1>1. PICK f, built : f = refresh[x].feature /\ built = refresh[x].built
  OBVIOUS
<1>2. /\ catalog' = [catalog EXCEPT ![f] = built] /\ client' = Aged(f, built)
      /\ UNCHANGED <<version, subscribed>>
      /\ catalog \in [Feature -> [Provider -> Nat]]
      /\ ClientType /\ ClientsFit /\ WatchedKnown
  BY <1>1 DEF AllInv, RefreshStore, ClientInv, Inv, RefreshType
<1>3. \A g \in Feature : Listings'[g] = IF g = f THEN Items(f, built) ELSE Listings[g]
  <2> SUFFICES ASSUME NEW g \in Feature
               PROVE  Items(g, catalog'[g]) =
                        IF g = f THEN Items(f, built) ELSE Items(g, catalog[g])
    BY DEF Listings, Listing
  <2> QED
    BY <1>2
<1>4. \A g \in Feature : Listings[g] = Listing(g)
  BY DEF Listings
<1>5. ASSUME NEW c \in Client
      PROVE  client'[c] \in ClientRecord /\ Fits(client'[c], Listings', version')
  <2>1. PICK r, before, after : r = client[c] /\ before = Listings /\ after = Listings'
    OBVIOUS
  <2>2. r \in ClientRecord /\ Fits(r, before, version)
    BY <1>2, <2>1 DEF ClientType, ClientsFit
  <2>3. CASE r.feature = f /\ Items(f, built) # Listing(f)
    <3>1. PICK new : new = [r EXCEPT !.clean = FALSE]
      OBVIOUS
    <3>2. new = [at |-> r.at, feature |-> r.feature, cursor |-> r.cursor,
                 got |-> r.got, clean |-> FALSE, op |-> r.op, key |-> r.key,
                 target |-> r.target]
      BY <2>2, <3>1 DEF ClientRecord
    <3>3. new \in ClientRecord
      BY <2>2, <3>2 DEF ClientRecord
    <3>4. Fits(new, after, version)
      BY <2>2, <3>2 DEF Fits
    <3>5. client'[c] = new
      BY <1>2, <2>1, <2>3, <3>1 DEF Aged
    <3> QED
      BY <1>2, <2>1, <3>3, <3>4, <3>5
  <2>4. CASE ~(r.feature = f /\ Items(f, built) # Listing(f))
    <3>1. client'[c] = r
      BY <1>2, <2>1, <2>4 DEF Aged
    <3>2. r.feature \in Feature => after[r.feature] = before[r.feature]
      BY <1>3, <1>4, <2>1, <2>4
    <3>3. Fits(r, after, version)
      BY <2>2, <3>2 DEF Fits
    <3> QED
      BY <1>2, <2>1, <2>2, <3>1, <3>3
  <2> QED
    BY <2>3, <2>4
<1>6. client' \in [Client -> ClientRecord]
  BY <1>2, <1>5 DEF Aged
<1> QED
  BY <1>2, <1>5, <1>6 DEF ClientInv, ClientType, ClientsFit, WatchedKnown

LEMMA ClientsInit ==
  ASSUME Init
  PROVE  AllInv
<1>1. Inv
  BY InitHolds
<1>2. DataFits
  BY CatalogsAssumption, NoRefreshType DEF Init, DataFits, NoRefresh
<1>3. /\ client = [c \in Client |-> Idle] /\ subscribed = [p \in Plugin |-> {}]
  BY DEF Init
<1>4. Idle \in ClientRecord /\ Fits(Idle, Listings, version)
  BY DEF Idle, ClientRecord, Target, Fits
<1>5. ClientInv
  BY <1>3, <1>4 DEF ClientInv, ClientType, ClientsFit, WatchedKnown
<1> QED
  BY <1>1, <1>2, <1>5 DEF AllInv

LEMMA ClientsStep ==
  ASSUME AllInv, [Next]_vars
  PROVE  AllInv'
<1>0. Inv /\ DataFits /\ Inv' /\ DataFits'
  BY Step, DataStep DEF AllInv
<1>1. version \in [Provider -> Nat] /\ version' \in [Provider -> Nat]
  BY <1>0 DEF Inv, RefreshType
<1>2. ASSUME UNCHANGED <<catalog, client, subscribed>>, UNCHANGED version
      PROVE  ClientInv'
  BY <1>1, <1>2, DataIsLater
<1>3. ASSUME NEW p \in Plugin, PluginDataChanges(p)
      PROVE  ClientInv'
  <2>1. \A q \in Provider : version[q] <= version'[q]
    BY <1>1, <1>3 DEF PluginDataChanges
  <2> QED
    BY <1>1, <1>3, <2>1, DataIsLater DEF PluginDataChanges
<1>4. ASSUME NEW x \in Refresher,
             \/ \E f \in Feature : RefreshStart(x, f)
             \/ RefreshLock(x) \/ RefreshBuild(x) \/ RefreshEnds(x)
      PROVE  ClientInv'
  BY <1>2, <1>4 DEF RefreshStart, RefreshLock, RefreshBuild, RefreshEnds
<1>5. ASSUME NEW c \in Client,
             \/ \E f \in Feature : StartListing(c, f)
             \/ ListPage(c)
             \/ \E k \in Key :
                  \/ GetPrompt(c, k)
                  \/ CompletePrompt(c, k)
                  \/ \E op \in {"read", "subscribe", "unsubscribe"} : AskResource(c, op, k)
             \/ PluginAnswers(c)
             \/ GoOn(c)
      PROVE  ClientInv'
  BY <1>5, StartListingKeeps, ListPageKeeps, GetPromptKeeps, CompletePromptKeeps,
     AskResourceKeeps, PluginAnswersKeeps, GoOnKeeps
<1>6. ASSUME UNCHANGED vars
      PROVE  ClientInv'
  BY <1>2, <1>6 DEF vars
<1>7. ClientInv'
  BY <1>3, <1>4, <1>5, <1>6, StoreKeepsClients DEF Next
<1> QED
  BY <1>0, <1>7 DEF AllInv

LEMMA ClientsAlways == Spec => []AllInv
<1>1. Init => AllInv
  BY ClientsInit
<1>2. AllInv /\ [Next]_vars => AllInv'
  BY ClientsStep
<1> QED
  BY <1>1, <1>2, PTL DEF Spec

(* PagesCoverList for any lists, page size and clients: as long as a       *)
(* listing is the same, what a client has is the listing up to its cursor, *)
(* and a page adds what is between this cursor and the next.               *)
THEOREM PagesAlwaysCover == Spec => []PagesCoverList
<1>1. AllInv => PagesCoverList
  <2> SUFFICES ASSUME AllInv, NEW c \in Client, client[c].at = "listed", client[c].clean
               PROVE  client[c].got = Listing(client[c].feature)
    BY DEF PagesCoverList
  <2> QED
    BY ClientHas DEF AllInv, Fits, Listings
<1> QED
  BY <1>1, ClientsAlways, PTL

(* RequestsReachOwners for any lists, templates and clients: the last      *)
(* entry of a key, else the last template, decides; what is stored has     *)
(* passed validation; and what a plugin is asked to watch was listed by it *)
(* at a version that it has been at.                                       *)
THEOREM OwnersAlwaysReached == Spec => []RequestsReachOwners
<1>1. ASSUME AllInv
      PROVE  RequestsReachOwners
  <2>1. ASSUME NEW c \in Client, client[c].at \in {"asked", "answered"}, client[c].clean
        PROVE  Answers(client[c].target, client[c].feature, client[c].key, client[c].got)
    BY <1>1, <2>1, ClientHas DEF AllInv, Fits
  <2>2. ASSUME NEW p \in Plugin, NEW s \in subscribed[p]
        PROVE  HasListed(p, s[2]) \/ TemplateOf(p, s[2])
    BY <1>1, <2>2 DEF AllInv, ClientInv, WatchedKnown, Known, HasListed
  <2> QED
    BY <2>1, <2>2 DEF RequestsReachOwners, Answers
<1> QED
  BY <1>1, ClientsAlways, PTL
=============================================================================
