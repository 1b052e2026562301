---------------------- MODULE RemoteAccessManagerProofs ----------------------
(***************************************************************************)
(* Proofs about RemoteAccessManager, for every set of clients, lifecycle   *)
(* threads, providers, keys and entries.  RouteInv is inductive: each      *)
(* action is one lemma, and the theorems read the properties off RouteInv. *)
(***************************************************************************)
EXTENDS RemoteAccessManager, FiniteSetTheorems, TLAPS

\* The initial state satisfies the inductive invariant.
LEMMA InitRouteInv == Init => RouteInv
BY ManagerAssumption
DEF Init, RouteInv, TypeOK, States, ClientPcs, OperatorPcs, ClientLocals,
    OperatorLocals, MapInjective, OwnerEntry, OwnersDistinct, WaiterEntry,
    RouteMapCurrent, ExclusiveRoute, ActivatingHasOwner, NoLostWakeup,
    Waiting, Owning

\* RouteInv is preserved by joining a mapped entry (RemoteAccessManager.cpp:225-236).
LEMMA JoinRouteInv ==
  ASSUME RouteInv, NEW c \in Clients, NEW k \in Keys, JoinRoute(c, k)
  PROVE  RouteInv'
<1> USE ManagerAssumption
    DEF RouteInv, TypeOK, ClientLocals, OperatorLocals, Waiting, Owning, ClientPcs
<1>1. TypeOK'
  <2>1. activeRoutes[k] \in Entries
    BY DEF JoinRoute
  <2>2. references' \in [Entries -> Nat \ {0}]
    BY <2>1 DEF JoinRoute, Admit
  <2>3. lease' \in [Clients -> Keys \cup {None}]
    BY DEF JoinRoute, Admit
  <2>4. pc' \in [Clients -> ClientPcs]
    BY DEF JoinRoute
  <2>5. key' \in [Clients -> Keys \cup {None}]
    BY DEF JoinRoute
  <2>6. entry' \in [Clients -> Entries \cup {None}]
    BY <2>1 DEF JoinRoute
  <2> QED
    BY <2>2, <2>3, <2>4, <2>5, <2>6
    DEF JoinRoute, routeVars, lockVars, providerVars, clientVars, operatorVars
<1>2. ClientLocals'
  BY <1>1 DEF JoinRoute, Admit, routeVars, lockVars, providerVars, clientVars,
    operatorVars
<1>3. OperatorLocals'
  BY <1>1 DEF JoinRoute, Admit, routeVars, lockVars, providerVars, clientVars,
    operatorVars
<1>4. MapInjective'
  BY <1>1 DEF MapInjective, OwnerEntry, JoinRoute, Admit, routeVars, lockVars,
    providerVars, clientVars, operatorVars
<1>5. OwnerEntry'
  BY <1>1 DEF OwnerEntry, OwnersDistinct, MapInjective, JoinRoute, Admit,
    routeVars, lockVars, providerVars, clientVars, operatorVars
<1>6. OwnersDistinct'
  <2>1. \A d \in Clients : pc'[d] \in Owning => pc[d] \in Owning /\ d # c
    BY DEF JoinRoute
  <2>2. \A d \in Clients \ {c} : entry'[d] = entry[d]
    BY DEF JoinRoute
  <2> QED
    BY <2>1, <2>2 DEF OwnersDistinct
<1>7. WaiterEntry'
  BY <1>1 DEF WaiterEntry, NoLostWakeup, MapInjective, OwnerEntry, JoinRoute,
    Admit, routeVars, lockVars, providerVars, clientVars, operatorVars
<1>8. RouteMapCurrent'
  BY <1>1 DEF RouteMapCurrent, OwnerEntry, MapInjective, JoinRoute, Admit,
    routeVars, lockVars, providerVars, clientVars, operatorVars
<1>9. ExclusiveRoute'
  BY <1>1 DEF ExclusiveRoute, JoinRoute, Admit, routeVars, lockVars,
    providerVars, clientVars, operatorVars
<1>10. ActivatingHasOwner'
  <2> SUFFICES ASSUME NEW j \in Keys, activeRoutes'[j] # None,
                      state'[activeRoutes'[j]] = "Activating"
               PROVE \E d \in Clients : Owns(d, j, activeRoutes[j])'
    BY <1>6 DEF ActivatingHasOwner, OwnersDistinct, Owns
  <2>1. PICK d \in Clients : Owns(d, j, activeRoutes[j])
    BY DEF ActivatingHasOwner, JoinRoute
  <2>2. d # c
    BY <2>1 DEF Owns, JoinRoute
  <2> QED
    BY <2>1, <2>2 DEF Owns, JoinRoute
<1>11. NoLostWakeup'
  BY <1>1 DEF NoLostWakeup, WaiterEntry, MapInjective, OwnerEntry, JoinRoute,
    Admit, routeVars, lockVars, providerVars, clientVars, operatorVars
<1> QED
  BY <1>1, <1>2, <1>3, <1>4, <1>5, <1>6, <1>7, <1>8, <1>9, <1>10, <1>11

\* RouteInv is preserved by inserting an entry and retiring the other routes (:238-257).
LEMMA CreateRouteInv ==
  ASSUME RouteInv, NEW c \in Clients, NEW k \in Keys, CreateRoute(c, k)
  PROVE  RouteInv'
<1> USE ManagerAssumption
    DEF RouteInv, TypeOK, ClientLocals, OperatorLocals, Waiting, Owning, ClientPcs
<1>1. TypeOK'
  BY DEF States, OperatorPcs, CreateRoute, NotifyAll, RoutesOf, FreeEntries,
    Live, ReplacedRoutes, InitialReferences, routeVars, lockVars,
    providerVars, clientVars, operatorVars
<1>2. ClientLocals'
  BY <1>1 DEF CreateRoute, NotifyAll, RoutesOf, FreeEntries, Live,
    ReplacedRoutes, InitialReferences, routeVars, lockVars, providerVars,
    clientVars, operatorVars
<1>3. OperatorLocals'
  BY <1>1 DEF CreateRoute, NotifyAll, RoutesOf, FreeEntries, Live,
    ReplacedRoutes, InitialReferences, routeVars, lockVars, providerVars,
    clientVars, operatorVars
<1>4. MapInjective'
  BY <1>1 DEF MapInjective, OwnerEntry, CreateRoute, NotifyAll, RoutesOf,
    FreeEntries, Live, ReplacedRoutes, InitialReferences, routeVars, lockVars,
    providerVars, clientVars, operatorVars
<1>5. OwnerEntry'
  BY <1>1 DEF OwnerEntry, OwnersDistinct, MapInjective, CreateRoute,
    NotifyAll, RoutesOf, FreeEntries, Live, ReplacedRoutes, InitialReferences,
    routeVars, lockVars, providerVars, clientVars, operatorVars
<1>6. OwnersDistinct'
  <2>1. entry'[c] \in Entries /\ \A d \in Clients : entry'[c] # entry[d]
    BY DEF CreateRoute, FreeEntries, Live
  <2>2. \A d \in Clients \ {c} : pc'[d] \in Owning => pc[d] \in Owning
    BY DEF CreateRoute, NotifyAll
  <2>3. \A d \in Clients \ {c} : entry'[d] = entry[d]
    BY DEF CreateRoute
  <2> QED
    BY <2>1, <2>2, <2>3 DEF OwnersDistinct
<1>7. WaiterEntry'
  BY <1>1 DEF WaiterEntry, NoLostWakeup, MapInjective, OwnerEntry,
    CreateRoute, NotifyAll, RoutesOf, FreeEntries, Live, ReplacedRoutes,
    InitialReferences, routeVars, lockVars, providerVars, clientVars,
    operatorVars
<1>8. RouteMapCurrent'
  BY <1>1 DEF RouteMapCurrent, OwnerEntry, MapInjective, CreateRoute,
    NotifyAll, RoutesOf, FreeEntries, Live, ReplacedRoutes, InitialReferences,
    routeVars, lockVars, providerVars, clientVars, operatorVars
<1>9. ExclusiveRoute'
  BY <1>1 DEF ExclusiveRoute, CreateRoute, NotifyAll, RoutesOf, FreeEntries,
    Live, ReplacedRoutes, InitialReferences, routeVars, lockVars,
    providerVars, clientVars, operatorVars
<1>10. ActivatingHasOwner'
  <2> SUFFICES ASSUME NEW j \in Keys, activeRoutes'[j] # None,
                      state'[activeRoutes'[j]] = "Activating"
               PROVE \E d \in Clients : Owns(d, j, activeRoutes[j])'
    BY <1>6 DEF ActivatingHasOwner, OwnersDistinct, Owns
  <2>1. CASE j = k
    <3>1. Owns(c, k, activeRoutes[k])'
      BY DEF Owns, CreateRoute, NotifyAll, FreeEntries
    <3> QED
      BY <2>1, <3>1
  <2>2. CASE j # k
    <3>1. activeRoutes'[j] = activeRoutes[j] /\ activeRoutes[j] \in Entries
      BY <2>2 DEF CreateRoute
    <3>2. state[activeRoutes[j]] = "Activating"
      BY <2>2, <3>1 DEF CreateRoute, FreeEntries, Live
    <3>3. PICK d \in Clients : Owns(d, j, activeRoutes[j])
      BY <3>1, <3>2 DEF ActivatingHasOwner
    <3>4. d # c
      BY <3>3 DEF Owns, CreateRoute
    <3>5. pc'[d] = pc[d] /\ key'[d] = key[d] /\ entry'[d] = entry[d]
      BY <3>3, <3>4 DEF Owns, CreateRoute, NotifyAll
    <3> QED
      BY <3>1, <3>3, <3>5 DEF Owns
  <2> QED
    BY <2>1, <2>2
<1>11. NoLostWakeup'
  <2> SUFFICES ASSUME NEW d \in Clients, pc'[d] = "asleep"
               PROVE /\ activeRoutes'[key'[d]] = entry'[d]
                     /\ state'[entry'[d]] = "Activating"
    BY DEF NoLostWakeup
  <2> DEFINE p == ProviderOf[k]
             others == ReplacedRoutes(p)
             ended == {activeRoutes[j] : j \in others}
  <2>1. pc[d] = "asleep" /\ d # c /\ entry[d] \notin ended
    BY DEF CreateRoute, NotifyAll
  <2>2. /\ entry'[d] = entry[d] /\ key'[d] = key[d]
        /\ entry[d] \in Entries /\ key[d] \in Keys
    BY <2>1 DEF CreateRoute
  <2>3. activeRoutes[key[d]] = entry[d] /\ state[entry[d]] = "Activating"
    BY <2>1 DEF NoLostWakeup
  <2>4. key[d] \notin others /\ key[d] # k
    BY <2>1, <2>2, <2>3 DEF CreateRoute
  <2>5. activeRoutes'[key[d]] = activeRoutes[key[d]]
    BY <2>2, <2>4 DEF CreateRoute
  <2>6. state'[entry[d]] = "Activating"
    BY <2>1, <2>2, <2>3 DEF CreateRoute
  <2> QED
    BY <2>2, <2>3, <2>5, <2>6
<1> QED
  BY <1>1, <1>2, <1>3, <1>4, <1>5, <1>6, <1>7, <1>8, <1>9, <1>10, <1>11

\* RouteInv is preserved by the critical section of deactivateRoute (:340-359).
LEMMA ReleaseRouteInv ==
  ASSUME RouteInv, NEW c \in Clients, ReleaseRoute(c)
  PROVE  RouteInv'
<1> USE ManagerAssumption
    DEF RouteInv, TypeOK, ClientLocals, OperatorLocals, Waiting, Owning, ClientPcs
<1>1. TypeOK'
  <2>1. lease[c] \in Keys
    BY DEF ReleaseRoute
  <2>2. references' \in [Entries -> Nat \ {0}]
    BY <2>1 DEF ReleaseRoute, LastReference
  <2>3. activeRoutes' \in [Keys -> Entries \cup {None}]
    BY <2>1 DEF ReleaseRoute
  <2>4. pc' \in [Clients -> ClientPcs]
    BY DEF ReleaseRoute
  <2>5. key' \in [Clients -> Keys \cup {None}]
    BY <2>1 DEF ReleaseRoute
  <2> QED
    BY <2>1, <2>2, <2>3, <2>4, <2>5
    DEF ReleaseRoute, routeVars, lockVars, providerVars, clientVars, operatorVars
<1>2. ClientLocals'
  BY <1>1 DEF ReleaseRoute, LastReference, routeVars, lockVars, providerVars,
    clientVars, operatorVars
<1>3. OperatorLocals'
  BY <1>1 DEF ReleaseRoute, LastReference, routeVars, lockVars, providerVars,
    clientVars, operatorVars
<1>4. MapInjective'
  BY <1>1 DEF MapInjective, OwnerEntry, ReleaseRoute, LastReference,
    routeVars, lockVars, providerVars, clientVars, operatorVars
<1>5. OwnerEntry'
  BY <1>1 DEF OwnerEntry, OwnersDistinct, MapInjective, ReleaseRoute,
    LastReference, routeVars, lockVars, providerVars, clientVars, operatorVars
<1>6. OwnersDistinct'
  BY <1>1 DEF OwnersDistinct, ReleaseRoute, LastReference, routeVars,
    lockVars, providerVars, clientVars, operatorVars
<1>7. WaiterEntry'
  BY <1>1 DEF WaiterEntry, NoLostWakeup, MapInjective, OwnerEntry,
    ReleaseRoute, LastReference, routeVars, lockVars, providerVars,
    clientVars, operatorVars
<1>8. RouteMapCurrent'
  BY <1>1 DEF RouteMapCurrent, OwnerEntry, MapInjective, ReleaseRoute,
    LastReference, routeVars, lockVars, providerVars, clientVars, operatorVars
<1>9. ExclusiveRoute'
  BY <1>1 DEF ExclusiveRoute, ReleaseRoute, LastReference, routeVars,
    lockVars, providerVars, clientVars, operatorVars
<1>10. ActivatingHasOwner'
  <2> SUFFICES ASSUME NEW j \in Keys, activeRoutes'[j] # None,
                      state'[activeRoutes'[j]] = "Activating"
               PROVE \E d \in Clients : Owns(d, j, activeRoutes[j])'
    BY <1>6 DEF ActivatingHasOwner, OwnersDistinct, Owns
  <2>1. activeRoutes'[j] = activeRoutes[j] /\ state' = state
    BY DEF ReleaseRoute
  <2>2. PICK d \in Clients : Owns(d, j, activeRoutes[j])
    BY <2>1 DEF ActivatingHasOwner
  <2> QED
    BY <2>1, <2>2 DEF Owns, ReleaseRoute
<1>11. NoLostWakeup'
  BY <1>1 DEF NoLostWakeup, WaiterEntry, MapInjective, OwnerEntry,
    ReleaseRoute, LastReference, routeVars, lockVars, providerVars,
    clientVars, operatorVars
<1> QED
  BY <1>1, <1>2, <1>3, <1>4, <1>5, <1>6, <1>7, <1>8, <1>9, <1>10, <1>11

\* RouteInv is preserved by the first critical section of prepareRouteForStreaming (:309-325).
LEMMA PrepareRouteInv ==
  ASSUME RouteInv, NEW c \in Clients, PrepareRoute(c)
  PROVE  RouteInv'
<1> USE ManagerAssumption
    DEF RouteInv, TypeOK, ClientLocals, OperatorLocals, Waiting, Owning, ClientPcs
<1>1. TypeOK'
  BY DEF States, OperatorPcs, PrepareRoute, routeVars, lockVars, providerVars,
    clientVars, operatorVars
<1>2. ClientLocals'
  BY <1>1 DEF PrepareRoute, routeVars, lockVars, providerVars, clientVars,
    operatorVars
<1>3. OperatorLocals'
  BY <1>1 DEF PrepareRoute, routeVars, lockVars, providerVars, clientVars,
    operatorVars
<1>4. MapInjective'
  BY <1>1 DEF MapInjective, OwnerEntry, PrepareRoute, routeVars, lockVars,
    providerVars, clientVars, operatorVars
<1>5. OwnerEntry'
  BY <1>1 DEF OwnerEntry, OwnersDistinct, MapInjective, PrepareRoute,
    routeVars, lockVars, providerVars, clientVars, operatorVars
<1>6. OwnersDistinct'
  BY <1>1 DEF OwnersDistinct, PrepareRoute, routeVars, lockVars, providerVars,
    clientVars, operatorVars
<1>7. WaiterEntry'
  BY <1>1 DEF WaiterEntry, NoLostWakeup, MapInjective, OwnerEntry,
    PrepareRoute, routeVars, lockVars, providerVars, clientVars, operatorVars
<1>8. RouteMapCurrent'
  BY <1>1 DEF RouteMapCurrent, OwnerEntry, MapInjective, PrepareRoute,
    routeVars, lockVars, providerVars, clientVars, operatorVars
<1>9. ExclusiveRoute'
  BY <1>1 DEF ExclusiveRoute, PrepareRoute, routeVars, lockVars, providerVars,
    clientVars, operatorVars
<1>10. ActivatingHasOwner'
  <2> SUFFICES ASSUME NEW j \in Keys, activeRoutes'[j] # None,
                      state'[activeRoutes'[j]] = "Activating"
               PROVE \E d \in Clients : Owns(d, j, activeRoutes[j])'
    BY <1>6 DEF ActivatingHasOwner, OwnersDistinct, Owns
  <2>1. PICK d \in Clients : Owns(d, j, activeRoutes[j])
    BY DEF ActivatingHasOwner, PrepareRoute, routeVars
  <2>2. d # c
    BY <2>1 DEF Owns, PrepareRoute
  <2> QED
    BY <2>1, <2>2 DEF Owns, PrepareRoute, routeVars
<1>11. NoLostWakeup'
  BY <1>1 DEF NoLostWakeup, WaiterEntry, MapInjective, OwnerEntry,
    PrepareRoute, routeVars, lockVars, providerVars, clientVars, operatorVars
<1> QED
  BY <1>1, <1>2, <1>3, <1>4, <1>5, <1>6, <1>7, <1>8, <1>9, <1>10, <1>11

\* RouteInv is preserved by a spurious return of the condition variable (:228).
LEMMA SpuriousWakeupInv ==
  ASSUME RouteInv, NEW c \in Clients, SpuriousWakeup(c)
  PROVE  RouteInv'
<1> USE ManagerAssumption
    DEF RouteInv, TypeOK, ClientLocals, OperatorLocals, Waiting, Owning, ClientPcs
<1>1. TypeOK'
  BY DEF States, OperatorPcs, SpuriousWakeup, routeVars, lockVars,
    providerVars, clientVars, operatorVars
<1>2. ClientLocals'
  BY <1>1 DEF SpuriousWakeup, routeVars, lockVars, providerVars, clientVars,
    operatorVars
<1>3. OperatorLocals'
  BY <1>1 DEF SpuriousWakeup, routeVars, lockVars, providerVars, clientVars,
    operatorVars
<1>4. MapInjective'
  BY <1>1 DEF MapInjective, OwnerEntry, SpuriousWakeup, routeVars, lockVars,
    providerVars, clientVars, operatorVars
<1>5. OwnerEntry'
  BY <1>1 DEF OwnerEntry, OwnersDistinct, MapInjective, SpuriousWakeup,
    routeVars, lockVars, providerVars, clientVars, operatorVars
<1>6. OwnersDistinct'
  BY <1>1 DEF OwnersDistinct, SpuriousWakeup, routeVars, lockVars,
    providerVars, clientVars, operatorVars
<1>7. WaiterEntry'
  BY <1>1 DEF WaiterEntry, NoLostWakeup, MapInjective, OwnerEntry,
    SpuriousWakeup, routeVars, lockVars, providerVars, clientVars,
    operatorVars
<1>8. RouteMapCurrent'
  BY <1>1 DEF RouteMapCurrent, OwnerEntry, MapInjective, SpuriousWakeup,
    routeVars, lockVars, providerVars, clientVars, operatorVars
<1>9. ExclusiveRoute'
  BY <1>1 DEF ExclusiveRoute, SpuriousWakeup, routeVars, lockVars,
    providerVars, clientVars, operatorVars
<1>10. ActivatingHasOwner'
  <2> SUFFICES ASSUME NEW j \in Keys, activeRoutes'[j] # None,
                      state'[activeRoutes'[j]] = "Activating"
               PROVE \E d \in Clients : Owns(d, j, activeRoutes[j])'
    BY <1>6 DEF ActivatingHasOwner, OwnersDistinct, Owns
  <2>1. PICK d \in Clients : Owns(d, j, activeRoutes[j])
    BY DEF ActivatingHasOwner, SpuriousWakeup, routeVars
  <2>2. d # c
    BY <2>1 DEF Owns, SpuriousWakeup
  <2> QED
    BY <2>1, <2>2 DEF Owns, SpuriousWakeup, routeVars
<1>11. NoLostWakeup'
  BY <1>1 DEF NoLostWakeup, WaiterEntry, MapInjective, OwnerEntry,
    SpuriousWakeup, routeVars, lockVars, providerVars, clientVars,
    operatorVars
<1> QED
  BY <1>1, <1>2, <1>3, <1>4, <1>5, <1>6, <1>7, <1>8, <1>9, <1>10, <1>11

\* RouteInv is preserved by a waiter evaluating its predicate again (:228-235).
LEMMA RecheckInv ==
  ASSUME RouteInv, NEW c \in Clients, Recheck(c)
  PROVE  RouteInv'
<1> USE ManagerAssumption
    DEF RouteInv, TypeOK, ClientLocals, OperatorLocals, Waiting, Owning, ClientPcs
<1>1. TypeOK'
  <2>1. entry[c] \in Entries /\ key[c] \in Keys
    BY DEF Recheck
  <2>2. references' \in [Entries -> Nat \ {0}]
    BY <2>1 DEF Recheck, Admit
  <2>3. lease' \in [Clients -> Keys \cup {None}]
    BY <2>1 DEF Recheck, Admit
  <2>4. pc' \in [Clients -> ClientPcs]
    BY DEF Recheck
  <2>8. key' \in [Clients -> Keys \cup {None}]
    BY DEF Recheck, Return
  <2>9. entry' \in [Clients -> Entries \cup {None}]
    BY DEF Recheck, Return
  <2>5. retired' \in [Clients -> SUBSET Keys]
    BY DEF Recheck, Return
  <2>6. activated' \in [Clients -> BOOLEAN]
    BY DEF Recheck, Return
  <2>7. captured' \in [Clients -> Nat]
    BY DEF Recheck, Return
  <2> QED
    BY <2>2, <2>3, <2>4, <2>5, <2>6, <2>7, <2>8, <2>9
    DEF Recheck, routeVars, lockVars, providerVars, clientVars, operatorVars
<1>2. ClientLocals'
  BY <1>1 DEF Recheck, Admit, Return, routeVars, lockVars, providerVars,
    clientVars, operatorVars
<1>3. OperatorLocals'
  BY <1>1 DEF Recheck, Admit, Return, routeVars, lockVars, providerVars,
    clientVars, operatorVars
<1>4. MapInjective'
  BY <1>1 DEF MapInjective, OwnerEntry, Recheck, Admit, Return, routeVars,
    lockVars, providerVars, clientVars, operatorVars
<1>5. OwnerEntry'
  BY <1>1 DEF OwnerEntry, OwnersDistinct, MapInjective, Recheck, Admit,
    Return, routeVars, lockVars, providerVars, clientVars, operatorVars
<1>6. OwnersDistinct'
  BY <1>1 DEF OwnersDistinct, Recheck, Admit, Return, routeVars, lockVars,
    providerVars, clientVars, operatorVars
<1>7. WaiterEntry'
  BY <1>1 DEF WaiterEntry, NoLostWakeup, MapInjective, OwnerEntry, Recheck,
    Admit, Return, routeVars, lockVars, providerVars, clientVars, operatorVars
<1>8. RouteMapCurrent'
  BY <1>1 DEF RouteMapCurrent, OwnerEntry, MapInjective, Recheck, Admit,
    Return, routeVars, lockVars, providerVars, clientVars, operatorVars
<1>9. ExclusiveRoute'
  BY <1>1 DEF ExclusiveRoute, Recheck, Admit, Return, routeVars, lockVars,
    providerVars, clientVars, operatorVars
<1>10. ActivatingHasOwner'
  <2> SUFFICES ASSUME NEW j \in Keys, activeRoutes'[j] # None,
                      state'[activeRoutes'[j]] = "Activating"
               PROVE \E d \in Clients : Owns(d, j, activeRoutes[j])'
    BY <1>6 DEF ActivatingHasOwner, OwnersDistinct, Owns
  <2>1. PICK d \in Clients : Owns(d, j, activeRoutes[j])
    BY DEF ActivatingHasOwner, Recheck
  <2> QED
    BY <2>1 DEF Owns, Recheck, Return
<1>11. NoLostWakeup'
  BY <1>1 DEF NoLostWakeup, WaiterEntry, MapInjective, OwnerEntry, Recheck,
    Admit, Return, routeVars, lockVars, providerVars, clientVars, operatorVars
<1> QED
  BY <1>1, <1>2, <1>3, <1>4, <1>5, <1>6, <1>7, <1>8, <1>9, <1>10, <1>11

\* RouteInv is preserved by the provider call of activateRoute (:260-263).
LEMMA ActivateAtProviderInv ==
  ASSUME RouteInv, NEW c \in Clients, ActivateAtProvider(c)
  PROVE  RouteInv'
<1> USE ManagerAssumption
    DEF RouteInv, TypeOK, ClientLocals, OperatorLocals, Waiting, Owning, ClientPcs
<1>1. TypeOK'
  <2> DEFINE p == ProviderOf[key[c]]
  <2>1. p \in Providers /\ key[c] \in Keys
    BY DEF ActivateAtProvider
  <2>2. PICK r \in ActivateOutcomes(p, key[c], serving[p] \ retired[c]) :
          /\ serving' = [serving EXCEPT ![p] = r.serving]
          /\ relaying' = [relaying EXCEPT
                            ![p] = (@ \ retired[c]) \cap r.serving]
          /\ activated' = [activated EXCEPT ![c] = r.ok]
    BY DEF ActivateAtProvider
  <2>3. r.ok \in BOOLEAN /\ r.serving \in SUBSET Keys
    <3>1. serving[p] \in SUBSET Keys /\ {key[c]} \in SUBSET Keys
      BY <2>1
    <3>2. \/ r.ok = FALSE /\ r.serving = serving[p] \ retired[c]
          \/ r.ok = FALSE /\ r.serving = {}
          \/ r.ok = TRUE /\ r.serving = {key[c]}
          \/ r.ok = TRUE /\ r.serving = (serving[p] \ retired[c]) \cup {key[c]}
      BY DEF ActivateOutcomes
    <3> QED
      BY <3>1, <3>2
  <2>4. /\ serving' \in [Providers -> SUBSET Keys]
        /\ relaying' \in [Providers -> SUBSET Keys]
        /\ activated' \in [Clients -> BOOLEAN]
    BY <2>1, <2>2, <2>3
  <2> QED
    BY <2>1, <2>4 DEF ActivateAtProvider, routeVars, lockVars, providerVars, clientVars, operatorVars
<1>2. ClientLocals'
  BY <1>1 DEF ActivateAtProvider, ActivateOutcomes, routeVars, lockVars,
    providerVars, clientVars, operatorVars
<1>3. OperatorLocals'
  BY <1>1 DEF ActivateAtProvider, ActivateOutcomes, routeVars, lockVars,
    providerVars, clientVars, operatorVars
<1>4. MapInjective'
  BY <1>1 DEF MapInjective, OwnerEntry, ActivateAtProvider, ActivateOutcomes,
    routeVars, lockVars, providerVars, clientVars, operatorVars
<1>5. OwnerEntry'
  BY <1>1 DEF OwnerEntry, OwnersDistinct, MapInjective, ActivateAtProvider,
    ActivateOutcomes, routeVars, lockVars, providerVars, clientVars,
    operatorVars
<1>6. OwnersDistinct'
  BY <1>1 DEF OwnersDistinct, ActivateAtProvider, ActivateOutcomes, routeVars,
    lockVars, providerVars, clientVars, operatorVars
<1>7. WaiterEntry'
  BY <1>1 DEF WaiterEntry, NoLostWakeup, MapInjective, OwnerEntry,
    ActivateAtProvider, ActivateOutcomes, routeVars, lockVars, providerVars,
    clientVars, operatorVars
<1>8. RouteMapCurrent'
  BY <1>1 DEF RouteMapCurrent, OwnerEntry, MapInjective, ActivateAtProvider,
    ActivateOutcomes, routeVars, lockVars, providerVars, clientVars,
    operatorVars
<1>9. ExclusiveRoute'
  BY <1>1 DEF ExclusiveRoute, ActivateAtProvider, ActivateOutcomes, routeVars,
    lockVars, providerVars, clientVars, operatorVars
<1>10. ActivatingHasOwner'
  BY <1>1 DEF Owns, ActivatingHasOwner, OwnerEntry, OwnersDistinct,
    MapInjective, ActivateAtProvider, ActivateOutcomes, routeVars, lockVars,
    providerVars, clientVars, operatorVars
<1>11. NoLostWakeup'
  BY <1>1 DEF NoLostWakeup, WaiterEntry, MapInjective, OwnerEntry,
    ActivateAtProvider, ActivateOutcomes, routeVars, lockVars, providerVars,
    clientVars, operatorVars
<1> QED
  BY <1>1, <1>2, <1>3, <1>4, <1>5, <1>6, <1>7, <1>8, <1>9, <1>10, <1>11

\* RouteInv is preserved by the second critical section of activateRoute (:264-286).
LEMMA CommitRouteInv ==
  ASSUME RouteInv, NEW c \in Clients, CommitRoute(c)
  PROVE  RouteInv'
<1> USE ManagerAssumption
    DEF RouteInv, TypeOK, ClientLocals, OperatorLocals, Waiting, Owning, ClientPcs
<1>1. TypeOK'
  BY DEF States, OperatorPcs, CommitRoute, Return, NotifyAll,
    GenerationMatches, StaleActivation, routeVars, lockVars, providerVars,
    clientVars, operatorVars
<1>2. ClientLocals'
  BY <1>1 DEF CommitRoute, Return, NotifyAll, GenerationMatches,
    StaleActivation, routeVars, lockVars, providerVars, clientVars,
    operatorVars
<1>3. OperatorLocals'
  BY <1>1 DEF CommitRoute, Return, NotifyAll, GenerationMatches,
    StaleActivation, routeVars, lockVars, providerVars, clientVars,
    operatorVars
<1>4. MapInjective'
  BY <1>1 DEF MapInjective, OwnerEntry, CommitRoute, Return, NotifyAll,
    GenerationMatches, StaleActivation, routeVars, lockVars, providerVars,
    clientVars, operatorVars
<1>5. OwnerEntry'
  BY <1>1 DEF OwnerEntry, OwnersDistinct, MapInjective, CommitRoute, Return,
    NotifyAll, GenerationMatches, StaleActivation, routeVars, lockVars,
    providerVars, clientVars, operatorVars
<1>6. OwnersDistinct'
  BY <1>1 DEF OwnersDistinct, CommitRoute, Return, NotifyAll,
    GenerationMatches, StaleActivation, routeVars, lockVars, providerVars,
    clientVars, operatorVars
<1>7. WaiterEntry'
  BY <1>1 DEF WaiterEntry, NoLostWakeup, MapInjective, OwnerEntry,
    CommitRoute, Return, NotifyAll, GenerationMatches, StaleActivation,
    routeVars, lockVars, providerVars, clientVars, operatorVars
<1>8. RouteMapCurrent'
  BY <1>1 DEF RouteMapCurrent, OwnerEntry, MapInjective, CommitRoute, Return,
    NotifyAll, GenerationMatches, StaleActivation, routeVars, lockVars,
    providerVars, clientVars, operatorVars
<1>9. ExclusiveRoute'
  BY <1>1 DEF ExclusiveRoute, CommitRoute, Return, NotifyAll,
    GenerationMatches, StaleActivation, routeVars, lockVars, providerVars,
    clientVars, operatorVars
<1>10. ActivatingHasOwner'
  <2> SUFFICES ASSUME NEW j \in Keys, activeRoutes'[j] # None,
                      state'[activeRoutes'[j]] = "Activating"
               PROVE \E d \in Clients : Owns(d, j, activeRoutes[j])'
    BY <1>6 DEF ActivatingHasOwner, OwnersDistinct, Owns
  <2>1. /\ activeRoutes[j] = activeRoutes'[j]
        /\ activeRoutes[j] # entry[c]
        /\ state[activeRoutes[j]] = "Activating"
    BY DEF CommitRoute, OwnerEntry, MapInjective
  <2>2. PICK d \in Clients : Owns(d, j, activeRoutes[j])
    BY <2>1 DEF ActivatingHasOwner
  <2>3. d # c
    BY <2>1, <2>2 DEF Owns
  <2> QED
    BY <2>1, <2>2, <2>3 DEF Owns, CommitRoute, Return, NotifyAll
<1>11. NoLostWakeup'
  BY <1>1 DEF NoLostWakeup, WaiterEntry, MapInjective, OwnerEntry,
    CommitRoute, Return, NotifyAll, GenerationMatches, StaleActivation,
    routeVars, lockVars, providerVars, clientVars, operatorVars
<1> QED
  BY <1>1, <1>2, <1>3, <1>4, <1>5, <1>6, <1>7, <1>8, <1>9, <1>10, <1>11

\* RouteInv is preserved by the provider call of deactivateRoute (:360-363).
LEMMA ReleaseAtProviderInv ==
  ASSUME RouteInv, NEW c \in Clients, ReleaseAtProvider(c)
  PROVE  RouteInv'
<1> USE ManagerAssumption
    DEF RouteInv, TypeOK, ClientLocals, OperatorLocals, Waiting, Owning, ClientPcs
<1>1. TypeOK'
  BY DEF States, OperatorPcs, ReleaseAtProvider, Return, routeVars, lockVars,
    providerVars, clientVars, operatorVars
<1>2. ClientLocals'
  BY <1>1 DEF ReleaseAtProvider, Return, routeVars, lockVars, providerVars,
    clientVars, operatorVars
<1>3. OperatorLocals'
  BY <1>1 DEF ReleaseAtProvider, Return, routeVars, lockVars, providerVars,
    clientVars, operatorVars
<1>4. MapInjective'
  BY <1>1 DEF MapInjective, OwnerEntry, ReleaseAtProvider, Return, routeVars,
    lockVars, providerVars, clientVars, operatorVars
<1>5. OwnerEntry'
  BY <1>1 DEF OwnerEntry, OwnersDistinct, MapInjective, ReleaseAtProvider,
    Return, routeVars, lockVars, providerVars, clientVars, operatorVars
<1>6. OwnersDistinct'
  BY <1>1 DEF OwnersDistinct, ReleaseAtProvider, Return, routeVars, lockVars,
    providerVars, clientVars, operatorVars
<1>7. WaiterEntry'
  BY <1>1 DEF WaiterEntry, NoLostWakeup, MapInjective, OwnerEntry,
    ReleaseAtProvider, Return, routeVars, lockVars, providerVars, clientVars,
    operatorVars
<1>8. RouteMapCurrent'
  BY <1>1 DEF RouteMapCurrent, OwnerEntry, MapInjective, ReleaseAtProvider,
    Return, routeVars, lockVars, providerVars, clientVars, operatorVars
<1>9. ExclusiveRoute'
  BY <1>1 DEF ExclusiveRoute, ReleaseAtProvider, Return, routeVars, lockVars,
    providerVars, clientVars, operatorVars
<1>10. ActivatingHasOwner'
  BY <1>1 DEF Owns, ActivatingHasOwner, OwnerEntry, OwnersDistinct,
    MapInjective, ReleaseAtProvider, Return, routeVars, lockVars,
    providerVars, clientVars, operatorVars
<1>11. NoLostWakeup'
  BY <1>1 DEF NoLostWakeup, WaiterEntry, MapInjective, OwnerEntry,
    ReleaseAtProvider, Return, routeVars, lockVars, providerVars, clientVars,
    operatorVars
<1> QED
  BY <1>1, <1>2, <1>3, <1>4, <1>5, <1>6, <1>7, <1>8, <1>9, <1>10, <1>11

\* RouteInv is preserved by the provider call of prepareRouteForStreaming (:326-327).
LEMMA PrepareAtProviderInv ==
  ASSUME RouteInv, NEW c \in Clients, PrepareAtProvider(c)
  PROVE  RouteInv'
<1> USE ManagerAssumption
    DEF RouteInv, TypeOK, ClientLocals, OperatorLocals, Waiting, Owning, ClientPcs
<1>1. TypeOK'
  <2> DEFINE p == ProviderOf[key[c]]
  <2>1. p \in Providers /\ key[c] \in Keys
    BY DEF PrepareAtProvider
  <2>2. activated' \in [Clients -> BOOLEAN]
    <3>1. PICK ok \in BOOLEAN : activated' = [activated EXCEPT ![c] = ok]
      BY <2>1 DEF PrepareAtProvider
    <3> QED
      BY <3>1
  <2>3. relaying' \in [Providers -> SUBSET Keys]
    BY <2>1 DEF PrepareAtProvider
  <2> QED
    BY <2>1, <2>2, <2>3 DEF PrepareAtProvider, routeVars, lockVars, providerVars, clientVars, operatorVars
<1>2. ClientLocals'
  BY <1>1 DEF PrepareAtProvider, routeVars, lockVars, providerVars,
    clientVars, operatorVars
<1>3. OperatorLocals'
  BY <1>1 DEF PrepareAtProvider, routeVars, lockVars, providerVars,
    clientVars, operatorVars
<1>4. MapInjective'
  BY <1>1 DEF MapInjective, OwnerEntry, PrepareAtProvider, routeVars,
    lockVars, providerVars, clientVars, operatorVars
<1>5. OwnerEntry'
  BY <1>1 DEF OwnerEntry, OwnersDistinct, MapInjective, PrepareAtProvider,
    routeVars, lockVars, providerVars, clientVars, operatorVars
<1>6. OwnersDistinct'
  BY <1>1 DEF OwnersDistinct, PrepareAtProvider, routeVars, lockVars,
    providerVars, clientVars, operatorVars
<1>7. WaiterEntry'
  BY <1>1 DEF WaiterEntry, NoLostWakeup, MapInjective, OwnerEntry,
    PrepareAtProvider, routeVars, lockVars, providerVars, clientVars,
    operatorVars
<1>8. RouteMapCurrent'
  BY <1>1 DEF RouteMapCurrent, OwnerEntry, MapInjective, PrepareAtProvider,
    routeVars, lockVars, providerVars, clientVars, operatorVars
<1>9. ExclusiveRoute'
  BY <1>1 DEF ExclusiveRoute, PrepareAtProvider, routeVars, lockVars,
    providerVars, clientVars, operatorVars
<1>10. ActivatingHasOwner'
  BY <1>1 DEF Owns, ActivatingHasOwner, OwnerEntry, OwnersDistinct,
    MapInjective, PrepareAtProvider, routeVars, lockVars, providerVars,
    clientVars, operatorVars
<1>11. NoLostWakeup'
  BY <1>1 DEF NoLostWakeup, WaiterEntry, MapInjective, OwnerEntry,
    PrepareAtProvider, routeVars, lockVars, providerVars, clientVars,
    operatorVars
<1> QED
  BY <1>1, <1>2, <1>3, <1>4, <1>5, <1>6, <1>7, <1>8, <1>9, <1>10, <1>11

\* RouteInv is preserved by the end of prepareRouteForStreaming (:328-330).
LEMMA FinishPrepareInv ==
  ASSUME RouteInv, NEW c \in Clients, FinishPrepare(c)
  PROVE  RouteInv'
<1> USE ManagerAssumption
    DEF RouteInv, TypeOK, ClientLocals, OperatorLocals, Waiting, Owning, ClientPcs
<1>1. TypeOK'
  BY DEF States, OperatorPcs, FinishPrepare, Return, routeVars, lockVars,
    providerVars, clientVars, operatorVars
<1>2. ClientLocals'
  BY <1>1 DEF FinishPrepare, Return, routeVars, lockVars, providerVars,
    clientVars, operatorVars
<1>3. OperatorLocals'
  BY <1>1 DEF FinishPrepare, Return, routeVars, lockVars, providerVars,
    clientVars, operatorVars
<1>4. MapInjective'
  BY <1>1 DEF MapInjective, OwnerEntry, FinishPrepare, Return, routeVars,
    lockVars, providerVars, clientVars, operatorVars
<1>5. OwnerEntry'
  BY <1>1 DEF OwnerEntry, OwnersDistinct, MapInjective, FinishPrepare, Return,
    routeVars, lockVars, providerVars, clientVars, operatorVars
<1>6. OwnersDistinct'
  BY <1>1 DEF OwnersDistinct, FinishPrepare, Return, routeVars, lockVars,
    providerVars, clientVars, operatorVars
<1>7. WaiterEntry'
  BY <1>1 DEF WaiterEntry, NoLostWakeup, MapInjective, OwnerEntry,
    FinishPrepare, Return, routeVars, lockVars, providerVars, clientVars,
    operatorVars
<1>8. RouteMapCurrent'
  BY <1>1 DEF RouteMapCurrent, OwnerEntry, MapInjective, FinishPrepare,
    Return, routeVars, lockVars, providerVars, clientVars, operatorVars
<1>9. ExclusiveRoute'
  BY <1>1 DEF ExclusiveRoute, FinishPrepare, Return, routeVars, lockVars,
    providerVars, clientVars, operatorVars
<1>10. ActivatingHasOwner'
  <2> SUFFICES ASSUME NEW j \in Keys, activeRoutes'[j] # None,
                      state'[activeRoutes'[j]] = "Activating"
               PROVE \E d \in Clients : Owns(d, j, activeRoutes[j])'
    BY <1>6 DEF ActivatingHasOwner, OwnersDistinct, Owns
  <2>1. PICK d \in Clients : Owns(d, j, activeRoutes[j])
    BY DEF ActivatingHasOwner, FinishPrepare, routeVars
  <2> QED
    BY <2>1 DEF Owns, FinishPrepare, Return, routeVars
<1>11. NoLostWakeup'
  BY <1>1 DEF NoLostWakeup, WaiterEntry, MapInjective, OwnerEntry,
    FinishPrepare, Return, routeVars, lockVars, providerVars, clientVars,
    operatorVars
<1> QED
  BY <1>1, <1>2, <1>3, <1>4, <1>5, <1>6, <1>7, <1>8, <1>9, <1>10, <1>11

\* RouteInv is preserved by the critical section of stopActiveProviderLocked (:155-176).
LEMMA BeginSelectInv ==
  ASSUME RouteInv, NEW o \in Operators, NEW id \in Providers \cup {None}, BeginSelect(o, id)
  PROVE  RouteInv'
<1> USE ManagerAssumption
    DEF RouteInv, TypeOK, ClientLocals, OperatorLocals, Waiting, Owning, ClientPcs
<1>1. TypeOK'
  BY DEF States, OperatorPcs, BeginSelect, NotifyAll, RoutesOf, FailAndErase,
    AfterStop, routeVars, lockVars, providerVars, clientVars, operatorVars
<1>2. ClientLocals'
  BY <1>1 DEF BeginSelect, NotifyAll, RoutesOf, FailAndErase, AfterStop,
    routeVars, lockVars, providerVars, clientVars, operatorVars
<1>3. OperatorLocals'
  BY <1>1 DEF BeginSelect, NotifyAll, RoutesOf, FailAndErase, AfterStop,
    routeVars, lockVars, providerVars, clientVars, operatorVars
<1>4. MapInjective'
  BY <1>1 DEF MapInjective, OwnerEntry, BeginSelect, NotifyAll, RoutesOf,
    FailAndErase, AfterStop, routeVars, lockVars, providerVars, clientVars,
    operatorVars
<1>5. OwnerEntry'
  BY <1>1 DEF OwnerEntry, OwnersDistinct, MapInjective, BeginSelect,
    NotifyAll, RoutesOf, FailAndErase, AfterStop, routeVars, lockVars,
    providerVars, clientVars, operatorVars
<1>6. OwnersDistinct'
  BY <1>1 DEF OwnersDistinct, BeginSelect, NotifyAll, RoutesOf, FailAndErase,
    AfterStop, routeVars, lockVars, providerVars, clientVars, operatorVars
<1>7. WaiterEntry'
  BY <1>1 DEF WaiterEntry, NoLostWakeup, MapInjective, OwnerEntry,
    BeginSelect, NotifyAll, RoutesOf, FailAndErase, AfterStop, routeVars,
    lockVars, providerVars, clientVars, operatorVars
<1>8. RouteMapCurrent'
  BY <1>1 DEF RouteMapCurrent, OwnerEntry, MapInjective, BeginSelect,
    NotifyAll, RoutesOf, FailAndErase, AfterStop, routeVars, lockVars,
    providerVars, clientVars, operatorVars
<1>9. ExclusiveRoute'
  BY <1>1 DEF ExclusiveRoute, BeginSelect, NotifyAll, RoutesOf, FailAndErase,
    AfterStop, routeVars, lockVars, providerVars, clientVars, operatorVars
<1>10. ActivatingHasOwner'
  BY <1>1 DEF Owns, ActivatingHasOwner, OwnerEntry, OwnersDistinct,
    MapInjective, BeginSelect, NotifyAll, RoutesOf, FailAndErase, AfterStop,
    routeVars, lockVars, providerVars, clientVars, operatorVars
<1>11. NoLostWakeup'
  BY <1>1 DEF NoLostWakeup, WaiterEntry, MapInjective, OwnerEntry,
    BeginSelect, NotifyAll, RoutesOf, FailAndErase, AfterStop, routeVars,
    lockVars, providerVars, clientVars, operatorVars
<1> QED
  BY <1>1, <1>2, <1>3, <1>4, <1>5, <1>6, <1>7, <1>8, <1>9, <1>10, <1>11

\* RouteInv is preserved by stopping the old provider (:177-180).
LEMMA StopAtProviderInv ==
  ASSUME RouteInv, NEW o \in Operators, StopAtProvider(o)
  PROVE  RouteInv'
<1> USE ManagerAssumption
    DEF RouteInv, TypeOK, ClientLocals, OperatorLocals, Waiting, Owning, ClientPcs
<1>1. TypeOK'
  BY DEF States, OperatorPcs, StopAtProvider, AfterStop, routeVars, lockVars,
    providerVars, clientVars, operatorVars
<1>2. ClientLocals'
  BY <1>1 DEF StopAtProvider, AfterStop, routeVars, lockVars, providerVars,
    clientVars, operatorVars
<1>3. OperatorLocals'
  BY <1>1 DEF StopAtProvider, AfterStop, routeVars, lockVars, providerVars,
    clientVars, operatorVars
<1>4. MapInjective'
  BY <1>1 DEF MapInjective, OwnerEntry, StopAtProvider, AfterStop, routeVars,
    lockVars, providerVars, clientVars, operatorVars
<1>5. OwnerEntry'
  BY <1>1 DEF OwnerEntry, OwnersDistinct, MapInjective, StopAtProvider,
    AfterStop, routeVars, lockVars, providerVars, clientVars, operatorVars
<1>6. OwnersDistinct'
  BY <1>1 DEF OwnersDistinct, StopAtProvider, AfterStop, routeVars, lockVars,
    providerVars, clientVars, operatorVars
<1>7. WaiterEntry'
  BY <1>1 DEF WaiterEntry, NoLostWakeup, MapInjective, OwnerEntry,
    StopAtProvider, AfterStop, routeVars, lockVars, providerVars, clientVars,
    operatorVars
<1>8. RouteMapCurrent'
  BY <1>1 DEF RouteMapCurrent, OwnerEntry, MapInjective, StopAtProvider,
    AfterStop, routeVars, lockVars, providerVars, clientVars, operatorVars
<1>9. ExclusiveRoute'
  BY <1>1 DEF ExclusiveRoute, StopAtProvider, AfterStop, routeVars, lockVars,
    providerVars, clientVars, operatorVars
<1>10. ActivatingHasOwner'
  BY <1>1 DEF Owns, ActivatingHasOwner, OwnerEntry, OwnersDistinct,
    MapInjective, StopAtProvider, AfterStop, routeVars, lockVars,
    providerVars, clientVars, operatorVars
<1>11. NoLostWakeup'
  BY <1>1 DEF NoLostWakeup, WaiterEntry, MapInjective, OwnerEntry,
    StopAtProvider, AfterStop, routeVars, lockVars, providerVars, clientVars,
    operatorVars
<1> QED
  BY <1>1, <1>2, <1>3, <1>4, <1>5, <1>6, <1>7, <1>8, <1>9, <1>10, <1>11

\* RouteInv is preserved by starting the selected provider (:130-140).
LEMMA StartAtProviderInv ==
  ASSUME RouteInv, NEW o \in Operators, StartAtProvider(o)
  PROVE  RouteInv'
<1> USE ManagerAssumption
    DEF RouteInv, TypeOK, ClientLocals, OperatorLocals, Waiting, Owning, ClientPcs
<1>1. TypeOK'
  BY DEF States, OperatorPcs, StartAtProvider, routeVars, lockVars,
    providerVars, clientVars, operatorVars
<1>2. ClientLocals'
  BY <1>1 DEF StartAtProvider, routeVars, lockVars, providerVars, clientVars,
    operatorVars
<1>3. OperatorLocals'
  BY <1>1 DEF StartAtProvider, routeVars, lockVars, providerVars, clientVars,
    operatorVars
<1>4. MapInjective'
  BY <1>1 DEF MapInjective, OwnerEntry, StartAtProvider, routeVars, lockVars,
    providerVars, clientVars, operatorVars
<1>5. OwnerEntry'
  BY <1>1 DEF OwnerEntry, OwnersDistinct, MapInjective, StartAtProvider,
    routeVars, lockVars, providerVars, clientVars, operatorVars
<1>6. OwnersDistinct'
  BY <1>1 DEF OwnersDistinct, StartAtProvider, routeVars, lockVars,
    providerVars, clientVars, operatorVars
<1>7. WaiterEntry'
  BY <1>1 DEF WaiterEntry, NoLostWakeup, MapInjective, OwnerEntry,
    StartAtProvider, routeVars, lockVars, providerVars, clientVars,
    operatorVars
<1>8. RouteMapCurrent'
  BY <1>1 DEF RouteMapCurrent, OwnerEntry, MapInjective, StartAtProvider,
    routeVars, lockVars, providerVars, clientVars, operatorVars
<1>9. ExclusiveRoute'
  BY <1>1 DEF ExclusiveRoute, StartAtProvider, routeVars, lockVars,
    providerVars, clientVars, operatorVars
<1>10. ActivatingHasOwner'
  BY <1>1 DEF Owns, ActivatingHasOwner, OwnerEntry, OwnersDistinct,
    MapInjective, StartAtProvider, routeVars, lockVars, providerVars,
    clientVars, operatorVars
<1>11. NoLostWakeup'
  BY <1>1 DEF NoLostWakeup, WaiterEntry, MapInjective, OwnerEntry,
    StartAtProvider, routeVars, lockVars, providerVars, clientVars,
    operatorVars
<1> QED
  BY <1>1, <1>2, <1>3, <1>4, <1>5, <1>6, <1>7, <1>8, <1>9, <1>10, <1>11

\* RouteInv is preserved by publishing the started provider (:141-145).
LEMMA PublishProviderInv ==
  ASSUME RouteInv, NEW o \in Operators, PublishProvider(o)
  PROVE  RouteInv'
<1> USE ManagerAssumption
    DEF RouteInv, TypeOK, ClientLocals, OperatorLocals, Waiting, Owning, ClientPcs
<1>1. TypeOK'
  BY DEF States, OperatorPcs, PublishProvider, routeVars, lockVars,
    providerVars, clientVars, operatorVars
<1>2. ClientLocals'
  BY <1>1 DEF PublishProvider, routeVars, lockVars, providerVars, clientVars,
    operatorVars
<1>3. OperatorLocals'
  BY <1>1 DEF PublishProvider, routeVars, lockVars, providerVars, clientVars,
    operatorVars
<1>4. MapInjective'
  BY <1>1 DEF MapInjective, OwnerEntry, PublishProvider, routeVars, lockVars,
    providerVars, clientVars, operatorVars
<1>5. OwnerEntry'
  BY <1>1 DEF OwnerEntry, OwnersDistinct, MapInjective, PublishProvider,
    routeVars, lockVars, providerVars, clientVars, operatorVars
<1>6. OwnersDistinct'
  BY <1>1 DEF OwnersDistinct, PublishProvider, routeVars, lockVars,
    providerVars, clientVars, operatorVars
<1>7. WaiterEntry'
  BY <1>1 DEF WaiterEntry, NoLostWakeup, MapInjective, OwnerEntry,
    PublishProvider, routeVars, lockVars, providerVars, clientVars,
    operatorVars
<1>8. RouteMapCurrent'
  BY <1>1 DEF RouteMapCurrent, OwnerEntry, MapInjective, PublishProvider,
    routeVars, lockVars, providerVars, clientVars, operatorVars
<1>9. ExclusiveRoute'
  BY <1>1 DEF ExclusiveRoute, PublishProvider, routeVars, lockVars,
    providerVars, clientVars, operatorVars
<1>10. ActivatingHasOwner'
  BY <1>1 DEF Owns, ActivatingHasOwner, OwnerEntry, OwnersDistinct,
    MapInjective, PublishProvider, routeVars, lockVars, providerVars,
    clientVars, operatorVars
<1>11. NoLostWakeup'
  BY <1>1 DEF NoLostWakeup, WaiterEntry, MapInjective, OwnerEntry,
    PublishProvider, routeVars, lockVars, providerVars, clientVars,
    operatorVars
<1> QED
  BY <1>1, <1>2, <1>3, <1>4, <1>5, <1>6, <1>7, <1>8, <1>9, <1>10, <1>11

\* RouteInv survives a step that changes nothing.
LEMMA StutterInv == RouteInv /\ UNCHANGED vars => RouteInv'
BY DEF RouteInv, TypeOK, ClientLocals, OperatorLocals, MapInjective, OwnerEntry,
  OwnersDistinct, WaiterEntry, RouteMapCurrent, ExclusiveRoute,
  ActivatingHasOwner, Owns, NoLostWakeup, vars, routeVars, lockVars, providerVars, clientVars, operatorVars

\* RouteInv holds in every reachable state: the bookkeeping of mutex_, the
\* provider calls and the lifecycle transactions never get out of step.
THEOREM RouteInvariant == Spec => []RouteInv
<1>1. Init => RouteInv
  BY InitRouteInv
<1>2. RouteInv /\ [Next]_vars => RouteInv'
  <2> SUFFICES ASSUME RouteInv, [Next]_vars PROVE RouteInv'
    OBVIOUS
  <2>1. ASSUME NEW c \in Clients, NEW k \in Keys,
               JoinRoute(c, k) \/ CreateRoute(c, k)
        PROVE  RouteInv'
    BY <2>1, JoinRouteInv, CreateRouteInv
  <2>2. ASSUME NEW c \in Clients,
               ReleaseRoute(c) \/ PrepareRoute(c) \/ SpuriousWakeup(c)
        PROVE  RouteInv'
    BY <2>2, ReleaseRouteInv, PrepareRouteInv, SpuriousWakeupInv
  <2>3. ASSUME NEW c \in Clients, ClientStep(c) PROVE RouteInv'
    BY <2>3, RecheckInv, ActivateAtProviderInv, CommitRouteInv,
       ReleaseAtProviderInv, PrepareAtProviderInv, FinishPrepareInv
    DEF ClientStep
  <2>4. ASSUME NEW o \in Operators, NEW id \in Providers \cup {None},
               BeginSelect(o, id)
        PROVE  RouteInv'
    BY <2>4, BeginSelectInv
  <2>5. ASSUME NEW o \in Operators, OperatorStep(o) PROVE RouteInv'
    BY <2>5, StopAtProviderInv, StartAtProviderInv, PublishProviderInv
    DEF OperatorStep
  <2>6. CASE UNCHANGED vars
    BY <2>6, StutterInv
  <2> QED
    BY <2>1, <2>2, <2>3, <2>4, <2>5, <2>6 DEF Next, Quiescent
<1> QED
  BY <1>1, <1>2, PTL DEF Spec

\* Type correctness of the route manager for every instance.
THEOREM TypeCorrect == Spec => []TypeOK
<1>1. RouteInv => TypeOK
  BY DEF RouteInv
<1> QED
  BY <1>1, RouteInvariant, PTL

\* No route of a stopped, replaced or restarted provider stays in the map.
THEOREM RouteMapCurrentAlways == Spec => []RouteMapCurrent
<1>1. RouteInv => RouteMapCurrent
  BY DEF RouteInv
<1> QED
  BY <1>1, RouteInvariant, PTL

\* Concurrent activations never leave two routes of an exclusive provider.
THEOREM ExclusiveRouteAlways == Spec => []ExclusiveRoute
<1>1. RouteInv => ExclusiveRoute
  BY DEF RouteInv
<1> QED
  BY <1>1, RouteInvariant, PTL

\* A client never sleeps on an activation nobody will finish: the entry it
\* waits for is Activating, mapped, and has exactly one owner.
THEOREM NoLostWakeupAlways == Spec => [](NoLostWakeup /\ ActivatingHasOwner)
<1>1. RouteInv => NoLostWakeup /\ ActivatingHasOwner
  BY DEF RouteInv
<1> QED
  BY <1>1, RouteInvariant, PTL

\* ProxyInv is preserved by JoinRoute.
LEMMA JoinRouteProxy ==
  ASSUME ProxyInv, NEW c \in Clients, NEW k \in Keys, JoinRoute(c, k)
  PROVE  (RetiredOwn /\ ServesOwnKeys /\ NoOrphanProxy)'
<1> USE ManagerAssumption
    DEF ProxyInv, RouteInv, TypeOK, ClientLocals, OperatorLocals, ClientPcs,
        Waiting, Owning
<1>1. RetiredOwn'
  BY DEF RetiredOwn, JoinRoute, Admit, routeVars, lockVars, providerVars,
    clientVars, operatorVars
<1>2. ServesOwnKeys'
  BY DEF ServesOwnKeys, JoinRoute, Admit, routeVars, lockVars, providerVars,
    clientVars, operatorVars
<1>3. NoOrphanProxy'
  <2> SUFFICES ASSUME NEW p \in Providers, NEW j \in serving'[p]
               PROVE  Accounted(p, j)'
    BY DEF NoOrphanProxy
  <2>1. j \in Keys /\ Accounted(p, j)
    BY DEF JoinRoute, providerVars, NoOrphanProxy
  <2>2. ASSUME NEW d \in Clients, WillSettle(d, j) PROVE Accounted(p, j)'
    <3>1. d # c
      BY <2>2 DEF WillSettle, JoinRoute
    <3>2. WillSettle(d, j)'
      BY <2>2, <3>1 DEF WillSettle, JoinRoute
    <3> QED
      BY <3>2 DEF Accounted
  <2> QED
    BY <2>1, <2>2 DEF Accounted, MappedActive, JoinRoute, operatorVars
<1> QED
  BY <1>1, <1>2, <1>3

\* ProxyInv is preserved by CreateRoute.
LEMMA CreateRouteProxy ==
  ASSUME ProxyInv, NEW c \in Clients, NEW k \in Keys, CreateRoute(c, k)
  PROVE  (RetiredOwn /\ ServesOwnKeys /\ NoOrphanProxy)'
<1> USE ManagerAssumption
    DEF ProxyInv, RouteInv, TypeOK, ClientLocals, OperatorLocals, ClientPcs,
        Waiting, Owning
<1>1. RetiredOwn'
  BY DEF RetiredOwn, CreateRoute, NotifyAll, RoutesOf, FreeEntries, Live,
    ReplacedRoutes, InitialReferences, routeVars, lockVars, providerVars,
    clientVars, operatorVars
<1>2. ServesOwnKeys'
  BY DEF ServesOwnKeys, CreateRoute, NotifyAll, RoutesOf, FreeEntries, Live,
    ReplacedRoutes, InitialReferences, routeVars, lockVars, providerVars,
    clientVars, operatorVars
<1>3. NoOrphanProxy'
  <2> SUFFICES ASSUME NEW p \in Providers, NEW j \in serving'[p]
               PROVE  Accounted(p, j)'
    BY DEF NoOrphanProxy
  <2>1. j \in Keys /\ Accounted(p, j)
    BY DEF CreateRoute, providerVars, NoOrphanProxy
  <2>2. CASE MappedActive(j) /\ j \in ReplacedRoutes(ProviderOf[k])
    <3>1. WillSettle(c, j)'
      BY <2>1, <2>2 DEF CreateRoute, NotifyAll, WillSettle, MappedActive
    <3> QED
      BY <3>1 DEF Accounted
  <2>3. CASE MappedActive(j) /\ j \notin ReplacedRoutes(ProviderOf[k])
    <3>1. activeRoutes'[j] = activeRoutes[j] /\ activeRoutes[j] \in Entries
      BY <2>1, <2>3 DEF CreateRoute, MappedActive
    <3>2. state'[activeRoutes[j]] = "Active"
      BY <2>1, <2>3, <3>1
      DEF CreateRoute, MappedActive, MapInjective, FreeEntries, Live,
          ReplacedRoutes, RoutesOf
    <3> QED
      BY <3>1, <3>2 DEF Accounted, MappedActive
  <2>4. ASSUME NEW d \in Clients, WillSettle(d, j) PROVE Accounted(p, j)'
    <3>1. d # c
      BY <2>4 DEF WillSettle, CreateRoute
    <3>2. WillSettle(d, j)'
      BY <2>4, <3>1 DEF WillSettle, CreateRoute, NotifyAll
    <3> QED
      BY <3>2 DEF Accounted
  <2> QED
    BY <2>1, <2>2, <2>3, <2>4 DEF Accounted, CreateRoute, operatorVars
<1> QED
  BY <1>1, <1>2, <1>3

\* ProxyInv is preserved by ReleaseRoute.
LEMMA ReleaseRouteProxy ==
  ASSUME ProxyInv, NEW c \in Clients, ReleaseRoute(c)
  PROVE  (RetiredOwn /\ ServesOwnKeys /\ NoOrphanProxy)'
<1> USE ManagerAssumption
    DEF ProxyInv, RouteInv, TypeOK, ClientLocals, OperatorLocals, ClientPcs,
        Waiting, Owning
<1>1. RetiredOwn'
  BY DEF RetiredOwn, ReleaseRoute, LastReference, routeVars, lockVars,
    providerVars, clientVars, operatorVars
<1>2. ServesOwnKeys'
  BY DEF ServesOwnKeys, ReleaseRoute, LastReference, routeVars, lockVars,
    providerVars, clientVars, operatorVars
<1>3. NoOrphanProxy'
  <2> SUFFICES ASSUME NEW p \in Providers, NEW j \in serving'[p]
               PROVE  Accounted(p, j)'
    BY DEF NoOrphanProxy
  <2>1. j \in Keys /\ lease[c] \in Keys /\ Accounted(p, j)
    BY DEF ReleaseRoute, providerVars, NoOrphanProxy
  <2>2. CASE MappedActive(j) /\ activeRoutes'[j] = activeRoutes[j]
    BY <2>2 DEF Accounted, MappedActive, ReleaseRoute
  <2>3. CASE MappedActive(j) /\ activeRoutes'[j] # activeRoutes[j]
    <3>1. j = lease[c] /\ activeProviderId = ProviderOf[j]
      BY <2>1, <2>3 DEF ReleaseRoute, RouteMapCurrent, MappedActive
    <3>2. WillSettle(c, j)'
      BY <2>1, <2>3, <3>1 DEF ReleaseRoute, WillSettle, LastReference
    <3> QED
      BY <3>2 DEF Accounted
  <2>4. ASSUME NEW d \in Clients, WillSettle(d, j) PROVE Accounted(p, j)'
    <3>1. d # c
      BY <2>4 DEF WillSettle, ReleaseRoute
    <3>2. WillSettle(d, j)'
      BY <2>4, <3>1 DEF WillSettle, ReleaseRoute
    <3> QED
      BY <3>2 DEF Accounted
  <2> QED
    BY <2>1, <2>2, <2>3, <2>4 DEF Accounted, ReleaseRoute, operatorVars
<1> QED
  BY <1>1, <1>2, <1>3

\* ProxyInv is preserved by PrepareRoute.
LEMMA PrepareRouteProxy ==
  ASSUME ProxyInv, NEW c \in Clients, PrepareRoute(c)
  PROVE  (RetiredOwn /\ ServesOwnKeys /\ NoOrphanProxy)'
<1> USE ManagerAssumption
    DEF ProxyInv, RouteInv, TypeOK, ClientLocals, OperatorLocals, ClientPcs,
        Waiting, Owning
<1>1. RetiredOwn'
  BY DEF RetiredOwn, PrepareRoute, routeVars, lockVars, providerVars,
    clientVars, operatorVars
<1>2. ServesOwnKeys'
  BY DEF ServesOwnKeys, PrepareRoute, routeVars, lockVars, providerVars,
    clientVars, operatorVars
<1>3. NoOrphanProxy'
  BY DEF ServesOwnKeys, NoOrphanProxy, Accounted, MappedActive, WillSettle,
    PrepareRoute, routeVars, lockVars, providerVars, clientVars, operatorVars
<1> QED
  BY <1>1, <1>2, <1>3

\* ProxyInv is preserved by SpuriousWakeup.
LEMMA SpuriousWakeupProxy ==
  ASSUME ProxyInv, NEW c \in Clients, SpuriousWakeup(c)
  PROVE  (RetiredOwn /\ ServesOwnKeys /\ NoOrphanProxy)'
<1> USE ManagerAssumption
    DEF ProxyInv, RouteInv, TypeOK, ClientLocals, OperatorLocals, ClientPcs,
        Waiting, Owning
<1>1. RetiredOwn'
  BY DEF RetiredOwn, SpuriousWakeup, routeVars, lockVars, providerVars,
    clientVars, operatorVars
<1>2. ServesOwnKeys'
  BY DEF ServesOwnKeys, SpuriousWakeup, routeVars, lockVars, providerVars,
    clientVars, operatorVars
<1>3. NoOrphanProxy'
  BY DEF ServesOwnKeys, NoOrphanProxy, Accounted, MappedActive, WillSettle,
    SpuriousWakeup, routeVars, lockVars, providerVars, clientVars,
    operatorVars
<1> QED
  BY <1>1, <1>2, <1>3

\* ProxyInv is preserved by Recheck.
LEMMA RecheckProxy ==
  ASSUME ProxyInv, NEW c \in Clients, Recheck(c)
  PROVE  (RetiredOwn /\ ServesOwnKeys /\ NoOrphanProxy)'
<1> USE ManagerAssumption
    DEF ProxyInv, RouteInv, TypeOK, ClientLocals, OperatorLocals, ClientPcs,
        Waiting, Owning
<1>1. RetiredOwn'
  BY DEF RetiredOwn, Recheck, Admit, Return, routeVars, lockVars,
    providerVars, clientVars, operatorVars
<1>2. ServesOwnKeys'
  BY DEF ServesOwnKeys, Recheck, Admit, Return, routeVars, lockVars,
    providerVars, clientVars, operatorVars
<1>3. NoOrphanProxy'
  <2> SUFFICES ASSUME NEW p \in Providers, NEW j \in serving'[p]
               PROVE  Accounted(p, j)'
    BY DEF NoOrphanProxy
  <2>1. j \in Keys /\ Accounted(p, j)
    BY DEF Recheck, providerVars, NoOrphanProxy
  <2>2. ASSUME NEW d \in Clients, WillSettle(d, j) PROVE Accounted(p, j)'
    <3>1. d # c
      BY <2>2 DEF WillSettle, Recheck
    <3>2. WillSettle(d, j)'
      BY <2>2, <3>1 DEF WillSettle, Recheck, Return
    <3> QED
      BY <3>2 DEF Accounted
  <2> QED
    BY <2>1, <2>2 DEF Accounted, MappedActive, Recheck, operatorVars
<1> QED
  BY <1>1, <1>2, <1>3

\* ProxyInv is preserved by ActivateAtProvider.
LEMMA ActivateAtProviderProxy ==
  ASSUME ProxyInv, NEW c \in Clients, ActivateAtProvider(c)
  PROVE  (RetiredOwn /\ ServesOwnKeys /\ NoOrphanProxy)'
<1> USE ManagerAssumption
    DEF ProxyInv, RouteInv, TypeOK, ClientLocals, OperatorLocals, ClientPcs,
        Waiting, Owning
<1>1. RetiredOwn'
  BY DEF RetiredOwn, ActivateAtProvider, ActivateOutcomes, routeVars,
    lockVars, providerVars, clientVars, operatorVars
<1>2. ServesOwnKeys'
  BY DEF ServesOwnKeys, ActivateAtProvider, ActivateOutcomes, routeVars,
    lockVars, providerVars, clientVars, operatorVars
<1>3. NoOrphanProxy'
  <2> SUFFICES ASSUME NEW p \in Providers, NEW j \in serving'[p]
               PROVE  Accounted(p, j)'
    BY DEF NoOrphanProxy
  <2>1. PICK r \in ActivateOutcomes(ProviderOf[key[c]], key[c],
                                   serving[ProviderOf[key[c]]] \ retired[c]) :
          /\ serving' = [serving EXCEPT ![ProviderOf[key[c]]] = r.serving]
          /\ activated' = [activated EXCEPT ![c] = r.ok]
    BY DEF ActivateAtProvider
  <2>2. \/ j \in serving[p] \ retired[c]
        \/ p # ProviderOf[key[c]] /\ j \in serving[p]
        \/ j = key[c] /\ r.ok
    BY <2>1 DEF ActivateOutcomes, ActivateAtProvider
  <2>3. CASE j = key[c] /\ r.ok
    <3>1. activated'[c]
      BY <2>1, <2>3
    <3>2. pc'[c] = "commit" /\ key'[c] = j
      BY <2>3 DEF ActivateAtProvider
    <3> QED
      BY <3>1, <3>2 DEF Accounted, WillSettle
  <2>4. ASSUME j \in serving[p], NEW d \in Clients, WillSettle(d, j), d # c
        PROVE  Accounted(p, j)'
    <3>1. WillSettle(d, j)'
      BY <2>4 DEF WillSettle, ActivateAtProvider
    <3> QED
      BY <3>1 DEF Accounted
  <2>5. ASSUME j \in serving[p], WillSettle(c, j) PROVE Accounted(p, j)'
    <3>1. j \in retired[c] /\ j \in Keys
      BY <2>5 DEF WillSettle, ActivateAtProvider
    <3>2. p # ProviderOf[key[c]] \/ (j = key[c] /\ r.ok)
      BY <2>2, <3>1
    <3>3. ProviderOf[j] = ProviderOf[key[c]]
      BY <3>1 DEF RetiredOwn, ActivateAtProvider
    <3> QED
      BY <2>3, <2>5, <3>2, <3>3 DEF ServesOwnKeys
  <2> QED
    BY <2>2, <2>3, <2>4, <2>5
    DEF NoOrphanProxy, Accounted, MappedActive, ActivateAtProvider, routeVars,
        operatorVars
<1> QED
  BY <1>1, <1>2, <1>3

\* ProxyInv is preserved by CommitRoute.
LEMMA CommitRouteProxy ==
  ASSUME ProxyInv, NEW c \in Clients, CommitRoute(c)
  PROVE  (RetiredOwn /\ ServesOwnKeys /\ NoOrphanProxy)'
<1> USE ManagerAssumption
    DEF ProxyInv, RouteInv, TypeOK, ClientLocals, OperatorLocals, ClientPcs,
        Waiting, Owning
<1>1. RetiredOwn'
  BY DEF RetiredOwn, CommitRoute, Return, NotifyAll, GenerationMatches,
    StaleActivation, routeVars, lockVars, providerVars, clientVars,
    operatorVars
<1>2. ServesOwnKeys'
  BY DEF ServesOwnKeys, CommitRoute, Return, NotifyAll, GenerationMatches,
    StaleActivation, routeVars, lockVars, providerVars, clientVars,
    operatorVars
<1>3. NoOrphanProxy'
  <2> SUFFICES ASSUME NEW p \in Providers, NEW j \in serving'[p]
               PROVE  Accounted(p, j)'
    BY DEF NoOrphanProxy
  <2>1. /\ j \in Keys /\ j \in serving[p] /\ ProviderOf[j] = p
        /\ entry[c] \in Entries /\ key[c] \in Keys
    BY DEF CommitRoute, ServesOwnKeys
  <2>2. Accounted(p, j)
    BY <2>1 DEF NoOrphanProxy
  <2>3. CASE MappedActive(j)
    <3>1. activeRoutes[j] \in Entries /\ activeRoutes[j] # entry[c]
      BY <2>1, <2>3 DEF MappedActive, OwnerEntry, CommitRoute
    <3>2. activeRoutes'[j] = activeRoutes[j] /\ state'[activeRoutes[j]] = "Active"
      BY <2>1, <2>3, <3>1 DEF MappedActive, CommitRoute
    <3> QED
      BY <3>1, <3>2 DEF Accounted, MappedActive
  <2>4. ASSUME NEW d \in Clients, WillSettle(d, j), d # c
        PROVE  Accounted(p, j)'
    <3>1. WillSettle(d, j)'
      BY <2>4 DEF WillSettle, CommitRoute, NotifyAll, Return
    <3> QED
      BY <3>1 DEF Accounted
  <2>5. CASE WillSettle(c, j)
    <3>1. key[c] = j /\ activated[c]
      BY <2>5 DEF WillSettle, CommitRoute
    <3>2. ~StaleActivation(c)
      BY <2>1, <3>1 DEF CommitRoute
    <3>3. GenerationMatches(c)
      BY <3>1, <3>2 DEF StaleActivation
    <3>4. activeRoutes'[j] = entry[c] /\ state'[entry[c]] = "Active"
      BY <2>1, <3>1, <3>3 DEF CommitRoute, GenerationMatches
    <3> QED
      BY <2>1, <3>4 DEF Accounted, MappedActive
  <2> QED
    BY <2>2, <2>3, <2>4, <2>5 DEF Accounted, CommitRoute, operatorVars
<1> QED
  BY <1>1, <1>2, <1>3

\* ProxyInv is preserved by ReleaseAtProvider.
LEMMA ReleaseAtProviderProxy ==
  ASSUME ProxyInv, NEW c \in Clients, ReleaseAtProvider(c)
  PROVE  (RetiredOwn /\ ServesOwnKeys /\ NoOrphanProxy)'
<1> USE ManagerAssumption
    DEF ProxyInv, RouteInv, TypeOK, ClientLocals, OperatorLocals, ClientPcs,
        Waiting, Owning
<1>1. RetiredOwn'
  BY DEF RetiredOwn, ReleaseAtProvider, Return, routeVars, lockVars,
    providerVars, clientVars, operatorVars
<1>2. ServesOwnKeys'
  BY DEF ServesOwnKeys, ReleaseAtProvider, Return, routeVars, lockVars,
    providerVars, clientVars, operatorVars
<1>3. NoOrphanProxy'
  <2> SUFFICES ASSUME NEW p \in Providers, NEW j \in serving'[p]
               PROVE  Accounted(p, j)'
    BY DEF NoOrphanProxy
  <2>1. /\ j \in Keys /\ j \in serving[p] /\ ProviderOf[j] = p
        /\ p = ProviderOf[key[c]] => j # key[c]
    BY DEF ReleaseAtProvider, ServesOwnKeys
  <2>2. Accounted(p, j)
    BY <2>1 DEF NoOrphanProxy
  <2>3. ASSUME NEW d \in Clients, WillSettle(d, j) PROVE Accounted(p, j)'
    <3>1. d # c
      BY <2>1, <2>3 DEF WillSettle, ReleaseAtProvider
    <3>2. WillSettle(d, j)'
      BY <2>3, <3>1 DEF WillSettle, ReleaseAtProvider, Return
    <3> QED
      BY <3>2 DEF Accounted
  <2> QED
    BY <2>2, <2>3
    DEF Accounted, MappedActive, ReleaseAtProvider, routeVars, operatorVars
<1> QED
  BY <1>1, <1>2, <1>3

\* ProxyInv is preserved by PrepareAtProvider.
LEMMA PrepareAtProviderProxy ==
  ASSUME ProxyInv, NEW c \in Clients, PrepareAtProvider(c)
  PROVE  (RetiredOwn /\ ServesOwnKeys /\ NoOrphanProxy)'
<1> USE ManagerAssumption
    DEF ProxyInv, RouteInv, TypeOK, ClientLocals, OperatorLocals, ClientPcs,
        Waiting, Owning
<1>1. RetiredOwn'
  BY DEF RetiredOwn, PrepareAtProvider, routeVars, lockVars, providerVars,
    clientVars, operatorVars
<1>2. ServesOwnKeys'
  BY DEF ServesOwnKeys, PrepareAtProvider, routeVars, lockVars, providerVars,
    clientVars, operatorVars
<1>3. NoOrphanProxy'
  BY DEF ServesOwnKeys, NoOrphanProxy, Accounted, MappedActive, WillSettle,
    PrepareAtProvider, routeVars, lockVars, providerVars, clientVars,
    operatorVars
<1> QED
  BY <1>1, <1>2, <1>3

\* ProxyInv is preserved by FinishPrepare.
LEMMA FinishPrepareProxy ==
  ASSUME ProxyInv, NEW c \in Clients, FinishPrepare(c)
  PROVE  (RetiredOwn /\ ServesOwnKeys /\ NoOrphanProxy)'
<1> USE ManagerAssumption
    DEF ProxyInv, RouteInv, TypeOK, ClientLocals, OperatorLocals, ClientPcs,
        Waiting, Owning
<1>1. RetiredOwn'
  BY DEF RetiredOwn, FinishPrepare, Return, routeVars, lockVars, providerVars,
    clientVars, operatorVars
<1>2. ServesOwnKeys'
  BY DEF ServesOwnKeys, FinishPrepare, Return, routeVars, lockVars,
    providerVars, clientVars, operatorVars
<1>3. NoOrphanProxy'
  <2> SUFFICES ASSUME NEW p \in Providers, NEW j \in serving'[p]
               PROVE  Accounted(p, j)'
    BY DEF NoOrphanProxy
  <2>1. j \in Keys /\ Accounted(p, j)
    BY DEF FinishPrepare, providerVars, NoOrphanProxy
  <2>2. ASSUME NEW d \in Clients, WillSettle(d, j) PROVE Accounted(p, j)'
    <3>1. d # c
      BY <2>2 DEF WillSettle, FinishPrepare
    <3>2. WillSettle(d, j)'
      BY <2>2, <3>1 DEF WillSettle, FinishPrepare, Return
    <3> QED
      BY <3>2 DEF Accounted
  <2> QED
    BY <2>1, <2>2
    DEF Accounted, MappedActive, FinishPrepare, routeVars, operatorVars
<1> QED
  BY <1>1, <1>2, <1>3

\* ProxyInv is preserved by BeginSelect.
LEMMA BeginSelectProxy ==
  ASSUME ProxyInv, NEW o \in Operators, NEW id \in Providers \cup {None}, BeginSelect(o, id)
  PROVE  (RetiredOwn /\ ServesOwnKeys /\ NoOrphanProxy)'
<1> USE ManagerAssumption
    DEF ProxyInv, RouteInv, TypeOK, ClientLocals, OperatorLocals, ClientPcs,
        Waiting, Owning
<1>1. RetiredOwn'
  BY DEF RetiredOwn, BeginSelect, NotifyAll, RoutesOf, FailAndErase,
    AfterStop, routeVars, lockVars, providerVars, clientVars, operatorVars
<1>2. ServesOwnKeys'
  BY DEF ServesOwnKeys, BeginSelect, NotifyAll, RoutesOf, FailAndErase,
    AfterStop, routeVars, lockVars, providerVars, clientVars, operatorVars
<1>3. NoOrphanProxy'
  <2> SUFFICES ASSUME NEW p \in Providers, NEW j \in serving'[p]
               PROVE  Accounted(p, j)'
    BY DEF NoOrphanProxy
  <2>1. j \in Keys /\ ProviderOf[j] = p /\ Accounted(p, j)
    BY DEF BeginSelect, providerVars, NoOrphanProxy, ServesOwnKeys
  <2>2. CASE MappedActive(j)
    <3>1. activeProviderId = p
      BY <2>1, <2>2 DEF MappedActive, RouteMapCurrent
    <3>2. opPc'[o] = "stop" /\ opOld'[o] = p
      BY <3>1 DEF BeginSelect
    <3> QED
      BY <3>2 DEF Accounted
  <2>3. ASSUME NEW d \in Clients, WillSettle(d, j) PROVE Accounted(p, j)'
    <3>1. WillSettle(d, j)'
      BY <2>3 DEF WillSettle, BeginSelect, NotifyAll
    <3> QED
      BY <3>1 DEF Accounted
  <2>4. ASSUME NEW x \in Operators, opPc[x] = "stop"
        PROVE  FALSE
    BY <2>4 DEF BeginSelect
  <2> QED
    BY <2>1, <2>2, <2>3, <2>4 DEF Accounted
<1> QED
  BY <1>1, <1>2, <1>3

\* ProxyInv is preserved by StopAtProvider.
LEMMA StopAtProviderProxy ==
  ASSUME ProxyInv, NEW o \in Operators, StopAtProvider(o)
  PROVE  (RetiredOwn /\ ServesOwnKeys /\ NoOrphanProxy)'
<1> USE ManagerAssumption
    DEF ProxyInv, RouteInv, TypeOK, ClientLocals, OperatorLocals, ClientPcs,
        Waiting, Owning
<1>1. RetiredOwn'
  BY DEF RetiredOwn, StopAtProvider, AfterStop, routeVars, lockVars,
    providerVars, clientVars, operatorVars
<1>2. ServesOwnKeys'
  BY DEF ServesOwnKeys, StopAtProvider, AfterStop, routeVars, lockVars,
    providerVars, clientVars, operatorVars
<1>3. NoOrphanProxy'
  BY DEF ServesOwnKeys, NoOrphanProxy, Accounted, MappedActive, WillSettle,
    StopAtProvider, AfterStop, routeVars, lockVars, providerVars, clientVars,
    operatorVars
<1> QED
  BY <1>1, <1>2, <1>3

\* ProxyInv is preserved by StartAtProvider.
LEMMA StartAtProviderProxy ==
  ASSUME ProxyInv, NEW o \in Operators, StartAtProvider(o)
  PROVE  (RetiredOwn /\ ServesOwnKeys /\ NoOrphanProxy)'
<1> USE ManagerAssumption
    DEF ProxyInv, RouteInv, TypeOK, ClientLocals, OperatorLocals, ClientPcs,
        Waiting, Owning
<1>1. RetiredOwn'
  BY DEF RetiredOwn, StartAtProvider, routeVars, lockVars, providerVars,
    clientVars, operatorVars
<1>2. ServesOwnKeys'
  BY DEF ServesOwnKeys, StartAtProvider, routeVars, lockVars, providerVars,
    clientVars, operatorVars
<1>3. NoOrphanProxy'
  <2> SUFFICES ASSUME NEW p \in Providers, NEW j \in serving'[p]
               PROVE  Accounted(p, j)'
    BY DEF NoOrphanProxy
  <2>1. j \in Keys /\ Accounted(p, j)
    BY DEF StartAtProvider, providerVars, NoOrphanProxy
  <2>2. ASSUME NEW d \in Clients, WillSettle(d, j) PROVE Accounted(p, j)'
    BY <2>2 DEF WillSettle, Accounted, StartAtProvider, clientVars
  <2>3. ASSUME NEW x \in Operators, opPc[x] = "stop" PROVE FALSE
    <3>1. lifecycleMutex = x /\ lifecycleMutex = o
      BY <2>3 DEF StartAtProvider
    <3> QED
      BY <2>3, <3>1 DEF StartAtProvider
  <2>4. CASE MappedActive(j)
    BY <2>4 DEF MappedActive, Accounted, StartAtProvider, routeVars
  <2> QED
    BY <2>1, <2>2, <2>3, <2>4 DEF Accounted
<1> QED
  BY <1>1, <1>2, <1>3

\* ProxyInv is preserved by PublishProvider.
LEMMA PublishProviderProxy ==
  ASSUME ProxyInv, NEW o \in Operators, PublishProvider(o)
  PROVE  (RetiredOwn /\ ServesOwnKeys /\ NoOrphanProxy)'
<1> USE ManagerAssumption
    DEF ProxyInv, RouteInv, TypeOK, ClientLocals, OperatorLocals, ClientPcs,
        Waiting, Owning
<1>1. RetiredOwn'
  BY DEF RetiredOwn, PublishProvider, routeVars, lockVars, providerVars,
    clientVars, operatorVars
<1>2. ServesOwnKeys'
  BY DEF ServesOwnKeys, PublishProvider, routeVars, lockVars, providerVars,
    clientVars, operatorVars
<1>3. NoOrphanProxy'
  <2> SUFFICES ASSUME NEW p \in Providers, NEW j \in serving'[p]
               PROVE  Accounted(p, j)'
    BY DEF NoOrphanProxy
  <2>1. j \in Keys /\ Accounted(p, j)
    BY DEF PublishProvider, providerVars, NoOrphanProxy
  <2>2. ASSUME NEW d \in Clients, WillSettle(d, j) PROVE Accounted(p, j)'
    BY <2>2 DEF WillSettle, Accounted, PublishProvider, clientVars
  <2>3. ASSUME NEW x \in Operators, opPc[x] = "stop" PROVE FALSE
    <3>1. lifecycleMutex = x /\ lifecycleMutex = o
      BY <2>3 DEF PublishProvider
    <3> QED
      BY <2>3, <3>1 DEF PublishProvider
  <2>4. CASE MappedActive(j)
    BY <2>4 DEF MappedActive, Accounted, PublishProvider, routeVars
  <2> QED
    BY <2>1, <2>2, <2>3, <2>4 DEF Accounted
<1> QED
  BY <1>1, <1>2, <1>3

\* ProxyInv survives a step that changes nothing.
LEMMA StutterProxy == ProxyInv /\ UNCHANGED vars => ProxyInv'
<1> SUFFICES ASSUME ProxyInv, UNCHANGED vars PROVE ProxyInv'
  OBVIOUS
<1>1. RouteInv'
  BY StutterInv DEF ProxyInv
<1>2. (RetiredOwn /\ ServesOwnKeys /\ NoOrphanProxy)'
  BY DEF ProxyInv, RetiredOwn, ServesOwnKeys, NoOrphanProxy, Accounted,
    MappedActive, WillSettle, vars, routeVars, providerVars, clientVars,
    operatorVars
<1> QED
  BY <1>1, <1>2 DEF ProxyInv

\* No proxy is ever orphaned: whatever a provider serves is a mapped Active
\* route, or a thread that will release or settle it is on its way.
THEOREM NoOrphanProxyAlways == Spec => []NoOrphanProxy
<1>1. Init => ProxyInv
  BY InitRouteInv
  DEF Init, ProxyInv, RetiredOwn, ServesOwnKeys, NoOrphanProxy
<1>2. ProxyInv /\ RouteInv' /\ [Next]_vars => ProxyInv'
  <2> SUFFICES ASSUME ProxyInv, RouteInv', [Next]_vars PROVE ProxyInv'
    OBVIOUS
  <2> DEFINE Rest == RetiredOwn /\ ServesOwnKeys /\ NoOrphanProxy
  <2>1. ASSUME NEW c \in Clients, NEW k \in Keys,
               JoinRoute(c, k) \/ CreateRoute(c, k)
        PROVE  Rest'
    BY <2>1, JoinRouteProxy, CreateRouteProxy
  <2>2. ASSUME NEW c \in Clients,
               ReleaseRoute(c) \/ PrepareRoute(c) \/ SpuriousWakeup(c)
        PROVE  Rest'
    BY <2>2, ReleaseRouteProxy, PrepareRouteProxy, SpuriousWakeupProxy
  <2>3. ASSUME NEW c \in Clients, ClientStep(c) PROVE Rest'
    BY <2>3, RecheckProxy, ActivateAtProviderProxy, CommitRouteProxy,
       ReleaseAtProviderProxy, PrepareAtProviderProxy, FinishPrepareProxy
    DEF ClientStep
  <2>4. ASSUME NEW o \in Operators, NEW id \in Providers \cup {None},
               BeginSelect(o, id)
        PROVE  Rest'
    BY <2>4, BeginSelectProxy
  <2>5. ASSUME NEW o \in Operators, OperatorStep(o) PROVE Rest'
    BY <2>5, StopAtProviderProxy, StartAtProviderProxy, PublishProviderProxy
    DEF OperatorStep
  <2>6. CASE UNCHANGED vars
    BY <2>6, StutterProxy
  <2> QED
    BY <2>1, <2>2, <2>3, <2>4, <2>5, <2>6 DEF Next, Quiescent, ProxyInv
<1>3. ProxyInv => NoOrphanProxy
  BY DEF ProxyInv
<1> QED
  BY <1>1, <1>2, <1>3, RouteInvariant, PTL DEF Spec

\* A failed entry is never revived while a thread or the map refers to it.
THEOREM FailedIsFinalAlways == Spec => FailedIsFinal
<1> DEFINE Final == \A e \in Entries : Live(e) /\ state[e] = "Failed"
                                       => state'[e] = "Failed"
<1>1. RouteInv /\ [Next]_vars => [Final]_vars
  <2> SUFFICES ASSUME RouteInv, [Next]_vars, NEW e \in Entries, Live(e),
                      state[e] = "Failed"
               PROVE  state'[e] = "Failed"
    OBVIOUS
  <2> USE DEF RouteInv, TypeOK, ClientLocals, Waiting, Owning
  <2>1. ASSUME NEW c \in Clients, NEW k \in Keys, CreateRoute(c, k)
        PROVE  state'[e] = "Failed"
    BY <2>1 DEF CreateRoute, FreeEntries
  <2>2. ASSUME NEW c \in Clients, CommitRoute(c) PROVE state'[e] = "Failed"
    BY <2>2 DEF CommitRoute, GenerationMatches, OwnerEntry
  <2>3. ASSUME NEW o \in Operators, NEW id \in Providers \cup {None},
               BeginSelect(o, id)
        PROVE  state'[e] = "Failed"
    BY <2>3 DEF BeginSelect, FailAndErase
  <2>4. ASSUME NEW c \in Clients,
               \/ Recheck(c) \/ ActivateAtProvider(c) \/ ReleaseAtProvider(c)
               \/ PrepareAtProvider(c) \/ FinishPrepare(c) \/ ReleaseRoute(c)
               \/ PrepareRoute(c) \/ SpuriousWakeup(c)
        PROVE  state' = state
    BY <2>4 DEF Recheck, ActivateAtProvider, ReleaseAtProvider,
       PrepareAtProvider, FinishPrepare, ReleaseRoute, PrepareRoute,
       SpuriousWakeup, routeVars
  <2>5. ASSUME NEW c \in Clients, NEW k \in Keys, JoinRoute(c, k)
        PROVE  state' = state
    BY <2>5 DEF JoinRoute
  <2>6. ASSUME NEW o \in Operators, OperatorStep(o) PROVE state' = state
    BY <2>6 DEF OperatorStep, StopAtProvider, StartAtProvider,
       PublishProvider, routeVars
  <2>7. CASE UNCHANGED vars
    BY <2>7 DEF vars, routeVars
  <2> QED
    BY <2>1, <2>2, <2>3, <2>4, <2>5, <2>6, <2>7
    DEF Next, ClientStep, Quiescent
<1> QED
  BY <1>1, RouteInvariant, PTL DEF Spec, FailedIsFinal

-----------------------------------------------------------------------------
(* References and leases.                                                  *)

\* The leases for a key are finitely many.
LEMMA HoldersFinite ==
  ASSUME NEW k
  PROVE  IsFiniteSet(Holders(k)) /\ Cardinality(Holders(k)) \in Nat
<1>1. IsFiniteSet(Clients) /\ Holders(k) \in SUBSET Clients
  BY ManagerAssumption DEF Holders
<1>2. IsFiniteSet(Holders(k))
  BY <1>1, FS_Subset
<1>3. QED BY <1>2, FS_CardinalityType

\* A slot without a lease takes one.
LEMMA LeaseTaken ==
  ASSUME TypeOK, NEW c \in Clients, NEW k \in Keys, lease[c] = None,
         lease' = [lease EXCEPT ![c] = k]
  PROVE  /\ Cardinality(Holders(k)') = Cardinality(Holders(k)) + 1
         /\ \A j \in Keys \ {k} : Holders(j)' = Holders(j)
<1>1. None \notin Keys /\ lease \in [Clients -> Keys \cup {None}]
  BY ManagerAssumption DEF TypeOK
<1>2. Holders(k)' = Holders(k) \cup {c} /\ c \notin Holders(k)
  BY <1>1 DEF Holders
<1>3. Cardinality(Holders(k) \cup {c}) = Cardinality(Holders(k)) + 1
  BY <1>2, HoldersFinite, FS_AddElement
<1>4. \A j \in Keys \ {k} : Holders(j)' = Holders(j)
  BY <1>1 DEF Holders
<1>5. QED BY <1>2, <1>3, <1>4

\* A slot gives its lease back.
LEMMA LeaseReturned ==
  ASSUME TypeOK, NEW c \in Clients, NEW k \in Keys, lease[c] = k,
         lease' = [lease EXCEPT ![c] = None]
  PROVE  /\ Cardinality(Holders(k)') = Cardinality(Holders(k)) - 1
         /\ \A j \in Keys \ {k} : Holders(j)' = Holders(j)
<1>1. None \notin Keys /\ lease \in [Clients -> Keys \cup {None}]
  BY ManagerAssumption DEF TypeOK
<1>2. Holders(k)' = Holders(k) \ {c} /\ c \in Holders(k)
  BY <1>1 DEF Holders
<1>3. Cardinality(Holders(k) \ {c}) = Cardinality(Holders(k)) - 1
  BY <1>2, HoldersFinite, FS_RemoveElement
<1>4. \A j \in Keys \ {k} : Holders(j)' = Holders(j)
  BY <1>1 DEF Holders
<1>5. QED BY <1>2, <1>3, <1>4

\* A reference is taken together with a lease: the holders of the key grow by
\* one, and no other mapped route shares the entry.
LEMMA AdmitHolds ==
  ASSUME ReferenceInv, NEW c \in Clients, NEW k \in Keys, NEW e \in Entries,
         lease[c] = None, Admit(c, k, e),
         \A j \in Keys : activeRoutes[j] = e => j = k,
         UNCHANGED <<activeRoutes, state>>
  PROVE  FreshReferences' /\ ReferencesHeld'
<1> USE DEF ReferenceInv, RouteInv
<1>0. /\ references \in [Entries -> Nat \ {0}]
      /\ activeRoutes \in [Keys -> Entries \cup {None}] /\ None \notin Entries
  BY ManagerAssumption DEF TypeOK
<1>1. CASE state[e] = "Active" /\ generation[e] = providerGeneration
  <2>1. /\ references' = [references EXCEPT ![e] = @ + 1]
        /\ lease' = [lease EXCEPT ![c] = k]
    BY <1>1 DEF Admit
  <2>2. /\ Cardinality(Holders(k)') = Cardinality(Holders(k)) + 1
        /\ \A j \in Keys \ {k} : Holders(j)' = Holders(j)
    BY <2>1, LeaseTaken
  <2>3. FreshReferences'
    BY <1>0, <1>1, <2>1 DEF FreshReferences
  <2>4. ASSUME NEW j \in Keys, MappedActive(j)'
        PROVE  references'[activeRoutes'[j]] <= Cardinality(Holders(j)')
    <3>1. /\ MappedActive(j) /\ activeRoutes'[j] = activeRoutes[j]
          /\ activeRoutes[j] \in Entries
          /\ references[activeRoutes[j]] <= Cardinality(Holders(j))
      BY <1>0, <2>4 DEF MappedActive, ReferencesHeld
    <3>2. CASE j = k
      <4>1. references'[activeRoutes[j]] <= references[activeRoutes[j]] + 1
        BY <1>0, <2>1, <3>1
      <4>2. /\ references'[activeRoutes[j]] \in Nat /\ references[activeRoutes[j]] \in Nat
            /\ Cardinality(Holders(j)) \in Nat
        BY <1>0, <2>1, <3>1, HoldersFinite
      <4>3. QED BY <2>2, <3>1, <3>2, <4>1, <4>2
    <3>3. CASE j # k
      <4>1. activeRoutes[j] # e
        BY <3>3
      <4>2. QED BY <1>0, <2>1, <2>2, <3>1, <3>3, <4>1
    <3>4. QED BY <3>2, <3>3
  <2>5. QED BY <2>3, <2>4 DEF ReferencesHeld
<1>2. CASE ~(state[e] = "Active" /\ generation[e] = providerGeneration)
  <2>1. UNCHANGED <<references, lease>>
    BY <1>2 DEF Admit
  <2>2. QED BY <2>1 DEF FreshReferences, ReferencesHeld, MappedActive, Holders
<1>3. QED BY <1>1, <1>2

\* Joining an Active entry takes a reference with the lease.
LEMMA JoinRouteReferences ==
  ASSUME ReferenceInv, NEW c \in Clients, NEW k \in Keys, JoinRoute(c, k)
  PROVE  LeaseLocals' /\ WaiterKey' /\ FreshReferences' /\ ReferencesHeld'
<1> USE ManagerAssumption DEF ReferenceInv, RouteInv
<1>1. /\ activeRoutes[k] \in Entries /\ lease[c] = None /\ pc[c] = "idle"
      /\ UNCHANGED <<activeRoutes, state>>
      /\ \A j \in Keys : activeRoutes[j] = activeRoutes[k] => j = k
  BY DEF JoinRoute, TypeOK, MapInjective
<1>2. CASE state[activeRoutes[k]] = "Activating"
  <2>1. /\ pc' = [pc EXCEPT ![c] = "asleep"] /\ key' = [key EXCEPT ![c] = k]
        /\ entry' = [entry EXCEPT ![c] = activeRoutes[k]]
        /\ UNCHANGED <<references, lease>>
    BY <1>2 DEF JoinRoute
  <2>2. LeaseLocals'
    BY <1>1, <2>1 DEF LeaseLocals, TypeOK, Waiting, Owning
  <2>3. WaiterKey'
    BY <1>1, <2>1 DEF WaiterKey, TypeOK
  <2>4. QED BY <1>1, <2>1, <2>2, <2>3 DEF FreshReferences, ReferencesHeld, MappedActive,
              Holders
<1>3. CASE state[activeRoutes[k]] # "Activating"
  <2>1. Admit(c, k, activeRoutes[k]) /\ UNCHANGED <<pc, key, entry>>
    BY <1>3 DEF JoinRoute
  <2>2. FreshReferences' /\ ReferencesHeld'
    BY <1>1, <2>1, AdmitHolds
  <2>3. LeaseLocals'
    BY <1>1, <2>1 DEF LeaseLocals, TypeOK, Admit, Waiting, Owning
  <2>4. WaiterKey'
    BY <1>1, <2>1 DEF WaiterKey
  <2>5. QED BY <2>2, <2>3, <2>4
<1>4. QED BY <1>2, <1>3

\* A woken waiter finds its entry under its own key, or unmapped.
LEMMA RecheckReferences ==
  ASSUME ReferenceInv, NEW c \in Clients, Recheck(c)
  PROVE  LeaseLocals' /\ WaiterKey' /\ FreshReferences' /\ ReferencesHeld'
<1> USE ManagerAssumption DEF ReferenceInv, RouteInv
<1>1. /\ pc[c] = "woken" /\ lease[c] = None /\ entry[c] \in Entries /\ key[c] \in Keys
      /\ UNCHANGED <<activeRoutes, state>>
      /\ \A j \in Keys : activeRoutes[j] = entry[c] => j = key[c]
  BY DEF Recheck, LeaseLocals, ClientLocals, WaiterKey, Waiting
<1>2. CASE state[entry[c]] = "Activating"
  <2>1. pc' = [pc EXCEPT ![c] = "asleep"] /\ UNCHANGED <<references, lease, key, entry>>
    BY <1>2 DEF Recheck
  <2>2. LeaseLocals' /\ WaiterKey'
    BY <1>1, <2>1 DEF LeaseLocals, WaiterKey, TypeOK, Waiting, Owning
  <2>3. QED BY <1>1, <2>1, <2>2 DEF FreshReferences, ReferencesHeld, MappedActive, Holders
<1>3. CASE state[entry[c]] # "Activating"
  <2>1. Admit(c, key[c], entry[c]) /\ pc' = [pc EXCEPT ![c] = "idle"] /\ Return(c)
    BY <1>3 DEF Recheck
  <2>2. FreshReferences' /\ ReferencesHeld'
    BY <1>1, <2>1, AdmitHolds
  <2>3. LeaseLocals'
    BY <1>1, <2>1 DEF LeaseLocals, TypeOK, Admit, Waiting, Owning
  <2>4. WaiterKey'
    BY <1>1, <2>1 DEF WaiterKey, TypeOK, Return, Waiting
  <2>5. QED BY <2>2, <2>3, <2>4
<1>4. QED BY <1>2, <1>3

\* A new entry nobody referred to starts with the reference of its creator.
LEMMA CreateRouteReferences ==
  ASSUME ReferenceInv, NEW c \in Clients, NEW k \in Keys, CreateRoute(c, k)
  PROVE  LeaseLocals' /\ WaiterKey' /\ FreshReferences' /\ ReferencesHeld'
<1> USE ManagerAssumption DEF ReferenceInv, RouteInv
<1> DEFINE others == ReplacedRoutes(ProviderOf[k])
           ended == {activeRoutes[j] : j \in others}
<1>1. PICK e \in FreeEntries :
        /\ activeRoutes' = [j \in Keys |-> IF j = k THEN e
                                           ELSE IF j \in others THEN None
                                           ELSE activeRoutes[j]]
        /\ state' = [f \in Entries |-> IF f = e THEN "Activating"
                                       ELSE IF f \in ended THEN "Failed"
                                       ELSE state[f]]
        /\ references' = [references EXCEPT ![e] = InitialReferences]
        /\ entry' = [entry EXCEPT ![c] = e]
  BY DEF CreateRoute
<1>2. /\ e \in Entries /\ \A j \in Keys : activeRoutes[j] # e
      /\ \A d \in Clients : entry[d] # e
  BY DEF FreeEntries, Live
<1>3. /\ key' = [key EXCEPT ![c] = k] /\ lease' = lease /\ lease[c] = None
      /\ pc' = [NotifyAll(pc, ended) EXCEPT ![c] = "activate"] /\ pc[c] = "idle"
  BY DEF CreateRoute
<1>4. \A d \in Clients : d # c => /\ pc'[d] \in Waiting <=> pc[d] \in Waiting
                                  /\ pc'[d] \in Owning <=> pc[d] \in Owning
  BY <1>3 DEF NotifyAll, TypeOK, Waiting, Owning
<1>5. pc'[c] = "activate"
  BY <1>3 DEF NotifyAll
<1> HIDE DEF others, ended
<1>6. LeaseLocals'
  BY <1>3, <1>4 DEF LeaseLocals, TypeOK, Waiting, Owning
<1>7. WaiterKey'
  <2> SUFFICES ASSUME NEW d \in Clients, pc'[d] \in Waiting, NEW j \in Keys,
                      activeRoutes'[j] = entry'[d]
               PROVE  j = key'[d]
    BY DEF WaiterKey
  <2>1. d # c /\ pc[d] \in Waiting
    BY <1>4, <1>5 DEF Waiting
  <2>2. entry'[d] = entry[d] /\ key'[d] = key[d] /\ entry[d] \in Entries
    BY <1>1, <1>3, <2>1 DEF TypeOK, ClientLocals
  <2>3. activeRoutes'[j] = activeRoutes[j]
    BY <1>1, <1>2, <2>1, <2>2
  <2>4. QED BY <2>1, <2>2, <2>3 DEF WaiterKey
<1>8. ASSUME NEW j \in Keys, activeRoutes'[j] # None
      PROVE  \/ j = k /\ activeRoutes'[j] = e
             \/ /\ j # k /\ activeRoutes'[j] = activeRoutes[j] /\ activeRoutes[j] # e
                /\ activeRoutes[j] \in Entries
                /\ references'[activeRoutes[j]] = references[activeRoutes[j]]
                /\ state'[activeRoutes[j]] \in {state[activeRoutes[j]], "Failed"}
  BY <1>1, <1>2, <1>8 DEF TypeOK
<1>9. state'[e] = "Activating" /\ references'[e] = 1
  BY <1>1, <1>2 DEF TypeOK, InitialReferences
<1>10. FreshReferences'
  BY <1>8, <1>9 DEF FreshReferences
<1>11. ReferencesHeld'
  BY <1>3, <1>8, <1>9 DEF ReferencesHeld, MappedActive, Holders
<1>12. QED BY <1>6, <1>7, <1>10, <1>11

\* The creator's own lease covers the reference its entry was made with.
LEMMA CommitRouteReferences ==
  ASSUME ReferenceInv, NEW c \in Clients, CommitRoute(c)
  PROVE  LeaseLocals' /\ WaiterKey' /\ FreshReferences' /\ ReferencesHeld'
<1> USE ManagerAssumption DEF ReferenceInv, RouteInv
<1>0. PICK k \in Keys : k = key[c]
  BY DEF CommitRoute, ClientLocals, Owning
<1> DEFINE e == entry[c]
           good == activated[c] /\ GenerationMatches(c)
<1>1. /\ pc[c] = "commit" /\ e \in Entries /\ lease[c] = None
  BY DEF CommitRoute, ClientLocals, LeaseLocals, Owning
<1>2. /\ state' = [state EXCEPT ![e] = IF good THEN "Active" ELSE "Failed"]
      /\ activeRoutes' = [activeRoutes EXCEPT ![k] = IF ~good /\ @ = e THEN None ELSE @]
      /\ lease' = [lease EXCEPT ![c] = IF good THEN k ELSE None]
      /\ pc' = [NotifyAll(pc, {e}) EXCEPT ![c] = "idle"]
      /\ Return(c) /\ references' = references
  BY <1>0 DEF CommitRoute
<1>3. good => activeRoutes[k] = e
  BY <1>0 DEF GenerationMatches
<1> HIDE DEF good
<1>4. \A d \in Clients : d # c => /\ pc'[d] \in Waiting <=> pc[d] \in Waiting
                                  /\ pc'[d] \in Owning <=> pc[d] \in Owning
  BY <1>2 DEF NotifyAll, TypeOK, Waiting, Owning
<1>5. pc'[c] = "idle"
  BY <1>2 DEF NotifyAll
<1>6. \A j \in Keys : activeRoutes'[j] # None => activeRoutes'[j] = activeRoutes[j]
  BY <1>2 DEF TypeOK
<1>7. LeaseLocals'
  BY <1>1, <1>2, <1>4, <1>5 DEF LeaseLocals, TypeOK, Waiting, Owning
<1>8. WaiterKey'
  <2> SUFFICES ASSUME NEW d \in Clients, pc'[d] \in Waiting, NEW j \in Keys,
                      activeRoutes'[j] = entry'[d]
               PROVE  j = key'[d]
    BY DEF WaiterKey
  <2>1. d # c /\ pc[d] \in Waiting
    BY <1>4, <1>5 DEF Waiting
  <2>2. entry'[d] = entry[d] /\ key'[d] = key[d] /\ entry[d] \in Entries
    BY <1>2, <2>1 DEF TypeOK, Return, ClientLocals
  <2>3. QED BY <1>6, <2>1, <2>2 DEF WaiterKey
<1>9. \A j \in Keys : activeRoutes'[j] = e => j = k /\ activeRoutes[k] = e /\ good
  BY <1>0, <1>1, <1>2, <1>6 DEF OwnerEntry, Owning, TypeOK, MapInjective
<1>10. FreshReferences'
  <2> SUFFICES ASSUME NEW j \in Keys, activeRoutes'[j] # None,
                      state'[activeRoutes'[j]] = "Activating"
               PROVE  references'[activeRoutes'[j]] = 1
    BY DEF FreshReferences
  <2>1. activeRoutes'[j] = activeRoutes[j] /\ activeRoutes[j] \in Entries
    BY <1>6 DEF TypeOK
  <2>2. activeRoutes[j] # e
    BY <1>1, <1>2, <1>9, <2>1 DEF TypeOK
  <2>3. QED BY <1>2, <2>1, <2>2 DEF FreshReferences, TypeOK
<1>11. ReferencesHeld'
  <2> SUFFICES ASSUME NEW j \in Keys, MappedActive(j)'
               PROVE  references'[activeRoutes'[j]] <= Cardinality(Holders(j)')
    BY DEF ReferencesHeld
  <2>1. /\ activeRoutes'[j] = activeRoutes[j] /\ activeRoutes[j] \in Entries
        /\ state'[activeRoutes[j]] = "Active"
    BY <1>6 DEF MappedActive, TypeOK
  <2>2. CASE activeRoutes[j] = e
    <3>1. j = k /\ good /\ state[e] = "Activating"
      BY <1>1, <1>9, <2>1, <2>2 DEF OwnerEntry, Owning
    <3>2. references[e] = 1
      BY <2>1, <2>2, <3>1 DEF FreshReferences
    <3>3. Cardinality(Holders(k)') = Cardinality(Holders(k)) + 1
      <4>1. lease' = [lease EXCEPT ![c] = k]
        BY <1>2, <3>1
      <4>2. QED BY <1>1, <4>1, LeaseTaken
    <3>4. references'[activeRoutes'[j]] = 1
      BY <1>2, <2>1, <2>2, <3>2
    <3>5. Cardinality(Holders(k)) \in Nat
      BY HoldersFinite
    <3>6. QED BY <3>1, <3>3, <3>4, <3>5
  <2>3. CASE activeRoutes[j] # e
    <3>1. MappedActive(j) /\ references[activeRoutes[j]] <= Cardinality(Holders(j))
      BY <1>2, <2>1, <2>3 DEF MappedActive, ReferencesHeld, TypeOK
    <3>2. Holders(j)' = Holders(j)
      <4>1. CASE good
        <5>1. j # k
          BY <1>3, <2>3, <4>1
        <5>2. lease' = [lease EXCEPT ![c] = k]
          BY <1>2, <4>1
        <5>3. QED BY <1>1, <5>1, <5>2, LeaseTaken
      <4>2. CASE ~good
        BY <1>1, <1>2, <4>2 DEF Holders, TypeOK
      <4>3. QED BY <4>1, <4>2
    <3>3. QED BY <1>2, <2>1, <3>1, <3>2
  <2>4. QED BY <2>2, <2>3
<1>12. QED BY <1>7, <1>8, <1>10, <1>11

\* A release gives back lease and reference, or takes the entry out of the map.
LEMMA ReleaseRouteReferences ==
  ASSUME ReferenceInv, NEW c \in Clients, ReleaseRoute(c)
  PROVE  LeaseLocals' /\ WaiterKey' /\ FreshReferences' /\ ReferencesHeld'
<1> USE ManagerAssumption DEF ReferenceInv, RouteInv
<1>0. PICK k \in Keys : k = lease[c]
  BY DEF ReleaseRoute, TypeOK
<1> DEFINE e == activeRoutes[k]
           found == e # None /\ state[e] = "Active"
           last == found /\ LastReference(e)
<1>1. /\ pc[c] = "idle" /\ lease[c] = k /\ lease' = [lease EXCEPT ![c] = None]
      /\ references' = IF found /\ ~last THEN [references EXCEPT ![e] = @ - 1]
                       ELSE references
      /\ activeRoutes' = IF last THEN [activeRoutes EXCEPT ![k] = None] ELSE activeRoutes
      /\ UNCHANGED <<state, entry>>
  BY <1>0 DEF ReleaseRoute, TypeOK
<1>2. \A d \in Clients : pc'[d] # pc[d] => pc'[d] = "release" /\ d = c
  BY DEF ReleaseRoute, TypeOK
<1>3. \A d \in Clients : d # c => key'[d] = key[d]
  BY DEF ReleaseRoute, TypeOK
<1>4. last => found
  OBVIOUS
<1>5. found <=> MappedActive(k)
  BY DEF MappedActive
<1>6. e \in Entries \cup {None}
  BY <1>1 DEF TypeOK
<1> HIDE DEF found, last
<1>7. LeaseLocals'
  BY <1>1, <1>2 DEF LeaseLocals, TypeOK, Waiting, Owning
<1>8. \A j \in Keys : activeRoutes'[j] # None => /\ activeRoutes'[j] = activeRoutes[j]
                                                /\ activeRoutes[j] \in Entries
                                                /\ ~(j = k /\ last)
  BY <1>1 DEF TypeOK
<1>9. WaiterKey'
  <2> SUFFICES ASSUME NEW d \in Clients, pc'[d] \in Waiting, NEW j \in Keys,
                      activeRoutes'[j] = entry'[d]
               PROVE  j = key'[d]
    BY DEF WaiterKey
  <2>1. d # c /\ pc[d] \in Waiting
    BY <1>1, <1>2 DEF Waiting
  <2>2. entry'[d] = entry[d] /\ key'[d] = key[d] /\ entry[d] \in Entries
    BY <1>1, <1>3, <2>1 DEF ClientLocals
  <2>3. QED BY <1>8, <2>1, <2>2 DEF WaiterKey
<1>10. FreshReferences'
  <2> SUFFICES ASSUME NEW j \in Keys, activeRoutes'[j] # None,
                      state'[activeRoutes'[j]] = "Activating"
               PROVE  references'[activeRoutes'[j]] = 1
    BY DEF FreshReferences
  <2>1. /\ activeRoutes'[j] = activeRoutes[j] /\ activeRoutes[j] \in Entries
        /\ state[activeRoutes[j]] = "Activating"
    BY <1>1, <1>8
  <2>2. found => activeRoutes[j] # e
    BY <2>1 DEF found
  <2>3. references'[activeRoutes[j]] = references[activeRoutes[j]]
    BY <1>1, <2>1, <2>2 DEF TypeOK
  <2>4. QED BY <2>1, <2>3 DEF FreshReferences
<1>11. ReferencesHeld'
  <2> SUFFICES ASSUME NEW j \in Keys, MappedActive(j)'
               PROVE  references'[activeRoutes'[j]] <= Cardinality(Holders(j)')
    BY DEF ReferencesHeld
  <2>1. /\ activeRoutes'[j] = activeRoutes[j] /\ activeRoutes[j] \in Entries
        /\ MappedActive(j) /\ ~(j = k /\ last)
        /\ references[activeRoutes[j]] <= Cardinality(Holders(j))
    BY <1>1, <1>8 DEF MappedActive, ReferencesHeld
  <2>2. /\ Cardinality(Holders(k)') = Cardinality(Holders(k)) - 1
        /\ \A i \in Keys \ {k} : Holders(i)' = Holders(i)
    BY <1>1, LeaseReturned
  <2>3. references \in [Entries -> Nat \ {0}]
    BY DEF TypeOK
  <2>4. CASE j = k
    <3>1. found /\ ~last
      BY <1>5, <2>1, <2>4
    <3>2. references'[e] = references[e] - 1
      BY <1>1, <2>1, <2>3, <2>4, <3>1
    <3>3. references[e] \in Nat /\ Cardinality(Holders(k)) \in Nat
      BY <2>1, <2>3, <2>4, HoldersFinite
    <3>4. QED BY <2>1, <2>2, <2>4, <3>2, <3>3
  <2>5. CASE j # k
    <3>1. activeRoutes[j] # e
      BY <1>1, <2>1, <2>5 DEF MapInjective, MappedActive
    <3>2. references'[activeRoutes[j]] = references[activeRoutes[j]]
      BY <1>1, <2>1, <2>3, <3>1
    <3>3. QED BY <2>1, <2>2, <2>5, <3>2
  <2>6. QED BY <2>4, <2>5
<1>12. QED BY <1>7, <1>9, <1>10, <1>11

\* A provider stop fails and erases routes; no count and no lease changes.
LEMMA BeginSelectReferences ==
  ASSUME ReferenceInv, NEW o \in Operators, NEW id \in Providers \cup {None},
         BeginSelect(o, id)
  PROVE  LeaseLocals' /\ WaiterKey' /\ FreshReferences' /\ ReferencesHeld'
<1> USE ManagerAssumption DEF ReferenceInv, RouteInv
<1>1. UNCHANGED <<references, lease, key, entry>>
  BY DEF BeginSelect
<1>2. \A k \in Keys : activeRoutes'[k] # None =>
        /\ activeRoutes'[k] = activeRoutes[k] /\ activeRoutes[k] \in Entries
        /\ state'[activeRoutes[k]] \in {state[activeRoutes[k]], "Failed"}
  BY DEF BeginSelect, FailAndErase, TypeOK
<1>3. \A d \in Clients : /\ pc'[d] \in Waiting <=> pc[d] \in Waiting
                         /\ pc'[d] \in Owning <=> pc[d] \in Owning
  BY DEF BeginSelect, NotifyAll, TypeOK, Waiting, Owning
<1>4. LeaseLocals'
  BY <1>1, <1>3 DEF LeaseLocals
<1>5. WaiterKey'
  BY <1>1, <1>2, <1>3 DEF WaiterKey, ClientLocals, TypeOK
<1>6. FreshReferences'
  BY <1>1, <1>2 DEF FreshReferences
<1>7. ReferencesHeld'
  BY <1>1, <1>2 DEF ReferencesHeld, MappedActive, Holders
<1>8. QED BY <1>4, <1>5, <1>6, <1>7

\* The other steps change no count, no lease and no route.
LEMMA OtherReferences ==
  ASSUME ReferenceInv,
         \/ \E c \in Clients :
              \/ PrepareRoute(c) \/ SpuriousWakeup(c) \/ ActivateAtProvider(c)
              \/ ReleaseAtProvider(c) \/ PrepareAtProvider(c) \/ FinishPrepare(c)
         \/ \E o \in Operators : OperatorStep(o)
         \/ UNCHANGED vars
  PROVE  LeaseLocals' /\ WaiterKey' /\ FreshReferences' /\ ReferencesHeld'
<1> USE ManagerAssumption DEF ReferenceInv, RouteInv
<1>1. UNCHANGED <<activeRoutes, references, state, lease>>
  BY DEF PrepareRoute, SpuriousWakeup, ActivateAtProvider, ReleaseAtProvider,
     PrepareAtProvider, FinishPrepare, OperatorStep, StopAtProvider, StartAtProvider,
     PublishProvider, vars, routeVars, clientVars
<1> DEFINE Kept == \A d \in Clients :
             /\ pc'[d] \in Waiting => /\ pc[d] \in Waiting
                                      /\ entry'[d] = entry[d] /\ key'[d] = key[d]
             /\ pc'[d] \in Owning => pc[d] \in Owning
<1>2. Kept
  <2>1. ASSUME NEW c \in Clients, PrepareRoute(c) PROVE Kept
    BY <2>1 DEF PrepareRoute, TypeOK, Waiting, Owning
  <2>2. ASSUME NEW c \in Clients, SpuriousWakeup(c) PROVE Kept
    BY <2>2 DEF SpuriousWakeup, TypeOK, Waiting, Owning
  <2>3. ASSUME NEW c \in Clients, ActivateAtProvider(c) PROVE Kept
    BY <2>3 DEF ActivateAtProvider, TypeOK, Waiting, Owning
  <2>4. ASSUME NEW c \in Clients, ReleaseAtProvider(c) PROVE Kept
    BY <2>4 DEF ReleaseAtProvider, Return, TypeOK, Waiting, Owning
  <2>5. ASSUME NEW c \in Clients, PrepareAtProvider(c) PROVE Kept
    BY <2>5 DEF PrepareAtProvider, Return, TypeOK, Waiting, Owning
  <2>6. ASSUME NEW c \in Clients, FinishPrepare(c) PROVE Kept
    BY <2>6 DEF FinishPrepare, Return, TypeOK, Waiting, Owning
  <2>7. ASSUME UNCHANGED clientVars PROVE Kept
    BY <2>7 DEF clientVars
  <2>8. ASSUME NEW o \in Operators, OperatorStep(o) PROVE UNCHANGED clientVars
    BY <2>8 DEF OperatorStep, StopAtProvider, StartAtProvider, PublishProvider
  <2> HIDE DEF Kept
  <2>9. QED BY <2>1, <2>2, <2>3, <2>4, <2>5, <2>6, <2>7, <2>8 DEF vars
<1>3. LeaseLocals' /\ WaiterKey'
  BY <1>1, <1>2 DEF LeaseLocals, WaiterKey
<1>4. FreshReferences' /\ ReferencesHeld'
  BY <1>1 DEF FreshReferences, ReferencesHeld, MappedActive, Holders
<1>5. QED BY <1>3, <1>4

\* The count of a mapped Active entry never exceeds the leases for its key:
\* when the last lease is released, the route goes.
THEOREM ReferencesHeldAlways == Spec => []ReferencesHeld
<1>1. Init => ReferenceInv
  BY InitRouteInv, ManagerAssumption
  DEF Init, ReferenceInv, LeaseLocals, WaiterKey, FreshReferences, ReferencesHeld,
      MappedActive, Waiting, Owning
<1>2. ReferenceInv /\ RouteInv' /\ [Next]_vars => ReferenceInv'
  <2> SUFFICES ASSUME ReferenceInv, RouteInv', [Next]_vars PROVE ReferenceInv'
    OBVIOUS
  <2> DEFINE More == LeaseLocals /\ WaiterKey /\ FreshReferences /\ ReferencesHeld
  <2>1. ASSUME NEW c \in Clients, NEW k \in Keys, JoinRoute(c, k) \/ CreateRoute(c, k)
        PROVE  More'
    BY <2>1, JoinRouteReferences, CreateRouteReferences
  <2>2. ASSUME NEW c \in Clients, ReleaseRoute(c) \/ Recheck(c) \/ CommitRoute(c)
        PROVE  More'
    BY <2>2, ReleaseRouteReferences, RecheckReferences, CommitRouteReferences
  <2>3. ASSUME NEW o \in Operators, NEW id \in Providers \cup {None}, BeginSelect(o, id)
        PROVE  More'
    BY <2>3, BeginSelectReferences
  <2>4. ASSUME NEW c \in Clients,
               \/ PrepareRoute(c) \/ SpuriousWakeup(c) \/ ActivateAtProvider(c)
               \/ ReleaseAtProvider(c) \/ PrepareAtProvider(c) \/ FinishPrepare(c)
        PROVE  More'
    BY <2>4, OtherReferences
  <2>5. ASSUME NEW o \in Operators, OperatorStep(o) PROVE More'
    BY <2>5, OtherReferences
  <2>6. ASSUME UNCHANGED vars PROVE More'
    BY <2>6, OtherReferences
  <2>7. More'
    <3> HIDE DEF More
    <3>1. ASSUME NEW c \in Clients, ClientStep(c) PROVE More'
      BY <3>1, <2>2, <2>4 DEF ClientStep
    <3>2. QED BY <3>1, <2>1, <2>2, <2>3, <2>4, <2>5, <2>6 DEF Next, Quiescent
  <2> QED
    BY <2>7 DEF ReferenceInv
<1>3. ReferenceInv => ReferencesHeld
  BY DEF ReferenceInv
<1> QED
  BY <1>1, <1>2, <1>3, RouteInvariant, PTL DEF Spec
=============================================================================
