------------------------- MODULE RemoteAccessManager -------------------------
(***************************************************************************)
(* The route manager of the remote-access (VPN) subsystem.                 *)
(*                                                                         *)
(* RemoteAccessManager keeps the selected provider, a generation counter   *)
(* and a map from route keys to reference-counted entries.  Three kinds of *)
(* lock are involved: mutex_ (bookkeeping), one `operations' mutex per     *)
(* provider (held across the blocking provider calls) and lifecycleMutex_  *)
(* (held across a whole selection).  mutex_ is always taken innermost and  *)
(* never held across a blocking call, so one critical section of mutex_ is *)
(* one action.  `operations' is taken together with the provider call it   *)
(* protects, because the state of a provider is only touched under it.     *)
(*                                                                         *)
(* Clients are the slots that own a RemoteRouteLease, Operators the        *)
(* threads that select or stop a provider (settings workers, start-up,     *)
(* shutdown).  A waiting client is explicitly "asleep" on the condition    *)
(* variable of its entry until notify_all makes it "woken".                *)
(***************************************************************************)
EXTENDS Naturals, FiniteSets

CONSTANTS Clients, Operators, Providers,
          Exclusive,       \* providers whose routesAreExclusive() is true
          Keys,            \* RouteKeys {providerId, peerId, targetAddress}
          ProviderOf,      \* the providerId of a key
          Entries,         \* heap cells for RouteEntry objects
          None,            \* empty id / null pointer / free mutex
          MaxGeneration    \* bound on providerGeneration_

ASSUME ManagerAssumption ==
  /\ Exclusive \subseteq Providers
  /\ ProviderOf \in [Keys -> Providers]
  /\ None \notin Clients \cup Operators \cup Providers \cup Keys \cup Entries
  /\ MaxGeneration \in Nat
  /\ IsFiniteSet(Clients)

VARIABLES
  \* the manager, guarded by mutex_
  activeProviderId, providerGeneration, activeRoutes,
  generation, references, state,       \* the fields of every RouteEntry
  \* the other locks
  lifecycleMutex, operations,
  \* the providers, guarded by their operations mutex
  started,                             \* the tunnel is up
  serving,                             \* keys whose TCP proxy runs
  relaying,                            \* keys whose UDP media relays run
  \* a client thread inside activateRoute / prepare... / deactivateRoute
  pc, key, entry, retired, activated, captured,
  lease,                               \* the key of its active lease, or None
  prepared,                            \* prepareForStreaming() returned true
  \* a lifecycle thread
  opPc, opId, opOld

routeVars == <<activeRoutes, generation, references, state>>
lockVars == <<lifecycleMutex, operations>>
providerVars == <<started, serving, relaying>>
clientVars == <<pc, key, entry, retired, activated, captured, lease, prepared>>
operatorVars == <<opPc, opId, opOld>>
vars == <<activeProviderId, providerGeneration, routeVars, lockVars,
          providerVars, clientVars, operatorVars>>

States == {"Activating", "Active", "Failed"}
ClientPcs == {"idle", "asleep", "woken", "activate", "commit",
              "release", "prepare", "prepared"}
OperatorPcs == {"idle", "stop", "start", "publish"}

-----------------------------------------------------------------------------
Init ==
  /\ activeProviderId = None
  /\ providerGeneration = 0
  /\ activeRoutes = [k \in Keys |-> None]
  /\ generation = [e \in Entries |-> 0]
  /\ references = [e \in Entries |-> 1]
  /\ state = [e \in Entries |-> "Failed"]
  /\ lifecycleMutex = None
  /\ operations = [p \in Providers |-> None]
  /\ started = [p \in Providers |-> FALSE]
  /\ serving = [p \in Providers |-> {}]
  /\ relaying = [p \in Providers |-> {}]
  /\ pc = [c \in Clients |-> "idle"]
  /\ key = [c \in Clients |-> None]
  /\ entry = [c \in Clients |-> None]
  /\ retired = [c \in Clients |-> {}]
  /\ activated = [c \in Clients |-> FALSE]
  /\ captured = [c \in Clients |-> 0]
  /\ lease = [c \in Clients |-> None]
  /\ prepared = [c \in Clients |-> FALSE]
  /\ opPc = [o \in Operators |-> "idle"]
  /\ opId = [o \in Operators |-> None]
  /\ opOld = [o \in Operators |-> None]

\* A RouteEntry lives while the map or a client's shared_ptr refers to it.
Live(e) == (\E k \in Keys : activeRoutes[k] = e)
           \/ (\E c \in Clients : entry[c] = e)
FreeEntries == {e \in Entries : ~Live(e)}

NotifyNobody(p, E) == p

\* notify_all on the condition variables of the entries in E.
NotifyAll(p, E) ==
  [c \in Clients |-> IF p[c] = "asleep" /\ entry[c] \in E
                     THEN "woken" ELSE p[c]]

\* Return from a manager call: the locals of the thread disappear.
Return(c) ==
  /\ key' = [key EXCEPT ![c] = None]
  /\ entry' = [entry EXCEPT ![c] = None]
  /\ retired' = [retired EXCEPT ![c] = {}]
  /\ activated' = [activated EXCEPT ![c] = FALSE]
  /\ captured' = [captured EXCEPT ![c] = 0]

\* The keys of provider p that are in the route map.
RoutesOf(p) == {k \in Keys : ProviderOf[k] = p /\ activeRoutes[k] # None}

MarkFailedOnly(K) ==
  /\ state' = [e \in Entries |-> IF \E k \in K : activeRoutes[k] = e
                                 THEN "Failed" ELSE state[e]]
  /\ UNCHANGED activeRoutes

\* Erase the routes in K from the map, marking their entries Failed.
FailAndErase(K) ==
  /\ activeRoutes' = [k \in Keys |-> IF k \in K THEN None ELSE activeRoutes[k]]
  /\ state' = [e \in Entries |-> IF \E k \in K : activeRoutes[k] = e
                                 THEN "Failed" ELSE state[e]]

-----------------------------------------------------------------------------
(* activateRoute, called by the constructor of a RemoteRouteLease.         *)

\* The wait predicate holds: take a reference, or give up on a failed or
\* outdated entry.
Admit(c, k, e) ==
  IF state[e] = "Active" /\ generation[e] = providerGeneration
  THEN /\ references' = [references EXCEPT ![e] = @ + 1]
       /\ lease' = [lease EXCEPT ![c] = k]
  ELSE UNCHANGED <<references, lease>>

\* The key is already in the map: join its entry, or sleep until it leaves
\* Activating.
JoinRoute(c, k) ==
  LET e == activeRoutes[k] IN
  /\ pc[c] = "idle" /\ lease[c] = None
  /\ activeProviderId = ProviderOf[k]
  /\ e # None
  /\ \/ /\ state[e] = "Activating"
        /\ pc' = [pc EXCEPT ![c] = "asleep"]
        /\ key' = [key EXCEPT ![c] = k]
        /\ entry' = [entry EXCEPT ![c] = e]
        /\ UNCHANGED <<references, lease>>
     \/ /\ state[e] # "Activating"
        /\ Admit(c, k, e)
        /\ UNCHANGED <<pc, key, entry>>
  /\ UNCHANGED <<activeProviderId, providerGeneration, activeRoutes, generation,
                 state, lockVars, providerVars, retired, activated, captured,
                 prepared, operatorVars>>

\* condition_variable::wait may return without a notification.
SpuriousWakeup(c) ==
  /\ pc[c] = "asleep"
  /\ pc' = [pc EXCEPT ![c] = "woken"]
  /\ UNCHANGED <<activeProviderId, providerGeneration, routeVars, lockVars,
                 providerVars, key, entry, retired, activated, captured, lease,
                 prepared, operatorVars>>

\* A woken client reacquires mutex_ and evaluates the predicate again.
Recheck(c) ==
  LET e == entry[c] IN
  /\ pc[c] = "woken"
  /\ \/ /\ state[e] = "Activating"
        /\ pc' = [pc EXCEPT ![c] = "asleep"]
        /\ UNCHANGED <<references, lease, key, entry, retired, activated,
                       captured>>
     \/ /\ state[e] # "Activating"
        /\ Admit(c, key[c], e)
        /\ pc' = [pc EXCEPT ![c] = "idle"]
        /\ Return(c)
  /\ UNCHANGED <<activeProviderId, providerGeneration, activeRoutes, generation,
                 state, lockVars, providerVars, prepared, operatorVars>>

RetiredActiveOnly(p) ==
  IF p \in Exclusive
  THEN {k \in RoutesOf(p) : state[activeRoutes[k]] = "Active"} ELSE {}

\* The routes that a new route of provider p replaces.
ReplacedRoutes(p) == IF p \in Exclusive THEN RoutesOf(p) ELSE {}

InitialReferencesTwo == 2

\* RouteEntry::references of a new entry.
InitialReferences == 1

\* The key is new: insert an Activating entry and, for an exclusive provider,
\* retire every other route of that provider.
CreateRoute(c, k) ==
  LET p == ProviderOf[k]
      others == ReplacedRoutes(p)
      ended == {activeRoutes[j] : j \in others}
  IN
  /\ pc[c] = "idle" /\ lease[c] = None
  /\ activeProviderId = p
  /\ activeRoutes[k] = None
  /\ \E e \in FreeEntries :
       /\ activeRoutes' = [j \in Keys |-> IF j = k THEN e
                                          ELSE IF j \in others THEN None
                                          ELSE activeRoutes[j]]
       /\ state' = [f \in Entries |-> IF f = e THEN "Activating"
                                      ELSE IF f \in ended THEN "Failed"
                                      ELSE state[f]]
       /\ generation' = [generation EXCEPT ![e] = providerGeneration]
       /\ references' = [references EXCEPT ![e] = InitialReferences]
       /\ entry' = [entry EXCEPT ![c] = e]
  /\ key' = [key EXCEPT ![c] = k]
  /\ retired' = [retired EXCEPT ![c] = {j \in others :
                                          state[activeRoutes[j]] = "Active"}]
  /\ pc' = [NotifyAll(pc, ended) EXCEPT ![c] = "activate"]
  /\ UNCHANGED <<activeProviderId, providerGeneration, lockVars, providerVars,
                 activated, captured, lease, prepared, operatorVars>>

\* What serves after IRemoteAccessProvider::activateRoute(k), starting from
\* the set s: an exclusive provider has one proxy and stops it before it
\* starts another.
ActivateOutcomes(p, k, s) ==
  {[ok |-> FALSE, serving |-> s],
   [ok |-> FALSE, serving |-> IF p \in Exclusive THEN {} ELSE s]}
  \cup (IF started[p]
        THEN {[ok |-> TRUE,
               serving |-> IF p \in Exclusive THEN {k} ELSE s \cup {k}]}
        ELSE {})

\* Under the provider's operations mutex: release the retired targets, then
\* activate the new one.
ActivateAtProvider(c) ==
  LET p == ProviderOf[key[c]] IN
  /\ pc[c] = "activate"
  /\ operations[p] = None
  /\ operations' = [operations EXCEPT ![p] = c]
  /\ \E r \in ActivateOutcomes(p, key[c], serving[p] \ retired[c]) :
       /\ serving' = [serving EXCEPT ![p] = r.serving]
       /\ relaying' = [relaying EXCEPT
                         ![p] = (@ \ retired[c]) \cap r.serving]
       /\ activated' = [activated EXCEPT ![c] = r.ok]
  /\ pc' = [pc EXCEPT ![c] = "commit"]
  /\ UNCHANGED <<activeProviderId, providerGeneration, routeVars,
                 lifecycleMutex, started, key, entry, retired, captured, lease,
                 prepared, operatorVars>>

GenerationOnly(c) ==
  /\ activeProviderId = ProviderOf[key[c]]
  /\ generation[entry[c]] = providerGeneration

\* The entry is still the one in the map and its provider was not restarted.
GenerationMatches(c) ==
  /\ activeProviderId = ProviderOf[key[c]]
  /\ generation[entry[c]] = providerGeneration
  /\ activeRoutes[key[c]] = entry[c]

NeverStale(c) == FALSE

\* The provider activated a route that the manager no longer wants.
StaleActivation(c) == activated[c] /\ ~GenerationMatches(c)

\* The second critical section, the release of a stale activation and the
\* unlock of the operations mutex.
CommitRoute(c) ==
  LET k == key[c]
      p == ProviderOf[k]
      e == entry[c]
      good == activated[c] /\ GenerationMatches(c)
  IN
  /\ pc[c] = "commit"
  /\ state' = [state EXCEPT ![e] = IF good THEN "Active" ELSE "Failed"]
  /\ activeRoutes' = [activeRoutes EXCEPT
                        ![k] = IF ~good /\ @ = e THEN None ELSE @]
  /\ lease' = [lease EXCEPT ![c] = IF good THEN k ELSE None]
  /\ serving' = [serving EXCEPT ![p] = IF StaleActivation(c) THEN @ \ {k} ELSE @]
  /\ relaying' = [relaying EXCEPT ![p] = IF StaleActivation(c) THEN @ \ {k} ELSE @]
  /\ operations' = [operations EXCEPT ![p] = None]
  /\ pc' = [NotifyAll(pc, {e}) EXCEPT ![c] = "idle"]
  /\ Return(c)
  /\ UNCHANGED <<activeProviderId, providerGeneration, generation, references,
                 lifecycleMutex, started, prepared, operatorVars>>

-----------------------------------------------------------------------------
(* deactivateRoute, called by RemoteRouteLease::release().                 *)

\* No other lease holds the entry.
LastReference(e) == references[e] <= 1

\* The lease is inactive again once the call returns; nobody else reads it.
ReleaseRoute(c) ==
  LET k == lease[c]
      p == ProviderOf[k]
      e == activeRoutes[k]
      found == e # None /\ state[e] = "Active"
      last == found /\ LastReference(e)
  IN
  /\ pc[c] = "idle" /\ k # None
  /\ references' = IF found /\ ~last
                   THEN [references EXCEPT ![e] = @ - 1] ELSE references
  /\ activeRoutes' = IF last THEN [activeRoutes EXCEPT ![k] = None]
                     ELSE activeRoutes
  /\ IF last /\ activeProviderId = p
     THEN /\ pc' = [pc EXCEPT ![c] = "release"]
          /\ key' = [key EXCEPT ![c] = k]
     ELSE UNCHANGED <<pc, key>>
  /\ lease' = [lease EXCEPT ![c] = None]
  /\ prepared' = [prepared EXCEPT ![c] = FALSE]
  /\ UNCHANGED <<activeProviderId, providerGeneration, generation, state,
                 lockVars, providerVars, entry, retired, activated, captured,
                 operatorVars>>

\* Lock operations, deactivateRoute at the provider, unlock.
ReleaseAtProvider(c) ==
  LET p == ProviderOf[key[c]] IN
  /\ pc[c] = "release"
  /\ operations[p] = None
  /\ serving' = [serving EXCEPT ![p] = @ \ {key[c]}]
  /\ relaying' = [relaying EXCEPT ![p] = @ \ {key[c]}]
  /\ pc' = [pc EXCEPT ![c] = "idle"]
  /\ Return(c)
  /\ UNCHANGED <<activeProviderId, providerGeneration, routeVars, lockVars,
                 started, lease, prepared, operatorVars>>

-----------------------------------------------------------------------------
(* prepareRouteForStreaming, called before a stream is launched.           *)

PrepareRoute(c) ==
  LET k == lease[c]
      e == activeRoutes[k]
  IN
  /\ pc[c] = "idle" /\ k # None
  /\ e # None /\ state[e] = "Active"
  /\ pc' = [pc EXCEPT ![c] = "prepare"]
  /\ key' = [key EXCEPT ![c] = k]
  /\ captured' = [captured EXCEPT ![c] = generation[e]]
  /\ UNCHANGED <<activeProviderId, providerGeneration, routeVars, lockVars,
                 providerVars, entry, retired, activated, lease, prepared,
                 operatorVars>>

\* The provider starts the media relays only for a route it is serving.
PrepareAtProvider(c) ==
  LET p == ProviderOf[key[c]] IN
  /\ pc[c] = "prepare"
  /\ operations[p] = None
  /\ operations' = [operations EXCEPT ![p] = c]
  /\ \E ok \in {FALSE} \cup {started[p] /\ key[c] \in serving[p]} :
       /\ activated' = [activated EXCEPT ![c] = ok]
       /\ relaying' = [relaying EXCEPT ![p] = IF ok THEN @ \cup {key[c]}
                                              ELSE @ \ {key[c]}]
  /\ pc' = [pc EXCEPT ![c] = "prepared"]
  /\ UNCHANGED <<activeProviderId, providerGeneration, routeVars,
                 lifecycleMutex, started, serving, key, entry, retired,
                 captured, lease, prepared, operatorVars>>

FinishPrepare(c) ==
  LET p == ProviderOf[key[c]] IN
  /\ pc[c] = "prepared"
  /\ prepared' = [prepared EXCEPT
                    ![c] = /\ activated[c]
                           /\ activeProviderId = p
                           /\ captured[c] = providerGeneration]
  /\ operations' = [operations EXCEPT ![p] = None]
  /\ pc' = [pc EXCEPT ![c] = "idle"]
  /\ Return(c)
  /\ UNCHANGED <<activeProviderId, providerGeneration, routeVars,
                 lifecycleMutex, providerVars, lease, operatorVars>>

-----------------------------------------------------------------------------
(* selectAndStartProvider(id) and stopActiveProvider().  An empty or       *)
(* unknown id is None: both end after the running provider is stopped,     *)
(* exactly like stopActiveProvider().                                      *)

\* Where a lifecycle thread goes once the old provider is dealt with.
AfterStop(id) == IF id \in Providers THEN "start" ELSE "idle"

\* lifecycleMutex_ and the critical section of stopActiveProviderLocked.
BeginSelect(o, id) ==
  LET old == activeProviderId
      next == IF old # None THEN "stop" ELSE AfterStop(id)
      gone == IF old # None THEN RoutesOf(old) ELSE {}
  IN
  /\ opPc[o] = "idle"
  /\ lifecycleMutex = None
  /\ providerGeneration + 2 <= MaxGeneration
  /\ activeProviderId' = None
  /\ providerGeneration' = providerGeneration + 1
  /\ FailAndErase(gone)
  /\ pc' = NotifyAll(pc, {activeRoutes[k] : k \in gone})
  /\ opPc' = [opPc EXCEPT ![o] = next]
  /\ opId' = [opId EXCEPT ![o] = IF next = "idle" THEN None ELSE id]
  /\ opOld' = [opOld EXCEPT ![o] = old]
  /\ lifecycleMutex' = IF next = "idle" THEN None ELSE o
  /\ UNCHANGED <<generation, references, operations, providerVars, key, entry,
                 retired, activated, captured, lease, prepared>>

\* IRemoteAccessProvider::stop() tears down the tunnel and every route.
StopAtProvider(o) ==
  LET p == opOld[o]
      next == AfterStop(opId[o])
  IN
  /\ opPc[o] = "stop"
  /\ operations[p] = None
  /\ started' = [started EXCEPT ![p] = FALSE]
  /\ serving' = [serving EXCEPT ![p] = {}]
  /\ relaying' = [relaying EXCEPT ![p] = {}]
  /\ opPc' = [opPc EXCEPT ![o] = next]
  /\ opOld' = [opOld EXCEPT ![o] = None]
  /\ opId' = [opId EXCEPT ![o] = IF next = "idle" THEN None ELSE @]
  /\ lifecycleMutex' = IF next = "idle" THEN None ELSE lifecycleMutex
  /\ UNCHANGED <<activeProviderId, providerGeneration, routeVars, operations,
                 clientVars>>

\* available() and start() under operations; both may fail.
StartAtProvider(o) ==
  LET p == opId[o] IN
  /\ opPc[o] = "start"
  /\ operations[p] = None
  /\ \E ok \in BOOLEAN :
       /\ started' = [started EXCEPT ![p] = ok]
       /\ opPc' = [opPc EXCEPT ![o] = IF ok THEN "publish" ELSE "idle"]
       /\ opId' = [opId EXCEPT ![o] = IF ok THEN @ ELSE None]
       /\ lifecycleMutex' = IF ok THEN lifecycleMutex ELSE None
  /\ UNCHANGED <<activeProviderId, providerGeneration, routeVars, operations,
                 serving, relaying, clientVars, opOld>>

PublishProvider(o) ==
  /\ opPc[o] = "publish"
  /\ activeProviderId' = opId[o]
  /\ providerGeneration' = providerGeneration + 1
  /\ opPc' = [opPc EXCEPT ![o] = "idle"]
  /\ opId' = [opId EXCEPT ![o] = None]
  /\ lifecycleMutex' = None
  /\ UNCHANGED <<routeVars, operations, providerVars, clientVars, opOld>>

-----------------------------------------------------------------------------
\* A call in progress makes a step.
ClientStep(c) ==
  \/ Recheck(c) \/ ActivateAtProvider(c) \/ CommitRoute(c)
  \/ ReleaseAtProvider(c) \/ PrepareAtProvider(c) \/ FinishPrepare(c)
OperatorStep(o) == StopAtProvider(o) \/ StartAtProvider(o) \/ PublishProvider(o)

\* Nothing is in progress; the app may stay like this.
Quiescent ==
  /\ \A c \in Clients : pc[c] = "idle"
  /\ \A o \in Operators : opPc[o] = "idle"
  /\ UNCHANGED vars

Next ==
  \/ \E c \in Clients, k \in Keys : JoinRoute(c, k) \/ CreateRoute(c, k)
  \/ \E c \in Clients : \/ ReleaseRoute(c) \/ PrepareRoute(c)
                        \/ SpuriousWakeup(c) \/ ClientStep(c)
  \/ \E o \in Operators, id \in Providers \cup {None} : BeginSelect(o, id)
  \/ \E o \in Operators : OperatorStep(o)
  \/ Quiescent

Spec == Init /\ [][Next]_vars

\* A thread inside a call is scheduled; strong fairness because most of its
\* steps begin with a lock acquisition, and a mutex is handed to every waiter
\* in turn.  Nothing forces a client to start a call.
Fairness ==
  /\ \A c \in Clients : SF_vars(ClientStep(c))
  /\ \A o \in Operators : SF_vars(OperatorStep(o))

FairSpec == Spec /\ Fairness

-----------------------------------------------------------------------------
(* Properties                                                              *)

\* Every variable has its type.
TypeOK ==
  /\ activeProviderId \in Providers \cup {None}
  /\ providerGeneration \in 0..MaxGeneration
  /\ activeRoutes \in [Keys -> Entries \cup {None}]
  /\ generation \in [Entries -> Nat]
  /\ references \in [Entries -> Nat \ {0}]
  /\ state \in [Entries -> States]
  /\ lifecycleMutex \in Operators \cup {None}
  /\ operations \in [Providers -> Clients \cup {None}]
  /\ started \in [Providers -> BOOLEAN]
  /\ serving \in [Providers -> SUBSET Keys]
  /\ relaying \in [Providers -> SUBSET Keys]
  /\ pc \in [Clients -> ClientPcs]
  /\ key \in [Clients -> Keys \cup {None}]
  /\ entry \in [Clients -> Entries \cup {None}]
  /\ retired \in [Clients -> SUBSET Keys]
  /\ activated \in [Clients -> BOOLEAN]
  /\ captured \in [Clients -> Nat]
  /\ lease \in [Clients -> Keys \cup {None}]
  /\ prepared \in [Clients -> BOOLEAN]
  /\ opPc \in [Operators -> OperatorPcs]
  /\ opId \in [Operators -> Providers \cup {None}]
  /\ opOld \in [Operators -> Providers \cup {None}]

\* The client that created the entry and has not committed it yet.
Owns(c, k, e) == pc[c] \in {"activate", "commit"} /\ key[c] = k /\ entry[c] = e

\* The route map never survives its provider: every mapped entry belongs to
\* the provider that is active now and to its current generation, no matter
\* how selections and activations interleave (RemoteAccessManager.cpp:158-169
\* erases, :240-241 inserts, :268-276 validates).
RouteMapCurrent ==
  \A k \in Keys : activeRoutes[k] # None =>
    /\ ProviderOf[k] = activeProviderId
    /\ generation[activeRoutes[k]] = providerGeneration
    /\ state[activeRoutes[k]] # "Failed"

\* An exclusive provider has one local proxy, so at most one of its routes is
\* mapped, even while several clients activate different peers at once.
ExclusiveRoute ==
  \A k1, k2 \in Keys :
    /\ activeRoutes[k1] # None /\ activeRoutes[k2] # None
    /\ ProviderOf[k1] = ProviderOf[k2] /\ ProviderOf[k1] \in Exclusive
    => k1 = k2

\* An entry that is Activating in the map has exactly one thread that will
\* commit or fail it: nobody waits on an abandoned activation.
ActivatingHasOwner ==
  \A k \in Keys :
    /\ activeRoutes[k] # None /\ state[activeRoutes[k]] = "Activating"
    => /\ \E c \in Clients : Owns(c, k, activeRoutes[k])
       /\ \A c, d \in Clients :
            Owns(c, k, activeRoutes[k]) /\ Owns(d, k, activeRoutes[k]) => c = d

\* No lost wake-up: a client sleeps on an entry only while that entry is
\* Activating and in the map; every path that ends an activation, including a
\* retirement by another peer and a provider stop, notifies it.
NoLostWakeup ==
  \A c \in Clients : pc[c] = "asleep" =>
    /\ activeRoutes[key[c]] = entry[c]
    /\ state[entry[c]] = "Activating"

\* The map holds an Active route for k.
MappedActive(k) == activeRoutes[k] # None /\ state[activeRoutes[k]] = "Active"

\* Client c is about to release the proxy of k, or to decide about it.
WillSettle(c, k) ==
  \/ pc[c] = "release" /\ key[c] = k
  \/ pc[c] = "activate" /\ k \in retired[c]
  \/ pc[c] = "commit" /\ key[c] = k /\ activated[c]

Accounted(p, k) ==
  \/ MappedActive(k)
  \/ \E c \in Clients : WillSettle(c, k)
  \/ \E o \in Operators : opPc[o] = "stop" /\ opOld[o] = p

\* No orphan proxy: a local proxy that runs at a provider is either a mapped
\* Active route or some thread is on its way to tear it down, so a released,
\* retired or stale route never keeps tunnelling (RemoteAccessManager.cpp:177,
\* :261, :284, :360).
NoOrphanProxy == \A p \in Providers : \A k \in serving[p] : Accounted(p, k)

\* The slots that hold a lease for k.
Holders(k) == {c \in Clients : lease[c] = k}

\* References are never leaked: the count of a mapped Active entry is at most
\* the number of leases for its key, so releasing all leases erases it.
ReferencesHeld ==
  \A k \in Keys :
    MappedActive(k)
    => references[activeRoutes[k]] <= Cardinality(Holders(k))

\* A failed entry stays failed for every thread that still refers to it: a
\* retired or stopped activation is never revived by its own late commit.
FailedIsFinal ==
  [][\A e \in Entries : Live(e) /\ state[e] = "Failed" => state'[e] = "Failed"]_vars

\* Every manager call returns, whatever other clients and the lifecycle
\* threads do: no deadlock between mutex_, operations and lifecycleMutex_, and
\* no waiter is stuck.
CallsReturn ==
  /\ \A c \in Clients : (pc[c] # "idle") ~> (pc[c] = "idle")
  /\ \A o \in Operators : (opPc[o] # "idle") ~> (opPc[o] = "idle")

-----------------------------------------------------------------------------
(* The inductive strengthening used by RemoteAccessManagerProofs.          *)

Waiting == {"asleep", "woken"}
Owning == {"activate", "commit"}

\* The locals of a client are defined exactly where the code uses them.
ClientLocals ==
  \A c \in Clients :
    /\ pc[c] # "idle" => key[c] \in Keys
    /\ pc[c] \in Waiting \cup Owning <=> entry[c] \in Entries

\* A lifecycle thread inside a selection holds lifecycleMutex_; until it
\* publishes there is no active provider.
OperatorLocals ==
  \A o \in Operators :
    /\ opPc[o] # "idle" => /\ lifecycleMutex = o
                           /\ activeProviderId = None
                           /\ providerGeneration < MaxGeneration
    /\ opPc[o] = "stop" => opOld[o] \in Providers
    /\ opPc[o] \in {"start", "publish"} => opId[o] \in Providers

\* Two keys never share an entry.
MapInjective ==
  \A k1, k2 \in Keys : activeRoutes[k1] # None /\ activeRoutes[k1] = activeRoutes[k2]
                       => k1 = k2

\* The creator of an entry either still finds it Activating under its key, or
\* the entry has failed and left the map.
OwnerEntry ==
  \A c \in Clients : pc[c] \in Owning =>
    \/ activeRoutes[key[c]] = entry[c] /\ state[entry[c]] = "Activating"
    \/ /\ \A k \in Keys : activeRoutes[k] # entry[c]
       /\ state[entry[c]] = "Failed"

\* Two creators never work on one entry.
OwnersDistinct ==
  \A c, d \in Clients :
    pc[c] \in Owning /\ pc[d] \in Owning /\ entry[c] = entry[d] => c = d

\* A waiter of an Activating entry finds that entry under its key.
WaiterEntry ==
  \A c \in Clients : pc[c] \in Waiting /\ state[entry[c]] = "Activating"
                      => activeRoutes[key[c]] = entry[c]

RouteInv ==
  /\ TypeOK
  /\ ClientLocals
  /\ OperatorLocals
  /\ MapInjective
  /\ OwnerEntry
  /\ OwnersDistinct
  /\ WaiterEntry
  /\ RouteMapCurrent
  /\ ExclusiveRoute
  /\ ActivatingHasOwner
  /\ NoLostWakeup

\* A provider only serves its own keys.
ServesOwnKeys == \A p \in Providers : \A k \in serving[p] : ProviderOf[k] = p

\* An activation only retires routes of its own provider.
RetiredOwn ==
  \A c \in Clients : pc[c] = "activate" =>
    \A k \in retired[c] : ProviderOf[k] = ProviderOf[key[c]]

ProxyInv == RouteInv /\ RetiredOwn /\ ServesOwnKeys /\ NoOrphanProxy

\* A slot inside an activation has no lease yet.
LeaseLocals == \A c \in Clients : pc[c] \in Waiting \cup Owning => lease[c] = None

\* The entry a client waits for is mapped under its key or not at all.
WaiterKey ==
  \A c \in Clients : pc[c] \in Waiting =>
    \A k \in Keys : activeRoutes[k] = entry[c] => k = key[c]

\* Nobody but its creator counts on an entry before it is Active.
FreshReferences ==
  \A k \in Keys : activeRoutes[k] # None /\ state[activeRoutes[k]] = "Activating"
                  => references[activeRoutes[k]] = 1

ReferenceInv ==
  RouteInv /\ LeaseLocals /\ WaiterKey /\ FreshReferences /\ ReferencesHeld
=============================================================================
