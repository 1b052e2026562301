--------------------------- MODULE GameStreamRoutes ---------------------------
(***************************************************************************)
(* How GameStreamClient holds tunnel routes: the connect jobs that run on  *)
(* worker threads, the route leases they acquire per candidate address,    *)
(* the maps of live routes, addresses and server data, the release of a    *)
(* cancelled pairing, and the Add Host probe that borrows a route.         *)
(*                                                                         *)
(* A call of RemoteAccessManager is one step here; the interleavings       *)
(* inside the manager are the subject of RemoteAccessManager.  All three   *)
(* providers of the application have exclusive routes, so the manager      *)
(* keeps at most one.                                                      *)
(*                                                                         *)
(* A lease is the peer it routes to, or None when it is inactive, moved    *)
(* from or empty.  The manager keys a route by peer and target address;    *)
(* here a peer has one tunnel address, so the peer stands for both.        *)
(***************************************************************************)
EXTENDS Naturals, Sequences, FiniteSets

CONSTANTS HostKeys,          \* keys of m_active_routes
          Addresses, Peers,
          ConnectionAddresses, \* Host::connection_addresses() of a key
          PeerOf,            \* provider->resolveRoute(address), or None
          MacKey,            \* "mac:" key of the host at an address, or None
          Jobs,              \* worker threads of brls::async
          None,
          MaxReleasing       \* bound on leases of a peer waiting to be cleared

ASSUME RoutesAssumption ==
  /\ None \notin Peers \cup Addresses \cup HostKeys
  /\ ConnectionAddresses \in [HostKeys -> Seq(Addresses) \ {<<>>}]
  /\ PeerOf \in [Addresses -> Peers \cup {None}]
  /\ MacKey \in [Addresses -> HostKeys \cup {None}]
  /\ MaxReleasing \in Nat
  /\ IsFiniteSet(HostKeys) /\ IsFiniteSet(Jobs)

VARIABLES
  manager,             \* the manager and its provider
  m_active_routes, m_active_addresses, m_server_data,
  job,                 \* the worker threads
  releasing,           \* per peer, the leases moved to workers that clear them
  probing              \* the probe generation of the Add Host tab is current

maps == <<m_active_routes, m_active_addresses, m_server_data>>
routesVars == <<manager, maps, job, releasing, probing>>

IdleJob == [pc |-> "idle", kind |-> "connect", key |-> None, left |-> <<>>,
            candidate |-> None, lease |-> None]

RoutesInit ==
  /\ manager = [running |-> TRUE, peer |-> None, references |-> 0,
                proxy |-> None, relays |-> None]
  /\ m_active_routes = [k \in HostKeys |-> None]
  /\ m_active_addresses = [k \in HostKeys |-> None]
  /\ m_server_data = {}
  /\ job = [j \in Jobs |-> IdleJob]
  /\ releasing = [p \in Peers |-> 0]
  /\ probing = FALSE

-----------------------------------------------------------------------------
(* RemoteAccessManager, one call at a time.                                *)

NoRoute(m) == [m EXCEPT !.peer = None, !.references = 0, !.proxy = None,
                        !.relays = None]

\* activateRoute joins the active route of the peer, or retires the other
\* route and asks the provider, which may refuse.
Activated(m, p, granted) ==
  IF m.peer = p THEN [m EXCEPT !.references = @ + 1]
  ELSE IF granted THEN [NoRoute(m) EXCEPT !.peer = p, !.references = 1,
                                          !.proxy = p]
  ELSE NoRoute(m)

\* deactivateRoute, from RemoteRouteLease::release.
Released(m, lease) ==
  IF lease = None \/ m.peer # lease THEN m
  ELSE IF m.references > 1 THEN [m EXCEPT !.references = @ - 1]
  ELSE NoRoute(m)

\* The manager's selection: stopping loses every route, the leases stay.
StopProvider ==
  /\ manager.running
  /\ manager' = [NoRoute(manager) EXCEPT !.running = FALSE]
  /\ UNCHANGED <<maps, job, releasing, probing>>

StartProvider ==
  /\ ~manager.running
  /\ manager' = [manager EXCEPT !.running = TRUE]
  /\ UNCHANGED <<maps, job, releasing, probing>>

-----------------------------------------------------------------------------
(* connect_to_addresses and wake_up_host.                                  *)

Connect(j, k, kind) ==
  /\ job[j].pc = "idle"
  /\ job' = [job EXCEPT ![j] = [IdleJob EXCEPT
       !.pc = "acquire", !.kind = kind, !.key = k,
       !.left = ConnectionAddresses[k]]]
  /\ UNCHANGED <<manager, maps, releasing, probing>>

\* AddHostTab::connectHost ends the probe generation first.
ConnectFromAddHost(j, k) ==
  /\ job[j].pc = "idle"
  /\ probing' = FALSE
  /\ job' = [job EXCEPT ![j] = [IdleJob EXCEPT
       !.pc = "acquire", !.key = k, !.left = ConnectionAddresses[k]]]
  /\ UNCHANGED <<manager, maps, releasing>>

\* provider->resolveRoute of an address, when a provider is active.
Resolved(a) == IF manager.running THEN PeerOf[a] ELSE None

\* acquireRouteFor without a route, or with one.  A refused route comes back
\* as the empty lease, so the caller does not see the refusal.
AcquireDirect(j) ==
  /\ job[j].pc = "acquire"
  /\ Resolved(Head(job[j].left)) = None
  /\ job' = [job EXCEPT ![j].pc = "dial"]
  /\ UNCHANGED <<manager, maps, releasing, probing>>

AcquireRoute(j, granted) ==
  LET p == Resolved(Head(job[j].left))
      active == manager.peer = p \/ granted
  IN
  /\ job[j].pc = "acquire" /\ p # None
  /\ manager' = Activated(manager, p, granted)
  /\ job' = [job EXCEPT ![j].pc = "dial",
                        ![j].candidate = IF active THEN p ELSE None]
  /\ UNCHANGED <<maps, releasing, probing>>

\* gs_init fails: the candidate lease is destroyed and the next address is
\* tried.  wake_up_host starts over a bounded number of times.
DialFails(j) ==
  LET rest == Tail(job[j].left) IN
  /\ job[j].pc = "dial" /\ job[j].kind # "probe"
  /\ manager' = Released(manager, job[j].candidate)
  /\ \E again \in BOOLEAN :
       /\ again => job[j].kind = "wake" /\ rest = <<>>
       /\ job' = [job EXCEPT ![j] =
            IF rest # <<>> THEN [@ EXCEPT !.pc = "acquire", !.left = rest,
                                   !.candidate = None]
            ELSE IF again THEN [IdleJob EXCEPT
                   !.pc = "acquire", !.kind = "wake", !.key = job[j].key,
                   !.left = ConnectionAddresses[job[j].key]]
            ELSE IdleJob]
  /\ UNCHANGED <<maps, releasing, probing>>

\* gs_init succeeds: the lease moves to the job.
DialSucceeds(j) ==
  /\ job[j].pc = "dial" /\ job[j].kind # "probe"
  /\ job' = [job EXCEPT ![j].pc = "deliver", ![j].candidate = None,
                        ![j].lease = job[j].candidate]
  /\ UNCHANGED <<manager, maps, releasing, probing>>

KeepTunnelLease(old, new) == IF new = None THEN old ELSE new

\* RemoteRouteLease's move assignment: what the entry holds afterwards.
Assigned(old, new) == new

AssignWithoutRelease(m, old) == m

\* RemoteRouteLease's move assignment: it releases what the entry held.
ReleasedByAssignment(m, old) == Released(m, old)

\* cache_server_data records the address under the MAC key too, when the server
\* told a usable MAC; the caller then records it under its own key.
Cached(k, a, usable) ==
  [x \in HostKeys |-> IF x = k \/ (usable /\ x = MacKey[a]) THEN a
                      ELSE m_active_addresses[x]]

\* The completion of a connect on the UI thread, or of wake_up_host on its
\* worker: server data, address and lease go into the maps.
Deliver(j) ==
  LET k == job[j].key
      a == Head(job[j].left)
  IN
  /\ job[j].pc = "deliver"
  /\ m_server_data' = m_server_data \cup {a}
  /\ \E usable \in BOOLEAN : m_active_addresses' = Cached(k, a, usable)
  /\ manager' = ReleasedByAssignment(manager, m_active_routes[k])
  /\ m_active_routes' =
       [m_active_routes EXCEPT ![k] = Assigned(@, job[j].lease)]
  /\ job' = [job EXCEPT ![j] = IdleJob]
  /\ UNCHANGED <<releasing, probing>>

-----------------------------------------------------------------------------
(* Pairing, streaming and the probe.                                       *)

\* m_active_addresses without the entries of address a.
EraseAddress(a) ==
  [k \in HostKeys |-> IF m_active_addresses[k] = a THEN None
                      ELSE m_active_addresses[k]]

\* release_cancelled_pairing_connection: the leases of the address move to a
\* worker, and everything cached for the address is forgotten.
CancelPairing(a) ==
  LET keys == {k \in HostKeys : m_active_addresses[k] = a}
      moved(p) == Cardinality({k \in keys : m_active_routes[k] = p})
  IN
  /\ \A p \in Peers : releasing[p] + moved(p) <= MaxReleasing
  /\ releasing' = [p \in Peers |-> releasing[p] + moved(p)]
  /\ m_active_routes' = [k \in HostKeys |->
       IF k \in keys THEN None ELSE m_active_routes[k]]
  /\ m_active_addresses' = EraseAddress(a)
  /\ m_server_data' = m_server_data \ {a}
  /\ UNCHANGED <<manager, job, probing>>

\* A worker destroys one of the leases; the workers run in any order.
ReleaseMoved(p) ==
  /\ releasing[p] > 0
  /\ manager' = Released(manager, p)
  /\ releasing' = [releasing EXCEPT ![p] = @ - 1]
  /\ UNCHANGED <<maps, job, probing>>

\* prepare_remote_route_for_stream: the lease of the address starts the UDP
\* relays of its route, if the manager still has it.
PrepareStream(a, prepared) ==
  /\ a \in m_server_data
  /\ \E k \in HostKeys :
       m_active_routes[k] # None /\ m_active_routes[k] = PeerOf[a]
  /\ manager' = IF prepared /\ manager.peer = PeerOf[a]
                THEN [manager EXCEPT !.relays = PeerOf[a]] ELSE manager
  /\ UNCHANGED <<maps, job, releasing, probing>>

OpenAddHost ==
  /\ ~probing
  /\ probing' = TRUE
  /\ UNCHANGED <<manager, maps, job, releasing>>

LeaveAddHost ==
  /\ probing
  /\ probing' = FALSE
  /\ UNCHANGED <<manager, maps, job, releasing>>

\* The tests before a probe: the generation is current and no route is in use.
CheckProbe(j, a) ==
  /\ probing /\ PeerOf[a] # None
  /\ job[j].pc = "idle" /\ manager.peer = None
  /\ job' = [job EXCEPT ![j] = [IdleJob EXCEPT
       !.pc = "acquire", !.kind = "probe", !.left = <<a>>]]
  /\ UNCHANGED <<manager, maps, releasing, probing>>

\* probeGameStreamPeer answers and its lease is destroyed.
FinishProbe(j) ==
  /\ job[j].pc = "dial" /\ job[j].kind = "probe"
  /\ manager' = Released(manager, job[j].candidate)
  /\ job' = [job EXCEPT ![j] = IdleJob]
  /\ UNCHANGED <<maps, releasing, probing>>

-----------------------------------------------------------------------------
Step(j) ==
  \/ AcquireDirect(j)
  \/ \E granted \in BOOLEAN : AcquireRoute(j, granted)
  \/ DialFails(j) \/ DialSucceeds(j) \/ FinishProbe(j)
  \/ Deliver(j)

RoutesNext ==
  \/ \E j \in Jobs : Step(j)
  \/ \E j \in Jobs, k \in HostKeys :
       \/ \E kind \in {"connect", "wake"} : Connect(j, k, kind)
       \/ ConnectFromAddHost(j, k)
  \/ \E j \in Jobs, a \in Addresses : CheckProbe(j, a)
  \/ \E a \in Addresses : CancelPairing(a)
  \/ \E a \in Addresses, prepared \in BOOLEAN : PrepareStream(a, prepared)
  \/ \E p \in Peers : ReleaseMoved(p)
  \/ StopProvider \/ StartProvider
  \/ OpenAddHost \/ LeaveAddHost

RoutesSpec == RoutesInit /\ [][RoutesNext]_routesVars

-----------------------------------------------------------------------------
(* Properties.                                                             *)

ManagerRecord == [running : BOOLEAN, peer : Peers \cup {None},
                  references : Nat, proxy : Peers \cup {None},
                  relays : Peers \cup {None}]
JobRecord == [pc : {"idle", "acquire", "dial", "deliver"},
              kind : {"connect", "wake", "probe"},
              key : HostKeys \cup {None}, left : Seq(Addresses),
              candidate : Peers \cup {None},
              lease : Peers \cup {None}]

\* Every variable has its type; a reference count is never negative and is
\* zero exactly when the manager has no route.
RoutesTypeOK ==
  /\ manager \in ManagerRecord
  /\ (manager.references = 0) <=> (manager.peer = None)
  /\ m_active_routes \in [HostKeys -> Peers \cup {None}]
  /\ m_active_addresses \in [HostKeys -> Addresses \cup {None}]
  /\ m_server_data \subseteq Addresses
  /\ job \in [Jobs -> JobRecord]
  /\ releasing \in [Peers -> Nat]
  /\ probing \in BOOLEAN

\* The leases that will release peer p: in the map, in a job that dials, in a
\* job that delivers, and on their way to be cleared.
RoutesTo(p) == {k \in HostKeys : m_active_routes[k] = p}
DiallingOn(p) == {j \in Jobs : job[j].candidate = p}
DeliveringOn(p) == {j \in Jobs : job[j].lease = p}
LeasesOn(p) ==
  Cardinality(RoutesTo(p)) + Cardinality(DiallingOn(p))
  + Cardinality(DeliveringOn(p)) + releasing[p]

\* No route outlives its leases: the manager never counts more references
\* than there are leases that will release them, whatever failed connects,
\* overwritten map entries, cancelled pairings and provider restarts did.
NoLeakedRoute ==
  manager.peer # None => manager.references <= LeasesOn(manager.peer)

\* A host without a known MAC never keeps the tunnel of an address it is no
\* longer reached at: whatever connects, wake-ups and cancelled pairings ran,
\* its lease routes to the peer of its active address, or it has none.  (The
\* address of a "mac:" key also moves when the host is reached under another
\* key, see Cached, and its lease stays behind.)
OwnRouteMatchesAddress ==
  \A k \in HostKeys :
    (\A a \in Addresses : MacKey[a] # k) /\ m_active_routes[k] # None
    => /\ m_active_addresses[k] # None
       /\ PeerOf[m_active_addresses[k]] = m_active_routes[k]

\* "Keep the proxy up for the whole session" (connect_to_addresses): storing
\* the lease of a connect must not stop the proxy it was acquired for.
ConnectKeepsProxy ==
  [][\A j \in Jobs :
       (/\ job[j].pc = "deliver" /\ job'[j].pc = "idle"
        /\ job[j].lease # None /\ manager.proxy = job[j].lease)
       => manager'.proxy = job[j].lease]_routesVars

-----------------------------------------------------------------------------
(* The inductive invariant.                                                *)

\* What a job holds at each point: a candidate lease only while it dials and a
\* lease only until it delivers, each for the address it is at.
Shaped(r) ==
  /\ r.candidate # None => r.pc = "dial" /\ PeerOf[Head(r.left)] = r.candidate
  /\ r.lease # None => r.pc = "deliver" /\ PeerOf[Head(r.left)] = r.lease
  /\ r.pc # "idle" => r.left # <<>>
  /\ r.pc # "idle" /\ r.kind # "probe" => r.key \in HostKeys
  /\ r.pc = "deliver" => r.kind # "probe"

JobsShaped == \A j \in Jobs : Shaped(job[j])

RoutesInv ==
  RoutesTypeOK /\ JobsShaped /\ NoLeakedRoute /\ OwnRouteMatchesAddress
=============================================================================
