-------------------------- MODULE NetBirdProvider --------------------------
(* NetBirdProvider with its pump thread, NetBirdManager (the older client   *)
(* that wraps gs_init and searches hosts) and the one libnetbird both of    *)
(* them drive.  The provider's calls are serialised by RemoteAccessManager; *)
(* refreshPeers, the pump and NetBirdManager are not, so a call is cut      *)
(* wherever they can come in between.                                      *)
(*                                                                         *)
(* libnetbird is external; its proxy calls follow the patched source that  *)
(* the build stages (patches/netbird-switch-proxy-reliability.patch).      *)

EXTENDS LoopbackPorts

CONSTANTS Addresses, Identities,
          Lists,    \* the peer lists the control plane may send, as sets of
                    \* targets with one identity for an address
          HasConf   \* netbird.conf exists, so NetBirdManager may log in

Targets == [id : Identities, address : Addresses]

ASSUME NetBirdAssumption ==
  /\ None \notin Addresses \cup Identities
  /\ HasConf \in BOOLEAN
  /\ {} \in Lists
  /\ \A L \in Lists : /\ L \subseteq Targets
                      /\ \A t, u \in L : t.address = u.address => t = u

VARIABLES libReady, list, proxy, udp,   \* libnetbird
          moved,        \* the list changed since an activation was last admitted
          state,        \* NetBirdProvider::state_ and whether the pump runs
          cachedPeers, refreshing,   \* the cache; a refresh not stored yet
          call,         \* the provider call in progress
          granted,      \* the target whose activation was last answered true
          mgrPeer, mgrDial, mgrPolling   \* NetBirdManager

libVars == <<libReady, list, moved>>
proxyVars == <<proxy, udp, loopback>>
cacheVars == <<cachedPeers, refreshing>>
mgrVars == <<mgrPeer, mgrDial, mgrPolling>>
nbVars == <<libReady, list, proxy, udp, moved, state, cacheVars, call, granted,
            mgrVars>>

Reset == [started |-> FALSE, ready |-> FALSE, activePeer |-> None,
          udpRelaysStarted |-> FALSE, pump |-> FALSE]
Idle == [pc |-> "idle", peer |-> None]

NbInit ==
  /\ libReady = FALSE /\ list = {} /\ moved = FALSE /\ proxy = None /\ udp = None
  /\ state = Reset /\ cachedPeers = {} /\ refreshing = None
  /\ call = Idle /\ granted = None
  /\ mgrPeer = None /\ mgrDial = Idle /\ mgrPolling = FALSE

-----------------------------------------------------------------------------
(* libnetbird.                                                             *)

Listed(a) == \E t \in list : t.address = a

StopTcpOnly == proxy' = None /\ UNCHANGED udp /\ FreedBy("netbird")

\* netbird_proxy_stop_udp and netbird_proxy_stop.
StopProxies == proxy' = None /\ udp' = None /\ FreedBy("netbird")

\* netbird_proxy_start: a proxy that runs is left alone, whoever it leads to.
ProxyStart(a, ok) ==
  \/ ok /\ proxy # None /\ UNCHANGED <<proxy, loopback>>
  \/ /\ ok /\ proxy = None /\ libReady
     /\ proxy' = a /\ BoundBy("netbird")
  \/ ~ok /\ UNCHANGED <<proxy, loopback>>

\* netbird_proxy_start_udp, likewise; an incomplete start is taken back.
UdpStart(a, ok) == udp' = IF ~ok THEN None ELSE IF udp # None THEN udp ELSE a

\* netbird_init: login, peer sync, handshake.
LibInit(L) == list' = L /\ moved' = TRUE /\ libReady' = TRUE

\* netbird_poll: a new list arrives, the transport comes and goes.
Sync ==
  /\ libReady
  /\ \/ /\ list' \in Lists \ {list} /\ UNCHANGED libReady
        /\ moved' = TRUE
     \/ libReady' = FALSE /\ UNCHANGED <<list, moved>>
  /\ UNCHANGED <<proxyVars, state, cacheVars, call, granted, mgrVars>>

-----------------------------------------------------------------------------
(* NetBirdProvider.                                                        *)

NbStart(ok) ==
  /\ call = Idle /\ ~state.started
  /\ IF ok
     THEN /\ \E L \in Lists : LibInit(L)
          /\ state' = [Reset EXCEPT !.started = TRUE, !.ready = TRUE, !.pump = TRUE]
          /\ cachedPeers' = list'
     ELSE UNCHANGED <<libVars, state, cachedPeers>>
  /\ UNCHANGED <<proxyVars, refreshing, call, granted, mgrVars>>

\* stop, up to the join of the pump
NbStop ==
  /\ call = Idle /\ state.started
  /\ StopProxies
  /\ state' = [state EXCEPT !.pump = FALSE]
  /\ call' = [pc |-> "shutdown", peer |-> None] /\ granted' = None
  /\ UNCHANGED <<libVars, cacheVars, mgrVars>>

\* stop of a provider that is not started
NbStopIdle == /\ call = Idle /\ ~state.started /\ granted' = None
              /\ UNCHANGED <<libVars, proxyVars, state, cacheVars, call, mgrVars>>

\* netbird_shutdown, the reset of the state and of the cache
NbShutdown ==
  /\ call.pc = "shutdown"
  /\ libReady' = FALSE /\ list' = {} /\ moved' = TRUE /\ StopProxies
  /\ state' = Reset /\ cachedPeers' = {} /\ call' = Idle
  /\ UNCHANGED <<refreshing, granted, mgrVars>>

Pump ==
  /\ state.pump /\ state.started /\ state.ready # libReady
  /\ state' = [state EXCEPT !.ready = libReady]
  /\ UNCHANGED <<libVars, proxyVars, cacheVars, call, granted, mgrVars>>

\* refreshPeers on a worker: the scan, and the later store into the cache.
ScanPeers ==
  /\ refreshing = None
  /\ refreshing' = IF state.started /\ state.ready THEN list ELSE {}
  /\ UNCHANGED <<libVars, proxyVars, state, cachedPeers, call, granted, mgrVars>>

StorePeers ==
  /\ refreshing # None
  /\ cachedPeers' = refreshing /\ refreshing' = None
  /\ UNCHANGED <<libVars, proxyVars, state, call, granted, mgrVars>>

\* Mutant: the identity that holds the address is not compared.
AdmitsAddress(t) == state.started /\ state.ready /\ Listed(t.address)

\* The live list must hold this address for this identity.
Admits(t) == state.started /\ state.ready /\ t \in list

\* activateRoute(target), up to the start of the proxy.  The target comes from
\* the cache, which may be older than the list.
NbActivate(t) ==
  /\ call = Idle /\ t \in cachedPeers
  /\ \/ ~Admits(t) /\ granted' = None /\ UNCHANGED <<moved, proxyVars, state, call>>
     \/ /\ Admits(t) /\ state.activePeer = t.address
        /\ granted' = t /\ moved' = FALSE /\ UNCHANGED <<proxyVars, state, call>>
     \/ /\ Admits(t) /\ state.activePeer # t.address
        /\ StopProxies
        /\ state' = [state EXCEPT !.udpRelaysStarted = FALSE]
        /\ call' = [pc |-> "open", peer |-> t]
        /\ granted' = None /\ moved' = FALSE
  /\ UNCHANGED <<libReady, list, cacheVars, mgrVars>>

\* A failed start leaves activePeer at the peer whose proxy was stopped.
NbOpen(ok) ==
  /\ call.pc = "open"
  /\ ProxyStart(call.peer.address, ok)
  /\ IF ok THEN /\ state' = [state EXCEPT !.activePeer = call.peer.address]
                /\ granted' = call.peer
           ELSE UNCHANGED <<state, granted>>
  /\ call' = Idle
  /\ UNCHANGED <<libVars, udp, cacheVars, mgrVars>>

\* prepareRouteForStreaming: relays that run are stopped first.
NbPrepare(t) ==
  /\ call = Idle /\ granted = t
  /\ IF state.started /\ state.ready /\ state.activePeer = t.address
     THEN /\ udp' = IF state.udpRelaysStarted THEN None ELSE udp
          /\ state' = [state EXCEPT !.udpRelaysStarted = FALSE]
          /\ call' = [pc |-> "media", peer |-> t]
     ELSE UNCHANGED <<udp, state, call>>
  /\ UNCHANGED <<libVars, proxy, loopback, cacheVars, granted, mgrVars>>

NbOpenMedia(ok) ==
  /\ call.pc = "media"
  /\ ok => libReady
  /\ UdpStart(call.peer.address, ok)
  /\ state' = [state EXCEPT !.udpRelaysStarted = ok]
  /\ call' = Idle
  /\ UNCHANGED <<libVars, proxy, loopback, cacheVars, granted, mgrVars>>

NbDeactivate(t) ==
  /\ call = Idle
  /\ IF state.started /\ state.activePeer = t.address
     THEN /\ StopProxies
          /\ state' = [state EXCEPT !.activePeer = None, !.udpRelaysStarted = FALSE]
     ELSE UNCHANGED <<proxyVars, state>>
  /\ granted' = IF granted = t THEN None ELSE granted
  /\ UNCHANGED <<libVars, cacheVars, call, mgrVars>>

-----------------------------------------------------------------------------
(* NetBirdManager: the search of the Add Host tab and every gs_init.       *)

\* ensure_connected
MgrConnect ==
  /\ HasConf /\ ~libReady /\ mgrDial = Idle
  /\ \E L \in Lists : LibInit(L)
  /\ mgrPolling' = TRUE
  /\ UNCHANGED <<proxyVars, state, cacheVars, call, granted, mgrPeer, mgrDial>>

Redirected(a) == libReady /\ Listed(a)

\* acquireRouteFor has no lease for the address: it is not in the cache, or
\* the provider refuses the target.
DialledRaw(a) == \A t \in cachedPeers : t.address = a => ~Admits(t)

\* gs_init of an address that was not replaced by 127.0.0.1, up to the start
\* of the proxy in activate_peer
MgrDial(a) ==
  /\ mgrDial = Idle /\ DialledRaw(a) /\ Redirected(a) /\ ~(mgrPeer = a /\ proxy = a)
  /\ StopProxies
  /\ mgrPeer' = None /\ mgrDial' = [pc |-> "open", peer |-> a]
  /\ UNCHANGED <<libVars, state, cacheVars, call, granted, mgrPolling>>

MgrOpen(ok) ==
  /\ mgrDial.pc = "open"
  /\ ProxyStart(mgrDial.peer, ok)
  /\ mgrDial' = IF ok THEN [mgrDial EXCEPT !.pc = "media"] ELSE Idle
  /\ UNCHANGED <<libVars, udp, state, cacheVars, call, granted, mgrPeer,
                 mgrPolling>>

\* Without the media relays the proxy is stopped again.
MgrOpenMedia(ok) ==
  /\ mgrDial.pc = "media"
  /\ ok => libReady
  /\ IF ok THEN UdpStart(mgrDial.peer, TRUE) /\ UNCHANGED <<proxy, loopback>>
           ELSE StopProxies
  /\ mgrPeer' = IF ok THEN mgrDial.peer ELSE None
  /\ mgrDial' = Idle
  /\ UNCHANGED <<libVars, state, cacheVars, call, granted, mgrPolling>>

NbCall == \/ \E t \in Targets : NbActivate(t) \/ NbPrepare(t) \/ NbDeactivate(t)
          \/ NbShutdown
          \/ \E ok \in BOOLEAN : NbOpen(ok) \/ NbOpenMedia(ok)

NbBackground == \/ Sync \/ Pump \/ ScanPeers \/ StorePeers \/ MgrConnect
                \/ \E a \in Addresses : MgrDial(a)
                \/ \E ok \in BOOLEAN : MgrOpen(ok) \/ MgrOpenMedia(ok)

States == [started : BOOLEAN, ready : BOOLEAN, activePeer : Addresses \cup {None},
           udpRelaysStarted : BOOLEAN, pump : BOOLEAN]
Calls == [pc : {"idle", "shutdown", "open", "media"}, peer : Targets \cup {None}]
Dials == [pc : {"idle", "open", "media"}, peer : Addresses \cup {None}]

NbTypeOK ==
  /\ libReady \in BOOLEAN /\ mgrPolling \in BOOLEAN
  /\ list \in Lists /\ cachedPeers \in Lists /\ refreshing \in Lists \cup {None}
  /\ moved \in BOOLEAN
  /\ proxy \in Addresses \cup {None} /\ udp \in Addresses \cup {None}
  /\ granted \in Targets \cup {None} /\ mgrPeer \in Addresses \cup {None}
  /\ state \in States /\ call \in Calls /\ mgrDial \in Dials
=============================================================================
