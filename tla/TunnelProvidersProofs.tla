------------------------ MODULE TunnelProvidersProofs ------------------------
(***************************************************************************)
(* Proofs about TunnelProviders, for any peers, addresses and peer lists:  *)
(* only one provider is up, a NetBird route is for the peer that was asked *)
(* for, a stopped NetBird provider leaves no proxy behind, and the         *)
(* WireGuard provider implements RouteProvider.                            *)
(***************************************************************************)
EXTENDS TunnelProviders, TLAPS

\* A relay has a target and belongs to a tunnel that runs.
RelayHasTunnel == relay # "none" => Running /\ activeTarget # None

WgInv == WgTypeOK /\ RelayHasTunnel

\* A call in progress is one of a started provider.
CallHolds ==
  /\ call.pc = "idle" <=> call = Idle
  /\ mgrDial.pc = "idle" <=> mgrDial = Idle
  /\ call.pc # "idle" => state.started
  /\ call.pc \in {"open", "media"} => call.peer \in Targets

\* While the provider is stopped, the proxies are those of NetBirdManager's
\* last dial, as far as it has got.
LeftByManager ==
  ~state.started =>
    /\ mgrDial.pc = "open" => proxy = None /\ udp = None
    /\ mgrDial.pc = "media" => proxy \in {None, mgrDial.peer} /\ udp = None
    /\ mgrDial.pc = "idle" => {proxy, udp} \subseteq {None, mgrPeer}

NbInv == /\ PortsTypeOK /\ NbTypeOK /\ CallHolds
         /\ LeftByManager /\ RouteToRequestedPeer

\* A provider that is up is the selected one, or NetBird on its way down in
\* the middle of a selection.
SelectionHolds ==
  /\ selected \in ProviderIds \cup {None} /\ selecting \in ProviderIds \cup {None}
  /\ selecting # None => selected = None
  /\ Running => selected = "wireguard"
  /\ state.started => selected = "netbird" \/ call.pc = "shutdown"
  /\ call.pc = "shutdown" => selected = None

TunnelInv == WgInv /\ NbInv /\ SelectionHolds

\* A call in progress and the background neither start the provider nor begin
\* or abandon a stop.
KeepsStarted ==
  /\ state'.started => state.started /\ (call.pc = "shutdown" => call'.pc = "shutdown")
  /\ call'.pc = "shutdown" => call.pc = "shutdown"

-----------------------------------------------------------------------------

\* The addresses and the owners of the ports are not None, and the lists hold
\* addresses.
LEMMA NbNotNone ==
  /\ None \notin Addresses /\ None \notin ProviderIds
  /\ \A L \in Lists : \A t \in L : t.address \in Addresses
  /\ {} \in Lists
BY NetBirdAssumption, TunnelAssumption DEF Targets

\* The idle call and the state of a stopped provider.
LEMMA IdleFacts ==
  /\ Idle \in Calls /\ Idle \in Dials /\ Idle.pc = "idle" /\ Idle.peer = None
  /\ Reset \in States /\ Reset.started = FALSE /\ Reset.activePeer = None
BY DEF Idle, Calls, Dials, Reset, States

\* Nothing is up before the first selection.
LEMMA InitTunnelInv == Init => TunnelInv
<1> SUFFICES ASSUME Init PROVE TunnelInv
  OBVIOUS
<1> USE IdleFacts, NbNotNone DEF Init, WgInit, NbInit
<1>1. WgInv
  BY DEF WgInv, WgTypeOK, RelayHasTunnel, Statuses
<1>2. NbInv
  <2>1. PortsTypeOK /\ NbTypeOK
    BY DEF PortsTypeOK, NbTypeOK
  <2>2. CallHolds /\ LeftByManager /\ RouteToRequestedPeer
    BY DEF CallHolds, LeftByManager, RouteToRequestedPeer
  <2>3. QED BY <2>1, <2>2 DEF NbInv
<1>3. SelectionHolds
  BY DEF SelectionHolds, Running
<1>4. QED BY <1>1, <1>2, <1>3 DEF TunnelInv

-----------------------------------------------------------------------------
(* WireGuardProvider.                                                      *)

\* An answer has its type.
LEMMA AnswerTyped ==
  ASSUME NEW op \in {"start", "stop", "activate", "prepare", "deactivate"},
         NEW p \in Peers \cup {None}, NEW ok \in BOOLEAN, Answered(op, p, ok)
  PROVE  wgLast' \in [op : {"start", "stop", "activate", "prepare", "deactivate"},
                       peer : Peers \cup {None}, ok : BOOLEAN]
BY DEF Answered

\* A start or a stop drops the relay with the old tunnel.
LEMMA WgTunnelStep ==
  ASSUME WgInv, PortsTypeOK, WgStart \/ WgStop
  PROVE  WgInv' /\ PortsTypeOK'
<1> USE DEF WgInv, WgStart, WgStop, ClearRelay, FreedBy
<1>1. WgTypeOK'
  <2>1. udpPrepared' \in BOOLEAN /\ (status' = "Running") \in BOOLEAN
    OBVIOUS
  <2>2. wgLast' \in [op : {"start", "stop", "activate", "prepare", "deactivate"},
                     peer : Peers \cup {None}, ok : BOOLEAN]
    BY <2>1, AnswerTyped
  <2>3. QED BY <2>1, <2>2 DEF WgTypeOK, Statuses
<1>2. RelayHasTunnel'
  BY DEF RelayHasTunnel
<1>3. PortsTypeOK'
  BY DEF PortsTypeOK
<1>4. QED BY <1>1, <1>2, <1>3

\* A call for a peer, or the end of the relay.
LEMMA WgCallStep ==
  ASSUME WgInv, PortsTypeOK, RelayDies \/ \E p \in Peers : WgCall(p)
  PROVE  WgInv' /\ PortsTypeOK' /\ status' = status
<1> USE WireGuardAssumption DEF WgInv, ClearRelay, KeepRelay, FreedBy
<1>1. CASE RelayDies
  <2>1. WgTypeOK' /\ PortsTypeOK'
    BY <1>1 DEF RelayDies, WgTypeOK, PortsTypeOK
  <2>2. QED BY <1>1, <2>1 DEF RelayDies, RelayHasTunnel, Running
<1>2. ASSUME NEW p \in Peers, WgCall(p)
      PROVE  WgInv' /\ PortsTypeOK' /\ status' = status
  <2>1. wgLast' \in [op : {"start", "stop", "activate", "prepare", "deactivate"},
                     peer : Peers \cup {None}, ok : BOOLEAN]
    BY <1>2, AnswerTyped DEF WgCall, WgActivateAgain, WgActivate, WgActivateFails,
       WgPrepare, WgDeactivate
  <2>2. status' = status /\ udpPrepared' \in BOOLEAN
    BY <1>2 DEF WgCall, WgActivateAgain, WgActivate, WgActivateFails, WgPrepare,
       WgDeactivate, WgTypeOK
  <2>3. /\ relay' \in {"none", "running", "dead"}
        /\ activeTarget' \in Peers \cup {None}
    BY <1>2 DEF WgCall, WgActivateAgain, WgActivate, WgActivateFails, WgPrepare,
       WgDeactivate, WgTypeOK
  <2>4. PortsTypeOK'
    BY <1>2 DEF WgCall, WgActivateAgain, WgActivate, WgActivateFails, WgPrepare,
       WgDeactivate, PortsTypeOK, BoundBy
  <2>5. RelayHasTunnel'
    BY <1>2 DEF WgCall, WgActivateAgain, WgActivate, WgActivateFails, WgPrepare,
       WgDeactivate, CanRoute, Running, RelayHasTunnel
  <2>6. QED BY <2>1, <2>2, <2>3, <2>4, <2>5 DEF WgTypeOK
<1>3. QED BY <1>1, <1>2

-----------------------------------------------------------------------------
(* NetBirdProvider.                                                        *)

\* A step that opens no proxy leaves nothing behind, when it does not begin
\* or end a dial.
LEMMA LeftKept ==
  ASSUME LeftByManager, UNCHANGED <<mgrPeer, mgrDial>>,
         \/ state'.started
         \/ proxy' = None /\ udp' = None
         \/ ~state.started /\ proxy' \in {None, proxy} /\ udp' \in {None, udp}
  PROVE  LeftByManager'
BY DEF LeftByManager

\* A new list, or a call that goes on or returns, leaves the binding alone.
LEMMA RouteKept ==
  ASSUME RouteToRequestedPeer, moved' \/ UNCHANGED <<list, moved>>,
         granted' \in {granted, call.peer, None},
         call'.peer \in {granted, call.peer, None}
  PROVE  RouteToRequestedPeer'
BY DEF RouteToRequestedPeer

\* A list of the control plane counts as a change.
LEMMA LibInitFacts ==
  ASSUME NEW L \in Lists, LibInit(L)
  PROVE  list' \in Lists /\ moved' /\ moved' \in BOOLEAN /\ libReady' \in BOOLEAN
BY DEF LibInit

\* A start takes the first list; one that fails changes nothing.
LEMMA NbStartStep ==
  ASSUME NbInv, NEW ok \in BOOLEAN, NbStart(ok)
  PROVE  NbInv'
<1> USE NbNotNone DEF NbInv, libVars, proxyVars, cacheVars, mgrVars
<1> USE DEF NbStart
<1>1. /\ list' \in Lists /\ libReady' \in BOOLEAN /\ moved' \in BOOLEAN
      /\ moved' \/ UNCHANGED <<list, moved>>
  BY LibInitFacts DEF NbTypeOK
<1>2. /\ state' = state \/ state' = [Reset EXCEPT !.started = TRUE, !.ready = TRUE, !.pump = TRUE]
      /\ cachedPeers' = cachedPeers \/ cachedPeers' = list'
  OBVIOUS
<1>3. /\ state' \in States /\ (state' = state \/ state'.started)
      /\ state'.activePeer \in {None, state.activePeer}
  BY <1>2 DEF NbTypeOK, States, Reset
<1>4. PortsTypeOK'
  BY <1>1, <1>2, <1>3 DEF PortsTypeOK
<1>5. NbTypeOK'
  BY <1>1, <1>2, <1>3 DEF NbTypeOK
<1>6. CallHolds'
  BY <1>1, <1>2, <1>3 DEF CallHolds
<1>7. LeftByManager'
  BY <1>1, <1>2, <1>3, LeftKept
<1>8. RouteToRequestedPeer'
  BY <1>1, <1>2, <1>3, RouteKept
<1>9. QED BY <1>4, <1>5, <1>6, <1>7, <1>8

\* A stop begins: the proxies go, the pump is told to end.
LEMMA NbStopStep ==
  ASSUME NbInv, NbStop \/ NbStopIdle
  PROVE  NbInv'
<1> USE NbNotNone DEF NbInv, libVars, proxyVars, cacheVars, mgrVars
<1> USE DEF NbStop, NbStopIdle
<1>1. /\ state' \in States /\ state'.started = state.started /\ state'.activePeer = state.activePeer
      /\ state.started \/ state' = state
  BY DEF NbTypeOK, States
<1>2. /\ proxy' \in {None, proxy} /\ udp' \in {None, udp} /\ PortsTypeOK'
  BY DEF StopProxies, FreedBy, PortsTypeOK
<1>3. call.pc = "idle" /\ call' \in Calls /\ (call' = call \/ (call'.pc = "shutdown" /\ call' # Idle /\ state.started))
  BY IdleFacts DEF Calls, Idle
<1>4. PortsTypeOK'
  BY <1>1, <1>2, <1>3 DEF PortsTypeOK
<1>5. NbTypeOK'
  BY <1>1, <1>2, <1>3 DEF NbTypeOK
<1>6. CallHolds'
  BY <1>1, <1>2, <1>3 DEF CallHolds
<1>7. LeftByManager'
  BY <1>1, <1>2, <1>3, LeftKept
<1>8. RouteToRequestedPeer'
  BY <1>1, <1>2, <1>3, IdleFacts, RouteKept
<1>9. QED BY <1>4, <1>5, <1>6, <1>7, <1>8

\* The stop ends: nothing of the session is left.
LEMMA NbShutdownStep ==
  ASSUME NbInv, NbShutdown
  PROVE  NbInv' /\ KeepsStarted
<1> USE NbNotNone DEF NbInv, libVars, proxyVars, cacheVars, mgrVars
<1> USE DEF NbShutdown
<1>1. /\ proxy' = None /\ udp' = None /\ PortsTypeOK'
  BY DEF StopProxies, FreedBy, PortsTypeOK
<1>2. state' \in States /\ state'.started = FALSE /\ state'.activePeer = None
  BY IdleFacts
<1>3. call' = Idle /\ call' \in Calls /\ call'.pc = "idle"
  BY IdleFacts
<1>4. libReady' \in BOOLEAN
  OBVIOUS
<1>5. PortsTypeOK'
  BY <1>1, <1>2, <1>3, <1>4 DEF PortsTypeOK
<1>6. NbTypeOK'
  BY <1>1, <1>2, <1>3, <1>4 DEF NbTypeOK
<1>7. CallHolds'
  BY <1>1, <1>2, <1>3, <1>4 DEF CallHolds
<1>8. LeftByManager'
  BY <1>1, <1>2, <1>3, <1>4, LeftKept
<1>9. RouteToRequestedPeer'
  BY <1>1, <1>2, <1>3, <1>4, IdleFacts, RouteKept
<1>10. KeepsStarted
  BY <1>1, <1>2, <1>3, <1>4 DEF KeepsStarted
<1>11. QED BY <1>5, <1>6, <1>7, <1>8, <1>9, <1>10

\* A new list, or the transport goes.
LEMMA SyncStep ==
  ASSUME NbInv, Sync
  PROVE  NbInv' /\ KeepsStarted
<1> USE NbNotNone DEF NbInv, libVars, proxyVars, cacheVars, mgrVars
<1> USE DEF Sync
<1>1. /\ list' \in Lists /\ libReady' \in BOOLEAN /\ moved' \in BOOLEAN
      /\ moved' \/ UNCHANGED <<list, moved>>
  BY DEF NbTypeOK
<1>2. PortsTypeOK'
  BY <1>1 DEF PortsTypeOK
<1>3. NbTypeOK'
  BY <1>1 DEF NbTypeOK
<1>4. CallHolds'
  BY <1>1 DEF CallHolds
<1>5. LeftByManager'
  BY <1>1, LeftKept
<1>6. RouteToRequestedPeer'
  BY <1>1, RouteKept
<1>7. KeepsStarted
  BY <1>1 DEF KeepsStarted
<1>8. QED BY <1>2, <1>3, <1>4, <1>5, <1>6, <1>7

\* The pump follows the transport.
LEMMA PumpStep ==
  ASSUME NbInv, Pump
  PROVE  NbInv' /\ KeepsStarted
<1> USE NbNotNone DEF NbInv, libVars, proxyVars, cacheVars, mgrVars
<1> USE DEF Pump
<1>1. state' \in States /\ state'.started = state.started /\ state'.activePeer = state.activePeer
  BY DEF NbTypeOK, States
<1>2. PortsTypeOK'
  BY <1>1 DEF PortsTypeOK
<1>3. NbTypeOK'
  BY <1>1 DEF NbTypeOK
<1>4. CallHolds'
  BY <1>1 DEF CallHolds
<1>5. LeftByManager'
  BY <1>1, LeftKept
<1>6. RouteToRequestedPeer'
  BY <1>1, RouteKept
<1>7. KeepsStarted
  BY <1>1 DEF KeepsStarted
<1>8. QED BY <1>2, <1>3, <1>4, <1>5, <1>6, <1>7

\* A refresh is scanned, and stored later.
LEMMA CacheStep ==
  ASSUME NbInv, ScanPeers \/ StorePeers
  PROVE  NbInv' /\ KeepsStarted
<1> USE NbNotNone DEF NbInv, libVars, proxyVars, cacheVars, mgrVars
<1> USE DEF ScanPeers, StorePeers
<1>1. cachedPeers' \in Lists /\ refreshing' \in Lists \cup {None}
  BY DEF NbTypeOK
<1>2. PortsTypeOK'
  BY <1>1 DEF PortsTypeOK
<1>3. NbTypeOK'
  BY <1>1 DEF NbTypeOK
<1>4. CallHolds'
  BY <1>1 DEF CallHolds
<1>5. LeftByManager'
  BY <1>1, LeftKept
<1>6. RouteToRequestedPeer'
  BY <1>1, RouteKept
<1>7. KeepsStarted
  BY <1>1 DEF KeepsStarted
<1>8. QED BY <1>2, <1>3, <1>4, <1>5, <1>6, <1>7

\* An activation of a listed target stops the proxy of before.
LEMMA NbActivateStep ==
  ASSUME NbInv, NEW t \in Targets, NbActivate(t)
  PROVE  NbInv' /\ KeepsStarted
<1> USE NbNotNone DEF NbInv, libVars, proxyVars, cacheVars, mgrVars
<1> USE DEF NbActivate
<1>1. /\ proxy' \in {None, proxy} /\ udp' \in {None, udp} /\ PortsTypeOK'
  BY DEF StopProxies, FreedBy, PortsTypeOK
<1>2. /\ state' \in States /\ state'.started = state.started /\ state'.activePeer = state.activePeer
      /\ state.started \/ state' = state
  BY DEF NbTypeOK, States, Admits
<1>3. /\ call.pc = "idle" /\ call' \in Calls
      /\ \/ call' = call
         \/ call'.pc = "open" /\ call' # Idle /\ state.started /\ call'.peer = t
  BY IdleFacts DEF Calls, Idle, Admits
<1>4. /\ granted' \in {t, None} /\ moved' \in {FALSE, moved}
      /\ (granted' = None /\ call' = call) \/ t \in list
      /\ UNCHANGED <<libReady, list>>
  BY DEF Admits
<1>5. PortsTypeOK'
  BY <1>1, <1>2, <1>3, <1>4 DEF PortsTypeOK
<1>6. NbTypeOK'
  BY <1>1, <1>2, <1>3, <1>4 DEF NbTypeOK
<1>7. CallHolds'
  BY <1>1, <1>2, <1>3, <1>4 DEF CallHolds
<1>8. LeftByManager'
  BY <1>1, <1>2, <1>3, <1>4, LeftKept
<1>9. RouteToRequestedPeer'
  BY <1>3, <1>4, IdleFacts DEF RouteToRequestedPeer
<1>10. KeepsStarted
  BY <1>1, <1>2, <1>3, <1>4 DEF KeepsStarted
<1>11. QED BY <1>5, <1>6, <1>7, <1>8, <1>9, <1>10

\* The proxy opens for the target of the call, or fails.
LEMMA NbOpenStep ==
  ASSUME NbInv, NEW ok \in BOOLEAN, NbOpen(ok)
  PROVE  NbInv' /\ KeepsStarted
<1> USE NbNotNone DEF NbInv, libVars, proxyVars, cacheVars, mgrVars
<1> USE DEF NbOpen
<1>0. call.peer \in Targets /\ call.peer.address \in Addresses /\ state.started
  BY DEF CallHolds, Targets
<1>1. /\ proxy' \in {None, proxy, call.peer.address} /\ PortsTypeOK'
  BY DEF ProxyStart, BoundBy, FreeFor, PortsTypeOK
<1>2. /\ state' \in States /\ state'.started = state.started /\ state.started
  BY <1>0 DEF NbTypeOK, States
<1>3. call' = Idle /\ call' \in Calls /\ call'.pc = "idle"
  BY IdleFacts
<1>4. granted' \in {granted, call.peer}
  OBVIOUS
<1>5. PortsTypeOK'
  BY <1>1, <1>2, <1>3, <1>4 DEF PortsTypeOK
<1>6. NbTypeOK'
  BY <1>0, <1>1, <1>2, <1>3, <1>4 DEF NbTypeOK
<1>7. CallHolds'
  BY <1>1, <1>2, <1>3, <1>4 DEF CallHolds
<1>8. LeftByManager'
  BY <1>1, <1>2, <1>3, <1>4, LeftKept
<1>9. RouteToRequestedPeer'
  BY <1>1, <1>2, <1>3, <1>4, IdleFacts, RouteKept
<1>10. KeepsStarted
  BY <1>1, <1>2, <1>3, <1>4 DEF KeepsStarted
<1>11. QED BY <1>5, <1>6, <1>7, <1>8, <1>9, <1>10

\* Media relays that run are stopped before new ones.
LEMMA NbPrepareStep ==
  ASSUME NbInv, NEW t \in Targets, NbPrepare(t)
  PROVE  NbInv' /\ KeepsStarted
<1> USE NbNotNone DEF NbInv, libVars, proxyVars, cacheVars, mgrVars
<1> USE DEF NbPrepare
<1>1. /\ state' \in States /\ state'.started = state.started /\ state'.activePeer = state.activePeer
      /\ state.started \/ state' = state
  BY DEF NbTypeOK, States
<1>2. /\ call.pc = "idle" /\ call' \in Calls
      /\ \/ call' = call
         \/ call'.pc = "media" /\ call' # Idle /\ state.started /\ call'.peer = t
  BY IdleFacts DEF Calls, Idle
<1>3. udp' \in {None, udp} /\ granted = t
  OBVIOUS
<1>4. PortsTypeOK'
  BY <1>1, <1>2, <1>3 DEF PortsTypeOK
<1>5. NbTypeOK'
  BY <1>1, <1>2, <1>3 DEF NbTypeOK
<1>6. CallHolds'
  BY <1>1, <1>2, <1>3 DEF CallHolds
<1>7. LeftByManager'
  BY <1>1, <1>2, <1>3, LeftKept
<1>8. RouteToRequestedPeer'
  BY <1>1, <1>2, <1>3, RouteKept
<1>9. KeepsStarted
  BY <1>1, <1>2, <1>3 DEF KeepsStarted
<1>10. QED BY <1>4, <1>5, <1>6, <1>7, <1>8, <1>9

\* The media relays open for the peer of the call, or fail.
LEMMA NbOpenMediaStep ==
  ASSUME NbInv, NEW ok \in BOOLEAN, NbOpenMedia(ok)
  PROVE  NbInv' /\ KeepsStarted
<1> USE NbNotNone DEF NbInv, libVars, proxyVars, cacheVars, mgrVars
<1> USE DEF NbOpenMedia
<1>1. /\ state' \in States /\ state'.started = state.started /\ state.started
      /\ state'.activePeer = state.activePeer
  BY DEF NbTypeOK, States, CallHolds
<1>2. call' = Idle /\ call' \in Calls /\ call'.pc = "idle"
  BY IdleFacts
<1>3. call.peer.address \in Addresses /\ udp' \in {None, udp, call.peer.address}
  BY DEF CallHolds, Targets, UdpStart
<1>4. PortsTypeOK'
  BY <1>1, <1>2, <1>3 DEF PortsTypeOK
<1>5. NbTypeOK'
  BY <1>1, <1>2, <1>3 DEF NbTypeOK
<1>6. CallHolds'
  BY <1>1, <1>2, <1>3 DEF CallHolds
<1>7. LeftByManager'
  BY <1>1, <1>2, <1>3, LeftKept
<1>8. RouteToRequestedPeer'
  BY <1>1, <1>2, <1>3, IdleFacts, RouteKept
<1>9. KeepsStarted
  BY <1>1, <1>2, <1>3 DEF KeepsStarted
<1>10. QED BY <1>4, <1>5, <1>6, <1>7, <1>8, <1>9

\* A release of the active peer stops its proxies.
LEMMA NbDeactivateStep ==
  ASSUME NbInv, NEW t \in Targets, NbDeactivate(t)
  PROVE  NbInv' /\ KeepsStarted
<1> USE NbNotNone DEF NbInv, libVars, proxyVars, cacheVars, mgrVars
<1> USE DEF NbDeactivate
<1>1. /\ proxy' \in {None, proxy} /\ udp' \in {None, udp} /\ PortsTypeOK'
  BY DEF StopProxies, FreedBy, PortsTypeOK
<1>2. /\ state' \in States /\ state'.started = state.started
      /\ state'.activePeer \in {None, state.activePeer}
      /\ state.started \/ state' = state
  BY DEF NbTypeOK, States
<1>3. PortsTypeOK'
  BY <1>1, <1>2 DEF PortsTypeOK
<1>4. NbTypeOK'
  BY <1>1, <1>2 DEF NbTypeOK
<1>5. CallHolds'
  BY <1>1, <1>2 DEF CallHolds
<1>6. LeftByManager'
  BY <1>1, <1>2, LeftKept
<1>7. RouteToRequestedPeer'
  BY <1>1, <1>2, RouteKept
<1>8. KeepsStarted
  BY <1>1, <1>2 DEF KeepsStarted
<1>9. QED BY <1>3, <1>4, <1>5, <1>6, <1>7, <1>8

\* NetBirdManager logs in by itself.
LEMMA MgrConnectStep ==
  ASSUME NbInv, MgrConnect
  PROVE  NbInv' /\ KeepsStarted
<1> USE NbNotNone DEF NbInv, libVars, proxyVars, cacheVars, mgrVars
<1> USE DEF MgrConnect
<1>1. /\ list' \in Lists /\ libReady' \in BOOLEAN /\ moved' \in BOOLEAN
      /\ moved' \/ UNCHANGED <<list, moved>>
  BY LibInitFacts DEF NbTypeOK
<1>2. mgrPolling' \in BOOLEAN
  OBVIOUS
<1>3. PortsTypeOK'
  BY <1>1, <1>2 DEF PortsTypeOK
<1>4. NbTypeOK'
  BY <1>1, <1>2 DEF NbTypeOK
<1>5. CallHolds'
  BY <1>1, <1>2 DEF CallHolds
<1>6. LeftByManager'
  BY <1>1, <1>2, LeftKept
<1>7. RouteToRequestedPeer'
  BY <1>1, <1>2, RouteKept
<1>8. KeepsStarted
  BY <1>1, <1>2 DEF KeepsStarted
<1>9. QED BY <1>3, <1>4, <1>5, <1>6, <1>7, <1>8

\* A redirected dial is one of a listed address.
LEMMA MgrDialStep ==
  ASSUME NbInv, NEW a \in Addresses, MgrDial(a)
  PROVE  NbInv' /\ KeepsStarted
<1> USE NbNotNone DEF NbInv, libVars, proxyVars, cacheVars, mgrVars
<1> USE DEF MgrDial
<1>1. /\ proxy' = None /\ udp' = None /\ PortsTypeOK'
  BY DEF StopProxies, FreedBy, PortsTypeOK
<1>2. /\ mgrDial' \in Dials /\ mgrDial'.pc = "open" /\ mgrDial' # Idle
  BY DEF Dials, Idle
<1>3. PortsTypeOK'
  BY <1>1, <1>2 DEF PortsTypeOK
<1>4. NbTypeOK'
  BY <1>1, <1>2 DEF NbTypeOK
<1>5. CallHolds'
  BY <1>1, <1>2 DEF CallHolds
<1>6. LeftByManager'
  BY <1>1, <1>2 DEF LeftByManager
<1>7. RouteToRequestedPeer'
  BY <1>1, <1>2, RouteKept
<1>8. KeepsStarted
  BY <1>1, <1>2 DEF KeepsStarted
<1>9. QED BY <1>3, <1>4, <1>5, <1>6, <1>7, <1>8

\* The proxy of a dial opens, or fails.
LEMMA MgrOpenStep ==
  ASSUME NbInv, NEW ok \in BOOLEAN, MgrOpen(ok)
  PROVE  NbInv' /\ KeepsStarted
<1> USE NbNotNone DEF NbInv, libVars, proxyVars, cacheVars, mgrVars
<1> USE DEF MgrOpen
<1>1. /\ proxy' \in {None, proxy, mgrDial.peer} /\ PortsTypeOK'
  BY DEF ProxyStart, BoundBy, FreeFor, PortsTypeOK
<1>2. mgrDial.peer \in Addresses \cup {None} /\ mgrDial' \in Dials
  BY IdleFacts DEF NbTypeOK, Dials
<1>3. mgrDial' = Idle \/ (mgrDial'.pc = "media" /\ mgrDial' # Idle /\ mgrDial'.peer = mgrDial.peer)
  BY DEF NbTypeOK, Dials, Idle
<1>4. Idle.pc = "idle"
  BY IdleFacts
<1>5. PortsTypeOK'
  BY <1>1, <1>2, <1>3, <1>4 DEF PortsTypeOK
<1>6. NbTypeOK'
  BY <1>1, <1>2, <1>3, <1>4 DEF NbTypeOK
<1>7. CallHolds'
  BY <1>1, <1>2, <1>3, <1>4 DEF CallHolds
<1>8. LeftByManager'
  <2> SUFFICES ASSUME ~state.started PROVE LeftByManager'
    BY DEF LeftByManager
  <2>1. proxy = None /\ udp = None /\ udp' = udp
    BY DEF LeftByManager
  <2>2. CASE ok
    BY <1>1, <2>1, <2>2 DEF LeftByManager
  <2>3. CASE ~ok
    <3>1. proxy' = None /\ mgrDial' = Idle
      BY <2>1, <2>3 DEF ProxyStart
    <3>2. QED BY <1>4, <2>1, <3>1 DEF LeftByManager
  <2>4. QED BY <2>2, <2>3
<1>9. RouteToRequestedPeer'
  BY <1>1, <1>2, <1>3, <1>4, RouteKept
<1>10. KeepsStarted
  BY <1>1, <1>2, <1>3, <1>4 DEF KeepsStarted
<1>11. QED BY <1>5, <1>6, <1>7, <1>8, <1>9, <1>10

\* The media relays of a dial open, or its proxy goes.
LEMMA MgrOpenMediaStep ==
  ASSUME NbInv, NEW ok \in BOOLEAN, MgrOpenMedia(ok)
  PROVE  NbInv' /\ KeepsStarted
<1> USE NbNotNone DEF NbInv, libVars, proxyVars, cacheVars, mgrVars
<1> USE DEF MgrOpenMedia
<1>1. proxy' \in {None, proxy} /\ udp' \in {None, udp, mgrDial.peer} /\ PortsTypeOK'
  BY DEF StopProxies, FreedBy, PortsTypeOK, UdpStart
<1>2. mgrDial.peer \in Addresses \cup {None} /\ mgrDial' \in Dials
  BY IdleFacts DEF NbTypeOK, Dials
<1>3. Idle.pc = "idle"
  BY IdleFacts
<1>4. PortsTypeOK'
  BY <1>1, <1>2, <1>3 DEF PortsTypeOK
<1>5. NbTypeOK'
  BY <1>1, <1>2, <1>3 DEF NbTypeOK
<1>6. CallHolds'
  BY <1>1, <1>2, <1>3 DEF CallHolds
<1>7. LeftByManager'
  <2> SUFFICES ASSUME ~state.started PROVE LeftByManager'
    BY DEF LeftByManager
  <2>1. proxy \in {None, mgrDial.peer} /\ udp = None /\ mgrDial' = Idle
    BY DEF LeftByManager
  <2>2. {proxy', udp'} \subseteq {None, mgrPeer'}
    BY <2>1 DEF UdpStart, StopProxies
  <2>3. QED BY <1>3, <2>1, <2>2 DEF LeftByManager
<1>8. RouteToRequestedPeer'
  BY <1>1, <1>2, <1>3, RouteKept
<1>9. KeepsStarted
  BY <1>1, <1>2, <1>3 DEF KeepsStarted
<1>10. QED BY <1>4, <1>5, <1>6, <1>7, <1>8, <1>9

-----------------------------------------------------------------------------
(* Both providers under the selection.                                     *)

\* A call in progress and the background keep the invariant of NetBird.
LEMMA NbUseStep ==
  ASSUME NbInv, NbCall \/ NbBackground
  PROVE  NbInv' /\ KeepsStarted
BY NbShutdownStep, SyncStep, PumpStep, CacheStep, NbActivateStep, NbOpenStep, NbPrepareStep,
   NbOpenMediaStep, NbDeactivateStep, MgrConnectStep, MgrDialStep, MgrOpenStep,
   MgrOpenMediaStep DEF NbCall, NbBackground

\* What NetBird alone changes leaves WireGuard's invariant, and the reverse.
LEMMA WgUnchanged == ASSUME WgInv, UNCHANGED wgVars PROVE WgInv'
BY DEF WgInv, WgTypeOK, RelayHasTunnel, Running, wgVars

\* A step of the other provider leaves NetBird's invariant alone.
LEMMA NbUnchanged == ASSUME NbInv, UNCHANGED nbVars, PortsTypeOK' PROVE NbInv'
BY DEF NbInv, NbTypeOK, CallHolds, LeftByManager, RouteToRequestedPeer,
   nbVars,
   cacheVars, mgrVars

\* The provider of before is stopped.
LEMMA SelectStep ==
  ASSUME TunnelInv, NEW p \in ProviderIds, Select(p)
  PROVE  TunnelInv'
<1> USE NbNotNone DEF TunnelInv
<1>1. /\ selecting = None /\ call = Idle /\ call.pc = "idle"
      /\ selecting' = p /\ selected' = None
  BY IdleFacts DEF Select
<1>2. CASE selected = "wireguard" /\ WgStop /\ UNCHANGED nbVars
  <2>1. WgInv' /\ NbInv'
    BY <1>2, WgTunnelStep, NbUnchanged DEF NbInv
  <2>2. SelectionHolds'
    BY <1>1, <1>2 DEF SelectionHolds, WgStop, Running, nbVars
  <2>3. QED BY <2>1, <2>2
<1>3. CASE selected = "netbird" /\ (NbStop \/ NbStopIdle) /\ UNCHANGED wgVars
  <2>1. WgInv' /\ NbInv'
    BY <1>3, NbStopStep, WgUnchanged
  <2>2. ~Running' /\ (state'.started => call'.pc = "shutdown")
    BY <1>3 DEF SelectionHolds, NbStop, NbStopIdle, Running, wgVars
  <2>3. SelectionHolds'
    BY <1>1, <2>2 DEF SelectionHolds
  <2>4. QED BY <2>1, <2>3
<1>4. CASE selected = None /\ UNCHANGED <<wgVars, nbVars, loopback>>
  <2>1. WgInv' /\ NbInv'
    BY <1>4, WgUnchanged, NbUnchanged DEF NbInv, PortsTypeOK
  <2>2. SelectionHolds'
    BY <1>1, <1>4 DEF SelectionHolds, Running, wgVars, nbVars
  <2>3. QED BY <2>1, <2>2
<1>5. QED BY <1>2, <1>3, <1>4 DEF Select

\* The new provider starts with the one of before down.
LEMMA StartSelectedStep ==
  ASSUME TunnelInv, StartSelected
  PROVE  TunnelInv'
<1> USE NbNotNone DEF TunnelInv
<1>1. /\ selecting \in ProviderIds /\ selected = None /\ call.pc = "idle"
      /\ selecting' = None /\ ~Running /\ ~state.started
      /\ selected' = IF Running' \/ state'.started THEN selecting ELSE None
  BY IdleFacts DEF StartSelected, SelectionHolds, ProviderIds
<1>2. CASE selecting = "wireguard" /\ WgStart /\ UNCHANGED nbVars
  <2>1. WgInv' /\ NbInv'
    BY <1>2, WgTunnelStep, NbUnchanged DEF NbInv
  <2>2. SelectionHolds'
    BY <1>1, <1>2 DEF SelectionHolds, nbVars
  <2>3. QED BY <2>1, <2>2
<1>3. CASE selecting = "netbird" /\ (\E ok \in BOOLEAN : NbStart(ok)) /\ UNCHANGED wgVars
  <2>1. WgInv' /\ NbInv'
    BY <1>3, NbStartStep, WgUnchanged
  <2>2. ~Running' /\ call' = call
    BY <1>1, <1>3 DEF NbStart, Running, wgVars
  <2>3. SelectionHolds'
    BY <1>1, <1>3, <2>2 DEF SelectionHolds
  <2>4. QED BY <2>1, <2>3
<1>4. QED BY <1>2, <1>3 DEF StartSelected

\* Every step keeps the invariant.
LEMMA TunnelInvStep == TunnelInv /\ [Next]_vars => TunnelInv'
<1> SUFFICES ASSUME TunnelInv, [Next]_vars PROVE TunnelInv'
  OBVIOUS
<1>1. ASSUME NEW p \in ProviderIds, Select(p) PROVE TunnelInv'
  BY <1>1, SelectStep
<1>2. CASE StartSelected
  BY <1>2, StartSelectedStep
<1>3. CASE UseWireGuard \/ (RelayDies /\ UNCHANGED wgOnly)
  <2>1. WgInv' /\ PortsTypeOK' /\ status' = status
    BY <1>3, WgCallStep DEF UseWireGuard, TunnelInv, NbInv
  <2>2. UNCHANGED <<nbVars, selected, selecting>>
    BY <1>3 DEF UseWireGuard, wgOnly
  <2>3. NbInv'
    BY <2>1, <2>2, NbUnchanged DEF TunnelInv
  <2>4. SelectionHolds'
    BY <2>1, <2>2 DEF TunnelInv, SelectionHolds, Running, nbVars
  <2>5. QED BY <2>1, <2>3, <2>4 DEF TunnelInv
<1>4. CASE (NbCall \/ NbBackground) /\ UNCHANGED <<wgVars, selected, selecting>>
  <2>1. NbInv' /\ KeepsStarted
    BY <1>4, NbUseStep DEF TunnelInv
  <2>2. WgInv'
    BY <1>4, WgUnchanged DEF TunnelInv
  <2>3. SelectionHolds'
    BY <1>4, <2>1 DEF TunnelInv, SelectionHolds, KeepsStarted, Running, wgVars
  <2>4. QED BY <2>1, <2>2, <2>3 DEF TunnelInv
<1>5. CASE UNCHANGED vars
  <2>1. WgInv' /\ NbInv'
    BY <1>5, WgUnchanged, NbUnchanged DEF TunnelInv, NbInv, PortsTypeOK, vars
  <2>2. SelectionHolds'
    BY <1>5 DEF TunnelInv, SelectionHolds, Running, vars, wgVars, nbVars
  <2>3. QED BY <2>1, <2>2 DEF TunnelInv
<1>6. QED
  BY <1>1, <1>2, <1>3, <1>4, <1>5 DEF Next, UseNetBird, Background

\* The inductive invariant holds.
THEOREM TunnelInvariant == Spec => []TunnelInv
BY InitTunnelInv, TunnelInvStep, PTL DEF Spec

\* The variables of both providers keep their types.
THEOREM TunnelTypes == Spec => []TypeOK
<1>1. TunnelInv => TypeOK
  BY DEF TunnelInv, WgInv, NbInv, SelectionHolds, TypeOK
<1>2. QED BY <1>1, TunnelInvariant, PTL

\* WireGuard and NetBird, which bind the same loopback ports, are never up
\* together, whatever the order of selections, stops and starts.
THEOREM OnlyOneProviderUp == Spec => []OneProviderUp
<1>1. TunnelInv => OneProviderUp
  BY TunnelAssumption DEF TunnelInv, SelectionHolds, OneProviderUp, ProviderIds
<1>2. QED BY <1>1, TunnelInvariant, PTL

\* A NetBird route under way or answered true is for the identity that holds
\* the address in the list of the control plane, unless a new list came since.
THEOREM RoutesToRequestedPeer == Spec => []RouteToRequestedPeer
<1>1. TunnelInv => RouteToRequestedPeer
  BY DEF TunnelInv, NbInv
<1>2. QED BY <1>1, TunnelInvariant, PTL

\* A stopped NetBird provider leaves no proxy of its own on the loopback ports.
THEOREM StoppedNetBirdLeavesNoProxy == Spec => []StoppedLeavesNoProxy
<1>1. ASSUME NbTypeOK, LeftByManager PROVE StoppedLeavesNoProxy
  <2>1. mgrDial.pc \in {"idle", "open", "media"}
    BY <1>1 DEF NbTypeOK, Dials
  <2>2. QED BY <1>1, <2>1 DEF LeftByManager, StoppedLeavesNoProxy
<1>2. TunnelInv => StoppedLeavesNoProxy
  BY <1>1 DEF TunnelInv, NbInv
<1>3. QED BY <1>2, TunnelInvariant, PTL

-----------------------------------------------------------------------------
(* WireGuardProvider implements RouteProvider.                             *)

\* A start or a stop answers as the contract says.
LEMMA WgTunnelImplements ==
  ASSUME WgInv, WgStart \/ WgStop
  PROVE  Provider!ProviderNext
<1>1. WgServed' = None /\ WgMedia' = None
  BY DEF WgStart, WgStop, ClearRelay, WgServed, WgMedia
<1>2. CASE WgStop
  <2>1. Provider!StopCall
    BY <1>1, <1>2 DEF WgStop, Answered, Running, Provider!StopCall, Provider!ServesNobody,
       Provider!Answer
  <2>2. QED BY <2>1 DEF Provider!ProviderNext
<1>3. CASE WgStart
  <2> DEFINE ok == status' = "Running"
  <2>1. ok \in BOOLEAN
    OBVIOUS
  <2>2. Provider!StartCall(ok)
    BY <1>1, <1>3 DEF WgStart, Answered, Running, Provider!StartCall, Provider!ServesNobody,
       Provider!Answer
  <2>3. QED BY <2>1, <2>2 DEF Provider!ProviderNext
<1>4. QED BY <1>2, <1>3

\* So does every call for a peer.
LEMMA WgCallImplements ==
  ASSUME WgInv, NEW p \in Peers, WgCall(p)
  PROVE  Provider!ProviderNext
<1> USE WireGuardAssumption
<1>1. Running' = Running
  BY DEF WgCall, WgActivateAgain, WgActivate, WgActivateFails, WgPrepare,
     WgDeactivate, Running
<1>2. CASE WgActivateAgain(p)
  <2>1. Provider!ActivateCall(p, TRUE)
    BY <1>1, <1>2 DEF WgActivateAgain, AlreadyServed, KeepRelay, CanRoute, Answered,
       WgServed,
       WgMedia, Provider!ActivateCall, Provider!Serves, Provider!Answer
  <2>2. QED BY <2>1 DEF Provider!ProviderNext
<1>3. CASE WgActivate(p)
  <2>1. Provider!ActivateCall(p, TRUE)
    BY <1>1, <1>3 DEF WgActivate, AlreadyServed, CanRoute, Answered, WgServed, WgMedia,
       Provider!ActivateCall, Provider!Serves, Provider!Answer
  <2>2. QED BY <2>1 DEF Provider!ProviderNext
<1>4. CASE WgActivateFails(p)
  <2>1. Provider!ActivateCall(p, FALSE)
    BY <1>1, <1>4 DEF WgActivateFails, KeepRelay, ClearRelay, Answered, WgServed, WgMedia,
       Provider!ActivateCall, Provider!ServesNobody, Provider!Unchanged, Provider!Answer
  <2>2. QED BY <2>1 DEF Provider!ProviderNext
<1>5. CASE WgPrepare(p)
  <2>1. Provider!PrepareCall(p, TRUE) \/ Provider!PrepareCall(p, FALSE)
    BY <1>1, <1>5 DEF WgPrepare, AlreadyServed, Answered, WgServed, WgMedia,
       Provider!PrepareCall, Provider!Answer
  <2>2. QED BY <2>1 DEF Provider!ProviderNext
<1>6. CASE WgDeactivate(p)
  <2>1. Provider!DeactivateCall(p)
    BY <1>1, <1>6 DEF WgDeactivate, ClearRelay, KeepRelay, Answered, WgServed, WgMedia,
       Provider!DeactivateCall, Provider!ServesNobody, Provider!Unchanged, Provider!Answer
  <2>2. QED BY <2>1 DEF Provider!ProviderNext
<1>7. QED BY <1>2, <1>3, <1>4, <1>5, <1>6 DEF WgCall

\* A relay that dies unnoticed is a route that is lost.
LEMMA RelayDiesImplements ==
  ASSUME WgInv, RelayDies
  PROVE  Provider!ProviderNext
<1>1. Provider!Lost
  BY DEF WgInv, RelayHasTunnel, RelayDies, WgServed, WgMedia, Running, Provider!Lost,
     Provider!ServesNobody
<1>2. QED BY <1>1 DEF Provider!ProviderNext

\* What leaves WireGuard alone is a step the contract does not see.
LEMMA WgStutter ==
  ASSUME UNCHANGED wgVars
  PROVE  UNCHANGED Provider!providerVars
BY DEF wgVars, WgServed, WgMedia, Running, Provider!providerVars

\* Every step is a step of the contract, or a stutter.
LEMMA ProviderStep == TunnelInv /\ [Next]_vars => [Provider!ProviderNext]_(Provider!providerVars)
<1> SUFFICES ASSUME TunnelInv, [Next]_vars
             PROVE  Provider!ProviderNext \/ UNCHANGED Provider!providerVars
  OBVIOUS
<1>1. WgInv
  BY DEF TunnelInv
<1>2. CASE \E p \in ProviderIds : Select(p)
  BY <1>1, <1>2, WgTunnelImplements, WgStutter DEF Select
<1>3. CASE StartSelected
  BY <1>1, <1>3, WgTunnelImplements, WgStutter DEF StartSelected
<1>4. CASE UseWireGuard
  BY <1>1, <1>4, WgCallImplements DEF UseWireGuard
<1>5. CASE UseNetBird \/ Background
  BY <1>1, <1>5, RelayDiesImplements, WgStutter DEF UseNetBird, Background
<1>6. CASE UNCHANGED vars
  BY <1>6, WgStutter DEF vars
<1>7. QED BY <1>2, <1>3, <1>4, <1>5, <1>6 DEF Next

\* WireGuardProvider implements the contract of a provider with exclusive
\* routes: each answer is true of the relay at that moment, also after the
\* relay died unnoticed and whatever NetBird does beside it.
THEOREM WireGuardImplementsProvider == Spec => WireGuardImplements
<1>1. Init => Provider!ProviderInit
  BY DEF Init, WgInit, Provider!ProviderInit, Running, WgServed, WgMedia
<1>2. QED
  BY <1>1, TunnelInvariant, ProviderStep, PTL DEF Spec, Provider!ProviderSpec,
     WireGuardImplements
==============================================================================
