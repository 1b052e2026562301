-------------------------- MODULE TunnelProviders --------------------------
(* The WireGuard and the NetBird provider in one process, under the        *)
(* selection of RemoteAccessManager and over one set of loopback ports:    *)
(* selectAndStartProvider stops the provider of before and then starts the *)
(* new one; NetBirdManager works whichever provider is selected.           *)

EXTENDS WireGuardProvider, NetBirdProvider

VARIABLES selected,   \* the provider that is selected and started, or None
          selecting   \* the provider a selection in progress will start

vars == <<wgVars, nbVars, loopback, selected, selecting>>
wgOnly == <<nbVars, selected, selecting>>

ProviderIds == {"wireguard", "netbird"}

ASSUME TunnelAssumption == None \notin ProviderIds

Init == /\ WgInit /\ NbInit /\ loopback = None
        /\ selected = None /\ selecting = None

\* Mutant: the provider of before is left running.
StartWithoutStop(p) ==
  /\ selecting = None /\ call = Idle /\ p # selected
  /\ selecting' = p /\ selected' = None
  /\ UNCHANGED <<wgVars, nbVars, loopback>>

\* stopActiveProviderLocked, for the provider of before
Select(p) ==
  /\ selecting = None /\ call = Idle /\ p # selected
  /\ selecting' = p /\ selected' = None
  /\ \/ selected = "wireguard" /\ WgStop /\ UNCHANGED nbVars
     \/ selected = "netbird" /\ (NbStop \/ NbStopIdle) /\ UNCHANGED wgVars
     \/ selected = None /\ UNCHANGED <<wgVars, nbVars, loopback>>

\* The new provider starts when the stop has returned.
StartSelected ==
  /\ selecting # None /\ call = Idle
  /\ \/ selecting = "wireguard" /\ WgStart /\ UNCHANGED nbVars
     \/ selecting = "netbird" /\ (\E ok \in BOOLEAN : NbStart(ok)) /\ UNCHANGED wgVars
  /\ selecting' = None
  /\ selected' = IF Running' \/ state'.started THEN selecting ELSE None

UseWireGuard == /\ selected = "wireguard" /\ \E p \in Peers : WgCall(p)
                /\ UNCHANGED wgOnly

UseNetBird == NbCall /\ UNCHANGED <<wgVars, selected, selecting>>

Background == \/ RelayDies /\ UNCHANGED wgOnly
              \/ NbBackground /\ UNCHANGED <<wgVars, selected, selecting>>

Next == (\E p \in ProviderIds : Select(p)) \/ StartSelected
        \/ UseWireGuard \/ UseNetBird \/ Background

Spec == Init /\ [][Next]_vars

-----------------------------------------------------------------------------

TypeOK == /\ PortsTypeOK /\ WgTypeOK /\ NbTypeOK
          /\ selected \in ProviderIds \cup {None} /\ selecting \in ProviderIds \cup {None}

\* WireGuardProvider keeps the contract the manager relies on: each answer,
\* activation, preparation and release included, is true of the relay at
\* that moment, also after the relay died unnoticed.
WireGuardImplements == Provider!ProviderSpec

\* Only one of the two providers is ever up: they bind the same loopback
\* ports, and a stream of one would go through the listener of the other.
OneProviderUp == ~(Running /\ state.started)

\* "Only when the stable identity the caller asked for is the one that
\* actually holds that mesh address" (activateRoute): an activation under way
\* or answered true is for a peer that the control plane listed under that
\* address, as long as no new list came since the check.  The cache the target
\* comes from never suffices, be it stale, or stored by a refresh that
\* outlived the stop or a change of the list.
RouteToRequestedPeer ==
  \A t \in {granted, call.peer} \ {None} : moved \/ t \in list

\* A provider that is stopped leaves no proxy on the loopback ports that the
\* next provider binds, neither of an activation nor of a stream that was
\* prepared: what still listens was opened by NetBirdManager, which works
\* whichever provider is selected.
StoppedLeavesNoProxy ==
  ~state.started => {proxy, udp} \subseteq {mgrPeer, mgrDial.peer, None}
=============================================================================
