------------------------- MODULE WireGuardProvider -------------------------
(* WireGuardProvider, WireGuardManager and the wg-nx glue in wg_nx_real:   *)
(* one tunnel with one loopback relay.  Every call runs under the mutex of *)
(* WireGuardManager, so a call is one step; the relay may die between two  *)
(* calls.  wg-nx itself (wg_*, LwipRelay) is external: it may fail at any   *)
(* call, and its listeners need loopback ports nobody else holds.          *)

EXTENDS LoopbackPorts

CONSTANTS Peers,      \* addresses routes are asked for
          AllowedIps  \* those inside AllowedIPs of the single peer

ASSUME WireGuardAssumption == AllowedIps \subseteq Peers /\ None \notin Peers

VARIABLES status,        \* WireGuardManager::Status
          relay,         \* none, running or dead
          activeTarget,
          udpPrepared,
          wgLast         \* the last call and its answer

wgVars == <<status, relay, activeTarget, udpPrepared, wgLast>>

Statuses == {"Disabled", "Unavailable", "Stopped", "Running", "Error"}
Running == status = "Running"

WgInit == /\ status = "Disabled" /\ relay = "none" /\ activeTarget = None
          /\ udpPrepared = FALSE
          /\ wgLast = [op |-> "stop", peer |-> None, ok |-> TRUE]

Answered(op, p, ok) == wgLast' = [op |-> op, peer |-> p, ok |-> ok]

ClearRelay == /\ relay' = "none" /\ activeTarget' = None /\ udpPrepared' = FALSE
              /\ FreedBy("wireguard")

KeepRelay == UNCHANGED <<relay, activeTarget, udpPrepared, loopback>>

\* enable_from_settings: the old tunnel goes first; the file, the backend, the
\* creation or the start of the tunnel may fail.
WgStart ==
  /\ ~Running
  /\ ClearRelay
  /\ status' \in {"Running", "Error", "Unavailable"}
  /\ Answered("start", None, status' = "Running")

\* disable: wg_nx_tunnel_destroy drops the relay with the tunnel.
WgStop == status' = "Stopped" /\ ClearRelay /\ Answered("stop", None, TRUE)

CanRoute(p) == Running /\ p \in AllowedIps

\* Mutant: a dead relay to the same peer passes for a live one.
ServedByName(p) == relay # "none" /\ activeTarget = p

\* The early return of wg_nx_tunnel_activate_route.
AlreadyServed(p) == relay = "running" /\ activeTarget = p

WgActivateAgain(p) ==
  /\ CanRoute(p) /\ AlreadyServed(p) /\ KeepRelay
  /\ Answered("activate", p, TRUE) /\ UNCHANGED status

\* A new relay binds all its TCP ports before it replaces anything.
WgActivate(p) ==
  /\ CanRoute(p) /\ ~AlreadyServed(p)
  /\ relay' = "running" /\ activeTarget' = p /\ udpPrepared' = FALSE
  /\ BoundBy("wireguard")
  /\ Answered("activate", p, TRUE) /\ UNCHANGED status

\* Out of reach: nothing is touched.  A failed relay: the old one is gone.
WgActivateFails(p) ==
  /\ \/ ~CanRoute(p) /\ KeepRelay
     \/ CanRoute(p) /\ ~AlreadyServed(p) /\ ClearRelay
  /\ Answered("activate", p, FALSE) /\ UNCHANGED status

\* A port that fails leaves the earlier ones started and udpPrepared as it is.
WgPrepare(p) ==
  /\ \/ /\ Running /\ AlreadyServed(p)
        /\ \/ udpPrepared' = TRUE /\ Answered("prepare", p, TRUE)
           \/ ~udpPrepared /\ UNCHANGED udpPrepared /\ Answered("prepare", p, FALSE)
     \/ ~(Running /\ AlreadyServed(p)) /\ UNCHANGED udpPrepared
        /\ Answered("prepare", p, FALSE)
  /\ UNCHANGED <<status, relay, activeTarget, loopback>>

WgDeactivate(p) ==
  /\ IF activeTarget = p THEN ClearRelay ELSE KeepRelay
  /\ Answered("deactivate", p, TRUE) /\ UNCHANGED status

\* External: the relay's thread ends; its sockets stay until it is destroyed.
RelayDies == /\ relay = "running" /\ relay' = "dead"
             /\ UNCHANGED <<status, activeTarget, udpPrepared, wgLast, loopback>>

WgCall(p) == \/ WgActivateAgain(p) \/ WgActivate(p) \/ WgActivateFails(p)
             \/ WgPrepare(p) \/ WgDeactivate(p)

WgServed == IF relay = "running" THEN activeTarget ELSE None
WgMedia == IF udpPrepared THEN WgServed ELSE None

Provider == INSTANCE RouteProvider WITH up <- Running, served <- WgServed,
                                        media <- WgMedia, last <- wgLast

WgTypeOK ==
  /\ status \in Statuses /\ relay \in {"none", "running", "dead"}
  /\ activeTarget \in Peers \cup {None} /\ udpPrepared \in BOOLEAN
  /\ wgLast \in [op : {"start", "stop", "activate", "prepare", "deactivate"},
                 peer : Peers \cup {None}, ok : BOOLEAN]
=============================================================================
