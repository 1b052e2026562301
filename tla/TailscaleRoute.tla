--------------------------- MODULE TailscaleRoute ---------------------------
(* The route of the Tailscale provider: the route calls of TailscaleCore,  *)
(* TailscaleWgxRoute and the packet path of RealWgxBackend.  A call builds *)
(* or takes down the WireGuard tunnel, the DERP session, the loopback      *)
(* relay and the direct path step by step, while three threads use them:   *)
(* the DERP reader, the UDP thread and WireGuard's own worker, whose       *)
(* encrypted packets leave through the DERP session.  Calls are serialised *)
(* by the provider's mutex; the threads only share derpWriteMutex_.        *)
(*                                                                         *)
(* A peer stands for its stable id, its address and its node key.  wg-nx   *)
(* and the SSL service are external.  Which endpoint the direct path uses  *)
(* is the subject of TailscaleDirectPath.                                  *)

CONSTANTS Targets,   \* [peer, host]: a subnet router may front several hosts
          None

Peers == {t.peer : t \in Targets}
Hosts == {t.host : t \in Targets}

\* What context_ and the relay may be besides None.
Tunnels == [peer : Peers \cup {None}, running : BOOLEAN, replied : BOOLEAN]
Relays == [host : Hosts, udp : BOOLEAN]

SessionStates == {"open", "down", "closed"}
Writers == {"caller", "reader", "udp", "egress"}

ASSUME RouteAssumption ==
  /\ None \notin Targets /\ None \notin Peers /\ None \notin Hosts
  /\ None \notin Tunnels /\ None \notin Relays
  /\ None \notin SessionStates /\ None \notin Writers

VARIABLES
  core,           \* the provider has a core
  call,           \* the call in progress: [op, target, pc]
  promised,       \* the target of the last activation answered with true,
                  \* until it is released
  activeRoute,    \* of TailscaleCore
  activeTarget,   \* of TailscaleWgxRoute
  tunnel,         \* context_: None or [peer, running, replied]
  activePeerId,   \* the peer that injected packets are for, or None
  relay,          \* None or [host, udp]: the loopback listeners, and whether
                  \* they include the media ports
  udpPrepared,
  derp,           \* derp_: None, "open", "down" (dropped or shut down), "closed"
  derpAlive, derpRunning,
  peerNodeKey,    \* None stands for ~havePeer_
  reader,         \* the DERP reader thread
  udp,            \* the UDP thread of the direct path
  udpRunning,
  lock            \* who writes to or closes the session, under derpWriteMutex_

routeVars == <<activeRoute, activeTarget, promised>>
tunnelVars == <<tunnel, activePeerId, relay, udpPrepared>>
derpVars == <<derp, derpAlive, derpRunning, peerNodeKey>>
udpVars == <<udp, udpRunning>>
vars == <<core, call, routeVars, tunnelVars, derpVars, reader, udpVars, lock>>

Idle == [op |-> "none", target |-> None, pc |-> "idle"]
At(pc) == call.pc = pc
Goto(pc) == call' = [call EXCEPT !.pc = pc]
Return == call' = Idle

Init ==
  /\ core = FALSE /\ call = Idle /\ promised = None
  /\ activeRoute = None /\ activeTarget = None
  /\ tunnel = None /\ activePeerId = None /\ relay = None /\ udpPrepared = FALSE
  /\ derp = None /\ derpAlive = FALSE /\ derpRunning = FALSE /\ peerNodeKey = None
  /\ reader = "off" /\ udp = "off" /\ udpRunning = FALSE /\ lock = None

-----------------------------------------------------------------------------
(* The calls of the provider.                                              *)

\* TailscaleProvider::start; a start that fails leaves no core.
StartProvider ==
  /\ call = Idle /\ ~core
  /\ core' = TRUE
  /\ UNCHANGED <<call, routeVars, tunnelVars, derpVars, reader, udpVars, lock>>

Begin(op, t) ==
  /\ call = Idle /\ core
  /\ call' = [op |-> op, target |-> t, pc |-> "direct"]
  /\ promised' = IF op = "deactivate" /\ t # promised THEN promised ELSE None
  /\ UNCHANGED <<core, activeRoute, activeTarget, tunnelVars, derpVars, reader,
                 udpVars, lock>>

\* Mutant: a route to another host behind the same peer passes for this one.
SamePeer(t) == activeRoute # None /\ activeRoute.peer = t.peer

AlreadyActive(t) == activeRoute = t

ActivateAgain(t) ==
  /\ call = Idle /\ core /\ AlreadyActive(t)
  /\ promised' = t
  /\ UNCHANGED <<core, call, activeRoute, activeTarget, tunnelVars, derpVars,
                 reader, udpVars, lock>>

Activate(t) == ~AlreadyActive(t) /\ Begin("activate", t)
Deactivate(t) == activeRoute = t /\ Begin("deactivate", t)
StopProvider == Begin("stop", None)

\* addUdp of the relay: a second socket of each media port
WithMediaPorts(r) == [r EXCEPT !.udp = TRUE]

\* prepareRouteForStreaming compares peers only.  A port that fails leaves
\* the others open and udpPrepared_ as it was.
Prepare(t) ==
  /\ call = Idle /\ core /\ ~udpPrepared
  /\ activeRoute # None /\ activeRoute.peer = t.peer
  /\ activeTarget # None /\ activeTarget.peer = t.peer
  /\ tunnel # None /\ relay # None
  /\ udpPrepared' = TRUE /\ relay' = WithMediaPorts(relay)
  /\ UNCHANGED <<core, call, routeVars, tunnel, activePeerId, derpVars, reader,
                 udpVars, lock>>

-----------------------------------------------------------------------------
(* RealWgxBackend::stop, with which every call but prepare begins.         *)

\* stopDirectPath
StopUdpThread ==
  /\ At("direct") /\ Goto("joinUdp")
  /\ udpRunning' = FALSE
  /\ UNCHANGED <<core, routeVars, tunnelVars, derpVars, reader, udp, lock>>

JoinUdp ==
  /\ At("joinUdp") /\ udp \in {"off", "ended"} /\ Goto("interrupt")
  /\ udp' = "off"
  /\ UNCHANGED <<core, routeVars, tunnelVars, derpVars, reader, udpRunning, lock>>

\* Mutant: the reader is only told by the flag.
FlagOnly ==
  /\ At("interrupt") /\ Goto("lock")
  /\ derpRunning' = FALSE
  /\ UNCHANGED <<core, routeVars, tunnelVars, derp, derpAlive, peerNodeKey,
                 reader, udpVars, lock>>

\* stopDerp: interrupt shuts the socket down without any lock.
Interrupt ==
  /\ At("interrupt") /\ Goto("lock")
  /\ derpRunning' = FALSE
  /\ derp' = IF derp = "open" THEN "down" ELSE derp
  /\ UNCHANGED <<core, routeVars, tunnelVars, derpAlive, peerNodeKey, reader,
                 udpVars, lock>>

\* Mutant: the session is closed without waiting for its writers.
LockNothing ==
  /\ At("lock") /\ Goto("close")
  /\ lock' = lock
  /\ UNCHANGED <<core, routeVars, tunnelVars, derpVars, reader, udpVars>>

LockDerp ==
  /\ At("lock") /\ lock = None /\ Goto("close")
  /\ lock' = "caller"
  /\ UNCHANGED <<core, routeVars, tunnelVars, derpVars, reader, udpVars>>

\* The SSL service closes a connection once no read of it is pending.
CloseDerp ==
  /\ At("close") /\ reader # "read" /\ Goto("joinReader")
  /\ derp' = IF derp = None THEN None ELSE "closed"
  /\ lock' = IF lock = "caller" THEN None ELSE lock
  /\ UNCHANGED <<core, routeVars, tunnelVars, derpAlive, derpRunning, peerNodeKey,
                 reader, udpVars>>

JoinReader ==
  /\ At("joinReader") /\ reader \in {"off", "ended"} /\ Goto("reset")
  /\ reader' = "off"
  /\ UNCHANGED <<core, routeVars, tunnelVars, derpVars, udpVars, lock>>

ResetDerp ==
  /\ At("reset") /\ lock = None /\ Goto("destroy")
  /\ derp' = None /\ derpAlive' = FALSE /\ peerNodeKey' = None
  /\ UNCHANGED <<core, routeVars, tunnelVars, derpRunning, reader, udpVars, lock>>

\* stop of the relay: its loop, its listeners and its connections go.
RelayStops == relay' = None

\* The relay goes first; wgx_destroy waits for WireGuard's worker.
DestroyTunnel ==
  /\ At("destroy") /\ lock # "egress"
  /\ RelayStops /\ tunnel' = None /\ activePeerId' = None
  /\ activeTarget' = None
  /\ IF call.op = "activate" THEN Goto("tunnel") /\ UNCHANGED <<core, activeRoute>>
     ELSE Return /\ activeRoute' = None /\ core' = (core /\ call.op # "stop")
  /\ UNCHANGED <<promised, derpVars, reader, udpVars, lock>>

\* Mutant: the media relays of the old route still count as started.
KeepUdpPrepared == DestroyTunnel /\ UNCHANGED udpPrepared

StopTunnel == DestroyTunnel /\ udpPrepared' = FALSE

-----------------------------------------------------------------------------
(* TailscaleWgxRoute::start, for call.target.                              *)

\* wgx_create: no peer yet, and the worker does not run
NewTunnel == [peer |-> None, running |-> FALSE, replied |-> FALSE]

\* The checks of start and startTunnel
CreateTunnel ==
  /\ At("tunnel") /\ Goto("derp")
  /\ tunnel' = NewTunnel
  /\ UNCHANGED <<core, routeVars, activePeerId, relay, udpPrepared, derpVars,
                 reader, udpVars, lock>>

\* ensureDerpRoute: some node of some region answered.  The upgrade header, the
\* ServerKey and the ServerInfo are read without a timeout, and derp_ is only
\* set afterwards: while a server is silent the call waits, and no interrupt
\* reaches the connection.
ConnectDerp ==
  /\ At("derp") /\ Goto("echo")
  /\ derp' = "open" /\ derpAlive' = TRUE /\ derpRunning' = TRUE
  /\ peerNodeKey' = call.target.peer
  /\ reader' = "loop"
  /\ UNCHANGED <<core, routeVars, tunnelVars, udpVars, lock>>

\* The echo self-test writes one ping; its outcome is advisory.
EchoTest ==
  /\ At("echo") /\ lock = None /\ Goto("peer")
  /\ UNCHANGED <<core, routeVars, tunnelVars, derpVars, reader, udpVars, lock>>

\* wgx_add_or_update_peer and wgx_start
RegisterPeer(started) ==
  tunnel' = [tunnel EXCEPT !.peer = call.target.peer, !.running = started]

\* Mutant: the peer is left to be published when the handshake is over.
PublishLate == activePeerId' = activePeerId

PublishPeer == activePeerId' = call.target.peer

\* addOrUpdatePeer up to the handshake
AddPeer ==
  /\ At("peer") /\ Goto("handshake")
  /\ RegisterPeer(TRUE) /\ PublishPeer
  /\ UNCHANGED <<core, routeVars, relay, udpPrepared, derpVars, reader, udpVars, lock>>

\* wgx_connect_peer, which needs an answer of the peer and holds no lock.
Handshake ==
  /\ At("handshake") /\ tunnel.replied /\ Goto("proxy")
  /\ UNCHANGED <<core, routeVars, tunnelVars, derpVars, reader, udpVars, lock>>

\* start and addTcp of the relay, for one host
RelayTo(host) == [host |-> host, udp |-> FALSE]

StartTcpProxy ==
  /\ At("proxy") /\ Goto("path")
  /\ relay' = RelayTo(call.target.host)
  /\ UNCHANGED <<core, routeVars, tunnel, activePeerId, udpPrepared, derpVars,
                 reader, udpVars, lock>>

\* startDirectPath, which the settings or the socket may refuse, and the end
\* of a successful activation
StartDirectPath ==
  /\ At("path") /\ Return
  /\ \/ udp' = "run" /\ udpRunning' = TRUE
     \/ UNCHANGED udpVars
  /\ activeTarget' = call.target /\ activeRoute' = call.target
  /\ promised' = call.target
  /\ UNCHANGED <<core, tunnelVars, derpVars, reader, lock>>

\* A step fails: what is up by then stays up.
RouteFails ==
  /\ Return
  /\ activeRoute' = None
  /\ UNCHANGED <<core, activeTarget, promised, tunnelVars, derpVars, reader,
                 udpVars, lock>>

\* A local step fails or the handshake times out.
ActivateFails ==
  call.pc \in {"tunnel", "peer", "handshake", "proxy"} /\ RouteFails

\* Every node that was tried refused, or closed the connection.
DerpFails == At("derp") /\ RouteFails

\* wgx_start fails with the peer registered.
StartWorkerFails ==
  /\ At("peer") /\ Return
  /\ activeRoute' = None
  /\ RegisterPeer(FALSE) /\ PublishPeer
  /\ UNCHANGED <<core, activeTarget, promised, relay, udpPrepared, derpVars,
                 reader, udpVars, lock>>

CallerStep ==
  \/ StopUdpThread \/ JoinUdp \/ Interrupt \/ CloseDerp \/ JoinReader
  \/ StopTunnel \/ CreateTunnel \/ AddPeer \/ Handshake
  \/ StartTcpProxy \/ StartDirectPath \/ ActivateFails \/ StartWorkerFails

\* The steps that need an answer of a relay server
DerpAnswers == ConnectDerp \/ DerpFails

\* The steps that take derpWriteMutex_
CallerLocks == LockDerp \/ ResetDerp \/ EchoTest

-----------------------------------------------------------------------------
(* The threads.                                                            *)

\* Whoever holds derpWriteMutex_ writes only to a session that is there; on a
\* closed one the write fails at once.
CanWrite == derpAlive /\ derp \in {"open", "down"} /\ peerNodeKey # None

OnlyReader == <<core, call, routeVars, tunnelVars, udpVars>>

\* derpReader
ReaderLoop ==
  /\ reader = "loop"
  /\ IF derpRunning THEN reader' = "read" /\ UNCHANGED derpAlive
     ELSE reader' = "ended" /\ derpAlive' = FALSE
  /\ UNCHANGED <<OnlyReader, derp, derpRunning, peerNodeKey, lock>>

\* A frame arrives: a packet of the peer, a ping or disco message to be
\* answered, or one that is ignored (other nodes, presence, health, runts).
ReaderReads ==
  /\ reader = "read" /\ derp = "open"
  /\ reader' \in {"packet", "reply", "loop"}
  /\ UNCHANGED <<OnlyReader, derpVars, lock>>

ReaderFails ==
  /\ reader = "read" /\ derp # "open"
  /\ reader' = "ended" /\ derpAlive' = FALSE
  /\ UNCHANGED <<OnlyReader, derp, derpRunning, peerNodeKey, lock>>

\* activePeerId_ is loaded before WireGuard looks the peer up.
ReaderLoadsPeer ==
  /\ reader = "packet"
  /\ reader' = IF activePeerId = None THEN "refuse" ELSE "inject"
  /\ UNCHANGED <<OnlyReader, derpVars, lock>>

ReaderInjects ==
  /\ reader \in {"inject", "refuse"}
  /\ reader' = "loop"
  /\ tunnel' = IF reader = "inject" /\ At("handshake")
               THEN [tunnel EXCEPT !.replied = TRUE] ELSE tunnel
  /\ UNCHANGED <<core, call, routeVars, activePeerId, relay, udpPrepared, udpVars,
                 derpVars, lock>>

ReaderReplies ==
  /\ reader = "reply" /\ lock = None
  /\ IF CanWrite THEN lock' = "reader" /\ UNCHANGED reader
     ELSE reader' = "loop" /\ UNCHANGED lock
  /\ UNCHANGED <<OnlyReader, derpVars>>

\* sendEgress, when the direct path does not take the packet
Egress ==
  /\ tunnel # None /\ tunnel.running
  /\ lock = None /\ CanWrite
  /\ lock' = "egress"
  /\ UNCHANGED <<OnlyReader, derpVars, reader>>

OnlyUdp == <<core, call, routeVars, tunnelVars, derpVars, reader, udpRunning>>

\* udpLoop: a WireGuard packet to inject, or disco to send over DERP
UdpLoop ==
  /\ udp = "run"
  /\ udp' \in (IF udpRunning THEN {"inject", "send"} ELSE {"ended"})
  /\ UNCHANGED <<OnlyUdp, lock>>

UdpInjects == udp = "inject" /\ udp' = "run" /\ UNCHANGED <<OnlyUdp, lock>>

\* sendDiscoViaDerp
UdpSends ==
  /\ udp = "send" /\ lock = None
  /\ IF CanWrite THEN lock' = "udp" /\ UNCHANGED udp
     ELSE udp' = "run" /\ UNCHANGED lock
  /\ UNCHANGED OnlyUdp

WriteEnds ==
  /\ lock \in {"reader", "udp", "egress"} /\ lock' = None
  /\ reader' = IF lock = "reader" THEN "loop" ELSE reader
  /\ udp' = IF lock = "udp" THEN "run" ELSE udp
  /\ UNCHANGED <<core, call, routeVars, tunnelVars, derpVars, udpRunning>>

\* External: the server or the network drops the session.
DerpDrops ==
  /\ derp = "open" /\ derp' = "down"
  /\ UNCHANGED <<OnlyReader, derpAlive, derpRunning, peerNodeKey, reader, lock>>

Next ==
  \/ StartProvider \/ StopProvider
  \/ \E t \in Targets :
       Activate(t) \/ ActivateAgain(t) \/ Prepare(t) \/ Deactivate(t)
  \/ CallerStep \/ DerpAnswers \/ CallerLocks
  \/ ReaderLoop \/ ReaderReads \/ ReaderFails \/ ReaderLoadsPeer
  \/ ReaderInjects \/ ReaderReplies
  \/ UdpLoop \/ UdpInjects \/ UdpSends
  \/ Egress \/ WriteEnds \/ DerpDrops

Spec == Init /\ [][Next]_vars

\* Steps that only need the processor go on, the handshake is bounded by its
\* timeout, a write ends (at the latest when TCP gives the connection up), and
\* a thread that waits for derpWriteMutex_ gets it in the end.  No server has to
\* answer: neither a frame nor DerpAnswers is ever due.
FairSpec ==
  /\ Spec
  /\ WF_vars(CallerStep)
  /\ WF_vars(ReaderLoop) /\ WF_vars(ReaderFails) /\ WF_vars(ReaderLoadsPeer)
  /\ WF_vars(ReaderInjects) /\ WF_vars(UdpLoop) /\ WF_vars(UdpInjects)
  /\ WF_vars(WriteEnds)
  /\ SF_vars(CallerLocks) /\ SF_vars(ReaderReplies) /\ SF_vars(UdpSends)

-----------------------------------------------------------------------------

\* The places of a call that takes a route down, and of one that builds it up.
StopPcs == {"direct", "joinUdp", "interrupt", "lock", "close", "joinReader", "reset",
            "destroy"}
BuildPcs == {"tunnel", "derp", "echo", "peer", "handshake", "proxy", "path"}
Pcs == {"idle"} \cup StopPcs \cup BuildPcs
Calls == [op : {"none", "activate", "deactivate", "stop"},
          target : Targets \cup {None}, pc : Pcs]

TypeOK ==
  /\ core \in BOOLEAN /\ udpPrepared \in BOOLEAN
  /\ derpAlive \in BOOLEAN /\ derpRunning \in BOOLEAN /\ udpRunning \in BOOLEAN
  /\ promised \in Targets \cup {None}
  /\ activeRoute \in Targets \cup {None} /\ activeTarget \in Targets \cup {None}
  /\ call \in Calls
  /\ tunnel \in Tunnels \cup {None} /\ relay \in Relays \cup {None}
  /\ activePeerId \in Peers \cup {None} /\ peerNodeKey \in Peers \cup {None}
  /\ derp \in SessionStates \cup {None}
  /\ reader \in {"off", "loop", "read", "packet", "inject", "refuse", "reply", "ended"}
  /\ udp \in {"off", "run", "inject", "send", "ended"}
  /\ lock \in Writers \cup {None}

\* What the last activation was answered is true of the packet path until the
\* route is released, whatever failed or was replaced in between: the listeners
\* lead to that very host, through a running tunnel to that very peer and over
\* a relay session that was connected for it.  As long as nobody dropped that
\* session, it counts as alive and its reader runs.  A dropped session stays
\* where it is, and an activation repeated on it is answered with true.
RouteServed ==
  (call = Idle /\ promised # None) =>
    /\ relay # None /\ relay.host = promised.host
    /\ tunnel # None /\ tunnel.peer = promised.peer /\ tunnel.running
    /\ activePeerId = promised.peer /\ peerNodeKey = promised.peer
    /\ derp \in {"open", "down"}
    /\ derp = "open" => derpAlive /\ derpRunning /\ reader \notin {"off", "ended"}

\* A route whose media relays count as started has them: the flag of an
\* earlier route never answers for the next one.
MediaHasRelays == udpPrepared => relay # None /\ relay.udp

\* Nothing is taken from under a thread: neither the session nor the tunnel
\* goes while the reader or the UDP thread may touch it, and the session is
\* not closed while a write is in flight ("corrupts the session").
TeardownSafe ==
  /\ reader \in {"read", "packet", "inject", "refuse", "reply"} =>
       derp # None /\ tunnel # None
  /\ udp \in {"inject", "send"} => derp # None /\ tunnel # None
  /\ lock \in {"reader", "udp", "egress"} => derp \in {"open", "down"}
  /\ lock = "egress" => tunnel # None

\* From the first moment of the handshake a packet of the peer is handed to
\* WireGuard and not refused, or no handshake could ever complete.
RepliesAccepted ==
  [][(reader = "packet" /\ reader' # "packet" /\ At("handshake"))
       => reader' = "inject"]_vars

\* The only place where a call may stay for ever is the connect to a relay
\* server that accepts and then says nothing.  Everything else comes to an end,
\* also a disconnect while the reader waits for a server that sends nothing: no
\* thread waits for another in a circle.
RouteCallsReturn == (call # Idle) ~> (call = Idle \/ At("derp"))
=============================================================================
