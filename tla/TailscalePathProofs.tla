------------------------- MODULE TailscalePathProofs -------------------------
(***************************************************************************)
(* Proofs about the packet path of the Tailscale provider.                 *)
(*                                                                         *)
(* TailscaleRoute, for any peers and hosts: an answered activation is      *)
(* served, the media flag means relays, teardown takes nothing from under  *)
(* a thread, and handshake replies are accepted.  TailscaleDirectPath, for *)
(* any peers, endpoints, transaction ids and windows: packets leave the    *)
(* relay only for an endpoint the peer has proven, and the report follows  *)
(* the path.                                                               *)
(***************************************************************************)
EXTENDS TailscaleRoute, TailscaleDirectPath, TLAPS

-----------------------------------------------------------------------------
(* TailscaleRoute.                                                         *)

\* The steps of a build belong to an activation, which has a target.
CallShape ==
  /\ call.pc = "idle" <=> call = Idle
  /\ call.pc \in BuildPcs => call.op = "activate"
  /\ call.op = "activate" => call.target \in Targets

\* Who holds derpWriteMutex_, and what it protects.
LockHeld ==
  /\ lock = "caller" <=> call.pc = "close"
  /\ lock = "reader" => reader = "reply"
  /\ lock = "udp" => udp = "send"
  /\ lock = "egress" => tunnel # None
  /\ lock \in {"reader", "udp", "egress"} => derp \in {"open", "down"}

\* The threads live inside the life of the session and the tunnel, and a call
\* has joined them before it takes either away.
ThreadsOwned ==
  /\ reader # "off" => derp # None /\ tunnel # None
  /\ udp # "off" => derp # None /\ tunnel # None
  /\ call.pc \in StopPcs \ {"direct", "joinUdp"} => udp = "off"
  /\ call.pc \in BuildPcs => udp = "off"
  /\ call.pc \in {"reset", "destroy", "tunnel", "derp"} => reader = "off"
  /\ call.pc \in {"joinReader", "reset"} => derp \in {None, "closed"}
  /\ call.pc \in {"destroy", "tunnel", "derp"} => derp = None

\* What a build has put up by the time it is at a step.
BuildProgress ==
  /\ call.pc \in BuildPcs \ {"tunnel"} => tunnel # None
  /\ call.pc \in {"echo", "peer", "handshake", "proxy", "path"}
       => derp # None /\ peerNodeKey = call.target.peer
  /\ call.pc \in {"handshake", "proxy", "path"}
       => tunnel.peer = call.target.peer /\ activePeerId = call.target.peer
  /\ call.pc \in BuildPcs => ~udpPrepared
  /\ call.pc = "path" => relay # None /\ relay.host = call.target.host

\* Between calls the active route is the one that is up, and only it can be
\* promised.
ActiveServed ==
  /\ (call.pc = "idle" /\ activeRoute # None) =>
       /\ relay # None /\ relay.host = activeRoute.host
       /\ tunnel # None /\ tunnel.peer = activeRoute.peer
       /\ activePeerId = activeRoute.peer /\ peerNodeKey = activeRoute.peer
       /\ derp # None
  /\ promised # None => call.pc = "idle" /\ promised = activeRoute

RouteInv ==
  /\ TypeOK /\ CallShape /\ LockHeld /\ ThreadsOwned
  /\ BuildProgress /\ ActiveServed /\ MediaHasRelays

-----------------------------------------------------------------------------

\* The strings, records and targets of the model are not None.
LEMMA NotNone ==
  /\ None \notin Targets /\ None \notin Peers /\ None \notin Hosts
  /\ None \notin Tunnels /\ None \notin Relays
  /\ None \notin SessionStates /\ None \notin Writers
  /\ \A t \in Targets : t.peer \in Peers /\ t.host \in Hosts
BY RouteAssumption DEF Peers, Hosts

\* A call that goes on keeps its operation and its target.
LEMMA GotoFacts ==
  ASSUME call \in Calls, NEW pc \in Pcs, Goto(pc)
  PROVE  /\ call' \in Calls /\ call'.pc = pc
         /\ call'.op = call.op /\ call'.target = call.target
         /\ pc # "idle" => call' # Idle
BY DEF Calls, Goto, Idle

\* A call that returns leaves the idle call.
LEMMA IdleFacts ==
  Idle \in Calls /\ Idle.pc = "idle" /\ Idle.op = "none" /\ Idle.target = None
BY DEF Idle, Calls, Pcs

\* Nothing is up before the first start.
LEMMA InitRouteInv == Init => RouteInv
<1> SUFFICES ASSUME Init PROVE RouteInv
  OBVIOUS
<1> USE IdleFacts, NotNone DEF Init
<1>1. TypeOK
  BY DEF TypeOK
<1>2. CallShape
  BY DEF CallShape, StopPcs, BuildPcs
<1>3. LockHeld
  BY DEF LockHeld, StopPcs, BuildPcs, SessionStates, Writers
<1>4. ThreadsOwned
  BY DEF ThreadsOwned
<1>5. BuildProgress
  BY DEF BuildProgress, StopPcs, BuildPcs
<1>6. ActiveServed
  BY DEF ActiveServed
<1>7. MediaHasRelays
  BY DEF MediaHasRelays
<1>8. QED BY <1>1, <1>2, <1>3, <1>4, <1>5, <1>6, <1>7 DEF RouteInv

\* A start, and a repeated activation, leave the packet path alone.
LEMMA ProviderStep ==
  ASSUME RouteInv, StartProvider \/ \E t \in Targets : ActivateAgain(t)
  PROVE  RouteInv'
<1> USE NotNone DEF RouteInv, routeVars, tunnelVars, derpVars, udpVars
<1> USE DEF StartProvider, ActivateAgain, AlreadyActive
<1>1. core' \in BOOLEAN
  BY DEF TypeOK
<1>2. TypeOK'
  BY <1>1 DEF TypeOK
<1>3. CallShape'
  BY <1>1 DEF CallShape
<1>4. LockHeld'
  BY <1>1 DEF LockHeld
<1>5. ThreadsOwned'
  BY <1>1 DEF ThreadsOwned
<1>6. BuildProgress'
  BY <1>1 DEF BuildProgress
<1>7. ActiveServed'
  BY <1>1 DEF ActiveServed, Idle
<1>8. MediaHasRelays'
  BY <1>1 DEF MediaHasRelays
<1>9. QED BY <1>2, <1>3, <1>4, <1>5, <1>6, <1>7, <1>8

\* The media ports join the relay of the active route.
LEMMA PrepareStep ==
  ASSUME RouteInv, NEW t \in Targets, Prepare(t)
  PROVE  RouteInv'
<1> USE NotNone DEF RouteInv, routeVars, tunnelVars, derpVars, udpVars
<1> USE DEF Prepare, WithMediaPorts
<1>1. /\ relay' \in Relays /\ relay'.host = relay.host /\ relay'.udp = TRUE
      /\ udpPrepared' \in BOOLEAN
  BY DEF TypeOK, Relays
<1>2. TypeOK'
  BY <1>1 DEF TypeOK, Relays
<1>3. CallShape'
  BY <1>1 DEF CallShape
<1>4. LockHeld'
  BY <1>1 DEF LockHeld
<1>5. ThreadsOwned'
  BY <1>1 DEF ThreadsOwned
<1>6. BuildProgress'
  BY <1>1 DEF BuildProgress, TypeOK, CallShape, Relays, Idle
<1>7. ActiveServed'
  BY <1>1 DEF ActiveServed, Relays
<1>8. MediaHasRelays'
  BY <1>1 DEF MediaHasRelays, Relays
<1>9. QED BY <1>2, <1>3, <1>4, <1>5, <1>6, <1>7, <1>8

\* A call gives up the promise of the route it may take down.
LEMMA BeginStep ==
  ASSUME RouteInv, NEW op \in {"activate", "deactivate", "stop"}, NEW t \in Targets \cup {None},
         Begin(op, t), op # "stop" => t \in Targets, op = "deactivate" => t = activeRoute
  PROVE  RouteInv'
<1> USE NotNone DEF RouteInv, routeVars, tunnelVars, derpVars, udpVars
<1> USE DEF Begin
<1>1. /\ call.pc = "idle" /\ call' \in Calls /\ call'.pc = "direct"
      /\ call'.op = op /\ call'.target = t /\ call' # Idle
  BY IdleFacts DEF Calls, Pcs, StopPcs, Idle
<1>2. TypeOK'
  BY <1>1 DEF TypeOK
<1>3. CallShape'
  BY <1>1 DEF CallShape, TypeOK, StopPcs, BuildPcs
<1>4. LockHeld'
  BY <1>1 DEF LockHeld
<1>5. ThreadsOwned'
  BY <1>1 DEF ThreadsOwned, TypeOK, LockHeld, StopPcs, BuildPcs
<1>6. BuildProgress'
  BY <1>1 DEF BuildProgress, TypeOK, CallShape, StopPcs, BuildPcs
<1>7. ActiveServed'
  BY <1>1 DEF ActiveServed
<1>8. MediaHasRelays'
  BY <1>1 DEF MediaHasRelays
<1>9. QED BY <1>2, <1>3, <1>4, <1>5, <1>6, <1>7, <1>8

\* The UDP thread is told to end.
LEMMA StopUdpThreadStep ==
  ASSUME RouteInv, StopUdpThread
  PROVE  RouteInv'
<1> USE NotNone DEF RouteInv, routeVars, tunnelVars, derpVars, udpVars
<1> USE DEF StopUdpThread
<1>1. /\ call.pc = "direct" /\ call' \in Calls /\ call'.pc = "joinUdp"
      /\ call'.op = call.op /\ call'.target = call.target /\ call' # Idle
  BY GotoFacts DEF At, TypeOK, Pcs, StopPcs, BuildPcs
<1>2. udpRunning' \in BOOLEAN
  OBVIOUS
<1>3. TypeOK'
  BY <1>1, <1>2 DEF TypeOK
<1>4. CallShape'
  BY <1>1, <1>2 DEF CallShape, TypeOK, StopPcs, BuildPcs
<1>5. LockHeld'
  BY <1>1, <1>2 DEF LockHeld
<1>6. ThreadsOwned'
  BY <1>1, <1>2 DEF ThreadsOwned, TypeOK, LockHeld, StopPcs, BuildPcs
<1>7. BuildProgress'
  BY <1>1, <1>2 DEF BuildProgress, TypeOK, CallShape, StopPcs, BuildPcs
<1>8. ActiveServed'
  BY <1>1, <1>2 DEF ActiveServed
<1>9. MediaHasRelays'
  BY <1>1, <1>2 DEF MediaHasRelays
<1>10. QED BY <1>3, <1>4, <1>5, <1>6, <1>7, <1>8, <1>9

\* The UDP thread has ended.
LEMMA JoinUdpStep ==
  ASSUME RouteInv, JoinUdp
  PROVE  RouteInv'
<1> USE NotNone DEF RouteInv, routeVars, tunnelVars, derpVars, udpVars
<1> USE DEF JoinUdp
<1>1. /\ call.pc = "joinUdp" /\ call' \in Calls /\ call'.pc = "interrupt"
      /\ call'.op = call.op /\ call'.target = call.target /\ call' # Idle
  BY GotoFacts DEF At, TypeOK, Pcs, StopPcs, BuildPcs
<1>2. TypeOK'
  BY <1>1 DEF TypeOK
<1>3. CallShape'
  BY <1>1 DEF CallShape, TypeOK, StopPcs, BuildPcs
<1>4. LockHeld'
  BY <1>1 DEF LockHeld
<1>5. ThreadsOwned'
  BY <1>1 DEF ThreadsOwned
<1>6. BuildProgress'
  BY <1>1 DEF BuildProgress, TypeOK, CallShape, StopPcs, BuildPcs
<1>7. ActiveServed'
  BY <1>1 DEF ActiveServed
<1>8. MediaHasRelays'
  BY <1>1 DEF MediaHasRelays
<1>9. QED BY <1>2, <1>3, <1>4, <1>5, <1>6, <1>7, <1>8

\* The socket of the session is shut down.
LEMMA InterruptStep ==
  ASSUME RouteInv, Interrupt
  PROVE  RouteInv'
<1> USE NotNone DEF RouteInv, routeVars, tunnelVars, derpVars, udpVars
<1> USE DEF Interrupt
<1>1. /\ call.pc = "interrupt" /\ call' \in Calls /\ call'.pc = "lock"
      /\ call'.op = call.op /\ call'.target = call.target /\ call' # Idle
  BY GotoFacts DEF At, TypeOK, Pcs, StopPcs, BuildPcs
<1>2. derpRunning' \in BOOLEAN /\ derp' \in SessionStates \cup {None}
  BY DEF TypeOK, SessionStates
<1>3. TypeOK'
  BY <1>1, <1>2 DEF TypeOK
<1>4. CallShape'
  BY <1>1, <1>2 DEF CallShape, TypeOK, StopPcs, BuildPcs
<1>5. LockHeld'
  BY <1>1, <1>2 DEF LockHeld
<1>6. ThreadsOwned'
  BY <1>1, <1>2 DEF ThreadsOwned, TypeOK, LockHeld, StopPcs, BuildPcs, SessionStates,
     Writers
<1>7. BuildProgress'
  BY <1>1, <1>2 DEF BuildProgress, TypeOK, CallShape, StopPcs, BuildPcs
<1>8. ActiveServed'
  BY <1>1, <1>2 DEF ActiveServed
<1>9. MediaHasRelays'
  BY <1>1, <1>2 DEF MediaHasRelays
<1>10. QED BY <1>3, <1>4, <1>5, <1>6, <1>7, <1>8, <1>9

\* The caller has the mutex: no write is in flight.
LEMMA LockDerpStep ==
  ASSUME RouteInv, LockDerp
  PROVE  RouteInv'
<1> USE NotNone DEF RouteInv, routeVars, tunnelVars, derpVars, udpVars
<1> USE DEF LockDerp
<1>1. /\ call.pc = "lock" /\ call' \in Calls /\ call'.pc = "close"
      /\ call'.op = call.op /\ call'.target = call.target /\ call' # Idle
  BY GotoFacts DEF At, TypeOK, Pcs, StopPcs, BuildPcs
<1>2. TypeOK'
  BY <1>1 DEF TypeOK, StopPcs, BuildPcs, SessionStates, Writers
<1>3. CallShape'
  BY <1>1 DEF CallShape, TypeOK, StopPcs, BuildPcs
<1>4. LockHeld'
  BY <1>1 DEF LockHeld
<1>5. ThreadsOwned'
  BY <1>1 DEF ThreadsOwned, TypeOK, LockHeld, StopPcs, BuildPcs
<1>6. BuildProgress'
  BY <1>1 DEF BuildProgress, TypeOK, CallShape, StopPcs, BuildPcs
<1>7. ActiveServed'
  BY <1>1 DEF ActiveServed
<1>8. MediaHasRelays'
  BY <1>1 DEF MediaHasRelays
<1>9. QED BY <1>2, <1>3, <1>4, <1>5, <1>6, <1>7, <1>8

\* The session is closed, and the mutex free again.
LEMMA CloseDerpStep ==
  ASSUME RouteInv, CloseDerp
  PROVE  RouteInv'
<1> USE NotNone DEF RouteInv, routeVars, tunnelVars, derpVars, udpVars
<1> USE DEF CloseDerp
<1>1. /\ call.pc = "close" /\ call' \in Calls /\ call'.pc = "joinReader"
      /\ call'.op = call.op /\ call'.target = call.target /\ call' # Idle
  BY GotoFacts DEF At, TypeOK, Pcs, StopPcs, BuildPcs
<1>2. TypeOK'
  BY <1>1 DEF TypeOK, StopPcs, BuildPcs, SessionStates, Writers
<1>3. CallShape'
  BY <1>1 DEF CallShape, TypeOK, StopPcs, BuildPcs
<1>4. LockHeld'
  BY <1>1 DEF LockHeld, TypeOK, CallShape, ThreadsOwned, StopPcs, BuildPcs,
     SessionStates, Writers
<1>5. ThreadsOwned'
  BY <1>1 DEF ThreadsOwned, TypeOK, LockHeld, StopPcs, BuildPcs, SessionStates, Writers
<1>6. BuildProgress'
  BY <1>1 DEF BuildProgress, TypeOK, CallShape, StopPcs, BuildPcs
<1>7. ActiveServed'
  BY <1>1 DEF ActiveServed
<1>8. MediaHasRelays'
  BY <1>1 DEF MediaHasRelays
<1>9. QED BY <1>2, <1>3, <1>4, <1>5, <1>6, <1>7, <1>8

\* The reader has ended.
LEMMA JoinReaderStep ==
  ASSUME RouteInv, JoinReader
  PROVE  RouteInv'
<1> USE NotNone DEF RouteInv, routeVars, tunnelVars, derpVars, udpVars
<1> USE DEF JoinReader
<1>1. /\ call.pc = "joinReader" /\ call' \in Calls /\ call'.pc = "reset"
      /\ call'.op = call.op /\ call'.target = call.target /\ call' # Idle
  BY GotoFacts DEF At, TypeOK, Pcs, StopPcs, BuildPcs
<1>2. TypeOK'
  BY <1>1 DEF TypeOK
<1>3. CallShape'
  BY <1>1 DEF CallShape, TypeOK, StopPcs, BuildPcs
<1>4. LockHeld'
  BY <1>1 DEF LockHeld
<1>5. ThreadsOwned'
  BY <1>1 DEF ThreadsOwned, TypeOK, LockHeld, StopPcs, BuildPcs
<1>6. BuildProgress'
  BY <1>1 DEF BuildProgress, TypeOK, CallShape, StopPcs, BuildPcs
<1>7. ActiveServed'
  BY <1>1 DEF ActiveServed
<1>8. MediaHasRelays'
  BY <1>1 DEF MediaHasRelays
<1>9. QED BY <1>2, <1>3, <1>4, <1>5, <1>6, <1>7, <1>8

\* The session object goes.
LEMMA ResetDerpStep ==
  ASSUME RouteInv, ResetDerp
  PROVE  RouteInv'
<1> USE NotNone DEF RouteInv, routeVars, tunnelVars, derpVars, udpVars
<1> USE DEF ResetDerp
<1>1. /\ call.pc = "reset" /\ call' \in Calls /\ call'.pc = "destroy"
      /\ call'.op = call.op /\ call'.target = call.target /\ call' # Idle
  BY GotoFacts DEF At, TypeOK, Pcs, StopPcs, BuildPcs
<1>2. TypeOK'
  BY <1>1 DEF TypeOK, CallShape, LockHeld, ThreadsOwned, BuildProgress, ActiveServed,
     MediaHasRelays, StopPcs, BuildPcs
<1>3. CallShape'
  BY <1>1 DEF CallShape, TypeOK, StopPcs, BuildPcs
<1>4. LockHeld'
  BY <1>1 DEF LockHeld, TypeOK, CallShape, ThreadsOwned
<1>5. ThreadsOwned'
  BY <1>1 DEF ThreadsOwned, TypeOK, LockHeld, StopPcs, BuildPcs
<1>6. BuildProgress'
  BY <1>1 DEF BuildProgress, TypeOK, CallShape, StopPcs, BuildPcs
<1>7. ActiveServed'
  BY <1>1 DEF ActiveServed
<1>8. MediaHasRelays'
  BY <1>1 DEF MediaHasRelays
<1>9. QED BY <1>2, <1>3, <1>4, <1>5, <1>6, <1>7, <1>8

\* The relay and the tunnel go; a call that only stops returns.
LEMMA StopTunnelStep ==
  ASSUME RouteInv, StopTunnel
  PROVE  RouteInv'
<1> USE NotNone DEF RouteInv, routeVars, tunnelVars, derpVars, udpVars
<1> USE DEF StopTunnel, DestroyTunnel, RelayStops
<1>1. /\ call.pc = "destroy" /\ call' \in Calls
      /\ \/ /\ call.op = "activate" /\ call'.pc = "tunnel" /\ call'.op = call.op
            /\ call'.target = call.target /\ call' # Idle
            /\ core' = core /\ activeRoute' = activeRoute
         \/ /\ call' = Idle /\ call'.pc = "idle" /\ call'.op = "none" /\ call'.target = None
            /\ activeRoute' = None /\ core' \in BOOLEAN
  BY GotoFacts, IdleFacts DEF At, Return, TypeOK, Pcs, BuildPcs
<1>2. TypeOK'
  BY <1>1 DEF TypeOK, CallShape, LockHeld, ThreadsOwned, BuildProgress, ActiveServed,
     MediaHasRelays
<1>3. CallShape'
  BY <1>1 DEF CallShape, TypeOK, StopPcs, BuildPcs
<1>4. LockHeld'
  BY <1>1 DEF LockHeld
<1>5. ThreadsOwned'
  BY <1>1 DEF ThreadsOwned
<1>6. BuildProgress'
  BY <1>1 DEF BuildProgress, TypeOK, CallShape, StopPcs, BuildPcs
<1>7. ActiveServed'
  BY <1>1 DEF ActiveServed
<1>8. MediaHasRelays'
  BY <1>1 DEF MediaHasRelays
<1>9. QED BY <1>2, <1>3, <1>4, <1>5, <1>6, <1>7, <1>8

\* A new tunnel, which has no peer yet.
LEMMA CreateTunnelStep ==
  ASSUME RouteInv, CreateTunnel
  PROVE  RouteInv'
<1> USE NotNone DEF RouteInv, routeVars, tunnelVars, derpVars, udpVars
<1> USE DEF CreateTunnel
<1>1. /\ call.pc = "tunnel" /\ call' \in Calls /\ call'.pc = "derp"
      /\ call'.op = call.op /\ call'.target = call.target /\ call' # Idle
  BY GotoFacts DEF At, TypeOK, Pcs, StopPcs, BuildPcs
<1>2. tunnel' \in Tunnels
  BY DEF NewTunnel, Tunnels
<1>3. TypeOK'
  BY <1>1, <1>2 DEF TypeOK, NewTunnel, Tunnels
<1>4. CallShape'
  BY <1>1, <1>2 DEF CallShape, TypeOK, StopPcs, BuildPcs
<1>5. LockHeld'
  BY <1>1, <1>2 DEF LockHeld, NewTunnel, Tunnels
<1>6. ThreadsOwned'
  BY <1>1, <1>2 DEF ThreadsOwned, NewTunnel, Tunnels
<1>7. BuildProgress'
  BY <1>1, <1>2 DEF BuildProgress, TypeOK, CallShape, StopPcs, BuildPcs, NewTunnel, Tunnels
<1>8. ActiveServed'
  BY <1>1, <1>2 DEF ActiveServed, NewTunnel
<1>9. MediaHasRelays'
  BY <1>1, <1>2 DEF MediaHasRelays
<1>10. QED BY <1>3, <1>4, <1>5, <1>6, <1>7, <1>8, <1>9

\* A new session for the peer of the call, and its reader.
LEMMA ConnectDerpStep ==
  ASSUME RouteInv, ConnectDerp
  PROVE  RouteInv'
<1> USE NotNone DEF RouteInv, routeVars, tunnelVars, derpVars, udpVars
<1> USE DEF ConnectDerp
<1>1. /\ call.pc = "derp" /\ call' \in Calls /\ call'.pc = "echo"
      /\ call'.op = call.op /\ call'.target = call.target /\ call' # Idle
  BY GotoFacts DEF At, TypeOK, Pcs, StopPcs, BuildPcs
<1>2. TypeOK'
  BY <1>1 DEF TypeOK, CallShape, LockHeld, ThreadsOwned, BuildProgress, ActiveServed,
     MediaHasRelays, StopPcs, BuildPcs, SessionStates, Writers
<1>3. CallShape'
  BY <1>1 DEF CallShape, TypeOK, StopPcs, BuildPcs
<1>4. LockHeld'
  BY <1>1 DEF LockHeld, TypeOK, CallShape, ThreadsOwned
<1>5. ThreadsOwned'
  BY <1>1 DEF TypeOK, CallShape, LockHeld, ThreadsOwned, BuildProgress, ActiveServed,
     MediaHasRelays, StopPcs, BuildPcs, SessionStates, Writers
<1>6. BuildProgress'
  BY <1>1 DEF BuildProgress, TypeOK, CallShape, StopPcs, BuildPcs, SessionStates, Writers
<1>7. ActiveServed'
  BY <1>1 DEF ActiveServed
<1>8. MediaHasRelays'
  BY <1>1 DEF MediaHasRelays
<1>9. QED BY <1>2, <1>3, <1>4, <1>5, <1>6, <1>7, <1>8

\* The self-test changes the place of the call only.
LEMMA EchoTestStep ==
  ASSUME RouteInv, EchoTest
  PROVE  RouteInv'
<1> USE NotNone DEF RouteInv, routeVars, tunnelVars, derpVars, udpVars
<1> USE DEF EchoTest
<1>1. /\ call.pc = "echo" /\ call' \in Calls /\ call'.pc = "peer"
      /\ call'.op = call.op /\ call'.target = call.target /\ call' # Idle
  BY GotoFacts DEF At, TypeOK, Pcs, StopPcs, BuildPcs
<1>2. TypeOK'
  BY <1>1 DEF TypeOK
<1>3. CallShape'
  BY <1>1 DEF CallShape, TypeOK, StopPcs, BuildPcs
<1>4. LockHeld'
  BY <1>1 DEF LockHeld
<1>5. ThreadsOwned'
  BY <1>1 DEF ThreadsOwned, TypeOK, LockHeld, StopPcs, BuildPcs
<1>6. BuildProgress'
  BY <1>1 DEF BuildProgress, TypeOK, CallShape, StopPcs, BuildPcs
<1>7. ActiveServed'
  BY <1>1 DEF ActiveServed
<1>8. MediaHasRelays'
  BY <1>1 DEF MediaHasRelays
<1>9. QED BY <1>2, <1>3, <1>4, <1>5, <1>6, <1>7, <1>8

\* The peer is registered and published.
LEMMA AddPeerStep ==
  ASSUME RouteInv, AddPeer
  PROVE  RouteInv'
<1> USE NotNone DEF RouteInv, routeVars, tunnelVars, derpVars, udpVars
<1> USE DEF AddPeer, RegisterPeer, PublishPeer
<1>1. /\ call.pc = "peer" /\ call' \in Calls /\ call'.pc = "handshake"
      /\ call'.op = call.op /\ call'.target = call.target /\ call' # Idle
  BY GotoFacts DEF At, TypeOK, Pcs, StopPcs, BuildPcs
<1>2. /\ call.target \in Targets /\ tunnel \in Tunnels
      /\ tunnel' \in Tunnels /\ tunnel'.peer = call.target.peer
  BY <1>1 DEF TypeOK, CallShape, BuildProgress, BuildPcs, Tunnels
<1>3. TypeOK'
  BY <1>1, <1>2 DEF TypeOK, Tunnels
<1>4. CallShape'
  BY <1>1, <1>2 DEF CallShape, TypeOK, StopPcs, BuildPcs
<1>5. LockHeld'
  BY <1>1, <1>2 DEF LockHeld, Tunnels
<1>6. ThreadsOwned'
  BY <1>1, <1>2 DEF ThreadsOwned, TypeOK, LockHeld, StopPcs, BuildPcs, Tunnels
<1>7. BuildProgress'
  BY <1>1, <1>2 DEF BuildProgress, TypeOK, CallShape, StopPcs, BuildPcs, Tunnels
<1>8. ActiveServed'
  BY <1>1, <1>2 DEF ActiveServed, Tunnels
<1>9. MediaHasRelays'
  BY <1>1, <1>2 DEF MediaHasRelays
<1>10. QED BY <1>3, <1>4, <1>5, <1>6, <1>7, <1>8, <1>9

\* The handshake changes the place of the call only.
LEMMA HandshakeStep ==
  ASSUME RouteInv, Handshake
  PROVE  RouteInv'
<1> USE NotNone DEF RouteInv, routeVars, tunnelVars, derpVars, udpVars
<1> USE DEF Handshake
<1>1. /\ call.pc = "handshake" /\ call' \in Calls /\ call'.pc = "proxy"
      /\ call'.op = call.op /\ call'.target = call.target /\ call' # Idle
  BY GotoFacts DEF At, TypeOK, Pcs, StopPcs, BuildPcs
<1>2. TypeOK'
  BY <1>1 DEF TypeOK
<1>3. CallShape'
  BY <1>1 DEF CallShape, TypeOK, StopPcs, BuildPcs
<1>4. LockHeld'
  BY <1>1 DEF LockHeld
<1>5. ThreadsOwned'
  BY <1>1 DEF ThreadsOwned, TypeOK, LockHeld, StopPcs, BuildPcs
<1>6. BuildProgress'
  BY <1>1 DEF BuildProgress, TypeOK, CallShape, StopPcs, BuildPcs
<1>7. ActiveServed'
  BY <1>1 DEF ActiveServed
<1>8. MediaHasRelays'
  BY <1>1 DEF MediaHasRelays
<1>9. QED BY <1>2, <1>3, <1>4, <1>5, <1>6, <1>7, <1>8

\* The loopback relay is set up for the host of the call.
LEMMA ProxyStep ==
  ASSUME RouteInv, StartTcpProxy
  PROVE  RouteInv'
<1> USE NotNone DEF RouteInv, routeVars, tunnelVars, derpVars, udpVars
<1> USE DEF StartTcpProxy, RelayTo
<1>1. /\ call.pc = "proxy" /\ call' \in Calls /\ call'.pc = "path"
      /\ call'.op = call.op /\ call'.target = call.target /\ call' # Idle
  BY GotoFacts DEF At, TypeOK, Pcs, StopPcs, BuildPcs
<1>2. call.target \in Targets /\ relay' \in Relays /\ relay'.host = call.target.host
  BY <1>1 DEF CallShape, BuildPcs, Relays
<1>3. TypeOK'
  BY <1>1, <1>2 DEF TypeOK, Relays
<1>4. CallShape'
  BY <1>1, <1>2 DEF CallShape, TypeOK, StopPcs, BuildPcs
<1>5. LockHeld'
  BY <1>1, <1>2 DEF LockHeld
<1>6. ThreadsOwned'
  BY <1>1, <1>2 DEF ThreadsOwned, TypeOK, LockHeld, StopPcs, BuildPcs
<1>7. BuildProgress'
  BY <1>1, <1>2 DEF BuildProgress, TypeOK, CallShape, StopPcs, BuildPcs, Relays
<1>8. ActiveServed'
  BY <1>1, <1>2 DEF ActiveServed
<1>9. MediaHasRelays'
  BY <1>1, <1>2 DEF MediaHasRelays, TypeOK, BuildProgress, StopPcs, BuildPcs, Relays
<1>10. QED BY <1>3, <1>4, <1>5, <1>6, <1>7, <1>8, <1>9

\* The activation succeeds.
LEMMA PathStep ==
  ASSUME RouteInv, StartDirectPath
  PROVE  RouteInv'
<1> USE NotNone DEF RouteInv, routeVars, tunnelVars, derpVars, udpVars
<1> USE DEF StartDirectPath, At
<1>1. call' = Idle /\ call' \in Calls /\ call'.pc = "idle" /\ call'.op = "none" /\ call'.target = None
  BY IdleFacts DEF Return
<1>2. call.target \in Targets /\ udpRunning' \in BOOLEAN
  BY DEF CallShape, BuildPcs, TypeOK
<1>3. TypeOK'
  BY <1>1, <1>2 DEF TypeOK
<1>4. CallShape'
  BY <1>1, <1>2 DEF CallShape, TypeOK, StopPcs, BuildPcs
<1>5. LockHeld'
  BY <1>1, <1>2 DEF LockHeld, TypeOK, CallShape, ThreadsOwned, StopPcs, BuildPcs
<1>6. ThreadsOwned'
  BY <1>1, <1>2 DEF TypeOK, CallShape, LockHeld, ThreadsOwned, BuildProgress,
     ActiveServed, MediaHasRelays, StopPcs, BuildPcs
<1>7. BuildProgress'
  BY <1>1, <1>2 DEF BuildProgress, TypeOK, CallShape, StopPcs, BuildPcs
<1>8. ActiveServed'
  BY <1>1, <1>2 DEF ActiveServed, TypeOK, CallShape, BuildProgress, StopPcs, BuildPcs
<1>9. MediaHasRelays'
  BY <1>1, <1>2 DEF MediaHasRelays
<1>10. QED BY <1>3, <1>4, <1>5, <1>6, <1>7, <1>8, <1>9

\* The activation fails.
LEMMA FailStep ==
  ASSUME RouteInv, RouteFails, call.pc \in BuildPcs
  PROVE  RouteInv'
<1> USE NotNone DEF RouteInv, routeVars, tunnelVars, derpVars, udpVars
<1> USE DEF RouteFails, BuildPcs
<1>1. call' = Idle /\ call' \in Calls /\ call'.pc = "idle" /\ call'.op = "none" /\ call'.target = None
  BY IdleFacts DEF Return
<1>2. TypeOK'
  BY <1>1 DEF TypeOK
<1>3. CallShape'
  BY <1>1 DEF CallShape, TypeOK, StopPcs, BuildPcs
<1>4. LockHeld'
  BY <1>1 DEF LockHeld
<1>5. ThreadsOwned'
  BY <1>1 DEF ThreadsOwned, TypeOK, LockHeld, StopPcs, BuildPcs
<1>6. BuildProgress'
  BY <1>1 DEF BuildProgress, TypeOK, CallShape, StopPcs, BuildPcs
<1>7. ActiveServed'
  BY <1>1 DEF ActiveServed
<1>8. MediaHasRelays'
  BY <1>1 DEF MediaHasRelays
<1>9. QED BY <1>2, <1>3, <1>4, <1>5, <1>6, <1>7, <1>8

\* The activation fails with the peer registered.
LEMMA WorkerFailsStep ==
  ASSUME RouteInv, StartWorkerFails
  PROVE  RouteInv'
<1> USE NotNone DEF RouteInv, routeVars, tunnelVars, derpVars, udpVars
<1> USE DEF StartWorkerFails, RegisterPeer, PublishPeer, At
<1>1. call' = Idle /\ call' \in Calls /\ call'.pc = "idle" /\ call'.op = "none" /\ call'.target = None
  BY IdleFacts DEF Return
<1>2. /\ call.target \in Targets /\ tunnel \in Tunnels
      /\ tunnel' \in Tunnels /\ tunnel'.peer = call.target.peer
  BY DEF TypeOK, CallShape, BuildProgress, BuildPcs, Tunnels
<1>3. TypeOK'
  BY <1>1, <1>2 DEF TypeOK, Tunnels
<1>4. CallShape'
  BY <1>1, <1>2 DEF CallShape, TypeOK, StopPcs, BuildPcs
<1>5. LockHeld'
  BY <1>1, <1>2 DEF LockHeld, Tunnels
<1>6. ThreadsOwned'
  BY <1>1, <1>2 DEF ThreadsOwned, TypeOK, LockHeld, StopPcs, BuildPcs, Tunnels
<1>7. BuildProgress'
  BY <1>1, <1>2 DEF BuildProgress, TypeOK, CallShape, StopPcs, BuildPcs, Tunnels
<1>8. ActiveServed'
  BY <1>1, <1>2 DEF ActiveServed, Tunnels
<1>9. MediaHasRelays'
  BY <1>1, <1>2 DEF MediaHasRelays
<1>10. QED BY <1>3, <1>4, <1>5, <1>6, <1>7, <1>8, <1>9

\* The reader reads and decides.
LEMMA ReaderStep ==
  ASSUME RouteInv, ReaderLoop \/ ReaderReads \/ ReaderFails \/ ReaderLoadsPeer
  PROVE  RouteInv'
<1> USE NotNone DEF RouteInv, routeVars, tunnelVars, derpVars, udpVars
<1> USE DEF ReaderLoop, ReaderReads, ReaderFails, ReaderLoadsPeer, OnlyReader
<1>1. derpAlive' \in BOOLEAN
  BY DEF TypeOK
<1>2. TypeOK'
  BY <1>1 DEF TypeOK
<1>3. CallShape'
  BY <1>1 DEF CallShape
<1>4. LockHeld'
  BY <1>1 DEF LockHeld
<1>5. ThreadsOwned'
  BY <1>1 DEF ThreadsOwned
<1>6. BuildProgress'
  BY <1>1 DEF BuildProgress
<1>7. ActiveServed'
  BY <1>1 DEF ActiveServed
<1>8. MediaHasRelays'
  BY <1>1 DEF MediaHasRelays
<1>9. QED BY <1>2, <1>3, <1>4, <1>5, <1>6, <1>7, <1>8

\* A packet of the peer reaches WireGuard.
LEMMA InjectStep ==
  ASSUME RouteInv, ReaderInjects
  PROVE  RouteInv'
<1> USE NotNone DEF RouteInv, routeVars, tunnelVars, derpVars, udpVars
<1> USE DEF ReaderInjects, At
<1>1. tunnel \in Tunnels
  BY DEF TypeOK, ThreadsOwned
<1>2. tunnel' \in Tunnels /\ tunnel'.peer = tunnel.peer /\ tunnel \in Tunnels
  BY <1>1 DEF Tunnels
<1>3. TypeOK'
  BY <1>2 DEF TypeOK, Tunnels
<1>4. CallShape'
  BY <1>2 DEF CallShape
<1>5. LockHeld'
  BY <1>2 DEF LockHeld, Tunnels
<1>6. ThreadsOwned'
  BY <1>2 DEF ThreadsOwned, Tunnels
<1>7. BuildProgress'
  BY <1>2 DEF BuildProgress, Tunnels
<1>8. ActiveServed'
  BY <1>2 DEF ActiveServed, Tunnels
<1>9. MediaHasRelays'
  BY <1>2 DEF MediaHasRelays
<1>10. QED BY <1>3, <1>4, <1>5, <1>6, <1>7, <1>8, <1>9

\* A writer takes the mutex only over a session that is there.
LEMMA WriteStep ==
  ASSUME RouteInv, ReaderReplies \/ Egress \/ UdpSends
  PROVE  RouteInv'
<1> USE NotNone DEF RouteInv, routeVars, tunnelVars, derpVars, udpVars
<1> USE DEF ReaderReplies, Egress, UdpSends, CanWrite, OnlyReader, OnlyUdp
<1>1. TypeOK'
  BY DEF TypeOK, StopPcs, BuildPcs, SessionStates, Writers
<1>2. CallShape'
  BY DEF CallShape
<1>3. LockHeld'
  BY DEF LockHeld, TypeOK, CallShape, ThreadsOwned, StopPcs, BuildPcs, SessionStates,
     Writers
<1>4. ThreadsOwned'
  BY DEF ThreadsOwned
<1>5. BuildProgress'
  BY DEF BuildProgress
<1>6. ActiveServed'
  BY DEF ActiveServed
<1>7. MediaHasRelays'
  BY DEF MediaHasRelays
<1>8. QED BY <1>1, <1>2, <1>3, <1>4, <1>5, <1>6, <1>7

\* The UDP thread goes round.
LEMMA UdpStep ==
  ASSUME RouteInv, UdpLoop \/ UdpInjects
  PROVE  RouteInv'
<1> USE NotNone DEF RouteInv, routeVars, tunnelVars, derpVars, udpVars
<1> USE DEF UdpLoop, UdpInjects, OnlyUdp
<1>1. TypeOK'
  BY DEF TypeOK
<1>2. CallShape'
  BY DEF CallShape
<1>3. LockHeld'
  BY DEF LockHeld
<1>4. ThreadsOwned'
  BY DEF ThreadsOwned
<1>5. BuildProgress'
  BY DEF BuildProgress
<1>6. ActiveServed'
  BY DEF ActiveServed
<1>7. MediaHasRelays'
  BY DEF MediaHasRelays
<1>8. QED BY <1>1, <1>2, <1>3, <1>4, <1>5, <1>6, <1>7

\* A write ends.
LEMMA WriteEndsStep ==
  ASSUME RouteInv, WriteEnds
  PROVE  RouteInv'
<1> USE NotNone DEF RouteInv, routeVars, tunnelVars, derpVars, udpVars
<1> USE DEF WriteEnds
<1>1. TypeOK'
  BY DEF TypeOK
<1>2. CallShape'
  BY DEF CallShape
<1>3. LockHeld'
  BY DEF LockHeld, TypeOK, CallShape, ThreadsOwned, StopPcs, BuildPcs, SessionStates,
     Writers
<1>4. ThreadsOwned'
  BY DEF ThreadsOwned, TypeOK, LockHeld
<1>5. BuildProgress'
  BY DEF BuildProgress
<1>6. ActiveServed'
  BY DEF ActiveServed
<1>7. MediaHasRelays'
  BY DEF MediaHasRelays
<1>8. QED BY <1>1, <1>2, <1>3, <1>4, <1>5, <1>6, <1>7

\* The session drops.
LEMMA DropsStep ==
  ASSUME RouteInv, DerpDrops
  PROVE  RouteInv'
<1> USE NotNone DEF RouteInv, routeVars, tunnelVars, derpVars, udpVars
<1> USE DEF DerpDrops, OnlyReader
<1>1. TypeOK'
  BY DEF TypeOK, StopPcs, BuildPcs, SessionStates, Writers
<1>2. CallShape'
  BY DEF CallShape
<1>3. LockHeld'
  BY DEF LockHeld
<1>4. ThreadsOwned'
  BY DEF ThreadsOwned, TypeOK, LockHeld, StopPcs, BuildPcs, SessionStates, Writers
<1>5. BuildProgress'
  BY DEF BuildProgress, TypeOK, CallShape, StopPcs, BuildPcs, SessionStates, Writers
<1>6. ActiveServed'
  BY DEF ActiveServed, TypeOK, CallShape, BuildProgress, StopPcs, BuildPcs,
     SessionStates, Writers
<1>7. MediaHasRelays'
  BY DEF MediaHasRelays
<1>8. QED BY <1>1, <1>2, <1>3, <1>4, <1>5, <1>6, <1>7

\* Every step keeps the invariant.
LEMMA RouteInvStep == RouteInv /\ [Next]_vars => RouteInv'
<1> SUFFICES ASSUME RouteInv, [Next]_vars PROVE RouteInv'
  OBVIOUS
<1>1. CASE StartProvider \/ \E t \in Targets : ActivateAgain(t)
  BY <1>1, ProviderStep
<1>2. ASSUME NEW t \in Targets, Prepare(t) PROVE RouteInv'
  BY <1>2, PrepareStep
<1>3. ASSUME NEW t \in Targets, Activate(t) \/ Deactivate(t) PROVE RouteInv'
  BY <1>3, BeginStep DEF Activate, Deactivate
<1>4. CASE StopProvider
  BY <1>4, BeginStep DEF StopProvider
<1>5. CASE CallerStep
  BY <1>5, StopUdpThreadStep, JoinUdpStep, InterruptStep, CloseDerpStep, JoinReaderStep,
     StopTunnelStep, CreateTunnelStep, AddPeerStep, HandshakeStep, ProxyStep, PathStep,
     FailStep, WorkerFailsStep DEF CallerStep, ActivateFails, BuildPcs
<1>6. CASE CallerLocks \/ DerpAnswers
  BY <1>6, LockDerpStep, ResetDerpStep, EchoTestStep, ConnectDerpStep, FailStep
  DEF CallerLocks, DerpAnswers, DerpFails, At, BuildPcs
<1>7. CASE ReaderLoop \/ ReaderReads \/ ReaderFails \/ ReaderLoadsPeer \/ ReaderInjects
  BY <1>7, ReaderStep, InjectStep
<1>8. CASE ReaderReplies \/ Egress \/ UdpSends \/ UdpLoop \/ UdpInjects
  BY <1>8, WriteStep, UdpStep
<1>9. CASE WriteEnds \/ DerpDrops
  BY <1>9, WriteEndsStep, DropsStep
<1>10. CASE UNCHANGED vars
  BY <1>10 DEF vars, routeVars, tunnelVars, derpVars, udpVars, RouteInv, TypeOK, CallShape,
     LockHeld, ThreadsOwned, BuildProgress, ActiveServed, MediaHasRelays
<1>11. QED
  BY <1>1, <1>2, <1>3, <1>4, <1>5, <1>6, <1>7, <1>8, <1>9, <1>10 DEF Next

\* The inductive invariant holds.
THEOREM RouteInvariant == Spec => []RouteInv
BY InitRouteInv, RouteInvStep, PTL DEF Spec

\* The variables keep their types.
THEOREM TypesHold == Spec => []TypeOK
BY RouteInvariant, PTL DEF RouteInv

\* A session is open from the connect until a drop or an interrupt: all that
\* time it counts as alive and its reader is neither gone nor on its way out.
\* It is closed only inside a teardown.  A route that is up has WireGuard's
\* worker running.
SessionHeld ==
  /\ derp = "open" => derpAlive /\ derpRunning /\ reader \notin {"off", "ended"}
  /\ derp = "closed" => call.pc \in {"joinReader", "reset"}
  /\ call.pc \in {"handshake", "proxy", "path"} => tunnel.running
  /\ (call.pc = "idle" /\ activeRoute # None) => tunnel.running

\* Every step keeps the session as it is described.
LEMMA SessionStep ==
  ASSUME RouteInv, SessionHeld, [Next]_vars
  PROVE  SessionHeld'
<1> USE NotNone DEF routeVars, tunnelVars, derpVars, udpVars, SessionHeld
<1>1. CASE StartProvider \/ StopProvider \/ \E t \in Targets :
             Activate(t) \/ ActivateAgain(t) \/ Prepare(t) \/ Deactivate(t)
  BY <1>1, IdleFacts DEF StartProvider, StopProvider, Activate, ActivateAgain, Prepare,
     Deactivate, Begin, RouteInv, CallShape
<1>2. CASE StopUdpThread \/ JoinUdp \/ LockDerp \/ CreateTunnel \/ EchoTest
  BY <1>2, GotoFacts DEF StopUdpThread, JoinUdp, LockDerp, CreateTunnel, EchoTest, At,
     RouteInv, TypeOK, Pcs, StopPcs, BuildPcs
<1>3. CASE Interrupt
  BY <1>3, GotoFacts DEF Interrupt, At, RouteInv, TypeOK, Pcs, StopPcs, BuildPcs
<1>4. CASE CloseDerp
  BY <1>4, GotoFacts DEF CloseDerp, At, RouteInv, TypeOK, Pcs, StopPcs, BuildPcs,
     SessionStates
<1>5. CASE JoinReader
  <2>1. derp \in {None, "closed"} /\ derp' = derp /\ call'.pc = "reset"
    BY <1>5, GotoFacts DEF JoinReader, At, RouteInv, TypeOK, ThreadsOwned, Pcs, StopPcs,
       BuildPcs
  <2>2. QED BY <2>1 DEF SessionStates
<1>6. CASE ResetDerp
  BY <1>6, GotoFacts DEF ResetDerp, At, RouteInv, TypeOK, Pcs, StopPcs, BuildPcs,
     SessionStates
<1>7. CASE StopTunnel
  <2>1. derp' = None /\ activeRoute' \in {None, activeRoute}
        /\ (call'.pc = "tunnel" \/ (call'.pc = "idle" /\ activeRoute' = None))
    BY <1>7, GotoFacts, IdleFacts DEF StopTunnel, DestroyTunnel, At, Return, RouteInv,
       TypeOK,
       ThreadsOwned, Pcs, StopPcs, BuildPcs
  <2>2. QED BY <2>1 DEF SessionStates
<1>8. CASE ConnectDerp
  BY <1>8, GotoFacts DEF ConnectDerp, At, RouteInv, TypeOK, Pcs, StopPcs, BuildPcs
<1>9. CASE AddPeer
  <2>1. tunnel \in Tunnels /\ tunnel'.running /\ call'.pc = "handshake" /\ call.pc = "peer"
    BY <1>9, GotoFacts DEF AddPeer, RegisterPeer, At, RouteInv, TypeOK, BuildProgress, Pcs,
       StopPcs, BuildPcs, Tunnels
  <2>2. QED BY <1>9, <2>1 DEF AddPeer
<1>10. CASE Handshake \/ StartTcpProxy
  BY <1>10, GotoFacts DEF Handshake, StartTcpProxy, At, RouteInv, TypeOK, Pcs, StopPcs,
     BuildPcs
<1>11. CASE StartDirectPath
  BY <1>11, IdleFacts DEF StartDirectPath, At, Return
<1>12. CASE ActivateFails \/ DerpFails \/ StartWorkerFails
  BY <1>12, IdleFacts DEF ActivateFails, DerpFails, RouteFails, StartWorkerFails, At, Return
<1>13. CASE ReaderLoop \/ ReaderReads \/ ReaderFails \/ ReaderLoadsPeer
  BY <1>13 DEF ReaderLoop, ReaderReads, ReaderFails, ReaderLoadsPeer, OnlyReader
<1>14. CASE ReaderInjects
  <2>1. tunnel \in Tunnels /\ tunnel'.running = tunnel.running
    BY <1>14 DEF ReaderInjects, RouteInv, TypeOK, ThreadsOwned, Tunnels
  <2>2. QED BY <1>14, <2>1 DEF ReaderInjects
<1>15. CASE ReaderReplies \/ Egress \/ UdpSends \/ UdpLoop \/ UdpInjects
  BY <1>15 DEF ReaderReplies, Egress, UdpSends, UdpLoop, UdpInjects, OnlyReader, OnlyUdp
<1>16. CASE WriteEnds \/ DerpDrops
  BY <1>16 DEF WriteEnds, DerpDrops, OnlyReader
<1>17. CASE UNCHANGED vars
  BY <1>17 DEF vars
<1>18. QED
  BY <1>1, <1>2, <1>3, <1>4, <1>5, <1>6, <1>7, <1>8, <1>9, <1>10, <1>11, <1>12, <1>13,
     <1>14, <1>15, <1>16, <1>17
  DEF Next, CallerStep, DerpAnswers, CallerLocks

\* The relay session of a route lasts, with its reader, until it is dropped or
\* a teardown interrupts it.
THEOREM SessionLasts == Spec => []SessionHeld
<1>1. Init => SessionHeld
  BY IdleFacts, NotNone DEF Init, SessionHeld, SessionStates
<1>2. QED BY <1>1, SessionStep, RouteInvariant, PTL DEF Spec

\* What an activation was answered is true of the packet path until the route
\* is released, and its relay session works unless it was dropped.
THEOREM PromisedRouteServed == Spec => []RouteServed
<1>1. ASSUME RouteInv, SessionHeld, call = Idle, promised # None
      PROVE  /\ relay # None /\ relay.host = promised.host
             /\ tunnel # None /\ tunnel.peer = promised.peer /\ tunnel.running
             /\ activePeerId = promised.peer /\ peerNodeKey = promised.peer
             /\ derp \in {"open", "down"}
             /\ derp = "open" => derpAlive /\ derpRunning /\ reader \notin {"off", "ended"}
  <2>1. call.pc = "idle" /\ activeRoute # None /\ promised = activeRoute
    BY <1>1, IdleFacts DEF RouteInv, ActiveServed
  <2>2. derp \in SessionStates /\ derp # "closed"
    BY <1>1, <2>1 DEF RouteInv, TypeOK, ActiveServed, SessionHeld
  <2>3. QED BY <1>1, <2>1, <2>2 DEF RouteInv, ActiveServed, SessionHeld, SessionStates
<1>2. RouteInv /\ SessionHeld => RouteServed
  BY <1>1 DEF RouteServed
<1>3. QED BY <1>2, SessionLasts, RouteInvariant, PTL

\* The flag of the media relays never outlives them.
THEOREM MediaFlagTrue == Spec => []MediaHasRelays
BY RouteInvariant, PTL DEF RouteInv

\* Neither the session nor the tunnel goes while a thread may touch it, and a
\* session is not closed under a write.
THEOREM TeardownIsSafe == Spec => []TeardownSafe
<1>1. RouteInv => TeardownSafe
  BY DEF RouteInv, LockHeld, ThreadsOwned, TeardownSafe
<1>2. QED BY <1>1, RouteInvariant, PTL

\* No packet of the peer is refused while a handshake waits for it.
THEOREM HandshakeRepliesAccepted == Spec => RepliesAccepted
<1>1. ASSUME RouteInv, [Next]_vars, reader = "packet", reader' # "packet", At("handshake")
      PROVE  reader' = "inject"
  <2> USE <1>1 DEF At
  <2>1. activePeerId # None
    BY RouteAssumption DEF RouteInv, TypeOK, CallShape, BuildProgress, BuildPcs, Peers
  <2>2. CASE ReaderLoadsPeer
    BY <2>1, <2>2 DEF ReaderLoadsPeer
  <2>3. CASE ReaderLoop \/ ReaderReads \/ ReaderFails \/ ReaderInjects \/ ReaderReplies
    BY <2>3 DEF ReaderLoop, ReaderReads, ReaderFails, ReaderInjects, ReaderReplies
  <2>4. CASE WriteEnds
    BY <2>4 DEF WriteEnds, RouteInv, LockHeld
  <2>5. CASE CallerStep
    BY <2>5 DEF CallerStep, StopUdpThread, JoinUdp, Interrupt, CloseDerp, JoinReader,
       StopTunnel, DestroyTunnel, CreateTunnel, AddPeer, Handshake, StartTcpProxy,
       StartDirectPath, ActivateFails, RouteFails, StartWorkerFails
  <2>6. CASE CallerLocks \/ DerpAnswers
    BY <2>6 DEF CallerLocks, LockDerp, ResetDerp, EchoTest, DerpAnswers, ConnectDerp,
       DerpFails, RouteFails
  <2>7. CASE StartProvider \/ StopProvider \/ \E t \in Targets :
               Activate(t) \/ ActivateAgain(t) \/ Prepare(t) \/ Deactivate(t)
    BY <2>7 DEF StartProvider, StopProvider, Activate, ActivateAgain, Prepare,
       Deactivate, Begin
  <2>8. CASE UdpLoop \/ UdpInjects \/ UdpSends \/ Egress \/ DerpDrops
    BY <2>8 DEF UdpLoop, UdpInjects, UdpSends, Egress, DerpDrops, OnlyUdp, OnlyReader
  <2>9. CASE UNCHANGED vars
    BY <2>9 DEF vars
  <2>10. QED
    BY <2>2, <2>3, <2>4, <2>5, <2>6, <2>7, <2>8, <2>9 DEF Next
<1>2. QED BY <1>1, RouteInvariant, PTL DEF Spec, RepliesAccepted

-----------------------------------------------------------------------------
(* TailscaleDirectPath.                                                    *)

\* Ages grow alike, and stop where the code no longer tells them apart.
LEMMA OlderKeepsOrder ==
  ASSUME NEW a \in Nat, NEW b \in Nat, NEW max \in Nat
  PROVE  Older(a, max) \in Nat /\ (a <= b => Older(a, max) <= Older(b, max))
BY DEF Older, Cap

\* Starting and stopping a route forgets everything that was proven.
LEMMA RouteSteps ==
  ASSUME PathInv, Stop \/ \E p \in Nodes, known \in NetmapLists : Start(p, known)
  PROVE  PathInv'
<1> USE DirectPathAssumption DEF PathInv
<1>1. /\ config' \in Nodes \cup {Absent} /\ pending' = {} /\ best' = NoBest
      /\ answered' = Forgotten /\ UNCHANGED <<notice, flying>> /\ reportedBest' = Absent
      /\ Quiet
  BY DEF Start, Stop, StoppedIsSilent
<1>2. path' = Absent
  BY DEF Start, Stop, StoppedIsSilent, ReportLost, ReportFollowsPath
<1>3. NoBest \in [endpoint : Endpoints \cup {Absent}, age : Nat, rtt : Nat]
      /\ Forgotten \in [Endpoints -> Nat] /\ NoBest.endpoint = Absent
  BY DEF NoBest, Forgotten
<1>4. PathTypes'
  BY <1>1, <1>3 DEF PathTypes
<1>5. BestProven' /\ PongsOwned'
  BY <1>1, <1>3 DEF BestProven, PongsOwned
<1>6. StoppedIsSilent' /\ ReportFollowsPath'
  BY <1>1, <1>2 DEF StoppedIsSilent, ReportFollowsPath, Quiet
<1>7. QED BY <1>4, <1>5, <1>6

\* Housekeeping sends pings under new transaction ids only, and a change of
\* the best path is always followed by a notice.
LEMMA HousekeepingStep ==
  ASSUME PathInv, Housekeeping
  PROVE  PathInv'
<1> USE DEF PathInv
<1>1. /\ Running /\ Quiet /\ reportedBest' = Best /\ notice' = (Best # reportedBest)
      /\ UNCHANGED <<config, best, path, flying, answered>>
  BY DEF Housekeeping
<1>2. PICK tx \in [Due -> Fresh] : /\ \A i, j \in Due : tx[i] = tx[j] => i = j
                                   /\ Ping(tx)
  BY DEF Housekeeping
<1> DEFINE sent == {[tx |-> tx[i], endpoint |-> candidates[i].endpoint, age |-> 0] : i \in Due}
<1>3. pending' \subseteq Kept \cup sent
  BY <1>2 DEF Ping, Remember
<1>4. \A q \in sent : \E i \in Due : q.tx = tx[i] /\ q.endpoint = candidates[i].endpoint
  OBVIOUS
<1>5. \A q \in sent : q.tx \in Fresh
  BY <1>2, <1>4
<1>6. \A q \in Kept, r \in sent : q.tx # r.tx
  BY <1>5 DEF Fresh
<1>7. \A m \in flying, r \in sent : m.tx # r.tx
  BY <1>5 DEF Fresh
<1>8. \A q, r \in sent : q.tx = r.tx => q.endpoint = r.endpoint
  BY <1>2, <1>4
<1> HIDE DEF sent
<1>9. PongsOwned'
  BY <1>1, <1>3, <1>6, <1>7, <1>8 DEF PongsOwned, Kept
<1>10. PathTypes' /\ BestProven'
  BY <1>1 DEF PathTypes, BestProven, Running
<1>11. StoppedIsSilent'
  BY <1>1 DEF StoppedIsSilent, Running
<1>12. ReportFollowsPath'
  BY <1>1 DEF ReportFollowsPath, Quiet
<1>13. QED BY <1>9, <1>10, <1>11, <1>12

\* A notice reports what was last recorded; a stale report is dropped.
LEMMA ReportSteps ==
  ASSUME PathInv, Notify \/ PollPaths
  PROVE  PathInv'
<1> USE DEF PathInv
<1>1. UNCHANGED <<config, pending, best, reportedBest, flying, answered>> /\ notice' \in BOOLEAN
  BY DEF Notify, PollPaths, PathTypes
<1>2. PathTypes' /\ BestProven' /\ PongsOwned'
  BY <1>1 DEF PathTypes, BestProven, PongsOwned, Running
<1>3. CASE Notify
  BY <1>1, <1>2, <1>3 DEF Notify, StoppedIsSilent, ReportFollowsPath, Running, Quiet,
     ReportLost
<1>4. CASE PollPaths
  BY <1>1, <1>2, <1>4 DEF PollPaths, StoppedIsSilent, ReportFollowsPath, Running, Quiet
<1>5. QED BY <1>3, <1>4

\* A pong moves the best path only when it proves the endpoint as well.
LEMMA PongStep ==
  ASSUME PathInv, NEW m \in flying, NEW rtt \in Rtts, ReceivePong(m, rtt)
  PROVE  PathInv'
<1> USE DirectPathAssumption DEF PathInv
<1>1. /\ Running /\ flying' = flying \ {m} /\ pending' = {q \in pending : q.tx # m.tx}
      /\ UNCHANGED <<config, reportedBest, notice, path>>
  BY DEF ReceivePong
<1>2. m.from \in Endpoints /\ m.from # Absent /\ rtt \in Nat
  BY DEF PathTypes
<1> DEFINE matched == \E q \in Outstanding(m) : Matches(m, q)
           proof == /\ m.peer = config /\ m.from = m.to
                    /\ \E q \in Outstanding(m) : q.age <= PingTimeout
<1>3. matched => proof
  <2> SUFFICES ASSUME NEW q \in Outstanding(m), Matches(m, q) PROVE proof
    OBVIOUS
  <2>1. m.to = q.endpoint /\ m.peer = config
    BY DEF PongsOwned, Outstanding
  <2>2. QED BY <2>1 DEF Matches
<1>4. /\ best' = IF matched /\ Better(m.from, rtt)
                 THEN [endpoint |-> m.from, age |-> 0, rtt |-> rtt] ELSE best
      /\ answered' = IF proof THEN [answered EXCEPT ![m.from] = 0] ELSE answered
  BY DEF ReceivePong
<1> HIDE DEF matched, proof
<1>5. PathTypes'
  <2>1. best' \in [endpoint : Endpoints \cup {Absent}, age : Nat, rtt : Nat]
    BY <1>2, <1>4 DEF PathTypes
  <2>2. answered' \in [Endpoints -> Nat]
    BY <1>4 DEF PathTypes
  <2>3. QED BY <1>1, <2>1, <2>2 DEF PathTypes
<1>6. BestProven'
  <2>1. CASE matched /\ Better(m.from, rtt)
    BY <1>2, <1>3, <1>4, <2>1 DEF PathTypes, BestProven
  <2>2. CASE ~(matched /\ Better(m.from, rtt))
    <3>1. best' = best /\ best.age \in Nat
      BY <1>4, <2>2 DEF PathTypes
    <3>2. best.endpoint # Absent => answered'[best.endpoint] <= best.age
      BY <1>1, <1>2, <1>4, <3>1 DEF PathTypes, BestProven
    <3>3. QED BY <3>1, <3>2 DEF BestProven
  <2>3. QED BY <2>1, <2>2
<1>7. PongsOwned'
  BY <1>1 DEF PongsOwned
<1>8. StoppedIsSilent' /\ ReportFollowsPath'
  BY <1>1 DEF StoppedIsSilent, ReportFollowsPath, Running, Quiet
<1>9. QED BY <1>5, <1>6, <1>7, <1>8

\* The network and time: an answer carries the id of one outstanding ping.
LEMMA NetworkSteps ==
  ASSUME PathInv,
         \/ \E q \in pending, from \in Endpoints : Answer(q, from)
         \/ \E m \in flying : Lose(m)
         \/ \E e \in Endpoints : LearnCandidate(e)
         \/ Tick \/ UNCHANGED pathVars
  PROVE  PathInv'
<1> USE DirectPathAssumption DEF PathInv
<1>1. UNCHANGED <<config, reportedBest, notice, path>>
  BY DEF Answer, Lose, LearnCandidate, Tick, pathVars
<1>2. StoppedIsSilent' /\ ReportFollowsPath'
  BY <1>1 DEF StoppedIsSilent, ReportFollowsPath, Running, Quiet, Answer, Lose,
     LearnCandidate, Tick, pathVars
<1>3. ASSUME NEW q \in pending, NEW from \in Endpoints, Answer(q, from)
      PROVE  PathTypes' /\ BestProven' /\ PongsOwned'
  <2>1. /\ flying' = flying \cup
             {[tx |-> q.tx, to |-> q.endpoint, from |-> from, peer |-> config]}
        /\ UNCHANGED <<pending, best, answered>>
    BY <1>3 DEF Answer
  <2>2. QED BY <1>1, <2>1 DEF PathTypes, BestProven, PongsOwned, Running
<1>4. ASSUME NEW m \in flying, Lose(m)
      PROVE  PathTypes' /\ BestProven' /\ PongsOwned'
  BY <1>1, <1>4 DEF Lose, PathTypes, BestProven, PongsOwned, Running
<1>5. CASE (\E e \in Endpoints : LearnCandidate(e)) \/ UNCHANGED pathVars
  BY <1>1, <1>2, <1>5 DEF LearnCandidate, pathVars, PathTypes, BestProven, PongsOwned,
     Running
<1>6. CASE Tick
  <2>1. /\ pending' = {[tx |-> q.tx, endpoint |-> q.endpoint,
                        age |-> Older(q.age, PingTimeout + 1)] : q \in pending}
        /\ best' = [best EXCEPT !.age = Older(best.age, Trust + 1)]
        /\ answered' = [e \in Endpoints |-> Older(answered[e], Trust + 1)]
        /\ flying' = flying
    BY <1>6 DEF Tick
  <2>2. Trust + 1 \in Nat /\ best.age \in Nat
    BY DEF PathTypes
  <2>3. Older(best.age, Trust + 1) \in Nat
    BY <2>2, OlderKeepsOrder
  <2>4. best' \in [endpoint : Endpoints \cup {Absent}, age : Nat, rtt : Nat]
    BY <2>1, <2>3 DEF PathTypes
  <2>5. \A e \in Endpoints :
          /\ answered[e] \in Nat /\ Older(answered[e], Trust + 1) \in Nat
          /\ answered[e] <= best.age =>
               Older(answered[e], Trust + 1) <= Older(best.age, Trust + 1)
    <3>1. \A e \in Endpoints : answered[e] \in Nat
      BY DEF PathTypes
    <3>2. QED BY <2>2, <3>1, OlderKeepsOrder
  <2>6. PathTypes'
    BY <1>1, <2>1, <2>4, <2>5 DEF PathTypes
  <2>7. BestProven'
    <3>1. best'.endpoint = best.endpoint /\ best'.age = Older(best.age, Trust + 1)
          /\ best.endpoint \in Endpoints \cup {Absent}
      BY <2>1 DEF PathTypes
    <3>2. QED BY <1>1, <2>1, <2>5, <3>1 DEF BestProven, Running
  <2>8. \A r \in pending' : \E q \in pending : r.tx = q.tx /\ r.endpoint = q.endpoint
    BY <2>1
  <2>9. PongsOwned'
    BY <1>1, <2>1, <2>8 DEF PongsOwned
  <2>10. QED BY <1>2, <2>6, <2>7, <2>9
<1>7. QED BY <1>2, <1>3, <1>4, <1>5, <1>6

\* PathInv is an invariant of the direct path.
THEOREM PathInvariant == PathSpec => []PathInv
<1>1. PathInit => PathInv
  <2> SUFFICES ASSUME PathInit PROVE PathInv
    OBVIOUS
  <2> USE DirectPathAssumption DEF PathInit
  <2>1. NoBest \in [endpoint : Endpoints \cup {Absent}, age : Nat, rtt : Nat]
        /\ Forgotten \in [Endpoints -> Nat] /\ NoBest.endpoint = Absent
    BY DEF NoBest, Forgotten
  <2>2. PathTypes
    BY <2>1 DEF PathTypes
  <2>3. BestProven /\ PongsOwned
    BY <2>1 DEF BestProven, PongsOwned
  <2>4. StoppedIsSilent /\ ReportFollowsPath
    BY DEF StoppedIsSilent, ReportFollowsPath, Quiet
  <2>5. QED BY <2>2, <2>3, <2>4 DEF PathInv
<1>2. PathInv /\ [PathNext]_pathVars => PathInv'
  <2> SUFFICES ASSUME PathInv, [PathNext]_pathVars PROVE PathInv'
    OBVIOUS
  <2>1. CASE Stop \/ \E p \in Nodes, known \in NetmapLists : Start(p, known)
    BY <2>1, RouteSteps
  <2>2. CASE Housekeeping
    BY <2>2, HousekeepingStep
  <2>3. CASE Notify \/ PollPaths
    BY <2>3, ReportSteps
  <2>4. CASE Network \/ Tick \/ UNCHANGED pathVars
    BY <2>4, NetworkSteps, PongStep DEF Network
  <2>5. QED BY <2>1, <2>2, <2>3, <2>4 DEF PathNext
<1>3. QED BY <1>1, <1>2, PTL DEF PathSpec

\* Packets leave the relay only for an endpoint the peer of this route has
\* proven within the trust window, whatever the network does with the pongs.
THEOREM EgressOnlyToProven == PathSpec => []EgressProven
<1>1. PathInv => EgressProven
  <2> SUFFICES ASSUME PathInv, Running, Best # Absent PROVE answered[Best] <= Trust
    BY DEF EgressProven
  <2>1. best.age \in Nat /\ Trust \in Nat /\ answered \in [Endpoints -> Nat]
        /\ best.endpoint \in Endpoints \cup {Absent}
    BY DirectPathAssumption DEF PathInv, PathTypes
  <2>2. ~(best.age > Trust) /\ Best = best.endpoint
    BY DEF Best
  <2>3. answered[best.endpoint] <= best.age
    BY <2>2 DEF PathInv, BestProven
  <2>4. answered[best.endpoint] \in Nat
    BY <2>1, <2>2
  <2>5. QED BY <2>1, <2>2, <2>3, <2>4
<1>2. QED BY <1>1, PathInvariant, PTL

\* PathManager reports a direct path only while the route has it.
THEOREM ReportsFollowPath == PathSpec => []ReportFollowsPath
<1>1. PathInv => ReportFollowsPath
  BY DEF PathInv
<1>2. QED BY <1>1, PathInvariant, PTL
=============================================================================
