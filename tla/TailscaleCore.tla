--------------------------- MODULE TailscaleCore ---------------------------
(* TailscaleCore and TailscaleControlSession: the worker that keeps a      *)
(* control session and reconnects it, the routes the manager activates,    *)
(* the path thread that publishes endpoints, and stop.  One life of a core *)
(* from start to stop.  The locks are the mutex of TailscaleProvider (held *)
(* by route calls and by stop), and advertiseMutex_, held over a Hostinfo  *)
(* update that is being written.  Frames, Noise and JSON are abstracted to *)
(* the messages that come out of poll; the control server, the network and *)
(* the packet path (overlay) are external.                                 *)

EXTENDS Integers, FiniteSets

CONSTANTS Peers,      \* peers routes can lead to
          Regions,    \* DERP regions, positive numbers
          Endpoints,  \* endpoint lists the path thread may publish
          Messages,   \* netmap messages the server may send, see NetmapMessage
          NoList,     \* the empty endpoint list
          None

Home == Regions \cup {0}
Entry == [home : Home, online : BOOLEAN]
Directories == UNION {[D -> Entry] : D \in SUBSET Peers}

\* A decoded MapUpdate; keep-alives have every part empty.
NetmapMessage ==
  [full : BOOLEAN, peers : Directories,
   removed : SUBSET Peers, online : UNION {[D -> BOOLEAN] : D \in SUBSET Peers},
   address : BOOLEAN, derp : (SUBSET Regions) \cup {None}]

ASSUME CoreAssumption ==
  /\ Regions \subseteq Nat \ {0} /\ None \notin Peers /\ NoList \notin Endpoints
  /\ Messages \subseteq NetmapMessage

VARIABLES
  worker,      \* where the worker thread is
  firstSession, everProductive,
  authKey,     \* the login key is still held
  registers,   \* how often it has been sent
  gotMessage,  \* messageCount > 0 in this session
  result,      \* SessionResult
  transport,   \* none, fresh (no socket yet), socket, shut, lost
  initial,     \* initialPreferredDerp_
  stopping,    \* where stop is
  hint, advertised, connected,   \* homeDerpHint_, advertisedDerp_, controlConnected_
  published,   \* publishedEndpoints_ and the session's localEndpoints_
  sending,     \* the Hostinfo update being written under advertiseMutex_
  server,      \* external: what the server knows of this node
  state,       \* Snapshot::State
  directory,   \* PeerDirectory: peer -> home region and presence
  derpMap,     \* regions with nodes
  router,      \* where a route call of the manager is
  activeRoute,
  overlay      \* external: the peer whose packet path is up

session == <<firstSession, everProductive, authKey, registers, gotMessage, result>>
netmap == <<directory, derpMap>>
adverts == <<hint, advertised, connected, published, sending, server>>
routes == <<router, activeRoute, overlay>>
vars == <<worker, session, transport, initial, stopping, adverts, state, netmap, routes>>

Update(who, region) == [who |-> who, region |-> region]
NoUpdate == Update(None, 0)
NoCall == [pc |-> "idle", peer |-> None, home |-> 0]

Init ==
  /\ worker = "start" /\ firstSession = TRUE /\ everProductive = FALSE
  /\ authKey \in BOOLEAN /\ registers = 0 /\ gotMessage = FALSE /\ result = "Stopped"
  /\ transport = "none" /\ initial = 0 /\ stopping = "no"
  /\ hint \in Home /\ advertised = 0 /\ connected = FALSE
  /\ published = NoList /\ sending = NoUpdate
  /\ server = [region |-> hint, endpoints |-> NoList]
  /\ state = "Starting" /\ directory = [p \in {} |-> 0] /\ derpMap = {}
  /\ router = NoCall
  /\ activeRoute = None /\ overlay = None

StopRequested == stopping # "no"
Unlocked == sending = NoUpdate

-----------------------------------------------------------------------------
(* runControlSession: connect *)

\* The hint is read for the MapRequest of this session; the transport object
\* is published before it has a socket.
BeginSession ==
  /\ worker = "start" /\ Unlocked
  /\ IF StopRequested
     THEN worker' = "ended" /\ UNCHANGED <<initial, state, transport>>
     ELSE /\ worker' = "dial" /\ initial' = hint
          /\ state' = "ConnectingControl" /\ transport' = "fresh"
  /\ UNCHANGED <<session, stopping, adverts, netmap, routes>>

OpenSocket ==
  /\ worker = "dial" /\ worker' = "handshake" /\ transport' = "socket"
  /\ UNCHANGED <<session, initial, stopping, adverts, state, netmap, routes>>

\* The upgrade and the Noise handshake are answered; with a login key the
\* registration is sent and its answer awaited.
Handshake ==
  /\ worker = "handshake" /\ transport = "socket"
  /\ IF authKey
     THEN worker' = "register" /\ registers' = registers + 1
     ELSE worker' = "map" /\ UNCHANGED registers
  /\ UNCHANGED <<firstSession, everProductive, authKey, gotMessage, result, transport,
                 initial, stopping, adverts, state, netmap, routes>>

Registered ==
  /\ worker = "register" /\ transport = "socket" /\ worker' = "map"
  /\ UNCHANGED <<session, transport, initial, stopping, adverts, state, netmap, routes>>

\* The streaming MapRequest carries the region and the endpoints of now.
SendMapRequest ==
  /\ worker = "map" /\ transport = "socket" /\ worker' = "connected"
  /\ server' = [region |-> initial, endpoints |-> published]
  /\ UNCHANGED <<session, transport, initial, stopping, hint, advertised, connected,
                 published, sending, state, netmap, routes>>

\* Mutant: the login key is kept for the reconnects.
KeyKept == authKey

\* authKey.clear, after a first failure and after every successful connect
KeyAfterConnect == FALSE

\* What workerMain does with the result of a session.
AfterSession(r) ==
  /\ everProductive' = (everProductive \/ r = "DroppedAfterData")
  /\ IF r \in {"Stopped", "Fatal"} \/ StopRequested \/ ~everProductive'
     THEN worker' = "ended" /\ UNCHANGED firstSession
     ELSE worker' = "backoff" /\ firstSession' = FALSE

ResetTransport == transport' = "none"

\* Any step of connect fails: refused, reset, or woken by interrupt.
ConnectFails ==
  /\ worker \in {"dial", "handshake", "register", "map"}
  /\ ResetTransport
  /\ IF firstSession
     THEN authKey' = FALSE /\ state' = IF authKey THEN "Error" ELSE "NeedsAuthentication"
     ELSE UNCHANGED authKey /\ state' = "ConnectingControl"
  /\ result' = IF StopRequested THEN "Stopped" ELSE "ConnectFailed"
  /\ AfterSession(result')
  /\ UNCHANGED <<registers, gotMessage, initial, stopping, adverts, netmap, routes>>

\* Mutant: the hint of now is taken for the one that was sent.
HintOfNow == hint

\* A region sent in the initial MapRequest is already advertised.
SentInMapRequest == initial

Connected ==
  /\ worker = "connected" /\ Unlocked /\ worker' = "poll"
  /\ authKey' = KeyAfterConnect /\ gotMessage' = FALSE /\ state' = "ConnectedControl"
  /\ advertised' = SentInMapRequest /\ connected' = TRUE
  /\ UNCHANGED <<firstSession, everProductive, registers, result, transport, initial, stopping,
                 hint, published, sending, server, netmap, routes>>

-----------------------------------------------------------------------------
(* runControlSession: the poll loop *)

LoopHead ==
  /\ worker = "poll"
  /\ IF StopRequested THEN worker' = "close" /\ result' = "Stopped"
     ELSE worker' = "read" /\ UNCHANGED result
  /\ UNCHANGED <<firstSession, everProductive, authKey, registers, gotMessage, transport,
                 initial, stopping, adverts, state, netmap, routes>>

\* PeerDirectory::replace, or apply: removals, then the changed peers, then
\* presence patches, which skip a peer that is not there.
Patched(e, p, m) == IF p \in DOMAIN m.online THEN [e EXCEPT !.online = m.online[p]] ELSE e
NewDirectory(m) ==
  IF m.full THEN m.peers
  ELSE [p \in (DOMAIN directory \ m.removed) \cup DOMAIN m.peers |->
          Patched(IF p \in DOMAIN m.peers THEN m.peers[p] ELSE directory[p], p, m)]

\* A full list without a local address, or one that does not validate.
Rejected(m) == m.full /\ ~m.address

Receive(m) ==
  /\ worker = "read" /\ transport = "socket"
  /\ gotMessage' = TRUE
  /\ IF Rejected(m)
     THEN /\ worker' = "close" /\ UNCHANGED netmap
          /\ IF StopRequested THEN result' = "Stopped" /\ UNCHANGED state
             ELSE result' = "Fatal" /\ state' = "Error"
     ELSE /\ worker' = "default" /\ directory' = NewDirectory(m)
          /\ derpMap' = IF m.derp = None THEN derpMap ELSE m.derp
          /\ state' = IF m.address THEN "Ready" ELSE state
          /\ UNCHANGED result
  /\ UNCHANGED <<firstSession, everProductive, authKey, registers, transport, initial,
                 stopping, adverts, routes>>

\* poll fails: the stream ended, was shut down, or could not be decoded.
PollFails ==
  /\ worker = "read" /\ worker' = "close"
  /\ result' = IF StopRequested THEN "Stopped"
               ELSE IF gotMessage THEN "DroppedAfterData" ELSE "DroppedEarly"
  /\ state' = IF StopRequested THEN state
              ELSE IF gotMessage THEN "ConnectingControl" ELSE "Error"
  /\ UNCHANGED <<firstSession, everProductive, authKey, registers, gotMessage, transport,
                 initial, stopping, adverts, netmap, routes>>

PollInterrupted == transport \in {"shut", "lost"} /\ PollFails
PollBroken == transport = "socket" /\ PollFails

\* chooseDefaultHomeDerp: the region most online peers have, the lowest of
\* several, else the lowest region of the map.
Lowest(R) == CHOOSE r \in R : \A q \in R : r <= q
Votes(r) == Cardinality({p \in DOMAIN directory : directory[p].online /\ directory[p].home = r})
Leading == {r \in Regions : Votes(r) > 0 /\ \A q \in Regions : Votes(r) >= Votes(q)}
DefaultRegion ==
  CASE derpMap = {} -> 0
    [] derpMap # {} /\ Leading # {} -> Lowest(Leading)
    [] OTHER -> Lowest(derpMap)

\* The first lock of advertiseDefault: nothing to do once a region is told.
CheckDefault ==
  /\ worker = "default" /\ Unlocked
  /\ worker' = IF advertised # 0 \/ DefaultRegion = 0 THEN "poll" ELSE "advertise"
  /\ UNCHANGED <<session, transport, initial, stopping, adverts, state, netmap, routes>>

-----------------------------------------------------------------------------
(* Advertising: advertiseMutex_ *)

\* advertiseHomeDerp up to the write: the hint is kept and saved, and an
\* update is written only to a live session that was not told already.
Advertise(who, region) ==
  /\ Unlocked /\ hint' = region
  /\ sending' = IF connected /\ region # advertised THEN Update(who, region) ELSE NoUpdate

AdvertiseDefault ==
  /\ worker = "advertise"
  /\ IF DefaultRegion = 0 THEN worker' = "poll" /\ UNCHANGED <<hint, sending>>
     ELSE /\ Advertise("worker", DefaultRegion)
          /\ worker' = IF sending' = NoUpdate THEN "poll" ELSE "sending"
  /\ UNCHANGED <<session, transport, initial, stopping, advertised, connected, published,
                 server, state, netmap, routes>>

\* The thread that wrote the update goes on.
Resume(who) ==
  /\ worker' = IF who = "worker" THEN "poll" ELSE worker
  /\ router' = IF who = "route" THEN [router EXCEPT !.pc = "switch"] ELSE router

SentUpdate ==
  /\ ~Unlocked /\ transport = "socket"
  /\ server' = [region |-> sending.region, endpoints |-> published]
  /\ advertised' = IF sending.who = "path" THEN advertised ELSE sending.region
  /\ sending' = NoUpdate /\ Resume(sending.who)
  /\ UNCHANGED <<session, transport, initial, stopping, hint, connected, published,
                 state, netmap, activeRoute, overlay>>

\* A failed write: the connection is gone.
UpdateFails ==
  /\ ~Unlocked
  /\ transport' = IF transport = "socket" THEN "lost" ELSE transport
  /\ sending' = NoUpdate /\ Resume(sending.who)
  /\ UNCHANGED <<session, initial, stopping, hint, advertised, connected, published, server,
                 state, netmap, activeRoute, overlay>>

\* The session an endpoint update may be written to now.
MayTellEndpoints == connected /\ advertised > 0

\* publishEndpoints, on the path thread of an active route
Publish(list) ==
  /\ overlay # None /\ Unlocked /\ list # published
  /\ published' = list
  /\ sending' = IF MayTellEndpoints THEN Update("path", advertised) ELSE NoUpdate
  /\ UNCHANGED <<worker, session, transport, initial, stopping, hint, advertised, connected,
                 server, state, netmap, routes>>

-----------------------------------------------------------------------------
(* The end of a session *)

\* Mutant: the session is closed under an update that is being written.
MarkClosedUnlocked ==
  /\ worker = "close" /\ worker' = "closing" /\ connected' = FALSE
  /\ UNCHANGED <<session, transport, initial, stopping, hint, advertised, published, sending,
                 server, state, netmap, routes>>

\* controlConnected_ = false waits out an update in flight.
MarkClosed ==
  /\ worker = "close" /\ Unlocked /\ worker' = "closing" /\ connected' = FALSE
  /\ UNCHANGED <<session, transport, initial, stopping, hint, advertised, published, sending,
                 server, state, netmap, routes>>

CloseSession ==
  /\ worker = "closing" /\ ResetTransport /\ AfterSession(result)
  /\ UNCHANGED <<authKey, registers, gotMessage, result, initial, stopping, adverts, state,
                 netmap, routes>>

\* waitBeforeReconnect: the delay passes, or stop notifies.
WaitBeforeReconnect ==
  /\ worker = "backoff"
  /\ worker' = IF StopRequested THEN "ended" ELSE "start"
  /\ UNCHANGED <<session, transport, initial, stopping, adverts, state, netmap, routes>>

\* External: the network drops the control connection.
Drop ==
  /\ transport = "socket" /\ transport' = "lost"
  /\ UNCHANGED <<worker, session, initial, stopping, adverts, state, netmap, routes>>

-----------------------------------------------------------------------------
(* Route calls, under the provider mutex *)

Idle == router.pc = "idle" /\ ~StopRequested
HasHome(p) == p \in DOMAIN directory /\ directory[p].home > 0
PathThreadQuiet == sending.who # "path"

\* activateRoute: a route that is active already is kept.
Activate(p) ==
  /\ Idle /\ activeRoute # p
  /\ router' = [pc |-> IF HasHome(p) THEN "advertise" ELSE "switch", peer |-> p,
                home |-> IF HasHome(p) THEN directory[p].home ELSE 0]
  /\ UNCHANGED <<worker, session, transport, initial, stopping, adverts, state, netmap,
                 activeRoute, overlay>>

\* The home region is the one that was looked up before the lock.
AdvertiseRoute ==
  /\ router.pc = "advertise"
  /\ Advertise("route", router.home)
  /\ router' = [router EXCEPT !.pc = IF sending' = NoUpdate THEN "switch" ELSE "sending"]
  /\ UNCHANGED <<worker, session, transport, initial, stopping, advertised, connected,
                 published, server, state, netmap, activeRoute, overlay>>

\* overlay stop joins the path thread; start dials the relay and the peer.
SwitchOverlay(ok) ==
  /\ router.pc = "switch" /\ PathThreadQuiet
  /\ ok => HasHome(router.peer) /\ derpMap # {}
  /\ router' = NoCall
  /\ activeRoute' = (IF ok THEN router.peer ELSE None) /\ overlay' = activeRoute'
  /\ state' = IF ok THEN state ELSE "Error"
  /\ UNCHANGED <<worker, session, transport, initial, stopping, adverts, netmap>>

\* prepareRouteForStreaming: only its failure shows here.
PrepareFails(p) ==
  /\ Idle /\ activeRoute = p /\ state' = "Error"
  /\ UNCHANGED <<worker, session, transport, initial, stopping, adverts, netmap, routes>>

Deactivate(p) ==
  /\ Idle /\ activeRoute = p /\ PathThreadQuiet
  /\ activeRoute' = None /\ overlay' = None
  /\ UNCHANGED <<worker, session, transport, initial, stopping, adverts, state, netmap, router>>

-----------------------------------------------------------------------------
(* stop *)

RequestStop ==
  /\ stopping = "no" /\ router.pc = "idle" /\ stopping' = "requested"
  /\ UNCHANGED <<worker, session, transport, initial, adverts, state, netmap, routes>>

\* Mutant: stop only sets its flag.
InterruptNothing ==
  /\ stopping = "requested" /\ stopping' = "join"
  /\ UNCHANGED <<worker, session, transport, initial, adverts, state, netmap, routes>>

\* interrupt shuts the socket down, if there is one; it leaves no other trace.
Interrupt ==
  /\ stopping = "requested" /\ stopping' = "join"
  /\ transport' = IF transport = "socket" THEN "shut" ELSE transport
  /\ UNCHANGED <<worker, session, initial, adverts, state, netmap, routes>>

\* The worker is joined, then the overlay stopped, which joins the path thread.
FinishStop ==
  /\ stopping = "join" /\ worker = "ended" /\ PathThreadQuiet
  /\ stopping' = "stopped" /\ transport' = "none"
  /\ overlay' = None /\ activeRoute' = None /\ state' = "Stopped"
  /\ UNCHANGED <<worker, session, initial, adverts, netmap, router>>

Worker ==
  \/ BeginSession \/ OpenSocket \/ Handshake \/ Registered \/ SendMapRequest \/ ConnectFails
  \/ Connected \/ LoopHead \/ PollInterrupted \/ CheckDefault \/ AdvertiseDefault
  \/ MarkClosed \/ CloseSession \/ WaitBeforeReconnect
Writes == SentUpdate \/ UpdateFails
RouteStep == AdvertiseRoute \/ \E ok \in BOOLEAN : SwitchOverlay(ok)
RouteCall == \E p \in Peers : Activate(p) \/ PrepareFails(p) \/ Deactivate(p)
StopStep == Interrupt \/ FinishStop
Outside == \/ Drop \/ PollBroken \/ RequestStop
           \/ \E m \in Messages : Receive(m)
           \/ \E list \in Endpoints : Publish(list)

Next == Worker \/ Writes \/ RouteStep \/ RouteCall \/ StopStep \/ Outside

Spec == Init /\ [][Next]_vars

\* The threads run, a write ends and a connect is answered or refused; the
\* server owes no message and nobody has to call.
Fairness == WF_vars(Worker) /\ WF_vars(Writes) /\ WF_vars(RouteStep) /\ WF_vars(StopStep)
FairSpec == Spec /\ Fairness

-----------------------------------------------------------------------------

ConnectPlaces == {"dial", "handshake", "register", "map", "connected"}
LivePlaces == {"poll", "read", "default", "advertise", "sending", "close"}
QuietPlaces == {"start", "backoff", "ended"}

Updates == [who : {None, "worker", "route", "path"}, region : Home]
RouteCalls == [pc : {"idle", "advertise", "sending", "switch"}, peer : Peers \cup {None},
               home : Home]

WorkerTypes ==
  /\ worker \in ConnectPlaces \cup LivePlaces \cup QuietPlaces \cup {"closing"}
  /\ firstSession \in BOOLEAN /\ everProductive \in BOOLEAN /\ authKey \in BOOLEAN
  /\ gotMessage \in BOOLEAN /\ connected \in BOOLEAN /\ registers \in Nat
  /\ result \in {"Stopped", "Fatal", "ConnectFailed", "DroppedEarly", "DroppedAfterData"}
  /\ transport \in {"none", "fresh", "socket", "shut", "lost"}
  /\ stopping \in {"no", "requested", "join", "stopped"}
AdvertTypes ==
  /\ initial \in Home /\ hint \in Home /\ advertised \in Home
  /\ published \in Endpoints \cup {NoList}
  /\ sending \in Updates /\ server \in [region : Home, endpoints : Endpoints \cup {NoList}]
NetmapTypes == directory \in Directories /\ derpMap \in SUBSET Regions
RouteTypes ==
  /\ router \in RouteCalls
  /\ activeRoute \in Peers \cup {None} /\ overlay \in Peers \cup {None}

TypeOK == WorkerTypes /\ AdvertTypes /\ NetmapTypes /\ RouteTypes

\* A Hostinfo update is only ever written to the session it was meant for:
\* neither a drop, the close of the worker nor a stop takes the transport
\* away from under a route call or the path thread that is writing.
UpdateOnLiveSession == ~Unlocked => connected /\ transport # "none"

\* While the session is up and nobody is writing, the server holds exactly
\* the region the core believes it advertised: failed writes, reconnects and
\* endpoint updates included.
ServerAgrees ==
  (connected /\ Unlocked /\ transport = "socket") => server.region = advertised

\* The login key is one-off: no reconnect and no retry sends it again.
KeySentOnce == registers <= 1

\* stop returns, wherever it finds the worker: in a backoff, blocked in a
\* read of a silent server, between two sockets, or behind a writer.
StopReturns == (stopping = "requested") ~> (stopping = "stopped")
=============================================================================
