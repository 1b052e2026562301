------------------------- MODULE TailscaleCoreProofs -------------------------
(***************************************************************************)
(* Proofs about TailscaleCore, for any peers, regions and netmap messages: *)
(* an update is only written to a live session, the server holds the       *)
(* region the core believes it advertised, and a login key is sent once.   *)
(***************************************************************************)
EXTENDS TailscaleCore, TLAPS, NaturalsInduction, WellFoundedInduction

\* The worker owns the transport from its dial to its close, and the session
\* counts as connected exactly in its poll loop.
SessionOwned ==
  /\ transport = "none" <=> worker \in QuietPlaces
  /\ connected <=> worker \in LivePlaces

\* An update in flight belongs to one thread, which waits for it, on a session
\* that is connected; an endpoint update repeats the advertised region.
WriterKnown ==
  /\ ~Unlocked => connected
  /\ worker = "sending" <=> ~Unlocked /\ sending.who = "worker"
  /\ router.pc = "sending" <=> ~Unlocked /\ sending.who = "route"
  /\ (~Unlocked /\ sending.who = "path") => sending.region = advertised
  /\ ~Unlocked => sending.who \in {"worker", "route", "path"}
  /\ router.pc = "advertise" => router.home # 0

\* What the server was told, from the map request on.
ServerTold ==
  /\ worker = "connected" => server.region = initial
  /\ ServerAgrees

\* The key is only held by the first session, and not sent before its handshake.
KeySpent ==
  /\ registers <= 1
  /\ authKey => firstSession
  /\ authKey => worker \in ConnectPlaces \cup {"start", "ended"}
  /\ (authKey /\ worker \in {"start", "dial", "handshake"}) => registers = 0

CoreInv ==
  /\ WorkerTypes /\ AdvertTypes /\ NetmapTypes /\ RouteTypes
  /\ SessionOwned /\ WriterKnown /\ ServerTold /\ KeySpent

-----------------------------------------------------------------------------

\* A set of regions has a lowest one.
LEMMA LowestIsMember ==
  ASSUME NEW R \in SUBSET Nat, R # {}
  PROVE  Lowest(R) \in R
<1>1. \E r \in R : \A q \in R : r <= q
  <2>1. PICK r \in R : \A q \in R : <<q, r>> \notin OpToRel(<, Nat)
    BY NatLessThanWellFounded, WFMin
  <2>2. ASSUME NEW q \in R PROVE r <= q
    <3>1. <<q, r>> \in Nat \X Nat /\ q \in Nat /\ r \in Nat
      OBVIOUS
    <3>2. ~(<<q, r>>[1] < <<q, r>>[2])
      BY <2>1, <3>1, Zenon DEF OpToRel
    <3>3. QED BY <3>1, <3>2
  <2>3. QED BY <2>2
<1>2. QED BY <1>1 DEF Lowest

\* The default region is a region of the map or of a peer, or none.
LEMMA DefaultInHome == ASSUME NetmapTypes PROVE DefaultRegion \in Home
<1>1. Leading \in SUBSET Nat /\ Leading \subseteq Regions /\ derpMap \in SUBSET Nat
  BY CoreAssumption DEF Leading, NetmapTypes
<1>2. Leading # {} => Lowest(Leading) \in Regions
  BY <1>1, LowestIsMember
<1>3. derpMap # {} => Lowest(derpMap) \in Regions
  BY <1>1, LowestIsMember DEF NetmapTypes
<1>4. QED BY <1>2, <1>3 DEF DefaultRegion, Home

\* A netmap message leaves a directory of known peers.
LEMMA NewDirectoryTyped ==
  ASSUME NetmapTypes, NEW m \in Messages
  PROVE  NewDirectory(m) \in Directories
<1> USE CoreAssumption
<1>1. /\ m.peers \in Directories /\ directory \in Directories /\ m.removed \in SUBSET Peers
      /\ m.online \in UNION {[D -> BOOLEAN] : D \in SUBSET Peers} /\ m.full \in BOOLEAN
  BY DEF NetmapTypes, NetmapMessage
<1>2. ASSUME NEW d \in Directories
      PROVE  DOMAIN d \in SUBSET Peers /\ \A p \in DOMAIN d : d[p] \in Entry
  BY DEF Directories
<1>3. \A p \in DOMAIN m.online : m.online[p] \in BOOLEAN
  BY <1>1
<1>4. ASSUME NEW e \in Entry, NEW p PROVE Patched(e, p, m) \in Entry
  BY <1>3 DEF Patched, Entry
<1>5. CASE m.full
  BY <1>1, <1>5 DEF NewDirectory
<1>6. CASE ~m.full
  <2> DEFINE D == (DOMAIN directory \ m.removed) \cup DOMAIN m.peers
             e(p) == IF p \in DOMAIN m.peers THEN m.peers[p] ELSE directory[p]
  <2>1. D \in SUBSET Peers
    BY <1>1, <1>2
  <2>2. ASSUME NEW p \in D PROVE e(p) \in Entry
    BY <1>1, <1>2
  <2>3. [p \in D |-> Patched(e(p), p, m)] \in [D -> Entry]
    BY <2>2, <1>4
  <2>4. NewDirectory(m) = [p \in D |-> Patched(e(p), p, m)]
    BY <1>6 DEF NewDirectory
  <2>5. QED BY <2>1, <2>3, <2>4 DEF Directories
<1>7. QED BY <1>5, <1>6

\* The updates a thread may begin are none but its own.
LEMMA UpdateFacts ==
  ASSUME NEW who, NEW r
  PROVE  /\ Update(who, r).who = who /\ Update(who, r).region = r
         /\ r # 0 => Update(who, r) # NoUpdate
BY DEF Update, NoUpdate

\* A core that was just made holds no session, no route and no update.
LEMMA InitCoreInv == Init => CoreInv
<1> SUFFICES ASSUME Init PROVE CoreInv
  OBVIOUS
<1> USE DEF Init, Unlocked, NoCall
<1>1. WorkerTypes
  BY DEF WorkerTypes, ConnectPlaces, LivePlaces, QuietPlaces
<1>2. AdvertTypes
  BY DEF AdvertTypes, Home, NoUpdate, Update, Updates
<1>3. NetmapTypes
  <2>1. directory \in [{} -> Entry]
    OBVIOUS
  <2>2. QED BY <2>1 DEF NetmapTypes, Directories
<1>4. RouteTypes
  BY DEF RouteTypes, Home, RouteCalls
<1>5. SessionOwned
  BY DEF SessionOwned, WriterKnown, WorkerTypes, ConnectPlaces, LivePlaces, QuietPlaces
<1>6. WriterKnown
  BY DEF WriterKnown
<1>7. ServerTold
  BY DEF ServerTold, ServerAgrees
<1>8. KeySpent
  BY DEF KeySpent
<1>9. QED BY <1>1, <1>2, <1>3, <1>4, <1>5, <1>6, <1>7, <1>8 DEF CoreInv

\* The worker begins a session, or ends.
LEMMA BeginSessionStep ==
  ASSUME CoreInv, BeginSession
  PROVE  CoreInv'
<1> USE DEF CoreInv, session, netmap, adverts, routes, Unlocked
<1> USE DEF BeginSession
<1>1. WorkerTypes'
  BY DEF WorkerTypes, ConnectPlaces, LivePlaces, QuietPlaces
<1>2. AdvertTypes'
  BY DEF AdvertTypes
<1>3. NetmapTypes'
  BY DEF NetmapTypes
<1>4. RouteTypes'
  BY DEF RouteTypes
<1>5. SessionOwned'
  BY DEF SessionOwned, WriterKnown, WorkerTypes, ConnectPlaces, LivePlaces, QuietPlaces
<1>6. WriterKnown'
  BY DEF WriterKnown
<1>7. ServerTold'
  BY DEF ServerTold, ServerAgrees
<1>8. KeySpent'
  BY DEF KeySpent, WorkerTypes, ConnectPlaces, LivePlaces, QuietPlaces
<1>9. QED BY <1>1, <1>2, <1>3, <1>4, <1>5, <1>6, <1>7, <1>8

\* The steps of connect before the map request.
LEMMA ConnectStep ==
  ASSUME CoreInv, OpenSocket \/ Handshake \/ Registered
  PROVE  CoreInv'
<1> USE DEF CoreInv, session, netmap, adverts, routes, Unlocked
<1> USE DEF OpenSocket, Handshake, Registered
<1>1. registers \in Nat /\ registers' \in Nat
  BY DEF WorkerTypes
<1>2. WorkerTypes'
  BY <1>1 DEF WorkerTypes, ConnectPlaces, LivePlaces, QuietPlaces
<1>3. AdvertTypes'
  BY <1>1 DEF AdvertTypes
<1>4. NetmapTypes'
  BY <1>1 DEF NetmapTypes
<1>5. RouteTypes'
  BY <1>1 DEF RouteTypes
<1>6. SessionOwned'
  BY <1>1 DEF SessionOwned, WriterKnown, WorkerTypes, ConnectPlaces, LivePlaces, QuietPlaces
<1>7. WriterKnown'
  BY <1>1 DEF WriterKnown
<1>8. ServerTold'
  BY <1>1 DEF ServerTold, WriterKnown, SessionOwned, ServerAgrees, WorkerTypes,
     ConnectPlaces, LivePlaces, QuietPlaces
<1>9. KeySpent'
  BY <1>1 DEF KeySpent, WorkerTypes, ConnectPlaces, LivePlaces, QuietPlaces
<1>10. QED BY <1>2, <1>3, <1>4, <1>5, <1>6, <1>7, <1>8, <1>9

\* The map request tells the server the region of this session.
LEMMA MapRequestStep ==
  ASSUME CoreInv, SendMapRequest
  PROVE  CoreInv'
<1> USE DEF CoreInv, session, netmap, adverts, routes, Unlocked
<1> USE DEF SendMapRequest
<1>1. server'.region = initial /\ server' \in [region : Home, endpoints : Endpoints \cup {NoList}]
  BY DEF AdvertTypes
<1>2. WorkerTypes'
  BY <1>1 DEF WorkerTypes, ConnectPlaces, LivePlaces, QuietPlaces
<1>3. AdvertTypes'
  BY <1>1 DEF AdvertTypes
<1>4. NetmapTypes'
  BY <1>1 DEF NetmapTypes
<1>5. RouteTypes'
  BY <1>1 DEF RouteTypes
<1>6. SessionOwned'
  BY <1>1 DEF SessionOwned, WriterKnown, WorkerTypes, ConnectPlaces, LivePlaces, QuietPlaces
<1>7. WriterKnown'
  BY <1>1 DEF WriterKnown
<1>8. ServerTold'
  BY <1>1 DEF ServerTold, WriterKnown, SessionOwned, ServerAgrees, WorkerTypes,
     ConnectPlaces, LivePlaces, QuietPlaces
<1>9. KeySpent'
  BY <1>1 DEF KeySpent, WorkerTypes, ConnectPlaces, LivePlaces, QuietPlaces
<1>10. QED BY <1>2, <1>3, <1>4, <1>5, <1>6, <1>7, <1>8, <1>9

\* A connect fails; the key goes with the first failure.
LEMMA ConnectFailsStep ==
  ASSUME CoreInv, ConnectFails
  PROVE  CoreInv'
<1> USE DEF CoreInv, session, netmap, adverts, routes, Unlocked
<1> USE DEF ConnectFails, ResetTransport
<1>1. /\ worker' \in {"ended", "backoff"} /\ (worker' = "ended" \/ firstSession' = FALSE)
      /\ everProductive' \in BOOLEAN /\ firstSession' \in BOOLEAN
      /\ worker' = "ended" => firstSession' = firstSession
  BY DEF AfterSession, WorkerTypes
<1>2. authKey' \in BOOLEAN /\ (authKey' => authKey /\ ~firstSession)
  BY DEF WorkerTypes
<1>3. WorkerTypes'
  BY <1>1, <1>2 DEF WorkerTypes, ConnectPlaces, LivePlaces, QuietPlaces
<1>4. AdvertTypes'
  BY <1>1, <1>2 DEF AdvertTypes
<1>5. NetmapTypes'
  BY <1>1, <1>2 DEF NetmapTypes
<1>6. RouteTypes'
  BY <1>1, <1>2 DEF RouteTypes
<1>7. SessionOwned'
  BY <1>1, <1>2 DEF SessionOwned, WriterKnown, WorkerTypes, ConnectPlaces,
     LivePlaces, QuietPlaces
<1>8. WriterKnown'
  BY <1>1, <1>2 DEF WriterKnown
<1>9. ServerTold'
  BY <1>1, <1>2 DEF ServerTold, ServerAgrees
<1>10. KeySpent'
  BY <1>1, <1>2 DEF KeySpent
<1>11. QED BY <1>3, <1>4, <1>5, <1>6, <1>7, <1>8, <1>9, <1>10

\* The session is up with what the map request said.
LEMMA ConnectedStep ==
  ASSUME CoreInv, Connected
  PROVE  CoreInv'
<1> USE DEF CoreInv, session, netmap, adverts, routes, Unlocked
<1> USE DEF Connected, KeyAfterConnect, SentInMapRequest
<1>1. WorkerTypes'
  BY DEF WorkerTypes, ConnectPlaces, LivePlaces, QuietPlaces
<1>2. AdvertTypes'
  BY DEF AdvertTypes
<1>3. NetmapTypes'
  BY DEF NetmapTypes
<1>4. RouteTypes'
  BY DEF RouteTypes
<1>5. SessionOwned'
  BY DEF SessionOwned, WriterKnown, WorkerTypes, ConnectPlaces, LivePlaces, QuietPlaces
<1>6. WriterKnown'
  BY DEF WriterKnown
<1>7. ServerTold'
  BY DEF ServerTold, ServerAgrees
<1>8. KeySpent'
  BY DEF KeySpent
<1>9. QED BY <1>1, <1>2, <1>3, <1>4, <1>5, <1>6, <1>7, <1>8

\* The poll loop goes round, or finds a stop.
LEMMA LoopStep ==
  ASSUME CoreInv, LoopHead \/ PollInterrupted \/ PollBroken
  PROVE  CoreInv'
<1> USE DEF CoreInv, session, netmap, adverts, routes, Unlocked
<1> USE DEF LoopHead, PollInterrupted, PollBroken, PollFails
<1>1. WorkerTypes'
  BY DEF WorkerTypes, ConnectPlaces, LivePlaces, QuietPlaces
<1>2. AdvertTypes'
  BY DEF AdvertTypes
<1>3. NetmapTypes'
  BY DEF NetmapTypes
<1>4. RouteTypes'
  BY DEF RouteTypes
<1>5. SessionOwned'
  BY DEF SessionOwned, WriterKnown, WorkerTypes, ConnectPlaces, LivePlaces, QuietPlaces
<1>6. WriterKnown'
  BY DEF WriterKnown
<1>7. ServerTold'
  BY DEF ServerTold, ServerAgrees
<1>8. KeySpent'
  BY DEF KeySpent, WorkerTypes, ConnectPlaces, LivePlaces, QuietPlaces
<1>9. QED BY <1>1, <1>2, <1>3, <1>4, <1>5, <1>6, <1>7, <1>8

\* A message of the server changes the netmap only.
LEMMA ReceiveStep ==
  ASSUME CoreInv, NEW m \in Messages, Receive(m)
  PROVE  CoreInv'
<1> USE DEF CoreInv, session, netmap, adverts, routes, Unlocked
<1> USE DEF Receive
<1>1. directory' \in Directories /\ derpMap' \in SUBSET Regions
  BY NewDirectoryTyped, CoreAssumption DEF NetmapTypes, NetmapMessage
<1>2. WorkerTypes'
  BY <1>1 DEF WorkerTypes, ConnectPlaces, LivePlaces, QuietPlaces
<1>3. AdvertTypes'
  BY <1>1 DEF AdvertTypes
<1>4. NetmapTypes'
  BY <1>1 DEF NetmapTypes
<1>5. RouteTypes'
  BY <1>1 DEF RouteTypes
<1>6. SessionOwned'
  BY <1>1 DEF SessionOwned, WriterKnown, WorkerTypes, ConnectPlaces, LivePlaces, QuietPlaces
<1>7. WriterKnown'
  BY <1>1 DEF WriterKnown
<1>8. ServerTold'
  BY <1>1 DEF ServerTold, ServerAgrees
<1>9. KeySpent'
  BY <1>1 DEF KeySpent, WorkerTypes, ConnectPlaces, LivePlaces, QuietPlaces
<1>10. QED BY <1>2, <1>3, <1>4, <1>5, <1>6, <1>7, <1>8, <1>9

\* The check for a default changes the place of the worker only.
LEMMA CheckDefaultStep ==
  ASSUME CoreInv, CheckDefault
  PROVE  CoreInv'
<1> USE DEF CoreInv, session, netmap, adverts, routes, Unlocked
<1> USE DEF CheckDefault
<1>1. WorkerTypes'
  BY DEF WorkerTypes, ConnectPlaces, LivePlaces, QuietPlaces
<1>2. AdvertTypes'
  BY DEF AdvertTypes
<1>3. NetmapTypes'
  BY DEF NetmapTypes
<1>4. RouteTypes'
  BY DEF RouteTypes
<1>5. SessionOwned'
  BY DEF SessionOwned, WriterKnown, WorkerTypes, ConnectPlaces, LivePlaces, QuietPlaces
<1>6. WriterKnown'
  BY DEF WriterKnown
<1>7. ServerTold'
  BY DEF ServerTold, ServerAgrees
<1>8. KeySpent'
  BY DEF KeySpent, WorkerTypes, ConnectPlaces, LivePlaces, QuietPlaces
<1>9. QED BY <1>1, <1>2, <1>3, <1>4, <1>5, <1>6, <1>7, <1>8

\* The worker advertises the default region.
LEMMA AdvertiseDefaultStep ==
  ASSUME CoreInv, AdvertiseDefault
  PROVE  CoreInv'
<1> USE DEF CoreInv, session, netmap, adverts, routes, Unlocked
<1> USE DEF AdvertiseDefault
<1>1. DefaultRegion \in Home
  BY DefaultInHome
<1>2. /\ hint' \in Home /\ sending' \in Updates
      /\ \/ sending' = sending /\ worker' = "poll"
         \/ sending' = NoUpdate /\ worker' = "poll" /\ sending = NoUpdate
         \/ /\ sending' # NoUpdate /\ sending = NoUpdate /\ sending'.who = "worker"
            /\ worker' = "sending"
  BY <1>1, UpdateFacts DEF Advertise, AdvertTypes, WorkerTypes, Update, NoUpdate,
     Home, Updates, RouteCalls
<1>3. WorkerTypes'
  BY <1>1, <1>2 DEF WorkerTypes, ConnectPlaces, LivePlaces, QuietPlaces
<1>4. AdvertTypes'
  BY <1>1, <1>2 DEF AdvertTypes
<1>5. NetmapTypes'
  BY <1>1, <1>2 DEF NetmapTypes
<1>6. RouteTypes'
  BY <1>1, <1>2 DEF RouteTypes
<1>7. SessionOwned'
  BY <1>1, <1>2 DEF SessionOwned, WriterKnown, WorkerTypes, ConnectPlaces,
     LivePlaces, QuietPlaces
<1>8. WriterKnown'
  BY <1>1, <1>2 DEF WriterKnown, SessionOwned, WorkerTypes, RouteTypes,
     ConnectPlaces, LivePlaces, QuietPlaces
<1>9. ServerTold'
  BY <1>1, <1>2 DEF ServerTold, ServerAgrees
<1>10. KeySpent'
  BY <1>1, <1>2 DEF KeySpent, WorkerTypes, ConnectPlaces, LivePlaces, QuietPlaces
<1>11. QED BY <1>3, <1>4, <1>5, <1>6, <1>7, <1>8, <1>9, <1>10

\* An update arrives: the server knows what the core believes.
LEMMA SentUpdateStep ==
  ASSUME CoreInv, SentUpdate
  PROVE  CoreInv'
<1> USE DEF CoreInv, session, netmap, adverts, routes, Unlocked
<1> USE DEF SentUpdate
<1>1. /\ sending.who \in {"worker", "route", "path"} /\ sending.region \in Home /\ connected
      /\ worker' = (IF sending.who = "worker" THEN "poll" ELSE worker)
      /\ router' \in RouteCalls
      /\ router'.pc = (IF sending.who = "route" THEN "switch" ELSE router.pc)
      /\ router'.home = router.home
  BY DEF Resume, WriterKnown, AdvertTypes, RouteTypes, Updates, RouteCalls
<1>2. NoUpdate \in Updates
  BY DEF NoUpdate, Update, Home, Updates
<1>3. /\ server' \in [region : Home, endpoints : Endpoints \cup {NoList}] /\ advertised' \in Home
      /\ server'.region = advertised'
  BY <1>1 DEF AdvertTypes, WriterKnown, Updates
<1>4. WorkerTypes'
  BY <1>1, <1>2, <1>3 DEF WorkerTypes, ConnectPlaces, LivePlaces, QuietPlaces
<1>5. AdvertTypes'
  BY <1>1, <1>2, <1>3 DEF AdvertTypes
<1>6. NetmapTypes'
  BY <1>1, <1>2, <1>3 DEF NetmapTypes
<1>7. RouteTypes'
  BY <1>1, <1>2, <1>3 DEF RouteTypes
<1>8. SessionOwned'
  BY <1>1, <1>2, <1>3 DEF SessionOwned, WriterKnown, WorkerTypes, ConnectPlaces,
     LivePlaces, QuietPlaces
<1>9. WriterKnown'
  BY <1>1, <1>2, <1>3 DEF WriterKnown
<1>10. ServerTold'
  BY <1>1, <1>2, <1>3 DEF ServerTold, WriterKnown, SessionOwned, ServerAgrees,
     WorkerTypes, ConnectPlaces, LivePlaces, QuietPlaces
<1>11. KeySpent'
  BY <1>1, <1>2, <1>3 DEF WorkerTypes, AdvertTypes, NetmapTypes, RouteTypes,
     SessionOwned, WriterKnown, ServerTold, KeySpent, ConnectPlaces, LivePlaces,
     QuietPlaces
<1>12. QED BY <1>4, <1>5, <1>6, <1>7, <1>8, <1>9, <1>10, <1>11

\* An update fails: its connection is gone.
LEMMA UpdateFailsStep ==
  ASSUME CoreInv, UpdateFails
  PROVE  CoreInv'
<1> USE DEF CoreInv, session, netmap, adverts, routes, Unlocked
<1> USE DEF UpdateFails
<1>1. /\ sending.who \in {"worker", "route", "path"} /\ sending.region \in Home /\ connected
      /\ worker' = (IF sending.who = "worker" THEN "poll" ELSE worker)
      /\ router' \in RouteCalls
      /\ router'.pc = (IF sending.who = "route" THEN "switch" ELSE router.pc)
      /\ router'.home = router.home
  BY DEF Resume, WriterKnown, AdvertTypes, RouteTypes, Updates, RouteCalls
<1>2. NoUpdate \in Updates
  BY DEF NoUpdate, Update, Home, Updates
<1>3. WorkerTypes'
  BY <1>1, <1>2 DEF WorkerTypes, ConnectPlaces, LivePlaces, QuietPlaces
<1>4. AdvertTypes'
  BY <1>1, <1>2 DEF AdvertTypes
<1>5. NetmapTypes'
  BY <1>1, <1>2 DEF NetmapTypes
<1>6. RouteTypes'
  BY <1>1, <1>2 DEF RouteTypes
<1>7. SessionOwned'
  BY <1>1, <1>2 DEF SessionOwned, WriterKnown, WorkerTypes, ConnectPlaces,
     LivePlaces, QuietPlaces
<1>8. WriterKnown'
  BY <1>1, <1>2 DEF WriterKnown
<1>9. ServerTold'
  BY <1>1, <1>2 DEF ServerTold, ServerAgrees
<1>10. KeySpent'
  BY <1>1, <1>2 DEF WorkerTypes, AdvertTypes, NetmapTypes, RouteTypes, SessionOwned,
     WriterKnown, ServerTold, KeySpent, ConnectPlaces, LivePlaces, QuietPlaces
<1>11. QED BY <1>3, <1>4, <1>5, <1>6, <1>7, <1>8, <1>9, <1>10

\* The path thread publishes its endpoints.
LEMMA PublishStep ==
  ASSUME CoreInv, NEW list \in Endpoints, Publish(list)
  PROVE  CoreInv'
<1> USE DEF CoreInv, session, netmap, adverts, routes, Unlocked
<1> USE DEF Publish
<1>1. /\ sending' \in Updates
      /\ \/ sending' = NoUpdate
         \/ /\ sending' # NoUpdate /\ sending'.who = "path" /\ connected
            /\ sending'.region = advertised
  BY UpdateFacts, CoreAssumption DEF MayTellEndpoints, AdvertTypes, Update, NoUpdate,
     Home, Updates, RouteCalls
<1>2. WorkerTypes'
  BY <1>1 DEF WorkerTypes
<1>3. AdvertTypes'
  BY <1>1 DEF AdvertTypes
<1>4. NetmapTypes'
  BY <1>1 DEF NetmapTypes
<1>5. RouteTypes'
  BY <1>1 DEF RouteTypes
<1>6. SessionOwned'
  BY <1>1 DEF SessionOwned
<1>7. WriterKnown'
  BY <1>1 DEF WriterKnown
<1>8. ServerTold'
  BY <1>1 DEF ServerTold, ServerAgrees
<1>9. KeySpent'
  BY <1>1 DEF KeySpent
<1>10. QED BY <1>2, <1>3, <1>4, <1>5, <1>6, <1>7, <1>8, <1>9

\* The session is marked closed, and no update is in flight.
LEMMA CloseStep ==
  ASSUME CoreInv, MarkClosed
  PROVE  CoreInv'
<1> USE DEF CoreInv, session, netmap, adverts, routes, Unlocked
<1> USE DEF MarkClosed
<1>1. WorkerTypes'
  BY DEF WorkerTypes
<1>2. AdvertTypes'
  BY DEF AdvertTypes
<1>3. NetmapTypes'
  BY DEF NetmapTypes
<1>4. RouteTypes'
  BY DEF RouteTypes
<1>5. SessionOwned'
  BY DEF SessionOwned, WriterKnown, WorkerTypes, ConnectPlaces, LivePlaces, QuietPlaces
<1>6. WriterKnown'
  BY DEF WriterKnown
<1>7. ServerTold'
  BY DEF ServerTold, ServerAgrees
<1>8. KeySpent'
  BY DEF KeySpent, WorkerTypes, ConnectPlaces, LivePlaces, QuietPlaces
<1>9. QED BY <1>1, <1>2, <1>3, <1>4, <1>5, <1>6, <1>7, <1>8

\* The session is closed.
LEMMA CloseSessionStep ==
  ASSUME CoreInv, CloseSession
  PROVE  CoreInv'
<1> USE DEF CoreInv, session, netmap, adverts, routes, Unlocked
<1> USE DEF CloseSession, ResetTransport
<1>1. /\ worker' \in {"ended", "backoff"} /\ (worker' = "ended" \/ firstSession' = FALSE)
      /\ everProductive' \in BOOLEAN /\ firstSession' \in BOOLEAN
      /\ worker' = "ended" => firstSession' = firstSession
  BY DEF AfterSession, WorkerTypes
<1>2. WorkerTypes'
  BY <1>1 DEF WorkerTypes, ConnectPlaces, LivePlaces, QuietPlaces
<1>3. AdvertTypes'
  BY <1>1 DEF AdvertTypes
<1>4. NetmapTypes'
  BY <1>1 DEF NetmapTypes
<1>5. RouteTypes'
  BY <1>1 DEF RouteTypes
<1>6. SessionOwned'
  BY <1>1 DEF SessionOwned, WriterKnown, WorkerTypes, ConnectPlaces, LivePlaces, QuietPlaces
<1>7. WriterKnown'
  BY <1>1 DEF WriterKnown
<1>8. ServerTold'
  BY <1>1 DEF ServerTold, ServerAgrees
<1>9. KeySpent'
  BY <1>1 DEF KeySpent, WorkerTypes, ConnectPlaces, LivePlaces, QuietPlaces
<1>10. QED BY <1>2, <1>3, <1>4, <1>5, <1>6, <1>7, <1>8, <1>9

\* The worker waits, or the network drops the connection.
LEMMA WaitStep ==
  ASSUME CoreInv, WaitBeforeReconnect \/ Drop
  PROVE  CoreInv'
<1> USE DEF CoreInv, session, netmap, adverts, routes, Unlocked
<1> USE DEF WaitBeforeReconnect, Drop
<1>1. WorkerTypes'
  BY DEF WorkerTypes, ConnectPlaces, LivePlaces, QuietPlaces
<1>2. AdvertTypes'
  BY DEF AdvertTypes
<1>3. NetmapTypes'
  BY DEF NetmapTypes
<1>4. RouteTypes'
  BY DEF RouteTypes
<1>5. SessionOwned'
  BY DEF SessionOwned, WriterKnown, WorkerTypes, ConnectPlaces, LivePlaces, QuietPlaces
<1>6. WriterKnown'
  BY DEF WriterKnown
<1>7. ServerTold'
  BY DEF ServerTold, ServerAgrees
<1>8. KeySpent'
  BY DEF KeySpent, WorkerTypes, ConnectPlaces, LivePlaces, QuietPlaces
<1>9. QED BY <1>1, <1>2, <1>3, <1>4, <1>5, <1>6, <1>7, <1>8

\* A route call begins.
LEMMA ActivateStep ==
  ASSUME CoreInv, NEW p \in Peers, Activate(p)
  PROVE  CoreInv'
<1> USE DEF CoreInv, session, netmap, adverts, routes, Unlocked
<1> USE DEF Activate
<1>1. /\ router.pc = "idle" /\ router' \in RouteCalls
      /\ router'.pc \in {"advertise", "switch"} /\ (router'.pc = "advertise" => router'.home # 0)
  BY CoreAssumption DEF Idle, HasHome, RouteTypes, NetmapTypes, Directories, Entry,
     Home, RouteCalls
<1>2. WorkerTypes'
  BY <1>1 DEF WorkerTypes
<1>3. AdvertTypes'
  BY <1>1 DEF AdvertTypes
<1>4. NetmapTypes'
  BY <1>1 DEF NetmapTypes
<1>5. RouteTypes'
  BY <1>1 DEF RouteTypes
<1>6. SessionOwned'
  BY <1>1 DEF SessionOwned
<1>7. WriterKnown'
  BY <1>1 DEF WriterKnown
<1>8. ServerTold'
  BY <1>1 DEF ServerTold, ServerAgrees
<1>9. KeySpent'
  BY <1>1 DEF KeySpent
<1>10. QED BY <1>2, <1>3, <1>4, <1>5, <1>6, <1>7, <1>8, <1>9

\* A route call advertises the home region of its peer.
LEMMA AdvertiseRouteStep ==
  ASSUME CoreInv, AdvertiseRoute
  PROVE  CoreInv'
<1> USE DEF CoreInv, session, netmap, adverts, routes, Unlocked
<1> USE DEF AdvertiseRoute
<1>1. /\ hint' \in Home /\ sending' \in Updates
      /\ sending = NoUpdate /\ router.pc = "advertise" /\ router'.home = router.home
      /\ router' \in RouteCalls
      /\ \/ sending' = NoUpdate /\ router'.pc = "switch"
         \/ /\ sending' # NoUpdate /\ sending'.who = "route" /\ connected
            /\ router'.pc = "sending"
  BY UpdateFacts DEF Advertise, AdvertTypes, RouteTypes, WriterKnown, Update,
     NoUpdate, Home, Updates, RouteCalls
<1>2. WorkerTypes'
  BY <1>1 DEF WorkerTypes
<1>3. AdvertTypes'
  BY <1>1 DEF AdvertTypes
<1>4. NetmapTypes'
  BY <1>1 DEF NetmapTypes
<1>5. RouteTypes'
  BY <1>1 DEF RouteTypes
<1>6. SessionOwned'
  BY <1>1 DEF SessionOwned
<1>7. WriterKnown'
  BY <1>1 DEF WriterKnown
<1>8. ServerTold'
  BY <1>1 DEF ServerTold, ServerAgrees
<1>9. KeySpent'
  BY <1>1 DEF KeySpent
<1>10. QED BY <1>2, <1>3, <1>4, <1>5, <1>6, <1>7, <1>8, <1>9

\* A route call ends with the overlay switched.
LEMMA SwitchStep ==
  ASSUME CoreInv, NEW ok \in BOOLEAN, SwitchOverlay(ok)
  PROVE  CoreInv'
<1> USE DEF CoreInv, session, netmap, adverts, routes, Unlocked
<1> USE DEF SwitchOverlay, NoCall
<1>1. WorkerTypes'
  BY DEF WorkerTypes
<1>2. AdvertTypes'
  BY DEF AdvertTypes
<1>3. NetmapTypes'
  BY DEF NetmapTypes
<1>4. RouteTypes'
  BY DEF RouteTypes, Home, RouteCalls
<1>5. SessionOwned'
  BY DEF SessionOwned
<1>6. WriterKnown'
  BY DEF WriterKnown
<1>7. ServerTold'
  BY DEF ServerTold, ServerAgrees
<1>8. KeySpent'
  BY DEF KeySpent
<1>9. QED BY <1>1, <1>2, <1>3, <1>4, <1>5, <1>6, <1>7, <1>8

\* A failed preparation and a release leave the session alone.
LEMMA RouteCallStep ==
  ASSUME CoreInv, NEW p \in Peers, PrepareFails(p) \/ Deactivate(p)
  PROVE  CoreInv'
<1> USE DEF CoreInv, session, netmap, adverts, routes, Unlocked
<1> USE DEF PrepareFails, Deactivate
<1>1. WorkerTypes'
  BY DEF WorkerTypes
<1>2. AdvertTypes'
  BY DEF AdvertTypes
<1>3. NetmapTypes'
  BY DEF NetmapTypes
<1>4. RouteTypes'
  BY DEF RouteTypes
<1>5. SessionOwned'
  BY DEF SessionOwned
<1>6. WriterKnown'
  BY DEF WriterKnown
<1>7. ServerTold'
  BY DEF ServerTold, ServerAgrees
<1>8. KeySpent'
  BY DEF KeySpent
<1>9. QED BY <1>1, <1>2, <1>3, <1>4, <1>5, <1>6, <1>7, <1>8

\* stop asks, interrupts, and joins.
LEMMA StopStepKeeps ==
  ASSUME CoreInv, RequestStop \/ Interrupt \/ FinishStop
  PROVE  CoreInv'
<1> USE DEF CoreInv, session, netmap, adverts, routes, Unlocked
<1> USE DEF RequestStop, Interrupt, FinishStop
<1>1. WorkerTypes'
  BY DEF WorkerTypes
<1>2. AdvertTypes'
  BY DEF AdvertTypes
<1>3. NetmapTypes'
  BY DEF NetmapTypes
<1>4. RouteTypes'
  BY DEF RouteTypes
<1>5. SessionOwned'
  BY DEF SessionOwned, WriterKnown, WorkerTypes, ConnectPlaces, LivePlaces, QuietPlaces
<1>6. WriterKnown'
  BY DEF WriterKnown
<1>7. ServerTold'
  BY DEF ServerTold, ServerAgrees
<1>8. KeySpent'
  BY DEF KeySpent
<1>9. QED BY <1>1, <1>2, <1>3, <1>4, <1>5, <1>6, <1>7, <1>8

\* Every step keeps the invariant.
LEMMA CoreInvStep == CoreInv /\ [Next]_vars => CoreInv'
<1> SUFFICES ASSUME CoreInv, [Next]_vars PROVE CoreInv'
  OBVIOUS
<1>1. CASE Worker
  BY <1>1, BeginSessionStep, ConnectStep, MapRequestStep, ConnectFailsStep, ConnectedStep,
     LoopStep, CheckDefaultStep, AdvertiseDefaultStep, CloseStep, CloseSessionStep, WaitStep
     DEF Worker
<1>2. CASE Writes
  BY <1>2, SentUpdateStep, UpdateFailsStep DEF Writes
<1>3. CASE RouteStep
  BY <1>3, AdvertiseRouteStep, SwitchStep DEF RouteStep
<1>4. CASE RouteCall
  BY <1>4, ActivateStep, RouteCallStep DEF RouteCall
<1>5. CASE StopStep
  BY <1>5, StopStepKeeps DEF StopStep
<1>6. CASE Outside
  BY <1>6, WaitStep, LoopStep, StopStepKeeps, ReceiveStep, PublishStep DEF Outside
<1>7. CASE UNCHANGED vars
  BY <1>7 DEF vars, session, netmap, adverts, routes, CoreInv, WorkerTypes, AdvertTypes,
     NetmapTypes, RouteTypes, SessionOwned, WriterKnown, ServerTold, ServerAgrees, KeySpent,
     Unlocked
<1>8. QED BY <1>1, <1>2, <1>3, <1>4, <1>5, <1>6, <1>7 DEF Next

\* The inductive invariant holds.
THEOREM CoreInvariant == Spec => []CoreInv
BY InitCoreInv, CoreInvStep, PTL DEF Spec

\* The variables keep their types; in particular every region that is
\* advertised, hinted or told to the server is one of the netmap's regions.
THEOREM CoreTypes == Spec => []TypeOK
<1>1. CoreInv => TypeOK
  BY DEF CoreInv, TypeOK
<1>2. QED BY <1>1, CoreInvariant, PTL

\* A Hostinfo update is only written to the live session it was meant for.
THEOREM UpdatesReachLiveSession == Spec => []UpdateOnLiveSession
<1>1. CoreInv => UpdateOnLiveSession
  BY DEF CoreInv, SessionOwned, WriterKnown, UpdateOnLiveSession, LivePlaces, QuietPlaces
<1>2. QED BY <1>1, CoreInvariant, PTL

\* With no update in flight the server holds the region the core believes it
\* advertised.
THEOREM ServerHoldsRegion == Spec => []ServerAgrees
<1>1. CoreInv => ServerAgrees
  BY DEF CoreInv, ServerTold
<1>2. QED BY <1>1, CoreInvariant, PTL

\* The one-off login key is sent at most once.
THEOREM KeyIsSentOnce == Spec => []KeySentOnce
<1>1. CoreInv => KeySentOnce
  BY DEF CoreInv, KeySpent, KeySentOnce
<1>2. QED BY <1>1, CoreInvariant, PTL
==============================================================================
