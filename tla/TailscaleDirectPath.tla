------------------------ MODULE TailscaleDirectPath ------------------------
(* DirectPath and the code of RealWgxBackend that drives it: which UDP     *)
(* endpoint WireGuard packets go to instead of the DERP relay, and what    *)
(* PathManager reports of it.  The UDP thread pings the candidates on a    *)
(* heartbeat; the DERP reader and the UDP thread deliver disco messages;   *)
(* the manager starts and stops routes.  Time is a tick between steps: the *)
(* state keeps ages, each capped where the code no longer tells it apart.  *)
(* Packets in the network may be lost, late, or answered from elsewhere.   *)

EXTENDS Integers, Sequences, FiniteSets, SequencesExt

CONSTANTS Nodes,             \* the peers of the netmap
          Endpoints,
          NetmapLists,       \* endpoint lists the netmap may hold for a peer
          TxIds,             \* transaction ids of pings
          Rtts,              \* round trip times in whole milliseconds
          Heartbeat, PingTimeout, Trust,   \* in ticks
          MaxCandidates, MaxFlying,
          Absent             \* no peer, no endpoint

ASSUME DirectPathAssumption ==
  /\ NetmapLists \subseteq Seq(Endpoints) /\ Absent \notin Nodes \cup Endpoints
  /\ Rtts \subseteq Nat /\ MaxCandidates \in Nat \ {0} /\ MaxFlying \in Nat
  /\ {Heartbeat, PingTimeout, Trust} \subseteq Nat
  /\ 0 < Heartbeat /\ Heartbeat < PingTimeout /\ PingTimeout < Trust

VARIABLES
  config,        \* directConfig_: the peer of the route, or Absent
  candidates,    \* sequence of [endpoint, idle]: ticks since the last ping
  pending,       \* pings without an answer: a set of [tx, endpoint, age]
  best,          \* best_, bestRttMs_ and the age of bestPong_
  directActive,
  reportedBest,  \* the endpoint last reported to PathManager
  notice,        \* a pathChanged call on its way, outside the lock
  path,          \* PathManager's entry of the peer: its direct endpoint, or Absent
  flying,        \* external: pings the peer has answered, pongs under way
  answered       \* endpoint -> age of the last answer that proves it

pathVars == <<config, candidates, pending, best, directActive, reportedBest, notice, path,
          flying, answered>>

Cap(n, max) == IF n > max THEN max ELSE n
Older(n, max) == Cap(n + 1, max)
NoBest == [endpoint |-> Absent, age |-> Trust + 1, rtt |-> 0]
Forgotten == [e \in Endpoints |-> Trust + 1]

PathInit ==
  /\ config = Absent /\ candidates = <<>> /\ pending = {} /\ best = NoBest
  /\ directActive = FALSE /\ reportedBest = Absent /\ notice = FALSE /\ path = Absent
  /\ flying = {} /\ answered = Forgotten

Running == config # Absent
Quiet == ~notice

\* best(now): the trusted endpoint, or Absent once its last pong is too old
Best == IF best.age > Trust THEN Absent ELSE best.endpoint

\* addCandidate: a full list loses its oldest entry; a new one is due at once.
AddCandidate(list, e) ==
  IF \E i \in DOMAIN list : list[i].endpoint = e THEN list
  ELSE (IF Len(list) >= MaxCandidates THEN Tail(list) ELSE list)
       \o <<[endpoint |-> e, idle |-> Heartbeat]>>

Learn(list, es) == FoldLeft(AddCandidate, list, es)

-----------------------------------------------------------------------------
(* Routes *)

\* startDirectPath, after stopDirectPath, with the endpoints of the netmap
Start(p, known) ==
  /\ ~Running /\ config' = p
  /\ candidates' = Learn(<<>>, known)
  /\ pending' = {} /\ best' = NoBest /\ answered' = Forgotten
  /\ directActive' = FALSE /\ reportedBest' = Absent
  /\ UNCHANGED <<notice, path, flying>>

\* Mutant: the peer of the stopped route keeps its last report.
ReportNothing == UNCHANGED path

\* pathChanged with no endpoint: directLost
ReportLost == path' = Absent

\* stopDirectPath joins the UDP thread, so no notice of it is under way.
Stop ==
  /\ Running /\ Quiet /\ config' = Absent
  /\ candidates' = <<>> /\ pending' = {} /\ best' = NoBest
  /\ directActive' = FALSE /\ reportedBest' = Absent /\ answered' = Forgotten
  /\ IF reportedBest # Absent THEN ReportLost ELSE UNCHANGED path
  /\ UNCHANGED <<notice, flying>>

-----------------------------------------------------------------------------
(* The UDP thread: directHousekeeping *)

Kept == {q \in pending : q.age <= PingTimeout}
Fresh == TxIds \ {q.tx : q \in Kept \cup flying}
Due == {i \in DOMAIN candidates : candidates[i].idle >= Heartbeat}

\* The oldest pings make room when there are too many.
Remember(all) ==
  IF Cardinality(all) <= 4 * MaxCandidates THEN pending' = all
  ELSE \E newest \in SUBSET all :
         /\ Cardinality(newest) = 4 * MaxCandidates
         /\ \A q \in newest, r \in all \ newest : q.age <= r.age
         /\ pending' = newest

\* due and notePingSent: expired pings are forgotten, each due candidate gets
\* a ping with a transaction id of its own.
Ping(tx) ==
  /\ candidates' = [i \in DOMAIN candidates |->
                      IF i \in Due THEN [candidates[i] EXCEPT !.idle = 0] ELSE candidates[i]]
  /\ Remember(Kept \cup {[tx |-> tx[i], endpoint |-> candidates[i].endpoint, age |-> 0] :
                         i \in Due})

\* The best path of now decides where packets go; a change is reported once
\* the lock is released.
Housekeeping ==
  /\ Running /\ Quiet
  /\ \E tx \in [Due -> Fresh] :
        /\ \A i, j \in Due : tx[i] = tx[j] => i = j
        /\ Ping(tx)
  /\ directActive' = (Best # Absent)
  /\ reportedBest' = Best /\ notice' = (Best # reportedBest)
  /\ UNCHANGED <<config, best, path, flying, answered>>

\* TailscaleCore's observer: directPong or directLost
Notify ==
  /\ notice /\ notice' = FALSE
  /\ IF reportedBest = Absent THEN ReportLost ELSE path' = reportedBest
  /\ UNCHANGED <<config, candidates, pending, best, directActive, reportedBest, flying,
                 answered>>

\* PathManager::poll, from the control loop: a report grows stale by itself.
\* Its window is longer than any other here and may end at any moment.
PollPaths ==
  /\ path # Absent /\ path' = Absent
  /\ UNCHANGED <<config, candidates, pending, best, directActive, reportedBest, notice,
                 flying, answered>>

-----------------------------------------------------------------------------
(* Disco messages *)

\* External: the peer answers a ping, possibly from another address of its.
Answer(q, from) ==
  /\ flying' = flying \cup {[tx |-> q.tx, to |-> q.endpoint, from |-> from, peer |-> config]}
  /\ UNCHANGED <<config, candidates, pending, best, directActive, reportedBest, notice, path,
                 answered>>

Outstanding(m) == {q \in pending : q.tx = m.tx}

\* Mutant: a known transaction id is enough.
AnsweredByAnyone(m, q) == q.age <= PingTimeout

\* A pong must come from the address that was pinged, and in time.
Matches(m, q) == q.endpoint = m.from /\ q.age <= PingTimeout

\* The path is switched only to a clearly better one, or when there is none.
Better(e, rtt) == Best = Absent \/ e = best.endpoint \/ rtt * 10 < best.rtt * 9

\* handleDisco with a pong over UDP, and notePong
ReceivePong(m, rtt) ==
  /\ Running /\ flying' = flying \ {m}
  /\ pending' = {q \in pending : q.tx # m.tx}
  /\ best' = IF (\E q \in Outstanding(m) : Matches(m, q)) /\ Better(m.from, rtt)
             THEN [endpoint |-> m.from, age |-> 0, rtt |-> rtt] ELSE best
  /\ answered' = IF m.peer = config /\ m.from = m.to
                    /\ \E q \in Outstanding(m) : q.age <= PingTimeout
                 THEN [answered EXCEPT ![m.from] = 0] ELSE answered
  /\ UNCHANGED <<config, candidates, directActive, reportedBest, notice, path>>

\* The source of a ping of the peer, or an entry of its call-me-maybe
LearnCandidate(e) ==
  /\ Running /\ candidates' = AddCandidate(candidates, e)
  /\ UNCHANGED <<config, pending, best, directActive, reportedBest, notice, path, flying,
                 answered>>

Lose(m) ==
  /\ flying' = flying \ {m}
  /\ UNCHANGED <<config, candidates, pending, best, directActive, reportedBest, notice, path,
                 answered>>

Tick ==
  /\ candidates' = [i \in DOMAIN candidates |->
                      [candidates[i] EXCEPT !.idle = Older(@, Heartbeat)]]
  /\ pending' = {[tx |-> q.tx, endpoint |-> q.endpoint, age |-> Older(q.age, PingTimeout + 1)] :
                   q \in pending}
  /\ best' = [best EXCEPT !.age = Older(@, Trust + 1)]
  /\ answered' = [e \in Endpoints |-> Older(answered[e], Trust + 1)]
  /\ UNCHANGED <<config, directActive, reportedBest, notice, path, flying>>

Network ==
  \/ \E q \in pending, from \in Endpoints :
        Cardinality(flying) < MaxFlying /\ Answer(q, from)
  \/ \E m \in flying : Lose(m) \/ \E rtt \in Rtts : ReceivePong(m, rtt)
  \/ \E e \in Endpoints : LearnCandidate(e)

PathNext == \/ \E p \in Nodes, known \in NetmapLists : Start(p, known)
        \/ Stop \/ Housekeeping \/ Notify \/ PollPaths \/ Network \/ Tick

PathSpec == PathInit /\ [][PathNext]_pathVars

-----------------------------------------------------------------------------

\* Packets leave the relay only for an endpoint that this peer, and no peer
\* of an earlier route, has proven by answering a ping to it within the trust
\* window: late, lost, misdirected and foreign pongs never steer traffic, and
\* a path that died is left by itself.
EgressProven == (Running /\ Best # Absent) => answered[Best] <= Trust

\* PathManager never reports a direct path for a route that has none: a
\* report that crossed a stop or a loss is taken back.
ReportFollowsPath == (Quiet /\ path # Absent) => path = reportedBest

-----------------------------------------------------------------------------
(* The inductive invariant.                                                *)

\* The types of what steers the packets and their reports.
PathTypes ==
  /\ config \in Nodes \cup {Absent} /\ notice \in BOOLEAN
  /\ best \in [endpoint : Endpoints \cup {Absent}, age : Nat, rtt : Nat]
  /\ answered \in [Endpoints -> Nat]
  /\ \A m \in flying : m.from \in Endpoints

\* The pong that made the best endpoint was also the peer's proof of it.
BestProven ==
  Running /\ best.endpoint # Absent => answered[best.endpoint] <= best.age

\* A transaction id stands for one endpoint, and a pong that carries it was
\* sent by the peer of this route in answer to a ping of that endpoint.
PongsOwned ==
  /\ \A q, r \in pending : q.tx = r.tx => q.endpoint = r.endpoint
  /\ \A q \in pending, m \in flying :
       q.tx = m.tx => m.to = q.endpoint /\ m.peer = config

\* Without a route there is nothing to report and no ping to answer.
StoppedIsSilent ==
  ~Running => Quiet /\ path = Absent /\ reportedBest = Absent /\ pending = {}

PathInv ==
  PathTypes /\ BestProven /\ PongsOwned /\ StoppedIsSilent /\ ReportFollowsPath
=============================================================================
