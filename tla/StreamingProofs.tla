--------------------------- MODULE StreamingProofs ---------------------------
(***************************************************************************)
(* Proofs about the two halves of the streaming client.                    *)
(*                                                                         *)
(* StreamSession, for any number of sessions, starts and callbacks: a      *)
(* session is not published once its destructor runs, and one that was     *)
(* stopped stays inactive once the callbacks that hold it are through.     *)
(*                                                                         *)
(* GameStreamRoutes, for any hosts, peers, addresses and worker jobs: no   *)
(* route outlives its leases, and a host reached under its own key holds   *)
(* only the route of its active address.                                   *)
(***************************************************************************)
EXTENDS StreamSession, GameStreamRoutes, FiniteSetTheorems, TLAPS

-----------------------------------------------------------------------------
(* StreamSession.                                                          *)

\* The restart on the decode thread works on a session.
DecoderHeld ==
  (crashed = "no" /\ decoder.pc \notin {"idle", "load"}) => decoder.ptr \in Sessions

\* A published session is the one of the view, whose stop has got no further
\* than setting the flag.  Only this makes the early return of a repeated stop
\* harmless: a request that still stands means that the pointer is cleared.
PublishedInv ==
  /\ TypeOK /\ DecoderHeld /\ PublishedSessionAlive
  /\ view.pc # "closed" => opened \in Sessions
  /\ m_stop_requested \subseteq 1..opened
  /\ m_active_session # NoSession =>
       /\ view.ui \in {"idle", "clear"}
       /\ view.teardown = "done" => view.ui = "clear"
       /\ opened \in m_stop_requested => view.ui = "clear"

-----------------------------------------------------------------------------

\* terminate keeps the fields of the view in their types.
LEMMA TerminatedView ==
  ASSUME NEW v \in ViewRecord, NEW a \in BOOLEAN
  PROVE  /\ Terminated(v, a) \in ViewRecord
         /\ Terminated(v, a).pc = v.pc /\ Terminated(v, a).ui = v.ui
         /\ Terminated(v, a).teardown \in {v.teardown, "scheduled"}
BY DEF Terminated, ViewRecord

\* A view before the constructor ran is a view record.
LEMMA NoViewType == NoView \in ViewRecord /\ NoView.pc = "closed"
BY DEF NoView, ViewRecord

\* A cell that no start uses is a start record.
LEMMA NoStartType == NoStart \in StartRecord
BY DEF NoStart, StartRecord

\* A thread that is in no callback has a record of its type, and so has a
\* decode thread that restarts nothing.
LEMMA NoCallType ==
  /\ NoCall \in CallRecord /\ NoCall.ptr = NoSession
  /\ NoDecode \in DecodeRecord /\ NoDecode.ptr = NoSession /\ NoDecode.pc = "idle"
BY DEF NoCall, CallRecord, NoDecode, DecodeRecord, Statements

\* A callback goes from statement to statement until it returns.
LEMMA FollowingType ==
  ASSUME NEW a \in Statements, NEW v \in BOOLEAN
  PROVE  Following(a, v) \in Statements \cup {"return"}
BY DEF Following, Statements, StartedStatements, TerminatedStatements

\* Setting a flag through m_active_session keeps it a set of sessions.
LEMMA MarkType ==
  ASSUME NEW F, F \subseteq Sessions, m_active_session \in Sessions \cup {NoSession}
  PROVE  Mark(F) \subseteq Sessions
BY DEF Mark

\* start on a session writes typed flags and a typed start.
LEMMA BeginType ==
  ASSUME TypeOK, NEW s \in Sessions, NEW kind \in {"view", "restart"}, Begin(s, kind)
  PROVE  /\ m_stop_requested' \subseteq m_stop_requested
         /\ m_is_terminated' \subseteq Sessions
         /\ start' \in [Starts -> StartRecord]
<1>1. [pc |-> "launch", session |-> s, kind |-> kind, ok |-> FALSE] \in StartRecord
  BY DEF StartRecord
<1>2. QED BY <1>1 DEF Begin, TypeOK

\* A failed start keeps every variable it writes in its type, and neither closes
\* the view nor finishes its teardown.
LEMMA FailsType ==
  ASSUME TypeOK, NEW i \in Starts, NEW c \in BOOLEAN, Fails(i, c)
  PROVE  /\ start' \in [Starts -> StartRecord]
         /\ view' \in ViewRecord
         /\ m_is_active' \subseteq m_is_active
         /\ m_is_terminated' \subseteq Sessions
         /\ m_restart_in_progress' \subseteq Sessions
         /\ view'.pc = view.pc /\ view'.ui = view.ui
         /\ view'.teardown \in {view.teardown, "scheduled"}
<1>1. start' \in [Starts -> StartRecord]
  BY NoStartType DEF Fails, TypeOK
<1>2. /\ m_is_active' \subseteq m_is_active
      /\ m_is_terminated' \subseteq Sessions
      /\ m_restart_in_progress' \subseteq Sessions
  BY MarkType DEF Fails, TypeOK
<1>3. view' \in {view, Terminated(view, FALSE)}
  BY DEF Fails
<1>4. QED BY <1>1, <1>2, <1>3, TerminatedView DEF TypeOK

\* A step that leaves the decode thread alone leaves its restart a session.
LEMMA DecoderKept ==
  ASSUME DecoderHeld, Running, UNCHANGED decoder
  PROVE  DecoderHeld'
BY DEF DecoderHeld, Running

\* A step that changes the view, but neither closes it nor moves its stop nor
\* finishes its teardown, keeps the published session.
LEMMA ViewMoves ==
  ASSUME PublishedInv, TypeOK', DecoderHeld', UNCHANGED <<opened, m_active_session>>,
         m_stop_requested' \subseteq m_stop_requested,
         view'.pc = "closed" <=> view.pc = "closed", view'.ui = view.ui,
         view'.teardown = "done" => view.teardown = "done"
  PROVE  PublishedInv'
BY DEF PublishedInv, PublishedSessionAlive

\* So does one that leaves the view alone.
LEMMA Untouched ==
  ASSUME PublishedInv, TypeOK', DecoderHeld',
         UNCHANGED <<opened, view, m_active_session>>,
         m_stop_requested' \subseteq m_stop_requested
  PROVE  PublishedInv'
BY ViewMoves

\* A stop begins: the flag is set and the pointer still published.
LEMMA StopBegins ==
  ASSUME PublishedInv, TypeOK', DecoderHeld', UNCHANGED <<opened, m_active_session>>,
         m_stop_requested' = m_stop_requested \cup {opened}, opened \in Sessions,
         view.pc # "closed", view'.pc # "closed", view'.ui = "clear"
  PROVE  PublishedInv'
<1>1. m_stop_requested' \subseteq 1..opened'
  BY SessionAssumption DEF PublishedInv, Sessions
<1>2. QED BY <1>1 DEF PublishedInv, PublishedSessionAlive

\* With nothing published a step may do anything to the view it has.
LEMMA Withdrawn ==
  ASSUME PublishedInv, TypeOK', DecoderHeld', UNCHANGED opened,
         m_active_session' = NoSession, m_stop_requested' \subseteq m_stop_requested,
         view'.pc # "closed" => view.pc # "closed"
  PROVE  PublishedInv'
BY DEF PublishedInv, PublishedSessionAlive

\* PublishedInv holds initially: no view is open and nothing is published.
LEMMA InitPublished == Init => PublishedInv
<1> SUFFICES ASSUME Init PROVE PublishedInv
  OBVIOUS
<1>1. TypeOK
  <2>1. opened \in 0..MaxSessions /\ quits \in Nat
    BY SessionAssumption DEF Init
  <2>2. start \in [Starts -> StartRecord] /\ view \in ViewRecord
    BY NoViewType, NoStartType DEF Init
  <2>3. callback \in [Callbacks -> CallRecord] /\ decoder \in DecodeRecord
    BY NoCallType DEF Init
  <2>4. QED BY <2>1, <2>2, <2>3 DEF Init, TypeOK
<1>2. QED
  BY <1>1, NoCallType DEF Init, PublishedInv, PublishedSessionAlive, DecoderHeld, NoView

\* The handlers and completions of the UI thread: terminations only schedule a
\* teardown, and a stop begins with its flag.
LEMMA UiPublished ==
  ASSUME PublishedInv,
         \/ OpenView \/ UiStep \/ FocusLost \/ WindowShouldClose
         \/ \E a \in BOOLEAN : UserTerminates(a)
  PROVE  PublishedInv'
<1> USE DEF PublishedInv
<1>0. DecoderHeld'
  <2>1. Running /\ UNCHANGED decoder
    BY DEF OpenView, UiStep, FocusLost, WindowShouldClose, UserTerminates, UiFree, ViewUp,
       ConnectSucceeds, ConnectFails, Draw, FinishTeardown, DestroyView, threads
  <2>2. QED BY <2>1, DecoderKept
<1>1. CASE OpenView
  <2>1. [NoView EXCEPT !.pc = "connecting"] \in ViewRecord
    BY DEF NoView, ViewRecord
  <2>2. opened' \in Sessions /\ opened' \in 0..MaxSessions
    BY <1>1, SessionAssumption DEF OpenView, TypeOK, Sessions
  <2>3. TypeOK'
    BY <1>1, <2>1, <2>2 DEF OpenView, TypeOK, flags, threads
  <2>4. view'.pc = "connecting" /\ view'.teardown = "no" /\ view'.ui = "idle"
    BY <1>1 DEF OpenView, NoView
  <2>5. m_stop_requested' \subseteq 1..opened' /\ opened' \notin m_stop_requested'
    BY <1>1 DEF OpenView, TypeOK, flags
  <2>6. QED
    BY <1>0, <1>1, <2>2, <2>3, <2>4, <2>5, SessionAssumption
    DEF OpenView, PublishedSessionAlive, Sessions
<1>2. CASE UiStep
  <2>1. CASE ConnectSucceeds
    <3>1. opened \in Sessions /\ Begin(opened, "view")
      BY <2>1 DEF ConnectSucceeds
    <3>2. /\ view' \in ViewRecord /\ view'.pc = "open" /\ view'.ui = view.ui
          /\ view'.teardown = view.teardown /\ view.pc = "connecting"
      BY <2>1 DEF ConnectSucceeds, TypeOK, ViewRecord
    <3>3. TypeOK'
      BY <2>1, <3>1, <3>2, BeginType DEF ConnectSucceeds, TypeOK, host, threads
    <3>4. QED BY <1>0, <2>1, <3>1, <3>2, <3>3, BeginType, ViewMoves DEF ConnectSucceeds
  <2>2. CASE ConnectFails
    <3>1. /\ view' \in ViewRecord /\ view'.pc = "open" /\ view.pc = "connecting"
          /\ view'.ui = view.ui /\ view'.teardown \in {view.teardown, "scheduled"}
      <4>1. /\ Terminated(view, FALSE) \in ViewRecord
            /\ Terminated(view, FALSE).ui = view.ui
            /\ Terminated(view, FALSE).teardown \in {view.teardown, "scheduled"}
        BY TerminatedView DEF TypeOK
      <4>2. QED BY <2>2, <4>1 DEF ConnectFails, ViewRecord
    <3>2. TypeOK'
      BY <2>2, <3>1 DEF ConnectFails, TypeOK, flags, host, threads
    <3>3. QED BY <1>0, <2>2, <3>1, <3>2, ViewMoves DEF ConnectFails, flags
  <2>3. CASE Draw
    <3>1. /\ view' \in ViewRecord /\ view'.pc = view.pc /\ view'.ui = view.ui
          /\ view'.teardown \in {view.teardown, "scheduled"}
      <4>1. view' \in {view, Terminated(view, TRUE), Terminated(view, FALSE)}
        BY <2>3 DEF Draw, Drawn
      <4>2. ASSUME NEW a \in BOOLEAN
            PROVE  /\ Terminated(view, a) \in ViewRecord
                   /\ Terminated(view, a).pc = view.pc /\ Terminated(view, a).ui = view.ui
                   /\ Terminated(view, a).teardown \in {view.teardown, "scheduled"}
        BY TerminatedView DEF TypeOK
      <4>3. CASE view' = view
        BY <4>3 DEF TypeOK
      <4>4. CASE view' = Terminated(view, TRUE)
        BY <4>2, <4>4
      <4>5. CASE view' = Terminated(view, FALSE)
        BY <4>2, <4>5
      <4>6. QED BY <4>1, <4>3, <4>4, <4>5
    <3>2. TypeOK'
      BY <2>3, <3>1 DEF Draw, TypeOK, flags, host, threads
    <3>3. QED BY <1>0, <2>3, <3>1, <3>2, ViewMoves DEF Draw, flags
  <2>4. CASE FinishTeardown
    <3>1. /\ opened \in Sessions /\ view.pc # "closed"
          /\ view' \in ViewRecord /\ view'.pc = view.pc /\ view'.ui = "clear"
      BY <2>4 DEF FinishTeardown, ViewUp, TypeOK, ViewRecord
    <3>2. TypeOK'
      BY <2>4, <3>1 DEF FinishTeardown, BeginStop, TypeOK, host, threads
    <3>3. QED BY <1>0, <2>4, <3>1, <3>2, StopBegins DEF FinishTeardown, BeginStop
  <2>5. CASE DestroyView
    <3>0. /\ view.pc # "closed" /\ view.ui = "idle" /\ opened \in Sessions
          /\ UNCHANGED <<opened, m_active_session>>
      BY <2>5 DEF DestroyView
    <3>1. CASE opened \in m_stop_requested
      <4>1. view' \in ViewRecord /\ m_active_session' = NoSession
        BY <2>5, <3>0, <3>1 DEF DestroyView, TypeOK, ViewRecord
      <4>2. TypeOK'
        BY <2>5, <3>1, <4>1 DEF DestroyView, TypeOK, host, threads
      <4>3. QED BY <1>0, <2>5, <3>0, <3>1, <4>1, <4>2, Withdrawn DEF DestroyView
    <3>2. CASE opened \notin m_stop_requested
      <4>1. /\ view' \in ViewRecord /\ view'.pc = view.pc /\ view'.ui = "clear"
            /\ BeginStop(opened)
        BY <2>5, <3>2 DEF DestroyView, TypeOK, ViewRecord
      <4>2. TypeOK'
        BY <2>5, <3>0, <4>1 DEF DestroyView, BeginStop, TypeOK, host, threads
      <4>3. QED BY <1>0, <3>0, <4>1, <4>2, StopBegins DEF BeginStop
    <3>3. QED BY <3>1, <3>2
  <2>6. QED BY <1>2, <2>1, <2>2, <2>3, <2>4, <2>5 DEF UiStep
<1>3. CASE FocusLost
  <2>1. /\ view' \in ViewRecord /\ view'.pc = view.pc /\ view'.ui = view.ui
        /\ view'.teardown = view.teardown
    BY <1>3 DEF FocusLost, TypeOK, ViewRecord
  <2>2. TypeOK'
    BY <1>3, <2>1 DEF FocusLost, TypeOK, flags, host, threads
  <2>3. QED BY <1>0, <1>3, <2>1, <2>2, ViewMoves DEF FocusLost, flags
<1>4. CASE WindowShouldClose
  <2>1. CASE view.terminated
    <3>1. TypeOK'
      BY <1>4, <2>1 DEF WindowShouldClose, TypeOK, host, threads
    <3>2. QED BY <1>0, <1>4, <2>1, <3>1, Untouched DEF WindowShouldClose
  <2>2. CASE ~view.terminated
    <3>1. /\ opened \in Sessions /\ view.pc # "closed" /\ BeginStop(opened)
          /\ view' \in ViewRecord /\ view'.pc = view.pc /\ view'.ui = "clear"
      BY <1>4, <2>2 DEF WindowShouldClose, ViewUp, TypeOK, ViewRecord
    <3>2. TypeOK'
      BY <1>4, <2>2, <3>1 DEF WindowShouldClose, BeginStop, TypeOK, host, threads
    <3>3. QED BY <1>0, <1>4, <3>1, <3>2, StopBegins DEF WindowShouldClose, BeginStop
  <2>3. QED BY <2>1, <2>2
<1>5. ASSUME NEW a \in BOOLEAN, UserTerminates(a)
      PROVE  PublishedInv'
  <2>1. /\ view' \in ViewRecord /\ view'.pc = view.pc /\ view'.ui = view.ui
        /\ view'.teardown \in {view.teardown, "scheduled"}
    BY <1>5, TerminatedView DEF UserTerminates, TypeOK
  <2>2. TypeOK'
    BY <1>5, <2>1 DEF UserTerminates, TypeOK, flags, host, threads
  <2>3. QED BY <1>0, <1>5, <2>1, <2>2, ViewMoves DEF UserTerminates, flags
<1>6. QED BY <1>1, <1>2, <1>3, <1>4, <1>5

\* The rest of stop, and the destructor: once the pointer is cleared nothing is
\* published until the next view.
LEMMA StopPublished ==
  ASSUME PublishedInv, Stopping
  PROVE  PublishedInv'
<1> USE DEF PublishedInv
<1>0. DecoderHeld'
  <2>1. Running /\ UNCHANGED decoder
    BY DEF Stopping, Unpublish, Quit, StopReturns, DeleteMembers, DeleteSession, threads
  <2>2. QED BY <2>1, DecoderKept
<1>1. CASE Unpublish
  <2>1. view' \in ViewRecord /\ view'.pc = view.pc
    BY <1>1 DEF Unpublish, TypeOK, ViewRecord
  <2>2. TypeOK' /\ m_active_session' = NoSession
    BY <1>1, <2>1 DEF Unpublish, UnpublishedByStop, TypeOK, flags, host, threads
  <2>3. QED BY <1>0, <1>1, <2>1, <2>2, Withdrawn DEF Unpublish, flags
<1>2. CASE Quit
  <2>1. view' \in ViewRecord /\ view'.pc = view.pc
    BY <1>2 DEF Quit, TypeOK, ViewRecord
  <2>2. quits' \in Nat
    BY <1>2, SessionAssumption DEF Quit, TypeOK
  <2>3. hostApp' \in BOOLEAN /\ cancelled' \in BOOLEAN
    BY <1>2 DEF Quit, TypeOK
  <2>4. m_active_session' = NoSession
    BY <1>2 DEF Quit
  <2>5. TypeOK'
    BY <1>2, <2>1, <2>2, <2>3 DEF Quit, TypeOK, flags, threads
  <2>6. QED BY <1>0, <1>2, <2>1, <2>4, <2>5, Withdrawn DEF Quit, flags
<1>3. CASE StopReturns \/ DeleteMembers
  <2>1. view' \in ViewRecord /\ view'.pc = view.pc
    BY <1>3 DEF StopReturns, DeleteMembers, TypeOK, ViewRecord
  <2>2. m_active_session' = NoSession
    BY <1>3 DEF StopReturns, DeleteMembers
  <2>3. TypeOK'
    BY <1>3, <2>1 DEF StopReturns, DeleteMembers, TypeOK, flags, host, threads
  <2>4. QED
    BY <1>0, <1>3, <2>1, <2>2, <2>3, Withdrawn DEF StopReturns, DeleteMembers, flags
<1>4. CASE DeleteSession
  <2>1. TypeOK'
    BY <1>4, NoViewType DEF DeleteSession, TypeOK, flags, host, threads
  <2>2. QED BY <1>0, <1>4, <2>1, NoViewType, Withdrawn DEF DeleteSession, flags
<1>5. QED BY <1>1, <1>2, <1>3, <1>4 DEF Stopping

\* The steps of a start: a pool worker or a completion on the UI thread.  None
\* of them publishes a session.
LEMMA StartPublished ==
  ASSUME PublishedInv, NEW i \in Starts, StartStep(i)
  PROVE  PublishedInv'
<1> USE DEF PublishedInv
<1>0. start[i] \in StartRecord
  BY DEF TypeOK
<1>1. DecoderHeld'
  <2>1. Running /\ UNCHANGED decoder
    BY DEF StartStep, Launch, Launched, Dialed, LinkFails, LinkFailed, UiFree, threads
  <2>2. QED BY <2>1, DecoderKept
<1>2. ASSUME NEW runs \in BOOLEAN, NEW ok \in BOOLEAN, Launch(i, runs, ok)
      PROVE  PublishedInv'
  <2>1. start' \in [Starts -> StartRecord]
    BY <1>0, <1>2 DEF Launch, TypeOK, StartRecord
  <2>2. hostApp' \in BOOLEAN
    BY <1>2 DEF Launch, TypeOK
  <2>3. TypeOK'
    BY <1>2, <2>1, <2>2 DEF Launch, TypeOK, flags, threads
  <2>4. QED BY <1>1, <1>2, <2>3, Untouched DEF Launch, flags
<1>3. ASSUME NEW w \in Workers, Dialed(i, w)
      PROVE  PublishedInv'
  <2>1. start' \in [Starts -> StartRecord]
    BY <1>3, NoStartType DEF Dialed, TypeOK
  <2>2. callback' \in [Callbacks -> CallRecord]
    BY <1>3 DEF Dialed, TypeOK, Callbacks, CallRecord
  <2>3. TypeOK'
    BY <1>3, <2>1, <2>2 DEF Dialed, Touch, TypeOK, flags, host
  <2>4. QED BY <1>1, <1>3, <2>3, Untouched DEF Dialed, flags
<1>4. CASE Launched(i)
  <2>1. CASE start[i].ok
    <3>1. start' \in [Starts -> StartRecord]
      BY <1>0, <1>4, <2>1 DEF Launched, TypeOK, StartRecord
    <3>2. TypeOK'
      BY <1>4, <2>1, <3>1 DEF Launched, Touch, TypeOK, flags, host, threads
    <3>3. QED BY <1>1, <1>4, <2>1, <3>2, Untouched DEF Launched, flags
  <2>2. CASE ~start[i].ok
    <3>1. Fails(i, FALSE)
      BY <1>4, <2>2 DEF Launched
    <3>2. TypeOK'
      BY <1>4, <2>2, <3>1, FailsType DEF Launched, TypeOK, host, threads
    <3>3. QED BY <1>1, <1>4, <2>2, <3>1, <3>2, FailsType, ViewMoves DEF Launched
  <2>3. QED BY <2>1, <2>2
<1>5. CASE LinkFails(i)
  <2>1. start' \in [Starts -> StartRecord]
    BY <1>0, <1>5 DEF LinkFails, TypeOK, StartRecord
  <2>2. TypeOK'
    BY <1>5, <2>1 DEF LinkFails, Touch, TypeOK, flags, host, threads
  <2>3. QED BY <1>1, <1>5, <2>2, Untouched DEF LinkFails, flags
<1>6. CASE LinkFailed(i)
  <2>1. Fails(i, TRUE)
    BY <1>6 DEF LinkFailed
  <2>2. TypeOK'
    BY <1>6, <2>1, FailsType DEF LinkFailed, TypeOK, host, threads
  <2>3. QED BY <1>1, <1>6, <2>1, <2>2, FailsType, ViewMoves DEF LinkFailed
<1>7. QED BY <1>2, <1>3, <1>4, <1>5, <1>6 DEF StartStep

\* The steps of a Limelight callback.  They may take a stop request back, and
\* never set one.
LEMMA CallbackPublished ==
  ASSUME PublishedInv, NEW c \in Callbacks, CallbackStep(c)
  PROVE  PublishedInv'
<1> USE DEF PublishedInv
<1>0. callback[c] \in CallRecord
  BY DEF TypeOK
<1>1. DecoderHeld'
  <2>1. Running /\ UNCHANGED decoder
    BY DEF CallbackStep, TestActive, UseNull, UseActive, threads
  <2>2. QED BY <2>1, DecoderKept
<1>2. CASE TestActive(c)
  <2>1. callback' \in [Callbacks -> CallRecord]
    BY <1>0, <1>2, NoCallType
    DEF TestActive, TypeOK, CallRecord, Statements, StartedStatements, TerminatedStatements
  <2>2. TypeOK'
    BY <1>2, <2>1 DEF TestActive, TypeOK, flags, host
  <2>3. QED BY <1>1, <1>2, <2>2, Untouched DEF TestActive, flags
<1>3. CASE UseNull(c)
  <2>1. TypeOK'
    BY <1>3 DEF UseNull, TypeOK, flags, host, threads
  <2>2. QED BY <1>1, <1>3, <2>1, Untouched DEF UseNull, flags
<1>4. ASSUME NEW s \in Sessions, UseActive(c, s)
      PROVE  PublishedInv'
  <2>1. callback' \in [Callbacks -> CallRecord]
    <3> DEFINE a == callback[c].at
               v == CASE a = "readStop" -> s \in m_stop_requested
                      [] a = "readRestart" ->
                           MarkTerminated(callback[c].seen, s \in m_restart_in_progress)
                      [] OTHER -> callback[c].seen
               r == [at |-> Following(a, v), ptr |-> m_active_session, seen |-> v]
    <3>1. a \in Statements
      BY <1>4 DEF UseActive
    <3>2. v \in BOOLEAN
      <4>1. callback[c].seen \in BOOLEAN
        BY <1>0 DEF CallRecord
      <4>2. MarkTerminated(callback[c].seen, s \in m_restart_in_progress) \in BOOLEAN
        BY Zenon DEF MarkTerminated
      <4>3. (s \in m_stop_requested) \in BOOLEAN
        OBVIOUS
      <4>4. CASE a = "readStop"
        BY <4>3, <4>4, Zenon
      <4>5. CASE a = "readRestart"
        BY <4>2, <4>5
      <4>6. CASE a \notin {"readStop", "readRestart"}
        BY <4>1, <4>6
      <4>7. QED BY <4>4, <4>5, <4>6
    <3>3. Following(a, v) \in Statements \cup {"return"}
      BY <3>1, <3>2, FollowingType
    <3>4. callback' = [callback EXCEPT ![c] = IF Following(a, v) = "return" THEN NoCall ELSE r]
      BY <1>4 DEF UseActive
    <3> HIDE DEF a, v
    <3>5. r \in CallRecord
      BY <3>2, <3>3 DEF CallRecord, TypeOK
    <3> HIDE DEF r
    <3>6. QED BY <3>4, <3>5, NoCallType DEF TypeOK
  <2>2. /\ m_is_active' \subseteq Sessions /\ m_is_terminated' \subseteq Sessions
        /\ m_restart_in_progress' \subseteq Sessions
        /\ m_stop_requested' \subseteq m_stop_requested
    BY <1>4 DEF UseActive, TypeOK
  <2>3. TypeOK'
    BY <1>4, <2>1, <2>2 DEF UseActive, Touch, TypeOK, host
  <2>4. QED BY <1>1, <1>4, <2>2, <2>3, Untouched DEF UseActive
<1>5. QED BY <1>2, <1>3, <1>4 DEF CallbackStep

\* The decode thread, a lost connection and an asynchronous quit.
LEMMA WorkerPublished ==
  ASSUME PublishedInv, RunQuit \/ ConnectionLost \/ DecodeFails \/ DecoderStep
  PROVE  PublishedInv'
<1> USE DEF PublishedInv
<1>1. CASE RunQuit
  <2>1. quits' \in Nat
    BY <1>1 DEF RunQuit, TypeOK
  <2>2. hostApp' \in BOOLEAN
    BY <1>1 DEF RunQuit, TypeOK
  <2>3. TypeOK'
    BY <1>1, <2>1, <2>2 DEF RunQuit, TypeOK, flags, threads
  <2>4. QED BY <1>1, <2>3, DecoderKept, Untouched DEF RunQuit, flags, threads
<1>2. CASE ConnectionLost
  <2>1. callback' \in [Callbacks -> CallRecord]
    BY <1>2 DEF ConnectionLost, TypeOK, Callbacks, CallRecord
  <2>2. TypeOK'
    BY <1>2, <2>1 DEF ConnectionLost, TypeOK, flags, host
  <2>3. QED BY <1>2, <2>2, DecoderKept, Untouched DEF ConnectionLost, flags
<1>3. CASE DecodeFails
  <2>1. decoder' \in DecodeRecord /\ decoder'.pc = "load"
    BY <1>3 DEF DecodeFails, TypeOK, DecodeRecord
  <2>2. TypeOK' /\ DecoderHeld'
    BY <1>3, <2>1 DEF DecodeFails, TypeOK, DecoderHeld, flags, host
  <2>3. QED BY <1>3, <2>2, Untouched DEF DecodeFails, flags
<1>4. CASE LoadForRestart
  <2>1. decoder' \in DecodeRecord /\ decoder'.ptr = m_active_session
    BY <1>4 DEF LoadForRestart, TypeOK, DecodeRecord
  <2>2. TypeOK' /\ DecoderHeld'
    BY <1>4, <2>1 DEF LoadForRestart, TypeOK, DecoderHeld, flags, host
  <2>3. QED BY <1>4, <2>2, Untouched DEF LoadForRestart, flags
<1>5. CASE Restart
  <2>1. decoder.ptr \in Sessions
    BY <1>5 DEF Restart, Running, DecoderHeld
  <2>2. decoder' \in DecodeRecord /\ decoder'.ptr = decoder.ptr
    BY <1>5 DEF Restart, TypeOK, DecodeRecord
  <2>3. TypeOK' /\ DecoderHeld'
    BY <1>5, <2>1, <2>2 DEF Restart, Touch, TypeOK, DecoderHeld, host
  <2>4. QED BY <1>5, <2>3, Untouched DEF Restart
<1>6. CASE StopInDecoder
  <2>1. decoder.ptr \in Sessions
    BY <1>6 DEF StopInDecoder, Running, DecoderHeld
  <2>2. decoder' \in DecodeRecord /\ decoder'.ptr = decoder.ptr
    BY <1>6 DEF StopInDecoder, TypeOK, DecodeRecord
  <2>3. TypeOK' /\ DecoderHeld'
    BY <1>6, <2>1, <2>2 DEF StopInDecoder, TypeOK, DecoderHeld, flags, host
  <2>4. QED BY <1>6, <2>3, Untouched DEF StopInDecoder, flags
<1>7. CASE RestartStarts
  <2>1. DecoderHeld' /\ decoder' \in DecodeRecord
    BY <1>7, NoCallType DEF RestartStarts, DecoderHeld
  <2>2. CASE m_active_session = NoSession
    <3>1. TypeOK'
      BY <1>7, <2>1, <2>2 DEF RestartStarts, TypeOK, flags, host
    <3>2. QED BY <1>7, <2>1, <2>2, <3>1, Untouched DEF RestartStarts, flags
  <2>3. CASE m_active_session # NoSession
    <3>1. decoder.ptr \in Sessions /\ Begin(decoder.ptr, "restart")
      BY <1>7, <2>3 DEF RestartStarts, Running, DecoderHeld
    <3>2. /\ m_stop_requested' \subseteq m_stop_requested
          /\ m_is_terminated' \subseteq Sessions /\ start' \in [Starts -> StartRecord]
      BY <3>1, BeginType
    <3>3. TypeOK'
      BY <1>7, <2>1, <2>3, <3>2 DEF RestartStarts, TypeOK, host
    <3>4. QED BY <1>7, <2>1, <3>2, <3>3, Untouched DEF RestartStarts
  <2>4. QED BY <2>2, <2>3
<1>8. QED BY <1>1, <1>2, <1>3, <1>4, <1>5, <1>6, <1>7 DEF DecoderStep

\* PublishedInv is inductive.
LEMMA NextPublished == PublishedInv /\ [Next]_vars => PublishedInv'
<1> SUFFICES ASSUME PublishedInv, [Next]_vars
             PROVE  PublishedInv'
  OBVIOUS
<1>1. CASE Next
  BY <1>1, UiPublished, StopPublished, StartPublished, CallbackPublished, WorkerPublished
  DEF Next
<1>2. CASE UNCHANGED vars
  <2>1. TypeOK' /\ DecoderHeld'
    BY <1>2 DEF vars, PublishedInv, TypeOK, DecoderHeld, flags, host, threads
  <2>2. QED BY <1>2, <2>1, Untouched DEF vars, flags
<1>3. QED BY <1>1, <1>2

\* A session is published only as long as its stop has got no further than
\* setting the flag, for any number of views, of starts and of callbacks that
\* take the request back.
THEOREM PublishedInvariant == Spec => []PublishedInv
<1>1. Init => PublishedInv
  BY InitPublished
<1>2. PublishedInv /\ [Next]_vars => PublishedInv'
  BY NextPublished
<1>3. QED BY <1>1, <1>2, PTL DEF Spec

\* Every variable of the session model keeps its type; no flag is ever set
\* through a null session pointer.
THEOREM SessionTypeCorrect == Spec => []TypeOK
<1>1. PublishedInv => TypeOK
  BY DEF PublishedInv
<1>2. QED BY <1>1, PublishedInvariant, PTL

\* A Limelight callback that loads m_active_session never finds a session that
\* is deleted or whose destructor runs, for any number of views and of starts
\* in flight.
THEOREM PublishedSessionAliveAlways == Spec => []PublishedSessionAlive
<1>1. PublishedInv => PublishedSessionAlive
  BY DEF PublishedInv
<1>2. QED BY <1>1, PublishedInvariant, PTL

\* No step puts a session that is retired, and that no thread holds, into the
\* hands of a thread or among the active ones: a thread gets hold of a session
\* only through m_active_session, and only a holder marks one active.
LEMMA RetiredStep ==
  ASSUME PublishedInv, [Next]_vars, NEW s \in Sessions, Retired(s), ~Held(s)
  PROVE  ~Held(s)' /\ (s \in m_is_active' => s \in m_is_active)
<1>0. s # m_active_session /\ s # NoSession
  BY SessionAssumption DEF Retired, PublishedInv, PublishedSessionAlive, Sessions
<1>1. decoder.ptr # s /\ \A c \in Callbacks : callback[c].ptr # s
  BY DEF Held
<1>2. CASE OpenView \/ UiStep \/ Stopping \/ FocusLost \/ WindowShouldClose
             \/ (\E a \in BOOLEAN : UserTerminates(a)) \/ RunQuit
  <2>1. UNCHANGED <<callback, decoder, m_is_active>>
    BY <1>2 DEF OpenView, UiStep, Stopping, FocusLost, WindowShouldClose, UserTerminates,
       RunQuit, ConnectSucceeds, ConnectFails, Draw, FinishTeardown, DestroyView, Unpublish,
       Quit, StopReturns, DeleteMembers, DeleteSession, flags, threads
  <2>2. QED BY <1>1, <2>1 DEF Held
<1>3. ASSUME NEW i \in Starts, StartStep(i)
      PROVE  ~Held(s)' /\ (s \in m_is_active' => s \in m_is_active)
  <2>1. CASE \E runs, ok \in BOOLEAN : Launch(i, runs, ok)
    BY <1>1, <2>1 DEF Launch, flags, threads, Held
  <2>2. CASE Launched(i) \/ LinkFails(i) \/ LinkFailed(i)
    BY <1>1, <2>2 DEF Launched, LinkFails, LinkFailed, Fails, flags, threads, Held
  <2>3. ASSUME NEW w \in Workers, Dialed(i, w)
        PROVE  ~Held(s)' /\ (s \in m_is_active' => s \in m_is_active)
    <3>1. callback \in [Callbacks -> CallRecord] /\ w \in Callbacks
      BY DEF PublishedInv, TypeOK, Callbacks
    <3>2. \A c \in Callbacks : callback'[c].ptr # s
      BY <1>1, <2>3, <3>1 DEF Dialed, CallRecord
    <3>3. QED BY <1>1, <2>3, <3>2 DEF Dialed, flags, Held
  <2>4. QED BY <1>3, <2>1, <2>2, <2>3 DEF StartStep
<1>4. ASSUME NEW c \in Callbacks, CallbackStep(c)
      PROVE  ~Held(s)' /\ (s \in m_is_active' => s \in m_is_active)
  <2>0. callback \in [Callbacks -> CallRecord]
    BY DEF PublishedInv, TypeOK
  <2>1. CASE TestActive(c)
    <3>1. callback'[c].ptr # s
      BY <1>0, <2>0, <2>1, NoCallType DEF TestActive
    <3>2. QED BY <1>1, <2>0, <2>1, <3>1 DEF TestActive, flags, Held
  <2>2. CASE UseNull(c)
    BY <1>1, <2>2 DEF UseNull, flags, threads, Held
  <2>3. ASSUME NEW t \in Sessions, UseActive(c, t)
        PROVE  ~Held(s)' /\ (s \in m_is_active' => s \in m_is_active)
    <3>1. t # s
      BY <1>0, <1>1, <2>3 DEF UseActive
    <3>2. callback'[c].ptr # s
      BY <1>0, <2>0, <2>3, NoCallType DEF UseActive
    <3>3. \A d \in Callbacks : callback'[d].ptr # s
      BY <1>1, <2>0, <2>3, <3>2 DEF UseActive
    <3>4. s \in m_is_active' => s \in m_is_active
      BY <2>3, <3>1 DEF UseActive
    <3>5. QED BY <1>1, <2>3, <3>3, <3>4 DEF UseActive, Held
  <2>4. QED BY <1>4, <2>1, <2>2, <2>3 DEF CallbackStep
<1>5. CASE ConnectionLost
  <2>1. callback \in [Callbacks -> CallRecord] /\ Receiver \in Callbacks
    BY DEF PublishedInv, TypeOK, Callbacks
  <2>2. \A c \in Callbacks : callback'[c].ptr # s
    BY <1>1, <1>5, <2>1 DEF ConnectionLost, CallRecord
  <2>3. QED BY <1>1, <1>5, <2>2 DEF ConnectionLost, flags, Held
<1>6. CASE DecodeFails \/ DecoderStep
  <2>1. decoder'.ptr \in {decoder.ptr, m_active_session, NoSession}
    BY <1>6, NoCallType DEF DecodeFails, DecoderStep, LoadForRestart, Restart, StopInDecoder,
       RestartStarts, PublishedInv, TypeOK, DecodeRecord
  <2>2. UNCHANGED callback /\ m_is_active' \subseteq m_is_active
    BY <1>6 DEF DecodeFails, DecoderStep, LoadForRestart, Restart, StopInDecoder,
       RestartStarts, flags
  <2>3. QED BY <1>0, <1>1, <2>1, <2>2 DEF Held
<1>7. CASE UNCHANGED vars
  BY <1>1, <1>7 DEF vars, flags, threads, Held
<1>8. QED BY <1>2, <1>3, <1>4, <1>5, <1>6, <1>7 DEF Next

\* Once the callbacks that had loaded the session are through, nobody gets hold
\* of a session that was torn down, and it stays inactive.
THEOREM StoppedStaysInactiveAlways == Spec => StoppedStaysInactive
<1>1. PublishedInv /\ [Next]_vars =>
        [\A s \in Sessions : Retired(s) /\ ~Held(s) =>
           ~Held(s)' /\ (s \in m_is_active' => s \in m_is_active)]_vars
  BY RetiredStep
<1>2. QED BY <1>1, PublishedInvariant, PTL DEF Spec, StoppedStaysInactive

-----------------------------------------------------------------------------
(* GameStreamRoutes.                                                       *)

\* A finite set counts one more or one less when one element joins or leaves.
LEMMA OneElement ==
  ASSUME NEW A, NEW B, NEW x, IsFiniteSet(A), A \ {x} = B \ {x}
  PROVE  /\ Cardinality(A) \in Nat /\ Cardinality(B) \in Nat
         /\ (x \in A <=> x \in B) => Cardinality(B) = Cardinality(A)
         /\ x \notin A /\ x \in B => Cardinality(B) = Cardinality(A) + 1
         /\ x \in A /\ x \notin B => Cardinality(B) = Cardinality(A) - 1
<1>1. Cardinality(A) \in Nat
  BY FS_CardinalityType
<1>2. CASE x \in A <=> x \in B
  <2>1. A = B
    BY <1>2
  <2>2. QED BY <1>1, <1>2, <2>1
<1>3. CASE x \notin A /\ x \in B
  <2>1. B = A \cup {x}
    BY <1>3
  <2>2. Cardinality(A \cup {x}) = Cardinality(A) + 1
    BY <1>3, FS_AddElement
  <2>3. QED BY <1>1, <1>3, <2>1, <2>2
<1>4. CASE x \in A /\ x \notin B
  <2>1. B = A \ {x}
    BY <1>4
  <2>2. Cardinality(A \ {x}) = Cardinality(A) - 1 /\ IsFiniteSet(A \ {x})
    BY <1>4, FS_RemoveElement
  <2>3. Cardinality(A \ {x}) \in Nat
    BY <2>2, FS_CardinalityType
  <2>4. QED BY <1>1, <1>4, <2>1, <2>2, <2>3
<1>5. QED BY <1>2, <1>3, <1>4

\* The leases of a peer are finitely many, before and after a step.
LEMMA LeasesFinite ==
  ASSUME NEW p \in Peers, RoutesTypeOK, RoutesTypeOK'
  PROVE  /\ IsFiniteSet(RoutesTo(p)) /\ IsFiniteSet(DiallingOn(p))
         /\ IsFiniteSet(DeliveringOn(p)) /\ LeasesOn(p) \in Nat /\ LeasesOn(p)' \in Nat
<1>1. IsFiniteSet(HostKeys) /\ IsFiniteSet(Jobs)
  BY RoutesAssumption
<1>2. /\ RoutesTo(p) \in SUBSET HostKeys /\ RoutesTo(p)' \in SUBSET HostKeys
      /\ DiallingOn(p) \in SUBSET Jobs /\ DiallingOn(p)' \in SUBSET Jobs
      /\ DeliveringOn(p) \in SUBSET Jobs /\ DeliveringOn(p)' \in SUBSET Jobs
  BY DEF RoutesTo, DiallingOn, DeliveringOn
<1>3. \A A \in SUBSET HostKeys : IsFiniteSet(A) /\ Cardinality(A) \in Nat
  BY <1>1, FS_Subset, FS_CardinalityType
<1>4. \A A \in SUBSET Jobs : IsFiniteSet(A) /\ Cardinality(A) \in Nat
  BY <1>1, FS_Subset, FS_CardinalityType
<1>5. releasing[p] \in Nat /\ releasing'[p] \in Nat
  BY DEF RoutesTypeOK
<1>6. LeasesOn(p) \in Nat
  BY <1>2, <1>3, <1>4, <1>5 DEF LeasesOn
<1>7. LeasesOn(p)' \in Nat
  BY <1>2, <1>3, <1>4, <1>5 DEF LeasesOn
<1>8. QED BY <1>2, <1>3, <1>4, <1>6, <1>7

\* The manager's record has a count exactly when it has a route.
Counted(m) == m \in ManagerRecord /\ (m.references = 0 <=> m.peer = None)

\* Releasing a lease takes at most one reference, and only of its own route.
LEMMA ReleasedManager ==
  ASSUME NEW m, Counted(m), NEW lease \in Peers \cup {None}
  PROVE  /\ Counted(Released(m, lease))
         /\ Released(m, lease).peer # None =>
              /\ Released(m, lease).peer = m.peer
              /\ Released(m, lease).references =
                   IF lease = m.peer THEN m.references - 1 ELSE m.references
<1> USE RoutesAssumption DEF Counted, ManagerRecord
<1>1. CASE lease = None \/ m.peer # lease
  BY <1>1 DEF Released
<1>2. CASE ~(lease = None \/ m.peer # lease) /\ m.references > 1
  BY <1>2 DEF Released
<1>3. CASE ~(lease = None \/ m.peer # lease) /\ ~(m.references > 1)
  BY <1>3 DEF Released, NoRoute
<1>4. QED BY <1>1, <1>2, <1>3

\* A manager record with another route is a manager record.
LEMMA ManagerWith ==
  ASSUME NEW m \in ManagerRecord, NEW p \in Peers \cup {None}, NEW n \in Nat,
         NEW q \in Peers \cup {None}, NEW r \in Peers \cup {None}
  PROVE  /\ [m EXCEPT !.references = n] \in ManagerRecord
         /\ [m EXCEPT !.peer = p, !.references = n, !.proxy = q] \in ManagerRecord
         /\ [m EXCEPT !.peer = p, !.references = n, !.proxy = q, !.relays = r]
              \in ManagerRecord
BY DEF ManagerRecord

\* Activation joins the route of the peer, makes it, or leaves no route.
LEMMA ActivatedManager ==
  ASSUME NEW m, Counted(m), NEW p \in Peers, NEW granted \in BOOLEAN
  PROVE  /\ Counted(Activated(m, p, granted))
         /\ Activated(m, p, granted).peer # None =>
              /\ m.peer = p \/ granted
              /\ Activated(m, p, granted).peer = p
              /\ Activated(m, p, granted).references =
                   IF m.peer = p THEN m.references + 1 ELSE 1
<1> DEFINE new == Activated(m, p, granted)
<1>1. p # None /\ m \in ManagerRecord /\ m.references \in Nat /\ NoRoute(m) \in ManagerRecord
  BY RoutesAssumption, ManagerWith DEF Counted, ManagerRecord, NoRoute
<1>2. CASE m.peer = p
  <2>1. new = [m EXCEPT !.references = m.references + 1]
    BY <1>2 DEF Activated
  <2>2. new \in ManagerRecord
    <3>1. m.references + 1 \in Nat
      BY <1>1
    <3>2. [m EXCEPT !.references = m.references + 1] \in ManagerRecord
      BY <1>1, <3>1, ManagerWith
    <3>3. QED BY <2>1, <3>2
  <2>3. new.peer = p /\ new.references = m.references + 1
    BY <1>1, <1>2, <2>1 DEF ManagerRecord
  <2>4. QED BY <1>1, <1>2, <2>2, <2>3 DEF Counted
<1>3. CASE m.peer # p /\ granted
  <2>1. new = [NoRoute(m) EXCEPT !.peer = p, !.references = 1, !.proxy = p]
    BY <1>3 DEF Activated
  <2>2. new \in ManagerRecord
    <3>1. [NoRoute(m) EXCEPT !.peer = p, !.references = 1, !.proxy = p] \in ManagerRecord
      BY <1>1, ManagerWith
    <3>2. QED BY <2>1, <3>1
  <2>3. new.peer = p /\ new.references = 1
    BY <1>1, <2>1 DEF ManagerRecord
  <2>4. Counted(new)
    BY <1>1, <2>2, <2>3 DEF Counted
  <2>5. QED BY <1>3, <2>3, <2>4
<1>4. CASE m.peer # p /\ ~granted
  <2>1. new = NoRoute(m) /\ NoRoute(m).peer = None /\ NoRoute(m).references = 0
    BY <1>1, <1>4 DEF Activated, NoRoute, ManagerRecord
  <2>2. QED BY <1>1, <2>1 DEF Counted
<1>5. QED BY <1>2, <1>3, <1>4

\* Nothing leaks when a release is matched by the leases that are left.
LEMMA ReleaseLeaksNothing ==
  ASSUME RoutesInv, RoutesTypeOK', NEW lease \in Peers \cup {None},
         manager' = Released(manager, lease),
         \A p \in Peers : LeasesOn(p) - (IF lease = p THEN 1 ELSE 0) <= LeasesOn(p)'
  PROVE  NoLeakedRoute'
<1>1. Counted(manager) /\ NoLeakedRoute
  BY DEF RoutesInv, RoutesTypeOK, Counted
<1>2. manager' \in ManagerRecord
  BY DEF RoutesTypeOK
<1> SUFFICES ASSUME NEW p \in Peers, manager'.peer = p
             PROVE  manager'.references <= LeasesOn(p)'
  BY <1>2 DEF NoLeakedRoute, LeasesOn, RoutesTo, DiallingOn, DeliveringOn, ManagerRecord
<1>3. p # None
  BY RoutesAssumption
<1>4. /\ manager.peer = p
      /\ manager'.references = IF lease = p THEN manager.references - 1
                               ELSE manager.references
  BY <1>1, <1>3, ReleasedManager
<1>5. manager.references <= LeasesOn(p) /\ manager.references \in Nat
  BY <1>1, <1>3, <1>4 DEF NoLeakedRoute, Counted, ManagerRecord
<1>6. LeasesOn(p) \in Nat /\ LeasesOn(p)' \in Nat
  BY LeasesFinite DEF RoutesInv
<1>7. QED BY <1>4, <1>5, <1>6

One(x, p) == IF x = p THEN 1 ELSE 0

\* A step of a job changes the leases of jobs by what it holds before and after.
LEMMA JobLeases ==
  ASSUME RoutesInv, NEW j \in Jobs, NEW r \in JobRecord, job' = [job EXCEPT ![j] = r],
         NEW p \in Peers
  PROVE  /\ Cardinality(DiallingOn(p)) \in Nat /\ Cardinality(DiallingOn(p)') \in Nat
         /\ Cardinality(DeliveringOn(p)) \in Nat /\ Cardinality(DeliveringOn(p)') \in Nat
         /\ Cardinality(DiallingOn(p)')
              = Cardinality(DiallingOn(p)) + One(r.candidate, p) - One(job[j].candidate, p)
         /\ Cardinality(DeliveringOn(p)')
              = Cardinality(DeliveringOn(p)) + One(r.lease, p) - One(job[j].lease, p)
<1>1. job \in [Jobs -> JobRecord]
  BY DEF RoutesInv, RoutesTypeOK
<1>2. /\ DiallingOn(p)' \ {j} = DiallingOn(p) \ {j}
      /\ j \in DiallingOn(p) <=> job[j].candidate = p
      /\ j \in DiallingOn(p)' <=> r.candidate = p
  BY <1>1 DEF DiallingOn
<1>3. /\ DeliveringOn(p)' \ {j} = DeliveringOn(p) \ {j}
      /\ j \in DeliveringOn(p) <=> job[j].lease = p
      /\ j \in DeliveringOn(p)' <=> r.lease = p
  BY <1>1 DEF DeliveringOn
<1>4. IsFiniteSet(DiallingOn(p)) /\ IsFiniteSet(DeliveringOn(p))
  <2>1. /\ IsFiniteSet(Jobs) /\ DiallingOn(p) \in SUBSET Jobs
        /\ DeliveringOn(p) \in SUBSET Jobs
    BY RoutesAssumption DEF DiallingOn, DeliveringOn
  <2>2. QED BY <2>1, FS_Subset
<1>5. PICK A, B : A = DiallingOn(p) /\ B = DiallingOn(p)'
  OBVIOUS
<1>6. PICK C, D : C = DeliveringOn(p) /\ D = DeliveringOn(p)'
  OBVIOUS
<1>7. /\ Cardinality(A) \in Nat /\ Cardinality(B) \in Nat
      /\ Cardinality(B) = Cardinality(A) + One(r.candidate, p) - One(job[j].candidate, p)
  BY <1>2, <1>4, <1>5, OneElement DEF One
<1>8. /\ Cardinality(C) \in Nat /\ Cardinality(D) \in Nat
      /\ Cardinality(D) = Cardinality(C) + One(r.lease, p) - One(job[j].lease, p)
  BY <1>3, <1>4, <1>6, OneElement DEF One
<1>9. QED BY <1>5, <1>6, <1>7, <1>8

\* The same for all leases of a peer, when only the job changes.
LEMMA JobCount ==
  ASSUME RoutesInv, NEW j \in Jobs, NEW r \in JobRecord, job' = [job EXCEPT ![j] = r],
         m_active_routes' = m_active_routes, releasing' = releasing, NEW p \in Peers
  PROVE  /\ LeasesOn(p) \in Nat
         /\ LeasesOn(p)' = LeasesOn(p) + One(r.candidate, p) + One(r.lease, p)
                             - One(job[j].candidate, p) - One(job[j].lease, p)
<1>1. RoutesTo(p)' = RoutesTo(p) /\ releasing'[p] = releasing[p]
  BY DEF RoutesTo
<1>2. Cardinality(RoutesTo(p)) \in Nat /\ releasing[p] \in Nat
  <2>1. IsFiniteSet(HostKeys) /\ RoutesTo(p) \in SUBSET HostKeys
    BY RoutesAssumption DEF RoutesTo
  <2>2. QED BY <2>1, FS_Subset, FS_CardinalityType DEF RoutesInv, RoutesTypeOK
<1>3. /\ Cardinality(DiallingOn(p)) \in Nat /\ Cardinality(DiallingOn(p)') \in Nat
      /\ Cardinality(DeliveringOn(p)) \in Nat /\ Cardinality(DeliveringOn(p)') \in Nat
      /\ Cardinality(DiallingOn(p)')
           = Cardinality(DiallingOn(p)) + One(r.candidate, p) - One(job[j].candidate, p)
      /\ Cardinality(DeliveringOn(p)')
           = Cardinality(DeliveringOn(p)) + One(r.lease, p) - One(job[j].lease, p)
  BY JobLeases
<1>4. /\ One(job[j].candidate, p) \in Nat /\ One(job[j].lease, p) \in Nat
      /\ One(r.candidate, p) \in Nat /\ One(r.lease, p) \in Nat
  BY DEF One
<1>5. /\ LeasesOn(p) = Cardinality(RoutesTo(p)) + Cardinality(DiallingOn(p))
                       + Cardinality(DeliveringOn(p)) + releasing[p]
      /\ LeasesOn(p)' = Cardinality(RoutesTo(p)) + Cardinality(DiallingOn(p)')
                        + Cardinality(DeliveringOn(p)') + releasing[p]
  BY <1>1 DEF LeasesOn
<1>6. QED BY <1>2, <1>3, <1>4, <1>5

\* What every step of a job keeps when the job it leaves is in shape.
LEMMA JobKeeps ==
  ASSUME RoutesInv, NEW j \in Jobs, NEW r \in JobRecord, Shaped(r),
         job' = [job EXCEPT ![j] = r], Counted(manager'), probing' \in BOOLEAN,
         UNCHANGED <<maps, releasing>>
  PROVE  RoutesTypeOK' /\ JobsShaped' /\ OwnRouteMatchesAddress'
<1>1. job' \in [Jobs -> JobRecord] /\ JobsShaped'
  BY DEF RoutesInv, RoutesTypeOK, JobsShaped
<1>2. RoutesTypeOK'
  BY <1>1 DEF RoutesInv, RoutesTypeOK, Counted, maps
<1>3. OwnRouteMatchesAddress'
  BY DEF RoutesInv, OwnRouteMatchesAddress, maps
<1>4. QED BY <1>1, <1>2, <1>3

\* A job that lets go of a lease releases it.
LEMMA JobStep ==
  ASSUME RoutesInv, NEW j \in Jobs, NEW r \in JobRecord, Shaped(r),
         job' = [job EXCEPT ![j] = r], NEW lease \in Peers \cup {None},
         manager' = Released(manager, lease),
         \A p \in Peers : One(job[j].candidate, p) + One(job[j].lease, p)
                          <= One(r.candidate, p) + One(r.lease, p) + One(lease, p),
         probing' \in BOOLEAN,
         UNCHANGED <<maps, releasing>>
  PROVE  RoutesInv'
<1>1. Counted(manager')
  BY ReleasedManager DEF RoutesInv, RoutesTypeOK, Counted
<1>2. RoutesTypeOK' /\ JobsShaped' /\ OwnRouteMatchesAddress'
  BY <1>1, JobKeeps
<1>3. ASSUME NEW p \in Peers
      PROVE  LeasesOn(p) - One(lease, p) <= LeasesOn(p)'
  <2>1. /\ LeasesOn(p) \in Nat
        /\ LeasesOn(p)' = LeasesOn(p) + One(r.candidate, p) + One(r.lease, p)
                            - One(job[j].candidate, p) - One(job[j].lease, p)
    BY JobCount DEF maps
  <2>2. /\ One(job[j].candidate, p) \in Nat /\ One(job[j].lease, p) \in Nat
        /\ One(r.candidate, p) \in Nat /\ One(r.lease, p) \in Nat /\ One(lease, p) \in Nat
        /\ One(job[j].candidate, p) + One(job[j].lease, p)
             <= One(r.candidate, p) + One(r.lease, p) + One(lease, p)
    BY DEF One
  <2>3. QED BY <2>1, <2>2
<1>4. NoLeakedRoute'
  BY <1>2, <1>3, ReleaseLeaksNothing DEF One
<1>5. QED BY <1>2, <1>4 DEF RoutesInv

\* A job that is over holds nothing.
LEMMA IdleShape ==
  /\ IdleJob \in JobRecord /\ Shaped(IdleJob)
  /\ IdleJob.candidate = None /\ IdleJob.lease = None
BY DEF IdleJob, JobRecord, Shaped

\* A job that has just started is in shape.
LEMMA FreshShape ==
  ASSUME NEW r \in JobRecord, r.pc = "acquire", r.candidate = None, r.lease = None,
         r.left # <<>>, r.kind # "probe" => r.key \in HostKeys
  PROVE  Shaped(r)
BY DEF Shaped

\* What a job holds, by where it is.
LEMMA JobFacts ==
  ASSUME RoutesInv, NEW j \in Jobs
  PROVE  /\ job[j] \in JobRecord /\ Shaped(job[j])
         /\ job[j].candidate \in Peers \cup {None} /\ job[j].lease \in Peers \cup {None}
         /\ job[j].pc # "dial" => job[j].candidate = None
         /\ job[j].pc # "deliver" => job[j].lease = None
         /\ manager = Released(manager, None)
<1>1. job[j] \in JobRecord /\ Shaped(job[j])
  BY DEF RoutesInv, RoutesTypeOK, JobsShaped
<1>2. job[j].candidate \in Peers \cup {None} /\ job[j].lease \in Peers \cup {None}
  BY <1>1 DEF JobRecord
<1>3. QED BY <1>1, <1>2 DEF Shaped, Released

\* A job starts: connect_to_addresses, wake_up_host, connectHost, or a probe.
LEMMA StartSteps ==
  ASSUME RoutesInv, NEW j \in Jobs,
         \/ \E k \in HostKeys : \/ \E kind \in {"connect", "wake"} : Connect(j, k, kind)
                                \/ ConnectFromAddHost(j, k)
         \/ \E a \in Addresses : CheckProbe(j, a)
  PROVE  RoutesInv'
<1>1. job[j].pc = "idle" /\ UNCHANGED <<manager, maps, releasing>> /\ probing' \in BOOLEAN
  BY DEF Connect, ConnectFromAddHost, CheckProbe, RoutesInv, RoutesTypeOK
<1>2. PICK r \in JobRecord : /\ Shaped(r) /\ r.candidate = None /\ r.lease = None
                             /\ job' = [job EXCEPT ![j] = r]
  <2> DEFINE Goal == \E r \in JobRecord : /\ Shaped(r) /\ r.candidate = None
                                          /\ r.lease = None /\ job' = [job EXCEPT ![j] = r]
  <2>1. \A k \in HostKeys : /\ ConnectionAddresses[k] \in Seq(Addresses)
                            /\ ConnectionAddresses[k] # <<>>
    BY RoutesAssumption
  <2>2. ASSUME NEW k \in HostKeys, NEW kind \in {"connect", "wake"}, Connect(j, k, kind)
        PROVE  Goal
    <3> DEFINE r == [IdleJob EXCEPT !.pc = "acquire", !.kind = kind, !.key = k,
                                    !.left = ConnectionAddresses[k]]
    <3>1. /\ r \in JobRecord /\ r.pc = "acquire" /\ r.candidate = None /\ r.lease = None
          /\ r.left # <<>> /\ r.key \in HostKeys
      BY <2>1, IdleShape DEF JobRecord
    <3>2. job' = [job EXCEPT ![j] = r]
      BY <2>2 DEF Connect
    <3> HIDE DEF r
    <3>3. QED BY <3>1, <3>2, FreshShape
  <2>3. ASSUME NEW k \in HostKeys, ConnectFromAddHost(j, k) PROVE Goal
    <3> DEFINE r == [IdleJob EXCEPT !.pc = "acquire", !.key = k,
                                    !.left = ConnectionAddresses[k]]
    <3>1. /\ r \in JobRecord /\ r.pc = "acquire" /\ r.candidate = None /\ r.lease = None
          /\ r.left # <<>> /\ r.key \in HostKeys
      BY <2>1, IdleShape DEF JobRecord
    <3>2. job' = [job EXCEPT ![j] = r]
      BY <2>3 DEF ConnectFromAddHost
    <3> HIDE DEF r
    <3>3. QED BY <3>1, <3>2, FreshShape
  <2>4. ASSUME NEW a \in Addresses, CheckProbe(j, a) PROVE Goal
    <3> DEFINE r == [IdleJob EXCEPT !.pc = "acquire", !.kind = "probe", !.left = <<a>>]
    <3>1. <<a>> \in Seq(Addresses) /\ <<a>> # <<>>
      OBVIOUS
    <3>2. /\ r \in JobRecord /\ r.pc = "acquire" /\ r.candidate = None /\ r.lease = None
          /\ r.left # <<>> /\ r.kind = "probe"
      BY <3>1, IdleShape DEF JobRecord
    <3>3. job' = [job EXCEPT ![j] = r]
      BY <2>4 DEF CheckProbe
    <3> HIDE DEF r
    <3>4. QED BY <3>2, <3>3, FreshShape
  <2>5. QED BY <2>2, <2>3, <2>4
<1>3. /\ job[j].candidate = None /\ job[j].lease = None
      /\ manager' = Released(manager, None) /\ None \in Peers \cup {None}
  BY <1>1, JobFacts
<1>4. \A p \in Peers : One(job[j].candidate, p) + One(job[j].lease, p)
                       <= One(r.candidate, p) + One(r.lease, p) + One(None, p)
  BY <1>2, <1>3 DEF One
<1>5. QED BY <1>1, <1>2, <1>3, <1>4, JobStep

\* acquireRouteFor finds no route.
LEMMA AcquireDirectStep ==
  ASSUME RoutesInv, NEW j \in Jobs, AcquireDirect(j)
  PROVE  RoutesInv'
<1> DEFINE r == [job[j] EXCEPT !.pc = "dial"]
<1>1. /\ job[j].pc = "acquire" /\ UNCHANGED <<manager, maps, releasing, probing>>
      /\ job[j] \in JobRecord /\ Shaped(job[j])
      /\ job[j].candidate = None /\ job[j].lease = None
      /\ manager' = Released(manager, None) /\ None \in Peers \cup {None}
  BY JobFacts DEF AcquireDirect
<1>2. job' = [job EXCEPT ![j] = r]
  BY DEF AcquireDirect
<1>3. r \in JobRecord
  BY <1>1 DEF JobRecord
<1>4. Shaped(r) /\ r.candidate = None /\ r.lease = None
  BY <1>1 DEF Shaped, JobRecord
<1>5. probing' \in BOOLEAN
  BY <1>1 DEF RoutesInv, RoutesTypeOK
<1> HIDE DEF r
<1>6. \A p \in Peers : One(job[j].candidate, p) + One(job[j].lease, p)
                       <= One(r.candidate, p) + One(r.lease, p) + One(None, p)
  <2>1. /\ job[j].candidate = None /\ job[j].lease = None
        /\ r.candidate = None /\ r.lease = None
    BY <1>1, <1>4
  <2>2. QED BY <2>1 DEF One
<1>7. QED BY <1>1, <1>2, <1>3, <1>4, <1>5, <1>6, JobStep

\* acquireRouteFor takes a reference together with the candidate lease.
LEMMA AcquireRouteStep ==
  ASSUME RoutesInv, NEW j \in Jobs, NEW granted \in BOOLEAN, AcquireRoute(j, granted)
  PROVE  RoutesInv'
<1> DEFINE p == PeerOf[Head(job[j].left)]
           held == IF manager.peer = p \/ granted THEN p ELSE None
           r == [job[j] EXCEPT !.pc = "dial", !.candidate = held]
<1>1. /\ job[j].pc = "acquire" /\ UNCHANGED <<maps, releasing, probing>>
      /\ job[j] \in JobRecord /\ Shaped(job[j]) /\ job[j].left # <<>>
      /\ job[j].candidate = None /\ job[j].lease = None
  BY JobFacts DEF AcquireRoute, Shaped
<1>2. Resolved(Head(job[j].left)) = p /\ p # None
  BY DEF AcquireRoute, Resolved
<1>3. job' = [job EXCEPT ![j] = r] /\ manager' = Activated(manager, p, granted)
  BY <1>2 DEF AcquireRoute
<1>4. p \in Peers
  <2>1. job[j].left \in Seq(Addresses)
    BY <1>1 DEF JobRecord
  <2>2. Head(job[j].left) \in Addresses
    BY <1>1, <2>1
  <2>3. QED BY <1>2, <2>2, RoutesAssumption
<1>5. Counted(manager) /\ probing' \in BOOLEAN
  BY <1>1 DEF RoutesInv, RoutesTypeOK, Counted
<1>6. held \in Peers \cup {None}
  BY <1>4
<1>7. r \in JobRecord
  BY <1>1, <1>6 DEF JobRecord
<1>8. r.candidate = held /\ r.lease = None /\ r.pc = "dial" /\ r.left = job[j].left
      /\ r.key = job[j].key /\ r.kind = job[j].kind
  BY <1>1 DEF JobRecord
<1>9. Shaped(r)
  BY <1>1, <1>8 DEF Shaped
<1> HIDE DEF r
<1>10. Counted(manager')
  BY <1>3, <1>4, <1>5, ActivatedManager
<1>11. RoutesTypeOK' /\ JobsShaped' /\ OwnRouteMatchesAddress'
  BY <1>1, <1>3, <1>5, <1>7, <1>9, <1>10, JobKeeps
<1>12. NoLeakedRoute'
  <2> SUFFICES ASSUME NEW q \in Peers, manager'.peer = q
               PROVE  manager'.references <= LeasesOn(q)'
    BY <1>10 DEF Counted, NoLeakedRoute, LeasesOn, RoutesTo, DiallingOn, DeliveringOn,
       ManagerRecord
  <2>1. q # None
    BY RoutesAssumption
  <2>2. /\ q = p /\ (manager.peer = p \/ granted)
        /\ manager'.references = IF manager.peer = p THEN manager.references + 1 ELSE 1
    BY <1>3, <1>4, <1>5, <2>1, ActivatedManager
  <2>3. /\ LeasesOn(q) \in Nat
        /\ LeasesOn(q)' = LeasesOn(q) + One(r.candidate, q) + One(r.lease, q)
                            - One(job[j].candidate, q) - One(job[j].lease, q)
    <3>1. UNCHANGED <<m_active_routes, releasing>>
      BY <1>1 DEF maps
    <3>2. QED BY <1>3, <1>7, <3>1, JobCount
  <2>4. /\ One(r.candidate, q) = 1 /\ One(r.lease, q) = 0
        /\ One(job[j].candidate, q) = 0 /\ One(job[j].lease, q) = 0
    BY <1>1, <1>8, <2>1, <2>2 DEF One
  <2>5. manager.peer = q => manager.references <= LeasesOn(q) /\ manager.references \in Nat
    BY <1>5, <2>1 DEF RoutesInv, NoLeakedRoute, Counted, ManagerRecord
  <2>6. QED BY <2>2, <2>3, <2>4, <2>5
<1>13. QED BY <1>11, <1>12 DEF RoutesInv

\* gs_init fails, or a probe ends: the candidate lease is destroyed.
LEMMA DropCandidate ==
  ASSUME RoutesInv, NEW j \in Jobs, DialFails(j) \/ FinishProbe(j)
  PROVE  RoutesInv'
<1>1. /\ job[j].pc = "dial" /\ manager' = Released(manager, job[j].candidate)
      /\ UNCHANGED <<maps, releasing>> /\ probing' \in BOOLEAN
  BY DEF DialFails, FinishProbe, RoutesInv, RoutesTypeOK
<1>2. /\ job[j] \in JobRecord /\ Shaped(job[j]) /\ job[j].left # <<>>
      /\ job[j].lease = None /\ job[j].candidate \in Peers \cup {None}
  BY <1>1, JobFacts DEF Shaped
<1>3. job[j].left \in Seq(Addresses) /\ Tail(job[j].left) \in Seq(Addresses)
  <2>1. job[j].left \in Seq(Addresses)
    BY <1>2 DEF JobRecord
  <2>2. QED BY <1>2, <2>1
<1>4. PICK r \in JobRecord : /\ Shaped(r) /\ r.candidate = None /\ r.lease = None
                             /\ job' = [job EXCEPT ![j] = r]
  <2> DEFINE Goal == \E r \in JobRecord : /\ Shaped(r) /\ r.candidate = None
                                          /\ r.lease = None /\ job' = [job EXCEPT ![j] = r]
             more == [job[j] EXCEPT !.pc = "acquire", !.left = Tail(job[j].left),
                                    !.candidate = None]
             again == [IdleJob EXCEPT !.pc = "acquire", !.kind = "wake", !.key = job[j].key,
                                      !.left = ConnectionAddresses[job[j].key]]
  <2>1. CASE job' = [job EXCEPT ![j] = IdleJob]
    BY <2>1, IdleShape
  <2>2. CASE job[j].kind # "probe" /\ Tail(job[j].left) # <<>> /\ job' = [job EXCEPT ![j] = more]
    <3>1. more \in JobRecord
      BY <1>2, <1>3 DEF JobRecord
    <3>2. /\ more.pc = "acquire" /\ more.candidate = None /\ more.lease = None
          /\ more.left # <<>> /\ more.key = job[j].key
      BY <1>2, <2>2 DEF JobRecord
    <3>3. more.key \in HostKeys
      BY <1>1, <1>2, <2>2, <3>2 DEF Shaped
    <3> HIDE DEF more
    <3>4. QED BY <2>2, <3>1, <3>2, <3>3, FreshShape
  <2>3. CASE job[j].kind # "probe" /\ job' = [job EXCEPT ![j] = again]
    <3>1. job[j].key \in HostKeys
      BY <1>1, <1>2, <2>3 DEF Shaped
    <3>2. /\ ConnectionAddresses[job[j].key] \in Seq(Addresses)
          /\ ConnectionAddresses[job[j].key] # <<>>
      BY <3>1, RoutesAssumption
    <3>3. /\ again \in JobRecord /\ again.pc = "acquire" /\ again.candidate = None
          /\ again.lease = None /\ again.left # <<>> /\ again.key \in HostKeys
      BY <3>1, <3>2, IdleShape DEF JobRecord
    <3> HIDE DEF again
    <3>4. QED BY <2>3, <3>3, FreshShape
  <2>4. QED BY <2>1, <2>2, <2>3 DEF DialFails, FinishProbe
<1>5. \A p \in Peers :
        One(job[j].candidate, p) + One(job[j].lease, p)
        <= One(r.candidate, p) + One(r.lease, p) + One(job[j].candidate, p)
  BY <1>2, <1>4 DEF One
<1>6. QED BY <1>1, <1>2, <1>4, <1>5, JobStep

\* gs_init succeeds: the candidate becomes the job's lease.
LEMMA DialSucceedsStep ==
  ASSUME RoutesInv, NEW j \in Jobs, DialSucceeds(j)
  PROVE  RoutesInv'
<1> DEFINE r == [job[j] EXCEPT !.pc = "deliver", !.candidate = None,
                               !.lease = job[j].candidate]
<1>1. /\ job[j].pc = "dial" /\ job[j].kind # "probe"
      /\ UNCHANGED <<manager, maps, releasing, probing>>
      /\ job[j] \in JobRecord /\ Shaped(job[j]) /\ job[j].candidate \in Peers \cup {None}
      /\ job[j].lease = None /\ manager' = Released(manager, None)
      /\ None \in Peers \cup {None}
  BY JobFacts DEF DialSucceeds
<1>2. job' = [job EXCEPT ![j] = r]
  BY DEF DialSucceeds
<1>3. r \in JobRecord
  BY <1>1 DEF JobRecord
<1>4. /\ r.candidate = None /\ r.lease = job[j].candidate /\ r.pc = "deliver"
      /\ r.left = job[j].left /\ r.key = job[j].key /\ r.kind = job[j].kind
  BY <1>1 DEF JobRecord
<1>5. Shaped(r)
  BY <1>1, <1>4 DEF Shaped
<1>6. probing' \in BOOLEAN
  BY <1>1 DEF RoutesInv, RoutesTypeOK
<1> HIDE DEF r
<1>7. \A p \in Peers : One(job[j].candidate, p) + One(job[j].lease, p)
                       <= One(r.candidate, p) + One(r.lease, p) + One(None, p)
  <2>1. job[j].lease = None /\ r.candidate = None /\ r.lease = job[j].candidate
    BY <1>1, <1>4
  <2>2. QED BY <2>1 DEF One
<1>8. QED BY <1>1, <1>2, <1>3, <1>5, <1>6, <1>7, JobStep

\* A delivery moves the job's lease into the map and releases what was there.
LEMMA DeliverStep ==
  ASSUME RoutesInv, NEW j \in Jobs, Deliver(j)
  PROVE  RoutesInv'
<1>1. /\ job[j] \in JobRecord /\ Shaped(job[j]) /\ job[j].pc = "deliver"
      /\ job[j].key \in HostKeys /\ job[j].left # <<>> /\ job[j].candidate = None
      /\ job[j].lease \in Peers \cup {None}
      /\ job[j].lease # None => PeerOf[Head(job[j].left)] = job[j].lease
  BY JobFacts DEF Deliver, Shaped
<1>2. PICK k \in HostKeys, new \in Peers \cup {None} : k = job[j].key /\ new = job[j].lease
  BY <1>1
<1>3. PICK a \in Addresses : a = Head(job[j].left)
  <2>1. job[j].left \in Seq(Addresses)
    BY <1>1 DEF JobRecord
  <2>2. QED BY <1>1, <2>1
<1>4. PICK old \in Peers \cup {None} : old = m_active_routes[k]
  BY DEF RoutesInv, RoutesTypeOK
<1>5. /\ manager' = Released(manager, old)
      /\ m_active_routes' = [m_active_routes EXCEPT ![k] = new]
      /\ job' = [job EXCEPT ![j] = IdleJob]
      /\ m_server_data' = m_server_data \cup {a}
      /\ UNCHANGED <<releasing, probing>>
  BY <1>2, <1>3, <1>4 DEF Deliver, ReleasedByAssignment, Assigned
<1>6. PICK usable \in BOOLEAN : m_active_addresses' = Cached(k, a, usable)
  BY <1>2, <1>3 DEF Deliver
<1>7. m_active_addresses \in [HostKeys -> Addresses \cup {None}]
  BY DEF RoutesInv, RoutesTypeOK
<1>8. /\ m_active_addresses' \in [HostKeys -> Addresses \cup {None}]
      /\ m_active_addresses'[k] = a
      /\ \A x \in HostKeys : x # k /\ x # MacKey[a] =>
           m_active_addresses'[x] = m_active_addresses[x]
  BY <1>6, <1>7 DEF Cached
<1>9. m_active_routes \in [HostKeys -> Peers \cup {None}] /\ job \in [Jobs -> JobRecord]
  BY DEF RoutesInv, RoutesTypeOK
<1>10. RoutesTypeOK'
  <2>1. Counted(manager')
    BY <1>5, ReleasedManager DEF RoutesInv, RoutesTypeOK, Counted
  <2>2. job' \in [Jobs -> JobRecord]
    BY <1>5, <1>9, IdleShape
  <2>3. QED BY <1>5, <1>8, <1>9, <2>1, <2>2 DEF RoutesInv, RoutesTypeOK, Counted
<1>11. JobsShaped'
  BY <1>5, <1>9, IdleShape DEF RoutesInv, JobsShaped
<1>12. OwnRouteMatchesAddress'
  <2> SUFFICES ASSUME NEW x \in HostKeys, \A b \in Addresses : MacKey[b] # x,
                      m_active_routes'[x] # None
               PROVE  /\ m_active_addresses'[x] # None
                      /\ PeerOf[m_active_addresses'[x]] = m_active_routes'[x]
    BY DEF OwnRouteMatchesAddress
  <2>1. CASE x = k
    <3>1. m_active_routes'[x] = new /\ m_active_addresses'[x] = a /\ a # None
      BY <1>5, <1>8, <1>9, <2>1, RoutesAssumption
    <3>2. PeerOf[a] = new
      BY <1>1, <1>2, <1>3, <3>1
    <3>3. QED BY <3>1, <3>2
  <2>2. CASE x # k
    <3>1. /\ m_active_routes'[x] = m_active_routes[x]
          /\ m_active_addresses'[x] = m_active_addresses[x]
      BY <1>5, <1>8, <1>9, <2>2
    <3>2. QED BY <3>1 DEF RoutesInv, OwnRouteMatchesAddress
  <2>3. QED BY <2>1, <2>2
<1>13. ASSUME NEW p \in Peers PROVE LeasesOn(p) - One(old, p) <= LeasesOn(p)'
  <2>1. /\ RoutesTo(p) \ {k} = RoutesTo(p)' \ {k}
        /\ k \in RoutesTo(p) <=> old = p
        /\ k \in RoutesTo(p)' <=> new = p
    BY <1>4, <1>5, <1>9 DEF RoutesTo
  <2>2. IsFiniteSet(RoutesTo(p))
    BY <1>10, LeasesFinite DEF RoutesInv
  <2>3. PICK A, B : A = RoutesTo(p) /\ B = RoutesTo(p)'
    OBVIOUS
  <2>4. /\ Cardinality(A) \in Nat /\ Cardinality(B) \in Nat
        /\ Cardinality(B) = Cardinality(A) + One(new, p) - One(old, p)
    BY <2>1, <2>2, <2>3, OneElement DEF One
  <2>5. /\ Cardinality(DiallingOn(p)) \in Nat /\ Cardinality(DiallingOn(p)') \in Nat
        /\ Cardinality(DeliveringOn(p)) \in Nat /\ Cardinality(DeliveringOn(p)') \in Nat
        /\ Cardinality(DiallingOn(p)') = Cardinality(DiallingOn(p))
              + One(IdleJob.candidate, p) - One(job[j].candidate, p)
        /\ Cardinality(DeliveringOn(p)') = Cardinality(DeliveringOn(p))
              + One(IdleJob.lease, p) - One(job[j].lease, p)
    BY <1>5, IdleShape, JobLeases
  <2>6. /\ One(IdleJob.candidate, p) = One(job[j].candidate, p)
        /\ One(job[j].lease, p) = One(new, p) /\ One(IdleJob.lease, p) = 0
        /\ One(new, p) \in Nat /\ One(old, p) \in Nat /\ One(job[j].candidate, p) \in Nat
    BY <1>1, <1>2, IdleShape, RoutesAssumption DEF One
  <2>7. releasing[p] \in Nat /\ releasing'[p] = releasing[p]
    BY <1>5 DEF RoutesInv, RoutesTypeOK
  <2>8. /\ LeasesOn(p) = Cardinality(A) + Cardinality(DiallingOn(p))
                         + Cardinality(DeliveringOn(p)) + releasing[p]
        /\ LeasesOn(p)' = Cardinality(B) + Cardinality(DiallingOn(p)')
                          + Cardinality(DeliveringOn(p)') + releasing[p]
    BY <2>3, <2>7 DEF LeasesOn
  <2>9. QED BY <2>4, <2>5, <2>6, <2>7, <2>8
<1>14. NoLeakedRoute'
  BY <1>5, <1>10, <1>13, ReleaseLeaksNothing DEF One
<1>15. QED BY <1>10, <1>11, <1>12, <1>14 DEF RoutesInv

\* A cancelled pairing moves the leases of its address; none is lost.
LEMMA CancelPairingStep ==
  ASSUME RoutesInv, NEW a \in Addresses, CancelPairing(a)
  PROVE  RoutesInv'
<1> DEFINE keys == {k \in HostKeys : m_active_addresses[k] = a}
           moved(p) == Cardinality({k \in keys : m_active_routes[k] = p})
<1>1. /\ releasing' = [p \in Peers |-> releasing[p] + moved(p)]
      /\ m_active_routes' = [k \in HostKeys |->
           IF k \in keys THEN None ELSE m_active_routes[k]]
      /\ m_active_addresses' = [k \in HostKeys |->
           IF k \in keys THEN None ELSE m_active_addresses[k]]
      /\ m_server_data' = m_server_data \ {a} /\ UNCHANGED <<manager, job, probing>>
  BY DEF CancelPairing, EraseAddress
<1>2. /\ m_active_routes \in [HostKeys -> Peers \cup {None}]
      /\ m_active_addresses \in [HostKeys -> Addresses \cup {None}]
      /\ releasing \in [Peers -> Nat]
  BY DEF RoutesInv, RoutesTypeOK
<1>3. ASSUME NEW p \in Peers
      PROVE  /\ RoutesTo(p)' = RoutesTo(p) \ keys /\ IsFiniteSet(RoutesTo(p))
             /\ moved(p) = Cardinality(RoutesTo(p) \cap keys) /\ moved(p) \in Nat
  <2>1. RoutesTo(p)' = RoutesTo(p) \ keys
    BY <1>1, RoutesAssumption DEF RoutesTo
  <2>2. {k \in keys : m_active_routes[k] = p} = RoutesTo(p) \cap keys
    BY DEF RoutesTo
  <2>3. IsFiniteSet(HostKeys) /\ RoutesTo(p) \in SUBSET HostKeys
    BY RoutesAssumption DEF RoutesTo
  <2>4. IsFiniteSet(RoutesTo(p)) /\ IsFiniteSet(RoutesTo(p) \cap keys)
    <3>1. RoutesTo(p) \cap keys \in SUBSET HostKeys
      BY <2>3
    <3>2. QED BY <2>3, <3>1, FS_Subset
  <2>5. QED BY <2>1, <2>2, <2>4, FS_CardinalityType
<1> HIDE DEF moved
<1>4. RoutesTypeOK'
  <2>1. releasing' \in [Peers -> Nat]
    <3>1. \A p \in Peers : moved(p) \in Nat
      BY <1>3
    <3>2. \A p \in Peers : releasing[p] + moved(p) \in Nat
      BY <1>2, <3>1
    <3>3. QED BY <1>1, <3>2
  <2>2. /\ m_active_routes' \in [HostKeys -> Peers \cup {None}]
        /\ m_active_addresses' \in [HostKeys -> Addresses \cup {None}]
    BY <1>1, <1>2
  <2>3. QED BY <1>1, <2>1, <2>2 DEF RoutesInv, RoutesTypeOK
<1>5. JobsShaped'
  BY <1>1 DEF RoutesInv, JobsShaped
<1>6. OwnRouteMatchesAddress'
  BY <1>1, <1>2 DEF RoutesInv, OwnRouteMatchesAddress
<1>7. ASSUME NEW p \in Peers PROVE LeasesOn(p) - One(None, p) <= LeasesOn(p)'
  <2>1. Cardinality(RoutesTo(p) \ keys) = Cardinality(RoutesTo(p)) - moved(p)
    <3>1. \A T : Cardinality(RoutesTo(p) \ T)
                 = Cardinality(RoutesTo(p)) - Cardinality(RoutesTo(p) \cap T)
      BY <1>3, FS_Difference
    <3>2. moved(p) = Cardinality(RoutesTo(p) \cap keys)
      BY <1>3
    <3> HIDE DEF keys
    <3>3. QED BY <3>1, <3>2
  <2>2. releasing'[p] = releasing[p] + moved(p) /\ releasing[p] \in Nat /\ moved(p) \in Nat
    BY <1>1, <1>2, <1>3
  <2>3. DiallingOn(p)' = DiallingOn(p) /\ DeliveringOn(p)' = DeliveringOn(p)
    BY <1>1 DEF DiallingOn, DeliveringOn
  <2>4. /\ Cardinality(DiallingOn(p)) \in Nat /\ Cardinality(DeliveringOn(p)) \in Nat
        /\ Cardinality(RoutesTo(p)) \in Nat
    BY <1>4, LeasesFinite, FS_CardinalityType DEF RoutesInv
  <2>5. One(None, p) = 0
    BY RoutesAssumption DEF One
  <2>6. /\ LeasesOn(p) = Cardinality(RoutesTo(p)) + Cardinality(DiallingOn(p))
                         + Cardinality(DeliveringOn(p)) + releasing[p]
        /\ LeasesOn(p)' = Cardinality(RoutesTo(p) \ keys) + Cardinality(DiallingOn(p))
                          + Cardinality(DeliveringOn(p)) + releasing'[p]
    BY <1>3, <2>3 DEF LeasesOn
  <2>7. QED BY <2>1, <2>2, <2>4, <2>5, <2>6
<1>8. manager' = Released(manager, None)
  BY <1>1 DEF Released
<1>9. NoLeakedRoute'
  BY <1>4, <1>7, <1>8, ReleaseLeaksNothing DEF One
<1>10. QED BY <1>4, <1>5, <1>6, <1>9 DEF RoutesInv

\* A worker destroys a moved lease and gives its reference back.
LEMMA ReleaseMovedStep ==
  ASSUME RoutesInv, NEW q \in Peers, ReleaseMoved(q)
  PROVE  RoutesInv'
<1>1. /\ manager' = Released(manager, q) /\ releasing' = [releasing EXCEPT ![q] = @ - 1]
      /\ releasing[q] > 0 /\ UNCHANGED <<maps, job, probing>>
  BY DEF ReleaseMoved
<1>2. releasing \in [Peers -> Nat]
  BY DEF RoutesInv, RoutesTypeOK
<1>3. RoutesTypeOK'
  <2>1. Counted(manager')
    BY <1>1, ReleasedManager DEF RoutesInv, RoutesTypeOK, Counted
  <2>2. releasing' \in [Peers -> Nat]
    BY <1>1, <1>2
  <2>3. QED BY <1>1, <2>1, <2>2 DEF RoutesInv, RoutesTypeOK, Counted, maps
<1>4. JobsShaped' /\ OwnRouteMatchesAddress'
  BY <1>1 DEF RoutesInv, JobsShaped, OwnRouteMatchesAddress, maps
<1>5. ASSUME NEW p \in Peers PROVE LeasesOn(p) - One(q, p) <= LeasesOn(p)'
  <2>1. /\ RoutesTo(p)' = RoutesTo(p) /\ DiallingOn(p)' = DiallingOn(p)
        /\ DeliveringOn(p)' = DeliveringOn(p)
    BY <1>1 DEF RoutesTo, DiallingOn, DeliveringOn, maps
  <2>2. /\ Cardinality(DiallingOn(p)) \in Nat /\ Cardinality(DeliveringOn(p)) \in Nat
        /\ Cardinality(RoutesTo(p)) \in Nat
    BY <1>3, LeasesFinite, FS_CardinalityType DEF RoutesInv
  <2>3. releasing'[p] = releasing[p] - One(q, p) /\ releasing[p] \in Nat /\ One(q, p) \in Nat
    BY <1>1, <1>2 DEF One
  <2>4. /\ LeasesOn(p) = Cardinality(RoutesTo(p)) + Cardinality(DiallingOn(p))
                         + Cardinality(DeliveringOn(p)) + releasing[p]
        /\ LeasesOn(p)' = Cardinality(RoutesTo(p)) + Cardinality(DiallingOn(p))
                          + Cardinality(DeliveringOn(p)) + releasing'[p]
    BY <2>1 DEF LeasesOn
  <2>5. QED BY <2>2, <2>3, <2>4
<1>6. NoLeakedRoute'
  BY <1>1, <1>3, <1>5, ReleaseLeaksNothing DEF One
<1>7. QED BY <1>3, <1>4, <1>6 DEF RoutesInv

\* The other steps move no lease; a provider stop leaves no route to count.
LEMMA ManagerSteps ==
  ASSUME RoutesInv,
         \/ StopProvider \/ StartProvider \/ OpenAddHost \/ LeaveAddHost
         \/ \E a \in Addresses, prepared \in BOOLEAN : PrepareStream(a, prepared)
         \/ UNCHANGED routesVars
  PROVE  RoutesInv'
<1>1. UNCHANGED <<maps, job, releasing>> /\ probing' \in BOOLEAN
  BY DEF StopProvider, StartProvider, OpenAddHost, LeaveAddHost, PrepareStream, routesVars,
     RoutesInv, RoutesTypeOK
<1>2. /\ Counted(manager')
      /\ manager'.peer # None => /\ manager'.peer = manager.peer
                                 /\ manager'.references = manager.references
  <2>1. Counted(manager)
    BY DEF RoutesInv, RoutesTypeOK, Counted
  <2>2. CASE StopProvider
    <3>1. manager' = [NoRoute(manager) EXCEPT !.running = FALSE]
      BY <2>2 DEF StopProvider
    <3>2. NoRoute(manager) \in ManagerRecord
      BY <2>1, ManagerWith DEF Counted, NoRoute
    <3>3. NoRoute(manager).peer = None /\ NoRoute(manager).references = 0
      BY <2>1 DEF Counted, ManagerRecord, NoRoute
    <3>4. manager' \in ManagerRecord /\ manager'.peer = None /\ manager'.references = 0
      BY <3>1, <3>2, <3>3 DEF ManagerRecord
    <3>5. QED BY <3>4 DEF Counted
  <2>3. CASE StartProvider
    <3>1. manager' = [manager EXCEPT !.running = TRUE] /\ manager \in ManagerRecord
      BY <2>1, <2>3 DEF StartProvider, Counted
    <3>2. /\ manager' \in ManagerRecord /\ manager'.peer = manager.peer
          /\ manager'.references = manager.references
      BY <3>1 DEF ManagerRecord
    <3>3. QED BY <2>1, <3>2 DEF Counted
  <2>4. ASSUME NEW a \in Addresses, NEW prepared \in BOOLEAN, PrepareStream(a, prepared)
        PROVE  /\ manager' \in ManagerRecord /\ manager'.peer = manager.peer
               /\ manager'.references = manager.references
    <3>1. manager' \in {manager, [manager EXCEPT !.relays = PeerOf[a]]}
      BY <2>4 DEF PrepareStream
    <3>2. PeerOf[a] \in Peers \cup {None} /\ manager \in ManagerRecord
      BY <2>1, RoutesAssumption DEF Counted
    <3>3. QED BY <3>1, <3>2 DEF ManagerRecord
  <2>5. CASE OpenAddHost \/ LeaveAddHost \/ UNCHANGED routesVars
    BY <2>1, <2>5 DEF OpenAddHost, LeaveAddHost, routesVars
  <2>6. CASE \E a \in Addresses, prepared \in BOOLEAN : PrepareStream(a, prepared)
    BY <2>1, <2>4, <2>6 DEF Counted
  <2>7. QED BY <2>2, <2>3, <2>5, <2>6
<1>3. RoutesTypeOK'
  BY <1>1, <1>2 DEF RoutesInv, RoutesTypeOK, Counted, maps
<1>4. JobsShaped' /\ OwnRouteMatchesAddress'
  BY <1>1 DEF RoutesInv, JobsShaped, OwnRouteMatchesAddress, maps
<1>5. NoLeakedRoute'
  BY <1>1, <1>2 DEF RoutesInv, NoLeakedRoute, LeasesOn, RoutesTo, DiallingOn, DeliveringOn,
     maps
<1>6. QED BY <1>3, <1>4, <1>5 DEF RoutesInv

\* RoutesInv is an invariant of the client.
THEOREM RoutesInvariant == RoutesSpec => []RoutesInv
<1>1. RoutesInit => RoutesInv
  <2> SUFFICES ASSUME RoutesInit PROVE RoutesInv
    OBVIOUS
  <2>1. JobsShaped /\ job \in [Jobs -> JobRecord]
    BY IdleShape DEF RoutesInit, JobsShaped
  <2>2. manager \in ManagerRecord /\ manager.peer = None /\ manager.references = 0
    BY DEF RoutesInit, ManagerRecord
  <2>3. RoutesTypeOK
    BY <2>1, <2>2 DEF RoutesInit, RoutesTypeOK
  <2>4. NoLeakedRoute /\ OwnRouteMatchesAddress
    BY <2>2 DEF RoutesInit, NoLeakedRoute, OwnRouteMatchesAddress
  <2>5. QED BY <2>1, <2>3, <2>4 DEF RoutesInv
<1>2. RoutesInv /\ [RoutesNext]_routesVars => RoutesInv'
  <2> SUFFICES ASSUME RoutesInv, [RoutesNext]_routesVars PROVE RoutesInv'
    OBVIOUS
  <2>1. ASSUME NEW j \in Jobs, Step(j) PROVE RoutesInv'
    BY <2>1, AcquireDirectStep, AcquireRouteStep, DropCandidate, DialSucceedsStep,
       DeliverStep DEF Step
  <2>2. ASSUME NEW j \in Jobs,
               \/ \E k \in HostKeys :
                    \/ \E kind \in {"connect", "wake"} : Connect(j, k, kind)
                    \/ ConnectFromAddHost(j, k)
               \/ \E a \in Addresses : CheckProbe(j, a)
        PROVE  RoutesInv'
    BY <2>2, StartSteps
  <2>3. ASSUME NEW a \in Addresses, CancelPairing(a) PROVE RoutesInv'
    BY <2>3, CancelPairingStep
  <2>4. ASSUME NEW p \in Peers, ReleaseMoved(p) PROVE RoutesInv'
    BY <2>4, ReleaseMovedStep
  <2>5. CASE \/ StopProvider \/ StartProvider \/ OpenAddHost \/ LeaveAddHost
             \/ \E a \in Addresses, prepared \in BOOLEAN : PrepareStream(a, prepared)
             \/ UNCHANGED routesVars
    BY <2>5, ManagerSteps
  <2>6. QED BY <2>1, <2>2, <2>3, <2>4, <2>5 DEF RoutesNext
<1>3. QED BY <1>1, <1>2, PTL DEF RoutesSpec

\* Every variable of the client keeps its type, and the manager counts
\* references exactly while it has a route.
THEOREM RoutesTypes == RoutesSpec => []RoutesTypeOK
<1>1. RoutesInv => RoutesTypeOK
  BY DEF RoutesInv
<1>2. QED BY <1>1, RoutesInvariant, PTL

\* The manager never counts more references than there are leases that will
\* release them.
THEOREM NoRouteLeaks == RoutesSpec => []NoLeakedRoute
<1>1. RoutesInv => NoLeakedRoute
  BY DEF RoutesInv
<1>2. QED BY <1>1, RoutesInvariant, PTL

\* A host without a known MAC holds only the tunnel of its active address.
THEOREM OwnRouteMatches == RoutesSpec => []OwnRouteMatchesAddress
<1>1. RoutesInv => OwnRouteMatchesAddress
  BY DEF RoutesInv
<1>2. QED BY <1>1, RoutesInvariant, PTL
=============================================================================
