---------------------------- MODULE StreamSession ----------------------------
(***************************************************************************)
(* The life of a streaming session: StreamingView on the UI thread, the    *)
(* MoonlightSession it owns, the asynchronous start of a session (launch   *)
(* on the host, then LiStartConnection), the Limelight callbacks that find *)
(* the session through the global m_active_session, and the decoder that   *)
(* restarts the session after an error.                                    *)
(*                                                                         *)
(* The UI thread runs one handler or completion at a time; stop and the    *)
(* destructor take it several steps, between which pool workers, Limelight *)
(* threads and the decode thread run.  A Limelight callback loads          *)
(* m_active_session anew in each of its statements, and may use what it    *)
(* loaded after the pointer is cleared or the session deleted.             *)
(*                                                                         *)
(* LiStopConnection waits for the decode thread to leave its callback.     *)
(* Called by the decode thread itself, as the decoder's restart does, it   *)
(* may return or wait for ever: both are possible here.                    *)
(*                                                                         *)
(* Session number n belongs to the n-th StreamingView; a view is destroyed *)
(* before the next one opens.  A use of a deleted session is undefined:    *)
(* the program crashes or continues with the stale memory.                 *)
(***************************************************************************)
EXTENDS Naturals, FiniteSets

CONSTANTS MaxSessions,     \* bound on the views opened
          Starts,          \* cells for starts in progress
          IsSunshine,      \* m_is_sunshine of the host
          Workers,         \* threads in LiStartConnection that report the start
          Receiver,        \* the thread that reports a lost connection
          NoSession

ASSUME SessionAssumption ==
  /\ MaxSessions \in Nat /\ IsSunshine \in BOOLEAN /\ NoSession \notin Nat
  /\ IsFiniteSet(Starts) /\ Receiver \notin Workers

VARIABLES
  opened,                  \* number of views opened; the session of the last
  view,                    \* the last StreamingView
  m_active_session,
  m_is_active, m_is_terminated,            \* sessions with the flag set
  m_restart_in_progress, m_stop_requested,
  start,                   \* MoonlightSession::start calls in progress
  link,                    \* the Limelight connection
  hostApp,                 \* the host runs the app
  quits,                   \* asynchronous quit requests in flight
  callback,                \* threads in connection_started (the workers) and
                           \* in connection_terminated (the receiver)
  decoder,                 \* the thread in submit_decode_unit
  cancelled,               \* ghost: the last stop cancelled the host app
  exiting,                 \* the main loop ended
  crashed                  \* "no", or what was dereferenced

flags == <<m_is_active, m_is_terminated, m_restart_in_progress,
           m_stop_requested>>
host == <<hostApp, quits, cancelled>>
threads == <<callback, decoder>>
vars == <<opened, view, m_active_session, flags, start, link, host, threads,
          exiting, crashed>>

Sessions == 1..MaxSessions
Callbacks == Workers \cup {Receiver}
NoStart == [pc |-> "idle", session |-> NoSession, kind |-> "view", ok |-> FALSE]
NoCall == [at |-> "return", ptr |-> NoSession, seen |-> FALSE]
NoDecode == [pc |-> "idle", ptr |-> NoSession]
NoView == [pc |-> "closed", ui |-> "idle", deleting |-> FALSE, terminated |-> FALSE,
           teardown |-> "no", pendingTeardownTerminateApp |-> FALSE,
           pendingSuspendTerminate |-> FALSE]

Init ==
  /\ opened = 0 /\ view = NoView /\ m_active_session = NoSession
  /\ m_is_active = {} /\ m_is_terminated = {}
  /\ m_restart_in_progress = {} /\ m_stop_requested = {}
  /\ start = [i \in Starts |-> NoStart]
  /\ link = "down" /\ hostApp = FALSE /\ quits = 0 /\ cancelled = FALSE
  /\ callback = [c \in Callbacks |-> NoCall] /\ decoder = NoDecode
  /\ exiting = FALSE /\ crashed = "no"

Deleted(s) == s < opened \/ view.pc = "closed"
FreeStarts == {i \in Starts : start[i].pc = "idle"}
NextStart == CHOOSE i \in FreeStarts : TRUE     \* which cell does not matter

Running == crashed = "no"

\* The UI thread is in its main loop.
UiFree == Running /\ view.ui = "idle" /\ ~exiting
\* The view exists and the UI thread is in its main loop.
ViewUp == UiFree /\ view.pc # "closed"

\* A thread touches the memory of session s.
Touch(s) == crashed' \in (IF Deleted(s) THEN {"no", "freed"} ELSE {"no"})

-----------------------------------------------------------------------------
(* MoonlightSession.                                                       *)

\* start: the flags are reset and the launch goes to a pool worker.
Begin(s, kind) ==
  /\ FreeStarts # {}
  /\ m_stop_requested' = m_stop_requested \ {s}
  /\ m_is_terminated' = m_is_terminated \ {s}
  /\ start' = [start EXCEPT ![NextStart] = [pc |-> "launch", session |-> s,
                                            kind |-> kind, ok |-> FALSE]]

\* stop: a repeated stop returns at once (DestroyView tests for it, the other
\* callers are the session's first).
BeginStop(s) ==
  /\ m_stop_requested' = m_stop_requested \cup {s}
  /\ m_restart_in_progress' = m_restart_in_progress \ {s}

\* Mutant: the pointer is left to the destructor.
KeepPublished(a) == a

\* m_active_session after stop, which clears it "as early as possible".
UnpublishedByStop(a) == NoSession

Unpublish ==
  /\ Running /\ view.ui = "clear"
  /\ view' = [view EXCEPT !.ui = "quit"]
  /\ m_active_session' = UnpublishedByStop(m_active_session)
  /\ UNCHANGED <<opened, flags, start, link, host, threads, exiting, crashed>>

\* The terminate_app that stop is called with: the teardown's decision, and
\* otherwise a termination.
TerminateApp == view.teardown = "done" => view.pendingTeardownTerminateApp

Quit ==
  /\ Running /\ view.ui = "quit"
  /\ view' = [view EXCEPT !.ui = "stop"]
  /\ \/ /\ TerminateApp         \* quitNow answers
        /\ hostApp' = FALSE /\ cancelled' = TRUE
        /\ UNCHANGED quits
     \/ /\ TerminateApp         \* quitNow fails
        /\ UNCHANGED <<hostApp, quits, cancelled>>
     \/ /\ ~TerminateApp        \* Sunshine gets an asynchronous quit
        /\ quits' = IF IsSunshine THEN quits + 1 ELSE quits
        /\ UNCHANGED <<hostApp, cancelled>>
  /\ UNCHANGED <<opened, m_active_session, flags, start, link, threads, exiting,
                 crashed>>

\* LiStopConnection joins the decode thread and returns to the UI thread.
StopReturns ==
  /\ Running /\ view.ui = "stop" /\ decoder.pc = "idle"
  /\ link' = "down"
  /\ view' = [view EXCEPT !.ui = IF view.deleting THEN "members" ELSE "idle"]
  /\ UNCHANGED <<opened, m_active_session, flags, start, host, threads, exiting,
                 crashed>>

\* The destructor deletes the decoder and the renderers ...
DeleteMembers ==
  /\ Running /\ view.ui = "members"
  /\ view' = [view EXCEPT !.ui = "memory"]
  /\ UNCHANGED <<opened, m_active_session, flags, start, link, host, threads,
                 exiting, crashed>>

\* ... and clears the pointer last; then the memory goes.
DeleteSession ==
  /\ Running /\ view.ui = "memory"
  /\ view' = NoView /\ m_active_session' = NoSession
  /\ UNCHANGED <<opened, flags, start, link, host, threads, exiting, crashed>>

RunQuit ==
  /\ Running /\ quits > 0
  /\ quits' = quits - 1
  /\ hostApp' \in {FALSE, hostApp}
  /\ UNCHANGED <<opened, view, m_active_session, flags, start, link, cancelled,
                 threads, exiting, crashed>>

\* "if (active_session_ptr()) active_session_ptr()->flag = true" for flag F.
Mark(F) == IF m_active_session = NoSession THEN F ELSE F \cup {m_active_session}

IgnoreReconnectFailure(kind, connected) == FALSE

\* Does the failure of a start mark the active session terminated?  A failed
\* LiStartConnection always does, a failed launch only for a restart.
MarksDead(kind, connected) == connected \/ kind = "restart"

-----------------------------------------------------------------------------
(* StreamingView on the UI thread.                                         *)

\* terminate: once; the teardown runs from a delayed task.  draw no longer looks
\* at a pending suspend.
Terminated(v, terminateApp) ==
  IF v.terminated THEN v
  ELSE [v EXCEPT !.terminated = TRUE, !.teardown = "scheduled",
                 !.pendingTeardownTerminateApp = terminateApp,
                 !.pendingSuspendTerminate = FALSE]

OpenView ==
  /\ UiFree /\ view.pc = "closed" /\ opened < MaxSessions
  /\ opened' = opened + 1
  /\ view' = [NoView EXCEPT !.pc = "connecting"]
  /\ m_active_session' = opened + 1
  /\ cancelled' = FALSE
  /\ UNCHANGED <<flags, start, link, hostApp, quits, threads, exiting, crashed>>

\* The completion of GameStreamClient::connect; the view may be terminated.
ConnectSucceeds ==
  /\ ViewUp /\ view.pc = "connecting"
  /\ Begin(opened, "view")
  /\ view' = [view EXCEPT !.pc = "open"]
  /\ UNCHANGED <<opened, m_active_session, m_is_active, m_restart_in_progress,
                 link, host, threads, exiting, crashed>>

ConnectFails ==
  /\ ViewUp /\ view.pc = "connecting"
  /\ view' = [Terminated(view, FALSE) EXCEPT !.pc = "open"]
  /\ UNCHANGED <<opened, m_active_session, flags, start, link, host, threads,
                 exiting, crashed>>

\* Overlay buttons: Disconnect follows the setting, Terminate cancels.
UserTerminates(terminateApp) ==
  /\ ViewUp /\ ~view.terminated
  /\ view' = Terminated(view, terminateApp)
  /\ UNCHANGED <<opened, m_active_session, flags, start, link, host, threads,
                 exiting, crashed>>

FocusLost ==
  /\ ViewUp /\ ~view.terminated
  /\ view' = [view EXCEPT !.pendingSuspendTerminate = TRUE]
  /\ UNCHANGED <<opened, m_active_session, flags, start, link, host, threads,
                 exiting, crashed>>

SuspendOnly(v) ==
  IF v.pendingSuspendTerminate
  THEN Terminated(v, TRUE) ELSE v

\* What draw does to the view before it presents a frame.
Drawn(v) ==
  IF v.pendingSuspendTerminate
  THEN Terminated(v, TRUE)
  ELSE IF opened \in m_is_terminated THEN Terminated(v, FALSE) ELSE v

Draw ==
  /\ ViewUp /\ ~view.terminated
  /\ view.pendingSuspendTerminate \/ opened \in m_is_terminated
  /\ view' = Drawn(view)
  /\ UNCHANGED <<opened, m_active_session, flags, start, link, host, threads,
                 exiting, crashed>>

\* finishTeardown calls stop.
FinishTeardown ==
  /\ ViewUp /\ view.teardown = "scheduled"
  /\ view' = [view EXCEPT !.teardown = "done", !.ui = "clear"]
  /\ BeginStop(opened)
  /\ UNCHANGED <<opened, m_active_session, m_is_active, m_is_terminated, start,
                 link, host, threads, exiting, crashed>>

\* The window closes: the session is stopped before the main loop ends.
WindowShouldClose ==
  /\ ViewUp
  /\ exiting' = TRUE
  /\ IF view.terminated
     THEN UNCHANGED <<view, m_restart_in_progress, m_stop_requested>>
     ELSE /\ view' = [view EXCEPT !.terminated = TRUE, !.ui = "clear",
                                  !.pendingTeardownTerminateApp = TRUE,
                                  !.pendingSuspendTerminate = FALSE]
          /\ BeginStop(opened)
  /\ UNCHANGED <<opened, m_active_session, m_is_active, m_is_terminated, start,
                 link, host, threads, crashed>>

\* ~StreamingView, after the dismissal or in Application::clear: stop returns
\* at once when it was requested and no later start took the request back.
DestroyView ==
  /\ Running /\ view.pc # "closed" /\ view.ui = "idle"
  /\ exiting \/ view.teardown = "done"
  /\ IF opened \in m_stop_requested
     THEN /\ view' = [view EXCEPT !.deleting = TRUE, !.ui = "members"]
          /\ UNCHANGED <<m_restart_in_progress, m_stop_requested>>
     ELSE /\ view' = [view EXCEPT !.deleting = TRUE, !.ui = "clear"]
          /\ BeginStop(opened)
  /\ UNCHANGED <<opened, m_active_session, m_is_active, m_is_terminated, start,
                 link, host, threads, exiting, crashed>>

-----------------------------------------------------------------------------
(* A start in progress.                                                    *)

\* gs_start_app and the preparation of the remote route, on a worker: the app
\* may run although the result is a failure.
Launch(i, runs, ok) ==
  /\ Running /\ start[i].pc = "launch" /\ (ok => runs)
  /\ hostApp' = (hostApp \/ runs)
  /\ start' = [start EXCEPT ![i].pc = "launched", ![i].ok = ok]
  /\ UNCHANGED <<opened, view, m_active_session, flags, link, quits, cancelled,
                 threads, exiting, crashed>>

\* A failure reaches the callback given to start: the view's, if the view still
\* exists, or the one of restart.
Fails(i, connected) ==
  LET r == start[i]
      dead == MarksDead(r.kind, connected)
  IN
  /\ start' = [start EXCEPT ![i] = NoStart]
  /\ view' = IF r.kind = "view" /\ ~Deleted(r.session) THEN Terminated(view, FALSE)
             ELSE view
  /\ m_is_active' = IF dead THEN m_is_active \ {m_active_session}
                    ELSE m_is_active
  /\ m_is_terminated' = IF dead THEN Mark(m_is_terminated) ELSE m_is_terminated
  /\ m_restart_in_progress' = IF r.kind = "restart"
                              THEN m_restart_in_progress \ {m_active_session}
                              ELSE m_restart_in_progress

\* The completion of the launch on the UI thread stores the configuration in
\* the session and hands the connection to a worker.
Launched(i) ==
  /\ UiFree /\ start[i].pc = "launched"
  /\ IF start[i].ok
     THEN /\ Touch(start[i].session)
          /\ start' = [start EXCEPT ![i].pc = "connect"]
          /\ UNCHANGED <<view, flags>>
     ELSE Fails(i, FALSE) /\ UNCHANGED <<crashed, m_stop_requested>>
  /\ UNCHANGED <<opened, m_active_session, link, host, threads, exiting>>

\* The worker takes the configuration and the callback tables from the session,
\* and LiStartConnection is up and calls connection_started.  The completion
\* that follows a success changes nothing, so the start ends here.
Dialed(i, w) ==
  /\ Running /\ start[i].pc = "connect" /\ callback[w].at = "return"
  /\ Touch(start[i].session)
  /\ link' = "up"
  /\ start' = [start EXCEPT ![i] = NoStart]
  /\ callback' = [callback EXCEPT ![w].at = "started"]
  /\ UNCHANGED <<opened, view, m_active_session, flags, host, decoder, exiting>>

\* LiStartConnection fails, and its completion waits for the UI thread ...
LinkFails(i) ==
  /\ Running /\ start[i].pc = "connect"
  /\ Touch(start[i].session)
  /\ start' = [start EXCEPT ![i].pc = "failed"]
  /\ UNCHANGED <<opened, view, m_active_session, flags, link, host, threads, exiting>>

\* ... and runs there.
LinkFailed(i) ==
  /\ UiFree /\ start[i].pc = "failed"
  /\ Fails(i, TRUE)
  /\ UNCHANGED <<opened, m_active_session, m_stop_requested, link, host,
                 threads, exiting, crashed>>

-----------------------------------------------------------------------------
(* Limelight threads.                                                      *)

\* The connection is lost: a thread calls connection_terminated.
ConnectionLost ==
  /\ Running /\ link = "up" /\ callback[Receiver].at = "return"
  /\ link' = "lost"
  /\ callback' = [callback EXCEPT ![Receiver].at = "terminated"]
  /\ UNCHANGED <<opened, view, m_active_session, flags, start, host, decoder,
                 exiting, crashed>>

\* The entry of a callback: "if (!active_session_ptr()) return".
TestActive(c) ==
  /\ Running /\ callback[c].at \in {"started", "terminated"}
  /\ callback' = [callback EXCEPT ![c] =
       IF m_active_session = NoSession THEN NoCall
       ELSE [at |-> IF callback[c].at = "started" THEN "allow" ELSE "readStop",
             ptr |-> m_active_session, seen |-> FALSE]]
  /\ UNCHANGED <<opened, view, m_active_session, flags, start, link, host, decoder,
                 exiting, crashed>>

\* connectionTerminatedAction: FALSE is MarkInactiveForRestart.
MarkTerminated(stopRequested, restartInProgress) ==
  stopRequested \/ ~restartInProgress

\* The statements of connection_started, and those of connection_terminated.
StartedStatements == {"allow", "activate", "restarted"}
TerminatedStatements == {"readStop", "readRestart", "deactivate", "terminate"}
Statements == StartedStatements \cup TerminatedStatements

\* The statement after statement a, when the last read gave v.
Following(a, v) ==
  CASE a = "allow" -> "activate"
    [] a = "activate" -> "restarted"
    [] a = "readStop" -> "readRestart"
    [] a = "readRestart" -> "deactivate"
    [] a = "deactivate" -> IF v THEN "terminate" ELSE "return"
    [] a \in {"restarted", "terminate"} -> "return"

\* A statement of a callback: it loads m_active_session and reads or writes a
\* flag of the session it loaded.  The load may be of any moment since the
\* statement before, so it gives what was published then or what is now.
UseActive(c, s) ==
  LET a == callback[c].at
      v == CASE a = "readStop" -> s \in m_stop_requested
             [] a = "readRestart" ->
                  MarkTerminated(callback[c].seen, s \in m_restart_in_progress)
             [] OTHER -> callback[c].seen
  IN
  /\ Running /\ a \in Statements /\ s # NoSession /\ Touch(s)
  /\ s \in {callback[c].ptr, m_active_session}
  /\ m_stop_requested' = IF a = "allow" THEN m_stop_requested \ {s}
                         ELSE m_stop_requested
  /\ m_is_active' = CASE a = "activate" -> m_is_active \cup {s}
                      [] a = "deactivate" -> m_is_active \ {s}
                      [] OTHER -> m_is_active
  /\ m_restart_in_progress' = IF a = "restarted" THEN m_restart_in_progress \ {s}
                              ELSE m_restart_in_progress
  /\ m_is_terminated' = IF a = "terminate" THEN m_is_terminated \cup {s}
                        ELSE m_is_terminated
  /\ callback' = [callback EXCEPT ![c] =
       IF Following(a, v) = "return" THEN NoCall
       ELSE [at |-> Following(a, v), ptr |-> m_active_session, seen |-> v]]
  /\ UNCHANGED <<opened, view, m_active_session, start, link, host, decoder, exiting>>

\* The statement loads m_active_session after stop has cleared it.
UseNull(c) ==
  /\ Running /\ callback[c].at \in Statements /\ m_active_session = NoSession
  /\ crashed' = "null"
  /\ UNCHANGED <<opened, view, m_active_session, flags, start, link, host, threads,
                 exiting>>

-----------------------------------------------------------------------------
(* The decode thread.                                                      *)

\* A decode unit that cannot be decoded: the decoder tests m_active_session.
\* It leaves a free start for a view that still connects.
DecodeFails ==
  /\ Running /\ link = "up" /\ decoder.pc = "idle" /\ m_active_session # NoSession
  /\ Cardinality(FreeStarts) > (IF view.pc = "connecting" THEN 1 ELSE 0)
  /\ decoder' = [decoder EXCEPT !.pc = "load"]
  /\ UNCHANGED <<opened, view, m_active_session, flags, start, link, host, callback,
                 exiting, crashed>>

\* It loads m_active_session again to call restart.
LoadForRestart ==
  /\ Running /\ decoder.pc = "load"
  /\ crashed' = IF m_active_session = NoSession THEN "null" ELSE "no"
  /\ decoder' = [pc |-> "restart", ptr |-> m_active_session]
  /\ UNCHANGED <<opened, view, m_active_session, flags, start, link, host, callback,
                 exiting>>

\* restart: the flags ...
Restart ==
  LET s == decoder.ptr IN
  /\ Running /\ decoder.pc = "restart" /\ Touch(s)
  /\ m_is_active' = m_is_active \ {s}
  /\ m_is_terminated' = m_is_terminated \ {s}
  /\ m_restart_in_progress' = m_restart_in_progress \cup {s}
  /\ decoder' = [decoder EXCEPT !.pc = "stop"]
  /\ UNCHANGED <<opened, view, m_active_session, m_stop_requested, start, link, host,
                 callback, exiting>>

\* ... then LiStopConnection, which may wait for the very thread it runs on ...
StopInDecoder ==
  /\ Running /\ decoder.pc = "stop"
  /\ link' = "down"
  /\ \E pc \in {"start", "hung"} : decoder' = [decoder EXCEPT !.pc = pc]
  /\ UNCHANGED <<opened, view, m_active_session, flags, start, host, callback, exiting,
                 crashed>>

\* ... and start, for whose argument m_active_session is loaded once more.
RestartStarts ==
  /\ Running /\ decoder.pc = "start"
  /\ decoder' = NoDecode
  /\ IF m_active_session = NoSession
     THEN crashed' = "null" /\ UNCHANGED <<flags, start>>
     ELSE /\ Begin(decoder.ptr, "restart")
          /\ UNCHANGED <<crashed, m_is_active, m_restart_in_progress>>
  /\ UNCHANGED <<opened, view, m_active_session, link, host, callback, exiting>>

-----------------------------------------------------------------------------
Stopping == Unpublish \/ Quit \/ StopReturns \/ DeleteMembers \/ DeleteSession
UiStep == ConnectSucceeds \/ ConnectFails \/ Draw \/ FinishTeardown \/ DestroyView
StartStep(i) ==
  \/ \E runs, ok \in BOOLEAN : Launch(i, runs, ok)
  \/ \E w \in Workers : Dialed(i, w)
  \/ Launched(i) \/ LinkFails(i) \/ LinkFailed(i)
CallbackStep(c) ==
  TestActive(c) \/ UseNull(c) \/ \E s \in Sessions : UseActive(c, s)
DecoderStep == LoadForRestart \/ Restart \/ StopInDecoder \/ RestartStarts

Next ==
  \/ OpenView \/ UiStep \/ Stopping \/ FocusLost \/ WindowShouldClose
  \/ \E terminateApp \in BOOLEAN : UserTerminates(terminateApp)
  \/ \E i \in Starts : StartStep(i)
  \/ RunQuit \/ ConnectionLost \/ \E c \in Callbacks : CallbackStep(c)
  \/ DecodeFails \/ DecoderStep

Spec == Init /\ [][Next]_vars

\* The main loop draws frames and runs completions and delayed tasks, requests
\* answer or time out, and every thread is scheduled.  Nothing forces the user
\* to act, a connection to be lost or a frame to fail, and LiStopConnection
\* need not return: not on the decode thread, and not on the UI thread while
\* the decode thread hangs.
FairSpec ==
  /\ Spec
  /\ WF_vars(UiStep \/ Stopping)
  /\ \A i \in Starts : WF_vars(StartStep(i))
  /\ \A c \in Callbacks : WF_vars(CallbackStep(c))
  /\ WF_vars(DecoderStep)

-----------------------------------------------------------------------------
(* Properties.                                                             *)

ViewRecord == [pc : {"closed", "connecting", "open"},
               ui : {"idle", "clear", "quit", "stop", "members", "memory"},
               deleting : BOOLEAN, terminated : BOOLEAN, teardown : {"no", "scheduled", "done"},
               pendingTeardownTerminateApp : BOOLEAN,
               pendingSuspendTerminate : BOOLEAN]
StartRecord == [pc : {"idle", "launch", "launched", "connect", "failed"},
                session : Sessions \cup {NoSession},
                kind : {"view", "restart"}, ok : BOOLEAN]

CallRecord == [at : Statements \cup {"return", "started", "terminated"},
               ptr : Sessions \cup {NoSession}, seen : BOOLEAN]
DecodeRecord == [pc : {"idle", "load", "restart", "stop", "hung", "start"},
                 ptr : Sessions \cup {NoSession}]

\* Every variable has its type; in particular a flag is only ever set in a
\* session.
TypeOK ==
  /\ opened \in 0..MaxSessions
  /\ view \in ViewRecord
  /\ m_active_session \in Sessions \cup {NoSession}
  /\ m_is_active \subseteq Sessions /\ m_is_terminated \subseteq Sessions
  /\ m_restart_in_progress \subseteq Sessions
  /\ m_stop_requested \subseteq Sessions
  /\ start \in [Starts -> StartRecord]
  /\ link \in {"down", "up", "lost"}
  /\ hostApp \in BOOLEAN /\ quits \in Nat /\ cancelled \in BOOLEAN
  /\ callback \in [Callbacks -> CallRecord] /\ decoder \in DecodeRecord
  /\ exiting \in BOOLEAN /\ crashed \in {"no", "null", "freed"}

\* A session whose destructor began is not published, nor is one that is gone:
\* whatever way led there (teardown task, window close, plain destruction), and
\* although a late connection_started and start take m_stop_requested back, a
\* callback that loads m_active_session finds neither a dangling pointer nor a
\* session whose decoder is already deleted.
PublishedSessionAlive ==
  m_active_session # NoSession =>
    /\ m_active_session = opened /\ view.pc # "closed"
    /\ view.ui \notin {"members", "memory"}

\* The stop of session s is past the point where it clears m_active_session.
Retired(s) ==
  \/ s < opened
  \/ s = opened /\ view.pc = "closed"
  \/ s = opened /\ view.teardown = "done" /\ view.ui # "clear"

\* A thread has loaded s, or may have, and may still read or write its flags.
Held(s) == decoder.ptr = s \/ \E c \in Callbacks : callback[c].ptr = s

\* A callback that had loaded the session before stop cleared the pointer may
\* still write to it, even mark it active.  But once these are through, a
\* session that was torn down stays inactive, and no thread gets hold of it
\* again, although starts in flight still complete and report
\* connection_started: the window is one statement per thread.
StoppedStaysInactive ==
  [][\A s \in Sessions : Retired(s) /\ ~Held(s) =>
       ~Held(s)' /\ (s \in m_is_active' => s \in m_is_active)]_vars

\* LiStopConnection does not return to the decode thread.
Hung == decoder.pc = "hung"

\* A stream the host ended closes: once the session is marked terminated, the
\* view is torn down and destroyed, unless a restart revives the session or
\* hangs.
DeadStreamCloses ==
  (view.pc # "closed" /\ opened \in m_is_terminated)
    ~> (view.pc = "closed" \/ opened \notin m_is_terminated
        \/ crashed # "no" \/ Hung)

\* No Limelight callback is running.
Quiet == \A c \in Callbacks : callback[c].at = "return"

\* A restart settles: the new connection is reported and the session active, the
\* session is marked terminated, or it was stopped or deleted, unless
\* LiStopConnection hangs on the decode thread.  The view does not wait on a
\* black screen for a start nobody is working on.  It says nothing of a loss
\* that connection_terminated reports next to connection_started: taken for the
\* end of the old connection, it leaves the session neither active nor
\* terminated.
RestartSettles ==
  \A s \in Sessions :
    (s \in m_restart_in_progress /\ Quiet)
      ~> (s \in m_is_active \cup m_is_terminated \cup m_stop_requested
          \/ Deleted(s) \/ crashed # "no" \/ Hung)

\* "always cancel the host session so Steam/Apollo is not left running
\* headless" (shouldTerminateHostOnApplicationExit): after a teardown that
\* cancelled the host app, the view is gone and no request is in flight, the
\* app does not run.
HostNotLeftRunning ==
  /\ cancelled /\ view.pc = "closed"
  /\ quits = 0 /\ \A i \in Starts : start[i].pc # "launch"
  => ~hostApp
=============================================================================
