------------------------------ MODULE FrameQueue ------------------------------
(***************************************************************************)
(* The decoded-frame queue between the video decoder thread and the UI     *)
(* thread that draws (AVFrameQueue / AVFrameHolder).                       *)
(*                                                                         *)
(* Every public operation of AVFrameQueue runs under its one mutex, so it  *)
(* is one action.  What runs outside the mutex is visible: the decoder     *)
(* fills the cell it acquired (`writing'), and AVFrameHolder::get draws    *)
(* the frame that pop returned (`rendering') while the decoder keeps       *)
(* pushing.                                                                *)
(*                                                                         *)
(* AVFrame objects are Cells.  Clocks are abstracted: a frame of the       *)
(* low-latency path becomes `due' when its estimated time passes, the      *)
(* present lead may release it earlier, and the frame-credit arithmetic of *)
(* the legacy path is a choice of how many frames are due.                 *)
(*                                                                         *)
(* stop() runs on the UI thread, which does not draw then.  The decoder's  *)
(* own restart does not: it frees the frames on the decode thread, whatever *)
(* the UI thread is drawing.                                               *)
(***************************************************************************)
EXTENDS Naturals, Sequences, FiniteSets, FiniteSetsExt

CONSTANTS Cells,
          None,
          Dangling,           \* a pointer to a freed frame
          BurstHeadroom,      \* kBurstHeadroomFrames
          QueueSizes,         \* values of Settings::frames_queue_size()
          MaxPushes           \* bound on counted frames

ASSUME FrameQueueAssumption ==
  /\ None \notin Cells /\ Dangling \notin Cells \cup {None}
  /\ BurstHeadroom \in Nat \ {0}
  /\ QueueSizes \subseteq Nat /\ QueueSizes # {} /\ IsFiniteSet(QueueSizes)
  /\ MaxPushes \in Nat

VARIABLES
  queue,               \* the deque, oldest first: [cell, stamp, due]
  freeQueue,           \* recycled cells
  bufferFrame,         \* the cell on screen, or None
  shownStamp,          \* the stamp of the last frame selected for display
  writing,             \* the cell the decoder fills, or None
  rendering,           \* the cell the renderer reads outside the lock, None
                       \* or Dangling
  limit, targetBufferedFrames, lowLatency,
  transferOwnership,   \* the decoder writes straight into queue cells
  configured,          \* a stream runs: from configure() to its end
  drawClockStarted,
  arrivalRateKnown,    \* arrivalRateSamples > 0
  startupBuffering, playoutResyncNeeded,
  pushed,              \* frames pushed since cleanup()
  localClockPacedFrameStat, framesDroppedStat, overflowDropStat,
  pacingSkipStat,
  outcome,             \* how the last pop() or overflowing push ended
  counting             \* this behaviour keeps stamps and statistics, and so is
                       \* bounded; one that does not may push for ever

configVars == <<limit, targetBufferedFrames, lowLatency, transferOwnership,
                configured>>
pacingVars == <<drawClockStarted, arrivalRateKnown, startupBuffering,
                playoutResyncNeeded>>
statVars == <<pushed, localClockPacedFrameStat, framesDroppedStat,
              overflowDropStat, pacingSkipStat>>
displayVars == <<bufferFrame, shownStamp, rendering, outcome>>
vars == <<queue, freeQueue, writing, displayVars, configVars, pacingVars,
          statVars, counting>>

-----------------------------------------------------------------------------
Init ==
  /\ queue = <<>> /\ freeQueue = {}
  /\ bufferFrame = None /\ shownStamp = 0
  /\ writing = None /\ rendering = None
  /\ limit = 0 /\ targetBufferedFrames = 0
  /\ lowLatency = FALSE /\ transferOwnership = FALSE /\ configured = FALSE
  /\ drawClockStarted = FALSE /\ arrivalRateKnown = FALSE
  /\ startupBuffering = TRUE /\ playoutResyncNeeded = TRUE
  /\ pushed = 0 /\ localClockPacedFrameStat = 0
  /\ framesDroppedStat = 0 /\ overflowDropStat = 0 /\ pacingSkipStat = 0
  /\ outcome = "none"
  /\ counting \in BOOLEAN

CellsOf(q) == {q[i].cell : i \in DOMAIN q}

\* Every cell that some pointer refers to.
InUse == CellsOf(queue) \cup freeQueue \cup ({bufferFrame, writing} \ {None})

\* The newest n frames of q.
Newest(q, n) == IF Len(q) <= n THEN q ELSE SubSeq(q, Len(q) - n + 1, Len(q))

Count(n, d) == IF counting THEN n + d ELSE n

\* AVFrameQueue::capacityFor
CapacityFor(size) == Max({size, 1}) + BurstHeadroom

\* Frames kept behind the one presented, as AVFrameQueue::configure sets them.
TargetFor(size, ll) ==
  IF Max({size, 1}) > 1 THEN Min({Max({size, 1}) - 1, IF ll THEN 1 ELSE 2})
  ELSE 0

\* AVFrameHolder::prepare, from finalize_decoder_setup of a new stream.  It
\* leaves the queue, the pool and the statistics as the last stream left them.
Configure(size, ll, transfer) ==
  /\ ~configured
  /\ configured' = TRUE
  /\ limit' = CapacityFor(size)
  /\ targetBufferedFrames' = TargetFor(size, ll)
  /\ lowLatency' = ll /\ transferOwnership' = transfer
  /\ drawClockStarted' = FALSE /\ arrivalRateKnown' = FALSE
  /\ startupBuffering' = TRUE /\ playoutResyncNeeded' = TRUE
  /\ UNCHANGED <<queue, freeQueue, writing, displayVars, statVars>>

-----------------------------------------------------------------------------
(* The decoder thread.                                                     *)

\* av_frame_alloc: which of the unused objects it returns makes no difference.
Allocated == IF Cells \subseteq InUse THEN None ELSE CHOOSE c \in Cells \ InUse : TRUE

\* acquireFrameLocked: a recycled cell, or a new one when there is none.
Acquirable(c) == c \in freeQueue \/ (freeQueue = {} /\ c = Allocated)

FrontWithoutPop(c) == freeQueue

\* The pool once c has been acquired.
PoolWithout(c) == freeQueue \ {c}

\* acquireWriteFrame at the start of get_frame.
AcquireWriteFrame(c) ==
  /\ configured /\ transferOwnership
  /\ writing = None
  /\ Acquirable(c)
  /\ freeQueue' = PoolWithout(c)
  /\ writing' = c
  /\ UNCHANGED <<queue, displayVars, configVars, pacingVars, statVars>>

\* avcodec_receive_frame failed or asked for more input.
RecycleWriteFrame ==
  /\ writing # None
  /\ freeQueue' = freeQueue \cup {writing}
  /\ writing' = None
  /\ UNCHANGED <<queue, displayVars, configVars, pacingVars, statVars>>

\* What an overflowing push keeps: the playout window.
KeepOnOverflow(q) == Newest(q, targetBufferedFrames + 1)

PushFront(q, f) == <<f>> \o q

PushBack(q, f) == Append(q, f)

\* The part of push and pushTransferredLocked after a cell c is at hand;
\* free is the pool at that point.  recordArrivalLocked may complete a rate
\* sample, on the legacy path only.
Enqueue(c, free) ==
  LET q == PushBack(queue, [cell |-> c, stamp |-> Count(pushed, 1), due |-> FALSE])
      over == Len(q) > limit
      kept == IF over THEN KeepOnOverflow(q) ELSE q
      lost == Len(q) - Len(kept)
  IN
  /\ queue' = kept
  /\ freeQueue' = free \cup CellsOf(SubSeq(q, 1, lost))
  /\ pushed' = Count(pushed, 1)
  /\ framesDroppedStat' = Count(framesDroppedStat, lost)
  /\ overflowDropStat' = Count(overflowDropStat, lost)
  /\ \E sampled \in BOOLEAN :
       arrivalRateKnown' = /\ ~lowLatency /\ ~over
                           /\ arrivalRateKnown \/ sampled
  /\ playoutResyncNeeded' = (playoutResyncNeeded \/ (over /\ ~lowLatency))
  /\ outcome' = IF over THEN "overflow" ELSE outcome
  /\ UNCHANGED <<bufferFrame, shownStamp, rendering, configVars,
                 drawClockStarted, startupBuffering, localClockPacedFrameStat,
                 pacingSkipStat>>

\* pushTransferred: the cell the decoder filled goes into the queue.
PushTransferred ==
  /\ writing # None
  /\ counting => pushed < MaxPushes
  /\ Enqueue(writing, freeQueue)
  /\ writing' = None

\* push: a cell of the pool takes a reference to the decoder's frame.
Push(c) ==
  /\ configured /\ ~transferOwnership
  /\ counting => pushed < MaxPushes
  /\ Acquirable(c)
  /\ Enqueue(c, PoolWithout(c))
  /\ UNCHANGED writing

\* av_frame_ref fails: the acquired cell is freed (a newly allocated one was
\* never in the pool).
PushFails(c) ==
  /\ configured /\ ~transferOwnership
  /\ c \in freeQueue
  /\ freeQueue' = PoolWithout(c)
  /\ UNCHANGED <<queue, writing, displayVars, configVars, pacingVars, statVars>>

-----------------------------------------------------------------------------
(* pop() on the UI thread, then the drawing outside the lock.              *)

ReturnPrevious(f, how) ==
  /\ bufferFrame' = f
  /\ rendering' = bufferFrame
  /\ outcome' = how

\* pop returns f: AVFrameHolder::get draws it unless it is null.
Show(f, how) ==
  /\ bufferFrame' = f
  /\ rendering' = f
  /\ outcome' = how

\* pop keeps the frame on screen.
ShowAgain(how) == Show(bufferFrame, how) /\ UNCHANGED <<freeQueue, shownStamp>>

\* The last frame of taken goes on screen; the frame that was there and the
\* skipped ones are recycled.
Present(taken) ==
  LET f == taken[Len(taken)] IN
  /\ Show(f.cell, "consumed")
  /\ shownStamp' = f.stamp
  /\ freeQueue' = freeQueue \cup CellsOf(SubSeq(taken, 1, Len(taken) - 1))
                            \cup ({bufferFrame} \ {None})

SkipsUncounted(n) ==
  /\ localClockPacedFrameStat' = Count(localClockPacedFrameStat, 1)
  /\ pacingSkipStat' = Count(pacingSkipStat, n)
  /\ UNCHANGED <<pushed, overflowDropStat, framesDroppedStat>>

\* Statistics of a pop that presents one frame and skips n.
CountPresented(n) ==
  /\ localClockPacedFrameStat' = Count(localClockPacedFrameStat, 1)
  /\ framesDroppedStat' = Count(framesDroppedStat, n)
  /\ pacingSkipStat' = Count(pacingSkipStat, n)
  /\ UNCHANGED <<pushed, overflowDropStat>>

\* prepareLatestFrame: when the oldest frame's estimate has passed, or a
\* backlog bypasses the gate, a frame must be released; before that the
\* present lead may release one.
Overdue(q) == Head(q).due \/ Len(q) - 1 > targetBufferedFrames

PopLowLatencyEmpty ==
  /\ lowLatency /\ rendering = None
  /\ queue = <<>>
  /\ ShowAgain("empty")
  /\ UNCHANGED <<queue, writing, configVars, pacingVars, statVars>>

\* Moving on to the newest frame before the gate is checked.
HoldNewestOnly ==
  /\ lowLatency /\ rendering = None
  /\ queue # <<>> /\ ~queue[Len(queue)].due
  /\ Show(bufferFrame, "hold")
  /\ UNCHANGED shownStamp
  /\ queue' = Newest(queue, 1)
  /\ freeQueue' = freeQueue \cup CellsOf(SubSeq(queue, 1, Len(queue) - 1))
  /\ UNCHANGED <<writing, configVars, pacingVars, statVars>>

PopLowLatencyHold ==
  /\ lowLatency /\ rendering = None
  /\ queue # <<>> /\ ~Overdue(queue)
  /\ ShowAgain("hold")
  /\ UNCHANGED <<queue, writing, configVars, pacingVars, statVars>>

\* Everything but the newest frame is dropped.
PopLowLatency ==
  /\ lowLatency /\ rendering = None
  /\ queue # <<>>
  /\ Present(queue)
  /\ queue' = <<>>
  /\ CountPresented(Len(queue) - 1)
  /\ UNCHANGED <<writing, configVars, pacingVars>>

\* The estimated time of a queued frame passes.
DeadlinePasses(i) ==
  /\ lowLatency
  /\ i \in DOMAIN queue /\ ~queue[i].due
  /\ queue' = [queue EXCEPT ![i].due = TRUE]
  /\ UNCHANGED <<freeQueue, writing, displayVars, configVars, pacingVars,
                 statVars>>

\* The draw clock of the legacy path: gap is a pathological interval
\* (suspension, debugger), which forces a resync.
Resync(gap) == playoutResyncNeeded \/ (drawClockStarted /\ gap)

Rebuffering == startupBuffering /\ Len(queue) <= targetBufferedFrames

PopRebuffer(gap) ==
  /\ ~lowLatency /\ rendering = None
  /\ Rebuffering
  /\ drawClockStarted' = TRUE
  /\ playoutResyncNeeded' = Resync(gap)
  /\ ShowAgain("rebuffer")
  /\ UNCHANGED <<queue, writing, configVars, arrivalRateKnown,
                 startupBuffering, statVars>>

Backlog == limit > 0 /\ Len(queue) >= limit

NeedsResync(gap) == startupBuffering \/ Resync(gap) \/ Backlog

\* Frames due when no resync is needed: by occupancy until both rates are
\* known, then by frame credit.
DueFrames(gap) ==
  IF arrivalRateKnown /\ drawClockStarted /\ ~gap THEN 0..limit
  ELSE {IF Len(queue) > targetBufferedFrames THEN 1 ELSE 0}

\* Trim to the playout window and present its oldest frame.
PopResync(gap) ==
  LET window == Newest(queue, targetBufferedFrames + 1)
      lost == Len(queue) - Len(window)
  IN
  /\ ~lowLatency /\ rendering = None
  /\ ~Rebuffering /\ queue # <<>> /\ NeedsResync(gap)
  /\ drawClockStarted' = TRUE
  /\ startupBuffering' = FALSE /\ playoutResyncNeeded' = FALSE
  /\ arrivalRateKnown' = (arrivalRateKnown /\ ~Backlog)
  /\ Present(SubSeq(queue, 1, lost + 1))
  /\ queue' = Tail(window)
  /\ CountPresented(lost)
  /\ UNCHANGED <<writing, configVars>>

\* No frame is due.
PopHold(gap) ==
  /\ ~lowLatency /\ rendering = None
  /\ ~Rebuffering /\ ~(queue # <<>> /\ NeedsResync(gap))
  /\ 0 \in DueFrames(gap)
  /\ drawClockStarted' = TRUE
  /\ startupBuffering' = FALSE
  /\ playoutResyncNeeded' = (startupBuffering \/ Resync(gap))
  /\ ShowAgain("hold")
  /\ UNCHANGED <<queue, writing, configVars, arrivalRateKnown, statVars>>

\* A frame is due and none is there.
PopUnderrun(gap) ==
  /\ ~lowLatency /\ rendering = None
  /\ ~Rebuffering /\ queue = <<>>
  /\ \E n \in DueFrames(gap) : n > 0
  /\ drawClockStarted' = TRUE
  /\ startupBuffering' = FALSE /\ playoutResyncNeeded' = TRUE
  /\ arrivalRateKnown' = FALSE
  /\ ShowAgain("empty")
  /\ UNCHANGED <<queue, writing, configVars, statVars>>

\* Present the last of the due frames.
PopPaced(gap) ==
  /\ ~lowLatency /\ rendering = None
  /\ ~Rebuffering /\ queue # <<>> /\ ~NeedsResync(gap)
  /\ drawClockStarted' = TRUE
  /\ \E due \in DueFrames(gap) \ {0} :
       LET n == Min({due, Len(queue)}) IN
       /\ Present(SubSeq(queue, 1, n))
       /\ queue' = SubSeq(queue, n + 1, Len(queue))
       /\ CountPresented(n - 1)
  /\ UNCHANGED <<writing, configVars, arrivalRateKnown, startupBuffering,
                 playoutResyncNeeded>>

\* The renderer returns from drawing.
FinishDraw ==
  /\ rendering # None
  /\ rendering' = None
  /\ UNCHANGED <<queue, freeQueue, writing, bufferFrame, shownStamp, outcome,
                 configVars, pacingVars, statVars>>

\* MoonlightSession::stop clears the active session before LiStopConnection,
\* so video_decoder_cleanup reaches no decoder: the stream ends, the decoder
\* thread is joined and the queue keeps what it holds.
EndStream ==
  /\ configured /\ writing = None /\ rendering = None
  /\ configured' = FALSE
  /\ UNCHANGED <<queue, freeQueue, writing, displayVars, limit,
                 targetBufferedFrames, lowLatency, transferOwnership,
                 pacingVars, statVars>>

\* AVFrameQueue::cleanup; the screen goes blank.
FreeAll ==
  /\ configured' = FALSE
  /\ queue' = <<>> /\ freeQueue' = {}
  /\ bufferFrame' = None /\ shownStamp' = 0 /\ outcome' = "none"
  /\ drawClockStarted' = FALSE /\ arrivalRateKnown' = FALSE
  /\ startupBuffering' = TRUE /\ playoutResyncNeeded' = TRUE
  /\ pushed' = 0 /\ localClockPacedFrameStat' = 0
  /\ framesDroppedStat' = 0 /\ overflowDropStat' = 0 /\ pacingSkipStat' = 0
  /\ UNCHANGED <<writing, limit, targetBufferedFrames, lowLatency,
                 transferOwnership>>

\* A stream is restarted by its decoder: the session is still published, so
\* LiStopConnection reaches the decoder's cleanup, on the decode thread and
\* between two frames.  Nothing keeps the UI thread from drawing meanwhile:
\* the frame it draws is freed under it.
Cleanup ==
  /\ configured /\ writing = None
  /\ FreeAll
  /\ rendering' = IF rendering = None THEN None ELSE Dangling

\* The decoder of a new stream cannot be set up.  Its session is not active
\* yet, so that nothing is drawn.
SetupFails ==
  /\ ~configured /\ writing = None /\ rendering = None
  /\ FreeAll
  /\ UNCHANGED rendering

-----------------------------------------------------------------------------
Decode ==
  \/ \E c \in Cells : AcquireWriteFrame(c) \/ Push(c) \/ PushFails(c)
  \/ RecycleWriteFrame \/ PushTransferred

Draw ==
  \/ PopLowLatencyEmpty \/ PopLowLatencyHold \/ PopLowLatency
  \/ \E gap \in BOOLEAN :
       \/ PopRebuffer(gap) \/ PopResync(gap) \/ PopHold(gap)
       \/ PopUnderrun(gap) \/ PopPaced(gap)
  \/ FinishDraw

Next ==
  /\ \/ \E size \in QueueSizes, ll \in BOOLEAN, transfer \in BOOLEAN :
          Configure(size, ll, transfer)
     \/ Decode
     \/ Draw
     \/ \E i \in DOMAIN queue : DeadlinePasses(i)
     \/ EndStream
     \/ Cleanup \/ SetupFails
  /\ UNCHANGED counting

Spec == Init /\ [][Next]_vars

\* The UI thread draws on every display frame while a stream runs, and time
\* passes.
FairSpec ==
  /\ Spec
  /\ WF_vars(configured /\ Draw /\ UNCHANGED counting)
  /\ WF_vars(queue # <<>> /\ DeadlinePasses(1) /\ UNCHANGED counting)

-----------------------------------------------------------------------------
(* Properties.                                                             *)

QueuedFrame == [cell : Cells, stamp : Nat, due : BOOLEAN]

\* Every variable has its type; the counters are size_t that never go below
\* zero.
QueueTypeOK ==
  /\ queue \in Seq(QueuedFrame) /\ freeQueue \in SUBSET Cells
  /\ bufferFrame \in Cells \cup {None}
  /\ writing \in Cells \cup {None}
  /\ rendering \in Cells \cup {None, Dangling}
  /\ outcome \in {"none", "consumed", "hold", "rebuffer", "empty", "overflow"}
CountersTypeOK ==
  /\ limit \in Nat /\ targetBufferedFrames \in Nat /\ shownStamp \in Nat
  /\ pushed \in Nat /\ localClockPacedFrameStat \in Nat
  /\ framesDroppedStat \in Nat /\ overflowDropStat \in Nat /\ pacingSkipStat \in Nat
FlagsTypeOK ==
  /\ lowLatency \in BOOLEAN /\ transferOwnership \in BOOLEAN
  /\ configured \in BOOLEAN /\ counting \in BOOLEAN
  /\ drawClockStarted \in BOOLEAN /\ arrivalRateKnown \in BOOLEAN
  /\ startupBuffering \in BOOLEAN /\ playoutResyncNeeded \in BOOLEAN

TypeOK == QueueTypeOK /\ CountersTypeOK /\ FlagsTypeOK

\* An AVFrame has one owner: no cell is twice in the queue, or at once queued,
\* pooled, on screen or being filled by the decoder (recycleFrame and
\* acquireFrameLocked move raw pointers between them).
FramesOwnedOnce ==
  /\ \A i, j \in DOMAIN queue : queue[i].cell = queue[j].cell => i = j
  /\ CellsOf(queue) \cap (freeQueue \cup {bufferFrame, writing}) = {}
  /\ freeQueue \cap {bufferFrame, writing} = {}
  /\ bufferFrame # None => bufferFrame # writing

\* The frame AVFrameHolder::get draws outside the lock stays the frame on
\* screen until the draw returns: however many frames are pushed, dropped or
\* trimmed and whatever stream is configured meanwhile, nobody recycles it or
\* decodes into it.  The one exception is the restart by the decode thread,
\* whose cleanup leaves the renderer with a dangling pointer.
RenderedFrameStable ==
  rendering \in Cells =>
    /\ rendering = bufferFrame
    /\ rendering \notin freeQueue \cup CellsOf(queue) \cup {writing}

\* Frames are displayed in the order they were decoded: everything queued is
\* newer than what is on screen, whatever pops, overflows, resyncs and
\* trimming did before.
PlayoutOrder ==
  counting =>
    \A i \in DOMAIN queue :
      /\ queue[i].stamp > shownStamp
      /\ \A j \in 1..(i-1) : queue[j].stamp < queue[i].stamp

\* Every decoded frame is presented, dropped and counted as a drop, or still
\* queued, and every drop has one cause: the figures of the statistics overlay
\* add up.
FramesAccounted ==
  /\ pushed = localClockPacedFrameStat + framesDroppedStat
              + (IF counting THEN Len(queue) ELSE 0)
  /\ framesDroppedStat = overflowDropStat + pacingSkipStat

\* The low-latency gate cannot starve presentation: while the stream runs and
\* is drawn, a queued frame leads to a presented frame (or the queue
\* overflows).  prepareLatestFrame keeps the oldest deadline for this reason.
HeldFrameReleased ==
  (lowLatency /\ configured /\ queue # <<>>)
    ~> (outcome \in {"consumed", "overflow"} \/ ~configured)
=============================================================================
