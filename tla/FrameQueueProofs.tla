-------------------------- MODULE FrameQueueProofs --------------------------
(***************************************************************************)
(* Proofs about FrameQueue, for any pool of AVFrame objects, any queue     *)
(* size and any number of frames.                                          *)
(***************************************************************************)
EXTENDS FrameQueue, SequenceTheorems, TLAPS

\* The stamps in q grow, from above low up to high.
Stamped(q, low, high) ==
  \A i \in DOMAIN q : /\ q[i].stamp > low /\ q[i].stamp <= high
                      /\ \A j \in 1..(i-1) : q[j].stamp < q[i].stamp

\* PlayoutOrder, and no stamp is ahead of the number of frames pushed.
StampsInOrder == counting => shownStamp <= pushed /\ Stamped(queue, shownStamp, pushed)

\* No cell is twice in q.
CellsOnce(q) == \A i, j \in DOMAIN q : q[i].cell = q[j].cell => i = j

FrameInv ==
  /\ TypeOK /\ FramesOwnedOnce /\ RenderedFrameStable
  /\ StampsInOrder /\ FramesAccounted

\* r is what is left of q without its k oldest frames.
Rest(r, q, k) ==
  /\ r \in Seq(QueuedFrame) /\ Len(r) = Len(q) - k
  /\ \A i \in 1..Len(r) : r[i] = q[i + k]

\* s is the k oldest frames of q.
Front(s, q, k) ==
  /\ s \in Seq(QueuedFrame) /\ Len(s) = k
  /\ \A i \in 1..k : s[i] = q[i]

-----------------------------------------------------------------------------
(* What the operators on the queue return.                                 *)

\* The fields of a queued frame.
LEMMA FrameFields ==
  ASSUME NEW q \in Seq(QueuedFrame)
  PROVE  \A i \in DOMAIN q : q[i] \in QueuedFrame /\ q[i].cell \in Cells /\ q[i].stamp \in Nat
<1>1. \A i \in DOMAIN q : q[i] \in QueuedFrame
  OBVIOUS
<1>2. QED BY <1>1 DEF QueuedFrame

\* SubSeq of the k oldest frames.
LEMMA SubSeqIsFront ==
  ASSUME NEW q \in Seq(QueuedFrame), NEW k \in 0..Len(q)
  PROVE  Front(SubSeq(q, 1, k), q, k)
<1>1. \A i \in 1..k : q[i] \in QueuedFrame
  OBVIOUS
<1>2. QED BY <1>1, SubSeqProperties DEF Front

\* SubSeq of all but the k oldest.
LEMMA SubSeqIsRest ==
  ASSUME NEW q \in Seq(QueuedFrame), NEW k \in 0..Len(q)
  PROVE  Rest(SubSeq(q, k + 1, Len(q)), q, k)
<1>1. \A i \in (k + 1)..Len(q) : q[i] \in QueuedFrame
  OBVIOUS
<1>2. QED BY <1>1, SubSeqProperties DEF Rest

\* Newest drops the oldest frames only.
LEMMA NewestIsRest ==
  ASSUME NEW q \in Seq(QueuedFrame), NEW n \in Nat
  PROVE  /\ Rest(Newest(q, n), q, Len(q) - Len(Newest(q, n)))
         /\ Len(Newest(q, n)) = IF Len(q) <= n THEN Len(q) ELSE n
<1>1. CASE Len(q) <= n
  BY <1>1 DEF Newest, Rest
<1>2. CASE ~(Len(q) <= n)
  <2>1. Len(q) - n \in 0..Len(q) /\ Newest(q, n) = SubSeq(q, (Len(q) - n) + 1, Len(q))
    BY <1>2 DEF Newest
  <2>2. Rest(Newest(q, n), q, Len(q) - n)
    BY <2>1, SubSeqIsRest
  <2>3. Len(Newest(q, n)) = n
    BY <2>1, <2>2 DEF Rest
  <2>4. Len(q) - Len(Newest(q, n)) = Len(q) - n
    BY <2>3
  <2>5. QED BY <1>2, <2>2, <2>3, <2>4
<1>3. QED BY <1>1, <1>2

\* The rest without its oldest frame.
LEMMA TailOfRest ==
  ASSUME NEW q \in Seq(QueuedFrame), NEW r \in Seq(QueuedFrame), NEW k \in Nat,
         Rest(r, q, k), r # <<>>
  PROVE  Rest(Tail(r), q, k + 1)
<1>1. /\ Tail(r) \in Seq(QueuedFrame) /\ Len(Tail(r)) = Len(r) - 1
      /\ \A i \in 1..Len(Tail(r)) : Tail(r)[i] = r[i + 1]
  BY HeadTailProperties
<1>2. QED BY <1>1 DEF Rest

\* Max of two naturals, as capacityFor and configure use it.
LEMMA MaxOfTwo ==
  ASSUME NEW a \in Nat, NEW b \in Nat
  PROVE  Max({a, b}) = IF a >= b THEN a ELSE b
<1> DEFINE m == IF a >= b THEN a ELSE b
<1>1. m \in {a, b} /\ \A y \in {a, b} : m >= y
  OBVIOUS
<1>2. \A x \in {a, b} : (\A y \in {a, b} : x >= y) => x = m
  OBVIOUS
<1>3. QED BY <1>1, <1>2 DEF Max

\* Min of two naturals.
LEMMA MinOfTwo ==
  ASSUME NEW a \in Nat, NEW b \in Nat
  PROVE  Min({a, b}) = IF a <= b THEN a ELSE b
<1> DEFINE m == IF a <= b THEN a ELSE b
<1>1. m \in {a, b} /\ \A y \in {a, b} : m =< y
  OBVIOUS
<1>2. \A x \in {a, b} : (\A y \in {a, b} : x =< y) => x = m
  OBVIOUS
<1>3. QED BY <1>1, <1>2 DEF Min

\* The cells of the rest and of the front are cells of the queue, and no cell
\* is in both when the queue has each cell once.
LEMMA SplitCells ==
  ASSUME NEW q \in Seq(QueuedFrame), NEW k \in 0..Len(q), NEW r, NEW s,
         Rest(r, q, k), Front(s, q, k)
  PROVE  /\ CellsOf(r) \subseteq CellsOf(q) /\ CellsOf(s) \subseteq CellsOf(q)
         /\ CellsOf(q) \subseteq Cells
         /\ CellsOnce(q) => CellsOnce(r) /\ CellsOf(r) \cap CellsOf(s) = {}
<1>1. /\ DOMAIN q = 1..Len(q) /\ DOMAIN r = 1..Len(r) /\ DOMAIN s = 1..k
      /\ Len(r) = Len(q) - k /\ Len(q) \in Nat
  BY DEF Rest, Front
<1>2. /\ \A i \in DOMAIN r : i + k \in DOMAIN q /\ r[i] = q[i + k]
      /\ \A i \in DOMAIN s : i \in DOMAIN q /\ s[i] = q[i] /\ i <= k
  BY <1>1 DEF Rest, Front
<1>3. CellsOf(r) \subseteq CellsOf(q) /\ CellsOf(s) \subseteq CellsOf(q)
  BY <1>2 DEF CellsOf
<1>4. CellsOf(q) \subseteq Cells
  <2>1. \A i \in DOMAIN q : q[i].cell \in Cells
    BY FrameFields
  <2>2. QED BY <2>1 DEF CellsOf
<1>5. ASSUME CellsOnce(q) PROVE CellsOnce(r)
  BY <1>1, <1>2, <1>5 DEF CellsOnce
<1>6. ASSUME CellsOnce(q) PROVE CellsOf(r) \cap CellsOf(s) = {}
  <2> SUFFICES ASSUME NEW i \in DOMAIN r, NEW j \in DOMAIN s, r[i].cell = s[j].cell
               PROVE  FALSE
    BY DEF CellsOf
  <2>1. i + k = j
    BY <1>2, <1>6 DEF CellsOnce
  <2>2. QED BY <1>1, <2>1
<1>7. QED BY <1>3, <1>4, <1>5, <1>6

\* Without its oldest frames a queue is still in order, and newer than them.
LEMMA RestStamped ==
  ASSUME NEW q \in Seq(QueuedFrame), NEW k \in 0..Len(q), NEW r, Rest(r, q, k),
         NEW low \in Nat, NEW high \in Nat, Stamped(q, low, high)
  PROVE  /\ Stamped(r, low, high)
         /\ k > 0 => /\ Stamped(r, q[k].stamp, high)
                     /\ q[k].stamp \in Nat /\ q[k].stamp <= high
<1>1. /\ DOMAIN q = 1..Len(q) /\ DOMAIN r = 1..Len(r)
      /\ Len(r) = Len(q) - k /\ Len(q) \in Nat
  BY DEF Rest
<1>2. \A i \in DOMAIN r : i + k \in DOMAIN q /\ r[i] = q[i + k]
  BY <1>1 DEF Rest
<1>3. \A i \in DOMAIN r : \A j \in 1..(i-1) : r[j].stamp < r[i].stamp
  <2> SUFFICES ASSUME NEW i \in DOMAIN r, NEW j \in 1..(i-1)
               PROVE  r[j].stamp < r[i].stamp
    OBVIOUS
  <2>1. j \in DOMAIN r /\ j + k \in 1..((i + k) - 1)
    BY <1>1
  <2>2. r[i] = q[i + k] /\ r[j] = q[j + k] /\ i + k \in DOMAIN q
    BY <1>2, <2>1
  <2>3. QED BY <2>1, <2>2 DEF Stamped
<1>4. Stamped(r, low, high)
  BY <1>2, <1>3 DEF Stamped
<1>5. ASSUME k > 0
      PROVE  Stamped(r, q[k].stamp, high) /\ q[k].stamp \in Nat /\ q[k].stamp <= high
  <2>1. k \in DOMAIN q /\ q[k].stamp \in Nat
    BY <1>1, <1>5, FrameFields
  <2>2. \A i \in DOMAIN r : q[k].stamp < q[i + k].stamp
    <3> SUFFICES ASSUME NEW i \in DOMAIN r PROVE q[k].stamp < q[i + k].stamp
      OBVIOUS
    <3>1. i + k \in DOMAIN q /\ k \in 1..((i + k) - 1)
      BY <1>1, <1>5
    <3>2. QED BY <3>1 DEF Stamped
  <2>3. \A i \in DOMAIN r : r[i].stamp > q[k].stamp
    BY <1>1, <1>2, <2>1, <2>2, FrameFields
  <2>4. QED BY <1>3, <1>4, <2>1, <2>3 DEF Stamped
<1>6. QED BY <1>4, <1>5

\* A frame with the next stamp goes to the end.
LEMMA AppendStamped ==
  ASSUME NEW q \in Seq(QueuedFrame), NEW f \in QueuedFrame,
         NEW low \in Nat, NEW high \in Nat, low <= high,
         Stamped(q, low, high), f.stamp = high + 1
  PROVE  Stamped(Append(q, f), low, high + 1)
<1> DEFINE p == Append(q, f)
<1>1. /\ Len(p) = Len(q) + 1 /\ DOMAIN p = 1..(Len(q) + 1) /\ DOMAIN q = 1..Len(q)
      /\ \A i \in 1..Len(q) : p[i] = q[i]
      /\ p[Len(q) + 1] = f /\ Len(q) \in Nat
  BY AppendProperties
<1>2. \A i \in 1..Len(q) : q[i].stamp \in Nat
  BY <1>1, FrameFields
<1> HIDE DEF p
<1> SUFFICES ASSUME NEW i \in DOMAIN p
             PROVE  /\ p[i].stamp > low /\ p[i].stamp <= high + 1
                    /\ \A j \in 1..(i-1) : p[j].stamp < p[i].stamp
  BY DEF Stamped, p
<1>3. CASE i \in 1..Len(q)
  <2>1. p[i].stamp > low /\ p[i].stamp <= high + 1
    BY <1>1, <1>2, <1>3 DEF Stamped
  <2>2. \A j \in 1..(i-1) : p[j] = q[j] /\ q[j].stamp < q[i].stamp
    BY <1>1, <1>3 DEF Stamped
  <2>3. QED BY <1>1, <1>3, <2>1, <2>2
<1>4. CASE i = Len(q) + 1
  <2>1. p[i] = f
    BY <1>1, <1>4
  <2>2. \A j \in 1..(i-1) : p[j] = q[j] /\ q[j].stamp <= high /\ q[j].stamp \in Nat
    BY <1>1, <1>2, <1>4 DEF Stamped
  <2>3. QED BY <2>1, <2>2
<1>5. QED BY <1>1, <1>3, <1>4

\* A cell that is nowhere yet goes to the end.
LEMMA AppendCells ==
  ASSUME NEW q \in Seq(QueuedFrame), NEW f \in QueuedFrame,
         CellsOnce(q), f.cell \notin CellsOf(q)
  PROVE  /\ CellsOnce(Append(q, f))
         /\ CellsOf(Append(q, f)) = CellsOf(q) \cup {f.cell}
<1> DEFINE p == Append(q, f)
<1>1. /\ DOMAIN p = 1..(Len(q) + 1) /\ DOMAIN q = 1..Len(q)
      /\ \A i \in 1..Len(q) : p[i] = q[i]
      /\ p[Len(q) + 1] = f /\ Len(q) \in Nat
  BY AppendProperties
<1> HIDE DEF p
<1>2. CellsOf(p) = CellsOf(q) \cup {f.cell}
  <2>1. \A i \in DOMAIN p : p[i].cell \in CellsOf(q) \cup {f.cell}
    BY <1>1 DEF CellsOf
  <2>2. \A i \in DOMAIN q : i \in DOMAIN p /\ p[i].cell = q[i].cell
    BY <1>1
  <2>3. Len(q) + 1 \in DOMAIN p /\ p[Len(q) + 1].cell = f.cell
    BY <1>1
  <2>4. QED BY <2>1, <2>2, <2>3 DEF CellsOf
<1>3. \A i \in DOMAIN q : q[i].cell # f.cell
  BY DEF CellsOf
<1>4. CellsOnce(p)
  <2> SUFFICES ASSUME NEW i \in DOMAIN p, NEW j \in DOMAIN p, p[i].cell = p[j].cell
               PROVE  i = j
    BY DEF CellsOnce
  <2>1. CASE i \in DOMAIN q /\ j \in DOMAIN q
    BY <1>1, <2>1 DEF CellsOnce
  <2>2. CASE i = Len(q) + 1 \/ j = Len(q) + 1
    BY <1>1, <1>3, <2>2
  <2>3. QED BY <1>1, <2>1, <2>2
<1>5. QED BY <1>2, <1>4 DEF p

-----------------------------------------------------------------------------
(* The steps that move frames.                                             *)

\* The frames and the counters of FrameInv, without the pacing flags.
Held == /\ QueueTypeOK /\ CountersTypeOK /\ FramesOwnedOnce /\ RenderedFrameStable
        /\ StampsInOrder /\ FramesAccounted

\* A frame of a cell that nobody else holds goes into the queue; what an
\* overflow drops goes to the pool.
LEMMA EnqueueStep ==
  ASSUME FrameInv, counting' = counting,
         NEW c \in Cells, NEW free \in SUBSET freeQueue, Enqueue(c, free),
         c \notin free, c \notin CellsOf(queue), c # bufferFrame,
         writing' \in {writing, None}, c # writing'
  PROVE  Held' /\ FlagsTypeOK'
<1> DEFINE f == [cell |-> c, stamp |-> Count(pushed, 1), due |-> FALSE]
           q == Append(queue, f)
           kept == IF Len(q) > limit THEN KeepOnOverflow(q) ELSE q
           lost == Len(q) - Len(kept)
<1>1. /\ queue \in Seq(QueuedFrame) /\ freeQueue \in SUBSET Cells /\ pushed \in Nat
      /\ targetBufferedFrames \in Nat /\ limit \in Nat /\ shownStamp \in Nat
      /\ framesDroppedStat \in Nat /\ overflowDropStat \in Nat
  BY DEF FrameInv, TypeOK, QueueTypeOK, CountersTypeOK
<1>2. /\ f \in QueuedFrame /\ f.cell = c /\ f.stamp = Count(pushed, 1)
      /\ Count(pushed, 1) \in Nat
  BY <1>1 DEF QueuedFrame, Count
<1>3. /\ queue' = kept /\ freeQueue' = free \cup CellsOf(SubSeq(q, 1, lost))
      /\ pushed' = Count(pushed, 1)
      /\ framesDroppedStat' = Count(framesDroppedStat, lost)
      /\ overflowDropStat' = Count(overflowDropStat, lost)
      /\ outcome' \in {outcome, "overflow"}
      /\ UNCHANGED <<bufferFrame, shownStamp, rendering, limit, targetBufferedFrames,
                     localClockPacedFrameStat, pacingSkipStat>>
  BY DEF Enqueue, PushBack, configVars
<1> HIDE DEF f
<1>4. q \in Seq(QueuedFrame) /\ Len(q) = Len(queue) + 1 /\ Len(queue) \in Nat
  BY <1>1, <1>2, AppendProperties
<1>5. CellsOnce(q) /\ CellsOf(q) = CellsOf(queue) \cup {c}
  BY <1>1, <1>2, AppendCells DEF FrameInv, FramesOwnedOnce, CellsOnce
<1> HIDE DEF q
<1>6. /\ kept = q \/ kept = Newest(q, targetBufferedFrames + 1)
      /\ lost = Len(q) - Len(kept)
  BY DEF KeepOnOverflow
<1> HIDE DEF kept, lost
<1>7. Rest(kept, q, lost) /\ lost \in 0..Len(q) /\ kept \in Seq(QueuedFrame)
  <2>1. CASE kept = q
    BY <1>4, <1>6, <2>1 DEF Rest
  <2>2. CASE kept = Newest(q, targetBufferedFrames + 1)
    <3>1. targetBufferedFrames + 1 \in Nat
      BY <1>1
    <3>2. Rest(kept, q, lost) /\ Len(kept) \in 0..Len(q)
      BY <1>4, <1>6, <2>2, <3>1, NewestIsRest
    <3>3. QED BY <1>4, <1>6, <3>2 DEF Rest
  <2>3. QED BY <1>6, <2>1, <2>2
<1>8. Front(SubSeq(q, 1, lost), q, lost)
  BY <1>4, <1>7, SubSeqIsFront
<1>9. /\ CellsOf(queue') \subseteq CellsOf(q) /\ CellsOnce(queue')
      /\ CellsOf(SubSeq(q, 1, lost)) \subseteq CellsOf(q) /\ CellsOf(q) \subseteq Cells
      /\ CellsOf(queue') \cap CellsOf(SubSeq(q, 1, lost)) = {}
  BY <1>3, <1>4, <1>5, <1>7, <1>8, SplitCells
<1>10. QueueTypeOK' /\ CountersTypeOK'
  <2>1. lost \in Nat /\ Len(q) \in Nat
    BY <1>4, <1>7
  <2>2. CountersTypeOK'
    BY <1>1, <1>2, <1>3, <2>1 DEF FrameInv, TypeOK, CountersTypeOK, Count
  <2>3. freeQueue' \in SUBSET Cells /\ queue' \in Seq(QueuedFrame)
    BY <1>1, <1>3, <1>7, <1>9
  <2>4. QED BY <1>3, <2>2, <2>3 DEF FrameInv, TypeOK, QueueTypeOK
<1>11. FramesOwnedOnce'
  <2>1. /\ CellsOf(queue) \cap (freeQueue \cup {bufferFrame, writing}) = {}
        /\ freeQueue \cap {bufferFrame, writing} = {}
        /\ bufferFrame # None => bufferFrame # writing
    BY DEF FrameInv, FramesOwnedOnce
  <2>2. c # None /\ None \notin Cells
    BY FrameQueueAssumption
  <2>3. CellsOf(q) \cap (free \cup {bufferFrame, writing'}) = {}
    BY <1>1, <1>4, <1>5, <1>9, <2>1, <2>2
  <2>4. CellsOf(queue') \cap (freeQueue' \cup {bufferFrame', writing'}) = {}
    BY <1>3, <1>9, <2>3
  <2>5. freeQueue' \cap {bufferFrame', writing'} = {}
    BY <1>1, <1>3, <1>9, <2>1, <2>2, <2>3
  <2>6. bufferFrame' # None => bufferFrame' # writing'
    BY <1>3, <2>1
  <2>7. QED BY <1>9, <2>4, <2>5, <2>6 DEF FramesOwnedOnce, CellsOnce
<1>12. RenderedFrameStable'
  BY <1>3, <1>11, FrameQueueAssumption DEF FrameInv, RenderedFrameStable, FramesOwnedOnce
<1>13. StampsInOrder'
  <2> SUFFICES ASSUME counting
               PROVE  shownStamp' <= pushed' /\ Stamped(queue', shownStamp', pushed')
    BY DEF StampsInOrder
  <2>1. pushed' = pushed + 1 /\ f.stamp = pushed + 1 /\ shownStamp <= pushed
    BY <1>2, <1>3 DEF Count, FrameInv, StampsInOrder
  <2>2. Stamped(q, shownStamp, pushed + 1)
    BY <1>1, <1>2, <2>1, AppendStamped DEF FrameInv, StampsInOrder, q
  <2>3. Stamped(queue', shownStamp, pushed + 1)
    BY <1>1, <1>3, <1>4, <1>7, <2>2, RestStamped
  <2>4. QED BY <1>1, <1>3, <2>1, <2>3
<1>14. FramesAccounted'
  <2>1. /\ Len(queue') = Len(queue) + 1 - lost
        /\ lost \in Nat /\ Len(queue) \in Nat /\ Len(queue') \in Nat
    BY <1>3, <1>4, <1>7 DEF Rest
  <2>2. CASE counting
    BY <1>1, <1>3, <2>1, <2>2 DEF Count, FrameInv, TypeOK, CountersTypeOK, FramesAccounted
  <2>3. CASE ~counting
    BY <1>1, <1>3, <2>1, <2>3 DEF Count, FrameInv, TypeOK, CountersTypeOK, FramesAccounted
  <2>4. QED BY <2>2, <2>3
<1>15. FlagsTypeOK'
  <2>1. arrivalRateKnown' \in BOOLEAN /\ playoutResyncNeeded' \in BOOLEAN
    BY DEF Enqueue
  <2>2. QED BY <2>1 DEF Enqueue, configVars, FrameInv, TypeOK, FlagsTypeOK
<1>16. QED BY <1>10, <1>11, <1>12, <1>13, <1>14, <1>15 DEF Held

\* The k oldest frames leave the queue: the last of them goes on screen, the
\* others and the frame that was there go to the pool.
LEMMA PresentStep ==
  ASSUME FrameInv, counting' = counting, rendering = None,
         UNCHANGED <<writing, configVars>>,
         NEW k \in 1..Len(queue), NEW taken, Front(taken, queue, k), Present(taken),
         Rest(queue', queue, k), CountPresented(k - 1)
  PROVE  Held'
<1> DEFINE s == SubSeq(taken, 1, k - 1)
           f == queue[k]
<1>1. /\ queue \in Seq(QueuedFrame) /\ freeQueue \in SUBSET Cells /\ pushed \in Nat
      /\ bufferFrame \in Cells \cup {None} /\ writing \in Cells \cup {None}
      /\ shownStamp \in Nat /\ Len(queue) \in Nat /\ k \in Nat /\ k \in 0..Len(queue)
  BY DEF FrameInv, TypeOK, QueueTypeOK, CountersTypeOK
<1>2. taken \in Seq(QueuedFrame) /\ Len(taken) = k /\ taken[Len(taken)] = f
  BY <1>1 DEF Front
<1>3. /\ f \in QueuedFrame /\ f.cell \in Cells /\ f.stamp \in Nat
      /\ f.cell \in CellsOf(taken) /\ f.cell \in CellsOf(queue)
  <2>1. k \in DOMAIN queue /\ k \in DOMAIN taken
    BY <1>1, <1>2
  <2>2. QED BY <1>1, <1>2, <2>1, FrameFields DEF CellsOf
<1>4. /\ bufferFrame' = f.cell /\ rendering' = f.cell /\ outcome' = "consumed"
      /\ shownStamp' = f.stamp
      /\ freeQueue' = freeQueue \cup CellsOf(s) \cup ({bufferFrame} \ {None})
  BY <1>2 DEF Present, Show
<1>5. Front(s, taken, k - 1)
  BY <1>1, <1>2, SubSeqIsFront
<1>6. /\ CellsOnce(queue)
      /\ CellsOf(queue) \cap (freeQueue \cup {bufferFrame, writing}) = {}
      /\ freeQueue \cap {bufferFrame, writing} = {}
      /\ bufferFrame # None => bufferFrame # writing
  BY DEF FrameInv, FramesOwnedOnce, CellsOnce
<1>7. CellsOf(s) \subseteq CellsOf(taken) /\ f.cell \notin CellsOf(s)
  <2>1. /\ DOMAIN s = 1..(k - 1) /\ DOMAIN taken = 1..k /\ DOMAIN queue = 1..Len(queue)
        /\ \A i \in 1..(k - 1) : s[i] = taken[i] /\ s[i] = queue[i]
    BY <1>1, <1>2, <1>5 DEF Front
  <2>2. \A i \in DOMAIN s : i \in DOMAIN taken /\ i \in DOMAIN queue /\ i # k
    BY <1>1, <2>1
  <2>3. \A i \in DOMAIN s : s[i].cell # f.cell
    BY <1>1, <1>6, <2>1, <2>2 DEF CellsOnce
  <2>4. QED BY <2>1, <2>2, <2>3 DEF CellsOf
<1> HIDE DEF s, f
<1>8. /\ CellsOf(queue') \subseteq CellsOf(queue) /\ CellsOf(taken) \subseteq CellsOf(queue)
      /\ CellsOf(queue) \subseteq Cells /\ CellsOnce(queue')
      /\ CellsOf(queue') \cap CellsOf(taken) = {}
  BY <1>1, <1>6, SplitCells
<1>9. QueueTypeOK' /\ CountersTypeOK'
  <2>1. queue' \in Seq(QueuedFrame) /\ freeQueue' \in SUBSET Cells
    BY <1>1, <1>4, <1>7, <1>8 DEF Rest
  <2>2. QueueTypeOK'
    BY <1>1, <1>3, <1>4, <2>1 DEF QueueTypeOK
  <2>3. CountersTypeOK'
    BY <1>1, <1>3, <1>4 DEF CountPresented, configVars, Count, FrameInv, TypeOK,
       CountersTypeOK
  <2>4. QED BY <2>2, <2>3
<1>10. FramesOwnedOnce'
  <2>1. f.cell # None /\ None \notin Cells
    BY <1>3, FrameQueueAssumption
  <2>2. CellsOf(queue') \cap (freeQueue' \cup {bufferFrame', writing'}) = {}
    BY <1>3, <1>4, <1>6, <1>7, <1>8
  <2>3. freeQueue' \cap {bufferFrame', writing'} = {}
    BY <1>3, <1>4, <1>6, <1>7, <1>8, <2>1
  <2>4. bufferFrame' # writing'
    BY <1>3, <1>4, <1>6
  <2>5. QED BY <1>8, <2>2, <2>3, <2>4 DEF FramesOwnedOnce, CellsOnce
<1>11. RenderedFrameStable'
  BY <1>4, <1>10, FrameQueueAssumption DEF RenderedFrameStable, FramesOwnedOnce
<1>12. StampsInOrder'
  <2> SUFFICES ASSUME counting
               PROVE  shownStamp' <= pushed' /\ Stamped(queue', shownStamp', pushed')
    BY DEF StampsInOrder
  <2>1. pushed' = pushed /\ Stamped(queue, shownStamp, pushed)
    BY DEF CountPresented, FrameInv, StampsInOrder
  <2>2. Stamped(queue', queue[k].stamp, pushed) /\ queue[k].stamp <= pushed
    BY <1>1, <2>1, RestStamped
  <2>3. QED BY <1>4, <2>1, <2>2 DEF f
<1>13. FramesAccounted'
  <2>1. Len(queue') = Len(queue) - k
    BY DEF Rest
  <2>2. CASE counting
    BY <1>1, <2>1, <2>2 DEF CountPresented, Count, FrameInv, TypeOK, CountersTypeOK,
       FramesAccounted
  <2>3. CASE ~counting
    BY <1>1, <2>3 DEF CountPresented, Count, FrameInv, TypeOK, CountersTypeOK,
       FramesAccounted
  <2>4. QED BY <2>2, <2>3
<1>14. QED BY <1>9, <1>10, <1>11, <1>12, <1>13 DEF Held

\* A cell that can be acquired is nowhere but in the pool.
LEMMA AcquirableIsFree ==
  ASSUME FrameInv, NEW c \in Cells, Acquirable(c)
  PROVE  c \notin CellsOf(queue) /\ c # bufferFrame /\ c # writing /\ c # None
<1>1. c # None
  BY FrameQueueAssumption
<1>2. CASE c \in freeQueue
  BY <1>1, <1>2 DEF FrameInv, FramesOwnedOnce
<1>3. CASE c = Allocated
  <2>1. ~(Cells \subseteq InUse)
    BY <1>1, <1>3 DEF Allocated
  <2>2. \E d \in Cells \ InUse : TRUE
    BY <2>1
  <2>3. c \in Cells \ InUse
    BY <1>3, <2>1, <2>2 DEF Allocated
  <2>4. QED BY <1>1, <2>3 DEF InUse
<1>4. QED BY <1>2, <1>3 DEF Acquirable

\* The cell the decoder filled goes into the queue.
LEMMA PushTransferredStep ==
  ASSUME FrameInv, counting' = counting, PushTransferred
  PROVE  FrameInv'
<1>1. writing \in Cells /\ writing # None /\ writing' = None
  BY DEF PushTransferred, FrameInv, TypeOK, QueueTypeOK
<1>2. /\ writing \notin freeQueue /\ writing \notin CellsOf(queue)
      /\ writing # bufferFrame
  BY <1>1 DEF FrameInv, FramesOwnedOnce
<1>3. Enqueue(writing, freeQueue)
  BY DEF PushTransferred
<1>4. Held' /\ FlagsTypeOK'
  BY <1>1, <1>2, <1>3, EnqueueStep
<1>5. QED BY <1>4 DEF Held, FrameInv, TypeOK

\* A cell of the pool, or a new one, takes a reference to the decoder's frame.
LEMMA PushStep ==
  ASSUME FrameInv, counting' = counting, NEW c \in Cells, Push(c)
  PROVE  FrameInv'
<1>1. /\ c \notin CellsOf(queue) /\ c # bufferFrame /\ c # writing
      /\ writing' = writing
  BY AcquirableIsFree DEF Push
<1>2. /\ Enqueue(c, freeQueue \ {c}) /\ c \notin freeQueue \ {c}
      /\ freeQueue \ {c} \in SUBSET freeQueue
  BY DEF Push, PoolWithout
<1>3. Held' /\ FlagsTypeOK'
  BY <1>1, <1>2, EnqueueStep
<1>4. QED BY <1>3 DEF Held, FrameInv, TypeOK

\* A cell moves between the pool and the decoder, or is freed.
LEMMA PoolStep ==
  ASSUME FrameInv, counting' = counting,
         \/ RecycleWriteFrame
         \/ \E c \in Cells : AcquireWriteFrame(c) \/ PushFails(c)
  PROVE  FrameInv'
<1>1. UNCHANGED <<queue, displayVars, configVars, pacingVars, statVars>>
  BY DEF RecycleWriteFrame, AcquireWriteFrame, PushFails
<1>2. /\ freeQueue' \in SUBSET Cells /\ writing' \in Cells \cup {None}
      /\ CellsOf(queue) \cap (freeQueue' \cup {bufferFrame, writing'}) = {}
      /\ freeQueue' \cap {bufferFrame, writing'} = {}
      /\ bufferFrame # None => bufferFrame # writing'
  <2>1. /\ CellsOf(queue) \cap (freeQueue \cup {bufferFrame, writing}) = {}
        /\ freeQueue \cap {bufferFrame, writing} = {}
        /\ bufferFrame # None => bufferFrame # writing
        /\ freeQueue \in SUBSET Cells /\ writing \in Cells \cup {None}
        /\ bufferFrame \in Cells \cup {None}
    BY DEF FrameInv, FramesOwnedOnce, TypeOK, QueueTypeOK
  <2>2. CellsOf(queue) \subseteq Cells /\ None \notin Cells
    <3>1. \A i \in DOMAIN queue : queue[i].cell \in Cells
      BY FrameFields DEF FrameInv, TypeOK, QueueTypeOK
    <3>2. QED BY <3>1, FrameQueueAssumption DEF CellsOf
  <2>3. CASE RecycleWriteFrame
    BY <2>1, <2>2, <2>3 DEF RecycleWriteFrame
  <2>4. ASSUME NEW c \in Cells, AcquireWriteFrame(c)
        PROVE  /\ freeQueue' \in SUBSET Cells /\ writing' \in Cells \cup {None}
               /\ CellsOf(queue) \cap (freeQueue' \cup {bufferFrame, writing'}) = {}
               /\ freeQueue' \cap {bufferFrame, writing'} = {}
               /\ bufferFrame # None => bufferFrame # writing'
    <3>1. c \notin CellsOf(queue) /\ c # bufferFrame
      BY <2>4, AcquirableIsFree DEF AcquireWriteFrame
    <3>2. writing' = c /\ freeQueue' = freeQueue \ {c}
      BY <2>4 DEF AcquireWriteFrame, PoolWithout
    <3>3. QED BY <2>1, <2>2, <3>1, <3>2
  <2>5. ASSUME NEW c \in Cells, PushFails(c)
        PROVE  /\ freeQueue' \in SUBSET Cells /\ writing' \in Cells \cup {None}
               /\ CellsOf(queue) \cap (freeQueue' \cup {bufferFrame, writing'}) = {}
               /\ freeQueue' \cap {bufferFrame, writing'} = {}
               /\ bufferFrame # None => bufferFrame # writing'
    BY <2>1, <2>2, <2>5 DEF PushFails, PoolWithout
  <2>6. QED BY <2>3, <2>4, <2>5
<1>3. TypeOK'
  <2>1. QueueTypeOK'
    BY <1>1, <1>2 DEF FrameInv, TypeOK, QueueTypeOK, displayVars
  <2>2. CountersTypeOK'
    BY <1>1 DEF FrameInv, TypeOK, CountersTypeOK, displayVars, configVars, statVars
  <2>3. FlagsTypeOK'
    BY <1>1 DEF FrameInv, TypeOK, FlagsTypeOK, configVars, pacingVars
  <2>4. QED BY <2>1, <2>2, <2>3 DEF TypeOK
<1>4. FramesOwnedOnce'
  BY <1>1, <1>2 DEF FrameInv, FramesOwnedOnce, displayVars
<1>5. RenderedFrameStable'
  BY <1>1, <1>4, FrameQueueAssumption DEF FrameInv, RenderedFrameStable, FramesOwnedOnce, displayVars
<1>6. StampsInOrder' /\ FramesAccounted'
  BY <1>1 DEF FrameInv, StampsInOrder, FramesAccounted, displayVars, statVars
<1>7. QED BY <1>3, <1>4, <1>5, <1>6 DEF FrameInv

-----------------------------------------------------------------------------
(* pop() and the drawing.                                                  *)

\* A step that leaves the frames where they are.
LEMMA StillStep ==
  ASSUME FrameInv, counting' = counting,
         UNCHANGED <<queue, freeQueue, writing, bufferFrame, shownStamp, statVars>>,
         rendering' \in {rendering, bufferFrame, None},
         outcome' \in {outcome, "none", "consumed", "hold", "rebuffer", "empty", "overflow"},
         limit' \in Nat, targetBufferedFrames' \in Nat
  PROVE  Held'
<1>1. QueueTypeOK'
  BY DEF FrameInv, TypeOK, QueueTypeOK
<1>2. CountersTypeOK'
  BY DEF FrameInv, TypeOK, CountersTypeOK, statVars
<1>3. FramesOwnedOnce'
  BY DEF FrameInv, FramesOwnedOnce
<1>4. RenderedFrameStable'
  BY <1>3, FrameQueueAssumption DEF FrameInv, RenderedFrameStable, FramesOwnedOnce
<1>5. StampsInOrder' /\ FramesAccounted'
  BY DEF FrameInv, StampsInOrder, FramesAccounted, statVars
<1>6. QED BY <1>1, <1>2, <1>3, <1>4, <1>5 DEF Held

\* capacityFor and the target are frame counts.
LEMMA ConfigureStep ==
  ASSUME FrameInv, counting' = counting, NEW size \in QueueSizes,
         NEW ll \in BOOLEAN, NEW transfer \in BOOLEAN, Configure(size, ll, transfer)
  PROVE  FrameInv'
<1>1. size \in Nat /\ BurstHeadroom \in Nat
  BY FrameQueueAssumption
<1>2. Max({size, 1}) \in Nat /\ Max({size, 1}) >= 1
  BY <1>1, MaxOfTwo
<1>3. limit' \in Nat
  BY <1>1, <1>2 DEF Configure, CapacityFor
<1>4. targetBufferedFrames' \in Nat
  <2> DEFINE m == Max({size, 1})
  <2>1. targetBufferedFrames' = IF m > 1 THEN Min({m - 1, IF ll THEN 1 ELSE 2}) ELSE 0
    BY DEF Configure, TargetFor
  <2> HIDE DEF m
  <2>2. m \in Nat /\ (IF ll THEN 1 ELSE 2) \in Nat
    BY <1>2 DEF m
  <2>3. CASE m > 1
    <3>1. m - 1 \in Nat
      BY <2>2, <2>3
    <3>2. Min({m - 1, IF ll THEN 1 ELSE 2}) \in Nat
      BY <2>2, <3>1, MinOfTwo
    <3>3. QED BY <2>1, <2>3, <3>2
  <2>4. QED BY <2>1, <2>3
<1>5. Held'
  BY <1>3, <1>4, StillStep DEF Configure, displayVars, statVars
<1>6. FlagsTypeOK'
  <2>1. /\ configured' \in BOOLEAN /\ drawClockStarted' \in BOOLEAN
        /\ arrivalRateKnown' \in BOOLEAN /\ startupBuffering' \in BOOLEAN
        /\ playoutResyncNeeded' \in BOOLEAN
    BY DEF Configure
  <2>2. lowLatency' \in BOOLEAN /\ transferOwnership' \in BOOLEAN
    BY DEF Configure
  <2>3. QED BY <2>1, <2>2 DEF FrameInv, TypeOK, FlagsTypeOK
<1>7. QED BY <1>5, <1>6 DEF Held, FrameInv, TypeOK

\* A pop that keeps the frame on screen, the end of a draw and the end of a
\* stream leave the frames where they are.
LEMMA KeepStep ==
  ASSUME FrameInv, counting' = counting,
         \/ PopLowLatencyEmpty \/ PopLowLatencyHold \/ FinishDraw \/ EndStream
         \/ \E gap \in BOOLEAN : PopRebuffer(gap) \/ PopHold(gap) \/ PopUnderrun(gap)
  PROVE  FrameInv'
<1> USE DEF PopLowLatencyEmpty, PopLowLatencyHold, FinishDraw, EndStream, PopRebuffer,
            PopHold, PopUnderrun, ShowAgain, Show, configVars, pacingVars, displayVars
<1>1. /\ UNCHANGED <<queue, freeQueue, writing, bufferFrame, shownStamp, statVars>>
      /\ rendering' \in {rendering, bufferFrame, None}
      /\ UNCHANGED <<limit, targetBufferedFrames>>
  OBVIOUS
<1>2. outcome' \in {outcome, "none", "consumed", "hold", "rebuffer", "empty", "overflow"}
  OBVIOUS
<1>3. Held'
  BY <1>1, <1>2, StillStep DEF FrameInv, TypeOK, CountersTypeOK
<1>4. FlagsTypeOK'
  <2>1. /\ lowLatency' = lowLatency /\ transferOwnership' = transferOwnership
        /\ configured' \in {configured, FALSE}
        /\ drawClockStarted' \in {drawClockStarted, TRUE}
        /\ arrivalRateKnown' \in {arrivalRateKnown, FALSE}
        /\ startupBuffering' \in {startupBuffering, FALSE}
    OBVIOUS
  <2>2. playoutResyncNeeded' \in BOOLEAN
    BY DEF Resync, FrameInv, TypeOK, FlagsTypeOK
  <2>3. QED BY <2>1, <2>2 DEF FrameInv, TypeOK, FlagsTypeOK
<1>5. QED BY <1>3, <1>4 DEF Held, FrameInv, TypeOK

\* The low-latency path presents the newest frame.
LEMMA PopLowLatencyStep ==
  ASSUME FrameInv, counting' = counting, PopLowLatency
  PROVE  FrameInv'
<1> DEFINE k == Len(queue)
<1>1. queue \in Seq(QueuedFrame) /\ queue # <<>>
  BY DEF PopLowLatency, FrameInv, TypeOK, QueueTypeOK
<1>2. k \in 1..Len(queue) /\ Front(queue, queue, k)
  BY <1>1, EmptySeq DEF Front
<1>3. Rest(queue', queue, k)
  BY <1>1, <1>2, EmptySeq DEF PopLowLatency, Rest
<1>4. Present(queue) /\ CountPresented(k - 1) /\ rendering = None
  BY DEF PopLowLatency
<1>5. Held'
  BY <1>2, <1>3, <1>4, PresentStep DEF PopLowLatency
<1>6. FlagsTypeOK'
  BY DEF PopLowLatency, configVars, pacingVars, FrameInv, TypeOK, FlagsTypeOK
<1>7. QED BY <1>5, <1>6 DEF Held, FrameInv, TypeOK

\* A resync trims the queue to its window and presents the oldest frame of it.
LEMMA PopResyncStep ==
  ASSUME FrameInv, counting' = counting, NEW gap \in BOOLEAN, PopResync(gap)
  PROVE  FrameInv'
<1> DEFINE window == Newest(queue, targetBufferedFrames + 1)
           lost == Len(queue) - Len(window)
<1>1. /\ queue \in Seq(QueuedFrame) /\ queue # <<>> /\ targetBufferedFrames \in Nat
      /\ Len(queue) \in Nat \ {0}
  BY EmptySeq DEF PopResync, FrameInv, TypeOK, QueueTypeOK, CountersTypeOK
<1>2. targetBufferedFrames + 1 \in Nat
  BY <1>1
<1>3. /\ Rest(window, queue, lost)
      /\ Len(window) = IF Len(queue) <= targetBufferedFrames + 1 THEN Len(queue)
                       ELSE targetBufferedFrames + 1
  BY <1>1, <1>2, NewestIsRest
<1>4. /\ rendering = None /\ Present(SubSeq(queue, 1, lost + 1)) /\ queue' = Tail(window)
      /\ CountPresented(lost) /\ UNCHANGED <<writing, configVars>>
  BY DEF PopResync
<1>5. lost = Len(queue) - Len(window)
  OBVIOUS
<1> HIDE DEF window, lost
<1>6. window \in Seq(QueuedFrame) /\ Len(window) \in 1..Len(queue) /\ lost \in Nat
  BY <1>1, <1>3, <1>5 DEF Rest
<1>7. lost + 1 \in 1..Len(queue) /\ lost + 1 \in 0..Len(queue) /\ (lost + 1) - 1 = lost
  BY <1>1, <1>6, <1>5
<1>8. Front(SubSeq(queue, 1, lost + 1), queue, lost + 1)
  BY <1>1, <1>7, SubSeqIsFront
<1>9. Rest(queue', queue, lost + 1)
  <2>1. window # <<>>
    BY <1>6
  <2>2. QED BY <1>1, <1>3, <1>4, <1>6, <2>1, TailOfRest
<1>10. Held'
  BY <1>4, <1>7, <1>8, <1>9, PresentStep
<1>11. FlagsTypeOK'
  <2>1. /\ drawClockStarted' \in BOOLEAN /\ startupBuffering' \in BOOLEAN
        /\ playoutResyncNeeded' \in BOOLEAN /\ arrivalRateKnown' \in BOOLEAN
    BY DEF PopResync
  <2>2. QED BY <1>4, <2>1 DEF configVars, FrameInv, TypeOK, FlagsTypeOK
<1>12. QED BY <1>10, <1>11 DEF Held, FrameInv, TypeOK

\* The paced path presents the last of the frames that are due.
LEMMA PopPacedStep ==
  ASSUME FrameInv, counting' = counting, NEW gap \in BOOLEAN, PopPaced(gap)
  PROVE  FrameInv'
<1>1. /\ queue \in Seq(QueuedFrame) /\ queue # <<>> /\ limit \in Nat
      /\ Len(queue) \in Nat \ {0} /\ rendering = None
      /\ UNCHANGED <<writing, configVars>>
  BY EmptySeq DEF PopPaced, FrameInv, TypeOK, QueueTypeOK, CountersTypeOK
<1>2. PICK due \in DueFrames(gap) \ {0} :
        /\ Present(SubSeq(queue, 1, Min({due, Len(queue)})))
        /\ queue' = SubSeq(queue, Min({due, Len(queue)}) + 1, Len(queue))
        /\ CountPresented(Min({due, Len(queue)}) - 1)
  BY DEF PopPaced
<1>3. due \in Nat \ {0}
  BY <1>1 DEF DueFrames
<1> DEFINE n == Min({due, Len(queue)})
<1>4. n \in 1..Len(queue) /\ n \in 0..Len(queue)
  BY <1>1, <1>3, MinOfTwo
<1>5. /\ Present(SubSeq(queue, 1, n)) /\ queue' = SubSeq(queue, n + 1, Len(queue))
      /\ CountPresented(n - 1)
  BY <1>2
<1> HIDE DEF n
<1>6. Front(SubSeq(queue, 1, n), queue, n) /\ Rest(queue', queue, n)
  BY <1>1, <1>4, <1>5, SubSeqIsFront, SubSeqIsRest
<1>7. Held'
  BY <1>1, <1>4, <1>5, <1>6, PresentStep
<1>8. FlagsTypeOK'
  <2>1. drawClockStarted' \in BOOLEAN
    BY DEF PopPaced
  <2>2. QED BY <2>1 DEF PopPaced, configVars, FrameInv, TypeOK, FlagsTypeOK
<1>9. QED BY <1>7, <1>8 DEF Held, FrameInv, TypeOK

\* A frame that becomes due keeps its cell and its stamp.
LEMMA DeadlinePassesStep ==
  ASSUME FrameInv, counting' = counting, NEW i \in DOMAIN queue, DeadlinePasses(i)
  PROVE  FrameInv'
<1>1. queue \in Seq(QueuedFrame) /\ i \in 1..Len(queue)
  BY DEF FrameInv, TypeOK, QueueTypeOK
<1> DEFINE f == [queue[i] EXCEPT !.due = TRUE]
<1>2. f \in QueuedFrame /\ f.cell = queue[i].cell /\ f.stamp = queue[i].stamp
  <2>1. queue[i] \in QueuedFrame
    BY <1>1
  <2>2. QED BY <2>1 DEF QueuedFrame
<1>3. queue' = [queue EXCEPT ![i] = f]
  BY DEF DeadlinePasses
<1> HIDE DEF f
<1>4. /\ queue' \in Seq(QueuedFrame) /\ Len(queue') = Len(queue)
      /\ \A j \in 1..Len(queue) : queue'[j] = IF j = i THEN f ELSE queue[j]
  BY <1>1, <1>2, <1>3, ExceptSeq
<1>5. /\ DOMAIN queue' = DOMAIN queue
      /\ \A j \in DOMAIN queue : /\ queue'[j].cell = queue[j].cell
                                 /\ queue'[j].stamp = queue[j].stamp
  BY <1>1, <1>2, <1>4
<1>6. UNCHANGED <<freeQueue, writing, displayVars, configVars, pacingVars, statVars>>
  BY DEF DeadlinePasses
<1>7. TypeOK'
  <2>1. QueueTypeOK'
    BY <1>4, <1>6 DEF FrameInv, TypeOK, QueueTypeOK, displayVars
  <2>2. CountersTypeOK'
    BY <1>6 DEF FrameInv, TypeOK, CountersTypeOK, displayVars, configVars, statVars
  <2>3. FlagsTypeOK'
    BY <1>6 DEF FrameInv, TypeOK, FlagsTypeOK, configVars, pacingVars
  <2>4. QED BY <2>1, <2>2, <2>3 DEF TypeOK
<1>8. CellsOf(queue') = CellsOf(queue)
  BY <1>5 DEF CellsOf
<1>9. FramesOwnedOnce'
  BY <1>5, <1>6, <1>8 DEF FrameInv, FramesOwnedOnce, displayVars
<1>10. RenderedFrameStable'
  BY <1>6, <1>8 DEF FrameInv, RenderedFrameStable, displayVars
<1>11. StampsInOrder'
  <2> SUFFICES ASSUME counting
               PROVE  shownStamp' <= pushed' /\ Stamped(queue', shownStamp', pushed')
    BY DEF StampsInOrder
  <2>1. shownStamp' = shownStamp /\ pushed' = pushed
    BY <1>6 DEF displayVars, statVars
  <2>2. shownStamp <= pushed /\ Stamped(queue, shownStamp, pushed)
    BY DEF FrameInv, StampsInOrder
  <2>3. \A j \in DOMAIN queue : \A m \in 1..(j-1) : m \in DOMAIN queue
    BY <1>1
  <2>4. QED BY <1>5, <2>1, <2>2, <2>3 DEF Stamped
<1>12. FramesAccounted'
  BY <1>4, <1>6 DEF FrameInv, FramesAccounted, statVars
<1>13. QED BY <1>7, <1>9, <1>10, <1>11, <1>12 DEF FrameInv

\* cleanup() frees every frame and starts the counters again; nothing is
\* decoded at that point, and a frame that is drawn becomes a dangling pointer.
LEMMA CleanupStep ==
  ASSUME FrameInv, counting' = counting, Cleanup \/ SetupFails
  PROVE  FrameInv'
<1>0. queue' = <<>>
  BY DEF Cleanup, SetupFails, FreeAll
<1>1. queue' \in Seq(QueuedFrame) /\ Len(queue') = 0 /\ DOMAIN queue' = {}
  BY <1>0, EmptySeq
<1> USE DEF Cleanup, SetupFails, FreeAll
<1>2. rendering' \in {None, Dangling} /\ writing' = None
  OBVIOUS
<1>3. QueueTypeOK' /\ CountersTypeOK'
  BY <1>1, <1>2 DEF FrameInv, TypeOK, QueueTypeOK, CountersTypeOK
<1>4. FlagsTypeOK'
  <2>1. /\ configured' \in BOOLEAN /\ drawClockStarted' \in BOOLEAN
        /\ arrivalRateKnown' \in BOOLEAN /\ startupBuffering' \in BOOLEAN
        /\ playoutResyncNeeded' \in BOOLEAN
    OBVIOUS
  <2>2. QED BY <2>1 DEF FrameInv, TypeOK, FlagsTypeOK
<1>5. FramesOwnedOnce' /\ RenderedFrameStable'
  BY <1>1, <1>2, FrameQueueAssumption DEF FramesOwnedOnce, RenderedFrameStable, CellsOf
<1>6. StampsInOrder' /\ FramesAccounted'
  BY <1>1 DEF StampsInOrder, Stamped, FramesAccounted
<1>7. QED BY <1>3, <1>4, <1>5, <1>6 DEF FrameInv, TypeOK

-----------------------------------------------------------------------------

\* Nothing is queued before the first stream.
LEMMA InitFrameInv == Init => FrameInv
<1> SUFFICES ASSUME Init PROVE FrameInv
  OBVIOUS
<1> USE DEF Init
<1>1. queue \in Seq(QueuedFrame) /\ Len(queue) = 0 /\ DOMAIN queue = {}
  BY EmptySeq
<1>2. QueueTypeOK /\ CountersTypeOK
  BY <1>1 DEF QueueTypeOK, CountersTypeOK
<1>3. FlagsTypeOK
  BY DEF FlagsTypeOK
<1>4. FramesOwnedOnce /\ RenderedFrameStable
  BY <1>1, FrameQueueAssumption DEF FramesOwnedOnce, RenderedFrameStable, CellsOf
<1>5. StampsInOrder /\ FramesAccounted
  BY <1>1 DEF StampsInOrder, Stamped, FramesAccounted
<1>6. QED BY <1>2, <1>3, <1>4, <1>5 DEF FrameInv, TypeOK

\* Every step of the decoder and the UI thread keeps the invariant.
LEMMA NextFrameInv ==
  ASSUME FrameInv, [Next]_vars
  PROVE  FrameInv'
<1>1. ASSUME counting' = counting, Decode PROVE FrameInv'
  BY <1>1, PushTransferredStep, PushStep, PoolStep DEF Decode
<1>2. ASSUME counting' = counting, Draw PROVE FrameInv'
  BY <1>2, KeepStep, PopLowLatencyStep, PopResyncStep, PopPacedStep DEF Draw
<1>3. ASSUME counting' = counting,
             \/ \E size \in QueueSizes, ll \in BOOLEAN, transfer \in BOOLEAN :
                  Configure(size, ll, transfer)
             \/ \E i \in DOMAIN queue : DeadlinePasses(i)
             \/ EndStream \/ Cleanup \/ SetupFails
      PROVE  FrameInv'
  BY <1>3, ConfigureStep, DeadlinePassesStep, KeepStep, CleanupStep
<1>4. CASE UNCHANGED vars
  <2>1. Held'
    BY <1>4, StillStep DEF vars, displayVars, configVars, FrameInv, TypeOK, CountersTypeOK
  <2>2. FlagsTypeOK'
    BY <1>4 DEF vars, configVars, pacingVars, FrameInv, TypeOK, FlagsTypeOK
  <2>3. QED BY <2>1, <2>2 DEF Held, FrameInv, TypeOK
<1>5. QED BY <1>1, <1>2, <1>3, <1>4 DEF Next

\* The queue, the pool, the screen, the stamps and the statistics agree as
\* FrameInv says, over any number of frames and streams.
THEOREM FrameInvariant == Spec => []FrameInv
BY InitFrameInv, NextFrameInv, PTL DEF Spec

\* Every variable stays in its type; no counter goes below zero.
THEOREM FrameTypes == Spec => []TypeOK
<1>1. FrameInv => TypeOK
  BY DEF FrameInv
<1>2. QED BY <1>1, FrameInvariant, PTL

\* No AVFrame is at once queued, pooled, on screen or being filled by the
\* decoder, nor twice in the queue.
THEOREM OneOwnerPerFrame == Spec => []FramesOwnedOnce
<1>1. FrameInv => FramesOwnedOnce
  BY DEF FrameInv
<1>2. QED BY <1>1, FrameInvariant, PTL

\* Nobody recycles or decodes into the frame that AVFrameHolder::get draws
\* outside the lock, unless the decoder's own restart has freed it.
THEOREM DrawnFrameIsStable == Spec => []RenderedFrameStable
<1>1. FrameInv => RenderedFrameStable
  BY DEF FrameInv
<1>2. QED BY <1>1, FrameInvariant, PTL

\* Frames are displayed in the order they were decoded.
THEOREM PlayoutInOrder == Spec => []PlayoutOrder
<1>1. FrameInv => PlayoutOrder
  BY DEF FrameInv, StampsInOrder, Stamped, PlayoutOrder
<1>2. QED BY <1>1, FrameInvariant, PTL

\* Every decoded frame is presented, counted as a drop of one cause, or still
\* queued.
THEOREM EveryFrameCounted == Spec => []FramesAccounted
<1>1. FrameInv => FramesAccounted
  BY DEF FrameInv
<1>2. QED BY <1>1, FrameInvariant, PTL
=============================================================================
