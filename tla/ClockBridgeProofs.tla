-------------------------- MODULE ClockBridgeProofs --------------------------
(***************************************************************************)
(* Proofs about ClockBridge for every tolerance, divider, jitter and size  *)
(* of the clock steps: how far from its own time an edge may be judged,    *)
(* and that no snapshot of an edge stays in the game's field.              *)
(***************************************************************************)
EXTENDS ClockBridge, QueueLemmas, SequenceTheorems

-----------------------------------------------------------------------------
(* The inductive invariant.                                                *)

Labels == {"idle", "marker", "rebuild", "sample", "guard", "drop", "measure", "write",
           "replay", "convert", "judge"}

\* Before its frame tick is read a frame is here.
Starting == {"idle", "marker", "rebuild", "sample"}

\* What waits in the queue and in the ingress, and what is popped at once.
Waiting == [snap : Nat, lag : Nat \ {0}]
Message == [kind : Commands \cup {"EVENT"}, lag : Nat]
Burst == [snap : Nat, lag : Nat, origin : Nat, previous : Nat, behind : SUBSET Nat]

Flags == {halted, needsHard, gate, latch, marker, torn, reopened, apart} \subseteq BOOLEAN

Numbers ==
    /\ skew \in Nat \ {0} /\ lag \in Nat \ {0} /\ origin \in Nat \ {0}
    /\ last \in Nat /\ offset \in Nat /\ target \in Nat
    /\ frame \in [tick : Nat, fix : Nat \ {0}]
    /\ edge \in Burst
    /\ queue \in Seq(Waiting)
    /\ channel \in Seq(Message)

\* Where the main thread may be, and what it then holds.
Places ==
    /\ main \in Labels
    /\ halted => main = "idle"
    /\ main \in Starting \cup {"replay"} => edge = NoEdge
    /\ main = "convert" => edge.lag # 0
    /\ main # "write" => target = 0
    /\ main \notin Starting => frame.tick # 0
    /\ main = "judge" \/ (edge # NoEdge /\ main # "convert") => edge.origin # 0
    /\ ~gate => Len(queue) = 0

\* The audio cannot stall while an edge is on its way through the ingress.
Fresh == \A i \in 1..Len(channel) : channel[i].kind = "EVENT" => channel[i].lag = lag

\* The offset of the frame, which is put away while an edge is judged.
FrameOffset == IF main # "convert" /\ edge.snap # 0 THEN edge.previous ELSE offset

Steered == gate /\ ~needsHard /\ ~apart =>
               \/ main = "write" /\ target # 0
               \/ FrameOffset = last

\* What the guard lets an offset be wrong by.
Good(x) == /\ origin + lag - Tolerance < x
           /\ x < origin + lag + Tolerance + Jitter

GoodEdge(e) == e.lag = lag /\ (e.snap # 0 => Good(e.snap))

\* An offset will be used: edges can be queued, or one is replayed.
Live == gate \/ edge # NoEdge

\* An edge is judged, or the automatic hit inside of it steers the offset.
InJudgement == edge # NoEdge /\ main \in {"judge", "guard", "measure", "write"}

KeptGood == gate /\ last # 0 => Good(last)
QueueGood == \A i \in 1..Len(queue) : GoodEdge(queue[i])
OffsetGood == Live =>
    /\ main \in {"replay", "convert"} => Good(offset)
    /\ main \in Starting \cup {"guard", "measure"} /\ ~needsHard => Good(offset)
    /\ main = "write" => IF target = 0 THEN Good(offset) ELSE Good(target)
EdgeGood ==
    /\ main = "convert" => GoodEdge(edge) /\ edge.behind \subseteq {lag}
    /\ InJudgement => /\ Good(offset)
                      /\ edge.lag = lag /\ edge.origin = origin
                      /\ edge.behind \subseteq {lag}
                      /\ edge.snap # 0 => Good(edge.previous)

OnTime == ~torn /\ ~reopened /\ main # "drop" => KeptGood /\ QueueGood /\ OffsetGood /\ EdgeGood

Inv == Flags /\ Numbers /\ Places /\ Fresh /\ Steered /\ OnTime
-----------------------------------------------------------------------------
(* The ingress and the queue.                                              *)

\* A record that is posted, and one that is popped.
LEMMA Posted ==
    ASSUME channel \in Seq(Message), Fresh, NEW r \in Message, channel' = Append(channel, r),
           lag' = lag, r.kind = "EVENT" => r.lag = lag
    PROVE  channel' \in Seq(Message) /\ Fresh'
<1>1. /\ channel' \in Seq(Message)
      /\ Len(channel') = Len(channel) + 1
      /\ \A i \in 1..Len(channel) : channel'[i] = channel[i]
      /\ channel'[Len(channel) + 1] = r
  BY AppendFacts
<1>2. Len(channel) \in Nat
  OBVIOUS
<1>3. \A i \in 1..Len(channel') : i \in 1..Len(channel) \/ i = Len(channel) + 1
  BY <1>1, <1>2
<1> QED
  BY <1>1, <1>3 DEF Fresh

LEMMA Popped ==
    ASSUME channel \in Seq(Message), Fresh, channel # <<>>, channel' = Tail(channel), lag' = lag
    PROVE  /\ channel' \in Seq(Message) /\ Fresh'
           /\ Head(channel) \in Message
           /\ Head(channel).kind = "EVENT" => Head(channel).lag = lag
<1>1. /\ Len(channel) \in Nat \ {0}
      /\ Head(channel) = channel[1]
      /\ Head(channel) \in Message
      /\ Tail(channel) \in Seq(Message)
      /\ \A i \in 1..Len(Tail(channel)) :
            i + 1 \in 1..Len(channel) /\ Tail(channel)[i] = channel[i + 1]
  BY HeadTailFacts
<1> QED
  BY <1>1 DEF Fresh

\* A burst that is popped: its head, the lags behind it and what it leaves.
LEMMA BurstPopped ==
    ASSUME queue \in Seq(Waiting), PopBurst
    PROVE  /\ 1 \in 1..Len(queue)
           /\ \A i \in 1..Len(queue) : queue[i] \in Waiting
           /\ edge' \in Burst
           /\ edge'.snap = queue[1].snap /\ edge'.lag = queue[1].lag
           /\ edge'.origin = 0 /\ edge'.previous = 0
           /\ \A l \in edge'.behind : \E i \in 1..Len(queue) : l = queue[i].lag
           /\ queue' \in Seq(Waiting)
           /\ \A i \in 1..Len(queue') : \E j \in 1..Len(queue) : queue'[i] = queue[j]
<1>1. PICK n \in 1..Len(queue) :
         /\ edge' = [NoEdge EXCEPT !.snap = queue[1].snap, !.lag = queue[1].lag,
                                   !.behind = {queue[i].lag : i \in 2..n}]
         /\ queue' = SubSeq(queue, n + 1, Len(queue))
  BY DEF PopBurst
<1>2. Len(queue) \in Nat /\ 1 \in 1..Len(queue) /\ 2..n \subseteq 1..Len(queue)
  OBVIOUS
<1>3. \A i \in 1..Len(queue) : queue[i] \in Waiting
  OBVIOUS
<1>4. edge' = [snap |-> queue[1].snap, lag |-> queue[1].lag, origin |-> 0, previous |-> 0,
               behind |-> {queue[i].lag : i \in 2..n}]
  BY <1>1 DEF NoEdge
<1>5. queue[1].snap \in Nat /\ \A i \in 1..Len(queue) : queue[i].lag \in Nat
  BY <1>2, <1>3 DEF Waiting
<1>6. {queue[i].lag : i \in 2..n} \in SUBSET Nat
  BY <1>2, <1>5
<1>7. edge' \in Burst
  BY <1>2, <1>4, <1>5, <1>6 DEF Burst
<1>8. \A l \in edge'.behind : \E i \in 1..Len(queue) : l = queue[i].lag
  BY <1>2, <1>4
<1>9. /\ queue' \in Seq(Waiting)
      /\ \A i \in 1..Len(queue') : \E j \in 1..Len(queue) : queue'[i] = queue[j]
  <2>1. n + 1 \in Int /\ Len(queue) \in Int
        /\ \A i \in n + 1 .. Len(queue) : i \in 1..Len(queue) /\ queue[i] \in Waiting
    BY <1>2, <1>3
  <2>2. /\ queue' \in Seq(Waiting)
        /\ Len(queue') = IF n + 1 <= Len(queue) THEN Len(queue) - (n + 1) + 1 ELSE 0
        /\ \A i \in 1 .. Len(queue) - (n + 1) + 1 : queue'[i] = queue[n + 1 + i - 1]
    BY <1>1, <2>1, SubSeqProperties
  <2>3. ASSUME NEW i \in 1..Len(queue')
        PROVE  i \in 1 .. Len(queue) - (n + 1) + 1 /\ n + 1 + i - 1 \in 1..Len(queue)
    BY <1>2, <2>2
  <2> QED
    BY <2>2, <2>3
<1> QED
  BY <1>2, <1>3, <1>4, <1>7, <1>8, <1>9

-----------------------------------------------------------------------------
(* The parts of the invariant, action by action.                           *)

\* The flags stay flags.
LEMMA FlagsKept ==
    ASSUME Flags, [Next]_vars
    PROVE  Flags'
<1>1. CASE WallClockSteps
  BY <1>1 DEF WallClockSteps, Spend, Flags, clocks, steered, virtual, inFrame, history
<1>2. CASE AudioStalls
  BY <1>2 DEF AudioStalls, Spend, Flags, clocks, steered, virtual, inFrame, history
<1>3. CASE ActivityPauses
  BY <1>3
  DEF ActivityPauses, Post, Spend, Flags, clocks, steered, virtual, inFrame, history
<1>4. CASE ActivityResumes
  BY <1>4 DEF ActivityResumes, Post, Flags, clocks, steered, virtual, inFrame, history
<1>5. CASE Cancel
  BY <1>5 DEF Cancel, ClearRuntime, Flags, clocks, steered, virtual, inFrame, history
<1>6. CASE PostEdge
  BY <1>6 DEF PostEdge, Post, Spend, Flags, clocks, steered, virtual, inFrame, history
<1>7. ASSUME NEW kind \in Commands, PostCommand(kind) PROVE Flags'
  BY <1>7 DEF PostCommand, Post, Spend, Flags, clocks, steered, virtual, inFrame, history
<1>8. CASE EnqueueEdge
  BY <1>8 DEF EnqueueEdge, Flags, clocks, steered, virtual, inFrame, history
<1>9. CASE BeginCommand
  BY <1>9
  DEF BeginCommand, ClearRuntime, Flags, clocks, steered, virtual, inFrame, history
<1>10. CASE AlignOrigin
  BY <1>10 DEF AlignOrigin, Flags, clocks, steered, virtual, inFrame, history
<1>11. CASE MoveVirtualClock
  BY <1>11 DEF MoveVirtualClock, Flags, clocks, steered, virtual, inFrame, history
<1>12. CASE OpenCapture
  BY <1>12
  DEF OpenCapture, ClearRuntime, ForgetHistory, Flags, clocks, steered, virtual,
      inFrame, history
<1>13. CASE ConsumeMarker
  BY <1>13 DEF ConsumeMarker, Flags, clocks, steered, virtual, inFrame, history
<1>14. CASE RebuildVirtualClock
  BY <1>14 DEF RebuildVirtualClock, Flags, clocks, steered, virtual, inFrame, history
<1>15. CASE NewSession
  BY <1>15
  DEF NewSession, ClearRuntime, ForgetHistory, Flags, clocks, steered, virtual, inFrame,
      history
<1>16. CASE CloseCapture
  BY <1>16
  DEF CloseCapture, ClearRuntime, Flags, clocks, steered, virtual, inFrame, history
<1>17. CASE UpdateOffsetTime
  BY <1>17 DEF UpdateOffsetTime, Flags, clocks, steered, virtual, inFrame, history
<1>18. CASE SampleTick
  BY <1>18 DEF SampleTick, Flags, clocks, steered, virtual, inFrame, history
<1>19. CASE FrameGuard
  BY <1>19 DEF FrameGuard, Flags, clocks, steered, virtual, inFrame, history
<1>20. CASE FrameGuardRefused
  BY <1>20 DEF FrameGuardRefused, Flags, clocks, steered, virtual, inFrame, history
<1>21. CASE DropPending
  BY <1>21
  DEF DropPending, ClearRuntime, ForgetHistory, Flags, clocks, steered, virtual,
      inFrame, history
<1>22. CASE MeasureOffset
  BY <1>22 DEF MeasureOffset, Flags, clocks, steered, virtual, inFrame, history
<1>23. CASE WriteOffset
  BY <1>23 DEF WriteOffset, Flags, clocks, steered, virtual, inFrame, history
<1>24. CASE PopBurst
  BY <1>24 DEF PopBurst, Flags, clocks, steered, virtual, inFrame, history
<1>25. CASE ConvertAndSwap
  BY <1>25 DEF ConvertAndSwap, Flags, clocks, steered, virtual, inFrame, history
<1>26. CASE RestoreOffset
  BY <1>26 DEF RestoreOffset, Flags, clocks, steered, virtual, inFrame, history
<1>27. CASE AutoHit
  BY <1>27 DEF AutoHit, Spend, Flags, clocks, steered, virtual, inFrame, history
<1>28. CASE EndFrame
  BY <1>28 DEF EndFrame, Flags, clocks, steered, virtual, inFrame, history
<1>29. CASE UNCHANGED vars
  BY <1>29 DEF vars, Flags, clocks, steered, virtual, inFrame, history
<1>30. CASE MeasureNothing
  BY <1>30 DEF MeasureNothing, Flags, clocks, steered, virtual, inFrame, history
<1> QED
  BY <1>1, <1>2, <1>3, <1>4, <1>5, <1>6, <1>7, <1>8, <1>9, <1>10, <1>11, <1>12, <1>13,
     <1>14, <1>15, <1>16, <1>17, <1>18, <1>19, <1>20, <1>21, <1>22, <1>23, <1>24,
     <1>25, <1>26, <1>27, <1>28, <1>29, <1>30
  DEF Next, Worker, Frame

\* Where the main thread is.
LEMMA PlacesKept ==
    ASSUME Flags, Numbers, Places, [Next]_vars
    PROVE  Places'
<1>1. CASE WallClockSteps
  BY <1>1
  DEF WallClockSteps, Spend, Flags, Numbers, Places, Labels, Starting, NoEdge, clocks,
      steered, virtual, inFrame, history
<1>2. CASE AudioStalls
  BY <1>2
  DEF AudioStalls, Spend, Flags, Numbers, Places, Labels, Starting, NoEdge, clocks,
      steered, virtual, inFrame, history
<1>3. CASE ActivityPauses
  BY <1>3
  DEF ActivityPauses, Post, Spend, Flags, Numbers, Places, Labels, Starting, NoEdge,
      clocks, steered, virtual, inFrame, history
<1>4. CASE ActivityResumes
  BY <1>4
  DEF ActivityResumes, Post, Flags, Numbers, Places, Labels, Starting, NoEdge, clocks,
      steered, virtual, inFrame, history
<1>5. CASE Cancel
  BY <1>5
  DEF Cancel, ClearRuntime, Flags, Numbers, Places, Labels, Starting, NoEdge, clocks,
      steered, virtual, inFrame, history
<1>6. CASE PostEdge
  BY <1>6
  DEF PostEdge, Post, Spend, Flags, Numbers, Places, Labels, Starting, NoEdge, clocks,
      steered, virtual, inFrame, history
<1>7. ASSUME NEW kind \in Commands, PostCommand(kind) PROVE Places'
  BY <1>7
  DEF PostCommand, Post, Spend, Flags, Numbers, Places, Labels, Starting, NoEdge,
      clocks, steered, virtual, inFrame, history
<1>8. CASE EnqueueEdge
  BY <1>8
  DEF EnqueueEdge, Flags, Numbers, Places, Labels, Starting, NoEdge, clocks, steered,
      virtual, inFrame, history
<1>9. CASE BeginCommand
  BY <1>9
  DEF BeginCommand, ClearRuntime, Flags, Numbers, Places, Labels, Starting, NoEdge,
      clocks, steered, virtual, inFrame, history
<1>10. CASE AlignOrigin
  BY <1>10
  DEF AlignOrigin, Flags, Numbers, Places, Labels, Starting, NoEdge, clocks, steered,
      virtual, inFrame, history
<1>11. CASE MoveVirtualClock
  BY <1>11
  DEF MoveVirtualClock, Flags, Numbers, Places, Labels, Starting, NoEdge, clocks,
      steered, virtual, inFrame, history
<1>12. CASE OpenCapture
  BY <1>12
  DEF OpenCapture, ClearRuntime, ForgetHistory, Flags, Numbers, Places, Labels,
      Starting, NoEdge, clocks, steered, virtual, inFrame, history
<1>13. CASE ConsumeMarker
  BY <1>13
  DEF ConsumeMarker, Flags, Numbers, Places, Labels, Starting, NoEdge, clocks, steered,
      virtual, inFrame, history
<1>14. CASE RebuildVirtualClock
  BY <1>14
  DEF RebuildVirtualClock, Flags, Numbers, Places, Labels, Starting, NoEdge, clocks,
      steered, virtual, inFrame, history
<1>15. CASE NewSession
  BY <1>15
  DEF NewSession, ClearRuntime, ForgetHistory, Flags, Numbers, Places, Labels, Starting,
      NoEdge, clocks, steered, virtual, inFrame, history
<1>16. CASE CloseCapture
  BY <1>16
  DEF CloseCapture, ClearRuntime, Flags, Numbers, Places, Labels, Starting, NoEdge,
      clocks, steered, virtual, inFrame, history
<1>17. CASE UpdateOffsetTime
  BY <1>17
  DEF UpdateOffsetTime, Flags, Numbers, Places, Labels, Starting, NoEdge, clocks,
      steered, virtual, inFrame, history
<1>18. CASE SampleTick
  BY <1>18
  DEF SampleTick, Flags, Numbers, Places, Labels, Starting, NoEdge, clocks, steered,
      virtual, inFrame, history
<1>19. CASE FrameGuard
  BY <1>19
  DEF FrameGuard, Flags, Numbers, Places, Labels, Starting, NoEdge, clocks, steered,
      virtual, inFrame, history
<1>20. CASE FrameGuardRefused
  BY <1>20
  DEF FrameGuardRefused, Flags, Numbers, Places, Labels, Starting, NoEdge, clocks,
      steered, virtual, inFrame, history
<1>21. CASE DropPending
  BY <1>21
  DEF DropPending, ClearRuntime, ForgetHistory, Flags, Numbers, Places, Labels,
      Starting, NoEdge, clocks, steered, virtual, inFrame, history
<1>22. CASE MeasureOffset
  BY <1>22
  DEF MeasureOffset, Flags, Numbers, Places, Labels, Starting, NoEdge, clocks, steered,
      virtual, inFrame, history
<1>23. CASE WriteOffset
  BY <1>23
  DEF WriteOffset, Flags, Numbers, Places, Labels, Starting, NoEdge, clocks, steered,
      virtual, inFrame, history
<1>24. CASE PopBurst
  <2>1. edge'.lag # 0
    BY <1>24, BurstPopped DEF Numbers, Waiting
  <2>2. gate
    BY <1>24, BurstPopped DEF Numbers, Places
  <2>3. main = "replay" /\ main' = "convert" /\ UNCHANGED <<halted, gate, frame, target>>
    BY <1>24 DEF PopBurst, clocks
  <2> QED
    BY <2>1, <2>2, <2>3 DEF Places, Labels, Starting
<1>25. CASE ConvertAndSwap
  BY <1>25
  DEF ConvertAndSwap, Flags, Numbers, Places, Labels, Starting, NoEdge, clocks, steered,
      virtual, inFrame, history
<1>26. CASE RestoreOffset
  BY <1>26
  DEF RestoreOffset, Flags, Numbers, Places, Labels, Starting, NoEdge, clocks, steered,
      virtual, inFrame, history
<1>27. CASE AutoHit
  BY <1>27
  DEF AutoHit, Spend, Flags, Numbers, Places, Labels, Starting, NoEdge, clocks, steered,
      virtual, inFrame, history
<1>28. CASE EndFrame
  BY <1>28
  DEF EndFrame, Flags, Numbers, Places, Labels, Starting, NoEdge, clocks, steered,
      virtual, inFrame, history
<1>29. CASE UNCHANGED vars
  BY <1>29
  DEF vars, Flags, Numbers, Places, Labels, Starting, NoEdge, clocks, steered, virtual,
      inFrame, history
<1>30. CASE MeasureNothing
  BY <1>30
  DEF MeasureNothing, Flags, Numbers, Places, Labels, Starting, NoEdge, clocks, steered,
      virtual, inFrame, history
<1> QED
  BY <1>1, <1>2, <1>3, <1>4, <1>5, <1>6, <1>7, <1>8, <1>9, <1>10, <1>11, <1>12, <1>13,
     <1>14, <1>15, <1>16, <1>17, <1>18, <1>19, <1>20, <1>21, <1>22, <1>23, <1>24,
     <1>25, <1>26, <1>27, <1>28, <1>29, <1>30
  DEF Next, Worker, Frame

\* The lag of the edges in the ingress.
LEMMA FreshKept ==
    ASSUME Flags, Numbers, Places, Fresh, [Next]_vars
    PROVE  Fresh'
<1>1. CASE WallClockSteps
  BY <1>1
  DEF WallClockSteps, Spend, Flags, Numbers, Places, Fresh, clocks, steered, virtual,
      inFrame, history
<1>2. CASE AudioStalls
  BY <1>2
  DEF AudioStalls, Spend, Flags, Numbers, Places, Fresh, clocks, steered, virtual,
      inFrame, history
<1>3. CASE ActivityPauses
  <2>1. [kind |-> "SOFT_PAUSE", lag |-> 0] \in Message
    BY DEF Message, Commands, Numbers
  <2> QED
    BY <1>3, <2>1, Posted DEF ActivityPauses, Post, Numbers, clocks
<1>4. CASE ActivityResumes
  <2>1. [kind |-> "SOFT_RESUME", lag |-> 0] \in Message
    BY DEF Message, Commands, Numbers
  <2> QED
    BY <1>4, <2>1, Posted DEF ActivityResumes, Post, Numbers, clocks
<1>5. CASE Cancel
  BY <1>5
  DEF Cancel, ClearRuntime, Flags, Numbers, Places, Fresh, clocks, steered, virtual,
      inFrame, history
<1>6. CASE PostEdge
  <2>1. [kind |-> "EVENT", lag |-> lag] \in Message
    BY DEF Message, Commands, Numbers
  <2> QED
    BY <1>6, <2>1, Posted DEF PostEdge, Post, Numbers, clocks
<1>7. ASSUME NEW kind \in Commands, PostCommand(kind) PROVE Fresh'
  <2>1. [kind |-> kind, lag |-> 0] \in Message /\ kind # "EVENT"
    BY DEF Message, Commands
  <2> QED
    BY <1>7, <2>1, Posted DEF PostCommand, Post, Numbers, clocks
<1>8. CASE EnqueueEdge
  BY <1>8, Popped DEF EnqueueEdge, Numbers, clocks
<1>9. CASE BeginCommand
  BY <1>9, Popped DEF BeginCommand, Numbers, clocks
<1>10. CASE AlignOrigin
  BY <1>10
  DEF AlignOrigin, Flags, Numbers, Places, Fresh, clocks, steered, virtual, inFrame,
      history
<1>11. CASE MoveVirtualClock
  BY <1>11
  DEF MoveVirtualClock, Flags, Numbers, Places, Fresh, clocks, steered, virtual,
      inFrame, history
<1>12. CASE OpenCapture
  BY <1>12
  DEF OpenCapture, ClearRuntime, ForgetHistory, Flags, Numbers, Places, Fresh, clocks,
      steered, virtual, inFrame, history
<1>13. CASE ConsumeMarker
  BY <1>13
  DEF ConsumeMarker, Flags, Numbers, Places, Fresh, clocks, steered, virtual, inFrame,
      history
<1>14. CASE RebuildVirtualClock
  BY <1>14
  DEF RebuildVirtualClock, Flags, Numbers, Places, Fresh, clocks, steered, virtual,
      inFrame, history
<1>15. CASE NewSession
  BY <1>15
  DEF NewSession, ClearRuntime, ForgetHistory, Flags, Numbers, Places, Fresh, clocks,
      steered, virtual, inFrame, history
<1>16. CASE CloseCapture
  BY <1>16
  DEF CloseCapture, ClearRuntime, Flags, Numbers, Places, Fresh, clocks, steered,
      virtual, inFrame, history
<1>17. CASE UpdateOffsetTime
  BY <1>17
  DEF UpdateOffsetTime, Flags, Numbers, Places, Fresh, clocks, steered, virtual,
      inFrame, history
<1>18. CASE SampleTick
  BY <1>18
  DEF SampleTick, Flags, Numbers, Places, Fresh, clocks, steered, virtual, inFrame,
      history
<1>19. CASE FrameGuard
  BY <1>19
  DEF FrameGuard, Flags, Numbers, Places, Fresh, clocks, steered, virtual, inFrame,
      history
<1>20. CASE FrameGuardRefused
  BY <1>20
  DEF FrameGuardRefused, Flags, Numbers, Places, Fresh, clocks, steered, virtual,
      inFrame, history
<1>21. CASE DropPending
  BY <1>21
  DEF DropPending, ClearRuntime, ForgetHistory, Flags, Numbers, Places, Fresh, clocks,
      steered, virtual, inFrame, history
<1>22. CASE MeasureOffset
  BY <1>22
  DEF MeasureOffset, Flags, Numbers, Places, Fresh, clocks, steered, virtual, inFrame,
      history
<1>23. CASE WriteOffset
  BY <1>23
  DEF WriteOffset, Flags, Numbers, Places, Fresh, clocks, steered, virtual, inFrame,
      history
<1>24. CASE PopBurst
  BY <1>24
  DEF PopBurst, Flags, Numbers, Places, Fresh, clocks, steered, virtual, inFrame, history
<1>25. CASE ConvertAndSwap
  BY <1>25
  DEF ConvertAndSwap, Flags, Numbers, Places, Fresh, clocks, steered, virtual, inFrame,
      history
<1>26. CASE RestoreOffset
  BY <1>26
  DEF RestoreOffset, Flags, Numbers, Places, Fresh, clocks, steered, virtual, inFrame,
      history
<1>27. CASE AutoHit
  BY <1>27
  DEF AutoHit, Spend, Flags, Numbers, Places, Fresh, clocks, steered, virtual, inFrame,
      history
<1>28. CASE EndFrame
  BY <1>28
  DEF EndFrame, Flags, Numbers, Places, Fresh, clocks, steered, virtual, inFrame,
      history
<1>29. CASE UNCHANGED vars
  BY <1>29
  DEF vars, Flags, Numbers, Places, Fresh, clocks, steered, virtual, inFrame, history
<1>30. CASE MeasureNothing
  BY <1>30 DEF MeasureNothing, Fresh, clocks
<1> QED
  BY <1>1, <1>2, <1>3, <1>4, <1>5, <1>6, <1>7, <1>8, <1>9, <1>10, <1>11, <1>12, <1>13,
     <1>14, <1>15, <1>16, <1>17, <1>18, <1>19, <1>20, <1>21, <1>22, <1>23, <1>24,
     <1>25, <1>26, <1>27, <1>28, <1>29, <1>30
  DEF Next, Worker, Frame

-----------------------------------------------------------------------------
(* The numbers.                                                            *)

LEMMA Bounds ==
    /\ Base \in Nat \ {0} /\ Tolerance \in Nat \ {0} /\ Divider \in Nat \ {0}
    /\ BurstLength \in Nat /\ Jitter \in Nat /\ StallSize \in Nat
    /\ MaxSteps \in Nat /\ MaxStalls \in Nat /\ MaxPosts \in Nat
    /\ MaxEdges \in Nat /\ MaxAutoHits \in Nat
    /\ StepSizes \subseteq Int
BY ClockBridgeAssumption

\* A frame with another fix_divider, and a queue with one edge more or none.
LEMMA FixedFrame ==
    ASSUME frame \in [tick : Nat, fix : Nat \ {0}], NEW n \in Nat \ {0}
    PROVE  [frame EXCEPT !.fix = n] \in [tick : Nat, fix : Nat \ {0}]
OBVIOUS

LEMMA Queued ==
    ASSUME NEW q \in Seq(Waiting), NEW a \in Nat, NEW b \in Nat \ {0}
    PROVE  /\ Append(q, [snap |-> a, lag |-> b]) \in Seq(Waiting)
           /\ <<[snap |-> a, lag |-> b]>> \in Seq(Waiting)
BY DEF Waiting

LEMMA EmptyQueue == <<>> \in Seq(Waiting)
OBVIOUS

LEMMA EmptyChannel == <<>> \in Seq(Message)
OBVIOUS

\* What a division by fix_divider leaves.
LEMMA Divided ==
    ASSUME NEW a \in Nat, NEW n \in Nat \ {0}
    PROVE  a \div n \in 0..a
OBVIOUS

\* One smoothed step goes towards the measured offset and not beyond it.
LEMMA SmoothedBetween ==
    ASSUME frame.fix \in Nat \ {0}, NEW old \in Int, NEW measured \in Int, old # measured
    PROVE  /\ Smoothed(old, measured) \in Int
           /\ IF old < measured
              THEN old < Smoothed(old, measured) /\ Smoothed(old, measured) <= measured
              ELSE measured <= Smoothed(old, measured) /\ Smoothed(old, measured) < old
<1>1. CASE old < measured
  <2>1. measured - old \in Nat /\ ~(measured - old < 0) /\ measured - old > 0
    BY <1>1
  <2>2. (measured - old) \div frame.fix \in 0..(measured - old)
    BY <2>1, Divided
  <2>3. Quotient(measured - old, frame.fix) \in 0..(measured - old)
    BY <2>1, <2>2 DEF Quotient
  <2> QED
    BY <1>1, <2>1, <2>3 DEF Smoothed
<1>2. CASE measured < old
  <2>1. old - measured \in Nat /\ measured - old < 0 /\ ~(measured - old > 0)
        /\ -(measured - old) = old - measured
    BY <1>2
  <2>2. (old - measured) \div frame.fix \in 0..(old - measured)
    BY <2>1, Divided
  <2>3. -Quotient(measured - old, frame.fix) \in 0..(old - measured)
        /\ Quotient(measured - old, frame.fix) \in Int
    BY <2>1, <2>2 DEF Quotient
  <2> QED
    BY <1>2, <2>1, <2>3 DEF Smoothed
<1> QED
  BY <1>1, <1>2

\* The numbers stay numbers.
LEMMA NumbersKept ==
    ASSUME Flags, Numbers, Places, Fresh, [Next]_vars
    PROVE  Numbers'
<1>1. CASE WallClockSteps
  BY <1>1, Bounds
  DEF WallClockSteps, Spend, Numbers, Message, Waiting, Burst, NoEdge, clocks, steered,
      virtual, inFrame, history
<1>2. CASE AudioStalls
  BY <1>2, Bounds
  DEF AudioStalls, Spend, Numbers, Message, Waiting, Burst, NoEdge, clocks, steered, virtual,
      inFrame, history
<1>3. CASE ActivityPauses
  <2>1. [kind |-> "SOFT_PAUSE", lag |-> 0] \in Message
    BY DEF Message, Commands, Numbers
  <2> QED
    BY <1>3, <2>1, Posted DEF ActivityPauses, Post, Numbers, clocks, steered, inFrame
<1>4. CASE ActivityResumes
  <2>1. [kind |-> "SOFT_RESUME", lag |-> 0] \in Message
    BY DEF Message, Commands, Numbers
  <2> QED
    BY <1>4, <2>1, Posted DEF ActivityResumes, Post, Numbers, clocks, steered, inFrame
<1>5. CASE Cancel
  BY <1>5
  DEF Cancel, ClearRuntime, Numbers, Message, Waiting, Burst, NoEdge, clocks, steered, virtual,
      inFrame, history
<1>6. CASE PostEdge
  <2>1. [kind |-> "EVENT", lag |-> lag] \in Message
    BY DEF Message, Commands, Numbers
  <2> QED
    BY <1>6, <2>1, Posted DEF PostEdge, Post, Numbers, clocks, steered, inFrame
<1>7. ASSUME NEW kind \in Commands, PostCommand(kind) PROVE Numbers'
  <2>1. [kind |-> kind, lag |-> 0] \in Message /\ kind # "EVENT"
    BY DEF Message, Commands
  <2> QED
    BY <1>7, <2>1, Posted DEF PostCommand, Post, Numbers, clocks, steered, inFrame
<1>8. CASE EnqueueEdge
  <2>1. channel' \in Seq(Message) /\ Head(channel).lag = lag
    BY <1>8, Popped DEF EnqueueEdge, Numbers, clocks
  <2>2. Head(channel).lag \in Nat \ {0}
    BY <2>1 DEF Numbers
  <2>3. queue' \in Seq(Waiting) /\ last' \in Nat
    <3>1. /\ Append(queue, [snap |-> last, lag |-> Head(channel).lag]) \in Seq(Waiting)
          /\ <<[snap |-> 0, lag |-> Head(channel).lag]>> \in Seq(Waiting)
      BY <2>2, Queued DEF Numbers
    <3>2. \/ queue' = queue /\ last' = last
          \/ /\ queue' = Append(queue, [snap |-> last, lag |-> Head(channel).lag])
             /\ last' = last
          \/ queue' = <<[snap |-> 0, lag |-> Head(channel).lag]>> /\ last' = 0
      BY <1>8 DEF EnqueueEdge
    <3>3. queue \in Seq(Waiting) /\ last \in Nat /\ 0 \in Nat
      BY DEF Numbers
    <3> QED
      BY <3>1, <3>2, <3>3, Zenon
  <2> QED
    BY <1>8, <2>1, <2>3 DEF EnqueueEdge, Numbers, clocks, inFrame
<1>9. CASE BeginCommand
  <2>1. channel' \in Seq(Message)
    BY <1>9, Popped DEF BeginCommand, Numbers, clocks
  <2>2. queue' \in Seq(Waiting) /\ last' \in Nat
    <3>1. (queue' = <<>> /\ last' = 0) \/ (queue' = queue /\ last' = last)
      BY <1>9 DEF BeginCommand, ClearRuntime
    <3>2. queue \in Seq(Waiting) /\ last \in Nat /\ 0 \in Nat
      BY DEF Numbers
    <3> QED
      BY <3>1, <3>2, EmptyQueue, Zenon
  <2> QED
    BY <1>9, <2>1, <2>2 DEF BeginCommand, Numbers, clocks, inFrame
<1>10. CASE AlignOrigin
  BY <1>10
  DEF AlignOrigin, Numbers, Message, Waiting, Burst, NoEdge, clocks, steered, virtual, inFrame,
      history
<1>11. CASE MoveVirtualClock
  BY <1>11
  DEF MoveVirtualClock, Numbers, Message, Waiting, Burst, NoEdge, clocks, steered, virtual,
      inFrame, history
<1>12. CASE OpenCapture
  <2>1. frame' \in [tick : Nat, fix : Nat \ {0}]
    BY <1>12, Bounds, FixedFrame DEF OpenCapture, Numbers
  <2>2. (queue' = <<>> /\ last' = 0) \/ (queue' = queue /\ last' = last)
    BY <1>12 DEF OpenCapture, ClearRuntime
  <2>3. queue' \in Seq(Waiting) /\ last' \in Nat
    <3>1. queue \in Seq(Waiting) /\ last \in Nat /\ 0 \in Nat
      BY DEF Numbers
    <3> QED
      BY <2>2, <3>1, EmptyQueue, Zenon
  <2> QED
    BY <1>12, <2>1, <2>3 DEF OpenCapture, Numbers, clocks
<1>13. CASE ConsumeMarker
  BY <1>13
  DEF ConsumeMarker, Numbers, Message, Waiting, Burst, NoEdge, clocks, steered, virtual,
      inFrame, history
<1>14. CASE RebuildVirtualClock
  BY <1>14
  DEF RebuildVirtualClock, Numbers, Message, Waiting, Burst, NoEdge, clocks, steered, virtual,
      inFrame, history
<1>15. CASE NewSession
  <2>1. frame' \in [tick : Nat, fix : Nat \ {0}]
    BY <1>15, Bounds, FixedFrame DEF NewSession, Numbers
  <2>2. (queue' = <<>> /\ last' = 0) \/ (queue' = queue /\ last' = last)
    BY <1>15 DEF NewSession, ClearRuntime
  <2>3. queue' \in Seq(Waiting) /\ last' \in Nat
    <3>1. queue \in Seq(Waiting) /\ last \in Nat /\ 0 \in Nat
      BY DEF Numbers
    <3> QED
      BY <2>2, <3>1, EmptyQueue, Zenon
  <2> QED
    BY <1>15, <2>1, <2>3 DEF NewSession, Numbers, clocks
<1>16. CASE CloseCapture
  BY <1>16
  DEF CloseCapture, ClearRuntime, Numbers, Message, Waiting, Burst, NoEdge, clocks, steered,
      virtual, inFrame, history
<1>17. CASE UpdateOffsetTime
  <2>1. offset' \in Nat
    <3>1. offset' = offset \/ offset' \in skew + lag .. skew + lag + Jitter
      BY <1>17 DEF UpdateOffsetTime, Measurements
    <3> QED
      BY <3>1, Bounds DEF Numbers
  <2>2. frame' \in [tick : Nat, fix : Nat \ {0}]
    <3>1. frame' = frame \/ \E n \in {1, Divider} : frame' = [frame EXCEPT !.fix = n]
      BY <1>17 DEF UpdateOffsetTime
    <3>2. frame \in [tick : Nat, fix : Nat \ {0}] /\ 1 \in Nat \ {0} /\ Divider \in Nat \ {0}
      BY Bounds DEF Numbers
    <3> QED
      BY <3>1, <3>2, FixedFrame
  <2> QED
    BY <1>17, <2>1, <2>2 DEF UpdateOffsetTime, Numbers, clocks
<1>18. CASE SampleTick
  BY <1>18
  DEF SampleTick, Numbers, Message, Waiting, Burst, NoEdge, clocks, steered, virtual, inFrame,
      history
<1>19. CASE FrameGuard
  BY <1>19
  DEF FrameGuard, Numbers, Message, Waiting, Burst, NoEdge, clocks, steered, virtual, inFrame,
      history
<1>20. CASE FrameGuardRefused
  BY <1>20
  DEF FrameGuardRefused, Numbers, Message, Waiting, Burst, NoEdge, clocks, steered, virtual,
      inFrame, history
<1>21. CASE DropPending
  BY <1>21
  DEF DropPending, ClearRuntime, ForgetHistory, Numbers, Message, Waiting, Burst, NoEdge,
      clocks, steered, virtual, inFrame, history
<1>22. CASE MeasureOffset
  <2>1. target' \in Nat
    <3>1. PICK measured \in Measurements(frame.tick) :
             target' = IF needsHard \/ offset = 0 \/ frame.fix <= 1 THEN measured
                       ELSE IF measured = offset THEN 0
                       ELSE Smoothed(offset, measured)
      BY <1>22 DEF MeasureOffset
    <3>2. measured \in Nat
      BY Bounds DEF Measurements, Numbers
    <3>3. /\ frame.fix \in Nat \ {0} /\ offset \in Int /\ offset \in Nat
          /\ measured \in Int
      BY <3>2 DEF Numbers
    <3>4. measured # offset => Smoothed(offset, measured) \in Nat
      BY <3>2, <3>3, SmoothedBetween
    <3> QED
      BY <3>1, <3>2, <3>4
  <2> QED
    BY <1>22, <2>1 DEF MeasureOffset, Numbers, clocks
<1>23. CASE WriteOffset
  BY <1>23
  DEF WriteOffset, Numbers, Message, Waiting, Burst, NoEdge, clocks, steered, virtual, inFrame,
      history
<1>24. CASE PopBurst
  <2>1. edge' \in Burst /\ queue' \in Seq(Waiting)
    BY <1>24, BurstPopped DEF Numbers
  <2> QED
    BY <1>24, <2>1 DEF PopBurst, Numbers, clocks, steered
<1>25. CASE ConvertAndSwap
  BY <1>25
  DEF ConvertAndSwap, Numbers, Message, Waiting, Burst, NoEdge, clocks, steered, virtual,
      inFrame, history
<1>26. CASE RestoreOffset
  BY <1>26
  DEF RestoreOffset, Numbers, Message, Waiting, Burst, NoEdge, clocks, steered, virtual,
      inFrame, history
<1>27. CASE AutoHit
  BY <1>27
  DEF AutoHit, Spend, Numbers, Message, Waiting, Burst, NoEdge, clocks, steered, virtual,
      inFrame, history
<1>28. CASE EndFrame
  BY <1>28, Bounds
  DEF EndFrame, Numbers, Message, Waiting, Burst, NoEdge, clocks, steered, virtual, inFrame,
      history
<1>29. CASE UNCHANGED vars
  BY <1>29
  DEF vars, Numbers, Message, Waiting, Burst, NoEdge, clocks, steered, virtual, inFrame,
      history
<1>30. CASE MeasureNothing
  BY <1>30 DEF MeasureNothing, Numbers, clocks, steered, inFrame
<1> QED
  BY <1>1, <1>2, <1>3, <1>4, <1>5, <1>6, <1>7, <1>8, <1>9, <1>10, <1>11, <1>12, <1>13,
     <1>14, <1>15, <1>16, <1>17, <1>18, <1>19, <1>20, <1>21, <1>22, <1>23, <1>24,
     <1>25, <1>26, <1>27, <1>28, <1>29, <1>30
  DEF Next, Worker, Frame

-----------------------------------------------------------------------------
(* The offset between frames.                                             *)

\* The offset of the frame is the one that was steered to.
LEMMA SteeredKept ==
    ASSUME Flags, Numbers, Places, Steered, [Next]_vars
    PROVE  Steered'
<1>1. CASE WallClockSteps
  BY <1>1
  DEF WallClockSteps, Spend, Steered, FrameOffset, Flags, Numbers, Places, Starting,
      NoEdge, clocks, steered, virtual, inFrame, history
<1>2. CASE AudioStalls
  BY <1>2
  DEF AudioStalls, Spend, Steered, FrameOffset, Flags, Numbers, Places, Starting,
      NoEdge, clocks, steered, virtual, inFrame, history
<1>3. CASE ActivityPauses
  BY <1>3
  DEF ActivityPauses, Post, Spend, Steered, FrameOffset, Flags, Numbers, Places,
      Starting, NoEdge, clocks, steered, virtual, inFrame, history
<1>4. CASE ActivityResumes
  BY <1>4
  DEF ActivityResumes, Post, Steered, FrameOffset, Flags, Numbers, Places, Starting,
      NoEdge, clocks, steered, virtual, inFrame, history
<1>5. CASE Cancel
  BY <1>5
  DEF Cancel, ClearRuntime, Steered, FrameOffset, Flags, Numbers, Places, Starting,
      NoEdge, clocks, steered, virtual, inFrame, history
<1>6. CASE PostEdge
  BY <1>6
  DEF PostEdge, Post, Spend, Steered, FrameOffset, Flags, Numbers, Places, Starting,
      NoEdge, clocks, steered, virtual, inFrame, history
<1>7. ASSUME NEW kind \in Commands, PostCommand(kind) PROVE Steered'
  BY <1>7
  DEF PostCommand, Post, Spend, Steered, FrameOffset, Flags, Numbers, Places, Starting,
      NoEdge, clocks, steered, virtual, inFrame, history
<1>8. CASE EnqueueEdge
  BY <1>8
  DEF EnqueueEdge, Steered, FrameOffset, Flags, Numbers, Places, Starting, NoEdge,
      clocks, steered, virtual, inFrame, history
<1>9. CASE BeginCommand
  <2>1. gate' = FALSE \/ UNCHANGED <<gate, needsHard, last>>
    BY <1>9 DEF BeginCommand
  <2>2. UNCHANGED <<offset, apart, main, target, edge>>
    BY <1>9 DEF BeginCommand, inFrame, history
  <2> QED
    BY <2>1, <2>2 DEF Steered, FrameOffset
<1>10. CASE AlignOrigin
  BY <1>10
  DEF AlignOrigin, Steered, FrameOffset, Flags, Numbers, Places, Starting, NoEdge,
      clocks, steered, virtual, inFrame, history
<1>11. CASE MoveVirtualClock
  BY <1>11
  DEF MoveVirtualClock, Steered, FrameOffset, Flags, Numbers, Places, Starting, NoEdge,
      clocks, steered, virtual, inFrame, history
<1>12. CASE OpenCapture
  BY <1>12
  DEF OpenCapture, ClearRuntime, ForgetHistory, Steered, FrameOffset, Flags, Numbers,
      Places, Starting, NoEdge, clocks, steered, virtual, inFrame, history
<1>13. CASE ConsumeMarker
  BY <1>13
  DEF ConsumeMarker, Steered, FrameOffset, Flags, Numbers, Places, Starting, NoEdge,
      clocks, steered, virtual, inFrame, history
<1>14. CASE RebuildVirtualClock
  BY <1>14
  DEF RebuildVirtualClock, Steered, FrameOffset, Flags, Numbers, Places, Starting,
      NoEdge, clocks, steered, virtual, inFrame, history
<1>15. CASE NewSession
  BY <1>15
  DEF NewSession, ClearRuntime, ForgetHistory, Steered, FrameOffset, Flags, Numbers,
      Places, Starting, NoEdge, clocks, steered, virtual, inFrame, history
<1>16. CASE CloseCapture
  BY <1>16
  DEF CloseCapture, ClearRuntime, Steered, FrameOffset, Flags, Numbers, Places,
      Starting, NoEdge, clocks, steered, virtual, inFrame, history
<1>17. CASE UpdateOffsetTime
  BY <1>17
  DEF UpdateOffsetTime, Steered, FrameOffset, Flags, Numbers, Places, Starting, NoEdge,
      clocks, steered, virtual, inFrame, history
<1>18. CASE SampleTick
  BY <1>18
  DEF SampleTick, Steered, FrameOffset, Flags, Numbers, Places, Starting, NoEdge,
      clocks, steered, virtual, inFrame, history
<1>19. CASE FrameGuard
  BY <1>19
  DEF FrameGuard, Steered, FrameOffset, Flags, Numbers, Places, Starting, NoEdge,
      clocks, steered, virtual, inFrame, history
<1>20. CASE FrameGuardRefused
  BY <1>20
  DEF FrameGuardRefused, Steered, FrameOffset, Flags, Numbers, Places, Starting, NoEdge,
      clocks, steered, virtual, inFrame, history
<1>21. CASE DropPending
  BY <1>21
  DEF DropPending, ClearRuntime, ForgetHistory, Steered, FrameOffset, Flags, Numbers,
      Places, Starting, NoEdge, clocks, steered, virtual, inFrame, history
<1>22. CASE MeasureOffset
  <2> DEFINE hard == needsHard \/ offset = 0 \/ frame.fix <= 1
  <2>1. /\ main = "measure" /\ main' = "write"
        /\ UNCHANGED <<gate, apart, edge, offset, last>>
        /\ needsHard' = (needsHard /\ ~hard)
    BY <1>22 DEF MeasureOffset, inFrame, history
  <2>2. CASE hard
    <3>1. target' \in Measurements(frame.tick)
      BY <1>22, <2>2 DEF MeasureOffset
    <3>2. target' # 0
      BY <2>1, <3>1, Bounds DEF Measurements, Numbers, Places, Starting
    <3> QED
      BY <2>1, <3>2 DEF Steered
  <2>3. CASE ~hard
    <3>1. ~needsHard
      BY <2>3
    <3>2. FrameOffset' = FrameOffset
      BY <2>1 DEF FrameOffset
    <3> QED
      BY <2>1, <3>1, <3>2 DEF Steered
  <2> QED
    BY <2>2, <2>3
<1>23. CASE WriteOffset
  <2>1. /\ main = "write" /\ main' \in {"replay", "judge"}
        /\ UNCHANGED <<gate, needsHard, edge>>
    BY <1>23 DEF WriteOffset
  <2>2. CASE target = 0
    <3>1. offset' = offset /\ last' = last /\ apart' = apart
      BY <1>23, <2>2 DEF WriteOffset, Flags
    <3> QED
      BY <2>1, <2>2, <3>1 DEF Steered, FrameOffset
  <2>3. CASE target # 0
    <3>1. offset' = target /\ last' = target
      BY <1>23, <2>3 DEF WriteOffset
    <3>2. edge.snap = 0 \/ apart'
      <4>1. CASE edge = NoEdge
        BY <4>1 DEF NoEdge
      <4>2. CASE edge # NoEdge /\ edge.snap # 0
        <5>1. apart' = (apart \/ (target # 0 /\ edge.snap # 0))
          BY <1>23, <4>2 DEF WriteOffset
        <5> QED
          BY <2>3, <4>2, <5>1
      <4> QED
        BY <4>1, <4>2
    <3> QED
      BY <2>1, <3>1, <3>2 DEF Steered, FrameOffset
  <2> QED
    BY <2>2, <2>3
<1>24. CASE PopBurst
  BY <1>24
  DEF PopBurst, Steered, FrameOffset, Flags, Numbers, Places, Starting, NoEdge, clocks,
      steered, virtual, inFrame, history
<1>25. CASE ConvertAndSwap
  BY <1>25
  DEF ConvertAndSwap, Steered, FrameOffset, Flags, Numbers, Places, Starting, NoEdge,
      clocks, steered, virtual, inFrame, history
<1>26. CASE RestoreOffset
  BY <1>26
  DEF RestoreOffset, Steered, FrameOffset, Flags, Numbers, Places, Starting, NoEdge,
      clocks, steered, virtual, inFrame, history
<1>27. CASE AutoHit
  BY <1>27
  DEF AutoHit, Spend, Steered, FrameOffset, Flags, Numbers, Places, Starting, NoEdge,
      clocks, steered, virtual, inFrame, history
<1>28. CASE EndFrame
  BY <1>28
  DEF EndFrame, Steered, FrameOffset, Flags, Numbers, Places, Starting, NoEdge, clocks,
      steered, virtual, inFrame, history
<1>29. CASE UNCHANGED vars
  BY <1>29
  DEF vars, Steered, FrameOffset, Flags, Numbers, Places, Starting, NoEdge, clocks,
      steered, virtual, inFrame, history
<1>30. CASE MeasureNothing
  BY <1>30
  DEF MeasureNothing, Steered, FrameOffset, clocks, steered, inFrame
<1> QED
  BY <1>1, <1>2, <1>3, <1>4, <1>5, <1>6, <1>7, <1>8, <1>9, <1>10, <1>11, <1>12, <1>13,
     <1>14, <1>15, <1>16, <1>17, <1>18, <1>19, <1>20, <1>21, <1>22, <1>23, <1>24,
     <1>25, <1>26, <1>27, <1>28, <1>29, <1>30
  DEF Next, Worker, Frame

-----------------------------------------------------------------------------
(* The song time of the edges.                                            *)

\* What the drop, the snapshots and the hard reset keep.
LEMMA OnTimeKept ==
    ASSUME Inv, [Next]_vars
    PROVE  OnTime'
<1>1. CASE WallClockSteps
  BY <1>1
  DEF WallClockSteps, Spend, OnTime, KeptGood, QueueGood, OffsetGood, Live, EdgeGood,
      GoodEdge, InJudgement, Good, Flags, Numbers, Places, Starting, NoEdge, clocks,
      steered, virtual, inFrame, history, Inv
<1>2. CASE AudioStalls
  BY <1>2
  DEF AudioStalls, Spend, OnTime, KeptGood, QueueGood, OffsetGood, Live, EdgeGood, GoodEdge,
      InJudgement, Good, Flags, Numbers, Places, Starting, NoEdge, clocks, steered,
      virtual, inFrame, history, Inv
<1>3. CASE ActivityPauses
  BY <1>3
  DEF ActivityPauses, Post, Spend, OnTime, KeptGood, QueueGood, OffsetGood, Live, EdgeGood,
      GoodEdge, InJudgement, Good, Flags, Numbers, Places, Starting, NoEdge, clocks,
      steered, virtual, inFrame, history, Inv
<1>4. CASE ActivityResumes
  BY <1>4
  DEF ActivityResumes, Post, OnTime, KeptGood, QueueGood, OffsetGood, Live, EdgeGood,
      GoodEdge, InJudgement, Good, Flags, Numbers, Places, Starting, NoEdge, clocks,
      steered, virtual, inFrame, history, Inv
<1>5. CASE Cancel
  BY <1>5
  DEF Cancel, ClearRuntime, OnTime, KeptGood, QueueGood, OffsetGood, Live, EdgeGood, GoodEdge,
      InJudgement, Good, Flags, Numbers, Places, Starting, NoEdge, clocks, steered,
      virtual, inFrame, history, Inv
<1>6. CASE PostEdge
  BY <1>6
  DEF PostEdge, Post, Spend, OnTime, KeptGood, QueueGood, OffsetGood, Live, EdgeGood,
      GoodEdge, InJudgement, Good, Flags, Numbers, Places, Starting, NoEdge, clocks,
      steered, virtual, inFrame, history, Inv
<1>7. ASSUME NEW kind \in Commands, PostCommand(kind) PROVE OnTime'
  BY <1>7
  DEF PostCommand, Post, Spend, OnTime, KeptGood, QueueGood, OffsetGood, Live, EdgeGood,
      GoodEdge, InJudgement, Good, Flags, Numbers, Places, Starting, NoEdge, clocks,
      steered, virtual, inFrame, history, Inv
<1>8. CASE EnqueueEdge
  <2> SUFFICES ASSUME ~torn, ~reopened, main # "drop"
               PROVE  KeptGood' /\ QueueGood' /\ OffsetGood' /\ EdgeGood'
    BY <1>8 DEF EnqueueEdge, history, OnTime
  <2>1. KeptGood /\ QueueGood /\ OffsetGood /\ EdgeGood
    BY DEF Inv, OnTime
  <2>2. UNCHANGED <<lag, origin, offset, gate, main, edge, target>>
    BY <1>8 DEF EnqueueEdge, clocks, inFrame
  <2>3. \/ queue' = queue /\ last' = last /\ needsHard' = needsHard
        \/ /\ gate /\ last' = last /\ needsHard' = needsHard
           /\ queue' = Append(queue, [snap |-> last, lag |-> Head(channel).lag])
        \/ /\ last' = 0 /\ needsHard' = TRUE
           /\ queue' = <<[snap |-> 0, lag |-> Head(channel).lag]>>
    BY <1>8 DEF EnqueueEdge
  <2>4. Head(channel).lag = lag
    BY <1>8, Popped DEF EnqueueEdge, Inv, Numbers, clocks
  <2>5. KeptGood'
    BY <2>1, <2>2, <2>3 DEF KeptGood, Good
  <2>6. QueueGood'
    <3>1. CASE queue' = queue
      BY <2>1, <2>2, <3>1 DEF QueueGood, GoodEdge, Good
    <3>2. CASE gate /\ queue' = Append(queue, [snap |-> last, lag |-> Head(channel).lag])
      <4>1. queue \in Seq(Waiting) /\ last \in Nat /\ lag \in Nat \ {0}
        BY DEF Inv, Numbers
      <4>2. [snap |-> last, lag |-> lag] \in Waiting
        BY <4>1 DEF Waiting
      <4>3. /\ Len(queue') = Len(queue) + 1 /\ Len(queue) \in Nat
            /\ \A k \in 1..Len(queue) : queue'[k] = queue[k]
            /\ queue'[Len(queue) + 1] = [snap |-> last, lag |-> lag]
        BY <2>4, <3>2, <4>1, <4>2, AppendFacts
      <4>4. GoodEdge([snap |-> last, lag |-> lag])
        BY <2>1, <3>2 DEF KeptGood, GoodEdge
      <4>5. \A i \in 1..Len(queue') : GoodEdge(queue'[i])
        <5> SUFFICES ASSUME NEW i \in 1..Len(queue') PROVE GoodEdge(queue'[i])
          OBVIOUS
        <5>1. i = Len(queue) + 1 \/ i \in 1..Len(queue)
          BY <4>3
        <5> QED
          BY <2>1, <4>3, <4>4, <5>1 DEF QueueGood
      <4> QED
        BY <2>2, <4>5 DEF QueueGood, GoodEdge, Good
    <3>3. CASE queue' = <<[snap |-> 0, lag |-> Head(channel).lag]>>
      <4>1. \A i \in 1..Len(queue') : queue'[i] = [snap |-> 0, lag |-> lag]
        BY <2>4, <3>3
      <4> QED
        BY <2>2, <4>1 DEF QueueGood, GoodEdge
    <3> QED
      BY <2>3, <3>1, <3>2, <3>3
  <2>7. OffsetGood' /\ EdgeGood'
    BY <2>1, <2>2, <2>3 DEF OffsetGood, Live, EdgeGood, GoodEdge, InJudgement, Good
  <2> QED
    BY <2>5, <2>6, <2>7
<1>9. CASE BeginCommand
  BY <1>9
  DEF BeginCommand, ClearRuntime, OnTime, KeptGood, QueueGood, OffsetGood, Live, EdgeGood,
      GoodEdge, InJudgement, Good, Flags, Numbers, Places, Starting, NoEdge, clocks,
      steered, virtual, inFrame, history, Inv
<1>10. CASE AlignOrigin
  <2>1. UNCHANGED <<lag, last, needsHard, offset, gate, queue, main, edge, target, torn>>
    BY <1>10 DEF AlignOrigin, clocks, steered, inFrame
  <2>2. CASE origin' = origin
    <3>1. reopened => reopened'
      BY <1>10 DEF AlignOrigin
    <3> QED
      BY <2>1, <2>2, <3>1
      DEF Inv, OnTime, KeptGood, QueueGood, OffsetGood, Live, EdgeGood, GoodEdge, InJudgement,
          Good
  <2>3. CASE origin' # origin
    <3>1. reopened' \/ (~gate /\ edge = NoEdge)
      BY <1>10, <2>3 DEF AlignOrigin
    <3>2. ~gate => 1..Len(queue) = {}
      BY DEF Inv, Places
    <3>3. main = "convert" => edge # NoEdge
      BY DEF Inv, Places, NoEdge
    <3> QED
      BY <2>1, <3>1, <3>2, <3>3
      DEF Inv, OnTime, KeptGood, QueueGood, OffsetGood, Live, EdgeGood, InJudgement, Starting
  <2> QED
    BY <2>2, <2>3
<1>11. CASE MoveVirtualClock
  BY <1>11
  DEF MoveVirtualClock, OnTime, KeptGood, QueueGood, OffsetGood, Live, EdgeGood, GoodEdge,
      InJudgement, Good, Flags, Numbers, Places, Starting, NoEdge, clocks, steered,
      virtual, inFrame, history, Inv
<1>12. CASE OpenCapture
  BY <1>12
  DEF OpenCapture, ClearRuntime, ForgetHistory, OnTime, KeptGood, QueueGood, OffsetGood, Live,
      EdgeGood, GoodEdge, InJudgement, Good, Flags, Numbers, Places, Starting, NoEdge,
      clocks, steered, virtual, inFrame, history, Inv
<1>13. CASE ConsumeMarker
  BY <1>13
  DEF ConsumeMarker, OnTime, KeptGood, QueueGood, OffsetGood, Live, EdgeGood, GoodEdge,
      InJudgement, Good, Flags, Numbers, Places, Starting, NoEdge, clocks, steered,
      virtual, inFrame, history, Inv
<1>14. CASE RebuildVirtualClock
  BY <1>14
  DEF RebuildVirtualClock, OnTime, KeptGood, QueueGood, OffsetGood, Live, EdgeGood, GoodEdge,
      InJudgement, Good, Flags, Numbers, Places, Starting, NoEdge, clocks, steered,
      virtual, inFrame, history, Inv
<1>15. CASE NewSession
  BY <1>15
  DEF NewSession, ClearRuntime, ForgetHistory, OnTime, KeptGood, QueueGood, OffsetGood, Live,
      EdgeGood, GoodEdge, InJudgement, Good, Flags, Numbers, Places, Starting, NoEdge,
      clocks, steered, virtual, inFrame, history, Inv
<1>16. CASE CloseCapture
  BY <1>16
  DEF CloseCapture, ClearRuntime, OnTime, KeptGood, QueueGood, OffsetGood, Live, EdgeGood,
      GoodEdge, InJudgement, Good, Flags, Numbers, Places, Starting, NoEdge, clocks,
      steered, virtual, inFrame, history, Inv
<1>17. CASE UpdateOffsetTime
  BY <1>17
  DEF UpdateOffsetTime, OnTime, KeptGood, QueueGood, OffsetGood, Live, EdgeGood, GoodEdge,
      InJudgement, Good, Flags, Numbers, Places, Starting, NoEdge, clocks, steered,
      virtual, inFrame, history, Inv
<1>18. CASE SampleTick
  BY <1>18
  DEF SampleTick, OnTime, KeptGood, QueueGood, OffsetGood, Live, EdgeGood, GoodEdge,
      InJudgement, Good, Flags, Numbers, Places, Starting, NoEdge, clocks, steered,
      virtual, inFrame, history, Inv
<1>19. CASE FrameGuard
  BY <1>19
  DEF FrameGuard, OnTime, KeptGood, QueueGood, OffsetGood, Live, EdgeGood, GoodEdge,
      InJudgement, Good, Flags, Numbers, Places, Starting, NoEdge, clocks, steered,
      virtual, inFrame, history, Inv
<1>20. CASE FrameGuardRefused
  BY <1>20
  DEF FrameGuardRefused, OnTime, KeptGood, QueueGood, OffsetGood, Live, EdgeGood, GoodEdge,
      InJudgement, Good, Flags, Numbers, Places, Starting, NoEdge, clocks, steered,
      virtual, inFrame, history, Inv
<1>21. CASE DropPending
  <2>1. /\ last' = 0 /\ needsHard' = TRUE /\ queue' = <<>>
        /\ main' = "measure" /\ edge' = edge
        /\ torn' = (edge # NoEdge)
    BY <1>21 DEF DropPending, ClearRuntime, ForgetHistory, inFrame
  <2>2. 1..Len(queue') = {}
    BY <2>1
  <2> QED
    BY <2>1, <2>2
    DEF OnTime, KeptGood, QueueGood, OffsetGood, Live, EdgeGood, InJudgement
<1>22. CASE MeasureOffset
  <2> SUFFICES ASSUME ~torn', ~reopened'
               PROVE  KeptGood' /\ QueueGood' /\ OffsetGood' /\ EdgeGood'
    BY DEF OnTime
  <2> DEFINE hard == needsHard \/ offset = 0 \/ frame.fix <= 1
  <2>1. /\ main = "measure" /\ main' = "write"
        /\ UNCHANGED <<lag, origin, last, offset, gate, queue, edge, reopened>>
        /\ ~torn /\ ~(Distance(frame.tick, origin) >= Tolerance)
    BY <1>22 DEF MeasureOffset, clocks
  <2>2. KeptGood /\ QueueGood /\ OffsetGood /\ EdgeGood
    BY <2>1 DEF Inv, OnTime
  <2>3. /\ frame.tick \in Nat /\ frame.fix \in Nat \ {0} /\ offset \in Nat
        /\ lag \in Nat /\ origin \in Nat /\ Jitter \in Nat /\ Tolerance \in Nat \ {0}
    BY Bounds DEF Inv, Numbers
  <2>4. \A measured \in Measurements(frame.tick) : Good(measured) /\ measured \in Nat
    BY <2>1, <2>3 DEF Measurements, Distance, Good
  <2>5. Live => IF target' = 0 THEN Good(offset) ELSE Good(target')
    <3> SUFFICES ASSUME Live PROVE IF target' = 0 THEN Good(offset) ELSE Good(target')
      OBVIOUS
    <3>1. PICK measured \in Measurements(frame.tick) :
             target' = IF hard THEN measured
                       ELSE IF measured = offset THEN 0
                       ELSE Smoothed(offset, measured)
      BY <1>22 DEF MeasureOffset
    <3>2. Good(measured) /\ measured \in Nat
      BY <2>4
    <3>3. CASE hard
      <4>1. measured # 0
        BY <2>1, <2>3 DEF Measurements, Inv, Places, Starting
      <4> QED
        BY <3>1, <3>2, <3>3, <4>1
    <3>4. CASE ~hard
      <4>1. Good(offset)
        BY <2>1, <2>2, <3>4 DEF OffsetGood
      <4>2. measured # offset => Good(Smoothed(offset, measured))
        <5> SUFFICES ASSUME measured # offset PROVE Good(Smoothed(offset, measured))
          OBVIOUS
        <5>1. offset \in Int /\ measured \in Int
          BY <2>3, <3>2
        <5>2. /\ Smoothed(offset, measured) \in Int
              /\ IF offset < measured
                 THEN offset < Smoothed(offset, measured)
                        /\ Smoothed(offset, measured) <= measured
                 ELSE measured <= Smoothed(offset, measured)
                        /\ Smoothed(offset, measured) < offset
          BY <2>3, <5>1, SmoothedBetween
        <5> QED
          BY <2>3, <3>2, <4>1, <5>1, <5>2 DEF Good
      <4> QED
        BY <3>1, <3>2, <3>4, <4>1, <4>2
    <3> QED
      BY <3>3, <3>4
  <2>7. KeptGood' /\ QueueGood'
    BY <2>1, <2>2 DEF KeptGood, QueueGood, GoodEdge, Good
  <2>8. OffsetGood'
    BY <2>1, <2>5 DEF OffsetGood, Live, Starting, Good
  <2>9. EdgeGood'
    BY <2>1, <2>2 DEF EdgeGood, InJudgement, Good
  <2> QED
    BY <2>7, <2>8, <2>9
<1>23. CASE WriteOffset
  BY <1>23
  DEF WriteOffset, OnTime, KeptGood, QueueGood, OffsetGood, Live, EdgeGood, GoodEdge,
      InJudgement, Good, Flags, Numbers, Places, Starting, NoEdge, clocks, steered,
      virtual, inFrame, history, Inv
<1>24. CASE PopBurst
  <2> SUFFICES ASSUME ~torn, ~reopened
               PROVE  KeptGood' /\ QueueGood' /\ OffsetGood' /\ EdgeGood'
    BY <1>24 DEF PopBurst, history, OnTime
  <2>1. /\ main = "replay" /\ main' = "convert"
        /\ UNCHANGED <<lag, origin, last, needsHard, offset, gate, target>>
    BY <1>24 DEF PopBurst, clocks, steered
  <2>2. KeptGood /\ QueueGood /\ OffsetGood
    BY <2>1 DEF Inv, OnTime
  <2>3. /\ 1 \in 1..Len(queue)
        /\ edge'.snap = queue[1].snap /\ edge'.lag = queue[1].lag
        /\ \A l \in edge'.behind : \E i \in 1..Len(queue) : l = queue[i].lag
        /\ \A i \in 1..Len(queue') : \E j \in 1..Len(queue) : queue'[i] = queue[j]
    BY <1>24, BurstPopped DEF Inv, Numbers
  <2>4. gate
    BY <2>3 DEF Inv, Places
  <2>5. GoodEdge(queue[1]) /\ \A l \in edge'.behind : l = lag
    BY <2>2, <2>3 DEF QueueGood, GoodEdge
  <2>6. KeptGood' /\ OffsetGood'
    BY <2>1, <2>2, <2>4 DEF KeptGood, OffsetGood, Live, Good, Starting
  <2>7. QueueGood'
    BY <2>1, <2>2, <2>3 DEF QueueGood, GoodEdge, Good
  <2>8. EdgeGood'
    BY <2>1, <2>3, <2>5 DEF EdgeGood, GoodEdge, InJudgement, Good
  <2> QED
    BY <2>6, <2>7, <2>8
<1>25. CASE ConvertAndSwap
  BY <1>25
  DEF ConvertAndSwap, OnTime, KeptGood, QueueGood, OffsetGood, Live, EdgeGood, GoodEdge,
      InJudgement, Good, Flags, Numbers, Places, Starting, NoEdge, clocks, steered,
      virtual, inFrame, history, Inv
<1>26. CASE RestoreOffset
  BY <1>26
  DEF RestoreOffset, OnTime, KeptGood, QueueGood, OffsetGood, Live, EdgeGood, GoodEdge,
      InJudgement, Good, Flags, Numbers, Places, Starting, NoEdge, clocks, steered,
      virtual, inFrame, history, Inv
<1>27. CASE AutoHit
  BY <1>27
  DEF AutoHit, Spend, OnTime, KeptGood, QueueGood, OffsetGood, Live, EdgeGood, GoodEdge,
      InJudgement, Good, Flags, Numbers, Places, Starting, NoEdge, clocks, steered,
      virtual, inFrame, history, Inv
<1>28. CASE EndFrame
  BY <1>28
  DEF EndFrame, OnTime, KeptGood, QueueGood, OffsetGood, Live, EdgeGood, GoodEdge,
      InJudgement, Good, Flags, Numbers, Places, Starting, NoEdge, clocks, steered,
      virtual, inFrame, history, Inv
<1>29. CASE UNCHANGED vars
  BY <1>29
  DEF vars, OnTime, KeptGood, QueueGood, OffsetGood, Live, EdgeGood, GoodEdge, InJudgement,
      Good, Flags, Numbers, Places, Starting, NoEdge, clocks, steered, virtual, inFrame,
      history, Inv
<1>30. CASE MeasureNothing
  <2> SUFFICES ASSUME ~torn', ~reopened'
               PROVE  KeptGood' /\ QueueGood' /\ OffsetGood' /\ EdgeGood'
    BY DEF OnTime
  <2>1. /\ main = "measure" /\ main' = "write" /\ ~torn /\ ~needsHard
        /\ UNCHANGED <<lag, origin, last, offset, gate, queue, edge, target, reopened>>
    BY <1>30 DEF MeasureNothing, clocks, steered, inFrame
  <2>2. KeptGood /\ QueueGood /\ OffsetGood /\ EdgeGood /\ target = 0
    BY <2>1 DEF Inv, OnTime, Places
  <2> QED
    BY <2>1, <2>2
    DEF KeptGood, QueueGood, OffsetGood, Live, EdgeGood, GoodEdge, InJudgement, Good, Starting
<1> QED
  BY <1>1, <1>2, <1>3, <1>4, <1>5, <1>6, <1>7, <1>8, <1>9, <1>10, <1>11, <1>12, <1>13,
     <1>14, <1>15, <1>16, <1>17, <1>18, <1>19, <1>20, <1>21, <1>22, <1>23, <1>24,
     <1>25, <1>26, <1>27, <1>28, <1>29, <1>30
  DEF Next, Worker, Frame

-----------------------------------------------------------------------------
(* How large an offset can get.                                            *)

Budgeted ==
    budget \in [steps : Nat, stalls : Nat, posts : Nat, edges : Nat, autoHits : Nat]

\* What the clocks may still move apart.
Moves == budget.steps + budget.stalls
Spare == Moves * LargestStep
Reach == Base + 1 + (MaxSteps + MaxStalls) * LargestStep

WithinReach == /\ skew + lag + Spare <= Reach
               /\ main \notin Starting => frame.tick + lag <= Reach

Frozen == /\ last <= Ceiling /\ offset <= Ceiling /\ target <= Ceiling
          /\ edge.snap <= Ceiling /\ edge.previous <= Ceiling
          /\ \A i \in 1..Len(queue) : queue[i].snap <= Ceiling

\* No step of a clock exceeds the largest one, which is at least a stall.
LEMMA Largest ==
    /\ LargestStep \in Nat /\ StallSize <= LargestStep
    /\ \A d \in StepSizes : d <= LargestStep
<1> DEFINE Sizes == StepSizes \cup {StallSize}
<1>1. StepSizes \subseteq Int /\ StallSize \in Nat
  BY Bounds
<1>2. \E m \in Sizes : \A d \in Sizes : d <= m
  <2>1. PICK m \in Sizes : \A d \in StepSizes : d <= m
    BY ClockBridgeAssumption
  <2>2. CASE StallSize <= m
    BY <2>1, <2>2
  <2>3. CASE ~(StallSize <= m)
    <3>1. \A d \in Sizes : d <= StallSize
      BY <1>1, <2>1, <2>3
    <3> QED
      BY <3>1
  <2> QED
    BY <2>2, <2>3
<1>3. LargestStep \in Sizes /\ \A d \in Sizes : d <= LargestStep
  BY <1>2 DEF LargestStep
<1> QED
  BY <1>1, <1>3

LEMMA OneStepLess ==
    ASSUME NEW b \in Nat \ {0}, NEW c, c = b - 1
    PROVE  c \in Nat /\ c * LargestStep + LargestStep = b * LargestStep
BY Largest

LEMMA Limits == Reach \in Nat /\ Ceiling = Reach + Jitter + 1 /\ Jitter \in Nat
BY Largest, Bounds DEF Reach, Ceiling

\* Only a step or a stall moves the clocks apart.
LEMMA Spent ==
    ASSUME Budgeted, NEW what \in {"steps", "stalls", "posts", "edges", "autoHits"},
           Spend(what)
    PROVE  /\ Budgeted'
           /\ IF what \in {"steps", "stalls"}
              THEN Moves \in Nat \ {0} /\ Moves' = Moves - 1
              ELSE Moves' = Moves
BY DEF Budgeted, Spend, Moves

LEMMA SpareCounts == Budgeted => Moves \in Nat /\ Spare \in Nat
<1> SUFFICES ASSUME Budgeted PROVE Moves \in Nat /\ Spare \in Nat
  OBVIOUS
<1>1. Moves \in Nat
  BY DEF Budgeted, Moves
<1> QED
  BY <1>1, Largest DEF Spare

LEMMA Balance ==
    ASSUME NEW a \in Nat, NEW b \in Nat, NEW c \in Nat, NEW d \in Int, NEW e \in Nat,
           NEW n \in Nat, d <= n, e + n = c
    PROVE  /\ (a + d) + b + e <= a + b + c
           /\ a + (b + d) + e <= a + b + c
OBVIOUS

LEMMA SpareKept ==
    ASSUME Budgeted, Numbers, [Next]_vars
    PROVE  /\ Budgeted' /\ Spare' \in Nat
           /\ skew' + lag' + Spare' <= skew + lag + Spare
<1>0. skew \in Nat /\ lag \in Nat /\ Spare \in Nat
  BY SpareCounts DEF Numbers
<1>1. CASE WallClockSteps
  <2>1. Spend("steps") /\ lag' = lag /\ \E d \in StepSizes : skew' = skew + d
    BY <1>1 DEF WallClockSteps
  <2>2. Budgeted' /\ Moves \in Nat \ {0} /\ Moves' = Moves - 1
    BY <2>1, Spent
  <2>3. Spare' \in Nat /\ Spare' + LargestStep = Spare
    BY <2>2, OneStepLess, Largest DEF Spare
  <2>4. PICK d \in StepSizes : skew' = skew + d
    BY <2>1
  <2>5. d \in Int /\ d <= LargestStep
    BY Bounds, Largest
  <2>6. LargestStep \in Nat
    BY Largest
  <2>7. skew' + lag' + Spare' <= skew + lag + Spare
    <3>1. lag' = lag
      BY <2>1
    <3> QED
      BY <1>0, <2>3, <2>4, <2>5, <2>6, <3>1, Balance
  <2> QED
    BY <2>2, <2>3, <2>7
<1>2. CASE AudioStalls
  <2>1. Spend("stalls") /\ skew' = skew /\ lag' = lag + StallSize
    BY <1>2 DEF AudioStalls
  <2>2. Budgeted' /\ Moves \in Nat \ {0} /\ Moves' = Moves - 1
    BY <2>1, Spent
  <2>3. Spare' \in Nat /\ Spare' + LargestStep = Spare
    BY <2>2, OneStepLess, Largest DEF Spare
  <2>4. LargestStep \in Nat /\ StallSize \in Nat /\ StallSize <= LargestStep
    BY Largest, Bounds
  <2>5. skew + (lag + StallSize) + Spare' <= skew + lag + Spare
    <3>1. StallSize \in Int
      BY <2>4
    <3> QED
      BY <1>0, <2>3, <2>4, <3>1, Balance
  <2> QED
    BY <2>1, <2>2, <2>3, <2>5
<1>3. CASE \/ ActivityPauses \/ PostEdge \/ AutoHit
           \/ \E kind \in Commands : PostCommand(kind)
  <2>1. \E what \in {"posts", "edges", "autoHits"} : Spend(what)
    BY <1>3 DEF ActivityPauses, PostEdge, AutoHit, PostCommand
  <2>2. skew' = skew /\ lag' = lag
    BY <1>3 DEF ActivityPauses, PostEdge, AutoHit, PostCommand, Post, clocks
  <2>3. Budgeted' /\ Moves' = Moves
    BY <2>1, Spent
  <2> QED
    BY <1>0, <2>2, <2>3 DEF Spare
<1>4. CASE \/ ActivityResumes \/ Cancel \/ Worker \/ UNCHANGED vars
           \/ (Frame /\ ~AutoHit)
  <2>1. budget' = budget /\ skew' = skew /\ lag' = lag
    BY <1>4
    DEF ActivityResumes, Cancel, Post, Worker, EnqueueEdge, BeginCommand, AlignOrigin,
        MoveVirtualClock, vars, clocks, Frame, OpenCapture, ConsumeMarker,
        RebuildVirtualClock, NewSession, CloseCapture, UpdateOffsetTime, SampleTick,
        FrameGuard, FrameGuardRefused, DropPending, MeasureOffset,
        MeasureNothing, WriteOffset, PopBurst,
        ConvertAndSwap, RestoreOffset, EndFrame
  <2>2. Budgeted' /\ Spare' = Spare
    BY <1>0, <2>1 DEF Budgeted, Moves, Spare
  <2> QED
    BY <1>0, <2>1, <2>2
<1> QED
  BY <1>1, <1>2, <1>3, <1>4 DEF Next, Frame

\* The tick of a frame was the distance of the clocks when it was read.
LEMMA TickKept ==
    ASSUME Flags, Numbers, Places, Budgeted, WithinReach, [Next]_vars
    PROVE  main' \notin Starting => frame'.tick + lag' <= Reach
<1>1. CASE SampleTick
  <2>1. frame'.tick = skew /\ lag' = lag
    BY <1>1 DEF SampleTick, clocks, Numbers
  <2>2. /\ Reach \in Nat /\ Spare \in Nat /\ skew \in Nat /\ lag \in Nat
        /\ skew + lag + Spare <= Reach
    BY Limits, SpareCounts DEF Numbers, WithinReach
  <2> QED
    BY <2>1, <2>2
<1>2. CASE \/ AudioStalls \/ OpenCapture \/ NewSession \/ UpdateOffsetTime \/ EndFrame
  BY <1>2
  DEF AudioStalls, OpenCapture, NewSession, UpdateOffsetTime, EndFrame, Places, Starting
<1>3. CASE \/ WallClockSteps \/ ActivityPauses \/ ActivityResumes \/ Cancel \/ PostEdge
           \/ \E kind \in Commands : PostCommand(kind)
           \/ Worker \/ UNCHANGED vars
  <2>1. main' = main /\ frame' = frame /\ lag' = lag
    BY <1>3
    DEF WallClockSteps, ActivityPauses, ActivityResumes, Cancel, PostEdge, PostCommand,
        Post, Worker, EnqueueEdge, BeginCommand, AlignOrigin, MoveVirtualClock, vars,
        clocks, inFrame
  <2> QED
    BY <2>1 DEF WithinReach
<1>4. CASE \/ ConsumeMarker \/ RebuildVirtualClock \/ CloseCapture
  BY <1>4 DEF ConsumeMarker, RebuildVirtualClock, CloseCapture, Starting
<1>5. CASE \/ FrameGuard \/ FrameGuardRefused \/ DropPending \/ MeasureOffset
           \/ MeasureNothing \/ WriteOffset \/ PopBurst \/ ConvertAndSwap \/ RestoreOffset \/ AutoHit
  <2>1. main \notin Starting /\ frame' = frame /\ lag' = lag
    BY <1>5
    DEF FrameGuard, FrameGuardRefused, DropPending, MeasureOffset,
        MeasureNothing, WriteOffset, PopBurst,
        ConvertAndSwap, RestoreOffset, AutoHit, Starting, clocks, inFrame
  <2> QED
    BY <2>1 DEF WithinReach
<1> QED
  BY <1>1, <1>2, <1>3, <1>4, <1>5 DEF Next, Frame

LEMMA Through ==
    ASSUME NEW a \in Nat, NEW b \in Nat, NEW c \in Nat, NEW x \in Nat, NEW y \in Nat,
           a + b + c <= x, x <= y
    PROVE  a + b + c <= y
OBVIOUS

LEMMA ReachKept ==
    ASSUME Flags, Numbers, Places, Budgeted, WithinReach, [Next]_vars,
           skew' \in Nat, lag' \in Nat
    PROVE  WithinReach'
<1>1. /\ Reach \in Nat /\ skew + lag + Spare \in Nat
      /\ skew + lag + Spare <= Reach
  <2>1. /\ Reach \in Nat /\ Spare \in Nat /\ skew \in Nat /\ lag \in Nat
        /\ skew + lag + Spare <= Reach
    BY Limits, SpareCounts DEF Numbers, WithinReach
  <2> QED
    BY <2>1
<1>2. Spare' \in Nat /\ skew' + lag' + Spare' <= skew + lag + Spare
  BY SpareKept
<1>3. skew' + lag' + Spare' <= Reach
  BY <1>1, <1>2, Through
<1> QED
  BY <1>3, TickKept DEF WithinReach, Reach

\* No offset that is measured, smoothed or frozen exceeds the ceiling.
LEMMA FrozenKept ==
    ASSUME Numbers, Fresh, Budgeted, WithinReach, Frozen, [Next]_vars
    PROVE  Frozen'
<1>1. CASE WallClockSteps
  BY <1>1
  DEF WallClockSteps, Spend, Frozen, Ceiling, clocks, steered, virtual, inFrame, history
<1>2. CASE AudioStalls
  BY <1>2 DEF AudioStalls, Spend, Frozen, Ceiling, clocks, steered, virtual, inFrame, history
<1>3. CASE ActivityPauses
  BY <1>3
  DEF ActivityPauses, Post, Spend, Frozen, Ceiling, clocks, steered, virtual, inFrame,
      history
<1>4. CASE ActivityResumes
  BY <1>4
  DEF ActivityResumes, Post, Frozen, Ceiling, clocks, steered, virtual, inFrame, history
<1>5. CASE Cancel
  BY <1>5, Limits
  DEF Cancel, ClearRuntime, Frozen, Ceiling, NoEdge, clocks, steered, virtual, inFrame,
      history
<1>6. CASE PostEdge
  BY <1>6
  DEF PostEdge, Post, Spend, Frozen, Ceiling, clocks, steered, virtual, inFrame, history
<1>7. ASSUME NEW kind \in Commands, PostCommand(kind) PROVE Frozen'
  BY <1>7
  DEF PostCommand, Post, Spend, Frozen, Ceiling, clocks, steered, virtual, inFrame,
      history
<1>8. CASE EnqueueEdge
  <2>1. UNCHANGED <<offset, target, edge>>
    BY <1>8 DEF EnqueueEdge, inFrame
  <2>2. \/ queue' = queue /\ last' = last
        \/ /\ queue' = Append(queue, [snap |-> last, lag |-> Head(channel).lag])
           /\ last' = last
        \/ queue' = <<[snap |-> 0, lag |-> Head(channel).lag]>> /\ last' = 0
    BY <1>8 DEF EnqueueEdge
  <2>3. CASE queue' = Append(queue, [snap |-> last, lag |-> Head(channel).lag])
             /\ last' = last
    <3>1. Head(channel).lag = lag /\ queue \in Seq(Waiting) /\ last \in Nat
      BY <1>8, Popped DEF EnqueueEdge, Numbers, clocks
    <3>2. [snap |-> last, lag |-> Head(channel).lag] \in Waiting
      BY <3>1 DEF Numbers, Waiting
    <3>3. /\ Len(queue') = Len(queue) + 1 /\ Len(queue) \in Nat
          /\ \A k \in 1..Len(queue) : queue'[k] = queue[k]
          /\ queue'[Len(queue) + 1].snap = last
      BY <2>3, <3>1, <3>2, AppendFacts
    <3>4. \A i \in 1..Len(queue') : i \in 1..Len(queue) \/ i = Len(queue) + 1
      BY <3>3
    <3> QED
      BY <2>1, <2>3, <3>3, <3>4, Limits DEF Frozen, Ceiling
  <2>4. CASE ~(queue' = Append(queue, [snap |-> last, lag |-> Head(channel).lag])
               /\ last' = last)
    <3>1. CASE queue' = queue /\ last' = last
      BY <2>1, <3>1 DEF Frozen, Ceiling
    <3>2. CASE queue' = <<[snap |-> 0, lag |-> Head(channel).lag]>> /\ last' = 0
      <4>1. 0 <= Ceiling
        BY Limits
      <4>2. \A i \in 1..Len(queue') : queue'[i].snap = 0
        BY <3>2
      <4> QED
        BY <2>1, <3>2, <4>1, <4>2 DEF Frozen, Ceiling
    <3> QED
      BY <2>2, <2>4, <3>1, <3>2
  <2> QED
    BY <2>3, <2>4
<1>9. CASE BeginCommand
  BY <1>9, Limits
  DEF BeginCommand, ClearRuntime, Frozen, Ceiling, NoEdge, clocks, steered, virtual,
      inFrame, history
<1>10. CASE AlignOrigin
  BY <1>10 DEF AlignOrigin, Frozen, Ceiling, clocks, steered, virtual, inFrame, history
<1>11. CASE MoveVirtualClock
  BY <1>11, Limits
  DEF MoveVirtualClock, Frozen, Ceiling, NoEdge, clocks, steered, virtual, inFrame,
      history
<1>12. CASE OpenCapture
  BY <1>12, Limits
  DEF OpenCapture, ClearRuntime, ForgetHistory, Frozen, Ceiling, NoEdge, clocks,
      steered, virtual, inFrame, history
<1>13. CASE ConsumeMarker
  BY <1>13 DEF ConsumeMarker, Frozen, Ceiling, clocks, steered, virtual, inFrame, history
<1>14. CASE RebuildVirtualClock
  BY <1>14, Limits
  DEF RebuildVirtualClock, Frozen, Ceiling, NoEdge, clocks, steered, virtual, inFrame,
      history
<1>15. CASE NewSession
  BY <1>15, Limits
  DEF NewSession, ClearRuntime, ForgetHistory, Frozen, Ceiling, NoEdge, clocks, steered,
      virtual, inFrame, history
<1>16. CASE CloseCapture
  BY <1>16, Limits
  DEF CloseCapture, ClearRuntime, Frozen, Ceiling, NoEdge, clocks, steered, virtual,
      inFrame, history
<1>17. CASE UpdateOffsetTime
  <2>1. /\ offset' = offset \/ offset' \in Measurements(skew)
        /\ UNCHANGED <<last, target, edge, queue>>
    BY <1>17 DEF UpdateOffsetTime
  <2>2. offset' <= Ceiling
    <3>1. /\ Spare \in Nat /\ skew \in Nat /\ lag \in Nat
          /\ skew + lag + Spare <= Reach
      BY SpareCounts DEF Numbers, WithinReach
    <3> QED
      BY <2>1, <3>1, Limits DEF Measurements, Frozen
  <2> QED
    BY <2>1, <2>2 DEF Frozen, Ceiling
<1>18. CASE SampleTick
  BY <1>18 DEF SampleTick, Frozen, Ceiling, clocks, steered, virtual, inFrame, history
<1>19. CASE FrameGuard
  BY <1>19 DEF FrameGuard, Frozen, Ceiling, clocks, steered, virtual, inFrame, history
<1>20. CASE FrameGuardRefused
  BY <1>20 DEF FrameGuardRefused, Frozen, Ceiling, clocks, steered, virtual, inFrame, history
<1>21. CASE DropPending
  BY <1>21, Limits
  DEF DropPending, ClearRuntime, ForgetHistory, Frozen, Ceiling, NoEdge, clocks,
      steered, virtual, inFrame, history
<1>22. CASE MeasureOffset
  <2>1. /\ main = "measure" /\ UNCHANGED <<last, offset, edge, queue>>
        /\ \E measured \in Measurements(frame.tick) :
              target' = IF needsHard \/ offset = 0 \/ frame.fix <= 1 THEN measured
                        ELSE IF measured = offset THEN 0
                        ELSE Smoothed(offset, measured)
    BY <1>22 DEF MeasureOffset
  <2>2. PICK measured \in Measurements(frame.tick) :
           \/ target' = measured \/ target' = 0
           \/ measured # offset /\ target' = Smoothed(offset, measured)
    BY <2>1
  <2>3. /\ frame.tick \in Nat /\ lag \in Nat /\ frame.fix \in Nat \ {0}
        /\ offset \in Nat /\ offset \in Int
    BY DEF Numbers
  <2>4. measured \in Nat /\ measured \in Int /\ measured <= Ceiling
    <3>1. frame.tick + lag <= Reach
      BY <2>1 DEF WithinReach, Starting
    <3> QED
      BY <2>3, <3>1, Limits DEF Measurements
  <2>5. offset <= Ceiling /\ 0 <= Ceiling /\ Ceiling \in Nat
    BY Limits DEF Frozen
  <2>6. target' <= Ceiling
    <3>1. CASE target' = measured \/ target' = 0
      BY <2>4, <2>5, <3>1
    <3>2. CASE measured # offset /\ target' = Smoothed(offset, measured)
      <4>1. /\ Smoothed(offset, measured) \in Int
            /\ Smoothed(offset, measured) <= offset
                 \/ Smoothed(offset, measured) <= measured
        BY <2>3, <2>4, <3>2, SmoothedBetween
      <4> QED
        BY <2>3, <2>4, <2>5, <3>2, <4>1
    <3> QED
      BY <2>2, <3>1, <3>2
  <2> QED
    BY <2>1, <2>6 DEF Frozen, Ceiling
<1>23. CASE WriteOffset
  BY <1>23, Limits
  DEF WriteOffset, Frozen, Ceiling, NoEdge, clocks, steered, virtual, inFrame, history
<1>24. CASE PopBurst
  <2>1. /\ 1 \in 1..Len(queue)
        /\ edge'.snap = queue[1].snap /\ edge'.previous = 0
        /\ \A i \in 1..Len(queue') : \E j \in 1..Len(queue) : queue'[i] = queue[j]
    BY <1>24, BurstPopped DEF Numbers
  <2>2. UNCHANGED <<last, offset, target>> /\ 0 <= Ceiling
    BY <1>24, Limits DEF PopBurst, steered
  <2> QED
    BY <2>1, <2>2 DEF Frozen, Ceiling
<1>25. CASE ConvertAndSwap
  BY <1>25, Limits
  DEF ConvertAndSwap, Frozen, Ceiling, NoEdge, clocks, steered, virtual, inFrame,
      history
<1>26. CASE RestoreOffset
  BY <1>26, Limits
  DEF RestoreOffset, Frozen, Ceiling, NoEdge, clocks, steered, virtual, inFrame, history
<1>27. CASE AutoHit
  BY <1>27 DEF AutoHit, Spend, Frozen, Ceiling, clocks, steered, virtual, inFrame, history
<1>28. CASE EndFrame
  BY <1>28, Limits
  DEF EndFrame, Frozen, Ceiling, NoEdge, clocks, steered, virtual, inFrame, history
<1>29. CASE UNCHANGED vars
  BY <1>29 DEF vars, Frozen, Ceiling, clocks, steered, virtual, inFrame, history
<1>30. CASE MeasureNothing
  BY <1>30 DEF MeasureNothing, Frozen, Ceiling, steered, inFrame
<1> QED
  BY <1>1, <1>2, <1>3, <1>4, <1>5, <1>6, <1>7, <1>8, <1>9, <1>10, <1>11, <1>12, <1>13,
     <1>14, <1>15, <1>16, <1>17, <1>18, <1>19, <1>20, <1>21, <1>22, <1>23, <1>24,
     <1>25, <1>26, <1>27, <1>28, <1>29, <1>30
  DEF Next, Worker, Frame

-----------------------------------------------------------------------------
(* The invariant holds.                                                    *)

\* At the start no offset is known, and there is nothing to judge.
LEMMA InitInv ==
    ASSUME Init
    PROVE  Inv
<1>1. Flags
  BY DEF Init, Flags
<1>2. Numbers
  <2>1. queue \in Seq(Waiting)
    BY EmptyQueue, Zenon DEF Init
  <2>2. channel \in Seq(Message)
    BY EmptyChannel, Zenon DEF Init
  <2>3. /\ skew \in Nat \ {0} /\ lag \in Nat \ {0} /\ origin \in Nat \ {0}
        /\ last \in Nat /\ offset \in Nat /\ target \in Nat
        /\ frame \in [tick : Nat, fix : Nat \ {0}]
        /\ edge \in Burst
    BY Bounds DEF Init, NoEdge, Burst
  <2> QED
    BY <2>1, <2>2, <2>3 DEF Numbers
<1>3. Places
  BY DEF Init, Places, Labels, Starting
<1>4. Fresh
  BY DEF Init, Fresh
<1>5. Steered
  BY DEF Init, Steered
<1>6. OnTime
  BY DEF Init, OnTime, KeptGood, QueueGood, OffsetGood, EdgeGood, InJudgement, Starting
<1> QED
  BY <1>1, <1>2, <1>3, <1>4, <1>5, <1>6 DEF Inv

LEMMA InvHolds == Spec => []Inv
<1>1. Inv /\ [Next]_vars => Inv'
  <2> SUFFICES ASSUME Inv, [Next]_vars PROVE Inv'
    OBVIOUS
  <2>1. Flags /\ Numbers /\ Places /\ Fresh /\ Steered
    BY DEF Inv
  <2>2. Flags' /\ Numbers' /\ Places' /\ Fresh' /\ Steered' /\ OnTime'
    BY <2>1, FlagsKept, NumbersKept, PlacesKept, FreshKept, SteeredKept, OnTimeKept
  <2> QED
    BY <2>2 DEF Inv
<1> QED
  BY <1>1, InitInv, PTL DEF Spec

\* The head of a burst is judged within Tolerance + Jitter of the song time it
\* was pressed at, the presses behind it within BurstLength more, for all sizes
\* of the clock steps, the stalls and the burst, however long the run: while an
\* edge waits, the guard lets the origin move by less than the tolerance, or
\* drops it.
THEOREM EveryEdgeOnTime == Spec => []JudgedOnTime
<1>1. Inv => JudgedOnTime
  <2> SUFFICES ASSUME Inv, main = "judge", ~torn, ~reopened
               PROVE  /\ Distance(edge.origin + edge.lag, offset) < Tolerance + Jitter + 1
                      /\ \A l \in edge.behind, after \in 0..BurstLength :
                            Distance(edge.origin + l, offset + after)
                                < Tolerance + Jitter + 1 + BurstLength
    BY DEF JudgedOnTime
  <2>1. edge.origin # 0 /\ offset \in Nat /\ lag \in Nat /\ origin \in Nat
    BY DEF Inv, Places, Numbers
  <2>2. InJudgement
    BY <2>1 DEF InJudgement, NoEdge
  <2>3. Good(offset) /\ edge.lag = lag /\ edge.origin = origin /\ edge.behind \subseteq {lag}
    BY <2>2 DEF Inv, OnTime, EdgeGood
  <2>4. Distance(edge.origin + edge.lag, offset) < Tolerance + Jitter + 1
    BY <2>1, <2>3, Bounds DEF Good, Distance
  <2>5. ASSUME NEW l \in edge.behind, NEW after \in 0..BurstLength
        PROVE  Distance(edge.origin + l, offset + after) < Tolerance + Jitter + 1 + BurstLength
    <3>1. l = lag /\ after \in Nat /\ after <= BurstLength
      BY <2>3, Bounds
    <3> QED
      BY <2>1, <2>3, <3>1, Bounds DEF Good, Distance
  <2> QED
    BY <2>4, <2>5
<1> QED
  BY <1>1, InvHolds, PTL

\* Between frames the game's offset is the one the module last steered it to:
\* no snapshot of a replayed edge is left in the game's field.
THEOREM NoSnapshotLeft == Spec => []NoSnapshotLeftBehind
<1>1. Inv => NoSnapshotLeftBehind
  BY DEF Inv, Places, Steered, FrameOffset, Starting, NoEdge, NoSnapshotLeftBehind
<1> QED
  BY <1>1, InvHolds, PTL

\* The offsets stay below what the clocks can reach, however they are smoothed
\* and frozen, and the clocks and the flags keep their types.
THEOREM OffsetsStayBelow == Spec => []TypeOK
<1> DEFINE Limited == Inv /\ Budgeted /\ WithinReach /\ Frozen
<1>1. Init => Limited
  <2> SUFFICES ASSUME Init PROVE Limited
    OBVIOUS
  <2>1. Budgeted
    BY Bounds DEF Init, Budgeted
  <2>2. WithinReach
    <3>1. /\ skew = Base /\ lag = 1 /\ main = "idle"
          /\ Spare = (MaxSteps + MaxStalls) * LargestStep
      BY DEF Init, Moves, Spare
    <3>2. (MaxSteps + MaxStalls) * LargestStep \in Nat
      <4>1. MaxSteps + MaxStalls \in Nat
        BY Bounds
      <4> QED
        BY <4>1, Largest
    <3> QED
      BY <3>1, <3>2, Bounds DEF WithinReach, Reach, Starting
  <2>3. Frozen
    BY Limits DEF Init, Frozen, NoEdge
  <2> QED
    BY <2>1, <2>2, <2>3, InitInv
<1>2. Limited /\ [Next]_vars => Limited'
  <2> SUFFICES ASSUME Limited, [Next]_vars PROVE Limited'
    OBVIOUS
  <2>1. Flags /\ Numbers /\ Places /\ Fresh /\ Steered
    BY DEF Inv
  <2>2. Flags' /\ Numbers' /\ Places' /\ Fresh' /\ Steered' /\ OnTime'
    BY <2>1, FlagsKept, NumbersKept, PlacesKept, FreshKept, SteeredKept, OnTimeKept
  <2>3. skew' \in Nat /\ lag' \in Nat
    BY <2>2 DEF Numbers
  <2>4. Budgeted' /\ WithinReach' /\ Frozen'
    BY <2>1, <2>3, SpareKept, ReachKept, FrozenKept
  <2> QED
    BY <2>2, <2>4 DEF Inv
<1>3. Limited => TypeOK
  <2> SUFFICES ASSUME Limited PROVE TypeOK
    OBVIOUS
  <2>1. Flags /\ Numbers
    BY DEF Inv
  <2>2. {last, offset, target} \subseteq 0..Ceiling
    BY <2>1, Limits DEF Numbers, Frozen
  <2>3. \A i \in DOMAIN queue : queue[i].snap \in 0..Ceiling /\ queue[i].lag \in Nat
    <3>1. queue \in Seq(Waiting)
      BY <2>1 DEF Numbers
    <3>2. DOMAIN queue = 1..Len(queue) /\ \A i \in 1..Len(queue) : queue[i] \in Waiting
      BY <3>1
    <3> QED
      BY <3>2, Limits DEF Frozen, Waiting
  <2> QED
    BY <2>1, <2>2, <2>3 DEF Numbers, Flags, TypeOK
<1>4. Init /\ [][Next]_vars => []Limited
  BY <1>1, <1>2, PTL
<1>5. []Limited => []TypeOK
  BY <1>3, PTL
<1> QED
  BY <1>4, <1>5, PTL DEF Spec
=============================================================================
