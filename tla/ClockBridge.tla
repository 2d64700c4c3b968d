----------------------------- MODULE ClockBridge -----------------------------
(***************************************************************************)
(* How async_input.c keeps two clocks in one time domain.  An Android edge *)
(* is stamped by CLOCK_MONOTONIC and mapped to a wall tick by the cached   *)
(* origin g_wall_minus_uptime_ticks; the game turns that tick into a song  *)
(* time by subtracting AsyncInputManager.offsetTick, which the module      *)
(* steers towards (CLOCK_REALTIME tick of the frame) - (audio dsp time).   *)
(* Each queued edge carries the offset that was current when it was        *)
(* queued, and the game's field is swapped to it while the edge is judged. *)
(* DOWNs within 8 ms of the first are judged with it, in one burst: at its *)
(* tick, with its snapshot.                                                *)
(*                                                                         *)
(* An edge pressed at uptime u, when the audio lags uptime by lag, belongs *)
(* at song time u - lag and is judged at u + origin - offset: only the     *)
(* differences skew (wall - uptime), lag, origin and offset matter, so     *)
(* uptime itself is not a variable, and a frame tick is the skew it was    *)
(* read under.  Units are such that Tolerance stands for 20 ms.            *)
(*                                                                         *)
(* Actors: the Unity main thread (one frame of UpdateInput or one          *)
(* UpdateOffsetTime), the ingress worker, the UI thread, and the device,   *)
(* whose wall clock steps and whose audio stalls while the activity is     *)
(* paused.  Left out: the base and pause ticks of the virtual clock, which *)
(* nothing reads back, and the master switch (module ControlPlane).        *)
(***************************************************************************)
EXTENDS Integers, Sequences

CONSTANTS Base,        \* skew at start
          Tolerance,   \* CLOCK_ORIGIN_DRIFT_TOLERANCE_TICKS (20 ms)
          BurstLength, \* MULTITAP_BURST_NS (8 ms)
          Divider,     \* the fix_divider of the frame hooks (100)
          Jitter,      \* how far one reading of the dsp time may be late
          StepSizes,   \* by how much CLOCK_REALTIME may step
          StallSize,   \* how long the audio stalls in one pause
          MaxSteps,    \* bound: steps of the wall clock
          MaxStalls,   \* bound: stalls of the audio
          MaxPosts,    \* bound: records posted to the ingress
          MaxEdges,    \* bound: edges posted
          MaxAutoHits  \* bound: automatic hits

ASSUME ClockBridgeAssumption ==
    /\ {Base, Tolerance, Divider} \subseteq Nat \ {0}
    /\ {BurstLength, Jitter, StallSize} \subseteq Nat
    /\ {MaxSteps, MaxStalls, MaxPosts, MaxEdges, MaxAutoHits} \subseteq Nat
    /\ StepSizes \subseteq Int
    /\ \E m \in StepSizes \cup {StallSize} : \A d \in StepSizes : d <= m

VARIABLES
    skew,         \* CLOCK_REALTIME minus CLOCK_MONOTONIC
    lag,          \* CLOCK_MONOTONIC minus the audio's dsp time
    halted,       \* the activity is paused: no frames, the audio stands
    origin,       \* g_wall_minus_uptime_ticks
    last,         \* g_last_async_offset_tick, 0 when unknown
    needsHard,    \* g_async_offset_needs_hard_reset
    offset,       \* AsyncInputManager.offsetTick, the game's field
    gate,         \* the capture gate
    queue,        \* g_queue: [snap: offset_tick, lag: the lag at the press]
    latch,        \* g_soft_pause_had_capture
    marker,       \* g_virtual_resumed_from_pause
    channel,      \* the ingress: commands and edges not yet popped
    worker,       \* "idle", or the step the worker's command has reached
    main,         \* where the main thread is in its frame
    frame,        \* [tick, fix]: its frame tick and fix_divider
    target,       \* the offset it is about to write, 0 for none
    edge,         \* the burst it replays: [snap, lag, origin, previous] of its
                  \* head, and the set of the lags of the presses behind it
    budget,       \* [steps, stalls, posts, edges, autoHits] left
    torn,         \* history: the offset was measured, or the edge that is
                  \* judged was converted, across two clocks, or a hard reset
                  \* was due and found no dsp time
    reopened,     \* history: the audio stalled while the gate was open, or the
                  \* worker, on a reset or a soft resume, moved the origin while
                  \* the gate was open again or a burst was being replayed
    apart         \* history: an automatic hit wrote the offset while the
                  \* snapshot of an edge was in its place

clocks  == <<skew, lag, halted>>
steered == <<last, needsHard, offset>>
virtual == <<latch, marker>>
inFrame == <<frame, target, edge>>
history == <<torn, reopened, apart>>
vars == <<clocks, origin, steered, gate, queue, virtual, channel, worker, main,
          inFrame, budget, history>>

Commands == {"RESET", "SOFT_PAUSE", "SOFT_RESUME"}
Distance(a, b) == IF a < b THEN b - a ELSE a - b
Quotient(a, n) == IF a < 0 THEN -((-a) \div n) ELSE a \div n   \* as C divides
Measurements(s) == s + lag .. s + lag + Jitter
NoEdge == [snap |-> 0, lag |-> 0, origin |-> 0, previous |-> 0, behind |-> {}]
Spend(what) == /\ budget[what] > 0
               /\ budget' = [budget EXCEPT ![what] = @ - 1]

Init ==
    /\ skew = Base /\ lag = 1 /\ halted = FALSE
    /\ origin = Base
    /\ last = 0 /\ needsHard = TRUE /\ offset = 0
    /\ gate = FALSE /\ queue = <<>>
    /\ latch = FALSE /\ marker = FALSE
    /\ channel = <<>> /\ worker = "idle"
    /\ main = "idle" /\ frame = [tick |-> 0, fix |-> Divider]
    /\ target = 0 /\ edge = NoEdge
    /\ budget = [steps |-> MaxSteps, stalls |-> MaxStalls, posts |-> MaxPosts,
                 edges |-> MaxEdges, autoHits |-> MaxAutoHits]
    /\ torn = FALSE /\ reopened = FALSE /\ apart = FALSE

-----------------------------------------------------------------------------
(* The device.                                                             *)

\* A suspend without a lifecycle callback (doze) or an NTP step, at any time.
WallClockSteps ==
    /\ Spend("steps")
    /\ \E d \in StepSizes : skew + d > 0 /\ skew' = skew + d
    /\ UNCHANGED <<lag, halted, origin, steered, gate, queue, virtual, channel,
                   worker, main, inFrame, history>>

\* The audio stands still in a paused activity; by then the worker, which
\* onPause waited for, has handled the soft pause.
AudioStalls ==
    /\ halted /\ channel = <<>> /\ worker = "idle"
    /\ Spend("stalls")
    /\ lag' = lag + StallSize
    /\ reopened' = (reopened \/ gate)
    /\ UNCHANGED <<skew, halted, origin, steered, gate, queue, virtual, channel,
                   worker, main, inFrame, torn, apart>>

(* The UI thread.                                                          *)

Post(record) ==
    /\ channel' = Append(channel, record)
    /\ UNCHANGED <<skew, lag, origin, steered, gate, queue, virtual, worker,
                   main, inFrame, history>>

\* onPause and onResume, around the time Unity's loop stands still.
ActivityPauses == ~halted /\ main = "idle" /\ halted' = TRUE /\ Spend("posts")
                  /\ Post([kind |-> "SOFT_PAUSE", lag |-> 0])
ActivityResumes == halted /\ halted' = FALSE /\ UNCHANGED budget
                   /\ Post([kind |-> "SOFT_RESUME", lag |-> 0])

\* onWindowFocusChanged posts the same commands while the loop may run on;
\* the lifecycle reset posts INGRESS_RESET.
PostCommand(kind) == Spend("posts") /\ UNCHANGED halted
                     /\ Post([kind |-> kind, lag |-> 0])

\* An edge the UI thread captures while the gate is open.
PostEdge == gate /\ ~halted /\ Spend("edges") /\ UNCHANGED halted
            /\ Post([kind |-> "EVENT", lag |-> lag])

\* clear_runtime_state_locked
ClearRuntime ==
    /\ queue' = <<>>
    /\ last' = 0
    /\ needsHard' = TRUE

\* ACTION_CANCEL clears the runtime state and leaves the gate open.
Cancel ==
    /\ ~halted
    /\ ClearRuntime
    /\ UNCHANGED <<clocks, origin, offset, gate, virtual, channel, worker, main,
                   inFrame, budget, history>>

-----------------------------------------------------------------------------
(* The worker, input_thread_main.                                          *)

\* enqueue_event freezes the offset; a duplicate DOWN clears first.
EnqueueEdge ==
    /\ worker = "idle" /\ channel # <<>> /\ Head(channel).kind = "EVENT"
    /\ channel' = Tail(channel)
    /\ LET e == Head(channel) IN
       \/ /\ ~gate
          /\ UNCHANGED <<queue, last, needsHard>>
       \/ /\ gate
          /\ queue' = Append(queue, [snap |-> last, lag |-> e.lag])
          /\ UNCHANGED <<last, needsHard>>
       \/ /\ gate
          /\ queue' = <<[snap |-> 0, lag |-> e.lag]>>
          /\ last' = 0 /\ needsHard' = TRUE
    /\ UNCHANGED <<clocks, origin, offset, gate, virtual, worker, main, inFrame,
                   budget, history>>

\* The section of a command under g_lock.
BeginCommand ==
    /\ worker = "idle" /\ channel # <<>> /\ Head(channel).kind \in Commands
    /\ channel' = Tail(channel)
    /\ \/ /\ Head(channel).kind = "RESET"
          /\ ClearRuntime /\ gate' = FALSE /\ latch' = FALSE
          /\ worker' = "align-reset"
       \/ /\ Head(channel).kind = "SOFT_PAUSE"
          /\ latch' = (latch \/ gate)
          /\ ClearRuntime /\ gate' = FALSE
          /\ worker' = "pause"
       \/ /\ Head(channel).kind = "SOFT_RESUME"
          /\ latch' = FALSE
          /\ worker' = IF latch THEN "align-resume" ELSE "align-reset"
          /\ UNCHANGED <<queue, last, needsHard, gate>>
    /\ UNCHANGED <<clocks, origin, offset, marker, main, inFrame, budget, history>>

\* async_clock_guard_time_origin(_, 1); a sample may be refused as too wide.
AlignOrigin ==
    /\ worker \in {"align-reset", "align-resume"}
    /\ \/ UNCHANGED <<origin, reopened>>
       \/ /\ origin' = skew
          /\ reopened' = (reopened \/ (skew # origin /\ (gate \/ edge # NoEdge)))
    /\ worker' = IF worker = "align-reset" THEN "reset" ELSE "resume"
    /\ UNCHANGED <<clocks, steered, gate, queue, virtual, channel, main, inFrame,
                   budget, torn, apart>>

\* virtual_clock_reset, virtual_clock_pause and virtual_clock_resume.
MoveVirtualClock ==
    /\ worker \in {"reset", "pause", "resume"}
    /\ marker' = (worker = "resume")
    /\ last' = IF worker = "reset" THEN 0 ELSE last
    /\ needsHard' = (needsHard \/ worker # "pause")
    /\ worker' = "idle"
    /\ UNCHANGED <<clocks, origin, offset, gate, queue, latch, channel, main,
                   inFrame, budget, history>>

-----------------------------------------------------------------------------
(* The Unity main thread.                                                  *)

\* A clear leaves nothing of the old clocks behind, but for the edge that is
\* being judged.
ForgetHistory == torn' = (edge # NoEdge) /\ reopened' = FALSE /\ UNCHANGED apart

\* open_capture_for_controller at the start of a frame that may capture.
OpenCapture ==
    /\ main = "idle" /\ ~halted
    /\ frame' = [frame EXCEPT !.fix = Divider]
    /\ gate' = TRUE
    /\ \/ /\ gate
          /\ main' = "sample"
          /\ UNCHANGED <<queue, last, needsHard, history>>
       \/ /\ ~gate
          /\ ClearRuntime /\ ForgetHistory
          /\ main' = "marker"
    /\ UNCHANGED <<clocks, origin, offset, virtual, channel, worker, target, edge,
                   budget>>

\* virtual_consume_resume_marker
ConsumeMarker ==
    /\ main = "marker"
    /\ marker' = FALSE
    /\ main' = IF marker THEN "sample" ELSE "rebuild"
    /\ UNCHANGED <<clocks, origin, steered, gate, queue, latch, channel, worker,
                   inFrame, budget, history>>

\* virtual_clock_reset
RebuildVirtualClock ==
    /\ main = "rebuild"
    /\ marker' = FALSE /\ last' = 0 /\ needsHard' = TRUE
    /\ main' = "sample"
    /\ UNCHANGED <<clocks, origin, offset, gate, queue, latch, channel, worker,
                   inFrame, budget, history>>

\* reset_capture_for_new_session: a countdown or checkpoint began.
NewSession ==
    /\ main = "idle" /\ ~halted
    /\ frame' = [frame EXCEPT !.fix = Divider]
    /\ gate' = TRUE /\ ClearRuntime /\ ForgetHistory
    /\ main' = "rebuild"
    /\ UNCHANGED <<clocks, origin, offset, virtual, channel, worker, target, edge,
                   budget>>

\* close_async_capture: a frame that may not capture any more.
CloseCapture ==
    /\ main = "idle" /\ ~halted /\ gate
    /\ gate' = FALSE /\ ClearRuntime
    /\ UNCHANGED <<clocks, origin, offset, virtual, channel, worker, main, inFrame,
                   budget, history>>

\* hooked_update_offset_time: the game's own method while the gate is closed.
UpdateOffsetTime ==
    /\ main = "idle" /\ ~halted
    /\ \/ /\ gate
          /\ \E n \in {1, Divider} : frame' = [frame EXCEPT !.fix = n]
          /\ main' = "sample" /\ UNCHANGED offset
       \/ /\ ~gate
          /\ offset' \in Measurements(skew)
          /\ UNCHANGED <<main, frame>>
    /\ UNCHANGED <<clocks, origin, last, needsHard, gate, queue, virtual, channel,
                   worker, target, edge, budget, history>>

\* wall_tick_now_or_virtual, before ensure_async_clock_fields is entered.
SampleTick ==
    /\ main = "sample"
    /\ frame' = [frame EXCEPT !.tick = skew]
    /\ main' = "guard"
    /\ UNCHANGED <<clocks, origin, steered, gate, queue, virtual, channel, worker,
                   target, edge, budget, history>>

\* async_clock_guard_time_origin("frame", 0) when its sample is trusted ...
Drifted == Distance(skew, origin) >= Tolerance
FrameGuard ==
    /\ main = "guard"
    /\ origin' = IF Drifted THEN skew ELSE origin
    /\ main' = IF Drifted THEN "drop" ELSE "measure"
    /\ UNCHANGED <<clocks, steered, gate, queue, virtual, channel, worker, inFrame,
                   budget, history>>

\* ... and when the sandwich was too wide.
FrameGuardRefused ==
    /\ main = "guard"
    /\ main' = "measure"
    /\ UNCHANGED <<clocks, origin, steered, gate, queue, virtual, channel, worker,
                   inFrame, budget, history>>

\* (For the mutant runs: the edges survive the guard that moved the origin.)
KeepPending ==
    /\ main = "drop"
    /\ last' = 0 /\ needsHard' = TRUE /\ ForgetHistory
    /\ main' = "measure"
    /\ UNCHANGED <<clocks, origin, offset, gate, queue, virtual, channel, worker,
                   inFrame, budget>>

\* A moved origin drops every pending edge.
DropPending ==
    /\ main = "drop"
    /\ ClearRuntime /\ ForgetHistory
    /\ main' = "measure"
    /\ UNCHANGED <<clocks, origin, offset, gate, virtual, channel, worker, inFrame,
                   budget>>

\* (For the mutant runs: a step that rounds to nothing, and one away from it.)
SmoothedToZero(old, measured) == old + Quotient(measured - old, frame.fix)
SmoothedAway(old, measured) ==
    LET step == Quotient(old - measured, frame.fix)
    IN  old + (IF step # 0 THEN step ELSE IF old > measured THEN 1 ELSE -1)

\* One step of the smoothed offset: delta / fix_divider, at least one tick.
Smoothed(old, measured) ==
    LET delta == measured - old
        step  == Quotient(delta, frame.fix)
    IN  old + (IF step # 0 THEN step ELSE IF delta > 0 THEN 1 ELSE -1)

\* The tick is not checked again after the guard moved the origin.
MeasureOffset ==
    /\ main = "measure"
    /\ LET hard  == needsHard \/ offset = 0 \/ frame.fix <= 1
           mixed == Distance(frame.tick, origin) >= Tolerance
       IN  /\ \E measured \in Measurements(frame.tick) :
                 target' = IF hard THEN measured
                           ELSE IF measured = offset THEN 0
                           ELSE Smoothed(offset, measured)
           /\ needsHard' = (needsHard /\ ~hard)
           /\ torn' = (torn \/ mixed)
    /\ main' = "write"
    /\ UNCHANGED <<clocks, origin, last, offset, gate, queue, virtual, channel,
                   worker, frame, edge, budget, reopened, apart>>

\* Without a dsp time, or with one that is not behind the tick, nothing is
\* measured; a hard reset stays due.
MeasureNothing ==
    /\ main = "measure"
    /\ torn' = (torn \/ needsHard)
    /\ main' = "write"
    /\ UNCHANGED <<clocks, origin, steered, gate, queue, virtual, channel, worker,
                   inFrame, budget, reopened, apart>>

WriteOffset ==
    /\ main = "write"
    /\ IF target = 0
       THEN UNCHANGED <<offset, last>>
       ELSE offset' = target /\ last' = target
    /\ target' = 0
    /\ IF edge = NoEdge
       THEN main' = "replay" /\ apart' = (apart /\ target = 0)
       ELSE main' = "judge" /\ apart' = (apart \/ (target # 0 /\ edge.snap # 0))
    /\ UNCHANGED <<clocks, origin, needsHard, gate, queue, virtual, channel, worker,
                   frame, edge, budget, torn, reopened>>

\* pop_events_for_tick: the first edge that is due and, with it, those of the
\* same instant and the DOWNs of the next 8 ms.  Its snapshot is handed over,
\* those of the others are not read.
PopBurst ==
    /\ main = "replay"
    /\ \E n \in 1..Len(queue) :
          /\ edge' = [NoEdge EXCEPT !.snap = queue[1].snap, !.lag = queue[1].lag,
                                    !.behind = {queue[i].lag : i \in 2..n}]
          /\ queue' = SubSeq(queue, n + 1, Len(queue))
    /\ main' = "convert"
    /\ UNCHANGED <<clocks, origin, steered, gate, virtual, channel, worker, frame,
                   target, budget, history>>

\* raw_ns_to_wall_tick of the head, then the swap at the head of call_process_key_inputs.
ConvertAndSwap ==
    /\ main = "convert"
    /\ edge' = [edge EXCEPT !.origin = origin, !.previous = IF edge.snap = 0 THEN 0 ELSE offset]
    /\ offset' = IF edge.snap = 0 THEN offset ELSE edge.snap
    /\ main' = "judge"
    /\ UNCHANGED <<clocks, origin, last, needsHard, gate, queue, virtual, channel,
                   worker, frame, target, budget, history>>

\* (For the mutant runs: the snapshot stays in the game's field.)
LeaveSnapshot ==
    /\ main = "judge"
    /\ edge' = NoEdge
    /\ main' = "replay"
    /\ UNCHANGED <<clocks, origin, steered, gate, queue, virtual, channel, worker,
                   frame, target, budget, history>>

\* ProcessKeyInputs has judged the edge; its frame's offset comes back.
RestoreOffset ==
    /\ main = "judge"
    /\ offset' = IF edge.snap = 0 THEN offset ELSE edge.previous
    /\ edge' = NoEdge
    /\ main' = "replay"
    /\ UNCHANGED <<clocks, origin, last, needsHard, gate, queue, virtual, channel,
                   worker, frame, target, budget, history>>

\* The game hits an automatic tile inside ProcessKeyInputs, or the test macro
\* looks for its target: both guard, measure and write again, with the tick of
\* the frame.
AutoHit ==
    /\ main \in {"judge", "replay"} /\ Spend("autoHits")
    /\ main' = "guard"
    /\ UNCHANGED <<clocks, origin, steered, gate, queue, virtual, channel, worker,
                   inFrame, history>>

\* The rest of the queue is not due, or the level does not take input.
EndFrame ==
    /\ main = "replay"
    /\ main' = "idle" /\ frame' = [tick |-> 0, fix |-> Divider]
    /\ UNCHANGED <<clocks, origin, steered, gate, queue, virtual, channel, worker,
                   target, edge, budget, history>>

-----------------------------------------------------------------------------
Frame == \/ OpenCapture \/ ConsumeMarker \/ RebuildVirtualClock \/ NewSession
         \/ CloseCapture \/ UpdateOffsetTime \/ SampleTick \/ FrameGuard
         \/ FrameGuardRefused \/ DropPending \/ MeasureOffset \/ MeasureNothing
         \/ WriteOffset \/ PopBurst \/ ConvertAndSwap \/ RestoreOffset \/ AutoHit \/ EndFrame

Worker == EnqueueEdge \/ BeginCommand \/ AlignOrigin \/ MoveVirtualClock

Next == \/ WallClockSteps \/ AudioStalls
        \/ ActivityPauses \/ ActivityResumes \/ Cancel \/ PostEdge
        \/ \E kind \in Commands : PostCommand(kind)
        \/ Worker \/ Frame

\* While the activity is not paused the game runs its frames, and they do not
\* miss the dsp time for ever.
Fairness == WF_vars(Frame) /\ SF_vars(MeasureOffset)

Spec == Init /\ [][Next]_vars /\ Fairness

-----------------------------------------------------------------------------
\* No offset, measured, smoothed or frozen, exceeds the largest distance of
\* the wall clock and the dsp clock that the device can reach.
LargestStep == LET Sizes == StepSizes \cup {StallSize}
               IN  CHOOSE m \in Sizes : \A d \in Sizes : d <= m
Ceiling == Base + 2 + Jitter + (MaxSteps + MaxStalls) * LargestStep

TypeOK ==
    /\ skew \in Nat \ {0} /\ lag \in Nat /\ origin \in Nat \ {0}
    /\ {halted, needsHard, gate, latch, marker, torn, reopened, apart} \subseteq BOOLEAN
    /\ {last, offset, target} \subseteq 0..Ceiling
    /\ \A i \in DOMAIN queue : queue[i].snap \in 0..Ceiling /\ queue[i].lag \in Nat

\* An edge is judged at the song time it was pressed at, up to the drift the
\* guard tolerates and the jitter of the dsp time; the presses behind the first
\* of a burst, which is judged at the time of its head and with its snapshot,
\* up to the length of a burst more.  This is what the drop at the guard, the
\* frozen snapshots and the hard reset are for.  The exceptions, until a frame
\* clears the next time, are the ones the guard cannot see.  torn: a frame tick
\* read before the clock step that the guard, a moment later, follows; an edge
\* in judgement when that happens; a hard reset that found no dsp time.
\* reopened: the audio stalled, or the worker moved the origin, under a capture
\* that a frame had reopened since the pause or the reset, or under a burst
\* that was being replayed.
JudgedOnTime ==
    main = "judge" /\ ~torn /\ ~reopened =>
        /\ Distance(edge.origin + edge.lag, offset) < Tolerance + Jitter + 1
        /\ \A l \in edge.behind, after \in 0..BurstLength :
              Distance(edge.origin + l, offset + after)
                  < Tolerance + Jitter + 1 + BurstLength

\* Between frames the game's offsetTick is the one the module last steered it
\* to: the snapshot of no replayed edge stays behind in it, whatever was
\* cleared, paused or reopened while the frame ran.  The exception is an
\* automatic hit inside the replay of an edge (apart): what it wrote is
\* remembered, and overwritten when the frame's offset comes back, a hard
\* reset too.
NoSnapshotLeftBehind ==
    main = "idle" /\ gate /\ ~needsHard /\ ~apart => offset = last

\* Once the clocks keep still the game's offset comes to within the dsp
\* jitter of the true one and stays there, even after an offset measured
\* across two clocks: the smoothing cannot get stuck short of it.
OffsetSettles == <>[](main = "idle" /\ ~halted => offset \in Measurements(skew))
=============================================================================
