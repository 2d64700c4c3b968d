------------------------------- MODULE Capture -------------------------------
(***************************************************************************)
(* One capture session of async_input.c, at the granularity of g_lock.     *)
(* Four actors share the runtime state:                                    *)
(*  - the Android UI thread (nativeOnTouchEvent, nativeOnKeyEvent,         *)
(*    nativeOnLifecycle..) decides whether an edge is captured, posts it   *)
(*    to the ingress and remembers captured sources as suppressed;         *)
(*  - the worker (input_thread_main) moves edges from the ingress into the *)
(*    replay queue and runs the lifecycle commands;                        *)
(*  - the Unity main thread opens and closes the gate and replays the      *)
(*    queue once a frame (PlayerControl.Update, UpdateInput); the game's   *)
(*    code may hit automatically there, which the module turns into a      *)
(*    transaction that puts one synthetic key in the place of the held     *)
(*    ones and puts them back at its end (module Replay has its inside);   *)
(*  - the master switch (set_enabled_internal), under g_control_lock.      *)
(*                                                                         *)
(* The ingress is the channel that module MergedChannel specifies and      *)
(* module Ingress implements.  A poster that waits for its record (2 ms for*)
(* an edge, 5 ms for a command) is here one that goes on at any time,      *)
(* before or after the worker gets there, as the timeouts allow.           *)
(*                                                                         *)
(* Times are abstracted to what the properties tell apart: the order of    *)
(* the queue is raw_ns order, in which the edges of one source keep their  *)
(* order and those of two devices may swap; the capture floor and the UI   *)
(* pause button are a free choice to give an edge to the game.  drifted is *)
(* the drift of CLOCK_REALTIME against CLOCK_MONOTONIC that the guard      *)
(* notices.  Left out: the frozen virtual clock (nothing reads its base    *)
(* back), masks, the synthetic test macro.                                 *)
(***************************************************************************)
EXTENDS Naturals, Sequences, FiniteSets, SequencesExt

CONSTANTS Touches, Keys,   \* the sources of edges, by handler
          EventCap,        \* ADO_ASYNC_INGRESS_EVENT_CAPACITY (512)
          ControlCap,      \* ADO_ASYNC_INGRESS_CONTROL_CAPACITY (16)
          QueueCap,        \* MAX_EVENTS (256)
          HeldCap,         \* MAX_HELD_SOURCES (64)
          SlotCap,         \* ASYNC_KEY_SLOT_COUNT (16)
          MaxPosts,        \* bound: records posted
          MaxSwitches      \* bound: times the master switch is thrown

Sources == Touches \cup Keys

ASSUME CaptureAssumption ==
    /\ Touches \cap Keys = {}
    /\ {EventCap, ControlCap, QueueCap, HeldCap, SlotCap} \subseteq Nat \ {0}
    /\ {MaxPosts, MaxSwitches} \subseteq Nat

VARIABLES
    enabled,      \* g_enabled
    gate,         \* g_capture_ready (with g_last_playercontrol_wall_tick # 0)
    queue,        \* g_queue[g_queue_head .. g_queue_count), by raw_ns
    physical,     \* g_physical_sources: down when they entered the queue
    held,         \* g_held_sources: down for the game, captured ones only: the
                  \* synthetic key of an automatic hit is none of them
    saved,        \* prev_held ..: what that hit will put back
    orphans,      \* history: what a clear has met saved, or put back since
    suppressed,   \* g_suppressed_sources: the UI thread captured their DOWN
    channel,      \* the ingress: records posted and not yet popped
    worker, rec,  \* where the worker is, and its record
    main,         \* where the Unity main thread is in its frame
    playing,      \* controller_allows_async_replay
    ui, uiSource, \* where the UI thread is, and the source it handles
    fingers,      \* sources that are physically down
    control,      \* where set_enabled_internal is
    drifted,      \* the clocks have moved against g_wall_minus_uptime_ticks
    posts, switches  \* counters that only bound the model

runtime == <<queue, physical, held, suppressed, saved, orphans>>
workerVars == <<worker, rec>>
uiVars == <<ui, uiSource, fingers>>
vars == <<enabled, gate, runtime, channel, workerVars, main, playing, uiVars,
          control, drifted, posts, switches>>

Edge == [type : {"DOWN", "UP"}, source : Sources]
Commands == {"RESET", "SOFT_PAUSE", "SOFT_RESUME"}
Record == [kind : {"EVENT"}, edge : Edge] \cup [kind : Commands]
NoRecord == [kind |-> "NONE"]
NoSource == "none"

Init ==
    /\ enabled = FALSE
    /\ gate = FALSE
    /\ queue = <<>> /\ physical = {} /\ held = {} /\ suppressed = {}
    /\ saved = {} /\ orphans = {}
    /\ channel = <<>>
    /\ worker = "pop" /\ rec = NoRecord
    /\ main = "idle" /\ playing = FALSE
    /\ ui = "idle" /\ uiSource = NoSource /\ fingers = {}
    /\ control = "idle"
    /\ drifted = FALSE
    /\ posts = 0 /\ switches = 0

-----------------------------------------------------------------------------
(* The runtime state and the channel.                                      *)

\* g_held_count = 0, in a clear.  What the transaction of an automatic hit has
\* saved is on the main thread's stack, out of its reach.
LetGo ==
    /\ held' = {}
    /\ orphans' = saved
    /\ UNCHANGED saved

\* clear_runtime_state_locked
ClearRuntime ==
    /\ queue' = <<>>
    /\ physical' = {}
    /\ suppressed' = {}
    /\ LetGo

\* The two calls that always stand together in one critical section:
\* set_capture_gate_locked(0, 0) and clear_runtime_state_locked().
CloseGate == gate' = FALSE /\ ClearRuntime

EventIndices == {i \in 1..Len(channel) : channel[i].kind = "EVENT"}
Oldest(S) == CHOOSE i \in S : \A j \in S : i <= j

\* ingress_post_event: a full event ring gives up its oldest event.
PushEvent(type, s) ==
    channel' = Append(IF Cardinality(EventIndices) = EventCap
                        THEN RemoveAt(channel, Oldest(EventIndices))
                        ELSE channel,
                      [kind |-> "EVENT", edge |-> [type |-> type, source |-> s]])

\* ingress_post_reset, _soft_pause, _soft_resume: a command that finds the
\* command ring full is dropped, and nobody looks at the result.
PushCommand(kind) ==
    channel' = IF Len(channel) - Cardinality(EventIndices) = ControlCap
                 THEN channel
                 ELSE Append(channel, [kind |-> kind])

-----------------------------------------------------------------------------
(* The UI thread.                                                          *)

\* A DOWN.  Disabled, paused, gate closed, in the pause button or not newer
\* than the capture floor: the game gets it.  Else it goes on to be posted.
Press(s) ==
    /\ ui = "idle"
    /\ s \notin fingers
    /\ fingers' = fingers \cup {s}
    /\ \/ UNCHANGED <<ui, uiSource, posts>>
       \/ /\ enabled /\ gate /\ posts < MaxPosts
          /\ ui' = "postDown" /\ uiSource' = s /\ posts' = posts + 1
    /\ UNCHANGED <<enabled, gate, runtime, channel, workerVars, main, playing,
                   control, drifted, switches>>

PostDown ==
    /\ ui = "postDown"
    /\ PushEvent("DOWN", uiSource)
    /\ ui' = "suppress"
    /\ UNCHANGED <<enabled, gate, runtime, workerVars, main, playing, uiSource,
                   fingers, control, drifted, posts, switches>>

\* add_suppressed_source, after ingress_post_event has come back.
Suppress ==
    /\ ui = "suppress"
    /\ suppressed' = IF Cardinality(suppressed) < HeldCap
                       THEN suppressed \cup {uiSource} ELSE suppressed
    /\ ui' = "idle" /\ uiSource' = NoSource
    /\ UNCHANGED <<enabled, gate, queue, physical, held, saved, orphans, channel,
                   workerVars,
                   main, playing, fingers, control, drifted, posts, switches>>

\* An UP that the handler gives back at once: disabled, game paused, a touch
\* that is not suppressed, a key while the gate is closed.  A source that is
\* suppressed stays so.
ReleaseToGame(s) ==
    /\ ui = "idle"
    /\ s \in fingers
    /\ fingers' = fingers \ {s}
    /\ UNCHANGED <<enabled, gate, runtime, channel, workerVars, main, playing,
                   ui, uiSource, control, drifted, posts, switches>>

\* An UP that is handled: a touch stops being suppressed before the gate is
\* looked at, a key after.
Release(s) ==
    /\ ui = "idle"
    /\ s \in fingers
    /\ enabled
    /\ fingers' = fingers \ {s}
    /\ uiSource' = s
    /\ \/ /\ s \in Touches \cap suppressed
          /\ suppressed' = suppressed \ {s}
          /\ ui' = "upGate"
       \/ /\ s \in Keys
          /\ gate
          /\ ui' = "keyUp"
          /\ UNCHANGED suppressed
    /\ UNCHANGED <<enabled, gate, queue, physical, held, saved, orphans, channel,
                   workerVars,
                   main, playing, control, drifted, posts, switches>>

\* The handler ends without posting.
GiveUp == ui' = "idle" /\ uiSource' = NoSource /\ UNCHANGED posts

TouchUpGate ==
    /\ ui = "upGate"
    /\ \/ GiveUp
       \/ gate /\ posts < MaxPosts /\ ui' = "postUp" /\ posts' = posts + 1 /\ UNCHANGED uiSource
    /\ UNCHANGED <<enabled, gate, runtime, channel, workerVars, main, playing,
                   fingers, control, drifted, switches>>

KeyUp ==
    /\ ui = "keyUp"
    /\ suppressed' = suppressed \ {uiSource}
    /\ IF uiSource \in suppressed
         THEN posts < MaxPosts /\ ui' = "postUp" /\ posts' = posts + 1 /\ UNCHANGED uiSource
         ELSE GiveUp
    /\ UNCHANGED <<enabled, gate, queue, physical, held, saved, orphans, channel,
                   workerVars,
                   main, playing, fingers, control, drifted, switches>>

PostUp ==
    /\ ui = "postUp"
    /\ PushEvent("UP", uiSource)
    /\ ui' = "idle" /\ uiSource' = NoSource
    /\ UNCHANGED <<enabled, gate, runtime, workerVars, main, playing, fingers,
                   control, drifted, posts, switches>>

\* ACTION_CANCEL: the runtime state is cleared here, not by the worker.
Cancel ==
    /\ ui = "idle"
    /\ enabled
    /\ fingers \cap Touches # {}
    /\ fingers' = fingers \ Touches
    /\ ClearRuntime
    /\ UNCHANGED <<enabled, gate, channel, workerVars, main, playing, ui,
                   uiSource, control, drifted, posts, switches>>

\* ACTION_MOVE of a suppressed touch finds the gate closed ...
Move ==
    /\ ui = "idle"
    /\ enabled /\ ~gate
    /\ fingers \cap Touches # {}
    /\ suppressed \cap Touches # {}
    /\ ui' = "clear"
    /\ UNCHANGED <<enabled, gate, runtime, channel, workerVars, main, playing,
                   uiSource, fingers, control, drifted, posts, switches>>

\* ... and clears the runtime state in a critical section of its own.
MoveClears ==
    /\ ui = "clear"
    /\ ClearRuntime
    /\ ui' = "idle"
    /\ UNCHANGED <<enabled, gate, channel, workerVars, main, playing, uiSource,
                   fingers, control, drifted, posts, switches>>

\* nativeOnLifecycleReset, nativeOnLifecyclePause, nativeOnLifecycleResume
Lifecycle(kind) ==
    /\ ui = "idle"
    /\ posts < MaxPosts
    /\ posts' = posts + 1
    /\ PushCommand(kind)
    /\ UNCHANGED <<enabled, gate, runtime, workerVars, main, playing, uiVars,
                   control, drifted, switches>>

-----------------------------------------------------------------------------
(* The worker.                                                             *)

\* ingress_pop, and the branch on the record's kind.
Pop ==
    /\ worker = "pop"
    /\ channel # <<>>
    /\ rec' = Head(channel)
    /\ channel' = Tail(channel)
    /\ worker' = CASE rec'.kind = "EVENT" -> "event"
                   [] rec'.kind = "SOFT_RESUME" -> "align"
                   [] OTHER -> "shut"
    /\ UNCHANGED <<enabled, gate, runtime, main, playing, uiVars, control,
                   drifted, posts, switches>>

\* INGRESS_RESET and INGRESS_SOFT_PAUSE.
Shut ==
    /\ worker = "shut"
    /\ CloseGate
    /\ worker' = IF rec.kind = "RESET" THEN "align" ELSE "pop"
    /\ rec' = IF rec.kind = "RESET" THEN rec ELSE NoRecord
    /\ UNCHANGED <<enabled, channel, main, playing, uiVars, control, drifted,
                   posts, switches>>

\* async_clock_guard_time_origin(.., force = 1), after a reset and on a
\* resume: any drift moves the origin.
Align ==
    /\ worker = "align"
    /\ drifted' = FALSE
    /\ worker' = "pop" /\ rec' = NoRecord
    /\ UNCHANGED <<enabled, gate, runtime, channel, main, playing, uiVars,
                   control, posts, switches>>

\* enqueue_event looks before it takes the lock ...
Precheck ==
    /\ worker = "event"
    /\ IF enabled /\ gate
         THEN worker' = "locked" /\ UNCHANGED rec
         ELSE worker' = "pop" /\ rec' = NoRecord
    /\ UNCHANGED <<enabled, gate, runtime, channel, main, playing, uiVars,
                   control, drifted, posts, switches>>

\* The queue with e put behind the edges that are not newer.  raw_ns orders
\* the edges of one source; how those of others compare is left open.
Insertions(q, e) ==
    {InsertAt(q, i, e) : i \in {i \in 1..Len(q) + 1 :
                                  \A j \in i..Len(q) : q[j].source # e.source}}

\* A DOWN of a source that is already down clears everything first; without
\* room among the physical sources it is dropped.  A queue at its limit is
\* cleared for it.
EnqueueDown(e) ==
    LET duplicate == e.source \in physical
        down == IF duplicate THEN {} ELSE physical
        q == IF duplicate THEN <<>> ELSE queue
    IN  IF Cardinality(down) >= HeldCap
          THEN UNCHANGED runtime
          ELSE IF Len(q) = QueueCap
                 THEN /\ queue' = <<e>>
                      /\ physical' = {e.source}
                      /\ suppressed' = {} /\ LetGo
                 ELSE /\ queue' \in Insertions(q, e)
                      /\ physical' = down \cup {e.source}
                      /\ IF duplicate
                           THEN suppressed' = {} /\ LetGo
                           ELSE UNCHANGED <<held, suppressed, saved, orphans>>

\* An UP of a source that is not down is dropped; one that meets a full
\* queue clears everything, itself included.
EnqueueUp(e) ==
    IF e.source \notin physical
      THEN UNCHANGED runtime
      ELSE IF Len(queue) = QueueCap
             THEN ClearRuntime
             ELSE /\ queue' \in Insertions(queue, e)
                  /\ physical' = physical \ {e.source}
                  /\ UNCHANGED <<held, suppressed, saved, orphans>>

\* Mutants of Enqueue: the second look under the lock is left out, or only
\* looks at the gate.
EnqueueUnchecked ==
    /\ worker = "locked"
    /\ IF rec.edge.type = "DOWN" THEN EnqueueDown(rec.edge) ELSE EnqueueUp(rec.edge)
    /\ worker' = "pop" /\ rec' = NoRecord
    /\ UNCHANGED <<enabled, gate, channel, main, playing, uiVars, control,
                   drifted, posts, switches>>
EnqueueChecksGate ==
    /\ worker = "locked"
    /\ IF ~gate THEN UNCHANGED runtime
         ELSE IF rec.edge.type = "DOWN" THEN EnqueueDown(rec.edge) ELSE EnqueueUp(rec.edge)
    /\ worker' = "pop" /\ rec' = NoRecord
    /\ UNCHANGED <<enabled, gate, channel, main, playing, uiVars, control,
                   drifted, posts, switches>>

\* ... and looks again under the lock before it changes anything.
Enqueue ==
    /\ worker = "locked"
    /\ IF ~enabled \/ ~gate THEN UNCHANGED runtime
         ELSE IF rec.edge.type = "DOWN" THEN EnqueueDown(rec.edge) ELSE EnqueueUp(rec.edge)
    /\ worker' = "pop" /\ rec' = NoRecord
    /\ UNCHANGED <<enabled, gate, channel, main, playing, uiVars, control,
                   drifted, posts, switches>>

-----------------------------------------------------------------------------
(* The Unity main thread: one frame of PlayerControl.Update / UpdateInput.  *)

\* The hooks and open_capture_for_controller read g_enabled without a lock.
BeginFrame ==
    /\ main = "idle"
    /\ enabled /\ playing
    /\ main' = "open"
    /\ UNCHANGED <<enabled, gate, runtime, channel, workerVars, playing, uiVars,
                   control, drifted, posts, switches>>

\* Mutant of OpenCapture: it waits until no source is suppressed.
OpenCaptureWhenReleased ==
    /\ main = "open"
    /\ IF gate
         THEN UNCHANGED <<gate, runtime>> /\ main' = "guard"
         ELSE IF suppressed # {}
           THEN UNCHANGED <<gate, runtime>> /\ main' = "idle"
           ELSE gate' = TRUE /\ ClearRuntime /\ main' = "start"
    /\ UNCHANGED <<enabled, channel, workerVars, playing, uiVars, control,
                   drifted, posts, switches>>

\* open_capture_for_controller, first critical section.
OpenCapture ==
    /\ main = "open"
    /\ IF gate
         THEN UNCHANGED <<gate, runtime>> /\ main' = "guard"
         ELSE gate' = TRUE /\ ClearRuntime /\ main' = "start"
    /\ UNCHANGED <<enabled, channel, workerVars, playing, uiVars, control,
                   drifted, posts, switches>>

\* Its second one, when it has opened the gate.
StartCapture ==
    /\ main = "start"
    /\ suppressed' = {}
    /\ main' = "guard"
    /\ UNCHANGED <<enabled, gate, queue, physical, held, saved, orphans, channel,
                   workerVars,
                   playing, uiVars, control, drifted, posts, switches>>

\* ensure_async_clock_fields: follow a clock jump ...
ClockGuard(at, jumped, done) ==
    /\ main = at
    /\ IF enabled /\ drifted
         THEN drifted' = FALSE /\ main' = jumped
         ELSE main' = done /\ UNCHANGED drifted
    /\ UNCHANGED <<enabled, gate, runtime, channel, workerVars, playing, uiVars,
                   control, posts, switches>>

\* ... and drop the edges whose snapshots it made stale.
ClockDrop(at, done) ==
    /\ main = at
    /\ ClearRuntime
    /\ main' = done
    /\ UNCHANGED <<enabled, gate, channel, workerVars, playing, uiVars, control,
                   drifted, posts, switches>>

FrameGuard == ClockGuard("guard", "drop", "replay")
FrameDrop == ClockDrop("drop", "replay")

\* Mutant of BeginReplay: the boundary is older than the edges queued by then.
BeginReplayBehind ==
    /\ main = "replay"
    /\ main' = CASE ~enabled -> "idle"
                 [] enabled /\ ~playing -> "close"
                 [] OTHER -> "more"
    /\ UNCHANGED <<enabled, gate, runtime, channel, workerVars, playing, uiVars,
                   control, drifted, posts, switches>>

\* replay_pending_events_via_process_key_inputs samples its time boundary:
\* everything queued by then is due, what comes later may or may not be.
BeginReplay ==
    /\ main = "replay"
    /\ main' = CASE ~enabled -> "idle"
                 [] enabled /\ ~playing -> "close"
                 [] enabled /\ playing /\ queue # <<>> -> "due"
                 [] OTHER -> "more"
    /\ UNCHANGED <<enabled, gate, runtime, channel, workerVars, playing, uiVars,
                   control, drifted, posts, switches>>

\* Mutant of Apply: the game's keys are not counted.
ApplyUncounted(h, e) ==
    IF e.type = "UP" THEN h \ {e.source} ELSE h \cup {e.source}

\* What an edge does to the held sources; the game has SlotCap keys.
Apply(h, e) ==
    IF e.type = "UP" THEN h \ {e.source}
    ELSE IF Cardinality(h) < HeldCap /\ Cardinality(h) < SlotCap
           THEN h \cup {e.source} ELSE h

\* Mutant of HeldAfter: an UP in the same step as its DOWN is overlooked.
HeldAfterDowns(n) ==
    LET downs == {i \in 1..n : queue[i].type = "DOWN"}
        h[i \in 0..n] == IF i = 0 THEN held
                         ELSE IF downs # {} /\ i \notin downs THEN h[i - 1]
                         ELSE Apply(h[i - 1], queue[i])
    IN  h[n]

\* What the first n edges of the queue do to them, one after the other.
HeldAfter(n) ==
    LET h[i \in 0..n] == IF i = 0 THEN held ELSE Apply(h[i - 1], queue[i])
    IN  h[n]

\* pop_events_for_tick: the edges of one instant, or a burst of DOWNs, reach
\* the game together: some first part of the queue.  They are thrown away if
\* the level is over by then.
ReplayStep ==
    /\ main \in {"due", "more"}
    /\ \E n \in 1..Len(queue) :
          /\ held' = HeldAfter(n)
          /\ queue' = SubSeq(queue, n + 1, Len(queue))
          /\ orphans' = orphans \ {queue[i].source : i \in 1..n}
    /\ main' = IF playing THEN "more" ELSE "close"
    /\ UNCHANGED <<enabled, gate, physical, suppressed, saved, channel, workerVars,
                   playing, uiVars, control, drifted, posts, switches>>

\* Nothing (more) is due.
EndReplay ==
    /\ main = "more" \/ (main = "due" /\ queue = <<>>)
    /\ main' = "idle"
    /\ UNCHANGED <<enabled, gate, runtime, channel, workerVars, playing, uiVars,
                   control, drifted, posts, switches>>

\* The game, in the code that a replayed edge runs, calls Hit(isAuto), which a
\* hook takes over: it guards the clock as a frame does, ...
HitAuto ==
    /\ main = "more"
    /\ enabled /\ playing
    /\ main' = "autoGuard"
    /\ UNCHANGED <<enabled, gate, runtime, channel, workerVars, playing, uiVars,
                   control, drifted, posts, switches>>

AutoGuard == ClockGuard("autoGuard", "autoDrop", "autoBegin")
AutoDrop == ClockDrop("autoDrop", "autoBegin")

\* ... gives up if the game's own auto flag is out of reach, ...
AutoUnavailable ==
    /\ main = "autoBegin"
    /\ main' = "more"
    /\ UNCHANGED <<enabled, gate, runtime, channel, workerVars, playing, uiVars,
                   control, drifted, posts, switches>>

\* ... or saves the held sources and lets the game hit with the synthetic key.
BeginAuto ==
    /\ main = "autoBegin"
    /\ saved' = held
    /\ held' = {}
    /\ main' = "nested"
    /\ UNCHANGED <<enabled, gate, queue, physical, suppressed, orphans, channel,
                   workerVars, playing, uiVars, control, drifted, posts, switches>>

\* They are put back whatever was cleared or closed meanwhile.
EndAuto ==
    /\ main = "nested"
    /\ held' = saved
    /\ saved' = {}
    /\ main' = "more"
    /\ UNCHANGED <<enabled, gate, queue, physical, suppressed, orphans, channel,
                   workerVars, playing, uiVars, control, drifted, posts, switches>>

\* stop_capture_and_clear_queue: in the replay loop, or from a hook that
\* finds the switch off, or the level over and the gate still open.
StopCapture ==
    /\ \/ main = "close"
       \/ main = "idle" /\ ~enabled
       \/ main = "idle" /\ ~playing /\ gate
    /\ CloseGate
    /\ main' = "idle"
    /\ UNCHANGED <<enabled, channel, workerVars, playing, uiVars, control,
                   drifted, posts, switches>>

\* The game, between two frames or in the code that a replayed edge or an
\* automatic hit runs: a level starts or ends, ...
GameMoves ==
    /\ main \in {"idle", "more", "nested"}
    /\ playing' = ~playing
    /\ UNCHANGED <<enabled, gate, runtime, channel, workerVars, main, uiVars,
                   control, drifted, posts, switches>>

\* ... or it is paused or failed, where a hook (hooked_set_paused,
\* hooked_fail2_action) closes the capture before the game does it.
GameStops ==
    /\ main \in {"idle", "more", "nested"}
    /\ enabled /\ playing
    /\ CloseGate
    /\ playing' = FALSE
    /\ UNCHANGED <<enabled, channel, workerVars, main, uiVars, control,
                   drifted, posts, switches>>

-----------------------------------------------------------------------------
(* apply_runtime_enabled_locked, and the clock.                            *)

SwitchOff ==
    /\ control = "idle"
    /\ enabled /\ switches < MaxSwitches
    /\ enabled' = FALSE
    /\ control' = "closing"
    /\ switches' = switches + 1
    /\ UNCHANGED <<gate, runtime, channel, workerVars, main, playing, uiVars,
                   drifted, posts>>

CloseSwitchedOff ==
    /\ control = "closing"
    /\ CloseGate
    /\ control' = "idle"
    /\ UNCHANGED <<enabled, channel, workerVars, main, playing, uiVars,
                   drifted, posts, switches>>

SwitchOn ==
    /\ control = "idle"
    /\ ~enabled /\ switches < MaxSwitches /\ posts < MaxPosts
    /\ enabled' = TRUE
    /\ control' = "resetting"
    /\ switches' = switches + 1 /\ posts' = posts + 1
    /\ UNCHANGED <<gate, runtime, channel, workerVars, main, playing, uiVars,
                   drifted>>

\* update_time_origin, and a reset nobody waits for.
ResetSwitchedOn ==
    /\ control = "resetting"
    /\ drifted' = FALSE
    /\ PushCommand("RESET")
    /\ control' = "idle"
    /\ UNCHANGED <<enabled, gate, runtime, workerVars, main, playing, uiVars,
                   posts, switches>>

Jump ==
    /\ ~drifted
    /\ drifted' = TRUE
    /\ UNCHANGED <<enabled, gate, runtime, channel, workerVars, main, playing,
                   uiVars, control, posts, switches>>

-----------------------------------------------------------------------------
UIStep ==
    \/ \E s \in Sources : Press(s) \/ ReleaseToGame(s) \/ Release(s)
    \/ PostDown \/ Suppress
    \/ TouchUpGate \/ KeyUp \/ PostUp
    \/ Cancel \/ Move \/ MoveClears
    \/ \E kind \in Commands : Lifecycle(kind)

WorkerStep == Pop \/ Shut \/ Align \/ Precheck \/ Enqueue

MainStep ==
    \/ BeginFrame \/ OpenCapture \/ StartCapture \/ FrameGuard \/ FrameDrop
    \/ BeginReplay \/ ReplayStep \/ EndReplay \/ StopCapture
    \/ HitAuto \/ AutoGuard \/ AutoDrop \/ AutoUnavailable \/ BeginAuto \/ EndAuto

ControlStep == SwitchOff \/ CloseSwitchedOff \/ SwitchOn \/ ResetSwitchedOn

Next ==
    \/ UIStep
    \/ WorkerStep
    \/ MainStep \/ GameMoves \/ GameStops
    \/ ControlStep
    \/ Jump

Spec == Init /\ [][Next]_vars

\* The worker runs, Unity calls its frame hooks for as long as the process
\* lives, and a call of the switch that has begun ends.  The game's code returns
\* from every edge it is given, however many automatic hits it makes.  The user,
\* the game's course and the clock owe nothing.
Fairness ==
    /\ WF_vars(WorkerStep)
    /\ WF_vars(MainStep)
    /\ SF_vars(ReplayStep \/ EndReplay)
    /\ WF_vars(CloseSwitchedOff)
    /\ WF_vars(ResetSwitchedOn)

LiveSpec == Spec /\ Fairness

-----------------------------------------------------------------------------
(* Properties.                                                             *)

\* Every variable keeps the range of the C object it stands for.
TypeOK ==
    /\ enabled \in BOOLEAN
    /\ gate \in BOOLEAN
    /\ queue \in Seq(Edge) /\ Len(queue) <= QueueCap
    /\ physical \subseteq Sources /\ Cardinality(physical) <= HeldCap
    /\ held \subseteq Sources /\ Cardinality(held) <= SlotCap
    /\ suppressed \subseteq Sources
    /\ saved \subseteq Sources /\ Cardinality(saved) <= SlotCap
    /\ orphans \subseteq Sources
    /\ channel \in Seq(Record)
    /\ worker \in {"pop", "shut", "align", "event", "locked"}
    /\ rec \in Record \cup {NoRecord}
    /\ main \in {"idle", "open", "start", "guard", "drop", "replay", "due",
                 "more", "close", "autoGuard", "autoDrop", "autoBegin", "nested"}
    /\ playing \in BOOLEAN
    /\ ui \in {"idle", "postDown", "suppress", "upGate", "keyUp", "postUp", "clear"}
    /\ uiSource \in Sources \cup {NoSource}
    /\ fingers \subseteq Sources
    /\ control \in {"idle", "closing", "resetting"}
    /\ drifted \in BOOLEAN
    /\ posts \in 0..MaxPosts /\ switches \in 0..MaxSwitches

\* The sources the game holds, or will hold again when a transaction ends, but
\* for those that an automatic hit puts back after a clear.
Owed == (held \cup saved) \ orphans

Drained == queue = <<>> /\ physical = {} /\ Owed = {}

\* While the gate is closed no edge waits, no source is down and none is held,
\* whoever closed it and whatever was under way, with one exception: an edge
\* that passed the gate before cannot come in after (enqueue_event looks twice),
\* so nothing of one capture session is replayed in the next.  The exception is
\* an automatic hit that is under way when the gate closes: the sources it had
\* saved are held again at its end, and until the next clear, which is at the
\* latest the one that opens the gate.
DrainedWhenClosed == ~gate => Drained

\* The same for the master switch, once its call is over, and with the same
\* exception.  The gate itself may be open then, from a frame that had read
\* g_enabled before.
DisabledMeansDrained == (~enabled /\ control = "idle") => Drained

\* Where the queued edges of a source stand, in their order.
EdgesOf(s) == {i \in 1..Len(queue) : queue[i].source = s}

\* The game can always be told the truth about a source: its queued edges
\* alternate, begin with the one the game expects and end as the source last
\* entered the queue.  So a source the game holds is still down or has its UP
\* in the queue, over every clear, overflow, duplicate, refused slot and
\* automatic hit.  The orphans alone, which such a hit puts back after a clear,
\* are held with no UP to come.
EdgesPair ==
    \A s \in Sources :
        LET edges == EdgesOf(s)
        IN  /\ edges = {} => (s \in Owed => s \in physical)
            /\ \A i \in edges :
                  /\ (\A j \in edges : i <= j) /\ s \in Owed => queue[i].type = "UP"
                  /\ (\A j \in edges : j <= i) =>
                        (queue[i].type = "DOWN" <=> s \in physical)
                  /\ \A j \in edges :
                        i < j /\ (\A k \in edges : k <= i \/ j <= k) =>
                            queue[i].type # queue[j].type

\* A capture that the switch and the level allow is opened again after every
\* reset, pause or late command that closed it, and then stays open.
CaptureReopens == <>[](enabled /\ playing) => <>[]gate

\* No captured edge waits for ever: the game gets it, or it is dropped.
QueueDrains == (queue # <<>>) ~> (queue = <<>>)

\* docs/TECHNICAL.md and the comment of async_clock_guard_time_origin: when
\* the worker moves the origin by force, on a reset or a soft resume, the
\* queue is already drained and the gate closed.
ForcedMoveFindsQueueDrained ==
    [][(worker = "align" /\ worker' = "pop" /\ drifted' # drifted) => queue = <<>>]_vars
=============================================================================
