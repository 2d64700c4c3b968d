# TLA+ verification of the ADOFAI mobile asynchronous input module

The program is a native library (`async_input.c`, a few header-only parts in
`include/`, an audit replica of the official judgement in
`official_judgement.c`) that takes touches and keys away from Unity's frame
loop: Android callbacks post them with their hardware time stamp, a worker
thread queues them, and hooks on the Unity main thread replay them into the
official judgement once a frame. This directory models its concurrent core, its control
plane and the audit replica of the judgement, checks them with TLC on small
instances and proves the main results with TLAPS for every value of the
constants.

## The system

| Component | State | Operations | Works with |
|---|---|---|---|
| Ingress rings (`async_ingress_queue.h`) | event ring 512, command ring 16, drop counter | push event, push control, pop, count | called under `g_ingress_lock` |
| Ingress threads (`ingress_*`, `input_thread_main`) | `g_ingress_seq`, `g_ingress_processed_seq`, thread flag, one condition variable | post event + 2 ms seal, post command + 5 ms ack, pop, mark processed, create worker | Android UI thread, control API, worker |
| Capture session | gate, replay queue (256), physical (64), held (64 / 16 slots), suppressed and UI sources, capture floor | touch/key/cancel/move handlers, `enqueue_event`, open/stop capture, pop for a tick, lifecycle branches of the worker | all four actors, under `g_lock` |
| Time bridge | cached origin wall-uptime, last offset tick, hard-reset flag | guard (forced, per frame), update, offset smoothing | worker, frame hooks, master switch |
| Virtual clock | base, pause tick, running, resume marker | reset, pause, resume, consume marker | worker, open capture |
| Master switch, settings | requested, active, 0/1 files | set, apply, persist, reload when hooks are ready | control callers, startup |
| Raw observer | registered table, epoch | register, notify touch/key/enabled | UI thread, control callers |
| Replay and masks | slot masks, mask-clear flag, input types | replay step, apply masks, clear edges | frame hooks, official code |
| Auto transaction | started, finished, result | begin, finish, fallback | replay, `Hit(isAuto)` hook |
| Test macro | hold state, last target | plan taps/holds, post synthetic edges | replay |
| Scene cache | ready, gameworld, editor, paused | refresh on main thread, read anywhere | gate decisions |
| Startup, hooks | init flags, hook transaction | il2cpp hooks, patch thread, install/roll back | settings |
| Judgement audit | replica of player, floor, fail bar | margin, hit, hold, multitap, step | audit log only |

Hard behaviours: four actors (UI thread, worker, Unity main thread, control
callers) and several locks; state read in one critical section and used in the
next; waits that time out while the record is still being handled; commands
that nobody waits for; bounded rings, queue and slots; lifecycle callbacks that
come in pairs; a clock that jumps; a process that dies between two writes; game
code that calls the module back in the middle of a replay. What makes each part
correct:

- rings and threads: order by seq, commands never evicted, no lost wakeup, an
  ack is never early, every posted record is passed, calls return;
- capture: nothing crosses a closed gate or a switched-off module but the held
  sources an automatic hit puts back, the edges of a source stay paired, a
  capture comes back after a late reset, the queue drains;
- time bridge: an edge is judged at the song time it was pressed at, one that
  was merged into a burst at the time of the burst's head, no snapshot stays in
  the game, the smoothed offset arrives;
- control plane: active implies hooked, the user's last saved request wins,
  the newest thing an observer heard is true, startup ends or polls for a hook
  target that is not there;
- replay, auto and macro: an automatic hit moves the level by one, no source
  is held without a release to come;
- judgement: margins in order and symmetric, nobody is left behind or pays two
  lives for one mistake, the level ends.

The hazards behind these, each at its line, are in `PROJECT.json`.

## Modules

| Module | Models | State and actions |
|---|---|---|
| `MergedChannel` | what the ingress promises | `pending` records, `posted`, `taken`; `PostEvent` (gives up the oldest of a full channel), `PostControl`, `Take` (smallest seq) |
| `IngressQueue` | `async_ingress_queue.h` | slots, head and count of both rings, drop counter; `PushEvent`, `PushControl`, `RejectControl`, `PopControl`, `PopEvent`, `PopEmpty`. `poppedCount` is auxiliary |
| `Ingress` | the threads of the ingress | one action per critical section of `g_ingress_lock`. `waiting` is the set of threads blocked on the condition variable: a signal removes any one of them, a broadcast all, a timed wait or a spurious wakeup removes the thread itself. The rings are sequences here (`IngressQueue` shows that they may be) |
| `IngressInvariant` | the inductive invariant of `Ingress` | definitions only |
| `QueueLemmas` | facts about sequences (Append, Head and Tail, an entry in the middle, two queues in one) and induction over the entries of a queue | lemmas |
| `IngressQueueProofs`, `IngressProofs` | theorems of `IngressQueue` and `Ingress` | proofs |
| `Capture` | gate, queue and sources under `g_lock` | one action per critical section or unlocked read that matters, of the UI thread (`Press` .. `Lifecycle`), the worker (`Pop` .. `Enqueue`), the frame (`BeginFrame` .. `StopCapture`) with the automatic hit of a replayed edge (`HitAuto` .. `EndAuto`), the game (`GameMoves`, `GameStops`), the master switch and the clock (`Jump`) |
| `CaptureProofs` | theorems of `Capture` | proofs |
| `ClockBridge` | `async_clock_guard_time_origin`, `virtual_clock_*`, `ensure_async_clock_fields`, the swap in `call_process_key_inputs` | differences of clocks instead of clocks: `skew`, `lag`, `origin`, `offset`; the device (`WallClockSteps`, `AudioStalls`), the UI thread, the worker, and the main thread one step per section of a frame (`OpenCapture` .. `EndFrame`), with the bursts of the replay (`PopBurst`) and the measurement an automatic hit makes inside it (`AutoHit`) |
| `ClockBridgeProofs` | theorems of `ClockBridge` | proofs |
| `ControlPlane` | `patch_thread_main`, the control API, the settings files, the raw observer | the patch thread's place, the hooks tried and installed, the files (absent, empty, 0, 1), who holds `g_control_lock`, observer, epoch and the callback under way; `Die` starts the process again from the files |
| `ControlPlaneProofs` | theorems of `ControlPlane` | proofs |
| `Replay` | `replay_pending_events_via_process_key_inputs`, `pop_events_for_tick`, `post_test_macro_input_for_controller`, `hooked_scrplayer_hit`, `consume_auto_hit_via_async_state_machine` | `rt` is what `g_lock` protects (queue, physical and held sources, hold of the macro); one action per critical section of the frame (`BeginReplay` .. `GameReturns`), of the automatic hit (`HitAuto` .. `HitReturns`), and of the threads around it |
| `ReplayProofs` | theorems of `Replay` | proofs |
| `HitMargins` | `ado_official_get_adjusted_angle_boundary_deg`, `ado_official_get_hit_margin`, `ado_official_is_valid_hit` | pure operators over integers: milliseconds, percent, and degrees in units that make every quotient exact |
| `TurningPlanet` | a press at every angle of a turn | the settings and the angle; `Rotate` |
| `Judgement` | `ado_official_playercontrol_step` and what it calls | the functions of the replica change one runtime structure in place: operators from a record to a record, in the order of the calls; one action `Step` per call, with its input. `ado_oj_hit` and `ado_oj_die_or_recover` call each other; a hit is cut into `Strike` and `Finish`, with the recovery hit that its damage owes between them |
| `JudgementProofs` | theorems of the margins, of `TurningPlanet` and of `Judgement` | proofs |
| `MC...` | instances for TLC | constants and symmetry; `Capture` is checked directly with its three cfg files |

Composition: `IngressQueue` and `Ingress` both implement `MergedChannel`
(`INSTANCE ... WITH`, checked as the property `ImplementsChannel` and proved for
both). `Capture` uses the channel at that level of abstraction: one
sequence of records in seq order, with both capacities, and so does
`ClockBridge`. A poster's wait is an arbitrary delay there, which the timeouts
of `Ingress` allow. `Replay` goes on where `Capture` ends: it takes the edges
the worker enqueues and the clears of the other threads as free steps, in any
order, so it contains what `Capture` lets happen to the state under `g_lock`.
`Judgement` uses the margins of `HitMargins`.

Abstractions of `Capture`, and why they keep what is checked:

- `raw_ns` is left out. The queue is ordered by it; the edges of one source
  are posted in time order, those of two devices may swap, so `Insertions`
  lets an edge go anywhere behind the earlier edges of its source.
- Which prefix one replay step takes depends on times (same instant, or a
  burst of DOWNs), so every prefix is allowed.
- The capture floor, the paused flag and the UI pause button are a free choice
  to leave an edge to the game. Sources in the pause-button area are then not
  distinguished from other uncaptured ones.
- `playing` stands for `controller_allows_async_replay`. It equals
  `controller_allows_async_capture` in this code, since the capture gate asks
  for the PlayerControl state too; the Countdown/Checkpoint branch that calls
  `reset_capture_for_new_session` can therefore not be taken and is left out.
- `drifted` says that the clocks have moved against the stored origin, by more
  than the frame guard's tolerance of 20 ms; smaller drifts and the rejected
  samples are left out. Jumps come without a bound.
- The automatic hit is modelled by what it does to this state: the guard it
  runs, the held sources it saves (`saved`) and puts back, and everything the
  other threads and the game's own code may do in between. The synthetic key it
  holds meanwhile is left out, and so are the commit and the nested hits, which
  are in `Replay`. It happens in the code that a replayed edge runs. The game
  may also hit automatically in its own Update; the intercept then finds no
  controller, because the replay has cleared it (line 5403), but for one case
  that is left out: an Update that began outside the replay states and crosses
  into one (lines 5568-5588).
- The virtual clock is in `ClockBridge`; the test macro, which posts from the
  main thread past the physical sources, is in `Replay`.

Abstractions of the other modules:

- `ClockBridge`: an edge pressed at uptime `u` with audio lag `l` belongs at
  song time `u - l` and is judged at `u + origin - offset`, so only differences
  matter and uptime is no variable. `pop_events_for_tick` judges an edge and the
  DOWNs of the 8 ms behind it (`MULTITAP_BURST_NS`) with the tick and the
  snapshot of the first; `PopBurst` takes any prefix of the queue, since what is
  due depends on times, and keeps the lags of the presses behind the head
  (`behind`). A reading of the dsp time may be missing or not behind the tick:
  then nothing is measured (`MeasureNothing`). The base and pause ticks of the virtual
  clock are left out, since no conversion reads them back.
- `ControlPlane`: that the library, a symbol or a target is found is a free
  choice. The thread polls until the API and every required target resolve, so
  `ResolveTargets` may go round for ever, and the branch that gives up behind it
  (line 7331) is dead. A required target that resolved there resolves again when
  its hook is installed: what fails then is the patch. And an observer does not
  call the control API from its callback.
- `Replay`: time stamps decide where an edge goes and what is due; the place is
  any behind the earlier edges of its source, and any prefix is due. The down
  and up counts and the sets of the key masks last for one call of the game and
  are left out, as is the flag that clears them; the legacy replay without
  masks is left out. `Clear` stands for RESET (the one posted by enabling too),
  SOFT_PAUSE, ACTION_CANCEL and the drop at the frame guard. The check of the
  gate before the lock is a race `Capture` has; here it is one step.
- `Judgement`: the replica lets the planet turn with the song, so the angle
  past the next tile is the song time past the moment the tile is due. Left
  out: freeroam, conditional effects, the drum debounce, hits outside the game
  world, the revive bubble, keys by mask (only their number), grading and
  texts, and the rewind and revive functions, which nothing calls.
  `async_input.c` uses the replica for audit logs only and calls its
  defaults and its two single-press judgements; the step is exercised by its
  self tests and tests.

## Runs

| Run | Instance | Shows |
|---|---|---|
| `ingress_queue` | rings of 3 and 2, 9 records (85 thousand states) | head, count and modulo through several wraps: implements the channel, nothing lost uncounted |
| `ingress` | 3 symmetric callers, rings of 2 and 1, 4 records (734 thousand) | five invariants, order of pops, only the oldest event lost, implements the channel |
| `ingress_live` | 2 callers, rings of 1, 3 records (57 thousand) | every posted seq is passed, calls return |
| `capture` | a finger and a key, queue of 2, one slot, rings of 1, 4 posts, switch thrown twice, clock jumps and automatic hits without a bound (4.7 million) | nothing crosses a closed gate or a switched-off module but what an automatic hit puts back, edges stay paired |
| `capture_live` | a finger, queue and slot of 1, 3 posts, switch thrown twice (0.2 million) | the capture reopens, the queue drains |
| `capture_forced_move` | a finger, 3 posts | a finding, below |
| `clock_bridge` | a step of the wall clock (by -1 or 4) and a stall of the audio (4), tolerance 2, a burst of 1, a post, two edges, an automatic hit (1.4 million) | a replayed press is judged with an offset of its own time, up to the length of a burst more behind its head, the head's snapshot does not stay in the game, the smoothed offset arrives and stays |
| `control_plane` | one caller, two switches, a required and an optional hook, an observer, 2 calls, 1 registration, 1 death (0.7 million) | never active without its hooks, the last saved request wins after every startup, the observer is not misled, startup ends or polls for its targets for ever |
| `replay` | two symmetric fingers, a macro key, queue of 3, two slots (1.3 million) | an automatic hit counts once, no source is held without a release to come |
| `turning_planet` | 108 settings, a turn of 192 degrees in steps of 3 | margins symmetric, in order, and kept by easier settings |
| `judgement` | charts with a midspin before a two-tap tile and with an automatic tile behind a pause; no-fail, lives, strictest limit, old auto | deaths, recoveries, fail bar, lives and midspin keys over every input of a step (51 thousand) |
| `judgement_holds` | charts with holds, rolls, safe tiles, pauses, and an automatic tile behind a roll; normal, no-fail, lives | a bar that is over kills, a pause ends in time, and the level ends (35 thousand) |

The bounds are chosen so that each limit is reached: three callers give two
waiters beside the poster on the shared condition variable; a ring of one or
two overflows with the third record; nine records wrap both rings more than
once; a queue of two overflows after a DOWN, an UP and a DOWN of another
source, and one slot refuses the second finger. Four posts hold the reset
posted by the switch and three edges or commands. `MaxSeq`, `MaxPosts`
and `MaxSwitches` only end the exploration; the code's counters are 64-bit and
are not expected to wrap. `HeldCap` (64 physical sources) is not
reached by two sources.

In `clock_bridge` a step of -1 is one the guard tolerates and the smoothing
must mend, a step of 4 one it must follow; the jitter of the dsp reading is 0
there, because a tolerated step does to an offset what jitter does and the
bound of `JudgedOnTime` is then exact. A step and a stall together let the
second happen while the first is being mended; two edges make a burst. In
`control_plane` two calls around one death let a write be cut off and another
follow it, and one hook of each kind lets the required one fail alone. In
`replay` three queued edges let a full queue meet a tap and a finger, and two
slots are filled by two fingers, so that a third source is swallowed; the table of physical sources (64) cannot be full with two fingers.
`MaxHits` bounds nested hits that commit nothing. In the judgement runs a beat
is 5 units of song time, the counted width 2 and the pure width 1, the smallest
in which the zones differ; `MaxPending` (2) is the largest number of taps a tile
asks for; the bar is explored to its limit of 100 and a little over; the chart is
followed `Slack` past its end, beyond every limit of a late press. Charts have
three to eight tiles, the longest reach of a rule (the exception for rolls looks
four tiles ahead).

Where a behaviour is allowed to end, deadlock is not checked: startup gives up
or is done and nobody calls any more, the chart or the turn has ended.

Fairness. `Ingress!Fairness`: the worker and a caller that can run do run; the
deadlines are absolute times, so a waiter that is woken again and again still
times out (strong fairness of `TimeOut`). `Capture!Fairness`: the worker runs,
Unity goes on calling its frame hooks, a call of the switch that has begun
ends, and the game's code returns from the edge it was given after any number
of automatic hits (strong fairness of `ReplayStep \/ EndReplay`, since a hit
interrupts them). `ClockBridge!Fairness`: the frames go on while the activity is
not paused, and they do not miss the dsp time for ever (strong fairness of
`MeasureOffset`). `ControlPlane!Fairness`: the patch thread runs, nothing being
assumed of what it resolves, and the activity's
start, the game's own initialisation and calls that began go on; a death is
never assumed away, only bounded. `Judgement!Fairness`: the song goes on, that
is, the game goes on calling the step with time that has passed; nothing is
assumed of presses. Nothing is assumed of the user, the game's course, thread
creation or spurious wakeups; `Replay` states no fairness.

### Finding

`capture_forced_move`: `docs/TECHNICAL.md` (line 78) and the comment of
`async_clock_guard_time_origin` say that the forced resync of the origin finds
the queue drained and the gate closed. The soft-resume branch clears and closes
nothing itself, its post is not waited for, and Android sends two resumes. TLC
shows the run: a frame opens the gate, an edge is queued, the worker handles
the resume and moves the origin. The frame guard then sees no drift and does
not drop the edge, whose offset snapshot belongs to the old origin.

### Observations

Where the code does something a property has to except, the exception is named
in the property, and it is one of these:

- A switch thrown while the transaction of an automatic hit runs: the nested
  hit reads the switches anew, reaches the original without a commit, and the
  fallback hits a second time (`switched` in `AutoHitsOnce`).
- A clear while that transaction runs: the held count and masks it puts back
  bring sources to life that no UP will release. The next DOWN of such a source
  is swallowed and the test macro, which waits until nothing is held, stands
  still until the next clear (`orphans` in `HeldHasRelease` and in the
  properties of `Capture`). If the clear was a pause, a cancel or the switch, the
  gate is then closed, or the module off, with sources held, until the clear that
  opens the gate again. The same happens
  to the macro's own key when it is switched off in the middle of a hold.
- An automatic hit inside the replay of an edge measures the offset while the
  edge's snapshot is in its place. What it wrote is overwritten by the restore,
  a hard reset too, but stays in `g_last_async_offset_tick` for the next edges
  (`apart` in `NoSnapshotLeftBehind`); the smoothing mends it.
- The frame tick is read before the guard, so a clock step in between gives one
  hard reset from the old clock; so does a hard reset that finds no dsp time
  leave the old offset for a while (both `torn` in `JudgedOnTime`). A frame may
  reopen the capture between a soft pause and its soft resume, and a stall or a
  moved origin may meet a burst under way (`reopened`).
- The patch thread polls for its hook targets for ever if the API or a required
  target never resolves (the second case of `StartupEnds`); lines 7331-7334, which
  would give up, are never reached.
- A request for a switch whose file was not written to its end is lost at the
  next startup, also the one docs/TECHNICAL.md (line 91) calls kept: the
  settings are read again when the hooks are ready (`unsaved` in
  `IntentRecovered`). A file cut off after the truncation reads as 0, also for
  the automatic replay, whose default is 1; the results of `fputc` and `fclose`
  are not read.
- `PURE_PERFECT_ONLY` together with lives: the recovery hit is a death again,
  spared again by the cooldown, and the calls nest without end
  (`NestsOnlyWithLivesAndPure`).
- A no-fail player who tapped a tile after a midspin too few times gets no
  recovery hit and waits for ever (the third case of `LevelEnds`). The over
  count of the key limiter outlives its step and eats a later hit, which may
  be a recovery hit.

Two more are read from the code and lie outside the models: an observer callback
that calls the control API waits for `g_control_lock`, which its own thread
holds; and a finger that is down when the test macro is switched on has its UP
swallowed at the entrance, so the macro waits for it.

## Proofs

Every safety property of `IngressQueue`, `Ingress`, `Capture`, `ClockBridge`,
`ControlPlane`, `Replay` and `TurningPlanet` that a run checks as an invariant is
also a theorem, for every value of the constants that the module's ASSUME
allows, and so are the action properties of `Ingress` and `TurningPlanet`, both
refinements, and six of the seven safety properties of `Judgement`, for all
charts. No assumption bounds a set or a number: callers, sources, hooks
and observers may be infinitely many. What the assumptions say, and why the
code justifies it:

- capacities and bounds are positive naturals; the worker is not a caller; the
  sources of players and macro are different, and so are those of the macro's
  taps (they are `SYNTHETIC_TEST_SOURCE_ID` plus the tap's number);
- in `ControlPlane` the registration is not made by one of the callers' names,
  which only keeps the letters of two threads apart;
- in `ClockBridge` the steps and the stall of the clocks have a largest one.
  The device's clocks move by a finite amount; without it `Ceiling`, the bound
  in `TypeOK`, would not exist;
- in `Judgement` a game is a chart of at least one tile with settings, beat and
  cooldown (two seconds) are positive, and the boundaries are in their order,
  which is what `BoundariesNested` proves of them; a loop "while the floor
  changes" makes at least one round (`Rounds`; the code's guard is 16), without
  which nothing would be judged at all.

### Rings and threads

`IngressQueueProofs`: the slots between head and head plus count, modulo the
size, are the queue (`RingInv`). That pushing leaves them alone and popping
takes the first is arithmetic of remainders, proved in lemmas of its own; the
mapping to `MergedChannel` reads the queue off the slots. `NothingLost` and
`RingTypes` follow from the same invariant.

`IngressProofs` proves type correctness, the four safety invariants of the run
`ingress`, its two action properties, and that `Ingress` implements
`MergedChannel`. The argument is the inductive invariant `IInv`:

- the rings are increasing, what is queued is newer than what was popped and
  not newer than `seq`, and a non-empty event ring holds a suffix of the posted
  events (`RingsOrdered`, `NewestKept`), which gives the merge order;
- the worker's record, the applied and the processed seq move in step with its
  program counter (`WorkerProgress`), which makes an ack true;
- a sleeper waits for a seq between processed and `seq`, and a sleeping worker
  has emptied the rings, with everything processed (`NoLostWakeup`,
  `SleepersAreUnanswered`). This is why one signal is enough: whoever could
  take it in the worker's place cannot be asleep at the same time;
- the creating caller is alone (`OneCreator`, `WorkerStarted`).

None of the safety invariants is inductive without the order of the rings and
the worker's progress. The refinement maps `pending` to the elements of both
rings.

### Capture

`CaptureProofs` proves `DrainedWhenClosed` and `DisabledMeansDrained` together
(`CInv`): a frame that read the switch before it was cleared may open the gate
afterwards, and from then on only the second look of `enqueue_event` at the
switch keeps the queue empty. Both speak of `Owed`, the sources the game holds or
will hold again at the end of an automatic hit, but for the `orphans`, which a
clear met in the saved state: a clear empties `Owed` by making orphans of the
saved sources, and the end of the hit moves nothing in or out of it. Without the
exception all three safety properties fail, and TLC shows it. `EdgesPair` and
`TypeOK` need the two facts about the queue that one step relies on (an edge
enters behind those of its source, and only if it changes whether the source is
down), that nothing is saved outside a hit (`AutoInv`), and, for a replay step,
an induction along the replayed prefix: `Fits(h, m)` says that what is held after
the first `m` edges fits the edges that are left, with the orphans excepted that
have no edge among them.

### Time bridge

`ClockBridgeProofs`. `JudgedOnTime` is far from inductive. `Inv` adds what the
main thread holds at each place of a frame (`Places`); that an edge still in the
ingress was pressed under the lag of now, because the audio cannot stall while
one is on its way (`Fresh`), and so was every press of a burst (`EdgeGood`,
`BurstPopped`); that a frame's offset is the last one written while
the gate is open, unless a hard reset is due (`Steered`); and that every offset
kept, queued, frozen for an edge or in use differs from the right one by less
than the guard lets it (`OnTime`). The two exceptions of the property, `torn`
and `reopened`, are where `OnTime` breaks in the code. `NoSnapshotLeftBehind` follows
from the same invariant. For the bound in `TypeOK` every change of a clock is
charged to a budget, one for the steps and one for the stalls (`Moves`): skew, lag
and every offset that was read, frozen or smoothed stay within what has been
spent (`Budgeted`, `WithinReach`, `Frozen`).

### Control plane

`ControlPlaneProofs`: one invariant, `CPInv`. The hooks are complete wherever the
patch thread says so (`Hooked`). Whoever is between two steps of a call holds
the lock (`Locked`). A file written to its end reads as the last request for it,
and once the files have been read (`Applied`) so does the value in memory, but
for the switch a call is writing (`Kept`). Nobody has heard, or is about to
hear, of an epoch to come (`Current`), and the current one has reached the
registered observer or is on its way (`Reached`). A death leaves the files and
nothing else, so what is said of files has to hold in every state, not only at
rest.

### Replay

`ReplayProofs` proves `AutoHitsOnce` from `HitInv`, which follows the transaction
through its nested hits until a switch is thrown. `HeldHasRelease` rests on
`HeldInv`:

- `StaysDown` looks ahead: the game will hold the source when the queue has been
  replayed, because a DOWN is its last edge, or because it is held and has no
  edge. `ReleaseComes`: then somebody is committed to letting it go, the finger
  that is down, the macro's hold, or an order of its plan. The property itself
  is not inductive, since it says nothing of a source whose DOWN is queued;
- inside an automatic hit the held sources are the saved ones (`Kept`);
- while the gate is closed nothing is queued and only orphans are held
  (`Drained`), which is why a refused post of the macro strands nothing;
- the plan presses before it lets go and posts no DOWN behind an UP of the same
  key (`PlanSound`, `PressedOnce`), which is where the distinct keys are
  needed.

A burst is treated by induction along its edges (`Reached`). TLC checks
`HeldHasRelease` with one macro key; two were tried with `HeldInv` before the
proof.

### Margins

`JudgementProofs` proves first, for all settings (any trial, tempo, pitch, margin scale
and counted angle of at least 45 degrees), that the three boundaries are nested
(`BoundariesNested`), that the margins of a turning planet never go back, that
an early press is judged as the late one at the same distance, and that easier
settings never turn a hit into a miss. The argument goes from the widths in
time, ordered with and without their floor of 25 ms, over the common factor of
tempo and the maximum with the angles, which keep the order, to the seven
zones; a slower trial widens the widths before the floor and the maximum are
taken. No invariant is needed besides the type of the state.

### Replica

The rest of `JudgementProofs` is about `Judgement`, for every chart, every
setting and every input: `TypeOK`, `FailBarKills`, `NestsOnlyWithLivesAndPure`,
`OneLifeAtATime`, `NeverLeftBehind` and `PauseEndsInTime`, and one more action
property, `AidLeavesBehind`. A step is one composition of some thirty operators, so the
invariant (`Replica`) is threaded through it: `Good(r, b)` is what is known of
the record `r` between two parts of a step that began with `b`, and each
operator has a lemma that it keeps `Good`.

- `Paid` compares with the beginning of the step: either lives and cooldown are
  as they were, or there was no cooldown, one life is gone and, if any is left,
  the cooldown runs. A second death of the step then finds the cooldown and is
  spared. This needs `CooldownTime` to be positive, and that lives or a cooldown
  are there only where the game gives lives (`Purse`).
- `Strict` says that the death a full bar brings was spared on the tile the
  player is on, `Barred` that it was spared there or on the tile before. Damage
  establishes `Strict`; the landing that follows it leaves `Barred` (`MovedFacts`);
  and a hit that begins with a bar that is over lands only for a player who
  cannot fail (`StrikeTileFacts`).
- `Landing` is what makes a hit with a recovery hit inside it sound: the inner
  hit may have entered the tile already, and the outer one enters the same tile
  again, since its target was read before.
- A death owes a recovery hit only under the limits and settings `DieFacts`
  names, and damage only by `PureOnlyFails`; both together leave the strictest
  limit with lives as the one case in which a recovery hit owes another.
- The loops "while the floor changes" (`Settle`) are runs of states: `RunExists`
  gives the recursion its solution, `RunStays` carries `Good` along it.

`PauseEndsInTime` needs to know how a player came to a tile. `Justified` says
that nothing but a press that was not late leads to a tile that does not aid
him, for a player who was never helped (`Helped`: he cannot fail, has paid a
life, or met a tile that spares him or is taken for him). This stays true once
it is (`HelpStays`), and only helped players get recovery hits. The lock set on
entering a tile is then shorter than what is left of the gap (`Entered`, from
`LockTimeFacts`), and as time and lock run down together, the invariant keeps
`Waits`: a player who waits for his input has an `Entered` tile, or is where he
was when the step began, with the lock that `UpdateLockFacts` has just shortened
(`Locked`).

`NeverLeftBehind` is a property of the order of the parts of a step. `Law` says
that a mortal player is not past the post-hold limit unless a tile since the
beginning of the step aided him (`Bare` is the opposite). `PostHoldRound` shows
that `check_post_hold_fail` establishes it, given that its loop makes a round;
`LawStays` carries it through the keys, releases and damage behind it: none of
them changes the time, and a tile further on is due no earlier (`DueOrdered`,
`LateFalls`). With the start of the step kept in it, this gives
`OnlyAidLeavesBehind`; with the beginning of the chart in its place, it is the
conjunct of `Replica` from which `NobodyLeftBehind` follows.

The attempts corrected four properties, with counterexamples TLC confirmed, which
the first charts had not shown. A player on a safe tile, or on the way to an
automatic one, is spared with a full bar and carries it to the next tile, where
nothing judges it in the same step: `FailBarKills` now names the tile before, and
the chart `Trill` reaches that case. A player who was spared with a life may
lose the key of a midspin, since a bar that is over takes the hit back:
`MidspinKeyKept` is stated for players who have all their lives. A midspin that
is safe keeps the player, and the key that takes him on is consumed only after
`check_post_hold_fail`, so that he can be behind when the step ends:
`NeverLeftBehind` is stated for players whom no tile has aided. And a tile entered
late, by a recovery hit, an automatic one or from a midspin, can lock the input
past the next tile: `PauseEndsInTime` is stated for players who pressed in time,
and covers in return charts with pauses next to automatic tiles (`Rest`). The arms of
eight CASEs overlapped in the order of the code's tests; they are written as
IF and ELSE now, in that order.

### Only model-checked

The liveness properties, since liveness under fairness and ENABLED are not within
reach of the provers used. And `MidspinKeyKept` of `Judgement`: it is true of the
charts of the runs and not of every chart. A midspin that is a pause swallows the
key it brought, since the input is locked when it is taken; so may a midspin that
is safe or automatic; so may a release that is ignored and left over
in the frame that reaches the midspin; and with the old auto, a key left over from
a hold in front of it. A hypothesis that excludes all of these would say more
about tiles and inputs around the midspin than the property says about the
midspin; it stays with TLC.

What a recursive function computes for every input needs induction over data,
which the provers cannot do for a predicate; where an invariant needs the run of
such a function (`HeldAfter`, `Burst`, `Settle`, `Due`), a set of naturals that
contains 0 and the successor of each member takes the place of the predicate
(`SetInduction`).

## Not modelled

- The sets of the game's key masks, their clear flag and the input-type
  fallback: managed objects of the game, which no decision of this code reads
  back. With them, `async_masks_clear_all_if_ready` on the calling thread.
- The legacy replay path, which runs only when the mask API cannot be resolved.
- The scene cache: its answer is a free variable, so every staleness of it is in
  `Capture` and `Replay`.
- Touch and key callbacks of the raw observer, which forward and keep nothing.
- The parts of the replica listed under `Judgement` above.
- IL2CPP symbol and offset lookup, the vendored hook library, logging and
  tracing, JNI conversions, launcher views, build scripts: no protocol state, or
  not part of this program.

What could follow: the conditions on charts and inputs under which
`MidspinKeyKept` is a theorem, and an abstract player that `Judgement` implements.
