--------------------------- MODULE CaptureProofs ---------------------------
(***************************************************************************)
(* What module Capture promises about a closed gate, a switched-off module *)
(* and the pairing of edges, for any number of sources and any capacities. *)
(***************************************************************************)
EXTENDS Capture, QueueLemmas

\* The two promises hold together: a frame that read g_enabled before it was
\* cleared opens the gate, and then only the switch keeps the queue empty.
\* The second part is why the switch needs no clear of its own to turn on.
CInv ==
    /\ DrainedWhenClosed
    /\ DisabledMeansDrained
    /\ control = "resetting" => enabled
    /\ control \in {"idle", "closing", "resetting"}

LEMMA Initially == Init => CInv
BY DEF Init, CInv, DrainedWhenClosed, DisabledMeansDrained, Drained, Owed

\* The steps of the UI thread never put an edge into the queue.
LEMMA UIKeeps == CInv /\ UIStep => CInv'
<1> SUFFICES ASSUME CInv, UIStep PROVE CInv'
  OBVIOUS
<1>1. UNCHANGED <<enabled, gate, control>>
  BY DEF UIStep, Press, ReleaseToGame, Release, PostDown, Suppress, TouchUpGate,
         KeyUp, PostUp, Cancel, Move, MoveClears, Lifecycle
<1>2. Drained => Drained'
  BY DEF UIStep, Press, ReleaseToGame, Release, PostDown, Suppress, TouchUpGate,
         KeyUp, PostUp, Cancel, Move, MoveClears, Lifecycle, ClearRuntime,
         LetGo, runtime, Drained, Owed
<1> QED
  BY <1>1, <1>2 DEF CInv, DrainedWhenClosed, DisabledMeansDrained

\* The worker puts an edge into the queue only where it sees, under g_lock,
\* both the gate open and the switch on.
LEMMA WorkerKeeps == CInv /\ WorkerStep => CInv'
<1> SUFFICES ASSUME CInv, WorkerStep PROVE CInv'
  OBVIOUS
<1>1. CASE Pop \/ Align \/ Precheck
  BY <1>1 DEF Pop, Align, Precheck, runtime, CInv, DrainedWhenClosed,
              DisabledMeansDrained, Drained, Owed
<1>2. CASE Shut
  BY <1>2 DEF Shut, CloseGate, ClearRuntime, LetGo, CInv, DrainedWhenClosed,
              DisabledMeansDrained, Drained, Owed
<1>3. CASE Enqueue
  <2>1. UNCHANGED <<enabled, gate, control>>
    BY <1>3 DEF Enqueue
  <2>2. ~enabled \/ ~gate => UNCHANGED runtime
    BY <1>3 DEF Enqueue
  <2> QED
    BY <2>1, <2>2 DEF runtime, CInv, DrainedWhenClosed, DisabledMeansDrained, Drained,
                      Owed
<1> QED
  BY <1>1, <1>2, <1>3 DEF WorkerStep

\* A frame clears the runtime state when it opens the gate, and replays only
\* what is queued.
LEMMA MainKeeps == CInv /\ (MainStep \/ GameMoves \/ GameStops) => CInv'
<1> SUFFICES ASSUME CInv, MainStep \/ GameMoves \/ GameStops PROVE CInv'
  OBVIOUS
<1>1. CASE \/ BeginFrame \/ FrameGuard \/ BeginReplay \/ EndReplay \/ GameMoves
           \/ HitAuto \/ AutoGuard \/ AutoUnavailable
  BY <1>1 DEF BeginFrame, FrameGuard, BeginReplay, EndReplay, GameMoves, HitAuto,
              AutoGuard, AutoUnavailable, ClockGuard, runtime,
              CInv, DrainedWhenClosed, DisabledMeansDrained, Drained, Owed
<1>2. CASE OpenCapture \/ StartCapture \/ FrameDrop \/ AutoDrop
  BY <1>2 DEF OpenCapture, StartCapture, FrameDrop, AutoDrop, ClockDrop,
              ClearRuntime, LetGo, runtime, CInv, DrainedWhenClosed,
              DisabledMeansDrained, Drained, Owed
<1>3. CASE StopCapture \/ GameStops
  BY <1>3 DEF StopCapture, GameStops, CloseGate, ClearRuntime, LetGo,
              CInv, DrainedWhenClosed, DisabledMeansDrained, Drained, Owed
<1>4. CASE ReplayStep
  <2>1. queue # <<>>
    BY <1>4 DEF ReplayStep
  <2>2. ~Drained
    BY <2>1 DEF Drained
  <2>3. UNCHANGED <<enabled, gate, control>>
    BY <1>4 DEF ReplayStep
  <2> QED
    BY <2>2, <2>3 DEF CInv, DrainedWhenClosed, DisabledMeansDrained
<1>5. CASE BeginAuto \/ EndAuto
  BY <1>5 DEF BeginAuto, EndAuto, CInv, DrainedWhenClosed, DisabledMeansDrained,
              Drained, Owed
<1> QED
  BY <1>1, <1>2, <1>3, <1>4, <1>5 DEF MainStep

\* The switch is cleared before the gate is closed and the state is cleared.
LEMMA ControlKeeps == CInv /\ ControlStep => CInv'
BY DEF ControlStep, SwitchOff, CloseSwitchedOff, SwitchOn, ResetSwitchedOn,
       CloseGate, ClearRuntime, LetGo, runtime, CInv, DrainedWhenClosed,
       DisabledMeansDrained, Drained, Owed

LEMMA StepKeeps == CInv /\ [Next]_vars => CInv'
<1> SUFFICES ASSUME CInv, [Next]_vars PROVE CInv'
  OBVIOUS
<1>1. CASE Jump \/ UNCHANGED vars
  BY <1>1 DEF Jump, vars, runtime, CInv, DrainedWhenClosed, DisabledMeansDrained,
              Drained, Owed
<1> QED
  BY <1>1, UIKeeps, WorkerKeeps, MainKeeps, ControlKeeps DEF Next

\* No edge of one capture session is left for the next: whenever the gate is
\* closed nothing is queued, and no source is down or held but for those that an
\* automatic hit, under way when it closed, puts back.
THEOREM ClosedMeansDrained == Spec => []DrainedWhenClosed
<1>1. CInv => DrainedWhenClosed
  BY DEF CInv
<1> QED
  BY <1>1, Initially, StepKeeps, PTL DEF Spec

\* Nor is one left, or let in, after the master switch was thrown, with the same
\* exception, although a late frame may then still open the gate.
THEOREM SwitchedOffMeansDrained == Spec => []DisabledMeansDrained
<1>1. CInv => DisabledMeansDrained
  BY DEF CInv
<1> QED
  BY <1>1, Initially, StepKeeps, PTL DEF Spec

-----------------------------------------------------------------------------
(* The ranges of the variables.  The counts need finite sets, a record that *)
(* the worker takes for an event must be one, and the UI thread must know   *)
(* its source where it posts.                                               *)

QueueTypes == queue \in Seq(Edge) /\ Len(queue) <= QueueCap
SourceTypes ==
    /\ physical \in SUBSET Sources /\ IsFiniteSet(physical)
    /\ Cardinality(physical) <= HeldCap
    /\ held \in SUBSET Sources /\ IsFiniteSet(held)
    /\ Cardinality(held) <= SlotCap
    /\ saved \in SUBSET Sources /\ IsFiniteSet(saved)
    /\ Cardinality(saved) <= SlotCap
    /\ orphans \in SUBSET Sources
    /\ suppressed \in SUBSET Sources

RuntimeInv == QueueTypes /\ SourceTypes /\ EdgesPair

IngressTypes ==
    /\ channel \in Seq(Record)
    /\ worker \in {"pop", "shut", "align", "event", "locked"}
    /\ rec \in Record \cup {NoRecord}
    /\ worker \in {"event", "locked"} => rec \in [kind : {"EVENT"}, edge : Edge]

FrameTypes ==
    /\ enabled \in BOOLEAN /\ gate \in BOOLEAN /\ playing \in BOOLEAN
    /\ main \in {"idle", "open", "start", "guard", "drop", "replay", "due",
                 "more", "close", "autoGuard", "autoDrop", "autoBegin", "nested"}
    /\ control \in {"idle", "closing", "resetting"}
    /\ drifted \in BOOLEAN
    /\ posts \in 0..MaxPosts /\ switches \in 0..MaxSwitches

UiTypes ==
    /\ ui \in {"idle", "postDown", "suppress", "upGate", "keyUp", "postUp", "clear"}
    /\ uiSource \in Sources \cup {NoSource}
    /\ ui \in {"postDown", "suppress", "upGate", "keyUp", "postUp"} => uiSource \in Sources
    /\ fingers \in SUBSET Sources

\* Something is saved only while an automatic hit is under way, and then
\* nothing is replayed.
AutoInv == main # "nested" => saved = {}

Inv == RuntimeInv /\ IngressTypes /\ FrameTypes /\ UiTypes /\ AutoInv

-----------------------------------------------------------------------------
(* The operators on the queue.                                              *)

LEMMA InsertFacts ==
    ASSUME NEW S, NEW q \in Seq(S), NEW e \in S, NEW i \in 1..Len(q) + 1
    PROVE  /\ InsertAt(q, i, e) \in Seq(S)
           /\ Len(InsertAt(q, i, e)) = Len(q) + 1
           /\ \A j \in 1..Len(q) + 1 : InsertAt(q, i, e)[j] =
                IF j < i THEN q[j] ELSE IF j = i THEN e ELSE q[j - 1]
<1>1. InsertAt(q, i, e) = Splice(q, i, e)
  BY DEF InsertAt, Splice
<1>2. /\ Splice(q, i, e) \in Seq(S)
      /\ Len(Splice(q, i, e)) = Len(q) + 1
      /\ \A j \in 1..Len(q) + 1 : Splice(q, i, e)[j] =
           IF j < i THEN q[j] ELSE IF j = i THEN e ELSE q[j - 1]
  BY SpliceFacts, SMTT(30)
<1> QED
  BY <1>1, <1>2, Zenon

LEMMA RemoveFacts ==
    ASSUME NEW S, NEW q \in Seq(S), NEW i \in 1..Len(q)
    PROVE  RemoveAt(q, i) \in Seq(S)
<1>1. SubSeq(q, 1, i - 1) \in Seq(S) /\ SubSeq(q, i + 1, Len(q)) \in Seq(S)
  OBVIOUS
<1> QED
  BY <1>1 DEF RemoveAt

\* A full event ring has an oldest event.
LEMMA PushEventFacts ==
    ASSUME channel \in Seq(Record), NEW type \in {"DOWN", "UP"}, NEW s \in Sources,
           PushEvent(type, s)
    PROVE  channel' \in Seq(Record)
<1> DEFINE kept == IF Cardinality(EventIndices) = EventCap
                     THEN RemoveAt(channel, Oldest(EventIndices)) ELSE channel
<1>1. kept \in Seq(Record)
  <2>1. CASE Cardinality(EventIndices) = EventCap
    <3>1. EventIndices # {}
      BY <2>1, FS_EmptySet, CaptureAssumption
    <3>2. EventIndices \in SUBSET Nat /\ EventIndices \subseteq 1..Len(channel)
      BY DEF EventIndices
    <3>3. \E i \in EventIndices : \A j \in EventIndices : i <= j
      BY <3>1, <3>2, LeastElement
    <3>4. Oldest(EventIndices) \in 1..Len(channel)
      BY <3>2, <3>3 DEF Oldest
    <3> QED
      BY <2>1, <3>4, RemoveFacts
  <2>2. CASE Cardinality(EventIndices) # EventCap
    BY <2>2
  <2> QED
    BY <2>1, <2>2
<1> DEFINE r == [kind |-> "EVENT", edge |-> [type |-> type, source |-> s]]
<1>2. r \in Record
  BY DEF Record, Edge
<1>3. channel' = Append(kept, r)
  BY DEF PushEvent
<1> HIDE DEF kept, r
<1> QED
  BY <1>1, <1>2, <1>3

LEMMA PushCommandFacts ==
    ASSUME channel \in Seq(Record), NEW kind \in Commands, PushCommand(kind)
    PROVE  channel' \in Seq(Record)
<1>1. [kind |-> kind] \in Record
  BY DEF Record
<1> QED
  BY <1>1 DEF PushCommand

\* The recursion in HeldAfter has a solution, for every number of edges.
LEMMA HeldAfterUnfolds ==
    ASSUME NEW n \in Nat
    PROVE  \E h : /\ h[0] = held
                  /\ \A i \in 1..n : h[i] = Apply(h[i - 1], queue[i])
                  /\ HeldAfter(n) = h[n]
<1> DEFINE Solves(h, m) ==
             h = [i \in 0..m |-> IF i = 0 THEN held ELSE Apply(h[i - 1], queue[i])]
<1> DEFINE T == {m \in Nat : \E h : Solves(h, m)}
<1>1. 0 \in T
  <2> DEFINE h == [i \in 0..0 |-> held]
  <2>1. h = [i \in 0..0 |-> IF i = 0 THEN held ELSE Apply(h[i - 1], queue[i])]
    OBVIOUS
  <2> QED
    BY <2>1
<1>2. ASSUME NEW m \in T PROVE m + 1 \in T
  <2>1. m \in Nat
    OBVIOUS
  <2>2. PICK h : h = [i \in 0..m |-> IF i = 0 THEN held ELSE Apply(h[i - 1], queue[i])]
    OBVIOUS
  <2> DEFINE g == [i \in 0..m + 1 |-> IF i = m + 1 THEN Apply(h[m], queue[m + 1]) ELSE h[i]]
  <2>3. \A i \in 0..m : h[i] = IF i = 0 THEN held ELSE Apply(h[i - 1], queue[i])
    BY <2>2
  <2>4. ASSUME NEW i \in 0..m + 1
        PROVE  g[i] = IF i = 0 THEN held ELSE Apply(g[i - 1], queue[i])
    <3>1. CASE i = m + 1
      <4>1. i - 1 = m /\ m \in 0..m + 1 /\ i # 0 /\ m # m + 1
        BY <2>1, <3>1
      <4>2. g[i - 1] = h[m]
        BY <4>1
      <4>3. g[i] = Apply(h[m], queue[m + 1])
        BY <3>1
      <4> QED
        BY <3>1, <4>1, <4>2, <4>3
    <3>2. CASE i # m + 1
      <4>1. i \in 0..m /\ (i # 0 => i - 1 \in 0..m + 1 /\ i - 1 # m + 1)
        BY <2>1, <3>2
      <4>2. g[i] = h[i] /\ (i # 0 => g[i - 1] = h[i - 1])
        BY <3>2, <4>1
      <4> QED
        BY <2>3, <4>1, <4>2
    <3> QED
      BY <3>1, <3>2
  <2>5. g = [i \in 0..m + 1 |-> g[i]]
    OBVIOUS
  <2> HIDE DEF g
  <2>6. Solves(g, m + 1)
    BY <2>4, <2>5
  <2> QED
    BY <2>1, <2>6
<1> HIDE DEF T
<1>3. T = Nat
  <2>1. T \in SUBSET Nat
    BY DEF T
  <2> QED
    BY <1>1, <1>2, <2>1, SetInduction
<1>4. \E h : Solves(h, n)
  BY <1>3 DEF T
<1> DEFINE f == CHOOSE h : Solves(h, n)
<1>5. Solves(f, n)
  BY <1>4
<1>6. HeldAfter(n) = f[n]
  BY DEF HeldAfter
<1> HIDE DEF f
<1>7. f[0] = held /\ \A i \in 1..n : f[i] = Apply(f[i - 1], queue[i])
  BY <1>5
<1> QED
  BY <1>6, <1>7

\* The orphans of which no edge is among the first m.
OrphansLeft(m) == orphans \ {queue[i].source : i \in 1..m}

\* The held sources h, once the first m edges of the queue are applied: no
\* more than the game has keys for, and fit for the edges that are left.
Fits(h, m) ==
    /\ h \in SUBSET Sources /\ IsFiniteSet(h) /\ Cardinality(h) <= SlotCap
    /\ \A s \in h \ OrphansLeft(m) :
          /\ (\A i \in EdgesOf(s) : i <= m) => s \in physical
          /\ \A i \in EdgesOf(s) :
                m < i /\ (\A j \in EdgesOf(s) : j <= m \/ i <= j) => queue[i].type = "UP"

LEMMA ApplyFacts ==
    ASSUME NEW h \in SUBSET Sources, IsFiniteSet(h), Cardinality(h) <= SlotCap,
           NEW e \in Edge
    PROVE  /\ Apply(h, e) \in SUBSET Sources /\ IsFiniteSet(Apply(h, e))
           /\ Cardinality(Apply(h, e)) <= SlotCap
           /\ \A s \in Sources \ {e.source} : s \in Apply(h, e) <=> s \in h
           /\ e.type = "UP" => e.source \notin Apply(h, e)
<1>1. e.source \in Sources /\ e.type \in {"UP", "DOWN"}
  BY DEF Edge
<1>2. SlotCap \in Nat /\ Cardinality(h) \in Nat
  BY CaptureAssumption, FS_CardinalityType
<1>3. CASE e.type = "UP"
  <2>1. Apply(h, e) = h \ {e.source}
    BY <1>3 DEF Apply
  <2>2. IsFiniteSet(h \ {e.source}) /\ Cardinality(h \ {e.source}) <= Cardinality(h)
    BY FS_Subset
  <2>3. Cardinality(h \ {e.source}) \in Nat
    BY <2>2, FS_CardinalityType
  <2>4. Cardinality(h \ {e.source}) <= SlotCap
    BY <1>2, <2>2, <2>3
  <2> QED
    BY <2>1, <2>2, <2>4
<1>4. CASE e.type # "UP" /\ Cardinality(h) < HeldCap /\ Cardinality(h) < SlotCap
  <2>1. Apply(h, e) = h \cup {e.source}
    BY <1>4 DEF Apply
  <2>2. /\ IsFiniteSet(h \cup {e.source})
        /\ \/ Cardinality(h \cup {e.source}) = Cardinality(h)
           \/ Cardinality(h \cup {e.source}) = Cardinality(h) + 1
    BY FS_AddElement
  <2>3. Cardinality(h \cup {e.source}) <= SlotCap
    BY <1>2, <1>4, <2>2
  <2> QED
    BY <1>1, <1>4, <2>1, <2>2, <2>3
<1>5. CASE e.type # "UP" /\ ~(Cardinality(h) < HeldCap /\ Cardinality(h) < SlotCap)
  <2>1. Apply(h, e) = h
    BY <1>5 DEF Apply
  <2> QED
    BY <1>5, <2>1
<1> QED
  BY <1>3, <1>4, <1>5

\* One more edge of the queue: a source the game holds gets its UP next.
LEMMA ApplyFits ==
    ASSUME QueueTypes, EdgesPair, NEW m \in Nat, m + 1 <= Len(queue),
           NEW h, Fits(h, m)
    PROVE  Fits(Apply(h, queue[m + 1]), m + 1)
<1> DEFINE e == queue[m + 1]
<1> DEFINE g == Apply(h, e)
<1>1. queue \in Seq(Edge) /\ Len(queue) \in Nat /\ m + 1 \in 1..Len(queue)
  BY DEF QueueTypes
<1>2. e \in Edge
  BY <1>1
<1>3. h \in SUBSET Sources /\ IsFiniteSet(h) /\ Cardinality(h) <= SlotCap
  BY DEF Fits
<1>4. \A s : EdgesOf(s) \subseteq 1..Len(queue)
  BY DEF EdgesOf
<1>5. e.source \in Sources /\ e.type \in {"UP", "DOWN"} /\ m + 1 \in EdgesOf(e.source)
  BY <1>1, <1>2 DEF Edge, EdgesOf
<1> HIDE DEF e
<1>6. /\ g \in SUBSET Sources /\ IsFiniteSet(g) /\ Cardinality(g) <= SlotCap
      /\ \A s \in Sources \ {e.source} : s \in g <=> s \in h
      /\ e.type = "UP" => e.source \notin g
  BY <1>2, <1>3, ApplyFacts
<1> HIDE DEF g
<1>7. ASSUME NEW s \in g \ OrphansLeft(m + 1)
      PROVE  /\ (\A i \in EdgesOf(s) : i <= m + 1) => s \in physical
             /\ \A i \in EdgesOf(s) :
                   m + 1 < i /\ (\A j \in EdgesOf(s) : j <= m + 1 \/ i <= j)
                      => queue[i].type = "UP"
  <2>1. CASE s # e.source
    <3>1. s \in h /\ m + 1 \notin EdgesOf(s)
      BY <1>6, <2>1 DEF EdgesOf, e
    <3>3. s \notin OrphansLeft(m)
      BY <1>1, <1>7, <2>1 DEF OrphansLeft, e
    <3>2. \A i \in EdgesOf(s) : /\ i <= m + 1 <=> i <= m
                                /\ m + 1 < i <=> m < i
      BY <1>1, <1>4, <3>1
    <3> QED
      BY <3>1, <3>2, <3>3 DEF Fits
  <2>2. CASE s = e.source
    <3>1. e.type = "DOWN"
      BY <1>5, <1>6, <2>2
    <3>2. ASSUME \A i \in EdgesOf(s) : i <= m + 1
          PROVE  s \in physical
      BY <1>5, <2>2, <3>1, <3>2 DEF EdgesPair, e
    <3>3. ASSUME NEW i \in EdgesOf(s), m + 1 < i,
                 \A j \in EdgesOf(s) : j <= m + 1 \/ i <= j
          PROVE  queue[i].type = "UP"
      <4>1. queue[m + 1].type # queue[i].type
        BY <1>5, <2>2, <3>3 DEF EdgesPair
      <4>2. queue[i] \in Edge
        BY <1>1, <1>4
      <4> QED
        BY <3>1, <4>1, <4>2 DEF Edge, e
    <3> QED
      BY <3>2, <3>3
  <2> QED
    BY <2>1, <2>2
<1> QED
  BY <1>6, <1>7 DEF Fits, g, e

LEMMA HeldAfterFits ==
    ASSUME RuntimeInv, saved = {}, NEW n \in 0..Len(queue)
    PROVE  Fits(HeldAfter(n), n)
<1>1. n \in Nat /\ Len(queue) \in Nat /\ n <= Len(queue)
  BY DEF RuntimeInv, QueueTypes
<1>2. PICK h : /\ h[0] = held
               /\ \A i \in 1..n : h[i] = Apply(h[i - 1], queue[i])
               /\ HeldAfter(n) = h[n]
  BY <1>1, HeldAfterUnfolds
<1> DEFINE T == {m \in Nat : m <= n => Fits(h[m], m)}
<1>3. 0 \in T
  <2>1. \A s : EdgesOf(s) \in SUBSET (Nat \ {0})
    BY <1>1 DEF EdgesOf
  <2>2. \A s \in held : /\ (\A i \in EdgesOf(s) : i <= 0) => EdgesOf(s) = {}
                        /\ \A j \in EdgesOf(s) : ~(j <= 0)
    BY <2>1
  <2>3. held \ OrphansLeft(0) = Owed
    BY DEF OrphansLeft, Owed
  <2>4. Fits(held, 0)
    BY <2>2, <2>3 DEF Fits, RuntimeInv, SourceTypes, EdgesPair
  <2> QED
    BY <1>2, <2>4
<1>4. ASSUME NEW m \in T PROVE m + 1 \in T
  <2>1. m \in Nat
    OBVIOUS
  <2>2. ASSUME m + 1 <= n PROVE Fits(h[m + 1], m + 1)
    <3>1. m <= n /\ m + 1 \in 1..n /\ (m + 1) - 1 = m /\ m + 1 <= Len(queue)
      BY <1>1, <2>1, <2>2
    <3>2. Fits(h[m], m)
      BY <3>1
    <3>3. h[m + 1] = Apply(h[m], queue[m + 1])
      BY <1>2, <3>1
    <3> QED
      BY <2>1, <3>1, <3>2, <3>3, ApplyFits DEF RuntimeInv
  <2> QED
    BY <2>1, <2>2
<1>5. T = Nat
  <2> HIDE DEF T
  <2>1. T \in SUBSET Nat
    BY DEF T
  <2> QED
    BY <1>3, <1>4, <2>1, SetInduction
<1> QED
  BY <1>1, <1>2, <1>5

-----------------------------------------------------------------------------
(* What the critical sections of g_lock do to the runtime state.            *)

LEMMA RuntimeKept ==
    ASSUME RuntimeInv, UNCHANGED <<queue, physical, held, saved, orphans>>,
           suppressed' \in SUBSET Sources
    PROVE  RuntimeInv'
BY DEF RuntimeInv, QueueTypes, SourceTypes, EdgesPair, EdgesOf, Owed

\* An automatic hit saves the held sources, or puts back what it saved.
LEMMA AutoKeeps ==
    ASSUME RuntimeInv, UNCHANGED <<queue, physical, suppressed, orphans>>,
           \/ saved' = held /\ held' = {}
           \/ held' = saved /\ saved' = {}
    PROVE  RuntimeInv'
<1>1. QueueTypes'
  BY DEF RuntimeInv, QueueTypes
<1>2. SourceTypes'
  BY CaptureAssumption, FS_EmptySet DEF RuntimeInv, SourceTypes
<1>3. Owed' \subseteq Owed /\ \A s : EdgesOf(s)' = EdgesOf(s)
  BY DEF Owed, EdgesOf
<1>4. EdgesPair'
  BY <1>3 DEF RuntimeInv, EdgesPair
<1> QED
  BY <1>1, <1>2, <1>4 DEF RuntimeInv

LEMMA Cleared ==
    ASSUME queue = <<>>, physical = {}, held = {}, suppressed = {}, saved = {},
           orphans = {}
    PROVE  RuntimeInv
<1>1. QueueTypes
  BY CaptureAssumption DEF QueueTypes
<1>2. SourceTypes
  BY CaptureAssumption, FS_EmptySet DEF SourceTypes
<1>3. EdgesPair
  BY DEF EdgesPair, EdgesOf, Owed
<1> QED
  BY <1>1, <1>2, <1>3 DEF RuntimeInv

LEMMA ClearKeeps == ASSUME SourceTypes, ClearRuntime PROVE RuntimeInv'
<1>1. /\ queue' = <<>> /\ physical' = {} /\ held' = {} /\ suppressed' = {}
      /\ saved' = saved /\ orphans' = saved
  BY DEF ClearRuntime, LetGo
<1>2. QueueTypes'
  BY <1>1, CaptureAssumption DEF QueueTypes
<1>3. SourceTypes'
  BY <1>1, CaptureAssumption, FS_EmptySet DEF SourceTypes
<1>4. EdgesPair'
  BY <1>1 DEF EdgesPair, EdgesOf, Owed
<1> QED
  BY <1>2, <1>3, <1>4 DEF RuntimeInv

\* The edges that are left keep their order, and fit what the game holds now.
LEMMA ReplayKeeps ==
    ASSUME RuntimeInv, saved = {}, NEW n \in 1..Len(queue),
           held' = HeldAfter(n), queue' = SubSeq(queue, n + 1, Len(queue)),
           orphans' = orphans \ {queue[i].source : i \in 1..n},
           UNCHANGED <<physical, suppressed, saved>>
    PROVE  RuntimeInv'
<1>1. queue \in Seq(Edge) /\ Len(queue) \in Nat /\ n \in Nat /\ n <= Len(queue)
  BY DEF RuntimeInv, QueueTypes
<1>2. /\ queue' \in Seq(Edge) /\ Len(queue') = Len(queue) - n
      /\ \A i \in 1..Len(queue) - n : queue'[i] = queue[n + i]
  BY <1>1
<1>3. QueueTypes'
  BY <1>1, <1>2, CaptureAssumption DEF RuntimeInv, QueueTypes
<1>4. Fits(held', n)
  <2>1. n \in 0..Len(queue)
    BY <1>1
  <2> QED
    BY <2>1, HeldAfterFits
<1>5. /\ SourceTypes'
      /\ Owed' = held' \ OrphansLeft(n)
  BY <1>4 DEF Fits, RuntimeInv, SourceTypes, Owed, OrphansLeft
<1>6. ASSUME NEW s
      PROVE  /\ EdgesOf(s) \subseteq 1..Len(queue) /\ EdgesOf(s)' \subseteq 1..Len(queue) - n
             /\ \A i \in EdgesOf(s)' : /\ i \in Nat \ {0} /\ n + i \in EdgesOf(s)
                                     /\ queue'[i] = queue[n + i]
             /\ \A i \in EdgesOf(s) : i \in Nat /\ (n < i => i - n \in EdgesOf(s)')
  BY <1>1, <1>2 DEF EdgesOf
<1>7. ASSUME NEW s \in Sources, EdgesOf(s)' = {}, s \in Owed'
      PROVE  s \in physical'
  <2>1. \A i \in EdgesOf(s) : i <= n
    BY <1>1, <1>6, <1>7
  <2> QED
    BY <1>4, <1>5, <1>7, <2>1 DEF Fits
<1>8. ASSUME NEW s \in Sources, NEW i \in EdgesOf(s)',
             \A j \in EdgesOf(s)' : i <= j, s \in Owed'
      PROVE  queue'[i].type = "UP"
  <2>1. n < n + i
    BY <1>1, <1>6, <1>8
  <2>2. ASSUME NEW j \in EdgesOf(s), n < j PROVE n + i <= j
    <3>1. i <= j - n /\ i \in Nat /\ j \in Nat
      BY <1>6, <1>8, <2>2
    <3> QED
      BY <1>1, <3>1
  <2> QED
    BY <1>1, <1>4, <1>5, <1>6, <1>8, <2>1, <2>2 DEF Fits
<1>9. ASSUME NEW s \in Sources, NEW i \in EdgesOf(s)', \A j \in EdgesOf(s)' : j <= i
      PROVE  queue'[i].type = "DOWN" <=> s \in physical'
  <2>1. ASSUME NEW j \in EdgesOf(s) PROVE j <= n + i
    <3>1. i \in Nat /\ j \in Nat /\ (n < j => j - n <= i)
      BY <1>6, <1>9
    <3> QED
      BY <1>1, <3>1
  <2> QED
    BY <1>6, <1>9, <2>1 DEF RuntimeInv, EdgesPair
<1>10. ASSUME NEW s \in Sources, NEW i \in EdgesOf(s)', NEW j \in EdgesOf(s)', i < j,
              \A k \in EdgesOf(s)' : k <= i \/ j <= k
       PROVE  queue'[i].type # queue'[j].type
  <2>1. n + i < n + j /\ n + i \in EdgesOf(s) /\ n + j \in EdgesOf(s)
    BY <1>1, <1>6, <1>10
  <2>2. ASSUME NEW k \in EdgesOf(s) PROVE k <= n + i \/ n + j <= k
    <3>1. i \in Nat /\ j \in Nat /\ k \in Nat /\ (n < k => k - n <= i \/ j <= k - n)
      BY <1>6, <1>10
    <3> QED
      BY <1>1, <3>1
  <2>3. queue[n + i].type # queue[n + j].type
    BY <2>1, <2>2 DEF RuntimeInv, EdgesPair
  <2> QED
    BY <1>6, <1>10, <2>3
<1>11. EdgesPair'
  BY <1>7, <1>8, <1>9, <1>10 DEF EdgesPair
<1> QED
  BY <1>3, <1>5, <1>11 DEF RuntimeInv

\* An edge behind the others of its source, which begins or ends a press.
LEMMA InsertKeepsPairs ==
    ASSUME QueueTypes, EdgesPair, NEW e \in Edge,
           e.type = "DOWN" <=> e.source \notin physical,
           queue' \in Insertions(queue, e),
           physical' = IF e.type = "DOWN" THEN physical \cup {e.source}
                                          ELSE physical \ {e.source},
           Owed' = Owed
    PROVE  /\ queue' \in Seq(Edge) /\ Len(queue') = Len(queue) + 1
           /\ EdgesPair'
<1>1. queue \in Seq(Edge) /\ Len(queue) \in Nat
  BY DEF QueueTypes
<1>2. PICK p \in 1..Len(queue) + 1 :
        /\ \A j \in p..Len(queue) : queue[j].source # e.source
        /\ queue' = InsertAt(queue, p, e)
  BY DEF Insertions
<1>3. p \in Nat /\ 1 <= p /\ p <= Len(queue) + 1
  BY <1>1, <1>2
<1>4. /\ queue' \in Seq(Edge) /\ Len(queue') = Len(queue) + 1
      /\ \A j \in 1..Len(queue) + 1 : queue'[j] =
           IF j < p THEN queue[j] ELSE IF j = p THEN e ELSE queue[j - 1]
  <2>1. /\ InsertAt(queue, p, e) \in Seq(Edge)
        /\ Len(InsertAt(queue, p, e)) = Len(queue) + 1
        /\ \A j \in 1..Len(queue) + 1 : InsertAt(queue, p, e)[j] =
             IF j < p THEN queue[j] ELSE IF j = p THEN e ELSE queue[j - 1]
    BY <1>1, InsertFacts
  <2> QED
    BY <1>2, <2>1
<1>5. e.source \in Sources /\ e.type \in {"DOWN", "UP"}
  BY DEF Edge
<1>6. \A s : EdgesOf(s) \subseteq 1..Len(queue)
  BY DEF EdgesOf
<1>7. ASSUME NEW s \in Sources, s # e.source
      PROVE  /\ EdgesOf(s)' = {} => (s \in Owed' => s \in physical')
             /\ \A i \in EdgesOf(s)' :
                  /\ (\A j \in EdgesOf(s)' : i <= j) /\ s \in Owed' => queue'[i].type = "UP"
                  /\ (\A j \in EdgesOf(s)' : j <= i) =>
                        (queue'[i].type = "DOWN" <=> s \in physical')
                  /\ \A j \in EdgesOf(s)' :
                        i < j /\ (\A k \in EdgesOf(s)' : k <= i \/ j <= k) =>
                            queue'[i].type # queue'[j].type
  <2> DEFINE Old(i) == IF i < p THEN i ELSE i - 1
  <2> DEFINE New(i) == IF i < p THEN i ELSE i + 1
  <2>1. /\ EdgesOf(s)' \subseteq 1..Len(queue) + 1
        /\ \A i \in EdgesOf(s)' : i # p /\ Old(i) \in EdgesOf(s) /\ queue'[i] = queue[Old(i)]
    BY <1>1, <1>3, <1>4, <1>7 DEF EdgesOf
  <2>2. \A i \in EdgesOf(s) : New(i) \in EdgesOf(s)' /\ Old(New(i)) = i
    BY <1>1, <1>3, <1>4 DEF EdgesOf
  <2>3. ASSUME NEW i \in EdgesOf(s)', NEW k \in EdgesOf(s)
        PROVE  /\ i <= New(k) <=> Old(i) <= k
               /\ New(k) <= i <=> k <= Old(i)
    BY <1>1, <1>3, <1>6, <2>1
  <2>4. ASSUME NEW i \in EdgesOf(s)', NEW j \in EdgesOf(s)', i < j
        PROVE  Old(i) < Old(j)
    BY <1>1, <1>3, <2>1, <2>4
  <2> HIDE DEF Old, New
  <2>5. s \in physical' <=> s \in physical
    BY <1>7
  <2>6. EdgesOf(s)' = {} => (s \in Owed' => s \in physical')
    BY <2>2, <2>5 DEF EdgesPair
  <2>7. ASSUME NEW i \in EdgesOf(s)'
        PROVE  /\ (\A j \in EdgesOf(s)' : i <= j) /\ s \in Owed' => queue'[i].type = "UP"
               /\ (\A j \in EdgesOf(s)' : j <= i) =>
                     (queue'[i].type = "DOWN" <=> s \in physical')
    <3>1. (\A j \in EdgesOf(s)' : i <= j) => \A j \in EdgesOf(s) : Old(i) <= j
      BY <2>2, <2>3
    <3>2. (\A j \in EdgesOf(s)' : j <= i) => \A j \in EdgesOf(s) : j <= Old(i)
      BY <2>2, <2>3
    <3> QED
      BY <2>1, <2>5, <3>1, <3>2 DEF EdgesPair
  <2>8. ASSUME NEW i \in EdgesOf(s)', NEW j \in EdgesOf(s)', i < j,
               \A k \in EdgesOf(s)' : k <= i \/ j <= k
        PROVE  queue'[i].type # queue'[j].type
    <3>1. \A k \in EdgesOf(s) : k <= Old(i) \/ Old(j) <= k
      BY <2>2, <2>3, <2>8
    <3> QED
      BY <2>1, <2>4, <2>8, <3>1 DEF EdgesPair
  <2> QED
    BY <2>6, <2>7, <2>8
<1> DEFINE t == e.source
<1>8. /\ EdgesOf(t)' = EdgesOf(t) \cup {p}
      /\ \A i \in EdgesOf(t) : i < p /\ queue'[i] = queue[i]
      /\ queue'[p] = e
  <2>1. \A i \in EdgesOf(t) : i < p
    BY <1>1, <1>2, <1>3 DEF EdgesOf
  <2>2. \A i \in EdgesOf(t) : i \in EdgesOf(t)' /\ queue'[i] = queue[i]
    BY <1>1, <1>3, <1>4, <2>1 DEF EdgesOf
  <2>3. p \in EdgesOf(t)' /\ queue'[p] = e
    BY <1>1, <1>3, <1>4 DEF EdgesOf
  <2>4. ASSUME NEW i \in EdgesOf(t)', i # p PROVE i \in EdgesOf(t)
    <3>1. i \in 1..Len(queue) + 1 /\ queue'[i].source = t
      BY <1>4 DEF EdgesOf
    <3>2. CASE i < p
      BY <1>1, <1>3, <1>4, <3>1, <3>2 DEF EdgesOf
    <3>3. CASE p < i
      <4>1. i - 1 \in p..Len(queue) /\ queue'[i] = queue[i - 1]
        BY <1>1, <1>3, <1>4, <3>1, <3>3
      <4> QED
        BY <1>2, <3>1, <4>1
    <3> QED
      BY <1>3, <2>4, <3>1, <3>2, <3>3
  <2> QED
    BY <2>1, <2>2, <2>3, <2>4
<1>9. e.type = "DOWN" <=> t \in physical'
  BY <1>5
<1>10. ASSUME NEW i \in EdgesOf(t), \A j \in EdgesOf(t) : j <= i
       PROVE  queue[i].type # e.type
  <2>1. queue[i].type = "DOWN" <=> t \in physical
    BY <1>5, <1>10 DEF EdgesPair
  <2>2. queue[i].type \in {"DOWN", "UP"}
    <3>1. i \in 1..Len(queue)
      BY <1>6, <1>10
    <3>2. queue[i] \in Edge
      BY <1>1, <3>1
    <3> QED
      BY <3>2 DEF Edge
  <2> QED
    BY <1>5, <2>1, <2>2
<1>11. t \in Owed /\ EdgesOf(t) = {} => e.type = "UP"
  BY <1>5 DEF EdgesPair
<1> HIDE DEF t
<1>12. ASSUME NEW i \in EdgesOf(t)'
       PROVE  /\ (\A j \in EdgesOf(t)' : i <= j) /\ t \in Owed' => queue'[i].type = "UP"
              /\ (\A j \in EdgesOf(t)' : j <= i) =>
                    (queue'[i].type = "DOWN" <=> t \in physical')
  <2>1. CASE i = p
    <3>1. (\A j \in EdgesOf(t)' : i <= j) => EdgesOf(t) = {}
      BY <1>3, <1>6, <1>8, <2>1
    <3> QED
      BY <1>8, <1>9, <1>11, <2>1, <3>1
  <2>2. CASE i # p
    <3>1. i \in EdgesOf(t) /\ ~ \A j \in EdgesOf(t)' : j <= i
      BY <1>3, <1>6, <1>8, <2>2
    <3>2. t \in Sources
      BY <1>5 DEF t
    <3> QED
      BY <1>8, <3>1, <3>2 DEF EdgesPair
  <2> QED
    BY <2>1, <2>2
<1>13. ASSUME NEW i \in EdgesOf(t)', NEW j \in EdgesOf(t)', i < j,
              \A k \in EdgesOf(t)' : k <= i \/ j <= k
       PROVE  queue'[i].type # queue'[j].type
  <2>1. i \in EdgesOf(t)
    BY <1>3, <1>6, <1>8, <1>13
  <2>2. CASE j = p
    <3>1. \A k \in EdgesOf(t) : k <= i
      BY <1>3, <1>6, <1>8, <1>13, <2>2
    <3> QED
      BY <1>8, <1>10, <2>1, <2>2, <3>1
  <2>3. CASE j # p
    <3>1. j \in EdgesOf(t) /\ \A k \in EdgesOf(t) : k <= i \/ j <= k
      BY <1>8, <1>13, <2>3
    <3>2. t \in Sources
      BY <1>5 DEF t
    <3> QED
      BY <1>8, <1>13, <2>1, <3>1, <3>2 DEF EdgesPair
  <2> QED
    BY <2>2, <2>3
<1>14. EdgesOf(t)' # {}
  BY <1>8
<1>15. EdgesPair'
  BY <1>7, <1>12, <1>13, <1>14 DEF EdgesPair, t
<1> QED
  BY <1>4, <1>15

LEMMA FirstInsertion ==
    ASSUME NEW q \in Seq(Edge), Len(q) = 0, NEW e \in Edge, NEW r \in Insertions(q, e)
    PROVE  r \in Seq(Edge) /\ Len(r) = 1 /\ r[1] = e
<1>1. PICK i \in 1..Len(q) + 1 : r = InsertAt(q, i, e)
  BY DEF Insertions
<1>2. SubSeq(q, 1, i - 1) = <<>> /\ SubSeq(q, i, Len(q)) = <<>>
  BY <1>1
<1>3. r = <<>> \o <<e>> \o <<>>
  BY <1>1, <1>2 DEF InsertAt
<1> QED
  BY <1>3

\* A DOWN that finds the state cleared, or clears it.
LEMMA FirstEdge ==
    ASSUME NEW e \in Edge, e.type = "DOWN",
           queue' \in Seq(Edge), Len(queue') = 1, queue'[1] = e,
           SourceTypes, physical' = {e.source}, suppressed' = {}, LetGo
    PROVE  RuntimeInv'
<1>1. e.source \in Sources
  BY DEF Edge
<1>2. QueueTypes'
  BY CaptureAssumption DEF QueueTypes
<1>3. SourceTypes'
  <2>1. IsFiniteSet({e.source}) /\ Cardinality({e.source}) = 1
    BY FS_Singleton
  <2> QED
    BY <1>1, <2>1, CaptureAssumption, FS_EmptySet DEF SourceTypes, LetGo
<1>4. \A s \in Sources : EdgesOf(s)' = IF s = e.source THEN {1} ELSE {}
  <2>1. 1..Len(queue') = {1}
    OBVIOUS
  <2> QED
    BY <2>1 DEF EdgesOf
<1>5. Owed' = {}
  BY DEF LetGo, Owed
<1>6. EdgesPair'
  BY <1>4, <1>5 DEF EdgesPair
<1> QED
  BY <1>2, <1>3, <1>6 DEF RuntimeInv

LEMMA EnqueueDownKeeps ==
    ASSUME RuntimeInv, NEW e \in Edge, e.type = "DOWN", EnqueueDown(e)
    PROVE  RuntimeInv'
<1>1. /\ queue \in Seq(Edge) /\ Len(queue) \in Nat /\ Len(queue) <= QueueCap
      /\ QueueCap \in Nat \ {0} /\ HeldCap \in Nat \ {0}
      /\ physical \in SUBSET Sources /\ IsFiniteSet(physical)
      /\ e.source \in Sources
  BY CaptureAssumption DEF RuntimeInv, QueueTypes, SourceTypes, Edge
<1>2. CASE UNCHANGED runtime
  BY <1>2, RuntimeKept DEF runtime, RuntimeInv, SourceTypes
<1>3. CASE /\ queue' = <<e>> /\ physical' = {e.source}
           /\ suppressed' = {} /\ LetGo
  <2>1. <<e>> \in Seq(Edge) /\ Len(<<e>>) = 1 /\ <<e>>[1] = e
    OBVIOUS
  <2> QED
    BY <1>3, <2>1, FirstEdge DEF RuntimeInv
<1>4. CASE /\ queue' \in Insertions(<<>>, e) /\ physical' = {e.source}
           /\ suppressed' = {} /\ LetGo
  <2>1. <<>> \in Seq(Edge) /\ Len(<<>>) = 0
    OBVIOUS
  <2>2. \A q \in Insertions(<<>>, e) : q \in Seq(Edge) /\ Len(q) = 1 /\ q[1] = e
    BY <2>1, FirstInsertion
  <2> QED
    BY <1>4, <2>2, FirstEdge DEF RuntimeInv
<1>5. CASE /\ e.source \notin physical /\ Cardinality(physical) < HeldCap
           /\ Len(queue) # QueueCap
           /\ queue' \in Insertions(queue, e) /\ physical' = physical \cup {e.source}
           /\ UNCHANGED <<held, suppressed, saved, orphans>>
  <2>1. queue' \in Seq(Edge) /\ Len(queue') = Len(queue) + 1 /\ EdgesPair'
    BY <1>5, InsertKeepsPairs DEF RuntimeInv, Owed
  <2>2. QueueTypes'
    BY <1>1, <1>5, <2>1 DEF QueueTypes
  <2>3. /\ IsFiniteSet(physical \cup {e.source})
        /\ Cardinality(physical \cup {e.source}) = Cardinality(physical) + 1
    BY <1>1, <1>5, FS_AddElement
  <2>4. Cardinality(physical) \in Nat
    BY <1>1, FS_CardinalityType
  <2>5. SourceTypes'
    BY <1>1, <1>5, <2>3, <2>4 DEF RuntimeInv, SourceTypes
  <2> QED
    BY <2>1, <2>2, <2>5 DEF RuntimeInv
<1>6. Cardinality(physical) \in Nat /\ Cardinality({}) = 0 /\ Len(<<>>) = 0
  BY <1>1, FS_CardinalityType, FS_EmptySet
<1>7. CASE e.source \in physical
  <2>1. \/ queue' = <<e>> /\ physical' = {e.source} /\ suppressed' = {} /\ LetGo
        \/ /\ queue' \in Insertions(<<>>, e) /\ physical' = {} \cup {e.source}
           /\ suppressed' = {} /\ LetGo
    BY <1>1, <1>6, <1>7 DEF EnqueueDown
  <2> QED
    BY <1>3, <1>4, <2>1
<1>8. CASE e.source \notin physical
  <2>1. \/ UNCHANGED runtime
        \/ queue' = <<e>> /\ physical' = {e.source} /\ suppressed' = {} /\ LetGo
        \/ /\ ~(Cardinality(physical) >= HeldCap) /\ Len(queue) # QueueCap
           /\ queue' \in Insertions(queue, e) /\ physical' = physical \cup {e.source}
           /\ UNCHANGED <<held, suppressed, saved, orphans>>
    BY <1>8 DEF EnqueueDown
  <2> QED
    BY <1>1, <1>2, <1>3, <1>5, <1>6, <1>8, <2>1
<1> QED
  BY <1>7, <1>8

LEMMA EnqueueUpKeeps ==
    ASSUME RuntimeInv, NEW e \in Edge, e.type = "UP", EnqueueUp(e)
    PROVE  RuntimeInv'
<1>1. CASE UNCHANGED runtime
  BY <1>1, RuntimeKept DEF runtime, RuntimeInv, SourceTypes
<1>2. CASE ClearRuntime
  BY <1>2, ClearKeeps DEF RuntimeInv
<1>3. CASE /\ e.source \in physical /\ Len(queue) # QueueCap
           /\ queue' \in Insertions(queue, e) /\ physical' = physical \ {e.source}
           /\ UNCHANGED <<held, suppressed, saved, orphans>>
  <2>1. queue' \in Seq(Edge) /\ Len(queue') = Len(queue) + 1 /\ EdgesPair'
    BY <1>3, InsertKeepsPairs DEF RuntimeInv, Owed
  <2>2. QueueTypes'
    BY <1>3, <2>1, CaptureAssumption DEF RuntimeInv, QueueTypes
  <2>3. IsFiniteSet(physical) /\ Cardinality(physical) <= HeldCap /\ HeldCap \in Nat
    BY CaptureAssumption DEF RuntimeInv, SourceTypes
  <2>4. /\ IsFiniteSet(physical \ {e.source})
        /\ Cardinality(physical \ {e.source}) <= Cardinality(physical)
    BY <2>3, FS_Subset
  <2>5. Cardinality(physical) \in Nat /\ Cardinality(physical \ {e.source}) \in Nat
    BY <2>3, <2>4, FS_CardinalityType
  <2>6. SourceTypes'
    BY <1>3, <2>3, <2>4, <2>5 DEF RuntimeInv, SourceTypes
  <2> QED
    BY <2>1, <2>2, <2>6 DEF RuntimeInv
<1> QED
  BY <1>1, <1>2, <1>3 DEF EnqueueUp

-----------------------------------------------------------------------------
\* What is saved changes only where an automatic hit begins or ends.
LEMMA AutoStep == AutoInv /\ [Next]_vars => AutoInv'
<1> SUFFICES ASSUME AutoInv, [Next]_vars PROVE AutoInv'
  OBVIOUS
<1> USE DEF AutoInv
<1>1. CASE UIStep
  BY <1>1 DEF UIStep, Press, ReleaseToGame, Release, PostDown, Suppress, TouchUpGate,
         KeyUp, PostUp, Cancel, Move, MoveClears, Lifecycle, ClearRuntime, LetGo, runtime
<1>2. CASE WorkerStep
  <2>1. CASE Enqueue
    <3>1. \/ UNCHANGED runtime
          \/ EnqueueDown(rec.edge)
          \/ EnqueueUp(rec.edge)
      BY <2>1 DEF Enqueue
    <3>2. UNCHANGED saved
      BY <3>1 DEF runtime, EnqueueDown, EnqueueUp, ClearRuntime, LetGo
    <3> QED
      BY <2>1, <3>2 DEF Enqueue
  <2>2. CASE Pop \/ Shut \/ Align \/ Precheck
    BY <2>2 DEF Pop, Shut, Align, Precheck, CloseGate, ClearRuntime, LetGo, runtime
  <2> QED
    BY <1>2, <2>1, <2>2 DEF WorkerStep
<1>3. CASE MainStep \/ GameMoves \/ GameStops
  BY <1>3 DEF MainStep, BeginFrame, OpenCapture, StartCapture, FrameGuard, FrameDrop,
         BeginReplay, ReplayStep, EndReplay, StopCapture, GameMoves, GameStops,
         HitAuto, AutoGuard, AutoDrop, AutoUnavailable, BeginAuto, EndAuto,
         ClockGuard, ClockDrop, CloseGate, ClearRuntime, LetGo, runtime
<1>4. CASE ControlStep \/ Jump \/ UNCHANGED vars
  BY <1>4 DEF ControlStep, SwitchOff, CloseSwitchedOff, SwitchOn, ResetSwitchedOn,
         Jump, vars, CloseGate, ClearRuntime, LetGo, runtime
<1> QED
  BY <1>1, <1>2, <1>3, <1>4 DEF Next

LEMMA Bounds == MaxPosts \in Nat /\ MaxSwitches \in Nat
BY CaptureAssumption

LEMMA InitiallyTyped == Init => Inv
<1> SUFFICES ASSUME Init PROVE Inv
  OBVIOUS
<1> USE DEF Init
<1>1. RuntimeInv
  BY Cleared
<1>2. IngressTypes
  BY DEF IngressTypes
<1>3. FrameTypes
  <2>1. /\ enabled \in BOOLEAN /\ gate \in BOOLEAN /\ playing \in BOOLEAN
        /\ drifted \in BOOLEAN
    OBVIOUS
  <2>2. main = "idle" /\ control = "idle"
    OBVIOUS
  <2>3. posts = 0 /\ switches = 0
    OBVIOUS
  <2> HIDE DEF Init
  <2> QED
    BY <2>1, <2>2, <2>3, Bounds DEF FrameTypes
<1>4. UiTypes /\ AutoInv
  BY DEF UiTypes, AutoInv
<1> QED
  BY <1>1, <1>2, <1>3, <1>4 DEF Inv

LEMMA UITyped == Inv /\ UIStep => Inv'
<1> SUFFICES ASSUME Inv, UIStep PROVE Inv'
  OBVIOUS
<1> USE DEF Inv
<1>1. RuntimeInv'
  <2>1. \/ ClearRuntime
        \/ UNCHANGED <<queue, physical, held, saved, orphans>> /\ suppressed' \in SUBSET Sources
    <3>1. suppressed \in SUBSET Sources
      BY DEF RuntimeInv, SourceTypes
    <3>2. CASE \E s \in Sources : Press(s) \/ ReleaseToGame(s) \/ Release(s)
      BY <3>1, <3>2 DEF Press, ReleaseToGame, Release, runtime
    <3>3. CASE PostDown \/ Suppress \/ TouchUpGate \/ KeyUp \/ PostUp
      BY <3>1, <3>3 DEF PostDown, Suppress, TouchUpGate, KeyUp, PostUp, UiTypes, runtime
    <3>4. CASE Cancel \/ Move \/ MoveClears \/ \E kind \in Commands : Lifecycle(kind)
      BY <3>1, <3>4 DEF Cancel, Move, MoveClears, Lifecycle, runtime
    <3> QED
      BY <3>2, <3>3, <3>4 DEF UIStep
  <2> QED
    BY <2>1, ClearKeeps, RuntimeKept DEF RuntimeInv
<1>2. IngressTypes'
  <2>1. UNCHANGED <<worker, rec>>
    BY DEF UIStep, Press, ReleaseToGame, Release, PostDown, Suppress, TouchUpGate,
           KeyUp, PostUp, Cancel, Move, MoveClears, Lifecycle, workerVars
  <2>2. CASE PostDown \/ PostUp
    <3>1. uiSource \in Sources /\ (PushEvent("DOWN", uiSource) \/ PushEvent("UP", uiSource))
      BY <2>2 DEF PostDown, PostUp, UiTypes
    <3>2. channel' \in Seq(Record)
      BY <3>1, PushEventFacts DEF IngressTypes
    <3> QED
      BY <2>1, <3>2 DEF IngressTypes
  <2>3. CASE \E kind \in Commands : Lifecycle(kind)
    <3>1. channel' \in Seq(Record)
      BY <2>3, PushCommandFacts DEF IngressTypes, Lifecycle
    <3> QED
      BY <2>1, <3>1 DEF IngressTypes
  <2>4. CASE UNCHANGED channel
    BY <2>1, <2>4 DEF IngressTypes
  <2>5. \/ PostDown \/ PostUp \/ (\E kind \in Commands : Lifecycle(kind))
        \/ UNCHANGED channel
    BY DEF UIStep, Press, ReleaseToGame, Release, Suppress, TouchUpGate, KeyUp,
           Cancel, Move, MoveClears
  <2> QED
    BY <2>2, <2>3, <2>4, <2>5
<1>3. FrameTypes'
  <2>1. /\ UNCHANGED <<enabled, gate, main, playing, control, drifted, switches>>
        /\ posts' = posts \/ (posts < MaxPosts /\ posts' = posts + 1)
    BY DEF UIStep, Press, ReleaseToGame, Release, PostDown, Suppress, TouchUpGate, GiveUp,
           KeyUp, PostUp, Cancel, Move, MoveClears, Lifecycle
  <2> QED
    BY <2>1, Bounds DEF FrameTypes
<1>4. UiTypes'
  <2>1. CASE \E s \in Sources : Press(s) \/ ReleaseToGame(s) \/ Release(s)
    BY <2>1 DEF UiTypes, Press, ReleaseToGame, Release
  <2>2. CASE PostDown \/ Suppress \/ TouchUpGate \/ KeyUp \/ PostUp
    BY <2>2 DEF UiTypes, PostDown, Suppress, TouchUpGate, KeyUp, PostUp, GiveUp
  <2>3. CASE Cancel \/ Move \/ MoveClears \/ \E kind \in Commands : Lifecycle(kind)
    BY <2>3 DEF UiTypes, Cancel, Move, MoveClears, Lifecycle, uiVars
  <2> QED
    BY <2>1, <2>2, <2>3 DEF UIStep
<1> QED
  BY <1>1, <1>2, <1>3, <1>4, AutoStep DEF Next

LEMMA WorkerTyped == Inv /\ WorkerStep => Inv'
<1> SUFFICES ASSUME Inv, WorkerStep PROVE Inv'
  OBVIOUS
<1> USE DEF Inv
<1>1. RuntimeInv'
  <2>1. suppressed \in SUBSET Sources
    BY DEF RuntimeInv, SourceTypes
  <2>2. CASE UNCHANGED runtime
    BY <2>1, <2>2, RuntimeKept DEF runtime
  <2>3. CASE Shut
    BY <2>3, ClearKeeps DEF Shut, CloseGate, RuntimeInv
  <2>4. CASE Enqueue
    <3>1. rec.edge \in Edge /\ rec.edge.type \in {"DOWN", "UP"}
      BY <2>4 DEF Enqueue, IngressTypes, Edge
    <3>2. \/ UNCHANGED runtime
          \/ rec.edge.type = "DOWN" /\ EnqueueDown(rec.edge)
          \/ rec.edge.type = "UP" /\ EnqueueUp(rec.edge)
      BY <2>4, <3>1 DEF Enqueue
    <3> QED
      BY <2>2, <3>1, <3>2, EnqueueDownKeeps, EnqueueUpKeeps
  <2> QED
    BY <2>2, <2>3, <2>4 DEF WorkerStep, Pop, Align, Precheck
<1>2. IngressTypes'
  <2>1. CASE Pop
    <3>1. channel \in Seq(Record) /\ channel # <<>>
      BY <2>1 DEF Pop, IngressTypes
    <3>2. channel' \in Seq(Record) /\ rec' \in Record
      BY <2>1, <3>1, HeadTailFacts DEF Pop
    <3>3. rec'.kind = "EVENT" => rec' \in [kind : {"EVENT"}, edge : Edge]
      BY <3>2 DEF Record, Commands
    <3>4. \/ worker' = "event" /\ rec'.kind = "EVENT"
          \/ worker' \in {"align", "shut"}
      BY <2>1 DEF Pop
    <3> QED
      BY <3>2, <3>3, <3>4 DEF IngressTypes
  <2>2. CASE Shut \/ Align
    BY <2>2 DEF IngressTypes, Shut, Align
  <2>3. CASE Precheck \/ Enqueue
    BY <2>3 DEF IngressTypes, Precheck, Enqueue
  <2> QED
    BY <2>1, <2>2, <2>3 DEF WorkerStep
<1>3. FrameTypes'
  <2>1. CASE Align
    BY <2>1, CaptureAssumption DEF Align, FrameTypes
  <2>2. CASE Shut
    BY <2>2 DEF Shut, CloseGate, FrameTypes
  <2>3. CASE Pop \/ Precheck \/ Enqueue
    BY <2>3 DEF Pop, Precheck, Enqueue, FrameTypes
  <2> QED
    BY <2>1, <2>2, <2>3 DEF WorkerStep
<1>4. UiTypes'
  BY DEF WorkerStep, Pop, Shut, Align, Precheck, Enqueue, UiTypes, uiVars
<1> QED
  BY <1>1, <1>2, <1>3, <1>4, AutoStep DEF Next

LEMMA MainTyped == Inv /\ (MainStep \/ GameMoves \/ GameStops) => Inv'
<1> SUFFICES ASSUME Inv, MainStep \/ GameMoves \/ GameStops PROVE Inv'
  OBVIOUS
<1> USE DEF Inv
<1>1. RuntimeInv'
  <2>1. CASE ReplayStep
    <3>1. saved = {}
      BY <2>1 DEF ReplayStep, AutoInv
    <3> QED
      BY <2>1, <3>1, ReplayKeeps DEF ReplayStep
  <2>2. suppressed \in SUBSET Sources
    BY DEF RuntimeInv, SourceTypes
  <2>3. CASE UNCHANGED <<queue, physical, held, saved, orphans>> /\ suppressed' \in {suppressed, {}}
    BY <2>2, <2>3, RuntimeKept
  <2>4. CASE ClearRuntime
    BY <2>4, ClearKeeps DEF RuntimeInv
  <2>5. CASE BeginAuto \/ EndAuto
    BY <2>5, AutoKeeps DEF BeginAuto, EndAuto
  <2>6. \/ ReplayStep \/ ClearRuntime \/ BeginAuto \/ EndAuto
        \/ /\ UNCHANGED <<queue, physical, held, saved, orphans>>
           /\ suppressed' \in {suppressed, {}}
    BY DEF MainStep, BeginFrame, OpenCapture, StartCapture, FrameGuard, FrameDrop,
           BeginReplay, EndReplay, StopCapture, GameMoves, GameStops, HitAuto, AutoGuard,
           AutoDrop, AutoUnavailable, ClockGuard, ClockDrop, CloseGate, runtime
  <2> QED
    BY <2>1, <2>3, <2>4, <2>5, <2>6
<1>2. UNCHANGED <<channel, worker, rec, ui, uiSource, fingers>>
  BY DEF MainStep, BeginFrame, OpenCapture, StartCapture, FrameGuard, FrameDrop,
         BeginReplay, ReplayStep, EndReplay, StopCapture, GameMoves, GameStops,
         HitAuto, AutoGuard, AutoDrop, AutoUnavailable, BeginAuto, EndAuto,
         ClockGuard, ClockDrop, workerVars, uiVars
<1>3. IngressTypes' /\ UiTypes'
  BY <1>2 DEF IngressTypes, UiTypes
<1>4. FrameTypes'
  <2>1. CASE \/ BeginFrame \/ OpenCapture \/ StartCapture \/ FrameDrop
             \/ HitAuto \/ AutoDrop \/ AutoUnavailable \/ BeginAuto \/ EndAuto
    BY <2>1 DEF FrameTypes, BeginFrame, OpenCapture, StartCapture, FrameDrop, HitAuto,
                AutoDrop, AutoUnavailable, BeginAuto, EndAuto, ClockDrop
  <2>2. CASE FrameGuard \/ AutoGuard
    BY <2>2, CaptureAssumption DEF FrameTypes, FrameGuard, AutoGuard, ClockGuard
  <2>3. CASE BeginReplay
    BY <2>3 DEF FrameTypes, BeginReplay
  <2>4. CASE ReplayStep \/ EndReplay
    BY <2>4 DEF FrameTypes, ReplayStep, EndReplay
  <2>5. CASE StopCapture \/ GameMoves \/ GameStops
    BY <2>5 DEF FrameTypes, StopCapture, GameMoves, GameStops, CloseGate
  <2> QED
    BY <2>1, <2>2, <2>3, <2>4, <2>5 DEF MainStep
<1> QED
  BY <1>1, <1>3, <1>4, AutoStep DEF Next

LEMMA ControlTyped == Inv /\ ControlStep => Inv'
<1> SUFFICES ASSUME Inv, ControlStep PROVE Inv'
  OBVIOUS
<1> USE DEF Inv
<1>1. RuntimeInv'
  <2>1. suppressed \in SUBSET Sources
    BY DEF RuntimeInv, SourceTypes
  <2>2. ClearRuntime \/ UNCHANGED runtime
    BY DEF ControlStep, SwitchOff, CloseSwitchedOff, SwitchOn, ResetSwitchedOn, CloseGate
  <2> QED
    BY <2>1, <2>2, ClearKeeps, RuntimeKept DEF runtime, RuntimeInv
<1>2. UNCHANGED <<worker, rec, ui, uiSource, fingers, main, playing>>
  BY DEF ControlStep, SwitchOff, CloseSwitchedOff, SwitchOn, ResetSwitchedOn,
         workerVars, uiVars
<1>3. IngressTypes'
  <2>1. PushCommand("RESET") \/ UNCHANGED channel
    BY DEF ControlStep, SwitchOff, CloseSwitchedOff, SwitchOn, ResetSwitchedOn
  <2>2. channel' \in Seq(Record)
    BY <2>1, PushCommandFacts DEF IngressTypes, Commands
  <2> QED
    BY <1>2, <2>2 DEF IngressTypes
<1>4. FrameTypes'
  <2>1. CASE SwitchOff
    <3>1. enabled' \in BOOLEAN
      BY <2>1 DEF SwitchOff
    <3>2. /\ UNCHANGED <<gate, playing, main, drifted, posts>>
          /\ control' = "closing" /\ switches < MaxSwitches /\ switches' = switches + 1
      BY <2>1 DEF SwitchOff
    <3> QED
      BY <3>1, <3>2, Bounds DEF FrameTypes
  <2>2. CASE SwitchOn
    BY <2>2, Bounds DEF FrameTypes, SwitchOn
  <2>3. CASE CloseSwitchedOff
    BY <2>3 DEF FrameTypes, CloseSwitchedOff, CloseGate
  <2>4. CASE ResetSwitchedOn
    BY <2>4, Bounds DEF FrameTypes, ResetSwitchedOn
  <2> QED
    BY <2>1, <2>2, <2>3, <2>4 DEF ControlStep
<1>5. UiTypes'
  BY <1>2 DEF UiTypes
<1> QED
  BY <1>1, <1>3, <1>4, <1>5, AutoStep DEF Next

LEMMA StepTyped == Inv /\ [Next]_vars => Inv'
<1> SUFFICES ASSUME Inv, [Next]_vars PROVE Inv'
  OBVIOUS
<1>1. CASE Jump \/ UNCHANGED vars
  <2>1. UNCHANGED <<queue, physical, held, suppressed, channel, worker, rec, ui,
                    uiSource, fingers, enabled, gate, main, playing, control,
                    posts, switches, saved, orphans>>
    BY <1>1 DEF Jump, vars, runtime, workerVars, uiVars
  <2>2. drifted' = drifted \/ drifted' = TRUE
    BY <1>1 DEF Jump, vars
  <2>3. RuntimeInv'
    BY <2>1, RuntimeKept DEF Inv, RuntimeInv, SourceTypes
  <2>4. IngressTypes' /\ UiTypes'
    BY <2>1 DEF Inv, IngressTypes, UiTypes
  <2>5. FrameTypes'
    BY <2>1, <2>2, Bounds DEF Inv, FrameTypes
  <2> QED
    BY <2>3, <2>4, <2>5, AutoStep DEF Inv
<1> QED
  BY <1>1, UITyped, WorkerTyped, MainTyped, ControlTyped DEF Next

\* Every variable keeps its range; in particular no critical section leaves
\* more queued edges than MAX_EVENTS, more physical sources than
\* MAX_HELD_SOURCES, or more held ones than the game has key slots.
THEOREM TypesKept == Spec => []TypeOK
<1>1. Inv => TypeOK
  BY DEF Inv, RuntimeInv, QueueTypes, SourceTypes, IngressTypes, FrameTypes, UiTypes,
         TypeOK
<1> QED
  BY <1>1, InitiallyTyped, StepTyped, PTL DEF Spec

\* The queued edges of every source alternate from what the game holds to what
\* is physically down, over every clear, overflow, duplicate, refused slot and
\* whatever number of edges one step replays: no source is left held without a
\* release to come.
THEOREM EdgesAlwaysPair == Spec => []EdgesPair
<1>1. Inv => EdgesPair
  BY DEF Inv, RuntimeInv
<1> QED
  BY <1>1, InitiallyTyped, StepTyped, PTL DEF Spec
=============================================================================
