------------------------------- MODULE Replay --------------------------------
(***************************************************************************)
(* What the main thread does with the captured edges: a frame posts the    *)
(* test macro's synthetic taps, pops the due edges in bursts, hands each   *)
(* burst to the game's ProcessKeyInputs, and turns an automatic hit of the *)
(* game into a transaction that presses one synthetic key.  All of it is   *)
(* interleaved with the ingress worker and the UI thread, which enqueue    *)
(* and clear under the same lock, and with the control API, which throws   *)
(* the switches under another.                                             *)
(*                                                                         *)
(* The lock protects the record rt.  The time stamps only decide where an  *)
(* edge goes in the queue and what is due; both are a free choice, that    *)
(* keeps the edges of one source in order.  The down and up counts and the *)
(* key masks of the game last for one call and no decision reads them.     *)
(***************************************************************************)
EXTENDS Integers, Sequences, FiniteSets, SequencesExt

CONSTANTS Fingers,       \* touches and keys of the player
          MacroKeys,     \* the sequence of the test macro's sources
          Synthetic,     \* the key an automatic hit presses
          MaxEvents,     \* size of the queue
          MaxSources,    \* size of the table of physical sources
          Slots,         \* how many sources can be held at once
          MaxHits        \* bound: uncommitted hits in one transaction

ASSUME ReplayAssumption ==
    /\ MacroKeys \in Seq(Range(MacroKeys)) /\ IsInjective(MacroKeys)
    /\ Fingers \cap Range(MacroKeys) = {}
    /\ Synthetic \notin Fingers \cup Range(MacroKeys)
    /\ {MaxEvents, MaxSources, Slots, MaxHits} \subseteq Nat \ {0}

VARIABLES
    enabled, autoOn, macroOn,   \* g_enabled, g_auto_replay_enabled,
                                \* g_test_macro_enabled
    suspending,          \* the switch is off and the state not yet cleared
    state,               \* what the controller allows: replay, capture, none
    gate,                \* g_capture_ready
    rt,                  \* queue, physical and held sources, macro hold
    pc, quiet, todo,     \* the main thread's frame
    tx, saved,           \* the transaction of an automatic hit
    hits, switched       \* history of the automatic hit that is running

vars == <<enabled, autoOn, macroOn, suspending, state, gate, rt, pc, quiet, todo,
          tx, saved, hits, switched>>

control == <<enabled, autoOn, macroOn, suspending>>
frame   == <<pc, quiet, todo>>
autoHit == <<tx, saved, hits, switched>>

NoHold == [active |-> FALSE]
NoTransaction == [started |-> FALSE, finished |-> FALSE]

\* orphans is a history: sources that a transaction put back after a clear, or
\* whose hold was forgotten when the macro was switched off.
Init ==
    /\ enabled \in BOOLEAN /\ autoOn \in BOOLEAN /\ macroOn \in BOOLEAN
    /\ suspending = FALSE
    /\ state = "none" /\ gate = FALSE
    /\ rt = [queue |-> <<>>, physical |-> {}, held |-> <<>>,
             hold |-> NoHold, orphans |-> {}]
    /\ pc = "idle" /\ quiet = FALSE /\ todo = <<>>
    /\ tx = NoTransaction /\ saved = <<>> /\ hits = 0 /\ switched = FALSE

-----------------------------------------------------------------------------
(* The state under the lock.                                               *)

\* Everything goes, the macro's hold too.  What a running transaction has
\* saved is out of its reach.
Cleared(r) == [queue |-> <<>>, physical |-> {}, held |-> <<>>,
               hold |-> NoHold, orphans |-> Range(saved)]

\* The source enters or leaves the table of the physical ones.  A second
\* DOWN without an UP starts afresh.
Touched(r, type, s) ==
    IF s \notin Fingers THEN r
    ELSE IF type = "UP" THEN [r EXCEPT !.physical = @ \ {s}]
    ELSE IF s \in r.physical THEN [Cleared(r) EXCEPT !.physical = {s}]
    ELSE [r EXCEPT !.physical = @ \cup {s}]

Refused(type, s) ==
    \/ ~enabled
    \/ ~gate
    \/ /\ s \in Fingers
       /\ IF type = "UP" THEN s \notin rt.physical
          ELSE s \notin rt.physical /\ Cardinality(rt.physical) = MaxSources

\* A full queue is given up; the edge that met it enters if it is a DOWN.
MadeRoom(r, type, s) ==
    IF Len(r.queue) < MaxEvents THEN r
    ELSE [Cleared(r) EXCEPT
             !.physical = IF type = "DOWN" /\ s \in Fingers THEN {s} ELSE {}]

\* Where a new edge of s may go: behind those of its own source.
Places(queue, s) ==
    {i \in 1..Len(queue) + 1 : \A j \in i..Len(queue) : queue[j].source # s}

\* enqueue_event, returning ok.
Enqueue(type, s, ok) ==
    LET touched == Touched(rt, type, s)
        room    == MadeRoom(touched, type, s)
        full    == Len(touched.queue) = MaxEvents
    IN  \/ Refused(type, s) /\ ~ok /\ UNCHANGED rt
        \/ ~Refused(type, s) /\ full /\ type = "UP" /\ ~ok /\ rt' = room
        \/ /\ ~Refused(type, s) /\ ~(full /\ type = "UP") /\ ok
           /\ \E i \in Places(room.queue, s) :
                 rt' = [room EXCEPT !.queue =
                           InsertAt(@, i, [type |-> type, source |-> s])]

\* Mutant: the last entry is dropped, not moved into the hole.
DropLast(held, s) == Front(held)

\* The last entry fills the hole of the one that is let go.
LetGo(held, s) ==
    LET i == CHOOSE j \in DOMAIN held : held[j] = s
    IN  Front([held EXCEPT ![i] = Last(held)])

\* One edge reaches the held sources: a DOWN of a source that is held, or
\* that finds no slot, and an UP of one that is not, are swallowed.
Replayed(r, edge) ==
    LET s == edge.source
    IN  IF edge.type = "DOWN"
        THEN IF s \in Range(r.held) \/ Len(r.held) = Slots THEN r
             ELSE [r EXCEPT !.held = Append(@, s)]
        ELSE IF s \notin Range(r.held) THEN r
             ELSE [r EXCEPT !.held = LetGo(@, s), !.orphans = @ \ {s}]

-----------------------------------------------------------------------------
(* The worker, the UI thread, the control API and the game's state.        *)

Edge ==
    /\ \E s \in Fingers, type \in {"DOWN", "UP"}, ok \in BOOLEAN :
          Enqueue(type, s, ok)
    /\ UNCHANGED <<control, state, gate, frame, autoHit>>

\* RESET and SOFT_PAUSE close the gate, ACTION_CANCEL leaves it.
Clear ==
    /\ gate' \in {gate, FALSE}
    /\ rt' = Cleared(rt)
    /\ UNCHANGED <<control, state, frame, autoHit>>

Suspend ==
    /\ enabled /\ ~suspending
    /\ enabled' = FALSE /\ suspending' = TRUE /\ switched' = TRUE
    /\ UNCHANGED <<autoOn, macroOn, state, gate, rt, frame, tx, saved, hits>>

FinishSuspend ==
    /\ suspending
    /\ suspending' = FALSE /\ gate' = FALSE /\ rt' = Cleared(rt)
    /\ UNCHANGED <<enabled, autoOn, macroOn, state, frame, autoHit>>

\* The RESET that this posts is one of the free Clear steps.
Resume ==
    /\ ~enabled /\ ~suspending
    /\ enabled' = TRUE /\ switched' = TRUE
    /\ UNCHANGED <<autoOn, macroOn, suspending, state, gate, rt, frame, tx, saved, hits>>

SwitchAuto ==
    /\ autoOn' = ~autoOn /\ switched' = TRUE
    /\ UNCHANGED <<enabled, macroOn, suspending, state, gate, rt, frame, tx, saved, hits>>

\* Switched off, the macro forgets the hold it is in, but not the held source.
SwitchMacro ==
    /\ macroOn' = ~macroOn
    /\ rt' = IF macroOn /\ rt.hold.active
             THEN [rt EXCEPT !.hold = NoHold, !.orphans = @ \cup {rt.hold.source}]
             ELSE rt
    /\ UNCHANGED <<enabled, autoOn, suspending, state, gate, frame, autoHit>>

\* The level starts, pauses, fails or ends while game code runs.
StateChanges ==
    /\ pc \in {"idle", "game", "nested", "committing"}
    /\ state' \in {"replay", "capture", "none"} \ {state}
    /\ UNCHANGED <<control, gate, rt, frame, autoHit>>

-----------------------------------------------------------------------------
(* A frame.                                                                *)

\* A hook of a frame that replays nothing: with the switch off or the level
\* over it closes and clears, at a checkpoint or countdown it starts afresh,
\* otherwise it opens the gate.
IdleFrame ==
    /\ pc = "idle"
    /\ \/ /\ ~enabled \/ (state = "none" /\ gate)
          /\ gate' = FALSE /\ rt' = Cleared(rt)
       \/ /\ enabled /\ state = "capture"
          /\ gate' = TRUE
          /\ rt' \in {Cleared(rt), IF gate THEN rt ELSE Cleared(rt)}
    /\ UNCHANGED <<control, state, frame, autoHit>>

BeginReplay ==
    /\ pc = "idle" /\ enabled /\ state = "replay"
    /\ gate' = TRUE /\ rt' = IF gate THEN rt ELSE Cleared(rt)
    /\ pc' = "macro"
    /\ UNCHANGED <<control, state, quiet, todo, autoHit>>

MacroIdle ==
    rt.queue = <<>> /\ (rt.hold.active \/ rt.held = <<>>)

Post(type, s) == [type |-> type, source |-> s, endTap |-> FALSE]
Tap(s) == <<Post("DOWN", s), Post("UP", s)>>
StartHold(s, endTap) == [type |-> "HOLD", source |-> s, endTap |-> endTap]

\* A tap of each of the first n keys.
Taps(n) == [i \in 1..2 * n |-> Post(IF i % 2 = 1 THEN "DOWN" ELSE "UP",
                                    MacroKeys[(i + 1) \div 2])]

\* What is posted for the next tile: so many taps, the last of them held when
\* the tile is a hold, and tapped again at its end under that behaviour.
NewTarget ==
    {Taps(n) : n \in DOMAIN MacroKeys}
    \cup {Taps(n - 1) \o <<Post("DOWN", MacroKeys[n]), StartHold(MacroKeys[n], FALSE)>> :
             n \in DOMAIN MacroKeys}
    \cup {Taps(n - 1) \o <<Post("DOWN", MacroKeys[n]), StartHold(MacroKeys[n], TRUE),
                           Post("UP", MacroKeys[n])>> : n \in DOMAIN MacroKeys}

\* What ends the hold: the release (or the tap) at its end; or, when the level
\* is no longer at that tile, a release whose failure is ignored.
EndOfHold ==
    LET s == rt.hold.source
        release == Post("RELEASE", s)
    IN  IF rt.hold.endTap THEN {<<release>>, Tap(s) \o <<release>>}
        ELSE {<<Post("TRYUP", s), release>>, <<Post("UP", s), release>>}

\* No target is due, or it was posted already: NothingToPost.
PlanMacro ==
    /\ pc = "macro" /\ macroOn /\ MacroIdle
    /\ todo' \in IF rt.hold.active THEN EndOfHold ELSE NewTarget
    /\ pc' = "post"
    /\ UNCHANGED <<control, state, gate, rt, quiet, autoHit>>

NothingToPost ==
    /\ pc = "macro" \/ (pc = "post" /\ todo = <<>>)
    /\ pc' = "loop" /\ quiet' = (rt.queue = <<>>)
    /\ UNCHANGED <<control, state, gate, rt, todo, autoHit>>

\* One edge is posted; after a refusal the rest is not.
PostEdge ==
    /\ pc = "post" /\ todo # <<>> /\ Head(todo).type \in {"DOWN", "UP", "TRYUP"}
    /\ \E ok \in BOOLEAN :
          /\ Enqueue(IF Head(todo).type = "DOWN" THEN "DOWN" ELSE "UP",
                     Head(todo).source, ok)
          /\ todo' = IF ok \/ Head(todo).type = "TRYUP" THEN Tail(todo) ELSE <<>>
    /\ UNCHANGED <<control, state, gate, pc, quiet, autoHit>>

\* The hold is begun or ended, without the lock.
SetHold ==
    /\ pc = "post" /\ todo # <<>> /\ Head(todo).type \in {"HOLD", "RELEASE"}
    /\ rt' = IF Head(todo).type = "RELEASE" THEN [rt EXCEPT !.hold = NoHold]
             ELSE [rt EXCEPT
                     !.hold = [active |-> TRUE, source |-> Head(todo).source,
                               endTap |-> Head(todo).endTap],
                     !.orphans = @ \cup IF macroOn THEN {} ELSE {Head(todo).source}]
    /\ todo' = Tail(todo)
    /\ UNCHANGED <<control, state, gate, pc, quiet, autoHit>>

\* The state after the first n edges of the queue.
Burst(n) ==
    LET r[i \in 0..n] == IF i = 0 THEN rt ELSE Replayed(r[i - 1], rt.queue[i])
    IN  [r[n] EXCEPT !.queue = SubSeq(@, n + 1, Len(@))]

\* A burst is any number of due edges: those of one time stamp and, behind a
\* DOWN, the DOWNs of the next milliseconds.
PopBurst ==
    /\ pc = "loop"
    /\ \E n \in 1..Len(rt.queue) : rt' = Burst(n)
    /\ pc' = "check" /\ quiet' = FALSE
    /\ UNCHANGED <<control, state, gate, todo, autoHit>>

\* Nothing is due.  A frame that began with an empty queue calls the game once.
NothingDue ==
    /\ pc = "loop"
    /\ pc' = IF quiet THEN "game" ELSE "idle"
    /\ UNCHANGED <<control, state, gate, rt, quiet, todo, autoHit>>

\* The burst before may have ended the level: this one is not shown then.
ShowBurst ==
    /\ pc = "check"
    /\ IF state = "none" THEN gate' = FALSE /\ rt' = Cleared(rt)
                         ELSE UNCHANGED <<gate, rt>>
    /\ pc' = IF state = "replay" THEN "game" ELSE "idle"
    /\ UNCHANGED <<control, state, quiet, todo, autoHit>>

GameReturns ==
    /\ pc = "game"
    /\ pc' = IF quiet THEN "idle" ELSE "loop"
    /\ UNCHANGED <<control, state, gate, rt, quiet, todo, autoHit>>

-----------------------------------------------------------------------------
(* The automatic hit.                                                      *)

InterceptsAuto == enabled /\ autoOn

\* The game calls Hit(isAuto): it is intercepted, or goes to the original.
HitAuto ==
    /\ pc = "game"
    /\ switched' = FALSE
    /\ IF InterceptsAuto /\ state = "replay"
       THEN pc' = "consume" /\ hits' = 0
       ELSE pc' = "hitReturns" /\ hits' = 1
    /\ UNCHANGED <<control, state, gate, rt, quiet, todo, tx, saved>>

\* The game's own auto flag cannot be read: the original is called.
FlagUnavailable ==
    /\ pc = "consume"
    /\ pc' = "hitReturns" /\ hits' = hits + 1
    /\ UNCHANGED <<control, state, gate, rt, quiet, todo, tx, saved, switched>>

\* The held state is saved, and one synthetic key takes its place.
BeginTransaction ==
    /\ pc = "consume"
    /\ saved' = rt.held
    /\ rt' = [rt EXCEPT !.held = <<Synthetic>>]
    /\ tx' = NoTransaction
    /\ pc' = "nested"
    /\ UNCHANGED <<control, state, gate, quiet, todo, hits, switched>>

\* Mutant: the transaction is not asked whether it has committed.
MayAlwaysCommit(t) == TRUE

\* The first hit of a transaction commits it.
MayCommit(t) == ~t.started

\* Inside, the game hits again: once to commit, later in vain.  It reads the
\* switches anew, and with one of them off every hit goes to the original.
NestedHit ==
    /\ pc \in {"nested", "committing"}
    /\ IF InterceptsAuto
       THEN /\ MayCommit(tx)
            /\ tx' = [tx EXCEPT !.started = TRUE] /\ pc' = "committing"
       ELSE UNCHANGED <<tx, pc>>
    /\ hits < MaxHits /\ hits' = hits + 1
    /\ UNCHANGED <<control, state, gate, rt, quiet, todo, saved, switched>>

\* The committed hit returns, and the synthetic key is let go at once.
FinishCommit ==
    /\ pc = "committing"
    /\ tx' = [tx EXCEPT !.finished = TRUE]
    /\ rt' = [rt EXCEPT !.held = <<>>]
    /\ pc' = "nested"
    /\ UNCHANGED <<control, state, gate, quiet, todo, saved, hits, switched>>

\* The game returns; the saved state is put back, whatever has happened to the
\* state since.  Without a commit the original is called.
EndTransaction ==
    /\ pc = "nested"
    /\ rt' = [rt EXCEPT !.held = saved]
    /\ saved' = <<>>
    /\ hits' = IF tx.finished THEN hits ELSE hits + 1
    /\ pc' = "hitReturns"
    /\ UNCHANGED <<control, state, gate, quiet, todo, tx, switched>>

HitReturns ==
    /\ pc = "hitReturns"
    /\ pc' = "game" /\ hits' = 0 /\ tx' = NoTransaction /\ switched' = FALSE
    /\ UNCHANGED <<control, state, gate, rt, quiet, todo, saved>>

-----------------------------------------------------------------------------
Next ==
    \/ Edge \/ Clear \/ Suspend \/ FinishSuspend \/ Resume \/ SwitchAuto
    \/ SwitchMacro \/ StateChanges
    \/ IdleFrame \/ BeginReplay \/ PlanMacro \/ NothingToPost \/ PostEdge
    \/ SetHold \/ PopBurst \/ NothingDue \/ ShowBurst \/ GameReturns
    \/ HitAuto \/ FlagUnavailable \/ BeginTransaction \/ NestedHit
    \/ FinishCommit \/ EndTransaction \/ HitReturns

Spec == Init /\ [][Next]_vars

-----------------------------------------------------------------------------
\* One automatic hit of the game moves the level by one hit: the first nested
\* one, or the fallback, never both and never none (docs/TECHNICAL.md, AUTO).
\* The exception is a switch thrown while the transaction runs: every hit reads
\* the switches anew, so a nested one can pass uncommitted and the fallback
\* hits a second time.
AutoHitsOnce == pc = "hitReturns" => hits = 1 \/ switched

InTransaction == pc \in {"nested", "committing"}

QueuedUp(s) == \E i \in DOMAIN rt.queue : rt.queue[i] = [type |-> "UP", source |-> s]

ToBePosted(s) ==
    /\ pc = "post"
    /\ \E i \in DOMAIN todo : todo[i].source = s /\ todo[i].type \in {"UP", "TRYUP", "HOLD"}

\* No key is stuck: every source the game holds will be let go, because it is
\* still down, or its UP is queued, or the macro is going to post it; over
\* every clear, overflow, refused edge and nested transaction.  A stuck key
\* swallows the next press of its source, and the macro, which waits until
\* nothing is held, never posts again.  While the switch is being turned off
\* the clear is still to come.  The orphans are stuck: what a transaction puts
\* back after a clear, and the macro's hold when it is switched off.
HeldHasRelease ==
    (~InTransaction /\ ~suspending) =>
        \A s \in Range(rt.held) \ rt.orphans :
            \/ s \in rt.physical
            \/ QueuedUp(s)
            \/ macroOn /\ rt.hold.active /\ rt.hold.source = s
            \/ ToBePosted(s)
=============================================================================
