---------------------------- MODULE IngressQueue ----------------------------
(***************************************************************************)
(* include/async_ingress_queue.h: two fixed rings, one for input events    *)
(* and one for lifecycle commands, merged by seq when they are popped.     *)
(* The callers hold g_ingress_lock, so each operation is one step; seq is  *)
(* taken from g_ingress_seq under the same lock (async_input.c).           *)
(***************************************************************************)
EXTENDS Integers, FiniteSets

CONSTANTS EventCap,     \* ADO_ASYNC_INGRESS_EVENT_CAPACITY (512)
          ControlCap,   \* ADO_ASYNC_INGRESS_CONTROL_CAPACITY (16)
          MaxSeq        \* bound on g_ingress_seq, a uint64 in the code

ASSUME CapacityAssumption ==
    /\ EventCap \in Nat \ {0}
    /\ ControlCap \in Nat \ {0}
    /\ MaxSeq \in Nat

VARIABLES
    eventSlots, eventHead, eventCount,          \* the event ring
    controlSlots, controlHead, controlCount,    \* the command ring
    droppedCount,                               \* dropped_event_count
    seq,                                        \* g_ingress_seq
    out,                                        \* the record popped last
    poppedCount                                 \* auxiliary: records popped so far

eventRing == <<eventSlots, eventHead, eventCount>>
controlRing == <<controlSlots, controlHead, controlCount>>
vars == <<eventRing, controlRing, droppedCount, seq, out, poppedCount>>

ControlKinds == {"RESET", "SOFT_PAUSE", "SOFT_RESUME"}
Kinds == {"EVENT"} \cup ControlKinds
NoRecord == [kind |-> "NONE", seq |-> 0]
Record == [kind : Kinds, seq : 1..MaxSeq] \cup {NoRecord}

\* The g_ingress_queue of the program is static, hence zero.
Init ==
    /\ eventSlots = [i \in 0..EventCap - 1 |-> NoRecord]
    /\ eventHead = 0
    /\ eventCount = 0
    /\ controlSlots = [i \in 0..ControlCap - 1 |-> NoRecord]
    /\ controlHead = 0
    /\ controlCount = 0
    /\ droppedCount = 0
    /\ seq = 0
    /\ out = NoRecord
    /\ poppedCount = 0

\* Mutant of EventsFull: the test of the capacity is off by one.
EventsFullLate == eventCount > EventCap

EventsFull == eventCount = EventCap

\* ado_async_ingress_push_event: a full ring gives up its oldest record first.
PushEvent ==
    LET head == IF EventsFull THEN (eventHead + 1) % EventCap ELSE eventHead
        count == IF EventsFull THEN eventCount - 1 ELSE eventCount
        index == (head + count) % EventCap
    IN  /\ seq < MaxSeq
        /\ seq' = seq + 1
        /\ eventHead' = head
        /\ eventCount' = count + 1
        /\ eventSlots' = [eventSlots EXCEPT ![index] =
                            [kind |-> "EVENT", seq |-> seq + 1]]
        /\ droppedCount' = droppedCount + (IF EventsFull THEN 1 ELSE 0)
        /\ UNCHANGED <<controlRing, out, poppedCount>>

\* ado_async_ingress_control_has_capacity
ControlHasCapacity == controlCount < ControlCap

\* ado_async_ingress_push_control on a ring that has room.
PushControl(kind) ==
    LET index == (controlHead + controlCount) % ControlCap
    IN  /\ ControlHasCapacity
        /\ seq < MaxSeq
        /\ seq' = seq + 1
        /\ controlSlots' = [controlSlots EXCEPT ![index] =
                              [kind |-> kind, seq |-> seq + 1]]
        /\ controlCount' = controlCount + 1
        /\ UNCHANGED <<eventRing, controlHead, droppedCount, out, poppedCount>>

\* The same on a full ring: REJECTED, and no seq is spent on it.
RejectControl ==
    /\ ~ControlHasCapacity
    /\ UNCHANGED vars

\* Mutant of UseControl: commands overtake older events.
UseControlFirst == controlCount # 0

\* The merge: the command ring is popped if it holds the smaller seq.
UseControl ==
    \/ eventCount = 0
    \/ /\ controlCount # 0
       /\ controlSlots[controlHead].seq < eventSlots[eventHead].seq

PopControl ==
    /\ eventCount # 0 \/ controlCount # 0
    /\ UseControl
    /\ out' = controlSlots[controlHead]
    /\ controlHead' = (controlHead + 1) % ControlCap
    /\ controlCount' = controlCount - 1
    /\ poppedCount' = poppedCount + 1
    /\ UNCHANGED <<eventRing, controlSlots, droppedCount, seq>>

\* Mutant of PopEvent: the head does not wrap.
PopEventUnwrapped ==
    /\ eventCount # 0 \/ controlCount # 0
    /\ ~UseControl
    /\ out' = eventSlots[eventHead]
    /\ eventHead' = eventHead + 1
    /\ eventCount' = eventCount - 1
    /\ poppedCount' = poppedCount + 1
    /\ UNCHANGED <<controlRing, eventSlots, droppedCount, seq>>

PopEvent ==
    /\ eventCount # 0 \/ controlCount # 0
    /\ ~UseControl
    /\ out' = eventSlots[eventHead]
    /\ eventHead' = (eventHead + 1) % EventCap
    /\ eventCount' = eventCount - 1
    /\ poppedCount' = poppedCount + 1
    /\ UNCHANGED <<controlRing, eventSlots, droppedCount, seq>>

\* Both rings empty: ado_async_ingress_pop returns 0.
PopEmpty ==
    /\ eventCount = 0
    /\ controlCount = 0
    /\ UNCHANGED vars

Next ==
    \/ PushEvent
    \/ \E kind \in ControlKinds : PushControl(kind)
    \/ RejectControl
    \/ PopControl
    \/ PopEvent
    \/ PopEmpty

Spec == Init /\ [][Next]_vars

-----------------------------------------------------------------------------
\* The records that are in a ring, oldest first.
Live(slots, head, count, cap) == {slots[(head + i) % cap] : i \in 0..count - 1}
LiveEvents == Live(eventSlots, eventHead, eventCount, EventCap)
LiveControls == Live(controlSlots, controlHead, controlCount, ControlCap)

\* Every field stays in the range of its C type and of its ring.
TypeOK ==
    /\ eventSlots \in [0..EventCap - 1 -> Record]
    /\ eventHead \in 0..EventCap - 1
    /\ eventCount \in 0..EventCap
    /\ controlSlots \in [0..ControlCap - 1 -> Record]
    /\ controlHead \in 0..ControlCap - 1
    /\ controlCount \in 0..ControlCap
    /\ droppedCount \in 0..MaxSeq
    /\ seq \in 0..MaxSeq
    /\ out \in Record
    /\ poppedCount \in 0..MaxSeq

\* The rings with head, count and modulo are the abstract merged channel:
\* what is popped is the record with the smallest seq of both rings, only the
\* oldest event is ever given up, and an accepted command is never overwritten.
Channel == INSTANCE MergedChannel WITH
    pending <- LiveEvents \cup LiveControls,
    posted <- seq,
    taken <- out
ImplementsChannel == Channel!Spec

\* test_control_survives_event_overflow for every order of calls: each seq
\* that was accepted is popped, in a ring, or counted in dropped_event_count;
\* nothing is overwritten in place, popped twice or lost without a trace.
NothingLostUncounted ==
    /\ Cardinality(LiveEvents) = eventCount
    /\ Cardinality(LiveControls) = controlCount
    /\ seq = poppedCount + eventCount + controlCount + droppedCount
=============================================================================
