--------------------------- MODULE MergedChannel ---------------------------
(***************************************************************************)
(* What the ingress of async_input.c promises to the code around it: one   *)
(* channel whose records are numbered in posting order and reach the       *)
(* single consumer in that order.  Events may be lost, but only the oldest *)
(* one and only when EventCap of them are pending; a lifecycle command     *)
(* that was accepted is never lost.  The two rings, the merge by seq and   *)
(* the threads that implement it are in IngressQueue and Ingress.          *)
(***************************************************************************)
EXTENDS Naturals, FiniteSets

CONSTANTS EventCap,     \* ADO_ASYNC_INGRESS_EVENT_CAPACITY
          ControlCap    \* ADO_ASYNC_INGRESS_CONTROL_CAPACITY

VARIABLES pending,      \* the set of records posted and not yet taken
          posted,       \* the seq of the last record that was accepted
          taken         \* the record the consumer took last

vars == <<pending, posted, taken>>

ControlKinds == {"RESET", "SOFT_PAUSE", "SOFT_RESUME"}
Kinds == {"EVENT"} \cup ControlKinds

NoRecord == [kind |-> "NONE", seq |-> 0]

Events == {r \in pending : r.kind = "EVENT"}
Controls == {r \in pending : r.kind # "EVENT"}

Oldest(S) == {r \in S : \A q \in S : r.seq <= q.seq}

Init ==
    /\ pending = {}
    /\ posted = 0
    /\ taken = NoRecord

Next0(k) == [kind |-> k, seq |-> posted + 1]

\* The consumer takes the pending record with the smallest seq.
Take ==
    /\ \E r \in Oldest(pending) :
          /\ taken' = r
          /\ pending' = pending \ {r}
    /\ UNCHANGED posted

\* An event is always accepted; if EventCap events are pending the oldest
\* of them is given up for it.
PostEvent ==
    /\ posted' = posted + 1
    /\ pending' = (IF Cardinality(Events) = EventCap
                     THEN pending \ Oldest(Events)
                     ELSE pending) \cup {Next0("EVENT")}
    /\ UNCHANGED taken

\* A command is accepted only while fewer than ControlCap are pending.
PostControl ==
    /\ Cardinality(Controls) < ControlCap
    /\ \E k \in ControlKinds : pending' = pending \cup {Next0(k)}
    /\ posted' = posted + 1
    /\ UNCHANGED taken

Next == Take \/ PostEvent \/ PostControl

Spec == Init /\ [][Next]_vars

\* The same channel with a consumer that does not stop.
FairSpec == Spec /\ WF_vars(Take)
=============================================================================
