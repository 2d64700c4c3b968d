--------------------------- MODULE IngressInvariant ---------------------------
(***************************************************************************)
(* The inductive invariant of Ingress: why no wakeup is lost and why an    *)
(* acknowledged post is applied.  TLC checks it here on small instances;   *)
(* IngressProofs proves it for every instance.                             *)
(***************************************************************************)
EXTENDS Ingress

Increasing(q) == \A i, j \in 1..Len(q) : i < j => q[i].seq < q[j].seq

\* Everything queued is newer than what was popped, in order in each ring,
\* and no seq is used twice.
RingsOrdered ==
    /\ Increasing(events)
    /\ Increasing(controls)
    /\ \A i \in 1..Len(events) :
          /\ events[i].kind = "EVENT"
          /\ rec.seq < events[i].seq
          /\ events[i].seq <= seq
    /\ \A i \in 1..Len(controls) :
          /\ controls[i].kind \in ControlKinds
          /\ rec.seq < controls[i].seq
          /\ controls[i].seq <= seq
    /\ \A i \in 1..Len(events), j \in 1..Len(controls) :
          events[i].seq # controls[j].seq

\* The newest seq is never the one that is lost: it is queued, or it is the
\* last one popped.  An empty queue therefore means rec.seq = seq.
NewestKept ==
    \/ rec.seq = seq
    \/ \E i \in 1..Len(events) : events[i].seq = seq
    \/ \E i \in 1..Len(controls) : controls[i].seq = seq

\* How far the worker is with the record it popped last.
WorkerProgress ==
    /\ worker = "absent" => rec.seq = 0
    /\ worker \in {"absent", "pop"} => processed = rec.seq /\ applied = rec.seq
    /\ worker = "handle" => processed < rec.seq /\ applied = processed
    /\ worker = "mark" => processed < rec.seq /\ applied = rec.seq
    /\ Worker \in waiting => worker = "pop"

CallersKnow ==
    \A t \in Callers :
        /\ mySeq[t] <= seq
        /\ t \in waiting => Sleeping(t) /\ processed < mySeq[t]
        /\ answer[t] = "done" => pc[t] = "idle" /\ mySeq[t] <= processed
        /\ pc[t] # "idle" => answer[t] = "none"

WorkerStarted ==
    /\ worker # "absent" => started
    /\ OneCreator

\* The inductive invariant.
IInv ==
    /\ TypeOK
    /\ RingsOrdered
    /\ NewestKept
    /\ WorkerProgress
    /\ CallersKnow
    /\ WorkerStarted
    /\ NoLostWakeup
=============================================================================
