------------------------------- MODULE Ingress -------------------------------
(***************************************************************************)
(* The native ingress of async_input.c (ingress_* and input_thread_main):  *)
(* Android callbacks and control calls post records under g_ingress_lock,  *)
(* one detached worker thread pops and applies them.  Posters of a touch   *)
(* or key edge wait up to 2 ms, posters of a reset or soft pause up to     *)
(* 5 ms, for the worker to have passed their seq.  All of them, and the    *)
(* worker, sleep on the same g_ingress_cond, and a post wakes only one     *)
(* sleeper (pthread_cond_signal).                                          *)
(*                                                                         *)
(* Every step below is one critical section of g_ingress_lock, or a step   *)
(* outside it.  A thread in waiting is blocked in pthread_cond_(timed)wait;*)
(* removing it from waiting wakes it, and it then looks again.             *)
(* g_input_thread_stop is never set by the code and is left out.           *)
(***************************************************************************)
EXTENDS Naturals, Sequences, FiniteSets

CONSTANTS Callers,      \* threads that post: Android UI, control API callers
          Worker,       \* the thread that runs input_thread_main
          EventCap,     \* ADO_ASYNC_INGRESS_EVENT_CAPACITY (512)
          ControlCap,   \* ADO_ASYNC_INGRESS_CONTROL_CAPACITY (16)
          MaxSeq        \* bound on g_ingress_seq, a uint64 in the code

ASSUME IngressAssumption ==
    /\ Worker \notin Callers
    /\ EventCap \in Nat \ {0}
    /\ ControlCap \in Nat \ {0}
    /\ MaxSeq \in Nat

VARIABLES
    seq,          \* g_ingress_seq
    events,       \* the event ring of g_ingress_queue, oldest first
    controls,     \* its command ring, oldest first
    processed,    \* g_ingress_processed_seq
    started,      \* g_input_thread_started
    waiting,      \* the threads blocked on g_ingress_cond
    worker,       \* where the worker is: "absent", "pop", "handle", "mark"
    rec,          \* the record the worker popped last
    applied,      \* seq of the last record whose handler has finished
    pc,           \* where each caller is
    mySeq,        \* the seq a caller's last post was given
    answer        \* what a caller's last post or wait returned

queues == <<seq, events, controls>>
workerVars == <<worker, rec, applied>>
callerVars == <<pc, mySeq, answer>>
vars == <<queues, processed, started, waiting, workerVars, callerVars>>

ControlKinds == {"RESET", "SOFT_PAUSE", "SOFT_RESUME"}
Kinds == {"EVENT"} \cup ControlKinds
NoRecord == [kind |-> "NONE", seq |-> 0]
Record == [kind : Kinds, seq : Nat]

\* The commands as the code posts them, with wait_for_ack: a reset with ack
\* from nativeOnLifecycleReset and without from the master switch, a soft
\* pause always with, a soft resume always without.
Commands == {<<"RESET", TRUE>>, <<"RESET", FALSE>>,
             <<"SOFT_PAUSE", TRUE>>, <<"SOFT_RESUME", FALSE>>}

Init ==
    /\ seq = 0
    /\ events = <<>>
    /\ controls = <<>>
    /\ processed = 0
    /\ started = FALSE
    /\ waiting = {}
    /\ worker = "absent"
    /\ rec = NoRecord
    /\ applied = 0
    /\ pc = [t \in Callers |-> "idle"]
    /\ mySeq = [t \in Callers |-> 0]
    /\ answer = [t \in Callers |-> "none"]

-----------------------------------------------------------------------------
\* Mutant of Woken: the signal after a push is forgotten.
WokenNobody(sleepers) == {sleepers}

\* pthread_cond_signal on a set of sleepers: one of them wakes, if any.
Woken(sleepers) ==
    IF sleepers = {} THEN {{}} ELSE {sleepers \ {t} : t \in sleepers}

\* pthread_cond_broadcast
WakeAll == waiting' = {}

Return(t, result) ==
    /\ pc' = [pc EXCEPT ![t] = "idle"]
    /\ answer' = [answer EXCEPT ![t] = result]

-----------------------------------------------------------------------------
(* ensure_input_thread_started, called first by every handler that posts.  *)

\* Mutant of EnsureStarted: the flag is raised only after pthread_create.
EnsureStartedLate(t) ==
    /\ pc[t] = "idle"
    /\ pc' = [pc EXCEPT ![t] = IF started THEN "post" ELSE "create"]
    /\ answer' = [answer EXCEPT ![t] = "none"]
    /\ UNCHANGED <<queues, processed, started, waiting, workerVars, mySeq>>

EnsureStarted(t) ==
    /\ pc[t] = "idle"
    /\ started' = TRUE
    /\ pc' = [pc EXCEPT ![t] = IF started THEN "post" ELSE "create"]
    /\ answer' = [answer EXCEPT ![t] = "none"]
    /\ UNCHANGED <<queues, processed, waiting, workerVars, mySeq>>

\* pthread_create succeeds: there is now a worker, at its first ingress_pop.
CreateWorker(t) ==
    /\ pc[t] = "create"
    /\ worker' = "pop"
    /\ pc' = [pc EXCEPT ![t] = "post"]
    /\ UNCHANGED <<queues, processed, started, waiting, rec, applied,
                   mySeq, answer>>

\* pthread_create fails: the flag is taken back and the handler goes on.
CreateFails(t) ==
    /\ pc[t] = "create"
    /\ started' = FALSE
    /\ pc' = [pc EXCEPT ![t] = "post"]
    /\ UNCHANGED <<queues, processed, waiting, workerVars, mySeq, answer>>

\* The handler decides not to post (gate closed, key ignored, ...).
ReturnUnposted(t) ==
    /\ pc[t] = "post"
    /\ Return(t, "unposted")
    /\ UNCHANGED <<queues, processed, started, waiting, workerVars, mySeq>>

-----------------------------------------------------------------------------
(* Posting.                                                                *)

\* Mutants of KeptEvents: no event is given up; the newest one is.
KeptAll == events
KeptButNewest ==
    IF Len(events) = EventCap THEN SubSeq(events, 1, EventCap - 1) ELSE events

\* What ado_async_ingress_push_event keeps of the events to make room.
KeptEvents == IF Len(events) = EventCap THEN Tail(events) ELSE events

\* ingress_post_event, up to the unlock: the record is queued, one sleeper
\* is signalled, and the caller goes on to ingress_wait_processed.
PostEvent(t) ==
    /\ pc[t] = "post"
    /\ seq < MaxSeq
    /\ seq' = seq + 1
    /\ events' = Append(KeptEvents, [kind |-> "EVENT", seq |-> seq + 1])
    /\ waiting' \in Woken(waiting)
    /\ mySeq' = [mySeq EXCEPT ![t] = seq + 1]
    /\ pc' = [pc EXCEPT ![t] = "seal"]
    /\ UNCHANGED <<controls, processed, started, workerVars, answer>>

\* ingress_wait_processed takes the lock again: it gives up at once when no
\* worker was started, else looks at the processed seq and sleeps if need be.
Seal(t) ==
    /\ pc[t] = "seal"
    /\ \/ /\ ~started
          /\ Return(t, "unsealed")
          /\ UNCHANGED waiting
       \/ /\ started
          /\ processed >= mySeq[t]
          /\ Return(t, "done")
          /\ UNCHANGED waiting
       \/ /\ started
          /\ processed < mySeq[t]
          /\ pc' = [pc EXCEPT ![t] = "sealWait"]
          /\ waiting' = waiting \cup {t}
          /\ UNCHANGED answer
    /\ UNCHANGED <<queues, processed, started, workerVars, mySeq>>

\* Mutant of PostCommand: a full ring gives up its oldest command.
PostCommandEvicting(t, kind, ack) ==
    /\ pc[t] = "post"
    /\ seq < MaxSeq
    /\ seq' = seq + 1
    /\ controls' = Append(IF Len(controls) = ControlCap THEN Tail(controls) ELSE controls,
                          [kind |-> kind, seq |-> seq + 1])
    /\ mySeq' = [mySeq EXCEPT ![t] = seq + 1]
    /\ waiting' \in Woken(waiting)
    /\ Return(t, "posted")
    /\ UNCHANGED <<events, processed, started, workerVars>>

\* ingress_post_command with room in the command ring.  The new seq cannot
\* have been processed, so a caller that wants the ack sleeps at once.
PostCommand(t, kind, ack) ==
    /\ pc[t] = "post"
    /\ Len(controls) < ControlCap
    /\ seq < MaxSeq
    /\ seq' = seq + 1
    /\ controls' = Append(controls, [kind |-> kind, seq |-> seq + 1])
    /\ mySeq' = [mySeq EXCEPT ![t] = seq + 1]
    /\ \E awake \in Woken(waiting) :
          waiting' = IF ack THEN awake \cup {t} ELSE awake
    /\ IF ack
         THEN /\ pc' = [pc EXCEPT ![t] = "ackWait"]
              /\ UNCHANGED answer
         ELSE Return(t, "posted")
    /\ UNCHANGED <<events, processed, started, workerVars>>

\* The same with a full ring: the command is gone, and its poster
\* (ingress_post_reset, _soft_pause, _soft_resume) ignores the result.
RejectCommand(t) ==
    /\ pc[t] = "post"
    /\ Len(controls) = ControlCap
    /\ Return(t, "rejected")
    /\ UNCHANGED <<queues, processed, started, waiting, workerVars, mySeq>>

Sleeping(t) == pc[t] \in {"sealWait", "ackWait"}

\* A woken waiter evaluates the loop condition again.
Recheck(t) ==
    /\ Sleeping(t)
    /\ t \notin waiting
    /\ \/ /\ processed >= mySeq[t]
          /\ Return(t, "done")
          /\ UNCHANGED waiting
       \/ /\ processed < mySeq[t]
          /\ waiting' = waiting \cup {t}
          /\ UNCHANGED <<pc, answer>>
    /\ UNCHANGED <<queues, processed, started, workerVars, mySeq>>

\* Mutant of TimeOut: the wait loop ignores the result of the timed wait.
TimeOutIgnored(t) ==
    /\ Sleeping(t)
    /\ t \in waiting
    /\ waiting' = waiting \ {t}
    /\ UNCHANGED <<queues, processed, started, workerVars, callerVars>>

\* The deadline passes: the waiter returns without looking again.
TimeOut(t) ==
    /\ Sleeping(t)
    /\ t \in waiting
    /\ waiting' = waiting \ {t}
    /\ Return(t, "timeout")
    /\ UNCHANGED <<queues, processed, started, workerVars, mySeq>>

\* POSIX lets any wait return for no reason.
SpuriousWakeup(t) ==
    /\ t \in waiting
    /\ waiting' = waiting \ {t}
    /\ UNCHANGED <<queues, processed, started, workerVars, callerVars>>

-----------------------------------------------------------------------------
(* The worker: ingress_pop, the handler of the record, ingress_mark_processed. *)

Park ==
    /\ worker = "pop"
    /\ Worker \notin waiting
    /\ events = <<>>
    /\ controls = <<>>
    /\ waiting' = waiting \cup {Worker}
    /\ UNCHANGED <<queues, processed, started, workerVars, callerVars>>

\* Mutant of UseControl: commands overtake older events.
ControlFirst == controls # <<>>

\* ado_async_ingress_pop takes a command if no event is older than it.
UseControl ==
    /\ controls # <<>>
    /\ (events # <<>>) => (Head(controls).seq < Head(events).seq)

UseEvent == events # <<>> /\ ~UseControl

\* Mutant of Pop: the record is marked as processed when it is popped.
PopAndMark ==
    /\ worker = "pop"
    /\ Worker \notin waiting
    /\ UseEvent
    /\ rec' = Head(events)
    /\ events' = Tail(events)
    /\ processed' = rec'.seq
    /\ worker' = "handle"
    /\ WakeAll
    /\ UNCHANGED <<seq, controls, started, applied, callerVars>>

Pop ==
    /\ worker = "pop"
    /\ Worker \notin waiting
    /\ \/ /\ UseControl
          /\ rec' = Head(controls)
          /\ controls' = Tail(controls)
          /\ UNCHANGED events
       \/ /\ UseEvent
          /\ rec' = Head(events)
          /\ events' = Tail(events)
          /\ UNCHANGED controls
    /\ worker' = "handle"
    /\ WakeAll
    /\ UNCHANGED <<seq, processed, started, applied, callerVars>>

\* The branch of input_thread_main for the record's kind has run; what it
\* does to the state under g_lock is the subject of module Capture.
Handle ==
    /\ worker = "handle"
    /\ applied' = rec.seq
    /\ worker' = "mark"
    /\ UNCHANGED <<queues, processed, started, waiting, rec, callerVars>>

\* Mutant of MarkProcessed: the broadcast is forgotten.
MarkSilently ==
    /\ worker = "mark"
    /\ processed' = IF processed < rec.seq THEN rec.seq ELSE processed
    /\ worker' = "pop"
    /\ UNCHANGED <<queues, started, waiting, rec, applied, callerVars>>

MarkProcessed ==
    /\ worker = "mark"
    /\ processed' = IF processed < rec.seq THEN rec.seq ELSE processed
    /\ WakeAll
    /\ worker' = "pop"
    /\ UNCHANGED <<queues, started, rec, applied, callerVars>>

-----------------------------------------------------------------------------
CallerStep(t) ==
    \/ EnsureStarted(t) \/ CreateWorker(t) \/ CreateFails(t)
    \/ ReturnUnposted(t)
    \/ PostEvent(t) \/ Seal(t)
    \/ \E c \in Commands : PostCommand(t, c[1], c[2])
    \/ RejectCommand(t)
    \/ Recheck(t) \/ TimeOut(t)

WorkerStep == Park \/ Pop \/ Handle \/ MarkProcessed

Next ==
    \/ \E t \in Callers : CallerStep(t)
    \/ WorkerStep
    \/ \E t \in Callers \cup {Worker} : SpuriousWakeup(t)

Spec == Init /\ [][Next]_vars

\* The scheduler runs every thread that can run.  The deadlines are absolute
\* (CLOCK_REALTIME + 2 or 5 ms), so a waiter that keeps being woken and goes
\* back to sleep still times out: strong fairness for TimeOut.  Nothing is
\* assumed about new calls, pthread_create or spurious wakeups.
Fairness ==
    /\ WF_vars(WorkerStep)
    /\ \A t \in Callers :
          /\ WF_vars(Seal(t))
          /\ WF_vars(Recheck(t))
          /\ SF_vars(TimeOut(t))

LiveSpec == Spec /\ Fairness

-----------------------------------------------------------------------------
(* Properties.                                                             *)

Elems(q) == {q[i] : i \in 1..Len(q)}
Pending == Elems(events) \cup Elems(controls)

\* Every variable keeps the range of the C object it stands for.
TypeOK ==
    /\ seq \in Nat
    /\ events \in Seq(Record)
    /\ Len(events) <= EventCap
    /\ controls \in Seq(Record)
    /\ Len(controls) <= ControlCap
    /\ processed \in Nat
    /\ started \in BOOLEAN
    /\ waiting \subseteq Callers \cup {Worker}
    /\ worker \in {"absent", "pop", "handle", "mark"}
    /\ rec \in Record \cup {NoRecord}
    /\ applied \in Nat
    /\ pc \in [Callers -> {"idle", "create", "post", "seal", "sealWait", "ackWait"}]
    /\ mySeq \in [Callers -> Nat]
    /\ answer \in [Callers -> {"none", "unposted", "unsealed", "done",
                              "posted", "rejected", "timeout"}]

\* One condition variable serves the worker and every waiter, and a post
\* signals only one sleeper.  The signal still cannot go to the wrong one:
\* while the worker sleeps nothing is queued, nobody else sleeps, and all
\* that was posted has been processed.
NoLostWakeup ==
    Worker \in waiting =>
        /\ events = <<>>
        /\ controls = <<>>
        /\ waiting = {Worker}
        /\ processed = seq

\* A caller sleeps in ingress_wait_processed or ingress_post_command only
\* for a record the worker has not passed, never after its answer is there.
SleepersAreUnanswered ==
    \A t \in Callers \cap waiting : Sleeping(t) /\ processed < mySeq[t]

\* A wait that returns 1 means that the handler of the caller's record, and
\* of every record posted before it, has finished or was given up for newer
\* events: none of them is queued or in the worker's hands.
AckMeansApplied ==
    \A t \in Callers :
        answer[t] = "done" =>
            /\ applied >= mySeq[t]
            /\ \A r \in Pending : r.seq > mySeq[t]

\* ensure_input_thread_started drops the lock before pthread_create: still
\* only one caller is ever creating the worker, and none when it exists.
OneCreator ==
    \A t \in Callers :
        pc[t] = "create" =>
            /\ started
            /\ worker = "absent"
            /\ \A u \in Callers \ {t} : pc[u] # "create"

\* docs/TECHNICAL.md: the two rings are consumed merged in global seq order.
\* Whatever overflows and whoever posts, the worker's next record is newer
\* than its last, and older than everything it leaves behind.
PopsInSeqOrder ==
    [][rec' # rec => /\ rec'.seq > rec.seq
                     /\ \A r \in Pending' : r.seq > rec'.seq]_vars

\* docs/TECHNICAL.md: a flood only evicts the oldest events and never a
\* lifecycle command.  A record leaves the rings by being popped, or it is an
\* event that is the oldest one of a full ring.
OnlyOldestEventLost ==
    [][\A r \in Pending \ Pending' :
          \/ rec' = r
          \/ /\ r.kind = "EVENT"
             /\ Len(events) = EventCap
             /\ \A e \in Elems(events) : r.seq <= e.seq]_vars

\* A timed-out post is not withdrawn (docs/TECHNICAL.md): once there is a
\* worker it passes every seq that was posted.  A command cannot have been
\* evicted (OnlyOldestEventLost), so every accepted reset, soft pause and
\* soft resume is applied although its poster may have stopped waiting.
EverySeqIsPassed ==
    \A n \in 1..MaxSeq : (worker # "absent" /\ seq >= n) ~> (processed >= n)

\* No call hangs: the waits end by their answer or their deadline, also when
\* the worker was never created.
CallsReturn ==
    \A t \in Callers : (pc[t] = "seal" \/ Sleeping(t)) ~> (pc[t] = "idle")

\* The threads and rings together are the abstract merged channel.
Channel == INSTANCE MergedChannel WITH
    pending <- Pending,
    posted <- seq,
    taken <- rec
ImplementsChannel == Channel!Spec
=============================================================================
