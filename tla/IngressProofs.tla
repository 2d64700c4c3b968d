---------------------------- MODULE IngressProofs ----------------------------
(***************************************************************************)
(* Proofs about Ingress for any set of callers, any ring capacities and    *)
(* any number of posts.                                                    *)
(***************************************************************************)
EXTENDS IngressInvariant, QueueLemmas

\* A signal leaves a subset of the sleepers asleep, and wakes a lone sleeper.
LEMMA WokenFacts ==
    ASSUME NEW S, NEW w \in Woken(S)
    PROVE  /\ w \subseteq S
           /\ \A x : S = {x} => w = {}
BY DEF Woken

\* A record that is posted is a record.
LEMMA NewRecord ==
    ASSUME NEW n \in Nat, NEW k \in Kinds
    PROVE  [kind |-> k, seq |-> n + 1] \in Record
BY DEF Record

\* What is posted as a command is a command.
LEMMA CommandKind ==
    ASSUME NEW c \in Commands
    PROVE  c[1] \in ControlKinds
<1>1. CASE c = <<"RESET", TRUE>>
  BY <1>1 DEF ControlKinds
<1>2. CASE c = <<"RESET", FALSE>>
  BY <1>2 DEF ControlKinds
<1>3. CASE c = <<"SOFT_PAUSE", TRUE>>
  BY <1>3 DEF ControlKinds
<1>4. CASE c = <<"SOFT_RESUME", FALSE>>
  BY <1>4 DEF ControlKinds
<1> QED
  BY <1>1, <1>2, <1>3, <1>4 DEF Commands

-----------------------------------------------------------------------------
(* Type correctness.                                                       *)

LEMMA TypeInit == Init => TypeOK
<1> SUFFICES ASSUME Init PROVE TypeOK
  OBVIOUS
<1>1. events \in Seq(Record) /\ Len(events) = 0 /\ controls \in Seq(Record) /\ Len(controls) = 0
  BY EmptyFacts DEF Init
<1>2. /\ waiting \subseteq Callers \cup {Worker}
      /\ rec \in Record \cup {NoRecord}
      /\ Len(events) <= EventCap
      /\ Len(controls) <= ControlCap
  BY <1>1, IngressAssumption DEF Init
<1>3. /\ pc \in [Callers -> {"idle", "create", "post", "seal", "sealWait", "ackWait"}]
      /\ mySeq \in [Callers -> Nat]
      /\ answer \in [Callers -> {"none", "unposted", "unsealed", "done",
                                "posted", "rejected", "timeout"}]
  BY DEF Init
<1>4. /\ seq \in Nat /\ processed \in Nat /\ applied \in Nat
      /\ started \in BOOLEAN
      /\ worker \in {"absent", "pop", "handle", "mark"}
  BY DEF Init
<1> QED
  BY <1>1, <1>2, <1>3, <1>4 DEF TypeOK

\* The event ring after a post, full or not.
LEMMA PushedEvents ==
    ASSUME TypeOK, NEW r \in Record
    PROVE  /\ KeptEvents \in Seq(Record)
           /\ Append(KeptEvents, r) \in Seq(Record)
           /\ Len(Append(KeptEvents, r)) <= EventCap
<1>1. EventCap \in Nat \ {0} /\ events \in Seq(Record) /\ Len(events) <= EventCap
  BY IngressAssumption DEF TypeOK
<1>2. CASE Len(events) = EventCap
  <2>1. events # <<>>
    BY <1>1, <1>2, EmptyFacts
  <2>2. KeptEvents \in Seq(Record) /\ Len(KeptEvents) = EventCap - 1
    BY <1>1, <1>2, <2>1, HeadTailFacts DEF KeptEvents
  <2> QED
    BY <1>1, <2>2, AppendFacts
<1>3. CASE Len(events) # EventCap
  <2>1. KeptEvents = events /\ Len(events) \in Nat
    BY <1>1, <1>3, EmptyFacts DEF KeptEvents
  <2> QED
    BY <1>1, <1>3, <2>1, AppendFacts
<1> QED
  BY <1>2, <1>3

LEMMA TypeStep == TypeOK /\ [Next]_vars => TypeOK'
<1> SUFFICES ASSUME TypeOK, [Next]_vars PROVE TypeOK'
  OBVIOUS
<1> USE IngressAssumption
<1>1. ASSUME NEW t \in Callers, EnsureStarted(t) PROVE TypeOK'
  BY <1>1 DEF TypeOK, EnsureStarted, queues, workerVars
<1>2. ASSUME NEW t \in Callers, CreateWorker(t) PROVE TypeOK'
  BY <1>2 DEF TypeOK, CreateWorker, queues
<1>3. ASSUME NEW t \in Callers, CreateFails(t) PROVE TypeOK'
  BY <1>3 DEF TypeOK, CreateFails, queues, workerVars
<1>4. ASSUME NEW t \in Callers, ReturnUnposted(t) PROVE TypeOK'
  BY <1>4 DEF TypeOK, ReturnUnposted, Return, queues, workerVars
<1>5. ASSUME NEW t \in Callers, PostEvent(t) PROVE TypeOK'
  <2>1. seq \in Nat /\ [kind |-> "EVENT", seq |-> seq + 1] \in Record
    BY NewRecord DEF TypeOK, Kinds
  <2>2. events' \in Seq(Record) /\ Len(events') <= EventCap
    BY <1>5, <2>1, PushedEvents DEF PostEvent
  <2>3. waiting' \subseteq Callers \cup {Worker}
    BY <1>5, WokenFacts DEF TypeOK, PostEvent
  <2> QED
    BY <1>5, <2>1, <2>2, <2>3 DEF TypeOK, PostEvent, workerVars
<1>6. ASSUME NEW t \in Callers, Seal(t) PROVE TypeOK'
  BY <1>6 DEF TypeOK, Seal, Return, queues, workerVars
<1>7. ASSUME NEW t \in Callers, NEW c \in Commands, PostCommand(t, c[1], c[2])
      PROVE  TypeOK'
  <2>1. c[1] \in ControlKinds
    BY CommandKind
  <2>2. seq \in Nat /\ [kind |-> c[1], seq |-> seq + 1] \in Record
    BY <2>1, NewRecord DEF TypeOK, Kinds
  <2>3. controls' \in Seq(Record) /\ Len(controls') <= ControlCap
    BY <1>7, <2>2, AppendFacts, EmptyFacts DEF PostCommand, TypeOK
  <2>4. waiting' \subseteq Callers \cup {Worker}
    BY <1>7, WokenFacts DEF TypeOK, PostCommand
  <2>5. pc' \in [Callers -> {"idle", "create", "post", "seal", "sealWait", "ackWait"}]
    BY <1>7 DEF TypeOK, PostCommand, Return
  <2>6. answer' \in [Callers -> {"none", "unposted", "unsealed", "done",
                                "posted", "rejected", "timeout"}]
    BY <1>7 DEF TypeOK, PostCommand, Return
  <2>7. /\ seq' \in Nat
        /\ mySeq' \in [Callers -> Nat]
        /\ UNCHANGED <<events, processed, started, worker, rec, applied>>
    BY <1>7 DEF TypeOK, PostCommand, workerVars
  <2> QED
    BY <2>3, <2>4, <2>5, <2>6, <2>7 DEF TypeOK
<1>8. ASSUME NEW t \in Callers, RejectCommand(t) PROVE TypeOK'
  BY <1>8 DEF TypeOK, RejectCommand, Return, queues, workerVars
<1>9. ASSUME NEW t \in Callers, Recheck(t) PROVE TypeOK'
  BY <1>9 DEF TypeOK, Recheck, Return, queues, workerVars
<1>10. ASSUME NEW t \in Callers, TimeOut(t) PROVE TypeOK'
  BY <1>10 DEF TypeOK, TimeOut, Return, queues, workerVars
<1>11. CASE Park
  BY <1>11 DEF TypeOK, Park, queues, workerVars, callerVars
<1>12. CASE Pop
  <2>1. CASE UseControl
    <3>1. rec' = Head(controls) /\ controls' = Tail(controls) /\ events' = events
      BY <1>12, <2>1 DEF Pop, UseEvent
    <3>2. rec' \in Record /\ controls' \in Seq(Record) /\ Len(controls') <= ControlCap
      BY <2>1, <3>1, HeadTailFacts DEF UseControl, TypeOK
    <3> QED
      BY <1>12, <3>1, <3>2 DEF TypeOK, Pop, WakeAll, callerVars
  <2>2. CASE ~UseControl
    <3>1. rec' = Head(events) /\ events' = Tail(events) /\ controls' = controls /\ events # <<>>
      BY <1>12, <2>2 DEF Pop, UseEvent
    <3>2. rec' \in Record /\ events' \in Seq(Record) /\ Len(events') <= EventCap
      BY <3>1, HeadTailFacts DEF TypeOK
    <3> QED
      BY <1>12, <3>1, <3>2 DEF TypeOK, Pop, WakeAll, callerVars
  <2> QED
    BY <2>1, <2>2
<1>13. CASE Handle
  BY <1>13 DEF TypeOK, Handle, queues, callerVars, Record, NoRecord
<1>14. CASE MarkProcessed
  BY <1>14 DEF TypeOK, MarkProcessed, WakeAll, queues, callerVars, Record, NoRecord
<1>15. ASSUME NEW t \in Callers \cup {Worker}, SpuriousWakeup(t) PROVE TypeOK'
  BY <1>15 DEF TypeOK, SpuriousWakeup, queues, workerVars, callerVars
<1>16. CASE UNCHANGED vars
  BY <1>16 DEF TypeOK, vars, queues, workerVars, callerVars
<1> QED
  BY <1>1, <1>2, <1>3, <1>4, <1>5, <1>6, <1>7, <1>8, <1>9, <1>10, <1>11,
     <1>12, <1>13, <1>14, <1>15, <1>16 DEF Next, CallerStep, WorkerStep

\* Every variable keeps its type: the rings never outgrow their arrays.
THEOREM TypeCorrect == Spec => []TypeOK
BY TypeInit, TypeStep, PTL DEF Spec

-----------------------------------------------------------------------------
(* The inductive invariant.  The rings are changed by three actions only;  *)
(* each gets a lemma of its own.                                           *)

Rings == RingsOrdered /\ NewestKept

LEMMA InvInit == Init => IInv
<1> SUFFICES ASSUME Init PROVE IInv
  OBVIOUS
<1>1. TypeOK
  BY TypeInit
<1>2. /\ Len(events) = 0 /\ Len(controls) = 0
      /\ rec.seq = 0 /\ seq = 0
  BY EmptyFacts DEF Init, NoRecord
<1>3. RingsOrdered /\ NewestKept
  BY <1>2 DEF RingsOrdered, NewestKept, Increasing
<1>4. WorkerProgress /\ CallersKnow /\ NoLostWakeup
  BY <1>2 DEF Init, WorkerProgress, CallersKnow, NoLostWakeup
<1>5. WorkerStarted
  BY DEF Init, WorkerStarted, OneCreator
<1> QED
  BY <1>1, <1>3, <1>4, <1>5 DEF IInv

\* The entries of a ring are records, so their seqs are numbers.
LEMMA SeqIsNat ==
    ASSUME NEW r \in Record
    PROVE  r.seq \in Nat
BY DEF Record

LEMMA EntriesOf ==
    ASSUME NEW q \in Seq(Record)
    PROVE  /\ Len(q) \in Nat
           /\ \A i \in 1..Len(q) : q[i] \in Record /\ q[i].seq \in Nat
<1>1. Len(q) \in Nat /\ \A i \in 1..Len(q) : q[i] \in Record
  OBVIOUS
<1> QED
  BY <1>1, SeqIsNat

\* RingsOrdered with the types it needs, ready for use.
LEMMA RingFacts ==
    ASSUME TypeOK, Rings
    PROVE  /\ seq \in Nat
           /\ rec.seq \in Nat
           /\ rec.seq <= seq
           /\ events \in Seq(Record)
           /\ controls \in Seq(Record)
           /\ Len(events) \in Nat
           /\ Len(controls) \in Nat
           /\ Increasing(events)
           /\ Increasing(controls)
           /\ \A i \in 1..Len(events) :
                 /\ events[i] \in Record
                 /\ events[i].kind = "EVENT"
                 /\ events[i].seq \in Nat
                 /\ rec.seq < events[i].seq
                 /\ events[i].seq <= seq
           /\ \A j \in 1..Len(controls) :
                 /\ controls[j] \in Record
                 /\ controls[j].kind \in ControlKinds
                 /\ controls[j].seq \in Nat
                 /\ rec.seq < controls[j].seq
                 /\ controls[j].seq <= seq
           /\ \A i \in 1..Len(events), j \in 1..Len(controls) :
                 events[i].seq # controls[j].seq
<1>1. /\ seq \in Nat
      /\ events \in Seq(Record)
      /\ controls \in Seq(Record)
      /\ rec \in Record \cup {NoRecord}
  BY DEF TypeOK
<1>2. rec.seq \in Nat
  BY <1>1, SeqIsNat DEF NoRecord
<1>3. /\ Len(events) \in Nat
      /\ Len(controls) \in Nat
      /\ \A i \in 1..Len(events) : events[i] \in Record /\ events[i].seq \in Nat
      /\ \A j \in 1..Len(controls) : controls[j] \in Record /\ controls[j].seq \in Nat
  BY <1>1, EntriesOf
<1>4. RingsOrdered /\ NewestKept
  BY DEF Rings
<1>5. rec.seq <= seq
  BY <1>1, <1>2, <1>3, <1>4 DEF RingsOrdered, NewestKept
<1> QED
  BY <1>1, <1>2, <1>3, <1>4, <1>5 DEF RingsOrdered

\* What a post leaves of the events is still in order, still as old, and
\* loses no event but the first.
LEMMA KeptFacts ==
    ASSUME TypeOK, Rings
    PROVE  /\ KeptEvents \in Seq(Record)
           /\ Len(KeptEvents) \in Nat
           /\ Increasing(KeptEvents)
           /\ \A i \in 1..Len(KeptEvents) :
                 \E j \in 1..Len(events) : KeptEvents[i] = events[j]
<1>1. /\ EventCap \in Nat \ {0}
      /\ events \in Seq(Record)
      /\ \A i \in 1..Len(events) : events[i] \in Record /\ events[i].seq \in Nat
      /\ Increasing(events)
  BY IngressAssumption, RingFacts
<1>2. CASE Len(events) = EventCap
  <2>1. events # <<>>
    BY <1>1, <1>2, EmptyFacts
  <2>2. KeptEvents = Tail(events)
    BY <1>2 DEF KeptEvents
  <2>3. /\ Tail(events) \in Seq(Record)
        /\ Len(events) \in Nat
        /\ Len(Tail(events)) = Len(events) - 1
        /\ Len(Tail(events)) \in Nat
        /\ \A i \in 1..Len(Tail(events)) :
               i + 1 \in 1..Len(events) /\ Tail(events)[i] = events[i + 1]
    BY <1>1, <2>1, HeadTailFacts
  <2>4. Increasing(Tail(events))
    BY <1>1, <2>3 DEF Increasing
  <2> QED
    BY <2>2, <2>3, <2>4
<1>3. CASE Len(events) # EventCap
  BY <1>1, <1>3, EmptyFacts DEF KeptEvents
<1> QED
  BY <1>2, <1>3

LEMMA RingsPostEvent ==
    ASSUME TypeOK, Rings, NEW t \in Callers, PostEvent(t)
    PROVE  Rings'
<1> DEFINE r == [kind |-> "EVENT", seq |-> seq + 1]
<1>1. /\ events' = Append(KeptEvents, r)
      /\ seq' = seq + 1
      /\ seq \in Nat
      /\ UNCHANGED <<controls, rec>>
      /\ r \in Record
      /\ r.seq = seq + 1
      /\ r.kind = "EVENT"
  BY NewRecord DEF PostEvent, workerVars, TypeOK, Kinds
<1> HIDE DEF r
<1>2. /\ KeptEvents \in Seq(Record)
      /\ Len(KeptEvents) \in Nat
      /\ Increasing(KeptEvents)
      /\ \A i \in 1..Len(KeptEvents) :
            \E j \in 1..Len(events) : KeptEvents[i] = events[j]
  BY KeptFacts
<1>3. /\ Len(events') = Len(KeptEvents) + 1
      /\ \A i \in 1..Len(KeptEvents) : events'[i] = KeptEvents[i]
      /\ events'[Len(KeptEvents) + 1] = r
  BY <1>1, <1>2, AppendFacts
<1>4. \A j \in 1..Len(events) :
         /\ events[j].kind = "EVENT"
         /\ rec.seq < events[j].seq
         /\ events[j].seq <= seq
         /\ events[j].seq \in Nat
  BY RingFacts
<1>5. rec.seq \in Nat /\ rec.seq <= seq
  BY RingFacts
<1>6. \A i \in 1..Len(KeptEvents) :
         /\ KeptEvents[i].kind = "EVENT"
         /\ rec.seq < KeptEvents[i].seq
         /\ KeptEvents[i].seq <= seq
         /\ KeptEvents[i].seq \in Nat
  BY <1>2, <1>4
<1>7. \A i \in 1..Len(events') :
         /\ events'[i].kind = "EVENT"
         /\ rec.seq < events'[i].seq
         /\ events'[i].seq <= seq'
  <2> SUFFICES ASSUME NEW i \in 1..Len(events')
               PROVE  /\ events'[i].kind = "EVENT"
                      /\ rec.seq < events'[i].seq
                      /\ events'[i].seq <= seq'
    OBVIOUS
  <2>1. CASE i = Len(KeptEvents) + 1
    BY <1>1, <1>3, <1>5, <2>1
  <2>2. CASE i \in 1..Len(KeptEvents)
    BY <1>1, <1>3, <1>6, <2>2
  <2> QED
    BY <1>2, <1>3, <2>1, <2>2
<1>8. Increasing(events')
  <2> SUFFICES ASSUME NEW i \in 1..Len(events'), NEW j \in 1..Len(events'), i < j
               PROVE  events'[i].seq < events'[j].seq
    BY DEF Increasing
  <2>1. i \in 1..Len(KeptEvents) /\ events'[i] = KeptEvents[i]
    BY <1>2, <1>3
  <2>2. CASE j = Len(KeptEvents) + 1
    BY <1>1, <1>3, <1>6, <2>1, <2>2
  <2>3. CASE j \in 1..Len(KeptEvents)
    BY <1>2, <1>3, <2>1, <2>3 DEF Increasing
  <2> QED
    BY <1>2, <1>3, <2>2, <2>3
<1>9. /\ Increasing(controls)
      /\ \A j \in 1..Len(controls) :
            /\ controls[j].kind \in ControlKinds
            /\ rec.seq < controls[j].seq
            /\ controls[j].seq <= seq
            /\ controls[j].seq \in Nat
      /\ \A i \in 1..Len(events), j \in 1..Len(controls) :
            events[i].seq # controls[j].seq
  BY RingFacts
<1>10. \A i \in 1..Len(events'), j \in 1..Len(controls) :
          events'[i].seq # controls[j].seq
  <2> SUFFICES ASSUME NEW i \in 1..Len(events'), NEW j \in 1..Len(controls)
               PROVE  events'[i].seq # controls[j].seq
    OBVIOUS
  <2>1. CASE i = Len(KeptEvents) + 1
    BY <1>1, <1>3, <1>9, <2>1
  <2>2. CASE i \in 1..Len(KeptEvents)
    <3>1. PICK k \in 1..Len(events) : KeptEvents[i] = events[k]
      BY <1>2, <2>2
    <3> QED
      BY <1>3, <1>9, <2>2, <3>1
  <2> QED
    BY <1>2, <1>3, <2>1, <2>2
<1>11. RingsOrdered'
  BY <1>1, <1>7, <1>8, <1>9, <1>10 DEF RingsOrdered
<1>12. NewestKept'
  <2>1. Len(KeptEvents) + 1 \in 1..Len(events')
    BY <1>2, <1>3
  <2> QED
    BY <1>1, <1>3, <2>1 DEF NewestKept
<1> QED
  BY <1>11, <1>12 DEF Rings

LEMMA RingsPostCommand ==
    ASSUME TypeOK, Rings, NEW t \in Callers, NEW c \in Commands,
           PostCommand(t, c[1], c[2])
    PROVE  Rings'
<1> DEFINE r == [kind |-> c[1], seq |-> seq + 1]
<1>1. /\ controls' = Append(controls, r)
      /\ seq' = seq + 1
      /\ seq \in Nat
      /\ controls \in Seq(Record)
      /\ Len(controls) \in Nat
      /\ UNCHANGED <<events, rec>>
      /\ r \in Record
      /\ r.seq = seq + 1
      /\ r.kind \in ControlKinds
  BY NewRecord, CommandKind, EmptyFacts DEF PostCommand, workerVars, TypeOK, Kinds
<1> HIDE DEF r
<1>2. /\ Len(controls') = Len(controls) + 1
      /\ \A i \in 1..Len(controls) : controls'[i] = controls[i]
      /\ controls'[Len(controls) + 1] = r
  BY <1>1, AppendFacts
<1>3. /\ Increasing(events)
      /\ Increasing(controls)
      /\ \A j \in 1..Len(controls) :
            /\ controls[j].kind \in ControlKinds
            /\ rec.seq < controls[j].seq
            /\ controls[j].seq <= seq
            /\ controls[j].seq \in Nat
      /\ \A i \in 1..Len(events) :
            /\ events[i].kind = "EVENT"
            /\ rec.seq < events[i].seq
            /\ events[i].seq <= seq
            /\ events[i].seq \in Nat
      /\ \A i \in 1..Len(events), j \in 1..Len(controls) :
            events[i].seq # controls[j].seq
  BY RingFacts
<1>4. rec.seq \in Nat /\ rec.seq <= seq
  BY RingFacts
<1>5. \A j \in 1..Len(controls') :
         /\ controls'[j].kind \in ControlKinds
         /\ rec.seq < controls'[j].seq
         /\ controls'[j].seq <= seq'
  BY <1>1, <1>2, <1>3, <1>4
<1>6. Increasing(controls')
  <2> SUFFICES ASSUME NEW i \in 1..Len(controls'), NEW j \in 1..Len(controls'), i < j
               PROVE  controls'[i].seq < controls'[j].seq
    BY DEF Increasing
  <2>1. i \in 1..Len(controls) /\ controls'[i] = controls[i]
    BY <1>1, <1>2
  <2>2. CASE j = Len(controls) + 1
    BY <1>1, <1>2, <1>3, <2>1, <2>2
  <2>3. CASE j \in 1..Len(controls)
    BY <1>1, <1>2, <1>3, <2>1, <2>3 DEF Increasing
  <2> QED
    BY <1>1, <1>2, <2>2, <2>3
<1>7. \A i \in 1..Len(events), j \in 1..Len(controls') :
         events[i].seq # controls'[j].seq
  <2> SUFFICES ASSUME NEW i \in 1..Len(events), NEW j \in 1..Len(controls')
               PROVE  events[i].seq # controls'[j].seq
    OBVIOUS
  <2>1. CASE j = Len(controls) + 1
    BY <1>1, <1>2, <1>3, <2>1
  <2>2. CASE j \in 1..Len(controls)
    BY <1>2, <1>3, <2>2
  <2> QED
    BY <1>1, <1>2, <2>1, <2>2
<1>8. RingsOrdered'
  BY <1>1, <1>3, <1>5, <1>6, <1>7 DEF RingsOrdered
<1>9. NewestKept'
  <2>1. Len(controls) + 1 \in 1..Len(controls')
    BY <1>1, <1>2
  <2> QED
    BY <1>1, <1>2, <2>1 DEF NewestKept
<1> QED
  BY <1>8, <1>9 DEF Rings

\* A pop takes the record with the smallest seq: it is newer than the last
\* one, at most as new as the newest, and older than all that stays.
LEMMA PopFacts ==
    ASSUME TypeOK, Rings, Pop
    PROVE  /\ rec.seq < rec'.seq
           /\ rec' \in Record
           /\ rec'.seq <= seq
           /\ \A i \in 1..Len(events') : rec'.seq < events'[i].seq
           /\ \A i \in 1..Len(controls') : rec'.seq < controls'[i].seq
           /\ Rings'
<1>1. seq' = seq
  BY DEF Pop
<1>2. CASE UseControl
  <2>1. /\ rec' = Head(controls)
        /\ controls' = Tail(controls)
        /\ events' = events
        /\ controls # <<>>
        /\ events # <<>> => Head(controls).seq < Head(events).seq
    BY <1>2 DEF Pop, UseControl, UseEvent
  <2>2. /\ Len(controls) \in Nat \ {0}
        /\ Head(controls) = controls[1]
        /\ Len(Tail(controls)) = Len(controls) - 1
        /\ \A i \in 1..Len(Tail(controls)) :
              i + 1 \in 1..Len(controls) /\ Tail(controls)[i] = controls[i + 1]
    BY <2>1, RingFacts, HeadTailFacts
  <2>3. \A i \in 1..Len(controls') :
           /\ controls'[i] \in Record
           /\ controls'[i].kind \in ControlKinds
           /\ controls'[i].seq \in Nat
           /\ rec'.seq < controls'[i].seq
           /\ controls'[i].seq <= seq
    <3> SUFFICES ASSUME NEW i \in 1..Len(controls')
                 PROVE  /\ controls'[i] \in Record
                        /\ controls'[i].kind \in ControlKinds
                        /\ controls'[i].seq \in Nat
                        /\ rec'.seq < controls'[i].seq
                        /\ controls'[i].seq <= seq
      OBVIOUS
    <3>1. i + 1 \in 1..Len(controls) /\ controls'[i] = controls[i + 1]
      BY <2>1, <2>2
    <3>2. 1 \in 1..Len(controls) /\ 1 < i + 1
      BY <2>2
    <3> QED
      BY <2>1, <2>2, <3>1, <3>2, RingFacts DEF Increasing
  <2>4. \A i \in 1..Len(events) : rec'.seq < events[i].seq
    <3> SUFFICES ASSUME NEW i \in 1..Len(events)
                 PROVE  rec'.seq < events[i].seq
      OBVIOUS
    <3>1. events # <<>> /\ 1 \in 1..Len(events)
      BY RingFacts, EmptyFacts
    <3>2. Head(events) = events[1] /\ rec'.seq < events[1].seq
      BY <2>1, <3>1, RingFacts, HeadTailFacts
    <3>3. rec'.seq \in Nat
      BY <2>1, <2>2, RingFacts
    <3>4. Increasing(events) /\ events[1].seq \in Nat /\ events[i].seq \in Nat
      BY <3>1, RingFacts
    <3>5. i = 1 \/ 1 < i
      OBVIOUS
    <3>6. i = 1 \/ events[1].seq < events[i].seq
      BY <3>1, <3>4, <3>5 DEF Increasing
    <3> QED
      BY <3>2, <3>3, <3>4, <3>6
  <2>5. Increasing(controls')
    <3> SUFFICES ASSUME NEW i \in 1..Len(controls'), NEW j \in 1..Len(controls'), i < j
                 PROVE  controls'[i].seq < controls'[j].seq
      BY DEF Increasing
    <3>1. /\ i + 1 \in 1..Len(controls) /\ controls'[i] = controls[i + 1]
          /\ j + 1 \in 1..Len(controls) /\ controls'[j] = controls[j + 1]
          /\ i + 1 < j + 1
      BY <2>1, <2>2
    <3> QED
      BY <3>1, RingFacts DEF Increasing
  <2>6. RingsOrdered'
    <3>1. \A i \in 1..Len(events), j \in 1..Len(controls') :
             events[i].seq # controls'[j].seq
      BY <2>1, <2>2, RingFacts
    <3> QED
      BY <1>1, <2>1, <2>3, <2>4, <2>5, <3>1, RingFacts DEF RingsOrdered
  <2>7. NewestKept'
    <3>1. CASE \E j \in 1..Len(controls) : controls[j].seq = seq
      <4>1. PICK j \in 1..Len(controls) : controls[j].seq = seq
        BY <3>1
      <4>2. CASE j = 1
        BY <1>1, <2>1, <2>2, <4>1, <4>2 DEF NewestKept
      <4>3. CASE j # 1
        <5>1. j - 1 \in 1..Len(controls') /\ controls'[j - 1] = controls[j]
          BY <2>1, <2>2, <4>3
        <5> QED
          BY <1>1, <4>1, <5>1 DEF NewestKept
      <4> QED
        BY <4>2, <4>3
    <3>2. CASE \E i \in 1..Len(events) : events[i].seq = seq
      BY <1>1, <2>1, <3>2 DEF NewestKept
    <3>3. rec.seq # seq
      BY <2>2, RingFacts
    <3> QED
      BY <3>1, <3>2, <3>3 DEF Rings, NewestKept
  <2>8. rec' \in Record /\ rec.seq < rec'.seq /\ rec'.seq <= seq
    BY <2>1, <2>2, RingFacts
  <2> QED
    BY <2>1, <2>3, <2>4, <2>6, <2>7, <2>8 DEF Rings
<1>3. CASE ~UseControl
  <2>1. /\ rec' = Head(events)
        /\ events' = Tail(events)
        /\ controls' = controls
        /\ events # <<>>
        /\ controls # <<>> => ~(Head(controls).seq < Head(events).seq)
    BY <1>3 DEF Pop, UseControl, UseEvent
  <2>2. /\ Len(events) \in Nat \ {0}
        /\ Head(events) = events[1]
        /\ Len(Tail(events)) = Len(events) - 1
        /\ \A i \in 1..Len(Tail(events)) :
              i + 1 \in 1..Len(events) /\ Tail(events)[i] = events[i + 1]
    BY <2>1, RingFacts, HeadTailFacts
  <2>3. \A i \in 1..Len(events') :
           /\ events'[i] \in Record
           /\ events'[i].kind = "EVENT"
           /\ events'[i].seq \in Nat
           /\ rec'.seq < events'[i].seq
           /\ events'[i].seq <= seq
    <3> SUFFICES ASSUME NEW i \in 1..Len(events')
                 PROVE  /\ events'[i] \in Record
                        /\ events'[i].kind = "EVENT"
                        /\ events'[i].seq \in Nat
                        /\ rec'.seq < events'[i].seq
                        /\ events'[i].seq <= seq
      OBVIOUS
    <3>1. i + 1 \in 1..Len(events) /\ events'[i] = events[i + 1]
      BY <2>1, <2>2
    <3>2. 1 \in 1..Len(events) /\ 1 < i + 1
      BY <2>2
    <3> QED
      BY <2>1, <2>2, <3>1, <3>2, RingFacts DEF Increasing
  <2>4. \A i \in 1..Len(controls) : rec'.seq < controls[i].seq
    <3> SUFFICES ASSUME NEW i \in 1..Len(controls)
                 PROVE  rec'.seq < controls[i].seq
      BY <2>2
    <3>1. controls # <<>> /\ 1 \in 1..Len(controls) /\ 1 \in 1..Len(events)
      BY <2>2, RingFacts, EmptyFacts
    <3>2. Head(controls) = controls[1] /\ ~(controls[1].seq < events[1].seq)
      BY <2>1, <2>2, <3>1, RingFacts, HeadTailFacts
    <3>3. events[1].seq < controls[1].seq /\ rec'.seq = events[1].seq
      BY <2>1, <2>2, <3>1, <3>2, RingFacts
    <3> QED
      BY <3>1, <3>3, RingFacts DEF Increasing
  <2>5. Increasing(events')
    <3> SUFFICES ASSUME NEW i \in 1..Len(events'), NEW j \in 1..Len(events'), i < j
                 PROVE  events'[i].seq < events'[j].seq
      BY DEF Increasing
    <3>1. /\ i + 1 \in 1..Len(events) /\ events'[i] = events[i + 1]
          /\ j + 1 \in 1..Len(events) /\ events'[j] = events[j + 1]
          /\ i + 1 < j + 1
      BY <2>1, <2>2
    <3> QED
      BY <3>1, RingFacts DEF Increasing
  <2>6. RingsOrdered'
    <3>1. \A i \in 1..Len(events'), j \in 1..Len(controls) :
             events'[i].seq # controls[j].seq
      BY <2>1, <2>2, RingFacts
    <3> QED
      BY <1>1, <2>1, <2>3, <2>4, <2>5, <3>1, RingFacts DEF RingsOrdered
  <2>7. NewestKept'
    <3>1. CASE \E j \in 1..Len(events) : events[j].seq = seq
      <4>1. PICK j \in 1..Len(events) : events[j].seq = seq
        BY <3>1
      <4>2. CASE j = 1
        BY <1>1, <2>1, <2>2, <4>1, <4>2 DEF NewestKept
      <4>3. CASE j # 1
        <5>1. j - 1 \in 1..Len(events') /\ events'[j - 1] = events[j]
          BY <2>1, <2>2, <4>3
        <5> QED
          BY <1>1, <4>1, <5>1 DEF NewestKept
      <4> QED
        BY <4>2, <4>3
    <3>2. CASE \E i \in 1..Len(controls) : controls[i].seq = seq
      BY <1>1, <2>1, <3>2 DEF NewestKept
    <3>3. rec.seq # seq
      BY <2>2, RingFacts
    <3> QED
      BY <3>1, <3>2, <3>3 DEF Rings, NewestKept
  <2>8. rec' \in Record /\ rec.seq < rec'.seq /\ rec'.seq <= seq
    BY <2>1, <2>2, RingFacts
  <2> QED
    BY <2>1, <2>3, <2>4, <2>6, <2>7, <2>8 DEF Rings
<1> QED
  BY <1>2, <1>3

LEMMA RingsUnchanged ==
    ASSUME Rings, UNCHANGED <<queues, rec>>
    PROVE  Rings'
BY DEF Rings, RingsOrdered, NewestKept, Increasing, queues

\* The parts of the invariant that are about threads rather than rings.
Threads == WorkerProgress /\ CallersKnow /\ WorkerStarted /\ NoLostWakeup

\* While the worker sleeps a signal has nobody else to go to: after a post no
\* sleeper is left, and otherwise the worker was not asleep to begin with.
LEMMA SignalFindsWorker ==
    ASSUME Threads, NEW w \in Woken(waiting)
    PROVE  /\ Worker \notin w
           /\ w \subseteq waiting
<1>1. CASE Worker \in waiting
  BY <1>1, WokenFacts DEF Threads, NoLostWakeup
<1>2. CASE Worker \notin waiting
  BY <1>2, WokenFacts
<1> QED
  BY <1>1, <1>2

LEMMA ThreadsPostEvent ==
    ASSUME TypeOK, Threads, NEW t \in Callers, PostEvent(t)
    PROVE  Threads'
<1>1. /\ Worker \notin waiting'
      /\ waiting' \subseteq waiting
      /\ pc[t] = "post"
      /\ answer[t] = "none"
      /\ t \notin waiting
  BY SignalFindsWorker DEF PostEvent, Threads, CallersKnow, Sleeping
<1>2. /\ seq \in Nat
      /\ seq' = seq + 1
      /\ mySeq \in [Callers -> Nat]
      /\ mySeq' = [mySeq EXCEPT ![t] = seq + 1]
      /\ pc \in [Callers -> {"idle", "create", "post", "seal", "sealWait", "ackWait"}]
      /\ pc' = [pc EXCEPT ![t] = "seal"]
      /\ UNCHANGED <<processed, started, worker, rec, applied, answer>>
  BY DEF PostEvent, TypeOK, workerVars
<1>3. WorkerProgress'
  BY <1>1, <1>2 DEF Threads, WorkerProgress
<1>4. CallersKnow'
  BY <1>1, <1>2 DEF Threads, CallersKnow, Sleeping
<1>5. WorkerStarted'
  BY <1>1, <1>2 DEF Threads, WorkerStarted, OneCreator
<1>6. NoLostWakeup'
  BY <1>1 DEF NoLostWakeup
<1> QED
  BY <1>3, <1>4, <1>5, <1>6 DEF Threads

LEMMA ThreadsPostCommand ==
    ASSUME TypeOK, Rings, Threads, NEW t \in Callers, NEW c \in Commands,
           PostCommand(t, c[1], c[2])
    PROVE  Threads'
<1>1. PICK awake \in Woken(waiting) :
         waiting' = IF c[2] THEN awake \cup {t} ELSE awake
  BY DEF PostCommand
<1>2. /\ Worker \notin awake
      /\ awake \subseteq waiting
  BY SignalFindsWorker
<1>3. Worker \notin waiting' /\ waiting' \subseteq waiting \cup {t}
  BY <1>1, <1>2, IngressAssumption
<1>4. /\ seq \in Nat
      /\ processed \in Nat
      /\ seq' = seq + 1
      /\ mySeq \in [Callers -> Nat]
      /\ mySeq' = [mySeq EXCEPT ![t] = seq + 1]
      /\ pc \in [Callers -> {"idle", "create", "post", "seal", "sealWait", "ackWait"}]
      /\ pc[t] = "post"
      /\ UNCHANGED <<processed, started, worker, rec, applied>>
  BY DEF PostCommand, TypeOK, workerVars
<1>5. processed <= seq
  BY RingFacts, <1>4 DEF Threads, WorkerProgress, TypeOK
<1>6. answer[t] = "none" /\ t \notin waiting
  BY <1>4 DEF Threads, CallersKnow, Sleeping
<1>7. \/ /\ t \in waiting'
         /\ pc' = [pc EXCEPT ![t] = "ackWait"]
         /\ answer' = answer
      \/ /\ t \notin waiting'
         /\ pc' = [pc EXCEPT ![t] = "idle"]
         /\ answer' = [answer EXCEPT ![t] = "posted"]
  BY <1>1, <1>2, <1>6 DEF PostCommand, Return
<1>8. WorkerProgress'
  BY <1>3, <1>4 DEF Threads, WorkerProgress
<1>9. CallersKnow'
  <2> SUFFICES ASSUME NEW u \in Callers
               PROVE  (/\ mySeq[u] <= seq
                       /\ u \in waiting => Sleeping(u) /\ processed < mySeq[u]
                       /\ answer[u] = "done" => pc[u] = "idle" /\ mySeq[u] <= processed
                       /\ pc[u] # "idle" => answer[u] = "none")'
    BY DEF CallersKnow
  <2>1. CASE u = t
    BY <1>4, <1>5, <1>6, <1>7, <2>1 DEF Sleeping, TypeOK
  <2>2. CASE u # t
    <3>1. /\ pc'[u] = pc[u]
          /\ mySeq'[u] = mySeq[u]
          /\ answer'[u] = answer[u]
          /\ u \in waiting' => u \in waiting
          /\ mySeq[u] \in Nat
      BY <1>3, <1>4, <1>7, <2>2 DEF TypeOK
    <3> QED
      BY <1>4, <3>1 DEF Threads, CallersKnow, Sleeping
  <2> QED
    BY <2>1, <2>2
<1>10. WorkerStarted'
  BY <1>4, <1>7 DEF Threads, WorkerStarted, OneCreator
<1>11. NoLostWakeup'
  BY <1>3 DEF NoLostWakeup
<1> QED
  BY <1>8, <1>9, <1>10, <1>11 DEF Threads

\* The steps of a caller that neither post nor touch the rings.
LEMMA ThreadsCaller ==
    ASSUME TypeOK, Threads, NEW t \in Callers,
           \/ EnsureStarted(t) \/ CreateWorker(t) \/ CreateFails(t)
           \/ ReturnUnposted(t) \/ Seal(t) \/ RejectCommand(t)
           \/ Recheck(t) \/ TimeOut(t),
           rec.seq \in Nat
    PROVE  Threads'
<1> USE DEF Threads
<1>1. CASE EnsureStarted(t)
  <2>1. WorkerProgress' /\ CallersKnow' /\ NoLostWakeup'
    BY <1>1 DEF EnsureStarted, TypeOK, WorkerProgress, CallersKnow, Sleeping,
                NoLostWakeup, queues, workerVars
  <2>2. WorkerStarted'
    BY <1>1 DEF EnsureStarted, TypeOK, WorkerStarted, OneCreator, workerVars
  <2> QED
    BY <2>1, <2>2
<1>2. CASE CreateWorker(t)
  <2>1. worker = "absent"
    BY <1>2 DEF CreateWorker, WorkerStarted, OneCreator
  <2>2. WorkerProgress' /\ CallersKnow' /\ NoLostWakeup'
    BY <1>2, <2>1 DEF CreateWorker, TypeOK, WorkerProgress, CallersKnow,
                      Sleeping, NoLostWakeup, queues
  <2>3. WorkerStarted'
    BY <1>2, <2>1 DEF CreateWorker, TypeOK, WorkerStarted, OneCreator
  <2> QED
    BY <2>2, <2>3
<1>3. CASE CreateFails(t)
  <2>1. worker = "absent"
    BY <1>3 DEF CreateFails, WorkerStarted, OneCreator
  <2>2. WorkerProgress' /\ CallersKnow' /\ NoLostWakeup'
    BY <1>3 DEF CreateFails, TypeOK, WorkerProgress, CallersKnow,
                Sleeping, NoLostWakeup, queues, workerVars
  <2>3. WorkerStarted'
    BY <1>3, <2>1 DEF CreateFails, TypeOK, WorkerStarted, OneCreator, workerVars
  <2> QED
    BY <2>2, <2>3
<1>4. CASE ReturnUnposted(t)
  BY <1>4 DEF ReturnUnposted, Return, TypeOK, WorkerProgress, CallersKnow,
              Sleeping, NoLostWakeup, WorkerStarted, OneCreator, queues, workerVars
<1>5. CASE Seal(t)
  <2>1. UNCHANGED <<queues, processed, started, workerVars, mySeq>>
    BY <1>5 DEF Seal
  <2>2. pc[t] = "seal" /\ t \notin waiting /\ Worker # t
    BY <1>5, IngressAssumption DEF Seal, CallersKnow, Sleeping
  <2>3. CASE /\ pc' = [pc EXCEPT ![t] = "sealWait"]
             /\ waiting' = waiting \cup {t}
             /\ processed < mySeq[t]
             /\ answer' = answer
    <3>1. Worker \notin waiting
      BY <2>3 DEF NoLostWakeup, CallersKnow, TypeOK
    <3> QED
      BY <2>1, <2>2, <2>3, <3>1 DEF TypeOK, WorkerProgress, CallersKnow,
         Sleeping, NoLostWakeup, WorkerStarted, OneCreator, queues, workerVars
  <2>4. CASE \/ Return(t, "unsealed") /\ UNCHANGED waiting
             \/ Return(t, "done") /\ UNCHANGED waiting /\ processed >= mySeq[t]
    BY <2>1, <2>2, <2>4 DEF Return, TypeOK, WorkerProgress, CallersKnow,
       Sleeping, NoLostWakeup, WorkerStarted, OneCreator, queues, workerVars
  <2> QED
    BY <1>5, <2>3, <2>4 DEF Seal
<1>6. CASE RejectCommand(t)
  BY <1>6 DEF RejectCommand, Return, TypeOK, WorkerProgress, CallersKnow,
              Sleeping, NoLostWakeup, WorkerStarted, OneCreator, queues, workerVars
<1>7. CASE Recheck(t)
  <2>1. UNCHANGED <<queues, processed, started, workerVars, mySeq>>
    BY <1>7 DEF Recheck
  <2>2. Sleeping(t) /\ t \notin waiting /\ Worker # t
    BY <1>7, IngressAssumption DEF Recheck
  <2>3. CASE /\ processed < mySeq[t]
             /\ waiting' = waiting \cup {t}
             /\ UNCHANGED <<pc, answer>>
    <3>1. Worker \notin waiting
      BY <2>3 DEF NoLostWakeup, CallersKnow, TypeOK
    <3> QED
      BY <2>1, <2>2, <2>3, <3>1 DEF TypeOK, WorkerProgress, CallersKnow,
         Sleeping, NoLostWakeup, WorkerStarted, OneCreator, queues, workerVars
  <2>4. CASE Return(t, "done") /\ UNCHANGED waiting /\ processed >= mySeq[t]
    BY <2>1, <2>2, <2>4 DEF Return, TypeOK, WorkerProgress, CallersKnow,
       Sleeping, NoLostWakeup, WorkerStarted, OneCreator, queues, workerVars
  <2> QED
    BY <1>7, <2>3, <2>4 DEF Recheck
<1>8. CASE TimeOut(t)
  <2>1. Worker \notin waiting
    BY <1>8, IngressAssumption DEF TimeOut, NoLostWakeup
  <2> QED
    BY <1>8, <2>1 DEF TimeOut, Return, TypeOK, WorkerProgress, CallersKnow,
       Sleeping, NoLostWakeup, WorkerStarted, OneCreator, queues, workerVars
<1> QED
  BY <1>1, <1>2, <1>3, <1>4, <1>5, <1>6, <1>7, <1>8

\* The steps of the worker.
LEMMA ThreadsWorker ==
    ASSUME TypeOK, Rings, Threads, WorkerStep
    PROVE  Threads'
<1>1. rec.seq \in Nat /\ rec.seq <= seq /\ seq \in Nat
  BY RingFacts
<1>2. CASE Park
  <2>1. /\ worker = "pop"
        /\ events = <<>>
        /\ controls = <<>>
        /\ waiting' = waiting \cup {Worker}
        /\ UNCHANGED <<queues, processed, started, workerVars, callerVars>>
    BY <1>2 DEF Park
  <2>2. rec.seq = seq
    <3>1. Len(events) = 0 /\ Len(controls) = 0
      BY <2>1, RingFacts, EmptyFacts
    <3> QED
      BY <3>1 DEF Rings, NewestKept
  <2>3. processed = seq
    BY <2>1, <2>2 DEF Threads, WorkerProgress
  <2>4. \A t \in Callers : t \notin waiting
    BY <1>1, <2>3 DEF Threads, CallersKnow, TypeOK
  <2>5. waiting' = {Worker}
    BY <2>1, <2>4 DEF TypeOK
  <2> QED
    BY <2>1, <2>3, <2>5, IngressAssumption DEF Threads, WorkerProgress,
       CallersKnow, Sleeping, WorkerStarted, OneCreator, NoLostWakeup,
       queues, workerVars, callerVars
<1>3. CASE Pop
  <2>1. rec.seq < rec'.seq
    BY <1>3, PopFacts
  <2>2. /\ worker = "pop" /\ worker' = "handle"
        /\ waiting' = {}
        /\ UNCHANGED <<seq, processed, started, applied, callerVars>>
    BY <1>3 DEF Pop, WakeAll
  <2>3. rec.seq = processed /\ applied = processed
    BY <2>2 DEF Threads, WorkerProgress
  <2> QED
    BY <2>1, <2>2, <2>3 DEF Threads, WorkerProgress, CallersKnow, Sleeping,
       WorkerStarted, OneCreator, NoLostWakeup, callerVars
<1>4. CASE Handle
  BY <1>4 DEF Handle, Threads, WorkerProgress, CallersKnow, Sleeping,
     WorkerStarted, OneCreator, NoLostWakeup, queues, callerVars
<1>5. CASE MarkProcessed
  <2>1. /\ processed' = rec.seq /\ processed < rec.seq
        /\ waiting' = {}
        /\ worker' = "pop" /\ worker = "mark"
        /\ UNCHANGED <<queues, started, rec, applied, callerVars>>
    BY <1>5 DEF MarkProcessed, WakeAll, Threads, WorkerProgress
  <2> QED
    BY <1>1, <2>1 DEF Threads, WorkerProgress, CallersKnow, Sleeping, TypeOK,
       WorkerStarted, OneCreator, NoLostWakeup, queues, callerVars
<1> QED
  BY <1>2, <1>3, <1>4, <1>5 DEF WorkerStep

LEMMA ThreadsSpurious ==
    ASSUME Threads, NEW t \in Callers \cup {Worker}, SpuriousWakeup(t)
    PROVE  Threads'
BY DEF SpuriousWakeup, Threads, WorkerProgress, CallersKnow, Sleeping,
   WorkerStarted, OneCreator, NoLostWakeup, queues, workerVars, callerVars

LEMMA InvStep == IInv /\ [Next]_vars => IInv'
<1> SUFFICES ASSUME IInv, [Next]_vars PROVE IInv'
  OBVIOUS
<1>1. TypeOK /\ Rings /\ Threads
  BY DEF IInv, Rings, Threads
<1>2. TypeOK'
  BY <1>1, TypeStep
<1>3. rec.seq \in Nat
  BY <1>1, RingFacts
<1>4. SUFFICES Rings' /\ Threads'
  BY <1>2 DEF IInv, Rings, Threads
<1>5. ASSUME NEW t \in Callers, CallerStep(t) PROVE Rings' /\ Threads'
  <2>1. CASE PostEvent(t)
    BY <1>1, <2>1, RingsPostEvent, ThreadsPostEvent
  <2>2. ASSUME NEW c \in Commands, PostCommand(t, c[1], c[2])
        PROVE  Rings' /\ Threads'
    BY <1>1, <2>2, RingsPostCommand, ThreadsPostCommand
  <2>3. CASE \/ EnsureStarted(t) \/ CreateWorker(t) \/ CreateFails(t)
             \/ ReturnUnposted(t) \/ Seal(t) \/ RejectCommand(t)
             \/ Recheck(t) \/ TimeOut(t)
    <3>1. UNCHANGED <<queues, rec>>
      BY <2>3 DEF EnsureStarted, CreateWorker, CreateFails, ReturnUnposted,
                  Seal, RejectCommand, Recheck, TimeOut, workerVars
    <3> QED
      BY <1>1, <1>3, <2>3, <3>1, RingsUnchanged, ThreadsCaller
  <2> QED
    BY <1>5, <2>1, <2>2, <2>3 DEF CallerStep
<1>6. CASE WorkerStep
  <2>1. CASE Pop
    BY <1>1, <1>6, <2>1, PopFacts, ThreadsWorker
  <2>2. CASE Park \/ Handle \/ MarkProcessed
    <3>1. UNCHANGED <<queues, rec>>
      BY <2>2 DEF Park, Handle, MarkProcessed, workerVars
    <3> QED
      BY <1>1, <1>6, <3>1, RingsUnchanged, ThreadsWorker
  <2> QED
    BY <1>6, <2>1, <2>2 DEF WorkerStep
<1>7. ASSUME NEW t \in Callers \cup {Worker}, SpuriousWakeup(t) PROVE Rings' /\ Threads'
  <2>1. UNCHANGED <<queues, rec>>
    BY <1>7 DEF SpuriousWakeup, workerVars
  <2> QED
    BY <1>1, <1>7, <2>1, RingsUnchanged, ThreadsSpurious
<1>8. CASE UNCHANGED vars
  <2>1. UNCHANGED <<queues, rec>>
    BY <1>8 DEF vars, workerVars
  <2>2. Threads'
    BY <1>1, <1>8 DEF vars, Threads, WorkerProgress, CallersKnow, Sleeping,
       WorkerStarted, OneCreator, NoLostWakeup, queues, workerVars, callerVars
  <2> QED
    BY <1>1, <2>1, <2>2, RingsUnchanged
<1> QED
  BY <1>5, <1>6, <1>7, <1>8 DEF Next

\* The invariant holds in every reachable state.
THEOREM InvariantHolds == Spec => []IInv
BY InvInit, InvStep, PTL DEF Spec

-----------------------------------------------------------------------------
(* What follows from it.                                                   *)

\* pthread_cond_signal on the shared condition variable loses no wakeup: a
\* sleeping worker means empty rings and no other sleeper.
THEOREM WakeupsAreNotLost == Spec => []NoLostWakeup
<1>1. IInv => NoLostWakeup
  BY DEF IInv
<1> QED
  BY <1>1, InvariantHolds, PTL

\* Nobody sleeps on in ingress_wait_processed or ingress_post_command once
\* the worker has passed its record.
THEOREM SleepersWait == Spec => []SleepersAreUnanswered
<1>1. IInv => SleepersAreUnanswered
  BY DEF IInv, CallersKnow, SleepersAreUnanswered
<1> QED
  BY <1>1, InvariantHolds, PTL

\* A seal or ack that returns 1 is true: the record and all older ones have
\* been applied or evicted.
THEOREM AcksAreTrue == Spec => []AckMeansApplied
<1>1. IInv => AckMeansApplied
  <2> SUFFICES ASSUME IInv, NEW t \in Callers, answer[t] = "done"
               PROVE  /\ applied >= mySeq[t]
                      /\ \A r \in Pending : r.seq > mySeq[t]
    BY DEF AckMeansApplied
  <2>1. TypeOK /\ Rings /\ WorkerProgress /\ CallersKnow
    BY DEF IInv, Rings
  <2>2. mySeq[t] <= processed /\ mySeq[t] \in Nat /\ processed \in Nat /\ applied \in Nat
    BY <2>1 DEF CallersKnow, TypeOK
  <2>3. rec.seq \in Nat /\ processed <= rec.seq /\ processed <= applied
    BY <2>1, <2>2, RingFacts DEF WorkerProgress, TypeOK
  <2>4. \A r \in Pending : r.seq \in Nat /\ rec.seq < r.seq
    BY <2>1, RingFacts DEF Pending, Elems
  <2> QED
    BY <2>2, <2>3, <2>4
<1> QED
  BY <1>1, InvariantHolds, PTL

\* At most one thread is ever creating the worker, and never a second one.
THEOREM WorkerIsCreatedOnce == Spec => []OneCreator
<1>1. IInv => OneCreator
  BY DEF IInv, WorkerStarted
<1> QED
  BY <1>1, InvariantHolds, PTL

\* The worker consumes events and commands in the order of their global seq.
THEOREM SeqOrder == Spec => PopsInSeqOrder
<1>1. IInv /\ [Next]_vars =>
        [rec' # rec => /\ rec'.seq > rec.seq
                       /\ \A r \in Pending' : r.seq > rec'.seq]_vars
  <2> SUFFICES ASSUME IInv, [Next]_vars, rec' # rec
               PROVE  /\ rec'.seq > rec.seq
                      /\ \A r \in Pending' : r.seq > rec'.seq
    OBVIOUS
  <2>1. Pop
    BY DEF Next, CallerStep, WorkerStep, EnsureStarted, CreateWorker, CreateFails,
       ReturnUnposted, PostEvent, Seal, PostCommand, RejectCommand, Recheck, TimeOut,
       Park, Handle, MarkProcessed, SpuriousWakeup, vars, workerVars
  <2>2. TypeOK /\ Rings /\ TypeOK'
    BY TypeStep DEF IInv, Rings
  <2>3. /\ rec.seq < rec'.seq
        /\ \A i \in 1..Len(events') : rec'.seq < events'[i].seq
        /\ \A i \in 1..Len(controls') : rec'.seq < controls'[i].seq
    BY <2>1, <2>2, PopFacts
  <2>4. rec.seq \in Nat /\ rec'.seq \in Nat
    BY <2>1, <2>2, PopFacts, RingFacts, SeqIsNat
  <2>5. \A r \in Pending' : rec'.seq < r.seq
    BY <2>3 DEF Pending, Elems
  <2>6. /\ \A i \in 1..Len(events') : events'[i].seq \in Nat
        /\ \A i \in 1..Len(controls') : controls'[i].seq \in Nat
    BY <2>2, EntriesOf DEF TypeOK
  <2>7. \A r \in Pending' : r.seq \in Nat
    BY <2>6 DEF Pending, Elems
  <2> QED
    BY <2>3, <2>4, <2>5, <2>7
<1> QED
  BY <1>1, InvariantHolds, PTL DEF Spec, PopsInSeqOrder

-----------------------------------------------------------------------------
(* Ingress implements MergedChannel: to the rest of the program the two    *)
(* rings, the lock, the condition variable and the threads are one channel *)
(* in seq order that loses at most its oldest events.                      *)

\* The records of a ring after a push.
LEMMA ElemsAppend ==
    ASSUME NEW q \in Seq(Record), NEW r \in Record
    PROVE  Elems(Append(q, r)) = Elems(q) \cup {r}
<1>1. /\ Len(q) \in Nat
      /\ Len(Append(q, r)) = Len(q) + 1
      /\ \A i \in 1..Len(q) : Append(q, r)[i] = q[i]
      /\ Append(q, r)[Len(q) + 1] = r
  BY AppendFacts, EmptyFacts
<1> QED
  BY <1>1 DEF Elems

\* The records of an ordered ring after its first one is gone.
LEMMA ElemsTail ==
    ASSUME NEW q \in Seq(Record), q # <<>>, Increasing(q)
    PROVE  /\ q[1] \in Elems(q)
           /\ Elems(Tail(q)) = Elems(q) \ {q[1]}
           /\ \A e \in Elems(q) : q[1].seq <= e.seq
<1>1. /\ Len(q) \in Nat \ {0}
      /\ Len(Tail(q)) = Len(q) - 1
      /\ \A i \in 1..Len(Tail(q)) : i + 1 \in 1..Len(q) /\ Tail(q)[i] = q[i + 1]
      /\ \A i \in 1..Len(q) : q[i].seq \in Nat
  BY HeadTailFacts, EntriesOf
<1>2. 1 \in 1..Len(q)
  BY <1>1
<1>3. \A i \in 1..Len(q) : i = 1 \/ q[1].seq < q[i].seq
  BY <1>1, <1>2 DEF Increasing
<1>4. \A i \in 1..Len(q) : i = 1 \/ q[i] # q[1]
  BY <1>1, <1>2, <1>3
<1>5. \A i \in 1..Len(q) : i = 1 \/ (i - 1 \in 1..Len(Tail(q)) /\ Tail(q)[i - 1] = q[i])
  BY <1>1
<1>6. Elems(Tail(q)) \subseteq Elems(q) \ {q[1]}
  <2> SUFFICES ASSUME NEW i \in 1..Len(Tail(q))
               PROVE  Tail(q)[i] \in Elems(q) \ {q[1]}
    BY DEF Elems
  <2>1. i + 1 \in 1..Len(q) /\ Tail(q)[i] = q[i + 1] /\ i + 1 # 1
    BY <1>1
  <2> QED
    BY <1>4, <2>1 DEF Elems
<1>7. Elems(q) \ {q[1]} \subseteq Elems(Tail(q))
  BY <1>5 DEF Elems
<1> QED
  BY <1>1, <1>2, <1>3, <1>6, <1>7 DEF Elems

\* The sizes of the rings, seen as sets.
LEMMA ElemsSize ==
    ASSUME NEW q \in Seq(Record), Increasing(q)
    PROVE  Cardinality(Elems(q)) = Len(q)
<1>1. \A i \in 1..Len(q) : q[i].seq \in Nat
  BY EntriesOf
<1>2. \A i, j \in 1..Len(q) : i # j => q[i] # q[j]
  <2> SUFFICES ASSUME NEW i \in 1..Len(q), NEW j \in 1..Len(q), i # j
               PROVE  q[i] # q[j]
    OBVIOUS
  <2>1. i < j \/ j < i
    OBVIOUS
  <2>2. q[i].seq < q[j].seq \/ q[j].seq < q[i].seq
    BY <2>1 DEF Increasing
  <2> QED
    BY <1>1, <2>2
<1> QED
  BY <1>2, DistinctEntries DEF Elems

\* The channel counts as FiniteSets does.
LEMMA SameCardinality == \A S : Channel!Cardinality(S) = Cardinality(S)
BY DEF Channel!Cardinality, Cardinality

\* The events and commands of the channel are the two rings.
LEMMA ChannelRings ==
    ASSUME TypeOK, Rings
    PROVE  /\ Channel!Events = Elems(events)
           /\ Channel!Controls = Elems(controls)
           /\ Channel!Cardinality(Channel!Events) = Len(events)
           /\ Channel!Cardinality(Channel!Controls) = Len(controls)
<1>1. \A r \in Elems(events) : r.kind = "EVENT"
  BY RingFacts DEF Elems
<1>2. \A r \in Elems(controls) : r.kind # "EVENT"
  BY RingFacts DEF Elems, ControlKinds
<1>3. Channel!Events = Elems(events) /\ Channel!Controls = Elems(controls)
  BY <1>1, <1>2 DEF Channel!Events, Channel!Controls, Pending
<1> QED
  BY <1>3, RingFacts, ElemsSize, SameCardinality

LEMMA RefinesInit == Init => Channel!Init
<1> SUFFICES ASSUME Init PROVE Channel!Init
  OBVIOUS
<1>1. Len(events) = 0 /\ Len(controls) = 0
  BY EmptyFacts DEF Init
<1>2. Pending = {}
  BY <1>1 DEF Pending, Elems
<1> QED
  BY <1>2 DEF Init, Channel!Init, NoRecord, Channel!NoRecord

LEMMA RefinesPostEvent ==
    ASSUME TypeOK, Rings, NEW t \in Callers, PostEvent(t)
    PROVE  Channel!PostEvent
<1> DEFINE r == [kind |-> "EVENT", seq |-> seq + 1]
<1>1. /\ events' = Append(KeptEvents, r)
      /\ controls' = controls
      /\ seq' = seq + 1
      /\ rec' = rec
      /\ r \in Record
      /\ r = Channel!Next0("EVENT")
  BY NewRecord DEF PostEvent, workerVars, TypeOK, Kinds, Channel!Next0
<1> HIDE DEF r
<1>2. KeptEvents \in Seq(Record)
  BY KeptFacts
<1>3. Pending' = Elems(KeptEvents) \cup {r} \cup Elems(controls)
  BY <1>1, <1>2, ElemsAppend DEF Pending, Elems
<1>4. CASE Len(events) = EventCap
  <2>1. events # <<>> /\ KeptEvents = Tail(events)
    BY <1>4, RingFacts, EmptyFacts, IngressAssumption DEF KeptEvents
  <2>2. /\ events[1] \in Elems(events)
        /\ Elems(KeptEvents) = Elems(events) \ {events[1]}
        /\ \A e \in Elems(events) : events[1].seq <= e.seq
    BY <2>1, RingFacts, ElemsTail
  <2>3. \A e \in Elems(events) : e # events[1] => ~(e.seq <= events[1].seq)
    <3> SUFFICES ASSUME NEW i \in 1..Len(events), events[i] # events[1]
                 PROVE  ~(events[i].seq <= events[1].seq)
      BY DEF Elems
    <3>1. 1 \in 1..Len(events) /\ 1 < i
      BY <2>1, RingFacts, EmptyFacts
    <3> QED
      BY <3>1, RingFacts DEF Increasing
  <2>4. Channel!Oldest(Channel!Events) = {events[1]}
    BY <2>2, <2>3, ChannelRings DEF Channel!Oldest
  <2>5. events[1] \notin Elems(controls)
    <3>1. events[1].kind = "EVENT"
      BY <2>2, RingFacts DEF Elems
    <3> QED
      BY <3>1, RingFacts DEF Elems, ControlKinds
  <2>6. Pending' = (Pending \ {events[1]}) \cup {r}
    BY <1>3, <2>2, <2>5 DEF Pending
  <2> QED
    BY <1>1, <1>4, <2>4, <2>6, ChannelRings DEF Channel!PostEvent
<1>5. CASE Len(events) # EventCap
  <2>1. KeptEvents = events
    BY <1>5 DEF KeptEvents
  <2>2. Pending' = Pending \cup {r}
    BY <1>3, <2>1 DEF Pending
  <2> QED
    BY <1>1, <1>5, <2>2, ChannelRings DEF Channel!PostEvent
<1> QED
  BY <1>4, <1>5

LEMMA RefinesPostCommand ==
    ASSUME TypeOK, Rings, NEW t \in Callers, NEW c \in Commands,
           PostCommand(t, c[1], c[2])
    PROVE  Channel!PostControl
<1> DEFINE r == [kind |-> c[1], seq |-> seq + 1]
<1>1. /\ controls' = Append(controls, r)
      /\ Len(controls) < ControlCap
      /\ events' = events
      /\ seq' = seq + 1
      /\ rec' = rec
      /\ r \in Record
      /\ c[1] \in Channel!ControlKinds
      /\ r = Channel!Next0(c[1])
  BY NewRecord, CommandKind DEF PostCommand, workerVars, TypeOK, Kinds, ControlKinds,
     Channel!ControlKinds, Channel!Next0
<1> HIDE DEF r
<1>2. Pending' = Pending \cup {r}
  <2>1. Elems(controls') = Elems(controls) \cup {r}
    BY <1>1, RingFacts, ElemsAppend
  <2> QED
    BY <1>1, <2>1 DEF Pending, Elems
<1> QED
  BY <1>1, <1>2, ChannelRings DEF Channel!PostControl

LEMMA RefinesPop ==
    ASSUME TypeOK, Rings, Pop
    PROVE  Channel!Take
<1>1. seq' = seq
  BY DEF Pop
<1>2. rec' \in Pending /\ Pending' = Pending \ {rec'}
  <2>1. CASE UseControl
    <3>1. /\ rec' = Head(controls) /\ controls' = Tail(controls)
          /\ events' = events /\ controls # <<>>
      BY <2>1 DEF Pop, UseControl, UseEvent
    <3>2. /\ rec' = controls[1]
          /\ controls[1] \in Elems(controls)
          /\ Elems(Tail(controls)) = Elems(controls) \ {controls[1]}
      BY <3>1, RingFacts, ElemsTail, HeadTailFacts
    <3>3. controls[1] \notin Elems(events)
      <4>1. controls[1].kind \in ControlKinds
        BY <3>2, RingFacts DEF Elems
      <4> QED
        BY <4>1, RingFacts DEF Elems, ControlKinds
    <3>4. Elems(controls') = Elems(controls) \ {rec'} /\ Elems(events') = Elems(events)
      BY <3>1, <3>2
    <3>5. rec' \in Elems(controls) /\ rec' \notin Elems(events)
      BY <3>2, <3>3
    <3>6. Pending' = Elems(events') \cup Elems(controls')
      BY DEF Pending, Elems
    <3> QED
      BY <3>4, <3>5, <3>6 DEF Pending
  <2>2. CASE ~UseControl
    <3>1. /\ rec' = Head(events) /\ events' = Tail(events)
          /\ controls' = controls /\ events # <<>>
      BY <2>2 DEF Pop, UseControl, UseEvent
    <3>2. /\ rec' = events[1]
          /\ events[1] \in Elems(events)
          /\ Elems(Tail(events)) = Elems(events) \ {events[1]}
      BY <3>1, RingFacts, ElemsTail, HeadTailFacts
    <3>3. events[1] \notin Elems(controls)
      <4>1. events[1].kind = "EVENT"
        BY <3>2, RingFacts DEF Elems
      <4> QED
        BY <4>1, RingFacts DEF Elems, ControlKinds
    <3>4. Elems(events') = Elems(events) \ {rec'} /\ Elems(controls') = Elems(controls)
      BY <3>1, <3>2
    <3>5. rec' \in Elems(events) /\ rec' \notin Elems(controls)
      BY <3>2, <3>3
    <3>6. Pending' = Elems(events') \cup Elems(controls')
      BY DEF Pending, Elems
    <3> QED
      BY <3>4, <3>5, <3>6 DEF Pending
  <2> QED
    BY <2>1, <2>2
<1>3. \A r \in Pending : rec'.seq <= r.seq
  <2> SUFFICES ASSUME NEW r \in Pending PROVE rec'.seq <= r.seq
    OBVIOUS
  <2>1. rec'.seq \in Nat /\ r.seq \in Nat
    BY PopFacts, SeqIsNat, RingFacts DEF Pending, Elems
  <2>2. r = rec' \/ r \in Pending'
    BY <1>2
  <2>3. \A q \in Pending' : rec'.seq < q.seq
    BY PopFacts DEF Pending, Elems
  <2> QED
    BY <2>1, <2>2, <2>3
<1> QED
  BY <1>1, <1>2, <1>3 DEF Channel!Take, Channel!Oldest

LEMMA RefinesStep == IInv /\ [Next]_vars => [Channel!Next]_(Channel!vars)
<1> SUFFICES ASSUME IInv, [Next]_vars PROVE [Channel!Next]_(Channel!vars)
  OBVIOUS
<1>1. TypeOK /\ Rings
  BY DEF IInv, Rings
<1>2. ASSUME NEW t \in Callers, PostEvent(t) PROVE Channel!Next
  BY <1>1, <1>2, RefinesPostEvent DEF Channel!Next
<1>3. ASSUME NEW t \in Callers, NEW c \in Commands, PostCommand(t, c[1], c[2])
      PROVE  Channel!Next
  BY <1>1, <1>3, RefinesPostCommand DEF Channel!Next
<1>4. CASE Pop
  BY <1>1, <1>4, RefinesPop DEF Channel!Next
<1>5. CASE UNCHANGED <<queues, rec>>
  BY <1>5 DEF Channel!vars, Pending, Elems, queues
<1>6. ASSUME NEW t \in Callers, CallerStep(t) PROVE [Channel!Next]_(Channel!vars)
  BY <1>2, <1>3, <1>5, <1>6 DEF CallerStep, EnsureStarted, CreateWorker, CreateFails,
     ReturnUnposted, Seal, RejectCommand, Recheck, TimeOut, workerVars
<1>7. CASE WorkerStep
  BY <1>4, <1>5, <1>7 DEF WorkerStep, Park, Handle, MarkProcessed, workerVars
<1>8. ASSUME NEW t \in Callers \cup {Worker}, SpuriousWakeup(t)
      PROVE  [Channel!Next]_(Channel!vars)
  BY <1>5, <1>8 DEF SpuriousWakeup, workerVars
<1>9. CASE UNCHANGED vars
  BY <1>5, <1>9 DEF vars, workerVars
<1> QED
  BY <1>6, <1>7, <1>8, <1>9 DEF Next

\* The ingress implements the merged channel, for any number of callers and
\* any capacities.
THEOREM IngressImplementsChannel == Spec => ImplementsChannel
BY RefinesInit, RefinesStep, InvariantHolds, PTL DEF Spec, ImplementsChannel, Channel!Spec

-----------------------------------------------------------------------------
\* A record disappears only by being popped, or as the oldest event of a
\* full ring: an accepted lifecycle command is never evicted.
THEOREM OldestEventLost == Spec => OnlyOldestEventLost
<1> DEFINE Fair(r) == \/ rec' = r
                      \/ /\ r.kind = "EVENT"
                         /\ Len(events) = EventCap
                         /\ \A e \in Elems(events) : r.seq <= e.seq
<1>1. IInv /\ [Next]_vars => [\A r \in Pending \ Pending' : Fair(r)]_vars
  <2> SUFFICES ASSUME IInv, [Next]_vars, NEW r \in Pending \ Pending' PROVE Fair(r)
    OBVIOUS
  <2>1. TypeOK /\ Rings
    BY DEF IInv, Rings
  <2>2. [Channel!Next]_(Channel!vars)
    BY RefinesStep
  <2>3. CASE Channel!Take
    BY <2>3 DEF Channel!Take
  <2>4. CASE Channel!PostEvent
    <3>1. r \in Channel!Oldest(Channel!Events) /\ Channel!Cardinality(Channel!Events) = EventCap
      BY <2>4 DEF Channel!PostEvent
    <3> QED
      BY <2>1, <3>1, ChannelRings, RingFacts DEF Channel!Oldest, Elems
  <2>5. CASE Channel!PostControl
    BY <2>5 DEF Channel!PostControl
  <2>6. CASE UNCHANGED Channel!vars
    BY <2>6 DEF Channel!vars
  <2> QED
    BY <2>2, <2>3, <2>4, <2>5, <2>6 DEF Channel!Next
<1> QED
  BY <1>1, InvariantHolds, PTL DEF Spec, OnlyOldestEventLost
=============================================================================
