------------------------- MODULE IngressQueueProofs -------------------------
(***************************************************************************)
(* Proofs about IngressQueue for all capacities: head, count and modulo    *)
(* arithmetic lose, repeat and reorder nothing, and the two rings together *)
(* are one MergedChannel.                                                  *)
(***************************************************************************)
EXTENDS IngressQueue, QueueLemmas

-----------------------------------------------------------------------------
(* One ring.                                                               *)

\* The slot of the i-th record of a ring.
Slot(head, i, cap) == (head + i) % cap
At(slots, head, i, cap) == slots[Slot(head, i, cap)]

\* The remainder of a number below twice the capacity.
LEMMA Wraps ==
    ASSUME NEW cap \in Nat \ {0}, NEW n \in 0..2 * cap - 1
    PROVE  n % cap = IF n < cap THEN n ELSE n - cap
OBVIOUS

\* Where the slots of a ring are: inside of it, all different, and one
\* further on when the head has moved by one.
LEMMA SlotFacts ==
    ASSUME NEW cap \in Nat \ {0}, NEW head \in 0..cap - 1
    PROVE  /\ \A i \in 0..cap : Slot(head, i, cap) \in 0..cap - 1
           /\ Slot(head, 0, cap) = head
           /\ \A i, j \in 0..cap - 1 : i # j => Slot(head, i, cap) # Slot(head, j, cap)
           /\ \A i \in 0..cap - 1 : Slot(Slot(head, 1, cap), i, cap) = Slot(head, i + 1, cap)
<1>1. \A i \in 0..cap : Slot(head, i, cap) = IF head + i < cap THEN head + i ELSE head + i - cap
  <2> TAKE i \in 0..cap
  <2> DEFINE n == head + i
  <2>1. n \in 0..2 * cap - 1
    OBVIOUS
  <2> HIDE DEF n
  <2>2. n % cap = IF n < cap THEN n ELSE n - cap
    BY <2>1, Wraps
  <2> QED
    BY <2>2 DEF n, Slot
<1>2. \A i \in 0..cap : Slot(head, i, cap) \in 0..cap - 1
  BY <1>1
<1>3. \A i, j \in 0..cap - 1 : i # j => Slot(head, i, cap) # Slot(head, j, cap)
  BY <1>1
<1>4. Slot(head, 0, cap) = head
  BY <1>1
<1>5. ASSUME NEW i \in 0..cap - 1
      PROVE  Slot(Slot(head, 1, cap), i, cap) = Slot(head, i + 1, cap)
  <2> DEFINE next == Slot(head, 1, cap)
  <2>1. next = IF head + 1 < cap THEN head + 1 ELSE 0
    BY <1>1
  <2>2. next \in 0..cap - 1
    BY <1>2
  <2> HIDE DEF next
  <2>3. Slot(next, i, cap) = IF next + i < cap THEN next + i ELSE next + i - cap
    <3> DEFINE n == next + i
    <3>1. n \in 0..2 * cap - 1
      BY <2>2
    <3> HIDE DEF n
    <3>2. n % cap = IF n < cap THEN n ELSE n - cap
      BY <3>1, Wraps
    <3> QED
      BY <2>2, <3>1, <3>2 DEF n, Slot
  <2>4. Slot(head, i + 1, cap)
          = IF head + (i + 1) < cap THEN head + (i + 1) ELSE head + (i + 1) - cap
    BY <1>1
  <2>5. Slot(next, i, cap) = Slot(head, i + 1, cap)
    BY <2>1, <2>3, <2>4
  <2> QED
    BY <2>5 DEF next
<1> QED
  BY <1>2, <1>3, <1>4, <1>5

\* The slot behind n records is not one of theirs.
LEMMA FreeSlot ==
    ASSUME NEW cap \in Nat \ {0}, NEW head \in 0..cap - 1, NEW n \in 0..cap - 1
    PROVE  /\ Slot(head, n, cap) \in 0..cap - 1
           /\ \A i \in 0..n - 1 : /\ Slot(head, i, cap) \in 0..cap - 1
                                  /\ Slot(head, i, cap) # Slot(head, n, cap)
<1>1. /\ \A i \in 0..cap : Slot(head, i, cap) \in 0..cap - 1
      /\ \A i, j \in 0..cap - 1 : i # j => Slot(head, i, cap) # Slot(head, j, cap)
  BY SlotFacts
<1> QED
  BY <1>1

\* A pop moves the records up by one.
LEMMA RingPop ==
    ASSUME NEW cap \in Nat \ {0}, NEW head \in 0..cap - 1, NEW slots
    PROVE  /\ (head + 1) % cap \in 0..cap - 1
           /\ At(slots, head, 0, cap) = slots[head]
           /\ \A i \in 0..cap - 1 :
                 At(slots, (head + 1) % cap, i, cap) = At(slots, head, i + 1, cap)
<1>0. /\ \A i \in 0..cap : Slot(head, i, cap) \in 0..cap - 1
      /\ Slot(head, 0, cap) = head
      /\ \A i \in 0..cap - 1 : Slot(Slot(head, 1, cap), i, cap) = Slot(head, i + 1, cap)
  BY SlotFacts
<1>1. /\ Slot(head, 1, cap) = (head + 1) % cap
      /\ Slot(head, 1, cap) \in 0..cap - 1
      /\ Slot(head, 0, cap) = head
      /\ \A i \in 0..cap - 1 : Slot(Slot(head, 1, cap), i, cap) = Slot(head, i + 1, cap)
  <2>1. Slot(head, 1, cap) = (head + 1) % cap
    BY DEF Slot
  <2>2. 1 \in 0..cap
    OBVIOUS
  <2> QED
    BY <1>0, <2>1, <2>2
<1> QED
  BY <1>1 DEF At

\* What Live names, by position.
LEMMA LiveAt ==
    ASSUME NEW slots, NEW head, NEW n, NEW cap
    PROVE  Live(slots, head, n, cap) = {At(slots, head, i, cap) : i \in 0..n - 1}
BY DEF Live, At, Slot

-----------------------------------------------------------------------------
(* The inductive invariant.                                                *)

Shape ==
    /\ eventSlots \in [0..EventCap - 1 -> Record]
    /\ eventHead \in 0..EventCap - 1
    /\ eventCount \in 0..EventCap
    /\ controlSlots \in [0..ControlCap - 1 -> Record]
    /\ controlHead \in 0..ControlCap - 1
    /\ controlCount \in 0..ControlCap
    /\ {droppedCount, poppedCount} \subseteq Nat
    /\ seq \in 0..MaxSeq
    /\ out \in Record

\* Every accepted seq is somewhere.
Accounted == seq = poppedCount + eventCount + controlCount + droppedCount

\* The first n records from head on are of these kinds, in seq order.
Filed(slots, head, n, cap, kinds, top) ==
    /\ \A i \in 0..n - 1 : /\ At(slots, head, i, cap).kind \in kinds
                           /\ At(slots, head, i, cap).seq \in 1..top
    /\ \A i, j \in 0..n - 1 :
          i < j => At(slots, head, i, cap).seq < At(slots, head, j, cap).seq

EventsFiled == Filed(eventSlots, eventHead, eventCount, EventCap, {"EVENT"}, seq)
ControlsFiled == Filed(controlSlots, controlHead, controlCount, ControlCap, ControlKinds, seq)

RingInv == Shape /\ Accounted /\ EventsFiled /\ ControlsFiled

-----------------------------------------------------------------------------
(* What a push and a pop do to the records of one ring.                    *)

\* A ring with one more record behind the others.
LEMMA FiledGrows ==
    ASSUME NEW cap \in Nat \ {0}, NEW head, NEW slots, NEW after, NEW n \in 0..cap - 1,
           NEW r, NEW kinds, NEW top \in Nat,
           Filed(slots, head, n, cap, kinds, top), r.kind \in kinds, r.seq = top + 1,
           \A i \in 0..n - 1 : At(after, head, i, cap) = At(slots, head, i, cap),
           At(after, head, n, cap) = r
    PROVE  Filed(after, head, n + 1, cap, kinds, top + 1)
<1>1. \A i \in 0..n : i = n \/ i \in 0..n - 1
  OBVIOUS
<1>2. /\ \A i \in 0..n - 1 : /\ At(slots, head, i, cap).kind \in kinds
                             /\ At(slots, head, i, cap).seq \in 1..top
      /\ \A i, j \in 0..n - 1 :
            i < j => At(slots, head, i, cap).seq < At(slots, head, j, cap).seq
  BY DEF Filed
<1>3. \A i \in 0..n : /\ At(after, head, i, cap).kind \in kinds
                      /\ At(after, head, i, cap).seq \in 1..top + 1
  <2> TAKE i \in 0..n
  <2>1. \A x \in 1..top : x \in 1..top + 1
    OBVIOUS
  <2>2. CASE i = n
    <3>1. At(after, head, i, cap) = r
      BY <2>2, Zenon
    <3> QED
      BY <3>1
  <2>3. CASE i \in 0..n - 1
    <3>1. At(after, head, i, cap) = At(slots, head, i, cap)
      BY <2>3, Zenon
    <3> QED
      BY <1>2, <2>1, <2>3, <3>1, Zenon
  <2> QED
    BY <1>1, <2>2, <2>3, Zenon
<1>4. ASSUME NEW i \in 0..n, NEW j \in 0..n, i < j
      PROVE  At(after, head, i, cap).seq < At(after, head, j, cap).seq
  <2>1. i \in 0..n - 1
    BY <1>4
  <2>2. CASE j = n
    <3>1. At(after, head, j, cap) = r
      BY <2>2, Zenon
    <3>2. At(after, head, i, cap) = At(slots, head, i, cap)
      BY <2>1, Zenon
    <3>3. At(slots, head, i, cap).seq \in 1..top
      BY <1>2, <2>1, Zenon
    <3> QED
      BY <3>1, <3>2, <3>3
  <2>3. CASE j \in 0..n - 1
    BY <1>2, <1>4, <2>1, <2>3
  <2> QED
    BY <1>1, <2>2, <2>3
<1>5. 0..n + 1 - 1 = 0..n
  OBVIOUS
<1>6. Filed(after, head, n + 1, cap, kinds, top + 1)
  <2>9. \A i, j \in 0..n : i < j => At(after, head, i, cap).seq < At(after, head, j, cap).seq
    BY <1>4
  <2>1. \A i \in 0..n + 1 - 1 : /\ At(after, head, i, cap).kind \in kinds
                                /\ At(after, head, i, cap).seq \in 1..top + 1
    BY <1>3, <1>5, Zenon
  <2>2. \A i, j \in 0..n + 1 - 1 :
              i < j => At(after, head, i, cap).seq < At(after, head, j, cap).seq
    BY <2>9, <1>5, Zenon
  <2> QED
    BY <2>1, <2>2 DEF Filed
<1> QED
  BY <1>6

\* The same for what the ring holds.
Same(slots, after, head, n, cap) ==
    \A i \in 0..n - 1 : At(after, head, i, cap) = At(slots, head, i, cap)

LEMMA LiveGrows ==
    ASSUME NEW cap, NEW head, NEW slots, NEW after, NEW n \in Nat, NEW m, m = n + 1,
           Same(slots, after, head, n, cap)
    PROVE  Live(after, head, m, cap) = Live(slots, head, n, cap) \cup {At(after, head, n, cap)}
<1>0. \A i \in 0..n - 1 : At(after, head, i, cap) = At(slots, head, i, cap)
  BY DEF Same
<1>1. /\ \A i \in 0..m - 1 : i = n \/ i \in 0..n - 1
      /\ n \in 0..m - 1 /\ \A i \in 0..n - 1 : i \in 0..m - 1
  OBVIOUS
<1>2. /\ Live(after, head, m, cap) = {At(after, head, i, cap) : i \in 0..m - 1}
      /\ Live(slots, head, n, cap) = {At(slots, head, i, cap) : i \in 0..n - 1}
  BY LiveAt
<1>3. ASSUME NEW e \in Live(after, head, m, cap)
      PROVE  e \in Live(slots, head, n, cap) \cup {At(after, head, n, cap)}
  BY <1>0, <1>1, <1>2, <1>3
<1>4. ASSUME NEW e \in Live(slots, head, n, cap) \cup {At(after, head, n, cap)}
      PROVE  e \in Live(after, head, m, cap)
  BY <1>0, <1>1, <1>2, <1>4
<1> QED
  BY <1>3, <1>4

\* A push writes the slot behind the last record.
Pushed(slots, after, head, n, cap, r) ==
    \A k \in 0..cap - 1 : after[k] = IF k = (head + n) % cap THEN r ELSE slots[k]

Gains(slots, after, head, n, m, cap, r) ==
    Live(after, head, m, cap) = Live(slots, head, n, cap) \cup {r}

\* What the ring holds after a push.
LEMMA RingPush ==
    ASSUME NEW cap \in Nat \ {0}, NEW head \in 0..cap - 1, NEW slots, NEW after,
           NEW n \in 0..cap - 1, NEW r, Pushed(slots, after, head, n, cap, r),
           NEW kinds, NEW top \in Nat, NEW m, m = n + 1,
           Filed(slots, head, n, cap, kinds, top), r.kind \in kinds, r.seq = top + 1
    PROVE  /\ (head + n) % cap \in 0..cap - 1
           /\ Filed(after, head, m, cap, kinds, top + 1)
           /\ Gains(slots, after, head, n, m, cap, r)
<1>1. /\ Slot(head, n, cap) \in 0..cap - 1
      /\ \A i \in 0..n - 1 : /\ Slot(head, i, cap) \in 0..cap - 1
                             /\ Slot(head, i, cap) # Slot(head, n, cap)
  BY FreeSlot
<1>2. Slot(head, n, cap) = (head + n) % cap
  BY DEF Slot
<1>3. /\ \A i \in 0..n - 1 : At(after, head, i, cap) = At(slots, head, i, cap)
      /\ At(after, head, n, cap) = r
  BY <1>1, <1>2 DEF At, Pushed
<1>4. Filed(after, head, n + 1, cap, kinds, top + 1)
  BY <1>3, FiledGrows
<1>5. n \in Nat
  OBVIOUS
<1>6. Live(after, head, m, cap) = Live(slots, head, n, cap) \cup {At(after, head, n, cap)}
  <2>1. Same(slots, after, head, n, cap)
    BY <1>3 DEF Same
  <2> QED
    BY <1>5, <2>1, LiveGrows
<1> QED
  BY <1>1, <1>2, <1>3, <1>4, <1>5, <1>6 DEF Gains

\* A pop takes the record at the head.
LEMMA FiledPop ==
    ASSUME NEW cap \in Nat \ {0}, NEW head \in 0..cap - 1, NEW slots, NEW n \in 1..cap,
           NEW kinds, NEW top \in Nat, Filed(slots, head, n, cap, kinds, top)
    PROVE  /\ (head + 1) % cap \in 0..cap - 1
           /\ Filed(slots, (head + 1) % cap, n - 1, cap, kinds, top)
           /\ slots[head] \in Live(slots, head, n, cap)
           /\ Live(slots, (head + 1) % cap, n - 1, cap)
                = Live(slots, head, n, cap) \ {slots[head]}
<1> DEFINE next == (head + 1) % cap
<1>0. /\ (head + 1) % cap \in 0..cap - 1
      /\ At(slots, head, 0, cap) = slots[head]
      /\ \A i \in 0..cap - 1 :
            At(slots, (head + 1) % cap, i, cap) = At(slots, head, i + 1, cap)
  <2>1. (head + 1) % cap \in 0..cap - 1
    BY RingPop
  <2>2. At(slots, head, 0, cap) = slots[head]
    BY RingPop
  <2>3. \A i \in 0..cap - 1 :
            At(slots, (head + 1) % cap, i, cap) = At(slots, head, i + 1, cap)
    BY RingPop
  <2> QED
    BY <2>1, <2>2, <2>3
<1>1. /\ next \in 0..cap - 1
      /\ At(slots, head, 0, cap) = slots[head]
      /\ \A i \in 0..cap - 1 : At(slots, next, i, cap) = At(slots, head, i + 1, cap)
  BY <1>0
<1> HIDE DEF next
<1>2. /\ \A i \in 0..n - 1 : /\ At(slots, head, i, cap).kind \in kinds
                             /\ At(slots, head, i, cap).seq \in 1..top
      /\ \A i, j \in 0..n - 1 :
            i < j => At(slots, head, i, cap).seq < At(slots, head, j, cap).seq
  BY DEF Filed
<1>3. \A i \in 0..n - 2 : i \in 0..cap - 1 /\ i + 1 \in 0..n - 1 /\ i + 1 > 0
  OBVIOUS
<1>4. 0 \in 0..n - 1 /\ n - 1 - 1 = n - 2
  OBVIOUS
<1>5. \A i \in 0..n - 2 : At(slots, next, i, cap) = At(slots, head, i + 1, cap)
  BY <1>1, <1>3
<1>6. Filed(slots, next, n - 1, cap, kinds, top)
  <2>1. \A i \in 0..n - 2 : /\ At(slots, next, i, cap).kind \in kinds
                            /\ At(slots, next, i, cap).seq \in 1..top
    BY <1>2, <1>3, <1>5
  <2>2. ASSUME NEW i \in 0..n - 2, NEW j \in 0..n - 2, i < j
        PROVE  At(slots, next, i, cap).seq < At(slots, next, j, cap).seq
    <3>1. i + 1 < j + 1
      BY <2>2
    <3> QED
      BY <1>2, <1>3, <1>5, <3>1
  <2> QED
    BY <1>4, <2>1, <2>2 DEF Filed
<1>7. Live(slots, head, n, cap) = {At(slots, head, i, cap) : i \in 0..n - 1}
  BY LiveAt
<1>8. Live(slots, next, n - 1, cap) = {At(slots, next, i, cap) : i \in 0..n - 2}
  BY <1>4, LiveAt
<1>9. slots[head] \in Live(slots, head, n, cap)
  BY <1>1, <1>4, <1>7
<1>10. \A i \in 0..n - 1 : i # 0 => At(slots, head, i, cap) # slots[head]
  <2> TAKE i \in 0..n - 1
  <2> HAVE i # 0
  <2>1. At(slots, head, 0, cap).seq < At(slots, head, i, cap).seq
    BY <1>2, <1>4
  <2>2. At(slots, head, i, cap).seq \in 1..top
    BY <1>2
  <2> QED
    BY <1>1, <2>1, <2>2
<1>11. \A i \in 0..n - 1 : i # 0 => i - 1 \in 0..n - 2 /\ i - 1 + 1 = i
  OBVIOUS
<1>12. Live(slots, next, n - 1, cap) = Live(slots, head, n, cap) \ {slots[head]}
  <2>1. ASSUME NEW e \in Live(slots, next, n - 1, cap)
        PROVE  e \in Live(slots, head, n, cap) \ {slots[head]}
    <3>1. PICK i \in 0..n - 2 : e = At(slots, head, i + 1, cap)
      BY <1>5, <1>8, <2>1
    <3> QED
      BY <1>3, <1>7, <1>10, <3>1
  <2>2. ASSUME NEW e \in Live(slots, head, n, cap) \ {slots[head]}
        PROVE  e \in Live(slots, next, n - 1, cap)
    <3>1. PICK i \in 0..n - 1 : e = At(slots, head, i, cap)
      BY <1>7, <2>2
    <3>2. i # 0
      BY <1>1, <2>2, <3>1
    <3>3. i - 1 \in 0..n - 2 /\ At(slots, next, i - 1, cap) = e
      BY <1>5, <1>11, <3>1, <3>2
    <3> QED
      BY <1>8, <3>3
  <2> QED
    BY <2>1, <2>2
<1> QED
  BY <1>1, <1>6, <1>9, <1>12 DEF next

\* The oldest record of a ring is the one at its head.
LEMMA HeadIsOldest ==
    ASSUME NEW cap \in Nat \ {0}, NEW head \in 0..cap - 1, NEW slots, NEW n \in 1..cap,
           NEW kinds, NEW top \in Nat, Filed(slots, head, n, cap, kinds, top)
    PROVE  /\ slots[head].kind \in kinds
           /\ slots[head].seq \in 1..top
           /\ \A e \in Live(slots, head, n, cap) : e = slots[head] \/ slots[head].seq < e.seq
<1>1. At(slots, head, 0, cap) = slots[head]
  BY RingPop, Zenon
<1>2. Live(slots, head, n, cap) = {At(slots, head, i, cap) : i \in 0..n - 1}
  BY LiveAt
<1>3. 0 \in 0..n - 1 /\ \A i \in 0..n - 1 : i = 0 \/ 0 < i
  OBVIOUS
<1> QED
  BY <1>1, <1>2, <1>3 DEF Filed

\* No record is in a ring twice, and of which kinds and age the records are.
LEMMA LiveFacts ==
    ASSUME NEW cap \in Nat \ {0}, NEW slots, NEW head, NEW n \in 0..cap,
           NEW kinds, NEW top \in Nat, Filed(slots, head, n, cap, kinds, top)
    PROVE  /\ Cardinality(Live(slots, head, n, cap)) = n
           /\ \A e \in Live(slots, head, n, cap) : e.kind \in kinds /\ e.seq \in 1..top
<1> DEFINE S == Live(slots, head, n, cap)
           q == [i \in 1..n |-> At(slots, head, i - 1, cap)]
<1>1. S = {At(slots, head, i, cap) : i \in 0..n - 1}
  BY LiveAt
<1>2. /\ \A i \in 1..n : i - 1 \in 0..n - 1
      /\ \A i \in 0..n - 1 : i + 1 \in 1..n /\ i + 1 - 1 = i
  OBVIOUS
<1>3. \A i \in 1..n : q[i] = At(slots, head, i - 1, cap)
  OBVIOUS
<1> HIDE DEF S
<1>4. q \in Seq(S) /\ Len(q) = n
  BY <1>1, <1>2
<1> HIDE DEF q
<1>5. \A i, j \in 1..n : i # j => q[i] # q[j]
  <2> SUFFICES ASSUME NEW i \in 1..n, NEW j \in 1..n, i # j PROVE q[i] # q[j]
    OBVIOUS
  <2>1. i - 1 \in 0..n - 1 /\ j - 1 \in 0..n - 1 /\ (i - 1 < j - 1 \/ j - 1 < i - 1)
    OBVIOUS
  <2>2. q[i].seq < q[j].seq \/ q[j].seq < q[i].seq
    BY <1>3, <2>1 DEF Filed
  <2>3. q[i].seq \in 1..top /\ q[j].seq \in 1..top
    BY <1>3, <2>1 DEF Filed
  <2> QED
    BY <2>2, <2>3
<1>6. {q[i] : i \in 1..n} = S
  <2>1. ASSUME NEW e \in S PROVE e \in {q[i] : i \in 1..n}
    <3>1. PICK i \in 0..n - 1 : e = At(slots, head, i, cap)
      BY <1>1, <2>1
    <3>2. e = q[i + 1]
      BY <1>2, <1>3, <3>1
    <3> QED
      BY <1>2, <3>2
  <2>2. ASSUME NEW i \in 1..n PROVE q[i] \in S
    BY <1>1, <1>2, <1>3, <2>2
  <2> QED
    BY <2>1, <2>2
<1>7. Cardinality({q[i] : i \in 1..Len(q)}) = Len(q)
  BY <1>4, <1>5, DistinctEntries
<1>8. \A e \in S : e.kind \in kinds /\ e.seq \in 1..top
  BY <1>1 DEF Filed
<1> QED
  BY <1>4, <1>6, <1>7, <1>8 DEF S

\* Records stay filed while the numbering goes on.
LEMMA FiledUp ==
    ASSUME NEW cap, NEW slots, NEW head, NEW n, NEW kinds, NEW top \in Nat,
           Filed(slots, head, n, cap, kinds, top)
    PROVE  Filed(slots, head, n, cap, kinds, top + 1)
<1>1. \A x \in 1..top : x \in 1..top + 1
  OBVIOUS
<1> QED
  BY <1>1 DEF Filed

-----------------------------------------------------------------------------
(* The two rings of the queue.                                             *)

\* The event ring once a full one has given up its oldest record.
KeptHead == IF EventsFull THEN (eventHead + 1) % EventCap ELSE eventHead
KeptCount == IF EventsFull THEN eventCount - 1 ELSE eventCount
KeptEvents == Live(eventSlots, KeptHead, KeptCount, EventCap)

LEMMA EventRing ==
    ASSUME RingInv
    PROVE  /\ Cardinality(LiveEvents) = eventCount
           /\ \A e \in LiveEvents : e.kind = "EVENT" /\ e.seq \in 1..seq
           /\ eventCount # 0 =>
                 /\ eventSlots[eventHead] \in LiveEvents
                 /\ \A e \in LiveEvents :
                       e = eventSlots[eventHead] \/ eventSlots[eventHead].seq < e.seq
                 /\ (eventHead + 1) % EventCap \in 0..EventCap - 1
                 /\ Filed(eventSlots, (eventHead + 1) % EventCap, eventCount - 1, EventCap,
                          {"EVENT"}, seq)
                 /\ Live(eventSlots, (eventHead + 1) % EventCap, eventCount - 1, EventCap)
                      = LiveEvents \ {eventSlots[eventHead]}
<1>1. /\ EventCap \in Nat \ {0} /\ eventHead \in 0..EventCap - 1
      /\ eventSlots \in [0..EventCap - 1 -> Record]
      /\ eventCount \in 0..EventCap /\ seq \in Nat
      /\ Filed(eventSlots, eventHead, eventCount, EventCap, {"EVENT"}, seq)
  BY CapacityAssumption DEF RingInv, Shape, EventsFiled
<1>2. /\ Cardinality(LiveEvents) = eventCount
      /\ \A e \in LiveEvents : e.kind \in {"EVENT"} /\ e.seq \in 1..seq
  BY <1>1, LiveFacts DEF LiveEvents
<1>3. ASSUME eventCount # 0
      PROVE  /\ eventSlots[eventHead] \in LiveEvents
             /\ \A e \in LiveEvents :
                   e = eventSlots[eventHead] \/ eventSlots[eventHead].seq < e.seq
             /\ (eventHead + 1) % EventCap \in 0..EventCap - 1
             /\ Filed(eventSlots, (eventHead + 1) % EventCap, eventCount - 1, EventCap,
                      {"EVENT"}, seq)
             /\ Live(eventSlots, (eventHead + 1) % EventCap, eventCount - 1, EventCap)
                  = LiveEvents \ {eventSlots[eventHead]}
  <2>1. eventCount \in 1..EventCap
    BY <1>1, <1>3
  <2>2. /\ (eventHead + 1) % EventCap \in 0..EventCap - 1
        /\ Filed(eventSlots, (eventHead + 1) % EventCap, eventCount - 1, EventCap,
                 {"EVENT"}, seq)
        /\ eventSlots[eventHead] \in Live(eventSlots, eventHead, eventCount, EventCap)
        /\ Live(eventSlots, (eventHead + 1) % EventCap, eventCount - 1, EventCap)
             = Live(eventSlots, eventHead, eventCount, EventCap) \ {eventSlots[eventHead]}
    BY <1>1, <2>1, FiledPop, Zenon
  <2>3. \A e \in Live(eventSlots, eventHead, eventCount, EventCap) :
           e = eventSlots[eventHead] \/ eventSlots[eventHead].seq < e.seq
    BY <1>1, <2>1, HeadIsOldest
  <2> QED
    BY <2>2, <2>3 DEF LiveEvents
<1> QED
  BY <1>2, <1>3

LEMMA ControlRing ==
    ASSUME RingInv
    PROVE  /\ Cardinality(LiveControls) = controlCount
           /\ \A e \in LiveControls : e.kind \in ControlKinds /\ e.seq \in 1..seq
           /\ controlCount # 0 =>
                 /\ controlSlots[controlHead] \in LiveControls
                 /\ \A e \in LiveControls :
                       e = controlSlots[controlHead] \/ controlSlots[controlHead].seq < e.seq
                 /\ (controlHead + 1) % ControlCap \in 0..ControlCap - 1
                 /\ Filed(controlSlots, (controlHead + 1) % ControlCap, controlCount - 1,
                          ControlCap, ControlKinds, seq)
                 /\ Live(controlSlots, (controlHead + 1) % ControlCap, controlCount - 1,
                         ControlCap)
                      = LiveControls \ {controlSlots[controlHead]}
<1>1. /\ ControlCap \in Nat \ {0} /\ controlHead \in 0..ControlCap - 1
      /\ controlSlots \in [0..ControlCap - 1 -> Record]
      /\ controlCount \in 0..ControlCap /\ seq \in Nat
      /\ Filed(controlSlots, controlHead, controlCount, ControlCap, ControlKinds, seq)
  BY CapacityAssumption DEF RingInv, Shape, ControlsFiled
<1>2. /\ Cardinality(LiveControls) = controlCount
      /\ \A e \in LiveControls : e.kind \in ControlKinds /\ e.seq \in 1..seq
  BY <1>1, LiveFacts DEF LiveControls
<1>3. ASSUME controlCount # 0
      PROVE  /\ controlSlots[controlHead] \in LiveControls
             /\ \A e \in LiveControls :
                   e = controlSlots[controlHead] \/ controlSlots[controlHead].seq < e.seq
             /\ (controlHead + 1) % ControlCap \in 0..ControlCap - 1
             /\ Filed(controlSlots, (controlHead + 1) % ControlCap, controlCount - 1,
                      ControlCap, ControlKinds, seq)
             /\ Live(controlSlots, (controlHead + 1) % ControlCap, controlCount - 1,
                     ControlCap)
                  = LiveControls \ {controlSlots[controlHead]}
  <2>1. controlCount \in 1..ControlCap
    BY <1>1, <1>3
  <2>2. /\ (controlHead + 1) % ControlCap \in 0..ControlCap - 1
        /\ Filed(controlSlots, (controlHead + 1) % ControlCap, controlCount - 1, ControlCap,
                 ControlKinds, seq)
        /\ controlSlots[controlHead]
             \in Live(controlSlots, controlHead, controlCount, ControlCap)
        /\ Live(controlSlots, (controlHead + 1) % ControlCap, controlCount - 1, ControlCap)
             = Live(controlSlots, controlHead, controlCount, ControlCap)
                 \ {controlSlots[controlHead]}
    BY <1>1, <2>1, FiledPop, Zenon
  <2>3. \A e \in Live(controlSlots, controlHead, controlCount, ControlCap) :
           e = controlSlots[controlHead] \/ controlSlots[controlHead].seq < e.seq
    BY <1>1, <2>1, HeadIsOldest
  <2> QED
    BY <2>2, <2>3 DEF LiveControls
<1> QED
  BY <1>2, <1>3

\* The channel that the rings make up: its events and commands.
LEMMA SameCardinality == \A S : Channel!Cardinality(S) = Cardinality(S)
BY DEF Channel!Cardinality, Cardinality

LEMMA ChannelRings ==
    ASSUME RingInv
    PROVE  /\ Channel!Events = LiveEvents
           /\ Channel!Controls = LiveControls
           /\ Channel!Cardinality(Channel!Events) = eventCount
           /\ Channel!Cardinality(Channel!Controls) = controlCount
<1>1. /\ \A e \in LiveEvents : e.kind = "EVENT"
      /\ \A e \in LiveControls : e.kind # "EVENT"
  BY EventRing, ControlRing DEF ControlKinds
<1>2. Channel!Events = LiveEvents /\ Channel!Controls = LiveControls
  BY <1>1 DEF Channel!Events, Channel!Controls
<1> QED
  BY <1>2, EventRing, ControlRing, SameCardinality

-----------------------------------------------------------------------------
(* The invariant and the refinement, step by step.                         *)

LEMMA RingInit == Init => RingInv /\ Channel!Init
<1> SUFFICES ASSUME Init PROVE RingInv /\ Channel!Init
  OBVIOUS
<1>1. Shape
  BY CapacityAssumption DEF Init, Shape, Record
<1>2. Accounted
  BY DEF Init, Accounted
<1>3. 0..0 - 1 = {}
  OBVIOUS
<1>4. EventsFiled /\ ControlsFiled
  BY <1>3 DEF Init, EventsFiled, ControlsFiled, Filed
<1>5. LiveEvents = {} /\ LiveControls = {}
  BY <1>3 DEF Init, LiveEvents, LiveControls, Live
<1>6. Channel!Init
  BY <1>5 DEF Init, Channel!Init, NoRecord, Channel!NoRecord
<1> QED
  BY <1>1, <1>2, <1>4, <1>6 DEF RingInv

\* What a full ring is left with.
LEMMA Kept ==
    ASSUME RingInv
    PROVE  /\ KeptHead \in 0..EventCap - 1 /\ KeptCount \in 0..EventCap - 1
           /\ Filed(eventSlots, KeptHead, KeptCount, EventCap, {"EVENT"}, seq)
           /\ EventsFull => eventCount # 0
           /\ KeptEvents = IF EventsFull THEN LiveEvents \ {eventSlots[eventHead]}
                                         ELSE LiveEvents
<1>1. /\ EventCap \in Nat \ {0} /\ eventHead \in 0..EventCap - 1
      /\ eventCount \in 0..EventCap
      /\ Filed(eventSlots, eventHead, eventCount, EventCap, {"EVENT"}, seq)
  BY CapacityAssumption DEF RingInv, Shape, EventsFiled
<1>2. CASE EventsFull
  <2>1. eventCount # 0
    BY <1>1, <1>2 DEF EventsFull
  <2>2. KeptHead = (eventHead + 1) % EventCap /\ KeptCount = eventCount - 1
    BY <1>2 DEF KeptHead, KeptCount
  <2>3. KeptCount \in 0..EventCap - 1
    BY <1>1, <2>1, <2>2
  <2> QED
    BY <1>2, <2>1, <2>2, <2>3, EventRing DEF KeptEvents
<1>3. CASE ~EventsFull
  <2>1. KeptHead = eventHead /\ KeptCount = eventCount
    BY <1>3 DEF KeptHead, KeptCount
  <2>2. KeptCount \in 0..EventCap - 1
    BY <1>1, <1>3, <2>1 DEF EventsFull
  <2> QED
    BY <1>1, <1>3, <2>1, <2>2 DEF KeptEvents, LiveEvents
<1> QED
  BY <1>2, <1>3

LEMMA PushEventKeeps ==
    ASSUME RingInv, PushEvent
    PROVE  RingInv' /\ Channel!PostEvent
<1> DEFINE r == [kind |-> "EVENT", seq |-> seq + 1]
<1>1. /\ seq \in 0..MaxSeq /\ seq < MaxSeq /\ seq' = seq + 1
      /\ EventCap \in Nat \ {0} /\ MaxSeq \in Nat
      /\ eventSlots \in [0..EventCap - 1 -> Record]
  BY CapacityAssumption DEF RingInv, Shape, PushEvent
<1>2. r \in Record /\ r.kind \in {"EVENT"} /\ r.seq = seq + 1
  BY <1>1 DEF Record, Kinds
<1>3. /\ eventHead' = KeptHead
      /\ eventCount' = KeptCount + 1
      /\ eventSlots' = [eventSlots EXCEPT ![(KeptHead + KeptCount) % EventCap] = r]
      /\ droppedCount' = droppedCount + (IF EventsFull THEN 1 ELSE 0)
      /\ controlSlots' = controlSlots /\ controlHead' = controlHead
      /\ controlCount' = controlCount
      /\ out' = out /\ poppedCount' = poppedCount
  BY DEF PushEvent, KeptHead, KeptCount, controlRing
<1>4. r = Channel!Next0("EVENT")
  BY DEF Channel!Next0
<1> HIDE DEF r
<1>5. /\ KeptHead \in 0..EventCap - 1 /\ KeptCount \in 0..EventCap - 1
      /\ Filed(eventSlots, KeptHead, KeptCount, EventCap, {"EVENT"}, seq)
  BY Kept
<1>6. /\ eventSlots' \in [0..EventCap - 1 -> Record]
      /\ Filed(eventSlots', KeptHead, KeptCount + 1, EventCap, {"EVENT"}, seq + 1)
      /\ Live(eventSlots', KeptHead, KeptCount + 1, EventCap) = KeptEvents \cup {r}
  <2>1. seq \in Nat
    BY <1>1
  <2>2. Pushed(eventSlots, eventSlots', KeptHead, KeptCount, EventCap, r)
    BY <1>1, <1>3 DEF Pushed
  <2>3. (KeptHead + KeptCount) % EventCap \in 0..EventCap - 1
    BY CapacityAssumption, <1>2, <1>5, <2>1, <2>2, RingPush
  <2> DEFINE m == KeptCount + 1
  <2>5. m = KeptCount + 1
    OBVIOUS
  <2> HIDE DEF m
  <2>6. Filed(eventSlots', KeptHead, m, EventCap, {"EVENT"}, seq + 1)
    BY CapacityAssumption, <1>2, <1>5, <2>1, <2>2, <2>5, RingPush
  <2>7. Gains(eventSlots, eventSlots', KeptHead, KeptCount, m, EventCap, r)
    BY CapacityAssumption, <1>2, <1>5, <2>1, <2>2, <2>5, RingPush
  <2>4. eventSlots' \in [0..EventCap - 1 -> Record]
    BY <1>1, <1>2, <1>3, <2>3
  <2> QED
    BY <2>4, <2>5, <2>6, <2>7, Zenon DEF KeptEvents, Gains
<1>7. EventsFiled' /\ LiveEvents' = KeptEvents \cup {r}
  BY <1>1, <1>3, <1>6, Zenon DEF EventsFiled, LiveEvents
<1>8. ControlsFiled' /\ LiveControls' = LiveControls
  <2>1. Filed(controlSlots, controlHead, controlCount, ControlCap, ControlKinds, seq)
    BY DEF RingInv, ControlsFiled
  <2>2. seq \in Nat
    BY <1>1
  <2>3. Filed(controlSlots, controlHead, controlCount, ControlCap, ControlKinds, seq + 1)
    BY <2>1, <2>2, FiledUp
  <2> QED
    BY <1>1, <1>3, <2>3, Zenon DEF ControlsFiled, LiveControls
<1>9. Shape'
  <2>1. eventHead' \in 0..EventCap - 1 /\ eventCount' \in 0..EventCap /\ seq' \in 0..MaxSeq
    BY <1>1, <1>3, <1>5
  <2>2. droppedCount' \in Nat /\ poppedCount' \in Nat
    BY <1>3 DEF RingInv, Shape
  <2>3. /\ controlSlots' \in [0..ControlCap - 1 -> Record]
        /\ controlHead' \in 0..ControlCap - 1
        /\ controlCount' \in 0..ControlCap
        /\ out' \in Record
    BY <1>3 DEF RingInv, Shape
  <2> QED
    BY <1>6, <2>1, <2>2, <2>3 DEF Shape
<1>10. Accounted'
  <2>1. /\ seq = poppedCount + eventCount + controlCount + droppedCount
        /\ {eventCount, controlCount, droppedCount, poppedCount} \subseteq Nat
    BY CapacityAssumption DEF RingInv, Shape, Accounted
  <2>2. KeptCount + 1 + (IF EventsFull THEN 1 ELSE 0) = eventCount + 1
    BY <2>1 DEF KeptCount
  <2>3. KeptCount \in Nat
    BY <1>1, <1>5
  <2> DEFINE lost == IF EventsFull THEN 1 ELSE 0
  <2>4. /\ lost \in Nat /\ KeptCount + 1 + lost = eventCount + 1
        /\ droppedCount' = droppedCount + lost
    BY <1>3, <2>2
  <2> HIDE DEF lost
  <2>5. seq + 1 = poppedCount + (KeptCount + 1) + controlCount + (droppedCount + lost)
    BY <2>1, <2>3, <2>4
  <2> QED
    BY <1>1, <1>3, <2>4, <2>5 DEF Accounted
<1>11. Channel!PostEvent
  <2>1. LiveEvents' \cup LiveControls' = KeptEvents \cup {r} \cup LiveControls
    BY <1>7, <1>8
  <2>2. CASE EventsFull
    <3> DEFINE h == eventSlots[eventHead]
    <3>1. /\ h \in LiveEvents
          /\ \A e \in LiveEvents : e = h \/ h.seq < e.seq
          /\ \A e \in LiveEvents : e.seq \in 1..seq
      BY <2>2, Kept, EventRing
    <3>2. KeptEvents = LiveEvents \ {h}
      BY <2>2, Kept
    <3>3. h.kind = "EVENT"
      BY <3>1, EventRing
    <3> HIDE DEF h
    <3>4. Channel!Oldest(LiveEvents) = {h}
      BY <3>1 DEF Channel!Oldest
    <3>5. h \notin LiveControls
      BY <3>3, ControlRing DEF ControlKinds
    <3>6. KeptEvents \cup {r} \cup LiveControls
            = ((LiveEvents \cup LiveControls) \ {h}) \cup {r}
      BY <3>2, <3>5
    <3>7. Channel!Cardinality(Channel!Events) = EventCap /\ Channel!Events = LiveEvents
      BY <2>2, ChannelRings DEF EventsFull
    <3> QED
      BY <1>1, <1>3, <1>4, <2>1, <3>4, <3>6, <3>7 DEF Channel!PostEvent
  <2>3. CASE ~EventsFull
    <3>1. KeptEvents = LiveEvents
      BY <2>3, Kept
    <3>2. KeptEvents \cup {r} \cup LiveControls = (LiveEvents \cup LiveControls) \cup {r}
      BY <3>1
    <3>3. Channel!Cardinality(Channel!Events) # EventCap
      BY <2>3, ChannelRings DEF EventsFull
    <3> QED
      BY <1>1, <1>3, <1>4, <2>1, <3>2, <3>3 DEF Channel!PostEvent
  <2> QED
    BY <2>2, <2>3
<1> QED
  BY <1>7, <1>8, <1>9, <1>10, <1>11 DEF RingInv

LEMMA PushControlKeeps ==
    ASSUME RingInv, NEW kind \in ControlKinds, PushControl(kind)
    PROVE  RingInv' /\ Channel!PostControl
<1> DEFINE r == [kind |-> kind, seq |-> seq + 1]
           m == controlCount + 1
<1>1. /\ seq \in 0..MaxSeq /\ seq < MaxSeq /\ seq' = seq + 1
      /\ ControlCap \in Nat \ {0} /\ MaxSeq \in Nat
      /\ controlSlots \in [0..ControlCap - 1 -> Record]
      /\ controlHead \in 0..ControlCap - 1
      /\ controlCount \in 0..ControlCap - 1
      /\ Filed(controlSlots, controlHead, controlCount, ControlCap, ControlKinds, seq)
  BY CapacityAssumption
  DEF RingInv, Shape, ControlsFiled, PushControl, ControlHasCapacity
<1>2. r \in Record /\ r.kind \in ControlKinds /\ r.seq = seq + 1
  BY <1>1 DEF Record, Kinds
<1>3. /\ controlCount' = m /\ controlHead' = controlHead
      /\ controlSlots'
           = [controlSlots EXCEPT ![(controlHead + controlCount) % ControlCap] = r]
      /\ eventSlots' = eventSlots /\ eventHead' = eventHead /\ eventCount' = eventCount
      /\ droppedCount' = droppedCount
      /\ out' = out /\ poppedCount' = poppedCount
  BY DEF PushControl, eventRing
<1>4. r = Channel!Next0(kind) /\ kind \in Channel!ControlKinds /\ m = controlCount + 1
  BY DEF Channel!Next0, Channel!ControlKinds, ControlKinds
<1> HIDE DEF r, m
<1>5. /\ controlSlots' \in [0..ControlCap - 1 -> Record]
      /\ Filed(controlSlots', controlHead, m, ControlCap, ControlKinds, seq + 1)
      /\ Gains(controlSlots, controlSlots', controlHead, controlCount, m, ControlCap, r)
  <2>1. seq \in Nat
    BY <1>1
  <2>2. Pushed(controlSlots, controlSlots', controlHead, controlCount, ControlCap, r)
    BY <1>1, <1>3 DEF Pushed
  <2>3. (controlHead + controlCount) % ControlCap \in 0..ControlCap - 1
    BY <1>1, <1>2, <1>4, <2>1, <2>2, RingPush
  <2>4. Filed(controlSlots', controlHead, m, ControlCap, ControlKinds, seq + 1)
    BY <1>1, <1>2, <1>4, <2>1, <2>2, RingPush
  <2>5. Gains(controlSlots, controlSlots', controlHead, controlCount, m, ControlCap, r)
    BY <1>1, <1>2, <1>4, <2>1, <2>2, RingPush
  <2>6. controlSlots' \in [0..ControlCap - 1 -> Record]
    BY <1>1, <1>2, <1>3, <2>3
  <2> QED
    BY <2>4, <2>5, <2>6
<1>6. ControlsFiled' /\ LiveControls' = LiveControls \cup {r}
  BY <1>1, <1>3, <1>5, Zenon DEF ControlsFiled, LiveControls, Gains
<1>7. EventsFiled' /\ LiveEvents' = LiveEvents
  <2>1. Filed(eventSlots, eventHead, eventCount, EventCap, {"EVENT"}, seq) /\ seq \in Nat
    BY <1>1 DEF RingInv, EventsFiled
  <2>2. Filed(eventSlots, eventHead, eventCount, EventCap, {"EVENT"}, seq + 1)
    BY <2>1, FiledUp
  <2> QED
    BY <1>1, <1>3, <2>2, Zenon DEF EventsFiled, LiveEvents
<1>8. Shape'
  <2>1. controlCount' \in 0..ControlCap /\ seq' \in 0..MaxSeq
    BY <1>1, <1>3, <1>4
  <2>2. /\ eventSlots' \in [0..EventCap - 1 -> Record]
        /\ eventHead' \in 0..EventCap - 1
        /\ eventCount' \in 0..EventCap
        /\ controlHead' \in 0..ControlCap - 1
        /\ droppedCount' \in Nat /\ poppedCount' \in Nat
        /\ out' \in Record
    BY <1>3 DEF RingInv, Shape
  <2> QED
    BY <1>5, <2>1, <2>2 DEF Shape
<1>9. Accounted'
  <2>1. /\ seq = poppedCount + eventCount + controlCount + droppedCount
        /\ {eventCount, controlCount, droppedCount, poppedCount} \subseteq Nat
    BY CapacityAssumption DEF RingInv, Shape, Accounted
  <2>2. seq + 1 = poppedCount + eventCount + m + droppedCount
    BY <1>4, <2>1
  <2> QED
    BY <1>1, <1>3, <2>2 DEF Accounted
<1>10. Channel!PostControl
  <2>1. LiveEvents' \cup LiveControls' = (LiveEvents \cup LiveControls) \cup {r}
    BY <1>6, <1>7
  <2>2. Channel!Cardinality(Channel!Controls) < ControlCap
    BY <1>1, ChannelRings
  <2> QED
    BY <1>1, <1>3, <1>4, <2>1, <2>2 DEF Channel!PostControl
<1> QED
  BY <1>6, <1>7, <1>8, <1>9, <1>10 DEF RingInv

\* A pop takes the smallest seq of both rings.
LEMMA PopControlKeeps ==
    ASSUME RingInv, PopControl
    PROVE  RingInv' /\ Channel!Take
<1> DEFINE r == controlSlots[controlHead]
<1>1. /\ controlCount # 0
      /\ eventCount = 0 \/ controlSlots[controlHead].seq < eventSlots[eventHead].seq
      /\ out' = r
      /\ controlHead' = (controlHead + 1) % ControlCap
      /\ controlCount' = controlCount - 1
      /\ poppedCount' = poppedCount + 1
      /\ controlSlots' = controlSlots
      /\ eventSlots' = eventSlots /\ eventHead' = eventHead /\ eventCount' = eventCount
      /\ droppedCount' = droppedCount /\ seq' = seq
  BY DEF PopControl, UseControl, eventRing
<1>2. /\ ControlCap \in Nat \ {0} /\ controlCount \in 0..ControlCap
      /\ controlHead \in 0..ControlCap - 1
      /\ controlSlots \in [0..ControlCap - 1 -> Record]
      /\ poppedCount \in Nat /\ seq \in 0..MaxSeq
  BY CapacityAssumption DEF RingInv, Shape
<1>3. /\ r \in LiveControls
      /\ \A e \in LiveControls : e = r \/ r.seq < e.seq
      /\ (controlHead + 1) % ControlCap \in 0..ControlCap - 1
      /\ Filed(controlSlots, (controlHead + 1) % ControlCap, controlCount - 1,
               ControlCap, ControlKinds, seq)
      /\ Live(controlSlots, (controlHead + 1) % ControlCap, controlCount - 1, ControlCap)
           = LiveControls \ {r}
  BY <1>1, ControlRing
<1>4. r.kind \in ControlKinds /\ r.seq \in 1..seq
  BY <1>3, ControlRing
<1>5. r \in Record
  BY <1>2
<1>6. \A e \in LiveEvents : r.seq < e.seq
  <2>1. CASE eventCount = 0
    <3>1. LiveEvents = {}
      <4>1. 0..eventCount - 1 = {}
        BY <2>1
      <4> QED
        BY <4>1 DEF LiveEvents, Live
    <3> QED
      BY <3>1
  <2>2. CASE eventCount # 0
    <3>1. r.seq < eventSlots[eventHead].seq
      BY <1>1, <2>2
    <3>2. /\ eventSlots[eventHead] \in LiveEvents
          /\ \A e \in LiveEvents :
                e = eventSlots[eventHead] \/ eventSlots[eventHead].seq < e.seq
          /\ \A e \in LiveEvents : e.seq \in 1..seq
      BY <2>2, EventRing
    <3> QED
      BY <1>4, <3>1, <3>2
  <2> QED
    BY <2>1, <2>2
<1> HIDE DEF r
<1>7. ControlsFiled' /\ LiveControls' = LiveControls \ {r}
  BY <1>1, <1>3, Zenon DEF ControlsFiled, LiveControls
<1>8. EventsFiled' /\ LiveEvents' = LiveEvents
  <2>1. EventsFiled
    BY DEF RingInv
  <2> QED
    BY <1>1, <2>1 DEF EventsFiled, LiveEvents
<1>9. Shape'
  <2>1. controlCount' \in 0..ControlCap /\ poppedCount' \in Nat
    BY <1>1, <1>2
  <2>2. /\ eventSlots' \in [0..EventCap - 1 -> Record]
        /\ eventHead' \in 0..EventCap - 1
        /\ eventCount' \in 0..EventCap
        /\ controlSlots' \in [0..ControlCap - 1 -> Record]
        /\ droppedCount' \in Nat /\ seq' \in 0..MaxSeq
    BY <1>1 DEF RingInv, Shape
  <2>3. controlHead' \in 0..ControlCap - 1 /\ out' \in Record
    BY <1>1, <1>3, <1>5
  <2> QED
    BY <2>1, <2>2, <2>3 DEF Shape
<1>10. Accounted'
  <2>1. /\ seq = poppedCount + eventCount + controlCount + droppedCount
        /\ {eventCount, controlCount, droppedCount, poppedCount} \subseteq Nat
    BY CapacityAssumption DEF RingInv, Shape, Accounted
  <2>2. seq = (poppedCount + 1) + eventCount + (controlCount - 1) + droppedCount
    BY <2>1
  <2> QED
    BY <1>1, <2>2 DEF Accounted
<1>11. Channel!Take
  <2>1. r \notin LiveEvents
    BY <1>4, EventRing DEF ControlKinds
  <2>2. LiveEvents' \cup LiveControls' = (LiveEvents \cup LiveControls) \ {r}
    BY <1>7, <1>8, <2>1
  <2>3. \A e \in LiveEvents \cup LiveControls : r.seq <= e.seq
    BY <1>3, <1>4, <1>6, EventRing, ControlRing
  <2> QED
    BY <1>1, <1>3, <2>2, <2>3 DEF Channel!Take, Channel!Oldest
<1> QED
  BY <1>7, <1>8, <1>9, <1>10, <1>11 DEF RingInv

LEMMA PopEventKeeps ==
    ASSUME RingInv, PopEvent
    PROVE  RingInv' /\ Channel!Take
<1> DEFINE r == eventSlots[eventHead]
<1>1. /\ eventCount # 0
      /\ controlCount = 0 \/ ~(controlSlots[controlHead].seq < eventSlots[eventHead].seq)
      /\ out' = r
      /\ eventHead' = (eventHead + 1) % EventCap
      /\ eventCount' = eventCount - 1
      /\ poppedCount' = poppedCount + 1
      /\ eventSlots' = eventSlots
      /\ controlSlots' = controlSlots /\ controlHead' = controlHead
      /\ controlCount' = controlCount
      /\ droppedCount' = droppedCount /\ seq' = seq
  BY DEF PopEvent, UseControl, controlRing
<1>2. /\ EventCap \in Nat \ {0} /\ eventCount \in 0..EventCap
      /\ eventHead \in 0..EventCap - 1
      /\ eventSlots \in [0..EventCap - 1 -> Record]
      /\ poppedCount \in Nat /\ seq \in 0..MaxSeq
  BY CapacityAssumption DEF RingInv, Shape
<1>3. /\ r \in LiveEvents
      /\ \A e \in LiveEvents : e = r \/ r.seq < e.seq
      /\ (eventHead + 1) % EventCap \in 0..EventCap - 1
      /\ Filed(eventSlots, (eventHead + 1) % EventCap, eventCount - 1, EventCap,
               {"EVENT"}, seq)
      /\ Live(eventSlots, (eventHead + 1) % EventCap, eventCount - 1, EventCap)
           = LiveEvents \ {r}
  BY <1>1, EventRing
<1>4. r.kind = "EVENT" /\ r.seq \in 1..seq
  BY <1>3, EventRing
<1>5. r \in Record
  BY <1>2
<1>6. \A e \in LiveControls : r.seq <= e.seq
  <2>1. CASE controlCount = 0
    <3>1. 0..controlCount - 1 = {}
      BY <2>1
    <3> QED
      BY <3>1 DEF LiveControls, Live
  <2>2. CASE controlCount # 0
    <3>1. ~(controlSlots[controlHead].seq < r.seq)
      BY <1>1, <2>2
    <3>2. /\ controlSlots[controlHead] \in LiveControls
          /\ \A e \in LiveControls :
                e = controlSlots[controlHead] \/ controlSlots[controlHead].seq < e.seq
          /\ \A e \in LiveControls : e.seq \in 1..seq
      BY <2>2, ControlRing
    <3> QED
      BY <1>4, <3>1, <3>2
  <2> QED
    BY <2>1, <2>2
<1> HIDE DEF r
<1>7. EventsFiled' /\ LiveEvents' = LiveEvents \ {r}
  BY <1>1, <1>3, Zenon DEF EventsFiled, LiveEvents
<1>8. ControlsFiled' /\ LiveControls' = LiveControls
  <2>1. ControlsFiled
    BY DEF RingInv
  <2> QED
    BY <1>1, <2>1 DEF ControlsFiled, LiveControls
<1>9. Shape'
  <2>1. eventCount' \in 0..EventCap /\ poppedCount' \in Nat
    BY <1>1, <1>2
  <2>2. /\ eventSlots' \in [0..EventCap - 1 -> Record]
        /\ controlSlots' \in [0..ControlCap - 1 -> Record]
        /\ controlHead' \in 0..ControlCap - 1
        /\ controlCount' \in 0..ControlCap
        /\ droppedCount' \in Nat /\ seq' \in 0..MaxSeq
    BY <1>1 DEF RingInv, Shape
  <2>3. eventHead' \in 0..EventCap - 1 /\ out' \in Record
    BY <1>1, <1>3, <1>5
  <2> QED
    BY <2>1, <2>2, <2>3 DEF Shape
<1>10. Accounted'
  <2>1. /\ seq = poppedCount + eventCount + controlCount + droppedCount
        /\ {eventCount, controlCount, droppedCount, poppedCount} \subseteq Nat
    BY CapacityAssumption DEF RingInv, Shape, Accounted
  <2>2. seq = (poppedCount + 1) + (eventCount - 1) + controlCount + droppedCount
    BY <2>1
  <2> QED
    BY <1>1, <2>2 DEF Accounted
<1>11. Channel!Take
  <2>1. r \notin LiveControls
    BY <1>4, ControlRing DEF ControlKinds
  <2>2. LiveEvents' \cup LiveControls' = (LiveEvents \cup LiveControls) \ {r}
    BY <1>7, <1>8, <2>1
  <2>3. \A e \in LiveEvents \cup LiveControls : r.seq <= e.seq
    BY <1>3, <1>4, <1>6, EventRing
  <2> QED
    BY <1>1, <1>3, <2>2, <2>3 DEF Channel!Take, Channel!Oldest
<1> QED
  BY <1>7, <1>8, <1>9, <1>10, <1>11 DEF RingInv

LEMMA RingStep == RingInv /\ [Next]_vars => RingInv' /\ [Channel!Next]_(Channel!vars)
<1> SUFFICES ASSUME RingInv, [Next]_vars PROVE RingInv' /\ [Channel!Next]_(Channel!vars)
  OBVIOUS
<1>1. CASE PushEvent
  BY <1>1, PushEventKeeps DEF Channel!Next
<1>2. ASSUME NEW kind \in ControlKinds, PushControl(kind)
      PROVE  RingInv' /\ Channel!Next
  BY <1>2, PushControlKeeps DEF Channel!Next
<1>3. CASE PopControl
  BY <1>3, PopControlKeeps DEF Channel!Next
<1>4. CASE PopEvent
  BY <1>4, PopEventKeeps DEF Channel!Next
<1>5. CASE UNCHANGED vars
  BY <1>5 DEF vars, eventRing, controlRing, RingInv, Shape, Accounted, EventsFiled,
     ControlsFiled, LiveEvents, LiveControls, Channel!vars
<1> QED
  BY <1>1, <1>2, <1>3, <1>4, <1>5 DEF Next, RejectControl, PopEmpty

LEMMA RingInvHolds == Spec => []RingInv
BY RingInit, RingStep, PTL DEF Spec

-----------------------------------------------------------------------------
\* head, count and every slot stay in the range of the ring, whatever the
\* capacities are and however often the rings wrap.
THEOREM RingTypes == Spec => []TypeOK
<1>1. RingInv => TypeOK
  <2> SUFFICES ASSUME RingInv PROVE TypeOK
    OBVIOUS
  <2>1. /\ MaxSeq \in Nat /\ seq \in 0..MaxSeq
        /\ {eventCount, controlCount, droppedCount, poppedCount} \subseteq Nat
        /\ seq = poppedCount + eventCount + controlCount + droppedCount
    BY CapacityAssumption DEF RingInv, Shape, Accounted
  <2>2. droppedCount \in 0..MaxSeq /\ poppedCount \in 0..MaxSeq
    BY <2>1
  <2> QED
    BY <2>2 DEF RingInv, Shape, TypeOK
<1> QED
  BY <1>1, RingInvHolds, PTL

\* Every accepted seq is in a ring once, was popped, or is counted in
\* dropped_event_count.
THEOREM NothingLost == Spec => []NothingLostUncounted
<1>1. RingInv => NothingLostUncounted
  BY EventRing, ControlRing DEF RingInv, Accounted, NothingLostUncounted
<1> QED
  BY <1>1, RingInvHolds, PTL

\* The header's two rings are the merged channel, for all capacities.
THEOREM RingsImplementChannel == Spec => ImplementsChannel
BY RingInit, RingStep, RingInvHolds, PTL DEF Spec, ImplementsChannel, Channel!Spec
=============================================================================
