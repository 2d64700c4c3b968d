---------------------------- MODULE ReplayProofs ----------------------------
(***************************************************************************)
(* Proofs about Replay for any fingers, keys of the test macro, slots and  *)
(* sizes of the queue: an automatic hit counts once, and no source is held *)
(* without a release to come.                                              *)
(***************************************************************************)
EXTENDS Replay, QueueLemmas

-----------------------------------------------------------------------------
(* The inductive invariant of the held sources.                            *)

Keys == Range(MacroKeys)
Sources == Fingers \cup Keys

Edges == [type : {"DOWN", "UP"}, source : Sources]
Orders == [type : {"DOWN", "UP", "TRYUP", "HOLD", "RELEASE"}, source : Keys,
           endTap : BOOLEAN]
Holds == {NoHold} \cup [active : {TRUE}, source : Keys, endTap : BOOLEAN]
Everything == Sources \cup {Synthetic}
Runtimes == [queue : Seq(Edges), physical : SUBSET Fingers, held : Seq(Everything),
             hold : Holds, orphans : SUBSET Everything]

Types ==
    /\ enabled \in BOOLEAN /\ macroOn \in BOOLEAN /\ suspending \in BOOLEAN
    /\ gate \in BOOLEAN
    /\ rt \in Runtimes
    /\ todo \in Seq(Orders) /\ saved \in Seq(Everything)

\* What is held, or will be put back when the automatic hit is over.
Kept == IF InTransaction THEN saved ELSE rt.held

NoneTwice(h) == \A i, j \in 1..Len(h) : h[i] = h[j] => i = j

HeldApart ==
    /\ NoneTwice(Kept) /\ Range(Kept) \subseteq Sources
    /\ ~InTransaction => saved = <<>>
    /\ pc # "post" => todo = <<>>

\* With the gate closed nothing waits and nothing is held, but for orphans.
Drained ==
    /\ ~gate => rt.queue = <<>> /\ Range(Kept) \subseteq rt.orphans
    /\ ~enabled => suspending \/ ~gate

Is(e, type, s) == e.type = type /\ e.source = s
Without(q, s) == \A i \in 1..Len(q) : q[i].source # s
EndsDown(q, s) == \E i \in 1..Len(q) :
                     /\ Is(q[i], "DOWN", s)
                     /\ \A j \in 1..Len(q) : i < j => q[j].source # s

NoUp(q, s) == \A i \in 1..Len(q) : ~Is(q[i], "UP", s)
DownsFirst(q, s) == \A i, j \in 1..Len(q) :
                       i < j => ~(Is(q[i], "UP", s) /\ Is(q[j], "DOWN", s))

\* The macro never lets a key go and presses it again in one plan.
PressedOnce(q) == \A s \in Keys : DownsFirst(q, s)

\* The order lets the source go, now or when the hold it begins ends.
LetsGo(o, s) == \/ Is(o, "UP", s) \/ Is(o, "TRYUP", s)
                \/ Is(o, "HOLD", s) /\ ~o.endTap

\* What the macro still has to post, with r under the lock.  An order to press
\* is followed by one to let go, and none to let go stands before it.
LetsGoAfter(plan, i) ==
    \E j \in 1..Len(plan) : i < j /\ LetsGo(plan[j], plan[i].source)
PressesFirst(plan, i) ==
    \A j \in 1..Len(plan) : j < i => /\ ~Is(plan[j], "UP", plan[i].source)
                                     /\ ~Is(plan[j], "TRYUP", plan[i].source)
OnlyHold(plan, i) ==
    \A j \in 1..Len(plan) : /\ plan[j].type # "RELEASE"
                            /\ plan[j].type = "HOLD" => j = i

PlanSound(r, plan) ==
    \A i \in 1..Len(plan) :
        /\ plan[i].type = "DOWN" => /\ NoUp(r.queue, plan[i].source)
                                    /\ LetsGoAfter(plan, i) /\ PressesFirst(plan, i)
        /\ plan[i].type = "HOLD" => ~r.hold.active /\ OnlyHold(plan, i)
        /\ plan[i].type = "RELEASE" /\ r.hold.active => r.hold.source = plan[i].source

\* Somebody is committed to letting s go.
HoldEnds(r, plan, on, s) ==
    /\ on /\ r.hold.active /\ r.hold.source = s /\ ~r.hold.endTap
    /\ \A i \in 1..Len(plan) : ~Is(plan[i], "RELEASE", s)
PlanLetsGo(plan, s) == \E i \in 1..Len(plan) : LetsGo(plan[i], s)
Committed(r, plan, on, s) ==
    s \in r.physical \/ HoldEnds(r, plan, on, s) \/ PlanLetsGo(plan, s)

\* The game holds s when the queue has been replayed.
StaysDown(r, kept, s) ==
    \/ EndsDown(r.queue, s)
    \/ Without(r.queue, s) /\ s \in Range(kept) /\ s \notin r.orphans

ReleaseComes(r, kept, plan, on) ==
    \A s \in Sources : StaysDown(r, kept, s) =>
        Committed(r, plan, on, s) \/ (s \in Keys /\ s \in r.orphans)

HeldInv ==
    /\ Types /\ HeldApart /\ Drained
    /\ PressedOnce(rt.queue) /\ PlanSound(rt, todo)
    /\ ~suspending => ReleaseComes(rt, Kept, todo, macroOn)

-----------------------------------------------------------------------------
(* The inductive invariant of the automatic hit.                           *)

HitTypes ==
    /\ enabled \in BOOLEAN /\ autoOn \in BOOLEAN /\ switched \in BOOLEAN
    /\ hits \in Nat
    /\ tx \in [started : BOOLEAN, finished : BOOLEAN]

Fresh == ~tx.started /\ ~tx.finished

\* Until a switch is thrown: how many hits, and where the transaction stands.
HitProgress ==
    /\ pc \in {"consume", "nested", "committing"} => InterceptsAuto
    /\ pc = "consume" => hits = 0
    /\ pc = "nested" => (Fresh /\ hits = 0) \/ (tx.started /\ tx.finished /\ hits = 1)
    /\ pc = "committing" => tx.started /\ hits = 1
    /\ pc = "hitReturns" => hits = 1

HitInv == HitTypes /\ (~switched => HitProgress)

-----------------------------------------------------------------------------
(* An automatic hit counts once.                                           *)

LEMMA HitInitially == Init => HitInv
<1> SUFFICES ASSUME Init PROVE HitInv
  OBVIOUS
<1>1. HitTypes
  BY DEF Init, HitTypes, NoTransaction
<1>2. HitProgress
  BY DEF Init, HitProgress
<1> QED
  BY <1>1, <1>2 DEF HitInv

LEMMA HitTyped == HitTypes /\ [Next]_vars => HitTypes'
<1> SUFFICES ASSUME HitTypes, [Next]_vars PROVE HitTypes'
  OBVIOUS
<1>1. CASE Edge
  BY <1>1 DEF Edge, control, frame, autoHit, HitTypes, NoTransaction
<1>2. CASE Clear
  BY <1>2 DEF Clear, control, frame, autoHit, HitTypes, NoTransaction
<1>3. CASE Suspend
  BY <1>3 DEF Suspend, control, frame, autoHit, HitTypes, NoTransaction
<1>4. CASE FinishSuspend
  BY <1>4 DEF FinishSuspend, control, frame, autoHit, HitTypes, NoTransaction
<1>5. CASE Resume
  BY <1>5 DEF Resume, control, frame, autoHit, HitTypes, NoTransaction
<1>6. CASE SwitchAuto
  BY <1>6 DEF SwitchAuto, control, frame, autoHit, HitTypes, NoTransaction
<1>7. CASE SwitchMacro
  BY <1>7 DEF SwitchMacro, control, frame, autoHit, HitTypes, NoTransaction
<1>8. CASE StateChanges
  BY <1>8 DEF StateChanges, control, frame, autoHit, HitTypes, NoTransaction
<1>9. CASE IdleFrame
  BY <1>9 DEF IdleFrame, control, frame, autoHit, HitTypes, NoTransaction
<1>10. CASE BeginReplay
  BY <1>10 DEF BeginReplay, control, frame, autoHit, HitTypes, NoTransaction
<1>11. CASE PlanMacro
  BY <1>11 DEF PlanMacro, control, frame, autoHit, HitTypes, NoTransaction
<1>12. CASE NothingToPost
  BY <1>12 DEF NothingToPost, control, frame, autoHit, HitTypes, NoTransaction
<1>13. CASE PostEdge
  BY <1>13 DEF PostEdge, control, frame, autoHit, HitTypes, NoTransaction
<1>14. CASE SetHold
  BY <1>14 DEF SetHold, control, frame, autoHit, HitTypes, NoTransaction
<1>15. CASE PopBurst
  BY <1>15 DEF PopBurst, control, frame, autoHit, HitTypes, NoTransaction
<1>16. CASE NothingDue
  BY <1>16 DEF NothingDue, control, frame, autoHit, HitTypes, NoTransaction
<1>17. CASE ShowBurst
  BY <1>17 DEF ShowBurst, control, frame, autoHit, HitTypes, NoTransaction
<1>18. CASE GameReturns
  BY <1>18 DEF GameReturns, control, frame, autoHit, HitTypes, NoTransaction
<1>19. CASE HitAuto
  <2>1. hits' \in {0, 1} /\ switched' = FALSE /\ UNCHANGED <<enabled, autoOn, tx>>
    BY <1>19 DEF HitAuto, control
  <2>2. hits' \in Nat
    BY <2>1
  <2>3. switched' \in BOOLEAN
    BY <2>1
  <2> QED
    BY <2>1, <2>2, <2>3 DEF HitTypes
<1>20. CASE FlagUnavailable
  BY <1>20 DEF FlagUnavailable, control, frame, autoHit, HitTypes, NoTransaction
<1>21. CASE BeginTransaction
  BY <1>21 DEF BeginTransaction, control, frame, autoHit, HitTypes, NoTransaction
<1>22. CASE NestedHit
  <2>1. /\ tx' = tx \/ tx' = [tx EXCEPT !.started = TRUE]
        /\ hits' = hits + 1 /\ UNCHANGED <<enabled, autoOn, switched>>
    BY <1>22 DEF NestedHit, control
  <2>2. tx' \in [started : BOOLEAN, finished : BOOLEAN]
    <3>1. tx \in [started : BOOLEAN, finished : BOOLEAN]
      BY DEF HitTypes
    <3>2. [tx EXCEPT !.started = TRUE] \in [started : BOOLEAN, finished : BOOLEAN]
      BY <3>1
    <3> QED
      BY <2>1, <3>1, <3>2
  <2>3. hits' \in Nat
    <3>1. hits \in Nat /\ hits' = hits + 1
      BY <2>1 DEF HitTypes
    <3> QED
      BY <3>1
  <2> QED
    BY <2>1, <2>2, <2>3 DEF HitTypes
<1>23. CASE FinishCommit
  BY <1>23 DEF FinishCommit, control, frame, autoHit, HitTypes, NoTransaction
<1>24. CASE EndTransaction
  <2>1. /\ hits' = hits \/ hits' = hits + 1
        /\ UNCHANGED <<enabled, autoOn, switched, tx>>
    BY <1>24 DEF EndTransaction, control
  <2> QED
    BY <2>1 DEF HitTypes
<1>25. CASE HitReturns
  BY <1>25 DEF HitReturns, control, frame, autoHit, HitTypes, NoTransaction
<1>26. CASE UNCHANGED vars
  BY <1>26 DEF vars, HitTypes, NoTransaction
<1> QED
  BY <1>1, <1>2, <1>3, <1>4, <1>5, <1>6, <1>7, <1>8, <1>9, <1>10, <1>11, <1>12, <1>13,
     <1>14, <1>15, <1>16, <1>17, <1>18, <1>19, <1>20, <1>21, <1>22, <1>23, <1>24,
     <1>25, <1>26 DEF Next

LEMMA HitKept ==
    ASSUME HitTypes, HitTypes', ~switched => HitProgress, [Next]_vars, ~switched'
    PROVE  HitProgress'
<1>1. CASE Edge
  BY <1>1 DEF Edge, control, frame, autoHit, HitTypes, HitProgress, InterceptsAuto, Fresh, NoTransaction, MayCommit
<1>2. CASE Clear
  BY <1>2 DEF Clear, control, frame, autoHit, HitTypes, HitProgress, InterceptsAuto, Fresh, NoTransaction, MayCommit
<1>3. CASE Suspend
  BY <1>3 DEF Suspend, control, frame, autoHit, HitTypes, HitProgress, InterceptsAuto, Fresh, NoTransaction, MayCommit
<1>4. CASE FinishSuspend
  BY <1>4 DEF FinishSuspend, control, frame, autoHit, HitTypes, HitProgress, InterceptsAuto, Fresh, NoTransaction, MayCommit
<1>5. CASE Resume
  BY <1>5 DEF Resume, control, frame, autoHit, HitTypes, HitProgress, InterceptsAuto, Fresh, NoTransaction, MayCommit
<1>6. CASE SwitchAuto
  BY <1>6 DEF SwitchAuto, control, frame, autoHit, HitTypes, HitProgress, InterceptsAuto, Fresh, NoTransaction, MayCommit
<1>7. CASE SwitchMacro
  BY <1>7 DEF SwitchMacro, control, frame, autoHit, HitTypes, HitProgress, InterceptsAuto, Fresh, NoTransaction, MayCommit
<1>8. CASE StateChanges
  BY <1>8 DEF StateChanges, control, frame, autoHit, HitTypes, HitProgress, InterceptsAuto, Fresh, NoTransaction, MayCommit
<1>9. CASE IdleFrame
  BY <1>9 DEF IdleFrame, control, frame, autoHit, HitTypes, HitProgress, InterceptsAuto, Fresh, NoTransaction, MayCommit
<1>10. CASE BeginReplay
  BY <1>10 DEF BeginReplay, control, frame, autoHit, HitTypes, HitProgress, InterceptsAuto, Fresh, NoTransaction, MayCommit
<1>11. CASE PlanMacro
  BY <1>11 DEF PlanMacro, control, frame, autoHit, HitTypes, HitProgress, InterceptsAuto, Fresh, NoTransaction, MayCommit
<1>12. CASE NothingToPost
  BY <1>12 DEF NothingToPost, control, frame, autoHit, HitTypes, HitProgress, InterceptsAuto, Fresh, NoTransaction, MayCommit
<1>13. CASE PostEdge
  BY <1>13 DEF PostEdge, control, frame, autoHit, HitTypes, HitProgress, InterceptsAuto, Fresh, NoTransaction, MayCommit
<1>14. CASE SetHold
  BY <1>14 DEF SetHold, control, frame, autoHit, HitTypes, HitProgress, InterceptsAuto, Fresh, NoTransaction, MayCommit
<1>15. CASE PopBurst
  BY <1>15 DEF PopBurst, control, frame, autoHit, HitTypes, HitProgress, InterceptsAuto, Fresh, NoTransaction, MayCommit
<1>16. CASE NothingDue
  BY <1>16 DEF NothingDue, control, frame, autoHit, HitTypes, HitProgress, InterceptsAuto, Fresh, NoTransaction, MayCommit
<1>17. CASE ShowBurst
  BY <1>17 DEF ShowBurst, control, frame, autoHit, HitTypes, HitProgress, InterceptsAuto, Fresh, NoTransaction, MayCommit
<1>18. CASE GameReturns
  BY <1>18 DEF GameReturns, control, frame, autoHit, HitTypes, HitProgress, InterceptsAuto, Fresh, NoTransaction, MayCommit
<1>19. CASE HitAuto
  BY <1>19 DEF HitAuto, control, frame, autoHit, HitTypes, HitProgress, InterceptsAuto, Fresh, NoTransaction, MayCommit
<1>20. CASE FlagUnavailable
  BY <1>20 DEF FlagUnavailable, control, frame, autoHit, HitTypes, HitProgress, InterceptsAuto, Fresh, NoTransaction, MayCommit
<1>21. CASE BeginTransaction
  BY <1>21 DEF BeginTransaction, control, frame, autoHit, HitTypes, HitProgress, InterceptsAuto, Fresh, NoTransaction, MayCommit
<1>22. CASE NestedHit
  BY <1>22 DEF NestedHit, control, frame, autoHit, HitTypes, HitProgress, InterceptsAuto, Fresh, NoTransaction, MayCommit
<1>23. CASE FinishCommit
  BY <1>23 DEF FinishCommit, control, frame, autoHit, HitTypes, HitProgress, InterceptsAuto, Fresh, NoTransaction, MayCommit
<1>24. CASE EndTransaction
  BY <1>24 DEF EndTransaction, control, frame, autoHit, HitTypes, HitProgress, InterceptsAuto, Fresh, NoTransaction, MayCommit
<1>25. CASE HitReturns
  BY <1>25 DEF HitReturns, control, frame, autoHit, HitTypes, HitProgress, InterceptsAuto, Fresh, NoTransaction, MayCommit
<1>26. CASE UNCHANGED vars
  BY <1>26 DEF vars, HitTypes, HitProgress, InterceptsAuto, Fresh, NoTransaction, MayCommit
<1> QED
  BY <1>1, <1>2, <1>3, <1>4, <1>5, <1>6, <1>7, <1>8, <1>9, <1>10, <1>11, <1>12, <1>13,
     <1>14, <1>15, <1>16, <1>17, <1>18, <1>19, <1>20, <1>21, <1>22, <1>23, <1>24,
     <1>25, <1>26 DEF Next

\* Whatever the game does inside an automatic hit, and however often it hits
\* there, the level moves by one hit, unless a switch is thrown meanwhile.
THEOREM AutoHitCountsOnce == Spec => []AutoHitsOnce
<1>1. HitInv /\ [Next]_vars => HitInv'
  <2> SUFFICES ASSUME HitInv, [Next]_vars PROVE HitInv'
    OBVIOUS
  <2>1. HitTypes /\ (~switched => HitProgress)
    BY DEF HitInv
  <2>2. HitTypes'
    BY <2>1, HitTyped
  <2>3. ~switched' => HitProgress'
    BY <2>1, <2>2, HitKept
  <2> QED
    BY <2>2, <2>3 DEF HitInv
<1>2. HitInv => AutoHitsOnce
  BY DEF HitInv, HitTypes, HitProgress, AutoHitsOnce
<1> QED
  BY <1>1, <1>2, HitInitially, PTL DEF Spec

-----------------------------------------------------------------------------
(* Edges that enter and leave the queue.                                   *)

LEMMA InsertFacts ==
    ASSUME NEW q \in Seq(Edges), NEW e \in Edges, NEW i \in 1..Len(q) + 1
    PROVE  /\ InsertAt(q, i, e) \in Seq(Edges)
           /\ Len(InsertAt(q, i, e)) = Len(q) + 1
           /\ \A j \in 1..Len(q) + 1 : InsertAt(q, i, e)[j] =
                IF j < i THEN q[j] ELSE IF j = i THEN e ELSE q[j - 1]
<1>1. InsertAt(q, i, e) = Splice(q, i, e)
  BY DEF InsertAt, Splice
<1>2. /\ Splice(q, i, e) \in Seq(Edges)
      /\ Len(Splice(q, i, e)) = Len(q) + 1
      /\ \A j \in 1..Len(q) + 1 : Splice(q, i, e)[j] =
           IF j < i THEN q[j] ELSE IF j = i THEN e ELSE q[j - 1]
  BY SpliceFacts, SMTT(30)
<1> QED
  BY <1>1, <1>2, Zenon

\* The queue p is q with the edge e behind all edges of its source.
Entered(p, q, e) ==
    /\ Len(p) = Len(q) + 1
    /\ \E i \in 1..Len(q) + 1 :
          /\ \A j \in i..Len(q) : q[j].source # e.source
          /\ \A j \in 1..Len(q) + 1 :
                p[j] = IF j < i THEN q[j] ELSE IF j = i THEN e ELSE q[j - 1]

LEMMA InsertEnters ==
    ASSUME NEW q \in Seq(Edges), NEW e \in Edges, NEW i \in Places(q, e.source)
    PROVE  InsertAt(q, i, e) \in Seq(Edges) /\ Entered(InsertAt(q, i, e), q, e)
<1>1. i \in 1..Len(q) + 1 /\ \A j \in i..Len(q) : q[j].source # e.source
  BY DEF Places
<1> QED
  BY <1>1, InsertFacts DEF Entered

\* Where the entries of the longer queue come from, and where those of the
\* shorter one went.
Moves(p, q, e, i, to) ==
    /\ i \in 1..Len(p) /\ to \in [1..Len(q) -> 1..Len(p)]
    /\ p[i] = e
    /\ \A j \in 1..Len(q) : p[to[j]] = q[j] /\ to[j] # i
    /\ \A j \in 1..Len(q) : q[j].source = e.source => to[j] < i
    /\ \A j, k \in 1..Len(q) : j < k <=> to[j] < to[k]
    /\ \A j \in 1..Len(p) : j = i \/ \E k \in 1..Len(q) : j = to[k]

LEMMA EnteredWhere ==
    ASSUME NEW p, NEW q, NEW e, Len(q) \in Nat, Entered(p, q, e)
    PROVE  \E i, to : Moves(p, q, e, i, to)
<1>1. PICK i \in 1..Len(q) + 1 :
         /\ \A j \in i..Len(q) : q[j].source # e.source
         /\ \A j \in 1..Len(q) + 1 :
               p[j] = IF j < i THEN q[j] ELSE IF j = i THEN e ELSE q[j - 1]
  BY DEF Entered
<1>2. Len(p) = Len(q) + 1 /\ Len(q) \in Nat /\ i \in 1..Len(p)
  BY DEF Entered
<1> DEFINE n == Len(q)
<1> DEFINE to == [j \in 1..n |-> IF j < i THEN j ELSE j + 1]
<1> HIDE DEF n
<1>3. /\ n \in Nat /\ Len(q) = n /\ Len(p) = n + 1 /\ i \in 1..n + 1
  BY <1>2 DEF n
<1>4. to \in [1..n -> 1..n + 1]
  BY <1>3
<1>5. \A j \in 1..n : to[j] = IF j < i THEN j ELSE j + 1
  OBVIOUS
<1> HIDE DEF to
<1>6. p[i] = e
  BY <1>1, <1>3
<1>7. \A j \in 1..n : p[to[j]] = q[j] /\ to[j] # i
  BY <1>1, <1>3, <1>5
<1>8. \A j \in 1..n : q[j].source = e.source => to[j] < i
  BY <1>1, <1>3, <1>5
<1>9. \A j, k \in 1..n : j < k <=> to[j] < to[k]
  BY <1>3, <1>5
<1>10. \A j \in 1..n + 1 : j = i \/ \E k \in 1..n : j = to[k]
  <2> SUFFICES ASSUME NEW j \in 1..n + 1, j # i PROVE \E k \in 1..n : j = to[k]
    OBVIOUS
  <2>1. CASE j < i
    BY <1>3, <1>5, <2>1
  <2>2. CASE j > i
    <3>1. j - 1 \in 1..n /\ ~(j - 1 < i)
      BY <1>3, <2>2
    <3>2. to[j - 1] = j
      BY <1>3, <1>5, <3>1
    <3> QED
      BY <3>1, <3>2
  <2> QED
    BY <1>3, <2>1, <2>2
<1>11. Moves(p, q, e, i, to)
  BY <1>3, <1>4, <1>6, <1>7, <1>8, <1>9, <1>10 DEF Moves
<1> QED
  BY <1>11

\* What an edge that enters means for the sources.
LEMMA EnteredFacts ==
    ASSUME NEW p, NEW q, NEW e \in Edges, Len(q) \in Nat, Entered(p, q, e)
    PROVE  /\ \A s : s # e.source =>
                 /\ Without(p, s) => Without(q, s)
                 /\ EndsDown(p, s) => EndsDown(q, s)
                 /\ DownsFirst(q, s) => DownsFirst(p, s)
           /\ \A s : NoUp(q, s) /\ (s # e.source \/ e.type = "DOWN") => NoUp(p, s)
           /\ ~Without(p, e.source)
           /\ e.type = "UP" => ~EndsDown(p, e.source)
           /\ NoUp(q, e.source) \/ (e.type = "UP" /\ DownsFirst(q, e.source))
                 => DownsFirst(p, e.source)
<1>0. Len(p) \in Nat
  BY DEF Entered
<1> PICK i, to : Moves(p, q, e, i, to)
  BY EnteredWhere
<1>1. /\ i \in 1..Len(p) /\ to \in [1..Len(q) -> 1..Len(p)]
      /\ p[i] = e
      /\ \A j \in 1..Len(q) : p[to[j]] = q[j] /\ to[j] # i
      /\ \A j \in 1..Len(q) : q[j].source = e.source => to[j] < i
      /\ \A j, k \in 1..Len(q) : j < k <=> to[j] < to[k]
      /\ \A j \in 1..Len(p) : j = i \/ \E k \in 1..Len(q) : j = to[k]
  BY DEF Moves
<1>2. ASSUME NEW s, s # e.source
      PROVE  /\ Without(p, s) => Without(q, s)
             /\ EndsDown(p, s) => EndsDown(q, s)
             /\ DownsFirst(q, s) => DownsFirst(p, s)
  <2>1. Without(p, s) => Without(q, s)
    BY <1>1 DEF Without
  <2>2. ASSUME EndsDown(p, s) PROVE EndsDown(q, s)
    <3>1. PICK j \in 1..Len(p) : /\ Is(p[j], "DOWN", s)
                                 /\ \A l \in 1..Len(p) : j < l => p[l].source # s
      BY <2>2 DEF EndsDown
    <3>2. j # i
      BY <1>1, <1>2, <3>1 DEF Is
    <3>3. PICK k \in 1..Len(q) : j = to[k]
      BY <1>1, <3>2
    <3>4. Is(q[k], "DOWN", s)
      BY <1>1, <3>1, <3>3
    <3>5. ASSUME NEW l \in 1..Len(q), k < l PROVE q[l].source # s
      <4>1. to[l] \in 1..Len(p) /\ j < to[l] /\ p[to[l]] = q[l]
        BY <1>1, <3>3, <3>5
      <4> QED
        BY <3>1, <4>1
    <3> QED
      BY <3>4, <3>5 DEF EndsDown
  <2>3. ASSUME DownsFirst(q, s) PROVE DownsFirst(p, s)
    <3> SUFFICES ASSUME NEW j \in 1..Len(p), NEW l \in 1..Len(p), j < l,
                        Is(p[j], "UP", s), Is(p[l], "DOWN", s)
                 PROVE  FALSE
      BY DEF DownsFirst
    <3>1. j # i /\ l # i
      BY <1>1, <1>2 DEF Is
    <3>2. PICK k \in 1..Len(q) : j = to[k]
      BY <1>1, <3>1
    <3>3. PICK m \in 1..Len(q) : l = to[m]
      BY <1>1, <3>1
    <3>4. k < m /\ Is(q[k], "UP", s) /\ Is(q[m], "DOWN", s)
      BY <1>1, <3>2, <3>3
    <3> QED
      BY <2>3, <3>4 DEF DownsFirst
  <2> QED
    BY <2>1, <2>2, <2>3
<1>3. ASSUME NEW s, NoUp(q, s), s # e.source \/ e.type = "DOWN" PROVE NoUp(p, s)
  <2> SUFFICES ASSUME NEW j \in 1..Len(p), Is(p[j], "UP", s) PROVE FALSE
    BY DEF NoUp
  <2>1. j # i
    BY <1>1, <1>3 DEF Is
  <2>2. PICK k \in 1..Len(q) : j = to[k]
    BY <1>1, <2>1
  <2> QED
    BY <1>1, <1>3, <2>2 DEF NoUp
<1>4. ~Without(p, e.source)
  BY <1>1 DEF Without
<1>5. ASSUME NEW j \in 1..Len(p), i < j PROVE p[j].source # e.source
  <2>1. PICK k \in 1..Len(q) : j = to[k]
    BY <1>1, <1>5
  <2>2. to[k] \in 1..Len(p) /\ i \in 1..Len(p) /\ ~(to[k] < i)
    BY <1>0, <1>1, <1>5, <2>1
  <2> QED
    BY <1>1, <2>1, <2>2
<1>6. ASSUME e.type = "UP", EndsDown(p, e.source) PROVE FALSE
  <2>1. PICK j \in 1..Len(p) :
           /\ Is(p[j], "DOWN", e.source)
           /\ \A l \in 1..Len(p) : j < l => p[l].source # e.source
    BY <1>6 DEF EndsDown
  <2>2. j # i /\ ~(i < j) /\ ~(j < i)
    BY <1>1, <1>5, <1>6, <2>1 DEF Is
  <2> QED
    BY <1>0, <1>1, <2>2
<1>7. ASSUME NoUp(q, e.source) \/ (e.type = "UP" /\ DownsFirst(q, e.source))
      PROVE  DownsFirst(p, e.source)
  <2> SUFFICES ASSUME NEW j \in 1..Len(p), NEW l \in 1..Len(p), j < l,
                      Is(p[j], "UP", e.source), Is(p[l], "DOWN", e.source)
               PROVE  FALSE
    BY DEF DownsFirst
  <2>1. j # i
    BY <1>5 DEF Is
  <2>2. PICK k \in 1..Len(q) : j = to[k]
    BY <1>1, <2>1
  <2>3. Is(q[k], "UP", e.source)
    BY <1>1, <2>2
  <2>4. e.type = "UP" /\ DownsFirst(q, e.source)
    BY <1>7, <2>3 DEF NoUp
  <2>5. l # i
    BY <1>1, <2>4 DEF Is
  <2>6. PICK m \in 1..Len(q) : l = to[m]
    BY <1>1, <2>5
  <2>7. k < m /\ Is(q[m], "DOWN", e.source)
    BY <1>1, <2>2, <2>6
  <2> QED
    BY <2>3, <2>4, <2>7 DEF DownsFirst
<1> QED
  BY <1>2, <1>3, <1>4, <1>6, <1>7

\* What stays in the queue behind the first n edges.
LEMMA LeftFacts ==
    ASSUME NEW q \in Seq(Edges), NEW n \in 0..Len(q)
    PROVE  /\ SubSeq(q, n + 1, Len(q)) \in Seq(Edges)
           /\ \A s : /\ EndsDown(SubSeq(q, n + 1, Len(q)), s) => EndsDown(q, s)
                     /\ DownsFirst(q, s) => DownsFirst(SubSeq(q, n + 1, Len(q)), s)
                     /\ Without(SubSeq(q, n + 1, Len(q)), s) =>
                           \A i \in 1..Len(q) : n < i => q[i].source # s
<1> DEFINE p == SubSeq(q, n + 1, Len(q))
<1>1. /\ p \in Seq(Edges) /\ Len(q) \in Nat /\ n \in Nat /\ n <= Len(q)
      /\ Len(p) = Len(q) - n /\ \A i \in 1..Len(q) - n : p[i] = q[n + i]
  OBVIOUS
<1> HIDE DEF p
<1>2. \A i \in 1..Len(p) : n + i \in 1..Len(q) /\ p[i] = q[n + i]
  BY <1>1
<1>3. \A i \in 1..Len(q) : n < i => i - n \in 1..Len(p) /\ p[i - n] = q[i]
  BY <1>1
<1>4. ASSUME NEW s, EndsDown(p, s) PROVE EndsDown(q, s)
  <2>1. PICK i \in 1..Len(p) : /\ Is(p[i], "DOWN", s)
                               /\ \A j \in 1..Len(p) : i < j => p[j].source # s
    BY <1>4 DEF EndsDown
  <2>2. n + i \in 1..Len(q) /\ Is(q[n + i], "DOWN", s)
    BY <1>2, <2>1
  <2>3. ASSUME NEW j \in 1..Len(q), n + i < j PROVE q[j].source # s
    <3>1. n < j /\ i < j - n
      BY <1>1, <2>3
    <3> QED
      BY <1>3, <2>1, <3>1
  <2> QED
    BY <2>2, <2>3 DEF EndsDown
<1>5. ASSUME NEW s, DownsFirst(q, s) PROVE DownsFirst(p, s)
  <2> SUFFICES ASSUME NEW i \in 1..Len(p), NEW j \in 1..Len(p), i < j,
                      Is(p[i], "UP", s), Is(p[j], "DOWN", s)
               PROVE  FALSE
    BY DEF DownsFirst
  <2>1. n + i < n + j
    BY <1>1
  <2> QED
    BY <1>2, <1>5, <2>1 DEF DownsFirst
<1>6. ASSUME NEW s, Without(p, s), NEW i \in 1..Len(q), n < i PROVE q[i].source # s
  BY <1>3, <1>6 DEF Without
<1> QED
  BY <1>1, <1>4, <1>5, <1>6 DEF p

-----------------------------------------------------------------------------
(* The held sources.                                                       *)

LEMMA RangeOf ==
    ASSUME NEW S, NEW h \in Seq(S)
    PROVE  /\ Len(h) \in Nat /\ DOMAIN h = 1..Len(h)
           /\ \A s : s \in Range(h) <=> \E i \in 1..Len(h) : h[i] = s
BY DEF Range

LEMMA LetGoFacts ==
    ASSUME NEW h \in Seq(Everything), NoneTwice(h), NEW s \in Range(h)
    PROVE  /\ LetGo(h, s) \in Seq(Everything) /\ NoneTwice(LetGo(h, s))
           /\ Range(LetGo(h, s)) \subseteq Range(h) \ {s}
<1> DEFINE n == Len(h)
<1> DEFINE i == CHOOSE j \in DOMAIN h : h[j] = s
<1>1. n \in Nat /\ DOMAIN h = 1..n /\ \E j \in 1..n : h[j] = s
  BY RangeOf
<1>2. i \in 1..n /\ h[i] = s
  BY <1>1
<1> DEFINE g == [h EXCEPT ![i] = h[n]]
<1> HIDE DEF i
<1>3. /\ g \in Seq(Everything) /\ Len(g) = n
      /\ \A j \in 1..n : g[j] = IF j = i THEN h[n] ELSE h[j]
  BY <1>1, <1>2
<1> HIDE DEF g
<1> DEFINE f == SubSeq(g, 1, n - 1)
<1>4. /\ f \in Seq(Everything) /\ Len(f) = n - 1
      /\ \A j \in 1..n - 1 : f[j] = g[j]
  BY <1>1, <1>2, <1>3
<1> HIDE DEF f
<1>5. LetGo(h, s) = f
  <2>1. Last(h) = h[n]
    BY DEF Last
  <2>2. LetGo(h, s) = Front(g)
    BY <2>1 DEF LetGo, i, g
  <2>3. Front(g) = f
    BY <1>3 DEF Front, f
  <2> QED
    BY <2>2, <2>3
<1>6. \A j, k \in 1..n : h[j] = h[k] => j = k
  BY DEF NoneTwice
<1>7. \A j \in 1..n - 1 : f[j] = IF j = i THEN h[n] ELSE h[j]
  <2> SUFFICES ASSUME NEW j \in 1..n - 1 PROVE f[j] = IF j = i THEN h[n] ELSE h[j]
    OBVIOUS
  <2>1. j \in 1..n
    BY <1>1
  <2>2. g[j] = IF j = i THEN h[n] ELSE h[j]
    BY <1>3, <2>1
  <2>3. f[j] = g[j]
    BY <1>4
  <2> QED
    BY <2>2, <2>3
<1>8. NoneTwice(f)
  <2> SUFFICES ASSUME NEW j \in 1..n - 1, NEW k \in 1..n - 1, f[j] = f[k] PROVE j = k
    BY <1>4 DEF NoneTwice
  <2> QED
    BY <1>1, <1>2, <1>6, <1>7
<1>9. \A j \in 1..n - 1 : f[j] # s /\ \E k \in 1..n : f[j] = h[k]
  BY <1>1, <1>2, <1>6, <1>7
<1>10. \A x \in Range(f) : x # s /\ x \in Range(h)
  BY <1>1, <1>4, <1>9, RangeOf
<1> QED
  BY <1>4, <1>5, <1>8, <1>10

\* One edge reaches the held sources: an UP lets its source go, whatever was
\* held, and a DOWN touches no other source.
LEMMA ReplayedFacts ==
    ASSUME NEW r \in Runtimes, NEW e \in Edges,
           NoneTwice(r.held), Range(r.held) \subseteq Sources
    PROVE  /\ Replayed(r, e) \in Runtimes
           /\ NoneTwice(Replayed(r, e).held) /\ Range(Replayed(r, e).held) \subseteq Sources
           /\ Replayed(r, e).queue = r.queue /\ Replayed(r, e).physical = r.physical
           /\ Replayed(r, e).hold = r.hold
           /\ \A s : s \in r.orphans /\ ~Is(e, "UP", s) => s \in Replayed(r, e).orphans
           /\ \A s \in Range(Replayed(r, e).held) :
                 Is(e, "DOWN", s) \/ (s \in Range(r.held) /\ e.source # s)
<1> DEFINE s == e.source
<1>1. e.type \in {"DOWN", "UP"} /\ s \in Sources /\ s \in Everything
  BY DEF Edges, Everything
<1>2. /\ r.queue \in Seq(Edges) /\ r.physical \in SUBSET Fingers /\ r.held \in Seq(Everything)
      /\ r.hold \in Holds /\ r.orphans \in SUBSET Everything
  BY DEF Runtimes
<1> HIDE DEF s
<1>3. CASE e.type = "DOWN" /\ ~(s \in Range(r.held) \/ Len(r.held) = Slots)
  <2> DEFINE h == Append(r.held, s)
  <2>1. Replayed(r, e) = [r EXCEPT !.held = h]
    BY <1>3 DEF Replayed, s
  <2>2. Len(r.held) \in Nat /\ \A x : x \in Range(r.held) <=> \E i \in 1..Len(r.held) : r.held[i] = x
    BY <1>2, RangeOf
  <2>3. /\ h \in Seq(Everything) /\ Len(h) = Len(r.held) + 1
        /\ \A i \in 1..Len(r.held) : h[i] = r.held[i]
        /\ h[Len(r.held) + 1] = s
    BY <1>1, <1>2, AppendFacts
  <2> HIDE DEF h
  <2>4. \A i \in 1..Len(h) : i \in 1..Len(r.held) \/ i = Len(r.held) + 1
    BY <2>2, <2>3
  <2>5. NoneTwice(h)
    <3> SUFFICES ASSUME NEW i \in 1..Len(h), NEW j \in 1..Len(h), h[i] = h[j] PROVE i = j
      BY DEF NoneTwice
    <3>1. CASE i \in 1..Len(r.held) /\ j \in 1..Len(r.held)
      BY <2>3, <3>1 DEF NoneTwice
    <3>2. CASE ~(i \in 1..Len(r.held) /\ j \in 1..Len(r.held))
      BY <1>3, <2>2, <2>3, <2>4, <3>2
    <3> QED
      BY <3>1, <3>2
  <2>6. ASSUME NEW x \in Range(h) PROVE x = s \/ (x \in Range(r.held) /\ s # x)
    <3>1. PICK i \in 1..Len(h) : h[i] = x
      BY <2>3, RangeOf
    <3> QED
      BY <1>3, <2>2, <2>3, <2>4, <3>1
  <2>7. Range(h) \subseteq Sources
    BY <1>1, <2>6
  <2>8. /\ [r EXCEPT !.held = h] \in Runtimes
        /\ [r EXCEPT !.held = h].held = h
        /\ [r EXCEPT !.held = h].queue = r.queue /\ [r EXCEPT !.held = h].physical = r.physical
        /\ [r EXCEPT !.held = h].hold = r.hold /\ [r EXCEPT !.held = h].orphans = r.orphans
    BY <2>3 DEF Runtimes
  <2>9. \A x \in Range(h) : Is(e, "DOWN", x) \/ (x \in Range(r.held) /\ e.source # x)
    BY <1>3, <2>6 DEF Is, s
  <2> QED
    BY <2>1, <2>5, <2>7, <2>8, <2>9
<1>4. CASE e.type = "DOWN" /\ (s \in Range(r.held) \/ Len(r.held) = Slots)
  <2>1. Replayed(r, e) = r
    BY <1>4 DEF Replayed, s
  <2>2. \A x \in Range(r.held) : Is(e, "DOWN", x) \/ (x \in Range(r.held) /\ e.source # x)
    BY <1>4 DEF Is
  <2> QED
    BY <2>1, <2>2
<1>5. CASE e.type = "UP" /\ s \notin Range(r.held)
  <2>1. Replayed(r, e) = r
    BY <1>5 DEF Replayed, s
  <2>2. \A x \in Range(r.held) : Is(e, "DOWN", x) \/ (x \in Range(r.held) /\ e.source # x)
    BY <1>5 DEF s
  <2> QED
    BY <2>1, <2>2
<1>6. CASE e.type = "UP" /\ s \in Range(r.held)
  <2> DEFINE h == LetGo(r.held, s)
  <2>1. Replayed(r, e) = [r EXCEPT !.held = h, !.orphans = @ \ {s}]
    BY <1>6 DEF Replayed, s
  <2>2. h \in Seq(Everything) /\ NoneTwice(h) /\ Range(h) \subseteq Range(r.held) \ {s}
    BY <1>2, <1>6, LetGoFacts
  <2> HIDE DEF h
  <2>3. /\ [r EXCEPT !.held = h, !.orphans = @ \ {s}] \in Runtimes
        /\ [r EXCEPT !.held = h, !.orphans = @ \ {s}].held = h
        /\ [r EXCEPT !.held = h, !.orphans = @ \ {s}].queue = r.queue
        /\ [r EXCEPT !.held = h, !.orphans = @ \ {s}].physical = r.physical
        /\ [r EXCEPT !.held = h, !.orphans = @ \ {s}].hold = r.hold
        /\ [r EXCEPT !.held = h, !.orphans = @ \ {s}].orphans = r.orphans \ {s}
    BY <2>2 DEF Runtimes
  <2>4. \A x \in Range(h) : x \in Range(r.held) /\ e.source # x
    BY <2>2 DEF s
  <2>5. \A x : x \in r.orphans /\ ~Is(e, "UP", x) => x \in r.orphans \ {s}
    BY <1>6 DEF Is, s
  <2>6. Range(h) \subseteq Sources
    BY <2>2
  <2> QED
    BY <2>1, <2>2, <2>3, <2>4, <2>5, <2>6
<1> QED
  BY <1>1, <1>3, <1>4, <1>5, <1>6

\* A burst as a run of states, one per edge.
LEMMA BurstUnfolds ==
    ASSUME NEW n \in Nat
    PROVE  \E r : /\ r[0] = rt
                  /\ \A i \in 1..n : r[i] = Replayed(r[i - 1], rt.queue[i])
                  /\ Burst(n) = [r[n] EXCEPT !.queue = SubSeq(@, n + 1, Len(@))]
<1> DEFINE Solves(r, m) ==
             r = [i \in 0..m |-> IF i = 0 THEN rt ELSE Replayed(r[i - 1], rt.queue[i])]
<1> DEFINE T == {m \in Nat : \E r : Solves(r, m)}
<1>1. 0 \in T
  <2> DEFINE r == [i \in 0..0 |-> rt]
  <2>1. r = [i \in 0..0 |-> IF i = 0 THEN rt ELSE Replayed(r[i - 1], rt.queue[i])]
    OBVIOUS
  <2> QED
    BY <2>1
<1>2. ASSUME NEW m \in T PROVE m + 1 \in T
  <2>1. m \in Nat
    OBVIOUS
  <2>2. PICK r : r = [i \in 0..m |-> IF i = 0 THEN rt ELSE Replayed(r[i - 1], rt.queue[i])]
    OBVIOUS
  <2> DEFINE g == [i \in 0..m + 1 |->
                      IF i = m + 1 THEN Replayed(r[m], rt.queue[m + 1]) ELSE r[i]]
  <2>3. \A i \in 0..m : r[i] = IF i = 0 THEN rt ELSE Replayed(r[i - 1], rt.queue[i])
    BY <2>2
  <2>4. ASSUME NEW i \in 0..m + 1
        PROVE  g[i] = IF i = 0 THEN rt ELSE Replayed(g[i - 1], rt.queue[i])
    <3>1. CASE i = m + 1
      <4>1. i - 1 = m /\ m \in 0..m + 1 /\ i # 0 /\ m # m + 1
        BY <2>1, <3>1
      <4>2. g[i - 1] = r[m]
        BY <4>1
      <4>3. g[i] = Replayed(r[m], rt.queue[m + 1])
        BY <3>1
      <4> QED
        BY <3>1, <4>1, <4>2, <4>3
    <3>2. CASE i # m + 1
      <4>1. i \in 0..m /\ (i # 0 => i - 1 \in 0..m + 1 /\ i - 1 # m + 1)
        BY <2>1, <3>2
      <4>2. g[i] = r[i] /\ (i # 0 => g[i - 1] = r[i - 1])
        BY <3>2, <4>1
      <4> QED
        BY <2>3, <4>1, <4>2
    <3> QED
      BY <3>1, <3>2
  <2>5. g = [i \in 0..m + 1 |-> g[i]]
    OBVIOUS
  <2> HIDE DEF g
  <2>6. Solves(g, m + 1)
    BY <2>4, <2>5
  <2> QED
    BY <2>1, <2>6
<1> HIDE DEF T
<1>3. T = Nat
  <2>1. T \in SUBSET Nat
    BY DEF T
  <2> QED
    BY <1>1, <1>2, <2>1, SetInduction
<1>4. \E r : Solves(r, n)
  BY <1>3 DEF T
<1> DEFINE f == CHOOSE r : Solves(r, n)
<1>5. Solves(f, n)
  BY <1>4
<1>6. Burst(n) = [f[n] EXCEPT !.queue = SubSeq(@, n + 1, Len(@))]
  BY DEF Burst
<1> HIDE DEF f
<1>7. f[0] = rt
  BY <1>5
<1>8. ASSUME NEW i \in 1..n PROVE f[i] = Replayed(f[i - 1], rt.queue[i])
  <2>1. i \in 0..n /\ i # 0
    OBVIOUS
  <2> QED
    BY <1>5, <2>1
<1> QED
  BY <1>6, <1>7, <1>8

\* The source was pressed last by one of the first m edges.
PressedWithin(m, s) == \E i \in 1..m : /\ Is(rt.queue[i], "DOWN", s)
                                       /\ \A j \in 1..m : i < j => rt.queue[j].source # s
Untouched(m, s) == \A i \in 1..m : rt.queue[i].source # s
LetGoWithin(m, s) == \E i \in 1..m : Is(rt.queue[i], "UP", s)

\* The state r, once the first m edges of the queue are replayed.
Reached(r, m) ==
    /\ r \in Runtimes /\ NoneTwice(r.held) /\ Range(r.held) \subseteq Sources
    /\ r.queue = rt.queue /\ r.physical = rt.physical /\ r.hold = rt.hold
    /\ \A s \in rt.orphans : s \in r.orphans \/ LetGoWithin(m, s)
    /\ \A s \in Range(r.held) :
          (s \in Range(rt.held) /\ Untouched(m, s)) \/ PressedWithin(m, s)

LEMMA EdgeReaches ==
    ASSUME NEW m \in Nat, NEW r, Reached(r, m), m + 1 \in 1..Len(rt.queue)
    PROVE  Reached(Replayed(r, rt.queue[m + 1]), m + 1)
<1> DEFINE e == rt.queue[m + 1]
<1> DEFINE g == Replayed(r, e)
<1>1. e \in Edges
  <2>1. r.queue \in Seq(Edges) /\ r.queue = rt.queue
    BY DEF Reached, Runtimes
  <2> QED
    BY <2>1
<1>2. /\ r \in Runtimes /\ NoneTwice(r.held) /\ Range(r.held) \subseteq Sources
      /\ r.queue = rt.queue /\ r.physical = rt.physical /\ r.hold = rt.hold
      /\ \A s \in rt.orphans : s \in r.orphans \/ LetGoWithin(m, s)
      /\ \A s \in Range(r.held) :
            (s \in Range(rt.held) /\ Untouched(m, s)) \/ PressedWithin(m, s)
  BY DEF Reached
<1> HIDE DEF e
<1>3. /\ g \in Runtimes /\ NoneTwice(g.held) /\ Range(g.held) \subseteq Sources
      /\ g.queue = r.queue /\ g.physical = r.physical /\ g.hold = r.hold
      /\ \A s : s \in r.orphans /\ ~Is(e, "UP", s) => s \in g.orphans
      /\ \A s \in Range(g.held) : Is(e, "DOWN", s) \/ (s \in Range(r.held) /\ e.source # s)
  BY <1>1, <1>2, ReplayedFacts
<1> HIDE DEF g
<1>4. \A i \in 1..m + 1 : i \in 1..m \/ i = m + 1
  OBVIOUS
<1>5. 1..m \subseteq 1..m + 1 /\ m + 1 \in 1..m + 1 /\ \A i \in 1..m : i < m + 1 /\ ~(m + 1 < i)
  OBVIOUS
<1>6. ASSUME NEW s \in rt.orphans PROVE s \in g.orphans \/ LetGoWithin(m + 1, s)
  <2>1. LetGoWithin(m, s) => LetGoWithin(m + 1, s)
    BY <1>5 DEF LetGoWithin
  <2>2. Is(e, "UP", s) => LetGoWithin(m + 1, s)
    BY <1>5 DEF LetGoWithin, e
  <2> QED
    BY <1>2, <1>3, <2>1, <2>2
<1>7. ASSUME NEW s \in Range(g.held)
      PROVE  (s \in Range(rt.held) /\ Untouched(m + 1, s)) \/ PressedWithin(m + 1, s)
  <2>1. CASE Is(e, "DOWN", s)
    <3>1. \A j \in 1..m + 1 : ~(m + 1 < j)
      OBVIOUS
    <3>2. PressedWithin(m + 1, s)
      BY <1>5, <2>1, <3>1 DEF PressedWithin, e
    <3> QED
      BY <3>2
  <2>2. CASE s \in Range(r.held) /\ e.source # s
    <3>1. Untouched(m, s) => Untouched(m + 1, s)
      BY <1>4, <2>2 DEF Untouched, e
    <3>2. PressedWithin(m, s) => PressedWithin(m + 1, s)
      BY <1>4, <1>5, <2>2 DEF PressedWithin, e
    <3> QED
      BY <1>2, <2>2, <3>1, <3>2
  <2> QED
    BY <1>3, <2>1, <2>2
<1>8. Reached(g, m + 1)
  BY <1>2, <1>3, <1>6, <1>7 DEF Reached
<1> QED
  BY <1>8 DEF g, e

LEMMA BurstReaches ==
    ASSUME rt \in Runtimes, NoneTwice(rt.held), Range(rt.held) \subseteq Sources,
           NEW n \in 1..Len(rt.queue)
    PROVE  \E r : /\ Reached(r, n)
                  /\ Burst(n) = [r EXCEPT !.queue = SubSeq(@, n + 1, Len(@))]
<1>1. n \in Nat /\ Len(rt.queue) \in Nat /\ n <= Len(rt.queue)
  BY DEF Runtimes
<1>2. PICK r : /\ r[0] = rt
               /\ \A i \in 1..n : r[i] = Replayed(r[i - 1], rt.queue[i])
               /\ Burst(n) = [r[n] EXCEPT !.queue = SubSeq(@, n + 1, Len(@))]
  BY <1>1, BurstUnfolds
<1> DEFINE T == {m \in Nat : m <= n => Reached(r[m], m)}
<1>3. 0 \in T
  <2>1. \A s : Untouched(0, s)
    BY DEF Untouched
  <2>2. Reached(rt, 0)
    BY <2>1 DEF Reached
  <2> QED
    BY <1>2, <2>2
<1>4. ASSUME NEW m \in T PROVE m + 1 \in T
  <2>1. m \in Nat
    OBVIOUS
  <2>2. ASSUME m + 1 <= n PROVE Reached(r[m + 1], m + 1)
    <3>1. m <= n /\ m + 1 \in 1..n /\ (m + 1) - 1 = m /\ m + 1 \in 1..Len(rt.queue)
      BY <1>1, <2>1, <2>2
    <3>2. Reached(r[m], m)
      BY <3>1
    <3>3. r[m + 1] = Replayed(r[m], rt.queue[m + 1])
      BY <1>2, <3>1
    <3> QED
      BY <2>1, <3>1, <3>2, <3>3, EdgeReaches
  <2> QED
    BY <2>1, <2>2
<1>5. T = Nat
  <2> HIDE DEF T
  <2>1. T \in SUBSET Nat
    BY DEF T
  <2> QED
    BY <1>3, <1>4, <2>1, SetInduction
<1>6. Reached(r[n], n)
  BY <1>1, <1>5
<1> QED
  BY <1>2, <1>6

-----------------------------------------------------------------------------
(* What is promised of the held sources, when the state under the lock or   *)
(* the macro's plan changes.                                                *)

\* Nothing is promised of an empty state.
LEMMA EmptyReleases ==
    ASSUME NEW r, NEW kept, NEW plan, NEW on,
           r.queue = <<>>, Range(kept) \subseteq r.orphans
    PROVE  ReleaseComes(r, kept, plan, on) /\ PressedOnce(r.queue)
<1>1. Len(<<>>) = 0 /\ 1..0 = {}
  OBVIOUS
<1>2. \A s : ~EndsDown(<<>>, s) /\ DownsFirst(<<>>, s)
  BY <1>1 DEF EndsDown, DownsFirst
<1> QED
  BY <1>2 DEF ReleaseComes, PressedOnce, StaysDown

\* An edge that enters behind those of its source.
LEMMA EnteringReleases ==
    ASSUME NEW r, NEW r1, NEW kept, NEW plan, NEW plan1, NEW on, NEW e \in Edges,
           Len(r.queue) \in Nat, Entered(r1.queue, r.queue, e),
           r1.orphans = r.orphans,
           ReleaseComes(r, kept, plan, on),
           \A s \in Sources \ {e.source} :
              Committed(r, plan, on, s) => Committed(r1, plan1, on, s),
           e.type = "DOWN" => Committed(r1, plan1, on, e.source)
    PROVE  ReleaseComes(r1, kept, plan1, on)
<1> SUFFICES ASSUME NEW s \in Sources, StaysDown(r1, kept, s)
             PROVE  Committed(r1, plan1, on, s) \/ (s \in Keys /\ s \in r1.orphans)
  BY DEF ReleaseComes
<1>1. CASE s = e.source
  <2>1. e.type \in {"DOWN", "UP"}
    BY DEF Edges
  <2>2. ~Without(r1.queue, s) /\ (e.type = "UP" => ~EndsDown(r1.queue, s))
    BY <1>1, EnteredFacts
  <2> QED
    BY <1>1, <2>1, <2>2 DEF StaysDown
<1>2. CASE s # e.source
  <2>1. /\ Without(r1.queue, s) => Without(r.queue, s)
        /\ EndsDown(r1.queue, s) => EndsDown(r.queue, s)
    BY <1>2, EnteredFacts
  <2>2. StaysDown(r, kept, s)
    BY <2>1 DEF StaysDown
  <2> QED
    BY <1>2, <2>2 DEF ReleaseComes
<1> QED
  BY <1>1, <1>2

\* The orders of a shorter plan, over another queue.
LEMMA QueueSound ==
    ASSUME NEW r, NEW r1, NEW plan, PlanSound(r, plan),
           \A i \in 1..Len(plan) :
              plan[i].type = "DOWN" => NoUp(r1.queue, plan[i].source),
           r1.hold = r.hold \/ ~r1.hold.active
    PROVE  PlanSound(r1, plan)
BY DEF PlanSound

LEMMA TailSound ==
    ASSUME NEW r, NEW plan \in Seq(Orders), plan # <<>>, PlanSound(r, plan)
    PROVE  /\ PlanSound(r, Tail(plan))
           /\ \A i \in 1..Len(Tail(plan)) : Tail(plan)[i].type = "DOWN" =>
                 ~Is(Head(plan), "UP", Tail(plan)[i].source)
                 /\ ~Is(Head(plan), "TRYUP", Tail(plan)[i].source)
           /\ \A s : PlanLetsGo(plan, s) => LetsGo(Head(plan), s) \/ PlanLetsGo(Tail(plan), s)
           /\ Head(plan).type = "DOWN" => PlanLetsGo(Tail(plan), Head(plan).source)
<1> DEFINE t == Tail(plan)
<1>1. /\ Len(plan) \in Nat \ {0} /\ Head(plan) = plan[1]
      /\ t \in Seq(Orders) /\ Len(t) = Len(plan) - 1
      /\ \A i \in 1..Len(t) : i + 1 \in 1..Len(plan) /\ t[i] = plan[i + 1]
  BY HeadTailFacts
<1> HIDE DEF t
<1>2. \A i \in 1..Len(plan) : 1 < i => i - 1 \in 1..Len(t) /\ t[i - 1] = plan[i]
  <2> SUFFICES ASSUME NEW i \in 1..Len(plan), 1 < i
               PROVE  i - 1 \in 1..Len(t) /\ t[i - 1] = plan[i]
    OBVIOUS
  <2>1. i - 1 \in 1..Len(t) /\ (i - 1) + 1 = i
    BY <1>1
  <2> QED
    BY <1>1, <2>1
<1>3. ASSUME NEW i \in 1..Len(t)
      PROVE  /\ LetsGoAfter(plan, i + 1) => LetsGoAfter(t, i)
             /\ PressesFirst(plan, i + 1) => PressesFirst(t, i)
             /\ OnlyHold(plan, i + 1) => OnlyHold(t, i)
  <2>1. i + 1 \in 1..Len(plan) /\ t[i] = plan[i + 1]
    BY <1>1
  <2>2. ASSUME LetsGoAfter(plan, i + 1) PROVE LetsGoAfter(t, i)
    <3>1. PICK j \in 1..Len(plan) : i + 1 < j /\ LetsGo(plan[j], plan[i + 1].source)
      BY <2>2 DEF LetsGoAfter
    <3>2. 1 < j /\ i < j - 1
      BY <1>1, <3>1
    <3> QED
      BY <1>2, <2>1, <3>1, <3>2 DEF LetsGoAfter
  <2>3. ASSUME PressesFirst(plan, i + 1) PROVE PressesFirst(t, i)
    <3> SUFFICES ASSUME NEW j \in 1..Len(t), j < i
                 PROVE  ~Is(t[j], "UP", t[i].source) /\ ~Is(t[j], "TRYUP", t[i].source)
      BY DEF PressesFirst
    <3>1. j + 1 \in 1..Len(plan) /\ t[j] = plan[j + 1] /\ j + 1 < i + 1
      BY <1>1
    <3> QED
      BY <2>1, <2>3, <3>1 DEF PressesFirst
  <2>4. ASSUME OnlyHold(plan, i + 1) PROVE OnlyHold(t, i)
    <3> SUFFICES ASSUME NEW j \in 1..Len(t)
                 PROVE  t[j].type # "RELEASE" /\ (t[j].type = "HOLD" => j = i)
      BY DEF OnlyHold
    <3>1. j + 1 \in 1..Len(plan) /\ t[j] = plan[j + 1]
      BY <1>1
    <3>2. j + 1 = i + 1 => j = i
      OBVIOUS
    <3> QED
      BY <2>4, <3>1, <3>2 DEF OnlyHold
  <2> QED
    BY <2>2, <2>3, <2>4
<1>4. PlanSound(r, t)
  <2> SUFFICES ASSUME NEW i \in 1..Len(t)
               PROVE  /\ t[i].type = "DOWN" => /\ NoUp(r.queue, t[i].source)
                                               /\ LetsGoAfter(t, i) /\ PressesFirst(t, i)
                      /\ t[i].type = "HOLD" => ~r.hold.active /\ OnlyHold(t, i)
                      /\ t[i].type = "RELEASE" /\ r.hold.active
                            => r.hold.source = t[i].source
    BY DEF PlanSound
  <2>1. i + 1 \in 1..Len(plan) /\ t[i] = plan[i + 1]
    BY <1>1
  <2> QED
    BY <1>3, <2>1 DEF PlanSound
<1>5. ASSUME NEW i \in 1..Len(t), t[i].type = "DOWN"
      PROVE  ~Is(Head(plan), "UP", t[i].source) /\ ~Is(Head(plan), "TRYUP", t[i].source)
  <2>1. i + 1 \in 1..Len(plan) /\ t[i] = plan[i + 1] /\ 1 \in 1..Len(plan) /\ 1 < i + 1
    BY <1>1
  <2>2. PressesFirst(plan, i + 1)
    BY <1>5, <2>1 DEF PlanSound
  <2> QED
    BY <1>1, <2>1, <2>2 DEF PressesFirst
<1>6. ASSUME NEW s, PlanLetsGo(plan, s) PROVE LetsGo(Head(plan), s) \/ PlanLetsGo(t, s)
  <2>1. PICK i \in 1..Len(plan) : LetsGo(plan[i], s)
    BY <1>6 DEF PlanLetsGo
  <2>2. CASE i = 1
    BY <1>1, <2>1, <2>2
  <2>3. CASE 1 < i
    BY <1>2, <2>1, <2>3 DEF PlanLetsGo
  <2> QED
    BY <1>1, <2>2, <2>3
<1>7. ASSUME Head(plan).type = "DOWN" PROVE PlanLetsGo(t, Head(plan).source)
  <2>1. 1 \in 1..Len(plan) /\ plan[1].type = "DOWN"
    BY <1>1, <1>7
  <2>2. LetsGoAfter(plan, 1)
    BY <2>1 DEF PlanSound
  <2>3. PICK j \in 1..Len(plan) : 1 < j /\ LetsGo(plan[j], plan[1].source)
    BY <2>2 DEF LetsGoAfter
  <2> QED
    BY <1>1, <1>2, <2>3 DEF PlanLetsGo
<1> QED
  BY <1>4, <1>5, <1>6, <1>7 DEF t

-----------------------------------------------------------------------------
(* The critical sections.                                                  *)

\* An empty state: what a clear leaves, and a queue that was full.
Emptied(r) == /\ r.queue = <<>> /\ r.held = <<>> /\ r.hold = NoHold
              /\ r.orphans = Range(saved)

\* The edge e joins the queue of r, or one that was emptied first.
Joins(r, r1, e) ==
    /\ Entered(r1.queue, r.queue, e)
    /\ r1.held = r.held /\ r1.hold = r.hold /\ r1.orphans = r.orphans
    /\ \A s : s # e.source => (s \in r1.physical <=> s \in r.physical)
Restarts(r1, e) ==
    /\ Entered(r1.queue, <<>>, e)
    /\ r1.held = <<>> /\ r1.hold = NoHold /\ r1.orphans = Range(saved)

LEMMA NothingIn == ASSUME NEW S PROVE <<>> \in Seq(S) /\ Len(<<>>) = 0 /\ Range(<<>>) = {}
BY DEF Range

LEMMA SavedIn == ASSUME saved \in Seq(Everything) PROVE Range(saved) \in SUBSET Everything
BY RangeOf, SMT

LEMMA ClearedFacts ==
    ASSUME NEW r \in Runtimes, saved \in Seq(Everything), NEW P \in SUBSET Fingers
    PROVE  /\ Cleared(r) \in Runtimes /\ Emptied(Cleared(r))
           /\ [Cleared(r) EXCEPT !.physical = P] \in Runtimes
           /\ Emptied([Cleared(r) EXCEPT !.physical = P])
           /\ [Cleared(r) EXCEPT !.physical = P].physical = P
<1>1. <<>> \in Seq(Edges) /\ <<>> \in Seq(Everything) /\ {} \in SUBSET Fingers
  BY NothingIn
<1>2. Range(saved) \in SUBSET Everything /\ NoHold \in Holds
  BY SavedIn DEF Holds
<1>3. Cleared(r) = [queue |-> <<>>, physical |-> {}, held |-> <<>>,
                    hold |-> NoHold, orphans |-> Range(saved)]
  BY DEF Cleared
<1>4. [Cleared(r) EXCEPT !.physical = P] =
        [queue |-> <<>>, physical |-> P, held |-> <<>>,
         hold |-> NoHold, orphans |-> Range(saved)]
  BY <1>3
<1>5. ASSUME NEW Q \in SUBSET Fingers
      PROVE  [queue |-> <<>>, physical |-> Q, held |-> <<>>,
              hold |-> NoHold, orphans |-> Range(saved)] \in Runtimes
  <2> DEFINE q == <<>>
  <2> DEFINE o == Range(saved)
  <2>1. q \in Seq(Edges) /\ q \in Seq(Everything) /\ o \in SUBSET Everything /\ NoHold \in Holds
    BY <1>1, <1>2
  <2> HIDE DEF q, o
  <2>2. [queue |-> q, physical |-> Q, held |-> q, hold |-> NoHold, orphans |-> o] \in Runtimes
    BY <2>1 DEF Runtimes
  <2> QED
    BY <2>2 DEF q, o
<1>6. Cleared(r) \in Runtimes /\ [Cleared(r) EXCEPT !.physical = P] \in Runtimes
  BY <1>1, <1>3, <1>4, <1>5
<1>7. Emptied(Cleared(r)) /\ Emptied([Cleared(r) EXCEPT !.physical = P])
  BY <1>3, <1>4 DEF Emptied
<1>8. [Cleared(r) EXCEPT !.physical = P].physical = P
  BY <1>4
<1> QED
  BY <1>6, <1>7, <1>8

LEMMA EnqueueFacts ==
    ASSUME rt \in Runtimes, saved \in Seq(Everything),
           NEW type \in {"DOWN", "UP"}, NEW s \in Sources, NEW ok \in BOOLEAN,
           Enqueue(type, s, ok)
    PROVE  /\ rt' \in Runtimes
           /\ \/ ~ok /\ Refused(type, s) /\ rt' = rt
              \/ ~ok /\ ~Refused(type, s) /\ Emptied(rt')
              \/ /\ ok /\ ~Refused(type, s)
                 /\ s \in Fingers /\ type = "DOWN" => s \in rt'.physical
                 /\ \/ Joins(rt, rt', [type |-> type, source |-> s])
                    \/ Restarts(rt', [type |-> type, source |-> s])
<1> DEFINE e == [type |-> type, source |-> s]
<1> DEFINE touched == Touched(rt, type, s)
<1> DEFINE room == MadeRoom(touched, type, s)
<1>1. e \in Edges /\ e.type = type /\ e.source = s
  BY DEF Edges
<1>2. /\ rt.queue \in Seq(Edges) /\ rt.physical \in SUBSET Fingers
      /\ rt.held \in Seq(Everything) /\ rt.hold \in Holds
      /\ rt.orphans \in SUBSET Everything
  BY DEF Runtimes
<1>3. /\ touched \in Runtimes
      /\ s \in Fingers /\ type = "DOWN" => s \in touched.physical
      /\ \/ Emptied(touched)
         \/ /\ touched.queue = rt.queue /\ touched.held = rt.held
            /\ touched.hold = rt.hold /\ touched.orphans = rt.orphans
            /\ \A x : x # s => (x \in touched.physical <=> x \in rt.physical)
  <2>1. CASE s \notin Fingers
    BY <2>1 DEF Touched
  <2>2. CASE s \in Fingers /\ type = "UP"
    <3>1. touched = [rt EXCEPT !.physical = @ \ {s}]
      BY <2>2 DEF Touched
    <3> QED
      BY <1>2, <2>2, <3>1 DEF Runtimes
  <2>3. CASE s \in Fingers /\ type = "DOWN" /\ s \in rt.physical
    <3>1. touched = [Cleared(rt) EXCEPT !.physical = {s}]
      BY <2>3 DEF Touched
    <3>2. {s} \in SUBSET Fingers
      BY <2>3
    <3>3. touched \in Runtimes /\ Emptied(touched) /\ touched.physical = {s}
      BY <3>1, <3>2, ClearedFacts
    <3> QED
      BY <3>3
  <2>4. CASE s \in Fingers /\ type = "DOWN" /\ s \notin rt.physical
    <3>1. touched = [rt EXCEPT !.physical = @ \cup {s}]
      BY <2>4 DEF Touched
    <3> QED
      BY <1>2, <2>4, <3>1 DEF Runtimes
  <2> QED
    BY <2>1, <2>2, <2>3, <2>4
<1> HIDE DEF touched
<1>4. /\ room \in Runtimes
      /\ s \in Fingers /\ type = "DOWN" => s \in room.physical
      /\ Emptied(room) \/ room = touched
  <2>1. CASE Len(touched.queue) < MaxEvents
    BY <1>3, <2>1 DEF MadeRoom
  <2>2. CASE ~(Len(touched.queue) < MaxEvents)
    <3> DEFINE P == IF type = "DOWN" /\ s \in Fingers THEN {s} ELSE {}
    <3>1. room = [Cleared(touched) EXCEPT !.physical = P]
      BY <2>2 DEF MadeRoom
    <3>2. P \in SUBSET Fingers /\ (s \in Fingers /\ type = "DOWN" => s \in P)
      OBVIOUS
    <3> HIDE DEF P
    <3> HIDE DEF room
    <3>3. touched \in Runtimes
      BY <1>3
    <3>4. room \in Runtimes /\ Emptied(room) /\ room.physical = P
      BY <3>1, <3>2, <3>3, ClearedFacts
    <3> QED
      BY <3>2, <3>4
  <2> QED
    BY <2>1, <2>2
<1>5. \/ Refused(type, s) /\ ~ok /\ rt' = rt
      \/ /\ ~Refused(type, s) /\ Len(touched.queue) = MaxEvents /\ ~ok /\ rt' = room
      \/ /\ ~Refused(type, s) /\ ok
         /\ \E i \in Places(room.queue, s) :
               rt' = [room EXCEPT !.queue = InsertAt(@, i, e)]
  BY DEF Enqueue, touched
<1> HIDE DEF room
<1>6. CASE Refused(type, s) /\ ~ok /\ rt' = rt
  BY <1>6
<1>7. CASE ~Refused(type, s) /\ Len(touched.queue) = MaxEvents /\ ~ok /\ rt' = room
  <2>1. ~(Len(touched.queue) < MaxEvents)
    BY <1>7, ReplayAssumption
  <2>2. Emptied(room)
    <3> DEFINE P == IF type = "DOWN" /\ s \in Fingers THEN {s} ELSE {}
    <3>1. room = [Cleared(touched) EXCEPT !.physical = P]
      BY <2>1 DEF MadeRoom, room
    <3>2. P \in SUBSET Fingers
      OBVIOUS
    <3> HIDE DEF P
    <3> QED
      BY <1>3, <3>1, <3>2, ClearedFacts
  <2> QED
    BY <1>4, <1>7, <2>2
<1>8. CASE /\ ~Refused(type, s) /\ ok
           /\ \E i \in Places(room.queue, s) :
                 rt' = [room EXCEPT !.queue = InsertAt(@, i, e)]
  <2>1. PICK i \in Places(room.queue, s) : rt' = [room EXCEPT !.queue = InsertAt(@, i, e)]
    BY <1>8
  <2> DEFINE q == InsertAt(room.queue, i, e)
  <2>2. room.queue \in Seq(Edges)
    BY <1>4 DEF Runtimes
  <2> HIDE DEF e
  <2>3. q \in Seq(Edges) /\ Entered(q, room.queue, e)
    BY <1>1, <2>2, InsertEnters
  <2>4. rt' = [room EXCEPT !.queue = q]
    BY <2>1
  <2> HIDE DEF q
  <2>5. /\ rt' \in Runtimes /\ rt'.queue = q /\ rt'.physical = room.physical
        /\ rt'.held = room.held /\ rt'.hold = room.hold /\ rt'.orphans = room.orphans
    BY <1>4, <2>3, <2>4 DEF Runtimes
  <2>6. ASSUME Emptied(room) PROVE Restarts(rt', e)
    BY <2>3, <2>5, <2>6 DEF Emptied, Restarts
  <2>7. ASSUME ~Emptied(room) PROVE Joins(rt, rt', e)
    <3>1. room = touched /\ ~Emptied(touched)
      BY <1>4, <2>7
    <3> QED
      BY <1>1, <1>3, <2>3, <2>5, <3>1 DEF Joins
  <2>8. Joins(rt, rt', e) \/ Restarts(rt', e)
    BY <2>6, <2>7
  <2> QED
    BY <1>4, <1>8, <2>5, <2>8 DEF e
<1> QED
  BY <1>5, <1>6, <1>7, <1>8

\* A clear, whoever makes it, also inside an automatic hit.
LEMMA EmptiedKeeps ==
    ASSUME HeldInv, rt' \in Runtimes, Emptied(rt'), UNCHANGED <<saved, todo>>,
           InTransaction' <=> InTransaction, pc' # "post" => todo = <<>>,
           enabled' \in BOOLEAN, macroOn' \in BOOLEAN, suspending' \in BOOLEAN,
           gate' \in BOOLEAN, ~enabled' => suspending' \/ ~gate'
    PROVE  HeldInv'
<1>1. Types /\ HeldApart /\ PlanSound(rt, todo)
  BY DEF HeldInv
<1>2. /\ rt'.queue = <<>> /\ rt'.held = <<>> /\ ~rt'.hold.active
      /\ rt'.orphans = Range(saved)
  BY DEF Emptied, NoHold
<1>3. Types'
  BY <1>1 DEF Types
<1>4. Kept' = saved \/ Kept' = <<>>
  BY <1>2 DEF Kept
<1>5. InTransaction => Kept' = saved /\ Kept = saved
  BY DEF Kept
<1>6. ~InTransaction => Kept' = <<>>
  BY <1>2 DEF Kept
<1>7. Range(Kept') \subseteq rt'.orphans
  BY <1>2, <1>5, <1>6, NothingIn
<1>8. NoneTwice(Kept') /\ Range(Kept') \subseteq Sources
  <2>1. NoneTwice(<<>>) /\ Range(<<>>) = {}
    BY NothingIn DEF NoneTwice
  <2> QED
    BY <1>1, <1>5, <1>6, <2>1 DEF HeldApart
<1>9. HeldApart'
  BY <1>1, <1>8 DEF HeldApart
<1>10. Drained'
  BY <1>2, <1>7 DEF Drained
<1>11. /\ ReleaseComes(rt', Kept', todo', macroOn') /\ PressedOnce(rt'.queue)
  BY <1>2, <1>7, EmptyReleases
<1>12. PlanSound(rt', todo)
  <2>1. \A s : NoUp(rt'.queue, s)
    BY <1>2, NothingIn DEF NoUp
  <2> QED
    BY <1>1, <1>2, <2>1, QueueSound
<1> QED
  BY <1>3, <1>9, <1>10, <1>11, <1>12 DEF HeldInv

\* A step that neither moves an edge nor changes what is held, or what an
\* automatic hit will put back.
LEMMA SameKeeps ==
    ASSUME HeldInv, rt' \in Runtimes, rt'.queue = rt.queue, rt'.physical = rt.physical,
           rt'.hold = rt.hold, rt'.orphans = rt.orphans, saved' \in Seq(Everything),
           Kept' = Kept, ~InTransaction' => saved' = <<>>, todo' = todo,
           pc' # "post" => todo = <<>>,
           enabled' \in BOOLEAN, macroOn' \in BOOLEAN, suspending' \in BOOLEAN,
           gate' \in BOOLEAN, ~enabled' => suspending' \/ ~gate', ~gate' => ~gate,
           ~suspending' => ~suspending, macroOn => macroOn' \/ ~rt.hold.active
    PROVE  HeldInv'
<1>1. /\ Types /\ HeldApart /\ Drained /\ PlanSound(rt, todo) /\ PressedOnce(rt.queue)
      /\ ~suspending => ReleaseComes(rt, Kept, todo, macroOn)
  BY DEF HeldInv
<1>2. Types'
  BY <1>1 DEF Types
<1>3. HeldApart'
  BY <1>1 DEF HeldApart
<1>4. Drained'
  BY <1>1 DEF Drained
<1>5. PlanSound(rt', todo) /\ PressedOnce(rt'.queue)
  BY <1>1 DEF PlanSound
<1>6. ASSUME ~suspending' PROVE ReleaseComes(rt', Kept', todo', macroOn')
  <2>1. ReleaseComes(rt, Kept, todo, macroOn)
    BY <1>1, <1>6
  <2>2. \A s : Committed(rt, todo, macroOn, s) => Committed(rt', todo, macroOn', s)
    BY DEF Committed, HoldEnds
  <2>3. \A s : StaysDown(rt', Kept, s) => StaysDown(rt, Kept, s)
    BY DEF StaysDown
  <2> QED
    BY <2>1, <2>2, <2>3 DEF ReleaseComes
<1> QED
  BY <1>2, <1>3, <1>4, <1>5, <1>6 DEF HeldInv

\* An edge enters, posted by a thread or by the macro, whose plan may get
\* shorter with it.
LEMMA EnteredKeeps ==
    ASSUME HeldInv, NEW e \in Edges, Joins(rt, rt', e) \/ Restarts(rt', e),
           rt' \in Runtimes, gate, enabled,
           UNCHANGED <<enabled, macroOn, suspending, gate, saved, pc>>,
           todo' \in Seq(Orders), PlanSound(rt, todo'), pc # "post" => todo' = <<>>,
           \A i \in 1..Len(todo') :
              todo'[i].type = "DOWN" => todo'[i].source # e.source \/ e.type = "DOWN",
           e.source \in Keys => NoUp(rt.queue, e.source) \/ e.type = "UP",
           \A s \in Sources \ {e.source} :
              Committed(rt, todo, macroOn, s) => Committed(rt, todo', macroOn, s),
           e.type = "DOWN" => e.source \in rt'.physical \/ PlanLetsGo(todo', e.source)
    PROVE  HeldInv'
<1>1. /\ Types /\ HeldApart /\ PressedOnce(rt.queue)
      /\ ~suspending => ReleaseComes(rt, Kept, todo, macroOn)
  BY DEF HeldInv
<1>2. Types'
  BY <1>1 DEF Types
<1>3. Drained'
  BY DEF Drained
<1>4. PICK q : /\ Entered(rt'.queue, q, e) /\ Len(q) \in Nat
               /\ q = <<>> \/ q = rt.queue
  BY <1>1, NothingIn DEF Joins, Restarts, Types, Runtimes
<1>5. \A s : NoUp(rt.queue, s) => NoUp(q, s)
  BY <1>4, NothingIn DEF NoUp
<1>6. \A s \in Keys : DownsFirst(q, s)
  BY <1>1, <1>4, NothingIn DEF DownsFirst, PressedOnce
<1>7. PressedOnce(rt'.queue)
  <2> SUFFICES ASSUME NEW s \in Keys PROVE DownsFirst(rt'.queue, s)
    BY DEF PressedOnce
  <2>1. e.type = "UP" \/ e.type = "DOWN"
    BY DEF Edges
  <2>2. CASE s = e.source
    BY <1>4, <1>5, <1>6, <2>2, EnteredFacts
  <2>3. CASE s # e.source
    BY <1>4, <1>6, <2>3, EnteredFacts
  <2> QED
    BY <2>2, <2>3
<1>8. PlanSound(rt', todo')
  <2>1. rt'.hold = rt.hold \/ ~rt'.hold.active
    BY DEF Joins, Restarts, NoHold
  <2>2. ASSUME NEW i \in 1..Len(todo'), todo'[i].type = "DOWN"
        PROVE  NoUp(rt'.queue, todo'[i].source)
    <3>1. NoUp(rt.queue, todo'[i].source)
      BY <2>2 DEF PlanSound
    <3>2. NoUp(q, todo'[i].source)
      BY <1>5, <3>1
    <3> QED
      BY <1>4, <2>2, <3>2, EnteredFacts
  <2> QED
    BY <2>1, <2>2, QueueSound
<1>9. e.type = "DOWN" => Committed(rt', todo', macroOn, e.source)
  BY DEF Committed
<1>10. CASE Joins(rt, rt', e)
  <2>1. Kept' = Kept
    BY <1>10 DEF Joins, Kept, InTransaction
  <2>2. HeldApart'
    BY <1>1, <2>1 DEF HeldApart, InTransaction
  <2>3. ASSUME ~suspending PROVE ReleaseComes(rt', Kept, todo', macroOn)
    <3>1. \A s \in Sources \ {e.source} :
             Committed(rt, todo', macroOn, s) => Committed(rt', todo', macroOn, s)
      BY <1>10 DEF Committed, HoldEnds, Joins
    <3>2. Len(rt.queue) \in Nat
      BY <1>1 DEF Types, Runtimes
    <3>3. \A s \in Sources \ {e.source} :
             Committed(rt, todo, macroOn, s) => Committed(rt', todo', macroOn, s)
      BY <3>1
    <3>4. Entered(rt'.queue, rt.queue, e) /\ rt'.orphans = rt.orphans
      BY <1>10 DEF Joins
    <3>5. ReleaseComes(rt, Kept, todo, macroOn)
      BY <1>1, <2>3
    <3> QED
      BY <1>9, <3>2, <3>3, <3>4, <3>5, EnteringReleases
  <2> QED
    BY <1>2, <1>3, <1>7, <1>8, <2>1, <2>2, <2>3 DEF HeldInv
<1>11. CASE Restarts(rt', e)
  <2>1. InTransaction => Kept' = saved /\ Kept = saved
    BY DEF Kept, InTransaction
  <2>2. ~InTransaction => Kept' = <<>>
    BY <1>11 DEF Kept, InTransaction, Restarts
  <2>3. Range(Kept') \subseteq Range(saved)
    BY <2>1, <2>2, NothingIn
  <2>4. NoneTwice(Kept') /\ Range(Kept') \subseteq Sources
    <3>1. NoneTwice(<<>>) /\ Range(<<>>) = {}
      BY NothingIn DEF NoneTwice
    <3> QED
      BY <1>1, <2>1, <2>2, <3>1 DEF HeldApart
  <2>5. HeldApart'
    BY <1>1, <2>4 DEF HeldApart, InTransaction
  <2>6. ReleaseComes(rt', Kept', todo', macroOn)
    <3> DEFINE r == Cleared(rt)
    <3>1. r.queue = <<>> /\ r.physical = {} /\ r.hold = NoHold /\ r.orphans = Range(saved)
      BY DEF Cleared
    <3> HIDE DEF r
    <3>2. ReleaseComes(r, Kept', todo', macroOn)
      BY <2>3, <3>1, EmptyReleases
    <3>3. \A s \in Sources \ {e.source} :
             Committed(r, todo', macroOn, s) => Committed(rt', todo', macroOn, s)
      BY <3>1 DEF Committed, HoldEnds, NoHold
    <3>4. Len(r.queue) \in Nat
      BY <3>1, NothingIn
    <3>5. Entered(rt'.queue, r.queue, e) /\ rt'.orphans = r.orphans
      BY <1>11, <3>1 DEF Restarts
    <3> QED
      BY <1>9, <3>2, <3>3, <3>4, <3>5, EnteringReleases
  <2> QED
    BY <1>2, <1>3, <1>7, <1>8, <2>5, <2>6 DEF HeldInv
<1> QED
  BY <1>10, <1>11

LEMMA EdgeKeeps == HeldInv /\ Edge => HeldInv'
<1> SUFFICES ASSUME HeldInv, Edge PROVE HeldInv'
  OBVIOUS
<1>1. UNCHANGED <<enabled, macroOn, suspending, gate, pc, todo, saved>>
  BY DEF Edge, control, frame, autoHit
<1>2. PICK s \in Fingers, type \in {"DOWN", "UP"}, ok \in BOOLEAN : Enqueue(type, s, ok)
  BY DEF Edge
<1>3. Types /\ HeldApart /\ Drained /\ PlanSound(rt, todo)
  BY DEF HeldInv
<1>4. rt \in Runtimes /\ saved \in Seq(Everything) /\ todo \in Seq(Orders) /\ s \in Sources
  BY <1>3 DEF Types, Sources
<1> DEFINE e == [type |-> type, source |-> s]
<1>5. e \in Edges /\ e.type = type /\ e.source = s
  BY <1>4 DEF Edges
<1> HIDE DEF e
<1>6. /\ rt' \in Runtimes
      /\ \/ rt' = rt
         \/ Emptied(rt')
         \/ /\ gate /\ enabled
            /\ type = "DOWN" => s \in rt'.physical
            /\ Joins(rt, rt', e) \/ Restarts(rt', e)
  BY <1>2, <1>4, EnqueueFacts DEF Refused, e
<1>7. /\ InTransaction' <=> InTransaction
      /\ pc' # "post" => todo = <<>>
      /\ enabled' \in BOOLEAN /\ macroOn' \in BOOLEAN /\ suspending' \in BOOLEAN
      /\ gate' \in BOOLEAN
      /\ ~enabled' => suspending' \/ ~gate'
  BY <1>1, <1>3 DEF Types, HeldApart, Drained, InTransaction
<1>8. CASE rt' = rt
  <2>1. Kept' = Kept
    BY <1>1, <1>8 DEF Kept, InTransaction
  <2>2. ~InTransaction' => saved' = <<>>
    BY <1>1, <1>3 DEF HeldApart, InTransaction
  <2> QED
    BY <1>1, <1>4, <1>7, <1>8, <2>1, <2>2, SameKeeps
<1>9. CASE Emptied(rt')
  BY <1>1, <1>6, <1>7, <1>9, EmptiedKeeps
<1>10. CASE /\ gate /\ enabled
            /\ type = "DOWN" => s \in rt'.physical
            /\ Joins(rt, rt', e) \/ Restarts(rt', e)
  <2>1. s \notin Keys
    BY ReplayAssumption DEF Keys
  <2>2. \A i \in 1..Len(todo) : todo[i].source # s
    <3>1. \A i \in 1..Len(todo) : todo[i] \in Orders
      BY <1>4
    <3> QED
      BY <2>1, <3>1 DEF Orders
  <2>3. pc # "post" => todo' = <<>>
    BY <1>1, <1>7
  <2>4. \A i \in 1..Len(todo') :
              todo'[i].type = "DOWN" => todo'[i].source # e.source \/ e.type = "DOWN"
    BY <1>1, <1>5, <2>2
  <2> QED
    BY <1>1, <1>3, <1>4, <1>5, <1>6, <1>10, <2>1, <2>3, <2>4, EnteredKeeps
<1> QED
  BY <1>6, <1>8, <1>9, <1>10

LEMMA PostEdgeKeeps == HeldInv /\ PostEdge => HeldInv'
<1> SUFFICES ASSUME HeldInv, PostEdge PROVE HeldInv'
  OBVIOUS
<1> DEFINE s == Head(todo).source
<1> DEFINE type == IF Head(todo).type = "DOWN" THEN "DOWN" ELSE "UP"
<1>1. UNCHANGED <<enabled, macroOn, suspending, gate, pc, saved>>
  BY DEF PostEdge, control, autoHit
<1>2. pc = "post" /\ todo # <<>> /\ Head(todo).type \in {"DOWN", "UP", "TRYUP"}
  BY DEF PostEdge
<1>3. PICK ok \in BOOLEAN :
         /\ Enqueue(type, s, ok)
         /\ todo' = IF ok \/ Head(todo).type = "TRYUP" THEN Tail(todo) ELSE <<>>
  BY DEF PostEdge
<1>4. /\ Types /\ HeldApart /\ Drained /\ PlanSound(rt, todo)
      /\ ~suspending => ReleaseComes(rt, Kept, todo, macroOn)
      /\ PressedOnce(rt.queue)
  BY DEF HeldInv
<1>5. rt \in Runtimes /\ saved \in Seq(Everything) /\ todo \in Seq(Orders)
  BY <1>4 DEF Types
<1>6. Head(todo) \in Orders /\ Tail(todo) \in Seq(Orders) /\ Head(todo) = todo[1]
      /\ 1 \in 1..Len(todo)
  BY <1>2, <1>5, HeadTailFacts
<1>7. s \in Keys /\ s \in Sources /\ s \notin Fingers
  BY <1>6, ReplayAssumption DEF Orders, Keys, Sources
<1>8. type \in {"DOWN", "UP"} /\ (type = "DOWN" <=> Head(todo).type = "DOWN")
      /\ (type = "UP" <=> Head(todo).type \in {"UP", "TRYUP"})
  BY <1>2
<1> DEFINE e == [type |-> type, source |-> s]
<1>9. e \in Edges /\ e.type = type /\ e.source = s
  BY <1>7, <1>8 DEF Edges
<1>10. /\ rt' \in Runtimes
       /\ \/ ~ok /\ rt' = rt /\ (~enabled \/ ~gate)
          \/ ~ok /\ Emptied(rt')
          \/ /\ ok /\ gate /\ enabled
             /\ Joins(rt, rt', e) \/ Restarts(rt', e)
  BY <1>3, <1>5, <1>7, <1>8, EnqueueFacts DEF Refused
<1> HIDE DEF e, type
<1>11. /\ PlanSound(rt, Tail(todo))
       /\ \A i \in 1..Len(Tail(todo)) : Tail(todo)[i].type = "DOWN" =>
             ~Is(Head(todo), "UP", Tail(todo)[i].source)
             /\ ~Is(Head(todo), "TRYUP", Tail(todo)[i].source)
       /\ \A x : PlanLetsGo(todo, x) => LetsGo(Head(todo), x) \/ PlanLetsGo(Tail(todo), x)
       /\ Head(todo).type = "DOWN" => PlanLetsGo(Tail(todo), Head(todo).source)
  BY <1>2, <1>4, <1>5, TailSound
<1>12. todo' \in Seq(Orders) /\ PlanSound(rt, todo')
  <2>1. <<>> \in Seq(Orders) /\ PlanSound(rt, <<>>)
    BY NothingIn DEF PlanSound
  <2> QED
    BY <1>3, <1>6, <1>11, <2>1
<1>13. CASE ~ok /\ rt' = rt /\ (~enabled \/ ~gate)
  <2>1. Kept' = Kept
    BY <1>1, <1>13 DEF Kept, InTransaction
  <2>2. HeldApart' /\ Types'
    BY <1>1, <1>2, <1>4, <1>12, <1>13, <2>1 DEF HeldApart, InTransaction, Types
  <2>3. Drained'
    BY <1>1, <1>4, <1>13, <2>1 DEF Drained
  <2>4. ASSUME ~suspending' PROVE ReleaseComes(rt', Kept', todo', macroOn')
    <3>1. ~gate
      BY <1>1, <1>4, <1>13, <2>4 DEF Drained
    <3>2. rt'.queue = <<>> /\ Range(Kept') \subseteq rt'.orphans
      BY <1>4, <1>13, <2>1, <3>1 DEF Drained
    <3> QED
      BY <3>2, EmptyReleases
  <2>5. PlanSound(rt', todo') /\ PressedOnce(rt'.queue)
    BY <1>4, <1>12, <1>13
  <2> QED
    BY <2>2, <2>3, <2>4, <2>5 DEF HeldInv
<1>14. CASE ~ok /\ Emptied(rt')
  <2>1. /\ rt'.queue = <<>> /\ rt'.held = <<>> /\ ~rt'.hold.active
        /\ rt'.orphans = Range(saved)
    BY <1>14 DEF Emptied, NoHold
  <2>2. Kept' = <<>> /\ saved = <<>>
    BY <1>1, <1>2, <1>4, <2>1 DEF Kept, InTransaction, HeldApart
  <2>3. NoneTwice(<<>>) /\ Range(<<>>) = {}
    BY NothingIn DEF NoneTwice
  <2>4. HeldApart' /\ Types'
    BY <1>1, <1>2, <1>4, <1>10, <1>12, <2>2, <2>3 DEF HeldApart, InTransaction, Types
  <2>5. Drained'
    BY <1>1, <1>4, <2>1, <2>2, <2>3 DEF Drained
  <2>6. ReleaseComes(rt', Kept', todo', macroOn') /\ PressedOnce(rt'.queue)
    BY <2>1, <2>2, <2>3, EmptyReleases
  <2>7. PlanSound(rt', todo')
    <3>1. \A x : NoUp(rt'.queue, x)
      BY <2>1, NothingIn DEF NoUp
    <3> QED
      BY <1>12, <2>1, <3>1, QueueSound
  <2> QED
    BY <2>4, <2>5, <2>6, <2>7 DEF HeldInv
<1>15. CASE /\ ok /\ gate /\ enabled
            /\ Joins(rt, rt', e) \/ Restarts(rt', e)
  <2>1. todo' = Tail(todo)
    BY <1>3, <1>15
  <2>2. \A i \in 1..Len(todo') :
              todo'[i].type = "DOWN" => todo'[i].source # e.source \/ e.type = "DOWN"
    BY <1>8, <1>9, <1>11, <2>1 DEF Is
  <2>3. NoUp(rt.queue, e.source) \/ e.type = "UP"
    BY <1>4, <1>6, <1>8, <1>9 DEF PlanSound
  <2>4. ASSUME NEW x \in Sources \ {e.source}, Committed(rt, todo, macroOn, x)
        PROVE  Committed(rt, todo', macroOn, x)
    <3>1. ~LetsGo(Head(todo), x)
      BY <1>9, <2>4 DEF LetsGo, Is
    <3>2. PlanLetsGo(todo, x) => PlanLetsGo(todo', x)
      BY <1>11, <2>1, <3>1
    <3>3. HoldEnds(rt, todo, macroOn, x) => HoldEnds(rt, todo', macroOn, x)
      <4>1. \A i \in 1..Len(Tail(todo)) :
               i + 1 \in 1..Len(todo) /\ Tail(todo)[i] = todo[i + 1]
        BY <1>2, <1>5, HeadTailFacts
      <4> QED
        BY <2>1, <4>1 DEF HoldEnds
    <3> QED
      BY <2>4, <3>2, <3>3 DEF Committed
  <2>5. e.type = "DOWN" => PlanLetsGo(todo', e.source)
    BY <1>8, <1>9, <1>11, <2>1
  <2> QED
    BY <1>1, <1>2, <1>9, <1>10, <1>12, <1>15, <2>2, <2>3, <2>4, <2>5, EnteredKeeps
<1> QED
  BY <1>10, <1>13, <1>14, <1>15

-----------------------------------------------------------------------------
(* The macro.                                                              *)

LEMMA KeyFacts ==
    /\ MacroKeys \in Seq(Keys) /\ Len(MacroKeys) \in Nat
    /\ DOMAIN MacroKeys = 1..Len(MacroKeys)
    /\ \A i, j \in 1..Len(MacroKeys) : MacroKeys[i] = MacroKeys[j] => i = j
    /\ \A i \in 1..Len(MacroKeys) : MacroKeys[i] \in Keys
BY ReplayAssumption DEF Keys, IsInjective, Range

LEMMA Halves ==
    ASSUME NEW n \in Nat
    PROVE  /\ \A i \in 1..2 * n : (i + 1) \div 2 \in 1..n
           /\ \A i \in 1..2 * n : i % 2 = 1 => /\ i < 2 * n /\ (i + 1) % 2 # 1
                                               /\ ((i + 1) + 1) \div 2 = (i + 1) \div 2
           /\ \A i, j \in 1..2 * n : i % 2 = 1 /\ j % 2 # 1 /\ j < i =>
                 (j + 1) \div 2 # (i + 1) \div 2
OBVIOUS

LEMMA TapsFacts ==
    ASSUME NEW n \in 0..Len(MacroKeys)
    PROVE  /\ Taps(n) \in Seq(Orders) /\ Len(Taps(n)) = 2 * n
           /\ \A i \in 1..2 * n : Taps(n)[i] =
                 Post(IF i % 2 = 1 THEN "DOWN" ELSE "UP", MacroKeys[(i + 1) \div 2])
<1>1. n \in Nat /\ 2 * n \in Nat /\ \A i \in 1..n : i \in 1..Len(MacroKeys)
  BY KeyFacts
<1>2. ASSUME NEW i \in 1..2 * n
      PROVE  Post(IF i % 2 = 1 THEN "DOWN" ELSE "UP", MacroKeys[(i + 1) \div 2]) \in Orders
  <2>1. (i + 1) \div 2 \in 1..n
    BY <1>1, Halves
  <2>2. MacroKeys[(i + 1) \div 2] \in Keys
    BY <1>1, <2>1, KeyFacts
  <2> DEFINE k == MacroKeys[(i + 1) \div 2]
  <2> HIDE DEF k
  <2>3. k \in Keys
    BY <2>2 DEF k
  <2>4. Post("DOWN", k) \in Orders /\ Post("UP", k) \in Orders
    BY <2>3 DEF Post, Orders
  <2> QED
    BY <2>4 DEF k
<1> DEFINE o(i) == Post(IF i % 2 = 1 THEN "DOWN" ELSE "UP", MacroKeys[(i + 1) \div 2])
<1>3. \A i \in 1..2 * n : o(i) \in Orders
  BY <1>2
<1>4. Taps(n) = [i \in 1..2 * n |-> o(i)]
  BY DEF Taps
<1> DEFINE m == 2 * n
<1>5. m \in Nat
  BY <1>1
<1> HIDE DEF o
<1>6. /\ Taps(n) \in Seq(Orders) /\ Len(Taps(n)) = 2 * n
      /\ \A i \in 1..2 * n : Taps(n)[i] = o(i)
  <2>1. \A i \in 1..m : o(i) \in Orders
    BY <1>3
  <2>2. Taps(n) = [i \in 1..m |-> o(i)]
    BY <1>4
  <2> HIDE DEF m
  <2>3. Taps(n) \in Seq(Orders) /\ Len(Taps(n)) = m /\ \A i \in 1..m : Taps(n)[i] = o(i)
    BY <1>5, <2>1, <2>2
  <2> QED
    BY <2>3 DEF m
<1> QED
  BY <1>6 DEF o

\* Taps of the keys before n, a press of key n, and what lets it go.
TargetOf(p, n) ==
    LET k == MacroKeys[n]
    IN  /\ p \in Seq(Orders)
        /\ \A i \in 1..2 * n - 1 : p[i] = Taps(n)[i]
        /\ \/ Len(p) = 2 * n /\ p[2 * n] = Post("UP", k)
           \/ Len(p) = 2 * n /\ p[2 * n] = StartHold(k, FALSE)
           \/ Len(p) = 2 * n + 1 /\ p[2 * n] = StartHold(k, TRUE)
                                 /\ p[2 * n + 1] = Post("UP", k)

LEMMA TargetShape ==
    ASSUME NEW p \in NewTarget
    PROVE  \E n \in 1..Len(MacroKeys) : TargetOf(p, n)
<1>1. DOMAIN MacroKeys = 1..Len(MacroKeys) /\ Len(MacroKeys) \in Nat
  BY KeyFacts
<1>2. CASE \E n \in DOMAIN MacroKeys : p = Taps(n)
  <2>1. PICK n \in 1..Len(MacroKeys) : p = Taps(n)
    BY <1>1, <1>2
  <2>2. /\ p \in Seq(Orders) /\ Len(p) = 2 * n
        /\ \A i \in 1..2 * n : p[i] =
              Post(IF i % 2 = 1 THEN "DOWN" ELSE "UP", MacroKeys[(i + 1) \div 2])
    BY <1>1, <2>1, TapsFacts
  <2>3. 2 * n \in 1..2 * n /\ (2 * n) % 2 # 1 /\ (2 * n + 1) \div 2 = n
    BY <1>1
  <2>4. p[2 * n] = Post("UP", MacroKeys[n])
    BY <2>2, <2>3
  <2>5. TargetOf(p, n)
    BY <2>1, <2>2, <2>4 DEF TargetOf
  <2> QED
    BY <2>5
<1>3. ASSUME NEW n \in DOMAIN MacroKeys, NEW u \in Seq(Orders), p = Taps(n - 1) \o u,
             Len(u) \in {2, 3}, u[1] = Post("DOWN", MacroKeys[n])
      PROVE  /\ p \in Seq(Orders) /\ Len(p) = 2 * n - 2 + Len(u)
             /\ \A i \in 1..2 * n - 1 : p[i] = Taps(n)[i]
             /\ \A i \in 1..Len(u) : p[2 * n - 2 + i] = u[i]
  <2> DEFINE t == Taps(n - 1)
  <2> DEFINE l == 2 * n - 2
  <2>0. n \in 1..Len(MacroKeys)
    BY <1>1, <1>3
  <2>9. n \in Nat /\ n >= 1
    BY <1>1, <2>0
  <2>1. /\ n \in 0..Len(MacroKeys) /\ n - 1 \in 0..Len(MacroKeys)
        /\ 2 * (n - 1) = l /\ l \in Nat /\ 2 * n - 1 = l + 1 /\ 2 * n = l + 2
    BY <1>1, <2>0, <2>9
  <2>2. /\ t \in Seq(Orders) /\ Len(t) = l
        /\ \A i \in 1..l : t[i] =
              Post(IF i % 2 = 1 THEN "DOWN" ELSE "UP", MacroKeys[(i + 1) \div 2])
    BY <2>1, TapsFacts
  <2>3. \A i \in 1..l + 2 : Taps(n)[i] =
              Post(IF i % 2 = 1 THEN "DOWN" ELSE "UP", MacroKeys[(i + 1) \div 2])
    BY <2>1, TapsFacts
  <2>4. Taps(n)[l + 1] = Post("DOWN", MacroKeys[n])
    <3>1. l + 1 \in 1..l + 2 /\ (l + 1) % 2 = 1 /\ ((l + 1) + 1) \div 2 = n
      <4>1. l + 1 \in 1..l + 2
        BY <2>1
      <4>2. (2 * n - 2 + 1) % 2 = 1
        BY <2>9
      <4>3. ((2 * n - 2 + 1) + 1) \div 2 = n
        BY <2>9
      <4> QED
        BY <4>1, <4>2, <4>3
    <3> QED
      BY <2>3, <3>1
  <2> HIDE DEF t, l
  <2>5. /\ t \o u \in Seq(Orders) /\ Len(t \o u) = l + Len(u)
        /\ \A i \in 1..l : (t \o u)[i] = t[i]
        /\ \A i \in 1..Len(u) : (t \o u)[l + i] = u[i]
    <3>1. t \in Seq(Orders) /\ u \in Seq(Orders)
      BY <1>3, <2>2
    <3>2. /\ t \o u \in Seq(Orders) /\ Len(t \o u) = Len(t) + Len(u)
          /\ \A i \in 1..Len(t) : (t \o u)[i] = t[i]
          /\ \A i \in 1..Len(u) : (t \o u)[Len(t) + i] = u[i]
      <4>1. \A x, y \in Seq(Orders) :
               /\ x \o y \in Seq(Orders) /\ Len(x \o y) = Len(x) + Len(y)
               /\ \A i \in 1..Len(x) : (x \o y)[i] = x[i]
               /\ \A i \in 1..Len(y) : (x \o y)[Len(x) + i] = y[i]
        BY JoinFacts
      <4>2. t \o u \in Seq(Orders) /\ Len(t \o u) = Len(t) + Len(u)
        BY <3>1, <4>1
      <4>3. \A i \in 1..Len(t) : (t \o u)[i] = t[i]
        BY <3>1, <4>1
      <4>4. \A i \in 1..Len(u) : (t \o u)[Len(t) + i] = u[i]
        BY <3>1, <4>1
      <4> QED
        BY <4>2, <4>3, <4>4
    <3> QED
      BY <2>2, <3>2
  <2>6. p = t \o u
    BY <1>3 DEF t
  <2>7. ASSUME NEW i \in 1..l + 1 PROVE p[i] = Taps(n)[i]
    <3>1. CASE i \in 1..l
      <4>1. i \in 1..l + 2
        BY <2>1
      <4> QED
        BY <2>2, <2>3, <2>5, <2>6, <3>1, <4>1
    <3>2. CASE i = l + 1
      <4>1. 1 \in 1..Len(u)
        BY <1>3
      <4>2. (t \o u)[l + 1] = u[1]
        BY <2>5, <4>1
      <4> QED
        BY <1>3, <2>4, <2>6, <3>2, <4>2
    <3> QED
      BY <2>1, <3>1, <3>2
  <2> QED
    BY <2>1, <2>5, <2>6, <2>7 DEF l
<1>4. ASSUME NEW k \in Keys
      PROVE  /\ Post("DOWN", k) \in Orders /\ Post("UP", k) \in Orders
             /\ StartHold(k, FALSE) \in Orders /\ StartHold(k, TRUE) \in Orders
  BY DEF Post, StartHold, Orders
<1>5. CASE \E n \in DOMAIN MacroKeys :
              p = Taps(n - 1) \o <<Post("DOWN", MacroKeys[n]), StartHold(MacroKeys[n], FALSE)>>
  <2>1. PICK n \in DOMAIN MacroKeys :
              p = Taps(n - 1) \o <<Post("DOWN", MacroKeys[n]), StartHold(MacroKeys[n], FALSE)>>
    BY <1>5
  <2> DEFINE a == Post("DOWN", MacroKeys[n])
  <2> DEFINE b == StartHold(MacroKeys[n], FALSE)
  <2> DEFINE u == <<a, b>>
  <2>2. a \in Orders /\ b \in Orders
    BY <1>1, <1>4, KeyFacts
  <2> HIDE DEF a, b
  <2>3. u \in Seq(Orders) /\ Len(u) = 2 /\ u[1] = a /\ u[2] = b
    BY <2>2
  <2>4. p = Taps(n - 1) \o u
    BY <2>1 DEF a, b
  <2> HIDE DEF u
  <2>5. /\ p \in Seq(Orders) /\ Len(p) = 2 * n - 2 + 2
        /\ \A i \in 1..2 * n - 1 : p[i] = Taps(n)[i]
        /\ \A i \in 1..2 : p[2 * n - 2 + i] = u[i]
    <3>1. u[1] = Post("DOWN", MacroKeys[n]) /\ Len(u) \in {2, 3}
      BY <2>3 DEF a
    <3>2. /\ p \in Seq(Orders) /\ Len(p) = 2 * n - 2 + Len(u)
          /\ \A i \in 1..2 * n - 1 : p[i] = Taps(n)[i]
          /\ \A i \in 1..Len(u) : p[2 * n - 2 + i] = u[i]
      BY <1>3, <2>3, <2>4, <3>1
    <3> QED
      BY <2>3, <3>2
  <2>6. n \in 1..Len(MacroKeys) /\ 2 * n - 2 + 2 = 2 * n /\ 2 \in 1..2
    BY <1>1
  <2>7. p[2 * n] = b
    BY <2>3, <2>5, <2>6
  <2>8. TargetOf(p, n)
    BY <2>5, <2>6, <2>7 DEF TargetOf, b
  <2> QED
    BY <2>6, <2>8
<1>6. CASE \E n \in DOMAIN MacroKeys :
              p = Taps(n - 1) \o <<Post("DOWN", MacroKeys[n]), StartHold(MacroKeys[n], TRUE),
                                   Post("UP", MacroKeys[n])>>
  <2>1. PICK n \in DOMAIN MacroKeys :
              p = Taps(n - 1) \o <<Post("DOWN", MacroKeys[n]), StartHold(MacroKeys[n], TRUE),
                                   Post("UP", MacroKeys[n])>>
    BY <1>6
  <2> DEFINE a == Post("DOWN", MacroKeys[n])
  <2> DEFINE b == StartHold(MacroKeys[n], TRUE)
  <2> DEFINE c == Post("UP", MacroKeys[n])
  <2> DEFINE u == <<a, b, c>>
  <2>2. a \in Orders /\ b \in Orders /\ c \in Orders
    BY <1>1, <1>4, KeyFacts
  <2> HIDE DEF a, b, c
  <2>3. u \in Seq(Orders) /\ Len(u) = 3 /\ u[1] = a /\ u[2] = b /\ u[3] = c
    BY <2>2
  <2>4. p = Taps(n - 1) \o u
    BY <2>1 DEF a, b, c
  <2> HIDE DEF u
  <2>5. /\ p \in Seq(Orders) /\ Len(p) = 2 * n - 2 + 3
        /\ \A i \in 1..2 * n - 1 : p[i] = Taps(n)[i]
        /\ \A i \in 1..3 : p[2 * n - 2 + i] = u[i]
    <3>1. u[1] = Post("DOWN", MacroKeys[n]) /\ Len(u) \in {2, 3}
      BY <2>3 DEF a
    <3>2. /\ p \in Seq(Orders) /\ Len(p) = 2 * n - 2 + Len(u)
          /\ \A i \in 1..2 * n - 1 : p[i] = Taps(n)[i]
          /\ \A i \in 1..Len(u) : p[2 * n - 2 + i] = u[i]
      BY <1>3, <2>3, <2>4, <3>1
    <3> QED
      BY <2>3, <3>2
  <2>6. /\ n \in 1..Len(MacroKeys) /\ 2 * n - 2 + 2 = 2 * n /\ 2 * n - 2 + 3 = 2 * n + 1
        /\ 2 \in 1..3 /\ 3 \in 1..3
    BY <1>1
  <2>7. p[2 * n] = b /\ p[2 * n + 1] = c
    BY <2>3, <2>5, <2>6
  <2>8. TargetOf(p, n)
    BY <2>5, <2>6, <2>7 DEF TargetOf, b, c
  <2> QED
    BY <2>6, <2>8
<1> QED
  BY <1>2, <1>5, <1>6 DEF NewTarget

\* A new target is planned with nothing queued and no hold.
LEMMA TargetSound ==
    ASSUME NEW p \in NewTarget, NEW r, \A s : NoUp(r.queue, s), ~r.hold.active
    PROVE  p \in Seq(Orders) /\ PlanSound(r, p)
<1>1. PICK n \in 1..Len(MacroKeys) : TargetOf(p, n)
  BY TargetShape
<1> DEFINE k == MacroKeys[n]
<1> DEFINE m == 2 * n
<1>2. n \in Nat /\ m \in Nat /\ m \in 1..m /\ n \in 1..n /\ Len(MacroKeys) \in Nat
      /\ n \in 0..Len(MacroKeys) /\ \A i \in 1..n : i \in 1..Len(MacroKeys)
  BY KeyFacts
<1>3. /\ p \in Seq(Orders)
      /\ \A i \in 1..m - 1 : p[i] = Taps(n)[i]
      /\ \/ Len(p) = m /\ p[m] = Post("UP", k)
         \/ Len(p) = m /\ p[m] = StartHold(k, FALSE)
         \/ Len(p) = m + 1 /\ p[m] = StartHold(k, TRUE) /\ p[m + 1] = Post("UP", k)
  BY <1>1 DEF TargetOf
<1>4. \A i \in 1..m : Taps(n)[i] =
         Post(IF i % 2 = 1 THEN "DOWN" ELSE "UP", MacroKeys[(i + 1) \div 2])
  BY <1>2, TapsFacts
<1>5. /\ \A i \in 1..m : (i + 1) \div 2 \in 1..n
      /\ \A i \in 1..m : i % 2 = 1 => /\ i < m /\ (i + 1) % 2 # 1
                                      /\ ((i + 1) + 1) \div 2 = (i + 1) \div 2
      /\ \A i, j \in 1..m : i % 2 = 1 /\ j % 2 # 1 /\ j < i => (j + 1) \div 2 # (i + 1) \div 2
  BY <1>2, Halves
<1>6. (m - 1 + 1) \div 2 = n
  BY <1>2
<1> HIDE DEF m, k
<1> DEFINE key(i) == MacroKeys[(i + 1) \div 2]
<1>7. ASSUME NEW i \in 1..m - 1
      PROVE  /\ p[i].type = IF i % 2 = 1 THEN "DOWN" ELSE "UP"
             /\ p[i].source = key(i)
  <2>1. i \in 1..m
    BY <1>2
  <2>2. p[i] = Post(IF i % 2 = 1 THEN "DOWN" ELSE "UP", key(i))
    BY <1>3, <1>4, <2>1
  <2> HIDE DEF key
  <2>3. \A t, x : Post(t, x).type = t /\ Post(t, x).source = x
    BY DEF Post
  <2> QED
    BY <2>2, <2>3
<1> DEFINE l == Len(p)
<1>0. l = m \/ l = m + 1
  BY <1>3
<1> HIDE DEF l
<1>8. \A i \in 1..Len(p) : i \in 1..m - 1 \/ i = m \/ (i = m + 1 /\ Len(p) = m + 1)
  <2>1. \A i \in 1..l : i \in 1..m - 1 \/ i = m \/ (i = m + 1 /\ l = m + 1)
    BY <1>0, <1>2
  <2> QED
    BY <2>1 DEF l
<1>9. /\ p[m].source = k /\ p[m].type \in {"UP", "HOLD"}
      /\ Len(p) = m + 1 => p[m + 1].source = k /\ p[m + 1].type = "UP"
  BY <1>2, <1>3 DEF Post, StartHold
<1>10. 1..m - 1 \subseteq 1..Len(p) /\ m \in 1..Len(p) /\ Len(p) \in Nat
  <2>1. 1..m - 1 \subseteq 1..l /\ m \in 1..l /\ l \in Nat
    BY <1>0, <1>2
  <2> QED
    BY <2>1 DEF l
<1>11. ASSUME NEW i \in 1..Len(p), p[i].type = "DOWN"
       PROVE  i \in 1..m - 1 /\ i % 2 = 1
  BY <1>7, <1>8, <1>9, <1>11
<1>12. ASSUME NEW i \in 1..Len(p), p[i].type = "DOWN" PROVE LetsGoAfter(p, i)
  <2>1. i \in 1..m - 1 /\ i \in 1..m /\ i % 2 = 1
    BY <1>2, <1>11, <1>12
  <2>2. CASE i + 1 \in 1..m - 1
    <3>1. p[i + 1].type = "UP" /\ p[i + 1].source = key(i + 1) /\ key(i + 1) = key(i)
      BY <1>5, <1>7, <2>1, <2>2
    <3>2. p[i].source = key(i)
      BY <1>7, <2>1
    <3>3. LetsGo(p[i + 1], p[i].source)
      BY <3>1, <3>2 DEF LetsGo, Is
    <3>4. i + 1 \in 1..Len(p) /\ i < i + 1
      BY <1>10, <2>1, <2>2
    <3> QED
      BY <3>3, <3>4 DEF LetsGoAfter
  <2>3. CASE i = m - 1
    <3>1. p[i].source = k
      BY <1>6, <1>7, <2>1, <2>3 DEF k
    <3>2. i < m /\ i < m + 1
      BY <1>2, <2>3
    <3>3. CASE Len(p) = m /\ p[m] = Post("UP", k)
      <4>1. LetsGo(p[m], p[i].source)
        BY <3>1, <3>3 DEF LetsGo, Is, Post
      <4> QED
        BY <1>10, <3>2, <4>1 DEF LetsGoAfter
    <3>4. CASE Len(p) = m /\ p[m] = StartHold(k, FALSE)
      <4>1. LetsGo(p[m], p[i].source)
        BY <3>1, <3>4 DEF LetsGo, Is, StartHold
      <4> QED
        BY <1>10, <3>2, <4>1 DEF LetsGoAfter
    <3>5. CASE Len(p) = m + 1 /\ p[m + 1] = Post("UP", k)
      <4>1. LetsGo(p[m + 1], p[i].source)
        BY <3>1, <3>5 DEF LetsGo, Is, Post
      <4>2. m + 1 \in 1..Len(p)
        BY <1>2, <3>5
      <4> QED
        BY <3>2, <4>1, <4>2 DEF LetsGoAfter
    <3> QED
      BY <1>3, <3>3, <3>4, <3>5
  <2> QED
    BY <1>2, <2>1, <2>2, <2>3
<1>13. ASSUME NEW i \in 1..Len(p), p[i].type = "DOWN" PROVE PressesFirst(p, i)
  <2> SUFFICES ASSUME NEW j \in 1..Len(p), j < i
               PROVE  ~Is(p[j], "UP", p[i].source) /\ ~Is(p[j], "TRYUP", p[i].source)
    BY DEF PressesFirst
  <2>1. i \in 1..m - 1 /\ i \in 1..m /\ i % 2 = 1 /\ j \in 1..m - 1 /\ j \in 1..m
    BY <1>2, <1>10, <1>11, <1>13
  <2>2. CASE j % 2 = 1
    BY <1>7, <2>1, <2>2 DEF Is
  <2>3. CASE j % 2 # 1
    <3>1. (j + 1) \div 2 # (i + 1) \div 2
      BY <1>5, <2>1, <2>3
    <3>2. (j + 1) \div 2 \in 1..Len(MacroKeys) /\ (i + 1) \div 2 \in 1..Len(MacroKeys)
      BY <1>2, <1>5, <2>1
    <3>3. key(j) # key(i)
      BY <3>1, <3>2, KeyFacts
    <3>4. p[j].source = key(j) /\ p[i].source = key(i)
      BY <1>7, <2>1
    <3> QED
      BY <3>3, <3>4 DEF Is
  <2> QED
    BY <2>2, <2>3
<1>14. \A i \in 1..Len(p) : p[i].type # "RELEASE" /\ (p[i].type = "HOLD" => i = m)
  BY <1>7, <1>8, <1>9
<1>15. PlanSound(r, p)
  BY <1>12, <1>13, <1>14 DEF PlanSound, OnlyHold
<1> QED
  BY <1>3, <1>15

LEMMA HoldFacts ==
    ASSUME NEW h \in Holds, h.active
    PROVE  h.source \in Keys /\ h.endTap \in BOOLEAN
<1>1. NoHold.active = FALSE
  BY DEF NoHold
<1>2. h # NoHold
  BY <1>1
<1>3. h \in [active : {TRUE}, source : Keys, endTap : BOOLEAN]
  BY <1>2 DEF Holds
<1> QED
  BY <1>3

\* The end of a hold is planned with nothing queued.
LEMMA EndSound ==
    ASSUME NEW p \in EndOfHold, rt.hold \in Holds, rt.hold.active,
           \A s : NoUp(rt.queue, s)
    PROVE  /\ p \in Seq(Orders) /\ PlanSound(rt, p)
           /\ rt.hold.endTap \/ PlanLetsGo(p, rt.hold.source)
<1> DEFINE s == rt.hold.source
<1> DEFINE down == Post("DOWN", s)
<1> DEFINE up == Post("UP", s)
<1> DEFINE try == Post("TRYUP", s)
<1> DEFINE rel == Post("RELEASE", s)
<1>1. s \in Keys
  BY HoldFacts
<1>2. down \in Orders /\ up \in Orders /\ try \in Orders /\ rel \in Orders
  BY <1>1 DEF Post, Orders
<1>3. /\ down.type = "DOWN" /\ up.type = "UP" /\ try.type = "TRYUP" /\ rel.type = "RELEASE"
      /\ down.source = s /\ up.source = s /\ try.source = s /\ rel.source = s
  BY DEF Post
<1>4. /\ rt.hold.endTap => p = <<rel>> \/ p = <<down, up>> \o <<rel>>
      /\ ~rt.hold.endTap => p = <<try, rel>> \/ p = <<up, rel>>
  <2>1. EndOfHold = IF rt.hold.endTap THEN {<<rel>>, <<down, up>> \o <<rel>>}
                    ELSE {<<try, rel>>, <<up, rel>>}
    BY DEF EndOfHold, Tap
  <2> HIDE DEF down, up, try, rel
  <2> QED
    BY <2>1
<1> HIDE DEF down, up, try, rel
<1> DEFINE again == <<down, up>> \o <<rel>>
<1>5. /\ again \in Seq(Orders) /\ Len(again) = 3
      /\ again[1] = down /\ again[2] = up /\ again[3] = rel
  BY <1>2, PairJoin
<1> HIDE DEF again
<1>6. /\ p \in Seq(Orders)
      /\ \/ /\ rt.hold.endTap /\ Len(p) = 1 /\ p[1] = rel
         \/ /\ rt.hold.endTap /\ Len(p) = 3
            /\ p[1] = down /\ p[2] = up /\ p[3] = rel
         \/ /\ ~rt.hold.endTap /\ Len(p) = 2
            /\ p[1] = try \/ p[1] = up
            /\ p[2] = rel
  <2>1. CASE p = <<rel>> /\ rt.hold.endTap
    BY <1>2, <2>1
  <2>2. CASE p = again /\ rt.hold.endTap
    BY <1>5, <2>2
  <2>3. CASE p = <<try, rel>> /\ ~rt.hold.endTap
    BY <1>2, <2>3
  <2>4. CASE p = <<up, rel>> /\ ~rt.hold.endTap
    BY <1>2, <2>4
  <2> QED
    BY <1>4, <2>1, <2>2, <2>3, <2>4 DEF again
<1> HIDE DEF s
<1>7. \A i \in 1..Len(p) : i = 1 \/ i = 2 \/ i = 3
  <2> DEFINE l == Len(p)
  <2>1. l \in {1, 2, 3}
    BY <1>6
  <2> HIDE DEF l
  <2>2. \A i \in 1..l : i = 1 \/ i = 2 \/ i = 3
    BY <2>1
  <2> QED
    BY <2>2 DEF l
<1>8. ASSUME NEW i \in 1..Len(p)
      PROVE  /\ p[i].source = s /\ p[i].type # "HOLD"
             /\ p[i].type = "DOWN" => i = 1 /\ Len(p) = 3 /\ p[2] = up
  BY <1>3, <1>6, <1>7
<1>9. ASSUME NEW i \in 1..Len(p), p[i].type = "DOWN"
      PROVE  LetsGoAfter(p, i) /\ PressesFirst(p, i)
  <2>1. i = 1 /\ 2 \in 1..Len(p) /\ p[2] = up /\ p[i].source = s
    BY <1>8, <1>9
  <2>2. LetsGo(p[2], p[i].source)
    BY <1>3, <2>1 DEF LetsGo, Is
  <2>3. LetsGoAfter(p, i)
    BY <2>1, <2>2 DEF LetsGoAfter
  <2>4. PressesFirst(p, i)
    BY <2>1 DEF PressesFirst
  <2> QED
    BY <2>3, <2>4
<1>10. PlanSound(rt, p)
  BY <1>8, <1>9 DEF PlanSound, s
<1>11. rt.hold.endTap \/ PlanLetsGo(p, s)
  <2> SUFFICES ASSUME ~rt.hold.endTap PROVE PlanLetsGo(p, s)
    OBVIOUS
  <2>1. 1 \in 1..Len(p) /\ LetsGo(p[1], s)
    BY <1>3, <1>6 DEF LetsGo, Is
  <2> QED
    BY <2>1 DEF PlanLetsGo
<1> QED
  BY <1>6, <1>10, <1>11 DEF s

LEMMA PlanMacroKeeps == HeldInv /\ PlanMacro => HeldInv'
<1> SUFFICES ASSUME HeldInv, PlanMacro PROVE HeldInv'
  OBVIOUS
<1>1. /\ UNCHANGED <<enabled, macroOn, suspending, gate, rt, saved>>
      /\ pc = "macro" /\ pc' = "post" /\ macroOn /\ rt.queue = <<>>
      /\ rt.hold.active \/ rt.held = <<>>
      /\ todo' \in IF rt.hold.active THEN EndOfHold ELSE NewTarget
  BY DEF PlanMacro, MacroIdle, control, autoHit
<1>2. /\ Types /\ HeldApart /\ Drained /\ PressedOnce(rt.queue)
      /\ ~suspending => ReleaseComes(rt, Kept, todo, macroOn)
  BY DEF HeldInv
<1>3. rt.hold \in Holds /\ todo = <<>>
  BY <1>1, <1>2 DEF Types, Runtimes, HeldApart
<1>4. \A s : NoUp(rt.queue, s)
  BY <1>1, NothingIn DEF NoUp
<1>5. /\ todo' \in Seq(Orders) /\ PlanSound(rt, todo')
      /\ rt.hold.active => rt.hold.endTap \/ PlanLetsGo(todo', rt.hold.source)
  <2>1. CASE rt.hold.active
    BY <1>1, <1>3, <1>4, <2>1, EndSound
  <2>2. CASE ~rt.hold.active
    BY <1>1, <1>4, <2>2, TargetSound
  <2> QED
    BY <2>1, <2>2
<1>6. Kept' = rt.held /\ Kept = rt.held
  BY <1>1 DEF Kept, InTransaction
<1>7. Types' /\ HeldApart' /\ Drained'
  BY <1>1, <1>2, <1>5, <1>6 DEF Types, HeldApart, Drained, InTransaction
<1>8. ASSUME ~suspending PROVE ReleaseComes(rt, rt.held, todo', macroOn)
  <2> SUFFICES ASSUME NEW s \in Sources, StaysDown(rt, rt.held, s)
               PROVE  Committed(rt, todo', macroOn, s) \/ (s \in Keys /\ s \in rt.orphans)
    BY DEF ReleaseComes
  <2>1. Committed(rt, todo, macroOn, s) \/ (s \in Keys /\ s \in rt.orphans)
    BY <1>2, <1>6, <1>8 DEF ReleaseComes
  <2>2. ~PlanLetsGo(todo, s)
    BY <1>3, NothingIn DEF PlanLetsGo
  <2>3. CASE s \in rt.physical
    BY <2>3 DEF Committed
  <2>4. CASE HoldEnds(rt, todo, macroOn, s)
    <3>1. rt.hold.active /\ rt.hold.source = s /\ ~rt.hold.endTap
      BY <2>4 DEF HoldEnds
    <3> QED
      BY <1>5, <3>1 DEF Committed
  <2> QED
    BY <2>1, <2>2, <2>3, <2>4 DEF Committed
<1> QED
  BY <1>1, <1>2, <1>5, <1>6, <1>7, <1>8 DEF HeldInv

LEMMA SetHoldKeeps == HeldInv /\ SetHold => HeldInv'
<1> SUFFICES ASSUME HeldInv, SetHold PROVE HeldInv'
  OBVIOUS
<1> DEFINE o == Head(todo)
<1> DEFINE s == o.source
<1>1. /\ UNCHANGED <<enabled, macroOn, suspending, gate, pc, saved>>
      /\ pc = "post" /\ todo # <<>> /\ o.type \in {"HOLD", "RELEASE"} /\ todo' = Tail(todo)
      /\ rt' = IF o.type = "RELEASE" THEN [rt EXCEPT !.hold = NoHold]
               ELSE [rt EXCEPT
                       !.hold = [active |-> TRUE, source |-> s, endTap |-> o.endTap],
                       !.orphans = @ \cup IF macroOn THEN {} ELSE {s}]
  BY DEF SetHold, control, autoHit
<1>2. /\ Types /\ HeldApart /\ Drained /\ PressedOnce(rt.queue) /\ PlanSound(rt, todo)
      /\ ~suspending => ReleaseComes(rt, Kept, todo, macroOn)
  BY DEF HeldInv
<1>3. rt \in Runtimes /\ todo \in Seq(Orders)
  BY <1>2 DEF Types
<1>4. /\ o \in Orders /\ Tail(todo) \in Seq(Orders) /\ o = todo[1] /\ 1 \in 1..Len(todo)
      /\ \A i \in 1..Len(Tail(todo)) :
            i + 1 \in 1..Len(todo) /\ i + 1 # 1 /\ Tail(todo)[i] = todo[i + 1]
  BY <1>1, <1>3, HeadTailFacts
<1>5. /\ PlanSound(rt, Tail(todo))
      /\ \A x : PlanLetsGo(todo, x) => LetsGo(o, x) \/ PlanLetsGo(Tail(todo), x)
  BY <1>1, <1>2, <1>3, TailSound
<1>6. s \in Keys /\ s \in Everything /\ o.endTap \in BOOLEAN
  BY <1>4 DEF Orders, Everything, Sources
<1> HIDE DEF o, s
<1> DEFINE started == [active |-> TRUE, source |-> s, endTap |-> o.endTap]
<1>7. NoHold \in Holds /\ started \in Holds
  BY <1>6 DEF Holds
<1>8. started.active /\ started.source = s /\ started.endTap = o.endTap /\ ~NoHold.active
  BY DEF NoHold
<1> HIDE DEF started
<1>9. /\ rt' \in Runtimes
      /\ rt'.queue = rt.queue /\ rt'.physical = rt.physical /\ rt'.held = rt.held
      /\ \/ o.type = "RELEASE" /\ rt'.hold = NoHold /\ rt'.orphans = rt.orphans
         \/ /\ o.type = "HOLD" /\ rt'.hold = started
            /\ rt'.orphans = rt.orphans \cup (IF macroOn THEN {} ELSE {s})
  <2>1. CASE o.type = "RELEASE"
    <3>1. rt' = [rt EXCEPT !.hold = NoHold]
      BY <1>1, <2>1
    <3> QED
      BY <1>3, <1>7, <2>1, <3>1 DEF Runtimes
  <2>2. CASE o.type = "HOLD"
    <3> DEFINE more == rt.orphans \cup (IF macroOn THEN {} ELSE {s})
    <3>1. rt' = [rt EXCEPT !.hold = started, !.orphans = more]
      BY <1>1, <2>2 DEF started
    <3>2. more \in SUBSET Everything
      BY <1>3, <1>6 DEF Runtimes
    <3> HIDE DEF more
    <3>3. /\ rt' \in Runtimes
          /\ rt'.queue = rt.queue /\ rt'.physical = rt.physical /\ rt'.held = rt.held
          /\ rt'.hold = started /\ rt'.orphans = more
      BY <1>3, <1>7, <3>1, <3>2 DEF Runtimes
    <3> QED
      BY <2>2, <3>3 DEF more
  <2> QED
    BY <1>1, <2>1, <2>2
<1>10. Kept' = Kept /\ rt.orphans \subseteq rt'.orphans
  BY <1>1, <1>9 DEF Kept, InTransaction
<1>11. Types' /\ HeldApart' /\ Drained'
  BY <1>1, <1>2, <1>4, <1>9, <1>10 DEF Types, HeldApart, Drained, InTransaction
<1>12. PlanSound(rt', todo')
  <2>1. CASE o.type = "RELEASE"
    <3>1. \A i \in 1..Len(todo') :
             todo'[i].type = "DOWN" => NoUp(rt'.queue, todo'[i].source)
      BY <1>1, <1>5, <1>9 DEF PlanSound
    <3>2. ~rt'.hold.active
      BY <1>8, <1>9, <2>1
    <3> QED
      BY <1>1, <1>5, <3>1, <3>2, QueueSound
  <2>2. CASE o.type = "HOLD"
    <3>1. OnlyHold(todo, 1)
      BY <1>2, <1>4, <2>2 DEF PlanSound
    <3>2. \A i \in 1..Len(todo') : todo'[i].type # "HOLD" /\ todo'[i].type # "RELEASE"
      BY <1>1, <1>4, <3>1 DEF OnlyHold
    <3> QED
      BY <1>1, <1>5, <1>9, <3>2 DEF PlanSound
  <2> QED
    BY <1>1, <2>1, <2>2
<1>13. ASSUME ~suspending PROVE ReleaseComes(rt', Kept', todo', macroOn)
  <2> SUFFICES ASSUME NEW x \in Sources, StaysDown(rt', Kept', x)
               PROVE  Committed(rt', todo', macroOn, x) \/ (x \in Keys /\ x \in rt'.orphans)
    BY DEF ReleaseComes
  <2>1. StaysDown(rt, Kept, x)
    BY <1>9, <1>10 DEF StaysDown
  <2>2. Committed(rt, todo, macroOn, x) \/ (x \in Keys /\ x \in rt.orphans)
    BY <1>2, <1>13, <2>1 DEF ReleaseComes
  <2>3. CASE x \in Keys /\ x \in rt.orphans
    BY <1>10, <2>3
  <2>4. CASE x \in rt.physical
    BY <1>9, <2>4 DEF Committed
  <2>5. CASE HoldEnds(rt, todo, macroOn, x)
    <3>1. rt.hold.active /\ rt.hold.source = x /\ ~Is(o, "RELEASE", x)
      BY <1>4, <2>5 DEF HoldEnds
    <3>2. o.type # "HOLD"
      BY <1>2, <1>4, <3>1 DEF PlanSound
    <3>3. o.type = "RELEASE" /\ rt.hold.source = s
      BY <1>1, <1>2, <1>4, <3>1, <3>2 DEF PlanSound, s
    <3> QED
      BY <3>1, <3>3 DEF Is, s
  <2>6. CASE PlanLetsGo(todo, x)
    <3>1. LetsGo(o, x) \/ PlanLetsGo(todo', x)
      BY <1>1, <1>5, <2>6
    <3>2. CASE PlanLetsGo(todo', x)
      BY <3>2 DEF Committed
    <3>3. CASE LetsGo(o, x)
      <4>1. o.type = "HOLD" /\ x = s /\ ~o.endTap
        BY <1>1, <3>3 DEF LetsGo, Is, s
      <4>2. CASE ~macroOn
        BY <1>6, <1>9, <4>1, <4>2
      <4>3. CASE macroOn
        <5>1. OnlyHold(todo, 1)
          BY <1>2, <1>4, <4>1 DEF PlanSound
        <5>2. \A i \in 1..Len(todo') : ~Is(todo'[i], "RELEASE", x)
          BY <1>1, <1>4, <5>1 DEF OnlyHold, Is
        <5>3. rt'.hold = started
          BY <1>9, <4>1
        <5>4. HoldEnds(rt', todo', macroOn, x)
          BY <1>8, <4>1, <4>3, <5>2, <5>3 DEF HoldEnds
        <5> QED
          BY <5>4 DEF Committed
      <4> QED
        BY <4>2, <4>3
    <3> QED
      BY <3>1, <3>2, <3>3
  <2> QED
    BY <2>2, <2>3, <2>4, <2>5, <2>6 DEF Committed
<1>14. PressedOnce(rt'.queue)
  BY <1>2, <1>9
<1> QED
  BY <1>1, <1>11, <1>12, <1>13, <1>14 DEF HeldInv

LEMMA SwitchMacroKeeps == HeldInv /\ SwitchMacro => HeldInv'
<1> SUFFICES ASSUME HeldInv, SwitchMacro PROVE HeldInv'
  OBVIOUS
<1>1. UNCHANGED <<enabled, suspending, gate, pc, todo, saved>> /\ macroOn' = ~macroOn
  BY DEF SwitchMacro, frame, autoHit
<1>2. /\ Types /\ HeldApart /\ Drained /\ PressedOnce(rt.queue) /\ PlanSound(rt, todo)
      /\ ~suspending => ReleaseComes(rt, Kept, todo, macroOn)
  BY DEF HeldInv
<1>3. /\ rt \in Runtimes /\ saved \in Seq(Everything) /\ macroOn' \in BOOLEAN
      /\ enabled' \in BOOLEAN /\ suspending' \in BOOLEAN /\ gate' \in BOOLEAN
  BY <1>1, <1>2 DEF Types
<1>4. CASE ~(macroOn /\ rt.hold.active)
  <2>1. rt' = rt
    BY <1>4 DEF SwitchMacro
  <2>2. Kept' = Kept /\ (~InTransaction' => saved' = <<>>)
    BY <1>1, <1>2, <2>1 DEF Kept, InTransaction, HeldApart
  <2>3. (pc' # "post" => todo = <<>>) /\ (~enabled' => suspending' \/ ~gate')
    BY <1>1, <1>2 DEF HeldApart, Drained
  <2> QED
    BY <1>1, <1>3, <1>4, <2>1, <2>2, <2>3, SameKeeps
<1>5. CASE macroOn /\ rt.hold.active
  <2> DEFINE s == rt.hold.source
  <2> DEFINE more == rt.orphans \cup {s}
  <2>1. rt' = [rt EXCEPT !.hold = NoHold, !.orphans = more]
    BY <1>5 DEF SwitchMacro
  <2>2. s \in Keys
    BY <1>3, <1>5, HoldFacts DEF Runtimes
  <2>3. more \in SUBSET Everything /\ NoHold \in Holds
    BY <1>3, <2>2 DEF Runtimes, Everything, Sources, Holds
  <2> HIDE DEF more
  <2>4. /\ rt' \in Runtimes /\ rt'.queue = rt.queue /\ rt'.physical = rt.physical
        /\ rt'.held = rt.held /\ rt'.hold = NoHold /\ rt'.orphans = more
    BY <1>3, <2>1, <2>3 DEF Runtimes
  <2>5. Kept' = Kept /\ rt.orphans \subseteq rt'.orphans /\ ~rt'.hold.active
    BY <1>1, <2>4 DEF Kept, InTransaction, more, NoHold
  <2>6. Types' /\ HeldApart' /\ Drained'
    BY <1>1, <1>2, <1>3, <2>4, <2>5 DEF Types, HeldApart, Drained, InTransaction
  <2>7. PlanSound(rt', todo') /\ PressedOnce(rt'.queue)
    BY <1>1, <1>2, <2>4, <2>5 DEF PlanSound
  <2>8. ASSUME ~suspending PROVE ReleaseComes(rt', Kept', todo', macroOn')
    <3> SUFFICES ASSUME NEW x \in Sources, StaysDown(rt', Kept', x)
                 PROVE  Committed(rt', todo', macroOn', x) \/ (x \in Keys /\ x \in rt'.orphans)
      BY DEF ReleaseComes
    <3>1. StaysDown(rt, Kept, x)
      BY <2>4, <2>5 DEF StaysDown
    <3>2. Committed(rt, todo, macroOn, x) \/ (x \in Keys /\ x \in rt.orphans)
      BY <1>2, <2>8, <3>1 DEF ReleaseComes
    <3>3. CASE HoldEnds(rt, todo, macroOn, x)
      <4>1. x = s
        BY <3>3 DEF HoldEnds
      <4> QED
        BY <2>2, <2>4, <4>1 DEF more
    <3>4. CASE x \in rt.physical \/ PlanLetsGo(todo, x)
      BY <1>1, <2>4, <3>4 DEF Committed
    <3>5. CASE x \in Keys /\ x \in rt.orphans
      BY <2>5, <3>5
    <3> QED
      BY <3>2, <3>3, <3>4, <3>5 DEF Committed
  <2> QED
    BY <1>1, <2>6, <2>7, <2>8 DEF HeldInv
<1> QED
  BY <1>4, <1>5

LEMMA PopBurstKeeps == HeldInv /\ PopBurst => HeldInv'
<1> SUFFICES ASSUME HeldInv, PopBurst PROVE HeldInv'
  OBVIOUS
<1>1. /\ UNCHANGED <<enabled, macroOn, suspending, gate, todo, saved>>
      /\ pc = "loop" /\ pc' = "check"
  BY DEF PopBurst, control, autoHit
<1>2. /\ Types /\ HeldApart /\ Drained /\ PressedOnce(rt.queue) /\ PlanSound(rt, todo)
      /\ ~suspending => ReleaseComes(rt, Kept, todo, macroOn)
  BY DEF HeldInv
<1>3. Kept = rt.held /\ Kept' = rt'.held
  BY <1>1 DEF Kept, InTransaction
<1>4. rt \in Runtimes /\ NoneTwice(rt.held) /\ Range(rt.held) \subseteq Sources
  BY <1>2, <1>3 DEF Types, HeldApart
<1>5. PICK n \in 1..Len(rt.queue) : rt' = Burst(n)
  BY DEF PopBurst
<1>6. PICK r : Reached(r, n) /\ rt' = [r EXCEPT !.queue = SubSeq(@, n + 1, Len(@))]
  BY <1>4, <1>5, BurstReaches
<1>7. /\ r \in Runtimes /\ NoneTwice(r.held) /\ Range(r.held) \subseteq Sources
      /\ r.queue = rt.queue /\ r.physical = rt.physical /\ r.hold = rt.hold
      /\ \A s \in rt.orphans : s \in r.orphans \/ LetGoWithin(n, s)
      /\ \A s \in Range(r.held) :
            (s \in Range(rt.held) /\ Untouched(n, s)) \/ PressedWithin(n, s)
  BY <1>6 DEF Reached
<1>8. rt.queue \in Seq(Edges) /\ Len(rt.queue) \in Nat /\ n \in Nat /\ n \in 0..Len(rt.queue)
  BY <1>4 DEF Runtimes
<1> DEFINE q == SubSeq(rt.queue, n + 1, Len(rt.queue))
<1>9. /\ q \in Seq(Edges)
      /\ \A s : /\ EndsDown(q, s) => EndsDown(rt.queue, s)
                /\ DownsFirst(rt.queue, s) => DownsFirst(q, s)
                /\ Without(q, s) =>
                      \A i \in 1..Len(rt.queue) : n < i => rt.queue[i].source # s
  BY <1>8, LeftFacts
<1>10. rt' = [r EXCEPT !.queue = q]
  BY <1>6, <1>7
<1> HIDE DEF q
<1>11. /\ rt' \in Runtimes /\ rt'.queue = q /\ rt'.physical = rt.physical
       /\ rt'.held = r.held /\ rt'.hold = rt.hold /\ rt'.orphans = r.orphans
  BY <1>7, <1>9, <1>10 DEF Runtimes
<1>12. Types' /\ HeldApart'
  BY <1>1, <1>2, <1>3, <1>7, <1>11 DEF Types, HeldApart, InTransaction
<1>13. Drained'
  <2>1. rt.queue # <<>>
    BY <1>5, NothingIn
  <2> QED
    BY <1>1, <1>2, <2>1 DEF Drained
<1>14. PressedOnce(rt'.queue)
  BY <1>2, <1>9, <1>11 DEF PressedOnce
<1>15. PlanSound(rt', todo')
  <2>1. todo' = <<>>
    BY <1>1, <1>2 DEF HeldApart
  <2> QED
    BY <2>1, NothingIn DEF PlanSound
<1>16. ASSUME ~suspending PROVE ReleaseComes(rt', Kept', todo', macroOn')
  <2> SUFFICES ASSUME NEW s \in Sources, StaysDown(rt', Kept', s)
               PROVE  Committed(rt', todo', macroOn', s) \/ (s \in Keys /\ s \in rt'.orphans)
    BY DEF ReleaseComes
  <2>1. \A i \in 1..n : i \in 1..Len(rt.queue)
    BY <1>8
  <2>2. \A i \in 1..Len(rt.queue) : i \in 1..n \/ n < i
    BY <1>8
  <2>3. EndsDown(rt.queue, s) \/ (Without(rt.queue, s) /\ s \in Range(rt.held))
    <3>1. CASE EndsDown(rt'.queue, s)
      BY <1>9, <1>11, <3>1
    <3>2. CASE Without(rt'.queue, s) /\ s \in Range(rt'.held)
      <4>1. \A i \in 1..Len(rt.queue) : n < i => rt.queue[i].source # s
        BY <1>9, <1>11, <3>2
      <4>2. CASE s \in Range(rt.held) /\ Untouched(n, s)
        BY <2>2, <4>1, <4>2 DEF Without, Untouched
      <4>3. CASE PressedWithin(n, s)
        <5>1. PICK i \in 1..n : /\ Is(rt.queue[i], "DOWN", s)
                                /\ \A j \in 1..n : i < j => rt.queue[j].source # s
          BY <4>3 DEF PressedWithin
        <5>2. \A j \in 1..Len(rt.queue) : i < j => rt.queue[j].source # s
          BY <2>2, <4>1, <5>1
        <5> QED
          BY <2>1, <5>1, <5>2 DEF EndsDown
      <4> QED
        BY <1>7, <1>11, <3>2, <4>2, <4>3
    <3> QED
      BY <1>3, <3>1, <3>2 DEF StaysDown
  <2>4. Committed(rt', todo', macroOn', s) <=> Committed(rt, todo, macroOn, s)
    BY <1>1, <1>11 DEF Committed, HoldEnds
  <2>5. ASSUME s \in rt.orphans, s \in Keys \/ ~EndsDown(rt.queue, s) PROVE s \in r.orphans
    <3> SUFFICES ASSUME LetGoWithin(n, s) PROVE FALSE
      BY <1>7, <2>5
    <3>1. PICK i \in 1..n : Is(rt.queue[i], "UP", s)
      BY DEF LetGoWithin
    <3>2. ~Without(rt.queue, s)
      BY <2>1, <3>1 DEF Without, Is
    <3>3. EndsDown(rt.queue, s) /\ DownsFirst(rt.queue, s)
      BY <1>2, <2>3, <2>5, <3>2 DEF PressedOnce
    <3>4. PICK j \in 1..Len(rt.queue) :
             /\ Is(rt.queue[j], "DOWN", s)
             /\ \A k \in 1..Len(rt.queue) : j < k => rt.queue[k].source # s
      BY <3>3 DEF EndsDown
    <3>5. i \in 1..Len(rt.queue) /\ ~(i < j) /\ ~(j < i)
      BY <2>1, <3>1, <3>3, <3>4 DEF DownsFirst, Is
    <3>6. i = j
      BY <1>8, <3>4, <3>5
    <3> QED
      BY <3>1, <3>4, <3>6 DEF Is
  <2>6. StaysDown(rt, Kept, s)
    <3>1. CASE EndsDown(rt.queue, s)
      BY <3>1 DEF StaysDown
    <3>2. CASE ~EndsDown(rt.queue, s)
      <4>1. Without(rt.queue, s) /\ s \in Range(Kept) /\ ~EndsDown(q, s)
        BY <1>3, <1>9, <2>3, <3>2
      <4>2. s \notin r.orphans
        BY <1>11, <4>1 DEF StaysDown
      <4> QED
        BY <2>5, <3>2, <4>1, <4>2 DEF StaysDown
    <3> QED
      BY <3>1, <3>2
  <2>7. Committed(rt, todo, macroOn, s) \/ (s \in Keys /\ s \in rt.orphans)
    BY <1>2, <1>16, <2>6 DEF ReleaseComes
  <2> QED
    BY <1>11, <2>4, <2>5, <2>7
<1> QED
  BY <1>1, <1>12, <1>13, <1>14, <1>15, <1>16 DEF HeldInv

LEMMA ClearKeeps ==
    ASSUME HeldInv, rt' = Cleared(rt), UNCHANGED <<saved, todo>>,
           InTransaction' <=> InTransaction, pc' # "post" => todo = <<>>,
           enabled' \in BOOLEAN, macroOn' \in BOOLEAN, suspending' \in BOOLEAN,
           gate' \in BOOLEAN, ~enabled' => suspending' \/ ~gate'
    PROVE  HeldInv'
<1>1. rt \in Runtimes /\ saved \in Seq(Everything) /\ {} \in SUBSET Fingers
  BY DEF HeldInv, Types
<1>2. rt' \in Runtimes /\ Emptied(rt')
  BY <1>1, ClearedFacts
<1> QED
  BY <1>2, EmptiedKeeps

LEMMA WaitKeeps ==
    ASSUME HeldInv, UNCHANGED <<rt, saved, todo, macroOn>>,
           InTransaction' <=> InTransaction, pc' # "post" => todo = <<>>,
           enabled' \in BOOLEAN, suspending' \in BOOLEAN, gate' \in BOOLEAN,
           ~enabled' => suspending' \/ ~gate', ~gate' => ~gate,
           ~suspending' => ~suspending
    PROVE  HeldInv'
<1>1. Types /\ HeldApart
  BY DEF HeldInv
<1>2. rt' \in Runtimes /\ saved' \in Seq(Everything) /\ macroOn' \in BOOLEAN
  BY <1>1 DEF Types
<1>3. Kept' = Kept /\ (~InTransaction' => saved' = <<>>)
  BY <1>1 DEF Kept, HeldApart
<1> QED
  BY <1>2, <1>3, SameKeeps

\* A step of the automatic hit: what is held moves into the saved state and
\* back.
LEMMA HitKeeps ==
    ASSUME HeldInv, BeginTransaction \/ FinishCommit \/ EndTransaction
    PROVE  HeldInv'
<1>1. Types /\ HeldApart /\ Drained
  BY DEF HeldInv
<1>2. rt \in Runtimes /\ saved \in Seq(Everything) /\ rt.held \in Seq(Everything)
  BY <1>1 DEF Types, Runtimes
<1>3. /\ UNCHANGED <<enabled, macroOn, suspending, gate, todo>>
      /\ todo = <<>> /\ pc' # "post"
  BY <1>1 DEF BeginTransaction, FinishCommit, EndTransaction, control, HeldApart
<1>4. ASSUME NEW h \in Seq(Everything)
      PROVE  /\ [rt EXCEPT !.held = h] \in Runtimes
             /\ [rt EXCEPT !.held = h].held = h
             /\ [rt EXCEPT !.held = h].queue = rt.queue
             /\ [rt EXCEPT !.held = h].physical = rt.physical
             /\ [rt EXCEPT !.held = h].hold = rt.hold
             /\ [rt EXCEPT !.held = h].orphans = rt.orphans
  BY <1>2 DEF Runtimes
<1>5. /\ \E h \in Seq(Everything) : rt' = [rt EXCEPT !.held = h]
      /\ saved' \in Seq(Everything)
      /\ Kept' = Kept /\ (~InTransaction' => saved' = <<>>)
  <2>1. CASE BeginTransaction
    <3>1. /\ pc = "consume" /\ pc' = "nested" /\ saved' = rt.held
          /\ rt' = [rt EXCEPT !.held = <<Synthetic>>]
      BY <2>1 DEF BeginTransaction
    <3>2. <<Synthetic>> \in Seq(Everything)
      BY DEF Everything
    <3> QED
      BY <1>2, <3>1, <3>2 DEF Kept, InTransaction
  <2>2. CASE FinishCommit
    <3>1. /\ pc = "committing" /\ pc' = "nested" /\ saved' = saved
          /\ rt' = [rt EXCEPT !.held = <<>>]
      BY <2>2 DEF FinishCommit
    <3>2. <<>> \in Seq(Everything)
      BY NothingIn
    <3> QED
      BY <1>2, <3>1, <3>2 DEF Kept, InTransaction
  <2>3. CASE EndTransaction
    <3>1. /\ pc = "nested" /\ pc' = "hitReturns" /\ saved' = <<>>
          /\ rt' = [rt EXCEPT !.held = saved]
      BY <2>3 DEF EndTransaction
    <3>2. <<>> \in Seq(Everything)
      BY NothingIn
    <3>3. rt'.held = saved
      BY <1>2, <1>4, <3>1
    <3> QED
      BY <1>2, <3>1, <3>2, <3>3 DEF Kept, InTransaction
  <2> QED
    BY <2>1, <2>2, <2>3
<1>6. /\ rt' \in Runtimes /\ rt'.queue = rt.queue /\ rt'.physical = rt.physical
      /\ rt'.hold = rt.hold /\ rt'.orphans = rt.orphans
  BY <1>4, <1>5
<1>7. /\ enabled' \in BOOLEAN /\ macroOn' \in BOOLEAN /\ suspending' \in BOOLEAN
      /\ gate' \in BOOLEAN /\ (~enabled' => suspending' \/ ~gate')
  BY <1>1, <1>3 DEF Types, Drained
<1> QED
  BY <1>3, <1>5, <1>6, <1>7, SameKeeps

LEMMA HeldInitially == Init => HeldInv
<1> SUFFICES ASSUME Init PROVE HeldInv
  OBVIOUS
<1>1. /\ enabled \in BOOLEAN /\ macroOn \in BOOLEAN /\ suspending = FALSE /\ gate = FALSE
      /\ rt = [queue |-> <<>>, physical |-> {}, held |-> <<>>,
               hold |-> NoHold, orphans |-> {}]
      /\ pc = "idle" /\ todo = <<>> /\ saved = <<>>
  BY DEF Init
<1>2. <<>> \in Seq(Edges) /\ <<>> \in Seq(Everything) /\ <<>> \in Seq(Orders)
      /\ Range(<<>>) = {} /\ Len(<<>>) = 0
  BY NothingIn
<1>3. rt.queue = <<>> /\ rt.held = <<>> /\ rt.orphans = {}
  BY <1>1
<1>4. Types
  <2>1. NoHold \in Holds
    BY DEF Holds
  <2> DEFINE q == <<>>
  <2>2. q \in Seq(Edges) /\ q \in Seq(Everything)
    BY <1>2
  <2>3. rt = [queue |-> q, physical |-> {}, held |-> q, hold |-> NoHold, orphans |-> {}]
    BY <1>1
  <2> HIDE DEF q
  <2>4. rt \in Runtimes
    BY <2>1, <2>2, <2>3 DEF Runtimes
  <2> QED
    BY <1>1, <1>2, <2>4 DEF Types
<1>5. Kept = <<>>
  BY <1>1, <1>3 DEF Kept, InTransaction
<1>6. HeldApart /\ Drained
  <2>1. NoneTwice(<<>>)
    BY <1>2 DEF NoneTwice
  <2> QED
    BY <1>1, <1>2, <1>3, <1>5, <2>1 DEF HeldApart, Drained
<1>7. ReleaseComes(rt, Kept, todo, macroOn) /\ PressedOnce(rt.queue)
  BY <1>2, <1>3, <1>5, EmptyReleases
<1>8. PlanSound(rt, todo)
  BY <1>1, <1>2 DEF PlanSound
<1> QED
  BY <1>4, <1>6, <1>7, <1>8 DEF HeldInv

LEMMA HeldKept == HeldInv /\ [Next]_vars => HeldInv'
<1> SUFFICES ASSUME HeldInv, [Next]_vars PROVE HeldInv'
  OBVIOUS
<1> DEFINE Others ==
             /\ enabled' \in BOOLEAN /\ suspending' \in BOOLEAN /\ gate' \in BOOLEAN
             /\ ~enabled' => suspending' \/ ~gate'
<1>1. /\ enabled \in BOOLEAN /\ macroOn \in BOOLEAN /\ suspending \in BOOLEAN
      /\ gate \in BOOLEAN /\ (~enabled => suspending \/ ~gate)
      /\ pc # "post" => todo = <<>>
  BY DEF HeldInv, Types, HeldApart, Drained
<1>2. CASE Edge
  BY <1>2, EdgeKeeps
<1>3. CASE SwitchMacro
  BY <1>3, SwitchMacroKeeps
<1>4. CASE PlanMacro
  BY <1>4, PlanMacroKeeps
<1>5. CASE PostEdge
  BY <1>5, PostEdgeKeeps
<1>6. CASE SetHold
  BY <1>6, SetHoldKeeps
<1>7. CASE PopBurst
  BY <1>7, PopBurstKeeps
<1>8. CASE BeginTransaction \/ FinishCommit \/ EndTransaction
  BY <1>8, HitKeeps
<1>9. CASE Clear
  <2>1. rt' = Cleared(rt) /\ UNCHANGED <<saved, todo, macroOn>> /\ Others
    <3>1. /\ rt' = Cleared(rt) /\ UNCHANGED <<saved, todo, macroOn, enabled, suspending>>
          /\ gate' = gate \/ gate' = FALSE
      BY <1>9 DEF Clear, control, frame, autoHit
    <3>2. gate' \in BOOLEAN
      BY <1>1, <3>1, Zenon
    <3>3. ~enabled' => suspending' \/ ~gate'
      BY <1>1, <3>1, Zenon
    <3> QED
      BY <1>1, <3>1, <3>2, <3>3
  <2>2. (InTransaction' <=> InTransaction) /\ (pc' # "post" => todo = <<>>)
    BY <1>1, <1>9 DEF Clear, frame, InTransaction
  <2> QED
    BY <1>1, <2>1, <2>2, ClearKeeps
<1>10. CASE FinishSuspend
  <2>1. rt' = Cleared(rt) /\ UNCHANGED <<saved, todo, macroOn>> /\ Others
    BY <1>1, <1>10 DEF FinishSuspend, control, frame, autoHit
  <2>2. (InTransaction' <=> InTransaction) /\ (pc' # "post" => todo = <<>>)
    BY <1>1, <1>10 DEF FinishSuspend, frame, InTransaction
  <2> QED
    BY <1>1, <2>1, <2>2, ClearKeeps
<1>11. CASE Suspend
  <2>1. /\ UNCHANGED <<rt, saved, todo, macroOn>>
        /\ Others /\ (~gate' => ~gate) /\ (~suspending' => ~suspending)
    BY <1>1, <1>11 DEF Suspend, control, frame, autoHit
  <2>2. (InTransaction' <=> InTransaction) /\ (pc' # "post" => todo = <<>>)
    BY <1>1, <1>11 DEF Suspend, control, frame, autoHit, InTransaction
  <2> QED
    BY <2>1, <2>2, WaitKeeps
<1>12. CASE Resume
  <2>1. /\ UNCHANGED <<rt, saved, todo, macroOn>>
        /\ Others /\ (~gate' => ~gate) /\ (~suspending' => ~suspending)
    BY <1>1, <1>12 DEF Resume, control, frame, autoHit
  <2>2. (InTransaction' <=> InTransaction) /\ (pc' # "post" => todo = <<>>)
    BY <1>1, <1>12 DEF Resume, control, frame, autoHit, InTransaction
  <2> QED
    BY <2>1, <2>2, WaitKeeps
<1>13. CASE SwitchAuto
  <2>1. /\ UNCHANGED <<rt, saved, todo, macroOn>>
        /\ Others /\ (~gate' => ~gate) /\ (~suspending' => ~suspending)
    BY <1>1, <1>13 DEF SwitchAuto, control, frame, autoHit
  <2>2. (InTransaction' <=> InTransaction) /\ (pc' # "post" => todo = <<>>)
    BY <1>1, <1>13 DEF SwitchAuto, control, frame, autoHit, InTransaction
  <2> QED
    BY <2>1, <2>2, WaitKeeps
<1>14. CASE StateChanges
  <2>1. /\ UNCHANGED <<rt, saved, todo, macroOn>>
        /\ Others /\ (~gate' => ~gate) /\ (~suspending' => ~suspending)
    BY <1>1, <1>14 DEF StateChanges, control, frame, autoHit
  <2>2. (InTransaction' <=> InTransaction) /\ (pc' # "post" => todo = <<>>)
    BY <1>1, <1>14 DEF StateChanges, control, frame, autoHit, InTransaction
  <2> QED
    BY <2>1, <2>2, WaitKeeps
<1>15. CASE NothingToPost
  <2>1. /\ UNCHANGED <<rt, saved, todo, macroOn>>
        /\ Others /\ (~gate' => ~gate) /\ (~suspending' => ~suspending)
    BY <1>1, <1>15 DEF NothingToPost, control, frame, autoHit
  <2>2. (InTransaction' <=> InTransaction) /\ (pc' # "post" => todo = <<>>)
    BY <1>1, <1>15 DEF NothingToPost, control, frame, autoHit, InTransaction
  <2> QED
    BY <2>1, <2>2, WaitKeeps
<1>16. CASE NothingDue
  <2>1. /\ UNCHANGED <<rt, saved, todo, macroOn>>
        /\ Others /\ (~gate' => ~gate) /\ (~suspending' => ~suspending)
    BY <1>1, <1>16 DEF NothingDue, control, frame, autoHit
  <2>2. (InTransaction' <=> InTransaction) /\ (pc' # "post" => todo = <<>>)
    BY <1>1, <1>16 DEF NothingDue, control, frame, autoHit, InTransaction
  <2> QED
    BY <2>1, <2>2, WaitKeeps
<1>17. CASE GameReturns
  <2>1. /\ UNCHANGED <<rt, saved, todo, macroOn>>
        /\ Others /\ (~gate' => ~gate) /\ (~suspending' => ~suspending)
    BY <1>1, <1>17 DEF GameReturns, control, frame, autoHit
  <2>2. (InTransaction' <=> InTransaction) /\ (pc' # "post" => todo = <<>>)
    BY <1>1, <1>17 DEF GameReturns, control, frame, autoHit, InTransaction
  <2> QED
    BY <2>1, <2>2, WaitKeeps
<1>18. CASE HitAuto
  <2>1. /\ UNCHANGED <<rt, saved, todo, macroOn>>
        /\ Others /\ (~gate' => ~gate) /\ (~suspending' => ~suspending)
    BY <1>1, <1>18 DEF HitAuto, control, frame, autoHit
  <2>2. (InTransaction' <=> InTransaction) /\ (pc' # "post" => todo = <<>>)
    BY <1>1, <1>18 DEF HitAuto, control, frame, autoHit, InTransaction
  <2> QED
    BY <2>1, <2>2, WaitKeeps
<1>19. CASE FlagUnavailable
  <2>1. /\ UNCHANGED <<rt, saved, todo, macroOn>>
        /\ Others /\ (~gate' => ~gate) /\ (~suspending' => ~suspending)
    BY <1>1, <1>19 DEF FlagUnavailable, control, frame, autoHit
  <2>2. (InTransaction' <=> InTransaction) /\ (pc' # "post" => todo = <<>>)
    BY <1>1, <1>19 DEF FlagUnavailable, control, frame, autoHit, InTransaction
  <2> QED
    BY <2>1, <2>2, WaitKeeps
<1>20. CASE NestedHit
  <2>1. /\ UNCHANGED <<rt, saved, todo, macroOn>>
        /\ Others /\ (~gate' => ~gate) /\ (~suspending' => ~suspending)
    BY <1>1, <1>20 DEF NestedHit, control, frame, autoHit
  <2>2. (InTransaction' <=> InTransaction) /\ (pc' # "post" => todo = <<>>)
    BY <1>1, <1>20 DEF NestedHit, control, frame, autoHit, InTransaction
  <2> QED
    BY <2>1, <2>2, WaitKeeps
<1>21. CASE HitReturns
  <2>1. /\ UNCHANGED <<rt, saved, todo, macroOn>>
        /\ Others /\ (~gate' => ~gate) /\ (~suspending' => ~suspending)
    BY <1>1, <1>21 DEF HitReturns, control, frame, autoHit
  <2>2. (InTransaction' <=> InTransaction) /\ (pc' # "post" => todo = <<>>)
    BY <1>1, <1>21 DEF HitReturns, control, frame, autoHit, InTransaction
  <2> QED
    BY <2>1, <2>2, WaitKeeps
<1>22. CASE IdleFrame
  <2>1. /\ UNCHANGED <<saved, todo, macroOn>> /\ Others
        /\ rt' = Cleared(rt) \/ (rt' = rt /\ (~gate' => ~gate))
        /\ ~suspending' => ~suspending
    BY <1>1, <1>22 DEF IdleFrame, control, frame, autoHit
  <2>2. (InTransaction' <=> InTransaction) /\ (pc' # "post" => todo = <<>>)
    BY <1>1, <1>22 DEF IdleFrame, frame, InTransaction
  <2>3. CASE rt' = Cleared(rt)
    BY <1>1, <2>1, <2>2, <2>3, ClearKeeps
  <2>4. CASE rt' = rt /\ (~gate' => ~gate)
    BY <2>1, <2>2, <2>4, WaitKeeps
  <2> QED
    BY <2>1, <2>3, <2>4
<1>23. CASE BeginReplay
  <2>1. /\ UNCHANGED <<saved, todo, macroOn>> /\ Others
        /\ rt' = Cleared(rt) \/ (rt' = rt /\ (~gate' => ~gate))
        /\ ~suspending' => ~suspending
    BY <1>1, <1>23 DEF BeginReplay, control, frame, autoHit
  <2>2. (InTransaction' <=> InTransaction) /\ (pc' # "post" => todo = <<>>)
    BY <1>1, <1>23 DEF BeginReplay, frame, InTransaction
  <2>3. CASE rt' = Cleared(rt)
    BY <1>1, <2>1, <2>2, <2>3, ClearKeeps
  <2>4. CASE rt' = rt /\ (~gate' => ~gate)
    BY <2>1, <2>2, <2>4, WaitKeeps
  <2> QED
    BY <2>1, <2>3, <2>4
<1>24. CASE ShowBurst
  <2>1. /\ UNCHANGED <<saved, todo, macroOn>> /\ Others
        /\ rt' = Cleared(rt) \/ (rt' = rt /\ (~gate' => ~gate))
        /\ ~suspending' => ~suspending
    BY <1>1, <1>24 DEF ShowBurst, control, frame, autoHit
  <2>2. (InTransaction' <=> InTransaction) /\ (pc' # "post" => todo = <<>>)
    BY <1>1, <1>24 DEF ShowBurst, frame, InTransaction
  <2>3. CASE rt' = Cleared(rt)
    BY <1>1, <2>1, <2>2, <2>3, ClearKeeps
  <2>4. CASE rt' = rt /\ (~gate' => ~gate)
    BY <2>1, <2>2, <2>4, WaitKeeps
  <2> QED
    BY <2>1, <2>3, <2>4
<1>25. CASE UNCHANGED vars
  <2>1. /\ UNCHANGED <<rt, saved, todo, macroOn>>
        /\ Others /\ (~gate' => ~gate) /\ (~suspending' => ~suspending)
    BY <1>1, <1>25 DEF vars
  <2>2. (InTransaction' <=> InTransaction) /\ (pc' # "post" => todo = <<>>)
    BY <1>1, <1>25 DEF vars, InTransaction
  <2> QED
    BY <2>1, <2>2, WaitKeeps
<1> QED
  BY <1>2, <1>3, <1>4, <1>5, <1>6, <1>7, <1>8, <1>9, <1>10, <1>11, <1>12, <1>13,
     <1>14, <1>15, <1>16, <1>17, <1>18, <1>19, <1>20, <1>21, <1>22, <1>23, <1>24,
     <1>25 DEF Next

\* The last edge of a source in the queue.
LEMMA LastEdge ==
    ASSUME NEW q \in Seq(Edges), NEW s, ~Without(q, s)
    PROVE  \E i \in 1..Len(q) : /\ q[i].source = s
                                /\ \A j \in 1..Len(q) : i < j => q[j].source # s
<1>1. Len(q) \in Nat
  OBVIOUS
<1> DEFINE T == {k \in Nat : \E i \in 1..Len(q) : q[i].source = s /\ k = Len(q) - i}
<1>2. PICK i \in 1..Len(q) : q[i].source = s
  BY DEF Without
<1>3. Len(q) - i \in T
  BY <1>1, <1>2
<1>4. PICK k \in T : \A m \in T : k <= m
  <2> HIDE DEF T
  <2>1. T \in SUBSET Nat
    BY DEF T
  <2> QED
    BY <1>3, <2>1, LeastElement
<1>5. PICK l \in 1..Len(q) : q[l].source = s /\ k = Len(q) - l
  OBVIOUS
<1>6. ASSUME NEW j \in 1..Len(q), l < j, q[j].source = s PROVE FALSE
  <2>1. Len(q) - j \in T
    BY <1>1, <1>6
  <2>2. k <= Len(q) - j
    BY <1>4, <2>1
  <2> QED
    BY <1>1, <1>5, <1>6, <2>2
<1> QED
  BY <1>5, <1>6

\* No key is stuck: what the game holds is still down, has its UP queued, or
\* will be let go by the macro, over every clear, overflow, refused edge and
\* automatic hit, for any fingers, keys, slots and sizes of the queue.
THEOREM HeldWillBeReleased == Spec => []HeldHasRelease
<1>1. HeldInv => HeldHasRelease
  <2> SUFFICES ASSUME HeldInv, ~InTransaction, ~suspending,
                      NEW s \in Range(rt.held) \ rt.orphans, ~QueuedUp(s)
               PROVE  \/ s \in rt.physical
                      \/ macroOn /\ rt.hold.active /\ rt.hold.source = s
                      \/ ToBePosted(s)
    BY DEF HeldHasRelease
  <2>1. /\ Types /\ HeldApart /\ ReleaseComes(rt, Kept, todo, macroOn)
    BY DEF HeldInv
  <2>2. Kept = rt.held /\ s \in Sources /\ rt.queue \in Seq(Edges) /\ Len(todo) \in Nat
        /\ DOMAIN todo = 1..Len(todo)
    BY <2>1 DEF Kept, HeldApart, Types, Runtimes
  <2>3. ASSUME NEW i \in 1..Len(rt.queue), rt.queue[i].source = s
        PROVE  rt.queue[i].type = "DOWN"
    <3>1. rt.queue[i] \in Edges
      BY <2>2
    <3>2. rt.queue[i] = [type |-> rt.queue[i].type, source |-> s]
      BY <2>3, <3>1 DEF Edges
    <3>3. i \in DOMAIN rt.queue
      BY <2>2
    <3> QED
      BY <3>1, <3>2, <3>3 DEF Edges, QueuedUp
  <2>4. StaysDown(rt, Kept, s)
    <3>1. CASE Without(rt.queue, s)
      BY <2>2, <3>1 DEF StaysDown
    <3>2. CASE ~Without(rt.queue, s)
      BY <2>2, <2>3, <3>2, LastEdge DEF StaysDown, EndsDown, Is
    <3> QED
      BY <3>1, <3>2
  <2>5. Committed(rt, todo, macroOn, s)
    BY <2>1, <2>2, <2>4 DEF ReleaseComes
  <2>6. ASSUME PlanLetsGo(todo, s) PROVE ToBePosted(s)
    <3>1. PICK i \in 1..Len(todo) : LetsGo(todo[i], s)
      BY <2>6 DEF PlanLetsGo
    <3>2. todo # <<>>
      BY <3>1, NothingIn
    <3> QED
      BY <2>1, <2>2, <3>1, <3>2 DEF HeldApart, ToBePosted, LetsGo, Is
  <2> QED
    BY <2>5, <2>6 DEF Committed, HoldEnds
<1> QED
  BY <1>1, HeldInitially, HeldKept, PTL DEF Spec
=============================================================================
