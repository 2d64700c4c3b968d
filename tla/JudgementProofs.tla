--------------------------- MODULE JudgementProofs --------------------------
(***************************************************************************)
(* Theorems about the judgement.  Of the margins, for every setting: the   *)
(* three boundaries are nested, so that the order of the tests in          *)
(* get_hit_margin does not matter, a turning planet meets the seven        *)
(* margins in their order, and easier settings keep every hit.  Of the     *)
(* replica, for every chart and setting: what a step may cost the player,  *)
(* how deep deaths and recovery hits call each other, that a bar that is   *)
(* over kills, that no one is left behind unaided, and that a pause lets   *)
(* go of the input in time.                                                *)
(***************************************************************************)
EXTENDS Judgement, TurningPlanet, QueueLemmas

-----------------------------------------------------------------------------
(* The margins.                                                            *)

\* Larger returns one of its arguments and is not smaller than either.
LEMMA LargerFacts ==
    ASSUME NEW a \in Int, NEW b \in Int
    PROVE  /\ Larger(a, b) \in {a, b}
           /\ Larger(a, b) >= a
           /\ Larger(a, b) >= b
  BY DEF Larger

\* A product with a natural number keeps the order.
LEMMA ProductOrder ==
    ASSUME NEW a \in Int, NEW b \in Int, NEW n \in Nat, a <= b
    PROVE  /\ a * n \in Int
           /\ b * n \in Int
           /\ a * n <= b * n
  OBVIOUS

\* The time widths are ordered, floored at 25 ms or not.
LEMMA TimesOrdered ==
    ASSUME NEW s \in Settings
    PROVE  /\ CountedTime(s) \in Nat
           /\ PerfectTime(s) \in Nat
           /\ PureTime(s) \in Nat
           /\ PureTime(s) <= PerfectTime(s)
           /\ PerfectTime(s) <= CountedTime(s)
<1>1. /\ s.trial \in Nat \ {0}
      /\ s.mobile \in BOOLEAN
      /\ s.difficulty \in Difficulties
  BY DEF Settings
<1>2. CASE s.mobile
  BY <1>1, <1>2 DEF CountedTime, PerfectTime, PureTime
<1>3. CASE ~s.mobile
  <2> DEFINE ms == CASE s.difficulty = "LENIENT" -> 91
                     [] s.difficulty = "STRICT"  -> 40
                     [] OTHER                    -> 65
  <2>1. ms \in {91, 40, 65}
    BY <1>1 DEF Difficulties
  <2>2. CountedTime(s) = Larger(100 * ms, 25 * s.trial)
    BY <1>3 DEF CountedTime
  <2> HIDE DEF ms
  <2>3. 100 * ms \in Nat /\ 100 * ms >= 4000 /\ 25 * s.trial \in Nat
    BY <1>1, <2>1
  <2> QED
    BY <1>3, <2>2, <2>3 DEF PerfectTime, PureTime, Larger
<1> QED
  BY <1>1, <1>2, <1>3

\* A boundary with a larger angle and a longer time is not smaller.
LEMMA BoundaryOrder ==
    ASSUME NEW s \in Settings,
           NEW a \in Nat, NEW b \in Nat, a <= b,
           NEW t \in Nat, NEW u \in Nat, t <= u
    PROVE  /\ Boundary(a, t, s) \in Nat
           /\ Boundary(b, u, s) \in Nat
           /\ Boundary(a, t, s) <= Boundary(b, u, s)
<1>1. /\ s.trial \in Nat
      /\ s.scale \in Nat
      /\ s.pitch \in Nat
      /\ s.bpm \in Int
  BY DEF Settings
<1>2. /\ a * s.scale \in Nat
      /\ b * s.scale \in Nat
      /\ a * s.scale <= b * s.scale
  BY <1>1, ProductOrder
<1>3. /\ a * s.scale * 1000 \in Nat
      /\ b * s.scale * 1000 \in Nat
      /\ a * s.scale * 1000 <= b * s.scale * 1000
  BY <1>2
<1>4. /\ a * s.scale * 1000 * s.trial \in Nat
      /\ b * s.scale * 1000 * s.trial \in Nat
      /\ a * s.scale * 1000 * s.trial <= b * s.scale * 1000 * s.trial
  BY <1>1, <1>3, ProductOrder
<1>5. /\ 3 * t \in Nat
      /\ 3 * u \in Nat
      /\ 3 * t <= 3 * u
  OBVIOUS
<1>6. /\ 3 * t * s.pitch \in Nat
      /\ 3 * u * s.pitch \in Nat
      /\ 3 * t * s.pitch <= 3 * u * s.pitch
  BY <1>1, <1>5, ProductOrder
<1>7. CASE s.bpm <= 0
  <2>1. /\ Boundary(a, t, s) = Larger(a * s.scale * 1000 * s.trial, 0)
        /\ Boundary(b, u, s) = Larger(b * s.scale * 1000 * s.trial, 0)
    BY <1>7 DEF Boundary
  <2> QED
    BY <1>4, <2>1 DEF Larger
<1>8. CASE s.bpm > 0
  <2>1. s.bpm \in Nat /\ ~(s.bpm <= 0)
    BY <1>1, <1>8
  <2>2. /\ 3 * t * s.pitch * s.bpm \in Nat
        /\ 3 * u * s.pitch * s.bpm \in Nat
        /\ 3 * t * s.pitch * s.bpm <= 3 * u * s.pitch * s.bpm
    BY <1>6, <2>1, ProductOrder
  <2>3. /\ Boundary(a, t, s) = Larger(a * s.scale * 1000 * s.trial, 3 * t * s.pitch * s.bpm)
        /\ Boundary(b, u, s) = Larger(b * s.scale * 1000 * s.trial, 3 * u * s.pitch * s.bpm)
    BY <2>1 DEF Boundary
  <2> QED
    BY <1>4, <2>2, <2>3 DEF Larger
<1> QED
  BY <1>1, <1>7, <1>8

\* pure <= perfect <= counted, under every setting: no margin is shadowed by
\* a later test of get_hit_margin.
THEOREM BoundariesNested ==
    ASSUME NEW s \in Settings, s.countedAngle >= 45
    PROVE  /\ Pure(s) \in Nat
           /\ Perfect(s) \in Nat
           /\ Counted(s) \in Nat
           /\ Pure(s) <= Perfect(s)
           /\ Perfect(s) <= Counted(s)
<1>1. s.countedAngle \in Nat
  BY DEF Settings
<1>2. /\ CountedTime(s) \in Nat
      /\ PerfectTime(s) \in Nat
      /\ PureTime(s) \in Nat
      /\ PureTime(s) <= PerfectTime(s)
      /\ PerfectTime(s) <= CountedTime(s)
  BY TimesOrdered
<1>3. /\ Boundary(30, PureTime(s), s) \in Nat
      /\ Boundary(45, PerfectTime(s), s) \in Nat
      /\ Boundary(30, PureTime(s), s) <= Boundary(45, PerfectTime(s), s)
  <2>1. 30 \in Nat /\ 45 \in Nat /\ 30 <= 45
    OBVIOUS
  <2> QED
    BY <1>2, <2>1, BoundaryOrder, Zenon
<1>4. /\ Boundary(s.countedAngle, CountedTime(s), s) \in Nat
      /\ Boundary(45, PerfectTime(s), s) <= Boundary(s.countedAngle, CountedTime(s), s)
  <2>1. 45 \in Nat /\ 45 <= s.countedAngle
    BY <1>1
  <2> QED
    BY <1>1, <1>2, <2>1, BoundaryOrder, Zenon
<1> QED
  BY <1>3, <1>4 DEF Pure, Perfect, Counted

-----------------------------------------------------------------------------
\* The place of each margin in the order.
LEMMA RankTable ==
    /\ Rank("TOO_EARLY") = 1
    /\ Rank("VERY_EARLY") = 2
    /\ Rank("EARLY_PERFECT") = 3
    /\ Rank("PERFECT") = 4
    /\ Rank("LATE_PERFECT") = 5
    /\ Rank("VERY_LATE") = 6
    /\ Rank("TOO_LATE") = 7
  BY DEF Rank, MarginRank

\* A larger angle is never judged earlier, as long as the boundaries are nested.
LEMMA LaterAngleLaterMargin ==
    ASSUME NEW d \in Int, NEW e \in Int, d <= e,
           NEW counted \in Nat, NEW perfect \in Nat, NEW pure \in Nat,
           pure <= perfect, perfect <= counted
    PROVE  Rank(HitMargin(d, counted, perfect, pure))
               <= Rank(HitMargin(e, counted, perfect, pure))
  BY RankTable DEF HitMargin

\* Off the boundaries, the opposite angle has the opposite margin.
LEMMA OppositeAngle ==
    ASSUME NEW d \in Int,
           NEW counted \in Nat, NEW perfect \in Nat, NEW pure \in Nat,
           pure <= perfect, perfect <= counted,
           d # counted, d # perfect, d # pure,
           d # -counted, d # -perfect, d # -pure
    PROVE  Rank(HitMargin(-d, counted, perfect, pure))
               = 8 - Rank(HitMargin(d, counted, perfect, pure))
  BY RankTable DEF HitMargin

-----------------------------------------------------------------------------
\* The state of the planet has its type.
PlanetTypes ==
    /\ settings \in Settings
    /\ settings.countedAngle >= 45
    /\ angle \in Int

LEMMA PlanetTyping ==
    PlanetSpec => []PlanetTypes
<1>1. PlanetInit => PlanetTypes
  BY TurningAssumption DEF PlanetInit, PlanetTypes
<1>2. PlanetTypes /\ [Rotate]_planet => PlanetTypes'
  BY TurningAssumption DEF PlanetTypes, Rotate, planet
<1> QED
  BY <1>1, <1>2, PTL DEF PlanetSpec

\* Whatever the settings, a planet that turns on is judged later or the same.
THEOREM PlanetNeverGoesBack ==
    PlanetSpec => MarginNeverGoesBack
<1>1. PlanetTypes /\ [Rotate]_planet
        => [Rank(Press(angle', settings')) >= Rank(Press(angle, settings))]_planet
  <2> SUFFICES ASSUME PlanetTypes, Rotate
               PROVE  Rank(Press(angle', settings')) >= Rank(Press(angle, settings))
    BY DEF planet
  <2>1. /\ settings' = settings
        /\ settings \in Settings
        /\ settings.trial \in Nat
        /\ angle \in Int
        /\ angle' \in Int
        /\ angle <= angle'
    BY TurningAssumption DEF PlanetTypes, Rotate, Settings
  <2>2. /\ angle * settings.trial \in Int
        /\ angle' * settings.trial \in Int
        /\ angle * settings.trial <= angle' * settings.trial
    BY <2>1, ProductOrder
  <2>3. /\ Pure(settings) \in Nat
        /\ Perfect(settings) \in Nat
        /\ Counted(settings) \in Nat
        /\ Pure(settings) <= Perfect(settings)
        /\ Perfect(settings) <= Counted(settings)
    BY BoundariesNested DEF PlanetTypes
  <2> DEFINE before == Rank(Judge(angle * settings.trial, settings))
             after  == Rank(Judge(angle' * settings.trial, settings))
  <2>4. before <= after
    BY <2>2, <2>3, LaterAngleLaterMargin DEF Judge
  <2>5. before \in 1..7 /\ after \in 1..7
    BY <2>2, <2>3, RankTable DEF Judge, HitMargin
  <2> QED
    BY <2>1, <2>4, <2>5 DEF Press
<1> QED
  BY <1>1, PlanetTyping, PTL DEF PlanetSpec, MarginNeverGoesBack

\* Early and late presses are judged alike, whatever the settings.
THEOREM EarlyAndLateAlike ==
    PlanetSpec => []MirrorImage
<1>1. PlanetTypes => MirrorImage
  <2> SUFFICES ASSUME PlanetTypes,
                      \A b \in {Counted(settings), Perfect(settings), Pure(settings)} :
                          angle * settings.trial \notin {b, -b}
               PROVE  Rank(Press(-angle, settings)) = 8 - Rank(Press(angle, settings))
    BY DEF MirrorImage
  <2>1. /\ settings.trial \in Nat
        /\ angle \in Int
    BY DEF PlanetTypes, Settings
  <2>2. /\ angle * settings.trial \in Int
        /\ (-angle) * settings.trial = -(angle * settings.trial)
    BY <2>1
  <2>3. /\ Pure(settings) \in Nat
        /\ Perfect(settings) \in Nat
        /\ Counted(settings) \in Nat
        /\ Pure(settings) <= Perfect(settings)
        /\ Perfect(settings) <= Counted(settings)
    BY BoundariesNested DEF PlanetTypes
  <2> QED
    BY <2>2, <2>3, OppositeAngle DEF Press, Judge
<1> QED
  BY <1>1, PlanetTyping, PTL

-----------------------------------------------------------------------------
(* Two settings with different trials are compared by the angles their      *)
(* boundaries stand for: b/m against c/k, for b in units of m.              *)

LEMMA Scaled ==
    ASSUME NEW a \in Int, NEW b \in Nat, NEW c \in Nat,
           NEW k \in Nat \ {0}, NEW m \in Nat \ {0}, b * k <= c * m
    PROVE  /\ a * m <= b => a * k <= c
           /\ a * m > -b => a * k > -c
<1> DEFINE p == a * m
           q == a * k
           x == b * k
           y == c * m
<1>1. p \in Int /\ q \in Int /\ x \in Int /\ y \in Int /\ x <= y
  OBVIOUS
<1>2. p * k = q * m
  OBVIOUS
<1> HIDE DEF p, q
<1>3. ASSUME p <= b PROVE q <= c
  <2>1. p * k <= b * k
    BY <1>1, <1>3, ProductOrder
  <2>2. q * m <= c * m
    BY <1>1, <1>2, <2>1
  <2>3. ASSUME c + 1 <= q PROVE FALSE
    <3>1. (c + 1) * m <= q * m
      BY <1>1, <2>3, ProductOrder
    <3>2. (c + 1) * m = c * m + m
      OBVIOUS
    <3> QED
      BY <1>1, <2>2, <3>1, <3>2
  <2> QED
    BY <1>1, <2>3
<1>4. ASSUME p > -b PROVE q > -c
  <2>1. (-b + 1) * k <= p * k
    BY <1>1, <1>4, ProductOrder
  <2>2. (-b + 1) * k = -(b * k) + k
    OBVIOUS
  <2>3. -(c * m) < q * m
    BY <1>1, <1>2, <2>1, <2>2
  <2>4. ASSUME q <= -c PROVE FALSE
    <3>1. q * m <= (-c) * m
      BY <1>1, <2>4, ProductOrder
    <3>2. (-c) * m = -(c * m)
      OBVIOUS
    <3> QED
      BY <1>1, <2>3, <3>1, <3>2
  <2> QED
    BY <1>1, <2>4
<1> QED
  BY <1>3, <1>4 DEF p, q

\* The same chart at another trial: a time that is longer for its trial gives
\* a boundary that is wider for its trial.
LEMMA BoundaryScaled ==
    ASSUME NEW s \in Settings, NEW t \in Settings, NEW a \in Nat,
           s.scale = t.scale, s.pitch = t.pitch, s.bpm = t.bpm,
           NEW u \in Nat, NEW v \in Nat, v * s.trial <= u * t.trial
    PROVE  Boundary(a, v, t) * s.trial <= Boundary(a, u, s) * t.trial
<1> DEFINE k == s.trial
           m == t.trial
           n == s.pitch
           r == s.bpm
<1>1. k \in Nat \ {0} /\ m \in Nat \ {0} /\ s.scale \in Nat /\ n \in Nat /\ r \in Int
  BY DEF Settings
<1> DEFINE w == a * s.scale * 1000
<1>2. w \in Nat
  <2>1. a * s.scale \in Nat
    BY <1>1
  <2> QED
    BY <2>1
<1>3. /\ Boundary(a, v, t) = Larger(w * m, IF r <= 0 THEN 0 ELSE 3 * v * n * r)
      /\ Boundary(a, u, s) = Larger(w * k, IF r <= 0 THEN 0 ELSE 3 * u * n * r)
  BY DEF Boundary
<1>4. v * k <= u * m
  OBVIOUS
<1> HIDE DEF w, k, m, n, r
<1>5. w * m \in Nat /\ w * k \in Nat /\ (w * m) * k = (w * k) * m
  BY <1>1, <1>2
<1>6. CASE r <= 0
  <2>1. Boundary(a, v, t) = w * m /\ Boundary(a, u, s) = w * k
    BY <1>3, <1>5, <1>6 DEF Larger
  <2>2. (w * m) * k <= (w * k) * m
    BY <1>1, <1>5
  <2> QED
    BY <2>1, <2>2 DEF k, m
<1>7. CASE r > 0
  <2> DEFINE c == 3 * n * r
             x == 3 * v * n * r
             y == 3 * u * n * r
  <2>1. c \in Nat /\ x \in Nat /\ y \in Nat
    <3>1. r \in Nat /\ 3 * n \in Nat /\ 3 * v \in Nat /\ 3 * u \in Nat
      BY <1>1, <1>7
    <3>2. 3 * v * n \in Nat /\ 3 * u * n \in Nat
      BY <1>1, <3>1
    <3> QED
      BY <3>1, <3>2
  <2>2. x * k = (v * k) * c /\ y * m = (u * m) * c
    BY <1>1
  <2>3. (v * k) * c <= (u * m) * c
    <3>1. v * k \in Int /\ u * m \in Int
      BY <1>1
    <3> HIDE DEF c
    <3> QED
      BY <1>4, <2>1, <3>1, ProductOrder
  <2> HIDE DEF c, x, y
  <2>4. x * k <= y * m
    BY <2>2, <2>3
  <2>5. Boundary(a, v, t) = Larger(w * m, x) /\ Boundary(a, u, s) = Larger(w * k, y)
    BY <1>1, <1>3, <1>7 DEF x, y
  <2> DEFINE z == Larger(w * k, y)
  <2>6. z \in Nat /\ w * k <= z /\ y <= z
    BY <1>5, <2>1 DEF Larger
  <2> HIDE DEF z
  <2>7. (w * k) * m <= z * m /\ y * m <= z * m
    <3>1. z \in Int /\ y \in Int /\ w * k \in Int /\ m \in Nat
      BY <1>1, <1>5, <2>1, <2>6
    <3> QED
      BY <2>6, <3>1, ProductOrder
  <2>8. (w * m) * k <= z * m /\ x * k <= z * m
    <3>1. z * m \in Int /\ x * k \in Int /\ y * m \in Int
      BY <1>1, <2>1, <2>6
    <3> QED
      BY <1>5, <2>4, <2>7, <3>1
  <2>9. Boundary(a, v, t) \in {w * m, x}
    BY <1>5, <2>1, <2>5 DEF Larger
  <2> QED
    BY <2>5, <2>8, <2>9 DEF z, k, m
<1> QED
  BY <1>1, <1>6, <1>7

LEMMA FloorScaled ==
    ASSUME NEW a \in Nat, NEW b \in Nat, a <= b,
           NEW k \in Nat \ {0}, NEW m \in Nat \ {0}, k <= m
    PROVE  Larger(a, 25 * m) * k <= Larger(b, 25 * k) * m
<1> DEFINE z == Larger(b, 25 * k)
<1>1. z \in Nat /\ b <= z /\ 25 * k <= z
  BY DEF Larger
<1> HIDE DEF z
<1>2. a * k <= z * m
  <2>1. a * k <= z * k
    BY <1>1, ProductOrder
  <2>2. k * z <= m * z
    BY <1>1, ProductOrder
  <2>3. k * z = z * k /\ m * z = z * m /\ a * k \in Int /\ z * k \in Int /\ z * m \in Int
    BY <1>1
  <2> QED
    BY <2>1, <2>2, <2>3
<1>3. (25 * m) * k <= z * m
  <2>1. (25 * k) * m <= z * m
    BY <1>1, ProductOrder
  <2>2. (25 * m) * k = (25 * k) * m
    OBVIOUS
  <2> QED
    BY <2>1, <2>2
<1>4. Larger(a, 25 * m) \in {a, 25 * m}
  BY DEF Larger
<1> QED
  BY <1>2, <1>3, <1>4 DEF z

\* Easier settings widen every time, measured in its own trial.
LEMMA TimesScaled ==
    ASSUME NEW s \in Settings, NEW t \in Settings, AsEasyAs(s, t)
    PROVE  /\ CountedTime(t) * s.trial <= CountedTime(s) * t.trial
           /\ PerfectTime(t) * s.trial <= PerfectTime(s) * t.trial
           /\ PureTime(t) * s.trial <= PureTime(s) * t.trial
<1> DEFINE k == s.trial
           m == t.trial
<1>1. /\ k \in Nat \ {0} /\ m \in Nat \ {0} /\ k <= m /\ s.mobile = t.mobile
      /\ s.mobile \in BOOLEAN /\ s.difficulty \in Difficulties /\ t.difficulty \in Difficulties
  BY DEF Settings, AsEasyAs
<1> HIDE DEF k, m
<1>2. CASE s.mobile
  <2>1. /\ CountedTime(t) = 90 * m /\ CountedTime(s) = 90 * k
        /\ PerfectTime(t) = 70 * m /\ PerfectTime(s) = 70 * k
        /\ PureTime(t) = 50 * m /\ PureTime(s) = 50 * k
    BY <1>1, <1>2 DEF CountedTime, PerfectTime, PureTime, k, m
  <2>2. /\ (90 * m) * k <= (90 * k) * m
        /\ (70 * m) * k <= (70 * k) * m
        /\ (50 * m) * k <= (50 * k) * m
    BY <1>1
  <2> QED
    BY <2>1, <2>2 DEF k, m
<1>3. CASE ~s.mobile
  <2> DEFINE Ms(d) == CASE d = "LENIENT" -> 91
                        [] d = "STRICT"  -> 40
                        [] OTHER         -> 65
  <2>1. Ms("LENIENT") = 91 /\ Ms("STRICT") = 40 /\ Ms("NORMAL") = 65
    OBVIOUS
  <2>2. CountedTime(t) = Larger(100 * Ms(t.difficulty), 25 * m)
    BY <1>1, <1>3 DEF CountedTime, m
  <2>3. CountedTime(s) = Larger(100 * Ms(s.difficulty), 25 * k)
    BY <1>3 DEF CountedTime, k
  <2> HIDE DEF Ms
  <2>4. Ms(t.difficulty) \in Nat /\ Ms(s.difficulty) \in Nat
        /\ Ms(t.difficulty) <= Ms(s.difficulty)
    BY <1>1, <2>1 DEF AsEasyAs, Difficulties
  <2>5. CountedTime(t) * k <= CountedTime(s) * m
    <3>1. /\ 100 * Ms(t.difficulty) \in Nat /\ 100 * Ms(s.difficulty) \in Nat
          /\ 100 * Ms(t.difficulty) <= 100 * Ms(s.difficulty)
      BY <2>4
    <3> QED
      BY <1>1, <2>2, <2>3, <3>1, FloorScaled
  <2>6. /\ PerfectTime(t) = Larger(3000, 25 * m) /\ PerfectTime(s) = Larger(3000, 25 * k)
        /\ PureTime(t) = Larger(2000, 25 * m) /\ PureTime(s) = Larger(2000, 25 * k)
    BY <1>1, <1>3 DEF PerfectTime, PureTime, k, m
  <2>7. PerfectTime(t) * k <= PerfectTime(s) * m
    <3>1. 3000 \in Nat /\ 3000 <= 3000
      OBVIOUS
    <3> QED
      BY <1>1, <2>6, <3>1, FloorScaled
  <2>8. PureTime(t) * k <= PureTime(s) * m
    <3>1. 2000 \in Nat /\ 2000 <= 2000
      OBVIOUS
    <3> QED
      BY <1>1, <2>6, <3>1, FloorScaled
  <2> QED
    BY <2>5, <2>7, <2>8 DEF k, m
<1> QED
  BY <1>1, <1>2, <1>3

\* Easier settings widen every boundary, measured as an angle.
LEMMA EasierWidens ==
    ASSUME NEW s \in Settings, NEW t \in Settings, AsEasyAs(s, t)
    PROVE  /\ Counted(t) * s.trial <= Counted(s) * t.trial
           /\ Perfect(t) * s.trial <= Perfect(s) * t.trial
           /\ Pure(t) * s.trial <= Pure(s) * t.trial
<1>1. /\ s.scale = t.scale /\ s.pitch = t.pitch /\ s.bpm = t.bpm
      /\ s.countedAngle = t.countedAngle /\ s.countedAngle \in Nat
  BY DEF AsEasyAs, Settings
<1>2. /\ CountedTime(s) \in Nat /\ PerfectTime(s) \in Nat /\ PureTime(s) \in Nat
      /\ CountedTime(t) \in Nat /\ PerfectTime(t) \in Nat /\ PureTime(t) \in Nat
  BY TimesOrdered
<1>3. /\ Boundary(s.countedAngle, CountedTime(t), t) * s.trial
            <= Boundary(s.countedAngle, CountedTime(s), s) * t.trial
  BY <1>1, <1>2, TimesScaled, BoundaryScaled
<1>4. /\ Boundary(45, PerfectTime(t), t) * s.trial
            <= Boundary(45, PerfectTime(s), s) * t.trial
  <2>1. 45 \in Nat
    OBVIOUS
  <2> QED
    BY <1>1, <1>2, <2>1, TimesScaled, BoundaryScaled
<1>5. /\ Boundary(30, PureTime(t), t) * s.trial
            <= Boundary(30, PureTime(s), s) * t.trial
  <2>1. 30 \in Nat
    OBVIOUS
  <2> QED
    BY <1>1, <1>2, <2>1, TimesScaled, BoundaryScaled
<1> QED
  BY <1>1, <1>3, <1>4, <1>5 DEF Counted, Perfect, Pure

\* The half of the widest margin that still hits the tile under a limit.
HitWidth(limit, s) == CASE limit = "PERFECTS_ONLY" -> Perfect(s)
                        [] limit = "PURE_PERFECT_ONLY" -> Pure(s)
                        [] OTHER -> Counted(s)

LEMMA HitsWithinWidth ==
    ASSUME NEW s \in Settings, s.countedAngle >= 45, NEW d \in Int, NEW limit \in Limits
    PROVE  /\ HitWidth(limit, s) \in Nat
           /\ IsValidHit(Judge(d, s), limit)
                 <=> -HitWidth(limit, s) < d /\ d <= HitWidth(limit, s)
<1> DEFINE c == Counted(s)
           p == Perfect(s)
           u == Pure(s)
<1>1. u \in Nat /\ p \in Nat /\ c \in Nat /\ u <= p /\ p <= c
  BY BoundariesNested
<1> HIDE DEF c, p, u
<1>2. Margins = {"TOO_EARLY", "VERY_EARLY", "EARLY_PERFECT", "PERFECT", "LATE_PERFECT",
                 "VERY_LATE", "TOO_LATE"}
  BY DEF Margins, MarginRank
<1>3. Judge(d, s) = HitMargin(d, c, p, u)
  BY DEF Judge, c, p, u
<1>4. CASE limit = "NONE"
  <2>1. HitWidth(limit, s) = c
    BY <1>4 DEF HitWidth, c
  <2>2. IsValidHit(Judge(d, s), limit) <=> Judge(d, s) \in Margins \ {"TOO_EARLY", "TOO_LATE"}
    BY <1>4 DEF IsValidHit
  <2> QED
    BY <1>1, <1>2, <1>3, <2>1, <2>2 DEF HitMargin
<1>5. CASE limit = "PERFECTS_ONLY"
  <2>1. HitWidth(limit, s) = p
    BY <1>5 DEF HitWidth, p
  <2>2. IsValidHit(Judge(d, s), limit)
          <=> Judge(d, s) \in {"EARLY_PERFECT", "PERFECT", "LATE_PERFECT"}
    BY <1>5 DEF IsValidHit
  <2> QED
    BY <1>1, <1>3, <2>1, <2>2 DEF HitMargin
<1>6. CASE limit = "PURE_PERFECT_ONLY"
  <2>1. HitWidth(limit, s) = u
    BY <1>6 DEF HitWidth, u
  <2>2. IsValidHit(Judge(d, s), limit) <=> Judge(d, s) = "PERFECT"
    BY <1>6 DEF IsValidHit
  <2> QED
    BY <1>1, <1>3, <2>1, <2>2 DEF HitMargin
<1> QED
  BY <1>4, <1>5, <1>6 DEF Limits

\* Easier settings and a wider limit widen what hits, and so a press at the
\* same angle that hit goes on hitting.
LEMMA EasierStillHits ==
    ASSUME NEW s \in Settings, NEW t \in Settings, AsEasyAs(s, t),
           s.countedAngle >= 45, t.countedAngle >= 45,
           NEW wide \in Limits, NEW tight \in Limits,
           wide = "NONE" \/ wide = tight \/ tight = "PURE_PERFECT_ONLY",
           NEW a \in Int, IsValidHit(Press(a, t), tight)
    PROVE  IsValidHit(Press(a, s), wide)
<1> DEFINE b == HitWidth(tight, t)
           c == HitWidth(tight, s)
           w == HitWidth(wide, s)
           k == s.trial
           m == t.trial
<1>1. k \in Nat \ {0} /\ m \in Nat \ {0} /\ a * k \in Int /\ a * m \in Int
  BY DEF Settings
<1>2. b \in Nat /\ c \in Nat /\ w \in Nat
  <2>1. 0 \in Int
    OBVIOUS
  <2> QED
    BY <2>1, HitsWithinWidth
<1>3. c <= w
  BY BoundariesNested DEF HitWidth, Limits
<1>4. b * k <= c * m
  BY EasierWidens DEF HitWidth, Limits
<1>5. -b < a * m /\ a * m <= b
  BY <1>1, HitsWithinWidth DEF Press
<1> HIDE DEF b, c, w, k, m
<1>6. -c < a * k /\ a * k <= c
  BY <1>1, <1>2, <1>4, <1>5, Scaled
<1>7. -w < a * k /\ a * k <= w
  BY <1>1, <1>2, <1>3, <1>6
<1> QED
  BY <1>1, <1>7, HitsWithinWidth DEF Press, w, k

\* Whatever the chart, the pitch, the tempo and the angle: what hits the tile
\* under some settings hits it under an easier difficulty, a slower trial and
\* a wider margin limit, for the floor of 25 ms and the fixed angles of
\* get_hit_margin too.
THEOREM EasierNeverMisses ==
    PlanetSpec => []EasierKeepsHits
<1>1. PlanetTypes => EasierKeepsHits
  <2> SUFFICES ASSUME PlanetTypes,
                      NEW easier \in Instances, AsEasyAs(easier, settings),
                      NEW wide \in Limits, NEW tight \in Limits,
                      wide = "NONE" \/ wide = tight \/ tight = "PURE_PERFECT_ONLY",
                      IsValidHit(Press(angle, settings), tight)
               PROVE  IsValidHit(Press(angle, easier), wide)
    BY DEF EasierKeepsHits
  <2>1. easier \in Settings /\ easier.countedAngle >= 45
    BY TurningAssumption
  <2> QED
    BY <2>1, EasierStillHits DEF PlanetTypes
<1> QED
  BY <1>1, PlanetTyping, PTL


-----------------------------------------------------------------------------
(* The replica, for every game of the instance.                            *)

\* The game that is played.
Ground == chart \in Seq(Tile) /\ Len(chart) \in Nat \ {0} /\ cfg \in Config

Runtimes ==
    [seq : 0..Last, now : Nat, alive : BOOLEAN, responsive : BOOLEAN, lock : Nat,
     pending : Nat, midPending : Nat, midspin : BOOLEAN, taps : Nat,
     consec : Nat, over : Nat, ignore : Nat, downSeen : BOOLEAN, upSeen : BOOLEAN,
     hold : Nat, overload : Nat, multi : Nat, since : Nat, cooldown : Nat,
     lives : Nat, penalty : BOOLEAN, first : BOOLEAN, infinite : BOOLEAN,
     nextHold : BOOLEAN, progress : Int, owed : BOOLEAN, nested : BOOLEAN,
     landed : BOOLEAN]

LEMMA TileFacts ==
    ASSUME Ground
    PROVE  /\ Last \in Nat
           /\ \A i \in 0..Last : At(i) \in Tile
<1>1. Len(chart) \in Nat \ {0} /\ chart \in Seq(Tile)
  BY DEF Ground
<1> QED
  BY <1>1 DEF Last, At

\* Where a death does not kill: the player cannot fail or is on a safe tile,
\* cools down, or the way on is automatic.
Spared(r) ==
    \/ cfg.noFail
    \/ SafeAt(r.seq)
    \/ r.cooldown > 0
    \/ AutoPath(r) /\ ~cfg.oldAuto

\* A bar that is over was not the death of the player on the tile he is on.
Strict(r) == r.alive /\ FailBarOver(r) => Spared(r)

\* ... or on the tile before.
Barred(r) ==
    r.alive /\ FailBarOver(r) =>
        \/ Spared(r)
        \/ r.seq > 0 /\ (SafeAt(r.seq - 1) \/ (Here(r).auto /\ ~cfg.oldAuto))

\* What has become of the player b of the beginning: he has his lives and his
\* cooldown, or has paid a life and cools down, and is dead without one.
Paid(r, b) ==
    /\ r.now = b.now
    /\ \/ r.lives = b.lives /\ r.cooldown = b.cooldown
       \/ r.lives = b.lives - 1 /\ b.cooldown = 0 /\ (r.lives > 0 => r.cooldown > 0)
    /\ ~r.alive => r.lives = 0

\* Lives are left, or were, only where the game gives some: a cooldown follows
\* a life that was paid.
Expo == cfg.lives > 0
PureExpo == cfg.limit = "PURE_PERFECT_ONLY" /\ Expo

Purse(r) ==
    /\ cfg.lives \in Nat
    /\ r.lives <= cfg.lives
    /\ r.cooldown > 0 => r.lives < cfg.lives

\* The player may have been helped on: he cannot fail, has paid a life, or a
\* tile has aided him.
Helped(r) == cfg.noFail \/ r.lives < cfg.lives \/ ~Unaided(r.seq)

Core(r, b) ==
    /\ r \in Runtimes
    /\ Paid(r, b)
    /\ Purse(r)
    /\ r.nested => PureExpo
    /\ b.seq <= r.seq
    /\ r.alive => b.alive
    /\ r.midspin => Here(r).mid
    /\ r.owed \/ r.infinite => Helped(r)

\* A player that no one helped is let go before the next tile is missed.
Entered(r) ==
    ~Helped(r) /\ ~Here(r).portal /\ Pressed(r.seq)
       => r.lock > 0 /\ Late(r) + r.lock < CountedAt

\* Whoever waits for his input still waits as b did, or has entered a tile.
Waits(r, b) ==
    ~r.responsive => \/ r.seq = b.seq /\ ~b.responsive /\ r.lock = b.lock
                     \/ Entered(r)

\* A runtime between two parts of a step that began with b: up to the lock, and
\* with it.
Quiet(r, b) == Core(r, b) /\ ~r.owed /\ Barred(r)
Good(r, b) == Quiet(r, b) /\ Waits(r, b)

\* The types of the fields that are counted.
LEMMA Counts ==
    ASSUME NEW r \in Runtimes
    PROVE  /\ r.seq \in 0..Last /\ r.now \in Nat /\ r.progress \in Int
           /\ r.lock \in Nat /\ r.pending \in Nat /\ r.midPending \in Nat /\ r.taps \in Nat
           /\ r.consec \in Nat /\ r.over \in Nat /\ r.ignore \in Nat /\ r.hold \in Nat
           /\ r.overload \in Nat /\ r.multi \in Nat /\ r.since \in Nat
           /\ r.cooldown \in Nat /\ r.lives \in Nat
  BY DEF Runtimes

LEMMA Switches ==
    ASSUME NEW r \in Runtimes
    PROVE  /\ r.alive \in BOOLEAN /\ r.responsive \in BOOLEAN /\ r.midspin \in BOOLEAN
           /\ r.downSeen \in BOOLEAN /\ r.upSeen \in BOOLEAN /\ r.penalty \in BOOLEAN
           /\ r.first \in BOOLEAN /\ r.infinite \in BOOLEAN /\ r.nextHold \in BOOLEAN
           /\ r.owed \in BOOLEAN /\ r.nested \in BOOLEAN /\ r.landed \in BOOLEAN
  BY DEF Runtimes

-----------------------------------------------------------------------------
(* What is defined round by round.  One lemma gives such a run its          *)
(* solution, one carries what a round keeps to the end of the run.          *)

\* f goes on from v by S.
Run(f, n, S, v) == \A i \in 0..n : f[i] = IF i = 0 THEN v ELSE S[f[i - 1]]

LEMMA RunExists ==
    ASSUME NEW n \in Nat, NEW V, NEW S \in [V -> V], NEW v \in V
    PROVE  \E f : f \in [0..n -> V] /\ Run(f, n, S, v)
<1> DEFINE Solves(f, m) ==
             /\ f = [i \in 0..m |-> IF i = 0 THEN v ELSE S[f[i - 1]]]
             /\ \A i \in 0..m : f[i] \in V
           T == {m \in Nat : \E f : Solves(f, m)}
<1>1. 0 \in T
  <2> DEFINE f == [i \in 0..0 |-> v]
  <2>1. f = [i \in 0..0 |-> IF i = 0 THEN v ELSE S[f[i - 1]]] /\ \A i \in 0..0 : f[i] \in V
    OBVIOUS
  <2> QED
    BY <2>1
<1>2. ASSUME NEW m \in T PROVE m + 1 \in T
  <2>1. m \in Nat
    OBVIOUS
  <2>2. PICK f : Solves(f, m)
    OBVIOUS
  <2>3. \A i \in 0..m : f[i] \in V /\ f[i] = IF i = 0 THEN v ELSE S[f[i - 1]]
    BY <2>2
  <2> DEFINE g == [i \in 0..m + 1 |-> IF i = m + 1 THEN S[f[m]] ELSE f[i]]
  <2>4. ASSUME NEW i \in 0..m + 1
        PROVE  g[i] \in V /\ g[i] = IF i = 0 THEN v ELSE S[g[i - 1]]
    <3>1. CASE i = m + 1
      <4>1. i - 1 = m /\ m \in 0..m /\ m \in 0..m + 1 /\ i # 0 /\ m # m + 1
        BY <2>1, <3>1
      <4>2. g[i - 1] = f[m] /\ g[i] = S[f[m]] /\ f[m] \in V
        BY <2>3, <3>1, <4>1
      <4> QED
        BY <4>1, <4>2
    <3>2. CASE i # m + 1
      <4>1. i \in 0..m /\ (i # 0 => i - 1 \in 0..m + 1 /\ i - 1 # m + 1)
        BY <2>1, <3>2
      <4>2. g[i] = f[i] /\ (i # 0 => g[i - 1] = f[i - 1])
        BY <3>2, <4>1
      <4> QED
        BY <2>3, <4>1, <4>2
    <3> QED
      BY <3>1, <3>2
  <2>5. g = [i \in 0..m + 1 |-> g[i]]
    OBVIOUS
  <2> HIDE DEF g
  <2>6. Solves(g, m + 1)
    BY <2>4, <2>5
  <2> QED
    BY <2>1, <2>6
<1>3. T = Nat
  <2>1. T \in SUBSET Nat
    OBVIOUS
  <2> HIDE DEF T
  <2> QED
    BY <1>1, <1>2, <2>1, SetInduction
<1>4. PICK f : Solves(f, n)
  BY <1>3
<1> QED
  BY <1>4 DEF Run

LEMMA RunStays ==
    ASSUME NEW n \in Nat, NEW V, NEW f, f[0] \in V,
           \A i \in 1..n : f[i - 1] \in V => f[i] \in V
    PROVE  \A i \in 0..n : f[i] \in V
<1> DEFINE T == {m \in Nat : m <= n => f[m] \in V}
<1>1. 0 \in T
  OBVIOUS
<1>2. ASSUME NEW m \in T PROVE m + 1 \in T
  <2>1. CASE m + 1 <= n
    <3>1. m \in Nat /\ f[m] \in V /\ m + 1 \in 1..n /\ (m + 1) - 1 = m
      BY <2>1
    <3>2. f[(m + 1) - 1] \in V
      BY <3>1
    <3> QED
      BY <3>1, <3>2
  <2>2. CASE ~(m + 1 <= n)
    BY <2>2
  <2> QED
    BY <2>1, <2>2
<1>3. T = Nat
  <2>1. T \in SUBSET Nat
    OBVIOUS
  <2> HIDE DEF T
  <2> QED
    BY <1>1, <1>2, <2>1, SetInduction
<1> QED
  BY <1>3

-----------------------------------------------------------------------------
(* The song time of the tiles.                                             *)

\* The definition of Due is a recursion; this is its solution.
LEMMA DueUnfolds ==
    ASSUME Ground
    PROVE  /\ Due[0] = 0
           /\ \A i \in 1..Len(chart) : Due[i] = Due[i - 1] + At(i - 1).gap
<1> DEFINE Solves(f, m) == f = [i \in 0..m |-> IF i = 0 THEN 0 ELSE f[i - 1] + At(i - 1).gap]
           T == {m \in Nat : \E f : Solves(f, m)}
<1>1. 0 \in T
  <2> DEFINE f == [i \in 0..0 |-> 0]
  <2>1. f = [i \in 0..0 |-> IF i = 0 THEN 0 ELSE f[i - 1] + At(i - 1).gap]
    OBVIOUS
  <2> QED
    BY <2>1
<1>2. ASSUME NEW m \in T PROVE m + 1 \in T
  <2>1. m \in Nat
    OBVIOUS
  <2>2. PICK f : Solves(f, m)
    OBVIOUS
  <2> DEFINE g == [i \in 0..m + 1 |-> IF i = m + 1 THEN f[m] + At(m).gap ELSE f[i]]
  <2>3. \A i \in 0..m : f[i] = IF i = 0 THEN 0 ELSE f[i - 1] + At(i - 1).gap
    BY <2>2
  <2>4. ASSUME NEW i \in 0..m + 1
        PROVE  g[i] = IF i = 0 THEN 0 ELSE g[i - 1] + At(i - 1).gap
    <3>1. CASE i = m + 1
      <4>1. i - 1 = m /\ m \in 0..m + 1 /\ i # 0 /\ m # m + 1
        BY <2>1, <3>1
      <4>2. g[i - 1] = f[m] /\ g[i] = f[m] + At(m).gap
        BY <3>1, <4>1
      <4> QED
        BY <4>1, <4>2
    <3>2. CASE i # m + 1
      <4>1. i \in 0..m /\ (i # 0 => i - 1 \in 0..m + 1 /\ i - 1 # m + 1)
        BY <2>1, <3>2
      <4>2. g[i] = f[i] /\ (i # 0 => g[i - 1] = f[i - 1])
        BY <3>2, <4>1
      <4> QED
        BY <2>3, <4>1, <4>2
    <3> QED
      BY <3>1, <3>2
  <2>5. g = [i \in 0..m + 1 |-> g[i]]
    OBVIOUS
  <2> HIDE DEF g
  <2>6. Solves(g, m + 1)
    BY <2>4, <2>5
  <2> QED
    BY <2>1, <2>6
<1> HIDE DEF T
<1>3. T = Nat
  <2>1. T \in SUBSET Nat
    BY DEF T
  <2> QED
    BY <1>1, <1>2, <2>1, SetInduction
<1>4. \E f : Solves(f, Len(chart))
  BY <1>3 DEF T, Ground
<1> DEFINE due == CHOOSE f : Solves(f, Len(chart))
<1>5. Solves(due, Len(chart))
  BY <1>4
<1>6. Due = due
  BY DEF Due
<1> HIDE DEF due
<1>7. Len(chart) \in Nat
  BY DEF Ground
<1>8. due[0] = 0
  BY <1>5, <1>7
<1>9. ASSUME NEW i \in 1..Len(chart) PROVE due[i] = due[i - 1] + At(i - 1).gap
  <2>1. i \in 0..Len(chart) /\ i # 0
    BY <1>7
  <2> QED
    BY <1>5, <2>1
<1> QED
  BY <1>6, <1>8, <1>9

\* Every tile, and the end of the last one, is due at a moment of the song.
LEMMA DueType ==
    ASSUME Ground
    PROVE  /\ Len(chart) = Last + 1 /\ Last \in Nat
           /\ \A i \in 0..Last + 1 : Due[i] \in Nat
<1>1. Len(chart) \in Nat \ {0} /\ Last \in Nat /\ Len(chart) = Last + 1
  BY DEF Ground, Last
<1>2. Due[0] \in Nat
  BY DueUnfolds
<1>3. ASSUME NEW i \in 1..Len(chart), Due[i - 1] \in Nat PROVE Due[i] \in Nat
  <2>1. i - 1 \in 0..Last
    BY <1>1
  <2>2. At(i - 1).gap \in Nat
    BY <2>1, TileFacts DEF Tile
  <2>3. Due[i] = Due[i - 1] + At(i - 1).gap
    BY DueUnfolds
  <2> QED
    BY <1>3, <2>2, <2>3
<1>4. Len(chart) \in Nat /\ \A i \in 1..Len(chart) : Due[i - 1] \in Nat => Due[i] \in Nat
  BY <1>1, <1>3
<1>5. \A i \in 0..Len(chart) : Due[i] \in Nat
  BY <1>2, <1>4, RunStays
<1> QED
  BY <1>1, <1>5

\* The tiles are due in their order.
LEMMA DueOrdered ==
    ASSUME Ground, NEW i \in 0..Last + 1, NEW j \in 0..Last + 1, i <= j
    PROVE  Due[i] <= Due[j]
<1> DEFINE T == {d \in Nat : \A k \in 0..Last + 1 : k + d <= Last + 1 => Due[k] <= Due[k + d]}
<1>1. Last \in Nat /\ Len(chart) = Last + 1 /\ \A k \in 0..Last + 1 : Due[k] \in Nat
  BY DueType
<1>2. 0 \in T
  <2>1. \A k \in 0..Last + 1 : k + 0 = k /\ Due[k] <= Due[k]
    BY <1>1
  <2> QED
    BY <2>1
<1>3. ASSUME NEW d \in T PROVE d + 1 \in T
  <2>1. d \in Nat
    OBVIOUS
  <2>2. ASSUME NEW k \in 0..Last + 1, k + (d + 1) <= Last + 1 PROVE Due[k] <= Due[k + (d + 1)]
    <3>1. /\ k + d \in 0..Last + 1 /\ k + d <= Last + 1 /\ k + d \in 0..Last
          /\ k + (d + 1) \in 1..Len(chart) /\ k + (d + 1) \in 0..Last + 1
          /\ (k + (d + 1)) - 1 = k + d
      BY <1>1, <2>1, <2>2
    <3>2. Due[k] <= Due[k + d]
      BY <3>1
    <3>3. Due[k + (d + 1)] = Due[k + d] + At(k + d).gap /\ At(k + d).gap \in Nat
      BY <3>1, DueUnfolds, TileFacts DEF Tile
    <3>4. Due[k] \in Nat /\ Due[k + d] \in Nat
      BY <1>1, <3>1
    <3> QED
      BY <3>2, <3>3, <3>4
  <2> QED
    BY <2>1, <2>2
<1>4. T = Nat
  <2>1. T \in SUBSET Nat
    OBVIOUS
  <2> HIDE DEF T
  <2> QED
    BY <1>2, <1>3, <2>1, SetInduction
<1>5. j - i \in Nat /\ i + (j - i) = j /\ i + (j - i) <= Last + 1
  BY <1>1
<1>6. j - i \in T
  BY <1>4, <1>5
<1>7. Due[i] <= Due[i + (j - i)]
  BY <1>5, <1>6
<1> QED
  BY <1>5, <1>7

\* On the way the player is less and less late.
LEMMA LateFalls ==
    ASSUME Ground, NEW r \in Runtimes, NEW x \in Runtimes, r.seq <= x.seq, x.now = r.now
    PROVE  Late(r) \in Int /\ Late(x) \in Int /\ Late(x) <= Late(r)
<1>1. /\ Last \in Nat /\ r.seq \in 0..Last /\ x.seq \in 0..Last /\ r.now \in Nat
      /\ \A i \in 0..Last + 1 : Due[i] \in Nat
  BY Counts, DueType
<1>2. r.seq + 1 \in 0..Last + 1 /\ x.seq + 1 \in 0..Last + 1 /\ r.seq + 1 <= x.seq + 1
  BY <1>1
<1>3. Due[r.seq + 1] <= Due[x.seq + 1]
  BY <1>2, DueOrdered
<1>4. Due[r.seq + 1] \in Nat /\ Due[x.seq + 1] \in Nat
  BY <1>1, <1>2
<1> QED
  BY <1>1, <1>3, <1>4 DEF Late

-----------------------------------------------------------------------------
(* A death.                                                                *)

SameBar(x, r) == x.overload = r.overload /\ x.multi = r.multi

\* x goes on as r did, on the same tile: no revival, no shorter cooldown, no
\* life regained, and the input as it was.
GoesOn(x, r) ==
    /\ x.seq = r.seq /\ x.now = r.now
    /\ x.alive => r.alive
    /\ r.cooldown > 0 => x.cooldown > 0
    /\ x.lives <= r.lives
    /\ x.responsive = r.responsive /\ x.lock = r.lock
    /\ x.midspin = r.midspin /\ (x.infinite => r.infinite)

\* What has helped the player stays.
LEMMA HelpStays ==
    ASSUME NEW r \in Runtimes, NEW x \in Runtimes, Purse(r), Helped(r),
           r.seq <= x.seq, x.lives <= r.lives
    PROVE  Helped(x)
<1>1. r.seq \in Int /\ x.seq \in Int /\ r.lives \in Int /\ x.lives \in Int /\ cfg.lives \in Int
  BY Counts DEF Purse
<1>2. r.lives < cfg.lives => x.lives < cfg.lives
  BY <1>1
<1>3. \A j \in 0..r.seq : j \in 0..x.seq
  BY <1>1
<1>4. ~Unaided(r.seq) => ~Unaided(x.seq)
  BY <1>3 DEF Unaided
<1> QED
  BY <1>2, <1>4 DEF Helped

\* Who paid a life, or is on a tile that spares him, was helped.
LEMMA SparedWasHelped ==
    ASSUME NEW r \in Runtimes, Purse(r),
           cfg.noFail \/ (Here(r).safe /\ cfg.limit = "NONE") \/ r.cooldown > 0
    PROVE  Helped(r)
<1>1. r.seq \in 0..r.seq
  BY Counts
<1>2. Here(r).safe => ~Unaided(r.seq)
  BY <1>1 DEF Unaided, Here
<1> QED
  BY <1>2 DEF Helped, Purse

\* What a player keeps who goes on as he was.
LEMMA GoesOnKeeps ==
    ASSUME NEW r, NEW b, Core(r, b), NEW x \in Runtimes, GoesOn(x, r), Paid(x, b), Purse(x),
           x.nested => PureExpo, x.owed => r.owed \/ Helped(x)
    PROVE  Core(x, b)
<1>1. /\ r \in Runtimes /\ Purse(r) /\ b.seq <= r.seq
      /\ r.alive => b.alive
      /\ r.midspin => Here(r).mid
      /\ r.owed \/ r.infinite => Helped(r)
  BY DEF Core
<1>2. /\ x.seq = r.seq /\ (x.alive => r.alive) /\ x.lives <= r.lives
      /\ x.midspin = r.midspin /\ (x.infinite => r.infinite)
  BY DEF GoesOn
<1>3. r.seq <= x.seq
  BY <1>1, <1>2, Counts
<1>4. Helped(r) => Helped(x)
  BY <1>1, <1>2, <1>3, HelpStays
<1>5. x.midspin => Here(x).mid
  BY <1>1, <1>2 DEF Here
<1> QED
  BY <1>1, <1>2, <1>4, <1>5 DEF Core

LEMMA GoesOnOn ==
    ASSUME NEW r \in Runtimes, NEW x \in Runtimes, NEW y \in Runtimes,
           GoesOn(x, r), GoesOn(y, x)
    PROVE  GoesOn(y, r)
<1>1. r.lives \in Nat /\ x.lives \in Nat /\ y.lives \in Nat
  BY Counts
<1> QED
  BY <1>1 DEF GoesOn

LEMMA GoesOnItself ==
    ASSUME NEW r \in Runtimes
    PROVE  GoesOn(r, r)
<1>1. r.lives \in Nat
  BY Counts
<1> QED
  BY <1>1 DEF GoesOn

LEMMA WaitsOn ==
    ASSUME NEW r \in Runtimes, NEW b, NEW x \in Runtimes, Purse(r), GoesOn(x, r), Waits(r, b)
    PROVE  Waits(x, b)
<1>1. /\ x.seq = r.seq /\ x.now = r.now /\ x.lives <= r.lives
      /\ x.responsive = r.responsive /\ x.lock = r.lock
  BY DEF GoesOn
<1>2. r.seq <= x.seq
  BY <1>1, Counts
<1>3. Helped(r) => Helped(x)
  BY <1>1, <1>2, HelpStays
<1>4. Entered(r) => Entered(x)
  BY <1>1, <1>3 DEF Entered, Here, Late
<1> QED
  BY <1>1, <1>4 DEF Waits

\* Whoever is between two parts of a step could have begun it there.
LEMMA CoreItself ==
    ASSUME NEW r, NEW b, Core(r, b)
    PROVE  Core(r, r)
<1>1. r.seq <= r.seq
  BY Counts DEF Core
<1> QED
  BY <1>1 DEF Core, Paid

LEMMA GoodItself ==
    ASSUME NEW r, NEW b, Good(r, b)
    PROVE  Good(r, r)
  BY CoreItself DEF Good, Quiet, Waits

LEMMA PayLifeFacts ==
    ASSUME NEW r \in Runtimes, r.cooldown = 0, r.lives > 0
    PROVE  LET p == PayLife(r)
           IN  /\ p \in Runtimes /\ p.now = r.now /\ p.seq = r.seq /\ SameBar(p, r)
               /\ p.alive = r.alive /\ p.owed = r.owed /\ p.nested = r.nested
               /\ p.responsive = r.responsive /\ p.lock = r.lock
               /\ p.midspin = r.midspin /\ p.infinite = r.infinite
               /\ p.lives = r.lives - 1
               /\ r.lives > 1 => p.cooldown > 0
               /\ r.lives = 1 => p.cooldown = 0
<1> DEFINE v == r.lives - 1
           c == IF r.lives > 1 THEN CooldownTime ELSE r.cooldown
           y == [r EXCEPT !.lives = v]
           p == PayLife(r)
<1>1. v \in Nat /\ c \in Nat /\ r.lives \in Nat
  BY JudgementAssumption, Counts
<1>2. p = [r EXCEPT !.lives = v, !.cooldown = c]
  BY DEF PayLife
<1> HIDE DEF p
<1>3. p \in Runtimes
  <2> HIDE DEF v, c
  <2>1. y \in Runtimes
    BY <1>1 DEF Runtimes
  <2> HIDE DEF y
  <2>2. [y EXCEPT !.cooldown = c] \in Runtimes
    BY <1>1, <2>1 DEF Runtimes
  <2> QED
    BY <1>2, <2>2 DEF y
<1>4. /\ p.now = r.now /\ p.seq = r.seq /\ SameBar(p, r) /\ p.alive = r.alive
      /\ p.owed = r.owed /\ p.nested = r.nested /\ p.lives = v /\ p.cooldown = c
      /\ p.responsive = r.responsive /\ p.lock = r.lock
      /\ p.midspin = r.midspin /\ p.infinite = r.infinite
  <2> HIDE DEF v, c
  <2> QED
    BY <1>2 DEF Runtimes, SameBar
<1>5. (r.lives > 1 => c > 0) /\ (r.lives = 1 => c = 0)
  BY <1>1, JudgementAssumption
<1> QED
  BY <1>3, <1>4, <1>5 DEF p

LEMMA DieFacts ==
    ASSUME NEW r, NEW b \in Runtimes, Core(r, b), NEW overload \in BOOLEAN
    PROVE  LET x == Die(r, overload)
           IN  /\ Core(x, b) /\ SameBar(x, r) /\ GoesOn(x, r)
               /\ x.alive => Spared(x)
               /\ x.owed => r.owed \/ (~overload /\ (cfg.noFail \/ cfg.limit = "NONE" \/ Expo))
<1> DEFINE spared == cfg.noFail \/ (Here(r).safe /\ cfg.limit = "NONE") \/ r.cooldown > 0
           o == ~overload /\ ~r.midspin
           x == Die(r, overload)
<1>1. /\ r \in Runtimes /\ Paid(r, b) /\ Purse(r)
      /\ r.nested => PureExpo
      /\ r.lives \in Nat /\ r.cooldown \in Nat /\ r.owed \in BOOLEAN
  BY Counts, Switches DEF Core
<1>2. r.lives > 0 \/ r.cooldown > 0 => Expo
  BY <1>1 DEF Purse, Expo
<1>3. CASE AutoPath(r) /\ ~cfg.oldAuto
  <2>1. x = r
    BY <1>3 DEF Die
  <2> QED
    BY <1>1, <1>3, <2>1 DEF GoesOn, SameBar, Spared
<1>4. CASE ~(AutoPath(r) /\ ~cfg.oldAuto) /\ spared
  <2>1. x = [r EXCEPT !.owed = o]
    BY <1>4 DEF Die
  <2> HIDE DEF x
  <2>2. o \in BOOLEAN /\ (o => ~overload)
    OBVIOUS
  <2> HIDE DEF o
  <2>3. x \in Runtimes
    BY <1>1, <2>1, <2>2 DEF Runtimes
  <2>4. /\ SameBar(x, r) /\ x.seq = r.seq /\ x.now = r.now /\ x.lives = r.lives
        /\ x.cooldown = r.cooldown /\ x.alive = r.alive /\ x.nested = r.nested /\ x.owed = o
        /\ x.responsive = r.responsive /\ x.lock = r.lock
        /\ x.midspin = r.midspin /\ x.infinite = r.infinite
    BY <1>1, <2>1 DEF Runtimes, SameBar
  <2>5. GoesOn(x, r) /\ Paid(x, b) /\ Purse(x)
    BY <1>1, <2>4 DEF Paid, GoesOn, Purse
  <2>6. Spared(x) /\ Helped(x)
    <3>1. Here(x) = Here(r)
      BY <2>4 DEF Here
    <3>2. Spared(x)
      BY <1>4, <2>4, <3>1 DEF Spared, SafeAt, Here
    <3> QED
      BY <1>4, <2>3, <2>4, <2>5, <3>1, <3>2, SparedWasHelped
  <2>7. Core(x, b)
    BY <1>1, <2>3, <2>4, <2>5, <2>6, GoesOnKeeps
  <2>8. x.owed => ~overload /\ (cfg.noFail \/ cfg.limit = "NONE" \/ Expo)
    BY <1>1, <1>2, <1>4, <2>2, <2>4
  <2> QED
    BY <2>4, <2>5, <2>6, <2>7, <2>8 DEF x
<1>5. CASE ~(AutoPath(r) /\ ~cfg.oldAuto) /\ ~spared /\ r.lives > 0
  <2> DEFINE p == PayLife(r)
  <2>1. r.cooldown = 0
    BY <1>1, <1>5
  <2>2. /\ p \in Runtimes /\ p.now = r.now /\ p.seq = r.seq /\ SameBar(p, r)
        /\ p.alive = r.alive /\ p.owed = r.owed /\ p.nested = r.nested
        /\ p.responsive = r.responsive /\ p.lock = r.lock
        /\ p.midspin = r.midspin /\ p.infinite = r.infinite
        /\ p.lives = r.lives - 1
        /\ r.lives > 1 => p.cooldown > 0
        /\ r.lives = 1 => p.cooldown = 0
    BY <1>1, <1>5, <2>1, PayLifeFacts
  <2>3. x = IF r.lives > 1 THEN [p EXCEPT !.owed = o] ELSE [p EXCEPT !.alive = FALSE]
    BY <1>5 DEF Die
  <2>4. o \in BOOLEAN /\ (o => ~overload)
    OBVIOUS
  <2> HIDE DEF p, o, x
  <2>5. x \in Runtimes
    <3>1. [p EXCEPT !.owed = o] \in Runtimes
      BY <2>2, <2>4 DEF Runtimes
    <3>2. [p EXCEPT !.alive = FALSE] \in Runtimes
      BY <2>2 DEF Runtimes
    <3> QED
      BY <2>3, <3>1, <3>2
  <2>6. /\ x.now = r.now /\ x.seq = r.seq /\ x.nested = r.nested
        /\ x.lives = r.lives - 1 /\ x.cooldown = p.cooldown
        /\ x.overload = p.overload /\ x.multi = p.multi
        /\ x.responsive = r.responsive /\ x.lock = r.lock
        /\ x.midspin = r.midspin /\ x.infinite = r.infinite
        /\ IF r.lives > 1 THEN x.alive = r.alive /\ x.owed = o
                          ELSE x.alive = FALSE /\ x.owed = r.owed
    BY <2>2, <2>3 DEF Runtimes
  <2>7. r.lives = b.lives /\ b.cooldown = 0
    BY <1>1, <1>5, <2>1 DEF Paid
  <2>8. x.lives > 0 => x.cooldown > 0
    BY <1>1, <2>2, <2>6
  <2>9. ~x.alive => x.lives = 0
    BY <1>1, <1>5, <2>6 DEF Paid
  <2>10. Paid(x, b)
    BY <1>1, <2>6, <2>7, <2>8, <2>9 DEF Paid
  <2>11. GoesOn(x, r) /\ SameBar(x, r) /\ Purse(x) /\ Helped(x)
    BY <1>1, <2>1, <2>2, <2>6 DEF GoesOn, SameBar, Purse, Helped
  <2>12. Core(x, b)
    BY <1>1, <2>5, <2>6, <2>10, <2>11, GoesOnKeeps
  <2>13. x.alive => Spared(x)
    BY <1>1, <2>2, <2>6 DEF Spared
  <2>14. x.owed => r.owed \/ (~overload /\ Expo)
    BY <1>2, <1>5, <2>4, <2>6
  <2> QED
    BY <2>11, <2>12, <2>13, <2>14 DEF x
<1>6. CASE ~(AutoPath(r) /\ ~cfg.oldAuto) /\ ~spared /\ ~(r.lives > 0)
  <2>1. x = [r EXCEPT !.alive = FALSE]
    BY <1>6 DEF Die
  <2> HIDE DEF x
  <2>2. x \in Runtimes
    BY <1>1, <2>1 DEF Runtimes
  <2>3. /\ SameBar(x, r) /\ x.seq = r.seq /\ x.now = r.now /\ x.lives = r.lives
        /\ x.cooldown = r.cooldown /\ x.alive = FALSE /\ x.nested = r.nested
        /\ x.owed = r.owed /\ x.responsive = r.responsive /\ x.lock = r.lock
        /\ x.midspin = r.midspin /\ x.infinite = r.infinite
    BY <1>1, <2>1 DEF Runtimes, SameBar
  <2>4. GoesOn(x, r) /\ Paid(x, b) /\ Purse(x)
    BY <1>1, <1>6, <2>3 DEF Paid, GoesOn, Purse
  <2>5. Core(x, b)
    BY <1>1, <2>2, <2>3, <2>4, GoesOnKeeps
  <2> QED
    BY <2>3, <2>4, <2>5 DEF x
<1> QED
  BY <1>3, <1>4, <1>5, <1>6

\* x is r but for fields that no death, no damage and no landing reads here; the
\* input may have been unlocked.
Alike(x, r) ==
    /\ x \in Runtimes
    /\ x.seq = r.seq /\ x.now = r.now /\ x.alive = r.alive /\ x.lives = r.lives
    /\ x.cooldown = r.cooldown /\ x.owed = r.owed /\ x.nested = r.nested
    /\ x.midspin = r.midspin /\ (x.infinite => r.infinite)
    /\ SameBar(x, r)

Neutral(x, r) == Alike(x, r) /\ x.responsive = r.responsive /\ x.lock = r.lock

LEMMA SparedStays ==
    ASSUME NEW r, NEW x, GoesOn(x, r), Spared(r)
    PROVE  Spared(x)
  BY DEF GoesOn, Spared, AutoPath, NextIsAuto, HasNext

LEMMA SameBarOver ==
    ASSUME NEW r, NEW x, x.seq = r.seq, SameBar(x, r)
    PROVE  FailBarOver(x) <=> FailBarOver(r)
  BY DEF SameBar, FailBarOver

\* What a step inherits on the same tile with the same bar.
LEMMA BarHere ==
    ASSUME NEW r, NEW x, x.seq = r.seq, SameBar(x, r), x.alive => r.alive,
           r.cooldown > 0 => x.cooldown > 0
    PROVE  /\ Strict(r) => Strict(x)
           /\ Barred(r) => Barred(x)
<1>1. FailBarOver(x) <=> FailBarOver(r)
  BY SameBarOver
<1>2. Spared(r) => Spared(x)
  BY DEF Spared, AutoPath, NextIsAuto, HasNext
<1> QED
  BY <1>1, <1>2 DEF Strict, Barred, Here

LEMMA BarStays ==
    ASSUME NEW r, NEW x, GoesOn(x, r), SameBar(x, r)
    PROVE  /\ Strict(r) => Strict(x)
           /\ Barred(r) => Barred(x)
  BY BarHere DEF GoesOn

LEMMA AlikeKeeps ==
    ASSUME NEW r, NEW x, Alike(x, r), NEW b, Core(r, b)
    PROVE  /\ Core(x, b)
           /\ Quiet(r, b) => Quiet(x, b)
<1>1. /\ x \in Runtimes /\ r \in Runtimes
      /\ x.seq = r.seq /\ x.now = r.now /\ x.alive = r.alive /\ x.lives = r.lives
      /\ x.cooldown = r.cooldown /\ x.owed = r.owed /\ x.nested = r.nested
      /\ x.midspin = r.midspin /\ (x.infinite => r.infinite) /\ SameBar(x, r)
  BY DEF Alike, Core
<1>2. Here(x) = Here(r) /\ (Helped(r) => Helped(x)) /\ (Purse(r) => Purse(x))
  BY <1>1 DEF Here, Helped, Purse
<1>3. Core(x, b)
  BY <1>1, <1>2 DEF Core, Paid
<1>4. FailBarOver(x) <=> FailBarOver(r)
  BY <1>1, SameBarOver
<1>5. Spared(x) <=> Spared(r)
  BY <1>1 DEF Spared, AutoPath, NextIsAuto, HasNext
<1>6. Barred(r) => Barred(x)
  BY <1>1, <1>2, <1>4, <1>5 DEF Barred
<1> QED
  BY <1>1, <1>3, <1>6 DEF Quiet

LEMMA NeutralKeeps ==
    ASSUME NEW r, NEW x, Neutral(x, r), NEW b, Core(r, b)
    PROVE  /\ Core(x, b) /\ GoesOn(x, r) /\ SameBar(x, r)
           /\ Good(r, b) => Good(x, b)
<1>1. x \in Runtimes /\ r \in Runtimes /\ Alike(x, r) /\ x.lives \in Nat
  BY Counts DEF Neutral, Alike, Core
<1>2. Core(x, b) /\ GoesOn(x, r) /\ SameBar(x, r) /\ (Quiet(r, b) => Quiet(x, b))
  BY <1>1, AlikeKeeps DEF Neutral, Alike, GoesOn
<1>3. Waits(r, b) => Waits(x, b)
  BY <1>1, <1>2, WaitsOn DEF Core
<1> QED
  BY <1>2, <1>3 DEF Good

\* What a death leaves is the same with the result of its recovery hit.
LEMMA ReplacedFacts ==
    ASSUME NEW r \in Runtimes
    PROVE  Neutral(Replaced(r), r)
<1> DEFINE l == r.landed /\ ~(r.owed /\ r.responsive /\ (r.downSeen => r.ignore = 0))
           x == [r EXCEPT !.landed = l]
<1>1. Replaced(r) = x
  BY DEF Replaced
<1>2. l \in BOOLEAN
  OBVIOUS
<1> HIDE DEF l
<1>3. x \in Runtimes
  BY <1>2 DEF Runtimes
<1>4. /\ x.seq = r.seq /\ x.now = r.now /\ x.alive = r.alive /\ x.lives = r.lives
      /\ x.cooldown = r.cooldown /\ x.owed = r.owed /\ x.nested = r.nested
      /\ x.overload = r.overload /\ x.multi = r.multi
      /\ x.responsive = r.responsive /\ x.lock = r.lock
      /\ x.midspin = r.midspin /\ x.infinite = r.infinite
  BY DEF Runtimes
<1> QED
  BY <1>1, <1>3, <1>4 DEF Neutral, Alike, SameBar

LEMMA DeathFacts ==
    ASSUME NEW r, NEW b \in Runtimes, Core(r, b), NEW overload \in BOOLEAN
    PROVE  LET x == Replaced(Die(r, overload))
           IN  /\ Core(x, b) /\ SameBar(x, r) /\ GoesOn(x, r)
               /\ x.alive => Spared(x)
               /\ overload /\ ~r.owed => ~x.owed
<1> DEFINE d == Die(r, overload)
           x == Replaced(d)
<1>1. /\ Core(d, b) /\ SameBar(d, r) /\ GoesOn(d, r)
      /\ d.alive => Spared(d)
      /\ overload /\ ~r.owed => ~d.owed
  BY DieFacts
<1> HIDE DEF d
<1>2. Neutral(x, d)
  BY <1>1, ReplacedFacts DEF Core
<1> HIDE DEF x
<1>3. Core(x, b) /\ GoesOn(x, d) /\ SameBar(x, d)
  BY <1>1, <1>2, NeutralKeeps
<1>4. x.alive = d.alive /\ x.owed = d.owed
  BY <1>2 DEF Neutral, Alike
<1>5. SameBar(x, r)
  BY <1>1, <1>3 DEF SameBar
<1>6. /\ d.lives \in Int /\ x.lives \in Int /\ r.lives \in Int
      /\ d.lives <= r.lives /\ x.lives <= d.lives
  BY <1>1, <1>3, Counts DEF Core, GoesOn
<1>7. GoesOn(x, r)
  BY <1>1, <1>3, <1>6 DEF GoesOn
<1> QED
  BY <1>1, <1>3, <1>4, <1>5, <1>7, SparedStays DEF x, d

-----------------------------------------------------------------------------
(* Damage.                                                                 *)

LEMMA OnDamageFacts ==
    ASSUME NEW r, NEW b \in Runtimes, Core(r, b), ~r.owed,
           NEW multipress \in BOOLEAN, NEW apply \in BOOLEAN, NEW skip \in BOOLEAN, NEW margin
    PROVE  LET x == OnDamage(r, multipress, apply, skip, margin)
           IN  /\ Core(x, b) /\ GoesOn(x, r)
               /\ x.owed => PureExpo
               /\ x.alive /\ FailBarOver(x) => Spared(x) \/ FailBarOver(r)
<1> DEFINE p == IF multipress /\ ~apply THEN [r EXCEPT !.consec = @ + 1] ELSE r
           q == [p EXCEPT !.consec = 4]
           s == IF p.consec > 8 THEN Die(q, TRUE) ELSE p
           h == IF multipress THEN [s EXCEPT !.multi = @ + 7 * Beat, !.since = 0]
                              ELSE [s EXCEPT !.overload = @ + 10 * Beat]
           w == IF FailBarOver(h) THEN Die(h, TRUE) ELSE h
           c == IF (multipress /\ ~apply) \/ skip THEN s ELSE w
           x == IF PureOnlyFails(margin) THEN Die(c, FALSE) ELSE c
<1>1. OnDamage(r, multipress, apply, skip, margin) = x
  BY DEF OnDamage, FailBarDamage
<1>2. r \in Runtimes /\ Beat \in Nat
  BY JudgementAssumption DEF Core
<1>3. Neutral(p, r)
  <2>1. r.consec + 1 \in Nat
    BY <1>2, Counts
  <2>2. [r EXCEPT !.consec = @ + 1] \in Runtimes
    BY <1>2, <2>1 DEF Runtimes
  <2>3. p \in Runtimes
    BY <1>2, <2>2
  <2> QED
    BY <1>2, <2>3 DEF Neutral, Alike, Runtimes, SameBar
<1> HIDE DEF p
<1>4. Core(p, b) /\ GoesOn(p, r) /\ SameBar(p, r) /\ ~p.owed
  BY <1>3, NeutralKeeps DEF Neutral, Alike
<1>5. p \in Runtimes
  BY <1>3 DEF Neutral, Alike
<1>6. Neutral(q, p)
  <2>1. q \in Runtimes
    BY <1>5 DEF Runtimes
  <2> QED
    BY <1>5, <2>1 DEF Neutral, Alike, Runtimes, SameBar
<1> HIDE DEF q
<1>7. Core(q, b) /\ GoesOn(q, p) /\ SameBar(q, p) /\ ~q.owed
  BY <1>4, <1>6, NeutralKeeps DEF Neutral, Alike
<1>8. Core(s, b) /\ GoesOn(s, r) /\ SameBar(s, r) /\ ~s.owed
  <2>1. TRUE \in BOOLEAN
    OBVIOUS
  <2>2. /\ Core(Die(q, TRUE), b) /\ SameBar(Die(q, TRUE), q) /\ GoesOn(Die(q, TRUE), q)
        /\ ~Die(q, TRUE).owed
    BY <1>7, <2>1, DieFacts
  <2>3. p \in Runtimes /\ q \in Runtimes /\ Die(q, TRUE) \in Runtimes
    BY <1>4, <1>7, <2>2 DEF Core
  <2>4. GoesOn(Die(q, TRUE), r) /\ SameBar(Die(q, TRUE), r)
    BY <1>2, <1>4, <1>7, <2>2, <2>3, GoesOnOn DEF SameBar
  <2> QED
    BY <1>4, <2>2, <2>4
<1> HIDE DEF s
<1>9. Core(h, b) /\ GoesOn(h, s) /\ ~h.owed
  <2>1. s \in Runtimes /\ s.lives \in Nat /\ Paid(s, b) /\ Purse(s) /\ (s.nested => PureExpo)
    BY <1>8, Counts DEF Core
  <2>2. s.multi + 7 * Beat \in Nat /\ s.overload + 10 * Beat \in Nat
    BY <1>2, <2>1, Counts
  <2> DEFINE m == s.multi + 7 * Beat
             o == s.overload + 10 * Beat
             k == [s EXCEPT !.multi = m]
  <2>3. h = IF multipress THEN [s EXCEPT !.multi = m, !.since = 0] ELSE [s EXCEPT !.overload = o]
    OBVIOUS
  <2> HIDE DEF m, o, h
  <2>4. [s EXCEPT !.overload = o] \in Runtimes
    BY <2>1, <2>2 DEF Runtimes, o
  <2>5. k \in Runtimes
    BY <2>1, <2>2 DEF Runtimes, m
  <2> HIDE DEF k
  <2>6. [k EXCEPT !.since = 0] \in Runtimes
    BY <2>5 DEF Runtimes
  <2>7. h \in Runtimes
    BY <2>3, <2>4, <2>6 DEF k
  <2>8. /\ h.seq = s.seq /\ h.now = s.now /\ h.alive = s.alive /\ h.lives = s.lives
        /\ h.cooldown = s.cooldown /\ h.owed = s.owed /\ h.nested = s.nested
        /\ h.responsive = s.responsive /\ h.lock = s.lock
        /\ h.midspin = s.midspin /\ h.infinite = s.infinite
    BY <2>1, <2>3 DEF Runtimes
  <2>9. GoesOn(h, s) /\ Paid(h, b) /\ Purse(h)
    BY <2>1, <2>8 DEF Paid, GoesOn, Purse
  <2> QED
    BY <1>8, <2>1, <2>7, <2>8, <2>9, GoesOnKeeps
<1> HIDE DEF h
<1>10. /\ Core(w, b) /\ GoesOn(w, h) /\ ~w.owed
       /\ w.alive /\ FailBarOver(w) => Spared(w)
  <2>1. TRUE \in BOOLEAN
    OBVIOUS
  <2>2. /\ Core(Die(h, TRUE), b) /\ GoesOn(Die(h, TRUE), h) /\ ~Die(h, TRUE).owed
        /\ Die(h, TRUE).alive => Spared(Die(h, TRUE))
    BY <1>9, <2>1, DieFacts
  <2>3. GoesOn(h, h)
    BY <1>9, GoesOnItself DEF Core
  <2> QED
    BY <1>9, <2>2, <2>3
<1> HIDE DEF w
<1>11. /\ Core(c, b) /\ GoesOn(c, r) /\ ~c.owed
       /\ c.alive /\ FailBarOver(c) => Spared(c) \/ FailBarOver(r)
  <2>1. FailBarOver(s) <=> FailBarOver(r)
    BY <1>8, SameBarOver DEF GoesOn
  <2>2. s \in Runtimes /\ h \in Runtimes /\ w \in Runtimes
    BY <1>8, <1>9, <1>10 DEF Core
  <2>3. GoesOn(w, r)
    BY <1>2, <1>8, <1>9, <1>10, <2>2, GoesOnOn
  <2> QED
    BY <1>8, <1>10, <2>1, <2>3
<1> HIDE DEF c
<1>12. /\ Core(Die(c, FALSE), b) /\ GoesOn(Die(c, FALSE), c)
       /\ Die(c, FALSE).alive => Spared(Die(c, FALSE))
       /\ Die(c, FALSE).owed => cfg.noFail \/ cfg.limit = "NONE" \/ Expo
  <2>1. FALSE \in BOOLEAN
    OBVIOUS
  <2> QED
    BY <1>11, <2>1, DieFacts
<1>13. PureOnlyFails(margin) => cfg.limit = "PURE_PERFECT_ONLY" /\ ~cfg.noFail
  BY DEF PureOnlyFails
<1>14. /\ Core(x, b) /\ GoesOn(x, r)
       /\ x.owed => PureExpo
       /\ x.alive /\ FailBarOver(x) => Spared(x) \/ FailBarOver(r)
  <2>1. c \in Runtimes /\ Die(c, FALSE) \in Runtimes
    BY <1>11, <1>12 DEF Core
  <2>2. GoesOn(Die(c, FALSE), r)
    BY <1>2, <1>11, <1>12, <2>1, GoesOnOn
  <2> QED
    BY <1>11, <1>12, <1>13, <2>2 DEF PureExpo
<1> QED
  BY <1>1, <1>14

-----------------------------------------------------------------------------
(* The next tile.                                                          *)

\* Nobody pressed too late for the tile t: the player was helped, the tile can
\* be reached without a press, or the press was in time.
Justified(r, t) ==
    \/ Helped(r)
    \/ ~Pressed(t)
    \/ r.seq = t - 1 /\ r.responsive /\ Late(r) <= CountedAt

\* Where a hit may land: on the next tile with a bar that spares the player
\* here, or once more on the tile a recovery hit has reached.
Landing(r, t) ==
    /\ t \in 1..Last
    /\ \/ r.seq = t - 1 /\ Strict(r)
       \/ r.seq = t /\ Barred(r)
    /\ Justified(r, t)

\* x is r on the tile t.
Moved(x, r, t) ==
    /\ x \in Runtimes
    /\ x.seq = t /\ x.now = r.now /\ x.alive = r.alive /\ x.lives = r.lives
    /\ x.cooldown = r.cooldown /\ x.owed = r.owed /\ x.nested = r.nested
    /\ x.infinite = r.infinite
    /\ x.responsive = (r.responsive /\ ~At(t).portal /\ LockTime(t) = 0)
    /\ x.lock = IF LockTime(t) > 0 THEN LockTime(t) ELSE r.lock
    /\ SameBar(x, r)

\* A pause that locks leaves time for the next tile.
LEMMA LockTimeFacts ==
    ASSUME Ground, NEW i \in 0..Last
    PROVE  /\ LockTime(i) \in Nat
           /\ LockTime(i) > 0 => LockTime(i) < At(i).gap
<1>1. At(i).pause \in Nat /\ Beat \in Nat \ {0} /\ At(i).gap \in Nat
  BY TileFacts, JudgementAssumption DEF Tile
<1>2. At(i).pause * Beat \in Nat /\ Beat \div 5 \in Nat
  BY <1>1
<1> DEFINE time == At(i).pause * Beat + Beat \div 5
<1>3. time \in Nat
  BY <1>2
<1>4. LockTime(i) = IF At(i).pause = 0 \/ i = Last \/ At(i).gap - time < 1 THEN 0 ELSE time
  BY DEF LockTime
<1> HIDE DEF time
<1> QED
  BY <1>1, <1>3, <1>4

LEMMA MoveFacts ==
    ASSUME Ground, NEW r \in Runtimes, NEW t \in 0..Last
    PROVE  Moved(MoveToNextFloor(r, t), r, t)
<1> DEFINE lock == LockTime(t)
           e == r.responsive /\ ~At(t).portal /\ lock = 0
           k == IF lock > 0 THEN lock ELSE r.lock
           p == MultipressPenalty(t)
           f == r.pending > 0
           x == MoveToNextFloor(r, t)
           x1 == [r EXCEPT !.seq = t]
           x2 == [x1 EXCEPT !.responsive = e]
           x3 == [x2 EXCEPT !.lock = k]
           x4 == [x3 EXCEPT !.progress = 0]
           x5 == [x4 EXCEPT !.landed = TRUE]
           x6 == [x5 EXCEPT !.penalty = p]
           x7 == [x6 EXCEPT !.first = f]
<1>1. lock \in Nat /\ k \in Nat /\ p \in BOOLEAN /\ e \in BOOLEAN /\ f \in BOOLEAN
  BY LockTimeFacts, Counts DEF MultipressPenalty
<1>2. x = [r EXCEPT !.seq = t, !.responsive = e, !.lock = k, !.progress = 0, !.landed = TRUE,
                    !.penalty = p, !.first = f]
  BY DEF MoveToNextFloor
<1> HIDE DEF lock, e, k, p, f, x
<1>3. x1 \in Runtimes
  BY DEF Runtimes
<1>4. x = x7
  BY <1>2
<1> HIDE DEF x1
<1>5. x2 \in Runtimes
  BY <1>1, <1>3 DEF Runtimes
<1> HIDE DEF x2
<1>6. x3 \in Runtimes
  BY <1>1, <1>5 DEF Runtimes
<1> HIDE DEF x3
<1>7. x4 \in Runtimes
  BY <1>6 DEF Runtimes
<1> HIDE DEF x4
<1>8. x5 \in Runtimes
  BY <1>7 DEF Runtimes
<1> HIDE DEF x5
<1>9. x6 \in Runtimes
  BY <1>1, <1>8 DEF Runtimes
<1> HIDE DEF x6
<1>10. x7 \in Runtimes
  BY <1>1, <1>9 DEF Runtimes
<1> HIDE DEF x7
<1>11. /\ x.seq = t /\ x.now = r.now /\ x.alive = r.alive /\ x.lives = r.lives
       /\ x.cooldown = r.cooldown /\ x.owed = r.owed /\ x.nested = r.nested
       /\ x.infinite = r.infinite /\ x.responsive = e /\ x.lock = k
       /\ SameBar(x, r)
  BY <1>2 DEF Runtimes, SameBar
<1> QED
  BY <1>4, <1>10, <1>11 DEF Moved, x, e, k, lock

\* Who has landed is on a midspin only on a midspin tile.
LEMMA AfterLandingFacts ==
    ASSUME NEW r, NEW t, NEW q, Moved(q, r, t)
    PROVE  LET x == AfterLanding(q)
           IN  /\ Moved(x, r, t)
               /\ x.midspin => Here(x).mid
<1> DEFINE x == AfterLanding(q)
           p == q.pending + 1
           m == q.midPending + 1
           x1 == [q EXCEPT !.midspin = TRUE]
           x2 == [x1 EXCEPT !.pending = p]
           x3 == [x2 EXCEPT !.midPending = m]
           y == [q EXCEPT !.midspin = FALSE]
<1>1. q \in Runtimes
  BY DEF Moved
<1>2. p \in Nat /\ m \in Nat
  BY <1>1, Counts
<1>3. x = IF Here(q).mid THEN [q EXCEPT !.midspin = TRUE, !.pending = p, !.midPending = m]
                         ELSE y
  BY DEF AfterLanding
<1> HIDE DEF x, p, m
<1>4. x = IF Here(q).mid THEN x3 ELSE y
  BY <1>3
<1>5. y \in Runtimes /\ x1 \in Runtimes
  BY <1>1 DEF Runtimes
<1> HIDE DEF x1
<1>6. x2 \in Runtimes
  BY <1>2, <1>5 DEF Runtimes
<1> HIDE DEF x2
<1>7. x3 \in Runtimes
  BY <1>2, <1>6 DEF Runtimes
<1>8. x \in Runtimes
  BY <1>4, <1>5, <1>7
<1>9. /\ x.seq = q.seq /\ x.now = q.now /\ x.alive = q.alive /\ x.lives = q.lives
      /\ x.cooldown = q.cooldown /\ x.owed = q.owed /\ x.nested = q.nested
      /\ x.overload = q.overload /\ x.multi = q.multi /\ x.infinite = q.infinite
      /\ x.responsive = q.responsive /\ x.lock = q.lock
      /\ x.midspin => Here(q).mid
  BY <1>1, <1>3 DEF Runtimes
<1>10. x.midspin => Here(x).mid
  BY <1>9 DEF Here
<1>11. Moved(x, r, t)
  BY <1>8, <1>9 DEF Moved, SameBar
<1> QED
  BY <1>10, <1>11 DEF x

\* A bar that is over is over on the tiles before, too.
LEMMA BarOverBefore ==
    ASSUME Ground, NEW r \in Runtimes, NEW x \in Runtimes, SameBar(x, r), r.seq <= x.seq,
           FailBarOver(x)
    PROVE  FailBarOver(r)
<1>1. r.seq \in Int /\ x.seq \in Int /\ Last \in Nat
  BY TileFacts, Counts
<1>2. 25 * (r.seq + 1) <= 25 * (x.seq + 1)
  BY <1>1
<1>3. 25 * (r.seq + 1) \in Int /\ 25 * (x.seq + 1) \in Int /\ 24 * (Last + 1) \in Int
  BY <1>1
<1> DEFINE i == 25 * (r.seq + 1)
           j == 25 * (x.seq + 1)
           k == 24 * (Last + 1)
<1>4. /\ FailBarOver(x) <=> (x.overload > 20 * Beat \/ x.multi > 20 * Beat) /\ ~(cfg.official /\ j >= k)
      /\ FailBarOver(r) <=> (r.overload > 20 * Beat \/ r.multi > 20 * Beat) /\ ~(cfg.official /\ i >= k)
  BY DEF FailBarOver
<1> HIDE DEF i, j, k
<1>5. i >= k => j >= k
  BY <1>2, <1>3 DEF i, j, k
<1> QED
  BY <1>4, <1>5 DEF SameBar

\* A pause that was reached in time ends before the next tile is missed.
LEMMA EnteredInTime ==
    ASSUME Ground, NEW r \in Runtimes, NEW t \in 1..Last, r.seq = t - 1,
           r.responsive, Late(r) <= CountedAt, NEW x, Moved(x, r, t), ~x.responsive
    PROVE  Entered(x)
<1>1. x \in Runtimes /\ Last \in Nat /\ r.now \in Nat /\ CountedAt \in Nat
  BY DueType, Counts, JudgementAssumption DEF Moved
<1>2. t \in 1..Len(chart) /\ t + 1 \in 1..Len(chart) /\ t \in 0..Last
      /\ t \in 0..Last + 1 /\ t + 1 \in 0..Last + 1 /\ (t + 1) - 1 = t /\ r.seq + 1 = t
  BY <1>1, DueType
<1>3. Due[t + 1] = Due[t] + At(t).gap /\ Due[t] \in Nat /\ At(t).gap \in Nat
  BY <1>2, DueUnfolds, DueType, TileFacts DEF Tile
<1>4. Late(r) = r.now - Due[t] /\ Late(x) = r.now - Due[t + 1]
  BY <1>2 DEF Late, Moved
<1>5. LockTime(t) \in Nat /\ (LockTime(t) > 0 => LockTime(t) < At(t).gap)
  BY <1>2, LockTimeFacts
<1>6. SUFFICES ASSUME ~Here(x).portal PROVE x.lock > 0 /\ Late(x) + x.lock < CountedAt
  BY DEF Entered
<1>7. LockTime(t) > 0 /\ x.lock = LockTime(t)
  <2>1. x.seq = t /\ ~At(t).portal
    BY <1>6 DEF Moved, Here
  <2>2. LockTime(t) # 0
    BY <2>1, Zenon DEF Moved
  <2>3. x.lock = IF LockTime(t) > 0 THEN LockTime(t) ELSE r.lock
    BY DEF Moved
  <2> QED
    BY <1>5, <2>2, <2>3
<1> QED
  BY <1>1, <1>3, <1>4, <1>5, <1>7

LEMMA MovedFacts ==
    ASSUME Ground, NEW r, NEW b \in Runtimes, Core(r, b), ~r.owed, NEW t, Landing(r, t),
           NEW x, Moved(x, r, t), x.midspin => Here(x).mid
    PROVE  /\ Good(x, b)
           /\ x.seq = r.seq /\ Strict(r) => Strict(x)
<1>1. r \in Runtimes /\ x \in Runtimes /\ t \in 1..Last /\ r.seq \in 0..Last /\ Last \in Nat
      /\ b.seq \in 0..Last
  BY TileFacts, Counts DEF Core, Moved, Landing
<1>2. /\ x.seq = t /\ x.now = r.now /\ x.alive = r.alive /\ x.lives = r.lives
      /\ x.cooldown = r.cooldown /\ x.owed = r.owed /\ x.nested = r.nested
      /\ x.infinite = r.infinite /\ SameBar(x, r)
  BY DEF Moved
<1>3. r.seq <= x.seq /\ x.lives <= r.lives /\ b.seq <= x.seq
  <2>1. r.seq \in {t - 1, t} /\ b.seq <= r.seq /\ r.lives \in Nat
    BY <1>1, Counts DEF Landing, Core
  <2> QED
    BY <1>1, <1>2, <2>1
<1>4. Purse(r) /\ Purse(x) /\ (Helped(r) => Helped(x))
  BY <1>1, <1>2, <1>3, HelpStays DEF Core, Purse
<1>5. Core(x, b) /\ ~x.owed
  BY <1>1, <1>2, <1>3, <1>4 DEF Core, Paid
<1>6. Waits(x, b)
  <2> SUFFICES ASSUME ~x.responsive PROVE Entered(x)
    BY DEF Waits
  <2>1. CASE Helped(r)
    BY <1>4, <2>1 DEF Entered
  <2>2. CASE ~Pressed(t)
    BY <1>2, <2>2 DEF Entered
  <2>3. CASE r.seq = t - 1 /\ r.responsive /\ Late(r) <= CountedAt
    BY <1>1, <2>3, EnteredInTime
  <2> QED
    BY <2>1, <2>2, <2>3 DEF Landing, Justified
<1>7. CASE r.seq = t
  <2>1. Barred(r)
    BY <1>1, <1>7 DEF Landing
  <2>2. Barred(x) /\ (Strict(r) => Strict(x))
    BY <1>2, <1>7, <2>1, BarHere
  <2> QED
    BY <1>5, <1>6, <2>2 DEF Good, Quiet
<1>8. CASE r.seq = t - 1 /\ Strict(r)
  <2>1. x.seq # r.seq /\ x.seq > 0 /\ x.seq - 1 = r.seq /\ r.seq < Last /\ r.seq + 1 = t
    BY <1>1, <1>2, <1>8
  <2>2. ASSUME x.alive, FailBarOver(x)
        PROVE  Spared(x) \/ SafeAt(x.seq - 1) \/ (Here(x).auto /\ ~cfg.oldAuto)
    <3>1. Spared(r)
      BY <1>1, <1>2, <1>3, <1>8, <2>2, BarOverBefore DEF Strict
    <3>2. AutoPath(r) => AutoPath(x) \/ Here(x).auto
      BY <1>2, <2>1 DEF AutoPath, NextIsAuto, HasNext, Here
    <3> QED
      BY <1>2, <2>1, <3>1, <3>2 DEF Spared
  <2>3. Barred(x)
    BY <2>1, <2>2 DEF Barred
  <2> QED
    BY <1>5, <1>6, <2>1, <2>3 DEF Good, Quiet
<1> QED
  BY <1>7, <1>8 DEF Landing

LEMMA LandFacts ==
    ASSUME Ground, NEW r, NEW b \in Runtimes, Core(r, b), ~r.owed, Waits(r, b),
           NEW t, Landing(r, t)
    PROVE  LET x == Land(r, t)
           IN  /\ Good(x, b)
               /\ x.seq \in {r.seq, t}
               /\ x.seq = r.seq /\ Strict(r) => Strict(x)
<1> DEFINE x == Land(r, t)
           o == r.over - 1
           n == r.taps + 1
           z == [r EXCEPT !.taps = 0]
           m == MoveToNextFloor(z, t)
<1>1. r \in Runtimes /\ t \in 0..Last /\ r.over \in Nat /\ r.taps \in Nat
  <2>1. r \in Runtimes /\ t \in 1..Last /\ Last \in Nat
    BY TileFacts DEF Core, Landing
  <2> QED
    BY <2>1, Counts
<1>2. Good(r, b)
  BY DEF Good, Quiet, Landing, Strict, Barred
<1>3. ASSUME NEW y, Neutral(y, r) PROVE Good(y, b) /\ y.seq = r.seq /\ (Strict(r) => Strict(y))
  BY <1>2, <1>3, NeutralKeeps, BarStays DEF Neutral, Alike
<1>4. CASE r.over > 0
  <2>1. x = [r EXCEPT !.over = o] /\ o \in Nat
    BY <1>1, <1>4 DEF Land
  <2> HIDE DEF x, o
  <2>2. Neutral(x, r)
    BY <1>1, <2>1 DEF Neutral, Alike, SameBar, Runtimes
  <2> QED
    BY <1>3, <2>2 DEF x
<1>5. CASE ~(r.over > 0) /\ r.taps + 1 < At(t).taps /\ ~cfg.hitOnce
  <2>1. x = [r EXCEPT !.taps = n] /\ n \in Nat
    BY <1>1, <1>5 DEF Land
  <2> HIDE DEF x, n
  <2>2. Neutral(x, r)
    BY <1>1, <2>1 DEF Neutral, Alike, SameBar, Runtimes
  <2> QED
    BY <1>3, <2>2 DEF x
<1>6. CASE ~(r.over > 0) /\ ~(r.taps + 1 < At(t).taps /\ ~cfg.hitOnce)
  <2>1. x = AfterLanding(m)
    BY <1>6 DEF Land
  <2>2. Neutral(z, r) /\ z.infinite = r.infinite
    BY <1>1 DEF Neutral, Alike, SameBar, Runtimes
  <2> HIDE DEF x, z
  <2>3. z \in Runtimes /\ Moved(m, z, t)
    BY <1>1, <2>2, MoveFacts DEF Neutral, Alike
  <2>4. Moved(m, r, t)
    BY <2>2, <2>3 DEF Moved, Neutral, Alike, SameBar
  <2> HIDE DEF m
  <2>5. Moved(x, r, t) /\ (x.midspin => Here(x).mid)
    BY <2>1, <2>4, AfterLandingFacts
  <2>6. x.seq = t
    BY <2>5 DEF Moved
  <2> QED
    BY <2>5, <2>6, MovedFacts DEF x
<1> QED
  BY <1>4, <1>5, <1>6

-----------------------------------------------------------------------------
(* A hit.                                                                  *)

LEMMA DamageKeeps ==
    ASSUME NEW r, NEW b \in Runtimes, Core(r, b), ~r.owed,
           NEW multipress \in BOOLEAN, NEW apply \in BOOLEAN, NEW skip \in BOOLEAN, NEW margin
    PROVE  LET x == OnDamage(r, multipress, apply, skip, margin)
           IN  /\ Barred(r) => Barred(x)
               /\ Strict(r) => Strict(x)
<1> DEFINE x == OnDamage(r, multipress, apply, skip, margin)
<1>1. GoesOn(x, r) /\ (x.alive /\ FailBarOver(x) => Spared(x) \/ FailBarOver(r))
  BY OnDamageFacts
<1> HIDE DEF x
<1>2. Spared(r) => Spared(x)
  BY <1>1, SparedStays
<1>3. x.seq = r.seq /\ (x.alive => r.alive)
  BY <1>1 DEF GoesOn
<1>4. (Barred(r) => Barred(x)) /\ (Strict(r) => Strict(x))
  BY <1>1, <1>2, <1>3 DEF Barred, Strict, Here
<1> QED
  BY <1>4 DEF x

Shape(s) ==
    \/ s = [end |-> s.end, rt |-> s.rt]
    \/ s = [end |-> s.end, target |-> s.target, rt |-> s.rt]

Hits(s) == s.end \in {"taken", "punished"}

\* What Strike may say of r.
Struck(s, r, b) ==
    /\ Shape(s) /\ s.end \in {"none", "missed", "taken", "punished"}
    /\ Core(s.rt, b) /\ GoesOn(s.rt, r) /\ Barred(s.rt)
    /\ s.rt.owed => PureExpo
    /\ Strict(r) => Strict(s.rt)
    /\ Hits(s) => /\ s.target = r.seq + 1 /\ s.target \in 1..Last
                  /\ Strict(s.rt) /\ Justified(s.rt, s.target)

\* The key, or the automatic hit, does not take a player on for nothing: where
\* the new auto plays, no press leads to the next tile.
Open(r) == cfg.oldAuto \/ cfg.autoPlayer \/ ~Unaided(r.seq + 1)

LEMMA OpenStays ==
    ASSUME NEW r \in Runtimes, NEW x \in Runtimes, r.seq <= x.seq, Open(r)
    PROVE  Open(x)
<1>1. r.seq \in Nat /\ x.seq \in Nat
  BY Counts
<1>2. \A j \in 0..r.seq + 1 : j \in 0..x.seq + 1
  BY <1>1
<1>3. ~Unaided(r.seq + 1) => ~Unaided(x.seq + 1)
  BY <1>2 DEF Unaided
<1> QED
  BY <1>3 DEF Open

\* Where the way on is automatic, the automatic hit is open.
LEMMA AutoIsOpen ==
    ASSUME NEW r \in Runtimes, AutoPath(r) \/ Here(r).auto
    PROVE  Open(r)
<1>1. r.seq \in 0..r.seq + 1 /\ r.seq + 1 \in 0..r.seq + 1
  BY Counts
<1>2. ~cfg.oldAuto /\ (Here(r).auto \/ At(r.seq + 1).auto) => ~Unaided(r.seq + 1)
  BY <1>1 DEF Unaided, Here
<1> QED
  BY <1>2 DEF Open, AutoPath, NextIsAuto

\* What justifies a hit stays as the player goes on.
LEMMA JustifiedStays ==
    ASSUME NEW r \in Runtimes, NEW x \in Runtimes, Purse(r), GoesOn(x, r),
           NEW t, Justified(r, t)
    PROVE  Justified(x, t)
<1>1. /\ x.seq = r.seq /\ x.now = r.now /\ x.lives <= r.lives
      /\ x.responsive = r.responsive
  BY DEF GoesOn
<1>2. r.seq <= x.seq
  BY <1>1, Counts
<1>3. Helped(r) => Helped(x)
  BY <1>1, <1>2, HelpStays
<1> QED
  BY <1>1, <1>3 DEF Justified, Late

\* A hit that is valid is not late.
LEMMA ValidIsInTime ==
    ASSUME NEW late \in Int, NEW limit, IsValidHit(HitMargin(late, CountedAt, PerfectAt, PureAt), limit)
    PROVE  late <= CountedAt
<1> SUFFICES ASSUME late > CountedAt PROVE FALSE
  BY JudgementAssumption
<1>1. HitMargin(late, CountedAt, PerfectAt, PureAt) = "TOO_LATE"
  BY DEF HitMargin
<1>2. ~IsValidHit("TOO_LATE", limit)
  BY DEF IsValidHit
<1> QED
  BY <1>1, <1>2

\* Nothing but a press in time takes a player on who was never helped.
LEMMA TakenIsJustified ==
    ASSUME Ground, NEW r, NEW b, Core(r, b), r.responsive, NEW auto \in BOOLEAN,
           auto => Open(r),
           \/ IsValidHit(Margin(r), cfg.limit)
           \/ (AutoPath(r) \/ auto) /\ ~cfg.oldAuto
           \/ r.midspin
           \/ r.infinite
    PROVE  Justified(r, r.seq + 1)
<1>1. r \in Runtimes /\ r.seq \in Nat /\ (r.seq + 1) - 1 = r.seq
  BY TileFacts, Counts DEF Core
<1>2. CASE IsValidHit(Margin(r), cfg.limit)
  <2>1. Late(r) \in Int
    BY <1>1, LateFalls
  <2>2. Late(r) <= CountedAt
    BY <1>2, <2>1, ValidIsInTime DEF Margin
  <2> QED
    BY <1>1, <2>2 DEF Justified
<1>3. CASE (AutoPath(r) \/ auto) /\ ~cfg.oldAuto
  <2>1. Open(r)
    BY <1>1, <1>3, AutoIsOpen
  <2>2. ~Pressed(r.seq + 1)
    BY <1>3, <2>1 DEF Open, Pressed
  <2> QED
    BY <2>2 DEF Justified
<1>4. CASE r.midspin
  <2>1. At((r.seq + 1) - 1).mid
    BY <1>1, <1>4 DEF Core, Here
  <2>2. ~Pressed(r.seq + 1)
    BY <2>1 DEF Pressed
  <2> QED
    BY <2>2 DEF Justified
<1>5. CASE r.infinite
  BY <1>5 DEF Core, Justified
<1> QED
  BY <1>2, <1>3, <1>4, <1>5

LEMMA GateDownFacts ==
    ASSUME NEW r \in Runtimes, NEW in, in.ignore \in Nat
    PROVE  Neutral(GateDown(r, in), r)
<1> DEFINE x == GateDown(r, in)
           i == in.ignore
           y == [r EXCEPT !.downSeen = TRUE]
           z == [y EXCEPT !.ignore = i]
<1>1. x = IF r.downSeen THEN r ELSE [r EXCEPT !.downSeen = TRUE, !.ignore = i]
  BY DEF GateDown
<1> HIDE DEF x, i
<1>2. x = IF r.downSeen THEN r ELSE z
  BY <1>1
<1>3. y \in Runtimes
  BY DEF Runtimes
<1> HIDE DEF y
<1>4. z \in Runtimes
  BY <1>3 DEF Runtimes, i
<1>5. x \in Runtimes
  BY <1>2, <1>4
<1>6. /\ x.seq = r.seq /\ x.now = r.now /\ x.alive = r.alive /\ x.lives = r.lives
      /\ x.cooldown = r.cooldown /\ x.owed = r.owed /\ x.nested = r.nested
      /\ x.overload = r.overload /\ x.multi = r.multi
      /\ x.responsive = r.responsive /\ x.lock = r.lock
      /\ x.midspin = r.midspin /\ x.infinite = r.infinite
  BY <1>1 DEF Runtimes
<1> QED
  BY <1>5, <1>6 DEF Neutral, Alike, SameBar, x

LEMMA GateUpFacts ==
    ASSUME NEW r \in Runtimes, NEW in, in.upIgnore \in Nat
    PROVE  Neutral(GateUp(r, in), r)
<1> DEFINE x == GateUp(r, in)
           i == r.ignore + in.upIgnore
           y == [r EXCEPT !.upSeen = TRUE]
           z == [y EXCEPT !.ignore = i]
<1>1. x = IF r.upSeen THEN r ELSE [r EXCEPT !.upSeen = TRUE, !.ignore = i]
  BY DEF GateUp
<1>2. i \in Nat
  BY Counts
<1> HIDE DEF x, i
<1>3. x = IF r.upSeen THEN r ELSE z
  BY <1>1
<1>4. y \in Runtimes
  BY DEF Runtimes
<1> HIDE DEF y
<1>5. z \in Runtimes
  BY <1>2, <1>4 DEF Runtimes
<1>6. x \in Runtimes
  BY <1>3, <1>5
<1>7. /\ x.seq = r.seq /\ x.now = r.now /\ x.alive = r.alive /\ x.lives = r.lives
      /\ x.cooldown = r.cooldown /\ x.owed = r.owed /\ x.nested = r.nested
      /\ x.overload = r.overload /\ x.multi = r.multi
      /\ x.responsive = r.responsive /\ x.lock = r.lock
      /\ x.midspin = r.midspin /\ x.infinite = r.infinite
  BY <1>1 DEF Runtimes
<1> QED
  BY <1>6, <1>7 DEF Neutral, Alike, SameBar, x

LEMMA StrikeTileFacts ==
    ASSUME Ground, NEW r, NEW b \in Runtimes, Core(r, b), ~r.owed, Barred(r), HasNext(r),
           ~FailBarOver(r) \/ cfg.noFail, Justified(r, r.seq + 1), NEW margin
    PROVE  Struck(StrikeTile(r, margin), r, b)
<1> DEFINE s == StrikeTile(r, margin)
           d == OnDamage(r, TRUE, Here(r).turn = "wide", FALSE, margin)
<1>1. r \in Runtimes /\ r.seq \in 0..Last /\ Last \in Nat
  BY TileFacts, Counts DEF Core
<1>2. r.seq + 1 \in 1..Last
  BY <1>1 DEF HasNext
<1>3. Strict(r)
  BY DEF Strict, Spared
<1>4. CASE r.first /\ r.penalty /\ ~r.midspin
  <2>1. s = [end |-> "punished", target |-> r.seq + 1, rt |-> d]
    BY <1>4 DEF StrikeTile
  <2>2. TRUE \in BOOLEAN /\ (Here(r).turn = "wide") \in BOOLEAN /\ FALSE \in BOOLEAN
    OBVIOUS
  <2>3. Core(d, b) /\ GoesOn(d, r) /\ (d.owed => PureExpo)
    BY <2>2, OnDamageFacts
  <2>4. Barred(d) /\ Strict(d)
    BY <1>3, <2>2, DamageKeeps
  <2> HIDE DEF d, s
  <2>5. s.end = "punished" /\ s.target = r.seq + 1 /\ s.rt = d /\ Shape(s)
    BY <2>1 DEF Shape
  <2>6. d \in Runtimes /\ Purse(r)
    BY <2>3 DEF Core
  <2>7. Justified(d, r.seq + 1)
    BY <1>1, <2>3, <2>6, JustifiedStays
  <2> QED
    BY <1>2, <2>3, <2>4, <2>5, <2>7 DEF Struck, Hits, s
<1>5. CASE ~(r.first /\ r.penalty /\ ~r.midspin)
  <2>1. s = [end |-> "taken", target |-> r.seq + 1, rt |-> r]
    BY <1>5 DEF StrikeTile
  <2> HIDE DEF s
  <2>2. s.end = "taken" /\ s.target = r.seq + 1 /\ s.rt = r /\ Shape(s)
    BY <2>1 DEF Shape
  <2> QED
    BY <1>1, <1>2, <1>3, <2>2, GoesOnItself DEF Struck, Hits, s
<1> QED
  BY <1>4, <1>5

LEMMA MissFacts ==
    ASSUME NEW r, NEW b \in Runtimes, Core(r, b), ~r.owed, Barred(r), NEW margin
    PROVE  Struck(Miss(r, margin), r, b)
<1> DEFINE s == Miss(r, margin)
           c == OnDamage(r, FALSE, FALSE, FALSE, "TOO_EARLY")
           d == OnDamage(r, FALSE, FALSE, margin = "TOO_LATE", margin)
<1>1. \/ s = [end |-> "none", rt |-> c]
      \/ s = [end |-> "none", rt |-> r]
      \/ s = [end |-> "missed", rt |-> d]
  BY DEF Miss
<1>2. TRUE \in BOOLEAN /\ FALSE \in BOOLEAN /\ (margin = "TOO_LATE") \in BOOLEAN
  OBVIOUS
<1>3. Core(c, b) /\ GoesOn(c, r) /\ (c.owed => PureExpo) /\ Barred(c) /\ (Strict(r) => Strict(c))
  BY <1>2, OnDamageFacts, DamageKeeps
<1>4. Core(d, b) /\ GoesOn(d, r) /\ (d.owed => PureExpo) /\ Barred(d) /\ (Strict(r) => Strict(d))
  BY <1>2, OnDamageFacts, DamageKeeps
<1>5. Core(r, b) /\ GoesOn(r, r) /\ (r.owed => PureExpo) /\ Barred(r)
  BY GoesOnItself DEF Core
<1> HIDE DEF s, c, d
<1>6. s.end \in {"none", "missed"} /\ Shape(s) /\ s.rt \in {c, r, d}
  BY <1>1 DEF Shape
<1> QED
  BY <1>3, <1>4, <1>5, <1>6 DEF Struck, Hits, s

LEMMA StrikeFacts ==
    ASSUME Ground, NEW r, NEW b \in Runtimes, Core(r, b), ~r.owed, Barred(r),
           NEW in, in.ignore \in Nat, NEW auto \in BOOLEAN, auto => Open(r)
    PROVE  Struck(Strike(r, in, auto), r, b)
<1> DEFINE s == Strike(r, in, auto)
           open == IF auto THEN r ELSE GateDown(r, in)
           margin == IF r.infinite THEN "FAIL_MISS" ELSE Margin(r)
           i == open.ignore - 1
           y == [open EXCEPT !.ignore = i]
<1>1. r \in Runtimes /\ Purse(r) /\ GoesOn(r, r)
  BY GoesOnItself DEF Core
<1>2. Neutral(open, r)
  <2>1. Neutral(r, r)
    BY <1>1 DEF Neutral, Alike, SameBar
  <2>2. Neutral(GateDown(r, in), r)
    BY <1>1, GateDownFacts
  <2> QED
    BY <2>1, <2>2
<1>3. \/ s = [end |-> "none", rt |-> r]
      \/ open.ignore > 0 /\ s = [end |-> "none", rt |-> y]
      \/ /\ HasNext(r) /\ (~FailBarOver(r) \/ cfg.noFail) /\ s = StrikeTile(open, margin)
         /\ r.responsive
         /\ \/ IsValidHit(Margin(r), cfg.limit)
            \/ (AutoPath(r) \/ auto) /\ ~cfg.oldAuto
            \/ r.midspin
            \/ r.infinite
      \/ s = Miss(open, margin)
  BY DEF Strike
<1> HIDE DEF s, open, margin
<1>4. /\ Core(open, b) /\ GoesOn(open, r) /\ SameBar(open, r) /\ ~open.owed /\ Barred(open)
      /\ Strict(r) => Strict(open)
  BY <1>2, NeutralKeeps, BarStays DEF Neutral, Alike
<1>5. open \in Runtimes
  BY <1>4 DEF Core
<1>6. CASE s = [end |-> "none", rt |-> r]
  <2>1. s.end = "none" /\ s.rt = r /\ Shape(s)
    BY <1>6 DEF Shape
  <2> QED
    BY <1>1, <2>1 DEF Struck, Hits, s
<1>7. CASE open.ignore > 0 /\ s = [end |-> "none", rt |-> y]
  <2>1. i \in Nat
    BY <1>5, <1>7, Counts
  <2> HIDE DEF i
  <2>2. Neutral(y, open)
    BY <1>5, <2>1 DEF Neutral, Alike, SameBar, Runtimes
  <2> HIDE DEF y
  <2>3. s.end = "none" /\ s.rt = y /\ Shape(s)
    BY <1>7 DEF Shape
  <2>4. /\ Core(y, b) /\ GoesOn(y, open) /\ SameBar(y, open) /\ ~y.owed /\ Barred(y)
        /\ Strict(open) => Strict(y)
    BY <1>4, <2>2, NeutralKeeps, BarStays DEF Neutral, Alike
  <2>5. GoesOn(y, r)
    BY <1>1, <1>4, <1>5, <2>4, GoesOnOn DEF Core
  <2> QED
    BY <1>4, <2>3, <2>4, <2>5 DEF Struck, Hits, s
<1>8. ASSUME Struck(s, open, b) PROVE Struck(s, r, b)
  <2>1. open.seq = r.seq
    BY <1>4 DEF GoesOn
  <2>2. s.rt \in Runtimes /\ GoesOn(s.rt, open)
    BY <1>8 DEF Struck, Core
  <2>3. GoesOn(s.rt, r)
    BY <1>1, <1>4, <1>5, <2>2, GoesOnOn
  <2> QED
    BY <1>4, <1>8, <2>1, <2>3 DEF Struck
<1>9. CASE /\ HasNext(r) /\ (~FailBarOver(r) \/ cfg.noFail) /\ s = StrikeTile(open, margin)
           /\ r.responsive
           /\ \/ IsValidHit(Margin(r), cfg.limit)
              \/ (AutoPath(r) \/ auto) /\ ~cfg.oldAuto
              \/ r.midspin
              \/ r.infinite
  <2>1. HasNext(open) /\ (~FailBarOver(open) \/ cfg.noFail) /\ open.seq = r.seq
    BY <1>4, <1>9, SameBarOver DEF HasNext, GoesOn
  <2>2. Justified(r, r.seq + 1)
    BY <1>9, TakenIsJustified
  <2>3. Justified(open, open.seq + 1)
    BY <1>1, <1>4, <1>5, <2>1, <2>2, JustifiedStays
  <2> QED
    BY <1>4, <1>8, <1>9, <2>1, <2>3, StrikeTileFacts DEF s
<1>10. CASE s = Miss(open, margin)
  BY <1>4, <1>8, <1>10, MissFacts DEF s
<1> QED
  BY <1>3, <1>6, <1>7, <1>9, <1>10

LEMMA ForgivenFacts ==
    ASSUME NEW r \in Runtimes
    PROVE  Neutral(Forgiven(r), r)
<1> DEFINE x == Forgiven(r)
           y == [r EXCEPT !.penalty = FALSE]
<1>1. x = [y EXCEPT !.first = FALSE]
  BY DEF Forgiven
<1>2. y \in Runtimes
  BY DEF Runtimes
<1>3. /\ y.seq = r.seq /\ y.now = r.now /\ y.alive = r.alive /\ y.lives = r.lives
      /\ y.cooldown = r.cooldown /\ y.owed = r.owed /\ y.nested = r.nested
      /\ y.overload = r.overload /\ y.multi = r.multi
      /\ y.responsive = r.responsive /\ y.lock = r.lock
      /\ y.midspin = r.midspin /\ y.infinite = r.infinite
  BY DEF Runtimes
<1> HIDE DEF x, y
<1>4. x \in Runtimes
  BY <1>1, <1>2 DEF Runtimes
<1>5. /\ x.seq = y.seq /\ x.now = y.now /\ x.alive = y.alive /\ x.lives = y.lives
      /\ x.cooldown = y.cooldown /\ x.owed = y.owed /\ x.nested = y.nested
      /\ x.overload = y.overload /\ x.multi = y.multi
      /\ x.responsive = y.responsive /\ x.lock = y.lock
      /\ x.midspin = y.midspin /\ x.infinite = y.infinite
  BY <1>1, <1>2 DEF Runtimes
<1> QED
  BY <1>3, <1>4, <1>5 DEF Neutral, Alike, SameBar, x

\* After its damage, and the recovery hit that it owed, a hit is finished.
LEMMA FinishFacts ==
    ASSUME Ground, NEW s, NEW b \in Runtimes, s.end \in {"none", "missed", "taken", "punished"},
           Good(s.rt, b), Hits(s) => Landing(s.rt, s.target)
    PROVE  LET x == Finish(s)
           IN  /\ Good(x, b)
               /\ x.seq = s.rt.seq \/ (Hits(s) /\ x.seq = s.target)
               /\ x.seq = s.rt.seq /\ Strict(s.rt) => Strict(x)
<1> DEFINE r == s.rt
           t == s.target
           f == Forgiven(r)
           x == Finish(s)
<1>1. r \in Runtimes /\ Core(r, b) /\ ~r.owed /\ Waits(r, b) /\ Purse(r)
  BY DEF Good, Quiet, Core
<1>2. Neutral(f, r)
  BY <1>1, ForgivenFacts
<1>3. Core(f, b) /\ GoesOn(f, r) /\ SameBar(f, r) /\ ~f.owed /\ Good(f, b)
  BY <1>1, <1>2, NeutralKeeps DEF Neutral, Alike
<1>4. (Strict(r) => Strict(f)) /\ f.seq = r.seq
  BY <1>3, BarStays DEF GoesOn
<1>5. CASE s.end = "none"
  <2>1. x = r
    BY <1>5 DEF Finish
  <2> QED
    BY <2>1
<1>6. CASE s.end = "missed"
  <2>1. x = f
    BY <1>6 DEF Finish
  <2> QED
    BY <1>3, <1>4, <2>1
<1>7. CASE s.end = "taken"
  <2>1. x = Land(r, t)
    BY <1>7 DEF Finish
  <2>2. Landing(r, t) /\ Hits(s)
    BY <1>7 DEF Hits
  <2>3. /\ Good(Land(r, t), b) /\ Land(r, t).seq \in {r.seq, t}
        /\ Land(r, t).seq = r.seq /\ Strict(r) => Strict(Land(r, t))
    BY <1>1, <2>2, LandFacts
  <2> QED
    BY <2>1, <2>2, <2>3
<1>8. CASE s.end = "punished"
  <2>1. x = Land(f, t)
    BY <1>8 DEF Finish
  <2>2. Landing(r, t) /\ Hits(s)
    BY <1>8 DEF Hits
  <2>3. f \in Runtimes /\ Waits(f, b) /\ Barred(f)
    BY <1>3 DEF Good, Quiet, Core
  <2>4. Justified(r, t) => Justified(f, t)
    BY <1>1, <1>3, <2>3, JustifiedStays
  <2>5. Landing(f, t)
    BY <1>4, <2>2, <2>3, <2>4 DEF Landing
  <2>6. /\ Good(Land(f, t), b) /\ Land(f, t).seq \in {f.seq, t}
        /\ Land(f, t).seq = f.seq /\ Strict(f) => Strict(Land(f, t))
    BY <1>3, <2>3, <2>5, LandFacts
  <2> QED
    BY <1>4, <2>1, <2>2, <2>6
<1> QED
  BY <1>5, <1>6, <1>7, <1>8

\* The record of a strike whose runtime is replaced.
LEMMA ShapeFacts ==
    ASSUME NEW s, Shape(s), NEW v
    PROVE  LET n == [s EXCEPT !.rt = v]
           IN  n.end = s.end /\ n.target = s.target /\ n.rt = v /\ (Hits(n) <=> Hits(s))
  BY DEF Shape, Hits

\* A runtime that a death has left, perhaps with a recovery hit to be made.
Fallen(r, b) == Core(r, b) /\ Barred(r) /\ Waits(r, b)

LEMMA NestedFacts ==
    ASSUME NEW r, NEW b, Fallen(r, b), r.owed => PureExpo
    PROVE  LET x == Nested(r)
           IN  /\ Good(x, b) /\ GoesOn(x, r) /\ SameBar(x, r)
               /\ Strict(r) => Strict(x)
<1> DEFINE x == Nested(r)
           n == r.nested \/ r.owed
           y == [r EXCEPT !.owed = FALSE]
<1>1. r \in Runtimes /\ Core(r, b) /\ Waits(r, b) /\ Purse(r) /\ Paid(r, b) /\ r.lives \in Nat
  BY Counts DEF Fallen, Core
<1>2. n \in BOOLEAN /\ (n => PureExpo)
  BY <1>1 DEF Core
<1>3. x = [r EXCEPT !.owed = FALSE, !.nested = n]
  BY DEF Nested
<1> HIDE DEF x, n
<1>4. x \in Runtimes
  <2>1. y \in Runtimes
    BY <1>1 DEF Runtimes
  <2> HIDE DEF y
  <2>2. [y EXCEPT !.nested = n] \in Runtimes
    BY <1>2, <2>1 DEF Runtimes
  <2> QED
    BY <1>3, <2>2 DEF y
<1>5. /\ x.seq = r.seq /\ x.now = r.now /\ x.alive = r.alive /\ x.lives = r.lives
      /\ x.cooldown = r.cooldown /\ x.owed = FALSE /\ x.nested = n
      /\ x.overload = r.overload /\ x.multi = r.multi
      /\ x.responsive = r.responsive /\ x.lock = r.lock
      /\ x.midspin = r.midspin /\ x.infinite = r.infinite
  BY <1>1, <1>3 DEF Runtimes
<1>6. GoesOn(x, r) /\ SameBar(x, r) /\ Paid(x, b) /\ Purse(x)
  BY <1>1, <1>5 DEF GoesOn, SameBar, Paid, Purse
<1>7. Core(x, b)
  BY <1>1, <1>2, <1>4, <1>5, <1>6, GoesOnKeeps
<1>8. Waits(x, b)
  BY <1>1, <1>4, <1>6, WaitsOn
<1> QED
  BY <1>5, <1>6, <1>7, <1>8, BarStays DEF Good, Quiet, Fallen, x

\* The recovery hit is made for a player who was helped.
LEMMA RecoveryHitFacts ==
    ASSUME Ground, NEW r, NEW b \in Runtimes, Fallen(r, b), r.owed
    PROVE  LET x == RecoveryHit(r)
           IN  /\ Good(x, b)
               /\ x.seq = r.seq \/ (x.seq = r.seq + 1 /\ r.seq < Last)
               /\ x.seq = r.seq /\ Strict(r) => Strict(x)
<1> DEFINE y == [r EXCEPT !.owed = FALSE]
           z == [y EXCEPT !.infinite = TRUE]
           q == [r EXCEPT !.owed = FALSE, !.infinite = TRUE]
           s == Strike(q, NoInput, FALSE)
           n == [s EXCEPT !.rt = Nested(s.rt)]
           f == Finish(n)
           g == [f EXCEPT !.infinite = FALSE]
<1>1. RecoveryHit(r) = g
  BY DEF RecoveryHit
<1>2. r \in Runtimes /\ r.seq \in 0..Last /\ Last \in Nat /\ Core(r, b) /\ Helped(r)
  BY TileFacts, Counts DEF Fallen, Core
<1>3. q \in Runtimes
  <2>1. y \in Runtimes
    BY <1>2 DEF Runtimes
  <2> HIDE DEF y
  <2>2. z \in Runtimes
    BY <2>1 DEF Runtimes
  <2> QED
    BY <2>2 DEF y
<1>4. /\ q.seq = r.seq /\ q.now = r.now /\ q.alive = r.alive /\ q.lives = r.lives
      /\ q.cooldown = r.cooldown /\ q.owed = FALSE /\ q.nested = r.nested
      /\ q.overload = r.overload /\ q.multi = r.multi
      /\ q.responsive = r.responsive /\ q.lock = r.lock /\ q.midspin = r.midspin
  BY <1>2 DEF Runtimes
<1> HIDE DEF q
<1>5. Core(q, b) /\ Waits(q, b)
  <2>1. Helped(q) /\ (Purse(r) => Purse(q)) /\ (Paid(r, b) => Paid(q, b)) /\ Here(q) = Here(r)
    BY <1>2, <1>4 DEF Helped, Purse, Paid, Here
  <2>2. Core(q, b)
    BY <1>2, <1>3, <1>4, <2>1 DEF Core
  <2>3. Entered(q)
    BY <2>1 DEF Entered
  <2> QED
    BY <2>2, <2>3 DEF Waits
<1>6. Barred(q) /\ (Strict(r) => Strict(q))
  BY <1>4, BarHere DEF Fallen, SameBar
<1>7. NoInput.ignore \in Nat /\ FALSE \in BOOLEAN
  BY DEF NoInput
<1>8. Struck(s, q, b)
  BY <1>4, <1>5, <1>6, <1>7, StrikeFacts
<1> HIDE DEF s
<1>9. s.rt \in Runtimes /\ Purse(s.rt) /\ Waits(s.rt, b)
  <2>1. s.rt \in Runtimes /\ Purse(s.rt) /\ GoesOn(s.rt, q) /\ Purse(q)
    BY <1>5, <1>8 DEF Struck, Core
  <2> QED
    BY <1>3, <1>5, <2>1, WaitsOn
<1>10. /\ Good(Nested(s.rt), b) /\ GoesOn(Nested(s.rt), s.rt) /\ SameBar(Nested(s.rt), s.rt)
       /\ Strict(s.rt) => Strict(Nested(s.rt))
  <2>1. Fallen(s.rt, b) /\ (s.rt.owed => PureExpo)
    BY <1>8, <1>9 DEF Struck, Fallen
  <2> QED
    BY <2>1, NestedFacts
<1>11. n.end = s.end /\ n.target = s.target /\ n.rt = Nested(s.rt) /\ (Hits(n) <=> Hits(s))
  BY <1>8, ShapeFacts DEF Struck
<1> HIDE DEF n
<1>12. n.rt.seq = r.seq /\ Good(n.rt, b) /\ (Strict(r) => Strict(n.rt)) /\ n.rt \in Runtimes
  BY <1>4, <1>6, <1>8, <1>10, <1>11 DEF Struck, GoesOn, Good, Quiet, Core
<1>13. Hits(n) => n.target = r.seq + 1 /\ Landing(n.rt, n.target)
  <2> SUFFICES ASSUME Hits(n) PROVE n.target = r.seq + 1 /\ Landing(n.rt, n.target)
    OBVIOUS
  <2>1. n.target = r.seq + 1 /\ n.target \in 1..Last /\ Strict(n.rt) /\ Justified(s.rt, n.target)
    BY <1>4, <1>8, <1>10, <1>11 DEF Struck
  <2>2. Justified(n.rt, n.target)
    BY <1>9, <1>10, <1>11, <1>12, <2>1, JustifiedStays
  <2>3. n.rt.seq = n.target - 1
    BY <1>2, <1>12, <2>1
  <2> QED
    BY <2>1, <2>2, <2>3 DEF Landing
<1>14. n.end \in {"none", "missed", "taken", "punished"}
  BY <1>8, <1>11 DEF Struck
<1>15. /\ Good(f, b)
       /\ f.seq = r.seq \/ (Hits(n) /\ f.seq = n.target)
       /\ f.seq = r.seq /\ Strict(r) => Strict(f)
  BY <1>12, <1>13, <1>14, FinishFacts
<1> HIDE DEF f
<1>16. Neutral(g, f)
  <2>1. f \in Runtimes
    BY <1>15 DEF Good, Quiet, Core
  <2> QED
    BY <2>1 DEF Neutral, Alike, SameBar, Runtimes
<1>17. Good(g, b) /\ GoesOn(g, f) /\ SameBar(g, f)
  BY <1>15, <1>16, NeutralKeeps DEF Good, Quiet
<1>18. /\ g.seq = r.seq \/ (g.seq = r.seq + 1 /\ r.seq < Last)
       /\ g.seq = r.seq /\ Strict(r) => Strict(g)
  <2>1. g.seq = f.seq /\ (Strict(f) => Strict(g))
    BY <1>17, BarStays DEF GoesOn
  <2>2. Hits(n) => r.seq + 1 \in 1..Last
    BY <1>4, <1>8, <1>11 DEF Struck
  <2> QED
    BY <1>2, <1>13, <1>15, <2>1, <2>2
<1> QED
  BY <1>1, <1>17, <1>18

\* A death that is spared has helped the player on.
LEMMA RecoveredFacts ==
    ASSUME Ground, NEW r, NEW b \in Runtimes, Fallen(r, b)
    PROVE  LET x == Recovered(r)
           IN  /\ Good(x, b)
               /\ x.seq = r.seq \/ (x.seq = r.seq + 1 /\ r.seq < Last)
               /\ x.seq = r.seq /\ Strict(r) => Strict(x)
               /\ x = r \/ Helped(x)
<1>1. CASE r.owed
  <2> DEFINE x == Recovered(r)
  <2>1. x = RecoveryHit(r)
    BY <1>1 DEF Recovered
  <2>2. r \in Runtimes /\ Purse(r) /\ Helped(r) /\ Core(r, r)
    BY <1>1, CoreItself DEF Fallen, Core
  <2>3. Fallen(r, r)
    BY <2>2 DEF Fallen, Waits
  <2> HIDE DEF x
  <2>4. Core(x, r)
    BY <1>1, <2>1, <2>2, <2>3, RecoveryHitFacts DEF Good, Quiet
  <2>5. x \in Runtimes /\ r.seq <= x.seq /\ x.lives <= r.lives
    <3>1. x \in Runtimes /\ r.seq <= x.seq /\ Paid(x, r)
      BY <2>4 DEF Core
    <3>2. r.lives \in Nat
      BY <2>2, Counts
    <3> QED
      BY <3>1, <3>2 DEF Paid
  <2>6. Helped(x)
    BY <2>2, <2>5, HelpStays
  <2> QED
    BY <1>1, <2>1, <2>6, RecoveryHitFacts DEF x
<1>2. CASE ~r.owed
  BY <1>2 DEF Recovered, Good, Quiet, Fallen
<1> QED
  BY <1>1, <1>2

LEMMA DieOrRecoverKeeps ==
    ASSUME Ground, NEW r, NEW b \in Runtimes, Good(r, b), NEW overload \in BOOLEAN
    PROVE  Good(DieOrRecover(r, overload), b)
<1> DEFINE x == Replaced(Die(r, overload))
<1>1. Core(x, b) /\ GoesOn(x, r) /\ SameBar(x, r)
  BY DeathFacts DEF Good, Quiet
<1> HIDE DEF x
<1>2. Waits(x, b)
  BY <1>1, WaitsOn DEF Good, Quiet, Core
<1>3. Fallen(x, b)
  BY <1>1, <1>2, BarStays DEF Good, Quiet, Fallen
<1> QED
  BY <1>3, RecoveredFacts DEF DieOrRecover, x

LEMMA HitKeeps ==
    ASSUME Ground, NEW r, NEW b \in Runtimes, Good(r, b),
           NEW in, in.ignore \in Nat, NEW auto \in BOOLEAN, auto => Open(r)
    PROVE  Good(Hit(r, in, auto), b)
<1> DEFINE s == Strike(r, in, auto)
           q == Recovered(s.rt)
           n == [s EXCEPT !.rt = q]
<1>1. Hit(r, in, auto) = Finish(n)
  BY DEF Hit
<1>2. Struck(s, r, b)
  BY StrikeFacts DEF Good, Quiet
<1> HIDE DEF s
<1>3. Fallen(s.rt, b) /\ s.rt.seq = r.seq
  <2>1. s.rt \in Runtimes /\ GoesOn(s.rt, r) /\ r \in Runtimes /\ Purse(r) /\ Waits(r, b)
    BY <1>2 DEF Struck, Core, Good, Quiet
  <2>2. Waits(s.rt, b)
    BY <2>1, WaitsOn
  <2> QED
    BY <1>2, <2>2 DEF Struck, Fallen, GoesOn
<1>4. /\ Good(q, b)
      /\ q.seq = r.seq \/ (q.seq = r.seq + 1 /\ r.seq < Last)
      /\ q.seq = r.seq /\ Strict(s.rt) => Strict(q)
      /\ q = s.rt \/ Helped(q)
  BY <1>3, RecoveredFacts
<1> HIDE DEF q
<1>5. n.end = s.end /\ n.target = s.target /\ n.rt = q /\ (Hits(n) <=> Hits(s))
  BY <1>2, ShapeFacts DEF Struck
<1> HIDE DEF n
<1>6. r.seq \in Nat
  BY Counts, TileFacts DEF Good, Quiet, Core
<1>7. ASSUME Hits(n) PROVE Landing(n.rt, n.target)
  <2>1. /\ n.target = r.seq + 1 /\ n.target \in 1..Last
        /\ Strict(s.rt) /\ Justified(s.rt, n.target)
    BY <1>2, <1>5, <1>7 DEF Struck
  <2>2. Justified(q, n.target)
    BY <1>4, <2>1 DEF Justified
  <2>3. \/ q.seq = n.target - 1 /\ Strict(q)
        \/ q.seq = n.target /\ Barred(q)
    BY <1>4, <1>6, <2>1 DEF Good, Quiet
  <2> QED
    BY <1>5, <2>1, <2>2, <2>3 DEF Landing
<1>8. n.end \in {"none", "missed", "taken", "punished"}
  BY <1>2, <1>5 DEF Struck
<1> QED
  BY <1>1, <1>4, <1>5, <1>7, <1>8, FinishFacts

-----------------------------------------------------------------------------
(* The fail bar.                                                           *)

\* x is r with another bar.
Rebarred(x, r) ==
    /\ x \in Runtimes
    /\ x.seq = r.seq /\ x.now = r.now /\ x.alive = r.alive /\ x.lives = r.lives
    /\ x.cooldown = r.cooldown /\ x.owed = r.owed /\ x.nested = r.nested
    /\ x.responsive = r.responsive /\ x.lock = r.lock
    /\ x.midspin = r.midspin /\ x.infinite = r.infinite

LEMMA RebarredKeeps ==
    ASSUME NEW r, NEW b, Core(r, b), Waits(r, b), NEW x, Rebarred(x, r)
    PROVE  Core(x, b) /\ Waits(x, b) /\ (~r.owed /\ ~FailBarOver(x) => Good(x, b))
<1>1. x \in Runtimes /\ r \in Runtimes /\ r.lives \in Nat /\ Purse(r) /\ Paid(r, b)
  BY Counts DEF Rebarred, Core
<1>2. GoesOn(x, r) /\ Purse(x) /\ Paid(x, b)
  BY <1>1 DEF Rebarred, GoesOn, Purse, Paid
<1>3. Core(x, b)
  BY <1>1, <1>2, GoesOnKeeps DEF Rebarred, Core
<1>4. Waits(x, b)
  BY <1>1, <1>2, WaitsOn
<1> QED
  BY <1>3, <1>4 DEF Rebarred, Good, Quiet, Barred

\* A bar without its top half, or a bar that has shrunk, is not over.
LEMMA LowBar ==
    ASSUME NEW x \in Runtimes, x.overload <= 20 * Beat, x.multi <= 20 * Beat
    PROVE  ~FailBarOver(x)
<1>1. x.overload \in Nat /\ x.multi \in Nat /\ 20 * Beat \in Nat
  BY Counts, JudgementAssumption
<1> DEFINE top == 20 * Beat
<1> HIDE DEF top
<1>2. x.overload <= top /\ x.multi <= top /\ x.overload \in Nat /\ x.multi \in Nat /\ top \in Nat
  BY <1>1 DEF top
<1>3. ~(x.overload > top \/ x.multi > top)
  BY <1>2
<1> QED
  BY <1>3 DEF FailBarOver, top

LEMMA ShrunkBar ==
    ASSUME NEW r \in Runtimes, NEW x \in Runtimes, x.seq = r.seq,
           x.overload <= r.overload, x.multi <= r.multi, ~FailBarOver(r)
    PROVE  ~FailBarOver(x)
<1> DEFINE top == 20 * Beat
           end == cfg.official /\ 25 * (r.seq + 1) >= 24 * (Last + 1)
<1>1. /\ r.overload \in Nat /\ r.multi \in Nat /\ x.overload \in Nat /\ x.multi \in Nat
      /\ top \in Nat
  BY Counts, JudgementAssumption
<1>2. /\ FailBarOver(r) <=> (r.overload > top \/ r.multi > top) /\ ~end
      /\ FailBarOver(x) <=> (x.overload > top \/ x.multi > top) /\ ~end
  BY DEF FailBarOver
<1> HIDE DEF top, end
<1> QED
  BY <1>1, <1>2

LEMMA EmptiedFacts ==
    ASSUME NEW part \in Nat, NEW rate \in Nat, NEW dt \in Nat
    PROVE  Emptied(part, rate, dt) \in 0..part
<1>1. rate * dt \in Nat
  OBVIOUS
<1> DEFINE d == rate * dt
<1> HIDE DEF d
<1>2. d \in Nat
  BY <1>1 DEF d
<1>3. Emptied(part, rate, dt) = IF 0 > part - d THEN 0 ELSE part - d
  BY DEF Emptied, Larger, d
<1> QED
  BY <1>2, <1>3

LEMMA FailBarFacts ==
    ASSUME Ground, NEW r, NEW b \in Runtimes, Core(r, b), ~r.owed, Waits(r, b),
           NEW dt \in Nat, dt = 0 => Barred(r)
    PROVE  Good(FailBarUpdate(r, dt), b)
<1> DEFINE d == DieOrRecover(r, TRUE)
           ho == Min2(d.overload, 10 * Beat)
           hm == Min2(d.multi, 10 * Beat)
           h1 == [d EXCEPT !.overload = ho]
           h == [h1 EXCEPT !.multi = hm]
           j == IF FailBarOver(r) THEN h ELSE r
           calm == r.since + dt > 6 * Beat
           o == Emptied(j.overload, 8, dt)
           m == IF calm THEN 0 ELSE Emptied(j.multi, 4, dt)
           s == IF calm \/ j.multi <= 4 * dt THEN 0 ELSE j.since + dt
           x1 == [j EXCEPT !.overload = o]
           x2 == [x1 EXCEPT !.multi = m]
           x == [x2 EXCEPT !.since = s]
<1>1. CASE dt = 0
  BY <1>1 DEF FailBarUpdate, Good, Quiet
<1>2. CASE dt # 0
  <2>1. FailBarUpdate(r, dt) = x
    BY <1>2 DEF FailBarUpdate
  <2>2. Core(d, b) /\ ~d.owed /\ Waits(d, b)
    <3> DEFINE e == Replaced(Die(r, TRUE))
    <3>1. TRUE \in BOOLEAN
      OBVIOUS
    <3>2. Core(e, b) /\ ~e.owed /\ GoesOn(e, r)
      BY <3>1, DeathFacts
    <3>3. Waits(e, b)
      BY <3>2, WaitsOn DEF Core
    <3> QED
      BY <3>2, <3>3 DEF DieOrRecover, Recovered
  <2> HIDE DEF d
  <2>3. d \in Runtimes /\ r \in Runtimes
    BY <2>2 DEF Core
  <2>4. ho \in 0..10 * Beat /\ hm \in 0..10 * Beat
    <3>1. d.overload \in Nat /\ d.multi \in Nat /\ 10 * Beat \in Nat
      BY <2>3, Counts, JudgementAssumption
    <3> QED
      BY <3>1 DEF Min2
  <2> HIDE DEF ho, hm
  <2>5. ho \in Nat /\ hm \in Nat /\ ho <= 20 * Beat /\ hm <= 20 * Beat
    BY <2>4, JudgementAssumption
  <2>6. h1 \in Runtimes
    BY <2>3, <2>5 DEF Runtimes
  <2>7. /\ h1.seq = d.seq /\ h1.now = d.now /\ h1.alive = d.alive /\ h1.lives = d.lives
        /\ h1.cooldown = d.cooldown /\ h1.owed = d.owed /\ h1.nested = d.nested
        /\ h1.responsive = d.responsive /\ h1.lock = d.lock
        /\ h1.midspin = d.midspin /\ h1.infinite = d.infinite
        /\ h1.overload = ho
    BY <2>3 DEF Runtimes
  <2> HIDE DEF h1
  <2>8. h \in Runtimes
    BY <2>5, <2>6 DEF Runtimes
  <2>9. /\ h.seq = d.seq /\ h.now = d.now /\ h.alive = d.alive /\ h.lives = d.lives
        /\ h.cooldown = d.cooldown /\ h.owed = d.owed /\ h.nested = d.nested
        /\ h.responsive = d.responsive /\ h.lock = d.lock
        /\ h.midspin = d.midspin /\ h.infinite = d.infinite
        /\ h.overload = ho /\ h.multi = hm
    BY <2>6, <2>7 DEF Runtimes
  <2> HIDE DEF h
  <2>10. Core(h, b) /\ ~h.owed /\ Waits(h, b)
    BY <2>2, <2>8, <2>9, RebarredKeeps DEF Rebarred
  <2>11. ~FailBarOver(h)
    BY <2>5, <2>8, <2>9, LowBar
  <2>12. Core(j, b) /\ ~j.owed /\ ~FailBarOver(j) /\ j \in Runtimes /\ Waits(j, b)
    BY <2>3, <2>8, <2>10, <2>11
  <2> HIDE DEF j, calm
  <2>13. j.overload \in Nat /\ j.multi \in Nat /\ j.since \in Nat
    BY <2>12, Counts
  <2>14. o \in 0..j.overload /\ m \in 0..j.multi /\ s \in Nat
    <3>1. o \in 0..j.overload /\ Emptied(j.multi, 4, dt) \in 0..j.multi
      BY <2>13, EmptiedFacts
    <3>2. 0 \in 0..j.multi /\ j.since + dt \in Nat
      BY <2>13
    <3> QED
      BY <3>1, <3>2
  <2> HIDE DEF o, m, s
  <2>15. o \in Nat /\ m \in Nat /\ o <= j.overload /\ m <= j.multi
    BY <2>13, <2>14
  <2>16. x1 \in Runtimes
    BY <2>12, <2>15 DEF Runtimes
  <2>17. /\ x1.seq = j.seq /\ x1.now = j.now /\ x1.alive = j.alive /\ x1.lives = j.lives
         /\ x1.cooldown = j.cooldown /\ x1.owed = j.owed /\ x1.nested = j.nested
         /\ x1.responsive = j.responsive /\ x1.lock = j.lock
         /\ x1.midspin = j.midspin /\ x1.infinite = j.infinite
         /\ x1.overload = o
    BY <2>12 DEF Runtimes
  <2> HIDE DEF x1
  <2>18. x2 \in Runtimes
    BY <2>15, <2>16 DEF Runtimes
  <2>19. /\ x2.seq = j.seq /\ x2.now = j.now /\ x2.alive = j.alive /\ x2.lives = j.lives
         /\ x2.cooldown = j.cooldown /\ x2.owed = j.owed /\ x2.nested = j.nested
         /\ x2.responsive = j.responsive /\ x2.lock = j.lock
         /\ x2.midspin = j.midspin /\ x2.infinite = j.infinite
         /\ x2.overload = o /\ x2.multi = m
    BY <2>16, <2>17 DEF Runtimes
  <2> HIDE DEF x2
  <2>20. x \in Runtimes
    BY <2>14, <2>18 DEF Runtimes
  <2>21. /\ x.seq = j.seq /\ x.now = j.now /\ x.alive = j.alive /\ x.lives = j.lives
         /\ x.cooldown = j.cooldown /\ x.owed = j.owed /\ x.nested = j.nested
         /\ x.responsive = j.responsive /\ x.lock = j.lock
         /\ x.midspin = j.midspin /\ x.infinite = j.infinite
         /\ x.overload = o /\ x.multi = m
    BY <2>18, <2>19 DEF Runtimes
  <2> HIDE DEF x
  <2>22. ~FailBarOver(x)
    BY <2>12, <2>15, <2>20, <2>21, ShrunkBar
  <2> QED
    BY <2>1, <2>12, <2>20, <2>21, <2>22, RebarredKeeps DEF Rebarred
<1> QED
  BY <1>1, <1>2

-----------------------------------------------------------------------------
(* A part of the step that is done again while it changes the tile: each    *)
(* use says what its round keeps.                                           *)

\* What a run is made of.
Rounded(b) == {p \in [now : Runtimes, before : Int] : Good(p.now, b)}

LEMMA RoundedIntro ==
    ASSUME NEW b, NEW r, Good(r, b), NEW k \in Int
    PROVE  [now |-> r, before |-> k] \in Rounded(b)
<1>1. r \in Runtimes
  BY DEF Good, Quiet, Core
<1> QED
  BY <1>1 DEF Rounded

LEMMA RoundedFacts ==
    ASSUME NEW b, NEW p \in Rounded(b)
    PROVE  Good(p.now, b) /\ p.now.seq \in Int
<1>1. Good(p.now, b) /\ p.now \in Runtimes
  BY DEF Rounded
<1>2. p.now.seq \in 0..Last
  BY <1>1, Counts
<1> QED
  BY <1>1, <1>2

LEMMA PreHoldRound ==
    ASSUME Ground, NEW r, NEW b \in Runtimes, Good(r, b)
    PROVE  Good(CheckPreHoldFail(r), b)
<1>1. FALSE \in BOOLEAN
  OBVIOUS
<1> QED
  BY <1>1, DieOrRecoverKeeps DEF CheckPreHoldFail

LEMMA SettlePreHold ==
    ASSUME Ground, NEW r, NEW b \in Runtimes, Good(r, b)
    PROVE  Good(Settle(CheckPreHoldFail, r), b)
<1> DEFINE V == Rounded(b)
           v == [now |-> r, before |-> -1]
           Do(p) == IF p.now.seq = p.before THEN p
                    ELSE [now |-> CheckPreHoldFail(p.now), before |-> p.now.seq]
           S == [p \in V |-> Do(p)]
           Solves(f) == f = [i \in 0..Rounds |-> IF i = 0 THEN v ELSE Do(f[i - 1])]
           run == CHOOSE f : Solves(f)
<1>1. Settle(CheckPreHoldFail, r) = run[Rounds].now
  BY DEF Settle
<1>2. v \in V /\ Rounds \in Nat
  <2>1. -1 \in Int
    OBVIOUS
  <2> QED
    BY <2>1, RoundedIntro, JudgementAssumption
<1>3. ASSUME NEW p \in V PROVE Do(p) \in V
  <2>1. Good(p.now, b) /\ p.now.seq \in Int
    BY RoundedFacts
  <2>2. [now |-> CheckPreHoldFail(p.now), before |-> p.now.seq] \in V
    BY <2>1, PreHoldRound, RoundedIntro
  <2> QED
    BY <2>2
<1> HIDE DEF V, v, Do
<1>4. Solves(run)
  <2>1. S \in [V -> V] /\ \A p \in V : S[p] = Do(p)
    BY <1>3
  <2> HIDE DEF S
  <2>2. PICK f : f \in [0..Rounds -> V] /\ Run(f, Rounds, S, v)
    BY <1>2, <2>1, RunExists
  <2>3. \A i \in 0..Rounds : i # 0 => i - 1 \in 0..Rounds
    BY <1>2
  <2>4. Solves(f)
    BY <2>1, <2>2, <2>3 DEF Run
  <2> QED
    BY <2>4
<1> HIDE DEF run
<1>5. run[0] = v /\ \A i \in 1..Rounds : run[i] = Do(run[i - 1])
  BY <1>2, <1>4
<1>6. run[Rounds] \in V
  <2>1. \A i \in 1..Rounds : run[i - 1] \in V => run[i] \in V
    BY <1>3, <1>5
  <2> QED
    BY <1>2, <1>5, <2>1, RunStays
<1> QED
  BY <1>1, <1>6, RoundedFacts DEF V

\* No tile from k to i has spared the player or been taken for him.
Bare(k, i) == \A j \in k..i : ~At(j).safe /\ (At(j).auto => cfg.oldAuto)

\* Who lives on past the post-hold limit, on a way from tile k that aided him
\* nowhere, cannot die here.
Law(r, k) ==
    r.alive /\ HasNext(r) /\ Late(r) > LateLimit(r) /\ Bare(k, r.seq)
       => cfg.noFail \/ r.cooldown > 0 \/ (AutoPath(r) /\ ~cfg.oldAuto)

\* The limit is the same on every bare tile.
LEMMA BareLimit ==
    ASSUME NEW r \in Runtimes, NEW k \in Nat, k <= r.seq, Bare(k, r.seq)
    PROVE  LateLimit(r) = IF cfg.noFail THEN CountedAt ELSE Larger(Beat, 2 * CountedAt)
<1>1. r.seq \in k..r.seq
  BY Counts
<1>2. ~Here(r).safe
  BY <1>1 DEF Bare, Here
<1> QED
  BY <1>2 DEF LateLimit

\* Nothing after the check makes a player later, takes his cooldown, or takes
\* him past a tile that no one sees.
LEMMA LawStays ==
    ASSUME Ground, NEW r \in Runtimes, NEW x, Core(x, r), NEW k \in Nat, k <= r.seq, Law(r, k)
    PROVE  Law(x, k)
<1> SUFFICES ASSUME x.alive, HasNext(x), Late(x) > LateLimit(x), Bare(k, x.seq)
             PROVE  cfg.noFail \/ x.cooldown > 0 \/ (AutoPath(x) /\ ~cfg.oldAuto)
  BY DEF Law
<1>1. /\ x \in Runtimes /\ r.seq <= x.seq /\ x.now = r.now /\ r.alive /\ Paid(x, r)
  BY DEF Core, Paid
<1>2. /\ r.seq \in 0..Last /\ x.seq \in 0..Last /\ Last \in Nat
      /\ r.lives \in Nat /\ x.lives \in Nat /\ r.cooldown \in Nat
  BY <1>1, TileFacts, Counts
<1>3. HasNext(r) /\ k <= x.seq
  BY <1>1, <1>2 DEF HasNext
<1>4. Bare(k, r.seq)
  <2>1. \A j \in k..r.seq : j \in k..x.seq
    BY <1>1, <1>2
  <2> QED
    BY <2>1 DEF Bare
<1>5. Late(r) > LateLimit(r)
  <2>1. Late(r) \in Int /\ Late(x) \in Int /\ Late(x) <= Late(r)
    BY <1>1, LateFalls
  <2>2. LateLimit(x) = LateLimit(r)
    BY <1>1, <1>3, <1>4, BareLimit
  <2>3. LateLimit(r) \in Int
    BY JudgementAssumption DEF LateLimit, Larger
  <2> QED
    BY <2>1, <2>2, <2>3
<1>6. cfg.noFail \/ r.cooldown > 0 \/ (AutoPath(r) /\ ~cfg.oldAuto)
  BY <1>1, <1>3, <1>4, <1>5 DEF Law
<1>7. CASE r.cooldown > 0
  BY <1>1, <1>2, <1>7 DEF Paid
<1>8. CASE AutoPath(r) /\ ~cfg.oldAuto /\ x.seq = r.seq
  BY <1>8 DEF AutoPath, NextIsAuto, HasNext
<1>9. CASE AutoPath(r) /\ ~cfg.oldAuto /\ x.seq # r.seq
  <2>1. r.seq + 1 \in k..x.seq
    BY <1>1, <1>2, <1>9
  <2>2. ~At(r.seq + 1).auto
    BY <1>9, <2>1 DEF Bare
  <2> QED
    BY <1>9, <2>2 DEF AutoPath, NextIsAuto
<1> QED
  BY <1>6, <1>7, <1>8, <1>9

\* check_post_hold_fail kills, or someone has helped.
LEMMA PostHoldRound ==
    ASSUME Ground, NEW r, NEW b \in Runtimes, Good(r, b)
    PROVE  /\ Good(CheckPostHoldFail(r), b)
           /\ Law(CheckPostHoldFail(r), b.seq)
<1> DEFINE d == Replaced(Die(r, FALSE))
           x == CheckPostHoldFail(r)
<1>1. FALSE \in BOOLEAN
  OBVIOUS
<1>2. Good(x, b)
  BY <1>1, DieOrRecoverKeeps DEF CheckPostHoldFail
<1>3. CASE ~(HasNext(r) /\ Late(r) > LateLimit(r))
  <2>1. x = r
    BY <1>3 DEF CheckPostHoldFail
  <2> QED
    BY <1>2, <1>3, <2>1 DEF Law
<1>4. CASE HasNext(r) /\ Late(r) > LateLimit(r)
  <2>1. x = Recovered(d)
    BY <1>4 DEF CheckPostHoldFail, DieOrRecover
  <2>2. Core(d, b) /\ GoesOn(d, r) /\ SameBar(d, r) /\ (d.alive => Spared(d))
    BY <1>1, DeathFacts DEF Good, Quiet
  <2> HIDE DEF d, x
  <2>3. d \in Runtimes /\ b.seq <= d.seq /\ b.seq \in Nat /\ d.seq \in Nat
    BY <2>2, Counts DEF Core
  <2>4. Fallen(d, d)
    BY <2>2, CoreItself, BarStays DEF Fallen, Waits, Good, Quiet
  <2>5. Core(x, d)
    BY <2>1, <2>3, <2>4, RecoveredFacts DEF Good, Quiet
  <2>6. Law(d, b.seq)
    <3>1. d.seq \in b.seq..d.seq
      BY <2>3
    <3>2. Bare(b.seq, d.seq) => ~SafeAt(d.seq)
      BY <3>1 DEF Bare, SafeAt
    <3> QED
      BY <2>2, <3>2 DEF Law, Spared
  <2>7. Law(x, b.seq)
    BY <2>3, <2>5, <2>6, LawStays
  <2> QED
    BY <1>2, <2>7 DEF x
<1> QED
  BY <1>3, <1>4

LEMMA SettlePostHold ==
    ASSUME Ground, NEW r, NEW b \in Runtimes, Good(r, b)
    PROVE  /\ Good(Settle(CheckPostHoldFail, r), b)
           /\ Law(Settle(CheckPostHoldFail, r), b.seq)
<1> DEFINE V == {p \in Rounded(b) : p.before # -1 => Law(p.now, b.seq)}
           v == [now |-> r, before |-> -1]
           Do(p) == IF p.now.seq = p.before THEN p
                    ELSE [now |-> CheckPostHoldFail(p.now), before |-> p.now.seq]
           S == [p \in V |-> Do(p)]
           Solves(f) == f = [i \in 0..Rounds |-> IF i = 0 THEN v ELSE Do(f[i - 1])]
           run == CHOOSE f : Solves(f)
<1>1. Settle(CheckPostHoldFail, r) = run[Rounds].now
  BY DEF Settle
<1>2. v \in V /\ Rounds \in Nat \ {0}
  <2>1. -1 \in Int
    OBVIOUS
  <2>2. v \in Rounded(b)
    BY <2>1, RoundedIntro
  <2> QED
    BY <2>2, JudgementAssumption
<1>3. ASSUME NEW p \in V PROVE Do(p) \in V /\ Do(p).before # -1
  <2>1. Good(p.now, b) /\ p.now.seq \in Nat /\ p \in Rounded(b)
    <3>1. p \in Rounded(b)
      OBVIOUS
    <3>2. Good(p.now, b) /\ p.now \in Runtimes
      BY <3>1 DEF Rounded
    <3> QED
      BY <3>1, <3>2, Counts
  <2> DEFINE q == [now |-> CheckPostHoldFail(p.now), before |-> p.now.seq]
  <2>2. q \in Rounded(b) /\ Law(q.now, b.seq) /\ q.before # -1
    BY <2>1, PostHoldRound, RoundedIntro
  <2> HIDE DEF q
  <2>3. Do(p) = IF p.now.seq = p.before THEN p ELSE q
    BY DEF q
  <2> QED
    BY <2>1, <2>2, <2>3
<1>4. \A p \in V : Good(p.now, b) /\ (p.before # -1 => Law(p.now, b.seq))
  BY RoundedFacts
<1> HIDE DEF V, v, Do
<1>5. Solves(run)
  <2>1. S \in [V -> V] /\ \A p \in V : S[p] = Do(p)
    BY <1>3
  <2> HIDE DEF S
  <2>2. PICK f : f \in [0..Rounds -> V] /\ Run(f, Rounds, S, v)
    BY <1>2, <2>1, RunExists
  <2>3. \A i \in 0..Rounds : i # 0 => i - 1 \in 0..Rounds
    BY <1>2
  <2>4. Solves(f)
    BY <2>1, <2>2, <2>3 DEF Run
  <2> QED
    BY <2>4
<1> HIDE DEF run
<1>6. run[0] = v /\ \A i \in 1..Rounds : run[i] = Do(run[i - 1])
  BY <1>2, <1>5
<1>7. \A i \in 0..Rounds : run[i] \in V
  <2>1. \A i \in 1..Rounds : run[i - 1] \in V => run[i] \in V
    BY <1>3, <1>6
  <2> QED
    BY <1>2, <1>6, <2>1, RunStays
<1>8. run[Rounds] \in V /\ run[Rounds].before # -1
  <2>1. Rounds \in 1..Rounds /\ Rounds - 1 \in 0..Rounds /\ Rounds \in 0..Rounds
    BY <1>2
  <2> QED
    BY <1>3, <1>6, <1>7, <2>1
<1> QED
  BY <1>1, <1>4, <1>8

LEMMA HitStartRound ==
    ASSUME Ground, NEW r, NEW b \in Runtimes, Good(r, b)
    PROVE  Good(HitStartHold(r), b)
<1>1. NoInput.ignore \in Nat /\ FALSE \in BOOLEAN
  BY DEF NoInput
<1> QED
  BY <1>1, HitKeeps DEF HitStartHold

LEMMA SettleHitStart ==
    ASSUME Ground, NEW r, NEW b \in Runtimes, Good(r, b)
    PROVE  Good(Settle(HitStartHold, r), b)
<1> DEFINE V == Rounded(b)
           v == [now |-> r, before |-> -1]
           Do(p) == IF p.now.seq = p.before THEN p
                    ELSE [now |-> HitStartHold(p.now), before |-> p.now.seq]
           S == [p \in V |-> Do(p)]
           Solves(f) == f = [i \in 0..Rounds |-> IF i = 0 THEN v ELSE Do(f[i - 1])]
           run == CHOOSE f : Solves(f)
<1>1. Settle(HitStartHold, r) = run[Rounds].now
  BY DEF Settle
<1>2. v \in V /\ Rounds \in Nat
  <2>1. -1 \in Int
    OBVIOUS
  <2> QED
    BY <2>1, RoundedIntro, JudgementAssumption
<1>3. ASSUME NEW p \in V PROVE Do(p) \in V
  <2>1. Good(p.now, b) /\ p.now.seq \in Int
    BY RoundedFacts
  <2>2. [now |-> HitStartHold(p.now), before |-> p.now.seq] \in V
    BY <2>1, HitStartRound, RoundedIntro
  <2> QED
    BY <2>2
<1> HIDE DEF V, v, Do
<1>4. Solves(run)
  <2>1. S \in [V -> V] /\ \A p \in V : S[p] = Do(p)
    BY <1>3
  <2> HIDE DEF S
  <2>2. PICK f : f \in [0..Rounds -> V] /\ Run(f, Rounds, S, v)
    BY <1>2, <2>1, RunExists
  <2>3. \A i \in 0..Rounds : i # 0 => i - 1 \in 0..Rounds
    BY <1>2
  <2>4. Solves(f)
    BY <2>1, <2>2, <2>3 DEF Run
  <2> QED
    BY <2>4
<1> HIDE DEF run
<1>5. run[0] = v /\ \A i \in 1..Rounds : run[i] = Do(run[i - 1])
  BY <1>2, <1>4
<1>6. run[Rounds] \in V
  <2>1. \A i \in 1..Rounds : run[i - 1] \in V => run[i] \in V
    BY <1>3, <1>5
  <2> QED
    BY <1>2, <1>5, <2>1, RunStays
<1> QED
  BY <1>1, <1>6, RoundedFacts DEF V

\* One automatic hit, which no key waits for.
LEMMA AutoHitFacts ==
    ASSUME Ground, NEW r, NEW b \in Runtimes, Good(r, b), Open(r)
    PROVE  Good(Hit([r EXCEPT !.pending = 0, !.midPending = 0], NoInput, TRUE), b)
<1> DEFINE y == [r EXCEPT !.pending = 0]
           x == [r EXCEPT !.pending = 0, !.midPending = 0]
<1>1. r \in Runtimes
  BY DEF Good, Quiet, Core
<1>2. x = [y EXCEPT !.midPending = 0]
  OBVIOUS
<1>3. y \in Runtimes
  BY <1>1 DEF Runtimes
<1>4. /\ x.seq = r.seq /\ x.now = r.now /\ x.alive = r.alive /\ x.lives = r.lives
      /\ x.cooldown = r.cooldown /\ x.owed = r.owed /\ x.nested = r.nested
      /\ x.responsive = r.responsive /\ x.lock = r.lock
      /\ x.midspin = r.midspin /\ x.infinite = r.infinite
      /\ x.overload = r.overload /\ x.multi = r.multi
      /\ x.responsive = r.responsive /\ x.lock = r.lock
      /\ x.midspin = r.midspin /\ x.infinite = r.infinite
  BY <1>1 DEF Runtimes
<1> HIDE DEF x, y
<1>5. x \in Runtimes
  BY <1>2, <1>3 DEF Runtimes
<1>6. Neutral(x, r)
  BY <1>4, <1>5 DEF Neutral, Alike, SameBar
<1>7. Good(x, b) /\ Open(x)
  BY <1>4, <1>6, NeutralKeeps DEF Good, Quiet, Open
<1>8. NoInput.ignore \in Nat /\ TRUE \in BOOLEAN
  BY DEF NoInput
<1>9. Good(Hit(x, NoInput, TRUE), b)
  BY <1>7, <1>8, HitKeeps
<1> QED
  BY <1>9 DEF x

LEMMA OttoRound ==
    ASSUME Ground, NEW r, NEW b \in Runtimes, Good(r, b)
    PROVE  Good(OttoHoldHit(r), b)
<1> DEFINE AutoHit(x) ==
             IF AutoShouldHit(x)
             THEN Hit([x EXCEPT !.pending = 0, !.midPending = 0], NoInput, TRUE)
             ELSE x
           Ready(x) == Good(x, b) /\ Open(x)
<1>1. ASSUME NEW x, Ready(x) PROVE Ready(AutoHit(x))
  <2>1. x \in Runtimes /\ Good(x, x)
    BY <1>1, GoodItself DEF Good, Quiet, Core
  <2>2. Good(AutoHit(x), b) /\ Good(AutoHit(x), x)
    BY <1>1, <2>1, AutoHitFacts
  <2> HIDE DEF AutoHit
  <2>3. AutoHit(x) \in Runtimes /\ x.seq <= AutoHit(x).seq
    BY <2>2 DEF Good, Quiet, Core
  <2>4. Open(AutoHit(x))
    BY <1>1, <2>1, <2>3, OpenStays
  <2> QED
    BY <2>2, <2>4
<1>2. \/ OttoHoldHit(r) = r
      \/ /\ AutoPath(r) \/ Here(r).auto
         /\ OttoHoldHit(r) \in {AutoHit(r), AutoHit(AutoHit(AutoHit(AutoHit(AutoHit(r)))))}
  BY DEF OttoHoldHit
<1>3. CASE OttoHoldHit(r) = r
  BY <1>3
<1>4. CASE /\ AutoPath(r) \/ Here(r).auto
           /\ OttoHoldHit(r) \in {AutoHit(r), AutoHit(AutoHit(AutoHit(AutoHit(AutoHit(r)))))}
  <2> HIDE DEF AutoHit
  <2>1. Ready(r)
    BY <1>4, AutoIsOpen DEF Good, Quiet, Core
  <2> HIDE DEF Ready
  <2>2. Ready(AutoHit(r))
    BY <1>1, <2>1
  <2>3. Ready(AutoHit(AutoHit(r)))
    BY <1>1, <2>2
  <2>4. Ready(AutoHit(AutoHit(AutoHit(r))))
    BY <1>1, <2>3
  <2>5. Ready(AutoHit(AutoHit(AutoHit(AutoHit(r)))))
    BY <1>1, <2>4
  <2>6. Ready(AutoHit(AutoHit(AutoHit(AutoHit(AutoHit(r))))))
    BY <1>1, <2>5
  <2> QED
    BY <1>4, <2>2, <2>6 DEF Ready
<1> QED
  BY <1>2, <1>3, <1>4

LEMMA SettleOtto ==
    ASSUME Ground, NEW r, NEW b \in Runtimes, Good(r, b)
    PROVE  Good(Settle(OttoHoldHit, r), b)
<1> DEFINE V == Rounded(b)
           v == [now |-> r, before |-> -1]
           Do(p) == IF p.now.seq = p.before THEN p
                    ELSE [now |-> OttoHoldHit(p.now), before |-> p.now.seq]
           S == [p \in V |-> Do(p)]
           Solves(f) == f = [i \in 0..Rounds |-> IF i = 0 THEN v ELSE Do(f[i - 1])]
           run == CHOOSE f : Solves(f)
<1>1. Settle(OttoHoldHit, r) = run[Rounds].now
  BY DEF Settle
<1>2. v \in V /\ Rounds \in Nat
  <2>1. -1 \in Int
    OBVIOUS
  <2> QED
    BY <2>1, RoundedIntro, JudgementAssumption
<1>3. ASSUME NEW p \in V PROVE Do(p) \in V
  <2>1. Good(p.now, b) /\ p.now.seq \in Int
    BY RoundedFacts
  <2>2. [now |-> OttoHoldHit(p.now), before |-> p.now.seq] \in V
    BY <2>1, OttoRound, RoundedIntro
  <2> QED
    BY <2>2
<1> HIDE DEF V, v, Do
<1>4. Solves(run)
  <2>1. S \in [V -> V] /\ \A p \in V : S[p] = Do(p)
    BY <1>3
  <2> HIDE DEF S
  <2>2. PICK f : f \in [0..Rounds -> V] /\ Run(f, Rounds, S, v)
    BY <1>2, <2>1, RunExists
  <2>3. \A i \in 0..Rounds : i # 0 => i - 1 \in 0..Rounds
    BY <1>2
  <2>4. Solves(f)
    BY <2>1, <2>2, <2>3 DEF Run
  <2> QED
    BY <2>4
<1> HIDE DEF run
<1>5. run[0] = v /\ \A i \in 1..Rounds : run[i] = Do(run[i - 1])
  BY <1>2, <1>4
<1>6. run[Rounds] \in V
  <2>1. \A i \in 1..Rounds : run[i - 1] \in V => run[i] \in V
    BY <1>3, <1>5
  <2> QED
    BY <1>2, <1>5, <2>1, RunStays
<1> QED
  BY <1>1, <1>6, RoundedFacts DEF V

-----------------------------------------------------------------------------
(* The keys.                                                               *)

LEMMA RefreshFacts ==
    ASSUME NEW r, NEW b, Good(r, b), NEW keys \in Nat
    PROVE  Good(RefreshHold(r, keys), b)
<1> DEFINE x == [r EXCEPT !.hold = keys]
<1>1. r \in Runtimes
  BY DEF Good, Quiet, Core
<1>2. Neutral(x, r)
  BY <1>1 DEF Neutral, Alike, SameBar, Runtimes
<1> HIDE DEF x
<1>3. Good(x, b)
  BY <1>2, NeutralKeeps DEF Good, Quiet
<1> QED
  BY <1>3 DEF RefreshHold, x

\* A key that is taken, alone or with the key of a midspin.
LEMMA TakenFacts ==
    ASSUME NEW r, NEW b, Good(r, b), r.pending > 0
    PROVE  Good([r EXCEPT !.pending = @ - 1], b)
<1> DEFINE k == r.pending - 1
           x == [r EXCEPT !.pending = k]
<1>1. r \in Runtimes
  BY DEF Good, Quiet, Core
<1>2. k \in Nat
  BY <1>1, Counts
<1> HIDE DEF k
<1>3. Neutral(x, r)
  BY <1>1, <1>2 DEF Neutral, Alike, SameBar, Runtimes
<1> HIDE DEF x
<1>4. Good(x, b)
  BY <1>3, NeutralKeeps DEF Good, Quiet
<1> QED
  BY <1>4 DEF x, k

LEMMA SpareFacts ==
    ASSUME NEW r, NEW b, Good(r, b), r.pending > 0, r.midPending > 0
    PROVE  Good([r EXCEPT !.pending = @ - 1, !.midPending = @ - 1], b)
<1> DEFINE k == r.pending - 1
           m == r.midPending - 1
           y == [r EXCEPT !.pending = k]
           x == [r EXCEPT !.pending = k, !.midPending = m]
<1>1. r \in Runtimes
  BY DEF Good, Quiet, Core
<1>2. k \in Nat /\ m \in Nat
  BY <1>1, Counts
<1> HIDE DEF k, m
<1>3. x = [y EXCEPT !.midPending = m]
  OBVIOUS
<1>4. y \in Runtimes
  BY <1>1, <1>2 DEF Runtimes
<1>5. /\ x.seq = r.seq /\ x.now = r.now /\ x.alive = r.alive /\ x.lives = r.lives
      /\ x.cooldown = r.cooldown /\ x.owed = r.owed /\ x.nested = r.nested
      /\ x.responsive = r.responsive /\ x.lock = r.lock
      /\ x.midspin = r.midspin /\ x.infinite = r.infinite
      /\ x.overload = r.overload /\ x.multi = r.multi
      /\ x.responsive = r.responsive /\ x.lock = r.lock
      /\ x.midspin = r.midspin /\ x.infinite = r.infinite
  BY <1>1 DEF Runtimes
<1> HIDE DEF x, y
<1>6. x \in Runtimes
  BY <1>2, <1>3, <1>4 DEF Runtimes
<1>7. Neutral(x, r)
  BY <1>5, <1>6 DEF Neutral, Alike, SameBar
<1>8. Good(x, b)
  BY <1>7, NeutralKeeps DEF Good, Quiet
<1> QED
  BY <1>8 DEF x, k, m

\* A key that is only an input event.
LEMMA PassedByFacts ==
    ASSUME NEW r, NEW b, Good(r, b), NEW in, in.ignore \in Nat
    PROVE  Good([GateDown(r, in) EXCEPT !.ignore = Larger(0, @ - 1)], b)
<1> DEFINE g == GateDown(r, in)
           i == Larger(0, g.ignore - 1)
           x == [g EXCEPT !.ignore = i]
<1>1. Neutral(g, r)
  BY GateDownFacts DEF Good, Quiet, Core
<1> HIDE DEF g
<1>2. g \in Runtimes /\ Good(g, b)
  BY <1>1, NeutralKeeps DEF Good, Quiet, Neutral, Alike
<1>3. i \in Nat
  BY <1>2, Counts DEF Larger
<1> HIDE DEF i
<1>4. Neutral(x, g)
  BY <1>2, <1>3 DEF Neutral, Alike, SameBar, Runtimes
<1> HIDE DEF x
<1>5. Good(x, b)
  BY <1>2, <1>4, NeutralKeeps DEF Good, Quiet
<1> QED
  BY <1>5 DEF x, i, g

LEMMA KeyRound ==
    ASSUME Ground, NEW r, NEW b \in Runtimes, Good(r, b), NEW in, in.ignore \in Nat,
           NEW keys \in Nat
    PROVE  Good(ConsumeKey(r, in, keys), b)
<1> DEFINE t == [r EXCEPT !.pending = @ - 1]
           Tried(x) == RefreshHold(Hit(x, in, FALSE), keys)
           Spare(x) == [x EXCEPT !.pending = @ - 1, !.midPending = @ - 1]
           Again(x) == IF x.midspin /\ x.pending > 0 /\ x.midPending > 0
                       THEN Tried(Spare(x)) ELSE x
           p == [GateDown(t, in) EXCEPT !.ignore = Larger(0, @ - 1)]
<1>1. \/ ConsumeKey(r, in, keys) = r
      \/ r.pending > 0 /\ ConsumeKey(r, in, keys) = p
      \/ r.pending > 0 /\ ConsumeKey(r, in, keys) = Again(Tried(t))
  BY DEF ConsumeKey, CanConsumeKey
<1>2. ASSUME NEW x, Good(x, b) PROVE Good(Tried(x), b)
  <2>1. FALSE \in BOOLEAN
    OBVIOUS
  <2>2. Good(Hit(x, in, FALSE), b)
    BY <1>2, <2>1, HitKeeps
  <2> QED
    BY <2>2, RefreshFacts
<1>3. ASSUME NEW x, Good(x, b) PROVE Good(Again(x), b)
  <2>1. CASE x.midspin /\ x.pending > 0 /\ x.midPending > 0
    <3>1. Good(Spare(x), b)
      BY <1>3, <2>1, SpareFacts
    <3> HIDE DEF Spare, Tried
    <3>2. Good(Tried(Spare(x)), b)
      BY <1>2, <3>1
    <3> QED
      BY <2>1, <3>2
  <2>2. CASE ~(x.midspin /\ x.pending > 0 /\ x.midPending > 0)
    BY <1>3, <2>2
  <2> QED
    BY <2>1, <2>2
<1>4. r.pending > 0 => Good(t, b)
  BY TakenFacts
<1> HIDE DEF t
<1>5. r.pending > 0 => Good(p, b)
  BY <1>4, PassedByFacts
<1> HIDE DEF Tried, Again, p
<1>6. r.pending > 0 => Good(Again(Tried(t)), b)
  BY <1>2, <1>3, <1>4
<1> QED
  BY <1>1, <1>5, <1>6

KeysSettled(r, in, keys) == Settle(LAMBDA y : ConsumeKey(y, in, keys), r)

LEMMA SettleKeys ==
    ASSUME Ground, NEW r, NEW b \in Runtimes, Good(r, b), NEW in, in.ignore \in Nat,
           NEW keys \in Nat
    PROVE  Good(KeysSettled(r, in, keys), b)
<1> DEFINE V == Rounded(b)
           v == [now |-> r, before |-> -1]
           Do(p) == IF p.now.seq = p.before THEN p
                    ELSE [now |-> ConsumeKey(p.now, in, keys), before |-> p.now.seq]
           S == [p \in V |-> Do(p)]
           Solves(f) == f = [i \in 0..Rounds |-> IF i = 0 THEN v ELSE Do(f[i - 1])]
           run == CHOOSE f : Solves(f)
<1>1. KeysSettled(r, in, keys) = run[Rounds].now
  BY DEF KeysSettled, Settle
<1>2. v \in V /\ Rounds \in Nat
  <2>1. -1 \in Int
    OBVIOUS
  <2> QED
    BY <2>1, RoundedIntro, JudgementAssumption
<1>3. ASSUME NEW p \in V PROVE Do(p) \in V
  <2>1. Good(p.now, b) /\ p.now.seq \in Int
    BY RoundedFacts
  <2>2. [now |-> ConsumeKey(p.now, in, keys), before |-> p.now.seq] \in V
    BY <2>1, KeyRound, RoundedIntro
  <2> QED
    BY <2>2
<1> HIDE DEF V, v, Do
<1>4. Solves(run)
  <2>1. S \in [V -> V] /\ \A p \in V : S[p] = Do(p)
    BY <1>3
  <2> HIDE DEF S
  <2>2. PICK f : f \in [0..Rounds -> V] /\ Run(f, Rounds, S, v)
    BY <1>2, <2>1, RunExists
  <2>3. \A i \in 0..Rounds : i # 0 => i - 1 \in 0..Rounds
    BY <1>2
  <2>4. Solves(f)
    BY <2>1, <2>2, <2>3 DEF Run
  <2> QED
    BY <2>4
<1> HIDE DEF run
<1>5. run[0] = v /\ \A i \in 1..Rounds : run[i] = Do(run[i - 1])
  BY <1>2, <1>4
<1>6. run[Rounds] \in V
  <2>1. \A i \in 1..Rounds : run[i - 1] \in V => run[i] \in V
    BY <1>3, <1>5
  <2> QED
    BY <1>2, <1>5, <2>1, RunStays
<1> QED
  BY <1>1, <1>6, RoundedFacts DEF V

-----------------------------------------------------------------------------
(* The other parts of a step.                                              *)

\* What a step can be given: counts.
Given(in) ==
    /\ in.dt \in Nat /\ in.down \in Nat /\ in.up \in Nat /\ in.over \in Nat
    /\ in.ignore \in Nat /\ in.upIgnore \in Nat /\ in.endsFrame \in BOOLEAN

LEMMA InputFacts ==
    ASSUME NEW in \in Inputs
    PROVE  Given(in)
<1>1. /\ in.dt \in Dts /\ in.endsFrame \in Frames /\ in.down \in 0..MaxDown
      /\ in.up \in 0..MaxDown /\ in.over \in 0..MaxOver /\ in.ignore \in 0..MaxIgnore
      /\ in.upIgnore \in 0..MaxIgnore
  BY DEF Inputs
<1>2. Dts \subseteq Nat /\ Frames \subseteq BOOLEAN
  BY JudgementAssumption
<1>3. in.dt \in Nat /\ in.endsFrame \in BOOLEAN
  BY <1>1, <1>2, Zenon
<1>4. /\ in.down \in Nat /\ in.up \in Nat /\ in.over \in Nat
      /\ in.ignore \in Nat /\ in.upIgnore \in Nat
  BY <1>1
<1> QED
  BY <1>3, <1>4 DEF Given

\* The song goes on, the cooldown runs down, nothing else counts.
LEMMA AdvanceFacts ==
    ASSUME Ground, NEW r \in Runtimes, NEW in, Given(in)
    PROVE  LET x == Advance(r, in)
           IN  /\ x \in Runtimes
               /\ x.seq = r.seq /\ x.now = r.now + in.dt /\ x.alive = r.alive
               /\ x.lives = r.lives /\ x.owed = r.owed /\ x.nested = r.nested
               /\ x.responsive = r.responsive /\ x.lock = r.lock
               /\ x.midspin = r.midspin /\ x.infinite = r.infinite
               /\ SameBar(x, r)
               /\ x.cooldown = Larger(0, r.cooldown - in.dt)
<1> DEFINE c == Larger(0, r.cooldown - in.dt)
           n == r.now + in.dt
           p == r.now + in.dt - Due[r.seq]
           h == HasNext(r) /\ At(NextSolid(r.seq)).hold
           x1 == [r EXCEPT !.cooldown = c]
           x2 == [x1 EXCEPT !.now = n]
           x3 == [x2 EXCEPT !.progress = p]
           x4 == [x3 EXCEPT !.nextHold = h]
           x == Advance(r, in)
<1>1. c \in Nat /\ n \in Nat /\ p \in Int /\ h \in BOOLEAN
  <2>1. r.cooldown \in Nat /\ r.now \in Nat /\ in.dt \in Nat /\ r.seq \in 0..Last
    BY Counts DEF Given
  <2>2. Due[r.seq] \in Nat
    BY <2>1, DueType
  <2> QED
    BY <2>1, <2>2 DEF Larger
<1>2. x = [r EXCEPT !.cooldown = c, !.now = n, !.progress = p, !.nextHold = h]
  BY DEF Advance
<1> HIDE DEF c, n, p, h, x
<1>3. x = x4
  BY <1>2
<1>4. x1 \in Runtimes
  BY <1>1 DEF Runtimes
<1> HIDE DEF x1
<1>5. x2 \in Runtimes
  BY <1>1, <1>4 DEF Runtimes
<1> HIDE DEF x2
<1>6. x3 \in Runtimes
  BY <1>1, <1>5 DEF Runtimes
<1> HIDE DEF x3
<1>7. x4 \in Runtimes
  BY <1>1, <1>6 DEF Runtimes
<1> HIDE DEF x4
<1>8. /\ x.seq = r.seq /\ x.now = n /\ x.alive = r.alive /\ x.lives = r.lives
      /\ x.owed = r.owed /\ x.nested = r.nested /\ x.overload = r.overload
      /\ x.multi = r.multi /\ x.cooldown = c
      /\ x.responsive = r.responsive /\ x.lock = r.lock
      /\ x.midspin = r.midspin /\ x.infinite = r.infinite
  BY <1>2 DEF Runtimes
<1> QED
  BY <1>3, <1>7, <1>8 DEF SameBar, x, n, c

LEMMA EnqueueFacts ==
    ASSUME NEW r, NEW b, Good(r, b), NEW in, Given(in)
    PROVE  Good(Enqueue(r, in), b)
<1> DEFINE c == [r EXCEPT !.over = in.over]
           p == c.pending + in.down
           n == IF in.down = 1 THEN 0 ELSE c.consec
           x1 == [c EXCEPT !.pending = p]
           x2 == [x1 EXCEPT !.consec = n]
           x3 == [x2 EXCEPT !.first = TRUE]
<1>1. r \in Runtimes /\ in.over \in Nat /\ in.down \in Nat
  BY DEF Good, Quiet, Core, Given
<1>2. Enqueue(r, in) \in {c, x3}
  <2>1. Enqueue(r, in) = IF in.down = 0 THEN c
                         ELSE [c EXCEPT !.pending = p, !.consec = n, !.first = TRUE]
    BY DEF Enqueue
  <2> HIDE DEF c, p, n
  <2> QED
    BY <2>1
<1>3. Neutral(c, r)
  BY <1>1 DEF Neutral, Alike, SameBar, Runtimes
<1> HIDE DEF c
<1>4. c \in Runtimes /\ Good(c, b)
  BY <1>3, NeutralKeeps DEF Neutral, Alike, Good, Quiet
<1>5. p \in Nat /\ n \in Nat
  BY <1>1, <1>4, Counts
<1> HIDE DEF p, n
<1>6. Neutral(x1, c)
  BY <1>4, <1>5 DEF Neutral, Alike, SameBar, Runtimes
<1> HIDE DEF x1
<1>7. x1 \in Runtimes /\ Good(x1, b)
  BY <1>4, <1>6, NeutralKeeps DEF Neutral, Alike, Good, Quiet
<1>8. Neutral(x2, x1)
  BY <1>5, <1>7 DEF Neutral, Alike, SameBar, Runtimes
<1> HIDE DEF x2
<1>9. x2 \in Runtimes /\ Good(x2, b)
  BY <1>7, <1>8, NeutralKeeps DEF Neutral, Alike, Good, Quiet
<1>10. Neutral(x3, x2)
  BY <1>9 DEF Neutral, Alike, SameBar, Runtimes
<1>11. Good(x3, b)
  BY <1>9, <1>10, NeutralKeeps DEF Good, Quiet
<1> QED
  BY <1>2, <1>4, <1>11

LEMMA ReleasedKeysType ==
    ASSUME NEW r \in Runtimes, NEW in, Given(in), NEW left \in Nat
    PROVE  ReleasedKeys(r, in, left).hold \in Nat
<1>1. r.hold \in Nat /\ in.up \in Nat
  BY Counts DEF Given
<1>2. ReleasedKeys(r, in, left).hold \in
          {0, left, Min2(r.hold, left)} \cup
          {h \in {Min2(r.hold - in.up, left)} : ~(r.hold < in.up)}
  BY DEF ReleasedKeys
<1>3. Min2(r.hold, left) \in Nat
  BY <1>1 DEF Min2
<1>4. ~(r.hold < in.up) => Min2(r.hold - in.up, left) \in Nat
  BY <1>1 DEF Min2
<1> QED
  BY <1>2, <1>3, <1>4

LEMMA UpdateHoldFacts ==
    ASSUME Ground, NEW r, NEW b \in Runtimes, Good(r, b), NEW released
    PROVE  Good(UpdateHoldBehavior(r, released), b)
<1>1. NoInput.ignore \in Nat /\ FALSE \in BOOLEAN
  BY DEF NoInput
<1>2. Good(DieOrRecover(r, FALSE), b) /\ Good(Hit(r, NoInput, FALSE), b)
  BY <1>1, DieOrRecoverKeeps, HitKeeps
<1>3. UpdateHoldBehavior(r, released) \in {r, DieOrRecover(r, FALSE), Hit(r, NoInput, FALSE)}
  BY DEF UpdateHoldBehavior
<1> QED
  BY <1>2, <1>3

\* A lock that the beginning of the step has left: what the song went on by is
\* still to be taken off it.
Locked(b, dt) ==
    ~b.responsive /\ ~Helped(b) /\ ~Here(b).portal /\ Pressed(b.seq)
        => b.lock > 0 /\ Late(b) + b.lock < CountedAt + dt

\* update_lock_input takes it off, or lets the player go.
LEMMA UpdateLockFacts ==
    ASSUME Ground, NEW r, NEW b \in Runtimes, Good(r, b), Purse(b),
           NEW dt \in Nat, Locked(b, dt)
    PROVE  LET x == UpdateLock(r, dt)
           IN  /\ Quiet(x, b) /\ Core(x, r)
               /\ ~x.responsive => Entered(x)
<1> DEFINE k == r.lock - dt
           w == [r EXCEPT !.lock = k]
           y == [r EXCEPT !.lock = 0]
           z == [y EXCEPT !.responsive = TRUE]
           x == UpdateLock(r, dt)
<1>1. r \in Runtimes /\ Core(r, b) /\ Core(r, r) /\ Quiet(r, b) /\ r.lock \in Nat
  BY Counts, CoreItself DEF Good, Quiet, Core
<1>2. x = IF r.lock = 0 \/ r.responsive THEN r
          ELSE IF r.lock > dt THEN w
          ELSE [r EXCEPT !.lock = 0, !.responsive = TRUE]
  BY DEF UpdateLock
<1>3. \/ (r.lock = 0 \/ r.responsive) /\ x = r
      \/ r.lock > dt /\ x = w
      \/ x = z
  BY <1>2
<1>4. r.lock > dt => k \in Nat
  BY <1>1
<1> HIDE DEF k, x
<1>5. r.lock > dt => Alike(w, r) /\ w.lock = k
  BY <1>1, <1>4 DEF Alike, SameBar, Runtimes
<1>6. Alike(z, r) /\ z.responsive
  <2>1. y \in Runtimes
    BY <1>1 DEF Runtimes
  <2>2. /\ y.seq = r.seq /\ y.now = r.now /\ y.alive = r.alive /\ y.lives = r.lives
        /\ y.cooldown = r.cooldown /\ y.owed = r.owed /\ y.nested = r.nested
        /\ y.overload = r.overload /\ y.multi = r.multi
        /\ y.midspin = r.midspin /\ y.infinite = r.infinite
    BY <1>1 DEF Runtimes
  <2> HIDE DEF y
  <2>3. Alike(z, y) /\ z.infinite = y.infinite /\ z.responsive
    BY <2>1 DEF Alike, SameBar, Runtimes
  <2> HIDE DEF z
  <2> QED
    BY <2>2, <2>3 DEF Alike, SameBar
<1>7. Alike(r, r)
  BY <1>1 DEF Alike, SameBar
<1> HIDE DEF w, z
<1>8. Alike(x, r)
  BY <1>3, <1>5, <1>6, <1>7
<1>9. Quiet(x, b) /\ Core(x, r)
  BY <1>1, <1>8, AlikeKeeps
<1>10. ASSUME ~x.responsive, ~Helped(x), ~Here(x).portal, Pressed(x.seq)
       PROVE  x.lock > 0 /\ Late(x) + x.lock < CountedAt
  <2>1. x.seq = r.seq /\ x.now = r.now /\ x.lives = r.lives
    BY <1>8 DEF Alike
  <2>2. ~Helped(r) /\ ~Here(r).portal /\ Pressed(r.seq) /\ Late(x) = Late(r)
    BY <1>10, <2>1 DEF Helped, Here, Late
  <2>3. (r.lock > dt /\ x.lock = k) \/ (r.lock = 0 /\ x.lock = r.lock)
    BY <1>3, <1>5, <1>6, <1>10
  <2>4. ~r.responsive
    <3>1. x = r => ~r.responsive
      BY <1>10
    <3>2. r.responsive => x = r
      BY <1>2
    <3> QED
      BY <3>1, <3>2
  <2>5. Late(r) \in Int /\ CountedAt \in Nat
    <3>1. r.seq <= r.seq
      BY <1>1, Counts
    <3> QED
      BY <1>1, <3>1, LateFalls, JudgementAssumption
  <2>6. r.lock > 0 /\ Late(r) + r.lock < CountedAt + dt
    <3>1. CASE Entered(r)
      BY <1>1, <2>2, <2>5, <3>1 DEF Entered
    <3>2. CASE r.seq = b.seq /\ ~b.responsive /\ r.lock = b.lock
      <4>1. b.seq <= r.seq /\ r.now = b.now /\ r.lives <= b.lives
        <5>1. b.seq <= r.seq /\ Paid(r, b) /\ b.lives \in Nat
          BY <1>1, Counts DEF Core
        <5> QED
          BY <5>1 DEF Paid
      <4>2. ~Helped(b)
        BY <1>1, <2>2, <4>1, HelpStays
      <4>3. Late(b) = Late(r) /\ ~Here(b).portal /\ Pressed(b.seq)
        BY <2>2, <3>2, <4>1 DEF Late, Here
      <4> QED
        BY <3>2, <4>2, <4>3 DEF Locked
    <3> QED
      BY <2>4, <3>1, <3>2 DEF Good, Waits
  <2>7. x.lock = r.lock - dt /\ r.lock > dt
    BY <2>3, <2>6 DEF k
  <2> QED
    BY <1>1, <2>2, <2>5, <2>6, <2>7
<1>11. ~x.responsive => Entered(x)
  BY <1>10 DEF Entered
<1> QED
  BY <1>9, <1>11 DEF x

\* What a step that began on tile k leaves of a player who lives.
Left(x, k) == x.alive => (~x.responsive => Entered(x)) /\ Law(x, k)

\* The end of a step.
LEMMA CloseFacts ==
    ASSUME NEW r, NEW b, Quiet(r, b), NEW k, Left(r, k), NEW in, Given(in)
    PROVE  LET x == [r EXCEPT !.progress = 0, !.nextHold = FALSE, !.landed = FALSE,
                              !.downSeen = @ /\ ~in.endsFrame,
                              !.upSeen = @ /\ ~in.endsFrame]
           IN  Quiet(x, b) /\ Left(x, k)
<1> DEFINE d == r.downSeen /\ ~in.endsFrame
           u == r.upSeen /\ ~in.endsFrame
           x1 == [r EXCEPT !.progress = 0]
           x2 == [x1 EXCEPT !.nextHold = FALSE]
           x3 == [x2 EXCEPT !.landed = FALSE]
           x4 == [x3 EXCEPT !.downSeen = d]
           x5 == [x4 EXCEPT !.upSeen = u]
           x == [r EXCEPT !.progress = 0, !.nextHold = FALSE, !.landed = FALSE,
                          !.downSeen = d, !.upSeen = u]
<1>1. r \in Runtimes /\ d \in BOOLEAN /\ u \in BOOLEAN
  BY DEF Quiet, Core
<1> HIDE DEF d, u
<1>2. x = x5
  OBVIOUS
<1>3. x1 \in Runtimes
  BY <1>1 DEF Runtimes
<1> HIDE DEF x1
<1>4. x2 \in Runtimes
  BY <1>3 DEF Runtimes
<1> HIDE DEF x2
<1>5. x3 \in Runtimes
  BY <1>4 DEF Runtimes
<1> HIDE DEF x3
<1>6. x4 \in Runtimes
  BY <1>1, <1>5 DEF Runtimes
<1> HIDE DEF x4
<1>7. x5 \in Runtimes
  BY <1>1, <1>6 DEF Runtimes
<1>8. /\ x.seq = r.seq /\ x.now = r.now /\ x.alive = r.alive /\ x.lives = r.lives
      /\ x.cooldown = r.cooldown /\ x.owed = r.owed /\ x.nested = r.nested
      /\ x.overload = r.overload /\ x.multi = r.multi
      /\ x.responsive = r.responsive /\ x.lock = r.lock
      /\ x.midspin = r.midspin /\ x.infinite = r.infinite
  BY <1>1 DEF Runtimes
<1>9. x \in Runtimes
  BY <1>2, <1>7
<1> HIDE DEF x, x5
<1>10. Alike(x, r)
  BY <1>8, <1>9 DEF Alike, SameBar
<1>11. Quiet(x, b)
  BY <1>10, AlikeKeeps DEF Quiet
<1>12. Left(x, k)
  BY <1>8 DEF Left, Entered, Law, Helped, Late, LateLimit, Here, HasNext, AutoPath, NextIsAuto
<1> QED
  BY <1>11, <1>12 DEF x, d, u

\* One step of a player that is alive, from the moment the song has gone on.
LEMMA StepFacts ==
    ASSUME Ground, NEW r, Quiet(r, r), r.alive, ~r.responsive => Entered(r),
           NEW in, Given(in), NEW keys \in Nat
    PROVE  /\ Advance(r, in) \in Runtimes
           /\ Quiet(StepOf(r, in, keys), Advance(r, in))
           /\ Left(StepOf(r, in, keys), r.seq)
<1> DEFINE b == Advance(r, in)
           Raised(x) == IF in.up > 0 \/ in.upIgnore > 0 THEN GateUp(x, in) ELSE x
           Played(x) == IF ~x.alive THEN x
                        ELSE UpdateLock(Raised(KeysSettled(x, in, keys)), in.dt)
           Checked(x, let) == Settle(CheckPreHoldFail, Settle(HitStartHold,
                              UpdateHoldBehavior(Enqueue(Settle(OttoHoldHit, x), in), let)))
           Kept(x, let) == IF ~x.alive THEN x ELSE Played(Checked(x, let))
           Passed(x, let) == Settle(CheckPostHoldFail, [x EXCEPT !.hold = let.hold])
           Judged(x, let) == IF ~x.alive THEN x ELSE Kept(Passed(x, let), let.released)
           End(x) == [x EXCEPT !.progress = 0, !.nextHold = FALSE, !.landed = FALSE,
                               !.downSeen = @ /\ ~in.endsFrame,
                               !.upSeen = @ /\ ~in.endsFrame]
           f == FailBarUpdate(b, in.dt)
           j == Judged(f, ReleasedKeys(f, in, keys))
<1>1. StepOf(r, in, keys) = End(j)
  BY DEF StepOf, KeysSettled
<1>2. /\ r \in Runtimes /\ Core(r, r) /\ Purse(r) /\ ~r.owed /\ Barred(r)
      /\ r.cooldown \in Nat /\ r.lives \in Nat /\ r.seq \in Nat /\ r.now \in Nat /\ r.lock \in Nat
  BY Counts, TileFacts DEF Quiet, Core
<1>3. /\ b \in Runtimes /\ b.seq = r.seq /\ b.now = r.now + in.dt /\ b.alive = r.alive
      /\ b.lives = r.lives /\ b.owed = r.owed /\ b.nested = r.nested /\ SameBar(b, r)
      /\ b.responsive = r.responsive /\ b.lock = r.lock
      /\ b.midspin = r.midspin /\ b.infinite = r.infinite
      /\ b.cooldown = Larger(0, r.cooldown - in.dt)
  BY <1>2, AdvanceFacts
<1>4. in.dt \in Nat /\ in.ignore \in Nat /\ in.upIgnore \in Nat
  BY DEF Given
<1> HIDE DEF b
<1>5. (b.cooldown > 0 => r.cooldown > 0) /\ (in.dt = 0 => b.cooldown = r.cooldown)
  BY <1>2, <1>3, <1>4 DEF Larger
<1>6. Core(b, b) /\ Waits(b, b) /\ Purse(b) /\ (Helped(b) <=> Helped(r)) /\ Here(b) = Here(r)
  <2>1. (Helped(b) <=> Helped(r)) /\ Here(b) = Here(r)
    BY <1>3 DEF Helped, Here
  <2>2. Purse(b)
    BY <1>2, <1>3, <1>5 DEF Purse
  <2>3. Paid(b, b) /\ b.seq <= b.seq
    BY <1>2, <1>3 DEF Paid
  <2>4. Core(b, b)
    BY <1>2, <1>3, <2>1, <2>2, <2>3 DEF Core
  <2> QED
    BY <2>1, <2>2, <2>4 DEF Waits
<1>7. in.dt = 0 => Barred(b)
  BY <1>2, <1>3, <1>5, BarHere
<1>8. Locked(b, in.dt)
  <2>1. SUFFICES ASSUME ~b.responsive, ~Helped(b), ~Here(b).portal, Pressed(b.seq)
                 PROVE  b.lock > 0 /\ Late(b) + b.lock < CountedAt + in.dt
    BY DEF Locked
  <2>2. r.lock > 0 /\ Late(r) + r.lock < CountedAt
    BY <1>3, <1>6, <2>1 DEF Entered
  <2>3. Late(r) \in Int /\ Late(b) = Late(r) + in.dt
    <3>1. r.seq + 1 \in 0..Last + 1
      BY <1>2, DueType, Counts
    <3>2. Due[r.seq + 1] \in Nat
      BY <3>1, DueType
    <3>3. Late(r) = r.now - Due[r.seq + 1] /\ Late(b) = (r.now + in.dt) - Due[r.seq + 1]
      BY <1>3 DEF Late
    <3> QED
      BY <1>2, <1>4, <3>2, <3>3
  <2> QED
    BY <1>2, <1>3, <1>4, <2>2, <2>3, JudgementAssumption
<1>9. Good(f, b)
  BY <1>2, <1>3, <1>4, <1>6, <1>7, FailBarFacts
<1> HIDE DEF f
<1>10. ASSUME NEW x, NEW c \in Runtimes, Good(x, c)
       PROVE  Good(Raised(KeysSettled(x, in, keys)), c)
  <2> DEFINE k == KeysSettled(x, in, keys)
  <2>1. Good(k, c)
    BY <1>4, <1>10, SettleKeys
  <2> HIDE DEF k
  <2>2. Neutral(GateUp(k, in), k)
    BY <1>4, <2>1, GateUpFacts DEF Good, Quiet, Core
  <2>3. Good(Raised(k), c)
    BY <2>1, <2>2, NeutralKeeps DEF Good, Quiet
  <2> QED
    BY <2>3 DEF k
<1>11. ASSUME NEW x, NEW c \in Runtimes, Good(x, c), NEW let PROVE Good(Checked(x, let), c)
  <2> DEFINE o == Settle(OttoHoldHit, x)
             e == Enqueue(o, in)
             u == UpdateHoldBehavior(e, let)
             h == Settle(HitStartHold, u)
  <2>1. Good(o, c)
    BY <1>11, SettleOtto
  <2> HIDE DEF o
  <2>2. Good(e, c)
    BY <2>1, EnqueueFacts
  <2> HIDE DEF e
  <2>3. Good(u, c)
    BY <2>2, UpdateHoldFacts
  <2> HIDE DEF u
  <2>4. Good(h, c)
    BY <2>3, SettleHitStart
  <2> HIDE DEF h
  <2>5. Good(Settle(CheckPreHoldFail, h), c)
    BY <2>4, SettlePreHold
  <2> QED
    BY <2>5 DEF h, u, e, o
<1> HIDE DEF Raised, Checked
<1>12. ASSUME NEW x, Good(x, b), Law(x, r.seq), NEW let
       PROVE  Quiet(Kept(x, let), b) /\ Left(Kept(x, let), r.seq)
  <2> DEFINE y == Checked(x, let)
             z == Raised(KeysSettled(y, in, keys))
             u == UpdateLock(z, in.dt)
  <2>1. x \in Runtimes /\ Good(x, x) /\ r.seq <= x.seq
    BY <1>3, <1>12, GoodItself DEF Good, Quiet, Core
  <2>2. Good(y, b) /\ Good(y, x)
    BY <1>3, <1>11, <1>12, <2>1
  <2> HIDE DEF y
  <2>3. Good(z, b) /\ Good(z, x)
    BY <1>3, <1>10, <2>1, <2>2
  <2> HIDE DEF z
  <2>4. z \in Runtimes /\ Core(z, x) /\ r.seq <= z.seq
    <3>1. z \in Runtimes /\ Core(z, x) /\ b.seq <= z.seq
      BY <2>3 DEF Good, Quiet, Core
    <3> QED
      BY <1>3, <3>1
  <2>5. Law(z, r.seq)
    BY <1>2, <1>12, <2>1, <2>4, LawStays
  <2>6. Quiet(u, b) /\ Core(u, z) /\ (~u.responsive => Entered(u))
    BY <1>3, <1>4, <1>6, <1>8, <2>3, UpdateLockFacts
  <2> HIDE DEF u
  <2>7. Law(u, r.seq)
    BY <1>2, <2>4, <2>5, <2>6, LawStays
  <2>8. Quiet(u, b) /\ Left(u, r.seq)
    BY <2>6, <2>7 DEF Left
  <2>9. Quiet(x, b) /\ Quiet(y, b)
    BY <1>12, <2>2 DEF Good
  <2>10. Kept(x, let) = IF ~x.alive THEN x ELSE IF ~y.alive THEN y ELSE u
    BY DEF y, z, u
  <2> HIDE DEF Kept
  <2> QED
    BY <2>8, <2>9, <2>10 DEF Left
<1>13. ASSUME NEW x, Good(x, b), NEW let, let.hold \in Nat
       PROVE  Good(Passed(x, let), b) /\ Law(Passed(x, let), r.seq)
  <2> DEFINE k == let.hold
             y == [x EXCEPT !.hold = k]
  <2>1. x \in Runtimes /\ k \in Nat
    BY <1>13 DEF Good, Quiet, Core
  <2> HIDE DEF k
  <2>2. Neutral(y, x)
    BY <2>1 DEF Neutral, Alike, SameBar, Runtimes
  <2> HIDE DEF y
  <2>3. Good(y, b)
    BY <1>13, <2>2, NeutralKeeps DEF Good, Quiet
  <2>4. Good(Settle(CheckPostHoldFail, y), b) /\ Law(Settle(CheckPostHoldFail, y), r.seq)
    BY <1>3, <2>3, SettlePostHold
  <2> QED
    BY <2>4 DEF y, k
<1> HIDE DEF Kept, Passed
<1>14. Quiet(j, b) /\ Left(j, r.seq)
  <2>1. ReleasedKeys(f, in, keys).hold \in Nat
    BY <1>9, ReleasedKeysType DEF Good, Quiet, Core
  <2> DEFINE let == ReleasedKeys(f, in, keys)
  <2> HIDE DEF let
  <2>2. Good(Passed(f, let), b) /\ Law(Passed(f, let), r.seq)
    BY <1>9, <1>13, <2>1 DEF let
  <2>3. /\ Quiet(Kept(Passed(f, let), let.released), b)
        /\ Left(Kept(Passed(f, let), let.released), r.seq)
    BY <1>12, <2>2
  <2>4. Quiet(f, b) /\ (~f.alive => Left(f, r.seq))
    BY <1>9 DEF Good, Left
  <2>5. Quiet(Judged(f, let), b) /\ Left(Judged(f, let), r.seq)
    BY <2>3, <2>4
  <2> QED
    BY <2>5 DEF let
<1> HIDE DEF j
<1>15. Quiet(End(j), b) /\ Left(End(j), r.seq)
  BY <1>14, CloseFacts
<1> QED
  BY <1>1, <1>3, <1>15 DEF b

-----------------------------------------------------------------------------
(* The invariant, and what follows from it.                                *)

\* Between two steps no recovery hit is owed, no bar that is over was carried
\* past a death, only a player without lives is dead, who waits for his input
\* will get it in time, and nobody unaided is left behind.
Replica ==
    /\ Ground /\ <<chart, cfg>> \in Games /\ held \in 0..MaxHeld
    /\ Quiet(rt, rt)
    /\ Left(rt, 0)

\* What a step may do to the lives.
OneLife ==
    /\ rt'.lives \in {rt.lives, rt.lives - 1}
    /\ rt'.lives < rt.lives => rt.cooldown <= rt'.now - rt.now
    /\ ~rt'.alive => rt'.lives = 0

\* Whom a step leaves behind was aided on its way.
AidLeavesBehind ==
    rt'.alive /\ (HasNext(rt) /\ Mortal /\ Late(rt) > LateLimit(rt))'
        => ~Bare(rt.seq, rt'.seq)

LEMMA GameFacts ==
    ASSUME <<chart, cfg>> \in Games
    PROVE  Ground
<1>1. chart \in Seq(Tile) \ {<<>>} /\ cfg \in Config
  BY JudgementAssumption
<1> QED
  BY <1>1 DEF Ground

LEMMA ReplicaInit == Init => Replica
<1> SUFFICES ASSUME Init PROVE Replica
  OBVIOUS
<1>1. PICK game \in Games : chart = game[1] /\ cfg = game[2]
  BY DEF Init
<1>2. rt = Start /\ held = 0
  BY DEF Init
<1>3. <<chart, cfg>> \in Games /\ Ground
  <2>1. game \in (Seq(Tile) \ {<<>>}) \X Config
    BY JudgementAssumption
  <2>2. game = <<chart, cfg>>
    BY <1>1, <2>1
  <2> QED
    BY <2>2, GameFacts
<1>4. cfg.lives \in Nat /\ Last \in Nat /\ MaxHeld \in Nat /\ Beat \in Nat
  BY <1>3, TileFacts, JudgementAssumption DEF Ground, Config
<1>5. Start \in Runtimes
  BY <1>4 DEF Start, Runtimes
<1>6. /\ ~Start.owed /\ ~Start.nested /\ Start.alive /\ Start.lives = cfg.lives
      /\ Start.cooldown = 0 /\ Start.overload = 0 /\ Start.multi = 0 /\ Start.responsive
      /\ ~Start.midspin /\ ~Start.infinite /\ Start.now = 0 /\ Start.seq = 0
  BY DEF Start
<1>7. ~FailBarOver(Start)
  BY <1>4, <1>5, <1>6, LowBar
<1>8. Quiet(Start, Start)
  BY <1>4, <1>5, <1>6, <1>7 DEF Quiet, Core, Paid, Purse, Barred
<1>9. ~(Late(Start) > LateLimit(Start))
  <2>1. 1 \in 0..Last + 1 /\ 0 + 1 = 1
    BY <1>4
  <2>2. Due[0 + 1] \in Nat
    BY <1>3, <2>1, DueType
  <2>3. Late(Start) = 0 - Due[0 + 1]
    BY <1>6 DEF Late
  <2>4. LateLimit(Start) \in Nat
    BY JudgementAssumption DEF LateLimit, Larger
  <2> QED
    BY <2>2, <2>3, <2>4
<1>10. Left(Start, 0)
  BY <1>6, <1>9 DEF Left, Law
<1> QED
  BY <1>2, <1>3, <1>4, <1>8, <1>10 DEF Replica

\* Nobody is aided on fewer tiles.
LEMMA BareBefore ==
    ASSUME Ground, NEW r \in Runtimes, NEW k \in Nat, Left(r, k)
    PROVE  Left(r, 0)
<1>1. \A j \in k..r.seq : j \in 0..r.seq
  BY Counts
<1>2. Bare(0, r.seq) => Bare(k, r.seq)
  BY <1>1 DEF Bare
<1> QED
  BY <1>2 DEF Left, Law

LEMMA ReplicaStep ==
    ASSUME Replica, Next
    PROVE  Replica' /\ OneLife /\ AidLeavesBehind
<1>1. PICK in \in Inputs : Step(in)
  BY DEF Next
<1> DEFINE b == Advance(rt, in)
<1>2. /\ Ground /\ Quiet(rt, rt) /\ rt \in Runtimes /\ rt.alive
      /\ ~rt.responsive => Entered(rt)
  BY <1>1 DEF Replica, Step, Possible, Quiet, Core, Left
<1>3. Given(in)
  BY InputFacts
<1>4. held' = held + in.down - in.up /\ held' \in 0..MaxHeld /\ held' \in Nat
  BY <1>1, JudgementAssumption DEF Step, Possible, Sensible
<1>5. rt' = StepOf(rt, in, held') /\ chart' = chart /\ cfg' = cfg
  BY <1>1, <1>4 DEF Step
<1>6. b \in Runtimes /\ Quiet(rt', b) /\ Left(rt', rt.seq)
  BY <1>2, <1>3, <1>4, <1>5, StepFacts
<1>7. b.now = rt.now + in.dt /\ b.lives = rt.lives /\ b.cooldown = Larger(0, rt.cooldown - in.dt)
  BY <1>2, <1>3, AdvanceFacts
<1> HIDE DEF b
<1>8. rt' \in Runtimes /\ Paid(rt', b) /\ Quiet(rt', rt')
  BY <1>6, CoreItself DEF Quiet, Core
<1>9. Replica'
  <2>1. <<chart', cfg'>> \in Games /\ Ground'
    BY <1>2, <1>5 DEF Replica, Ground
  <2>2. rt.seq \in Nat
    BY <1>2, TileFacts, Counts
  <2>3. Left(rt', 0)
    BY <1>2, <1>6, <1>8, <2>2, BareBefore
  <2>4. Quiet(rt, rt)'
    BY <1>5, <1>8 DEF Quiet, Core, Runtimes, Paid, Purse, PureExpo, Expo, Helped, Unaided, Barred,
       Spared, SafeAt, FailBarOver, AutoPath, NextIsAuto, HasNext, Here, At, Last
  <2>5. Left(rt, 0)'
    BY <1>5, <2>3 DEF Left, Law, Entered, Helped, Unaided, Pressed, Bare, Late, Due, LateLimit,
       AutoPath, NextIsAuto, HasNext, Here, At, Last
  <2> QED
    BY <1>4, <2>1, <2>4, <2>5 DEF Replica
<1>10. OneLife
  <2>1. rt.now \in Nat /\ rt.cooldown \in Nat /\ rt.lives \in Nat /\ in.dt \in Nat
    BY <1>2, <1>3, Counts DEF Given
  <2>2. rt'.now - rt.now = in.dt
    BY <1>7, <1>8, <2>1 DEF Paid
  <2>3. b.cooldown = 0 => rt.cooldown <= in.dt
    BY <1>7, <2>1 DEF Larger
  <2>4. ~rt'.alive => rt'.lives = 0
    BY <1>8 DEF Paid
  <2> QED
    BY <1>7, <1>8, <2>1, <2>2, <2>3, <2>4 DEF OneLife, Paid
<1>11. AidLeavesBehind
  <2>1. (HasNext(rt) /\ Mortal /\ Late(rt) > LateLimit(rt))' <=>
           /\ HasNext(rt') /\ Late(rt') > LateLimit(rt')
           /\ ~cfg.noFail /\ ~SafeAt(rt'.seq) /\ rt'.cooldown = 0
           /\ ~AutoPath(rt') \/ cfg.oldAuto
    BY <1>5 DEF Mortal, SafeAt, Late, Due, LateLimit, AutoPath, NextIsAuto, HasNext, Here, At, Last
  <2> QED
    BY <1>6, <2>1 DEF AidLeavesBehind, Left, Law
<1> QED
  BY <1>9, <1>10, <1>11

LEMMA ReplicaAlways == Spec => []Replica
<1>1. Replica /\ [Next]_vars => Replica'
  <2> SUFFICES ASSUME Replica, [Next]_vars PROVE Replica'
    OBVIOUS
  <2>1. CASE Next
    BY <2>1, ReplicaStep
  <2>2. CASE UNCHANGED vars
    <3>1. rt' = rt /\ held' = held /\ chart' = chart /\ cfg' = cfg
      BY <2>2 DEF vars
    <3>2. Quiet(rt', rt') /\ Left(rt', 0)
      BY <3>1 DEF Replica
    <3>3. (Ground /\ <<chart, cfg>> \in Games /\ held \in 0..MaxHeld)'
      BY <3>1 DEF Replica, Ground
    <3>4. Quiet(rt, rt)'
      BY <3>1, <3>2 DEF Quiet, Core, Runtimes, Paid, Purse, PureExpo, Expo, Helped, Unaided,
         Barred, Spared, SafeAt, FailBarOver, AutoPath, NextIsAuto, HasNext, Here, At, Last
    <3>5. Left(rt, 0)'
      BY <3>1, <3>2 DEF Left, Law, Entered, Helped, Unaided, Pressed, Bare, Late, Due,
         LateLimit, AutoPath, NextIsAuto, HasNext, Here, At, Last
    <3> QED
      BY <3>3, <3>4, <3>5 DEF Replica
  <2> QED
    BY <2>1, <2>2
<1> QED
  BY <1>1, ReplicaInit, PTL DEF Spec

\* The runtime keeps its shape: the seq_id of playercontrol_step stays on the
\* chart and no counter of AdoOfficialRuntime goes below zero, whatever the
\* order of deaths, recovery hits and keys within a step.
THEOREM RuntimeTypes == Spec => []TypeOK
<1>1. Replica => TypeOK
  <2> SUFFICES ASSUME Replica PROVE TypeOK
    OBVIOUS
  <2>1. rt \in Runtimes /\ <<chart, cfg>> \in Games /\ held \in 0..MaxHeld
    BY DEF Replica, Quiet, Core
  <2>2. /\ rt.seq \in 0..Last /\ rt.now \in Nat
        /\ {rt.lock, rt.pending, rt.midPending, rt.taps, rt.consec, rt.over, rt.ignore,
            rt.hold, rt.overload, rt.multi, rt.since, rt.cooldown, rt.lives} \subseteq Nat
    BY <2>1, Counts
  <2>3. {rt.alive, rt.responsive, rt.midspin, rt.downSeen, rt.upSeen, rt.penalty,
         rt.first, rt.infinite, rt.nextHold, rt.owed, rt.nested, rt.landed} \subseteq BOOLEAN
    BY <2>1, Switches
  <2> QED
    BY <2>1, <2>2, <2>3 DEF TypeOK
<1> QED
  BY <1>1, ReplicaAlways, PTL

\* failbar_update and on_damage judge the bar where it grows: a bar that is
\* over has killed, but for a player who was spared, here or on the tile before.
THEOREM FullBarKills == Spec => []FailBarKills
<1>1. Replica => FailBarKills
  <2> SUFFICES ASSUME Replica, rt.alive, Mortal, FailBarOver(rt)
               PROVE  rt.seq > 0 /\ (SafeAt(rt.seq - 1) \/ (Here(rt).auto /\ ~cfg.oldAuto))
    BY DEF FailBarKills
  <2>1. ~Spared(rt)
    <3>1. rt.cooldown \in Nat
      BY Counts DEF Replica, Quiet, Core
    <3> QED
      BY <3>1 DEF Mortal, Spared
  <2> QED
    BY <2>1 DEF Replica, Quiet, Barred
<1> QED
  BY <1>1, ReplicaAlways, PTL

\* die_or_recover calls hit, which calls die_or_recover: only the strictest
\* limit together with lives leads the calls any deeper.
THEOREM RecoveryIsNotNested == Spec => []NestsOnlyWithLivesAndPure
<1>1. Replica => NestsOnlyWithLivesAndPure
  <2> SUFFICES ASSUME Replica, rt.nested
               PROVE  cfg.limit = "PURE_PERFECT_ONLY" /\ cfg.lives > 0
    BY DEF NestsOnlyWithLivesAndPure
  <2> QED
    BY DEF Replica, Quiet, Core, PureExpo, Expo
<1> QED
  BY <1>1, ReplicaAlways, PTL

\* However many checks of one playercontrol_step fail, die_or_recover takes one
\* life, none while the last one cools down, and kills with the last.
THEOREM StepCostsOneLife == Spec => OneLifeAtATime
<1>1. Replica /\ [Next]_vars => [OneLife]_vars
  BY ReplicaStep
<1> QED
  BY <1>1, ReplicaAlways, PTL DEF Spec, OneLifeAtATime, OneLife

\* check_post_hold_fail runs once a step, before the keys, and again only while
\* the tile changes: whoever a step leaves behind the post-hold limit without
\* his death passed, in that very step, a tile that spared him or was taken for
\* him.  No key, release, recovery hit or damage after the check does it.
THEOREM OnlyAidLeavesBehind == Spec => [][AidLeavesBehind]_vars
<1>1. Replica /\ [Next]_vars => [AidLeavesBehind]_vars
  BY ReplicaStep
<1> QED
  BY <1>1, ReplicaAlways, PTL DEF Spec

\* A player whom no tile has aided cannot stay behind while the planet turns
\* past the next tile: check_post_hold_fail kills him, or a life he pays for
\* cools down.
THEOREM NobodyLeftBehind == Spec => []NeverLeftBehind
<1>1. Replica => NeverLeftBehind
  <2> SUFFICES ASSUME Replica, rt.alive, HasNext(rt), Mortal, Unaided(rt.seq)
               PROVE  Late(rt) <= LateLimit(rt)
    BY DEF NeverLeftBehind
  <2>1. Ground /\ rt \in Runtimes /\ Law(rt, 0)
    BY DEF Replica, Quiet, Core, Left
  <2>2. Late(rt) \in Int /\ LateLimit(rt) \in Nat /\ rt.cooldown \in Nat
    <3>1. rt.seq <= rt.seq
      BY <2>1, Counts
    <3>2. LateLimit(rt) \in Nat
      BY JudgementAssumption DEF LateLimit, Larger
    <3> QED
      BY <2>1, <3>1, <3>2, LateFalls, Counts
  <2>3. Bare(0, rt.seq)
    BY DEF Bare, Unaided
  <2>4. ~(Late(rt) > LateLimit(rt))
    BY <2>1, <2>2, <2>3 DEF Law, Mortal
  <2> QED
    BY <2>2, <2>4
<1> QED
  BY <1>1, ReplicaAlways, PTL

\* move_to_next_floor locks the input only on a tile whose pause leaves time
\* for the next, and update_lock_input lets go by then: a press that was in
\* time is never the reason of a miss.
THEOREM PauseLetsGoInTime == Spec => []PauseEndsInTime
<1>1. Replica => PauseEndsInTime
  <2> SUFFICES ASSUME Replica, rt.alive, ~rt.responsive, ~Here(rt).portal,
                      ~cfg.noFail, rt.lives = cfg.lives, Pressed(rt.seq)
               PROVE  Late(rt) <= CountedAt
    BY DEF PauseEndsInTime
  <2>1. Ground /\ rt \in Runtimes /\ Entered(rt) /\ cfg.lives \in Nat
    BY DEF Replica, Quiet, Core, Left, Purse
  <2>2. ~Helped(rt)
    BY <2>1 DEF Helped, Pressed
  <2>3. rt.lock > 0 /\ Late(rt) + rt.lock < CountedAt
    BY <2>1, <2>2 DEF Entered
  <2>4. Late(rt) \in Int /\ rt.lock \in Nat /\ CountedAt \in Nat
    <3>1. rt.seq <= rt.seq
      BY <2>1, Counts
    <3> QED
      BY <2>1, <3>1, LateFalls, Counts, JudgementAssumption
  <2> QED
    BY <2>3, <2>4
<1> QED
  BY <1>1, ReplicaAlways, PTL
=============================================================================
