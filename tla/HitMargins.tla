----------------------------- MODULE HitMargins -----------------------------
(***************************************************************************)
(* The judgement of one press: how far the planet's angle is from the      *)
(* angle of the next tile, and which of seven margins that distance falls  *)
(* into.  Degrees, seconds, pitch and speed trial are reals in the code;   *)
(* here every one of them is an integer (milliseconds, percent), and a     *)
(* boundary is in units of 1/(100000 * trial) degree, so that no quotient  *)
(* is rounded.                                                             *)
(***************************************************************************)
EXTENDS Integers

\* The margins an angle can fall into, numbered from the earliest to the latest.
MarginRank == [TOO_EARLY    |-> 1, VERY_EARLY |-> 2, EARLY_PERFECT |-> 3,
               PERFECT      |-> 4,
               LATE_PERFECT |-> 5, VERY_LATE  |-> 6, TOO_LATE      |-> 7]

Margins == DOMAIN MarginRank

Rank(margin) == MarginRank[margin]

Limits == {"NONE", "PERFECTS_ONLY", "PURE_PERFECT_ONLY"}

Difficulties == {"LENIENT", "NORMAL", "STRICT"}

(***************************************************************************)
(* What a boundary depends on: the settings of the player (mobile,         *)
(* difficulty, speed trial in percent), the counted angle of the config,   *)
(* and the chart at the tile (beats per minute times speed, pitch in       *)
(* percent, margin scale in percent).                                      *)
(***************************************************************************)
Settings == [mobile : BOOLEAN, difficulty : Difficulties, trial : Nat \ {0},
             countedAngle : Nat, bpm : Int, pitch : Nat, scale : Nat]

Larger(a, b) == IF a > b THEN a ELSE b

\* Mutant: the difficulty enumeration read from its other end.
CountedTimeReversed(s) ==
    IF s.mobile THEN 90 * s.trial
    ELSE Larger(100 * (CASE s.difficulty = "LENIENT" -> 40
                         [] s.difficulty = "STRICT"  -> 91
                         [] OTHER                    -> 65),
                25 * s.trial)

\* The counted, perfect and pure widths in milliseconds * trial.
CountedTime(s) ==
    IF s.mobile THEN 90 * s.trial
    ELSE Larger(100 * (CASE s.difficulty = "LENIENT" -> 91
                         [] s.difficulty = "STRICT"  -> 40
                         [] OTHER                    -> 65),
                25 * s.trial)

PerfectTime(s) == IF s.mobile THEN 70 * s.trial ELSE Larger(3000, 25 * s.trial)

PureTime(s) == IF s.mobile THEN 50 * s.trial ELSE Larger(2000, 25 * s.trial)

\* An angle width stays as it is; a time width grows with the tempo.  The
\* boundary is the larger of the two.
Boundary(angle, time, s) ==
    Larger(angle * s.scale * 1000 * s.trial,
           IF s.bpm <= 0 THEN 0 ELSE 3 * time * s.pitch * s.bpm)

Counted(s) == Boundary(s.countedAngle, CountedTime(s), s)
Perfect(s) == Boundary(45, PerfectTime(s), s)
Pure(s)    == Boundary(30, PureTime(s), s)

\* Mutant: the early side tests the wide boundary first.
HitMarginEarlyWide(delta, counted, perfect, pure) ==
    IF delta > counted       THEN "TOO_LATE"
    ELSE IF delta > perfect  THEN "VERY_LATE"
    ELSE IF delta > pure     THEN "LATE_PERFECT"
    ELSE IF delta > -pure    THEN "PERFECT"
    ELSE IF delta > -counted THEN "VERY_EARLY"
    ELSE IF delta > -perfect THEN "EARLY_PERFECT"
    ELSE "TOO_EARLY"

\* Mutant: an early zone is tested by the distance without its sign.
HitMarginUnsigned(delta, counted, perfect, pure) ==
    IF delta > counted       THEN "TOO_LATE"
    ELSE IF delta > perfect  THEN "VERY_LATE"
    ELSE IF delta > pure     THEN "LATE_PERFECT"
    ELSE IF delta > -pure    THEN "PERFECT"
    ELSE IF -delta > perfect THEN "EARLY_PERFECT"
    ELSE IF delta > -counted THEN "VERY_EARLY"
    ELSE "TOO_EARLY"

\* The tests come in this order in the code, from the first to the last, and
\* a later one overrules an earlier one.
HitMargin(delta, counted, perfect, pure) ==
    IF delta > counted       THEN "TOO_LATE"
    ELSE IF delta > perfect  THEN "VERY_LATE"
    ELSE IF delta > pure     THEN "LATE_PERFECT"
    ELSE IF delta > -pure    THEN "PERFECT"
    ELSE IF delta > -perfect THEN "EARLY_PERFECT"
    ELSE IF delta > -counted THEN "VERY_EARLY"
    ELSE "TOO_EARLY"

\* The margin of a press at distance delta from the tile.
Judge(delta, s) == HitMargin(delta, Counted(s), Perfect(s), Pure(s))

\* Which margins hit the tile, under the player's margin limit.
IsValidHit(margin, limit) ==
    CASE limit = "PERFECTS_ONLY" ->
             margin \in {"EARLY_PERFECT", "PERFECT", "LATE_PERFECT"}
      [] limit = "PURE_PERFECT_ONLY" -> margin = "PERFECT"
      [] OTHER -> margin \in Margins \ {"TOO_EARLY", "TOO_LATE"}
=============================================================================
