--------------------------- MODULE TurningPlanet ----------------------------
(***************************************************************************)
(* The planet turns towards the next tile and past it.  angle is what it   *)
(* has turned past that tile (before it: negative), in 1/100000 degree,    *)
(* and the settings are any of the instance's.                             *)
(***************************************************************************)
EXTENDS HitMargins

CONSTANTS Instances,    \* the settings that are tried
          Sweep,        \* the planet turns from -Sweep to Sweep
          Turn          \* the angle of one step

ASSUME TurningAssumption ==
    /\ Instances \subseteq Settings
    /\ \A s \in Instances : s.countedAngle >= 45
    /\ Sweep \in Nat
    /\ Turn \in Nat \ {0}

VARIABLES settings, angle

planet == <<settings, angle>>

PlanetInit == settings \in Instances /\ angle = -Sweep

Rotate ==
    /\ angle < Sweep
    /\ angle' = angle + Turn
    /\ UNCHANGED settings

PlanetSpec == PlanetInit /\ [][Rotate]_planet

\* What a press at angle a is judged as under the settings s.
Press(a, s) == Judge(a * s.trial, s)

-----------------------------------------------------------------------------
\* A press so much early is judged as a press so much late is, mirrored: no
\* boundary test uses the width or the sign of another (get_hit_margin).  On a
\* boundary itself the tests, all strict, choose the earlier margin.
MirrorImage ==
    \/ \E b \in {Counted(settings), Perfect(settings), Pure(settings)} :
          angle * settings.trial \in {b, -b}
    \/ Rank(Press(-angle, settings)) = 8 - Rank(Press(angle, settings))

\* s asks no more of the player than t: an easier difficulty, a slower trial.
AsEasyAs(s, t) ==
    /\ s = [t EXCEPT !.difficulty = s.difficulty, !.trial = s.trial]
    /\ s.trial <= t.trial
    /\ \/ s.difficulty = t.difficulty
       \/ s.difficulty = "LENIENT"
       \/ t.difficulty = "STRICT"

\* Easier settings never turn a hit into a miss: what is valid under a limit,
\* a difficulty and a trial is valid under a wider limit, an easier difficulty
\* and a slower trial.  The widths, their floor of 25 ms, the division by the
\* trial and the maximum with the fixed angles must not cross for that.
EasierKeepsHits ==
    \A easier \in {s \in Instances : AsEasyAs(s, settings)}, wide, tight \in Limits :
       (wide = "NONE" \/ wide = tight \/ tight = "PURE_PERFECT_ONLY")
          => (IsValidHit(Press(angle, settings), tight)
                 => IsValidHit(Press(angle, easier), wide))

\* While the planet turns, the margin a press would get only grows later:
\* none of the seven zones is cut in two by another.
MarginNeverGoesBack ==
    [][Rank(Press(angle', settings')) >= Rank(Press(angle, settings))]_planet
=============================================================================
