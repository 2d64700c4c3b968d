------------------------------ MODULE Judgement -----------------------------
(***************************************************************************)
(* The audit replica of the official judgement (official_judgement.c): one *)
(* player on a chart, one action per call of playercontrol_step.           *)
(*                                                                         *)
(* The functions of the replica change one runtime structure in place, so  *)
(* they are operators from a runtime record to a runtime record here, in   *)
(* the order the code calls them.  Angles and song time are one scale: the *)
(* replica lets the planet turn with the song, so that the angle past the  *)
(* next tile is the song time past the moment that tile is due.            *)
(***************************************************************************)
EXTENDS HitMargins, Sequences

CONSTANTS
    Games,                  \* pairs of a chart (tiles from tile 0 on) and settings
    Beat,                   \* song time of one beat, half a turn of the planet
    CountedAt, PerfectAt, PureAt,   \* the boundaries in song time
    CooldownTime,           \* two seconds
    Rounds,                 \* bound of the loops "while the floor changes": 16 in the code
    Dts, MaxDown, MaxOver, MaxIgnore, MaxHeld,    \* bounds of the input of a step
    MaxPending, MaxBar,     \* keys that wait and damage taken, in the states explored
    Slack,                  \* song time explored past the end of the chart
    Frames,                 \* whether a step may be the last of its frame
    Releases                \* which of "none", "clear", "force" a step may bring

\* turn is the class of the angle between a tile and the next: under 15.1
\* degrees, under 30.1, under 89.9, or wider.  pause is in beats.
Tile == [gap : Nat, hold : BOOLEAN, mid : BOOLEAN, taps : Nat \ {0}, auto : BOOLEAN,
         safe : BOOLEAN, portal : BOOLEAN, pause : Nat,
         turn : {"tight", "narrow", "open", "wide"}]

\* lives = 0 outside the expo mode.
Config == [noFail : BOOLEAN, strictHolds : BOOLEAN, requireHolding : BOOLEAN,
           limit : Limits, oldAuto : BOOLEAN, autoPlayer : BOOLEAN,
           hitOnce : BOOLEAN, official : BOOLEAN, lives : Nat]

ASSUME JudgementAssumption ==
    /\ Games \subseteq (Seq(Tile) \ {<<>>}) \X Config
    /\ Beat \in Nat \ {0}
    /\ PureAt \in Nat /\ PerfectAt \in Nat /\ CountedAt \in Nat
    /\ PureAt <= PerfectAt /\ PerfectAt <= CountedAt
    /\ Dts \subseteq Nat /\ Frames \subseteq BOOLEAN
    /\ Releases \subseteq {"none", "clear", "force"}
    /\ CooldownTime \in Nat \ {0}
    /\ Rounds \in Nat \ {0}
    /\ {MaxDown, MaxOver, MaxIgnore, MaxHeld, MaxPending, MaxBar, Slack} \subseteq Nat

VARIABLES
    chart,      \* the chart that is played
    cfg,        \* AdoOfficialConfig and the settings of AdoOfficialController
    rt,         \* AdoOfficialRuntime
    held        \* keys the player holds down

vars == <<chart, cfg, rt, held>>

-----------------------------------------------------------------------------
\* The chart.  Tiles are numbered from 0, as seq_id is.
Last == Len(chart) - 1
At(i) == chart[i + 1]

Min2(a, b) == IF a < b THEN a ELSE b

\* The song time each tile is due at.
Due[i \in 0..Len(chart)] == IF i = 0 THEN 0 ELSE Due[i - 1] + At(i - 1).gap

\* The next tile that is not a midspin, or the last tile.
NextSolid(i) ==
    CHOOSE j \in (i + 1)..Last :
        /\ ~At(j).mid \/ j = Last
        /\ \A k \in (i + 1)..(j - 1) : At(k).mid

\* Presses that are too many are punished on this tile, unless the next three
\* turns (a single midspin is stepped over) say that it belongs to a roll.
MultipressPenalty(i) ==
    LET Over(j) == IF j <= Last /\ At(j).mid THEN j + 1 ELSE j
        a == Over(i)
        b == Over(a + 1)
        c == Over(b + 1)
        d == Over(c + 1)
        Sharp(j) == At(j).turn \in {"tight", "narrow"}
        Tight(j) == At(j).turn = "tight"
    IN  /\ d <= Last
        /\ ~(Sharp(a) /\ ~Sharp(b))
        /\ ~(Sharp(a) /\ Sharp(b) /\ ~Sharp(c))
        /\ ~(Tight(a) /\ Tight(b) /\ Tight(c) /\ ~Tight(d))

\* A pause tile keeps the input locked for its beats and a fifth, unless the
\* next tile is due by then.
LockTime(i) ==
    LET time == At(i).pause * Beat + Beat \div 5
    IN  IF At(i).pause = 0 \/ i = Last \/ At(i).gap - time < 1 THEN 0 ELSE time

-----------------------------------------------------------------------------
(***************************************************************************)
(* The runtime record.  overload and multi are the two counters of the     *)
(* fail bar, in units of 1/(20 * Beat) of the bar; since is the time since *)
(* the last multipress damage, kept only while multi is not zero.          *)
(* downSeen and upSeen say that the last hit event of that kind was in the *)
(* current frame.  infinite is set during a recovery hit; owed says that a *)
(* spared player is to get one now, nested that one was owed during a      *)
(* recovery hit, which the code answers with a deeper call.  landed is the *)
(* hit_returned_true of the step's result: a hit of the step has moved.    *)
(* progress is the hold completion of the tile, in song time: the game's   *)
(* own value, read once per step.                                          *)
(***************************************************************************)
Start ==
    [seq |-> 0, now |-> 0, alive |-> TRUE, responsive |-> TRUE, lock |-> 0,
     pending |-> 0, midPending |-> 0, midspin |-> FALSE, taps |-> 0,
     consec |-> 0, over |-> 0, ignore |-> 0, downSeen |-> FALSE, upSeen |-> FALSE,
     hold |-> 0, overload |-> 0, multi |-> 0, since |-> 0, cooldown |-> 0,
     lives |-> cfg.lives, penalty |-> FALSE, first |-> FALSE, infinite |-> FALSE,
     nextHold |-> FALSE, progress |-> 0, owed |-> FALSE, nested |-> FALSE,
     landed |-> FALSE]

\* Song time past the moment the next tile is due; negative before it.
Late(r) == r.now - Due[r.seq + 1]

Here(r) == At(r.seq)
HasNext(r) == r.seq < Last
NextIsAuto(r) == HasNext(r) /\ At(r.seq + 1).auto
NextIsHold(r) == r.nextHold \/ (HasNext(r) /\ At(r.seq + 1).hold)
AutoPath(r) == cfg.autoPlayer \/ NextIsAuto(r)

Margin(r) == HitMargin(Late(r), CountedAt, PerfectAt, PureAt)

\* The fail bar is over; near the end of an official level it does not count.
FailBarOver(r) ==
    /\ r.overload > 20 * Beat \/ r.multi > 20 * Beat
    /\ ~(cfg.official /\ 25 * (r.seq + 1) >= 24 * (Last + 1))

-----------------------------------------------------------------------------
(***************************************************************************)
(* Death, damage and hits call each other: a death that is spared makes a  *)
(* recovery hit, which may cause damage and with it a death.  A hit is     *)
(* therefore cut where its damage is done: Strike is what comes before the *)
(* recovery hit that the damage may owe, Finish what comes after.          *)
(***************************************************************************)

\* Mutant of PayLife: no cooldown follows.
PayLifeOnly(r) == [r EXCEPT !.lives = @ - 1]

\* A life is paid; as long as one is left, misses cool down.
PayLife(r) ==
    [r EXCEPT !.lives = @ - 1, !.cooldown = IF r.lives > 1 THEN CooldownTime ELSE @]

\* die_or_recover, not for hitboxes, up to its recovery hit.
Die(r, overload) ==
    LET spared == cfg.noFail \/ (Here(r).safe /\ cfg.limit = "NONE") \/ r.cooldown > 0
        costsLife == ~spared /\ r.lives > 0
        paid == IF costsLife THEN PayLife(r) ELSE r
    IN  IF AutoPath(r) /\ ~cfg.oldAuto THEN r
        ELSE IF spared \/ (costsLife /\ r.lives > 1)
             THEN [paid EXCEPT !.owed = ~overload /\ ~r.midspin]
        ELSE [paid EXCEPT !.alive = FALSE]

\* Mutant of PureOnlyFails: under any limit.
AnyLimitFails(margin) == margin # "PERFECT" /\ ~cfg.noFail

\* Under the strictest limit anything but a pure perfect is a death.
PureOnlyFails(margin) ==
    cfg.limit = "PURE_PERFECT_ONLY" /\ margin # "PERFECT" /\ ~cfg.noFail

\* failbar_damage, without the drum controller.
FailBarDamage(r, multipress) ==
    IF multipress THEN [r EXCEPT !.multi = @ + 7 * Beat, !.since = 0]
                  ELSE [r EXCEPT !.overload = @ + 10 * Beat]

\* on_damage.  Tiles take longer than 20 ms.
OnDamage(r, multipress, apply, skip, margin) ==
    LET Pressed(x) == IF multipress /\ ~apply THEN [x EXCEPT !.consec = @ + 1] ELSE x
        Rolled(x) == IF x.consec > 8 THEN Die([x EXCEPT !.consec = 4], TRUE) ELSE x
        Weighed(x) == IF FailBarOver(x) THEN Die(x, TRUE) ELSE x
        Charged(x) == IF (multipress /\ ~apply) \/ skip THEN x ELSE Weighed(FailBarDamage(x, multipress))
        Limited(x) == IF PureOnlyFails(margin) THEN Die(x, FALSE) ELSE x
    IN  Limited(Charged(Rolled(Pressed(r))))

\* move_to_next_floor with the pause of the new tile.
MoveToNextFloor(r, target) ==
    LET lock == LockTime(target)
    IN  [r EXCEPT !.seq = target,
                  !.responsive = @ /\ ~At(target).portal /\ lock = 0,
                  !.lock = IF lock > 0 THEN lock ELSE @,
                  !.progress = 0,
                  !.landed = TRUE,
                  !.penalty = MultipressPenalty(target),
                  !.first = r.pending > 0]

\* Mutant of AfterLanding: the midspin's key is not queued.
AfterLandingKeyless(r) == [r EXCEPT !.midspin = Here(r).mid]

\* The end of a hit that moved: a midspin tile brings its own key.
AfterLanding(r) ==
    IF Here(r).mid
    THEN [r EXCEPT !.midspin = TRUE, !.pending = @ + 1, !.midPending = @ + 1]
    ELSE [r EXCEPT !.midspin = FALSE]

\* A hit that finds its tile: extra presses are punished first.
StrikeTile(r, margin) ==
    IF r.first /\ r.penalty /\ ~r.midspin
    THEN [end |-> "punished", target |-> r.seq + 1,
          rt |-> OnDamage(r, TRUE, Here(r).turn = "wide", FALSE, margin)]
    ELSE [end |-> "taken", target |-> r.seq + 1, rt |-> r]

\* A hit that does not: right after a hold it is let off, else it is damage.
Miss(r, margin) ==
    LET sinceEntry == r.now - Due[r.seq]
        afterHold == /\ r.seq > 0
                     /\ At(r.seq - 1).hold
                     /\ 2 * sinceEntry < Beat /\ -Beat < 2 * sinceEntry
    IN  IF afterHold /\ cfg.strictHolds /\ HasNext(r) /\ ~At(r.seq + 1).hold
        THEN [end |-> "none", rt |-> OnDamage(r, FALSE, FALSE, FALSE, "TOO_EARLY")]
        ELSE IF afterHold \/ (Here(r).hold /\ r.seq = 0) THEN [end |-> "none", rt |-> r]
        ELSE [end |-> "missed",
              rt |-> OnDamage(r, FALSE, FALSE, margin = "TOO_LATE", margin)]

\* The tile is tapped or, with its last tap, entered.
Land(r, target) ==
    IF r.over > 0 THEN [r EXCEPT !.over = @ - 1]
    ELSE IF r.taps + 1 < At(target).taps /\ ~cfg.hitOnce THEN [r EXCEPT !.taps = @ + 1]
    ELSE AfterLanding(MoveToNextFloor([r EXCEPT !.taps = 0], target))

Forgiven(r) == [r EXCEPT !.penalty = FALSE, !.first = FALSE]

Finish(strike) ==
    CASE strike.end = "none"     -> strike.rt
      [] strike.end = "missed"   -> Forgiven(strike.rt)
      [] strike.end = "taken"    -> Land(strike.rt, strike.target)
      [] strike.end = "punished" -> Land(Forgiven(strike.rt), strike.target)

(***************************************************************************)
(* The input of one step, as counts.  release "clear" is a touch that ends *)
(* a hold, "force" one that counts as a release whatever is held.          *)
(***************************************************************************)
Inputs ==
    [dt : Dts, endsFrame : Frames, down : 0..MaxDown, up : 0..MaxDown,
     over : 0..MaxOver, ignore : 0..MaxIgnore, upIgnore : 0..MaxIgnore, release : Releases]

NoInput == [ignore |-> 0]

\* hit_input_event: the first hit event of a frame sets what is to be ignored,
\* the first release event of a frame adds to it.
GateDown(r, in) ==
    IF r.downSeen THEN r ELSE [r EXCEPT !.downSeen = TRUE, !.ignore = in.ignore]

GateUp(r, in) ==
    IF r.upSeen THEN r ELSE [r EXCEPT !.upSeen = TRUE, !.ignore = @ + in.upIgnore]

\* hit: the tile is taken when the margin is valid, on an auto path, off a
\* midspin or in a recovery; a fail bar that is over takes it back.
Strike(r, in, auto) ==
    LET open == IF auto THEN r ELSE GateDown(r, in)
        margin == IF r.infinite THEN "FAIL_MISS" ELSE Margin(r)
        taken == /\ HasNext(r)
                 /\ \/ IsValidHit(Margin(r), cfg.limit)
                    \/ (AutoPath(r) \/ auto) /\ ~cfg.oldAuto
                    \/ r.midspin
                    \/ r.infinite
                 /\ ~FailBarOver(r) \/ cfg.noFail
    IN  IF ~r.responsive THEN [end |-> "none", rt |-> r]
        ELSE IF ~auto /\ open.ignore > 0
             THEN [end |-> "none", rt |-> [open EXCEPT !.ignore = @ - 1]]
        ELSE IF taken THEN StrikeTile(open, margin) ELSE Miss(open, margin)

\* A recovery hit is owed within the recovery hit.
Nested(r) == [r EXCEPT !.owed = FALSE, !.nested = @ \/ r.owed]

\* The recovery hit of die_or_recover.
RecoveryHit(r) ==
    LET Rest(strike) == Finish([strike EXCEPT !.rt = Nested(@)])
    IN  [Rest(Strike([r EXCEPT !.owed = FALSE, !.infinite = TRUE], NoInput, FALSE))
            EXCEPT !.infinite = FALSE]

Recovered(r) == IF r.owed THEN RecoveryHit(r) ELSE r

\* The result of a recovery hit that is not ignored replaces that of the step,
\* hit_returned_true with it.
Replaced(r) ==
    LET processed == r.owed /\ r.responsive /\ (r.downSeen => r.ignore = 0)
    IN  [r EXCEPT !.landed = @ /\ ~processed]

\* die_or_recover outside a hit.
DieOrRecover(r, overload) == Recovered(Replaced(Die(r, overload)))

Hit(r, in, auto) ==
    LET Rest(strike) == Finish([strike EXCEPT !.rt = Recovered(@)])
    IN  Rest(Strike(r, in, auto))

-----------------------------------------------------------------------------
\* The parts of playercontrol_step, in its order.

\* Op is done again while it changes the tile.
Settle(Op(_), r) ==
    LET run[i \in 0..Rounds] ==
            IF i = 0 THEN [now |-> r, before |-> -1]
            ELSE LET p == run[i - 1]
                 IN  IF p.now.seq = p.before THEN p
                     ELSE [now |-> Op(p.now), before |-> p.now.seq]
    IN  run[Rounds].now

\* Mutant of Emptied: no floor.
EmptiedBelow(part, rate, dt) == part - rate * dt

\* A part of the bar after dt.
Emptied(part, rate, dt) == Larger(0, part - rate * dt)

\* Mutant of FailBarUpdate: the bar is not judged again.
FailBarUpdateBlind(r, dt) == [r EXCEPT !.overload = Emptied(@, 8, dt)]

\* failbar_update: a bar that is over kills once and is then cut to a half;
\* it empties with the beats, the multipress half of it after six calm beats.
FailBarUpdate(r, dt) ==
    LET Halved(x) == [x EXCEPT !.overload = Min2(@, 10 * Beat), !.multi = Min2(@, 10 * Beat)]
        Judged(x) == IF FailBarOver(x) THEN Halved(DieOrRecover(x, TRUE)) ELSE x
        calm == r.since + dt > 6 * Beat
        Drained(x) == [x EXCEPT !.overload = Emptied(@, 8, dt),
                                !.multi = IF calm THEN 0 ELSE Emptied(@, 4, dt),
                                !.since = IF calm \/ x.multi <= 4 * dt THEN 0 ELSE @ + dt]
    IN  IF dt = 0 THEN r ELSE Drained(Judged(r))

\* valid_input_was_released, counts only: the keys of the hold that are left.
ReleasedKeys(r, in, left) ==
    IF in.release = "clear" /\ r.hold > 0 THEN [released |-> TRUE, hold |-> 0]
    ELSE IF in.release = "force" THEN [released |-> TRUE, hold |-> left]
    ELSE IF in.up > 0
         THEN [released |-> TRUE,
               hold |-> IF r.hold < in.up THEN left ELSE Min2(r.hold - in.up, left)]
    ELSE [released |-> left < r.hold, hold |-> Min2(r.hold, left)]

\* check_post_hold_fail: the planet has gone on past the next tile.
LateLimit(r) ==
    IF cfg.noFail \/ Here(r).safe THEN CountedAt ELSE Larger(Beat, 2 * CountedAt)

\* Mutant of CheckPostHoldFail: only tiles that are held are checked.
CheckPostHoldOnly(r) ==
    IF HasNext(r) /\ Here(r).hold /\ Late(r) > LateLimit(r) THEN DieOrRecover(r, FALSE) ELSE r

CheckPostHoldFail(r) ==
    IF HasNext(r) /\ Late(r) > LateLimit(r) THEN DieOrRecover(r, FALSE) ELSE r

\* Mutant of AutoShouldHit: on the tile, not from the tile on.
AutoHitsExactly(r) == HasNext(r) /\ Late(r) = 0

AutoShouldHit(r) == HasNext(r) /\ Late(r) >= 0

\* otto_hold_hit: up to five hits without a key, one with the old auto.
OttoHoldHit(r) ==
    LET AutoHit(x) ==
            IF AutoShouldHit(x)
            THEN Hit([x EXCEPT !.pending = 0, !.midPending = 0], NoInput, TRUE)
            ELSE x
    IN  IF ~AutoPath(r) /\ ~(Here(r).hold /\ Here(r).auto) THEN r
        ELSE IF cfg.oldAuto THEN AutoHit(r)
        ELSE AutoHit(AutoHit(AutoHit(AutoHit(AutoHit(r)))))

\* What the hold has still to run before it may be let go.
HoldTooShort(r) == r.progress < Here(r).gap - CountedAt

OwnHold(r) == Here(r).hold /\ ~Here(r).auto /\ ~AutoPath(r)

\* update_hold_behavior: letting go too soon is a death, in time it is a hit.
UpdateHoldBehavior(r, released) ==
    IF ~released \/ ~OwnHold(r) THEN r
    ELSE IF HoldTooShort(r)
         THEN IF r.seq # 0 /\ cfg.requireHolding THEN DieOrRecover(r, FALSE) ELSE r
    ELSE IF NextIsHold(r) THEN r ELSE Hit(r, NoInput, FALSE)

\* hit_hold_floors_if_started_at_hold: the checkpoint is tile 0.
HitStartHold(r) ==
    IF r.seq = 0 /\ Here(r).hold /\ ~cfg.autoPlayer /\ AutoShouldHit(r)
    THEN Hit(r, NoInput, FALSE) ELSE r

\* check_pre_hold_fail: the hold is under way and nothing is held.
CheckPreHoldFail(r) ==
    IF /\ OwnHold(r) /\ r.seq # 0 /\ cfg.requireHolding /\ r.hold = 0
       /\ r.progress > Here(r).gap - CountedAt
       /\ r.progress < CountedAt
    THEN DieOrRecover(r, FALSE) ELSE r

\* refresh_hold_keys_after_hit, on the result of the whole step so far.
RefreshHold(r, keys) ==
    IF r.landed /\ Here(r).hold THEN [r EXCEPT !.hold = keys] ELSE r

CanConsumeKey(r) ==
    /\ r.pending > 0
    /\ HasNext(r)
    /\ \/ Here(r).hold /\ ~cfg.strictHolds
       \/ NextIsHold(r)
       \/ ~Here(r).hold
       \/ HoldTooShort(r)

\* One round of the key loop.  A key on the way to an auto tile is only an
\* input event; a midspin reached by a key is left with the key it brought.
ConsumeKey(r, in, keys) ==
    LET taken == [r EXCEPT !.pending = @ - 1]
        Struck(x) == RefreshHold(Hit(x, in, FALSE), keys)
        Spare(x) == [x EXCEPT !.pending = @ - 1, !.midPending = @ - 1]
        Again(x) == IF x.midspin /\ x.pending > 0 /\ x.midPending > 0
                    THEN Struck(Spare(x)) ELSE x
    IN  IF ~CanConsumeKey(r) THEN r
        ELSE IF AutoPath(r) THEN [GateDown(taken, in) EXCEPT !.ignore = Larger(0, @ - 1)]
        ELSE Again(Struck(taken))

\* Mutant of UpdateLock: a lock that has run out exactly is not taken off.
UpdateLockLate(r, dt) ==
    IF r.lock = 0 \/ r.responsive THEN r
    ELSE IF r.lock >= dt THEN [r EXCEPT !.lock = @ - dt]
    ELSE [r EXCEPT !.lock = 0, !.responsive = TRUE]

\* update_lock_input.
UpdateLock(r, dt) ==
    IF r.lock = 0 \/ r.responsive THEN r
    ELSE IF r.lock > dt THEN [r EXCEPT !.lock = @ - dt]
    ELSE [r EXCEPT !.lock = 0, !.responsive = TRUE]

\* What comes before the judgement: cooldown, planet, hold cache.
Advance(r, in) ==
    [r EXCEPT !.cooldown = Larger(0, @ - in.dt),
              !.now = @ + in.dt,
              !.progress = r.now + in.dt - Due[r.seq],
              !.nextHold = HasNext(r) /\ At(NextSolid(r.seq)).hold]

\* The keys that went down join the ones that wait.
Enqueue(r, in) ==
    LET counted == [r EXCEPT !.over = in.over]
    IN  IF in.down = 0 THEN counted
        ELSE [counted EXCEPT !.pending = @ + in.down,
                             !.consec = IF in.down = 1 THEN 0 ELSE @,
                             !.first = TRUE]

\* playercontrol_step on a player that is alive, keys being held after it.
\* It ends early after a death in the fail bar, after the post-hold checks
\* and after the hold checks.  The hold cache and the completion do not outlive
\* the step, and the frame gates open again with the next frame.
StepOf(r, in, keys) ==
    LET Raised(x) == IF in.up > 0 \/ in.upIgnore > 0 THEN GateUp(x, in) ELSE x
        Played(x) == IF ~x.alive THEN x
                     ELSE UpdateLock(Raised(Settle(LAMBDA y : ConsumeKey(y, in, keys), x)), in.dt)
        Checked(x, let) == Settle(CheckPreHoldFail, Settle(HitStartHold,
                               UpdateHoldBehavior(Enqueue(Settle(OttoHoldHit, x), in), let)))
        Held(x, let) == IF ~x.alive THEN x ELSE Played(Checked(x, let))
        Passed(x, let) == Settle(CheckPostHoldFail, [x EXCEPT !.hold = let.hold])
        Judged(x, let) == IF ~x.alive THEN x ELSE Held(Passed(x, let), let.released)
        Barred(x) == Judged(x, ReleasedKeys(x, in, keys))
    IN  [Barred(FailBarUpdate(Advance(r, in), in.dt))
            EXCEPT !.progress = 0, !.nextHold = FALSE, !.landed = FALSE,
                   !.downSeen = @ /\ ~in.endsFrame,
                   !.upSeen = @ /\ ~in.endsFrame]

-----------------------------------------------------------------------------
Init ==
    /\ \E game \in Games : chart = game[1] /\ cfg = game[2]
    /\ rt = Start
    /\ held = 0

\* What the game can report together: only keys that went down are over the
\* limit of keys or ignored, and the song moves between two frames.
Sensible(in) ==
    /\ in.endsFrame => in.dt > 0
    /\ in.over + in.ignore <= in.down
    /\ held + in.down - in.up \in 0..MaxHeld

\* A step with its input; the song is followed until Slack after the last tile.
Possible(in) ==
    /\ rt.alive /\ ~rt.nested
    /\ rt.now + in.dt <= Due[Last] + Slack
    /\ in.down > 0 => /\ rt.pending + in.down <= MaxPending
                      /\ rt.overload + rt.multi <= MaxBar
    /\ Sensible(in)

Step(in) ==
    /\ Possible(in)
    /\ held' = held + in.down - in.up
    /\ rt' = StepOf(rt, in, held + in.down - in.up)
    /\ UNCHANGED <<chart, cfg>>

Next == \E in \in Inputs : Step(in)

\* The song goes on: the game keeps calling with time that has passed.  This is
\* weak fairness of the steps with dt > 0, written out.
CanAdvance == \E in \in Inputs : in.dt > 0 /\ Possible(in)

Fairness == []<>(~CanAdvance) \/ []<><<rt'.now > rt.now>>_vars

Spec == Init /\ [][Next]_vars /\ Fairness

-----------------------------------------------------------------------------
TypeOK ==
    /\ <<chart, cfg>> \in Games /\ held \in 0..MaxHeld
    /\ rt.seq \in 0..Last /\ rt.now \in Nat
    /\ {rt.alive, rt.responsive, rt.midspin, rt.downSeen, rt.upSeen, rt.penalty,
        rt.first, rt.infinite, rt.nextHold, rt.owed, rt.nested, rt.landed} \subseteq BOOLEAN
    /\ {rt.lock, rt.pending, rt.midPending, rt.taps, rt.consec, rt.over, rt.ignore,
        rt.hold, rt.overload, rt.multi, rt.since, rt.cooldown, rt.lives} \subseteq Nat

\* A safe tile spares the player, unless the margins are limited.
SafeAt(i) == At(i).safe /\ cfg.limit = "NONE"

\* The death of the player would count now.
Mortal == ~cfg.noFail /\ ~SafeAt(rt.seq) /\ rt.cooldown = 0
          /\ (~AutoPath(rt) \/ cfg.oldAuto)

\* No tile up to i has spared the player or been taken for him.
Unaided(i) == \A j \in 0..i : ~At(j).safe /\ (At(j).auto => cfg.oldAuto)

\* While the planet turns past a tile the player cannot stay behind: after a
\* step a player who can die is not later than the post-hold limit.  A tile that
\* aided him can leave him later: a midspin that is safe keeps him, and the key
\* that takes him on is consumed after check_post_hold_fail.
NeverLeftBehind ==
    rt.alive /\ HasNext(rt) /\ Mortal /\ Unaided(rt.seq) => Late(rt) <= LateLimit(rt)

\* The hit that spares a player asks for no further one (die_or_recover calls
\* hit, which calls die_or_recover), with one exception: the strictest limit
\* together with lives.  There every recovery hit that a fail bar takes back is
\* a death again, spared again by the cooldown, and the calls never come back.
NestsOnlyWithLivesAndPure ==
    rt.nested => cfg.limit = "PURE_PERFECT_ONLY" /\ cfg.lives > 0

\* A bar that is over has killed, or the player is spared, or was on the tile
\* before: the damage of a hit is done before the tile is entered, and no bar
\* that is over is carried any further.
FailBarKills ==
    rt.alive /\ Mortal /\ FailBarOver(rt) =>
        rt.seq > 0 /\ (SafeAt(rt.seq - 1) \/ (Here(rt).auto /\ ~cfg.oldAuto))

\* However many of the checks of one step fail, it costs one life, none while
\* the cooldown of the last one runs, and the player dies with the last life.
OneLifeAtATime ==
    [][/\ rt'.lives \in {rt.lives, rt.lives - 1}
       /\ rt'.lives < rt.lives => rt.cooldown <= rt'.now - rt.now
       /\ ~rt'.alive => rt'.lives = 0]_vars

\* The key a midspin brings is never lost: a player on a midspin still has it,
\* unless it went into the next tile as a first tap or that tile is automatic.
\* Without it the player would stay: the recovery hit is not made there.  Who
\* was spared with a life may lose it, for a bar that is over takes the hit back,
\* and so may a player on a midspin that is a pause: no chart of the run has one.
MidspinKeyKept ==
    rt.alive /\ rt.lives = cfg.lives /\ rt.midspin /\ HasNext(rt)
       => rt.pending > 0 \/ rt.taps > 0 \/ AutoPath(rt)

\* Nothing but a press in time leads to the tile i: no tile aids the player and
\* the tile before is no midspin, which is left whatever the margin.
Pressed(i) ==
    /\ i > 0 /\ Unaided(i) /\ ~At(i - 1).mid
    /\ cfg.autoPlayer => cfg.oldAuto

\* A pause lets go of the input before the next tile is missed, of a player who
\* pressed in time and was never spared: a recovery hit can come late and lock
\* past the next tile.  A portal never lets go.
PauseEndsInTime ==
    rt.alive /\ ~rt.responsive /\ ~Here(rt).portal
        /\ ~cfg.noFail /\ rt.lives = cfg.lives /\ Pressed(rt.seq)
       => Late(rt) <= CountedAt

\* The level ends for every player: on the last tile or in a death.  Only one
\* may wait for ever: a player without fail who tapped the tile after a midspin
\* too few times, for whom no recovery hit is made.
LevelEnds ==
    <>(rt.seq = Last \/ ~rt.alive \/ (cfg.noFail /\ rt.midspin /\ rt.taps > 0))
=============================================================================
