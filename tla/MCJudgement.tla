----------------------------- MODULE MCJudgement ----------------------------
EXTENDS Judgement

Plain == [gap |-> 5, hold |-> FALSE, mid |-> FALSE, taps |-> 1, auto |-> FALSE,
          safe |-> FALSE, portal |-> FALSE, pause |-> 0, turn |-> "open"]
Hold   == [Plain EXCEPT !.hold = TRUE]
Mid    == [Plain EXCEPT !.mid = TRUE, !.gap = 0]
Double == [Plain EXCEPT !.taps = 2]
Wide   == [Plain EXCEPT !.turn = "wide"]
Auto   == [Plain EXCEPT !.auto = TRUE]
Safe   == [Plain EXCEPT !.safe = TRUE]
Pause  == [Plain EXCEPT !.pause = 1, !.gap = 10]
Portal == [Plain EXCEPT !.portal = TRUE]

Player == [noFail |-> FALSE, strictHolds |-> FALSE, requireHolding |-> TRUE,
           limit |-> "NONE", oldAuto |-> FALSE, autoPlayer |-> FALSE,
           hitOnce |-> FALSE, official |-> FALSE, lives |-> 0]
NoFail  == [Player EXCEPT !.noFail = TRUE, !.strictHolds = TRUE]
Expo    == [Player EXCEPT !.lives = 2, !.official = TRUE]
OldAuto == [Player EXCEPT !.autoPlayer = TRUE, !.oldAuto = TRUE]
PureOnly == [Player EXCEPT !.limit = "PURE_PERFECT_ONLY", !.hitOnce = TRUE]

ExpoPure == [Expo EXCEPT !.limit = "PURE_PERFECT_ONLY"]

Midspin == <<Plain, Mid, Double, Portal>>
Short   == <<Plain, Mid, Double>>
Holds   == <<Plain, Hold, Plain, Plain>>
Rest    == <<Plain, Pause, Auto, Plain>>
Roll    == <<Hold, Wide, Wide, Wide, Wide, Wide>>
Refuge  == <<Plain, Safe, Hold, Auto, Plain>>
Brief   == [Wide EXCEPT !.gap = 1]
Trill   == <<Brief, Brief, Brief, Brief, [Brief EXCEPT !.safe = TRUE], Brief, Brief, Brief>>

MCGames == {<<Midspin, NoFail>>, <<Midspin, Expo>>, <<Midspin, PureOnly>>,
            <<Short, ExpoPure>>, <<Rest, OldAuto>>}
MCHoldGames == {<<Holds, Player>>, <<Holds, NoFail>>, <<Holds, Expo>>,
                <<Roll, Player>>, <<Refuge, Player>>, <<Midspin, NoFail>>,
                <<Rest, Player>>, <<Trill, Player>>}
MCDts  == {1, 2}
MCNone == {"none"}
MCAnyRelease == {"none", "clear", "force"}
MCOnlyNew == {TRUE}
MCAnyFrame == BOOLEAN
MCFrameDts == {0, 2}
=============================================================================
