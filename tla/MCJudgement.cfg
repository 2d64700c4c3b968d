SPECIFICATION Spec
CONSTANTS
    Games <- MCGames
    Beat = 5
    CountedAt = 2
    PerfectAt = 1
    PureAt = 1
    CooldownTime = 8
    Rounds = 6
    Dts <- MCFrameDts
    MaxBar = 110
    MaxDown = 1
    MaxOver = 1
    MaxPending = 2
    MaxIgnore = 1
    MaxHeld = 1
    Slack = 6
    Frames <- MCAnyFrame
    Releases <- MCNone
INVARIANTS
    TypeOK
    NeverLeftBehind
    NestsOnlyWithLivesAndPure
    MidspinKeyKept
PROPERTIES
    OneLifeAtATime
CHECK_DEADLOCK FALSE
