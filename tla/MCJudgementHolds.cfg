SPECIFICATION Spec
CONSTANTS
    Games <- MCHoldGames
    Beat = 5
    CountedAt = 2
    PerfectAt = 1
    PureAt = 1
    CooldownTime = 8
    Rounds = 6
    Dts <- MCDts
    MaxBar = 200
    MaxDown = 1
    MaxOver = 0
    MaxPending = 2
    MaxIgnore = 0
    MaxHeld = 1
    Slack = 14
    Frames <- MCOnlyNew
    Releases <- MCAnyRelease
INVARIANTS
    FailBarKills
    PauseEndsInTime
PROPERTIES
    LevelEnds
CHECK_DEADLOCK FALSE
