SPECIFICATION Spec
CONSTANTS
    caller = caller
    watcher = watcher
    required = required
    missing = missing
    None = None
    Callers <- MCCallers
    Others <- MCOthers
    DefaultOn <- MCOthers
    Hooks <- MCHooks
    Optional <- MCOptional
    Observers <- MCObservers
    MaxCalls = 2
    MaxRegisters = 1
    MaxDeaths = 1
INVARIANTS
    ActiveOnlyWhenHooked
    IntentRecovered
    ObserverSeesLatest
PROPERTIES
    StartupEnds
CHECK_DEADLOCK FALSE
