SPECIFICATION PlanetSpec
CONSTANTS
    Instances <- MCInstances
    Sweep <- MCSweep
    Turn <- MCTurn
INVARIANTS
    MirrorImage
    EasierKeepsHits
PROPERTIES
    MarginNeverGoesBack
CHECK_DEADLOCK FALSE
