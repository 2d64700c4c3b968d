SPECIFICATION Spec
CONSTANTS
    f1 = f1
    f2 = f2
    m1 = m1
    Fingers <- MCFingers
    MacroKeys <- MCMacroKeys
    Synthetic = synthetic
    MaxEvents = 3
    MaxSources = 2
    Slots = 2
    MaxHits = 2
INVARIANTS
    AutoHitsOnce
    HeldHasRelease
SYMMETRY MCSymmetry
