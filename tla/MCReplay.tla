------------------------------ MODULE MCReplay -------------------------------
EXTENDS Replay, TLC

CONSTANTS f1, f2, m1

MCFingers == {f1, f2}
MCMacroKeys == <<m1>>
MCSymmetry == Permutations(MCFingers)
=============================================================================
