---------------------------- MODULE MCClockBridge ----------------------------
EXTENDS ClockBridge

MCSteps == {-1, 4}
=============================================================================
