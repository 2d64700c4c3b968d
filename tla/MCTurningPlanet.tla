--------------------------- MODULE MCTurningPlanet --------------------------
EXTENDS TurningPlanet

MCInstances ==
    [mobile : BOOLEAN, difficulty : Difficulties, trial : {50, 100, 200},
     countedAngle : {60}, bpm : {0, 100, 300}, pitch : {100}, scale : {50, 100}]
MCSweep == 9600000
MCTurn  == 300000
=============================================================================
