---------------------------- MODULE MCControlPlane ---------------------------
EXTENDS ControlPlane

CONSTANTS caller, watcher, required, missing

MCCallers == {caller}
MCOthers == {"auto_replay"}
MCHooks == {required, missing}
MCOptional == {missing}
MCObservers == {watcher}
=============================================================================
