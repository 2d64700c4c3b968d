------------------------------ MODULE MCIngress ------------------------------
(***************************************************************************)
(* Ingress for TLC.  Callers are interchangeable, so the safety runs use   *)
(* their permutations; the liveness run does not.                          *)
(***************************************************************************)
EXTENDS IngressInvariant, TLC

CallerSymmetry == Permutations(Callers)
=============================================================================
