--------------------------- MODULE MCIngressQueue ---------------------------
(***************************************************************************)
(* IngressQueue with rings of three events and two commands: small enough  *)
(* for both to wrap several times within MaxSeq pushes.                    *)
(***************************************************************************)
EXTENDS IngressQueue
=============================================================================
