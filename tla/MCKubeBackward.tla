--------------------------- MODULE MCKubeBackward ---------------------------
(* Instances of KubeBackward for TLC. *)
EXTENDS KubeBackward

\* Every record has a timestamp of its own.
Distinct(p) == p

\* Two neighbours share a timestamp.
Pairs(p) == (p + 1) \div 2
=============================================================================
