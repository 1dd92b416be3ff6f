---------------------------- MODULE MCSourceSync ----------------------------
(* Instances of SourceSync for TLC.  Two containers, since an update must be *)
(* able to publish one event while the handler works on another.            *)
EXTENDS SourceSync, TLC

CONSTANTS c1, c2
=============================================================================
